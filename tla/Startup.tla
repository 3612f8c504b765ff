------------------------------ MODULE Startup -------------------------------
(***************************************************************************)
(* From the command line to a serving daemon: run (cmd/clauded/main.go),   *)
(* Load and Validate (internal/config/config.go).  Load goes through the   *)
(* arguments twice: a scan of its own looks for the configuration file,    *)
(* which is applied before the environment, and flag.Parse applies the     *)
(* flags, which come last.  Each round of a loop is a step.                *)
(* max_concurrency stands for the options, --session-store for the flags   *)
(* whose value may be any text, --metrics for those that take none.        *)
(***************************************************************************)
EXTENDS Naturals, Sequences

CONSTANTS
    Words,       \* arguments that begin with no dash, and values; not empty
    ConfigWords, \* those that begin with "config="
    EnvWords,    \* those that the environment may hold
    EnvInt,      \* word that strconv.Atoi reads, in base 10 -> the number
    FlagInt,     \* word that flag.Int reads: 0x10 is 16, 010 is 8 -> the number
    Readable,    \* paths of files that can be read
    FileInt,     \* those that say max_concurrency -> the number
    MaxArgs      \* length of the command line (bound)

Unset   == "unset"
Dashed  == "--..."           \* the text of an argument that begins with a dash
Number  == "max-concurrency"
Switch  == "metrics"
Valued  == {"config", Number, "session-store"}
Names   == Valued \union {Switch}

ASSUME StartupAssumption ==
    /\ Words \cap {Unset, Dashed} = {}
    /\ ConfigWords \subseteq Words \ {"config"} /\ EnvWords \subseteq Words
    /\ EnvInt \in [DOMAIN EnvInt -> Nat] /\ DOMAIN EnvInt \subseteq Words
    /\ FlagInt \in [DOMAIN FlagInt -> Nat] /\ DOMAIN FlagInt \subseteq Words
    /\ FileInt \in [DOMAIN FileInt -> Nat]
    /\ DOMAIN FileInt \subseteq Readable /\ Readable \subseteq Words
    /\ MaxArgs \in Nat

(* An argument is --name, --name=value or a word, whose name is itself.    *)
Tokens ==
    [dash : {TRUE}, name : Names \union {"version"}, value : {Unset}]
    \union [dash : {TRUE}, name : Valued, value : Words]
    \union [dash : {FALSE}, name : Words, value : {Unset}]

VARIABLES
    args,        \* os.Args[1:]
    envPath,     \* CLAUDED_CONFIG
    envNumber,   \* CLAUDED_MAX_CONCURRENCY
    phase,       \* what run does next
    at,          \* the argument that the loop at hand looks at next
    kept,        \* out in stripUnknownExcept, as positions in args
    set,         \* flag -> the value that the Parse at hand has set
    path,        \* configPath in Load
    number       \* cfg.MaxConcurrency

inputs == <<args, envPath, envNumber>>
loop   == <<at, kept, set>>
vars   == <<inputs, phase, loop, path, number>>

NoneSet == [n \in Names |-> Unset]

Init ==
    /\ args \in UNION {[1 .. n -> Tokens] : n \in 0 .. MaxArgs}
    /\ envPath \in EnvWords \union {Unset}
    /\ envNumber \in EnvWords \union {Unset}
    /\ phase = "version"
    /\ at = 1 /\ kept = <<>> /\ set = NoneSet
    /\ path = Unset
    /\ number = 2

\* Another loop, or none, begins.
Goto(p) == phase' = p /\ at' = 1 /\ set' = NoneSet /\ UNCHANGED <<inputs, kept>>

-----------------------------------------------------------------------------
(* run, before Load: --version anywhere on the command line. *)

AsksVersion == \E i \in DOMAIN args : args[i].dash /\ args[i].name = "version"

PrintVersion == phase = "version" /\ AsksVersion  /\ Goto("printed") /\ UNCHANGED <<path, number>>
LoadStarts   == phase = "version" /\ ~AsksVersion /\ Goto("strip")   /\ UNCHANGED <<path, number>>

-----------------------------------------------------------------------------
(* stripUnknownExcept: every argument that, once its dashes are trimmed,   *)
(* also if it has none, is "config", with the next one unless that begins  *)
(* with a dash, or begins with "config=".                                  *)

Mentions(i) == args[i].name = "config" \/ (~args[i].dash /\ args[i].name \in ConfigWords)

Bare(i) == args[i].name = "config" /\ args[i].value = Unset

\* Mutant of WithNext: there is always an argument after this one.
WithNextUnchecked == Bare(at) /\ (at < Len(args) => ~args[at + 1].dash)

WithNext == Bare(at) /\ at < Len(args) /\ ~args[at + 1].dash

Stripping == phase = "strip" /\ at <= Len(args) /\ UNCHANGED <<inputs, phase, set, path, number>>

\* Mutant of KeepTwo: the value after a bare --config is not kept.
KeepFlagOnly == Stripping /\ WithNext /\ kept' = Append(kept, at) /\ at' = at + 2

KeepTwo == Stripping /\ WithNext /\ kept' = kept \o <<at, at + 1>> /\ at' = at + 2

KeepOne ==
    Stripping /\ Mentions(at) /\ ~WithNext /\ kept' = Append(kept, at) /\ at' = at + 1
Drop ==
    Stripping /\ ~Mentions(at) /\ UNCHANGED kept /\ at' = at + 1

ScanStarts == phase = "strip" /\ at > Len(args) /\ Goto("scan") /\ UNCHANGED <<path, number>>

-----------------------------------------------------------------------------
(* flag.Parse over the arguments s: it stops at the end or at a word; it   *)
(* refuses a flag that is not known, or without a value, or with one that  *)
(* is not a number; otherwise it reads one flag, with its value.           *)

Stops(s) == at <= Len(s) => ~s[at].dash

\* The argument after a flag is its value, whatever it looks like.
Separate(s) == s[at].value = Unset /\ s[at].name # Switch

Text(t) == IF t.dash THEN Dashed ELSE t.name

Value(s) ==
    IF Separate(s) THEN IF at < Len(s) THEN Text(s[at + 1]) ELSE Unset
    ELSE IF s[at].name = Switch THEN "true" ELSE s[at].value

Refuses(s, known) ==
    /\ ~Stops(s)
    /\ \/ s[at].name \notin known
       \/ Value(s) = Unset
       \/ s[at].name = Number /\ Value(s) \notin DOMAIN FlagInt

ReadFlag(s, known) ==
    /\ ~Stops(s) /\ ~Refuses(s, known)
    /\ set' = [set EXCEPT ![s[at].name] = Value(s)]
    /\ at' = IF Separate(s) THEN at + 2 ELSE at + 1
    /\ UNCHANGED <<inputs, phase, kept, path, number>>

-----------------------------------------------------------------------------
(* Load: the scan, whose errors are ignored, the file that it names or     *)
(* else the environment, then the environment, then the flags.             *)

Scanned == [k \in DOMAIN kept |-> args[kept[k]]]

ScanFlag == phase = "scan" /\ ReadFlag(Scanned, {"config"})

FindFile ==
    /\ phase = "scan" /\ (Stops(Scanned) \/ Refuses(Scanned, {"config"}))
    /\ path' = IF set["config"] # Unset THEN set["config"] ELSE envPath
    /\ Goto("file") /\ UNCHANGED number

\* There is no file, or one that can be read.
Loadable(f) == f \in Readable \union {Unset}

FileFails == phase = "file" /\ ~Loadable(path) /\ Goto("failed") /\ UNCHANGED <<path, number>>

ApplyFile ==
    /\ phase = "file" /\ Loadable(path)
    /\ number' = IF path \in DOMAIN FileInt THEN FileInt[path] ELSE number
    /\ Goto("env") /\ UNCHANGED path

\* What cannot be parsed is passed over in silence.
EnvValue == IF envNumber \in DOMAIN EnvInt THEN EnvInt[envNumber] ELSE number

ApplyEnv == phase = "env" /\ number' = EnvValue /\ Goto("flags") /\ UNCHANGED path

ParseFlag == phase = "flags" /\ ReadFlag(args, Names)
FlagsFail == phase = "flags" /\ Refuses(args, Names) /\ Goto("failed") /\ UNCHANGED <<path, number>>

\* Mutant of ApplyFlags: flags that were not given are applied, too.
ApplyFlagsAlways ==
    /\ phase = "flags" /\ Stops(args)
    /\ number' = IF set[Number] = Unset THEN 2 ELSE FlagInt[set[Number]]
    /\ Goto("validate") /\ UNCHANGED path

\* Only what was given is applied.
ApplyFlags ==
    /\ phase = "flags" /\ Stops(args)
    /\ number' = IF set[Number] = Unset THEN number ELSE FlagInt[set[Number]]
    /\ Goto("validate") /\ UNCHANGED path

Valid == number >= 1

\* Validate, session.Open and ListenAndServe; each may end the daemon.
Serve     == phase = "validate" /\ Valid /\ Goto("serving") /\ UNCHANGED <<path, number>>
CannotRun == phase = "validate" /\ Goto("failed") /\ UNCHANGED <<path, number>>

Next ==
    \/ PrintVersion \/ LoadStarts
    \/ KeepTwo \/ KeepOne \/ Drop \/ ScanStarts
    \/ ScanFlag \/ FindFile
    \/ FileFails \/ ApplyFile \/ ApplyEnv
    \/ ParseFlag \/ FlagsFail \/ ApplyFlags
    \/ Serve \/ CannotRun

Spec == Init /\ [][Next]_vars
=============================================================================
