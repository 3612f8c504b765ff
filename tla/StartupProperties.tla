------------------------- MODULE StartupProperties --------------------------
(***************************************************************************)
(* What Startup promises for a command line as the usage describes it.     *)
(***************************************************************************)
EXTENDS Startup

Values == Words \union {Unset, Dashed, "true"}

\* The positions that stripUnknownExcept keeps are positions of the command
\* line, and numbers are numbers at every layer.
TypeOK ==
    /\ args \in Seq(Tokens)
    /\ envPath \in EnvWords \union {Unset}
    /\ envNumber \in EnvWords \union {Unset}
    /\ phase \in {"version", "printed", "strip", "scan", "file", "env", "flags",
                  "validate", "serving", "failed"}
    /\ at \in Nat \ {0}
    /\ kept \in Seq(DOMAIN args)
    /\ set \in [Names -> Values]
    /\ path \in Values
    /\ number \in Nat

\* Every flag that needs a value has one that cannot be taken for a flag, and
\* there are no other words, nor a value, after a space, that is "config" or
\* begins with "config=", which the scan takes for one of its flags.
TakesNext(i) == args[i].dash /\ args[i].value = Unset /\ args[i].name \in Valued

Plain ==
    /\ \A i \in DOMAIN args :
          IF TakesNext(i) THEN i < Len(args) /\ ~args[i + 1].dash
          ELSE i < Len(args) => args[i + 1].dash
    /\ args # <<>> => args[1].dash
    /\ \A i \in DOMAIN args : args[i].dash \/ ~Mentions(i)

Given(n) == {i \in DOMAIN args : args[i].dash /\ args[i].name = n}

\* The value that --n at i is given, and the one of the last --n.
GivenAt(i) == IF args[i].value # Unset THEN args[i].value ELSE args[i + 1].name

LastGiven(n) == GivenAt(CHOOSE i \in Given(n) : \A j \in Given(n) : j <= i)

\* The file that is asked for: the last --config, or else the environment.
Asked == IF Given("config") # {} THEN LastGiven("config") ELSE envPath

\* The scan and flag.Parse agree on --config although they go through the
\* arguments differently: on a plain command line the file that is read is the
\* one that the last --config names, or the environment if there is none.
ScanAgrees ==
    Plain /\ phase \notin {"version", "printed", "strip", "scan"} => path = Asked

\* The layers from the lowest: default, file, environment, flags.
FromFile  == IF Asked \in DOMAIN FileInt THEN FileInt[Asked] ELSE 2
FromEnv   == IF envNumber \in DOMAIN EnvInt THEN EnvInt[envNumber] ELSE FromFile
FromFlags == IF Given(Number) # {} THEN FlagInt[LastGiven(Number)] ELSE FromEnv

\* Whatever the layers say and however flags are repeated and mixed, the
\* daemon serves with the value of the highest layer that has a usable one,
\* and does not serve when that is below one, whatever lower layers offer: so
\* the semaphore of Runs has a weight of one at least.
Precedence == Plain /\ phase = "serving" => number = FromFlags /\ FromFlags >= 1
=============================================================================
