---------------------------- MODULE StartupProofs ----------------------------
(***************************************************************************)
(* Proofs about Startup, for plain command lines of any length and any     *)
(* values, numbers and files.                                              *)
(***************************************************************************)
EXTENDS StartupProperties, TLAPS, SequenceTheorems

(***************************************************************************)
(* The inductive invariant, for plain command lines.                       *)
(***************************************************************************)

Done == IF phase = "strip" THEN at ELSE Len(args) + 1

\* What stripUnknownExcept has kept: every --config so far, in order, each
\* with its value behind it, and words only as such values.
KeptInv ==
    /\ \A j, k \in DOMAIN kept : j < k => kept[j] < kept[k]
    /\ \A k \in DOMAIN kept : kept[k] < Done
    /\ \A i \in Given("config") : i < Done => \E k \in DOMAIN kept : kept[k] = i
    /\ \A k \in DOMAIN kept :
          IF args[kept[k]].dash
          THEN /\ args[kept[k]].name = "config"
               /\ TakesNext(kept[k]) => k < Len(kept) /\ kept[k + 1] = kept[k] + 1
          ELSE k > 1 /\ TakesNext(kept[k - 1])

\* v is the value of the last --n before position b, if there is one.
Latest(n, v, b) ==
    \/ v = Unset /\ \A i \in Given(n) : i >= b
    \/ \E i \in Given(n) : i < b /\ v = GivenAt(i) /\ \A j \in Given(n) : j < b => j <= i

ScanPosition == IF at <= Len(kept) THEN kept[at] ELSE Len(args) + 1

ScanInv ==
    /\ at <= Len(kept) => args[kept[at]].dash
    /\ Latest("config", set["config"], ScanPosition)

FlagInv ==
    /\ at <= Len(args) => args[at].dash
    /\ Latest(Number, set[Number], at)

LayerInv ==
    /\ phase \in {"version", "strip", "scan", "file"} => number = 2
    /\ phase = "env" => number = FromFile
    /\ phase = "flags" => number = FromEnv
    /\ phase \in {"validate", "serving"} => number = FromFlags
    /\ phase = "serving" => number >= 1

PlainInv ==
    /\ phase = "version" => kept = <<>>
    /\ phase \in {"strip", "scan"} => KeptInv
    /\ phase = "scan" => ScanInv
    /\ phase \notin {"version", "printed", "strip", "scan"} => path = Asked
    /\ phase = "flags" => FlagInv
    /\ LayerInv

\* What flag.Parse has accepted for the option is a number.
NumberInv == phase = "flags" /\ set[Number] # Unset => set[Number] \in DOMAIN FlagInt

StartupInv == NumberInv /\ (Plain => PlainInv)

-----------------------------------------------------------------------------
(* Types. *)

LEMMA TokenTypes ==
    ASSUME NEW t \in Tokens
    PROVE  /\ t.dash \in BOOLEAN
           /\ t.dash => t.name \in Names \union {"version"}
           /\ ~t.dash => t.name \in Words /\ t.value = Unset
           /\ t.value # Unset => t.value \in Words /\ t.name \in Valued
  BY DEF Tokens, Names, Valued, Number, Switch, Unset

\* A command line of any length is a sequence of arguments.
LEMMA InitType == Init => TypeOK
<1>1. ASSUME NEW n \in 0 .. MaxArgs, NEW s \in [1 .. n -> Tokens]
      PROVE  s \in Seq(Tokens)
  BY StartupAssumption
<1>2. Init => args \in Seq(Tokens)
  BY <1>1 DEF Init
<1>3. NoneSet \in [Names -> Values]
  BY DEF NoneSet, Values
<1>. QED
  BY <1>2, <1>3, StartupAssumption DEF Init, TypeOK, Values

\* The value of a flag is a word, or stands for one.
LEMMA ValueType ==
    ASSUME NEW s \in Seq(Tokens), at \in Nat \ {0}, ~Stops(s)
    PROVE  /\ at \in DOMAIN s /\ s[at] \in Tokens /\ s[at].dash
           /\ Value(s) \in Values
<1>1. at \in DOMAIN s /\ s[at] \in Tokens /\ s[at].dash
  BY DEF Stops
<1>2. at < Len(s) => s[at + 1] \in Tokens
  OBVIOUS
<1>3. CASE Separate(s)
  BY <1>1, <1>2, <1>3, TokenTypes DEF Value, Values, Text
<1>4. CASE ~Separate(s)
  BY <1>1, <1>4, TokenTypes DEF Value, Values, Separate
<1>. QED
  BY <1>1, <1>3, <1>4

LEMMA ReadFlagType ==
    ASSUME TypeOK, NEW s \in Seq(Tokens), NEW known \in SUBSET Names, ReadFlag(s, known)
    PROVE  set' \in [Names -> Values] /\ at' \in Nat \ {0}
<1>1. ~Stops(s) /\ s[at].name \in Names
  BY DEF ReadFlag, Refuses
<1>2. Value(s) \in Values
  BY <1>1, ValueType DEF TypeOK
<1>. QED
  BY <1>1, <1>2 DEF ReadFlag, TypeOK

LEMMA ScannedType == TypeOK => Scanned \in Seq(Tokens) /\ Len(Scanned) = Len(kept)
                                 /\ \A k \in DOMAIN kept : Scanned[k] = args[kept[k]]
  BY DEF TypeOK, Scanned

LEMMA NumberTypes ==
    ASSUME TypeOK
    PROVE  /\ path \in DOMAIN FileInt => FileInt[path] \in Nat
           /\ EnvValue \in Nat
  BY StartupAssumption DEF TypeOK, EnvValue

\* Every variable keeps its type: in particular stripUnknownExcept keeps
\* positions of the command line only, and a flag gives the option a number.
THEOREM TypeCorrect == Spec => [](TypeOK /\ NumberInv)
<1>1. Init => TypeOK /\ NumberInv
  BY InitType DEF Init, NumberInv
<1>2. TypeOK /\ NumberInv /\ [Next]_vars => (TypeOK /\ NumberInv)'
  <2> SUFFICES ASSUME TypeOK, NumberInv, [Next]_vars PROVE TypeOK' /\ NumberInv'
    OBVIOUS
  <2> NoneSet \in [Names -> Values] /\ NoneSet[Number] = Unset /\ {"config"} \in SUBSET Names
    BY DEF NoneSet, Values, Names, Valued, Number
  <2>1. CASE PrintVersion \/ LoadStarts \/ ScanStarts \/ FileFails \/ FlagsFail \/ Serve \/ CannotRun
    BY <2>1 DEF PrintVersion, LoadStarts, ScanStarts, FileFails, FlagsFail, Serve, CannotRun,
                Goto, inputs, TypeOK, NumberInv
  <2>2. CASE KeepTwo
    <3>1. at \in DOMAIN args /\ at + 1 \in DOMAIN args
      BY <2>2 DEF KeepTwo, Stripping, WithNext, TypeOK
    <3>2. kept \o <<at, at + 1>> \in Seq(DOMAIN args)
      BY <3>1 DEF TypeOK
    <3>. QED  BY <2>2, <3>2 DEF KeepTwo, Stripping, inputs, TypeOK, NumberInv
  <2>3. CASE KeepOne
    <3>1. at \in DOMAIN args
      BY <2>3 DEF KeepOne, Stripping, TypeOK
    <3>2. Append(kept, at) \in Seq(DOMAIN args)
      BY <3>1 DEF TypeOK
    <3>. QED  BY <2>3, <3>2 DEF KeepOne, Stripping, inputs, TypeOK, NumberInv
  <2>10. CASE Drop
    BY <2>10 DEF Drop, Stripping, inputs, TypeOK, NumberInv
  <2>4. CASE ScanFlag
    <3>1. set' \in [Names -> Values] /\ at' \in Nat \ {0}
      BY <2>4, ScannedType, ReadFlagType DEF ScanFlag
    <3>. QED  BY <2>4, <3>1 DEF ScanFlag, ReadFlag, inputs, TypeOK, NumberInv
  <2>5. CASE FindFile
    BY <2>5, StartupAssumption DEF FindFile, Goto, inputs, TypeOK, NumberInv, Values, Names, Valued
  <2>6. CASE ApplyFile \/ ApplyEnv
    BY <2>6, NumberTypes DEF ApplyFile, ApplyEnv, Goto, inputs, TypeOK, NumberInv
  <2>7. CASE ParseFlag
    <3>1. set' \in [Names -> Values] /\ at' \in Nat \ {0}
      BY <2>7, ReadFlagType DEF ParseFlag, TypeOK
    <3>2. NumberInv'
      BY <2>7, <3>1 DEF ParseFlag, ReadFlag, Refuses, NumberInv, TypeOK, Names, Valued
    <3>. QED  BY <2>7, <3>1, <3>2 DEF ParseFlag, ReadFlag, inputs, TypeOK
  <2>8. CASE ApplyFlags
    BY <2>8, StartupAssumption DEF ApplyFlags, Goto, inputs, TypeOK, NumberInv
  <2>9. CASE UNCHANGED vars
    BY <2>9 DEF vars, inputs, loop, TypeOK, NumberInv
  <2>. QED
    BY <2>1, <2>2, <2>3, <2>4, <2>5, <2>6, <2>7, <2>8, <2>9, <2>10 DEF Next
<1>. QED
  BY <1>1, <1>2, PTL DEF Spec

-----------------------------------------------------------------------------
(* The last --n before a position. *)

LEMMA GivenValue ==
    ASSUME TypeOK, Plain, NEW n \in Valued, NEW i \in Given(n)
    PROVE  GivenAt(i) # Unset
<1>1. i \in DOMAIN args /\ args[i] \in Tokens /\ args[i].dash /\ args[i].name = n
  BY DEF Given, TypeOK
<1>2. CASE args[i].value # Unset
  BY <1>2 DEF GivenAt
<1>3. CASE args[i].value = Unset
  <2>1. i + 1 \in DOMAIN args /\ ~args[i + 1].dash
    BY <1>1, <1>3 DEF Plain, TakesNext, TypeOK
  <2>2. args[i + 1].name \in Words
    BY <2>1, TokenTypes DEF TypeOK
  <2>. QED  BY <1>3, <2>2, StartupAssumption DEF GivenAt
<1>. QED
  BY <1>2, <1>3

LEMMA LatestIsLast ==
    ASSUME TypeOK, NEW n, NEW v, NEW b \in Int, b > Len(args), Latest(n, v, b)
    PROVE  IF Given(n) # {} THEN v = LastGiven(n) ELSE v = Unset
<1>. Len(args) \in Nat /\ \A i \in Given(n) : i \in Int /\ i < b
  BY DEF Given, TypeOK
<1>1. CASE v = Unset /\ \A i \in Given(n) : i >= b
  BY <1>1
<1>2. ASSUME NEW i \in Given(n), v = GivenAt(i), \A j \in Given(n) : j < b => j <= i
      PROVE  v = LastGiven(n)
  <2>1. \A j \in Given(n) : j <= i
    BY <1>2
  <2>2. \A k \in Given(n) : (\A j \in Given(n) : j <= k) => k = i
    BY <2>1
  <2>. QED  BY <1>2, <2>1, <2>2 DEF LastGiven
<1>. QED
  BY <1>1, <1>2 DEF Latest

\* One more --n, the only one between b and c; or none.
LEMMA OneMore ==
    ASSUME TypeOK, NEW n, NEW v, NEW b \in Int, NEW c \in Int, Latest(n, v, b),
           NEW i \in Given(n), b <= i, i < c, \A j \in Given(n) : b <= j /\ j < c => j = i
    PROVE  Latest(n, GivenAt(i), c)
<1>. \A j \in Given(n) : j \in Int
  BY DEF Given, TypeOK
<1>. QED
  BY DEF Latest

LEMMA NoMore ==
    ASSUME TypeOK, NEW n, NEW v, NEW b \in Int, NEW c \in Int, Latest(n, v, b),
           b <= c, \A j \in Given(n) : ~(b <= j /\ j < c)
    PROVE  Latest(n, v, c)
<1>. \A j \in Given(n) : j \in Int
  BY DEF Given, TypeOK
<1>. QED
  BY DEF Latest

\* With nothing before the first argument.
LEMMA NothingYet == ASSUME TypeOK, NEW n, NEW b, \A i \in Given(n) : i >= b PROVE Latest(n, Unset, b)
  BY DEF Latest

-----------------------------------------------------------------------------
(* stripUnknownExcept. *)

\* One or two positions more.
LEMMA GrownByOne ==
    ASSUME NEW S, NEW s \in Seq(S), NEW x \in S, NEW t, t = Append(s, x)
    PROVE  /\ Len(s) \in Nat /\ Len(t) = Len(s) + 1 /\ DOMAIN t = 1 .. Len(t)
           /\ \A k \in DOMAIN s : k \in 1 .. Len(s) /\ t[k] = s[k] /\ s[k] \in S
           /\ t[Len(s) + 1] = x
  OBVIOUS

LEMMA GrownByTwo ==
    ASSUME NEW S, NEW s \in Seq(S), NEW x \in S, NEW y \in S, NEW t, t = s \o <<x, y>>
    PROVE  /\ Len(s) \in Nat /\ Len(t) = Len(s) + 2 /\ DOMAIN t = 1 .. Len(t)
           /\ \A k \in DOMAIN s : k \in 1 .. Len(s) /\ t[k] = s[k] /\ s[k] \in S
           /\ t[Len(s) + 1] = x /\ t[Len(s) + 2] = y
<1>. DEFINE p == <<x, y>>
<1>1. p \in Seq(S) /\ Len(p) = 2 /\ p[1] = x /\ p[2] = y
  OBVIOUS
<1>2. t = s \o p
  OBVIOUS
<1>. HIDE DEF p
<1>3. t \in Seq(S) /\ Len(t) = Len(s) + 2 /\ Len(s) \in Nat
  BY <1>1, <1>2
<1>4. t[Len(s) + 1] = p[1] /\ t[Len(s) + 2] = p[2]
  BY <1>1, <1>2, <1>3
<1>. QED
  BY <1>1, <1>2, <1>3, <1>4

\* A --config with its value behind it is kept with it.
LEMMA KeepTwoInv ==
    ASSUME TypeOK, Plain, KeptInv, KeepTwo PROVE KeptInv'
<1>1. /\ phase = "strip" /\ phase' = "strip" /\ args' = args /\ at \in DOMAIN args /\ at + 1 \in DOMAIN args
      /\ args[at].name = "config" /\ args[at].value = Unset /\ ~args[at + 1].dash
      /\ kept' = kept \o <<at, at + 1>> /\ at' = at + 2
  BY DEF KeepTwo, Stripping, WithNext, Bare, TypeOK, inputs
<1>2. args[at].dash /\ TakesNext(at)
  BY <1>1 DEF Plain, TakesNext, Mentions, Valued
<1>3. /\ Len(kept') = Len(kept) + 2 /\ Len(kept) \in Nat
      /\ \A k \in DOMAIN kept : k \in DOMAIN kept' /\ kept'[k] = kept[k] /\ kept[k] \in Int /\ k <= Len(kept)
      /\ kept'[Len(kept) + 1] = at /\ kept'[Len(kept) + 2] = at + 1
      /\ \A k \in DOMAIN kept' : k \in DOMAIN kept \/ k = Len(kept) + 1 \/ k = Len(kept) + 2
  <2>1. at \in Int /\ at + 1 \in Int /\ DOMAIN args \subseteq Int /\ kept \in Seq(DOMAIN args)
    BY DEF TypeOK
  <2>2. /\ Len(kept) \in Nat /\ Len(kept') = Len(kept) + 2 /\ DOMAIN kept' = 1 .. Len(kept')
        /\ \A k \in DOMAIN kept : k \in 1 .. Len(kept) /\ kept'[k] = kept[k] /\ kept[k] \in DOMAIN args
        /\ kept'[Len(kept) + 1] = at /\ kept'[Len(kept) + 2] = at + 1
    BY <1>1, <2>1, GrownByTwo
  <2>3. DOMAIN kept = 1 .. Len(kept)
    BY <2>1
  <2>. QED  BY <2>1, <2>2, <2>3
<1>4. Done = at /\ Done' = at + 2
  BY <1>1 DEF Done
<1>. QED
  <2>1. \A j, k \in DOMAIN kept' : j < k => kept'[j] < kept'[k]
    <3>1. /\ \A k \in DOMAIN kept : kept[k] < at
          /\ \A j, k \in DOMAIN kept : j < k => kept[j] < kept[k]
      BY <1>4 DEF KeptInv
    <3>2. at \in Int
      BY DEF TypeOK
    <3> SUFFICES ASSUME NEW j \in DOMAIN kept', NEW k \in DOMAIN kept', j < k
                 PROVE  kept'[j] < kept'[k]
      OBVIOUS
    <3>3. CASE k \in DOMAIN kept
      <4>1. j \in DOMAIN kept
        BY <1>3, <3>3
      <4>. QED  BY <1>3, <3>1, <3>3, <4>1
    <3>4. CASE j \in DOMAIN kept /\ k \notin DOMAIN kept
      BY <1>3, <3>1, <3>2, <3>4
    <3>5. CASE j \notin DOMAIN kept
      BY <1>3, <3>2, <3>5
    <3>. QED  BY <3>3, <3>4, <3>5
  <2>2. \A k \in DOMAIN kept' : kept'[k] < Done'
    BY <1>1, <1>3, <1>4 DEF KeptInv, TypeOK
  <2>3. \A i \in Given("config") : i < at + 2 => \E k \in DOMAIN kept' : kept'[k] = i
    <3> SUFFICES ASSUME NEW i \in Given("config"), i < at + 2
                 PROVE  \E k \in DOMAIN kept' : kept'[k] = i
      OBVIOUS
    <3>1. i \in Int /\ i # at + 1
      BY <1>1 DEF Given, TypeOK
    <3>2. CASE i < at
      BY <1>3, <1>4, <3>2 DEF KeptInv
    <3>3. CASE i = at
      BY <1>3, <3>3
    <3>. QED  BY <1>1, <3>1, <3>2, <3>3 DEF TypeOK
  <2>4. ASSUME NEW k \in DOMAIN kept'
        PROVE  IF args[kept'[k]].dash
               THEN /\ args[kept'[k]].name = "config"
                    /\ TakesNext(kept'[k]) => k < Len(kept') /\ kept'[k + 1] = kept'[k] + 1
               ELSE k > 1 /\ TakesNext(kept'[k - 1])
    <3>1. CASE k = Len(kept) + 1
      BY <1>1, <1>2, <1>3, <3>1
    <3>2. CASE k = Len(kept) + 2
      BY <1>1, <1>2, <1>3, <3>2
    <3>3. CASE k \in DOMAIN kept
      <4>1. kept'[k] = kept[k] /\ k < Len(kept')
        BY <1>3, <3>3
      <4>2. CASE args[kept[k]].dash
        BY <1>3, <3>3, <4>1, <4>2 DEF KeptInv
      <4>3. CASE ~args[kept[k]].dash
        <5>1. k > 1 /\ TakesNext(kept[k - 1])
          BY <3>3, <4>3 DEF KeptInv
        <5>2. k - 1 \in DOMAIN kept
          BY <3>3, <5>1 DEF TypeOK
        <5>. QED  BY <1>3, <4>1, <4>3, <5>1, <5>2
      <4>. QED  BY <4>2, <4>3
    <3>. QED  BY <1>3, <3>1, <3>2, <3>3
  <2>. QED
    BY <1>1, <2>1, <2>2, <2>3, <2>4, <1>4 DEF KeptInv, Given, TakesNext

\* On a plain command line what is kept alone is a --config=value.
LEMMA KeepOneInv ==
    ASSUME TypeOK, Plain, KeptInv, KeepOne PROVE KeptInv'
<1>1. /\ phase = "strip" /\ phase' = "strip" /\ args' = args /\ at \in DOMAIN args
      /\ Mentions(at) /\ kept' = Append(kept, at) /\ at' = at + 1
      /\ ~WithNext
  BY DEF KeepOne, Stripping, TypeOK, inputs
<1>2. args[at].dash /\ args[at].name = "config" /\ ~TakesNext(at)
  <2>1. args[at].dash /\ args[at].name = "config"
    <3>1. args[at].dash
      BY <1>1 DEF Plain
    <3>. QED  BY <1>1, <3>1 DEF Mentions
  <2>2. TakesNext(at) => WithNext
    BY <1>1, <2>1 DEF Plain, TakesNext, WithNext, Bare
  <2>3. ~TakesNext(at)
    BY <1>1, <2>2
  <2>. QED  BY <2>1, <2>3
<1>3. /\ Len(kept') = Len(kept) + 1 /\ Len(kept) \in Nat
      /\ \A k \in DOMAIN kept : k \in DOMAIN kept' /\ kept'[k] = kept[k] /\ kept[k] \in Int /\ k <= Len(kept)
      /\ kept'[Len(kept) + 1] = at
      /\ \A k \in DOMAIN kept' : k \in DOMAIN kept \/ k = Len(kept) + 1
  <2>1. at \in Int /\ DOMAIN args \subseteq Int /\ kept \in Seq(DOMAIN args)
    BY DEF TypeOK
  <2>2. /\ Len(kept) \in Nat /\ Len(kept') = Len(kept) + 1 /\ DOMAIN kept' = 1 .. Len(kept')
        /\ \A k \in DOMAIN kept : k \in 1 .. Len(kept) /\ kept'[k] = kept[k] /\ kept[k] \in DOMAIN args
        /\ kept'[Len(kept) + 1] = at
    BY <1>1, <2>1, GrownByOne
  <2>3. DOMAIN kept = 1 .. Len(kept)
    BY <2>1
  <2>. QED  BY <2>1, <2>2, <2>3
<1>4. Done = at /\ Done' = at + 1 /\ at \in Int
  BY <1>1 DEF Done, TypeOK
<1>5. /\ \A k \in DOMAIN kept : kept[k] < at
      /\ \A j, k \in DOMAIN kept : j < k => kept[j] < kept[k]
  BY <1>4 DEF KeptInv
<1>6. ASSUME NEW j \in DOMAIN kept', NEW k \in DOMAIN kept', j < k
      PROVE  kept'[j] < kept'[k]
  <2>1. j \in DOMAIN kept
    BY <1>3, <1>6
  <2>. QED  BY <1>3, <1>4, <1>5, <1>6, <2>1
<1>7. \A k \in DOMAIN kept' : kept'[k] < Done'
  BY <1>3, <1>4, <1>5
<1>8. ASSUME NEW i \in Given("config"), i < at + 1
      PROVE  \E k \in DOMAIN kept' : kept'[k] = i
  <2>1. CASE i < at
    BY <1>3, <1>4, <2>1 DEF KeptInv
  <2>2. CASE i = at
    BY <1>3, <2>2
  <2>. QED  BY <1>4, <1>8, <2>1, <2>2 DEF Given, TypeOK
<1>9. ASSUME NEW k \in DOMAIN kept'
      PROVE  IF args[kept'[k]].dash
             THEN /\ args[kept'[k]].name = "config"
                  /\ TakesNext(kept'[k]) => k < Len(kept') /\ kept'[k + 1] = kept'[k] + 1
             ELSE k > 1 /\ TakesNext(kept'[k - 1])
  <2>1. CASE k = Len(kept) + 1
    BY <1>1, <1>2, <1>3, <2>1
  <2>2. CASE k \in DOMAIN kept
    <3>1. CASE args[kept[k]].dash
      <4>1. /\ args[kept[k]].name = "config"
            /\ TakesNext(kept[k]) => k < Len(kept) /\ kept[k + 1] = kept[k] + 1
        BY <2>2, <3>1 DEF KeptInv
      <4>2. k < Len(kept) => k + 1 \in DOMAIN kept
        BY <2>2 DEF TypeOK
      <4>3. kept'[k] = kept[k] /\ k < Len(kept') /\ (k < Len(kept) => kept'[k + 1] = kept[k + 1])
        BY <1>3, <2>2, <4>2
      <4>. QED  BY <3>1, <4>1, <4>3
    <3>2. CASE ~args[kept[k]].dash
      <4>1. k > 1 /\ TakesNext(kept[k - 1])
        BY <2>2, <3>2 DEF KeptInv
      <4>2. k - 1 \in DOMAIN kept
        BY <2>2, <4>1 DEF TypeOK
      <4>. QED  BY <1>3, <2>2, <3>2, <4>1, <4>2
    <3>. QED  BY <3>1, <3>2
  <2>. QED  BY <1>3, <2>1, <2>2
<1>. QED
  BY <1>1, <1>4, <1>6, <1>7, <1>8, <1>9 DEF KeptInv, Given, TakesNext

\* What is dropped is no --config, and what is kept stays as it is when the
\* loop ends.
LEMMA DropInv ==
    ASSUME TypeOK, Plain, KeptInv, Drop \/ ScanStarts PROVE KeptInv'
<1>1. /\ args' = args /\ kept' = kept
      /\ \A k \in DOMAIN kept : kept[k] \in DOMAIN args
      /\ Len(args) \in Nat /\ DOMAIN args = 1 .. Len(args) /\ at \in Int
  BY DEF Drop, Stripping, ScanStarts, Goto, inputs, TypeOK
<1>2. Drop => Done = at /\ Done' = at + 1
  BY DEF Drop, Stripping, Done
<1>3. \A i \in Given("config") : i < Done' => i < Done
  BY <1>1 DEF Drop, Stripping, ScanStarts, Goto, Done, Given, Mentions
<1>4. \A k \in DOMAIN kept : kept[k] < Done'
  <2>1. CASE Drop
    BY <1>1, <1>2, <2>1 DEF KeptInv
  <2>2. CASE ScanStarts
    BY <1>1, <2>2 DEF ScanStarts, Goto, Done
  <2>. QED  BY <2>1, <2>2
<1>5. \A i \in Given("config") : i < Done' => \E k \in DOMAIN kept : kept[k] = i
  BY <1>3 DEF KeptInv
<1>. QED
  BY <1>1, <1>4, <1>5 DEF KeptInv, Given, TakesNext

-----------------------------------------------------------------------------
(* The scan. *)

\* It begins at the first --config.
LEMMA ScanStartsInv ==
    ASSUME TypeOK, Plain, KeptInv, ScanStarts PROVE ScanInv'
<1>1. /\ args' = args /\ kept' = kept /\ at' = 1 /\ set' = NoneSet /\ Done = at /\ at > Len(args)
      /\ kept \in Seq(DOMAIN args) /\ Len(args) \in Nat /\ DOMAIN args = 1 .. Len(args) /\ at \in Int
  BY DEF ScanStarts, Goto, inputs, TypeOK, Done
<1>2. set'["config"] = Unset
  BY <1>1 DEF NoneSet, Names, Valued
<1>3. 1 <= Len(kept) => args[kept[1]].dash
  BY <1>1 DEF KeptInv
<1>4. ASSUME NEW i \in Given("config")
      PROVE  i >= IF 1 <= Len(kept) THEN kept[1] ELSE Len(args) + 1
  <2>1. i \in DOMAIN args
    BY DEF Given
  <2>2. PICK k \in DOMAIN kept : kept[k] = i
    BY <1>1, <2>1 DEF KeptInv
  <2>3. k = 1 \/ 1 < k
    BY <1>1
  <2>4. 1 \in DOMAIN kept /\ 1 <= Len(kept) /\ kept[1] \in Int /\ kept[k] \in Int
    BY <1>1
  <2>. QED  BY <2>2, <2>3, <2>4 DEF KeptInv
<1>5. Latest("config", Unset, IF 1 <= Len(kept) THEN kept[1] ELSE Len(args) + 1)
  BY <1>4, NothingYet
<1>6. ScanPosition' = IF 1 <= Len(kept) THEN kept[1] ELSE Len(args) + 1
  BY <1>1 DEF ScanPosition
<1>7. Latest("config", set["config"], ScanPosition)'
  BY <1>1, <1>2, <1>5, <1>6 DEF Latest, Given, GivenAt
<1>. QED
  BY <1>1, <1>3, <1>7 DEF ScanInv

\* A round of flag.Parse over what was kept goes from one --config to the next.
LEMMA ScanFlagInv ==
    ASSUME TypeOK, Plain, KeptInv, ScanInv, ScanFlag PROVE KeptInv' /\ ScanInv'
<1>. DEFINE i == kept[at]
            Q(k) == IF k <= Len(kept) THEN kept[k] ELSE Len(args) + 1
<1>1. /\ Scanned \in Seq(Tokens) /\ Len(Scanned) = Len(kept)
      /\ \A k \in DOMAIN kept : Scanned[k] = args[kept[k]]
  BY ScannedType
<1>2. /\ at \in DOMAIN kept /\ args[i].dash /\ args[i].name = "config" /\ Value(Scanned) # Unset
      /\ Scanned[at] = args[i]
      /\ set' = [set EXCEPT !["config"] = Value(Scanned)]
      /\ at' = IF Separate(Scanned) THEN at + 2 ELSE at + 1
      /\ args' = args /\ kept' = kept /\ phase = "scan" /\ phase' = "scan"
  <2>1. ReadFlag(Scanned, {"config"}) /\ phase = "scan"
    BY DEF ScanFlag
  <2>2. ~Stops(Scanned) /\ Scanned[at].name = "config" /\ Value(Scanned) # Unset
    BY <2>1 DEF ReadFlag, Refuses
  <2>3. at \in DOMAIN kept /\ Scanned[at].dash
    BY <1>1, <2>2 DEF Stops, TypeOK
  <2>4. Scanned[at] = args[i]
    BY <1>1, <2>3
  <2>. QED  BY <2>1, <2>2, <2>3, <2>4 DEF ReadFlag, inputs
<1>3. /\ i \in DOMAIN args /\ i \in Given("config") /\ i \in Int /\ Len(kept) \in Nat
      /\ DOMAIN kept = 1 .. Len(kept) /\ at \in Int /\ DOMAIN args = 1 .. Len(args) /\ Len(args) \in Nat
      /\ \A k \in DOMAIN kept : kept[k] \in DOMAIN args
  BY <1>2 DEF Given, TypeOK
<1>4. Separate(Scanned) <=> TakesNext(i)
  BY <1>2 DEF Separate, TakesNext, Valued, Switch
<1>5. TakesNext(i) => at + 1 \in DOMAIN kept /\ kept[at + 1] = i + 1 /\ i + 1 \in DOMAIN args /\ ~args[i + 1].dash
  <2>1. TakesNext(i) => at < Len(kept) /\ kept[at + 1] = i + 1
    BY <1>2 DEF KeptInv
  <2>2. TakesNext(i) => i + 1 \in DOMAIN args /\ ~args[i + 1].dash
    BY <1>3 DEF Plain
  <2>. QED  BY <1>2, <1>3, <2>1, <2>2
<1>6. Value(Scanned) = GivenAt(i)
  <2>1. CASE TakesNext(i)
    <3>1. at < Len(Scanned) /\ Scanned[at + 1] = args[i + 1]
      BY <1>1, <1>3, <1>5, <2>1
    <3>. QED  BY <1>2, <1>4, <1>5, <2>1, <3>1 DEF Value, Text, GivenAt, TakesNext
  <2>2. CASE ~TakesNext(i)
    BY <1>2, <1>4, <2>2 DEF Value, GivenAt, TakesNext, Switch
  <2>. QED  BY <2>1, <2>2
<1>7. at' <= Len(kept) => args[kept[at']].dash
  <2> SUFFICES ASSUME at' <= Len(kept), ~args[kept[at']].dash PROVE FALSE
    OBVIOUS
  <2>1. at' \in DOMAIN kept /\ at' - 1 \in DOMAIN kept
    BY <1>2, <1>3
  <2>2. TakesNext(kept[at' - 1])
    BY <2>1 DEF KeptInv
  <2>3. CASE TakesNext(i)
    <3>1. at' - 1 = at + 1
      BY <1>2, <1>3, <1>4, <2>3
    <3>. QED  BY <1>5, <2>2, <2>3, <3>1 DEF TakesNext
  <2>4. CASE ~TakesNext(i)
    <3>1. at' - 1 = at
      BY <1>2, <1>3, <1>4, <2>4
    <3>. QED  BY <2>2, <2>4, <3>1
  <2>. QED  BY <2>3, <2>4
<1>8. at' \in Int /\ at < at' /\ Q(at) = i /\ Q(at') \in Int
  BY <1>2, <1>3
<1>9. i < Q(at')
  BY <1>2, <1>3, <1>8 DEF KeptInv
<1>10. ASSUME NEW j \in Given("config"), i <= j, j < Q(at')
       PROVE  j = i
  <2>1. j \in DOMAIN args /\ args[j].dash
    BY DEF Given
  <2>2. PICK k \in DOMAIN kept : kept[k] = j
    BY <1>2, <1>3, <2>1 DEF KeptInv, Done
  <2>3. ~(k < at)
    <3>1. k < at => kept[k] < i
      BY <1>2 DEF KeptInv
    <3>. QED  BY <1>3, <1>10, <2>1, <2>2, <3>1
  <2>4. ~(at' <= k)
    <3>1. CASE k = at'
      BY <1>3, <1>8, <1>10, <2>2, <3>1
    <3>2. CASE at' < k
      <4>1. at' \in DOMAIN kept
        BY <1>2, <1>3, <1>8, <3>2
      <4>2. kept[at'] < kept[k]
        BY <3>2, <4>1 DEF KeptInv
      <4>. QED  BY <1>3, <1>8, <1>10, <2>2, <4>1, <4>2
    <3>. QED  BY <1>3, <1>8, <3>1, <3>2
  <2>5. k = at \/ (TakesNext(i) /\ k = at + 1)
    BY <1>2, <1>3, <1>4, <2>3, <2>4
  <2>. QED  BY <1>5, <2>1, <2>2, <2>5
<1>11. Latest("config", set["config"], Q(at))
  BY DEF ScanInv, ScanPosition
<1>12. Latest("config", GivenAt(i), Q(at'))
  <2> HIDE DEF i, Q
  <2>1. i <= Q(at) /\ Q(at) \in Int
    BY <1>3, <1>8
  <2>2. \A j \in Given("config") : Q(at) <= j /\ j < Q(at') => j = i
    BY <1>8, <1>10
  <2>3. Q(at) <= i
    BY <1>3, <1>8
  <2>. QED  BY <1>3, <1>8, <1>9, <1>11, <2>1, <2>2, <2>3, OneMore
<1>13. set'["config"] = GivenAt(i)
  BY <1>2, <1>6 DEF TypeOK, Names, Valued
<1>14. ScanPosition' = Q(at')
  BY <1>2 DEF ScanPosition
<1>15. Latest("config", set["config"], ScanPosition)'
  <2> HIDE DEF i, Q
  <2>. QED  BY <1>2, <1>12, <1>13, <1>14 DEF Latest, Given, GivenAt
<1>16. ScanInv'
  BY <1>2, <1>7, <1>15 DEF ScanInv
<1>17. KeptInv'
  BY <1>2 DEF KeptInv, Done, Given, TakesNext
<1>. QED
  BY <1>16, <1>17

\* It ends behind the last --config.
LEMMA FindFileAsked ==
    ASSUME TypeOK, Plain, KeptInv, ScanInv, FindFile PROVE path' = Asked
<1>1. /\ Scanned \in Seq(Tokens) /\ Len(Scanned) = Len(kept)
      /\ \A k \in DOMAIN kept : Scanned[k] = args[kept[k]]
  BY ScannedType
<1>2. at > Len(kept)
  <2> SUFFICES ASSUME at <= Len(kept) PROVE FALSE
    BY DEF TypeOK
  <2>1. at \in DOMAIN kept /\ Scanned[at] = args[kept[at]] /\ args[kept[at]].dash
    BY <1>1 DEF ScanInv, TypeOK
  <2>2. ~Stops(Scanned) /\ Scanned[at].name = "config" /\ kept[at] \in DOMAIN args /\ kept[at] \in Int
    BY <1>1, <2>1 DEF Stops, KeptInv, TypeOK
  <2>3. Value(Scanned) = Unset
    BY <2>2 DEF FindFile, Refuses, Number
  <2>4. CASE Separate(Scanned)
    <3>1. TakesNext(kept[at])
      BY <2>1, <2>2, <2>4 DEF Separate, TakesNext, Valued
    <3>2. at + 1 \in DOMAIN kept /\ kept[at + 1] = kept[at] + 1
      BY <2>1, <3>1 DEF KeptInv, TypeOK
    <3>3. ~args[kept[at] + 1].dash /\ kept[at] + 1 \in DOMAIN args
      BY <2>2, <3>1, <3>2 DEF Plain, TypeOK
    <3>4. args[kept[at] + 1].name \in Words
      BY <3>3, TokenTypes DEF TypeOK
    <3>5. at < Len(Scanned) /\ Scanned[at + 1] = args[kept[at] + 1]
      BY <1>1, <2>1, <3>2 DEF TypeOK
    <3>. QED  BY <2>3, <2>4, <3>3, <3>4, <3>5, StartupAssumption DEF Value, Text
  <2>5. CASE ~Separate(Scanned)
    BY <2>2, <2>3, <2>5 DEF Separate, Value, Switch, Unset
  <2>. QED  BY <2>4, <2>5
<1>3. Latest("config", set["config"], Len(args) + 1)
  BY <1>2 DEF ScanInv, ScanPosition, TypeOK
<1>4. IF Given("config") # {} THEN set["config"] = LastGiven("config") ELSE set["config"] = Unset
  <2>. Len(args) + 1 \in Int /\ Len(args) + 1 > Len(args)
    BY DEF TypeOK
  <2>. QED  BY <1>3, LatestIsLast
<1>5. Given("config") # {} => set["config"] # Unset
  BY <1>3, GivenValue DEF Latest, Given, TypeOK, Valued
<1>. QED
  BY <1>4, <1>5 DEF FindFile, Asked

-----------------------------------------------------------------------------
(* The flags. *)

\* A round of flag.Parse goes from one flag to the next.
LEMMA ParseFlagInv ==
    ASSUME TypeOK, Plain, FlagInv, ParseFlag PROVE FlagInv'
<1>1. ReadFlag(args, Names) /\ args' = args
  BY DEF ParseFlag, ReadFlag, inputs
<1>2. /\ at \in DOMAIN args /\ args[at].dash /\ args[at].name \in Names /\ Value(args) # Unset
      /\ set' = [set EXCEPT ![args[at].name] = Value(args)]
      /\ at' = IF Separate(args) THEN at + 2 ELSE at + 1
  BY <1>1 DEF ReadFlag, Refuses, Stops, TypeOK
<1>3. at \in Int /\ Len(args) \in Nat /\ DOMAIN args = 1 .. Len(args)
  BY DEF TypeOK
<1>4. Separate(args) <=> TakesNext(at)
  BY <1>2 DEF Separate, TakesNext, Names, Valued, Switch, Number
<1>5. TakesNext(at) => at + 1 \in DOMAIN args /\ ~args[at + 1].dash /\ ~TakesNext(at + 1)
  BY <1>2, <1>3 DEF Plain, TakesNext
<1>6. args[at].name = Number => Value(args) = GivenAt(at)
  <2>1. CASE TakesNext(at)
    <3>1. at < Len(args)
      BY <1>3, <1>5, <2>1
    <3>. QED  BY <1>4, <1>5, <2>1, <3>1 DEF Value, Text, GivenAt, TakesNext
  <2>2. CASE ~TakesNext(at)
    BY <1>2, <1>4, <2>2 DEF Value, GivenAt, TakesNext, Switch, Number
  <2>. QED  BY <2>1, <2>2
<1>7. at' <= Len(args) => args[at'].dash
  <2>1. CASE TakesNext(at)
    <3>1. at' = (at + 1) + 1
      BY <1>2, <1>3, <1>4, <2>1
    <3>2. at + 1 \in DOMAIN args /\ ~TakesNext(at + 1)
      BY <1>5, <2>1
    <3>. QED  BY <1>3, <3>1, <3>2 DEF Plain
  <2>2. CASE ~TakesNext(at)
    <3>1. at' = at + 1
      BY <1>2, <1>4, <2>2
    <3>. QED  BY <1>2, <1>3, <2>2, <3>1 DEF Plain
  <2>. QED  BY <2>1, <2>2
<1>8. at' \in Int /\ at < at'
  BY <1>2, <1>3
<1>9. \A j \in Given(Number) : at <= j /\ j < at' => j = at
  <2> SUFFICES ASSUME NEW j \in Given(Number), at <= j, j < at', j # at PROVE FALSE
    OBVIOUS
  <2>1. j \in DOMAIN args /\ args[j].dash
    BY DEF Given
  <2>2. j = at + 1 /\ Separate(args)
    BY <1>2, <1>3, <2>1
  <2>. QED  BY <1>4, <1>5, <2>1, <2>2
<1>10. Latest(Number, set'[Number], at')
  <2>0. Latest(Number, set[Number], at)
    BY DEF FlagInv
  <2>1. CASE args[at].name = Number
    <3>1. set'[Number] = GivenAt(at)
      BY <1>2, <1>6, <2>1 DEF TypeOK, Names, Valued
    <3>2. at \in Given(Number) /\ at <= at
      BY <1>2, <1>3, <2>1 DEF Given
    <3>. QED  BY <1>3, <1>8, <1>9, <2>0, <3>1, <3>2, OneMore
  <2>2. CASE args[at].name # Number
    <3>1. set'[Number] = set[Number]
      BY <1>2, <2>2 DEF TypeOK, Names, Valued
    <3>2. at \notin Given(Number) /\ at <= at'
      BY <1>3, <1>8, <2>2 DEF Given
    <3>3. \A j \in Given(Number) : ~(at <= j /\ j < at')
      BY <1>9, <3>2
    <3>. QED  BY <1>3, <1>8, <2>0, <3>1, <3>2, <3>3, NoMore
  <2>. QED  BY <2>1, <2>2
<1>. QED
  BY <1>1, <1>7, <1>10 DEF FlagInv, Latest, Given, GivenAt

\* It begins at the first argument, a flag.
LEMMA FlagsStartInv ==
    ASSUME TypeOK, Plain, ApplyEnv PROVE FlagInv'
<1>1. args' = args /\ at' = 1 /\ set' = NoneSet /\ NoneSet[Number] = Unset
  BY DEF ApplyEnv, Goto, inputs, NoneSet, Names, Valued
<1>2. 1 <= Len(args) => args[1].dash
  BY DEF Plain, TypeOK
<1>3. Latest(Number, Unset, 1)
  BY DEF Latest, Given, TypeOK
<1>. QED
  BY <1>1, <1>2, <1>3 DEF FlagInv, Latest, Given, GivenAt

\* When it stops it has read them all.
LEMMA FlagsApplied ==
    ASSUME TypeOK, NumberInv, Plain, FlagInv, number = FromEnv, ApplyFlags PROVE number' = FromFlags
<1>1. at > Len(args) /\ at \in Int
  BY DEF ApplyFlags, Stops, FlagInv, TypeOK
<1>2. Latest(Number, set[Number], at)
  BY DEF FlagInv
<1>3. IF Given(Number) # {} THEN set[Number] = LastGiven(Number) ELSE set[Number] = Unset
  BY <1>1, <1>2, LatestIsLast
<1>4. Given(Number) # {} => set[Number] # Unset
  BY <1>1, <1>2, GivenValue DEF Latest, Given, TypeOK, Valued
<1>. QED
  BY <1>3, <1>4 DEF ApplyFlags, FromFlags

-----------------------------------------------------------------------------
(* All of it. *)

LEMMA InputsFixed ==
    ASSUME [Next]_vars
    PROVE  /\ args' = args /\ envPath' = envPath /\ envNumber' = envNumber
           /\ Plain' = Plain /\ Asked' = Asked
           /\ FromFile' = FromFile /\ FromEnv' = FromEnv /\ FromFlags' = FromFlags
<1>1. args' = args /\ envPath' = envPath /\ envNumber' = envNumber
  BY DEF Next, vars, inputs, Goto, PrintVersion, LoadStarts, KeepTwo, KeepOne, Drop, Stripping,
         ScanStarts, ScanFlag, ReadFlag, FindFile, FileFails, ApplyFile, ApplyEnv, ParseFlag,
         FlagsFail, ApplyFlags, Serve, CannotRun
<1>2. Plain' = Plain
  BY <1>1 DEF Plain, TakesNext, Mentions
<1>3. Asked' = Asked
  BY <1>1 DEF Asked, LastGiven, Given, GivenAt
<1>4. FromFile' = FromFile
  BY <1>3 DEF FromFile
<1>5. FromEnv' = FromEnv
  BY <1>1, <1>4 DEF FromEnv
<1>6. FromFlags' = FromFlags
  BY <1>1, <1>5 DEF FromFlags, LastGiven, Given, GivenAt
<1>. QED
  BY <1>1, <1>2, <1>3, <1>4, <1>5, <1>6

LEMMA PlainStep ==
    ASSUME TypeOK, NumberInv, Plain, PlainInv, [Next]_vars PROVE PlainInv'
<1>. Asked' = Asked /\ FromFile' = FromFile /\ FromEnv' = FromEnv /\ FromFlags' = FromFlags
     /\ args' = args /\ envNumber' = envNumber
  BY InputsFixed
<1>1. CASE PrintVersion \/ FileFails \/ FlagsFail \/ CannotRun
  BY <1>1 DEF PlainInv, LayerInv, PrintVersion, FileFails, FlagsFail, CannotRun, Goto
<1>2. CASE LoadStarts
  <2>1. kept' = kept /\ phase' = "strip" /\ at' = 1 /\ number' = number /\ phase = "version"
    BY <1>2 DEF LoadStarts, Goto
  <2>2. KeptInv'
    <3>1. kept' = <<>> /\ DOMAIN kept' = {} /\ Done' = 1
      BY <2>1 DEF PlainInv, Done
    <3>2. \A i \in Given("config")' : i >= 1
      BY DEF Given, TypeOK
    <3>. QED  BY <3>1, <3>2 DEF KeptInv, Given, TypeOK
  <2>. QED  BY <2>1, <2>2 DEF PlainInv, LayerInv
<1>3. CASE KeepTwo \/ KeepOne \/ Drop
  <2>1. phase = "strip" /\ phase' = "strip" /\ number' = number
    BY <1>3 DEF KeepTwo, KeepOne, Drop, Stripping
  <2>2. KeptInv'
    BY <1>3, <2>1, KeepTwoInv, KeepOneInv, DropInv DEF PlainInv
  <2>. QED  BY <2>1, <2>2 DEF PlainInv, LayerInv
<1>4. CASE ScanStarts
  <2>1. phase = "strip" /\ phase' = "scan" /\ number' = number
    BY <1>4 DEF ScanStarts, Goto
  <2>2. KeptInv' /\ ScanInv'
    BY <1>4, <2>1, DropInv, ScanStartsInv DEF PlainInv
  <2>. QED  BY <2>1, <2>2 DEF PlainInv, LayerInv
<1>5. CASE ScanFlag
  <2>1. phase = "scan" /\ phase' = "scan" /\ number' = number
    BY <1>5 DEF ScanFlag, ReadFlag
  <2>2. KeptInv' /\ ScanInv'
    BY <1>5, <2>1, ScanFlagInv DEF PlainInv
  <2>. QED  BY <2>1, <2>2 DEF PlainInv, LayerInv
<1>6. CASE FindFile
  <2>1. phase = "scan" /\ phase' = "file" /\ number' = number
    BY <1>6 DEF FindFile, Goto
  <2>2. path' = Asked
    BY <1>6, <2>1, FindFileAsked DEF PlainInv
  <2>. QED  BY <2>1, <2>2 DEF PlainInv, LayerInv
<1>7. CASE ApplyFile
  <2>1. phase = "file" /\ phase' = "env" /\ path' = path /\ path = Asked /\ number = 2
    BY <1>7 DEF ApplyFile, Goto, PlainInv, LayerInv
  <2>2. number' = FromFile
    BY <1>7, <2>1 DEF ApplyFile, FromFile
  <2>. QED  BY <2>1, <2>2 DEF PlainInv, LayerInv
<1>8. CASE ApplyEnv
  <2>1. phase = "env" /\ phase' = "flags" /\ path' = path /\ path = Asked /\ number = FromFile
    BY <1>8 DEF ApplyEnv, Goto, PlainInv, LayerInv
  <2>2. number' = FromEnv
    BY <1>8, <2>1 DEF ApplyEnv, EnvValue, FromEnv
  <2>3. FlagInv'
    BY <1>8, FlagsStartInv
  <2>. QED  BY <2>1, <2>2, <2>3 DEF PlainInv, LayerInv
<1>9. CASE ParseFlag
  <2>1. phase = "flags" /\ phase' = "flags" /\ path' = path /\ number' = number
    BY <1>9 DEF ParseFlag, ReadFlag
  <2>2. FlagInv'
    BY <1>9, <2>1, ParseFlagInv DEF PlainInv
  <2>. QED  BY <2>1, <2>2 DEF PlainInv, LayerInv
<1>10. CASE ApplyFlags
  <2>1. phase = "flags" /\ phase' = "validate" /\ path' = path /\ path = Asked
    BY <1>10 DEF ApplyFlags, Goto, PlainInv
  <2>2. number' = FromFlags
    BY <1>10, <2>1, FlagsApplied DEF PlainInv, LayerInv
  <2>. QED  BY <2>1, <2>2 DEF PlainInv, LayerInv
<1>11. CASE Serve
  BY <1>11 DEF Serve, Goto, Valid, PlainInv, LayerInv
<1>12. CASE UNCHANGED vars
  <2>1. /\ phase' = phase /\ at' = at /\ kept' = kept /\ set' = set /\ path' = path /\ number' = number
    BY <1>12 DEF vars, loop
  <2>2. (KeptInv <=> KeptInv') /\ (ScanInv <=> ScanInv') /\ (FlagInv <=> FlagInv')
    BY <2>1 DEF KeptInv, ScanInv, FlagInv, ScanPosition, Latest, Done, Given, GivenAt, TakesNext
  <2>. QED  BY <2>1, <2>2 DEF PlainInv, LayerInv
<1>. QED
  BY <1>1, <1>2, <1>3, <1>4, <1>5, <1>6, <1>7, <1>8, <1>9, <1>10, <1>11, <1>12 DEF Next

LEMMA PlainInvariant == Spec => [](TypeOK /\ (Plain => PlainInv))
<1>1. Init => (Plain => PlainInv)
  BY DEF Init, PlainInv, LayerInv
<1>2. TypeOK /\ NumberInv /\ (Plain => PlainInv) /\ [Next]_vars => (Plain => PlainInv)'
  BY PlainStep, InputsFixed
<1>. QED
  BY <1>1, <1>2, TypeCorrect, PTL DEF Spec

\* On every plain command line, however long, the two passes over it agree on
\* the configuration file.
THEOREM ScanCorrect == Spec => []ScanAgrees
<1>1. (Plain => PlainInv) => ScanAgrees
  BY DEF PlainInv, ScanAgrees
<1>. QED
  BY <1>1, PlainInvariant, PTL

\* On every plain command line the daemon serves with the value of the highest
\* layer that has one, and with one slot at least.
THEOREM PrecedenceCorrect == Spec => []Precedence
<1>1. TypeOK /\ (Plain => PlainInv) => Precedence
  BY DEF PlainInv, LayerInv, Precedence, TypeOK
<1>. QED
  BY <1>1, PlainInvariant, PTL
=============================================================================
