--------------------------- MODULE RateLimitProofs ---------------------------
(***************************************************************************)
(* Proofs about RateLimit for every rate, any number of connections and    *)
(* keys, any length of a minute and any Lag.                               *)
(***************************************************************************)
EXTENDS RateLimitProperties, SequenceTheorems, TLAPS

Bucket == [tokens : 0 .. Burst, last : Nat]

\* A request on its way to Allow holds a limiter.
Asked == \A c \in Conns : at[c] \in {"clock", "allow"} =>
            perMinute > 0 /\ lim[c] \in 1 .. Len(buckets)

\* What a limiter holds is between nothing and the burst, at any time.
LEMMA AvailableType ==
    ASSUME NEW b \in Bucket, NEW t \in Nat, perMinute \in Nat, Minute \in Nat
    PROVE  Available(b, t) \in 0 .. Burst
  <1>1. Burst \in Nat
    BY DEF Burst
  <1>2. ASSUME ~(t < b.last) PROVE perMinute * (t - b.last) \in Nat
    <2>1. t - b.last \in Nat
      BY <1>2 DEF Bucket
    <2>. QED
      BY <2>1
  <1>3. b.tokens \in 0 .. Burst
    BY DEF Bucket
  <1> DEFINE g == IF t < b.last THEN 0 ELSE perMinute * (t - b.last)
  <1>4. g \in Nat
    BY <1>2
  <1>5. Available(b, t) = IF b.tokens + g > Burst THEN Burst ELSE b.tokens + g
    BY DEF Available
  <1> HIDE DEF g
  <1>. QED
    BY <1>1, <1>3, <1>4, <1>5

-----------------------------------------------------------------------------
(* Types *)

\* What a new limiter adds to the map and to the list.
LEMMA GetNewSteps ==
    ASSUME TypeOK, NEW c \in Conns, NEW k \in Keys, GetNew(c, k)
    PROVE  /\ buckets' \in Seq(Bucket) /\ Len(buckets') = Len(buckets) + 1
           /\ \A i \in 1 .. Len(buckets) : buckets'[i] = buckets[i]
           /\ buckets'[Len(buckets) + 1] = NewLimiter
           /\ NewLimiter \in Bucket
  <1>1. Burst \in Nat
    BY RateAssumption DEF Burst, GetNew, TypeOK
  <1>2. NewLimiter \in Bucket
    BY <1>1 DEF NewLimiter, Bucket
  <1>3. buckets \in Seq(Bucket)
    BY DEF TypeOK, Bucket
  <1>. QED
    BY <1>2, <1>3, AppendProperties DEF GetNew

\* What an admission does to the list.
LEMMA AdmitSteps ==
    ASSUME TypeOK, Asked, NEW c \in Conns, Admit(c)
    PROVE  /\ buckets[lim[c]] \in Bucket /\ lim[c] \in 1 .. Len(buckets)
           /\ Available(buckets[lim[c]], read[c]) \in Minute .. Burst
           /\ buckets' \in Seq(Bucket) /\ Len(buckets') = Len(buckets)
           /\ \A i \in 1 .. Len(buckets) : i # lim[c] => buckets'[i] = buckets[i]
           /\ buckets'[lim[c]] =
                 [tokens |-> Available(buckets[lim[c]], read[c]) - Minute, last |-> read[c]]
  <1>1. lim[c] \in 1 .. Len(buckets) /\ perMinute \in Nat /\ Minute \in Nat \ {0}
    BY RateAssumption DEF Asked, Admit, TypeOK
  <1>2. buckets \in Seq(Bucket) /\ buckets[lim[c]] \in Bucket
    <2>1. buckets \in Seq(Bucket)
      BY DEF TypeOK, Bucket
    <2>. QED
      BY <1>1, <2>1
  <1>3. read[c] \in Nat
    BY DEF TypeOK
  <1>4. Available(buckets[lim[c]], read[c]) \in Minute .. Burst
    <2>1. Available(buckets[lim[c]], read[c]) \in 0 .. Burst
      BY <1>1, <1>2, <1>3, AvailableType
    <2>2. Burst \in Nat
      BY <1>1 DEF Burst
    <2>. QED
      BY <1>1, <2>1, <2>2 DEF Admit
  <1> DEFINE n == [tokens |-> Available(buckets[lim[c]], read[c]) - Minute, last |-> read[c]]
  <1>5. n \in Bucket
    <2>1. Burst \in Nat
      BY <1>1 DEF Burst
    <2>. QED
      BY <1>1, <1>3, <1>4, <2>1 DEF Bucket
  <1>6. buckets' = [buckets EXCEPT ![lim[c]] = n]
    BY DEF Admit
  <1> HIDE DEF n
  <1>7. buckets' \in Seq(Bucket) /\ Len(buckets') = Len(buckets)
    BY <1>1, <1>2, <1>5, <1>6, ExceptSeq
  <1>8. /\ \A i \in 1 .. Len(buckets) : i # lim[c] => buckets'[i] = buckets[i]
        /\ buckets'[lim[c]] = n
    BY <1>1, <1>2, <1>6
  <1>. QED
    BY <1>1, <1>2, <1>4, <1>7, <1>8 DEF n

\* The types of what RateLimit itself keeps.
ModelOK ==
    /\ now \in Nat /\ perMinute \in Rates
    /\ limiters \in [Keys -> 0 .. Len(buckets)]
    /\ buckets \in Seq(Bucket)
    /\ at \in [Conns -> {"clock", "allow", "passed", "limited"}]
    /\ key \in [Conns -> Keys]
    /\ lim \in [Conns -> 0 .. Len(buckets)]
    /\ read \in [Conns -> Nat]

\* Every request and every tick keeps the types.
LEMMA ModelStep == TypeOK /\ Asked /\ [Next]_vars => ModelOK' /\ Asked'
  <1> SUFFICES ASSUME TypeOK, Asked, [Next]_vars PROVE ModelOK' /\ Asked'
    OBVIOUS
  <1> USE RateAssumption
  <1>1. perMinute' = perMinute => Bucket' = Bucket
    BY DEF Bucket, Burst
  <1>2. ModelOK
    BY DEF TypeOK, ModelOK, Bucket
  <1>3. ASSUME NEW c \in Conns, GetNothing(c) PROVE ModelOK' /\ Asked'
    BY <1>1, <1>2, <1>3 DEF ModelOK, Asked, GetNothing
  <1>4. ASSUME NEW c \in Conns, NEW k \in Keys, GetKnown(c, k) PROVE ModelOK' /\ Asked'
    <2>1. limiters[k] \in 1 .. Len(buckets)
      BY <1>2, <1>4 DEF ModelOK, GetKnown
    <2>2. Asked'
      BY <1>2, <1>4, <2>1 DEF ModelOK, Asked, GetKnown
    <2>. QED
      BY <1>1, <1>2, <1>4, <2>2 DEF ModelOK, GetKnown
  <1>5. ASSUME NEW c \in Conns, NEW k \in Keys, GetNew(c, k) PROVE ModelOK' /\ Asked'
    <2>1. buckets' \in Seq(Bucket) /\ Len(buckets') = Len(buckets) + 1
      BY <1>5, GetNewSteps
    <2>2. Len(buckets) \in Nat
      BY <1>2 DEF ModelOK
    <2>3. limiters' \in [Keys -> 0 .. Len(buckets')] /\ lim' \in [Conns -> 0 .. Len(buckets')]
      BY <1>2, <1>5, <2>1, <2>2 DEF ModelOK, GetNew
    <2>4. Asked'
      BY <1>2, <1>5, <2>1, <2>2 DEF ModelOK, Asked, GetNew
    <2>. QED
      BY <1>1, <1>2, <1>5, <2>1, <2>3, <2>4 DEF ModelOK, GetNew
  <1>6. ASSUME NEW c \in Conns, ReadClock(c) PROVE ModelOK' /\ Asked'
    BY <1>1, <1>2, <1>6 DEF ModelOK, Asked, ReadClock
  <1>7. ASSUME NEW c \in Conns, Admit(c) PROVE ModelOK' /\ Asked'
    <2>1. buckets' \in Seq(Bucket) /\ Len(buckets') = Len(buckets)
      BY <1>7, AdmitSteps
    <2>2. Len(buckets) \in Nat
      BY <1>2 DEF ModelOK
    <2>3. Asked'
      BY <1>2, <1>7, <2>1 DEF ModelOK, Asked, Admit, Answer
    <2>. QED
      BY <1>1, <1>2, <1>7, <2>1, <2>2, <2>3 DEF ModelOK, Admit, Answer
  <1>8. ASSUME NEW c \in Conns, Refuse(c) PROVE ModelOK' /\ Asked'
    <2>1. Len(buckets) \in Nat
      BY <1>2 DEF ModelOK
    <2>. QED
      BY <1>1, <1>2, <1>8, <2>1 DEF ModelOK, Asked, Refuse, Answer
  <1>9. ASSUME Tick PROVE ModelOK' /\ Asked'
    BY <1>1, <1>2, <1>9 DEF ModelOK, Asked, Tick, reqVars
  <1>10. CASE UNCHANGED vars
    BY <1>1, <1>2, <1>10 DEF ModelOK, Asked, vars
  <1>. QED
    BY <1>3, <1>4, <1>5, <1>6, <1>7, <1>8, <1>9, <1>10 DEF Next, Request

\* Every step, also of the observer, keeps the type invariant.
LEMMA TypeStep == TypeOK /\ Asked /\ [Watch \/ Mark]_allVars => TypeOK' /\ Asked'
  <1> SUFFICES ASSUME TypeOK, Asked, [Watch \/ Mark]_allVars PROVE TypeOK' /\ Asked'
    OBVIOUS
  <1>1. ModelOK' /\ Asked'
    BY ModelStep DEF Watch, Mark, allVars
  <1>2. (since \in Nat /\ watched \in Keys /\ count \in Nat /\ late \in Nat
            /\ latest \in [Keys -> Int])'
    <2>1. CASE Watch
      BY <2>1 DEF Watch, TypeOK
    <2>2. CASE Mark
      BY <2>2 DEF Mark, TypeOK
    <2>3. CASE UNCHANGED allVars
      BY <2>3 DEF allVars, watch, TypeOK
    <2>. QED
      BY <2>1, <2>2, <2>3
  <1>. QED
    BY <1>1, <1>2 DEF ModelOK, TypeOK, Bucket

LEMMA TypeInvariant == WatchedSpec => [](TypeOK /\ Asked)
  <1>1. WatchedInit => TypeOK /\ Asked
    <2> SUFFICES ASSUME WatchedInit PROVE TypeOK /\ Asked
      OBVIOUS
    <2>1. buckets = <<>> /\ Len(buckets) = 0
      BY DEF WatchedInit, Init
    <2>. QED
      BY <2>1, RateAssumption DEF WatchedInit, Init, TypeOK, Asked
  <1>. QED
    BY <1>1, TypeStep, PTL DEF WatchedSpec

\* The variables of the rate limiter keep their types; no bucket ever holds
\* less than nothing or more than the burst.
THEOREM TypeCorrect == WatchedSpec => []TypeOK
  BY TypeInvariant, PTL

-----------------------------------------------------------------------------
(* One limiter for every key *)

LEMMA OneStep ==
    TypeOK /\ Asked /\ OneLimiterPerKey /\ [Watch \/ Mark]_allVars => OneLimiterPerKey'
  <1> SUFFICES ASSUME TypeOK, Asked, OneLimiterPerKey, [Next]_vars PROVE OneLimiterPerKey'
    BY DEF Watch, Mark, allVars
  <1>1. ASSUME NEW c \in Conns, GetNothing(c) PROVE OneLimiterPerKey'
    BY <1>1 DEF TypeOK, OneLimiterPerKey, GetNothing
  <1>2. ASSUME NEW c \in Conns, NEW k \in Keys, GetKnown(c, k) PROVE OneLimiterPerKey'
    BY <1>2 DEF TypeOK, OneLimiterPerKey, GetKnown
  <1>3. ASSUME NEW c \in Conns, NEW k \in Keys, GetNew(c, k) PROVE OneLimiterPerKey'
    <2> DEFINE n == Len(buckets)
    <2>1. n \in Nat /\ Len(buckets') = n + 1 /\ limiters \in [Keys -> 0 .. n]
      BY <1>3, GetNewSteps DEF TypeOK
    <2>2. limiters' = [limiters EXCEPT ![k] = n + 1] /\ lim' = [lim EXCEPT ![c] = n + 1]
      BY <1>3 DEF GetNew
    <2> HIDE DEF n
    <2>3. (\A d \in Conns : at[d] \in {"clock", "allow"} => lim[d] = limiters[key[d]])'
      <3> SUFFICES ASSUME NEW d \in Conns, at'[d] \in {"clock", "allow"}
                   PROVE  lim'[d] = limiters'[key'[d]]
        OBVIOUS
      <3>1. CASE d = c
        BY <1>3, <2>1, <2>2, <3>1 DEF TypeOK, GetNew
      <3>2. CASE d # c
        <4>1. at'[d] = at[d] /\ key'[d] = key[d] /\ lim'[d] = lim[d] /\ key[d] \in Keys
          BY <1>3, <2>2, <3>2 DEF TypeOK, GetNew
        <4>2. lim[d] = limiters[key[d]] /\ lim[d] # 0
          BY <4>1 DEF OneLimiterPerKey, Asked
        <4>3. key[d] # k
          BY <1>3, <4>2 DEF GetNew
        <4>. QED
          BY <2>1, <2>2, <4>1, <4>2, <4>3
      <3>. QED
        BY <3>1, <3>2
    <2>4. (\A i \in 1 .. Len(buckets) : \E j \in Keys : limiters[j] = i)'
      <3> SUFFICES ASSUME NEW i \in 1 .. n + 1 PROVE \E j \in Keys : limiters'[j] = i
        BY <2>1
      <3>1. CASE i = n + 1
        BY <2>1, <2>2, <3>1
      <3>2. CASE i # n + 1
        <4>1. PICK j \in Keys : limiters[j] = i
          BY <2>1, <3>2 DEF OneLimiterPerKey, n
        <4>2. j # k
          BY <1>3, <4>1 DEF GetNew
        <4>. QED
          BY <2>1, <2>2, <4>1, <4>2
      <3>. QED
        BY <3>1, <3>2
    <2>5. (\A i, j \in Keys : limiters[i] = limiters[j] => i = j \/ limiters[j] = 0)'
      BY <2>1, <2>2 DEF OneLimiterPerKey
    <2>. QED
      BY <2>3, <2>4, <2>5 DEF OneLimiterPerKey
  <1>4. ASSUME NEW c \in Conns, ReadClock(c) PROVE OneLimiterPerKey'
    BY <1>4 DEF TypeOK, OneLimiterPerKey, ReadClock
  <1>5. ASSUME NEW c \in Conns, Admit(c) PROVE OneLimiterPerKey'
    <2>1. Len(buckets') = Len(buckets)
      BY <1>5, AdmitSteps
    <2>. QED
      BY <1>5, <2>1 DEF TypeOK, OneLimiterPerKey, Admit, Answer
  <1>6. ASSUME NEW c \in Conns, Refuse(c) PROVE OneLimiterPerKey'
    BY <1>6 DEF TypeOK, OneLimiterPerKey, Refuse, Answer
  <1>7. CASE Tick
    BY <1>7 DEF OneLimiterPerKey, Tick, reqVars
  <1>8. CASE UNCHANGED vars
    BY <1>8 DEF OneLimiterPerKey, vars
  <1>. QED
    BY <1>1, <1>2, <1>3, <1>4, <1>5, <1>6, <1>7, <1>8 DEF Next, Request

LEMMA OneInvariant == WatchedSpec => [](TypeOK /\ Asked /\ OneLimiterPerKey)
  <1>1. WatchedInit => OneLimiterPerKey
    <2> SUFFICES ASSUME WatchedInit PROVE OneLimiterPerKey
      OBVIOUS
    <2>1. Len(buckets) = 0
      BY DEF WatchedInit, Init
    <2>. QED
      BY <2>1 DEF WatchedInit, Init, OneLimiterPerKey
  <1>. QED
    BY <1>1, OneStep, TypeInvariant, PTL DEF WatchedSpec

\* Requests with one key share one limiter, keys never share one, and there
\* are no more limiters than keys.
THEOREM OneLimiterCorrect == WatchedSpec => []OneLimiterPerKey
  BY OneInvariant, PTL

-----------------------------------------------------------------------------
(* What a key may do in any time *)

\* The limiter of a key that has one.
Of(k) == buckets[limiters[k]]

\* Clocks that were read are at most Lag old, and the date of a limiter is
\* that of the latest admission.
Times ==
    /\ since <= now
    /\ \A c \in Conns : at[c] = "allow" => read[c] <= now /\ now <= read[c] + Lag
    /\ \A k \in Keys :
          IF limiters[k] = 0 THEN latest[k] = -Minute
          ELSE /\ Of(k).last <= now
               /\ \/ Of(k).last = latest[k]
                  \/ latest[k] = -Minute /\ Of(k) = NewLimiter

\* What was admitted since the mark and what the limiter still holds come
\* from the burst, from the time since Lag before the mark, and from the time
\* that was refilled twice.
Account ==
    /\ count = 0 => late = 0
    /\ count > 0 =>
          /\ limiters[watched] # 0
          /\ Of(watched).last + Lag >= since
          /\ Minute * count + Of(watched).tokens <=
                Burst + perMinute * (Of(watched).last + Lag - since) + perMinute * (Lag * late)

\* A step that admits nobody leaves the limiters alone, but for a new one.
Quiet ==
    /\ perMinute' = perMinute
    /\ UNCHANGED <<watched, count, late, latest>>
    /\ \A k \in Keys :
          IF limiters[k] # 0 THEN limiters'[k] = limiters[k] /\ Of(k)' = Of(k)
          ELSE limiters'[k] = 0 \/ (limiters'[k] # 0 /\ Of(k)' = NewLimiter)

\* What the observer sees of an admission.
Seen(c) ==
    /\ latest' = [latest EXCEPT ![key[c]] = read[c]]
    /\ count' = count + (IF key[c] = watched THEN 1 ELSE 0)
    /\ late' = late + (IF key[c] = watched /\ read[c] < latest[watched] THEN 1 ELSE 0)
    /\ UNCHANGED <<watched, since>>

LEMMA QuietSteps ==
    ASSUME TypeOK, Asked, OneLimiterPerKey, Watch
    PROVE  (\E c \in Conns : Admit(c) /\ Seen(c)) \/ (Quiet /\ UNCHANGED since)
  <1>1. ASSUME NEW c \in Conns, Admit(c)
        PROVE  Seen(c)
    <2>1. at[c] = "allow" /\ at'[c] = "passed" /\ \A d \in Conns : d # c => at'[d] = at[d]
      BY <1>1 DEF TypeOK, Admit, Answer
    <2>2. \A d \in Conns : Admits(d, key[d]) <=> d = c
      BY <2>1 DEF Admits
    <2>3. PICK d \in Conns :
             /\ Admits(d, key[d])
             /\ latest' = [latest EXCEPT ![key[d]] = read[d]]
             /\ count' = count + (IF key[d] = watched THEN 1 ELSE 0)
             /\ late' = late + (IF key[d] = watched /\ read[d] < latest[watched] THEN 1 ELSE 0)
      BY <2>2 DEF Watch
    <2>4. d = c
      BY <2>2, <2>3
    <2>. QED
      BY <2>3, <2>4 DEF Watch, Seen
  <1>2. ASSUME ~ \E d \in Conns : Admits(d, key[d])
        PROVE  UNCHANGED <<watched, since, count, late, latest>>
    BY <1>2 DEF Watch
  <1>3. ASSUME NEW c \in Conns, GetNothing(c) PROVE Quiet /\ UNCHANGED since
    <2>1. ~ \E d \in Conns : Admits(d, key[d])
      BY <1>3 DEF Admits, GetNothing, TypeOK, Free
    <2>. QED
      BY <1>2, <1>3, <2>1 DEF Quiet, GetNothing, Of
  <1>4. ASSUME NEW c \in Conns, NEW k \in Keys, GetKnown(c, k) PROVE Quiet /\ UNCHANGED since
    <2>1. ~ \E d \in Conns : Admits(d, key[d])
      BY <1>4 DEF Admits, GetKnown, TypeOK
    <2>. QED
      BY <1>2, <1>4, <2>1 DEF Quiet, GetKnown, Of
  <1>5. ASSUME NEW c \in Conns, NEW k \in Keys, GetNew(c, k) PROVE Quiet /\ UNCHANGED since
    <2>1. ~ \E d \in Conns : Admits(d, key[d])
      BY <1>5 DEF Admits, GetNew, TypeOK
    <2>2. /\ \A i \in 1 .. Len(buckets) : buckets'[i] = buckets[i]
          /\ buckets'[Len(buckets) + 1] = NewLimiter
      BY <1>5, GetNewSteps
    <2>3. Len(buckets) \in Nat /\ limiters \in [Keys -> 0 .. Len(buckets)]
      BY DEF TypeOK
    <2>4. NewLimiter' = NewLimiter
      BY <1>5 DEF NewLimiter, Burst, GetNew
    <2>5. ASSUME NEW j \in Keys
          PROVE  IF limiters[j] # 0 THEN limiters'[j] = limiters[j] /\ Of(j)' = Of(j)
                 ELSE limiters'[j] = 0 \/ (limiters'[j] # 0 /\ Of(j)' = NewLimiter)
      <3>1. CASE j = k
        BY <1>5, <2>2, <2>3, <3>1 DEF GetNew, Of
      <3>2. CASE j # k
        BY <1>5, <2>2, <2>3, <3>2 DEF GetNew, Of
      <3>. QED
        BY <3>1, <3>2
    <2>. QED
      BY <1>2, <1>5, <2>1, <2>5 DEF Quiet, GetNew
  <1>6. ASSUME NEW c \in Conns, ReadClock(c) PROVE Quiet /\ UNCHANGED since
    <2>1. ~ \E d \in Conns : Admits(d, key[d])
      BY <1>6 DEF Admits, ReadClock, TypeOK
    <2>. QED
      BY <1>2, <1>6, <2>1 DEF Quiet, ReadClock, Of
  <1>7. ASSUME NEW c \in Conns, Refuse(c) PROVE Quiet /\ UNCHANGED since
    <2>1. ~ \E d \in Conns : Admits(d, key[d])
      BY <1>7 DEF Admits, Refuse, Answer, TypeOK
    <2>. QED
      BY <1>2, <1>7, <2>1 DEF Quiet, Refuse, Of
  <1>8. ASSUME Tick PROVE Quiet /\ UNCHANGED since
    <2>1. ~ \E d \in Conns : Admits(d, key[d])
      BY <1>8 DEF Admits, Tick, reqVars
    <2>. QED
      BY <1>2, <1>8, <2>1 DEF Quiet, Tick, reqVars, Of
  <1>. QED
    BY <1>1, <1>3, <1>4, <1>5, <1>6, <1>7, <1>8 DEF Watch, Next, Request

\* The limiter of an admission, before and after it.
LEMMA AdmitLimiter ==
    ASSUME TypeOK, Asked, OneLimiterPerKey, NEW c \in Conns, Admit(c)
    PROVE  /\ limiters[key[c]] # 0 /\ Of(key[c]) \in Bucket /\ limiters' = limiters
           /\ perMinute \in Nat \ {0} /\ perMinute' = perMinute
           /\ Available(Of(key[c]), read[c]) \in Minute .. Burst
           /\ Of(key[c])' = [tokens |-> Available(Of(key[c]), read[c]) - Minute,
                             last |-> read[c]]
           /\ \A k \in Keys : k # key[c] /\ limiters[k] # 0 => Of(k)' = Of(k)
  <1>1. lim[c] = limiters[key[c]] /\ key[c] \in Keys
    BY DEF OneLimiterPerKey, Admit, TypeOK
  <1>2. perMinute \in Nat \ {0}
    BY RateAssumption DEF Asked, Admit, TypeOK
  <1>3. key' = key /\ limiters' = limiters /\ perMinute' = perMinute
    BY DEF Admit
  <1>4. ASSUME NEW k \in Keys, k # key[c], limiters[k] # 0
        PROVE  Of(k)' = Of(k)
    <2>1. limiters[k] # lim[c] /\ limiters[k] \in 1 .. Len(buckets)
      BY <1>1, <1>4 DEF OneLimiterPerKey, TypeOK
    <2>. QED
      BY <1>3, <2>1, AdmitSteps DEF Of
  <1>. QED
    BY <1>1, <1>2, <1>3, <1>4, AdmitSteps DEF Of

LEMMA TimesStep ==
    TypeOK /\ Asked /\ OneLimiterPerKey /\ Times /\ [Watch \/ Mark]_allVars => Times'
  <1> SUFFICES ASSUME TypeOK, Asked, OneLimiterPerKey, Times, [Watch \/ Mark]_allVars
               PROVE  Times'
    OBVIOUS
  <1> USE RateAssumption
  <1>1. now \in Nat /\ since \in Nat /\ read \in [Conns -> Nat] /\ key \in [Conns -> Keys]
    BY DEF TypeOK
  <1> DEFINE Fresh == \A c \in Conns : at[c] = "allow" => read[c] <= now /\ now <= read[c] + Lag
  <1>2. Fresh' /\ now' >= now
    <2>. [Next]_vars
      BY DEF Watch, Mark, allVars
    <2>1. ASSUME NEW c \in Conns, GetNothing(c) PROVE Fresh' /\ now' >= now
      BY <1>1, <2>1 DEF Times, TypeOK, GetNothing
    <2>2. ASSUME NEW c \in Conns, NEW k \in Keys, GetKnown(c, k) \/ GetNew(c, k) PROVE Fresh' /\ now' >= now
      BY <1>1, <2>2 DEF Times, TypeOK, GetKnown, GetNew
    <2>3. ASSUME NEW c \in Conns, ReadClock(c) PROVE Fresh' /\ now' >= now
      BY <1>1, <2>3 DEF Times, TypeOK, ReadClock
    <2>4. ASSUME NEW c \in Conns, Admit(c) \/ Refuse(c) PROVE Fresh' /\ now' >= now
      <3>1. now' = now /\ \E a \in {"passed", "limited"} :
               /\ at' = [at EXCEPT ![c] = a]
               /\ read' = [read EXCEPT ![c] = 0]
        BY <2>4 DEF Admit, Refuse, Answer
      <3>2. \A d \in Conns : at'[d] = "allow" => at[d] = "allow" /\ read'[d] = read[d]
        BY <1>1, <3>1 DEF TypeOK
      <3>. QED
        BY <1>1, <3>1, <3>2 DEF Times
    <2>5. CASE Tick
      BY <1>1, <2>5 DEF Times, Tick, reqVars
    <2>6. CASE UNCHANGED vars
      BY <1>1, <2>6 DEF Times, vars
    <2>. QED
      BY <2>1, <2>2, <2>3, <2>4, <2>5, <2>6 DEF Next, Request
  <1>3. CASE Watch /\ Quiet /\ UNCHANGED since
    <2>1. now' \in Nat
      BY <1>3, ModelStep DEF Watch, ModelOK
    <2>2. NewLimiter' = NewLimiter /\ NewLimiter.last = 0
      BY <1>3 DEF Quiet, NewLimiter, Burst
    <2>3. ASSUME NEW k \in Keys
          PROVE  (IF limiters[k] = 0 THEN latest[k] = -Minute
                  ELSE /\ Of(k).last <= now
                       /\ \/ Of(k).last = latest[k]
                          \/ latest[k] = -Minute /\ Of(k) = NewLimiter)'
      <3>1. CASE limiters[k] # 0
        <4>1. limiters'[k] = limiters[k] /\ Of(k)' = Of(k) /\ latest' = latest
          BY <1>3, <3>1 DEF Quiet
        <4>2. Of(k) \in Bucket
          <5>1. buckets \in Seq(Bucket) /\ limiters[k] \in 1 .. Len(buckets)
            BY <3>1 DEF TypeOK, Bucket
          <5>. QED
            BY <5>1 DEF Of
        <4>3. Of(k).last \in Nat
          BY <4>2 DEF Bucket
        <4>. QED
          BY <1>1, <1>2, <2>1, <2>2, <3>1, <4>1, <4>3 DEF Times
      <3>2. CASE limiters[k] = 0
        BY <1>3, <2>1, <2>2, <3>2 DEF Times, Quiet
      <3>. QED
        BY <3>1, <3>2
    <2>. QED
      BY <1>1, <1>2, <1>3, <2>1, <2>3 DEF Times
  <1>4. ASSUME NEW c \in Conns, Admit(c), Seen(c) PROVE Times'
    <2>1. read[c] <= now /\ now' = now /\ since' = since /\ key[c] \in Keys
      BY <1>1, <1>4 DEF Times, Admit, Seen
    <2>2. latest' = [latest EXCEPT ![key[c]] = read[c]] /\ latest \in [Keys -> Int]
      BY <1>4 DEF Seen, TypeOK
    <2>3. NewLimiter' = NewLimiter
      BY <1>4 DEF Admit, NewLimiter, Burst
    <2>4. Of(key[c])'.last = read[c] /\ limiters[key[c]] # 0 /\ limiters' = limiters
      <3>1. /\ Of(key[c])' = [tokens |-> Available(Of(key[c]), read[c]) - Minute, last |-> read[c]]
            /\ limiters[key[c]] # 0 /\ limiters' = limiters
        BY <1>4, AdmitLimiter
      <3>. QED
        BY <3>1
    <2>5. ASSUME NEW k \in Keys
          PROVE  (IF limiters[k] = 0 THEN latest[k] = -Minute
                  ELSE /\ Of(k).last <= now
                       /\ \/ Of(k).last = latest[k]
                          \/ latest[k] = -Minute /\ Of(k) = NewLimiter)'
      <3>1. CASE k = key[c]
        <4>1. Of(k)'.last = read[c] /\ latest'[k] = read[c] /\ limiters'[k] # 0
          BY <1>4, <2>1, <2>2, <2>4, <3>1 DEF Admit
        <4>. QED
          BY <2>1, <4>1
      <3>2. CASE k # key[c]
        BY <1>4, <2>1, <2>2, <2>3, <3>2, AdmitLimiter DEF Times
      <3>. QED
        BY <3>1, <3>2
    <2>. QED
      BY <1>2, <2>1, <2>5 DEF Times
  <1>5. CASE Mark
    BY <1>1, <1>2, <1>5 DEF Times, Mark, vars, Of, NewLimiter, Burst
  <1>6. CASE UNCHANGED allVars
    BY <1>1, <1>2, <1>6 DEF Times, allVars, watch, vars, Of, NewLimiter, Burst
  <1>. QED
    BY <1>3, <1>4, <1>5, <1>6, QuietSteps

\* An admission whose clock is not older than the limiter's.
LEMMA InOrder ==
    ASSUME NEW P \in Nat, NEW M \in Nat, NEW B \in Nat, NEW n \in Nat, NEW x \in Nat,
           NEW last \in Int, NEW t \in Int, NEW s \in Int, NEW extra \in Int, NEW a \in Int,
           M * n + x <= B + P * (last - s) + extra,
           a <= x + P * (t - last)
    PROVE  M * (n + 1) + (a - M) <= B + P * (t - s) + extra
  <1>1. P * (last - s) + P * (t - last) = P * (t - s)
    OBVIOUS
  <1>2. M * (n + 1) = M * n + M
    OBVIOUS
  <1> DEFINE u == M * n
             v == P * (last - s)
             w == P * (t - last)
  <1>3. u \in Int /\ v \in Int /\ w \in Int
    OBVIOUS
  <1>4. u + x <= B + v + extra /\ a <= x + w
    OBVIOUS
  <1> HIDE DEF u, v, w
  <1>5. u + M + (a - M) <= B + (v + w) + extra
    BY <1>3, <1>4
  <1>. QED
    BY <1>1, <1>2, <1>5 DEF u, v, w

\* An admission whose clock is older, by at most L.
LEMMA OutOfOrder ==
    ASSUME NEW P \in Nat, NEW M \in Nat, NEW B \in Nat, NEW n \in Nat, NEW x \in Nat,
           NEW last \in Int, NEW t \in Int, NEW s \in Int, NEW a \in Int,
           NEW L \in Nat, NEW m \in Nat,
           M * n + x <= B + P * (last - s) + P * (L * m),
           a <= x, last - t <= L
    PROVE  M * (n + 1) + (a - M) <= B + P * (t - s) + P * (L * (m + 1))
  <1>1. L - (last - t) \in Nat
    OBVIOUS
  <1>2. P * (L - (last - t)) \in Nat
    BY <1>1
  <1>3. P * (t - s) + P * (L * (m + 1)) = P * (last - s) + P * (L * m) + P * (L - (last - t))
    OBVIOUS
  <1>4. M * (n + 1) = M * n + M
    OBVIOUS
  <1> DEFINE u == M * n
             v == P * (last - s) + P * (L * m)
             w == P * (L - (last - t))
  <1>5. u \in Int /\ v \in Int /\ w \in Nat
    BY <1>2
  <1>6. u + x <= B + v
    OBVIOUS
  <1> HIDE DEF u, v, w
  <1>7. u + M + (a - M) <= B + v + w
    BY <1>5, <1>6
  <1>8. B + P * (t - s) + P * (L * (m + 1)) = B + v + w
    BY <1>3 DEF v, w
  <1>. QED
    BY <1>4, <1>7, <1>8 DEF u

LEMMA AccountStep ==
    /\ TypeOK /\ Asked /\ OneLimiterPerKey /\ Times /\ Account
    /\ [Watch \/ Mark]_allVars
    => Account'
  <1> SUFFICES ASSUME TypeOK, Asked, OneLimiterPerKey, Times, Account,
                      [Watch \/ Mark]_allVars
               PROVE  Account'
    OBVIOUS
  <1> USE RateAssumption
  <1>1. count \in Nat /\ late \in Nat /\ since \in Nat /\ now \in Nat /\ watched \in Keys
    BY DEF TypeOK
  <1>2. CASE Quiet /\ UNCHANGED since
    <2>1. count > 0 => limiters'[watched] = limiters[watched] /\ Of(watched)' = Of(watched)
      BY <1>1, <1>2 DEF Quiet, Account
    <2>2. Burst' = Burst
      BY <1>2 DEF Quiet, Burst
    <2>. QED
      BY <1>2, <2>1, <2>2 DEF Account, Quiet
  <1>3. ASSUME NEW c \in Conns, Admit(c), Seen(c), key[c] # watched
        PROVE  Account'
    <2>1. count' = count /\ late' = late /\ watched' = watched /\ since' = since
      BY <1>1, <1>3 DEF Seen
    <2>2. perMinute' = perMinute /\ limiters' = limiters
      BY <1>3 DEF Admit
    <2>3. count > 0 => Of(watched)' = Of(watched)
      <3>1. count > 0 => limiters[watched] # 0
        BY DEF Account
      <3>2. \A k \in Keys : k # key[c] /\ limiters[k] # 0 => buckets'[limiters'[k]] = buckets[limiters[k]]
        BY <1>3, AdmitLimiter DEF Of
      <3>. QED
        BY <1>1, <1>3, <2>1, <3>1, <3>2 DEF Of
    <2>4. Burst' = Burst
      BY <2>2 DEF Burst
    <2>. QED
      BY <2>1, <2>2, <2>3, <2>4 DEF Account
  <1>4. ASSUME NEW c \in Conns, Admit(c), Seen(c), key[c] = watched
        PROVE  Account'
    <2> DEFINE b == Of(watched)
               t == read[c]
               a == Available(b, t)
               s == since - Lag
    <2>1. /\ limiters[watched] # 0 /\ b \in Bucket
          /\ perMinute \in Nat \ {0} /\ perMinute' = perMinute
          /\ a \in Minute .. Burst /\ limiters' = limiters
          /\ Of(key[c])' = [tokens |-> a - Minute, last |-> t]
      BY <1>4, AdmitLimiter
    <2>2. key' = key /\ watched' = watched /\ since' = since
      BY <1>4 DEF Admit, Seen
    <2>3. Of(watched)' = [tokens |-> a - Minute, last |-> t]
      BY <1>4, <2>1, <2>2 DEF Of
    <2>4. Burst' = Burst /\ Burst \in Nat
      BY <2>1 DEF Burst
    <2>5. count' = count + 1 /\ count' > 0
      BY <1>1, <1>4 DEF Seen
    <2>6. t \in Nat /\ t <= now /\ now <= t + Lag /\ t + Lag >= since
      BY <1>1, <1>4 DEF Times, Admit, TypeOK
    <2>7. b.last \in Nat /\ b.tokens \in Nat /\ b.last <= now
      BY <1>1, <2>1, <2>4 DEF Times, Bucket
    <2>8. late' \in Nat /\ late' >= late
      BY <1>1, <1>4 DEF Seen
    <2> HIDE DEF a, b, t, s
    <2>9. Minute * (count + 1) + (a - Minute)
             <= Burst + perMinute * (t - s) + perMinute * (Lag * late')
      <3>1. CASE count = 0
        <4>1. t - s \in Nat /\ Lag * late' \in Nat
          <5>1. t - s \in Nat
            BY <1>1, <2>6 DEF s
          <5>2. \A m \in Nat : Lag * m \in Nat
            OBVIOUS
          <5>. QED
            BY <2>8, <5>1, <5>2
        <4>2. perMinute * (t - s) \in Nat /\ perMinute * (Lag * late') \in Nat
          BY <2>1, <4>1
        <4>3. Minute * (count + 1) = Minute
          BY <3>1
        <4>. QED
          BY <2>1, <2>4, <4>2, <4>3
      <3>2. CASE count # 0
        <4>1. Minute * count + b.tokens
                 <= Burst + perMinute * (b.last - s) + perMinute * (Lag * late)
          <5>1. Minute * count + b.tokens
                   <= Burst + perMinute * (b.last + Lag - since) + perMinute * (Lag * late)
            BY <1>1, <3>2 DEF Account, b
          <5>2. b.last + Lag - since = b.last - s
            BY <1>1, <2>7 DEF s
          <5>. QED
            BY <5>1, <5>2
        <4>2. CASE t >= b.last
          <5>1. late' = late
            <6>1. ~(t < latest[watched])
              <7>1. b.last = latest[watched] \/ latest[watched] = -Minute
                BY <1>1, <2>1 DEF Times, b
              <7>. QED
                BY <2>6, <2>7, <4>2, <7>1
            <6>. QED
              BY <1>1, <1>4, <6>1 DEF Seen, t
          <5>2. a <= b.tokens + perMinute * (t - b.last)
            <6>1. ~(t < b.last) /\ perMinute * (t - b.last) \in Int
              BY <2>1, <2>6, <2>7, <4>2
            <6>2. a = IF b.tokens + perMinute * (t - b.last) > Burst THEN Burst
                      ELSE b.tokens + perMinute * (t - b.last)
              BY <6>1 DEF a, Available
            <6>. QED
              BY <2>4, <2>7, <6>1, <6>2
          <5>3. s \in Int /\ perMinute * (Lag * late) \in Int
            BY <1>1, <2>1 DEF s
          <5>. QED
            BY <1>1, <2>1, <2>4, <2>6, <2>7, <4>1, <5>1, <5>2, <5>3, InOrder
        <4>3. CASE t < b.last
          <5>1. late' = late + 1
            <6>1. b # NewLimiter
              BY <2>6, <2>7, <4>3 DEF NewLimiter
            <6>2. b.last = latest[watched]
              BY <1>1, <2>1, <6>1 DEF Times, b
            <6>. QED
              BY <1>4, <4>3, <6>2 DEF Seen, t
          <5>2. a <= b.tokens
            BY <2>4, <2>7, <4>3 DEF a, Available
          <5>3. b.last - t <= Lag /\ s \in Int
            BY <1>1, <2>6, <2>7 DEF s
          <5>. QED
            BY <1>1, <2>1, <2>4, <2>6, <2>7, <4>1, <5>1, <5>2, <5>3, OutOfOrder
        <4>. QED
          BY <2>6, <2>7, <4>2, <4>3
      <3>. QED
        BY <3>1, <3>2
    <2>10. t - s = t + Lag - since
      BY <1>1, <2>6 DEF s
    <2>. QED
      BY <1>1, <2>1, <2>2, <2>3, <2>4, <2>5, <2>6, <2>9, <2>10 DEF Account
  <1>5. CASE Mark
    BY <1>5 DEF Mark, Account
  <1>6. CASE UNCHANGED allVars
    BY <1>6 DEF allVars, watch, vars, Account, Of, Burst
  <1>. QED
    BY <1>2, <1>3, <1>4, <1>5, <1>6, QuietSteps

LEMMA RateInvariant ==
    WatchedSpec => [](TypeOK /\ Asked /\ OneLimiterPerKey /\ Times /\ Account)
  <1>1. WatchedInit => Times /\ Account
    BY RateAssumption DEF WatchedInit, Init, Times, Account
  <1>. QED
    BY <1>1, OneInvariant, TimesStep, AccountStep, PTL DEF WatchedSpec

\* Between any moment and any later one a client is admitted no more often
\* than the burst and its rate allow, plus what clocks taken over out of order
\* refill twice.
THEOREM WindowCorrect == WatchedSpec => []WindowBounded
  <1>1. TypeOK /\ Times /\ Account => WindowBounded
    <2> SUFFICES ASSUME TypeOK, Times, Account, perMinute > 0
                 PROVE  Minute * count <= Burst + perMinute * (now - since + Lag * (1 + late))
      BY DEF WindowBounded
    <2> USE RateAssumption
    <2>1. /\ count \in Nat /\ late \in Nat /\ since \in Nat /\ now \in Nat /\ watched \in Keys
          /\ perMinute \in Nat /\ Burst \in Nat /\ since <= now
      BY DEF TypeOK, Burst, Times
    <2>2. perMinute * (now - since + Lag * (1 + late)) \in Nat
      <3>1. now - since \in Nat /\ Lag * (1 + late) \in Nat
        BY <2>1
      <3>. QED
        BY <2>1, <3>1
    <2>3. CASE count = 0
      BY <2>1, <2>2, <2>3
    <2>4. CASE count > 0
      <3> DEFINE b == Of(watched)
      <3>1. /\ b.last <= now
            /\ Minute * count + b.tokens
                  <= Burst + perMinute * (b.last + Lag - since) + perMinute * (Lag * late)
        BY <2>1, <2>4 DEF Account, Times
      <3>2. b.last \in Nat /\ b.tokens \in Nat
        <4>1. b \in Bucket
          <5>1. buckets \in Seq(Bucket) /\ limiters[watched] \in 1 .. Len(buckets)
            BY <2>1, <2>4 DEF TypeOK, Bucket, Account
          <5>. QED
            BY <5>1 DEF Of
        <4>. QED
          BY <2>1, <4>1 DEF Bucket
      <3> HIDE DEF b
      <3>3. perMinute * (now - since + Lag * (1 + late))
               = perMinute * (b.last + Lag - since) + perMinute * (Lag * late)
                    + perMinute * (now - b.last)
        BY <2>1, <3>2
      <3>4. perMinute * (now - b.last) \in Nat
        <4>1. now - b.last \in Nat
          BY <2>1, <3>1, <3>2
        <4>. QED
          BY <2>1, <4>1
      <3> DEFINE u == Minute * count
                 v == perMinute * (b.last + Lag - since)
                 w == perMinute * (Lag * late)
                 x == perMinute * (now - b.last)
      <3>5. u \in Int /\ v \in Int /\ w \in Int /\ x \in Nat /\ u + b.tokens <= Burst + v + w
        BY <2>1, <3>1, <3>2, <3>4
      <3> HIDE DEF u, v, w, x
      <3>6. u <= Burst + (v + w + x)
        BY <2>1, <3>2, <3>5
      <3>. QED
        BY <3>3, <3>6 DEF u, v, w, x
    <2>. QED
      BY <2>1, <2>3, <2>4
  <1>. QED
    BY <1>1, RateInvariant, PTL

\* Of the limit per minute (config.go:42) this much is true: in a minute, less
\* what requests lose between clock and mutex, a client is never admitted more
\* than twice that often.
THEOREM TwiceAMinute ==
    WatchedSpec => [](perMinute > 0 /\ now - since + Lag * (1 + late) <= Minute
                         => count <= 2 * perMinute)
  <1>1. TypeOK /\ Times /\ WindowBounded
           => (perMinute > 0 /\ now - since + Lag * (1 + late) <= Minute
                 => count <= 2 * perMinute)
    <2> SUFFICES ASSUME TypeOK, Times, WindowBounded, perMinute > 0,
                        now - since + Lag * (1 + late) <= Minute
                 PROVE  count <= 2 * perMinute
      OBVIOUS
    <2> DEFINE time == now - since + Lag * (1 + late)
    <2>1. count \in Nat /\ perMinute \in Nat /\ Minute \in Nat \ {0} /\ late \in Nat
      BY RateAssumption DEF TypeOK
    <2>2. time \in Int /\ time <= Minute
      BY <2>1, RateAssumption DEF TypeOK
    <2>3. Minute * count <= perMinute * Minute + perMinute * time
      BY DEF WindowBounded, Burst
    <2> HIDE DEF time
    <2>4. perMinute * time <= perMinute * Minute
      BY <2>1, <2>2
    <2>5. Minute * count <= Minute * (2 * perMinute)
      <3>1. /\ Minute * count \in Int /\ perMinute * time \in Int /\ perMinute * Minute \in Int
            /\ Minute * (2 * perMinute) = perMinute * Minute + perMinute * Minute
        BY <2>1, <2>2
      <3>. QED
        BY <2>3, <2>4, <3>1
    <2>6. ASSUME count >= 2 * perMinute + 1 PROVE FALSE
      <3>1. Minute * count >= Minute * (2 * perMinute + 1)
        BY <2>1, <2>6
      <3>2. Minute * (2 * perMinute + 1) = Minute * (2 * perMinute) + Minute
        BY <2>1
      <3>. QED
        BY <2>1, <2>5, <3>1, <3>2
    <2>. QED
      BY <2>1, <2>6
  <1>. QED
    BY <1>1, WindowCorrect, RateInvariant, PTL

\* A client that waits Minute / perMinute after its last admission is not
\* refused, whatever it or others asked in between.
THEOREM RefusalCorrect == WatchedSpec => RefusedSoonAfter
  <1> DEFINE Soon == \A c \in Conns : at[c] = "allow" /\ at'[c] = "limited" =>
                         perMinute * (read[c] - latest[key[c]]) < Minute
  <1>1. /\ TypeOK /\ Asked /\ OneLimiterPerKey /\ Times
        /\ [Watch \/ Mark]_allVars
        => [Soon]_allVars
    <2> SUFFICES ASSUME TypeOK, Asked, OneLimiterPerKey, Times, Next,
                        NEW c \in Conns, at[c] = "allow", at'[c] = "limited"
                 PROVE  perMinute * (read[c] - latest[key[c]]) < Minute
      BY DEF Watch, Mark, allVars, vars
    <2> USE RateAssumption
    <2>1. Refuse(c)
      <3>1. ASSUME NEW d \in Conns, Request(d) PROVE Refuse(c)
        BY <3>1 DEF Request, GetNothing, GetKnown, GetNew, ReadClock, Admit, Refuse, Answer,
                    Free, TypeOK
      <3>2. ~Tick
        BY DEF Tick, reqVars
      <3>. QED
        BY <3>1, <3>2 DEF Next
    <2> DEFINE b == buckets[lim[c]]
               k == key[c]
               t == read[c]
    <2>2. /\ b = Of(k) /\ k \in Keys /\ limiters[k] # 0 /\ b \in Bucket
          /\ perMinute \in Nat \ {0} /\ t \in Nat
      <3>1. buckets \in Seq(Bucket) /\ lim[c] \in 1 .. Len(buckets) /\ perMinute > 0
        BY DEF TypeOK, Bucket, Asked
      <3>2. b \in Bucket
        BY <3>1
      <3>. QED
        BY <3>1, <3>2 DEF OneLimiterPerKey, TypeOK, Of
    <2>3. Burst \in Nat /\ Burst >= Minute
      BY <2>2 DEF Burst
    <2>4. b.tokens \in Nat /\ b.last \in Nat
      BY <2>2, <2>3 DEF Bucket
    <2>5. Available(b, t) < Minute
      BY <2>1 DEF Refuse
    <2>6. b.last = latest[k] \/ b = NewLimiter
      BY <2>2 DEF Times
    <2> HIDE DEF b, k, t
    <2>7. CASE t < b.last
      <3>1. b # NewLimiter
        BY <2>2, <2>7 DEF NewLimiter
      <3>2. b.last = latest[k] /\ b.last - t \in Nat
        BY <2>2, <2>4, <2>6, <2>7, <3>1
      <3>3. perMinute * (b.last - t) \in Nat /\ perMinute * (t - b.last) = -(perMinute * (b.last - t))
        BY <2>2, <2>4, <3>2
      <3>. QED
        BY <2>2, <2>4, <3>2, <3>3 DEF k, t
    <2>8. CASE ~(t < b.last)
      <3> DEFINE g == perMinute * (t - b.last)
      <3>1. t - b.last \in Nat
        BY <2>2, <2>4, <2>8
      <3>2. g \in Nat
        BY <2>2, <3>1
      <3>3. Available(b, t) = IF b.tokens + g > Burst THEN Burst ELSE b.tokens + g
        BY <2>8 DEF Available
      <3> HIDE DEF g
      <3>4. b.tokens + g < Minute
        BY <2>3, <2>4, <2>5, <3>2, <3>3
      <3>5. b # NewLimiter
        BY <2>3, <3>2, <3>4 DEF NewLimiter
      <3>. QED
        BY <2>4, <2>6, <3>2, <3>4, <3>5 DEF g, k, t
    <2>. QED
      BY <2>7, <2>8
  <1>. QED
    BY <1>1, RateInvariant, PTL DEF WatchedSpec, RefusedSoonAfter
=============================================================================
