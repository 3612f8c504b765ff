------------------------- MODULE RateLimitProperties -------------------------
(***************************************************************************)
(* What is claimed of RateLimit.  An observer that chooses a key and a     *)
(* moment, and counts the admissions from there on, stands beside it.      *)
(***************************************************************************)
EXTENDS RateLimit, FiniteSets

VARIABLES
    watched,  \* the key chosen
    since,    \* the moment chosen
    count,    \* admissions of that key since then
    late,     \* those of them that set the clock of the limiter back
    latest    \* key -> clock of its latest admission; -Minute before any

watch == <<watched, since, count, late, latest>>
allVars == <<vars, watch>>

Admits(c, k) == at[c] = "allow" /\ at'[c] = "passed" /\ key[c] = k

Watch ==
    /\ Next
    /\ \/ \E c \in Conns :
             /\ Admits(c, key[c])
             /\ latest' = [latest EXCEPT ![key[c]] = read[c]]
             /\ count' = count + (IF key[c] = watched THEN 1 ELSE 0)
             /\ late' = late + (IF key[c] = watched /\ read[c] < latest[watched] THEN 1 ELSE 0)
       \/ /\ ~ \E c \in Conns : Admits(c, key[c])
          /\ UNCHANGED <<count, late, latest>>
    /\ UNCHANGED <<watched, since>>

Mark ==
    /\ since' = now /\ count' = 0 /\ late' = 0
    /\ UNCHANGED <<vars, watched, latest>>

WatchedInit ==
    /\ Init
    /\ watched \in Keys
    /\ since = 0 /\ count = 0 /\ late = 0
    /\ latest = [k \in Keys |-> -Minute]

WatchedSpec == WatchedInit /\ [][Watch \/ Mark]_allVars

-----------------------------------------------------------------------------

\* Type invariant.
TypeOK ==
    /\ now \in Nat
    /\ perMinute \in Rates
    /\ limiters \in [Keys -> 0 .. Len(buckets)]
    /\ buckets \in Seq([tokens : 0 .. Burst, last : Nat])
    /\ at \in [Conns -> {"clock", "allow", "passed", "limited"}]
    /\ key \in [Conns -> Keys]
    /\ lim \in [Conns -> 0 .. Len(buckets)]
    /\ read \in [Conns -> Nat]
    /\ since \in Nat
    /\ watched \in Keys
    /\ count \in Nat /\ late \in Nat
    /\ latest \in [Keys -> Int]

\* Two requests with one key never share their limit with another key, nor
\* have two limits because they came at the same time, and there are as many
\* limiters as keys were seen, however many requests they sent.
OneLimiterPerKey ==
    /\ \A c \in Conns : at[c] \in {"clock", "allow"} => lim[c] = limiters[key[c]]
    /\ \A i \in 1 .. Len(buckets) : \E k \in Keys : limiters[k] = i
    /\ \A j, k \in Keys : limiters[j] = limiters[k] => j = k \/ limiters[k] = 0

\* What a key may do between any moment and now: the burst, and the rate
\* times the time.  The time is longer by Lag at the start, and by Lag again
\* for every admission that set the clock of the limiter back: what lies
\* between the two clocks is refilled twice.
WindowBounded ==
    perMinute > 0 =>
        Minute * count <= Burst + perMinute * (now - since + Lag * (1 + late))

\* A request is only refused if one with the same key was admitted less than
\* Minute / perMinute before it: refusals, other keys and clocks out of order
\* take nothing from a client that waits that long.
RefusedSoonAfter ==
    [][ \A c \in Conns : at[c] = "allow" /\ at'[c] = "limited" =>
            perMinute * (read[c] - latest[key[c]]) < Minute ]_allVars
=============================================================================
