------------------------------ MODULE RateLimit ------------------------------
(***************************************************************************)
(* rateLimitMW (internal/server/middleware.go) with the clientLimiters of  *)
(* internal/server/server.go: one token bucket per client key, found or    *)
(* made under a mutex, and asked under a mutex of its own with a clock     *)
(* that was read before that mutex was taken.                              *)
(***************************************************************************)
EXTENDS Integers, Sequences

CONSTANTS
    Conns,      \* connections; each sends one request after another
    Keys,       \* what clientKey returns: a prefix of a token, or an IP
    Rates,      \* values of RateLimitPerMinute to consider
    Minute,     \* ticks of the clock in a minute
    Lag,        \* ticks a goroutine may spend between clock and mutex
    MaxTime     \* last tick (bound)

ASSUME RateAssumption ==
    /\ Rates \subseteq Int
    /\ Minute \in Nat \ {0}
    /\ Lag \in Nat
    /\ MaxTime \in Nat

VARIABLES
    now,        \* the monotonic clock
    perMinute,  \* clientLimiters.perMinute; never written again
    limiters,   \* key -> place of its limiter in buckets, or 0
    buckets,    \* the limiters made so far; a token is Minute units
    at,         \* connection -> where its request is, or how the last ended
    key,        \* connection -> key of its request
    lim,        \* connection -> limiter that get returned
    read        \* connection -> the clock as Allow read it

reqVars == <<at, key, lim, read>>
vars == <<now, perMinute, limiters, buckets, at, key, lim, read>>

Burst == perMinute * Minute
NewLimiter == [tokens |-> Burst, last |-> 0]

Init ==
    /\ now = 0
    /\ perMinute \in Rates
    /\ limiters = [k \in Keys |-> 0]
    /\ buckets = <<>>
    /\ at = [c \in Conns |-> "passed"]
    /\ key \in [Conns -> Keys]
    /\ lim = [c \in Conns |-> 0]
    /\ read = [c \in Conns |-> 0]

Free(c) == at[c] \in {"passed", "limited"}

\* No limit is configured: get returns nil, and nil is not asked.
GetNothing(c) ==
    /\ Free(c) /\ perMinute <= 0
    /\ at' = [at EXCEPT ![c] = "passed"]
    /\ UNCHANGED <<now, perMinute, limiters, buckets, key, lim, read>>

\* Mutant of GetNew: a limiter is made for every request.
GetNewAlways(c, k) ==
    /\ Free(c) /\ perMinute > 0
    /\ buckets' = Append(buckets, NewLimiter)
    /\ limiters' = [limiters EXCEPT ![k] = Len(buckets) + 1]
    /\ lim' = [lim EXCEPT ![c] = Len(buckets) + 1]
    /\ at' = [at EXCEPT ![c] = "clock"] /\ key' = [key EXCEPT ![c] = k]
    /\ UNCHANGED <<now, perMinute, read>>

\* get, with clientLimiters.mu held: the limiter of this key, or a new one
\* that is full.
GetKnown(c, k) ==
    /\ Free(c) /\ perMinute > 0 /\ limiters[k] # 0
    /\ lim' = [lim EXCEPT ![c] = limiters[k]]
    /\ at' = [at EXCEPT ![c] = "clock"] /\ key' = [key EXCEPT ![c] = k]
    /\ UNCHANGED <<now, perMinute, limiters, buckets, read>>

GetNew(c, k) ==
    /\ Free(c) /\ perMinute > 0 /\ limiters[k] = 0
    /\ buckets' = Append(buckets, NewLimiter)
    /\ limiters' = [limiters EXCEPT ![k] = Len(buckets) + 1]
    /\ lim' = [lim EXCEPT ![c] = Len(buckets) + 1]
    /\ at' = [at EXCEPT ![c] = "clock"] /\ key' = [key EXCEPT ![c] = k]
    /\ UNCHANGED <<now, perMinute, read>>

\* Allow is AllowN(time.Now(), 1): the clock is read before Limiter.mu.
ReadClock(c) ==
    /\ at[c] = "clock"
    /\ read' = [read EXCEPT ![c] = now]
    /\ at' = [at EXCEPT ![c] = "allow"]
    /\ UNCHANGED <<now, perMinute, limiters, buckets, key, lim>>

\* The end of the request; what it had read is gone.
Answer(c, a) ==
    /\ at' = [at EXCEPT ![c] = a]
    /\ lim' = [lim EXCEPT ![c] = 0] /\ read' = [read EXCEPT ![c] = 0]

\* Mutant of Available: no burst.
AvailableUncapped(b, t) ==
    b.tokens + (IF t < b.last THEN 0 ELSE perMinute * (t - b.last))

\* Limiter.advance: what the bucket holds at t; a t that is older than the
\* last admission adds nothing.
Available(b, t) ==
    LET gained == IF t < b.last THEN 0 ELSE perMinute * (t - b.last)
    IN  IF b.tokens + gained > Burst THEN Burst ELSE b.tokens + gained

\* Mutant of Admit: the time of the refill is not kept.
AdmitUndated(c) ==
    LET b == buckets[lim[c]]
    IN  /\ at[c] = "allow" /\ Available(b, read[c]) >= Minute
        /\ buckets' = [buckets EXCEPT ![lim[c]].tokens = Available(b, read[c]) - Minute]
        /\ Answer(c, "passed")
        /\ UNCHANGED <<now, perMinute, limiters, key>>

\* A token is there.  The limiter takes over the time that was read, also
\* when another request has set a later one meanwhile.
Admit(c) ==
    LET b == buckets[lim[c]]
    IN  /\ at[c] = "allow" /\ Available(b, read[c]) >= Minute
        /\ buckets' = [buckets EXCEPT ![lim[c]] =
                          [tokens |-> Available(b, read[c]) - Minute, last |-> read[c]]]
        /\ Answer(c, "passed")
        /\ UNCHANGED <<now, perMinute, limiters, key>>

\* Mutant of Refuse: a refusal too restarts the refill.
RefuseDated(c) ==
    LET b == buckets[lim[c]]
    IN  /\ at[c] = "allow" /\ Available(b, read[c]) < Minute
        /\ buckets' = [buckets EXCEPT ![lim[c]].last = read[c]]
        /\ Answer(c, "limited")
        /\ UNCHANGED <<now, perMinute, limiters, key>>

\* 429 rate_limited; the limiter is left as it was.
Refuse(c) ==
    /\ at[c] = "allow" /\ Available(buckets[lim[c]], read[c]) < Minute
    /\ Answer(c, "limited")
    /\ UNCHANGED <<now, perMinute, limiters, buckets, key>>

\* Nobody stays between clock and mutex for more than Lag ticks.
Tick ==
    /\ now < MaxTime
    /\ \A c \in Conns : at[c] = "allow" => now - read[c] < Lag
    /\ now' = now + 1
    /\ UNCHANGED <<perMinute, limiters, buckets, reqVars>>

Request(c) ==
    \/ GetNothing(c)
    \/ \E k \in Keys : GetKnown(c, k) \/ GetNew(c, k)
    \/ ReadClock(c) \/ Admit(c) \/ Refuse(c)

Next == Tick \/ \E c \in Conns : Request(c)

Spec == Init /\ [][Next]_vars
=============================================================================
