\* Two connections, two keys, no limit, 1 or 2 in a minute of three ticks.
CONSTANTS
    c1 = c1  c2 = c2  k1 = k1  k2 = k2
    Conns <- TwoConns
    Keys <- TwoKeys
    Rates <- SomeRates
    Minute = 3
    Lag = 1
    MaxTime = 5
SPECIFICATION WatchedSpec
SYMMETRY Symmetry
INVARIANTS
    TypeOK
    OneLimiterPerKey
    WindowBounded
PROPERTIES
    RefusedSoonAfter
