SPECIFICATION Spec
CONSTANTS
    s1 = s1
    s2 = s2
    m1 = m1
    m2 = m2
    a1 = a1
    k1 = k1
    k2 = k2
    Sources = {s1, s2}
    Modules = {m1, m2}
    Aggregators = {a1}
    Sinks = {k1, k2}
    RoundRobin = {s2}
    Batches = {s2}
    MaxBatch = 2
    MaxRounds = 2
    ManualEdges <- MCManualEdges
INVARIANTS
    WiredAsDocumented
    ProducersNumbered
    NoUndefinedBehaviour
    SinksAgree
    RoundsDoNotMix
\* the rounds are bounded, and an execution may end in undefined behaviour
CHECK_DEADLOCK FALSE
