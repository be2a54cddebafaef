SPECIFICATION StartSpec
CONSTANTS
    Threads = {t1, t2}
    MaxManagers = 2
    Machines <- SomeMachines
    Unreadable = Unreadable
INVARIANTS
    OneManagerForAll
    PoolsFollowKernel
CHECK_DEADLOCK FALSE
