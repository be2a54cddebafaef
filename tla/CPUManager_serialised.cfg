SPECIFICATION Spec
CONSTANTS
    c1 = c1
    c2 = c2
    Callers = {c1, c2}
    PinnedCores <- MCPinned
    IsolatedCores <- MCIsolated
    MaxCores = 2
    Serialised = TRUE
    NoOne = NoOne
INVARIANTS
    CoresConserved
    IInv
PROPERTIES
    ImplementsCoreAllocator
\* a non-strict ISOLATED request may block the manager for good
CHECK_DEADLOCK FALSE
