SPECIFICATION Spec
CONSTANTS
    c1 = c1
    c2 = c2
    Callers = {c1, c2}
    PinnedCores <- MCPinned
    IsolatedCores <- MCIsolated
    MaxCores = 2
    Serialised = FALSE
    NoOne = NoOne
SYMMETRY CallerSymmetry
INVARIANTS
    CoresConserved
\* a non-strict ISOLATED request may block the manager for good
CHECK_DEADLOCK FALSE
