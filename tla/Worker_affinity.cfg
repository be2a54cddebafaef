SPECIFICATION Spec
CONSTANTS
    w1 = w1
    w2 = w2
    Workers = {w1}
    PinnedCores <- MCPinned
    IsolatedCores <- MCIsolated
    Policies <- MCPolicies
    MaxStarts = 2
    None = None
INVARIANTS
    RunsOnItsCores
\* the control thread may make no more calls, and the process may end
CHECK_DEADLOCK FALSE
