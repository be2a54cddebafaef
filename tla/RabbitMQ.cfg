SPECIFICATION Spec
CONSTANTS
    Publishers = {p1}
    Consumers = {c1, c2}
    MaxMessages = 3
    Nobody = Nobody
SYMMETRY Alike
INVARIANTS
    AcceptedIsKept
    ReceivedOnceInOrder
CHECK_DEADLOCK FALSE
