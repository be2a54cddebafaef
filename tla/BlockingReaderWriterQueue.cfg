SPECIFICATION Spec
CONSTANTS
    Raw = Raw
    Nothing = Nothing
    Sizes = {1, 2, 4}
    MaxBlockSize = 2
    MaxBlocks = 3
    MaxPushes <- SomePushes
    Instances <- SomeInstances
INVARIANTS
    ElementsLiveOnce
    AssertionsHold
    PermitsMatchElements
    SemInv
CHECK_DEADLOCK FALSE
PROPERTIES
    ImplementsBoundedFifo
    ImplementsSemaphore
    SleeperIsServed
    CallsReturn
