\* Longer interleavings of a few operations through a ring with room for two.
SPECIFICATION Spec
CONSTANTS
    Unset = Unset
    Null = Null
    ToSet <- FewMasks
    Operations <- FewOperations
    WideOps = {}
    Capacity = 2
    MaxRequests = 4
INVARIANTS TypeOK NoLostWakeup
PROPERTIES ImplementsService UsesTheRing EveryRequestDelivered
CHECK_DEADLOCK FALSE
