\* Every pair of operations after INIT, through a ring with room for one.
SPECIFICATION Spec
CONSTANTS
    Unset = Unset
    Null = Null
    ToSet <- FewMasks
    Operations <- AllOperations
    WideOps = {"read", "write"}
    Capacity = 1
    MaxRequests = 3
INVARIANTS CallsAsPromised BuffersMatchRequests
PROPERTIES FreesOnlyLive
CHECK_DEADLOCK FALSE
