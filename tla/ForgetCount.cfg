SPECIFICATION Spec
CONSTANTS
    Unset = Unset
    Null = Null
    ToSet <- FewMasks
    Operations = {"lookup", "forget"}
    WideOps = {"forget"}
    Capacity = 1
    MaxRequests = 3
INVARIANT CallsAsPromised
CHECK_DEADLOCK FALSE
