SPECIFICATION Spec
CONSTANTS
    Unset = Unset
    Null = Null
    ToSet <- FewMasks
    Operations = {"lookup", "multiforget"}
    WideOps = {}
    Capacity = 1
    MaxRequests = 3
INVARIANT CallsAsPromised
CHECK_DEADLOCK FALSE
