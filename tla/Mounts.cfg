\* Sessions that end by umount, unmount, a signal or an error; everything may fail.
SPECIFICATION Spec
CONSTANTS
    MaxMounts = 3
    MaxRequests = 3
    Ends = {"unmount", "umount", "signal", "error"}
    Failures = {"parse", "mount", "object", "thread", "session", "handlers"}
    Options <- MCOptions
    Remount = "settled"
INVARIANTS TypeOK UsesAreLive NothingLeft
PROPERTIES ImplementsSessionProtocol GoneIsReleased
CHECK_DEADLOCK FALSE
