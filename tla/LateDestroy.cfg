\* The next mount comes as soon as the thread of the one before has ended.
SPECIFICATION Spec
CONSTANTS
    MaxMounts = 2
    MaxRequests = 1
    Ends = {"umount"}
    Failures = {}
    Options <- OneMount
    Remount = "ended"
INVARIANT InitFirst
CHECK_DEADLOCK FALSE
