\* The unmount method, and a kernel that may never send another request.
SPECIFICATION Spec
CONSTANTS
    MaxMounts = 1
    MaxRequests = 2
    Ends = {"unmount"}
    Failures = {}
    Options <- OneMount
    Remount = "settled"
PROPERTY UnmountEndsLoop
CHECK_DEADLOCK FALSE
