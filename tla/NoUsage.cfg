\* mount() with an empty list of options.
SPECIFICATION Spec
CONSTANTS
    MaxMounts = 1
    MaxRequests = 1
    Ends = {}
    Failures = {}
    Options <- NoOptions
    Remount = "settled"
INVARIANT UsageShown
CHECK_DEADLOCK FALSE
