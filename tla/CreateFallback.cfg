\* The default file system, which does not implement create.
SPECIFICATION Spec
CONSTANTS
    Operations = {"create"}
    Handlers <- DefaultHandlers
    Listener = FALSE
    Errors = {2, 5, 21, 34, 38}
    MaxRequests = 2
INVARIANT CreateFallsBack
CHECK_DEADLOCK FALSE
