\* A file of the mirrored folder goes between lookup and getattr.
SPECIFICATION Spec
CONSTANTS
    Operations = {"lookup", "getattr"}
    Handlers <- LoopbackHandlers
    Listener = TRUE
    Errors = {2, 5, 21, 34, 38}
    MaxRequests = 2
INVARIANT HandlersReply
CHECK_DEADLOCK FALSE
