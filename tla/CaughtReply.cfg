\* A handler that catches the exception of its reply, and replies an error.
SPECIFICATION Spec
CONSTANTS
    Operations = {"getattr"}
    Handlers <- CatchingHandlers
    Listener = TRUE
    Errors = {2, 5, 21, 34, 38}
    MaxRequests = 1
INVARIANT AnsweredOnce
CHECK_DEADLOCK FALSE
