\* Reply methods called with arguments of every kind; exceptions are survived.
SPECIFICATION Spec
CONSTANTS
    Operations = {"getattr", "readlink", "lookup", "create", "write", "opendir", "read",
                  "readdir", "statfs", "forget"}
    Handlers <- AnyHandlers
    Listener = TRUE
    Errors = {2, 5, 21, 34, 38}
    MaxRequests = 2
INVARIANTS AnsweredOnce
PROPERTIES EveryRequestAnswered
CHECK_DEADLOCK FALSE
