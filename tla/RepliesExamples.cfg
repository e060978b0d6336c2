\* The two examples over the default file system; an exception ends the process.
SPECIFICATION Spec
CONSTANTS
    Operations = {"lookup", "getattr", "opendir", "readdir", "open", "read", "release",
                  "write", "forget"}
    Handlers <- ExamplesHandlers
    Listener = FALSE
    Errors = {2, 5, 21, 34, 38}
    MaxRequests = 4
INVARIANTS TypeOK
PROPERTIES ImplementsAnswerService EveryRequestAnswered
CHECK_DEADLOCK FALSE
