\* The property that the API documents.
SPECIFICATION Spec
CONSTANTS
    MaxOpens = 1
    HandleLimit = 4
    Values <- Fitting
    Accepts <- ReadersFirst
    Property = "fh"
    Interrupts = FALSE
INVARIANTS HandleComesBack
CHECK_DEADLOCK FALSE
