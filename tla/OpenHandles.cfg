\* Handles below the limit, options and flags; files close and stay closed.
SPECIFICATION Spec
CONSTANTS
    MaxOpens = 2
    HandleLimit = 4
    Values <- Fitting
    Accepts <- ReadersFirst
    Property = "file_handle"
    Interrupts = TRUE
INVARIANTS TypeOK HandleComesBack OptionsReachTheKernel ReadersNeverWrite
CHECK_DEADLOCK FALSE
