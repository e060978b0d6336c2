\* A handle wider than 32 bits, such as a pointer.
SPECIFICATION Spec
CONSTANTS
    MaxOpens = 1
    HandleLimit = 4
    Values <- Pointers
    Accepts <- ReadersFirst
    Property = "file_handle"
    Interrupts = FALSE
INVARIANTS HandleComesBack
CHECK_DEADLOCK FALSE
