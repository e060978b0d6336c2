\* Seconds of two ticks, so that ticks and seconds differ.
SPECIFICATION Spec
CONSTANTS
    Second = 2
    Timeout = 1
    Start = 4
    End = 12
INVARIANTS TypeOK ShownIsRecent
