\* Seconds of three ticks: a fraction can be more than a tick.
SPECIFICATION Spec
CONSTANTS
    Second = 3
    Timeout = 1
    Start = 5
    End = 6
INVARIANTS TimesAgree
