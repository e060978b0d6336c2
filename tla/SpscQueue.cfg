\* Four slots, counters that wrap every eight values, nine values sent: the
\* ring is reused twice and both counters wrap.
SPECIFICATION Spec
CONSTANTS
    a = a
    b = b
    Torn = Torn
    Values <- MCValues
    Size = 4
    Wrap = 8
    MaxSent = 9
SYMMETRY Symmetry
INVARIANTS TypeOK NoDataRace DeliveredInOrder RingInvariant
PROPERTIES FailsOnlyAtTheLimit ImplementsFifo
