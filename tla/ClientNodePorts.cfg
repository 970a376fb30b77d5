SPECIFICATION Spec
CONSTANTS
    N <- MCN
    MaxOnline <- MCMaxOnline
    MaxSignals <- MCMaxSignals
INVARIANT
    ClosedDuringStandby
CHECK_DEADLOCK FALSE
