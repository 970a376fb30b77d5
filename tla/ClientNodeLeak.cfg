SPECIFICATION Spec
CONSTANTS
    N <- MCN
    MaxOnline <- MCMaxOnline
    MaxSignals <- MCMaxSignals
INVARIANT
    ShutdownUnregisters
CHECK_DEADLOCK FALSE
