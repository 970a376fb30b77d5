SPECIFICATION Spec
CONSTANTS
    MaxData <- MCMaxData
    MaxChanges <- MCMaxChanges
    MaxLosses <- MCMaxLosses
INVARIANT
    NoOrphan
CHECK_DEADLOCK FALSE
