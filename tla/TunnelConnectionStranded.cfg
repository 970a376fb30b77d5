SPECIFICATION Spec
CONSTANTS
    MaxData <- MCMaxData
    MaxChanges <- MCMaxChanges
    MaxLosses <- MCMaxLosses
INVARIANT
    NotStranded
CHECK_DEADLOCK FALSE
