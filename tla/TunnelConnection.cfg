SPECIFICATION FairSpec
CONSTANTS
    MaxData <- MCMaxData
    MaxChanges <- MCMaxChanges
    MaxLosses <- MCMaxLosses
INVARIANTS
    TypeOK
    RepliesGoHome
    OnlyOvertakenIsMissing
    DataAccounted
    EstablishedEnds
CHECK_DEADLOCK FALSE
PROPERTY
    BackendEndsListen
