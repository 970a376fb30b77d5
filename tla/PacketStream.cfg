SPECIFICATION FairSpec
CONSTANTS
    MaxChunks <- MCMaxChunks
    StashLimit <- MCStashLimit
    Copies = 1
    SendMayRaise = TRUE
INVARIANTS
    TypeOK
    InOrder
    NoHole
    StashBeyondGap
PROPERTIES
    GapClosesConnection
    DeliveredOrGone
CHECK_DEADLOCK FALSE
