SPECIFICATION ReuseSpec
CONSTANTS
    MaxChunks <- MCMaxChunks
    StashLimit <- MCStashLimit
    Copies = 1
    SendMayRaise = FALSE
    MaxRestarts = 1
INVARIANT
    NoForeignData
CHECK_DEADLOCK FALSE
