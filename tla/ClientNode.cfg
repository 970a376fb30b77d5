SPECIFICATION FairSpec
CONSTANTS
    N <- MCN
    MaxOnline <- MCMaxOnline
    MaxSignals <- MCMaxSignals
INVARIANTS
    TypeOK
    ConnectionsNeedPort
    OfflineMeansClosed
    OnlineIsServed
PROPERTY
    PortsReopen
CHECK_DEADLOCK FALSE
