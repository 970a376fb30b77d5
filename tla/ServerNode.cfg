SPECIFICATION FairSpec
CONSTANTS
    N <- MCN
    MaxOnline <- MCMaxOnline
    MaxSignals <- MCMaxSignals
INVARIANTS
    TypeOK
    ConnectionsNeedPort
    NoClientMeansClosed
    OnlineIsServed
    OneCoordination
PROPERTIES
    PortsReopen
    CoordinationEnds
CHECK_DEADLOCK FALSE
