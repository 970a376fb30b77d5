SPECIFICATION FailoverSpec
CONSTANTS
    t1 = t1
    Tunnel <- MCTunnel
    ConnectionId <- MCConnectionId
    Cooldown = 0
    LateSignals = TRUE
    MaxConnections <- MCMaxConnections
    MaxLosses <- MCMaxLosses
INVARIANTS
    FailoverTypeOK
    TrafficIsOnActive
    FailoversHaveCause
CHECK_DEADLOCK FALSE
PROPERTIES
    DataMakesActive
    ActiveListens
