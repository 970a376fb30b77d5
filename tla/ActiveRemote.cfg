SPECIFICATION HistoryApiSpec
CONSTANTS
    t1 = t1
    t2 = t2
    k1 = k1
    k2 = k2
    Tunnel <- MCTunnel
    ConnectionId <- MCConnectionId
    Cooldown <- MCCooldown
    LateSignals = FALSE
INVARIANTS
    TypeOK
    TrackedOnlyForActive
    TrackedTunnels
    ActiveIsOnline
    NoStaleAnnouncement
PROPERTIES
    KillOnlyDemoted
    ImplementsActiveClient
    ReportedAreKilled
    ChangesEmitted
