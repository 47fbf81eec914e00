SPECIFICATION FairSpec
CONSTANTS
    HalfWindow = 8
    Clients = {c1}
    Bodies = {voxov}
    SupportedBodies = {voxov}
    NoBody = NoBody
    HomeBody = voxov
    MaxConns = 2
    MaxEpochs = 2
    MaxTick = 0
    MaxSnapshots = 2
    MaxBroadcasts = 1
    MaxFlight = 2
    InOrder = {}
CHECK_DEADLOCK FALSE
INVARIANTS
    SessionStateIsCurrent
PROPERTIES
    ConnectedIsGreeted
