SPECIFICATION Spec
CONSTANTS
    HalfWindow = 8
    Clients = {c1}
    Bodies = {voxov,aster,other}
    SupportedBodies = {voxov,aster}
    NoBody = NoBody
    HomeBody = voxov
    MaxConns = 1
    MaxEpochs = 1
    MaxTick = 2
    MaxSnapshots = 0
    MaxBroadcasts = 0
    MaxFlight = 2
    InOrder = {}
CHECK_DEADLOCK FALSE
INVARIANTS
    JumpOncePerPress
PROPERTIES
    InputsNeverGoBack
