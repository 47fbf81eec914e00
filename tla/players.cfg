SPECIFICATION PlayersSpec
CONSTANTS
    HalfWindow = 8
    Clients = {c1,c2}
    Bodies = {voxov}
    SupportedBodies = {voxov}
    NoBody = NoBody
    HomeBody = voxov
    MaxConns = 2
    MaxEpochs = 1
    MaxTick = 0
    MaxSnapshots = 0
    MaxBroadcasts = 2
    MaxFlight = 2
    InOrder = {1}
    MaxHeld = 2
    Fingers = {1, 2, 3}
    Screens <- TabletScreens
    Spots <- TouchedSpots
    MaxPointers = 2
    MinSteps = 1
    MaxSteps = 2
CHECK_DEADLOCK FALSE
INVARIANTS
    SessionInfoIsCurrent
    CursorPolicyFollowsOverlay
    AppIsInTouch
PROPERTIES
    RemovedPlayersAreForgotten
    PlayerStatesNeverGoBack
    JumpsAreAnsweredAndHeard
