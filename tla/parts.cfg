SPECIFICATION PartsSpec
CONSTANTS
    HalfWindow = 4
    MaxSent = 18
    Games = {g1, g2}
    NoGame = NoGame
    Torn = Torn
    Missing = Missing
    Voxov = Voxov
    Aster = Aster
    Bodies = {Voxov, Aster}
    Star = Star
    NoTarget = NoTarget
    TransferCooldown = 1
    EventTypes = {e1, e2}
    Capacity = 2
    MaxSubscriptions = 2
    MaxEvents = 3
    MaxNesting = 3
    TickTime = 50
    Longest = 750
    MaxCatchup = 8
    Frames = {1, 50, 350, 400, 401, 800}
    MaxPayload = 2048
    Stages <- FirstTwo
    SupportedBodies <- FirstBodies
    Characters <- FirstTwo
    Sectors <- FirstTwo
    Materials <- FirstTwo
    MaxBlockEdits = 2
    EditLists <- SomeEditLists
    GridW = 4
    GridH = 4
    SnakeStart <- SnakeHead
    SnakeWins = 5
    BoardW = 5
    BoardH = 5
    StartX = 2
    GoodScore = 100
    TopScore = 300
INVARIANTS
    VerdictIsTrueOrder
    PilotIsAboard
    CourseIsSound
    MinigamesAreSound
    MessagesSurvive
    SavesAreReadable
    ClocksStayTogether
PROPERTIES
    BusKeepsItsWord
    SavesAreAtomic
