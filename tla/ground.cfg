CONSTANTS
    Voxov = Voxov
    Aster = Aster
    Bodies = {Voxov, Aster}
    Home = Voxov
    NumColumns = 6
    AirOnly = {1}
    StreamReach = 1
    ResidentSlack = 1
    GenerationBudget = 2
    MeshBudget = 2
    Grids = {8}
    Roots = 1
    Fan = 2
    MaxLod = 2
    Cameras <- CameraViews
    Budget = 1
    MaxVisible = 7
    EvictAfter = 3
    ChunkSize = 2
    Chunks = 7
    BlocksPerChunk = 2
    Radius = 2
    MaxDigs = 1
    Diameters <- ThresholdDiameters
    MaxMoves = 2
    MaxEdits = 1
    Absent = Absent
    NoMesh = NoMesh
SPECIFICATION GroundSpec
INVARIANTS
    SceneIsCurrent
    FacesMatchNeighbours
    CubeIsWhole
    SurfaceIsClosed
    GlobesSettle
PROPERTIES
    GroundIsDrawn
    NoHoleOpens
