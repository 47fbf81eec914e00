SPECIFICATION MeshSpec
CONSTANTS
    ChunkSize = 2
    MaxDigs = 1
INVARIANTS
    OnlyBuriedAreSkipped
CHECK_DEADLOCK FALSE
