CONSTANTS
    Voxov = Voxov
    Aster = Aster
    Bodies = {Voxov, Aster}
    Star = Star
    Chunks = {c1}
    Hotbar = {stone}
    Air = Air
    Ground = Ground
    Absent = Absent
    NoEdit = NoEdit
    NoSave = NoSave
    Damaged = Damaged
    SaveDebounce = 2
    MaxBlockEdits = 1
SPECIFICATION Spec
INVARIANT EditsSurviveRoundTrips
