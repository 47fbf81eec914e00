SPECIFICATION ClientSpec
CONSTANTS
    Voxov = Voxov
    Aster = Aster
    Bodies = {Voxov, Aster}
    Star = Star
    Chunks = {c1}
    Hotbar = {stone}
    Air = Air
    Ground = Ground
    Absent = Absent
    NoEdit = NoEdit
    NoSave = NoSave
    Damaged = Damaged
    SaveDebounce = 2
    MaxBlockEdits = 1
    Hosts = {h1, h2}
    HostExpiry = 3
    Own = own
    Given = given
    Nobody = nobody
    ConnectTimeout = 3
    MaxChoices = 4
INVARIANTS
    WorldIsSound
    OneRoleAtATime
PROPERTIES
    SavedProgressIsKept
    ReloadShowsEveryEdit
    EditsReachTheDisk
    ConnectingEnds
    NewHostsAreJoined
