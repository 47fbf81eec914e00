SPECIFICATION ControlsSpec
CONSTANTS
    MaxHeld = 1
INVARIANTS
    OverlayHasCursor
