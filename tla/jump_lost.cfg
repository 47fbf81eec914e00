SPECIFICATION MotionSpec
CONSTANTS
    MinSteps = 0
    MaxSteps = 2
INVARIANTS
    EveryPressJumps
