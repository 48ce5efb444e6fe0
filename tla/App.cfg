\* The threads of the app: three loads, by the picker or a chain load, and three loops.
SPECIFICATION AppSpec
CONSTANTS
    MaxLoads = 3
    MaxLoops = 3
INVARIANTS
    OneLoop
    ReclaimedStopped
PROPERTY
    RunningIsTicked
CHECK_DEADLOCK FALSE
