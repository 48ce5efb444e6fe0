\* A worker returns while the two others only sleep.
SPECIFICATION Spec
CONSTANTS
    MaxThreads = 3
    MaxEvents = 0
    IocpCapacity = 0
    CallModulus = 2
    Calls = {"CreateThread", "return", "Sleep"}
    Timeouts = {"infinite"}
INVARIANT OneRunning
CHECK_DEADLOCK FALSE
