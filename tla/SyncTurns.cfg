\* Liveness of three threads that block on an event, sleep and leave.
SPECIFICATION FairSpec
CONSTANTS
    MaxThreads = 3
    MaxEvents = 1
    IocpCapacity = 0
    CallModulus = 1
    Calls = {"CreateThread", "CreateEvent", "SetEvent", "WaitSingle", "Sleep",
             "ExitThread"}
    Timeouts = {"infinite"}
PROPERTIES NoStarvation SetEventReleases
CHECK_DEADLOCK FALSE
