\* The program joins a worker that calls ExitThread.
SPECIFICATION Spec
CONSTANTS
    MaxThreads = 2
    MaxEvents = 0
    IocpCapacity = 0
    CallModulus = 2
    Calls = {"CreateThread", "ExitThread", "WaitSingle"}
    Timeouts = {"infinite"}
INVARIANT NoLostJoin
CHECK_DEADLOCK FALSE
