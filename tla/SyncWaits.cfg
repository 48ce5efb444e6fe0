\* Three threads that create, wait for and signal one event and the completion
\* port; nobody exits.
SPECIFICATION Spec
CONSTANTS
    MaxThreads = 3
    MaxEvents = 1
    IocpCapacity = 1
    CallModulus = 2
    Calls = {"CreateThread", "CreateSuspended", "ResumeThread", "CreateEvent",
             "SetEvent", "ResetEvent", "WaitSingle", "GQCS", "PostQCS",
             "Sleep", "GetMessage"}
    Timeouts = {"finite", "infinite"}
VIEW LiveView
INVARIANTS TypeOK CurrentRuns ContextsFaithful NoLostWakeup OneRunning
PROPERTY RoundRobin
