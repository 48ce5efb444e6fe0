\* Three threads that wait for events and for each other, return, end the
\* process or fault, and show nsDialogs pages.
SPECIFICATION Spec
CONSTANTS
    MaxThreads = 3
    MaxEvents = 1
    IocpCapacity = 0
    CallModulus = 2
    Calls = {"CreateThread", "CreateEvent", "SetEvent", "WaitMultiple",
             "WaitSingle", "Show", "return", "ExitProcess", "crash"}
    Timeouts = {"infinite"}
VIEW LiveView
INVARIANTS ContextsFaithful NoLostWakeup NoLostJoin
PROPERTY ExitedForever
\* A program that has ended, and a page nobody answers, stop the engine.
CHECK_DEADLOCK FALSE
