\* An nsDialogs page is up while a worker returns.
SPECIFICATION Spec
CONSTANTS
    MaxThreads = 2
    MaxEvents = 0
    IocpCapacity = 0
    CallModulus = 2
    Calls = {"CreateThread", "Show", "return"}
    Timeouts = {"infinite"}
INVARIANT PageHoldsProgram
CHECK_DEADLOCK FALSE
