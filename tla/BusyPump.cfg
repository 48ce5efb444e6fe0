\* A lone thread pumps its messages.
SPECIFICATION Spec
CONSTANTS
    MaxThreads = 2
    MaxEvents = 0
    IocpCapacity = 0
    CallModulus = 2
    Calls = {"GetMessage"}
    Timeouts = {"infinite"}
PROPERTY LonePumpIdles
CHECK_DEADLOCK FALSE
