\* Two threads, one of which sleeps in a window procedure.
SPECIFICATION Spec
CONSTANTS
    MaxThreads = 2
    MaxCalls = 2
    StackSize = 2
    Calls = {"CreateThread", "SendMessage", "Sleep"}
    Inside = {"Sleep", "return"}
INVARIANT OwnStack
