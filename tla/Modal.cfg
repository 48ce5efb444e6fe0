\* Three threads whose window procedures call each other and show pages, with
\* one modal dialog at a time; no thread sleeps or opens a dialog in a callback.
SPECIFICATION Spec
CONSTANTS
    MaxThreads = 3
    MaxCalls = 3
    StackSize = 4
    Calls = {"SendMessage", "CreateDialog", "DialogBox", "CreateThread", "Sleep",
             "ExitThread", "return"}
    Inside = {"SendMessage", "EndDialog", "Show", "CreateThread", "return"}
INVARIANTS TypeOK OwnStack FramesMatch 
PROPERTY CallsNest
\* The program may end, and a dialog wait for a tap.
CHECK_DEADLOCK FALSE
