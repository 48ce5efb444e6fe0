\* A completion ring of three slots, a message ring of four shared by two threads.
SPECIFICATION Spec
CONSTANTS
    CompSlots = 3
    MsgSlots = 4
    Completions = {c1, c2}
    Threads = {t1, t2}
    Messages = {m1, m2}
    Zeroed = Zeroed
INVARIANT TypeOK
PROPERTIES PortIsMailbox MessagesAreMailbox
