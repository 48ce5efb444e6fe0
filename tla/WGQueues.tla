------------------------------ MODULE WGQueues ------------------------------
(***************************************************************************)
(* The two queues of Sources/Core/wg_engine.c: the ring of I/O completions *)
(* (iocp_post, iocp_get) and the ring of thread messages (tmsg_push,       *)
(* tmsg_pop).  Both are arrays with a head and a tail index; one slot      *)
(* stays empty.  The first is read at its head.  The second is shared by   *)
(* all threads: a pop searches for the first message of the caller and     *)
(* moves the messages behind it down by one slot.                          *)
(*                                                                         *)
(* Both are shown to implement WGMailbox.  Handlers run to completion, so  *)
(* one call is one step.                                                   *)
(***************************************************************************)
EXTENDS Integers, Sequences

CONSTANTS
    CompSlots,      \* WG_MAX_COMPLETIONS, 64 in the code
    MsgSlots,       \* WG_MAX_THREAD_MSGS, 64 in the code
    Completions,    \* what a completion says: bytes, key and OVERLAPPED
    Threads,        \* thread ids
    Messages,       \* what a thread message says
    Zeroed          \* a slot of a static array that was never written

ASSUME QueuesAssumption ==
    /\ CompSlots \in Nat \ {0}
    /\ MsgSlots \in Nat \ {0}

VARIABLES
    s_completions, s_comp_head, s_comp_tail,
    s_thread_msgs, s_tmsg_head, s_tmsg_tail,
    completion,     \* what the last port call handed over
    message,        \* what the last message call handed over
    program         \* history: programs loaded, modulo 2

portVars   == <<s_completions, s_comp_head, s_comp_tail, completion>>
threadVars == <<s_thread_msgs, s_tmsg_head, s_tmsg_tail, message>>
queueVars  == <<portVars, threadVars, program>>

ThreadMessage == [tid : Threads, says : Messages]

\* The slot k places after i in a ring of n slots, and the number of entries
\* from head to tail.
Slot(n, i, k)      == (i + k) % n
Used(n, head, tail) == (tail - head) % n

-----------------------------------------------------------------------------
(* Completions.                                                            *)

\* Mutant of iocp_post: a full ring is not noticed.
iocp_post_unchecked(c) ==
    /\ s_completions' = [s_completions EXCEPT ![s_comp_tail] = c]
    /\ s_comp_tail' = Slot(CompSlots, s_comp_tail, 1)

\* A completion that does not fit is dropped.
iocp_post(c) ==
    LET next == Slot(CompSlots, s_comp_tail, 1)
    IN  IF next = s_comp_head
        THEN UNCHANGED <<s_completions, s_comp_tail>>
        ELSE /\ s_completions' = [s_completions EXCEPT ![s_comp_tail] = c]
             /\ s_comp_tail' = next

PostCompletion(c) ==
    /\ iocp_post(c)
    /\ completion' = <<>>
    /\ UNCHANGED s_comp_head

\* Mutant of iocp_get: the head index is not wrapped.
iocp_get_unwrapped ==
    IF s_comp_head = s_comp_tail
    THEN completion' = <<>> /\ UNCHANGED s_comp_head
    ELSE /\ completion' = <<s_completions[s_comp_head]>>
         /\ s_comp_head' = s_comp_head + 1

iocp_get ==
    IF s_comp_head = s_comp_tail
    THEN completion' = <<>> /\ UNCHANGED s_comp_head
    ELSE /\ completion' = <<s_completions[s_comp_head]>>
         /\ s_comp_head' = Slot(CompSlots, s_comp_head, 1)

GetCompletion == iocp_get /\ UNCHANGED <<s_completions, s_comp_tail>>

-----------------------------------------------------------------------------
(* Thread messages.                                                        *)

tmsg_push(t, m) ==
    LET next == Slot(MsgSlots, s_tmsg_tail, 1)
    IN  IF next = s_tmsg_head
        THEN UNCHANGED <<s_thread_msgs, s_tmsg_tail>>
        ELSE /\ s_thread_msgs' = [s_thread_msgs EXCEPT
                                    ![s_tmsg_tail] = [tid |-> t, says |-> m]]
             /\ s_tmsg_tail' = next

PostThreadMessage(t, m) ==
    /\ tmsg_push(t, m)
    /\ message' = <<>>
    /\ UNCHANGED s_tmsg_head

Pending == Used(MsgSlots, s_tmsg_head, s_tmsg_tail)

\* The message k places behind the head is the first one for t.
FirstFor(t, k) ==
    /\ s_thread_msgs[Slot(MsgSlots, s_tmsg_head, k)].tid = t
    /\ \A j \in 0 .. k - 1 : s_thread_msgs[Slot(MsgSlots, s_tmsg_head, j)].tid # t

\* Mutant of Compact: the loop starts one slot late, and the message taken
\* stays while the one behind it is overwritten.
CompactLate(k) ==
    s_thread_msgs' = [i \in 0 .. MsgSlots - 1 |->
        IF Used(MsgSlots, s_tmsg_head, i) \in k + 1 .. Pending - 2
        THEN s_thread_msgs[Slot(MsgSlots, i, 1)] ELSE s_thread_msgs[i]]

\* The messages behind the k-th move down one slot; the last keeps a copy.
Compact(k) ==
    s_thread_msgs' = [i \in 0 .. MsgSlots - 1 |->
        IF Used(MsgSlots, s_tmsg_head, i) \in k .. Pending - 2
        THEN s_thread_msgs[Slot(MsgSlots, i, 1)] ELSE s_thread_msgs[i]]

tmsg_pop(t) ==
    \/ \E k \in 0 .. Pending - 1 :
         /\ FirstFor(t, k)
         /\ message' = <<s_thread_msgs[Slot(MsgSlots, s_tmsg_head, k)].says>>
         /\ Compact(k)
         /\ s_tmsg_tail' = Slot(MsgSlots, s_tmsg_tail, -1)
    \/ /\ \A k \in 0 .. Pending - 1 : s_thread_msgs[Slot(MsgSlots, s_tmsg_head, k)].tid # t
       /\ message' = <<>>
       /\ UNCHANGED <<s_thread_msgs, s_tmsg_tail>>

\* GetMessage and PeekMessage.
PumpMessage(t) == tmsg_pop(t) /\ UNCHANGED s_tmsg_head

-----------------------------------------------------------------------------
Init ==
    /\ s_completions = [i \in 0 .. CompSlots - 1 |-> Zeroed]
    /\ s_comp_head = 0 /\ s_comp_tail = 0 /\ completion = <<>>
    /\ s_thread_msgs = [i \in 0 .. MsgSlots - 1 |-> Zeroed]
    /\ s_tmsg_head = 0 /\ s_tmsg_tail = 0 /\ message = <<>>
    /\ program = 0

\* wg_engine_load_pe empties both rings; the slots keep what they held.
LoadPE ==
    /\ s_comp_head' = 0 /\ s_comp_tail' = 0 /\ completion' = <<>>
    /\ s_tmsg_head' = 0 /\ s_tmsg_tail' = 0 /\ message' = <<>>
    /\ program' = 1 - program
    /\ UNCHANGED <<s_completions, s_thread_msgs>>

PortStep    == (\E c \in Completions : PostCompletion(c)) \/ GetCompletion
MessageStep == \E t \in Threads :
                 (\E m \in Messages : PostThreadMessage(t, m)) \/ PumpMessage(t)

Next ==
    \/ PortStep /\ UNCHANGED <<threadVars, program>>
    \/ MessageStep /\ UNCHANGED <<portVars, program>>
    \/ LoadPE

Spec == Init /\ [][Next]_queueVars

-----------------------------------------------------------------------------
(* Properties.                                                             *)

TypeOK ==
    /\ s_completions \in [0 .. CompSlots - 1 -> Completions \cup {Zeroed}]
    /\ s_comp_head \in 0 .. CompSlots - 1
    /\ s_comp_tail \in 0 .. CompSlots - 1
    /\ s_thread_msgs \in [0 .. MsgSlots - 1 -> ThreadMessage \cup {Zeroed}]
    /\ s_tmsg_head \in 0 .. MsgSlots - 1
    /\ s_tmsg_tail \in 0 .. MsgSlots - 1

\* The completions in the ring, oldest first, as letters to the one port.
PortBox ==
    [k \in 1 .. Used(CompSlots, s_comp_head, s_comp_tail) |->
        [to   |-> "port",
         says |-> s_completions[Slot(CompSlots, s_comp_head, k - 1)]]]

Port == INSTANCE WGMailbox
        WITH Readers <- {"port"}, Letters <- Completions, Capacity <- CompSlots - 1,
             box <- PortBox, taken <- completion

\* The messages in the ring, oldest first, as letters to the threads.
InBox ==
    [k \in 1 .. Pending |->
        [to   |-> s_thread_msgs[Slot(MsgSlots, s_tmsg_head, k - 1)].tid,
         says |-> s_thread_msgs[Slot(MsgSlots, s_tmsg_head, k - 1)].says]]

Inboxes == INSTANCE WGMailbox
           WITH Readers <- Threads, Letters <- Messages, Capacity <- MsgSlots - 1,
                box <- InBox, taken <- message

\* The completion ring is a bounded mailbox: GetQueuedCompletionStatus hands over
\* the completions that fitted, each once and in the order they were posted.
PortIsMailbox == Port!Spec

\* The thread-message ring is a bounded mailbox: each thread gets its own messages,
\* each once and in the order they were posted, and taking one loses no message of
\* another thread, wherever in the ring it lies.
MessagesAreMailbox == Inboxes!Spec

=============================================================================
