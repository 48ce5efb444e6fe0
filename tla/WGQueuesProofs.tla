--------------------------- MODULE WGQueuesProofs ---------------------------
(***************************************************************************)
(* Proofs about WGQueues, for rings of every size: the indices and slots   *)
(* keep their types, and both rings implement a bounded mailbox.           *)
(*                                                                         *)
(* All arithmetic modulo the size of a ring is behind the first lemmas;    *)
(* from then on a slot is found by adding and at most one wrap.            *)
(***************************************************************************)
EXTENDS WGQueues, SequenceTheorems, TLAPS

-----------------------------------------------------------------------------
(* Indices.                                                                *)

\* The slot k places after i, or one before it, in one turn of the ring: the
\* wrapping index arithmetic of iocp_post and tmsg_pop.
LEMMA SlotIs ==
    ASSUME NEW n \in Nat \ {0}, NEW i \in 0 .. n - 1, NEW k \in -1 .. n
    PROVE  /\ Slot(n, i, k) \in 0 .. n - 1
           /\ Slot(n, i, k) = IF i + k < 0 THEN i + k + n
                              ELSE IF i + k < n THEN i + k ELSE i + k - n
<1> DEFINE x == i + k
<1>1. x \in Int /\ -n <= x /\ x < 2 * n  OBVIOUS
<1>2. x % n = IF x < 0 THEN x + n ELSE IF x < n THEN x ELSE x - n
  <2> HIDE DEF x
  <2>1. CASE x < 0                BY <2>1, <1>1, SMT
  <2>2. CASE x >= 0 /\ x < n      BY <2>2, <1>1, SMT
  <2>3. CASE x >= n               BY <2>3, <1>1, SMT
  <2> QED BY <2>1, <2>2, <2>3, <1>1
<1> QED BY <1>2 DEF Slot

\* The number of entries between two indices of the ring.
LEMMA UsedIs ==
    ASSUME NEW n \in Nat \ {0}, NEW h \in 0 .. n - 1, NEW t \in 0 .. n - 1
    PROVE  /\ Used(n, h, t) \in 0 .. n - 1
           /\ Used(n, h, t) = IF t < h THEN t - h + n ELSE t - h
<1> DEFINE x == t - h
<1>1. x \in Int /\ -n < x /\ x < n  OBVIOUS
<1>2. x % n = IF x < 0 THEN x + n ELSE x
  <2> HIDE DEF x
  <2>1. CASE x < 0                BY <2>1, <1>1, SMT
  <2>2. CASE x >= 0               BY <2>2, <1>1, SMT
  <2> QED BY <2>1, <2>2, <1>1
<1> QED BY <1>2 DEF Used

\* Walking from the head visits each slot once: the walk of tmsg_pop ends where it
\* should, and the slot behind the k-th is the next one.
LEMMA Walk ==
    ASSUME NEW n \in Nat \ {0}, NEW h \in 0 .. n - 1, NEW k \in 0 .. n - 1
    PROVE  /\ Used(n, h, Slot(n, h, k)) = k
           /\ Slot(n, Slot(n, h, k), 1) = Slot(n, h, k + 1)
           /\ Slot(n, Slot(n, h, 1), k) = Slot(n, h, k + 1)
<1>1. \A i \in 0 .. n - 1 : \A j \in 0 .. n :
        /\ Slot(n, i, j) \in 0 .. n - 1
        /\ Slot(n, i, j) = IF i + j < n THEN i + j ELSE i + j - n
  <2> SUFFICES ASSUME NEW i \in 0 .. n - 1, NEW j \in 0 .. n
               PROVE  /\ Slot(n, i, j) \in 0 .. n - 1
                      /\ Slot(n, i, j) = IF i + j < n THEN i + j ELSE i + j - n
    OBVIOUS
  <2>1. j \in -1 .. n  OBVIOUS
  <2> QED BY <2>1, SlotIs
<1>2. k \in 0 .. n /\ k + 1 \in 0 .. n /\ 1 \in 0 .. n  OBVIOUS
<1>3. /\ Slot(n, h, k) \in 0 .. n - 1 /\ Slot(n, h, 1) \in 0 .. n - 1
      /\ Slot(n, h, k) = IF h + k < n THEN h + k ELSE h + k - n
      /\ Slot(n, h, 1) = IF h + 1 < n THEN h + 1 ELSE h + 1 - n
  BY <1>1, <1>2
<1>4. Slot(n, h, k + 1) = IF h + (k + 1) < n THEN h + (k + 1) ELSE h + (k + 1) - n
  BY <1>1, <1>2
<1>5. \A a \in 0 .. n - 1 :
        /\ Slot(n, a, 1) = IF a + 1 < n THEN a + 1 ELSE a + 1 - n
        /\ Slot(n, a, k) = IF a + k < n THEN a + k ELSE a + k - n
  BY <1>1, <1>2
<1>6. \A a \in 0 .. n - 1 : Used(n, h, a) = IF a < h THEN a - h + n ELSE a - h
  BY UsedIs
<1>7. Used(n, h, Slot(n, h, k)) = k
  BY <1>3, <1>6
<1>8. Slot(n, Slot(n, h, k), 1) = Slot(n, h, k + 1)
  BY <1>3, <1>4, <1>5
<1>9. Slot(n, Slot(n, h, 1), k) = Slot(n, h, k + 1)
  BY <1>3, <1>4, <1>5
<1> QED BY <1>7, <1>8, <1>9

\* Moving the tail of the ring by one, forward if it is not full, back if it is not
\* empty, and the head forward if it is not empty, changes the number of entries
\* by one; the ring is full when the slot behind the tail is the head.
LEMMA Ends ==
    ASSUME NEW n \in Nat \ {0}, NEW h \in 0 .. n - 1, NEW t \in 0 .. n - 1
    PROVE  /\ Slot(n, t, 1) = h <=> Used(n, h, t) = n - 1
           /\ Slot(n, t, 1) # h => Used(n, h, Slot(n, t, 1)) = Used(n, h, t) + 1
           /\ h = t <=> Used(n, h, t) = 0
           /\ h # t => /\ Used(n, h, Slot(n, t, -1)) = Used(n, h, t) - 1
                       /\ Used(n, Slot(n, h, 1), t) = Used(n, h, t) - 1
           /\ Slot(n, h, Used(n, h, t)) = t
<1>1. 1 \in -1 .. n /\ -1 \in -1 .. n  OBVIOUS
<1>2. /\ Slot(n, t, 1) \in 0 .. n - 1 /\ Slot(n, t, -1) \in 0 .. n - 1
      /\ Slot(n, h, 1) \in 0 .. n - 1
  BY <1>1, SlotIs
<1>3. Slot(n, t, 1) = IF t + 1 < n THEN t + 1 ELSE t + 1 - n  BY <1>1, SlotIs
<1>4. Slot(n, t, -1) = IF t - 1 < 0 THEN t - 1 + n ELSE t - 1
  BY <1>1, SlotIs, t + (-1) = t - 1
<1>5. Slot(n, h, 1) = IF h + 1 < n THEN h + 1 ELSE h + 1 - n  BY <1>1, SlotIs
<1>6. \A u, v \in 0 .. n - 1 : Used(n, u, v) = IF v < u THEN v - u + n ELSE v - u
  BY UsedIs
<1>7. Used(n, h, t) \in 0 .. n - 1  BY UsedIs
<1>8. Slot(n, h, Used(n, h, t)) =
        IF h + Used(n, h, t) < n THEN h + Used(n, h, t) ELSE h + Used(n, h, t) - n
  <2> DEFINE u == Used(n, h, t)
  <2> HIDE DEF u
  <2>1. u \in -1 .. n /\ u >= 0  BY <1>7 DEF u
  <2>2. Slot(n, h, u) = IF h + u < n THEN h + u ELSE h + u - n  BY <2>1, SlotIs
  <2> QED BY <2>2 DEF u
<1>9. /\ Used(n, h, t) = IF t < h THEN t - h + n ELSE t - h
      /\ Used(n, h, Slot(n, t, 1)) =
           IF Slot(n, t, 1) < h THEN Slot(n, t, 1) - h + n ELSE Slot(n, t, 1) - h
      /\ Used(n, h, Slot(n, t, -1)) =
           IF Slot(n, t, -1) < h THEN Slot(n, t, -1) - h + n ELSE Slot(n, t, -1) - h
      /\ Used(n, Slot(n, h, 1), t) =
           IF t < Slot(n, h, 1) THEN t - Slot(n, h, 1) + n ELSE t - Slot(n, h, 1)
  BY <1>2, <1>6
<1> QED BY <1>2, <1>3, <1>4, <1>5, <1>8, <1>9

\* The entries of a ring lie in slots of its array, none of them at the tail.
LEMMA Occupied ==
    ASSUME NEW n \in Nat \ {0}, NEW h \in 0 .. n - 1, NEW t \in 0 .. n - 1
    PROVE  \A k \in 1 .. Used(n, h, t) :
             Slot(n, h, k - 1) \in 0 .. n - 1 /\ Slot(n, h, k - 1) # t
<1>1. SUFFICES ASSUME NEW k \in 1 .. Used(n, h, t)
               PROVE  Slot(n, h, k - 1) \in 0 .. n - 1 /\ Slot(n, h, k - 1) # t
  OBVIOUS
<1>2. Used(n, h, t) \in 0 .. n - 1
  BY UsedIs
<1>3. k - 1 \in 0 .. n - 1 /\ k - 1 \in -1 .. n /\ k - 1 # Used(n, h, t)
  BY <1>2
<1>4. Used(n, h, Slot(n, h, k - 1)) = k - 1
  BY <1>3, Walk
<1>5. Slot(n, h, k - 1) \in 0 .. n - 1
  BY <1>3, SlotIs
<1> QED BY <1>3, <1>4, <1>5

-----------------------------------------------------------------------------
(* Types.                                                                  *)

\* Every index stays inside its ring and every slot holds what was posted, or was
\* never written.
THEOREM QueueTypes == Spec => []TypeOK
<1>1. Init => TypeOK
  BY QueuesAssumption DEF Init, TypeOK
<1>2. TypeOK /\ [Next]_queueVars => TypeOK'
  <2> SUFFICES ASSUME TypeOK, [Next]_queueVars PROVE TypeOK'
    OBVIOUS
  <2>1. \A n \in Nat \ {0} : \A i \in 0 .. n - 1 :
          Slot(n, i, 1) \in 0 .. n - 1 /\ Slot(n, i, -1) \in 0 .. n - 1
    <3>1. \A n \in Nat \ {0} : 1 \in -1 .. n /\ -1 \in -1 .. n  OBVIOUS
    <3> QED BY <3>1, SlotIs
  <2>2. CASE UNCHANGED queueVars
    BY <2>2 DEF TypeOK, queueVars, portVars, threadVars
  <2>3. ASSUME NEW c \in Completions, PostCompletion(c), UNCHANGED threadVars
        PROVE  TypeOK'
    BY <2>1, <2>3, QueuesAssumption DEF TypeOK, PostCompletion, iocp_post, threadVars
  <2>4. CASE GetCompletion /\ UNCHANGED threadVars
    BY <2>1, <2>4, QueuesAssumption DEF TypeOK, GetCompletion, iocp_get, threadVars
  <2>5. ASSUME NEW t \in Threads, NEW m \in Messages,
               PostThreadMessage(t, m), UNCHANGED portVars
        PROVE  TypeOK'
    <3> DEFINE letter == [tid |-> t, says |-> m]
    <3>1. letter \in ThreadMessage
      BY DEF ThreadMessage
    <3> HIDE DEF letter
    <3>2. CASE UNCHANGED <<s_thread_msgs, s_tmsg_tail>>
      BY <3>2, <2>5 DEF TypeOK, PostThreadMessage, portVars
    <3>3. CASE /\ s_thread_msgs' = [s_thread_msgs EXCEPT ![s_tmsg_tail] = letter]
               /\ s_tmsg_tail' = Slot(MsgSlots, s_tmsg_tail, 1)
      <4>1. s_tmsg_tail' \in 0 .. MsgSlots - 1
        BY <3>3, <2>1, QueuesAssumption DEF TypeOK
      <4>2. s_thread_msgs' \in [0 .. MsgSlots - 1 -> ThreadMessage \cup {Zeroed}]
        BY <3>3, <3>1 DEF TypeOK
      <4> QED BY <4>1, <4>2, <2>5 DEF TypeOK, PostThreadMessage, portVars
    <3> QED BY <3>2, <3>3, <2>5 DEF PostThreadMessage, tmsg_push, letter
  <2>6. ASSUME NEW t \in Threads, PumpMessage(t), UNCHANGED portVars
        PROVE  TypeOK'
    <3>1. CASE UNCHANGED <<s_thread_msgs, s_tmsg_tail>>
      BY <3>1, <2>6 DEF TypeOK, PumpMessage, portVars
    <3>2. ASSUME NEW k \in 0 .. Pending - 1, Compact(k),
                 s_tmsg_tail' = Slot(MsgSlots, s_tmsg_tail, -1)
          PROVE  TypeOK'
      <4>1. s_tmsg_tail' \in 0 .. MsgSlots - 1
        BY <3>2, <2>1, QueuesAssumption DEF TypeOK
      <4>2. s_thread_msgs' \in [0 .. MsgSlots - 1 -> ThreadMessage \cup {Zeroed}]
        BY <3>2, <2>1, QueuesAssumption DEF TypeOK, Compact
      <4> QED BY <4>1, <4>2, <2>6 DEF TypeOK, PumpMessage, portVars
    <3> QED BY <3>1, <3>2, <2>6 DEF PumpMessage, tmsg_pop
  <2>7. CASE LoadPE
    <3>1. 0 \in 0 .. CompSlots - 1 /\ 0 \in 0 .. MsgSlots - 1
      BY QueuesAssumption
    <3> QED BY <2>7, <3>1 DEF TypeOK, LoadPE
  <2> QED BY <2>2, <2>3, <2>4, <2>5, <2>6, <2>7 DEF Next, PortStep, MessageStep
<1> QED BY <1>1, <1>2, PTL DEF Spec

-----------------------------------------------------------------------------
(* The completion ring is a mailbox.                                       *)

\* A letter appended to a box that is given by its contents, as PortBox is.
LEMMA Appended ==
    ASSUME NEW n \in Nat, NEW box, NEW e, box = [k \in 1 .. n |-> box[k]]
    PROVE  /\ Len(box) = n
           /\ DOMAIN box = 1 .. n
           /\ Append(box, e) = [k \in 1 .. n + 1 |-> IF k \in 1 .. n THEN box[k] ELSE e]
<1> DEFINE contents == {box[k] : k \in 1 .. n}
<1>1. box \in [1 .. n -> contents]  OBVIOUS
<1>2. box \in Seq(contents) /\ Len(box) = n  BY <1>1
<1> QED BY <1>1, <1>2

\* The letters in the completion ring: how many, and which.
LEMMA PortBoxIs ==
    ASSUME TypeOK
    PROVE  LET n == Used(CompSlots, s_comp_head, s_comp_tail)
           IN  /\ n \in 0 .. CompSlots - 1
               /\ Len(PortBox) = n
               /\ DOMAIN PortBox = 1 .. n
               /\ \A k \in 1 .. n : PortBox[k] =
                    [to |-> "port", says |-> s_completions[Slot(CompSlots, s_comp_head, k - 1)]]
<1> DEFINE n == Used(CompSlots, s_comp_head, s_comp_tail)
<1>1. n \in 0 .. CompSlots - 1
  BY UsedIs, QueuesAssumption DEF TypeOK
<1>2. PortBox = [k \in 1 .. n |-> PortBox[k]]
  BY DEF PortBox
<1>3. Len(PortBox) = n /\ DOMAIN PortBox = 1 .. n
  BY <1>1, <1>2, Appended, QueuesAssumption
<1> QED BY <1>1, <1>3 DEF PortBox

\* PostQueuedCompletionStatus posts a letter, or drops it if the ring is full.
LEMMA PostPosts ==
    ASSUME TypeOK, NEW c \in Completions, PostCompletion(c)
    PROVE  Port!Post("port", c)
<1> DEFINE n == Used(CompSlots, s_comp_head, s_comp_tail)
           letter == [to |-> "port", says |-> c]
<1>1. /\ n \in 0 .. CompSlots - 1 /\ Len(PortBox) = n
      /\ PortBox = [k \in 1 .. n |-> PortBox[k]]
      /\ \A k \in 1 .. n : PortBox[k] =
           [to |-> "port", says |-> s_completions[Slot(CompSlots, s_comp_head, k - 1)]]
  BY PortBoxIs DEF PortBox
<1>2. CASE n = CompSlots - 1
  <2>1. Slot(CompSlots, s_comp_tail, 1) = s_comp_head
    BY <1>2, Ends, QueuesAssumption DEF TypeOK
  <2>2. UNCHANGED <<s_completions, s_comp_head, s_comp_tail>>
    BY <2>1 DEF PostCompletion, iocp_post
  <2>3. PortBox' = PortBox
    BY <2>2 DEF PortBox
  <2> QED BY <2>3, <1>1, <1>2 DEF Port!Post, PostCompletion
<1>3. CASE n # CompSlots - 1
  <2>1. Slot(CompSlots, s_comp_tail, 1) # s_comp_head
    BY <1>3, Ends, QueuesAssumption DEF TypeOK
  <2>2. /\ s_completions' = [s_completions EXCEPT ![s_comp_tail] = c]
        /\ s_comp_tail' = Slot(CompSlots, s_comp_tail, 1)
        /\ s_comp_head' = s_comp_head /\ completion' = <<>>
    BY <2>1 DEF PostCompletion, iocp_post
  <2>3. Used(CompSlots, s_comp_head', s_comp_tail') = n + 1
    BY <2>1, <2>2, Ends, QueuesAssumption DEF TypeOK
  <2>4. \A k \in 1 .. n : /\ Slot(CompSlots, s_comp_head, k - 1) \in 0 .. CompSlots - 1
                          /\ Slot(CompSlots, s_comp_head, k - 1) # s_comp_tail
    BY Occupied, QueuesAssumption DEF TypeOK
  <2>5. Slot(CompSlots, s_comp_head, n) = s_comp_tail
    BY Ends, QueuesAssumption DEF TypeOK
  <2>6. \A k \in 1 .. n + 1 :
          [to |-> "port", says |-> s_completions'[Slot(CompSlots, s_comp_head', k - 1)]]
            = IF k \in 1 .. n THEN PortBox[k] ELSE letter
    <3> SUFFICES ASSUME NEW k \in 1 .. n + 1
                 PROVE  [to |-> "port",
                         says |-> s_completions'[Slot(CompSlots, s_comp_head', k - 1)]]
                          = IF k \in 1 .. n THEN PortBox[k] ELSE letter
      OBVIOUS
    <3>1. CASE k \in 1 .. n
      BY <3>1, <2>2, <2>4, <1>1 DEF TypeOK
    <3>2. CASE k = n + 1
      <4>1. Slot(CompSlots, s_comp_head', k - 1) = s_comp_tail
        BY <3>2, <2>2, <2>5, <1>1
      <4>2. s_completions'[s_comp_tail] = c
        BY <2>2 DEF TypeOK
      <4> QED BY <4>1, <4>2, <3>2, <1>1
    <3> QED BY <3>1, <3>2, <1>1
  <2>7. PortBox' = [k \in 1 .. n + 1 |-> IF k \in 1 .. n THEN PortBox[k] ELSE letter]
    BY <2>3, <2>6 DEF PortBox
  <2>8. PortBox' = Append(PortBox, letter)
    BY <2>7, <1>1, Appended
  <2>9. Len(PortBox) < CompSlots - 1
    BY <1>1, <1>3, QueuesAssumption
  <2> QED BY <2>8, <2>9, <2>2 DEF Port!Post
<1> QED BY <1>2, <1>3
\* GetQueuedCompletionStatus takes the oldest letter, or learns that there is none.
LEMMA GetTakes ==
    ASSUME TypeOK, GetCompletion
    PROVE  Port!Take("port")
<1> DEFINE n == Used(CompSlots, s_comp_head, s_comp_tail)
<1>1. /\ n \in 0 .. CompSlots - 1 /\ Len(PortBox) = n /\ DOMAIN PortBox = 1 .. n
      /\ \A k \in 1 .. n : PortBox[k] =
           [to |-> "port", says |-> s_completions[Slot(CompSlots, s_comp_head, k - 1)]]
  BY PortBoxIs
<1>2. s_comp_head = s_comp_tail <=> n = 0
  BY Ends, QueuesAssumption DEF TypeOK
<1>3. CASE s_comp_head = s_comp_tail
  <2>1. completion' = <<>> /\ UNCHANGED <<s_completions, s_comp_head, s_comp_tail>>
    BY <1>3 DEF GetCompletion, iocp_get
  <2>2. PortBox' = PortBox
    BY <2>1 DEF PortBox
  <2>3. DOMAIN PortBox = {}
    BY <1>1, <1>2, <1>3
  <2> QED BY <2>1, <2>2, <2>3 DEF Port!Take
<1>4. CASE s_comp_head # s_comp_tail
  <2>1. /\ completion' = <<s_completions[s_comp_head]>>
        /\ s_comp_head' = Slot(CompSlots, s_comp_head, 1)
        /\ UNCHANGED <<s_completions, s_comp_tail>>
    BY <1>4 DEF GetCompletion, iocp_get
  <2>2. Used(CompSlots, s_comp_head', s_comp_tail') = n - 1
    BY <1>4, <2>1, Ends, QueuesAssumption DEF TypeOK
  <2>3. \A k \in 1 .. n - 1 :
          Slot(CompSlots, s_comp_head', k - 1) = Slot(CompSlots, s_comp_head, k)
    <3> SUFFICES ASSUME NEW k \in 1 .. n - 1
                 PROVE  Slot(CompSlots, s_comp_head', k - 1) = Slot(CompSlots, s_comp_head, k)
      OBVIOUS
    <3>1. k - 1 \in 0 .. CompSlots - 1 /\ (k - 1) + 1 = k
      BY <1>1, QueuesAssumption
    <3> QED BY <3>1, <2>1, Walk, QueuesAssumption DEF TypeOK
  <2>4. PortBox' = [k \in 1 .. n - 1 |-> PortBox[k + 1]]
    <3>1. \A k \in 1 .. n - 1 : PortBox[k + 1] =
            [to |-> "port", says |-> s_completions[Slot(CompSlots, s_comp_head, k)]]
      <4> SUFFICES ASSUME NEW k \in 1 .. n - 1
                   PROVE  PortBox[k + 1] =
                            [to |-> "port", says |-> s_completions[Slot(CompSlots, s_comp_head, k)]]
        OBVIOUS
      <4>1. k + 1 \in 1 .. n /\ (k + 1) - 1 = k
        BY <1>1
      <4> QED BY <4>1, <1>1
    <3> QED BY <3>1, <2>1, <2>2, <2>3 DEF PortBox
  <2>5. 1 \in 1 .. n /\ n \in Nat
    BY <1>1, <1>2, <1>4
  <2>6. Slot(CompSlots, s_comp_head, 0) = s_comp_head
    <3>1. 0 \in -1 .. CompSlots  BY QueuesAssumption
    <3> QED BY <3>1, SlotIs, QueuesAssumption DEF TypeOK
  <2>7. PortBox[1] = [to |-> "port", says |-> s_completions[s_comp_head]]
    BY <1>1, <2>5, <2>6
  <2>8. Port!Oldest("port", 1)
    BY <1>1, <2>5, <2>7 DEF Port!Oldest
  <2>9. PortBox' = Port!Without(1)
    BY <2>4, <1>1, <2>5 DEF Port!Without
  <2>10. completion' = <<PortBox[1].says>>
    BY <2>1, <2>7
  <2> QED BY <2>5, <2>8, <2>9, <2>10, <1>1 DEF Port!Take
<1> QED BY <1>3, <1>4

\* The completion ring is a bounded mailbox: whatever its size, GetQueuedCompletionStatus
\* hands over the completions that fitted, each once and in the order they were posted.
THEOREM PortImplemented == Spec => PortIsMailbox
<1>1. Init => Port!Init
  <2> SUFFICES ASSUME Init PROVE Port!Init
    OBVIOUS
  <2>1. TypeOK
    BY QueuesAssumption DEF Init, TypeOK
  <2>2. Used(CompSlots, s_comp_head, s_comp_tail) = 0
    BY Ends, QueuesAssumption DEF Init, TypeOK
  <2>3. PortBox = <<>>
    BY <2>2 DEF PortBox
  <2> QED BY <2>3 DEF Port!Init, Init
<1>2. TypeOK /\ [Next]_queueVars => [Port!Next]_<<PortBox, completion, program>>
  <2> SUFFICES ASSUME TypeOK, [Next]_queueVars
               PROVE  [Port!Next]_<<PortBox, completion, program>>
    OBVIOUS
  <2>1. CASE UNCHANGED <<portVars, program>>
    BY <2>1 DEF portVars, PortBox
  <2>2. ASSUME NEW c \in Completions, PostCompletion(c), UNCHANGED program
        PROVE  Port!Next
    BY <2>2, PostPosts DEF Port!Next, Port!Use
  <2>3. CASE GetCompletion /\ UNCHANGED program
    BY <2>3, GetTakes DEF Port!Next, Port!Use
  <2>4. CASE LoadPE
    <3>1. Used(CompSlots, s_comp_head', s_comp_tail') = 0
      BY <2>4, Ends, QueuesAssumption DEF LoadPE
    <3>2. PortBox' = <<>>
      BY <3>1 DEF PortBox
    <3> QED BY <3>2, <2>4 DEF LoadPE, Port!Next, Port!Clear
  <2> QED BY <2>1, <2>2, <2>3, <2>4 DEF Next, PortStep, queueVars
<1> QED BY <1>1, <1>2, QueueTypes, PTL DEF Spec, PortIsMailbox, Port!Spec

-----------------------------------------------------------------------------
(* The ring of thread messages is a mailbox.                               *)

\* The letters in the message ring: how many, and which.
LEMMA InBoxIs ==
    ASSUME TypeOK
    PROVE  /\ Pending \in 0 .. MsgSlots - 1
           /\ Len(InBox) = Pending
           /\ DOMAIN InBox = 1 .. Pending
           /\ InBox = [k \in 1 .. Pending |-> InBox[k]]
           /\ \A k \in 1 .. Pending : InBox[k] =
                [to   |-> s_thread_msgs[Slot(MsgSlots, s_tmsg_head, k - 1)].tid,
                 says |-> s_thread_msgs[Slot(MsgSlots, s_tmsg_head, k - 1)].says]
<1>1. Pending \in 0 .. MsgSlots - 1
  BY UsedIs, QueuesAssumption DEF TypeOK, Pending
<1>2. InBox = [k \in 1 .. Pending |-> InBox[k]]
  BY DEF InBox
<1>3. Len(InBox) = Pending /\ DOMAIN InBox = 1 .. Pending
  BY <1>1, <1>2, Appended, QueuesAssumption
<1> QED BY <1>1, <1>2, <1>3 DEF InBox

\* PostThreadMessage posts a letter, or drops it if the ring is full.
LEMMA MessagePosts ==
    ASSUME TypeOK, NEW t \in Threads, NEW m \in Messages, PostThreadMessage(t, m)
    PROVE  Inboxes!Post(t, m)
<1> DEFINE letter  == [to |-> t, says |-> m]
           message_ == [tid |-> t, says |-> m]
<1>1. /\ Pending \in 0 .. MsgSlots - 1 /\ Len(InBox) = Pending
      /\ InBox = [k \in 1 .. Pending |-> InBox[k]]
      /\ \A k \in 1 .. Pending : InBox[k] =
           [to   |-> s_thread_msgs[Slot(MsgSlots, s_tmsg_head, k - 1)].tid,
            says |-> s_thread_msgs[Slot(MsgSlots, s_tmsg_head, k - 1)].says]
  BY InBoxIs
<1>2. CASE Slot(MsgSlots, s_tmsg_tail, 1) = s_tmsg_head
  <2>1. Pending = MsgSlots - 1
    BY <1>2, Ends, QueuesAssumption DEF TypeOK, Pending
  <2>2. message' = <<>> /\ UNCHANGED <<s_thread_msgs, s_tmsg_head, s_tmsg_tail>>
    BY <1>2 DEF PostThreadMessage, tmsg_push
  <2>3. InBox' = InBox
    BY <2>2 DEF InBox, Pending
  <2> QED BY <2>1, <2>2, <2>3, <1>1 DEF Inboxes!Post
<1>3. CASE Slot(MsgSlots, s_tmsg_tail, 1) # s_tmsg_head
  <2>1. /\ s_thread_msgs' = [s_thread_msgs EXCEPT ![s_tmsg_tail] = message_]
        /\ s_tmsg_tail' = Slot(MsgSlots, s_tmsg_tail, 1)
        /\ s_tmsg_head' = s_tmsg_head /\ message' = <<>>
    BY <1>3 DEF PostThreadMessage, tmsg_push
  <2>2. Pending' = Pending + 1 /\ Pending # MsgSlots - 1
    BY <1>3, <2>1, Ends, QueuesAssumption DEF TypeOK, Pending
  <2>3. \A k \in 1 .. Pending : /\ Slot(MsgSlots, s_tmsg_head, k - 1) \in 0 .. MsgSlots - 1
                                /\ Slot(MsgSlots, s_tmsg_head, k - 1) # s_tmsg_tail
    BY Occupied, QueuesAssumption DEF TypeOK, Pending
  <2>4. Slot(MsgSlots, s_tmsg_head, Pending) = s_tmsg_tail
    BY Ends, QueuesAssumption DEF TypeOK, Pending
  <2>5. \A k \in 1 .. Pending + 1 :
          s_thread_msgs'[Slot(MsgSlots, s_tmsg_head', k - 1)]
            = IF k \in 1 .. Pending THEN s_thread_msgs[Slot(MsgSlots, s_tmsg_head, k - 1)]
              ELSE message_
    <3> SUFFICES ASSUME NEW k \in 1 .. Pending + 1
                 PROVE  s_thread_msgs'[Slot(MsgSlots, s_tmsg_head', k - 1)]
                          = IF k \in 1 .. Pending
                            THEN s_thread_msgs[Slot(MsgSlots, s_tmsg_head, k - 1)]
                            ELSE message_
      OBVIOUS
    <3> HIDE DEF message_
    <3>1. CASE k \in 1 .. Pending
      BY <3>1, <2>1, <2>3, <1>1 DEF TypeOK
    <3>2. CASE k = Pending + 1
      <4>1. Slot(MsgSlots, s_tmsg_head', k - 1) = s_tmsg_tail
        BY <3>2, <2>1, <2>4, <1>1
      <4>2. s_thread_msgs'[s_tmsg_tail] = message_
        BY <2>1 DEF TypeOK
      <4> QED BY <4>1, <4>2, <3>2, <1>1
    <3> QED BY <3>1, <3>2, <1>1
  <2>6. \A k \in 1 .. Pending + 1 :
          [to   |-> s_thread_msgs'[Slot(MsgSlots, s_tmsg_head', k - 1)].tid,
           says |-> s_thread_msgs'[Slot(MsgSlots, s_tmsg_head', k - 1)].says]
            = IF k \in 1 .. Pending THEN InBox[k] ELSE letter
    BY <2>5, <1>1
  <2>7. InBox' = [k \in 1 .. Pending + 1 |-> IF k \in 1 .. Pending THEN InBox[k] ELSE letter]
    BY <2>2, <2>6 DEF InBox
  <2>8. InBox' = Append(InBox, letter)
    BY <2>7, <1>1, Appended
  <2>9. Len(InBox) < MsgSlots - 1
    BY <1>1, <2>2, QueuesAssumption
  <2> QED BY <2>8, <2>9, <2>1 DEF Inboxes!Post
<1> QED BY <1>2, <1>3

\* What the compaction of tmsg_pop leaves in the ring: the letters before the one
\* taken, and those behind it one place closer.
LEMMA Compacted ==
    ASSUME TypeOK, NEW k \in 0 .. Pending - 1, Compact(k),
           s_tmsg_head' = s_tmsg_head,
           s_tmsg_tail' = Slot(MsgSlots, s_tmsg_tail, -1)
    PROVE  InBox' = Inboxes!Without(k + 1)
<1>1. /\ Pending \in 0 .. MsgSlots - 1 /\ Len(InBox) = Pending
      /\ \A j \in 1 .. Pending : InBox[j] =
           [to   |-> s_thread_msgs[Slot(MsgSlots, s_tmsg_head, j - 1)].tid,
            says |-> s_thread_msgs[Slot(MsgSlots, s_tmsg_head, j - 1)].says]
  BY InBoxIs
<1>2. Pending' = Pending - 1
  BY <1>1, Ends, QueuesAssumption DEF TypeOK, Pending
<1>3. \A j \in 1 .. Pending - 1 :
        s_thread_msgs'[Slot(MsgSlots, s_tmsg_head', j - 1)]
          = IF j < k + 1 THEN s_thread_msgs[Slot(MsgSlots, s_tmsg_head, j - 1)]
            ELSE s_thread_msgs[Slot(MsgSlots, s_tmsg_head, j)]
  <2> SUFFICES ASSUME NEW j \in 1 .. Pending - 1
               PROVE  s_thread_msgs'[Slot(MsgSlots, s_tmsg_head', j - 1)]
                        = IF j < k + 1 THEN s_thread_msgs[Slot(MsgSlots, s_tmsg_head, j - 1)]
                          ELSE s_thread_msgs[Slot(MsgSlots, s_tmsg_head, j)]
    OBVIOUS
  <2> DEFINE i == Slot(MsgSlots, s_tmsg_head, j - 1)
  <2>1. j - 1 \in 0 .. MsgSlots - 1 /\ j - 1 \in -1 .. MsgSlots /\ (j - 1) + 1 = j
    BY <1>1, QueuesAssumption
  <2>2. i \in 0 .. MsgSlots - 1
    BY <2>1, SlotIs, QueuesAssumption DEF TypeOK
  <2>3. Used(MsgSlots, s_tmsg_head, i) = j - 1
    BY <2>1, Walk, QueuesAssumption DEF TypeOK
  <2>4. Slot(MsgSlots, i, 1) = Slot(MsgSlots, s_tmsg_head, j)
    BY <2>1, Walk, QueuesAssumption DEF TypeOK
  <2>5. s_thread_msgs'[i] = IF j - 1 \in k .. Pending - 2
                            THEN s_thread_msgs[Slot(MsgSlots, i, 1)] ELSE s_thread_msgs[i]
    <3> HIDE DEF i
    <3> QED BY <2>2, <2>3 DEF Compact
  <2>6. j - 1 \in k .. Pending - 2 <=> ~(j < k + 1)
    BY <1>1
  <2> QED BY <2>4, <2>5, <2>6
<1>4. \A j \in 1 .. Pending - 1 :
        [to   |-> s_thread_msgs'[Slot(MsgSlots, s_tmsg_head', j - 1)].tid,
         says |-> s_thread_msgs'[Slot(MsgSlots, s_tmsg_head', j - 1)].says]
          = IF j < k + 1 THEN InBox[j] ELSE InBox[j + 1]
  <2> SUFFICES ASSUME NEW j \in 1 .. Pending - 1
               PROVE  [to   |-> s_thread_msgs'[Slot(MsgSlots, s_tmsg_head', j - 1)].tid,
                       says |-> s_thread_msgs'[Slot(MsgSlots, s_tmsg_head', j - 1)].says]
                        = IF j < k + 1 THEN InBox[j] ELSE InBox[j + 1]
    OBVIOUS
  <2>1. j \in 1 .. Pending /\ j + 1 \in 1 .. Pending /\ (j + 1) - 1 = j
    BY <1>1
  <2>2. InBox[j + 1] =
          [to   |-> s_thread_msgs[Slot(MsgSlots, s_tmsg_head, j)].tid,
           says |-> s_thread_msgs[Slot(MsgSlots, s_tmsg_head, j)].says]
    BY <2>1, <1>1
  <2> QED BY <2>1, <2>2, <1>1, <1>3
<1> QED BY <1>1, <1>2, <1>4 DEF InBox, Inboxes!Without

\* GetMessage and PeekMessage take the oldest letter to the caller, or learn that
\* there is none.
LEMMA PumpTakes ==
    ASSUME TypeOK, NEW t \in Threads, PumpMessage(t)
    PROVE  Inboxes!Take(t)
<1>1. /\ Pending \in 0 .. MsgSlots - 1 /\ DOMAIN InBox = 1 .. Pending
      /\ \A j \in 1 .. Pending : InBox[j] =
           [to   |-> s_thread_msgs[Slot(MsgSlots, s_tmsg_head, j - 1)].tid,
            says |-> s_thread_msgs[Slot(MsgSlots, s_tmsg_head, j - 1)].says]
  BY InBoxIs
<1>2. ASSUME NEW k \in 0 .. Pending - 1, FirstFor(t, k), Compact(k),
             message' = <<s_thread_msgs[Slot(MsgSlots, s_tmsg_head, k)].says>>,
             s_tmsg_tail' = Slot(MsgSlots, s_tmsg_tail, -1)
      PROVE  Inboxes!Take(t)
  <2>1. k + 1 \in 1 .. Pending /\ (k + 1) - 1 = k
    BY <1>1
  <2>2. InBox[k + 1] = [to   |-> s_thread_msgs[Slot(MsgSlots, s_tmsg_head, k)].tid,
                        says |-> s_thread_msgs[Slot(MsgSlots, s_tmsg_head, k)].says]
    BY <2>1, <1>1
  <2>3. \A j \in 1 .. (k + 1) - 1 : InBox[j].to # t
    <3> SUFFICES ASSUME NEW j \in 1 .. (k + 1) - 1 PROVE InBox[j].to # t
      OBVIOUS
    <3>1. j \in 1 .. Pending /\ j - 1 \in 0 .. k - 1
      BY <1>1
    <3>2. s_thread_msgs[Slot(MsgSlots, s_tmsg_head, j - 1)].tid # t
      BY <3>1, <1>2, Zenon DEF FirstFor
    <3>3. InBox[j].to = s_thread_msgs[Slot(MsgSlots, s_tmsg_head, j - 1)].tid
      BY <3>1, <1>1
    <3> QED BY <3>2, <3>3
  <2>4. Inboxes!Oldest(t, k + 1)
    BY <2>1, <2>2, <2>3, <1>1, <1>2 DEF Inboxes!Oldest, FirstFor
  <2>5. InBox' = Inboxes!Without(k + 1)
    BY <1>2, Compacted DEF PumpMessage
  <2>6. message' = <<InBox[k + 1].says>>
    BY <1>2, <2>2
  <2> QED BY <2>1, <2>4, <2>5, <2>6, <1>1 DEF Inboxes!Take
<1>3. CASE /\ \A k \in 0 .. Pending - 1 :
                s_thread_msgs[Slot(MsgSlots, s_tmsg_head, k)].tid # t
           /\ message' = <<>>
           /\ UNCHANGED <<s_thread_msgs, s_tmsg_tail>>
  <2>1. InBox' = InBox
    BY <1>3 DEF PumpMessage, InBox, Pending
  <2>2. \A j \in DOMAIN InBox : InBox[j].to # t
    <3> SUFFICES ASSUME NEW j \in 1 .. Pending PROVE InBox[j].to # t
      BY <1>1
    <3>1. j - 1 \in 0 .. Pending - 1
      BY <1>1
    <3> QED BY <3>1, <1>1, <1>3
  <2> QED BY <2>1, <2>2, <1>3 DEF Inboxes!Take
<1> QED BY <1>2, <1>3 DEF PumpMessage, tmsg_pop

\* The thread-message ring is a bounded mailbox: whatever its size and however many
\* threads share it, each thread gets its own messages that fitted, each once and in
\* the order they were posted, and taking one loses no message of another thread.
THEOREM MessagesImplemented == Spec => MessagesAreMailbox
<1>1. Init => Inboxes!Init
  <2> SUFFICES ASSUME Init PROVE Inboxes!Init
    OBVIOUS
  <2>1. TypeOK
    BY QueuesAssumption DEF Init, TypeOK
  <2>2. Pending = 0
    BY Ends, QueuesAssumption DEF Init, TypeOK, Pending
  <2>3. InBox = <<>>
    BY <2>2 DEF InBox
  <2> QED BY <2>3 DEF Inboxes!Init, Init
<1>2. TypeOK /\ [Next]_queueVars => [Inboxes!Next]_<<InBox, message, program>>
  <2> SUFFICES ASSUME TypeOK, [Next]_queueVars
               PROVE  [Inboxes!Next]_<<InBox, message, program>>
    OBVIOUS
  <2>1. CASE UNCHANGED <<threadVars, program>>
    BY <2>1 DEF threadVars, InBox, Pending
  <2>2. ASSUME NEW t \in Threads, NEW m \in Messages, PostThreadMessage(t, m),
               UNCHANGED program
        PROVE  Inboxes!Next
    BY <2>2, MessagePosts DEF Inboxes!Next, Inboxes!Use
  <2>3. ASSUME NEW t \in Threads, PumpMessage(t), UNCHANGED program
        PROVE  Inboxes!Next
    BY <2>3, PumpTakes DEF Inboxes!Next, Inboxes!Use
  <2>4. CASE LoadPE
    <3>1. Pending' = 0
      BY <2>4, Ends, QueuesAssumption DEF LoadPE, Pending
    <3>2. InBox' = <<>>
      BY <3>1 DEF InBox
    <3> QED BY <3>2, <2>4 DEF LoadPE, Inboxes!Next, Inboxes!Clear
  <2> QED BY <2>1, <2>2, <2>3, <2>4 DEF Next, MessageStep, queueVars
<1> QED BY <1>1, <1>2, QueueTypes, PTL DEF Spec, MessagesAreMailbox, Inboxes!Spec

=============================================================================
