-------------------------- MODULE WGThreadingProofs --------------------------
(***************************************************************************)
(* What the scheduler operators of WGThreading do to a well-formed         *)
(* scheduler, field by field.  The proofs about a module that calls them   *)
(* cite these lemmas and never expand the operators.                       *)
(***************************************************************************)
EXTENDS WGThreading, WellFoundedInduction, TLAPS

-----------------------------------------------------------------------------
(* The order in which switch_next probes the table.                        *)

\* The probe distance from slot c, or from slot 0 when there is no current
\* thread, without the modulus of switch_next (wg_threading.c:128).
LEMMA DistValue ==
    ASSUME NEW c \in Slots \cup {NoThread}, NEW i \in Slots
    PROVE  Dist(c, i) = IF i > c THEN i - c - 1 ELSE i - c - 1 + MaxThreads
<1> USE MaxThreadsAssumption DEF Slots, NoThread
<1>1. \A a \in 0 .. MaxThreads - 1 : a % MaxThreads = a
  OBVIOUS
<1>2. \A a \in 1 .. MaxThreads : (a - MaxThreads) % MaxThreads = a % MaxThreads
  OBVIOUS
<1> QED BY <1>1, <1>2 DEF Dist

LEMMA DistType ==
    ASSUME NEW c \in Slots \cup {NoThread}, NEW i \in Slots
    PROVE  Dist(c, i) \in 0 .. MaxThreads - 1
BY MaxThreadsAssumption, DistValue DEF Slots, NoThread

\* Two slots are never probed at the same moment.
LEMMA DistInjective ==
    ASSUME NEW c \in Slots \cup {NoThread}, NEW i \in Slots, NEW j \in Slots,
           Dist(c, i) = Dist(c, j)
    PROVE  i = j
BY MaxThreadsAssumption, DistValue DEF Slots, NoThread

\* When the scan has moved from slot c to slot k, every slot that lay behind k
\* is nearer than it was.
LEMMA DistShrinks ==
    ASSUME NEW c \in Slots, NEW k \in Slots, NEW t \in Slots,
           Dist(c, k) < Dist(c, t)
    PROVE  Dist(k, t) < Dist(c, t)
BY MaxThreadsAssumption, DistValue DEF Slots, NoThread

\* switch_next finds a READY thread when there is one, and no READY thread is
\* nearer than the one it finds.
LEMMA NextSlotNearest ==
    ASSUME NEW Contexts, NEW s \in Scheduler(Contexts), CanSwitch(s)
    PROVE  /\ NextSlot(s) \in ReadySlots(s)
           /\ \A j \in ReadySlots(s) : Dist(s.cur, NextSlot(s)) <= Dist(s.cur, j)
<1> DEFINE D == {Dist(s.cur, i) : i \in ReadySlots(s)}
<1>1. s.cur \in Slots \cup {NoThread} /\ ReadySlots(s) \subseteq Slots
  BY DEF Scheduler, ReadySlots
<1>2. D \subseteq Nat /\ D # {}
  BY <1>1, DistType, MaxThreadsAssumption DEF CanSwitch
<1>3. PICK d \in D : \A e \in D : ~(<<e, d>> \in OpToRel(<, Nat))
  <2> HIDE DEF D
  <2> QED BY <1>2, NatLessThanWellFounded, WFMin
<1>4. PICK i \in ReadySlots(s) : d = Dist(s.cur, i)
  BY <1>3
<1>5. ASSUME NEW j \in ReadySlots(s)
      PROVE  Dist(s.cur, i) <= Dist(s.cur, j)
  <2>1. Dist(s.cur, j) \in D /\ Dist(s.cur, j) \in Nat /\ Dist(s.cur, i) \in Nat
    BY <1>2, <1>3, <1>4
  <2>2. ~(Dist(s.cur, j) < Dist(s.cur, i))
    BY <2>1, <1>3, <1>4 DEF OpToRel
  <2> QED BY <2>1, <2>2
<1> QED BY <1>4, <1>5 DEF NextSlot

-----------------------------------------------------------------------------
(* What each operation leaves in each field.                               *)

LEMMA SaveCurrentFields ==
    ASSUME NEW Contexts, NEW s \in Scheduler(Contexts), NEW new \in ThreadState
    PROVE  /\ SaveCurrent(s, new) \in Scheduler(Contexts)
           /\ SaveCurrent(s, new).cur = s.cur
           /\ SaveCurrent(s, new).cpu = s.cpu
           /\ SaveCurrent(s, new).waitOn = s.waitOn
           /\ s.cur = NoThread => SaveCurrent(s, new) = s
           /\ s.cur # NoThread =>
                /\ SaveCurrent(s, new).st = [s.st EXCEPT ![s.cur] = new]
                /\ SaveCurrent(s, new).regs = [s.regs EXCEPT ![s.cur] = s.cpu]
BY DEF SaveCurrent, Scheduler

LEMMA SwitchNextFields ==
    ASSUME NEW Contexts, NEW s \in Scheduler(Contexts)
    PROVE  /\ SwitchNext(s) \in Scheduler(Contexts)
           /\ SwitchNext(s).waitOn = s.waitOn
           /\ SwitchNext(s).regs = s.regs
           /\ ~CanSwitch(s) => SwitchNext(s) = s
           /\ CanSwitch(s) =>
                /\ s.st[SwitchNext(s).cur] = "READY"
                /\ SwitchNext(s).cur \in Slots
                /\ SwitchNext(s).st = [s.st EXCEPT ![SwitchNext(s).cur] = "RUNNING"]
                /\ SwitchNext(s).cpu = s.regs[SwitchNext(s).cur]
                /\ \A j \in Slots : s.st[j] = "READY" =>
                     Dist(s.cur, SwitchNext(s).cur) <= Dist(s.cur, j)
<1>1. CASE ~CanSwitch(s)
  BY <1>1 DEF SwitchNext
<1>2. CASE CanSwitch(s)
  <2> DEFINE i == NextSlot(s)
  <2>1. i \in Slots /\ s.st[i] = "READY"
    BY <1>2, NextSlotNearest DEF ReadySlots
  <2>2. \A j \in Slots : s.st[j] = "READY" => Dist(s.cur, i) <= Dist(s.cur, j)
    BY <1>2, NextSlotNearest DEF ReadySlots
  <2>3. SwitchNext(s) = [s EXCEPT !.cur = i, !.st[i] = "RUNNING", !.cpu = s.regs[i]]
    BY <1>2 DEF SwitchNext
  <2> HIDE DEF i
  <2>4. SwitchNext(s) = [st |-> [s.st EXCEPT ![i] = "RUNNING"], cur |-> i,
                         waitOn |-> s.waitOn, regs |-> s.regs, cpu |-> s.regs[i]]
    BY <2>3 DEF Scheduler
  <2>5. SwitchNext(s) \in Scheduler(Contexts)
    BY <2>1, <2>4 DEF Scheduler, ThreadState
  <2> QED BY <1>2, <2>1, <2>2, <2>4, <2>5
<1> QED BY <1>1, <1>2

LEMMA WakeFields ==
    ASSUME NEW Contexts, NEW s \in Scheduler(Contexts), NEW h
    PROVE  /\ Wake(s, h) \in Scheduler(Contexts)
           /\ Wake(s, h).cur = s.cur
           /\ Wake(s, h).cpu = s.cpu
           /\ Wake(s, h).regs = s.regs
           /\ \A i \in Slots :
                IF s.st[i] = "WAITING" /\ s.waitOn[i] = h
                THEN Wake(s, h).st[i] = "READY" /\ Wake(s, h).waitOn[i] = 0
                ELSE Wake(s, h).st[i] = s.st[i] /\ Wake(s, h).waitOn[i] = s.waitOn[i]
BY DEF Wake, Scheduler, ThreadState

LEMMA YieldFields ==
    ASSUME NEW Contexts, NEW s \in Scheduler(Contexts), s.cur # NoThread,
           NEW reason \in {"READY", "WAITING"}
    PROVE  LET y == Yield(s, reason)
           IN  /\ y \in Scheduler(Contexts)
               /\ y.cur \in Slots
               /\ y.waitOn = s.waitOn
               /\ \A i \in Slots :
                    /\ y.regs[i] = IF i = s.cur THEN s.cpu ELSE s.regs[i]
                    /\ y.st[i] = IF i = y.cur THEN "RUNNING"
                                 ELSE IF i = s.cur THEN reason ELSE s.st[i]
               /\ y.cpu = y.regs[y.cur]
               /\ Switched(s, reason) =>
                    /\ y.cur # s.cur => s.st[y.cur] = "READY"
                    /\ y.cur = s.cur => reason = "READY"
                    /\ \A j \in Slots :
                         s.st[j] = "READY" => Dist(s.cur, y.cur) <= Dist(s.cur, j)
                           \/ j = s.cur
               /\ ~Switched(s, reason) => y.cur = s.cur
<1> DEFINE v == SaveCurrent(s, reason)
<1>1. reason \in ThreadState /\ s.cur \in Slots
  BY DEF ThreadState, Scheduler
<1>2. /\ v \in Scheduler(Contexts)
      /\ v.cur = s.cur /\ v.cpu = s.cpu /\ v.waitOn = s.waitOn
      /\ v.st = [s.st EXCEPT ![s.cur] = reason]
      /\ v.regs = [s.regs EXCEPT ![s.cur] = s.cpu]
  BY <1>1, SaveCurrentFields
<1>3. /\ s.st \in [Slots -> ThreadState] /\ s.regs \in [Slots -> Contexts]
      /\ v.st \in [Slots -> ThreadState] /\ v.regs \in [Slots -> Contexts]
  BY <1>2 DEF Scheduler
<1>4. CASE CanSwitch(v)
  <2>1. Yield(s, reason) = SwitchNext(v) /\ Switched(s, reason)
    BY <1>4 DEF Yield, Switched
  <2> HIDE DEF v
  <2>2. /\ SwitchNext(v) \in Scheduler(Contexts)
        /\ SwitchNext(v).cur \in Slots
        /\ SwitchNext(v).waitOn = v.waitOn
        /\ SwitchNext(v).regs = v.regs
        /\ v.st[SwitchNext(v).cur] = "READY"
        /\ SwitchNext(v).st = [v.st EXCEPT ![SwitchNext(v).cur] = "RUNNING"]
        /\ SwitchNext(v).cpu = v.regs[SwitchNext(v).cur]
        /\ \A j \in Slots : v.st[j] = "READY" =>
                Dist(v.cur, SwitchNext(v).cur) <= Dist(v.cur, j)
    BY <1>2, <1>4, SwitchNextFields
  <2> DEFINE y == SwitchNext(v)
  <2> HIDE DEF y
  <2> SUFFICES
        /\ y \in Scheduler(Contexts)
        /\ y.cur \in Slots
        /\ y.waitOn = s.waitOn
        /\ \A i \in Slots :
             /\ y.regs[i] = IF i = s.cur THEN s.cpu ELSE s.regs[i]
             /\ y.st[i] = IF i = y.cur THEN "RUNNING"
                          ELSE IF i = s.cur THEN reason ELSE s.st[i]
        /\ y.cpu = y.regs[y.cur]
        /\ y.cur # s.cur => s.st[y.cur] = "READY"
        /\ y.cur = s.cur => reason = "READY"
        /\ \A j \in Slots :
             s.st[j] = "READY" => Dist(s.cur, y.cur) <= Dist(s.cur, j) \/ j = s.cur
    BY <2>1 DEF y
  <2> QED BY <1>1, <1>2, <1>3, <2>2 DEF y
<1>5. CASE ~CanSwitch(v)
  <2>1. Yield(s, reason) = [v EXCEPT !.st[s.cur] = "RUNNING"] /\ ~Switched(s, reason)
    BY <1>5 DEF Yield, Switched
  <2> HIDE DEF v
  <2>2. [v EXCEPT !.st[s.cur] = "RUNNING"] =
            [st |-> [v.st EXCEPT ![s.cur] = "RUNNING"], cur |-> v.cur,
             waitOn |-> v.waitOn, regs |-> v.regs, cpu |-> v.cpu]
    BY <1>2 DEF Scheduler
  <2>3. [st |-> [v.st EXCEPT ![s.cur] = "RUNNING"], cur |-> v.cur,
         waitOn |-> v.waitOn, regs |-> v.regs, cpu |-> v.cpu] \in Scheduler(Contexts)
    BY <1>2 DEF Scheduler, ThreadState
  <2>4. v.regs[s.cur] = s.cpu
    BY <1>1, <1>2, <1>3
  <2> QED BY <1>1, <1>2, <1>3, <2>1, <2>2, <2>3, <2>4
<1> QED BY <1>4, <1>5

LEMMA ExitThreadFields ==
    ASSUME NEW Contexts, NEW s \in Scheduler(Contexts), s.cur # NoThread
    PROVE  LET x == ExitThread(s)
           IN  /\ x \in Scheduler(Contexts)
               /\ x.waitOn = s.waitOn
               /\ x.regs = s.regs
               /\ x.cur = NoThread =>
                    x.cpu = s.cpu
               /\ x.cur # NoThread =>
                    /\ x.cur \in Slots \ {s.cur}
                    /\ s.st[x.cur] = "READY"
                    /\ x.cpu = s.regs[x.cur]
               /\ \A i \in Slots :
                    x.st[i] = IF i = s.cur THEN "EXITED"
                              ELSE IF i = x.cur THEN "RUNNING" ELSE s.st[i]
<1> DEFINE v == [st |-> [s.st EXCEPT ![s.cur] = "EXITED"], cur |-> NoThread,
                 waitOn |-> s.waitOn, regs |-> s.regs, cpu |-> s.cpu]
<1>1. s.cur \in Slots /\ s.st \in [Slots -> ThreadState]
  BY DEF Scheduler
<1>2. v \in Scheduler(Contexts)
  BY DEF Scheduler, ThreadState
<1>3. [s EXCEPT !.st[s.cur] = "EXITED", !.cur = NoThread] = v
  <2> DEFINE s1 == [s EXCEPT !.st[s.cur] = "EXITED"]
  <2>1. s1 = [st |-> [s.st EXCEPT ![s.cur] = "EXITED"], cur |-> s.cur,
              waitOn |-> s.waitOn, regs |-> s.regs, cpu |-> s.cpu]
    BY DEF Scheduler
  <2>2. [s EXCEPT !.st[s.cur] = "EXITED", !.cur = NoThread]
            = [s1 EXCEPT !.cur = NoThread]
    OBVIOUS
  <2> HIDE DEF s1
  <2> QED BY <2>1, <2>2
<1>4. ExitThread(s) = SwitchNext(v)
  BY <1>3 DEF ExitThread
<1>5. /\ v.cur = NoThread /\ v.cpu = s.cpu /\ v.waitOn = s.waitOn /\ v.regs = s.regs
      /\ v.st = [s.st EXCEPT ![s.cur] = "EXITED"]
  OBVIOUS
<1>6. NoThread \notin Slots
  BY MaxThreadsAssumption DEF Slots, NoThread
<1> HIDE DEF v
<1> DEFINE x == SwitchNext(v)
<1>7. /\ x \in Scheduler(Contexts)
      /\ x.waitOn = v.waitOn /\ x.regs = v.regs
      /\ ~CanSwitch(v) => x = v
      /\ CanSwitch(v) =>
           /\ v.st[x.cur] = "READY"
           /\ x.cur \in Slots
           /\ x.st = [v.st EXCEPT ![x.cur] = "RUNNING"]
           /\ x.cpu = v.regs[x.cur]
  BY <1>2, SwitchNextFields
<1>10. v.st \in [Slots -> ThreadState]
  BY <1>2 DEF Scheduler
<1> HIDE DEF x
<1>8. CASE CanSwitch(v)
  BY <1>1, <1>4, <1>5, <1>6, <1>7, <1>8, <1>10 DEF x
<1>9. CASE ~CanSwitch(v)
  BY <1>1, <1>4, <1>5, <1>6, <1>7, <1>9 DEF x
<1> QED BY <1>8, <1>9

LEMMA CreateThreadFields ==
    ASSUME NEW Contexts, NEW s \in Scheduler(Contexts),
           NEW i \in Slots, NEW c \in Contexts, NEW suspended \in BOOLEAN
    PROVE  LET x == CreateThread(s, i, c, suspended)
           IN  /\ x \in Scheduler(Contexts)
               /\ x.cur = s.cur /\ x.cpu = s.cpu
               /\ \A j \in Slots :
                    /\ x.st[j] = IF j # i THEN s.st[j]
                                 ELSE IF suspended THEN "SUSPENDED" ELSE "READY"
                    /\ x.waitOn[j] = IF j = i THEN 0 ELSE s.waitOn[j]
                    /\ x.regs[j] = IF j = i THEN c ELSE s.regs[j]
<1> DEFINE x == [st |-> [s.st EXCEPT ![i] = IF suspended THEN "SUSPENDED" ELSE "READY"],
                 cur |-> s.cur, waitOn |-> [s.waitOn EXCEPT ![i] = 0],
                 regs |-> [s.regs EXCEPT ![i] = c], cpu |-> s.cpu]
<1>1. CreateThread(s, i, c, suspended) = x
  <2> DEFINE n  == IF suspended THEN "SUSPENDED" ELSE "READY"
             s1 == [s EXCEPT !.st[i] = n]
             s2 == [s1 EXCEPT !.waitOn[i] = 0]
  <2>1. s1 = [st |-> [s.st EXCEPT ![i] = n], cur |-> s.cur, waitOn |-> s.waitOn,
              regs |-> s.regs, cpu |-> s.cpu]
    BY DEF Scheduler
  <2>2. s2 = [st |-> [s.st EXCEPT ![i] = n], cur |-> s.cur,
              waitOn |-> [s.waitOn EXCEPT ![i] = 0], regs |-> s.regs, cpu |-> s.cpu]
    <3> HIDE DEF s1
    <3> QED BY <2>1
  <2>3. CreateThread(s, i, c, suspended) = [s2 EXCEPT !.regs[i] = c]
    BY DEF CreateThread
  <2> HIDE DEF s2
  <2> QED BY <2>2, <2>3
<1>2. x \in Scheduler(Contexts)
  BY DEF Scheduler, ThreadState
<1> QED BY <1>1, <1>2 DEF Scheduler

LEMMA ResumeFields ==
    ASSUME NEW Contexts, NEW s \in Scheduler(Contexts), NEW i \in Slots
    PROVE  LET x == Resume(s, i)
           IN  /\ x \in Scheduler(Contexts)
               /\ x.cur = s.cur /\ x.cpu = s.cpu
               /\ x.waitOn = s.waitOn /\ x.regs = s.regs
               /\ \A j \in Slots :
                    x.st[j] = IF j = i /\ s.st[j] = "SUSPENDED" THEN "READY" ELSE s.st[j]
<1> DEFINE x == [s EXCEPT !.st = [s.st EXCEPT ![i] = IF s.st[i] = "SUSPENDED"
                                                    THEN "READY" ELSE s.st[i]]]
<1>1. Resume(s, i) = x
  BY DEF Resume, Scheduler
<1> QED BY <1>1 DEF Scheduler, ThreadState

=============================================================================
