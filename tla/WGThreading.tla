----------------------------- MODULE WGThreading -----------------------------
(***************************************************************************)
(* The cooperative guest-thread scheduler of Sources/Win32/wg_threading.c. *)
(*                                                                         *)
(* WGThreadScheduler is a table of MaxThreads slots and the index of the   *)
(* current one; every function also receives the blink VM, whose register  *)
(* file it saves and restores.  A scheduler value is therefore a record    *)
(*                                                                         *)
(*   st     the state of each slot (WGThread.state)                        *)
(*   cur    the current slot, or NoThread (WGThreadScheduler.current)      *)
(*   waitOn the handle each thread waits on, 0 for none (wait_handle)      *)
(*   regs   the registers saved for each slot (WGThread.regs)              *)
(*   cpu    the registers blink holds now                                  *)
(*                                                                         *)
(* and every C function is an operator from scheduler values to scheduler  *)
(* values, so that a handler that calls several of them is their           *)
(* composition.  A register file is opaque here: the module that uses the  *)
(* scheduler says which Contexts there are.                                *)
(***************************************************************************)
EXTENDS Integers

CONSTANT MaxThreads     \* WG_MAX_THREADS, 32 in the code

ASSUME MaxThreadsAssumption == MaxThreads \in Nat \ {0}

Slots       == 0 .. MaxThreads - 1
NoThread    == -1
ThreadState == {"FREE", "RUNNING", "READY", "WAITING", "SUSPENDED", "EXITED"}

Scheduler(Contexts) ==
    [st     : [Slots -> ThreadState],
     cur    : Slots \cup {NoThread},
     waitOn : [Slots -> Nat],
     regs   : [Slots -> Contexts],
     cpu    : Contexts]

-----------------------------------------------------------------------------
(* Handles.  Slots are handed out in increasing order and never return to  *)
(* FREE, and next_handle counts from 0x7100, so the handle of a worker is  *)
(* a function of its slot; the main thread, slot 0, has handle 0x7000.     *)

Main == 0

ThreadHandle(t) == IF t = Main THEN 28672 ELSE 28928 + (t - 1)

-----------------------------------------------------------------------------
(* Choosing the next thread.  switch_next probes the slots cyclically,     *)
(* starting after the current one, and takes the first READY one.          *)

Dist(cur, i) == (i - (cur + 1)) % MaxThreads

ReadySlots(s) == {i \in Slots : s.st[i] = "READY"}

CanSwitch(s) == ReadySlots(s) # {}

\* Mutant of NextSlot: the scan starts at slot 0 instead of after the current.
NextSlotFromZero(s) ==
    CHOOSE i \in ReadySlots(s) : \A j \in ReadySlots(s) : i <= j

NextSlot(s) ==
    CHOOSE i \in ReadySlots(s) :
        \A j \in ReadySlots(s) : Dist(s.cur, i) <= Dist(s.cur, j)

-----------------------------------------------------------------------------
(* The operations.                                                         *)

\* Mutant of SaveCurrent: the new state is not written.
SaveCurrentStillRunning(s, new) ==
    IF s.cur = NoThread THEN s ELSE [s EXCEPT !.regs[s.cur] = s.cpu]

SaveCurrent(s, new) ==
    IF s.cur = NoThread THEN s
    ELSE [s EXCEPT !.regs[s.cur] = s.cpu, !.st[s.cur] = new]

\* Mutant of SwitchNext: the thread picked is not marked RUNNING.
SwitchNextUnmarked(s) ==
    IF CanSwitch(s)
    THEN LET i == NextSlot(s) IN [s EXCEPT !.cur = i, !.cpu = s.regs[i]]
    ELSE s

SwitchNext(s) ==
    IF CanSwitch(s)
    THEN LET i == NextSlot(s)
         IN  [s EXCEPT !.cur = i, !.st[i] = "RUNNING", !.cpu = s.regs[i]]
    ELSE s

\* What yield returns: whether some thread was READY once the caller was
\* saved.  The caller itself counts when it yields as READY.
Switched(s, reason) == CanSwitch(SaveCurrent(s, reason))

Yield(s, reason) ==
    LET saved == SaveCurrent(s, reason)
    IN  IF CanSwitch(saved) \/ s.cur = NoThread
        THEN SwitchNext(saved)
        ELSE [saved EXCEPT !.st[s.cur] = "RUNNING"]

\* Mutant of Wake: only the first thread that waits is woken.
WakeFirstOnly(s, h) ==
    LET waiting == {i \in Slots : s.st[i] = "WAITING" /\ s.waitOn[i] = h}
        woken   == {i \in waiting : \A j \in waiting : i <= j}
    IN  [s EXCEPT !.st     = [i \in Slots |-> IF i \in woken THEN "READY" ELSE s.st[i]],
                  !.waitOn = [i \in Slots |-> IF i \in woken THEN 0 ELSE s.waitOn[i]]]

Wake(s, h) ==
    LET woken == {i \in Slots : s.st[i] = "WAITING" /\ s.waitOn[i] = h}
    IN  [s EXCEPT !.st     = [i \in Slots |-> IF i \in woken THEN "READY" ELSE s.st[i]],
                  !.waitOn = [i \in Slots |-> IF i \in woken THEN 0 ELSE s.waitOn[i]]]

\* Mutant of ExitThread: the exited thread stays current.
ExitThreadStaysCurrent(s) ==
    IF s.cur = NoThread THEN s
    ELSE SwitchNext([s EXCEPT !.st[s.cur] = "EXITED"])

ExitThread(s) ==
    IF s.cur = NoThread THEN s
    ELSE SwitchNext([s EXCEPT !.st[s.cur] = "EXITED", !.cur = NoThread])

\* Mutant of FirstFree: the slot of an exited thread is taken again.
FirstUnused(s, i) ==
    /\ s.st[i] \in {"FREE", "EXITED"}
    /\ \A j \in Slots : s.st[j] \in {"FREE", "EXITED"} => i <= j

FirstFree(s, i) ==
    /\ s.st[i] = "FREE"
    /\ \A j \in Slots : s.st[j] = "FREE" => i <= j

\* The slot i chosen by FirstFree starts with the registers c.
CreateThread(s, i, c, suspended) ==
    [s EXCEPT !.st[i]     = IF suspended THEN "SUSPENDED" ELSE "READY",
              !.waitOn[i] = 0,
              !.regs[i]   = c]

\* ResumeThread: the handler of wg_engine.c changes the slot in place.
Resume(s, i) == [s EXCEPT !.st[i] = IF @ = "SUSPENDED" THEN "READY" ELSE @]

=============================================================================
