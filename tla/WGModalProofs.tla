---------------------------- MODULE WGModalProofs ----------------------------
(***************************************************************************)
(* Theorems about WGModal for every number of threads and frames, every    *)
(* stack size and every program whose callbacks run to completion.         *)
(*                                                                         *)
(* One stack of frames serves all threads.  It works as a stack per thread *)
(* because a thread that is left inside a callback is only ever left for   *)
(* good or until nothing can touch its frames: the invariant says which    *)
(* threads can be inside a callback at all.                                *)
(***************************************************************************)
EXTENDS WGModal, WGThreadingProofs, SequenceTheorems

\* The programs: a window or dialog procedure does not let another thread run
\* in the middle and opens no dialog, and there is one dialog at a time.
CallbacksComplete ==
    /\ Inside \cap {"Sleep", "ExitThread", "DialogBox", "SecondDialog"} = {}
    /\ "SecondDialog" \notin Calls

-----------------------------------------------------------------------------
(* The inductive invariant.                                                *)

\* The current thread runs; no thread waits for an object.
CurrentInv ==
    /\ sched.cur # NoThread => sched.st[sched.cur] = "RUNNING"
    /\ sched.cur = NoThread => cpu.at = "zero"
    /\ cpu.at = "zero" => cpu.sp = 0
    /\ \A t \in Slots : sched.waitOn[t] = 0

\* A thread that is not current and not parked is outside callbacks.
AtRest ==
    \A t \in Slots : t # sched.cur /\ sched.st[t] \notin {"WAITING", "EXITED"} =>
        sched.regs[t] = NewContext(t)

ThreadInv == sched \in Scheduler(Context) /\ OwnStack /\ CurrentInv /\ AtRest

Owner == s_dlg_ret.own

\* A thread is parked only by a tick of the PAUSED engine, and the first one to be
\* parked is the owner of the dialog: it never runs again.
Parked ==
    \A t \in Slots : sched.st[t] = "WAITING" =>
        s_dlg_active /\ sched.st[Owner] = "WAITING"

\* The owner of the dialog is at the dialog sentinel or in the dialog procedure.
DialogOpen ==
    s_dlg_active =>
        /\ s_dlg_ret.sp = 0
        /\ Owner = sched.cur \/ sched.st[Owner] = "WAITING"
        /\ Registers(Owner).sp = 0 => Registers(Owner).at = "dialog"
        /\ Registers(Owner).sp # 0 => stack[Owner][1] = "dialog"

\* Nobody else is.
OnlyOwner ==
    \A t \in Slots : Alive(t) =>
        /\ Registers(t).at = "dialog" => s_dlg_active /\ Owner = t /\ Registers(t).sp = 0
        /\ \A i \in 1 .. Registers(t).sp :
             stack[t][i] = "dialog" => i = 1 /\ s_dlg_active /\ Owner = t

Pauses ==
    estate = "PAUSED" =>
        sched.cur # NoThread /\ s_dlg_active /\ (nsdPause \/ cpu.at = "dialog")

DialogInv == Parked /\ DialogOpen /\ OnlyOwner /\ Pauses

\* Whatever lies above a frame of the current thread is also its own.
CurrentOnTop ==
    \A j, k \in DOMAIN s_callstack :
        j < k /\ s_callstack[j].own = sched.cur => s_callstack[k].own = sched.cur

FrameInv == FramesMatch /\ CurrentOnTop

IInv == TypeOK /\ ThreadInv /\ DialogInv /\ FrameInv

-----------------------------------------------------------------------------
(* The helpers of the handlers.                                            *)

LEMMA SlotFacts == NoThread \notin Slots /\ Main \in Slots
BY MaxThreadsAssumption DEF Slots, NoThread, Main

Places == {"guest", "dialog", "CreateThread", "zero"}

LEMMA JumpFields ==
    ASSUME NEW s \in Scheduler(Context), NEW c \in Caller, NEW p \in Places
    PROVE  /\ Jump(s, c, p) \in Scheduler(Context)
           /\ Jump(s, c, p).st = s.st /\ Jump(s, c, p).cur = s.cur
           /\ Jump(s, c, p).waitOn = s.waitOn /\ Jump(s, c, p).regs = s.regs
           /\ Jump(s, c, p).cpu.own = c.own
           /\ Jump(s, c, p).cpu.sp = c.sp
           /\ Jump(s, c, p).cpu.at = p
<1> DEFINE r == [own |-> c.own, sp |-> c.sp, at |-> p]
           x == [st |-> s.st, cur |-> s.cur, waitOn |-> s.waitOn,
                 regs |-> s.regs, cpu |-> r]
<1>1. r \in Context
  BY DEF Caller, Context, Places
<1>2. Jump(s, c, p) = x
  BY DEF Jump, Scheduler
<1>3. x \in Scheduler(Context)
  BY <1>1 DEF Scheduler
<1> QED BY <1>2, <1>3

\* The current thread moves, on its own stack.
LEMMA CurrentMoves ==
    ASSUME ThreadInv, sched.cur # NoThread,
           NEW c \in Caller, c.own = sched.cur,
           NEW p \in Places, p = "zero" => c.sp = 0,
           sched' = Jump(sched, c, p)
    PROVE  /\ ThreadInv'
           /\ sched'.st = sched.st /\ sched'.cur = sched.cur
           /\ \A t \in Slots : t # sched.cur => Registers(t)' = Registers(t)
           /\ Registers(sched.cur)'.sp = c.sp /\ Registers(sched.cur)'.at = p
           /\ cpu'.sp = c.sp /\ cpu'.at = p
<1>1. sched \in Scheduler(Context) /\ OwnStack /\ CurrentInv /\ AtRest
  BY DEF ThreadInv
<1>2. /\ sched' \in Scheduler(Context)
      /\ sched'.st = sched.st /\ sched'.cur = sched.cur
      /\ sched'.waitOn = sched.waitOn /\ sched'.regs = sched.regs
      /\ sched'.cpu.own = c.own /\ sched'.cpu.sp = c.sp /\ sched'.cpu.at = p
  <2> DEFINE x == Jump(sched, c, p)
  <2>1. /\ x \in Scheduler(Context)
        /\ x.st = sched.st /\ x.cur = sched.cur
        /\ x.waitOn = sched.waitOn /\ x.regs = sched.regs
        /\ x.cpu.own = c.own /\ x.cpu.sp = c.sp /\ x.cpu.at = p
    BY <1>1, JumpFields
  <2>2. sched' = x
    OBVIOUS
  <2> HIDE DEF x
  <2> QED BY <2>1, <2>2
<1>3. \A t \in Slots : t # sched.cur => Registers(t)' = Registers(t)
  BY <1>2 DEF Registers
<1>4. OwnStack'
  BY <1>1, <1>2, <1>3 DEF OwnStack, Registers, Alive, cpu
<1>5. CurrentInv' /\ AtRest'
  BY <1>1, <1>2 DEF CurrentInv, AtRest, cpu, NewContext
<1> QED BY <1>2, <1>3, <1>4, <1>5 DEF ThreadInv, Registers, cpu

\* A call is laid above the calls of the current thread; the others' stacks and
\* the calls below it are as they were.
LEMMA EnterFields ==
    ASSUME TypeOK, ThreadInv, sched.cur # NoThread, NEW sentinel \in Sentinels,
           Enter(sentinel)
    PROVE  /\ ThreadInv' /\ stack' \in [Slots -> [1 .. StackSize -> Sentinels]]
           /\ sched'.st = sched.st /\ sched'.cur = sched.cur
           /\ \A t \in Slots : t # sched.cur => Registers(t)' = Registers(t)
           /\ Registers(sched.cur)'.sp = cpu.sp + 1
           /\ Registers(sched.cur)'.at = "guest"
           /\ cpu'.sp = cpu.sp + 1 /\ cpu'.at = "guest"
           /\ \A t \in Slots : t # sched.cur => stack'[t] = stack[t]
           /\ \A i \in 1 .. cpu.sp : stack'[sched.cur][i] = stack[sched.cur][i]
           /\ stack'[sched.cur][cpu.sp + 1] = sentinel
           /\ cpu.sp + 1 \in 1 .. StackSize
<1> DEFINE c == [own |-> cpu.own, sp |-> cpu.sp + 1]
<1>1. /\ cpu \in Context /\ sched.cur \in Slots /\ cpu.own = sched.cur
      /\ stack \in [Slots -> [1 .. StackSize -> Sentinels]]
  BY DEF TypeOK, ThreadInv, Scheduler, cpu, OwnStack, CurrentInv, Alive, Registers
<1>2. cpu.sp + 1 \in 1 .. StackSize /\ cpu.sp \in Nat
  BY <1>1, ModalAssumption DEF Enter, Context, Depths
<1>3. c \in Caller /\ c.own = sched.cur /\ c.sp = cpu.sp + 1
  BY <1>1, <1>2 DEF Caller, Context, Depths
<1>4. sched' = Jump(sched, c, "guest") /\ "guest" \in Places
  BY DEF Enter, Places
<1> HIDE DEF c
<1>5. /\ ThreadInv'
      /\ sched'.st = sched.st /\ sched'.cur = sched.cur
      /\ \A t \in Slots : t # sched.cur => Registers(t)' = Registers(t)
      /\ Registers(sched.cur)'.sp = c.sp /\ Registers(sched.cur)'.at = "guest"
      /\ cpu'.sp = c.sp /\ cpu'.at = "guest"
  BY <1>3, <1>4, CurrentMoves
<1>6. stack' = [stack EXCEPT ![sched.cur] =
                    [stack[sched.cur] EXCEPT ![cpu.sp + 1] = sentinel]]
  BY <1>1 DEF Enter
<1>7. stack[sched.cur] \in [1 .. StackSize -> Sentinels]
  BY <1>1
<1>8. /\ stack' \in [Slots -> [1 .. StackSize -> Sentinels]]
      /\ \A t \in Slots : t # sched.cur => stack'[t] = stack[t]
      /\ stack'[sched.cur] = [stack[sched.cur] EXCEPT ![cpu.sp + 1] = sentinel]
  BY <1>1, <1>6, <1>7
<1>9. /\ \A i \in 1 .. cpu.sp : stack'[sched.cur][i] = stack[sched.cur][i]
      /\ stack'[sched.cur][cpu.sp + 1] = sentinel
  <2> DEFINE n == cpu.sp
             f == stack[sched.cur]
  <2>1. \A i \in 1 .. n : i \in 1 .. StackSize /\ i # n + 1
    BY <1>2, ModalAssumption
  <2>2. n + 1 \in 1 .. StackSize /\ f \in [1 .. StackSize -> Sentinels]
    BY <1>2, <1>7
  <2>3. stack'[sched.cur] = [f EXCEPT ![n + 1] = sentinel]
    BY <1>8
  <2> HIDE DEF n, f
  <2>4. /\ \A i \in 1 .. n : stack'[sched.cur][i] = f[i]
        /\ stack'[sched.cur][n + 1] = sentinel
    BY <2>1, <2>2, <2>3
  <2> QED BY <2>4 DEF n, f
<1> QED BY <1>2, <1>3, <1>5, <1>8, <1>9

\* What the invariant says of the thread that runs.
LEMMA Current ==
    ASSUME IInv, sched.cur # NoThread
    PROVE  /\ sched.cur \in Slots /\ Alive(sched.cur)
           /\ sched.st[sched.cur] = "RUNNING"
           /\ Registers(sched.cur) = cpu /\ cpu.own = sched.cur
           /\ cpu \in Context /\ cpu.sp \in Nat
           /\ [own |-> cpu.own, sp |-> cpu.sp] \in Caller
BY ModalAssumption
DEF IInv, TypeOK, ThreadInv, Scheduler, cpu, OwnStack, CurrentInv, Alive, Registers,
    Context, Depths, Caller

LEMMA FrameTypes ==
    ASSUME TypeOK
    PROVE  /\ Len(s_callstack) \in Nat
           /\ DOMAIN s_callstack = 1 .. Len(s_callstack)
           /\ \A k \in DOMAIN s_callstack :
                /\ s_callstack[k] \in Caller
                /\ s_callstack[k].own \in Slots /\ s_callstack[k].sp \in Nat
<1>1. s_callstack \in Seq(Caller)
  BY DEF TypeOK
<1>2. \A k \in 1 .. Len(s_callstack) : s_callstack[k] \in Caller
  BY <1>1
<1>3. \A f \in Caller : f.own \in Slots /\ f.sp \in Nat
  BY ModalAssumption DEF Caller, Depths
<1> QED BY <1>1, <1>2, <1>3

-----------------------------------------------------------------------------
(* The steps of the current thread.                                        *)

\* A window procedure is called: its frame goes on top.
LEMMA WndprocCall ==
    ASSUME IInv, Running, sched.cur # NoThread, cpu.at # "dialog", CanCall,
           wg_call_wndproc,
           UNCHANGED <<estate, s_dlg_active, s_dlg_ret, nsdPause>>
    PROVE  IInv'
<1>1. /\ sched.cur \in Slots /\ Alive(sched.cur) /\ sched.st[sched.cur] = "RUNNING"
      /\ Registers(sched.cur) = cpu /\ cpu.own = sched.cur
      /\ cpu \in Context /\ cpu.sp \in Nat
      /\ [own |-> cpu.own, sp |-> cpu.sp] \in Caller
  BY Current
<1>2. TypeOK /\ ThreadInv /\ Enter("message") /\ "message" \in Sentinels
  BY DEF IInv, wg_call_wndproc, Sentinels
<1>3. /\ ThreadInv' /\ stack' \in [Slots -> [1 .. StackSize -> Sentinels]]
      /\ sched'.st = sched.st /\ sched'.cur = sched.cur
      /\ \A t \in Slots : t # sched.cur => Registers(t)' = Registers(t)
      /\ Registers(sched.cur)'.sp = cpu.sp + 1
      /\ Registers(sched.cur)'.at = "guest"
      /\ cpu'.sp = cpu.sp + 1 /\ cpu'.at = "guest"
      /\ \A t \in Slots : t # sched.cur => stack'[t] = stack[t]
      /\ \A i \in 1 .. cpu.sp : stack'[sched.cur][i] = stack[sched.cur][i]
      /\ stack'[sched.cur][cpu.sp + 1] = "message"
      /\ cpu.sp + 1 \in 1 .. StackSize
  BY <1>2, EnterFields
<1>4. /\ Len(s_callstack) \in Nat /\ DOMAIN s_callstack = 1 .. Len(s_callstack)
      /\ \A k \in DOMAIN s_callstack :
           /\ s_callstack[k] \in Caller
           /\ s_callstack[k].own \in Slots /\ s_callstack[k].sp \in Nat
  BY <1>2, FrameTypes
<1>5. PICK f \in Caller : f = [own |-> sched.cur, sp |-> cpu.sp]
  BY <1>1
<1>6. PICK n \in Nat : n = Len(s_callstack)
  BY <1>4
<1>7. /\ s_callstack' \in Seq(Caller) /\ Len(s_callstack') = n + 1
      /\ DOMAIN s_callstack' = 1 .. n + 1
      /\ \A k \in 1 .. n : s_callstack'[k] = s_callstack[k]
      /\ s_callstack'[n + 1] = f
  BY <1>1, <1>2, <1>5, <1>6 DEF wg_call_wndproc, TypeOK
<1>12. TypeOK'
  BY <1>2, <1>3, <1>6, <1>7, ModalAssumption DEF TypeOK, ThreadInv, CanCall
<1>13. DialogInv'
  <2>1. Parked' /\ Pauses'
    BY <1>3 DEF IInv, DialogInv, Parked, Pauses, Running, Owner
  <2>2. DialogOpen'
    BY <1>1, <1>2, <1>3 DEF IInv, DialogInv, DialogOpen, Owner, TypeOK, Caller
  <2>3. OnlyOwner'
    BY <1>1, <1>3 DEF IInv, DialogInv, OnlyOwner, Owner, Alive
  <2> QED BY <2>1, <2>2, <2>3 DEF DialogInv
<1>8. Framed'
  <2>1. ASSUME NEW t \in Slots, Alive(t)',
               NEW i \in 1 .. Registers(t)'.sp, stack'[t][i] = "message"
        PROVE  \E k \in 1 .. n + 1 : s_callstack'[k] = [own |-> t, sp |-> i - 1]
    <3>1. CASE t = sched.cur /\ i = cpu.sp + 1
      <4>1. f = [own |-> t, sp |-> i - 1]
        BY <1>1, <1>5, <3>1
      <4> QED BY <1>6, <1>7, <4>1
    <3>2. CASE ~(t = sched.cur /\ i = cpu.sp + 1)
      <4>1. Alive(t) /\ i \in 1 .. Registers(t).sp /\ stack[t][i] = "message"
        BY <1>1, <1>3, <2>1, <3>2 DEF Alive
      <4>2. PICK k \in 1 .. n : s_callstack[k] = [own |-> t, sp |-> i - 1]
        BY <1>4, <1>6, <4>1 DEF IInv, FrameInv, FramesMatch, Framed
      <4> QED BY <1>7, <4>2
    <3> QED BY <3>1, <3>2
  <2> QED BY <1>7, <2>1 DEF Framed
<1>9. InProgress'
  <2>1. ASSUME NEW k \in 1 .. n PROVE Pending(s_callstack[k])'
    <3>1. PICK g \in Caller : g = s_callstack[k]
      BY <1>4, <1>6
    <3>2. /\ g = s_callstack'[k] /\ g.own \in Slots /\ g.sp \in Nat /\ Pending(g)
      BY <1>4, <1>6, <1>7, <3>1 DEF IInv, FrameInv, FramesMatch, InProgress
    <3>3. Pending(g)'
      BY <1>1, <1>3, <3>2 DEF Alive, Pending
    <3> QED BY <3>2, <3>3 DEF Pending
  <2>2. Pending(f)'
    BY <1>1, <1>3, <1>5 DEF Pending, Alive
  <2>3. Pending(s_callstack[n + 1])'
    BY <1>7, <2>2 DEF Pending
  <2>4. \A k \in 1 .. n + 1 : k \in 1 .. n \/ k = n + 1
    OBVIOUS
  <2>5. \A k \in 1 .. n + 1 : Pending(s_callstack[k])'
    BY <2>1, <2>3, <2>4
  <2> QED BY <1>7, <2>5 DEF InProgress
<1>10. InOrder'
  <2>1. \A j \in 1 .. n : s_callstack[j].own = sched.cur => s_callstack[j].sp < cpu.sp
    BY <1>1, <1>4, <1>6 DEF IInv, FrameInv, FramesMatch, InProgress, Pending
  <2>2. f.own = sched.cur /\ f.sp = cpu.sp
    BY <1>5
  <2>3. \A j, k \in 1 .. n : j < k /\ s_callstack[j].own = s_callstack[k].own =>
            s_callstack[j].sp < s_callstack[k].sp
    BY <1>4, <1>6 DEF IInv, FrameInv, FramesMatch, InOrder
  <2>4. \A j, k \in 1 .. n + 1 : j < k => j \in 1 .. n /\ (k \in 1 .. n \/ k = n + 1)
    OBVIOUS
  <2> QED BY <1>7, <2>1, <2>2, <2>3, <2>4 DEF InOrder
<1>11. CurrentOnTop'
  <2>1. \A j, k \in 1 .. n : j < k /\ s_callstack[j].own = sched.cur =>
            s_callstack[k].own = sched.cur
    BY <1>4, <1>6 DEF IInv, FrameInv, CurrentOnTop
  <2>2. f.own = sched.cur
    BY <1>5
  <2>3. \A j, k \in 1 .. n + 1 : j < k => j \in 1 .. n /\ (k \in 1 .. n \/ k = n + 1)
    OBVIOUS
  <2> QED BY <1>3, <1>7, <2>1, <2>2, <2>3 DEF CurrentOnTop
<1> QED BY <1>3, <1>12, <1>13, <1>8, <1>9, <1>10, <1>11 DEF IInv, FrameInv, FramesMatch

\* Guest code that calls the engine is that of the current thread.
LEMMA AtGuest ==
    ASSUME IInv, cpu.at # "zero"
    PROVE  /\ TypeOK /\ ThreadInv
           /\ sched.cur # NoThread /\ sched.cur \in Slots /\ Alive(sched.cur)
           /\ sched.st[sched.cur] = "RUNNING"
           /\ Registers(sched.cur) = cpu /\ cpu.own = sched.cur
           /\ cpu \in Context /\ cpu.sp \in Nat /\ cpu.sp \in Depths
           /\ [own |-> cpu.own, sp |-> cpu.sp] \in Caller
<1>1. sched.cur # NoThread /\ TypeOK /\ ThreadInv
  BY DEF IInv, ThreadInv, CurrentInv
<1> QED BY <1>1, Current DEF Context

\* The frame on top is the one the returning window procedure was called from.
LEMMA TopFrame ==
    ASSUME IInv, cpu.at # "zero", cpu.sp > 0, stack[sched.cur][cpu.sp] = "message"
    PROVE  /\ Len(s_callstack) \in Nat \ {0}
           /\ s_callstack[Len(s_callstack)] \in Caller
           /\ s_callstack[Len(s_callstack)].own = sched.cur
           /\ s_callstack[Len(s_callstack)].sp = cpu.sp - 1
           /\ \A k \in 1 .. Len(s_callstack) - 1 :
                s_callstack[k].own = sched.cur => s_callstack[k].sp < cpu.sp - 1
<1>1. /\ TypeOK /\ sched.cur \in Slots /\ Alive(sched.cur)
      /\ Registers(sched.cur) = cpu /\ cpu.sp \in Nat
  BY AtGuest
<1>2. PICK n \in Nat : n = Len(s_callstack)
  BY <1>1, FrameTypes
<1>3. /\ DOMAIN s_callstack = 1 .. n
      /\ \A k \in 1 .. n : s_callstack[k] \in Caller /\ s_callstack[k].sp \in Nat
  BY <1>1, <1>2, FrameTypes
<1>4. PICK k \in 1 .. n : s_callstack[k] = [own |-> sched.cur, sp |-> cpu.sp - 1]
  <2>1. cpu.sp \in 1 .. Registers(sched.cur).sp
    BY <1>1
  <2> QED BY <1>1, <1>3, <2>1 DEF IInv, FrameInv, FramesMatch, Framed
<1>5. n \in 1 .. n /\ s_callstack[k].own = sched.cur /\ s_callstack[k].sp = cpu.sp - 1
  BY <1>2, <1>4
<1>6. s_callstack[n].own = sched.cur
  BY <1>3, <1>4, <1>5 DEF IInv, FrameInv, CurrentOnTop
<1>7. s_callstack[n].sp < cpu.sp
  BY <1>1, <1>3, <1>5, <1>6 DEF IInv, FrameInv, FramesMatch, InProgress, Pending
<1>8. k < n => s_callstack[k].sp < s_callstack[n].sp
  BY <1>3, <1>5, <1>6 DEF IInv, FrameInv, FramesMatch, InOrder
<1>9. k = n
  BY <1>1, <1>2, <1>3, <1>4, <1>5, <1>7, <1>8
<1>10. \A j \in 1 .. n - 1 : s_callstack[j].own = sched.cur => s_callstack[j].sp < cpu.sp - 1
  BY <1>2, <1>3, <1>5, <1>6, <1>9 DEF IInv, FrameInv, FramesMatch, InOrder
<1> QED BY <1>2, <1>3, <1>5, <1>9, <1>10

LEMMA MessageReturnsStep ==
    ASSUME IInv, MessageReturns
    PROVE  IInv'
<1>1. /\ TypeOK /\ ThreadInv
      /\ sched.cur # NoThread /\ sched.cur \in Slots /\ Alive(sched.cur)
      /\ Registers(sched.cur) = cpu /\ cpu.sp \in Nat /\ cpu.sp > 0 /\ cpu.own = sched.cur
      /\ stack[sched.cur][cpu.sp] = "message" /\ cpu.at # "zero"
  BY AtGuest DEF MessageReturns, Calling
<1>2. PICK n \in Nat : n = Len(s_callstack) /\ n > 0
  BY <1>1, TopFrame
<1>3. PICK f \in Caller : f = s_callstack[n] /\ f.own = sched.cur /\ f.sp = cpu.sp - 1
  BY <1>1, <1>2, TopFrame
<1>4. /\ DOMAIN s_callstack = 1 .. n /\ s_callstack \in Seq(Caller)
      /\ \A k \in 1 .. n : /\ s_callstack[k] \in Caller
                          /\ s_callstack[k].own \in Slots /\ s_callstack[k].sp \in Nat
      /\ \A k \in 1 .. n - 1 :
           s_callstack[k].own = sched.cur => s_callstack[k].sp < cpu.sp - 1
  BY <1>1, <1>2, FrameTypes, TopFrame DEF TypeOK
<1>5. /\ sched' = Jump(sched, f, "guest")
      /\ s_callstack' = SubSeq(s_callstack, 1, n - 1)
      /\ UNCHANGED <<estate, stack, s_dlg_active, s_dlg_ret, nsdPause>>
  BY <1>1, <1>2, <1>3, <1>4 DEF MessageReturns
<1>6. /\ s_callstack' \in Seq(Caller) /\ Len(s_callstack') = n - 1
      /\ DOMAIN s_callstack' = 1 .. n - 1
      /\ \A k \in 1 .. n - 1 : s_callstack'[k] = s_callstack[k]
  BY <1>2, <1>4, <1>5, SubSeqProperties
<1>7. "guest" \in Places /\ "guest" # "zero"
  BY DEF Places
<1>8. /\ ThreadInv'
      /\ sched'.st = sched.st /\ sched'.cur = sched.cur
      /\ \A t \in Slots : t # sched.cur => Registers(t)' = Registers(t)
      /\ Registers(sched.cur)'.sp = cpu.sp - 1 /\ Registers(sched.cur)'.at = "guest"
      /\ cpu'.sp = cpu.sp - 1 /\ cpu'.at = "guest"
  BY <1>1, <1>3, <1>5, <1>7, CurrentMoves
<1>9. TypeOK'
  BY <1>1, <1>2, <1>5, <1>6, <1>8, ModalAssumption DEF TypeOK, ThreadInv
<1>10. DialogInv'
  <2>1. Parked' /\ Pauses'
    BY <1>5, <1>8 DEF IInv, DialogInv, Parked, Pauses, MessageReturns, Calling, Running, Owner
  <2>2. DialogOpen'
    BY <1>1, <1>5, <1>8 DEF IInv, DialogInv, DialogOpen, Owner, TypeOK, Caller
  <2>3. OnlyOwner'
    BY <1>1, <1>5, <1>8 DEF IInv, DialogInv, OnlyOwner, Owner, Alive
  <2> QED BY <2>1, <2>2, <2>3 DEF DialogInv
<1>11. Framed'
  <2>1. ASSUME NEW t \in Slots, Alive(t)',
               NEW i \in 1 .. Registers(t)'.sp, stack'[t][i] = "message"
        PROVE  \E k \in 1 .. n - 1 : s_callstack'[k] = [own |-> t, sp |-> i - 1]
    <3>1. Alive(t) /\ i \in 1 .. Registers(t).sp /\ stack[t][i] = "message"
      BY <1>1, <1>5, <1>8, <2>1 DEF Alive
    <3>2. PICK k \in 1 .. n : s_callstack[k] = [own |-> t, sp |-> i - 1]
      BY <1>4, <3>1 DEF IInv, FrameInv, FramesMatch, Framed
    <3>3. k # n
      BY <1>1, <1>3, <1>8, <2>1, <3>2
    <3> QED BY <1>2, <1>6, <3>2, <3>3
  <2> QED BY <1>6, <2>1 DEF Framed
<1>12. InProgress'
  <2>1. ASSUME NEW k \in 1 .. n - 1 PROVE Pending(s_callstack[k])'
    <3>1. PICK g \in Caller : k \in 1 .. n /\ g = s_callstack[k]
      BY <1>2, <1>4
    <3>2. Pending(s_callstack[k])
      BY <1>4, <3>1 DEF IInv, FrameInv, FramesMatch, InProgress
    <3>3. /\ g = s_callstack'[k] /\ g.own \in Slots /\ g.sp \in Nat /\ Pending(g)
          /\ g.own = sched.cur => g.sp < cpu.sp - 1
      BY <1>4, <1>6, <3>1, <3>2 DEF Pending
    <3>4. Pending(g)'
      BY <1>1, <1>5, <1>8, <3>3 DEF Alive, Pending
    <3> QED BY <3>3, <3>4 DEF Pending
  <2> QED BY <1>6, <2>1 DEF InProgress
<1>13. InOrder' /\ CurrentOnTop'
  <2>1. \A k \in 1 .. n - 1 : k \in 1 .. n
    BY <1>2
  <2>2. InOrder /\ CurrentOnTop
    BY DEF IInv, FrameInv, FramesMatch
  <2> QED BY <1>4, <1>6, <1>8, <2>1, <2>2 DEF InOrder, CurrentOnTop
<1> QED BY <1>8, <1>9, <1>10, <1>11, <1>12, <1>13 DEF IInv, FrameInv, FramesMatch

\* A dialog is opened outside callbacks and when there is none.
LEMMA DialogBoxParamStep ==
    ASSUME CallbacksComplete, IInv, DialogBoxParam
    PROVE  IInv'
<1>1. Running /\ cpu.at = "guest" /\ cpu.sp = 0 /\ ~s_dlg_active
  BY DEF CallbacksComplete, DialogBoxParam, Calling
<1>2. /\ TypeOK /\ ThreadInv
      /\ sched.cur # NoThread /\ sched.cur \in Slots /\ Alive(sched.cur)
      /\ Registers(sched.cur) = cpu /\ cpu.own = sched.cur
      /\ [own |-> cpu.own, sp |-> cpu.sp] \in Caller
  BY <1>1, AtGuest
<1>3. /\ Enter("dialog") /\ "dialog" \in Sentinels
      /\ s_dlg_active' = TRUE /\ s_dlg_ret' = [own |-> sched.cur, sp |-> 0]
      /\ s_dlg_ret' \in Caller
      /\ estate' = estate /\ s_callstack' = s_callstack /\ nsdPause' = nsdPause
  BY <1>1, <1>2 DEF DialogBoxParam, Sentinels
<1>4. /\ ThreadInv' /\ stack' \in [Slots -> [1 .. StackSize -> Sentinels]]
      /\ sched'.st = sched.st /\ sched'.cur = sched.cur
      /\ \A t \in Slots : t # sched.cur => Registers(t)' = Registers(t)
      /\ Registers(sched.cur)'.sp = 1
      /\ Registers(sched.cur)'.at = "guest"
      /\ cpu'.sp = 1 /\ cpu'.at = "guest"
      /\ \A t \in Slots : t # sched.cur => stack'[t] = stack[t]
      /\ stack'[sched.cur][1] = "dialog"
  BY <1>1, <1>2, <1>3, EnterFields
<1>5. TypeOK'
  BY <1>2, <1>3, <1>4 DEF TypeOK, ThreadInv
<1>6. DialogInv'
  <2>1. Parked' /\ Pauses'
    BY <1>1, <1>3, <1>4 DEF IInv, DialogInv, Parked, Pauses, Running
  <2>2. s_dlg_ret'.own = sched.cur /\ s_dlg_ret'.sp = 0
    BY <1>3
  <2>3. DialogOpen'
    BY <1>3, <1>4, <2>2 DEF DialogOpen, Owner
  <2>4. OnlyOwner'
    BY <1>1, <1>2, <1>3, <1>4, <2>2 DEF IInv, DialogInv, OnlyOwner, Owner, Alive
  <2> QED BY <2>1, <2>3, <2>4 DEF DialogInv
<1>7. Framed'
  BY <1>1, <1>2, <1>3, <1>4 DEF IInv, FrameInv, FramesMatch, Framed, Alive
<1>8. InProgress'
  <2>1. ASSUME NEW k \in DOMAIN s_callstack PROVE Pending(s_callstack[k])'
    <3>1. PICK g \in Caller : g = s_callstack[k] /\ g.own \in Slots /\ g.sp \in Nat
      BY <1>2, FrameTypes
    <3>2. Pending(g)
      BY <3>1 DEF IInv, FrameInv, FramesMatch, InProgress
    <3>3. g.own # sched.cur
      BY <1>1, <1>2, <3>1, <3>2 DEF Pending
    <3>4. Pending(g)'
      BY <1>4, <3>1, <3>2, <3>3 DEF Pending, Alive
    <3> QED BY <1>3, <3>1, <3>4 DEF Pending
  <2> QED BY <1>3, <2>1 DEF InProgress
<1>9. InOrder' /\ CurrentOnTop'
  BY <1>3, <1>4 DEF IInv, FrameInv, FramesMatch, InOrder, CurrentOnTop
<1> QED BY <1>4, <1>5, <1>6, <1>7, <1>8, <1>9 DEF IInv, FrameInv, FramesMatch

\* Nothing changes but where the current thread is: below all its frames.
LEMMA FramesKept ==
    ASSUME IInv, UNCHANGED <<stack, s_callstack>>, sched.cur \in Slots,
           sched'.st = sched.st, sched'.cur = sched.cur,
           \A t \in Slots : t # sched.cur => Registers(t)' = Registers(t),
           Registers(sched.cur)'.sp <= Registers(sched.cur).sp,
           Registers(sched.cur)'.sp \in Nat, Registers(sched.cur).sp \in Nat,
           \A i \in Registers(sched.cur)'.sp + 1 .. Registers(sched.cur).sp :
               stack[sched.cur][i] # "message"
    PROVE  FrameInv'
<1>1. TypeOK /\ FramesMatch /\ CurrentOnTop
  BY DEF IInv, FrameInv
<1>2. Framed'
  BY <1>1 DEF FramesMatch, Framed, Alive
<1>3. InProgress'
  <2>1. ASSUME NEW k \in DOMAIN s_callstack PROVE Pending(s_callstack[k])'
    <3>1. PICK g \in Caller : g = s_callstack[k] /\ g.own \in Slots /\ g.sp \in Nat
      BY <1>1, FrameTypes
    <3>2. Pending(g)
      BY <1>1, <3>1 DEF FramesMatch, InProgress
    <3>3. CASE g.own = sched.cur
      BY <3>1, <3>2, <3>3 DEF Pending, Alive
    <3>4. CASE g.own # sched.cur
      BY <3>1, <3>2, <3>4 DEF Pending, Alive
    <3> QED BY <3>1, <3>3, <3>4 DEF Pending
  <2> QED BY <2>1 DEF InProgress
<1>4. InOrder' /\ CurrentOnTop'
  BY <1>1 DEF FramesMatch, InOrder, CurrentOnTop
<1> QED BY <1>2, <1>3, <1>4 DEF FrameInv, FramesMatch

LEMMA DialogSentinelStep ==
    ASSUME IInv, DialogSentinel
    PROVE  IInv'
<1>1. /\ \/ cpu.at = "dialog"
         \/ cpu.at = "guest" /\ cpu.sp > 0 /\ stack[cpu.own][cpu.sp] = "dialog"
      /\ sched' = IF cpu.at = "dialog" THEN sched ELSE Jump(sched, Popped, "dialog")
      /\ estate' = "PAUSED"
      /\ UNCHANGED <<stack, s_callstack, s_dlg_active, s_dlg_ret, nsdPause>>
  BY DEF DialogSentinel, Calling
<1>2. /\ TypeOK /\ ThreadInv
      /\ sched.cur # NoThread /\ sched.cur \in Slots /\ Alive(sched.cur)
      /\ Registers(sched.cur) = cpu /\ cpu.own = sched.cur
      /\ cpu.sp \in Nat /\ cpu.sp \in Depths
  BY <1>1, AtGuest
<1>3. /\ s_dlg_active /\ Owner = sched.cur
      /\ cpu.at = "dialog" => cpu.sp = 0
      /\ cpu.at # "dialog" => cpu.sp = 1 /\ stack[sched.cur][1] = "dialog"
  <2>1. cpu.at # "dialog" => cpu.sp \in 1 .. Registers(sched.cur).sp
    BY <1>1, <1>2
  <2> QED BY <1>1, <1>2, <2>1 DEF IInv, DialogInv, OnlyOwner
<1>4. /\ ThreadInv'
      /\ sched'.st = sched.st /\ sched'.cur = sched.cur
      /\ \A t \in Slots : t # sched.cur => Registers(t)' = Registers(t)
      /\ Registers(sched.cur)'.sp = 0 /\ Registers(sched.cur)'.at = "dialog"
      /\ cpu'.at = "dialog"
  <2>1. CASE cpu.at = "dialog"
    <3>1. sched' = sched
      BY <1>1, <2>1
    <3> QED BY <1>2, <1>3, <2>1, <3>1
         DEF ThreadInv, OwnStack, CurrentInv, AtRest, Alive, Registers, cpu
  <2>2. CASE cpu.at # "dialog"
    <3>1. Popped \in Caller /\ Popped.own = sched.cur /\ Popped.sp = 0
      BY <1>2, <1>3, <2>2, ModalAssumption DEF Popped, Caller, Depths
    <3>2. "dialog" \in Places /\ "dialog" # "zero"
      BY DEF Places
    <3> QED BY <1>1, <1>2, <2>2, <3>1, <3>2, CurrentMoves
  <2> QED BY <2>1, <2>2
<1>5. TypeOK'
  BY <1>1, <1>2, <1>4 DEF TypeOK, ThreadInv
<1>6. DialogInv'
  <2>1. Parked' /\ Pauses'
    BY <1>1, <1>2, <1>3, <1>4 DEF IInv, DialogInv, Parked, Pauses, Owner
  <2>2. DialogOpen'
    BY <1>1, <1>3, <1>4 DEF IInv, DialogInv, DialogOpen, Owner
  <2>3. OnlyOwner'
    BY <1>1, <1>2, <1>3, <1>4 DEF IInv, DialogInv, OnlyOwner, Owner, Alive
  <2> QED BY <2>1, <2>2, <2>3 DEF DialogInv
<1>7. FrameInv'
  <2>1. \A i \in 1 .. cpu.sp : stack[sched.cur][i] # "message"
    BY <1>2, <1>3
  <2> QED BY <1>1, <1>2, <1>4, <2>1, FramesKept
<1> QED BY <1>4, <1>5, <1>6, <1>7 DEF IInv

\* EndDialog empties the one stack of frames; only the owner can be in a callback.
LEMMA EndDialogStep ==
    ASSUME IInv, EndDialog
    PROVE  IInv'
<1>1. /\ Running /\ cpu.at = "guest" /\ s_dlg_active /\ Owner = cpu.own
      /\ s_dlg_active' = FALSE /\ s_callstack' = <<>>
      /\ sched' = Jump(sched, s_dlg_ret, "guest")
      /\ UNCHANGED <<estate, stack, s_dlg_ret, nsdPause>>
  BY DEF EndDialog, Calling, Owner
<1>2. /\ TypeOK /\ ThreadInv
      /\ sched.cur # NoThread /\ sched.cur \in Slots /\ Alive(sched.cur)
      /\ sched.st[sched.cur] = "RUNNING"
      /\ Registers(sched.cur) = cpu /\ cpu.own = sched.cur
  BY <1>1, AtGuest
<1>3. s_dlg_ret \in Caller /\ s_dlg_ret.own = sched.cur /\ s_dlg_ret.sp = 0
  BY <1>1, <1>2 DEF IInv, DialogInv, DialogOpen, Owner, TypeOK
<1>4. "guest" \in Places /\ "guest" # "zero"
  BY DEF Places
<1>5. /\ ThreadInv'
      /\ sched'.st = sched.st /\ sched'.cur = sched.cur
      /\ \A t \in Slots : t # sched.cur => Registers(t)' = Registers(t)
      /\ Registers(sched.cur)'.sp = 0 /\ Registers(sched.cur)'.at = "guest"
      /\ cpu'.at = "guest"
  BY <1>1, <1>2, <1>3, <1>4, CurrentMoves
<1>6. /\ s_callstack' \in Seq(Caller) /\ Len(s_callstack') = 0
      /\ DOMAIN s_callstack' = {}
  BY <1>1
<1>7. TypeOK'
  <2>1. /\ UNCHANGED <<estate, stack, s_dlg_ret, nsdPause>> /\ s_dlg_active' \in BOOLEAN
        /\ sched' \in Scheduler(Context)
    BY <1>1, <1>5 DEF ThreadInv
  <2>2. s_callstack' \in Seq(Caller) /\ Len(s_callstack') <= MaxCalls
    BY <1>6, ModalAssumption
  <2> QED BY <1>2, <2>1, <2>2 DEF TypeOK
\* No thread is parked, so that all the others are outside callbacks.
<1>8. \A t \in Slots : t # sched.cur /\ Alive(t) => Registers(t) = NewContext(t)
  <2>1. \A t \in Slots : sched.st[t] # "WAITING"
    BY <1>1, <1>2 DEF IInv, DialogInv, Parked
  <2> QED BY <1>2, <2>1 DEF ThreadInv, AtRest, Registers, Alive
<1>9. \A t \in Slots : Alive(t)' => Registers(t)'.sp = 0 /\ Registers(t)'.at # "dialog"
  BY <1>5, <1>8 DEF Alive, NewContext
<1>10. DialogInv'
  <2>1. Parked' /\ Pauses'
    BY <1>1, <1>2, <1>5 DEF IInv, DialogInv, Parked, Pauses, Owner, Running
  <2>2. DialogOpen' /\ OnlyOwner'
    BY <1>1, <1>9 DEF DialogOpen, OnlyOwner
  <2> QED BY <2>1, <2>2 DEF DialogInv
<1>11. FrameInv'
  BY <1>6, <1>9 DEF FrameInv, FramesMatch, Framed, InProgress, InOrder, CurrentOnTop
<1> QED BY <1>5, <1>7, <1>10, <1>11 DEF IInv

\* The engine starts or stops to wait; nothing else changes.
LEMMA OnlyPauses ==
    ASSUME IInv, UNCHANGED <<sched, stack, s_callstack, s_dlg_active, s_dlg_ret>>,
           estate' \in {"RUNNING", "PAUSED", "STOPPED"}, nsdPause' \in BOOLEAN,
           Pauses'
    PROVE  IInv'
<1>1. TypeOK' /\ ThreadInv'
  BY DEF IInv, TypeOK, ThreadInv, OwnStack, CurrentInv, AtRest, Alive, Registers, cpu
<1>2. DialogInv'
  BY DEF IInv, DialogInv, Parked, DialogOpen, OnlyOwner, Owner, Alive, Registers, cpu
<1>3. FrameInv'
  BY DEF IInv, FrameInv, FramesMatch, Framed, InProgress, InOrder, CurrentOnTop, Pending,
     Alive, Registers, cpu
<1> QED BY <1>1, <1>2, <1>3 DEF IInv

LEMMA NsdShowStep ==
    ASSUME IInv, NsdShow
    PROVE  IInv'
<1>1. /\ cpu.at = "guest" /\ s_dlg_active /\ estate' = "PAUSED" /\ nsdPause' = TRUE
      /\ UNCHANGED <<sched, stack, s_callstack, s_dlg_active, s_dlg_ret>>
  BY DEF NsdShow, Calling
<1>2. sched.cur # NoThread
  BY <1>1, AtGuest
<1> QED BY <1>1, <1>2, OnlyPauses DEF Pauses

LEMMA TapStep ==
    ASSUME IInv, Tap
    PROVE  IInv'
<1>1. /\ s_dlg_active /\ estate = "PAUSED" /\ estate' = "RUNNING" /\ nsdPause' = FALSE
      /\ nsdPause => UNCHANGED <<sched, stack>>
      /\ ~nsdPause => Enter("dialog")
      /\ UNCHANGED <<s_callstack, s_dlg_active, s_dlg_ret>>
  BY DEF Tap
<1>2. sched.cur # NoThread /\ (nsdPause \/ cpu.at = "dialog")
  BY <1>1 DEF IInv, DialogInv, Pauses
<1>3. CASE nsdPause
  <2>1. UNCHANGED <<sched, stack, s_callstack, s_dlg_active, s_dlg_ret>>
    BY <1>1, <1>3
  <2> QED BY <1>1, <2>1, OnlyPauses DEF Pauses
<1>4. CASE ~nsdPause
  <2>1. /\ TypeOK /\ ThreadInv
        /\ sched.cur \in Slots /\ Alive(sched.cur)
        /\ Registers(sched.cur) = cpu /\ cpu.own = sched.cur /\ cpu.at = "dialog"
    BY <1>2, <1>4, AtGuest
  <2>2. Owner = sched.cur /\ cpu.sp = 0
    BY <2>1 DEF IInv, DialogInv, OnlyOwner
  <2>3. Enter("dialog") /\ "dialog" \in Sentinels
    BY <1>1, <1>4 DEF Sentinels
  <2>4. /\ ThreadInv' /\ stack' \in [Slots -> [1 .. StackSize -> Sentinels]]
        /\ sched'.st = sched.st /\ sched'.cur = sched.cur
        /\ \A t \in Slots : t # sched.cur => Registers(t)' = Registers(t)
        /\ Registers(sched.cur)'.sp = 1
        /\ Registers(sched.cur)'.at = "guest"
        /\ \A t \in Slots : t # sched.cur => stack'[t] = stack[t]
        /\ stack'[sched.cur][1] = "dialog"
    BY <1>2, <2>1, <2>2, <2>3, EnterFields
  <2>5. TypeOK'
    BY <1>1, <2>1, <2>4 DEF TypeOK, ThreadInv
  <2>6. DialogInv'
    <3>1. Parked' /\ Pauses'
      BY <1>1, <2>4 DEF IInv, DialogInv, Parked, Pauses, Owner
    <3>2. DialogOpen' /\ OnlyOwner'
      BY <1>1, <2>1, <2>2, <2>4 DEF IInv, DialogInv, DialogOpen, OnlyOwner, Owner, Alive
    <3> QED BY <3>1, <3>2 DEF DialogInv
  <2>7. Framed'
    BY <1>1, <2>1, <2>2, <2>4 DEF IInv, FrameInv, FramesMatch, Framed, Alive
  <2>8. InProgress'
    <3>1. ASSUME NEW k \in DOMAIN s_callstack PROVE Pending(s_callstack[k])'
      <4>1. PICK g \in Caller : g = s_callstack[k] /\ g.own \in Slots /\ g.sp \in Nat
        BY <2>1, FrameTypes
      <4>2. Pending(g) /\ g.own # sched.cur
        BY <2>1, <2>2, <4>1 DEF IInv, FrameInv, FramesMatch, InProgress, Pending
      <4>3. Pending(g)'
        BY <2>4, <4>1, <4>2 DEF Pending, Alive
      <4> QED BY <1>1, <4>1, <4>3 DEF Pending
    <3> QED BY <1>1, <3>1 DEF InProgress
  <2>9. InOrder' /\ CurrentOnTop'
    BY <1>1, <2>4 DEF IInv, FrameInv, FramesMatch, InOrder, CurrentOnTop
  <2> QED BY <2>4, <2>5, <2>6, <2>7, <2>8, <2>9 DEF IInv, FrameInv, FramesMatch
<1> QED BY <1>3, <1>4

\* The instruction pointer of the current thread moves outside dialogs: to
\* CreateThread again, or, outside callbacks, to address zero.
LEMMA GoToStep ==
    ASSUME IInv, Running, cpu.at \in {"guest", "CreateThread"},
           NEW p \in {"CreateThread", "zero"}, p = "zero" => cpu.sp = 0,
           sched' = GoTo(sched, p),
           UNCHANGED <<estate, stack, s_callstack, s_dlg_active, s_dlg_ret, nsdPause>>
    PROVE  IInv'
<1> DEFINE c == [own |-> cpu.own, sp |-> cpu.sp]
<1>1. /\ TypeOK /\ ThreadInv
      /\ sched.cur # NoThread /\ sched.cur \in Slots /\ Alive(sched.cur)
      /\ Registers(sched.cur) = cpu /\ cpu.own = sched.cur /\ cpu.sp \in Nat
      /\ c \in Caller
  BY AtGuest
<1>2. sched' = Jump(sched, c, p) /\ c.own = sched.cur /\ c.sp = cpu.sp /\ p \in Places
  BY <1>1 DEF GoTo, Jump, cpu, Places
<1> HIDE DEF c
<1>3. /\ ThreadInv'
      /\ sched'.st = sched.st /\ sched'.cur = sched.cur
      /\ \A t \in Slots : t # sched.cur => Registers(t)' = Registers(t)
      /\ Registers(sched.cur)'.sp = cpu.sp /\ Registers(sched.cur)'.at = p
  BY <1>1, <1>2, CurrentMoves
<1>4. TypeOK'
  BY <1>1, <1>3 DEF TypeOK, ThreadInv
<1>5. DialogInv'
  <2>1. Parked' /\ Pauses'
    BY <1>3 DEF IInv, DialogInv, Parked, Pauses, Owner, Running
  <2>2. DialogOpen'
    BY <1>1, <1>3 DEF IInv, DialogInv, DialogOpen, Owner, TypeOK, Caller
  <2>3. OnlyOwner'
    BY <1>1, <1>3 DEF IInv, DialogInv, OnlyOwner, Owner, Alive
  <2> QED BY <2>1, <2>2, <2>3 DEF DialogInv
<1>6. FrameInv'
  BY <1>1, <1>3, FramesKept
<1> QED BY <1>3, <1>4, <1>5, <1>6 DEF IInv

LEMMA ProgramEndedStep ==
    ASSUME IInv, TickProgramEnded
    PROVE  IInv'
BY OnlyPauses DEF IInv, TypeOK, TickProgramEnded, Pauses

-----------------------------------------------------------------------------
(* The steps that pass the processor on.                                   *)

\* What such a step must not do: move a thread, take the owner of the dialog or
\* a thread inside callbacks out of the table, or resume one that was parked.
Hands ==
    /\ UNCHANGED <<stack, s_callstack, s_dlg_active, s_dlg_ret, nsdPause>>
    /\ estate' \in {"RUNNING", "STOPPED"}
    /\ sched' \in Scheduler(Context) /\ AtRest'
    /\ \A t \in Slots : sched'.waitOn[t] = 0
    /\ \A t \in Slots : Alive(t)' =>
         \/ Alive(t) /\ Registers(t)' = Registers(t)
         \/ sched.st[t] = "FREE" /\ Registers(t)' = NewContext(t)
    /\ \A t \in Slots : Alive(t) /\ ~Alive(t)' => Registers(t).sp = 0
    /\ \A t \in Slots : sched.st[t] = "WAITING" => sched'.st[t] = "WAITING"
    /\ \A t \in Slots : sched'.st[t] = "WAITING" =>
         sched.st[t] = "WAITING" \/ (t = sched.cur /\ s_dlg_active)
    /\ s_dlg_active /\ Owner = sched.cur =>
         sched'.cur = sched.cur \/ sched'.st[sched.cur] = "WAITING"
    /\ sched'.cur # NoThread =>
         /\ sched'.st[sched'.cur] = "RUNNING"
         /\ sched'.cur = sched.cur \/ sched'.cpu = NewContext(sched'.cur)
    /\ sched'.cur = NoThread => sched'.cpu.at = "zero"
    /\ sched'.cpu.at = "zero" => sched'.cpu.sp = 0

LEMMA HandsStep ==
    ASSUME IInv, Hands
    PROVE  IInv'
<1>1. /\ TypeOK /\ ThreadInv /\ DialogInv /\ FrameInv /\ OwnStack /\ CurrentInv
      /\ sched \in Scheduler(Context) /\ s_dlg_ret.own \in Slots
      /\ sched'.cur \in Slots \cup {NoThread}
  BY DEF IInv, ThreadInv, TypeOK, Caller, Hands, Scheduler
<1>2. TypeOK'
  BY <1>1 DEF TypeOK, Hands
<1>3. \A t \in Slots : NewContext(t).own = t /\ NewContext(t).sp = 0 /\ NewContext(t).at = "guest"
  BY DEF NewContext
<1>4. OwnStack'
  BY <1>1, <1>3 DEF Hands, OwnStack
<1>5. CurrentInv'
  BY DEF Hands, CurrentInv, cpu
<1>6. ThreadInv'
  BY <1>4, <1>5 DEF Hands, ThreadInv
<1>7. s_dlg_active => Alive(Owner) /\ sched.st[Owner] # "FREE" /\ Alive(Owner)'
  <2>1. s_dlg_active => Owner = sched.cur \/ sched.st[Owner] = "WAITING"
    BY <1>1 DEF DialogInv, DialogOpen
  <2>2. s_dlg_active /\ sched.st[Owner] = "WAITING" => sched'.st[Owner] = "WAITING"
    BY <1>1 DEF Hands, Owner
  <2>3. s_dlg_active /\ Owner = sched.cur =>
            /\ sched.st[Owner] = "RUNNING"
            /\ sched'.st[Owner] = "WAITING" \/ sched'.st[Owner] = "RUNNING"
    BY <1>1, SlotFacts DEF Hands, CurrentInv, Owner
  <2> QED BY <2>1, <2>2, <2>3 DEF Alive, Hands, Owner
<1>8. DialogInv'
  <2>1. Parked' /\ Pauses'
    BY <1>1 DEF Hands, DialogInv, Parked, DialogOpen, Pauses, Owner
  <2>2. DialogOpen'
    BY <1>1, <1>7 DEF Hands, DialogInv, DialogOpen, Owner
  <2>3. OnlyOwner'
    BY <1>1, <1>3 DEF Hands, DialogInv, OnlyOwner, Owner
  <2> QED BY <2>1, <2>2, <2>3 DEF DialogInv
<1>9. Framed'
  BY <1>1, <1>3 DEF Hands, FrameInv, FramesMatch, Framed
<1>10. \A k \in DOMAIN s_callstack : s_callstack[k].own \in Slots /\ s_callstack[k].sp \in Nat
  BY <1>1, FrameTypes
<1>11. \A k \in DOMAIN s_callstack :
          Alive(s_callstack[k].own)' /\ Registers(s_callstack[k].own)' = Registers(s_callstack[k].own)
  BY <1>1, <1>10 DEF Hands, FrameInv, FramesMatch, InProgress, Pending, Alive
<1>12. InProgress'
  BY <1>1, <1>11 DEF Hands, FrameInv, FramesMatch, InProgress, Pending
<1>13. InOrder' /\ CurrentOnTop'
  <2>1. ASSUME NEW k \in DOMAIN s_callstack, s_callstack[k].own = sched'.cur,
               sched'.cur # sched.cur
        PROVE  FALSE
    <3>1. PICK o \in Slots : o = s_callstack[k].own
      BY <1>10
    <3>2. o = sched'.cur /\ o # NoThread
      BY <2>1, <3>1, SlotFacts
    <3>3. Registers(o)' = NewContext(o)
      BY <2>1, <3>2 DEF Hands, Registers, cpu
    <3>4. s_callstack' = s_callstack
      BY DEF Hands
    <3>5. Registers(o)' = Registers(o)
      BY <1>11, <3>1, <3>4
    <3>6. Registers(o).sp = 0
      BY <1>3, <3>3, <3>5
    <3> QED BY <1>1, <1>10, <3>1, <3>6 DEF FrameInv, FramesMatch, InProgress, Pending
  <2> QED BY <1>1, <2>1 DEF Hands, FrameInv, FramesMatch, InOrder, CurrentOnTop
<1> QED BY <1>2, <1>6, <1>8, <1>9, <1>12, <1>13 DEF IInv, FrameInv, FramesMatch

\* A thread outside callbacks that is not at the dialog sentinel has opened no
\* dialog.
LEMMA NotOwner ==
    ASSUME IInv, cpu.sp = 0, cpu.at # "dialog"
    PROVE  ~(s_dlg_active /\ Owner = sched.cur)
<1>1. CASE sched.cur = NoThread
  <2>1. s_dlg_ret.own \in Slots
    BY DEF IInv, TypeOK, Caller
  <2> QED BY <1>1, <2>1, SlotFacts DEF Owner
<1>2. CASE sched.cur # NoThread
  BY <1>2, Current DEF IInv, DialogInv, DialogOpen
<1> QED BY <1>1, <1>2

\* The saved registers of a thread that can be picked.
LEMMA ReadyAtRest ==
    ASSUME IInv
    PROVE  /\ \A t \in Slots : sched.st[t] \in {"READY", "FREE"} =>
                t # sched.cur /\ sched.regs[t] = NewContext(t)
           /\ sched \in Scheduler(Context) /\ sched.cur \in Slots \cup {NoThread}
           /\ \A t \in Slots : sched.waitOn[t] = 0
<1>1. sched \in Scheduler(Context) /\ AtRest /\ CurrentInv
  BY DEF IInv, ThreadInv
<1> QED BY <1>1, SlotFacts DEF AtRest, CurrentInv, Scheduler

LEMMA NewContextType == \A t \in Slots : NewContext(t) \in Context
BY ModalAssumption DEF NewContext, Context, Depths

LEMMA SleepHands ==
    ASSUME CallbacksComplete, IInv, Sleep
    PROVE  Hands
<1>1. /\ Running /\ cpu.at = "guest" /\ cpu.sp = 0
      /\ sched' = Yield(sched, "READY")
      /\ UNCHANGED <<estate, stack, s_callstack, s_dlg_active, s_dlg_ret, nsdPause>>
  BY DEF CallbacksComplete, Sleep, Calling
<1>2. /\ sched.cur # NoThread /\ sched.cur \in Slots
      /\ sched.st[sched.cur] = "RUNNING"
      /\ Registers(sched.cur) = cpu /\ cpu.own = sched.cur /\ cpu \in Context
  BY <1>1, AtGuest
<1>3. sched.cpu = NewContext(sched.cur)
  BY <1>1, <1>2 DEF NewContext, Context, cpu
<1>4. /\ \A t \in Slots : sched.st[t] = "READY" =>
           t # sched.cur /\ sched.regs[t] = NewContext(t)
      /\ sched \in Scheduler(Context)
      /\ \A t \in Slots : sched.waitOn[t] = 0
  BY ReadyAtRest
<1>5. /\ sched' \in Scheduler(Context)
      /\ sched'.cur \in Slots
      /\ sched'.waitOn = sched.waitOn
      /\ \A i \in Slots :
           /\ sched'.regs[i] = IF i = sched.cur THEN sched.cpu ELSE sched.regs[i]
           /\ sched'.st[i] = IF i = sched'.cur THEN "RUNNING"
                             ELSE IF i = sched.cur THEN "READY" ELSE sched.st[i]
      /\ sched'.cpu = sched'.regs[sched'.cur]
      /\ sched'.cur # sched.cur => sched.st[sched'.cur] = "READY"
  BY <1>1, <1>2, <1>4, YieldFields
<1>6. AtRest'
  BY <1>2, <1>3, <1>5 DEF AtRest, IInv, ThreadInv
<1>7. \A t \in Slots :
        /\ Alive(t)' <=> Alive(t)
        /\ Alive(t) => Registers(t)' = Registers(t)
  BY <1>2, <1>5 DEF Alive, Registers, cpu
<1>8. sched'.cpu = NewContext(sched'.cur)
  BY <1>2, <1>3, <1>4, <1>5
<1>9. sched'.cpu.at = "guest"
  BY <1>8 DEF NewContext
<1>10. \A t \in Slots : sched.st[t] = "WAITING" <=> sched'.st[t] = "WAITING"
  BY <1>2, <1>5
<1> QED
  BY <1>1, <1>4, <1>5, <1>6, <1>7, <1>8, <1>9, <1>10, NotOwner, SlotFacts DEF Hands, Running

LEMMA ExitThreadHands ==
    ASSUME CallbacksComplete, IInv, ExitThreadCall
    PROVE  Hands
<1> DEFINE x == ExitThread(sched)
<1>1. /\ Running /\ cpu.at = "guest" /\ cpu.sp = 0
      /\ sched' = IF x.cur = NoThread THEN GoTo(x, "zero") ELSE x
      /\ UNCHANGED <<estate, stack, s_callstack, s_dlg_active, s_dlg_ret, nsdPause>>
  BY DEF CallbacksComplete, ExitThreadCall, Calling
<1>2. /\ sched.cur # NoThread /\ sched.cur \in Slots
      /\ sched.st[sched.cur] = "RUNNING"
      /\ Registers(sched.cur) = cpu /\ cpu \in Context
      /\ [own |-> cpu.own, sp |-> cpu.sp] \in Caller
  BY <1>1, AtGuest
<1>3. /\ \A t \in Slots : sched.st[t] = "READY" =>
           t # sched.cur /\ sched.regs[t] = NewContext(t)
      /\ sched \in Scheduler(Context)
      /\ \A t \in Slots : sched.waitOn[t] = 0
  BY ReadyAtRest
<1>4. /\ x \in Scheduler(Context)
      /\ x.waitOn = sched.waitOn /\ x.regs = sched.regs
      /\ x.cur = NoThread => x.cpu = sched.cpu
      /\ x.cur # NoThread =>
           /\ x.cur \in Slots \ {sched.cur}
           /\ sched.st[x.cur] = "READY"
           /\ x.cpu = sched.regs[x.cur]
      /\ \A i \in Slots :
           x.st[i] = IF i = sched.cur THEN "EXITED"
                     ELSE IF i = x.cur THEN "RUNNING" ELSE sched.st[i]
  BY <1>2, <1>3, ExitThreadFields
<1> HIDE DEF x
<1>5. /\ sched' \in Scheduler(Context) /\ sched'.st = x.st /\ sched'.cur = x.cur
      /\ sched'.waitOn = x.waitOn /\ sched'.regs = x.regs
      /\ x.cur # NoThread => sched'.cpu = x.cpu
      /\ x.cur = NoThread => sched'.cpu.at = "zero" /\ sched'.cpu.sp = 0
  <2>1. CASE x.cur = NoThread
    <3> DEFINE c == [own |-> cpu.own, sp |-> cpu.sp]
    <3>1. sched' = Jump(x, c, "zero") /\ c \in Caller /\ c.sp = 0 /\ "zero" \in Places
      BY <1>1, <1>2, <1>4, <2>1 DEF GoTo, Jump, cpu, Places
    <3> HIDE DEF c
    <3>2. /\ Jump(x, c, "zero") \in Scheduler(Context)
          /\ Jump(x, c, "zero").st = x.st /\ Jump(x, c, "zero").cur = x.cur
          /\ Jump(x, c, "zero").waitOn = x.waitOn /\ Jump(x, c, "zero").regs = x.regs
          /\ Jump(x, c, "zero").cpu.sp = c.sp /\ Jump(x, c, "zero").cpu.at = "zero"
      <4>1. x \in Scheduler(Context) /\ c \in Caller /\ "zero" \in Places
        BY <1>4, <3>1
      <4> QED BY <4>1, JumpFields
    <3> QED BY <2>1, <3>1, <3>2
  <2>2. CASE x.cur # NoThread
    BY <1>1, <1>4, <2>2
  <2> QED BY <2>1, <2>2
<1>6. AtRest'
  BY <1>2, <1>4, <1>5 DEF AtRest, IInv, ThreadInv
<1>7. \A t \in Slots :
        /\ Alive(t)' => Alive(t) /\ Registers(t)' = Registers(t)
        /\ Alive(t) /\ ~Alive(t)' => t = sched.cur /\ Registers(t).sp = 0
  BY <1>1, <1>2, <1>4, <1>5, SlotFacts DEF Alive, Registers, cpu
<1>8. sched'.cur # NoThread => sched'.cpu = NewContext(sched'.cur)
  BY <1>3, <1>4, <1>5
<1>9. sched'.cur # NoThread => sched'.cpu.at = "guest"
  BY <1>8 DEF NewContext
<1>10. \A t \in Slots : sched.st[t] = "WAITING" <=> sched'.st[t] = "WAITING"
  BY <1>2, <1>4, <1>5, SlotFacts
<1> QED
  BY <1>1, <1>2, <1>3, <1>4, <1>5, <1>6, <1>7, <1>8, <1>9, <1>10, NotOwner, SlotFacts
  DEF Hands, Running

\* The tick after a thread function returned: the thread exits, which already
\* picks the next one, those who wait for it are woken, and another is picked.
LEMMA ThreadEndedHands ==
    ASSUME IInv, TickThreadEnded
    PROVE  Hands
<1> DEFINE x == ExitThread(sched)
           w == Wake(x, ThreadHandle(sched.cur))
           z == SwitchNext(w)
<1>1. /\ Running /\ cpu.at = "zero" /\ sched.cur # NoThread
      /\ sched' = z /\ estate' \in {"RUNNING", "STOPPED"}
      /\ UNCHANGED <<stack, s_callstack, s_dlg_active, s_dlg_ret, nsdPause>>
  BY DEF TickThreadEnded, Running
<1>2. /\ sched.cur \in Slots /\ sched.st[sched.cur] = "RUNNING"
      /\ Registers(sched.cur) = cpu /\ cpu.sp = 0
  BY <1>1, Current DEF IInv, ThreadInv, CurrentInv
<1>3. /\ \A t \in Slots : sched.st[t] = "READY" =>
           t # sched.cur /\ sched.regs[t] = NewContext(t)
      /\ sched \in Scheduler(Context)
      /\ \A t \in Slots : sched.waitOn[t] = 0
  BY ReadyAtRest
<1>4. /\ x \in Scheduler(Context)
      /\ x.waitOn = sched.waitOn /\ x.regs = sched.regs
      /\ x.cur = NoThread => x.cpu = sched.cpu
      /\ x.cur # NoThread =>
           /\ x.cur \in Slots \ {sched.cur}
           /\ sched.st[x.cur] = "READY"
           /\ x.cpu = sched.regs[x.cur]
      /\ \A i \in Slots :
           x.st[i] = IF i = sched.cur THEN "EXITED"
                     ELSE IF i = x.cur THEN "RUNNING" ELSE sched.st[i]
  BY <1>1, <1>3, ExitThreadFields
<1>5. ThreadHandle(sched.cur) # 0
  BY <1>2, MaxThreadsAssumption DEF ThreadHandle, Slots, Main
<1> HIDE DEF x
<1>6. /\ w \in Scheduler(Context)
      /\ w.cur = x.cur /\ w.cpu = x.cpu /\ w.regs = x.regs
      /\ \A i \in Slots : w.st[i] = x.st[i] /\ w.waitOn[i] = 0
  <2>1. /\ w \in Scheduler(Context)
        /\ w.cur = x.cur /\ w.cpu = x.cpu /\ w.regs = x.regs
        /\ \A i \in Slots :
             IF x.st[i] = "WAITING" /\ x.waitOn[i] = ThreadHandle(sched.cur)
             THEN w.st[i] = "READY" /\ w.waitOn[i] = 0
             ELSE w.st[i] = x.st[i] /\ w.waitOn[i] = x.waitOn[i]
    BY <1>4, WakeFields
  <2> HIDE DEF w
  <2> QED BY <1>3, <1>4, <1>5, <2>1
<1> HIDE DEF w
<1>7. /\ z \in Scheduler(Context)
      /\ z.waitOn = w.waitOn /\ z.regs = w.regs
      /\ z = w \/ /\ z.cur \in Slots /\ w.st[z.cur] = "READY"
                  /\ z.st = [w.st EXCEPT ![z.cur] = "RUNNING"]
                  /\ z.cpu = w.regs[z.cur]
  BY <1>6, SwitchNextFields
<1> HIDE DEF z
<1>8. w.st \in [Slots -> ThreadState]
  BY <1>6 DEF Scheduler
\* In short: everybody but the thread that ended keeps its registers, and whoever
\* is picked was READY.
<1>9. /\ sched' \in Scheduler(Context)
      /\ sched'.regs = sched.regs
      /\ \A t \in Slots : sched'.waitOn[t] = 0
      /\ sched'.cur = NoThread => sched'.cpu = sched.cpu
      /\ sched'.cur # NoThread =>
           /\ sched'.cur \in Slots \ {sched.cur}
           /\ sched.st[sched'.cur] = "READY"
           /\ sched'.st[sched'.cur] = "RUNNING"
           /\ sched'.cpu = sched.regs[sched'.cur]
      /\ \A i \in Slots : i # sched'.cur =>
           sched'.st[i] = IF i = sched.cur THEN "EXITED"
                          ELSE IF i = x.cur THEN "RUNNING" ELSE sched.st[i]
  <2>1. CASE z = w
    BY <1>1, <1>4, <1>6, <2>1
  <2>2. CASE /\ z.cur \in Slots /\ w.st[z.cur] = "READY"
             /\ z.st = [w.st EXCEPT ![z.cur] = "RUNNING"]
             /\ z.cpu = w.regs[z.cur]
    <3>1. z.cur # NoThread /\ z.cur # sched.cur /\ sched.st[z.cur] = "READY"
      BY <1>2, <1>4, <1>6, <2>2, SlotFacts
    <3>2. \A i \in Slots : z.st[i] = IF i = z.cur THEN "RUNNING" ELSE w.st[i]
      BY <1>8, <2>2
    <3> QED BY <1>1, <1>4, <1>6, <1>7, <2>2, <3>1, <3>2
  <2> QED BY <1>7, <2>1, <2>2
<1>10. x.cur \in Slots => sched.st[x.cur] = "READY"
  BY <1>4, SlotFacts
<1>11. AtRest'
  BY <1>2, <1>3, <1>9, <1>10 DEF AtRest, IInv, ThreadInv
<1>12. \A t \in Slots :
        /\ Alive(t)' => Alive(t) /\ Registers(t)' = Registers(t)
        /\ Alive(t) /\ ~Alive(t)' => t = sched.cur /\ Registers(t).sp = 0
  BY <1>2, <1>9, <1>10, SlotFacts DEF Alive, Registers, cpu
<1>13. sched'.cur # NoThread => sched'.cpu = NewContext(sched'.cur)
  BY <1>3, <1>9
<1>14. sched'.cur # NoThread => sched'.cpu.at = "guest"
  BY <1>13 DEF NewContext
<1>15. \A t \in Slots : sched.st[t] = "WAITING" <=> sched'.st[t] = "WAITING"
  BY <1>2, <1>9, <1>10, SlotFacts
<1>16. sched'.cur = NoThread => sched'.cpu.at = "zero" /\ sched'.cpu.sp = 0
  BY <1>1, <1>2, <1>9 DEF cpu
<1>17. "zero" # "dialog" /\ "zero" # "guest"
  OBVIOUS
<1> QED
  BY <1>1, <1>2, <1>9, <1>11, <1>12, <1>13, <1>14, <1>15, <1>16, <1>17, NotOwner DEF Hands

\* The only step that parks a thread.
LEMMA TickPausedHands ==
    ASSUME IInv, TickPaused
    PROVE  Hands
<1> DEFINE v == SaveCurrent(sched, "WAITING")
           z == SwitchNext(v)
<1>1. /\ estate = "PAUSED" /\ CanSwitch(sched)
      /\ sched' = z /\ estate' = "RUNNING"
      /\ UNCHANGED <<stack, s_callstack, s_dlg_active, s_dlg_ret, nsdPause>>
  BY DEF TickPaused
<1>2. /\ sched.cur # NoThread /\ s_dlg_active /\ sched.cur \in Slots
      /\ sched.st[sched.cur] = "RUNNING" /\ Registers(sched.cur) = cpu
  BY <1>1, Current DEF IInv, DialogInv, Pauses
<1>3. /\ \A t \in Slots : sched.st[t] = "READY" =>
           t # sched.cur /\ sched.regs[t] = NewContext(t)
      /\ sched \in Scheduler(Context)
      /\ \A t \in Slots : sched.waitOn[t] = 0
  BY ReadyAtRest
<1>4. /\ v \in Scheduler(Context) /\ v.waitOn = sched.waitOn
      /\ v.st = [sched.st EXCEPT ![sched.cur] = "WAITING"]
      /\ v.regs = [sched.regs EXCEPT ![sched.cur] = sched.cpu]
  BY <1>2, <1>3, SaveCurrentFields DEF ThreadState
<1> HIDE DEF v
<1>5. /\ sched.st \in [Slots -> ThreadState] /\ v.st \in [Slots -> ThreadState]
      /\ sched.regs \in [Slots -> Context] /\ v.regs \in [Slots -> Context]
  BY <1>3, <1>4 DEF Scheduler
<1>6. CanSwitch(v)
  BY <1>1, <1>2, <1>4, <1>5 DEF CanSwitch, ReadySlots
<1>7. /\ z \in Scheduler(Context) /\ z.waitOn = v.waitOn /\ z.regs = v.regs
      /\ z.cur \in Slots /\ v.st[z.cur] = "READY"
      /\ z.st = [v.st EXCEPT ![z.cur] = "RUNNING"]
      /\ z.cpu = v.regs[z.cur]
  BY <1>4, <1>6, SwitchNextFields
<1> HIDE DEF z
<1>8. /\ sched' \in Scheduler(Context)
      /\ \A t \in Slots : sched'.waitOn[t] = 0
      /\ sched'.cur \in Slots \ {sched.cur} /\ sched.st[sched'.cur] = "READY"
      /\ \A t \in Slots :
           /\ sched'.st[t] = IF t = sched'.cur THEN "RUNNING"
                             ELSE IF t = sched.cur THEN "WAITING" ELSE sched.st[t]
           /\ sched'.regs[t] = IF t = sched.cur THEN sched.cpu ELSE sched.regs[t]
      /\ sched'.cpu = sched.regs[sched'.cur]
  BY <1>1, <1>2, <1>3, <1>4, <1>5, <1>7
<1>9. AtRest'
  BY <1>2, <1>8 DEF AtRest, IInv, ThreadInv
<1>10. \A t \in Slots :
        /\ Alive(t)' <=> Alive(t)
        /\ Alive(t) => Registers(t)' = Registers(t)
  BY <1>2, <1>8 DEF Alive, Registers, cpu
<1>11. sched'.cpu = NewContext(sched'.cur)
  BY <1>3, <1>8
<1>12. sched'.cpu.at = "guest" /\ sched'.cur # NoThread
  BY <1>8, <1>11, SlotFacts DEF NewContext
<1> QED
  BY <1>1, <1>2, <1>8, <1>9, <1>10, <1>11, <1>12 DEF Hands

\* CreateThread makes a thread, calls its function as a callback, or is retried.
LEMMA SpawnCases ==
    ASSUME IInv, Spawn
    PROVE  /\ Running /\ cpu.at \in {"guest", "CreateThread"}
           /\ UNCHANGED <<estate, s_dlg_active, s_dlg_ret, nsdPause>>
           /\ \/ Hands
              \/ CanCall /\ wg_call_wndproc
              \/ sched' = GoTo(sched, "CreateThread") /\ UNCHANGED <<stack, s_callstack>>
<1>1. /\ Running /\ cpu.at \in {"guest", "CreateThread"}
      /\ cpu.at # "zero" /\ cpu.at # "dialog"
      /\ UNCHANGED <<estate, s_dlg_active, s_dlg_ret, nsdPause>>
  BY DEF Spawn, Calling
<1>2. /\ sched.cur # NoThread /\ sched.cur \in Slots
      /\ sched.st[sched.cur] = "RUNNING"
  BY <1>1, AtGuest
<1>3. CASE \E i \in Slots :
              /\ FirstFree(sched, i)
              /\ sched' = CreateThread(sched, i, NewContext(i), FALSE)
              /\ UNCHANGED <<stack, s_callstack>>
  <2>1. PICK i \in Slots : /\ FirstFree(sched, i)
                           /\ sched' = CreateThread(sched, i, NewContext(i), FALSE)
                           /\ UNCHANGED <<stack, s_callstack>>
    BY <1>3
  <2>2. /\ sched \in Scheduler(Context) /\ NewContext(i) \in Context
        /\ \A t \in Slots : sched.waitOn[t] = 0
    BY ReadyAtRest, NewContextType
  <2>3. /\ sched' \in Scheduler(Context)
        /\ sched'.cur = sched.cur /\ sched'.cpu = sched.cpu
        /\ \A j \in Slots :
             /\ sched'.st[j] = IF j # i THEN sched.st[j] ELSE "READY"
             /\ sched'.waitOn[j] = IF j = i THEN 0 ELSE sched.waitOn[j]
             /\ sched'.regs[j] = IF j = i THEN NewContext(i) ELSE sched.regs[j]
    <3> DEFINE c == NewContext(i)
               x == CreateThread(sched, i, c, FALSE)
    <3>1. sched' = x /\ c \in Context
      BY <2>1, <2>2
    <3> HIDE DEF c
    <3>2. \A b \in BOOLEAN : b = FALSE =>
            /\ CreateThread(sched, i, c, b) \in Scheduler(Context)
            /\ CreateThread(sched, i, c, b).cur = sched.cur
            /\ CreateThread(sched, i, c, b).cpu = sched.cpu
            /\ \A j \in Slots :
                 /\ CreateThread(sched, i, c, b).st[j] =
                        IF j # i THEN sched.st[j] ELSE "READY"
                 /\ CreateThread(sched, i, c, b).waitOn[j] =
                        IF j = i THEN 0 ELSE sched.waitOn[j]
                 /\ CreateThread(sched, i, c, b).regs[j] =
                        IF j = i THEN c ELSE sched.regs[j]
      BY <2>2, <3>1, CreateThreadFields
    <3> QED BY <3>1, <3>2 DEF c
  <2>4. sched.st[i] = "FREE" /\ i # sched.cur
    BY <1>2, <2>1 DEF FirstFree
  <2>5. AtRest'
    BY <2>3, <2>4 DEF AtRest, IInv, ThreadInv
  <2>6. /\ \A t \in Slots : Alive(t)' =>
             \/ Alive(t) /\ Registers(t)' = Registers(t)
             \/ sched.st[t] = "FREE" /\ Registers(t)' = NewContext(t)
        /\ \A t \in Slots : Alive(t) => Alive(t)'
    BY <1>2, <2>3, <2>4 DEF Alive, Registers, cpu
  <2>7. \A t \in Slots : sched.st[t] = "WAITING" <=> sched'.st[t] = "WAITING"
    BY <2>3, <2>4
  <2>8. sched'.cpu.at = "zero" => sched'.cpu.sp = 0
    BY <1>1, <2>3 DEF cpu
  <2>9. \A t \in Slots : sched'.waitOn[t] = 0
    BY <2>2, <2>3
  <2>10. sched' \in Scheduler(Context) /\ sched'.cur = sched.cur
         /\ sched'.st[sched.cur] = "RUNNING"
    BY <1>2, <2>3, <2>4
  <2>11. Hands
    BY <1>1, <1>2, <2>1, <2>5, <2>6, <2>7, <2>8, <2>9, <2>10 DEF Hands, Running
  <2> QED BY <1>1, <2>11
<1> QED BY <1>1, <1>3 DEF Spawn

-----------------------------------------------------------------------------
(* The theorems.                                                           *)

LEMMA InitIInv == Init => IInv
<1> SUFFICES ASSUME Init PROVE IInv
  OBVIOUS
<1>1. /\ sched = [st     |-> [t \in Slots |-> IF t = Main THEN "RUNNING" ELSE "FREE"],
                  cur    |-> Main,
                  waitOn |-> [t \in Slots |-> 0],
                  regs   |-> [t \in Slots |-> NewContext(t)],
                  cpu    |-> NewContext(Main)]
      /\ estate = "RUNNING" /\ s_dlg_active = FALSE /\ nsdPause = FALSE
      /\ stack = [t \in Slots |-> [i \in 1 .. StackSize |-> "message"]]
      /\ s_callstack = <<>> /\ s_dlg_ret = [own |-> Main, sp |-> 0]
  BY DEF Init
<1>2. /\ \A t \in Slots : NewContext(t) \in Context /\ NewContext(t).own = t
                         /\ NewContext(t).sp = 0 /\ NewContext(t).at = "guest"
      /\ Main \in Slots /\ Main # NoThread
  BY NewContextType, SlotFacts DEF NewContext
<1>3. /\ \A t \in Slots : /\ sched.st[t] = IF t = Main THEN "RUNNING" ELSE "FREE"
                         /\ sched.waitOn[t] = 0 /\ sched.regs[t] = NewContext(t)
      /\ sched.cur = Main /\ cpu = NewContext(Main)
      /\ sched \in Scheduler(Context)
  BY <1>1, <1>2 DEF Scheduler, ThreadState, cpu
<1>4. TypeOK
  <2>1. /\ estate \in {"RUNNING", "PAUSED", "STOPPED"}
        /\ s_dlg_active \in BOOLEAN /\ nsdPause \in BOOLEAN
    BY <1>1
  <2>2. s_callstack \in Seq(Caller) /\ Len(s_callstack) <= MaxCalls
    BY <1>1, ModalAssumption
  <2>3. s_dlg_ret \in Caller
    BY <1>1, <1>2, ModalAssumption DEF Caller, Depths
  <2>4. stack \in [Slots -> [1 .. StackSize -> Sentinels]]
    BY <1>1 DEF Sentinels
  <2> QED BY <1>3, <2>1, <2>2, <2>3, <2>4 DEF TypeOK
<1>5. ThreadInv
  BY <1>2, <1>3 DEF ThreadInv, OwnStack, CurrentInv, AtRest, Alive, Registers
<1>6. DialogInv
  BY <1>1, <1>2, <1>3 DEF DialogInv, Parked, DialogOpen, OnlyOwner, Pauses, Alive, Registers
<1>7. FrameInv
  <2>1. \A t \in Slots : Registers(t) = NewContext(t)
    BY <1>3 DEF Registers
  <2>2. DOMAIN s_callstack = {}
    BY <1>1
  <2> QED BY <1>2, <2>1, <2>2
       DEF FrameInv, FramesMatch, Framed, InProgress, InOrder, CurrentOnTop
<1> QED BY <1>4, <1>5, <1>6, <1>7 DEF IInv

LEMMA NextIInv ==
    ASSUME CallbacksComplete, IInv, [Next]_modalVars
    PROVE  IInv'
\* SendMessage and CreateDialogParam; a full s_callstack changes nothing.
<1>1. ASSUME NEW call, Dispatch(call) PROVE IInv'
  <2>1. /\ Running /\ cpu.at = "guest"
        /\ UNCHANGED <<estate, s_dlg_active, s_dlg_ret, nsdPause>>
    BY <1>1 DEF Dispatch, Calling
  <2>2. CASE CanCall /\ wg_call_wndproc
    BY <2>1, <2>2, AtGuest, WndprocCall
  <2>3. CASE UNCHANGED <<sched, stack, s_callstack>>
    BY <2>1, <2>3, OnlyPauses DEF Running, Pauses, IInv, TypeOK
  <2> QED BY <1>1, <2>2, <2>3 DEF Dispatch
<1>2. CASE ThreadReturns
  BY <1>2, GoToStep DEF ThreadReturns, Calling
<1>3. CASE Spawn
  <2>1. cpu.at # "zero" /\ cpu.at # "dialog"
    BY <1>3, SpawnCases
  <2>2. sched.cur # NoThread
    BY <2>1, AtGuest
  <2> QED BY <1>3, <2>1, <2>2, SpawnCases, HandsStep, WndprocCall, GoToStep
<1>4. CASE Sleep \/ ExitThreadCall \/ TickThreadEnded \/ TickPaused
  BY <1>4, SleepHands, ExitThreadHands, ThreadEndedHands, TickPausedHands, HandsStep
<1>5. CASE UNCHANGED modalVars
  BY <1>5, OnlyPauses DEF modalVars, IInv, DialogInv, Pauses, TypeOK, cpu
<1> QED
  BY <1>1, <1>2, <1>3, <1>4, <1>5, MessageReturnsStep, DialogBoxParamStep,
     DialogSentinelStep, EndDialogStep, NsdShowStep, TapStep, ProgramEndedStep
  DEF Next, SendMessage, CreateDialogParam

\* The single s_callstack is safe for programs whose callbacks run to completion:
\* whatever threads they start and however their window procedures and pages
\* nest, the frames are exactly the window procedures in progress (FramesMatch).
THEOREM FramesAlwaysMatch ==
    ASSUME CallbacksComplete
    PROVE  Spec => []FramesMatch
<1>1. IInv /\ [Next]_modalVars => IInv'
  BY NextIInv
<1>2. IInv => FramesMatch
  BY DEF IInv, FrameInv
<1> QED BY <1>1, <1>2, InitIInv, PTL DEF Spec

\* and no return reaches the stack of another thread (OwnStack).
THEOREM StacksNeverMixed ==
    ASSUME CallbacksComplete
    PROVE  Spec => []OwnStack
<1>1. IInv /\ [Next]_modalVars => IInv'
  BY NextIInv
<1>2. IInv => OwnStack
  BY DEF IInv, ThreadInv
<1> QED BY <1>1, <1>2, InitIInv, PTL DEF Spec

\* A PAUSED engine always has a dialog whose buttons answer it (PauseAnswerable).
THEOREM PausesAnswerable ==
    ASSUME CallbacksComplete
    PROVE  Spec => []PauseAnswerable
<1>1. IInv /\ [Next]_modalVars => IInv'
  BY NextIInv
<1>2. IInv => PauseAnswerable
  BY DEF IInv, DialogInv, Pauses, PauseAnswerable
<1> QED BY <1>1, <1>2, InitIInv, PTL DEF Spec

\* The frames never outgrow s_callstack and no thread its stack, and the scheduler's
\* registers stay registers (TypeOK of WGModal: wg_call_wndproc, wg_show_dialog, the
\* thread switch), when callbacks run to completion.
THEOREM ModalTyped ==
    ASSUME CallbacksComplete
    PROVE  Spec => []TypeOK
<1>1. IInv /\ [Next]_modalVars => IInv'
  BY NextIInv
<1>2. IInv => TypeOK
  BY DEF IInv
<1> QED BY <1>1, <1>2, InitIInv, PTL DEF Spec

-----------------------------------------------------------------------------
(* The calls of each thread nest as WGCalls says.                          *)

\* Prefixes of a stack.
LEMMA Prefixes ==
    ASSUME NEW f \in [1 .. StackSize -> Sentinels], NEW n \in Depths
    PROVE  /\ SubSeq(f, 1, n) \in Seq(Sentinels)
           /\ Len(SubSeq(f, 1, n)) = n
           /\ \A i \in 1 .. n : SubSeq(f, 1, n)[i] = f[i]
<1>1. f \in Seq(Sentinels) /\ Len(f) = StackSize
  BY ModalAssumption
<1>2. n \in Nat /\ n <= StackSize
  BY ModalAssumption DEF Depths
<1> QED BY <1>1, <1>2, SubSeqProperties

LEMMA CutPrefix ==
    ASSUME NEW f \in [1 .. StackSize -> Sentinels], NEW n \in Depths, NEW m \in 0 .. n
    PROVE  SubSeq(f, 1, m) = SubSeq(SubSeq(f, 1, n), 1, m)
<1>1. m \in Depths /\ n \in Nat /\ m \in Nat /\ m <= n
  BY ModalAssumption DEF Depths
<1> DEFINE p == SubSeq(f, 1, n)
           q == SubSeq(f, 1, m)
           r == SubSeq(p, 1, m)
<1>2. /\ p \in Seq(Sentinels) /\ Len(p) = n /\ \A i \in 1 .. n : p[i] = f[i]
      /\ q \in Seq(Sentinels) /\ Len(q) = m /\ \A i \in 1 .. m : q[i] = f[i]
  BY <1>1, Prefixes
<1> HIDE DEF p, q
<1>3. r \in Seq(Sentinels) /\ Len(r) = m /\ \A i \in 1 .. m : r[i] = p[i]
  BY <1>1, <1>2, SubSeqProperties
<1> HIDE DEF r
<1>4. \A i \in 1 .. m : q[i] = r[i]
  BY <1>1, <1>2, <1>3
<1>5. q = r
  BY <1>2, <1>3, <1>4, SeqEqual
<1> QED BY <1>5 DEF p, q, r

LEMMA LongerPrefix ==
    ASSUME NEW f \in [1 .. StackSize -> Sentinels], NEW g \in [1 .. StackSize -> Sentinels],
           NEW n \in Depths, n + 1 \in Depths, \A i \in 1 .. n : g[i] = f[i]
    PROVE  SubSeq(g, 1, n + 1) = Append(SubSeq(f, 1, n), g[n + 1])
<1>1. n \in Nat /\ g[n + 1] \in Sentinels
  BY ModalAssumption DEF Depths
<1> DEFINE p == SubSeq(f, 1, n)
           q == SubSeq(g, 1, n + 1)
           r == Append(p, g[n + 1])
<1>2. /\ p \in Seq(Sentinels) /\ Len(p) = n /\ \A i \in 1 .. n : p[i] = f[i]
      /\ q \in Seq(Sentinels) /\ Len(q) = n + 1 /\ \A i \in 1 .. n + 1 : q[i] = g[i]
  BY Prefixes
<1> HIDE DEF p, q
<1>3. /\ r \in Seq(Sentinels) /\ Len(r) = n + 1
      /\ \A i \in 1 .. n : r[i] = p[i]
      /\ r[n + 1] = g[n + 1]
  BY <1>1, <1>2
<1> HIDE DEF r
<1>4. \A i \in 1 .. n + 1 : q[i] = r[i]
  BY <1>1, <1>2, <1>3
<1>5. q = r
  BY <1>2, <1>3, <1>4, SeqEqual
<1> QED BY <1>5 DEF p, q, r

\* What is known of the calls of the current thread, and of a thread outside calls.
LEMMA CallsFacts ==
    ASSUME TypeOK, NEW t \in Slots
    PROVE  /\ CallsOf(t) \in Seq(Sentinels)
           /\ Registers(t).sp \in Depths
           /\ Alive(t) => Len(CallsOf(t)) = Registers(t).sp
           /\ Registers(t).sp = 0 => CallsOf(t) = <<>>
<1>1. Registers(t) \in Context /\ stack[t] \in [1 .. StackSize -> Sentinels]
  BY DEF TypeOK, Scheduler, Registers, cpu
<1>2. Registers(t).sp \in Depths
  BY <1>1 DEF Context
<1>3. /\ SubSeq(stack[t], 1, Registers(t).sp) \in Seq(Sentinels)
      /\ Len(SubSeq(stack[t], 1, Registers(t).sp)) = Registers(t).sp
  BY <1>1, <1>2, Prefixes
<1>4. <<>> \in Seq(Sentinels)
  OBVIOUS
<1>5. Registers(t).sp = 0 => SubSeq(stack[t], 1, Registers(t).sp) = <<>>
  BY <1>3, EmptySeq
<1> QED BY <1>2, <1>3, <1>4, <1>5 DEF CallsOf

LEMMA OpenCallsFunction ==
    /\ openCalls = [t \in Slots |-> openCalls[t]]
    /\ \A t \in Slots : openCalls[t] = CallsOf(t)
BY DEF openCalls

\* A call of the current thread is appended to its calls.
LEMMA EnterPushes ==
    ASSUME IInv, sched.cur # NoThread, NEW sentinel \in Sentinels, Enter(sentinel)
    PROVE  /\ Abstract!Pushed(sched.cur, sentinel)
           /\ sched.cur \in Slots /\ Len(openCalls[sched.cur]) = cpu.sp
<1>1. /\ TypeOK /\ ThreadInv /\ sched.cur \in Slots /\ Alive(sched.cur)
      /\ Registers(sched.cur) = cpu /\ cpu.sp \in Nat
      /\ stack \in [Slots -> [1 .. StackSize -> Sentinels]]
  BY Current DEF IInv, TypeOK
<1>2. /\ stack' \in [Slots -> [1 .. StackSize -> Sentinels]]
      /\ sched'.st = sched.st /\ sched'.cur = sched.cur
      /\ \A t \in Slots : t # sched.cur => Registers(t)' = Registers(t)
      /\ Registers(sched.cur)'.sp = cpu.sp + 1
      /\ \A t \in Slots : t # sched.cur => stack'[t] = stack[t]
      /\ \A i \in 1 .. cpu.sp : stack'[sched.cur][i] = stack[sched.cur][i]
      /\ stack'[sched.cur][cpu.sp + 1] = sentinel
      /\ cpu.sp + 1 \in 1 .. StackSize
  BY <1>1, EnterFields
<1>3. cpu.sp \in Depths /\ cpu.sp + 1 \in Depths
  BY <1>1, <1>2, ModalAssumption DEF Depths
<1>4. \A t \in Slots : t # sched.cur => CallsOf(t)' = CallsOf(t)
  BY <1>2 DEF CallsOf, Alive
<1>5. CallsOf(sched.cur)' = Append(CallsOf(sched.cur), sentinel)
  <2> DEFINE f == stack[sched.cur]
             g == stack'[sched.cur]
             n == cpu.sp
  <2>1. /\ f \in [1 .. StackSize -> Sentinels] /\ g \in [1 .. StackSize -> Sentinels]
        /\ n \in Depths /\ n + 1 \in Depths
        /\ \A i \in 1 .. n : g[i] = f[i]
        /\ g[n + 1] = sentinel
    BY <1>1, <1>2, <1>3
  <2>2. CallsOf(sched.cur) = SubSeq(f, 1, n)
    BY <1>1 DEF CallsOf
  <2>3. CallsOf(sched.cur)' = SubSeq(g, 1, n + 1)
    BY <1>1, <1>2 DEF CallsOf, Alive
  <2> HIDE DEF f, g, n
  <2>4. SubSeq(g, 1, n + 1) = Append(SubSeq(f, 1, n), sentinel)
    BY <2>1, LongerPrefix
  <2> QED BY <2>2, <2>3, <2>4
<1>6. openCalls' = [openCalls EXCEPT ![sched.cur] = Append(@, sentinel)]
  BY <1>1, <1>2, <1>4, <1>5 DEF openCalls
<1>7. Len(openCalls[sched.cur]) = cpu.sp
  BY <1>1, CallsFacts DEF openCalls
<1> QED BY <1>1, <1>6, <1>7 DEF Abstract!Pushed

\* A return or EndDialog cuts the calls of the current thread.
LEMMA MoveCuts ==
    ASSUME IInv, sched.cur # NoThread, UNCHANGED stack,
           NEW c \in Caller, c.own = sched.cur, c.sp <= cpu.sp,
           NEW p \in Places, p = "zero" => c.sp = 0,
           sched' = Jump(sched, c, p)
    PROVE  /\ openCalls' = [openCalls EXCEPT ![sched.cur] = SubSeq(@, 1, c.sp)]
           /\ sched.cur \in Slots /\ Len(openCalls[sched.cur]) = cpu.sp
<1>1. /\ TypeOK /\ ThreadInv /\ sched.cur \in Slots /\ Alive(sched.cur)
      /\ Registers(sched.cur) = cpu /\ cpu.sp \in Nat /\ cpu \in Context
      /\ stack \in [Slots -> [1 .. StackSize -> Sentinels]]
  BY Current DEF IInv, TypeOK
<1>2. /\ sched'.st = sched.st /\ sched'.cur = sched.cur
      /\ \A t \in Slots : t # sched.cur => Registers(t)' = Registers(t)
      /\ Registers(sched.cur)'.sp = c.sp
  BY <1>1, CurrentMoves
<1>3. cpu.sp \in Depths /\ c.sp \in 0 .. cpu.sp
  BY <1>1, ModalAssumption DEF Context, Caller, Depths
<1>4. \A t \in Slots : t # sched.cur => CallsOf(t)' = CallsOf(t)
  BY <1>2 DEF CallsOf, Alive
<1>5. CallsOf(sched.cur)' = SubSeq(CallsOf(sched.cur), 1, c.sp)
  <2> DEFINE f == stack[sched.cur]
             n == cpu.sp
  <2>1. f \in [1 .. StackSize -> Sentinels] /\ n \in Depths /\ c.sp \in 0 .. n
    BY <1>1, <1>3
  <2>2. CallsOf(sched.cur) = SubSeq(f, 1, n)
    BY <1>1 DEF CallsOf
  <2>3. CallsOf(sched.cur)' = SubSeq(f, 1, c.sp)
    BY <1>1, <1>2 DEF CallsOf, Alive
  <2> HIDE DEF f, n
  <2>4. SubSeq(f, 1, c.sp) = SubSeq(SubSeq(f, 1, n), 1, c.sp)
    BY <2>1, CutPrefix
  <2> QED BY <2>2, <2>3, <2>4
<1>6. openCalls' = [openCalls EXCEPT ![sched.cur] = SubSeq(@, 1, c.sp)]
  BY <1>1, <1>2, <1>4, <1>5 DEF openCalls
<1>7. Len(openCalls[sched.cur]) = cpu.sp
  BY <1>1, CallsFacts DEF openCalls
<1> QED BY <1>1, <1>6, <1>7

\* Passing the processor on changes no calls.
LEMMA HandsCalls ==
    ASSUME IInv, Hands
    PROVE  openCalls' = openCalls
<1>1. TypeOK
  BY DEF IInv
<1>2. \A t \in Slots : NewContext(t).sp = 0
  BY DEF NewContext
<1>3. ASSUME NEW t \in Slots PROVE CallsOf(t)' = CallsOf(t)
  <2>1. CASE Alive(t)' /\ Alive(t)
    <3>1. Registers(t)' = Registers(t) /\ stack' = stack
      BY <2>1 DEF Hands, Alive
    <3> QED BY <2>1, <3>1 DEF CallsOf
  <2>2. CASE Alive(t)' /\ ~Alive(t)
    <3>1. Registers(t)'.sp = 0
      BY <1>2, <2>2 DEF Hands
    <3>2. SubSeq(stack'[t], 1, 0) = <<>>
      BY SubSeqEmpty
    <3>3. CallsOf(t)' = <<>>
      BY <2>2, <3>1, <3>2 DEF CallsOf
    <3> QED BY <2>2, <3>3 DEF CallsOf
  <2>3. CASE ~Alive(t)' /\ Alive(t)
    <3>1. Registers(t).sp = 0
      BY <2>3 DEF Hands
    <3>2. CallsOf(t) = <<>>
      BY <1>1, <3>1, CallsFacts
    <3> QED BY <2>3, <3>2 DEF CallsOf
  <2>4. CASE ~Alive(t)' /\ ~Alive(t)
    BY <2>4 DEF CallsOf
  <2> QED BY <2>1, <2>2, <2>3, <2>4
<1> QED BY <1>3 DEF openCalls

\* Each step of the program is one of WGCalls on the calls of the current thread.
LEMMA CallsStep ==
    ASSUME CallbacksComplete, IInv, [Next]_modalVars
    PROVE  [Abstract!Next]_<<openCalls, openDialog>>
<1> USE DEF Abstract!Next, Abstract!Call, Abstract!Open, Abstract!Click, Abstract!Return,
            Abstract!End
<1>1. ASSUME Running, cpu.at # "zero", wg_call_wndproc, UNCHANGED <<s_dlg_active, s_dlg_ret>>
      PROVE  Abstract!Next
  <2>1. Enter("message") /\ "message" \in Sentinels /\ sched.cur # NoThread
    BY <1>1, AtGuest DEF wg_call_wndproc, Sentinels
  <2>2. Abstract!Pushed(sched.cur, "message") /\ sched.cur \in Slots
    BY <2>1, EnterPushes
  <2>3. openDialog' = openDialog
    BY <1>1 DEF openDialog
  <2> QED BY <2>2, <2>3
<1>2. ASSUME NEW call, Dispatch(call) PROVE [Abstract!Next]_<<openCalls, openDialog>>
  <2>1. CASE CanCall
    BY <1>1, <1>2, <2>1 DEF Dispatch, Calling
  <2>2. CASE ~CanCall
    BY <1>2, <2>2 DEF Dispatch, openCalls, openDialog, CallsOf, Alive, Registers, cpu
  <2> QED BY <2>1, <2>2
<1>3. CASE MessageReturns
  <2>1. cpu.at # "zero" /\ cpu.sp > 0 /\ stack[cpu.own][cpu.sp] = "message"
    BY <1>3 DEF MessageReturns, Calling
  <2>2. /\ sched.cur # NoThread /\ cpu.own = sched.cur /\ cpu.sp \in Nat /\ TypeOK
    BY <2>1, AtGuest
  <2>3. PICK f \in Caller : /\ f = s_callstack[Len(s_callstack)]
                            /\ f.own = sched.cur /\ f.sp = cpu.sp - 1
    BY <2>1, <2>2, TopFrame
  <2>4. s_callstack # <<>>
    BY <2>1, <2>2, TopFrame, EmptySeq
  <2>5. sched' = Jump(sched, f, "guest") /\ UNCHANGED <<stack, s_dlg_active, s_dlg_ret>>
    BY <1>3, <2>3, <2>4 DEF MessageReturns
  <2>6. "guest" \in Places /\ "guest" # "zero"
    BY DEF Places
  <2>7. /\ openCalls' = [openCalls EXCEPT ![sched.cur] = SubSeq(@, 1, cpu.sp - 1)]
        /\ sched.cur \in Slots /\ Len(openCalls[sched.cur]) = cpu.sp
    BY <2>2, <2>3, <2>5, <2>6, MoveCuts
  <2>8. openCalls[sched.cur] # <<>>
    BY <2>1, <2>7, EmptySeq
  <2>9. openDialog' = openDialog
    BY <2>5 DEF openDialog
  <2> QED BY <2>7, <2>8, <2>9
<1>4. CASE DialogBoxParam
  <2>1. Running /\ cpu.at = "guest" /\ cpu.sp = 0 /\ ~s_dlg_active
    BY <1>4 DEF CallbacksComplete, DialogBoxParam, Calling
  <2>2. sched.cur # NoThread /\ cpu.own = sched.cur
    BY <2>1, AtGuest
  <2>3. /\ Enter("dialog") /\ "dialog" \in Sentinels
        /\ s_dlg_active' = TRUE /\ s_dlg_ret'.own = sched.cur /\ s_dlg_ret'.sp = 0
    BY <1>4, <2>1, <2>2 DEF DialogBoxParam, Sentinels
  <2>4. /\ Abstract!Pushed(sched.cur, "dialog")
        /\ sched.cur \in Slots /\ Len(openCalls[sched.cur]) = 0
    BY <2>1, <2>2, <2>3, EnterPushes
  <2>5. openDialog = <<>> /\ openDialog' = <<[by |-> sched.cur, above |-> 0]>>
    BY <2>1, <2>3 DEF openDialog
  <2> QED BY <2>4, <2>5
<1>5. CASE DialogSentinel
  <2>1. /\ \/ cpu.at = "dialog"
           \/ cpu.at = "guest" /\ cpu.sp > 0
        /\ sched' = IF cpu.at = "dialog" THEN sched ELSE Jump(sched, Popped, "dialog")
        /\ UNCHANGED <<stack, s_dlg_active, s_dlg_ret>>
    BY <1>5 DEF DialogSentinel, Calling
  <2>2. openDialog' = openDialog
    BY <2>1 DEF openDialog
  <2>3. CASE cpu.at = "dialog"
    BY <2>1, <2>2, <2>3 DEF openCalls, CallsOf, Alive, Registers, cpu
  <2>4. CASE cpu.at # "dialog"
    <3>1. /\ sched.cur # NoThread /\ cpu.own = sched.cur /\ sched.cur \in Slots
          /\ cpu.sp \in Nat /\ cpu.sp \in Depths /\ cpu.sp > 0
      BY <2>1, <2>4, AtGuest
    <3>2. Popped \in Caller /\ Popped.own = sched.cur /\ Popped.sp = cpu.sp - 1
      BY <3>1, ModalAssumption DEF Popped, Caller, Depths
    <3>3. "dialog" \in Places /\ "dialog" # "zero" /\ sched' = Jump(sched, Popped, "dialog")
      BY <2>1, <2>4 DEF Places
    <3>4. /\ openCalls' = [openCalls EXCEPT ![sched.cur] = SubSeq(@, 1, cpu.sp - 1)]
          /\ Len(openCalls[sched.cur]) = cpu.sp
      BY <2>1, <3>1, <3>2, <3>3, MoveCuts
    <3>5. openCalls[sched.cur] # <<>>
      BY <3>1, <3>4, EmptySeq
    <3> QED BY <2>2, <3>1, <3>4, <3>5
  <2> QED BY <2>3, <2>4
<1>6. CASE EndDialog
  <2>1. /\ cpu.at = "guest" /\ s_dlg_active /\ Owner = cpu.own
        /\ s_dlg_active' = FALSE /\ sched' = Jump(sched, s_dlg_ret, "guest")
        /\ UNCHANGED stack
    BY <1>6 DEF EndDialog, Calling, Owner
  <2>2. /\ sched.cur # NoThread /\ cpu.own = sched.cur /\ Registers(sched.cur) = cpu
        /\ cpu.sp \in Nat
    BY <2>1, AtGuest
  <2>3. /\ s_dlg_ret \in Caller /\ s_dlg_ret.own = sched.cur /\ s_dlg_ret.sp = 0
        /\ cpu.sp > 0
    BY <2>1, <2>2 DEF IInv, TypeOK, DialogInv, DialogOpen, Owner
  <2>4. "guest" \in Places /\ "guest" # "zero"
    BY DEF Places
  <2>5. /\ openCalls' = [openCalls EXCEPT ![sched.cur] = SubSeq(@, 1, 0)]
        /\ sched.cur \in Slots /\ Len(openCalls[sched.cur]) = cpu.sp
    BY <2>1, <2>2, <2>3, <2>4, MoveCuts
  <2>6. openDialog = <<[by |-> sched.cur, above |-> 0]>> /\ openDialog' = <<>>
    BY <2>1, <2>3 DEF openDialog
  <2> QED BY <2>3, <2>5, <2>6
<1>7. CASE Tap
  <2>1. /\ s_dlg_active /\ estate = "PAUSED"
        /\ nsdPause => UNCHANGED <<sched, stack>>
        /\ ~nsdPause => Enter("dialog")
        /\ UNCHANGED <<s_dlg_active, s_dlg_ret>>
    BY <1>7 DEF Tap
  <2>2. openDialog' = openDialog
    BY <2>1 DEF openDialog
  <2>3. CASE nsdPause
    BY <2>1, <2>2, <2>3 DEF openCalls, CallsOf, Alive, Registers, cpu
  <2>4. CASE ~nsdPause
    <3>1. sched.cur # NoThread /\ cpu.at = "dialog"
      BY <2>1, <2>4 DEF IInv, DialogInv, Pauses
    <3>2. sched.cur \in Slots /\ Alive(sched.cur) /\ Registers(sched.cur) = cpu
      BY <3>1, AtGuest
    <3>3. Owner = sched.cur /\ cpu.sp = 0 /\ s_dlg_ret.sp = 0
      BY <2>1, <3>1, <3>2 DEF IInv, DialogInv, OnlyOwner, DialogOpen
    <3>4. "dialog" \in Sentinels /\ Enter("dialog")
      BY <2>1, <2>4 DEF Sentinels
    <3>5. Abstract!Pushed(sched.cur, "dialog") /\ Len(openCalls[sched.cur]) = 0
      BY <3>1, <3>3, <3>4, EnterPushes
    <3>6. openDialog = <<[by |-> sched.cur, above |-> 0]>>
      BY <2>1, <3>3 DEF openDialog, Owner
    <3> QED BY <2>2, <3>2, <3>5, <3>6
  <2> QED BY <2>3, <2>4
<1>8. ASSUME Hands PROVE UNCHANGED <<openCalls, openDialog>>
  BY <1>8, HandsCalls DEF Hands, openDialog
<1>9. ASSUME NEW p \in {"CreateThread", "zero"}, p = "zero" => cpu.sp = 0,
             cpu.at \in {"guest", "CreateThread"}, sched' = GoTo(sched, p),
             UNCHANGED <<stack, s_dlg_active, s_dlg_ret>>
      PROVE  UNCHANGED <<openCalls, openDialog>>
  <2> DEFINE c == [own |-> cpu.own, sp |-> cpu.sp]
  <2>1. /\ TypeOK /\ ThreadInv
        /\ sched.cur # NoThread /\ sched.cur \in Slots /\ cpu.own = sched.cur
        /\ Registers(sched.cur) = cpu
        /\ c \in Caller
    BY <1>9, AtGuest
  <2>2. sched' = Jump(sched, c, p) /\ c.own = sched.cur /\ c.sp = cpu.sp /\ p \in Places
    BY <1>9, <2>1 DEF GoTo, Jump, cpu, Places
  <2> HIDE DEF c
  <2>3. /\ sched'.st = sched.st /\ sched'.cur = sched.cur
        /\ \A t \in Slots : t # sched.cur => Registers(t)' = Registers(t)
        /\ Registers(sched.cur)'.sp = cpu.sp
    BY <1>9, <2>1, <2>2, CurrentMoves
  <2>4. \A t \in Slots : CallsOf(t)' = CallsOf(t)
    BY <1>9, <2>1, <2>3 DEF CallsOf, Alive
  <2> QED BY <1>9, <2>4 DEF openCalls, openDialog
<1>10. CASE Spawn
  <2>1. /\ Running /\ cpu.at \in {"guest", "CreateThread"}
        /\ cpu.at # "zero" /\ UNCHANGED <<s_dlg_active, s_dlg_ret>>
        /\ \/ Hands
           \/ CanCall /\ wg_call_wndproc
           \/ sched' = GoTo(sched, "CreateThread") /\ UNCHANGED <<stack, s_callstack>>
    BY <1>10, SpawnCases
  <2> QED BY <1>1, <1>8, <1>9, <2>1
<1>11. CASE Sleep \/ ExitThreadCall \/ TickThreadEnded \/ TickPaused
  BY <1>8, <1>11, SleepHands, ExitThreadHands, ThreadEndedHands, TickPausedHands
<1>12. CASE ThreadReturns
  BY <1>9, <1>12 DEF ThreadReturns, Calling
<1>13. CASE NsdShow \/ TickProgramEnded \/ UNCHANGED modalVars
  <2>1. UNCHANGED <<sched, stack, s_dlg_active, s_dlg_ret>>
    BY <1>13 DEF NsdShow, TickProgramEnded, modalVars
  <2> QED BY <2>1 DEF openCalls, openDialog, CallsOf, Alive, Registers, cpu
<1> QED
  BY <1>2, <1>3, <1>4, <1>5, <1>6, <1>7, <1>10, <1>11, <1>12, <1>13
  DEF Next, SendMessage, CreateDialogParam

\* Callbacks and dialogs implement a stack of calls per thread (CallsNest): no
\* step touches the calls of two threads, and EndDialog abandons only the calls
\* above the dialog it ends.
THEOREM CallbacksNest ==
    ASSUME CallbacksComplete
    PROVE  Spec => CallsNest
<1>1. Init => Abstract!Init
  <2> SUFFICES ASSUME Init PROVE Abstract!Init
    OBVIOUS
  <2>1. IInv /\ s_dlg_active = FALSE
    BY InitIInv DEF Init
  <2>2. \A t \in Slots : Alive(t) => t = Main /\ Registers(t).sp = 0
    BY SlotFacts DEF Init, Alive, Registers, cpu, NewContext
  <2>3. \A t \in Slots : CallsOf(t) = <<>>
    BY <2>1, <2>2, CallsFacts DEF IInv, CallsOf
  <2> QED BY <2>1, <2>3 DEF Abstract!Init, openCalls, openDialog
<1>2. IInv /\ [Next]_modalVars => IInv'
  BY NextIInv
<1>3. IInv /\ [Next]_modalVars => [Abstract!Next]_<<openCalls, openDialog>>
  BY CallsStep
<1> QED BY <1>1, <1>2, <1>3, InitIInv, PTL DEF Spec, CallsNest, Abstract!Spec

=============================================================================
