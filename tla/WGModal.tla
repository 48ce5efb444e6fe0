------------------------------- MODULE WGModal -------------------------------
(***************************************************************************)
(* Guest callbacks and modal dialogs of Sources/Core/wg_engine.c.          *)
(*                                                                         *)
(* SendMessage must run a window procedure of the guest and return what it *)
(* returns.  The handler cannot wait for it: it builds a call on the       *)
(* guest's stack whose return address is a sentinel in the thunk range,    *)
(* saves the caller in a frame of s_callstack, and jumps to the procedure; *)
(* when the sentinel is reached the topmost frame is popped and the caller *)
(* restored from it.  s_callstack is one stack for all guest threads.      *)
(*                                                                         *)
(* DialogBoxParam uses a second sentinel, which pauses the engine instead  *)
(* of returning, and one global place for its caller: EndDialog goes back  *)
(* to it.  While the engine is PAUSED a tap of the user calls the dialog   *)
(* procedure again; a tick may let another thread run.                     *)
(*                                                                         *)
(* A guest stack is abstracted to the calls the engine made on it, oldest  *)
(* first, by the sentinel each returns to; the stack pointer counts them.  *)
(* A register file is the thread whose stack it points into, the stack     *)
(* pointer, and where the instruction pointer is: in guest code, at the    *)
(* dialog sentinel, at CreateThread, or at address zero.                   *)
(***************************************************************************)
EXTENDS WGThreading, Sequences

CONSTANTS
    MaxCalls,       \* frames in s_callstack, 64 in the code
    StackSize,      \* bound on the engine's calls open on one guest stack
    Calls,          \* the calls the program makes outside callbacks
    Inside          \* the calls it makes in window and dialog procedures

CallNames ==
    {"SendMessage", "CreateDialog", "DialogBox", "SecondDialog", "EndDialog",
     "Show", "CreateThread", "Sleep", "ExitThread", "return"}

ASSUME ModalAssumption ==
    /\ MaxCalls \in Nat
    /\ StackSize \in Nat \ {0}
    /\ Calls \subseteq CallNames /\ Inside \subseteq CallNames

VARIABLES
    sched,          \* the scheduler and blink's registers
    estate,         \* engine->state
    stack,          \* guest memory: the sentinels on each thread's stack
    s_callstack,    \* the frames in use, 1 .. s_callstack_depth
    s_dlg_active,   \* a modal dialog is open
    s_dlg_ret,      \* the caller of DialogBoxParam: s_dlg_ret_rsp
    nsdPause        \* s_nsd_show_pause: an nsDialogs page is up

modalVars == <<sched, estate, stack, s_callstack, s_dlg_active, s_dlg_ret, nsdPause>>

Sentinels == {"message", "dialog"}      \* WG_SENDMSG_SENTINEL, WG_DLG_SENTINEL

Depths  == 0 .. StackSize
Caller  == [own : Slots, sp : Depths]
Context == [own : Slots, sp : Depths, at : {"guest", "dialog", "CreateThread", "zero"}]

NewContext(t) == [own |-> t, sp |-> 0, at |-> "guest"]

cpu == sched.cpu

-----------------------------------------------------------------------------
(* The shape of a handler.                                                 *)

Running == estate = "RUNNING"

Calling(call) ==
    /\ Running /\ cpu.at = "guest"
    /\ call \in IF cpu.sp = 0 THEN Calls ELSE Inside

\* The stack pointer and the instruction pointer are set: wg_blink_set_reg,
\* wg_blink_set_rip.
Jump(s, c, place) == [s EXCEPT !.cpu = [own |-> c.own, sp |-> c.sp, at |-> place]]

GoTo(s, place) == Jump(s, s.cpu, place)

\* The guest's own return: its call is off the stack.
Popped == [own |-> cpu.own, sp |-> cpu.sp - 1]

\* Guest code is entered at a procedure that will return to a sentinel.
Enter(sentinel) ==
    /\ cpu.sp < StackSize
    /\ stack' = [stack EXCEPT ![cpu.own][cpu.sp + 1] = sentinel]
    /\ sched' = Jump(sched, [own |-> cpu.own, sp |-> cpu.sp + 1], "guest")

-----------------------------------------------------------------------------
(* Calls of window procedures.                                             *)

\* Mutant of CanCall: one frame too many.
CanCallOnce == Len(s_callstack) <= MaxCalls

\* A call is armed unless the frames are used up.
CanCall == Len(s_callstack) < MaxCalls

wg_call_wndproc ==
    /\ s_callstack' = Append(s_callstack, [own |-> cpu.own, sp |-> cpu.sp])
    /\ Enter("message")

\* A call that cannot be dispatched returns to its caller at once.
Dispatch(call) ==
    /\ Calling(call)
    /\ IF CanCall THEN wg_call_wndproc ELSE UNCHANGED <<sched, stack, s_callstack>>
    /\ UNCHANGED <<estate, s_dlg_active, s_dlg_ret, nsdPause>>

\* SendMessage, SendDlgItemMessage and DispatchMessage.
SendMessage == Dispatch("SendMessage")

\* CreateDialogParam sends WM_INITDIALOG to the window it makes.
CreateDialogParam == Dispatch("CreateDialog")

\* Mutant of MessageReturns: the oldest frame is taken.
MessageReturnsOldest ==
    /\ Calling("return") /\ cpu.sp > 0
    /\ stack[cpu.own][cpu.sp] = "message"
    /\ sched' = Jump(sched, s_callstack[1], "guest")
    /\ s_callstack' = Tail(s_callstack)
    /\ UNCHANGED <<estate, stack, s_dlg_active, s_dlg_ret, nsdPause>>

\* The sentinel of the calls above: back to the caller in the topmost frame.
MessageReturns ==
    /\ Calling("return") /\ cpu.sp > 0
    /\ stack[cpu.own][cpu.sp] = "message"
    /\ IF s_callstack = <<>>
       THEN /\ sched' = Jump(sched, Popped, "zero")
            /\ UNCHANGED s_callstack
       ELSE /\ sched' = Jump(sched, s_callstack[Len(s_callstack)], "guest")
            /\ s_callstack' = SubSeq(s_callstack, 1, Len(s_callstack) - 1)
    /\ UNCHANGED <<estate, stack, s_dlg_active, s_dlg_ret, nsdPause>>

-----------------------------------------------------------------------------
(* Modal dialogs.                                                          *)

DialogBoxParam ==
    /\ \/ Calling("DialogBox") /\ ~s_dlg_active
       \/ Calling("SecondDialog") /\ s_dlg_active
    /\ s_dlg_active' = TRUE
    /\ s_dlg_ret' = [own |-> cpu.own, sp |-> cpu.sp]
    /\ Enter("dialog")
    /\ UNCHANGED <<estate, s_callstack, nsdPause>>

\* The dialog sentinel: the dialog procedure has returned to it, or the engine is
\* running with the instruction pointer still there.  The engine waits.
DialogSentinel ==
    /\ Running
    /\ \/ cpu.at = "dialog"
       \/ Calling("return") /\ cpu.sp > 0 /\ stack[cpu.own][cpu.sp] = "dialog"
    /\ sched' = IF cpu.at = "dialog" THEN sched ELSE Jump(sched, Popped, "dialog")
    /\ estate' = "PAUSED"
    /\ UNCHANGED <<stack, s_callstack, s_dlg_active, s_dlg_ret, nsdPause>>

\* Mutant of EndDialog: the frames of the calls it abandons stay in use.
EndDialogKeepsFrames ==
    /\ Calling("EndDialog") /\ s_dlg_active /\ s_dlg_ret.own = cpu.own
    /\ s_dlg_active' = FALSE
    /\ sched' = Jump(sched, s_dlg_ret, "guest")
    /\ UNCHANGED <<estate, stack, s_callstack, s_dlg_ret, nsdPause>>

\* Mutant of EndDialog: it returns to its caller instead of the dialog's.
EndDialogReturns ==
    /\ Calling("EndDialog") /\ s_dlg_active /\ s_dlg_ret.own = cpu.own
    /\ s_dlg_active' = FALSE
    /\ UNCHANGED <<sched, estate, stack, s_callstack, s_dlg_ret, nsdPause>>

\* EndDialog of the open dialog, by the thread that opened it (a call without
\* an open dialog changes nothing).
EndDialog ==
    /\ Calling("EndDialog") /\ s_dlg_active /\ s_dlg_ret.own = cpu.own
    /\ s_dlg_active' = FALSE
    /\ s_callstack' = <<>>
    /\ sched' = Jump(sched, s_dlg_ret, "guest")
    /\ UNCHANGED <<estate, stack, s_dlg_ret, nsdPause>>

\* nsDialogs::Show on a page of the open dialog: the engine waits past the call.
NsdShow ==
    /\ Calling("Show") /\ s_dlg_active
    /\ estate' = "PAUSED"
    /\ nsdPause' = TRUE
    /\ UNCHANGED <<sched, stack, s_callstack, s_dlg_active, s_dlg_ret>>

\* Mutant of Tap: a page is not told from a dialog that waits.
TapAlwaysCommands ==
    /\ s_dlg_active /\ estate = "PAUSED"
    /\ estate' = "RUNNING"
    /\ Enter("dialog")
    /\ UNCHANGED <<s_callstack, s_dlg_active, s_dlg_ret, nsdPause>>

\* The user taps a button: handleTap and wg_engine_dialog_command.  A page only
\* resumes; a dialog gets WM_COMMAND.
Tap ==
    /\ s_dlg_active /\ estate = "PAUSED"
    /\ estate' = "RUNNING"
    /\ nsdPause' = FALSE
    /\ IF nsdPause THEN UNCHANGED <<sched, stack>> ELSE Enter("dialog")
    /\ UNCHANGED <<s_callstack, s_dlg_active, s_dlg_ret>>

-----------------------------------------------------------------------------
(* Threads, as in WGSync.                                                  *)

\* When the thread table is full the thread function runs as a callback of the
\* caller; when the frames are used up too the call is made again and again.
Spawn ==
    /\ Calling("CreateThread") \/ (Running /\ cpu.at = "CreateThread")
    /\ \/ \E i \in Slots :
            /\ FirstFree(sched, i)
            /\ sched' = CreateThread(sched, i, NewContext(i), FALSE)
            /\ UNCHANGED <<stack, s_callstack>>
       \/ /\ \A i \in Slots : sched.st[i] # "FREE"
          /\ IF CanCall THEN wg_call_wndproc
             ELSE sched' = GoTo(sched, "CreateThread") /\ UNCHANGED <<stack, s_callstack>>
    /\ UNCHANGED <<estate, s_dlg_active, s_dlg_ret, nsdPause>>

Sleep ==
    /\ Calling("Sleep")
    /\ sched' = Yield(sched, "READY")
    /\ UNCHANGED <<estate, stack, s_callstack, s_dlg_active, s_dlg_ret, nsdPause>>

ExitThreadCall ==
    /\ Calling("ExitThread")
    /\ LET gone == ExitThread(sched)
       IN  sched' = IF gone.cur = NoThread THEN GoTo(gone, "zero") ELSE gone
    /\ UNCHANGED <<estate, stack, s_callstack, s_dlg_active, s_dlg_ret, nsdPause>>

\* The thread function (or the program) returns to address zero.
ThreadReturns ==
    /\ Calling("return") /\ cpu.sp = 0
    /\ sched' = GoTo(sched, "zero")
    /\ UNCHANGED <<estate, stack, s_callstack, s_dlg_active, s_dlg_ret, nsdPause>>

TickThreadEnded ==
    /\ Running /\ cpu.at = "zero"
    /\ sched.cur \notin {NoThread, Main}
    /\ LET woken == Wake(ExitThread(sched), ThreadHandle(sched.cur))
       IN  /\ sched'  = SwitchNext(woken)
           /\ estate' = IF CanSwitch(woken) THEN estate ELSE "STOPPED"
    /\ UNCHANGED <<stack, s_callstack, s_dlg_active, s_dlg_ret, nsdPause>>

TickProgramEnded ==
    /\ Running /\ cpu.at = "zero"
    /\ sched.cur \in {NoThread, Main}
    /\ estate' = "STOPPED"
    /\ UNCHANGED <<sched, stack, s_callstack, s_dlg_active, s_dlg_ret, nsdPause>>

\* A tick of a PAUSED engine parks the thread that waits and runs a worker.
TickPaused ==
    /\ estate = "PAUSED"
    /\ CanSwitch(sched)
    /\ sched' = SwitchNext(SaveCurrent(sched, "WAITING"))
    /\ estate' = "RUNNING"
    /\ UNCHANGED <<stack, s_callstack, s_dlg_active, s_dlg_ret, nsdPause>>

-----------------------------------------------------------------------------
(* Specification.  Init is a program that has just been started.           *)

Init ==
    /\ sched = [st     |-> [t \in Slots |-> IF t = Main THEN "RUNNING" ELSE "FREE"],
                cur    |-> Main,
                waitOn |-> [t \in Slots |-> 0],
                regs   |-> [t \in Slots |-> NewContext(t)],
                cpu    |-> NewContext(Main)]
    /\ estate = "RUNNING"
    /\ stack = [t \in Slots |-> [i \in 1 .. StackSize |-> "message"]]
    /\ s_callstack = <<>>
    /\ s_dlg_active = FALSE
    /\ s_dlg_ret = [own |-> Main, sp |-> 0]
    /\ nsdPause = FALSE

Next ==
    \/ SendMessage \/ CreateDialogParam \/ MessageReturns
    \/ DialogBoxParam \/ DialogSentinel \/ EndDialog \/ NsdShow \/ Tap
    \/ Spawn \/ Sleep \/ ExitThreadCall \/ ThreadReturns
    \/ TickThreadEnded \/ TickProgramEnded \/ TickPaused

Spec == Init /\ [][Next]_modalVars

-----------------------------------------------------------------------------
(* Properties.                                                             *)

TypeOK ==
    /\ sched \in Scheduler(Context)
    /\ estate \in {"RUNNING", "PAUSED", "STOPPED"}
    /\ stack \in [Slots -> [1 .. StackSize -> Sentinels]]
    /\ s_callstack \in Seq(Caller) /\ Len(s_callstack) <= MaxCalls
    /\ s_dlg_active \in BOOLEAN
    /\ s_dlg_ret \in Caller
    /\ nsdPause \in BOOLEAN

Alive(t) == sched.st[t] \notin {"FREE", "EXITED"}

\* The registers of a thread, wherever they are.
Registers(t) == IF t = sched.cur THEN cpu ELSE sched.regs[t]

\* A window procedure returns to the SendMessage caller that is waiting for it
\* (wg_engine.c:1409-1410), never to that of another thread: every thread runs on
\* its own stack.
OwnStack == \A t \in Slots : Alive(t) => Registers(t).own = t

\* The frame f is that of a window procedure in progress.
Pending(f) ==
    /\ Alive(f.own)
    /\ f.sp < Registers(f.own).sp
    /\ stack[f.own][f.sp + 1] = "message"

\* Each window procedure in progress has its frame,
Framed ==
    \A t \in Slots : Alive(t) =>
        \A i \in 1 .. Registers(t).sp : stack[t][i] = "message" =>
            \E k \in DOMAIN s_callstack : s_callstack[k] = [own |-> t, sp |-> i - 1]

\* there are no other frames,
InProgress == \A k \in DOMAIN s_callstack : Pending(s_callstack[k])

\* and the frames of a thread are in the order of its calls.
InOrder ==
    \A j, k \in DOMAIN s_callstack :
        j < k /\ s_callstack[j].own = s_callstack[k].own =>
            s_callstack[j].sp < s_callstack[k].sp

\* The frames of s_callstack are the window procedures in progress of each
\* thread, and lead back to where those were called.  (A frame left behind or
\* taken away sends a later return to the wrong place, or ends the program.)
FramesMatch == Framed /\ InProgress /\ InOrder

\* A PAUSED engine can be answered: a dialog is open whose buttons handleTap can
\* hit (wg_engine.c:1399-1401, the modal dialog stays until EndDialog).
PauseAnswerable == estate = "PAUSED" => s_dlg_active

\* What WGCalls sees: the calls open on the stack of each thread, and the dialog.
CallsOf(t) == IF Alive(t) THEN SubSeq(stack[t], 1, Registers(t).sp) ELSE <<>>

openCalls  == [t \in Slots |-> CallsOf(t)]
openDialog == IF s_dlg_active THEN <<[by |-> s_dlg_ret.own, above |-> s_dlg_ret.sp]>>
              ELSE <<>>

Abstract == INSTANCE WGCalls WITH
    Threads <- Slots, calls <- openCalls, modal <- openDialog

\* Callbacks nest per thread as on Windows: a return pops the returning thread's
\* own call, EndDialog goes back to the DialogBoxParam it ends and abandons only
\* the calls above it, a tap enters the dialog procedure where the dialog waits.
CallsNest == Abstract!Spec

=============================================================================
