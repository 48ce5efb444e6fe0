------------------------------- MODULE WGSync -------------------------------
(***************************************************************************)
(* Guest threads and what they wait for: the engine tick, the thread and   *)
(* synchronisation thunks of Sources/Core/wg_engine.c, over the scheduler  *)
(* of WGThreading.                                                         *)
(*                                                                         *)
(* One host thread ticks the engine.  A tick lets blink run the current    *)
(* guest thread until its instruction pointer reaches a thunk, and then    *)
(* runs the handler of that Win32 call to completion; guest threads change *)
(* only inside handlers.  A handler that blocks leaves the instruction     *)
(* pointer AT the thunk, so the call is handled again from the start when  *)
(* the thread is next picked.  A step of this module is one handler (with  *)
(* the guest code that led to it), one of the tick's own branches, or one  *)
(* call of the user interface.                                             *)
(*                                                                         *)
(* A register file is abstracted to the thread it belongs to (own), how    *)
(* many calls that thread has completed in it (n), and where its           *)
(* instruction pointer is (at): in guest code, at the thunk of a blocking  *)
(* call and its arguments, or at address zero.                             *)
(***************************************************************************)
EXTENDS WGThreading, Sequences

CONSTANTS
    MaxEvents,      \* WG_MAX_EVENTS, 256 in the code
    IocpCapacity,   \* completions the ring holds, WG_MAX_COMPLETIONS - 1 = 63
    CallModulus,    \* bound on the history of completed calls
    Calls,          \* the calls the guest program and its user make
    Timeouts        \* the timeouts the program passes to waits

CallNames ==
    {"CreateThread", "CreateSuspended", "ResumeThread", "return", "ExitThread",
     "ExitProcess", "crash", "Sleep", "GetMessage", "CreateEvent", "SetEvent",
     "ResetEvent", "WaitSingle", "WaitMultiple", "GQCS", "PostQCS", "Show"}

ASSUME SyncAssumption ==
    /\ MaxThreads <= 32
    /\ MaxEvents \in 0 .. 256
    /\ IocpCapacity \in Nat
    /\ CallModulus \in Nat \ {0}
    /\ Calls \subseteq CallNames
    /\ Timeouts \subseteq {"zero", "finite", "infinite"}

VARIABLES
    sched,      \* the scheduler and blink's registers
    estate,     \* engine->state
    evNext,     \* s_event_next: event slots handed out
    evSig,      \* s_event_signalled
    evManual,   \* s_event_manual
    iocp,       \* completions in s_completions
    nsdPause,   \* s_nsd_show_pause: an nsDialogs page is up
    done,       \* history: calls each thread has completed, modulo CallModulus
    exiting     \* history: the program called ExitProcess

syncVars == <<sched, estate, evNext, evSig, evManual, iocp, nsdPause, done, exiting>>

-----------------------------------------------------------------------------
(* Handles and register files.                                             *)

Events         == 0 .. MaxEvents - 1
EventHandle(e) == 512 + e                  \* WG_EVENT_BASE
IocpHandle     == 34048                    \* WG_IOCP_HANDLE

Ops == {"guest", "zero", "WaitSingle", "WaitMultiple", "GQCS"}

Place == [op  : Ops,
          hs  : Seq(Nat) \ {<<>>},         \* the handles of a wait
          all : BOOLEAN,                   \* bWaitAll
          to  : {"zero", "finite", "infinite"}]

Guest == [op |-> "guest", hs |-> <<0>>, all |-> FALSE, to |-> "zero"]
Zero  == [op |-> "zero", hs |-> <<0>>, all |-> FALSE, to |-> "zero"]

\* Completed calls are counted modulo CallModulus.
Counts  == 0 .. CallModulus - 1
Bump(n) == IF n + 1 = CallModulus THEN 0 ELSE n + 1

Context == [own : Slots, n : Counts, at : Place]

NewContext(t) == [own |-> t, n |-> 0, at |-> Guest]

KnownHandles ==
    {EventHandle(e) : e \in 0 .. evNext - 1}
    \cup {ThreadHandle(t) : t \in {u \in Slots \ {Main} : sched.st[u] # "FREE"}}

-----------------------------------------------------------------------------
(* The shape of a handler.                                                 *)

Running == estate = "RUNNING"

\* Guest code of the current thread makes this call now.
Calling(call) == Running /\ call \in Calls /\ sched.cpu.at = Guest

\* wg_blink_set_rip.
GoTo(s, place) == [s EXCEPT !.cpu.at = place]

\* The common epilogue: back to the caller, with the result in EAX.
Returned(s) == [s EXCEPT !.cpu.at = Guest, !.cpu.n = Bump(@)]

\* The call made by the thread that entered the handler is over.
Counted == done' = [done EXCEPT ![sched.cpu.own] = Bump(@)]

\* Waits in progress: the one the instruction pointer is stopped at, or one
\* that guest code starts now.
Handling(op, fresh) ==
    IF sched.cpu.at.op = op THEN {sched.cpu.at}
    ELSE IF Calling(op) THEN fresh
    ELSE {}

\* A thread about to block: its instruction pointer stays at the call, and the
\* handle it waits for is registered.
Armed(s, call, handle) == [s EXCEPT !.cpu.at = call, !.waitOn[s.cur] = handle]

\* Mutant of Block: the handler goes on to its epilogue after a switch.
BlockFallsThrough(call, handle, reason) ==
    LET armed == Armed(sched, call, handle)
    IN  sched' = Returned(Yield(armed, reason)) /\ Counted

\* Yield, and either leave the call pending at its
\* thunk or, when no thread is READY, return to the guest at once.
Block(call, handle, reason) ==
    LET armed == Armed(sched, call, handle)
        after == Yield(armed, reason)
    IN  IF Switched(armed, reason)
        THEN sched' = after /\ UNCHANGED done
        ELSE sched' = Returned(after) /\ Counted

-----------------------------------------------------------------------------
(* Events and waits.                                                       *)

CreateEvent ==
    /\ Calling("CreateEvent")
    /\ \/ /\ evNext < MaxEvents
          /\ evNext' = evNext + 1
          /\ \E manual, initial \in BOOLEAN :
               /\ evManual' = [evManual EXCEPT ![evNext] = manual]
               /\ evSig'    = [evSig EXCEPT ![evNext] = initial]
       \/ /\ evNext = MaxEvents       \* the table is full: a null handle
          /\ UNCHANGED <<evNext, evSig, evManual>>
    /\ sched' = Returned(sched) /\ Counted
    /\ UNCHANGED <<estate, iocp, nsdPause, exiting>>

\* Mutant of SetEvent: the flag is set and nobody is woken.
SetEventSilently ==
    /\ Calling("SetEvent")
    /\ \E e \in 0 .. evNext - 1 : evSig' = [evSig EXCEPT ![e] = TRUE]
    /\ sched' = Returned(sched) /\ Counted
    /\ UNCHANGED <<estate, evNext, evManual, iocp, nsdPause, exiting>>

SetEvent ==
    /\ Calling("SetEvent")
    /\ \E e \in 0 .. evNext - 1 :
         /\ evSig' = [evSig EXCEPT ![e] = TRUE]
         /\ sched' = Returned(Wake(sched, EventHandle(e)))
    /\ Counted
    /\ UNCHANGED <<estate, evNext, evManual, iocp, nsdPause, exiting>>

ResetEvent ==
    /\ Calling("ResetEvent")
    /\ \E e \in 0 .. evNext - 1 : evSig' = [evSig EXCEPT ![e] = FALSE]
    /\ sched' = Returned(sched) /\ Counted
    /\ UNCHANGED <<estate, evNext, evManual, iocp, nsdPause, exiting>>

Signalled(h) ==
    \/ \E e \in Events : h = EventHandle(e) /\ evSig[e]
    \/ \E t \in Slots  : h = ThreadHandle(t) /\ sched.st[t] = "EXITED"

Satisfied(w) ==
    IF w.all THEN \A i \in DOMAIN w.hs : Signalled(w.hs[i])
             ELSE \E i \in DOMAIN w.hs : Signalled(w.hs[i])

\* wg_event_consume on a set of handles: auto-reset events are cleared.
Consume(H) ==
    evSig' = [e \in Events |-> evSig[e] /\ (EventHandle(e) \in H => evManual[e])]

ConsumedBy(w) ==
    IF w.all THEN {w.hs[i] : i \in DOMAIN w.hs}
    ELSE {w.hs[i] : i \in {j \in DOMAIN w.hs :
              Signalled(w.hs[j]) /\ \A k \in 1 .. j - 1 : ~Signalled(w.hs[k])}}

\* A finite timeout polls (READY); an infinite one blocks (WAITING).
WaitReason(w) == IF w.to = "infinite" THEN "WAITING" ELSE "READY"

\* Mutant of Wait: the last handle is registered instead of the first.
WaitOnLast(w) ==
    \/ /\ Satisfied(w)
       /\ Consume(ConsumedBy(w))
       /\ sched' = Returned(sched) /\ Counted
    \/ /\ ~Satisfied(w)
       /\ Block(w, w.hs[Len(w.hs)], WaitReason(w))
       /\ UNCHANGED evSig

\* The common body of the wait thunks.  It registers the first handle only.
Wait(w) ==
    \/ /\ Satisfied(w)
       /\ Consume(ConsumedBy(w))
       /\ sched' = Returned(sched) /\ Counted
    \/ /\ ~Satisfied(w) /\ w.to = "zero"
       /\ sched' = Returned(sched) /\ Counted
       /\ UNCHANGED evSig
    \/ /\ ~Satisfied(w) /\ w.to # "zero"
       /\ Block(w, w.hs[1], WaitReason(w))
       /\ UNCHANGED evSig

WaitForSingleObject ==
    /\ Running
    /\ \E w \in Handling("WaitSingle",
                  [op : {"WaitSingle"}, hs : {<<h>> : h \in KnownHandles},
                   all : {FALSE}, to : Timeouts]) : Wait(w)
    /\ UNCHANGED <<estate, evNext, evManual, iocp, nsdPause, exiting>>

WaitForMultipleObjects ==
    /\ Running
    /\ \E w \in Handling("WaitMultiple",
                  [op : {"WaitMultiple"}, hs : {p \in KnownHandles \X KnownHandles : p[1] # p[2]},
                   all : BOOLEAN, to : Timeouts]) : Wait(w)
    /\ UNCHANGED <<estate, evNext, evManual, iocp, nsdPause, exiting>>

-----------------------------------------------------------------------------
(* The completion port.  Only the number of queued completions matters     *)
(* here; their order is the subject of WGQueues.                           *)

\* Mutant of PostQueuedCompletionStatus: a full ring is not noticed.
PostUnbounded ==
    /\ Calling("PostQCS")
    /\ iocp' = iocp + 1
    /\ sched' = Returned(Wake(sched, IocpHandle)) /\ Counted
    /\ UNCHANGED <<estate, evNext, evSig, evManual, nsdPause, exiting>>

\* Also what ConnectEx, WSASend and WSARecv do once the host I/O is done.
PostQueuedCompletionStatus ==
    /\ Calling("PostQCS")
    /\ iocp' = IF iocp < IocpCapacity THEN iocp + 1 ELSE iocp
    /\ sched' = Returned(Wake(sched, IocpHandle)) /\ Counted
    /\ UNCHANGED <<estate, evNext, evSig, evManual, nsdPause, exiting>>

\* Blocks as WAITING whatever the (nonzero) timeout.
GetQueuedCompletionStatus ==
    /\ Running
    /\ \E w \in Handling("GQCS", [op : {"GQCS"}, hs : {<<IocpHandle>>},
                                  all : {FALSE}, to : Timeouts]) :
         \/ /\ iocp > 0
            /\ iocp' = iocp - 1
            /\ sched' = Returned(sched) /\ Counted
         \/ /\ iocp = 0 /\ w.to = "zero"
            /\ sched' = Returned(sched) /\ Counted
            /\ UNCHANGED iocp
         \/ /\ iocp = 0 /\ w.to # "zero"
            /\ Block(w, IocpHandle, "WAITING")
            /\ UNCHANGED iocp
    /\ UNCHANGED <<estate, evNext, evSig, evManual, nsdPause, exiting>>

-----------------------------------------------------------------------------
(* Threads.                                                                *)

\* CreateThread and its relatives.  When the table is full no thread is made:
\* the caller gets a null handle, or runs the function on its own stack.
Spawn(call, suspended) ==
    /\ Calling(call)
    /\ \/ \E i \in Slots :
            /\ FirstFree(sched, i)
            /\ sched' = Returned(CreateThread(sched, i, NewContext(i), suspended))
            /\ done' = [done EXCEPT ![sched.cpu.own] = Bump(@), ![i] = 0]
       \/ /\ \A i \in Slots : sched.st[i] # "FREE"
          /\ sched' = Returned(sched) /\ Counted
    /\ UNCHANGED <<estate, evNext, evSig, evManual, iocp, nsdPause, exiting>>

SpawnReady     == Spawn("CreateThread", FALSE)
SpawnSuspended == Spawn("CreateSuspended", TRUE)

ResumeThread ==
    /\ Calling("ResumeThread")
    /\ \E i \in Slots : /\ ThreadHandle(i) \in KnownHandles
                        /\ sched' = Returned(Resume(sched, i))
    /\ Counted
    /\ UNCHANGED <<estate, evNext, evSig, evManual, iocp, nsdPause, exiting>>

\* Sleep with a nonzero interval: return to the guest, then yield.
Sleep ==
    /\ Calling("Sleep")
    /\ sched' = Yield(Returned(sched), "READY") /\ Counted
    /\ UNCHANGED <<estate, evNext, evSig, evManual, iocp, nsdPause, exiting>>

\* The message pump always has a message; it yields and idles if alone.
GetMessage ==
    /\ Calling("GetMessage")
    /\ sched' = Yield(Returned(sched), "READY") /\ Counted
    /\ estate' = IF Switched(Returned(sched), "READY") THEN "RUNNING" ELSE "PAUSED"
    /\ UNCHANGED <<evNext, evSig, evManual, iocp, nsdPause, exiting>>

ExitThreadCall ==
    /\ Calling("ExitThread")
    /\ LET gone == ExitThread(sched)
       IN  sched' = IF gone.cur = NoThread THEN GoTo(gone, Zero) ELSE gone
    /\ UNCHANGED <<estate, evNext, evSig, evManual, iocp, nsdPause, done, exiting>>

\* A thread function returns to the zero return address that create_thread (or
\* the set-up of the main stack) left.
ThreadReturns ==
    /\ Calling("return")
    /\ sched' = GoTo(sched, Zero)
    /\ UNCHANGED <<estate, evNext, evSig, evManual, iocp, nsdPause, done, exiting>>

\* ExitProcess, TerminateProcess and the CRT's exit functions.
ExitProcess ==
    /\ Calling("ExitProcess")
    /\ sched' = GoTo(sched, Zero)
    /\ exiting' = TRUE
    /\ UNCHANGED <<estate, evNext, evSig, evManual, iocp, nsdPause, done>>

-----------------------------------------------------------------------------
(* The tick's own branches.                                                *)

\* Mutant of TickThreadEnded: joiners are not woken.
TickThreadEndedUnseen ==
    /\ Running
    /\ sched.cpu.at = Zero
    /\ sched.cur \notin {NoThread, Main}
    /\ LET gone == ExitThread(sched)
       IN  /\ sched'  = SwitchNext(gone)
           /\ estate' = IF CanSwitch(gone) THEN estate ELSE "STOPPED"
    /\ UNCHANGED <<evNext, evSig, evManual, iocp, nsdPause, done, exiting>>

\* Address zero in a thread other than the main one: the thread ends, its
\* joiners are woken, and the tick switches once more.
TickThreadEnded ==
    /\ Running
    /\ sched.cpu.at = Zero
    /\ sched.cur \notin {NoThread, Main}
    /\ LET woken == Wake(ExitThread(sched), ThreadHandle(sched.cur))
       IN  /\ sched'  = SwitchNext(woken)
           /\ estate' = IF CanSwitch(woken) THEN estate ELSE "STOPPED"
    /\ UNCHANGED <<evNext, evSig, evManual, iocp, nsdPause, done, exiting>>

TickProgramEnded ==
    /\ Running
    /\ sched.cpu.at = Zero
    /\ sched.cur \in {NoThread, Main}
    /\ estate' = "STOPPED"
    /\ UNCHANGED <<sched, evNext, evSig, evManual, iocp, nsdPause, done, exiting>>

\* A fault in guest code that the tick cannot recover from.
TickCrash ==
    /\ Calling("crash")
    /\ estate' = "STOPPED"
    /\ UNCHANGED <<sched, evNext, evSig, evManual, iocp, nsdPause, done, exiting>>

\* Mutant of TickPaused: the registers of the parked thread are not saved.
TickPausedUnsaved ==
    /\ estate = "PAUSED"
    /\ CanSwitch(sched)
    /\ sched' = SwitchNext([sched EXCEPT !.st[sched.cur] = "WAITING"])
    /\ estate' = "RUNNING"
    /\ UNCHANGED <<evNext, evSig, evManual, iocp, nsdPause, done, exiting>>

\* A tick of a PAUSED engine runs the workers: the current thread is parked
\* as WAITING and the engine goes back to RUNNING.
TickPaused ==
    /\ estate = "PAUSED"
    /\ CanSwitch(sched)
    /\ sched' = SwitchNext(SaveCurrent(sched, "WAITING"))
    /\ estate' = "RUNNING"
    /\ UNCHANGED <<evNext, evSig, evManual, iocp, nsdPause, done, exiting>>

-----------------------------------------------------------------------------
(* The user interface.                                                     *)

EngineRun ==
    /\ estate = "LOADED"
    /\ estate' = "RUNNING"
    /\ UNCHANGED <<sched, evNext, evSig, evManual, iocp, nsdPause, done, exiting>>

\* nsDialogs::Show paints the page and pauses; the guest is past the call.
NsdShow ==
    /\ Calling("Show")
    /\ sched' = Returned(sched) /\ Counted
    /\ estate' = "PAUSED"
    /\ nsdPause' = TRUE
    /\ UNCHANGED <<evNext, evSig, evManual, iocp, exiting>>

\* The user taps Next: wg_engine_dialog_command, nsDialogs branch.
NextTap ==
    /\ estate = "PAUSED" /\ nsdPause
    /\ nsdPause' = FALSE
    /\ estate' = "RUNNING"
    /\ UNCHANGED <<sched, evNext, evSig, evManual, iocp, done, exiting>>

-----------------------------------------------------------------------------
(* Specification.  Init is the engine as wg_engine_load_pe leaves it.      *)

Init ==
    /\ sched = [st     |-> [t \in Slots |-> IF t = Main THEN "RUNNING" ELSE "FREE"],
                cur    |-> Main,
                waitOn |-> [t \in Slots |-> 0],
                regs   |-> [t \in Slots |-> NewContext(t)],
                cpu    |-> NewContext(Main)]
    /\ estate = "LOADED"
    /\ evNext = 0
    /\ evSig = [e \in Events |-> FALSE]
    /\ evManual = [e \in Events |-> FALSE]
    /\ iocp = 0
    /\ nsdPause = FALSE
    /\ done = [t \in Slots |-> 0]
    /\ exiting = FALSE

\* The calls that always give up the processor.
YieldingCall == Sleep \/ GetMessage

Tick ==
    \/ CreateEvent \/ SetEvent \/ ResetEvent \/ PostQueuedCompletionStatus
    \/ SpawnReady \/ SpawnSuspended \/ ResumeThread
    \/ WaitForSingleObject \/ WaitForMultipleObjects \/ GetQueuedCompletionStatus
    \/ YieldingCall
    \/ ExitThreadCall \/ ThreadReturns \/ ExitProcess
    \/ TickThreadEnded \/ TickProgramEnded \/ TickCrash \/ TickPaused
    \/ NsdShow

Next == Tick \/ EngineRun \/ NextTap

Spec == Init /\ [][Next]_syncVars

(* Fairness.  engineLoop calls wg_engine_tick again and again while the    *)
(* engine is RUNNING or PAUSED, and wg_engine_run follows a load.  That a  *)
(* thread in guest code sooner or later sleeps or pumps its messages is an *)
(* assumption on the program: the scheduler never preempts it.             *)
Fairness ==
    /\ WF_syncVars(EngineRun)
    /\ WF_syncVars(Tick)
    /\ WF_syncVars(YieldingCall)

FairSpec == Spec /\ Fairness

-----------------------------------------------------------------------------
(* Properties.                                                             *)

TypeOK ==
    /\ sched \in Scheduler(Context)
    /\ estate \in {"LOADED", "RUNNING", "PAUSED", "STOPPED"}
    /\ evNext \in 0 .. MaxEvents
    /\ evSig \in [Events -> BOOLEAN]
    /\ evManual \in [Events -> BOOLEAN]
    /\ iocp \in 0 .. IocpCapacity
    /\ nsdPause \in BOOLEAN
    /\ done \in [Slots -> Counts]
    /\ exiting \in BOOLEAN

\* The thread the scheduler calls current is RUNNING, and an engine that
\* runs without one (after the last ExitThread) is stopped at address zero.
CurrentRuns ==
    /\ sched.cur # NoThread => sched.st[sched.cur] = "RUNNING"
    /\ Running /\ sched.cur = NoThread => sched.cpu.at = Zero

\* Registers never reach the wrong thread and never go back in time: blink
\* holds the current thread's registers, the table holds those of every other
\* live thread, and each is at the call its thread completed last.  (A handler
\* that used the registers after a yield that switched would break this.)
ContextsFaithful ==
    \A t \in Slots : sched.st[t] \notin {"FREE", "EXITED"} =>
        LET c == IF t = sched.cur THEN sched.cpu ELSE sched.regs[t]
        IN  c.own = t /\ c.n = done[t]

\* No lost wake-up: no thread is blocked on an event that is signalled (the one
\* event of a WaitForSingleObject, the FIRST of a wait for any of several), or
\* on the completion port while a completion is queued.  (WaitForSingleObject and
\* GetQueuedCompletionStatus test, register and yield without interruption;
\* SetEvent and the completions set and wake.)
NoLostWakeup ==
    \A t \in Slots : sched.st[t] = "WAITING" =>
        LET at == sched.regs[t].at
        IN  /\ at.op \in {"WaitSingle", "WaitMultiple"} /\ ~at.all =>
                 \A e \in Events : at.hs[1] = EventHandle(e) => ~evSig[e]
            /\ at.op = "GQCS" => iocp = 0

\* No lost join: no thread is blocked on the handle of a thread that exited.
\* (wg_engine.c:3413-3415: an INFINITE wait blocks until signalled.)
NoLostJoin ==
    \A t, u \in Slots : sched.st[t] = "WAITING" /\ sched.st[u] = "EXITED" =>
        LET at == sched.regs[t].at
        IN  at.op = "WaitSingle" => at.hs[1] # ThreadHandle(u)

\* As NoLostWakeup, for the waits on any of several events.
NoLostMultiWakeup ==
    \A t \in Slots : sched.st[t] = "WAITING" =>
        LET at == sched.regs[t].at
        IN  at.op = "WaitMultiple" /\ ~at.all => \A i \in DOMAIN at.hs :
                \A e \in Events : at.hs[i] = EventHandle(e) => ~evSig[e]

\* At most one thread is RUNNING (wg_threading.h:42: current is the index of
\* the running thread).
OneRunning ==
    \A t \in Slots : sched.st[t] = "RUNNING" => t = sched.cur

\* Round robin: whenever one thread hands the processor to another, every thread
\* that was READY and still is has moved up in the order in which switch_next
\* probes the table.  (Not when the thread ends: exit_thread forgets its slot
\* and the scan starts again at slot 0.)
RoundRobin ==
    [][\A t \in Slots :
          /\ sched.cur # sched'.cur
          /\ NoThread \notin {sched.cur, sched'.cur}
          /\ sched'.st[sched.cur] # "EXITED"
          /\ sched.st[t] = "READY" /\ sched'.st[t] = "READY"
          => Dist(sched'.cur, t) < Dist(sched.cur, t)]_syncVars

\* An exited thread stays exited, and its slot is never reused: a handle that
\* was signalled by an exit stays signalled.
ExitedForever ==
    [][\A t \in Slots : sched.st[t] = "EXITED" => sched'.st[t] = "EXITED"]_syncVars

\* Once some thread has called ExitProcess no thread completes another call
\* (wg_engine.c:1862-1864, "Halt the VM like ExitProcess so a normal console
\* app terminates cleanly").
ExitProcessHalts == [][exiting => UNCHANGED done]_syncVars

\* While an nsDialogs page is up the program does not end by itself
\* (wg_engine.c:1121-1124, the Next tap resumes it).
PageHoldsProgram == nsdPause => estate # "STOPPED"

\* An engine with nothing READY but the pumping thread idles
\* (wg_engine.c:1851-1854): after GetMessage it is PAUSED.
LonePumpIdles ==
    [][GetMessage /\ ReadySlots(sched) = {} => estate' = "PAUSED"]_syncVars

\* No READY thread starves among threads that keep calling into the engine.
NoStarvation ==
    \A t \in Slots : sched.st[t] = "READY" ~> sched.cur = t

\* A thread that waits on a manual-reset event gets past its wait once the
\* event is set, unless the event is reset first.  (SetEvent only makes it
\* READY: it must be picked, and find the event still set.)
WaitingOn(t, e) ==
    LET at == IF t = sched.cur THEN sched.cpu.at ELSE sched.regs[t].at
    IN  /\ sched.st[t] # "EXITED"
        /\ at.op = "WaitSingle" /\ at.hs[1] = EventHandle(e)

SetEventReleases ==
    \A t \in Slots, e \in Events :
        (WaitingOn(t, e) /\ evSig[e] /\ evManual[e])
            ~> (~WaitingOn(t, e) \/ ~evSig[e])

=============================================================================
