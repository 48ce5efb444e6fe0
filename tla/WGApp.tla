------------------------------- MODULE WGApp -------------------------------
(***************************************************************************)
(* The application around the engine (WGSceneDelegate.m): which threads    *)
(* run it, and when.  The main thread takes the user's picks and taps,     *)
(* composes the windows and starts the engine's thread; a block of a       *)
(* background queue loads each program; the engine's thread ticks it, and  *)
(* may ask for another program to be loaded when it ends.                  *)
(*                                                                         *)
(* What the guest does in a tick is left open (WGSync and the modules it   *)
(* composes have that): the tick leaves the engine running, paused in a    *)
(* dialog or stopped.  A generation of the window table stands for the     *)
(* client buffers that wg_wm_reset frees all at once.                      *)
(***************************************************************************)
EXTENDS Integers, FiniteSets

CONSTANTS
    MaxLoads,       \* bound: programs loaded
    MaxLoops        \* bound: engine threads started

ASSUME BoundsAssumption == MaxLoads \in Nat /\ MaxLoops \in Nat

VARIABLES
    state,          \* engine->state, or "gone" after wg_engine_destroy
    flag,           \* _engineThreadRunning
    latest,         \* _engineThread: the last loop started, 0 at first
    loops,          \* where each engine thread is
    main,           \* what the main thread is in
    loads,          \* where each load is
    pending,        \* s_pending_exec is set
    table,          \* generation of the window table
    shown,          \* a window with a client buffer is visible
    reading,        \* the generation whose buffers each reader holds, 0 if none
    sins            \* what happened that the rest is not promised under

appVars == <<state, flag, latest, loops, main, loads, pending, table, shown, reading, sins>>

Loops   == 1 .. MaxLoops
Loads   == 1 .. MaxLoads
\* Who holds a buffer: an engine thread, or the main thread (0).
Readers == {0} \cup Loops

-----------------------------------------------------------------------------
AppInit ==
    /\ state = "idle"
    /\ flag = FALSE
    /\ latest = 0
    /\ loops = [t \in Loops |-> "unborn"]
    /\ main = "idle"
    /\ loads = [n \in Loads |-> "unasked"]
    /\ pending = FALSE
    /\ table = 1
    /\ shown = FALSE
    /\ reading = [r \in Readers |-> 0]
    /\ sins = {}

Ticking(t)  == loops[t] \in {"paused tick", "tick"}
Unfinished(t) == loops[t] \notin {"unborn", "finished"}

-----------------------------------------------------------------------------
(* Loading. *)

IsNext(n) == loads[n] = "unasked" /\ \A k \in 1 .. n - 1 : loads[k] # "unasked"

\* loadAndRunPE: the load is given to a background queue.
loadAndRunPE(n) == loads' = [loads EXCEPT ![n] = "dispatched"]

\* documentPicker: the user chose a program, whatever the engine is doing.
documentPicker ==
    /\ main = "idle" /\ state # "gone"
    /\ \E n \in Loads : IsNext(n) /\ loadAndRunPE(n)
    /\ sins' = IF \E t \in Loops : Unfinished(t) THEN sins \cup {"picked while running"}
               ELSE IF \E n \in Loads : loads[n] \notin {"unasked", "over"}
               THEN sins \cup {"loads overlap"} ELSE sins
    /\ UNCHANGED <<state, flag, latest, loops, main, pending, table, shown, reading>>

\* wg_engine_load_pe first frees the windows and forgets what the last program left.
ResetWindows(n) ==
    /\ loads[n] = "dispatched" /\ state # "gone"
    /\ loads' = [loads EXCEPT ![n] = "reset"]
    /\ table' = table + 1
    /\ shown' = FALSE
    /\ pending' = FALSE
    /\ UNCHANGED <<state, flag, latest, loops, main, reading, sins>>

\* and then reads the file; the completion is a block for the main thread.
LoadImage(n) ==
    /\ loads[n] = "reset" /\ state # "gone"
    /\ \/ state' = "loaded" /\ loads' = [loads EXCEPT ![n] = "loaded"]
       \/ state' = "error"  /\ loads' = [loads EXCEPT ![n] = "over"]
    /\ UNCHANGED <<flag, latest, loops, main, pending, table, shown, reading, sins>>

\* The completion on the main thread: wg_engine_run, which refuses an engine that
\* is not LOADED, and the first line of startEngineThread.
RunLoaded(n) ==
    /\ main = "idle" /\ loads[n] = "loaded" /\ state # "gone"
    /\ state' = IF state = "loaded" THEN "running" ELSE state
    /\ loads' = [loads EXCEPT ![n] = "over"]
    /\ flag' = FALSE
    /\ main' = "waits"
    /\ UNCHANGED <<latest, loops, pending, table, shown, reading, sins>>

-----------------------------------------------------------------------------
(* startEngineThread. *)

\* Mutant of PriorFinished: the new thread is started at once.
PriorFinished_any == TRUE

PriorFinished == latest \in Loops => loops[latest] = "finished"

\* Mutant of StartLoop: the flag is left as it was for the prior thread.
StartLoop_unflagged ==
    /\ main = "waits" /\ PriorFinished
    /\ latest < MaxLoops
    /\ latest' = latest + 1
    /\ loops' = [loops EXCEPT ![latest + 1] = "begun"]
    /\ main' = "idle"
    /\ UNCHANGED <<state, flag, loads, pending, table, shown, reading, sins>>

\* The prior thread is finished, so a new one is made.
StartLoop ==
    /\ main = "waits" /\ PriorFinished
    /\ latest < MaxLoops
    /\ flag' = TRUE
    /\ latest' = latest + 1
    /\ loops' = [loops EXCEPT ![latest + 1] = "begun"]
    /\ main' = "idle"
    /\ UNCHANGED <<state, loads, pending, table, shown, reading, sins>>

\* Two seconds are over and the prior thread is still in its tick.
StartLoopAnyway ==
    /\ main = "waits" /\ latest \in Loops /\ Ticking(latest)
    /\ latest < MaxLoops
    /\ flag' = TRUE
    /\ latest' = latest + 1
    /\ loops' = [loops EXCEPT ![latest + 1] = "begun"]
    /\ main' = "idle"
    /\ sins' = sins \cup {"wait ran out"}
    /\ UNCHANGED <<state, loads, pending, table, shown, reading>>

-----------------------------------------------------------------------------
(* engineLoop. *)

\* The test of the loop, and the state it looks at.
LoopTest(t) ==
    /\ loops[t] = "begun"
    /\ loops' = [loops EXCEPT ![t] = IF ~ flag THEN "left"
                                     ELSE IF state = "running" THEN "tick"
                                     ELSE IF state = "paused" THEN "paused tick" ELSE "left"]
    /\ UNCHANGED <<state, flag, latest, main, loads, pending, table, shown, reading, sins>>

\* A tick of a paused engine runs a worker if one is ready, and is nothing if not.
TickPaused(t) ==
    /\ loops[t] = "paused tick"
    /\ \/ state = "paused" /\ state' = "running" /\ loops' = [loops EXCEPT ![t] = "tick"]
       \/ state' = state /\ loops' = [loops EXCEPT ![t] = "begun"]
    /\ UNCHANGED <<flag, latest, main, loads, pending, table, shown, reading, sins>>

\* In a tick the guest opens a window, or draws into one: it holds its buffer.
TickDraws(t) ==
    /\ loops[t] = "tick" /\ reading[t] = 0
    /\ shown' = TRUE
    /\ reading' = [reading EXCEPT ![t] = table]
    /\ UNCHANGED <<state, flag, latest, loops, main, loads, pending, table, sins>>

\* Mutant of TickEnds: the program asks for the next one at once, and goes on.
TickEnds_asks(t) ==
    /\ loops[t] = "tick"
    /\ \/ /\ loops' = [loops EXCEPT ![t] = "begun"]
          /\ reading' = [reading EXCEPT ![t] = 0]
          /\ state # "gone" /\ state' \in {state, "paused", "stopped"}
          /\ UNCHANGED loads
       \/ /\ \E n \in Loads : IsNext(n) /\ loads' = [loads EXCEPT ![n] = "queued"]
          /\ UNCHANGED <<state, loops, reading>>
    /\ UNCHANGED <<flag, latest, main, pending, table, shown, sins>>

\* The tick ends: nothing, a dialog, or the end of the program, which may ask for
\* another one.  It writes the state whatever is there by then.
TickEnds(t) ==
    /\ loops[t] = "tick"
    /\ loops' = [loops EXCEPT ![t] = "begun"]
    /\ reading' = [reading EXCEPT ![t] = 0]
    /\ \/ state' = state /\ UNCHANGED pending
       \/ state # "gone" /\ state' = "paused" /\ UNCHANGED pending
       \/ state # "gone" /\ state' = "stopped" /\ pending' \in {pending, TRUE}
    /\ UNCHANGED <<flag, latest, main, loads, table, shown, sins>>

\* wg_engine_take_pending_exec: once only, and the path is dropped if the flag is down.
\* The load is a block for the main thread.  (No load is asked for beyond MaxLoads.)
TakePending(t) ==
    /\ loops[t] = "left"
    /\ loops' = [loops EXCEPT ![t] = "returns"]
    /\ pending' = FALSE
    /\ IF pending /\ flag /\ \E n \in Loads : IsNext(n)
       THEN \E n \in Loads : IsNext(n) /\ loads' = [loads EXCEPT ![n] = "queued"]
       ELSE UNCHANGED loads
    /\ UNCHANGED <<state, flag, latest, main, table, shown, reading, sins>>

\* The thread returns, isFinished from then on.
LoopReturns(t) ==
    /\ loops[t] = "returns"
    /\ loops' = [loops EXCEPT ![t] = "finished"]
    /\ UNCHANGED <<state, flag, latest, main, loads, pending, table, shown, reading, sins>>

\* The main thread loads the program that the last one asked for, unless the engine
\* is gone.
ChainLoad(n) ==
    /\ main = "idle" /\ loads[n] = "queued" /\ state # "gone"
    /\ loadAndRunPE(n)
    /\ UNCHANGED <<state, flag, latest, loops, main, pending, table, shown, reading, sins>>

-----------------------------------------------------------------------------
(* The main thread: taps, frames, the end. *)

\* handleTap finds a button of the dialog, and the engine paused.
TapAims ==
    /\ main = "idle" /\ state = "paused"
    /\ main' = "taps"
    /\ UNCHANGED <<state, flag, latest, loops, loads, pending, table, shown, reading, sins>>

\* wg_engine_dialog_command sets the engine going, whatever it does by now.
TapLands ==
    /\ main = "taps"
    /\ main' = "idle"
    /\ state' = "running"
    /\ sins' = IF state = "paused" THEN sins ELSE sins \cup {"stray tap"}
    /\ UNCHANGED <<flag, latest, loops, loads, pending, table, shown, reading>>

\* renderFrame: the windows' buffers are found, and then copied.
RenderBegins ==
    /\ main = "idle" /\ shown
    /\ main' = "renders"
    /\ reading' = [reading EXCEPT ![0] = table]
    /\ UNCHANGED <<state, flag, latest, loops, loads, pending, table, shown, sins>>

RenderEnds ==
    /\ main = "renders"
    /\ main' = "idle"
    /\ reading' = [reading EXCEPT ![0] = 0]
    /\ UNCHANGED <<state, flag, latest, loops, loads, pending, table, shown, sins>>

\* sceneDidDisconnect: the flag goes down, and 20 ms later the engine is freed.
DisconnectBegins ==
    /\ main = "idle" /\ state # "gone"
    /\ flag' = FALSE
    /\ main' = "disconnects"
    /\ UNCHANGED <<state, latest, loops, loads, pending, table, shown, reading, sins>>

DisconnectEnds ==
    /\ main = "disconnects"
    /\ main' = "disconnected"
    /\ state' = "gone"
    /\ sins' = IF \E t \in Loops : Ticking(t) THEN sins \cup {"freed under a tick"} ELSE sins
    /\ UNCHANGED <<flag, latest, loops, loads, pending, table, shown, reading>>

-----------------------------------------------------------------------------
LoaderStep(n) == ResetWindows(n) \/ LoadImage(n)
LoopStep(t) ==
    LoopTest(t) \/ TickPaused(t) \/ TickEnds(t) \/ TakePending(t) \/ LoopReturns(t)
MainStep ==
    \/ \E n \in Loads : RunLoaded(n) \/ ChainLoad(n)
    \/ StartLoop \/ TapLands \/ RenderEnds \/ DisconnectEnds

AppNext ==
    \/ documentPicker
    \/ \E n \in Loads : LoaderStep(n)
    \/ \E t \in Loops : LoopStep(t) \/ TickDraws(t)
    \/ MainStep \/ StartLoopAnyway
    \/ TapAims \/ RenderBegins \/ DisconnectBegins

\* Queues run what is on them, threads are scheduled and a tick ends; the user need
\* do nothing, and a wait that could run out need not.
AppFairness ==
    /\ \A n \in Loads : WF_appVars(LoaderStep(n))
    /\ \A t \in Loops : WF_appVars(LoopStep(t))
    /\ WF_appVars(MainStep)

AppSpec == AppInit /\ [][AppNext]_appVars /\ AppFairness

-----------------------------------------------------------------------------
AppTypeOK ==
    /\ state \in {"idle", "loaded", "running", "paused", "stopped", "error", "gone"}
    /\ flag \in BOOLEAN /\ pending \in BOOLEAN /\ shown \in BOOLEAN
    /\ latest \in 0 .. MaxLoops
    /\ loops \in [Loops -> {"unborn", "begun", "paused tick", "tick", "left", "returns",
                        "finished"}]
    /\ main \in {"idle", "waits", "taps", "renders", "disconnects", "disconnected"}
    /\ loads \in [Loads -> {"unasked", "queued", "dispatched", "reset", "loaded", "over"}]
    /\ table \in Nat \ {0}
    /\ reading \in [Readers -> Nat]

\* Two threads never tick one engine, unless the two seconds of startEngineThread's
\* wait ran out: "a data race on the guest heap" otherwise.
OneLoop ==
    "wait ran out" \notin sins =>
        \A t, u \in Loops : Unfinished(t) /\ Unfinished(u) => t = u

\* A program that loads the next one as it ends never draws into windows that the
\* load has freed: its loop is out of its ticks by then (wg_wm_reset relies on that).
\* A program picked while another runs, or while another is being loaded, has no such
\* promise.
ReclaimedStopped ==
    sins \cap {"picked while running", "loads overlap", "wait ran out"} = {} =>
        \A t \in Loops : reading[t] # 0 => reading[t] = table

\* An engine that is left running is ticked, or ends: no program waits for a thread
\* that is not there, because wg_engine_run and startEngineThread go together (a tap
\* that came after its dialog apart).
RunningIsTicked ==
    (state = "running" /\ sins = {}) ~>
        (\/ \E t \in Loops : Ticking(t)
         \/ state # "running" \/ sins # {} \/ main \in {"disconnects", "disconnected"}
         \/ latest = MaxLoops)

=============================================================================
