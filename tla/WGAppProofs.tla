---------------------------- MODULE WGAppProofs ----------------------------
(***************************************************************************)
(* Proofs about WGApp, for any number of programs loaded and of engine     *)
(* threads started: one thread ticks the engine, and a chained load frees  *)
(* no window that a tick draws into.  And about WGDesktop, for tables of   *)
(* every size: what the compositor shows, and where a drawing goes.  And   *)
(* about WGRaster, for every framebuffer and every scale: the pixels.  And *)
(* about WGDialogs, for all templates: controls, pages and handles.  And   *)
(* about WGFiles: files hold what the program has written, through any     *)
(* number of handles and under any spelling of a path.                     *)
(***************************************************************************)
EXTENDS WGApp, WGDesktop, WGRaster, WGDialogs, WGFiles, FiniteSetTheorems, SequenceTheorems,
        WellFoundedInduction, TLAPS

-----------------------------------------------------------------------------
(* The inductive invariant. *)

\* Threads are born in order, and a thread holds a buffer in its tick only.
Frontier == \A t \in Loops : loops[t] = "unborn" <=> t > latest
HeldInTick == \A t \in Loops : reading[t] # 0 => loops[t] = "tick"

\* startEngineThread waited for all but the last.
PriorsFinished ==
    "wait ran out" \notin sins => \A t \in Loops : t < latest => loops[t] = "finished"

\* A thread that ticks no more, and a load that is under way.
TicksNoMore(t)  == loops[t] \in {"unborn", "returns", "finished"}
Active(n) == loads[n] \notin {"unasked", "over"}

Clean == sins \cap {"picked while running", "loads overlap", "wait ran out"} = {}

\* What is loaded, from its block on the main thread to wg_engine_run, is loaded
\* alone and under no tick; nor does the wait of startEngineThread overlap a load.
LoadsAlone ==
    Clean =>
        /\ \A n \in Loads : Active(n) => \A t \in Loops : TicksNoMore(t)
        /\ \A n, k \in Loads : Active(n) /\ Active(k) => n = k
        /\ main = "waits" => /\ \A n \in Loads : ~ Active(n)
                             /\ \A t \in Loops : TicksNoMore(t)

AppInv ==
    /\ AppTypeOK
    /\ Frontier
    /\ HeldInTick
    /\ PriorsFinished
    /\ LoadsAlone
    /\ ReclaimedStopped

-----------------------------------------------------------------------------
LEMMA InitInv == AppInit => AppInv
<1> SUFFICES ASSUME AppInit PROVE AppInv  OBVIOUS
<1> USE BoundsAssumption DEF AppInit
<1>0. 1 \in Nat \ {0} /\ 0 \in 0 .. MaxLoops  OBVIOUS
<1>1. AppTypeOK         BY <1>0 DEF AppTypeOK
<1>2. Frontier          BY DEF Frontier, Loops
<1>3. HeldInTick        BY DEF HeldInTick, Readers
<1>4. PriorsFinished    BY DEF PriorsFinished, Loops
<1>5. LoadsAlone        BY DEF LoadsAlone, Active
<1>6. ReclaimedStopped  BY DEF ReclaimedStopped, Readers
<1> QED BY <1>1, <1>2, <1>3, <1>4, <1>5, <1>6 DEF AppInv

-----------------------------------------------------------------------------
(* The steps. *)

LEMMA TypeStep ==
    ASSUME AppTypeOK, AppNext
    PROVE  AppTypeOK'
<1>0. /\ \A m \in Nat \ {0} : m + 1 \in Nat \ {0}
      /\ \A m \in 0 .. MaxLoops : m < MaxLoops => m + 1 \in 0 .. MaxLoops
  BY BoundsAssumption
<1> USE DEF AppTypeOK
<1>1. CASE documentPicker
  BY <1>1 DEF documentPicker, loadAndRunPE
<1>2. ASSUME NEW n \in Loads, LoaderStep(n) PROVE AppTypeOK'
  <2>1. CASE ResetWindows(n)
    <3>1. table' \in Nat \ {0}  BY <2>1, <1>0 DEF ResetWindows
    <3> QED BY <3>1, <2>1 DEF ResetWindows
  <2>2. CASE LoadImage(n)  BY <2>2 DEF LoadImage
  <2> QED BY <1>2, <2>1, <2>2 DEF LoaderStep
<1>3. ASSUME NEW t \in Loops, LoopStep(t) \/ TickDraws(t) PROVE AppTypeOK'
  <2>0. t \in Readers /\ 0 \in Nat  BY DEF Readers
  <2>1. CASE LoopTest(t)     BY <2>1 DEF LoopTest
  <2>2. CASE TickPaused(t)   BY <2>2 DEF TickPaused
  <2>3. CASE TickEnds(t)     BY <2>3, <2>0 DEF TickEnds
  <2>4. CASE TakePending(t)  BY <2>4 DEF TakePending
  <2>5. CASE LoopReturns(t)  BY <2>5 DEF LoopReturns
  <2>6. CASE TickDraws(t)
    <3>1. reading' \in [Readers -> Nat]  BY <2>6, <2>0 DEF TickDraws
    <3> QED BY <3>1, <2>6 DEF TickDraws
  <2> QED BY <1>3, <2>1, <2>2, <2>3, <2>4, <2>5, <2>6 DEF LoopStep
<1>4. ASSUME NEW n \in Loads, RunLoaded(n) \/ ChainLoad(n) PROVE AppTypeOK'
  BY <1>4 DEF RunLoaded, ChainLoad, loadAndRunPE
<1>5. CASE StartLoop \/ StartLoopAnyway
  <2>1. latest' \in 0 .. MaxLoops  BY <1>5, <1>0 DEF StartLoop, StartLoopAnyway
  <2>2. loops' \in [Loops -> {"unborn", "begun", "paused tick", "tick", "left", "returns",
                              "finished"}]
    BY <1>5 DEF StartLoop, StartLoopAnyway
  <2>3. /\ UNCHANGED <<state, loads, pending, table, shown, reading>>
        /\ main' = "idle" /\ flag' \in BOOLEAN
    BY <1>5 DEF StartLoop, StartLoopAnyway
  <2> QED BY <2>1, <2>2, <2>3
<1>6. CASE TapLands \/ RenderEnds \/ DisconnectEnds
  <2>1. 0 \in Readers /\ 0 \in Nat  BY DEF Readers
  <2> QED BY <1>6, <2>1 DEF TapLands, RenderEnds, DisconnectEnds
<1>7. CASE TapAims \/ DisconnectBegins
  BY <1>7 DEF TapAims, DisconnectBegins
<1>8. CASE RenderBegins
  <2>1. reading' \in [Readers -> Nat]  BY <1>8 DEF RenderBegins, Readers
  <2> QED BY <1>8, <2>1 DEF RenderBegins
<1> QED
  BY <1>1, <1>2, <1>3, <1>4, <1>5, <1>6, <1>7, <1>8 DEF AppNext, MainStep

\* The thread born next, and those before and behind it.
LEMMA NextLoop ==
    ASSUME NEW l \in 0 .. MaxLoops, NEW k \in Int, k = l + 1, l < MaxLoops
    PROVE  /\ k \in Loops /\ k \in 0 .. MaxLoops /\ k > l
           /\ \A u \in Loops : /\ u > k <=> u > l /\ u # k
                               /\ u < k => u # k /\ (u < l \/ u = l)
  BY BoundsAssumption DEF Loops

\* Only startEngineThread makes threads, and only its wait that ran out makes one
\* before the last has finished; a finished one stays so.
LEMMA LoopsStep ==
    ASSUME AppTypeOK, Frontier, HeldInTick, PriorsFinished, AppNext
    PROVE  Frontier' /\ HeldInTick' /\ PriorsFinished'
<1>0. /\ latest \in 0 .. MaxLoops
      /\ loops \in [Loops -> {"unborn", "begun", "paused tick", "tick", "left", "returns",
                               "finished"}]
      /\ reading \in [Readers -> Nat]
  BY DEF AppTypeOK
<1>a. \A t \in Loops : t \in 1 .. MaxLoops /\ t \in Readers /\ t # 0
  BY BoundsAssumption DEF Loops, Readers
<1>1. CASE UNCHANGED <<latest, loops, reading>> /\ sins \subseteq sins'
  BY <1>1 DEF Frontier, HeldInTick, PriorsFinished
<1>2. CASE documentPicker
  BY <1>2, <1>1 DEF documentPicker
<1>3. ASSUME NEW n \in Loads, LoaderStep(n) PROVE Frontier' /\ HeldInTick' /\ PriorsFinished'
  BY <1>3, <1>1 DEF LoaderStep, ResetWindows, LoadImage
<1>4. ASSUME NEW n \in Loads, RunLoaded(n) \/ ChainLoad(n)
      PROVE  Frontier' /\ HeldInTick' /\ PriorsFinished'
  BY <1>4, <1>1 DEF RunLoaded, ChainLoad
<1>5. CASE TapLands \/ TapAims \/ DisconnectBegins \/ DisconnectEnds
  BY <1>5, <1>1 DEF TapLands, TapAims, DisconnectBegins, DisconnectEnds
<1>6. CASE RenderBegins \/ RenderEnds
  <2>1. \A t \in Loops : reading'[t] = reading[t]
    BY <1>6, <1>0, <1>a DEF RenderBegins, RenderEnds
  <2> QED BY <1>6, <2>1 DEF RenderBegins, RenderEnds, Frontier, HeldInTick, PriorsFinished
<1>7. ASSUME NEW t \in Loops, LoopStep(t) \/ TickDraws(t)
      PROVE  Frontier' /\ HeldInTick' /\ PriorsFinished'
  <2>1. /\ latest' = latest /\ sins' = sins /\ t \in Readers
        /\ loops[t] \notin {"unborn", "finished"} /\ loops'[t] # "unborn"
        /\ \A u \in Loops : u # t => loops'[u] = loops[u] /\ reading'[u] = reading[u]
    BY <1>7, <1>0, <1>a DEF LoopStep, LoopTest, TickPaused, TickEnds, TakePending, LoopReturns,
                            TickDraws
  <2>2. Frontier'        BY <2>1 DEF Frontier
  <2>3. PriorsFinished'  BY <2>1 DEF PriorsFinished
  <2>4. reading'[t] # 0 => loops'[t] = "tick"
    BY <1>7, <1>0, <2>1 DEF LoopStep, LoopTest, TickPaused, TickEnds, TakePending, LoopReturns,
                      TickDraws, HeldInTick
  <2>5. HeldInTick'      BY <2>1, <2>4 DEF HeldInTick
  <2> QED BY <2>2, <2>3, <2>5
<1>8. CASE StartLoop \/ StartLoopAnyway
  <2> PICK l \in 0 .. MaxLoops : l = latest  BY <1>0
  <2> PICK k \in Int : k = l + 1  OBVIOUS
  <2>1. /\ l < MaxLoops /\ latest' = k /\ UNCHANGED reading
        /\ loops' = [loops EXCEPT ![k] = "begun"]
        /\ "wait ran out" \notin sins' =>
             "wait ran out" \notin sins /\ (l \in Loops => loops[l] = "finished")
    BY <1>8 DEF StartLoop, StartLoopAnyway, PriorFinished
  <2>2. /\ k \in Loops /\ k > l
        /\ \A u \in Loops : /\ u > k <=> u > l /\ u # k
                            /\ u < k => u # k /\ (u < l \/ u = l)
    <3>1. l < MaxLoops  BY <2>1
    <3> QED BY <3>1, NextLoop
  <2>3. \A u \in Loops : loops'[u] = IF u = k THEN "begun" ELSE loops[u]
    BY <2>1, <1>0
  <2>4. \A u \in Loops : loops[u] = "unborn" <=> u > l  BY DEF Frontier
  <2>5. \A u \in Loops : loops'[u] = "unborn" <=> u > k
    <3> SUFFICES ASSUME NEW u \in Loops PROVE loops'[u] = "unborn" <=> u > k  OBVIOUS
    <3>1. CASE u = k
      <4>1. ~ u > k  BY <3>1, <2>2, Zenon
      <4> QED BY <3>1, <4>1, <2>3
    <3>2. CASE u # k
      <4>1. u > k <=> u > l  BY <3>2, <2>2, Zenon
      <4> QED BY <3>2, <4>1, <2>3, <2>4, Zenon
    <3> QED BY <3>1, <3>2
  <2>6. Frontier'        BY <2>5, <2>1 DEF Frontier
  <2>7. ASSUME "wait ran out" \notin sins', NEW u \in Loops, u < k
        PROVE  loops'[u] = "finished"
    <3>1. u # k /\ (u < l \/ u = l)  BY <2>7, <2>2, Zenon
    <3>2. u < l => loops[u] = "finished"  BY <2>1, <2>7 DEF PriorsFinished
    <3>3. u = l => loops[u] = "finished"  BY <2>1, <2>7
    <3> QED BY <3>1, <3>2, <3>3, <2>3
  <2>8. PriorsFinished'  BY <2>7, <2>1 DEF PriorsFinished
  <2>9. loops[k] # "tick"  BY <2>2, <2>4
  <2>10. HeldInTick'     BY <2>1, <2>3, <2>9 DEF HeldInTick
  <2> QED BY <2>6, <2>8, <2>10
<1> QED
  BY <1>2, <1>3, <1>4, <1>5, <1>6, <1>7, <1>8 DEF AppNext, MainStep

LEMMA Ordered ==
    ASSUME NEW l \in 0 .. MaxLoops
    PROVE  \A v \in Loops : v < l \/ v = l \/ v > l
  BY BoundsAssumption DEF Loops

\* The thread that has not finished is the last.
LEMMA OthersFinished ==
    ASSUME AppTypeOK, Frontier, PriorsFinished, "wait ran out" \notin sins,
           NEW t \in Loops, Unfinished(t), NEW u \in Loops, u # t
    PROVE  ~ Unfinished(u)
<1>1. PICK l \in 0 .. MaxLoops : l = latest  BY DEF AppTypeOK
<1>2. \A v \in Loops : v < latest \/ v = latest \/ v > latest
  BY <1>1, Ordered
<1>3. \A v \in Loops : Unfinished(v) => v = latest
  BY <1>2 DEF Unfinished, Frontier, PriorsFinished
<1> QED BY <1>3

\* A load is asked for where nothing is under way, and whoever starts a thread has
\* no load behind it.
LEMMA LoadsStep ==
    ASSUME AppTypeOK, Frontier, HeldInTick, PriorsFinished, LoadsAlone, ReclaimedStopped, AppNext
    PROVE  LoadsAlone' /\ ReclaimedStopped'
<1> DEFINE Alone == /\ \A n \in Loads : Active(n) => \A t \in Loops : TicksNoMore(t)
                    /\ \A n, k \in Loads : Active(n) /\ Active(k) => n = k
                    /\ main = "waits" => /\ \A n \in Loads : ~ Active(n)
                                         /\ \A t \in Loops : TicksNoMore(t)
           Held  == \A t \in Loops : reading[t] # 0 => reading[t] = table
<1> SUFFICES ASSUME Clean' PROVE Alone' /\ Held'
  BY DEF LoadsAlone, ReclaimedStopped, Clean
<1>0. /\ loops \in [Loops -> {"unborn", "begun", "paused tick", "tick", "left", "returns",
                               "finished"}]
      /\ loads \in [Loads -> {"unasked", "queued", "dispatched", "reset", "loaded", "over"}]
      /\ reading \in [Readers -> Nat]
  BY DEF AppTypeOK
<1>a. \A t \in Loops : t \in Readers /\ t # 0
  BY BoundsAssumption DEF Loops, Readers
<1>b. sins \subseteq sins'
  BY DEF AppNext, documentPicker, LoaderStep, ResetWindows, LoadImage, LoopStep, LoopTest,
         TickPaused, TickEnds, TakePending, LoopReturns, TickDraws, MainStep, RunLoaded, ChainLoad,
         StartLoop, TapLands, RenderEnds, DisconnectEnds, StartLoopAnyway, TapAims, RenderBegins,
         DisconnectBegins
<1>c. Clean  BY <1>b DEF Clean
<1>d. Alone  BY <1>c DEF LoadsAlone
<1>e. Held   BY <1>c DEF ReclaimedStopped, Clean
<1>f. "wait ran out" \notin sins  BY <1>c DEF Clean
<1>1. CASE documentPicker
  <2>1. PICK n \in Loads : loads[n] = "unasked" /\ loads' = [loads EXCEPT ![n] = "dispatched"]
    BY <1>1 DEF documentPicker, IsNext, loadAndRunPE
  <2>2. /\ \A t \in Loops : ~ Unfinished(t)
        /\ \A k \in Loads : ~ Active(k)
    BY <1>1 DEF documentPicker, Clean, Active
  <2>3. \A k \in Loads : Active(k)' => k = n
    BY <2>1, <2>2, <1>0 DEF Active
  <2>4. main' # "waits" /\ UNCHANGED <<loops, reading, table>>
    BY <1>1 DEF documentPicker
  <2> QED BY <2>2, <2>3, <2>4, <1>e DEF TicksNoMore, Unfinished
<1>2. ASSUME NEW n \in Loads, ResetWindows(n) PROVE Alone' /\ Held'
  <2>1. \A t \in Loops : reading[t] = 0
    BY <1>2, <1>d DEF ResetWindows, Active, TicksNoMore, HeldInTick
  <2>2. \A k \in Loads : Active(k)' <=> Active(k)
    BY <1>2, <1>0 DEF ResetWindows, Active
  <2> QED BY <1>2, <1>d, <2>1, <2>2 DEF ResetWindows, TicksNoMore
<1>3. ASSUME NEW n \in Loads, LoadImage(n) \/ ChainLoad(n) PROVE Alone' /\ Held'
  <2>1. \A k \in Loads : Active(k)' => Active(k)
    BY <1>3, <1>0 DEF LoadImage, ChainLoad, loadAndRunPE, Active
  <2>2. UNCHANGED <<loops, reading, table, main>>
    BY <1>3 DEF LoadImage, ChainLoad
  <2> QED BY <2>1, <2>2, <1>d, <1>e DEF TicksNoMore
<1>4. ASSUME NEW n \in Loads, RunLoaded(n) PROVE Alone' /\ Held'
  <2>1. Active(n) /\ loads' = [loads EXCEPT ![n] = "over"] /\ UNCHANGED <<loops, reading, table>>
    BY <1>4 DEF RunLoaded, Active
  <2>2. \A k \in Loads : ~ Active(k)'
    BY <2>1, <1>d, <1>0 DEF Active
  <2> QED BY <2>1, <2>2, <1>d, <1>e DEF TicksNoMore
<1>5. CASE StartLoop \/ StartLoopAnyway
  <2>1. StartLoop  BY <1>5 DEF StartLoopAnyway, Clean
  <2>2. main = "waits" /\ main' # "waits" /\ UNCHANGED <<loads, reading, table>>
    BY <2>1 DEF StartLoop
  <2>3. \A k \in Loads : ~ Active(k)'  BY <2>2, <1>d DEF Active
  <2> QED BY <2>2, <2>3, <1>e
<1>6. ASSUME NEW t \in Loops, LoopTest(t) \/ TickPaused(t) \/ TickEnds(t)
      PROVE  Alone' /\ Held'
  <2>1. ~ TicksNoMore(t) /\ UNCHANGED <<main, loads, table>>
    BY <1>6 DEF LoopTest, TickPaused, TickEnds, TicksNoMore
  <2>2. main' # "waits" /\ \A k \in Loads : ~ Active(k)'  BY <2>1, <1>d DEF Active
  <2>3. \A u \in Loops : reading'[u] = reading[u] \/ reading'[u] = 0
    BY <1>6, <1>0, <1>a DEF LoopTest, TickPaused, TickEnds
  <2> QED BY <2>1, <2>2, <2>3, <1>e
<1>7. ASSUME NEW t \in Loops, TakePending(t) PROVE Alone' /\ Held'
  <2>1. /\ ~ TicksNoMore(t) /\ Unfinished(t) /\ UNCHANGED <<main, reading, table>>
        /\ loops' = [loops EXCEPT ![t] = "returns"]
    BY <1>7 DEF TakePending, TicksNoMore, Unfinished
  <2>2. main' # "waits" /\ \A k \in Loads : ~ Active(k)  BY <2>1, <1>d
  <2>3. \A u \in Loops : TicksNoMore(u)'
    <3> SUFFICES ASSUME NEW u \in Loops PROVE TicksNoMore(u)'  OBVIOUS
    <3>1. CASE u = t  BY <3>1, <2>1, <1>0 DEF TicksNoMore
    <3>2. CASE u # t
      <4>1. ~ Unfinished(u)  BY <3>2, <2>1, <1>f, OthersFinished
      <4> QED BY <4>1, <3>2, <2>1, <1>0 DEF TicksNoMore, Unfinished
    <3> QED BY <3>1, <3>2
  <2>4. \A j, k \in Loads : Active(j)' /\ Active(k)' => j = k
    <3>1. CASE UNCHANGED loads  BY <3>1, <2>2 DEF Active
    <3>2. CASE \E n \in Loads : loads' = [loads EXCEPT ![n] = "queued"]
      BY <3>2, <2>2, <1>0 DEF Active
    <3> QED BY <1>7, <3>1, <3>2 DEF TakePending
  <2> QED BY <2>1, <2>2, <2>3, <2>4, <1>e
<1>8. ASSUME NEW t \in Loops, LoopReturns(t) PROVE Alone' /\ Held'
  <2>1. UNCHANGED <<main, loads, reading, table>>  BY <1>8 DEF LoopReturns
  <2>2. \A u \in Loops : TicksNoMore(u) => TicksNoMore(u)'  BY <1>8, <1>0 DEF LoopReturns, TicksNoMore
  <2> QED BY <2>1, <2>2, <1>d, <1>e DEF Active
<1>9. ASSUME NEW t \in Loops, TickDraws(t) PROVE Alone' /\ Held'
  <2>1. UNCHANGED <<main, loads, loops, table>>  BY <1>9 DEF TickDraws
  <2>2. \A u \in Loops : reading'[u] = reading[u] \/ reading'[u] = table
    BY <1>9, <1>0, <1>a DEF TickDraws
  <2> QED BY <2>1, <2>2, <1>d, <1>e DEF Active, TicksNoMore
<1>10. CASE TapLands \/ RenderEnds \/ DisconnectEnds \/ TapAims \/ RenderBegins \/ DisconnectBegins
  <2>1. main' # "waits" /\ UNCHANGED <<loads, loops, table>>
    BY <1>10 DEF TapLands, RenderEnds, DisconnectEnds, TapAims, RenderBegins, DisconnectBegins
  <2>2. \A u \in Loops : reading'[u] = reading[u]
    BY <1>10, <1>0, <1>a DEF TapLands, RenderEnds, DisconnectEnds, TapAims, RenderBegins,
                              DisconnectBegins
  <2> QED BY <2>1, <2>2, <1>d, <1>e DEF Active, TicksNoMore
<1> QED
  BY <1>1, <1>2, <1>3, <1>4, <1>5, <1>6, <1>7, <1>8, <1>9, <1>10
  DEF AppNext, LoaderStep, LoopStep, MainStep

-----------------------------------------------------------------------------
LEMMA InvStep == AppInv /\ [AppNext]_appVars => AppInv'
<1> SUFFICES ASSUME AppInv, [AppNext]_appVars PROVE AppInv'  OBVIOUS
<1>1. CASE AppNext
  <2>1. AppTypeOK'  BY <1>1, TypeStep DEF AppInv
  <2>2. Frontier' /\ HeldInTick' /\ PriorsFinished'  BY <1>1, LoopsStep DEF AppInv
  <2>3. LoadsAlone' /\ ReclaimedStopped'  BY <1>1, LoadsStep DEF AppInv
  <2> QED BY <2>1, <2>2, <2>3 DEF AppInv
<1>2. CASE UNCHANGED appVars
  <2> USE <1>2 DEF appVars, AppInv
  <2>1. AppTypeOK'         BY DEF AppTypeOK
  <2>2. Frontier'          BY DEF Frontier
  <2>3. HeldInTick'        BY DEF HeldInTick
  <2>4. PriorsFinished'    BY DEF PriorsFinished
  <2>5. LoadsAlone'        BY DEF LoadsAlone, Clean, Active, TicksNoMore
  <2>6. ReclaimedStopped'  BY DEF ReclaimedStopped
  <2> QED BY <2>1, <2>2, <2>3, <2>4, <2>5, <2>6
<1> QED BY <1>1, <1>2

\* What the scene delegate keeps, whatever the user picks and taps and however the
\* three kinds of thread are scheduled: threads are started in order, each after the
\* last (startEngineThread), and a load is under way with no tick (loadAndRunPE).
THEOREM AppInvariant == AppSpec => []AppInv
  BY InitInv, InvStep, PTL DEF AppSpec

\* startEngineThread: one thread at most is between its start and its end, unless a
\* wait of two seconds ran out.
THEOREM EngineTickedByOne == AppSpec => []OneLoop
<1>1. AppInv => OneLoop
  BY OthersFinished DEF AppInv, OneLoop
<1> QED BY <1>1, AppInvariant, PTL

\* engineLoop and wg_engine_load_pe: a chained load never frees a buffer that a tick
\* draws into.
THEOREM ReclaimedBuffersIdle == AppSpec => []ReclaimedStopped
<1>1. AppInv => ReclaimedStopped  BY DEF AppInv
<1> QED BY <1>1, AppInvariant, PTL

-----------------------------------------------------------------------------
(* The desktop: what is on the screen, and where a blit goes.              *)

\* A window is numbered by its entry, and a copy is of a window that was made.
EntriesNumbered ==
    /\ \A i \in DOMAIN windows : windows[i].handle = i
    /\ copying.hwnd \in 0 .. Len(windows)

\* What is being copied is what the window shows, unless it was drawn meanwhile.
CopyCurrent ==
    \A i \in DOMAIN windows :
        copying.hwnd = i /\ i \notin raced => copying.version = windows[i].client

\* A DC that goes to a bitmap was made so, or has a slot that held one.
DCsAsMade ==
    \A d \in DCSlots : /\ dcs[d].made = "memory" => dcs[d].is_memdc
                       /\ dcs[d].is_memdc => dcs[d].turned

WindowInv ==
    /\ windows \in Seq(Window) /\ Len(windows) <= WG_MAX_WINDOWS
    /\ texture \in [Hwnds -> 0 .. MaxDrawings + 1]
    /\ raced \subseteq Hwnds
    /\ copying \in [hwnd : 0 .. MaxMade, version : 0 .. MaxDrawings + 1]
    /\ drawings \in 0 .. MaxDrawings
    /\ EntriesNumbered
    /\ CopyCurrent
    /\ Shown

DcInv ==
    /\ dcs \in [DCSlots -> DC]
    /\ bitmaps \in [BmpSlots -> 0 .. MaxMade]
    /\ next_dc \in Nat \ {0} /\ next_bitmap \in Nat \ {0}
    /\ DCsAsMade

DeskInv == WindowInv /\ DcInv /\ BlitsWhereAsked

LEMMA DeskFacts ==
    /\ WG_MAX_WINDOWS \in Nat /\ MaxMade \in Nat /\ MaxDrawings \in Nat
    /\ WG_MAX_WINDOWS <= MaxMade
  BY DeskAssumption

LEMMA DeskInitial == DeskInit => DeskInv
<1> SUFFICES ASSUME DeskInit PROVE DeskInv  OBVIOUS
<1> USE DeskFacts DEF DeskInit
<1>1. windows = <<>> /\ Len(windows) = 0 /\ windows \in Seq(Window) /\ DOMAIN windows = {}
  OBVIOUS
<1>2. FreshDC \in DC
  BY DEF FreshDC, DC
<1>4. EntriesNumbered /\ CopyCurrent /\ Shown
  BY <1>1 DEF EntriesNumbered, CopyCurrent, Shown, NoCopy
<1>5. DCsAsMade
  BY DEF DCsAsMade, FreshDC
<1>6. BlitsWhereAsked
  BY DEF BlitsWhereAsked, NotDrawn, Nowhere
<1> QED BY <1>1, <1>2, <1>4, <1>5, <1>6 DEF DeskInv, WindowInv, DcInv, NoCopy

\* Len, DOMAIN and the entries of the window table.
LEMMA WindowFacts ==
    ASSUME DeskInv
    PROVE  /\ Len(windows) \in Nat /\ Len(windows) <= WG_MAX_WINDOWS
           /\ DOMAIN windows = 1 .. Len(windows)
           /\ \A i \in DOMAIN windows : windows[i] \in Window /\ windows[i].handle = i
<1>1. windows \in Seq(Window)  BY DEF DeskInv, WindowInv
<1> QED BY <1>1, LenProperties, ElementOfSeq DEF DeskInv, WindowInv, EntriesNumbered

LEMMA LiveFacts ==
    ASSUME DeskInv, NEW h, NEW i \in Live(h)
    PROVE  i = h /\ i \in DOMAIN windows /\ i \in Hwnds /\ windows[i].alive
<1>1. i \in DOMAIN windows /\ windows[i].handle = h /\ windows[i].alive  BY DEF Live
<1> QED BY <1>1, WindowFacts, DeskFacts DEF Hwnds

\* A step that changes one entry of the table, and the handle of none.
LEMMA EntryChanges ==
    ASSUME DeskInv, NEW i \in DOMAIN windows, NEW w \in Window, w.handle = i,
           windows' = [windows EXCEPT ![i] = w]
    PROVE  /\ windows' \in Seq(Window) /\ Len(windows') = Len(windows)
           /\ DOMAIN windows' = DOMAIN windows
           /\ windows'[i] = w
           /\ \A j \in DOMAIN windows : j # i => windows'[j] = windows[j]
           /\ \A j \in DOMAIN windows : windows'[j].handle = j
<1>1. windows \in Seq(Window)  BY DEF DeskInv, WindowInv
<1>2. windows' \in Seq(Window) /\ Len(windows') = Len(windows)
  BY <1>1, WindowFacts, ExceptSeq
<1> QED BY <1>1, <1>2, WindowFacts

\* A step that redraws nothing.
LEMMA EntryKeeps ==
    ASSUME DeskInv, NEW i \in DOMAIN windows, NEW w \in Window,
           w.handle = i, w.client = windows[i].client, w.dirty = windows[i].dirty,
           w.alive => windows[i].alive,
           windows' = [windows EXCEPT ![i] = w],
           UNCHANGED <<texture, copying, raced, drawings>>
    PROVE  WindowInv'
<1>1. /\ windows' \in Seq(Window) /\ Len(windows') = Len(windows)
      /\ DOMAIN windows' = DOMAIN windows /\ windows'[i] = w
      /\ \A j \in DOMAIN windows : j # i => windows'[j] = windows[j]
      /\ \A j \in DOMAIN windows : windows'[j].handle = j
  BY EntryChanges
<1>2. EntriesNumbered'  BY <1>1 DEF EntriesNumbered, DeskInv, WindowInv
<1>3. \A j \in DOMAIN windows : /\ windows'[j].client = windows[j].client
                                /\ windows'[j].dirty = windows[j].dirty
                                /\ windows'[j].handle = windows[j].handle
                                /\ windows'[j].alive => windows[j].alive
  BY <1>1, WindowFacts
<1>4. CopyCurrent'  BY <1>1, <1>3 DEF CopyCurrent, DeskInv, WindowInv
<1>5. Shown'  BY <1>1, <1>3 DEF Shown, DeskInv, WindowInv
<1> QED BY <1>1, <1>2, <1>4, <1>5 DEF DeskInv, WindowInv

LEMMA CreateWindowStep ==
    ASSUME DeskInv, NEW v \in BOOLEAN, wg_wm_create_window(v)
    PROVE  DeskInv'
<1> DEFINE n == Len(windows)
           w == [handle |-> n + 1, alive |-> TRUE, visible |-> v, client |-> 0, dirty |-> FALSE]
<1>1. n < WG_MAX_WINDOWS /\ windows' = Append(windows, w)  BY DEF wg_wm_create_window
<1>2. n \in Nat /\ n + 1 <= MaxMade /\ n + 1 \in Hwnds
  BY <1>1, WindowFacts, DeskFacts DEF Hwnds
<1>3. w \in Window  BY <1>2, DeskFacts DEF Window
<1>4. w.handle = n + 1 /\ w.client = 0  OBVIOUS
<1> HIDE DEF w
<1>5. /\ windows' \in Seq(Window) /\ Len(windows') = n + 1
      /\ \A j \in 1 .. n : windows'[j] = windows[j]
      /\ windows'[n + 1] = w
  BY <1>1, <1>3, AppendProperties DEF DeskInv, WindowInv
<1>6. DOMAIN windows' = 1 .. n + 1 /\ DOMAIN windows = 1 .. n
  BY <1>5, LenProperties DEF DeskInv, WindowInv
<1> HIDE DEF n
<1>7. 1 .. n + 1 = (1 .. n) \cup {n + 1}  BY <1>2
<1>8. copying.hwnd \in 0 .. n  BY DEF DeskInv, WindowInv, EntriesNumbered, n
<1>9. UNCHANGED <<texture, copying, raced, drawings>>  BY DEF wg_wm_create_window, windowVars
<1>10. EntriesNumbered'
  BY <1>2, <1>4, <1>5, <1>6, <1>7, <1>8, <1>9 DEF EntriesNumbered, DeskInv, WindowInv
<1>11. copying.hwnd # n + 1  BY <1>2, <1>8
<1>12. CopyCurrent'
  BY <1>5, <1>6, <1>7, <1>9, <1>11 DEF CopyCurrent, DeskInv, WindowInv
<1>13. Shown'
  BY <1>4, <1>5, <1>6, <1>7, <1>9, <1>11 DEF Shown, DeskInv, WindowInv
<1>14. n + 1 <= WG_MAX_WINDOWS  BY <1>1, <1>2, DeskFacts DEF n
<1>15. WindowInv'
  BY <1>5, <1>9, <1>10, <1>12, <1>13, <1>14 DEF DeskInv, WindowInv
<1> QED BY <1>15 DEF DeskInv, wg_wm_create_window, gdiVars, DcInv, DCsAsMade, BlitsWhereAsked

LEMMA ShowStep ==
    ASSUME DeskInv, NEW h \in Hwnds, NEW v \in BOOLEAN, wg_wm_show(h, v)
    PROVE  DeskInv'
<1>1. PICK i \in Live(h) : windows' = [windows EXCEPT ![i].visible = v]
  BY DEF wg_wm_show
<1>2. i \in DOMAIN windows /\ windows[i] \in Window /\ windows[i].handle = i
  BY LiveFacts, WindowFacts
<1> DEFINE w == [windows[i] EXCEPT !.visible = v]
<1>3. /\ w \in Window /\ w.handle = i /\ w.client = windows[i].client
      /\ w.dirty = windows[i].dirty /\ w.alive = windows[i].alive
  BY <1>2 DEF Window
<1>4. windows' = [windows EXCEPT ![i] = w]  BY <1>1
<1> HIDE DEF w
<1>5. WindowInv'
  BY <1>2, <1>3, <1>4, EntryKeeps DEF wg_wm_show
<1> QED BY <1>5 DEF DeskInv, wg_wm_show, gdiVars, DcInv, DCsAsMade, BlitsWhereAsked

LEMMA DestroyStep ==
    ASSUME DeskInv, NEW h \in Hwnds, wg_wm_destroy(h)
    PROVE  DeskInv'
<1>1. PICK i \in Live(h) :
        windows' = [windows EXCEPT ![i].alive = FALSE, ![i].visible = FALSE]
  BY DEF wg_wm_destroy
<1>2. i \in DOMAIN windows /\ windows[i] \in Window /\ windows[i].handle = i
  BY LiveFacts, WindowFacts
<1> DEFINE w == [windows[i] EXCEPT !.alive = FALSE, !.visible = FALSE]
<1>3. /\ w \in Window /\ w.handle = i /\ w.client = windows[i].client
      /\ w.dirty = windows[i].dirty /\ w.alive = FALSE
  BY <1>2 DEF Window
<1>4. windows' = [windows EXCEPT ![i] = w]  BY <1>1, <1>2
<1> HIDE DEF w
<1>5. WindowInv'
  BY <1>2, <1>3, <1>4, EntryKeeps DEF wg_wm_destroy
<1> QED BY <1>5 DEF DeskInv, wg_wm_destroy, gdiVars, DcInv, DCsAsMade, BlitsWhereAsked

LEMMA ResetStep ==
    ASSUME DeskInv, wg_wm_reset
    PROVE  DeskInv'
<1>1. windows' = <<>> /\ Len(<<>>) = 0 /\ <<>> \in Seq(Window) /\ DOMAIN <<>> = {}
  BY DEF wg_wm_reset
<1>2. copying' = NoCopy  BY DEF wg_wm_reset
<1>3. EntriesNumbered' /\ CopyCurrent' /\ Shown'
  BY <1>1, <1>2 DEF EntriesNumbered, CopyCurrent, Shown, NoCopy
<1>4. raced' = {} /\ UNCHANGED <<texture, copying, drawings>>  BY DEF wg_wm_reset
<1>5. WindowInv'
  BY <1>1, <1>3, <1>4, DeskFacts DEF DeskInv, WindowInv
<1>6. DcInv'  BY DeskFacts DEF DeskInv, DcInv, DCsAsMade, wg_wm_reset
<1>7. BlitsWhereAsked'  BY DEF wg_wm_reset, BlitsWhereAsked, NotDrawn, Nowhere
<1> QED BY <1>5, <1>6, <1>7 DEF DeskInv

LEMMA DrawStep ==
    ASSUME DeskInv, NEW h, Draw(h)
    PROVE  WindowInv'
<1>1. PICK i \in Live(h) :
        windows' = [windows EXCEPT ![i].client = drawings + 2, ![i].dirty = TRUE]
  BY DEF Draw
<1>2. /\ i = h /\ i \in Hwnds /\ i \in DOMAIN windows /\ windows[i] \in Window
      /\ windows[i].handle = i
  BY <1>1, LiveFacts, WindowFacts
<1>3. drawings < MaxDrawings /\ drawings' = drawings + 1 /\ UNCHANGED <<texture, copying>>
      /\ raced' = IF copying.hwnd = h THEN raced \cup {h} ELSE raced
  BY DEF Draw
<1>4. drawings \in Nat /\ drawings + 1 \in 0 .. MaxDrawings /\ drawings + 2 \in 0 .. MaxDrawings + 1
      /\ drawings + 2 # 0
  BY <1>3, DeskFacts DEF DeskInv, WindowInv
<1> DEFINE w == [windows[i] EXCEPT !.client = drawings + 2, !.dirty = TRUE]
<1>5. w \in Window /\ w.handle = i /\ w.client # 0 /\ w.dirty
  BY <1>2, <1>4 DEF Window
<1>6. windows' = [windows EXCEPT ![i] = w]  BY <1>1, <1>2
<1> HIDE DEF w
<1>7. /\ windows' \in Seq(Window) /\ Len(windows') = Len(windows)
      /\ DOMAIN windows' = DOMAIN windows /\ windows'[i] = w
      /\ \A j \in DOMAIN windows : j # i => windows'[j] = windows[j]
      /\ \A j \in DOMAIN windows : windows'[j].handle = j
  BY <1>2, <1>5, <1>6, EntryChanges
<1>8. EntriesNumbered'  BY <1>3, <1>7 DEF EntriesNumbered, DeskInv, WindowInv
<1>9. raced' \subseteq Hwnds /\ raced \subseteq raced' /\ (copying.hwnd = i => i \in raced')
  BY <1>2, <1>3 DEF DeskInv, WindowInv
<1>10. CopyCurrent'  BY <1>3, <1>7, <1>9 DEF CopyCurrent, DeskInv, WindowInv
<1>11. Shown'  BY <1>2, <1>3, <1>5, <1>7, <1>9 DEF Shown, DeskInv, WindowInv
<1> QED BY <1>3, <1>4, <1>7, <1>8, <1>9, <1>10, <1>11 DEF DeskInv, WindowInv

LEMMA CopyBeginsStep ==
    ASSUME DeskInv, NEW h \in Hwnds, CopyBegins(h)
    PROVE  DeskInv'
<1>1. PICK i \in Live(h) : /\ windows[i].client # 0
                           /\ copying' = [hwnd |-> h, version |-> windows[i].client]
  BY DEF CopyBegins
<1>2. i = h /\ i \in DOMAIN windows /\ windows[i] \in Window  BY LiveFacts, WindowFacts
<1>3. copying = NoCopy /\ UNCHANGED <<windows, texture, raced, gdiVars, drawings, drew>>
  BY DEF CopyBegins
<1>4. /\ copying' \in [hwnd : 0 .. MaxMade, version : 0 .. MaxDrawings + 1]
      /\ copying'.hwnd = i /\ copying'.version = windows[i].client
  BY <1>1, <1>2, DeskFacts DEF Window, Hwnds
<1>5. EntriesNumbered'
  BY <1>2, <1>3, <1>4, WindowFacts DEF EntriesNumbered
<1>6. CopyCurrent'  BY <1>3, <1>4 DEF CopyCurrent
<1>7. Shown'
  <2>1. \A j \in DOMAIN windows : copying # [hwnd |-> windows[j].handle, version |-> windows[j].client]
    <3>1. copying.hwnd = 0  BY <1>3 DEF NoCopy
    <3> QED BY <3>1, WindowFacts
  <2>2. \A j \in DOMAIN windows : windows[j].handle = j  BY WindowFacts
  <2> QED BY <1>1, <1>2, <1>3, <1>4, <2>1, <2>2 DEF Shown, DeskInv, WindowInv
<1>8. WindowInv'
  BY <1>3, <1>4, <1>5, <1>6, <1>7 DEF DeskInv, WindowInv
<1> QED BY <1>3, <1>8 DEF DeskInv, gdiVars, DcInv, DCsAsMade, BlitsWhereAsked

LEMMA CopyEndsStep ==
    ASSUME DeskInv, CopyEnds
    PROVE  DeskInv'
<1> DEFINE h == copying.hwnd
           W1(i) == IF windows[i].handle = h THEN [windows[i] EXCEPT !.dirty = FALSE]
                    ELSE windows[i]
<1>1. /\ texture' = [texture EXCEPT ![h] = copying.version]
      /\ windows' = [i \in DOMAIN windows |-> W1(i)]
      /\ copying' = NoCopy
      /\ UNCHANGED <<raced, gdiVars, drawings, drew>>
  BY DEF CopyEnds
<1>2. /\ DOMAIN windows = 1 .. Len(windows) /\ Len(windows) \in Nat
      /\ \A i \in DOMAIN windows : windows[i] \in Window /\ windows[i].handle = i
  BY WindowFacts
<1>3. \A i \in DOMAIN windows : /\ W1(i) \in Window /\ W1(i).handle = i
                                /\ W1(i).alive = windows[i].alive
                                /\ W1(i).client = windows[i].client
                                /\ i # h => W1(i).dirty = windows[i].dirty
  <2> SUFFICES ASSUME NEW i \in DOMAIN windows
               PROVE  /\ W1(i) \in Window /\ W1(i).handle = i
                      /\ W1(i).alive = windows[i].alive
                      /\ W1(i).client = windows[i].client
                      /\ i # h => W1(i).dirty = windows[i].dirty
    OBVIOUS
  <2> QED BY <1>2 DEF Window
<1> HIDE DEF W1
<1>4. DOMAIN windows' = DOMAIN windows /\ \A i \in DOMAIN windows : windows'[i] = W1(i)
  BY <1>1
<1>5. windows' \in Seq(Window) /\ Len(windows') = Len(windows)
  <2>1. windows' \in [1 .. Len(windows) -> Window]  BY <1>1, <1>2, <1>3
  <2>2. windows' \in UNION {[1 .. k -> Window] : k \in Nat}  BY <1>2, <2>1
  <2>3. windows' \in Seq(Window)  BY <2>2, SeqDef, Zenon
  <2>4. DOMAIN windows' = 1 .. Len(windows') /\ Len(windows') \in Nat
    BY <2>3, LenProperties
  <2> QED BY <1>2, <1>4, <2>3, <2>4
<1>6. h \in 0 .. Len(windows) /\ h \in 0 .. MaxMade
      /\ copying.version \in 0 .. MaxDrawings + 1
  BY DEF DeskInv, WindowInv, EntriesNumbered
<1>7. texture' \in [Hwnds -> 0 .. MaxDrawings + 1]
  BY <1>1, <1>6 DEF DeskInv, WindowInv
<1>8. NoCopy \in [hwnd : 0 .. MaxMade, version : 0 .. MaxDrawings + 1] /\ NoCopy.hwnd = 0
  BY DeskFacts DEF NoCopy
<1>9. EntriesNumbered'  BY <1>1, <1>2, <1>3, <1>4, <1>5, <1>8 DEF EntriesNumbered
<1>10. CopyCurrent'  BY <1>1, <1>2, <1>4, <1>8 DEF CopyCurrent
<1>11. Shown'
  <2> SUFFICES ASSUME NEW i \in DOMAIN windows
               PROVE  /\ W1(i).alive /\ W1(i).client # 0 /\ i \notin raced
                           => W1(i).dirty \/ texture'[i] = W1(i).client
                      /\ copying'.hwnd # i
    BY <1>1, <1>3, <1>4 DEF Shown
  <2>1. i \in Hwnds /\ i \in Nat /\ i # 0
    BY <1>2, DeskFacts DEF Hwnds, DeskInv, WindowInv
  <2>2. copying'.hwnd # i  BY <1>1, <1>8, <2>1
  <2>3. CASE i = h
    <3>1. texture'[i] = copying.version  BY <1>1, <2>1, <2>3 DEF DeskInv, WindowInv
    <3> QED BY <1>3, <2>2, <2>3, <3>1 DEF DeskInv, WindowInv, CopyCurrent
  <2>4. CASE i # h
    <3>1. texture'[i] = texture[i]  BY <1>1, <2>1, <2>4 DEF DeskInv, WindowInv
    <3>2. windows[i].handle = i  BY <1>2
    <3> QED BY <1>3, <2>2, <2>4, <3>1, <3>2 DEF DeskInv, WindowInv, Shown
  <2> QED BY <2>3, <2>4
<1>12. WindowInv'
  BY <1>1, <1>5, <1>7, <1>8, <1>9, <1>10, <1>11 DEF DeskInv, WindowInv
<1> QED BY <1>1, <1>12 DEF DeskInv, gdiVars, DcInv, DCsAsMade, BlitsWhereAsked

\* A step on the DCs and the bitmaps alone.
LEMMA QuietDesk ==
    ASSUME DeskInv, UNCHANGED <<windowVars, drawings, drew>>, DcInv'
    PROVE  DeskInv'
  BY DEF DeskInv, windowVars, WindowInv, EntriesNumbered, CopyCurrent, Shown, BlitsWhereAsked

LEMMA DcFacts ==
    ASSUME DeskInv
    PROVE  /\ dcs \in [DCSlots -> DC]
           /\ \A d \in DCSlots :
                dcs[d] \in [used : BOOLEAN, handle : Nat, hwnd : 0 .. MaxMade,
                            is_memdc : BOOLEAN, sel_bitmap : 0 .. MaxMade,
                            made : {"window", "memory"}, turned : BOOLEAN]
           /\ bitmaps \in [BmpSlots -> 0 .. MaxMade]
           /\ next_dc \in Nat \ {0} /\ next_bitmap \in Nat \ {0}
           /\ DCsAsMade
  BY DEF DeskInv, DcInv, DC

\* A step that gives a slot c instead.
LEMMA DcChanges ==
    ASSUME DeskInv, NEW d \in DCSlots, NEW c \in DC, dcs' = [dcs EXCEPT ![d] = c],
           c.made = "memory" => c.is_memdc, c.is_memdc => c.turned,
           next_dc' \in Nat \ {0}, UNCHANGED <<bitmaps, next_bitmap>>
    PROVE  DcInv'
  BY DcFacts DEF DcInv, DCsAsMade

LEMMA GetDCStep ==
    ASSUME DeskInv, NEW h \in Hwnds, wg_gdi_get_dc(h)
    PROVE  DeskInv'
<1> DEFINE C(d) == [dcs[d] EXCEPT !.used = TRUE, !.handle = next_dc, !.hwnd = h, !.made = "window"]
<1>1. PICK d \in FreeDCs : dcs' = [dcs EXCEPT ![d] = C(d)]
  BY DEF wg_gdi_get_dc, TakeDC, FreeDCs
<1>2. d \in DCSlots  BY <1>1 DEF FreeDCs
<1>3. /\ C(d) \in DC /\ C(d).made = "window" /\ C(d).is_memdc = dcs[d].is_memdc
      /\ C(d).turned = dcs[d].turned
  <2>1. dcs[d] \in [used : BOOLEAN, handle : Nat, hwnd : 0 .. MaxMade,
                    is_memdc : BOOLEAN, sel_bitmap : 0 .. MaxMade,
                    made : {"window", "memory"}, turned : BOOLEAN]
    BY <1>2, DcFacts
  <2>2. h \in 0 .. MaxMade /\ next_dc \in Nat  BY DcFacts, DeskFacts DEF Hwnds
  <2> DEFINE e == [dcs[d] EXCEPT !.used = TRUE, !.handle = next_dc]
  <2>3. /\ e \in DC /\ e.is_memdc = dcs[d].is_memdc /\ e.turned = dcs[d].turned
    BY <2>1, <2>2 DEF DC
  <2>4. C(d) = [e EXCEPT !.hwnd = h, !.made = "window"]  BY <2>1
  <2> HIDE DEF e, C
  <2> QED BY <2>2, <2>3, <2>4 DEF DC
<1> HIDE DEF C
<1>4. dcs[d].is_memdc => dcs[d].turned  BY <1>2, DcFacts DEF DCsAsMade
<1>5. next_dc' \in Nat \ {0} /\ UNCHANGED <<windowVars, bitmaps, next_bitmap, drawings, drew>>
  <2>1. next_dc' = next_dc + 1
    BY Zenon DEF wg_gdi_get_dc, TakeDC
  <2>2. UNCHANGED <<windowVars, bitmaps, next_bitmap, drawings, drew>>
    BY Zenon DEF wg_gdi_get_dc, TakeDC
  <2> QED BY <2>1, <2>2, DcFacts
<1>6. DcInv'  BY <1>1, <1>2, <1>3, <1>4, <1>5, DcChanges
<1> QED BY <1>5, <1>6, QuietDesk

LEMMA MemoryDCStep ==
    ASSUME DeskInv, wg_gdi_create_memory_dc
    PROVE  DeskInv'
<1> DEFINE c == [FreshDC EXCEPT !.used = TRUE, !.handle = next_dc, !.is_memdc = TRUE,
                                !.made = "memory", !.turned = TRUE]
<1>1. PICK d \in FreeDCs : dcs' = [dcs EXCEPT ![d] = c]
  BY DEF wg_gdi_create_memory_dc, TakeDC, FreeDCs
<1>2. d \in DCSlots  BY <1>1 DEF FreeDCs
<1>3. c \in DC /\ c.is_memdc /\ c.turned
  <2>1. FreshDC \in DC  BY DeskFacts DEF FreshDC, DC
  <2>2. next_dc \in Nat  BY DcFacts
  <2> DEFINE e == [FreshDC EXCEPT !.used = TRUE, !.handle = next_dc]
  <2>3. e \in DC  BY <2>1, <2>2 DEF DC
  <2>4. c = [e EXCEPT !.is_memdc = TRUE, !.made = "memory", !.turned = TRUE]
    BY <2>1 DEF DC
  <2> HIDE DEF c, e
  <2> QED BY <2>3, <2>4 DEF DC
<1> HIDE DEF c
<1>4. next_dc' \in Nat \ {0} /\ UNCHANGED <<windowVars, bitmaps, next_bitmap, drawings, drew>>
  BY DcFacts DEF wg_gdi_create_memory_dc, TakeDC
<1>5. DcInv'  BY <1>1, <1>2, <1>3, <1>4, DcChanges
<1> QED BY <1>4, <1>5, QuietDesk

LEMMA ReleaseDCStep ==
    ASSUME DeskInv, NEW h, wg_gdi_release_dc(h)
    PROVE  DeskInv'
<1> DEFINE C(d) == [dcs[d] EXCEPT !.used = FALSE]
<1>1. PICK d \in find_dc(h) : dcs' = [dcs EXCEPT ![d] = C(d)]
  BY DEF wg_gdi_release_dc
<1>2. d \in DCSlots  BY <1>1 DEF find_dc
<1>3. /\ C(d) \in DC /\ C(d).made = dcs[d].made /\ C(d).is_memdc = dcs[d].is_memdc
      /\ C(d).turned = dcs[d].turned
  BY <1>2, DcFacts DEF DC
<1> HIDE DEF C
<1>4. next_dc' \in Nat \ {0} /\ UNCHANGED <<windowVars, bitmaps, next_bitmap, drawings, drew>>
  BY DcFacts DEF wg_gdi_release_dc
<1>5. DcInv'  BY <1>1, <1>2, <1>3, <1>4, DcFacts, DcChanges DEF DCsAsMade
<1> QED BY <1>4, <1>5, QuietDesk

LEMMA SelectStep ==
    ASSUME DeskInv, NEW h, NEW b \in 1 .. MaxMade, wg_gdi_select_bitmap(h, b)
    PROVE  DeskInv'
<1> DEFINE C(d) == [dcs[d] EXCEPT !.sel_bitmap = b]
<1>1. PICK d \in find_dc(h) : dcs' = [dcs EXCEPT ![d] = C(d)]
  BY DEF wg_gdi_select_bitmap
<1>2. d \in DCSlots  BY <1>1 DEF find_dc
<1>3. /\ C(d) \in DC /\ C(d).made = dcs[d].made /\ C(d).is_memdc = dcs[d].is_memdc
      /\ C(d).turned = dcs[d].turned
  BY <1>2, DcFacts, DeskFacts DEF DC
<1> HIDE DEF C
<1>4. next_dc' \in Nat \ {0} /\ UNCHANGED <<windowVars, bitmaps, next_bitmap, drawings, drew>>
  BY DcFacts DEF wg_gdi_select_bitmap
<1>5. DcInv'  BY <1>1, <1>2, <1>3, <1>4, DcFacts, DcChanges DEF DCsAsMade
<1> QED BY <1>4, <1>5, QuietDesk

LEMMA BitmapSteps ==
    ASSUME DeskInv, wg_bitmap_create \/ \E h \in 1 .. MaxMade : wg_bitmap_delete(h)
    PROVE  DeskInv'
<1>1. /\ bitmaps' \in [BmpSlots -> 0 .. MaxMade] /\ next_bitmap' \in Nat \ {0}
      /\ UNCHANGED <<windowVars, dcs, next_dc, drawings, drew>>
  <2>1. CASE wg_bitmap_create
    <3>1. PICK b \in BmpSlots : bitmaps' = [bitmaps EXCEPT ![b] = next_bitmap]
      BY <2>1 DEF wg_bitmap_create
    <3>2. next_bitmap \in 0 .. MaxMade /\ next_bitmap' = next_bitmap + 1
      BY <2>1, DcFacts, DeskFacts DEF wg_bitmap_create
    <3>3. UNCHANGED <<windowVars, dcs, next_dc, drawings, drew>>
      BY <2>1 DEF wg_bitmap_create
    <3>4. next_bitmap' \in Nat \ {0}  BY <3>2, DeskFacts
    <3> QED BY <3>1, <3>2, <3>3, <3>4, DcFacts
  <2>2. CASE \E h \in 1 .. MaxMade : wg_bitmap_delete(h)
    <3>1. PICK h \in 1 .. MaxMade : wg_bitmap_delete(h)  BY <2>2
    <3>2. PICK b \in BitmapSlots(h) : bitmaps' = [bitmaps EXCEPT ![b] = 0]
      BY <3>1 DEF wg_bitmap_delete
    <3>3. UNCHANGED <<windowVars, dcs, next_dc, next_bitmap, drawings, drew>>
      BY <3>1 DEF wg_bitmap_delete
    <3>4. bitmaps' \in [BmpSlots -> 0 .. MaxMade]
      <4>1. 0 \in 0 .. MaxMade /\ bitmaps \in [BmpSlots -> 0 .. MaxMade]
        BY DcFacts, DeskFacts
      <4> HIDE DEF DeskInv
      <4> QED BY <3>2, <4>1
    <3>5. next_bitmap' \in Nat \ {0}  BY <3>3, DcFacts
    <3> QED BY <3>3, <3>4, <3>5
  <2> QED BY <2>1, <2>2
<1>2. DcInv'  BY <1>1, DcFacts DEF DcInv, DCsAsMade
<1> QED BY <1>1, <1>2, QuietDesk

LEMMA DrawThroughStep ==
    ASSUME DeskInv, NEW h, DrawThrough(h)
    PROVE  DeskInv'
<1>1. WindowInv'  BY DrawStep DEF DrawThrough
<1> QED BY <1>1 DEF DeskInv, DrawThrough, gdiVars, DcInv, DCsAsMade, BlitsWhereAsked

\* A blit goes where the DC of its slot was made for.
LEMMA BlitStep ==
    ASSUME DeskInv, NEW h, wg_gdi_blit(h)
    PROVE  DeskInv'
<1>1. PICK d \in find_dc(h) :
        /\ drew' = [kind |-> dcs[d].made, id |-> dcs[d].hwnd, turned |-> dcs[d].turned,
                    to |-> dc_target(d)]
        /\ IF dc_target(d).kind = "window"
           THEN Draw(dc_target(d).id) ELSE UNCHANGED <<windowVars, drawings>>
  BY DEF wg_gdi_blit
<1>2. d \in DCSlots  BY <1>1 DEF find_dc
<1>3. WindowInv'
  <2>1. CASE dc_target(d).kind = "window"  BY <1>1, <2>1, DrawStep
  <2>2. CASE dc_target(d).kind # "window"
    BY <1>1, <2>2 DEF DeskInv, windowVars, WindowInv, EntriesNumbered, CopyCurrent, Shown
  <2> QED BY <2>1, <2>2
<1>4. /\ dcs[d].is_memdc => dc_target(d).kind # "window"
      /\ ~ dcs[d].is_memdc => \/ dc_target(d) = Nowhere
                              \/ dc_target(d) = [kind |-> "window", id |-> dcs[d].hwnd]
  BY DEF dc_target, Nowhere
<1>5. /\ dcs[d].made = "memory" => dcs[d].is_memdc
      /\ dcs[d].is_memdc => dcs[d].turned
  BY <1>2, DcFacts DEF DCsAsMade
<1>6. BlitsWhereAsked'
  <2>1. /\ drew'.kind = dcs[d].made /\ drew'.id = dcs[d].hwnd
        /\ drew'.turned = dcs[d].turned /\ drew'.to = dc_target(d)
    BY <1>1
  <2> QED BY <1>4, <1>5, <2>1 DEF BlitsWhereAsked
<1>7. DcInv'  BY DEF DeskInv, wg_gdi_blit, gdiVars, DcInv, DCsAsMade
<1> QED BY <1>3, <1>6, <1>7 DEF DeskInv

LEMMA DeskStep == DeskInv /\ [DeskNext]_deskVars => DeskInv'
<1> SUFFICES ASSUME DeskInv, [DeskNext]_deskVars PROVE DeskInv'  OBVIOUS
<1>1. CASE UNCHANGED deskVars
  BY <1>1, QuietDesk DEF deskVars, gdiVars, DeskInv, DcInv, DCsAsMade
<1>2. CASE DeskNext
  <2>1. CASE wg_wm_reset  BY <2>1, ResetStep
  <2>2. CASE CopyEnds  BY <2>2, CopyEndsStep
  <2>3. CASE wg_gdi_create_memory_dc  BY <2>3, MemoryDCStep
  <2>4. CASE wg_bitmap_create  BY <2>4, BitmapSteps
  <2>5. CASE \E v \in BOOLEAN : wg_wm_create_window(v)  BY <2>5, CreateWindowStep
  <2>6. ASSUME NEW h \in Hwnds,
               \/ \E v \in BOOLEAN : wg_wm_show(h, v)
               \/ wg_wm_destroy(h) \/ wg_gdi_get_dc(h) \/ CopyBegins(h)
        PROVE  DeskInv'
    BY <2>6, ShowStep, DestroyStep, GetDCStep, CopyBeginsStep
  <2>7. ASSUME NEW h \in 1 .. MaxMade,
               \/ wg_gdi_release_dc(h) \/ wg_bitmap_delete(h)
               \/ \E b \in 1 .. MaxMade : wg_gdi_select_bitmap(h, b)
               \/ DrawThrough(h) \/ wg_gdi_blit(h)
        PROVE  DeskInv'
    BY <2>7, ReleaseDCStep, BitmapSteps, SelectStep, DrawThroughStep, BlitStep
  <2> QED BY <1>2, <2>1, <2>2, <2>3, <2>4, <2>5, <2>6, <2>7 DEF DeskNext
<1> QED BY <1>1, <1>2

\* DeskTypeOK of WGDesktop: the window table never outgrows its entries, and every
\* handle is of the kind its table says, for tables of every size.
THEOREM DesktopTyped == DeskSpec => []DeskTypeOK
<1>1. DeskInv => DeskTypeOK  BY DEF DeskInv, WindowInv, DcInv, DeskTypeOK
<1> QED BY <1>1, DeskInitial, DeskStep, PTL DEF DeskSpec

\* DesktopRight of WGDesktop: what the compositor shows is what was drawn last, or
\* it will copy it yet, and a blit goes to the surface its DC was made for
\* (wg_gdi_blit, dc_target, clientTextureFor), for any number of windows, DCs,
\* bitmaps, drawings and programs.
THEOREM ScreenRight == DeskSpec => []DesktopRight
<1>1. DeskInv => DesktopRight  BY DEF DeskInv, WindowInv, DesktopRight
<1> QED BY <1>1, DeskInitial, DeskStep, PTL DEF DeskSpec

-----------------------------------------------------------------------------
(* Drawing: lines.                                                         *)

Across(j) == j.x1 - j.x0
Down(j)   == j.y1 - j.y0
Adx(j)    == AbsOf(Across(j))
Ady(j)    == AbsOf(Down(j))
Sgn(x)    == IF x < 0 THEN -1 ELSE 1

\* How far the pen is off the line of j, times the length of the line.
OffLine(j, p) == (p[1] - j.x0) * Down(j) - (p[2] - j.y0) * Across(j)

\* The error counts how far the line has come off since its first pixel, in a range
\* as long as the line.
PenRight(j, p) ==
    /\ p \in Int \X Int \X Int
    /\ OffLine(j, p) = Sgn(Across(j)) * Sgn(Down(j)) * (FirstErr(j) - p[3])
    /\ Adx(j) > Ady(j) => p[3] \in 0 .. Adx(j) - 1
    /\ Adx(j) <= Ady(j) /\ Ady(j) > 0 => p[3] \in 1 - Ady(j) .. 0
    /\ Adx(j) = 0 /\ Ady(j) = 0 => p[3] = 0 /\ p[1] = j.x0 /\ p[2] = j.y0

LEMMA LineFacts ==
    ASSUME NEW j \in Lines
    PROVE  /\ j.x0 \in Int /\ j.y0 \in Int /\ j.x1 \in Int /\ j.y1 \in Int
           /\ Across(j) \in Int /\ Down(j) \in Int
           /\ Adx(j) \in Nat /\ Ady(j) \in Nat
           /\ Across(j) = Sgn(Across(j)) * Adx(j)
           /\ Down(j) = Sgn(Down(j)) * Ady(j)
           /\ Sgn(Across(j)) \in {-1, 1} /\ Sgn(Down(j)) \in {-1, 1}
<1>1. /\ j.x0 \in Int /\ j.y0 \in Int /\ j.x1 \in Int /\ j.y1 \in Int
  BY RasterAssumption DEF Lines
<1> QED BY <1>1 DEF Across, Down, Adx, Ady, AbsOf, Sgn

LEMMA Minus ==
    ASSUME NEW x \in Int, x <= 0, x >= 0
    PROVE  - x = x
  OBVIOUS

LEMMA Triple ==
    ASSUME NEW x \in Int, NEW y \in Int, NEW z \in Int
    PROVE  /\ <<x, y, z>> \in Int \X Int \X Int
           /\ <<x, y, z>>[1] = x /\ <<x, y, z>>[2] = y /\ <<x, y, z>>[3] = z
  OBVIOUS

LEMMA Halved ==
    ASSUME NEW a \in Nat
    PROVE  a \div 2 \in Nat /\ 2 * (a \div 2) <= a /\ 2 * (a \div 2) >= a - 1
  OBVIOUS

\* The error starts in the middle of its range.
LEMMA FirstErrFacts ==
    ASSUME NEW j \in Lines
    PROVE  /\ FirstErr(j) \in Int
           /\ Adx(j) > Ady(j) => 2 * FirstErr(j) \in Adx(j) - 1 .. Adx(j)
           /\ Adx(j) <= Ady(j) => 2 * FirstErr(j) \in - Ady(j) .. 1 - Ady(j)
<1>1. PICK adx \in Nat, ady \in Nat : adx = Adx(j) /\ ady = Ady(j)  BY LineFacts
<1>2. FirstErr(j) = Cut(IF adx > ady THEN adx ELSE - ady, 2)
  BY <1>1 DEF FirstErr, Adx, Ady, Across, Down
<1>3. CASE adx > ady
  <2>1. FirstErr(j) = adx \div 2  BY <1>1, <1>2, <1>3 DEF Cut
  <2> HIDE DEF FirstErr
  <2>2. FirstErr(j) \in Nat /\ 2 * FirstErr(j) <= adx /\ 2 * FirstErr(j) >= adx - 1
    BY <1>1, <2>1, Halved
  <2>3. 2 * FirstErr(j) \in adx - 1 .. adx  BY <1>1, <2>2
  <2> QED BY <1>1, <1>3, <2>2, <2>3
<1>4. CASE ~ adx > ady
  <2>1. FirstErr(j) = - (ady \div 2)
    <3>1. CASE ady = 0
      <4>1. PICK h \in Nat : h = ady \div 2 /\ 2 * h <= ady  BY <1>1, Halved
      <4>2. h <= 0 /\ h >= 0 /\ ady <= 0 /\ ady >= 0 /\ ~ (ady < 0)  BY <3>1, <4>1
      <4>3. - h = h /\ - ady = ady  BY <4>2, Minus
      <4>4. FirstErr(j) = ady \div 2  BY <1>2, <1>4, <4>2, <4>3 DEF Cut
      <4> QED BY <4>1, <4>3, <4>4
    <3>2. CASE ady # 0
      <4>1. - ady < 0 /\ - (- ady) = ady  BY <1>1, <3>2
      <4> QED BY <1>2, <1>4, <4>1 DEF Cut
    <3> QED BY <3>1, <3>2
  <2>2. PICK h \in Nat : h = ady \div 2 /\ 2 * h <= ady /\ 2 * h >= ady - 1
    BY <1>1, Halved
  <2>3. FirstErr(j) = - h  BY <2>1, <2>2
  <2>4. 2 * FirstErr(j) \in - ady .. 1 - ady  BY <1>1, <2>2, <2>3
  <2> QED BY <1>1, <1>4, <2>2, <2>3, <2>4
<1> QED BY <1>1, <1>3, <1>4

LEMMA Cross ==
    ASSUME NEW p \in Int, NEW q \in Int, NEW dx \in Int, NEW dy \in Int, NEW s \in Int, NEW t \in Int
    PROVE  (p + s) * dy - (q + t) * dx = (p * dy - q * dx) + (s * dy - t * dx)
  OBVIOUS

LEMMA LineStarts ==
    ASSUME NEW j \in Lines
    PROVE  PenRight(j, <<j.x0, j.y0, FirstErr(j)>>)
<1> DEFINE p == <<j.x0, j.y0, FirstErr(j)>>
<1>1. PICK adx \in Nat, ady \in Nat, e \in Int :
        /\ adx = Adx(j) /\ ady = Ady(j) /\ e = FirstErr(j)
        /\ adx > ady => 2 * e \in adx - 1 .. adx
        /\ adx <= ady => 2 * e \in - ady .. 1 - ady
  BY LineFacts, FirstErrFacts
<1>2. p \in Int \X Int \X Int /\ p[1] = j.x0 /\ p[2] = j.y0 /\ p[3] = e
  BY <1>1, LineFacts
<1> HIDE DEF p
<1>3. OffLine(j, p) = 0
  <2>1. p[1] - j.x0 = 0 /\ p[2] - j.y0 = 0  BY <1>2, LineFacts
  <2>2. 0 * Down(j) - 0 * Across(j) = 0  BY LineFacts
  <2> QED BY <2>1, <2>2 DEF OffLine
<1>4. Sgn(Across(j)) * Sgn(Down(j)) * (FirstErr(j) - p[3]) = 0
  <2>1. FirstErr(j) - p[3] = 0  BY <1>1, <1>2
  <2>2. \A s, t \in {-1, 1} : s * t * 0 = 0  OBVIOUS
  <2> QED BY <2>1, <2>2, LineFacts
<1>5. /\ adx > ady => e \in 0 .. adx - 1
      /\ adx <= ady /\ ady > 0 => e \in 1 - ady .. 0
      /\ adx = 0 /\ ady = 0 => e = 0
  BY <1>1
<1> QED BY <1>1, <1>2, <1>3, <1>4, <1>5 DEF PenRight, p

\* A pen on the line is within half a pixel of it.
LEMMA OnLine ==
    ASSUME NEW j \in Lines, NEW p, PenRight(j, p)
    PROVE  2 * AbsOf(OffLine(j, p)) <= AtLeast(Adx(j), Ady(j))
<1>1. PICK adx \in Nat, ady \in Nat, e \in Int, f \in Int, s \in {-1, 1}, t \in {-1, 1} :
        /\ adx = Adx(j) /\ ady = Ady(j) /\ f = FirstErr(j) /\ e = p[3]
        /\ s = Sgn(Across(j)) /\ t = Sgn(Down(j))
        /\ adx > ady => 2 * f \in adx - 1 .. adx
        /\ adx <= ady => 2 * f \in - ady .. 1 - ady
  BY LineFacts, FirstErrFacts DEF PenRight
<1>2. /\ OffLine(j, p) = s * t * (f - e)
      /\ adx > ady => e \in 0 .. adx - 1
      /\ adx <= ady /\ ady > 0 => e \in 1 - ady .. 0
      /\ adx = 0 /\ ady = 0 => e = 0
  BY <1>1 DEF PenRight
<1>3. s * t * (f - e) \in {f - e, e - f}
  <2>1. s * t \in {-1, 1}  BY <1>1
  <2>2. \A r \in {-1, 1} : r * (f - e) \in {f - e, e - f}  OBVIOUS
  <2> QED BY <2>1, <2>2
<1>4. PICK o \in Int : o = OffLine(j, p) /\ o \in {f - e, e - f}  BY <1>2, <1>3
<1>5. 2 * AbsOf(o) <= AtLeast(adx, ady)
  BY <1>1, <1>2, <1>4 DEF AbsOf, AtLeast
<1> QED BY <1>1, <1>4, <1>5

\* A turn of LineTo keeps the pen on the line.
LEMMA LineMoves ==
    ASSUME NEW j \in Lines, NEW p, PenRight(j, p), <<p[1], p[2]>> # <<j.x1, j.y1>>,
           NEW a \in {0, 1}, NEW d \in {0, 1},
           a = 1 <=> p[3] > - Adx(j), d = 1 <=> p[3] < Ady(j)
    PROVE  PenRight(j, <<p[1] + a * Sgn(Across(j)), p[2] + d * Sgn(Down(j)),
                         p[3] - a * Ady(j) + d * Adx(j)>>)
<1> DEFINE q == <<p[1] + a * Sgn(Across(j)), p[2] + d * Sgn(Down(j)),
                  p[3] - a * Ady(j) + d * Adx(j)>>
<1>1. PICK adx \in Nat, ady \in Nat, e \in Int, f \in Int, s \in {-1, 1}, t \in {-1, 1},
           x \in Int, y \in Int :
        /\ adx = Adx(j) /\ ady = Ady(j) /\ f = FirstErr(j) /\ e = p[3]
        /\ s = Sgn(Across(j)) /\ t = Sgn(Down(j))
        /\ Across(j) = s * adx /\ Down(j) = t * ady
        /\ x = p[1] - j.x0 /\ y = p[2] - j.y0
  <2>1. p[1] \in Int /\ p[2] \in Int /\ p[3] \in Int  BY DEF PenRight
  <2>2. p[1] - j.x0 \in Int /\ p[2] - j.y0 \in Int  BY <2>1, LineFacts
  <2> QED BY <2>1, <2>2, LineFacts, FirstErrFacts
<1>2. PICK g \in Int : g = e - a * ady + d * adx  BY <1>1
<1>3. /\ q \in Int \X Int \X Int /\ q[3] = g
      /\ q[1] - j.x0 = x + a * s /\ q[2] - j.y0 = y + d * t
  <2>1. p[1] \in Int /\ p[2] \in Int /\ p[3] \in Int  BY DEF PenRight
  <2>2. a * s \in Int /\ d * t \in Int  OBVIOUS
  <2>3. PICK as \in Int, dt \in Int : as = a * s /\ dt = d * t  BY <2>2
  <2>4. q = <<p[1] + as, p[2] + dt, g>>  BY <1>1, <1>2, <2>3
  <2> HIDE DEF q
  <2>6. q[1] = p[1] + as /\ q[2] = p[2] + dt /\ q[3] = g /\ q \in Int \X Int \X Int
    <3>1. p[1] + as \in Int /\ p[2] + dt \in Int  BY <2>1, <2>3
    <3> QED BY <2>4, <3>1, Triple
  <2>7. q[1] - j.x0 = x + as /\ q[2] - j.y0 = y + dt
    <3>1. PICK x0 \in Int, y0 \in Int, p1 \in Int, p2 \in Int :
            x0 = j.x0 /\ y0 = j.y0 /\ p1 = p[1] /\ p2 = p[2]
      BY <2>1, LineFacts
    <3>2. x = p1 - x0 /\ y = p2 - y0  BY <1>1, <3>1
    <3>3. (p1 + as) - x0 = x + as /\ (p2 + dt) - y0 = y + dt  BY <3>2
    <3>4. q[1] = p1 + as /\ q[2] = p2 + dt  BY <2>6, <3>1
    <3> QED BY <3>1, <3>3, <3>4
  <2> QED BY <2>3, <2>6, <2>7, Zenon
<1> HIDE DEF q
<1>4. /\ adx > ady => e \in 0 .. adx - 1
      /\ adx <= ady /\ ady > 0 => e \in 1 - ady .. 0
      /\ a = 1 <=> e > - adx
      /\ d = 1 <=> e < ady
  BY <1>1 DEF PenRight
<1>5. /\ adx > ady => g \in 0 .. adx - 1
      /\ adx <= ady /\ ady > 0 => g \in 1 - ady .. 0
  <2>1. CASE a = 0 /\ d = 0
    <3>1. g = e  BY <1>1, <1>2, <2>1
    <3> QED BY <1>1, <1>4, <2>1, <3>1
  <2>2. CASE a = 0 /\ d = 1
    <3>1. g = e + adx  BY <1>1, <1>2, <2>2
    <3> QED BY <1>1, <1>4, <2>2, <3>1
  <2>3. CASE a = 1 /\ d = 0
    <3>1. g = e - ady  BY <1>1, <1>2, <2>3
    <3> QED BY <1>1, <1>4, <2>3, <3>1
  <2>4. CASE a = 1 /\ d = 1
    <3>1. g = e - ady + adx  BY <1>1, <1>2, <2>4
    <3> QED BY <1>1, <1>4, <2>4, <3>1
  <2> QED BY <2>1, <2>2, <2>3, <2>4
<1>6. ~ (adx = 0 /\ ady = 0)
  <2> SUFFICES ASSUME adx = 0, ady = 0 PROVE FALSE  OBVIOUS
  <2>1. p[1] = j.x0 /\ p[2] = j.y0  BY <1>1 DEF PenRight
  <2>2. j.x1 = j.x0 /\ j.y1 = j.y0
    BY <1>1, LineFacts DEF Across, Down, Adx, Ady, AbsOf
  <2> QED BY <2>1, <2>2
<1>7. OffLine(j, q) = s * t * (f - g)
  <2>1. x * (t * ady) - y * (s * adx) = s * t * (f - e)
    BY <1>1 DEF PenRight, OffLine
  <2>2. OffLine(j, q) = (x + a * s) * (t * ady) - (y + d * t) * (s * adx)
    BY <1>1, <1>3 DEF OffLine
  <2>3. (x + a * s) * (t * ady) - (y + d * t) * (s * adx)
        = s * t * (f - e) + ((a * s) * (t * ady) - (d * t) * (s * adx))
    <3>1. a * s \in Int /\ d * t \in Int /\ t * ady \in Int /\ s * adx \in Int  OBVIOUS
    <3> QED BY <2>1, <3>1, Cross
  <2>4. (a * s) * (t * ady) - (d * t) * (s * adx) = s * t * (a * ady - d * adx)
    OBVIOUS
  <2>5. s * t * (f - e) + s * t * (a * ady - d * adx) = s * t * (f - g)
    BY <1>2
  <2> QED BY <2>2, <2>3, <2>4, <2>5
<1> QED BY <1>1, <1>3, <1>5, <1>6, <1>7 DEF PenRight, q

-----------------------------------------------------------------------------
(* Drawing: fills, blits, bitmaps and taps.                                *)

LEMMA FillFacts ==
    ASSUME NEW j \in Fills
    PROVE  wg_gdi_fill_rect(j.l, j.t, j.r, j.b) =
             {p \in Pixels : p[1] >= j.l /\ p[1] < j.r /\ p[2] >= j.t /\ p[2] < j.b}
<1>1. PICK l \in Int, t \in Int, r \in Int, b \in Int :
        l = j.l /\ t = j.t /\ r = j.r /\ b = j.b
  BY RasterAssumption DEF Fills
<1>2. PICK w \in Nat, h \in Nat : w = W /\ h = H  BY RasterAssumption
<1>3. \A x : x \in AtLeast(l, 0) .. AtMost(r, w) - 1 <=> x \in 0 .. w - 1 /\ x >= l /\ x < r
  BY DEF AtLeast, AtMost
<1>4. \A y : y \in AtLeast(t, 0) .. AtMost(b, h) - 1 <=> y \in 0 .. h - 1 /\ y >= t /\ y < b
  BY DEF AtLeast, AtMost
<1>5. wg_gdi_fill_rect(j.l, j.t, j.r, j.b) =
        (AtLeast(l, 0) .. AtMost(r, w) - 1) \X (AtLeast(t, 0) .. AtMost(b, h) - 1)
  BY <1>1, <1>2 DEF wg_gdi_fill_rect
<1>6. Pixels = (0 .. w - 1) \X (0 .. h - 1)  BY <1>2 DEF Pixels
<1> QED BY <1>1, <1>3, <1>4, <1>5, <1>6

\* C's division undoes a multiplication.
LEMMA Unscaled ==
    ASSUME NEW i \in Nat, NEW d \in Nat \ {0}
    PROVE  Cut(i * d, d) = i
<1>1. i * d \in Nat  OBVIOUS
<1>2. (i * d) \div d = i  OBVIOUS
<1> QED BY <1>1, <1>2 DEF Cut

\* A column or a row of a blit that is drawn: n of them at from, read at a scale.
Drawn(k, n, at, limit, from, size) ==
    /\ k \in 0 .. n - 1 /\ at + k \in 0 .. limit - 1
    /\ from + Cut(k * size, n) \in 0 .. limit - 1

LEMMA BlitPixels ==
    ASSUME NEW dx \in Int, NEW dy \in Int, NEW dw \in Int, NEW dh \in Int,
           NEW sx \in Int, NEW sy \in Int, NEW sw \in Int, NEW sh \in Int, NEW m
    PROVE  m \in blit_pixels(dx, dy, dw, dh, sx, sy, sw, sh, W, H) <=>
             \E i, k \in Int : /\ Drawn(i, dw, dx, W, sx, sw) /\ Drawn(k, dh, dy, H, sy, sh)
                              /\ m = <<dx + i, dy + k, sx + Cut(i * sw, dw),
                                       sy + Cut(k * sh, dh)>>
<1> DEFINE I == {k \in 0 .. dw - 1 : /\ dx + k \in 0 .. W - 1
                                     /\ sx + Cut(k * sw, dw) \in 0 .. W - 1}
           J == {k \in 0 .. dh - 1 : /\ dy + k \in 0 .. H - 1
                                     /\ sy + Cut(k * sh, dh) \in 0 .. H - 1}
           F(i, k) == <<dx + i, dy + k, sx + Cut(i * sw, dw), sy + Cut(k * sh, dh)>>
<1>1. blit_pixels(dx, dy, dw, dh, sx, sy, sw, sh, W, H) = {F(i, k) : i \in I, k \in J}
  BY DEF blit_pixels
<1>2. \A k : k \in I <=> k \in Int /\ Drawn(k, dw, dx, W, sx, sw)  BY DEF Drawn
<1>3. \A k : k \in J <=> k \in Int /\ Drawn(k, dh, dy, H, sy, sh)  BY DEF Drawn
<1> HIDE DEF I, J
<1>4. m \in {F(i, k) : i \in I, k \in J} <=> \E i \in I, k \in J : m = F(i, k)
  OBVIOUS
<1> QED BY <1>1, <1>2, <1>3, <1>4

LEMMA BlitApart ==
    ASSUME NEW dx \in Int, NEW dy \in Int, NEW dw \in Int, NEW dh \in Int,
           NEW sx \in Int, NEW sy \in Int, NEW sw \in Int, NEW sh \in Int
    PROVE  LET M == blit_pixels(dx, dy, dw, dh, sx, sy, sw, sh, W, H)
           IN  /\ \A m \in M : Within(m[1], m[2]) /\ Within(m[3], m[4])
               /\ \A m, n \in M : <<m[1], m[2]>> = <<n[1], n[2]>> => m = n
<1> DEFINE M == blit_pixels(dx, dy, dw, dh, sx, sy, sw, sh, W, H)
           S(i) == sx + Cut(i * sw, dw)
           T(k) == sy + Cut(k * sh, dh)
<1>1. \A m \in M : \E i, k \in Int :
         /\ m = <<dx + i, dy + k, S(i), T(k)>>
         /\ dx + i \in 0 .. W - 1 /\ dy + k \in 0 .. H - 1
         /\ S(i) \in 0 .. W - 1 /\ T(k) \in 0 .. H - 1
  <2> SUFFICES ASSUME NEW m \in M
               PROVE  \E i, k \in Int :
                         /\ m = <<dx + i, dy + k, S(i), T(k)>>
                         /\ dx + i \in 0 .. W - 1 /\ dy + k \in 0 .. H - 1
                         /\ S(i) \in 0 .. W - 1 /\ T(k) \in 0 .. H - 1
    OBVIOUS
  <2>1. PICK i \in Int, k \in Int :
          /\ Drawn(i, dw, dx, W, sx, sw) /\ Drawn(k, dh, dy, H, sy, sh)
          /\ m = <<dx + i, dy + k, S(i), T(k)>>
    BY BlitPixels
  <2> QED BY <2>1 DEF Drawn
<1> HIDE DEF M, S, T
<1>2. ASSUME NEW m \in M PROVE Within(m[1], m[2]) /\ Within(m[3], m[4])
  BY <1>1 DEF Within, Pixels
<1>3. ASSUME NEW m \in M, NEW n \in M, <<m[1], m[2]>> = <<n[1], n[2]>> PROVE m = n
  <2>1. PICK i, k \in Int : m = <<dx + i, dy + k, S(i), T(k)>>  BY <1>1
  <2>2. PICK a, b \in Int : n = <<dx + a, dy + b, S(a), T(b)>>  BY <1>1
  <2>3. dx + i = dx + a /\ dy + k = dy + b  BY <1>3, <2>1, <2>2
  <2>4. i = a /\ k = b  BY <2>3
  <2> QED BY <2>1, <2>2, <2>4
<1> QED BY <1>2, <1>3 DEF M

\* The pixels that are set, and those that a blit of a whole bitmap should set.
Set2D(M) == {<<m[1], m[2]>> : m \in M}
BlitAsked(dx, dy, dw, dh, sx, sy) ==
    {p \in Pixels : /\ p[1] - dx \in 0 .. dw - 1 /\ p[2] - dy \in 0 .. dh - 1
                    /\ Within(p[1] - dx + sx, p[2] - dy + sy)}

LEMMA BlitCovers ==
    ASSUME NEW dx \in Int, NEW dy \in Int, NEW dw \in Int, NEW dh \in Int,
           NEW sx \in Int, NEW sy \in Int, dw > 0, dh > 0
    PROVE  Set2D(blit_pixels(dx, dy, dw, dh, sx, sy, dw, dh, W, H)) = BlitAsked(dx, dy, dw, dh, sx, sy)
<1> DEFINE M == blit_pixels(dx, dy, dw, dh, sx, sy, dw, dh, W, H)
           R == {p \in Pixels : /\ p[1] - dx \in 0 .. dw - 1 /\ p[2] - dy \in 0 .. dh - 1
                                /\ Within(p[1] - dx + sx, p[2] - dy + sy)}
<1>1. PICK w \in Nat, h \in Nat : w = W /\ h = H  BY RasterAssumption
<1>2. \A m : m \in M <=>
         \E i, k \in Int : /\ i \in 0 .. dw - 1 /\ dx + i \in 0 .. w - 1 /\ sx + i \in 0 .. w - 1
                           /\ k \in 0 .. dh - 1 /\ dy + k \in 0 .. h - 1 /\ sy + k \in 0 .. h - 1
                           /\ m = <<dx + i, dy + k, sx + i, sy + k>>
  <2>1. /\ \A i \in 0 .. dw - 1 : Cut(i * dw, dw) = i
        /\ \A k \in 0 .. dh - 1 : Cut(k * dh, dh) = k
    BY Unscaled
  <2>2. \A i \in Int : Drawn(i, dw, dx, W, sx, dw) <=>
           i \in 0 .. dw - 1 /\ dx + i \in 0 .. w - 1 /\ sx + i \in 0 .. w - 1
    BY <1>1, <2>1 DEF Drawn
  <2>3. \A k \in Int : Drawn(k, dh, dy, H, sy, dh) <=>
           k \in 0 .. dh - 1 /\ dy + k \in 0 .. h - 1 /\ sy + k \in 0 .. h - 1
    BY <1>1, <2>1 DEF Drawn
  <2> SUFFICES ASSUME NEW m
               PROVE  m \in M <=>
                 \E i, k \in Int :
                    /\ i \in 0 .. dw - 1 /\ dx + i \in 0 .. w - 1 /\ sx + i \in 0 .. w - 1
                    /\ k \in 0 .. dh - 1 /\ dy + k \in 0 .. h - 1 /\ sy + k \in 0 .. h - 1
                    /\ m = <<dx + i, dy + k, sx + i, sy + k>>
    OBVIOUS
  <2>4. m \in M <=>
          \E i, k \in Int : /\ Drawn(i, dw, dx, W, sx, dw) /\ Drawn(k, dh, dy, H, sy, dh)
                           /\ m = <<dx + i, dy + k, sx + Cut(i * dw, dw), sy + Cut(k * dh, dh)>>
    <3>1. dw \in Int /\ dh \in Int  OBVIOUS
    <3> QED BY <3>1, BlitPixels
  <2> HIDE DEF M
  <2> QED BY <2>1, <2>2, <2>3, <2>4
<1>3. Pixels = (0 .. w - 1) \X (0 .. h - 1)  BY <1>1 DEF Pixels
<1> HIDE DEF M
<1>4. ASSUME NEW m \in M PROVE <<m[1], m[2]>> \in R
  <2>1. PICK i, k \in Int :
          /\ i \in 0 .. dw - 1 /\ dx + i \in 0 .. w - 1 /\ sx + i \in 0 .. w - 1
          /\ k \in 0 .. dh - 1 /\ dy + k \in 0 .. h - 1 /\ sy + k \in 0 .. h - 1
          /\ m = <<dx + i, dy + k, sx + i, sy + k>>
    BY <1>2
  <2>2. /\ m[1] = dx + i /\ m[2] = dy + k
        /\ (dx + i) - dx = i /\ (dy + k) - dy = k /\ i + sx = sx + i /\ k + sy = sy + k
    BY <2>1
  <2> QED BY <1>3, <2>1, <2>2 DEF Within
<1>5. ASSUME NEW p \in R PROVE \E m \in M : p = <<m[1], m[2]>>
  <2>1. PICK x \in 0 .. w - 1, y \in 0 .. h - 1 : p = <<x, y>>  BY <1>3
  <2>2. x - dx \in 0 .. dw - 1 /\ y - dy \in 0 .. dh - 1
        /\ x - dx + sx \in 0 .. w - 1 /\ y - dy + sy \in 0 .. h - 1
    BY <1>3, <2>1 DEF Within
  <2> DEFINE i == x - dx
             k == y - dy
             m == <<dx + i, dy + k, sx + i, sy + k>>
  <2>3. i \in Int /\ k \in Int /\ dx + i = x /\ dy + k = y /\ sx + i = i + sx /\ sy + k = k + sy
    OBVIOUS
  <2>4. m \in M
    <3> HIDE DEF m
    <3>1. /\ i \in 0 .. dw - 1 /\ dx + i \in 0 .. w - 1 /\ sx + i \in 0 .. w - 1
          /\ k \in 0 .. dh - 1 /\ dy + k \in 0 .. h - 1 /\ sy + k \in 0 .. h - 1
      BY <2>2, <2>3
    <3>2. m = <<dx + i, dy + k, sx + i, sy + k>>  BY DEF m
    <3> HIDE DEF i, k
    <3> QED BY <1>2, <2>3, <3>1, <3>2
  <2>5. m[1] = x /\ m[2] = y  BY <2>3
  <2> HIDE DEF m
  <2> QED BY <2>1, <2>4, <2>5
<1> HIDE DEF R
<1>6. {<<m[1], m[2]>> : m \in M} = R  BY <1>4, <1>5
<1> QED BY <1>6 DEF M, R, Set2D, BlitAsked

\* A bitmap's rows are each filled once.
LEMMA DibFills ==
    ASSUME NEW w \in Nat \ {0}, NEW h \in Nat \ {0}, NEW top_down \in BOOLEAN
    PROVE  LET M == decode_dib(w, h, top_down)
           IN  /\ {<<m[1], m[2]>> : m \in M} = (0 .. w - 1) \X (0 .. h - 1)
               /\ Cardinality(M) = w * h
<1> DEFINE X == 0 .. w - 1
           Y == 0 .. h - 1
           R(r) == DibRow(r, h, top_down)
           M == {<<x, R(r), x, r>> : x \in X, r \in Y}
<1>1. \A r \in Y : R(r) \in Y /\ R(R(r)) = r  BY DEF DibRow
<1> HIDE DEF R
<1>2. {<<m[1], m[2]>> : m \in M} = X \X Y
  <2>1. ASSUME NEW m \in M PROVE <<m[1], m[2]>> \in X \X Y
    <3>1. PICK x \in X, r \in Y : m = <<x, R(r), x, r>>  BY <2>1
    <3>2. m[1] = x /\ m[2] = R(r) /\ R(r) \in Y  BY <1>1, <3>1
    <3> HIDE DEF X, Y
    <3> QED BY <3>2
  <2>2. ASSUME NEW x \in X, NEW y \in Y PROVE \E m \in M : <<m[1], m[2]>> = <<x, y>>
    <3> DEFINE m == <<x, R(R(y)), x, R(y)>>
    <3>1. R(y) \in Y /\ R(R(y)) = y  BY <1>1
    <3>2. m \in M  BY <3>1
    <3>3. m[1] = x /\ m[2] = y  BY <3>1
    <3> HIDE DEF m, M
    <3> QED BY <3>2, <3>3
  <2> HIDE DEF M, X, Y
  <2> QED BY <2>1, <2>2
<1>3. Cardinality(M) = w * h
  <2> DEFINE f == [z \in X \X Y |-> <<z[1], R(z[2]), z[1], z[2]>>]
  <2>1. f \in [X \X Y -> M]
    <3> SUFFICES ASSUME NEW z \in X \X Y PROVE <<z[1], R(z[2]), z[1], z[2]>> \in M
      OBVIOUS
    <3>1. z[1] \in X /\ z[2] \in Y  OBVIOUS
    <3> HIDE DEF X, Y
    <3> QED BY <3>1
  <2>2. ASSUME NEW a \in X \X Y, NEW b \in X \X Y, f[a] = f[b] PROVE a = b
    <3>1. f[a] = <<a[1], R(a[2]), a[1], a[2]>> /\ f[b] = <<b[1], R(b[2]), b[1], b[2]>>
      OBVIOUS
    <3> HIDE DEF f
    <3>2. <<a[1], R(a[2]), a[1], a[2]>> = <<b[1], R(b[2]), b[1], b[2]>>  BY <2>2, <3>1
    <3>3. a[1] = b[1] /\ a[2] = b[2]  BY <3>2
    <3> HIDE DEF X, Y
    <3>4. a = <<a[1], a[2]>> /\ b = <<b[1], b[2]>>  OBVIOUS
    <3> QED BY <3>3, <3>4
  <2>3. ASSUME NEW m \in M PROVE \E z \in X \X Y : f[z] = m
    <3>1. PICK x \in X, r \in Y : m = <<x, R(r), x, r>>  BY <2>3
    <3>2. <<x, r>> \in X \X Y /\ f[<<x, r>>] = m  BY <3>1
    <3> HIDE DEF f, X, Y
    <3> QED BY <3>2
  <2>4. f \in Bijection(X \X Y, M)
    <3> HIDE DEF f, M, X, Y
    <3>1. f \in Injection(X \X Y, M)  BY <2>1, <2>2 DEF Injection, IsInjective
    <3>2. f \in Surjection(X \X Y, M)  BY <2>1, <2>3 DEF Surjection
    <3> QED BY <3>1, <3>2 DEF Bijection
  <2>5. ExistsBijection(X \X Y, M)
    <3> HIDE DEF f, M, X, Y
    <3> QED BY <2>4 DEF ExistsBijection
  <2>6. /\ IsFiniteSet(X) /\ Cardinality(X) = w /\ IsFiniteSet(Y) /\ Cardinality(Y) = h
    <3>1. /\ 0 \in Int /\ w - 1 \in Int /\ h - 1 \in Int /\ ~ (0 > w - 1) /\ ~ (0 > h - 1)
          /\ w - 1 - 0 + 1 = w /\ h - 1 - 0 + 1 = h
      OBVIOUS
    <3> QED BY <3>1, FS_Interval
  <2> HIDE DEF f, M, X, Y
  <2>7. IsFiniteSet(X \X Y) /\ Cardinality(X \X Y) = w * h  BY <2>6, FS_Product
  <2> QED BY <2>5, <2>7, FS_Bijection
<1>4. decode_dib(w, h, top_down) = M  BY DEF decode_dib, R
<1> HIDE DEF M
<1> QED BY <1>2, <1>3, <1>4

\* A screen pixel of a button is a pixel of the button.
LEMMA ScreenInverse ==
    ASSUME NEW off \in Nat, NEW x \in Nat, NEW px \in Nat, NEW w \in Nat, NEW scale \in Scales,
           NEW p \in ScreenColumns(off, x, px, w, scale)
    PROVE  /\ Virtual(off, p, scale) \in Int
           /\ Virtual(off, p, scale) >= x + px /\ Virtual(off, p, scale) < x + px + w
<1>1. PICK s \in Nat \ {0}, q \in Nat \ {0} : s = scale[1] /\ q = scale[2]
  BY RasterAssumption
<1>2. /\ p \in Int
      /\ p * q >= off * q + (x + px) * s
      /\ p * q < off * q + (x + px + w) * s
  BY <1>1 DEF ScreenColumns, Edge
<1>3. PICK a \in Int : a = (p - off) * q  BY <1>2
<1>4. a >= (x + px) * s /\ a < (x + px + w) * s  BY <1>2, <1>3
<1>5. a \in Nat
  <2>1. (x + px) * s >= 0  OBVIOUS
  <2>2. (x + px) * s \in Int  OBVIOUS
  <2> QED BY <1>4, <2>1, <2>2
<1>6. PICK d \in Nat : d = a \div s /\ d * s <= a /\ a < (d + 1) * s
  BY <1>5
<1>7. Virtual(off, p, scale) = d
  BY <1>1, <1>3, <1>5, <1>6 DEF Virtual, Cut
<1>8. \A m, n \in Nat : m <= n => m * s <= n * s  OBVIOUS
<1>9. d >= x + px
  <2> SUFFICES ASSUME ~ d >= x + px PROVE FALSE  OBVIOUS
  <2>1. d + 1 <= x + px /\ d + 1 \in Nat /\ x + px \in Nat  OBVIOUS
  <2>2. (d + 1) * s <= (x + px) * s  BY <1>8, <2>1
  <2>3. (d + 1) * s \in Int /\ (x + px) * s \in Int  OBVIOUS
  <2> QED BY <1>4, <1>6, <2>2, <2>3
<1>10. d < x + px + w
  <2> SUFFICES ASSUME ~ d < x + px + w PROVE FALSE  OBVIOUS
  <2>1. x + px + w <= d /\ x + px + w \in Nat  OBVIOUS
  <2>2. (x + px + w) * s <= d * s  BY <1>8, <2>1
  <2>3. (x + px + w) * s \in Int /\ d * s \in Int  OBVIOUS
  <2> QED BY <1>4, <1>6, <2>2, <2>3
<1> QED BY <1>7, <1>9, <1>10

LEMMA TapFacts ==
    ASSUME NEW j \in Taps
    PROVE  LET A == ScreenColumns(j.off, j.at, j.px, j.w, j.scale)
               B == ScreenColumns(j.off, j.at + j.tb, j.px, j.w, j.scale)
           IN  {m \in A \X B : hit_test(Virtual(j.off, m[1], j.scale),
                                        Virtual(j.off, m[2], j.scale),
                                        j.at, j.at, j.tb, j.px, j.px, j.w, j.w)} = A \X B
<1> DEFINE A == ScreenColumns(j.off, j.at, j.px, j.w, j.scale)
           B == ScreenColumns(j.off, j.at + j.tb, j.px, j.w, j.scale)
<1>1. PICK off \in Nat, x \in Nat, tb \in Nat, px \in Nat, w \in Nat, scale \in Scales :
        /\ off = j.off /\ x = j.at /\ tb = j.tb /\ px = j.px /\ w = j.w /\ scale = j.scale
  BY DEF Taps
<1> SUFFICES ASSUME NEW a \in A, NEW b \in B
             PROVE  hit_test(Virtual(off, a, scale), Virtual(off, b, scale),
                             x, x, tb, px, px, w, w)
  BY <1>1
<1>2. /\ Virtual(off, a, scale) \in Int
      /\ Virtual(off, a, scale) >= x + px /\ Virtual(off, a, scale) < x + px + w
  BY <1>1, ScreenInverse
<1>3. x + tb \in Nat  OBVIOUS
<1>4. /\ Virtual(off, b, scale) \in Int
      /\ Virtual(off, b, scale) >= x + tb + px /\ Virtual(off, b, scale) < x + tb + px + w
  BY <1>1, <1>3, ScreenInverse
<1>5. PICK vx \in Int, vy \in Int : vx = Virtual(off, a, scale) /\ vy = Virtual(off, b, scale)
  BY <1>2, <1>4
<1>6. hit_test(vx, vy, x, x, tb, px, px, w, w)
  BY <1>2, <1>4, <1>5 DEF hit_test
<1> QED BY <1>5, <1>6

-----------------------------------------------------------------------------
(* Drawing: every job.                                                     *)

\* What holds whenever one call of the drawing is over or under way: it marks what
\* it should once it has returned, and a line that is drawn stays on its line.
RasterInv ==
    /\ RasterTypeOK
    /\ job \in {[call |-> "none"]} \cup Fills \cup Blits \cup Dibs \cup Lines \cup Taps
    /\ job.call = "none" => ~ returned
    /\ job.call = "line" => PenRight(job, pen)
    /\ PixelsRight

LEMMA RasterStarts == RasterInit => RasterInv
<1> SUFFICES ASSUME RasterInit PROVE RasterInv  OBVIOUS
<1>1. job = [call |-> "none"] /\ returned = FALSE /\ pen = <<0, 0, 0>>  BY DEF RasterInit
<1>2. job.call = "none"  BY <1>1
<1>3. pen \in Int \X Int \X Int  BY <1>1, Triple
<1> QED BY <1>1, <1>2, <1>3 DEF RasterInv, RasterTypeOK, PixelsRight

\* A call's name says which call it is.
LEMMA JobKinds ==
    ASSUME NEW j \in {[call |-> "none"]} \cup Fills \cup Blits \cup Dibs \cup Lines \cup Taps
    PROVE  /\ j.call = "fill" => j \in Fills
           /\ j.call = "blit" => j \in Blits
           /\ j.call = "dib" => j \in Dibs
           /\ j.call = "line" => j \in Lines
           /\ j.call = "tap" => j \in Taps
<1>1. /\ j = [call |-> "none"] => j.call = "none"
      /\ j \in Fills => j.call = "fill"
      /\ j \in Blits => j.call = "blit"
      /\ j \in Dibs => j.call = "dib"
      /\ j \in Lines => j.call = "line"
      /\ j \in Taps => j.call = "tap"
  BY DEF Fills, Blits, Dibs, Lines, Taps
<1> QED BY <1>1, Zenon

LEMMA NewJobRight == RasterInv /\ NewJob => RasterInv'
<1> SUFFICES ASSUME RasterInv, NewJob PROVE RasterInv'  OBVIOUS
<1> DEFINE All == Fills \cup Blits \cup Dibs \cup Lines \cup Taps
<1>1. /\ job.call = "none" /\ job' \in All /\ returned' = returned
      /\ pen' = IF job'.call = "line" THEN <<job'.x0, job'.y0, FirstErr(job')>> ELSE pen
  BY DEF NewJob
<1>2. ~ returned'  BY <1>1 DEF RasterInv
<1>3. job'.call # "none"
  BY <1>1 DEF Fills, Blits, Dibs, Lines, Taps
<1> DEFINE j == job'
<1>4. j.call = "line" => j \in Lines  BY <1>1, JobKinds
<1>5. j.call = "line" => PenRight(j, pen')
  <2> HIDE DEF j
  <2> QED BY <1>1, <1>4, LineStarts DEF j
<1>6. pen' \in Int \X Int \X Int
  <2>1. CASE j.call = "line"  BY <1>5, <2>1 DEF PenRight
  <2>2. CASE j.call # "line"  BY <1>1, <2>2 DEF RasterInv, RasterTypeOK
  <2> QED BY <2>1, <2>2
<1> QED BY <1>1, <1>2, <1>3, <1>5, <1>6 DEF RasterInv, RasterTypeOK, PixelsRight

LEMMA BlitRight ==
    ASSUME NEW j \in Blits
    PROVE  LET M == wg_gdi_draw_bitmap(j.dx, j.dy, j.dw, j.dh, j.sx, j.sy, j.sw, j.sh, W, H)
           IN  /\ \A m \in M : Within(m[1], m[2]) /\ Within(m[3], m[4])
               /\ \A m, n \in M : <<m[1], m[2]>> = <<n[1], n[2]>> => m = n
               /\ j.dw = j.sw /\ j.dh = j.sh /\ j.dw > 0 /\ j.dh > 0 =>
                    {<<m[1], m[2]>> : m \in M} =
                    {p \in Pixels : /\ p[1] - j.dx \in 0 .. j.dw - 1
                                    /\ p[2] - j.dy \in 0 .. j.dh - 1
                                    /\ Within(p[1] - j.dx + j.sx, p[2] - j.dy + j.sy)}
<1>1. PICK dx \in Int, dy \in Int, dw \in Int, dh \in Int,
           sx \in Int, sy \in Int, sw \in Int, sh \in Int :
        /\ dx = j.dx /\ dy = j.dy /\ dw = j.dw /\ dh = j.dh
        /\ sx = j.sx /\ sy = j.sy /\ sw = j.sw /\ sh = j.sh
  BY RasterAssumption DEF Blits
<1> DEFINE M == wg_gdi_draw_bitmap(dx, dy, dw, dh, sx, sy, sw, sh, W, H)
<1>2. PICK bw \in Int, bh \in Int :
        bw = (IF sw <= 0 THEN W ELSE sw) /\ bh = (IF sh <= 0 THEN H ELSE sh)
  BY RasterAssumption
<1>3. PICK w \in Int, h \in Int :
        w = (IF dw <= 0 THEN bw ELSE dw) /\ h = (IF dh <= 0 THEN bh ELSE dh)
  OBVIOUS
<1>4. M = blit_pixels(dx, dy, w, h, sx, sy, bw, bh, W, H)
  BY <1>2, <1>3 DEF wg_gdi_draw_bitmap
<1>5. dw = sw /\ dh = sh /\ dw > 0 /\ dh > 0 =>
        /\ M = blit_pixels(dx, dy, dw, dh, sx, sy, dw, dh, W, H)
        /\ dw \in Nat \ {0} /\ dh \in Nat \ {0}
  BY <1>2, <1>3, <1>4
<1> HIDE DEF M
<1>6. /\ \A m \in M : Within(m[1], m[2]) /\ Within(m[3], m[4])
      /\ \A m, n \in M : <<m[1], m[2]>> = <<n[1], n[2]>> => m = n
  BY <1>4, BlitApart
<1>7. dw = sw /\ dh = sh /\ dw > 0 /\ dh > 0 =>
        {<<m[1], m[2]>> : m \in M} =
        {p \in Pixels : /\ p[1] - dx \in 0 .. dw - 1 /\ p[2] - dy \in 0 .. dh - 1
                        /\ Within(p[1] - dx + sx, p[2] - dy + sy)}
  <2>1. dw = sw /\ dh = sh /\ dw > 0 /\ dh > 0 => Set2D(M) = BlitAsked(dx, dy, dw, dh, sx, sy)
    <3> SUFFICES ASSUME dw = sw, dh = sh, dw > 0, dh > 0
                 PROVE  Set2D(M) = BlitAsked(dx, dy, dw, dh, sx, sy)
      OBVIOUS
    <3>2. Set2D(blit_pixels(dx, dy, dw, dh, sx, sy, dw, dh, W, H)) = BlitAsked(dx, dy, dw, dh, sx, sy)
      BY BlitCovers
    <3>3. M = blit_pixels(dx, dy, dw, dh, sx, sy, dw, dh, W, H)  BY <1>5
    <3> QED BY <3>2, <3>3
  <2> QED BY <2>1 DEF Set2D, BlitAsked
<1> QED BY <1>1, <1>6, <1>7 DEF M

LEMMA JobDone ==
    ASSUME RasterInv, job' = job, Fill \/ Blit \/ Dib \/ Tap, returned' = TRUE, pen' = pen
    PROVE  RasterInv'
<1>1. job.call \in {"fill", "blit", "dib", "tap"}  BY DEF Fill, Blit, Dib, Tap
<1>2. (RasterTypeOK /\ job \in {[call |-> "none"]} \cup Fills \cup Blits \cup Dibs \cup Lines \cup Taps)'
  BY DEF RasterInv, RasterTypeOK
<1>3. job'.call # "none" /\ job'.call # "line"  BY <1>1
<1>4. CASE job.call = "fill"
  <2>1. marked' = wg_gdi_fill_rect(job.l, job.t, job.r, job.b)
    BY <1>4 DEF Fill, Blit, Dib, Tap
  <2>2. job \in Fills  BY <1>4, JobKinds DEF RasterInv
  <2>3. marked' = {p \in Pixels : p[1] >= job.l /\ p[1] < job.r /\ p[2] >= job.t /\ p[2] < job.b}
    BY <2>1, <2>2, FillFacts
  <2> QED BY <1>2, <1>3, <1>4, <2>3 DEF RasterInv, PixelsRight
<1>5. CASE job.call = "blit"
  <2>1. marked' = wg_gdi_draw_bitmap(job.dx, job.dy, job.dw, job.dh,
                                     job.sx, job.sy, job.sw, job.sh, W, H)
    BY <1>5 DEF Fill, Blit, Dib, Tap
  <2>2. job \in Blits  BY <1>5, JobKinds DEF RasterInv
  <2>3. PixelsRight'
    BY <1>5, <2>1, <2>2, BlitRight DEF PixelsRight
  <2> QED BY <1>2, <1>3, <2>3 DEF RasterInv
<1>6. CASE job.call = "dib"
  <2>1. marked' = decode_dib(job.w, job.h, job.top_down)
    BY <1>6 DEF Fill, Blit, Dib, Tap
  <2>2. job \in Dibs  BY <1>6, JobKinds DEF RasterInv
  <2>3. job.w \in Nat \ {0} /\ job.h \in Nat \ {0} /\ job.top_down \in BOOLEAN
    BY <2>2, RasterAssumption DEF Dibs
  <2>4. /\ {<<m[1], m[2]>> : m \in marked'} = (0 .. job.w - 1) \X (0 .. job.h - 1)
        /\ Cardinality(marked') = job.w * job.h
    BY <2>1, <2>3, DibFills
  <2>5. PixelsRight'
    BY <1>6, <2>4 DEF PixelsRight
  <2> QED BY <1>2, <1>3, <2>5 DEF RasterInv
<1>7. CASE job.call = "tap"
  <2> DEFINE A == ScreenColumns(job.off, job.at, job.px, job.w, job.scale)
             B == ScreenColumns(job.off, job.at + job.tb, job.px, job.w, job.scale)
  <2>1. marked' = {m \in A \X B : hit_test(Virtual(job.off, m[1], job.scale),
                                           Virtual(job.off, m[2], job.scale),
                                           job.at, job.at, job.tb, job.px, job.px, job.w, job.w)}
    BY <1>7 DEF Fill, Blit, Dib, Tap
  <2>2. job \in Taps  BY <1>7, JobKinds DEF RasterInv
  <2>3. marked' = A \X B  BY <2>1, <2>2, TapFacts
  <2>4. PixelsRight'
    BY <1>7, <2>3 DEF PixelsRight
  <2> QED BY <1>2, <1>3, <2>4 DEF RasterInv
<1> QED BY <1>1, <1>4, <1>5, <1>6, <1>7

LEMMA LineStepRight ==
    ASSUME RasterInv, job' = job, LineStep
    PROVE  RasterInv'
<1>1. job.call = "line" /\ job \in Lines /\ PenRight(job, pen)
  BY JobKinds DEF RasterInv, LineStep
<1>2. PenRight(job, pen')
  <2>1. CASE <<pen[1], pen[2]>> = <<job.x1, job.y1>>  BY <1>1, <2>1 DEF LineStep
  <2>2. CASE <<pen[1], pen[2]>> # <<job.x1, job.y1>>
    <3>1. PICK a \in {0, 1}, d \in {0, 1} :
            /\ a = 1 <=> pen[3] > - Adx(job)
            /\ d = 1 <=> pen[3] < Ady(job)
      <4>1. \E a \in {0, 1} : a = 1 <=> pen[3] > - Adx(job)
        <5>1. CASE pen[3] > - Adx(job)  BY <5>1
        <5>2. CASE ~ pen[3] > - Adx(job)  BY <5>2
        <5> QED BY <5>1, <5>2
      <4>2. \E d \in {0, 1} : d = 1 <=> pen[3] < Ady(job)
        <5>1. CASE pen[3] < Ady(job)  BY <5>1
        <5>2. CASE ~ pen[3] < Ady(job)  BY <5>2
        <5> QED BY <5>1, <5>2
      <4> QED BY <4>1, <4>2
    <3>2. pen' = <<pen[1] + (IF a = 1 THEN Sgn(Across(job)) ELSE 0),
                   pen[2] + (IF d = 1 THEN Sgn(Down(job)) ELSE 0),
                   pen[3] - (IF a = 1 THEN Ady(job) ELSE 0) + (IF d = 1 THEN Adx(job) ELSE 0)>>
      BY <2>2, <3>1 DEF LineStep, Adx, Ady, Across, Down, Sgn
    <3>3. PICK s \in Int, t \in Int, adx \in Int, ady \in Int :
            s = Sgn(Across(job)) /\ t = Sgn(Down(job)) /\ adx = Adx(job) /\ ady = Ady(job)
      BY <1>1, LineFacts
    <3>4. /\ a * s = (IF a = 1 THEN s ELSE 0) /\ d * t = (IF d = 1 THEN t ELSE 0)
          /\ a * ady = (IF a = 1 THEN ady ELSE 0) /\ d * adx = (IF d = 1 THEN adx ELSE 0)
      <4>1. CASE a = 0  BY <4>1
      <4>2. CASE a = 1  BY <4>2
      <4> QED BY <4>1, <4>2
    <3>5. pen' = <<pen[1] + a * s, pen[2] + d * t, pen[3] - a * ady + d * adx>>
      BY <3>2, <3>3, <3>4
    <3>6. PenRight(job, <<pen[1] + a * Sgn(Across(job)), pen[2] + d * Sgn(Down(job)),
                          pen[3] - a * Ady(job) + d * Adx(job)>>)
      BY <1>1, <2>2, <3>1, LineMoves
    <3> QED BY <3>3, <3>5, <3>6
  <2> QED BY <2>1, <2>2
<1>3. pen' \in Int \X Int \X Int  BY <1>2 DEF PenRight
<1>4. returned' \in BOOLEAN  BY DEF LineStep, RasterInv, RasterTypeOK
<1>5. job'.call = "line"  BY <1>1
<1> QED BY <1>2, <1>3, <1>4, <1>5 DEF RasterInv, RasterTypeOK, PixelsRight

LEMMA RasterSteps == RasterInv /\ [RasterNext]_rasterVars => RasterInv'
<1> SUFFICES ASSUME RasterInv, [RasterNext]_rasterVars PROVE RasterInv'  OBVIOUS
<1>1. CASE NewJob  BY <1>1, NewJobRight
<1>2. CASE job' = job /\ (Fill \/ Blit \/ Dib \/ Tap) /\ returned' = TRUE /\ pen' = pen
  BY <1>2, JobDone
<1>3. CASE job' = job /\ LineStep  BY <1>3, LineStepRight
<1>4. CASE UNCHANGED rasterVars
  BY <1>4 DEF rasterVars, RasterInv, RasterTypeOK, PixelsRight
<1> QED BY <1>1, <1>2, <1>3, <1>4 DEF RasterNext

LEMMA RasterHolds == RasterSpec => []RasterInv
  BY RasterStarts, RasterSteps, PTL DEF RasterSpec

\* A call of wg_win32_gdi.c keeps its pen in whole pixels.
THEOREM RasterTyped == RasterSpec => []RasterTypeOK
<1>1. RasterInv => RasterTypeOK  BY DEF RasterInv
<1> QED BY <1>1, RasterHolds, PTL

\* The pixels that FillRect, BitBlt, StretchDIBits and LineTo set are those that the
\* guest asked for and that exist, whatever the sizes, and a tap on any pixel of a
\* button finds the button, whatever the scale of the screen.
THEOREM PixelsPlaced == RasterSpec => []DrawingRight
<1>1. RasterInv => DrawingRight
  <2> SUFFICES ASSUME RasterInv, job.call = "line" PROVE OnTheLine
    BY DEF RasterInv, DrawingRight, OnTheLine
  <2>1. job \in Lines /\ PenRight(job, pen)  BY JobKinds DEF RasterInv
  <2>2. 2 * AbsOf(OffLine(job, pen)) <= AtLeast(Adx(job), Ady(job))  BY <2>1, OnLine
  <2> QED BY <2>2 DEF OnTheLine, OffLine, Adx, Ady, Across, Down
<1> QED BY <1>1, RasterHolds, PTL

-----------------------------------------------------------------------------
(* The dialogs: templates, the table of controls and the handles.          *)

\* A set of numbers up to N that holds 0 and, with each, the next one, holds all.
LEMMA AllUpTo ==
    ASSUME NEW N \in Nat, NEW B, 0 \in B, \A n \in 1 .. N : n - 1 \in B => n \in B
    PROVE  \A n \in 0 .. N : n \in B
<1> DEFINE Bad == {n \in 0 .. N : n \notin B}
<1> SUFFICES ASSUME Bad # {} PROVE FALSE  OBVIOUS
<1>1. Bad \subseteq Nat  OBVIOUS
<1>2. PICK m \in Bad : \A k \in Bad : ~ (<<k, m>> \in OpToRel(<, Nat))
  <2> HIDE DEF Bad
  <2> QED BY <1>1, NatLessThanWellFounded, WFMin
<1>3. m \in 1 .. N /\ m \notin B  OBVIOUS
<1>4. m - 1 \notin Bad
  <2> HIDE DEF Bad
  <2>1. m - 1 \in Nat /\ m - 1 < m  BY <1>3
  <2> QED BY <1>2, <2>1, <1>1 DEF OpToRel
<1>5. m - 1 \in B  BY <1>3, <1>4
<1> QED BY <1>3, <1>5

\* A function on 0 .. N may be defined by what it does at the number before.
Iterates(g, S, c, N, h) ==
    /\ g \in [0 .. N -> S]
    /\ g = [i \in 0 .. N |-> IF i = 0 THEN c ELSE h[<<g[i - 1], i>>]]

LEMMA Iteration ==
    ASSUME NEW S, NEW c \in S, NEW N \in Nat, NEW h \in [S \X (1 .. N) -> S]
    PROVE  \E g : Iterates(g, S, c, N, h)
<1> DEFINE Ok(n) == \E g \in [0 .. n -> S] :
                       g = [i \in 0 .. n |-> IF i = 0 THEN c ELSE h[<<g[i - 1], i>>]]
           B == {n \in 0 .. N : Ok(n)}
<1>1. Ok(0)
  <2> DEFINE g == [i \in 0 .. 0 |-> c]
  <2>1. g = [i \in 0 .. 0 |-> IF i = 0 THEN c ELSE h[<<g[i - 1], i>>]]  OBVIOUS
  <2> QED BY <2>1
<1>2. ASSUME NEW n \in 1 .. N, Ok(n - 1) PROVE Ok(n)
  <2>1. PICK g \in [0 .. n - 1 -> S] :
               g = [i \in 0 .. n - 1 |-> IF i = 0 THEN c ELSE h[<<g[i - 1], i>>]]
    BY <1>2
  <2> DEFINE f == [i \in 0 .. n |-> IF i < n THEN g[i] ELSE h[<<g[n - 1], n>>]]
  <2>2. f \in [0 .. n -> S]  OBVIOUS
  <2>3. ASSUME NEW i \in 0 .. n PROVE f[i] = IF i = 0 THEN c ELSE h[<<f[i - 1], i>>]
    <3>1. CASE i = 0  BY <2>1, <3>1
    <3>2. CASE i \in 1 .. n - 1
      <4>1. g[i] = h[<<g[i - 1], i>>]  BY <2>1, <3>2
      <4>2. f[i] = g[i] /\ f[i - 1] = g[i - 1]  BY <3>2
      <4>3. i # 0  BY <3>2
      <4> HIDE DEF f
      <4> QED BY <4>1, <4>2, <4>3, Zenon
    <3>3. CASE i = n
      <4>0. n \in 0 .. n /\ n - 1 \in 0 .. n /\ n # 0 /\ n - 1 < n /\ ~ (n < n)  OBVIOUS
      <4>1. f[n] = h[<<g[n - 1], n>>] /\ f[n - 1] = g[n - 1]  BY <4>0
      <4>2. f[n] = h[<<f[n - 1], n>>]  BY <4>1, Zenon
      <4> HIDE DEF f
      <4> QED BY <3>3, <4>0, <4>2
    <3> HIDE DEF f
    <3> QED BY <3>1, <3>2, <3>3
  <2>4. f = [i \in 0 .. n |-> IF i = 0 THEN c ELSE h[<<f[i - 1], i>>]]  BY <2>3
  <2> QED BY <2>2, <2>4
<1> HIDE DEF Ok
<1>3. 0 \in B /\ \A n \in 1 .. N : n - 1 \in B => n \in B  BY <1>1, <1>2
<1> HIDE DEF B
<1>4. N \in B  BY <1>3, AllUpTo
<1> QED BY <1>4 DEF B, Ok, Iterates

\* The same, with what each value is.
Follows(g, S, c, N, h) ==
    /\ g \in [0 .. N -> S]
    /\ \A i \in 0 .. N : g[i] = IF i = 0 THEN c ELSE h[<<g[i - 1], i>>]

LEMMA RecursionValues ==
    ASSUME NEW S, NEW c \in S, NEW N \in Nat, NEW h \in [S \X (1 .. N) -> S]
    PROVE  \E g : Follows(g, S, c, N, h)
<1>1. PICK g : Iterates(g, S, c, N, h)  BY Iteration
<1>2. g \in [0 .. N -> S]  BY <1>1 DEF Iterates
<1>3. \A f : f = [i \in 0 .. N |-> IF i = 0 THEN c ELSE h[<<f[i - 1], i>>]] =>
         \A i \in 0 .. N : f[i] = IF i = 0 THEN c ELSE h[<<f[i - 1], i>>]
  OBVIOUS
<1>4. \A i \in 0 .. N : g[i] = IF i = 0 THEN c ELSE h[<<g[i - 1], i>>]
  BY <1>1, <1>3 DEF Iterates
<1> QED BY <1>2, <1>4 DEF Follows

-----------------------------------------------------------------------------
(* Removing the controls of a window. *)

Ctrl == [hwnd : Nat, id : Nat, number : Nat]

IsKept(kept, ctrls, hwnd) ==
    kept = [i \in 0 .. Len(ctrls) |->
               IF i = 0 THEN <<>>
               ELSE IF ctrls[i].hwnd = hwnd THEN kept[i - 1]
               ELSE Append(kept[i - 1], ctrls[i])]

LEMMA KeptExists ==
    ASSUME NEW ctrls \in Seq(Ctrl), NEW hwnd
    PROVE  \E kept : kept \in [0 .. Len(ctrls) -> Seq(Ctrl)] /\ IsKept(kept, ctrls, hwnd)
<1> DEFINE N == Len(ctrls)
<1> DEFINE h == [p \in Seq(Ctrl) \X (1 .. N) |->
                    IF ctrls[p[2]].hwnd = hwnd THEN p[1] ELSE Append(p[1], ctrls[p[2]])]
<1>1. h \in [Seq(Ctrl) \X (1 .. N) -> Seq(Ctrl)]
  <2>1. ASSUME NEW s \in Seq(Ctrl), NEW i \in 1 .. N
        PROVE  (IF ctrls[i].hwnd = hwnd THEN s ELSE Append(s, ctrls[i])) \in Seq(Ctrl)
    <3>1. ctrls[i] \in Ctrl  OBVIOUS
    <3> QED BY <3>1
  <2> QED BY <2>1
<1>2. \A s \in Seq(Ctrl) : \A i \in 1 .. N :
         h[<<s, i>>] = IF ctrls[i].hwnd = hwnd THEN s ELSE Append(s, ctrls[i])
  OBVIOUS
<1>3. N \in Nat /\ <<>> \in Seq(Ctrl)  OBVIOUS
<1> HIDE DEF h
<1>4. PICK g \in [0 .. N -> Seq(Ctrl)] :
          \A i \in 0 .. N : g[i] = IF i = 0 THEN <<>> ELSE h[<<g[i - 1], i>>]
  <2>1. PICK n, c, S, hh : n = N /\ c = <<>> /\ S = Seq(Ctrl) /\ hh = h  OBVIOUS
  <2>2. n \in Nat /\ c \in S /\ hh \in [S \X (1 .. n) -> S]  BY <1>1, <1>3, <2>1
  <2> HIDE DEF N
  <2>3. PICK g : Follows(g, S, c, n, hh)  BY <2>2, RecursionValues
  <2> QED BY <2>1, <2>3 DEF Follows
<1>5. ASSUME NEW i \in 0 .. N
      PROVE  g[i] = IF i = 0 THEN <<>>
                    ELSE IF ctrls[i].hwnd = hwnd THEN g[i - 1] ELSE Append(g[i - 1], ctrls[i])
  <2>1. CASE i = 0  BY <1>4, <2>1
  <2>2. CASE i # 0
    <3>1. i - 1 \in 0 .. N /\ i \in 1 .. N  BY <1>3, <2>2
    <3>2. g[i - 1] \in Seq(Ctrl)  BY <3>1
    <3> QED BY <1>2, <1>4, <2>2, <3>1, <3>2
  <2> QED BY <2>1, <2>2
<1>6. g = [i \in 0 .. N |-> IF i = 0 THEN <<>>
                    ELSE IF ctrls[i].hwnd = hwnd THEN g[i - 1] ELSE Append(g[i - 1], ctrls[i])]
  BY <1>5
<1> QED BY <1>6 DEF IsKept

LEMMA AppendIn ==
    ASSUME NEW S, NEW s \in Seq(S), NEW e \in S
    PROVE  Append(s, e) \in Seq(S)
  OBVIOUS

\* Of a table, what is kept belongs to other windows, and no control before the first
\* one that goes has moved.
LEMMA Removed ==
    ASSUME NEW ctrls \in Seq(Ctrl), NEW hwnd
    PROVE  LET r == wg_remove_ctrls(ctrls, hwnd) IN
           /\ r \in Seq(Ctrl) /\ Len(r) <= Len(ctrls)
           /\ \A j \in 1 .. Len(r) : r[j].hwnd # hwnd /\ \E i \in 1 .. Len(ctrls) : r[j] = ctrls[i]
           /\ \A m \in 0 .. Len(ctrls) : (\A j \in 1 .. m : ctrls[j].hwnd # hwnd) =>
                  m <= Len(r) /\ \A j \in 1 .. m : r[j] = ctrls[j]
<1> DEFINE P == CHOOSE kept : IsKept(kept, ctrls, hwnd)
           N == Len(ctrls)
<1>0. N \in Nat  OBVIOUS
<1>1. wg_remove_ctrls(ctrls, hwnd) = P[N]  BY DEF wg_remove_ctrls, IsKept
<1>2. IsKept(P, ctrls, hwnd)  BY KeptExists
<1> HIDE DEF P
<1>3. \A f : IsKept(f, ctrls, hwnd) =>
         \A i \in 0 .. Len(ctrls) :
             f[i] = IF i = 0 THEN <<>>
                    ELSE IF ctrls[i].hwnd = hwnd THEN f[i - 1] ELSE Append(f[i - 1], ctrls[i])
  BY DEF IsKept
<1>4. \A i \in 0 .. N : P[i] = IF i = 0 THEN <<>>
                    ELSE IF ctrls[i].hwnd = hwnd THEN P[i - 1] ELSE Append(P[i - 1], ctrls[i])
  BY <1>2, <1>3
<1> DEFINE Fine(r, n) ==
              /\ r \in Seq(Ctrl) /\ Len(r) <= n
              /\ \A j \in 1 .. Len(r) : r[j].hwnd # hwnd /\ \E i \in 1 .. N : r[j] = ctrls[i]
              /\ \A m \in 0 .. n : (\A j \in 1 .. m : ctrls[j].hwnd # hwnd) =>
                  m <= Len(r) /\ \A j \in 1 .. m : r[j] = ctrls[j]
           B == {n \in 0 .. N : Fine(P[n], n)}
<1>5. 0 \in B
  <2>1. P[0] = <<>>  BY <1>0, <1>4
  <2>2. <<>> \in Seq(Ctrl) /\ Len(<<>>) = 0  OBVIOUS
  <2>3. PICK e \in Seq(Ctrl) : e = <<>> /\ Len(e) = 0  BY <2>2
  <2>4. Fine(e, 0)  BY <2>3
  <2>5. 0 \in 0 .. N  BY <1>0
  <2> HIDE DEF Fine
  <2>6. P[0] = e  BY <2>1, <2>3
  <2> QED BY <2>4, <2>5, <2>6
<1>6. ASSUME NEW n \in 1 .. N, n - 1 \in B PROVE n \in B
  <2>1. n - 1 \in 0 .. N /\ n \in 0 .. N /\ n # 0  BY <1>0
  <2>2. Fine(P[n - 1], n - 1)  BY <1>6
  <2>3. PICK s \in Seq(Ctrl) : s = P[n - 1]  BY <2>2
  <2>4. Fine(s, n - 1)  BY <2>2, <2>3
  <2>5. ctrls[n] \in Ctrl  OBVIOUS
  <2>6. CASE ctrls[n].hwnd = hwnd
    <3>1. P[n] = s  BY <1>4, <2>1, <2>3, <2>6
    <3>2. \A m \in 0 .. n : (\A j \in 1 .. m : ctrls[j].hwnd # hwnd) => m \in 0 .. n - 1
      BY <2>6
    <3>3. Fine(s, n)
      <4>1. Len(s) <= n /\ n - 1 \in Nat  BY <2>4
      <4>2. ASSUME NEW m \in 0 .. n, \A j \in 1 .. m : ctrls[j].hwnd # hwnd
            PROVE  m <= Len(s) /\ \A j \in 1 .. m : s[j] = ctrls[j]
        BY <2>4, <3>2, <4>2
      <4> QED BY <2>4, <4>1, <4>2
    <3> QED BY <2>1, <3>1, <3>3
  <2>7. CASE ctrls[n].hwnd # hwnd
    <3>1. P[n] = Append(s, ctrls[n])  BY <1>4, <2>1, <2>3, <2>7
    <3>2. PICK r \in Seq(Ctrl) : r = Append(s, ctrls[n])  BY <2>5, AppendIn
    <3>3. /\ Len(r) = Len(s) + 1 /\ r[Len(s) + 1] = ctrls[n]
          /\ \A j \in 1 .. Len(s) : r[j] = s[j]
      BY <2>5, <3>2
    <3>4. PICK k \in Nat : k = Len(s)  OBVIOUS
    <3>5. \A j \in 1 .. Len(r) : r[j].hwnd # hwnd /\ \E i \in 1 .. N : r[j] = ctrls[i]
      <4> SUFFICES ASSUME NEW j \in 1 .. Len(r)
                   PROVE  r[j].hwnd # hwnd /\ \E i \in 1 .. N : r[j] = ctrls[i]
        OBVIOUS
      <4>1. CASE j = k + 1  BY <2>7, <3>3, <3>4, <4>1
      <4>2. CASE j \in 1 .. k  BY <2>4, <3>3, <3>4, <4>2
      <4> QED BY <3>3, <3>4, <4>1, <4>2
    <3>6. ASSUME NEW m \in 0 .. n, \A j \in 1 .. m : ctrls[j].hwnd # hwnd
          PROVE  m <= Len(r) /\ \A j \in 1 .. m : r[j] = ctrls[j]
      <4>1. CASE m \in 0 .. n - 1
        <5>1. m <= k /\ \A j \in 1 .. m : s[j] = ctrls[j]  BY <2>4, <3>4, <3>6, <4>1
        <5> QED BY <3>3, <3>4, <5>1
      <4>2. CASE m = n
        <5>1. n - 1 \in 0 .. n - 1 /\ \A j \in 1 .. n - 1 : ctrls[j].hwnd # hwnd
          BY <3>6, <4>2
        <5>2. n - 1 <= k /\ \A j \in 1 .. n - 1 : s[j] = ctrls[j]  BY <2>4, <3>4, <5>1
        <5>3. k = n - 1  BY <2>4, <3>4, <5>2
        <5>4. ASSUME NEW j \in 1 .. n PROVE r[j] = ctrls[j]
          <6>1. CASE j = n  BY <3>3, <3>4, <5>3, <6>1
          <6>2. CASE j \in 1 .. n - 1  BY <3>3, <3>4, <5>2, <5>3, <6>2
          <6> QED BY <6>1, <6>2
        <5> QED BY <3>3, <3>4, <4>2, <5>3, <5>4
      <4> QED BY <4>1, <4>2
    <3>7. Len(r) <= n  BY <2>4, <3>3, <3>4
    <3>8. Fine(r, n)  BY <3>5, <3>6, <3>7
    <3> QED BY <2>1, <3>1, <3>2, <3>8
  <2> QED BY <2>6, <2>7
<1> HIDE DEF B
<1>7. N \in B
  <2>1. \A n \in 0 .. N : n \in B  BY <1>0, <1>5, <1>6, AllUpTo
  <2> QED BY <1>0, <2>1
<1>8. Fine(P[N], N)  BY <1>7 DEF B
<1> QED BY <1>1, <1>8

-----------------------------------------------------------------------------
(* Reading a template. *)

\* A part lies at a place of a sequence of words.
PartAt(ws, p, part) ==
    /\ p + Len(part) <= Len(ws)
    /\ \A k \in 1 .. Len(part) : WordAt(ws, p + k - 1) = part[k]

LEMMA WordThere ==
    ASSUME NEW ws \in Seq(Nat), NEW p \in 0 .. Len(ws) - 1
    PROVE  WordAt(ws, p) = ws[p + 1] /\ WordAt(ws, p) \in Nat
  BY DEF WordAt

LEMMA HoldsSelf ==
    ASSUME NEW ws \in Seq(Nat)
    PROVE  PartAt(ws, 0, ws)
  BY DEF PartAt, WordAt

LEMMA Catenated ==
    ASSUME NEW a \in Seq(Nat), NEW b \in Seq(Nat)
    PROVE  a \o b \in Seq(Nat) /\ Len(a \o b) = Len(a) + Len(b)
  OBVIOUS

\* A sequence of two parts, of m and n words.
Join(c, a, b, m, n) ==
    /\ a \in Seq(Nat) /\ b \in Seq(Nat) /\ c \in Seq(Nat)
    /\ c = a \o b /\ Len(a) = m /\ Len(b) = n /\ Len(c) = m + n

LEMMA PartsJoined ==
    ASSUME NEW a \in Seq(Nat), NEW b \in Seq(Nat), NEW m, NEW n, Len(a) = m, Len(b) = n
    PROVE  \E c : Join(c, a, b, m, n)
<1>1. a \o b \in Seq(Nat) /\ Len(a \o b) = m + n  BY Catenated
<1> QED BY <1>1 DEF Join

LEMMA HoldsCat ==
    ASSUME NEW ws \in Seq(Nat), NEW p \in Nat, NEW a \in Seq(Nat), NEW b \in Seq(Nat),
           PartAt(ws, p, a \o b)
    PROVE  PartAt(ws, p, a) /\ PartAt(ws, p + Len(a), b)
<1>1. PICK c \in Seq(Nat) : c = a \o b  BY Catenated
<1>2. PICK m \in Nat, n \in Nat : m = Len(a) /\ n = Len(b)  OBVIOUS
<1>3. Len(c) = m + n  BY <1>1, <1>2
<1>4. \A k \in 1 .. m : c[k] = a[k]  BY <1>1, <1>2
<1>5. \A k \in 1 .. n : c[m + k] = b[k]  BY <1>1, <1>2
<1>6. /\ p + m + n <= Len(ws)
      /\ \A k \in 1 .. m + n : WordAt(ws, p + k - 1) = c[k]
  BY <1>1, <1>3 DEF PartAt
<1>7. PartAt(ws, p, a)
  <2>1. p + m <= Len(ws)  BY <1>6
  <2>2. ASSUME NEW k \in 1 .. m PROVE WordAt(ws, p + k - 1) = a[k]
    <3>1. k \in 1 .. m + n  OBVIOUS
    <3> QED BY <1>4, <1>6, <3>1
  <2> QED BY <1>2, <2>1, <2>2 DEF PartAt
<1>8. PartAt(ws, p + m, b)
  <2>1. (p + m) + n <= Len(ws)  BY <1>6
  <2>2. ASSUME NEW k \in 1 .. n PROVE WordAt(ws, (p + m) + k - 1) = b[k]
    <3>1. m + k \in 1 .. m + n  OBVIOUS
    <3>2. WordAt(ws, p + (m + k) - 1) = c[m + k]  BY <1>6, <3>1
    <3>3. p + (m + k) - 1 = (p + m) + k - 1  OBVIOUS
    <3> QED BY <1>5, <3>2, <3>3
  <2> QED BY <1>2, <2>1, <2>2 DEF PartAt
<1> QED BY <1>2, <1>7, <1>8

LEMMA HoldsJoin ==
    ASSUME NEW ws \in Seq(Nat), NEW p \in Nat, NEW a, NEW b, NEW c, NEW m, NEW n,
           Join(c, a, b, m, n), PartAt(ws, p, c)
    PROVE  PartAt(ws, p, a) /\ PartAt(ws, p + m, b)
<1>1. a \in Seq(Nat) /\ b \in Seq(Nat) /\ PartAt(ws, p, a \o b) /\ Len(a) = m  BY DEF Join
<1> QED BY <1>1, HoldsCat

LEMMA NamesAreWords ==
    ASSUME NEW n \in Name
    PROVE  NameWords(n) \in Seq(Nat) /\ Len(NameWords(n)) \in Nat
<1>1. <<0>> \in Seq(Nat)  OBVIOUS
<1>2. n \in Seq(Nat)  BY DEF Name
<1>3. n \o <<0>> \in Seq(Nat)  BY <1>1, <1>2
<1>4. NameWords(n) \in Seq(Nat)  BY <1>1, <1>2, <1>3 DEF NameWords
<1> QED BY <1>4

\* res_skip_sz finds the end of a name.
LEMMA Skipped ==
    ASSUME NEW ws \in Seq(Nat), NEW p \in Nat, NEW n \in Name, PartAt(ws, p, NameWords(n))
    PROVE  res_skip_sz(ws, p) = p + Len(NameWords(n))
<1>1. n \in Seq(Nat)  BY DEF Name
<1>2. CASE n = <<>>
  <2>1. NameWords(n) = <<0>>  BY <1>2 DEF NameWords
  <2>2. Len(<<0>>) = 1 /\ <<0>>[1] = 0  OBVIOUS
  <2>3. WordAt(ws, p + 1 - 1) = 0  BY <2>1, <2>2 DEF PartAt
  <2>4. p + 1 - 1 = p  OBVIOUS
  <2>5. WordAt(ws, p) = 0  BY <2>3, <2>4
  <2> QED BY <2>1, <2>2, <2>5 DEF res_skip_sz
<1>3. CASE n # <<>> /\ n[1] = FFFF
  <2>1. NameWords(n) = n /\ Len(n) = 2  BY <1>3 DEF NameWords, Name
  <2>2. WordAt(ws, p + 1 - 1) = FFFF  BY <1>3, <2>1 DEF PartAt
  <2>3. p + 1 - 1 = p /\ FFFF # 0  BY DEF FFFF
  <2>4. WordAt(ws, p) = FFFF /\ WordAt(ws, p) # 0  BY <2>2, <2>3
  <2> QED BY <2>1, <2>4 DEF res_skip_sz
<1>4. CASE n # <<>> /\ n[1] # FFFF
  <2>1. \A k \in 1 .. Len(n) : n[k] # 0  BY <1>4 DEF Name
  <2>2. PICK m \in Nat : m = Len(n) /\ m >= 1  BY <1>1, <1>4
  <2>3. NameWords(n) = n \o <<0>>  BY <1>4 DEF NameWords
  <2>0. <<0>> \in Seq(Nat)  OBVIOUS
  <2>4. PICK z \in Seq(Nat) : z = n \o <<0>>  BY <1>1, <2>0, Catenated
  <2>5. /\ Len(z) = m + 1 /\ z[m + 1] = 0
        /\ \A k \in 1 .. m : z[k] = n[k]
    BY <1>1, <2>2, <2>4
  <2>6. /\ p + m + 1 <= Len(ws)
        /\ \A k \in 1 .. m + 1 : WordAt(ws, p + k - 1) = z[k]
    BY <2>3, <2>4, <2>5 DEF PartAt
  <2>7. \A r \in p .. p + m - 1 : WordAt(ws, r) # 0
    <3> SUFFICES ASSUME NEW r \in p .. p + m - 1 PROVE WordAt(ws, r) # 0  OBVIOUS
    <3>1. PICK k \in 1 .. m : k = r - p + 1  OBVIOUS
    <3>2. r = p + k - 1 /\ k \in 1 .. m + 1  BY <3>1
    <3> QED BY <2>1, <2>2, <2>5, <2>6, <3>2
  <2>8. WordAt(ws, p + m) = 0
    <3>1. m + 1 \in 1 .. m + 1 /\ p + (m + 1) - 1 = p + m  OBVIOUS
    <3> QED BY <2>5, <2>6, <3>1
  <2>9. WordAt(ws, p) # 0 /\ WordAt(ws, p) # FFFF
    <3>1. 1 \in 1 .. m + 1 /\ 1 \in 1 .. m /\ p + 1 - 1 = p  BY <2>2
    <3>2. WordAt(ws, p) = n[1]  BY <2>5, <2>6, <3>1
    <3>3. p \in p .. p + m - 1  BY <2>2
    <3> QED BY <1>4, <2>7, <3>2, <3>3
  <2> DEFINE End(q) == WordAt(ws, q) = 0 /\ \A r \in p .. q - 1 : WordAt(ws, r) # 0
  <2>10. p + m \in p .. Len(ws) /\ End(p + m)  BY <2>6, <2>7, <2>8
  <2>11. ASSUME NEW q \in p .. Len(ws), End(q) PROVE q = p + m
    <3>1. ~ (q \in p .. p + m - 1)  BY <2>7, <2>11
    <3>2. CASE q > p + m
      <4>1. p + m \in p .. q - 1  BY <3>2
      <4> QED BY <2>8, <2>11, <4>1
    <3> QED BY <3>1, <3>2
  <2>12. (CHOOSE q \in p .. Len(ws) : End(q)) = p + m
    <3> HIDE DEF End
    <3> QED BY <2>10, <2>11
  <2>13. res_skip_sz(ws, p) = 1 + (p + m)  BY <2>9, <2>12 DEF res_skip_sz
  <2>14. Len(NameWords(n)) = m + 1  BY <2>3, <2>4, <2>5
  <2> QED BY <2>13, <2>14
<1> QED BY <1>2, <1>3, <1>4

ItemRecord == [id : Nat, class : Name, title : Name, extra : Nat]

LEMMA ItemsAreWords ==
    ASSUME NEW i \in ItemRecord
    PROVE  ItemWords(i) \in Seq(Nat)
<1>1. Zeros(10) \in Seq(Nat)  BY DEF Zeros
<1>2. <<i.id, 0>> \in Seq(Nat)  BY DEF ItemRecord
<1>3. NameWords(i.class) \in Seq(Nat) /\ NameWords(i.title) \in Seq(Nat)
  BY NamesAreWords DEF ItemRecord
<1>4. i.extra \in Nat  BY DEF ItemRecord
<1>5. <<2 * i.extra>> \in Seq(Nat)  BY <1>4
<1>6. [k \in 1 .. i.extra |-> 7] \in Seq(Nat)  BY <1>4
<1>7. Zeros(10) \o <<i.id, 0>> \in Seq(Nat)  BY <1>1, <1>2, Catenated
<1>8. Zeros(10) \o <<i.id, 0>> \o NameWords(i.class) \in Seq(Nat)
  BY <1>3, <1>7, Catenated
<1>9. Zeros(10) \o <<i.id, 0>> \o NameWords(i.class) \o NameWords(i.title) \in Seq(Nat)
  BY <1>3, <1>8, Catenated
<1>10. Zeros(10) \o <<i.id, 0>> \o NameWords(i.class) \o NameWords(i.title)
         \o <<2 * i.extra>> \in Seq(Nat)
  BY <1>5, <1>9, Catenated
<1> QED BY <1>6, <1>10, Catenated DEF ItemWords

\* The walk over an item takes its id and comes to its end.
LEMMA ItemRead ==
    ASSUME NEW ws \in Seq(Nat), NEW p \in Nat, NEW i \in ItemRecord, PartAt(ws, p, ItemWords(i))
    PROVE  WordAt(ws, p + 10) = i.id /\ ItemEnd(ws, p) = p + Len(ItemWords(i))
<1>1. PICK z \in Seq(Nat) : z = Zeros(10) /\ Len(z) = 10
  <2>1. Zeros(10) \in Seq(Nat) /\ Len(Zeros(10)) = 10  BY DEF Zeros
  <2> QED BY <2>1
<1>2. PICK d \in Seq(Nat) : d = <<i.id, 0>> /\ Len(d) = 2 /\ d[1] = i.id
  <2>1. i.id \in Nat  BY DEF ItemRecord
  <2>2. <<i.id, 0>> \in Seq(Nat) /\ Len(<<i.id, 0>>) = 2 /\ <<i.id, 0>>[1] = i.id  BY <2>1
  <2> QED BY <2>2
<1>3. /\ i.class \in Name /\ i.title \in Name
      /\ NameWords(i.class) \in Seq(Nat) /\ NameWords(i.title) \in Seq(Nat)
  BY NamesAreWords DEF ItemRecord
<1>4. PICK cl \in Seq(Nat), ti \in Seq(Nat), m \in Nat, n \in Nat :
          /\ cl = NameWords(i.class) /\ ti = NameWords(i.title)
          /\ m = Len(cl) /\ n = Len(ti)
  BY <1>3
<1>5. PICK e \in Nat : e = i.extra  BY DEF ItemRecord
<1>6. PICK x \in Seq(Nat) : x = <<2 * e>> /\ Len(x) = 1 /\ x[1] = 2 * e
  <2>1. <<2 * e>> \in Seq(Nat) /\ Len(<<2 * e>>) = 1 /\ <<2 * e>>[1] = 2 * e  OBVIOUS
  <2> QED BY <2>1
<1>7. PICK y \in Seq(Nat) : y = [k \in 1 .. e |-> 7] /\ Len(y) = e
  <2>1. [k \in 1 .. e |-> 7] \in Seq(Nat) /\ Len([k \in 1 .. e |-> 7]) = e  OBVIOUS
  <2> QED BY <2>1
<1>8. PICK a : Join(a, z, d, 10, 2)  BY <1>1, <1>2, PartsJoined, ZenonT(30)
<1>8a. a \in Seq(Nat) /\ Len(a) = 10 + 2  BY <1>8 DEF Join
<1>9. PICK b : Join(b, a, cl, 10 + 2, m)  BY <1>4, <1>8a, PartsJoined, ZenonT(30)
<1>9a. b \in Seq(Nat) /\ Len(b) = 12 + m  BY <1>9 DEF Join
<1>10. PICK c : Join(c, b, ti, 12 + m, n)  BY <1>4, <1>9a, PartsJoined, ZenonT(30)
<1>10a. c \in Seq(Nat) /\ Len(c) = 12 + m + n  BY <1>10 DEF Join
<1>11. PICK f : Join(f, c, x, 12 + m + n, 1)  BY <1>6, <1>10a, PartsJoined, ZenonT(30)
<1>11a. f \in Seq(Nat) /\ Len(f) = 12 + m + n + 1  BY <1>11 DEF Join
<1>12. PICK g : Join(g, f, y, 12 + m + n + 1, e)  BY <1>7, <1>11a, PartsJoined, ZenonT(30)
<1>12a. g \in Seq(Nat) /\ Len(g) = 12 + m + n + 1 + e  BY <1>12 DEF Join
<1>13. ItemWords(i) = g
  BY <1>1, <1>2, <1>4, <1>5, <1>6, <1>7, <1>8, <1>9, <1>10, <1>11, <1>12, Zenon DEF ItemWords, Join
<1>14. PartAt(ws, p, f)  BY <1>12, <1>13, HoldsJoin
<1>15. PartAt(ws, p, c) /\ PartAt(ws, p + (12 + m + n), x)  BY <1>11, <1>14, HoldsJoin
<1>16. PartAt(ws, p, b) /\ PartAt(ws, p + (12 + m), ti)  BY <1>10, <1>15, HoldsJoin
<1>17. PartAt(ws, p, a) /\ PartAt(ws, p + 12, cl)
  <2>1. PartAt(ws, p, a) /\ PartAt(ws, p + (10 + 2), cl)  BY <1>9, <1>16, HoldsJoin
  <2>2. 10 + 2 = 12  OBVIOUS
  <2> QED BY <2>1, <2>2
<1>18. PartAt(ws, p + 10, d)  BY <1>8, <1>17, HoldsJoin
<1>19. WordAt(ws, p + 10) = i.id
  <2>0. 1 \in 1 .. Len(d)  BY <1>2
  <2>1. WordAt(ws, (p + 10) + 1 - 1) = d[1]  BY <1>18, <2>0 DEF PartAt
  <2>2. (p + 10) + 1 - 1 = p + 10  OBVIOUS
  <2> QED BY <1>2, <2>1, <2>2
<1>20. res_skip_sz(ws, p + 12) = p + 12 + m
  <2>1. p + 12 \in Nat /\ PartAt(ws, p + 12, NameWords(i.class))  BY <1>4, <1>17
  <2>2. res_skip_sz(ws, p + 12) = p + 12 + Len(NameWords(i.class))  BY <1>3, <2>1, Skipped
  <2> QED BY <1>4, <2>2
<1>21. res_skip_sz(ws, p + (12 + m)) = p + (12 + m) + n
  <2>1. p + (12 + m) \in Nat /\ PartAt(ws, p + (12 + m), NameWords(i.title))  BY <1>4, <1>16
  <2>2. res_skip_sz(ws, p + (12 + m)) = p + (12 + m) + Len(NameWords(i.title))
    BY <1>3, <2>1, Skipped
  <2> QED BY <1>4, <2>2
<1>22. p + 12 + m = p + (12 + m) /\ p + (12 + m) + n = p + (12 + m + n)  OBVIOUS
<1>23. WordAt(ws, p + (12 + m + n)) = 2 * e
  <2>1. WordAt(ws, (p + (12 + m + n)) + 1 - 1) = x[1]  BY <1>6, <1>15 DEF PartAt
  <2>2. (p + (12 + m + n)) + 1 - 1 = p + (12 + m + n)  OBVIOUS
  <2> QED BY <1>6, <2>1, <2>2
<1>24. TitleAt(ws, p) = p + (12 + m)  BY <1>20, <1>22 DEF TitleAt
<1>25. res_skip_sz(ws, TitleAt(ws, p)) = p + (12 + m + n)  BY <1>21, <1>22, <1>24
<1>26. ItemEnd(ws, p) = p + (12 + m + n) + 1 + (2 * e) \div 2
  BY <1>23, <1>25 DEF ItemEnd
<1>27. (2 * e) \div 2 = e  OBVIOUS
<1>28. Len(ItemWords(i)) = 13 + m + n + e  BY <1>12a, <1>13
<1>29. p + (12 + m + n) + 1 + e = p + (13 + m + n + e)  OBVIOUS
<1> QED BY <1>19, <1>26, <1>27, <1>28, <1>29

IsTemplate(t) ==
    /\ t.font \in BOOLEAN /\ t.menu \in Name /\ t.class \in Name /\ t.title \in Name
    /\ t.items \in Seq(ItemRecord)

LEMMA TemplatesAre ==
    \A t \in Templates : IsTemplate(t)
  BY DialogsAssumption DEF IsTemplate, ItemRecord

\* The walk over the header comes to the first item.
LEMMA HeaderRead ==
    ASSUME NEW t, IsTemplate(t)
    PROVE  /\ HeaderWords(t) \in Seq(Nat)
           /\ \A ws \in Seq(Nat) : PartAt(ws, 0, HeaderWords(t)) =>
                 /\ WordAt(ws, 0) = 1 /\ WordAt(ws, 1) = FFFF /\ WordAt(ws, 8) = Len(t.items)
                 /\ FirstItem(ws) = Len(HeaderWords(t))
<1>1. PICK n \in Nat : n = Len(t.items)  BY DEF IsTemplate
<1>2. PICK style \in {0, 64} : style = IF t.font THEN 64 ELSE 0  OBVIOUS
<1>3. PICK h \in Seq(Nat) :
          /\ h = FixedWords(t)
          /\ Len(h) = 13 /\ h[1] = 1 /\ h[2] = FFFF /\ h[7] = style /\ h[9] = n
  <2> DEFINE q == <<1, FFFF, 0, 0, 0, 0, style, 0, n, 0, 0, 300, 200>>
  <2>0. FFFF \in Nat /\ style \in Nat  BY DEF FFFF
  <2>1. q \in Seq(Nat)  BY <2>0
  <2>2. Len(q) = 13  OBVIOUS
  <2>3. q[1] = 1 /\ q[2] = FFFF /\ q[7] = style /\ q[9] = n  OBVIOUS
  <2>4. FixedWords(t) = q  BY <1>1, <1>2 DEF FixedWords
  <2> HIDE DEF q
  <2> QED BY <2>1, <2>2, <2>3, <2>4
<1>4. /\ t.menu \in Name /\ t.class \in Name /\ t.title \in Name
      /\ NameWords(t.menu) \in Seq(Nat) /\ NameWords(t.class) \in Seq(Nat)
      /\ NameWords(t.title) \in Seq(Nat)
  BY NamesAreWords DEF IsTemplate
<1>5. PICK me \in Seq(Nat), cl \in Seq(Nat), ti \in Seq(Nat), k1 \in Nat, k2 \in Nat, k3 \in Nat :
          /\ me = NameWords(t.menu) /\ cl = NameWords(t.class) /\ ti = NameWords(t.title)
          /\ k1 = Len(me) /\ k2 = Len(cl) /\ k3 = Len(ti)
  BY <1>4
<1>6. PICK a : Join(a, h, me, 13, k1)  BY <1>3, <1>5, PartsJoined, ZenonT(30)
<1>6a. a \in Seq(Nat) /\ Len(a) = 13 + k1  BY <1>6 DEF Join
<1>7. PICK b : Join(b, a, cl, 13 + k1, k2)  BY <1>5, <1>6a, PartsJoined, ZenonT(30)
<1>7a. b \in Seq(Nat) /\ Len(b) = 13 + k1 + k2  BY <1>7 DEF Join
<1>8. PICK c : Join(c, b, ti, 13 + k1 + k2, k3)  BY <1>5, <1>7a, PartsJoined, ZenonT(30)
<1>8a. c \in Seq(Nat) /\ Len(c) = 13 + k1 + k2 + k3  BY <1>8 DEF Join
<1>9. PICK fs \in Seq(Nat) : fs = <<8, 0, 0, 65, 0>> /\ Len(fs) = 5 /\ fs[4] = 65 /\ fs[5] = 0
  <2> DEFINE q == <<8, 0, 0, 65, 0>>
  <2>1. q \in Seq(Nat)  OBVIOUS
  <2>2. Len(q) = 5  OBVIOUS
  <2>3. q[4] = 65 /\ q[5] = 0  OBVIOUS
  <2> HIDE DEF q
  <2>4. \E fs \in Seq(Nat) : fs = q /\ Len(fs) = 5 /\ fs[4] = 65 /\ fs[5] = 0
    BY <2>1, <2>2, <2>3
  <2> QED BY <2>4 DEF q
<1>10. HeaderWords(t) = c \o FontWords(t)
  <2>1. c = FixedWords(t) \o NameWords(t.menu) \o NameWords(t.class) \o NameWords(t.title)
    BY <1>3, <1>5, <1>6, <1>7, <1>8, Zenon DEF Join
  <2> QED BY <2>1, Zenon DEF HeaderWords
<1>11. PICK f \in Seq(Nat), k4 \in Nat :
          f = FontWords(t) /\ k4 = Len(f) /\ f = (IF t.font THEN fs ELSE <<>>)
  <2>1. <<>> \in Seq(Nat)  OBVIOUS
  <2>2. FontWords(t) = IF t.font THEN fs ELSE <<>>  BY <1>9, Zenon DEF FontWords
  <2>3. FontWords(t) \in Seq(Nat)  BY <2>1, <2>2
  <2>4. Len(FontWords(t)) \in Nat  BY <2>3
  <2> QED BY <2>2, <2>3, <2>4
<1>12. PICK g : Join(g, c, f, 13 + k1 + k2 + k3, k4)  BY <1>8a, <1>11, PartsJoined, ZenonT(30)
<1>12a. g \in Seq(Nat) /\ Len(g) = 13 + k1 + k2 + k3 + k4  BY <1>12 DEF Join
<1>13. HeaderWords(t) = g  BY <1>10, <1>11, <1>12, Zenon DEF Join
<1>14. ASSUME NEW ws \in Seq(Nat), PartAt(ws, 0, HeaderWords(t))
       PROVE  /\ WordAt(ws, 0) = 1 /\ WordAt(ws, 1) = FFFF /\ WordAt(ws, 8) = Len(t.items)
              /\ FirstItem(ws) = Len(HeaderWords(t))
  <2>1. PartAt(ws, 0, c) /\ PartAt(ws, 0 + (13 + k1 + k2 + k3), f)
    BY <1>12, <1>13, <1>14, HoldsJoin
  <2>2. PartAt(ws, 13 + k1 + k2 + k3, f)
    <3>1. 0 + (13 + k1 + k2 + k3) = 13 + k1 + k2 + k3  OBVIOUS
    <3> QED BY <2>1, <3>1
  <2>3. PartAt(ws, 0, b) /\ PartAt(ws, 13 + k1 + k2, ti)
    <3>1. PartAt(ws, 0, b) /\ PartAt(ws, 0 + (13 + k1 + k2), ti)  BY <1>8, <2>1, HoldsJoin
    <3>2. 0 + (13 + k1 + k2) = 13 + k1 + k2  OBVIOUS
    <3> QED BY <3>1, <3>2
  <2>4. PartAt(ws, 0, a) /\ PartAt(ws, 13 + k1, cl)
    <3>1. PartAt(ws, 0, a) /\ PartAt(ws, 0 + (13 + k1), cl)  BY <1>7, <2>3, HoldsJoin
    <3>2. 0 + (13 + k1) = 13 + k1  OBVIOUS
    <3> QED BY <3>1, <3>2
  <2>5. PartAt(ws, 0, h) /\ PartAt(ws, 13, me)
    <3>1. PartAt(ws, 0, h) /\ PartAt(ws, 0 + 13, me)  BY <1>6, <2>4, HoldsJoin
    <3>2. 0 + 13 = 13  OBVIOUS
    <3> QED BY <3>1, <3>2
  <2>6. /\ WordAt(ws, 0 + 1 - 1) = h[1] /\ WordAt(ws, 0 + 2 - 1) = h[2]
        /\ WordAt(ws, 0 + 7 - 1) = h[7] /\ WordAt(ws, 0 + 9 - 1) = h[9]
    BY <1>3, <2>5 DEF PartAt
  <2>7. WordAt(ws, 0) = 1 /\ WordAt(ws, 1) = FFFF /\ WordAt(ws, 6) = style /\ WordAt(ws, 8) = n
    BY <1>3, <2>6
  <2>8. res_skip_sz(ws, 13) = 13 + k1
    <3>1. 13 \in Nat /\ PartAt(ws, 13, NameWords(t.menu))  BY <1>5, <2>5
    <3>2. res_skip_sz(ws, 13) = 13 + Len(NameWords(t.menu))  BY <1>4, <3>1, Skipped
    <3> QED BY <1>5, <3>2
  <2>9. res_skip_sz(ws, 13 + k1) = 13 + k1 + k2
    <3>1. 13 + k1 \in Nat /\ PartAt(ws, 13 + k1, NameWords(t.class))  BY <1>5, <2>4
    <3>2. res_skip_sz(ws, 13 + k1) = 13 + k1 + Len(NameWords(t.class))  BY <1>4, <3>1, Skipped
    <3> QED BY <1>5, <3>2
  <2>10. res_skip_sz(ws, 13 + k1 + k2) = 13 + k1 + k2 + k3
    <3>1. 13 + k1 + k2 \in Nat /\ PartAt(ws, 13 + k1 + k2, NameWords(t.title))  BY <1>5, <2>3
    <3>2. res_skip_sz(ws, 13 + k1 + k2) = 13 + k1 + k2 + Len(NameWords(t.title))  BY <1>4, <3>1, Skipped
    <3> QED BY <1>5, <3>2
  <2>11. res_skip_sz(ws, res_skip_sz(ws, res_skip_sz(ws, 13))) = 13 + k1 + k2 + k3
    BY <2>8, <2>9, <2>10
  <2>12. CASE t.font
    <3>1. style = 64 /\ f = fs  BY <1>2, <1>11, <2>12
    <3>2. WordAt(ws, (13 + k1 + k2 + k3) + 4 - 1) = 65
          /\ WordAt(ws, (13 + k1 + k2 + k3) + 5 - 1) = 0
          /\ 13 + k1 + k2 + k3 + 5 <= Len(ws)
      BY <1>9, <2>2, <3>1 DEF PartAt
    <3>3. PICK q \in Nat : q = 13 + k1 + k2 + k3  OBVIOUS
    <3>4. WordAt(ws, q + 3) = 65 /\ WordAt(ws, q + 4) = 0 /\ q + 5 <= Len(ws)
      <4>1. q + 4 - 1 = q + 3 /\ q + 5 - 1 = q + 4  OBVIOUS
      <4> QED BY <3>2, <3>3, <4>1
    <3>5. (CHOOSE u \in q + 3 .. Len(ws) : WordAt(ws, u) = 0
              /\ \A r \in q + 3 .. u - 1 : WordAt(ws, r) # 0) = q + 4
      <4>1. q + 4 \in q + 3 .. Len(ws)  BY <3>4
      <4>2. \A r \in q + 3 .. (q + 4) - 1 : WordAt(ws, r) # 0
        <5>1. \A r \in q + 3 .. (q + 4) - 1 : r = q + 3  OBVIOUS
        <5> QED BY <3>4, <5>1
      <4>3. ASSUME NEW u \in q + 3 .. Len(ws), WordAt(ws, u) = 0,
                   \A r \in q + 3 .. u - 1 : WordAt(ws, r) # 0
            PROVE  u = q + 4
        <5>1. u # q + 3  BY <3>4, <4>3
        <5>2. CASE u > q + 4
          <6>1. q + 4 \in q + 3 .. u - 1  BY <5>2
          <6> QED BY <3>4, <4>3, <6>1
        <5> QED BY <5>1, <5>2
      <4> QED BY <3>4, <4>1, <4>2, <4>3
    <3>6. res_skip_sz(ws, q + 3) = 1 + (q + 4)
      <4>1. WordAt(ws, q + 3) # 0 /\ WordAt(ws, q + 3) # FFFF
        <5>1. 65 # 0 /\ 65 # FFFF  BY DEF FFFF
        <5>2. WordAt(ws, q + 3) = 65  BY <3>4
        <5> QED BY <5>1, <5>2, Zenon
      <4> QED BY <3>5, <4>1 DEF res_skip_sz
    <3>7. FirstItem(ws) = q + 5
      <4>1. FirstItem(ws) = res_skip_sz(ws, q + 3)  BY <2>7, <2>11, <3>1, <3>3 DEF FirstItem
      <4> QED BY <3>6, <4>1
    <3>8. Len(HeaderWords(t)) = 13 + k1 + k2 + k3 + 5  BY <1>9, <1>11, <1>12a, <1>13, <3>1
    <3> QED BY <1>1, <2>7, <3>3, <3>7, <3>8
  <2>13. CASE ~ t.font
    <3>1. style = 0 /\ f = <<>>  BY <1>2, <1>11, <2>13
    <3>2. Len(f) = 0  BY <3>1
    <3>3. FirstItem(ws) = 13 + k1 + k2 + k3  BY <2>7, <2>11, <3>1 DEF FirstItem
    <3>4. Len(HeaderWords(t)) = 13 + k1 + k2 + k3 + 0  BY <1>11, <1>12a, <1>13, <3>1, <3>2
    <3>5. 13 + k1 + k2 + k3 + 0 = 13 + k1 + k2 + k3  OBVIOUS
    <3> QED BY <1>1, <2>7, <3>3, <3>4, <3>5
  <2> QED BY <2>12, <2>13
<1> QED BY <1>12a, <1>13, <1>14

\* The words up to the k-th item.
IsUpTo(f, t) ==
    f = [k \in 0 .. Len(t.items) |->
            IF k = 0 THEN HeaderWords(t) ELSE Padded(f[k - 1]) \o ItemWords(t.items[k])]

LEMMA PaddedWords ==
    ASSUME NEW ws \in Seq(Nat)
    PROVE  /\ Padded(ws) \in Seq(Nat) /\ Len(Padded(ws)) = Aligned(Len(ws))
           /\ Aligned(Len(ws)) \in Nat
           /\ \A p \in Nat, v \in Seq(Nat) : PartAt(v, p, Padded(ws)) => PartAt(v, p, ws)
<1>1. PICK n \in Nat : n = Len(ws)  OBVIOUS
<1>2. CASE n % 2 = 0
  <2>1. Padded(ws) = ws /\ Aligned(n) = n  BY <1>1, <1>2 DEF Padded, Aligned
  <2> QED BY <1>1, <2>1
<1>3. CASE n % 2 = 1
  <2>1. Padded(ws) = ws \o <<0>> /\ Aligned(n) = n + 1  BY <1>1, <1>3 DEF Padded, Aligned
  <2>2. PICK o \in Seq(Nat) : o = <<0>> /\ Len(o) = 1
    <3>1. <<0>> \in Seq(Nat) /\ Len(<<0>>) = 1  OBVIOUS
    <3> QED BY <3>1
  <2>3. PICK c : Join(c, ws, o, n, 1)  BY <1>1, <2>2, PartsJoined, ZenonT(30)
  <2>4. Padded(ws) = c /\ c \in Seq(Nat) /\ Len(c) = n + 1  BY <2>1, <2>2, <2>3 DEF Join
  <2>5. \A p \in Nat, v \in Seq(Nat) : PartAt(v, p, c) => PartAt(v, p, ws)
    BY <2>3, HoldsJoin
  <2>6. Aligned(Len(ws)) = n + 1 /\ n + 1 \in Nat  BY <1>1, <2>1
  <2>7. Padded(ws) \in Seq(Nat) /\ Len(Padded(ws)) = n + 1  BY <2>4
  <2>8. \A p \in Nat, v \in Seq(Nat) : PartAt(v, p, Padded(ws)) => PartAt(v, p, ws)
    BY <2>4, <2>5
  <2> QED BY <2>6, <2>7, <2>8
<1> QED BY <1>1, <1>2, <1>3

LEMMA UpToExists ==
    ASSUME NEW t, IsTemplate(t)
    PROVE  \E f : IsUpTo(f, t)
<1> DEFINE N == Len(t.items)
           h == [q \in Seq(Nat) \X (1 .. N) |-> Padded(q[1]) \o ItemWords(t.items[q[2]])]
<1>1. N \in Nat  BY DEF IsTemplate
<1>2. h \in [Seq(Nat) \X (1 .. N) -> Seq(Nat)]
  <2>1. ASSUME NEW ws \in Seq(Nat), NEW k \in 1 .. N
        PROVE  Padded(ws) \o ItemWords(t.items[k]) \in Seq(Nat)
    <3>1. t.items[k] \in ItemRecord  BY DEF IsTemplate
    <3>2. Padded(ws) \in Seq(Nat) /\ ItemWords(t.items[k]) \in Seq(Nat)
      BY <3>1, PaddedWords, ItemsAreWords
    <3> QED BY <3>2, Catenated
  <2> QED BY <2>1
<1>3. \A ws \in Seq(Nat) : \A k \in 1 .. N :
         h[<<ws, k>>] = Padded(ws) \o ItemWords(t.items[k])
  OBVIOUS
<1>4. HeaderWords(t) \in Seq(Nat)  BY HeaderRead
<1> HIDE DEF h
<1>5. PICK g \in [0 .. N -> Seq(Nat)] :
          \A i \in 0 .. N : g[i] = IF i = 0 THEN HeaderWords(t) ELSE h[<<g[i - 1], i>>]
  <2>1. PICK n, c, S, hh : n = N /\ c = HeaderWords(t) /\ S = Seq(Nat) /\ hh = h  OBVIOUS
  <2>2. n \in Nat /\ c \in S /\ hh \in [S \X (1 .. n) -> S]  BY <1>1, <1>2, <1>4, <2>1
  <2> HIDE DEF N
  <2>3. PICK g : Follows(g, S, c, n, hh)  BY <2>2, RecursionValues
  <2> QED BY <2>1, <2>3 DEF Follows
<1>6. ASSUME NEW i \in 0 .. N
      PROVE  g[i] = IF i = 0 THEN HeaderWords(t) ELSE Padded(g[i - 1]) \o ItemWords(t.items[i])
  <2>1. CASE i = 0  BY <1>5, <2>1
  <2>2. CASE i # 0
    <3>1. i - 1 \in 0 .. N /\ i \in 1 .. N  BY <1>1, <2>2
    <3>2. g[i - 1] \in Seq(Nat)  BY <3>1
    <3> QED BY <1>3, <1>5, <2>2, <3>1, <3>2
  <2> QED BY <2>1, <2>2
<1>7. g = [k \in 0 .. N |-> IF k = 0 THEN HeaderWords(t)
                            ELSE Padded(g[k - 1]) \o ItemWords(t.items[k])]
  BY <1>6
<1> QED BY <1>7 DEF IsUpTo

\* In the encoding every item is at the double word behind the one before it.
LEMMA ItemsPlaced ==
    ASSUME NEW t, IsTemplate(t)
    PROVE  \E f : /\ f \in [0 .. Len(t.items) -> Seq(Nat)]
                  /\ f[0] = HeaderWords(t) /\ Encoded(t) \in Seq(Nat)
                  /\ PartAt(Encoded(t), 0, HeaderWords(t))
                  /\ \A k \in 1 .. Len(t.items) :
                        /\ PartAt(Encoded(t), Aligned(Len(f[k - 1])), ItemWords(t.items[k]))
                        /\ Len(f[k]) = Aligned(Len(f[k - 1])) + Len(ItemWords(t.items[k]))
<1> DEFINE N == Len(t.items)
           P == CHOOSE f : IsUpTo(f, t)
<1>0. N \in Nat /\ \A k \in 1 .. N : t.items[k] \in ItemRecord  BY DEF IsTemplate
<1>1. Encoded(t) = P[N]  BY DEF Encoded, IsUpTo
<1>2. IsUpTo(P, t)  BY UpToExists
<1> HIDE DEF P
<1>3. \A f : IsUpTo(f, t) =>
         /\ DOMAIN f = 0 .. Len(t.items) /\ f = [k \in 0 .. Len(t.items) |-> f[k]]
         /\ \A k \in 0 .. Len(t.items) :
               f[k] = IF k = 0 THEN HeaderWords(t) ELSE Padded(f[k - 1]) \o ItemWords(t.items[k])
  BY DEF IsUpTo
<1>4. /\ P = [k \in 0 .. N |-> P[k]]
      /\ \A k \in 0 .. N : P[k] = IF k = 0 THEN HeaderWords(t)
                                  ELSE Padded(P[k - 1]) \o ItemWords(t.items[k])
  BY <1>2, <1>3
<1>5. P[0] = HeaderWords(t)  BY <1>0, <1>4
<1>6. \A k \in 0 .. N : P[k] \in Seq(Nat)
  <2> DEFINE B == {k \in 0 .. N : P[k] \in Seq(Nat)}
  <2>1. 0 \in B  BY <1>0, <1>5, HeaderRead
  <2>2. ASSUME NEW k \in 1 .. N, k - 1 \in B PROVE k \in B
    <3>1. k \in 0 .. N /\ k # 0 /\ P[k - 1] \in Seq(Nat)  BY <2>2
    <3>2. Padded(P[k - 1]) \in Seq(Nat) /\ ItemWords(t.items[k]) \in Seq(Nat)
      BY <1>0, <3>1, PaddedWords, ItemsAreWords
    <3>3. P[k] = Padded(P[k - 1]) \o ItemWords(t.items[k])  BY <1>4, <3>1
    <3>4. P[k] \in Seq(Nat)  BY <3>2, <3>3, Catenated
    <3> QED BY <3>1, <3>4
  <2> HIDE DEF B
  <2>3. \A k \in 0 .. N : k \in B  BY <1>0, <2>1, <2>2, AllUpTo
  <2> QED BY <2>3 DEF B
<1>7. ASSUME NEW k \in 1 .. N
      PROVE  /\ Join(P[k], Padded(P[k - 1]), ItemWords(t.items[k]),
                     Aligned(Len(P[k - 1])), Len(ItemWords(t.items[k])))
             /\ Aligned(Len(P[k - 1])) \in Nat
             /\ \A v \in Seq(Nat) : PartAt(v, 0, Padded(P[k - 1])) => PartAt(v, 0, P[k - 1])
  <2>1. k \in 0 .. N /\ k # 0 /\ k - 1 \in 0 .. N  BY <1>0
  <2>2. P[k - 1] \in Seq(Nat) /\ ItemWords(t.items[k]) \in Seq(Nat)
    BY <1>0, <1>6, <2>1, ItemsAreWords
  <2>3. /\ Padded(P[k - 1]) \in Seq(Nat) /\ Len(Padded(P[k - 1])) = Aligned(Len(P[k - 1]))
        /\ Aligned(Len(P[k - 1])) \in Nat
        /\ \A v \in Seq(Nat) : PartAt(v, 0, Padded(P[k - 1])) => PartAt(v, 0, P[k - 1])
    BY <2>2, PaddedWords
  <2>4. P[k] = Padded(P[k - 1]) \o ItemWords(t.items[k])  BY <1>4, <2>1
  <2>5. PICK c : Join(c, Padded(P[k - 1]), ItemWords(t.items[k]),
                      Aligned(Len(P[k - 1])), Len(ItemWords(t.items[k])))
    BY <2>2, <2>3, PartsJoined, ZenonT(30)
  <2>6. c = P[k]  BY <2>4, <2>5 DEF Join
  <2> QED BY <2>3, <2>5, <2>6
<1> DEFINE ws == P[N]
<1>8. ws \in Seq(Nat)  BY <1>0, <1>6
<1>9. \A k \in 0 .. N : PartAt(ws, 0, P[N - k])
  <2> DEFINE B == {k \in 0 .. N : PartAt(ws, 0, P[N - k])}
  <2>1. 0 \in B
    <3>1. N - 0 = N /\ 0 \in 0 .. N  BY <1>0
    <3>2. PartAt(ws, 0, ws)  BY <1>8, HoldsSelf
    <3> QED BY <3>1, <3>2
  <2>2. ASSUME NEW k \in 1 .. N, k - 1 \in B PROVE k \in B
    <3>0. PICK n \in Nat : n = N  BY <1>0
    <3>1. PICK m \in 1 .. N : m = N - (k - 1)
      <4>1. k \in 1 .. n  BY <3>0
      <4>2. n - (k - 1) \in 1 .. n  BY <4>1
      <4> QED BY <3>0, <4>2
    <3>2. N - k = m - 1 /\ k \in 0 .. N
      <4>1. k \in 1 .. n /\ m = n - (k - 1)  BY <3>0, <3>1
      <4>2. n - k = m - 1 /\ k \in 0 .. n  BY <4>1
      <4> QED BY <3>0, <4>2
    <3>3. PartAt(ws, 0, P[m])  BY <2>2, <3>1
    <3>4. PartAt(ws, 0, Padded(P[m - 1]))
      <4> HIDE DEF ws
      <4> QED BY <1>7, <1>8, <3>3, HoldsJoin
    <3>5. PartAt(ws, 0, P[m - 1])  BY <1>7, <1>8, <3>4
    <3> QED BY <3>2, <3>5
  <2> HIDE DEF B
  <2>3. \A k \in 0 .. N : k \in B  BY <1>0, <2>1, <2>2, AllUpTo
  <2> QED BY <2>3 DEF B
<1>10. \A k \in 0 .. N : PartAt(ws, 0, P[k])
  <2> SUFFICES ASSUME NEW k \in 0 .. N PROVE PartAt(ws, 0, P[k])  OBVIOUS
  <2>1. N - k \in 0 .. N /\ N - (N - k) = k  BY <1>0
  <2> QED BY <1>9, <2>1
<1> HIDE DEF ws
<1>11. ASSUME NEW k \in 1 .. N
       PROVE  /\ PartAt(ws, Aligned(Len(P[k - 1])), ItemWords(t.items[k]))
              /\ Len(P[k]) = Aligned(Len(P[k - 1])) + Len(ItemWords(t.items[k]))
  <2>1. PartAt(ws, 0, P[k])  BY <1>0, <1>10
  <2>2. PartAt(ws, 0 + Aligned(Len(P[k - 1])), ItemWords(t.items[k]))
    BY <1>7, <1>8, <2>1, HoldsJoin
  <2>3. 0 + Aligned(Len(P[k - 1])) = Aligned(Len(P[k - 1]))
    <3>1. PICK a \in Nat : a = Aligned(Len(P[k - 1]))  BY <1>7
    <3> QED BY <3>1
  <2>4. Len(P[k]) = Aligned(Len(P[k - 1])) + Len(ItemWords(t.items[k]))  BY <1>7 DEF Join
  <2> QED BY <2>2, <2>3, <2>4
<1>12. P \in [0 .. N -> Seq(Nat)]  BY <1>4, <1>6
<1>13. Encoded(t) = ws  BY <1>1 DEF ws
<1>14. PartAt(ws, 0, HeaderWords(t))
  <2>1. 0 \in 0 .. N  BY <1>0
  <2> QED BY <1>5, <1>10, <2>1
<1> HIDE DEF N
<1>15. /\ P \in [0 .. N -> Seq(Nat)]
       /\ P[0] = HeaderWords(t) /\ Encoded(t) \in Seq(Nat)
       /\ PartAt(Encoded(t), 0, HeaderWords(t))
       /\ \A k \in 1 .. N :
             /\ PartAt(Encoded(t), Aligned(Len(P[k - 1])), ItemWords(t.items[k]))
             /\ Len(P[k]) = Aligned(Len(P[k - 1])) + Len(ItemWords(t.items[k]))
  BY <1>5, <1>8, <1>11, <1>12, <1>13, <1>14
<1> QED BY <1>15 DEF N

\* The walk of wg_parse_dialog.
IsWalked(p, ws, n) ==
    p = [k \in 0 .. n |-> IF k = 0 THEN FirstItem(ws) ELSE ItemEnd(ws, Aligned(p[k - 1]))]

\* It takes the ids of the items, as many as the table has room for.
LEMMA IdsTaken ==
    ASSUME NEW t, IsTemplate(t), NEW room \in Nat
    PROVE  \E n \in Nat : /\ n <= room /\ n <= Len(t.items)
                          /\ TemplateIds(Encoded(t), room) = [k \in 1 .. n |-> t.items[k].id]
<1>1. PICK f :
          /\ f \in [0 .. Len(t.items) -> Seq(Nat)]
          /\ f[0] = HeaderWords(t) /\ Encoded(t) \in Seq(Nat)
          /\ PartAt(Encoded(t), 0, HeaderWords(t))
          /\ \A k \in 1 .. Len(t.items) :
                /\ PartAt(Encoded(t), Aligned(Len(f[k - 1])), ItemWords(t.items[k]))
                /\ Len(f[k]) = Aligned(Len(f[k - 1])) + Len(ItemWords(t.items[k]))
  BY ItemsPlaced
<1>2. PICK N \in Nat : N = Len(t.items)  BY DEF IsTemplate
<1>3. PICK ws \in Seq(Nat) : ws = Encoded(t)  BY <1>1
<1>4. /\ WordAt(ws, 0) = 1 /\ WordAt(ws, 1) = FFFF /\ WordAt(ws, 8) = N
      /\ FirstItem(ws) = Len(f[0])
  BY <1>1, <1>2, <1>3, HeaderRead
<1>5. PICK n \in Nat : n = (IF N < room THEN N ELSE room) /\ n <= room /\ n <= N  OBVIOUS
<1>6. ASSUME NEW k \in 1 .. N
      PROVE  /\ WordAt(ws, Aligned(Len(f[k - 1])) + 10) = t.items[k].id
             /\ ItemEnd(ws, Aligned(Len(f[k - 1]))) = Len(f[k])
  <2>1. k - 1 \in 0 .. N /\ t.items[k] \in ItemRecord  BY <1>2 DEF IsTemplate
  <2>2. f[k - 1] \in Seq(Nat)  BY <1>1, <1>2, <2>1
  <2>3. Aligned(Len(f[k - 1])) \in Nat  BY <2>2, PaddedWords
  <2>4. PartAt(ws, Aligned(Len(f[k - 1])), ItemWords(t.items[k]))  BY <1>1, <1>2, <1>3
  <2>5. /\ WordAt(ws, Aligned(Len(f[k - 1])) + 10) = t.items[k].id
        /\ ItemEnd(ws, Aligned(Len(f[k - 1])))
             = Aligned(Len(f[k - 1])) + Len(ItemWords(t.items[k]))
    BY <2>1, <2>3, <2>4, ItemRead
  <2> QED BY <1>1, <1>2, <2>5
<1> DEFINE P == CHOOSE p : IsWalked(p, ws, n)
<1>7. TemplateIds(ws, room) = [k \in 1 .. n |-> WordAt(ws, Aligned(P[k - 1]) + 10)]
  BY <1>4, <1>5, SMTT(30) DEF TemplateIds, IsWalked
<1>8. IsWalked(P, ws, n)
  <2> DEFINE p == [k \in 0 .. n |-> Len(f[k])]
  <2>1. ASSUME NEW k \in 0 .. n
        PROVE  p[k] = IF k = 0 THEN FirstItem(ws) ELSE ItemEnd(ws, Aligned(p[k - 1]))
    <3>1. CASE k = 0  BY <1>4, <3>1
    <3>2. CASE k # 0
      <4>1. k \in 1 .. N /\ k - 1 \in 0 .. n  BY <1>5, <3>2
      <4>2. p[k] = Len(f[k]) /\ p[k - 1] = Len(f[k - 1])  BY <4>1
      <4> HIDE DEF p
      <4> QED BY <1>6, <3>2, <4>1, <4>2
    <3> QED BY <3>1, <3>2
  <2>2. p = [k \in 0 .. n |-> IF k = 0 THEN FirstItem(ws) ELSE ItemEnd(ws, Aligned(p[k - 1]))]
    BY <2>1
  <2> HIDE DEF p
  <2>3. IsWalked(p, ws, n)  BY <2>2 DEF IsWalked
  <2> QED BY <2>3
<1> HIDE DEF P
<1>9. \A p : IsWalked(p, ws, n) =>
         \A k \in 0 .. n : p[k] = IF k = 0 THEN FirstItem(ws) ELSE ItemEnd(ws, Aligned(p[k - 1]))
  BY DEF IsWalked
<1>10. \A k \in 0 .. n : P[k] = IF k = 0 THEN FirstItem(ws) ELSE ItemEnd(ws, Aligned(P[k - 1]))
  BY <1>8, <1>9
<1>11. \A k \in 0 .. n : P[k] = Len(f[k])
  <2> DEFINE B == {k \in 0 .. n : P[k] = Len(f[k])}
  <2>1. 0 \in B  BY <1>4, <1>10
  <2>2. ASSUME NEW k \in 1 .. n, k - 1 \in B PROVE k \in B
    <3>1. k \in 1 .. N /\ k \in 0 .. n /\ k # 0 /\ P[k - 1] = Len(f[k - 1])  BY <1>5, <2>2
    <3>2. P[k] = ItemEnd(ws, Aligned(P[k - 1]))  BY <1>10, <3>1
    <3>3. P[k] = Len(f[k])  BY <1>6, <3>1, <3>2
    <3> QED BY <3>1, <3>3
  <2> HIDE DEF B
  <2>3. \A k \in 0 .. n : k \in B  BY <2>1, <2>2, AllUpTo
  <2> QED BY <2>3 DEF B
<1>12. \A k \in 1 .. n : WordAt(ws, Aligned(P[k - 1]) + 10) = t.items[k].id
  <2> SUFFICES ASSUME NEW k \in 1 .. n
               PROVE  WordAt(ws, Aligned(P[k - 1]) + 10) = t.items[k].id
    OBVIOUS
  <2>1. k \in 1 .. N /\ k - 1 \in 0 .. n  BY <1>5
  <2>2. P[k - 1] = Len(f[k - 1])  BY <1>11, <2>1
  <2> QED BY <1>6, <2>1, <2>2
<1>13. TemplateIds(ws, room) = [k \in 1 .. n |-> t.items[k].id]  BY <1>7, <1>12
<1> QED BY <1>2, <1>3, <1>5, <1>13

-----------------------------------------------------------------------------
(* The controls, the pages and the handles. *)

Held == [index : Nat \ {0}, number : Nat, fresh : BOOLEAN]

\* The handles of a set are right for a table.
Stand(held, ctrls) ==
    \A h \in held : h.fresh => h.index <= Len(ctrls) /\ ctrls[h.index].number = h.number

DialogsTyped ==
    /\ s_ctrls \in Seq(Ctrl) /\ Len(s_ctrls) <= MaxControls
    /\ ctrlsMade \in 0 .. MaxControlsMade
    /\ nextHwnd \in 1 .. MaxDialogWindows + 1 /\ standing \subseteq 1 .. nextHwnd - 1
    /\ frame \in 0 .. MaxDialogWindows /\ s_inner_page \in 0 .. MaxDialogWindows
    /\ heldHandles \subseteq Held

\* In the program that made the inner page: windows are numbered as they are made, a
\* control is one of a window that stands, and the only page is the inner page.
PagesApart ==
    strays = {} =>
        /\ s_inner_page < nextHwnd
        /\ \A k \in 1 .. Len(s_ctrls) : s_ctrls[k].hwnd \in standing
        /\ frame # 0 => \A w \in standing : w > frame => w = s_inner_page

DialogsInv == DialogsTyped /\ Stand(heldHandles, s_ctrls) /\ PagesApart /\ TemplatesRead

\* A page that goes takes the handles behind its first control with it.
LEMMA StaleStand ==
    ASSUME NEW ctrls \in Seq(Ctrl), NEW hwnd, NEW held \in SUBSET Held, Stand(held, ctrls)
    PROVE  /\ Stale(held, ctrls, hwnd) \subseteq Held
           /\ Stand(Stale(held, ctrls, hwnd), wg_remove_ctrls(ctrls, hwnd))
<1> DEFINE r == wg_remove_ctrls(ctrls, hwnd)
           Before(h) == \A k \in 1 .. Len(ctrls) : ctrls[k].hwnd = hwnd => h.index < k
<1>1. ASSUME NEW g \in Stale(held, ctrls, hwnd)
      PROVE  /\ g \in Held
             /\ g.fresh => g.index <= Len(r) /\ r[g.index].number = g.number
  <2>1. PICK h \in held : g = [h EXCEPT !.fresh = h.fresh /\ Before(h)]  BY DEF Stale
  <2>2. h \in Held  OBVIOUS
  <2>3. /\ h.index \in Nat \ {0} /\ h.fresh \in BOOLEAN /\ h.number \in Nat
        /\ (h.fresh /\ Before(h)) \in BOOLEAN
    BY <2>2 DEF Held
  <2>4. g.index = h.index /\ g.number = h.number /\ g.fresh = (h.fresh /\ Before(h)) /\ g \in Held
    <3> HIDE DEF Before
    <3> QED BY <2>1, <2>2, <2>3 DEF Held
  <2>5. ASSUME g.fresh PROVE g.index <= Len(r) /\ r[g.index].number = g.number
    <3>1. h.fresh /\ Before(h)  BY <2>4, <2>5
    <3>2. h.index <= Len(ctrls) /\ ctrls[h.index].number = h.number  BY <3>1 DEF Stand
    <3>3. PICK m \in 1 .. Len(ctrls) : m = h.index  BY <2>3, <3>2
    <3>4. \A j \in 1 .. m : ctrls[j].hwnd # hwnd
      <4> SUFFICES ASSUME NEW j \in 1 .. m, ctrls[j].hwnd = hwnd PROVE FALSE  OBVIOUS
      <4>1. j \in 1 .. Len(ctrls)  BY <3>3
      <4>2. h.index < j  BY <3>1, <4>1
      <4> QED BY <3>3, <4>2
    <3>5. m \in 0 .. Len(ctrls)  OBVIOUS
    <3>6. m <= Len(r) /\ \A j \in 1 .. m : r[j] = ctrls[j]  BY <3>4, <3>5, Removed
    <3>7. r[m] = ctrls[m]  BY <3>3, <3>6
    <3> HIDE DEF r
    <3> QED BY <2>4, <3>2, <3>3, <3>6, <3>7
  <2> QED BY <2>4, <2>5
<1> HIDE DEF r
<1> QED BY <1>1 DEF Stand, r

\* Nothing happens to handles when controls are put behind.
LEMMA StandGrows ==
    ASSUME NEW ctrls \in Seq(Ctrl), NEW longer \in Seq(Ctrl), NEW held \in SUBSET Held,
           Stand(held, ctrls), Len(ctrls) <= Len(longer),
           \A k \in 1 .. Len(ctrls) : longer[k] = ctrls[k]
    PROVE  Stand(held, longer)
<1> SUFFICES ASSUME NEW h \in held, h.fresh
             PROVE  h.index <= Len(longer) /\ longer[h.index].number = h.number
  BY DEF Stand
<1>1. h.index <= Len(ctrls) /\ ctrls[h.index].number = h.number  BY DEF Stand
<1>2. h.index \in Nat \ {0}  BY DEF Held
<1>3. h.index \in 1 .. Len(ctrls)  BY <1>1, <1>2
<1> QED BY <1>1, <1>2, <1>3

LEMMA PutBehind ==
    ASSUME NEW S, NEW a \in Seq(S), NEW b \in Seq(S)
    PROVE  /\ Len(a \o b) = Len(a) + Len(b)
           /\ \A k \in 1 .. Len(a) : (a \o b)[k] = a[k]
           /\ \A k \in 1 .. Len(b) : (a \o b)[Len(a) + k] = b[k]
  OBVIOUS

\* Controls of a window behind those there are.
Grown(longer, ctrls, hwnd) ==
    /\ longer \in Seq(Ctrl) /\ Len(ctrls) <= Len(longer) /\ Len(longer) <= MaxControls
    /\ \A k \in 1 .. Len(ctrls) : longer[k] = ctrls[k]
    /\ \A k \in 1 .. Len(longer) : k > Len(ctrls) => longer[k].hwnd = hwnd

\* A template puts controls of its window behind those there are, with the ids of
\* its items.
LEMMA Parsing ==
    ASSUME NEW ctrls \in Seq(Ctrl), Len(ctrls) <= MaxControls, NEW hwnd \in Nat,
           NEW t \in Templates, ctrlsMade \in Nat
    PROVE  AsEncoded(ctrls, t) /\ Grown(Parsed(ctrls, hwnd, t), ctrls, hwnd)
<1>1. IsTemplate(t)  BY TemplatesAre
<1>2. PICK l \in Nat, M \in Nat : l = Len(ctrls) /\ M = MaxControls /\ l <= M
  BY DialogsAssumption
<1>3. PICK room \in Nat : room = M - l  BY <1>2
<1>4. PICK n \in Nat : /\ n <= room /\ n <= Len(t.items)
                       /\ TemplateIds(Encoded(t), room) = [k \in 1 .. n |-> t.items[k].id]
  BY <1>1, IdsTaken
<1>5. \A k \in 1 .. n : t.items[k] \in ItemRecord /\ t.items[k].id \in Nat
  <2> SUFFICES ASSUME NEW k \in 1 .. n PROVE t.items[k] \in ItemRecord /\ t.items[k].id \in Nat
    OBVIOUS
  <2>1. t.items \in Seq(ItemRecord)  BY <1>1 DEF IsTemplate
  <2>2. t.items[k] \in ItemRecord  BY <1>4, <2>1
  <2> QED BY <2>2 DEF ItemRecord
<1>6. PICK ids \in Seq(Nat) : /\ ids = TemplateIds(Encoded(t), MaxControls - Len(ctrls))
                              /\ Len(ids) = n /\ \A k \in 1 .. n : ids[k] = t.items[k].id
  <2> DEFINE q == [k \in 1 .. n |-> t.items[k].id]
  <2>1. q \in Seq(Nat) /\ Len(q) = n /\ \A k \in 1 .. n : q[k] = t.items[k].id  BY <1>5
  <2>2. q = TemplateIds(Encoded(t), MaxControls - Len(ctrls))  BY <1>2, <1>3, <1>4
  <2> HIDE DEF q
  <2> QED BY <2>1, <2>2
<1>7. AsEncoded(ctrls, t)  BY <1>6 DEF AsEncoded
<1>8. PICK new \in Seq(Ctrl) :
         /\ new = [k \in 1 .. Len(ids) |-> [hwnd |-> hwnd, id |-> ids[k], number |-> ctrlsMade + k]]
         /\ Len(new) = n /\ \A k \in 1 .. n : new[k].hwnd = hwnd
  <2> DEFINE q == [k \in 1 .. n |-> [hwnd |-> hwnd, id |-> ids[k], number |-> ctrlsMade + k]]
  <2>1. \A k \in 1 .. n : [hwnd |-> hwnd, id |-> ids[k], number |-> ctrlsMade + k] \in Ctrl
    <3> SUFFICES ASSUME NEW k \in 1 .. n
                 PROVE  [hwnd |-> hwnd, id |-> ids[k], number |-> ctrlsMade + k] \in Ctrl
      OBVIOUS
    <3>1. ids[k] \in Nat /\ ctrlsMade + k \in Nat  BY <1>6
    <3> QED BY <3>1 DEF Ctrl
  <2>2. q \in Seq(Ctrl) /\ Len(q) = n /\ \A k \in 1 .. n : q[k].hwnd = hwnd  BY <2>1
  <2>3. q = [k \in 1 .. Len(ids) |-> [hwnd |-> hwnd, id |-> ids[k], number |-> ctrlsMade + k]]
    BY <1>6
  <2> HIDE DEF q
  <2> QED BY <2>2, <2>3
<1>9. Parsed(ctrls, hwnd, t) = ctrls \o new  BY <1>6, <1>8 DEF Parsed
<1>10. PICK p \in Seq(Ctrl) : p = ctrls \o new
  <2>1. ctrls \o new \in Seq(Ctrl)  OBVIOUS
  <2> QED BY <2>1
<1>11. /\ Len(p) = l + n
       /\ \A k \in 1 .. l : p[k] = ctrls[k]
       /\ \A k \in 1 .. n : p[l + k] = new[k]
  <2>1. /\ Len(ctrls \o new) = Len(ctrls) + Len(new)
        /\ \A k \in 1 .. Len(ctrls) : (ctrls \o new)[k] = ctrls[k]
        /\ \A k \in 1 .. Len(new) : (ctrls \o new)[Len(ctrls) + k] = new[k]
    BY PutBehind
  <2> QED BY <1>2, <1>8, <1>10, <2>1
<1>12. ASSUME NEW k \in 1 .. Len(p), k > l PROVE p[k].hwnd = hwnd
  <2>1. PICK j \in 1 .. n : k = l + j
    <3>1. k - l \in 1 .. n /\ k = l + (k - l)  BY <1>11, <1>12
    <3> QED BY <3>1
  <2>2. p[k] = new[j]  BY <1>11, <2>1
  <2> QED BY <1>8, <2>2
<1>13. Len(p) <= M /\ l <= Len(p)  BY <1>2, <1>3, <1>4, <1>11
<1>14. Grown(p, ctrls, hwnd)  BY <1>2, <1>10, <1>11, <1>12, <1>13 DEF Grown
<1> QED BY <1>7, <1>9, <1>10, <1>14

\* The table and the handles once the last inner page is retired.
LEMMA Retired ==
    ASSUME DialogsInv, NEW keep \in Nat \ {0}, wg_retire_inner_page(keep)
    PROVE  LET ctrls == AfterRetire(keep) IN
           /\ ctrls \in Seq(Ctrl) /\ Len(ctrls) <= MaxControls
           /\ heldHandles' \subseteq Held /\ Stand(heldHandles', ctrls)
           /\ standing' = (standing \ {s_inner_page}) \cup {keep} \/ s_inner_page = keep
           /\ strays = {} => \A k \in 1 .. Len(ctrls) : ctrls[k].hwnd \in standing'
<1>1. /\ s_ctrls \in Seq(Ctrl) /\ Len(s_ctrls) <= MaxControls /\ heldHandles \subseteq Held
      /\ Stand(heldHandles, s_ctrls) /\ standing \subseteq Nat \ {0} /\ s_inner_page \in Nat
      /\ strays = {} => \A k \in 1 .. Len(s_ctrls) : s_ctrls[k].hwnd \in standing
  <2>1. standing \subseteq 1 .. nextHwnd - 1 /\ nextHwnd \in Nat
    BY DialogsAssumption DEF DialogsInv, DialogsTyped
  <2> QED BY <2>1, DialogsAssumption DEF DialogsInv, DialogsTyped, PagesApart
<1>2. CASE s_inner_page \in {0, keep}
  <2>1. /\ AfterRetire(keep) = s_ctrls /\ heldHandles' = heldHandles
        /\ standing' = standing \cup {keep}
    BY <1>2 DEF AfterRetire, wg_retire_inner_page
  <2>2. s_inner_page = 0 => standing' = (standing \ {s_inner_page}) \cup {keep}
    BY <1>1, <2>1
  <2> QED BY <1>1, <1>2, <2>1, <2>2
<1>3. CASE s_inner_page \notin {0, keep}
  <2>1. /\ AfterRetire(keep) = wg_remove_ctrls(s_ctrls, s_inner_page)
        /\ heldHandles' = Stale(heldHandles, s_ctrls, s_inner_page)
        /\ standing' = (standing \ {s_inner_page}) \cup {keep}
    BY <1>3 DEF AfterRetire, wg_retire_inner_page
  <2> DEFINE r == wg_remove_ctrls(s_ctrls, s_inner_page)
  <2>2. /\ r \in Seq(Ctrl) /\ Len(r) <= Len(s_ctrls)
        /\ \A j \in 1 .. Len(r) : r[j].hwnd # s_inner_page
                                  /\ \E i \in 1 .. Len(s_ctrls) : r[j] = s_ctrls[i]
    BY <1>1, Removed
  <2>3. /\ heldHandles' \subseteq Held
        /\ Stand(heldHandles', r)
    BY <1>1, <2>1, StaleStand
  <2> HIDE DEF r
  <2>4. Len(r) <= MaxControls  BY <1>1, <2>2, DialogsAssumption
  <2>5. ASSUME strays = {}, NEW k \in 1 .. Len(r) PROVE r[k].hwnd \in standing'
    <3>1. PICK i \in 1 .. Len(s_ctrls) : r[k] = s_ctrls[i]  BY <2>2
    <3>2. s_ctrls[i].hwnd \in standing  BY <1>1, <2>5
    <3> QED BY <2>1, <2>2, <3>1, <3>2
  <2>6. AfterRetire(keep) = r  BY <2>1 DEF r
  <2> QED BY <2>1, <2>2, <2>3, <2>4, <2>5, <2>6
<1> QED BY <1>2, <1>3

\* What the invariant asks of a step that puts the controls of a new window, or none,
\* behind a table.
LEMMA PutOn ==
    ASSUME NEW ctrls, ctrls \in Seq(Ctrl), s_ctrls' \in Seq(Ctrl),
           Len(ctrls) <= Len(s_ctrls'), Len(s_ctrls') <= MaxControls,
           \A k \in 1 .. Len(ctrls) : s_ctrls'[k] = ctrls[k],
           \A k \in 1 .. Len(s_ctrls') : k > Len(ctrls) => s_ctrls'[k].hwnd \in standing',
           strays = {} => \A k \in 1 .. Len(ctrls) : ctrls[k].hwnd \in standing',
           heldHandles' \subseteq Held, Stand(heldHandles', ctrls)
    PROVE  /\ Stand(heldHandles', s_ctrls')
           /\ strays = {} => \A k \in 1 .. Len(s_ctrls') : s_ctrls'[k].hwnd \in standing'
<1>1. Stand(heldHandles', s_ctrls')  BY StandGrows
<1>2. ASSUME strays = {}, NEW k \in 1 .. Len(s_ctrls') PROVE s_ctrls'[k].hwnd \in standing'
  <2>1. CASE k > Len(ctrls)  BY <2>1
  <2>2. CASE k <= Len(ctrls)
    <3>1. k \in 1 .. Len(ctrls)  BY <2>2
    <3> QED BY <1>2, <3>1
  <2> QED BY <2>1, <2>2
<1> QED BY <1>1, <1>2

LEMMA DialogBoxKeeps ==
    ASSUME DialogsInv, NEW t \in Templates, DialogBoxParamW(t)
    PROVE  DialogsInv'
<1>1. /\ frame = 0 /\ nextHwnd <= MaxDialogWindows /\ frame' = nextHwnd
      /\ standing' = standing \cup {nextHwnd} /\ nextHwnd' = nextHwnd + 1
      /\ s_inner_page' = s_inner_page /\ heldHandles' = heldHandles /\ strays' = strays
      /\ wg_parse_dialog(s_ctrls, nextHwnd, t)
  BY DEF DialogBoxParamW
<1>2. /\ nextHwnd \in Nat \ {0} /\ MaxDialogWindows \in Nat /\ MaxControlsMade \in Nat
      /\ s_ctrls \in Seq(Ctrl) /\ Len(s_ctrls) <= MaxControls /\ ctrlsMade \in Nat
      /\ standing \subseteq 1 .. nextHwnd - 1 /\ heldHandles \subseteq Held
      /\ s_inner_page \in 0 .. MaxDialogWindows /\ Stand(heldHandles, s_ctrls)
  BY DialogsAssumption DEF DialogsInv, DialogsTyped
<1>3. /\ s_ctrls' = Parsed(s_ctrls, nextHwnd, t) /\ ctrlsMade' <= MaxControlsMade
      /\ ctrlsMade' = ctrlsMade + Len(Parsed(s_ctrls, nextHwnd, t)) - Len(s_ctrls)
      /\ misparsed' = (misparsed \/ ~ AsEncoded(s_ctrls, t))
  BY <1>1 DEF wg_parse_dialog
<1>4. /\ AsEncoded(s_ctrls, t)
      /\ s_ctrls' \in Seq(Ctrl) /\ Len(s_ctrls) <= Len(s_ctrls') /\ Len(s_ctrls') <= MaxControls
      /\ \A k \in 1 .. Len(s_ctrls) : s_ctrls'[k] = s_ctrls[k]
      /\ \A k \in 1 .. Len(s_ctrls') : k > Len(s_ctrls) => s_ctrls'[k].hwnd = nextHwnd
  <2>1. AsEncoded(s_ctrls, t) /\ Grown(Parsed(s_ctrls, nextHwnd, t), s_ctrls, nextHwnd)
    BY <1>2, Parsing
  <2>2. Grown(s_ctrls', s_ctrls, nextHwnd)  BY <1>3, <2>1
  <2> QED BY <2>1, <2>2 DEF Grown
<1>5. ctrlsMade' \in 0 .. MaxControlsMade  BY <1>2, <1>3, <1>4
<1>6. /\ Stand(heldHandles', s_ctrls')
      /\ strays = {} => \A k \in 1 .. Len(s_ctrls') : s_ctrls'[k].hwnd \in standing'
  <2>1. strays = {} => \A k \in 1 .. Len(s_ctrls) : s_ctrls[k].hwnd \in standing'
    BY <1>1 DEF DialogsInv, PagesApart
  <2>2. \A k \in 1 .. Len(s_ctrls') : k > Len(s_ctrls) => s_ctrls'[k].hwnd \in standing'
    BY <1>1, <1>4
  <2> QED BY <1>1, <1>2, <1>4, <2>1, <2>2, PutOn
<1>7. DialogsTyped'
  <2>1. /\ nextHwnd' \in 1 .. MaxDialogWindows + 1 /\ frame' \in 0 .. MaxDialogWindows
        /\ standing' \subseteq 1 .. nextHwnd' - 1
    BY <1>1, <1>2
  <2> QED BY <1>1, <1>2, <1>4, <1>5, <2>1 DEF DialogsTyped
<1>8. PagesApart'
  <2>1. \A w \in standing' : ~ w > frame'  BY <1>1, <1>2
  <2>2. strays = {} => s_inner_page' < nextHwnd'
    BY <1>1, <1>2 DEF DialogsInv, PagesApart
  <2> QED BY <1>1, <1>6, <2>1, <2>2 DEF PagesApart
<1>9. TemplatesRead'  BY <1>3, <1>4 DEF DialogsInv, TemplatesRead
<1> QED BY <1>6, <1>7, <1>8, <1>9 DEF DialogsInv

\* A new inner page: its number, and the one that goes.
LEMMA NewPage ==
    ASSUME DialogsInv, frame # 0, nextHwnd <= MaxDialogWindows, frame' = frame,
           nextHwnd' = nextHwnd + 1, wg_retire_inner_page(nextHwnd),
           s_inner_page' = nextHwnd, strays' = strays
    PROVE  /\ nextHwnd \in Nat \ {0} /\ nextHwnd' \in 1 .. MaxDialogWindows + 1
           /\ standing' \subseteq 1 .. nextHwnd' - 1 /\ nextHwnd \in standing'
           /\ frame' \in 0 .. MaxDialogWindows /\ s_inner_page' \in 0 .. MaxDialogWindows
           /\ s_inner_page' < nextHwnd'
           /\ strays = {} => \A w \in standing' : w > frame' => w = s_inner_page'
<1>1. /\ nextHwnd \in Nat \ {0} /\ MaxDialogWindows \in Nat
      /\ standing \subseteq 1 .. nextHwnd - 1
      /\ s_inner_page \in 0 .. MaxDialogWindows /\ frame \in 0 .. MaxDialogWindows
  BY DialogsAssumption DEF DialogsInv, DialogsTyped
<1>2. standing' = standing \cup {nextHwnd} \/ standing' = (standing \ {s_inner_page}) \cup {nextHwnd}
  BY DEF wg_retire_inner_page
<1>3. standing' \subseteq 1 .. nextHwnd /\ nextHwnd \in standing'
  <2>1. standing' \subseteq standing \cup {nextHwnd} /\ nextHwnd \in standing'  BY <1>2
  <2>2. standing \cup {nextHwnd} \subseteq 1 .. nextHwnd  BY <1>1
  <2> QED BY <2>1, <2>2
<1>4. ASSUME strays = {}, NEW w \in standing', w > frame' PROVE w = s_inner_page'
  <2>1. s_inner_page < nextHwnd /\ \A v \in standing : v > frame => v = s_inner_page
    BY <1>4 DEF DialogsInv, PagesApart
  <2>2. CASE w = nextHwnd  BY <2>2
  <2>3. CASE w # nextHwnd
    <3>1. w \in standing  BY <1>2, <2>3
    <3>2. w = s_inner_page /\ w # 0  BY <1>1, <1>4, <2>1, <3>1
    <3>3. standing' = (standing \ {s_inner_page}) \cup {nextHwnd}
      <4>1. s_inner_page \notin {0, nextHwnd}  BY <2>1, <2>3, <3>2
      <4> QED BY <4>1 DEF wg_retire_inner_page
    <3> QED BY <2>3, <3>2, <3>3
  <2> QED BY <2>2, <2>3
<1> QED BY <1>1, <1>3, <1>4

LEMMA CreateDialogKeeps ==
    ASSUME DialogsInv, NEW t \in Templates, CreateDialogParamW(t)
    PROVE  DialogsInv'
<1>1. /\ frame # 0 /\ nextHwnd <= MaxDialogWindows /\ frame' = frame
      /\ nextHwnd' = nextHwnd + 1 /\ wg_retire_inner_page(nextHwnd)
      /\ s_inner_page' = nextHwnd /\ strays' = strays
      /\ wg_parse_dialog(AfterRetire(nextHwnd), nextHwnd, t)
  BY DEF CreateDialogParamW
<1>2. /\ nextHwnd \in Nat \ {0} /\ nextHwnd' \in 1 .. MaxDialogWindows + 1
      /\ standing' \subseteq 1 .. nextHwnd' - 1 /\ nextHwnd \in standing'
      /\ frame' \in 0 .. MaxDialogWindows /\ s_inner_page' \in 0 .. MaxDialogWindows
      /\ s_inner_page' < nextHwnd'
      /\ strays = {} => \A w \in standing' : w > frame' => w = s_inner_page'
  BY <1>1, NewPage
<1>3. PICK ctrls : ctrls = AfterRetire(nextHwnd)  OBVIOUS
<1>4. /\ ctrls \in Seq(Ctrl) /\ Len(ctrls) <= MaxControls
      /\ heldHandles' \subseteq Held /\ Stand(heldHandles', ctrls)
      /\ strays = {} => \A k \in 1 .. Len(ctrls) : ctrls[k].hwnd \in standing'
  BY <1>1, <1>2, <1>3, Retired
<1>5. /\ s_ctrls' = Parsed(ctrls, nextHwnd, t) /\ ctrlsMade' <= MaxControlsMade
      /\ ctrlsMade' = ctrlsMade + Len(Parsed(ctrls, nextHwnd, t)) - Len(ctrls)
      /\ misparsed' = (misparsed \/ ~ AsEncoded(ctrls, t))
  BY <1>1, <1>3 DEF wg_parse_dialog
<1>6. ctrlsMade \in Nat /\ MaxControlsMade \in Nat
  BY DialogsAssumption DEF DialogsInv, DialogsTyped
<1>7. /\ AsEncoded(ctrls, t)
      /\ s_ctrls' \in Seq(Ctrl) /\ Len(ctrls) <= Len(s_ctrls') /\ Len(s_ctrls') <= MaxControls
      /\ \A k \in 1 .. Len(ctrls) : s_ctrls'[k] = ctrls[k]
      /\ \A k \in 1 .. Len(s_ctrls') : k > Len(ctrls) => s_ctrls'[k].hwnd = nextHwnd
  <2>1. AsEncoded(ctrls, t) /\ Grown(Parsed(ctrls, nextHwnd, t), ctrls, nextHwnd)
    BY <1>2, <1>4, <1>6, Parsing
  <2>2. Grown(s_ctrls', ctrls, nextHwnd)  BY <1>5, <2>1
  <2> QED BY <2>1, <2>2 DEF Grown
<1>8. ctrlsMade' \in 0 .. MaxControlsMade  BY <1>4, <1>5, <1>6, <1>7
<1>9. /\ Stand(heldHandles', s_ctrls')
      /\ strays = {} => \A k \in 1 .. Len(s_ctrls') : s_ctrls'[k].hwnd \in standing'
  <2>1. \A k \in 1 .. Len(s_ctrls') : k > Len(ctrls) => s_ctrls'[k].hwnd \in standing'
    BY <1>2, <1>7
  <2> QED BY <1>4, <1>7, <2>1, PutOn
<1>10. DialogsTyped'  BY <1>2, <1>4, <1>7, <1>8 DEF DialogsTyped
<1>11. PagesApart'  BY <1>1, <1>2, <1>9 DEF PagesApart
<1>12. TemplatesRead'  BY <1>5, <1>7 DEF DialogsInv, TemplatesRead
<1> QED BY <1>9, <1>10, <1>11, <1>12 DEF DialogsInv

LEMMA NsdCreateKeeps ==
    ASSUME DialogsInv, nsDialogsCreate
    PROVE  DialogsInv'
<1>1. /\ frame # 0 /\ nextHwnd <= MaxDialogWindows /\ frame' = frame
      /\ nextHwnd' = nextHwnd + 1 /\ wg_retire_inner_page(nextHwnd)
      /\ s_inner_page' = nextHwnd /\ strays' = strays
      /\ s_ctrls' = AfterRetire(nextHwnd) /\ ctrlsMade' = ctrlsMade /\ misparsed' = misparsed
  BY DEF nsDialogsCreate
<1>2. /\ nextHwnd \in Nat \ {0} /\ nextHwnd' \in 1 .. MaxDialogWindows + 1
      /\ standing' \subseteq 1 .. nextHwnd' - 1 /\ nextHwnd \in standing'
      /\ frame' \in 0 .. MaxDialogWindows /\ s_inner_page' \in 0 .. MaxDialogWindows
      /\ s_inner_page' < nextHwnd'
      /\ strays = {} => \A w \in standing' : w > frame' => w = s_inner_page'
  BY <1>1, NewPage
<1>3. /\ s_ctrls' \in Seq(Ctrl) /\ Len(s_ctrls') <= MaxControls
      /\ heldHandles' \subseteq Held /\ Stand(heldHandles', s_ctrls')
      /\ strays = {} => \A k \in 1 .. Len(s_ctrls') : s_ctrls'[k].hwnd \in standing'
  BY <1>1, <1>2, Retired
<1>4. DialogsTyped'  BY <1>1, <1>2, <1>3 DEF DialogsInv, DialogsTyped
<1>5. PagesApart'  BY <1>1, <1>2, <1>3 DEF PagesApart
<1> QED BY <1>1, <1>3, <1>4, <1>5 DEF DialogsInv, TemplatesRead

LEMMA CreateControlKeeps ==
    ASSUME DialogsInv, CreateControl
    PROVE  DialogsInv'
<1> DEFINE c == [hwnd |-> s_inner_page, id |-> 9, number |-> ctrlsMade + 1]
           g == [index |-> Len(s_ctrls) + 1, number |-> ctrlsMade + 1, fresh |-> TRUE]
<1>1. /\ s_inner_page \in standing /\ ctrlsMade < MaxControlsMade
      /\ Len(s_ctrls) < MaxControls
      /\ s_ctrls' = Append(s_ctrls, c) /\ ctrlsMade' = ctrlsMade + 1
      /\ heldHandles' = heldHandles \cup {g}
      /\ standing' = standing /\ nextHwnd' = nextHwnd /\ frame' = frame
      /\ s_inner_page' = s_inner_page /\ misparsed' = misparsed /\ strays' = strays
  BY DEF CreateControl
<1>2. /\ s_ctrls \in Seq(Ctrl) /\ ctrlsMade \in Nat /\ MaxControls \in Nat /\ MaxControlsMade \in Nat
      /\ s_inner_page \in Nat /\ heldHandles \subseteq Held /\ Stand(heldHandles, s_ctrls)
  BY DialogsAssumption DEF DialogsInv, DialogsTyped
<1>3. c \in Ctrl /\ c.hwnd = s_inner_page /\ c.number = ctrlsMade + 1  BY <1>2 DEF Ctrl
<1>4. /\ g \in Held /\ g.index = Len(s_ctrls) + 1 /\ g.number = ctrlsMade + 1
  BY <1>2 DEF Held
<1> HIDE DEF c, g
<1>5. PICK l \in Nat : l = Len(s_ctrls)  BY <1>2
<1>6. /\ s_ctrls' \in Seq(Ctrl) /\ Len(s_ctrls') = l + 1 /\ s_ctrls'[l + 1] = c
      /\ \A k \in 1 .. l : s_ctrls'[k] = s_ctrls[k]
  BY <1>1, <1>2, <1>3, <1>5
<1>7. Stand(heldHandles', s_ctrls')
  <2>1. Stand(heldHandles, s_ctrls')  BY <1>2, <1>5, <1>6, StandGrows
  <2>2. g.index <= Len(s_ctrls') /\ s_ctrls'[g.index].number = g.number
    BY <1>3, <1>4, <1>5, <1>6
  <2> QED BY <1>1, <2>1, <2>2 DEF Stand
<1>8. DialogsTyped'
  <2>1. Len(s_ctrls') <= MaxControls /\ ctrlsMade' \in 0 .. MaxControlsMade
    BY <1>1, <1>2, <1>5, <1>6
  <2> QED BY <1>1, <1>2, <1>4, <1>6, <2>1 DEF DialogsInv, DialogsTyped
<1>9. PagesApart'
  <2>1. ASSUME strays = {}, NEW k \in 1 .. Len(s_ctrls') PROVE s_ctrls'[k].hwnd \in standing'
    <3>1. CASE k \in 1 .. l  BY <1>1, <1>5, <1>6, <2>1, <3>1 DEF DialogsInv, PagesApart
    <3>2. CASE k = l + 1  BY <1>1, <1>3, <1>6, <3>2
    <3> QED BY <1>6, <3>1, <3>2
  <2> QED BY <1>1, <2>1 DEF DialogsInv, PagesApart
<1> QED BY <1>1, <1>7, <1>8, <1>9 DEF DialogsInv, TemplatesRead

LEMMA GetDlgItemKeeps ==
    ASSUME DialogsInv, NEW hwnd, NEW id, GetDlgItem(hwnd, id)
    PROVE  DialogsInv'
<1>1. PICK k \in wg_find_ctrl(hwnd, id) :
         /\ heldHandles' = heldHandles \cup {[index |-> k, number |-> s_ctrls[k].number, fresh |-> TRUE]}
         /\ s_ctrls' = s_ctrls /\ ctrlsMade' = ctrlsMade /\ standing' = standing
         /\ nextHwnd' = nextHwnd /\ frame' = frame /\ s_inner_page' = s_inner_page
         /\ misparsed' = misparsed /\ strays' = strays
  BY DEF GetDlgItem
<1> DEFINE g == [index |-> k, number |-> s_ctrls[k].number, fresh |-> TRUE]
<1>2. k \in 1 .. Len(s_ctrls) /\ s_ctrls \in Seq(Ctrl)
  BY <1>1 DEF wg_find_ctrl, DialogsInv, DialogsTyped
<1>3. s_ctrls[k].number \in Nat /\ k \in Nat \ {0} /\ k <= Len(s_ctrls)
  <2>1. s_ctrls[k] \in Ctrl  BY <1>2
  <2>2. s_ctrls[k].number \in Nat  BY <2>1 DEF Ctrl
  <2>3. Len(s_ctrls) \in Nat  BY <1>2
  <2> QED BY <1>2, <2>2, <2>3
<1>4. g \in Held /\ g.index = k /\ g.number = s_ctrls[k].number  BY <1>3 DEF Held
<1> HIDE DEF g
<1>5. heldHandles' = heldHandles \cup {g}  BY <1>1 DEF g
<1>6. Stand(heldHandles', s_ctrls')  BY <1>1, <1>3, <1>4, <1>5 DEF Stand, DialogsInv
<1>7. DialogsTyped'  BY <1>1, <1>4, <1>5 DEF DialogsInv, DialogsTyped
<1> QED BY <1>1, <1>6, <1>7 DEF DialogsInv, PagesApart, TemplatesRead

LEMMA DestroyWindowKeeps ==
    ASSUME DialogsInv, NEW hwnd, DestroyWindow(hwnd)
    PROVE  DialogsInv'
<1>1. /\ standing' = standing \ {hwnd}
      /\ heldHandles' = Stale(heldHandles, s_ctrls, hwnd)
      /\ s_ctrls' = wg_remove_ctrls(s_ctrls, hwnd)
      /\ ctrlsMade' = ctrlsMade /\ nextHwnd' = nextHwnd /\ frame' = frame
      /\ s_inner_page' = s_inner_page /\ misparsed' = misparsed /\ strays' = strays
  BY DEF DestroyWindow
<1>2. /\ s_ctrls \in Seq(Ctrl) /\ Len(s_ctrls) <= MaxControls /\ heldHandles \subseteq Held
      /\ MaxControls \in Nat /\ Stand(heldHandles, s_ctrls)
  BY DialogsAssumption DEF DialogsInv, DialogsTyped
<1>3. /\ s_ctrls' \in Seq(Ctrl) /\ Len(s_ctrls') <= Len(s_ctrls)
      /\ \A j \in 1 .. Len(s_ctrls') : s_ctrls'[j].hwnd # hwnd
             /\ \E i \in 1 .. Len(s_ctrls) : s_ctrls'[j] = s_ctrls[i]
  BY <1>1, <1>2, Removed
<1>4. heldHandles' \subseteq Held /\ Stand(heldHandles', s_ctrls')  BY <1>1, <1>2, StaleStand
<1>5. DialogsTyped'
  <2>1. Len(s_ctrls') <= MaxControls  BY <1>2, <1>3
  <2>2. standing' \subseteq 1 .. nextHwnd' - 1  BY <1>1 DEF DialogsInv, DialogsTyped
  <2> QED BY <1>1, <1>3, <1>4, <2>1, <2>2 DEF DialogsInv, DialogsTyped
<1>6. PagesApart'
  <2>1. ASSUME strays = {}, NEW k \in 1 .. Len(s_ctrls') PROVE s_ctrls'[k].hwnd \in standing'
    <3>1. PICK i \in 1 .. Len(s_ctrls) : s_ctrls'[k] = s_ctrls[i]  BY <1>3
    <3>2. s_ctrls[i].hwnd \in standing  BY <2>1 DEF DialogsInv, PagesApart
    <3> QED BY <1>1, <1>3, <3>1, <3>2
  <2> QED BY <1>1, <2>1 DEF DialogsInv, PagesApart
<1> QED BY <1>1, <1>4, <1>5, <1>6 DEF DialogsInv, TemplatesRead

LEMMA DialogsStep ==
    ASSUME DialogsInv, [DialogsNext]_dialogVars
    PROVE  DialogsInv'
<1>1. CASE UNCHANGED dialogVars
  BY <1>1 DEF dialogVars, DialogsInv, DialogsTyped, PagesApart, TemplatesRead
<1>2. CASE EndDialog
  <2>1. /\ s_ctrls' = s_ctrls /\ ctrlsMade' = ctrlsMade /\ standing' = standing
        /\ nextHwnd' = nextHwnd /\ frame' = 0 /\ s_inner_page' = s_inner_page
        /\ heldHandles' = heldHandles /\ misparsed' = misparsed /\ strays' = strays
    BY <1>2 DEF EndDialog
  <2>2. DialogsTyped'  BY <2>1, DialogsAssumption DEF DialogsInv, DialogsTyped
  <2> QED BY <2>1, <2>2 DEF DialogsInv, PagesApart, TemplatesRead
<1>3. CASE LoadForgets
  <2>1. /\ strays' = IF s_inner_page # 0 THEN strays \cup {"inner page of another program"}
                     ELSE strays
        /\ s_ctrls' = <<>> /\ ctrlsMade' = 0 /\ standing' = {} /\ nextHwnd' = 1
        /\ frame' = 0 /\ heldHandles' = {} /\ s_inner_page' = s_inner_page
        /\ misparsed' = misparsed
    BY <1>3 DEF LoadForgets
  <2>0. <<>> \in Seq(Ctrl) /\ Len(<<>>) = 0  OBVIOUS
  <2>2. s_ctrls' \in Seq(Ctrl) /\ Len(s_ctrls') = 0  BY <2>0, <2>1
  <2>3. DialogsTyped'
    <3>1. MaxControls \in Nat /\ MaxDialogWindows \in Nat /\ MaxControlsMade \in Nat
      BY DialogsAssumption
    <3>2. s_inner_page' \in 0 .. MaxDialogWindows  BY <2>1 DEF DialogsInv, DialogsTyped
    <3>4. /\ standing' = {} /\ heldHandles' = {} /\ ctrlsMade' = 0 /\ nextHwnd' = 1
          /\ frame' = 0
      BY <2>1
    <3>5. Len(s_ctrls') = 0  BY <2>2
    <3>3. /\ Len(s_ctrls') <= MaxControls /\ ctrlsMade' \in 0 .. MaxControlsMade
          /\ nextHwnd' \in 1 .. MaxDialogWindows + 1 /\ frame' \in 0 .. MaxDialogWindows
      BY <3>1, <3>4, <3>5
    <3> QED BY <2>2, <3>2, <3>3, <3>4 DEF DialogsTyped
  <2>4. PagesApart'
    <3>1. strays' = {} => s_inner_page' = 0  BY <2>1
    <3>2. standing' = {} /\ nextHwnd' = 1  BY <2>1
    <3>3. Len(s_ctrls') = 0  BY <2>2
    <3>4. \A k \in 1 .. Len(s_ctrls') : FALSE  BY <3>3
    <3> QED BY <3>1, <3>2, <3>4 DEF PagesApart
  <2>5. Stand(heldHandles', s_ctrls')  BY <2>1 DEF Stand
  <2> QED BY <2>1, <2>3, <2>4, <2>5 DEF DialogsInv, TemplatesRead
<1> QED BY <1>1, <1>2, <1>3, DialogBoxKeeps, CreateDialogKeeps, NsdCreateKeeps,
           CreateControlKeeps, GetDlgItemKeeps, DestroyWindowKeeps DEF DialogsNext

LEMMA DialogsStart ==
    DialogsInit => DialogsInv
<1> SUFFICES ASSUME DialogsInit PROVE DialogsInv  OBVIOUS
<1>1. s_ctrls \in Seq(Ctrl) /\ Len(s_ctrls) = 0  BY DEF DialogsInit
<1> QED BY <1>1, DialogsAssumption
        DEF DialogsInit, DialogsInv, DialogsTyped, PagesApart, TemplatesRead, Stand

LEMMA DialogsInvariant ==
    DialogsSpec => []DialogsInv
<1>1. DialogsInv /\ [DialogsNext]_dialogVars => DialogsInv'  BY DialogsStep
<1> QED BY <1>1, DialogsStart, PTL DEF DialogsSpec

\* The table of controls, the windows and the inner page stay within their bounds.
THEOREM DialogsWellTyped ==
    DialogsSpec => []DialogsTypeOK
<1>1. DialogsInv => DialogsTypeOK  BY DEF DialogsInv, DialogsTyped, DialogsTypeOK
<1> QED BY <1>1, DialogsInvariant, PTL

\* wg_parse_dialog finds every item of every template; a handle means the control it was
\* given for until one before it is removed; only the frame and the last inner page
\* stand, and no control outlives its window.
THEOREM HandlesAndPagesRight ==
    DialogsSpec => []DialogsRight
<1>1. DialogsInv => HandlesStand  BY DEF DialogsInv, Stand, HandlesStand
<1>2. DialogsInv => PageAlone  BY DEF DialogsInv, PagesApart, PageAlone
<1>3. DialogsInv => DialogsRight  BY <1>1, <1>2 DEF DialogsInv, DialogsRight
<1> QED BY <1>3, DialogsInvariant, PTL

-----------------------------------------------------------------------------
(* Files: what the writes that stdio keeps come to.                        *)

FileByte == FileBytes \cup {0, 2}
Content  == Seq(FileByte)
Kept     == Seq(Nat \X FileByte)

LEMMA OverContent ==
    ASSUME NEW bytes \in Content, NEW at \in Nat, NEW b \in FileByte
    PROVE  Over(bytes, at, b) \in Content
<1>1. PICK n \in Nat : n = IF at >= Len(bytes) THEN at + 1 ELSE Len(bytes)
  BY DEF Content
<1>2. Over(bytes, at, b) =
         [k \in 1 .. n |-> IF k = at + 1 THEN b ELSE IF k <= Len(bytes) THEN bytes[k] ELSE 0]
  BY <1>1 DEF Over
<1>3. ASSUME NEW k \in 1 .. n
      PROVE  (IF k = at + 1 THEN b ELSE IF k <= Len(bytes) THEN bytes[k] ELSE 0) \in FileByte
  BY DEF Content, FileByte
<1> QED BY <1>2, <1>3 DEF Content

\* f[n] is the content once the first n of the writes have reached it.
IsFlushed(f, bytes, writes, append) ==
    f = [n \in 0 .. Len(writes) |->
            IF n = 0 THEN bytes
            ELSE Over(f[n - 1], IF append THEN Len(f[n - 1]) ELSE writes[n][1], writes[n][2])]

LEMMA FlushedExists ==
    ASSUME NEW bytes \in Content, NEW writes \in Kept, NEW append \in BOOLEAN
    PROVE  \E f : f \in [0 .. Len(writes) -> Content] /\ IsFlushed(f, bytes, writes, append)
<1> DEFINE N == Len(writes)
           one(c, n) == Over(c, IF append THEN Len(c) ELSE writes[n][1], writes[n][2])
           h == [p \in Content \X (1 .. N) |-> one(p[1], p[2])]
<1>1. ASSUME NEW c \in Content, NEW n \in 1 .. N
      PROVE  one(c, n) \in Content
  <2>1. writes[n][1] \in Nat /\ writes[n][2] \in FileByte /\ Len(c) \in Nat
    BY DEF Kept, Content
  <2> QED BY <2>1, OverContent
<1> HIDE DEF one
<1>2. h \in [Content \X (1 .. N) -> Content]  BY <1>1
<1>3. \A c \in Content : \A n \in 1 .. N : h[<<c, n>>] = one(c, n)
  OBVIOUS
<1>4. N \in Nat  BY DEF Kept
<1> HIDE DEF h
<1>5. PICK g : Iterates(g, Content, bytes, N, h)
  <2>1. PICK n : n = N  OBVIOUS
  <2>2. n \in Nat /\ h \in [Content \X (1 .. n) -> Content]  BY <1>2, <1>4, <2>1
  <2> HIDE DEF N
  <2>3. \E g : Iterates(g, Content, bytes, n, h)  BY <2>2, Iteration
  <2> QED BY <2>1, <2>3
<1>6. g \in [0 .. N -> Content]  BY <1>5 DEF Iterates
<1>7. \A f : f = [i \in 0 .. N |-> IF i = 0 THEN bytes ELSE h[<<f[i - 1], i>>]] =>
         \A i \in 0 .. N : f[i] = IF i = 0 THEN bytes ELSE h[<<f[i - 1], i>>]
  OBVIOUS
<1>8. \A i \in 0 .. N : g[i] = IF i = 0 THEN bytes ELSE h[<<g[i - 1], i>>]
  BY <1>5, <1>7 DEF Iterates
<1>9. ASSUME NEW i \in 0 .. N
      PROVE  g[i] = IF i = 0 THEN bytes ELSE one(g[i - 1], i)
  <2>1. CASE i = 0  BY <1>8, <2>1
  <2>2. CASE i # 0
    <3>1. i - 1 \in 0 .. N /\ i \in 1 .. N  BY <1>4, <2>2
    <3>2. g[i - 1] \in Content  BY <1>6, <3>1
    <3> QED BY <1>3, <1>8, <2>2, <3>1, <3>2
  <2> QED BY <2>1, <2>2
<1>10. g = [i \in 0 .. N |->
               IF i = 0 THEN bytes ELSE one(g[i - 1], i)]
  BY <1>6, <1>9
<1> QED BY <1>6, <1>10 DEF IsFlushed, one

\* f holds the content after each of the first m writes.
Steps(f, writes, m, append) ==
    \A n \in 1 .. m :
        f[n] = Over(f[n - 1], IF append THEN Len(f[n - 1]) ELSE writes[n][1], writes[n][2])

Stages(f, bytes, writes, append) == f[0] = bytes /\ Steps(f, writes, Len(writes), append)

LEMMA StagesFlushed ==
    ASSUME NEW bytes \in Content, NEW writes \in Kept, NEW append \in BOOLEAN
    PROVE  \E f : /\ Stages(f, bytes, writes, append)
                  /\ Flushed(bytes, writes, append) = f[Len(writes)]
<1> DEFINE P == CHOOSE f : IsFlushed(f, bytes, writes, append)
           one(c, n) == Over(c, IF append THEN Len(c) ELSE writes[n][1], writes[n][2])
<1>1. Flushed(bytes, writes, append) = P[Len(writes)]  BY DEF Flushed, IsFlushed
<1>2. IsFlushed(P, bytes, writes, append)  BY FlushedExists
<1> HIDE DEF P
<1>3. Len(writes) \in Nat  BY DEF Kept
<1>4. \A f : IsFlushed(f, bytes, writes, append) =>
        \A n \in 0 .. Len(writes) : f[n] = IF n = 0 THEN bytes ELSE one(f[n - 1], n)
  BY DEF IsFlushed
<1> HIDE DEF one
<1>5. \A n \in 0 .. Len(writes) : P[n] = IF n = 0 THEN bytes ELSE one(P[n - 1], n)
  BY <1>2, <1>4
<1>6. P[0] = bytes /\ \A n \in 1 .. Len(writes) : P[n] = one(P[n - 1], n)  BY <1>3, <1>5
<1>7. Stages(P, bytes, writes, append)  BY <1>6 DEF Stages, Steps, one
<1> QED BY <1>1, <1>7

\* They are all there is.
LEMMA StagesAgree ==
    ASSUME NEW writes, NEW append, NEW f, NEW g, NEW m \in Nat,
           f[0] = g[0], Steps(f, writes, m, append), Steps(g, writes, m, append)
    PROVE  f[m] = g[m]
<1> DEFINE B == {n \in 0 .. m : f[n] = g[n]}
<1>1. m \in Nat  OBVIOUS
<1>2. 0 \in B  BY <1>1
<1>3. ASSUME NEW n \in 1 .. m, n - 1 \in B PROVE n \in B
  <2>1. f[n - 1] = g[n - 1]  BY <1>3
  <2> QED BY <1>1, <2>1 DEF Steps
<1> HIDE DEF B
<1>4. \A n \in 0 .. m : n \in B  BY <1>1, <1>2, <1>3, AllUpTo
<1> QED BY <1>1, <1>4 DEF B

LEMMA FlushedContent ==
    ASSUME NEW bytes \in Content, NEW writes \in Kept, NEW append \in BOOLEAN
    PROVE  Flushed(bytes, writes, append) \in Content
<1>1. PICK f : /\ Stages(f, bytes, writes, append)
               /\ Flushed(bytes, writes, append) = f[Len(writes)]
  BY StagesFlushed
<1> DEFINE B == {n \in 0 .. Len(writes) : f[n] \in Content}
<1>2. Len(writes) \in Nat  BY DEF Kept
<1>3. 0 \in B  BY <1>1, <1>2 DEF Stages
<1>4. ASSUME NEW n \in 1 .. Len(writes), n - 1 \in B PROVE n \in B
  <2>1. writes[n][1] \in Nat /\ writes[n][2] \in FileByte  BY DEF Kept
  <2>2. f[n - 1] \in Content  BY <1>4
  <2>3. f[n] = Over(f[n - 1], IF append THEN Len(f[n - 1]) ELSE writes[n][1], writes[n][2])
    BY <1>1 DEF Stages, Steps
  <2>4. Len(f[n - 1]) \in Nat  BY <2>2 DEF Content
  <2>5. PICK at \in Nat : at = IF append THEN Len(f[n - 1]) ELSE writes[n][1]  BY <2>1, <2>4
  <2>6. f[n] = Over(f[n - 1], at, writes[n][2])  BY <2>3, <2>5
  <2> QED BY <2>1, <2>2, <2>6, OverContent
<1> HIDE DEF B
<1>5. \A n \in 0 .. Len(writes) : n \in B  BY <1>2, <1>3, <1>4, AllUpTo
<1>6. Len(writes) \in B  BY <1>2, <1>5
<1>7. f[Len(writes)] \in Content  BY <1>6 DEF B
<1> QED BY <1>1, <1>7

LEMMA FlushedNone ==
    ASSUME NEW bytes \in Content
    PROVE  Flushed(bytes, <<>>, FALSE) = bytes
<1>1. <<>> \in Kept /\ Len(<<>>) = 0  BY DEF Kept
<1>2. PICK f : Stages(f, bytes, <<>>, FALSE) /\ Flushed(bytes, <<>>, FALSE) = f[Len(<<>>)]
  BY <1>1, StagesFlushed
<1> QED BY <1>1, <1>2 DEF Stages

\* The write that comes last is the last to reach the file.
LEMMA FlushedMore ==
    ASSUME NEW bytes \in Content, NEW writes \in Kept, NEW at \in Nat, NEW b \in FileByte
    PROVE  /\ Append(writes, <<at, b>>) \in Kept
           /\ Flushed(bytes, Append(writes, <<at, b>>), FALSE)
                = Over(Flushed(bytes, writes, FALSE), at, b)
<1> DEFINE more == Append(writes, <<at, b>>)
<1>1. PICK m \in Nat : m = Len(writes)  BY DEF Kept
<1>2. /\ more \in Kept /\ Len(more) = m + 1 /\ more[m + 1] = <<at, b>>
      /\ \A n \in 1 .. m : more[n] = writes[n]
  BY <1>1 DEF Kept
<1> HIDE DEF more
<1>3. PICK f : Stages(f, bytes, writes, FALSE) /\ Flushed(bytes, writes, FALSE) = f[m]
  BY <1>1, StagesFlushed
<1>4. PICK g : Stages(g, bytes, more, FALSE) /\ Flushed(bytes, more, FALSE) = g[m + 1]
  BY <1>2, StagesFlushed
<1>5. f[0] = g[0]  BY <1>3, <1>4 DEF Stages
<1>6. Steps(f, writes, m, FALSE)  BY <1>1, <1>3 DEF Stages
<1>7. Steps(g, writes, m, FALSE)  BY <1>2, <1>4 DEF Stages, Steps
<1>8. PICK append : append = FALSE  OBVIOUS
<1>9. f[m] = g[m]
  <2>1. Steps(f, writes, m, append) /\ Steps(g, writes, m, append)  BY <1>6, <1>7, <1>8
  <2> QED BY <1>1, <1>5, <2>1, StagesAgree
<1>10. g[m + 1] = Over(g[m], at, b)
  <2>1. m + 1 \in 1 .. Len(more) /\ (m + 1) - 1 = m  BY <1>2
  <2>2. g[m + 1] = Over(g[(m + 1) - 1], more[m + 1][1], more[m + 1][2])
    BY <1>4, <2>1 DEF Stages, Steps
  <2> QED BY <1>2, <2>1, <2>2
<1>11. more \in Kept /\ Flushed(bytes, more, FALSE) = Over(Flushed(bytes, writes, FALSE), at, b)
  BY <1>2, <1>3, <1>4, <1>9, <1>10
<1> QED BY <1>11 DEF more

-----------------------------------------------------------------------------
(* Files: the invariant.                                                   *)

\* No path that Windows has begins with the mark of the prefix, and under a current
\* directory that has it the code makes such paths.
Unmarked(p) == p = <<>> \/ p[1] # "?"

EntryFields == {"in_use", "handle", "path", "pos", "append", "reads", "writes", "kept", "gone",
                "left", "means", "due"}

IsEntry(f) == f = [x \in EntryFields |-> f[x]] /\ f.in_use = TRUE

\* An entry is open under the path that is meant, or under one of nobody's.
NameRight(f, o) ==
    /\ Unmarked(f.means)
    /\ f.path = f.means \/ (~ Unmarked(f.path) /\ f.means \in o)

\* The stream f on disk d holds what the guest's file has on w.
OpenRight(f, d, w) ==
    /\ f.path = f.means /\ f.means \in DOMAIN w
    /\ f.gone = FALSE /\ f.append = FALSE /\ f.reads = TRUE
    /\ f.pos \in Nat /\ f.due = f.pos /\ f.kept \in Kept
    /\ Flushed(d[f.means], f.kept, FALSE) = w[f.means]

OpenOn(e, m) == e.in_use /\ e.means = m

\* The file m is on both disks, at most one stream is open on it, and together with
\* what that keeps the contents are the same.
PathRight(m, fs, d, w) ==
    /\ m \in DOMAIN d <=> m \in DOMAIN w
    /\ m \in DOMAIN w => d[m] \in Content /\ w[m] \in Content
    /\ \A i, j \in FileSlots : OpenOn(fs[i], m) /\ OpenOn(fs[j], m) => i = j
    /\ \A i \in FileSlots : OpenOn(fs[i], m) => OpenRight(fs[i], d, w)
    /\ (\A i \in FileSlots : ~ OpenOn(fs[i], m)) /\ m \in DOMAIN w => d[m] = w[m]

EntriesRight(fs, o) ==
    /\ fs = [i \in FileSlots |-> fs[i]]
    /\ \A i \in FileSlots : fs[i] = NoEntry \/ (IsEntry(fs[i]) /\ NameRight(fs[i], o))

CwdRight(c, o) ==
    /\ c \in Folders \cup {NoCwd}
    /\ c.long => \A s \in Spellings : c.names \o s.names \in o

FilesInv ==
    /\ EntriesRight(files, odd)
    /\ CwdRight(cwd, odd)
    /\ \A m \in DOMAIN meant : Unmarked(m) /\ m \notin odd
    /\ \A m : Unmarked(m) /\ m \notin odd => PathRight(m, files, disk, meant)
    /\ ~ misread

LEMMA InUse ==
    ASSUME EntriesRight(files, odd), NEW i \in FileSlots, files[i].in_use
    PROVE  IsEntry(files[i]) /\ NameRight(files[i], odd)
  BY DEF EntriesRight, NoEntry

-----------------------------------------------------------------------------
(* Files: what a step leaves of the others.                                *)

\* The file q is the same on f and g.
Same(f, g, q) == (q \in DOMAIN g <=> q \in DOMAIN f) /\ (q \in DOMAIN f => g[q] = f[q])

LEMMA PutThere ==
    ASSUME NEW d, NEW p, NEW c, NEW g, g = Put(d, p, c)
    PROVE  p \in DOMAIN g /\ g[p] = c
  BY DEF Put

LEMMA PutDomain ==
    ASSUME NEW d, NEW p, NEW c
    PROVE  DOMAIN Put(d, p, c) = DOMAIN d \cup {p}
  BY DEF Put

LEMMA PutSame ==
    ASSUME NEW d, NEW p, NEW c, NEW q, q # p
    PROVE  Same(d, Put(d, p, c), q)
  BY DEF Put, Same

LEMMA WithoutDomain ==
    ASSUME NEW d, NEW ps, NEW g, g = Without(d, ps)
    PROVE  \A q : q \in DOMAIN g <=> q \in DOMAIN d /\ q \notin ps
  BY DEF Without

LEMMA WithoutSame ==
    ASSUME NEW d, NEW ps, NEW q, q \notin ps
    PROVE  Same(d, Without(d, ps), q)
  BY DEF Without, Same

LEMMA SameThrough ==
    ASSUME NEW f, NEW g, NEW h, NEW q, Same(f, g, q), Same(g, h, q)
    PROVE  Same(f, h, q)
  BY DEF Same

LEMMA FileUntouched ==
    ASSUME NEW m, NEW fs, NEW d, NEW w, NEW fs2, NEW d2, NEW w2,
           PathRight(m, fs, d, w), Same(d, d2, m), Same(w, w2, m),
           \A i \in FileSlots : fs2[i] = fs[i] \/ (~ OpenOn(fs[i], m) /\ ~ OpenOn(fs2[i], m))
    PROVE  PathRight(m, fs2, d2, w2)
<1>1. \A i \in FileSlots : OpenOn(fs2[i], m) <=> OpenOn(fs[i], m)  OBVIOUS
<1>2. \A i \in FileSlots : OpenOn(fs[i], m) => fs2[i] = fs[i]  OBVIOUS
<1>3. /\ m \in DOMAIN d2 <=> m \in DOMAIN w2
      /\ m \in DOMAIN w2 => d2[m] \in Content /\ w2[m] \in Content
  BY DEF PathRight, Same
<1>4. \A i, j \in FileSlots : OpenOn(fs2[i], m) /\ OpenOn(fs2[j], m) => i = j
  BY <1>1 DEF PathRight
<1>5. ASSUME NEW i \in FileSlots, OpenOn(fs2[i], m) PROVE OpenRight(fs2[i], d2, w2)
  <2>1. OpenOn(fs[i], m) /\ fs2[i] = fs[i]  BY <1>1, <1>2, <1>5
  <2>2. OpenRight(fs[i], d, w) /\ fs[i].means = m  BY <2>1 DEF PathRight, OpenOn
  <2>3. m \in DOMAIN d /\ m \in DOMAIN w  BY <2>2 DEF OpenRight, PathRight
  <2>4. d2[m] = d[m] /\ w2[m] = w[m] /\ m \in DOMAIN w2  BY <2>3 DEF Same
  <2> QED BY <2>1, <2>2, <2>4 DEF OpenRight
<1>6. (\A i \in FileSlots : ~ OpenOn(fs2[i], m)) /\ m \in DOMAIN w2 => d2[m] = w2[m]
  BY <1>1 DEF PathRight, Same
<1> QED BY <1>3, <1>4, <1>5, <1>6 DEF PathRight

\* The steps that change what one slot holds.
LEMMA FileSlotStep ==
    ASSUME FilesInv, NEW i \in FileSlots, files[i].in_use, NEW e,
           e = NoEntry \/ (/\ IsEntry(e) /\ e.path = files[i].path
                           /\ e.means = files[i].means),
           files' = [files EXCEPT ![i] = e],
           UNCHANGED <<cwd, odd>>,
           \A m : Unmarked(m) /\ m \notin odd /\ m # files[i].means =>
                      Same(disk, disk', m) /\ Same(meant, meant', m),
           files[i].means \notin odd => PathRight(files[i].means, files', disk', meant'),
           \A m \in DOMAIN meant' : Unmarked(m) /\ m \notin odd,
           ~ misread'
    PROVE  FilesInv'
<1>1. /\ EntriesRight(files, odd) /\ IsEntry(files[i]) /\ NameRight(files[i], odd)
      /\ files = [k \in FileSlots |-> files[k]]
  BY InUse DEF FilesInv, EntriesRight
<1>2. /\ files' = [k \in FileSlots |-> files'[k]]
      /\ files'[i] = e /\ \A k \in FileSlots : k # i => files'[k] = files[k]
  BY <1>1
<1>3. e = NoEntry \/ (IsEntry(e) /\ NameRight(e, odd))  BY <1>1 DEF NameRight
<1>4. EntriesRight(files', odd')
  BY <1>1, <1>2, <1>3 DEF EntriesRight
<1>5. ASSUME NEW m, Unmarked(m), m \notin odd
      PROVE  PathRight(m, files', disk', meant')
  <2>1. CASE m = files[i].means  BY <1>5, <2>1
  <2>2. CASE m # files[i].means
    <3>1. ~ OpenOn(files[i], m) /\ ~ OpenOn(files'[i], m)
      BY <1>2, <2>2 DEF OpenOn, NoEntry
    <3>2. \A k \in FileSlots : files'[k] = files[k] \/ (~ OpenOn(files[k], m) /\ ~ OpenOn(files'[k], m))
      BY <1>2, <3>1
    <3>3. PathRight(m, files, disk, meant)  BY <1>5 DEF FilesInv
    <3> QED BY <1>5, <2>2, <3>2, <3>3, FileUntouched
  <2> QED BY <2>1, <2>2
<1>6. CwdRight(cwd', odd')  BY DEF FilesInv
<1> QED BY <1>4, <1>5, <1>6 DEF FilesInv

-----------------------------------------------------------------------------
(* Files: handles.                                                         *)

\* A stream on a file that something is promised about.
LEMMA Promised ==
    ASSUME FilesInv, NEW i \in FileSlots, files[i].in_use, files[i].means \notin odd
    PROVE  LET f == files[i]
               m == f.means IN
           /\ PathRight(m, files, disk, meant) /\ OpenRight(f, disk, meant)
           /\ meant[m] \in Content /\ disk[m] \in Content /\ m \in DOMAIN disk
           /\ Settled(f) = meant[m] /\ DiskFlushed(f) = Put(disk, m, meant[m])
           /\ \A k \in FileSlots : OpenOn(files[k], m) => k = i
<1> DEFINE f == files[i]
           m == f.means
<1>1. Unmarked(m)  BY InUse DEF FilesInv, NameRight
<1>2. PathRight(m, files, disk, meant)  BY <1>1 DEF FilesInv
<1>3. OpenOn(f, m)  BY DEF OpenOn
<1>4. OpenRight(f, disk, meant)  BY <1>2, <1>3 DEF PathRight
<1>5. m \in DOMAIN meant /\ m \in DOMAIN disk /\ meant[m] \in Content /\ disk[m] \in Content
  BY <1>2, <1>4 DEF OpenRight, PathRight
<1>6. f.gone = FALSE /\ f.append = FALSE /\ f.path = m  BY <1>4 DEF OpenRight
<1>7. Settled(f) = meant[m]  BY <1>4, <1>6 DEF Settled, OnDisk, OpenRight
<1>8. DiskFlushed(f) = Put(disk, m, meant[m])  BY <1>6, <1>7 DEF DiskFlushed
<1>9. \A k \in FileSlots : OpenOn(files[k], m) => k = i  BY <1>2, <1>3 DEF PathRight
<1> QED BY <1>2, <1>4, <1>5, <1>7, <1>8, <1>9

\* A flush reaches one file.
LEMMA FlushSame ==
    ASSUME FilesInv, NEW i \in FileSlots, files[i].in_use,
           NEW m, Unmarked(m), m \notin odd, m # files[i].means
    PROVE  Same(disk, DiskFlushed(files[i]), m)
<1>1. NameRight(files[i], odd)  BY InUse DEF FilesInv
<1>2. files[i].path # m  BY <1>1 DEF NameRight
<1>3. CASE files[i].gone  BY <1>3 DEF DiskFlushed, Same
<1>4. CASE ~ files[i].gone
  <2>1. DiskFlushed(files[i]) = Put(disk, files[i].path, Settled(files[i]))
    BY <1>4 DEF DiskFlushed
  <2> QED BY <1>2, <2>1, PutSame, Zenon
<1> QED BY <1>3, <1>4

\* The same stream, whatever it keeps and wherever its pointer is.
Alike(e, f) ==
    /\ IsEntry(e) /\ e.path = f.path /\ e.means = f.means /\ e.gone = f.gone
    /\ e.append = f.append /\ e.reads = f.reads

LEMMA EntryAfter ==
    ASSUME NEW f, IsEntry(f), NEW e, e = EntryFlushed(f)
    PROVE  Alike(e, f) /\ e.kept = <<>> /\ e.pos = f.pos /\ e.due = f.due
<1>1. PICK x : x = IF f.gone THEN Settled(f) ELSE f.left  OBVIOUS
<1>2. e = [f EXCEPT !.kept = <<>>, !.left = x]  BY <1>1 DEF EntryFlushed
<1>3. /\ e = [y \in EntryFields |-> e[y]]
      /\ e["kept"] = <<>> /\ \A y \in EntryFields \ {"kept", "left"} : e[y] = f[y]
  BY <1>2 DEF IsEntry, EntryFields
<1> QED BY <1>3 DEF Alike, IsEntry, EntryFields

Placed(f, p, d) == [f EXCEPT !.pos = p, !.due = d]

LEMMA Placing ==
    ASSUME NEW f, IsEntry(f), NEW p, NEW d, NEW e, e = Placed(f, p, d)
    PROVE  Alike(e, f) /\ e.kept = f.kept /\ e.pos = p /\ e.due = d
<1>1. /\ e = [y \in EntryFields |-> e[y]] /\ e["pos"] = p /\ e["due"] = d
      /\ \A y \in EntryFields \ {"pos", "due"} : e[y] = f[y]
  BY DEF IsEntry, EntryFields, Placed
<1> QED BY <1>1 DEF Alike, IsEntry, EntryFields

\* The stream after a flush, its pointer where the guest has its own.
LEMMA Flushes ==
    ASSUME FilesInv, NEW i \in FileSlots, files[i].in_use, NEW e,
           Alike(e, files[i]), e.kept = <<>>,
           files[i].means \notin odd => e.pos \in Nat /\ e.due = e.pos,
           files' = [files EXCEPT ![i] = e], disk' = DiskFlushed(files[i]),
           UNCHANGED <<cwd, meant, odd>>, ~ misread'
    PROVE  FilesInv'
<1>1. ASSUME NEW m, Unmarked(m), m \notin odd, m # files[i].means
      PROVE  Same(disk, disk', m) /\ Same(meant, meant', m)
  BY <1>1, FlushSame DEF Same
<1>2. ASSUME files[i].means \notin odd
      PROVE  PathRight(files[i].means, files', disk', meant')
  <2>1. PICK m : m = files[i].means  OBVIOUS
  <2>2. /\ OpenRight(files[i], disk, meant) /\ disk' = Put(disk, m, meant[m])
        /\ meant[m] \in Content /\ m \in DOMAIN meant
        /\ \A k \in FileSlots : OpenOn(files[k], m) => k = i
    BY <1>2, <2>1, Promised DEF OpenRight
  <2>3. m \in DOMAIN disk' /\ disk'[m] = meant[m]  BY <2>2, PutThere
  <2>4. files'[i] = e /\ \A k \in FileSlots : k # i => files'[k] = files[k]
    BY DEF FilesInv, EntriesRight
  <2>5. OpenOn(files'[i], m)  BY <2>1, <2>4 DEF OpenOn, Alike, IsEntry
  <2>6. \A k \in FileSlots : OpenOn(files'[k], m) => k = i  BY <2>2, <2>4
  <2>7. Flushed(disk'[m], <<>>, FALSE) = meant[m]  BY <2>2, <2>3, FlushedNone
  <2>8. <<>> \in Kept  BY DEF Kept
  <2>9. OpenRight(files'[i], disk', meant')
    <3>1. /\ e.path = files[i].path /\ e.means = m /\ e.gone = files[i].gone
          /\ e.append = files[i].append /\ e.reads = files[i].reads
      BY <2>1 DEF Alike
    <3>2. e.path = m /\ e.gone = FALSE /\ e.append = FALSE /\ e.reads = TRUE
      BY <2>1, <2>2, <3>1 DEF OpenRight
    <3>3. e.pos \in Nat /\ e.due = e.pos  BY <1>2
    <3>4. meant' = meant  OBVIOUS
    <3>5. Flushed(disk'[e.means], e.kept, FALSE) = meant'[e.means]  BY <2>7, <3>1, <3>4
    <3>6. e.means \in DOMAIN meant' /\ e.kept \in Kept  BY <2>2, <2>8, <3>1, <3>4
    <3> QED BY ONLY <2>4, <3>1, <3>2, <3>3, <3>5, <3>6 DEF OpenRight
  <2> QED BY <2>1, <2>2, <2>3, <2>5, <2>6, <2>9 DEF PathRight
<1>3. \A m \in DOMAIN meant' : Unmarked(m) /\ m \notin odd  BY DEF FilesInv
<1> HIDE DEF FilesInv
<1> QED BY <1>1, <1>2, <1>3, FileSlotStep DEF Alike

LEMMA AlikeThrough ==
    ASSUME NEW e, NEW g, NEW f, Alike(e, g), Alike(g, f)
    PROVE  Alike(e, f)
  BY DEF Alike

LEMMA ReadFileRight ==
    ASSUME FilesInv, NEW h, ReadFile(h)
    PROVE  FilesInv'
<1>1. PICK i \in find_file(h) :
        LET f     == files[i]
            bytes == Settled(f)
            reach == f.reads /\ f.pos < Len(bytes)
            due   == IF f.means \notin DOMAIN meant \/ f.due >= Len(meant[f.means])
                     THEN <<>> ELSE <<meant[f.means][f.due + 1]>>
        IN  /\ files' = [files EXCEPT ![i] = [EntryFlushed(f) EXCEPT
                             !.pos = IF reach THEN @ + 1 ELSE @,
                             !.due = IF due = <<>> THEN @ ELSE @ + 1]]
            /\ disk' = DiskFlushed(f)
            /\ misread' = \/ misread
                           \/ /\ f.means \notin odd
                              /\ due # IF reach THEN <<bytes[f.pos + 1]>> ELSE <<>>
            /\ UNCHANGED <<nextHandle, cwd, trees, meant, odd>>
  BY DEF ReadFile
<1>2. i \in FileSlots /\ files[i].in_use  BY DEF find_file
<1> DEFINE f     == files[i]
           bytes == Settled(f)
           reach == f.reads /\ f.pos < Len(bytes)
           due   == IF f.means \notin DOMAIN meant \/ f.due >= Len(meant[f.means])
                    THEN <<>> ELSE <<meant[f.means][f.due + 1]>>
<1>3. PICK g : g = EntryFlushed(f)  OBVIOUS
<1>4. IsEntry(f)  BY <1>2, InUse DEF FilesInv
<1>5. Alike(g, f) /\ g.kept = <<>> /\ g.pos = f.pos /\ g.due = f.due
  BY <1>3, <1>4, EntryAfter
<1>6. PICK p, d : /\ p = IF reach THEN g.pos + 1 ELSE g.pos
                  /\ d = IF due = <<>> THEN g.due ELSE g.due + 1
  OBVIOUS
<1>7. PICK e : e = Placed(g, p, d)  OBVIOUS
<1>8. Alike(e, f) /\ e.kept = <<>> /\ e.pos = p /\ e.due = d
  <2> HIDE DEF f, bytes, reach, due
  <2>1. IsEntry(g)  BY <1>5 DEF Alike
  <2>2. Alike(e, g) /\ e.kept = g.kept /\ e.pos = p /\ e.due = d  BY <1>7, <2>1, Placing
  <2> QED BY <1>5, <2>2, AlikeThrough
<1>9. /\ files' = [files EXCEPT ![i] = [g EXCEPT
                      !.pos = IF reach THEN @ + 1 ELSE @, !.due = IF due = <<>> THEN @ ELSE @ + 1]]
      /\ disk' = DiskFlushed(f) /\ UNCHANGED <<cwd, meant, odd>>
      /\ misread' = (misread \/ (/\ f.means \notin odd
                                 /\ due # IF reach THEN <<bytes[f.pos + 1]>> ELSE <<>>))
  BY <1>1, <1>3
<1>10. files' = [files EXCEPT ![i] = e]
  <2>1. e = [g EXCEPT !.pos = IF reach THEN @ + 1 ELSE @, !.due = IF due = <<>> THEN @ ELSE @ + 1]
    <3> HIDE DEF reach, due, f
    <3> QED BY <1>6, <1>7 DEF Placed
  <2> HIDE DEF reach, due, f
  <2> QED BY <1>9, <2>1
<1>11. ASSUME f.means \notin odd
       PROVE  /\ p \in Nat /\ d = p
              /\ due = IF reach THEN <<bytes[f.pos + 1]>> ELSE <<>>
  <2>1. /\ OpenRight(f, disk, meant) /\ meant[f.means] \in Content
        /\ bytes = meant[f.means]
    BY <1>2, <1>11, Promised
  <2>2. /\ f.reads /\ f.pos \in Nat /\ f.due = f.pos /\ f.means \in DOMAIN meant
        /\ Len(bytes) \in Nat
    BY <2>1 DEF OpenRight, Content
  <2> QED BY <1>5, <1>6, <2>1, <2>2
<1>12. ~ misread'  BY <1>9, <1>11 DEF FilesInv
<1>13. f.means \notin odd => e.pos \in Nat /\ e.due = e.pos  BY <1>8, <1>11
<1> HIDE DEF bytes, reach, due
<1> QED BY <1>2, <1>8, <1>9, <1>10, <1>12, <1>13, Flushes

\* A flush, and the pointer at p for stdio and at d for the guest.
LEMMA FlushesTo ==
    ASSUME FilesInv, NEW i \in FileSlots, files[i].in_use, NEW p, NEW d,
           files[i].means \notin odd => p \in Nat /\ d = p,
           files' = [files EXCEPT ![i] = Placed(EntryFlushed(files[i]), p, d)],
           disk' = DiskFlushed(files[i]),
           UNCHANGED <<cwd, meant, odd>>, ~ misread'
    PROVE  FilesInv'
<1>1. IsEntry(files[i])  BY InUse DEF FilesInv
<1>2. PICK g, e : g = EntryFlushed(files[i]) /\ e = Placed(g, p, d)  OBVIOUS
<1>3. Alike(g, files[i]) /\ g.kept = <<>>  BY <1>1, <1>2, EntryAfter
<1>4. IsEntry(g)  BY <1>3 DEF Alike
<1>5. Alike(e, g) /\ e.kept = g.kept /\ e.pos = p /\ e.due = d  BY <1>2, <1>4, Placing
<1>6. Alike(e, files[i]) /\ e.kept = <<>>  BY <1>3, <1>5, AlikeThrough
<1>7. files' = [files EXCEPT ![i] = e]  BY <1>2
<1> QED BY <1>5, <1>6, <1>7, Flushes

LEMMA SeekRight ==
    ASSUME FilesInv, NEW h, NEW distance \in Int,
           NEW method \in {"SEEK_SET", "SEEK_CUR", "SEEK_END"},
           SetFilePointer(h, distance, method)
    PROVE  FilesInv'
<1>1. PICK i \in find_file(h) :
        LET f  == files[i]
            to == Sought(f, distance, method)
        IN  /\ to <= MaxSize
            /\ files' = [files EXCEPT ![i] = [EntryFlushed(f) EXCEPT
                             !.pos = IF to < 0 THEN @ ELSE to,
                             !.due = IF to < 0 THEN @ ELSE IF f.means \in odd THEN 0 ELSE to]]
            /\ disk' = DiskFlushed(f)
            /\ UNCHANGED <<nextHandle, cwd, trees, meant, odd, misread>>
  BY DEF SetFilePointer
<1>2. i \in FileSlots /\ files[i].in_use  BY DEF find_file
<1>3. PICK f, g, to : f = files[i] /\ g = EntryFlushed(f) /\ to = Sought(f, distance, method)
  OBVIOUS
<1>4. IsEntry(f)  BY <1>2, <1>3, InUse DEF FilesInv
<1>5. Alike(g, f) /\ g.pos = f.pos /\ g.due = f.due  BY <1>3, <1>4, EntryAfter
<1>6. PICK p, d : /\ p = IF to < 0 THEN g.pos ELSE to
                  /\ d = IF to < 0 THEN g.due ELSE IF f.means \in odd THEN 0 ELSE to
  OBVIOUS
<1>7. files' = [files EXCEPT ![i] = Placed(EntryFlushed(files[i]), p, d)]
  <2>1. Placed(g, p, d) = [g EXCEPT !.pos = IF to < 0 THEN @ ELSE to,
                           !.due = IF to < 0 THEN @ ELSE IF f.means \in odd THEN 0 ELSE to]
    BY <1>6 DEF Placed
  <2> QED BY <1>1, <1>3, <2>1
<1>8. ASSUME f.means \notin odd PROVE p \in Nat /\ d = p
  <2>1. OpenRight(f, disk, meant) /\ Settled(f) \in Content
    BY <1>2, <1>3, <1>8, Promised
  <2>2. f.pos \in Nat /\ f.due = f.pos /\ Len(Settled(f)) \in Nat
    BY <2>1 DEF OpenRight, Content
  <2>3. to \in Int  BY <1>3, <2>2 DEF Sought
  <2> QED BY <1>5, <1>6, <1>8, <2>2, <2>3
<1>9. ~ misread'  BY <1>1 DEF FilesInv
<1>10. disk' = DiskFlushed(files[i]) /\ UNCHANGED <<cwd, meant, odd>>  BY <1>1
<1> QED BY <1>2, <1>3, <1>7, <1>8, <1>9, <1>10, FlushesTo

LEMMA SizeRight ==
    ASSUME FilesInv, NEW h, GetFileSize(h)
    PROVE  FilesInv'
<1>1. PICK i \in find_file(h) :
        /\ files' = [files EXCEPT ![i] = EntryFlushed(files[i])]
        /\ disk' = DiskFlushed(files[i])
        /\ UNCHANGED <<nextHandle, cwd, trees, meant, odd, misread>>
  BY DEF GetFileSize
<1>2. i \in FileSlots /\ files[i].in_use  BY DEF find_file
<1>3. IsEntry(files[i])  BY <1>2, InUse DEF FilesInv
<1>4. PICK e : e = EntryFlushed(files[i])  OBVIOUS
<1>5. Alike(e, files[i]) /\ e.kept = <<>> /\ e.pos = files[i].pos /\ e.due = files[i].due
  BY <1>3, <1>4, EntryAfter
<1>6. ASSUME files[i].means \notin odd PROVE e.pos \in Nat /\ e.due = e.pos
  <2>1. OpenRight(files[i], disk, meant)  BY <1>2, <1>6, Promised
  <2> QED BY <1>5, <2>1 DEF OpenRight
<1>7. ~ misread'  BY <1>1 DEF FilesInv
<1>8. files' = [files EXCEPT ![i] = e]  BY <1>1, <1>4
<1> QED BY <1>1, <1>2, <1>5, <1>6, <1>7, <1>8, Flushes

LEMMA CloseRight ==
    ASSUME FilesInv, NEW h, CloseHandle(h)
    PROVE  FilesInv'
<1>1. PICK i \in find_file(h) :
        /\ files' = [files EXCEPT ![i] = NoEntry]
        /\ disk' = DiskFlushed(files[i])
        /\ UNCHANGED <<nextHandle, cwd, trees, meant, odd, misread>>
  BY DEF CloseHandle
<1>2. i \in FileSlots /\ files[i].in_use  BY DEF find_file
<1>3. ASSUME NEW m, Unmarked(m), m \notin odd, m # files[i].means
      PROVE  Same(disk, disk', m) /\ Same(meant, meant', m)
  BY <1>1, <1>2, <1>3, FlushSame DEF Same
<1>4. ASSUME files[i].means \notin odd
      PROVE  PathRight(files[i].means, files', disk', meant')
  <2>1. PICK m : m = files[i].means  OBVIOUS
  <2>2. /\ OpenRight(files[i], disk, meant) /\ disk' = Put(disk, m, meant[m])
        /\ meant[m] \in Content /\ m \in DOMAIN meant
        /\ \A k \in FileSlots : OpenOn(files[k], m) => k = i
    BY <1>1, <1>2, <1>4, <2>1, Promised DEF OpenRight
  <2>3. m \in DOMAIN disk' /\ disk'[m] = meant[m]  BY <2>2, PutThere
  <2>4. files'[i] = NoEntry /\ \A k \in FileSlots : k # i => files'[k] = files[k]
    BY <1>1, <1>2 DEF FilesInv, EntriesRight
  <2>5. \A k \in FileSlots : ~ OpenOn(files'[k], m)  BY <2>2, <2>4 DEF OpenOn, NoEntry
  <2> QED BY <1>1, <2>1, <2>2, <2>3, <2>5 DEF PathRight
<1>5. \A m \in DOMAIN meant' : Unmarked(m) /\ m \notin odd  BY <1>1 DEF FilesInv
<1>6. ~ misread' /\ UNCHANGED <<cwd, odd>>  BY <1>1 DEF FilesInv
<1> HIDE DEF FilesInv
<1> QED BY <1>1, <1>2, <1>3, <1>4, <1>5, <1>6, FileSlotStep

AfterWrite(f, k, p, d) == [f EXCEPT !.kept = k, !.pos = p, !.due = d]

LEMMA Writes ==
    ASSUME NEW f, IsEntry(f), NEW k, NEW p, NEW d, NEW e, e = AfterWrite(f, k, p, d)
    PROVE  Alike(e, f) /\ e.kept = k /\ e.pos = p /\ e.due = d
<1>1. /\ e = [y \in EntryFields |-> e[y]] /\ e["kept"] = k /\ e["pos"] = p /\ e["due"] = d
      /\ \A y \in EntryFields \ {"kept", "pos", "due"} : e[y] = f[y]
  BY DEF IsEntry, EntryFields, AfterWrite
<1> QED BY <1>1 DEF Alike, IsEntry, EntryFields

LEMMA WriteRight ==
    ASSUME FilesInv, NEW h, NEW b \in FileBytes, WriteFile(h, b)
    PROVE  FilesInv'
<1>1. PICK i \in find_file(h) :
        LET f == files[i]
        IN  /\ f.writes /\ f.pos < MaxSize /\ Len(Settled(f)) < MaxSize + 1
            /\ f.append => Len(Settled(f)) < MaxSize
            /\ files' = [files EXCEPT ![i] = [f EXCEPT
                             !.kept = Append(@, <<f.pos, b>>),
                             !.pos  = IF f.append THEN Len(Settled(f)) + 1 ELSE @ + 1,
                             !.due  = IF f.means \in odd THEN 0 ELSE @ + 1]]
            /\ meant' = IF f.means \in odd THEN meant
                        ELSE Put(meant, f.means, Over(meant[f.means], f.due, b))
            /\ UNCHANGED <<nextHandle, cwd, disk, trees, odd, misread>>
  BY DEF WriteFile
<1>2. i \in FileSlots /\ files[i].in_use  BY DEF find_file
<1>3. PICK f, k, p, d : /\ f = files[i] /\ k = Append(f.kept, <<f.pos, b>>)
                        /\ p = IF f.append THEN Len(Settled(f)) + 1 ELSE f.pos + 1
                        /\ d = IF f.means \in odd THEN 0 ELSE f.due + 1
  OBVIOUS
<1>4. PICK e : e = AfterWrite(f, k, p, d)  OBVIOUS
<1>5. IsEntry(f)  BY <1>2, <1>3, InUse DEF FilesInv
<1>6. Alike(e, f) /\ e.kept = k /\ e.pos = p /\ e.due = d  BY <1>4, <1>5, Writes
<1>7. files' = [files EXCEPT ![i] = e]
  <2>1. e = [f EXCEPT !.kept = Append(@, <<f.pos, b>>),
                      !.pos  = IF f.append THEN Len(Settled(f)) + 1 ELSE @ + 1,
                      !.due  = IF f.means \in odd THEN 0 ELSE @ + 1]
    BY <1>3, <1>4 DEF AfterWrite
  <2> QED BY <1>1, <1>3, <2>1
<1>8. PICK m : m = f.means  OBVIOUS
<1>9. CASE m \in odd
  <2>1. UNCHANGED <<meant, disk, cwd, odd>> /\ ~ misread'  BY <1>1, <1>3, <1>8, <1>9 DEF FilesInv
  <2>2. \A q : Same(disk, disk', q) /\ Same(meant, meant', q)  BY <2>1 DEF Same
  <2>3. \A q \in DOMAIN meant' : Unmarked(q) /\ q \notin odd  BY <2>1 DEF FilesInv
  <2>4. IsEntry(e) /\ e.path = files[i].path /\ e.means = files[i].means
    BY <1>3, <1>6 DEF Alike
  <2> QED BY <1>2, <1>3, <1>7, <1>8, <1>9, <2>1, <2>2, <2>3, <2>4, FileSlotStep
<1>10. CASE m \notin odd
  <2>1. /\ OpenRight(f, disk, meant) /\ meant[m] \in Content /\ disk[m] \in Content
        /\ m \in DOMAIN disk /\ \A j \in FileSlots : OpenOn(files[j], m) => j = i
    BY <1>2, <1>3, <1>8, <1>10, Promised
  <2>2. /\ f.append = FALSE /\ f.pos \in Nat /\ f.due = f.pos /\ f.kept \in Kept
        /\ Flushed(disk[m], f.kept, FALSE) = meant[m]
    BY <1>8, <2>1 DEF OpenRight
  <2>3. PICK c : c = Over(meant[m], f.pos, b)  OBVIOUS
  <2>4. b \in FileByte  BY DEF FileByte
  <2>5. c \in Content  BY <2>1, <2>2, <2>3, <2>4, OverContent
  <2>6. k \in Kept /\ Flushed(disk[m], k, FALSE) = c
    <3>1. PICK bytes \in Content, writes \in Kept, at \in Nat :
              bytes = disk[m] /\ writes = f.kept /\ at = f.pos
      BY <2>1, <2>2
    <3>2. k = Append(writes, <<at, b>>)  BY <1>3, <3>1
    <3>3. k \in Kept /\ Flushed(bytes, k, FALSE) = Over(Flushed(bytes, writes, FALSE), at, b)
      BY <2>4, <3>2, FlushedMore
    <3> QED BY <2>2, <2>3, <3>1, <3>3
  <2>7. meant' = Put(meant, m, c) /\ UNCHANGED <<disk, cwd, odd>> /\ ~ misread'
    BY <1>1, <1>3, <1>8, <1>10, <2>2, <2>3 DEF FilesInv
  <2>8. m \in DOMAIN meant' /\ meant'[m] = c  BY <2>7, PutThere
  <2>9. \A q : q # m => Same(disk, disk', q) /\ Same(meant, meant', q)
    BY <2>7, PutSame DEF Same
  <2>10. files'[i] = e /\ \A j \in FileSlots : j # i => files'[j] = files[j]
    BY <1>2, <1>7 DEF FilesInv, EntriesRight
  <2>11. e.in_use = TRUE /\ e.means = m  BY <1>6, <1>8 DEF Alike, IsEntry
  <2>12. OpenRight(e, disk', meant')
    <3>1. p = f.pos + 1 /\ d = p /\ p \in Nat  BY <1>3, <1>8, <1>10, <2>2
    <3>2. e.pos \in Nat /\ e.due = e.pos /\ e.kept = k  BY <1>6, <3>1
    <3>3. /\ e.path = m /\ e.means = m /\ e.gone = FALSE /\ e.append = FALSE /\ e.reads = TRUE
      BY <1>6, <1>8, <2>1 DEF OpenRight, Alike
    <3>4. Flushed(disk'[m], k, FALSE) = meant'[m]  BY <2>6, <2>7, <2>8
    <3> QED BY <2>6, <2>8, <3>2, <3>3, <3>4 DEF OpenRight
  <2>13. PathRight(m, files', disk', meant')
    <3>1. OpenOn(files'[i], m)  BY <2>10, <2>11 DEF OpenOn
    <3>2. \A j \in FileSlots : OpenOn(files'[j], m) => j = i  BY <2>1, <2>10
    <3> QED BY <1>2, <2>1, <2>5, <2>7, <2>8, <2>10, <2>12, <3>1, <3>2 DEF PathRight
  <2>14. \A q \in DOMAIN meant' : Unmarked(q) /\ q \notin odd
    <3>1. DOMAIN meant' = DOMAIN meant \cup {m}  BY <2>7, PutDomain
    <3>2. m \in DOMAIN meant  BY <1>8, <2>1 DEF OpenRight
    <3> QED BY <3>1, <3>2 DEF FilesInv
  <2>15. IsEntry(e) /\ e.path = files[i].path /\ e.means = files[i].means
    BY <1>3, <1>6 DEF Alike
  <2> QED BY <1>2, <1>3, <1>7, <1>8, <2>7, <2>9, <2>13, <2>14, <2>15, FileSlotStep
<1> QED BY <1>9, <1>10

-----------------------------------------------------------------------------
(* Files: paths.                                                           *)

LEMMA FirstUnmarked ==
    ASSUME NEW a \in Seq(STRING), NEW b \in Seq(STRING), Unmarked(a), Unmarked(b)
    PROVE  Unmarked(a \o b)
<1>1. CASE a = <<>>  BY <1>1 DEF Unmarked
<1>2. CASE a # <<>>
  <2>1. (a \o b)[1] = a[1]  BY <1>2
  <2> QED BY <1>2, <2>1 DEF Unmarked
<1> QED BY <1>1, <1>2

LEMMA ConcatFirst ==
    ASSUME NEW S, NEW a \in Seq(S), NEW b \in Seq(S), a # <<>>
    PROVE  a \o b \in Seq(S) /\ a \o b # <<>> /\ (a \o b)[1] = a[1]
  OBVIOUS

LEMMA MarkedFirst ==
    ASSUME NEW a \in Seq(STRING), NEW b \in Seq(STRING)
    PROVE  ~ Unmarked(<<"?", "C:">> \o a \o b)
<1> DEFINE S == STRING \cup {"?", "C:"}
           w == <<"?", "C:">>
<1>1. /\ a \in Seq(S) /\ b \in Seq(S) /\ w \in Seq(S)
  <2>1. \A c \in Seq(STRING) : c \in Seq(S)  BY DEF S
  <2>2. "?" \in S /\ "C:" \in S  OBVIOUS
  <2> HIDE DEF S
  <2> QED BY <2>1, <2>2
<1>2. w # <<>> /\ w[1] = "?"  OBVIOUS
<1> HIDE DEF S, w
<1>3. w \o a \in Seq(S) /\ w \o a # <<>> /\ (w \o a)[1] = "?"  BY <1>1, <1>2, ConcatFirst
<1>4. (w \o a) \o b # <<>> /\ ((w \o a) \o b)[1] = "?"  BY <1>1, <1>3, ConcatFirst
<1> QED BY <1>4 DEF Unmarked, w

\* A spelling leads to the path it means, or to one with the mark, under a current
\* directory that has the prefix.
LEMMA Mapped ==
    ASSUME FilesInv, NEW s \in Spellings
    PROVE  LET p == wg_files_map_path(s)
               m == MeantPath(s) IN
           Unmarked(m) /\ (p = m \/ (~ Unmarked(p) /\ m \in odd))
<1>1. s.names \in Seq(STRING) /\ Unmarked(s.names)  BY FilesAssumption DEF Unmarked
<1>2. cwd.names \in Seq(STRING) /\ Unmarked(cwd.names) /\ cwd.long \in BOOLEAN
  <2>1. CASE cwd = NoCwd  BY <2>1 DEF NoCwd, Unmarked
  <2>2. CASE cwd \in Folders  BY <2>2, FilesAssumption DEF Unmarked
  <2> QED BY <2>1, <2>2 DEF FilesInv, CwdRight
<1>3. CASE ExeSpelling(s)
  <2>1. wg_files_map_path(s) = ExePath /\ MeantPath(s) = ExePath
    BY <1>3 DEF wg_files_map_path, MeantPath
  <2>2. Unmarked(ExePath)  BY DEF Unmarked, ExePath
  <2> QED BY <2>1, <2>2
<1>4. CASE ~ ExeSpelling(s) /\ Absolute(s)
  <2>1. wg_files_map_path(s) = s.names /\ MeantPath(s) = s.names
    BY <1>4 DEF wg_files_map_path, MeantPath
  <2> QED BY <1>1, <2>1
<1>5. CASE ~ ExeSpelling(s) /\ ~ Absolute(s)
  <2>1. MeantPath(s) = cwd.names \o s.names  BY <1>5 DEF MeantPath
  <2>2. Unmarked(MeantPath(s))  BY <1>1, <1>2, <2>1, FirstUnmarked
  <2>3. CASE cwd = NoCwd
    <3>1. wg_files_map_path(s) = s.names  BY <1>5, <2>3 DEF wg_files_map_path
    <3>2. cwd.names = <<>>  BY <2>3 DEF NoCwd
    <3> QED BY <1>1, <2>1, <2>2, <3>1, <3>2
  <2>4. CASE cwd # NoCwd /\ cwd.long
    <3>1. wg_files_map_path(s) = <<"?", "C:">> \o cwd.names \o s.names
      BY <1>5, <2>4 DEF wg_files_map_path, Joined
    <3>2. ~ Unmarked(wg_files_map_path(s))  BY <1>1, <1>2, <3>1, MarkedFirst
    <3>3. MeantPath(s) \in odd  BY <2>1, <2>4 DEF FilesInv, CwdRight
    <3> QED BY <2>2, <3>2, <3>3
  <2>5. CASE cwd # NoCwd /\ ~ cwd.long
    <3>1. wg_files_map_path(s) = <<>> \o cwd.names \o s.names
      BY <1>5, <2>5 DEF wg_files_map_path, Joined
    <3>2. <<>> \o cwd.names = cwd.names  BY <1>2
    <3> QED BY <2>1, <2>2, <3>1, <3>2
  <2> QED BY <1>2, <2>3, <2>4, <2>5
<1> QED BY <1>3, <1>4, <1>5

-----------------------------------------------------------------------------
(* Files: names that come and go.                                          *)

\* The steps after which more may be odd.
LEMMA GrowStep ==
    ASSUME FilesInv, odd \subseteq odd',
           files' = [k \in FileSlots |-> files'[k]],
           \A k \in FileSlots : \/ files'[k] = files[k]
                                \/ IsEntry(files'[k]) /\ NameRight(files'[k], odd'),
           CwdRight(cwd', odd'), ~ misread',
           \A m \in DOMAIN meant' : Unmarked(m) /\ m \notin odd',
           \A m : Unmarked(m) /\ m \notin odd' => PathRight(m, files', disk', meant')
    PROVE  FilesInv'
<1>1. \A k \in FileSlots : files[k] = NoEntry \/ (IsEntry(files[k]) /\ NameRight(files[k], odd'))
  BY DEF FilesInv, EntriesRight, NameRight
<1>2. EntriesRight(files', odd')  BY <1>1 DEF EntriesRight
<1> QED BY <1>2 DEF FilesInv

LEMMA CwdKept ==
    ASSUME FilesInv, odd \subseteq odd', cwd' = cwd
    PROVE  CwdRight(cwd', odd')
  BY DEF FilesInv, CwdRight

\* Nothing is promised about a path that an open file loses.
LEMMA NobodyHolds ==
    ASSUME FilesInv, NEW p, NEW o, odd \subseteq o,
           \A k \in FileSlots : files[k].in_use /\ files[k].path = p => files[k].means \in o,
           Unmarked(p), p \notin o
    PROVE  \A k \in FileSlots : ~ OpenOn(files[k], p)
<1> SUFFICES ASSUME NEW k \in FileSlots, OpenOn(files[k], p) PROVE FALSE  OBVIOUS
<1>1. files[k].in_use /\ files[k].means = p  BY DEF OpenOn
<1>2. NameRight(files[k], odd)  BY <1>1, InUse DEF FilesInv
<1>3. files[k].path = p  BY <1>1, <1>2 DEF NameRight
<1> QED BY <1>1, <1>3

LEMMA OddGrows ==
    ASSUME NEW ps
    PROVE  /\ odd \subseteq OddIfOpen(ps)
           /\ \A k \in FileSlots :
                files[k].in_use /\ files[k].path \in ps => files[k].means \in OddIfOpen(ps)
  BY DEF OddIfOpen

LEMMA UnlinkedEntry ==
    ASSUME FilesInv, NEW ps, NEW k \in FileSlots
    PROVE  \/ Unlinked(ps)[k] = files[k]
           \/ /\ files[k].in_use /\ files[k].path \in ps
              /\ IsEntry(Unlinked(ps)[k])
              /\ Unlinked(ps)[k].path = files[k].path /\ Unlinked(ps)[k].means = files[k].means
<1>1. CASE files[k].in_use /\ ~ files[k].gone /\ files[k].path \in ps
  <2>1. PICK l : l = disk[files[k].path]  OBVIOUS
  <2>2. PICK e : e = [files[k] EXCEPT !.gone = TRUE, !.left = l]  OBVIOUS
  <2>3. Unlinked(ps)[k] = e  BY <1>1, <2>1, <2>2 DEF Unlinked
  <2>4. IsEntry(files[k])  BY <1>1, InUse DEF FilesInv
  <2>5. /\ e = [y \in EntryFields |-> e[y]]
        /\ \A y \in EntryFields \ {"gone", "left"} : e[y] = files[k][y]
    BY <2>2, <2>4 DEF IsEntry, EntryFields
  <2>6. IsEntry(e) /\ e.path = files[k].path /\ e.means = files[k].means
    BY <2>4, <2>5 DEF IsEntry, EntryFields
  <2> QED BY <1>1, <2>3, <2>6
<1>2. CASE ~ (files[k].in_use /\ ~ files[k].gone /\ files[k].path \in ps)
  BY <1>2 DEF Unlinked
<1> QED BY <1>1, <1>2

\* The file p, which is x on Windows, is deleted.
LEMMA Removal ==
    ASSUME FilesInv, NEW p, NEW x, p = x \/ (~ Unmarked(p) /\ x \in odd),
           files' = Unlinked({p}), odd' = OddIfOpen({p}),
           disk' = Without(disk, {p}), meant' = Without(meant, odd' \cup {x}),
           cwd' = cwd, misread' = misread
    PROVE  FilesInv'
<1>1. /\ odd \subseteq odd'
      /\ \A k \in FileSlots : files[k].in_use /\ files[k].path = p => files[k].means \in odd'
  BY OddGrows
<1>2. files' = [k \in FileSlots |-> files'[k]]  BY DEF Unlinked
<1>3. ASSUME NEW k \in FileSlots
      PROVE  \/ files'[k] = files[k]
             \/ /\ files[k].in_use /\ files[k].path = p
                /\ IsEntry(files'[k])
                /\ files'[k].path = files[k].path /\ files'[k].means = files[k].means
  BY UnlinkedEntry
<1>4. ASSUME NEW k \in FileSlots
      PROVE  files'[k] = files[k] \/ (IsEntry(files'[k]) /\ NameRight(files'[k], odd'))
  <2>1. files[k].in_use => NameRight(files[k], odd)  BY InUse DEF FilesInv
  <2> QED BY <1>1, <1>3, <2>1 DEF NameRight
<1>5. CwdRight(cwd', odd') /\ ~ misread'  BY <1>1, CwdKept DEF FilesInv
<1>6. \A m \in DOMAIN meant' : Unmarked(m) /\ m \notin odd'
  <2>1. \A q : q \in DOMAIN meant' <=> q \in DOMAIN meant /\ q \notin odd' \cup {x}
    BY WithoutDomain, SMTT(30)
  <2> QED BY <2>1 DEF FilesInv
<1>7. ASSUME NEW m, Unmarked(m), m \notin odd'
      PROVE  PathRight(m, files', disk', meant')
  <2>1. m \notin odd  BY <1>1, <1>7
  <2>2. \A k \in FileSlots : \/ files'[k] = files[k]
                             \/ ~ OpenOn(files[k], m) /\ ~ OpenOn(files'[k], m)
    BY <1>1, <1>3, <1>7 DEF OpenOn
  <2>3. CASE m = p
    <3>1. \A k \in FileSlots : ~ OpenOn(files[k], m)  BY <1>1, <1>7, <2>3, NobodyHolds
    <3>2. \A k \in FileSlots : ~ OpenOn(files'[k], m)  BY <2>2, <3>1
    <3>3. m = x  BY <1>7, <2>3
    <3>4. m \notin DOMAIN disk' /\ m \notin DOMAIN meant'  BY <2>3, <3>3, WithoutDomain
    <3> QED BY <3>2, <3>4 DEF PathRight
  <2>4. CASE m # p
    <3>1. m \notin odd' \cup {x}  BY <1>7, <2>1, <2>4
    <3>2. Same(disk, disk', m) /\ Same(meant, meant', m)  BY <2>4, <3>1, WithoutSame
    <3>3. PathRight(m, files, disk, meant)  BY <1>7, <2>1 DEF FilesInv
    <3> QED BY <2>2, <3>2, <3>3, FileUntouched
  <2> QED BY <2>3, <2>4
<1> HIDE DEF FilesInv
<1> QED BY <1>1, <1>2, <1>4, <1>5, <1>6, <1>7, GrowStep

LEMMA DeleteRight ==
    ASSUME FilesInv, NEW s \in Spellings, DeleteFileW(s)
    PROVE  FilesInv'
<1>1. PICK p, x : p = wg_files_map_path(s) /\ x = MeantPath(s)  OBVIOUS
<1>2. p = x \/ (~ Unmarked(p) /\ x \in odd)  BY <1>1, Mapped
<1>3. /\ disk' = Without(disk, {p}) /\ files' = Unlinked({p}) /\ odd' = OddIfOpen({p})
      /\ meant' = Without(meant, odd' \cup {x}) /\ cwd' = cwd /\ misread' = misread
  BY <1>1 DEF DeleteFileW
<1> QED BY <1>2, <1>3, Removal

LEMMA TempPlain == Unmarked(TempPath)
  BY DEF Unmarked, TempPath

LEMMA ResetRight ==
    ASSUME FilesInv, wg_files_reset_temp
    PROVE  FilesInv'
  BY Removal DEF wg_files_reset_temp

LEMMA TempNameRight ==
    ASSUME FilesInv, GetTempFileNameW
    PROVE  FilesInv'
<1>1. PICK p, empty : p = TempPath /\ empty = <<>>  OBVIOUS
<1>2. /\ disk' = Put(disk, p, empty) /\ odd' = OddIfOpen({p}) /\ files' = files
      /\ meant' = Without(Put(meant, p, empty), odd') /\ cwd' = cwd /\ ~ misread'
  BY <1>1 DEF GetTempFileNameW, FilesInv
<1>3. Unmarked(p) /\ empty \in Content  BY <1>1, TempPlain DEF Content
<1>4. /\ odd \subseteq odd'
      /\ \A k \in FileSlots : files[k].in_use /\ files[k].path = p => files[k].means \in odd'
  BY <1>2, OddGrows
<1>5. files' = [k \in FileSlots |-> files'[k]]  BY <1>2 DEF FilesInv, EntriesRight
<1>6. PICK w : w = Put(meant, p, empty)  OBVIOUS
<1>7. DOMAIN w = DOMAIN meant \cup {p}  BY <1>6, PutDomain
<1>8. \A q : q \in DOMAIN meant' <=> q \in DOMAIN w /\ q \notin odd'
  BY <1>2, <1>6, WithoutDomain
<1>9. \A m \in DOMAIN meant' : Unmarked(m) /\ m \notin odd'
  BY <1>3, <1>7, <1>8 DEF FilesInv
<1>10. ASSUME NEW m, Unmarked(m), m \notin odd'
       PROVE  PathRight(m, files', disk', meant')
  <2>1. m \notin odd  BY <1>4, <1>10
  <2>2. Same(w, meant', m)  BY <1>2, <1>6, <1>10, WithoutSame
  <2>3. CASE m = p
    <3>1. \A k \in FileSlots : ~ OpenOn(files[k], m)  BY <1>4, <1>10, <2>3, NobodyHolds
    <3>2. m \in DOMAIN disk' /\ disk'[m] = empty  BY <1>2, <2>3, PutThere
    <3>3. m \in DOMAIN w /\ w[m] = empty  BY <1>6, <2>3, PutThere
    <3>4. m \in DOMAIN meant' /\ meant'[m] = empty  BY <2>2, <3>3 DEF Same
    <3> QED BY <1>2, <1>3, <3>1, <3>2, <3>4 DEF PathRight
  <2>4. CASE m # p
    <3>1. Same(disk, disk', m) /\ Same(meant, w, m)  BY <1>2, <1>6, <2>4, PutSame
    <3>2. Same(meant, meant', m)  BY <2>2, <3>1, SameThrough
    <3>3. PathRight(m, files, disk, meant)  BY <1>10, <2>1 DEF FilesInv
    <3> QED BY <1>2, <3>1, <3>2, <3>3, FileUntouched
  <2> QED BY <2>3, <2>4
<1>11. CwdRight(cwd', odd')  BY <1>2, <1>4, CwdKept
<1> HIDE DEF FilesInv
<1> QED BY <1>2, <1>4, <1>5, <1>9, <1>10, <1>11, GrowStep

LEMMA FolderRight ==
    ASSUME FilesInv, NEW folder \in Folders, SetCurrentDirectoryW(folder)
    PROVE  FilesInv'
<1>1. /\ cwd' = folder /\ meant' = Without(meant, odd') /\ files' = files /\ disk' = disk
      /\ ~ misread'
      /\ odd' = IF folder.long \/ ~ Absolute(folder)
                THEN odd \cup {folder.names \o s.names : s \in Spellings}
                         \cup {MeantPath(folder) \o s.names : s \in Spellings} ELSE odd
  BY DEF SetCurrentDirectoryW, FilesInv
<1>2. odd \subseteq odd'  BY <1>1
<1>3. files' = [k \in FileSlots |-> files'[k]]  BY <1>1 DEF FilesInv, EntriesRight
<1>4. CwdRight(cwd', odd')  BY <1>1 DEF CwdRight
<1>5. \A q : q \in DOMAIN meant' <=> q \in DOMAIN meant /\ q \notin odd'
  <2>1. meant' = Without(meant, odd')  BY <1>1
  <2> QED BY <2>1, WithoutDomain
<1>6. \A m \in DOMAIN meant' : Unmarked(m) /\ m \notin odd'  BY <1>5 DEF FilesInv
<1>7. ASSUME NEW m, Unmarked(m), m \notin odd'
      PROVE  PathRight(m, files', disk', meant')
  <2>1. Same(meant, meant', m)  BY <1>1, <1>7, WithoutSame
  <2>2. Same(disk, disk', m)  BY <1>1 DEF Same
  <2>3. PathRight(m, files, disk, meant)  BY <1>2, <1>7 DEF FilesInv
  <2> QED BY <1>1, <2>1, <2>2, <2>3, FileUntouched
<1> HIDE DEF FilesInv
<1> QED BY <1>1, <1>2, <1>3, <1>4, <1>6, <1>7, GrowStep

-----------------------------------------------------------------------------
(* Files: opening.                                                         *)

LEMMA FirstFreeIs ==
    ASSUME FreeFileSlots # {}
    PROVE  FirstFree \in FreeFileSlots
<1>1. FreeFileSlots \subseteq Nat  BY FilesAssumption DEF FreeFileSlots, FileSlots
<1>2. PICK m \in FreeFileSlots : \A k \in FreeFileSlots : ~ (<<k, m>> \in OpToRel(<, Nat))
  BY <1>1, NatLessThanWellFounded, WFMin
<1>3. \A k \in FreeFileSlots : m <= k
  <2> SUFFICES ASSUME NEW k \in FreeFileSlots, ~ (m <= k) PROVE FALSE  OBVIOUS
  <2>1. k \in Nat /\ m \in Nat  BY <1>1, <1>2
  <2>2. k < m  BY <2>1
  <2> QED BY <1>2, <2>1, <2>2 DEF OpToRel
<1> QED BY <1>2, <1>3 DEF FirstFree

\* Of the dispositions that stdio has, none appends and all can read.
LEMMA FaithfulModes ==
    ASSUME NEW disposition \in Dispositions, NEW writes \in BOOLEAN, NEW p,
           ~ Faithless(disposition, writes, p)
    PROVE  LET mode == Mode(disposition, writes) IN
           /\ mode # "ab+" /\ mode # "wb"
  BY DEF Dispositions, Faithless, Mode

\* fopen has opened p, which is m on Windows, and may have found the slot i for e.
LEMMA Opening ==
    ASSUME FilesInv, NEW p, NEW m, Unmarked(m), p = m \/ (~ Unmarked(p) /\ m \in odd),
           NEW mode, NEW i, NEW e, e = wg_files_create(p, mode, m),
           odd' = odd \/ odd' = odd \cup {m},
           m \notin odd' => /\ mode # "ab+" /\ mode # "wb"
                            /\ FreeFileSlots # {}
                            /\ \A k \in FileSlots : ~ (files[k].in_use /\ files[k].path = p),
           NEW after, NEW mine,
           Truncates(mode) => after = <<>> /\ mine = <<>>,
           ~ Truncates(mode) => /\ p \in DOMAIN disk => after = disk[p]
                                /\ p \notin DOMAIN disk => after = <<>>
                                /\ m \in DOMAIN meant => mine = meant[m]
                                /\ m \notin DOMAIN meant => mine = <<>>,
           NEW d, d = Put(disk, p, after), disk' = d,
           NEW w, w = Put(meant, m, mine), meant' = Without(w, odd'),
           DOMAIN files' = FileSlots, files' = [k \in FileSlots |-> files'[k]],
           \A k \in FileSlots : \/ files'[k] = files[k]
                                \/ files'[k] = e /\ ~ files[k].in_use /\ k = i,
           FreeFileSlots # {} => i \in FileSlots /\ files'[i] = e,
           cwd' = cwd, misread' = misread
    PROVE  FilesInv'
<1>1. odd \subseteq odd' /\ (m \notin odd' => odd' = odd)  OBVIOUS
<1>3. /\ IsEntry(e) /\ e.in_use = TRUE /\ e.path = p /\ e.means = m /\ e.gone = FALSE
      /\ e.pos = 0 /\ e.due = 0 /\ e.kept = <<>>
      /\ mode # "ab+" => e.append = FALSE
      /\ mode # "wb" => e.reads = TRUE
  <2>1. e = [y \in EntryFields |-> e[y]]
    BY ONLY e = wg_files_create(p, mode, m) DEF wg_files_create, EntryFields
  <2>2. /\ e.in_use = TRUE /\ e.path = p /\ e.means = m /\ e.gone = FALSE
        /\ e.pos = 0 /\ e.due = 0 /\ e.kept = <<>>
    BY ONLY e = wg_files_create(p, mode, m) DEF wg_files_create
  <2>3. mode # "ab+" => e.append = FALSE
    BY ONLY e = wg_files_create(p, mode, m) DEF wg_files_create
  <2>4. mode # "wb" => e.reads = TRUE
    BY ONLY e = wg_files_create(p, mode, m) DEF wg_files_create
  <2> QED BY <2>1, <2>2, <2>3, <2>4 DEF IsEntry
<1>4. NameRight(e, odd')  BY <1>1, <1>3 DEF NameRight
<1>6. CwdRight(cwd', odd') /\ ~ misread'  BY <1>1, CwdKept DEF FilesInv
<1>7. DOMAIN w = DOMAIN meant \cup {m}  BY ONLY PutDomain, w = Put(meant, m, mine)
<1>8. \A q : q \in DOMAIN meant' <=> q \in DOMAIN w /\ q \notin odd'
  <2> HIDE DEF FilesInv
  <2> QED BY WithoutDomain
<1>9. \A q \in DOMAIN meant' : Unmarked(q) /\ q \notin odd'
  BY <1>7, <1>8 DEF FilesInv
<1>10. ASSUME NEW q, Unmarked(q), q \notin odd'
       PROVE  PathRight(q, files', disk', meant')
  <2>1. q \notin odd  BY <1>1, <1>10
  <2>2. PathRight(q, files, disk, meant)  BY <1>10, <2>1 DEF FilesInv
  <2>3. Same(w, meant', q)  BY <1>10, WithoutSame
  <2>4. CASE q # m
    <3>1. q # p  BY <1>10, <2>4
    <3>2. Same(disk, disk', q) /\ Same(meant, w, q)  BY <2>4, <3>1, PutSame
    <3>3. Same(meant, meant', q)  BY <2>3, <3>2, SameThrough
    <3>4. \A k \in FileSlots : \/ files'[k] = files[k]
                               \/ ~ OpenOn(files[k], q) /\ ~ OpenOn(files'[k], q)
      BY <1>3, <2>4 DEF OpenOn
    <3> QED BY <2>2, <3>2, <3>3, <3>4, FileUntouched
  <2>5. CASE q = m
    <3>1. m \notin odd' /\ p = m  BY <1>10, <2>1, <2>5
    <3>2. odd' = odd  BY <1>1, <3>1
    <3>3. /\ mode # "ab+" /\ mode # "wb" /\ FreeFileSlots # {}
          /\ \A k \in FileSlots : ~ (files[k].in_use /\ files[k].path = p)
      BY <3>1
    <3>4. \A k \in FileSlots : ~ OpenOn(files[k], m)
      BY <1>10, <2>5, <3>1, <3>2, <3>3, NobodyHolds
    <3>5. after = mine /\ after \in Content
      <4>1. <<>> \in Content  BY DEF Content
      <4>2. /\ m \in DOMAIN disk <=> m \in DOMAIN meant
            /\ m \in DOMAIN disk => disk[m] = meant[m] /\ disk[m] \in Content
        BY <2>2, <2>5, <3>4 DEF PathRight
      <4> QED BY <3>1, <4>1, <4>2
    <3>6. m \in DOMAIN disk' /\ disk'[m] = after  BY <3>1, PutThere
    <3>7. m \in DOMAIN w /\ w[m] = mine  BY PutThere
    <3>8. m \in DOMAIN meant' /\ meant'[m] = mine  BY <2>3, <2>5, <3>7 DEF Same
    <3>9. OpenRight(e, disk', meant')
      <4>1. Flushed(disk'[m], <<>>, FALSE) = meant'[m]  BY <3>5, <3>6, <3>8, FlushedNone
      <4>2. <<>> \in Kept  BY DEF Kept
      <4>3. e.append = FALSE /\ e.reads = TRUE  BY <1>3, <3>3
      <4>4. e.path = m /\ e.pos \in Nat /\ e.due = e.pos  BY <1>3, <3>1
      <4>5. Flushed(disk'[m], e.kept, FALSE) = meant'[m]  BY <1>3, <4>1
      <4>6. e.path = e.means /\ e.means \in DOMAIN meant'  BY <1>3, <3>1, <3>8
      <4>7. e.gone = FALSE /\ e.kept \in Kept  BY <1>3, <4>2
      <4>8. Flushed(disk'[e.means], e.kept, FALSE) = meant'[e.means]  BY <1>3, <4>5
      <4> QED BY ONLY <4>3, <4>4, <4>6, <4>7, <4>8 DEF OpenRight
    <3>10. \A k \in FileSlots : OpenOn(files'[k], m) => k = i /\ files'[k] = e
      BY <3>4
    <3>11. i \in FileSlots /\ files'[i] = e  BY <3>3
    <3>12. OpenOn(files'[i], m)  BY <1>3, <3>11 DEF OpenOn
    <3> QED BY <2>5, <3>5, <3>6, <3>8, <3>9, <3>10, <3>11, <3>12 DEF PathRight
  <2> QED BY <2>4, <2>5
<1> HIDE DEF FilesInv
<1> QED BY <1>1, <1>3, <1>4, <1>6, <1>9, <1>10, GrowStep

LEMMA CreateRight ==
    ASSUME FilesInv, NEW s \in Spellings, NEW disposition \in Dispositions,
           NEW writes \in BOOLEAN, CreateFileW(s, disposition, writes)
    PROVE  FilesInv'
<1>1. PICK p, m, mode : /\ p = wg_files_map_path(s) /\ m = MeantPath(s)
                        /\ mode = Mode(disposition, writes)
  OBVIOUS
<1>2. Unmarked(m) /\ (p = m \/ (~ Unmarked(p) /\ m \in odd))  BY <1>1, Mapped
<1>4. PICK after, mine :
        /\ after = IF Truncates(mode) \/ ~ Exists(p) THEN <<>> ELSE disk[p]
        /\ mine = IF Truncates(mode) \/ m \notin DOMAIN meant THEN <<>> ELSE meant[m]
  OBVIOUS
<1>5. PICK d, w, i, e : /\ d = Put(disk, p, after) /\ w = Put(meant, m, mine)
                        /\ i = FirstFree /\ e = wg_files_create(p, mode, m)
  OBVIOUS
<1>6. CASE UNCHANGED <<files, disk, meant, odd, cwd, misread>>
  BY <1>6 DEF FilesInv, EntriesRight, CwdRight, PathRight, OpenRight
<1>7. CASE ~ UNCHANGED <<files, disk, meant, odd, cwd, misread>>
  <2>1. cwd' = cwd /\ misread' = misread  BY DEF CreateFileW
  <2>2. /\ disk' = Put(disk, p, after)
        /\ odd' = IF \/ Faithless(disposition, writes, p) \/ FreeFileSlots = {}
                     \/ \E k \in FileSlots : files[k].in_use /\ files[k].path = p
                  THEN odd \cup {m} ELSE odd
        /\ meant' = Without(Put(meant, m, IF Truncates(mode) \/ m \notin DOMAIN meant
                                          THEN <<>> ELSE meant[m]), odd')
        /\ IF FreeFileSlots = {} THEN UNCHANGED <<files, nextHandle>>
           ELSE /\ files' = [files EXCEPT ![FirstFree] = wg_files_create(p, mode, m)]
                /\ nextHandle' = nextHandle + 1
    BY <1>1, <1>4, <1>7 DEF CreateFileW
  <2>3. odd' = odd \/ odd' = odd \cup {m}  BY <2>2
  <2>4. meant' = Without(w, odd') /\ disk' = d  BY <1>4, <1>5, <2>2
  <2>5. m \notin odd' => /\ ~ Faithless(disposition, writes, p) /\ FreeFileSlots # {}
                         /\ \A k \in FileSlots : ~ (files[k].in_use /\ files[k].path = p)
    BY <2>2
  <2>6. m \notin odd' => /\ mode # "ab+" /\ mode # "wb"
                         /\ FreeFileSlots # {}
                         /\ \A k \in FileSlots : ~ (files[k].in_use /\ files[k].path = p)
    BY <1>1, <2>5, FaithfulModes
  <2>7. Truncates(mode) => after = <<>> /\ mine = <<>>  BY <1>4
  <2>8. ~ Truncates(mode) => /\ p \in DOMAIN disk => after = disk[p]
                             /\ p \notin DOMAIN disk => after = <<>>
                             /\ m \in DOMAIN meant => mine = meant[m]
                             /\ m \notin DOMAIN meant => mine = <<>>
    BY <1>4 DEF Exists
  <2>9. files = [k \in FileSlots |-> files[k]]  BY DEF FilesInv, EntriesRight
  <2>10. FreeFileSlots # {} => /\ i \in FileSlots /\ ~ files[i].in_use
                               /\ files' = [files EXCEPT ![i] = e]
    BY <1>5, <2>2, FirstFreeIs DEF FreeFileSlots
  <2>11. FreeFileSlots = {} => files' = files  BY <2>2
  <2>12. DOMAIN files' = FileSlots /\ files' = [k \in FileSlots |-> files'[k]]
    BY <2>9, <2>10, <2>11
  <2>13. \A k \in FileSlots : \/ files'[k] = files[k]
                              \/ files'[k] = e /\ ~ files[k].in_use /\ k = i
    BY <2>9, <2>10, <2>11
  <2>14. FreeFileSlots # {} => i \in FileSlots /\ files'[i] = e  BY <2>9, <2>10
  <2> HIDE DEF FilesInv
  <2> QED BY <1>2, <1>5, <2>1, <2>3, <2>4, <2>6, <2>7, <2>8, <2>12, <2>13, <2>14, Opening
<1> QED BY <1>6, <1>7

LEMMA FilesInitially ==
    ASSUME FilesInit
    PROVE  FilesInv
<1>1. /\ files = [i \in FileSlots |-> NoEntry] /\ odd = {} /\ cwd = NoCwd /\ misread = FALSE
      /\ disk = [p \in {ExePath} |-> <<2>>] /\ meant = [p \in {ExePath} |-> <<2>>]
  BY DEF FilesInit
<1>2. EntriesRight(files, odd)  BY <1>1 DEF EntriesRight
<1>3. CwdRight(cwd, odd)  BY <1>1 DEF CwdRight, NoCwd
<1>4. Unmarked(ExePath)  BY DEF Unmarked, ExePath
<1>5. \A m \in DOMAIN meant : Unmarked(m) /\ m \notin odd  BY <1>1, <1>4
<1>6. \A i \in FileSlots : \A m : ~ OpenOn(files[i], m)  BY <1>1 DEF OpenOn, NoEntry
<1>7. <<2>> \in Content
  <2>1. 2 \in FileByte  BY DEF FileByte
  <2> QED BY <2>1 DEF Content
<1>8. \A m : PathRight(m, files, disk, meant)  BY <1>1, <1>6, <1>7 DEF PathRight
<1> QED BY <1>1, <1>2, <1>3, <1>5, <1>8 DEF FilesInv

LEMMA FilesStep ==
    ASSUME FilesInv, [FilesNext]_filesVars
    PROVE  FilesInv'
<1>1. ASSUME UNCHANGED <<files, disk, meant, odd, cwd, misread>> PROVE FilesInv'
  BY <1>1 DEF FilesInv, EntriesRight, CwdRight, PathRight, OpenRight
<1>2. CASE UNCHANGED filesVars  BY <1>1, <1>2 DEF filesVars
<1>3. ASSUME NEW s \in Spellings,
             \/ \E d \in Dispositions, writes \in BOOLEAN : CreateFileW(s, d, writes)
             \/ DeleteFileW(s)
             \/ CreateDirectoryW(s)
      PROVE  FilesInv'
  <2>1. CASE CreateDirectoryW(s)  BY <1>1, <2>1 DEF CreateDirectoryW
  <2> QED BY <1>3, <2>1, CreateRight, DeleteRight
<1>4. ASSUME NEW h \in HandlesGiven,
             \/ ReadFile(h)
             \/ \E b \in FileBytes : WriteFile(h, b)
             \/ SetFilePointer(h, 0, "SEEK_SET") \/ SetFilePointer(h, -1, "SEEK_CUR")
             \/ SetFilePointer(h, 0, "SEEK_END")
             \/ GetFileSize(h)
             \/ CloseHandle(h)
      PROVE  FilesInv'
  BY <1>4, ReadFileRight, WriteRight, SeekRight, SizeRight, CloseRight
<1>5. ASSUME NEW folder \in Folders, SetCurrentDirectoryW(folder) PROVE FilesInv'
  BY <1>5, FolderRight
<1>6. CASE GetTempFileNameW \/ wg_files_reset_temp  BY <1>6, TempNameRight, ResetRight
<1> QED BY <1>2, <1>3, <1>4, <1>5, <1>6 DEF FilesNext

\* Whatever the guest opens, writes, closes and deletes, under any spelling of a path,
\* a read gives what was last written there, and a file that is closed holds on the
\* host what the guest wrote to it (wg_win32_files.c over stdio).
THEOREM GuestFilesFaithful == FilesSpec => []FilesFaithful
<1>1. FilesInv => FilesFaithful
  <2> SUFFICES ASSUME FilesInv PROVE Stored  BY DEF FilesFaithful, ReadBack, FilesInv
  <2> SUFFICES ASSUME NEW m \in DOMAIN meant \ odd,
                      \A i \in FileSlots : files[i].in_use => files[i].means # m
               PROVE  m \in DOMAIN disk /\ disk[m] = meant[m]
    BY DEF Stored
  <2>1. PathRight(m, files, disk, meant)  BY DEF FilesInv
  <2>2. \A i \in FileSlots : ~ OpenOn(files[i], m)  BY DEF OpenOn
  <2> QED BY <2>1, <2>2 DEF PathRight
<1> QED BY <1>1, FilesInitially, FilesStep, PTL DEF FilesSpec

-----------------------------------------------------------------------------
(* Files: the table and the disk, whatever is odd about them.              *)

\* An open entry on a disk d, when n is the next handle.
EntryTyped(f, d, n) ==
    /\ IsEntry(f) /\ f.handle \in 1 .. n - 1 /\ f.pos \in Nat
    /\ f.append \in BOOLEAN /\ f.gone \in BOOLEAN
    /\ f.kept \in Kept /\ f.left \in Content
    /\ f.gone \/ f.path \in DOMAIN d

Contents(d) == \A p \in DOMAIN d : d[p] \in Content

FilesShaped ==
    /\ nextHandle \in 1 .. MaxOpens + 1 /\ Contents(disk)
    /\ files = [i \in FileSlots |-> files[i]]
    /\ \A i \in FileSlots : files[i] = NoEntry \/ EntryTyped(files[i], disk, nextHandle)
    /\ \A i, k \in FileSlots :
          files[i].in_use /\ files[k].in_use /\ files[i].handle = files[k].handle => i = k

LEMMA Used ==
    ASSUME FilesShaped, NEW i \in FileSlots, files[i].in_use
    PROVE  EntryTyped(files[i], disk, nextHandle)
  BY DEF FilesShaped, NoEntry

LEMMA SettledTyped ==
    ASSUME NEW f, NEW n, EntryTyped(f, disk, n), Contents(disk)
    PROVE  /\ Settled(f) \in Content
           /\ Contents(DiskFlushed(f)) /\ DOMAIN DiskFlushed(f) = DOMAIN disk
<1>1. OnDisk(f) \in Content  BY DEF OnDisk, EntryTyped, Contents
<1>2. f.kept \in Kept /\ f.append \in BOOLEAN  BY DEF EntryTyped
<1>3. Settled(f) \in Content  BY <1>1, <1>2, FlushedContent DEF Settled
<1>4. CASE f.gone  BY <1>3, <1>4 DEF DiskFlushed
<1>5. CASE ~ f.gone
  <2>1. PICK c \in Content : c = Settled(f)  BY <1>3
  <2>2. DiskFlushed(f) = Put(disk, f.path, c)  BY <1>5, <2>1 DEF DiskFlushed
  <2>3. f.path \in DOMAIN disk  BY <1>5 DEF EntryTyped
  <2> QED BY <1>3, <2>2, <2>3 DEF Put, Contents
<1> QED BY <1>4, <1>5

\* The steps that change what one slot holds, and no handle.
LEMMA SlotTyped ==
    ASSUME FilesShaped, NEW i \in FileSlots, files[i].in_use, NEW e,
           e = NoEntry \/ (EntryTyped(e, disk', nextHandle) /\ e.handle = files[i].handle),
           files' = [files EXCEPT ![i] = e], nextHandle' = nextHandle,
           Contents(disk'), DOMAIN disk \subseteq DOMAIN disk'
    PROVE  FilesShaped'
<1>1. /\ files' = [k \in FileSlots |-> files'[k]] /\ files'[i] = e
      /\ \A k \in FileSlots \ {i} : files'[k] = files[k]
  BY DEF FilesShaped
<1>2. ASSUME NEW k \in FileSlots
      PROVE  files'[k] = NoEntry \/ EntryTyped(files'[k], disk', nextHandle)
  BY <1>1 DEF FilesShaped, EntryTyped
<1>3. \A k \in FileSlots : files'[k].in_use => files[k].in_use /\ files'[k].handle = files[k].handle
  BY <1>1 DEF NoEntry
<1>4. \A j, k \in FileSlots :
         files'[j].in_use /\ files'[k].in_use /\ files'[j].handle = files'[k].handle => j = k
  BY <1>3 DEF FilesShaped
<1>5. nextHandle \in 1 .. MaxOpens + 1  BY DEF FilesShaped
<1> QED BY <1>1, <1>2, <1>4, <1>5 DEF FilesShaped

\* A stream after a flush, wherever its pointer is.
LEMMA FlushedTyped ==
    ASSUME NEW f, NEW n, EntryTyped(f, disk, n), Contents(disk), NEW p \in Nat, NEW d,
           NEW e, e = Placed(EntryFlushed(f), p, d)
    PROVE  EntryTyped(e, DiskFlushed(f), n) /\ e.handle = f.handle
<1>1. IsEntry(f)  BY DEF EntryTyped
<1>2. PICK x \in Content : x = IF f.gone THEN Settled(f) ELSE f.left
  BY SettledTyped DEF EntryTyped
<1>3. e = [f EXCEPT !.kept = <<>>, !.left = x, !.pos = p, !.due = d]
  BY <1>1, <1>2 DEF EntryFlushed, Placed, IsEntry, EntryFields
<1>4. /\ e = [y \in EntryFields |-> e[y]]
      /\ e["kept"] = <<>> /\ e["left"] = x /\ e["pos"] = p
      /\ \A y \in EntryFields \ {"kept", "left", "pos", "due"} : e[y] = f[y]
  BY <1>1, <1>3 DEF IsEntry, EntryFields
<1>5. /\ e.kept = <<>> /\ e.left = x /\ e.pos = p /\ e.in_use = f.in_use /\ e.handle = f.handle
      /\ e.path = f.path /\ e.append = f.append /\ e.gone = f.gone
  BY <1>4 DEF EntryFields
<1>6. <<>> \in Kept  BY DEF Kept
<1>7. DOMAIN DiskFlushed(f) = DOMAIN disk  BY SettledTyped
<1> QED BY <1>1, <1>4, <1>5, <1>6, <1>7 DEF EntryTyped, IsEntry

\* The same, in its slot.
LEMMA FlushTyped ==
    ASSUME FilesShaped, NEW i \in FileSlots, files[i].in_use, NEW p \in Nat, NEW d,
           files' = [files EXCEPT ![i] = Placed(EntryFlushed(files[i]), p, d)],
           disk' = DiskFlushed(files[i]), nextHandle' = nextHandle
    PROVE  FilesShaped'
<1>1. EntryTyped(files[i], disk, nextHandle) /\ Contents(disk)  BY Used DEF FilesShaped
<1>2. PICK e : e = Placed(EntryFlushed(files[i]), p, d)  OBVIOUS
<1>3. EntryTyped(e, disk', nextHandle) /\ e.handle = files[i].handle
  BY <1>1, <1>2, FlushedTyped
<1>4. Contents(disk') /\ DOMAIN disk' = DOMAIN disk  BY <1>1, SettledTyped
<1>5. files' = [files EXCEPT ![i] = e]  BY <1>2
<1>6. DOMAIN disk \subseteq DOMAIN disk'  BY <1>4
<1> QED BY <1>3, <1>4, <1>5, <1>6, SlotTyped

LEMMA ReadTyped ==
    ASSUME FilesShaped, NEW h, ReadFile(h)
    PROVE  FilesShaped'
<1>1. PICK i \in find_file(h) :
        LET f     == files[i]
            bytes == Settled(f)
            reach == f.reads /\ f.pos < Len(bytes)
            due   == IF f.means \notin DOMAIN meant \/ f.due >= Len(meant[f.means])
                     THEN <<>> ELSE <<meant[f.means][f.due + 1]>>
        IN  /\ files' = [files EXCEPT ![i] = [EntryFlushed(f) EXCEPT
                             !.pos = IF reach THEN @ + 1 ELSE @,
                             !.due = IF due = <<>> THEN @ ELSE @ + 1]]
            /\ disk' = DiskFlushed(f) /\ nextHandle' = nextHandle
  BY DEF ReadFile
<1>2. i \in FileSlots /\ files[i].in_use  BY DEF find_file
<1> DEFINE f     == files[i]
           reach == f.reads /\ f.pos < Len(Settled(f))
           due   == IF f.means \notin DOMAIN meant \/ f.due >= Len(meant[f.means])
                    THEN <<>> ELSE <<meant[f.means][f.due + 1]>>
<1>3. PICK g : g = EntryFlushed(f)  OBVIOUS
<1>4. IsEntry(f) /\ f.pos \in Nat  BY <1>2, Used DEF EntryTyped
<1>5. g.pos = f.pos  BY <1>3, <1>4, EntryAfter
<1>6. PICK p, d : /\ p = IF reach THEN g.pos + 1 ELSE g.pos
                  /\ d = IF due = <<>> THEN g.due ELSE g.due + 1
  OBVIOUS
<1>7. files' = [files EXCEPT ![i] = [g EXCEPT !.pos = IF reach THEN @ + 1 ELSE @,
                                              !.due = IF due = <<>> THEN @ ELSE @ + 1]]
  BY <1>1, <1>3
<1>8. p \in Nat
  <2> HIDE DEF reach, due
  <2> QED BY <1>4, <1>5, <1>6
<1>9. Placed(g, p, d) = [g EXCEPT !.pos = IF reach THEN @ + 1 ELSE @,
                                  !.due = IF due = <<>> THEN @ ELSE @ + 1]
  <2> HIDE DEF reach, due, f
  <2> QED BY <1>6 DEF Placed
<1> HIDE DEF reach, due
<1>10. files' = [files EXCEPT ![i] = Placed(EntryFlushed(files[i]), p, d)]
  BY <1>3, <1>7, <1>9
<1>11. disk' = DiskFlushed(files[i]) /\ nextHandle' = nextHandle  BY <1>1
<1> QED BY <1>2, <1>8, <1>10, <1>11, FlushTyped

LEMMA SeekTyped ==
    ASSUME FilesShaped, NEW h, NEW distance \in Int,
           NEW method \in {"SEEK_SET", "SEEK_CUR", "SEEK_END"},
           SetFilePointer(h, distance, method)
    PROVE  FilesShaped'
<1>1. PICK i \in find_file(h) :
        LET f  == files[i]
            to == Sought(f, distance, method)
        IN  /\ files' = [files EXCEPT ![i] = [EntryFlushed(f) EXCEPT
                             !.pos = IF to < 0 THEN @ ELSE to,
                             !.due = IF to < 0 THEN @ ELSE IF f.means \in odd THEN 0 ELSE to]]
            /\ disk' = DiskFlushed(f) /\ nextHandle' = nextHandle
  BY DEF SetFilePointer
<1>2. i \in FileSlots /\ files[i].in_use  BY DEF find_file
<1>3. PICK f, g, to : f = files[i] /\ g = EntryFlushed(f) /\ to = Sought(f, distance, method)
  OBVIOUS
<1>4. IsEntry(f) /\ f.pos \in Nat /\ Settled(f) \in Content
  <2>1. EntryTyped(f, disk, nextHandle) /\ Contents(disk)  BY <1>2, <1>3, Used DEF FilesShaped
  <2> QED BY <2>1, SettledTyped DEF EntryTyped
<1>5. g.pos = f.pos  BY <1>3, <1>4, EntryAfter
<1>6. PICK p, d : /\ p = IF to < 0 THEN g.pos ELSE to
                  /\ d = IF to < 0 THEN g.due ELSE IF f.means \in odd THEN 0 ELSE to
  OBVIOUS
<1>7. files' = [files EXCEPT ![i] = Placed(EntryFlushed(files[i]), p, d)]
  <2>1. Placed(g, p, d) = [g EXCEPT !.pos = IF to < 0 THEN @ ELSE to,
                           !.due = IF to < 0 THEN @ ELSE IF f.means \in odd THEN 0 ELSE to]
    BY <1>6 DEF Placed
  <2> QED BY <1>1, <1>3, <2>1
<1>8. p \in Nat
  <2>1. Len(Settled(f)) \in Nat  BY <1>4 DEF Content
  <2>2. to \in Int  BY <1>3, <1>4, <2>1 DEF Sought
  <2> QED BY <1>4, <1>5, <1>6, <2>2
<1>9. disk' = DiskFlushed(files[i]) /\ nextHandle' = nextHandle  BY <1>1
<1> QED BY <1>2, <1>7, <1>8, <1>9, FlushTyped

LEMMA SizeTyped ==
    ASSUME FilesShaped, NEW h, GetFileSize(h)
    PROVE  FilesShaped'
<1>1. PICK i \in find_file(h) :
        /\ files' = [files EXCEPT ![i] = EntryFlushed(files[i])]
        /\ disk' = DiskFlushed(files[i]) /\ nextHandle' = nextHandle
  BY DEF GetFileSize
<1>2. i \in FileSlots /\ files[i].in_use  BY DEF find_file
<1>3. PICK f, g : f = files[i] /\ g = EntryFlushed(f)  OBVIOUS
<1>4. IsEntry(f) /\ f.pos \in Nat  BY <1>2, <1>3, Used DEF EntryTyped
<1>5. IsEntry(g) /\ g.pos = f.pos  BY <1>3, <1>4, EntryAfter DEF Alike
<1>6. g = Placed(g, f.pos, g.due)
  BY <1>5 DEF Placed, IsEntry, EntryFields
<1>7. files' = [files EXCEPT ![i] = Placed(EntryFlushed(files[i]), f.pos, g.due)]
  BY <1>1, <1>3, <1>6
<1> QED BY <1>1, <1>2, <1>4, <1>7, FlushTyped

LEMMA CloseTyped ==
    ASSUME FilesShaped, NEW h, CloseHandle(h)
    PROVE  FilesShaped'
<1>1. PICK i \in find_file(h) :
        /\ files' = [files EXCEPT ![i] = NoEntry]
        /\ disk' = DiskFlushed(files[i]) /\ nextHandle' = nextHandle
  BY DEF CloseHandle
<1>2. i \in FileSlots /\ files[i].in_use  BY DEF find_file
<1>3. EntryTyped(files[i], disk, nextHandle) /\ Contents(disk)  BY <1>2, Used DEF FilesShaped
<1>4. Contents(disk') /\ DOMAIN disk' = DOMAIN disk  BY <1>1, <1>3, SettledTyped
<1>5. PICK e : e = NoEntry  OBVIOUS
<1>6. files' = [files EXCEPT ![i] = e]  BY <1>1, <1>5
<1>7. DOMAIN disk \subseteq DOMAIN disk'  BY <1>4
<1> QED BY <1>1, <1>2, <1>4, <1>5, <1>6, <1>7, SlotTyped

LEMMA WriteTyped ==
    ASSUME FilesShaped, NEW h, NEW b \in FileBytes, WriteFile(h, b)
    PROVE  FilesShaped'
<1>1. PICK i \in find_file(h) :
        LET f == files[i]
        IN  /\ files' = [files EXCEPT ![i] = [f EXCEPT
                             !.kept = Append(@, <<f.pos, b>>),
                             !.pos  = IF f.append THEN Len(Settled(f)) + 1 ELSE @ + 1,
                             !.due  = IF f.means \in odd THEN 0 ELSE @ + 1]]
            /\ UNCHANGED <<nextHandle, disk>>
  BY DEF WriteFile
<1>2. i \in FileSlots /\ files[i].in_use  BY DEF find_file
<1>3. PICK f, k, p, d : /\ f = files[i] /\ k = Append(f.kept, <<f.pos, b>>)
                        /\ p = IF f.append THEN Len(Settled(f)) + 1 ELSE f.pos + 1
                        /\ d = IF f.means \in odd THEN 0 ELSE f.due + 1
  OBVIOUS
<1>4. PICK e : e = AfterWrite(f, k, p, d)  OBVIOUS
<1>5. EntryTyped(f, disk, nextHandle) /\ Contents(disk)  BY <1>2, <1>3, Used DEF FilesShaped
<1>6. files' = [files EXCEPT ![i] = e]
  <2>1. e = [f EXCEPT !.kept = Append(@, <<f.pos, b>>),
                      !.pos  = IF f.append THEN Len(Settled(f)) + 1 ELSE @ + 1,
                      !.due  = IF f.means \in odd THEN 0 ELSE @ + 1]
    BY <1>3, <1>4 DEF AfterWrite
  <2> QED BY <1>1, <1>3, <2>1
<1>7. k \in Kept
  <2>1. f.kept \in Kept /\ f.pos \in Nat /\ b \in FileByte  BY <1>5 DEF EntryTyped, FileByte
  <2> QED BY <1>3, <2>1 DEF Kept
<1>8. p \in Nat
  <2>1. Settled(f) \in Content  BY <1>5, SettledTyped
  <2>2. Len(Settled(f)) \in Nat /\ f.pos \in Nat  BY <1>5, <2>1 DEF EntryTyped, Content
  <2> QED BY <1>3, <2>2
<1>9. /\ e = [y \in EntryFields |-> e[y]] /\ e["kept"] = k /\ e["pos"] = p
      /\ \A y \in EntryFields \ {"kept", "pos", "due"} : e[y] = f[y]
  BY <1>4, <1>5 DEF EntryTyped, IsEntry, EntryFields, AfterWrite
<1>10. /\ e.kept = k /\ e.pos = p /\ e.in_use = f.in_use /\ e.handle = f.handle
       /\ e.path = f.path /\ e.append = f.append /\ e.gone = f.gone /\ e.left = f.left
  BY <1>9 DEF EntryFields
<1>11. EntryTyped(e, disk, nextHandle)
  BY <1>5, <1>7, <1>8, <1>9, <1>10 DEF EntryTyped, IsEntry
<1>12. UNCHANGED <<nextHandle, disk>>  BY <1>1
<1> QED BY <1>2, <1>3, <1>5, <1>6, <1>10, <1>11, <1>12, SlotTyped

LEMMA PutTyped ==
    ASSUME Contents(disk), NEW p, NEW c \in Content, disk' = Put(disk, p, c)
    PROVE  Contents(disk') /\ DOMAIN disk \subseteq DOMAIN disk' /\ p \in DOMAIN disk'
  BY DEF Contents, Put

\* The steps that only give a file a content.
LEMMA DiskTyped ==
    ASSUME FilesShaped, UNCHANGED <<files, nextHandle>>,
           Contents(disk'), DOMAIN disk \subseteq DOMAIN disk'
    PROVE  FilesShaped'
  BY DEF FilesShaped, EntryTyped

\* A free slot is taken, for a handle that nobody had.
LEMMA OpenTyped ==
    ASSUME FilesShaped, nextHandle <= MaxOpens, NEW i \in FileSlots, ~ files[i].in_use,
           NEW e, EntryTyped(e, disk', nextHandle + 1), e.handle = nextHandle,
           files' = [files EXCEPT ![i] = e], nextHandle' = nextHandle + 1,
           Contents(disk'), DOMAIN disk \subseteq DOMAIN disk'
    PROVE  FilesShaped'
<1>1. /\ files' = [k \in FileSlots |-> files'[k]] /\ files'[i] = e
      /\ \A k \in FileSlots \ {i} : files'[k] = files[k]
  BY DEF FilesShaped
<1>2. nextHandle \in Nat /\ nextHandle' \in 1 .. MaxOpens + 1
  BY FilesAssumption DEF FilesShaped
<1>3. ASSUME NEW k \in FileSlots
      PROVE  files'[k] = NoEntry \/ EntryTyped(files'[k], disk', nextHandle + 1)
  <2>1. CASE k = i  BY <1>1, <2>1
  <2>2. CASE k # i
    <3>1. files'[k] = NoEntry \/ EntryTyped(files'[k], disk, nextHandle)
      BY <1>1, <2>2 DEF FilesShaped
    <3> QED BY <1>2, <3>1 DEF EntryTyped
  <2> QED BY <2>1, <2>2
<1>4. \A k \in FileSlots \ {i} : files'[k].in_use => files'[k].handle \in 1 .. nextHandle - 1
  BY <1>1 DEF FilesShaped, EntryTyped, NoEntry
<1>5. \A j, k \in FileSlots :
         files'[j].in_use /\ files'[k].in_use /\ files'[j].handle = files'[k].handle => j = k
  <2> SUFFICES ASSUME NEW j \in FileSlots, NEW k \in FileSlots, files'[j].in_use,
                      files'[k].in_use, files'[j].handle = files'[k].handle, j # k
               PROVE  FALSE
    OBVIOUS
  <2>1. CASE j # i /\ k # i  BY <1>1, <2>1 DEF FilesShaped
  <2>2. CASE j = i \/ k = i
    <3>1. nextHandle \in 1 .. nextHandle - 1  BY <1>1, <1>4, <2>2
    <3> QED BY <1>2, <3>1
  <2> QED BY <2>1, <2>2
<1> QED BY <1>1, <1>2, <1>3, <1>5 DEF FilesShaped

LEMMA CreateTyped ==
    ASSUME FilesShaped, NEW s, NEW disposition, NEW writes,
           CreateFileW(s, disposition, writes)
    PROVE  FilesShaped'
<1>1. PICK p, m, mode, after :
         /\ p = wg_files_map_path(s) /\ m = MeantPath(s) /\ mode = Mode(disposition, writes)
         /\ after = IF Truncates(mode) \/ ~ Exists(p) THEN <<>> ELSE disk[p]
  OBVIOUS
<1>2. after \in Content
  BY <1>1 DEF Exists, FilesShaped, Contents, Content
<1>3. nextHandle <= MaxOpens  BY DEF CreateFileW
<1>4. CASE UNCHANGED <<files, nextHandle, disk>>
  <2>1. Contents(disk') /\ DOMAIN disk' = DOMAIN disk  BY <1>4 DEF FilesShaped
  <2>2. DOMAIN disk \subseteq DOMAIN disk'  BY <2>1
  <2> QED BY <1>4, <2>1, <2>2, DiskTyped
<1>5. CASE ~ UNCHANGED <<files, nextHandle, disk>>
  <2>1. /\ disk' = Put(disk, p, after)
        /\ IF FreeFileSlots = {} THEN UNCHANGED <<files, nextHandle>>
           ELSE /\ files' = [files EXCEPT ![FirstFree] = wg_files_create(p, mode, m)]
                /\ nextHandle' = nextHandle + 1
    BY <1>1, <1>5 DEF CreateFileW
  <2>2. Contents(disk') /\ DOMAIN disk \subseteq DOMAIN disk' /\ p \in DOMAIN disk'
    BY <1>2, <2>1, PutTyped DEF FilesShaped
  <2>3. CASE FreeFileSlots = {}  BY <2>1, <2>2, <2>3, DiskTyped
  <2>4. CASE FreeFileSlots # {}
    <3>1. PICK i, e : i = FirstFree /\ e = wg_files_create(p, mode, m)  OBVIOUS
    <3>2. i \in FileSlots /\ ~ files[i].in_use  BY <2>4, <3>1, FirstFreeIs DEF FreeFileSlots
    <3>3. e = [y \in EntryFields |-> e[y]]  BY <3>1 DEF wg_files_create, EntryFields
    <3>4. /\ e.in_use = TRUE /\ e.handle = nextHandle /\ e.path = p /\ e.pos = 0
          /\ e.append \in BOOLEAN /\ e.kept = <<>> /\ e.gone = FALSE /\ e.left = <<>>
      BY <3>1 DEF wg_files_create
    <3>5. IsEntry(e)  BY <3>3, <3>4 DEF IsEntry
    <3>6. EntryTyped(e, disk', nextHandle + 1)
      <4>1. <<>> \in Kept /\ <<>> \in Content  BY DEF Kept, Content
      <4>2. e.kept \in Kept /\ e.left \in Content /\ e.path \in DOMAIN disk'
        BY <2>2, <3>4, <4>1
      <4>3. e.handle \in 1 .. (nextHandle + 1) - 1
        <5>1. nextHandle \in Nat /\ nextHandle >= 1  BY FilesAssumption DEF FilesShaped
        <5> QED BY <3>4, <5>1
      <4>4. e.pos \in Nat  BY <3>4
      <4>5. e.append \in BOOLEAN /\ e.gone \in BOOLEAN  BY <3>4, Zenon
      <4> QED BY <3>5, <4>2, <4>3, <4>4, <4>5 DEF EntryTyped
    <3>7. files' = [files EXCEPT ![i] = e] /\ nextHandle' = nextHandle + 1
      BY <2>1, <2>4, <3>1
    <3> QED BY <1>3, <2>2, <3>2, <3>4, <3>6, <3>7, OpenTyped
  <2> QED BY <2>3, <2>4
<1> QED BY <1>4, <1>5

\* A file is deleted: the streams open on it keep what it held.
LEMMA RemovalTyped ==
    ASSUME FilesShaped, NEW p, disk' = Without(disk, {p}), files' = Unlinked({p}),
           nextHandle' = nextHandle
    PROVE  FilesShaped'
<1>1. /\ \A q : q \in DOMAIN disk' <=> q \in DOMAIN disk /\ q # p
      /\ \A q \in DOMAIN disk' : disk'[q] = disk[q]
  BY DEF Without
<1>2. Contents(disk')  BY <1>1 DEF Contents, FilesShaped
<1>3. files' = [k \in FileSlots |-> files'[k]]  BY DEF Unlinked
<1>4. ASSUME NEW k \in FileSlots
      PROVE  /\ files'[k] = NoEntry \/ EntryTyped(files'[k], disk', nextHandle)
             /\ files'[k].in_use => files[k].in_use /\ files'[k].handle = files[k].handle
  <2>1. CASE files[k].in_use /\ ~ files[k].gone /\ files[k].path = p
    <3>1. PICK f, l : f = files[k] /\ l = disk[p]  OBVIOUS
    <3>2. EntryTyped(f, disk, nextHandle)  BY <2>1, <3>1, Used
    <3>3. l \in Content
      BY <2>1, <3>1, <3>2 DEF EntryTyped, FilesShaped, Contents
    <3>4. PICK e : e = [f EXCEPT !.gone = TRUE, !.left = l]  OBVIOUS
    <3>5. files'[k] = e  BY <2>1, <3>1, <3>4 DEF Unlinked
    <3>6. /\ e = [y \in EntryFields |-> e[y]] /\ e["gone"] = TRUE /\ e["left"] = l
          /\ \A y \in EntryFields \ {"gone", "left"} : e[y] = f[y]
      BY <3>2, <3>4 DEF EntryTyped, IsEntry, EntryFields
    <3>7. /\ e.gone = TRUE /\ e.left = l /\ e.in_use = f.in_use /\ e.handle = f.handle
          /\ e.pos = f.pos /\ e.append = f.append /\ e.kept = f.kept /\ e.path = f.path
      BY <3>6 DEF EntryFields
    <3>8. EntryTyped(e, disk', nextHandle)
      BY <3>2, <3>3, <3>6, <3>7 DEF EntryTyped, IsEntry
    <3> QED BY <2>1, <3>1, <3>5, <3>7, <3>8
  <2>2. CASE ~ (files[k].in_use /\ ~ files[k].gone /\ files[k].path = p)
    <3>1. files'[k] = files[k]  BY <2>2 DEF Unlinked
    <3>2. files[k] = NoEntry \/ EntryTyped(files[k], disk, nextHandle)  BY DEF FilesShaped
    <3>3. files[k] = NoEntry \/ EntryTyped(files[k], disk', nextHandle)
      BY <1>1, <2>2, <3>2 DEF EntryTyped, IsEntry
    <3> QED BY <3>1, <3>3
  <2> QED BY <2>1, <2>2
<1>5. \A j, k \in FileSlots :
         files'[j].in_use /\ files'[k].in_use /\ files'[j].handle = files'[k].handle => j = k
  BY <1>4 DEF FilesShaped
<1>6. nextHandle \in 1 .. MaxOpens + 1  BY DEF FilesShaped
<1> QED BY <1>2, <1>3, <1>4, <1>5, <1>6 DEF FilesShaped

LEMMA FilesTypedInitially == FilesInit => FilesShaped
<1> SUFFICES ASSUME FilesInit PROVE FilesShaped  OBVIOUS
<1>1. /\ files = [i \in FileSlots |-> NoEntry] /\ nextHandle = 1
      /\ disk = [p \in {ExePath} |-> <<2>>]
  BY DEF FilesInit
<1>2. <<2>> \in Content
  <2>1. 2 \in FileByte  BY DEF FileByte
  <2> QED BY <2>1 DEF Content
<1>3. \A i \in FileSlots : files[i] = NoEntry /\ ~ files[i].in_use  BY <1>1 DEF NoEntry
<1>4. 1 \in 1 .. MaxOpens + 1  BY FilesAssumption
<1> QED BY <1>1, <1>2, <1>3, <1>4 DEF FilesShaped, Contents

LEMMA FilesTypedStep == FilesShaped /\ [FilesNext]_filesVars => FilesShaped'
<1> SUFFICES ASSUME FilesShaped, [FilesNext]_filesVars PROVE FilesShaped'  OBVIOUS
<1>1. ASSUME UNCHANGED <<files, nextHandle, disk>> PROVE FilesShaped'
  <2>1. Contents(disk') /\ DOMAIN disk' = DOMAIN disk  BY <1>1 DEF FilesShaped
  <2>2. DOMAIN disk \subseteq DOMAIN disk'  BY <2>1
  <2> QED BY <1>1, <2>1, <2>2, DiskTyped
<1>2. CASE UNCHANGED filesVars  BY <1>1, <1>2 DEF filesVars
<1>3. ASSUME NEW s, CreateDirectoryW(s) PROVE FilesShaped'
  BY <1>1, <1>3 DEF CreateDirectoryW
<1>4. ASSUME NEW s, DeleteFileW(s) PROVE FilesShaped'
  <2>1. PICK p : p = wg_files_map_path(s)  OBVIOUS
  <2>2. disk' = Without(disk, {p}) /\ files' = Unlinked({p}) /\ nextHandle' = nextHandle
    BY <1>4, <2>1 DEF DeleteFileW
  <2> QED BY <2>2, RemovalTyped
<1>5. ASSUME NEW s \in Spellings,
             \/ \E d \in Dispositions, writes \in BOOLEAN : CreateFileW(s, d, writes)
             \/ DeleteFileW(s)
             \/ CreateDirectoryW(s)
      PROVE  FilesShaped'
  BY <1>3, <1>4, <1>5, CreateTyped
<1>6. ASSUME NEW h \in HandlesGiven,
             \/ ReadFile(h)
             \/ \E b \in FileBytes : WriteFile(h, b)
             \/ SetFilePointer(h, 0, "SEEK_SET") \/ SetFilePointer(h, -1, "SEEK_CUR")
             \/ SetFilePointer(h, 0, "SEEK_END")
             \/ GetFileSize(h)
             \/ CloseHandle(h)
      PROVE  FilesShaped'
  BY <1>6, ReadTyped, WriteTyped, SeekTyped, SizeTyped, CloseTyped
<1>7. ASSUME NEW folder, SetCurrentDirectoryW(folder) PROVE FilesShaped'
  BY <1>1, <1>7 DEF SetCurrentDirectoryW
<1>8. CASE GetTempFileNameW
  <2>1. PICK p, c : p = TempPath /\ c = <<>>  OBVIOUS
  <2>2. disk' = Put(disk, p, c) /\ UNCHANGED <<files, nextHandle>>
    BY <1>8, <2>1 DEF GetTempFileNameW
  <2>3. c \in Content  BY <2>1 DEF Content
  <2>4. Contents(disk') /\ DOMAIN disk \subseteq DOMAIN disk'
    BY <2>2, <2>3, PutTyped DEF FilesShaped
  <2> QED BY <2>2, <2>4, DiskTyped
<1>9. CASE wg_files_reset_temp  BY <1>9, RemovalTyped DEF wg_files_reset_temp
<1> QED BY <1>2, <1>5, <1>6, <1>7, <1>8, <1>9 DEF FilesNext

\* The table of open files is one of entries whose handles were given out and are all
\* different, each with a place in a file that is on the disk or was deleted while it
\* was open, and every file holds bytes: what the guest wrote, or the zeros of a hole
\* that a seek past the end has left (s_files, wg_files_create, DeleteFileW).
THEOREM FilesTyped == FilesSpec => []FilesTypeOK
<1>1. FilesShaped => FilesTypeOK
  <2> SUFFICES ASSUME FilesShaped PROVE FilesTypeOK  OBVIOUS
  <2>1. DOMAIN files = FileSlots  BY DEF FilesShaped
  <2>2. \A p \in DOMAIN disk : disk[p] \in Seq(FileBytes \cup {0, 2})
    BY DEF FilesShaped, Contents, Content, FileByte
  <2>3. ASSUME NEW i \in FileSlots, files[i].in_use
        PROVE  /\ files[i].handle \in HandlesGiven /\ files[i].pos \in Nat
               /\ \A k \in FileSlots \ {i} :
                     files[k].in_use => files[k].handle # files[i].handle
               /\ files[i].gone \/ Exists(files[i].path)
    <3>1. EntryTyped(files[i], disk, nextHandle)  BY <2>3, Used
    <3>2. \A k \in FileSlots \ {i} : files[k].in_use => files[k].handle # files[i].handle
      BY <2>3 DEF FilesShaped
    <3> QED BY <3>1, <3>2 DEF EntryTyped, HandlesGiven, Exists
  <2>4. nextHandle \in 1 .. MaxOpens + 1  BY DEF FilesShaped
  <2> QED BY <2>1, <2>2, <2>3, <2>4 DEF FilesTypeOK
<1> QED BY <1>1, FilesTypedInitially, FilesTypedStep, PTL DEF FilesSpec

=============================================================================
