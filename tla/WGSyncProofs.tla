---------------------------- MODULE WGSyncProofs ----------------------------
(***************************************************************************)
(* Theorems about WGSync for every number of threads, events and           *)
(* completions, whatever calls the guest program makes.                    *)
(***************************************************************************)
EXTENDS WGSync, WGThreadingProofs, SequenceTheorems

-----------------------------------------------------------------------------
(* Register files and handles.                                             *)

LEMMA PlaceTypes == Guest \in Place /\ Zero \in Place /\ Zero # Guest
<1>1. <<0>> \in Seq(Nat) \ {<<>>}
  OBVIOUS
<1>2. Guest \in Place
  BY <1>1 DEF Guest, Place, Ops
<1> QED BY <1>1, <1>2 DEF Guest, Zero, Place, Ops

LEMMA BumpType == \A n \in Counts : Bump(n) \in Counts
BY SyncAssumption DEF Counts, Bump

\* The common epilogue touches blink's registers only.
LEMMA ReturnedFields ==
    ASSUME NEW s \in Scheduler(Context)
    PROVE  /\ Returned(s) \in Scheduler(Context)
           /\ Returned(s).cur = s.cur /\ Returned(s).st = s.st
           /\ Returned(s).waitOn = s.waitOn /\ Returned(s).regs = s.regs
           /\ Returned(s).cpu = [own |-> s.cpu.own, n |-> Bump(s.cpu.n), at |-> Guest]
           /\ Returned(s).cpu.at = Guest
<1> DEFINE c == [own |-> s.cpu.own, n |-> Bump(s.cpu.n), at |-> Guest]
           x == [st |-> s.st, cur |-> s.cur, waitOn |-> s.waitOn,
                 regs |-> s.regs, cpu |-> c]
<1>1. s.cpu \in Context
  BY DEF Scheduler
<1>2. c \in Context
  BY <1>1, PlaceTypes, BumpType DEF Context
<1>3. x \in Scheduler(Context)
  BY <1>2 DEF Scheduler
<1>4. Returned(s) = x
  <2> DEFINE s1 == [s EXCEPT !.cpu.at = Guest]
  <2>1. s1 = [st |-> s.st, cur |-> s.cur, waitOn |-> s.waitOn, regs |-> s.regs,
              cpu |-> [own |-> s.cpu.own, n |-> s.cpu.n, at |-> Guest]]
    BY <1>1 DEF Scheduler, Context
  <2>2. Returned(s) = [s1 EXCEPT !.cpu.n = Bump(s1.cpu.n)]
    BY DEF Returned
  <2> HIDE DEF s1
  <2> QED BY <2>1, <2>2
<1> QED BY <1>3, <1>4

LEMMA GoToFields ==
    ASSUME NEW s \in Scheduler(Context), NEW p \in Place
    PROVE  /\ GoTo(s, p) \in Scheduler(Context)
           /\ GoTo(s, p).cur = s.cur /\ GoTo(s, p).st = s.st
           /\ GoTo(s, p).waitOn = s.waitOn /\ GoTo(s, p).regs = s.regs
           /\ GoTo(s, p).cpu = [own |-> s.cpu.own, n |-> s.cpu.n, at |-> p]
           /\ GoTo(s, p).cpu.at = p
<1> DEFINE c == [own |-> s.cpu.own, n |-> s.cpu.n, at |-> p]
           x == [st |-> s.st, cur |-> s.cur, waitOn |-> s.waitOn,
                 regs |-> s.regs, cpu |-> c]
<1>1. s.cpu \in Context
  BY DEF Scheduler
<1>2. x \in Scheduler(Context)
  BY <1>1 DEF Scheduler, Context
<1>3. GoTo(s, p) = x
  BY <1>1 DEF GoTo, Scheduler, Context
<1> QED BY <1>2, <1>3

LEMMA ArmedFields ==
    ASSUME NEW s \in Scheduler(Context), NEW p \in Place, NEW h \in Nat
    PROVE  /\ Armed(s, p, h) \in Scheduler(Context)
           /\ Armed(s, p, h).cur = s.cur
           /\ Armed(s, p, h).st = s.st /\ Armed(s, p, h).regs = s.regs
           /\ Armed(s, p, h).waitOn = [s.waitOn EXCEPT ![s.cur] = h]
           /\ Armed(s, p, h).cpu = [own |-> s.cpu.own, n |-> s.cpu.n, at |-> p]
<1> DEFINE s1 == GoTo(s, p)
           x  == [st |-> s1.st, cur |-> s1.cur, waitOn |-> [s1.waitOn EXCEPT ![s.cur] = h],
                  regs |-> s1.regs, cpu |-> s1.cpu]
<1>1. /\ s1 \in Scheduler(Context)
      /\ s1.cur = s.cur /\ s1.st = s.st /\ s1.waitOn = s.waitOn /\ s1.regs = s.regs
      /\ s1.cpu = [own |-> s.cpu.own, n |-> s.cpu.n, at |-> p]
  BY GoToFields
<1>2. Armed(s, p, h) = [s1 EXCEPT !.waitOn[s.cur] = h]
  BY DEF Armed, GoTo
<1> HIDE DEF s1
<1>3. [s1 EXCEPT !.waitOn[s.cur] = h] = x
  BY <1>1 DEF Scheduler
<1>4. x \in Scheduler(Context)
  BY <1>1 DEF Scheduler
<1> QED BY <1>1, <1>2, <1>3, <1>4

-----------------------------------------------------------------------------
(* The core invariant.                                                     *)

\* An engine that is loaded or paused has a current thread, in guest code: it
\* pauses only after a handler's epilogue.
IdleAtGuest ==
    estate \in {"LOADED", "PAUSED"} => sched.cur # NoThread /\ sched.cpu.at = Guest

CoreInv == TypeOK /\ CurrentRuns /\ IdleAtGuest

\* Whoever enters a handler is a thread of the table.
LEMMA CallerExists ==
    ASSUME CoreInv, Running, sched.cpu.at # Zero
    PROVE  sched.cur \in Slots /\ sched.st[sched.cur] = "RUNNING"
BY DEF CoreInv, CurrentRuns, TypeOK, Scheduler

LEMMA CountedType ==
    ASSUME TypeOK, Counted
    PROVE  done' \in [Slots -> Counts]
BY BumpType DEF TypeOK, Counted, Scheduler, Context

LEMMA BlockFields ==
    ASSUME TypeOK, sched.cur # NoThread, NEW w \in Place, NEW h \in Nat,
           NEW reason \in {"READY", "WAITING"}, Block(w, h, reason)
    PROVE  /\ sched' \in Scheduler(Context)
           /\ sched'.cur \in Slots
           /\ sched'.waitOn = [sched.waitOn EXCEPT ![sched.cur] = h]
           /\ \A i \in Slots :
                /\ sched'.st[i] = IF i = sched'.cur THEN "RUNNING"
                                  ELSE IF i = sched.cur THEN reason ELSE sched.st[i]
                /\ sched'.regs[i] = IF i # sched.cur THEN sched.regs[i]
                                    ELSE [own |-> sched.cpu.own, n |-> sched.cpu.n, at |-> w]
           /\ \/ /\ sched'.cur # sched.cur => sched.st[sched'.cur] = "READY"
                 /\ sched'.cur = sched.cur => reason = "READY"
                 /\ sched'.cpu = sched'.regs[sched'.cur]
                 /\ \A j \in Slots : sched.st[j] = "READY" =>
                        Dist(sched.cur, sched'.cur) <= Dist(sched.cur, j) \/ j = sched.cur
                 /\ UNCHANGED done
              \/ /\ sched'.cur = sched.cur
                 /\ sched'.cpu = [own |-> sched.cpu.own, n |-> Bump(sched.cpu.n), at |-> Guest]
                 /\ Counted
<1> DEFINE a == Armed(sched, w, h)
           y == Yield(a, reason)
<1>1. sched \in Scheduler(Context)
  BY DEF TypeOK
<1>2. /\ a \in Scheduler(Context)
      /\ a.cur = sched.cur /\ a.cur # NoThread
      /\ a.st = sched.st /\ a.regs = sched.regs
      /\ a.waitOn = [sched.waitOn EXCEPT ![sched.cur] = h]
      /\ a.cpu = [own |-> sched.cpu.own, n |-> sched.cpu.n, at |-> w]
  BY <1>1, ArmedFields
<1>3. IF Switched(a, reason) THEN sched' = y /\ UNCHANGED done
                             ELSE sched' = Returned(y) /\ Counted
  BY DEF Block
<1> HIDE DEF a
<1>4. /\ y \in Scheduler(Context)
      /\ y.cur \in Slots
      /\ y.waitOn = a.waitOn
      /\ \A i \in Slots :
           /\ y.regs[i] = IF i = a.cur THEN a.cpu ELSE a.regs[i]
           /\ y.st[i] = IF i = y.cur THEN "RUNNING"
                        ELSE IF i = a.cur THEN reason ELSE a.st[i]
      /\ y.cpu = y.regs[y.cur]
      /\ Switched(a, reason) =>
           /\ y.cur # a.cur => a.st[y.cur] = "READY"
           /\ y.cur = a.cur => reason = "READY"
           /\ \A j \in Slots :
                a.st[j] = "READY" => Dist(a.cur, y.cur) <= Dist(a.cur, j) \/ j = a.cur
      /\ ~Switched(a, reason) => y.cur = a.cur
  BY <1>2, YieldFields
<1>5. /\ Returned(y) \in Scheduler(Context)
      /\ Returned(y).cur = y.cur /\ Returned(y).st = y.st
      /\ Returned(y).waitOn = y.waitOn /\ Returned(y).regs = y.regs
      /\ Returned(y).cpu = [own |-> y.cpu.own, n |-> Bump(y.cpu.n), at |-> Guest]
  BY <1>4, ReturnedFields
<1> HIDE DEF y
<1>6. CASE Switched(a, reason)
  BY <1>2, <1>3, <1>4, <1>6
<1>7. CASE ~Switched(a, reason)
  <2>1. y.cpu = a.cpu
    BY <1>1, <1>2, <1>4, <1>7 DEF Scheduler
  <2> QED BY <1>2, <1>3, <1>4, <1>5, <1>7, <2>1
<1> QED BY <1>6, <1>7

\* The arguments of a wait: those it was stopped with, or fresh ones.
LEMMA WaitArguments ==
    ASSUME TypeOK, NEW op \in Ops, op # "zero", NEW fresh \in SUBSET Place,
           NEW w \in Handling(op, fresh)
    PROVE  w \in Place /\ sched.cpu.at # Zero
<1>1. sched.cpu.at \in Place
  BY DEF TypeOK, Scheduler, Context
<1>2. CASE sched.cpu.at.op = op
  BY <1>1, <1>2 DEF Handling, Zero
<1>3. CASE sched.cpu.at.op # op
  BY <1>3, PlaceTypes DEF Handling, Calling
<1> QED BY <1>2, <1>3

LEMMA ConsumeType ==
    ASSUME TypeOK, NEW H, Consume(H)
    PROVE  evSig' \in [Events -> BOOLEAN]
<1>1. \A e \in Events : (evSig[e] /\ (EventHandle(e) \in H => evManual[e])) \in BOOLEAN
  OBVIOUS
<1> QED BY <1>1 DEF Consume

\* A wait changes the scheduler by an epilogue or by Block, and it leaves the
\* event flags well-formed.
LEMMA WaitCases ==
    ASSUME TypeOK, NEW w \in Place, Wait(w)
    PROVE  /\ evSig' \in [Events -> BOOLEAN]
           /\ \/ sched' = Returned(sched) /\ Counted
              \/ w.hs[1] \in Nat /\ WaitReason(w) \in {"READY", "WAITING"}
                   /\ Block(w, w.hs[1], WaitReason(w))
<1>1. w.hs[1] \in Nat
  BY DEF Place
<1>2. evSig \in [Events -> BOOLEAN]
  BY DEF TypeOK
<1>3. WaitReason(w) \in {"READY", "WAITING"}
  BY DEF WaitReason
<1>4. CASE Satisfied(w) /\ Consume(ConsumedBy(w)) /\ sched' = Returned(sched) /\ Counted
  BY <1>4, ConsumeType
<1>5. CASE sched' = Returned(sched) /\ Counted /\ UNCHANGED evSig
  BY <1>2, <1>5
<1>6. CASE Block(w, w.hs[1], WaitReason(w)) /\ UNCHANGED evSig
  BY <1>1, <1>2, <1>3, <1>6
<1> QED BY <1>4, <1>5, <1>6 DEF Wait

LEMMA HandleTypes ==
    ASSUME TypeOK
    PROVE  KnownHandles \subseteq Nat /\ IocpHandle \in Nat
BY MaxThreadsAssumption
   DEF TypeOK, KnownHandles, EventHandle, IocpHandle, ThreadHandle, Slots, Main, Events

\* Fresh arguments of the three waits are well-formed.
LEMMA FreshTypes ==
    ASSUME TypeOK
    PROVE  /\ [op : {"WaitSingle"}, hs : {<<h>> : h \in KnownHandles},
               all : {FALSE}, to : Timeouts] \subseteq Place
           /\ [op : {"WaitMultiple"},
               hs : {p \in KnownHandles \X KnownHandles : p[1] # p[2]},
               all : BOOLEAN, to : Timeouts] \subseteq Place
           /\ [op : {"GQCS"}, hs : {<<IocpHandle>>},
               all : {FALSE}, to : Timeouts] \subseteq Place
<1>1. \A h \in Nat : <<h>> \in Seq(Nat) \ {<<>>}
  OBVIOUS
<1>2. \A h, k \in Nat : <<h, k>> \in Seq(Nat) \ {<<>>}
  OBVIOUS
<1>3. \A p \in KnownHandles \X KnownHandles : p = <<p[1], p[2]>> /\ p[1] \in Nat /\ p[2] \in Nat
  BY HandleTypes
<1>4. {p \in KnownHandles \X KnownHandles : p[1] # p[2]} \subseteq Seq(Nat) \ {<<>>}
  <2>1. ASSUME NEW p \in KnownHandles \X KnownHandles
        PROVE  p \in Seq(Nat) \ {<<>>}
    <3>1. <<p[1], p[2]>> \in Seq(Nat) \ {<<>>}
      BY <1>2, <1>3
    <3>2. p = <<p[1], p[2]>>
      BY <1>3
    <3> QED BY <3>1, <3>2, Zenon
  <2> QED BY <2>1, Zenon
<1>5. {<<h>> : h \in KnownHandles} \subseteq Seq(Nat) \ {<<>>}
  BY <1>1, HandleTypes
<1>6. {<<IocpHandle>>} \subseteq Seq(Nat) \ {<<>>}
  BY <1>1, HandleTypes
<1>7. Timeouts \subseteq {"zero", "finite", "infinite"}
  BY SyncAssumption
<1> QED BY <1>4, <1>5, <1>6, <1>7 DEF Place, Ops

-----------------------------------------------------------------------------
(* The core invariant holds initially and every step preserves it.         *)

LEMMA CoreInit == Init => CoreInv
<1> SUFFICES ASSUME Init PROVE CoreInv
  OBVIOUS
<1>1. Main \in Slots /\ Main # NoThread
  BY MaxThreadsAssumption DEF Main, Slots, NoThread
<1>2. 0 \in Counts /\ 0 \in 0 .. MaxEvents /\ 0 \in 0 .. IocpCapacity
  BY SyncAssumption DEF Counts
<1>3. \A t \in Slots : NewContext(t) \in Context
  BY <1>2, PlaceTypes DEF NewContext, Context
<1>4. /\ sched.st = [t \in Slots |-> IF t = Main THEN "RUNNING" ELSE "FREE"]
      /\ sched.cur = Main /\ sched.cpu = NewContext(Main)
  BY DEF Init
<1>5. sched \in Scheduler(Context)
  BY <1>1, <1>3 DEF Init, Scheduler, ThreadState
<1>6. TypeOK
  BY <1>2, <1>5 DEF Init, TypeOK
<1>7. CurrentRuns /\ IdleAtGuest
  BY <1>1, <1>4 DEF Init, CurrentRuns, IdleAtGuest, Running, NewContext
<1> QED BY <1>6, <1>7 DEF CoreInv

\* Most handlers go through the common epilogue and change neither the current
\* thread nor the engine's state; SetEvent and the completions wake others.
LEMMA CoreKept ==
    ASSUME CoreInv, Running, sched.cpu.at # Zero,
           sched' \in Scheduler(Context), sched'.cur # NoThread,
           sched'.st[sched'.cur] = "RUNNING", estate' = "RUNNING",
           evNext' \in 0 .. MaxEvents, evSig' \in [Events -> BOOLEAN],
           evManual' \in [Events -> BOOLEAN], iocp' \in 0 .. IocpCapacity,
           nsdPause' \in BOOLEAN, done' \in [Slots -> Counts], exiting' \in BOOLEAN
    PROVE  CoreInv'
BY DEF CoreInv, TypeOK, CurrentRuns, IdleAtGuest, Running

\* The scheduler after an epilogue, after a wake-up and an epilogue, after a
\* wait: still well-formed, with a RUNNING current thread.
LEMMA ReturnedRuns ==
    ASSUME CoreInv, Running, sched.cpu.at # Zero, sched' = Returned(sched)
    PROVE  sched' \in Scheduler(Context) /\ sched'.cur # NoThread
           /\ sched'.st[sched'.cur] = "RUNNING"
<1>1. sched \in Scheduler(Context)
  BY DEF CoreInv, TypeOK
<1> QED BY <1>1, ReturnedFields DEF CoreInv, CurrentRuns

LEMMA WokenRuns ==
    ASSUME CoreInv, Running, sched.cpu.at # Zero, NEW h, sched' = Returned(Wake(sched, h))
    PROVE  sched' \in Scheduler(Context) /\ sched'.cur # NoThread
           /\ sched'.st[sched'.cur] = "RUNNING"
<1>1. sched \in Scheduler(Context)
  BY DEF CoreInv, TypeOK
<1>2. /\ Wake(sched, h) \in Scheduler(Context)
      /\ Wake(sched, h).cur = sched.cur
      /\ \A i \in Slots : sched.st[i] = "RUNNING" => Wake(sched, h).st[i] = "RUNNING"
  BY <1>1, WakeFields
<1>3. /\ Returned(Wake(sched, h)) \in Scheduler(Context)
      /\ Returned(Wake(sched, h)).cur = sched.cur
      /\ Returned(Wake(sched, h)).st = Wake(sched, h).st
  BY <1>2, ReturnedFields
<1>4. sched.cur \in Slots /\ sched.cur # NoThread /\ sched.st[sched.cur] = "RUNNING"
  BY CallerExists DEF CoreInv, CurrentRuns
<1> QED BY <1>2, <1>3, <1>4

LEMMA BlockRuns ==
    ASSUME CoreInv, Running, sched.cpu.at # Zero, NEW w \in Place, NEW h \in Nat,
           NEW reason \in {"READY", "WAITING"}, Block(w, h, reason)
    PROVE  /\ sched' \in Scheduler(Context) /\ sched'.cur # NoThread
           /\ sched'.st[sched'.cur] = "RUNNING"
           /\ done' \in [Slots -> Counts]
<1>1. TypeOK /\ sched.cur # NoThread
  BY DEF CoreInv, CurrentRuns
<1>2. sched' \in Scheduler(Context) /\ sched'.cur \in Slots
      /\ sched'.st[sched'.cur] = "RUNNING"
  BY <1>1, BlockFields
<1>3. UNCHANGED done \/ Counted
  BY DEF Block
<1>4. done' \in [Slots -> Counts]
  BY <1>1, <1>3, CountedType DEF TypeOK
<1>5. NoThread \notin Slots
  BY MaxThreadsAssumption DEF NoThread, Slots
<1> QED BY <1>2, <1>4, <1>5

LEMMA WaitRuns ==
    ASSUME CoreInv, Running, sched.cpu.at # Zero, NEW w \in Place, Wait(w)
    PROVE  /\ sched' \in Scheduler(Context) /\ sched'.cur # NoThread
           /\ sched'.st[sched'.cur] = "RUNNING"
           /\ done' \in [Slots -> Counts] /\ evSig' \in [Events -> BOOLEAN]
<1>1. TypeOK
  BY DEF CoreInv
<1>2. CASE sched' = Returned(sched) /\ Counted
  BY <1>1, <1>2, ReturnedRuns, CountedType, WaitCases
<1>3. CASE w.hs[1] \in Nat /\ WaitReason(w) \in {"READY", "WAITING"}
           /\ Block(w, w.hs[1], WaitReason(w))
  BY <1>1, <1>3, BlockRuns, WaitCases
<1> QED BY <1>1, <1>2, <1>3, WaitCases

LEMMA YieldRuns ==
    ASSUME CoreInv, Running, sched.cpu.at # Zero, sched' = Yield(Returned(sched), "READY")
    PROVE  /\ sched' \in Scheduler(Context) /\ sched'.cur # NoThread
           /\ sched'.st[sched'.cur] = "RUNNING"
           /\ ~Switched(Returned(sched), "READY") => sched'.cpu.at = Guest
<1> DEFINE r == Returned(sched)
<1>1. sched \in Scheduler(Context)
  BY DEF CoreInv, TypeOK
<1>2. r \in Scheduler(Context) /\ r.cur = sched.cur /\ r.cpu.at = Guest
  BY <1>1, ReturnedFields
<1>3. r.cur \in Slots /\ r.cur # NoThread
  BY <1>2, CallerExists DEF CoreInv, CurrentRuns
<1> HIDE DEF r
<1>4. /\ Yield(r, "READY") \in Scheduler(Context)
      /\ Yield(r, "READY").cur \in Slots
      /\ Yield(r, "READY").cpu = Yield(r, "READY").regs[Yield(r, "READY").cur]
      /\ \A i \in Slots :
           /\ Yield(r, "READY").regs[i] = IF i = r.cur THEN r.cpu ELSE r.regs[i]
           /\ Yield(r, "READY").st[i] = IF i = Yield(r, "READY").cur THEN "RUNNING"
                                        ELSE IF i = r.cur THEN "READY" ELSE r.st[i]
      /\ ~Switched(r, "READY") => Yield(r, "READY").cur = r.cur
  BY <1>2, <1>3, YieldFields
<1>5. NoThread \notin Slots
  BY MaxThreadsAssumption DEF NoThread, Slots
<1> QED BY <1>2, <1>3, <1>4, <1>5 DEF r

LEMMA SpawnRuns ==
    ASSUME CoreInv, Running, sched.cpu.at # Zero, NEW suspended \in BOOLEAN,
           NEW i \in Slots, FirstFree(sched, i),
           sched' = Returned(CreateThread(sched, i, NewContext(i), suspended)),
           done' = [done EXCEPT ![sched.cpu.own] = Bump(@), ![i] = 0]
    PROVE  /\ sched' \in Scheduler(Context) /\ sched'.cur # NoThread
           /\ sched'.st[sched'.cur] = "RUNNING" /\ done' \in [Slots -> Counts]
<1> DEFINE c == CreateThread(sched, i, NewContext(i), suspended)
<1>1. sched \in Scheduler(Context) /\ done \in [Slots -> Counts]
      /\ sched.cpu.own \in Slots
  BY DEF CoreInv, TypeOK, Scheduler, Context
<1>2. 0 \in Counts
  BY SyncAssumption DEF Counts
<1>3. NewContext(i) \in Context
  BY <1>2, PlaceTypes DEF NewContext, Context
<1>4. /\ c \in Scheduler(Context) /\ c.cur = sched.cur
      /\ \A j \in Slots : j # i => c.st[j] = sched.st[j]
  BY <1>1, <1>3, CreateThreadFields
<1>5. sched.cur \in Slots /\ sched.st[sched.cur] = "RUNNING" /\ sched.cur # i
      /\ sched.cur # NoThread
  BY CallerExists DEF FirstFree, CoreInv, CurrentRuns
<1> HIDE DEF c
<1>6. sched' = Returned(c)
  BY DEF c
<1>7. Returned(c) \in Scheduler(Context) /\ Returned(c).cur = c.cur
      /\ Returned(c).st = c.st
  BY <1>4, ReturnedFields
<1>8. done' \in [Slots -> Counts]
  BY <1>1, <1>2, BumpType
<1> QED BY <1>4, <1>5, <1>6, <1>7, <1>8

LEMMA CoreNext == CoreInv /\ [Next]_syncVars => CoreInv'
<1> SUFFICES ASSUME CoreInv, [Next]_syncVars PROVE CoreInv'
  OBVIOUS
<1>1. TypeOK /\ sched \in Scheduler(Context)
  BY DEF CoreInv, TypeOK
<1>2. Zero # Guest /\ Zero \in Place
  BY PlaceTypes
<1>3. ASSUME CreateEvent PROVE CoreInv'
  <2>1. Running /\ sched.cpu.at # Zero /\ sched' = Returned(sched) /\ Counted
    BY <1>2, <1>3 DEF CreateEvent, Calling
  <2>2. /\ evNext' \in 0 .. MaxEvents
        /\ evSig' \in [Events -> BOOLEAN] /\ evManual' \in [Events -> BOOLEAN]
    BY <1>1, <1>3, SyncAssumption DEF CreateEvent, TypeOK
  <2> QED BY <1>1, <1>3, <2>1, <2>2, ReturnedRuns, CountedType, CoreKept
          DEF CreateEvent, TypeOK, Running
<1>4. ASSUME SetEvent PROVE CoreInv'
  <2>1. PICK e \in 0 .. evNext - 1 : /\ evSig' = [evSig EXCEPT ![e] = TRUE]
                                     /\ sched' = Returned(Wake(sched, EventHandle(e)))
    BY <1>4 DEF SetEvent
  <2>2. Running /\ sched.cpu.at # Zero /\ Counted
    BY <1>2, <1>4 DEF SetEvent, Calling
  <2>3. evSig' \in [Events -> BOOLEAN]
    BY <1>1, <2>1 DEF TypeOK
  <2> QED BY <1>1, <1>4, <2>1, <2>2, <2>3, WokenRuns, CountedType, CoreKept
          DEF SetEvent, TypeOK, Running
<1>5. ASSUME ResetEvent PROVE CoreInv'
  <2>1. Running /\ sched.cpu.at # Zero /\ sched' = Returned(sched) /\ Counted
    BY <1>2, <1>5 DEF ResetEvent, Calling
  <2>2. evSig' \in [Events -> BOOLEAN]
    BY <1>1, <1>5 DEF ResetEvent, TypeOK
  <2> QED BY <1>1, <1>5, <2>1, <2>2, ReturnedRuns, CountedType, CoreKept
          DEF ResetEvent, TypeOK, Running
<1>6. ASSUME PostQueuedCompletionStatus PROVE CoreInv'
  <2>1. Running /\ sched.cpu.at # Zero /\ Counted
        /\ sched' = Returned(Wake(sched, IocpHandle))
    BY <1>2, <1>6 DEF PostQueuedCompletionStatus, Calling
  <2>2. iocp' \in 0 .. IocpCapacity
    BY <1>1, <1>6, SyncAssumption DEF PostQueuedCompletionStatus, TypeOK
  <2> QED BY <1>1, <1>6, <2>1, <2>2, WokenRuns, CountedType, CoreKept
          DEF PostQueuedCompletionStatus, TypeOK, Running
<1>7. ASSUME NEW call, NEW suspended \in BOOLEAN, Spawn(call, suspended)
      PROVE  CoreInv'
  <2>1. Running /\ sched.cpu.at # Zero
    BY <1>2, <1>7 DEF Spawn, Calling
  <2>2. ASSUME NEW i \in Slots, FirstFree(sched, i),
               sched' = Returned(CreateThread(sched, i, NewContext(i), suspended)),
               done' = [done EXCEPT ![sched.cpu.own] = Bump(@), ![i] = 0]
        PROVE  /\ sched' \in Scheduler(Context) /\ sched'.cur # NoThread
               /\ sched'.st[sched'.cur] = "RUNNING" /\ done' \in [Slots -> Counts]
    BY <1>1, <2>1, <2>2, SpawnRuns
  <2>3. CASE sched' = Returned(sched) /\ Counted
    BY <1>1, <1>7, <2>1, <2>3, ReturnedRuns, CountedType, CoreKept DEF Spawn, TypeOK, Running
  <2> QED BY <1>1, <1>7, <2>1, <2>2, <2>3, CoreKept DEF Spawn, TypeOK, Running
<1>8. ASSUME ResumeThread PROVE CoreInv'
  <2>1. PICK i \in Slots : sched' = Returned(Resume(sched, i))
    BY <1>8 DEF ResumeThread
  <2> DEFINE c == Resume(sched, i)
  <2>2. Running /\ sched.cpu.at # Zero /\ Counted
    BY <1>2, <1>8 DEF ResumeThread, Calling
  <2>3. /\ c \in Scheduler(Context) /\ c.cur = sched.cur
        /\ \A j \in Slots : sched.st[j] = "RUNNING" => c.st[j] = "RUNNING"
    BY <1>1, ResumeFields
  <2>4. sched.cur \in Slots /\ sched.st[sched.cur] = "RUNNING" /\ sched.cur # NoThread
    BY <2>2, CallerExists DEF CoreInv, CurrentRuns
  <2> HIDE DEF c
  <2>5. sched' \in Scheduler(Context) /\ sched'.cur # NoThread
        /\ sched'.st[sched'.cur] = "RUNNING"
    <3>1. sched' = Returned(c)
      BY <2>1 DEF c
    <3>2. Returned(c) \in Scheduler(Context) /\ Returned(c).cur = c.cur
          /\ Returned(c).st = c.st
      BY <2>3, ReturnedFields
    <3> QED BY <2>3, <2>4, <3>1, <3>2
  <2> QED BY <1>1, <1>8, <2>2, <2>5, CountedType, CoreKept DEF ResumeThread, TypeOK, Running
<1>9. ASSUME WaitForSingleObject PROVE CoreInv'
  <2>1. PICK w \in Handling("WaitSingle",
                  [op : {"WaitSingle"}, hs : {<<h>> : h \in KnownHandles},
                   all : {FALSE}, to : Timeouts]) : Wait(w)
    BY <1>9 DEF WaitForSingleObject
  <2>2. w \in Place /\ sched.cpu.at # Zero
    BY <1>1, FreshTypes, WaitArguments DEF Ops
  <2> QED BY <1>1, <1>9, <2>1, <2>2, WaitRuns, CoreKept
          DEF WaitForSingleObject, TypeOK, Running
<1>10. ASSUME WaitForMultipleObjects PROVE CoreInv'
  <2>1. PICK w \in Handling("WaitMultiple",
                  [op : {"WaitMultiple"},
                   hs : {p \in KnownHandles \X KnownHandles : p[1] # p[2]},
                   all : BOOLEAN, to : Timeouts]) : Wait(w)
    BY <1>10 DEF WaitForMultipleObjects
  <2>2. w \in Place /\ sched.cpu.at # Zero
    BY <1>1, FreshTypes, WaitArguments DEF Ops
  <2> QED BY <1>1, <1>10, <2>1, <2>2, WaitRuns, CoreKept
          DEF WaitForMultipleObjects, TypeOK, Running
<1>11. ASSUME GetQueuedCompletionStatus PROVE CoreInv'
  <2>1. PICK w \in Handling("GQCS", [op : {"GQCS"}, hs : {<<IocpHandle>>},
                                     all : {FALSE}, to : Timeouts]) :
          \/ iocp > 0 /\ iocp' = iocp - 1 /\ sched' = Returned(sched) /\ Counted
          \/ sched' = Returned(sched) /\ Counted /\ UNCHANGED iocp
          \/ Block(w, IocpHandle, "WAITING") /\ UNCHANGED iocp
    BY <1>11 DEF GetQueuedCompletionStatus
  <2>2. w \in Place /\ sched.cpu.at # Zero
    BY <1>1, FreshTypes, WaitArguments DEF Ops
  <2>3. Running
    BY <1>11 DEF GetQueuedCompletionStatus
  <2>4. iocp' \in 0 .. IocpCapacity
    BY <1>1, <2>1, SyncAssumption DEF TypeOK
  <2>5. /\ sched' \in Scheduler(Context) /\ sched'.cur # NoThread
        /\ sched'.st[sched'.cur] = "RUNNING" /\ done' \in [Slots -> Counts]
    <3>1. CASE sched' = Returned(sched) /\ Counted
      BY <1>1, <2>2, <2>3, <3>1, ReturnedRuns, CountedType
    <3>2. CASE Block(w, IocpHandle, "WAITING")
      BY <1>1, <2>2, <2>3, <3>2, BlockRuns, HandleTypes
    <3> QED BY <2>1, <3>1, <3>2
  <2> QED BY <1>1, <1>11, <2>2, <2>3, <2>4, <2>5, CoreKept
          DEF GetQueuedCompletionStatus, TypeOK, Running
<1>12. ASSUME Sleep PROVE CoreInv'
  <2>1. Running /\ sched.cpu.at # Zero /\ Counted
        /\ sched' = Yield(Returned(sched), "READY")
    BY <1>2, <1>12 DEF Sleep, Calling
  <2> QED BY <1>1, <1>12, <2>1, YieldRuns, CountedType, CoreKept DEF Sleep, TypeOK, Running
<1>13. ASSUME GetMessage PROVE CoreInv'
  <2>1. Running /\ sched.cpu.at # Zero /\ Counted
        /\ sched' = Yield(Returned(sched), "READY")
    BY <1>2, <1>13 DEF GetMessage, Calling
  <2>2. /\ sched' \in Scheduler(Context) /\ sched'.cur # NoThread
        /\ sched'.st[sched'.cur] = "RUNNING" /\ done' \in [Slots -> Counts]
        /\ ~Switched(Returned(sched), "READY") => sched'.cpu.at = Guest
    BY <1>1, <2>1, YieldRuns, CountedType
  <2>3. estate' \in {"RUNNING", "PAUSED"}
        /\ (estate' = "PAUSED" => ~Switched(Returned(sched), "READY"))
    BY <1>13 DEF GetMessage
  <2>4. TypeOK'
    BY <1>1, <1>13, <2>2, <2>3 DEF GetMessage, TypeOK
  <2> QED BY <2>2, <2>3, <2>4 DEF CoreInv, CurrentRuns, IdleAtGuest, Running
<1>14. ASSUME ExitThreadCall PROVE CoreInv'
  <2> DEFINE gone == ExitThread(sched)
  <2>1. Running /\ sched.cur # NoThread /\ sched.cur \in Slots
    BY <1>2, <1>14, CallerExists DEF ExitThreadCall, Calling, CoreInv, CurrentRuns
  <2>2. /\ gone \in Scheduler(Context)
        /\ gone.cur # NoThread => gone.cur \in Slots /\ gone.st[gone.cur] = "RUNNING"
    BY <1>1, <2>1, ExitThreadFields
  <2>3. sched' = IF gone.cur = NoThread THEN GoTo(gone, Zero) ELSE gone
    BY <1>14 DEF ExitThreadCall
  <2> HIDE DEF gone
  <2>4. /\ sched' \in Scheduler(Context)
        /\ sched'.cur # NoThread => sched'.st[sched'.cur] = "RUNNING"
        /\ sched'.cur = NoThread => sched'.cpu.at = Zero
    <3>1. CASE gone.cur = NoThread
      BY <1>2, <2>2, <2>3, <3>1, GoToFields
    <3>2. CASE gone.cur # NoThread
      BY <2>2, <2>3, <3>2
    <3> QED BY <3>1, <3>2
  <2> QED BY <1>1, <1>14, <2>1, <2>4
          DEF ExitThreadCall, CoreInv, TypeOK, CurrentRuns, IdleAtGuest, Running
<1>15. ASSUME ThreadReturns \/ ExitProcess PROVE CoreInv'
  <2>1. Running /\ sched' = GoTo(sched, Zero) /\ estate' = estate
    BY <1>15 DEF ThreadReturns, ExitProcess, Calling
  <2>2. /\ sched' \in Scheduler(Context)
        /\ sched'.cur = sched.cur /\ sched'.st = sched.st /\ sched'.cpu.at = Zero
    BY <1>1, <1>2, <2>1, GoToFields
  <2>3. exiting' \in BOOLEAN
    BY <1>1, <1>15 DEF ThreadReturns, ExitProcess, TypeOK
  <2> QED BY <1>1, <1>15, <2>1, <2>2, <2>3
          DEF ThreadReturns, ExitProcess, CoreInv, TypeOK, CurrentRuns, IdleAtGuest, Running
<1>16. ASSUME TickThreadEnded PROVE CoreInv'
  <2> DEFINE gone  == ExitThread(sched)
             woken == Wake(gone, ThreadHandle(sched.cur))
  <2>1. Running /\ sched.cur # NoThread /\ sched.cur \in Slots
    BY <1>1, <1>16 DEF TickThreadEnded, Scheduler
  <2>2. gone \in Scheduler(Context)
    BY <1>1, <2>1, ExitThreadFields
  <2> HIDE DEF gone
  <2>3. woken \in Scheduler(Context)
    BY <2>2, WakeFields
  <2>4. /\ sched' = SwitchNext(woken)
        /\ estate' = IF CanSwitch(woken) THEN estate ELSE "STOPPED"
    BY <1>16 DEF TickThreadEnded, gone
  <2>5. woken.cur # NoThread => woken.cur \in Slots /\ woken.st[woken.cur] = "RUNNING"
    <3>1. gone.cur # NoThread => gone.cur \in Slots /\ gone.st[gone.cur] = "RUNNING"
      BY <1>1, <2>1, ExitThreadFields DEF gone
    <3> QED BY <2>2, <3>1, WakeFields
  <2> HIDE DEF woken
  <2>6. woken.st \in [Slots -> ThreadState] /\ NoThread \notin Slots
    BY <2>3, MaxThreadsAssumption DEF Scheduler, NoThread, Slots
  <2>7. /\ sched' \in Scheduler(Context)
        /\ sched'.cur # NoThread => sched'.st[sched'.cur] = "RUNNING"
        /\ CanSwitch(woken) => sched'.cur # NoThread
    BY <2>3, <2>4, <2>5, <2>6, SwitchNextFields
  <2> QED BY <1>1, <1>16, <2>1, <2>4, <2>7
          DEF TickThreadEnded, CoreInv, TypeOK, CurrentRuns, IdleAtGuest, Running
<1>17. ASSUME TickProgramEnded \/ TickCrash PROVE CoreInv'
  BY <1>1, <1>17
     DEF TickProgramEnded, TickCrash, CoreInv, TypeOK, CurrentRuns, IdleAtGuest, Running
<1>18. ASSUME TickPaused PROVE CoreInv'
  <2> DEFINE v == SaveCurrent(sched, "WAITING")
  <2>1. /\ sched.cur \in Slots /\ sched.st[sched.cur] = "RUNNING" /\ sched.cur # NoThread
    BY <1>1, <1>18 DEF TickPaused, CoreInv, CurrentRuns, IdleAtGuest, Scheduler
  <2>2. v \in Scheduler(Context) /\ v.st = [sched.st EXCEPT ![sched.cur] = "WAITING"]
    BY <1>1, <2>1, SaveCurrentFields DEF ThreadState
  <2>3. sched.st \in [Slots -> ThreadState]
    BY <1>1 DEF Scheduler
  <2> HIDE DEF v
  <2>4. CanSwitch(v)
    BY <1>18, <2>1, <2>2, <2>3 DEF TickPaused, CanSwitch, ReadySlots
  <2>5. v.st \in [Slots -> ThreadState] /\ NoThread \notin Slots
    <3>1. v.st \in [Slots -> ThreadState]
      BY <2>2, <2>3 DEF ThreadState
    <3> QED BY <3>1, MaxThreadsAssumption DEF NoThread, Slots
  <2>6. sched' = SwitchNext(v) /\ estate' = "RUNNING"
    BY <1>18 DEF TickPaused, v
  <2>7. /\ sched' \in Scheduler(Context) /\ sched'.cur # NoThread
        /\ sched'.st[sched'.cur] = "RUNNING"
    BY <2>2, <2>4, <2>5, <2>6, SwitchNextFields
  <2> QED BY <1>1, <1>18, <2>6, <2>7
          DEF TickPaused, CoreInv, TypeOK, CurrentRuns, IdleAtGuest, Running
<1>19. ASSUME EngineRun \/ NextTap PROVE CoreInv'
  BY <1>1, <1>19 DEF EngineRun, NextTap, CoreInv, TypeOK, CurrentRuns, IdleAtGuest, Running
<1>20. ASSUME NsdShow PROVE CoreInv'
  <2>1. Running /\ sched.cpu.at # Zero /\ sched' = Returned(sched) /\ Counted
    BY <1>2, <1>20 DEF NsdShow, Calling
  <2>2. sched' \in Scheduler(Context) /\ sched'.cur # NoThread
        /\ sched'.st[sched'.cur] = "RUNNING" /\ done' \in [Slots -> Counts]
    BY <1>1, <2>1, ReturnedRuns, CountedType
  <2>3. sched'.cpu.at = Guest
    BY <1>1, <2>1, ReturnedFields
  <2> QED BY <1>1, <1>20, <2>2, <2>3
          DEF NsdShow, CoreInv, TypeOK, CurrentRuns, IdleAtGuest, Running
<1>21. CASE UNCHANGED syncVars
  BY <1>21 DEF syncVars, CoreInv, TypeOK, CurrentRuns, IdleAtGuest, Running
<1> QED
  BY <1>3, <1>4, <1>5, <1>6, <1>7, <1>8, <1>9, <1>10, <1>11, <1>12, <1>13, <1>14, <1>15,
     <1>16, <1>17, <1>18, <1>19, <1>20, <1>21
  DEF Next, Tick, YieldingCall, SpawnReady, SpawnSuspended

\* Spec => []CoreInv: what the theorems below rest on.
THEOREM CoreInvariant == Spec => []CoreInv
BY CoreInit, CoreNext, PTL DEF Spec

\* Every step keeps the scheduler, the event table and the completion count
\* well-formed; in particular no handler leaves the current index pointing at a
\* slot outside the table, and the ring never holds more than its capacity.
THEOREM TypeCorrect == Spec => []TypeOK
<1>1. CoreInv => TypeOK
  BY DEF CoreInv
<1> QED BY <1>1, CoreInvariant, PTL

\* The current thread is RUNNING in every state between two handlers.
THEOREM CurrentRunning == Spec => []CurrentRuns
<1>1. CoreInv => CurrentRuns
  BY DEF CoreInv
<1> QED BY <1>1, CoreInvariant, PTL
-----------------------------------------------------------------------------
(* Turns: what one step does to the thread table.  The current thread keeps *)
(* the processor, hands it to the READY thread that switch_next probes      *)
(* first, or ends.                                                          *)

\* The current thread stays; threads are made, resumed and woken beside it.
Keeps(s, x) ==
    /\ x.cur = s.cur
    /\ \A i \in Slots :
         \/ x.st[i] = s.st[i]
         \/ /\ s.st[i] \in {"FREE", "SUSPENDED", "WAITING"}
            /\ x.st[i] \in {"SUSPENDED", "READY"}

\* The current thread is saved, and the nearest READY thread is picked.
HandsOver(s, x) ==
    /\ s.cur # NoThread /\ x.cur \in Slots
    /\ \E reason \in {"READY", "WAITING"} : \A i \in Slots :
         x.st[i] = IF i = x.cur THEN "RUNNING" ELSE IF i = s.cur THEN reason ELSE s.st[i]
    /\ x.cur # s.cur =>
         /\ s.st[x.cur] = "READY"
         /\ \A j \in Slots : s.st[j] = "READY" =>
              Dist(s.cur, x.cur) <= Dist(s.cur, j) \/ j = s.cur

\* The current thread exits; others are woken and picked.
Leaves(s, x) ==
    /\ s.cur # NoThread /\ x.st[s.cur] = "EXITED"
    /\ \A i \in Slots : i # s.cur =>
         \/ x.st[i] = s.st[i]
         \/ s.st[i] \in {"READY", "WAITING"} /\ x.st[i] \in {"READY", "RUNNING"}

\* No register file is at address zero, but for an engine without a current thread.
AwayFromZero(s) ==
    /\ s.cur # NoThread => s.cpu.at # Zero
    /\ \A t \in Slots : s.regs[t].at # Zero

StaysAway(s, x) == AwayFromZero(s) => AwayFromZero(x)

\* The common epilogue, after a handler that made, resumed or woke threads.
LEMMA EpilogueTurns ==
    ASSUME NEW s \in Scheduler(Context), NEW c \in Scheduler(Context), Keeps(s, c),
           \A t \in Slots : s.regs[t].at # Zero => c.regs[t].at # Zero
    PROVE  Keeps(s, Returned(c)) /\ StaysAway(s, Returned(c))
<1>1. /\ Returned(c).cur = c.cur /\ Returned(c).st = c.st /\ Returned(c).regs = c.regs
      /\ Returned(c).cpu.at # Zero
  BY ReturnedFields, PlaceTypes
<1>2. Keeps(s, Returned(c))
  BY <1>1 DEF Keeps
<1>3. StaysAway(s, Returned(c))
  BY <1>1 DEF StaysAway, AwayFromZero
<1> QED BY <1>2, <1>3

LEMMA ReturnedTurns ==
    ASSUME NEW s \in Scheduler(Context)
    PROVE  Keeps(s, Returned(s)) /\ StaysAway(s, Returned(s))
<1>1. Keeps(s, s)
  BY DEF Keeps
<1> QED BY <1>1, EpilogueTurns

LEMMA WokenTurns ==
    ASSUME NEW s \in Scheduler(Context), NEW h
    PROVE  Keeps(s, Returned(Wake(s, h))) /\ StaysAway(s, Returned(Wake(s, h)))
<1>1. Wake(s, h) \in Scheduler(Context) /\ Wake(s, h).regs = s.regs
  BY WakeFields
<1>2. Keeps(s, Wake(s, h))
  BY WakeFields DEF Keeps
<1> QED BY <1>1, <1>2, EpilogueTurns

LEMMA ResumedTurns ==
    ASSUME NEW s \in Scheduler(Context), NEW i \in Slots
    PROVE  Keeps(s, Returned(Resume(s, i))) /\ StaysAway(s, Returned(Resume(s, i)))
<1>1. Resume(s, i) \in Scheduler(Context) /\ Resume(s, i).regs = s.regs
  BY ResumeFields
<1>2. Keeps(s, Resume(s, i))
  BY ResumeFields DEF Keeps
<1> QED BY <1>1, <1>2, EpilogueTurns

LEMMA SpawnedTurns ==
    ASSUME NEW s \in Scheduler(Context), NEW i \in Slots, FirstFree(s, i),
           NEW suspended \in BOOLEAN
    PROVE  LET x == Returned(CreateThread(s, i, NewContext(i), suspended))
           IN  Keeps(s, x) /\ StaysAway(s, x)
<1> DEFINE c == CreateThread(s, i, NewContext(i), suspended)
<1>1. NewContext(i) \in Context /\ NewContext(i).at = Guest
  <2>1. 0 \in Counts
    BY SyncAssumption DEF Counts
  <2> QED BY <2>1, PlaceTypes DEF NewContext, Context
<1>2. /\ c \in Scheduler(Context) /\ c.cur = s.cur
      /\ \A j \in Slots :
           /\ c.regs[j] = IF j = i THEN NewContext(i) ELSE s.regs[j]
           /\ c.st[j] = IF j # i THEN s.st[j] ELSE IF suspended THEN "SUSPENDED" ELSE "READY"
  BY <1>1, CreateThreadFields
<1> HIDE DEF c
<1>3. Keeps(s, c)
  BY <1>2 DEF Keeps, FirstFree
<1>4. \A t \in Slots : s.regs[t].at # Zero => c.regs[t].at # Zero
  BY <1>1, <1>2, PlaceTypes
<1>5. Keeps(s, Returned(c)) /\ StaysAway(s, Returned(c))
  BY <1>2, <1>3, <1>4, EpilogueTurns
<1> QED BY <1>5 DEF c

LEMMA YieldTurns ==
    ASSUME NEW s \in Scheduler(Context), s.cur # NoThread
    PROVE  LET x == Yield(Returned(s), "READY")
           IN  HandsOver(s, x) /\ StaysAway(s, x)
<1> DEFINE r == Returned(s)
           x == Yield(r, "READY")
<1>1. /\ r \in Scheduler(Context) /\ r.cur = s.cur /\ r.st = s.st /\ r.regs = s.regs
      /\ r.cpu.at = Guest
  BY ReturnedFields
<1> HIDE DEF r
<1>2. /\ x.cur \in Slots
      /\ \A i \in Slots :
           /\ x.regs[i] = IF i = r.cur THEN r.cpu ELSE r.regs[i]
           /\ x.st[i] = IF i = x.cur THEN "RUNNING"
                        ELSE IF i = r.cur THEN "READY" ELSE r.st[i]
      /\ x.cpu = x.regs[x.cur]
      /\ x.cur # r.cur => r.st[x.cur] = "READY"
      /\ x.cur # r.cur => \A j \in Slots : r.st[j] = "READY" =>
           Dist(r.cur, x.cur) <= Dist(r.cur, j) \/ j = r.cur
  BY <1>1, YieldFields
<1> HIDE DEF x
<1>3. HandsOver(s, x)
  BY <1>1, <1>2 DEF HandsOver
<1>4. StaysAway(s, x)
  BY <1>1, <1>2, PlaceTypes DEF StaysAway, AwayFromZero
<1> QED BY <1>3, <1>4 DEF x, r

LEMMA BlockTurns ==
    ASSUME TypeOK, sched.cur # NoThread, NEW w \in Place, w # Zero, NEW h \in Nat,
           NEW reason \in {"READY", "WAITING"}, Block(w, h, reason)
    PROVE  HandsOver(sched, sched') /\ StaysAway(sched, sched')
<1>1. /\ sched'.cur \in Slots
      /\ \A i \in Slots :
           /\ sched'.st[i] = IF i = sched'.cur THEN "RUNNING"
                             ELSE IF i = sched.cur THEN reason ELSE sched.st[i]
           /\ sched'.regs[i] = IF i # sched.cur THEN sched.regs[i]
                               ELSE [own |-> sched.cpu.own, n |-> sched.cpu.n, at |-> w]
      /\ \/ /\ sched'.cur # sched.cur => sched.st[sched'.cur] = "READY"
            /\ sched'.cpu = sched'.regs[sched'.cur]
            /\ \A j \in Slots : sched.st[j] = "READY" =>
                   Dist(sched.cur, sched'.cur) <= Dist(sched.cur, j) \/ j = sched.cur
         \/ /\ sched'.cur = sched.cur
            /\ sched'.cpu = [own |-> sched.cpu.own, n |-> Bump(sched.cpu.n), at |-> Guest]
  BY BlockFields, ZenonT(60)
<1>2. HandsOver(sched, sched')
  BY <1>1 DEF HandsOver
<1>3. StaysAway(sched, sched')
  BY <1>1, PlaceTypes DEF StaysAway, AwayFromZero
<1> QED BY <1>2, <1>3

LEMMA WaitTurns ==
    ASSUME TypeOK, sched.cur # NoThread, NEW w \in Place, w # Zero, Wait(w)
    PROVE  /\ Keeps(sched, sched') \/ HandsOver(sched, sched')
           /\ StaysAway(sched, sched')
<1>1. sched \in Scheduler(Context)
  BY DEF TypeOK
<1> QED BY <1>1, WaitCases, BlockTurns, ReturnedTurns

\* The wait that a handler is in is not address zero.
LEMMA WaitNotZero ==
    ASSUME NEW op \in Ops \ {"zero"}, NEW fresh, \A p \in fresh : p.op = op,
           NEW w \in Handling(op, fresh)
    PROVE  w # Zero
BY DEF Handling, Zero

LEMMA PausedTurns ==
    ASSUME NEW s \in Scheduler(Context), s.cur # NoThread, s.st[s.cur] = "RUNNING",
           CanSwitch(s), s.cpu.at # Zero
    PROVE  LET x == SwitchNext(SaveCurrent(s, "WAITING"))
           IN  HandsOver(s, x) /\ StaysAway(s, x)
<1> DEFINE v == SaveCurrent(s, "WAITING")
           x == SwitchNext(v)
<1>1. s.cur \in Slots /\ s.st \in [Slots -> ThreadState]
  BY DEF Scheduler
<1>2. /\ v \in Scheduler(Context) /\ v.cur = s.cur
      /\ v.st = [s.st EXCEPT ![s.cur] = "WAITING"]
      /\ v.regs = [s.regs EXCEPT ![s.cur] = s.cpu]
  BY SaveCurrentFields DEF ThreadState
<1> HIDE DEF v
<1>3. CanSwitch(v)
  BY <1>1, <1>2 DEF CanSwitch, ReadySlots
<1>4. /\ x.regs = v.regs /\ v.st[x.cur] = "READY" /\ x.cur \in Slots
      /\ x.st = [v.st EXCEPT ![x.cur] = "RUNNING"]
      /\ x.cpu = v.regs[x.cur]
      /\ \A j \in Slots : v.st[j] = "READY" => Dist(v.cur, x.cur) <= Dist(v.cur, j)
  BY <1>2, <1>3, SwitchNextFields
<1> HIDE DEF x
<1>5. x.cur # s.cur
  BY <1>1, <1>2, <1>4
<1>6. HandsOver(s, x)
  BY <1>1, <1>2, <1>4, <1>5 DEF HandsOver
<1>7. StaysAway(s, x)
  <2>1. \A t \in Slots : v.regs[t] = IF t = s.cur THEN s.cpu ELSE s.regs[t]
    BY <1>2 DEF Scheduler
  <2> QED BY <1>4, <2>1 DEF StaysAway, AwayFromZero
<1> QED BY <1>6, <1>7 DEF x, v

LEMMA ExitTurns ==
    ASSUME NEW s \in Scheduler(Context), s.cur # NoThread
    PROVE  LET x == ExitThread(s)
               y == IF x.cur = NoThread THEN GoTo(x, Zero) ELSE x
           IN  /\ Leaves(s, y) /\ StaysAway(s, y)
               /\ \A i \in Slots : y.st[i] = "RUNNING" =>
                    i = y.cur \/ (i # s.cur /\ s.st[i] = "RUNNING")
<1> DEFINE x == ExitThread(s)
           y == IF x.cur = NoThread THEN GoTo(x, Zero) ELSE x
<1>1. /\ x \in Scheduler(Context) /\ x.regs = s.regs
      /\ x.cur # NoThread =>
           s.st[x.cur] = "READY" /\ x.cpu = s.regs[x.cur] /\ x.cur \in Slots
      /\ \A i \in Slots : x.st[i] = IF i = s.cur THEN "EXITED"
                                    ELSE IF i = x.cur THEN "RUNNING" ELSE s.st[i]
  BY ExitThreadFields
<1> HIDE DEF x
<1>2. y.st = x.st /\ y.regs = x.regs /\ y.cur = x.cur
      /\ (x.cur # NoThread => y.cpu = x.cpu)
  BY <1>1, GoToFields, PlaceTypes, ZenonT(60)
<1>3. s.cur \in Slots /\ NoThread \notin Slots
  BY MaxThreadsAssumption DEF Scheduler, NoThread, Slots
<1> HIDE DEF y
<1>4. Leaves(s, y)
  BY <1>1, <1>2, <1>3 DEF Leaves
<1>5. StaysAway(s, y)
  BY <1>1, <1>2 DEF StaysAway, AwayFromZero
<1>6. \A i \in Slots : y.st[i] = "RUNNING" => i = y.cur \/ (i # s.cur /\ s.st[i] = "RUNNING")
  BY <1>1, <1>2
<1> QED BY <1>4, <1>5, <1>6 DEF x, y

LEMMA EndTurns ==
    ASSUME NEW s \in Scheduler(Context), s.cur # NoThread, NEW h
    PROVE  LET y == SwitchNext(Wake(ExitThread(s), h))
           IN  Leaves(s, y)
<1> DEFINE x == ExitThread(s)
           k == Wake(x, h)
           y == SwitchNext(k)
<1>1. /\ x \in Scheduler(Context)
      /\ x.cur # NoThread => s.st[x.cur] = "READY"
      /\ \A i \in Slots : x.st[i] = IF i = s.cur THEN "EXITED"
                                    ELSE IF i = x.cur THEN "RUNNING" ELSE s.st[i]
  BY ExitThreadFields
<1>2. s.cur \in Slots /\ s.cur # NoThread /\ NoThread \notin Slots
  BY MaxThreadsAssumption DEF Scheduler, NoThread, Slots
<1> HIDE DEF x
<1>3. /\ k \in Scheduler(Context)
      /\ \A i \in Slots : k.st[i] = x.st[i] \/ (x.st[i] = "WAITING" /\ k.st[i] = "READY")
  BY <1>1, WakeFields
<1>4. k.st \in [Slots -> ThreadState]
  BY <1>3 DEF Scheduler
<1> HIDE DEF k
<1>5. \A i \in Slots : y.st[i] = k.st[i] \/ (k.st[i] = "READY" /\ y.st[i] = "RUNNING")
  <2>1. CASE ~CanSwitch(k)
    BY <1>3, <2>1, SwitchNextFields
  <2>2. CASE CanSwitch(k)
    <3>1. /\ k.st[y.cur] = "READY" /\ y.cur \in Slots
          /\ y.st = [k.st EXCEPT ![y.cur] = "RUNNING"]
      BY <1>3, <2>2, SwitchNextFields
    <3> QED BY <1>4, <3>1
  <2> QED BY <2>1, <2>2
<1> HIDE DEF y
<1>6. y.st[s.cur] = "EXITED"
  BY <1>1, <1>2, <1>3, <1>5
<1>7. ASSUME NEW i \in Slots, i # s.cur
      PROVE  \/ y.st[i] = s.st[i]
             \/ s.st[i] \in {"READY", "WAITING"} /\ y.st[i] \in {"READY", "RUNNING"}
  <2>1. x.st[i] = s.st[i] \/ (s.st[i] = "READY" /\ x.st[i] = "RUNNING")
    BY <1>1, <1>2, <1>7
  <2> QED BY <1>3, <1>5, <1>7, <2>1
<1> QED BY <1>2, <1>6, <1>7 DEF Leaves, x, k, y

\* Every step is one of the three, and only the end of a thread function, or of the
\* process, sends a thread to address zero.
LEMMA TurnCases ==
    ASSUME CoreInv, [Next]_syncVars
    PROVE  /\ \/ Keeps(sched, sched') \/ HandsOver(sched, sched')
              \/ Leaves(sched, sched') /\ (ExitThreadCall \/ TickThreadEnded)
           /\ \/ StaysAway(sched, sched')
              \/ ThreadReturns \/ ExitProcess \/ TickThreadEnded
<1> DEFINE Goal == (Keeps(sched, sched') \/ HandsOver(sched, sched'))
                     /\ StaysAway(sched, sched')
<1>1. TypeOK /\ sched \in Scheduler(Context)
  BY DEF CoreInv, TypeOK
<1>2. Zero # Guest /\ Zero \in Place
  BY PlaceTypes
<1>3. ASSUME CreateEvent \/ ResetEvent \/ NsdShow PROVE Goal
  <2>1. sched' = Returned(sched)
    BY <1>3 DEF CreateEvent, ResetEvent, NsdShow
  <2> QED BY <1>1, <2>1, ReturnedTurns
<1>4. ASSUME SetEvent PROVE Goal
  <2>1. PICK e \in 0 .. evNext - 1 : sched' = Returned(Wake(sched, EventHandle(e)))
    BY <1>4 DEF SetEvent
  <2> QED BY <1>1, <2>1, WokenTurns
<1>5. ASSUME PostQueuedCompletionStatus PROVE Goal
  <2>1. sched' = Returned(Wake(sched, IocpHandle))
    BY <1>5 DEF PostQueuedCompletionStatus
  <2> QED BY <1>1, <2>1, WokenTurns
<1>6. ASSUME NEW call, NEW suspended \in BOOLEAN, Spawn(call, suspended) PROVE Goal
  <2>1. ASSUME NEW i \in Slots, FirstFree(sched, i),
               sched' = Returned(CreateThread(sched, i, NewContext(i), suspended))
        PROVE  Goal
    BY <1>1, <2>1, SpawnedTurns
  <2>2. CASE sched' = Returned(sched)
    BY <1>1, <2>2, ReturnedTurns
  <2> QED BY <1>6, <2>1, <2>2 DEF Spawn
<1>7. ASSUME ResumeThread PROVE Goal
  <2>1. PICK i \in Slots : sched' = Returned(Resume(sched, i))
    BY <1>7 DEF ResumeThread
  <2> QED BY <1>1, <2>1, ResumedTurns
<1>8. ASSUME Running, sched.cpu.at # Zero PROVE sched.cur # NoThread
  BY <1>8 DEF CoreInv, CurrentRuns
<1>9. ASSUME WaitForSingleObject PROVE Goal
  <2> DEFINE fresh == [op : {"WaitSingle"}, hs : {<<h>> : h \in KnownHandles},
                       all : {FALSE}, to : Timeouts]
  <2>1. PICK w \in Handling("WaitSingle", fresh) : Wait(w)
    BY <1>9 DEF WaitForSingleObject
  <2>2. Running /\ \A p \in fresh : p.op = "WaitSingle"
    BY <1>9 DEF WaitForSingleObject
  <2>3. fresh \in SUBSET Place
    BY <1>1, FreshTypes
  <2> HIDE DEF fresh
  <2>4. w \in Place /\ sched.cpu.at # Zero
    BY <1>1, <2>3, WaitArguments DEF Ops
  <2>5. w # Zero
    BY <2>2, WaitNotZero DEF Ops
  <2> QED BY <1>1, <1>8, <2>1, <2>2, <2>4, <2>5, WaitTurns
<1>10. ASSUME WaitForMultipleObjects PROVE Goal
  <2> DEFINE pairs == {p \in KnownHandles \X KnownHandles : p[1] # p[2]}
             fresh == [op : {"WaitMultiple"}, hs : pairs, all : BOOLEAN, to : Timeouts]
  <2>1. PICK w \in Handling("WaitMultiple", fresh) : Wait(w)
    BY <1>10 DEF WaitForMultipleObjects
  <2>2. Running /\ \A p \in fresh : p.op = "WaitMultiple"
    BY <1>10 DEF WaitForMultipleObjects
  <2>3. fresh \in SUBSET Place
    BY <1>1, FreshTypes
  <2> HIDE DEF fresh
  <2>4. w \in Place /\ sched.cpu.at # Zero
    BY <1>1, <2>3, WaitArguments DEF Ops
  <2>5. w # Zero
    BY <2>2, WaitNotZero DEF Ops
  <2> QED BY <1>1, <1>8, <2>1, <2>2, <2>4, <2>5, WaitTurns
<1>11. ASSUME GetQueuedCompletionStatus PROVE Goal
  <2> DEFINE fresh == [op : {"GQCS"}, hs : {<<IocpHandle>>}, all : {FALSE}, to : Timeouts]
  <2>1. PICK w \in Handling("GQCS", fresh) :
          sched' = Returned(sched) \/ Block(w, IocpHandle, "WAITING")
    BY <1>11 DEF GetQueuedCompletionStatus
  <2>2. Running /\ \A p \in fresh : p.op = "GQCS"
    BY <1>11 DEF GetQueuedCompletionStatus
  <2>3. fresh \in SUBSET Place
    BY <1>1, FreshTypes
  <2> HIDE DEF fresh
  <2>4. w \in Place /\ sched.cpu.at # Zero
    BY <1>1, <2>3, WaitArguments DEF Ops
  <2>5. w # Zero
    BY <2>2, WaitNotZero DEF Ops
  <2>6. IocpHandle \in Nat
    BY <1>1, HandleTypes
  <2> QED BY <1>1, <1>8, <2>1, <2>2, <2>4, <2>5, <2>6, BlockTurns, ReturnedTurns
<1>12. ASSUME Sleep \/ GetMessage PROVE Goal
  <2>1. /\ sched' = Yield(Returned(sched), "READY") /\ Running /\ sched.cpu.at # Zero
    BY <1>2, <1>12 DEF Sleep, GetMessage, Calling
  <2> QED BY <1>1, <1>8, <2>1, YieldTurns
<1>13. ASSUME ExitThreadCall PROVE Leaves(sched, sched') /\ StaysAway(sched, sched')
  <2>1. Running /\ sched.cpu.at # Zero
    BY <1>2, <1>13 DEF ExitThreadCall, Calling
  <2> QED BY <1>1, <1>8, <1>13, <2>1, ExitTurns DEF ExitThreadCall
<1>14. ASSUME ThreadReturns \/ ExitProcess PROVE Keeps(sched, sched')
  <2>1. sched' = GoTo(sched, Zero)
    BY <1>14 DEF ThreadReturns, ExitProcess
  <2> QED BY <1>1, <1>2, <2>1, GoToFields DEF Keeps
<1>15. ASSUME TickThreadEnded PROVE Leaves(sched, sched')
  <2>1. /\ sched.cur # NoThread
        /\ sched' = SwitchNext(Wake(ExitThread(sched), ThreadHandle(sched.cur)))
    BY <1>15 DEF TickThreadEnded
  <2> QED BY <1>1, <2>1, EndTurns
<1>16. ASSUME TickPaused PROVE Goal
  <2>1. /\ sched.cur # NoThread /\ sched.st[sched.cur] = "RUNNING" /\ sched.cpu.at # Zero
        /\ CanSwitch(sched) /\ sched' = SwitchNext(SaveCurrent(sched, "WAITING"))
    BY <1>2, <1>16 DEF TickPaused, CoreInv, CurrentRuns, IdleAtGuest
  <2> QED BY <1>1, <2>1, PausedTurns
<1>17. CASE TickProgramEnded \/ TickCrash \/ EngineRun \/ NextTap \/ UNCHANGED syncVars
  <2>1. sched' = sched
    BY <1>17 DEF TickProgramEnded, TickCrash, EngineRun, NextTap, syncVars
  <2> QED BY <2>1 DEF Keeps, StaysAway
<1> QED
  BY <1>3, <1>4, <1>5, <1>6, <1>7, <1>9, <1>10, <1>11, <1>12, <1>13, <1>14, <1>15,
     <1>16, <1>17
  DEF Next, Tick, YieldingCall, SpawnReady, SpawnSuspended

\* The slot of a thread that exited is never taken again, so a handle that an exit
\* signalled stays signalled: no function of wg_threading.c writes a slot that is
\* neither FREE nor alive.
THEOREM ExitedStays == Spec => ExitedForever
<1>1. ASSUME CoreInv, [Next]_syncVars, NEW t \in Slots, sched.st[t] = "EXITED"
      PROVE  sched'.st[t] = "EXITED"
  <2>1. sched.cur # NoThread => sched.st[sched.cur] = "RUNNING"
    BY <1>1 DEF CoreInv, CurrentRuns
  <2>2. CASE Keeps(sched, sched')
    BY <1>1, <2>2 DEF Keeps
  <2>3. CASE HandsOver(sched, sched')
    BY <1>1, <2>1, <2>3 DEF HandsOver
  <2>4. CASE Leaves(sched, sched')
    BY <1>1, <2>4 DEF Leaves
  <2> QED BY <1>1, <2>2, <2>3, <2>4, TurnCases
<1>2. CoreInv /\ [Next]_syncVars
      => [\A t \in Slots : sched.st[t] = "EXITED" => sched'.st[t] = "EXITED"]_syncVars
  BY <1>1
<1> QED BY <1>2, CoreInvariant, PTL DEF Spec, ExitedForever

\* Whenever the processor changes hands every other READY thread moves up in the
\* cyclic order that switch_next probes: the thread picked was the nearest one.
THEOREM TurnsGoRound == Spec => RoundRobin
<1> DEFINE MovesUp(t) ==
             /\ sched.cur # sched'.cur
             /\ NoThread \notin {sched.cur, sched'.cur}
             /\ sched'.st[sched.cur] # "EXITED"
             /\ sched.st[t] = "READY" /\ sched'.st[t] = "READY"
             => Dist(sched'.cur, t) < Dist(sched.cur, t)
<1>1. ASSUME CoreInv, [Next]_syncVars, NEW t \in Slots PROVE MovesUp(t)
  <2> SUFFICES ASSUME sched.cur # sched'.cur, NoThread \notin {sched.cur, sched'.cur},
                      sched'.st[sched.cur] # "EXITED",
                      sched.st[t] = "READY", sched'.st[t] = "READY"
               PROVE  Dist(sched'.cur, t) < Dist(sched.cur, t)
    OBVIOUS
  <2>1. /\ sched.cur \in Slots /\ sched.st[sched.cur] = "RUNNING"
    BY <1>1 DEF CoreInv, CurrentRuns, TypeOK, Scheduler
  <2>2. HandsOver(sched, sched')
    BY <1>1, TurnCases DEF Keeps, Leaves
  <2>3. sched'.cur \in Slots /\ sched'.st[sched'.cur] = "RUNNING"
    BY <2>2 DEF HandsOver
  <2>4. t # sched.cur /\ t # sched'.cur
    BY <2>1, <2>3
  <2>5. Dist(sched.cur, sched'.cur) <= Dist(sched.cur, t)
    BY <2>2, <2>4 DEF HandsOver
  <2>6. Dist(sched.cur, sched'.cur) # Dist(sched.cur, t)
    BY <2>1, <2>3, <2>4, DistInjective
  <2>7. Dist(sched.cur, sched'.cur) < Dist(sched.cur, t)
    BY <2>1, <2>3, <2>5, <2>6, DistType
  <2> QED BY <2>1, <2>3, <2>7, DistShrinks
<1>2. CoreInv /\ [Next]_syncVars => [\A t \in Slots : MovesUp(t)]_syncVars
  BY <1>1
<1> QED BY <1>2, CoreInvariant, PTL DEF Spec, RoundRobin

\* One thread at a time is RUNNING in a program whose threads end by ExitThread, if
\* they end: the scheduler is right, and it is the second switch of the tick after a
\* return (or a worker's ExitProcess, which takes the same path) that breaks it.
THEOREM OneThreadRuns ==
    ASSUME Calls \cap {"return", "ExitProcess"} = {}
    PROVE  Spec => []OneRunning
<1> DEFINE Alone == CoreInv /\ OneRunning /\ AwayFromZero(sched)
<1>1. Init => Alone
  <2> SUFFICES ASSUME Init PROVE Alone
    OBVIOUS
  <2>1. \A t \in Slots : sched.st[t] = "RUNNING" => t = sched.cur
    BY DEF Init
  <2>2. sched.cpu.at = Guest /\ \A t \in Slots : sched.regs[t].at = Guest
    BY DEF Init, NewContext
  <2> QED BY <2>1, <2>2, CoreInit, PlaceTypes DEF OneRunning, AwayFromZero
<1>2. Alone /\ [Next]_syncVars => Alone'
  <2> SUFFICES ASSUME Alone, [Next]_syncVars PROVE OneRunning' /\ AwayFromZero(sched')
    BY CoreNext DEF AwayFromZero
  <2>0. {"return", "ExitProcess"} \cap Calls = {}
    OBVIOUS
  <2>1. ~ThreadReturns /\ ~ExitProcess
    BY <2>0 DEF ThreadReturns, ExitProcess, Calling
  <2>2. ~TickThreadEnded
    BY DEF TickThreadEnded, AwayFromZero
  <2>3. AwayFromZero(sched')
    <3>1. StaysAway(sched, sched')
      BY <2>1, <2>2, TurnCases
    <3> QED BY <3>1 DEF StaysAway
  <2>4. sched.cur # NoThread => sched.st[sched.cur] = "RUNNING"
    BY DEF CoreInv, CurrentRuns
  <2>5. ASSUME Keeps(sched, sched') PROVE OneRunning'
    BY <2>5 DEF Keeps, OneRunning
  <2>6. ASSUME HandsOver(sched, sched') PROVE OneRunning'
    BY <2>6 DEF HandsOver, OneRunning
  <2>7. ASSUME ExitThreadCall PROVE OneRunning'
    <3>1. sched.cur # NoThread /\ sched \in Scheduler(Context)
      BY <2>7, PlaceTypes DEF ExitThreadCall, Calling, CoreInv, CurrentRuns, TypeOK
    <3>2. \A i \in Slots : sched'.st[i] = "RUNNING" =>
             i = sched'.cur \/ (i # sched.cur /\ sched.st[i] = "RUNNING")
      BY <2>7, <3>1, ExitTurns DEF ExitThreadCall
    <3> QED BY <3>2 DEF OneRunning
  <2> QED BY <2>1, <2>2, <2>3, <2>5, <2>6, <2>7, TurnCases
<1>3. Alone => OneRunning
  OBVIOUS
<1> QED BY <1>1, <1>2, <1>3, PTL DEF Spec

-----------------------------------------------------------------------------
(* No interleaving of guest threads mixes up register files.               *)
(*                                                                         *)
(* A handler composes operators of the scheduler.  Each is shown to keep   *)
(* the registers faithful on its own; a handler is then a chain of these   *)
(* lemmas.  The one operator that needs more than that is switch_next,     *)
(* which overwrites blink's registers: they must be in the table already.  *)

\* ContextsFaithful of a scheduler s and the numbers d of completed calls.
Faithful(s, d) ==
    \A t \in Slots : s.st[t] \notin {"FREE", "EXITED"} =>
        /\ (IF t = s.cur THEN s.cpu ELSE s.regs[t]).own = t
        /\ (IF t = s.cur THEN s.cpu ELSE s.regs[t]).n = d[t]

\* The current thread exists and runs.
Occupied(s) == s.cur \in Slots /\ s.st[s.cur] = "RUNNING"

OneMore(d, t) == [d EXCEPT ![t] = Bump(@)]

Done == [Slots -> Counts]

-----------------------------------------------------------------------------
(* The operators, one by one.                                              *)

\* The common epilogue completes the call of the current thread.
LEMMA ReturnedFaithful ==
    ASSUME NEW s \in Scheduler(Context), NEW d \in Done, Faithful(s, d), Occupied(s)
    PROVE  /\ Returned(s) \in Scheduler(Context) /\ Occupied(Returned(s))
           /\ Faithful(Returned(s), OneMore(d, s.cur))
           /\ Returned(s).cur = s.cur
<1> DEFINE r == Returned(s)
<1>1. /\ r \in Scheduler(Context)
      /\ r.cur = s.cur /\ r.st = s.st /\ r.regs = s.regs
      /\ r.cpu = [own |-> s.cpu.own, n |-> Bump(s.cpu.n), at |-> Guest]
  BY ReturnedFields
<1>2. s.cpu.own = s.cur /\ s.cpu.n = d[s.cur]
  BY DEF Faithful, Occupied
<1> HIDE DEF r
<1>3. r.cpu.own = s.cur /\ r.cpu.n = Bump(d[s.cur])
  BY <1>1, <1>2
<1>4. Faithful(r, OneMore(d, s.cur))
  BY <1>1, <1>3 DEF Faithful, OneMore, Done, Occupied
<1>5. r \in Scheduler(Context) /\ Occupied(r) /\ Faithful(r, OneMore(d, s.cur)) /\ r.cur = s.cur
  BY <1>1, <1>4 DEF Occupied
<1> QED BY <1>5 DEF r

\* Waking a thread moves no registers.
LEMMA WakeFaithful ==
    ASSUME NEW s \in Scheduler(Context), NEW d \in Done, Faithful(s, d), NEW h
    PROVE  /\ Wake(s, h) \in Scheduler(Context)
           /\ Faithful(Wake(s, h), d)
           /\ Wake(s, h).cur = s.cur
           /\ Occupied(s) => Occupied(Wake(s, h))
<1> DEFINE x == Wake(s, h)
<1>1. /\ x \in Scheduler(Context)
      /\ x.cur = s.cur /\ x.cpu = s.cpu /\ x.regs = s.regs
      /\ \A i \in Slots : x.st[i] # s.st[i] => s.st[i] = "WAITING" /\ x.st[i] = "READY"
  BY WakeFields
<1> HIDE DEF x
<1>2. Faithful(x, d)
  BY <1>1 DEF Faithful
<1>3. Occupied(s) => Occupied(x)
  BY <1>1 DEF Occupied
<1> QED BY <1>1, <1>2, <1>3 DEF x

\* Moving the instruction pointer completes no call.
LEMMA GoToFaithful ==
    ASSUME NEW s \in Scheduler(Context), NEW d \in Done, Faithful(s, d), NEW p \in Place
    PROVE  Faithful(GoTo(s, p), d)
<1> DEFINE x == GoTo(s, p)
<1>1. /\ x.cur = s.cur /\ x.st = s.st /\ x.regs = s.regs
      /\ x.cpu = [own |-> s.cpu.own, n |-> s.cpu.n, at |-> p]
  BY GoToFields
<1> HIDE DEF x
<1>2. x.cpu.own = s.cpu.own /\ x.cpu.n = s.cpu.n
  BY <1>1
<1>3. Faithful(x, d)
  BY <1>1, <1>2 DEF Faithful
<1> QED BY <1>3 DEF x

LEMMA ArmedFaithful ==
    ASSUME NEW s \in Scheduler(Context), NEW d \in Done, Faithful(s, d), Occupied(s),
           NEW p \in Place, NEW h \in Nat
    PROVE  /\ Armed(s, p, h) \in Scheduler(Context) /\ Occupied(Armed(s, p, h))
           /\ Faithful(Armed(s, p, h), d)
           /\ Armed(s, p, h).cur = s.cur
<1> DEFINE x == Armed(s, p, h)
<1>1. /\ x \in Scheduler(Context)
      /\ x.cur = s.cur /\ x.st = s.st /\ x.regs = s.regs
      /\ x.cpu = [own |-> s.cpu.own, n |-> s.cpu.n, at |-> p]
      /\ x.waitOn = [s.waitOn EXCEPT ![s.cur] = h]
  BY ArmedFields
<1> HIDE DEF x
<1>2. x.cpu.own = s.cpu.own /\ x.cpu.n = s.cpu.n
  BY <1>1
<1>3. Faithful(x, d)
  BY <1>1, <1>2 DEF Faithful
<1>4. Occupied(x)
  BY <1>1 DEF Occupied
<1> QED BY <1>1, <1>3, <1>4 DEF x

\* yield saves the registers of the caller before it loads those of another.
LEMMA YieldFaithful ==
    ASSUME NEW s \in Scheduler(Context), NEW d \in Done, Faithful(s, d), Occupied(s),
           NEW reason \in {"READY", "WAITING"}
    PROVE  /\ Yield(s, reason) \in Scheduler(Context) /\ Occupied(Yield(s, reason))
           /\ Faithful(Yield(s, reason), d)
           /\ ~Switched(s, reason) => Yield(s, reason).cur = s.cur
<1> DEFINE y == Yield(s, reason)
<1>1. NoThread \notin Slots
  BY MaxThreadsAssumption DEF NoThread, Slots
<1>2. s.cur # NoThread
  BY <1>1 DEF Occupied
<1>3. /\ y \in Scheduler(Context)
      /\ y.cur \in Slots
      /\ \A i \in Slots :
           /\ y.regs[i] = IF i = s.cur THEN s.cpu ELSE s.regs[i]
           /\ y.st[i] = IF i = y.cur THEN "RUNNING"
                        ELSE IF i = s.cur THEN reason ELSE s.st[i]
      /\ y.cpu = y.regs[y.cur]
      /\ Switched(s, reason) => (y.cur # s.cur => s.st[y.cur] = "READY")
      /\ ~Switched(s, reason) => y.cur = s.cur
  BY <1>2, YieldFields
<1> HIDE DEF y
<1>4. \A t \in Slots : y.st[t] \notin {"FREE", "EXITED"} =>
        y.regs[t].own = t /\ y.regs[t].n = d[t]
  BY <1>3 DEF Faithful, Occupied
<1>5. Faithful(y, d)
  BY <1>3, <1>4 DEF Faithful
<1>6. Occupied(y)
  BY <1>3 DEF Occupied
<1> QED BY <1>3, <1>5, <1>6 DEF y

\* switch_next loses nothing when blink holds nothing that is not in the table.
LEMMA SwitchNextFaithful ==
    ASSUME NEW s \in Scheduler(Context), NEW d \in Done, Faithful(s, d),
           s.cur # NoThread => s.cpu = s.regs[s.cur]
    PROVE  Faithful(SwitchNext(s), d)
<1> DEFINE x == SwitchNext(s)
<1>1. CASE ~CanSwitch(s)
  BY <1>1, SwitchNextFields
<1>2. CASE CanSwitch(s)
  <2>1. /\ s.st[x.cur] = "READY" /\ x.cur \in Slots
        /\ x.st = [s.st EXCEPT ![x.cur] = "RUNNING"]
        /\ x.cpu = s.regs[x.cur] /\ x.regs = s.regs
    BY <1>2, SwitchNextFields
  <2>2. s.st \in [Slots -> ThreadState] /\ NoThread \notin Slots
    BY MaxThreadsAssumption DEF Scheduler, NoThread, Slots
  <2> HIDE DEF x
  <2>3. \A t \in Slots : s.st[t] \notin {"FREE", "EXITED"} =>
          s.regs[t].own = t /\ s.regs[t].n = d[t]
    BY <2>2 DEF Faithful
  <2>4. \A t \in Slots : x.st[t] \notin {"FREE", "EXITED"} =>
          s.st[t] \notin {"FREE", "EXITED"}
    BY <2>1, <2>2
  <2>5. Faithful(x, d)
    BY <2>1, <2>3, <2>4 DEF Faithful
  <2> QED BY <2>5 DEF x
<1> QED BY <1>1, <1>2

\* exit_thread forgets the registers of the thread that exits, and no others.
LEMMA ExitFaithful ==
    ASSUME NEW s \in Scheduler(Context), NEW d \in Done, Faithful(s, d), s.cur # NoThread
    PROVE  /\ ExitThread(s) \in Scheduler(Context)
           /\ Faithful(ExitThread(s), d)
           /\ ExitThread(s).cur # NoThread =>
                ExitThread(s).cpu = ExitThread(s).regs[ExitThread(s).cur]
<1> DEFINE x == ExitThread(s)
<1>1. /\ x \in Scheduler(Context)
      /\ x.regs = s.regs
      /\ x.cur # NoThread => /\ x.cur \in Slots \ {s.cur}
                             /\ s.st[x.cur] = "READY"
                             /\ x.cpu = s.regs[x.cur]
      /\ \A i \in Slots : x.st[i] = IF i = s.cur THEN "EXITED"
                                    ELSE IF i = x.cur THEN "RUNNING" ELSE s.st[i]
  BY ExitThreadFields
<1>2. NoThread \notin Slots
  BY MaxThreadsAssumption DEF NoThread, Slots
<1> HIDE DEF x
<1>3. Faithful(x, d)
  <2> SUFFICES ASSUME NEW t \in Slots, x.st[t] \notin {"FREE", "EXITED"}
               PROVE  /\ (IF t = x.cur THEN x.cpu ELSE x.regs[t]).own = t
                      /\ (IF t = x.cur THEN x.cpu ELSE x.regs[t]).n = d[t]
    BY DEF Faithful
  <2>1. t # s.cur /\ s.st[t] \notin {"FREE", "EXITED"}
    BY <1>1, <1>2
  <2>2. s.regs[t].own = t /\ s.regs[t].n = d[t]
    BY <2>1 DEF Faithful
  <2> QED BY <1>1, <1>2, <2>2
<1> QED BY <1>1, <1>3 DEF x

\* A new thread starts with registers of its own and no completed call.
LEMMA CreateFaithful ==
    ASSUME NEW s \in Scheduler(Context), NEW d \in Done, Faithful(s, d), Occupied(s),
           NEW i \in Slots, s.st[i] = "FREE", NEW suspended \in BOOLEAN
    PROVE  LET x == CreateThread(s, i, NewContext(i), suspended)
           IN  /\ x \in Scheduler(Context) /\ Occupied(x) /\ x.cur = s.cur
               /\ Faithful(x, [d EXCEPT ![i] = 0])
<1> DEFINE x == CreateThread(s, i, NewContext(i), suspended)
<1>1. NewContext(i) \in Context
  BY PlaceTypes, SyncAssumption DEF NewContext, Context, Counts
<1>2. /\ x \in Scheduler(Context)
      /\ x.cur = s.cur /\ x.cpu = s.cpu
      /\ \A j \in Slots :
           /\ x.st[j] = IF j # i THEN s.st[j] ELSE IF suspended THEN "SUSPENDED" ELSE "READY"
           /\ x.regs[j] = IF j = i THEN NewContext(i) ELSE s.regs[j]
  BY <1>1, CreateThreadFields
<1> HIDE DEF x
<1>3. s.cur # i
  BY DEF Occupied
<1>4. Faithful(x, [d EXCEPT ![i] = 0])
  <2> SUFFICES ASSUME NEW t \in Slots, x.st[t] \notin {"FREE", "EXITED"}
               PROVE  /\ (IF t = x.cur THEN x.cpu ELSE x.regs[t]).own = t
                      /\ (IF t = x.cur THEN x.cpu ELSE x.regs[t]).n = [d EXCEPT ![i] = 0][t]
    BY DEF Faithful
  <2>1. CASE t = i
    BY <2>1, <1>2, <1>3 DEF NewContext, Done
  <2>2. CASE t # i
    BY <2>2, <1>2 DEF Faithful, Done
  <2> QED BY <2>1, <2>2
<1>5. Occupied(x)
  BY <1>2, <1>3 DEF Occupied
<1> QED BY <1>2, <1>4, <1>5 DEF x

LEMMA ResumeFaithful ==
    ASSUME NEW s \in Scheduler(Context), NEW d \in Done, Faithful(s, d), Occupied(s),
           NEW i \in Slots
    PROVE  /\ Resume(s, i) \in Scheduler(Context) /\ Occupied(Resume(s, i))
           /\ Faithful(Resume(s, i), d) /\ Resume(s, i).cur = s.cur
<1> DEFINE x == Resume(s, i)
<1>1. /\ x \in Scheduler(Context)
      /\ x.cur = s.cur /\ x.cpu = s.cpu /\ x.regs = s.regs
      /\ \A j \in Slots :
           x.st[j] = IF j = i /\ s.st[j] = "SUSPENDED" THEN "READY" ELSE s.st[j]
  BY ResumeFields
<1> HIDE DEF x
<1>2. Faithful(x, d)
  BY <1>1 DEF Faithful
<1>3. Occupied(x)
  BY <1>1 DEF Occupied
<1> QED BY <1>1, <1>2, <1>3 DEF x

-----------------------------------------------------------------------------
(* The steps.                                                              *)

ContextsInv == CoreInv /\ Faithful(sched, done)

\* Whoever enters a handler runs, and its registers carry its own slot: the call
\* that Counted counts is the current thread's.
LEMMA CallerCounts ==
    ASSUME ContextsInv, Running, sched.cpu.at # Zero
    PROVE  /\ sched \in Scheduler(Context) /\ done \in Done
           /\ Faithful(sched, done) /\ Occupied(sched)
           /\ OneMore(done, sched.cur) \in Done
           /\ Counted => done' = OneMore(done, sched.cur)
<1>1. sched \in Scheduler(Context) /\ done \in Done /\ Faithful(sched, done)
  BY DEF ContextsInv, CoreInv, TypeOK, Done
<1>2. sched.cur \in Slots /\ sched.st[sched.cur] = "RUNNING"
  BY CallerExists DEF ContextsInv
<1>3. sched.cpu.own = sched.cur
  BY <1>1, <1>2 DEF Faithful
<1>4. OneMore(done, sched.cur) \in Done
  BY <1>1, <1>2, BumpType DEF OneMore, Done
<1> QED BY <1>1, <1>2, <1>3, <1>4 DEF Occupied, Counted, OneMore

\* An epilogue, alone or after a wake-up, a creation or a resumption.
LEMMA EpilogueFaithful ==
    ASSUME ContextsInv, Running, sched.cpu.at # Zero, sched' = Returned(sched), Counted
    PROVE  Faithful(sched', done')
BY CallerCounts, ReturnedFaithful

LEMMA WokenFaithful ==
    ASSUME ContextsInv, Running, sched.cpu.at # Zero, NEW h,
           sched' = Returned(Wake(sched, h)), Counted
    PROVE  Faithful(sched', done')
<1>1. /\ sched \in Scheduler(Context) /\ done \in Done
      /\ Faithful(sched, done) /\ Occupied(sched)
      /\ done' = OneMore(done, sched.cur)
  BY CallerCounts
<1>2. /\ Wake(sched, h) \in Scheduler(Context) /\ Faithful(Wake(sched, h), done)
      /\ Wake(sched, h).cur = sched.cur /\ Occupied(Wake(sched, h))
  BY <1>1, WakeFaithful
<1>3. Faithful(Returned(Wake(sched, h)), OneMore(done, Wake(sched, h).cur))
  BY <1>1, <1>2, ReturnedFaithful
<1> QED BY <1>1, <1>2, <1>3

LEMMA ResumedFaithful ==
    ASSUME ContextsInv, Running, sched.cpu.at # Zero, NEW i \in Slots,
           sched' = Returned(Resume(sched, i)), Counted
    PROVE  Faithful(sched', done')
<1>1. /\ sched \in Scheduler(Context) /\ done \in Done
      /\ Faithful(sched, done) /\ Occupied(sched)
      /\ done' = OneMore(done, sched.cur)
  BY CallerCounts
<1>2. /\ Resume(sched, i) \in Scheduler(Context) /\ Faithful(Resume(sched, i), done)
      /\ Resume(sched, i).cur = sched.cur /\ Occupied(Resume(sched, i))
  BY <1>1, ResumeFaithful
<1>3. Faithful(Returned(Resume(sched, i)), OneMore(done, Resume(sched, i).cur))
  BY <1>1, <1>2, ReturnedFaithful
<1> QED BY <1>1, <1>2, <1>3

LEMMA SpawnFaithful ==
    ASSUME ContextsInv, Running, sched.cpu.at # Zero, NEW suspended \in BOOLEAN,
           NEW i \in Slots, FirstFree(sched, i),
           sched' = Returned(CreateThread(sched, i, NewContext(i), suspended)),
           done' = [done EXCEPT ![sched.cpu.own] = Bump(@), ![i] = 0]
    PROVE  Faithful(sched', done')
<1> DEFINE x == CreateThread(sched, i, NewContext(i), suspended)
           d == [done EXCEPT ![i] = 0]
<1>1. /\ sched \in Scheduler(Context) /\ done \in Done
      /\ Faithful(sched, done) /\ Occupied(sched)
  BY CallerCounts
<1>2. sched.cur \in Slots /\ sched.cur # i /\ sched.cpu.own = sched.cur
  BY <1>1 DEF Occupied, FirstFree, Faithful
<1>3. d \in Done
  BY <1>1, SyncAssumption DEF Done, Counts
<1>4. /\ x \in Scheduler(Context) /\ Occupied(x) /\ x.cur = sched.cur
      /\ Faithful(x, d)
  BY <1>1, CreateFaithful DEF FirstFree
<1>5. done' = OneMore(d, sched.cur)
  BY <1>1, <1>2 DEF OneMore, Done
<1> HIDE DEF x, d
<1>6. Faithful(Returned(x), OneMore(d, x.cur))
  BY <1>3, <1>4, ReturnedFaithful
<1> QED BY <1>4, <1>5, <1>6 DEF x

\* A blocking call that switched, or that found nobody to switch to.
LEMMA BlockFaithful ==
    ASSUME ContextsInv, Running, sched.cpu.at # Zero, NEW w \in Place, NEW h \in Nat,
           NEW reason \in {"READY", "WAITING"}, Block(w, h, reason)
    PROVE  Faithful(sched', done')
<1> DEFINE a == Armed(sched, w, h)
           y == Yield(a, reason)
<1>1. /\ sched \in Scheduler(Context) /\ done \in Done
      /\ Faithful(sched, done) /\ Occupied(sched)
      /\ Counted => done' = OneMore(done, sched.cur)
  BY CallerCounts
<1>2. /\ a \in Scheduler(Context) /\ Occupied(a) /\ Faithful(a, done)
      /\ a.cur = sched.cur
  BY <1>1, ArmedFaithful
<1>3. IF Switched(a, reason) THEN sched' = y /\ UNCHANGED done
                             ELSE sched' = Returned(y) /\ Counted
  BY DEF Block
<1> HIDE DEF a
<1>4. /\ y \in Scheduler(Context) /\ Occupied(y) /\ Faithful(y, done)
      /\ ~Switched(a, reason) => y.cur = a.cur
  BY <1>1, <1>2, YieldFaithful
<1> HIDE DEF y
<1>5. Faithful(Returned(y), OneMore(done, y.cur))
  BY <1>1, <1>4, ReturnedFaithful
<1> QED BY <1>1, <1>2, <1>3, <1>4, <1>5

LEMMA WaitFaithful ==
    ASSUME ContextsInv, Running, sched.cpu.at # Zero, NEW w \in Place, Wait(w)
    PROVE  Faithful(sched', done')
<1>1. TypeOK
  BY DEF ContextsInv, CoreInv
<1> QED BY <1>1, WaitCases, EpilogueFaithful, BlockFaithful

\* Sleep and GetMessage complete their call, then yield.
LEMMA YieldedFaithful ==
    ASSUME ContextsInv, Running, sched.cpu.at # Zero,
           sched' = Yield(Returned(sched), "READY"), Counted
    PROVE  Faithful(sched', done')
<1>1. /\ sched \in Scheduler(Context) /\ done \in Done
      /\ Faithful(sched, done) /\ Occupied(sched)
      /\ OneMore(done, sched.cur) \in Done
      /\ done' = OneMore(done, sched.cur)
  BY CallerCounts
<1>2. /\ Returned(sched) \in Scheduler(Context) /\ Occupied(Returned(sched))
      /\ Faithful(Returned(sched), OneMore(done, sched.cur))
  BY <1>1, ReturnedFaithful
<1>3. Faithful(Yield(Returned(sched), "READY"), OneMore(done, sched.cur))
  BY <1>1, <1>2, YieldFaithful
<1> QED BY <1>1, <1>3

LEMMA ContextsNext == ContextsInv /\ [Next]_syncVars => Faithful(sched', done')
<1> SUFFICES ASSUME ContextsInv, [Next]_syncVars PROVE Faithful(sched', done')
  OBVIOUS
<1>1. /\ TypeOK /\ sched \in Scheduler(Context) /\ done \in Done
      /\ Faithful(sched, done) /\ CoreInv
  BY DEF ContextsInv, CoreInv, TypeOK, Done
<1>2. Zero # Guest /\ Zero \in Place
  BY PlaceTypes
<1>3. ASSUME CreateEvent \/ ResetEvent \/ NsdShow PROVE Faithful(sched', done')
  <2>1. Running /\ sched.cpu.at # Zero /\ sched' = Returned(sched) /\ Counted
    BY <1>2, <1>3 DEF CreateEvent, ResetEvent, NsdShow, Calling
  <2> QED BY <2>1, EpilogueFaithful
<1>4. ASSUME SetEvent PROVE Faithful(sched', done')
  <2>1. PICK e \in 0 .. evNext - 1 : sched' = Returned(Wake(sched, EventHandle(e)))
    BY <1>4 DEF SetEvent
  <2>2. Running /\ sched.cpu.at # Zero /\ Counted
    BY <1>2, <1>4 DEF SetEvent, Calling
  <2> QED BY <2>1, <2>2, WokenFaithful
<1>5. ASSUME PostQueuedCompletionStatus PROVE Faithful(sched', done')
  <2>1. Running /\ sched.cpu.at # Zero /\ Counted
        /\ sched' = Returned(Wake(sched, IocpHandle))
    BY <1>2, <1>5 DEF PostQueuedCompletionStatus, Calling
  <2> QED BY <2>1, WokenFaithful
<1>6. ASSUME NEW call, NEW suspended \in BOOLEAN, Spawn(call, suspended)
      PROVE  Faithful(sched', done')
  <2>1. Running /\ sched.cpu.at # Zero
    BY <1>2, <1>6 DEF Spawn, Calling
  <2>2. ASSUME NEW i \in Slots, FirstFree(sched, i),
               sched' = Returned(CreateThread(sched, i, NewContext(i), suspended)),
               done' = [done EXCEPT ![sched.cpu.own] = Bump(@), ![i] = 0]
        PROVE  Faithful(sched', done')
    BY <2>1, <2>2, SpawnFaithful
  <2>3. CASE sched' = Returned(sched) /\ Counted
    BY <2>1, <2>3, EpilogueFaithful
  <2> QED BY <1>6, <2>2, <2>3 DEF Spawn
<1>7. ASSUME ResumeThread PROVE Faithful(sched', done')
  <2>1. PICK i \in Slots : sched' = Returned(Resume(sched, i))
    BY <1>7 DEF ResumeThread
  <2>2. Running /\ sched.cpu.at # Zero /\ Counted
    BY <1>2, <1>7 DEF ResumeThread, Calling
  <2> QED BY <2>1, <2>2, ResumedFaithful
<1>8. ASSUME WaitForSingleObject PROVE Faithful(sched', done')
  <2>1. PICK w \in Handling("WaitSingle",
                  [op : {"WaitSingle"}, hs : {<<h>> : h \in KnownHandles},
                   all : {FALSE}, to : Timeouts]) : Wait(w)
    BY <1>8 DEF WaitForSingleObject
  <2>2. w \in Place /\ sched.cpu.at # Zero
    BY <1>1, FreshTypes, WaitArguments DEF Ops
  <2> QED BY <1>8, <2>1, <2>2, WaitFaithful DEF WaitForSingleObject
<1>9. ASSUME WaitForMultipleObjects PROVE Faithful(sched', done')
  <2>1. PICK w \in Handling("WaitMultiple",
                  [op : {"WaitMultiple"},
                   hs : {p \in KnownHandles \X KnownHandles : p[1] # p[2]},
                   all : BOOLEAN, to : Timeouts]) : Wait(w)
    BY <1>9 DEF WaitForMultipleObjects
  <2>2. w \in Place /\ sched.cpu.at # Zero
    BY <1>1, FreshTypes, WaitArguments DEF Ops
  <2> QED BY <1>9, <2>1, <2>2, WaitFaithful DEF WaitForMultipleObjects
<1>10. ASSUME GetQueuedCompletionStatus PROVE Faithful(sched', done')
  <2>1. PICK w \in Handling("GQCS", [op : {"GQCS"}, hs : {<<IocpHandle>>},
                                     all : {FALSE}, to : Timeouts]) :
          \/ sched' = Returned(sched) /\ Counted
          \/ Block(w, IocpHandle, "WAITING")
    BY <1>10 DEF GetQueuedCompletionStatus
  <2>2. w \in Place /\ sched.cpu.at # Zero
    BY <1>1, FreshTypes, WaitArguments DEF Ops
  <2>3. Running
    BY <1>10 DEF GetQueuedCompletionStatus
  <2> QED BY <1>1, <2>1, <2>2, <2>3, EpilogueFaithful, BlockFaithful, HandleTypes
<1>11. ASSUME Sleep \/ GetMessage PROVE Faithful(sched', done')
  <2>1. Running /\ sched.cpu.at # Zero /\ Counted
        /\ sched' = Yield(Returned(sched), "READY")
    BY <1>2, <1>11 DEF Sleep, GetMessage, Calling
  <2> QED BY <2>1, YieldedFaithful
<1>12. ASSUME ExitThreadCall PROVE Faithful(sched', done')
  <2> DEFINE gone == ExitThread(sched)
  <2>1. sched.cur # NoThread
    BY <1>1, <1>2, <1>12, CallerExists
       DEF ExitThreadCall, Calling, CoreInv, CurrentRuns
  <2>2. gone \in Scheduler(Context) /\ Faithful(gone, done)
    BY <1>1, <2>1, ExitFaithful
  <2>3. sched' = (IF gone.cur = NoThread THEN GoTo(gone, Zero) ELSE gone) /\ done' = done
    BY <1>12 DEF ExitThreadCall
  <2> HIDE DEF gone
  <2>4. Faithful(GoTo(gone, Zero), done)
    BY <1>1, <1>2, <2>2, GoToFaithful
  <2> QED BY <2>2, <2>3, <2>4
<1>13. ASSUME ThreadReturns \/ ExitProcess PROVE Faithful(sched', done')
  <2>1. sched' = GoTo(sched, Zero) /\ done' = done
    BY <1>13 DEF ThreadReturns, ExitProcess
  <2> QED BY <1>1, <1>2, <2>1, GoToFaithful
<1>14. ASSUME TickThreadEnded PROVE Faithful(sched', done')
  <2> DEFINE gone  == ExitThread(sched)
             woken == Wake(gone, ThreadHandle(sched.cur))
  <2>1. sched.cur # NoThread /\ sched' = SwitchNext(woken) /\ done' = done
    BY <1>14 DEF TickThreadEnded
  <2>2. /\ gone \in Scheduler(Context) /\ Faithful(gone, done)
        /\ gone.cur # NoThread => gone.cpu = gone.regs[gone.cur]
    BY <1>1, <2>1, ExitFaithful
  <2> HIDE DEF gone
  <2>3. /\ woken \in Scheduler(Context) /\ Faithful(woken, done)
        /\ woken.cur = gone.cur
    BY <1>1, <2>2, WakeFaithful
  <2>4. woken.cpu = gone.cpu /\ woken.regs = gone.regs
    BY <2>2, WakeFields
  <2> HIDE DEF woken
  <2>5. Faithful(SwitchNext(woken), done)
    BY <1>1, <2>2, <2>3, <2>4, SwitchNextFaithful
  <2> QED BY <2>1, <2>5
<1>15. ASSUME TickPaused PROVE Faithful(sched', done')
  <2> DEFINE v == SaveCurrent(sched, "WAITING")
  <2>1. sched.cur \in Slots /\ sched.st[sched.cur] = "RUNNING" /\ sched.cur # NoThread
    BY <1>1, <1>15 DEF TickPaused, CoreInv, CurrentRuns, IdleAtGuest, Scheduler
  <2>2. /\ v \in Scheduler(Context) /\ v.cur = sched.cur /\ v.cpu = sched.cpu
        /\ v.st = [sched.st EXCEPT ![sched.cur] = "WAITING"]
        /\ v.regs = [sched.regs EXCEPT ![sched.cur] = sched.cpu]
    BY <1>1, <2>1, SaveCurrentFields DEF ThreadState
  <2>3. sched' = SwitchNext(v) /\ done' = done
    BY <1>15 DEF TickPaused
  <2> HIDE DEF v
  <2>4. sched.st \in [Slots -> ThreadState] /\ sched.regs \in [Slots -> Context]
    BY <1>1 DEF Scheduler
  <2>5. Faithful(v, done) /\ v.cpu = v.regs[v.cur]
    BY <1>1, <2>1, <2>2, <2>4 DEF Faithful
  <2>6. Faithful(SwitchNext(v), done)
    BY <1>1, <2>2, <2>5, SwitchNextFaithful
  <2> QED BY <2>3, <2>6
<1>16. ASSUME TickProgramEnded \/ TickCrash \/ EngineRun \/ NextTap
       PROVE  Faithful(sched', done')
  BY <1>1, <1>16 DEF TickProgramEnded, TickCrash, EngineRun, NextTap
<1>17. CASE UNCHANGED syncVars
  BY <1>1, <1>17 DEF syncVars
<1> QED
  BY <1>3, <1>4, <1>5, <1>6, <1>7, <1>8, <1>9, <1>10, <1>11, <1>12, <1>13, <1>14, <1>15,
     <1>16, <1>17
  DEF Next, Tick, YieldingCall, SpawnReady, SpawnSuspended

\* Registers never reach the wrong thread and never go back in time: with any
\* number of threads, blink holds the registers of the current thread, the table
\* those of every other live one, each as of its last completed call.
THEOREM RegistersFaithful == Spec => []ContextsFaithful
<1>1. Init => ContextsInv
  <2> SUFFICES ASSUME Init PROVE ContextsInv
    OBVIOUS
  <2>1. CoreInv /\ sched \in Scheduler(Context)
    BY CoreInit DEF CoreInv, TypeOK
  <2>2. /\ sched.st = [t \in Slots |-> IF t = Main THEN "RUNNING" ELSE "FREE"]
        /\ sched.cur = Main /\ sched.cpu = NewContext(Main)
        /\ done = [t \in Slots |-> 0]
    BY DEF Init
  <2>3. Faithful(sched, done)
    BY <2>2 DEF Faithful, NewContext
  <2> QED BY <2>1, <2>3 DEF ContextsInv
<1>2. ContextsInv /\ [Next]_syncVars => ContextsInv'
  BY CoreNext, ContextsNext DEF ContextsInv, Faithful
<1>3. ContextsInv => ContextsFaithful
  BY DEF ContextsInv, Faithful, ContextsFaithful
<1> QED BY <1>1, <1>2, <1>3, PTL DEF Spec

-----------------------------------------------------------------------------
(* No wake-up is lost.  NoLostWakeup is not inductive.  Two facts are      *)
(* added: a WAITING thread is registered for the very handle its pending   *)
(* call names first, so that a signal finds it; and no pending call names  *)
(* an event that was not created yet, so that an event created signalled   *)
(* has no waiter.  The same registration shows, in the last section, that  *)
(* no join is lost while threads end by returning (NoLostJoin).            *)

Waits == {"WaitSingle", "WaitMultiple"}

\* NoLostWakeup with the registered handles, of a scheduler s, the flags sig of
\* the events and the number k of queued completions.
Parked(s, sig, k) ==
    \A t \in Slots : s.st[t] = "WAITING" =>
        /\ s.regs[t].at.op \in Waits =>
             /\ s.waitOn[t] = s.regs[t].at.hs[1]
             /\ ~s.regs[t].at.all =>
                  \A e \in Events : s.regs[t].at.hs[1] = EventHandle(e) => ~sig[e]
        /\ s.regs[t].at.op = "GQCS" => s.waitOn[t] = IocpHandle /\ k = 0

\* The place p names no event beyond the first n.
Known(p, n) == \A e \in Events : p.hs[1] = EventHandle(e) => e < n

KnownPlaces(s, n) ==
    Known(s.cpu.at, n) /\ \A t \in Slots : Known(s.regs[t].at, n)

WakeupInv ==
    CoreInv /\ Parked(sched, evSig, iocp) /\ KnownPlaces(sched, evNext)

\* Every thread that waits in x waited in s already, for the same call.
StillParked(s, x) ==
    \A t \in Slots : x.st[t] = "WAITING" =>
        s.st[t] = "WAITING" /\ x.regs[t] = s.regs[t] /\ x.waitOn[t] = s.waitOn[t]

\* Every place in x comes from s, or names no event.
SamePlaces(s, x) ==
    LET from(p) == \/ p \in {Guest, Zero, s.cpu.at}
                   \/ \E u \in Slots : p = s.regs[u].at
    IN  from(x.cpu.at) /\ \A t \in Slots : from(x.regs[t].at)

-----------------------------------------------------------------------------
(* Steps after which nobody new waits and nothing new is signalled.        *)

LEMMA StillParkedKeeps ==
    ASSUME NEW s, NEW x, NEW sig, NEW sig2, NEW k, NEW k2,
           Parked(s, sig, k), StillParked(s, x),
           \A e \in Events : sig2[e] => sig[e],
           k = 0 => k2 = 0
    PROVE  Parked(x, sig2, k2)
BY DEF Parked, StillParked

LEMMA PlainPlaces == \A n \in Nat : Known(Guest, n) /\ Known(Zero, n)
<1>1. \A e \in Events : EventHandle(e) # 0
  BY SyncAssumption DEF Events, EventHandle
<1>2. Guest.hs[1] = 0 /\ Zero.hs[1] = 0
  BY DEF Guest, Zero
<1> QED BY <1>1, <1>2 DEF Known

LEMMA SamePlacesKeeps ==
    ASSUME NEW s, NEW x, NEW n \in Nat, NEW n2 \in Nat, n <= n2,
           KnownPlaces(s, n), SamePlaces(s, x)
    PROVE  KnownPlaces(x, n2)
<1>1. \A p : Known(p, n) => Known(p, n2)
  BY SyncAssumption DEF Known, Events
<1>2. Known(Guest, n2) /\ Known(Zero, n2)
  BY PlainPlaces
<1>3. Known(s.cpu.at, n2) /\ \A u \in Slots : Known(s.regs[u].at, n2)
  BY <1>1 DEF KnownPlaces
<1> QED BY <1>2, <1>3 DEF SamePlaces, KnownPlaces

LEMMA ReturnedParks ==
    ASSUME NEW s \in Scheduler(Context)
    PROVE  /\ Returned(s) \in Scheduler(Context)
           /\ StillParked(s, Returned(s)) /\ SamePlaces(s, Returned(s))
<1>1. /\ Returned(s) \in Scheduler(Context)
      /\ Returned(s).st = s.st /\ Returned(s).waitOn = s.waitOn
      /\ Returned(s).regs = s.regs /\ Returned(s).cpu.at = Guest
  BY ReturnedFields
<1> QED BY <1>1 DEF StillParked, SamePlaces

\* After a wake-up only those wait that were registered for another handle.
LEMMA WokenParks ==
    ASSUME NEW s \in Scheduler(Context), NEW h
    PROVE  /\ StillParked(s, Returned(Wake(s, h))) /\ SamePlaces(s, Returned(Wake(s, h)))
           /\ \A t \in Slots :
                Returned(Wake(s, h)).st[t] = "WAITING" => s.waitOn[t] # h
<1> DEFINE w == Wake(s, h)
<1>1. /\ w \in Scheduler(Context) /\ w.cpu = s.cpu /\ w.regs = s.regs
      /\ \A i \in Slots :
           IF s.st[i] = "WAITING" /\ s.waitOn[i] = h
           THEN w.st[i] = "READY" /\ w.waitOn[i] = 0
           ELSE w.st[i] = s.st[i] /\ w.waitOn[i] = s.waitOn[i]
  BY WakeFields
<1> HIDE DEF w
<1>2. /\ Returned(w).st = w.st /\ Returned(w).waitOn = w.waitOn
      /\ Returned(w).regs = w.regs /\ Returned(w).cpu.at = Guest
  BY <1>1, ReturnedFields
<1> DEFINE x == Returned(w)
<1> HIDE DEF x
<1>3. /\ StillParked(s, x)
      /\ \A t \in Slots : x.st[t] = "WAITING" => s.waitOn[t] # h
  BY <1>1, <1>2 DEF StillParked, x
<1>4. SamePlaces(s, x)
  BY <1>1, <1>2 DEF SamePlaces, x
<1> QED BY <1>3, <1>4 DEF x, w

LEMMA ResumedParks ==
    ASSUME NEW s \in Scheduler(Context), NEW i \in Slots
    PROVE  /\ StillParked(s, Returned(Resume(s, i)))
           /\ SamePlaces(s, Returned(Resume(s, i)))
<1> DEFINE r == Resume(s, i)
<1>1. /\ r \in Scheduler(Context)
      /\ r.cpu = s.cpu /\ r.waitOn = s.waitOn /\ r.regs = s.regs
      /\ \A j \in Slots :
           r.st[j] = IF j = i /\ s.st[j] = "SUSPENDED" THEN "READY" ELSE s.st[j]
  BY ResumeFields
<1> HIDE DEF r
<1>2. /\ Returned(r).st = r.st /\ Returned(r).waitOn = r.waitOn
      /\ Returned(r).regs = r.regs /\ Returned(r).cpu.at = Guest
  BY <1>1, ReturnedFields
<1>3. StillParked(s, Returned(r)) /\ SamePlaces(s, Returned(r))
  BY <1>1, <1>2 DEF StillParked, SamePlaces
<1> QED BY <1>3 DEF r

LEMMA SpawnedParks ==
    ASSUME NEW s \in Scheduler(Context), NEW i \in Slots, NEW suspended \in BOOLEAN
    PROVE  LET x == Returned(CreateThread(s, i, NewContext(i), suspended))
           IN  StillParked(s, x) /\ SamePlaces(s, x)
<1> DEFINE c == CreateThread(s, i, NewContext(i), suspended)
<1>1. NewContext(i) \in Context /\ NewContext(i).at = Guest
  BY PlaceTypes, SyncAssumption DEF NewContext, Context, Counts
<1>2. /\ c \in Scheduler(Context) /\ c.cpu = s.cpu
      /\ \A j \in Slots :
           /\ c.st[j] = IF j # i THEN s.st[j] ELSE IF suspended THEN "SUSPENDED" ELSE "READY"
           /\ c.waitOn[j] = IF j = i THEN 0 ELSE s.waitOn[j]
           /\ c.regs[j] = IF j = i THEN NewContext(i) ELSE s.regs[j]
  BY <1>1, CreateThreadFields
<1> HIDE DEF c
<1>3. /\ Returned(c).st = c.st /\ Returned(c).waitOn = c.waitOn
      /\ Returned(c).regs = c.regs /\ Returned(c).cpu.at = Guest
  BY <1>2, ReturnedFields
<1>4. StillParked(s, Returned(c))
  BY <1>2, <1>3 DEF StillParked
<1>5. SamePlaces(s, Returned(c))
  BY <1>1, <1>2, <1>3 DEF SamePlaces
<1> QED BY <1>4, <1>5 DEF c

LEMMA GoToParks ==
    ASSUME NEW s \in Scheduler(Context)
    PROVE  StillParked(s, GoTo(s, Zero)) /\ SamePlaces(s, GoTo(s, Zero))
<1>1. /\ GoTo(s, Zero).st = s.st /\ GoTo(s, Zero).waitOn = s.waitOn
      /\ GoTo(s, Zero).regs = s.regs /\ GoTo(s, Zero).cpu.at = Zero
  BY PlaceTypes, GoToFields
<1> QED BY <1>1 DEF StillParked, SamePlaces

LEMMA SwitchNextParks ==
    ASSUME NEW s \in Scheduler(Context)
    PROVE  StillParked(s, SwitchNext(s)) /\ SamePlaces(s, SwitchNext(s))
<1> DEFINE x == SwitchNext(s)
<1>1. CASE ~CanSwitch(s)
  <2>1. x = s
    BY <1>1, SwitchNextFields
  <2> QED BY <2>1 DEF StillParked, SamePlaces
<1>2. CASE CanSwitch(s)
  <2>1. /\ x.cur \in Slots /\ x.st = [s.st EXCEPT ![x.cur] = "RUNNING"]
        /\ x.cpu = s.regs[x.cur] /\ x.regs = s.regs /\ x.waitOn = s.waitOn
    BY <1>2, SwitchNextFields
  <2>2. s.st \in [Slots -> ThreadState]
    BY DEF Scheduler
  <2> HIDE DEF x
  <2>3. StillParked(s, x)
    BY <2>1, <2>2 DEF StillParked
  <2>4. SamePlaces(s, x)
    BY <2>1 DEF SamePlaces
  <2> QED BY <2>3, <2>4 DEF x
<1> QED BY <1>1, <1>2

\* One operator after another.
LEMMA ParksTwice ==
    ASSUME NEW s, NEW x, NEW y, StillParked(s, x), StillParked(x, y),
           SamePlaces(s, x), SamePlaces(x, y)
    PROVE  StillParked(s, y) /\ SamePlaces(s, y)
<1>1. StillParked(s, y)
  BY DEF StillParked
<1>2. SamePlaces(s, y)
  BY DEF SamePlaces
<1> QED BY <1>1, <1>2

\* The thread-return path of the tick: exit, wake the joiners, switch again.
LEMMA EndedParks ==
    ASSUME NEW s \in Scheduler(Context), s.cur # NoThread, NEW h
    PROVE  /\ StillParked(s, ExitThread(s)) /\ SamePlaces(s, ExitThread(s))
           /\ StillParked(s, SwitchNext(Wake(ExitThread(s), h)))
           /\ SamePlaces(s, SwitchNext(Wake(ExitThread(s), h)))
<1> DEFINE gone == ExitThread(s)
<1>1. /\ gone \in Scheduler(Context)
      /\ gone.waitOn = s.waitOn /\ gone.regs = s.regs
      /\ gone.cur = NoThread => gone.cpu = s.cpu
      /\ gone.cur # NoThread => gone.cur \in Slots /\ gone.cpu = s.regs[gone.cur]
      /\ \A i \in Slots : gone.st[i] = IF i = s.cur THEN "EXITED"
                                       ELSE IF i = gone.cur THEN "RUNNING" ELSE s.st[i]
  BY ExitThreadFields
<1> HIDE DEF gone
<1>2. StillParked(s, gone)
  BY <1>1 DEF StillParked
<1>3. SamePlaces(s, gone)
  BY <1>1 DEF SamePlaces
<1> DEFINE woken == Wake(gone, h)
<1>4. /\ woken \in Scheduler(Context) /\ woken.cpu = gone.cpu /\ woken.regs = gone.regs
      /\ \A i \in Slots :
           IF gone.st[i] = "WAITING" /\ gone.waitOn[i] = h
           THEN woken.st[i] = "READY" /\ woken.waitOn[i] = 0
           ELSE woken.st[i] = gone.st[i] /\ woken.waitOn[i] = gone.waitOn[i]
  BY <1>1, WakeFields
<1> HIDE DEF woken
<1>5. StillParked(gone, woken)
  BY <1>4 DEF StillParked
<1>6. SamePlaces(gone, woken)
  BY <1>4 DEF SamePlaces
<1>7. StillParked(woken, SwitchNext(woken)) /\ SamePlaces(woken, SwitchNext(woken))
  BY <1>4, SwitchNextParks
<1>8. StillParked(s, woken) /\ SamePlaces(s, woken)
  BY <1>2, <1>3, <1>5, <1>6, ParksTwice
<1>9. StillParked(s, SwitchNext(woken)) /\ SamePlaces(s, SwitchNext(woken))
  BY <1>7, <1>8, ParksTwice
<1> QED BY <1>2, <1>3, <1>9 DEF woken, gone

\* Sleep and GetMessage leave their caller READY or RUNNING.
LEMMA YieldedParks ==
    ASSUME NEW s \in Scheduler(Context), s.cur # NoThread
    PROVE  /\ StillParked(s, Yield(Returned(s), "READY"))
           /\ SamePlaces(s, Yield(Returned(s), "READY"))
<1> DEFINE r == Returned(s)
           y == Yield(r, "READY")
<1>1. /\ r \in Scheduler(Context) /\ r.cur = s.cur
      /\ StillParked(s, r) /\ SamePlaces(s, r)
  BY ReturnedFields, ReturnedParks
<1> HIDE DEF r
<1>2. /\ y.cur \in Slots
      /\ y.waitOn = r.waitOn
      /\ \A i \in Slots :
           /\ y.regs[i] = IF i = r.cur THEN r.cpu ELSE r.regs[i]
           /\ y.st[i] = IF i = y.cur THEN "RUNNING"
                        ELSE IF i = r.cur THEN "READY" ELSE r.st[i]
      /\ y.cpu = y.regs[y.cur]
  BY <1>1, YieldFields
<1> HIDE DEF y
<1>3. StillParked(r, y)
  BY <1>2 DEF StillParked
<1>4. SamePlaces(r, y)
  BY <1>2 DEF SamePlaces
<1>5. StillParked(s, y) /\ SamePlaces(s, y)
  BY <1>1, <1>3, <1>4, ParksTwice
<1> QED BY <1>5 DEF r, y

\* A paused engine parks its current thread in guest code: it waits for nothing
\* that is ever signalled, and so breaks no promise of a wake-up.
LEMMA PausedParks ==
    ASSUME NEW s \in Scheduler(Context), s.cur \in Slots, s.cpu.at = Guest,
           NEW sig, NEW k, Parked(s, sig, k)
    PROVE  /\ Parked(SwitchNext(SaveCurrent(s, "WAITING")), sig, k)
           /\ SamePlaces(s, SwitchNext(SaveCurrent(s, "WAITING")))
<1> DEFINE v == SaveCurrent(s, "WAITING")
<1>1. NoThread \notin Slots
  BY MaxThreadsAssumption DEF NoThread, Slots
<1>2. /\ v \in Scheduler(Context) /\ v.cpu = s.cpu /\ v.waitOn = s.waitOn
      /\ v.st = [s.st EXCEPT ![s.cur] = "WAITING"]
      /\ v.regs = [s.regs EXCEPT ![s.cur] = s.cpu]
  BY <1>1, SaveCurrentFields DEF ThreadState
<1>3. s.st \in [Slots -> ThreadState] /\ s.regs \in [Slots -> Context]
  BY DEF Scheduler
<1> HIDE DEF v
<1>4. Guest.op \notin Waits /\ Guest.op # "GQCS"
  BY DEF Guest, Waits
<1>5. \A t \in Slots : /\ v.regs[t] = IF t = s.cur THEN s.cpu ELSE s.regs[t]
                       /\ v.st[t] = IF t = s.cur THEN "WAITING" ELSE s.st[t]
  BY <1>2, <1>3
<1>6. Parked(v, sig, k)
  <2> SUFFICES ASSUME NEW t \in Slots, v.st[t] = "WAITING"
               PROVE  /\ v.regs[t].at.op \in Waits =>
                           /\ v.waitOn[t] = v.regs[t].at.hs[1]
                           /\ ~v.regs[t].at.all =>
                                \A e \in Events : v.regs[t].at.hs[1] = EventHandle(e) => ~sig[e]
                      /\ v.regs[t].at.op = "GQCS" => v.waitOn[t] = IocpHandle /\ k = 0
    BY DEF Parked
  <2>1. CASE t = s.cur
    <3>1. v.regs[t].at = Guest
      BY <1>5, <2>1
    <3> QED BY <1>4, <3>1
  <2>2. CASE t # s.cur
    <3>1. v.regs[t] = s.regs[t] /\ s.st[t] = "WAITING" /\ v.waitOn[t] = s.waitOn[t]
      BY <1>2, <1>5, <2>2
    <3> QED BY <3>1 DEF Parked
  <2> QED BY <2>1, <2>2
<1>7. SamePlaces(s, v)
  BY <1>2, <1>5 DEF SamePlaces
<1>8. StillParked(v, SwitchNext(v)) /\ SamePlaces(v, SwitchNext(v))
  BY <1>2, SwitchNextParks
<1>9. Parked(SwitchNext(v), sig, k)
  BY <1>6, <1>8, StillParkedKeeps
<1>10. SamePlaces(s, SwitchNext(v))
  BY <1>7, <1>8 DEF SamePlaces
<1> QED BY <1>9, <1>10 DEF v

-----------------------------------------------------------------------------
(* Blocking calls.                                                         *)

\* What a blocking call leaves: the places of before and its own; the caller, if
\* it now waits, registered for the handle of the call.
LEMMA BlockParks ==
    ASSUME CoreInv, Running, sched.cpu.at # Zero, NEW w \in Place, NEW h \in Nat,
           NEW reason \in {"READY", "WAITING"}, Block(w, h, reason)
    PROVE  /\ \A t \in Slots : sched'.st[t] = "WAITING" =>
                \/ /\ sched.st[t] = "WAITING"
                   /\ sched'.regs[t] = sched.regs[t] /\ sched'.waitOn[t] = sched.waitOn[t]
                \/ /\ reason = "WAITING"
                   /\ sched'.regs[t].at = w /\ sched'.waitOn[t] = h
           /\ \A n \in Nat : KnownPlaces(sched, n) /\ Known(w, n) => KnownPlaces(sched', n)
<1>1. TypeOK /\ sched.cur # NoThread /\ sched.cur \in Slots
  BY CallerExists DEF CoreInv, CurrentRuns
<1>2. /\ sched'.cur \in Slots
      /\ sched'.waitOn = [sched.waitOn EXCEPT ![sched.cur] = h]
      /\ \A i \in Slots :
           /\ sched'.st[i] = IF i = sched'.cur THEN "RUNNING"
                             ELSE IF i = sched.cur THEN reason ELSE sched.st[i]
           /\ sched'.regs[i] = IF i # sched.cur THEN sched.regs[i]
                               ELSE [own |-> sched.cpu.own, n |-> sched.cpu.n, at |-> w]
      /\ \/ sched'.cpu = sched'.regs[sched'.cur]
         \/ sched'.cpu = [own |-> sched.cpu.own, n |-> Bump(sched.cpu.n), at |-> Guest]
  BY <1>1, BlockFields
<1>3. sched.waitOn \in [Slots -> Nat]
  BY <1>1 DEF TypeOK, Scheduler
<1>4. \A i \in Slots : sched'.waitOn[i] = IF i = sched.cur THEN h ELSE sched.waitOn[i]
  BY <1>2, <1>3
<1>5. sched'.regs[sched.cur].at = w
  BY <1>1, <1>2
<1>6. ASSUME NEW t \in Slots, sched'.st[t] = "WAITING"
      PROVE  \/ /\ sched.st[t] = "WAITING"
                /\ sched'.regs[t] = sched.regs[t] /\ sched'.waitOn[t] = sched.waitOn[t]
             \/ /\ reason = "WAITING"
                /\ sched'.regs[t].at = w /\ sched'.waitOn[t] = h
  BY <1>2, <1>4, <1>5, <1>6
<1>7. ASSUME NEW n \in Nat, KnownPlaces(sched, n), Known(w, n)
      PROVE  KnownPlaces(sched', n)
  <2>1. \A t \in Slots : Known(sched'.regs[t].at, n)
    BY <1>2, <1>5, <1>7 DEF KnownPlaces
  <2>2. Known(sched'.cpu.at, n)
    <3>1. CASE sched'.cpu = sched'.regs[sched'.cur]
      BY <1>2, <2>1, <3>1
    <3>2. CASE sched'.cpu = [own |-> sched.cpu.own, n |-> Bump(sched.cpu.n), at |-> Guest]
      BY <3>2, PlainPlaces
    <3> QED BY <1>2, <3>1, <3>2
  <2> QED BY <2>1, <2>2 DEF KnownPlaces
<1> QED BY <1>6, <1>7

\* The handles a guest may wait for name no event that does not exist.
LEMMA FreshKnown ==
    ASSUME TypeOK, NEW h \in KnownHandles \cup {IocpHandle}, NEW e \in Events,
           h = EventHandle(e)
    PROVE  e < evNext
BY SyncAssumption, MaxThreadsAssumption
   DEF TypeOK, KnownHandles, EventHandle, IocpHandle, ThreadHandle, Slots, Main, Events

\* A wait tests its handles and registers the first without interruption: it
\* blocks only on a handle that is not signalled.
LEMMA WaitParks ==
    ASSUME WakeupInv, Running, sched.cpu.at # Zero, NEW w \in Place, w.op \in Waits,
           Known(w, evNext), Wait(w), UNCHANGED <<evNext, iocp>>
    PROVE  Parked(sched', evSig', iocp') /\ KnownPlaces(sched', evNext')
<1>1. /\ CoreInv /\ TypeOK /\ sched \in Scheduler(Context) /\ evNext \in Nat
      /\ Parked(sched, evSig, iocp) /\ KnownPlaces(sched, evNext)
      /\ evSig \in [Events -> BOOLEAN]
  BY SyncAssumption DEF WakeupInv, CoreInv, TypeOK
<1>2. CASE sched' = Returned(sched) /\ \A e \in Events : evSig'[e] => evSig[e]
  <2>1. StillParked(sched, sched') /\ SamePlaces(sched, sched')
    BY <1>1, <1>2, ReturnedParks
  <2>2. Parked(sched', evSig', iocp')
    BY <1>1, <1>2, <2>1, StillParkedKeeps
  <2>3. KnownPlaces(sched', evNext')
    BY <1>1, <2>1, SamePlacesKeeps
  <2> QED BY <2>2, <2>3
<1>3. CASE ~Satisfied(w) /\ Block(w, w.hs[1], WaitReason(w)) /\ UNCHANGED evSig
  <2>1. w.hs[1] \in Nat /\ 1 \in DOMAIN w.hs
    BY DEF Place
  <2>2. WaitReason(w) \in {"READY", "WAITING"}
    BY DEF WaitReason
  <2>3. ~w.all => \A e \in Events : w.hs[1] = EventHandle(e) => ~evSig[e]
    BY <1>3, <2>1 DEF Satisfied, Signalled
  <2>4. \A t \in Slots : sched'.st[t] = "WAITING" =>
          \/ /\ sched.st[t] = "WAITING"
             /\ sched'.regs[t] = sched.regs[t] /\ sched'.waitOn[t] = sched.waitOn[t]
          \/ sched'.regs[t].at = w /\ sched'.waitOn[t] = w.hs[1]
    BY <1>1, <1>3, <2>1, <2>2, BlockParks
  <2>5. w.op # "GQCS"
    BY DEF Waits
  <2>6. Parked(sched', evSig, iocp)
    <3> SUFFICES ASSUME NEW t \in Slots, sched'.st[t] = "WAITING"
                 PROVE  /\ sched'.regs[t].at.op \in Waits =>
                             /\ sched'.waitOn[t] = sched'.regs[t].at.hs[1]
                             /\ ~sched'.regs[t].at.all =>
                                  \A e \in Events :
                                    sched'.regs[t].at.hs[1] = EventHandle(e) => ~evSig[e]
                        /\ sched'.regs[t].at.op = "GQCS" =>
                             sched'.waitOn[t] = IocpHandle /\ iocp = 0
      BY DEF Parked
    <3>1. CASE /\ sched.st[t] = "WAITING"
               /\ sched'.regs[t] = sched.regs[t] /\ sched'.waitOn[t] = sched.waitOn[t]
      BY <1>1, <3>1 DEF Parked
    <3>2. CASE sched'.regs[t].at = w /\ sched'.waitOn[t] = w.hs[1]
      BY <2>3, <2>5, <3>2
    <3> QED BY <2>4, <3>1, <3>2
  <2>7. KnownPlaces(sched', evNext)
    BY <1>1, <1>3, <2>1, <2>2, BlockParks
  <2> QED BY <1>3, <2>6, <2>7
<1>4. ASSUME NEW H, Consume(H) PROVE \A e \in Events : evSig'[e] => evSig[e]
  BY <1>4 DEF Consume
<1> QED BY <1>2, <1>3, <1>4 DEF Wait

\* The same for GetQueuedCompletionStatus.
LEMMA PortParks ==
    ASSUME WakeupInv, GetQueuedCompletionStatus
    PROVE  Parked(sched', evSig', iocp') /\ KnownPlaces(sched', evNext')
<1>1. /\ CoreInv /\ TypeOK /\ sched \in Scheduler(Context) /\ evNext \in Nat
      /\ Parked(sched, evSig, iocp) /\ KnownPlaces(sched, evNext)
  BY SyncAssumption DEF WakeupInv, CoreInv, TypeOK
<1>2. PICK w \in Handling("GQCS", [op : {"GQCS"}, hs : {<<IocpHandle>>},
                                   all : {FALSE}, to : Timeouts]) :
        \/ iocp > 0 /\ iocp' = iocp - 1 /\ sched' = Returned(sched)
        \/ sched' = Returned(sched) /\ UNCHANGED iocp
        \/ iocp = 0 /\ Block(w, IocpHandle, "WAITING") /\ UNCHANGED iocp
  BY DEF GetQueuedCompletionStatus
<1>3. w \in Place /\ w.op = "GQCS" /\ sched.cpu.at # Zero
  <2>1. w \in Place /\ sched.cpu.at # Zero
    BY <1>1, FreshTypes, WaitArguments DEF Ops
  <2>2. w.op = "GQCS"
    BY DEF Handling
  <2> QED BY <2>1, <2>2
<1>4. Known(w, evNext)
  <2>1. CASE sched.cpu.at.op = "GQCS"
    BY <1>1, <2>1 DEF Handling, KnownPlaces
  <2>2. CASE sched.cpu.at.op # "GQCS"
    <3>1. w.hs = <<IocpHandle>>
      BY <2>2 DEF Handling
    <3>2. w.hs[1] = IocpHandle
      BY <3>1
    <3> QED BY <1>1, <3>2, FreshKnown DEF Known
  <2> QED BY <2>1, <2>2
<1>5. Running /\ evSig' = evSig /\ evNext' = evNext
  BY DEF GetQueuedCompletionStatus
<1>6. CASE sched' = Returned(sched) /\ (iocp = 0 => iocp' = 0)
  <2>1. StillParked(sched, sched') /\ SamePlaces(sched, sched')
    BY <1>1, <1>6, ReturnedParks
  <2>2. Parked(sched', evSig', iocp')
    BY <1>1, <1>5, <1>6, <2>1, StillParkedKeeps
  <2>3. KnownPlaces(sched', evNext')
    BY <1>1, <1>5, <2>1, SamePlacesKeeps
  <2> QED BY <2>2, <2>3
<1>7. CASE iocp = 0 /\ Block(w, IocpHandle, "WAITING") /\ UNCHANGED iocp
  <2>1. /\ \A t \in Slots : sched'.st[t] = "WAITING" =>
             \/ /\ sched.st[t] = "WAITING"
                /\ sched'.regs[t] = sched.regs[t] /\ sched'.waitOn[t] = sched.waitOn[t]
             \/ sched'.regs[t].at = w /\ sched'.waitOn[t] = IocpHandle
        /\ KnownPlaces(sched', evNext)
    BY <1>1, <1>3, <1>4, <1>5, <1>7, BlockParks, HandleTypes
  <2>2. w.op \notin Waits
    BY <1>3 DEF Waits
  <2>3. Parked(sched', evSig, iocp)
    <3> SUFFICES ASSUME NEW t \in Slots, sched'.st[t] = "WAITING"
                 PROVE  /\ sched'.regs[t].at.op \in Waits =>
                             /\ sched'.waitOn[t] = sched'.regs[t].at.hs[1]
                             /\ ~sched'.regs[t].at.all =>
                                  \A e \in Events :
                                    sched'.regs[t].at.hs[1] = EventHandle(e) => ~evSig[e]
                        /\ sched'.regs[t].at.op = "GQCS" =>
                             sched'.waitOn[t] = IocpHandle /\ iocp = 0
      BY DEF Parked
    <3>1. CASE /\ sched.st[t] = "WAITING"
               /\ sched'.regs[t] = sched.regs[t] /\ sched'.waitOn[t] = sched.waitOn[t]
      BY <1>1, <3>1 DEF Parked
    <3>2. CASE sched'.regs[t].at = w /\ sched'.waitOn[t] = IocpHandle
      BY <1>7, <2>2, <3>2
    <3> QED BY <2>1, <3>1, <3>2
  <2> QED BY <1>5, <1>7, <2>1, <2>3
<1>8. iocp \in Nat
  BY <1>1, SyncAssumption DEF TypeOK
<1> QED BY <1>2, <1>6, <1>7, <1>8

\* A signal wakes every thread that is registered for the handle: those still
\* WAITING wait for something else.
LEMMA SetEventParks ==
    ASSUME WakeupInv, SetEvent
    PROVE  Parked(sched', evSig', iocp') /\ KnownPlaces(sched', evNext')
<1>1. /\ sched \in Scheduler(Context) /\ evNext \in Nat
      /\ Parked(sched, evSig, iocp) /\ KnownPlaces(sched, evNext)
      /\ evSig \in [Events -> BOOLEAN]
  BY SyncAssumption DEF WakeupInv, CoreInv, TypeOK
<1>2. PICK e \in 0 .. evNext - 1 : /\ evSig' = [evSig EXCEPT ![e] = TRUE]
                                   /\ sched' = Returned(Wake(sched, EventHandle(e)))
  BY DEF SetEvent
<1>3. /\ StillParked(sched, sched') /\ SamePlaces(sched, sched')
      /\ \A t \in Slots : sched'.st[t] = "WAITING" => sched.waitOn[t] # EventHandle(e)
  BY <1>1, <1>2, WokenParks
<1>4. iocp' = iocp /\ evNext' = evNext
  BY DEF SetEvent
<1>5. \A f \in Events : evSig'[f] => evSig[f] \/ f = e
  BY <1>1, <1>2
<1>6. Parked(sched', evSig', iocp')
  BY <1>1, <1>3, <1>4, <1>5 DEF Parked, StillParked
<1>7. KnownPlaces(sched', evNext')
  BY <1>1, <1>3, <1>4, SamePlacesKeeps
<1> QED BY <1>6, <1>7

LEMMA PostParks ==
    ASSUME WakeupInv, PostQueuedCompletionStatus
    PROVE  Parked(sched', evSig', iocp') /\ KnownPlaces(sched', evNext')
<1>1. /\ sched \in Scheduler(Context) /\ evNext \in Nat
      /\ Parked(sched, evSig, iocp) /\ KnownPlaces(sched, evNext)
  BY SyncAssumption DEF WakeupInv, CoreInv, TypeOK
<1>2. /\ sched' = Returned(Wake(sched, IocpHandle))
      /\ evSig' = evSig /\ evNext' = evNext
  BY DEF PostQueuedCompletionStatus
<1>3. /\ StillParked(sched, sched') /\ SamePlaces(sched, sched')
      /\ \A t \in Slots : sched'.st[t] = "WAITING" => sched.waitOn[t] # IocpHandle
  BY <1>1, <1>2, WokenParks
<1>4. Parked(sched', evSig', iocp')
  BY <1>1, <1>2, <1>3 DEF Parked, StillParked
<1>5. KnownPlaces(sched', evNext')
  BY <1>1, <1>2, <1>3, SamePlacesKeeps
<1> QED BY <1>4, <1>5

\* An event that is created signalled has no waiter yet.
LEMMA CreateEventParks ==
    ASSUME WakeupInv, CreateEvent
    PROVE  Parked(sched', evSig', iocp') /\ KnownPlaces(sched', evNext')
<1>1. /\ sched \in Scheduler(Context) /\ evNext \in Nat
      /\ Parked(sched, evSig, iocp) /\ KnownPlaces(sched, evNext)
      /\ evSig \in [Events -> BOOLEAN]
  BY SyncAssumption DEF WakeupInv, CoreInv, TypeOK
<1>2. /\ sched' = Returned(sched) /\ iocp' = iocp
      /\ evNext' \in Nat /\ evNext <= evNext'
      /\ \A e \in Events : evSig'[e] => evSig[e] \/ e = evNext
  BY <1>1 DEF CreateEvent
<1>3. StillParked(sched, sched') /\ SamePlaces(sched, sched')
  BY <1>1, <1>2, ReturnedParks
<1>4. KnownPlaces(sched', evNext')
  BY <1>1, <1>2, <1>3, SamePlacesKeeps
<1>5. \A t \in Slots : Known(sched.regs[t].at, evNext)
  BY <1>1 DEF KnownPlaces
<1>6. \A t \in Slots : \A e \in Events : sched.regs[t].at.hs[1] = EventHandle(e) => e # evNext
  BY <1>1, <1>5, SyncAssumption DEF Known, Events
<1>7. Parked(sched', evSig', iocp')
  BY <1>1, <1>2, <1>3, <1>6 DEF Parked, StillParked
<1> QED BY <1>4, <1>7

-----------------------------------------------------------------------------
(* The invariant.                                                          *)

\* A wait in progress names an event that exists, if it names one.
LEMMA WaitKnown ==
    ASSUME TypeOK, KnownPlaces(sched, evNext), NEW op \in Waits, NEW fresh \in SUBSET Place,
           \A p \in fresh : p.op = op /\ p.hs[1] \in KnownHandles,
           NEW w \in Handling(op, fresh)
    PROVE  w \in Place /\ w.op \in Waits /\ sched.cpu.at # Zero /\ Known(w, evNext)
<1>1. w \in Place /\ sched.cpu.at # Zero
  BY WaitArguments DEF Ops, Waits
<1>2. CASE sched.cpu.at.op = op
  BY <1>1, <1>2 DEF Handling, KnownPlaces
<1>3. CASE sched.cpu.at.op # op
  <2>1. w \in fresh
    BY <1>3 DEF Handling
  <2> QED BY <1>1, <2>1, FreshKnown DEF Known
<1> QED BY <1>2, <1>3

LEMMA WakeupNext ==
    WakeupInv /\ [Next]_syncVars => Parked(sched', evSig', iocp') /\ KnownPlaces(sched', evNext')
<1> DEFINE Goal == Parked(sched', evSig', iocp') /\ KnownPlaces(sched', evNext')
<1> SUFFICES ASSUME WakeupInv, [Next]_syncVars PROVE Goal
  OBVIOUS
<1>1. /\ CoreInv /\ TypeOK /\ sched \in Scheduler(Context) /\ evNext \in Nat
      /\ Parked(sched, evSig, iocp) /\ KnownPlaces(sched, evNext)
      /\ evSig \in [Events -> BOOLEAN]
  BY SyncAssumption DEF WakeupInv, CoreInv, TypeOK
<1>2. ASSUME StillParked(sched, sched'), SamePlaces(sched, sched'),
             UNCHANGED <<evNext, iocp>>, \A e \in Events : evSig'[e] => evSig[e]
      PROVE  Goal
  BY <1>1, <1>2, StillParkedKeeps, SamePlacesKeeps
<1>3. Zero # Guest
  BY PlaceTypes
<1>4. CASE CreateEvent \/ SetEvent \/ PostQueuedCompletionStatus \/ GetQueuedCompletionStatus
  BY <1>4, CreateEventParks, SetEventParks, PostParks, PortParks
<1>5. ASSUME ResetEvent PROVE Goal
  <2>1. /\ sched' = Returned(sched) /\ UNCHANGED <<evNext, iocp>>
        /\ \A e \in Events : evSig'[e] => evSig[e]
    BY <1>1, <1>5 DEF ResetEvent
  <2> QED BY <1>1, <1>2, <2>1, ReturnedParks
<1>6. ASSUME NsdShow PROVE Goal
  <2>1. sched' = Returned(sched) /\ UNCHANGED <<evNext, iocp, evSig>>
    BY <1>6 DEF NsdShow
  <2> QED BY <1>1, <1>2, <2>1, ReturnedParks
<1>7. ASSUME NEW call, NEW suspended \in BOOLEAN, Spawn(call, suspended) PROVE Goal
  <2>1. UNCHANGED <<evNext, iocp, evSig>>
    BY <1>7 DEF Spawn
  <2>2. ASSUME NEW i \in Slots,
               sched' = Returned(CreateThread(sched, i, NewContext(i), suspended))
        PROVE  Goal
    BY <1>1, <1>2, <2>1, <2>2, SpawnedParks
  <2>3. CASE sched' = Returned(sched)
    BY <1>1, <1>2, <2>1, <2>3, ReturnedParks
  <2> QED BY <1>7, <2>2, <2>3 DEF Spawn
<1>8. ASSUME ResumeThread PROVE Goal
  <2>1. PICK i \in Slots : sched' = Returned(Resume(sched, i))
    BY <1>8 DEF ResumeThread
  <2>2. UNCHANGED <<evNext, iocp, evSig>>
    BY <1>8 DEF ResumeThread
  <2> QED BY <1>1, <1>2, <2>1, <2>2, ResumedParks
<1>9. ASSUME WaitForSingleObject PROVE Goal
  <2> DEFINE fresh == [op : {"WaitSingle"}, hs : {<<h>> : h \in KnownHandles},
                       all : {FALSE}, to : Timeouts]
  <2>1. PICK w \in Handling("WaitSingle", fresh) : Wait(w)
    BY <1>9 DEF WaitForSingleObject
  <2>2. \A p \in fresh : p.op = "WaitSingle" /\ p.hs[1] \in KnownHandles
    OBVIOUS
  <2>3. fresh \in SUBSET Place
    BY <1>1, FreshTypes
  <2> HIDE DEF fresh
  <2>4. w \in Place /\ w.op \in Waits /\ sched.cpu.at # Zero /\ Known(w, evNext)
    BY <1>1, <2>1, <2>2, <2>3, WaitKnown DEF Waits
  <2>5. Running /\ UNCHANGED <<evNext, iocp>>
    BY <1>9 DEF WaitForSingleObject
  <2> QED BY <2>1, <2>4, <2>5, WaitParks
<1>10. ASSUME WaitForMultipleObjects PROVE Goal
  <2> DEFINE pairs == {p \in KnownHandles \X KnownHandles : p[1] # p[2]}
             fresh == [op : {"WaitMultiple"}, hs : pairs, all : BOOLEAN, to : Timeouts]
  <2>1. PICK w \in Handling("WaitMultiple", fresh) : Wait(w)
    BY <1>10 DEF WaitForMultipleObjects
  <2>2. \A p \in fresh : p.op = "WaitMultiple" /\ p.hs[1] \in KnownHandles
    OBVIOUS
  <2>3. fresh \in SUBSET Place
    BY <1>1, FreshTypes
  <2> HIDE DEF fresh
  <2>4. w \in Place /\ w.op \in Waits /\ sched.cpu.at # Zero /\ Known(w, evNext)
    BY <1>1, <2>1, <2>2, <2>3, WaitKnown DEF Waits
  <2>5. Running /\ UNCHANGED <<evNext, iocp>>
    BY <1>10 DEF WaitForMultipleObjects
  <2> QED BY <2>1, <2>4, <2>5, WaitParks
<1>11. ASSUME Sleep \/ GetMessage PROVE Goal
  <2>1. /\ sched' = Yield(Returned(sched), "READY")
        /\ sched.cpu.at # Zero /\ Running /\ UNCHANGED <<evNext, iocp, evSig>>
    BY <1>3, <1>11 DEF Sleep, GetMessage, Calling
  <2>2. sched.cur # NoThread
    BY <1>1, <2>1 DEF CoreInv, CurrentRuns
  <2> QED BY <1>1, <1>2, <2>1, <2>2, YieldedParks
<1>12. ASSUME ExitThreadCall PROVE Goal
  <2> DEFINE gone == ExitThread(sched)
  <2>1. sched.cur # NoThread /\ UNCHANGED <<evNext, iocp, evSig>>
    BY <1>1, <1>3, <1>12 DEF ExitThreadCall, Calling, CoreInv, CurrentRuns
  <2>2. gone \in Scheduler(Context) /\ StillParked(sched, gone) /\ SamePlaces(sched, gone)
    BY <1>1, <2>1, ExitThreadFields, EndedParks
  <2>3. sched' = IF gone.cur = NoThread THEN GoTo(gone, Zero) ELSE gone
    BY <1>12 DEF ExitThreadCall
  <2> HIDE DEF gone
  <2>4. StillParked(gone, GoTo(gone, Zero)) /\ SamePlaces(gone, GoTo(gone, Zero))
    BY <2>2, GoToParks
  <2>5. StillParked(sched, GoTo(gone, Zero)) /\ SamePlaces(sched, GoTo(gone, Zero))
    BY <2>2, <2>4, ParksTwice
  <2> QED BY <1>2, <2>1, <2>2, <2>3, <2>5
<1>13. ASSUME ThreadReturns \/ ExitProcess PROVE Goal
  <2>1. sched' = GoTo(sched, Zero) /\ UNCHANGED <<evNext, iocp, evSig>>
    BY <1>13 DEF ThreadReturns, ExitProcess
  <2> QED BY <1>1, <1>2, <2>1, GoToParks
<1>14. ASSUME TickThreadEnded PROVE Goal
  <2>1. /\ sched.cur # NoThread
        /\ sched' = SwitchNext(Wake(ExitThread(sched), ThreadHandle(sched.cur)))
        /\ UNCHANGED <<evNext, iocp, evSig>>
    BY <1>14 DEF TickThreadEnded
  <2> QED BY <1>1, <1>2, <2>1, EndedParks
<1>15. ASSUME TickPaused PROVE Goal
  <2>1. sched.cur \in Slots /\ sched.cpu.at = Guest
    BY <1>1, <1>15 DEF TickPaused, CoreInv, IdleAtGuest, Scheduler
  <2>2. /\ sched' = SwitchNext(SaveCurrent(sched, "WAITING"))
        /\ UNCHANGED <<evNext, iocp, evSig>>
    BY <1>15 DEF TickPaused
  <2> QED BY <1>1, <2>1, <2>2, PausedParks, SamePlacesKeeps
<1>16. CASE TickProgramEnded \/ TickCrash \/ EngineRun \/ NextTap
  BY <1>1, <1>16 DEF TickProgramEnded, TickCrash, EngineRun, NextTap
<1>17. CASE UNCHANGED syncVars
  BY <1>1, <1>17 DEF syncVars
<1> QED
  BY <1>4, <1>5, <1>6, <1>7, <1>8, <1>9, <1>10, <1>11, <1>12, <1>13, <1>14, <1>15,
     <1>16, <1>17
  DEF Next, Tick, YieldingCall, SpawnReady, SpawnSuspended

LEMMA WakeupInit == Init => WakeupInv
<1> SUFFICES ASSUME Init PROVE WakeupInv
  OBVIOUS
<1>1. CoreInv
  BY CoreInit
<1>2. /\ \A t \in Slots : sched.st[t] # "WAITING"
      /\ sched.cpu.at = Guest /\ \A t \in Slots : sched.regs[t].at = Guest
      /\ evNext = 0
  BY DEF Init, NewContext
<1>3. Parked(sched, evSig, iocp)
  BY <1>2 DEF Parked
<1>4. KnownPlaces(sched, evNext)
  BY <1>2, PlainPlaces DEF KnownPlaces
<1> QED BY <1>1, <1>3, <1>4 DEF WakeupInv

LEMMA WakeupStep == WakeupInv /\ [Next]_syncVars => WakeupInv'
BY CoreNext, WakeupNext DEF WakeupInv, Parked, KnownPlaces, Known

\* No wake-up is lost: whatever the threads do, none of them is blocked on an
\* event that is signalled, or on the completion port while a completion is there.
THEOREM NoWakeupLost == Spec => []NoLostWakeup
<1>1. WakeupInv => NoLostWakeup
  BY DEF WakeupInv, Parked, NoLostWakeup, Waits
<1> QED BY <1>1, WakeupInit, WakeupStep, PTL DEF Spec
-----------------------------------------------------------------------------
(* Joins.  A thread that joins another is registered for its handle, and    *)
(* the tick wakes that handle when the other one ends by returning.         *)

\* WaitForSingleObject never asks for all of its one handle.
Single(p) == p.op = "WaitSingle" => ~p.all

Singles(s) == Single(s.cpu.at) /\ \A t \in Slots : Single(s.regs[t].at)

\* Every thread that waits in x did so in s, for the same call, or does not join,
\* or has just found that what it waits for is not signalled in s.
JoinsTested(s, x) ==
    \A t \in Slots : x.st[t] = "WAITING" =>
        \/ s.st[t] = "WAITING" /\ x.regs[t] = s.regs[t]
        \/ x.regs[t].at.op = "WaitSingle" =>
             \A u \in Slots : s.st[u] = "EXITED" => x.regs[t].at.hs[1] # ThreadHandle(u)

JoinInv == WakeupInv /\ Singles(sched) /\ NoLostJoin

LEMMA ParkedJoins ==
    ASSUME NEW s, NEW x, Singles(s), StillParked(s, x), SamePlaces(s, x)
    PROVE  JoinsTested(s, x) /\ Singles(x)
<1>1. JoinsTested(s, x)
  BY DEF StillParked, JoinsTested
<1>2. Single(Guest) /\ Single(Zero)
  BY DEF Single, Guest, Zero
<1>3. Singles(x)
  BY <1>2 DEF SamePlaces, Singles
<1> QED BY <1>1, <1>3

\* A wait that blocks tests its handle first.
LEMMA BlockJoins ==
    ASSUME CoreInv, Singles(sched), Running, sched.cpu.at # Zero, NEW w \in Place,
           NEW h \in Nat, NEW reason \in {"READY", "WAITING"}, Block(w, h, reason),
           Single(w), w.op = "WaitSingle" => ~Satisfied(w)
    PROVE  JoinsTested(sched, sched') /\ Singles(sched')
<1>1. TypeOK /\ sched.cur # NoThread /\ sched.cur \in Slots
  BY CallerExists DEF CoreInv, CurrentRuns
<1>2. /\ sched'.cur \in Slots
      /\ sched'.waitOn = [sched.waitOn EXCEPT ![sched.cur] = h]
      /\ \A i \in Slots :
           /\ sched'.st[i] = IF i = sched'.cur THEN "RUNNING"
                             ELSE IF i = sched.cur THEN reason ELSE sched.st[i]
           /\ sched'.regs[i] = IF i # sched.cur THEN sched.regs[i]
                               ELSE [own |-> sched.cpu.own, n |-> sched.cpu.n, at |-> w]
      /\ \/ sched'.cpu = sched'.regs[sched'.cur]
         \/ sched'.cpu = [own |-> sched.cpu.own, n |-> Bump(sched.cpu.n), at |-> Guest]
  BY <1>1, BlockFields
<1>3. sched'.regs[sched.cur].at = w
  BY <1>1, <1>2
<1>4. w.op = "WaitSingle" =>
        \A u \in Slots : sched.st[u] = "EXITED" => w.hs[1] # ThreadHandle(u)
  <2> SUFFICES ASSUME w.op = "WaitSingle", NEW u \in Slots, sched.st[u] = "EXITED",
                      w.hs[1] = ThreadHandle(u)
               PROVE  FALSE
    OBVIOUS
  <2>1. ~w.all /\ 1 \in DOMAIN w.hs
    BY DEF Single, Place
  <2>2. Signalled(w.hs[1])
    BY DEF Signalled
  <2> QED BY <2>1, <2>2 DEF Satisfied
<1>5. JoinsTested(sched, sched')
  <2> SUFFICES ASSUME NEW t \in Slots, sched'.st[t] = "WAITING"
               PROVE  \/ sched.st[t] = "WAITING" /\ sched'.regs[t] = sched.regs[t]
                      \/ sched'.regs[t].at = w
    BY <1>4 DEF JoinsTested
  <2>1. CASE t = sched.cur
    BY <1>3, <2>1
  <2>2. CASE t # sched.cur
    BY <1>2, <2>2
  <2> QED BY <2>1, <2>2
<1>6. Single(Guest)
  BY DEF Single, Guest
<1>7. \A t \in Slots : Single(sched'.regs[t].at)
  BY <1>2, <1>3 DEF Singles
<1>8. Single(sched'.cpu.at)
  <2>1. CASE sched'.cpu = sched'.regs[sched'.cur]
    BY <1>2, <1>7, <2>1
  <2>2. CASE sched'.cpu = [own |-> sched.cpu.own, n |-> Bump(sched.cpu.n), at |-> Guest]
    BY <1>6, <2>2
  <2> QED BY <1>2, <2>1, <2>2
<1> QED BY <1>5, <1>7, <1>8 DEF Singles

LEMMA WaitJoins ==
    ASSUME CoreInv, Singles(sched), Running, sched.cpu.at # Zero, NEW w \in Place,
           Single(w), Wait(w)
    PROVE  JoinsTested(sched, sched') /\ Singles(sched')
<1>1. CASE sched' = Returned(sched)
  BY <1>1, ReturnedParks, ParkedJoins DEF CoreInv, TypeOK
<1>2. CASE ~Satisfied(w) /\ Block(w, w.hs[1], WaitReason(w))
  <2>1. w.hs[1] \in Nat
    BY DEF Place
  <2>2. WaitReason(w) \in {"READY", "WAITING"}
    BY DEF WaitReason
  <2> QED BY <1>2, <2>1, <2>2, BlockJoins
<1> QED BY <1>1, <1>2 DEF Wait

\* The caller's own wait is single if it comes from WaitForSingleObject.
LEMMA HandledSingle ==
    ASSUME TypeOK, Singles(sched), NEW op \in {"WaitSingle", "WaitMultiple", "GQCS"},
           NEW fresh \in SUBSET Place, \A p \in fresh : Single(p),
           NEW w \in Handling(op, fresh)
    PROVE  w \in Place /\ Single(w) /\ sched.cpu.at # Zero
<1>1. w \in Place /\ sched.cpu.at # Zero
  BY WaitArguments DEF Ops
<1>2. Single(w)
  BY DEF Handling, Singles
<1> QED BY <1>1, <1>2

\* A paused engine parks its current thread in guest code: it joins nobody.
LEMMA PausedJoins ==
    ASSUME NEW s \in Scheduler(Context), s.cur \in Slots, s.cpu.at = Guest, Singles(s)
    PROVE  LET x == SwitchNext(SaveCurrent(s, "WAITING"))
           IN  JoinsTested(s, x) /\ Singles(x)
<1> DEFINE v == SaveCurrent(s, "WAITING")
<1>1. NoThread \notin Slots
  BY MaxThreadsAssumption DEF NoThread, Slots
<1>2. /\ v \in Scheduler(Context) /\ v.cpu = s.cpu
      /\ v.st = [s.st EXCEPT ![s.cur] = "WAITING"]
      /\ v.regs = [s.regs EXCEPT ![s.cur] = s.cpu]
  BY <1>1, SaveCurrentFields DEF ThreadState
<1>3. s.st \in [Slots -> ThreadState] /\ s.regs \in [Slots -> Context]
  BY DEF Scheduler
<1> HIDE DEF v
<1>4. \A t \in Slots : /\ v.regs[t] = IF t = s.cur THEN s.cpu ELSE s.regs[t]
                       /\ v.st[t] = IF t = s.cur THEN "WAITING" ELSE s.st[t]
  BY <1>2, <1>3
<1>5. Guest.op # "WaitSingle"
  BY DEF Guest
<1> DEFINE x == SwitchNext(v)
<1>6. StillParked(v, x) /\ SamePlaces(v, x)
  BY <1>2, SwitchNextParks
<1> HIDE DEF x
<1>7. JoinsTested(s, x)
  <2> SUFFICES ASSUME NEW t \in Slots, x.st[t] = "WAITING"
               PROVE  \/ s.st[t] = "WAITING" /\ x.regs[t] = s.regs[t]
                      \/ x.regs[t].at.op # "WaitSingle"
    BY DEF JoinsTested
  <2>1. v.st[t] = "WAITING" /\ x.regs[t] = v.regs[t]
    BY <1>6 DEF StillParked
  <2> QED BY <1>4, <1>5, <2>1
<1>8. Singles(v)
  BY <1>2, <1>4 DEF Singles
<1>9. Singles(x)
  BY <1>6, <1>8, ParkedJoins
<1> QED BY <1>7, <1>9 DEF x, v

LEMMA JoinNext ==
    ASSUME JoinInv, [Next]_syncVars
    PROVE  JoinsTested(sched, sched') /\ Singles(sched')
<1> DEFINE Goal == JoinsTested(sched, sched') /\ Singles(sched')
<1>1. /\ CoreInv /\ TypeOK /\ sched \in Scheduler(Context) /\ Singles(sched)
  BY DEF JoinInv, WakeupInv, CoreInv, TypeOK
<1>2. ASSUME StillParked(sched, sched'), SamePlaces(sched, sched') PROVE Goal
  BY <1>1, <1>2, ParkedJoins
<1>3. Zero # Guest
  BY PlaceTypes
<1>4. ASSUME CreateEvent \/ ResetEvent \/ NsdShow PROVE Goal
  <2>1. sched' = Returned(sched)
    BY <1>4 DEF CreateEvent, ResetEvent, NsdShow
  <2> QED BY <1>1, <1>2, <2>1, ReturnedParks
<1>5. ASSUME SetEvent PROVE Goal
  <2>1. PICK e \in 0 .. evNext - 1 : sched' = Returned(Wake(sched, EventHandle(e)))
    BY <1>5 DEF SetEvent
  <2> QED BY <1>1, <1>2, <2>1, WokenParks
<1>6. ASSUME PostQueuedCompletionStatus PROVE Goal
  <2>1. sched' = Returned(Wake(sched, IocpHandle))
    BY <1>6 DEF PostQueuedCompletionStatus
  <2> QED BY <1>1, <1>2, <2>1, WokenParks
<1>7. ASSUME NEW call, NEW suspended \in BOOLEAN, Spawn(call, suspended) PROVE Goal
  <2>1. ASSUME NEW i \in Slots,
               sched' = Returned(CreateThread(sched, i, NewContext(i), suspended))
        PROVE  Goal
    BY <1>1, <1>2, <2>1, SpawnedParks
  <2>2. CASE sched' = Returned(sched)
    BY <1>1, <1>2, <2>2, ReturnedParks
  <2> QED BY <1>7, <2>1, <2>2 DEF Spawn
<1>8. ASSUME ResumeThread PROVE Goal
  <2>1. PICK i \in Slots : sched' = Returned(Resume(sched, i))
    BY <1>8 DEF ResumeThread
  <2> QED BY <1>1, <1>2, <2>1, ResumedParks
<1>9. ASSUME WaitForSingleObject PROVE Goal
  <2> DEFINE fresh == [op : {"WaitSingle"}, hs : {<<h>> : h \in KnownHandles},
                       all : {FALSE}, to : Timeouts]
  <2>1. PICK w \in Handling("WaitSingle", fresh) : Wait(w)
    BY <1>9 DEF WaitForSingleObject
  <2>2. \A p \in fresh : Single(p)
    BY DEF Single
  <2>3. fresh \in SUBSET Place
    BY <1>1, FreshTypes
  <2> HIDE DEF fresh
  <2>4. w \in Place /\ Single(w) /\ sched.cpu.at # Zero
    BY <1>1, <2>1, <2>2, <2>3, HandledSingle
  <2>5. Running
    BY <1>9 DEF WaitForSingleObject
  <2> QED BY <1>1, <2>1, <2>4, <2>5, WaitJoins
<1>10. ASSUME WaitForMultipleObjects PROVE Goal
  <2> DEFINE pairs == {p \in KnownHandles \X KnownHandles : p[1] # p[2]}
             fresh == [op : {"WaitMultiple"}, hs : pairs, all : BOOLEAN, to : Timeouts]
  <2>1. PICK w \in Handling("WaitMultiple", fresh) : Wait(w)
    BY <1>10 DEF WaitForMultipleObjects
  <2>2. \A p \in fresh : Single(p)
    BY DEF Single
  <2>3. fresh \in SUBSET Place
    BY <1>1, FreshTypes
  <2> HIDE DEF fresh
  <2>4. w \in Place /\ Single(w) /\ sched.cpu.at # Zero
    BY <1>1, <2>1, <2>2, <2>3, HandledSingle
  <2>5. Running
    BY <1>10 DEF WaitForMultipleObjects
  <2> QED BY <1>1, <2>1, <2>4, <2>5, WaitJoins
<1>11. ASSUME GetQueuedCompletionStatus PROVE Goal
  <2> DEFINE fresh == [op : {"GQCS"}, hs : {<<IocpHandle>>}, all : {FALSE}, to : Timeouts]
  <2>1. PICK w \in Handling("GQCS", fresh) :
          sched' = Returned(sched) \/ Block(w, IocpHandle, "WAITING")
    BY <1>11 DEF GetQueuedCompletionStatus
  <2>2. \A p \in fresh : Single(p)
    BY DEF Single
  <2>3. fresh \in SUBSET Place
    BY <1>1, FreshTypes
  <2>4. w.op = "GQCS"
    BY <2>1 DEF Handling
  <2> HIDE DEF fresh
  <2>5. w \in Place /\ Single(w) /\ sched.cpu.at # Zero
    BY <1>1, <2>1, <2>2, <2>3, HandledSingle
  <2>6. Running
    BY <1>11 DEF GetQueuedCompletionStatus
  <2>7. CASE sched' = Returned(sched)
    BY <1>1, <1>2, <2>7, ReturnedParks
  <2>8. CASE Block(w, IocpHandle, "WAITING")
    BY <1>1, <2>4, <2>5, <2>6, <2>8, BlockJoins, HandleTypes
  <2> QED BY <2>1, <2>7, <2>8
<1>12. ASSUME Sleep \/ GetMessage PROVE Goal
  <2>1. sched' = Yield(Returned(sched), "READY") /\ sched.cpu.at # Zero /\ Running
    BY <1>3, <1>12 DEF Sleep, GetMessage, Calling
  <2>2. sched.cur # NoThread
    BY <1>1, <2>1 DEF CoreInv, CurrentRuns
  <2> QED BY <1>1, <1>2, <2>1, <2>2, YieldedParks
<1>13. ASSUME ExitThreadCall PROVE Goal
  <2> DEFINE gone == ExitThread(sched)
  <2>1. sched.cur # NoThread
    BY <1>1, <1>3, <1>13 DEF ExitThreadCall, Calling, CoreInv, CurrentRuns
  <2>2. gone \in Scheduler(Context) /\ StillParked(sched, gone) /\ SamePlaces(sched, gone)
    BY <1>1, <2>1, ExitThreadFields, EndedParks
  <2>3. sched' = IF gone.cur = NoThread THEN GoTo(gone, Zero) ELSE gone
    BY <1>13 DEF ExitThreadCall
  <2> HIDE DEF gone
  <2>4. StillParked(sched, GoTo(gone, Zero)) /\ SamePlaces(sched, GoTo(gone, Zero))
    BY <2>2, GoToParks, ParksTwice
  <2> QED BY <1>2, <2>2, <2>3, <2>4
<1>14. ASSUME ThreadReturns \/ ExitProcess PROVE Goal
  <2>1. sched' = GoTo(sched, Zero)
    BY <1>14 DEF ThreadReturns, ExitProcess
  <2> QED BY <1>1, <1>2, <2>1, GoToParks
<1>15. ASSUME TickThreadEnded PROVE Goal
  <2>1. /\ sched.cur # NoThread
        /\ sched' = SwitchNext(Wake(ExitThread(sched), ThreadHandle(sched.cur)))
    BY <1>15 DEF TickThreadEnded
  <2> QED BY <1>1, <1>2, <2>1, EndedParks
<1>16. ASSUME TickPaused PROVE Goal
  <2>1. sched.cur \in Slots /\ sched.cpu.at = Guest
    BY <1>1, <1>16 DEF TickPaused, CoreInv, IdleAtGuest, Scheduler
  <2>2. sched' = SwitchNext(SaveCurrent(sched, "WAITING"))
    BY <1>16 DEF TickPaused
  <2> QED BY <1>1, <2>1, <2>2, PausedJoins
<1>17. ASSUME sched' = sched PROVE Goal
  BY <1>1, <1>17 DEF JoinsTested
<1>18. CASE TickProgramEnded \/ TickCrash \/ EngineRun \/ NextTap \/ UNCHANGED syncVars
  BY <1>17, <1>18 DEF TickProgramEnded, TickCrash, EngineRun, NextTap, syncVars
<1> QED
  BY <1>4, <1>5, <1>6, <1>7, <1>8, <1>9, <1>10, <1>11, <1>12, <1>13, <1>14, <1>15,
     <1>16, <1>18
  DEF Next, Tick, YieldingCall, SpawnReady, SpawnSuspended

\* The thread-return path leaves nobody registered for the thread that ended.
LEMMA EndedJoins ==
    ASSUME NEW s \in Scheduler(Context), s.cur # NoThread, NEW h
    PROVE  LET x == SwitchNext(Wake(ExitThread(s), h))
           IN  \A t \in Slots : x.st[t] = "WAITING" => s.waitOn[t] # h
<1> DEFINE gone == ExitThread(s)
<1>1. gone \in Scheduler(Context) /\ gone.waitOn = s.waitOn
  BY ExitThreadFields
<1> HIDE DEF gone
<1> DEFINE woken == Wake(gone, h)
<1>2. /\ woken \in Scheduler(Context)
      /\ \A i \in Slots : woken.st[i] = "WAITING" => gone.waitOn[i] # h
  BY <1>1, WakeFields
<1> HIDE DEF woken
<1>3. StillParked(woken, SwitchNext(woken))
  BY <1>2, SwitchNextParks
<1>4. \A t \in Slots : SwitchNext(woken).st[t] = "WAITING" => s.waitOn[t] # h
  BY <1>1, <1>2, <1>3 DEF StillParked
<1> QED BY <1>4 DEF woken, gone

LEMMA HandleInjective ==
    \A t, u \in Slots : ThreadHandle(t) = ThreadHandle(u) => t = u
BY MaxThreadsAssumption DEF Slots, ThreadHandle, Main

\* No join is lost in a program whose threads end by returning: whoever blocked on
\* the handle of a thread is woken when the tick sees that thread return.  (Those
\* that end by ExitThread are not seen by the tick, and nobody is woken.)
THEOREM NoJoinLost ==
    ASSUME "ExitThread" \notin Calls
    PROVE  Spec => []NoLostJoin
<1>1. Init => JoinInv
  <2> SUFFICES ASSUME Init PROVE JoinInv
    OBVIOUS
  <2>1. /\ \A t \in Slots : sched.st[t] # "WAITING"
        /\ sched.cpu.at = Guest /\ \A t \in Slots : sched.regs[t].at = Guest
    BY DEF Init, NewContext
  <2>2. Singles(sched)
    BY <2>1 DEF Singles, Single, Guest
  <2>3. NoLostJoin
    BY <2>1 DEF NoLostJoin
  <2> QED BY <2>2, <2>3, WakeupInit DEF JoinInv
<1>2. JoinInv /\ [Next]_syncVars => JoinInv'
  <2> SUFFICES ASSUME JoinInv, [Next]_syncVars PROVE JoinInv'
    OBVIOUS
  <2>1. JoinsTested(sched, sched') /\ Singles(sched')
    BY JoinNext
  <2>2. WakeupInv'
    BY WakeupStep DEF JoinInv
  <2>3. CoreInv /\ sched \in Scheduler(Context) /\ Parked(sched, evSig, iocp)
    BY DEF JoinInv, WakeupInv, CoreInv, TypeOK
  <2>4. ~ExitThreadCall
    BY DEF ExitThreadCall, Calling
  <2>5. ASSUME NEW t \in Slots, NEW u \in Slots,
               sched'.st[t] = "WAITING", sched'.st[u] = "EXITED",
               sched'.regs[t].at.op = "WaitSingle"
        PROVE  sched'.regs[t].at.hs[1] # ThreadHandle(u)
    <3>1. CASE sched.st[u] = "EXITED"
      <4>1. CASE sched.st[t] = "WAITING" /\ sched'.regs[t] = sched.regs[t]
        BY <2>5, <3>1, <4>1 DEF JoinInv, NoLostJoin
      <4> QED BY <2>1, <2>5, <3>1, <4>1 DEF JoinsTested
    <3>2. CASE sched.st[u] # "EXITED"
      <4>1. ~Keeps(sched, sched') /\ ~HandsOver(sched, sched')
        BY <2>5, <3>2 DEF Keeps, HandsOver
      <4>2. Leaves(sched, sched') /\ TickThreadEnded
        BY <2>3, <2>4, <4>1, TurnCases
      <4>3. u = sched.cur
        BY <2>5, <3>2, <4>2 DEF Leaves
      <4>4. /\ sched.cur # NoThread
            /\ sched' = SwitchNext(Wake(ExitThread(sched), ThreadHandle(u)))
        BY <4>2, <4>3 DEF TickThreadEnded
      <4>5. sched.waitOn[t] # ThreadHandle(u)
        BY <2>3, <2>5, <4>4, EndedJoins
      <4>6. StillParked(sched, sched')
        BY <2>3, <4>4, EndedParks
      <4>7. sched.st[t] = "WAITING" /\ sched'.regs[t] = sched.regs[t]
        BY <2>5, <4>6 DEF StillParked
      <4> QED BY <2>3, <2>5, <4>5, <4>7 DEF Parked, Waits
    <3> QED BY <3>1, <3>2
  <2>6. NoLostJoin'
    BY <2>5 DEF NoLostJoin
  <2> QED BY <2>1, <2>2, <2>6 DEF JoinInv, Singles, Single
<1>3. JoinInv => NoLostJoin
  BY DEF JoinInv
<1> QED BY <1>1, <1>2, <1>3, PTL DEF Spec

=============================================================================
