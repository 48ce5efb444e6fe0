# Specifications of WineGlass

WineGlass runs Win32 programs on iOS: an emulator (blink) executes the guest's
x86 code, and `Sources/Core/wg_engine.c` implements the Win32 API behind a table
of thunks.  These specifications are about three things.  A multi-threaded Windows
program is run by one host thread, and blocking calls are emulated by re-executing
them (`WGSync`, `WGModal`, `WGQueues`).  The user interface drives the same engine
from other host threads (`WGApp`).  And a couple of dozen services keep tables,
buffers and conversions of their own between the guest and the host (`MCServices`
and the modules it composes).

Paths below are relative to the repository; line numbers are those of the commit
in the working tree.

## 1. Inventory

| Component | State | Operations | Talks to |
|---|---|---|---|
| Scheduler `Win32/wg_threading.c` | table of 32 threads (state, saved registers, wait handle), current index | create, save, switch, yield, wake, exit, find | blink's registers, the thunks |
| Engine tick `wg_engine.c:5546-5836` | `engine->state`, current instruction pointer | run, tick, run_sync, resume | scheduler, thunks, app |
| Thread and wait thunks `:3248-3644, 4139-4160` | event table, completion ring, wait handles | CreateThread ..., events, waits, Sleep, ExitThread | scheduler |
| Queues `:322-414` | completion ring, thread-message ring, socket bindings | post, get, push, pop | GetMessage, PeekMessage, GQCS, winsock |
| Guest callbacks `:857-902, 1395-1428` | `s_callstack`, two sentinels | call a window procedure, return from it | SendMessage, dialogs, CreateThread fallback |
| Dialogs and nsDialogs `:1030-1130, 2587-2850, 5842-5911` | current dialog, its controls, pause flags | DialogBoxParam, EndDialog, Show, taps | app, callbacks |
| Lifecycle `:5232-5544, 5913-5932` | PE image, module table, statics | create, load, chain load, stop, destroy | app, PE loader |
| Control table `:585-840, 2587-2850` | one table of controls for all windows, the inner page | parse a template, retire a page, find by id, forget | dialogs, app |
| Other thunks | heap, TLS, registry, resources, COM, DLL table, timers | several hundred Win32 calls | guest memory |
| App `Sources/App` | engine thread, its flag, loads in flight, frames | pick, tap, load, start, loop, chain load, disconnect | engine, window table |
| Guest memory, PE loader | regions, parsed image, module table | map, find, write; sections, imports, relocations; LoadLibrary | blink, DLL mapper |
| DLL mapper | table of stubs: DLL, function, argument count | defaults, register, resolve, find anywhere, COM objects | loader, GetProcAddress |
| CPU `Sources/CPU` | x86 registers, flags | decode one instruction, execute it | guest memory |
| Winsock | 128 descriptors, port bindings, reports, a scratch page | socket calls, overlapped calls, event select, name lookups | host sockets, completion ring |
| WinHTTP | 16 handles, a body buffer per request | open, connect, send, receive with redirects, read, query, crack | Winsock's host |
| Schannel | 16 TLS contexts with bytes not yet taken | handshake, encrypt, decrypt, delete | the host's SSL |
| OpenSSL shim | 16 objects with two buffers each | feed, drain, handshake, read, write | the host's SSL; nobody calls it yet |
| Files | table of open files, current directory | open, read, write, seek, size, delete, temporary names | host's stdio |
| Windows, GDI, bitmaps | windows with client buffers, DCs, bitmaps | create, destroy, paint, get and release a DC, select, blit | compositor |
| Compositor | textures, what is dirty | copy windows, lay them out | main thread, taps |
| NSIS, LZMA, logging, self test | - | data transformation, diagnostics | - |

Hard behaviours, and where they are:

* **Cooperative scheduling.**  Guest threads change only inside handlers.  A
  handler that yields must not touch the registers afterwards unless the yield
  failed, and a blocked call is handled again from the start.  Correctness is
  that registers stay with their thread, no wake-up is lost, turns go round.
* **Exits.**  A thread can end by returning, by ExitThread, by ExitProcess, by a
  fault; each takes another path through the scheduler.
* **Pauses.**  A modal page pauses the engine; a PAUSED tick may still run
  workers, and a tap resumes it.
* **Bounded tables.**  Rings, slots and handle tables drop or refuse silently
  when full, and some are never recycled.
* **Callbacks.**  One stack of callback frames is shared by all guest threads.
* **Host threads.**  UI thread, loader and engine loop share the engine without a
  lock.
* **Reused and shifted handles.**  A slot is given to the next owner, an index stands
  for a control: what was kept for the last owner must not reach the next one.
* **Buffers with positions.**  TLS, HTTP and the shim take from, compact and refill
  buffers across calls that may each do part of the work.
* **Two layouts of one thing.**  Addresses, paths, URLs, templates, images and
  argument counts are converted; guest and host must mean the same by them.

What makes each component correct is stated as properties in its module; the
list of hazards, each at its line and with the properties that guard it, is in
`PROJECT.json`.

## 2. Plan

1. `WGThreading` - the scheduler's functions as operators. *Done.*
2. `WGSync` - tick, threads, waits, exits, pauses over it; `MCSync` and its runs.
   *Done.*
3. `WGThreadingProofs`, `WGSyncProofs` - types, the current thread, registers, turns,
   exits, wake-ups and joins for every instance.  *Done.*
4. `WGMailbox` (abstract), `WGQueues`, `WGQueuesProofs` - both rings shown to be
   bounded mailboxes, by TLC and by proof. *Done.*
5. `WGCalls` (abstract), `WGModal`, `WGModalProofs` - callback frames and dialogs
   over the scheduler: a return goes to the caller on the same thread, EndDialog to
   the DialogBoxParam it ends. *Done.*
6. `WGApp`, `WGAppProofs` - UI, loader and engine threads around one engine: one
   loop at a time, no drawing into windows that a load has freed, a running engine
   is ticked.  *Done.*
7. Tables and buffers: `WGSockets`, `WGHttp`, `WGSchannel`, `WGOpenSSL`, `WGFiles`,
   `WGDesktop`, `WGDialogs`; `WGNetworkProofs` for those of the network, `WGAppProofs`
   for the desktop, the dialogs and the files.  *Done.*
8. Conversions and algorithms: `WGLoader`, `WGMapper`, `WGDecode`, `WGInterp`,
   `WGHttpText`, `WGAddresses`, `WGRaster`, each against a reference definition;
   `WGProgramProofs` for the loader, the mapper, the decoder and the interpreter,
   `WGNetworkProofs` for texts and addresses, `WGAppProofs` for the raster.  *Done.*
9. `MCServices`, `WGServicesProofs` - the services side by side.  *Done.*

Abstract specifications: the bounded mailbox (4) and a stack of calls per thread (5)
are modules of their own.  For 6 to 8 what is promised is short enough to be an
invariant over the state and a history.

## 3. Modules

### WGThreading

A scheduler value is a record: `st` (state of each slot), `cur`, `waitOn`, `regs`
(registers saved in the table) and `cpu` (registers in blink).  Each C function
is an operator from scheduler values to scheduler values, so a handler that calls
several is a composition of operators and stays one step.

| Operator | C function |
|---|---|
| `SaveCurrent` | `wg_sched_save_current` |
| `CanSwitch`, `NextSlot`, `SwitchNext` | `wg_sched_switch_next` (its result, the slot it picks, its effect) |
| `Switched`, `Yield` | `wg_sched_yield` (its result, its effect) |
| `Wake`, `ExitThread` | `wg_sched_wake`, `wg_sched_exit_thread` |
| `FirstFree`, `CreateThread` | `wg_sched_create_thread` (the search, the initialisation) |

`Dist(cur, i)` is the position of slot `i` in the cyclic scan that starts after
`cur`; `NextSlot` is the READY slot of least distance, which is what the loop
finds.  A module that uses the scheduler chooses what a register file is.

### WGSync

A step is one handler together with the guest code that led to it, one branch of
`wg_engine_tick`, or one call of the user interface: nothing interleaves inside
these because one host thread ticks.  A register file is `[own, n, at]`: the
thread it belongs to, the number of calls that thread has completed (a history
modulo `CallModulus`), and the instruction pointer (`Guest`, `Zero`, or the
pending call with its arguments).  The variable `done` counts completed calls
per thread independently of the registers, so that `ContextsFaithful` can compare
the two.

`Block` is the idiom of every blocking thunk: register the handle, yield, return
with the instruction pointer still at the thunk if that switched, otherwise go
on to the epilogue.  A finite timeout yields as READY (a poll), an infinite one
as WAITING.  `Wait` is the common body of WaitForSingleObject(Ex) and
(Msg)WaitForMultipleObjects(Ex), which test, consume auto-reset events and
otherwise block on their first handle.

The guest program is arbitrary within `Calls`: in every state the current thread
may make any of these calls with any arguments it can know.  A thread that never
calls is covered by a step that does not happen.

Abstracted: ids, stacks, TEBs, exit codes, the value a call returns; a yield's
log output; the content of completions (see `WGQueues`).  Waits on more than two
handles are represented by two.

Mutexes need no action of their own.  CreateMutex takes a slot of the event table
and leaves its flags as load cleared them, which is CreateEvent with both
parameters false; OpenMutex and ReleaseMutex change nothing.  Likewise
QueueUserWorkItem and SubmitThreadpoolWork create a READY thread, as CreateThread
does.

### WGMailbox and WGQueues

`WGMailbox` is what a queue promises: a bounded box of letters, each addressed to a
reader; a letter that does not fit is dropped silently, a reader takes its oldest
letter, loading a program empties the box.

`WGQueues` has the two rings of `wg_engine.c:328-414` with their indices.  The
completion ring is taken from at its head.  A thread message is taken from
anywhere: `tmsg_pop` searches from the head for the first message of the caller
and moves those behind it down by one slot, across the wrap of the indices.

| Definition | Code |
|---|---|
| `iocp_post`, `iocp_get` | the functions of that name; `PostCompletion`, `GetCompletion` are the thunks that call them |
| `tmsg_push`, `tmsg_pop`, `Compact` | the functions of that name and the inner loop; `PostThreadMessage`, `PumpMessage` are the thunks |
| `LoadPE` | the two lines of `wg_engine_load_pe` that reset the indices |

`PortBox` and `InBox` are the refinement mappings: the entries between head and
tail, oldest first.  `completion` and `message` record what the last call handed
over, and `program` which program is loaded, so that a queue that loses everything
is not mistaken for one that was emptied.

### WGCalls and WGModal

SendMessage cannot wait for the window procedure it calls.  It pushes a call onto
the guest stack whose return address is a sentinel, saves its caller in a frame of
`s_callstack` and jumps; the sentinel's handler pops the frame.  DialogBoxParam
uses a second sentinel, at which the engine pauses, and one global place for its
caller.  `WGModal` keeps, for each thread, its guest stack as the sequence of
sentinels on it (`stack`, memory, which no return erases) and a stack pointer in
its registers, so that a return to a wrong place is what it is in the code: a
stack pointer into another stack.

| Definition | Code |
|---|---|
| `wg_call_wndproc`, `Enter`, `CanCall` | `wg_call_wndproc_ovr` |
| `Dispatch`, `SendMessage`, `CreateDialogParam` | the thunks that call a procedure |
| `MessageReturns`, `DialogSentinel` | the handlers of the two sentinels |
| `DialogBoxParam`, `EndDialog` | the thunks |
| `Tap`, `NsdShow` | `handleTap` with `wg_engine_dialog_command`; `nsDialogs::Show` |
| `Spawn` | CreateThread with its fallback, which runs the thread function as a callback |
| the rest | as in `WGSync`, without waits |

`WGCalls` is the promise: a stack of calls per thread, a return pops the returning
thread's own call, EndDialog unwinds to where the dialog was opened.  A program is
described by the calls it makes outside callbacks (`Calls`) and inside (`Inside`).
Which windows have a procedure, the results of calls and the contents of dialogs
are left out; only the thread that opened the dialog ends it.

### WGApp

Three kinds of host threads, and one step for each stretch that another thread can
come between.

| Actions | Code (`WGSceneDelegate.m` unless named) |
|---|---|
| `documentPicker`, `loadAndRunPE`, `ChainLoad` | a pick, and a block that loads the program a finished one asked for; each dispatches a load to a background queue |
| `ResetWindows`, `LoadImage` | `wg_engine_load_pe` on that queue: first the tables of the last program, then the file |
| `RunLoaded`, `StartLoop`, `StartLoopAnyway` | the completion on the main thread: `wg_engine_run`, then `startEngineThread`, which waits for the last thread for at most two seconds |
| `LoopTest`, `TickPaused`, `TickDraws`, `TickEnds` | `engineLoop` around a tick; what the guest does in it is left open |
| `TakePending`, `LoopReturns` | the end of `engineLoop`: `wg_engine_take_pending_exec` |
| `TapAims`, `TapLands` | `handleTap`: the test for PAUSED, and the command |
| `RenderBegins`, `RenderEnds` | `renderFrame` and the buffers it holds |
| `DisconnectBegins`, `DisconnectEnds` | the flag, 20 ms, and `wg_engine_destroy` |

`table` is the generation of the window table, `reading` the generation whose buffers
a thread holds.  `sins` is a history of what the code does not guard against and what
the properties are therefore not promised under: a program picked while another runs,
loads that overlap, a wait that ran out, a tap that came after its dialog, an engine
freed under a tick.  Each is reachable; section 6 says what each leads to.

### The services

None of these modules shares state with another, or with the scheduler: their calls
run to completion inside one handler.  `MCServices` composes them so that one runs
while the others rest.

| Module | State | Actions |
|---|---|---|
| `WGSockets` | descriptor table, port bindings, the port, event-select flags; the host's sockets | `socket`, `connect`, `send`, `recv`, `closesocket`, options, ConnectEx, WSASend and WSARecv with their completions, WSAEnumNetworkEvents, binding to a port |
| `WGAddresses` | the scratch page of results, the sockaddr of a peer and the guest's buffer | getaddrinfo, gethostbyname and their walks, getpeername and back |
| `WGHttp` | one table of sessions, connections and requests | open, connect, request, send, receive (with redirects), count, read, close |
| `WGHttpText` | the question and the answer | cracking a URL, following a Location, querying headers into a buffer |
| `WGDecode` | bytes and the instruction read from them | `wg_x86_decode` of every form, cut off anywhere |
| `WGInterp` | registers, flags, stack, frames | arithmetic, moves, conditions, PUSH, POP, CALL, RET, LEAVE at small widths |
| `WGSchannel` | contexts with the bytes not yet taken; sessions of the host; what the guest has yet to give | handshake, encrypt, decrypt, delete, with `SECBUFFER_EXTRA` |
| `WGOpenSSL` | slots with two buffers and their positions; the history of each object | every function of the shim |
| `WGDesktop` | windows, DCs, bitmaps, textures, what is dirty | windows, painting, DCs, selection, blits, frames of the compositor, a load |
| `WGRaster` | one call and the pixels it set | FillRect, LineTo pixel by pixel, BitBlt, StretchDIBits, layout and hit test |
| `WGFiles` | open files with their stream, current directory; the disk, and the disk that Windows would have | create, read, write, seek, size, close, delete, change directory, temporary names |
| `WGDialogs` | controls, windows, the inner page, handles the guest holds | templates, pages, destroy, find by id, forget at a load |
| `WGMapper` | the stub table (every default entry with its argument count), base of the thunks, COM objects | imports, GetProcAddress, WSAIoctl, COM, a second load |
| `WGLoader` | blink's memory, regions, module table | loading a program with its imports and sections, LoadLibrary with relocations |

What each promises:

| Property | In words |
|---|---|
| `DescriptorsOwned` | the open descriptors are those in the table, each in one slot |
| `ToldOnce` | a completion is in the ring exactly once (or the ring was full), with its count and key; a connection is reported at most once |
| `AddressesRight` | the two layouts of a sockaddr are inverse, and a list of results leads to every address the host found |
| `BodyInOrder` | handed over, buffered and still to come make up the body, each byte once, however counting, reading and redirects mix |
| `ConnectionsOwned` | host connections are those of the requests, and lead where the request was sent |
| `TextRight` | the two URL parsers agree; asking for the length and then for the text works, and never writes past the guest's buffer |
| `LengthsRight` | an instruction is as long as its parts, and a target is relative to its end |
| `InterpRight` | a condition after an arithmetic instruction is the one the processor would have; a return finds its frame |
| `RecordsRight` | a session is fed what came from the peer, in order; the buffers of EncryptMessage are one record |
| `WireInOrder` | an object's session takes what was fed to it, and what is drained is what it sent |
| `DesktopRight` | a drawing reaches the surface its DC was made for, and the screen |
| `DrawingRight` | pixels and the button under a tap are where the guest put them; a line stays within half a pixel |
| `DialogsRight` | held handles, the page shown and the controls found are the ones asked for |
| `FilesFaithful` | a read gives, and a close leaves, what Windows would |
| `ImagesRight` | memory holds every word of every section, pointers moved, imports bound; DLLs do not overlap |
| `StackBalanced` | an entry pops what its function takes, whoever resolved it |

## 4. Runs

| Run | Shows |
|---|---|
| `sync_waits` | every interleaving of three threads that wait (event or completion port, finite or infinite), signal, reset, sleep, pump, create and resume: types, `CurrentRuns`, `ContextsFaithful`, `NoLostWakeup`, `OneRunning`, `RoundRobin` |
| `sync_exits` | waits for any or all of several handles, joins, returns, ExitProcess, faults, pages: `ContextsFaithful`, `NoLostWakeup`, `NoLostJoin` (for threads that return), `ExitedForever` |
| `sync_turns` | liveness: `NoStarvation`, `SetEventReleases` |
| `queues` | the completion ring and the thread-message ring implement bounded mailboxes |
| `modal` | nested callbacks, pages, taps and dialogs on three threads: `OwnStack`, `FramesMatch`, `PauseAnswerable`, and that they implement `WGCalls` |
| `app` | the main thread, up to three loads and three engine threads, with picks, taps, chain loads, a wait that runs out and a disconnect at any time: `OneLoop`, `ReclaimedStopped`, `RunningIsTicked` |
| `services` | the fourteen services, with the invariants named in section 3 |
| `lost_thread` | *violation* of `OneRunning`: the tick's second switch after a thread returned |
| `lost_join` | *violation* of `NoLostJoin`: ExitThread wakes no joiner |
| `lost_page` | *violation* of `PageHoldsProgram`: a PAUSED tick abandons the thread that showed a page |
| `busy_pump` | *violation* of `LonePumpIdles`: the yield of a lone thread always succeeds |
| `stolen_frame` | *violation* of `OwnStack`: two threads' callbacks interleave on the one `s_callstack` |

**Bounds.**  Three threads are the fewest in which a scan has a choice, a wake-up
has two waiters, and a thread returns while two others exist.  One event
(auto- or manual-reset, any initial state) suffices because events do not
interact except in waits for several handles, where the handles of threads serve
as the others.  `IocpCapacity = 1` makes the ring full after one post.
`CallModulus = 2` distinguishes a register file from the one of the call before;
a thread whose registers went back by one call is what a misplaced restore
produces.  `SyncWaits` and `SyncExits` fingerprint states through `LiveView`,
which hides the saved registers that are overwritten before they can be read
(those of the current thread, of free and exited slots); safety only.

`Queues`: rings of three and four slots hold two and three entries.  They fill, wrap
at both ends, and a message is taken from the front, the middle and the back, with
the hole on either side of the wrap; the proofs cover every other size.  `Modal`:
three threads, three frames and stacks one deeper, so that the frames run out while
a dialog is open, and the thread table fills so that the CreateThread fallback runs.
In this run no thread sleeps, exits or opens a dialog inside a callback, and a
second dialog is not opened while one is open.  Those are the conditions under
which one stack of frames can serve all threads; `stolen_frame` shows what happens
without the first.

`App`: three loads are a program, the one it starts and one picked meanwhile; three loops
let a third start while the second is late.  The proofs cover every other number.

`Services`, with the sizes that make each case happen:

* sockets: two slots and three descriptors, so that the table fills before the host's
  does and a slot is given again; a port for one binding and one completion, both full
  after one.  The shim: one slot for two objects, three bytes fed or sent.  Schannel:
  two slots and three handles, so that a slot is reused under another handle; the
  lengths of a flight and of records that make a buffer hold a part of one.
* HTTP: three slots are one session, connection and request; a body of two bytes is
  read in parts.  Texts of up to three characters against a limit of two.
  `HttpGuest = {}`: the guest sends a request once, and closes children before parents.
* decoder: four leads (none, REX.W, operand size, segment and REX.B), the ModR/M and SIB
  bytes that select every addressing form, with every opcode of the maps in the module.
  Interpreter: a byte of 2 bits, a DWORD of 4 and a QWORD of 5, in which every carry and
  overflow happens.
* desktop: two windows, one DC, one bitmap, two drawings, two programs.  Raster: a
  framebuffer of 3 by 2, coordinates from one outside on each side.  Dialogs: three
  controls in the table and four made, so that it fills; templates whose items start at
  odd and even words.
* files: one slot and two opens, one name under two spellings, one byte.  A hole, an
  append and a file that is read back after a write need no more.
* mapper: 680 entries, a few more than the defaults, so that the table fills.
  Loader: two programs of 32 and 64 bits and one moved, three DLLs and two module slots;
  an import table of each form that `parse_imports` tells apart.  In a program of 32 bits
  the address of eight bytes that is bound to a slot runs over the next slot, which has to
  be bound later or be the empty one.

Some histories mark what the properties are not promised under: `odd` paths (opened
twice, with a disposition that stdio has not, or with a full table), `raced` windows
(drawn while they were copied), `turned` DCs, `strays` of the dialogs.  They are set only
by the steps their comments name.

**Fairness.**  `WF(Tick)`: `engineLoop` (WGSceneDelegate.m:260-280) calls the tick
again and again while the engine is RUNNING or PAUSED.  `WF(EngineRun)`: the app
runs what it loaded.  `WF(YieldingCall)` is an assumption on the guest: the
scheduler is cooperative, so a thread that never calls Sleep or GetMessage starves
the others by design.  Nothing is assumed about the user's taps.  `WGApp` assumes that
dispatch queues run what is on them, that a thread is scheduled and that a tick ends
(`wg_engine_tick` runs at most `instructions_per_tick` instructions and one handler; that
a blocking call of the host returns is assumed): WF of each load's, each
loop's and the main thread's own steps.  Picks, taps, frames, a disconnect and the
end of the two-second wait are not assumed.  The services have safety properties only.

**Stopping.**  Deadlock is not checked where the program may end (`STOPPED`) or a
page waits for a tap that never comes, where the app has come to rest or loaded all it
may (`app`), and where a service has used up the bounds of its instance (`services`).


## 5. Proofs

Everything below is proved for all values of the constants, from the assumptions that
the modules name: there is at least one thread slot and at most 32
(`MaxThreadsAssumption`, `SyncAssumption`; the bound keeps thread handles, event handles
and the port handle apart), rings have at least one slot (`QueuesAssumption`), guest
stacks have room for a call (`ModalAssumption`), there is a socket slot and descriptors
are numbers (`SocketsAssumption`), no object of the guest is the mark of a free slot
(`ShimAssumption`), a framebuffer has a pixel (`RasterAssumption`), a BYTE is shorter
than a DWORD and that than a QWORD (`InterpAssumption`), bytes are bytes
(`DecodeAssumption`), templates are made of names (`DialogsAssumption`), images are made
as linkers make them (`LoaderAssumption`, below), and sizes and bounds are numbers
(`BoundsAssumption`, `DeskAssumption`, `HttpAssumption`, `TlsAssumption`,
`TextAssumption`, `AddressesAssumption`). `FilesAssumption` says what a spelling is, and
that no name starts with the `?` of the prefix `\\?\`, which Windows allows in no name.
`MapperAssumption` and `DefaultsAssumption` say of the default entries what TLC finds
when it evaluates the table: it fits, and an entry that is there twice has one argument
count.  A theorem that needs more says so in its ASSUME, and the text below does.

`WGThreadingProofs` has no theorem about behaviours.  It says what each scheduler
function leaves in each field, so that the other proofs never expand the nested
updates, and that `NextSlot` exists and is the nearest READY slot.

**`CoreInvariant`, `TypeCorrect`, `CurrentRunning`** (`WGSyncProofs`).  `CurrentRuns`
is not inductive: a load or a page leaves the engine not RUNNING, and the step that
resumes it needs to know that there is a current thread.  `IdleAtGuest` adds that an
engine that is LOADED or PAUSED has a current thread in guest code.

**`RegistersFaithful`** (`WGSyncProofs`).  The invariant relates the registers of
every live thread, in blink or in the table, to the history of completed calls.
One lemma per scheduler function shows that it moves registers with their thread;
one per handler shape (`Returned`, `Block`, `Yield` after a return) shows that the
count in the registers and the history advance together.

**`NoWakeupLost`** (`WGSyncProofs`).  `NoLostWakeup` needs two more facts.  `Parked`:
a WAITING thread is registered for the handle its pending call names first, so that
the `Wake` of a signal finds it.  `KnownPlaces`: no pending call names an event that
does not exist yet, so that creating an event as signalled hurts nobody.  A PAUSED
tick parks a thread as WAITING too, and the proof shows that it does so only in guest
code (`IdleAtGuest`).

**`TurnsGoRound`, `ExitedStays`, `OneThreadRuns`, `NoJoinLost`** (`WGSyncProofs`).  All
four rest on one lemma, `TurnCases`: a step leaves the processor where it is, hands it
to the READY thread the scan meets first, or ends the current thread.  In the second
case `Dist` to every other READY thread shrinks, which is `RoundRobin`.  `OneThreadRuns`
assumes that no thread returns and none calls ExitProcess (`Calls` without the two): a
thread that ends through the tick can leave a second one RUNNING, which is what the run
`lost_thread` shows.  `NoJoinLost` assumes that no thread calls ExitThread, for the
reason that `lost_join` shows; it needs `Singles`, that a pending WaitForSingleObject
asks for one handle.

**`QueueTypes`, `PortImplemented`, `MessagesImplemented`** (`WGQueuesProofs`).  The
arithmetic of a ring is in five lemmas: where the k-th entry lies, how many entries
there are, how both change when an index moves.  Then each step of a ring is a step
of the mailbox: a post appends or is dropped, a take removes the first or the k-th
entry.  The compaction is the long one: the slots between the hole and the tail
shift whatever side of the wrap they are on.

**`FramesAlwaysMatch`, `StacksNeverMixed`, `PausesAnswerable`, `ModalTyped`,
`CallbacksNest`** (`WGModalProofs`).  These assume `CallbacksComplete`, a condition on
`Calls` and `Inside` that the `modal` run satisfies: no callback sleeps, exits or opens
a dialog, and there is one dialog at a time.  The argument is about who can be inside a
callback. A thread that is not current is at rest (`AtRest`), unless a PAUSED tick
parked it, and the first to be parked is always the owner of the dialog (`Parked`), so
that EndDialog, which empties the whole of `s_callstack`, can only run when nobody else
has frames in it.  Above a frame of the current thread lie only its own
(`CurrentOnTop`), so the frame on top is the one the returning procedure was called
from.  Every step that passes the processor on is shown to satisfy one predicate,
`Hands`, from which the invariant and the refinement follow once for all of them.

**`EngineTickedByOne`, `ReclaimedBuffersIdle`** (`WGAppProofs`).  For every number of
loads and loops.  Engine threads are born in order and, unless the wait ran out, all but
the last are finished (`OneLoop` follows: two unfinished ones would both be the last).
For `ReclaimedStopped` the load itself has to be followed: from its block on the main
thread until `wg_engine_run`, a load that nobody picked out of turn is the only one and
is under no tick (`LoadsAlone`), because the loop that asked for it had left its ticks
and a new loop is started only for a loaded program.  A buffer is held only in a tick,
and a buffer that was taken since the last reset is of the current generation.

**`ScreenRight`, `DesktopTyped`** (`WGAppProofs`).  What is being copied is what the
window shows, unless it was drawn meanwhile (`CopyCurrent`), windows are numbered as they
are made (`EntriesNumbered`), and a DC that goes to a bitmap was made so or has a slot
that held one (`DCsAsMade`).

**`PixelsPlaced`** (`WGAppProofs`).  The error term of the line is
exactly the distance of the pen from the line, scaled: from that it follows that the pen
stays within half a pixel and ends at its end, for lines of any slope and length.  The
other drawings are one formula each, and the hit test undoes the scaling of the layout
(`ScreenInverse`) for every scale.

**`HandlesAndPagesRight`, `DialogsWellTyped`** (`WGAppProofs`).  The walk over a template
is proved against the encoding: each part lies where the walk looks for it, behind the
parts before it and aligned as the item needs.  `wg_remove_ctrls` keeps a prefix of
what it walked over, in order, so that a handle in front of the first removed control
means what it meant.  `PagesApart` says that a program that never did what `strays`
names has one page above its frame, the inner one.

**`StacksBalanced`, `MapperTyped`** (`WGProgramProofs`).  The table only grows, and
every entry is proper: a default, or one that was registered for a name the table did
not have.  Whatever was handed out (`GiftRight`) is a place in the table whose entry
has the name that was asked for, and `DefaultsAssumption` gives its argument count.

**`ImagesAsWanted`, `DllBasesApart`, `LoaderTyped`** (`WGProgramProofs`).  For any
images that are as `LoaderAssumption` says, and any programs and DLLs loaded after each
other, with any page size.  Memory after a load is what three loops leave: over the
sections, the relocations, the imports.  Each is a function with one value for each
turn, and what k turns come to follows from what k - 1 turns come to (`UpTo`).  A turn
writes the words of one section, DLL or slot, and every lemma about it says both what is
there afterwards and what is as it was: the sections of an image are on pages of their
own (`SectionAdded`), the pointers are in no slot, and the second word of the eight
bytes bound to a slot of a 32-bit program falls on the next slot, which is bound later,
or on the empty one (`SlotAdded`).  The regions of the builtin interpreter are reached
through the first that has an address; with the sections apart that is the section's own
(`SectionMapped`).  The invariant, `ImagesInv`, then has to say of a DLL being loaded
only that nothing changes but on its own pages (`KeptBut`): an image that shares no page
with it stays as it was.  That DLLs with relocations share none is `DllBasesApart`: each
lies below `s_dll_next_base`, which moves past the next one before that is put there.  A
DLL without relocations goes where it wants to; `Alone` leaves out what it is put over.

`LoaderAssumption` is what a linker makes of an image, and the loader checks none of it:
sections start on pages and do not share them, an import list and the empty slot behind
it lie in one section and no two lists overlap, no more DLLs and functions are imported
than the tables of `WGPEImage` hold, a base relocation is in a section and in no slot, and
a relocation block that cannot be read is the last one.  Of an image that is not so,
nothing else can be said: the code leaves the imports behind a full table unbound and the
relocations behind a bad block unmoved.

**`LengthsAlwaysRight`, `DecodeTyped`** (`WGProgramProofs`).  The decoder reads prefixes,
opcode, operand and immediate in that order; the lemmas give the length of each from
the bytes alone.  `DecodedWhole` says that what is decoded from an instruction and what
follows it is what is decoded from the instruction, and `DecodedNothing` that bytes
which end too early give nothing.

**`InstructionsRight`, `InterpTyped`** (`WGProgramProofs`).  For any three widths: carry,
overflow and sign computed by the interpreter are those of the reference by arithmetic
modulo powers of two.  `Meaning` ties flags and result to the operands of the last
instruction, and `FramesFit` says where on the stack every saved frame pointer and return
address lies, so LEAVE and RET find their own.

**`GuestFilesFaithful`, `FilesTyped`** (`WGAppProofs`).  The invariant is per path
(`PathRight`): the file is on both disks or on neither; while nothing is `odd` about it
at most one stream is open on it, that stream is where the guest believes it to be
(`OpenRight`), and what it still keeps, flushed onto the host's file, gives what Windows
would have (`Flushed(disk[m], kept) = meant[m]`).  A flush then changes nothing of the
sum, a write appends to what is kept on one side and is done at once on the other, and a
close leaves the two equal.  That one more write kept is one more write done (`Flushed`
of an appended sequence) is proved from `Iteration`: a function on `0 .. n` that is
defined by its value at the number before exists.  Spellings are joined to paths in
`Mapped`: the code's path is the one that is meant, or it starts with the mark of the
prefix and what is meant is `odd`; paths with the mark are nobody's.  `odd` only grows
(`GrowStep`).  The types hold of odd paths too, so they have an invariant of their own,
per slot: handles are below the next one and differ, an open file is on the disk unless
it was deleted, and whatever writes a stream keeps, flushed in either mode, leave bytes.

**`DescriptorsAlwaysOwned`, `ConnectToldOnce`** (`WGNetworkProofs`).  The inductive
invariant joins the types of the table and of the host, `DescriptorsOwned`, and
`ToldIsKept`: a slot has been told of its connection only if its flag is up, which
nothing takes down.  Each call is one of a few changes of the table (a slot gets a new
descriptor, loses one, or only the host's socket changes), each with a lemma.

**`GuestToldOnce`, `SocketsTyped`** (`WGNetworkProofs`).  `RingRight` relates the ring to
the operations the guest waits for: each entry pays one of them, no two the same, and
each that fitted has its entry.  A post appends an entry with an operation of its own, a
take removes both.

**`BodiesInOrder`, `ConnectionsHeld`, `HttpTyped`** (`WGNetworkProofs`).  A body is
numbered, so that the three parts of a request - handed over, buffered, still to come -
are consecutive segments of it; the lemmas about segments say what taking, appending and
cutting leave.  `ConnectionsHeld` assumes `HttpGuest = {}` (section 6 says what happens
otherwise): the number of open connections is then the number of requests that hold one,
and the parent of a request is the connection it was made from.  For any guest it is
never less than that (`CountInv`), so that a connection which is closed was open;
`HttpTyped` needs no more.

**`RecordsAlwaysRight`, `SchannelTyped`** (`WGNetworkProofs`).  The messages that a
session has taken and those that the guest holds follow each other (`GuestRight`).
A handle that was not given out yet has an empty session, so a slot that is reused under
another handle starts at one again.

**`TextUnharmed`, `TextTyped`** (`WGNetworkProofs`).  `strchr` finds the first place, so
that a URL is split at the same character by the parser of the redirects and by
WinHttpCrackUrl.  For headers, the answer to a question that did not fit names a size
with which the same question is answered (`HeadersInv`).

**`AddressesFaithful`** (`WGNetworkProofs`).  Node k of a list lies 60 bytes behind node
k - 1 and points to the next, so the only walk from the head is through all of them.
It assumes that the list ends before the structure of gethostbyname,
`60 * MaxResults <= HB - WG_GAI_BASE`, which is 16384 results: the code does not count
them.

**`WireAlwaysInOrder`, `ShimTyped`** (`WGNetworkProofs`).  The bytes in a buffer are the
last of those numbered so far: what the session has taken, followed by what is in the
buffer behind its position, is all that was fed, and the same for what is drained.
Compaction moves the position and not what is behind it.  Each object has one slot, and
the history of an object without a slot is frozen until it gets one.  A buffer never
holds more than was numbered, so what is in it are numbers of bytes that were fed or
sent (`NumbersFit`).

**`ServicesTyped`** (`WGServicesProofs`).  A step of `MCServices` is a step of one service
and leaves the variables of the others (`OneServes`), so its specification implies that
of each, and their type theorems hold together.

Model-checked only:

* `OneRunning` and `NoLostJoin` for programs outside the conditions above: they do not
  hold there.
* The liveness properties `NoStarvation`, `SetEventReleases` and `RunningIsTicked`,
  which are outside what the prover can do.

## 6. What the violations mean

* `lost_thread` - `wg_engine.c:5664-5666`.  `wg_sched_exit_thread` already switches.
  The tick switches again without saving, and the thread picked first stays RUNNING
  in the table and is never picked again.  With one other thread READY it is also the
  reason the program is declared finished too early.
* `lost_join` - `wg_engine.c:4150-4160`.  ExitThread does not wake the joiners; only a
  return from the thread function does.
* `lost_page` - `wg_engine.c:5576-5594`.  A PAUSED tick saves the thread that shows a
  page as WAITING, without a handle.  Nobody makes it READY again.
* `busy_pump` - `wg_engine.c:1855-1857`.  A yield as READY finds the yielding thread
  itself, so it never fails, and GetMessage never idles.
* `stolen_frame` - `wg_engine.c:861, 1412-1430`.  The frames of callbacks of all threads
  share one stack; returns that do not nest across threads restore the wrong caller.

Not given runs of their own: a wait for any of several handles is woken by the first
only (`NoLostMultiWakeup`), ExitProcess in a worker ends that worker only
(`ExitProcessHalts`), an inner EndDialog leaves the outer dialog unanswerable or takes
the frames of an outer callback (`PauseAnswerable`, `FramesMatch` with a second dialog).

Seen in the services and in the app, and excepted by the properties that would
otherwise not hold, each reachable in its model:

* A connection is not reported to a socket in a reused slot: `alloc_socket` does not
  clear `connect_reported` (`wg_winsock.c:102`).  `ToldOnce` says at most once.
* Sending a request a second time opens a second host connection and forgets the first;
  closing a parent first leaves a request that names a slot that is another's by then
  (`HttpGuest`).
* An immediate behind an operand relative to the instruction pointer: the decoder takes
  the place before the immediate (`wg_x86_decode.c:123`).
* EncryptMessage fills three buffers from the record the host made.  A record that is
  shorter than its trailer, or a suite whose overhead is more than header and trailer,
  is cut (`RecordWhole`).  A credential used again while its context has records left
  would hand them to the new session.
* A name in an `api-ms-win-*` set is never matched to a DLL of the table; its stub pops
  no arguments.
* A handle behind the first control that is removed is another control's, or nobody's
  (`wg_engine.c:680`).
* A drawing between the copy of a window and the clearing of `client_dirty` is shown only
  after the next drawing (`WGCompositor.m:170`).
* `wg_win32_windows.c:105-108` says that `wg_wm_reset` is called on the main thread with
  the engine stopped.  It is called on a background queue.  For a chain load the loop has
  left its ticks (`ReclaimedStopped`), but the main thread may be composing a frame, and
  after a pick the engine may be in a tick ("picked while running").
* A tap whose engine stopped after the test for PAUSED sets it RUNNING again ("stray
  tap"): no loop ticks it.
* A disconnect frees the engine 20 ms after the flag is down, whether or not a tick has
  ended ("freed under a tick").

## 7. Not modelled

* Metal, text and brushes, console overlay, logging, self test: no protocol.
* blink and LZMA: vendored.  blink appears as the owner of the register file and as the
  memory that images are loaded into.  NSIS extraction is a sequential driver of LZMA.
* Heap, TLS slots, the one timer that GetMessage polls, registry, strings, locale and
  resources of the other thunks: one table access per call.
* The SEH guard (disabled in the code), watchpoints and the recovery branches of the
  tick, which are workarounds for one program.
* Winsock: listening sockets, datagrams, `select`.  WinHTTP: WinHttpWriteData, proxies,
  most options, TLS below a request.  Files: find handles, attributes, the fixed
  folders.  They use the same tables in the ways that are modelled.
* PE: validation of headers, parsing of resources.  Interpreter: ADC, SBB, the rotations
  and REP are decoded and not executed by the code.
* Guest behaviour in a tick of `WGApp`: it is left open there and is what `WGSync` and
  `WGModal` are about, which in turn assume the one loop that `OneLoop` shows.
