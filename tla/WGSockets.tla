----------------------------- MODULE WGSockets -----------------------------
(***************************************************************************)
(* Winsock: Sources/Win32/wg_winsock.c, and the dispatch of WS2_32 calls   *)
(* in Sources/Core/wg_engine.c that turns an overlapped call into a        *)
(* completion.                                                             *)
(*                                                                         *)
(* A SOCKET of the guest is an index into a table of host descriptors.     *)
(* Every call is carried out at once, on the one engine thread; a call     *)
(* that blocks in the host is a step that happens when it can return.  An  *)
(* overlapped call is carried out at once too, and the guest is told that  *)
(* it is pending; its completion goes to the port, here the bounded queue  *)
(* that WGQueues shows the ring to be.                                     *)
(*                                                                         *)
(* The host's sockets are external: what the code observes of them.        *)
(***************************************************************************)
EXTENDS Integers, Sequences, FiniteSets, SequencesExt

CONSTANTS
    WG_MAX_SOCKETS,     \* 128 in the code
    WG_MAX_IOCP_SOCK,   \* 32 in the code
    HostFds,            \* the descriptors the host has
    Keys,               \* completion keys the guest binds
    Overlappeds,        \* OVERLAPPED structures of the guest
    PortCapacity,       \* completions the ring holds, 63 in the code
    MaxInbox            \* bound: bytes that wait on a socket

ASSUME SocketsAssumption ==
    /\ WG_MAX_SOCKETS \in Nat \ {0}
    /\ WG_MAX_IOCP_SOCK \in Nat
    /\ PortCapacity \in Nat
    /\ MaxInbox \in Nat
    /\ HostFds \subseteq Nat
    /\ 0 \notin Keys

VARIABLES
    fds,                \* the table: a descriptor, or Unused
    connect_reported,   \* slots for which FD_CONNECT was delivered
    s_iocp_bindings,    \* socket and key, oldest first
    host,               \* the host's sockets
    iocp,               \* the completions in the ring, oldest first
    owed,               \* history: overlapped operations the guest waits for
    reports             \* history: FD_CONNECTs the present socket of a slot was told of

tableVars == <<fds, connect_reported, host, reports>>
portVars  == <<s_iocp_bindings, iocp, owed>>
sockVars  == <<tableVars, portVars>>

SOCKET_ERROR == -1
Unused       == -1      \* in a slot without a descriptor
Slots   == 0 .. WG_MAX_SOCKETS - 1
Sockets == 0 .. WG_MAX_SOCKETS      \* the last is out of range, as INVALID_SOCKET is
Phases  == {"closed", "new", "connecting", "connected", "failed"}

\* A socket of the host.  "failed" has an error waiting in SO_ERROR.
HostSocket == [phase : Phases, nonblock : BOOLEAN, inbox : 0 .. MaxInbox, hup : BOOLEAN]
Closed     == [phase |-> "closed", nonblock |-> FALSE, inbox |-> 0, hup |-> FALSE]

Completion == [bytes : 0 .. MaxInbox, key : Keys \cup {0}, overlapped : Overlappeds]

\* An operation the guest waits for: what it moved, the keys its socket was
\* bound to, whether the guest asked for the count, whether the ring had room.
Operation == [overlapped : Overlappeds, bytes : 0 .. MaxInbox, keys : SUBSET Keys,
              counted : BOOLEAN, fits : BOOLEAN]

-----------------------------------------------------------------------------
(* The table.                                                              *)

lookup_fd(s) == IF s \in Slots THEN fds[s] ELSE Unused

IsFirstHole(i) == fds[i] = Unused /\ \A j \in 0 .. i - 1 : fds[j] # Unused

\* Mutant of alloc_socket: a descriptor that found no slot stays open.
alloc_socket_leaks(fd) ==
    /\ host' = [host EXCEPT ![fd].phase = "new"]
    /\ IF \E i \in Slots : fds[i] = Unused
       THEN \E i \in Slots : /\ IsFirstHole(i)
                             /\ fds' = [fds EXCEPT ![i] = fd]
                             /\ reports' = [reports EXCEPT ![i] = 0]
       ELSE UNCHANGED <<fds, reports>>

\* The first hole takes the new descriptor; without one it is closed again.
alloc_socket(fd) ==
    IF \E i \in Slots : fds[i] = Unused
    THEN \E i \in Slots : /\ IsFirstHole(i)
                          /\ fds' = [fds EXCEPT ![i] = fd]
                          /\ reports' = [reports EXCEPT ![i] = 0]
                          /\ host' = [host EXCEPT ![fd].phase = "new"]
    ELSE UNCHANGED <<fds, reports, host>>

free_socket(s) ==
    IF lookup_fd(s) = Unused
    THEN UNCHANGED <<fds, host>>
    ELSE /\ host' = [host EXCEPT ![fds[s]] = Closed]
         /\ fds' = [fds EXCEPT ![s] = Unused]

BoundAt(s)  == {i \in DOMAIN s_iocp_bindings : s_iocp_bindings[i].sock_handle = s}
BoundKeys(s) == {s_iocp_bindings[i].comp_key : i \in BoundAt(s)}

\* The completion key of a socket: that of its oldest binding, 0 without one.
iocp_comp_key(s) ==
    IF BoundAt(s) = {} THEN 0 ELSE s_iocp_bindings[Min(BoundAt(s))].comp_key

-----------------------------------------------------------------------------
(* Calls on the table and the host.                                        *)

\* Any of the calls below with a socket that is not in the table.
NotASocket(s) ==
    /\ lookup_fd(s) = Unused
    /\ UNCHANGED <<tableVars, portVars>>

\* socket and WSASocket.  The host gives the lowest descriptor that is free.
socket ==
    /\ \/ \E fd \in HostFds : /\ host[fd] = Closed
                              /\ \A other \in HostFds : host[other] = Closed => fd <= other
                              /\ alloc_socket(fd)
       \/ (\A fd \in HostFds : host[fd] # Closed) /\ UNCHANGED <<fds, reports, host>>
    /\ UNCHANGED <<connect_reported, portVars>>

closesocket(s) ==
    /\ free_socket(s)
    /\ UNCHANGED <<connect_reported, reports, portVars>>

\* What connect(), and the wait of fifteen seconds for a socket that does not
\* block, may come to.
Outcomes(fd, waits) ==
    CASE host[fd].phase \in {"new", "failed"} ->
            {"connected", "failed"} \cup (IF waits THEN {"connecting"} ELSE {})
      [] host[fd].phase = "connecting" -> {"connected", "failed", "connecting"}
      [] OTHER -> {}

\* The error of a failed connect is read from SO_ERROR, which clears it.
After(phase) == IF phase = "failed" THEN "new" ELSE phase

\* connect leaves the mode of the socket alone, also when the wait times out.
\* Connecting a connected socket is an error.
connect(s) ==
    LET fd == lookup_fd(s)
    IN  /\ fd # Unused
        /\ \E o \in Outcomes(fd, host[fd].nonblock) \cup {host[fd].phase} :
             /\ o \in Outcomes(fd, host[fd].nonblock) \/ o = "connected"
             /\ host' = [host EXCEPT ![fd].phase = After(o)]
        /\ UNCHANGED <<fds, connect_reported, reports, portVars>>

\* What recv() may return for room for n bytes: a count, or an error.  A socket
\* that blocks does not return before there is something to say.
Received(fd, n) ==
    LET h == host[fd]
    IN  CASE h.phase # "connected"    -> {SOCKET_ERROR}
          [] h.inbox > 0              -> {k \in 1 .. n : k <= h.inbox}
          [] h.inbox = 0 /\ h.hup     -> {0}
          [] h.inbox = 0 /\ ~ h.hup   -> IF h.nonblock THEN {SOCKET_ERROR} ELSE {}

recv(s, n) ==
    LET fd == lookup_fd(s)
    IN  /\ fd # Unused
        /\ \E got \in Received(fd, n) :
             /\ host' = IF got = SOCKET_ERROR THEN host ELSE [host EXCEPT ![fd].inbox = @ - got]
        /\ UNCHANGED <<fds, connect_reported, reports, portVars>>

\* What send() may return for n bytes.
Sent(fd, n) == IF host[fd].phase = "connected" THEN {SOCKET_ERROR} \cup 1 .. n ELSE {SOCKET_ERROR}

send(s, n) ==
    /\ lookup_fd(s) # Unused
    /\ Sent(lookup_fd(s), n) # {}
    /\ UNCHANGED <<tableVars, portVars>>

\* FIONBIO; the other commands change nothing.
ioctlsocket(s, nonblock) ==
    /\ lookup_fd(s) # Unused
    /\ host' = [host EXCEPT ![lookup_fd(s)].nonblock = nonblock]
    /\ UNCHANGED <<fds, connect_reported, reports, portVars>>

WSAEventSelect(s) == ioctlsocket(s, TRUE)

\* shutdown and DisconnectEx.
shutdown(s) ==
    LET fd == lookup_fd(s)
    IN  /\ fd # Unused
        /\ host' = [host EXCEPT ![fd].hup = @ \/ host[fd].phase = "connected"]
        /\ UNCHANGED <<fds, connect_reported, reports, portVars>>

\* getsockopt may read SO_ERROR and so clear it.
getsockopt(s) ==
    LET fd == lookup_fd(s)
    IN  /\ fd # Unused
        /\ host' = [host EXCEPT ![fd].phase = After(@)]
        /\ UNCHANGED <<fds, connect_reported, reports, portVars>>

-----------------------------------------------------------------------------
(* Readiness.                                                              *)

Writable(fd) == host[fd].phase \in {"connected", "failed"}

\* Mutant of WSAEnumNetworkEvents: that FD_CONNECT was delivered is not kept.
WSAEnumNetworkEvents_forgets(s) ==
    LET fd       == lookup_fd(s)
        connects == Writable(fd) /\ s \notin connect_reported
    IN  /\ fd # Unused
        /\ reports' = [reports EXCEPT ![s] = IF connects THEN @ + 1 ELSE @]
        /\ host' = [host EXCEPT ![fd].phase = IF connects THEN After(@) ELSE @]
        /\ UNCHANGED <<fds, connect_reported, portVars>>

\* FD_CONNECT is reported when the socket is writable, once for each slot, and its
\* error is read with it.  FD_READ and FD_CLOSE change nothing, nor does select.
WSAEnumNetworkEvents(s) ==
    LET fd       == lookup_fd(s)
        connects == Writable(fd) /\ s \notin connect_reported
    IN  /\ fd # Unused
        /\ connect_reported' = IF connects THEN connect_reported \cup {s} ELSE connect_reported
        /\ reports' = [reports EXCEPT ![s] = IF connects THEN @ + 1 ELSE @]
        /\ host' = [host EXCEPT ![fd].phase = IF connects THEN After(@) ELSE @]
        /\ UNCHANGED <<fds, portVars>>

-----------------------------------------------------------------------------
(* Overlapped calls.                                                       *)

\* CreateIoCompletionPort with a handle; a full table ignores the binding.
CreateIoCompletionPort(s, k) ==
    /\ s_iocp_bindings' = IF Len(s_iocp_bindings) < WG_MAX_IOCP_SOCK
                          THEN Append(s_iocp_bindings, [sock_handle |-> s, comp_key |-> k])
                          ELSE s_iocp_bindings
    /\ UNCHANGED <<tableVars, iocp, owed>>

Idle(ovl) == \A o \in owed : o.overlapped # ovl

Owe(s, moved, counted, ovl) ==
    owed' = owed \cup {[overlapped |-> ovl, bytes |-> moved, keys |-> BoundKeys(s),
                        counted |-> counted, fits |-> Len(iocp) < PortCapacity]}

\* The call is over.  Its result goes to the port, with the count the guest asked
\* for (none asked, 0 told), and the guest is told that the call is pending.
Complete(s, moved, counted, ovl) ==
    /\ iocp' = IF Len(iocp) < PortCapacity
               THEN Append(iocp, [bytes |-> IF counted THEN moved ELSE 0,
                                  key |-> iocp_comp_key(s), overlapped |-> ovl])
               ELSE iocp
    /\ Owe(s, moved, counted, ovl)
    /\ UNCHANGED s_iocp_bindings

\* ConnectEx makes the socket non-blocking, connects, waits, and makes it
\* blocking, unless the wait failed: then it stays non-blocking.
ConnectEx(s, ovl) ==
    LET fd == lookup_fd(s)
    IN  /\ fd # Unused
        /\ Idle(ovl)
        /\ \/ \E o \in Outcomes(fd, TRUE) :
                /\ host[fd].phase # "connecting"
                /\ host' = [host EXCEPT ![fd].phase = After(o),
                                        ![fd].nonblock = (o # "connected")]
                /\ IF o = "connected"
                   THEN Complete(s, 0, TRUE, ovl)
                   ELSE UNCHANGED portVars
           \/ /\ host[fd].phase \in {"connecting", "connected"}
              /\ host' = [host EXCEPT ![fd].nonblock = FALSE]
              /\ UNCHANGED portVars
        /\ UNCHANGED <<fds, connect_reported, reports>>

\* WSASend with an OVERLAPPED; nothing to send is a success at once.
WSASend(s, n, counted, ovl) ==
    LET fd == lookup_fd(s)
    IN  /\ fd # Unused
        /\ Idle(ovl)
        /\ \E sent \in IF n = 0 THEN {0} ELSE Sent(fd, n) :
             IF sent = SOCKET_ERROR
             THEN UNCHANGED portVars
             ELSE Complete(s, sent, counted, ovl)
        /\ UNCHANGED tableVars

WSARecv(s, n, counted, ovl) ==
    LET fd == lookup_fd(s)
    IN  /\ fd # Unused
        /\ Idle(ovl)
        /\ \E got \in Received(fd, n) :
             IF got = SOCKET_ERROR
             THEN UNCHANGED <<portVars, host>>
             ELSE /\ host' = [host EXCEPT ![fd].inbox = @ - got]
                  /\ Complete(s, got, counted, ovl)
        /\ UNCHANGED <<fds, connect_reported, reports>>

GetQueuedCompletionStatus ==
    /\ iocp # <<>>
    /\ iocp' = Tail(iocp)
    /\ owed' = {o \in owed : o.overlapped # Head(iocp).overlapped}
    /\ UNCHANGED <<tableVars, s_iocp_bindings>>

-----------------------------------------------------------------------------
(* The peer.                                                               *)

\* A connect that outlived its wait succeeds or fails.
ConnectionEnds(fd, phase) ==
    /\ host[fd].phase = "connecting"
    /\ host' = [host EXCEPT ![fd].phase = phase]

DataArrives(fd) ==
    /\ host[fd].phase = "connected" /\ ~ host[fd].hup /\ host[fd].inbox < MaxInbox
    /\ host' = [host EXCEPT ![fd].inbox = @ + 1]

PeerCloses(fd) ==
    /\ host[fd].phase = "connected" /\ ~ host[fd].hup
    /\ host' = [host EXCEPT ![fd].hup = TRUE]

Peer == /\ \E fd \in HostFds : \/ \E p \in {"connected", "failed"} : ConnectionEnds(fd, p)
                               \/ DataArrives(fd)
                               \/ PeerCloses(fd)
        /\ UNCHANGED <<fds, connect_reported, reports, portVars>>

-----------------------------------------------------------------------------
SocketsInit ==
    /\ fds = [i \in Slots |-> Unused]
    /\ connect_reported = {}
    /\ s_iocp_bindings = <<>>
    /\ host = [fd \in HostFds |-> Closed]
    /\ iocp = <<>>
    /\ owed = {}
    /\ reports = [i \in Slots |-> 0]

Counts == 1 .. MaxInbox

SocketCall(s) ==
    \/ NotASocket(s)
    \/ closesocket(s)
    \/ connect(s)
    \/ \E n \in Counts : send(s, n) \/ recv(s, n)
    \/ \E nonblock \in BOOLEAN : ioctlsocket(s, nonblock)
    \/ WSAEventSelect(s)
    \/ shutdown(s)
    \/ getsockopt(s)
    \/ WSAEnumNetworkEvents(s)
    \/ \E k \in Keys : CreateIoCompletionPort(s, k)
    \/ \E ovl \in Overlappeds :
         \/ ConnectEx(s, ovl)
         \/ \E counted \in BOOLEAN, n \in 0 .. MaxInbox :
              WSASend(s, n, counted, ovl) \/ (n > 0 /\ WSARecv(s, n, counted, ovl))

SocketsNext ==
    \/ socket
    \/ \E s \in Sockets : SocketCall(s)
    \/ GetQueuedCompletionStatus
    \/ Peer

SocketsSpec == SocketsInit /\ [][SocketsNext]_sockVars

-----------------------------------------------------------------------------
(* Properties.                                                             *)

SocketsTypeOK ==
    /\ fds \in [Slots -> HostFds \cup {Unused}]
    /\ connect_reported \subseteq Slots
    /\ s_iocp_bindings \in Seq([sock_handle : Sockets, comp_key : Keys])
    /\ Len(s_iocp_bindings) <= WG_MAX_IOCP_SOCK
    /\ host \in [HostFds -> HostSocket]
    /\ iocp \in Seq(Completion) /\ Len(iocp) <= PortCapacity
    /\ owed \subseteq Operation
    /\ reports \in [Slots -> Nat]

\* The descriptors that are open are exactly those in the table, each in one slot:
\* none leaks when the table is full, and no SOCKET reaches a descriptor that was
\* closed and may be somebody else's by now (alloc_socket, free_socket).
DescriptorsOwned ==
    /\ \A fd \in HostFds : host[fd].phase # "closed" <=> \E s \in Slots : fds[s] = fd
    /\ \A s, t \in Slots : fds[s] = fds[t] /\ s # t => fds[s] = Unused

\* An operation the guest was told is pending is in the ring exactly once, unless
\* the ring was full; and what is in the ring is an operation the guest waits for,
\* with its byte count if it asked for one and a key its socket was bound to
\* (the dispatch of ConnectEx, WSASend and WSARecv, iocp_post, iocp_comp_key).
OverlappedOnce ==
    /\ \A o \in owed : o.fits =>
         Cardinality({i \in DOMAIN iocp : iocp[i].overlapped = o.overlapped}) = 1
    /\ \A i \in DOMAIN iocp : \E o \in owed :
         /\ o.overlapped = iocp[i].overlapped
         /\ o.counted => iocp[i].bytes = o.bytes
         /\ iocp[i].key \in IF o.keys = {} THEN {0} ELSE o.keys

\* No socket is told twice that it is connected (WSAEnumNetworkEvents; a connected
\* socket stays writable).  A socket in a slot whose last socket was told is never
\* told: alloc_socket does not clear connect_reported.
ConnectReportedOnce == \A s \in Slots : reports[s] <= 1

\* What the guest is told of a socket it is told once: by the completion port (the
\* dispatch of ConnectEx, WSASend and WSARecv) and by WSAEnumNetworkEvents.
ToldOnce == OverlappedOnce /\ ConnectReportedOnce

=============================================================================
