-------------------------- MODULE WGNetworkProofs --------------------------
(***************************************************************************)
(* Proofs about the network services, for tables of every size: which      *)
(* descriptors WGSockets keeps open and which completions its ring holds,  *)
(* the order of what goes through the TLS sessions of WGOpenSSL, the       *)
(* bodies and connections of WGHttp, the records of WGSchannel, the        *)
(* text WinHTTP takes apart (WGHttpText) and the lists of addresses that   *)
(* WGAddresses leaves in guest memory.                                     *)
(***************************************************************************)
EXTENDS WGSockets, WGAddresses, WGOpenSSL, WGHttp, WGHttpText, WGSchannel,
        SequenceTheorems, FiniteSetTheorems, WellFoundedInduction, TLAPS

-----------------------------------------------------------------------------
(* Sockets: the table and the host's descriptors.                          *)

\* A slot told of its connection is in connect_reported for good.
ToldIsKept == \A s \in Slots : reports[s] = 0 \/ (reports[s] = 1 /\ s \in connect_reported)

TableInv ==
    /\ fds \in [Slots -> HostFds \cup {Unused}]
    /\ host \in [HostFds -> HostSocket]
    /\ reports \in [Slots -> Nat]
    /\ connect_reported \subseteq Slots
    /\ DescriptorsOwned
    /\ ToldIsKept

LEMMA UnusedIsNone == Unused \notin HostFds
  BY SocketsAssumption DEF Unused

\* A SOCKET in the table stands for a descriptor of the host that is open.
LEMMA LookupFd ==
    ASSUME TableInv, NEW s \in Sockets, lookup_fd(s) # Unused
    PROVE  /\ s \in Slots /\ lookup_fd(s) = fds[s] /\ fds[s] \in HostFds
           /\ host[fds[s]].phase # "closed"
<1>1. s \in Slots /\ lookup_fd(s) = fds[s]  BY DEF lookup_fd
<1>2. fds[s] \in HostFds  BY <1>1 DEF TableInv
<1> QED BY <1>1, <1>2 DEF TableInv, DescriptorsOwned

\* A step that neither opens nor closes a descriptor.
LEMMA SameDescriptors ==
    ASSUME TableInv, UNCHANGED <<fds, reports, connect_reported>>,
           host' \in [HostFds -> HostSocket],
           \A fd \in HostFds : host'[fd].phase = "closed" <=> host[fd].phase = "closed"
    PROVE  TableInv'
  BY DEF TableInv, DescriptorsOwned, ToldIsKept

\* Changing one open descriptor to another open one.
LEMMA Changed ==
    ASSUME TableInv, UNCHANGED <<fds, reports, connect_reported>>,
           NEW fd \in HostFds, host[fd].phase # "closed",
           NEW h \in HostSocket, h.phase # "closed", host' = [host EXCEPT ![fd] = h]
    PROVE  TableInv'
<1>1. host' \in [HostFds -> HostSocket]  BY DEF TableInv
<1>2. \A e \in HostFds : host'[e].phase = "closed" <=> host[e].phase = "closed"
  BY DEF TableInv
<1> QED BY <1>1, <1>2, SameDescriptors

-----------------------------------------------------------------------------
LEMMA SocketStep ==
    ASSUME TableInv, socket
    PROVE  TableInv'
<1> USE DEF TableInv
<1>1. CASE UNCHANGED <<fds, reports, host>>
  BY <1>1, SameDescriptors DEF socket
<1>2. ASSUME NEW fd \in HostFds, host[fd] = Closed, NEW i \in Slots, fds[i] = Unused,
             fds' = [fds EXCEPT ![i] = fd], reports' = [reports EXCEPT ![i] = 0],
             host' = [host EXCEPT ![fd].phase = "new"]
      PROVE  TableInv'
  <2>1. host[fd].phase = "closed"  BY <1>2 DEF Closed
  <2>2. \A s \in Slots : fds[s] # fd  BY <1>2, <2>1 DEF DescriptorsOwned
  <2>3. fd # Unused  BY UnusedIsNone
  <2>4. host' \in [HostFds -> HostSocket]
    BY <1>2 DEF HostSocket, Phases
  <2>5. /\ host'[fd].phase = "new"
        /\ \A e \in HostFds : e # fd => host'[e] = host[e]
    BY <1>2 DEF HostSocket
  <2>6. \A s \in Slots : fds'[s] = IF s = i THEN fd ELSE fds[s]  BY <1>2
  <2>7. DescriptorsOwned'
    <3>1. \A e \in HostFds : host'[e].phase # "closed" <=> \E s \in Slots : fds'[s] = e
      <4> SUFFICES ASSUME NEW e \in HostFds
                   PROVE  host'[e].phase # "closed" <=> \E s \in Slots : fds'[s] = e
        OBVIOUS
      <4>1. CASE e = fd  BY <4>1, <2>5, <2>6
      <4>2. CASE e # fd
        <5>1. e # Unused  BY UnusedIsNone
        <5> QED BY <4>2, <5>1, <2>5, <2>6, <1>2 DEF DescriptorsOwned
      <4> QED BY <4>1, <4>2
    <3>2. \A s, t \in Slots : fds'[s] = fds'[t] /\ s # t => fds'[s] = Unused
      BY <2>2, <2>6 DEF DescriptorsOwned
    <3> QED BY <3>1, <3>2 DEF DescriptorsOwned
  <2>8. UNCHANGED connect_reported  BY DEF socket
  <2>9. ToldIsKept'  BY <1>2, <2>8 DEF ToldIsKept
  <2>10. fds' \in [Slots -> HostFds \cup {Unused}] /\ reports' \in [Slots -> Nat]
    BY <1>2
  <2> QED BY <2>4, <2>7, <2>8, <2>9, <2>10
<1>3. CASE ~ UNCHANGED <<fds, reports, host>>
  <2>1. PICK fd \in HostFds : host[fd] = Closed /\ alloc_socket(fd)
    BY <1>3, Zenon DEF socket
  <2>2. \E i \in Slots : fds[i] = Unused  BY <1>3, <2>1 DEF alloc_socket
  <2>3. PICK i \in Slots : /\ fds[i] = Unused
                           /\ fds' = [fds EXCEPT ![i] = fd]
                           /\ reports' = [reports EXCEPT ![i] = 0]
                           /\ host' = [host EXCEPT ![fd].phase = "new"]
    BY <2>1, <2>2, Zenon DEF alloc_socket, IsFirstHole
  <2> QED BY <1>2, <2>1, <2>3
<1> QED BY <1>1, <1>3

LEMMA CloseStep ==
    ASSUME TableInv, NEW s \in Sockets, closesocket(s)
    PROVE  TableInv'
<1>1. CASE lookup_fd(s) = Unused
  BY <1>1, SameDescriptors DEF closesocket, free_socket, TableInv
<1>2. CASE lookup_fd(s) # Unused
  <2>1. /\ s \in Slots /\ fds[s] \in HostFds
        /\ host' = [host EXCEPT ![fds[s]] = Closed] /\ fds' = [fds EXCEPT ![s] = Unused]
        /\ UNCHANGED <<reports, connect_reported>>
    BY <1>2, LookupFd DEF closesocket, free_socket
  <2>2. Closed \in HostSocket  BY SocketsAssumption DEF Closed, HostSocket, Phases
  <2>3. \A t \in Slots : fds'[t] = IF t = s THEN Unused ELSE fds[t]  BY <2>1 DEF TableInv
  <2>4. \A e \in HostFds : host'[e] = IF e = fds[s] THEN Closed ELSE host[e]
    BY <2>1 DEF TableInv
  <2>5. DescriptorsOwned'
    <3>1. \A e \in HostFds : host'[e].phase # "closed" <=> \E t \in Slots : fds'[t] = e
      <4> SUFFICES ASSUME NEW e \in HostFds
                   PROVE  host'[e].phase # "closed" <=> \E t \in Slots : fds'[t] = e
        OBVIOUS
      <4>0. e # Unused  BY UnusedIsNone
      <4>1. CASE e = fds[s]
        <5>1. \A t \in Slots : fds'[t] # e
          BY <4>0, <4>1, <2>1, <2>3 DEF TableInv, DescriptorsOwned
        <5> QED BY <4>1, <5>1, <2>4 DEF Closed
      <4>2. CASE e # fds[s]
        BY <4>0, <4>2, <2>3, <2>4 DEF TableInv, DescriptorsOwned
      <4> QED BY <4>1, <4>2
    <3>2. \A t, u \in Slots : fds'[t] = fds'[u] /\ t # u => fds'[t] = Unused
      BY <2>3 DEF TableInv, DescriptorsOwned
    <3> QED BY <3>1, <3>2 DEF DescriptorsOwned
  <2> QED BY <2>1, <2>2, <2>5 DEF TableInv, ToldIsKept
<1> QED BY <1>1, <1>2

-----------------------------------------------------------------------------
(* Calls that change one open socket of the host. *)

\* A new phase, where the old one and the new are not "closed".
LEMMA NewPhase ==
    ASSUME TableInv, UNCHANGED <<fds, reports, connect_reported>>,
           NEW fd \in HostFds, host[fd].phase # "closed",
           NEW p \in Phases, p # "closed", host' = [host EXCEPT ![fd].phase = p]
    PROVE  TableInv'
<1> DEFINE h == [host[fd] EXCEPT !.phase = p]
<1>1. host[fd] \in HostSocket  BY DEF TableInv
<1>2. h \in HostSocket /\ h.phase = p  BY <1>1 DEF HostSocket
<1>3. host' = [host EXCEPT ![fd] = h]  OBVIOUS
<1> HIDE DEF h
<1> QED BY <1>2, <1>3, Changed

LEMMA OutcomesOpen ==
    ASSUME NEW fd, NEW waits, NEW o \in Outcomes(fd, waits)
    PROVE  /\ o \in Phases /\ o # "closed" /\ After(o) \in Phases /\ After(o) # "closed"
           /\ host[fd].phase \in {"new", "failed", "connecting"}
<1> DEFINE q == host[fd].phase
<1>1. CASE q \in {"new", "failed"}  BY <1>1 DEF Outcomes, Phases, After
<1>2. CASE q = "connecting"         BY <1>2 DEF Outcomes, Phases, After
<1>3. CASE q \notin {"new", "failed", "connecting"}  BY <1>3 DEF Outcomes
<1> QED BY <1>1, <1>2, <1>3

LEMMA AfterOpen ==
    ASSUME NEW p \in Phases, p # "closed"
    PROVE  After(p) \in Phases /\ After(p) # "closed"
  BY DEF After, Phases

LEMMA ConnectStep ==
    ASSUME TableInv, NEW s \in Sockets, connect(s)
    PROVE  TableInv'
<1>1. lookup_fd(s) # Unused  BY DEF connect
<1>2. fds[s] \in HostFds /\ lookup_fd(s) = fds[s] /\ host[fds[s]].phase # "closed"
  BY <1>1, LookupFd
<1>3. PICK o \in Outcomes(fds[s], host[fds[s]].nonblock) \cup {host[fds[s]].phase} :
        /\ o \in Outcomes(fds[s], host[fds[s]].nonblock) \/ o = "connected"
        /\ host' = [host EXCEPT ![fds[s]].phase = After(o)]
  BY <1>2 DEF connect
<1>4. After(o) \in Phases /\ After(o) # "closed"
  <2>1. CASE o \in Outcomes(fds[s], host[fds[s]].nonblock)  BY <2>1, OutcomesOpen
  <2>2. CASE o = "connected"  BY <2>2 DEF After, Phases
  <2> QED BY <2>1, <2>2, <1>3
<1>5. UNCHANGED <<fds, reports, connect_reported>>  BY DEF connect
<1> QED BY <1>2, <1>3, <1>4, <1>5, NewPhase

LEMMA GetsockoptStep ==
    ASSUME TableInv, NEW s \in Sockets, getsockopt(s)
    PROVE  TableInv'
<1>1. lookup_fd(s) # Unused  BY DEF getsockopt
<1>2. fds[s] \in HostFds /\ lookup_fd(s) = fds[s] /\ host[fds[s]].phase # "closed"
  BY <1>1, LookupFd
<1>3. host[fds[s]].phase \in Phases  BY <1>2 DEF TableInv, HostSocket
<1>4. host' = [host EXCEPT ![fds[s]].phase = After(host[fds[s]].phase)]
  BY <1>2 DEF getsockopt
<1>5. UNCHANGED <<fds, reports, connect_reported>>  BY DEF getsockopt
<1> QED BY <1>2, <1>3, <1>4, <1>5, AfterOpen, NewPhase

LEMMA ModeStep ==
    ASSUME TableInv, NEW s \in Sockets, NEW b \in BOOLEAN, ioctlsocket(s, b)
    PROVE  TableInv'
<1>1. lookup_fd(s) # Unused  BY DEF ioctlsocket
<1>2. fds[s] \in HostFds /\ lookup_fd(s) = fds[s] /\ host[fds[s]].phase # "closed"
  BY <1>1, LookupFd
<1> DEFINE h == [host[fds[s]] EXCEPT !.nonblock = b]
<1>3. host[fds[s]] \in HostSocket  BY <1>2 DEF TableInv
<1>4. h \in HostSocket /\ h.phase # "closed"  BY <1>2, <1>3 DEF HostSocket
<1>5. host' = [host EXCEPT ![fds[s]] = h] /\ UNCHANGED <<fds, reports, connect_reported>>
  BY <1>2 DEF ioctlsocket
<1> HIDE DEF h
<1> QED BY <1>2, <1>4, <1>5, Changed

LEMMA ShutdownStep ==
    ASSUME TableInv, NEW s \in Sockets, shutdown(s)
    PROVE  TableInv'
<1>1. lookup_fd(s) # Unused  BY DEF shutdown
<1>2. fds[s] \in HostFds /\ lookup_fd(s) = fds[s] /\ host[fds[s]].phase # "closed"
  BY <1>1, LookupFd
<1> DEFINE h == [host[fds[s]] EXCEPT !.hup = @ \/ host[fds[s]].phase = "connected"]
<1>3. host[fds[s]] \in HostSocket  BY <1>2 DEF TableInv
<1>4. h \in HostSocket /\ h.phase # "closed"  BY <1>2, <1>3 DEF HostSocket
<1>5. host' = [host EXCEPT ![fds[s]] = h] /\ UNCHANGED <<fds, reports, connect_reported>>
  BY <1>2 DEF shutdown
<1> HIDE DEF h
<1> QED BY <1>2, <1>4, <1>5, Changed

\* A count that recv returns takes no more than was there.
LEMMA Taken ==
    ASSUME TableInv, NEW fd \in HostFds, host[fd].phase # "closed",
           NEW n \in 0 .. MaxInbox, NEW got \in Received(fd, n), got # SOCKET_ERROR,
           host' = [host EXCEPT ![fd].inbox = @ - got], UNCHANGED <<fds, reports, connect_reported>>
    PROVE  TableInv'
<1> DEFINE h == [host[fd] EXCEPT !.inbox = @ - got]
<1>1. host[fd] \in HostSocket /\ host[fd].inbox \in 0 .. MaxInbox
  BY DEF TableInv, HostSocket
<1>2. got \in Int /\ 0 <= got /\ got <= host[fd].inbox
  <2>1. CASE host[fd].phase # "connected"  BY <2>1 DEF Received
  <2>2. CASE host[fd].phase = "connected" /\ host[fd].inbox > 0
    BY <2>2, <1>1 DEF Received
  <2>3. CASE host[fd].phase = "connected" /\ ~ host[fd].inbox > 0
    BY <2>3, <1>1 DEF Received, SOCKET_ERROR
  <2> QED BY <2>1, <2>2, <2>3
<1>3. host[fd].inbox - got \in 0 .. MaxInbox  BY <1>1, <1>2, SocketsAssumption
<1>4. h \in HostSocket /\ h.phase # "closed"  BY <1>1, <1>3 DEF HostSocket
<1>5. host' = [host EXCEPT ![fd] = h]  OBVIOUS
<1> HIDE DEF h
<1> QED BY <1>4, <1>5, Changed

LEMMA RecvStep ==
    ASSUME TableInv, NEW s \in Sockets, NEW n \in 0 .. MaxInbox, recv(s, n)
    PROVE  TableInv'
<1>1. lookup_fd(s) # Unused  BY DEF recv
<1>2. fds[s] \in HostFds /\ lookup_fd(s) = fds[s] /\ host[fds[s]].phase # "closed"
  BY <1>1, LookupFd
<1>3. UNCHANGED <<fds, reports, connect_reported>>  BY DEF recv
<1>4. PICK got \in Received(fds[s], n) :
        host' = IF got = SOCKET_ERROR THEN host ELSE [host EXCEPT ![fds[s]].inbox = @ - got]
  BY <1>2 DEF recv
<1>5. CASE got = SOCKET_ERROR   BY <1>3, <1>4, <1>5, SameDescriptors DEF TableInv
<1>6. CASE got # SOCKET_ERROR   BY <1>2, <1>3, <1>4, <1>6, Taken
<1> QED BY <1>5, <1>6

LEMMA RecvOverlappedStep ==
    ASSUME TableInv, NEW s \in Sockets, NEW n \in 0 .. MaxInbox, NEW counted, NEW ovl,
           WSARecv(s, n, counted, ovl)
    PROVE  TableInv'
<1>1. lookup_fd(s) # Unused  BY DEF WSARecv
<1>2. fds[s] \in HostFds /\ lookup_fd(s) = fds[s] /\ host[fds[s]].phase # "closed"
  BY <1>1, LookupFd
<1>3. UNCHANGED <<fds, reports, connect_reported>>  BY DEF WSARecv
<1>4. PICK got \in Received(fds[s], n) :
        IF got = SOCKET_ERROR THEN UNCHANGED host
        ELSE host' = [host EXCEPT ![fds[s]].inbox = @ - got]
  BY <1>2 DEF WSARecv
<1>5. CASE got = SOCKET_ERROR   BY <1>3, <1>4, <1>5, SameDescriptors DEF TableInv
<1>6. CASE got # SOCKET_ERROR   BY <1>2, <1>3, <1>4, <1>6, Taken
<1> QED BY <1>5, <1>6

LEMMA ConnectOverlappedStep ==
    ASSUME TableInv, NEW s \in Sockets, NEW ovl, ConnectEx(s, ovl)
    PROVE  TableInv'
<1>1. lookup_fd(s) # Unused  BY DEF ConnectEx
<1>2. fds[s] \in HostFds /\ lookup_fd(s) = fds[s] /\ host[fds[s]].phase # "closed"
  BY <1>1, LookupFd
<1>3. UNCHANGED <<fds, reports, connect_reported>>  BY DEF ConnectEx
<1>0. host[fds[s]] \in HostSocket  BY <1>2 DEF TableInv
<1>4. ASSUME NEW o \in Outcomes(fds[s], TRUE),
             host' = [host EXCEPT ![fds[s]].phase = After(o),
                                  ![fds[s]].nonblock = (o # "connected")]
      PROVE  TableInv'
  <2>1. After(o) \in Phases /\ After(o) # "closed"  BY OutcomesOpen
  <2> DEFINE h == [[host[fds[s]] EXCEPT !.phase = After(o)] EXCEPT !.nonblock = (o # "connected")]
  <2>2. h \in HostSocket /\ h.phase # "closed"  BY <1>0, <2>1 DEF HostSocket
  <2>3. host' = [host EXCEPT ![fds[s]] = h]  BY <1>2, <1>4 DEF TableInv
  <2> HIDE DEF h
  <2> QED BY <1>2, <1>3, <2>2, <2>3, Changed
<1>5. CASE host' = [host EXCEPT ![fds[s]].nonblock = FALSE]
  <2> DEFINE h == [host[fds[s]] EXCEPT !.nonblock = FALSE]
  <2>1. h \in HostSocket /\ h.phase # "closed"  BY <1>0, <1>2 DEF HostSocket
  <2>2. host' = [host EXCEPT ![fds[s]] = h]  BY <1>5
  <2> HIDE DEF h
  <2> QED BY <1>2, <1>3, <2>1, <2>2, Changed
<1> QED BY <1>2, <1>4, <1>5 DEF ConnectEx

LEMMA EventsStep ==
    ASSUME TableInv, NEW s \in Sockets, WSAEnumNetworkEvents(s)
    PROVE  TableInv'
<1>1. lookup_fd(s) # Unused  BY DEF WSAEnumNetworkEvents
<1>2. /\ fds[s] \in HostFds /\ lookup_fd(s) = fds[s] /\ host[fds[s]].phase # "closed"
      /\ s \in Slots
  BY <1>1, LookupFd
<1> DEFINE connects == Writable(fds[s]) /\ s \notin connect_reported
<1>3. /\ UNCHANGED fds
      /\ connect_reported' = IF connects THEN connect_reported \cup {s} ELSE connect_reported
      /\ reports' = [reports EXCEPT ![s] = IF connects THEN @ + 1 ELSE @]
      /\ host' = [host EXCEPT ![fds[s]].phase = IF connects THEN After(@) ELSE @]
  BY <1>2 DEF WSAEnumNetworkEvents
<1> HIDE DEF connects
<1>4. host[fds[s]] \in HostSocket /\ host[fds[s]].phase \in Phases
  BY <1>2 DEF TableInv, HostSocket
<1> DEFINE p == IF connects THEN After(host[fds[s]].phase) ELSE host[fds[s]].phase
           h == [host[fds[s]] EXCEPT !.phase = p]
<1>5. p \in Phases /\ p # "closed"  BY <1>2, <1>4, AfterOpen
<1>6. host' = [host EXCEPT ![fds[s]] = h]  BY <1>3
<1> HIDE DEF p
<1>7. h \in HostSocket /\ h.phase # "closed"  BY <1>4, <1>5 DEF HostSocket
<1> HIDE DEF h
<1>8. host' \in [HostFds -> HostSocket]  BY <1>6, <1>7 DEF TableInv
<1>9. \A e \in HostFds : host'[e].phase = "closed" <=> host[e].phase = "closed"
  BY <1>2, <1>6, <1>7 DEF TableInv
<1>10. DescriptorsOwned'  BY <1>3, <1>9 DEF TableInv, DescriptorsOwned
<1>11. reports' \in [Slots -> Nat]
  <2>1. CASE connects
    <3>1. reports' = [reports EXCEPT ![s] = @ + 1]  BY <1>3, <2>1
    <3>2. reports[s] + 1 \in Nat  BY <1>2 DEF TableInv
    <3> QED BY <3>1, <3>2 DEF TableInv
  <2>2. CASE ~ connects  BY <1>3, <2>2 DEF TableInv
  <2> QED BY <2>1, <2>2
<1>12. ToldIsKept'
  <2>1. \A t \in Slots : reports'[t] = IF t = s /\ connects THEN reports[t] + 1 ELSE reports[t]
    BY <1>2, <1>3 DEF TableInv
  <2>2. connects => s \notin connect_reported /\ reports[s] = 0
    BY <1>2 DEF connects, TableInv, ToldIsKept
  <2> QED BY <1>3, <2>1, <2>2 DEF TableInv, ToldIsKept
<1> QED BY <1>2, <1>3, <1>8, <1>10, <1>11, <1>12 DEF TableInv

LEMMA PeerStep ==
    ASSUME TableInv, Peer
    PROVE  TableInv'
<1>1. UNCHANGED <<fds, reports, connect_reported>>  BY DEF Peer
<1>2. ASSUME NEW fd \in HostFds, NEW q \in {"connected", "failed"}, ConnectionEnds(fd, q)
      PROVE  TableInv'
  BY <1>1, <1>2, NewPhase DEF ConnectionEnds, Phases
<1>3. ASSUME NEW fd \in HostFds, DataArrives(fd) PROVE TableInv'
  <2> DEFINE h == [host[fd] EXCEPT !.inbox = @ + 1]
  <2>1. host[fd] \in HostSocket /\ host[fd].inbox \in 0 .. MaxInbox  BY DEF TableInv, HostSocket
  <2>2. host[fd].inbox + 1 \in 0 .. MaxInbox
    BY <1>3, <2>1, SocketsAssumption DEF DataArrives
  <2>3. h \in HostSocket /\ h.phase # "closed"  BY <1>3, <2>1, <2>2 DEF HostSocket, DataArrives
  <2>4. host' = [host EXCEPT ![fd] = h] /\ host[fd].phase # "closed"  BY <1>3 DEF DataArrives
  <2> HIDE DEF h
  <2> QED BY <1>1, <2>3, <2>4, Changed
<1>4. ASSUME NEW fd \in HostFds, PeerCloses(fd) PROVE TableInv'
  <2> DEFINE h == [host[fd] EXCEPT !.hup = TRUE]
  <2>1. host[fd] \in HostSocket  BY DEF TableInv
  <2>2. h \in HostSocket /\ h.phase # "closed"  BY <1>4, <2>1 DEF HostSocket, PeerCloses
  <2>3. host' = [host EXCEPT ![fd] = h] /\ host[fd].phase # "closed"  BY <1>4 DEF PeerCloses
  <2> HIDE DEF h
  <2> QED BY <1>1, <2>2, <2>3, Changed
<1> QED BY <1>2, <1>3, <1>4 DEF Peer

LEMMA TableUntouched ==
    ASSUME TableInv, UNCHANGED tableVars
    PROVE  TableInv'
  BY DEF TableInv, tableVars, DescriptorsOwned, ToldIsKept

LEMMA CallStep ==
    ASSUME TableInv, NEW s \in Sockets, SocketCall(s)
    PROVE  TableInv'
<1>0. \A n \in Counts : n \in 0 .. MaxInbox  BY SocketsAssumption DEF Counts
<1>1. CASE NotASocket(s)              BY <1>1, TableUntouched DEF NotASocket
<1>2. CASE closesocket(s)             BY <1>2, CloseStep
<1>3. CASE connect(s)                 BY <1>3, ConnectStep
<1>4. ASSUME NEW n \in Counts, send(s, n) \/ recv(s, n) PROVE TableInv'
  BY <1>0, <1>4, TableUntouched, RecvStep DEF send
<1>5. ASSUME NEW b \in BOOLEAN, ioctlsocket(s, b) PROVE TableInv'
  BY <1>5, ModeStep
<1>6. CASE WSAEventSelect(s)          BY <1>6, ModeStep DEF WSAEventSelect
<1>7. CASE shutdown(s)                BY <1>7, ShutdownStep
<1>8. CASE getsockopt(s)              BY <1>8, GetsockoptStep
<1>9. CASE WSAEnumNetworkEvents(s)    BY <1>9, EventsStep
<1>10. ASSUME NEW k \in Keys, CreateIoCompletionPort(s, k) PROVE TableInv'
  BY <1>10, TableUntouched DEF CreateIoCompletionPort
<1>11. ASSUME NEW ovl \in Overlappeds, ConnectEx(s, ovl) PROVE TableInv'
  BY <1>11, ConnectOverlappedStep
<1>12. ASSUME NEW ovl \in Overlappeds, NEW counted \in BOOLEAN, NEW n \in 0 .. MaxInbox,
              WSASend(s, n, counted, ovl) \/ WSARecv(s, n, counted, ovl)
       PROVE  TableInv'
  <2>1. CASE WSASend(s, n, counted, ovl)
    <3>1. UNCHANGED tableVars  BY <2>1 DEF WSASend
    <3> QED BY <3>1, TableUntouched
  <2>2. CASE WSARecv(s, n, counted, ovl)  BY <2>2, RecvOverlappedStep
  <2> QED BY <1>12, <2>1, <2>2
<1> QED
  BY <1>1, <1>2, <1>3, <1>4, <1>5, <1>6, <1>7, <1>8, <1>9, <1>10, <1>11, <1>12 DEF SocketCall

LEMMA TableStep == TableInv /\ [SocketsNext]_sockVars => TableInv'
<1> SUFFICES ASSUME TableInv, [SocketsNext]_sockVars PROVE TableInv'  OBVIOUS
<1>1. CASE GetQueuedCompletionStatus
  BY <1>1, TableUntouched DEF GetQueuedCompletionStatus
<1>2. CASE UNCHANGED sockVars
  BY <1>2, TableUntouched DEF sockVars
<1> QED BY <1>1, <1>2, SocketStep, CallStep, PeerStep DEF SocketsNext

LEMMA TableInit == SocketsInit => TableInv
<1> SUFFICES ASSUME SocketsInit PROVE TableInv  OBVIOUS
<1>1. Closed \in HostSocket  BY SocketsAssumption DEF Closed, HostSocket, Phases
<1>2. DescriptorsOwned
  BY UnusedIsNone DEF SocketsInit, DescriptorsOwned, Closed
<1> QED BY <1>1, <1>2 DEF SocketsInit, TableInv, ToldIsKept

THEOREM TableInvariant == SocketsSpec => []TableInv
  BY TableInit, TableStep, PTL DEF SocketsSpec

\* alloc_socket, free_socket: for tables of every size and any number of descriptors
\* of the host, what is open is in the table, once.
THEOREM DescriptorsAlwaysOwned == SocketsSpec => []DescriptorsOwned
<1>1. TableInv => DescriptorsOwned  BY DEF TableInv
<1> QED BY <1>1, TableInvariant, PTL

\* WSAEnumNetworkEvents: no socket is told of its connection twice.
THEOREM ConnectToldOnce == SocketsSpec => []ConnectReportedOnce
<1>1. TableInv => ConnectReportedOnce
  BY DEF TableInv, ToldIsKept, ConnectReportedOnce
<1> QED BY <1>1, TableInvariant, PTL

-----------------------------------------------------------------------------
(* Sockets: the completion port.                                           *)

\* The completion c is that of the operation o.
Pays(c, o) ==
    /\ o.overlapped = c.overlapped
    /\ o.counted => c.bytes = o.bytes
    /\ c.key \in IF o.keys = {} THEN {0} ELSE o.keys

\* The ring q against the operations O the guest waits for.
RingRight(q, O) ==
    /\ q \in Seq(Completion) /\ Len(q) <= PortCapacity
    /\ O \subseteq Operation
    /\ \A o, p \in O : o.overlapped = p.overlapped => o = p
    /\ \A i, j \in 1 .. Len(q) : q[i].overlapped = q[j].overlapped => i = j
    /\ \A o \in O : o.fits => \E i \in 1 .. Len(q) : q[i].overlapped = o.overlapped
    /\ \A i \in 1 .. Len(q) : \E o \in O : Pays(q[i], o)

PortInv ==
    /\ s_iocp_bindings \in Seq([sock_handle : Sockets, comp_key : Keys])
    /\ Len(s_iocp_bindings) <= WG_MAX_IOCP_SOCK
    /\ RingRight(iocp, owed)

\* iocp_comp_key: the key of a socket is one it was bound to, if there is one.
LEMMA KeyOfSocket ==
    ASSUME PortInv, NEW s
    PROVE  /\ BoundKeys(s) \subseteq Keys
           /\ iocp_comp_key(s) \in IF BoundKeys(s) = {} THEN {0} ELSE BoundKeys(s)
<1> DEFINE own == BoundAt(s)
<1>1. \A i \in own : i \in Nat /\ s_iocp_bindings[i].comp_key \in Keys
  <2>1. /\ DOMAIN s_iocp_bindings = 1 .. Len(s_iocp_bindings)
        /\ Len(s_iocp_bindings) \in Nat
        /\ \A i \in 1 .. Len(s_iocp_bindings) :
             s_iocp_bindings[i] \in [sock_handle : Sockets, comp_key : Keys]
    BY LenProperties, ElementOfSeq DEF PortInv
  <2> QED BY <2>1 DEF BoundAt
<1>2. ASSUME own # {} PROVE Min(own) \in own
  <2>1. PICK m \in own : \A i \in own : ~ (<<i, m>> \in OpToRel(<, Nat))
    <3>1. own \subseteq Nat  BY <1>1
    <3> HIDE DEF own
    <3> QED BY <1>2, <3>1, NatLessThanWellFounded, WFMin
  <2>2. \A i \in own : m <= i
    <3> SUFFICES ASSUME NEW i \in own PROVE m <= i  OBVIOUS
    <3>1. i \in Nat /\ m \in Nat  BY <1>1
    <3>2. ~ (i < m)  BY <2>1, <3>1 DEF OpToRel
    <3> QED BY <3>1, <3>2
  <2> HIDE DEF own
  <2> QED BY <2>1, <2>2 DEF Min
<1> QED BY <1>1, <1>2 DEF BoundKeys, iocp_comp_key

\* An overlapped call that is over leaves its completion in the ring, if there is room.
LEMMA CompleteStep ==
    ASSUME PortInv, NEW s, NEW moved \in 0 .. MaxInbox, NEW counted \in BOOLEAN,
           NEW ovl \in Overlappeds, Idle(ovl), Complete(s, moved, counted, ovl)
    PROVE  PortInv'
<1> DEFINE o == [overlapped |-> ovl, bytes |-> moved, keys |-> BoundKeys(s),
                 counted |-> counted, fits |-> Len(iocp) < PortCapacity]
           c == [bytes |-> IF counted THEN moved ELSE 0,
                 key |-> iocp_comp_key(s), overlapped |-> ovl]
<1>1. BoundKeys(s) \subseteq Keys
      /\ iocp_comp_key(s) \in IF BoundKeys(s) = {} THEN {0} ELSE BoundKeys(s)
  BY KeyOfSocket
<1>2. o \in Operation /\ o.overlapped = ovl /\ o.fits = (Len(iocp) < PortCapacity)
  BY <1>1 DEF Operation
<1>3. c \in Completion /\ c.overlapped = ovl
  BY <1>1, SocketsAssumption DEF Completion
<1>4. Pays(c, o)  BY <1>1 DEF Pays
<1>5. /\ owed' = owed \cup {o} /\ UNCHANGED s_iocp_bindings
      /\ iocp' = IF Len(iocp) < PortCapacity THEN Append(iocp, c) ELSE iocp
  BY DEF Complete, Owe
<1> HIDE DEF o, c
<1>6. /\ iocp \in Seq(Completion) /\ Len(iocp) \in Nat /\ Len(iocp) <= PortCapacity
      /\ owed \subseteq Operation
      /\ \A p \in owed : p.overlapped # ovl
      /\ \A i \in 1 .. Len(iocp) : iocp[i].overlapped # ovl
  BY LenProperties DEF PortInv, RingRight, Idle, Pays
<1>7. \A p, q \in owed' : p.overlapped = q.overlapped => p = q
  BY <1>2, <1>5, <1>6 DEF PortInv, RingRight
<1>8. CASE Len(iocp) < PortCapacity
  <2>1. /\ iocp' \in Seq(Completion) /\ Len(iocp') = Len(iocp) + 1
        /\ \A i \in 1 .. Len(iocp) : iocp'[i] = iocp[i]
        /\ iocp'[Len(iocp) + 1] = c
    BY <1>3, <1>5, <1>6, <1>8, AppendProperties
  <2>2. Len(iocp') <= PortCapacity
    BY <1>6, <1>8, <2>1, SocketsAssumption
  <2>3. \A i \in 1 .. Len(iocp') : i \in 1 .. Len(iocp) \/ i = Len(iocp) + 1
    BY <1>6, <2>1
  <2>4. \A i, j \in 1 .. Len(iocp') : iocp'[i].overlapped = iocp'[j].overlapped => i = j
    BY <1>3, <1>6, <2>1, <2>3 DEF PortInv, RingRight
  <2>5. \A p \in owed' : p.fits => \E i \in 1 .. Len(iocp') : iocp'[i].overlapped = p.overlapped
    <3>1. /\ Len(iocp) + 1 \in 1 .. Len(iocp')
          /\ \A i \in 1 .. Len(iocp) : i \in 1 .. Len(iocp')
      BY <1>6, <2>1
    <3> SUFFICES ASSUME NEW p \in owed', p.fits
                 PROVE  \E i \in 1 .. Len(iocp') : iocp'[i].overlapped = p.overlapped
      OBVIOUS
    <3>2. CASE p = o  BY <1>2, <1>3, <2>1, <3>1, <3>2
    <3>3. CASE p \in owed
      <4>1. PICK i \in 1 .. Len(iocp) : iocp[i].overlapped = p.overlapped
        BY <3>3 DEF PortInv, RingRight
      <4> QED BY <2>1, <3>1, <4>1
    <3> QED BY <1>5, <3>2, <3>3
  <2>6. \A i \in 1 .. Len(iocp') : \E p \in owed' : Pays(iocp'[i], p)
    <3> SUFFICES ASSUME NEW i \in 1 .. Len(iocp') PROVE \E p \in owed' : Pays(iocp'[i], p)
      OBVIOUS
    <3>1. CASE i = Len(iocp) + 1  BY <1>4, <1>5, <2>1, <3>1
    <3>2. CASE i \in 1 .. Len(iocp)
      <4>1. PICK p \in owed : Pays(iocp[i], p)  BY <3>2 DEF PortInv, RingRight
      <4> QED BY <1>5, <2>1, <3>2, <4>1
    <3> QED BY <2>3, <3>1, <3>2
  <2>7. RingRight(iocp', owed')
    BY <1>2, <1>5, <1>6, <1>7, <2>1, <2>2, <2>4, <2>5, <2>6 DEF RingRight
  <2> QED BY <1>5, <2>7 DEF PortInv
<1>9. CASE ~ Len(iocp) < PortCapacity
  <2>1. iocp' = iocp /\ ~ o.fits  BY <1>2, <1>5, <1>9
  <2>2. RingRight(iocp', owed')
    BY <1>2, <1>5, <1>6, <1>7, <2>1 DEF PortInv, RingRight
  <2> QED BY <1>5, <2>2 DEF PortInv
<1> QED BY <1>8, <1>9

\* The completion taken pays one operation, and every other one is still in the ring.
LEMMA TakeStep ==
    ASSUME PortInv, GetQueuedCompletionStatus
    PROVE  PortInv'
<1>1. /\ iocp # <<>> /\ iocp' = Tail(iocp) /\ UNCHANGED s_iocp_bindings
      /\ owed' = {o \in owed : o.overlapped # Head(iocp).overlapped}
  BY DEF GetQueuedCompletionStatus
<1>2. iocp \in Seq(Completion) /\ Len(iocp) \in Nat /\ Len(iocp) <= PortCapacity
  BY LenProperties DEF PortInv, RingRight
<1>3. /\ iocp' \in Seq(Completion) /\ Len(iocp') = Len(iocp) - 1
      /\ \A i \in 1 .. Len(iocp') : iocp'[i] = iocp[i + 1]
  BY <1>1, <1>2, HeadTailProperties
<1>4. Head(iocp) = iocp[1] /\ Len(iocp) >= 1
  BY <1>1, <1>2, EmptySeq
<1>5. \A i \in 1 .. Len(iocp') : i + 1 \in 1 .. Len(iocp) /\ i + 1 # 1
  BY <1>2, <1>3
<1>6. \A i, j \in 1 .. Len(iocp') : iocp'[i].overlapped = iocp'[j].overlapped => i = j
  <2> SUFFICES ASSUME NEW i \in 1 .. Len(iocp'), NEW j \in 1 .. Len(iocp'),
                      iocp'[i].overlapped = iocp'[j].overlapped
               PROVE  i = j
    OBVIOUS
  <2>1. i + 1 = j + 1  BY <1>3, <1>5 DEF PortInv, RingRight
  <2> QED BY <2>1
<1>7. 1 \in 1 .. Len(iocp)  BY <1>2, <1>4
<1>8. ASSUME NEW o \in owed', o.fits
      PROVE  \E i \in 1 .. Len(iocp') : iocp'[i].overlapped = o.overlapped
  <2>1. o \in owed /\ o.overlapped # iocp[1].overlapped  BY <1>1, <1>4
  <2>2. PICK k \in 1 .. Len(iocp) : iocp[k].overlapped = o.overlapped
    BY <1>8, <2>1 DEF PortInv, RingRight
  <2>3. k # 1  BY <2>1, <2>2
  <2>4. k - 1 \in 1 .. Len(iocp') /\ (k - 1) + 1 = k  BY <1>2, <1>3, <2>3
  <2> QED BY <1>3, <2>2, <2>4
<1>9. ASSUME NEW i \in 1 .. Len(iocp') PROVE \E o \in owed' : Pays(iocp'[i], o)
  <2>1. iocp'[i] = iocp[i + 1] /\ i + 1 \in 1 .. Len(iocp) /\ i + 1 # 1  BY <1>3, <1>5
  <2>2. PICK o \in owed : Pays(iocp[i + 1], o)  BY <2>1 DEF PortInv, RingRight
  <2>3. iocp[i + 1].overlapped # iocp[1].overlapped
    BY <1>7, <2>1 DEF PortInv, RingRight
  <2>4. o \in owed'  BY <1>1, <1>4, <2>2, <2>3 DEF Pays
  <2> QED BY <2>1, <2>2, <2>4
<1>10. Len(iocp') <= PortCapacity  BY <1>2, <1>3, SocketsAssumption
<1>11. owed' \subseteq owed  BY <1>1
<1>12. RingRight(iocp', owed')
  BY <1>3, <1>6, <1>8, <1>9, <1>10, <1>11 DEF PortInv, RingRight
<1> QED BY <1>1, <1>12 DEF PortInv

LEMMA PortUntouched ==
    ASSUME PortInv, UNCHANGED portVars
    PROVE  PortInv'
  BY DEF PortInv, portVars

\* CreateIoCompletionPort binds a socket for the operations to come.
LEMMA BindStep ==
    ASSUME PortInv, NEW s \in Sockets, NEW k \in Keys, CreateIoCompletionPort(s, k)
    PROVE  PortInv'
<1> DEFINE b == [sock_handle |-> s, comp_key |-> k]
           B == [sock_handle : Sockets, comp_key : Keys]
<1>1. b \in B  OBVIOUS
<1>2. s_iocp_bindings \in Seq(B) /\ Len(s_iocp_bindings) \in Nat
  BY LenProperties DEF PortInv
<1>3. /\ s_iocp_bindings' = IF Len(s_iocp_bindings) < WG_MAX_IOCP_SOCK
                            THEN Append(s_iocp_bindings, b) ELSE s_iocp_bindings
      /\ iocp' = iocp /\ owed' = owed
  BY DEF CreateIoCompletionPort
<1> HIDE DEF b, B
<1>4. s_iocp_bindings' \in Seq(B) /\ Len(s_iocp_bindings') <= WG_MAX_IOCP_SOCK
  <2>1. CASE Len(s_iocp_bindings) < WG_MAX_IOCP_SOCK
    <3>1. s_iocp_bindings' \in Seq(B) /\ Len(s_iocp_bindings') = Len(s_iocp_bindings) + 1
      BY <1>1, <1>2, <1>3, <2>1, AppendProperties
    <3> QED BY <1>2, <2>1, <3>1, SocketsAssumption
  <2>2. CASE ~ Len(s_iocp_bindings) < WG_MAX_IOCP_SOCK
    BY <1>2, <1>3, <2>2 DEF PortInv
  <2> QED BY <2>1, <2>2
<1> QED BY <1>3, <1>4 DEF PortInv, B

\* What the host says it moved is no more than was asked for.
LEMMA HostMoves ==
    ASSUME TableInv, NEW fd \in HostFds, NEW n \in 0 .. MaxInbox
    PROVE  /\ \A k \in Received(fd, n) : k # SOCKET_ERROR => k \in 0 .. MaxInbox
           /\ \A k \in Sent(fd, n) : k # SOCKET_ERROR => k \in 0 .. MaxInbox
<1>1. \A k \in 1 .. n : k \in 0 .. MaxInbox  BY SocketsAssumption
<1>2. 0 \in 0 .. MaxInbox  BY SocketsAssumption
<1>3. \A k \in Sent(fd, n) : k # SOCKET_ERROR => k \in 0 .. MaxInbox
  BY <1>1 DEF Sent
<1>4. host[fd].inbox \in 0 .. MaxInbox /\ host[fd].hup \in BOOLEAN
  BY DEF TableInv, HostSocket
<1>5. ASSUME NEW k \in Received(fd, n), k # SOCKET_ERROR PROVE k \in 0 .. MaxInbox
  <2>1. CASE host[fd].phase # "connected"  BY <1>1, <1>2, <1>5, <2>1 DEF Received
  <2>2. CASE host[fd].phase = "connected" /\ host[fd].inbox > 0
    BY <1>1, <1>4, <1>5, <2>2 DEF Received
  <2>3. CASE host[fd].phase = "connected" /\ ~ host[fd].inbox > 0
    BY <1>2, <1>4, <1>5, <2>3 DEF Received
  <2> QED BY <2>1, <2>2, <2>3
<1> QED BY <1>3, <1>5

LEMMA PortCallStep ==
    ASSUME TableInv, PortInv, NEW s \in Sockets, SocketCall(s)
    PROVE  PortInv'
<1>1. CASE NotASocket(s) \/ closesocket(s) \/ connect(s) \/ shutdown(s) \/ getsockopt(s)
           \/ WSAEnumNetworkEvents(s) \/ WSAEventSelect(s)
  <2>1. UNCHANGED portVars
    BY <1>1 DEF NotASocket, closesocket, connect, shutdown, getsockopt,
                WSAEnumNetworkEvents, WSAEventSelect, ioctlsocket
  <2> QED BY <2>1, PortUntouched
<1>2. ASSUME NEW n \in Counts, send(s, n) \/ recv(s, n) PROVE PortInv'
  <2>1. UNCHANGED portVars  BY <1>2 DEF send, recv
  <2> QED BY <2>1, PortUntouched
<1>3. ASSUME NEW b \in BOOLEAN, ioctlsocket(s, b) PROVE PortInv'
  <2>1. UNCHANGED portVars  BY <1>3 DEF ioctlsocket
  <2> QED BY <2>1, PortUntouched
<1>4. ASSUME NEW k \in Keys, CreateIoCompletionPort(s, k) PROVE PortInv'
  BY <1>4, BindStep
<1>5. ASSUME NEW ovl \in Overlappeds, ConnectEx(s, ovl) PROVE PortInv'
  <2>1. Idle(ovl) /\ (UNCHANGED portVars \/ Complete(s, 0, TRUE, ovl))
    BY <1>5 DEF ConnectEx
  <2>2. 0 \in 0 .. MaxInbox  BY SocketsAssumption
  <2> QED BY <2>1, <2>2, CompleteStep, PortUntouched
<1>6. ASSUME NEW ovl \in Overlappeds, NEW counted \in BOOLEAN, NEW n \in 0 .. MaxInbox,
             WSASend(s, n, counted, ovl)
      PROVE  PortInv'
  <2> DEFINE fd == lookup_fd(s)
  <2>1. PICK sent \in IF n = 0 THEN {0} ELSE Sent(fd, n) :
          IF sent = SOCKET_ERROR THEN UNCHANGED portVars ELSE Complete(s, sent, counted, ovl)
    BY <1>6 DEF WSASend
  <2>2. Idle(ovl) /\ fd # Unused  BY <1>6 DEF WSASend
  <2>3. sent # SOCKET_ERROR => sent \in 0 .. MaxInbox
    BY <2>1, <2>2, HostMoves, LookupFd, SocketsAssumption
  <2> QED BY <2>1, <2>2, <2>3, CompleteStep, PortUntouched
<1>7. ASSUME NEW ovl \in Overlappeds, NEW counted \in BOOLEAN, NEW n \in 0 .. MaxInbox,
             WSARecv(s, n, counted, ovl)
      PROVE  PortInv'
  <2> DEFINE fd == lookup_fd(s)
  <2>1. PICK got \in Received(fd, n) :
          IF got = SOCKET_ERROR THEN UNCHANGED portVars ELSE Complete(s, got, counted, ovl)
    BY <1>7 DEF WSARecv
  <2>2. Idle(ovl) /\ fd # Unused  BY <1>7 DEF WSARecv
  <2>3. got # SOCKET_ERROR => got \in 0 .. MaxInbox
    BY <2>1, <2>2, HostMoves, LookupFd
  <2> QED BY <2>1, <2>2, <2>3, CompleteStep, PortUntouched
<1> QED BY <1>1, <1>2, <1>3, <1>4, <1>5, <1>6, <1>7 DEF SocketCall

LEMMA PortStep == TableInv /\ PortInv /\ [SocketsNext]_sockVars => PortInv'
<1> SUFFICES ASSUME TableInv, PortInv, [SocketsNext]_sockVars PROVE PortInv'  OBVIOUS
<1>1. ASSUME socket \/ Peer \/ UNCHANGED sockVars PROVE PortInv'
  <2>1. UNCHANGED portVars  BY <1>1 DEF socket, Peer, sockVars
  <2> QED BY <2>1, PortUntouched
<1> QED BY <1>1, TakeStep, PortCallStep DEF SocketsNext

LEMMA PortInit == SocketsInit => PortInv
<1> SUFFICES ASSUME SocketsInit PROVE PortInv  OBVIOUS
<1>1. \A S : <<>> \in Seq(S)  OBVIOUS
<1>2. Len(iocp) = 0 /\ Len(s_iocp_bindings) = 0  BY DEF SocketsInit
<1>3. RingRight(iocp, owed)
  BY <1>1, <1>2, SocketsAssumption DEF SocketsInit, RingRight
<1> QED BY <1>1, <1>2, <1>3, SocketsAssumption DEF SocketsInit, PortInv

LEMMA RingPays == PortInv => OverlappedOnce
<1> SUFFICES ASSUME PortInv PROVE OverlappedOnce  OBVIOUS
<1>1. DOMAIN iocp = 1 .. Len(iocp)
  BY LenProperties DEF PortInv, RingRight
<1>2. ASSUME NEW o \in owed, o.fits
      PROVE  Cardinality({i \in DOMAIN iocp : iocp[i].overlapped = o.overlapped}) = 1
  <2>1. PICK k \in 1 .. Len(iocp) : iocp[k].overlapped = o.overlapped
    BY <1>2 DEF PortInv, RingRight
  <2>2. {i \in DOMAIN iocp : iocp[i].overlapped = o.overlapped} = {k}
    BY <1>1, <2>1 DEF PortInv, RingRight
  <2> QED BY <2>2, FS_Singleton
<1>3. \A i \in DOMAIN iocp : \E o \in owed : Pays(iocp[i], o)
  BY <1>1 DEF PortInv, RingRight
<1> QED BY <1>2, <1>3 DEF OverlappedOnce, Pays

\* The tables of the sockets hold what they should: no slot, no binding and no ring
\* entry is out of its range, whatever the guest calls and the host answers.
THEOREM SocketsTyped == SocketsSpec => []SocketsTypeOK
<1>1. TableInv /\ PortInv => SocketsTypeOK
  BY DEF TableInv, PortInv, RingRight, SocketsTypeOK
<1> QED BY <1>1, TableInvariant, PortInit, PortStep, PTL DEF SocketsSpec

\* What the guest is told of a socket it is told once: every pending operation that
\* found room has one completion, with its count and key, and FD_CONNECT comes once.
THEOREM GuestToldOnce == SocketsSpec => []ToldOnce
<1>1. PortInv /\ ConnectReportedOnce => ToldOnce
  BY RingPays DEF ToldOnce
<1> QED BY <1>1, ConnectToldOnce, TableInvariant, PortInit, PortStep, PTL DEF SocketsSpec

-----------------------------------------------------------------------------
(* TLS sessions: numbered bytes through a buffer with a position.          *)

ByteBuffer == [bytes : Seq(Int), pos : Nat]

\* The buffer holds the last of the numbers up to made, and gone of them have left it.
Flow(b, made, gone) ==
    /\ b.pos <= Len(b.bytes) /\ Len(b.bytes) <= made
    /\ made = gone + Len(b.bytes) - b.pos
    /\ \A i \in 1 .. Len(b.bytes) : b.bytes[i] = made - Len(b.bytes) + i

LEMMA FlowEmpty ==
    ASSUME NEW made \in Nat
    PROVE  Empty \in ByteBuffer /\ Flow(Empty, made, made)
<1>1. <<>> \in Seq(Int) /\ Len(<<>>) = 0  BY EmptySeq
<1> QED BY <1>1 DEF Empty, ByteBuffer, Flow

\* What is appended continues the numbers: wg_ossl_feed, st_write.
LEMMA FlowIn ==
    ASSUME NEW b \in ByteBuffer, NEW made \in Nat, NEW gone \in Nat, Flow(b, made, gone),
           NEW n \in Nat
    PROVE  /\ Appended(b, made, n) \in ByteBuffer
           /\ Flow(Appended(b, made, n), made + n, gone)
<1> DEFINE more == [i \in 1 .. n |-> made + i]
           all  == b.bytes \o more
           d    == [b EXCEPT !.bytes = all]
<1>1. b.bytes \in Seq(Int) /\ b.pos \in Nat /\ Len(b.bytes) \in Nat
  BY LenProperties DEF ByteBuffer
<1>2. more \in Seq(Int) /\ Len(more) = n /\ \A i \in 1 .. n : more[i] = made + i
  OBVIOUS
<1>3. Appended(b, made, n) = d  BY DEF Appended
<1> HIDE DEF more
<1>4. /\ all \in Seq(Int) /\ Len(all) = Len(b.bytes) + n
      /\ \A i \in 1 .. Len(b.bytes) + n :
           all[i] = IF i <= Len(b.bytes) THEN b.bytes[i] ELSE more[i - Len(b.bytes)]
  BY <1>1, <1>2, ConcatProperties
<1> HIDE DEF all
<1>5. ASSUME NEW i \in 1 .. Len(all) PROVE all[i] = made + n - Len(all) + i
  <2>1. CASE i <= Len(b.bytes)
    BY <1>1, <1>4, <2>1 DEF Flow
  <2>2. CASE ~ i <= Len(b.bytes)
    <3>1. i - Len(b.bytes) \in 1 .. n  BY <1>1, <1>4, <2>2
    <3>2. all[i] = made + (i - Len(b.bytes))  BY <1>2, <1>4, <2>2, <3>1
    <3> QED BY <1>1, <1>4, <3>2
  <2> QED BY <2>1, <2>2
<1>6. d \in ByteBuffer /\ d.bytes = all /\ d.pos = b.pos  BY <1>1, <1>4 DEF ByteBuffer
<1> HIDE DEF d
<1>7. Flow(d, made + n, gone)
  <2>1. made = gone + Len(b.bytes) - b.pos /\ b.pos <= Len(b.bytes) /\ Len(b.bytes) <= made
    BY DEF Flow
  <2>2. made + n = gone + Len(all) - b.pos /\ b.pos <= Len(all) /\ Len(all) <= made + n
    BY <1>1, <1>4, <2>1, SMTT(30)
  <2> QED BY <1>5, <1>6, <2>2 DEF Flow
<1> QED BY <1>3, <1>6, <1>7

LEMMA Suffix ==
    ASSUME NEW x \in Seq(Int), NEW p \in Nat, p <= Len(x)
    PROVE  /\ SubSeq(x, p + 1, Len(x)) \in Seq(Int)
           /\ Len(SubSeq(x, p + 1, Len(x))) = Len(x) - p
           /\ \A i \in 1 .. Len(x) - p : SubSeq(x, p + 1, Len(x))[i] = x[p + i]
<1> DEFINE rest == SubSeq(x, p + 1, Len(x))
<1>1. Len(x) \in Nat /\ \A i \in 1 .. Len(x) : x[i] \in Int
  BY LenProperties, ElementOfSeq
<1>2. PICK m \in Int : m = p + 1  OBVIOUS
<1>3. PICK l \in Nat : l = Len(x)  BY <1>1
<1>4. \A i \in m .. l : x[i] \in Int  BY <1>1, <1>2, <1>3
<1>5. /\ SubSeq(x, m, l) \in Seq(Int)
      /\ Len(SubSeq(x, m, l)) = IF m <= l THEN l - m + 1 ELSE 0
      /\ \A i \in 1 .. l - m + 1 : SubSeq(x, m, l)[i] = x[m + i - 1]
  BY <1>4, SubSeqProperties
<1>6. rest = SubSeq(x, m, l)  BY <1>2, <1>3
<1> HIDE DEF rest
<1> DEFINE y == SubSeq(x, m, l)
<1> HIDE DEF y
<1>7. /\ rest \in Seq(Int) /\ Len(rest) = IF m <= l THEN l - m + 1 ELSE 0
      /\ \A i \in 1 .. l - m + 1 : rest[i] = x[m + i - 1]
  BY <1>5, <1>6
<1>8. Len(rest) = Len(x) - p  BY <1>2, <1>3, <1>7
<1>9. \A i \in 1 .. Len(x) - p : rest[i] = x[p + i]
  <2> SUFFICES ASSUME NEW i \in 1 .. l - p PROVE rest[i] = x[p + i]  BY <1>3
  <2>1. i \in 1 .. l - m + 1 /\ m + i - 1 = p + i  BY <1>2
  <2> QED BY <1>7, <2>1
<1> QED BY <1>7, <1>8, <1>9 DEF rest

\* What leaves the front continues the numbers that have left: st_read, wg_ossl_drain.
LEMMA FlowOut ==
    ASSUME NEW b \in ByteBuffer, NEW made \in Nat, NEW q \in Seq(Int), Counted(q),
           Flow(b, made, Len(q)), NEW n \in Nat, n <= Len(Rest(b))
    PROVE  /\ [b EXCEPT !.pos = @ + n] \in ByteBuffer
           /\ b.pos + n <= Len(b.bytes)
           /\ q \o SubSeq(Rest(b), 1, n) \in Seq(Int)
           /\ Len(q \o SubSeq(Rest(b), 1, n)) = Len(q) + n
           /\ Counted(q \o SubSeq(Rest(b), 1, n))
           /\ Flow([b EXCEPT !.pos = @ + n], made, Len(q) + n)
           /\ b.pos + n = Len(b.bytes) => made = Len(q) + n
<1> DEFINE rest == Rest(b)
           out  == SubSeq(rest, 1, n)
<1>1. /\ b.bytes \in Seq(Int) /\ b.pos \in Nat /\ Len(b.bytes) \in Nat /\ Len(q) \in Nat
      /\ b.pos <= Len(b.bytes)
  BY LenProperties DEF ByteBuffer, Flow
<1>2. /\ rest \in Seq(Int) /\ Len(rest) = Len(b.bytes) - b.pos
      /\ \A i \in 1 .. Len(rest) : rest[i] = b.bytes[b.pos + i]
  <2>1. b.bytes \in Seq(Int) /\ b.pos \in Nat /\ b.pos <= Len(b.bytes)  BY <1>1
  <2>2. rest = SubSeq(b.bytes, b.pos + 1, Len(b.bytes))  BY DEF Rest
  <2> HIDE DEF rest
  <2>3. /\ rest \in Seq(Int) /\ Len(rest) = Len(b.bytes) - b.pos
        /\ \A i \in 1 .. Len(b.bytes) - b.pos : rest[i] = b.bytes[b.pos + i]
    BY <2>1, <2>2, Suffix, Zenon
  <2> QED BY <2>3
<1> HIDE DEF rest
<1>3. n <= Len(rest)  BY DEF rest
<1>4. /\ out \in Seq(Int) /\ Len(out) = n
      /\ \A i \in 1 .. n : out[i] = rest[i]
  <2>1. \A i \in 1 .. n : rest[i] \in Int  BY <1>2, <1>3, ElementOfSeq
  <2> HIDE DEF out
  <2>2. /\ out \in Seq(Int) /\ Len(out) = IF 1 <= n THEN n - 1 + 1 ELSE 0
        /\ \A i \in 1 .. n - 1 + 1 : out[i] = rest[1 + i - 1]
    BY <2>1, SubSeqProperties DEF out
  <2> QED BY <2>2
<1>5. \A i \in 1 .. n : out[i] = Len(q) + i
  <2> SUFFICES ASSUME NEW i \in 1 .. n PROVE out[i] = Len(q) + i  OBVIOUS
  <2>1. out[i] = b.bytes[b.pos + i] /\ b.pos + i \in 1 .. Len(b.bytes)
    <3>1. i \in 1 .. Len(rest) /\ b.pos + i \in 1 .. Len(b.bytes)
      <4>1. PICK l \in Nat : l = Len(b.bytes)  BY <1>1
      <4>2. PICK k \in Nat : k = b.pos  BY <1>1
      <4>3. Len(rest) = l - k /\ n <= l - k /\ k <= l  BY <1>1, <1>2, <1>3, <4>1, <4>2
      <4>4. i \in 1 .. l - k /\ k + i \in 1 .. l  BY <4>3
      <4> QED BY <4>1, <4>2, <4>3, <4>4
    <3> QED BY <3>1, <1>2, <1>4
  <2>2. b.bytes[b.pos + i] = made - Len(b.bytes) + (b.pos + i)  BY <2>1 DEF Flow
  <2>3. made = Len(q) + Len(b.bytes) - b.pos  BY DEF Flow
  <2>4. \A m, l, k, h \in Int : m = h + l - k => m - l + (k + i) = h + i  OBVIOUS
  <2>5. made - Len(b.bytes) + (b.pos + i) = Len(q) + i  BY <1>1, <2>3, <2>4, SMTT(30)
  <2> QED BY <2>1, <2>2, <2>5, Zenon
<1> HIDE DEF out
<1> DEFINE all == q \o out
<1>6. /\ all \in Seq(Int) /\ Len(all) = Len(q) + n
      /\ \A i \in 1 .. Len(q) + n : all[i] = IF i <= Len(q) THEN q[i] ELSE out[i - Len(q)]
  <2>1. Len(q) \in Nat /\ out \in Seq(Int) /\ Len(out) = n  BY <1>1, <1>4
  <2>2. /\ all \in Seq(Int) /\ Len(all) = Len(q) + Len(out)
        /\ \A i \in 1 .. Len(q) + Len(out) :
             all[i] = IF i <= Len(q) THEN q[i] ELSE out[i - Len(q)]
    BY <2>1, ConcatProperties, Zenon
  <2> QED BY <2>1, <2>2, Zenon
<1> HIDE DEF all
<1>7. Counted(all)
  <2>1. DOMAIN all = 1 .. Len(q) + n /\ DOMAIN q = 1 .. Len(q)  BY <1>6, LenProperties
  <2> SUFFICES ASSUME NEW i \in 1 .. Len(q) + n PROVE all[i] = i  BY <2>1 DEF Counted
  <2>2. CASE i <= Len(q)
    <3>1. i \in 1 .. Len(q)  BY <1>1, <2>2
    <3> QED BY <1>6, <2>1, <2>2, <3>1 DEF Counted
  <2>3. CASE ~ i <= Len(q)
    <3>1. i - Len(q) \in 1 .. n  BY <1>1, <2>3
    <3>2. all[i] = Len(q) + (i - Len(q))  BY <1>5, <1>6, <2>3, <3>1
    <3> QED BY <1>1, <3>2
  <2> QED BY <2>2, <2>3
<1>8. b.pos + n <= Len(b.bytes) /\ b.pos + n \in Nat  BY <1>1, <1>2, <1>3
<1> DEFINE d == [b EXCEPT !.pos = @ + n]
<1>9. d \in ByteBuffer /\ d.bytes = b.bytes /\ d.pos = b.pos + n  BY <1>1, <1>8 DEF ByteBuffer
<1> HIDE DEF d
<1>10. Flow(d, made, Len(q) + n) /\ (b.pos + n = Len(b.bytes) => made = Len(q) + n)
  <2>1. /\ made = Len(q) + Len(b.bytes) - b.pos /\ Len(b.bytes) <= made
        /\ \A i \in 1 .. Len(b.bytes) : b.bytes[i] = made - Len(b.bytes) + i
    BY DEF Flow
  <2>2. made = (Len(q) + n) + Len(b.bytes) - (b.pos + n)  BY <1>1, <2>1
  <2>3. b.pos + n = Len(b.bytes) => made = Len(q) + n  BY <1>1, <2>1
  <2> QED BY <1>8, <1>9, <2>1, <2>2, <2>3 DEF Flow
<1> QED BY <1>6, <1>7, <1>8, <1>9, <1>10 DEF all, out, rest, d

-----------------------------------------------------------------------------
(* TLS sessions: the table. *)

ShimRecord == [ssl : Objects \cup {NoObject}, st : BOOLEAN, handshaked : BOOLEAN,
               last_error : Errors, in : ByteBuffer, out : ByteBuffer]
WireRecord == [fed : Nat, taken : Seq(Int), sent : Nat, drained : Seq(Int)]

\* What went through the two buffers of an object.
Streams(c, w) ==
    /\ Counted(w.taken) /\ Counted(w.drained)
    /\ Flow(c.in, w.fed, Len(w.taken)) /\ Flow(c.out, w.sent, Len(w.drained))

ShimInv ==
    /\ g_ctx \in [ShimSlots -> ShimRecord]
    /\ wires \in [Objects -> WireRecord]
    /\ \A o \in Objects : \A s, t \in find(o) : s = t
    /\ \A o \in Objects : find(o) = {} => wires[o] = Untouched
    /\ \A o \in Objects : \A s \in find(o) : Streams(g_ctx[s], wires[o])

LEMMA Fresh ==
    /\ Untouched \in WireRecord
    /\ Counted(Untouched.taken) /\ Counted(Untouched.drained)
    /\ Unused_Shim \in ShimRecord /\ Unused_Shim.ssl = NoObject
    /\ Unused_Shim.in = Empty /\ Unused_Shim.out = Empty
    /\ \A c \in ShimRecord : c.in = Empty /\ c.out = Empty => Streams(c, Untouched)
<1>1. <<>> \in Seq(Int) /\ Len(<<>>) = 0 /\ Counted(<<>>)
  <2>1. <<>> \in Seq(Int) /\ Len(<<>>) = 0  BY EmptySeq
  <2> QED BY <2>1 DEF Counted
<1>2. Empty \in ByteBuffer /\ Flow(Empty, 0, 0)  BY FlowEmpty
<1>3. Untouched \in WireRecord /\ Untouched.fed = 0 /\ Untouched.sent = 0
      /\ Untouched.taken = <<>> /\ Untouched.drained = <<>>
  BY <1>1 DEF Untouched, WireRecord
<1>4. Unused_Shim \in ShimRecord /\ Unused_Shim.ssl = NoObject
  BY <1>2 DEF Unused_Shim, ShimRecord, Errors
<1>5. \A c \in ShimRecord : c.in = Empty /\ c.out = Empty => Streams(c, Untouched)
  BY <1>1, <1>2, <1>3 DEF Streams
<1>6. Unused_Shim.in = Empty /\ Unused_Shim.out = Empty  BY DEF Unused_Shim
<1> QED BY <1>1, <1>3, <1>4, <1>5, <1>6

\* A call that leaves an object its slot, or takes a free one for it, and moves bytes
\* of that object only.
LEMMA OneObject ==
    ASSUME ShimInv, NEW o \in Objects, NEW s \in ShimSlots,
           g_ctx[s].ssl = o \/ (g_ctx[s].ssl = NoObject /\ find(o) = {}),
           NEW c \in ShimRecord, c.ssl = o, NEW w \in WireRecord, Streams(c, w),
           g_ctx' = [g_ctx EXCEPT ![s] = c], wires' = [wires EXCEPT ![o] = w]
    PROVE  ShimInv'
<1>1. g_ctx' \in [ShimSlots -> ShimRecord] /\ wires' \in [Objects -> WireRecord]
  BY DEF ShimInv
<1>2. \A t \in ShimSlots : g_ctx'[t] = IF t = s THEN c ELSE g_ctx[t]  BY DEF ShimInv
<1>3. \A p \in Objects : wires'[p] = IF p = o THEN w ELSE wires[p]  BY DEF ShimInv
<1>4. \A t \in find(o)' : t = s
  BY <1>2 DEF ShimInv, find
<1>5. s \in find(o)'  BY <1>2 DEF find
<1>6. ASSUME NEW p \in Objects, p # o PROVE find(p)' = find(p) /\ s \notin find(p)
  BY <1>2, <1>6, ShimAssumption DEF find
<1>7. \A p \in Objects : \A t, u \in find(p)' : t = u
  BY <1>4, <1>6 DEF ShimInv
<1>8. \A p \in Objects : find(p)' = {} => wires'[p] = Untouched
  BY <1>3, <1>5, <1>6 DEF ShimInv
<1>9. ASSUME NEW p \in Objects, NEW t \in find(p)' PROVE Streams(g_ctx'[t], wires'[p])
  <2>1. CASE p = o
    <3>1. t = s /\ s \in ShimSlots  BY <1>4, <1>9, <2>1
    <3>2. g_ctx'[t] = c /\ wires'[p] = w  BY <1>2, <1>3, <2>1, <3>1
    <3> QED BY <3>2
  <2>2. CASE p # o
    <3>1. t \in find(p) /\ t # s /\ t \in ShimSlots  BY <1>6, <1>9, <2>2 DEF find
    <3>2. g_ctx'[t] = g_ctx[t] /\ wires'[p] = wires[p]  BY <1>2, <1>3, <2>2, <3>1
    <3>3. Streams(g_ctx[t], wires[p])  BY <3>1 DEF ShimInv
    <3> QED BY <3>2, <3>3
  <2> QED BY <2>1, <2>2
<1> QED BY <1>1, <1>7, <1>8, <1>9 DEF ShimInv

\* wg_ossl_attach and wg_ossl_set_host differ in what they set in the slot.
LEMMA AttachStep ==
    ASSUME ShimInv, NEW o \in Objects, wg_ossl_attach(o) \/ wg_ossl_set_host(o)
    PROVE  ShimInv'
<1>1. UNCHANGED wires  BY DEF wg_ossl_attach, wg_ossl_set_host
<1>2. wires[o] \in WireRecord /\ wires' = [wires EXCEPT ![o] = wires[o]]
  BY <1>1 DEF ShimInv
<1>3. CASE find(o) # {}
  <2>1. PICK s \in find(o) : \/ g_ctx' = [g_ctx EXCEPT ![s] = [g_ctx[s] EXCEPT !.st = TRUE]]
                             \/ g_ctx' = [g_ctx EXCEPT ![s] = g_ctx[s]]
    BY <1>3 DEF wg_ossl_attach, wg_ossl_set_host, SlotFor, Record
  <2>2. s \in ShimSlots /\ g_ctx[s].ssl = o  BY DEF find
  <2>3. g_ctx[s] \in ShimRecord /\ Streams(g_ctx[s], wires[o])  BY <2>2 DEF ShimInv
  <2> DEFINE c == [g_ctx[s] EXCEPT !.st = TRUE]
  <2>4. c \in ShimRecord /\ c.ssl = o /\ c.in = g_ctx[s].in /\ c.out = g_ctx[s].out
    BY <2>2, <2>3 DEF ShimRecord
  <2>5. Streams(c, wires[o])  BY <2>3, <2>4 DEF Streams
  <2>6. CASE g_ctx' = [g_ctx EXCEPT ![s] = c]
    <3> HIDE DEF c
    <3> QED BY <1>2, <2>2, <2>4, <2>5, <2>6, OneObject
  <2>7. CASE g_ctx' = [g_ctx EXCEPT ![s] = g_ctx[s]]
    BY <1>2, <2>2, <2>3, <2>7, OneObject
  <2> QED BY <2>1, <2>6, <2>7
<1>4. CASE find(o) = {}
  <2>1. PICK s \in Holes : \/ g_ctx' = [g_ctx EXCEPT ![s] =
                                [[Unused_Shim EXCEPT !.ssl = o] EXCEPT !.st = TRUE]]
                          \/ g_ctx' = [g_ctx EXCEPT ![s] = [Unused_Shim EXCEPT !.ssl = o]]
    BY <1>4 DEF wg_ossl_attach, wg_ossl_set_host, SlotFor, Record
  <2> DEFINE c1 == [Unused_Shim EXCEPT !.ssl = o]
             c2 == [c1 EXCEPT !.st = TRUE]
  <2>2. s \in ShimSlots /\ g_ctx[s].ssl = NoObject  BY DEF Holes
  <2>3. wires[o] = Untouched  BY <1>4 DEF ShimInv
  <2>4. c1 \in ShimRecord /\ c1.ssl = o /\ c1.in = Empty /\ c1.out = Empty
    BY Fresh DEF ShimRecord
  <2>5. c2 \in ShimRecord /\ c2.ssl = o /\ c2.in = Empty /\ c2.out = Empty
    <3> HIDE DEF c1
    <3> QED BY <2>4 DEF ShimRecord
  <2>6. \E c \in {c1, c2} : g_ctx' = [g_ctx EXCEPT ![s] = c]  BY <2>1
  <2> HIDE DEF c1, c2
  <2>7. PICK c \in ShimRecord : /\ g_ctx' = [g_ctx EXCEPT ![s] = c]
                               /\ c.ssl = o /\ c.in = Empty /\ c.out = Empty
    BY <2>4, <2>5, <2>6
  <2>8. Streams(c, wires[o])  BY <2>3, <2>7, Fresh
  <2> QED BY <1>2, <1>4, <2>2, <2>7, <2>8, OneObject
<1> QED BY <1>3, <1>4

LEMMA FreeStep ==
    ASSUME ShimInv, NEW o \in Objects, wg_ossl_free(o)
    PROVE  ShimInv'
<1>1. PICK s \in find(o) : g_ctx' = [g_ctx EXCEPT ![s] = Unused_Shim]  BY DEF wg_ossl_free
<1>2. wires' = [wires EXCEPT ![o] = Untouched]  BY DEF wg_ossl_free
<1>3. s \in ShimSlots /\ g_ctx[s].ssl = o /\ \A t \in find(o) : t = s  BY DEF find, ShimInv
<1>4. g_ctx' \in [ShimSlots -> ShimRecord] /\ wires' \in [Objects -> WireRecord]
  BY <1>1, <1>2, Fresh DEF ShimInv
<1>5. \A t \in ShimSlots : g_ctx'[t] = IF t = s THEN Unused_Shim ELSE g_ctx[t]
  BY <1>1, <1>3 DEF ShimInv
<1>6. \A p \in Objects : wires'[p] = IF p = o THEN Untouched ELSE wires[p]
  BY <1>2 DEF ShimInv
<1>7. find(o)' = {}
  BY <1>3, <1>5, Fresh, ShimAssumption DEF find
<1>8. ASSUME NEW p \in Objects, p # o PROVE find(p)' = find(p) /\ s \notin find(p)
  BY <1>3, <1>5, <1>8, Fresh, ShimAssumption DEF find
<1>9. \A p \in Objects : \A t, u \in find(p)' : t = u
  BY <1>7, <1>8 DEF ShimInv
<1>10. \A p \in Objects : find(p)' = {} => wires'[p] = Untouched
  BY <1>6, <1>8 DEF ShimInv
<1>11. ASSUME NEW p \in Objects, NEW t \in find(p)' PROVE Streams(g_ctx'[t], wires'[p])
  <2>1. p # o  BY <1>7, <1>11
  <2>2. t \in find(p) /\ t # s /\ t \in ShimSlots  BY <1>8, <1>11, <2>1 DEF find
  <2>3. g_ctx'[t] = g_ctx[t] /\ wires'[p] = wires[p]  BY <1>5, <1>6, <2>1, <2>2
  <2>4. Streams(g_ctx[t], wires[p])  BY <2>2 DEF ShimInv
  <2> QED BY <2>3, <2>4
<1> QED BY <1>4, <1>9, <1>10, <1>11 DEF ShimInv

\* The one slot of an object, and what is known of both.
LEMMA SlotOf ==
    ASSUME ShimInv, NEW o \in Objects, NEW s \in find(o)
    PROVE  /\ s \in ShimSlots /\ g_ctx[s].ssl = o /\ g_ctx[s] \in ShimRecord
           /\ wires[o] \in WireRecord /\ Streams(g_ctx[s], wires[o])
           /\ g_ctx[s].in \in ByteBuffer /\ g_ctx[s].out \in ByteBuffer
           /\ wires[o].fed \in Nat /\ wires[o].sent \in Nat
           /\ wires[o].taken \in Seq(Int) /\ wires[o].drained \in Seq(Int)
           /\ Len(wires[o].taken) \in Nat /\ Len(wires[o].drained) \in Nat
<1>1. s \in ShimSlots /\ g_ctx[s].ssl = o  BY DEF find
<1>2. g_ctx[s] \in ShimRecord /\ wires[o] \in WireRecord /\ Streams(g_ctx[s], wires[o])
  BY <1>1 DEF ShimInv
<1>3. g_ctx[s].in \in ByteBuffer /\ g_ctx[s].out \in ByteBuffer  BY <1>2 DEF ShimRecord
<1>4. /\ wires[o].fed \in Nat /\ wires[o].sent \in Nat
      /\ wires[o].taken \in Seq(Int) /\ wires[o].drained \in Seq(Int)
  BY <1>2 DEF WireRecord
<1>5. Len(wires[o].taken) \in Nat /\ Len(wires[o].drained) \in Nat  BY <1>4, LenProperties
<1> QED BY <1>1, <1>2, <1>3, <1>4, <1>5

\* Dropping what was all taken loses nothing.
LEMMA ResetFlows ==
    ASSUME NEW b \in ByteBuffer, NEW made \in Nat, NEW gone \in Nat, Flow(b, made, gone)
    PROVE  reset_in(b) \in ByteBuffer /\ Flow(reset_in(b), made, gone)
<1>1. CASE b.pos > 0 /\ b.pos = Len(b.bytes)
  <2>1. reset_in(b) = Empty  BY <1>1 DEF reset_in
  <2>2. b.pos \in Nat  BY DEF ByteBuffer
  <2>3. made = gone + b.pos - b.pos  BY <1>1 DEF Flow
  <2>4. made = gone  BY <2>2, <2>3
  <2> QED BY <2>1, <2>4, FlowEmpty
<1>2. CASE ~ (b.pos > 0 /\ b.pos = Len(b.bytes))
  BY <1>2 DEF reset_in
<1> QED BY <1>1, <1>2

LEMMA FeedStep ==
    ASSUME ShimInv, NEW o \in Objects, NEW n \in 1 .. MaxBytes, wg_ossl_feed(o, n)
    PROVE  ShimInv'
<1>1. PICK s \in find(o) :
        g_ctx' = [g_ctx EXCEPT ![s].in = Appended(reset_in(@), wires[o].fed, n)]
  BY DEF wg_ossl_feed
<1>2. wires' = [wires EXCEPT ![o].fed = @ + n]  BY DEF wg_ossl_feed
<1> DEFINE g == g_ctx[s]
           w == wires[o]
           d == Appended(reset_in(g.in), w.fed, n)
           c == [g EXCEPT !.in = d]
           v == [w EXCEPT !.fed = @ + n]
<1>3. /\ s \in ShimSlots /\ g.ssl = o /\ g \in ShimRecord /\ w \in WireRecord
      /\ Counted(w.taken) /\ Counted(w.drained)
      /\ g.in \in ByteBuffer /\ w.fed \in Nat /\ Len(w.taken) \in Nat
      /\ Flow(g.in, w.fed, Len(w.taken)) /\ Flow(g.out, w.sent, Len(w.drained))
  BY SlotOf DEF Streams
<1>4. n \in Nat  BY ShimAssumption
<1>5. g_ctx' = [g_ctx EXCEPT ![s] = c] /\ wires' = [wires EXCEPT ![o] = v]
  BY <1>1, <1>2
<1>6. d \in ByteBuffer /\ Flow(d, w.fed + n, Len(w.taken))
  <2> DEFINE b == reset_in(g.in)
  <2>1. b \in ByteBuffer /\ Flow(b, w.fed, Len(w.taken))  BY <1>3, ResetFlows
  <2> HIDE DEF b
  <2> QED BY <1>3, <1>4, <2>1, FlowIn DEF b
<1> HIDE DEF g, d
<1>7. c \in ShimRecord /\ c.ssl = o /\ c.in = d /\ c.out = g.out
  BY <1>3, <1>6 DEF ShimRecord
<1> HIDE DEF c, w
<1>8. /\ v \in WireRecord /\ v.fed = w.fed + n /\ v.taken = w.taken
      /\ v.sent = w.sent /\ v.drained = w.drained
  <2>1. w.fed + n \in Nat  BY <1>3, <1>4
  <2> QED BY <1>3, <2>1 DEF WireRecord
<1> HIDE DEF v
<1>9. Streams(c, v)  BY <1>3, <1>6, <1>7, <1>8 DEF Streams
<1>10. g_ctx[s].ssl = o  BY <1>3 DEF g
<1> QED BY <1>3, <1>5, <1>7, <1>8, <1>9, <1>10, OneObject

LEMMA DrainStep ==
    ASSUME ShimInv, NEW o \in Objects, NEW cap \in 1 .. MaxBytes, wg_ossl_drain(o, cap)
    PROVE  ShimInv'
<1> DEFINE w == wires[o]
           copy(s) == IF cap < Len(Rest(g_ctx[s].out)) THEN cap ELSE Len(Rest(g_ctx[s].out))
           moved(s) == [g_ctx[s].out EXCEPT !.pos = @ + copy(s)]
           d(s) == IF g_ctx[s].out.pos + copy(s) = Len(g_ctx[s].out.bytes) THEN Empty ELSE moved(s)
           more(s) == w.drained \o SubSeq(Rest(g_ctx[s].out), 1, copy(s))
<1>1. PICK s \in find(o) : /\ g_ctx' = [g_ctx EXCEPT ![s].out = d(s)]
                           /\ wires' = [wires EXCEPT ![o].drained = more(s)]
  BY DEF wg_ossl_drain
<1> DEFINE g == g_ctx[s]
           out == g.out
           n == copy(s)
           c == [g EXCEPT !.out = d(s)]
           v == [w EXCEPT !.drained = more(s)]
<1>2. g_ctx' = [g_ctx EXCEPT ![s] = c] /\ wires' = [wires EXCEPT ![o] = v]
  BY <1>1
<1>3. /\ s \in ShimSlots /\ g.ssl = o /\ g \in ShimRecord /\ w \in WireRecord
      /\ Counted(w.taken) /\ Counted(w.drained)
      /\ out \in ByteBuffer /\ w.sent \in Nat
      /\ w.drained \in Seq(Int) /\ Len(w.drained) \in Nat
      /\ Flow(g.in, w.fed, Len(w.taken)) /\ Flow(out, w.sent, Len(w.drained))
  BY SlotOf DEF Streams
<1>4. n \in Nat /\ n <= Len(Rest(out))
  <2>1. Len(Rest(out)) \in Nat
    <3>1. out.bytes \in Seq(Int) /\ out.pos \in Nat /\ out.pos <= Len(out.bytes)
      BY <1>3 DEF ByteBuffer, Flow
    <3>2. Rest(out) \in Seq(Int)  BY <3>1, Suffix DEF Rest
    <3> HIDE DEF g
    <3> QED BY <3>2, LenProperties
  <2>2. cap \in Nat  BY ShimAssumption
  <2> DEFINE l == Len(Rest(out))
  <2>3. n = IF cap < l THEN cap ELSE l  OBVIOUS
  <2> HIDE DEF l, n
  <2>4. n \in Nat /\ n <= l  BY <2>1, <2>2, <2>3 DEF l
  <2> QED BY <2>4 DEF l
<1> HIDE DEF copy
<1>5. /\ moved(s) \in ByteBuffer /\ Flow(moved(s), w.sent, Len(w.drained) + n)
      /\ more(s) \in Seq(Int) /\ Len(more(s)) = Len(w.drained) + n /\ Counted(more(s))
      /\ out.pos + n = Len(out.bytes) => w.sent = Len(w.drained) + n
  <2> DEFINE b == out
             q == w.drained
             sent == w.sent
  <2>1. /\ b \in ByteBuffer /\ sent \in Nat /\ q \in Seq(Int) /\ Counted(q)
        /\ Flow(b, sent, Len(q)) /\ n \in Nat /\ n <= Len(Rest(b))
    BY <1>3, <1>4
  <2> DEFINE m == moved(s)
             all == more(s)
  <2>2. m = [b EXCEPT !.pos = @ + n] /\ all = q \o SubSeq(Rest(b), 1, n)
    OBVIOUS
  <2> HIDE DEF b, q, sent, n, m, all
  <2>3. /\ m \in ByteBuffer /\ Flow(m, sent, Len(q) + n)
        /\ all \in Seq(Int) /\ Len(all) = Len(q) + n /\ Counted(all)
    BY <2>1, <2>2, FlowOut
  <2>4. b.pos + n = Len(b.bytes) => sent = Len(q) + n
    BY <2>1, FlowOut
  <2> QED BY <2>3, <2>4 DEF b, q, sent, m, all
<1>6. d(s) \in ByteBuffer /\ Flow(d(s), w.sent, Len(more(s)))
  <2>1. CASE out.pos + n = Len(out.bytes)
    <3>1. d(s) = Empty /\ w.sent = Len(more(s))  BY <1>5, <2>1
    <3> QED BY <1>3, <3>1, FlowEmpty
  <2>2. CASE out.pos + n # Len(out.bytes)
    <3>1. d(s) = moved(s)  BY <2>2
    <3> QED BY <1>5, <3>1
  <2> QED BY <2>1, <2>2
<1> HIDE DEF d, more, moved
<1>7. c \in ShimRecord /\ c.ssl = o /\ c.in = g.in /\ c.out = d(s)
  BY <1>3, <1>6 DEF ShimRecord
<1>8. /\ v \in WireRecord /\ v.fed = w.fed /\ v.taken = w.taken
      /\ v.sent = w.sent /\ v.drained = more(s)
  BY <1>3, <1>5 DEF WireRecord
<1> HIDE DEF c, v, w
<1>9. Streams(c, v)  BY <1>3, <1>5, <1>6, <1>7, <1>8 DEF Streams
<1> QED BY <1>2, <1>3, <1>7, <1>8, <1>9, OneObject

\* st_read and st_write within a call of the session.
LEMMA SessionStep ==
    ASSUME ShimInv, NEW o \in Objects, NEW n \in Nat, NEW k \in Nat,
           NEW error \in [BOOLEAN -> Errors], SessionCall(o, n, k, error)
    PROVE  ShimInv'
<1> DEFINE w == wires[o]
           c(s) == Moved(g_ctx[s], o, n, k)
           e(s) == error[Rest(c(s).out) # <<>>]
           v(s) == [w EXCEPT !.taken = @ \o SubSeq(Rest(g_ctx[s].in), 1, n), !.sent = @ + k]
<1>0. PICK s \in find(o) : /\ g_ctx' = [g_ctx EXCEPT ![s] = [c(s) EXCEPT !.last_error = e(s)]]
                           /\ Session(g_ctx[s], o, n, k)
  BY Zenon DEF SessionCall
<1>1. /\ g_ctx' = [g_ctx EXCEPT ![s] = [c(s) EXCEPT !.last_error = e(s)]]
      /\ wires' = [wires EXCEPT ![o] = v(s)]
      /\ n <= Len(Rest(g_ctx[s].in))
  <2> HIDE DEF c, e
  <2>1. n <= Len(Rest(g_ctx[s].in))       BY <1>0 DEF Session
  <2>2. wires' = [wires EXCEPT ![o] = v(s)]  BY <1>0 DEF Session
  <2> QED BY <1>0, <2>1, <2>2
<1> DEFINE g == g_ctx[s]
           i == [g.in EXCEPT !.pos = @ + n]
           out == Appended(g.out, w.sent, k)
           more == w.taken \o SubSeq(Rest(g.in), 1, n)
           d == [c(s) EXCEPT !.last_error = e(s)]
<1>2. /\ s \in ShimSlots /\ g.ssl = o /\ g \in ShimRecord /\ w \in WireRecord
      /\ Counted(w.taken) /\ Counted(w.drained)
      /\ g.in \in ByteBuffer /\ g.out \in ByteBuffer /\ w.fed \in Nat /\ w.sent \in Nat
      /\ w.taken \in Seq(Int) /\ Len(w.taken) \in Nat /\ Len(w.drained) \in Nat
      /\ Flow(g.in, w.fed, Len(w.taken)) /\ Flow(g.out, w.sent, Len(w.drained))
  BY SlotOf DEF Streams
<1>3. e(s) \in Errors
  <2>1. (Rest(c(s).out) # <<>>) \in BOOLEAN  OBVIOUS
  <2> QED BY <2>1
<1>4. /\ i \in ByteBuffer /\ Flow(i, w.fed, Len(w.taken) + n)
      /\ more \in Seq(Int) /\ Len(more) = Len(w.taken) + n /\ Counted(more)
  <2> DEFINE b == g.in
             q == w.taken
             fed == w.fed
  <2>1. /\ b \in ByteBuffer /\ fed \in Nat /\ q \in Seq(Int) /\ Counted(q)
        /\ Flow(b, fed, Len(q)) /\ n <= Len(Rest(b))
    BY <1>1, <1>2
  <2>2. i = [b EXCEPT !.pos = @ + n] /\ more = q \o SubSeq(Rest(b), 1, n)
    OBVIOUS
  <2> HIDE DEF b, q, fed, i, more
  <2>3. /\ i \in ByteBuffer /\ Flow(i, fed, Len(q) + n)
        /\ more \in Seq(Int) /\ Len(more) = Len(q) + n /\ Counted(more)
    BY <2>1, <2>2, FlowOut
  <2> QED BY <2>3 DEF q, fed
<1>5. out \in ByteBuffer /\ Flow(out, w.sent + k, Len(w.drained))
  BY <1>2, FlowIn
<1>6. c(s) = [g EXCEPT !.in = i, !.out = out]  BY DEF Moved
<1> HIDE DEF e, i, out, more, c
<1>7. c(s) \in ShimRecord /\ c(s).ssl = o /\ c(s).in = i /\ c(s).out = out
  BY <1>2, <1>4, <1>5, <1>6 DEF ShimRecord
<1>8. d \in ShimRecord /\ d.ssl = o /\ d.in = i /\ d.out = out
  BY <1>3, <1>7 DEF ShimRecord
<1>9. v(s) = [w EXCEPT !.taken = more, !.sent = w.sent + k]  BY DEF more
<1>10. w.sent + k \in Nat  BY <1>2
<1> HIDE DEF v
<1>11. /\ v(s) \in WireRecord /\ v(s).fed = w.fed /\ v(s).taken = more
       /\ v(s).sent = w.sent + k /\ v(s).drained = w.drained
  BY <1>2, <1>4, <1>9, <1>10 DEF WireRecord
<1>12. g_ctx' = [g_ctx EXCEPT ![s] = d]  BY <1>1
<1> HIDE DEF d, w
<1>13. Streams(d, v(s))  BY <1>2, <1>4, <1>5, <1>8, <1>11 DEF Streams
<1> QED BY <1>1, <1>2, <1>8, <1>11, <1>12, <1>13, OneObject

LEMMA ErrorsOfCalls ==
    ASSUME NEW result \in Results
    PROVE  /\ [pending \in BOOLEAN |-> HandshakeError(pending, result)] \in [BOOLEAN -> Errors]
           /\ [pending \in BOOLEAN |-> WriteError(result)] \in [BOOLEAN -> Errors]
           /\ [pending \in BOOLEAN |-> ReadError(result)] \in [BOOLEAN -> Errors]
<1>1. \A pending \in BOOLEAN : HandshakeError(pending, result) \in Errors
  BY DEF Results, HandshakeError, Errors
<1>2. WriteError(result) \in Errors  BY DEF Results, WriteError, Errors
<1>3. ReadError(result) \in Errors   BY DEF Results, ReadError, Errors
<1> QED BY <1>1, <1>2, <1>3

LEMMA ShimStep == ShimInv /\ [ShimNext]_shimVars => ShimInv'
<1> SUFFICES ASSUME ShimInv, [ShimNext]_shimVars PROVE ShimInv'  OBVIOUS
<1>1. CASE UNCHANGED shimVars
  BY <1>1 DEF shimVars, ShimInv, find
<1>2. CASE ShimNext
  <2> PICK o \in Objects :
        \/ wg_ossl_attach(o) \/ wg_ossl_set_host(o) \/ wg_ossl_free(o)
        \/ \E n \in 1 .. MaxBytes : wg_ossl_feed(o, n) \/ wg_ossl_drain(o, n)
        \/ \E result \in Results, n \in 0 .. MaxBytes :
             \/ \E k \in 0 .. MaxBytes : wg_ossl_do_handshake(o, result, n, k)
             \/ wg_ossl_write(o, result, n) \/ wg_ossl_read(o, result, n)
    BY <1>2 DEF ShimNext
  <2>1. CASE wg_ossl_attach(o) \/ wg_ossl_set_host(o)  BY <2>1, AttachStep
  <2>2. CASE wg_ossl_free(o)                           BY <2>2, FreeStep
  <2>3. ASSUME NEW n \in 1 .. MaxBytes, wg_ossl_feed(o, n) \/ wg_ossl_drain(o, n) PROVE ShimInv'
    BY <2>3, FeedStep, DrainStep
  <2>4. ASSUME NEW result \in Results, NEW n \in 0 .. MaxBytes, NEW k \in 0 .. MaxBytes,
               wg_ossl_do_handshake(o, result, n, k)
        PROVE  ShimInv'
    <3>1. n \in Nat /\ k \in Nat  BY ShimAssumption
    <3> QED BY <2>4, <3>1, ErrorsOfCalls, SessionStep DEF wg_ossl_do_handshake
  <2>5. ASSUME NEW result \in Results, NEW n \in 0 .. MaxBytes, wg_ossl_write(o, result, n)
        PROVE  ShimInv'
    <3>1. n \in Nat /\ 0 \in Nat  BY ShimAssumption
    <3> QED BY <2>5, <3>1, ErrorsOfCalls, SessionStep DEF wg_ossl_write
  <2>6. ASSUME NEW result \in Results, NEW n \in 0 .. MaxBytes, wg_ossl_read(o, result, n)
        PROVE  ShimInv'
    <3>1. n \in Nat /\ 0 \in Nat  BY ShimAssumption
    <3> QED BY <2>6, <3>1, ErrorsOfCalls, SessionStep DEF wg_ossl_read
  <2> QED BY <2>1, <2>2, <2>3, <2>4, <2>5, <2>6
<1> QED BY <1>1, <1>2

LEMMA ShimStart == ShimInit => ShimInv
<1> SUFFICES ASSUME ShimInit PROVE ShimInv  OBVIOUS
<1>1. \A s \in ShimSlots : g_ctx[s] = Unused_Shim  BY DEF ShimInit
<1>2. \A o \in Objects : find(o) = {}
  BY <1>1, Fresh, ShimAssumption DEF find
<1>3. g_ctx \in [ShimSlots -> ShimRecord] /\ wires \in [Objects -> WireRecord]
  BY Fresh DEF ShimInit
<1>4. \A o \in Objects : wires[o] = Untouched  BY DEF ShimInit
<1> QED BY <1>2, <1>3, <1>4 DEF ShimInv

THEOREM ShimInvariant == ShimSpec => []ShimInv
  BY ShimStart, ShimStep, PTL DEF ShimSpec

\* wg_ossl_feed, wg_ossl_drain, st_read, st_write, alloc_ctx: for any number of slots
\* and objects, and streams of any length, ciphertext keeps its order, each byte once.
THEOREM WireAlwaysInOrder == ShimSpec => []WireInOrder
<1>1. ShimInv => WireInOrder
  <2> SUFFICES ASSUME ShimInv, NEW o \in Objects
               PROVE  Counted(wires[o].taken) /\ Counted(wires[o].drained)
    BY DEF WireInOrder
  <2>1. CASE find(o) = {}
    <3>1. wires[o] = Untouched  BY <2>1 DEF ShimInv
    <3> QED BY <3>1, Fresh
  <2>2. CASE find(o) # {}
    BY <2>2 DEF ShimInv, Streams
  <2> QED BY <2>1, <2>2
<1> QED BY <1>1, ShimInvariant, PTL

\* A slot of nobody is cleared, and no object is fed or sends more than the bound.
ShimSizes ==
    /\ \A o \in Objects : wires[o].fed <= MaxBytes /\ wires[o].sent <= MaxBytes
    /\ \A s \in ShimSlots : g_ctx[s].ssl = NoObject => g_ctx[s].in = Empty /\ g_ctx[s].out = Empty

LEMMA NumbersFit ==
    ASSUME NEW b \in ByteBuffer, NEW made \in Nat, NEW gone \in Nat, Flow(b, made, gone),
           made <= MaxBytes
    PROVE  b \in Buffer /\ b.pos <= Len(b.bytes)
<1>1. /\ b.bytes \in Seq(Int) /\ b.pos \in Nat /\ Len(b.bytes) \in Nat
      /\ b.pos <= Len(b.bytes) /\ Len(b.bytes) <= made
  BY LenProperties DEF ByteBuffer, Flow
<1>2. ASSUME NEW i \in 1 .. Len(b.bytes) PROVE b.bytes[i] \in 1 .. MaxBytes
  <2>1. b.bytes[i] = made - Len(b.bytes) + i  BY DEF Flow
  <2> QED BY <1>1, <2>1, ShimAssumption
<1>3. b.bytes \in Seq(1 .. MaxBytes)
  <2>1. b.bytes \in [1 .. Len(b.bytes) -> 1 .. MaxBytes]  BY <1>1, <1>2, LenProperties
  <2>2. Len(b.bytes) \in Nat  BY <1>1
  <2> QED BY <2>1, <2>2, SeqDef, Zenon
<1>4. b.pos \in 0 .. MaxBytes  BY <1>1, ShimAssumption
<1> QED BY <1>1, <1>3, <1>4 DEF ByteBuffer, Buffer

\* A call changes the history of one object, and its slot keeps or gets that object
\* or is cleared.
LEMMA SizesStep == ShimInv /\ ShimSizes /\ [ShimNext]_shimVars => ShimSizes'
<1> SUFFICES ASSUME ShimInv, ShimSizes, [ShimNext]_shimVars PROVE ShimSizes'  OBVIOUS
<1> DEFINE Rewired(o, w) == wires' = [wires EXCEPT ![o] = w]
           Put(s, c)     == g_ctx' = [g_ctx EXCEPT ![s] = c]
<1>1. ASSUME NEW o \in Objects, NEW s \in ShimSlots, NEW c, NEW w, Put(s, c), Rewired(o, w),
             w.fed <= MaxBytes, w.sent <= MaxBytes, c.ssl = o \/ c = Unused_Shim
      PROVE  ShimSizes'
  <2>1. c.ssl = NoObject => c.in = Empty /\ c.out = Empty
    BY <1>1, Fresh, ShimAssumption
  <2> QED BY <1>1, <2>1 DEF ShimInv, ShimSizes
<1>2. CASE UNCHANGED shimVars  BY <1>2 DEF shimVars, ShimSizes
<1>3. CASE ShimNext
  <2> PICK o \in Objects :
        \/ wg_ossl_attach(o) \/ wg_ossl_set_host(o) \/ wg_ossl_free(o)
        \/ \E n \in 1 .. MaxBytes : wg_ossl_feed(o, n) \/ wg_ossl_drain(o, n)
        \/ \E result \in Results, n \in 0 .. MaxBytes :
             \/ \E k \in 0 .. MaxBytes : wg_ossl_do_handshake(o, result, n, k)
             \/ wg_ossl_write(o, result, n) \/ wg_ossl_read(o, result, n)
    BY <1>3 DEF ShimNext
  <2> DEFINE w == wires[o]
  <2>0. w \in WireRecord /\ w.fed <= MaxBytes /\ w.sent <= MaxBytes
    BY DEF ShimInv, ShimSizes
  <2>1. ASSUME wg_ossl_attach(o) \/ wg_ossl_set_host(o) PROVE ShimSizes'
    <3>1. Rewired(o, w)  BY <2>1 DEF wg_ossl_attach, wg_ossl_set_host, ShimInv
    <3>2. PICK s \in SlotFor(o) : \/ Put(s, [Record(s, o) EXCEPT !.st = TRUE])
                                  \/ Put(s, Record(s, o))
      BY <2>1 DEF wg_ossl_attach, wg_ossl_set_host
    <3>3. s \in ShimSlots /\ Record(s, o) \in ShimRecord /\ Record(s, o).ssl = o
      BY Fresh DEF SlotFor, Record, find, Holes, ShimInv, ShimRecord
    <3>4. [Record(s, o) EXCEPT !.st = TRUE].ssl = o  BY <3>3 DEF ShimRecord
    <3> QED BY <1>1, <2>0, <3>1, <3>2, <3>3, <3>4
  <2>2. ASSUME wg_ossl_free(o) PROVE ShimSizes'
    <3>1. PICK s \in find(o) : Put(s, Unused_Shim)  BY <2>2 DEF wg_ossl_free
    <3>2. Rewired(o, Untouched)                     BY <2>2 DEF wg_ossl_free
    <3>3. s \in ShimSlots  BY DEF find
    <3>4. Untouched.fed <= MaxBytes /\ Untouched.sent <= MaxBytes
      BY ShimAssumption DEF Untouched
    <3> QED BY <1>1, <3>1, <3>2, <3>3, <3>4
  <2>3. ASSUME NEW n \in 1 .. MaxBytes, wg_ossl_feed(o, n) PROVE ShimSizes'
    <3> DEFINE d(s) == Appended(reset_in(g_ctx[s].in), w.fed, n)
    <3>1. PICK s \in find(o) : Put(s, [g_ctx[s] EXCEPT !.in = d(s)])
      BY <2>3 DEF wg_ossl_feed
    <3>2. Rewired(o, [w EXCEPT !.fed = @ + n]) /\ w.fed + n <= MaxBytes
      BY <2>3 DEF wg_ossl_feed
    <3> HIDE DEF d
    <3>3. s \in ShimSlots /\ [g_ctx[s] EXCEPT !.in = d(s)].ssl = o
      BY DEF find, ShimInv, ShimRecord
    <3>4. /\ [w EXCEPT !.fed = @ + n].fed <= MaxBytes
          /\ [w EXCEPT !.fed = @ + n].sent <= MaxBytes
      BY <2>0, <3>2 DEF WireRecord
    <3> QED BY <1>1, <3>1, <3>2, <3>3, <3>4
  <2>4. ASSUME NEW n \in 1 .. MaxBytes, wg_ossl_drain(o, n) PROVE ShimSizes'
    <3> DEFINE copy(s) == IF n < Len(Rest(g_ctx[s].out)) THEN n ELSE Len(Rest(g_ctx[s].out))
               d(s)    == IF g_ctx[s].out.pos + copy(s) = Len(g_ctx[s].out.bytes) THEN Empty
                          ELSE [g_ctx[s].out EXCEPT !.pos = @ + copy(s)]
               more(s) == w.drained \o SubSeq(Rest(g_ctx[s].out), 1, copy(s))
    <3>1. PICK s \in find(o) : /\ Put(s, [g_ctx[s] EXCEPT !.out = d(s)])
                               /\ Rewired(o, [w EXCEPT !.drained = more(s)])
      BY <2>4 DEF wg_ossl_drain
    <3> HIDE DEF copy, d, more
    <3>2. s \in ShimSlots /\ [g_ctx[s] EXCEPT !.out = d(s)].ssl = o
      BY DEF find, ShimInv, ShimRecord
    <3>3. /\ [w EXCEPT !.drained = more(s)].fed <= MaxBytes
          /\ [w EXCEPT !.drained = more(s)].sent <= MaxBytes
      BY <2>0 DEF WireRecord
    <3> QED BY <1>1, <3>1, <3>2, <3>3
  <2>5. ASSUME NEW n \in Nat, NEW k \in Nat, NEW error, SessionCall(o, n, k, error)
        PROVE  ShimSizes'
    <3> DEFINE i(s)   == [g_ctx[s].in EXCEPT !.pos = @ + n]
               out(s) == Appended(g_ctx[s].out, w.sent, k)
               c(s)   == [g_ctx[s] EXCEPT !.in = i(s), !.out = out(s)]
               more(s) == w.taken \o SubSeq(Rest(g_ctx[s].in), 1, n)
    <3>1. PICK s \in find(o) :
            /\ \E e : Put(s, [c(s) EXCEPT !.last_error = e])
            /\ Rewired(o, [w EXCEPT !.taken = more(s), !.sent = w.sent + k])
            /\ w.sent + k <= MaxBytes
      BY <2>5 DEF SessionCall, Session, Moved
    <3> HIDE DEF i, out, more
    <3>2. s \in ShimSlots /\ \A e : [c(s) EXCEPT !.last_error = e].ssl = o
      BY DEF find, ShimInv, ShimRecord
    <3> DEFINE v == [w EXCEPT !.taken = more(s), !.sent = w.sent + k]
    <3>3. v.fed <= MaxBytes /\ v.sent <= MaxBytes
      BY <2>0, <3>1 DEF WireRecord
    <3> HIDE DEF c, v
    <3> QED BY <1>1, <3>1, <3>2, <3>3 DEF v
  <2>6. MaxBytes \in Nat /\ 0 \in Nat /\ \A n \in 0 .. MaxBytes : n \in Nat  BY ShimAssumption
  <2>7. ASSUME NEW result \in Results, NEW n \in 0 .. MaxBytes,
               \/ \E k \in 0 .. MaxBytes : wg_ossl_do_handshake(o, result, n, k)
               \/ wg_ossl_write(o, result, n)
               \/ wg_ossl_read(o, result, n)
        PROVE  ShimSizes'
    BY <2>5, <2>6, <2>7 DEF wg_ossl_do_handshake, wg_ossl_write, wg_ossl_read
  <2> QED BY <2>1, <2>2, <2>3, <2>4, <2>7
<1> QED BY <1>2, <1>3

\* wg_ossl_feed, wg_ossl_drain, st_read, st_write, alloc_ctx: positions stay in their
\* buffers, and what is in a buffer are bytes that were fed or sent.
THEOREM ShimTyped == ShimSpec => []ShimTypeOK
<1>1. ShimInit => ShimSizes
  BY Fresh, ShimAssumption DEF ShimInit, ShimSizes, Untouched
<1>2. ShimInv /\ ShimSizes => ShimTypeOK
  <2> SUFFICES ASSUME ShimInv, ShimSizes PROVE ShimTypeOK  OBVIOUS
  <2>1. ASSUME NEW s \in ShimSlots
        PROVE  /\ g_ctx[s].in \in Buffer /\ g_ctx[s].in.pos <= Len(g_ctx[s].in.bytes)
               /\ g_ctx[s].out \in Buffer /\ g_ctx[s].out.pos <= Len(g_ctx[s].out.bytes)
    <3>1. g_ctx[s].ssl \in Objects \cup {NoObject}  BY DEF ShimInv, ShimRecord
    <3>2. CASE g_ctx[s].ssl = NoObject
      <4>1. g_ctx[s].in = Empty /\ g_ctx[s].out = Empty  BY <3>2 DEF ShimSizes
      <4>2. Empty \in ByteBuffer /\ Flow(Empty, 0, 0) /\ 0 <= MaxBytes
        BY FlowEmpty, ShimAssumption
      <4> QED BY <4>1, <4>2, NumbersFit
    <3>3. CASE g_ctx[s].ssl \in Objects
      <4> DEFINE o == g_ctx[s].ssl
      <4>1. o \in Objects /\ s \in find(o)  BY <3>3 DEF find
      <4> HIDE DEF o
      <4>2. wires[o].fed <= MaxBytes /\ wires[o].sent <= MaxBytes  BY <4>1 DEF ShimSizes
      <4> QED BY <4>1, <4>2, SlotOf, NumbersFit DEF Streams
    <3> QED BY <3>1, <3>2, <3>3
  <2>2. g_ctx \in [ShimSlots -> Shim]
    <3>1. ASSUME NEW s \in ShimSlots PROVE g_ctx[s] \in Shim
      BY <2>1 DEF ShimInv, ShimRecord, Shim
    <3> QED BY <3>1 DEF ShimInv
  <2> QED BY <2>1, <2>2 DEF ShimTypeOK
<1> QED BY <1>1, <1>2, ShimInvariant, SizesStep, PTL DEF ShimSpec

-----------------------------------------------------------------------------
(* WinHTTP: the bytes of a body.                                           *)

\* The sequence q holds the numbers after a.
Seg(q, a) == \A i \in 1 .. Len(q) : q[i] = a + i

HttpRecord ==
    [type : {"free", "session", "connect", "request"}, parent : Handles,
     server : Servers \cup {NoServer}, fd : BOOLEAN, headers : 0 .. MaxHeaders,
     headers_received : BOOLEAN, buf : Seq(Int), content_length : Int,
     total_body_read : Int, origin : Servers \cup {NoServer},
     asked : Servers \cup {NoServer}, got : Seq(Int), wire : Seq(Int), sent : BOOLEAN]

Total(s) == Len(s.got) + Len(s.buf) + Len(s.wire)

\* What was handed over, what is buffered and what is to come continue each other.
BodyRight(s) ==
    /\ Seg(s.got, 0) /\ Seg(s.buf, Len(s.got)) /\ Seg(s.wire, Len(s.got) + Len(s.buf))
    /\ s.total_body_read = Len(s.got)
    /\ s.content_length \in {-1, Total(s)}
    /\ Total(s) <= MaxBody
    /\ ~ s.headers_received =>
         s.got = <<>> /\ s.buf = <<>> /\ s.wire = <<>> /\ s.content_length = -1

BodyInv ==
    /\ slots \in [Handles -> HttpRecord]
    /\ \A h \in Handles : BodyRight(slots[h])

\* The first k bytes of a segment, and the others.
LEMMA SegCut ==
    ASSUME NEW q \in Seq(Int), NEW a \in Int, Seg(q, a), NEW k \in 0 .. Len(q)
    PROVE  /\ SubSeq(q, 1, k) \in Seq(Int) /\ Len(SubSeq(q, 1, k)) = k
           /\ Seg(SubSeq(q, 1, k), a)
           /\ SubSeq(q, k + 1, Len(q)) \in Seq(Int)
           /\ Len(SubSeq(q, k + 1, Len(q))) = Len(q) - k
           /\ Seg(SubSeq(q, k + 1, Len(q)), a + k)
<1>1. Len(q) \in Nat /\ k \in Nat /\ k <= Len(q)  BY LenProperties
<1>2. \A i \in 1 .. Len(q) : q[i] \in Int  BY <1>1, ElementOfSeq
<1> DEFINE p == SubSeq(q, 1, k)
           r == SubSeq(q, k + 1, Len(q))
<1>3. p \in Seq(Int) /\ Len(p) = k /\ \A i \in 1 .. k : p[i] = q[i]
  <2>1. \A i \in 1 .. k : q[i] \in Int  BY <1>1, <1>2
  <2> HIDE DEF p
  <2>2. /\ p \in Seq(Int) /\ Len(p) = IF 1 <= k THEN k - 1 + 1 ELSE 0
        /\ \A i \in 1 .. k - 1 + 1 : p[i] = q[1 + i - 1]
    BY <2>1, SubSeqProperties DEF p
  <2> QED BY <1>1, <2>2
<1>4. r \in Seq(Int) /\ Len(r) = Len(q) - k /\ \A i \in 1 .. Len(q) - k : r[i] = q[k + i]
  BY <1>1, Suffix
<1> HIDE DEF p, r
<1>5. Seg(p, a)  BY <1>1, <1>3 DEF Seg
<1>6. Seg(r, a + k)
  <2> SUFFICES ASSUME NEW i \in 1 .. Len(q) - k PROVE r[i] = a + k + i
    BY <1>4 DEF Seg
  <2>1. k + i \in 1 .. Len(q)  BY <1>1
  <2> QED BY <1>1, <1>4, <2>1 DEF Seg
<1> QED BY <1>3, <1>4, <1>5, <1>6 DEF p, r

LEMMA SegJoin ==
    ASSUME NEW p \in Seq(Int), NEW q \in Seq(Int), NEW a \in Int,
           Seg(p, a), Seg(q, a + Len(p))
    PROVE  p \o q \in Seq(Int) /\ Len(p \o q) = Len(p) + Len(q) /\ Seg(p \o q, a)
<1>1. Len(p) \in Nat /\ Len(q) \in Nat  BY LenProperties
<1> DEFINE j == p \o q
<1>2. /\ j \in Seq(Int) /\ Len(j) = Len(p) + Len(q)
      /\ \A i \in 1 .. Len(p) + Len(q) : j[i] = IF i <= Len(p) THEN p[i] ELSE q[i - Len(p)]
  BY ConcatProperties
<1> HIDE DEF j
<1>3. ASSUME NEW i \in 1 .. Len(j) PROVE j[i] = a + i
  <2>1. CASE i <= Len(p)
    <3>1. i \in 1 .. Len(p)  BY <1>1, <1>2, <2>1
    <3> QED BY <1>2, <2>1, <3>1 DEF Seg
  <2>2. CASE ~ i <= Len(p)
    <3>1. i - Len(p) \in 1 .. Len(q)  BY <1>1, <1>2, <2>2
    <3>2. j[i] = a + Len(p) + (i - Len(p))  BY <1>2, <2>2, <3>1 DEF Seg
    <3> QED BY <1>1, <3>2
  <2> QED BY <2>1, <2>2
<1> QED BY <1>2, <1>3 DEF Seg, j

LEMMA SegJoinFirst ==
    ASSUME NEW p \in Seq(Int), NEW q \in Seq(Int), Seg(p, 0), Seg(q, Len(p))
    PROVE  p \o q \in Seq(Int) /\ Len(p \o q) = Len(p) + Len(q) /\ Seg(p \o q, 0)
<1>1. Len(p) \in Nat  BY LenProperties
<1>2. 0 + Len(p) = Len(p)  BY <1>1
<1>3. Seg(q, 0 + Len(p))  BY <1>2
<1> HIDE DEF Seg
<1> QED BY <1>3, SegJoin

LEMMA BodySeg ==
    ASSUME NEW n \in Nat
    PROVE  Body(n) \in Seq(Int) /\ Len(Body(n)) = n /\ Seg(Body(n), 0)
<1>1. Body(n) \in Seq(Int) /\ Len(Body(n)) = n /\ \A i \in 1 .. n : Body(n)[i] = i
  BY DEF Body
<1> QED BY <1>1 DEF Seg

\* A request with these buffers.
LEMMA BlankRight ==
    ASSUME NEW s \in HttpRecord, s.got = <<>>, s.buf = <<>>, s.wire = <<>>,
           s.content_length = -1, s.total_body_read = 0
    PROVE  BodyRight(s)
<1>1. <<>> \in Seq(Int) /\ Len(<<>>) = 0  OBVIOUS
<1>2. \A a : Seg(<<>>, a)  BY <1>1 DEF Seg
<1> QED BY <1>1, <1>2, HttpAssumption DEF BodyRight, Total

\* A change that leaves the buffers of a slot alone.
LEMMA SameBody ==
    ASSUME NEW s \in HttpRecord, BodyRight(s), NEW r \in HttpRecord,
           r.got = s.got, r.buf = s.buf, r.wire = s.wire,
           r.content_length = s.content_length, r.total_body_read = s.total_body_read,
           r.headers_received = s.headers_received
    PROVE  BodyRight(r)
  BY DEF BodyRight, Total

\* A response: its headers, and the bytes that came with them.
LEMMA AnswerRight ==
    ASSUME NEW s \in HttpRecord, BodyRight(s), ~ s.headers_received, NEW r \in Answers(s)
    PROVE  /\ r \in HttpRecord /\ BodyRight(r)
           /\ r.type = s.type /\ r.parent = s.parent /\ r.fd = s.fd
           /\ r.server = s.server /\ r.asked = s.asked /\ r.origin = s.origin
           /\ r.got = s.got
<1>0. PICK n \in 0 .. MaxBody : \E extra \in 0 .. n, cl \in BOOLEAN :
        r = http_receive_headers(s, n, extra, cl)
  BY DEF Answers
<1>1. PICK extra \in 0 .. n, cl \in BOOLEAN : r = http_receive_headers(s, n, extra, cl)
  BY <1>0
<1>2. n \in Nat /\ extra \in Nat /\ extra <= n /\ n <= MaxBody  BY HttpAssumption
<1> DEFINE b == Body(n)
           p == SubSeq(b, 1, extra)
           w == SubSeq(b, extra + 1, n)
           c == IF cl THEN n ELSE s.content_length
           u == IF extra > 0 THEN p ELSE s.buf
<1>3. b \in Seq(Int) /\ Len(b) = n /\ Seg(b, 0)  BY <1>2, BodySeg
<1> HIDE DEF b
<1>4. /\ p \in Seq(Int) /\ Len(p) = extra /\ Seg(p, 0)
      /\ w \in Seq(Int) /\ Len(w) = n - extra /\ Seg(w, 0 + extra)
  BY <1>2, <1>3, SegCut
<1>5. s.got = <<>> /\ s.buf = <<>> /\ s.content_length = -1 /\ s.total_body_read = 0
      /\ Len(<<>>) = 0 /\ <<>> \in Seq(Int)
  BY EmptySeq DEF BodyRight
<1>6. r = [s EXCEPT !.headers_received = TRUE, !.content_length = c, !.buf = u, !.wire = w]
  BY <1>1 DEF http_receive_headers, b
<1> HIDE DEF p, w
<1>7. u \in Seq(Int) /\ Len(u) = extra /\ Seg(u, 0)
  BY <1>2, <1>4, <1>5 DEF Seg
<1>8. c \in Int /\ c \in {-1, n}  BY <1>2, <1>5
<1> HIDE DEF u, c
<1>9. /\ r \in HttpRecord
      /\ r.headers_received = TRUE /\ r.content_length = c /\ r.buf = u /\ r.wire = w
      /\ r.got = s.got /\ r.total_body_read = s.total_body_read
      /\ r.type = s.type /\ r.parent = s.parent /\ r.fd = s.fd
      /\ r.server = s.server /\ r.asked = s.asked /\ r.origin = s.origin
  BY <1>4, <1>6, <1>7, <1>8 DEF HttpRecord
<1>10. Total(r) = n  BY <1>2, <1>4, <1>5, <1>7, <1>9 DEF Total
<1>11. Seg(r.got, 0)  BY <1>5, <1>9 DEF Seg
<1>12. Seg(r.buf, Len(r.got)) /\ Seg(r.wire, Len(r.got) + Len(r.buf))
  BY <1>2, <1>4, <1>5, <1>7, <1>9
<1>13. BodyRight(r)
  BY <1>2, <1>5, <1>8, <1>9, <1>10, <1>11, <1>12 DEF BodyRight
<1> QED BY <1>9, <1>13

\* The connection made or not made for a request changes nothing else in it.
LEMMA ConnectedRight ==
    ASSUME NEW s \in HttpRecord, NEW server \in Servers \cup {NoServer},
           NEW c \in http_connect_to(s, server)
    PROVE  /\ c.req \in HttpRecord
           /\ c.req.got = s.got /\ c.req.buf = s.buf /\ c.req.wire = s.wire
           /\ c.req.content_length = s.content_length
           /\ c.req.total_body_read = s.total_body_read
           /\ c.req.headers_received = s.headers_received
           /\ c.req.type = s.type /\ c.req.parent = s.parent
           /\ c.req.asked = s.asked /\ c.req.origin = s.origin
           /\ c.opened \in {0, 1}
           /\ \/ c.opened = 0 /\ (c.req = s \/ ~ c.req.fd)
              \/ c.opened = 1 /\ c.req.fd /\ c.req.server = server
           /\ c.ok => c.opened = 1
<1>1. CASE c = [req |-> s, opened |-> 0, ok |-> FALSE]
  BY <1>1
<1>2. CASE c = [req |-> [s EXCEPT !.fd = FALSE], opened |-> 0, ok |-> FALSE]
  <2> DEFINE r == [s EXCEPT !.fd = FALSE]
  <2>1. /\ r \in HttpRecord /\ ~ r.fd
        /\ r.got = s.got /\ r.buf = s.buf /\ r.wire = s.wire
        /\ r.content_length = s.content_length /\ r.total_body_read = s.total_body_read
        /\ r.headers_received = s.headers_received /\ r.type = s.type
        /\ r.parent = s.parent /\ r.asked = s.asked /\ r.origin = s.origin
    BY DEF HttpRecord
  <2> HIDE DEF r
  <2>2. c.req = r /\ c.opened = 0 /\ c.ok = FALSE  BY <1>2 DEF r
  <2> QED BY <2>1, <2>2
<1>3. CASE c = [req |-> [s EXCEPT !.fd = TRUE, !.server = server], opened |-> 1, ok |-> TRUE]
  <2> DEFINE r == [s EXCEPT !.fd = TRUE, !.server = server]
  <2>1. /\ r \in HttpRecord /\ r.fd /\ r.server = server
        /\ r.got = s.got /\ r.buf = s.buf /\ r.wire = s.wire
        /\ r.content_length = s.content_length /\ r.total_body_read = s.total_body_read
        /\ r.headers_received = s.headers_received /\ r.type = s.type
        /\ r.parent = s.parent /\ r.asked = s.asked /\ r.origin = s.origin
    BY DEF HttpRecord
  <2> HIDE DEF r
  <2>2. c.req = r /\ c.opened = 1 /\ c.ok = TRUE  BY <1>3 DEF r
  <2> QED BY <2>1, <2>2
<1> QED BY <1>1, <1>2, <1>3 DEF http_connect_to

\* A redirect forgets the response and keeps what the request was opened with.
LEMMA RedirectedRight ==
    ASSUME NEW s \in HttpRecord, s.got = <<>>, NEW server \in Servers \cup {NoServer}
    PROVE  LET gone == [Redirect(s) EXCEPT !.asked = server]
           IN  /\ gone \in HttpRecord /\ BodyRight(gone) /\ ~ gone.headers_received
               /\ ~ gone.fd /\ gone.asked = server
               /\ gone.type = s.type /\ gone.parent = s.parent /\ gone.origin = s.origin
<1> DEFINE back == Redirect(s)
           gone == [back EXCEPT !.asked = server]
<1>1. <<>> \in Seq(Int) /\ NoServer \in Servers \cup {NoServer}  OBVIOUS
<1>2. back \in HttpRecord
  <2> DEFINE half == [s EXCEPT !.fd = FALSE, !.server = NoServer, !.buf = <<>>, !.wire = <<>>]
  <2>1. half \in HttpRecord  BY <1>1 DEF HttpRecord
  <2>2. back = [half EXCEPT !.headers_received = FALSE, !.content_length = -1,
                            !.total_body_read = 0]
    BY DEF Redirect
  <2> HIDE DEF half, back
  <2>3. -1 \in Int /\ 0 \in Int /\ FALSE \in BOOLEAN  OBVIOUS
  <2> DEFINE two == [half EXCEPT !.headers_received = FALSE, !.content_length = -1]
  <2>4. two \in HttpRecord  BY <2>1, <2>3 DEF HttpRecord
  <2>5. back = [two EXCEPT !.total_body_read = 0]  BY <2>1, <2>2 DEF HttpRecord
  <2> HIDE DEF two
  <2> QED BY <2>3, <2>4, <2>5 DEF HttpRecord
<1>3. /\ ~ back.fd /\ ~ back.headers_received
      /\ back.type = s.type /\ back.parent = s.parent /\ back.origin = s.origin
      /\ back.got = s.got /\ back.buf = <<>> /\ back.wire = <<>>
      /\ back.content_length = -1 /\ back.total_body_read = 0
  BY DEF Redirect, HttpRecord
<1> HIDE DEF back
<1>4. /\ gone \in HttpRecord /\ ~ gone.fd /\ gone.asked = server
      /\ ~ gone.headers_received
      /\ gone.type = s.type /\ gone.parent = s.parent /\ gone.origin = s.origin
      /\ gone.got = s.got /\ gone.buf = <<>> /\ gone.wire = <<>>
      /\ gone.content_length = -1 /\ gone.total_body_read = 0
  BY <1>2, <1>3 DEF HttpRecord
<1> HIDE DEF gone
<1>5. BodyRight(gone)  BY <1>4, BlankRight
<1> QED BY <1>4, <1>5 DEF gone, back

LEMMA BlankSlot ==
    /\ 0 \in Handles
    /\ Blank \in HttpRecord /\ ~ Blank.fd /\ Blank.type = "free"
    /\ \A r \in HttpRecord :
        /\ r.got = Blank.got /\ r.buf = Blank.buf /\ r.wire = Blank.wire
        /\ r.content_length = Blank.content_length
        /\ r.total_body_read = Blank.total_body_read
        => BodyRight(r)
<1>1. 0 \in Handles /\ <<>> \in Seq(Int)
  BY HttpAssumption DEF Handles
<1>2. Blank \in HttpRecord /\ ~ Blank.fd /\ Blank.type = "free"
  BY <1>1, HttpAssumption DEF Blank, HttpRecord, NoServer
<1> QED BY <1>1, <1>2, BlankRight DEF Blank

\* WinHttpQueryDataAvailable moves bytes from the host to the empty buffer.
LEMMA QueriedRight ==
    ASSUME NEW s \in HttpRecord, BodyRight(s), s.buf = <<>>, s.headers_received,
           NEW k \in Nat, k <= Len(s.wire)
    PROVE  LET r == [s EXCEPT !.buf = SubSeq(s.wire, 1, k),
                              !.wire = SubSeq(s.wire, k + 1, Len(s.wire))]
           IN  r \in HttpRecord /\ BodyRight(r)
<1>1. PICK got \in Seq(Int), wire \in Seq(Int) : got = s.got /\ wire = s.wire
  BY DEF HttpRecord
<1> DEFINE b == SubSeq(wire, 1, k)
           w == SubSeq(wire, k + 1, Len(wire))
<1>2. Len(got) \in Nat /\ Len(wire) \in Nat /\ Len(s.buf) = 0
  BY EmptySeq, LenProperties
<1>3. Seg(wire, Len(got))  BY <1>1, <1>2 DEF BodyRight
<1>4. /\ b \in Seq(Int) /\ Len(b) = k /\ Seg(b, Len(got))
      /\ w \in Seq(Int) /\ Len(w) = Len(wire) - k /\ Seg(w, Len(got) + k)
  <2>1. k \in 0 .. Len(wire) /\ Len(got) \in Int  BY <1>1, <1>2
  <2> QED BY <1>3, <2>1, SegCut
<1> HIDE DEF b, w
<1> DEFINE r == [s EXCEPT !.buf = b, !.wire = w]
<1>5. /\ r \in HttpRecord /\ r.buf = b /\ r.wire = w /\ r.got = got
      /\ r.total_body_read = s.total_body_read /\ r.content_length = s.content_length
      /\ r.headers_received = s.headers_received
  BY <1>1, <1>4 DEF HttpRecord
<1>6. r = [s EXCEPT !.buf = SubSeq(s.wire, 1, k), !.wire = SubSeq(s.wire, k + 1, Len(s.wire))]
  BY <1>1 DEF b, w
<1> HIDE DEF r
<1>7. Total(r) = Total(s)
  <2>1. Total(r) = Len(got) + k + (Len(wire) - k)  BY <1>4, <1>5 DEF Total
  <2>2. Total(s) = Len(got) + 0 + Len(wire)  BY <1>1, <1>2 DEF Total
  <2>3. \A x, y \in Nat : x + k + (y - k) = x + 0 + y  OBVIOUS
  <2> QED BY <1>2, <2>1, <2>2, <2>3
<1>8. Seg(r.buf, Len(r.got)) /\ Seg(r.wire, Len(r.got) + Len(r.buf))
  BY <1>4, <1>5
<1>9. BodyRight(r)  BY <1>1, <1>5, <1>7, <1>8 DEF BodyRight
<1> QED BY <1>5, <1>6, <1>9

\* WinHttpReadData hands over the buffer first, and bytes of the host only with all
\* of the buffer.
LEMMA BodyReadRight ==
    ASSUME NEW s \in HttpRecord, BodyRight(s), s.headers_received, NEW n \in Nat,
           NEW give \in Nat, give = IF Len(s.buf) < n THEN Len(s.buf) ELSE n,
           NEW k \in Nat, k <= n - give, k <= Len(s.wire)
    PROVE  LET r == [s EXCEPT !.buf = SubSeq(s.buf, give + 1, Len(s.buf)),
                              !.wire = SubSeq(s.wire, k + 1, Len(s.wire)),
                              !.got = s.got \o SubSeq(s.buf, 1, give) \o SubSeq(s.wire, 1, k),
                              !.total_body_read = s.total_body_read + give + k]
           IN  r \in HttpRecord /\ BodyRight(r)
<1>1. PICK got \in Seq(Int), buf \in Seq(Int), wire \in Seq(Int) :
        got = s.got /\ buf = s.buf /\ wire = s.wire
  BY DEF HttpRecord
<1> DEFINE b1 == SubSeq(buf, 1, give)
           b2 == SubSeq(buf, give + 1, Len(buf))
           w1 == SubSeq(wire, 1, k)
           w2 == SubSeq(wire, k + 1, Len(wire))
<1>2. Len(got) \in Nat /\ Len(buf) \in Nat /\ Len(wire) \in Nat
  BY LenProperties
<1>0. PICK x \in Nat, y \in Nat, z \in Nat : x = Len(got) /\ y = Len(buf) /\ z = Len(wire)
  BY <1>2
<1>3. give \in 0 .. Len(buf) /\ k \in 0 .. Len(wire) /\ (give = Len(buf) \/ k = 0)
  BY <1>1, <1>2
<1>4. Seg(got, 0) /\ Seg(buf, Len(got)) /\ Seg(wire, Len(got) + Len(buf))
  BY <1>1 DEF BodyRight
<1>5. /\ b1 \in Seq(Int) /\ Len(b1) = give /\ Seg(b1, Len(got))
      /\ b2 \in Seq(Int) /\ Len(b2) = Len(buf) - give /\ Seg(b2, Len(got) + give)
  <2>1. Len(got) \in Int  BY <1>2
  <2> QED BY <1>3, <1>4, <2>1, SegCut
<1>6. /\ w1 \in Seq(Int) /\ Len(w1) = k /\ Seg(w1, Len(got) + Len(buf))
      /\ w2 \in Seq(Int) /\ Len(w2) = Len(wire) - k /\ Seg(w2, Len(got) + Len(buf) + k)
  <2>1. Len(got) + Len(buf) \in Int  BY <1>2
  <2> QED BY <1>3, <1>4, <2>1, SegCut
<1> HIDE DEF b1, b2, w1, w2
<1> DEFINE g1 == got \o b1
           g2 == g1 \o w1
<1>7. g1 \in Seq(Int) /\ Len(g1) = x + give /\ Seg(g1, 0)
  <2>1. g1 \in Seq(Int) /\ Len(g1) = Len(got) + Len(b1) /\ Seg(g1, 0)
    BY <1>4, <1>5, SegJoinFirst
  <2> QED BY <1>0, <1>5, <2>1
<1> HIDE DEF g1
<1>8. g2 \in Seq(Int) /\ Len(g2) = x + give + k /\ Seg(g2, 0)
  <2>1. Seg(w1, Len(g1))
    <3>1. CASE k = 0  BY <1>6, <3>1 DEF Seg
    <3>2. CASE give = Len(buf)  BY <1>0, <1>6, <1>7, <3>2
    <3> QED BY <1>3, <3>1, <3>2
  <2>2. g2 \in Seq(Int) /\ Len(g2) = Len(g1) + Len(w1) /\ Seg(g2, 0)
    BY <1>6, <1>7, <2>1, SegJoinFirst
  <2> QED BY <1>6, <1>7, <2>2
<1> HIDE DEF g2
<1> DEFINE t == s.total_body_read + give + k
           r == [s EXCEPT !.buf = b2, !.wire = w2, !.got = g2, !.total_body_read = t]
<1>9. t \in Int /\ t = Len(g2)
  <2>1. s.total_body_read = Len(got)  BY <1>1 DEF BodyRight
  <2> QED BY <1>0, <1>8, <2>1
<1> HIDE DEF t
<1>10. /\ r \in HttpRecord /\ r.buf = b2 /\ r.wire = w2 /\ r.got = g2
       /\ r.total_body_read = t /\ r.content_length = s.content_length
       /\ r.headers_received = s.headers_received
  BY <1>5, <1>6, <1>8, <1>9 DEF HttpRecord
<1>11. r = [s EXCEPT !.buf = SubSeq(s.buf, give + 1, Len(s.buf)),
                     !.wire = SubSeq(s.wire, k + 1, Len(s.wire)),
                     !.got = s.got \o SubSeq(s.buf, 1, give) \o SubSeq(s.wire, 1, k),
                     !.total_body_read = s.total_body_read + give + k]
  BY <1>1 DEF t, g2, g1, b1, b2, w1, w2
<1> HIDE DEF r
<1>12. Seg(b2, Len(g2))
  <2>1. CASE k = 0
    <3>1. Len(g2) = Len(got) + give  BY <1>0, <1>8, <2>1
    <3> QED BY <1>5, <3>1
  <2>2. CASE give = Len(buf)
    <3>1. Len(b2) = 0  BY <1>2, <1>5, <2>2
    <3> QED BY <3>1 DEF Seg
  <2> QED BY <1>3, <2>1, <2>2
<1>13. /\ Len(g2) + Len(b2) = x + y + k
       /\ Len(g2) + Len(b2) + Len(w2) = x + y + z
  <2>1. Len(b2) = y - give /\ Len(w2) = z - k /\ Len(g2) = x + give + k
    BY <1>0, <1>5, <1>6, <1>8
  <2>2. \A a, b, c, d, e \in Nat :
          /\ a + d + e + (b - d) = a + b + e
          /\ a + d + e + (b - d) + (c - e) = a + b + c
    OBVIOUS
  <2>3. PICK d \in Nat, e \in Nat : d = give /\ e = k  OBVIOUS
  <2>4. /\ x + d + e + (y - d) = x + y + e
        /\ x + d + e + (y - d) + (z - e) = x + y + z
    BY <2>2
  <2>5. Len(g2) + Len(b2) = x + d + e + (y - d)  BY <2>1, <2>3
  <2>6. Len(g2) + Len(b2) + Len(w2) = x + d + e + (y - d) + (z - e)
    BY <2>1, <2>3
  <2> QED BY <2>3, <2>4, <2>5, <2>6
<1>14. Total(r) = Total(s)
  BY <1>0, <1>1, <1>10, <1>13 DEF Total
<1>15. Seg(w2, Len(g2) + Len(b2))
  BY <1>0, <1>6, <1>13
<1>16. BodyRight(r)
  BY <1>8, <1>9, <1>10, <1>12, <1>14, <1>15 DEF BodyRight
<1> QED BY <1>10, <1>11, <1>16

-----------------------------------------------------------------------------
(* WinHTTP: every step changes one slot.                                   *)

One(b) == IF b THEN 1 ELSE 0

Becomes(k, r) ==
    /\ r \in HttpRecord /\ BodyRight(r)
    /\ slots' = [slots EXCEPT ![k] = r]

\* Who owns the open connections, and where a request's connection leads.
OwnInv ==
    /\ connections = OpenCount(slots) /\ connections \in Nat
    /\ \A h \in Handles : slots[h].fd =>
         slots[h].type = "request" /\ slots[h].server = slots[h].asked
    /\ \A r \in Requests :
         LET parent == slots[slots[r].parent]
         IN  parent.type = "connect" /\ parent.server = slots[r].origin

\* What a step does to that.
OwnStep(k, r) ==
    /\ connections' = connections + One(r.fd) - One(slots[k].fd)
    /\ r.fd => r.type = "request" /\ r.server = r.asked
    /\ \/ /\ slots[k].type = "request" /\ r.type = "request"
          /\ r.parent = slots[k].parent /\ r.origin = slots[k].origin
       \/ r.type = "free" /\ Children(k) = {}
       \/ /\ slots[k].type = "free"
          /\ r.type = "request" =>
               /\ slots[r.parent].type = "connect"
               /\ r.origin = slots[r.parent].server

\* Whatever the guest does: no connection of a request is one that was closed.
CountInv ==
    /\ connections \in Int /\ connections >= OpenCount(slots)
    /\ \A h \in Handles : slots[h].fd => slots[h].type = "request"

CountStep(k, r) ==
    /\ connections' \in Int /\ connections' >= connections + One(r.fd) - One(slots[k].fd)
    /\ r.fd => r.type = "request"

HttpStep == \E k \in Handles, r \in HttpRecord :
    /\ Becomes(k, r)
    /\ OwnInv /\ HttpGuest = {} => OwnStep(k, r)
    /\ CountInv => CountStep(k, r)

\* The new slots are blank but for their kind, parent and server.
LEMMA NewStep ==
    ASSUME BodyInv, NEW c \in HttpRecord, alloc_handle(c), UNCHANGED connections,
           ~ c.fd, c.got = Blank.got, c.buf = Blank.buf, c.wire = Blank.wire,
           c.content_length = Blank.content_length,
           c.total_body_read = Blank.total_body_read,
           c.type = "request" =>
             slots[c.parent].type = "connect" /\ c.origin = slots[c.parent].server
    PROVE  HttpStep
<1>1. PICK k \in Handles : slots[k].type = "free" /\ slots' = [slots EXCEPT ![k] = c]
  BY DEF alloc_handle
<1>2. BodyRight(c)  BY BlankSlot
<1>3. ASSUME OwnInv PROVE OwnStep(k, c)
  <2>1. ~ slots[k].fd  BY <1>1, <1>3 DEF OwnInv
  <2>2. connections' = connections + One(c.fd) - One(slots[k].fd)
    BY <1>3, <2>1 DEF One, OwnInv
  <2> QED BY <1>1, <2>2 DEF OwnStep
<1>4. Becomes(k, c)  BY <1>1, <1>2 DEF Becomes
<1>5. ASSUME CountInv PROVE CountStep(k, c)
  <2>1. ~ slots[k].fd /\ connections \in Int  BY <1>1, <1>5 DEF CountInv
  <2> QED BY <2>1 DEF One, CountStep
<1> QED BY <1>3, <1>4, <1>5 DEF HttpStep

LEMMA OpenStep ==
    ASSUME BodyInv, WinHttpOpen
    PROVE  HttpStep
<1> DEFINE c == [Blank EXCEPT !.type = "session"]
<1>1. alloc_handle(c) /\ UNCHANGED connections  BY DEF WinHttpOpen
<1>2. /\ c \in HttpRecord /\ ~ c.fd /\ c.type = "session"
      /\ c.got = Blank.got /\ c.buf = Blank.buf /\ c.wire = Blank.wire
      /\ c.content_length = Blank.content_length
      /\ c.total_body_read = Blank.total_body_read
  BY BlankSlot DEF HttpRecord
<1> HIDE DEF c
<1> QED BY <1>1, <1>2, NewStep

LEMMA HttpConnectStep ==
    ASSUME BodyInv, NEW h \in Handles, NEW server \in Servers, WinHttpConnect(h, server)
    PROVE  HttpStep
<1> DEFINE c == [Blank EXCEPT !.type = "connect", !.parent = h, !.server = server]
<1>1. alloc_handle(c) /\ UNCHANGED connections  BY DEF WinHttpConnect
<1>2. /\ c \in HttpRecord /\ ~ c.fd /\ c.type = "connect"
      /\ c.got = Blank.got /\ c.buf = Blank.buf /\ c.wire = Blank.wire
      /\ c.content_length = Blank.content_length
      /\ c.total_body_read = Blank.total_body_read
  BY BlankSlot DEF HttpRecord
<1> HIDE DEF c
<1> QED BY <1>1, <1>2, NewStep

LEMMA OpenRequestStep ==
    ASSUME BodyInv, NEW h \in Handles, WinHttpOpenRequest(h)
    PROVE  HttpStep
<1> DEFINE origin == slots[h].server
           c == [Blank EXCEPT !.type = "request", !.parent = h, !.origin = origin]
<1>1. alloc_handle(c) /\ UNCHANGED connections /\ slots[h].type = "connect"
  BY DEF WinHttpOpenRequest
<1>2. origin \in Servers \cup {NoServer}  BY DEF BodyInv, HttpRecord
<1>3. origin = slots[h].server  OBVIOUS
<1> HIDE DEF origin
<1>4. /\ c \in HttpRecord /\ ~ c.fd /\ c.parent = h /\ c.origin = origin
      /\ c.got = Blank.got /\ c.buf = Blank.buf /\ c.wire = Blank.wire
      /\ c.content_length = Blank.content_length
      /\ c.total_body_read = Blank.total_body_read
  BY <1>2, BlankSlot DEF HttpRecord
<1> HIDE DEF c
<1> QED BY <1>1, <1>3, <1>4, NewStep

LEMMA HttpCloseStep ==
    ASSUME BodyInv, NEW h \in Handles, WinHttpCloseHandle(h)
    PROVE  HttpStep
<1>1. /\ Blank \in HttpRecord /\ BodyRight(Blank) /\ ~ Blank.fd /\ Blank.type = "free"
  BY BlankSlot
<1>2. /\ slots' = [slots EXCEPT ![h] = Blank]
      /\ connections' = IF slots[h].fd THEN connections - 1 ELSE connections
  BY DEF WinHttpCloseHandle, free_handle
<1>3. ASSUME OwnInv, HttpGuest = {} PROVE OwnStep(h, Blank)
  <2>1. Children(h) = {}  BY <1>3 DEF WinHttpCloseHandle
  <2>2. connections' = connections + One(Blank.fd) - One(slots[h].fd)
    BY <1>1, <1>2, <1>3 DEF One, OwnInv
  <2> QED BY <1>1, <2>1, <2>2 DEF OwnStep
<1>4. Becomes(h, Blank)  BY <1>1, <1>2 DEF Becomes
<1>5. ASSUME CountInv PROVE CountStep(h, Blank)
  BY <1>1, <1>2, <1>5 DEF One, CountInv, CountStep
<1> QED BY <1>1, <1>3, <1>4, <1>5 DEF HttpStep

\* A change of a request that leaves its connection alone.
LEMMA SameOwner ==
    ASSUME NEW k \in Handles, NEW r \in HttpRecord, Becomes(k, r),
           slots[k].type = "request", UNCHANGED connections,
           r.type = slots[k].type, r.parent = slots[k].parent,
           r.origin = slots[k].origin, r.fd = slots[k].fd,
           r.server = slots[k].server, r.asked = slots[k].asked
    PROVE  HttpStep
<1>1. ASSUME OwnInv PROVE OwnStep(k, r)
  <2>1. connections' = connections + One(r.fd) - One(slots[k].fd)
    BY <1>1 DEF One, OwnInv
  <2> QED BY <1>1, <2>1 DEF OwnStep, OwnInv
<1>2. ASSUME CountInv PROVE CountStep(k, r)
  BY <1>2 DEF One, CountInv, CountStep
<1> QED BY <1>1, <1>2 DEF HttpStep

LEMMA HeadersStep ==
    ASSUME BodyInv, NEW h \in Handles, WinHttpAddRequestHeaders(h)
    PROVE  HttpStep
<1> DEFINE s == slots[h]
           r == [s EXCEPT !.headers = @ + 1]
<1>1. s \in HttpRecord /\ BodyRight(s)  BY DEF BodyInv
<1>2. /\ s.type = "request" /\ s.headers < MaxHeaders /\ UNCHANGED connections
      /\ slots' = [slots EXCEPT ![h] = r]
  BY DEF WinHttpAddRequestHeaders
<1> HIDE DEF s
<1>3. s.headers + 1 \in 0 .. MaxHeaders
  BY <1>1, <1>2, HttpAssumption DEF HttpRecord
<1>4. /\ r \in HttpRecord
      /\ r.got = s.got /\ r.buf = s.buf /\ r.wire = s.wire
      /\ r.content_length = s.content_length /\ r.total_body_read = s.total_body_read
      /\ r.headers_received = s.headers_received
      /\ r.type = s.type /\ r.parent = s.parent /\ r.origin = s.origin
      /\ r.fd = s.fd /\ r.server = s.server /\ r.asked = s.asked
  BY <1>1, <1>3 DEF HttpRecord
<1> HIDE DEF r
<1>5. BodyRight(r)  BY <1>1, <1>4, SameBody
<1>6. Becomes(h, r)  BY <1>2, <1>4, <1>5 DEF Becomes
<1> QED BY <1>2, <1>4, <1>6, SameOwner DEF s

LEMMA SendStep ==
    ASSUME BodyInv, NEW h \in Handles, WinHttpSendRequest(h)
    PROVE  HttpStep
<1> DEFINE s == slots[h]
           server == slots[s.parent].server
<1>1. s \in HttpRecord /\ BodyRight(s) /\ s.parent \in Handles
  BY DEF BodyInv, HttpRecord
<1>2. server \in Servers \cup {NoServer}  BY <1>1 DEF BodyInv, HttpRecord
<1>3. /\ s.type = "request" /\ (~ s.fd \/ "resend" \in HttpGuest)
      /\ \E c \in http_connect_to(s, server) : \E written \in BOOLEAN :
           /\ slots' = [slots EXCEPT ![h] = [c.req EXCEPT !.sent = c.ok /\ written,
                                                          !.asked = c.req.origin]]
           /\ connections' = connections + c.opened
  BY DEF WinHttpSendRequest
<1>4. PICK c \in http_connect_to(s, server) : \E written \in BOOLEAN :
           /\ slots' = [slots EXCEPT ![h] = [c.req EXCEPT !.sent = c.ok /\ written,
                                                          !.asked = c.req.origin]]
           /\ connections' = connections + c.opened
  BY <1>3
<1>5. PICK written \in BOOLEAN :
           /\ slots' = [slots EXCEPT ![h] = [c.req EXCEPT !.sent = c.ok /\ written,
                                                          !.asked = c.req.origin]]
           /\ connections' = connections + c.opened
  BY <1>4
<1>6. ASSUME OwnInv PROVE server = s.origin
  BY <1>3, <1>6 DEF OwnInv, Requests
<1> HIDE DEF s, server
<1>7. /\ c.req \in HttpRecord
      /\ c.req.got = s.got /\ c.req.buf = s.buf /\ c.req.wire = s.wire
      /\ c.req.content_length = s.content_length
      /\ c.req.total_body_read = s.total_body_read
      /\ c.req.headers_received = s.headers_received
      /\ c.req.type = s.type /\ c.req.parent = s.parent
      /\ c.req.asked = s.asked /\ c.req.origin = s.origin
      /\ c.opened \in {0, 1}
      /\ \/ c.opened = 0 /\ (c.req = s \/ ~ c.req.fd)
         \/ c.opened = 1 /\ c.req.fd /\ c.req.server = server
  BY <1>1, <1>2, ConnectedRight
<1> DEFINE q == c.req
           b == c.ok /\ written
           r == [q EXCEPT !.sent = b, !.asked = q.origin]
<1>8. b \in BOOLEAN  OBVIOUS
<1>9. slots' = [slots EXCEPT ![h] = r] /\ connections' = connections + c.opened
  BY <1>5
<1>10. q \in HttpRecord /\ q.origin \in Servers \cup {NoServer}  BY <1>7 DEF HttpRecord
<1> HIDE DEF q, b
<1>11. /\ r \in HttpRecord
       /\ r.got = q.got /\ r.buf = q.buf /\ r.wire = q.wire
       /\ r.content_length = q.content_length
       /\ r.total_body_read = q.total_body_read
       /\ r.headers_received = q.headers_received
       /\ r.type = q.type /\ r.parent = q.parent /\ r.fd = q.fd
       /\ r.server = q.server /\ r.asked = q.origin /\ r.origin = q.origin
  BY <1>8, <1>10 DEF HttpRecord
<1> HIDE DEF r
<1>12. /\ r.got = s.got /\ r.buf = s.buf /\ r.wire = s.wire
       /\ r.content_length = s.content_length /\ r.total_body_read = s.total_body_read
       /\ r.headers_received = s.headers_received
       /\ r.type = s.type /\ r.parent = s.parent
       /\ r.origin = s.origin /\ r.asked = s.origin
  BY <1>7, <1>11 DEF q
<1>13. BodyRight(r)  BY <1>1, <1>11, <1>12, SameBody
<1>14. Becomes(h, r)  BY <1>9, <1>11, <1>13 DEF Becomes
<1>15. ASSUME OwnInv, HttpGuest = {} PROVE OwnStep(h, r)
  <2>1. ~ s.fd  BY <1>3, <1>15
  <2>2. \/ c.opened = 0 /\ ~ r.fd
        \/ c.opened = 1 /\ r.fd /\ r.server = server
    BY <1>7, <1>11, <2>1 DEF q
  <2>3. connections' = connections + One(r.fd) - One(s.fd)
    BY <1>9, <1>15, <2>1, <2>2 DEF One, OwnInv
  <2>4. r.fd => r.type = "request" /\ r.server = r.asked
    BY <1>3, <1>6, <1>12, <1>15, <2>2
  <2>5. s = slots[h]  BY DEF s
  <2> QED BY <1>3, <1>12, <2>3, <2>4, <2>5 DEF OwnStep
<1>16. ASSUME CountInv PROVE CountStep(h, r)
  <2>1. \/ c.opened = 0 /\ (r.fd = s.fd \/ ~ r.fd)
        \/ c.opened = 1 /\ r.fd
    BY <1>7, <1>11 DEF q
  <2>2. connections \in Int /\ connections' = connections + c.opened  BY <1>9, <1>16 DEF CountInv
  <2>3. r.type = "request" /\ s = slots[h]  BY <1>3, <1>12 DEF s
  <2> QED BY <2>1, <2>2, <2>3 DEF One, CountStep
<1> QED BY <1>11, <1>14, <1>15, <1>16 DEF HttpStep

\* A request after a response, redirected or not.
LEMMA ReceivedStep ==
    ASSUME BodyInv, NEW h \in Handles, slots[h].type = "request", slots[h].fd,
           NEW r \in HttpRecord, BodyRight(r), slots' = [slots EXCEPT ![h] = r],
           r.type = slots[h].type, r.parent = slots[h].parent,
           r.origin = slots[h].origin,
           NEW opened \in {0, 1},
           (r.fd /\ opened = 1) \/ (~ r.fd /\ opened = 0),
           r.fd => r.server = r.asked,
           connections \in Int => connections' = connections - 1 + opened
    PROVE  HttpStep
<1>1. Becomes(h, r)  BY DEF Becomes
<1>2. ASSUME OwnInv PROVE OwnStep(h, r)
  <2>1. connections' = connections + One(r.fd) - One(slots[h].fd)
    BY <1>2 DEF One, OwnInv
  <2>2. r.fd => r.type = "request" /\ r.server = r.asked
    BY <1>2 DEF OwnInv
  <2> QED BY <2>1, <2>2 DEF OwnStep
<1>3. ASSUME CountInv PROVE CountStep(h, r)
  BY <1>3 DEF One, CountInv, CountStep
<1> QED BY <1>1, <1>2, <1>3 DEF HttpStep

LEMMA ReceiveStep ==
    ASSUME BodyInv, NEW h \in Handles, WinHttpReceiveResponse(h)
    PROVE  HttpStep
<1> DEFINE s == slots[h]
<1>1. s \in HttpRecord /\ BodyRight(s) /\ s.parent \in Handles
  BY DEF BodyInv, HttpRecord
<1>2. s.type = "request" /\ s.fd /\ s.sent /\ ~ s.headers_received
  BY DEF WinHttpReceiveResponse
<1>3. CASE UNCHANGED httpVars
  <2>1. slots' = [slots EXCEPT ![h] = s] /\ connections' = connections
    BY <1>3 DEF httpVars, BodyInv
  <2>2. Becomes(h, s)  BY <1>1, <2>1 DEF Becomes
  <2> QED BY <1>1, <1>2, <2>1, <2>2, SameOwner
<1>4. CASE \E r \in Answers(s) : slots' = [slots EXCEPT ![h] = r] /\ UNCHANGED connections
  <2>1. PICK r \in Answers(s) :
          slots' = [slots EXCEPT ![h] = r] /\ UNCHANGED connections
    BY <1>4
  <2>2. /\ r \in HttpRecord /\ BodyRight(r)
        /\ r.type = s.type /\ r.parent = s.parent /\ r.fd = s.fd
        /\ r.server = s.server /\ r.asked = s.asked /\ r.origin = s.origin
    BY <1>1, <1>2, AnswerRight
  <2>3. Becomes(h, r)  BY <2>1, <2>2 DEF Becomes
  <2> QED BY <1>2, <2>1, <2>2, <2>3, SameOwner
<1>5. CASE \E first \in Answers(s), server \in Targets(h) :
        LET gone == [Redirect(first) EXCEPT !.asked = server]
        IN  IF server = NoServer
            THEN /\ slots' = [slots EXCEPT ![h] = gone]
                 /\ connections' = connections - 1
            ELSE \E c \in http_connect_to(gone, server) :
                   \E r \in IF c.ok THEN Answers(c.req) \cup {c.req} ELSE {c.req} :
                      /\ slots' = [slots EXCEPT ![h] = r]
                      /\ connections' = connections - 1 + c.opened
  <2>1. PICK first \in Answers(s), server \in Targets(h) :
        LET gone == [Redirect(first) EXCEPT !.asked = server]
        IN  IF server = NoServer
            THEN /\ slots' = [slots EXCEPT ![h] = gone]
                 /\ connections' = connections - 1
            ELSE \E c \in http_connect_to(gone, server) :
                   \E r \in IF c.ok THEN Answers(c.req) \cup {c.req} ELSE {c.req} :
                      /\ slots' = [slots EXCEPT ![h] = r]
                      /\ connections' = connections - 1 + c.opened
    BY <1>5
  <2> DEFINE gone == [Redirect(first) EXCEPT !.asked = server]
  <2>2. server \in Servers \cup {NoServer}
    BY <1>1 DEF Targets, BodyInv, HttpRecord
  <2>3. /\ first \in HttpRecord /\ BodyRight(first)
        /\ first.type = s.type /\ first.parent = s.parent /\ first.origin = s.origin
        /\ first.got = s.got
    BY <1>1, <1>2, AnswerRight
  <2>4. s.got = <<>>  BY <1>1, <1>2 DEF BodyRight
  <2>5. /\ gone \in HttpRecord /\ BodyRight(gone) /\ ~ gone.headers_received
        /\ ~ gone.fd /\ gone.asked = server
        /\ gone.type = s.type /\ gone.parent = s.parent /\ gone.origin = s.origin
    BY <2>2, <2>3, <2>4, RedirectedRight
  <2>6. CASE server = NoServer
    <3>1. slots' = [slots EXCEPT ![h] = gone] /\ connections' = connections - 1
      BY <2>1, <2>6
    <3> HIDE DEF gone
    <3>2. connections \in Int => connections' = connections - 1 + 0  BY <3>1
    <3> QED BY <1>2, <2>5, <3>1, <3>2, ReceivedStep
  <2>7. CASE server # NoServer
    <3>1. \E c \in http_connect_to(gone, server) :
             \E r \in IF c.ok THEN Answers(c.req) \cup {c.req} ELSE {c.req} :
                      /\ slots' = [slots EXCEPT ![h] = r]
                      /\ connections' = connections - 1 + c.opened
      BY <2>1, <2>7
    <3> HIDE DEF gone, s
    <3>2. PICK c \in http_connect_to(gone, server) :
             \E r \in IF c.ok THEN Answers(c.req) \cup {c.req} ELSE {c.req} :
                      /\ slots' = [slots EXCEPT ![h] = r]
                      /\ connections' = connections - 1 + c.opened
      BY <3>1
    <3>3. PICK r \in IF c.ok THEN Answers(c.req) \cup {c.req} ELSE {c.req} :
                      /\ slots' = [slots EXCEPT ![h] = r]
                      /\ connections' = connections - 1 + c.opened
      BY <3>2
    <3>4. /\ c.req \in HttpRecord
          /\ c.req.got = gone.got /\ c.req.buf = gone.buf /\ c.req.wire = gone.wire
          /\ c.req.content_length = gone.content_length
          /\ c.req.total_body_read = gone.total_body_read
          /\ c.req.headers_received = gone.headers_received
          /\ c.req.type = s.type /\ c.req.parent = s.parent
          /\ c.req.asked = server /\ c.req.origin = s.origin
          /\ c.opened \in {0, 1}
          /\ \/ c.opened = 0 /\ ~ c.req.fd
             \/ c.opened = 1 /\ c.req.fd /\ c.req.server = server
      BY <2>2, <2>5, ConnectedRight
    <3>5. BodyRight(c.req)  BY <2>5, <3>4, SameBody
    <3>6. ~ c.req.headers_received  BY <2>5, <3>4
    <3> DEFINE q == c.req
    <3>7. r = q \/ r \in Answers(q)  BY <3>3
    <3>8. q \in HttpRecord /\ BodyRight(q) /\ ~ q.headers_received
      BY <3>4, <3>5, <3>6
    <3> HIDE DEF q
    <3>9. /\ r \in HttpRecord /\ BodyRight(r)
          /\ r.type = q.type /\ r.parent = q.parent /\ r.fd = q.fd
          /\ r.server = q.server /\ r.asked = q.asked /\ r.origin = q.origin
      BY <3>7, <3>8, AnswerRight
    <3>10. /\ r.type = s.type /\ r.parent = s.parent /\ r.origin = s.origin
           /\ r.asked = server /\ c.opened \in {0, 1}
           /\ \/ c.opened = 0 /\ ~ r.fd
              \/ c.opened = 1 /\ r.fd /\ r.server = server
      BY <3>4, <3>9 DEF q
    <3>11. s = slots[h]  BY DEF s
    <3> QED BY <1>2, <3>3, <3>9, <3>10, <3>11, ReceivedStep
  <2> QED BY <2>6, <2>7
<1> QED BY <1>3, <1>4, <1>5 DEF WinHttpReceiveResponse

LEMMA QueryStep ==
    ASSUME BodyInv, NEW h \in Handles, WinHttpQueryDataAvailable(h)
    PROVE  HttpStep
<1> DEFINE s == slots[h]
<1>1. s \in HttpRecord /\ BodyRight(s)  BY DEF BodyInv
<1>2. s.type = "request" /\ s.buf = <<>> /\ s.headers_received
  BY DEF WinHttpQueryDataAvailable
<1>3. PICK k \in Reads(s.wire, MaxBody) :
        slots' = [slots EXCEPT ![h].buf = SubSeq(s.wire, 1, k),
                               ![h].wire = SubSeq(s.wire, k + 1, Len(s.wire))]
  BY DEF WinHttpQueryDataAvailable
<1>4. k \in Nat /\ k <= Len(s.wire)  BY <1>3, HttpAssumption DEF Reads
<1> DEFINE b == SubSeq(s.wire, 1, k)
           w == SubSeq(s.wire, k + 1, Len(s.wire))
           r == [s EXCEPT !.buf = b, !.wire = w]
<1>5. r \in HttpRecord /\ BodyRight(r)  BY <1>1, <1>2, <1>4, QueriedRight
<1>6. slots' = [slots EXCEPT ![h].buf = b, ![h].wire = w]  BY <1>3
<1> HIDE DEF b, w
<1>7. slots' = [slots EXCEPT ![h] = r]  BY <1>6 DEF BodyInv
<1>8. /\ r.type = s.type /\ r.parent = s.parent /\ r.fd = s.fd
      /\ r.server = s.server /\ r.asked = s.asked /\ r.origin = s.origin
  BY <1>1 DEF HttpRecord
<1> HIDE DEF r
<1>9. Becomes(h, r)  BY <1>5, <1>7 DEF Becomes
<1>10. UNCHANGED connections  BY DEF WinHttpQueryDataAvailable
<1> QED BY <1>2, <1>5, <1>8, <1>9, <1>10, SameOwner

LEMMA ReadStep ==
    ASSUME BodyInv, NEW h \in Handles, NEW n \in 1 .. MaxBody, WinHttpReadData(h, n)
    PROVE  HttpStep
<1> DEFINE s    == slots[h]
           give == IF Len(s.buf) < n THEN Len(s.buf) ELSE n
<1>1. s \in HttpRecord /\ BodyRight(s) /\ s.buf \in Seq(Int) /\ s.wire \in Seq(Int)
  BY DEF BodyInv, HttpRecord
<1>2. s.type = "request" /\ s.headers_received
  BY DEF WinHttpReadData
<1>3. PICK k \in IF s.fd THEN Reads(s.wire, n - give) ELSE {0} :
             slots' = [slots EXCEPT
                    ![h].buf = SubSeq(s.buf, give + 1, Len(s.buf)),
                    ![h].wire = SubSeq(s.wire, k + 1, Len(s.wire)),
                    ![h].got = @ \o SubSeq(s.buf, 1, give) \o SubSeq(s.wire, 1, k),
                    ![h].total_body_read = @ + give + k]
  BY DEF WinHttpReadData
<1>4. Len(s.buf) \in Nat /\ Len(s.wire) \in Nat  BY <1>1, LenProperties
<1>5. n \in Nat /\ give \in Nat /\ give <= n  BY <1>4, HttpAssumption
<1>6. give = IF Len(s.buf) < n THEN Len(s.buf) ELSE n  OBVIOUS
<1> HIDE DEF give
<1>7. k \in Nat /\ k <= n - give /\ k <= Len(s.wire)
  BY <1>3, <1>4, <1>5, SMTT(30) DEF Reads
<1> DEFINE b == SubSeq(s.buf, give + 1, Len(s.buf))
           w == SubSeq(s.wire, k + 1, Len(s.wire))
           g == s.got \o SubSeq(s.buf, 1, give) \o SubSeq(s.wire, 1, k)
           t == s.total_body_read + give + k
           r == [s EXCEPT !.buf = b, !.wire = w, !.got = g, !.total_body_read = t]
<1>8. r \in HttpRecord /\ BodyRight(r)
  <2>1. give \in Nat /\ n \in Nat  BY <1>5
  <2> HIDE DEF s
  <2> QED BY <1>1, <1>2, <1>6, <1>7, <2>1, BodyReadRight
<1>9. slots' = [slots EXCEPT ![h].buf = b, ![h].wire = w, ![h].got = g,
                             ![h].total_body_read = t]
  <2>1. [slots EXCEPT ![h].buf = b, ![h].wire = w, ![h].got = g,
                      ![h].total_body_read = t]
        = [slots EXCEPT ![h].buf = b, ![h].wire = w,
                    ![h].got = @ \o SubSeq(s.buf, 1, give) \o SubSeq(s.wire, 1, k),
                    ![h].total_body_read = @ + give + k]
    BY <1>1 DEF BodyInv, HttpRecord
  <2> QED BY <1>3, <2>1
<1> HIDE DEF b, w, g, t
<1>10. slots' = [slots EXCEPT ![h] = r]  BY <1>9 DEF BodyInv
<1>11. /\ r.type = s.type /\ r.parent = s.parent /\ r.fd = s.fd
       /\ r.server = s.server /\ r.asked = s.asked /\ r.origin = s.origin
  BY <1>1 DEF HttpRecord
<1> HIDE DEF r
<1>12. Becomes(h, r)  BY <1>8, <1>10 DEF Becomes
<1>13. UNCHANGED connections  BY DEF WinHttpReadData
<1> QED BY <1>2, <1>8, <1>11, <1>12, <1>13, SameOwner

LEMMA HttpSteps ==
    ASSUME BodyInv, HttpNext
    PROVE  HttpStep
<1>1. CASE WinHttpOpen  BY <1>1, OpenStep
<1>2. ASSUME NEW h \in Handles, NEW server \in Servers, WinHttpConnect(h, server)
      PROVE  HttpStep
  BY <1>2, HttpConnectStep
<1>3. ASSUME NEW h \in Handles, WinHttpOpenRequest(h) PROVE HttpStep
  BY <1>3, OpenRequestStep
<1>4. ASSUME NEW h \in Handles, WinHttpCloseHandle(h) PROVE HttpStep
  BY <1>4, HttpCloseStep
<1>5. ASSUME NEW h \in Handles, WinHttpAddRequestHeaders(h) PROVE HttpStep
  BY <1>5, HeadersStep
<1>6. ASSUME NEW h \in Handles, WinHttpSendRequest(h) PROVE HttpStep
  BY <1>6, SendStep
<1>7. ASSUME NEW h \in Handles, WinHttpReceiveResponse(h) PROVE HttpStep
  BY <1>7, ReceiveStep
<1>8. ASSUME NEW h \in Handles, WinHttpQueryDataAvailable(h) PROVE HttpStep
  BY <1>8, QueryStep
<1>9. ASSUME NEW h \in Handles, NEW n \in 1 .. MaxBody, WinHttpReadData(h, n)
      PROVE  HttpStep
  BY <1>9, ReadStep
<1> QED BY <1>1, <1>2, <1>3, <1>4, <1>5, <1>6, <1>7, <1>8, <1>9 DEF HttpNext

LEMMA BodyStep ==
    ASSUME BodyInv, [HttpNext]_httpVars
    PROVE  BodyInv'
<1>1. CASE HttpNext
  <2>1. PICK k \in Handles, r \in HttpRecord : Becomes(k, r)
    BY <1>1, HttpSteps DEF HttpStep
  <2> QED BY <2>1 DEF Becomes, BodyInv
<1>2. CASE UNCHANGED httpVars
  BY <1>2 DEF httpVars, BodyInv
<1> QED BY <1>1, <1>2

LEMMA BodyInit ==
    ASSUME HttpInit
    PROVE  BodyInv
  BY BlankSlot DEF HttpInit, BodyInv

LEMMA BodyMeans ==
    ASSUME BodyInv
    PROVE  BodyInOrder
<1> SUFFICES ASSUME NEW h \in Handles, slots[h].headers_received
             PROVE  LET s == slots[h]
                        all == s.got \o s.buf \o s.wire
                    IN  /\ all = Body(Len(all))
                        /\ s.total_body_read = Len(s.got)
                        /\ s.content_length \in {-1, Len(all)}
  BY DEF BodyInOrder, Requests
<1> DEFINE s == slots[h]
<1>1. PICK got \in Seq(Int), buf \in Seq(Int), wire \in Seq(Int) :
        got = s.got /\ buf = s.buf /\ wire = s.wire
  BY DEF BodyInv, HttpRecord
<1>2. BodyRight(s)  BY DEF BodyInv
<1>3. /\ Seg(got, 0) /\ Seg(buf, Len(got)) /\ Seg(wire, Len(got) + Len(buf))
      /\ s.total_body_read = Len(got)
      /\ s.content_length \in {-1, Len(got) + Len(buf) + Len(wire)}
  BY <1>1, <1>2 DEF BodyRight, Total
<1> DEFINE two == got \o buf
           all == two \o wire
<1>4. two \in Seq(Int) /\ Len(two) = Len(got) + Len(buf) /\ Seg(two, 0)
  BY <1>3, SegJoinFirst
<1> HIDE DEF two
<1>5. all \in Seq(Int) /\ Len(all) = Len(two) + Len(wire) /\ Seg(all, 0)
  BY <1>3, <1>4, SegJoinFirst
<1> HIDE DEF all
<1>6. all = Body(Len(all))
  <2>1. Len(all) \in Nat  BY <1>5, LenProperties
  <2>2. Body(Len(all)) \in Seq(Int) /\ Len(Body(Len(all))) = Len(all)
        /\ Seg(Body(Len(all)), 0)
    BY <2>1, BodySeg
  <2>3. \A i \in 1 .. Len(all) : all[i] = Body(Len(all))[i]
    BY <1>5, <2>1, <2>2 DEF Seg
  <2> HIDE DEF Body
  <2> QED BY <1>5, <2>2, <2>3, SeqEqual
<1>7. all = s.got \o s.buf \o s.wire  BY <1>1 DEF all, two
<1>8. Len(all) = Len(got) + Len(buf) + Len(wire)  BY <1>4, <1>5
<1> QED BY <1>1, <1>3, <1>6, <1>7, <1>8

\* BodyInOrder of WGHttp: in every reachable state, for every request that has the
\* headers of a response, what the guest was handed, what is buffered and what the
\* server has yet to send are the body, in order (WinHttpReadData,
\* WinHttpQueryDataAvailable, WinHttpReceiveResponse), whatever the guest does.
THEOREM BodiesInOrder ==
    HttpSpec => []BodyInOrder
<1>1. HttpSpec => []BodyInv
  BY BodyInit, BodyStep, PTL DEF HttpSpec
<1>2. BodyInv => BodyInOrder  BY BodyMeans
<1> QED BY <1>1, <1>2, PTL

-----------------------------------------------------------------------------
(* WinHTTP: the open connections.                                          *)

\* One slot changes: the count follows whether it had and has a connection.
LEMMA OpenCountMoves ==
    ASSUME NEW old \in [Handles -> HttpRecord], NEW k \in Handles, NEW r \in HttpRecord,
           NEW new, new = [old EXCEPT ![k] = r]
    PROVE  /\ OpenCount(old) \in Nat
           /\ OpenCount(new) = OpenCount(old) + One(r.fd) - One(old[k].fd)
<1> DEFINE A == {h \in Handles : old[h].fd}
           B == {h \in Handles : new[h].fd}
<1>1. IsFiniteSet(A) /\ IsFiniteSet(B)
  <2>1. IsFiniteSet(Handles)
    BY HttpAssumption, FS_Interval DEF Handles
  <2> QED BY <2>1, FS_Subset
<1>2. Cardinality(A) \in Nat /\ Cardinality(B) \in Nat
  BY <1>1, FS_CardinalityType
<1>3. \A h \in Handles : h \in B <=> IF h = k THEN r.fd ELSE h \in A
  OBVIOUS
<1>4. k \in A <=> old[k].fd  OBVIOUS
<1>5. A \subseteq Handles /\ B \subseteq Handles  OBVIOUS
<1>6. OpenCount(old) = Cardinality(A) /\ OpenCount(new) = Cardinality(B)
  BY DEF OpenCount
<1> HIDE DEF A, B
<1>7. CASE r.fd /\ old[k].fd
  <2>1. A = B  BY <1>3, <1>4, <1>5, <1>7
  <2> QED BY <1>2, <1>6, <1>7, <2>1 DEF One
<1>8. CASE ~ r.fd /\ ~ old[k].fd
  <2>1. A = B  BY <1>3, <1>4, <1>5, <1>8
  <2> QED BY <1>2, <1>6, <1>8, <2>1 DEF One
<1>9. CASE r.fd /\ ~ old[k].fd
  <2>1. B = A \cup {k} /\ k \notin A  BY <1>3, <1>4, <1>5, <1>9
  <2>2. Cardinality(B) = Cardinality(A) + 1  BY <1>1, <2>1, FS_AddElement
  <2> QED BY <1>2, <1>6, <1>9, <2>2 DEF One
<1>10. CASE ~ r.fd /\ old[k].fd
  <2>1. B = A \ {k} /\ k \in A  BY <1>3, <1>4, <1>5, <1>10
  <2>2. Cardinality(B) = Cardinality(A) - 1  BY <1>1, <2>1, FS_RemoveElement
  <2> QED BY <1>2, <1>6, <1>10, <2>2 DEF One
<1> QED BY <1>7, <1>8, <1>9, <1>10

LEMMA OwnMoves ==
    ASSUME BodyInv, OwnInv, NEW k \in Handles, NEW r \in HttpRecord,
           Becomes(k, r), OwnStep(k, r)
    PROVE  OwnInv'
<1>1. slots \in [Handles -> HttpRecord] /\ slots' = [slots EXCEPT ![k] = r]
      /\ slots' \in [Handles -> HttpRecord]
  BY DEF BodyInv, Becomes
<1>2. \A h \in Handles : slots'[h] = IF h = k THEN r ELSE slots[h]
  BY <1>1
<1>3. connections' = OpenCount(slots') /\ connections' \in Nat
  <2>1. OpenCount(slots') = OpenCount(slots) + One(r.fd) - One(slots[k].fd)
    BY <1>1, OpenCountMoves
  <2>2. slots' = [slots' EXCEPT ![k] = r]  BY <1>1
  <2>3. OpenCount(slots') \in Nat  BY <1>1, <2>2, OpenCountMoves
  <2> QED BY <2>1, <2>3 DEF OwnInv, OwnStep
<1>4. ASSUME NEW h \in Handles, slots'[h].fd
      PROVE  slots'[h].type = "request" /\ slots'[h].server = slots'[h].asked
  BY <1>2, <1>4 DEF OwnInv, OwnStep
<1>5. ASSUME NEW q \in Handles, slots'[q].type = "request"
      PROVE  /\ slots'[slots'[q].parent].type = "connect"
             /\ slots'[slots'[q].parent].server = slots'[q].origin
  <2> DEFINE p == slots'[q].parent
  <2>1. p \in Handles  BY <1>1 DEF HttpRecord
  <2>2. slots[p].type = "connect" /\ slots[p].server = slots'[q].origin
    <3>1. CASE q = k
      <4>1. r.type = "request" /\ slots'[q] = r  BY <1>2, <1>5, <3>1
      <4>2. CASE slots[k].type = "request" /\ r.parent = slots[k].parent
                 /\ r.origin = slots[k].origin
        BY <4>1, <4>2 DEF OwnInv, Requests
      <4>3. CASE slots[r.parent].type = "connect" /\ r.origin = slots[r.parent].server
        BY <4>1, <4>3
      <4> QED BY <4>1, <4>2, <4>3 DEF OwnStep
    <3>2. CASE q # k
      BY <1>2, <1>5, <3>2 DEF OwnInv, Requests
    <3> QED BY <3>1, <3>2
  <2>3. p # k
    <3>1. SUFFICES ASSUME p = k PROVE FALSE  OBVIOUS
    <3>2. slots[k].type = "connect"  BY <2>2, <3>1
    <3>3. r.type = "free" /\ Children(k) = {}  BY <3>2 DEF OwnStep
    <3>4. q # k  BY <1>2, <1>5, <3>3
    <3>5. slots[q].type = "request" /\ slots[q].parent = k
      BY <1>2, <1>5, <3>1, <3>4
    <3> QED BY <3>3, <3>5 DEF Children, Requests
  <2> QED BY <1>2, <2>1, <2>2, <2>3
<1> QED BY <1>3, <1>4, <1>5 DEF OwnInv, Requests

LEMMA OwnInit ==
    ASSUME HttpInit
    PROVE  OwnInv
<1>1. \A h \in Handles : ~ slots[h].fd /\ slots[h].type = "free"
  BY BlankSlot DEF HttpInit
<1>2. {h \in Handles : slots[h].fd} = {}  BY <1>1
<1>3. OpenCount(slots) = 0  BY <1>2, FS_EmptySet DEF OpenCount
<1> QED BY <1>1, <1>3 DEF HttpInit, OwnInv, Requests

LEMMA OwnNext ==
    ASSUME HttpGuest = {}, BodyInv, OwnInv, [HttpNext]_httpVars
    PROVE  OwnInv'
<1>1. CASE HttpNext
  <2>1. PICK k \in Handles, r \in HttpRecord : Becomes(k, r) /\ OwnStep(k, r)
    BY <1>1, HttpSteps DEF HttpStep
  <2> QED BY <2>1, OwnMoves
<1>2. CASE UNCHANGED httpVars
  BY <1>2 DEF httpVars, OwnInv, OpenCount, Requests
<1> QED BY <1>1, <1>2

\* ConnectionsOwned of WGHttp: when the guest sends a request once and closes a
\* connection after its requests, the connections of the host that are open are
\* those of the requests, and lead to the server each request was made for
\* (WinHttpSendRequest, WinHttpReceiveResponse, free_handle).
THEOREM ConnectionsHeld ==
    ASSUME HttpGuest = {}
    PROVE  HttpSpec => []ConnectionsOwned
<1>1. HttpInit => BodyInv /\ OwnInv  BY BodyInit, OwnInit
<1>2. (BodyInv /\ OwnInv) /\ [HttpNext]_httpVars => (BodyInv /\ OwnInv)'
  BY BodyStep, OwnNext
<1>3. BodyInv /\ OwnInv => ConnectionsOwned
  BY DEF OwnInv, ConnectionsOwned, Requests
<1> QED BY <1>1, <1>2, <1>3, PTL DEF HttpSpec

LEMMA CountInitially ==
    ASSUME HttpInit
    PROVE  CountInv
<1>1. OwnInv /\ \A h \in Handles : ~ slots[h].fd  BY OwnInit, BlankSlot DEF HttpInit
<1> QED BY <1>1 DEF OwnInv, CountInv

LEMMA CountNext ==
    ASSUME BodyInv, CountInv, [HttpNext]_httpVars
    PROVE  CountInv'
<1>1. CASE HttpNext
  <2>1. PICK k \in Handles, r \in HttpRecord : Becomes(k, r) /\ CountStep(k, r)
    BY <1>1, HttpSteps DEF HttpStep
  <2>2. /\ slots \in [Handles -> HttpRecord] /\ slots' = [slots EXCEPT ![k] = r]
        /\ \A h \in Handles : slots'[h] = IF h = k THEN r ELSE slots[h]
    BY <2>1 DEF BodyInv, Becomes
  <2>3. /\ OpenCount(slots) \in Nat
        /\ OpenCount(slots') = OpenCount(slots) + One(r.fd) - One(slots[k].fd)
    BY <2>2, OpenCountMoves
  <2>4. connections' \in Int /\ connections' >= OpenCount(slots')
    BY <2>1, <2>3 DEF One, CountInv, CountStep
  <2>5. \A h \in Handles : slots'[h].fd => slots'[h].type = "request"
    BY <2>1, <2>2 DEF CountInv, CountStep
  <2> QED BY <2>4, <2>5 DEF CountInv
<1>2. CASE UNCHANGED httpVars  BY <1>2 DEF httpVars, CountInv, OpenCount
<1> QED BY <1>1, <1>2

\* A part of a body is one of the sequences that bodies are made of.
LEMMA SegBody ==
    ASSUME NEW q \in Seq(Int), NEW a \in Nat, Seg(q, a), a + Len(q) <= MaxBody
    PROVE  q \in Bodies
<1>1. PICK n \in Nat : n = Len(q)  BY LenProperties
<1>2. q = [i \in 1 .. n |-> q[i]]  BY <1>1
<1>3. \A i \in 1 .. n : q[i] \in 1 .. MaxBody  BY <1>1, HttpAssumption DEF Seg
<1>4. q \in [1 .. n -> 1 .. MaxBody]  BY <1>2, <1>3
<1>5. n \in 0 .. MaxBody  BY <1>1, HttpAssumption
<1> QED BY <1>4, <1>5 DEF Bodies

\* HttpTypeOK of WGHttp: whatever handles the guest closes first and however often it
\* sends, every slot of the table is well-formed, no body grows over the one the server
\* has, and no connection is closed that was not open (alloc_handle, http_connect_to,
\* WinHttpReadData, free_handle).
THEOREM HttpTyped == HttpSpec => []HttpTypeOK
<1>1. HttpInit => BodyInv /\ CountInv  BY BodyInit, CountInitially
<1>2. (BodyInv /\ CountInv) /\ [HttpNext]_httpVars => (BodyInv /\ CountInv)'
  BY BodyStep, CountNext
<1>3. BodyInv /\ CountInv => HttpTypeOK
  <2> SUFFICES ASSUME BodyInv, CountInv PROVE HttpTypeOK  OBVIOUS
  <2>1. connections \in Nat
    <3>1. PICK h : h \in Handles  BY HttpAssumption DEF Handles
    <3>2. slots = [slots EXCEPT ![h] = slots[h]] /\ slots[h] \in HttpRecord
      BY <3>1 DEF BodyInv
    <3>3. OpenCount(slots) \in Nat  BY <3>1, <3>2, OpenCountMoves DEF BodyInv
    <3> QED BY <3>3 DEF CountInv
  <2>2. ASSUME NEW h \in Handles PROVE slots[h] \in Slot
    <3>1. PICK s \in HttpRecord : s = slots[h] /\ BodyRight(s)  BY DEF BodyInv
    <3>2. PICK got \in Seq(Int), buf \in Seq(Int), wire \in Seq(Int) :
            got = s.got /\ buf = s.buf /\ wire = s.wire
      BY DEF HttpRecord
    <3>3. Len(got) \in Nat /\ Len(buf) \in Nat /\ Len(wire) \in Nat  BY LenProperties
    <3>4. /\ Seg(got, 0) /\ Seg(buf, Len(got)) /\ Seg(wire, Len(got) + Len(buf))
          /\ s.total_body_read = Len(got)
          /\ s.content_length \in {-1, Len(got) + Len(buf) + Len(wire)}
          /\ Len(got) + Len(buf) + Len(wire) <= MaxBody
      BY <3>1, <3>2 DEF BodyRight, Total
    <3>5. got \in Bodies /\ buf \in Bodies /\ wire \in Bodies
      <4>1. 0 + Len(got) <= MaxBody /\ Len(got) + Len(buf) <= MaxBody
            /\ (Len(got) + Len(buf)) + Len(wire) <= MaxBody
        BY <3>3, <3>4, HttpAssumption
      <4>2. got \in Bodies  BY <3>4, <4>1, SegBody
      <4>3. buf \in Bodies  BY <3>3, <3>4, <4>1, SegBody
      <4>4. Len(got) + Len(buf) \in Nat  BY <3>3
      <4>5. wire \in Bodies  BY <3>4, <4>1, <4>4, SegBody
      <4> QED BY <4>2, <4>3, <4>5
    <3>6. s.content_length \in -1 .. MaxBody /\ s.total_body_read \in 0 .. MaxBody
      BY <3>3, <3>4, HttpAssumption
    <3> QED BY <3>1, <3>2, <3>5, <3>6 DEF HttpRecord, Slot
  <2> QED BY <2>1, <2>2 DEF HttpTypeOK, BodyInv
<1> QED BY <1>1, <1>2, <1>3, PTL DEF HttpSpec

-----------------------------------------------------------------------------
(* Schannel: the records of a connection.                                  *)

\* The guest holds the messages that its session has not taken, in order, and
\* the next one follows them.
FedTo(h) == Len(sessions[h])

GuestRight(h) ==
    /\ Seg(kept[h].held, FedTo(h))
    /\ kept[h].next = FedTo(h) + Len(kept[h].held) + 1
    /\ kept[h].next <= Flight + 1 => kept[h].held = <<>>

TlsInv ==
    /\ TlsTypeOK
    /\ RecordsInOrder
    /\ \A h \in TlsHandles : GuestRight(h)
    /\ \A h \in TlsHandles : h >= next_handle => sessions[h] = <<>>
    /\ \A s \in TlsSlots : /\ contexts[s].ssl \in {0, contexts[s].handle}
                           /\ contexts[s].handle < next_handle

Messages == TlsHandles \X Numbers

LEMMA TlsFacts ==
    /\ \A h \in TlsHandles : h \in Nat /\ h # 0
    /\ \A n : n \in Numbers <=> n \in Nat /\ 1 <= n /\ n <= Flight + MaxRecords
    /\ Flight \in Nat /\ MaxRecords \in Nat /\ MaxHandle \in Nat
  BY TlsAssumption DEF TlsHandles, Numbers

\* The fields of a slot.
LEMMA SlotFields ==
    ASSUME TlsInv, NEW s \in TlsSlots
    PROVE  /\ contexts[s] \in Context
           /\ contexts[s].handle \in 0 .. MaxHandle /\ contexts[s].ssl \in 0 .. MaxHandle
           /\ contexts[s].in_buf \in Seq(Messages)
  BY DEF TlsInv, TlsTypeOK, Context, Messages

LEMMA NoContextTyped == NoContext \in Context
<1>1. <<>> \in Seq(TlsHandles \X Numbers)  OBVIOUS
<1>2. 0 \in 0 .. MaxHandle  BY TlsFacts
<1> QED BY <1>1, <1>2 DEF NoContext, Context

\* What a session takes: the next messages of its own connection.
LEMMA Takes ==
    ASSUME TlsInv, NEW h \in TlsHandles, NEW q \in Seq(Messages),
           \A i \in 1 .. Len(q) : q[i] = <<h, FedTo(h) + i>>,
           sessions' = [sessions EXCEPT ![h] = @ \o q]
    PROVE  /\ sessions' \in [TlsHandles -> Seq(Messages)]
           /\ RecordsInOrder'
           /\ FedTo(h)' = FedTo(h) + Len(q)
           /\ \A g \in TlsHandles : g # h => sessions'[g] = sessions[g]
<1> DEFINE old == sessions[h]
           new == old \o q
<1>1. /\ sessions \in [TlsHandles -> Seq(Messages)] /\ old \in Seq(Messages)
      /\ Len(old) \in Nat /\ Len(q) \in Nat
  BY LenProperties DEF TlsInv, TlsTypeOK, Messages
<1>2. \A i \in 1 .. Len(old) : old[i] = <<h, i>>
  BY <1>1 DEF TlsInv, RecordsInOrder
<1>3. /\ new \in Seq(Messages) /\ Len(new) = Len(old) + Len(q)
      /\ \A i \in 1 .. Len(old) + Len(q) : new[i] = IF i <= Len(old) THEN old[i] ELSE q[i - Len(old)]
  BY <1>1, ConcatProperties
<1>4. sessions' = [sessions EXCEPT ![h] = new]  OBVIOUS
<1>5. FedTo(h) = Len(old)  BY DEF FedTo
<1> HIDE DEF new, old
<1>6. \A i \in 1 .. Len(new) : new[i] = <<h, i>>
  <2> SUFFICES ASSUME NEW i \in 1 .. Len(new) PROVE new[i] = <<h, i>>
    OBVIOUS
  <2>1. CASE i <= Len(old)
    <3>1. i \in 1 .. Len(old)  BY <1>1, <1>3, <2>1
    <3> QED BY <1>2, <1>3, <2>1, <3>1
  <2>2. CASE ~ i <= Len(old)
    <3>1. i - Len(old) \in 1 .. Len(q) /\ Len(old) + (i - Len(old)) = i
      BY <1>1, <1>3, <2>2
    <3>2. q[i - Len(old)] = <<h, i>>  BY <1>5, <3>1
    <3> QED BY <1>3, <2>2, <3>2
  <2> QED BY <2>1, <2>2
<1>7. \A g \in TlsHandles : sessions'[g] = IF g = h THEN new ELSE sessions[g]
  BY <1>1, <1>4
<1>8. sessions' \in [TlsHandles -> Seq(Messages)]
  BY <1>1, <1>3, <1>4
<1>9. RecordsInOrder'
  <2> SUFFICES ASSUME NEW g \in TlsHandles, NEW i \in DOMAIN sessions'[g]
               PROVE  sessions'[g][i] = <<g, i>>
    BY DEF RecordsInOrder
  <2>1. CASE g = h
    <3>1. DOMAIN new = 1 .. Len(new)  BY <1>3, LenProperties
    <3> QED BY <1>6, <1>7, <2>1, <3>1
  <2>2. CASE g # h  BY <1>7, <2>2 DEF TlsInv, RecordsInOrder
  <2> QED BY <2>1, <2>2
<1> QED BY <1>3, <1>5, <1>7, <1>8, <1>9 DEF FedTo

\* The slots after a step that puts c into slot s.
LEMMA ContextsRight ==
    ASSUME TlsInv, NEW s \in TlsSlots, NEW c \in Context,
           contexts' = [contexts EXCEPT ![s] = c],
           c.ssl \in {0, c.handle}, c.handle < next_handle',
           next_handle' \in Int, next_handle <= next_handle'
    PROVE  /\ contexts' \in [TlsSlots -> Context]
           /\ \A t \in TlsSlots : /\ contexts'[t].ssl \in {0, contexts'[t].handle}
                                  /\ contexts'[t].handle < next_handle'
<1>1. next_handle \in Int /\ contexts \in [TlsSlots -> Context]
  BY DEF TlsInv, TlsTypeOK
<1>2. ASSUME NEW t \in TlsSlots
      PROVE  contexts'[t].ssl \in {0, contexts'[t].handle}
             /\ contexts'[t].handle < next_handle'
  <2>1. CASE t = s  BY <1>1, <2>1
  <2>2. CASE t # s
    <3>1. contexts'[t] = contexts[t]  BY <1>1, <2>2
    <3>2. contexts[t].handle \in Int  BY SlotFields
    <3> QED BY <1>1, <3>1, <3>2 DEF TlsInv
  <2> QED BY <2>1, <2>2
<1> QED BY <1>1, <1>2

\* Steps that leave the sessions and the guest's messages alone.
LEMMA TlsTableStep ==
    ASSUME TlsInv, NEW s \in TlsSlots, NEW c \in Context,
           contexts' = [contexts EXCEPT ![s] = c],
           c.ssl \in {0, c.handle}, c.handle < next_handle',
           next_handle' \in 1 .. MaxHandle + 1, next_handle <= next_handle',
           credentials' \subseteq TlsHandles, UNCHANGED <<sessions, kept>>
    PROVE  TlsInv'
<1>1. TlsTypeOK'  BY DEF TlsInv, TlsTypeOK
<1>2. RecordsInOrder'  BY DEF TlsInv, RecordsInOrder
<1>3. \A h \in TlsHandles : GuestRight(h)'
  BY DEF TlsInv, GuestRight, Seg, FedTo
<1>4. next_handle \in Int /\ next_handle' \in Int
  BY DEF TlsInv, TlsTypeOK
<1>5. \A h \in TlsHandles : h >= next_handle' => sessions'[h] = <<>>
  BY <1>4, TlsFacts DEF TlsInv
<1>6. \A t \in TlsSlots : /\ contexts'[t].ssl \in {0, contexts'[t].handle}
                          /\ contexts'[t].handle < next_handle'
  BY <1>4, ContextsRight
<1> QED BY <1>1, <1>2, <1>3, <1>5, <1>6 DEF TlsInv

LEMMA AcquireStep ==
    ASSUME TlsInv, AcquireCredentialsHandle
    PROVE  TlsInv'
<1> DEFINE c == [NoContext EXCEPT !.active = TRUE, !.cred = next_handle]
<1>1. PICK s \in alloc_ctx : contexts' = [contexts EXCEPT ![s] = c]
  BY DEF AcquireCredentialsHandle
<1>2. s \in TlsSlots  BY <1>1 DEF alloc_ctx, FirstOf
<1>3. /\ next_handle <= MaxHandle /\ next_handle' = next_handle + 1
      /\ credentials' = credentials \cup {next_handle} /\ UNCHANGED <<sessions, kept>>
      /\ next_handle \in 1 .. MaxHandle + 1
  BY DEF AcquireCredentialsHandle, TlsInv, TlsTypeOK
<1>4. next_handle \in 0 .. MaxHandle /\ next_handle \in TlsHandles
  BY <1>3, TlsFacts DEF TlsHandles
<1>5. c \in Context /\ c.ssl = 0 /\ c.handle = 0
  BY <1>4, NoContextTyped DEF Context, NoContext
<1>6. next_handle' \in 1 .. MaxHandle + 1 /\ next_handle <= next_handle' /\ 0 < next_handle'
  BY <1>3, TlsFacts
<1>7. credentials' \subseteq TlsHandles  BY <1>3, <1>4 DEF TlsInv, TlsTypeOK
<1> HIDE DEF c
<1> QED BY <1>1, <1>2, <1>3, <1>5, <1>6, <1>7, TlsTableStep

LEMMA DeleteStep ==
    ASSUME TlsInv, NEW h \in TlsHandles, DeleteSecurityContext(h)
    PROVE  TlsInv'
<1>1. PICK s \in find_by_ctx_handle(h) :
        contexts' = [contexts EXCEPT ![s].active = FALSE, ![s].ssl = 0, ![s].in_buf = <<>>]
  BY DEF DeleteSecurityContext
<1>2. s \in TlsSlots  BY <1>1 DEF find_by_ctx_handle, FirstOf
<1> DEFINE c == [contexts[s] EXCEPT !.active = FALSE, !.ssl = 0, !.in_buf = <<>>]
<1>3. contexts' = [contexts EXCEPT ![s] = c]
  BY <1>1, <1>2 DEF TlsInv, TlsTypeOK
<1>4. contexts[s] \in Context /\ contexts[s].handle < next_handle
  BY <1>2 DEF TlsInv, TlsTypeOK
<1>5. 0 \in 0 .. MaxHandle /\ <<>> \in Seq(TlsHandles \X Numbers)  BY TlsFacts
<1>6. c \in Context /\ c.ssl = 0 /\ c.handle = contexts[s].handle
  BY <1>4, <1>5 DEF Context
<1> HIDE DEF c
<1>7. UNCHANGED <<next_handle, sessions, credentials, kept>>
  BY DEF DeleteSecurityContext
<1>8. next_handle \in 1 .. MaxHandle + 1 /\ credentials \subseteq TlsHandles
  BY DEF TlsInv, TlsTypeOK
<1>9. /\ next_handle' \in 1 .. MaxHandle + 1 /\ next_handle <= next_handle'
      /\ credentials' \subseteq TlsHandles /\ c.handle < next_handle'
  BY <1>4, <1>6, <1>7, <1>8, TlsFacts
<1> QED BY <1>2, <1>3, <1>6, <1>7, <1>9, TlsTableStep

LEMMA TlsFreeStep ==
    ASSUME TlsInv, NEW h \in credentials, FreeCredentialsHandle(h)
    PROVE  TlsInv'
<1>1. /\ UNCHANGED <<contexts, next_handle, sessions, kept>>
      /\ credentials' = credentials \ {h}
  BY DEF FreeCredentialsHandle
<1> QED BY <1>1 DEF TlsInv, TlsTypeOK, RecordsInOrder, GuestRight, Seg, FedTo

LEMMA InitialStep ==
    ASSUME TlsInv, NEW cred \in credentials, InitializeSecurityContext(cred)
    PROVE  TlsInv'
<1> DEFINE n == next_handle
           reused == FirstWithCred(cred) # {}
           S == IF reused THEN FirstWithCred(cred) ELSE alloc_ctx
           Opened(s) == IF reused THEN contexts[s] ELSE NoContext
           Made(s) == [Opened(s) EXCEPT !.active = TRUE, !.handle = n, !.ssl = n]
<1>1. PICK s \in S : contexts' = [contexts EXCEPT ![s] = Made(s)]
  BY DEF InitializeSecurityContext
<1>2. s \in TlsSlots  BY <1>1 DEF alloc_ctx, FirstWithCred, FirstOf
<1>3. /\ n <= MaxHandle /\ next_handle' = n + 1 /\ UNCHANGED <<sessions, credentials>>
      /\ kept' = [kept EXCEPT ![n] = [next |-> 1, held |-> <<>>]]
  BY DEF InitializeSecurityContext
<1>4. n \in 1 .. MaxHandle + 1 /\ credentials \subseteq TlsHandles
  BY DEF TlsInv, TlsTypeOK
<1>5. n \in 0 .. MaxHandle /\ n \in TlsHandles
  BY <1>3, <1>4, TlsFacts DEF TlsHandles
<1>6. Opened(s) \in Context
  BY <1>2, NoContextTyped DEF TlsInv, TlsTypeOK
<1> DEFINE c == Made(s)
<1>7. c \in Context /\ c.ssl = n /\ c.handle = n
  <2> DEFINE f == Opened(s)
  <2>1. f \in Context  BY <1>6
  <2> HIDE DEF f, n
  <2>2. [f EXCEPT !.active = TRUE, !.handle = n, !.ssl = n] \in Context
        /\ [f EXCEPT !.active = TRUE, !.handle = n, !.ssl = n].ssl = n
        /\ [f EXCEPT !.active = TRUE, !.handle = n, !.ssl = n].handle = n
    BY <1>5, <2>1 DEF Context
  <2> QED BY <2>2 DEF f
<1>8. contexts' = [contexts EXCEPT ![s] = c]  BY <1>1
<1> HIDE DEF c, Made, Opened, S, reused
<1>9. sessions[n] = <<>>  BY <1>4, <1>5 DEF TlsInv
<1>10. [next |-> 1, held |-> <<>>] \in Guest
  <2>1. <<>> \in Seq(Numbers) /\ 1 \in 1 .. Flight + MaxRecords + 1
    BY TlsFacts
  <2> QED BY <2>1 DEF Guest
<1>11. TlsTypeOK'
  <2>1. n + 1 \in 1 .. MaxHandle + 1  BY <1>5, TlsFacts DEF TlsHandles
  <2> QED BY <1>2, <1>3, <1>7, <1>8, <1>10, <2>1 DEF TlsInv, TlsTypeOK
<1>12. RecordsInOrder'  BY <1>3 DEF TlsInv, RecordsInOrder
<1>13. ASSUME NEW h \in TlsHandles PROVE GuestRight(h)'
  <2>1. CASE h = n
    <3>1. kept'[h].next = 1 /\ kept'[h].held = <<>> /\ Len(<<>>) = 0
      BY <1>3, <1>5, <2>1 DEF TlsInv, TlsTypeOK
    <3>2. FedTo(h)' = 0  BY <1>3, <1>9, <2>1 DEF FedTo
    <3> QED BY <3>1, <3>2 DEF GuestRight, Seg
  <2>2. CASE h # n
    <3>1. kept'[h] = kept[h] /\ sessions'[h] = sessions[h]
      BY <1>3, <2>2 DEF TlsInv, TlsTypeOK
    <3>2. GuestRight(h)  BY DEF TlsInv
    <3> QED BY <3>1, <3>2 DEF GuestRight, Seg, FedTo
  <2> QED BY <2>1, <2>2
<1>14. \A h \in TlsHandles : h >= next_handle' => sessions'[h] = <<>>
  BY <1>3, <1>4, TlsFacts DEF TlsInv
<1>15. \A t \in TlsSlots : /\ contexts'[t].ssl \in {0, contexts'[t].handle}
                           /\ contexts'[t].handle < next_handle'
  <2>1. next_handle' \in Int /\ next_handle <= next_handle' /\ c.handle < next_handle'
    BY <1>3, <1>4, <1>7
  <2> QED BY <1>2, <1>7, <1>8, <2>1, ContextsRight
<1> QED BY <1>11, <1>12, <1>13, <1>14, <1>15 DEF TlsInv

\* Steps that change the slot of a context and the messages its guest holds.
LEMMA MessageStep ==
    ASSUME TlsInv, NEW h \in TlsHandles, NEW q \in Seq(Messages), NEW g \in Guest,
           \A i \in 1 .. Len(q) : q[i] = <<h, FedTo(h) + i>>,
           sessions' = [sessions EXCEPT ![h] = @ \o q],
           h < next_handle \/ q = <<>>,
           kept' = [kept EXCEPT ![h] = g],
           Seg(g.held, FedTo(h) + Len(q)),
           g.next = FedTo(h) + Len(q) + Len(g.held) + 1,
           g.next <= Flight + 1 => g.held = <<>>,
           contexts' \in [TlsSlots -> Context],
           \A s \in TlsSlots : /\ contexts'[s].handle = contexts[s].handle
                               /\ contexts'[s].ssl = contexts[s].ssl,
           UNCHANGED <<next_handle, credentials>>
    PROVE  TlsInv'
<1>1. /\ sessions' \in [TlsHandles -> Seq(Messages)]
      /\ RecordsInOrder'
      /\ FedTo(h)' = FedTo(h) + Len(q)
      /\ \A f \in TlsHandles : f # h => sessions'[f] = sessions[f]
  BY Takes
<1>2. TlsTypeOK'  BY <1>1 DEF TlsInv, TlsTypeOK, Messages
<1>3. ASSUME NEW f \in TlsHandles PROVE GuestRight(f)'
  <2>1. CASE f = h
    <3>1. kept'[f] = g  BY <2>1 DEF TlsInv, TlsTypeOK
    <3>2. Len(sessions'[f]) = FedTo(h) + Len(q)  BY <1>1, <2>1 DEF FedTo
    <3>3. Seg(kept'[f].held, Len(sessions'[f]))  BY <3>1, <3>2
    <3>4. kept'[f].next = Len(sessions'[f]) + Len(kept'[f].held) + 1  BY <3>1, <3>2
    <3>5. kept'[f].next <= Flight + 1 => kept'[f].held = <<>>  BY <3>1
    <3> QED BY <3>3, <3>4, <3>5 DEF GuestRight, FedTo, Seg
  <2>2. CASE f # h
    <3>1. kept'[f] = kept[f] /\ sessions'[f] = sessions[f]
      BY <1>1, <2>2 DEF TlsInv, TlsTypeOK
    <3>2. GuestRight(f)  BY DEF TlsInv
    <3> QED BY <3>1, <3>2 DEF GuestRight, Seg, FedTo
  <2> QED BY <2>1, <2>2
<1>4. ASSUME NEW f \in TlsHandles, f >= next_handle' PROVE sessions'[f] = <<>>
  <2>1. sessions[f] = <<>>  BY <1>4 DEF TlsInv
  <2>2. CASE f # h  BY <1>1, <2>1, <2>2
  <2>3. CASE f = h
    <3>1. next_handle \in Int /\ ~ h < next_handle
      BY <1>4, <2>3, TlsFacts DEF TlsInv, TlsTypeOK
    <3>2. q = <<>>  BY <3>1
    <3>3. sessions'[f] = <<>> \o <<>>
      BY <2>1, <2>3, <3>2 DEF TlsInv, TlsTypeOK
    <3> QED BY <3>3
  <2> QED BY <2>2, <2>3
<1>5. \A s \in TlsSlots : /\ contexts'[s].ssl \in {0, contexts'[s].handle}
                          /\ contexts'[s].handle < next_handle'
  BY DEF TlsInv
<1> QED BY <1>1, <1>2, <1>3, <1>4, <1>5 DEF TlsInv

\* The messages from number a + 1 on, as a session takes them.
LEMMA Numbered ==
    ASSUME NEW h \in TlsHandles, NEW a \in Nat, NEW n \in Nat, a + n <= Flight + MaxRecords,
           NEW q, q = [i \in 1 .. n |-> <<h, a + i>>]
    PROVE  /\ q \in Seq(Messages) /\ Len(q) = n
           /\ \A i \in 1 .. Len(q) : q[i] = <<h, a + i>>
<1>1. \A i \in 1 .. n : a + i \in Numbers  BY TlsFacts
<1>2. \A i \in 1 .. n : <<h, a + i>> \in Messages  BY <1>1 DEF Messages
<1>3. q \in [1 .. n -> Messages] /\ \A i \in 1 .. n : q[i] = <<h, a + i>>  BY <1>2
<1>4. q \in UNION {[1 .. k -> Messages] : k \in Nat}  BY <1>3
<1>5. q \in Seq(Messages)  BY <1>4, SeqDef, Zenon
<1>6. Len(q) = n  BY <1>3, <1>5, LenProperties
<1> QED BY <1>3, <1>5, <1>6

\* A context with a session is the context the session was made for.
LEMMA SessionOf ==
    ASSUME TlsInv, NEW h \in TlsHandles, NEW s \in find_by_ctx_handle(h),
           contexts[s].ssl # 0
    PROVE  s \in TlsSlots /\ contexts[s].ssl = h /\ h < next_handle
<1>1. s \in TlsSlots /\ contexts[s].handle = h
  BY DEF find_by_ctx_handle, FirstOf, HasHandle
<1> QED BY <1>1 DEF TlsInv

LEMMA KeptFields ==
    ASSUME TlsInv, NEW h \in TlsHandles
    PROVE  /\ kept[h].next \in Nat /\ kept[h].next <= Flight + MaxRecords + 1
           /\ kept[h].held \in Seq(Numbers) /\ Len(kept[h].held) \in Nat
           /\ FedTo(h) \in Nat
           /\ Seg(kept[h].held, FedTo(h))
           /\ kept[h].next = FedTo(h) + Len(kept[h].held) + 1
           /\ kept[h].next <= Flight + 1 => kept[h].held = <<>>
<1>1. kept[h].next \in 1 .. Flight + MaxRecords + 1 /\ kept[h].held \in Seq(Numbers)
      /\ sessions[h] \in Seq(Messages)
  BY DEF TlsInv, TlsTypeOK, Guest, Messages
<1>2. Len(kept[h].held) \in Nat /\ Len(sessions[h]) \in Nat  BY <1>1, LenProperties
<1>3. GuestRight(h)  BY DEF TlsInv
<1>4. kept[h].next \in Nat /\ kept[h].next <= Flight + MaxRecords + 1
  BY <1>1, TlsFacts
<1>5. FedTo(h) \in Nat  BY <1>2 DEF FedTo
<1> HIDE DEF Seg, FedTo
<1> QED BY <1>1, <1>2, <1>3, <1>4, <1>5 DEF GuestRight

LEMMA ContinueStep ==
    ASSUME TlsInv, NEW h \in TlsHandles, NEW n \in 1 .. Flight,
           ContinueSecurityContext(h, n)
    PROVE  TlsInv'
<1>1. PICK s \in find_by_ctx_handle(h) :
         /\ contexts[s].ssl # 0
         /\ contexts' = [contexts EXCEPT ![s].in_buf = <<>>,
                                         ![s].done = @ \/ kept[h].next + n = Flight + 1]
         /\ sessions' = [sessions EXCEPT ![contexts[s].ssl] =
                            @ \o [i \in 1 .. n |-> <<h, kept[h].next + i - 1>>]]
  BY DEF ContinueSecurityContext
<1>2. s \in TlsSlots /\ contexts[s].ssl = h /\ h < next_handle  BY <1>1, SessionOf
<1>3. /\ kept[h].next + n <= Flight + 1 /\ UNCHANGED <<next_handle, credentials>>
      /\ kept' = [kept EXCEPT ![h].next = @ + n]
      /\ n \in Nat /\ 1 <= n
  BY TlsFacts DEF ContinueSecurityContext
<1>4. PICK a \in Nat : a = FedTo(h)  BY KeptFields
<1>5. kept[h].held = <<>> /\ kept[h].next = a + 1
  <2>1. kept[h].next \in Nat /\ kept[h].next <= Flight + 1
    BY <1>3, KeptFields, TlsFacts
  <2>2. kept[h].held = <<>> /\ Len(<<>>) = 0  BY <2>1, KeptFields
  <2>3. kept[h].next = a + 0 + 1  BY <1>4, <2>2, KeptFields
  <2> QED BY <2>2, <2>3
<1> DEFINE q == [i \in 1 .. n |-> <<h, kept[h].next + i - 1>>]
           g == [kept[h] EXCEPT !.next = @ + n]
<1>6. q = [i \in 1 .. n |-> <<h, a + i>>]
  <2>1. \A i \in 1 .. n : kept[h].next + i - 1 = a + i  BY <1>5
  <2> QED BY <2>1
<1>7. sessions' = [sessions EXCEPT ![h] = @ \o q]  BY <1>1, <1>2
<1> HIDE DEF q
<1>8. a + n <= Flight + MaxRecords  BY <1>3, <1>5, TlsFacts
<1>9. q \in Seq(Messages) /\ Len(q) = n /\ \A i \in 1 .. Len(q) : q[i] = <<h, a + i>>
  BY <1>3, <1>6, <1>8, Numbered
<1>10. /\ g \in Guest /\ g.next = a + n + 1 /\ g.held = <<>>
       /\ kept' = [kept EXCEPT ![h] = g]
  <2>1. kept[h] \in Guest  BY DEF TlsInv, TlsTypeOK
  <2>2. kept[h].next + n \in 1 .. Flight + MaxRecords + 1 /\ kept[h].next + n = a + n + 1
    BY <1>3, <1>5, TlsFacts
  <2> QED BY <1>3, <1>5, <2>1, <2>2 DEF Guest, TlsInv, TlsTypeOK
<1> HIDE DEF g
<1>11. Seg(g.held, a + Len(q)) /\ g.next = a + Len(q) + Len(g.held) + 1
  <2>1. Len(g.held) = 0  BY <1>10
  <2>2. Seg(g.held, a + Len(q))  BY <2>1 DEF Seg
  <2> QED BY <1>3, <1>9, <1>10, <2>1, <2>2
<1> DEFINE b == contexts[s].done \/ kept[h].next + n = Flight + 1
           c == [contexts[s] EXCEPT !.in_buf = <<>>, !.done = b]
<1>12. contexts' = [contexts EXCEPT ![s] = c]
  BY <1>1, <1>2 DEF TlsInv, TlsTypeOK
<1>13. b \in BOOLEAN  OBVIOUS
<1> HIDE DEF b
<1>14. c \in Context /\ c.handle = contexts[s].handle /\ c.ssl = contexts[s].ssl
  <2>1. contexts[s] \in Context /\ <<>> \in Seq(TlsHandles \X Numbers)
    BY <1>2, SlotFields
  <2> QED BY <1>13, <2>1 DEF Context
<1> HIDE DEF c
<1>15. /\ contexts' \in [TlsSlots -> Context]
       /\ \A t \in TlsSlots : /\ contexts'[t].handle = contexts[t].handle
                              /\ contexts'[t].ssl = contexts[t].ssl
  BY <1>2, <1>12, <1>14 DEF TlsInv, TlsTypeOK
<1> HIDE DEF Seg
<1>16. \A i \in 1 .. Len(q) : q[i] = <<h, FedTo(h) + i>>  BY <1>4, <1>9
<1>17. /\ Seg(g.held, FedTo(h) + Len(q)) /\ g.next = FedTo(h) + Len(q) + Len(g.held) + 1
       /\ g.next <= Flight + 1 => g.held = <<>>
  BY <1>4, <1>10, <1>11
<1>18. /\ h < next_handle /\ q \in Seq(Messages) /\ g \in Guest
       /\ kept' = [kept EXCEPT ![h] = g] /\ UNCHANGED <<next_handle, credentials>>
  BY <1>2, <1>3, <1>9, <1>10
<1> QED BY <1>7, <1>15, <1>16, <1>17, <1>18, MessageStep

LEMMA ArrivalStep ==
    ASSUME TlsInv, NEW h \in TlsHandles, RecordArrives(h)
    PROVE  TlsInv'
<1>1. /\ kept[h].next \in Flight + 1 .. Flight + MaxRecords
      /\ kept' = [kept EXCEPT ![h] = [next |-> @.next + 1, held |-> Append(@.held, @.next)]]
      /\ UNCHANGED <<contexts, next_handle, sessions, credentials>>
  BY DEF RecordArrives
<1>2. PICK a \in Nat, m \in Nat : a = FedTo(h) /\ m = Len(kept[h].held)
  BY KeptFields
<1>3. /\ kept[h].held \in Seq(Numbers) /\ Seg(kept[h].held, a) /\ kept[h].next = a + m + 1
      /\ kept[h].next \in Numbers
  BY <1>1, <1>2, KeptFields, TlsFacts
<1> DEFINE old == kept[h].held
           new == Append(old, kept[h].next)
           g == [next |-> kept[h].next + 1, held |-> new]
<1>4. new \in Seq(Numbers) /\ Len(new) = m + 1 /\ new[m + 1] = a + m + 1
      /\ \A i \in 1 .. m : new[i] = old[i]
  <2> HIDE DEF old
  <2>1. old \in Seq(Numbers) /\ kept[h].next \in Numbers /\ Len(old) = m
    BY <1>2, <1>3 DEF old
  <2> QED BY <1>3, <2>1, AppendProperties
<1>5. kept' = [kept EXCEPT ![h] = g]  BY <1>1
<1> HIDE DEF new
<1>6. Seg(new, a)
  <2> SUFFICES ASSUME NEW i \in 1 .. m + 1 PROVE new[i] = a + i  BY <1>4 DEF Seg
  <2>1. CASE i = m + 1  BY <1>4, <2>1
  <2>2. CASE i # m + 1
    <3>1. i \in 1 .. m  BY <2>2
    <3> QED BY <1>2, <1>3, <1>4, <3>1 DEF Seg
  <2> QED BY <2>1, <2>2
<1>7. g \in Guest /\ g.next = a + 0 + Len(g.held) + 1 /\ g.held = new /\ g.next > Flight + 1
  <2>1. kept[h].next + 1 \in 1 .. Flight + MaxRecords + 1 /\ kept[h].next + 1 > Flight + 1
    BY <1>1, TlsFacts
  <2> QED BY <1>3, <1>4, <2>1 DEF Guest
<1> HIDE DEF g
<1>8. ~ g.next <= Flight + 1
  <2>1. g.next \in Int  BY <1>7, TlsFacts DEF Guest
  <2> QED BY <1>7, <2>1, TlsFacts
<1>9. /\ <<>> \in Seq(Messages) /\ Len(<<>>) = 0
      /\ sessions' = [sessions EXCEPT ![h] = @ \o <<>>]
  <2>1. sessions[h] \in Seq(Messages) /\ sessions \in [TlsHandles -> Seq(Messages)]
    BY DEF TlsInv, TlsTypeOK, Messages
  <2>2. sessions[h] \o <<>> = sessions[h]  BY <2>1, ConcatEmptySeq
  <2> QED BY <1>1, <2>1, <2>2
<1>10. Seg(g.held, a + Len(<<>>)) /\ g.next = a + Len(<<>>) + Len(g.held) + 1
  <2>1. a + Len(<<>>) = a + 0 /\ a + 0 = a  BY <1>9
  <2> QED BY <1>6, <1>7, <2>1
<1>11. /\ contexts' \in [TlsSlots -> Context]
       /\ \A t \in TlsSlots : /\ contexts'[t].handle = contexts[t].handle
                              /\ contexts'[t].ssl = contexts[t].ssl
  BY <1>1 DEF TlsInv, TlsTypeOK
<1>12. \A i \in 1 .. Len(<<>>) : <<>>[i] = <<h, a + i>>  BY <1>9
<1> QED BY <1>1, <1>2, <1>5, <1>7, <1>8, <1>9, <1>10, <1>11, <1>12, MessageStep

\* The first k elements of a sequence, and the others.
LEMMA FirstAndRest ==
    ASSUME NEW S, NEW q \in Seq(S), NEW k \in Nat, k <= Len(q)
    PROVE  /\ SubSeq(q, 1, k) \in Seq(S) /\ Len(SubSeq(q, 1, k)) = k
           /\ \A i \in 1 .. k : SubSeq(q, 1, k)[i] = q[i]
           /\ SubSeq(q, k + 1, Len(q)) \in Seq(S)
           /\ Len(SubSeq(q, k + 1, Len(q))) = Len(q) - k
           /\ \A i \in 1 .. Len(q) - k : SubSeq(q, k + 1, Len(q))[i] = q[k + i]
<1>1. Len(q) \in Nat  BY LenProperties
<1>2. \A i \in 1 .. k : q[i] \in S  BY <1>1, ElementOfSeq
<1> DEFINE p == SubSeq(q, 1, k)
           r == SubSeq(q, k + 1, Len(q))
<1>3. p \in Seq(S) /\ Len(p) = k /\ \A i \in 1 .. k : p[i] = q[i]
  <2> HIDE DEF p
  <2>1. /\ p \in Seq(S) /\ Len(p) = IF 1 <= k THEN k - 1 + 1 ELSE 0
        /\ \A i \in 1 .. k - 1 + 1 : p[i] = q[1 + i - 1]
    BY <1>2, SubSeqProperties DEF p
  <2> QED BY <1>1, <2>1
<1>4. r \in Seq(S) /\ Len(r) = Len(q) - k /\ \A i \in 1 .. Len(q) - k : r[i] = q[k + i]
  BY <1>1, Suffix
<1> QED BY <1>3, <1>4

LEMMA DecryptStep ==
    ASSUME TlsInv, NEW h \in TlsHandles, NEW n \in 1 .. MaxRecords, DecryptMessage(h, n)
    PROVE  TlsInv'
<1> DEFINE held == kept[h].held
           fed  == Feed(0, h, held)
           took == SubSeq(fed, 1, n)
           left == SubSeq(fed, n + 1, Len(fed))
           Left == IF Len(left) > Len(held) THEN Len(held) ELSE Len(left)
           rest == SubSeq(held, Len(held) + 1 - Left, Len(held))
           g    == [kept[h] EXCEPT !.held = rest]
<1>1. PICK s \in find_by_ctx_handle(h) :
        /\ contexts[s].ssl # 0 /\ n \in 1 .. Len(fed)
        /\ contexts' = [contexts EXCEPT ![s].in_buf = left]
        /\ sessions' = [sessions EXCEPT ![contexts[s].ssl] = @ \o took]
        /\ kept' = [kept EXCEPT ![h].held =
                      SubSeq(@, Len(@) + 1 - (IF Len(left) > Len(@) THEN Len(@)
                                              ELSE Len(left)), Len(@))]
  BY DEF DecryptMessage, Ready4Data, Feed
<1>2. s \in TlsSlots /\ contexts[s].ssl = h /\ h < next_handle  BY <1>1, SessionOf
<1>3. UNCHANGED <<next_handle, credentials>>  BY DEF DecryptMessage
<1>4. kept' = [kept EXCEPT ![h] = g]  BY <1>1 DEF TlsInv, TlsTypeOK, Guest
<1>5. sessions' = [sessions EXCEPT ![h] = @ \o took]  BY <1>1, <1>2
<1> DEFINE c == [contexts[s] EXCEPT !.in_buf = left]
<1>6. contexts' = [contexts EXCEPT ![s] = c]  BY <1>1, <1>2 DEF TlsInv, TlsTypeOK
<1>7. PICK a \in Nat, m \in Nat : a = FedTo(h) /\ m = Len(held)
  BY KeptFields
<1>8. /\ held \in Seq(Numbers) /\ Seg(held, a) /\ kept[h].next = a + m + 1
      /\ kept[h].next <= Flight + MaxRecords + 1 /\ kept[h].next \in Nat
      /\ kept[h].next <= Flight + 1 => held = <<>>
  BY <1>7, KeptFields
<1>9. DOMAIN held = 1 .. m /\ \A i \in 1 .. m : held[i] = a + i
  BY <1>7, <1>8, LenProperties DEF Seg
<1> HIDE DEF held
<1>10. fed = [i \in 1 .. m |-> <<h, a + i>>]  BY <1>9 DEF Feed
<1>11. a + m <= Flight + MaxRecords  BY <1>8, TlsFacts
<1>12. fed \in Seq(Messages) /\ Len(fed) = m /\ \A i \in 1 .. Len(fed) : fed[i] = <<h, a + i>>
  BY <1>10, <1>11, Numbered
<1> HIDE DEF fed
<1>13. n \in Nat /\ 1 <= n /\ n <= m  BY <1>1, <1>12
<1>14. /\ took \in Seq(Messages) /\ Len(took) = n /\ \A i \in 1 .. n : took[i] = fed[i]
       /\ left \in Seq(Messages) /\ Len(left) = m - n
  <2>1. n \in Nat /\ n <= Len(fed)  BY <1>12, <1>13
  <2> QED BY <1>12, <2>1, FirstAndRest
<1> HIDE DEF took, left
<1>15. Len(held) + 1 - Left = n + 1
  <2>1. PICK l \in Nat : l = Len(left) /\ l = m - n  BY <1>13, <1>14
  <2>2. ~ l > m  BY <1>13, <2>1
  <2>3. Left = l  BY <1>7, <2>1, <2>2
  <2>4. l = m - n /\ Len(held) = m /\ l \in Nat  BY <1>7, <2>1
  <2> HIDE DEF Left
  <2> QED BY <1>7, <1>13, <2>3, <2>4
<1> HIDE DEF Left
<1>16. /\ rest \in Seq(Numbers) /\ Len(rest) = m - n
       /\ \A i \in 1 .. m - n : rest[i] = held[n + i]
  <2>1. n \in Nat /\ n <= Len(held)  BY <1>7, <1>13
  <2>2. /\ SubSeq(held, n + 1, Len(held)) \in Seq(Numbers)
        /\ Len(SubSeq(held, n + 1, Len(held))) = Len(held) - n
        /\ \A i \in 1 .. Len(held) - n : SubSeq(held, n + 1, Len(held))[i] = held[n + i]
    BY <1>8, <2>1, FirstAndRest
  <2>3. rest = SubSeq(held, n + 1, Len(held))  BY <1>15
  <2> HIDE DEF rest
  <2> QED BY <1>7, <2>2, <2>3
<1> HIDE DEF rest
<1>17. g \in Guest /\ g.next = kept[h].next /\ g.held = rest
  <2>1. kept[h] \in Guest  BY DEF TlsInv, TlsTypeOK
  <2> QED BY <1>16, <2>1 DEF Guest
<1> HIDE DEF g
<1>18. Seg(rest, a + n)
  <2> SUFFICES ASSUME NEW i \in 1 .. m - n PROVE rest[i] = a + n + i
    BY <1>16 DEF Seg
  <2>1. n + i \in 1 .. m  BY <1>13
  <2>2. rest[i] = a + (n + i)  BY <1>9, <1>16, <2>1
  <2> QED BY <1>13, <2>2
<1>19. g.next = a + n + Len(rest) + 1  BY <1>8, <1>13, <1>16, <1>17
<1>20. ~ g.next <= Flight + 1
  <2>1. held # <<>>  BY DEF DecryptMessage, held
  <2> QED BY <1>8, <1>17, <2>1
<1> HIDE DEF Seg
<1>21. /\ Seg(g.held, FedTo(h) + Len(took))
       /\ g.next = FedTo(h) + Len(took) + Len(g.held) + 1
       /\ \A i \in 1 .. Len(took) : took[i] = <<h, FedTo(h) + i>>
  <2>1. \A i \in 1 .. n : i \in 1 .. Len(fed)  BY <1>12, <1>13
  <2>2. \A i \in 1 .. n : took[i] = <<h, a + i>>  BY <1>12, <1>14, <2>1
  <2> QED BY <1>7, <1>14, <1>17, <1>18, <1>19, <2>2
<1>22. c \in Context /\ c.handle = contexts[s].handle /\ c.ssl = contexts[s].ssl
  <2>1. contexts[s] \in Context  BY <1>2, SlotFields
  <2> QED BY <1>14, <2>1 DEF Context, Messages
<1> HIDE DEF c
<1>23. /\ contexts' \in [TlsSlots -> Context]
       /\ \A t \in TlsSlots : /\ contexts'[t].handle = contexts[t].handle
                              /\ contexts'[t].ssl = contexts[t].ssl
  BY <1>2, <1>6, <1>22 DEF TlsInv, TlsTypeOK
<1>24. h < next_handle /\ took \in Seq(Messages) /\ g \in Guest  BY <1>2, <1>14, <1>17
<1> QED BY <1>3, <1>4, <1>5, <1>20, <1>21, <1>23, <1>24, MessageStep

LEMMA TlsInitial ==
    ASSUME TlsInit
    PROVE  TlsInv
<1>1. NoContext \in Context /\ NoContext.ssl = 0 /\ NoContext.handle = 0
  BY NoContextTyped DEF NoContext
<1>2. 1 \in 1 .. MaxHandle + 1 /\ 1 \in 1 .. Flight + MaxRecords + 1  BY TlsFacts
<1>3. <<>> \in Seq(Numbers) /\ <<>> \in Seq(TlsHandles \X Numbers) /\ Len(<<>>) = 0
  OBVIOUS
<1>4. [next |-> 1, held |-> <<>>] \in Guest  BY <1>2, <1>3 DEF Guest
<1>5. TlsTypeOK  BY <1>1, <1>2, <1>3, <1>4 DEF TlsInit, TlsTypeOK
<1>6. RecordsInOrder  BY DEF TlsInit, RecordsInOrder
<1>7. \A h \in TlsHandles : GuestRight(h)
  BY <1>3 DEF TlsInit, GuestRight, FedTo, Seg
<1> QED BY <1>1, <1>5, <1>6, <1>7 DEF TlsInit, TlsInv

LEMMA TlsStep ==
    ASSUME TlsInv, [TlsNext]_tlsVars
    PROVE  TlsInv'
<1>1. CASE AcquireCredentialsHandle  BY <1>1, AcquireStep
<1>2. ASSUME NEW h \in credentials, InitializeSecurityContext(h) PROVE TlsInv'
  BY <1>2, InitialStep
<1>3. ASSUME NEW h \in credentials, FreeCredentialsHandle(h) PROVE TlsInv'
  BY <1>3, TlsFreeStep
<1>4. ASSUME NEW h \in TlsHandles, NEW n \in 1 .. Flight, ContinueSecurityContext(h, n)
      PROVE  TlsInv'
  BY <1>4, ContinueStep
<1>5. ASSUME NEW h \in TlsHandles, DeleteSecurityContext(h) PROVE TlsInv'
  BY <1>5, DeleteStep
<1>6. ASSUME NEW h \in TlsHandles, NEW n \in Plains, NEW over \in {24, 36},
             NEW trailer \in BOOLEAN, EncryptMessage(h, n, over, trailer)
      PROVE  TlsInv'
  BY <1>6 DEF EncryptMessage, TlsInv, TlsTypeOK, RecordsInOrder, GuestRight, Seg, FedTo
<1>7. ASSUME NEW h \in TlsHandles, NEW n \in 1 .. MaxRecords, DecryptMessage(h, n)
      PROVE  TlsInv'
  BY <1>7, DecryptStep
<1>8. ASSUME NEW h \in TlsHandles, RecordArrives(h) PROVE TlsInv'
  BY <1>8, ArrivalStep
<1>9. CASE UNCHANGED tlsVars
  BY <1>9 DEF tlsVars, TlsInv, TlsTypeOK, RecordsInOrder, GuestRight, Seg, FedTo
<1> QED BY <1>1, <1>2, <1>3, <1>4, <1>5, <1>6, <1>7, <1>8, <1>9 DEF TlsNext

-----------------------------------------------------------------------------
(* Schannel: the record that EncryptMessage hands out.                     *)

LEMMA QuietWhole ==
    ASSUME told' = Quiet
    PROVE  RecordWhole'
<1>1. Len(<<>>) = 0  OBVIOUS
<1> QED BY <1>1 DEF RecordWhole, Quiet

LEMMA ThreeJoined ==
    ASSUME NEW x, NEW y, NEW z
    PROVE  /\ <<x, y>> \o <<z>> = <<x, y, z>>
           /\ <<x, y>> \o <<>> = <<x, y>>
<1> DEFINE S == {x, y, z}
<1>1. <<x, y>> \in Seq(S) /\ <<x, y, z>> \in Seq(S) /\ z \in S  OBVIOUS
<1>4. Append(<<x, y>>, z) = <<x, y, z>>
  <2>1. /\ Len(<<x, y>>) = 2 /\ Len(<<x, y, z>>) = 3
        /\ <<x, y>>[1] = x /\ <<x, y>>[2] = y
        /\ <<x, y, z>>[1] = x /\ <<x, y, z>>[2] = y /\ <<x, y, z>>[3] = z
    OBVIOUS
  <2> DEFINE a == Append(<<x, y>>, z)
             b == <<x, y, z>>
  <2>2. a \in Seq(S) /\ Len(a) = 3 /\ a[1] = x /\ a[2] = y /\ a[3] = z
    BY <1>1, <2>1, AppendProperties
  <2>3. \A i \in 1 .. 3 : a[i] = b[i]
    <3> HIDE DEF a
    <3> QED BY <2>1, <2>2
  <2>4. Len(a) = Len(b)  BY <2>1, <2>2
  <2>5. b \in Seq(S)  BY <1>1
  <2>6. a = b
    <3> HIDE DEF a, b, S
    <3> QED BY <2>1, <2>2, <2>3, <2>4, <2>5, SeqEqual
  <2> QED BY <2>6
<1>2. <<x, y>> \o <<z>> = Append(<<x, y>>, z)  BY <1>1, <1>4, AppendIsConcat
<1>3. <<x, y>> \o <<>> = <<x, y>>  BY <1>1, ConcatEmptySeq
<1> QED BY <1>2, <1>3, <1>4

LEMMA EncryptWhole ==
    ASSUME NEW h, NEW n \in Plains, NEW over \in {24, 36}, NEW trailer \in BOOLEAN,
           EncryptMessage(h, n, over, trailer)
    PROVE  RecordWhole'
<1> DEFINE out         == HeaderSize + n + over
           payload     == out - HeaderSize
           trl_actual  == IF trailer /\ payload > TrailerSize THEN TrailerSize ELSE 0
           data_actual == payload - trl_actual
           wlen        == IF data_actual > n THEN n ELSE data_actual
           pos         == HeaderSize + wlen
           p           == Distribute(out, n, trailer)
<1>1. told' = [out |-> out, data |-> n, parts |-> p]  BY DEF EncryptMessage
<1>2. /\ n \in Nat /\ over \in Nat /\ HeaderSize \in Nat /\ TrailerSize \in Nat
  BY TlsAssumption
<1>3. p = <<<<0, HeaderSize>>, <<HeaderSize, pos>>>>
          \o (IF trl_actual > 0 THEN <<<<pos, pos + trl_actual>>>> ELSE <<>>)
  BY DEF Distribute
<1>4. out \in Nat /\ payload = n + over /\ trl_actual \in Nat  BY <1>2
<1>5. CASE trl_actual > 0
  <2>1. p = <<<<0, HeaderSize>>, <<HeaderSize, pos>>, <<pos, pos + trl_actual>>>>
    BY <1>3, <1>5, ThreeJoined
  <2>2. trl_actual = TrailerSize  BY <1>5
  <2> HIDE DEF p
  <2>3. /\ p[1] = <<0, HeaderSize>> /\ p[2] = <<HeaderSize, pos>>
        /\ p[3] = <<pos, pos + trl_actual>>
    BY <2>1
  <2>4. ASSUME out - HeaderSize - TrailerSize <= n
        PROVE  pos + trl_actual = out
    <3>1. data_actual <= n /\ data_actual \in Int  BY <1>2, <1>4, <2>2, <2>4
    <3>2. wlen = data_actual  BY <1>2, <3>1
    <3>3. pos + trl_actual = HeaderSize + (payload - trl_actual) + trl_actual  BY <3>2
    <3> QED BY <1>2, <1>4, <3>3
  <2> HIDE DEF out, pos, trl_actual
  <2> QED BY <1>1, <2>3, <2>4 DEF RecordWhole
<1>6. CASE ~ trl_actual > 0
  <2>1. p = <<<<0, HeaderSize>>, <<HeaderSize, pos>>>>  BY <1>3, <1>6, ThreeJoined
  <2>2. Len(p) = 2  BY <2>1
  <2> HIDE DEF p, out
  <2> QED BY <1>1, <2>2 DEF RecordWhole
<1> QED BY <1>5, <1>6

LEMMA WholeStep ==
    ASSUME RecordWhole, [TlsNext]_tlsVars
    PROVE  RecordWhole'
<1>1. CASE UNCHANGED tlsVars  BY <1>1 DEF tlsVars, RecordWhole
<1>2. CASE TlsNext
  <2>1. \/ told' = Quiet
        \/ \E h \in TlsHandles, n \in Plains, over \in {24, 36}, trailer \in BOOLEAN :
             EncryptMessage(h, n, over, trailer)
    BY <1>2 DEF TlsNext, AcquireCredentialsHandle, InitializeSecurityContext,
       FreeCredentialsHandle, ContinueSecurityContext, DeleteSecurityContext,
       DecryptMessage, RecordArrives
  <2> QED BY <2>1, QuietWhole, EncryptWhole
<1> QED BY <1>1, <1>2

\* TlsTypeOK of WGSchannel: the table stays within its slots, handles are given out
\* once each, and no session is fed what its connection did not receive.
THEOREM SchannelTyped == TlsSpec => []TlsTypeOK
<1>1. TlsInv => TlsTypeOK  BY DEF TlsInv
<1> QED BY <1>1, TlsInitial, TlsStep, PTL DEF TlsSpec

\* RecordsRight of WGSchannel: every TLS session takes the messages of its own
\* connection in order and once each, however slots and credentials are used again,
\* and the three buffers of EncryptMessage make up its record whenever they can
\* (InitializeSecurityContext, DecryptMessage, EncryptMessage), for every size of
\* the table and every number of records.
THEOREM RecordsAlwaysRight == TlsSpec => []RecordsRight
<1>1. TlsInit => RecordWhole
  <2>1. Len(<<>>) = 0  OBVIOUS
  <2> QED BY <2>1 DEF TlsInit, Quiet, RecordWhole
<1>2. TlsInv /\ RecordWhole => RecordsRight  BY DEF TlsInv, RecordsRight
<1> QED BY <1>1, <1>2, TlsInitial, TlsStep, WholeStep, PTL DEF TlsSpec

-----------------------------------------------------------------------------
(* Text: where a character stands first.                                   *)

LEMMA LeastOf ==
    ASSUME NEW S, S \subseteq Nat, S # {}
    PROVE  Min(S) \in S /\ \A y \in S : Min(S) <= y
<1>1. PICK m \in S : \A i \in S : ~ (<<i, m>> \in OpToRel(<, Nat))
  BY NatLessThanWellFounded, WFMin
<1>2. \A i \in S : m <= i
  <2> SUFFICES ASSUME NEW i \in S PROVE m <= i  OBVIOUS
  <2>1. i \in Nat /\ m \in Nat  OBVIOUS
  <2>2. ~ (i < m)  BY <1>1, <2>1 DEF OpToRel
  <2> QED BY <2>1, <2>2
<1> QED BY <1>1, <1>2 DEF Min

\* strchr points at the first occurrence, or nowhere if there is none.
LEMMA StrchrIs ==
    ASSUME NEW s, NEW n \in Nat, Len(s) = n, NEW c
    PROVE  \/ strchr(s, c) = 0 /\ \A i \in 1 .. n : s[i] # c
           \/ /\ strchr(s, c) \in 1 .. n /\ s[strchr(s, c)] = c
              /\ \A i \in 1 .. n : i < strchr(s, c) => s[i] # c
<1> DEFINE I == {i \in 1 .. n : s[i] = c}
<1>1. strchr(s, c) = IF I # {} THEN Min(I) ELSE 0
  BY DEF strchr, SelectInSeq
<1>2. CASE I = {}
  BY <1>1, <1>2
<1>3. CASE I # {}
  <2>1. I \subseteq Nat  OBVIOUS
  <2>2. Min(I) \in I /\ \A y \in I : Min(I) <= y
    <3> HIDE DEF I
    <3> QED BY <1>3, <2>1, LeastOf
  <2>3. strchr(s, c) = Min(I)  BY <1>1, <1>3
  <2>4. strchr(s, c) \in 1 .. n /\ s[strchr(s, c)] = c
    BY <2>2, <2>3
  <2>5. ASSUME NEW i \in 1 .. n, i < strchr(s, c) PROVE s[i] # c
    <3> SUFFICES ASSUME s[i] = c PROVE FALSE  OBVIOUS
    <3>1. i \in I  OBVIOUS
    <3>2. strchr(s, c) <= i
      <4> HIDE DEF I
      <4> QED BY <2>2, <2>3, <3>1
    <3> QED BY <2>4, <2>5, <3>2
  <2> QED BY <2>4, <2>5
<1> QED BY <1>2, <1>3

LEMMA StrchrNone ==
    ASSUME NEW s, NEW n \in Nat, Len(s) = n, NEW c, \A i \in 1 .. n : s[i] # c
    PROVE  strchr(s, c) = 0
BY StrchrIs

LEMMA StrchrFirst ==
    ASSUME NEW s, NEW n \in Nat, Len(s) = n, NEW c, NEW k \in 1 .. n, s[k] = c,
           \A i \in 1 .. n : i < k => s[i] # c
    PROVE  strchr(s, c) = k
<1>1. strchr(s, c) # 0 \/ FALSE  BY StrchrIs
<1>2. strchr(s, c) \in 1 .. n /\ s[strchr(s, c)] = c
      /\ \A i \in 1 .. n : i < strchr(s, c) => s[i] # c  BY <1>1, StrchrIs
<1>3. PICK j \in 1 .. n : j = strchr(s, c)  BY <1>2
<1> QED BY <1>2, <1>3

\* What was put together comes apart again.
LEMMA PartsOfConcat ==
    ASSUME NEW S, NEW a \in Seq(S), NEW b \in Seq(S)
    PROVE  /\ SubSeq(a \o b, 1, Len(a)) = a
           /\ SubSeq(a \o b, Len(a) + 1, Len(a \o b)) = b
<1>0. PICK m \in Nat, n \in Nat : m = Len(a) /\ n = Len(b)  BY LenProperties
<1>1. Len(a \o b) = m + n  BY <1>0, ConcatProperties
<1>2. SubSeq(a \o b, 1, m) = a
  <2>1. CASE m = 0
    <3>1. a = <<>>  BY <1>0, <2>1, EmptySeq
    <3> QED BY <2>1, <3>1, SubSeqEmpty
  <2>2. CASE m > 0
    <3>1. 1 \in 1 .. Len(a) /\ m \in 1 .. Len(a)  BY <1>0, <2>2
    <3>2. SubSeq(a \o b, 1, m) = SubSeq(a, 1, m)  BY <3>1, SubSeqOfConcat1
    <3> QED BY <1>0, <3>2, SubSeqFull
  <2> QED BY <2>1, <2>2
<1>3. SubSeq(a \o b, m + 1, m + n) = b
  <2>1. CASE n = 0
    <3>1. b = <<>>  BY <1>0, <2>1, EmptySeq
    <3> QED BY <2>1, <3>1, SubSeqEmpty
  <2>2. CASE n > 0
    <3>1. m + 1 \in Len(a) + 1 .. Len(a) + Len(b) /\ m + n \in Len(a) + 1 .. Len(a) + Len(b)
      BY <1>0, <2>2
    <3>2. SubSeq(a \o b, m + 1, m + n) = SubSeq(b, (m + 1) - Len(a), (m + n) - Len(a))
      BY <3>1, SubSeqOfConcat2
    <3>3. (m + 1) - m = 1 /\ (m + n) - m = n  OBVIOUS
    <3>4. SubSeq(b, 1, n) = b  BY <1>0, SubSeqFull
    <3> QED BY <1>0, <3>2, <3>3, <3>4
  <2> QED BY <1>0, <2>1, <2>2
<1> QED BY <1>0, <1>1, <1>2, <1>3

LEMMA HeadOfConcat ==
    ASSUME NEW S, NEW e \in S, NEW s \in Seq(S)
    PROVE  /\ <<e>> \o s \in Seq(S) /\ <<e>> \o s # <<>>
           /\ Head(<<e>> \o s) = e /\ Tail(<<e>> \o s) = s
<1>1. <<e>> \in Seq(S) /\ Len(<<e>>) = 1 /\ <<e>>[1] = e  OBVIOUS
<1>2. PICK n \in Nat : n = Len(s)  BY LenProperties
<1>3. /\ <<e>> \o s \in Seq(S) /\ Len(<<e>> \o s) = 1 + n
      /\ \A i \in 1 .. (1 + n) : (<<e>> \o s)[i] = IF i <= 1 THEN <<e>>[1] ELSE s[i - 1]
  BY <1>1, <1>2, ConcatProperties
<1>4. <<e>> \o s # <<>>  BY <1>2, <1>3, EmptySeq
<1>5. Head(<<e>> \o s) = e
  BY <1>1, <1>2, <1>3, <1>4
<1>6. Tail(<<e>> \o s) = s
  <2>1. /\ Tail(<<e>> \o s) \in Seq(S) /\ Len(Tail(<<e>> \o s)) = n
        /\ \A i \in 1 .. n : Tail(<<e>> \o s)[i] = (<<e>> \o s)[i + 1]
    BY <1>2, <1>3, <1>4, HeadTailProperties
  <2>2. \A i \in 1 .. n : Tail(<<e>> \o s)[i] = s[i]
    BY <1>2, <1>3, <2>1
  <2> QED BY <1>2, <2>1, <2>2, SeqEqual
<1> QED BY <1>3, <1>4, <1>5, <1>6

-----------------------------------------------------------------------------
(* The two readers of URLs.                                                *)

Tokens == Schemes \cup {"host", ":", "8080", "/", "?", "x"}

\* The host and its port, and what stands behind them.
Server(p) == p.host \o (IF p.port = NoPort THEN <<>> ELSE <<":", p.port>>)
Behind(p) == p.path \o p.extra

LEMMA TailsAreText == \A t \in Tails : t \in Seq(Tokens)
  BY TextAssumption DEF Tails, Tokens

LEMMA SlashText ==
    ASSUME NEW c \in Tokens, NEW t \in Seq(Tokens)
    PROVE  /\ <<c>> \o t \in Seq(Tokens) /\ Len(<<c>> \o t) = Len(t) + 1
           /\ (<<c>> \o t)[1] = c
           /\ \A i \in 1 .. Len(t) + 1 : i > 1 => (<<c>> \o t)[i] = t[i - 1]
<1>1. <<c>> \in Seq(Tokens) /\ Len(<<c>>) = 1 /\ <<c>>[1] = c  OBVIOUS
<1>2. PICK n \in Nat : n = Len(t)  BY LenProperties
<1>3. /\ <<c>> \o t \in Seq(Tokens) /\ Len(<<c>> \o t) = 1 + n
      /\ \A i \in 1 .. (1 + n) : (<<c>> \o t)[i] = IF i <= 1 THEN <<c>>[1] ELSE t[i - 1]
  BY <1>1, <1>2, ConcatProperties
<1> QED BY <1>1, <1>2, <1>3

LEMMA PartsAreText ==
    ASSUME NEW p \in WellFormed
    PROVE  /\ p.scheme \in Schemes /\ p.host = <<"host">> /\ p.port \in {NoPort, "8080"}
           /\ p.path \in Seq(Tokens) /\ p.extra \in Seq(Tokens)
           /\ p.path # <<>> => /\ Len(p.path) > 0 /\ p.path[1] = "/"
                               /\ \A i \in 1 .. Len(p.path) : p.path[i] # "?"
           /\ p.extra # <<>> => Len(p.extra) > 0 /\ p.extra[1] = "?" /\ p.path # <<>>
<1>1. p \in Parts /\ (p.extra # <<>> => p.path # <<>>)  BY DEF WellFormed
<1>2. p.scheme \in Schemes /\ p.host = <<"host">> /\ p.port \in {NoPort, "8080"}
  BY <1>1 DEF Parts
<1>3. /\ p.path \in {<<>>} \cup {<<"/">> \o t : t \in {u \in Tails : ~ Contains(u, "?")}}
      /\ p.extra \in {<<>>} \cup {<<"?">> \o t : t \in Tails}
  BY <1>1 DEF Parts
<1>4. "/" \in Tokens /\ "?" \in Tokens  BY DEF Tokens
<1>5. ASSUME p.path # <<>>
      PROVE  /\ p.path \in Seq(Tokens) /\ Len(p.path) > 0 /\ p.path[1] = "/"
             /\ \A i \in 1 .. Len(p.path) : p.path[i] # "?"
  <2>1. PICK t \in Tails : ~ Contains(t, "?") /\ p.path = <<"/">> \o t
    BY <1>3, <1>5
  <2>2. t \in Seq(Tokens)  BY TailsAreText
  <2>3. PICK n \in Nat : n = Len(t)  BY <2>2, LenProperties
  <2>4. \A i \in 1 .. n : t[i] # "?"  BY <2>1, <2>3 DEF Contains
  <2>5. /\ p.path \in Seq(Tokens) /\ Len(p.path) = n + 1 /\ p.path[1] = "/"
        /\ \A i \in 1 .. n + 1 : i > 1 => p.path[i] = t[i - 1]
    BY <1>4, <2>1, <2>2, <2>3, SlashText
  <2>6. \A i \in 1 .. n + 1 : p.path[i] # "?"
    <3> SUFFICES ASSUME NEW i \in 1 .. n + 1 PROVE p.path[i] # "?"  OBVIOUS
    <3>1. CASE i = 1  BY <2>5, <3>1
    <3>2. CASE i > 1
      <4>1. i - 1 \in 1 .. n  BY <3>2
      <4> QED BY <2>4, <2>5, <3>2, <4>1
    <3> QED BY <3>1, <3>2
  <2> QED BY <2>3, <2>5, <2>6
<1>6. p.path \in Seq(Tokens)  BY <1>5, EmptySeq
<1>7. ASSUME p.extra # <<>>
      PROVE  p.extra \in Seq(Tokens) /\ Len(p.extra) > 0 /\ p.extra[1] = "?"
  <2>1. PICK t \in Tails : p.extra = <<"?">> \o t  BY <1>3, <1>7
  <2>2. t \in Seq(Tokens)  BY TailsAreText
  <2>3. PICK n \in Nat : n = Len(t)  BY <2>2, LenProperties
  <2>4. p.extra \in Seq(Tokens) /\ Len(p.extra) = n + 1 /\ p.extra[1] = "?"
    BY <1>4, <2>1, <2>2, <2>3, SlashText
  <2> QED BY <1>1, <1>7, <2>3, <2>4
<1>8. p.extra \in Seq(Tokens)  BY <1>7, EmptySeq
<1> QED BY <1>1, <1>2, <1>5, <1>6, <1>7, <1>8

LEMMA ServerIs ==
    ASSUME NEW p \in WellFormed
    PROVE  /\ Server(p) \in Seq(Tokens)
           /\ Server(p)[1] = "host"
           /\ p.port = NoPort => Server(p) = <<"host">> /\ Len(Server(p)) = 1
           /\ p.port # NoPort => /\ Len(Server(p)) = 3
                                 /\ Server(p)[2] = ":" /\ Server(p)[3] = "8080"
<1>1. p.host = <<"host">> /\ p.port \in {NoPort, "8080"}  BY PartsAreText
<1>2. "host" \in Tokens /\ ":" \in Tokens /\ "8080" \in Tokens  BY DEF Tokens
<1>3. CASE p.port = NoPort
  <2>1. Server(p) = <<"host">> \o <<>>  BY <1>1, <1>3 DEF Server
  <2>2. <<"host">> \in Seq(Tokens)  BY <1>2
  <2>3. Server(p) = <<"host">>  BY <2>1, <2>2, ConcatEmptySeq
  <2> QED BY <1>3, <2>2, <2>3
<1>4. CASE p.port = "8080"
  <2>1. "8080" # NoPort  BY DEF NoPort
  <2>2. Server(p) = <<"host">> \o <<":", "8080">>  BY <1>1, <1>4, <2>1 DEF Server
  <2>3. <<":", "8080">> \in Seq(Tokens) /\ Len(<<":", "8080">>) = 2
        /\ <<":", "8080">>[1] = ":" /\ <<":", "8080">>[2] = "8080"  BY <1>2
  <2>4. /\ Server(p) \in Seq(Tokens) /\ Len(Server(p)) = 3 /\ Server(p)[1] = "host"
        /\ \A i \in 1 .. 3 : i > 1 => Server(p)[i] = <<":", "8080">>[i - 1]
    BY <1>2, <2>2, <2>3, SlashText
  <2> QED BY <1>4, <2>1, <2>3, <2>4
<1> QED BY <1>1, <1>3, <1>4

LEMMA BehindIs ==
    ASSUME NEW p \in WellFormed
    PROVE  /\ Behind(p) \in Seq(Tokens)
           /\ p.path = <<>> => Behind(p) = <<>>
           /\ p.path # <<>> => Behind(p) # <<>> /\ Len(Behind(p)) > 0 /\ Behind(p)[1] = "/"
           /\ strchr(Behind(p), "?") = IF p.extra = <<>> THEN 0 ELSE Len(p.path) + 1
<1>1. /\ p.path \in Seq(Tokens) /\ p.extra \in Seq(Tokens)
      /\ p.path # <<>> => /\ Len(p.path) > 0 /\ p.path[1] = "/"
                          /\ \A i \in 1 .. Len(p.path) : p.path[i] # "?"
      /\ p.extra # <<>> => Len(p.extra) > 0 /\ p.extra[1] = "?" /\ p.path # <<>>
  BY PartsAreText
<1>2. PICK m \in Nat, n \in Nat : m = Len(p.path) /\ n = Len(p.extra)
  BY <1>1, LenProperties
<1>3. /\ Behind(p) \in Seq(Tokens) /\ Len(Behind(p)) = m + n
      /\ \A i \in 1 .. m + n : Behind(p)[i] = IF i <= m THEN p.path[i] ELSE p.extra[i - m]
  BY <1>1, <1>2, ConcatProperties DEF Behind
<1>4. p.path = <<>> => Behind(p) = <<>>
  <2> SUFFICES ASSUME p.path = <<>> PROVE Behind(p) = <<>>  OBVIOUS
  <2>1. m = 0 /\ n = 0  BY <1>1, <1>2, EmptySeq
  <2> QED BY <1>3, <2>1, EmptySeq
<1>5. p.path # <<>> => Behind(p) # <<>> /\ Len(Behind(p)) > 0 /\ Behind(p)[1] = "/"
  <2> SUFFICES ASSUME p.path # <<>>
               PROVE  Behind(p) # <<>> /\ Len(Behind(p)) > 0 /\ Behind(p)[1] = "/"
    OBVIOUS
  <2>1. m > 0 /\ p.path[1] = "/"  BY <1>1, <1>2
  <2>2. Behind(p)[1] = p.path[1]  BY <1>3, <2>1
  <2>3. Len(Behind(p)) > 0  BY <1>3, <2>1
  <2> QED BY <2>1, <2>2, <2>3, EmptySeq
<1>6. \A i \in 1 .. m : p.path[i] # "?"
  <2>1. p.path = <<>> => m = 0  BY <1>2, EmptySeq
  <2> QED BY <1>1, <1>2, <2>1
<1>7. CASE p.extra = <<>>
  <2>1. n = 0  BY <1>2, <1>7, EmptySeq
  <2>2. \A i \in 1 .. m : Behind(p)[i] # "?"  BY <1>3, <1>6, <2>1
  <2>3. strchr(Behind(p), "?") = 0  BY <1>3, <2>1, <2>2, StrchrNone
  <2> QED BY <1>3, <1>4, <1>5, <1>7, <2>3
<1>8. CASE p.extra # <<>>
  <2>1. n > 0 /\ p.extra[1] = "?"  BY <1>1, <1>2, <1>8
  <2>2. m + 1 \in 1 .. m + n /\ m + n \in Nat  BY <2>1
  <2>3. Behind(p)[m + 1] = "?"  BY <1>3, <2>1, <2>2
  <2>4. \A i \in 1 .. m + n : i < m + 1 => Behind(p)[i] # "?"  BY <1>3, <1>6
  <2>5. strchr(Behind(p), "?") = m + 1
    <3>1. PICK B : B = Behind(p)  OBVIOUS
    <3>2. /\ Len(B) = m + n /\ B[m + 1] = "?"
          /\ \A i \in 1 .. m + n : i < m + 1 => B[i] # "?"
      BY <1>3, <2>3, <2>4, <3>1
    <3>3. strchr(B, "?") = m + 1  BY <2>2, <3>2, StrchrFirst
    <3> QED BY <3>1, <3>3
  <2> QED BY <1>2, <1>3, <1>4, <1>5, <1>8, <2>5
<1> QED BY <1>7, <1>8

LEMMA Regroup ==
    \A S : \A s, t, u \in Seq(S) : (s \o t) \o u = s \o (t \o u)
<1> SUFFICES ASSUME NEW S, NEW s \in Seq(S), NEW t \in Seq(S), NEW u \in Seq(S)
             PROVE  (s \o t) \o u = s \o (t \o u)
  OBVIOUS
<1> DEFINE lhs == (s \o t) \o u
           rhs == s \o (t \o u)
<1>1. PICK l \in Nat, m \in Nat, n \in Nat : l = Len(s) /\ m = Len(t) /\ n = Len(u)
  BY LenProperties
<1>2. /\ s \o t \in Seq(S) /\ Len(s \o t) = l + m
      /\ \A i \in 1 .. l + m : (s \o t)[i] = IF i <= l THEN s[i] ELSE t[i - l]
  BY <1>1, ConcatProperties
<1>3. /\ t \o u \in Seq(S) /\ Len(t \o u) = m + n
      /\ \A i \in 1 .. m + n : (t \o u)[i] = IF i <= m THEN t[i] ELSE u[i - m]
  BY <1>1, ConcatProperties
<1>4. /\ lhs \in Seq(S) /\ Len(lhs) = l + m + n
      /\ \A i \in 1 .. l + m + n : lhs[i] = IF i <= l + m THEN (s \o t)[i] ELSE u[i - (l + m)]
  BY <1>1, <1>2, ConcatProperties
<1>5. /\ rhs \in Seq(S) /\ Len(rhs) = l + (m + n)
      /\ \A i \in 1 .. l + (m + n) : rhs[i] = IF i <= l THEN s[i] ELSE (t \o u)[i - l]
  BY <1>1, <1>3, ConcatProperties
<1> HIDE DEF lhs, rhs
<1>6. \A i \in 1 .. l + m + n : lhs[i] = rhs[i]
  <2> SUFFICES ASSUME NEW i \in 1 .. l + m + n PROVE lhs[i] = rhs[i]  OBVIOUS
  <2>1. CASE i <= l  BY <1>1, <1>2, <1>4, <1>5, <2>1
  <2>2. CASE i > l /\ i <= l + m
    <3>1. /\ i - l \in 1 .. m + n /\ i - l <= m /\ i \in 1 .. l + m /\ ~ i <= l
          /\ i \in 1 .. l + (m + n)
      BY <1>1, <2>2
    <3>2. lhs[i] = t[i - l]  BY <1>2, <1>4, <2>2, <3>1
    <3>3. rhs[i] = (t \o u)[i - l]  BY <1>5, <3>1
    <3>4. (t \o u)[i - l] = t[i - l]  BY <1>3, <3>1
    <3> QED BY <3>2, <3>3, <3>4
  <2>3. CASE i > l + m
    <3>1. i - l \in 1 .. m + n /\ ~ i - l <= m /\ ~ i <= l /\ (i - l) - m = i - (l + m)
          /\ ~ i <= l + m
      BY <1>1, <2>3
    <3>2. lhs[i] = u[i - (l + m)]  BY <1>4, <3>1
    <3>3. i \in 1 .. l + (m + n)  BY <1>1, <2>3
    <3>4. rhs[i] = (t \o u)[i - l]  BY <1>5, <3>1, <3>3
    <3>5. (t \o u)[i - l] = u[(i - l) - m]  BY <1>3, <3>1
    <3> QED BY <3>1, <3>2, <3>4, <3>5
  <2>4. i \in Int /\ l \in Int /\ m \in Int  BY <1>1
  <2>5. i <= l \/ (i > l /\ i <= l + m) \/ i > l + m  BY <2>4
  <2> QED BY <2>1, <2>2, <2>3, <2>5
<1>7. lhs = rhs  BY <1>1, <1>4, <1>5, <1>6, SeqEqual, SMTT(30)
<1> QED BY <1>7 DEF lhs, rhs

\* The same with a name for the operator, which the provers leave alone.
Cat(s, t) == s \o t

LEMMA CatFacts ==
    \A s, t, u \in Seq(Tokens) :
      Cat(s, t) \in Seq(Tokens) /\ Cat(Cat(s, t), u) = Cat(s, Cat(t, u))
<1> SUFFICES ASSUME NEW s \in Seq(Tokens), NEW t \in Seq(Tokens), NEW u \in Seq(Tokens)
             PROVE  Cat(s, t) \in Seq(Tokens) /\ Cat(Cat(s, t), u) = Cat(s, Cat(t, u))
  OBVIOUS
<1>1. (s \o t) \o u = s \o (t \o u)  BY Regroup
<1> QED BY <1>1, ConcatProperties DEF Cat

LEMMA WrittenIs ==
    ASSUME NEW p \in WellFormed
    PROVE  /\ Written(p) # <<>> /\ Head(Written(p)) = p.scheme
           /\ Tail(Written(p)) = Server(p) \o Behind(p)
<1>1. /\ p.scheme \in Schemes /\ p.host = <<"host">> /\ p.port \in {NoPort, "8080"}
      /\ p.path \in Seq(Tokens) /\ p.extra \in Seq(Tokens)
  BY PartsAreText
<1>2. p.scheme \in Tokens  BY <1>1 DEF Tokens
<1> DEFINE port == IF p.port = NoPort THEN <<>> ELSE <<":", p.port>>
<1>3. <<p.scheme>> \in Seq(Tokens)  BY <1>2
<1>4. p.host \in Seq(Tokens)  BY <1>1 DEF Tokens
<1>5. port \in Seq(Tokens)
  <2>1. CASE p.port = NoPort  BY <2>1
  <2>2. CASE p.port = "8080"
    <3>1. ":" \in Tokens /\ "8080" \in Tokens  BY DEF Tokens
    <3> QED BY <2>2, <3>1
  <2> QED BY <1>1, <2>1, <2>2
<1>6. Written(p) = (((<<p.scheme>> \o p.host) \o port) \o p.path) \o p.extra
  BY DEF Written
<1>7. Server(p) = p.host \o port  BY DEF Server
<1> HIDE DEF port
<1>8. Server(p) \in Seq(Tokens)  BY <1>4, <1>5, <1>7, ConcatProperties
<1>9. Written(p) = <<p.scheme>> \o (Server(p) \o Behind(p))
  <2> DEFINE sch == <<p.scheme>>
             server == p.host
             path == p.path
             extra == p.extra
  <2>1. sch \in Seq(Tokens) /\ server \in Seq(Tokens) /\ path \in Seq(Tokens)
        /\ extra \in Seq(Tokens)
    BY <1>1, <1>3, <1>4
  <2>2. Written(p) = Cat(Cat(Cat(Cat(sch, server), port), path), extra)  BY <1>6 DEF Cat
  <2>3. Server(p) = Cat(server, port) /\ Behind(p) = Cat(path, extra)  BY <1>7 DEF Behind, Cat
  <2> HIDE DEF sch, server, path, extra
  <2>4. Cat(Cat(sch, server), port) = Cat(sch, Server(p))  BY <1>5, <2>1, <2>3, CatFacts
  <2>5. Cat(Cat(sch, Server(p)), path) = Cat(sch, Cat(Server(p), path))
    BY <1>8, <2>1, CatFacts
  <2>6. Cat(Cat(sch, Cat(Server(p), path)), extra) = Cat(sch, Cat(Cat(Server(p), path), extra))
    BY <1>8, <2>1, CatFacts
  <2>7. Cat(Cat(Server(p), path), extra) = Cat(Server(p), Behind(p))
    BY <1>8, <2>1, <2>3, CatFacts
  <2> QED BY <2>2, <2>4, <2>5, <2>6, <2>7 DEF Cat, sch
<1>10. Server(p) \o Behind(p) \in Seq(Tokens)  BY <1>8, BehindIs, ConcatProperties
<1> QED BY <1>2, <1>9, <1>10, HeadOfConcat

\* What Authority and FromSlash make of a server and what stands behind it.
LEMMA ServerSplit ==
    ASSUME NEW p \in WellFormed, NEW port
    PROVE  /\ Authority(Server(p) \o Behind(p), port)
                = [host |-> p.host, port |-> IF p.port = NoPort THEN port ELSE p.port]
           /\ FromSlash(Server(p) \o Behind(p)) = Behind(p)
<1> DEFINE rest == Server(p) \o Behind(p)
<1>1. /\ p.host = <<"host">> /\ p.port \in {NoPort, "8080"}
  BY PartsAreText
<1>2. /\ Server(p) \in Seq(Tokens) /\ Server(p)[1] = "host"
      /\ p.port = NoPort => Server(p) = <<"host">> /\ Len(Server(p)) = 1
      /\ p.port # NoPort => /\ Len(Server(p)) = 3
                            /\ Server(p)[2] = ":" /\ Server(p)[3] = "8080"
  BY ServerIs
<1>3. /\ Behind(p) \in Seq(Tokens)
      /\ p.path = <<>> => Behind(p) = <<>>
      /\ p.path # <<>> => Behind(p) # <<>> /\ Len(Behind(p)) > 0 /\ Behind(p)[1] = "/"
  BY BehindIs
<1>4. PICK m \in Nat, n \in Nat : m = Len(Server(p)) /\ n = Len(Behind(p))
  BY <1>2, <1>3, LenProperties
<1>5. /\ rest \in Seq(Tokens) /\ Len(rest) = m + n
      /\ \A i \in 1 .. m + n : rest[i] = IF i <= m THEN Server(p)[i] ELSE Behind(p)[i - m]
  BY <1>2, <1>3, <1>4, ConcatProperties
<1>6. m \in {1, 3} /\ (m = 1 <=> p.port = NoPort)  BY <1>2, <1>4
<1>7. SubSeq(rest, m + 1, Len(rest)) = Behind(p)
  BY <1>2, <1>3, <1>4, PartsOfConcat
<1>8. (n = 0 /\ Behind(p) = <<>>) \/ (n > 0 /\ Behind(p)[1] = "/")
  BY <1>3, <1>4, EmptySeq
<1>9. \A i \in 1 .. m : Server(p)[i] # "/"
  <2> SUFFICES ASSUME NEW i \in 1 .. m PROVE Server(p)[i] # "/"  OBVIOUS
  <2>1. i = 1 \/ (m = 3 /\ i = 2) \/ (m = 3 /\ i = 3)  BY <1>6
  <2> QED BY <1>2, <1>6, <2>1
<1> HIDE DEF rest
<1>10. strchr(rest, "/") = IF n = 0 THEN 0 ELSE m + 1
  <2>1. CASE n = 0
    <3>1. \A i \in 1 .. m : rest[i] # "/"  BY <1>5, <1>9, <2>1
    <3>2. Len(rest) = m  BY <1>4, <1>5, <2>1
    <3> QED BY <1>4, <2>1, <3>1, <3>2, StrchrNone
  <2>2. CASE n > 0
    <3>1. m + 1 \in 1 .. m + n /\ m + n \in Nat  BY <1>4, <2>2
    <3>2. rest[m + 1] = "/"  BY <1>5, <1>8, <2>2, <3>1
    <3>3. \A i \in 1 .. m + n : i < m + 1 => rest[i] # "/"  BY <1>4, <1>5, <1>9
    <3>4. strchr(rest, "/") = m + 1  BY <1>5, <3>1, <3>2, <3>3, StrchrFirst
    <3> QED BY <2>2, <3>4
  <2> QED BY <1>4, <2>1, <2>2
<1>11. FromSlash(rest) = Behind(p)
  <2>1. CASE n = 0  BY <1>8, <1>10, <2>1 DEF FromSlash
  <2>2. CASE n > 0
    <3>1. strchr(rest, "/") = m + 1 /\ m + 1 # 0  BY <1>4, <1>10, <2>2
    <3> QED BY <1>7, <3>1 DEF FromSlash
  <2> QED BY <1>4, <2>1, <2>2
<1>12. Authority(rest, port)
         = [host |-> p.host, port |-> IF p.port = NoPort THEN port ELSE p.port]
  <2>1. CASE p.port = NoPort
    <3>1. m = 1  BY <1>6, <2>1
    <3>2. strchr(rest, ":") = 0 \/ strchr(rest, ":") > 1
      <4>1. rest[1] = "host"  BY <1>2, <1>5, <3>1
      <4> QED BY <1>4, <1>5, <4>1, StrchrIs
    <3>3. strchr(rest, ":") = 0 \/ (strchr(rest, "/") = 2 /\ ~ (strchr(rest, ":") < 2))
      <4>1. CASE n = 0
        <5>1. Len(rest) = 1  BY <1>4, <1>5, <3>1, <4>1
        <5>2. strchr(rest, ":") = 0 \/ strchr(rest, ":") \in 1 .. 1
          BY <5>1, StrchrIs
        <5> QED BY <3>2, <5>2
      <4>2. CASE n > 0
        <5>1. strchr(rest, "/") = 2  BY <1>10, <3>1, <4>2
        <5>2. strchr(rest, ":") = 0 \/ strchr(rest, ":") \in 1 .. m + n
          BY <1>4, <1>5, StrchrIs
        <5> QED BY <3>2, <5>1, <5>2
      <4> QED BY <1>4, <4>1, <4>2
    <3>4. ~ (strchr(rest, ":") # 0
               /\ (strchr(rest, "/") = 0 \/ strchr(rest, ":") < strchr(rest, "/")))
      BY <3>3
    <3>5. (IF strchr(rest, "/") # 0 THEN SubSeq(rest, 1, strchr(rest, "/") - 1) ELSE rest)
            = Server(p)
      <4>1. SubSeq(rest, 1, m) = Server(p)
        BY <1>2, <1>3, <1>4, PartsOfConcat DEF rest
      <4>2. CASE n = 0
        <5>1. rest = Server(p)  BY <1>2, <1>8, <4>2, ConcatEmptySeq DEF rest
        <5> QED BY <1>10, <4>2, <5>1
      <4>3. CASE n > 0
        <5>1. strchr(rest, "/") = 2  BY <1>10, <3>1, <4>3
        <5> QED BY <3>1, <4>1, <5>1
      <4> QED BY <1>4, <4>2, <4>3
    <3> QED BY <1>1, <1>2, <2>1, <3>4, <3>5 DEF Authority
  <2>2. CASE p.port = "8080"
    <3>1. "8080" # NoPort  BY DEF NoPort
    <3>2. m = 3  BY <1>6, <2>2, <3>1
    <3>3. rest[1] = "host" /\ rest[2] = ":" /\ rest[3] = "8080"
      BY <1>2, <1>4, <1>5, <2>2, <3>1, <3>2
    <3>4. strchr(rest, ":") = 2
      <4>1. 2 \in 1 .. m + n /\ m + n \in Nat  BY <1>4, <3>2
      <4>2. \A i \in 1 .. m + n : i < 2 => rest[i] # ":"  BY <3>3
      <4> QED BY <1>5, <3>3, <4>1, <4>2, StrchrFirst
    <3>5. strchr(rest, "/") = 0 \/ strchr(rest, ":") < strchr(rest, "/")
      BY <1>4, <1>10, <3>2, <3>4
    <3>6. SubSeq(rest, 1, 1) = <<"host">>
      <4>1. 1 \in 1 .. Len(rest)  BY <1>4, <1>5, <3>2
      <4>2. \A i \in 1 .. 1 : rest[i] \in Tokens  BY <1>5, <4>1, ElementOfSeq
      <4>3. /\ SubSeq(rest, 1, 1) \in Seq(Tokens) /\ Len(SubSeq(rest, 1, 1)) = 1
            /\ SubSeq(rest, 1, 1)[1] = rest[1]
        BY <4>2, SubSeqProperties
      <4>4. <<"host">> \in Seq(Tokens) /\ Len(<<"host">>) = 1 /\ <<"host">>[1] = "host"
        BY DEF Tokens
      <4>5. \A i \in 1 .. 1 : SubSeq(rest, 1, 1)[i] = <<"host">>[i]  BY <3>3, <4>3, <4>4
      <4> DEFINE h == <<"host">>
                 q == SubSeq(rest, 1, 1)
      <4>6. h \in Seq(Tokens) /\ q \in Seq(Tokens) /\ Len(q) = 1 /\ Len(h) = 1
            /\ \A i \in 1 .. 1 : q[i] = h[i]
        BY <4>3, <4>4, <4>5
      <4> HIDE DEF h, q
      <4>7. q = h  BY <4>6, SeqEqual
      <4> QED BY <4>7 DEF h, q
    <3>7. atoi(SubSeq(rest, 3, Len(rest))) = "8080"
      <4>1. 3 \in 1 .. Len(rest) /\ Len(rest) \in 3 .. Len(rest)  BY <1>4, <1>5, <3>2
      <4>2. Head(SubSeq(rest, 3, Len(rest))) = "8080"
        BY <1>5, <3>3, <4>1, HeadTailOfSubSeq
      <4>3. SubSeq(rest, 3, Len(rest)) # <<>>
        <5>1. \A i \in 3 .. m + n : rest[i] \in Tokens  BY <1>5, ElementOfSeq
        <5>2. 3 \in Int /\ m + n \in Int /\ 3 <= m + n  BY <1>4, <3>2
        <5>3. Len(SubSeq(rest, 3, m + n)) = (m + n) - 3 + 1
          BY <5>1, <5>2, SubSeqProperties
        <5> QED BY <1>5, <5>2, <5>3, EmptySeq
      <4> QED BY <4>2, <4>3 DEF atoi
    <3>8. strchr(rest, ":") - 1 = 1 /\ strchr(rest, ":") + 1 = 3 /\ strchr(rest, ":") # 0
      BY <3>4
    <3>9. Authority(rest, port) = [host |-> SubSeq(rest, 1, strchr(rest, ":") - 1),
             port |-> atoi(SubSeq(rest, strchr(rest, ":") + 1, Len(rest)))]
      BY <3>5, <3>8 DEF Authority
    <3> QED BY <1>1, <2>2, <3>1, <3>6, <3>7, <3>8, <3>9
  <2> QED BY <1>1, <2>1, <2>2
<1> QED BY <1>11, <1>12 DEF rest

\* Cracking a URL gives the parts it was written from.
LEMMA CrackIs ==
    ASSUME NEW p \in WellFormed
    PROVE  WinHttpCrackUrl(Written(p))
             = [scheme |-> p.scheme, host |-> p.host,
                port |-> IF p.port = NoPort THEN PortOf(p.scheme) ELSE p.port,
                path |-> IF p.path = <<>> THEN <<"/">> ELSE p.path, extra |-> p.extra]
<1> DEFINE url  == Written(p)
           rest == Server(p) \o Behind(p)
           B    == Behind(p)
           q    == strchr(B, "?")
<1>1. url # <<>> /\ Head(url) = p.scheme /\ Tail(url) = rest /\ p.scheme \in Schemes
  BY WrittenIs, PartsAreText
<1>2. /\ Authority(rest, PortOf(p.scheme))
           = [host |-> p.host, port |-> IF p.port = NoPort THEN PortOf(p.scheme) ELSE p.port]
      /\ FromSlash(rest) = B
  BY ServerSplit
<1>3. /\ p.path \in Seq(Tokens) /\ p.extra \in Seq(Tokens)
      /\ p.extra # <<>> => p.path # <<>>
  BY PartsAreText
<1>4. /\ p.path = <<>> => B = <<>>
      /\ p.path # <<>> => B # <<>>
      /\ q = IF p.extra = <<>> THEN 0 ELSE Len(p.path) + 1
  BY BehindIs
<1>5. PICK m \in Nat : m = Len(p.path)  BY <1>3, LenProperties
<1>6. p.extra = <<>> => B = p.path  BY <1>3, ConcatEmptySeq DEF Behind
<1>7. SubSeq(B, 1, m) = p.path /\ SubSeq(B, m + 1, Len(B)) = p.extra
  BY <1>3, <1>5, PartsOfConcat DEF Behind
<1> DEFINE hp == Authority(rest, PortOf(p.scheme))
<1>8. WinHttpCrackUrl(url)
        = [scheme |-> p.scheme, host |-> hp.host, port |-> hp.port,
           path  |-> IF B = <<>> THEN <<"/">> ELSE IF q = 0 THEN B ELSE SubSeq(B, 1, q - 1),
           extra |-> IF q = 0 THEN <<>> ELSE SubSeq(B, q, Len(B))]
  <2> HIDE DEF url, rest, B, q
  <2> QED BY <1>1, <1>2 DEF WinHttpCrackUrl, q
<1>9. /\ hp.host = p.host
      /\ hp.port = IF p.port = NoPort THEN PortOf(p.scheme) ELSE p.port
  BY <1>2
<1> HIDE DEF url, rest, B, q, hp
<1>10. (IF B = <<>> THEN <<"/">> ELSE IF q = 0 THEN B ELSE SubSeq(B, 1, q - 1))
         = IF p.path = <<>> THEN <<"/">> ELSE p.path
  <2>1. CASE p.extra = <<>>  BY <1>4, <1>6, <2>1
  <2>2. CASE p.extra # <<>>
    <3>1. q = m + 1 /\ q # 0 /\ q - 1 = m  BY <1>4, <1>5, <2>2
    <3> QED BY <1>3, <1>4, <1>7, <2>2, <3>1
  <2> QED BY <2>1, <2>2
<1>11. (IF q = 0 THEN <<>> ELSE SubSeq(B, q, Len(B))) = p.extra
  <2>1. CASE p.extra = <<>>  BY <1>4, <2>1
  <2>2. CASE p.extra # <<>>
    <3>1. q = m + 1 /\ q # 0  BY <1>4, <1>5, <2>2
    <3> QED BY <1>7, <2>2, <3>1
  <2> QED BY <2>1, <2>2
<1> QED BY <1>8, <1>9, <1>10, <1>11 DEF url

\* A redirect to the URL goes where cracking it would.
LEMMA RedirectIs ==
    ASSUME NEW p \in WellFormed, NEW conn
    PROVE  RedirectUrl(Written(p), conn)
             = [scheme |-> p.scheme, host |-> p.host,
                port |-> IF p.port = NoPort THEN PortOf(p.scheme) ELSE p.port,
                path |-> IF p.path = <<>> THEN <<"/">> ELSE p.path \o p.extra]
<1> DEFINE url  == Written(p)
           rest == Server(p) \o Behind(p)
           B    == Behind(p)
           hp   == Authority(rest, PortOf(p.scheme))
<1>1. url # <<>> /\ Head(url) = p.scheme /\ Tail(url) = rest /\ p.scheme \in Schemes
  BY WrittenIs, PartsAreText
<1>2. /\ hp = [host |-> p.host, port |-> IF p.port = NoPort THEN PortOf(p.scheme) ELSE p.port]
      /\ FromSlash(rest) = B
  BY ServerSplit
<1>3. (B = <<>> <=> p.path = <<>>) /\ B = p.path \o p.extra
  BY BehindIs DEF Behind
<1>4. RedirectUrl(url, conn)
        = [scheme |-> p.scheme, host |-> hp.host, port |-> hp.port,
           path   |-> IF B = <<>> THEN <<"/">> ELSE B]
  <2> HIDE DEF url, rest, B
  <2> QED BY <1>1, <1>2 DEF RedirectUrl, hp
<1>5. /\ hp.host = p.host
      /\ hp.port = IF p.port = NoPort THEN PortOf(p.scheme) ELSE p.port
  BY <1>2
<1> HIDE DEF url, rest, B, hp
<1> QED BY <1>3, <1>4, <1>5 DEF url

\* The fields of the parts of a URL.
LEMMA FieldsAre ==
    ASSUME NEW p \in WellFormed
    PROVE  p = [scheme |-> p.scheme, host |-> p.host, port |-> p.port, path |-> p.path,
                extra |-> p.extra]
<1>1. p \in Parts  BY DEF WellFormed
<1>2. PICK A, B, C, D, E : p \in [scheme : A, host : B, port : C, path : D, extra : E]
  BY <1>1 DEF Parts
<1> QED BY <1>2

\* A path alone stays on the server of the connection.
LEMMA PathRedirectIs ==
    ASSUME NEW p \in WellFormed, p.path # <<>>
    PROVE  RedirectUrl(p.path \o p.extra, p)
             = [scheme |-> p.scheme, host |-> p.host,
                port |-> IF p.port = NoPort THEN PortOf(p.scheme) ELSE p.port,
                path |-> p.path \o p.extra]
<1> DEFINE B == Behind(p)
<1>1. /\ B \in Seq(Tokens) /\ B # <<>> /\ B[1] = "/" /\ B = p.path \o p.extra
      /\ Len(B) > 0
  BY BehindIs DEF Behind
<1> HIDE DEF B
<1>2. Head(B) = "/"
  <2>1. PICK n \in Nat : n = Len(B)  BY <1>1, LenProperties
  <2>2. 1 \in 1 .. Len(B) /\ Len(B) \in 1 .. Len(B)
    <3>1. n > 0  BY <1>1, <2>1
    <3>2. 1 \in 1 .. n /\ n \in 1 .. n  BY <3>1
    <3> QED BY <2>1, <3>2
  <2>3. Head(SubSeq(B, 1, Len(B))) = B[1]  BY <1>1, <2>2, HeadTailOfSubSeq
  <2>4. SubSeq(B, 1, Len(B)) = B  BY <1>1, SubSeqFull
  <2> QED BY <1>1, <2>3, <2>4
<1>3. "/" \notin Schemes  BY DEF Schemes
<1> QED BY <1>1, <1>2, <1>3 DEF RedirectUrl

-----------------------------------------------------------------------------
(* Headers, and the invariant.                                             *)

Queries == [kind : {"headers", "again"}, response : Responses, what : WhatOf,
            as_number : BOOLEAN, avail : Nat]

\* The length of the text asked for, and whether it is asked for as a number.
AskedFor(q) == CASE q.what = "STATUS_CODE" -> q.response.status
              [] q.what = "CONTENT_LENGTH" -> q.response.length
              [] q.what = "RAW_HEADERS_CRLF" -> q.response.raw
              [] q.what = "STATUS_TEXT" -> q.response.text
              [] OTHER -> q.response.custom
AsNumber(q) == q.as_number /\ q.what \in {"STATUS_CODE", "CONTENT_LENGTH"}

\* What an answer may be: there is no such header; a number; or a text of some
\* length, which is there.
AnswerTo(q) == WinHttpQueryHeaders(q.response, q.what, q.as_number, q.avail)

NoSuch(q) ==
    \/ q.what = "other"
    \/ q.what = "CONTENT_LENGTH" /\ q.response.length = Absent
    \/ q.what = "CUSTOM" /\ q.response.custom = Absent

LEMMA AnswerIs ==
    ASSUME NEW q \in Queries
    PROVE  \/ NoSuch(q) /\ AnswerTo(q) = not_found
           \/ ~ NoSuch(q) /\ AsNumber(q) /\ AnswerTo(q) = QueryNumber(q.avail)
           \/ /\ ~ NoSuch(q) /\ ~ AsNumber(q) /\ AskedFor(q) \in Nat
              /\ AnswerTo(q) = QueryText(AskedFor(q), q.avail)
<1>1. /\ q.response \in Responses /\ q.what \in WhatOf /\ q.as_number \in BOOLEAN
      /\ q.avail \in Nat
  BY DEF Queries
<1>2. /\ q.response.status \in Nat /\ q.response.raw \in Nat /\ q.response.text \in Nat
      /\ q.response.length = Absent \/ q.response.length \in Nat
      /\ q.response.custom = Absent \/ q.response.custom \in Nat
  BY <1>1, TextAssumption DEF Responses, Absent
<1>3. CASE q.what = "STATUS_CODE"
  BY <1>1, <1>2, <1>3 DEF AnswerTo, WinHttpQueryHeaders, AskedFor, AsNumber, NoSuch
<1>4. CASE q.what = "CONTENT_LENGTH"
  BY <1>1, <1>2, <1>4 DEF AnswerTo, WinHttpQueryHeaders, AskedFor, AsNumber, NoSuch
<1>5. CASE q.what = "RAW_HEADERS_CRLF"
  BY <1>1, <1>2, <1>5 DEF AnswerTo, WinHttpQueryHeaders, AskedFor, AsNumber, NoSuch
<1>6. CASE q.what = "STATUS_TEXT"
  BY <1>1, <1>2, <1>6 DEF AnswerTo, WinHttpQueryHeaders, AskedFor, AsNumber, NoSuch
<1>7. CASE q.what = "CUSTOM"
  BY <1>1, <1>2, <1>7 DEF AnswerTo, WinHttpQueryHeaders, AskedFor, AsNumber, NoSuch
<1>8. CASE q.what = "other"
  BY <1>1, <1>8 DEF AnswerTo, WinHttpQueryHeaders, NoSuch
<1> QED BY <1>1, <1>3, <1>4, <1>5, <1>6, <1>7, <1>8 DEF WhatOf

\* The text is whole if it fits, and what is written is never more than offered.
LEMMA TextFits ==
    ASSUME NEW len \in Nat, NEW avail \in Nat, ~ avail < 2 * (len + 1)
    PROVE  /\ write_wstr_to(len, avail \div 2) \in Nat
           /\ write_wstr_to(len, avail \div 2) <= avail
           /\ len <= WIDE_MAX => write_wstr_to(len, avail \div 2) = 2 * (len + 1)
<1>1. PICK h \in Int : h = avail \div 2  OBVIOUS
<1>2. 2 * h <= avail /\ avail < 2 * h + 2  BY <1>1
<1>3. ~ len >= h  BY <1>2
<1>4. write_wstr_to(len, h) = 2 * ((IF len < WIDE_MAX THEN len ELSE WIDE_MAX) + 1)
  BY <1>3 DEF write_wstr_to
<1> QED BY <1>1, <1>4, TextAssumption

LEMMA AnswerFacts ==
    ASSUME NEW q \in Queries
    PROVE  LET r == AnswerTo(q)
           IN  /\ r.need \in Nat /\ r.wrote \in Nat
               /\ r.ret => /\ r.wrote <= q.avail
                           /\ ~ AsNumber(q) /\ AskedFor(q) <= WIDE_MAX
                                => r.wrote = 2 * (AskedFor(q) + 1)
               /\ r.error = "INSUFFICIENT_BUFFER" =>
                    \/ AsNumber(q) /\ r.need = 4
                    \/ /\ ~ AsNumber(q) /\ AskedFor(q) \in Nat
                       /\ r.need = 2 * (AskedFor(q) + 1) /\ AnswerTo(q) # not_found
                       /\ AnswerTo(q) = QueryText(AskedFor(q), q.avail)
<1>1. q.avail \in Nat  BY DEF Queries
<1>2. CASE AnswerTo(q) = not_found  BY <1>2 DEF not_found
<1>3. CASE AsNumber(q) /\ AnswerTo(q) = QueryNumber(q.avail)
  <2>1. CASE q.avail < 4  BY <1>1, <1>3, <2>1 DEF QueryNumber, insufficient
  <2>2. CASE ~ q.avail < 4  BY <1>1, <1>3, <2>2 DEF QueryNumber, ok
  <2> QED BY <2>1, <2>2
<1>4. CASE /\ ~ AsNumber(q) /\ AskedFor(q) \in Nat
           /\ AnswerTo(q) = QueryText(AskedFor(q), q.avail)
  <2>1. PICK len \in Nat, avail \in Nat : len = AskedFor(q) /\ avail = q.avail  BY <1>1, <1>4
  <2>2. 2 * (len + 1) \in Nat  OBVIOUS
  <2>3. CASE avail < 2 * (len + 1)
    BY <1>4, <2>1, <2>2, <2>3 DEF QueryText, insufficient, not_found
  <2>4. CASE ~ avail < 2 * (len + 1)
    <3>1. AnswerTo(q) = ok(2 * (len + 1), write_wstr_to(len, avail \div 2))
      BY <1>4, <2>1, <2>4 DEF QueryText
    <3>2. /\ write_wstr_to(len, avail \div 2) \in Nat
          /\ write_wstr_to(len, avail \div 2) <= avail
          /\ len <= WIDE_MAX => write_wstr_to(len, avail \div 2) = 2 * (len + 1)
      BY <2>4, TextFits
    <3> HIDE DEF AnswerTo
    <3> QED BY <1>4, <2>1, <2>2, <3>1, <3>2 DEF ok
  <2> QED BY <2>3, <2>4
<1> QED BY <1>2, <1>3, <1>4, AnswerIs

\* A second question, with room for what was needed, is answered.
LEMMA SecondAnswer ==
    ASSUME NEW q \in Queries, AnswerTo(q).error = "INSUFFICIENT_BUFFER",
           NEW a \in Queries, a.response = q.response, a.what = q.what,
           a.as_number = q.as_number, a.avail = AnswerTo(q).need
    PROVE  AnswerTo(a).ret
<1>1. /\ AskedFor(a) = AskedFor(q) /\ (AsNumber(a) <=> AsNumber(q))
      /\ NoSuch(a) <=> NoSuch(q)
  BY DEF AskedFor, AsNumber, NoSuch
<1>2. ~ NoSuch(q)  BY AnswerIs DEF not_found
<1>3. CASE AsNumber(q) /\ AnswerTo(q) = QueryNumber(q.avail)
  <2>1. AnswerTo(q) = insufficient(4)  BY <1>3 DEF QueryNumber, ok
  <2>2. a.avail = 4  BY <2>1 DEF insufficient
  <2>3. AnswerTo(a) = QueryNumber(4)  BY <1>1, <1>2, <1>3, <2>2, AnswerIs
  <2> QED BY <2>3 DEF QueryNumber, ok
<1>4. CASE /\ ~ AsNumber(q) /\ AskedFor(q) \in Nat
           /\ AnswerTo(q) = QueryText(AskedFor(q), q.avail)
  <2>1. PICK len \in Nat : len = AskedFor(q)  BY <1>4
  <2>2. a.avail = 2 * (len + 1)
    BY <1>4, <2>1 DEF QueryText, insufficient, ok
  <2>3. AnswerTo(a) = QueryText(len, 2 * (len + 1))
    BY <1>1, <1>2, <1>4, <2>1, <2>2, AnswerIs
  <2>4. ~ 2 * (len + 1) < 2 * (len + 1)  OBVIOUS
  <2> QED BY <2>3, <2>4 DEF QueryText, ok
<1> QED BY <1>2, <1>3, <1>4, AnswerIs

\* A question about headers has the answer to that question; asked again, it is
\* answered.
HeadersInv ==
    query.kind \in {"headers", "again"} =>
      /\ query \in Queries
      /\ reply = AnswerTo(query)
      /\ query.kind = "again" => reply.ret

TextInv ==
    /\ query.kind \in {"nothing", "url", "path", "headers", "again"}
    /\ query.kind = "url" => query.parts \in WellFormed
    /\ HeadersInv
    /\ UrlsAgree

LEMMA TextStarts == TextInit => TextInv
  BY DEF TextInit, TextInv, HeadersInv, UrlsAgree, Nothing

LEMMA TextStep == TextInv /\ [TextNext]_textVars => TextInv'
<1> SUFFICES ASSUME TextInv, [TextNext]_textVars PROVE TextInv'  OBVIOUS
<1>1. CASE CrackUrl
  <2>1. PICK p \in WellFormed :
          /\ query'  = [kind |-> "url", parts |-> p]
          /\ reply' = [cracked    |-> WinHttpCrackUrl(Written(p)),
                       redirected |-> RedirectUrl(Written(p), Nothing)]
    BY <1>1 DEF CrackUrl
  <2>2. WinHttpCrackUrl(Written(p))
          = [scheme |-> p.scheme, host |-> p.host,
             port |-> IF p.port = NoPort THEN PortOf(p.scheme) ELSE p.port,
             path |-> IF p.path = <<>> THEN <<"/">> ELSE p.path, extra |-> p.extra]
    BY CrackIs
  <2>3. RedirectUrl(Written(p), Nothing)
          = [scheme |-> p.scheme, host |-> p.host,
             port |-> IF p.port = NoPort THEN PortOf(p.scheme) ELSE p.port,
             path |-> IF p.path = <<>> THEN <<"/">> ELSE p.path \o p.extra]
    BY RedirectIs
  <2>4. [p EXCEPT !.port = IF p.port = NoPort THEN PortOf(p.scheme) ELSE p.port,
                  !.path = IF p.path = <<>> THEN <<"/">> ELSE p.path]
          = [scheme |-> p.scheme, host |-> p.host,
             port |-> IF p.port = NoPort THEN PortOf(p.scheme) ELSE p.port,
             path |-> IF p.path = <<>> THEN <<"/">> ELSE p.path, extra |-> p.extra]
    <3>1. PICK a, b, c, d, e :
            /\ p = [scheme |-> a, host |-> b, port |-> c, path |-> d, extra |-> e]
            /\ a = p.scheme /\ b = p.host /\ e = p.extra
      BY FieldsAre
    <3>2. PICK x, y : /\ x = IF p.port = NoPort THEN PortOf(p.scheme) ELSE p.port
                      /\ y = IF p.path = <<>> THEN <<"/">> ELSE p.path
      OBVIOUS
    <3>3. PICK r : r = [p EXCEPT !.port = x]  OBVIOUS
    <3>4. r = [scheme |-> a, host |-> b, port |-> x, path |-> d, extra |-> e]
      BY <3>1, <3>3
    <3>5. [r EXCEPT !.path = y]
            = [scheme |-> a, host |-> b, port |-> x, path |-> y, extra |-> e]
      BY <3>4
    <3>6. [p EXCEPT !.port = x, !.path = y] = [r EXCEPT !.path = y]  BY <3>3
    <3> QED BY <3>1, <3>2, <3>5, <3>6
  <2>5. (IF p.path = <<>> THEN <<"/">> ELSE p.path \o p.extra)
          = (IF p.path = <<>> THEN <<"/">> ELSE p.path) \o p.extra
    <3>1. CASE p.path = <<>>
      <4>1. p.extra = <<>>  BY <3>1 DEF WellFormed
      <4>2. <<"/">> \in Seq(Tokens)  BY DEF Tokens
      <4> QED BY <3>1, <4>1, <4>2, ConcatEmptySeq
    <3>2. CASE p.path # <<>>  BY <3>2
    <3> QED BY <3>1, <3>2
  <2>6. UrlsAgree'
    <3> DEFINE port == IF p.port = NoPort THEN PortOf(p.scheme) ELSE p.port
               path == IF p.path = <<>> THEN <<"/">> ELSE p.path
    <3>1. /\ query'.kind = "url" /\ query'.parts = p
          /\ reply'.cracked = WinHttpCrackUrl(Written(p))
          /\ reply'.redirected = RedirectUrl(Written(p), Nothing)
      BY <2>1
    <3>2. reply'.cracked = [p EXCEPT !.port = port, !.path = path]  BY <2>2, <2>4, <3>1
    <3>3. reply'.cracked = [scheme |-> p.scheme, host |-> p.host, port |-> port,
                            path |-> path, extra |-> p.extra]
      BY <2>2, <3>1
    <3>4. reply'.redirected = [scheme |-> p.scheme, host |-> p.host, port |-> port,
                               path |-> path \o p.extra]
      BY <2>3, <2>5, <3>1
    <3> HIDE DEF path
    <3>5. /\ <<reply'.redirected.scheme, reply'.redirected.host, reply'.redirected.port>>
               = <<reply'.cracked.scheme, reply'.cracked.host, reply'.cracked.port>>
          /\ reply'.redirected.path = reply'.cracked.path \o reply'.cracked.extra
      <4> HIDE DEF port
      <4> QED BY <3>3, <3>4
    <3> QED BY <3>1, <3>2, <3>5 DEF UrlsAgree, path
  <2> QED BY <2>1, <2>6 DEF TextInv, HeadersInv
<1>2. CASE RelativeUrl
  <2> DEFINE p == query.parts
  <2>1. p \in WellFormed /\ p.path # <<>>  BY <1>2 DEF RelativeUrl, TextInv
  <2>2. /\ query' = [kind |-> "path", path |-> p.path \o p.extra, conn |-> p]
        /\ reply' = [redirected |-> RedirectUrl(p.path \o p.extra, p)]
    BY <1>2 DEF RelativeUrl
  <2> HIDE DEF p
  <2>3. RedirectUrl(p.path \o p.extra, p)
          = [scheme |-> p.scheme, host |-> p.host,
             port |-> IF p.port = NoPort THEN PortOf(p.scheme) ELSE p.port,
             path |-> p.path \o p.extra]
    BY <2>1, PathRedirectIs
  <2>4. UrlsAgree'  BY <2>2, <2>3 DEF UrlsAgree
  <2> QED BY <2>2, <2>4 DEF TextInv, HeadersInv
<1>3. CASE QueryHeaders
  <2>1. PICK response \in Responses, what \in WhatOf, as_number \in BOOLEAN,
             avail \in 0 .. 2 * MaxText + 3 :
          /\ query' = [kind |-> "headers", response |-> response, what |-> what,
                       as_number |-> as_number, avail |-> avail]
          /\ reply' = WinHttpQueryHeaders(response, what, as_number, avail)
    BY <1>3 DEF QueryHeaders
  <2>2. query' \in Queries  BY <2>1 DEF Queries
  <2>3. reply' = AnswerTo(query')  BY <2>1 DEF AnswerTo
  <2>4. query'.kind = "headers"  BY <2>1
  <2> QED BY <2>2, <2>3, <2>4 DEF TextInv, HeadersInv, UrlsAgree
<1>4. CASE QueryAgain
  <2>1. query.kind = "headers" /\ reply.error = "INSUFFICIENT_BUFFER"  BY <1>4 DEF QueryAgain
  <2>2. query \in Queries /\ reply = AnswerTo(query)  BY <2>1 DEF TextInv, HeadersInv
  <2>3. reply.need \in Nat  BY <2>2, AnswerFacts
  <2>4. /\ query' = [query EXCEPT !.kind = "again", !.avail = reply.need]
        /\ reply' = WinHttpQueryHeaders(query.response, query.what, query.as_number, reply.need)
    BY <1>4 DEF QueryAgain
  <2>5. /\ query' \in Queries /\ query'.kind = "again"
        /\ query'.response = query.response /\ query'.what = query.what
        /\ query'.as_number = query.as_number /\ query'.avail = reply.need
    BY <2>2, <2>3, <2>4 DEF Queries
  <2>6. reply' = AnswerTo(query')  BY <2>4, <2>5 DEF AnswerTo
  <2>7. reply'.ret
    <3> DEFINE a == query'
    <3>1. AnswerTo(a).ret
      <4>1. /\ a \in Queries /\ a.response = query.response /\ a.what = query.what
            /\ a.as_number = query.as_number /\ a.avail = AnswerTo(query).need
        BY <2>2, <2>5
      <4>2. AnswerTo(query).error = "INSUFFICIENT_BUFFER"  BY <2>1, <2>2
      <4> HIDE DEF a
      <4> QED BY <2>2, <4>1, <4>2, SecondAnswer
    <3> QED BY <2>6, <3>1
  <2> QED BY <2>5, <2>6, <2>7 DEF TextInv, HeadersInv, UrlsAgree
<1>5. CASE UNCHANGED textVars
  BY <1>5 DEF textVars, TextInv, HeadersInv, UrlsAgree
<1> QED BY <1>1, <1>2, <1>3, <1>4, <1>5 DEF TextNext

THEOREM TextInvariant == TextSpec => []TextInv
<1> QED BY TextStarts, TextStep, PTL DEF TextSpec

LEMMA TextGood == TextInv => TextTypeOK /\ TextRight
<1> SUFFICES ASSUME TextInv PROVE TextTypeOK /\ AskTwice
  BY DEF TextInv, TextRight
<1>1. ASSUME query.kind \in {"headers", "again"}
      PROVE  /\ query.response \in Responses /\ reply.need \in Nat /\ reply.wrote \in Nat
             /\ AskTwice
  <2>1. query \in Queries /\ reply = AnswerTo(query)
        /\ (query.kind = "again" => reply.ret)  BY <1>1 DEF TextInv, HeadersInv
  <2>2. query.response \in Responses  BY <2>1 DEF Queries
  <2>3. /\ reply.need \in Nat /\ reply.wrote \in Nat
        /\ reply.ret => /\ reply.wrote <= query.avail
                        /\ ~ AsNumber(query) /\ AskedFor(query) <= WIDE_MAX
                             => reply.wrote = 2 * (AskedFor(query) + 1)
    BY <2>1, AnswerFacts
  <2>4. AskTwice  BY <2>1, <2>3 DEF AskTwice, AsNumber, AskedFor
  <2> QED BY <2>2, <2>3, <2>4
<1>2. AskTwice  BY <1>1 DEF AskTwice
<1>3. TextTypeOK  BY <1>1 DEF TextInv, TextTypeOK
<1> QED BY <1>2, <1>3

\* The questions of the guest and the replies are of the kinds the model says.
THEOREM TextTyped == TextSpec => []TextTypeOK
<1> QED BY TextInvariant, TextGood, PTL

\* Text crosses unharmed for URLs and headers of every length: cracking and
\* redirecting agree on what a URL names, and asking twice gets a header whole
\* (WinHttpCrackUrl, WinHttpReceiveResponse, WinHttpQueryHeaders).
THEOREM TextUnharmed == TextSpec => []TextRight
<1> QED BY TextInvariant, TextGood, PTL

-----------------------------------------------------------------------------
(* Addresses: where getaddrinfo puts its nodes.                            *)

\* Induction up to a number, over a set of numbers.
LEMMA NodesUpTo ==
    ASSUME NEW N \in Nat, NEW B, 0 \in B, \A n \in 1 .. N : n - 1 \in B => n \in B
    PROVE  \A n \in 0 .. N : n \in B
<1> DEFINE Bad == {n \in 0 .. N : n \notin B}
<1> SUFFICES ASSUME Bad # {} PROVE FALSE  OBVIOUS
<1>1. Bad \subseteq Nat  OBVIOUS
<1>2. PICK m \in Bad : \A k \in Bad : ~ (<<k, m>> \in OpToRel(<, Nat))
  <2> HIDE DEF Bad
  <2> QED BY <1>1, NatLessThanWellFounded, WFMin
<1>3. m \in 1 .. N /\ m \notin B  OBVIOUS
<1>4. m - 1 \notin Bad
  <2> HIDE DEF Bad
  <2>1. m - 1 \in Nat /\ m - 1 < m  BY <1>3
  <2> QED BY <1>2, <2>1, <1>1 DEF OpToRel
<1>5. m - 1 \in B  BY <1>3, <1>4
<1> QED BY <1>3, <1>5

\* The nodes of a list, by the strides between them.
IsPtr(list, n, ptr) ==
    ptr = [k \in 0 .. n |->
              IF k = 0 THEN WG_GAI_BASE ELSE ptr[k - 1] + 32 + Align4(SizeOf(list[k].b1))]

LEMMA Strides ==
    ASSUME NEW sa \in Sockaddrs
    PROVE  /\ sa.b1 \in Families /\ SizeOf(sa.b1) \in {16, 28}
           /\ Align4(SizeOf(sa.b1)) = SizeOf(sa.b1)
<1>1. PICK f \in Families, r \in HostAddresses : sa = BsdSockaddr(f, r)
  BY DEF Sockaddrs
<1>2. sa.b1 = f  BY <1>1 DEF BsdSockaddr
<1>3. SizeOf(f) \in {16, 28}  BY DEF SizeOf
<1>4. Align4(16) = 16 /\ Align4(28) = 28  BY DEF Align4
<1> QED BY <1>2, <1>3, <1>4

LEMMA PtrExists ==
    ASSUME NEW N \in Nat, NEW list \in [1 .. N -> Sockaddrs]
    PROVE  \E ptr \in [0 .. N -> Int] : IsPtr(list, N, ptr)
<1> DEFINE B == {n \in 0 .. N : \E ptr \in [0 .. n -> Int] : IsPtr(list, n, ptr)}
<1>1. 0 \in B
  <2> DEFINE p == [k \in 0 .. 0 |-> WG_GAI_BASE]
  <2>1. p \in [0 .. 0 -> Int]  BY DEF WG_GAI_BASE
  <2>2. IsPtr(list, 0, p)
    <3>1. \A k \in 0 .. 0 : k = 0  OBVIOUS
    <3>2. p = [k \in 0 .. 0 |->
              IF k = 0 THEN WG_GAI_BASE ELSE p[k - 1] + 32 + Align4(SizeOf(list[k].b1))]
      BY <3>1
    <3> HIDE DEF p
    <3> QED BY <3>2 DEF IsPtr
  <2> HIDE DEF p
  <2> QED BY <2>1, <2>2
<1>2. ASSUME NEW n \in 1 .. N, n - 1 \in B PROVE n \in B
  <2>1. PICK q \in [0 .. n - 1 -> Int] : IsPtr(list, n - 1, q)  BY <1>2
  <2> DEFINE s == 32 + Align4(SizeOf(list[n].b1))
             p == [k \in 0 .. n |-> IF k < n THEN q[k] ELSE q[n - 1] + s]
  <2>2. list[n] \in Sockaddrs  OBVIOUS
  <2>3. s \in Int  BY <2>2, Strides
  <2>4. p \in [0 .. n -> Int]
    <3> HIDE DEF s
    <3> QED BY <2>3
  <2>5. ASSUME NEW k \in 0 .. n
        PROVE  p[k] = IF k = 0 THEN WG_GAI_BASE
                      ELSE p[k - 1] + 32 + Align4(SizeOf(list[k].b1))
    <3>1. CASE k = 0  BY <2>1, <3>1 DEF IsPtr
    <3>2. CASE k \in 1 .. n - 1
      <4>1. q[k] = q[k - 1] + 32 + Align4(SizeOf(list[k].b1))  BY <2>1, <3>2 DEF IsPtr
      <4>2. p[k] = q[k] /\ p[k - 1] = q[k - 1] /\ k # 0  BY <3>2
      <4> HIDE DEF p
      <4> QED BY <4>1, <4>2, Zenon
    <3>3. CASE k = n
      <4>1. n \in 0 .. n /\ n - 1 \in 0 .. n /\ n # 0 /\ n - 1 < n /\ ~ (n < n)
            /\ n - 1 \in 0 .. n - 1
        OBVIOUS
      <4>2. p[n] = q[n - 1] + s /\ p[n - 1] = q[n - 1]  BY <4>1
      <4>3. q[n - 1] \in Int  BY <4>1
      <4>4. PICK t \in Int : t = Align4(SizeOf(list[n].b1))  BY <2>2, Strides
      <4>5. p[n] = p[n - 1] + 32 + Align4(SizeOf(list[n].b1))
        <5> HIDE DEF p
        <5> QED BY <4>2, <4>3, <4>4
      <4> HIDE DEF p
      <4> QED BY <3>3, <4>1, <4>5
    <3> HIDE DEF p
    <3> QED BY <3>1, <3>2, <3>3
  <2> HIDE DEF p
  <2>6. p = [k \in 0 .. n |->
              IF k = 0 THEN WG_GAI_BASE ELSE p[k - 1] + 32 + Align4(SizeOf(list[k].b1))]
    BY <2>4, <2>5
  <2>7. IsPtr(list, n, p)  BY <2>6 DEF IsPtr
  <2> QED BY <2>4, <2>7
<1> HIDE DEF B
<1>3. N \in B  BY <1>1, <1>2, NodesUpTo
<1> QED BY <1>3 DEF B

\* Each node is behind the one before it and its sockaddr, and near.
LEMMA NodeBases ==
    ASSUME NEW N \in Nat, NEW list \in [1 .. N -> Sockaddrs]
    PROVE  /\ \A i \in 1 .. N + 1 : NodeBase(list, i) \in Int
           /\ NodeBase(list, 1) = WG_GAI_BASE
           /\ \A i \in 1 .. N : /\ NodeBase(list, i) + 48 <= NodeBase(list, i + 1)
                                /\ NodeBase(list, i + 1) <= NodeBase(list, i) + 60
<1>0. Len(list) = N  OBVIOUS
<1> DEFINE P == CHOOSE ptr : IsPtr(list, N, ptr)
<1>1. \A i : NodeBase(list, i) = P[i - 1]  BY <1>0 DEF NodeBase, IsPtr
<1>2. IsPtr(list, N, P)  BY PtrExists
<1> HIDE DEF P
<1>3. \A ptr : IsPtr(list, N, ptr) =>
         \A k \in 0 .. N : ptr[k] = IF k = 0 THEN WG_GAI_BASE
                                    ELSE ptr[k - 1] + 32 + Align4(SizeOf(list[k].b1))
  BY DEF IsPtr
<1>4. \A k \in 0 .. N : P[k] = IF k = 0 THEN WG_GAI_BASE
                               ELSE P[k - 1] + 32 + Align4(SizeOf(list[k].b1))
  BY <1>2, <1>3
<1>5. \A k \in 1 .. N : Align4(SizeOf(list[k].b1)) \in {16, 28}
  <2> SUFFICES ASSUME NEW k \in 1 .. N PROVE Align4(SizeOf(list[k].b1)) \in {16, 28}  OBVIOUS
  <2>1. list[k] \in Sockaddrs  OBVIOUS
  <2> QED BY <2>1, Strides
<1>6. \A k \in 0 .. N : P[k] \in Int
  <2> DEFINE B == {k \in 0 .. N : P[k] \in Int}
  <2>1. P[0] = WG_GAI_BASE  BY <1>4
  <2>2. 0 \in B  BY <2>1 DEF WG_GAI_BASE
  <2>3. ASSUME NEW n \in 1 .. N, n - 1 \in B PROVE n \in B
    <3>1. P[n] = P[n - 1] + 32 + Align4(SizeOf(list[n].b1)) /\ P[n - 1] \in Int
      BY <1>4, <2>3
    <3>2. Align4(SizeOf(list[n].b1)) \in Int  BY <1>5
    <3> QED BY <3>1, <3>2
  <2> HIDE DEF B
  <2>4. \A n \in 0 .. N : n \in B  BY <2>2, <2>3, NodesUpTo
  <2> QED BY <2>4 DEF B
<1>7. ASSUME NEW i \in 1 .. N
      PROVE  /\ NodeBase(list, i) + 48 <= NodeBase(list, i + 1)
             /\ NodeBase(list, i + 1) <= NodeBase(list, i) + 60
  <2>1. PICK d \in {16, 28} : d = Align4(SizeOf(list[i].b1))  BY <1>5
  <2>2. P[i] = P[i - 1] + 32 + d  BY <1>4, <2>1
  <2>3. P[i - 1] \in Int  BY <1>6
  <2>4. NodeBase(list, i + 1) = P[i] /\ NodeBase(list, i) = P[i - 1]
    <3>1. (i + 1) - 1 = i  OBVIOUS
    <3> QED BY <1>1, <3>1
  <2> QED BY <2>2, <2>3, <2>4
<1>8. \A i \in 1 .. N + 1 : NodeBase(list, i) \in Int  BY <1>1, <1>6
<1>9. NodeBase(list, 1) = WG_GAI_BASE
  <2>1. 1 - 1 = 0  OBVIOUS
  <2> QED BY <1>1, <1>4, <2>1
<1> QED BY <1>7, <1>8, <1>9

LEMMA NodesApart ==
    ASSUME NEW N \in Nat, NEW list \in [1 .. N -> Sockaddrs]
    PROVE  /\ \A i, j \in 1 .. N : i < j => NodeBase(list, i) + 48 <= NodeBase(list, j)
           /\ \A i \in 1 .. N : /\ WG_GAI_BASE <= NodeBase(list, i)
                                /\ NodeBase(list, i) <= WG_GAI_BASE + 60 * (i - 1)
<1> DEFINE A(j) == NodeBase(list, j)
<1>1. /\ \A i \in 1 .. N + 1 : A(i) \in Int
      /\ A(1) = WG_GAI_BASE
      /\ \A i \in 1 .. N : A(i) + 48 <= A(i + 1) /\ A(i + 1) <= A(i) + 60
  BY NodeBases
<1>2. WG_GAI_BASE \in Int  BY DEF WG_GAI_BASE
<1> HIDE DEF A
<1> DEFINE B == {n \in 0 .. N : n > 0 =>
                   /\ \A i \in 1 .. n : i < n => A(i) + 48 <= A(n)
                   /\ WG_GAI_BASE <= A(n) /\ A(n) <= WG_GAI_BASE + 60 * (n - 1)}
<1>3. 0 \in B  OBVIOUS
<1>4. ASSUME NEW n \in 1 .. N, n - 1 \in B PROVE n \in B
  <2>1. CASE n = 1  BY <1>1, <1>2, <2>1
  <2>2. CASE n > 1
    <3>1. PICK m \in 1 .. N : m = n - 1  BY <2>2
    <3>2. /\ \A i \in 1 .. m : i < m => A(i) + 48 <= A(m)
          /\ WG_GAI_BASE <= A(m) /\ A(m) <= WG_GAI_BASE + 60 * (m - 1)
      BY <1>4, <3>1
    <3>3. m + 1 = n /\ m \in 1 .. N + 1 /\ n \in 1 .. N + 1  BY <3>1
    <3>4. A(m) + 48 <= A(n) /\ A(n) <= A(m) + 60 /\ A(m) \in Int /\ A(n) \in Int
      BY <1>1, <3>1, <3>3
    <3>5. ASSUME NEW i \in 1 .. n, i < n PROVE A(i) + 48 <= A(n)
      <4>1. i = m \/ (i \in 1 .. m /\ i < m)  BY <3>1, <3>5
      <4>2. A(i) \in Int  BY <1>1
      <4> QED BY <3>2, <3>4, <4>1, <4>2
    <3>6. WG_GAI_BASE <= A(n) /\ A(n) <= WG_GAI_BASE + 60 * (n - 1)
      BY <1>2, <3>1, <3>2, <3>4
    <3> QED BY <3>5, <3>6
  <2> QED BY <2>1, <2>2
<1> HIDE DEF B
<1>5. \A n \in 0 .. N : n \in B  BY <1>3, <1>4, NodesUpTo
<1>6. \A n \in 1 .. N : /\ \A i \in 1 .. n : i < n => A(i) + 48 <= A(n)
                        /\ WG_GAI_BASE <= A(n) /\ A(n) <= WG_GAI_BASE + 60 * (n - 1)
  BY <1>5 DEF B
<1>7. \A i, j \in 1 .. N : i < j => i \in 1 .. j  OBVIOUS
<1> QED BY <1>6, <1>7 DEF A

\* Two nodes are the same only if they are the same result; a node is no sockaddr.
LEMMA NodesDiffer ==
    ASSUME NEW N \in Nat, NEW list \in [1 .. N -> Sockaddrs], NEW i \in 1 .. N, NEW j \in 1 .. N
    PROVE  /\ NodeBase(list, i) = NodeBase(list, j) => i = j
           /\ NodeBase(list, i) + 32 # NodeBase(list, j)
           /\ NodeBase(list, i) + 32 = NodeBase(list, j) + 32 => i = j
<1>1. PICK a \in Int, b \in Int : a = NodeBase(list, i) /\ b = NodeBase(list, j)
  <2>1. i \in 1 .. N + 1 /\ j \in 1 .. N + 1  OBVIOUS
  <2> QED BY <2>1, NodeBases
<1>2. (i < j => a + 48 <= b) /\ (j < i => b + 48 <= a)  BY <1>1, NodesApart
<1>3. i < j \/ j < i \/ i = j  OBVIOUS
<1> QED BY <1>1, <1>2, <1>3

\* Memory holds the list: each node where it belongs, its sockaddr behind it.
HoldsList(mem, list, N) ==
    \A i \in 1 .. N :
      /\ NodeBase(list, i) \in DOMAIN mem /\ NodeBase(list, i) + 32 \in DOMAIN mem
      /\ mem[NodeBase(list, i)] = Addrinfo(list, i)
      /\ mem[NodeBase(list, i) + 32] = ToWindows(list[i])

IsWalk(k, node) ==
    node = [j \in 0 .. k |-> IF j = 0 THEN WG_GAI_BASE ELSE scratch[node[j - 1]].next]

\* Following ai_next goes from node to node, and ends behind the last.
LEMMA WalkIs ==
    ASSUME NEW N \in Nat, N > 0, found \in [1 .. N -> Sockaddrs], HoldsList(scratch, found, N),
           NEW k \in 0 .. N
    PROVE  Walk(k) = IF k < N THEN NodeBase(found, k + 1) ELSE 0
<1>0. Len(found) = N  OBVIOUS
<1> DEFINE G(j) == IF j < N THEN NodeBase(found, j + 1) ELSE 0
           g == [j \in 0 .. k |-> G(j)]
           P == CHOOSE node : IsWalk(k, node)
<1>1. ASSUME NEW j \in 1 .. k PROVE scratch[G(j - 1)].next = G(j)
  <2>1. j \in 1 .. N /\ j - 1 < N /\ (j - 1) + 1 = j  OBVIOUS
  <2>2. G(j - 1) = NodeBase(found, j)  BY <2>1
  <2>3. scratch[NodeBase(found, j)] = Addrinfo(found, j)  BY <2>1 DEF HoldsList
  <2>4. Addrinfo(found, j).next = G(j)  BY <1>0 DEF Addrinfo
  <2> HIDE DEF G
  <2> QED BY <2>2, <2>3, <2>4
<1>2. G(0) = WG_GAI_BASE
  <2>1. NodeBase(found, 1) = WG_GAI_BASE  BY NodeBases
  <2>2. 0 < N /\ 0 + 1 = 1  OBVIOUS
  <2> QED BY <2>1, <2>2
<1> HIDE DEF G
<1>3. IsWalk(k, g)
  <2>1. ASSUME NEW j \in 0 .. k
        PROVE  g[j] = IF j = 0 THEN WG_GAI_BASE ELSE scratch[g[j - 1]].next
    <3>1. CASE j = 0  BY <1>2, <3>1
    <3>2. CASE j \in 1 .. k
      <4>1. g[j] = G(j) /\ g[j - 1] = G(j - 1) /\ j # 0  BY <3>2
      <4>2. scratch[G(j - 1)].next = G(j)  BY <1>1, <3>2
      <4> HIDE DEF g
      <4> QED BY <4>1, <4>2
    <3> QED BY <3>1, <3>2
  <2>2. g = [j \in 0 .. k |-> g[j]]  OBVIOUS
  <2> HIDE DEF g
  <2>3. g = [j \in 0 .. k |-> IF j = 0 THEN WG_GAI_BASE ELSE scratch[g[j - 1]].next]
    BY <2>1, <2>2
  <2> QED BY <2>3 DEF IsWalk
<1>4. IsWalk(k, P)
  <2> HIDE DEF g
  <2> QED BY <1>3
<1>5. Walk(k) = P[k]  BY DEF Walk, IsWalk
<1> HIDE DEF P
<1>6. \A node : IsWalk(k, node) =>
        \A j \in 0 .. k : node[j] = IF j = 0 THEN WG_GAI_BASE ELSE scratch[node[j - 1]].next
  BY DEF IsWalk
<1>7. \A j \in 0 .. k : P[j] = IF j = 0 THEN WG_GAI_BASE ELSE scratch[P[j - 1]].next
  BY <1>4, <1>6
<1>8. \A j \in 0 .. k : P[j] = G(j)
  <2> DEFINE B == {j \in 0 .. k : P[j] = G(j)}
  <2>1. 0 \in B  BY <1>2, <1>7
  <2>2. ASSUME NEW j \in 1 .. k, j - 1 \in B PROVE j \in B
    <3>1. P[j - 1] = G(j - 1)  BY <2>2
    <3>2. P[j] = scratch[P[j - 1]].next  BY <1>7
    <3>3. scratch[G(j - 1)].next = G(j)  BY <1>1
    <3> QED BY <3>1, <3>2, <3>3
  <2> HIDE DEF B
  <2>3. k \in Nat  OBVIOUS
  <2>4. \A j \in 0 .. k : j \in B  BY <2>1, <2>2, <2>3, NodesUpTo
  <2> QED BY <2>4 DEF B
<1>9. P[k] = G(k)  BY <1>8
<1> QED BY <1>5, <1>9 DEF G

\* The region has room for the list before gethostbyname's structure.
AddrInv ==
    /\ found # <<>> => \E N \in 1 .. MaxResults :
                         found \in [1 .. N -> Sockaddrs] /\ HoldsList(scratch, found, N)
    /\ HB + 120 \in DOMAIN scratch
    /\ scratch[HB + 120] = IF hostent = <<>> THEN Loopback ELSE hostent[1]
    /\ AddressesSurvive

\* The two layouts are inverse.
LEMMA BackAndForth ==
    ASSUME NEW sa \in Sockaddrs
    PROVE  read_sockaddr(ToWindows(sa)) = sa
<1>1. PICK f \in Families, r \in HostAddresses : sa = BsdSockaddr(f, r)
  BY DEF Sockaddrs
<1>2. sa = [b0 |-> SizeOf(f), b1 |-> f, rest |-> r]  BY <1>1 DEF BsdSockaddr
<1>3. CASE f = AF_INET
  <2>1. sa = [b0 |-> 16, b1 |-> 2, rest |-> r]  BY <1>2, <1>3 DEF SizeOf, AF_INET, AF_INET6
  <2>2. sa.b1 = AF_INET /\ sa.b1 # AF_INET6  BY <2>1 DEF AF_INET, AF_INET6
  <2>3. ToWindows(sa) = [sa EXCEPT !.b0 = 2, !.b1 = 0]  BY <2>2 DEF ToWindows, WIN_AF_INET
  <2>4. ToWindows(sa) = [b0 |-> 2, b1 |-> 0, rest |-> r]  BY <2>1, <2>3
  <2>5. WinFamily(ToWindows(sa)) = 2  BY <2>4 DEF WinFamily
  <2>6. read_sockaddr(ToWindows(sa)) = [ToWindows(sa) EXCEPT !.b0 = 16, !.b1 = 2]
    BY <2>5 DEF read_sockaddr, WIN_AF_INET, WIN_AF_INET6, AF_INET
  <2>7. [ToWindows(sa) EXCEPT !.b0 = 16, !.b1 = 2] = [b0 |-> 16, b1 |-> 2, rest |-> r]
    <3>1. PICK w : w = ToWindows(sa)  OBVIOUS
    <3>2. PICK v : v = [w EXCEPT !.b0 = 16]  OBVIOUS
    <3>3. v = [b0 |-> 16, b1 |-> 0, rest |-> r]  BY <2>4, <3>1, <3>2
    <3>4. [w EXCEPT !.b0 = 16, !.b1 = 2] = [v EXCEPT !.b1 = 2]  BY <3>2
    <3>5. [v EXCEPT !.b1 = 2] = [b0 |-> 16, b1 |-> 2, rest |-> r]  BY <3>3
    <3> QED BY <3>1, <3>4, <3>5
  <2> QED BY <2>1, <2>6, <2>7
<1>4. CASE f = AF_INET6
  <2>1. sa = [b0 |-> 28, b1 |-> 30, rest |-> r]  BY <1>2, <1>4 DEF SizeOf, AF_INET6
  <2>2. sa.b1 = AF_INET6 /\ sa.b1 # AF_INET  BY <2>1 DEF AF_INET6, AF_INET
  <2>3. ToWindows(sa) = [sa EXCEPT !.b0 = 23, !.b1 = 0]  BY <2>2 DEF ToWindows, WIN_AF_INET6
  <2>4. ToWindows(sa) = [b0 |-> 23, b1 |-> 0, rest |-> r]  BY <2>1, <2>3
  <2>5. WinFamily(ToWindows(sa)) = 23  BY <2>4 DEF WinFamily
  <2>6. read_sockaddr(ToWindows(sa)) = [ToWindows(sa) EXCEPT !.b0 = 28, !.b1 = 30]
    BY <2>5 DEF read_sockaddr, WIN_AF_INET, WIN_AF_INET6, AF_INET6
  <2>7. [ToWindows(sa) EXCEPT !.b0 = 28, !.b1 = 30] = [b0 |-> 28, b1 |-> 30, rest |-> r]
    <3>1. PICK w : w = ToWindows(sa)  OBVIOUS
    <3>2. PICK v : v = [w EXCEPT !.b0 = 28]  OBVIOUS
    <3>3. v = [b0 |-> 28, b1 |-> 0, rest |-> r]  BY <2>4, <3>1, <3>2
    <3>4. [w EXCEPT !.b0 = 28, !.b1 = 30] = [v EXCEPT !.b1 = 30]  BY <3>2
    <3>5. [v EXCEPT !.b1 = 30] = [b0 |-> 28, b1 |-> 30, rest |-> r]  BY <3>3
    <3> QED BY <3>1, <3>4, <3>5
  <2> QED BY <2>1, <2>6, <2>7
<1> QED BY <1>3, <1>4 DEF Families

LEMMA AddrGood == AddrInv => AddressesRight
<1> SUFFICES ASSUME AddrInv PROVE LookupsFaithful
  BY DEF AddressesRight, AddrInv
<1> SUFFICES ASSUME found # <<>>
             PROVE  /\ \A i \in DOMAIN found :
                         LET ai == scratch[Walk(i - 1)]
                         IN  /\ ai.family = WinFamilyOf(found[i].b1)
                             /\ ai.addrlen = SizeOf(found[i].b1)
                             /\ scratch[ai.addr] = ToWindows(found[i])
                    /\ Walk(Len(found)) = 0
  BY DEF LookupsFaithful, AddrInv
<1>1. PICK N \in 1 .. MaxResults : found \in [1 .. N -> Sockaddrs] /\ HoldsList(scratch, found, N)
  BY DEF AddrInv
<1>2. N \in Nat /\ N > 0 /\ Len(found) = N /\ DOMAIN found = 1 .. N
  BY <1>1, AddressesAssumption
<1>3. \A k \in 0 .. N : Walk(k) = IF k < N THEN NodeBase(found, k + 1) ELSE 0
  BY <1>1, <1>2, WalkIs
<1>4. Walk(Len(found)) = 0
  <2>1. N \in 0 .. N /\ ~ N < N  BY <1>2
  <2> QED BY <1>2, <1>3, <2>1
<1>5. ASSUME NEW i \in 1 .. N
      PROVE  /\ scratch[Walk(i - 1)] = Addrinfo(found, i)
             /\ scratch[NodeBase(found, i) + 32] = ToWindows(found[i])
  <2>1. i - 1 \in 0 .. N /\ i - 1 < N /\ (i - 1) + 1 = i  BY <1>2
  <2>2. Walk(i - 1) = NodeBase(found, i)  BY <1>3, <2>1
  <2> QED BY <1>1, <2>2 DEF HoldsList
<1>6. \A i : /\ Addrinfo(found, i).family = WinFamilyOf(found[i].b1)
             /\ Addrinfo(found, i).addrlen = SizeOf(found[i].b1)
             /\ Addrinfo(found, i).addr = NodeBase(found, i) + 32
  BY DEF Addrinfo
<1> QED BY <1>2, <1>4, <1>5, <1>6

AddrRoom == 60 * MaxResults <= HB - WG_GAI_BASE

\* getaddrinfo leaves its list in memory, and the hostent behind it alone.
LEMMA ListWritten ==
    ASSUME NEW N \in 1 .. MaxResults, NEW list \in [1 .. N -> Sockaddrs], AddrRoom,
           AddrInv, getaddrinfo(list)
    PROVE  /\ HoldsList(scratch', list, N)
           /\ HB + 120 \in DOMAIN scratch' /\ scratch'[HB + 120] = scratch[HB + 120]
<1>0. N \in Nat /\ DOMAIN list = 1 .. N  BY AddressesAssumption
<1> DEFINE nodes     == {NodeBase(list, i) : i \in DOMAIN list}
           sockaddrs == {n + 32 : n \in nodes}
           Nth(n)    == CHOOSE i \in DOMAIN list : NodeBase(list, i) = n
<1>1. scratch' = [a \in DOMAIN scratch \cup nodes \cup sockaddrs |->
                     IF a \in nodes THEN Addrinfo(list, Nth(a))
                     ELSE IF a \in sockaddrs THEN ToWindows(list[Nth(a - 32)])
                     ELSE scratch[a]]
  BY DEF getaddrinfo
<1>2. \A i \in 1 .. N : NodeBase(list, i) \in Int  BY <1>0, NodeBases
<1>3. ASSUME NEW i \in 1 .. N PROVE Nth(NodeBase(list, i)) = i
  <2>1. \A j \in 1 .. N : NodeBase(list, j) = NodeBase(list, i) => j = i
    BY <1>0, NodesDiffer
  <2> QED BY <1>0, <2>1
<1>4. \A i \in 1 .. N : NodeBase(list, i) \in nodes /\ NodeBase(list, i) + 32 \in sockaddrs
  BY <1>0
<1>5. ASSUME NEW i \in 1 .. N PROVE NodeBase(list, i) + 32 \notin nodes
  BY <1>0, NodesDiffer
<1>6. HB + 120 \notin nodes /\ HB + 120 \notin sockaddrs
  <2> SUFFICES ASSUME NEW i \in 1 .. N
               PROVE  HB + 120 # NodeBase(list, i) /\ HB + 120 # NodeBase(list, i) + 32
    BY <1>0
  <2>1. PICK a \in Int : a = NodeBase(list, i) /\ a <= WG_GAI_BASE + 60 * (i - 1)
    BY <1>0, <1>2, NodesApart
  <2>2. PICK m \in Nat : m = MaxResults /\ i <= m  BY AddressesAssumption
  <2>3. HB \in Int /\ WG_GAI_BASE \in Int  BY DEF HB, WG_GAI_BASE
  <2>4. 60 * m <= HB - WG_GAI_BASE  BY <2>2 DEF AddrRoom
  <2>5. 60 * (i - 1) <= 60 * m  BY <2>2
  <2>6. a <= HB  BY <2>1, <2>3, <2>4, <2>5
  <2> QED BY <2>1, <2>3, <2>6
<1> HIDE DEF nodes, sockaddrs, Nth
<1>7. ASSUME NEW i \in 1 .. N
      PROVE  /\ NodeBase(list, i) \in DOMAIN scratch'
             /\ NodeBase(list, i) + 32 \in DOMAIN scratch'
             /\ scratch'[NodeBase(list, i)] = Addrinfo(list, i)
             /\ scratch'[NodeBase(list, i) + 32] = ToWindows(list[i])
  <2>1. NodeBase(list, i) \in nodes /\ NodeBase(list, i) + 32 \in sockaddrs  BY <1>4
  <2>2. PICK a \in Int : a = NodeBase(list, i)  BY <1>2
  <2>3. (a + 32) - 32 = a  BY <2>2
  <2>4. scratch'[a] = Addrinfo(list, Nth(a)) /\ a \in DOMAIN scratch'
    BY <1>1, <2>1, <2>2
  <2>5. scratch'[a + 32] = ToWindows(list[Nth(a)]) /\ a + 32 \in DOMAIN scratch'
    BY <1>1, <1>5, <2>1, <2>2, <2>3
  <2> QED BY <1>3, <2>2, <2>4, <2>5
<1>8. HB + 120 \in DOMAIN scratch' /\ scratch'[HB + 120] = scratch[HB + 120]
  <2>1. HB + 120 \in DOMAIN scratch  BY DEF AddrInv
  <2> QED BY <1>1, <1>6, <2>1
<1> QED BY <1>7, <1>8 DEF HoldsList

\* gethostbyname writes behind the list.
LEMMA HostentWritten ==
    ASSUME NEW N \in 1 .. MaxResults, NEW list \in [1 .. N -> Sockaddrs], AddrRoom,
           NEW mem, NEW at, NEW struct, at \in Int, at >= HB, HoldsList(mem, list, N)
    PROVE  HoldsList(Poke(mem, at, struct), list, N)
<1>0. N \in Nat  BY AddressesAssumption
<1> SUFFICES ASSUME NEW i \in 1 .. N
             PROVE  NodeBase(list, i) # at /\ NodeBase(list, i) + 32 # at
  BY DEF HoldsList, Poke
<1>1. \A k \in 1 .. N : NodeBase(list, k) \in Int  BY <1>0, NodeBases
<1>2. PICK a \in Int : a = NodeBase(list, i) /\ a <= WG_GAI_BASE + 60 * (i - 1)
  BY <1>0, <1>1, NodesApart
<1>3. PICK m \in Nat : m = MaxResults /\ i <= m  BY AddressesAssumption
<1>4. HB \in Int /\ WG_GAI_BASE \in Int  BY DEF HB, WG_GAI_BASE
<1>5. 60 * m <= HB - WG_GAI_BASE  BY <1>3 DEF AddrRoom
<1>6. 60 * (i - 1) + 60 <= 60 * m  BY <1>3
<1>7. a + 32 < HB  BY <1>2, <1>4, <1>5, <1>6
<1> QED BY <1>2, <1>4, <1>7

LEMMA AddrStarts == AddressesInit => AddrInv
  BY DEF AddressesInit, AddrInv, AddressesSurvive

LEMMA AddrStep == ASSUME AddrRoom PROVE AddrInv /\ [AddressesNext]_addrVars => AddrInv'
<1> SUFFICES ASSUME AddrInv, [AddressesNext]_addrVars PROVE AddrInv'  OBVIOUS
<1> USE DEF AddrInv
<1>1. ASSUME NEW n \in 1 .. MaxResults, NEW list \in [1 .. n -> Sockaddrs], getaddrinfo(list)
      PROVE  AddrInv'
  <2>1. /\ HoldsList(scratch', list, n)
        /\ HB + 120 \in DOMAIN scratch' /\ scratch'[HB + 120] = scratch[HB + 120]
    BY <1>1, ListWritten
  <2>2. found' = list /\ UNCHANGED <<hostent, peer, guestBuffer>>  BY <1>1 DEF getaddrinfo
  <2> QED BY <2>1, <2>2 DEF AddressesSurvive
<1>2. CASE getaddrinfoFails \/ UNCHANGED addrVars
  BY <1>2 DEF getaddrinfoFails, addrVars, AddressesSurvive
<1>3. ASSUME NEW name, NEW r, gethostbyname(name, r)
      PROVE  AddrInv'
  <2> DEFINE ip == IF name = "local" \/ r = <<>> THEN Loopback ELSE r[1]
             m1 == Poke(scratch, HB, [name |-> HB + 16, aliases |-> HB + 96, list |-> HB + 104])
             m2 == Poke(m1, HB + 96, 0)
             m3 == Poke(m2, HB + 104, <<HB + 120, 0>>)
  <2>1. /\ scratch' = Poke(m3, HB + 120, ip)
        /\ hostent' = (IF name = "local" THEN <<>> ELSE r)
        /\ UNCHANGED <<found, peer, guestBuffer>>
    BY <1>3 DEF gethostbyname
  <2>2. HB + 120 \in DOMAIN scratch' /\ scratch'[HB + 120] = ip
    <3> HIDE DEF m3, ip
    <3> QED BY <2>1 DEF Poke
  <2>3. ip = IF hostent' = <<>> THEN Loopback ELSE hostent'[1]  BY <2>1
  <2>4. ASSUME found # <<>>
        PROVE  \E N \in 1 .. MaxResults : found \in [1 .. N -> Sockaddrs]
                                          /\ HoldsList(scratch', found, N)
    <3>1. PICK N \in 1 .. MaxResults : found \in [1 .. N -> Sockaddrs] /\ HoldsList(scratch, found, N)
      BY <2>4
    <3>2. \A mem, at, struct : at \in Int /\ at >= HB /\ HoldsList(mem, found, N)
            => HoldsList(Poke(mem, at, struct), found, N)
      BY <3>1, HostentWritten
    <3>3. /\ HB \in Int /\ HB >= HB /\ HB + 96 \in Int /\ HB + 96 >= HB
          /\ HB + 104 \in Int /\ HB + 104 >= HB /\ HB + 120 \in Int /\ HB + 120 >= HB
      BY DEF HB
    <3>4. HoldsList(m1, found, N)  BY <3>1, <3>2, <3>3
    <3> HIDE DEF m1
    <3>5. HoldsList(m2, found, N)  BY <3>2, <3>3, <3>4
    <3> HIDE DEF m2
    <3>6. HoldsList(m3, found, N)  BY <3>2, <3>3, <3>5
    <3> HIDE DEF m3, ip
    <3>7. HoldsList(scratch', found, N)  BY <2>1, <3>2, <3>3, <3>6
    <3> QED BY <3>1, <3>7
  <2> HIDE DEF ip, m3
  <2> QED BY <2>1, <2>2, <2>3, <2>4 DEF AddressesSurvive
<1>4. ASSUME NEW buflen, getpeername(buflen) PROVE AddrInv'
  <2>1. guestBuffer'.sockaddr = ToWindows(peer)
    BY <1>4 DEF getpeername, write_sockaddr
  <2> QED BY <1>4, <2>1 DEF getpeername, AddressesSurvive
<1>5. CASE connectAddress
  <2>1. peer' = read_sockaddr(ToWindows(peer)) /\ peer \in Sockaddrs
    BY <1>5 DEF connectAddress, AddressesSurvive
  <2>2. peer' = peer  BY <2>1, BackAndForth
  <2> QED BY <1>5, <2>2 DEF connectAddress, AddressesSurvive
<1> QED BY <1>1, <1>2, <1>3, <1>4, <1>5 DEF AddressesNext

\* However many lookups a program makes and however many results each has, the guest
\* that follows ai_next from the start of the region finds all of them in order, the
\* hostent of gethostbyname stays whole, and an address given back to the host is the
\* host's own (getaddrinfo, gethostbyname, read_sockaddr, write_sockaddr).  The
\* results of one lookup must end before the hostent: 960 kB of the region, which
\* the code does not check.
THEOREM AddressesFaithful ==
    ASSUME 60 * MaxResults <= HB - WG_GAI_BASE
    PROVE  AddressesSpec => []AddressesRight
<1>0. AddrRoom  BY DEF AddrRoom
<1>1. AddressesInit => AddrInv  BY AddrStarts
<1>2. AddrInv /\ [AddressesNext]_addrVars => AddrInv'  BY <1>0, AddrStep
<1>3. AddrInv => AddressesRight  BY AddrGood
<1> QED BY <1>1, <1>2, <1>3, PTL DEF AddressesSpec

=============================================================================
