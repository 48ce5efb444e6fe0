------------------------------ MODULE WGHttp ------------------------------
(***************************************************************************)
(* WinHTTP: Sources/Win32/wg_winhttp.c.                                    *)
(*                                                                         *)
(* Sessions, connections and requests share one table of slots.  A request *)
(* names its connection by handle, connects when it is sent, and hands     *)
(* over the body of its response from a buffer first (what came with the   *)
(* headers, or was fetched to count it) and from the host's connection     *)
(* then.  A redirect closes the connection and opens another inside        *)
(* WinHttpReceiveResponse.                                                 *)
(*                                                                         *)
(* The servers are external.  The bytes of a body are numbered 1, 2, ...   *)
(* The content of headers, and the size of guest buffers, are left out.    *)
(***************************************************************************)
EXTENDS Integers, Sequences, FiniteSets

CONSTANTS
    WG_MAX_HTTP,    \* 16 in the code
    Servers,        \* the servers of the world
    MaxBody,        \* bound: bytes in a body
    MaxHeaders,     \* headers that fit the buffer of a request
    HttpGuest       \* what the guest may do: "resend", "orphan"

ASSUME HttpAssumption ==
    /\ WG_MAX_HTTP \in Nat \ {0}
    /\ MaxBody \in Nat
    /\ MaxHeaders \in Nat
    /\ HttpGuest \subseteq {"resend", "orphan"}

VARIABLES
    slots,          \* the handle table
    connections     \* history: connections of the host that are open

httpVars == <<slots, connections>>

NoServer == "none"
Handles  == 0 .. WG_MAX_HTTP - 1
Bodies   == UNION {[1 .. n -> 1 .. MaxBody] : n \in 0 .. MaxBody}
Body(n)  == [i \in 1 .. n |-> i]

\* A slot.  server: of a connection, the one it names; of a request, the one it
\* is connected to.  origin, asked, got, wire are history: the server the request
\* was opened for, that or the one it was redirected to, the bytes handed over, the
\* bytes the server has yet to deliver.
Slot == [type : {"free", "session", "connect", "request"}, parent : Handles,
         server : Servers \cup {NoServer}, fd : BOOLEAN, headers : 0 .. MaxHeaders,
         headers_received : BOOLEAN, buf : Bodies, content_length : -1 .. MaxBody,
         total_body_read : 0 .. MaxBody, origin : Servers \cup {NoServer},
         asked : Servers \cup {NoServer}, got : Bodies, wire : Bodies, sent : BOOLEAN]

Blank == [type |-> "free", parent |-> 0, server |-> NoServer, fd |-> FALSE, headers |-> 0,
          headers_received |-> FALSE, buf |-> <<>>, content_length |-> -1,
          total_body_read |-> 0, origin |-> NoServer, asked |-> NoServer, got |-> <<>>,
          wire |-> <<>>, sent |-> FALSE]

Requests  == {h \in Handles : slots[h].type = "request"}
OpenCount(table) == Cardinality({h \in Handles : table[h].fd})
Children(h) == {r \in Requests : slots[r].parent = h}

-----------------------------------------------------------------------------
(* Handles.                                                                *)

\* The first free slot is cleared and taken; without one the call returns 0.
alloc_handle(slot) ==
    \E h \in Handles :
        /\ slots[h].type = "free"
        /\ \A j \in 0 .. h - 1 : slots[j].type # "free"
        /\ slots' = [slots EXCEPT ![h] = slot]

WinHttpOpen == alloc_handle([Blank EXCEPT !.type = "session"]) /\ UNCHANGED connections

WinHttpConnect(h, server) ==
    /\ slots[h].type = "session"
    /\ alloc_handle([Blank EXCEPT !.type = "connect", !.parent = h, !.server = server])
    /\ UNCHANGED connections

WinHttpOpenRequest(h) ==
    /\ slots[h].type = "connect"
    /\ alloc_handle([Blank EXCEPT !.type = "request", !.parent = h,
                                  !.origin = slots[h].server])
    /\ UNCHANGED connections

\* Mutant of free_handle: the connection of a request stays open.
free_handle_keeps(h) ==
    /\ slots[h].type # "free"
    /\ slots' = [slots EXCEPT ![h] = Blank]
    /\ UNCHANGED connections

\* A free slot is cleared when it is taken again; nothing reads it before.
free_handle(h) ==
    /\ slots[h].type # "free"
    /\ slots' = [slots EXCEPT ![h] = Blank]
    /\ connections' = IF slots[h].fd THEN connections - 1 ELSE connections

WinHttpCloseHandle(h) ==
    /\ Children(h) = {} \/ "orphan" \in HttpGuest
    /\ free_handle(h)

-----------------------------------------------------------------------------
(* Sending.                                                                *)

\* A header that does not fit is dropped; the call succeeds all the same.
WinHttpAddRequestHeaders(h) ==
    /\ slots[h].type = "request"
    /\ slots[h].headers < MaxHeaders
    /\ slots' = [slots EXCEPT ![h].headers = @ + 1]
    /\ UNCHANGED connections

\* http_connect_to: a server that is not reached leaves the request as it was, a
\* handshake that fails leaves it without a connection.
http_connect_to(r, server) ==
    {[req |-> r, opened |-> 0, ok |-> FALSE],
     [req |-> [r EXCEPT !.fd = FALSE], opened |-> 0, ok |-> FALSE],
     [req |-> [r EXCEPT !.fd = TRUE, !.server = server], opened |-> 1, ok |-> TRUE]}

\* The handle of the connection must be live; whether it is still a connection is
\* not looked at.  A request that could not be written keeps its connection.
WinHttpSendRequest(h) ==
    LET parent == slots[slots[h].parent]
    IN  /\ slots[h].type = "request"
        /\ parent.type # "free"
        /\ ~ slots[h].fd \/ "resend" \in HttpGuest
        /\ \E c \in http_connect_to(slots[h], parent.server), written \in BOOLEAN :
             /\ slots' = [slots EXCEPT ![h] = [c.req EXCEPT !.sent = c.ok /\ written,
                                                            !.asked = c.req.origin]]
             /\ connections' = connections + c.opened

-----------------------------------------------------------------------------
(* The response.                                                           *)

\* The headers of a response with a body of n bytes, extra of which came with
\* them and go to the buffer.
http_receive_headers(r, n, extra, cl) ==
    [r EXCEPT !.headers_received = TRUE,
              !.content_length = IF cl THEN n ELSE @,
              !.buf = IF extra > 0 THEN SubSeq(Body(n), 1, extra) ELSE @,
              !.wire = SubSeq(Body(n), extra + 1, n)]

\* A redirect: the connection is closed, the response forgotten.
Redirect(r) ==
    [r EXCEPT !.fd = FALSE, !.server = NoServer, !.buf = <<>>, !.wire = <<>>,
              !.headers_received = FALSE, !.content_length = -1, !.total_body_read = 0]

\* Where a redirect leads: a server of its own, or, if it is relative, the one
\* the request's connection names now (none, if that handle is gone).
Targets(h) ==
    Servers \cup {IF slots[slots[h].parent].type = "free"
                  THEN NoServer ELSE slots[slots[h].parent].server}

\* One round: a response to r, possibly a redirect that is followed.  A redirect
\* without a host, or one whose server does not answer, ends the call.
Answers(r) ==
    UNION {{http_receive_headers(r, n, extra, cl) : extra \in 0 .. n, cl \in BOOLEAN} :
             n \in 0 .. MaxBody}

\* The call fails, or leaves a response: the first, or that of the server to
\* which the chain of redirects led.  The chain is followed five times at most;
\* its length makes no difference to where it ends.
WinHttpReceiveResponse(h) ==
    /\ slots[h].type = "request"
    /\ slots[h].fd /\ slots[h].sent /\ ~ slots[h].headers_received
    /\ \/ UNCHANGED httpVars
       \/ \E r \in Answers(slots[h]) :
            slots' = [slots EXCEPT ![h] = r] /\ UNCHANGED connections
       \/ \E first \in Answers(slots[h]), server \in Targets(h) :
            LET gone == [Redirect(first) EXCEPT !.asked = server]
            IN  IF server = NoServer
                THEN /\ slots' = [slots EXCEPT ![h] = gone]
                     /\ connections' = connections - 1
                ELSE \E c \in http_connect_to(gone, server) :
                       \E r \in IF c.ok THEN Answers(c.req) \cup {c.req} ELSE {c.req} :
                          /\ slots' = [slots EXCEPT ![h] = r]
                          /\ connections' = connections - 1 + c.opened

\* What a read of at most n bytes from the host may return; no bytes: an error,
\* or the end of the stream.
Reads(wire, n) == {k \in 0 .. n : k <= Len(wire)}

\* The bytes that can be had without waiting.  If the buffer is empty and the
\* length unknown or not reached, some are fetched into it.
WinHttpQueryDataAvailable(h) ==
    LET s == slots[h]
    IN  /\ s.type = "request" /\ s.fd /\ s.headers_received
        /\ s.buf = <<>>
        /\ s.content_length = -1 \/ s.total_body_read < s.content_length
        /\ \E k \in Reads(s.wire, MaxBody) :
             slots' = [slots EXCEPT ![h].buf = SubSeq(s.wire, 1, k),
                                    ![h].wire = SubSeq(s.wire, k + 1, Len(s.wire))]
        /\ UNCHANGED connections

\* Mutant of WinHttpReadData: the socket is read before the buffer.
WinHttpReadData_socket_first(h, n) ==
    LET s == slots[h]
    IN  /\ s.type = "request" /\ s.headers_received
        /\ \E k \in IF s.fd THEN Reads(s.wire, n) ELSE {0} :
             LET give == IF Len(s.buf) < n - k THEN Len(s.buf) ELSE n - k
             IN  slots' = [slots EXCEPT
                    ![h].wire = SubSeq(s.wire, k + 1, Len(s.wire)),
                    ![h].buf = SubSeq(s.buf, give + 1, Len(s.buf)),
                    ![h].got = @ \o SubSeq(s.wire, 1, k) \o SubSeq(s.buf, 1, give),
                    ![h].total_body_read = @ + give + k]
        /\ UNCHANGED connections

\* The buffer first; what is still wanted from the host, which may wait for it.
WinHttpReadData(h, n) ==
    LET s    == slots[h]
        give == IF Len(s.buf) < n THEN Len(s.buf) ELSE n
    IN  /\ s.type = "request" /\ s.headers_received
        /\ \E k \in IF s.fd THEN Reads(s.wire, n - give) ELSE {0} :
             slots' = [slots EXCEPT
                    ![h].buf = SubSeq(s.buf, give + 1, Len(s.buf)),
                    ![h].wire = SubSeq(s.wire, k + 1, Len(s.wire)),
                    ![h].got = @ \o SubSeq(s.buf, 1, give) \o SubSeq(s.wire, 1, k),
                    ![h].total_body_read = @ + give + k]
        /\ UNCHANGED connections

-----------------------------------------------------------------------------
HttpInit ==
    /\ slots = [h \in Handles |-> Blank]
    /\ connections = 0

HttpNext ==
    \/ WinHttpOpen
    \/ \E h \in Handles :
         \/ \E server \in Servers : WinHttpConnect(h, server)
         \/ WinHttpOpenRequest(h)
         \/ WinHttpCloseHandle(h)
         \/ WinHttpAddRequestHeaders(h)
         \/ WinHttpSendRequest(h)
         \/ WinHttpReceiveResponse(h)
         \/ WinHttpQueryDataAvailable(h)
         \/ \E n \in 1 .. MaxBody : WinHttpReadData(h, n)

HttpSpec == HttpInit /\ [][HttpNext]_httpVars

-----------------------------------------------------------------------------
(* Properties.                                                             *)

HttpTypeOK == slots \in [Handles -> Slot] /\ connections \in Nat

\* However the guest mixes counting and reading, and however many redirects came
\* before, what it was handed, what is buffered and what the server has yet to
\* send make up the body of the last response, in order, each byte once; and the
\* count of bytes read, which decides when the body is complete, is right
\* (http_receive_headers, WinHttpQueryDataAvailable, WinHttpReadData).
BodyInOrder ==
    \A h \in Requests :
        LET s == slots[h]
            all == s.got \o s.buf \o s.wire
        IN  s.headers_received =>
              /\ all = Body(Len(all))
              /\ s.total_body_read = Len(s.got)
              /\ s.content_length \in {-1, Len(all)}

\* The connections of the host that are open are those of the requests, one each,
\* and lead to the server the request was made for (WinHttpSendRequest, redirects,
\* free_handle).
ConnectionsOwned ==
    /\ connections = OpenCount(slots)
    /\ \A h \in Requests : slots[h].fd => slots[h].server = slots[h].asked

=============================================================================
