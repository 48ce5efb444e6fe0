----------------------------- MODULE WGOpenSSL -----------------------------
(***************************************************************************)
(* The replacement of OpenSSL's TLS: Sources/Win32/wg_openssl_shim.c.      *)
(*                                                                         *)
(* A slot stands for an SSL object of the guest.  Ciphertext from the      *)
(* network is fed into in_buf, where the host's TLS session (external)     *)
(* takes it; what the session sends collects in out_buf until it is        *)
(* drained.  The module keeps both buffers with their positions, and what  *)
(* went through them: the bytes of an object are numbered as they are fed  *)
(* and as its session sends them.                                          *)
(***************************************************************************)
EXTENDS Integers, Sequences

CONSTANTS
    WG_OSSL_MAX,    \* 16 in the code
    Objects,        \* the SSL objects of the guest
    NoObject,       \* in a slot that is free
    MaxBytes        \* bound: bytes fed, and sent, by an object

ASSUME ShimAssumption ==
    /\ WG_OSSL_MAX \in Nat
    /\ MaxBytes \in Nat
    /\ NoObject \notin Objects

VARIABLES
    g_ctx,          \* the table
    wires           \* history, by object: bytes fed, taken, sent and drained

shimVars == <<g_ctx, wires>>

ShimSlots == 0 .. WG_OSSL_MAX - 1
Errors == {"NONE", "WANT_READ", "WANT_WRITE", "ZERO_RETURN", "SSL"}

Buffer == [bytes : Seq(1 .. MaxBytes), pos : 0 .. MaxBytes]
Empty  == [bytes |-> <<>>, pos |-> 0]

Shim   == [ssl : Objects \cup {NoObject}, st : BOOLEAN, handshaked : BOOLEAN,
           last_error : Errors, in : Buffer, out : Buffer]
Unused_Shim == [ssl |-> NoObject, st |-> FALSE, handshaked |-> FALSE,
                last_error |-> "NONE", in |-> Empty, out |-> Empty]

Untouched == [fed |-> 0, taken |-> <<>>, sent |-> 0, drained |-> <<>>]

Rest(b) == SubSeq(b.bytes, b.pos + 1, Len(b.bytes))

-----------------------------------------------------------------------------
find(o)   == {s \in ShimSlots : g_ctx[s].ssl = o}
Holes     == {s \in ShimSlots : /\ g_ctx[s].ssl = NoObject
                                /\ \A t \in 0 .. s - 1 : g_ctx[t].ssl # NoObject}

\* The slot of an object, or the first free one, cleared, made the object's.
SlotFor(o) == IF find(o) # {} THEN find(o) ELSE Holes
Record(s, o) == IF find(o) # {} THEN g_ctx[s] ELSE [Unused_Shim EXCEPT !.ssl = o]

\* A full table leaves the object without a session.
wg_ossl_attach(o) ==
    /\ \E s \in SlotFor(o) : g_ctx' = [g_ctx EXCEPT ![s] = [Record(s, o) EXCEPT !.st = TRUE]]
    /\ UNCHANGED wires

wg_ossl_set_host(o) ==
    /\ \E s \in SlotFor(o) : g_ctx' = [g_ctx EXCEPT ![s] = Record(s, o)]
    /\ UNCHANGED wires

wg_ossl_free(o) ==
    /\ \E s \in find(o) : g_ctx' = [g_ctx EXCEPT ![s] = Unused_Shim]
    /\ wires' = [wires EXCEPT ![o] = Untouched]

\* Mutant of reset_in: what was taken is dropped, and the position stays.
reset_in_keeps(b) == [b EXCEPT !.bytes = Rest(b)]

\* Input that was all taken is dropped.
reset_in(b) == IF b.pos > 0 /\ b.pos = Len(b.bytes) THEN Empty ELSE b

\* n more bytes, where made were numbered already.
Appended(b, made, n) == [b EXCEPT !.bytes = @ \o [i \in 1 .. n |-> made + i]]

wg_ossl_feed(o, n) ==
    /\ wires[o].fed + n <= MaxBytes
    /\ \E s \in find(o) :
         g_ctx' = [g_ctx EXCEPT ![s].in = Appended(reset_in(@), wires[o].fed, n)]
    /\ wires' = [wires EXCEPT ![o].fed = @ + n]

\* Mutant of wg_ossl_drain: the buffer is emptied, whatever its reader had room for.
wg_ossl_drain_all(o, cap) ==
    /\ \E s \in find(o) :
         /\ g_ctx' = [g_ctx EXCEPT ![s].out = Empty]
         /\ wires' = [wires EXCEPT ![o].drained = @ \o SubSeq(Rest(g_ctx[s].out), 1,
                        IF cap < Len(Rest(g_ctx[s].out)) THEN cap ELSE Len(Rest(g_ctx[s].out)))]

\* At most cap bytes leave; a buffer that was all drained starts again.
wg_ossl_drain(o, cap) ==
    /\ \E s \in find(o) :
         LET out  == g_ctx[s].out
             copy == IF cap < Len(Rest(out)) THEN cap ELSE Len(Rest(out))
         IN  /\ g_ctx' = [g_ctx EXCEPT ![s].out =
                            IF out.pos + copy = Len(out.bytes) THEN Empty
                            ELSE [out EXCEPT !.pos = @ + copy]]
             /\ wires' = [wires EXCEPT ![o].drained = @ \o SubSeq(Rest(out), 1, copy)]

\* The host's session takes n bytes (st_read) and sends k (st_write).
Session(c, o, n, k) ==
    /\ n <= Len(Rest(c.in))
    /\ wires[o].sent + k <= MaxBytes
    /\ wires' = [wires EXCEPT ![o].taken = @ \o SubSeq(Rest(c.in), 1, n), ![o].sent = @ + k]

Moved(c, o, n, k) ==
    [c EXCEPT !.in.pos = @ + n, !.out = Appended(@, wires[o].sent, k)]

\* A call of the session, with its result: done is that the call was done,
\* blocked that there is not enough input, closed that the peer closed.
Results == {"done", "blocked", "closed", "failed"}

\* An object without a session gets -1 and its last_error stays. The error may
\* depend on whether the session has left something to drain.
SessionCall(o, n, k, error) ==
    \E s \in find(o) :
      /\ g_ctx[s].st
      /\ Session(g_ctx[s], o, n, k)
      /\ LET c == Moved(g_ctx[s], o, n, k)
         IN  g_ctx' = [g_ctx EXCEPT ![s] = [c EXCEPT !.last_error = error[Rest(c.out) # <<>>]]]

\* A handshake that waits wants to write what the session has sent first.
HandshakeError(pending, result) ==
    CASE result = "done"    -> "NONE"
      [] result = "blocked" -> IF pending THEN "WANT_WRITE" ELSE "WANT_READ"
      [] OTHER              -> "SSL"

wg_ossl_do_handshake(o, result, n, k) ==
    SessionCall(o, n, k, [pending \in BOOLEAN |-> HandshakeError(pending, result)])

WriteError(result) ==
    CASE result = "done" -> "NONE" [] result = "blocked" -> "WANT_WRITE" [] OTHER -> "SSL"

wg_ossl_write(o, result, k) ==
    SessionCall(o, 0, k, [pending \in BOOLEAN |-> WriteError(result)])

ReadError(result) ==
    CASE result = "done"    -> "NONE"
      [] result = "blocked" -> "WANT_READ"
      [] result = "closed"  -> "ZERO_RETURN"
      [] OTHER              -> "SSL"

wg_ossl_read(o, result, n) ==
    SessionCall(o, n, 0, [pending \in BOOLEAN |-> ReadError(result)])

-----------------------------------------------------------------------------
ShimInit ==
    /\ g_ctx = [s \in ShimSlots |-> Unused_Shim]
    /\ wires = [o \in Objects |-> Untouched]

ShimNext ==
    \E o \in Objects :
      \/ wg_ossl_attach(o)
      \/ wg_ossl_set_host(o)
      \/ wg_ossl_free(o)
      \/ \E n \in 1 .. MaxBytes : wg_ossl_feed(o, n) \/ wg_ossl_drain(o, n)
      \/ \E result \in Results, n \in 0 .. MaxBytes :
           \/ \E k \in 0 .. MaxBytes : wg_ossl_do_handshake(o, result, n, k)
           \/ wg_ossl_write(o, result, n)
           \/ wg_ossl_read(o, result, n)

ShimSpec == ShimInit /\ [][ShimNext]_shimVars

-----------------------------------------------------------------------------
ShimTypeOK ==
    /\ g_ctx \in [ShimSlots -> Shim]
    /\ \A s \in ShimSlots : /\ g_ctx[s].in.pos <= Len(g_ctx[s].in.bytes)
                            /\ g_ctx[s].out.pos <= Len(g_ctx[s].out.bytes)

Counted(seq) == \A i \in DOMAIN seq : seq[i] = i

\* What the session of an object takes is what was fed to that object, and what is
\* drained is what its session sent: in order, without loss or repetition, through
\* partial reads and drains, compaction and the reuse of slots (reset_in,
\* wg_ossl_feed, wg_ossl_drain, st_read, st_write, alloc_ctx).
WireInOrder == \A o \in Objects : Counted(wires[o].taken) /\ Counted(wires[o].drained)

=============================================================================
