----------------------------- MODULE WGSchannel -----------------------------
(***************************************************************************)
(* Schannel: Sources/Win32/wg_schannel.c.                                  *)
(*                                                                         *)
(* A slot of the context table is made by AcquireCredentialsHandle; the    *)
(* first InitializeSecurityContext with that credential turns it into a    *)
(* context.  The guest moves the records itself: it gives those that came  *)
(* as buffers, and the slot's in_buf holds them for the TLS session of the *)
(* host (SecureTransport, external) to take.                               *)
(*                                                                         *)
(* What a connection receives is numbered 1, 2, 3...: Flight messages of   *)
(* the handshake and then records.  The guest is one that gives whole      *)
(* messages and records, the handshake's apart from the records, and four  *)
(* buffers to DecryptMessage, as SSPI has it.                              *)
(***************************************************************************)
EXTENDS Integers, Sequences, FiniteSets

CONSTANTS
    WG_MAX_TLS,     \* 16 in the code
    MaxHandle,      \* bound: handles given out
    Flight,         \* messages of a server's handshake
    MaxRecords,     \* bound: records a connection receives after them
    HeaderSize, TrailerSize,    \* 5 and 32: what EncryptMessage puts apart
    Plains          \* bound: the lengths of a plaintext

ASSUME TlsAssumption ==
    /\ WG_MAX_TLS \in Nat /\ MaxHandle \in Nat
    /\ Flight \in Nat /\ MaxRecords \in Nat
    /\ HeaderSize \in Nat /\ TrailerSize \in Nat
    /\ Plains \subseteq Nat

VARIABLES
    contexts,       \* the table, ctx in the code
    next_handle,
    sessions,       \* the host's TLS sessions, by the handle of the context they were made for
    credentials,    \* handles of credentials the guest has
    kept,           \* by context handle: what the guest has to give yet
    told            \* the last record EncryptMessage handed out

tlsVars == <<contexts, next_handle, sessions, credentials, kept, told>>

TlsSlots == 0 .. WG_MAX_TLS - 1
TlsHandles == 1 .. MaxHandle
Numbers == 1 .. Flight + MaxRecords

\* next is the number of the first message the guest has not been given by the
\* network, held are those it has and that DecryptMessage has not confirmed.
Guest == [next : 1 .. Flight + MaxRecords + 1, held : Seq(Numbers)]

Context == [active : BOOLEAN, cred : 0 .. MaxHandle, handle : 0 .. MaxHandle,
            ssl : 0 .. MaxHandle, done : BOOLEAN, in_buf : Seq(TlsHandles \X Numbers)]
NoContext  == [active |-> FALSE, cred |-> 0, handle |-> 0, ssl |-> 0, done |-> FALSE, in_buf |-> <<>>]

Quiet == [out |-> 0, data |-> 0, parts |-> <<>>]

-----------------------------------------------------------------------------
\* A search of the table stops at the first slot that fits.
FirstOf(slots) == {s \in slots : \A t \in slots : s <= t}

\* Mutant of HasHandle: the slot of the credential answers to it too.
HasHandle_cred(s, h) == contexts[s].active /\ h \in {contexts[s].handle, contexts[s].cred}

HasHandle(s, h) == contexts[s].active /\ contexts[s].handle = h
HasCred(s, h)   == contexts[s].active /\ contexts[s].cred = h
IsFree(s)       == ~ contexts[s].active

find_by_ctx_handle(h) == FirstOf({s \in TlsSlots : HasHandle(s, h)})
FirstWithCred(h)      == FirstOf({s \in TlsSlots : HasCred(s, h)})
alloc_ctx             == FirstOf({s \in TlsSlots : IsFree(s)})

\* AcquireCredentialsHandle: a full table is an error.
AcquireCredentialsHandle ==
    /\ next_handle <= MaxHandle
    /\ \E s \in alloc_ctx :
         contexts' = [contexts EXCEPT ![s] = [NoContext EXCEPT !.active = TRUE, !.cred = next_handle]]
    /\ credentials' = credentials \cup {next_handle}
    /\ next_handle' = next_handle + 1
    /\ told' = Quiet
    /\ UNCHANGED <<sessions, kept>>

\* The first call makes the session in the slot of its credential, or in a free
\* slot when there is none.  It has no token, and the handshake goes on.  The slot
\* keeps its in_buf and done: the guest is one that uses a credential again only
\* when the context made with it has no records left, which the new session
\* would take.
InitializeSecurityContext(cred) ==
    /\ next_handle <= MaxHandle
    /\ \E s \in IF FirstWithCred(cred) # {} THEN FirstWithCred(cred) ELSE alloc_ctx :
         LET slot == IF FirstWithCred(cred) # {} THEN contexts[s] ELSE NoContext
         IN  /\ slot.in_buf = <<>>
             /\ contexts' = [contexts EXCEPT ![s] = [slot EXCEPT !.active = TRUE,
                                !.handle = next_handle, !.ssl = next_handle]]
    /\ UNCHANGED sessions
    /\ kept' = [kept EXCEPT ![next_handle] = [next |-> 1, held |-> <<>>]]
    /\ next_handle' = next_handle + 1
    /\ told' = Quiet
    /\ UNCHANGED credentials

\* A later call: the token is the next messages of the handshake, and replaces
\* what is left of the one before.  A context that is gone would be made anew.
ContinueSecurityContext(h, n) ==
    /\ kept[h].next + n <= Flight + 1
    /\ \E s \in find_by_ctx_handle(h) :
         /\ contexts[s].ssl # 0
         /\ contexts' = [contexts EXCEPT ![s].in_buf = <<>>,
                                         ![s].done = @ \/ kept[h].next + n = Flight + 1]
         /\ sessions' = [sessions EXCEPT ![contexts[s].ssl] =
                            @ \o [i \in 1 .. n |-> <<h, kept[h].next + i - 1>>]]
    /\ kept' = [kept EXCEPT ![h].next = @ + n]
    /\ told' = Quiet
    /\ UNCHANGED <<next_handle, credentials>>

\* The slot, and with it the credential it was made for, is free again.
DeleteSecurityContext(h) ==
    /\ \E s \in find_by_ctx_handle(h) :
         contexts' = [contexts EXCEPT ![s].active = FALSE, ![s].ssl = 0, ![s].in_buf = <<>>]
    /\ told' = Quiet
    /\ UNCHANGED <<next_handle, sessions, credentials, kept>>

\* FreeCredentialsHandle, FreeContextBuffer, QueryContextAttributes,
\* CompleteAuthToken and ApplyControlToken change no state.
FreeCredentialsHandle(h) ==
    /\ credentials' = credentials \ {h}
    /\ told' = Quiet
    /\ UNCHANGED <<contexts, next_handle, sessions, kept>>

\* A context that messages may be sent and received with.
Ready4Data(s) == contexts[s].ssl # 0 /\ contexts[s].done

\* How a record of out bytes is put into the guest's buffers: the first five
\* bytes, as much of the rest as the plaintext's buffer holds, and thirty-two
\* into the trailer.  Each part is <<from, to>>.
Distribute(out, data, trailer) ==
    LET payload     == out - HeaderSize
        trl_actual  == IF trailer /\ payload > TrailerSize THEN TrailerSize ELSE 0
        data_actual == payload - trl_actual
        wlen        == IF data_actual > data THEN data ELSE data_actual
        pos         == HeaderSize + wlen
    IN  <<<<0, HeaderSize>>, <<HeaderSize, pos>>>>
        \o (IF trl_actual > 0 THEN <<<<pos, pos + trl_actual>>>> ELSE <<>>)

\* EncryptMessage of n bytes, which the cipher suite makes over bytes longer.
EncryptMessage(h, n, over, trailer) ==
    /\ \E s \in find_by_ctx_handle(h) : Ready4Data(s)
    /\ told' = [out |-> HeaderSize + n + over, data |-> n,
                parts |-> Distribute(HeaderSize + n + over, n, trailer)]
    /\ UNCHANGED <<contexts, next_handle, sessions, credentials, kept>>

\* The ciphertext of the guest replaces what is left of in_buf.
Feed(s, h, given) == [i \in DOMAIN given |-> <<h, given[i]>>]

\* DecryptMessage: the guest gives all it holds; the session decrypts some of the
\* records; the guest is told how many are left (SECBUFFER_EXTRA), and keeps those.
DecryptMessage(h, n) ==
    /\ kept[h].held # <<>>
    /\ \E s \in find_by_ctx_handle(h) :
         /\ Ready4Data(s)
         /\ LET in_buf == Feed(s, h, kept[h].held)
                left   == SubSeq(in_buf, n + 1, Len(in_buf))
            IN  /\ n \in 1 .. Len(in_buf)
                /\ contexts' = [contexts EXCEPT ![s].in_buf = left]
                /\ sessions' = [sessions EXCEPT ![contexts[s].ssl] = @ \o SubSeq(in_buf, 1, n)]
                /\ kept' = [kept EXCEPT ![h].held =
                              SubSeq(@, Len(@) + 1 - (IF Len(left) > Len(@) THEN Len(@)
                                                      ELSE Len(left)), Len(@))]
    /\ told' = Quiet
    /\ UNCHANGED <<next_handle, credentials>>

\* The network gives the guest the next record of a connection.
RecordArrives(h) ==
    /\ kept[h].next \in Flight + 1 .. Flight + MaxRecords
    /\ kept' = [kept EXCEPT ![h] = [next |-> @.next + 1, held |-> Append(@.held, @.next)]]
    /\ told' = Quiet
    /\ UNCHANGED <<contexts, next_handle, sessions, credentials>>

-----------------------------------------------------------------------------
TlsInit ==
    /\ contexts = [s \in TlsSlots |-> NoContext]
    /\ next_handle = 1
    /\ sessions = [h \in TlsHandles |-> <<>>]
    /\ credentials = {}
    /\ kept = [h \in TlsHandles |-> [next |-> 1, held |-> <<>>]]
    /\ told = Quiet

TlsNext ==
    \/ AcquireCredentialsHandle
    \/ \E h \in credentials : InitializeSecurityContext(h) \/ FreeCredentialsHandle(h)
    \/ \E h \in TlsHandles :
         \/ \E n \in 1 .. Flight : ContinueSecurityContext(h, n)
         \/ DeleteSecurityContext(h)
         \/ \E n \in Plains, over \in {24, 36}, trailer \in BOOLEAN :
              EncryptMessage(h, n, over, trailer)
         \/ \E n \in 1 .. MaxRecords : DecryptMessage(h, n)
         \/ RecordArrives(h)

TlsSpec == TlsInit /\ [][TlsNext]_tlsVars

-----------------------------------------------------------------------------
TlsTypeOK ==
    /\ contexts \in [TlsSlots -> Context]
    /\ next_handle \in 1 .. MaxHandle + 1
    /\ sessions \in [TlsHandles -> Seq(TlsHandles \X Numbers)]
    /\ credentials \subseteq TlsHandles
    /\ kept \in [TlsHandles -> Guest]

\* A TLS session takes the messages of its own connection, each once and in the
\* order they were sent, whatever the guest does with handles and however much of
\* a buffer a call of the host takes (find_by_ctx_handle, the tables' reuse, the
\* in_buf of InitializeSecurityContext and DecryptMessage, SECBUFFER_EXTRA).
RecordsInOrder ==
    \A h \in TlsHandles : \A i \in DOMAIN sessions[h] : sessions[h][i] = <<h, i>>

\* With a trailer, and a suite whose overhead fits it, the three buffers are the
\* whole record, without a hole, as soon as the record is longer than the trailer
\* (EncryptMessage; a shorter record, or a suite with more overhead, is cut).
RecordWhole ==
    LET p == told.parts
    IN  Len(p) = 3 /\ told.out - HeaderSize - TrailerSize <= told.data
        => /\ p[1][1] = 0 /\ p[3][2] = told.out
           /\ \A i \in 1 .. 2 : p[i][2] = p[i + 1][1]

\* What a session is fed by InitializeSecurityContext and DecryptMessage is what came
\* from the peer, and the buffers EncryptMessage fills make up one record.
RecordsRight == RecordsInOrder /\ RecordWhole

=============================================================================
