------------------------------- MODULE WGCalls -------------------------------
(***************************************************************************)
(* What SendMessage and modal dialogs promise a multi-threaded program:    *)
(* every thread has a stack of calls of its own.  A window procedure       *)
(* returns to whoever called it, on its own thread; the dialog procedure   *)
(* is called above the point where the dialog was opened, and ending the   *)
(* dialog returns to that point, abandoning the calls above it and no      *)
(* others.  No step touches the calls of two threads.                      *)
(***************************************************************************)
EXTENDS Naturals, Sequences

CONSTANT Threads

VARIABLES
    calls,      \* for each thread, the engine's calls into its guest code
    modal       \* the open dialog, <<>> if there is none

Pushed(t, kind) == calls' = [calls EXCEPT ![t] = Append(@, kind)]

\* SendMessage and its relatives call a window procedure.
Call(t) == Pushed(t, "message") /\ UNCHANGED modal

\* DialogBoxParam calls the dialog procedure for the first time.
Open(t) ==
    /\ modal = <<>>
    /\ modal' = <<[by |-> t, above |-> Len(calls[t])]>>
    /\ Pushed(t, "dialog")

\* A click calls it again, at the point where it was opened.
Click(t) ==
    /\ modal # <<>> /\ modal[1] = [by |-> t, above |-> Len(calls[t])]
    /\ Pushed(t, "dialog")
    /\ UNCHANGED modal

\* A procedure returns.
Return(t) ==
    /\ calls[t] # <<>>
    /\ calls' = [calls EXCEPT ![t] = SubSeq(@, 1, Len(@) - 1)]
    /\ UNCHANGED modal

\* EndDialog.
End(t) ==
    /\ modal # <<>> /\ modal[1].by = t /\ modal[1].above < Len(calls[t])
    /\ calls' = [calls EXCEPT ![t] = SubSeq(@, 1, modal[1].above)]
    /\ modal' = <<>>

Init == calls = [t \in Threads |-> <<>>] /\ modal = <<>>

Next == \E t \in Threads : Call(t) \/ Open(t) \/ Click(t) \/ Return(t) \/ End(t)

Spec == Init /\ [][Next]_<<calls, modal>>

=============================================================================
