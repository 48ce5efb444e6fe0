------------------------------ MODULE WGMailbox ------------------------------
(***************************************************************************)
(* What a message queue of the engine promises: a bounded mailbox shared   *)
(* by its readers.  A letter that does not fit is dropped, and its sender  *)
(* is not told; a reader takes its oldest letter, or learns that there is  *)
(* none; nothing else is ever lost, copied or reordered until a new        *)
(* program is loaded, which finds the box empty.                           *)
(***************************************************************************)
EXTENDS Naturals, Sequences

CONSTANTS
    Readers,    \* who letters are addressed to
    Letters,    \* what they say
    Capacity    \* how many the box holds

VARIABLES
    box,        \* the letters in the box, oldest first
    taken,      \* what the last call handed over: <<>> or <<letter>>
    program     \* history: programs loaded, modulo 2

Letter == [to : Readers, says : Letters]

Oldest(r, i) ==
    /\ i \in DOMAIN box
    /\ box[i].to = r
    /\ \A j \in 1 .. i - 1 : box[j].to # r

Without(i) == [k \in 1 .. Len(box) - 1 |-> IF k < i THEN box[k] ELSE box[k + 1]]

Post(r, l) ==
    /\ box' = IF Len(box) < Capacity THEN Append(box, [to |-> r, says |-> l]) ELSE box
    /\ taken' = <<>>

Take(r) ==
    \/ \E i \in DOMAIN box :
         Oldest(r, i) /\ box' = Without(i) /\ taken' = <<box[i].says>>
    \/ /\ \A i \in DOMAIN box : box[i].to # r
       /\ taken' = <<>>
       /\ UNCHANGED box

Init == box = <<>> /\ taken = <<>> /\ program = 0

\* A new program starts with an empty box.
Clear == box' = <<>> /\ taken' = <<>> /\ program' = 1 - program

Use(r) == (\E l \in Letters : Post(r, l)) \/ Take(r)

Next ==
    \/ \E r \in Readers : Use(r) /\ UNCHANGED program
    \/ Clear

Spec == Init /\ [][Next]_<<box, taken, program>>

=============================================================================
