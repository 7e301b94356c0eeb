----------------------------- MODULE MsgChannel -----------------------------
(***************************************************************************)
(* What the chunk layer promises: the messages of one direction of a       *)
(* connection arrive one by one, complete, unchanged and in the order in   *)
(* which they were completed, as long as the byte stream is intact.        *)
(***************************************************************************)
EXTENDS Sequences, Naturals

VARIABLES sent, received, intact

vars == <<sent, received, intact>>

Init == sent = <<>> /\ received = <<>> /\ intact = TRUE

Send ==
    /\ Len(sent') = Len(sent) + 1
    /\ SubSeq(sent', 1, Len(sent)) = sent
    /\ intact' \in {intact, FALSE}
    /\ UNCHANGED received

Deliver ==
    /\ intact /\ Len(received) < Len(sent)
    /\ received' = Append(received, sent[Len(received) + 1])
    /\ UNCHANGED <<sent, intact>>

Spoil == intact' = FALSE /\ UNCHANGED <<sent, received>>

Garbage == ~intact /\ UNCHANGED <<sent, intact>>

Next == Send \/ Deliver \/ Spoil \/ Garbage

Spec == Init /\ [][Next]_vars
=============================================================================
