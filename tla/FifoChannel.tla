----------------------------- MODULE FifoChannel -----------------------------
(***************************************************************************)
(* What the two single-producer single-consumer rings under reference/     *)
(* promise: what was sent is received once, whole and in order, in batches *)
(* of any size.  tbus.c and the rings of the Unity interop implement it.   *)
(***************************************************************************)
EXTENDS Integers, Sequences

CONSTANT Messages

VARIABLES sent, received    \* the history of both ends

Init == sent = <<>> /\ received = <<>>

\* One or several messages become visible at once.
Send ==
    /\ Len(sent') > Len(sent)
    /\ SubSeq(sent', 1, Len(sent)) = sent
    /\ \A n \in (Len(sent) + 1)..Len(sent') : sent'[n] \in Messages
    /\ UNCHANGED received

Receive ==
    /\ \E n \in (Len(received) + 1)..Len(sent) : received' = SubSeq(sent, 1, n)
    /\ UNCHANGED sent

\* The ring is destroyed with what is still in it, and a new one opened.
Reopen ==
    /\ sent' = <<>>
    /\ received' = <<>>

Next == Send \/ Receive

Spec == Init /\ [][Next]_<<sent, received>>

ReopenedSpec == Init /\ [][Next \/ Reopen]_<<sent, received>>
=============================================================================
