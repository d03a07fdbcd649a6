--------------------------- MODULE MulticastBuffer ---------------------------
(***************************************************************************)
(* What a disruptor promises, with no cursor, no flag and no cache.        *)
(*                                                                         *)
(* Producers publish numbered events in any order.  Every consumer handles *)
(* every event exactly once, in the order of the numbers, after all the    *)
(* consumers it depends on.  An event is published only when every         *)
(* consumer is done with the event that had its place one lap before.      *)
(***************************************************************************)
EXTENDS Sequencing

CONSTANTS Consumers, DependsOn

VARIABLES
    published,      \* the sequences published so far
    handled         \* the last sequence each consumer is done with

vars == <<published, handled>>

Init ==
    /\ published = {}
    /\ handled = [c \in Consumers |-> INITIAL_CURSOR_VALUE]

\* Events become visible; their slots are free at every consumer.
Publish ==
    /\ published \subseteq published'
    /\ published' \subseteq 0..MaxSequence
    /\ \A s \in published' \ published : \A c \in Consumers : s - BufferSize <= handled[c]
    /\ UNCHANGED handled

\* A consumer is done with the batch of events that ends at e.
Handle(c, e) ==
    /\ handled[c] < e
    /\ (handled[c] + 1)..e \subseteq published
    /\ \A d \in DependsOn[c] : e <= handled[d]
    /\ handled' = [handled EXCEPT ![c] = e]
    /\ UNCHANGED published

HandleSome(c) == \E e \in 0..MaxSequence : Handle(c, e)

Next ==
    \/ Publish
    \/ \E c \in Consumers : HandleSome(c)

\* A consumer that has an event to handle handles it.
Spec == Init /\ [][Next]_vars /\ \A c \in Consumers : WF_vars(HandleSome(c))

SafeSpec == Init /\ [][Next]_vars

=============================================================================
