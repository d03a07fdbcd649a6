-------------------------- MODULE MCEventPublishing --------------------------
(* A small instance of EventPublishing for TLC: c3 joins c1 and c2.        *)
EXTENDS EventPublishing, TLC

CONSTANTS p1, p2, c1, c2, c3

JoinGatedBy == (c1 :> {}) @@ (c2 :> {}) @@ (c3 :> {c1, c2})

OneAndTwo == (c1 :> 1) @@ (c2 :> 2)
=============================================================================
