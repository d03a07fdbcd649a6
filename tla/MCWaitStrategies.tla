--------------------------- MODULE MCWaitStrategies ---------------------------
(* Small instances of WaitStrategies for TLC.                              *)
EXTENDS WaitStrategies

CONSTANTS w1, w2
=============================================================================
