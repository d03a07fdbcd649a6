------------------------------ MODULE MCDisruptor ------------------------------
(* Small instances of Disruptor for TLC.                                   *)
EXTENDS Disruptor

CONSTANTS h1, h2
=============================================================================
