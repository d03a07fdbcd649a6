-------------------------------- MODULE MCTbus --------------------------------
(* A small instance of Tbus for TLC.                                       *)
EXTENDS Tbus
=============================================================================
