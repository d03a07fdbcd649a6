---------------------- MODULE MCSingleProducerSequencer ----------------------
(* Small instances of SingleProducerSequencer for TLC.                     *)
EXTENDS SingleProducerSequencer

CONSTANTS c1, c2
=============================================================================
