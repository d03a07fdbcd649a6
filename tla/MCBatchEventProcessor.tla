------------------------ MODULE MCBatchEventProcessor ------------------------
(* Small instances of BatchEventProcessor for TLC.                         *)
EXTENDS BatchEventProcessor

CONSTANTS r1, r2, h1, h2

=============================================================================
