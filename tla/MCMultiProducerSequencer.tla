----------------------- MODULE MCMultiProducerSequencer -----------------------
(* A small instance of MultiProducerSequencer for TLC.                     *)
EXTENDS MultiProducerSequencer, TLC

CONSTANTS p1, p2, c1, c2

\* c2 after c1; only c2 gates.
PipelineDependsOn == (c1 :> {}) @@ (c2 :> {c1})
PipelineUpstream == PipelineDependsOn
=============================================================================
