--------------------------- MODULE MCPipelinedBatch ---------------------------
(* PipelinedBatch on small instances; connections are interchangeable.       *)
EXTENDS PipelinedBatch, TLC

Symmetry == Permutations(Conns)
=============================================================================
