-------------------------- MODULE MCPipelineCache --------------------------
(***************************************************************************)
(* Instances of PipelineCache for TLC: a pipeline with two shaders and one *)
(* that shares the first of them.                                          *)
(***************************************************************************)
EXTENDS PipelineCache

CONSTANTS p1, p2, vs, ps

TwoPipelines ==
  [t \in Tasks |-> CASE t = p1 -> <<vs, ps>> [] t = p2 -> <<vs>> [] OTHER -> <<>>]

GraphicsOnly == [p \in Pipelines |-> "graphics"]
OneOfEach == [p \in Pipelines |-> IF p = p1 THEN "graphics" ELSE "geometry"]

=============================================================================
