------------------------- MODULE MCPipelineExecutor -------------------------
(* Model-checking instance of PipelineExecutor: every pipeline of that many  *)
(* stages, over every failure mode, set of languages and behaviour of each.  *)
EXTENDS PipelineExecutor
=============================================================================
