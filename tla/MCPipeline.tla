------------------------------ MODULE MCPipeline ------------------------------
(* Instance of Pipeline: a chain of two functions and a single function.   *)
EXTENDS Pipeline, TLC

CONSTANTS a, b

MCSize == (a :> 2) @@ (b :> 1)
=============================================================================
