-------------------------- MODULE MCOclaRefinement --------------------------
(* Instances of OclaRefinement for TLC: the same designs and boards. *)
EXTENDS MCOclaDebugger, OclaRefinement
=============================================================================
