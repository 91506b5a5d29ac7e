--------------------------- MODULE MCCarveOutput ---------------------------
(***************************************************************************)
(* Three invocations, which may all name the same output, an output inside  *)
(* another's, or none (inspect).                                            *)
(***************************************************************************)
EXTENDS CarveOutput, TLC

CONSTANTS p1, p2, p3

MCProcs    == {p1, p2, p3}
MCOutputs  == {"results", "results/default"}
MCParent   == ("results" :> None) @@ ("results/default" :> "results")
MCSymmetry == Permutations(MCProcs)
=============================================================================
