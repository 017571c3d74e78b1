--------------------------- MODULE MCJobPipeline ---------------------------
(***************************************************************************)
(* JobPipeline on one action hash.                                         *)
(***************************************************************************)
EXTENDS JobPipeline, TLC

CONSTANT h1

OneHash == {h1}
OneJob == {Hex(h1)}

\* Claims are interchangeable: no definition names one.
ClaimSymmetry == Permutations(Claims)
=============================================================================
