------------------------------ MODULE MCParity ------------------------------
(***************************************************************************)
(* Parity on the two jobs of the corpus, so that the corpus's logs are     *)
(* among those both folds are given.                                       *)
(***************************************************************************)
EXTENDS Parity

TwoJobs == {j1, ghost}
TwoTerms == {large, small}
OneClaim == {c1}
=============================================================================
