--------------------------- MODULE MCConformance ---------------------------
(***************************************************************************)
(* Conformance with two state vectors and one of each other set: two of a  *)
(* kind tell a lost vector from a failed one, and an invocation aborted    *)
(* between two vectors of a set from one aborted at its end.               *)
(***************************************************************************)
EXTENDS Conformance

SmallCorpus == [state |-> 2, illegal |-> 1, view_bond |-> 1]
=============================================================================
