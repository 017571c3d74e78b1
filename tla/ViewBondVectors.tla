-------------------------- MODULE ViewBondVectors --------------------------
(***************************************************************************)
(* The view_bond vectors of conformance.py: zeros, one USDC with the score *)
(* credit asks for, a thousand USDC with a higher one, and the maximum of  *)
(* both widths.  Amounts and scores are scaled to the bytes of Binding;    *)
(* the data they expect is what the program reads back, see Settlement.    *)
(***************************************************************************)
EXTENDS Binding

CONSTANTS Usdc,            \* 1_000_000 atomic
          ThousandUsdc,    \* 1_000_000_000 atomic
          Score700, Score800

ViewBondVector(min_bond, min_score) ==
  [min_bond_atomic |-> min_bond, min_score |-> min_score]

VIEW_BOND_VECTORS ==
  {ViewBondVector(0, 0),
   ViewBondVector(Usdc, Score700),
   ViewBondVector(ThousandUsdc, Score800),
   ViewBondVector(Base ^ 8 - 1, Base ^ 2 - 1)}
=============================================================================
