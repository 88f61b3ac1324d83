---------------------------- MODULE MCBillingRun ----------------------------
(***************************************************************************)
(* Small instances of BillingRun for TLC.                                  *)
(***************************************************************************)
EXTENDS Report, TLC

CONSTANTS b1, b2, p1, p2, w1, w2

Symmetry == Permutations(Workers)

=============================================================================
