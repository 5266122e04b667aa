--------------------------- MODULE MCCreditExecution ---------------------------
(* Constants for checking CreditExecution with TLC.                          *)
EXTENDS CreditContract, TLC

CONSTANTS r1, r2, small, large

(* Runs are interchangeable.                                                 *)
Symmetry == Permutations(Runs)
================================================================================
