--------------------------- MODULE MCApprovalWorkflow ---------------------------
(* Constants for checking ApprovalWorkflow with TLC.                         *)
EXTENDS ApprovalWorkflow, TLC

CONSTANTS a1, a2, w1, w2, w3, manager, clerk

(* Threads, approvals and logical credits are interchangeable.               *)
Symmetry == Permutations(Approvals) \cup Permutations(Subjects) \cup Permutations(Workers)
================================================================================
