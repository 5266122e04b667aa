--------------------------- MODULE MCReservationCache ---------------------------
(* Constants for checking ReservationCache with TLC.                         *)
EXTENDS ReservationCache, TLC

CONSTANTS r1, r2, t1, t2, k1, k2

(* Readers, tasks and reservations are interchangeable.                      *)
Symmetry ==
    Permutations(Readers) \cup Permutations(Tasks) \cup Permutations(Reservations)

================================================================================
