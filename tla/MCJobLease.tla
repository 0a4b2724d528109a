----------------------------- MODULE MCJobLease -----------------------------
(* Two processes for TLC: a holder and a taker.  They are interchangeable. *)
EXTENDS JobLease, TLC

CONSTANTS p1, p2

Two == {p1, p2}
Symmetry == Permutations(Process)
=============================================================================
