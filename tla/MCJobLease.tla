------------------------------ MODULE MCJobLease ------------------------------
(* Instances of JobLease for TLC. *)
EXTENDS JobLease, TLC

CONSTANTS j1, j2, w1, w2, import, provider

Symmetry == Permutations(Workers)
===============================================================================
