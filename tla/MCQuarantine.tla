---------------------------- MODULE MCQuarantine ----------------------------
(* Small instances of Quarantine for TLC. *)
EXTENDS Quarantine, TLC

CONSTANTS bin, cage, n1, r1, r2

Symmetry == Permutations({bin, cage}) \cup Permutations(Requests)

=============================================================================
