---------------------------- MODULE MCVersioning ----------------------------
(* Small instances of Versioning for TLC. *)
EXTENDS Versioning, TLC

CONSTANTS c1, c2, author, reviewer, owner, r1, r2

Symmetry == Permutations({c1, c2}) \cup Permutations(Requests)

=============================================================================
