---------------------------- MODULE MCStockLevels ----------------------------
(* Locations are interchangeable. *)
EXTENDS StockLevels, TLC

CONSTANTS shelf, line

Symmetry == Permutations(Locations)
=============================================================================
