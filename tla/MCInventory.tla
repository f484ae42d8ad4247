---------------------------- MODULE MCInventory ----------------------------
(* Symmetry of the beams of Inventory for TLC.                             *)
EXTENDS Inventory, TLC

CONSTANTS b1, b2

Symmetry == Permutations({b1, b2})
=============================================================================
