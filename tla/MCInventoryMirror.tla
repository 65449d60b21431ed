------------------------- MODULE MCInventoryMirror -------------------------
(* Small instances of InventoryMirror.                                     *)
EXTENDS InventoryMirror
CONSTANTS v1, v2, g1
=============================================================================
