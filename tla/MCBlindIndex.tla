---------------------------- MODULE MCBlindIndex ----------------------------
(* BlindIndex on the small sets of MCTable.                                *)
EXTENDS BlindIndex, MCTable
=============================================================================
