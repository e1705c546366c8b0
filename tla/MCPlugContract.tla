--------------------------- MODULE MCPlugContract ---------------------------
(***************************************************************************)
(* PlugContract with the modules of MCPlug.                                *)
(***************************************************************************)
EXTENDS PlugContract, MCPlug
=============================================================================
