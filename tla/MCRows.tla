------------------------------- MODULE MCRows -------------------------------
(***************************************************************************)
(* Two subsystems whose files describe the same pluggable port, and an     *)
(* interface that is not pluggable.                                        *)
(***************************************************************************)
EXTENDS Rows

CONSTANTS i1, i2, base, ext

NoPages == [m \in Modules |-> NULL]

MCHwDesc == [s \in Subs |-> {i1}]
=============================================================================
