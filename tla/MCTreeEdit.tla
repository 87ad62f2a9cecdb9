------------------------------- MODULE MCTreeEdit -------------------------------
(***************************************************************************)
(* Bounds for model checking TreeEdit.                                      *)
(***************************************************************************)
EXTENDS TreeEdit
================================================================================
