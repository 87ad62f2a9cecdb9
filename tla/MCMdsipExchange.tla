---------------------------- MODULE MCMdsipExchange ----------------------------
(***************************************************************************)
(* Requests for model checking MdsipExchange.                               *)
(***************************************************************************)
EXTENDS MdsipExchange

MCnargs == <<3, 2, 4>>
MCBad == {<<1, 0>>}
================================================================================
