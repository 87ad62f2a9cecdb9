---------------------------- MODULE MCActionServer ----------------------------
(***************************************************************************)
(* Job lists for model checking ActionServer: what is queued, in order, and *)
(* by whom.                                                                 *)
(***************************************************************************)
EXTENDS ActionServer

CONSTANT Script

Do(what, who) == [op |-> what, owner |-> who]

(* Actions and a command of one dispatcher. *)
Dispatched == <<Do("action", "d1"), Do("command", "d1"), Do("action", "d2")>>

(* Two monitors check in, then a message for them. *)
Monitored == <<Do("checkin", "m1"), Do("checkin", "m2"), Do("broadcast", "d1")>>

MCMaxJobs == Len(Script)
MCop == [j \in 1 .. Len(Script) |-> Script[j].op]
MCowner == [j \in 1 .. Len(Script) |-> Script[j].owner]
MCClients == {"d1", "d2", "m1", "m2"}
MCNotify == {j \in 1 .. Len(Script) : Script[j].op = "action"}
=============================================================================
