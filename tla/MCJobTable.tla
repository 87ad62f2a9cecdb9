------------------------------- MODULE MCJobTable -------------------------------
(***************************************************************************)
(* Small sets of messages for model checking JobTable.                      *)
(***************************************************************************)
EXTENDS JobTable

CONSTANT Plan    \* a sequence: the kind, the server and the follow-up of each message

Ids == DOMAIN Plan
MCkind == [m \in Ids |-> Plan[m][1]]
MCto == [m \in Ids |-> Plan[m][2]]
MCnext == [m \in Ids |-> IF Plan[m][3] = 0 THEN None ELSE Plan[m][3]]

(* A dispatch that waits and an action on a server that fails; the action has *)
(* a follow-up on another server.                                             *)
Faulty == <<<<"wait", "s1", 0>>, <<"action", "s1", 3>>, <<"action", "s2", 0>>>>

(* A dispatch that waits, a monitor's check-in and an action on one server; *)
(* another one is stopped by the callback of the monitor.                   *)
Waiting == <<<<"wait", "s1", 0>>, <<"checkin", "s2", 4>>, <<"action", "s1", 0>>, <<"stop", "s2", 0>>>>

OwnHost == [s \in Servers |-> s]
================================================================================
