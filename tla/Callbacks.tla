------------------------------- MODULE Callbacks -------------------------------
(***************************************************************************)
(* What ServerSendMessage promises to its callers: the completion callback  *)
(* of a message is called once, when the server answered, when the server   *)
(* cannot be reached, or when the connection to it breaks.  Messages with   *)
(* no callback, and the check-in of a monitor, whose callback is kept, are  *)
(* not part of the promise.                                                 *)
(***************************************************************************)
EXTENDS Naturals

CONSTANT Messages    \* the messages with a callback that is called once

VARIABLES
  known,   \* the messages that are registered
  calls    \* per message: how often its callback was called

vars == <<known, calls>>

Init ==
  /\ known = {}
  /\ calls = [m \in Messages |-> 0]

Register(m) ==
  /\ m \notin known /\ calls[m] = 0
  /\ known' = known \cup {m}
  /\ UNCHANGED calls

(* Registered or not: a message that cannot be sent is called back at once. *)
CallBack(m) ==
  /\ calls[m] = 0
  /\ calls' = [calls EXCEPT ![m] = 1]
  /\ UNCHANGED known

Next == \E m \in Messages : Register(m) \/ CallBack(m)

Spec == Init /\ [][Next]_vars

(* ... and every message that is registered is called back. *)
FairSpec == Spec /\ \A m \in Messages : WF_vars(m \in known /\ CallBack(m))
================================================================================
