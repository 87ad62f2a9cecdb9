-------------------------------- MODULE NodeTree --------------------------------
(***************************************************************************)
(* What editing promises of a tree: named nodes under one root.  A node is  *)
(* added below another one, moved with all that is below it, or removed     *)
(* with all that is below it; nothing else ever changes, and no two nodes   *)
(* of one parent have the same name.                                        *)
(***************************************************************************)
EXTENDS Integers

Root == 0

VARIABLE tree  \* per node in the tree, but the root: its parent and name

Init == tree = <<>>

(* No node of t but n itself has the place of n. *)
Vacant(t, n) == \A m \in DOMAIN t \ {n} : t[m] # t[n]

(* S with everything that is below it is in S. *)
Closed(t, S) == \A m \in DOMAIN t : t[m].parent \in S => m \in S

(* The nodes but those of S are the same in both. *)
Same(t, u, S) ==
  /\ DOMAIN t \ S = DOMAIN u \ S
  /\ \A m \in DOMAIN u \ S : t[m] = u[m]

Add(t, u) ==
  \E n \in DOMAIN u \ (DOMAIN t \cup {Root}) :
    /\ Same(t, u, {n})
    /\ u[n].parent \in DOMAIN t \cup {Root}
    /\ Vacant(u, n)

(* The new parent is not below the node. *)
Move(t, u) ==
  \E n \in DOMAIN t \cap DOMAIN u :
    /\ Same(t, u, {n})
    /\ u[n].parent \in DOMAIN t \cup {Root}
    /\ Vacant(u, n)
    /\ \E S \in SUBSET DOMAIN t : n \in S /\ u[n].parent \notin S /\ Closed(t, S)

Remove(t, u) ==
  LET gone == DOMAIN t \ DOMAIN u IN Same(t, u, gone) /\ Closed(t, gone)

Step(t, u) == Remove(t, u) \/ Add(t, u) \/ Move(t, u)

(* A step relates what the tree was and what it is. *)
Next == \E t \in {tree}, u \in {tree'} : Step(t, u)

Spec == Init /\ [][Next]_tree
================================================================================
