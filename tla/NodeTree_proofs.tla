----------------------------- MODULE NodeTree_proofs -----------------------------
(***************************************************************************)
(* What the promise of NodeTree amounts to, for any names and any number of *)
(* nodes: the nodes hang together under the root, brothers have different   *)
(* names.  TreeEdit implements NodeTree (TreeImplemented, TreeEdit_proofs).  *)
(***************************************************************************)
EXTENDS NodeTree, TLAPS

(* Every parent is there. *)
Anchored(t) == \A m \in DOMAIN t : t[m].parent \in DOMAIN t \cup {Root}

(* No nodes have their parents among themselves only, as those of a loop do. *)
Rooted(t) == \A S \in SUBSET DOMAIN t : S # {} => \E m \in S : t[m].parent \notin S

NamesDiffer(t) == \A m, n \in DOMAIN t : m # n => t[m] # t[n]

Sound(t) == Root \notin DOMAIN t /\ Anchored(t) /\ Rooted(t) /\ NamesDiffer(t)

LEMMA RemoveSound ==
  ASSUME NEW t, NEW u, Sound(t), Remove(t, u)
  PROVE  Sound(u)
<1> DEFINE gone == DOMAIN t \ DOMAIN u
<1>1. Same(t, u, gone) /\ Closed(t, gone)
  BY DEF Remove
<1>2. DOMAIN u \subseteq DOMAIN t /\ \A m \in DOMAIN u : u[m] = t[m]
  BY <1>1 DEF Same
<1>3. Anchored(u)
  BY <1>1, <1>2 DEF Sound, Anchored, Closed
<1>4. Rooted(u)
  BY <1>2 DEF Sound, Rooted
<1>5. NamesDiffer(u) /\ Root \notin DOMAIN u
  BY <1>2 DEF Sound, NamesDiffer
<1> QED BY <1>3, <1>4, <1>5 DEF Sound

LEMMA AddSound ==
  ASSUME NEW t, NEW u, Sound(t), Add(t, u)
  PROVE  Sound(u)
<1>1. PICK n \in DOMAIN u \ (DOMAIN t \cup {Root}) :
        Same(t, u, {n}) /\ u[n].parent \in DOMAIN t \cup {Root} /\ Vacant(u, n)
  BY DEF Add
<1>2. DOMAIN u = DOMAIN t \cup {n} /\ \A m \in DOMAIN t : u[m] = t[m]
  BY <1>1 DEF Same
<1>3. Anchored(u)
  BY <1>1, <1>2 DEF Sound, Anchored
<1>4. Rooted(u)
  <2> SUFFICES ASSUME NEW S \in SUBSET DOMAIN u, S # {}
               PROVE  \E m \in S : u[m].parent \notin S
    BY DEF Rooted
  <2>1. CASE S \subseteq {n}
    BY <1>1, <2>1
  <2>2. CASE S \ {n} # {}
    <3>1. PICK m \in S \ {n} : t[m].parent \notin S \ {n}
      BY <1>2, <2>2 DEF Sound, Rooted
    <3>2. t[m].parent # n
      BY <1>1, <1>2, <3>1 DEF Sound, Anchored
    <3> QED BY <1>2, <3>1, <3>2
  <2> QED BY <2>1, <2>2
<1>5. NamesDiffer(u) /\ Root \notin DOMAIN u
  BY <1>1, <1>2 DEF Sound, NamesDiffer, Vacant
<1> QED BY <1>3, <1>4, <1>5 DEF Sound

(* The node that was moved is not below itself: its new parent is outside. *)
LEMMA MoveSound ==
  ASSUME NEW t, NEW u, Sound(t), Move(t, u)
  PROVE  Sound(u)
<1>1. PICK n \in DOMAIN t \cap DOMAIN u :
        /\ Same(t, u, {n}) /\ u[n].parent \in DOMAIN t \cup {Root} /\ Vacant(u, n)
        /\ \E S \in SUBSET DOMAIN t : n \in S /\ u[n].parent \notin S /\ Closed(t, S)
  BY DEF Move
<1>2. PICK below \in SUBSET DOMAIN t : n \in below /\ u[n].parent \notin below /\ Closed(t, below)
  BY <1>1
<1>3. DOMAIN u = DOMAIN t /\ \A m \in DOMAIN t \ {n} : u[m] = t[m]
  BY <1>1 DEF Same
<1>4. Anchored(u)
  BY <1>1, <1>3 DEF Sound, Anchored
<1>5. Rooted(u)
  <2> SUFFICES ASSUME NEW S \in SUBSET DOMAIN u, S # {}
               PROVE  \E m \in S : u[m].parent \notin S
    BY DEF Rooted
  <2>1. CASE n \notin S
    BY <1>3, <2>1 DEF Sound, Rooted
  <2>2. CASE n \in S /\ u[n].parent \notin S
    BY <2>2
  <2>3. CASE n \in S /\ u[n].parent \in S
    <3>1. PICK m \in S \ below : t[m].parent \notin S \ below
      BY <1>2, <1>3, <2>3 DEF Sound, Rooted
    <3>2. t[m].parent \notin below
      BY <1>2, <1>3, <3>1 DEF Closed
    <3> QED BY <1>2, <1>3, <3>1, <3>2
  <2> QED BY <2>1, <2>2, <2>3
<1>6. NamesDiffer(u) /\ Root \notin DOMAIN u
  BY <1>1, <1>3 DEF Sound, NamesDiffer, Vacant
<1> QED BY <1>4, <1>5, <1>6 DEF Sound

(***************************************************************************)
(* Whatever is added, renamed and removed with _TreeAddNode,                *)
(* _TreeRenameNode and _TreeDeleteNodeExecute, as far as they keep to       *)
(* NodeTree, every node stays reachable from the root and no two children   *)
(* of one parent have the same name.                                        *)
(***************************************************************************)
THEOREM TreeSound == Spec => []Sound(tree)
<1>1. Init => Sound(tree)
  <2> SUFFICES ASSUME Init PROVE Sound(tree)
    OBVIOUS
  <2>1. DOMAIN tree = {}
    BY DEF Init
  <2> QED BY <2>1 DEF Sound, Anchored, Rooted, NamesDiffer
<1>2. Sound(tree) /\ [Next]_tree => Sound(tree)'
  <2> SUFFICES ASSUME Sound(tree), [Next]_tree PROVE Sound(tree')
    BY DEF Sound, Anchored, Rooted, NamesDiffer
  <2>1. CASE Next
    BY <2>1, RemoveSound, AddSound, MoveSound DEF Next, Step
  <2> QED BY <2>1
<1> QED BY <1>1, <1>2, PTL DEF Spec
================================================================================
