----------------------------- MODULE TreeEdit_lemmas -----------------------------
(***************************************************************************)
(* Facts about the links of an array of nodes: what can be reached along    *)
(* them, the trees and the lists they form, and what the operations of      *)
(* TreeEdit make of these.                                                  *)
(***************************************************************************)
EXTENDS TreeEdit, TLAPS, FiniteSetTheorems

(* A set of natural numbers has a least element. *)
LEMMA LeastElement ==
  ASSUME NEW S \in SUBSET Nat, S # {}
  PROVE  \E m \in S : \A k \in S : m <= k
<1> DEFINE T == {0 .. k : k \in S}
<1>1. T \subseteq FiniteSubsetsOf(Nat)
  <2>1. \A k \in Nat : IsFiniteSet(0 .. k)
    BY FS_Interval
  <2> QED BY <2>1 DEF FiniteSubsetsOf
<1>2. T # {}
  OBVIOUS
<1>3. \E x \in T : \A y \in T : <<y, x>> \notin StrictSubsetOrdering(Nat)
  <2> HIDE DEF T
  <2> QED BY <1>1, <1>2, FS_StrictSubsetOrderingWellFounded, WFMin
<1>4. PICK m \in S : \A y \in T : <<y, 0 .. m>> \notin StrictSubsetOrdering(Nat)
  BY <1>3
<1>5. \A k \in S : m <= k
  <2> SUFFICES ASSUME NEW k \in S, k < m PROVE FALSE
    OBVIOUS
  <2>1. 0 .. k \subseteq 0 .. m /\ 0 .. k # 0 .. m /\ 0 .. m \subseteq Nat
    <3>1. m \in 0 .. m /\ m \notin 0 .. k
      OBVIOUS
    <3> QED BY <3>1
  <2> QED BY <1>4, <2>1 DEF StrictSubsetOrdering
<1> QED BY <1>5

(* A set of nodes has one with the greatest number. *)
LEMMA GreatestNode ==
  ASSUME NEW S \in SUBSET Nids, S # {}
  PROVE  \E m \in S : \A k \in S : k <= m
<1> DEFINE T == {MAX_NODES - n : n \in S}
<1>1. T \in SUBSET Nat /\ T # {}
  <2>1. \A n \in S : MAX_NODES - n \in Nat
    BY TreeConstants DEF Nids
  <2> QED BY <2>1
<1>2. PICK t \in T : \A k \in T : t <= k
  <2> HIDE DEF T
  <2> QED BY <1>1, LeastElement
<1>3. PICK m \in S : t = MAX_NODES - m
  OBVIOUS
<1>4. \A k \in S : k <= m
  <2> SUFFICES ASSUME NEW k \in S PROVE k <= m
    OBVIOUS
  <2>1. t <= MAX_NODES - k
    BY <1>2
  <2> QED BY <1>3, <2>1, TreeConstants DEF Nids
<1> QED BY <1>4

(* The array is finite, and so is every set of its nodes. *)
LEMMA NodesFinite == \A S \in SUBSET Nids : IsFiniteSet(S)
<1>1. IsFiniteSet(Nids)
  BY FS_Interval, TreeConstants DEF Nids
<1> QED BY <1>1, FS_Subset

-----------------------------------------------------------------------------
(* What can be reached. *)

(***************************************************************************)
(* Closure(S, more) is the smallest set around S that more does not leave.  *)
(***************************************************************************)
LEMMA ClosureFacts ==
  ASSUME NEW S \in SUBSET Nids, NEW more \in [Nids -> SUBSET Nids]
  PROVE  /\ S \subseteq Closure(S, more) /\ Closure(S, more) \subseteq Nids
         /\ \A n \in Closure(S, more) : more[n] \subseteq Closure(S, more)
         /\ \A X \in SUBSET Nids :
              S \subseteq X /\ (\A n \in X : more[n] \subseteq X) => Closure(S, more) \subseteq X
<1> DEFINE all(G) == G \cup UNION {more[n] : n \in G}
           Closed(X) == \A n \in X : more[n] \subseteq X
           least(G) == {n \in Nids : \A X \in SUBSET Nids : G \subseteq X /\ Closed(X) => n \in X}
           grow(g) == [G \in SUBSET Nids |-> IF all(G) = G THEN G ELSE g[all(G)]]
<1>1. \A G \in SUBSET Nids : all(G) \in SUBSET Nids /\ G \subseteq all(G)
  OBVIOUS
<1>2. \A G \in SUBSET Nids : all(G) = G => Closed(G)
  OBVIOUS
<1>3. \A G \in SUBSET Nids : all(G) = G => least(G) = G
  BY <1>2
<1>4. \A G \in SUBSET Nids : least(all(G)) = least(G)
  <2> SUFFICES ASSUME NEW G \in SUBSET Nids PROVE least(all(G)) = least(G)
    OBVIOUS
  <2>1. \A X \in SUBSET Nids : Closed(X) => (all(G) \subseteq X <=> G \subseteq X)
    OBVIOUS
  <2> QED BY <2>1
<1>5. \E g : g = grow(g)
  <2> DEFINE h == [G \in SUBSET Nids |-> least(G)]
  <2>1. \A G \in SUBSET Nids : h[G] = least(G)
    OBVIOUS
  <2>2. \A G \in SUBSET Nids : h[G] = IF all(G) = G THEN G ELSE h[all(G)]
    <3> SUFFICES ASSUME NEW G \in SUBSET Nids PROVE h[G] = IF all(G) = G THEN G ELSE h[all(G)]
      OBVIOUS
    <3>1. h[all(G)] = least(all(G))
      BY <1>1, <2>1
    <3> HIDE DEF h, all, least
    <3> QED BY <1>3, <1>4, <2>1, <3>1
  <2>3. h = [G \in SUBSET Nids |-> h[G]]
    OBVIOUS
  <2> HIDE DEF h, all, least
  <2>4. h = grow(h)
    BY <2>2, <2>3
  <2> QED BY <2>4
<1>6. \E g : g = grow(g) /\ Closure(S, more) = g[S]
  BY <1>5 DEF Closure
<1>7. PICK g : g = grow(g) /\ Closure(S, more) = g[S]
  BY <1>6
<1>8. \A G \in SUBSET Nids : g[G] = IF all(G) = G THEN G ELSE g[all(G)]
  <2> HIDE DEF all
  <2> QED BY <1>7
<1>9. \A G \in SUBSET Nids : g[G] = least(G)
  <2> HIDE DEF all, least, grow
  <2> DEFINE bad == {G \in SUBSET Nids : g[G] # least(G)}
             left == {Nids \ G : G \in bad}
  <2> SUFFICES ASSUME bad # {} PROVE FALSE
    OBVIOUS
  <2>1. left # {} /\ left \subseteq SUBSET Nids
    OBVIOUS
  <2>2. IsWellFoundedOn(StrictSubsetOrdering(Nids), FiniteSubsetsOf(Nids))
    BY FS_StrictSubsetOrderingWellFounded
  <2>3. left \subseteq FiniteSubsetsOf(Nids)
    BY <2>1, NodesFinite DEF FiniteSubsetsOf
  <2>4. PICK x \in left : \A y \in left : <<y, x>> \notin StrictSubsetOrdering(Nids)
    <3> HIDE DEF left
    <3> QED BY <2>1, <2>2, <2>3, WFMin
  <2>5. PICK G \in bad : x = Nids \ G
    OBVIOUS
  <2>6. all(G) # G /\ all(G) \in SUBSET Nids /\ G \subseteq all(G)
    BY <1>1, <1>3, <1>8
  <2>7. all(G) \in bad
    BY <1>4, <1>8, <2>6
  <2>8. Nids \ all(G) \in left
    BY <2>7
  <2>9. <<Nids \ all(G), x>> \in StrictSubsetOrdering(Nids)
    BY <2>5, <2>6 DEF StrictSubsetOrdering
  <2> QED BY <2>4, <2>8, <2>9
<1>10. Closure(S, more) = least(S)
  <2> HIDE DEF least
  <2> QED BY <1>7, <1>9
<1> QED BY <1>10

-----------------------------------------------------------------------------
(* Trees. *)

Fields == {"child", "member", "brother"}

(* The brothers of roots do not count. *)
Counts(R, a, f) == f = "brother" => a \notin R

(***************************************************************************)
(* The nodes of A are trees with the roots R: links stay in A and lead to   *)
(* nodes of the right parent, no two lead to the same node or to a root,    *)
(* and every set of nodes that are no roots is entered from outside.        *)
(***************************************************************************)
Leads(nd, A, R) ==
  \A a \in A, f \in Fields : Counts(R, a, f) /\ nd[a][f] # NIL =>
    /\ nd[a][f] \in A \ R
    /\ nd[nd[a][f]].parent = IF f = "brother" THEN nd[a].parent ELSE a

Single(nd, A, R) ==
  \A a, c \in A, f, g \in Fields :
    Counts(R, a, f) /\ Counts(R, c, g) /\ nd[a][f] # NIL /\ nd[a][f] = nd[c][g]
      => a = c /\ f = g

Entered(nd, A, R) ==
  \A S \in SUBSET (A \ R) :
    S # {} => \E a \in A \ S, f \in Fields : Counts(R, a, f) /\ nd[a][f] \in S

Forest(nd, A, R) ==
  /\ R \subseteq A /\ A \subseteq Nids
  /\ Leads(nd, A, R) /\ Single(nd, A, R) /\ Entered(nd, A, R)

(* A link leads to a node or nowhere. *)
LEMMA LinkTypes ==
  ASSUME NEW nd \in [Nids -> Node], NEW a \in Nids, NEW f \in Fields
  PROVE  nd[a][f] \in Links /\ nd[a].parent \in Links
BY DEF Fields, Node

(* What a forest is does not depend on the brothers of its roots. *)
LEMMA ForestSame ==
  ASSUME NEW nd, NEW nd2, NEW A, NEW R, Forest(nd, A, R),
         \A a \in A, f \in Fields : Counts(R, a, f) => nd2[a][f] = nd[a][f],
         \A a \in A \ R : nd2[a].parent = nd[a].parent
  PROVE  Forest(nd2, A, R)
<1>1. Leads(nd2, A, R)
  BY DEF Forest, Leads, Counts
<1>2. Single(nd2, A, R)
  BY DEF Forest, Single
<1>3. Entered(nd2, A, R)
  BY DEF Forest, Entered
<1> QED BY <1>1, <1>2, <1>3 DEF Forest

(* The parent of what is not a root is in the forest. *)
LEMMA ForestParent ==
  ASSUME NEW nd, NEW A, NEW R, Forest(nd, A, R), NEW m \in A \ R
  PROVE  nd[m].parent \in A
<1> DEFINE S == {x \in A \ R : nd[x].parent = nd[m].parent}
<1>1. PICK a \in A \ S, f \in Fields : Counts(R, a, f) /\ nd[a][f] \in S
  <2>1. S \in SUBSET (A \ R) /\ S # {}
    OBVIOUS
  <2> QED BY <2>1 DEF Forest, Entered
<1>2. nd[a][f] # NIL
  BY <1>1 DEF Forest, Nids, NIL
<1>3. nd[nd[a][f]].parent = IF f = "brother" THEN nd[a].parent ELSE a
  BY <1>1, <1>2 DEF Forest, Leads
<1>4. f # "brother"
  BY <1>1, <1>3 DEF Counts
<1> QED BY <1>1, <1>3, <1>4

(* No nodes have their parents among themselves only. *)
LEMMA ForestRooted ==
  ASSUME NEW nd, NEW A, NEW R, Forest(nd, A, R), NEW S \in SUBSET (A \ R), S # {}
  PROVE  \E m \in S : nd[m].parent \in A \ S
<1> DEFINE B == {m \in A \ R : nd[m].parent \in S \/ m \in S}
<1>1. PICK a \in A \ B, f \in Fields : Counts(R, a, f) /\ nd[a][f] \in B
  <2>1. B \in SUBSET (A \ R) /\ B # {}
    OBVIOUS
  <2> QED BY <2>1 DEF Forest, Entered
<1>2. nd[a][f] # NIL
  BY <1>1 DEF Forest, Nids, NIL
<1>3. nd[nd[a][f]].parent = IF f = "brother" THEN nd[a].parent ELSE a
  BY <1>1, <1>2 DEF Forest, Leads
<1>4. nd[nd[a][f]].parent \notin S
  BY <1>1, <1>3 DEF Counts
<1>5. nd[a][f] \in S
  BY <1>1, <1>4
<1> QED BY <1>4, <1>5, ForestParent

(***************************************************************************)
(* What can be reached from the only root is the whole tree (countnodes).   *)
(***************************************************************************)
LEMMA ForestReach ==
  ASSUME NEW nd \in [Nids -> Node], NEW A, NEW r, Forest(nd, A, {r}), nd[r].brother = NIL
  PROVE  Closure({r}, [n \in Nids |-> {nd[n].child, nd[n].member, nd[n].brother} \ {NIL}]) = A
<1> DEFINE more == [n \in Nids |-> {nd[n].child, nd[n].member, nd[n].brother} \ {NIL}]
           C == Closure({r}, more)
<1>1. more \in [Nids -> SUBSET Nids] /\ \A n \in Nids : more[n] = {nd[n][f] : f \in Fields} \ {NIL}
  BY DEF Node, Links, Fields
<1>2. r \in A /\ A \subseteq Nids
  BY DEF Forest
<1> HIDE DEF more
<1>3. r \in C /\ C \subseteq Nids /\ \A n \in C : more[n] \subseteq C
  BY <1>1, <1>2, ClosureFacts
<1>4. C \subseteq A
  <2>1. \A n \in A, f \in Fields : nd[n][f] \in A \cup {NIL}
    BY DEF Forest, Leads, Counts, Fields
  <2>2. \A n \in A : more[n] \subseteq A
    BY <1>1, <1>2, <2>1
  <2> QED BY <1>1, <1>2, <2>2, ClosureFacts
<1>5. A \subseteq C
  <2> SUFFICES ASSUME A \ C # {} PROVE FALSE
    OBVIOUS
  <2>1. A \ C \in SUBSET (A \ {r})
    BY <1>3
  <2>2. PICK a \in A \ (A \ C), f \in Fields : nd[a][f] \in A \ C
    BY <2>1 DEF Forest, Entered
  <2>3. nd[a][f] \in more[a]
    BY <1>1, <1>2, <2>2 DEF Nids, NIL
  <2> QED BY <1>3, <2>2, <2>3
<1> QED BY <1>4, <1>5 DEF more

-----------------------------------------------------------------------------
(* Lists of brothers. *)

(* Brothers are the least set with the first one and the brothers of its members. *)
LEMMA BrothersFacts ==
  ASSUME NEW nd \in [Nids -> Node], NEW first \in Links
  PROVE  /\ first # NIL => first \in Brothers(nd, first)
         /\ Brothers(nd, first) \subseteq Nids
         /\ \A m \in Brothers(nd, first) : nd[m].brother # NIL => nd[m].brother \in Brothers(nd, first)
         /\ \A X \in SUBSET Nids :
              (first # NIL => first \in X) /\ (\A m \in X : nd[m].brother # NIL => nd[m].brother \in X)
                => Brothers(nd, first) \subseteq X
         /\ \A m \in Brothers(nd, first) : m # first => \E q \in Brothers(nd, first) : nd[q].brother = m
<1> DEFINE more == [n \in Nids |-> {nd[n].brother} \ {NIL}]
           S == {first} \ {NIL}
           B == Brothers(nd, first)
<1>1. more \in [Nids -> SUBSET Nids] /\ S \in SUBSET Nids /\ B = Closure(S, more)
  BY DEF Node, Links, Brothers
<1>2. \A n \in Nids : more[n] = {nd[n].brother} \ {NIL}
  OBVIOUS
<1> HIDE DEF more, S, B
<1>3. /\ S \subseteq B /\ B \subseteq Nids
      /\ \A n \in B : more[n] \subseteq B
      /\ \A X \in SUBSET Nids : S \subseteq X /\ (\A n \in X : more[n] \subseteq X) => B \subseteq X
  BY <1>1, ClosureFacts
<1> USE DEF S
<1>4. \A n \in B : nd[n].brother # NIL => nd[n].brother \in B
  BY <1>2, <1>3
<1>5. ASSUME NEW X \in SUBSET Nids, first # NIL => first \in X,
             \A m \in X : nd[m].brother # NIL => nd[m].brother \in X
      PROVE  B \subseteq X
  <2>1. \A m \in X : more[m] \subseteq X
    BY <1>2, <1>5
  <2> QED BY <1>3, <1>5, <2>1
<1>6. ASSUME NEW m \in B, m # first, \A q \in B : nd[q].brother # m
      PROVE  FALSE
  <2>1. B \ {m} \in SUBSET Nids
    BY <1>3
  <2>2. first # NIL => first \in B \ {m}
    BY <1>3, <1>6
  <2>3. \A q \in B \ {m} : nd[q].brother # NIL => nd[q].brother \in B \ {m}
    BY <1>4, <1>6
  <2>4. B \subseteq B \ {m}
    BY <1>5, <2>1, <2>2, <2>3
  <2> QED BY <1>6, <2>4
<1>7. (first # NIL => first \in B) /\ B \subseteq Nids
  BY <1>3
<1> QED BY <1>4, <1>5, <1>6, <1>7 DEF B

(* The children and members of p are the nodes whose parent is p (FindMembersOrChildren). *)
LEMMA Siblings ==
  ASSUME NEW nd \in [Nids -> Node], NEW A, NEW R, Forest(nd, A, R), NEW p \in A
  PROVE  Kids(nd, p) = {m \in A \ R : nd[m].parent = p}
<1> DEFINE X == {m \in A \ R : nd[m].parent = p}
           K == Kids(nd, p)
           C == Brothers(nd, nd[p]["child"])
           M == Brothers(nd, nd[p]["member"])
<1>1. p \in Nids /\ X \in SUBSET Nids /\ K = C \cup M
  BY DEF Forest, Kids
<1>2. nd[p]["child"] \in Links /\ nd[p]["member"] \in Links
  BY <1>1, LinkTypes DEF Fields
<1>3. \A m \in X : nd[m].brother # NIL => nd[m].brother \in X
  <2> SUFFICES ASSUME NEW m \in X, nd[m]["brother"] # NIL PROVE nd[m]["brother"] \in X
    OBVIOUS
  <2>1. Counts(R, m, "brother") /\ "brother" \in Fields
    BY DEF Counts, Fields
  <2> QED BY <2>1 DEF Forest, Leads
<1>4. \A f \in {"child", "member"} : nd[p][f] # NIL => nd[p][f] \in X
  BY DEF Forest, Leads, Counts, Fields
<1>5. C \subseteq X /\ M \subseteq X
  <2> HIDE DEF X
  <2> QED BY <1>1, <1>2, <1>3, <1>4, BrothersFacts
<1>6. \A m \in K : nd[m].brother # NIL => nd[m].brother \in K
  BY <1>1, <1>2, BrothersFacts
<1>7. \A f \in {"child", "member"} : nd[p][f] # NIL => nd[p][f] \in K
  BY <1>1, <1>2, BrothersFacts
<1> HIDE DEF K
<1>8. X \subseteq K
  <2> SUFFICES ASSUME X \ K # {} PROVE FALSE
    OBVIOUS
  <2>1. PICK a \in A \ (X \ K), f \in Fields : Counts(R, a, f) /\ nd[a][f] \in X \ K
    BY DEF Forest, Entered
  <2>2. nd[a][f] # NIL
    BY <1>1, <2>1 DEF Nids, NIL
  <2>3. p = IF f = "brother" THEN nd[a].parent ELSE a
    BY <2>1, <2>2 DEF Forest, Leads
  <2>4. CASE f = "brother"
    <3>1. a \in X
      BY <2>1, <2>3, <2>4 DEF Counts
    <3>2. a \in K
      BY <2>1, <3>1
    <3> QED BY <1>6, <2>1, <2>2, <2>4, <3>2
  <2>5. CASE f # "brother"
    BY <1>7, <2>1, <2>2, <2>3, <2>5 DEF Fields
  <2> QED BY <2>4, <2>5
<1> QED BY <1>1, <1>5, <1>8 DEF K

-----------------------------------------------------------------------------
(* What linking and unlinking make of trees. *)

(* Nothing links to its own brother, nor is it one. *)
LEMMA ForestEntry ==
  ASSUME NEW nd, NEW A, NEW R, Forest(nd, A, R), NEW n \in A \ R
  PROVE  \E a \in A \ {n}, f \in Fields : Counts(R, a, f) /\ nd[a][f] = n
<1>1. {n} \in SUBSET (A \ R) /\ {n} # {}
  OBVIOUS
<1> QED BY <1>1 DEF Forest, Entered

(* The link f of a led to n and leads to its brother in nd2. *)
Skips(nd, nd2, n, a, f) ==
  /\ nd[a][f] = n /\ nd2 \in [Nids -> Node]
  /\ \A m \in Nids : /\ nd2[m].parent = nd[m].parent /\ nd2[m].name = nd[m].name
                     /\ nd2[m].elt = nd[m].elt
                     /\ m # a => nd2[m] = nd[m]
                     /\ \A g \in Fields :
                          nd2[m][g] = IF m = a /\ g = f THEN nd[n]["brother"] ELSE nd[m][g]

(* What becomes of the links when one passes over n. *)
LEMMA SkipsFacts ==
  ASSUME NEW nd \in [Nids -> Node], NEW n \in Nids, NEW a \in Nids, NEW f \in Fields, nd[a][f] = n,
         NEW nd2, nd2 = [nd EXCEPT ![a][f] = nd[n].brother]
  PROVE  Skips(nd, nd2, n, a, f)
<1>0. PICK x : x = nd[n]["brother"]
  OBVIOUS
<1>1. \A m \in Nids : nd2[m] = IF m = a THEN [nd[a] EXCEPT ![f] = x] ELSE nd[m]
  BY <1>0
<1>2. LET r == [nd[a] EXCEPT ![f] = x] IN
      /\ r \in Node /\ r.parent = nd[a].parent /\ r.name = nd[a].name /\ r.elt = nd[a].elt
      /\ \A g \in Fields : r[g] = IF g = f THEN x ELSE nd[a][g]
  <2>1. nd[a] \in Node /\ x \in Links
    BY <1>0, LinkTypes DEF Fields
  <2>2. CASE f = "child"
    BY <2>1, <2>2 DEF Node, Fields
  <2>3. CASE f = "member"
    BY <2>1, <2>3 DEF Node, Fields
  <2>4. CASE f = "brother"
    BY <2>1, <2>4 DEF Node, Fields
  <2> QED BY <2>2, <2>3, <2>4 DEF Fields
<1>3. nd2 \in [Nids -> Node]
  <2>1. DOMAIN nd2 = Nids /\ nd2 = [m \in Nids |-> nd2[m]]
    OBVIOUS
  <2>2. \A m \in Nids : nd2[m] \in Node
    BY <1>1, <1>2
  <2> QED BY <2>1, <2>2
<1>4. \A m \in Nids :  /\ nd2[m].parent = nd[m].parent /\ nd2[m].name = nd[m].name
                       /\ nd2[m].elt = nd[m].elt
                       /\ m # a => nd2[m] = nd[m]
                       /\ \A g \in Fields : nd2[m][g] = IF m = a /\ g = f THEN x ELSE nd[m][g]
  BY <1>1, <1>2
<1> QED BY <1>0, <1>3, <1>4 DEF Skips

(* What led to n leads to its brother now; n is the root of a tree of its own. *)
LEMMA UnlinkForest ==
  ASSUME NEW nd \in [Nids -> Node], NEW A, NEW R, Forest(nd, A, R), NEW n \in A \ R,
         NEW a \in A, NEW f \in Fields, Counts(R, a, f), NEW nd2, Skips(nd, nd2, n, a, f)
  PROVE  Forest(nd2, A, R \cup {n})
<1> DEFINE t == nd[n]["brother"]
           Q == R \cup {n}
<1> USE DEF Skips
<1>0. A \subseteq Nids /\ R \subseteq A /\ n # NIL /\ NIL \notin Nids /\ "brother" \in Fields
  BY DEF Forest, Nids, NIL, Fields
<1>1. \A b \in A, g \in Fields : Counts(R, b, g) /\ nd[b][g] = n => b = a /\ g = f
  BY <1>0 DEF Forest, Single
<1>2. a # n
  BY <1>1, ForestEntry
<1>3. Counts(R, n, "brother") /\ t # n
  BY <1>0, <1>1, <1>2 DEF Counts
<1>4. /\ t \in Links
      /\ \A b \in Nids, g \in Fields : nd2[b][g] = IF b = a /\ g = f THEN t ELSE nd[b][g]
      /\ \A b \in Nids : nd2[b].parent = nd[b].parent
  BY <1>0, LinkTypes
<1>5. t # NIL => t \in A \ Q /\ nd[t].parent = nd[n].parent
  BY <1>0, <1>3 DEF Forest, Leads
<1>6. nd[n].parent = IF f = "brother" THEN nd[a].parent ELSE a
  BY <1>0 DEF Forest, Leads
<1>7. \A b \in A, g \in Fields : Counts(Q, b, g) => Counts(R, b, g)
  BY DEF Counts
<1>8. Leads(nd2, A, Q)
  <2> SUFFICES ASSUME NEW b \in A, NEW g \in Fields, Counts(Q, b, g), nd2[b][g] # NIL
               PROVE  /\ nd2[b][g] \in A \ Q
                      /\ nd2[nd2[b][g]].parent = IF g = "brother" THEN nd2[b].parent ELSE b
    BY DEF Leads
  <2>1. CASE b = a /\ g = f
    <3>1. nd2[b][g] = t
      BY <1>0, <1>4, <2>1
    <3> QED BY <1>0, <1>4, <1>5, <1>6, <2>1, <3>1
  <2>2. CASE ~(b = a /\ g = f)
    <3>1. nd2[b][g] = nd[b][g]
      BY <1>0, <1>4, <2>2
    <3>2. nd[b][g] \in A \ R /\ nd[nd[b][g]].parent = IF g = "brother" THEN nd[b].parent ELSE b
      BY <1>7, <3>1 DEF Forest, Leads
    <3>3. nd[b][g] # n
      BY <1>1, <1>7, <2>2
    <3> QED BY <1>0, <1>4, <3>1, <3>2, <3>3
  <2> QED BY <2>1, <2>2
<1>9. Single(nd2, A, Q)
  <2> SUFFICES ASSUME NEW b \in A, NEW c \in A, NEW g \in Fields, NEW h \in Fields,
                      Counts(Q, b, g), Counts(Q, c, h), nd2[b][g] # NIL, nd2[b][g] = nd2[c][h]
               PROVE  b = c /\ g = h
    BY DEF Single
  <2>1. ~(b = n /\ g = "brother") /\ ~(c = n /\ h = "brother")
    BY DEF Counts
  <2>2. \A d \in A, i \in Fields : Counts(R, d, i) /\ nd[d][i] = t /\ t # NIL => d = n /\ i = "brother"
    BY <1>0, <1>3 DEF Forest, Single
  <2>3. b \in Nids /\ c \in Nids /\ Counts(R, b, g) /\ Counts(R, c, h)
    BY <1>0, <1>7
  <2>4. CASE b = a /\ g = f
    BY <1>4, <2>1, <2>2, <2>3, <2>4
  <2>5. CASE c = a /\ h = f
    BY <1>4, <2>1, <2>2, <2>3, <2>5
  <2>6. CASE ~(b = a /\ g = f) /\ ~(c = a /\ h = f)
    <3>1. nd[b][g] # NIL /\ nd[b][g] = nd[c][h]
      BY <1>4, <2>3, <2>6
    <3> QED BY <2>3, <3>1 DEF Forest, Single
  <2> QED BY <2>4, <2>5, <2>6
<1>10. Entered(nd2, A, Q)
  <2> SUFFICES ASSUME NEW S \in SUBSET (A \ Q), S # {}
               PROVE  \E b \in A \ S, g \in Fields : Counts(Q, b, g) /\ nd2[b][g] \in S
    BY DEF Entered
  <2>1. ASSUME NEW b \in A \ S, NEW g \in Fields, Counts(R, b, g), nd[b][g] \in S, b # n \/ g # "brother"
        PROVE  Counts(Q, b, g) /\ nd2[b][g] \in S
    <3>1. Counts(Q, b, g)
      BY <2>1 DEF Counts
    <3>2. b \in Nids /\ ~(b = a /\ g = f)
      BY <1>0, <2>1
    <3> QED BY <1>4, <2>1, <3>1, <3>2
  <2>2. PICK b \in A \ S, g \in Fields : Counts(R, b, g) /\ nd[b][g] \in S
    <3>1. S \in SUBSET (A \ R)
      OBVIOUS
    <3> QED BY <3>1 DEF Forest, Entered
  <2>3. CASE b # n \/ g # "brother"
    BY <2>1, <2>2, <2>3
  <2>4. CASE b = n /\ g = "brother"
    <3>1. t \in S
      BY <2>2, <2>4
    <3>2. PICK c \in A \ (S \cup {n}), h \in Fields : Counts(R, c, h) /\ nd[c][h] \in S \cup {n}
      <4>1. S \cup {n} \in SUBSET (A \ R)
        OBVIOUS
      <4> QED BY <4>1 DEF Forest, Entered
    <3>3. CASE nd[c][h] \in S
      BY <2>1, <3>2, <3>3
    <3>4. CASE nd[c][h] = n
      <4>1. c = a /\ h = f
        BY <1>1, <3>2, <3>4
      <4>2. nd2[a][f] = t
        BY <1>0, <1>4
      <4>3. Counts(Q, a, f)
        BY <1>2 DEF Counts
      <4> QED BY <3>1, <3>2, <4>1, <4>2, <4>3
    <3> QED BY <3>2, <3>3, <3>4
  <2> QED BY <2>3, <2>4
<1>11. Forest(nd2, A, Q)
  BY <1>0, <1>8, <1>9, <1>10 DEF Forest
<1> QED BY <1>11

(* nd2 is nd, but for the link f of a that leads to n and on to where it led. *)
Linking(nd, nd2, A, R, n, a, f) ==
  /\ nd2 \in [Nids -> Node]
  /\ nd2[a][f] = n /\ nd2[n].brother = nd[a][f]
  /\ nd2[n].parent = IF f = "brother" THEN nd[a].parent ELSE a
  /\ \A b \in A, g \in Fields : Counts(R, b, g) /\ ~(b = a /\ g = f) /\ ~(b = n /\ g = "brother")
       => nd2[b][g] = nd[b][g]
  /\ \A b \in A \ {n} : nd2[b].parent = nd[b].parent

(* No link leaves D. *)
Inside(nd, A, R, D) ==
  \A d \in A \cap D, g \in Fields : Counts(R, d, g) /\ nd[d][g] # NIL => nd[d][g] \in D

(***************************************************************************)
(* The tree of n is put where a link leads, unless the link is one of its   *)
(* own: the nodes of D include those below n.                               *)
(***************************************************************************)
LEMMA LinkForest ==
  ASSUME NEW nd, NEW nd2, NEW A, NEW R, NEW n \in A \ R, Forest(nd, A, R \cup {n}),
         NEW a \in A, NEW f \in Fields, Counts(R, a, f), Linking(nd, nd2, A, R, n, a, f),
         NEW D, n \in D, a \notin D, Inside(nd, A, R \cup {n}, D)
  PROVE  Forest(nd2, A, R)
<1> USE DEF Linking, Inside
<1> DEFINE t == nd[a][f]
           Q == R \cup {n}
<1>0. A \subseteq Nids /\ R \subseteq A /\ n # NIL /\ NIL \notin Nids /\ a # n /\ "brother" \in Fields
  BY DEF Forest, Nids, NIL, Fields
<1>1. Counts(Q, a, f) /\ \A b \in A, g \in Fields : Counts(Q, b, g) <=> Counts(R, b, g) /\ ~(b = n /\ g = "brother")
  BY <1>0 DEF Counts
<1>2. \A b \in A, g \in Fields : Counts(Q, b, g) /\ nd[b][g] # NIL => nd[b][g] \in A \ Q
  BY DEF Forest, Leads
<1>3. t # NIL => t \in A \ Q /\ nd[t].parent = IF f = "brother" THEN nd[a].parent ELSE a
  BY <1>1 DEF Forest, Leads
<1>4. Leads(nd2, A, R)
  <2> SUFFICES ASSUME NEW b \in A, NEW g \in Fields, Counts(R, b, g), nd2[b][g] # NIL
               PROVE  /\ nd2[b][g] \in A \ R
                      /\ nd2[nd2[b][g]].parent = IF g = "brother" THEN nd2[b].parent ELSE b
    BY DEF Leads
  <2>1. CASE b = a /\ g = f
    BY <1>0, <2>1
  <2>2. CASE b = n /\ g = "brother"
    <3>1. nd2[b][g] = t
      BY <2>2
    <3>2. nd2[t].parent = nd[t].parent
      BY <1>3, <3>1
    <3> QED BY <1>3, <2>2, <3>1, <3>2
  <2>3. CASE ~(b = a /\ g = f) /\ ~(b = n /\ g = "brother")
    <3>1. nd2[b][g] = nd[b][g] /\ Counts(Q, b, g)
      BY <1>1, <2>3
    <3>2. nd[b][g] \in A \ Q /\ nd[nd[b][g]].parent = IF g = "brother" THEN nd[b].parent ELSE b
      BY <3>1 DEF Forest, Leads
    <3>3. nd2[nd[b][g]].parent = nd[nd[b][g]].parent /\ (g = "brother" => nd2[b].parent = nd[b].parent)
      BY <2>3, <3>2
    <3> QED BY <3>1, <3>2, <3>3
  <2> QED BY <2>1, <2>2, <2>3
<1>5. Single(nd2, A, R)
  <2> SUFFICES ASSUME NEW b \in A, NEW c \in A, NEW g \in Fields, NEW h \in Fields,
                      Counts(R, b, g), Counts(R, c, h), nd2[b][g] # NIL, nd2[b][g] = nd2[c][h]
               PROVE  b = c /\ g = h
    BY DEF Single
  <2>1. \A d \in A, i \in Fields : Counts(R, d, i) /\ nd2[d][i] # NIL =>
          \/ d = a /\ i = f
          \/ d = n /\ i = "brother" /\ nd2[d][i] = t
          \/ ~(d = a /\ i = f) /\ Counts(Q, d, i) /\ nd2[d][i] = nd[d][i] /\ nd2[d][i] # n
    <3> SUFFICES ASSUME NEW d \in A, NEW i \in Fields, Counts(R, d, i), nd2[d][i] # NIL,
                        ~(d = a /\ i = f), ~(d = n /\ i = "brother")
                 PROVE  Counts(Q, d, i) /\ nd2[d][i] = nd[d][i] /\ nd2[d][i] # n
      OBVIOUS
    <3>1. Counts(Q, d, i) /\ nd2[d][i] = nd[d][i]
      BY <1>1
    <3>2. nd[d][i] \in A \ Q
      BY <1>2, <3>1
    <3> QED BY <3>1, <3>2
  <2>2. t # n
    BY <1>0, <1>3
  <2>4. \A d, e \in A, i, j \in Fields : Counts(Q, d, i) /\ Counts(Q, e, j) /\ nd[d][i] # NIL /\ nd[d][i] = nd[e][j]
           => d = e /\ i = j
    BY DEF Forest, Single
  <2>3. \A d \in A, i \in Fields : Counts(Q, d, i) /\ nd[d][i] # NIL /\ nd[d][i] = t => d = a /\ i = f
    <3> SUFFICES ASSUME NEW d \in A, NEW i \in Fields, Counts(Q, d, i), nd[d][i] # NIL, nd[d][i] = nd[a][f]
                 PROVE  d = a /\ i = f
      OBVIOUS
    <3> HIDE DEF Q
    <3> QED BY <1>1, <2>4
  <2>5. nd2[c][h] # NIL
    OBVIOUS
  <2> HIDE DEF t, Q
  <2>6. CASE b = a /\ g = f
    BY <2>1, <2>2, <2>5, <2>6
  <2>7. CASE b = n /\ g = "brother" /\ nd2[b][g] = t
    BY <2>1, <2>2, <2>3, <2>5, <2>7
  <2>8. CASE ~(b = a /\ g = f) /\ Counts(Q, b, g) /\ nd2[b][g] = nd[b][g] /\ nd2[b][g] # n
    <3>1. CASE c = a /\ h = f
      BY <2>8, <3>1
    <3>2. CASE c = n /\ h = "brother" /\ nd2[c][h] = t
      BY <2>3, <2>8, <3>2
    <3>3. CASE Counts(Q, c, h) /\ nd2[c][h] = nd[c][h]
      <4>1. Counts(Q, b, g) /\ nd[b][g] # NIL /\ nd[b][g] = nd[c][h]
        BY <2>8, <3>3
      <4> QED BY <2>4, <3>3, <4>1
    <3> QED BY <2>1, <2>5, <3>1, <3>2, <3>3
  <2> QED BY <2>1, <2>6, <2>7, <2>8
<1>6. Entered(nd2, A, R)
  <2> SUFFICES ASSUME NEW S \in SUBSET (A \ R), S # {}
               PROVE  \E b \in A \ S, g \in Fields : Counts(R, b, g) /\ nd2[b][g] \in S
    BY DEF Entered
  <2>1. CASE n \in S /\ a \notin S
    BY <2>1
  <2>2. CASE n \notin S
    <3>1. PICK b \in A \ S, g \in Fields : Counts(Q, b, g) /\ nd[b][g] \in S
      <4>1. S \in SUBSET (A \ Q)
        BY <2>2
      <4> QED BY <4>1 DEF Forest, Entered
    <3>2. CASE b = a /\ g = f
      <4>1. nd2[n]["brother"] \in S /\ Counts(R, n, "brother")
        BY <3>1, <3>2 DEF Counts
      <4> QED BY <1>0, <2>2, <4>1
    <3>3. CASE ~(b = a /\ g = f)
      BY <1>1, <3>1, <3>3
    <3> QED BY <3>2, <3>3
  <2>3. CASE n \in S /\ a \in S
    <3>1. S \ D \in SUBSET (A \ Q) /\ S \ D # {}
      BY <2>3
    <3>2. PICK b \in A \ (S \ D), g \in Fields : Counts(Q, b, g) /\ nd[b][g] \in S \ D
      BY <3>1 DEF Forest, Entered
    <3>3. b \notin D /\ b \notin S
      <4>1. nd[b][g] # NIL
        BY <1>0, <3>2
      <4> QED BY <3>2, <4>1
    <3>4. nd2[b][g] = nd[b][g] /\ Counts(R, b, g)
      BY <1>1, <2>3, <3>2, <3>3
    <3> QED BY <3>2, <3>3, <3>4
  <2> QED BY <2>1, <2>2, <2>3
<1> QED BY <1>0, <1>4, <1>5, <1>6 DEF Forest

(* A node without children and members is a tree. *)
LEMMA AddRoot ==
  ASSUME NEW nd, NEW A, NEW R, Forest(nd, A, R), NEW n \in Nids \ A,
         nd[n].child = NIL, nd[n].member = NIL
  PROVE  Forest(nd, A \cup {n}, R \cup {n})
<1>1. \A f \in Fields : Counts(R \cup {n}, n, f) => nd[n][f] = NIL
  BY DEF Fields, Counts
<1>2. \A a \in A, f \in Fields : Counts(R \cup {n}, a, f) <=> Counts(R, a, f)
  BY DEF Counts
<1>3. Leads(nd, A \cup {n}, R \cup {n})
  <2> SUFFICES ASSUME NEW a \in A \cup {n}, NEW f \in Fields, Counts(R \cup {n}, a, f), nd[a][f] # NIL
               PROVE  /\ nd[a][f] \in (A \cup {n}) \ (R \cup {n})
                      /\ nd[nd[a][f]].parent = IF f = "brother" THEN nd[a].parent ELSE a
    BY DEF Leads
  <2>1. a \in A /\ Counts(R, a, f)
    BY <1>1, <1>2
  <2>2. nd[a][f] \in A \ R /\ nd[nd[a][f]].parent = IF f = "brother" THEN nd[a].parent ELSE a
    BY <2>1 DEF Forest, Leads
  <2> QED BY <2>2
<1>4. Single(nd, A \cup {n}, R \cup {n})
  BY <1>1, <1>2 DEF Forest, Single
<1>5. Entered(nd, A \cup {n}, R \cup {n})
  <2> SUFFICES ASSUME NEW S \in SUBSET ((A \cup {n}) \ (R \cup {n})), S # {}
               PROVE  \E a \in (A \cup {n}) \ S, f \in Fields : Counts(R \cup {n}, a, f) /\ nd[a][f] \in S
    BY DEF Entered
  <2>1. S \in SUBSET (A \ R)
    OBVIOUS
  <2> QED BY <1>2, <2>1 DEF Forest, Entered
<1> QED BY <1>3, <1>4, <1>5 DEF Forest

(* Without a root, its children and members are roots. *)
LEMMA DropRoot ==
  ASSUME NEW nd, NEW A, NEW R, Forest(nd, A, R), NEW k \in R,
         NEW Q, Q = (R \ {k}) \cup {m \in A \ {k} : nd[m].parent = k}
  PROVE  Forest(nd, A \ {k}, Q)
<1>1. \A a \in A \ {k}, f \in Fields : Counts(Q, a, f) => Counts(R, a, f)
  BY DEF Counts
<1>2. \A a \in A, f \in Fields : Counts(R, a, f) /\ nd[a][f] # NIL =>
        nd[a][f] \in A \ R /\ nd[nd[a][f]].parent = IF f = "brother" THEN nd[a].parent ELSE a
  BY DEF Forest, Leads
<1>3. Leads(nd, A \ {k}, Q)
  <2> SUFFICES ASSUME NEW a \in A \ {k}, NEW f \in Fields, Counts(Q, a, f), nd[a][f] # NIL
               PROVE  /\ nd[a][f] \in (A \ {k}) \ Q
                      /\ nd[nd[a][f]].parent = IF f = "brother" THEN nd[a].parent ELSE a
    BY DEF Leads
  <2>1. nd[nd[a][f]].parent # k
    BY <1>1, <1>2 DEF Counts
  <2> QED BY <1>1, <1>2, <2>1
<1>4. Single(nd, A \ {k}, Q)
  BY <1>1 DEF Forest, Single
<1>5. Entered(nd, A \ {k}, Q)
  <2> SUFFICES ASSUME NEW S \in SUBSET ((A \ {k}) \ Q), S # {}
               PROVE  \E a \in (A \ {k}) \ S, f \in Fields : Counts(Q, a, f) /\ nd[a][f] \in S
    BY DEF Entered
  <2>1. S \in SUBSET (A \ R)
    OBVIOUS
  <2>2. PICK a \in A \ S, f \in Fields : Counts(R, a, f) /\ nd[a][f] \in S
    BY <2>1 DEF Forest, Entered
  <2>3. nd[a][f] # NIL
    BY <2>2 DEF Forest, Nids, NIL
  <2>4. nd[nd[a][f]].parent # k
    BY <2>2
  <2>5. a # k
    BY <1>2, <2>2, <2>3, <2>4 DEF Counts
  <2>6. Counts(Q, a, f)
    <3> SUFFICES ASSUME f = "brother", a \in Q PROVE FALSE
      BY DEF Counts
    <3>1. a \notin R
      BY <2>2 DEF Counts
    <3>2. nd[a].parent = k
      BY <3>1
    <3> QED BY <1>2, <2>2, <2>3, <2>4, <3>2
  <2> QED BY <2>2, <2>5, <2>6
<1> QED BY <1>3, <1>4, <1>5 DEF Forest

-----------------------------------------------------------------------------
(* The list of free nodes. *)

(***************************************************************************)
(* The nodes of F are a list that starts at first: parent is the next and   *)
(* child the previous one, and every set of nodes without the first one is  *)
(* entered from outside.                                                    *)
(***************************************************************************)
Headed(nd, F, first) ==
  /\ F \subseteq Nids /\ NIL \notin F
  /\ first = NIL => F = {}
  /\ first # NIL => first \in F /\ nd[first].child = NIL

TwoWay(nd, F) ==
  \A n \in F : nd[n].parent # NIL => nd[n].parent \in F /\ nd[nd[n].parent].child = n

Followed(nd, F, first) ==
  \A S \in SUBSET (F \ {first}) : S # {} => \E m \in F \ S : nd[m].parent \in S

Chain(nd, F, first) == Headed(nd, F, first) /\ TwoWay(nd, F) /\ Followed(nd, F, first)

(* The list is the least set with the first node and the next of its members. *)
LEMMA FreeListFacts ==
  ASSUME NEW nd \in [Nids -> Node], NEW first \in Links
  PROVE  /\ first # NIL => first \in FreeList(nd, first)
         /\ FreeList(nd, first) \subseteq Nids
         /\ \A m \in FreeList(nd, first) : nd[m].parent # NIL => nd[m].parent \in FreeList(nd, first)
         /\ \A X \in SUBSET Nids :
              (first # NIL => first \in X) /\ (\A m \in X : nd[m].parent # NIL => nd[m].parent \in X)
                => FreeList(nd, first) \subseteq X
<1> DEFINE more == [n \in Nids |-> {nd[n].parent} \ {NIL}]
           S == {first} \ {NIL}
           B == FreeList(nd, first)
<1>1. more \in [Nids -> SUBSET Nids] /\ S \in SUBSET Nids /\ B = Closure(S, more)
  BY DEF Node, Links, FreeList
<1>2. \A n \in Nids : more[n] = {nd[n].parent} \ {NIL}
  OBVIOUS
<1> HIDE DEF more, S, B
<1>3. /\ S \subseteq B /\ B \subseteq Nids
      /\ \A n \in B : more[n] \subseteq B
      /\ \A X \in SUBSET Nids : S \subseteq X /\ (\A n \in X : more[n] \subseteq X) => B \subseteq X
  BY <1>1, ClosureFacts
<1> USE DEF S
<1>4. \A n \in B : nd[n].parent # NIL => nd[n].parent \in B
  BY <1>2, <1>3
<1>5. ASSUME NEW X \in SUBSET Nids, first # NIL => first \in X,
             \A m \in X : nd[m].parent # NIL => nd[m].parent \in X
      PROVE  B \subseteq X
  <2>1. \A m \in X : more[m] \subseteq X
    BY <1>2, <1>5
  <2> QED BY <1>3, <1>5, <2>1
<1>6. (first # NIL => first \in B) /\ B \subseteq Nids
  BY <1>3
<1> QED BY <1>4, <1>5, <1>6 DEF B

(* The list is what is met from its first node on (countfree). *)
LEMMA ChainReach ==
  ASSUME NEW nd \in [Nids -> Node], NEW F, NEW first \in Links, Chain(nd, F, first)
  PROVE  FreeList(nd, first) = F
<1> DEFINE B == FreeList(nd, first)
<1>0. F \in SUBSET Nids
  BY DEF Chain, Headed
<1>1. B \subseteq F
  <2>1. (first # NIL => first \in F) /\ \A m \in F : nd[m].parent # NIL => nd[m].parent \in F
    BY DEF Chain, Headed, TwoWay
  <2> QED BY <1>0, <2>1, FreeListFacts
<1>2. (first # NIL => first \in B) /\ \A m \in B : nd[m].parent # NIL => nd[m].parent \in B
  BY FreeListFacts
<1> HIDE DEF B
<1>3. F \subseteq B
  <2> SUFFICES ASSUME F \ B # {} PROVE FALSE
    OBVIOUS
  <2>1. F \ B \in SUBSET (F \ {first})
    BY <1>2 DEF Chain, Headed
  <2>2. PICK m \in F \ (F \ B) : nd[m].parent \in F \ B
    BY <2>1 DEF Chain, Followed
  <2>3. nd[m].parent # NIL
    BY <2>2 DEF Chain, Headed
  <2> QED BY <1>2, <2>2, <2>3
<1> QED BY <1>1, <1>3 DEF B

(***************************************************************************)
(* No next function runs in circles that have a node of their own where     *)
(* nothing leads to.                                                        *)
(***************************************************************************)
LEMMA NoCircle ==
  ASSUME NEW S \in SUBSET Nids, NEW h \in S, NEW f \in [S -> S \ {h}],
         \A m, q \in S : f[m] = f[q] => m = q
  PROVE  FALSE
<1>1. f \in Injection(S, S)
  BY DEF Injection, IsInjective
<1>2. IsFiniteSet(S)
  BY NodesFinite
<1>3. f \in Surjection(S, S)
  BY <1>1, <1>2, FS_Injection
<1> QED BY <1>3 DEF Surjection

(* Of any nodes of the list with the first one, there is one that is not followed by another one of them. *)
LEMMA ChainLast ==
  ASSUME NEW nd, NEW F, NEW first, Chain(nd, F, first), NEW S \in SUBSET F, first \in S
  PROVE  \E m \in S : nd[m].parent \notin S
<1> SUFFICES ASSUME \A m \in S : nd[m].parent \in S PROVE FALSE
  OBVIOUS
<1> DEFINE f == [m \in S |-> nd[m].parent]
<1>1. first # NIL /\ nd[first].child = NIL /\ S \in SUBSET Nids /\ NIL \notin F
  BY DEF Chain, Headed
<1>2. \A m \in S : nd[nd[m].parent].child = m
  BY <1>1 DEF Chain, TwoWay
<1>3. f \in [S -> S \ {first}]
  <2>1. \A m \in S : nd[m].parent # first
    BY <1>1, <1>2
  <2> QED BY <2>1
<1>4. \A m, q \in S : f[m] = f[q] => m = q
  BY <1>2
<1> HIDE DEF f
<1> QED BY <1>1, <1>3, <1>4, NoCircle

(* The previous node leads to a node that is not the first. *)
LEMMA ChainEntry ==
  ASSUME NEW nd, NEW F, NEW first, Chain(nd, F, first), NEW n \in F \ {first}
  PROVE  nd[n].child \in F \ {n} /\ nd[nd[n].child].parent = n
<1>1. {n} \in SUBSET (F \ {first}) /\ {n} # {}
  OBVIOUS
<1>2. PICK m \in F \ {n} : nd[m].parent = n
  BY <1>1 DEF Chain, Followed
<1>3. nd[n].child = m
  BY <1>2 DEF Chain, TwoWay, Headed
<1> QED BY <1>2, <1>3

(* The first node is taken off the list (TreeNewNode). *)
LEMMA ChainPop ==
  ASSUME NEW nd, NEW F, NEW first, first # NIL, Chain(nd, F, first),
         NEW nd2, \A m \in F \ {first} : nd2[m].parent = nd[m].parent
                    /\ nd2[m].child = IF m = nd[first].parent THEN NIL ELSE nd[m].child
  PROVE  Chain(nd2, F \ {first}, nd[first].parent)
<1> DEFINE next == nd[first].parent
<1>1. /\ F \subseteq Nids /\ NIL \notin F /\ first \in F /\ nd[first].child = NIL
      /\ \A n \in F : nd[n].parent # NIL => nd[n].parent \in F /\ nd[nd[n].parent].child = n
  BY DEF Chain, Headed, TwoWay
<1>2. \A n \in F : nd[n].parent # first
  BY <1>1
<1>3. \A n \in F \ {first} : nd[n].parent = next => next = NIL
  BY <1>1
<1>4. Followed(nd2, F \ {first}, next)
  <2> SUFFICES ASSUME NEW S \in SUBSET ((F \ {first}) \ {next}), S # {}
               PROVE  \E m \in (F \ {first}) \ S : nd2[m].parent \in S
    BY DEF Followed
  <2>1. S \in SUBSET (F \ {first})
    OBVIOUS
  <2>2. PICK m \in F \ S : nd[m].parent \in S
    BY <2>1 DEF Chain, Followed
  <2> QED BY <2>2
<1>5. TwoWay(nd2, F \ {first})
  BY <1>1, <1>2, <1>3 DEF TwoWay
<1>6. next = NIL => F \ {first} = {}
  <2> SUFFICES ASSUME next = NIL, F \ {first} # {} PROVE FALSE
    OBVIOUS
  <2>1. PICK m \in F \ (F \ {first}) : nd[m].parent \in F \ {first}
    BY DEF Chain, Followed
  <2> QED BY <1>1, <2>1
<1>7. Headed(nd2, F \ {first}, next)
  BY <1>1, <1>2, <1>6 DEF Headed
<1> QED BY <1>4, <1>5, <1>7 DEF Chain

(* Behind last, the nodes from a to b are added; they lead from one to the next. *)
Growing(nd, nd2, F, last, a, b) ==
  /\ IF F = {} THEN last = NIL ELSE last \in F /\ nd[last].parent = NIL
  /\ \A m \in a .. b : nd2[m].parent = (IF m = b THEN NIL ELSE m + 1)
                        /\ nd2[m].child = (IF m = a THEN last ELSE m - 1)
  /\ \A m \in F : nd2[m].child = nd[m].child
                   /\ nd2[m].parent = IF m = last THEN a ELSE nd[m].parent

(* The list goes on with nodes of successive numbers (TreeExpandNodes). *)
LEMMA ChainGrow ==
  ASSUME NEW nd, NEW F, NEW first, Chain(nd, F, first),
         NEW a \in Nat, NEW b \in Nat, a <= b, a .. b \subseteq Nids \ F,
         NEW last, NEW nd2, Growing(nd, nd2, F, last, a, b)
  PROVE  Chain(nd2, F \cup a .. b, IF last = NIL THEN a ELSE first)
<1> USE DEF Growing
<1> DEFINE new == a .. b
           head == IF last = NIL THEN a ELSE first
<1>1. /\ F \subseteq Nids /\ NIL \notin F /\ (first = NIL => F = {})
      /\ (first # NIL => first \in F /\ nd[first].child = NIL)
      /\ \A n \in F : nd[n].parent # NIL => nd[n].parent \in F /\ nd[nd[n].parent].child = n
  BY DEF Chain, Headed, TwoWay
<1>2. NIL \notin new /\ a \in new /\ b \in new /\ (last = NIL <=> F = {})
  BY <1>1 DEF NIL
<1>3. Headed(nd2, F \cup new, head)
  <2>1. NIL \notin F \cup new /\ F \cup new \subseteq Nids
    BY <1>1, <1>2
  <2>2. head \in F \cup new /\ nd2[head].child = NIL
    BY <1>1, <1>2
  <2> QED BY <2>1, <2>2 DEF Headed
<1>4. TwoWay(nd2, F \cup new)
  <2> SUFFICES ASSUME NEW n \in F \cup new, nd2[n].parent # NIL
               PROVE  nd2[n].parent \in F \cup new /\ nd2[nd2[n].parent].child = n
    BY DEF TwoWay
  <2>1. CASE n \in new
    <3>1. nd2[n].parent = n + 1 /\ n + 1 \in new /\ n + 1 # a
      BY <2>1
    <3>2. nd2[n + 1].child = (n + 1) - 1
      BY <3>1
    <3> QED BY <2>1, <3>1, <3>2
  <2>2. CASE n \in F /\ n = last
    BY <1>2, <2>2
  <2>3. CASE n \in F /\ n # last
    BY <1>1, <2>3
  <2> QED BY <2>1, <2>2, <2>3
<1>5. Followed(nd2, F \cup new, head)
  <2> SUFFICES ASSUME NEW S \in SUBSET ((F \cup new) \ {head}), S # {}
               PROVE  \E m \in (F \cup new) \ S : nd2[m].parent \in S
    BY DEF Followed
  <2>1. CASE S \cap F # {}
    <3>1. S \cap F \in SUBSET (F \ {first})
      BY <1>2
    <3>2. PICK m \in F \ (S \cap F) : nd[m].parent \in S \cap F
      BY <2>1, <3>1 DEF Chain, Followed
    <3>3. m # last
      BY <1>1, <1>2, <3>2
    <3> QED BY <3>2, <3>3
  <2>2. CASE S \cap F = {}
    <3>1. S \in SUBSET Nat /\ S \subseteq new
      BY <2>2
    <3>2. PICK s \in S : \A k \in S : s <= k
      BY <3>1, LeastElement
    <3>3. CASE s = a
      <4>1. last # NIL
        BY <3>2, <3>3
      <4>2. last \in F /\ last \notin S /\ nd2[last].parent = a
        BY <1>2, <2>2, <4>1
      <4> QED BY <3>2, <3>3, <4>2
    <3>4. CASE s # a
      <4>1. s - 1 \in new /\ s - 1 \notin S /\ nd2[s - 1].parent = (s - 1) + 1
        BY <3>1, <3>2, <3>4
      <4> QED BY <3>1, <4>1
    <3> QED BY <3>3, <3>4
  <2> QED BY <2>1, <2>2
<1> QED BY <1>3, <1>4, <1>5 DEF Chain

(* In nd2 the nodes before and after n are linked to each other. *)
TakingOut(nd, nd2, F, n) ==
  \A m \in F \ {n} :
    /\ nd2[m].child = IF m = nd[n].parent THEN nd[n].child ELSE nd[m].child
    /\ nd2[m].parent = IF m = nd[n].child THEN nd[n].parent ELSE nd[m].parent

(* A node is taken out of the list, the rest goes on (trim_excess_nodes). *)
LEMMA ChainTakeOut ==
  ASSUME NEW nd, NEW F, NEW first, Chain(nd, F, first), NEW n \in F,
         NEW nd2, TakingOut(nd, nd2, F, n)
  PROVE  Chain(nd2, F \ {n}, IF n = first THEN nd[n].parent ELSE first)
<1> USE DEF TakingOut
<1> DEFINE after == nd[n].parent
           before == nd[n].child
           head == IF n = first THEN after ELSE first
<1>1. /\ F \subseteq Nids /\ NIL \notin F /\ first \in F /\ first # NIL /\ nd[first].child = NIL
      /\ \A m \in F : nd[m].parent # NIL => nd[m].parent \in F /\ nd[nd[m].parent].child = m
  BY DEF Chain, Headed, TwoWay
<1>2. CASE n = first
  <2>1. before = NIL
    BY <1>1, <1>2
  <2>2. \A m \in F \ {n} : nd2[m].parent = nd[m].parent
                           /\ nd2[m].child = IF m = nd[n].parent THEN NIL ELSE nd[m].child
    BY <1>1, <2>1
  <2> QED BY <1>1, <1>2, <2>2, ChainPop
<1>3. CASE n # first
  <2>1. before \in F \ {n} /\ nd[before].parent = n
    BY <1>3, ChainEntry
  <2>2. \A m \in F : nd[m].parent = n => m = before
    BY <1>1
  <2>3. \A m \in F : nd[m].parent = after /\ after # NIL => m = n
    BY <1>1
  <2>4. after # before \/ after = NIL
    <3> SUFFICES ASSUME after = before, after # NIL PROVE FALSE
      OBVIOUS
    <3>1. {n, before} \in SUBSET F
      BY <2>1
    <3>2. CASE before = first
      BY <1>1, <3>2
    <3>3. CASE before # first
      <4>1. {n, before} \in SUBSET (F \ {first}) /\ {n, before} # {}
        BY <1>3, <2>1, <3>3
      <4>2. PICK m \in F \ {n, before} : nd[m].parent \in {n, before}
        BY <4>1 DEF Chain, Followed
      <4> QED BY <2>2, <2>3, <4>2
    <3> QED BY <3>2, <3>3
  <2>5. Headed(nd2, F \ {n}, first)
    <3>1. first # after
      BY <1>1
    <3> QED BY <1>1, <1>3, <3>1 DEF Headed
  <2>6. TwoWay(nd2, F \ {n})
    <3> SUFFICES ASSUME NEW m \in F \ {n}, nd2[m].parent # NIL
                 PROVE  nd2[m].parent \in F \ {n} /\ nd2[nd2[m].parent].child = m
      BY DEF TwoWay
    <3>1. CASE m = before
      <4>1. nd2[m].parent = after /\ after \in F
        BY <1>1, <3>1
      <4>2. after # n
        BY <2>1, <2>2
      <4> QED BY <3>1, <4>1, <4>2
    <3>2. CASE m # before
      <4>1. nd2[m].parent = nd[m].parent /\ nd[m].parent \in F /\ nd[nd[m].parent].child = m
        BY <1>1, <3>2
      <4>2. nd[m].parent # n /\ nd[m].parent # after
        BY <2>2, <2>3, <3>2, <4>1
      <4> QED BY <4>1, <4>2
    <3> QED BY <3>1, <3>2
  <2>7. Followed(nd2, F \ {n}, first)
    <3> SUFFICES ASSUME NEW S \in SUBSET ((F \ {n}) \ {first}), S # {}
                 PROVE  \E m \in (F \ {n}) \ S : nd2[m].parent \in S
      BY DEF Followed
    <3>1. S \in SUBSET (F \ {first}) /\ S \cup {n} \in SUBSET (F \ {first})
      BY <1>3
    <3>2. PICK m \in F \ S : nd[m].parent \in S
      BY <3>1 DEF Chain, Followed
    <3>3. CASE m # n
      <4>1. m # before
        BY <2>1, <3>2
      <4> QED BY <3>2, <3>3, <4>1
    <3>4. CASE m = n /\ before \notin S
      BY <2>1, <3>2, <3>4
    <3>5. CASE m = n /\ before \in S
      <4>1. PICK q \in F \ (S \cup {n}) : nd[q].parent \in S \cup {n}
        BY <3>1 DEF Chain, Followed
      <4>2. q # before
        BY <3>5, <4>1
      <4>3. nd[q].parent # n
        BY <2>2, <4>1, <4>2
      <4> QED BY <4>1, <4>2, <4>3
    <3> QED BY <3>3, <3>4, <3>5
  <2> QED BY <1>3, <2>5, <2>6, <2>7 DEF Chain
<1> QED BY <1>2, <1>3

(* In nd2 the nodes from s to e come first. *)
Moving(nd, nd2, F, first, s, e) ==
  /\ \A m \in F : nd2[m].child = IF m = s THEN NIL ELSE IF m = first THEN e
                                  ELSE IF m = nd[e].parent THEN nd[s].child ELSE nd[m].child
  /\ \A m \in F : nd2[m].parent = IF m = e THEN first ELSE IF m = nd[s].child THEN nd[e].parent
                                   ELSE nd[m].parent

(***************************************************************************)
(* A run of nodes that follow each other is moved to the head of the list   *)
(* (_TreeStartConglomerate).                                                *)
(***************************************************************************)
LEMMA ChainMove ==
  ASSUME NEW nd, NEW F, NEW first, Chain(nd, F, first), NEW s \in Nat, NEW e \in Nat, s < e,
         s .. e \subseteq F, s # first, \A q \in s .. e - 1 : nd[q].parent = q + 1,
         NEW nd2, Moving(nd, nd2, F, first, s, e)
  PROVE  nd[s].child \in F \ (s .. e) /\ Chain(nd2, F, s)
<1> USE DEF Moving
<1> DEFINE run == s .. e
           before == nd[s].child
           after == nd[e].parent
<1>1. /\ F \subseteq Nids /\ NIL \notin F /\ first \in F /\ first # NIL /\ nd[first].child = NIL
      /\ \A m \in F : nd[m].parent # NIL => nd[m].parent \in F /\ nd[nd[m].parent].child = m
  <2>1. s \in F
    OBVIOUS
  <2> QED BY <2>1 DEF Chain, Headed, TwoWay
<1>2. before \in F /\ nd[before].parent = s /\ s \in run /\ e \in run
  <2>1. s \in F \ {first}
    OBVIOUS
  <2> QED BY <2>1, ChainEntry
<1>3. \A m \in run \ {s} : m - 1 \in run /\ nd[m - 1].parent = m
  OBVIOUS
<1>4. \A m \in F : nd[m].parent \in run \ {s} => m \in run
  <2> SUFFICES ASSUME NEW m \in F, nd[m].parent \in run \ {s} PROVE m \in run
    OBVIOUS
  <2>1. nd[m].parent - 1 \in run /\ nd[nd[m].parent - 1].parent = nd[m].parent
    BY <1>3
  <2>2. nd[nd[m].parent].child = m /\ nd[nd[m].parent].child = nd[m].parent - 1
    BY <1>1, <2>1
  <2> QED BY <2>1, <2>2
<1>5. first \notin run
  BY <1>1, <1>3
<1>6. \A m \in F : nd[m].parent = s => m = before
  BY <1>1, <1>2
<1>7. before \notin run
  <2>1. run \in SUBSET (F \ {first}) /\ run # {}
    BY <1>2, <1>5
  <2>2. PICK m \in F \ run : nd[m].parent \in run
    BY <2>1 DEF Chain, Followed
  <2>3. m = before
    BY <1>4, <1>6, <2>2
  <2> QED BY <2>2, <2>3
<1>8. \A m \in run \ {e} : nd[m].parent = m + 1 /\ m + 1 \in run
  OBVIOUS
<1>9. \A m \in F : nd[m].parent = after /\ after # NIL => m = e
  BY <1>1, <1>2
<1>10. after \notin run
  <2> SUFFICES ASSUME after \in run PROVE FALSE
    OBVIOUS
  <2>1. CASE after = s
    BY <1>2, <1>6, <1>7, <2>1
  <2>2. CASE after # s
    <3>1. after - 1 \in run /\ nd[after - 1].parent = after /\ after - 1 \in F /\ after # NIL
      BY <1>1, <1>3, <2>2
    <3>2. after - 1 = e
      BY <1>9, <3>1
    <3> QED BY <2>2, <3>2
  <2> QED BY <2>1, <2>2
<1> HIDE DEF run, before, after
<1>11. Headed(nd2, F, s)
  <2>1. s \in F /\ nd2[s].child = NIL /\ s # NIL
    BY <1>1, <1>2 DEF run
  <2> QED BY <1>1, <2>1 DEF Headed
<1>12. run \subseteq F /\ e # s /\ first # s /\ e \in F /\ s \in F
  BY <1>2 DEF run
<1>13. /\ \A m \in F : nd2[m].child = IF m = s THEN NIL ELSE IF m = first THEN e
                                      ELSE IF m = after THEN before ELSE nd[m].child
       /\ \A m \in F : nd2[m].parent = IF m = e THEN first ELSE IF m = before THEN after ELSE nd[m].parent
  BY DEF before, after
<1>14. nd[e].parent = after
  BY DEF after
<1>15. TwoWay(nd2, F)
  <2> SUFFICES ASSUME NEW m \in F, nd2[m].parent # NIL
               PROVE  nd2[m].parent \in F /\ nd2[nd2[m].parent].child = m
    BY DEF TwoWay
  <2>1. CASE m = e
    BY <1>1, <1>12, <1>13, <2>1
  <2>2. CASE m = before /\ m # e
    <3>1. nd2[m].parent = after /\ after \in F /\ nd[after].child = e
      BY <1>1, <1>12, <1>13, <1>14, <2>2
    <3>2. after # s /\ after # first
      BY <1>1, <1>2, <1>10, <1>12, <3>1
    <3> QED BY <1>13, <2>2, <3>1, <3>2
  <2>3. CASE m # e /\ m # before
    <3>1. nd2[m].parent = nd[m].parent /\ nd[m].parent \in F /\ nd[nd[m].parent].child = m
      BY <1>1, <1>13, <2>3
    <3>2. nd[m].parent # s /\ nd[m].parent # first /\ nd[m].parent # after
      BY <1>1, <1>6, <1>9, <2>3, <3>1
    <3> QED BY <1>13, <3>1, <3>2
  <2> QED BY <2>1, <2>2, <2>3
<1>16. Followed(nd2, F, s)
  <2> SUFFICES ASSUME NEW S \in SUBSET (F \ {s}), S # {}
               PROVE  \E m \in F \ S : nd2[m].parent \in S
    BY DEF Followed
  <2>1. CASE S \cap run # {}
    <3>1. S \cap run \in SUBSET Nat
      BY DEF run
    <3>2. PICK q \in S \cap run : \A k \in S \cap run : q <= k
      BY <2>1, <3>1, LeastElement
    <3>3. q \in run \ {s}
      BY <3>2
    <3>4. q - 1 \in run /\ nd[q - 1].parent = q /\ q - 1 < q /\ q - 1 # e
      BY <1>3, <3>3 DEF run
    <3>5. q - 1 \notin S
      BY <3>2, <3>4 DEF run
    <3>6. nd2[q - 1].parent = q
      BY <1>7, <1>12, <1>13, <3>4
    <3> QED BY <1>12, <3>2, <3>4, <3>5, <3>6
  <2>2. CASE S \cap run = {} /\ first \in S
    BY <1>2, <1>12, <1>13, <2>2
  <2>3. CASE S \cap run = {} /\ first \notin S
    <3>1. S \in SUBSET (F \ {first}) /\ S \cup run \in SUBSET (F \ {first})
      BY <1>5, <1>12, <2>3
    <3>2. PICK m \in F \ S : nd[m].parent \in S
      BY <3>1 DEF Chain, Followed
    <3>3. CASE m \notin run
      <4>1. m # before /\ m # e
        BY <1>2, <2>3, <3>2, <3>3
      <4> QED BY <1>13, <3>2, <4>1
    <3>4. CASE m \in run
      <4>1. m = e
        BY <1>8, <2>3, <3>2, <3>4 DEF run
      <4>2. after \in S /\ before # e
        BY <1>2, <1>7, <1>14, <3>2, <4>1
      <4>3. CASE before \notin S
        BY <1>2, <1>13, <4>2, <4>3
      <4>4. CASE before \in S
        <5>1. PICK q \in F \ (S \cup run) : nd[q].parent \in S \cup run
          BY <3>1 DEF Chain, Followed
        <5>2. nd[q].parent \in S
          BY <1>4, <1>6, <4>4, <5>1
        <5>3. q # e /\ q # before
          BY <1>2, <4>4, <5>1
        <5> QED BY <1>13, <5>1, <5>2, <5>3
      <4> QED BY <4>3, <4>4
    <3> QED BY <3>3, <3>4
  <2> QED BY <2>1, <2>2, <2>3
<1> QED BY <1>2, <1>7, <1>11, <1>15, <1>16 DEF Chain, run, before

(* In nd2 the nodes of list come first, one after the other. *)
Prepending(nd, nd2, F, first, list, len) ==
  /\ \A i \in 1 .. len : /\ nd2[list[i]].parent = IF i = len THEN first ELSE list[i + 1]
                         /\ nd2[list[i]].child = IF i = 1 THEN NIL ELSE list[i - 1]
  /\ \A m \in F : /\ nd2[m].parent = nd[m].parent
                  /\ nd2[m].child = IF m = first THEN list[len] ELSE nd[m].child

(* Other nodes come before those of the list (_TreeDeleteNodesWrite). *)
LEMMA ChainPrepend ==
  ASSUME NEW nd, NEW F, NEW first, Chain(nd, F, first), NEW len \in Nat \ {0},
         NEW list, \A i \in 1 .. len : list[i] \in Nids \ F,
         \A i, j \in 1 .. len : list[i] = list[j] => i = j,
         NEW nd2, Prepending(nd, nd2, F, first, list, len)
  PROVE  Chain(nd2, F \cup {list[i] : i \in 1 .. len}, list[1])
<1> USE DEF Prepending
<1> DEFINE L == {list[i] : i \in 1 .. len}
<1>1. /\ F \subseteq Nids /\ NIL \notin F /\ (first = NIL => F = {})
      /\ (first # NIL => first \in F /\ nd[first].child = NIL)
      /\ \A n \in F : nd[n].parent # NIL => nd[n].parent \in F /\ nd[nd[n].parent].child = n
  BY DEF Chain, Headed, TwoWay
<1>2. 1 \in 1 .. len /\ len \in 1 .. len /\ NIL \notin Nids
  BY DEF Nids, NIL
<1>3. Headed(nd2, F \cup L, list[1])
  <2>1. F \cup L \subseteq Nids /\ NIL \notin F \cup L
    BY <1>1, <1>2
  <2>2. list[1] \in L /\ nd2[list[1]].child = NIL
    BY <1>2
  <2>3. list[1] # NIL
    BY <2>1, <2>2
  <2> QED BY <2>1, <2>2, <2>3 DEF Headed
<1>4. TwoWay(nd2, F \cup L)
  <2> SUFFICES ASSUME NEW n \in F \cup L, nd2[n].parent # NIL
               PROVE  nd2[n].parent \in F \cup L /\ nd2[nd2[n].parent].child = n
    BY DEF TwoWay
  <2>1. CASE n \in F
    <3>1. nd2[n].parent \in F /\ nd2[n].parent # first /\ nd[nd2[n].parent].child = n
      BY <1>1, <2>1
    <3> QED BY <3>1
  <2>2. CASE n \in L
    <3>1. PICK i \in 1 .. len : n = list[i]
      BY <2>2
    <3>2. CASE i = len
      BY <1>1, <3>1, <3>2
    <3>3. CASE i # len
      <4>1. i + 1 \in 1 .. len /\ i + 1 # 1 /\ (i + 1) - 1 = i
        BY <3>3
      <4>2. nd2[list[i + 1]].child = list[i]
        BY <4>1
      <4>3. nd2[n].parent = list[i + 1]
        BY <3>1, <3>3
      <4> QED BY <3>1, <4>1, <4>2, <4>3
    <3> QED BY <3>2, <3>3
  <2> QED BY <2>1, <2>2
<1>5. Followed(nd2, F \cup L, list[1])
  <2> SUFFICES ASSUME NEW S \in SUBSET ((F \cup L) \ {list[1]}), S # {}
               PROVE  \E m \in (F \cup L) \ S : nd2[m].parent \in S
    BY DEF Followed
  <2> DEFINE I == {i \in 1 .. len : list[i] \in S}
  <2>1. CASE I # {}
    <3>1. I \in SUBSET Nat
      OBVIOUS
    <3>2. PICK i \in I : \A k \in I : i <= k
      BY <2>1, <3>1, LeastElement
    <3>3. i - 1 \in 1 .. len /\ i - 1 \notin I /\ i - 1 # len /\ (i - 1) + 1 = i
      <4>1. i # 1
        BY <3>2
      <4> QED BY <3>2, <4>1
    <3>4. nd2[list[i - 1]].parent = list[i]
      BY <3>3
    <3> QED BY <3>2, <3>3, <3>4
  <2>2. CASE I = {} /\ first \in S
    BY <1>2, <2>2
  <2>3. CASE I = {} /\ first \notin S
    <3>1. S \in SUBSET (F \ {first})
      BY <2>3
    <3>2. PICK m \in F \ S : nd[m].parent \in S
      BY <3>1 DEF Chain, Followed
    <3> QED BY <3>2
  <2> QED BY <2>1, <2>2, <2>3
<1> QED BY <1>3, <1>4, <1>5 DEF Chain

(***************************************************************************)
(* Of any nodes of the list one comes first: all of them are in the list    *)
(* that starts with it.                                                     *)
(***************************************************************************)
LEMMA ChainFirst ==
  ASSUME NEW nd \in [Nids -> Node], NEW F, NEW first \in Links, Chain(nd, F, first),
         NEW S \in SUBSET F, S # {}
  PROVE  \E s \in S : S \subseteq FreeList(nd, s)
<1> DEFINE U == {u \in F : S \subseteq FreeList(nd, u)}
<1>1. first \in F /\ F \in SUBSET Nids /\ FreeList(nd, first) = F /\ NIL \notin F
  BY ChainReach DEF Chain, Headed
<1>2. U \in SUBSET F /\ first \in U
  BY <1>1
<1>3. PICK u \in U : nd[u].parent \notin U
  BY <1>2, ChainLast
<1>4. u \in Nids /\ nd[u].parent \in F \cup {NIL}
  BY <1>1 DEF Chain, TwoWay
<1>5. CASE nd[u].parent = NIL
  <2>1. {u} \in SUBSET Nids /\ u # NIL /\ u \in Links
    BY <1>1, <1>4 DEF Links
  <2>2. FreeList(nd, u) \subseteq {u}
    BY <1>5, <2>1, FreeListFacts
  <2> QED BY <2>2
<1>6. CASE nd[u].parent \in F
  <2> DEFINE p == nd[u].parent
             P == FreeList(nd, p)
  <2>1. p \in Links /\ u \in Links /\ p # NIL
    BY <1>1, <1>4, <1>6 DEF Links
  <2>2. p \in P /\ P \subseteq Nids /\ \A m \in P : nd[m].parent # NIL => nd[m].parent \in P
    BY <2>1, FreeListFacts
  <2>3. {u} \cup P \in SUBSET Nids /\ \A m \in {u} \cup P : nd[m].parent # NIL => nd[m].parent \in {u} \cup P
    BY <1>4, <2>2
  <2> HIDE DEF P
  <2>4. FreeList(nd, u) \subseteq {u} \cup P
    BY <2>1, <2>3, FreeListFacts
  <2>5. ~(S \subseteq P)
    BY <1>3, <1>6 DEF P
  <2> QED BY <1>3, <2>4, <2>5
<1> QED BY <1>4, <1>5, <1>6

-----------------------------------------------------------------------------
(* The operations on links. *)

(* In nd2 n is skipped by what led to it: its parent or one of the brothers. *)
SkippedBelow(nd, nd2, T, n) ==
  \E a \in T, f \in Fields :
    /\ Skips(nd, nd2, n, a, f)
    /\ IF f = "brother" THEN a \in Kids(nd, nd[n].parent) ELSE a = nd[n].parent

(* Unlink lets what leads to a node lead to its brother, if anything does. *)
LEMMA UnlinkFacts ==
  ASSUME NEW nd \in [Nids -> Node], NEW T \in SUBSET Nids, Leads(nd, T, {}), NEW n \in T,
         nd[n].parent \in T
  PROVE  \/ Unlink(nd, n) = nd /\ n \notin Kids(nd, nd[n].parent)
         \/ SkippedBelow(nd, Unlink(nd, n), T, n)
<1> DEFINE p == nd[n].parent
           field == IF n \in Brothers(nd, nd[p].child) THEN "child" ELSE "member"
           list == Brothers(nd, nd[p][field])
           q == CHOOSE m \in list : nd[m].brother = n
<1>1. field \in {"child", "member"} /\ field \in Fields
  BY DEF Fields
<1>2. list \subseteq Kids(nd, p)
  BY DEF Kids
<1>3. Unlink(nd, n) = IF n \notin list THEN nd
                      ELSE IF nd[p][field] = n THEN [nd EXCEPT ![p][field] = nd[n].brother]
                      ELSE [nd EXCEPT ![q].brother = nd[n].brother]
  BY DEF Unlink
<1>4. CASE n \notin list
  <2>1. n \notin Kids(nd, p)
    BY <1>4 DEF Kids
  <2> QED BY <1>3, <1>4, <2>1
<1>5. CASE n \in list /\ nd[p][field] = n
  <2>1. field # "brother"
    BY <1>1
  <2> HIDE DEF field, list, q
  <2>2. p \in Nids /\ n \in Nids /\ nd[p][field] = n /\ Unlink(nd, n) = [nd EXCEPT ![p][field] = nd[n].brother]
    BY <1>3, <1>5
  <2>3. Skips(nd, Unlink(nd, n), n, p, field)
    BY <1>1, <2>2, SkipsFacts
  <2> QED BY <1>1, <2>1, <2>3 DEF SkippedBelow
<1>6. CASE n \in list /\ nd[p][field] # n
  <2>1. nd[p][field] \in Links
    BY <1>1, LinkTypes
  <2>2. \E m \in list : nd[m].brother = n
    BY <1>6, <2>1, BrothersFacts
  <2>3. q \in list /\ nd[q].brother = n
    BY <2>2
  <2>4. list \subseteq T
    <3>1. nd[p][field] # NIL => nd[p][field] \in T
      BY <1>1 DEF Leads, Counts
    <3>2. \A m \in T : nd[m].brother # NIL => nd[m].brother \in T
      <4>1. \A m \in T : nd[m]["brother"] # NIL => nd[m]["brother"] \in T
        BY DEF Leads, Counts, Fields
      <4> QED BY <4>1
    <3> HIDE DEF field
    <3> QED BY <2>1, <3>1, <3>2, BrothersFacts
  <2>5. q \in T /\ q \in Kids(nd, p) /\ "brother" \in Fields
    BY <1>2, <2>3, <2>4 DEF Fields
  <2>6. Unlink(nd, n) = [nd EXCEPT ![q]["brother"] = nd[n].brother] /\ nd[q]["brother"] = n
    BY <1>3, <1>6, <2>3
  <2> HIDE DEF q
  <2>7. Skips(nd, Unlink(nd, n), n, q, "brother")
    <3>1. q \in Nids /\ n \in Nids
      BY <2>5
    <3> QED BY <2>5, <2>6, <3>1, SkipsFacts
  <2> QED BY <2>5, <2>7 DEF SkippedBelow
<1> QED BY <1>4, <1>5, <1>6

(* n with the parent p and a brother is what the link f of a leads to. *)
Put(nd, p, n, a, f) == [nd EXCEPT ![n].parent = p, ![n].brother = nd[a][f], ![a][f] = n]

(* The link is one of p or of one of its children and members. *)
PutBelow(nd, nd2, A, R, p, n) ==
  \E a \in A, f \in Fields :
    /\ Counts(R, a, f)
    /\ IF f = "brother" THEN a \in Kids(nd, p) ELSE a = p
    /\ nd2 = Put(nd, p, n, a, f)

(***************************************************************************)
(* Insert puts a node where a link of its parent, or of a child or member   *)
(* of that, leads.                                                          *)
(***************************************************************************)
LEMMA InsertFacts ==
  ASSUME NEW nd \in [Nids -> Node], NEW A, NEW R, NEW n \in A \ R, Forest(nd, A, R \cup {n}),
         NEW p \in A \ {n}, NEW field \in {"child", "member"}
  PROVE  PutBelow(nd, Insert(nd, field, p, n), A, R \cup {n}, p, n)
<1> USE DEF PutBelow
<1> DEFINE smaller(m) == m # NIL /\ (Sort => nd[m].name < nd[n].name)
           S == {m \in {nd[p][field]} : smaller(m)}
           more == [m \in Nids |-> {b \in {nd[m].brother} : smaller(b)}]
           passed == Closure(S, more)
           pre == CHOOSE m \in passed : nd[m].brother \notin passed
           linked == [nd EXCEPT ![n].parent = node_offset(p, n),
                                ![n].brother = IF passed = {} THEN nd[p][field] ELSE nd[pre].brother]
           Q == R \cup {n}
<1>1. Insert(nd, field, p, n) = IF passed = {} THEN [linked EXCEPT ![p][field] = node_offset(n, p)]
                                ELSE [linked EXCEPT ![pre].brother = n]
  BY DEF Insert
<1>2. node_offset(p, n) = p /\ node_offset(n, p) = n
  BY DEF node_offset
<1>3. A \subseteq Nids /\ field \in Fields /\ Counts(Q, p, field) /\ "brother" \in Fields /\ NIL \notin Nids
  BY DEF Forest, Fields, Counts, Nids, NIL
<1>4. CASE passed = {}
  <2>1. Insert(nd, field, p, n) = Put(nd, p, n, p, field)
    <3> HIDE DEF passed, pre
    <3> QED BY <1>1, <1>2, <1>4 DEF Put
  <2>2. field # "brother"
    OBVIOUS
  <2> QED BY <1>3, <2>1, <2>2
<1>5. CASE passed # {}
  <2> DEFINE list == Brothers(nd, nd[p][field])
  <2>1. S \in SUBSET Nids /\ more \in [Nids -> SUBSET Nids]
    <3>1. nd[p][field] \in Links /\ \A m \in Nids : nd[m].brother \in Links
      BY <1>3, LinkTypes DEF Node
    <3> QED BY <3>1 DEF Links
  <2>2. \A m \in Nids : more[m] = {b \in {nd[m].brother} : smaller(b)}
    OBVIOUS
  <2>3. list \subseteq Nids /\ (nd[p][field] # NIL => nd[p][field] \in list)
        /\ \A m \in list : nd[m].brother # NIL => nd[m].brother \in list
    BY <1>3, LinkTypes, BrothersFacts
  <2>4. list \subseteq Kids(nd, p)
    BY DEF Kids
  <2>5. S \subseteq list /\ \A m \in list : more[m] \subseteq list
    <3> HIDE DEF list
    <3>1. S \subseteq list
      BY <2>3
    <3>2. \A m \in list : more[m] \subseteq list
      BY <2>2, <2>3
    <3> QED BY <3>1, <3>2
  <2>6. passed \subseteq list /\ passed \subseteq Nids /\ \A m \in passed : more[m] \subseteq passed
    <3> HIDE DEF S, more, list
    <3> QED BY <2>1, <2>3, <2>5, ClosureFacts
  <2>7. S # {}
    <3> SUFFICES ASSUME S = {} PROVE FALSE
      OBVIOUS
    <3>1. {} \in SUBSET Nids /\ S \subseteq {} /\ \A m \in {} : more[m] \subseteq {}
      OBVIOUS
    <3>2. passed \subseteq {}
      <4> HIDE DEF S, more
      <4> QED BY <2>1, <3>1, ClosureFacts
    <3> QED BY <1>5, <3>2
  <2>8. nd[p][field] \in passed
    <3>1. nd[p][field] \in S
      BY <2>7
    <3> HIDE DEF S, more
    <3> QED BY <2>1, <3>1, ClosureFacts
  <2>9. Kids(nd, p) = {m \in A \ Q : nd[m].parent = p}
    BY Siblings
  <2>10. \A m \in passed : m \in A \ Q /\ Counts(Q, m, "brother")
    BY <2>4, <2>6, <2>9 DEF Counts
  <2>11. \E m \in passed : nd[m].brother \notin passed
    <3> SUFFICES ASSUME \A m \in passed : nd[m].brother \in passed PROVE FALSE
      OBVIOUS
    <3> HIDE DEF passed
    <3> DEFINE g == [m \in passed |-> nd[m].brother]
    <3>1. \A m \in passed : nd[m].brother # nd[p][field]
      <4> SUFFICES ASSUME NEW m \in passed, nd[m]["brother"] = nd[p][field] PROVE FALSE
        OBVIOUS
      <4>1. nd[m]["brother"] # NIL
        BY <1>3, <2>6
      <4>2. m \in A /\ Counts(Q, m, "brother") /\ Single(nd, A, Q)
        BY <2>10 DEF Forest
      <4>3. "brother" = field
        BY <1>3, <4>1, <4>2 DEF Single
      <4> QED BY <4>3
    <3>2. \A m, r \in passed : nd[m].brother = nd[r].brother => m = r
      <4> SUFFICES ASSUME NEW m \in passed, NEW r \in passed, nd[m]["brother"] = nd[r]["brother"] PROVE m = r
        OBVIOUS
      <4>1. nd[m]["brother"] # NIL
        BY <1>3, <2>6
      <4> QED BY <1>3, <2>10, <4>1 DEF Forest, Single
    <3>3. g \in [passed -> passed \ {nd[p][field]}]
      BY <3>1
    <3>4. \A m, r \in passed : g[m] = g[r] => m = r
      BY <3>2
    <3> HIDE DEF g
    <3> QED BY <2>6, <2>8, <3>3, <3>4, NoCircle
  <2>12. pre \in passed
    BY <2>11
  <2>13. pre \in A /\ Counts(Q, pre, "brother") /\ pre \in Kids(nd, p) /\ pre # n
    BY <2>4, <2>6, <2>10, <2>12
  <2>14. Insert(nd, field, p, n) = Put(nd, p, n, pre, "brother")
    <3> HIDE DEF passed, pre
    <3> QED BY <1>1, <1>2, <1>5 DEF Put
  <2> HIDE DEF pre
  <2> QED BY <1>3, <2>13, <2>14
<1> QED BY <1>4, <1>5

(* nd2 is nd with the tree of n below p. *)
Inserted(nd, nd2, A, R, n, p) ==
  /\ nd2 \in [Nids -> Node] /\ Forest(nd2, A, R) /\ nd2[n].parent = p
  /\ \A m \in Nids \ {n} : nd2[m].parent = nd[m].parent
  /\ \A m \in R : nd2[m].brother = nd[m].brother
  /\ \A m \in Nids : nd2[m].name = nd[m].name /\ nd2[m].usage = nd[m].usage
                     /\ nd2[m].elt = nd[m].elt
  /\ \A m \in Nids \ A : nd2[m] = nd[m]

(***************************************************************************)
(* A node that is put below p has p as its parent and, with the nodes D     *)
(* below it, is in the tree of p.                                           *)
(***************************************************************************)
LEMMA InsertForest ==
  ASSUME NEW nd \in [Nids -> Node], NEW A, NEW R, NEW n \in A \ R, Forest(nd, A, R \cup {n}),
         NEW p \in A, NEW field \in {"child", "member"}, NEW D, n \in D, p \notin D,
         \A m \in A \ (R \cup {n}) : m \in D <=> nd[m].parent \in D
  PROVE  Inserted(nd, Insert(nd, field, p, n), A, R, n, p)
<1> DEFINE nd2 == Insert(nd, field, p, n)
           Q == R \cup {n}
<1>1. A \subseteq Nids /\ p \in A \ {n} /\ R \subseteq A /\ "brother" \in Fields /\ NIL \notin Nids
  BY DEF Forest, Fields, Nids, NIL
<1>2. PICK a \in A, f \in Fields :
           /\ Counts(Q, a, f)
           /\ IF f = "brother" THEN a \in Kids(nd, p) ELSE a = p
           /\ nd2 = Put(nd, p, n, a, f)
  <2>1. PutBelow(nd, Insert(nd, field, p, n), A, R \cup {n}, p, n)
    BY <1>1, InsertFacts
  <2> QED BY <2>1 DEF PutBelow
<1>3. Kids(nd, p) = {m \in A \ Q : nd[m].parent = p}
  BY Siblings
<1>4. a # n
  BY <1>1, <1>2, <1>3
<1>5. f = "brother" => a \in A \ Q /\ nd[a].parent = p
  BY <1>2, <1>3
<1>6. IF f = "brother" THEN nd[a].parent = p ELSE a = p
  BY <1>2, <1>3
<1>7. /\ nd2 \in [Nids -> Node]
      /\ nd2[a][f] = n /\ nd2[n].brother = nd[a][f] /\ nd2[n].parent = p
      /\ \A b \in Nids, g \in Fields : ~(b = a /\ g = f) /\ ~(b = n /\ g = "brother")
           => nd2[b][g] = nd[b][g]
      /\ \A b \in Nids \ {n} : nd2[b].parent = nd[b].parent
      /\ \A m \in Nids : nd2[m].name = nd[m].name /\ nd2[m].usage = nd[m].usage
                         /\ nd2[m].elt = nd[m].elt
      /\ \A m \in Nids \ A : nd2[m] = nd[m]
  <2> DEFINE nd1 == [nd EXCEPT ![n].parent = p, ![n].brother = nd[a][f]]
  <2>1. nd[a][f] \in Links
    BY <1>1, LinkTypes
  <2>2. nd1 \in [Nids -> Node]
    BY <1>1, <2>1 DEF Node, Links
  <2>3. nd2 = [nd1 EXCEPT ![a][f] = n]
    BY <1>2 DEF Put
  <2>4. \A b \in Nids, g \in Fields : ~(b = n /\ g = "brother") => nd1[b][g] = nd[b][g]
    BY <1>1, <2>1 DEF Node, Links, Fields
  <2>5. /\ nd1[n].brother = nd[a][f] /\ nd1[n].parent = p
        /\ \A b \in Nids \ {n} : nd1[b].parent = nd[b].parent
        /\ \A m \in Nids : nd1[m].name = nd[m].name /\ nd1[m].usage = nd[m].usage
                           /\ nd1[m].elt = nd[m].elt
        /\ \A m \in Nids \ A : nd1[m] = nd[m]
    BY <1>1, <2>1 DEF Node, Links
  <2> HIDE DEF nd1, nd2
  <2>6. /\ nd2 \in [Nids -> Node]
        /\ \A b \in Nids, g \in Fields : nd2[b][g] = IF b = a /\ g = f THEN n ELSE nd1[b][g]
        /\ \A m \in Nids : nd2[m].parent = nd1[m].parent /\ nd2[m].name = nd1[m].name
             /\ nd2[m].usage = nd1[m].usage /\ nd2[m].elt = nd1[m].elt
        /\ \A m \in Nids \ A : nd2[m] = nd1[m]
    BY <1>1, <2>2, <2>3 DEF Node, Links, Fields
  <2>7. nd2[n]["brother"] = nd1[n]["brother"]
    BY <1>1, <1>4, <2>6
  <2> QED BY <1>1, <2>4, <2>5, <2>6, <2>7
<1> HIDE DEF nd2
<1>8. Counts(R, a, f)
  BY <1>2 DEF Counts
<1>9. a \notin D
  BY <1>5, <1>6
<1>10. Inside(nd, A, R \cup {n}, D)
  <2> SUFFICES ASSUME NEW d \in A \cap D, NEW g \in Fields, Counts(Q, d, g), nd[d][g] # NIL
               PROVE  nd[d][g] \in D
    BY DEF Inside
  <2>1. nd[d][g] \in A \ Q /\ nd[nd[d][g]].parent = IF g = "brother" THEN nd[d].parent ELSE d
    BY DEF Forest, Leads
  <2>2. g = "brother" => d \in A \ Q
    BY DEF Counts
  <2> QED BY <2>1, <2>2
<1>11. nd2[n].parent = IF f = "brother" THEN nd[a].parent ELSE a
  BY <1>6, <1>7
<1>12. \A b \in A, g \in Fields : Counts(R, b, g) /\ ~(b = a /\ g = f) /\ ~(b = n /\ g = "brother")
           => nd2[b][g] = nd[b][g]
  BY <1>1, <1>7
<1>13. \A b \in A \ {n} : nd2[b].parent = nd[b].parent
  BY <1>1, <1>7
<1>14. Forest(nd2, A, R)
  <2>1. Linking(nd, nd2, A, R, n, a, f)
    BY <1>7, <1>11, <1>12, <1>13 DEF Linking
  <2> QED BY <1>8, <1>9, <1>10, <2>1, LinkForest
<1>15. \A m \in R : nd2[m]["brother"] = nd[m]["brother"]
  BY <1>1, <1>5, <1>7
<1> QED BY <1>7, <1>14, <1>15 DEF nd2, Inserted

-----------------------------------------------------------------------------
(* The operations on the pool. *)

(* An array of nodes and a list F of some of them. *)
IsPool(pool, F) ==
  /\ pool.node \in [Nids -> Node] /\ pool.nodes \in 0 .. MAX_NODES /\ pool.free \in Links
  /\ F \subseteq 0 .. pool.nodes - 1 /\ Chain(pool.node, F, pool.free)

(* The parent of a node is replaced. *)
LEMMA NewParent ==
  ASSUME NEW r \in Node, NEW x \in Links
  PROVE  LET q == [r EXCEPT !.parent = x] IN
         q \in Node /\ q.parent = x /\ q.child = r.child /\ q.name = r.name /\ q.elt = r.elt
BY DEF Node

(* The child of a node is replaced. *)
LEMMA NewChild ==
  ASSUME NEW r \in Node, NEW x \in Links
  PROVE  LET q == [r EXCEPT !.child = x] IN
         q \in Node /\ q.child = x /\ q.parent = r.parent /\ q.name = r.name /\ q.elt = r.elt
BY DEF Node

(* A node that was never used. *)
LEMMA EmptyFacts ==
  EmptyNode \in Node /\ EmptyNode.name = EMPTY /\ EmptyNode.elt = 0
BY DEF EmptyNode, Node, Links, Usages

(* The nodes that TreeExpandNodes adds. *)
NewNodes(pool) == pool.nodes .. pool.nodes + EXTEND_NODES - 1

(* p has them in the list; the others, names and elements stay as they are. *)
Expanded(pool, F, p) ==
  LET new == NewNodes(pool) IN
  /\ IsPool(p, F \cup new) /\ p.nodes = pool.nodes + EXTEND_NODES
  /\ p.free = IF F = {} THEN pool.nodes ELSE pool.free
  /\ \A n \in Nids \ (F \cup new) : p.node[n] = pool.node[n]
  /\ \A n \in F : p.node[n].name = pool.node[n].name /\ p.node[n].elt = pool.node[n].elt
  /\ \A n \in new : p.node[n].name = EMPTY /\ p.node[n].elt = 0
  /\ \A n \in new : n + 1 \in new => p.node[n].parent = n + 1
  /\ new \subseteq Nids /\ new \cap F = {} /\ pool.nodes \in new

(* TreeExpandNodes hangs the new nodes behind the free ones. *)
LEMMA ExpandFacts ==
  ASSUME NEW pool, NEW F, IsPool(pool, F), pool.nodes + EXTEND_NODES <= MAX_NODES
  PROVE  Expanded(pool, F, TreeExpandNodes(pool))
<1> DEFINE p == TreeExpandNodes(pool)
           old == pool.nodes
           new == old .. old + EXTEND_NODES - 1
           list == FreeList(pool.node, pool.free)
           last == IF list = {} THEN NIL ELSE CHOOSE n \in list : pool.node[n].parent = NIL
<1>1. /\ pool.node \in [Nids -> Node] /\ old \in 0 .. MAX_NODES /\ pool.free \in Links
      /\ F \subseteq 0 .. old - 1 /\ Chain(pool.node, F, pool.free)
  BY DEF IsPool
<1>2. EXTEND_NODES \in Nat /\ EXTEND_NODES > 0 /\ MAX_NODES \in Nat /\ old \in Nat
  BY <1>1, TreeConstants
<1>3. list = F
  BY <1>1, ChainReach
<1>4. IF F = {} THEN last = NIL ELSE last \in F /\ pool.node[last].parent = NIL
  <2>1. CASE F = {}
    BY <1>3, <2>1
  <2>2. CASE F # {}
    <3>1. F \in SUBSET F /\ pool.free \in F /\ NIL \notin F
      BY <1>1, <2>2 DEF Chain, Headed
    <3>2. PICK m \in F : pool.node[m].parent \notin F
      BY <1>1, <3>1, ChainLast
    <3>3. pool.node[m].parent = NIL
      BY <1>1, <3>2 DEF Chain, TwoWay
    <3>4. \E n \in list : pool.node[n].parent = NIL
      BY <1>3, <3>3
    <3>5. last = CHOOSE n \in list : pool.node[n].parent = NIL
      BY <1>3, <2>2
    <3>6. last \in list /\ pool.node[last].parent = NIL
      <4> HIDE DEF list, last
      <4> QED BY <3>4, <3>5
    <3> QED BY <1>3, <2>2, <3>6
  <2> QED BY <2>1, <2>2
<1>5. new \subseteq Nids /\ new \cap F = {} /\ old \in new /\ NIL \notin Nids /\ F \subseteq Nids
  BY <1>1, <1>2 DEF Nids, NIL
<1>6. /\ p.nodes = old + EXTEND_NODES /\ p.free = IF last = NIL THEN old ELSE pool.free
      /\ p.node = [n \in Nids |->
                  IF n \in new
                    THEN [EmptyNode EXCEPT
                            !.parent = IF n + 1 \in new THEN n + 1 ELSE NIL,
                            !.child = IF n = old THEN last ELSE n - 1]
                    ELSE IF n = last THEN [pool.node[n] EXCEPT !.parent = old]
                    ELSE pool.node[n]]
  <2> HIDE DEF last
  <2> QED BY DEF TreeExpandNodes, last
<1> HIDE DEF p, last, list
<1>7. last = NIL <=> F = {}
  BY <1>4, <1>5
<1>8. \A n \in new : /\ p.node[n] \in Node
                     /\ p.node[n].parent = (IF n + 1 \in new THEN n + 1 ELSE NIL)
                     /\ p.node[n].child = (IF n = old THEN last ELSE n - 1)
                     /\ p.node[n].name = EMPTY /\ p.node[n].elt = 0
  <2> SUFFICES ASSUME NEW n \in new
               PROVE  /\ p.node[n] \in Node
                      /\ p.node[n].parent = (IF n + 1 \in new THEN n + 1 ELSE NIL)
                      /\ p.node[n].child = (IF n = old THEN last ELSE n - 1)
                      /\ p.node[n].name = EMPTY /\ p.node[n].elt = 0
    OBVIOUS
  <2> DEFINE x == IF n + 1 \in new THEN n + 1 ELSE NIL
             y == IF n = old THEN last ELSE n - 1
  <2>1. x \in Links
    BY <1>5 DEF Links
  <2>2. y \in Links
    <3>1. n # old => n - 1 \in new
      BY <1>2
    <3>2. last \in Links
      BY <1>4, <1>5 DEF Links
    <3> QED BY <1>5, <3>1, <3>2 DEF Links
  <2>3. p.node[n] = [EmptyNode EXCEPT !.parent = x, !.child = y]
    <3> HIDE DEF new
    <3> QED BY <1>5, <1>6
  <2> HIDE DEF x, y
  <2>4. p.node[n] \in Node /\ p.node[n].parent = x /\ p.node[n].child = y /\ p.node[n].name = EMPTY
        /\ p.node[n].elt = 0
    BY <2>1, <2>2, <2>3, EmptyFacts DEF Node
  <2> QED BY <2>4 DEF x, y
<1>9. \A n \in Nids \ new : /\ p.node[n] \in Node
                   /\ p.node[n].name = pool.node[n].name /\ p.node[n].elt = pool.node[n].elt
                   /\ p.node[n].child = pool.node[n].child
                   /\ p.node[n].parent = IF n = last THEN old ELSE pool.node[n].parent
  <2> SUFFICES ASSUME NEW n \in Nids \ new
               PROVE  /\ p.node[n] \in Node
                   /\ p.node[n].name = pool.node[n].name /\ p.node[n].elt = pool.node[n].elt
                   /\ p.node[n].child = pool.node[n].child
                   /\ p.node[n].parent = IF n = last THEN old ELSE pool.node[n].parent
    OBVIOUS
  <2>1. p.node[n] = IF n = last THEN [pool.node[n] EXCEPT !.parent = old] ELSE pool.node[n]
    <3> HIDE DEF new
    <3> QED BY <1>6
  <2>2. pool.node[n] \in Node /\ old \in Links
    BY <1>1, <1>5 DEF Links
  <2> QED BY <2>1, <2>2, NewParent
<1>10. \A n \in Nids \ (F \cup new) : p.node[n] = pool.node[n]
  <2> HIDE DEF new
  <2> QED BY <1>4, <1>5, <1>6
<1>11. p.node \in [Nids -> Node]
  <2>1. p.node = [n \in Nids |-> p.node[n]]
    BY <1>6
  <2>2. \A n \in Nids : p.node[n] \in Node
    BY <1>8, <1>9
  <2> HIDE DEF new
  <2> QED BY <2>1, <2>2
<1>12. Chain(p.node, F \cup new, p.free)
  <2> DEFINE b == old + EXTEND_NODES - 1
  <2>1. b \in Nat /\ old <= b /\ old .. b = new
    BY <1>2
  <2>2. Growing(pool.node, p.node, F, last, old, b)
    <3>1. \A m \in new : m + 1 \in new <=> m # b
      BY <1>2
    <3>2. F \subseteq Nids \ new
      BY <1>5
    <3> HIDE DEF new, b
    <3> QED BY <1>4, <1>8, <1>9, <2>1, <3>1, <3>2 DEF Growing
  <2>3. old .. b \subseteq Nids \ F
    BY <1>5, <2>1
  <2> HIDE DEF b, new
  <2>4. Chain(p.node, F \cup (old .. b), IF last = NIL THEN old ELSE pool.free)
    BY <1>1, <1>2, <2>1, <2>2, <2>3, ChainGrow
  <2> QED BY <1>6, <2>1, <2>4
<1>13. p.free \in Links /\ p.nodes \in 0 .. MAX_NODES /\ F \cup new \subseteq 0 .. p.nodes - 1
  <2>1. p.free \in Links
    BY <1>1, <1>5, <1>6 DEF Links
  <2>0. p.nodes = old + EXTEND_NODES /\ old + EXTEND_NODES <= MAX_NODES
    BY <1>6
  <2>2. p.nodes \in 0 .. MAX_NODES
    BY <1>2, <2>0
  <2>3. F \cup new \subseteq 0 .. p.nodes - 1
    <3>1. F \subseteq 0 .. p.nodes - 1
      BY <1>1, <1>2, <2>0
    <3>2. new \subseteq 0 .. p.nodes - 1
      BY <1>2, <2>0
    <3> QED BY <3>1, <3>2
  <2> QED BY <2>1, <2>2, <2>3
<1>14. IsPool(p, F \cup new)
  BY <1>11, <1>12, <1>13 DEF IsPool
<1>15. \A n \in new : n + 1 \in new => p.node[n].parent = n + 1
  BY <1>8
<1>16. p.free = IF F = {} THEN pool.nodes ELSE pool.free
  BY <1>6, <1>7
<1> HIDE DEF new
<1> QED BY <1>5, <1>6, <1>8, <1>9, <1>10, <1>14, <1>15, <1>16 DEF p, new, NewNodes, Expanded

(* The free nodes that are there when one is taken. *)
Offered(pool, F) == IF F = {} THEN NewNodes(pool) ELSE F

(* r is the node that is taken, without its links, and the pool without it. *)
Taken(pool, F, r) ==
  LET G == Offered(pool, F) IN
  /\ r.nid = IF F = {} THEN pool.nodes ELSE pool.free
  /\ r.nid \in G /\ G \subseteq Nids /\ IsPool(r.pool, G \ {r.nid})
  /\ r.pool.nodes = IF F = {} THEN pool.nodes + EXTEND_NODES ELSE pool.nodes
  /\ r.pool.node[r.nid] = EmptyNode
  /\ \A n \in Nids \ G : r.pool.node[n] = pool.node[n]
  /\ F = {} => \A n \in G \ {r.nid} : r.pool.node[n].name = EMPTY /\ r.pool.node[n].elt = 0
  /\ F # {} => /\ r.pool.free = pool.node[pool.free].parent
               /\ \A n \in G \ {r.nid} : /\ r.pool.node[n].name = pool.node[n].name
                                         /\ r.pool.node[n].elt = pool.node[n].elt
                                         /\ r.pool.node[n].parent = pool.node[n].parent

(* TreeNewNode takes the first free node, or the first new one. *)
LEMMA NewNodeFacts ==
  ASSUME NEW pool, NEW F, IsPool(pool, F), F = {} => pool.nodes + EXTEND_NODES <= MAX_NODES
  PROVE  Taken(pool, F, TreeNewNode(pool))
<1> DEFINE p == IF pool.free = NIL THEN TreeExpandNodes(pool) ELSE pool
           r == TreeNewNode(pool)
           G == Offered(pool, F)
           n == p.free
           next == p.node[n].parent
<1>1. pool.free = NIL <=> F = {}
  BY DEF IsPool, Chain, Headed
<1>2. /\ IsPool(p, G) /\ p.nodes = (IF F = {} THEN pool.nodes + EXTEND_NODES ELSE pool.nodes)
      /\ p.free = (IF F = {} THEN pool.nodes ELSE pool.free)
      /\ \A m \in Nids \ G : p.node[m] = pool.node[m]
      /\ F = {} => \A m \in G : p.node[m].name = EMPTY /\ p.node[m].elt = 0
      /\ F # {} => p = pool /\ G = F
      /\ G \subseteq Nids /\ NIL \notin Nids /\ n \in G
  <2>1. CASE F = {}
    <3> DEFINE new == NewNodes(pool)
    <3>1. p = TreeExpandNodes(pool) /\ G = new /\ F \cup new = new
      BY <1>1, <2>1 DEF Offered
    <3> DEFINE q == TreeExpandNodes(pool)
    <3>2. /\ IsPool(q, F \cup new) /\ q.nodes = pool.nodes + EXTEND_NODES
          /\ q.free = IF F = {} THEN pool.nodes ELSE pool.free
          /\ \A m \in Nids \ (F \cup new) : q.node[m] = pool.node[m]
          /\ \A m \in new : q.node[m].name = EMPTY /\ q.node[m].elt = 0
          /\ new \subseteq Nids /\ new \cap F = {} /\ pool.nodes \in new
      <4>1. Expanded(pool, F, q)
        BY <2>1, ExpandFacts
      <4> HIDE DEF q
      <4> QED BY <4>1 DEF Expanded
    <3> HIDE DEF p, G, new, q
    <3>3. p = q
      BY <3>1 DEF q
    <3> QED BY <2>1, <3>1, <3>2, <3>3 DEF Nids, NIL
  <2>2. CASE F # {}
    <3>1. p = pool /\ G = F
      BY <1>1, <2>2 DEF Offered
    <3>2. F \subseteq Nids /\ pool.free \in F
      BY <1>1, <2>2 DEF IsPool, Chain, Headed
    <3>3. NIL \notin Nids
      BY DEF Nids, NIL
    <3> HIDE DEF p, G
    <3> QED BY <2>2, <3>1, <3>2, <3>3
  <2> QED BY <2>1, <2>2
<1>3. /\ r.nid = n /\ r.pool.nodes = p.nodes /\ r.pool.free = next
      /\ r.pool.node = [m \in Nids |-> IF m = n THEN EmptyNode
                                      ELSE IF m = next THEN [p.node[m] EXCEPT !.child = NIL]
                                      ELSE p.node[m]]
  <2> HIDE DEF p
  <2> QED BY DEF TreeNewNode, p
<1>4. /\ p.node \in [Nids -> Node] /\ p.nodes \in 0 .. MAX_NODES /\ p.free \in Links
      /\ G \subseteq 0 .. p.nodes - 1 /\ Chain(p.node, G, p.free) /\ NIL \in Links
  BY <1>2 DEF IsPool, Links
<1> HIDE DEF p, r, G
<1>5. \A m \in Nids \ {n} : r.pool.node[m] = IF m = next THEN [p.node[m] EXCEPT !.child = NIL] ELSE p.node[m]
  BY <1>3
<1>6. \A m \in Nids \ {n} : /\ r.pool.node[m] \in Node
        /\ r.pool.node[m].name = p.node[m].name /\ r.pool.node[m].elt = p.node[m].elt
        /\ r.pool.node[m].parent = p.node[m].parent
        /\ r.pool.node[m].child = IF m = next THEN NIL ELSE p.node[m].child
  <2> SUFFICES ASSUME NEW m \in Nids \ {n}
               PROVE  /\ r.pool.node[m] \in Node
                      /\ r.pool.node[m].name = p.node[m].name /\ r.pool.node[m].elt = p.node[m].elt
                      /\ r.pool.node[m].parent = p.node[m].parent
                      /\ r.pool.node[m].child = IF m = next THEN NIL ELSE p.node[m].child
    OBVIOUS
  <2>1. p.node[m] \in Node
    BY <1>4
  <2> QED BY <1>4, <1>5, <2>1 DEF Node
<1>7. r.pool.node[n] = EmptyNode /\ n \in Nids
  BY <1>2, <1>3
<1>8. r.pool.node \in [Nids -> Node]
  <2>1. r.pool.node = [m \in Nids |-> r.pool.node[m]]
    BY <1>3
  <2>2. \A m \in Nids : r.pool.node[m] \in Node
    BY <1>6, <1>7, EmptyFacts
  <2> QED BY <2>1, <2>2
<1>9. n # NIL /\ next \in G \cup {NIL}
  BY <1>2, <1>4 DEF Chain, TwoWay
<1>10. Chain(r.pool.node, G \ {n}, next)
  <2>1. \A m \in G \ {n} : r.pool.node[m].parent = p.node[m].parent
                    /\ r.pool.node[m].child = IF m = p.node[n].parent THEN NIL ELSE p.node[m].child
    BY <1>2, <1>6
  <2> QED BY <1>4, <1>9, <2>1, ChainPop
<1>11. IsPool(r.pool, G \ {n})
  <2>1. next \in Links
    BY <1>2, <1>9 DEF Links
  <2> QED BY <1>3, <1>4, <1>8, <1>10, <2>1 DEF IsPool
<1>12. \A m \in Nids \ G : r.pool.node[m] = pool.node[m]
  BY <1>2, <1>5, <1>9
<1>13. F = {} => \A m \in G \ {n} : r.pool.node[m].name = EMPTY /\ r.pool.node[m].elt = 0
  BY <1>2, <1>6
<1>14. F # {} => /\ r.pool.free = pool.node[pool.free].parent
                 /\ \A m \in G \ {n} : /\ r.pool.node[m].name = pool.node[m].name
                                        /\ r.pool.node[m].elt = pool.node[m].elt
                                        /\ r.pool.node[m].parent = pool.node[m].parent
  BY <1>2, <1>3, <1>6
<1>15. r.nid = n /\ n = (IF F = {} THEN pool.nodes ELSE pool.free) /\ n \in G /\ G \subseteq Nids
       /\ r.pool.nodes = IF F = {} THEN pool.nodes + EXTEND_NODES ELSE pool.nodes
  BY <1>2, <1>3
<1>16. r.pool.node[r.nid] = EmptyNode /\ IsPool(r.pool, G \ {r.nid})
  BY <1>3, <1>7, <1>11
<1> HIDE DEF n, next
<1> QED BY <1>12, <1>13, <1>14, <1>15, <1>16 DEF r, G, Taken
================================================================================
