---------------------------- MODULE TreeEdit_proofs ----------------------------
(***************************************************************************)
(* What holds of a tree that is open for edit.                              *)
(***************************************************************************)
EXTENDS TreeEdit_lemmas

-----------------------------------------------------------------------------
(* The invariant. *)

(* The nodes that were deleted. *)
Gone(pool) == {n \in 0 .. pool.nodes - 1 : pool.node[n].name = DELETED}

(* A list depends on the links of its own nodes only. *)
LEMMA ChainSame ==
  ASSUME NEW nd, NEW nd2, NEW F, NEW first, Chain(nd, F, first),
         \A m \in F : nd2[m].parent = nd[m].parent /\ nd2[m].child = nd[m].child
  PROVE  Chain(nd2, F, first)
<1>1. Headed(nd2, F, first)
  BY DEF Chain, Headed
<1>2. TwoWay(nd2, F)
  BY DEF Chain, TwoWay
<1>3. Followed(nd2, F, first)
  BY DEF Chain, Followed
<1> QED BY <1>1, <1>2, <1>3 DEF Chain

(***************************************************************************)
(* The nodes of T are a tree and those of F are the list of the free ones;  *)
(* every other node was deleted.  What is in the tree has a name, and only  *)
(* that is an element of a conglomerate.                                    *)
(***************************************************************************)
Good(pool, T, F) ==
  /\ IsPool(pool, F)
  /\ Forest(pool.node, T, {Root})
  /\ pool.node[Root].brother = NIL /\ pool.node[Root].parent = NIL
  /\ pool.node[Root].name = EMPTY /\ pool.node[Root].elt = 0
  /\ T \cap F = {} /\ T \cup F \cup Gone(pool) = 0 .. pool.nodes - 1
  /\ \A n \in T \ {Root} : pool.node[n].name \in Names
  /\ \A n \in (0 .. pool.nodes - 1) \ T : pool.node[n].elt = 0

Listed(list, pool, F) ==
  /\ Elements(list) \subseteq Gone(pool) \ F
  /\ \A i, j \in DOMAIN list : list[i] = list[j] => i = j

Inv == TypeOK /\ Good(Pool, InTree, FreeNodes) /\ Listed(deleted_nid_list, Pool, FreeNodes)

(* The tree and the list of a good pool are those that the links lead through. *)
LEMMA GoodFacts ==
  ASSUME NEW pool, NEW T, NEW F, Good(pool, T, F)
  PROVE  /\ T = Closure({Root}, [n \in Nids |-> {pool.node[n].child, pool.node[n].member, pool.node[n].brother} \ {NIL}])
         /\ F = FreeList(pool.node, pool.free)
         /\ Root \in T /\ T \subseteq 0 .. pool.nodes - 1 /\ F \subseteq 0 .. pool.nodes - 1
         /\ T \subseteq Nids /\ F \subseteq Nids /\ T \cap Gone(pool) = {}
         /\ pool.nodes \in 1 .. MAX_NODES
<1>1. pool.node \in [Nids -> Node] /\ pool.free \in Links /\ pool.nodes \in 0 .. MAX_NODES
  BY DEF Good, IsPool
<1>2. Root \in T /\ T \subseteq Nids
  BY DEF Good, Forest
<1>3. Chain(pool.node, F, pool.free) /\ F \subseteq Nids
  BY DEF Good, IsPool, Chain, Headed
<1>4. F = FreeList(pool.node, pool.free)
  BY <1>1, <1>3, ChainReach
<1>5. T = Closure({Root}, [n \in Nids |-> {pool.node[n].child, pool.node[n].member, pool.node[n].brother} \ {NIL}])
  BY <1>1, ForestReach DEF Good
<1>6. T \subseteq 0 .. pool.nodes - 1 /\ F \subseteq 0 .. pool.nodes - 1
  BY DEF Good
<1>7. pool.nodes \in 1 .. MAX_NODES
  <2>1. 0 \in 0 .. pool.nodes - 1
    BY <1>2, <1>6 DEF Root
  <2> QED BY <1>1, <2>1, TreeConstants
<1>8. T \cap Gone(pool) = {}
  <2> SUFFICES ASSUME NEW n \in T, pool.node[n].name = DELETED PROVE FALSE
    BY DEF Gone
  <2>1. Names \subseteq Nat
    BY TreeConstants
  <2>2. pool.node[n].name = 0 \/ pool.node[n].name \in Names
    BY DEF Good, EMPTY
  <2> QED BY <2>1, <2>2 DEF DELETED
<1> QED BY <1>2, <1>3, <1>4, <1>5, <1>6, <1>7, <1>8

(* Nodes are numbered. *)
LEMMA NidsNat == Nids \subseteq Nat
<1>1. MAX_NODES \in Nat
  BY TreeConstants
<1> QED BY <1>1 DEF Nids

(* The nodes of a smaller array are among those of a larger one. *)
LEMMA Wider ==
  ASSUME NEW a \in Int, NEW b \in Int, a <= b
  PROVE  0 .. a - 1 \subseteq 0 .. b - 1
OBVIOUS

(* The same of the numbers up to its size. *)
LEMMA WiderTo ==
  ASSUME NEW a \in Nat, NEW b \in Nat, a <= b
  PROVE  0 .. a \subseteq 0 .. b /\ a \in 0 .. b /\ 0 .. a - 1 \subseteq 0 .. b - 1
OBVIOUS

(* What is found at a distance above a bound. *)
LEMMA Shifted ==
  ASSUME NEW a \in Nat, NEW b \in Nat, a <= b, NEW n \in Nat, n >= b
  PROVE  n - (b - a) \in 0 .. n
OBVIOUS

(* The tree and the list of an action are found as those of the new array. *)
LEMMA GoodNext ==
  ASSUME NEW T, NEW F, Good(Pool', T, F)
  PROVE  InTree' = T /\ FreeNodes' = F
<1>1. Pool'.node = node' /\ Pool'.free = free'
  BY DEF Pool
<1>2. T = Closure({Root}, [n \in Nids |-> {node'[n].child, node'[n].member, node'[n].brother} \ {NIL}])
      /\ F = FreeList(node', free')
  BY <1>1, GoodFacts
<1> QED BY <1>2 DEF InTree, FreeNodes

-----------------------------------------------------------------------------
(* A node is added. *)

(* A node of the list, or a new one, is below p. *)
Added(p, x, index) ==
  LET n == TreeNewNode(Pool).nid
      F == Offered(Pool, FreeNodes) \ {n}
  IN
  /\ n \in Nids \ InTree
  /\ n = IF FreeNodes = {} THEN nodes ELSE free
  /\ Good(Pool', InTree \cup {n}, F) /\ Listed(deleted_nid_list, Pool', F)
  /\ node'[n].parent = p /\ node'[n].name = x /\ node'[n].elt = index
  /\ \A m \in InTree : /\ node'[m].parent = node[m].parent /\ node'[m].name = node[m].name
                       /\ node'[m].elt = node[m].elt
  /\ FreeNodes # {} => /\ free' = node[free].parent
                       /\ \A m \in F : node'[m].parent = node[m].parent
  /\ nodes <= nodes'

(* A node that is added comes from the list and is in the tree. *)
LEMMA AddStep ==
  ASSUME Inv, NEW p \in InTree, NEW x \in Names, NEW usage \in Usages, NEW index \in Nat,
         Adds(p, x, usage, index)
  PROVE  Added(p, x, index)
<1> DEFINE new == TreeNewNode(Pool)
           n == new.nid
           F == FreeNodes
           G == Offered(Pool, F)
           T == InTree
           nd == new.pool.node
           named == [nd EXCEPT ![n].name = x, ![n].elt = index]
           field == IF usage = "any" THEN "member" ELSE "child"
           put == Insert(named, field, p, n)
<1>1. /\ Good(Pool, T, F) /\ Listed(deleted_nid_list, Pool, F) /\ IsPool(Pool, F)
      /\ Pool.node = node /\ Pool.nodes = nodes /\ Pool.free = free
  BY DEF Inv, Good, Pool
<1>2. F = {} => Pool.nodes + EXTEND_NODES <= MAX_NODES
  <2>1. F = {} => free = NIL
    BY <1>1 DEF IsPool, Chain, Headed
  <2> QED BY <1>1, <2>1 DEF Adds, CanExpand
<1>3. /\ n = IF F = {} THEN nodes ELSE free
      /\ n \in G /\ G \subseteq Nids /\ IsPool(new.pool, G \ {n})
      /\ new.pool.nodes = IF F = {} THEN nodes + EXTEND_NODES ELSE nodes
      /\ nd[n] = EmptyNode
      /\ \A m \in Nids \ G : nd[m] = node[m]
      /\ F = {} => \A m \in G \ {n} : nd[m].name = EMPTY /\ nd[m].elt = 0
      /\ F # {} => /\ new.pool.free = node[free].parent
                   /\ \A m \in G \ {n} : /\ nd[m].name = node[m].name /\ nd[m].elt = node[m].elt
                                         /\ nd[m].parent = node[m].parent
  <2>1. Taken(Pool, F, new)
    BY <1>1, <1>2, NewNodeFacts
  <2> HIDE DEF F, G, new
  <2> QED BY <1>1, <2>1 DEF Taken, G
<1>4. /\ T \subseteq Nids /\ T \subseteq 0 .. nodes - 1 /\ Root \in T /\ T \cap F = {} /\ F \subseteq 0 .. nodes - 1
      /\ nodes \in 1 .. MAX_NODES /\ T \cap Gone(Pool) = {}
  BY <1>1, GoodFacts DEF Good
<1>5. T \cap G = {} /\ (F # {} => G = F) /\ (F = {} => G = nodes .. nodes + EXTEND_NODES - 1)
  <2>1. F = {} => G = nodes .. nodes + EXTEND_NODES - 1
    BY <1>1 DEF Offered, NewNodes
  <2>2. F = {} => T \cap G = {}
    BY <1>4, <2>1, TreeConstants
  <2>3. F # {} => G = F
    BY DEF Offered
  <2> QED BY <1>4, <2>1, <2>2, <2>3
<1>6. nd \in [Nids -> Node] /\ Chain(nd, G \ {n}, new.pool.free) /\ new.pool.free \in Links
      /\ G \ {n} \subseteq 0 .. new.pool.nodes - 1 /\ new.pool.nodes \in 0 .. MAX_NODES
  BY <1>3 DEF IsPool
<1> HIDE DEF new, G, F, T
<1>7. n \in Nids /\ n \notin T
  BY <1>3, <1>5
<1>8. \A m \in T : nd[m] = node[m]
  BY <1>3, <1>4, <1>5
<1>9. Forest(nd, T, {Root})
  <2>1. Forest(node, T, {Root})
    BY <1>1 DEF Good
  <2> QED BY <1>8, <2>1, ForestSame
<1>10. Forest(nd, T \cup {n}, {Root} \cup {n})
  <2>1. nd[n].child = NIL /\ nd[n].member = NIL
    BY <1>3 DEF EmptyNode
  <2> QED BY <1>7, <1>9, <2>1, AddRoot
<1>11. /\ named \in [Nids -> Node] /\ named[n].name = x /\ named[n].elt = index
       /\ \A m \in Nids, f \in Fields : named[m][f] = nd[m][f]
       /\ \A m \in Nids : named[m].parent = nd[m].parent
       /\ \A m \in Nids \ {n} : named[m] = nd[m]
  <2> HIDE DEF nd
  <2> QED BY <1>6, <1>7 DEF Node, Fields
<1> HIDE DEF named
<1>12. Forest(named, T \cup {n}, {Root} \cup {n})
  <2> DEFINE A == T \cup {n}
             R == {Root} \cup {n}
  <2>1. A \subseteq Nids /\ Forest(nd, A, R)
    BY <1>4, <1>7, <1>10
  <2> HIDE DEF n, nd, A, R
  <2>2. \A a \in A, f \in Fields : Counts(R, a, f) => named[a][f] = nd[a][f]
    BY <1>11, <2>1
  <2>3. \A a \in A \ R : named[a].parent = nd[a].parent
    BY <1>11, <2>1
  <2>4. Forest(named, A, R)
    BY <2>1, <2>2, <2>3, ForestSame
  <2> QED BY <2>4 DEF A, R
<1>13. /\ put \in [Nids -> Node] /\ Forest(put, T \cup {n}, {Root}) /\ put[n].parent = p
       /\ \A m \in Nids \ {n} : put[m].parent = named[m].parent
       /\ put[Root].brother = named[Root].brother
       /\ \A m \in Nids : put[m].name = named[m].name /\ put[m].elt = named[m].elt
       /\ \A m \in Nids \ (T \cup {n}) : put[m] = named[m]
  <2>1. \A m \in (T \cup {n}) \ ({Root} \cup {n}) : m \in {n} <=> named[m].parent \in {n}
    <3> SUFFICES ASSUME NEW m \in T \ {Root} PROVE named[m].parent # n
      BY <1>7
    <3>1. nd[m].parent \in T
      BY <1>9, ForestParent
    <3> QED BY <1>4, <1>7, <1>11, <3>1
  <2>2. n \in (T \cup {n}) \ {Root} /\ p \in T \cup {n} /\ p \notin {n} /\ n \in {n}
    BY <1>4, <1>7 DEF T
  <2>3. field \in {"child", "member"}
    OBVIOUS
  <2> HIDE DEF field, n
  <2>4. Inserted(named, put, T \cup {n}, {Root}, n, p)
    BY <1>11, <1>12, <2>1, <2>2, <2>3, InsertForest
  <2> HIDE DEF put
  <2> QED BY <2>4 DEF Inserted
<1>14. node' = [put EXCEPT ![n].usage = usage] /\ nodes' = new.pool.nodes /\ free' = new.pool.free
  BY DEF Adds, new, put, field, named
<1> HIDE DEF put, nd, n
<1>15. /\ node' \in [Nids -> Node]
       /\ \A m \in Nids, f \in Fields : node'[m][f] = put[m][f]
       /\ \A m \in Nids : node'[m].parent = put[m].parent /\ node'[m].name = put[m].name
                          /\ node'[m].elt = put[m].elt
       /\ \A m \in Nids \ {n} : node'[m] = put[m]
  BY <1>7, <1>13, <1>14 DEF Node, Fields
<1>16. Forest(node', T \cup {n}, {Root})
  <2>1. T \cup {n} \subseteq Nids
    BY <1>4, <1>7
  <2> QED BY <1>13, <1>15, <2>1, ForestSame
<1>17. \A m \in G \ {n} : node'[m] = nd[m]
  BY <1>3, <1>5, <1>11, <1>13, <1>15
<1>18. Pool'.node = node' /\ Pool'.nodes = nodes' /\ Pool'.free = free'
  BY DEF Pool
<1>19. IsPool(Pool', G \ {n})
  <2>1. Chain(node', G \ {n}, free')
    BY <1>6, <1>14, <1>17, ChainSame
  <2> QED BY <1>6, <1>14, <1>15, <1>18, <2>1 DEF IsPool
<1>20. \A m \in T : /\ node'[m].parent = node[m].parent /\ node'[m].name = node[m].name
                    /\ node'[m].elt = node[m].elt
  <2> SUFFICES ASSUME NEW m \in T
               PROVE  /\ node'[m].parent = node[m].parent /\ node'[m].name = node[m].name
                      /\ node'[m].elt = node[m].elt
    OBVIOUS
  <2>1. m \in Nids /\ m # n
    BY <1>4, <1>7
  <2> QED BY <1>8, <1>11, <1>13, <1>15, <2>1
<1>21. node'[n].parent = p /\ node'[n].name = x /\ node'[n].elt = index
  BY <1>7, <1>11, <1>13, <1>15
<1>22. \A m \in Nids \ (T \cup G) : node'[m] = node[m]
  BY <1>3, <1>11, <1>13, <1>15
<1>23. nodes <= nodes' /\ nodes' \in 0 .. MAX_NODES /\ \A m \in 0 .. nodes' - 1 : m \in G \/ m \in 0 .. nodes - 1
  <2>1. CASE F = {}
    BY <1>3, <1>4, <1>5, <1>6, <1>14, <2>1, TreeConstants
  <2>2. CASE F # {}
    BY <1>3, <1>4, <1>6, <1>14, <2>2
  <2> QED BY <2>1, <2>2
<1>35. 0 .. nodes - 1 \subseteq 0 .. nodes' - 1
  <2>1. nodes \in Int /\ nodes' \in Int /\ nodes <= nodes'
    BY <1>4, <1>23, TreeConstants
  <2> QED BY <2>1, Wider
<1>24. \A m \in 0 .. nodes - 1 : m \in G => m \in F
  BY <1>4, <1>5, TreeConstants
<1>25. /\ node[Root].brother = NIL /\ node[Root].parent = NIL
       /\ node[Root].name = EMPTY /\ node[Root].elt = 0
       /\ T \cup F \cup Gone(Pool) = 0 .. nodes - 1
       /\ \A m \in T \ {Root} : node[m].name \in Names
       /\ \A m \in (0 .. nodes - 1) \ T : node[m].elt = 0
  BY <1>1 DEF Good
<1>26. node'[Root].brother = NIL /\ node'[Root].parent = NIL /\ node'[Root].name = EMPTY /\ node'[Root].elt = 0
  <2>1. Root \in Nids /\ Root # n /\ "brother" \in Fields
    BY <1>4, <1>7 DEF Fields
  <2>2. node'[Root]["brother"] = put[Root]["brother"] /\ put[Root]["brother"] = named[Root]["brother"]
    BY <1>13, <1>15, <2>1
  <2>3. named[Root]["brother"] = node[Root]["brother"]
    BY <1>4, <1>8, <1>11, <2>1
  <2> QED BY <1>4, <1>20, <1>25, <2>2, <2>3
<1>27. \A m \in (0 .. nodes - 1) \ (T \cup F) : node'[m] = node[m] /\ m \in Nids
  <2>1. 0 .. nodes - 1 \subseteq Nids
    BY <1>4, TreeConstants DEF Nids
  <2> QED BY <1>22, <1>24, <2>1
<1>28. (T \cup {n}) \cup (G \ {n}) \cup Gone(Pool') = 0 .. nodes' - 1
  <2>1. (T \cup {n}) \cup (G \ {n}) \cup Gone(Pool') \subseteq 0 .. nodes' - 1
    <3>1. T \subseteq 0 .. nodes' - 1
      BY <1>4, <1>35
    <3>2. n \in 0 .. nodes' - 1
      <4>1. CASE F = {}
        BY <1>3, <1>4, <1>5, <1>14, <4>1, TreeConstants
      <4>2. CASE F # {}
        BY <1>3, <1>4, <1>5, <1>35, <4>2
      <4> QED BY <4>1, <4>2
    <3>3. G \ {n} \subseteq 0 .. nodes' - 1 /\ Gone(Pool') \subseteq 0 .. nodes' - 1
      BY <1>6, <1>14, <1>18 DEF Gone
    <3> QED BY <3>1, <3>2, <3>3
  <2>2. ASSUME NEW m \in 0 .. nodes' - 1, m \notin T, m \notin G PROVE m \in Gone(Pool')
    <3>1. m \in 0 .. nodes - 1
      BY <1>23, <2>2
    <3>2. m \notin F
      BY <1>5, <2>2
    <3>3. node'[m] = node[m] /\ m \in Gone(Pool)
      BY <1>25, <1>27, <2>2, <3>1, <3>2
    <3> QED BY <1>1, <1>18, <3>3 DEF Gone
  <2> QED BY <2>1, <2>2
<1>29. \A m \in (T \cup {n}) \ {Root} : node'[m].name \in Names
  BY <1>20, <1>21, <1>25
<1>30. \A m \in (0 .. nodes' - 1) \ (T \cup {n}) : node'[m].elt = 0
  <2> SUFFICES ASSUME NEW m \in (0 .. nodes' - 1) \ (T \cup {n}) PROVE node'[m].elt = 0
    OBVIOUS
  <2>1. CASE m \in G
    <3>1. node'[m].elt = nd[m].elt
      BY <1>17, <2>1
    <3>2. F # {} => m \in 0 .. nodes - 1
      BY <1>4, <1>5, <2>1
    <3> QED BY <1>3, <1>25, <2>1, <3>1, <3>2
  <2>2. CASE m \notin G
    <3>1. m \in 0 .. nodes - 1 /\ m \notin F
      BY <1>5, <1>23, <2>2
    <3> QED BY <1>25, <1>27, <3>1
  <2> QED BY <2>1, <2>2
<1>31. (T \cup {n}) \cap (G \ {n}) = {}
  BY <1>5
<1>32. Good(Pool', T \cup {n}, G \ {n})
  BY <1>16, <1>18, <1>19, <1>26, <1>28, <1>29, <1>30, <1>31 DEF Good
<1>33. Listed(deleted_nid_list, Pool', G \ {n})
  <2>1. ASSUME NEW m \in Gone(Pool) \ F PROVE m \in Gone(Pool') \ (G \ {n})
    <3>1. m \in 0 .. nodes - 1 /\ m \notin T /\ node[m].name = DELETED
      BY <1>1, <1>4, <2>1 DEF Gone
    <3>2. node'[m].name = DELETED /\ m \in 0 .. nodes' - 1
      BY <1>27, <1>35, <2>1, <3>1
    <3>3. m \notin G
      BY <1>24, <2>1, <3>1
    <3> QED BY <1>18, <3>2, <3>3 DEF Gone
  <2> QED BY <1>1, <2>1 DEF Listed
<1>34. F # {} => free' = node[free].parent /\ \A m \in G \ {n} : node'[m].parent = node[m].parent
  BY <1>3, <1>14, <1>17
<1> QED BY <1>3, <1>7, <1>20, <1>21, <1>23, <1>32, <1>33, <1>34 DEF n, new, T, F, G, Added

-----------------------------------------------------------------------------
(* The tree is new. *)

(* Usages do not matter. *)
LEMMA GoodSame ==
  ASSUME NEW pool, NEW pool2, NEW T, NEW F, Good(pool, T, F), pool2.node \in [Nids -> Node],
         pool2.nodes = pool.nodes, pool2.free = pool.free,
         \A m \in Nids : /\ \A f \in Fields : pool2.node[m][f] = pool.node[m][f]
                         /\ pool2.node[m].parent = pool.node[m].parent
                         /\ pool2.node[m].name = pool.node[m].name
                         /\ pool2.node[m].elt = pool.node[m].elt
  PROVE  Good(pool2, T, F) /\ Gone(pool2) = Gone(pool)
<1> DEFINE nd == pool.node
           nd2 == pool2.node
<1>1. T \subseteq Nids /\ F \subseteq Nids /\ 0 .. pool.nodes - 1 \subseteq Nids /\ Root \in T
  <2>1. T \subseteq Nids /\ F \subseteq Nids /\ Root \in T /\ pool.nodes \in 1 .. MAX_NODES
    BY GoodFacts
  <2> QED BY <2>1, TreeConstants DEF Nids
<1>2. Gone(pool2) = Gone(pool)
  BY <1>1 DEF Gone
<1>3. Forest(nd2, T, {Root})
  <2>1. Forest(nd, T, {Root})
    BY DEF Good
  <2> QED BY <1>1, <2>1, ForestSame
<1>4. Chain(nd2, F, pool2.free)
  <2>1. Chain(nd, F, pool2.free)
    BY DEF Good, IsPool
  <2>2. \A m \in F : nd2[m].parent = nd[m].parent /\ nd2[m].child = nd[m].child
    BY <1>1 DEF Fields
  <2> QED BY <2>1, <2>2, ChainSame
<1>5. IsPool(pool2, F)
  BY <1>4 DEF Good, IsPool
<1>6. \A m \in Nids : nd2[m].brother = nd[m].brother
  BY DEF Fields
<1> QED BY <1>1, <1>2, <1>3, <1>5, <1>6 DEF Good

(* The types of a good pool. *)
LEMMA GoodType ==
  ASSUME NEW pool, NEW T, NEW F, Good(pool, T, F)
  PROVE  /\ pool.node \in [Nids -> Node] /\ pool.nodes \in 1 .. MAX_NODES
         /\ pool.free \in 0 .. pool.nodes - 1 \cup {NIL}
         /\ (pool.free = NIL <=> F = {}) /\ (F # {} => pool.free \in F)
<1>1. Chain(pool.node, F, pool.free) /\ F \subseteq 0 .. pool.nodes - 1 /\ pool.node \in [Nids -> Node]
  BY DEF Good, IsPool
<1>2. pool.nodes \in 1 .. MAX_NODES
  BY GoodFacts
<1> QED BY <1>1, <1>2 DEF Chain, Headed

(* In a new tree the root is used and the rest of the first nodes are free. *)
LEMMA InitGood ==
  ASSUME Init
  PROVE  /\ InTree = {Root} /\ Good(Pool, {Root}, FreeNodes)
         /\ node[Root].child = NIL /\ node[Root].member = NIL
<1> DEFINE none == [node |-> [n \in Nids |-> EmptyNode], nodes |-> 0, free |-> NIL]
           new == TreeNewNode(none)
           pool == new.pool
           G == NewNodes(none)
           F == G \ {Root}
<1>1. EXTEND_NODES \in Nat /\ MAX_NODES \in Nat /\ 2 <= EXTEND_NODES /\ EXTEND_NODES <= MAX_NODES
  BY TreeConstants
<1>2. IsPool(none, {})
  <2>1. none.node = [n \in Nids |-> EmptyNode] /\ none.nodes = 0 /\ none.free = NIL
    OBVIOUS
  <2>2. Chain(none.node, {}, none.free)
    BY <2>1 DEF Chain, Headed, TwoWay, Followed
  <2>3. none.node \in [Nids -> Node]
    BY <2>1, EmptyFacts
  <2> HIDE DEF none
  <2> QED BY <1>1, <2>1, <2>2, <2>3 DEF IsPool, Links
<1>3. /\ new.nid = Root /\ Root \in G /\ G \subseteq Nids /\ IsPool(pool, F)
      /\ pool.nodes = EXTEND_NODES /\ G = 0 .. EXTEND_NODES - 1
      /\ pool.node[Root] = EmptyNode
      /\ \A n \in F : pool.node[n].name = EMPTY /\ pool.node[n].elt = 0
  <2>1. none.nodes = 0
    OBVIOUS
  <2> HIDE DEF none
  <2>2. Taken(none, {}, new)
    BY <1>1, <1>2, <2>1, NewNodeFacts
  <2>3. Offered(none, {}) = G
    BY DEF Offered
  <2> HIDE DEF new
  <2>4. new.nid = 0 /\ 0 + EXTEND_NODES = EXTEND_NODES
    BY <1>1, <2>1, <2>2 DEF Taken
  <2>5. G = 0 .. EXTEND_NODES - 1
    BY <1>1, <2>1 DEF NewNodes
  <2> HIDE DEF G
  <2> QED BY <2>1, <2>2, <2>3, <2>4, <2>5 DEF Taken, Root
<1> HIDE DEF new, none, G
<1>4. Forest(pool.node, {Root}, {Root})
  <2>1. \A f \in Fields : pool.node[Root][f] = NIL
    BY <1>3 DEF EmptyNode, Fields
  <2>2. Leads(pool.node, {Root}, {Root}) /\ Single(pool.node, {Root}, {Root}) /\ Entered(pool.node, {Root}, {Root})
    BY <2>1 DEF Leads, Single, Entered
  <2> QED BY <1>3, <2>2 DEF Forest
<1>5. Good(pool, {Root}, F)
  <2>1. Gone(pool) = {}
    <3> SUFFICES ASSUME NEW m \in 0 .. EXTEND_NODES - 1 PROVE pool.node[m].name # DELETED
      BY <1>3 DEF Gone
    <3>1. pool.node[m].name = EMPTY
      BY <1>3, EmptyFacts
    <3> QED BY <3>1 DEF EMPTY, DELETED
  <2>2. {Root} \cup F = 0 .. pool.nodes - 1
    BY <1>3
  <2>3. pool.node[Root].brother = NIL /\ pool.node[Root].parent = NIL
        /\ pool.node[Root].name = EMPTY /\ pool.node[Root].elt = 0
    BY <1>3 DEF EmptyNode
  <2> QED BY <1>3, <1>4, <2>1, <2>2, <2>3 DEF Good
<1>6. node = [pool.node EXCEPT ![Root].usage = "subtree"] /\ nodes = pool.nodes /\ free = pool.free
  BY DEF Init, new, none
<1>7. pool.node \in [Nids -> Node] /\ Root \in Nids
  BY <1>3 DEF IsPool
<1>8. /\ node \in [Nids -> Node]
      /\ \A m \in Nids : /\ \A f \in Fields : node[m][f] = pool.node[m][f]
                         /\ node[m].parent = pool.node[m].parent
                         /\ node[m].name = pool.node[m].name
                         /\ node[m].elt = pool.node[m].elt
  <2> HIDE DEF pool
  <2>1. "subtree" \in Usages
    BY DEF Usages
  <2> QED BY <1>6, <1>7, <2>1 DEF Node, Fields
<1>9. Pool.node = node /\ Pool.nodes = nodes /\ Pool.free = free
  BY DEF Pool
<1>10. Good(Pool, {Root}, F)
  <2> HIDE DEF pool, F
  <2>1. /\ Pool.node \in [Nids -> Node] /\ Pool.nodes = pool.nodes /\ Pool.free = pool.free
        /\ \A m \in Nids : /\ \A f \in Fields : Pool.node[m][f] = pool.node[m][f]
                           /\ Pool.node[m].parent = pool.node[m].parent
                           /\ Pool.node[m].name = pool.node[m].name
                           /\ Pool.node[m].elt = pool.node[m].elt
    BY <1>6, <1>8, <1>9
  <2> QED BY <1>5, <2>1, GoodSame
<1>11. InTree = {Root} /\ FreeNodes = F
  BY <1>9, <1>10, GoodFacts DEF InTree, FreeNodes
<1>12. node[Root].child = NIL /\ node[Root].member = NIL
  BY <1>3, <1>7, <1>8 DEF EmptyNode, Fields
<1> QED BY <1>10, <1>11, <1>12

-----------------------------------------------------------------------------
(* A node is renamed. *)

(* The ancestors of a node are it and those of its parent. *)
LEMMA AncestorStep ==
  ASSUME node \in [Nids -> Node], NEW m \in Nids, node[m].parent \in Nids
  PROVE  /\ m \in Ancestors(m)
         /\ \A n \in Nids \ {m} : n \in Ancestors(m) <=> n \in Ancestors(node[m].parent)
<1> DEFINE more == [k \in Nids |-> {node[k].parent} \ {NIL}]
           q == node[m].parent
<1>1. more \in [Nids -> SUBSET Nids] /\ Ancestors(m) = Closure({m}, more) /\ Ancestors(q) = Closure({q}, more)
  BY DEF Node, Links, Ancestors
<1>2. more[m] = {q}
  BY DEF Nids, NIL
<1> HIDE DEF more
<1>3. /\ m \in Ancestors(m) /\ Ancestors(m) \subseteq Nids
      /\ \A k \in Ancestors(m) : more[k] \subseteq Ancestors(m)
      /\ \A X \in SUBSET Nids : {m} \subseteq X /\ (\A k \in X : more[k] \subseteq X) => Ancestors(m) \subseteq X
  <2> DEFINE S == {m}
  <2>1. S \in SUBSET Nids /\ Ancestors(m) = Closure(S, more)
    BY <1>1
  <2>3. more \in [Nids -> SUBSET Nids]
    BY <1>1
  <2> HIDE DEF S
  <2>2. /\ S \subseteq Ancestors(m) /\ Ancestors(m) \subseteq Nids
        /\ \A k \in Ancestors(m) : more[k] \subseteq Ancestors(m)
        /\ \A X \in SUBSET Nids : S \subseteq X /\ (\A k \in X : more[k] \subseteq X) => Ancestors(m) \subseteq X
    BY <2>3, <2>1, ClosureFacts
  <2> QED BY <2>2 DEF S
<1>4. /\ q \in Ancestors(q) /\ Ancestors(q) \subseteq Nids
      /\ \A k \in Ancestors(q) : more[k] \subseteq Ancestors(q)
      /\ \A X \in SUBSET Nids : {q} \subseteq X /\ (\A k \in X : more[k] \subseteq X) => Ancestors(q) \subseteq X
  <2> DEFINE S == {q}
  <2>1. S \in SUBSET Nids /\ Ancestors(q) = Closure(S, more)
    BY <1>1
  <2>3. more \in [Nids -> SUBSET Nids]
    BY <1>1
  <2> HIDE DEF S
  <2>2. /\ S \subseteq Ancestors(q) /\ Ancestors(q) \subseteq Nids
        /\ \A k \in Ancestors(q) : more[k] \subseteq Ancestors(q)
        /\ \A X \in SUBSET Nids : S \subseteq X /\ (\A k \in X : more[k] \subseteq X) => Ancestors(q) \subseteq X
    BY <2>3, <2>1, ClosureFacts
  <2> QED BY <2>2 DEF S
<1>5. Ancestors(q) \subseteq Ancestors(m)
  <2>1. q \in Ancestors(m)
    BY <1>2, <1>3
  <2> QED BY <1>3, <1>4, <2>1
<1>6. Ancestors(m) \subseteq {m} \cup Ancestors(q)
  <2> DEFINE X == {m} \cup Ancestors(q)
  <2>1. X \in SUBSET Nids /\ {m} \subseteq X /\ \A k \in X : more[k] \subseteq X
    BY <1>2, <1>4
  <2> HIDE DEF X
  <2>2. Ancestors(m) \subseteq X
    BY <1>3, <2>1
  <2> QED BY <2>2 DEF X
<1> QED BY <1>3, <1>5, <1>6

(* What leads to a node of the tree, at the root or below, is in the tree. *)
LEMMA GoodLeads ==
  ASSUME NEW pool, NEW T, NEW F, Good(pool, T, F)
  PROVE  /\ Leads(pool.node, T, {})
         /\ \A n \in T \ {Root} : pool.node[n].parent \in T
         /\ \A p \in T : Kids(pool.node, p) = {m \in T \ {Root} : pool.node[m].parent = p}
<1>1. Forest(pool.node, T, {Root}) /\ pool.node \in [Nids -> Node] /\ pool.node[Root].brother = NIL
  BY DEF Good, IsPool
<1>2. Leads(pool.node, T, {})
  BY <1>1 DEF Forest, Leads, Counts, Fields
<1> QED BY <1>1, <1>2, ForestParent, Siblings

(* A node without what led to it is a tree of its own. *)
Unlinked(nd, nd2, A, R, n) ==
  /\ nd2 \in [Nids -> Node] /\ Forest(nd2, A, R \cup {n})
  /\ \A m \in Nids : /\ nd2[m].parent = nd[m].parent /\ nd2[m].name = nd[m].name
                     /\ nd2[m].elt = nd[m].elt
  /\ \A m \in Nids \ A : nd2[m] = nd[m]
  /\ \A m \in R : nd2[m].brother = nd[m].brother

(* A node that is taken out of the list of its parent is a root. *)
LEMMA UnlinkedNode ==
  ASSUME NEW nd \in [Nids -> Node], NEW A, NEW R, Forest(nd, A, R), NEW T \in SUBSET Nids, A \subseteq T,
         Leads(nd, T, {}), NEW n \in A \ R, nd[n].parent \in A
  PROVE  Unlinked(nd, Unlink(nd, n), A, R, n)
<1> DEFINE p == nd[n].parent
           nd2 == Unlink(nd, n)
<1>1. Kids(nd, p) = {m \in A \ R : nd[m].parent = p} /\ A \subseteq Nids /\ R \subseteq A
  BY Siblings DEF Forest
<1>2. PICK a \in T, f \in Fields :
        Skips(nd, nd2, n, a, f) /\ IF f = "brother" THEN a \in Kids(nd, p) ELSE a = p
  <2>1. n \in Kids(nd, p) /\ n \in T /\ p \in T
    BY <1>1
  <2>2. SkippedBelow(nd, nd2, T, n)
    BY <2>1, UnlinkFacts
  <2> HIDE DEF nd2
  <2> QED BY <2>2 DEF SkippedBelow
<1> HIDE DEF nd2
<1>3. a \in A /\ Counts(R, a, f) /\ (f = "brother" => a \notin R)
  BY <1>1, <1>2 DEF Counts
<1>4. "brother" \in Fields
  BY DEF Fields
<1>5. Forest(nd2, A, R \cup {n})
  BY <1>2, <1>3, UnlinkForest
<1>6. \A m \in R : nd2[m]["brother"] = nd[m]["brother"]
  BY <1>1, <1>2, <1>3, <1>4 DEF Skips
<1>7. \A m \in Nids \ A : nd2[m] = nd[m]
  BY <1>2, <1>3 DEF Skips
<1> QED BY <1>2, <1>5, <1>6, <1>7 DEF nd2, Unlinked, Skips

(* The node has another place and another name. *)
Renamed(n, p, x) ==
  /\ Good(Pool', InTree, FreeNodes) /\ Gone(Pool') = Gone(Pool)
  /\ node'[n].parent = p /\ node'[n].name = x
  /\ \A m \in Nids \ {n} : node'[m].parent = node[m].parent /\ node'[m].name = node[m].name
  /\ \A m \in Nids : node'[m].elt = node[m].elt

(* A node that is moved stays in the tree, with all below it. *)
LEMMA RenameStep ==
  ASSUME Inv, NEW n \in InTree \ {Root}, NEW p \in InTree, NEW x \in Names, NEW is_child \in BOOLEAN,
         TreeRenameNode(n, p, x, is_child)
  PROVE  Renamed(n, p, x)
<1> DEFINE T == InTree
           F == FreeNodes
           cut == Unlink(node, n)
           named == [cut EXCEPT ![n].name = x]
           field == IF is_child THEN "child" ELSE "member"
           moved == Insert(named, field, p, n)
           D == {m \in T : n \in Ancestors(m)}
<1>1. /\ Good(Pool, T, F) /\ Pool.node = node /\ Pool.nodes = nodes /\ Pool.free = free
      /\ node \in [Nids -> Node] /\ Forest(node, T, {Root}) /\ Chain(node, F, free)
      /\ nodes \in 0 .. MAX_NODES /\ free \in Links /\ F \subseteq 0 .. nodes - 1
  BY DEF Inv, Good, IsPool, Pool
<1>2. /\ T \subseteq Nids /\ T \subseteq 0 .. nodes - 1 /\ F \subseteq Nids /\ Root \in T
      /\ T \cap Gone(Pool) = {}
  BY <1>1, GoodFacts
<1>3. Leads(node, T, {}) /\ \A m \in T \ {Root} : node[m].parent \in T
  BY <1>1, GoodLeads
<1> HIDE DEF T, F
<1>4. n \in T \ {Root} /\ p \in T
  BY DEF T
<1>5. Unlinked(node, cut, T, {Root}, n)
  <2>1. T \in SUBSET Nids /\ T \subseteq T /\ node[n].parent \in T
    BY <1>2, <1>3, <1>4
  <2> QED BY <1>1, <1>3, <1>4, <2>1, UnlinkedNode
<1> HIDE DEF cut
<1>6. /\ named \in [Nids -> Node] /\ named[n].name = x
      /\ \A m \in Nids, f \in Fields : named[m][f] = cut[m][f]
      /\ \A m \in Nids : named[m].parent = cut[m].parent /\ named[m].elt = cut[m].elt
      /\ \A m \in Nids \ {n} : named[m] = cut[m]
  BY <1>2, <1>4, <1>5 DEF Node, Fields, Unlinked
<1> HIDE DEF named
<1>7. Forest(named, T, {Root} \cup {n})
  <2> DEFINE R == {Root} \cup {n}
  <2>1. Forest(cut, T, R)
    BY <1>5 DEF Unlinked
  <2> HIDE DEF R
  <2>2. \A a \in T, f \in Fields : Counts(R, a, f) => named[a][f] = cut[a][f]
    BY <1>2, <1>6
  <2>3. \A a \in T \ R : named[a].parent = cut[a].parent
    BY <1>2, <1>6
  <2>4. Forest(named, T, R)
    BY <2>1, <2>2, <2>3, ForestSame
  <2> QED BY <2>4 DEF R
<1>8. n \in D /\ p \notin D
  <2>1. n \in Ancestors(n)
    BY <1>1, <1>2, <1>3, <1>4, AncestorStep
  <2> QED BY <1>4, <2>1 DEF TreeRenameNode
<1>9. \A m \in T \ ({Root} \cup {n}) : m \in D <=> named[m].parent \in D
  <2> SUFFICES ASSUME NEW m \in T \ ({Root} \cup {n}) PROVE m \in D <=> named[m].parent \in D
    OBVIOUS
  <2>1. named[m].parent = node[m].parent /\ node[m].parent \in T /\ m \in Nids /\ node[m].parent \in Nids
    BY <1>2, <1>3, <1>5, <1>6 DEF Unlinked
  <2>2. n \in Ancestors(m) <=> n \in Ancestors(node[m].parent)
    BY <1>1, <1>2, <1>4, <2>1, AncestorStep
  <2> QED BY <2>1, <2>2
<1> HIDE DEF D
<1>10. Inserted(named, moved, T, {Root}, n, p)
  <2>1. field \in {"child", "member"}
    OBVIOUS
  <2> HIDE DEF field
  <2> QED BY <1>4, <1>6, <1>7, <1>8, <1>9, <2>1, InsertForest
<1>11. node' = moved /\ nodes' = nodes /\ free' = free
  BY DEF TreeRenameNode, moved, named, cut, field, poolVars
<1> HIDE DEF moved
<1>12. /\ node' \in [Nids -> Node] /\ Forest(node', T, {Root})
       /\ node'[n].parent = p /\ node'[n].name = x
       /\ \A m \in Nids \ {n} : node'[m].parent = node[m].parent /\ node'[m].name = node[m].name
       /\ \A m \in Nids : node'[m].elt = node[m].elt
       /\ node'[Root].brother = node[Root].brother
       /\ \A m \in Nids \ T : node'[m] = node[m]
  <2>1. /\ moved \in [Nids -> Node] /\ Forest(moved, T, {Root}) /\ moved[n].parent = p
        /\ \A m \in Nids \ {n} : moved[m].parent = named[m].parent
        /\ moved[Root].brother = named[Root].brother
        /\ \A m \in Nids : moved[m].name = named[m].name /\ moved[m].elt = named[m].elt
        /\ \A m \in Nids \ T : moved[m] = named[m]
    BY <1>10 DEF Inserted
  <2>2. /\ \A m \in Nids : cut[m].parent = node[m].parent /\ cut[m].name = node[m].name
                           /\ cut[m].elt = node[m].elt
        /\ \A m \in Nids \ T : cut[m] = node[m]
        /\ cut[Root].brother = node[Root].brother
    BY <1>5 DEF Unlinked
  <2> QED BY <1>2, <1>4, <1>6, <1>11, <2>1, <2>2
<1>13. Pool'.node = node' /\ Pool'.nodes = nodes /\ Pool'.free = free
  BY <1>11 DEF Pool
<1>14. /\ T \cap F = {} /\ T \cup F \cup Gone(Pool) = 0 .. nodes - 1
       /\ node[Root].brother = NIL /\ node[Root].parent = NIL
       /\ node[Root].name = EMPTY /\ node[Root].elt = 0
       /\ \A m \in T \ {Root} : node[m].name \in Names
       /\ \A m \in (0 .. nodes - 1) \ T : node[m].elt = 0
  BY <1>1 DEF Good
<1>15. IsPool(Pool', F)
  <2>1. Chain(node', F, free)
    BY <1>1, <1>2, <1>12, <1>14, ChainSame
  <2> QED BY <1>1, <1>12, <1>13, <2>1 DEF IsPool
<1>16. 0 .. nodes - 1 \subseteq Nids /\ Root \in Nids
  BY <1>1, <1>2, TreeConstants DEF Nids
<1>17. Gone(Pool') = Gone(Pool)
  <2>1. \A m \in T : node'[m].name # DELETED
    <3> SUFFICES ASSUME NEW m \in T PROVE node'[m].name # DELETED
      OBVIOUS
    <3>1. m = Root \/ node'[m].name \in Names
      BY <1>2, <1>4, <1>12, <1>14
    <3>2. \A y \in Names : y # DELETED
      BY TreeConstants DEF DELETED
    <3>3. m = Root => node'[m].name = EMPTY
      BY <1>4, <1>12, <1>14, <1>16
    <3> QED BY <3>1, <3>2, <3>3 DEF EMPTY, DELETED
  <2>2. \A m \in (0 .. nodes - 1) \ T : node'[m] = node[m]
    BY <1>12, <1>16
  <2> QED BY <1>1, <1>2, <1>13, <2>1, <2>2 DEF Gone
<1>18. Good(Pool', T, F)
  <2>1. \A m \in T \ {Root} : node'[m].name \in Names
    BY <1>2, <1>4, <1>12, <1>14
  <2>2. \A m \in (0 .. nodes - 1) \ T : node'[m].elt = 0
    BY <1>12, <1>14, <1>16
  <2>3. /\ node'[Root].brother = NIL /\ node'[Root].parent = NIL
        /\ node'[Root].name = EMPTY /\ node'[Root].elt = 0
    BY <1>4, <1>12, <1>14, <1>16
  <2> QED BY <1>12, <1>13, <1>14, <1>15, <1>17, <2>1, <2>2, <2>3 DEF Good
<1> QED BY <1>12, <1>17, <1>18 DEF Renamed, T, F

-----------------------------------------------------------------------------
(* A conglomerate is started. *)

(* Nodes that follow each other are in the list with the first of them. *)
LEMMA RunInside ==
  ASSUME NEW nd, NEW F, NEW first, Chain(nd, F, first), NEW s \in F, NEW k \in Nat,
         \A i \in 0 .. k - 1 : nd[s + i].parent = s + i + 1
  PROVE  \A i \in 0 .. k : s + i \in F
<1> DEFINE S == {i \in 0 .. k : s + i \notin F}
<1>1. s \in Nat /\ F \subseteq Nat
  <2>1. F \subseteq Nids /\ Nids \subseteq Nat
    BY TreeConstants DEF Chain, Headed, Nids
  <2> QED BY <2>1
<1> SUFFICES ASSUME S # {} PROVE FALSE
  OBVIOUS
<1>2. S \in SUBSET Nat
  OBVIOUS
<1>3. PICK i \in S : \A j \in S : i <= j
  BY <1>2, LeastElement
<1>4. i # 0
  BY <1>1
<1>5. i - 1 \in 0 .. k /\ i - 1 \notin S
  BY <1>3, <1>4
<1>6. s + (i - 1) \in F /\ nd[s + (i - 1)].parent = s + (i - 1) + 1
  BY <1>4, <1>5
<1>7. s + (i - 1) + 1 = s + i /\ s + i # NIL
  BY <1>1 DEF NIL
<1> QED BY <1>6, <1>7 DEF Chain, TwoWay

(* nd2 is nd, but for the parent or the child of a. *)
ParentSet(nd, nd2, a, x) ==
  /\ nd2 \in [Nids -> Node]
  /\ \A m \in Nids : /\ m # a => nd2[m] = nd[m]
                     /\ nd2[m].parent = IF m = a THEN x ELSE nd[m].parent
                     /\ nd2[m].child = nd[m].child
                     /\ nd2[m].name = nd[m].name /\ nd2[m].elt = nd[m].elt

ChildSet(nd, nd2, a, x) ==
  /\ nd2 \in [Nids -> Node]
  /\ \A m \in Nids : /\ m # a => nd2[m] = nd[m]
                     /\ nd2[m].child = IF m = a THEN x ELSE nd[m].child
                     /\ nd2[m].parent = nd[m].parent
                     /\ nd2[m].name = nd[m].name /\ nd2[m].elt = nd[m].elt

(* One link of a free node is replaced. *)
LEMMA SetFacts ==
  ASSUME NEW nd \in [Nids -> Node], NEW a \in Nids, NEW x \in Links, NEW nd2
  PROVE  /\ nd2 = [nd EXCEPT ![a].parent = x] => ParentSet(nd, nd2, a, x)
         /\ nd2 = [nd EXCEPT ![a].child = x] => ChildSet(nd, nd2, a, x)
<1>1. ASSUME nd2 = [nd EXCEPT ![a].parent = x] PROVE ParentSet(nd, nd2, a, x)
  BY <1>1 DEF ParentSet, Node
<1>2. ASSUME nd2 = [nd EXCEPT ![a].child = x] PROVE ChildSet(nd, nd2, a, x)
  BY <1>2 DEF ChildSet, Node
<1> QED BY <1>1, <1>2

(* The nodes from s to e are the first ones of the list. *)
Moved(pool, F, p, s, e) ==
  /\ IsPool(p, F) /\ p.nodes = pool.nodes /\ p.free = s
  /\ \A m \in Nids : p.node[m].name = pool.node[m].name /\ p.node[m].elt = pool.node[m].elt
  /\ \A m \in Nids \ F : p.node[m] = pool.node[m]
  /\ \A q \in s .. e - 1 : p.node[q].parent = q + 1

(* The list is whole after a run is moved to its head. *)
LEMMA MoveFacts ==
  ASSUME NEW pool, NEW F, IsPool(pool, F), NEW s \in Nat, NEW e \in Nat, s < e,
         s .. e \subseteq F, s # pool.free, \A q \in s .. e - 1 : pool.node[q].parent = q + 1
  PROVE  Moved(pool, F, MoveRun(pool, s, e), s, e)
<1> DEFINE nd == pool.node
           first == pool.free
           before == nd[s].child
           after == nd[e].parent
           nd1 == [nd EXCEPT ![before].parent = after]
           nd2 == IF after = NIL THEN nd1 ELSE [nd1 EXCEPT ![after].child = before]
           nd3 == [nd2 EXCEPT ![e].parent = first]
           nd4 == [nd3 EXCEPT ![first].child = e]
           nd5 == [nd4 EXCEPT ![s].child = NIL]
           p == MoveRun(pool, s, e)
<1>1. /\ nd \in [Nids -> Node] /\ Chain(nd, F, first) /\ pool.nodes \in 0 .. MAX_NODES
      /\ F \subseteq 0 .. pool.nodes - 1 /\ first \in Links
  BY DEF IsPool
<1>2. F \subseteq Nids /\ NIL \notin F /\ s \in F /\ e \in F /\ NIL \in Links /\ Nids \subseteq Links
      /\ NIL \notin Nids
  BY <1>1 DEF Chain, Headed, Links, Nids, NIL
<1>3. first \in F
  BY <1>1, <1>2 DEF Chain, Headed
<1>4. after \in F \cup {NIL}
  BY <1>1, <1>2 DEF Chain, TwoWay
<1>5. before \in F \ {s}
  BY <1>1, <1>2, ChainEntry
<1>6. p.node = nd5 /\ p.nodes = pool.nodes /\ p.free = s
  BY DEF MoveRun
<1> HIDE DEF nd, first, before, after, p
<1>7. ParentSet(nd, nd1, before, after)
  BY <1>1, <1>2, <1>4, <1>5, SetFacts
<1> HIDE DEF nd1
<1>8. nd2 \in [Nids -> Node] /\ (after = NIL => nd2 = nd1) /\ (after # NIL => ChildSet(nd1, nd2, after, before))
  <2>1. nd1 \in [Nids -> Node]
    BY <1>7 DEF ParentSet
  <2>2. after # NIL => after \in Nids /\ nd2 = [nd1 EXCEPT ![after].child = before] /\ before \in Links
    BY <1>2, <1>4, <1>5
  <2>3. after # NIL => ChildSet(nd1, nd2, after, before)
    <3> HIDE DEF nd2
    <3> QED BY <2>1, <2>2, SetFacts
  <2> QED BY <2>1, <2>3 DEF ChildSet
<1> HIDE DEF nd2
<1>9. ParentSet(nd2, nd3, e, first)
  BY <1>1, <1>2, <1>8, SetFacts
<1> HIDE DEF nd3
<1>10. ChildSet(nd3, nd4, first, e)
  <2>1. nd3 \in [Nids -> Node]
    BY <1>9 DEF ParentSet
  <2> QED BY <1>2, <1>3, <2>1, SetFacts
<1> HIDE DEF nd4
<1>11. ChildSet(nd4, nd5, s, NIL)
  <2>1. nd4 \in [Nids -> Node]
    BY <1>10 DEF ChildSet
  <2> QED BY <1>2, <2>1, SetFacts
<1> HIDE DEF nd5
<1>12. nd5 \in [Nids -> Node] /\ \A m \in Nids : nd5[m].name = nd[m].name /\ nd5[m].elt = nd[m].elt
  BY <1>7, <1>8, <1>9, <1>10, <1>11 DEF ParentSet, ChildSet
<1>13. \A m \in Nids : nd5[m].child = IF m = s THEN NIL ELSE IF m = first THEN e
                                     ELSE IF m = after THEN before ELSE nd[m].child
  BY <1>2, <1>7, <1>8, <1>9, <1>10, <1>11 DEF ParentSet, ChildSet
<1>14. \A m \in Nids : nd5[m].parent = IF m = e THEN first ELSE IF m = before THEN after ELSE nd[m].parent
  BY <1>2, <1>7, <1>8, <1>9, <1>10, <1>11 DEF ParentSet, ChildSet
<1>15. \A m \in Nids \ F : nd5[m] = nd[m]
  BY <1>2, <1>3, <1>4, <1>5, <1>7, <1>8, <1>9, <1>10, <1>11 DEF ParentSet, ChildSet
<1>16. before \in F \ (s .. e) /\ Chain(nd5, F, s)
  <2>1. s # first /\ \A q \in s .. e - 1 : nd[q].parent = q + 1
    BY DEF nd, first
  <2>2. \A m \in F : nd5[m].child = IF m = s THEN NIL ELSE IF m = first THEN e
                                    ELSE IF m = nd[e].parent THEN nd[s].child ELSE nd[m].child
    BY <1>2, <1>13 DEF before, after
  <2>3. \A m \in F : nd5[m].parent = IF m = e THEN first ELSE IF m = nd[s].child THEN nd[e].parent
                                     ELSE nd[m].parent
    BY <1>2, <1>14 DEF before, after
  <2>4. Moving(nd, nd5, F, first, s, e)
    BY <2>2, <2>3 DEF Moving
  <2> QED BY <1>1, <2>1, <2>4, ChainMove DEF before
<1>17. \A q \in s .. e - 1 : nd5[q].parent = q + 1
  <2> SUFFICES ASSUME NEW q \in s .. e - 1 PROVE nd5[q].parent = q + 1
    OBVIOUS
  <2>1. q # e /\ q \in s .. e /\ nd[q].parent = q + 1
    BY DEF nd
  <2>2. q # before /\ q \in Nids
    BY <1>2, <1>16, <2>1
  <2> QED BY <1>14, <2>1, <2>2
<1>18. IsPool(p, F)
  BY <1>1, <1>2, <1>6, <1>12, <1>16 DEF IsPool
<1> QED BY <1>6, <1>12, <1>15, <1>17, <1>18 DEF Moved, p, nd

(* There are more nodes, all free; the list is another one. *)
Grown(pool, F, p, G) ==
  LET new == pool.nodes .. p.nodes - 1 IN
  /\ IsPool(p, G) /\ pool.nodes <= p.nodes /\ G = F \cup new
  /\ \A m \in Nids \ G : p.node[m] = pool.node[m]
  /\ \A m \in F : p.node[m].elt = pool.node[m].elt
  /\ \A m \in new : p.node[m].elt = 0

(* A pool stays good when free nodes are made or put in another order. *)
LEMMA GrownGood ==
  ASSUME NEW pool, NEW T, NEW F, Good(pool, T, F), NEW p, NEW G, Grown(pool, F, p, G)
  PROVE  /\ Good(p, T, G) /\ Gone(pool) \ F \subseteq Gone(p) \ G
         /\ \A m \in T : p.node[m] = pool.node[m]
<1> DEFINE new == pool.nodes .. p.nodes - 1
<1>1. /\ Root \in T /\ T \subseteq Nids /\ T \subseteq 0 .. pool.nodes - 1 /\ F \subseteq 0 .. pool.nodes - 1
      /\ pool.nodes \in 1 .. MAX_NODES /\ T \cap Gone(pool) = {}
  BY GoodFacts
<1>2. /\ IsPool(p, G) /\ pool.nodes <= p.nodes /\ G = F \cup new
      /\ \A m \in Nids \ G : p.node[m] = pool.node[m]
      /\ \A m \in F : p.node[m].elt = pool.node[m].elt
      /\ \A m \in new : p.node[m].elt = 0
  BY DEF Grown
<1>3. /\ Forest(pool.node, T, {Root})
      /\ pool.node[Root].brother = NIL /\ pool.node[Root].parent = NIL
      /\ pool.node[Root].name = EMPTY /\ pool.node[Root].elt = 0
      /\ T \cap F = {} /\ T \cup F \cup Gone(pool) = 0 .. pool.nodes - 1
      /\ \A n \in T \ {Root} : pool.node[n].name \in Names
      /\ \A n \in (0 .. pool.nodes - 1) \ T : pool.node[n].elt = 0
  BY DEF Good
<1>4. /\ pool.nodes \in Nat /\ p.nodes \in Nat /\ p.nodes <= MAX_NODES /\ p.node \in [Nids -> Node]
      /\ G \subseteq 0 .. p.nodes - 1 /\ MAX_NODES \in Nat
  BY <1>1, <1>2, TreeConstants DEF IsPool
<1>5. /\ 0 .. p.nodes - 1 = (0 .. pool.nodes - 1) \cup new /\ (0 .. pool.nodes - 1) \cap new = {}
      /\ 0 .. p.nodes - 1 \subseteq Nids
  BY <1>2, <1>4 DEF Nids
<1> HIDE DEF new
<1>6. \A m \in T : p.node[m] = pool.node[m] /\ m \notin G
  BY <1>1, <1>2, <1>3, <1>5
<1>7. Forest(p.node, T, {Root})
  BY <1>3, <1>6, ForestSame
<1>8. \A m \in (0 .. pool.nodes - 1) \ F : p.node[m] = pool.node[m]
  BY <1>2, <1>5
<1>9. Gone(pool) \ F \subseteq Gone(p) \ G
  BY <1>2, <1>5, <1>8 DEF Gone
<1>10. T \cup G \cup Gone(p) = 0 .. p.nodes - 1
  <2>1. Gone(p) \subseteq 0 .. p.nodes - 1
    BY DEF Gone
  <2> QED BY <1>1, <1>2, <1>3, <1>4, <1>5, <1>9, <2>1
<1>11. \A n \in (0 .. p.nodes - 1) \ T : p.node[n].elt = 0
  <2> SUFFICES ASSUME NEW n \in (0 .. p.nodes - 1) \ T PROVE p.node[n].elt = 0
    OBVIOUS
  <2>1. CASE n \in new
    BY <1>2, <2>1 DEF new
  <2>2. CASE n \in F
    BY <1>1, <1>2, <1>3, <2>2
  <2>3. CASE n \notin new /\ n \notin F
    BY <1>3, <1>5, <1>8, <2>3
  <2> QED BY <2>1, <2>2, <2>3
<1>12. /\ p.node[Root].brother = NIL /\ p.node[Root].parent = NIL
       /\ p.node[Root].name = EMPTY /\ p.node[Root].elt = 0
  BY <1>1, <1>3, <1>6
<1>13. \A n \in T \ {Root} : p.node[n].name \in Names
  BY <1>3, <1>6
<1>14. Good(p, T, G)
  <2>1. T \cap G = {}
    BY <1>6
  <2> QED BY <1>2, <1>7, <1>10, <1>11, <1>12, <1>13, <2>1 DEF Good
<1> QED BY <1>6, <1>9, <1>14

(* More free nodes. *)
LEMMA ExpandedGrown ==
  ASSUME NEW pool, NEW T, NEW F, Good(pool, T, F), NEW p, Expanded(pool, F, p)
  PROVE  Grown(pool, F, p, F \cup NewNodes(pool))
<1>1. pool.nodes \in Nat /\ EXTEND_NODES \in Nat /\ p.nodes = pool.nodes + EXTEND_NODES
  <2>1. pool.nodes \in 1 .. MAX_NODES
    BY GoodFacts
  <2> QED BY <2>1, TreeConstants DEF Expanded
<1>2. pool.nodes <= p.nodes /\ NewNodes(pool) = pool.nodes .. p.nodes - 1
  BY <1>1 DEF NewNodes
<1> QED BY <1>1, <1>2 DEF Grown, Expanded

(* The same free nodes in another order. *)
LEMMA MovedGrown ==
  ASSUME NEW pool, NEW T, NEW F, Good(pool, T, F), NEW p, NEW s, NEW e, Moved(pool, F, p, s, e)
  PROVE  Grown(pool, F, p, F)
<1>1. pool.nodes \in Nat /\ F \subseteq Nids
  <2>1. pool.nodes \in 1 .. MAX_NODES /\ F \subseteq Nids
    BY GoodFacts
  <2> QED BY <2>1
<1>2. p.nodes = pool.nodes /\ pool.nodes .. p.nodes - 1 = {} /\ pool.nodes <= p.nodes
  BY <1>1 DEF Moved
<1> QED BY <1>1, <1>2 DEF Grown, Moved

(* size nodes of successive numbers are the first ones of the list. *)
RunReady(pool, F, size) ==
  /\ pool.free \in F
  /\ \A i \in 0 .. size - 1 : pool.free + i \in F
  /\ \A i \in 0 .. size - 2 : pool.node[pool.free + i].parent = pool.free + i + 1

(* p is pool when there were enough nodes, and has a run of size nodes in any case. *)
Provided(pool, T, F, p, G, size) ==
  /\ Good(p, T, G) /\ Gone(pool) \ F \subseteq Gone(p) \ G
  /\ \A m \in T : p.node[m] = pool.node[m]
  /\ pool.nodes <= p.nodes /\ G # {}
  /\ size > 1 => Runs(p, size) # {}

(* There are free nodes for a conglomerate, after the array grew if need be. *)
LEMMA ProvidedPool ==
  ASSUME NEW pool, NEW T, NEW F, Good(pool, T, F), NEW size \in Sizes,
         NEW grows, grows = (pool.free = NIL \/ (size > 1 /\ Runs(pool, size) = {})),
         grows => pool.nodes + EXTEND_NODES <= MAX_NODES
  PROVE  \E G : Provided(pool, T, F, IF grows THEN TreeExpandNodes(pool) ELSE pool, G, size)
<1>1. /\ pool.nodes \in Nat /\ EXTEND_NODES \in Nat /\ size \in 1 .. EXTEND_NODES /\ IsPool(pool, F)
      /\ (pool.free = NIL <=> F = {})
  <2>1. pool.nodes \in 1 .. MAX_NODES /\ (pool.free = NIL <=> F = {})
    BY GoodType
  <2> QED BY <2>1, TreeConstants DEF Good
<1>2. CASE grows
  <2> DEFINE p == TreeExpandNodes(pool)
             new == NewNodes(pool)
             G == F \cup new
  <2>1. Expanded(pool, F, p)
    BY <1>1, <1>2, ExpandFacts
  <2> HIDE DEF p, G
  <2>2. Grown(pool, F, p, G)
    BY <2>1, ExpandedGrown DEF G
  <2>3. Good(p, T, G) /\ Gone(pool) \ F \subseteq Gone(p) \ G /\ \A m \in T : p.node[m] = pool.node[m]
    BY <2>2, GrownGood
  <2>4. pool.nodes <= p.nodes /\ pool.nodes \in G
    BY <2>1, <2>2 DEF Grown, Expanded, G
  <2>5. FreeList(p.node, p.free) = G
    BY <2>3, GoodFacts
  <2>6. \A i \in 0 .. size - 2 : p.node[pool.nodes + i].parent = pool.nodes + i + 1
    <3> SUFFICES ASSUME NEW i \in 0 .. size - 2 PROVE p.node[pool.nodes + i].parent = pool.nodes + i + 1
      OBVIOUS
    <3>1. pool.nodes + i \in new /\ pool.nodes + i + 1 \in new
      BY <1>1 DEF NewNodes
    <3> HIDE DEF new
    <3> QED BY <2>1, <3>1 DEF Expanded, new
  <2>7. pool.nodes \in Runs(p, size)
    BY <2>4, <2>5, <2>6 DEF Runs
  <2>8. Provided(pool, T, F, p, G, size)
    BY <2>3, <2>4, <2>7 DEF Provided
  <2> QED BY <1>2, <2>8 DEF p
<1>3. CASE ~grows
  <2>1. pool.free # NIL /\ (size > 1 => Runs(pool, size) # {})
    BY <1>3
  <2>2. F # {} /\ pool.nodes <= pool.nodes
    BY <1>1, <2>1
  <2>3. Provided(pool, T, F, pool, F, size)
    BY <2>1, <2>2 DEF Provided
  <2> QED BY <1>3, <2>3
<1> QED BY <1>2, <1>3

(* The tree is the same, and the first free nodes are those of the conglomerate. *)
Started(size, F) ==
  /\ Good(Pool', InTree, F) /\ Listed(deleted_nid_list, Pool', F) /\ RunReady(Pool', F, size)
  /\ \A m \in InTree : node'[m] = node[m]
  /\ nodes <= nodes'

(* The run that a conglomerate needs is at the head of the list. *)
LEMMA StartStep ==
  ASSUME Inv, NEW size \in Sizes, TreeStartConglomerate(size)
  PROVE  \E F : Started(size, F)
<1> DEFINE grows == free = NIL \/ (size > 1 /\ Runs(Pool, size) = {})
           pool == IF grows THEN TreeExpandNodes(Pool) ELSE Pool
           R == Runs(pool, size)
           start == CHOOSE s \in R : R \subseteq FreeList(pool.node, s)
           end == start + size - 1
           moved == IF size > 1 /\ start # pool.free THEN MoveRun(pool, start, end) ELSE pool
           T == InTree
           F == FreeNodes
<1>1. /\ Good(Pool, T, F) /\ Listed(deleted_nid_list, Pool, F)
      /\ Pool.node = node /\ Pool.nodes = nodes /\ Pool.free = free
  BY DEF Inv, Pool
<1>2. PICK G : Provided(Pool, T, F, pool, G, size)
  <2>1. grows = (Pool.free = NIL \/ (size > 1 /\ Runs(Pool, size) = {}))
    BY <1>1
  <2>2. grows => Pool.nodes + EXTEND_NODES <= MAX_NODES
    BY <1>1 DEF TreeStartConglomerate, CanExpand
  <2> HIDE DEF grows, F, T
  <2> QED BY <1>1, <2>1, <2>2, ProvidedPool
<1>3. node' = moved.node /\ nodes' = moved.nodes /\ free' = moved.free
  BY DEF TreeStartConglomerate
<1> HIDE DEF pool, T, F
<1>4. /\ Good(pool, T, G) /\ Gone(Pool) \ F \subseteq Gone(pool) \ G
      /\ \A m \in T : pool.node[m] = node[m]
      /\ nodes <= pool.nodes /\ G # {} /\ (size > 1 => R # {})
  BY <1>1, <1>2 DEF Provided
<1>5. /\ IsPool(pool, G) /\ Chain(pool.node, G, pool.free) /\ pool.node \in [Nids -> Node] /\ pool.free \in Links
      /\ pool.free \in G /\ G \subseteq Nids /\ FreeList(pool.node, pool.free) = G /\ size \in Nat \ {0}
  <2>1. IsPool(pool, G)
    BY <1>4 DEF Good
  <2>2. pool.free \in G /\ G \subseteq Nids /\ FreeList(pool.node, pool.free) = G
    BY <1>4, GoodType, GoodFacts
  <2>3. size \in Nat \ {0}
    BY TreeConstants
  <2> QED BY <2>1, <2>2, <2>3 DEF IsPool
<1>6. ASSUME size > 1
      PROVE  /\ start \in G /\ \A i \in 0 .. size - 2 : pool.node[start + i].parent = start + i + 1
             /\ \A i \in 0 .. size - 1 : start + i \in G
  <2>1. R \in SUBSET G
    BY <1>5 DEF Runs
  <2>2. start \in R
    <3>1. \E s \in R : R \subseteq FreeList(pool.node, s)
      <4> HIDE DEF R
      <4> QED BY <1>4, <1>5, <1>6, <2>1, ChainFirst
    <3> QED BY <3>1
  <2> HIDE DEF start
  <2>3. start \in G /\ \A i \in 0 .. size - 2 : pool.node[start + i].parent = start + i + 1
    BY <2>1, <2>2 DEF Runs
  <2>4. size - 1 \in Nat /\ 0 .. size - 2 = 0 .. (size - 1) - 1
    BY <1>5, <1>6
  <2>5. \A i \in 0 .. size - 1 : start + i \in G
    BY <1>5, <2>3, <2>4, RunInside
  <2> QED BY <2>3, <2>5
<1> HIDE DEF start
<1>7. /\ Good(moved, T, G) /\ Gone(Pool) \ F \subseteq Gone(moved) \ G /\ RunReady(moved, G, size)
      /\ \A m \in T : moved.node[m] = node[m]
      /\ nodes <= moved.nodes
  <2>1. CASE size > 1 /\ start # pool.free
    <3>0. start \in Nat /\ end \in Nat /\ start < end /\ end - 1 = start + (size - 2)
      <4>1. start \in Nat
        BY <1>5, <1>6, <2>1, NidsNat
      <4> QED BY <1>5, <2>1, <4>1
    <3>1. start .. end \subseteq G
      <4> SUFFICES ASSUME NEW q \in start .. end PROVE q \in G
        OBVIOUS
      <4>1. q - start \in 0 .. size - 1 /\ start + (q - start) = q
        BY <1>5, <3>0
      <4> QED BY <1>6, <2>1, <4>1
    <3>2. \A q \in start .. end - 1 : pool.node[q].parent = q + 1
      <4> SUFFICES ASSUME NEW q \in start .. end - 1 PROVE pool.node[q].parent = q + 1
        OBVIOUS
      <4>1. q - start \in 0 .. size - 2 /\ start + (q - start) = q
        BY <1>5, <3>0
      <4> QED BY <1>6, <2>1, <4>1
    <3> HIDE DEF end
    <3>3. Moved(pool, G, moved, start, end)
      BY <1>5, <2>1, <3>0, <3>1, <3>2, MoveFacts
    <3> HIDE DEF moved
    <3>4. Grown(pool, G, moved, G)
      BY <1>4, <3>3, MovedGrown
    <3>5. /\ Good(moved, T, G) /\ Gone(pool) \ G \subseteq Gone(moved) \ G
          /\ \A m \in T : moved.node[m] = pool.node[m]
      BY <1>4, <3>4, GrownGood
    <3>6. moved.free = start /\ moved.nodes = pool.nodes /\ \A q \in start .. end - 1 : moved.node[q].parent = q + 1
      BY <3>3 DEF Moved
    <3>7. \A i \in 0 .. size - 2 : moved.node[start + i].parent = start + i + 1
      <4> SUFFICES ASSUME NEW i \in 0 .. size - 2 PROVE moved.node[start + i].parent = start + i + 1
        OBVIOUS
      <4>1. start + i \in start .. end - 1
        BY <1>5, <3>0
      <4> QED BY <3>6, <4>1
    <3>8. RunReady(moved, G, size)
      BY <1>6, <2>1, <3>6, <3>7 DEF RunReady
    <3> QED BY <1>4, <3>5, <3>6, <3>8
  <2>2. CASE size > 1 /\ start = pool.free
    <3>1. moved = pool
      BY <2>2
    <3>2. RunReady(pool, G, size)
      BY <1>5, <1>6, <2>2 DEF RunReady
    <3> HIDE DEF moved
    <3> QED BY <1>4, <3>1, <3>2
  <2>3. CASE ~(size > 1)
    <3>1. moved = pool /\ size = 1
      BY <1>5, <2>3
    <3>2. pool.free \in Nat
      BY <1>5, NidsNat
    <3>3. RunReady(pool, G, 1)
      BY <1>5, <3>2 DEF RunReady
    <3> HIDE DEF moved
    <3> QED BY <1>4, <3>1, <3>3
  <2> QED BY <2>1, <2>2, <2>3
<1> HIDE DEF moved
<1>8. Pool'.node = moved.node /\ Pool'.nodes = moved.nodes /\ Pool'.free = moved.free
  BY <1>3 DEF Pool
<1>9. Good(Pool', T, G) /\ Gone(Pool') = Gone(moved)
  <2>1. moved.node \in [Nids -> Node]
    BY <1>7, GoodType
  <2>2. /\ Pool'.node \in [Nids -> Node]
        /\ \A m \in Nids : /\ \A f \in Fields : Pool'.node[m][f] = moved.node[m][f]
                           /\ Pool'.node[m].parent = moved.node[m].parent
                           /\ Pool'.node[m].name = moved.node[m].name
                           /\ Pool'.node[m].elt = moved.node[m].elt
    BY <1>8, <2>1
  <2> QED BY <1>7, <1>8, <2>2, GoodSame
<1>10. Listed(deleted_nid_list, Pool', G)
  BY <1>1, <1>7, <1>9 DEF Listed
<1>11. RunReady(Pool', G, size)
  BY <1>7, <1>8 DEF RunReady
<1> QED BY <1>3, <1>7, <1>9, <1>10, <1>11 DEF Started, T

-----------------------------------------------------------------------------
(* The tree is written. *)

(* A pool is good when the tree is untouched and the list accounts for the rest. *)
LEMMA GoodOf ==
  ASSUME NEW pool, NEW T, NEW F, Good(pool, T, F), NEW p, NEW G, IsPool(p, G),
         \A m \in T : p.node[m] = pool.node[m],
         T \cap G = {}, T \cup G \cup Gone(p) = 0 .. p.nodes - 1,
         \A n \in (0 .. p.nodes - 1) \ T : p.node[n].elt = 0
  PROVE  Good(p, T, G)
<1>1. /\ Forest(pool.node, T, {Root})
      /\ pool.node[Root].brother = NIL /\ pool.node[Root].parent = NIL
      /\ pool.node[Root].name = EMPTY /\ pool.node[Root].elt = 0
      /\ \A n \in T \ {Root} : pool.node[n].name \in Names
      /\ Root \in T
  BY GoodFacts DEF Good
<1>2. Forest(p.node, T, {Root})
  BY <1>1, ForestSame
<1>3. /\ p.node[Root].brother = NIL /\ p.node[Root].parent = NIL
      /\ p.node[Root].name = EMPTY /\ p.node[Root].elt = 0
      /\ \A n \in T \ {Root} : p.node[n].name \in Names
  BY <1>1
<1> QED BY <1>2, <1>3 DEF Good

(* The deleted nodes are free, what is in the tree is the same. *)
Freed(p, G) ==
  /\ Good(p, InTree, G) /\ Elements(deleted_nid_list) \subseteq G
  /\ p.nodes = nodes
  /\ \A m \in Nids : p.node[m].name = node[m].name
  /\ \A m \in InTree : p.node[m] = node[m]

(* The deleted nodes are put in front of the free ones. *)
LEMMA FreedGood ==
  ASSUME Inv
  PROVE  Freed(FreeDeleted(Pool), FreeNodes \cup Elements(deleted_nid_list))
<1> DEFINE list == deleted_nid_list
           len == Len(list)
           L == Elements(list)
           at(n) == CHOOSE i \in 1 .. len : list[i] = n
           p == FreeDeleted(Pool)
           T == InTree
           F == FreeNodes
<1>1. /\ Good(Pool, T, F) /\ Listed(list, Pool, F) /\ Pool.node = node /\ Pool.nodes = nodes /\ Pool.free = free
      /\ list \in Seq(0 .. first_in_mem - 1)
  BY DEF Inv, Pool, TypeOK
<1>2. len \in Nat /\ DOMAIN list = 1 .. len /\ (list = <<>> <=> len = 0)
  BY <1>1
<1>3. /\ T \subseteq Nids /\ T \subseteq 0 .. nodes - 1 /\ F \subseteq 0 .. nodes - 1
      /\ T \cap Gone(Pool) = {} /\ 0 .. nodes - 1 \subseteq Nids
  <2>1. /\ T \subseteq Nids /\ T \subseteq 0 .. nodes - 1 /\ F \subseteq 0 .. nodes - 1
        /\ T \cap Gone(Pool) = {} /\ nodes \in 1 .. MAX_NODES
    BY <1>1, GoodFacts
  <2> QED BY <2>1, TreeConstants DEF Nids
<1>4. CASE list = <<>>
  <2>1. p = Pool /\ L = {}
    BY <1>2, <1>4 DEF FreeDeleted, Elements
  <2>2. F \cup L = F
    BY <2>1
  <2> HIDE DEF p
  <2> QED BY <1>1, <2>1, <2>2 DEF Freed, p
<1>5. CASE list # <<>>
  <2>1. p.node = [n \in Nids |->
                       IF n \in L
                         THEN [Pool.node[n] EXCEPT
                                 !.parent = IF at(n) = len THEN Pool.free ELSE list[at(n) + 1],
                                 !.child = IF at(n) = 1 THEN NIL ELSE list[at(n) - 1]]
                         ELSE IF n = Pool.free THEN [Pool.node[n] EXCEPT !.child = list[len]]
                         ELSE Pool.node[n]]
        /\ p.nodes = Pool.nodes /\ p.free = list[1]
    BY <1>5 DEF FreeDeleted
  <2>2. /\ node \in [Nids -> Node] /\ nodes \in 0 .. MAX_NODES /\ free \in Links
        /\ Chain(node, F, free) /\ free \notin L
    <3>1. node \in [Nids -> Node] /\ nodes \in 0 .. MAX_NODES /\ free \in Links /\ Chain(node, F, free)
      BY <1>1 DEF Good, IsPool
    <3>2. L \cap F = {} /\ NIL \notin L
      BY <1>1, <1>3 DEF Listed, Gone, Nids, NIL
    <3> QED BY <3>1, <3>2 DEF Chain, Headed
  <2>3. /\ \A i \in 1 .. len : list[i] \in Nids \ F /\ list[i] \in L
        /\ \A i, j \in 1 .. len : list[i] = list[j] => i = j
        /\ L = {list[i] : i \in 1 .. len} /\ L \subseteq Gone(Pool) \ F /\ L \subseteq 0 .. nodes - 1
    BY <1>1, <1>2, <1>3 DEF Listed, Elements, Gone
  <2>4. \A i \in 1 .. len : at(list[i]) = i
    BY <2>3
  <2>5. len \in Nat \ {0} /\ 1 \in 1 .. len /\ len \in 1 .. len
    BY <1>2, <1>5
  <2>6. \A n \in L : at(n) \in 1 .. len /\ list[at(n)] = n
    BY <2>3
  <2> HIDE DEF p, at, L, T, F
  <2>7. \A n \in L : /\ p.node[n] \in Node
                     /\ p.node[n].parent = IF at(n) = len THEN free ELSE list[at(n) + 1]
                     /\ p.node[n].child = IF at(n) = 1 THEN NIL ELSE list[at(n) - 1]
                     /\ p.node[n].name = node[n].name /\ p.node[n].elt = node[n].elt
    <3> SUFFICES ASSUME NEW n \in L
                 PROVE  /\ p.node[n] \in Node
                        /\ p.node[n].parent = IF at(n) = len THEN free ELSE list[at(n) + 1]
                        /\ p.node[n].child = IF at(n) = 1 THEN NIL ELSE list[at(n) - 1]
                        /\ p.node[n].name = node[n].name /\ p.node[n].elt = node[n].elt
      OBVIOUS
    <3> DEFINE x == IF at(n) = len THEN free ELSE list[at(n) + 1]
               y == IF at(n) = 1 THEN NIL ELSE list[at(n) - 1]
    <3>1. n \in Nids /\ node[n] \in Node
      BY <1>3, <2>2, <2>3
    <3>2. x \in Links /\ y \in Links
      BY <2>2, <2>3, <2>5, <2>6 DEF Links
    <3>3. p.node[n] = [node[n] EXCEPT !.parent = x, !.child = y]
      BY <1>1, <2>1, <3>1
    <3> HIDE DEF x, y
    <3>4. p.node[n] \in Node /\ p.node[n].parent = x /\ p.node[n].child = y
          /\ p.node[n].name = node[n].name /\ p.node[n].elt = node[n].elt
      BY <3>1, <3>2, <3>3 DEF Node
    <3> QED BY <3>4 DEF x, y
  <2>8. \A n \in Nids \ L : /\ p.node[n] \in Node
                            /\ p.node[n].child = IF n = free THEN list[len] ELSE node[n].child
                            /\ p.node[n].parent = node[n].parent
                            /\ p.node[n].name = node[n].name /\ p.node[n].elt = node[n].elt
                            /\ n # free => p.node[n] = node[n]
    <3> SUFFICES ASSUME NEW n \in Nids \ L
                 PROVE  /\ p.node[n] \in Node
                        /\ p.node[n].child = IF n = free THEN list[len] ELSE node[n].child
                        /\ p.node[n].parent = node[n].parent
                        /\ p.node[n].name = node[n].name /\ p.node[n].elt = node[n].elt
                        /\ n # free => p.node[n] = node[n]
      OBVIOUS
    <3>1. p.node[n] = IF n = free THEN [node[n] EXCEPT !.child = list[len]] ELSE node[n]
      BY <1>1, <2>1
    <3>2. node[n] \in Node /\ list[len] \in Links
      BY <2>2, <2>3, <2>5 DEF Links
    <3>3. CASE n = free
      BY <3>1, <3>2, <3>3, NewChild
    <3>4. CASE n # free
      BY <3>1, <3>2, <3>4
    <3> QED BY <3>3, <3>4
  <2>9. p.node \in [Nids -> Node]
    <3>1. \A n \in Nids : p.node[n] \in Node
      BY <2>7, <2>8
    <3>2. p.node = [n \in Nids |-> p.node[n]]
      BY <2>1
    <3> QED BY <3>1, <3>2
  <2>10. Chain(p.node, F \cup L, p.free)
    <3>1. \A i \in 1 .. len : /\ p.node[list[i]].parent = IF i = len THEN free ELSE list[i + 1]
                              /\ p.node[list[i]].child = IF i = 1 THEN NIL ELSE list[i - 1]
      <4> SUFFICES ASSUME NEW i \in 1 .. len
                   PROVE  /\ p.node[list[i]].parent = IF i = len THEN free ELSE list[i + 1]
                          /\ p.node[list[i]].child = IF i = 1 THEN NIL ELSE list[i - 1]
        OBVIOUS
      <4>1. list[i] \in L /\ at(list[i]) = i
        BY <2>3, <2>4
      <4> QED BY <2>7, <4>1
    <3>2. \A m \in F : /\ p.node[m].parent = node[m].parent
                       /\ p.node[m].child = IF m = free THEN list[len] ELSE node[m].child
      BY <1>3, <2>3, <2>8
    <3>3. Prepending(node, p.node, F, free, list, len)
      BY <3>1, <3>2 DEF Prepending
    <3>4. Chain(p.node, F \cup {list[i] : i \in 1 .. len}, list[1])
      BY <2>2, <2>3, <2>5, <3>3, ChainPrepend
    <3> QED BY <2>1, <2>3, <3>4
  <2>11. IsPool(p, F \cup L)
    <3>1. list[1] \in Links /\ F \cup L \subseteq 0 .. nodes - 1
      BY <1>3, <2>3, <2>5 DEF Links
    <3> QED BY <1>1, <2>1, <2>2, <2>9, <2>10, <3>1 DEF IsPool
  <2>12. \A m \in Nids : p.node[m].name = node[m].name /\ p.node[m].elt = node[m].elt
    <3> SUFFICES ASSUME NEW m \in Nids PROVE p.node[m].name = node[m].name /\ p.node[m].elt = node[m].elt
      OBVIOUS
    <3>1. CASE m \in L
      BY <2>7, <3>1
    <3>2. CASE m \notin L
      BY <2>8, <3>2
    <3> QED BY <3>1, <3>2
  <2>13. Gone(p) = Gone(Pool)
    BY <1>1, <1>3, <2>1, <2>12 DEF Gone
  <2>14. /\ T \cap F = {} /\ T \cup F \cup Gone(Pool) = 0 .. nodes - 1
         /\ \A n \in (0 .. nodes - 1) \ T : node[n].elt = 0
    BY <1>1 DEF Good
  <2>15. T \cap (F \cup L) = {}
    BY <1>3, <2>3, <2>14
  <2>16. \A m \in T : p.node[m] = node[m]
    <3>1. \A m \in T : m \in Nids \ L /\ m # free
      BY <1>3, <2>2, <2>14, <2>15 DEF Chain, Headed, Nids, NIL
    <3> QED BY <2>8, <3>1
  <2>17. T \cup (F \cup L) \cup Gone(p) = 0 .. p.nodes - 1
    BY <1>1, <2>1, <2>3, <2>13, <2>14
  <2>18. \A n \in (0 .. p.nodes - 1) \ T : p.node[n].elt = 0
    BY <1>1, <1>3, <2>1, <2>12, <2>14
  <2>19. Good(p, T, F \cup L)
    BY <1>1, <2>11, <2>15, <2>16, <2>17, <2>18, GoodOf
  <2> QED BY <1>1, <2>1, <2>12, <2>16, <2>19 DEF Freed, p, T, F, L
<1> QED BY <1>4, <1>5

(* The pool without a node of the list. *)
TookOut(pool, F, p, n) ==
  /\ IsPool(p, F \ {n}) /\ p.nodes = pool.nodes
  /\ \A m \in Nids : p.node[m].name = pool.node[m].name /\ p.node[m].elt = pool.node[m].elt
  /\ \A m \in Nids \ F : p.node[m] = pool.node[m]

(* The list without one of its nodes. *)
LEMMA TakeOutFacts ==
  ASSUME NEW pool, NEW F, IsPool(pool, F), NEW n \in F
  PROVE  TookOut(pool, F, TakeOut(pool, n), n)
<1> DEFINE nd == pool.node
           first == pool.free
           after == nd[n].parent
           before == nd[n].child
           p == TakeOut(pool, n)
<1>1. /\ nd \in [Nids -> Node] /\ Chain(nd, F, first) /\ pool.nodes \in 0 .. MAX_NODES
      /\ F \subseteq 0 .. pool.nodes - 1 /\ first \in Links
  BY DEF IsPool
<1>2. F \subseteq Nids /\ NIL \notin F /\ NIL \in Links /\ Nids \subseteq Links /\ NIL \notin Nids
  BY <1>1 DEF Chain, Headed, Links, Nids, NIL
<1>3. \A m \in F : nd[m].parent # NIL => nd[m].parent \in F /\ nd[nd[m].parent].child = m
  BY <1>1 DEF Chain, TwoWay
<1>4. first \in F /\ nd[first].child = NIL
  BY <1>1, <1>2 DEF Chain, Headed
<1>5. before = NIL \/ (before \in F \ {n} /\ nd[before].parent = n)
  BY <1>1, <1>4, ChainEntry
<1>6. after \in F \cup {NIL}
  BY <1>3
<1>7. after = before => after = NIL
  <2> SUFFICES ASSUME after = before, before \in F \ {n}, nd[before].parent = n PROVE FALSE
    BY <1>5
  <2>1. nd[before].child = n /\ n # NIL /\ before # NIL
    BY <1>2, <1>3
  <2>2. {n, before} \in SUBSET (F \ {first}) /\ {n, before} # {}
    BY <1>4, <2>1
  <2>3. PICK m \in F \ {n, before} : nd[m].parent \in {n, before}
    BY <1>1, <2>2 DEF Chain, Followed
  <2>4. nd[nd[m].parent].child = m
    BY <1>2, <1>3, <2>1, <2>3
  <2> QED BY <2>1, <2>3, <2>4
<1>8. /\ p.node = [m \in Nids |->
                  IF m = after THEN [nd[m] EXCEPT !.child = before]
                  ELSE IF m = before THEN [nd[m] EXCEPT !.parent = after]
                  ELSE nd[m]]
      /\ p.nodes = pool.nodes /\ p.free = IF n = first THEN after ELSE first
  BY DEF TakeOut
<1>9. after \in Links /\ before \in Links
  BY <1>2, <1>5, <1>6
<1> HIDE DEF nd, first, after, before, p
<1>10. \A m \in Nids : /\ p.node[m] \in Node
                       /\ p.node[m].child = IF m = after THEN before ELSE nd[m].child
                       /\ p.node[m].parent = IF m = before THEN after ELSE nd[m].parent
                       /\ p.node[m].name = nd[m].name /\ p.node[m].elt = nd[m].elt
                       /\ m # after /\ m # before => p.node[m] = nd[m]
  <2> SUFFICES ASSUME NEW m \in Nids
               PROVE  /\ p.node[m] \in Node
                      /\ p.node[m].child = IF m = after THEN before ELSE nd[m].child
                      /\ p.node[m].parent = IF m = before THEN after ELSE nd[m].parent
                      /\ p.node[m].name = nd[m].name /\ p.node[m].elt = nd[m].elt
                      /\ m # after /\ m # before => p.node[m] = nd[m]
    OBVIOUS
  <2>1. nd[m] \in Node
    BY <1>1
  <2>2. CASE m = after
    <3>1. m # before /\ p.node[m] = [nd[m] EXCEPT !.child = before]
      BY <1>2, <1>7, <1>8, <2>2
    <3> QED BY <1>9, <2>1, <2>2, <3>1, NewChild
  <2>3. CASE m = before /\ m # after
    <3>1. p.node[m] = [nd[m] EXCEPT !.parent = after]
      BY <1>8, <2>3
    <3> QED BY <1>9, <2>1, <2>3, <3>1, NewParent
  <2>4. CASE m # after /\ m # before
    <3>1. p.node[m] = nd[m]
      BY <1>8, <2>4
    <3> QED BY <2>1, <2>4, <3>1
  <2> QED BY <2>2, <2>3, <2>4
<1>11. p.node \in [Nids -> Node]
  <2>1. p.node = [m \in Nids |-> p.node[m]]
    BY <1>8
  <2>2. \A m \in Nids : p.node[m] \in Node
    BY <1>10
  <2> QED BY <2>1, <2>2
<1>12. Chain(p.node, F \ {n}, p.free)
  <2>1. TakingOut(nd, p.node, F, n)
    <3>1. \A m \in F \ {n} : p.node[m].child = IF m = nd[n].parent THEN nd[n].child ELSE nd[m].child
      BY <1>2, <1>10 DEF after, before
    <3>2. \A m \in F \ {n} : p.node[m].parent = IF m = nd[n].child THEN nd[n].parent ELSE nd[m].parent
      BY <1>2, <1>10 DEF after, before
    <3> QED BY <3>1, <3>2 DEF TakingOut
  <2>2. Chain(p.node, F \ {n}, IF n = first THEN nd[n].parent ELSE first)
    BY <1>1, <2>1, ChainTakeOut
  <2> QED BY <1>8, <2>2 DEF after
<1>13. IsPool(p, F \ {n})
  <2>1. p.free \in Links
    BY <1>1, <1>8, <1>9
  <2> QED BY <1>1, <1>8, <1>11, <1>12, <2>1 DEF IsPool
<1>14. \A m \in Nids \ F : p.node[m] = nd[m]
  BY <1>2, <1>5, <1>6, <1>10
<1>15. \A m \in Nids : p.node[m].name = nd[m].name /\ p.node[m].elt = nd[m].elt
  BY <1>10
<1> QED BY <1>8, <1>13, <1>14, <1>15 DEF TookOut, p, nd

(* A number of whole pages has room for what is used. *)
LEMMA PagesFacts ==
  ASSUME NEW used \in Nat, NEW page \in Nat \ {0}
  PROVE  ((used + page) \div page) * page \in Nat /\ used < ((used + page) \div page) * page
<1>1. ((used + page) \div page) * page \in Int /\ used < ((used + page) \div page) * page
  OBVIOUS
<1> DEFINE pages == ((used + page) \div page) * page
<1>2. pages \in Int /\ used < pages
  BY <1>1
<1> HIDE DEF pages
<1>3. pages \in Nat
  BY <1>2
<1> QED BY <1>2, <1>3 DEF pages

(* Free nodes at the end are gone. *)
Trimmed(pool, T, p) ==
  /\ \E F : Good(p, T, F)
  /\ p.nodes <= pool.nodes /\ first_in_mem <= p.nodes
  /\ \A m \in T : p.node[m] = pool.node[m]

(* The pool is without the nodes from size to k. *)
TrimmedTo(pool, G, size, p, k) ==
  /\ IsPool(p, G \ (size .. k)) /\ p.nodes = pool.nodes
  /\ \A m \in Nids : p.node[m].name = pool.node[m].name /\ p.node[m].elt = pool.node[m].elt
  /\ \A m \in Nids \ G : p.node[m] = pool.node[m]

(* The nodes of a loop that takes them out one by one. *)
TrimLoop(pool, size, g) ==
  g = [n \in size - 1 .. pool.nodes - 1 |-> IF n < size THEN pool ELSE TakeOut(g[n - 1], n)]

(* The loop of trim_excess_nodes has a result for every array. *)
LEMMA TrimLoopExists ==
  ASSUME NEW pool, NEW size \in Nat, pool.nodes \in Nat, size < pool.nodes
  PROVE  \E g : TrimLoop(pool, size, g)
<1> DEFINE last == pool.nodes - 1
           Value(g, n) == IF n < size THEN pool ELSE TakeOut(g[n - 1], n)
           Solves(g, k) == \A n \in size - 1 .. k : g[n] = Value(g, n)
           bad == {i \in 0 .. last - (size - 1) : ~\E g : Solves(g, size - 1 + i)}
<1>1. bad = {}
  <2> SUFFICES ASSUME bad # {} PROVE FALSE
    OBVIOUS
  <2>1. bad \in SUBSET Nat
    OBVIOUS
  <2>2. PICK i \in bad : \A j \in bad : i <= j
    BY <2>1, LeastElement
  <2> DEFINE k == size - 1 + i
  <2>3. i # 0
    <3> SUFFICES ASSUME i = 0 PROVE FALSE
      OBVIOUS
    <3> DEFINE h == [n \in {size - 1} |-> pool]
    <3>1. \A n \in size - 1 .. k : n = size - 1 /\ n < size
      OBVIOUS
    <3>2. h[size - 1] = pool
      OBVIOUS
    <3>3. Solves(h, k)
      BY <3>1, <3>2
    <3> QED BY <2>2, <3>3
  <2>4. i - 1 \in 0 .. last - (size - 1) /\ i - 1 \notin bad
    BY <2>2, <2>3
  <2>5. PICK g : Solves(g, size - 1 + (i - 1))
    BY <2>4
  <2> DEFINE h == [n \in size - 1 .. k |-> IF n = k THEN Value(g, n) ELSE g[n]]
  <2>6. k \in Int /\ size - 1 + (i - 1) = k - 1 /\ size - 1 <= k - 1
    BY <2>3
  <2> HIDE DEF k
  <2>7. Solves(h, k)
    <3> SUFFICES ASSUME NEW n \in size - 1 .. k PROVE h[n] = Value(h, n)
      OBVIOUS
    <3>1. n - 1 # k /\ (n >= size => n - 1 \in size - 1 .. k)
      BY <2>6
    <3>2. n >= size => h[n - 1] = g[n - 1]
      BY <3>1
    <3>3. Value(h, n) = Value(g, n)
      BY <3>2, <2>6
    <3>4. CASE n = k
      BY <3>3, <3>4
    <3>5. CASE n # k
      <4>1. n \in size - 1 .. k - 1
        BY <2>6, <3>5
      <4>2. g[n] = Value(g, n)
        BY <2>5, <2>6, <4>1
      <4> QED BY <3>3, <3>5, <4>2
    <3> QED BY <3>4, <3>5
  <2> QED BY <2>2, <2>7 DEF k
<1>2. last - (size - 1) \in 0 .. last - (size - 1) /\ size - 1 + (last - (size - 1)) = last
  OBVIOUS
<1>3. PICK g : Solves(g, last)
  BY <1>1, <1>2
<1> DEFINE h == [n \in size - 1 .. last |-> g[n]]
<1>4. h = [n \in size - 1 .. last |-> Value(h, n)]
  <2>1. \A n \in size - 1 .. last : Value(h, n) = Value(g, n)
    <3> SUFFICES ASSUME NEW n \in size - 1 .. last PROVE Value(h, n) = Value(g, n)
      OBVIOUS
    <3>1. n >= size => n - 1 \in size - 1 .. last
      OBVIOUS
    <3>2. n >= size => h[n - 1] = g[n - 1]
      BY <3>1
    <3> QED BY <3>2
  <2>2. \A n \in size - 1 .. last : g[n] = Value(h, n)
    BY <1>3, <2>1
  <2> QED BY <2>2
<1>5. TrimLoop(pool, size, h)
  BY <1>4 DEF TrimLoop
<1> QED BY <1>5

(* After k rounds the nodes up to k are out of the list. *)
LEMMA TrimmedEach ==
  ASSUME NEW pool, NEW G, IsPool(pool, G), NEW size \in Nat, size < pool.nodes,
         size .. pool.nodes - 1 \subseteq G, NEW g, TrimLoop(pool, size, g)
  PROVE  \A k \in size - 1 .. pool.nodes - 1 : TrimmedTo(pool, G, size, g[k], k)
<1> DEFINE last == pool.nodes - 1
           bad == {k \in size - 1 .. last : ~TrimmedTo(pool, G, size, g[k], k)}
           low == {k - (size - 1) : k \in bad}
<1>1. pool.nodes \in Nat
  BY TreeConstants DEF IsPool
<1>2. \A n \in size - 1 .. last : g[n] = IF n < size THEN pool ELSE TakeOut(g[n - 1], n)
  BY DEF TrimLoop
<1> SUFFICES ASSUME bad # {} PROVE FALSE
  OBVIOUS
<1>3. low \in SUBSET Nat /\ low # {}
  BY <1>1
<1>4. PICK i \in low : \A j \in low : i <= j
  BY <1>3, LeastElement
<1>5. PICK k \in bad : i = k - (size - 1)
  OBVIOUS
<1>6. k \in size - 1 .. last /\ ~TrimmedTo(pool, G, size, g[k], k) /\ k \in Int
  BY <1>1, <1>5
<1>7. k >= size
  <2> SUFFICES ASSUME k < size PROVE FALSE
    BY <1>6
  <2>1. g[k] = pool /\ size .. k = {}
    BY <1>2, <1>6
  <2>2. G \ (size .. k) = G
    BY <2>1
  <2>3. TrimmedTo(pool, G, size, pool, k)
    BY <2>2 DEF TrimmedTo
  <2> QED BY <1>6, <2>1, <2>3
<1>8. k - 1 \in size - 1 .. last /\ k - 1 \notin bad
  <2>1. k - 1 \in size - 1 .. last
    BY <1>1, <1>6, <1>7
  <2>2. ASSUME k - 1 \in bad PROVE FALSE
    <3>1. (k - 1) - (size - 1) \in low
      BY <2>2
    <3> HIDE DEF low, bad
    <3>2. k - (size - 1) <= (k - 1) - (size - 1)
      BY <1>4, <1>5, <3>1
    <3> QED BY <1>6, <3>2
  <2> QED BY <2>1, <2>2
<1> DEFINE q == g[k - 1]
           H == G \ (size .. k - 1)
<1>9. TrimmedTo(pool, G, size, q, k - 1) /\ g[k] = TakeOut(q, k)
  BY <1>2, <1>6, <1>7, <1>8
<1>10. k \in H /\ k \in G
  BY <1>1, <1>6, <1>7
<1>11. IsPool(q, H)
  BY <1>9 DEF TrimmedTo
<1> HIDE DEF q, H
<1>12. TookOut(q, H, g[k], k)
  BY <1>9, <1>10, <1>11, TakeOutFacts
<1>13. H \ {k} = G \ (size .. k) /\ H \subseteq G
  BY <1>1, <1>6, <1>7 DEF H
<1>14. TrimmedTo(pool, G, size, g[k], k)
  BY <1>9, <1>12, <1>13 DEF TrimmedTo, TookOut
<1> QED BY <1>6, <1>14

(* What trim_excess_nodes cuts off was free. *)
LEMMA TrimGood ==
  ASSUME NEW pool, NEW T, NEW G, Good(pool, T, G), first_in_mem \in 0 .. pool.nodes
  PROVE  Trimmed(pool, T, trim_excess_nodes(pool))
<1> DEFINE used == CHOOSE n \in Nids : /\ n = Root \/ pool.node[n].name # EMPTY
                                       /\ \A m \in n + 1 .. pool.nodes - 1 : pool.node[m].name = EMPTY
                                       /\ n < pool.nodes
           pages == ((used + PAGE) \div PAGE) * PAGE
           size == IF first_in_mem > pages THEN first_in_mem ELSE pages
           p == trim_excess_nodes(pool)
           N == pool.nodes
<1>1. /\ N \in Nat /\ N >= 1 /\ N <= MAX_NODES /\ MAX_NODES \in Nat /\ PAGE \in Nat \ {0} /\ first_in_mem \in Nat
      /\ Root \in T /\ T \subseteq Nids /\ T \subseteq 0 .. N - 1 /\ T \cap Gone(pool) = {} /\ IsPool(pool, G)
      /\ Nids = 0 .. MAX_NODES - 1
  <2>1. /\ N \in 1 .. MAX_NODES /\ MAX_NODES \in Nat /\ PAGE \in Nat \ {0}
        /\ Root \in T /\ T \subseteq Nids /\ T \subseteq 0 .. N - 1 /\ T \cap Gone(pool) = {} /\ IsPool(pool, G)
    BY GoodFacts, TreeConstants DEF Good
  <2> QED BY <2>1 DEF Nids
<1>2. /\ used \in Nids /\ used < N
      /\ \A m \in used + 1 .. N - 1 : pool.node[m].name = EMPTY
  <2> DEFINE U == {n \in Nids : n < N /\ (n = Root \/ pool.node[n].name # EMPTY)}
  <2>1. U \in SUBSET Nids /\ Root \in U
    BY <1>1 DEF Root
  <2>2. PICK n \in U : \A m \in U : m <= n
    BY <2>1, GreatestNode
  <2>3. \A m \in n + 1 .. N - 1 : pool.node[m].name = EMPTY
    <3> SUFFICES ASSUME NEW m \in n + 1 .. N - 1, pool.node[m].name # EMPTY PROVE FALSE
      OBVIOUS
    <3>1. m \in Nids /\ m < N /\ ~(m <= n)
      BY <1>1, <2>1
    <3>2. m \in U
      BY <3>1
    <3> QED BY <2>2, <3>1, <3>2
  <2> QED BY <2>1, <2>2, <2>3
<1>3. size \in Nat /\ used < size /\ first_in_mem <= size
  <2> HIDE DEF used
  <2>1. used \in Nat
    BY <1>1, <1>2
  <2>2. pages \in Nat /\ used < pages
    BY <1>1, <2>1, PagesFacts
  <2> HIDE DEF pages
  <2> QED BY <1>1, <2>1, <2>2
<1>4. p = IF size >= N THEN pool
          ELSE LET trimmed == CHOOSE g : TrimLoop(pool, size, g) IN
               [node |-> trimmed[N - 1].node, nodes |-> size, free |-> trimmed[N - 1].free]
  BY DEF trim_excess_nodes, TrimLoop
<1> HIDE DEF size, p
<1>5. CASE size >= N
  <2>1. p = pool
    BY <1>4, <1>5
  <2>2. N <= N /\ first_in_mem <= N
    BY <1>1
  <2> QED BY <2>1, <2>2 DEF Trimmed, p
<1>6. CASE ~(size >= N)
  <2> DEFINE g == CHOOSE g : TrimLoop(pool, size, g)
             H == G \ (size .. N - 1)
             q == g[N - 1]
  <2>1. size < N
    BY <1>1, <1>3, <1>6
  <2>2. p = [node |-> q.node, nodes |-> size, free |-> q.free]
    BY <1>4, <1>6
  <2>3. TrimLoop(pool, size, g)
    BY <1>1, <1>3, <2>1, TrimLoopExists
  <2> HIDE DEF g
  <2>4. /\ T \cap G = {} /\ T \cup G \cup Gone(pool) = 0 .. N - 1
        /\ \A n \in T \ {Root} : pool.node[n].name \in Names
        /\ \A n \in (0 .. N - 1) \ T : pool.node[n].elt = 0
    BY DEF Good
  <2>5. ASSUME NEW m \in size .. N - 1
        PROVE  m \in G /\ m \notin T
    <3>1. m \in used + 1 .. N - 1 /\ m # Root /\ m \in 0 .. N - 1
      <4>1. used \in Nat
        BY <1>1, <1>2
      <4> QED BY <1>1, <1>3, <2>1, <2>5, <4>1 DEF Root
    <3>2. pool.node[m].name = EMPTY /\ EMPTY \notin Names /\ EMPTY # DELETED
      BY <1>2, <3>1, TreeConstants DEF EMPTY, DELETED
    <3> QED BY <2>4, <3>1, <3>2 DEF Gone
  <2>6. size .. N - 1 \subseteq G
    BY <2>5
  <2>7. N - 1 \in size - 1 .. N - 1
    BY <1>1, <1>3, <2>1
  <2>8. TrimmedTo(pool, G, size, q, N - 1)
    BY <1>1, <1>3, <2>1, <2>3, <2>6, <2>7, TrimmedEach
  <2> HIDE DEF q
  <2>9. /\ IsPool(q, H)
        /\ \A m \in Nids : q.node[m].name = pool.node[m].name /\ q.node[m].elt = pool.node[m].elt
        /\ \A m \in Nids \ G : q.node[m] = pool.node[m]
    BY <2>8 DEF TrimmedTo
  <2>10. p.node = q.node /\ p.nodes = size /\ p.free = q.free
    BY <2>2
  <2>11. G \subseteq 0 .. N - 1 /\ H \subseteq 0 .. size - 1
    <3>1. G \subseteq 0 .. N - 1
      BY <1>1 DEF IsPool
    <3>2. ASSUME NEW m \in H PROVE m \in 0 .. size - 1
      BY <1>1, <1>3, <3>1
    <3> QED BY <3>1, <3>2
  <2>12. IsPool(p, H)
    <3>1. p.nodes \in 0 .. MAX_NODES
      BY <1>1, <1>3, <2>1, <2>10
    <3> QED BY <2>9, <2>10, <2>11, <3>1 DEF IsPool
  <2>13. \A m \in T : p.node[m] = pool.node[m]
    BY <1>1, <2>4, <2>9, <2>10
  <2>14. 0 .. size - 1 \subseteq 0 .. N - 1 /\ 0 .. N - 1 \subseteq Nids
    BY <1>1, <1>3, <2>1
  <2>15. T \cup H \cup Gone(p) = 0 .. p.nodes - 1
    <3>1. T \subseteq 0 .. size - 1
      BY <1>1, <1>3, <2>5
    <3>2. Gone(p) \subseteq 0 .. size - 1
      BY <2>10 DEF Gone
    <3>3. ASSUME NEW m \in 0 .. size - 1, m \notin T, m \notin H PROVE m \in Gone(p)
      <4>1. m \notin G
        BY <1>1, <1>3, <3>3
      <4>2. m \in Gone(pool) /\ m \in Nids
        BY <2>4, <2>14, <3>3, <4>1
      <4> QED BY <2>9, <2>10, <3>3, <4>2 DEF Gone
    <3> QED BY <2>10, <2>11, <3>1, <3>2, <3>3
  <2>16. \A n \in (0 .. p.nodes - 1) \ T : p.node[n].elt = 0
    BY <2>4, <2>9, <2>10, <2>14
  <2>17. T \cap H = {}
    BY <2>4
  <2>18. Good(p, T, H)
    BY <2>12, <2>13, <2>15, <2>16, <2>17, GoodOf
  <2>19. p.nodes <= pool.nodes /\ first_in_mem <= p.nodes
    BY <1>1, <1>3, <2>1, <2>10
  <2> QED BY <2>13, <2>18, <2>19 DEF Trimmed, p
<1> QED BY <1>5, <1>6

(* What the variables are made of is as good. *)
LEMMA GoodPool ==
  ASSUME NEW p, NEW T, NEW F, Good(p, T, F), node' = p.node, nodes' = p.nodes, free' = p.free
  PROVE  Good(Pool', T, F) /\ Gone(Pool') = Gone(p)
<1>1. Pool'.node = p.node /\ Pool'.nodes = p.nodes /\ Pool'.free = p.free
  BY DEF Pool
<1>2. p.node \in [Nids -> Node]
  BY GoodType
<1>3. /\ Pool'.node \in [Nids -> Node]
      /\ \A m \in Nids : /\ \A f \in Fields : Pool'.node[m][f] = p.node[m][f]
                         /\ Pool'.node[m].parent = p.node[m].parent
                         /\ Pool'.node[m].name = p.node[m].name
                         /\ Pool'.node[m].elt = p.node[m].elt
  BY <1>1, <1>2
<1> QED BY <1>1, <1>3, GoodSame

(* The tree is the same. *)
Written ==
  /\ \E F : Good(Pool', InTree, F)
  /\ nodes' <= nodes /\ first_in_mem <= nodes'
  /\ \A m \in InTree : node'[m] = node[m]

(* A write leaves the tree as it is, and the list whole. *)
LEMMA WriteStep ==
  ASSUME Inv, NEW outcome, TreeWriteTree(outcome)
  PROVE  Written
<1> DEFINE freed == FreeDeleted(Pool)
           pool == trim_excess_nodes(freed)
           T == InTree
           G == FreeNodes \cup Elements(deleted_nid_list)
<1>1. node' = pool.node /\ nodes' = pool.nodes /\ free' = pool.free
  BY DEF TreeWriteTree
<1>2. Good(freed, T, G) /\ freed.nodes = nodes /\ \A m \in T : freed.node[m] = node[m]
  BY FreedGood DEF Freed
<1>3. first_in_mem \in 0 .. freed.nodes
  BY <1>2 DEF Inv, TypeOK
<1> HIDE DEF freed, T, G
<1>4. Trimmed(freed, T, pool)
  BY <1>2, <1>3, TrimGood
<1> HIDE DEF pool
<1>5. PICK F : Good(pool, T, F)
  BY <1>4 DEF Trimmed
<1>6. Good(Pool', T, F)
  BY <1>1, <1>5, GoodPool
<1>7. nodes' <= nodes /\ first_in_mem <= nodes' /\ \A m \in T : node'[m] = node[m]
  BY <1>1, <1>2, <1>4 DEF Trimmed
<1> QED BY <1>6, <1>7 DEF Written, T

-----------------------------------------------------------------------------
(* Nodes are deleted. *)

(* What is marked is below the root, with all that is below it or part of its conglomerate. *)
LEMMA MarkedFacts ==
  ASSUME Inv, NEW n \in InTree \ {Root}
  PROVE  /\ n \in check_nid(n) /\ check_nid(n) \subseteq InTree \ {Root}
         /\ \A m \in check_nid(n) : Conglomerate(m) \subseteq check_nid(n)
         /\ \A m \in InTree \ {Root} : node[m].parent \in check_nid(n) => m \in check_nid(n)
<1> DEFINE T == InTree
           X == T \ {Root}
           S == {n}
           more == [m \in Nids |-> Kids(node, m) \cup Conglomerate(m)]
           M == check_nid(n)
<1>1. /\ Good(Pool, T, FreeNodes) /\ Pool.node = node /\ Pool.nodes = nodes
      /\ node \in [Nids -> Node] /\ T \subseteq Nids
      /\ \A m \in (0 .. nodes - 1) \ T : node[m].elt = 0
      /\ node[Root].elt = 0
  <2>1. Good(Pool, T, FreeNodes) /\ Pool.node = node /\ Pool.nodes = nodes
    BY DEF Inv, Pool
  <2>2. T \subseteq Nids
    BY <2>1, GoodFacts
  <2> QED BY <2>1, <2>2 DEF Good, IsPool
<1>2. \A p \in T : Kids(node, p) = {m \in X : node[m].parent = p}
  BY <1>1, GoodLeads
<1> HIDE DEF T
<1>3. more \in [Nids -> SUBSET Nids]
  <2>1. ASSUME NEW m \in Nids PROVE Kids(node, m) \subseteq Nids
    <3>1. node[m]["child"] \in Links /\ node[m]["member"] \in Links
      BY <1>1, LinkTypes DEF Fields
    <3> QED BY <1>1, <3>1, BrothersFacts DEF Kids
  <2>2. ASSUME NEW m \in Nids PROVE Conglomerate(m) \subseteq Nids
    BY DEF Conglomerate
  <2> QED BY <2>1, <2>2
<1>4. S \in SUBSET Nids /\ M = Closure(S, more)
  BY <1>1 DEF check_nid, T
<1>5. ASSUME NEW m \in X PROVE Conglomerate(m) \subseteq X
  <2> SUFFICES ASSUME NEW k \in Conglomerate(m) PROVE k \in X
    OBVIOUS
  <2> DEFINE head == m - node[m].elt + 1
  <2>1. m \in Nat /\ node[m].elt \in Nat
    BY <1>1, <1>5, NidsNat DEF Node
  <2>2. head \in Int
    BY <2>1
  <2>3. k \in Nids /\ k \in head .. nodes - 1 /\ \A i \in head .. k : node[i].elt = i - head + 1
    BY DEF Conglomerate
  <2> HIDE DEF head
  <2>4. node[k].elt = k - head + 1 /\ k >= head /\ k \in 0 .. nodes - 1
    BY <2>2, <2>3, NidsNat
  <2>5. node[k].elt # 0
    BY <2>2, <2>4
  <2> QED BY <1>1, <2>4, <2>5
<1>6. ASSUME NEW m \in X PROVE more[m] \subseteq X
  <2>1. m \in Nids /\ more[m] = Kids(node, m) \cup Conglomerate(m)
    BY <1>1, <1>6
  <2> HIDE DEF more
  <2> QED BY <1>2, <1>5, <1>6, <2>1
<1>7. S \subseteq X /\ X \in SUBSET Nids
  BY <1>1 DEF T
<1>8. \A m \in Nids : Kids(node, m) \subseteq more[m] /\ Conglomerate(m) \subseteq more[m]
  OBVIOUS
<1> HIDE DEF more, S, X, M
<1>9. S \subseteq M /\ M \subseteq Nids /\ \A m \in M : more[m] \subseteq M
  BY <1>3, <1>4, ClosureFacts
<1>10. M \subseteq X
  BY <1>3, <1>4, <1>6, <1>7, ClosureFacts
<1>11. \A m \in M : Kids(node, m) \subseteq M /\ Conglomerate(m) \subseteq M
  BY <1>8, <1>9
<1>12. ASSUME NEW m \in X, node[m].parent \in M PROVE m \in M
  <2>1. node[m].parent \in T
    BY <1>10, <1>12 DEF X
  <2>2. m \in Kids(node, node[m].parent)
    BY <1>2, <1>12, <2>1 DEF X
  <2> QED BY <1>11, <1>12, <2>2
<1> QED BY <1>9, <1>10, <1>11, <1>12 DEF S, X, M, T

(***************************************************************************)
(* The nodes of D were taken out of the tree T of nd0, one after the other: *)
(* what was below one of them is a tree of its own, but still linked to it. *)
(***************************************************************************)
Cut(nd0, nd, T, D) ==
  /\ nd \in [Nids -> Node]
  /\ Forest(nd, T \ D, {Root} \cup {a \in T \ D : nd0[a].parent \in D})
  /\ Leads(nd, T, {})
  /\ \A m \in Nids : nd[m].parent = nd0[m].parent
  /\ \A m \in Nids \ D : nd[m].name = nd0[m].name /\ nd[m].elt = nd0[m].elt
  /\ \A m \in D : nd[m].name = DELETED /\ nd[m].elt = 0
  /\ \A m \in Nids \ T : nd[m] = nd0[m]
  /\ nd[Root].brother = NIL

(* Skipping a node among its brothers leaves every link at a node of the right parent. *)
LEMMA SkipsLeads ==
  ASSUME NEW nd \in [Nids -> Node], NEW T \in SUBSET Nids, Leads(nd, T, {}), NEW k \in T,
         NEW a \in T, NEW f \in Fields, NEW nd2, Skips(nd, nd2, k, a, f)
  PROVE  Leads(nd2, T, {})
<1>1. \A b \in T, g \in Fields : nd[b][g] # NIL =>
        nd[b][g] \in T /\ nd[nd[b][g]].parent = IF g = "brother" THEN nd[b].parent ELSE b
  BY DEF Leads, Counts
<1>2. nd[a][f] = k /\ k # NIL /\ "brother" \in Fields
  BY DEF Skips, Fields, Nids, NIL
<1>3. nd[k].parent = IF f = "brother" THEN nd[a].parent ELSE a
  BY <1>1, <1>2
<1>4. nd[k]["brother"] # NIL => nd[k]["brother"] \in T /\ nd[nd[k]["brother"]].parent = nd[k].parent
  BY <1>1, <1>2
<1>5. \A m \in T : nd2[m].parent = nd[m].parent
  BY DEF Skips
<1>6. \A b \in T, g \in Fields : nd2[b][g] = IF b = a /\ g = f THEN nd[k]["brother"] ELSE nd[b][g]
  BY DEF Skips
<1> SUFFICES ASSUME NEW b \in T, NEW g \in Fields, nd2[b][g] # NIL
             PROVE  /\ nd2[b][g] \in T
                    /\ nd2[nd2[b][g]].parent = IF g = "brother" THEN nd2[b].parent ELSE b
  BY DEF Leads
<1>7. CASE b = a /\ g = f
  BY <1>3, <1>4, <1>5, <1>6, <1>7
<1>8. CASE ~(b = a /\ g = f)
  BY <1>1, <1>5, <1>6, <1>8
<1> QED BY <1>7, <1>8

(* A node that is unlinked is a root, if it was not one before. *)
Loosened(nd, nd2, T, A, Q) ==
  /\ nd2 \in [Nids -> Node] /\ Forest(nd2, A, Q) /\ Leads(nd2, T, {})
  /\ \A m \in Nids : /\ nd2[m].parent = nd[m].parent /\ nd2[m].name = nd[m].name
                     /\ nd2[m].elt = nd[m].elt
  /\ \A m \in Nids \ T : nd2[m] = nd[m]
  /\ nd2[Root].brother = NIL

(* A node of the tree is taken out of the list of its parent, marked or not. *)
LEMMA LoosenNode ==
  ASSUME NEW nd \in [Nids -> Node], NEW T \in SUBSET Nids, Leads(nd, T, {}), NEW k \in T,
         nd[k].parent \in T, Root \in T, nd[Root].brother = NIL,
         NEW A, NEW R, Forest(nd, A, R), A \subseteq T, k \in A,
         nd[k].parent \notin A => k \in R
  PROVE  Loosened(nd, Unlink(nd, k), T, A, R \cup {k})
<1> DEFINE p == nd[k].parent
           u == Unlink(nd, k)
<1>1. p \in A => Kids(nd, p) = {m \in A \ R : nd[m].parent = p}
  BY Siblings
<1>2. (Unlink(nd, k) = nd /\ k \notin Kids(nd, p)) \/ SkippedBelow(nd, Unlink(nd, k), T, k)
  BY UnlinkFacts
<1> HIDE DEF u
<1>3. CASE u = nd /\ k \notin Kids(nd, p)
  <2>1. k \in R
    BY <1>1, <1>3
  <2>2. R \cup {k} = R
    BY <2>1
  <2> QED BY <1>3, <2>2 DEF u, Loosened
<1>4. CASE SkippedBelow(nd, u, T, k)
  <2>1. PICK a \in T, f \in Fields :
          Skips(nd, u, k, a, f) /\ IF f = "brother" THEN a \in Kids(nd, p) ELSE a = p
    BY <1>4 DEF SkippedBelow
  <2>2. Leads(u, T, {})
    BY <2>1, SkipsLeads
  <2>3. ASSUME k \notin R PROVE Forest(u, A, R \cup {k})
    <3>1. p \in A /\ k \in A \ R
      BY <2>3
    <3>2. a \in A /\ Counts(R, a, f)
      BY <1>1, <2>1, <3>1 DEF Counts
    <3> QED BY <2>1, <3>1, <3>2, UnlinkForest
  <2>4. ASSUME k \in R PROVE Forest(u, A, R \cup {k})
    <3>1. R \cup {k} = R
      BY <2>4
    <3>2. ~(a \in A /\ Counts(R, a, f))
      <4>1. nd[a][f] = k /\ k # NIL
        BY <2>1 DEF Skips, Nids, NIL
      <4> QED BY <2>4, <4>1 DEF Forest, Leads
    <3>3. \A b \in A, g \in Fields : Counts(R, b, g) => u[b][g] = nd[b][g]
      BY <2>1, <3>2 DEF Skips
    <3>4. \A b \in A \ R : u[b].parent = nd[b].parent
      BY <2>1 DEF Skips
    <3>5. Forest(u, A, R)
      BY <3>3, <3>4, ForestSame
    <3> QED BY <3>1, <3>5
  <2>5. u[Root]["brother"] = NIL
    <3>1. nd[a][f] = k /\ k # NIL /\ "brother" \in Fields
      BY <2>1 DEF Skips, Nids, NIL, Fields
    <3> QED BY <2>1, <3>1 DEF Skips
  <2>6. Forest(u, A, R \cup {k})
    BY <2>3, <2>4
  <2> QED BY <2>1, <2>2, <2>5, <2>6 DEF u, Loosened, Skips
<1> QED BY <1>2, <1>3, <1>4 DEF u

(* TreeDeleteNodeExecute takes the next marked node out. *)
LEMMA CutNext ==
  ASSUME NEW nd0, NEW nd, NEW T \in SUBSET Nids, NEW D \in SUBSET (T \ {Root}), Cut(nd0, nd, T, D),
         NEW k \in T \ ({Root} \cup D), nd0[k].parent \in T, nd0[Root].parent = NIL, Root \in T
  PROVE  Cut(nd0, Deleted(nd, k), T, D \cup {k})
<1> DEFINE A == T \ D
           R == {Root} \cup {a \in A : nd0[a].parent \in D}
           u == Unlink(nd, k)
           nd2 == Deleted(nd, k)
           E == D \cup {k}
           B == R \cup {k}
           Q == (B \ {k}) \cup {m \in A \ {k} : u[m].parent = k}
<1>1. Forest(nd, A, R) /\ nd \in [Nids -> Node] /\ Leads(nd, T, {}) /\ nd[Root].brother = NIL
      /\ \A m \in Nids : nd[m].parent = nd0[m].parent
  BY DEF Cut
<1>2. k \in A /\ k \in T /\ A \subseteq T /\ nd[k].parent \in T /\ (nd[k].parent \notin A => k \in R) /\ k \in Nids
  BY <1>1
<1> HIDE DEF A, R
<1>3. Loosened(nd, u, T, A, R \cup {k})
  BY <1>1, <1>2, LoosenNode
<1>4. nd2 = [u EXCEPT ![k].name = DELETED, ![k].elt = 0, ![k].member = NIL,
                      ![k].brother = NIL, ![k].usage = "any"]
  BY DEF Deleted
<1> HIDE DEF u, nd2
<1>5. u \in [Nids -> Node]
  BY <1>3 DEF Loosened
<1>6. /\ nd2 \in [Nids -> Node] /\ \A m \in Nids \ {k} : nd2[m] = u[m]
      /\ nd2[k].name = DELETED /\ nd2[k].elt = 0 /\ nd2[k].parent = u[k].parent
      /\ nd2[k].member = NIL /\ nd2[k].brother = NIL /\ nd2[k].child = u[k].child
  <2>1. u[k] \in Node
    BY <1>2, <1>5
  <2>2. /\ [u[k] EXCEPT !.name = DELETED, !.elt = 0, !.member = NIL, !.brother = NIL, !.usage = "any"] \in Node
        /\ u[k].parent \in Links /\ u[k].child \in Links
    BY <2>1 DEF Node, Links, Usages
  <2>3. nd2 = [u EXCEPT ![k] = [u[k] EXCEPT !.name = DELETED, !.elt = 0, !.member = NIL,
                                            !.brother = NIL, !.usage = "any"]]
    BY <1>2, <1>4, <1>5
  <2>4. nd2[k] = [u[k] EXCEPT !.name = DELETED, !.elt = 0, !.member = NIL, !.brother = NIL, !.usage = "any"]
    BY <1>2, <1>5, <2>3
  <2>5. nd2 \in [Nids -> Node] /\ \A m \in Nids \ {k} : nd2[m] = u[m]
    BY <1>5, <2>2, <2>3
  <2>6. /\ nd2[k].name = DELETED /\ nd2[k].elt = 0 /\ nd2[k].parent = u[k].parent
        /\ nd2[k].member = NIL /\ nd2[k].brother = NIL /\ nd2[k].child = u[k].child
    BY <2>1, <2>4 DEF Node
  <2> QED BY <2>5, <2>6
<1>7. \A m \in Nids : nd2[m].parent = nd0[m].parent
  BY <1>1, <1>3, <1>6 DEF Loosened
<1>8. Forest(nd2, A \ {k}, Q)
  <2>1. k \in B /\ Forest(u, A, B)
    BY <1>3 DEF Loosened
  <2> HIDE DEF B
  <2>2. Forest(u, A \ {k}, Q)
    BY <2>1, DropRoot
  <2>3. \A a \in A \ {k} : nd2[a] = u[a]
    BY <1>2, <1>6
  <2> HIDE DEF Q
  <2> QED BY <2>2, <2>3, ForestSame
<1>9. A \ {k} = T \ E /\ Q = {Root} \cup {a \in T \ E : nd0[a].parent \in E}
  <2>1. \A m \in Nids : u[m].parent = nd0[m].parent
    BY <1>1, <1>3 DEF Loosened
  <2>2. A \subseteq Nids
    BY <1>2
  <2>3. k # Root
    OBVIOUS
  <2>4. \A m \in A \ {k} : u[m].parent = k <=> nd0[m].parent = k
    BY <2>1, <2>2
  <2>5. A \ {k} = T \ E
    BY DEF A
  <2>6. Q = (R \ {k}) \cup {m \in A \ {k} : nd0[m].parent = k}
    BY <2>4
  <2> QED BY <2>3, <2>5, <2>6 DEF A, R
<1>10. Leads(nd2, T, {})
  <2>1. Leads(u, T, {}) /\ T \subseteq Nids
    BY <1>3 DEF Loosened
  <2>2. \A b \in T, g \in Fields : nd2[b][g] # NIL => nd2[b][g] = u[b][g]
    BY <1>6 DEF Fields
  <2>3. \A b \in T : nd2[b].parent = u[b].parent
    BY <1>6
  <2> QED BY <2>1, <2>2, <2>3 DEF Leads, Counts
<1>11. \A m \in Nids \ E : nd2[m].name = nd0[m].name /\ nd2[m].elt = nd0[m].elt
  BY <1>3, <1>6 DEF Loosened, Cut
<1>12. \A m \in E : nd2[m].name = DELETED /\ nd2[m].elt = 0
  BY <1>3, <1>6 DEF Loosened, Cut
<1>13. \A m \in Nids \ T : nd2[m] = nd0[m]
  BY <1>3, <1>6 DEF Loosened, Cut
<1>14. nd2[Root].brother = NIL
  BY <1>3, <1>6 DEF Loosened
<1> HIDE DEF E, Q
<1>15. Forest(nd2, T \ E, {Root} \cup {a \in T \ E : nd0[a].parent \in E})
  BY <1>8, <1>9
<1>16. Cut(nd0, nd2, T, E)
  BY <1>6, <1>7, <1>10, <1>11, <1>12, <1>13, <1>14, <1>15 DEF Cut
<1> QED BY <1>16 DEF E, nd2

(* The nodes of TreeDeleteNodeExecute, marked node by marked node. *)
ExecuteLoop(marked, g) ==
  g = [k \in Nids |-> LET nd == IF k = 0 THEN node ELSE g[k - 1] IN
                      IF k \in marked THEN Deleted(nd, k) ELSE nd]

(* There is what the loop over the marked nodes computes. *)
LEMMA ExecuteLoopExists ==
  ASSUME NEW marked
  PROVE  \E g : ExecuteLoop(marked, g)
<1> DEFINE Value(g, k) == LET nd == IF k = 0 THEN node ELSE g[k - 1] IN
                          IF k \in marked THEN Deleted(nd, k) ELSE nd
           Solves(g, k) == \A i \in 0 .. k : g[i] = Value(g, i)
           bad == {k \in Nids : ~\E g : Solves(g, k)}
<1>1. MAX_NODES \in Nat /\ MAX_NODES # 0 /\ Nids = 0 .. MAX_NODES - 1
  BY TreeConstants DEF Nids
<1>2. bad = {}
  <2> SUFFICES ASSUME bad # {} PROVE FALSE
    OBVIOUS
  <2>1. bad \in SUBSET Nat
    BY NidsNat
  <2>2. PICK k \in bad : \A j \in bad : k <= j
    BY <2>1, LeastElement
  <2>3. k \in Nat /\ k \in Nids /\ ~\E g : Solves(g, k)
    BY <2>1
  <2>4. CASE k = 0
    <3> DEFINE h == [i \in {0} |-> Value(<<>>, 0)]
    <3>1. Value(h, 0) = Value(<<>>, 0)
      OBVIOUS
    <3>2. h[0] = Value(h, 0)
      BY <3>1
    <3>3. \A i \in 0 .. k : i = 0
      BY <2>4
    <3> HIDE DEF h, Value
    <3>4. Solves(h, k)
      BY <3>2, <3>3
    <3> QED BY <2>3, <3>4
  <2>5. CASE k # 0
    <3>1. k - 1 \in Nids
      BY <1>1, <2>3, <2>5
    <3>2. k - 1 \notin bad
      BY <2>2, <2>3, NidsNat
    <3>3. PICK g : Solves(g, k - 1)
      BY <3>1, <3>2
    <3> DEFINE h == [i \in 0 .. k |-> IF i = k THEN Value(g, k) ELSE g[i]]
    <3>4. \A i \in 0 .. k : Value(h, i) = Value(g, i)
      <4> SUFFICES ASSUME NEW i \in 0 .. k PROVE Value(h, i) = Value(g, i)
        OBVIOUS
      <4>1. i # 0 => i - 1 \in 0 .. k /\ i - 1 # k
        BY <2>3
      <4>2. i # 0 => h[i - 1] = g[i - 1]
        BY <4>1
      <4> HIDE DEF h
      <4> QED BY <4>2
    <3>5. \A i \in 0 .. k : h[i] = Value(g, i)
      <4> SUFFICES ASSUME NEW i \in 0 .. k PROVE h[i] = Value(g, i)
        OBVIOUS
      <4>1. i # k => i \in 0 .. k - 1
        BY <2>3
      <4>2. i # k => g[i] = Value(g, i)
        BY <3>3, <4>1
      <4> HIDE DEF Value
      <4> QED BY <4>2
    <3> HIDE DEF h, Value
    <3>6. Solves(h, k)
      BY <3>4, <3>5
    <3> QED BY <2>3, <3>6
  <2> QED BY <2>4, <2>5
<1>3. MAX_NODES - 1 \in Nids
  BY <1>1
<1>4. PICK g : Solves(g, MAX_NODES - 1)
  BY <1>2, <1>3
<1> DEFINE h == [k \in Nids |-> g[k]]
<1>5. \A k \in Nids : Value(h, k) = Value(g, k)
  <2> SUFFICES ASSUME NEW k \in Nids PROVE Value(h, k) = Value(g, k)
    OBVIOUS
  <2>1. k # 0 => k - 1 \in Nids
    BY <1>1
  <2>2. k # 0 => h[k - 1] = g[k - 1]
    BY <2>1
  <2> HIDE DEF h
  <2> QED BY <2>2
<1>6. \A k \in Nids : g[k] = Value(g, k)
  <2> HIDE DEF Value
  <2> QED BY <1>1, <1>4
<1>7. h = [k \in Nids |-> Value(h, k)]
  <2>1. \A k \in Nids : g[k] = Value(h, k)
    BY <1>5, <1>6
  <2> HIDE DEF Value
  <2> QED BY <2>1
<1>8. ExecuteLoop(marked, h)
  BY <1>7 DEF ExecuteLoop
<1> QED BY <1>8

(* The list of deleted nodes, marked node by marked node. *)
KeepLoop(marked, g) ==
  g = [k \in Nids |-> LET list == IF k = 0 THEN deleted_nid_list ELSE g[k - 1] IN
                      IF k \in marked /\ k < first_in_mem THEN <<k>> \o list ELSE list]

(* There is what the loop that keeps them computes. *)
LEMMA KeepLoopExists ==
  ASSUME NEW marked
  PROVE  \E g : KeepLoop(marked, g)
<1> DEFINE Value(g, k) == LET list == IF k = 0 THEN deleted_nid_list ELSE g[k - 1] IN
                          IF k \in marked /\ k < first_in_mem THEN <<k>> \o list ELSE list
           Solves(g, k) == \A i \in 0 .. k : g[i] = Value(g, i)
           bad == {k \in Nids : ~\E g : Solves(g, k)}
<1>1. MAX_NODES \in Nat /\ MAX_NODES # 0 /\ Nids = 0 .. MAX_NODES - 1
  BY TreeConstants DEF Nids
<1>2. bad = {}
  <2> SUFFICES ASSUME bad # {} PROVE FALSE
    OBVIOUS
  <2>1. bad \in SUBSET Nat
    BY NidsNat
  <2>2. PICK k \in bad : \A j \in bad : k <= j
    BY <2>1, LeastElement
  <2>3. k \in Nat /\ k \in Nids /\ ~\E g : Solves(g, k)
    BY <2>1
  <2>4. CASE k = 0
    <3> DEFINE h == [i \in {0} |-> Value(<<>>, 0)]
    <3>1. Value(h, 0) = Value(<<>>, 0)
      OBVIOUS
    <3>2. h[0] = Value(h, 0)
      BY <3>1
    <3>3. \A i \in 0 .. k : i = 0
      BY <2>4
    <3> HIDE DEF h, Value
    <3>4. Solves(h, k)
      BY <3>2, <3>3
    <3> QED BY <2>3, <3>4
  <2>5. CASE k # 0
    <3>1. k - 1 \in Nids
      BY <1>1, <2>3, <2>5
    <3>2. k - 1 \notin bad
      BY <2>2, <2>3, NidsNat
    <3>3. PICK g : Solves(g, k - 1)
      BY <3>1, <3>2
    <3> DEFINE h == [i \in 0 .. k |-> IF i = k THEN Value(g, k) ELSE g[i]]
    <3>4. \A i \in 0 .. k : Value(h, i) = Value(g, i)
      <4> SUFFICES ASSUME NEW i \in 0 .. k PROVE Value(h, i) = Value(g, i)
        OBVIOUS
      <4>1. i # 0 => i - 1 \in 0 .. k /\ i - 1 # k
        BY <2>3
      <4>2. i # 0 => h[i - 1] = g[i - 1]
        BY <4>1
      <4> HIDE DEF h
      <4> QED BY <4>2
    <3>5. \A i \in 0 .. k : h[i] = Value(g, i)
      <4> SUFFICES ASSUME NEW i \in 0 .. k PROVE h[i] = Value(g, i)
        OBVIOUS
      <4>1. i # k => i \in 0 .. k - 1
        BY <2>3
      <4>2. i # k => g[i] = Value(g, i)
        BY <3>3, <4>1
      <4> HIDE DEF Value
      <4> QED BY <4>2
    <3> HIDE DEF h, Value
    <3>6. Solves(h, k)
      BY <3>4, <3>5
    <3> QED BY <2>3, <3>6
  <2> QED BY <2>4, <2>5
<1>3. MAX_NODES - 1 \in Nids
  BY <1>1
<1>4. PICK g : Solves(g, MAX_NODES - 1)
  BY <1>2, <1>3
<1> DEFINE h == [k \in Nids |-> g[k]]
<1>5. \A k \in Nids : Value(h, k) = Value(g, k)
  <2> SUFFICES ASSUME NEW k \in Nids PROVE Value(h, k) = Value(g, k)
    OBVIOUS
  <2>1. k # 0 => k - 1 \in Nids
    BY <1>1
  <2>2. k # 0 => h[k - 1] = g[k - 1]
    BY <2>1
  <2> HIDE DEF h
  <2> QED BY <2>2
<1>6. \A k \in Nids : g[k] = Value(g, k)
  <2> HIDE DEF Value
  <2> QED BY <1>1, <1>4
<1>7. h = [k \in Nids |-> Value(h, k)]
  <2>1. \A k \in Nids : g[k] = Value(h, k)
    BY <1>5, <1>6
  <2> HIDE DEF Value
  <2> QED BY <2>1
<1>8. KeepLoop(marked, h)
  BY <1>7 DEF KeepLoop
<1> QED BY <1>8

(* The loops over the marked nodes have their results. *)
LEMMA LoopsFound ==
  ASSUME NEW marked
  PROVE  /\ \E g : ExecuteLoop(marked, g) /\ Executed(marked) = g[MAX_NODES - 1]
         /\ \E g : KeepLoop(marked, g) /\ Kept(marked) = g[MAX_NODES - 1]
<1>1. \E g : ExecuteLoop(marked, g) /\ Executed(marked) = g[MAX_NODES - 1]
  <2> DEFINE g == CHOOSE h : ExecuteLoop(marked, h)
  <2>1. ExecuteLoop(marked, g)
    BY ExecuteLoopExists
  <2>2. Executed(marked) = g[MAX_NODES - 1]
    BY DEF Executed, ExecuteLoop
  <2> HIDE DEF g
  <2> QED BY <2>1, <2>2
<1>2. \E g : KeepLoop(marked, g) /\ Kept(marked) = g[MAX_NODES - 1]
  <2> DEFINE g == CHOOSE h : KeepLoop(marked, h)
  <2>1. KeepLoop(marked, g)
    BY KeepLoopExists
  <2>2. Kept(marked) = g[MAX_NODES - 1]
    BY DEF Kept, KeepLoop
  <2> HIDE DEF g
  <2> QED BY <2>1, <2>2
<1> QED BY <1>1, <1>2

(* Node by node the marked ones are out of the tree. *)
LEMMA ExecutedEach ==
  ASSUME Inv, NEW M \in SUBSET (InTree \ {Root}), NEW g, ExecuteLoop(M, g)
  PROVE  \A k \in Nids : Cut(node, g[k], InTree, M \cap (0 .. k))
<1> DEFINE T == InTree
           D(k) == M \cap (0 .. k)
           bad == {k \in Nids : ~Cut(node, g[k], T, D(k))}
<1>1. Good(Pool, T, FreeNodes) /\ Pool.node = node
  BY DEF Inv, Pool
<1>2. /\ T \subseteq Nids /\ Root \in T /\ node \in [Nids -> Node] /\ Forest(node, T, {Root})
      /\ node[Root].brother = NIL /\ node[Root].parent = NIL
      /\ Leads(node, T, {}) /\ \A m \in T \ {Root} : node[m].parent \in T
  BY <1>1, GoodFacts, GoodLeads, GoodType DEF Good
<1>3. \A k \in Nids : g[k] = LET nd == IF k = 0 THEN node ELSE g[k - 1] IN
                             IF k \in M THEN Deleted(nd, k) ELSE nd
  BY DEF ExecuteLoop
<1> HIDE DEF T, D
<1>4. M \subseteq T \ {Root} /\ Nids \subseteq Nat
  BY NidsNat DEF T
<1>5. Cut(node, node, T, {})
  <2>1. T \ {} = T /\ {Root} \cup {a \in T \ {} : node[a].parent \in {}} = {Root}
    OBVIOUS
  <2> QED BY <1>2, <2>1 DEF Cut
<1> SUFFICES ASSUME bad # {} PROVE FALSE
  BY DEF T, D
<1>6. PICK k \in bad : \A j \in bad : k <= j
  BY <1>4, LeastElement
<1>7. k \in Nids /\ k \in Nat /\ ~Cut(node, g[k], T, D(k))
  BY <1>4
<1> DEFINE nd == IF k = 0 THEN node ELSE g[k - 1]
           E == D(k) \ {k}
<1>8. Cut(node, nd, T, E)
  <2>1. CASE k = 0
    <3>1. E = {}
      BY <2>1 DEF D
    <3> QED BY <1>5, <2>1, <3>1
  <2>2. CASE k # 0
    <3>1. k - 1 \in Nids /\ k - 1 < k
      BY <1>7, <2>2, TreeConstants DEF Nids
    <3>2. k - 1 \notin bad
      BY <1>6, <1>7, <3>1
    <3>3. Cut(node, g[k - 1], T, D(k - 1))
      BY <3>1, <3>2
    <3>4. D(k - 1) = E
      <4>1. \A m \in M : m \in Nat
        BY <1>2, <1>4
      <4> QED BY <1>7, <4>1 DEF D
    <3> QED BY <2>2, <3>3, <3>4
  <2> QED BY <2>1, <2>2
<1>9. g[k] = IF k \in M THEN Deleted(nd, k) ELSE nd
  BY <1>3, <1>7
<1>10. CASE k \in M
  <2>1. E \in SUBSET (T \ {Root}) /\ k \in T \ ({Root} \cup E) /\ node[k].parent \in T
    BY <1>2, <1>4, <1>10 DEF D
  <2>2. E \cup {k} = D(k)
    BY <1>7, <1>10 DEF D
  <2> HIDE DEF nd, E
  <2>3. Cut(node, Deleted(nd, k), T, E \cup {k})
    BY <1>2, <1>8, <2>1, CutNext
  <2> QED BY <1>7, <1>9, <1>10, <2>2, <2>3
<1>11. CASE k \notin M
  <2>1. E = D(k)
    BY <1>11 DEF D
  <2> QED BY <1>7, <1>8, <1>9, <1>11, <2>1
<1> QED BY <1>10, <1>11

(* No node is in a list twice. *)
Once(list) == \A i, j \in DOMAIN list : list[i] = list[j] => i = j

(* list has the deleted nodes and some of the marked ones up to k, each once. *)
KeptTo(M, list, k) ==
  /\ list \in Seq(0 .. first_in_mem - 1)
  /\ Elements(list) \subseteq Elements(deleted_nid_list) \cup (M \cap (0 .. k))
  /\ Once(list)

(* A node that is put in front of the list. *)
LEMMA KeptMore ==
  ASSUME NEW V, NEW list \in Seq(V), NEW k \in V, k \notin Elements(list),
         Once(list),
         NEW more, more = <<k>> \o list
  PROVE  /\ more \in Seq(V) /\ Elements(more) = Elements(list) \cup {k}
         /\ Once(more)
<1>1. <<k>> \in Seq(V) /\ Len(<<k>>) = 1 /\ <<k>>[1] = k
  OBVIOUS
<1>2. more \in Seq(V) /\ Len(more) = Len(list) + 1 /\ Len(list) \in Nat
  BY <1>1
<1>3. DOMAIN more = 1 .. Len(list) + 1 /\ DOMAIN list = 1 .. Len(list)
  BY <1>2
<1>4. \A i \in 1 .. Len(list) + 1 : more[i] = IF i = 1 THEN k ELSE list[i - 1]
  BY <1>1
<1>5. \A i \in 1 .. Len(list) : i + 1 \in 1 .. Len(list) + 1 /\ i + 1 # 1 /\ (i + 1) - 1 = i
  BY <1>2
<1>6. \A i \in 1 .. Len(list) + 1 : i # 1 => i - 1 \in 1 .. Len(list)
  BY <1>2
<1>7. Elements(more) = Elements(list) \cup {k}
  <2>1. Elements(more) \subseteq Elements(list) \cup {k}
    BY <1>3, <1>4, <1>6 DEF Elements
  <2>2. \A i \in DOMAIN list : list[i] \in Elements(more)
    <3> SUFFICES ASSUME NEW i \in 1 .. Len(list) PROVE list[i] \in Elements(more)
      BY <1>3
    <3>1. more[i + 1] = list[i] /\ i + 1 \in DOMAIN more
      BY <1>3, <1>4, <1>5
    <3> QED BY <3>1 DEF Elements
  <2>3. 1 \in DOMAIN more /\ more[1] = k
    BY <1>2, <1>3, <1>4
  <2>4. k \in Elements(more)
    BY <2>3 DEF Elements
  <2>5. ASSUME NEW e \in Elements(list) PROVE e \in Elements(more)
    <3>1. PICK i \in DOMAIN list : e = list[i]
      BY DEF Elements
    <3> QED BY <2>2, <3>1
  <2> QED BY <2>1, <2>4, <2>5
<1>8. ASSUME NEW i \in DOMAIN more, NEW j \in DOMAIN more, more[i] = more[j] PROVE i = j
  <2>0. i \in 1 .. Len(list) + 1 /\ j \in 1 .. Len(list) + 1 /\ Len(list) \in Nat
    BY <1>2, <1>3
  <2>1. \A a \in DOMAIN list : list[a] # k
    BY DEF Elements
  <2>2. CASE i = 1 \/ j = 1
    BY <1>3, <1>4, <1>6, <1>8, <2>0, <2>1, <2>2
  <2>3. CASE i # 1 /\ j # 1
    <3>1. i - 1 \in DOMAIN list /\ j - 1 \in DOMAIN list /\ list[i - 1] = list[j - 1]
      BY <1>3, <1>4, <1>6, <1>8, <2>0, <2>3
    <3>2. i - 1 = j - 1
      BY <3>1 DEF Once
    <3> QED BY <2>0, <3>2
  <2> QED BY <2>2, <2>3
<1> QED BY <1>2, <1>7, <1>8 DEF Once

(* After k rounds the deleted nodes up to k are in the list, each once. *)
LEMMA KeptEach ==
  ASSUME Inv, NEW M \in SUBSET InTree, NEW g, KeepLoop(M, g)
  PROVE  \A k \in Nids : KeptTo(M, g[k], k)
<1> DEFINE old == deleted_nid_list
           V == 0 .. first_in_mem - 1
           bad == {k \in Nids : ~KeptTo(M, g[k], k)}
<1>1. /\ old \in Seq(V) /\ first_in_mem \in Nat
      /\ Elements(old) \subseteq Gone(Pool) /\ Once(old)
      /\ InTree \cap Gone(Pool) = {} /\ InTree \subseteq Nat
  <2>1. Good(Pool, InTree, FreeNodes)
    BY DEF Inv
  <2>2. InTree \cap Gone(Pool) = {} /\ InTree \subseteq Nids
    BY <2>1, GoodFacts
  <2>3. nodes \in Nat /\ first_in_mem \in Nat
    BY TreeConstants DEF Inv, TypeOK
  <2> QED BY <2>2, <2>3, NidsNat DEF Inv, TypeOK, Listed, Once
<1>2. \A k \in Nids : g[k] = LET list == IF k = 0 THEN old ELSE g[k - 1] IN
                             IF k \in M /\ k < first_in_mem THEN <<k>> \o list ELSE list
  BY DEF KeepLoop
<1> HIDE DEF V
<1> SUFFICES ASSUME bad # {} PROVE FALSE
  OBVIOUS
<1>3. PICK k \in bad : \A j \in bad : k <= j
  BY NidsNat, LeastElement
<1>4. k \in Nids /\ k \in Nat /\ ~KeptTo(M, g[k], k)
  BY NidsNat
<1> DEFINE list == IF k = 0 THEN old ELSE g[k - 1]
<1>5. /\ list \in Seq(V) /\ Elements(list) \subseteq Elements(old) \cup ((M \cap (0 .. k)) \ {k})
      /\ Once(list)
  <2>1. CASE k = 0
    BY <1>1, <2>1
  <2>2. CASE k # 0
    <3>1. k - 1 \in Nids /\ k - 1 < k
      BY <1>4, <2>2, TreeConstants DEF Nids
    <3>2. k - 1 \notin bad
      BY <1>3, <1>4, <3>1
    <3>3. KeptTo(M, g[k - 1], k - 1)
      BY <3>1, <3>2
    <3>4. M \cap (0 .. k - 1) = (M \cap (0 .. k)) \ {k}
      BY <1>1, <1>4
    <3> QED BY <2>2, <3>3, <3>4 DEF KeptTo, V
  <2> QED BY <2>1, <2>2
<1>6. g[k] = IF k \in M /\ k < first_in_mem THEN <<k>> \o list ELSE list
  BY <1>2, <1>4
<1> HIDE DEF list
<1>7. CASE k \in M /\ k < first_in_mem
  <2>1. k \in V
    BY <1>1, <1>4, <1>7 DEF V
  <2>2. k \notin Elements(list)
    BY <1>1, <1>5, <1>7
  <2>3. g[k] = <<k>> \o list
    BY <1>6, <1>7
  <2>4. g[k] \in Seq(V) /\ Elements(g[k]) = Elements(list) \cup {k} /\ Once(g[k])
    BY <1>5, <2>1, <2>2, <2>3, KeptMore
  <2>5. k \in M \cap (0 .. k)
    BY <1>4, <1>7
  <2>6. KeptTo(M, g[k], k)
    BY <1>5, <2>4, <2>5 DEF KeptTo, V
  <2> QED BY <1>4, <2>6
<1>8. CASE ~(k \in M /\ k < first_in_mem)
  <2>1. g[k] = list
    BY <1>6, <1>8
  <2>2. KeptTo(M, g[k], k)
    BY <1>5, <2>1 DEF KeptTo, V
  <2> QED BY <1>4, <2>2
<1> QED BY <1>7, <1>8

(* The marked nodes are deleted, the others are as they were. *)
Removed(M) ==
  /\ M \subseteq InTree \ {Root}
  /\ \A m \in InTree \ {Root} : node[m].parent \in M => m \in M
  /\ \A m \in M : Conglomerate(m) \subseteq M
  /\ Good(Pool', InTree \ M, FreeNodes) /\ Listed(deleted_nid_list', Pool', FreeNodes)
  /\ deleted_nid_list' \in Seq(0 .. first_in_mem - 1)
  /\ \A m \in InTree \ M : /\ node'[m].parent = node[m].parent /\ node'[m].name = node[m].name
                           /\ node'[m].elt = node[m].elt
  /\ \A m \in M : node'[m].name = DELETED

(* A deletion takes the marked nodes, and nothing else, out of the tree. *)
LEMMA DeleteStep ==
  ASSUME Inv, NEW n \in InTree, TreeDeleteNode(n)
  PROVE  Removed(check_nid(n)) /\ n \in check_nid(n)
<1> DEFINE T == InTree
           F == FreeNodes
           M == check_nid(n)
           last == MAX_NODES - 1
           V == 0 .. first_in_mem - 1
<1>1. /\ Good(Pool, T, F) /\ Pool.node = node /\ Pool.nodes = nodes /\ Pool.free = free
      /\ Listed(deleted_nid_list, Pool, F)
  BY DEF Inv, Pool
<1>2. /\ Forest(node, T, {Root}) /\ Chain(node, F, free) /\ nodes \in 0 .. MAX_NODES /\ free \in Links
      /\ F \subseteq 0 .. nodes - 1 /\ F \subseteq Nids /\ T \subseteq Nids /\ T \subseteq 0 .. nodes - 1
      /\ 0 .. nodes - 1 \subseteq Nids /\ Root \in T /\ T \cap F = {} /\ T \cap Gone(Pool) = {}
  <2>1. /\ Forest(node, T, {Root}) /\ Chain(node, F, free) /\ nodes \in 0 .. MAX_NODES /\ free \in Links
        /\ F \subseteq 0 .. nodes - 1 /\ F \subseteq Nids /\ T \subseteq Nids /\ T \subseteq 0 .. nodes - 1
        /\ Root \in T /\ T \cap F = {} /\ T \cap Gone(Pool) = {}
    BY <1>1, GoodFacts DEF Good, IsPool
  <2> QED BY <2>1, TreeConstants DEF Nids
<1>3. /\ n \in M /\ M \subseteq T \ {Root} /\ \A m \in M : Conglomerate(m) \subseteq M
      /\ \A m \in T \ {Root} : node[m].parent \in M => m \in M
  <2>1. n \in T \ {Root}
    BY DEF TreeDeleteNode
  <2> QED BY <2>1, MarkedFacts
<1>4. /\ node' = Executed(M) /\ deleted_nid_list' = Kept(M) /\ nodes' = nodes /\ free' = free
  BY DEF TreeDeleteNode, poolVars
<1> HIDE DEF M
<1>5. last \in Nids /\ M \cap (0 .. last) = M
  <2>1. last \in Nids /\ Nids = 0 .. last
    BY TreeConstants DEF Nids
  <2> QED BY <1>2, <1>3, <2>1
<1>6. Cut(node, node', T, M)
  <2>1. PICK g : ExecuteLoop(M, g) /\ Executed(M) = g[last]
    BY LoopsFound
  <2> HIDE DEF last
  <2>2. Cut(node, g[last], T, M \cap (0 .. last))
    BY <1>3, <1>5, <2>1, ExecutedEach
  <2> QED BY <1>4, <1>5, <2>1, <2>2
<1>7. KeptTo(M, deleted_nid_list', last)
  <2>1. PICK g : KeepLoop(M, g) /\ Kept(M) = g[last]
    BY LoopsFound
  <2> HIDE DEF last
  <2>2. M \in SUBSET InTree
    BY <1>3
  <2>3. KeptTo(M, g[last], last)
    BY <1>5, <2>1, <2>2, KeptEach
  <2> QED BY <1>4, <2>1, <2>3
<1> HIDE DEF T, F
<1>8. Pool'.node = node' /\ Pool'.nodes = nodes /\ Pool'.free = free
  BY <1>4 DEF Pool
<1>9. Gone(Pool') = Gone(Pool) \cup M
  <2>1. \A m \in 0 .. nodes - 1 : node'[m].name = DELETED <=> node[m].name = DELETED \/ m \in M
    BY <1>2, <1>6 DEF Cut
  <2>2. M \subseteq 0 .. nodes - 1
    BY <1>2, <1>3
  <2> QED BY <1>1, <1>8, <2>1, <2>2 DEF Gone
<1>10. Forest(node', T \ M, {Root})
  <2>1. {Root} \cup {a \in T \ M : node[a].parent \in M} = {Root}
    BY <1>3
  <2> QED BY <1>6, <2>1 DEF Cut
<1>11. IsPool(Pool', F)
  <2>1. \A m \in F : node'[m] = node[m]
    BY <1>2, <1>6 DEF Cut
  <2>2. Chain(node', F, free)
    BY <1>2, <2>1, ChainSame
  <2> QED BY <1>2, <1>6, <1>8, <2>2 DEF Cut, IsPool
<1>12. Good(Pool', T \ M, F)
  <2>1. /\ node[Root].parent = NIL /\ node[Root].name = EMPTY /\ node[Root].elt = 0
        /\ T \cup F \cup Gone(Pool) = 0 .. nodes - 1
        /\ \A m \in T \ {Root} : node[m].name \in Names
        /\ \A m \in (0 .. nodes - 1) \ T : node[m].elt = 0
    BY <1>1 DEF Good
  <2>2. /\ node'[Root].parent = NIL /\ node'[Root].name = EMPTY /\ node'[Root].elt = 0
        /\ node'[Root].brother = NIL
    BY <1>2, <1>3, <1>6, <2>1 DEF Cut
  <2>3. \A m \in (T \ M) \ {Root} : node'[m].name \in Names
    BY <1>2, <1>6, <2>1 DEF Cut
  <2>4. \A m \in (0 .. nodes - 1) \ (T \ M) : node'[m].elt = 0
    BY <1>2, <1>6, <2>1 DEF Cut
  <2>5. (T \ M) \cup F \cup Gone(Pool') = 0 .. nodes - 1
    BY <1>3, <1>9, <2>1
  <2> QED BY <1>2, <1>8, <1>10, <1>11, <2>2, <2>3, <2>4, <2>5 DEF Good
<1>13. Listed(deleted_nid_list', Pool', F)
  <2>1. Elements(deleted_nid_list') \subseteq Elements(deleted_nid_list) \cup M /\ Once(deleted_nid_list')
    BY <1>5, <1>7 DEF KeptTo
  <2>2. M \cap F = {}
    BY <1>2, <1>3
  <2> QED BY <1>1, <1>9, <2>1, <2>2 DEF Listed, Once
<1>14. deleted_nid_list' \in Seq(V)
  BY <1>7 DEF KeptTo
<1>15. /\ \A m \in T \ M : /\ node'[m].parent = node[m].parent /\ node'[m].name = node[m].name
                           /\ node'[m].elt = node[m].elt
       /\ \A m \in M : node'[m].name = DELETED
  BY <1>2, <1>6 DEF Cut
<1> QED BY <1>3, <1>12, <1>13, <1>14, <1>15 DEF Removed, T, F, M

-----------------------------------------------------------------------------
(* The invariant holds. *)

(* What the types are of, but the array and the list of free nodes. *)
OtherTypes ==
  /\ first_in_mem \in 0 .. nodes
  /\ deleted_nid_list \in Seq(0 .. first_in_mem - 1)
  /\ conglomerate_size \in Sizes \cup {0} /\ conglomerate_index \in 0 .. conglomerate_size
  /\ external \subseteq Nids
  /\ nci \in [Nids -> [off : BOOLEAN, parentOff : BOOLEAN]]
  /\ default_node \in 0 .. nodes - 1 /\ modified \in BOOLEAN

(* The default node is a node of the tree. *)
DefaultLives == default_node \in InTree

(* A good array makes the invariant hold, if the other variables are of their types. *)
LEMMA InvOf ==
  ASSUME NEW T, NEW F, Good(Pool, T, F), Listed(deleted_nid_list, Pool, F), OtherTypes
  PROVE  Inv
<1>1. Pool.node = node /\ Pool.nodes = nodes /\ Pool.free = free
  BY DEF Pool
<1>2. T = InTree /\ F = FreeNodes
  BY <1>1, GoodFacts DEF InTree, FreeNodes
<1>3. node \in [Nids -> Node] /\ nodes \in 1 .. MAX_NODES /\ free \in 0 .. nodes - 1 \cup {NIL}
  BY <1>1, GoodType
<1> QED BY <1>2, <1>3 DEF Inv, TypeOK, OtherTypes

(* The same of the next state. *)
LEMMA InvNext ==
  ASSUME NEW T, NEW F, Good(Pool', T, F), Listed(deleted_nid_list', Pool', F), OtherTypes'
  PROVE  Inv'
<1>1. Pool'.node = node' /\ Pool'.nodes = nodes' /\ Pool'.free = free'
  BY DEF Pool
<1>2. T = InTree' /\ F = FreeNodes'
  BY GoodNext
<1>3. node' \in [Nids -> Node] /\ nodes' \in 1 .. MAX_NODES /\ free' \in 0 .. nodes' - 1 \cup {NIL}
  BY <1>1, GoodType
<1> QED BY <1>2, <1>3 DEF Inv, TypeOK, OtherTypes

(* The invariant does not depend on what is not in the array or the lists. *)
LEMMA InvSame ==
  ASSUME Inv, UNCHANGED <<node, poolVars, deleted_nid_list>>, OtherTypes'
  PROVE  Inv'
<1>1. Pool' = Pool /\ deleted_nid_list' = deleted_nid_list
  BY DEF Pool, poolVars
<1>2. Good(Pool', InTree, FreeNodes) /\ Listed(deleted_nid_list', Pool', FreeNodes)
  BY <1>1 DEF Inv
<1> HIDE DEF Inv
<1> QED BY <1>2, InvNext

(* What the invariant says of types. *)
LEMMA TypesOf ==
  ASSUME Inv
  PROVE  /\ OtherTypes /\ Good(Pool, InTree, FreeNodes) /\ Listed(deleted_nid_list, Pool, FreeNodes)
         /\ Pool.node = node /\ Pool.nodes = nodes /\ Pool.free = free
         /\ nodes \in 1 .. MAX_NODES /\ MAX_NODES \in Nat /\ InTree \subseteq Nids /\ InTree \subseteq 0 .. nodes - 1
         /\ Root \in InTree /\ InTree \cap Gone(Pool) = {}
<1>1. Good(Pool, InTree, FreeNodes)
  BY DEF Inv
<1>2. Pool.node = node /\ Pool.nodes = nodes /\ Pool.free = free
  BY DEF Pool
<1>3. OtherTypes /\ Listed(deleted_nid_list, Pool, FreeNodes)
  BY DEF Inv, TypeOK, OtherTypes
<1>4. InTree \subseteq 0 .. Pool.nodes - 1 /\ InTree \subseteq Nids /\ Root \in InTree
      /\ InTree \cap Gone(Pool) = {} /\ Pool.nodes \in 1 .. MAX_NODES
  BY <1>1, GoodFacts
<1> QED BY <1>1, <1>2, <1>3, <1>4, TreeConstants

(* The flags of a node are truth values. *)
LEMMA OnTypes ==
  ASSUME OtherTypes, NEW n \in Nids
  PROVE  /\ nci[n].off \in BOOLEAN /\ nci[n].parentOff \in BOOLEAN /\ IsOn(n) \in BOOLEAN
         /\ nci[n] = [off |-> nci[n].off, parentOff |-> nci[n].parentOff]
         /\ \A b \in BOOLEAN : [nci[n] EXCEPT !.parentOff = b] = [off |-> nci[n].off, parentOff |-> b]
         /\ \A b \in BOOLEAN : [nci[n] EXCEPT !.off = b] = [off |-> b, parentOff |-> nci[n].parentOff]
<1>1. nci[n] \in [off : BOOLEAN, parentOff : BOOLEAN]
  BY DEF OtherTypes
<1> QED BY <1>1 DEF IsOn

(***************************************************************************)
(* What tree_set_parent_state reaches: S, some nodes of one parent, and     *)
(* what is below a node that it reaches and that is not off.                *)
(***************************************************************************)
Reached(nd, S) == Closure(S, [m \in Nids |-> IF nci[m].off THEN {} ELSE Kids(nd, m)])

(* The nodes of below know the state of their parents. *)
Told(known, below, state) ==
  /\ known \in [Nids -> [off : BOOLEAN, parentOff : BOOLEAN]]
  /\ \A n \in Nids : /\ known[n].off = nci[n].off
                     /\ known[n].parentOff = IF n \in below THEN state ELSE nci[n].parentOff

(* tree_set_parent_state tells the nodes it reaches, and no others. *)
LEMMA StateFacts ==
  ASSUME OtherTypes, NEW nd, NEW S, NEW state \in BOOLEAN
  PROVE  Told(tree_set_parent_state(nd, S, state), Reached(nd, S), state)
<1> DEFINE below == Reached(nd, S)
           known == tree_set_parent_state(nd, S, state)
<1>1. known = [n \in Nids |-> IF n \in below THEN [nci[n] EXCEPT !.parentOff = state] ELSE nci[n]]
  BY DEF tree_set_parent_state, Reached
<1> HIDE DEF below, known
<1>2. \A n \in Nids : /\ known[n] \in [off : BOOLEAN, parentOff : BOOLEAN]
                      /\ known[n].off = nci[n].off
                      /\ known[n].parentOff = IF n \in below THEN state ELSE nci[n].parentOff
  <2> SUFFICES ASSUME NEW n \in Nids
               PROVE  /\ known[n] \in [off : BOOLEAN, parentOff : BOOLEAN]
                      /\ known[n].off = nci[n].off
                      /\ known[n].parentOff = IF n \in below THEN state ELSE nci[n].parentOff
    OBVIOUS
  <2>1. nci[n].off \in BOOLEAN /\ nci[n] \in [off : BOOLEAN, parentOff : BOOLEAN]
        /\ [nci[n] EXCEPT !.parentOff = state] = [off |-> nci[n].off, parentOff |-> state]
    BY OnTypes DEF OtherTypes
  <2>2. known[n] = IF n \in below THEN [nci[n] EXCEPT !.parentOff = state] ELSE nci[n]
    BY <1>1
  <2> QED BY <2>1, <2>2
<1>3. known \in [Nids -> [off : BOOLEAN, parentOff : BOOLEAN]]
  BY <1>1, <1>2
<1>4. Told(known, below, state)
  BY <1>2, <1>3 DEF Told
<1> QED BY <1>4 DEF below, known

(* _TreeAddNode keeps the invariant. *)
LEMMA InvAdd ==
  ASSUME Inv, NEW p \in InTree, NEW x \in Names, NEW usage \in AddUsages, TreeAddNode(p, x, usage)
  PROVE  Inv'
<1> DEFINE index == IF conglomerate_size = 0 THEN 0 ELSE conglomerate_index + 1
<1>1. /\ OtherTypes /\ nodes \in 1 .. MAX_NODES /\ MAX_NODES \in Nat /\ p \in Nids /\ usage \in Usages
  BY TypesOf, TreeConstants DEF Usages
<1>2. /\ conglomerate_size \in Nat /\ conglomerate_index \in 0 .. conglomerate_size
      /\ first_in_mem \in 0 .. nodes /\ default_node \in 0 .. nodes - 1
  BY <1>1, TreeConstants DEF OtherTypes
<1>3. UNCHANGED <<first_in_mem, deleted_nid_list, external, default_node>>
  BY DEF TreeAddNode
<1>4. CASE TooMany(index)
  <2>1. /\ conglomerate_size' = 0 /\ conglomerate_index' = 0
        /\ UNCHANGED <<node, poolVars, nci, modified>>
    BY <1>4 DEF TreeAddNode
  <2>2. OtherTypes'
    BY <1>1, <1>3, <2>1 DEF OtherTypes, poolVars
  <2> QED BY <1>3, <2>1, <2>2, InvSame
<1>5. CASE ~TooMany(index)
  <2>1. Adds(p, x, usage, index) /\ conglomerate_index' = index /\ UNCHANGED conglomerate_size
    BY <1>5 DEF TreeAddNode
  <2>2. index \in Nat /\ index \in 0 .. conglomerate_size
    BY <1>2, <1>5 DEF TooMany
  <2> HIDE DEF index
  <2>3. Added(p, x, index)
    BY <1>1, <2>1, <2>2, AddStep
  <2> DEFINE n == TreeNewNode(Pool).nid
             F == Offered(Pool, FreeNodes) \ {n}
  <2>4. Good(Pool', InTree \cup {n}, F) /\ Listed(deleted_nid_list, Pool', F) /\ n \in Nids /\ nodes <= nodes'
    BY <2>3 DEF Added
  <2> HIDE DEF n, F
  <2>5. nodes' \in Nat
    <3>1. Pool'.nodes \in 1 .. MAX_NODES
      BY <2>4, GoodType
    <3> QED BY <1>1, <3>1 DEF Pool
  <2>6. nci' \in [Nids -> [off : BOOLEAN, parentOff : BOOLEAN]] /\ modified' = TRUE
    <3>1. nci' = [nci EXCEPT ![n] = [off |-> FALSE, parentOff |-> ~IsOn(p)]] /\ modified' = TRUE
      BY <2>1 DEF Adds, n
    <3>2. IsOn(p) \in BOOLEAN
      BY <1>1, OnTypes
    <3>3. [off |-> FALSE, parentOff |-> ~IsOn(p)] \in [off : BOOLEAN, parentOff : BOOLEAN]
      BY <3>2
    <3> QED BY <1>1, <3>1, <3>3 DEF OtherTypes
  <2>7. first_in_mem \in 0 .. nodes' /\ default_node \in 0 .. nodes' - 1
    <3>1. nodes \in Nat /\ nodes <= nodes'
      BY <1>1, <2>4
    <3>2. 0 .. nodes \subseteq 0 .. nodes' /\ 0 .. nodes - 1 \subseteq 0 .. nodes' - 1
      BY <2>5, <3>1, WiderTo
    <3> QED BY <1>2, <3>2
  <2>8. OtherTypes'
    BY <1>1, <1>3, <2>1, <2>2, <2>6, <2>7 DEF OtherTypes
  <2>9. Listed(deleted_nid_list', Pool', F)
    BY <1>3, <2>4
  <2> QED BY <2>4, <2>8, <2>9, InvNext
<1> QED BY <1>4, <1>5

(* _TreeRenameNode keeps the invariant. *)
LEMMA InvRename ==
  ASSUME Inv, NEW n \in InTree \ {Root}, NEW p \in InTree, NEW x \in Names, NEW is_child \in BOOLEAN,
         TreeRenameNode(n, p, x, is_child)
  PROVE  Inv'
<1>1. OtherTypes /\ p \in Nids /\ Listed(deleted_nid_list, Pool, FreeNodes)
  BY TypesOf
<1>2. /\ Good(Pool', InTree, FreeNodes) /\ Gone(Pool') = Gone(Pool)
  BY RenameStep DEF Renamed
<1>3. UNCHANGED <<poolVars, first_in_mem, deleted_nid_list, conglomerateVars, external, default_node>>
      /\ modified' = TRUE
  BY DEF TreeRenameNode
<1>4. nci' \in [Nids -> [off : BOOLEAN, parentOff : BOOLEAN]]
  <2>1. PICK nd, S : nci' = tree_set_parent_state(nd, S, ~IsOn(p)) \/ nci' = nci
    BY DEF TreeRenameNode
  <2>0. IsOn(p) \in BOOLEAN
    BY <1>1, OnTypes
  <2>2. (~IsOn(p)) \in BOOLEAN
    BY <2>0
  <2>3. CASE nci' = nci
    BY <1>1, <2>3 DEF OtherTypes
  <2>4. CASE nci' = tree_set_parent_state(nd, S, ~IsOn(p))
    <3> DEFINE state == ~IsOn(p)
    <3>1. state \in BOOLEAN /\ nci' = tree_set_parent_state(nd, S, state)
      BY <2>2, <2>4
    <3> HIDE DEF state
    <3> QED BY <1>1, <3>1, StateFacts DEF Told
  <2> QED BY <2>1, <2>3, <2>4
<1>5. OtherTypes'
  BY <1>1, <1>3, <1>4 DEF OtherTypes, poolVars, conglomerateVars
<1>6. Listed(deleted_nid_list', Pool', FreeNodes)
  BY <1>1, <1>2, <1>3 DEF Listed
<1> QED BY <1>2, <1>5, <1>6, InvNext

(* _TreeStartConglomerate keeps the invariant. *)
LEMMA InvStart ==
  ASSUME Inv, NEW size \in Sizes, TreeStartConglomerate(size)
  PROVE  Inv'
<1>1. OtherTypes /\ nodes \in 1 .. MAX_NODES /\ MAX_NODES \in Nat
  BY TypesOf
<1>2. PICK F : Started(size, F)
  BY StartStep
<1>3. Good(Pool', InTree, F) /\ Listed(deleted_nid_list, Pool', F) /\ nodes <= nodes'
  BY <1>2 DEF Started
<1>4. /\ conglomerate_size' = size /\ conglomerate_index' = 0
      /\ UNCHANGED <<first_in_mem, deleted_nid_list, external, nci, default_node, modified>>
  BY DEF TreeStartConglomerate
<1>5. nodes' \in Nat
  <2>1. Pool'.nodes \in 1 .. MAX_NODES
    BY <1>3, GoodType
  <2> QED BY <1>1, <2>1 DEF Pool
<1>6. first_in_mem' \in 0 .. nodes' /\ default_node' \in 0 .. nodes' - 1
  <2>1. nodes \in Nat /\ nodes <= nodes'
    BY <1>1, <1>3
  <2>2. 0 .. nodes \subseteq 0 .. nodes' /\ 0 .. nodes - 1 \subseteq 0 .. nodes' - 1
    BY <1>5, <2>1, WiderTo
  <2> QED BY <1>1, <1>4, <2>2 DEF OtherTypes
<1>7. conglomerate_index' \in 0 .. conglomerate_size'
  BY <1>4, TreeConstants
<1>8. OtherTypes'
  BY <1>1, <1>4, <1>6, <1>7 DEF OtherTypes
<1>9. Listed(deleted_nid_list', Pool', F)
  BY <1>3, <1>4
<1> QED BY <1>3, <1>8, <1>9, InvNext

(* _TreeWriteTree keeps the invariant. *)
LEMMA InvWrite ==
  ASSUME Inv, DefaultLives, NEW outcome \in Outcomes, TreeWriteTree(outcome)
  PROVE  Inv'
<1>1. OtherTypes /\ nodes \in 1 .. MAX_NODES /\ MAX_NODES \in Nat
  BY TypesOf
<1>2. PICK F : Good(Pool', InTree, F)
  BY WriteStep DEF Written
<1>3. nodes' <= nodes /\ first_in_mem <= nodes'
  BY WriteStep DEF Written
<1>4. nodes' \in Nat /\ InTree \subseteq 0 .. nodes' - 1
  <2>1. Pool'.nodes \in 1 .. MAX_NODES /\ InTree \subseteq 0 .. Pool'.nodes - 1
    BY <1>2, GoodFacts
  <2> QED BY <1>1, <2>1 DEF Pool
<1>5. /\ nci' = [n \in Nids |-> IF n \in Elements(deleted_nid_list) \/ n >= nodes' THEN On
                                ELSE Written_nci(n)]
      /\ deleted_nid_list' = <<>> /\ modified' = (modified /\ outcome \notin {"create", "done"})
      /\ UNCHANGED <<conglomerateVars, external, default_node>>
  BY DEF TreeWriteTree
<1>6. first_in_mem' \in 0 .. nodes'
  <2> DEFINE pool == trim_excess_nodes(FreeDeleted(Pool))
  <2>1. nodes' = pool.nodes
    BY DEF TreeWriteTree
  <2>2. (CASE outcome \in {"create", "tree"} -> UNCHANGED first_in_mem
           [] outcome = "nci" -> first_in_mem' \in first_in_mem .. pool.nodes - 1
           [] outcome \in {"move", "done"} -> first_in_mem' = pool.nodes)
    BY DEF TreeWriteTree
  <2> HIDE DEF pool
  <2>3. outcome \in {"create", "tree"} \/ outcome = "nci" \/ outcome \in {"move", "done"}
    BY TreeConstants
  <2>4. first_in_mem \in Nat
    BY <1>1 DEF OtherTypes
  <2>5. CASE outcome \in {"create", "tree"}
    <3>1. first_in_mem' = first_in_mem
      BY <2>2, <2>5
    <3>2. first_in_mem \in 0 .. nodes'
      BY <1>3, <1>4, <2>4, WiderTo
    <3> QED BY <3>1, <3>2
  <2>6. CASE outcome = "nci"
    BY <1>4, <2>1, <2>2, <2>4, <2>6
  <2>7. CASE outcome \in {"move", "done"}
    <3>1. first_in_mem' = nodes'
      BY <2>1, <2>2, <2>7
    <3>2. nodes' \in 0 .. nodes'
      BY <1>4
    <3> QED BY <3>1, <3>2
  <2> QED BY <2>3, <2>5, <2>6, <2>7
<1>7. nci' \in [Nids -> [off : BOOLEAN, parentOff : BOOLEAN]]
  <2>1. On \in [off : BOOLEAN, parentOff : BOOLEAN]
    BY DEF On
  <2>2. first_in_mem \in Nat /\ first_in_mem' \in Nat
    BY <1>1, <1>4, <1>6 DEF OtherTypes
  <2>3. first_in_mem <= first_in_mem'
    <3> DEFINE pool == trim_excess_nodes(FreeDeleted(Pool))
    <3>1. nodes' = pool.nodes
      BY DEF TreeWriteTree
    <3>2. (CASE outcome \in {"create", "tree"} -> UNCHANGED first_in_mem
             [] outcome = "nci" -> first_in_mem' \in first_in_mem .. pool.nodes - 1
             [] outcome \in {"move", "done"} -> first_in_mem' = pool.nodes)
      BY DEF TreeWriteTree
    <3> HIDE DEF pool
    <3>3. outcome \in {"create", "tree"} \/ outcome = "nci" \/ outcome \in {"move", "done"}
      BY TreeConstants
    <3>4. CASE outcome \in {"create", "tree"}
      <4>1. first_in_mem' = first_in_mem
        BY <3>2, <3>4
      <4> QED BY <2>2, <4>1
    <3>5. CASE outcome = "nci"
      <4>1. first_in_mem' \in first_in_mem .. pool.nodes - 1
        BY <3>2, <3>5
      <4> QED BY <1>4, <2>2, <3>1, <4>1
    <3>6. CASE outcome \in {"move", "done"}
      <4>1. first_in_mem' = pool.nodes
        BY <3>2, <3>6
      <4> QED BY <1>3, <3>1, <4>1
    <3> QED BY <3>3, <3>4, <3>5, <3>6
  <2>4. ASSUME NEW n \in Nids, n < nodes'
        PROVE  Written_nci(n) \in [off : BOOLEAN, parentOff : BOOLEAN]
    <3> DEFINE k == n - (first_in_mem' - first_in_mem)
    <3>1. n >= first_in_mem' => k \in Nids
      <4>1. n \in Nat /\ n <= MAX_NODES - 1
        BY <1>1 DEF Nids
      <4>2. n >= first_in_mem' => k \in 0 .. n
        BY <2>2, <2>3, <4>1, Shifted
      <4> HIDE DEF k
      <4> QED BY <1>1, <4>1, <4>2 DEF Nids
    <3> HIDE DEF k
    <3>2. nci[n] \in [off : BOOLEAN, parentOff : BOOLEAN]
          /\ (k \in Nids => nci[k] \in [off : BOOLEAN, parentOff : BOOLEAN])
      BY <1>1 DEF OtherTypes
    <3>3. n \in Nat
      BY NidsNat
    <3> QED BY <2>2, <3>1, <3>2, <3>3 DEF Written_nci, k
  <2>5. ASSUME NEW n \in Nids
        PROVE  n < nodes' \/ n >= nodes'
    BY <1>4, NidsNat
  <2> QED BY <1>5, <2>1, <2>4, <2>5
<1>8. default_node' \in 0 .. nodes' - 1 /\ deleted_nid_list' \in Seq(0 .. first_in_mem' - 1)
      /\ modified' \in BOOLEAN
  <2>1. default_node' \in 0 .. nodes' - 1
    BY <1>4, <1>5 DEF DefaultLives
  <2>2. deleted_nid_list' \in Seq(0 .. first_in_mem' - 1)
    BY <1>5
  <2>3. modified \in BOOLEAN
    BY <1>1 DEF OtherTypes
  <2>4. modified' \in BOOLEAN
    BY <1>5, <2>3
  <2> QED BY <2>1, <2>2, <2>4
<1>9. OtherTypes'
  BY <1>1, <1>5, <1>6, <1>7, <1>8 DEF OtherTypes, conglomerateVars
<1>10. Listed(deleted_nid_list', Pool', F)
  BY <1>5 DEF Listed, Elements
<1> QED BY <1>2, <1>9, <1>10, InvNext

(* _TreeDeleteNodeExecute keeps the invariant. *)
LEMMA InvDelete ==
  ASSUME Inv, NEW n \in InTree, TreeDeleteNode(n)
  PROVE  Inv'
<1> DEFINE M == check_nid(n)
<1>1. OtherTypes
  BY TypesOf
<1>2. /\ Good(Pool', InTree \ M, FreeNodes) /\ Listed(deleted_nid_list', Pool', FreeNodes)
      /\ deleted_nid_list' \in Seq(0 .. first_in_mem - 1)
  BY DeleteStep DEF Removed
<1>3. /\ external' = external \ M
      /\ nci' = [m \in Nids |-> IF m \in M /\ m >= first_in_mem THEN On ELSE nci[m]]
      /\ modified' = TRUE /\ UNCHANGED <<poolVars, first_in_mem, conglomerateVars, default_node>>
  BY DEF TreeDeleteNode, NoSubtree
<1> HIDE DEF M
<1>4. nci' \in [Nids -> [off : BOOLEAN, parentOff : BOOLEAN]]
  <2>1. On \in [off : BOOLEAN, parentOff : BOOLEAN]
    BY DEF On
  <2> QED BY <1>1, <1>3, <2>1 DEF OtherTypes
<1>5. OtherTypes'
  BY <1>1, <1>2, <1>3, <1>4 DEF OtherTypes, poolVars, conglomerateVars
<1> QED BY <1>2, <1>5, InvNext

(* _TreeTurnOn and _TreeTurnOff keep the invariant. *)
LEMMA InvState ==
  ASSUME Inv, NEW n \in InTree, NEW off \in BOOLEAN, SetState(n, off)
  PROVE  Inv'
<1> DEFINE known == IF nci[n].parentOff THEN nci
                    ELSE tree_set_parent_state(node, Kids(node, n), off)
<1>1. OtherTypes /\ n \in Nids
  BY TypesOf
<1>2. /\ nci' = [known EXCEPT ![n].off = off]
      /\ UNCHANGED <<node, poolVars, first_in_mem, deleted_nid_list, conglomerateVars, external,
                     default_node, modified>>
  BY DEF SetState
<1>3. known \in [Nids -> [off : BOOLEAN, parentOff : BOOLEAN]]
  <2>1. CASE nci[n].parentOff
    BY <1>1, <2>1 DEF OtherTypes
  <2>2. CASE ~nci[n].parentOff
    <3> DEFINE S == Kids(node, n)
    <3>1. known = tree_set_parent_state(node, S, off)
      BY <2>2
    <3> HIDE DEF known, S
    <3> QED BY <1>1, <3>1, StateFacts DEF Told
  <2> QED BY <2>1, <2>2
<1> HIDE DEF known
<1>4. nci' \in [Nids -> [off : BOOLEAN, parentOff : BOOLEAN]]
  BY <1>1, <1>2, <1>3
<1>5. OtherTypes'
  BY <1>1, <1>2, <1>4 DEF OtherTypes, poolVars, conglomerateVars
<1> QED BY <1>2, <1>5, InvSame

(* Only the usage of a node changes. *)
LEMMA InvUsage ==
  ASSUME Inv, NEW n \in InTree, NEW usage \in Usages, node' = [node EXCEPT ![n].usage = usage],
         external' \subseteq Nids, modified' \in BOOLEAN,
         UNCHANGED <<poolVars, first_in_mem, deleted_nid_list, conglomerateVars, nci, default_node>>
  PROVE  /\ Inv' /\ InTree' = InTree /\ FreeNodes' = FreeNodes
         /\ \A m \in Nids : /\ node'[m].parent = node[m].parent /\ node'[m].name = node[m].name
                            /\ node'[m].elt = node[m].elt
<1>1. /\ OtherTypes /\ Good(Pool, InTree, FreeNodes) /\ Listed(deleted_nid_list, Pool, FreeNodes)
      /\ Pool.node = node /\ Pool.nodes = nodes /\ Pool.free = free /\ n \in Nids
  BY TypesOf
<1>2. node \in [Nids -> Node]
  BY <1>1, GoodType
<1>3. /\ node' \in [Nids -> Node]
      /\ \A m \in Nids : /\ \A f \in Fields : node'[m][f] = node[m][f]
                         /\ node'[m].parent = node[m].parent
                         /\ node'[m].name = node[m].name
                         /\ node'[m].elt = node[m].elt
  BY <1>1, <1>2 DEF Node, Fields
<1>4. Pool'.node = node' /\ Pool'.nodes = nodes /\ Pool'.free = free
  BY DEF Pool, poolVars
<1>5. /\ Pool'.node \in [Nids -> Node] /\ Pool'.nodes = Pool.nodes /\ Pool'.free = Pool.free
      /\ \A m \in Nids : /\ \A f \in Fields : Pool'.node[m][f] = Pool.node[m][f]
                         /\ Pool'.node[m].parent = Pool.node[m].parent
                         /\ Pool'.node[m].name = Pool.node[m].name
                         /\ Pool'.node[m].elt = Pool.node[m].elt
  BY <1>1, <1>3, <1>4
<1>6. Good(Pool', InTree, FreeNodes) /\ Gone(Pool') = Gone(Pool)
  BY <1>1, <1>5, GoodSame
<1>7. Listed(deleted_nid_list', Pool', FreeNodes)
  BY <1>1, <1>6 DEF Listed
<1>8. OtherTypes'
  BY <1>1 DEF OtherTypes, poolVars, conglomerateVars
<1>9. InTree' = InTree /\ FreeNodes' = FreeNodes
  BY <1>6, GoodNext
<1> QED BY <1>3, <1>6, <1>7, <1>8, <1>9, InvNext

(* The invariant is true of a new tree. *)
LEMMA InvInit ==
  ASSUME Init
  PROVE  Inv
<1>1. Good(Pool, {Root}, FreeNodes)
  BY InitGood
<1>2. nodes \in 1 .. MAX_NODES
  <2>1. Pool.nodes \in 1 .. MAX_NODES
    BY <1>1, GoodType
  <2> QED BY <2>1 DEF Pool
<1>3. /\ first_in_mem = 0 /\ deleted_nid_list = <<>> /\ conglomerate_size = 0 /\ conglomerate_index = 0
      /\ external = {} /\ nci = [n \in Nids |-> On] /\ default_node = Root /\ modified = FALSE
  BY DEF Init
<1>4. OtherTypes
  <2>1. On \in [off : BOOLEAN, parentOff : BOOLEAN]
    BY DEF On
  <2>2. nci \in [Nids -> [off : BOOLEAN, parentOff : BOOLEAN]]
    BY <1>3, <2>1
  <2>3. first_in_mem \in 0 .. nodes /\ default_node \in 0 .. nodes - 1
    BY <1>2, <1>3, TreeConstants DEF Root
  <2>4. deleted_nid_list \in Seq(0 .. first_in_mem - 1)
    BY <1>3
  <2>6. external \subseteq Nids /\ modified \in BOOLEAN
    BY <1>3
  <2>5. conglomerate_size \in Sizes \cup {0} /\ conglomerate_index \in 0 .. conglomerate_size
    BY <1>3
  <2> QED BY <2>2, <2>3, <2>4, <2>5, <2>6 DEF OtherTypes
<1>5. Listed(deleted_nid_list, Pool, FreeNodes)
  BY <1>3 DEF Listed, Elements
<1> QED BY <1>1, <1>4, <1>5, InvOf

(* Every step keeps the invariant while the default node is in the tree. *)
LEMMA InvStep ==
  ASSUME Inv, DefaultLives, [Next]_vars
  PROVE  Inv'
<1>1. Parents = InTree
  BY DEF Parents, DefaultLives
<1>2. OtherTypes /\ InTree \subseteq Nids
  BY TypesOf
<1>3. ASSUME NEW p \in Parents, NEW x \in Names, NEW usage \in AddUsages, TreeAddNode(p, x, usage)
      PROVE  Inv'
  BY <1>1, <1>3, InvAdd
<1>4. ASSUME NEW n \in InTree \ {Root}, NEW p \in Parents, NEW x \in Names, NEW is_child \in BOOLEAN,
             TreeRenameNode(n, p, x, is_child)
      PROVE  Inv'
  BY <1>1, <1>4, InvRename
<1>5. ASSUME NEW size \in Sizes, TreeStartConglomerate(size) PROVE Inv'
  BY <1>5, InvStart
<1>6. CASE TreeEndConglomerate
  <2>1. /\ conglomerate_size' = 0 /\ conglomerate_index' = 0
        /\ UNCHANGED <<node, poolVars, first_in_mem, deleted_nid_list, external, nci, default_node,
                       modified>>
    BY <1>6 DEF TreeEndConglomerate
  <2>2. OtherTypes'
    BY <1>2, <2>1 DEF OtherTypes, poolVars
  <2> QED BY <2>1, <2>2, InvSame
<1>7. ASSUME NEW outcome \in Outcomes, TreeWriteTree(outcome) PROVE Inv'
  BY <1>7, InvWrite
<1>8. ASSUME NEW n \in InTree, TreeDeleteNode(n) PROVE Inv'
  BY <1>8, InvDelete
<1>9. ASSUME NEW n \in InTree, TreeTurnOn(n) PROVE Inv'
  BY <1>9, InvState DEF TreeTurnOn
<1>10. ASSUME NEW n \in InTree, TreeTurnOff(n) PROVE Inv'
  BY <1>10, InvState DEF TreeTurnOff
<1>11. ASSUME NEW n \in InTree, TreeSetSubtree(n) PROVE Inv'
  <2>1. /\ external' = external \cup {n} /\ node' = [node EXCEPT ![n].usage = "subtree"]
        /\ modified' = (modified \/ external' # external \/ node' # node)
        /\ UNCHANGED <<poolVars, first_in_mem, deleted_nid_list, conglomerateVars, nci, default_node>>
    BY <1>11 DEF TreeSetSubtree
  <2>2. external' \subseteq Nids /\ modified' \in BOOLEAN /\ "subtree" \in Usages
    BY <1>2, <2>1 DEF OtherTypes, Usages
  <2> QED BY <2>1, <2>2, InvUsage
<1>12. ASSUME NEW n \in InTree, TreeSetNoSubtree(n) PROVE Inv'
  <2>1. /\ external' = external \ {n} /\ node' = [node EXCEPT ![n].usage = "structure"]
        /\ modified' = TRUE
        /\ UNCHANGED <<poolVars, first_in_mem, deleted_nid_list, conglomerateVars, nci, default_node>>
    BY <1>12 DEF TreeSetNoSubtree
  <2>2. external' \subseteq Nids /\ modified' \in BOOLEAN /\ "structure" \in Usages
    BY <1>2, <2>1 DEF OtherTypes, Usages
  <2> QED BY <2>1, <2>2, InvUsage
<1>13. ASSUME NEW n \in InTree, TreeSetDefault(n) PROVE Inv'
  <2>1. /\ default_node' = n
        /\ UNCHANGED <<node, poolVars, first_in_mem, deleted_nid_list, conglomerateVars, external, nci,
                       modified>>
    BY <1>13 DEF TreeSetDefault
  <2>2. n \in 0 .. nodes - 1
    BY TypesOf
  <2>3. OtherTypes'
    BY <1>2, <2>1, <2>2 DEF OtherTypes, poolVars, conglomerateVars
  <2> QED BY <2>1, <2>3, InvSame
<1>14. CASE UNCHANGED vars
  <2>1. OtherTypes'
    BY <1>2, <1>14 DEF OtherTypes, vars
  <2> QED BY <1>14, <2>1, InvSame DEF vars, poolVars
<1> QED BY <1>3, <1>4, <1>5, <1>6, <1>7, <1>8, <1>9, <1>10, <1>11, <1>12, <1>13, <1>14 DEF Next

(***************************************************************************)
(* As long as the default node is a node of the tree, every editing step    *)
(* leaves the array sound.                                                  *)
(***************************************************************************)
LEMMA InvHolds == Spec /\ []DefaultLives => []Inv
<1>1. Init => Inv
  BY InvInit
<1>2. Inv /\ DefaultLives /\ [Next]_vars => Inv'
  BY InvStep
<1> QED BY <1>1, <1>2, PTL DEF Spec

(***************************************************************************)
(* All variables stay within their types: a link leads to a node of the     *)
(* array, and no conglomerate gets more elements than it was started with.  *)
(***************************************************************************)
THEOREM TypeCorrect == Spec /\ []DefaultLives => []TypeOK
<1>1. Inv => TypeOK
  BY DEF Inv
<1> QED BY <1>1, InvHolds, PTL

(* The links of a good array are sound. *)
LEMMA LinkedInv ==
  ASSUME Inv
  PROVE  Linked
<1> DEFINE T == InTree
           F == FreeNodes
<1>1. /\ Good(Pool, T, F) /\ Pool.node = node /\ Pool.free = free /\ T \subseteq Nids /\ Root \in T
  BY TypesOf
<1>2. /\ Forest(node, T, {Root}) /\ Chain(node, F, free) /\ node[Root].brother = NIL
      /\ Leads(node, T, {}) /\ Root # NIL
  <2>1. Forest(node, T, {Root}) /\ Chain(node, F, free) /\ node[Root].brother = NIL
    BY <1>1 DEF Good, IsPool
  <2>2. Leads(node, T, {})
    BY <1>1, GoodLeads
  <2> QED BY <2>1, <2>2 DEF Root, NIL
<1> HIDE DEF T, F
<1>3. ASSUME NEW n \in T
      PROVE  /\ \A m \in {node[n].child, node[n].member} \ {NIL} : node[m].parent = n
             /\ node[n].brother # NIL => node[node[n].brother].parent = node[n].parent
  <2>1. \A f \in Fields : node[n][f] # NIL =>
          node[node[n][f]].parent = IF f = "brother" THEN node[n].parent ELSE n
    BY <1>2 DEF Leads, Counts
  <2>2. \A f \in {"child", "member"} : node[n][f] # NIL => node[node[n][f]].parent = n
    BY <2>1 DEF Fields
  <2>3. node[n]["brother"] # NIL => node[node[n]["brother"]].parent = node[n].parent
    BY <2>1 DEF Fields
  <2> QED BY <2>2, <2>3
<1>4. \A n \in F : node[n].parent # NIL => node[node[n].parent].child = n
  BY <1>2 DEF Chain, TwoWay
<1>5. free # NIL => node[free].child = NIL
  BY <1>2 DEF Chain, Headed
<1>6. ASSUME NEW n \in T
      PROVE  Cardinality({m \in T : n \in {node[m].child, node[m].member, node[m].brother}})
               = (IF n = Root THEN 0 ELSE 1)
  <2> DEFINE E == {m \in T : n \in {node[m].child, node[m].member, node[m].brother}}
  <2>1. \A m \in T : m \in E <=> \E f \in Fields : node[m][f] = n
    BY DEF Fields
  <2>2. n # NIL
    BY <1>1 DEF Nids, NIL
  <2>3. \A m \in T, f \in Fields : node[m][f] = n => Counts({Root}, m, f) /\ n # Root
    BY <1>2, <2>2 DEF Forest, Leads, Counts, Fields
  <2>4. E \subseteq T
    OBVIOUS
  <2> HIDE DEF E
  <2>5. CASE n = Root
    <3>1. E = {}
      BY <2>1, <2>3, <2>4, <2>5
    <3> QED BY <2>5, <3>1, FS_EmptySet DEF E
  <2>6. CASE n # Root
    <3>1. PICK a \in T, f \in Fields : node[a][f] = n
      <4>1. n \in T \ {Root} /\ Forest(node, T, {Root})
        BY <1>2, <2>6
      <4>2. \E a \in T \ {n}, f \in Fields : Counts({Root}, a, f) /\ node[a][f] = n
        BY <4>1, ForestEntry
      <4> QED BY <4>2
    <3>2. ASSUME NEW m \in E PROVE m = a
      <4>1. PICK g \in Fields : node[m][g] = n
        BY <2>1, <2>4
      <4>2. m \in T /\ Counts({Root}, m, g) /\ Counts({Root}, a, f) /\ node[m][g] # NIL /\ node[m][g] = node[a][f]
        BY <2>2, <2>3, <2>4, <3>1, <4>1
      <4>3. Single(node, T, {Root})
        BY <1>2 DEF Forest
      <4> QED BY <4>2, <4>3 DEF Single
    <3>3. a \in E
      BY <2>1, <3>1
    <3>4. E = {a}
      BY <3>2, <3>3
    <3>5. Cardinality(E) = 1
      BY <3>4, FS_Singleton
    <3> QED BY <2>6, <3>5 DEF E
  <2> QED BY <2>5, <2>6
<1> QED BY <1>3, <1>4, <1>5, <1>6 DEF T, F, Linked, TreeVerify

(***************************************************************************)
(* TreeVerify finds no bad linkage, no node is met twice, and the list of   *)
(* free nodes can be gone through both ways.                                *)
(***************************************************************************)
THEOREM LinkedAlways == Spec /\ []DefaultLives => []Linked
<1>1. Inv => Linked
  BY LinkedInv
<1> QED BY <1>1, InvHolds, PTL

(* The nodes of a good array are accounted for. *)
LEMMA AccountedInv ==
  ASSUME Inv
  PROVE  Accounted
<1> DEFINE gone == {n \in 0 .. nodes - 1 : node[n].name = DELETED}
           list == deleted_nid_list
           len == Len(list)
           V == 0 .. first_in_mem - 1
<1>1. /\ Good(Pool, InTree, FreeNodes) /\ Pool.node = node /\ Pool.nodes = nodes
      /\ Listed(list, Pool, FreeNodes) /\ InTree \cap Gone(Pool) = {} /\ OtherTypes
  BY TypesOf
<1>2. gone = Gone(Pool)
  BY <1>1 DEF Gone
<1> HIDE DEF gone
<1>3. /\ InTree \cup FreeNodes \cup gone = 0 .. nodes - 1 /\ InTree \cap (FreeNodes \cup gone) = {}
  BY <1>1, <1>2 DEF Good
<1>4. Elements(list) \subseteq gone \ FreeNodes
  BY <1>1, <1>2 DEF Listed
<1>5. Cardinality(Elements(list)) = len
  <2>1. list \in Seq(V) /\ \A i, j \in DOMAIN list : list[i] = list[j] => i = j
    BY <1>1 DEF OtherTypes, Listed
  <2>2. len \in Nat /\ DOMAIN list = 1 .. len /\ list = [i \in 1 .. len |-> list[i]]
    BY <2>1
  <2>3. list \in [1 .. len -> Elements(list)]
    BY <2>2 DEF Elements
  <2> HIDE DEF list, len, V
  <2>4. list \in Injection(1 .. len, Elements(list))
    BY <2>1, <2>2, <2>3 DEF Injection, IsInjective
  <2>5. \A e \in Elements(list) : \E i \in 1 .. len : list[i] = e
    BY <2>2 DEF Elements
  <2>6. list \in Surjection(1 .. len, Elements(list))
    BY <2>3, <2>5 DEF Surjection
  <2>7. ExistsBijection(1 .. len, Elements(list))
    BY <2>4, <2>6 DEF ExistsBijection, Bijection
  <2>8. IsFiniteSet(1 .. len) /\ Cardinality(1 .. len) = len
    <3>1. IsFiniteSet(1 .. len) /\ Cardinality(1 .. len) = IF 1 > len THEN 0 ELSE len - 1 + 1
      BY <2>2, FS_Interval
    <3> QED BY <2>2, <3>1
  <2> QED BY <2>7, <2>8, FS_Bijection
<1> QED BY <1>3, <1>4, <1>5 DEF gone, Accounted

(***************************************************************************)
(* No node is lost and none is in two places: a node is in the tree, free   *)
(* or deleted, and a deleted one waits for the next write at most once.     *)
(***************************************************************************)
THEOREM AccountedAlways == Spec /\ []DefaultLives => []Accounted
<1>1. Inv => Accounted
  BY AccountedInv
<1> QED BY <1>1, InvHolds, PTL

-----------------------------------------------------------------------------
(* What a step does to the tree. *)

(* A node x is made below p. *)
Adding ==
  \E p \in InTree, x \in Names, n \in Nids \ InTree :
    /\ Found(p, x) = {} /\ InTree' = InTree \cup {n}
    /\ node'[n].parent = p /\ node'[n].name = x
    /\ \A m \in InTree : node'[m].parent = node[m].parent /\ node'[m].name = node[m].name
    /\ nci' = [nci EXCEPT ![n] = [off |-> FALSE, parentOff |-> ~IsOn(p)]]
    /\ external' = external

(* Node n is x below p. *)
Renaming ==
  \E n \in InTree \ {Root}, p \in InTree, x \in Names :
    /\ Found(p, x) = {} /\ n \notin Ancestors(p)
    /\ Good(Pool', InTree, FreeNodes) /\ InTree' = InTree
    /\ node'[n].parent = p /\ node'[n].name = x
    /\ \A m \in InTree \ {n} : node'[m].parent = node[m].parent /\ node'[m].name = node[m].name
    /\ nci' = IF nci[n].parentOff = IsOn(p)
                THEN tree_set_parent_state(node', Brothers(node', n), ~IsOn(p))
                ELSE nci
    /\ external' = external

(* The nodes of M, with what is below them, are deleted. *)
Removing ==
  \E M \in SUBSET (InTree \ {Root}) :
    /\ \A m \in InTree \ {Root} : node[m].parent \in M => m \in M
    /\ InTree' = InTree \ M
    /\ \A m \in InTree \ M : node'[m].parent = node[m].parent /\ node'[m].name = node[m].name
    /\ \A m \in M : node'[m].name = DELETED
    /\ \A m \in InTree \ M : nci'[m] = nci[m]
    /\ external' = external \ M

(* The tree is the same. *)
Staying ==
  /\ InTree' = InTree
  /\ \A m \in InTree : node'[m].parent = node[m].parent /\ node'[m].name = node[m].name
  /\ \/ \A m \in InTree : nci'[m] = nci[m]
     \/ \E n \in InTree, off \in BOOLEAN : SetState(n, off)
     \/ "nci" \in Outcomes
  /\ external' \subseteq external \cup InTree

(* The tree depends on the array only. *)
LEMMA SameTree ==
  ASSUME node' = node
  PROVE  InTree' = InTree
BY DEF InTree

(* What _TreeAddNode does to the tree. *)
LEMMA AddingStep ==
  ASSUME Inv, NEW p \in InTree, NEW x \in Names, NEW usage \in AddUsages, TreeAddNode(p, x, usage)
  PROVE  Adding \/ Staying
<1> DEFINE index == IF conglomerate_size = 0 THEN 0 ELSE conglomerate_index + 1
<1>1. OtherTypes /\ usage \in Usages
  BY TypesOf, TreeConstants DEF Usages
<1>2. Found(p, x) = {} /\ UNCHANGED <<first_in_mem, deleted_nid_list, external, default_node>>
  BY DEF TreeAddNode
<1>3. CASE TooMany(index)
  <2>1. node' = node /\ nci' = nci
    BY <1>3 DEF TreeAddNode
  <2> QED BY <1>2, <2>1, SameTree DEF Staying
<1>4. CASE ~TooMany(index)
  <2>1. Adds(p, x, usage, index)
    BY <1>4 DEF TreeAddNode
  <2>2. index \in Nat
    BY <1>1, TreeConstants DEF OtherTypes
  <2> HIDE DEF index
  <2>3. Added(p, x, index)
    BY <1>1, <2>1, <2>2, AddStep
  <2> DEFINE n == TreeNewNode(Pool).nid
             F == Offered(Pool, FreeNodes) \ {n}
  <2>4. /\ Good(Pool', InTree \cup {n}, F) /\ n \in Nids \ InTree
        /\ node'[n].parent = p /\ node'[n].name = x
        /\ \A m \in InTree : node'[m].parent = node[m].parent /\ node'[m].name = node[m].name
    BY <2>3 DEF Added
  <2>5. nci' = [nci EXCEPT ![n] = [off |-> FALSE, parentOff |-> ~IsOn(p)]]
    BY <2>1 DEF Adds
  <2> HIDE DEF n, F
  <2>6. InTree' = InTree \cup {n}
    BY <2>4, GoodNext
  <2>7. Adding
    BY <1>2, <2>4, <2>5, <2>6 DEF Adding
  <2> QED BY <2>7
<1> QED BY <1>3, <1>4

(* What _TreeRenameNode does to the tree. *)
LEMMA RenamingStep ==
  ASSUME Inv, NEW n \in InTree \ {Root}, NEW p \in InTree, NEW x \in Names, NEW is_child \in BOOLEAN,
         TreeRenameNode(n, p, x, is_child)
  PROVE  Renaming
<1>1. /\ Good(Pool', InTree, FreeNodes) /\ node'[n].parent = p /\ node'[n].name = x
      /\ \A m \in Nids \ {n} : node'[m].parent = node[m].parent /\ node'[m].name = node[m].name
  BY RenameStep DEF Renamed
<1>2. InTree' = InTree /\ InTree \subseteq Nids
  BY <1>1, GoodNext, TypesOf
<1>3. /\ Found(p, x) = {} /\ n \notin Ancestors(p) /\ external' = external
      /\ nci' = IF nci[n].parentOff = IsOn(p)
                  THEN tree_set_parent_state(node', Brothers(node', n), ~IsOn(p))
                  ELSE nci
  BY DEF TreeRenameNode
<1>4. \A m \in InTree \ {n} : node'[m].parent = node[m].parent /\ node'[m].name = node[m].name
  BY <1>1, <1>2
<1> QED BY <1>1, <1>2, <1>3, <1>4 DEF Renaming

(* What a deletion does to the tree. *)
LEMMA RemovingStep ==
  ASSUME Inv, NEW n \in InTree, TreeDeleteNode(n)
  PROVE  Removing
<1> DEFINE M == check_nid(n)
<1>1. Removed(M)
  BY DeleteStep
<1>2. nci' = [m \in Nids |-> IF m \in M /\ m >= first_in_mem THEN On ELSE nci[m]] /\ external' = external \ M
  BY DEF TreeDeleteNode, NoSubtree
<1> HIDE DEF M
<1>3. Good(Pool', InTree \ M, FreeNodes)
  BY <1>1 DEF Removed
<1>4. InTree' = InTree \ M /\ InTree \subseteq Nids
  BY <1>3, GoodNext, TypesOf
<1>5. \A m \in InTree \ M : nci'[m] = nci[m]
  BY <1>2, <1>4
<1>6. /\ M \in SUBSET (InTree \ {Root}) /\ \A m \in InTree \ {Root} : node[m].parent \in M => m \in M
      /\ \A m \in InTree \ M : node'[m].parent = node[m].parent /\ node'[m].name = node[m].name
      /\ \A m \in M : node'[m].name = DELETED
  BY <1>1 DEF Removed
<1> QED BY <1>2, <1>4, <1>5, <1>6 DEF Removing

(* A write does nothing to the tree. *)
LEMMA WriteStays ==
  ASSUME Inv, NEW outcome \in Outcomes, TreeWriteTree(outcome)
  PROVE  Staying
<1>1. PICK F : Good(Pool', InTree, F)
  BY WriteStep DEF Written
<1>2. \A m \in InTree : node'[m] = node[m]
  BY WriteStep DEF Written
<1>3. InTree' = InTree
  BY <1>1, GoodNext
<1>4. /\ nci' = [n \in Nids |-> IF n \in Elements(deleted_nid_list) \/ n >= nodes' THEN On
                                ELSE Written_nci(n)]
      /\ external' = external
  BY DEF TreeWriteTree
<1>5. InTree \subseteq Nids /\ InTree \cap Elements(deleted_nid_list) = {}
  BY TypesOf DEF Listed
<1>6. nodes' \in Nat /\ InTree \subseteq 0 .. nodes' - 1
  <2>1. Pool'.nodes \in 1 .. MAX_NODES /\ InTree \subseteq 0 .. Pool'.nodes - 1 /\ MAX_NODES \in Nat
    BY <1>1, GoodFacts, TypesOf
  <2> QED BY <2>1 DEF Pool
<1>7. CASE "nci" \notin Outcomes
  <2> DEFINE pool == trim_excess_nodes(FreeDeleted(Pool))
  <2>1. nodes' = pool.nodes /\ (outcome \in {"create", "tree"} => first_in_mem' = first_in_mem)
        /\ (outcome \in {"move", "done"} => first_in_mem' = pool.nodes)
    BY DEF TreeWriteTree
  <2> HIDE DEF pool
  <2>2. first_in_mem' = first_in_mem \/ first_in_mem' = nodes'
    BY <1>7, <2>1, TreeConstants
  <2>3. first_in_mem \in Nat
    BY TypesOf DEF OtherTypes
  <2>4. ASSUME NEW m \in InTree PROVE nci'[m] = nci[m]
    <3>1. m \in Nids /\ m \in Nat /\ m < nodes' /\ m \notin Elements(deleted_nid_list)
      <4>1. m \in 0 .. nodes' - 1
        BY <1>6
      <4>2. m \in Nat /\ m < nodes'
        <5> DEFINE b == nodes'
        <5>1. b \in Nat /\ m \in 0 .. b - 1
          BY <1>6, <4>1
        <5> HIDE DEF b
        <5>2. m \in Nat /\ m < b
          BY <5>1
        <5> QED BY <5>2 DEF b
      <4> QED BY <1>5, <4>2
    <3>2. nci'[m] = Written_nci(m)
      BY <1>4, <1>6, <3>1
    <3>3. Written_nci(m) = nci[m]
      BY <1>6, <2>2, <2>3, <3>1 DEF Written_nci
    <3> QED BY <3>2, <3>3
  <2> QED BY <1>2, <1>3, <1>4, <2>4 DEF Staying
<1>8. CASE "nci" \in Outcomes
  BY <1>2, <1>3, <1>4, <1>8 DEF Staying
<1> QED BY <1>7, <1>8

(* The start of a conglomerate does nothing to the tree. *)
LEMMA StartStays ==
  ASSUME Inv, NEW size \in Sizes, TreeStartConglomerate(size)
  PROVE  Staying
<1>1. PICK F : Started(size, F)
  BY StartStep
<1>2. Good(Pool', InTree, F) /\ \A m \in InTree : node'[m] = node[m]
  BY <1>1 DEF Started
<1>3. InTree' = InTree
  BY <1>2, GoodNext
<1>4. nci' = nci /\ external' = external
  BY DEF TreeStartConglomerate
<1> QED BY <1>2, <1>3, <1>4 DEF Staying

(* Every step makes a node, moves one, deletes some or leaves the tree as it is. *)
LEMMA EditSteps ==
  ASSUME Inv, DefaultLives, [Next]_vars
  PROVE  Adding \/ Renaming \/ Staying \/ \E n \in InTree : TreeDeleteNode(n)
<1>1. Parents = InTree /\ InTree \subseteq Nids /\ OtherTypes
  BY TypesOf DEF Parents, DefaultLives
<1>2. ASSUME NEW p \in Parents, NEW x \in Names, NEW usage \in AddUsages, TreeAddNode(p, x, usage)
      PROVE  Adding \/ Staying
  BY <1>1, <1>2, AddingStep
<1>3. ASSUME NEW n \in InTree \ {Root}, NEW p \in Parents, NEW x \in Names, NEW is_child \in BOOLEAN,
             TreeRenameNode(n, p, x, is_child)
      PROVE  Renaming
  BY <1>1, <1>3, RenamingStep
<1>4. ASSUME NEW size \in Sizes, TreeStartConglomerate(size) PROVE Staying
  BY <1>4, StartStays
<1>5. ASSUME node' = node, nci' = nci, external' = external PROVE Staying
  BY <1>5, SameTree DEF Staying
<1>6. CASE TreeEndConglomerate
  BY <1>5, <1>6 DEF TreeEndConglomerate
<1>7. ASSUME NEW outcome \in Outcomes, TreeWriteTree(outcome) PROVE Staying
  BY <1>7, WriteStays
<1>9. ASSUME NEW n \in InTree, NEW off \in BOOLEAN, SetState(n, off) PROVE Staying
  <2>1. node' = node /\ external' = external
    BY <1>9 DEF SetState
  <2> QED BY <1>9, <2>1, SameTree DEF Staying
<1>10. ASSUME NEW n \in InTree, TreeTurnOn(n) \/ TreeTurnOff(n) PROVE Staying
  BY <1>9, <1>10 DEF TreeTurnOn, TreeTurnOff
<1>11. ASSUME NEW n \in InTree, NEW usage \in Usages, node' = [node EXCEPT ![n].usage = usage],
              external' \subseteq external \cup InTree, modified' \in BOOLEAN,
              UNCHANGED <<poolVars, first_in_mem, deleted_nid_list, conglomerateVars, nci, default_node>>
       PROVE  Staying
  <2>1. external' \subseteq Nids
    BY <1>1, <1>11 DEF OtherTypes
  <2>2. InTree' = InTree /\ \A m \in Nids : node'[m].parent = node[m].parent /\ node'[m].name = node[m].name
    BY <1>11, <2>1, InvUsage
  <2> QED BY <1>1, <1>11, <2>2 DEF Staying
<1>12. ASSUME NEW n \in InTree, TreeSetSubtree(n) PROVE Staying
  <2>1. /\ external' = external \cup {n} /\ node' = [node EXCEPT ![n].usage = "subtree"]
        /\ modified' = (modified \/ external' # external \/ node' # node)
        /\ UNCHANGED <<poolVars, first_in_mem, deleted_nid_list, conglomerateVars, nci, default_node>>
    BY <1>12 DEF TreeSetSubtree
  <2>2. modified' \in BOOLEAN /\ "subtree" \in Usages
    BY <1>1, <2>1 DEF OtherTypes, Usages
  <2> QED BY <1>11, <2>1, <2>2
<1>13. ASSUME NEW n \in InTree, TreeSetNoSubtree(n) PROVE Staying
  <2>1. /\ external' = external \ {n} /\ node' = [node EXCEPT ![n].usage = "structure"] /\ modified' = TRUE
        /\ UNCHANGED <<poolVars, first_in_mem, deleted_nid_list, conglomerateVars, nci, default_node>>
    BY <1>13 DEF TreeSetNoSubtree
  <2>2. modified' \in BOOLEAN /\ "structure" \in Usages
    BY <2>1 DEF Usages
  <2> QED BY <1>11, <2>1, <2>2
<1>14. ASSUME NEW n \in InTree, TreeSetDefault(n) PROVE Staying
  BY <1>5, <1>14 DEF TreeSetDefault
<1>15. CASE UNCHANGED vars
  BY <1>5, <1>15 DEF vars
<1> QED BY <1>2, <1>3, <1>4, <1>6, <1>7, <1>10, <1>12, <1>13, <1>14, <1>15 DEF Next

(* The same, by what it does to the tree. *)
LEMMA TreeSteps ==
  ASSUME Inv, DefaultLives, [Next]_vars
  PROVE  Adding \/ Renaming \/ Removing \/ Staying
BY EditSteps, RemovingStep

(***************************************************************************)
(* TreeDeleteNode does not look at the default node.                        *)
(***************************************************************************)
DefaultDeleted == \E n \in InTree : TreeDeleteNode(n) /\ default_node \in check_nid(n)

(***************************************************************************)
(* The default node, whatever node TreeSetDefault makes it, stays a node of *)
(* the tree as long as no deletion takes it, by itself, with a node above   *)
(* it or with its conglomerate: renaming a node, also one above it, growing *)
(* the array and writes, also failing ones, do not lose it.                 *)
(***************************************************************************)
THEOREM DefaultStays == Spec /\ [][~DefaultDeleted]_vars => []DefaultLives
<1>1. Init => Inv /\ DefaultLives
  BY InvInit, TypesOf DEF Init, DefaultLives
<1>2. ASSUME Inv, DefaultLives, [Next]_vars, [~DefaultDeleted]_vars
      PROVE  DefaultLives'
  <2>1. ASSUME NEW n \in InTree, TreeDeleteNode(n)
        PROVE  DefaultLives'
    <3>1. CASE ~DefaultDeleted
      <4>1. default_node \notin check_nid(n)
        BY <2>1, <3>1 DEF DefaultDeleted
      <4>2. Good(Pool', InTree \ check_nid(n), FreeNodes)
        BY <1>2, <2>1, DeleteStep DEF Removed
      <4>3. InTree' = InTree \ check_nid(n)
        BY <4>2, GoodNext
      <4>4. default_node' = default_node
        BY <2>1 DEF TreeDeleteNode
      <4> QED BY <1>2, <4>1, <4>3, <4>4 DEF DefaultLives
    <3>2. CASE UNCHANGED vars
      <4>1. node' = node /\ default_node' = default_node
        BY <3>2 DEF vars
      <4> QED BY <1>2, <4>1, SameTree DEF DefaultLives
    <3> QED BY <1>2, <3>1, <3>2
  <2>2. CASE ~\E n \in InTree : TreeDeleteNode(n)
    <3>1. InTree \subseteq InTree'
      BY <1>2, <2>2, EditSteps DEF Adding, Renaming, Staying
    <3>2. default_node' = default_node \/ default_node' \in InTree
      BY <1>2, <2>2 DEF Next, vars, TreeAddNode, TreeRenameNode, TreeStartConglomerate, TreeEndConglomerate,
             TreeWriteTree, TreeTurnOn, TreeTurnOff, SetState, TreeSetSubtree,
             TreeSetNoSubtree, TreeSetDefault
    <3> QED BY <1>2, <3>1, <3>2 DEF DefaultLives
  <2> QED BY <2>1, <2>2
<1>3. Inv /\ DefaultLives /\ [Next]_vars => Inv'
  BY InvStep
<1> QED BY <1>1, <1>2, <1>3, PTL DEF Spec

(***************************************************************************)
(* A reference to a subtree goes when its node is deleted, with a node      *)
(* above it or with its conglomerate.                                       *)
(***************************************************************************)
THEOREM ExternalsAlwaysLive == Spec /\ []DefaultLives => []ExternalsLive
<1>1. Init => ExternalsLive
  BY DEF Init, ExternalsLive
<1>2. ASSUME Inv, DefaultLives, ExternalsLive, [Next]_vars PROVE ExternalsLive'
  <2>1. CASE Adding
    BY <1>2, <2>1 DEF Adding, ExternalsLive
  <2>2. CASE Renaming
    BY <1>2, <2>2 DEF Renaming, ExternalsLive
  <2>3. CASE Removing
    BY <1>2, <2>3 DEF Removing, ExternalsLive
  <2>4. CASE Staying
    BY <1>2, <2>4 DEF Staying, ExternalsLive
  <2> QED BY <1>2, <2>1, <2>2, <2>3, <2>4, TreeSteps
<1> QED BY <1>1, <1>2, InvHolds, PTL DEF Spec

(* The nodes of T below p. *)
Below(nd, T, p) == {m \in T \ {Root} : nd[m].parent = p}

(* What is below a node of below that is not off, and S, is all that is in below. *)
Reaches(nd, T, p, S, below) ==
  /\ S \subseteq below /\ below \subseteq T \ {Root} /\ p \notin below
  /\ \A m \in below : m \in S \/ (nd[m].parent \in below /\ ~nci[nd[m].parent].off)
  /\ \A m \in T \ {Root} : nd[m].parent \in below /\ ~nci[nd[m].parent].off => m \in below

(* What is reached is below S, and stops at nodes that are off. *)
LEMMA ReachedFacts ==
  ASSUME NEW pool, NEW T, NEW F, Good(pool, T, F), NEW p \in T, NEW S,
         S \subseteq Below(pool.node, T, p)
  PROVE  Reaches(pool.node, T, p, S, Reached(pool.node, S))
<1> DEFINE nd == pool.node
           more == [m \in Nids |-> IF nci[m].off THEN {} ELSE Kids(nd, m)]
           Y == T \ {Root}
           below == Reached(nd, S)
           X == {m \in Y : m \in S \/ (m \in below /\ nd[m].parent \in below /\ ~nci[nd[m].parent].off)}
<1>1. /\ nd \in [Nids -> Node] /\ T \subseteq Nids /\ Forest(nd, T, {Root})
      /\ \A q \in T : Kids(nd, q) = {m \in Y : nd[m].parent = q}
      /\ \A q \in Y : nd[q].parent \in T
  <2>1. nd \in [Nids -> Node] /\ Forest(nd, T, {Root})
    BY DEF Good, IsPool
  <2>2. T \subseteq Nids
    BY GoodFacts
  <2> QED BY <2>1, <2>2, GoodLeads
<1>2. more \in [Nids -> SUBSET Nids]
  <2> SUFFICES ASSUME NEW m \in Nids PROVE Kids(nd, m) \subseteq Nids
    OBVIOUS
  <2>1. nd[m]["child"] \in Links /\ nd[m]["member"] \in Links
    BY <1>1, LinkTypes DEF Fields
  <2> QED BY <1>1, <2>1, BrothersFacts DEF Kids
<1>3. \A m \in Nids : more[m] = IF nci[m].off THEN {} ELSE Kids(nd, m)
  OBVIOUS
<1>4. below = Closure(S, more) /\ S \in SUBSET Nids /\ S \subseteq Y
      /\ \A m \in S : nd[m].parent = p
  BY <1>1 DEF Reached, Below
<1> HIDE DEF more, Y, below
<1>5. /\ S \subseteq below /\ below \subseteq Nids /\ \A m \in below : more[m] \subseteq below
      /\ \A Z \in SUBSET Nids : S \subseteq Z /\ (\A m \in Z : more[m] \subseteq Z) => below \subseteq Z
  BY <1>2, <1>4, ClosureFacts
<1>6. Y \subseteq T /\ Y \in SUBSET Nids
  BY <1>1 DEF Y
<1>7. \A m \in Y : more[m] \subseteq Y
  BY <1>1, <1>3, <1>6
<1>8. below \subseteq Y
  BY <1>4, <1>5, <1>6, <1>7
<1>9. \A m \in Y : nd[m].parent \in below /\ ~nci[nd[m].parent].off => m \in below
  BY <1>1, <1>3, <1>5, <1>6, <1>8
<1>10. below \subseteq X
  <2>1. X \in SUBSET Nids /\ S \subseteq X
    BY <1>4, <1>6
  <2>2. ASSUME NEW m \in X PROVE more[m] \subseteq X
    <3>1. m \in below /\ m \in T
      BY <1>5, <1>6
    <3> SUFFICES ASSUME NEW k \in more[m] PROVE k \in X
      OBVIOUS
    <3>2. ~nci[m].off /\ k \in Y /\ nd[k].parent = m
      BY <1>1, <1>3, <3>1
    <3>3. k \in below
      BY <1>5, <3>1
    <3> QED BY <3>1, <3>2, <3>3
  <2> HIDE DEF X
  <2> QED BY <1>5, <2>1, <2>2
<1>11. p \notin below
  <2> SUFFICES ASSUME p \in below PROVE FALSE
    OBVIOUS
  <2>1. below \in SUBSET (T \ {Root}) /\ below # {}
    BY <1>8 DEF Y
  <2>2. PICK m \in below : nd[m].parent \in T \ below
    BY <1>1, <2>1, ForestRooted
  <2>3. m \in S
    BY <1>10, <2>2
  <2> QED BY <1>4, <2>2, <2>3
<1>12. Reaches(nd, T, p, S, below)
  BY <1>5, <1>8, <1>9, <1>10, <1>11 DEF Y, Reaches
<1> QED BY <1>12 DEF below

(* Every step keeps what the nodes know of those above them. *)
LEMMA StateNext ==
  ASSUME "nci" \notin Outcomes, Inv, DefaultLives, StateKnown, [Next]_vars
  PROVE  StateKnown'
<1>1. /\ OtherTypes /\ Good(Pool, InTree, FreeNodes) /\ Pool.node = node /\ InTree \subseteq Nids
      /\ Root \in InTree
  BY TypesOf
<1>2. /\ \A q \in InTree : Kids(node, q) = {m \in InTree \ {Root} : node[m].parent = q}
      /\ \A m \in InTree \ {Root} : node[m].parent \in InTree
  BY <1>1, GoodLeads
<1>3. \A m \in InTree \ {Root} : nci[m].parentOff = ~IsOn(node[m].parent)
  BY DEF StateKnown
<1>4. \A m \in Nids : /\ nci[m].off \in BOOLEAN /\ nci[m].parentOff \in BOOLEAN
  BY <1>1, OnTypes
<1>5. \A m \in Nids : IsOn(m) <=> ~nci[m].off /\ ~nci[m].parentOff
  BY DEF IsOn
<1>6. SUFFICES ASSUME NEW m \in InTree' \ {Root}
               PROVE  nci'[m].parentOff = ~(~nci'[node'[m].parent].off /\ ~nci'[node'[m].parent].parentOff)
  BY DEF StateKnown, IsOn
<1> DEFINE q == node[m].parent
<1>7. CASE Adding
  <2>1. PICK p \in InTree, x \in Names, n \in Nids \ InTree :
          /\ InTree' = InTree \cup {n} /\ node'[n].parent = p
          /\ \A k \in InTree : node'[k].parent = node[k].parent
          /\ nci' = [nci EXCEPT ![n] = [off |-> FALSE, parentOff |-> ~IsOn(p)]]
    BY <1>7 DEF Adding
  <2>2. \A k \in InTree : nci'[k] = nci[k]
    BY <1>1, <2>1
  <2>3. CASE m = n
    <3>1. nci'[n].parentOff = ~IsOn(p)
      BY <1>1, <2>1 DEF OtherTypes
    <3> QED BY <1>1, <1>5, <2>1, <2>2, <2>3, <3>1
  <2>4. CASE m # n
    <3>1. m \in InTree \ {Root} /\ q \in InTree /\ node'[m].parent = q
      BY <1>2, <1>6, <2>1, <2>4
    <3> QED BY <1>1, <1>3, <1>5, <2>2, <3>1
  <2> QED BY <2>3, <2>4
<1>8. CASE Removing
  <2>1. PICK M \in SUBSET (InTree \ {Root}) :
          /\ \A k \in InTree \ {Root} : node[k].parent \in M => k \in M
          /\ InTree' = InTree \ M
          /\ \A k \in InTree \ M : node'[k].parent = node[k].parent
          /\ \A k \in InTree \ M : nci'[k] = nci[k]
    BY <1>8 DEF Removing
  <2>2. m \in InTree \ {Root} /\ q \in InTree /\ m \notin M /\ q \notin M /\ node'[m].parent = q
    BY <1>2, <1>6, <2>1
  <2> QED BY <1>1, <1>3, <1>5, <2>1, <2>2
<1>9. CASE Staying
  <2>1. m \in InTree \ {Root} /\ q \in InTree /\ node'[m].parent = q
    BY <1>2, <1>6, <1>9 DEF Staying
  <2>2. CASE \A k \in InTree : nci'[k] = nci[k]
    BY <1>1, <1>3, <1>5, <2>1, <2>2
  <2>3. ASSUME NEW n \in InTree, NEW off \in BOOLEAN, SetState(n, off)
        PROVE  nci'[m].parentOff = ~(~nci'[q].off /\ ~nci'[q].parentOff)
    <3> DEFINE S == Kids(node, n)
               told == tree_set_parent_state(node, S, off)
               known == IF nci[n].parentOff THEN nci ELSE told
               below == Reached(node, S)
    <3>1. nci[n].off # off /\ nci' = [known EXCEPT ![n].off = off] /\ n \in Nids
      BY <1>1, <2>3 DEF SetState
    <3>2. /\ told \in [Nids -> [off : BOOLEAN, parentOff : BOOLEAN]]
          /\ \A k \in Nids : /\ told[k].off = nci[k].off
                             /\ told[k].parentOff = IF k \in below THEN off ELSE nci[k].parentOff
      <4>1. Told(told, below, off)
        BY <1>1, StateFacts
      <4> HIDE DEF told, below
      <4> QED BY <4>1 DEF Told
    <3>3. S \subseteq {k \in InTree \ {Root} : node[k].parent = n}
      BY <1>2
    <3> HIDE DEF S, told
    <3>4. /\ S \subseteq below /\ n \notin below
          /\ \A k \in below : k \in S \/ (node[k].parent \in below /\ ~nci[node[k].parent].off)
          /\ \A k \in InTree \ {Root} : node[k].parent \in below /\ ~nci[node[k].parent].off => k \in below
      <4>1. S \subseteq Below(Pool.node, InTree, n)
        BY <1>1, <3>3 DEF Below
      <4>2. Reaches(Pool.node, InTree, n, S, Reached(Pool.node, S))
        BY <1>1, <4>1, ReachedFacts
      <4>3. Reaches(node, InTree, n, S, below)
        BY <1>1, <4>2
      <4> HIDE DEF below
      <4> QED BY <4>3 DEF Reaches
    <3> HIDE DEF below
    <3>5. nci \in [Nids -> [off : BOOLEAN, parentOff : BOOLEAN]]
      BY <1>1 DEF OtherTypes
    <3>6. known \in [Nids -> [off : BOOLEAN, parentOff : BOOLEAN]]
      BY <3>2, <3>5
    <3>7. \A k \in Nids : /\ nci'[k].off = IF k = n THEN off ELSE known[k].off
                          /\ nci'[k].parentOff = known[k].parentOff
      <4> HIDE DEF known
      <4> QED BY <3>1, <3>6
    <3>8. m \in Nids /\ q \in Nids
      BY <1>1, <2>1
    <3>9. CASE nci[n].parentOff
      BY <1>3, <1>4, <1>5, <2>1, <3>7, <3>8, <3>9
    <3>10. CASE ~nci[n].parentOff
      <4>1. /\ \A k \in Nids : nci'[k].off = IF k = n THEN off ELSE nci[k].off
            /\ \A k \in Nids : nci'[k].parentOff = IF k \in below THEN off ELSE nci[k].parentOff
        BY <3>2, <3>7, <3>10
      <4>2. CASE m \in S
        <5>1. q = n /\ m \in below
          BY <3>3, <3>4, <4>2
        <5> QED BY <1>4, <3>4, <3>8, <3>10, <4>1, <5>1
      <4>3. CASE m \in below /\ m \notin S
        <5>1. q \in below /\ ~nci[q].off /\ q # n
          BY <3>4, <4>3
        <5> QED BY <3>8, <4>1, <4>3, <5>1
      <4>4. CASE m \notin below
        <5>1. q # n
          <6>1. m \in S \/ q # n
            BY <1>2, <2>1 DEF S
          <6> QED BY <3>4, <4>4, <6>1
        <5>2. q \in below => nci[q].off
          BY <2>1, <3>4, <4>4
        <5>3. nci[m].parentOff = ~(~nci[q].off /\ ~nci[q].parentOff)
          BY <1>3, <1>5, <2>1, <3>8
        <5> QED BY <1>4, <3>8, <4>1, <4>4, <5>1, <5>2, <5>3
      <4> QED BY <4>2, <4>3, <4>4
    <3> QED BY <3>9, <3>10
  <2> QED BY <1>9, <2>1, <2>2, <2>3 DEF Staying
<1>10. CASE Renaming
  <2>1. PICK n \in InTree \ {Root}, p \in InTree, x \in Names :
          /\ Good(Pool', InTree, FreeNodes) /\ InTree' = InTree
          /\ node'[n].parent = p
          /\ \A k \in InTree \ {n} : node'[k].parent = node[k].parent
          /\ nci' = IF nci[n].parentOff = IsOn(p)
                      THEN tree_set_parent_state(node', Brothers(node', n), ~IsOn(p))
                      ELSE nci
    BY <1>10 DEF Renaming
  <2> DEFINE nd == node'
             r == nd[m].parent
             S == Brothers(nd, n)
             state == ~IsOn(p)
             below == Reached(nd, S)
             told == tree_set_parent_state(nd, S, state)
  <2>2. /\ nd \in [Nids -> Node] /\ Pool'.node = nd
        /\ Leads(nd, InTree, {}) /\ \A k \in InTree \ {Root} : nd[k].parent \in InTree
        /\ Forest(nd, InTree, {Root}) /\ nd[Root].brother = NIL
    <3>1. Pool'.node = nd
      BY DEF Pool
    <3> QED BY <2>1, <3>1, GoodLeads DEF Good, IsPool
  <2>3. m \in InTree \ {Root} /\ r \in InTree /\ m \in Nids /\ r \in Nids /\ p \in Nids
    BY <1>1, <1>6, <2>1, <2>2
  <2>4. S \subseteq {k \in InTree \ {Root} : nd[k].parent = p} /\ n \in S
    <3> DEFINE X == {k \in InTree \ {Root} : nd[k].parent = p}
    <3>1. n \in X /\ X \in SUBSET Nids
      BY <1>1, <2>1
    <3>2. ASSUME NEW k \in X, nd[k]["brother"] # NIL PROVE nd[k]["brother"] \in X
      <4>1. Counts({Root}, k, "brother") /\ "brother" \in Fields
        BY DEF Counts, Fields
      <4>2. nd[k]["brother"] \in InTree \ {Root} /\ nd[nd[k]["brother"]].parent = nd[k].parent
        BY <2>2, <3>2, <4>1 DEF Forest, Leads
      <4> QED BY <4>2
    <3>3. n \in Links /\ n # NIL
      BY <1>1 DEF Links, Nids, NIL
    <3> HIDE DEF X, nd
    <3>4. n \in S
      BY <2>2, <3>3, BrothersFacts
    <3>5. \A k \in X : nd[k].brother # NIL => nd[k].brother \in X
      BY <3>2
    <3>6. S \subseteq X
      BY <2>2, <3>1, <3>3, <3>5, BrothersFacts
    <3> QED BY <3>4, <3>6 DEF X
  <2>5. CASE nci[n].parentOff # IsOn(p)
    <3>0. nci[n].parentOff \in BOOLEAN /\ IsOn(p) \in BOOLEAN
      BY <1>1, <2>3, OnTypes
    <3>1. nci' = nci /\ nci[n].parentOff = ~IsOn(p)
      BY <2>1, <2>5, <3>0
    <3>2. CASE m = n
      BY <1>5, <2>1, <2>3, <3>1, <3>2
    <3>3. CASE m # n
      BY <1>3, <1>5, <2>1, <2>3, <3>1, <3>3
    <3> QED BY <3>2, <3>3
  <2>6. CASE nci[n].parentOff = IsOn(p)
    <3>1. state \in BOOLEAN /\ nci' = told
      BY <2>1, <2>6
    <3>2. /\ told \in [Nids -> [off : BOOLEAN, parentOff : BOOLEAN]]
          /\ \A k \in Nids : /\ told[k].off = nci[k].off
                             /\ told[k].parentOff = IF k \in below THEN state ELSE nci[k].parentOff
      <4> HIDE DEF state
      <4>1. Told(told, below, state)
        BY <1>1, <3>1, StateFacts
      <4> HIDE DEF told, below
      <4> QED BY <4>1 DEF Told
    <3>3. /\ S \subseteq below /\ p \notin below
          /\ \A k \in below : k \in S \/ (nd[k].parent \in below /\ ~nci[nd[k].parent].off)
          /\ \A k \in InTree \ {Root} : nd[k].parent \in below /\ ~nci[nd[k].parent].off => k \in below
      <4> DEFINE pool == Pool'
      <4>1. Good(pool, InTree, FreeNodes) /\ pool.node = nd
        BY <2>1, <2>2
      <4>2. S \subseteq Below(pool.node, InTree, p)
        BY <2>4, <4>1 DEF Below
      <4> HIDE DEF pool, S, nd, below
      <4>3. Reaches(pool.node, InTree, p, S, Reached(pool.node, S))
        BY <2>1, <4>1, <4>2, ReachedFacts
      <4>4. Reaches(nd, InTree, p, S, below)
        BY <4>1, <4>3 DEF below
      <4> QED BY <4>4 DEF Reaches
    <3> HIDE DEF below, S, told, state
    <3>4. \A k \in Nids : /\ nci'[k].off = nci[k].off
                          /\ nci'[k].parentOff = IF k \in below THEN state ELSE nci[k].parentOff
      BY <3>1, <3>2
    <3>5. state = ~(~nci[p].off /\ ~nci[p].parentOff)
      BY <1>5, <2>3 DEF state
    <3>6. CASE m \in S
      <4>1. r = p /\ m \in below
        BY <2>4, <3>3, <3>6
      <4> QED BY <2>3, <3>3, <3>4, <3>5, <4>1
    <3>7. CASE m \in below /\ m \notin S
      <4>1. r \in below /\ ~nci[r].off
        BY <3>3, <3>7
      <4> QED BY <2>3, <3>1, <3>4, <3>7, <4>1
    <3>8. CASE m \notin below
      <4>1. m # n /\ r = q
        BY <2>1, <2>3, <2>4, <3>3, <3>8
      <4>2. r \in below => nci[r].off
        BY <2>3, <3>3, <3>8
      <4>3. nci[m].parentOff = ~(~nci[r].off /\ ~nci[r].parentOff)
        BY <1>3, <1>5, <2>3, <4>1
      <4> QED BY <1>4, <2>3, <3>4, <3>8, <4>2, <4>3
    <3> QED BY <3>6, <3>7, <3>8
  <2> QED BY <2>5, <2>6
<1> QED BY <1>7, <1>8, <1>9, <1>10, TreeSteps

(***************************************************************************)
(* A node knows whether one above it is off, whatever was turned on and     *)
(* off, moved, or made of a node that was deleted, and however writes end,  *)
(* unless TreeWriteNci fails half-way: then the characteristics in memory   *)
(* are no longer those of their nodes.                                      *)
(***************************************************************************)
THEOREM StateAlwaysKnown ==
  ASSUME "nci" \notin Outcomes
  PROVE  Spec /\ []DefaultLives => []StateKnown
<1>1. Init => StateKnown
  BY InitGood DEF StateKnown
<1>2. Inv /\ DefaultLives /\ StateKnown /\ [Next]_vars => StateKnown'
  BY StateNext
<1> QED BY <1>1, <1>2, InvHolds, PTL DEF Spec

-----------------------------------------------------------------------------
(* The tree is one of named nodes. *)

(* What the user sees of the array. *)
Seen == [n \in InTree \ {Root} |-> [parent |-> node[n].parent, name |-> node[n].name]]

(* What is seen of a node. *)
LEMMA SeenFacts ==
  /\ DOMAIN Seen = InTree \ {Root} /\ DOMAIN Seen' = InTree' \ {Root}
  /\ \A n \in InTree \ {Root} :
       /\ Seen[n] = [parent |-> node[n].parent, name |-> node[n].name]
       /\ Seen[n].parent = node[n].parent /\ Seen[n].name = node[n].name
  /\ \A n \in InTree' \ {Root} :
       /\ Seen'[n] = [parent |-> node'[n].parent, name |-> node'[n].name]
       /\ Seen'[n].parent = node'[n].parent /\ Seen'[n].name = node'[n].name
BY DEF Seen

(* Nothing below p has the name x: its place is vacant. *)
LEMMA NotFound ==
  ASSUME Inv, NEW p \in InTree, NEW x, Found(p, x) = {}, NEW m \in InTree \ {Root}
  PROVE  ~(node[m].parent = p /\ node[m].name = x)
<1>1. Good(Pool, InTree, FreeNodes) /\ Pool.node = node
  BY TypesOf
<1>2. Kids(node, p) = {k \in InTree \ {Root} : node[k].parent = p}
  BY <1>1, GoodLeads
<1> QED BY <1>2 DEF Found

(* Every step is one of the abstract tree, or none. *)
LEMMA SeenStep ==
  ASSUME Inv, DefaultLives, [Next]_vars
  PROVE  Abstract!Step(Seen, Seen') \/ Seen' = Seen
<1> DEFINE t == Seen
           u == Seen'
           T == InTree
           Y == T \ {Root}
<1>1. /\ Good(Pool, T, FreeNodes) /\ Pool.node = node /\ T \subseteq Nids /\ Root \in T
      /\ node \in [Nids -> Node]
  BY TypesOf, GoodType DEF Inv, TypeOK
<1>2. \A m \in Y : node[m].parent \in T
  BY <1>1, GoodLeads
<1>3. /\ DOMAIN t = Y /\ DOMAIN u = InTree' \ {Root}
      /\ \A m \in Y : /\ t[m] = [parent |-> node[m].parent, name |-> node[m].name]
                      /\ t[m].parent = node[m].parent /\ t[m].name = node[m].name
      /\ \A m \in InTree' \ {Root} :
           /\ u[m] = [parent |-> node'[m].parent, name |-> node'[m].name]
           /\ u[m].parent = node'[m].parent /\ u[m].name = node'[m].name
  BY SeenFacts
<1> HIDE DEF t, u
<1>4. CASE Adding
  <2>1. PICK p \in T, x \in Names, n \in Nids \ T :
          /\ Found(p, x) = {} /\ InTree' = T \cup {n}
          /\ node'[n].parent = p /\ node'[n].name = x
          /\ \A m \in T : node'[m].parent = node[m].parent /\ node'[m].name = node[m].name
    BY <1>4 DEF Adding
  <2>2. DOMAIN u = Y \cup {n} /\ n \notin Y /\ n # Root
    BY <1>1, <1>3, <2>1
  <2>3. Abstract!Same(t, u, {n})
    BY <1>3, <2>1, <2>2 DEF Abstract!Same
  <2>4. u[n].parent \in DOMAIN t \cup {Root}
    BY <1>3, <2>1, <2>2
  <2>5. Abstract!Vacant(u, n)
    <3> SUFFICES ASSUME NEW m \in DOMAIN u \ {n}, u[m] = u[n] PROVE FALSE
      BY DEF Abstract!Vacant
    <3>1. m \in Y /\ m \in InTree' \ {Root} /\ n \in InTree' \ {Root}
      BY <1>3, <2>1, <2>2
    <3>2. u[m].parent = p /\ u[m].name = x
      BY <1>3, <2>1, <3>1
    <3>3. node[m].parent = p /\ node[m].name = x
      BY <1>3, <2>1, <3>1, <3>2
    <3> QED BY <2>1, <3>1, <3>3, NotFound
  <2>6. Abstract!Add(t, u)
    BY <1>3, <2>2, <2>3, <2>4, <2>5 DEF Abstract!Add, Abstract!Root, Root
  <2> QED BY <2>6 DEF Abstract!Step, t, u
<1>5. CASE Renaming
  <2>1. PICK n \in T \ {Root}, p \in T, x \in Names :
          /\ Found(p, x) = {} /\ n \notin Ancestors(p) /\ InTree' = T
          /\ node'[n].parent = p /\ node'[n].name = x
          /\ \A m \in T \ {n} : node'[m].parent = node[m].parent /\ node'[m].name = node[m].name
    BY <1>5 DEF Renaming
  <2>2. DOMAIN u = Y /\ DOMAIN t = Y /\ n \in Y
    BY <1>3, <2>1
  <2>3. Abstract!Same(t, u, {n})
    BY <1>3, <2>1, <2>2 DEF Abstract!Same
  <2>4. u[n].parent = p /\ u[n].name = x /\ p \in DOMAIN t \cup {Root}
    BY <1>3, <2>1, <2>2
  <2>5. Abstract!Vacant(u, n)
    <3> SUFFICES ASSUME NEW m \in DOMAIN u \ {n}, u[m] = u[n] PROVE FALSE
      BY DEF Abstract!Vacant
    <3>1. m \in Y /\ m # n /\ m \in InTree' \ {Root}
      BY <2>1, <2>2
    <3>2. node[m].parent = p /\ node[m].name = x
      BY <1>3, <2>1, <2>4, <3>1
    <3> QED BY <2>1, <3>1, <3>2, NotFound
  <2> DEFINE S == {m \in Y : n \in Ancestors(m)}
  <2>6. n \in S /\ p \notin S
    <3>1. n \in Ancestors(n)
      BY <1>1, <1>2, <2>1, AncestorStep
    <3> QED BY <2>1, <2>2, <3>1
  <2>7. Abstract!Closed(t, S)
    <3> SUFFICES ASSUME NEW m \in Y, node[m].parent \in S PROVE n \in Ancestors(m)
      BY <1>3, <2>2 DEF Abstract!Closed
    <3>1. m \in Nids /\ node[m].parent \in Nids
      BY <1>1, <1>2
    <3>2. m \in Ancestors(m) /\ (n \in Nids \ {m} => (n \in Ancestors(m) <=> n \in Ancestors(node[m].parent)))
      BY <1>1, <3>1, AncestorStep
    <3> QED BY <1>1, <2>1, <3>2
  <2>8. S \in SUBSET DOMAIN t
    BY <2>2
  <2> HIDE DEF S
  <2>9. Abstract!Move(t, u)
    BY <2>2, <2>3, <2>4, <2>5, <2>6, <2>7, <2>8 DEF Abstract!Move, Abstract!Root, Root
  <2> QED BY <2>9 DEF Abstract!Step, t, u
<1>6. CASE Removing
  <2>1. PICK M \in SUBSET (T \ {Root}) :
          /\ \A m \in T \ {Root} : node[m].parent \in M => m \in M
          /\ InTree' = T \ M
          /\ \A m \in T \ M : node'[m].parent = node[m].parent /\ node'[m].name = node[m].name
    BY <1>6 DEF Removing
  <2>2. DOMAIN u = Y \ M /\ DOMAIN t \ DOMAIN u = M
    BY <1>3, <2>1
  <2>3. Abstract!Same(t, u, M)
    BY <1>3, <2>1, <2>2 DEF Abstract!Same
  <2>4. Abstract!Closed(t, M)
    BY <1>3, <2>1 DEF Abstract!Closed
  <2>5. Abstract!Remove(t, u)
    BY <2>2, <2>3, <2>4 DEF Abstract!Remove
  <2> QED BY <2>5 DEF Abstract!Step, t, u
<1>7. CASE Staying
  <2>1. InTree' = T /\ \A m \in T : node'[m].parent = node[m].parent /\ node'[m].name = node[m].name
    BY <1>7 DEF Staying
  <2>2. Seen' = Seen
    BY <2>1 DEF Seen
  <2> QED BY <2>2
<1> QED BY <1>4, <1>5, <1>6, <1>7, TreeSteps

(***************************************************************************)
(* TreeAddNode, TreeRenameNode and TreeDeleteNode do with the array what    *)
(* NodeTree promises of a tree of named nodes, and nothing else does.       *)
(***************************************************************************)
THEOREM TreeImplemented == Spec /\ []DefaultLives => TreeSpec
<1>1. Init => Abstract!Init
  <2> SUFFICES ASSUME Init PROVE Abstract!Init
    OBVIOUS
  <2>1. InTree \ {Root} = {}
    BY InitGood
  <2> QED BY <2>1 DEF Abstract!Init
<1>2. Inv /\ DefaultLives /\ [Next]_vars => [Abstract!Next]_Seen
  <2> SUFFICES ASSUME Inv, DefaultLives, [Next]_vars PROVE [Abstract!Next]_Seen
    OBVIOUS
  <2>1. Abstract!Step(Seen, Seen') \/ Seen' = Seen
    BY SeenStep
  <2>2. CASE Abstract!Step(Seen, Seen')
    BY <2>2 DEF Abstract!Next, Seen
  <2> QED BY <2>1, <2>2
<1>3. Spec /\ []DefaultLives => Abstract!Init /\ [][Abstract!Next]_Seen
  BY <1>1, <1>2, InvHolds, PTL DEF Spec
<1> QED BY <1>3, PTL DEF TreeSpec, Abstract!Spec, Seen

(***************************************************************************)
(* No node is renamed off into space, or left on one that is not in the     *)
(* tree, while the default node lives: what leaves the tree was deleted.    *)
(***************************************************************************)
THEOREM NeverIntoSpace == Spec /\ []DefaultLives => NotIntoSpace
<1>1. Inv /\ DefaultLives /\ [Next]_vars => [\A n \in InTree \ InTree' : node'[n].name = DELETED]_vars
  <2> SUFFICES ASSUME Inv, DefaultLives, [Next]_vars
               PROVE  \A n \in InTree \ InTree' : node'[n].name = DELETED
    OBVIOUS
  <2>1. CASE Adding
    BY <2>1 DEF Adding
  <2>2. CASE Renaming
    BY <2>2 DEF Renaming
  <2>3. CASE Removing
    BY <2>3 DEF Removing
  <2>4. CASE Staying
    BY <2>4 DEF Staying
  <2> QED BY <2>1, <2>2, <2>3, <2>4, TreeSteps
<1> QED BY <1>1, InvHolds, PTL DEF Spec, NotIntoSpace

-----------------------------------------------------------------------------
(* The elements of conglomerates have successive numbers. *)

(***************************************************************************)
(* The next elements of a conglomerate that was started, and is not ended,  *)
(* are the first free nodes; the last one before them has the number before *)
(* theirs.                                                                  *)
(***************************************************************************)
Open ==
  conglomerate_size # 0 /\ conglomerate_index < conglomerate_size =>
    /\ RunReady(Pool, FreeNodes, conglomerate_size - conglomerate_index)
    /\ conglomerate_index > 0 => free - 1 \in InTree /\ node[free - 1].elt = conglomerate_index

(* No element has a number that is larger than the size of its conglomerate. *)
LEMMA ConglomerateTypes ==
  ASSUME Inv
  PROVE  conglomerate_size \in Nat /\ conglomerate_index \in Nat
<1>1. conglomerate_size \in Sizes \cup {0} /\ conglomerate_index \in 0 .. conglomerate_size
  BY DEF Inv, TypeOK
<1>2. Sizes \subseteq 1 .. EXTEND_NODES
  BY TreeConstants
<1> QED BY <1>1, <1>2

(* What changes neither the elements nor the free nodes. *)
LEMMA OpenSame ==
  ASSUME Inv, Successive, Open, InTree' = InTree, FreeNodes' = FreeNodes, UNCHANGED conglomerateVars,
         free' = free, \A m \in FreeNodes : node'[m].parent = node[m].parent,
         \A m \in InTree : node'[m].elt = node[m].elt
  PROVE  Successive' /\ Open'
<1>1. Successive'
  BY DEF Successive
<1>2. ASSUME conglomerate_size # 0, conglomerate_index < conglomerate_size
      PROVE  /\ RunReady(Pool', FreeNodes, conglomerate_size - conglomerate_index)
             /\ conglomerate_index > 0 => free - 1 \in InTree /\ node'[free - 1].elt = conglomerate_index
  <2>0. conglomerate_size \in Nat /\ conglomerate_index \in Nat
    BY ConglomerateTypes
  <2>1. /\ RunReady(Pool, FreeNodes, conglomerate_size - conglomerate_index)
        /\ conglomerate_index > 0 => free - 1 \in InTree /\ node[free - 1].elt = conglomerate_index
    BY <1>2 DEF Open
  <2> DEFINE k == conglomerate_size - conglomerate_index
  <2>2. Pool.node = node /\ Pool.free = free /\ Pool'.node = node' /\ Pool'.free = free
    BY DEF Pool
  <2>3. k \in Int /\ 0 .. k - 2 \subseteq 0 .. k - 1
    BY <2>0
  <2>4. RunReady(Pool, FreeNodes, k)
    BY <2>1
  <2> HIDE DEF k
  <2>5. free \in FreeNodes /\ \A i \in 0 .. k - 1 : free + i \in FreeNodes
    BY <2>2, <2>4 DEF RunReady
  <2>6. \A i \in 0 .. k - 2 : node[free + i].parent = free + i + 1
    BY <2>2, <2>4 DEF RunReady
  <2>7. \A i \in 0 .. k - 2 : node'[free + i].parent = free + i + 1
    BY <2>3, <2>5, <2>6
  <2>8. RunReady(Pool', FreeNodes, k)
    BY <2>2, <2>5, <2>7 DEF RunReady
  <2>9. RunReady(Pool', FreeNodes, conglomerate_size - conglomerate_index)
    BY <2>8 DEF k
  <2>10. conglomerate_index > 0 => free - 1 \in InTree /\ node'[free - 1].elt = conglomerate_index
    BY <2>1
  <2> QED BY <2>9, <2>10
<1>3. conglomerate_size' = conglomerate_size /\ conglomerate_index' = conglomerate_index
  BY DEF conglomerateVars
<1> QED BY <1>1, <1>2, <1>3 DEF Open

(* The tree is as it was, and no conglomerate is open. *)
LEMMA ClosedSame ==
  ASSUME Successive, InTree' = InTree, \A m \in InTree : node'[m].elt = node[m].elt, conglomerate_size' = 0
  PROVE  Successive' /\ Open'
BY DEF Successive, Open

(* All the elements before one of a conglomerate, and it, are in the tree. *)
LEMMA ElementsBefore ==
  ASSUME Inv, Successive, NEW n \in InTree, node[n].elt > 1
  PROVE  \A j \in 0 .. node[n].elt - 1 : n - j \in InTree /\ node[n - j].elt = node[n].elt - j
<1> DEFINE e == node[n].elt
           bad == {j \in 0 .. e - 1 : ~(n - j \in InTree /\ node[n - j].elt = e - j)}
<1>1. /\ n \in Nat /\ e \in Nat /\ InTree \subseteq Nat
      /\ \A m \in InTree : node[m].elt > 1 => m - 1 \in InTree /\ node[m - 1].elt = node[m].elt - 1
  <2>1. InTree \subseteq Nids /\ node \in [Nids -> Node]
    BY TypesOf DEF Inv, TypeOK
  <2> QED BY <2>1, NidsNat DEF Successive, Node
<1> HIDE DEF e
<1> SUFFICES ASSUME bad # {} PROVE FALSE
  BY DEF e
<1>2. bad \in SUBSET Nat
  BY <1>1
<1>3. PICK j \in bad : \A k \in bad : j <= k
  BY <1>2, LeastElement
<1>4. j \in 0 .. e - 1 /\ ~(n - j \in InTree /\ node[n - j].elt = e - j)
  OBVIOUS
<1>5. j # 0
  BY <1>1, <1>4 DEF e
<1>6. j - 1 \in 0 .. e - 1 /\ j - 1 \notin bad
  BY <1>1, <1>3, <1>4, <1>5
<1>7. n - (j - 1) \in InTree /\ node[n - (j - 1)].elt = e - (j - 1)
  BY <1>6
<1>8. e - (j - 1) > 1 /\ (n - (j - 1)) - 1 = n - j /\ (e - (j - 1)) - 1 = e - j
  BY <1>1, <1>4
<1> QED BY <1>1, <1>4, <1>7, <1>8

(* A conglomerate is deleted as a whole. *)
LEMMA SuccessiveDelete ==
  ASSUME Inv, Successive, NEW M, Removed(M), InTree' = InTree \ M
  PROVE  Successive'
<1> SUFFICES ASSUME NEW n \in InTree \ M, node'[n].elt > 1
             PROVE  n - 1 \in InTree \ M /\ node'[n - 1].elt = node'[n].elt - 1
  BY DEF Successive
<1> DEFINE e == node[n].elt
<1>1. \A m \in InTree \ M : node'[m].elt = node[m].elt
  BY DEF Removed
<1>2. e > 1 /\ node'[n].elt = e
  BY <1>1
<1>3. /\ InTree \subseteq Nids /\ InTree \subseteq 0 .. nodes - 1 /\ nodes \in Nat /\ node \in [Nids -> Node]
      /\ n \in Nat /\ e \in Nat
  <2>1. InTree \subseteq Nids /\ InTree \subseteq 0 .. nodes - 1 /\ nodes \in Nat /\ node \in [Nids -> Node]
    BY TypesOf DEF Inv, TypeOK
  <2> QED BY <2>1, NidsNat DEF Node
<1>4. \A j \in 0 .. e - 1 : n - j \in InTree /\ node[n - j].elt = e - j
  BY <1>2, ElementsBefore
<1> HIDE DEF e
<1>5. n - 1 \in InTree /\ node[n - 1].elt = e - 1
  BY <1>2, <1>3, <1>4
<1>6. n - 1 \notin M
  <2> SUFFICES ASSUME n - 1 \in M PROVE FALSE
    OBVIOUS
  <2> DEFINE head == (n - 1) - node[n - 1].elt + 1
  <2>1. head = n - e + 1 /\ head \in Int /\ node[n - 1].elt # 0
    BY <1>2, <1>3, <1>5
  <2>2. \A i \in head .. n : node[i].elt = i - head + 1
    <3> SUFFICES ASSUME NEW i \in head .. n PROVE node[i].elt = i - head + 1
      OBVIOUS
    <3> HIDE DEF head
    <3>1. n - i \in 0 .. e - 1 /\ n - (n - i) = i /\ e - (n - i) = i - head + 1
      BY <1>3, <2>1
    <3> QED BY <1>4, <3>1
  <2> HIDE DEF head
  <2>3. n \in Nids \cap (head .. nodes - 1)
    BY <1>2, <1>3, <2>1
  <2>4. n \in Conglomerate(n - 1)
    BY <2>1, <2>2, <2>3 DEF Conglomerate, head
  <2>5. Conglomerate(n - 1) \subseteq M
    BY DEF Removed
  <2> QED BY <2>4, <2>5
<1> QED BY <1>1, <1>2, <1>5, <1>6

(* What is added to an open conglomerate is its next element. *)
LEMMA SuccessiveAdd ==
  ASSUME Inv, Successive, Open, NEW p \in InTree, NEW x \in Names, NEW usage \in AddUsages,
         TreeAddNode(p, x, usage)
  PROVE  Successive' /\ Open'
<1> DEFINE index == IF conglomerate_size = 0 THEN 0 ELSE conglomerate_index + 1
           n == TreeNewNode(Pool).nid
           F == Offered(Pool, FreeNodes) \ {n}
<1>1. /\ usage \in Usages /\ conglomerate_size \in Nat /\ conglomerate_index \in Nat
      /\ InTree \subseteq Nat
  <2>1. usage \in Usages
    BY TreeConstants DEF Usages
  <2>2. InTree \subseteq Nat
    BY TypesOf, NidsNat
  <2> QED BY <2>1, <2>2, ConglomerateTypes
<1>2. CASE TooMany(index)
  <2>1. node' = node /\ conglomerate_size' = 0
    BY <1>2 DEF TreeAddNode
  <2> QED BY <2>1, SameTree, ClosedSame
<1>3. CASE ~TooMany(index)
  <2>1. /\ Adds(p, x, usage, index) /\ conglomerate_index' = index
        /\ conglomerate_size' = conglomerate_size /\ index \in Nat
    BY <1>1, <1>3 DEF TreeAddNode
  <2>2. conglomerate_size # 0 => index = conglomerate_index + 1 /\ index <= conglomerate_size
    BY <1>1, <1>3 DEF TooMany
  <2>3. conglomerate_size = 0 => index = 0
    OBVIOUS
  <2> HIDE DEF index
  <2>4. Added(p, x, index)
    BY <1>1, <2>1, AddStep
  <2>5. /\ Good(Pool', InTree \cup {n}, F) /\ n \in Nids \ InTree
        /\ n = IF FreeNodes = {} THEN nodes ELSE free
        /\ node'[n].elt = index /\ \A m \in InTree : node'[m].elt = node[m].elt
        /\ FreeNodes # {} => /\ free' = node[free].parent
                             /\ \A m \in F : node'[m].parent = node[m].parent
    BY <2>4 DEF Added
  <2>6. F = Offered(Pool, FreeNodes) \ {n}
    OBVIOUS
  <2> HIDE DEF n, F
  <2>7. InTree' = InTree \cup {n} /\ FreeNodes' = F
    BY <2>5, GoodNext
  <2>8. CASE conglomerate_size = 0
    <3>1. Open'
      BY <2>1, <2>8 DEF Open
    <3>2. node'[n].elt = 0
      BY <2>3, <2>5, <2>8
    <3> QED BY <2>5, <2>7, <3>1, <3>2 DEF Successive
  <2>9. CASE conglomerate_size # 0
    <3>1. conglomerate_index < conglomerate_size
      BY <1>1, <2>2, <2>9
    <3>2. /\ RunReady(Pool, FreeNodes, conglomerate_size - conglomerate_index)
          /\ conglomerate_index > 0 => free - 1 \in InTree /\ node[free - 1].elt = conglomerate_index
      BY <2>9, <3>1 DEF Open
    <3> DEFINE k == conglomerate_size - conglomerate_index
    <3>3. k \in Nat /\ k >= 1
      BY <1>1, <3>1
    <3>4. /\ free \in FreeNodes /\ \A i \in 0 .. k - 1 : free + i \in FreeNodes
          /\ \A i \in 0 .. k - 2 : node[free + i].parent = free + i + 1
      BY <3>2 DEF RunReady, Pool
    <3>5. n = free /\ F = FreeNodes \ {n} /\ free' = node[free].parent
          /\ \A m \in F : node'[m].parent = node[m].parent
      BY <2>5, <2>6, <3>4 DEF Offered
    <3>6. n \in Nat
      BY <2>5, NidsNat
    <3>7. Successive'
      <4> SUFFICES ASSUME NEW m \in InTree \cup {n}, node'[m].elt > 1
                   PROVE  m - 1 \in InTree /\ node'[m - 1].elt = node'[m].elt - 1
        BY <2>7 DEF Successive
      <4>1. CASE m = n
        <5>1. conglomerate_index > 0 /\ node'[m].elt = conglomerate_index + 1
          BY <1>1, <2>2, <2>5, <2>9, <4>1
        <5>2. n - 1 \in InTree /\ node[n - 1].elt = conglomerate_index
          BY <3>2, <3>5, <5>1
        <5> QED BY <1>1, <2>5, <4>1, <5>1, <5>2
      <4>2. CASE m \in InTree
        BY <2>5, <4>2 DEF Successive
      <4> QED BY <4>1, <4>2
    <3>8. ASSUME conglomerate_index' < conglomerate_size'
          PROVE  /\ RunReady(Pool', F, conglomerate_size' - conglomerate_index')
                 /\ free' - 1 \in InTree' /\ node'[free' - 1].elt = conglomerate_index'
      <4>1. k >= 2 /\ conglomerate_size' - conglomerate_index' = k - 1
        BY <1>1, <2>1, <2>2, <2>9, <3>8
      <4> HIDE DEF k
      <4>2. free' = n + 1
        BY <3>3, <3>4, <3>5, <3>6, <4>1
      <4>3. \A i \in 0 .. k - 2 : n + 1 + i \in F
        <5> SUFFICES ASSUME NEW i \in 0 .. k - 2 PROVE n + 1 + i \in F
          OBVIOUS
        <5>1. i + 1 \in 0 .. k - 1 /\ n + (i + 1) = n + 1 + i /\ n + 1 + i # n
          BY <3>3, <3>6, <4>1
        <5> QED BY <3>4, <3>5, <5>1
      <4>4. \A i \in 0 .. k - 3 : node'[n + 1 + i].parent = n + 1 + i + 1
        <5> SUFFICES ASSUME NEW i \in 0 .. k - 3 PROVE node'[n + 1 + i].parent = n + 1 + i + 1
          OBVIOUS
        <5>1. i + 1 \in 0 .. k - 2 /\ i \in 0 .. k - 2 /\ n + (i + 1) = n + 1 + i
          BY <3>3, <3>6, <4>1
        <5> QED BY <3>4, <3>5, <4>3, <5>1
      <4>5. (k - 1) - 1 = k - 2 /\ (k - 1) - 2 = k - 3 /\ 0 \in 0 .. k - 2 /\ n + 1 + 0 = n + 1
        BY <3>3, <3>6, <4>1
      <4>6. Pool'.node = node' /\ Pool'.free = n + 1
        BY <4>2 DEF Pool
      <4>7. n + 1 \in F
        BY <4>3, <4>5
      <4>8. RunReady(Pool', F, k - 1)
        BY <4>3, <4>4, <4>5, <4>6, <4>7 DEF RunReady
      <4>9. free' - 1 = n
        BY <3>6, <4>2
      <4> QED BY <2>1, <2>5, <2>7, <4>1, <4>8, <4>9
    <3> QED BY <2>7, <3>7, <3>8 DEF Open
  <2> QED BY <2>8, <2>9
<1> QED BY <1>2, <1>3

(* Where a node hangs does not matter. *)
LEMMA SuccessiveRename ==
  ASSUME Inv, Successive, Open, NEW n \in InTree \ {Root}, NEW p \in InTree, NEW x \in Names,
         NEW is_child \in BOOLEAN, TreeRenameNode(n, p, x, is_child)
  PROVE  Successive' /\ Open'
<1>1. /\ Good(Pool', InTree, FreeNodes)
      /\ \A m \in Nids \ {n} : node'[m].parent = node[m].parent
      /\ \A m \in Nids : node'[m].elt = node[m].elt
  BY RenameStep DEF Renamed
<1>2. InTree' = InTree /\ FreeNodes' = FreeNodes
  BY <1>1, GoodNext
<1>3. UNCHANGED conglomerateVars /\ free' = free
  BY DEF TreeRenameNode, poolVars
<1>4. InTree \subseteq Nids /\ Good(Pool, InTree, FreeNodes)
  BY TypesOf
<1>5. FreeNodes \subseteq Nids /\ n \notin FreeNodes
  BY <1>4, GoodFacts DEF Good
<1>6. \A m \in FreeNodes : node'[m].parent = node[m].parent
  BY <1>1, <1>5
<1>7. \A m \in InTree : node'[m].elt = node[m].elt
  BY <1>1, <1>4
<1> QED BY <1>2, <1>3, <1>6, <1>7, OpenSame

(* The start of a conglomerate looks for the nodes that the elements need. *)
LEMMA SuccessiveStart ==
  ASSUME Inv, Successive, NEW size \in Sizes, TreeStartConglomerate(size)
  PROVE  Successive' /\ Open'
<1>1. PICK F : Started(size, F)
  BY StartStep
<1>2. Good(Pool', InTree, F) /\ RunReady(Pool', F, size) /\ \A m \in InTree : node'[m] = node[m]
  BY <1>1 DEF Started
<1>3. InTree' = InTree /\ FreeNodes' = F
  BY <1>2, GoodNext
<1>4. conglomerate_size' = size /\ conglomerate_index' = 0 /\ size - 0 = size
  BY TreeConstants DEF TreeStartConglomerate
<1>5. Successive'
  BY <1>2, <1>3 DEF Successive
<1> QED BY <1>2, <1>3, <1>4, <1>5 DEF Open

(* What is true of a step when nothing is deleted or written within a conglomerate. *)
LEMMA SuccessiveStep ==
  ASSUME ~MayInterrupt, Inv, DefaultLives, Successive, Open, [Next]_vars
  PROVE  Successive' /\ Open'
<1>1. Parents = InTree
  BY DEF Parents, DefaultLives
<1>2. ASSUME NEW p \in Parents, NEW x \in Names, NEW usage \in AddUsages, TreeAddNode(p, x, usage)
      PROVE  Successive' /\ Open'
  BY <1>1, <1>2, SuccessiveAdd
<1>3. ASSUME NEW n \in InTree \ {Root}, NEW p \in Parents, NEW x \in Names, NEW is_child \in BOOLEAN,
             TreeRenameNode(n, p, x, is_child)
      PROVE  Successive' /\ Open'
  BY <1>1, <1>3, SuccessiveRename
<1>4. ASSUME NEW size \in Sizes, TreeStartConglomerate(size) PROVE Successive' /\ Open'
  BY <1>4, SuccessiveStart
<1>5. CASE TreeEndConglomerate
  <2>1. node' = node /\ conglomerate_size' = 0
    BY <1>5 DEF TreeEndConglomerate
  <2> QED BY <2>1, SameTree, ClosedSame
<1>6. ASSUME NEW outcome \in Outcomes, TreeWriteTree(outcome) PROVE Successive' /\ Open'
  <2>1. conglomerate_size' = 0
    BY <1>6 DEF TreeWriteTree, conglomerateVars
  <2>2. PICK F : Good(Pool', InTree, F)
    BY <1>6, WriteStep DEF Written
  <2>3. \A m \in InTree : node'[m] = node[m]
    BY <1>6, WriteStep DEF Written
  <2>4. InTree' = InTree
    BY <2>2, GoodNext
  <2> QED BY <2>1, <2>3, <2>4, ClosedSame
<1>7. ASSUME NEW n \in InTree, TreeDeleteNode(n) PROVE Successive' /\ Open'
  <2> DEFINE M == check_nid(n)
  <2>1. Removed(M)
    BY <1>7, DeleteStep
  <2>2. conglomerate_size' = 0
    BY <1>7 DEF TreeDeleteNode, conglomerateVars
  <2> HIDE DEF M
  <2>3. Good(Pool', InTree \ M, FreeNodes)
    BY <2>1 DEF Removed
  <2>4. InTree' = InTree \ M
    BY <2>3, GoodNext
  <2>5. Successive'
    BY <2>1, <2>4, SuccessiveDelete
  <2> QED BY <2>2, <2>5 DEF Open
<1>8. ASSUME node' = node, free' = free, UNCHANGED conglomerateVars PROVE Successive' /\ Open'
  <2>1. InTree' = InTree /\ FreeNodes' = FreeNodes
    BY <1>8, SameTree DEF FreeNodes
  <2> QED BY <1>8, <2>1, OpenSame
<1>9. ASSUME NEW n \in InTree, TreeTurnOn(n) \/ TreeTurnOff(n) PROVE Successive' /\ Open'
  BY <1>8, <1>9 DEF TreeTurnOn, TreeTurnOff, SetState, poolVars
<1>10. ASSUME NEW n \in InTree, NEW usage \in Usages, node' = [node EXCEPT ![n].usage = usage],
              external' \subseteq external \cup InTree, modified' \in BOOLEAN,
              UNCHANGED <<poolVars, first_in_mem, deleted_nid_list, conglomerateVars, nci, default_node>>
       PROVE  Successive' /\ Open'
  <2>1. /\ OtherTypes /\ InTree \subseteq Nids /\ Good(Pool, InTree, FreeNodes)
        /\ UNCHANGED conglomerateVars /\ free' = free
    BY <1>10, TypesOf DEF poolVars
  <2>2. external' \subseteq Nids
    BY <1>10, <2>1 DEF OtherTypes
  <2>3. /\ InTree' = InTree /\ FreeNodes' = FreeNodes
        /\ \A m \in Nids : node'[m].parent = node[m].parent /\ node'[m].elt = node[m].elt
    BY <1>10, <2>2, InvUsage
  <2>4. FreeNodes \subseteq Nids
    BY <2>1, GoodFacts
  <2>5. /\ \A m \in FreeNodes : node'[m].parent = node[m].parent
        /\ \A m \in InTree : node'[m].elt = node[m].elt
    BY <2>1, <2>3, <2>4
  <2> QED BY <2>1, <2>3, <2>5, OpenSame
<1>11. OtherTypes
  BY TypesOf
<1>12. ASSUME NEW n \in InTree, TreeSetSubtree(n) PROVE Successive' /\ Open'
  <2>1. /\ external' = external \cup {n} /\ node' = [node EXCEPT ![n].usage = "subtree"]
        /\ modified' = (modified \/ external' # external \/ node' # node)
        /\ UNCHANGED <<poolVars, first_in_mem, deleted_nid_list, conglomerateVars, nci, default_node>>
    BY <1>12 DEF TreeSetSubtree
  <2>2. modified' \in BOOLEAN /\ "subtree" \in Usages
    BY <1>11, <2>1 DEF OtherTypes, Usages
  <2> QED BY <1>10, <2>1, <2>2
<1>13. ASSUME NEW n \in InTree, TreeSetNoSubtree(n) PROVE Successive' /\ Open'
  <2>1. /\ external' = external \ {n} /\ node' = [node EXCEPT ![n].usage = "structure"] /\ modified' = TRUE
        /\ UNCHANGED <<poolVars, first_in_mem, deleted_nid_list, conglomerateVars, nci, default_node>>
    BY <1>13 DEF TreeSetNoSubtree
  <2>2. modified' \in BOOLEAN /\ "structure" \in Usages
    BY <2>1 DEF Usages
  <2> QED BY <1>10, <2>1, <2>2
<1>14. ASSUME NEW n \in InTree, TreeSetDefault(n) PROVE Successive' /\ Open'
  BY <1>8, <1>14 DEF TreeSetDefault, poolVars
<1>15. CASE UNCHANGED vars
  BY <1>8, <1>15 DEF vars, conglomerateVars
<1> QED BY <1>2, <1>3, <1>4, <1>5, <1>6, <1>7, <1>9, <1>12, <1>13, <1>14, <1>15 DEF Next

(***************************************************************************)
(* The elements of a conglomerate have successive numbers, from its first   *)
(* one on, when nothing is deleted or written between its start and its     *)
(* end: the run of free nodes that _TreeStartConglomerate found stays at    *)
(* the head of the list until the last of it is taken.                      *)
(***************************************************************************)
THEOREM SuccessiveAlways ==
  ASSUME ~MayInterrupt
  PROVE  Spec /\ []DefaultLives => []Successive
<1>1. Init => Successive /\ Open
  <2> SUFFICES ASSUME Init PROVE Successive /\ Open
    OBVIOUS
  <2>1. InTree = {Root} /\ Good(Pool, {Root}, FreeNodes) /\ conglomerate_size = 0
    BY InitGood DEF Init
  <2>2. node[Root].elt = 0
    BY <2>1 DEF Good, Pool
  <2> QED BY <2>1, <2>2 DEF Successive, Open
<1>2. Inv /\ DefaultLives /\ Successive /\ Open /\ [Next]_vars => Successive' /\ Open'
  BY SuccessiveStep
<1> QED BY <1>1, <1>2, InvHolds, PTL DEF Spec
================================================================================
