-------------------------------- MODULE TreeEdit --------------------------------
(***************************************************************************)
(* The structure of a tree that is open for edit: TreeAddNode.c,            *)
(* TreeDeleteNode.c, TreeRenameNode.c, TreeVerify.c, and what turns nodes   *)
(* on and off (TreeSetNci.c).                                               *)
(*                                                                          *)
(* The nodes are an array.  A node that is used links to its parent, to its *)
(* first child, its first member and its next brother; a free one is in the *)
(* list of free nodes, whose links are the fields parent (next) and child   *)
(* (previous).  Links are offsets from the node that has them: nobody can   *)
(* link to itself.  A deleted node is free only after the next write.       *)
(*                                                                          *)
(* Paths, tags, data and time contexts are left out: a node is named by     *)
(* its parent and the last part of its path.                                *)
(***************************************************************************)
EXTENDS Integers, Sequences, FiniteSets

CONSTANTS
  MAX_NODES,     \* bound on the size of the array
  EXTEND_NODES,  \* how many nodes are made at a time
  PAGE,          \* nodes in a page of the file
  Names,         \* names of nodes, in the order of strncmp
  Sort,          \* sort_children and sort_members
  Sizes,         \* sizes of conglomerates
  MayInterrupt,  \* nodes may be deleted and written between start and end of a conglomerate
  Defaults,      \* what may become the default node
  AddUsages,     \* usages of nodes that are added
  Outcomes,      \* how a write of the tree may end
  MaxOff,        \* bound on the nodes that are off themselves
  MaxExternal    \* bound on the references to subtrees

NIL == -1
Nids == 0 .. MAX_NODES - 1
Root == 0
EMPTY == 0        \* the name of a node that was never used
DELETED == -1     \* the name of a deleted node

ASSUME TreeConstants ==
  /\ {MAX_NODES, EXTEND_NODES, PAGE} \subseteq Nat \ {0}
  /\ EXTEND_NODES \in 2 .. MAX_NODES
  /\ Names \subseteq Nat \ {0}
  /\ Sizes \subseteq 1 .. EXTEND_NODES
  /\ {Sort, MayInterrupt} \subseteq BOOLEAN
  /\ Defaults \subseteq 0 .. MAX_NODES - 1 /\ {MaxOff, MaxExternal} \subseteq Nat
  /\ Outcomes \subseteq {"create", "tree", "nci", "move", "done"}
  /\ AddUsages \subseteq {"any", "structure", "subtree"}

VARIABLES
  node,          \* the array
  nodes, free,   \* of the header: size in use, first free node
  first_in_mem,  \* nodes before it have their characteristics in the file
  deleted_nid_list, \* deleted nodes to free with the next write
  conglomerate_size, conglomerate_index,
  external,      \* the references to subtrees
  nci,           \* per node: it is off, its parent is
  default_node,
  modified

vars == <<node, nodes, free, first_in_mem, deleted_nid_list, conglomerate_size,
          conglomerate_index, external, nci, default_node, modified>>

Links == Nids \cup {NIL}
Usages == {"any", "structure", "subtree"}
On == [off |-> FALSE, parentOff |-> FALSE]
EmptyNode == [name |-> EMPTY, parent |-> NIL, member |-> NIL, child |-> NIL, brother |-> NIL,
              usage |-> "any", elt |-> 0]

Node == [name : Names \cup {EMPTY, DELETED}, parent : Links, member : Links, child : Links,
         brother : Links, usage : Usages, elt : Nat]

TypeOK ==
  /\ node \in [Nids -> Node]
  /\ nodes \in 1 .. MAX_NODES /\ free \in 0 .. nodes - 1 \cup {NIL}
  /\ first_in_mem \in 0 .. nodes
  /\ deleted_nid_list \in Seq(0 .. first_in_mem - 1)
  /\ conglomerate_size \in Sizes \cup {0} /\ conglomerate_index \in 0 .. conglomerate_size
  /\ external \subseteq Nids
  /\ nci \in [Nids -> [off : BOOLEAN, parentOff : BOOLEAN]]
  /\ default_node \in 0 .. nodes - 1 /\ modified \in BOOLEAN

-----------------------------------------------------------------------------
(* The links; nd is an array of nodes. *)

node_offset(a, b) == IF a = b THEN NIL ELSE a

(* The nodes in a list. *)
Elements(s) == {s[i] : i \in DOMAIN s}

(* What S grows to when more[n] belongs to it with each n of it. *)
Closure(S, more) ==
  LET grow[G \in SUBSET Nids] ==
        LET all == G \cup UNION {more[n] : n \in G} IN
        IF all = G THEN G ELSE grow[all]
  IN grow[S]

(* A node and its brothers after it. *)
Brothers(nd, first) == Closure({first} \ {NIL}, [n \in Nids |-> {nd[n].brother} \ {NIL}])

Kids(nd, n) == Brothers(nd, nd[n].child) \cup Brothers(nd, nd[n].member)

InTree ==
  Closure({Root}, [n \in Nids |-> {node[n].child, node[n].member, node[n].brother} \ {NIL}])
IsChild(n) == node[n].parent # NIL /\ n \in Brothers(node, node[node[n].parent].child)
IsOn(n) == ~nci[n].off /\ ~nci[n].parentOff

(***************************************************************************)
(* TreeInsertChild and TreeInsertMember: field says which.  The nodes that  *)
(* are smaller are passed, or all when they are not sorted.                 *)
(***************************************************************************)
Insert(nd, field, p, n) ==
  LET smaller(m) == m # NIL /\ (Sort => nd[m].name < nd[n].name)
      passed == Closure({m \in {nd[p][field]} : smaller(m)},
                        [m \in Nids |-> {b \in {nd[m].brother} : smaller(b)}])
      pre == CHOOSE m \in passed : nd[m].brother \notin passed
      linked == [nd EXCEPT ![n].parent = node_offset(p, n),
                           ![n].brother = IF passed = {} THEN nd[p][field] ELSE nd[pre].brother]
  IN IF passed = {} THEN [linked EXCEPT ![p][field] = node_offset(n, p)]
                    ELSE [linked EXCEPT ![pre].brother = n]

(* Takes n out of the children or the members of its parent. *)
Unlink(nd, n) ==
  LET p == nd[n].parent
      field == IF n \in Brothers(nd, nd[p].child) THEN "child" ELSE "member"
      list == Brothers(nd, nd[p][field])
  IN IF n \notin list THEN nd
     ELSE IF nd[p][field] = n THEN [nd EXCEPT ![p][field] = nd[n].brother]
     ELSE [nd EXCEPT ![CHOOSE m \in list : nd[m].brother = n].brother = nd[n].brother]

(* A free node and those after it in the list of free nodes. *)
FreeList(nd, first) == Closure({first} \ {NIL}, [n \in Nids |-> {nd[n].parent} \ {NIL}])

-----------------------------------------------------------------------------
(* The pool: an array of nodes, the number of them and the first free one. *)

Pool == [node |-> node, nodes |-> nodes, free |-> free]

TreeExpandNodes(pool) ==
  LET old == pool.nodes
      new == old .. old + EXTEND_NODES - 1
      list == FreeList(pool.node, pool.free)
      last == IF list = {} THEN NIL ELSE CHOOSE n \in list : pool.node[n].parent = NIL
  IN [node |-> [n \in Nids |->
                  IF n \in new
                    THEN [EmptyNode EXCEPT
                            !.parent = IF n + 1 \in new THEN n + 1 ELSE NIL,
                            !.child = IF n = old THEN last ELSE n - 1]
                    ELSE IF n = last THEN [pool.node[n] EXCEPT !.parent = old]
                    ELSE pool.node[n]],
      nodes |-> old + EXTEND_NODES,
      free |-> IF last = NIL THEN old ELSE pool.free]

(* The first free node, taken off the list and cleared. *)
TreeNewNode(pool) ==
  LET p == IF pool.free = NIL THEN TreeExpandNodes(pool) ELSE pool
      n == p.free
      next == p.node[n].parent
  IN [nid |-> n,
      pool |-> [node |-> [m \in Nids |->
                            IF m = n THEN EmptyNode
                            ELSE IF m = next THEN [p.node[m] EXCEPT !.child = NIL]
                            ELSE p.node[m]],
                nodes |-> p.nodes,
                free |-> next]]

CanExpand == nodes + EXTEND_NODES <= MAX_NODES

(***************************************************************************)
(* TreeOpenNew: the root and the rest of the first nodes, all free.         *)
(***************************************************************************)
Init ==
  LET pool == TreeNewNode([node |-> [n \in Nids |-> EmptyNode], nodes |-> 0, free |-> NIL]).pool
  IN
  /\ node = [pool.node EXCEPT ![Root].usage = "subtree"]
  /\ nodes = pool.nodes /\ free = pool.free
  /\ first_in_mem = 0
  /\ deleted_nid_list = <<>>
  /\ conglomerate_size = 0 /\ conglomerate_index = 0
  /\ external = {}
  /\ nci = [n \in Nids |-> On]
  /\ default_node = Root
  /\ modified = FALSE

poolVars == <<nodes, free>>
conglomerateVars == <<conglomerate_size, conglomerate_index>>

-----------------------------------------------------------------------------
(* Operations. *)

(* The nodes of one parent that _TreeFindNode finds by a name. *)
Found_children(p, x) == {m \in Brothers(node, node[p].child) : node[m].name = x}
Found(p, x) == {m \in Kids(node, p) : node[m].name = x}

(* TreeFindParent: a path leads to a node of the tree or starts at the default node. *)
Parents == InTree \cup {default_node}

(***************************************************************************)
(* _TreeAddNode.  Within a conglomerate the node is its next element; one   *)
(* too many ends the conglomerate.  What is not data is a child.            *)
(***************************************************************************)
Adds(p, x, usage, index) ==
  LET new == TreeNewNode(Pool)
      n == new.nid
      named == [new.pool.node EXCEPT ![n].name = x, ![n].elt = index]
      put == Insert(named, IF usage = "any" THEN "member" ELSE "child", p, n)
  IN
  /\ free = NIL => CanExpand
  /\ node' = [put EXCEPT ![n].usage = usage]
  /\ nodes' = new.pool.nodes
  /\ free' = new.pool.free
  /\ nci' = [nci EXCEPT ![n] = [off |-> FALSE, parentOff |-> ~IsOn(p)]]
  /\ modified' = TRUE

TooMany_off_by_one(index) == index > conglomerate_size + 1
TooMany(index) == index > conglomerate_size

TreeAddNode(p, x, usage) ==
  /\ Found(p, x) = {}
  /\ LET index == IF conglomerate_size = 0 THEN 0 ELSE conglomerate_index + 1 IN
     IF TooMany(index)
       THEN /\ conglomerate_size' = 0 /\ conglomerate_index' = 0
            /\ UNCHANGED <<node, poolVars, nci, modified>>
       ELSE /\ Adds(p, x, usage, index)
            /\ conglomerate_index' = index
            /\ UNCHANGED conglomerate_size
  /\ UNCHANGED <<first_in_mem, deleted_nid_list, external, default_node>>

(***************************************************************************)
(* _TreeStartConglomerate: the nodes of a conglomerate must have successive *)
(* numbers.  The first run of size such nodes is moved to the head of the   *)
(* list; if there is none, the array grows.  A run is named by its first    *)
(* node.                                                                    *)
(***************************************************************************)
Runs_unchecked(pool, size) == FreeList(pool.node, pool.free)

Runs(pool, size) ==
  {s \in FreeList(pool.node, pool.free) :
     \A i \in 0 .. size - 2 : pool.node[s + i].parent = s + i + 1}

MoveRun(pool, start, end) ==
  LET before == pool.node[start].child
      after == pool.node[end].parent
      cut == [pool.node EXCEPT ![before].parent = after]
      closed == IF after = NIL THEN cut ELSE [cut EXCEPT ![after].child = before]
  IN [node |-> [closed EXCEPT ![end].parent = pool.free, ![pool.free].child = end,
                              ![start].child = NIL],
      nodes |-> pool.nodes,
      free |-> start]

TreeStartConglomerate(size) ==
  LET grows == free = NIL \/ (size > 1 /\ Runs(Pool, size) = {})
      pool == IF grows THEN TreeExpandNodes(Pool) ELSE Pool
      start == CHOOSE s \in Runs(pool, size) : Runs(pool, size) \subseteq FreeList(pool.node, s)
      moved == IF size > 1 /\ start # pool.free THEN MoveRun(pool, start, start + size - 1)
               ELSE pool
  IN
  /\ grows => CanExpand
  /\ node' = moved.node /\ nodes' = moved.nodes /\ free' = moved.free
  /\ conglomerate_size' = size /\ conglomerate_index' = 0
  /\ UNCHANGED <<first_in_mem, deleted_nid_list, external, nci, default_node, modified>>

TreeEndConglomerate ==
  /\ conglomerate_size # 0
  /\ conglomerate_size' = 0 /\ conglomerate_index' = 0
  /\ UNCHANGED <<node, poolVars, first_in_mem, deleted_nid_list, external, nci, default_node,
                 modified>>

(***************************************************************************)
(* tree_set_parent_state for n and its brothers after it: what is below a   *)
(* node that is off knows of one that is off already.                       *)
(***************************************************************************)
tree_set_parent_state_all(nd, S, state) ==
  LET below == Closure(S, [n \in Nids |-> Kids(nd, n)]) IN
  [n \in Nids |-> IF n \in below THEN [nci[n] EXCEPT !.parentOff = state] ELSE nci[n]]

tree_set_parent_state(nd, S, state) ==
  LET below == Closure(S, [n \in Nids |-> IF nci[n].off THEN {} ELSE Kids(nd, n)]) IN
  [n \in Nids |-> IF n \in below THEN [nci[n] EXCEPT !.parentOff = state] ELSE nci[n]]

(***************************************************************************)
(* _TreeRenameNode: takes a node, and what is below it, to another place.   *)
(***************************************************************************)
Ancestors(n) == Closure({n}, [m \in Nids |-> {node[m].parent} \ {NIL}])

TreeRenameNode(n, p, x, is_child) ==
  LET named == [Unlink(node, n) EXCEPT ![n].name = x]
      moved == Insert(named, IF is_child THEN "child" ELSE "member", p, n)
  IN
  /\ is_child => node[n].usage = "structure"
  /\ Found(p, x) = {}
  /\ n \notin Ancestors(p)
  /\ node' = moved
  /\ nci' = IF nci[n].parentOff = IsOn(p)
              THEN tree_set_parent_state(moved, Brothers(moved, n), ~IsOn(p))
              ELSE nci
  /\ modified' = TRUE
  /\ UNCHANGED <<poolVars, first_in_mem, deleted_nid_list, conglomerateVars, external,
                 default_node>>

(***************************************************************************)
(* TreeDeleteNodeInitialize marks a node, what is below it and the other    *)
(* elements of its conglomerate (check_nid); TreeDeleteNodeExecute deletes  *)
(* the marked nodes in the order of their numbers.  A node that was never   *)
(* written is not kept for reuse.                                           *)
(***************************************************************************)
Conglomerate(n) ==
  LET head == n - node[n].elt + 1 IN
  IF node[n].elt = 0 THEN {}
  ELSE {m \in Nids \cap (head .. nodes - 1) : \A i \in head .. m : node[i].elt = i - head + 1}

check_nid(n) == Closure({n}, [m \in Nids |-> Kids(node, m) \cup Conglomerate(m)])

(* _TreeSetNoSubtree for the nodes that are deleted. *)
NoSubtree_top(marked) == external \ {m \in marked : node[m].parent \notin marked}
NoSubtree(marked) == external \ marked

Deleted(nd, n) ==
  [Unlink(nd, n) EXCEPT ![n].name = DELETED, ![n].elt = 0, ![n].member = NIL,
                        ![n].brother = NIL, ![n].usage = "any"]

Executed(marked) ==
  LET executed[k \in Nids] ==
        LET nd == IF k = 0 THEN node ELSE executed[k - 1] IN
        IF k \in marked THEN Deleted(nd, k) ELSE nd
  IN executed[MAX_NODES - 1]

Kept(marked) ==
  LET kept[k \in Nids] ==
        LET list == IF k = 0 THEN deleted_nid_list ELSE kept[k - 1] IN
        IF k \in marked /\ k < first_in_mem THEN <<k>> \o list ELSE list
  IN kept[MAX_NODES - 1]

TreeDeleteNode(n) ==
  LET marked == check_nid(n) IN
  /\ n # Root
  /\ MayInterrupt \/ conglomerate_size = 0
  /\ node' = Executed(marked)
  /\ deleted_nid_list' = Kept(marked)
  /\ external' = NoSubtree(marked)
  /\ nci' = [m \in Nids |-> IF m \in marked /\ m >= first_in_mem THEN On ELSE nci[m]]
  /\ modified' = TRUE
  /\ UNCHANGED <<poolVars, first_in_mem, conglomerateVars, default_node>>

(* _TreeDeleteNodesWrite: the deleted nodes come before the other free ones. *)
FreeDeleted_alone(pool) ==
  LET list == deleted_nid_list
      len == Len(list)
      at(n) == CHOOSE i \in 1 .. len : list[i] = n
  IN IF list = <<>> THEN pool
     ELSE [pool EXCEPT
             !.node = [n \in Nids |->
                         IF n \in Elements(list)
                           THEN [pool.node[n] EXCEPT
                                   !.parent = IF at(n) = len THEN NIL ELSE list[at(n) + 1],
                                   !.child = IF at(n) = 1 THEN NIL ELSE list[at(n) - 1]]
                           ELSE pool.node[n]],
             !.free = list[1]]

FreeDeleted(pool) ==
  LET list == deleted_nid_list
      len == Len(list)
      at(n) == CHOOSE i \in 1 .. len : list[i] = n
  IN IF list = <<>> THEN pool
     ELSE [node |-> [n \in Nids |->
                       IF n \in Elements(list)
                         THEN [pool.node[n] EXCEPT
                                 !.parent = IF at(n) = len THEN pool.free ELSE list[at(n) + 1],
                                 !.child = IF at(n) = 1 THEN NIL ELSE list[at(n) - 1]]
                         ELSE IF n = pool.free THEN [pool.node[n] EXCEPT !.child = list[len]]
                         ELSE pool.node[n]],
           nodes |-> pool.nodes,
           free |-> list[1]]

(* Takes a node out of the list of free nodes; the rest of the list goes on. *)
TakeOut_one_way(pool, n) ==
  LET after == pool.node[n].parent
      before == pool.node[n].child
  IN [pool EXCEPT
        !.free = IF n = pool.free THEN after ELSE pool.free,
        !.node = [m \in Nids |->
                    IF m = before THEN [pool.node[m] EXCEPT !.parent = after] ELSE pool.node[m]]]

TakeOut(pool, n) ==
  LET after == pool.node[n].parent
      before == pool.node[n].child
  IN [node |-> [m \in Nids |->
                  IF m = after THEN [pool.node[m] EXCEPT !.child = before]
                  ELSE IF m = before THEN [pool.node[m] EXCEPT !.parent = after]
                  ELSE pool.node[m]],
      nodes |-> pool.nodes,
      free |-> IF n = pool.free THEN after ELSE pool.free]

(***************************************************************************)
(* trim_excess_nodes: the pages behind the last node that was ever used,    *)
(* unless they are in the file already.                                     *)
(***************************************************************************)
trim_excess_nodes(pool) ==
  LET used == CHOOSE n \in Nids : /\ n = Root \/ pool.node[n].name # EMPTY
                                  /\ \A m \in n + 1 .. pool.nodes - 1 : pool.node[m].name = EMPTY
                                  /\ n < pool.nodes
      pages == ((used + PAGE) \div PAGE) * PAGE
      size == IF first_in_mem > pages THEN first_in_mem ELSE pages
      trimmed[n \in size - 1 .. pool.nodes - 1] ==
        IF n < size THEN pool ELSE TakeOut(trimmed[n - 1], n)
      rest == trimmed[pool.nodes - 1]
  IN IF size >= pool.nodes THEN pool
     ELSE [node |-> rest.node, nodes |-> size, free |-> rest.free]

(***************************************************************************)
(* TreeWriteNci writes the characteristics from first_in_mem on.  When it   *)
(* fails it has counted first_in_mem on, but those in memory stay where     *)
(* they are, and are found by their distance from first_in_mem: each node   *)
(* that is still in memory gets those of another.                           *)
(***************************************************************************)
Written_nci(n) ==
  IF n < first_in_mem' THEN nci[n] ELSE nci[n - (first_in_mem' - first_in_mem)]

(***************************************************************************)
(* _TreeWriteTree: the file may not be created ("create"), the structure    *)
(* ("tree") or some of the characteristics ("nci") may not be written, or   *)
(* the new file may not take the place of the old one ("move").             *)
(***************************************************************************)
TreeWriteTree(outcome) ==
  LET pool == trim_excess_nodes(FreeDeleted(Pool)) IN
  /\ MayInterrupt \/ conglomerate_size = 0
  /\ node' = pool.node /\ nodes' = pool.nodes /\ free' = pool.free
  /\ deleted_nid_list' = <<>>
  /\ CASE outcome \in {"create", "tree"} -> UNCHANGED first_in_mem
       [] outcome = "nci" -> first_in_mem' \in first_in_mem .. pool.nodes - 1
       [] outcome \in {"move", "done"} -> first_in_mem' = pool.nodes
  /\ nci' = [n \in Nids |-> IF n \in Elements(deleted_nid_list) \/ n >= pool.nodes THEN On
                            ELSE Written_nci(n)]
  /\ modified' = (modified /\ outcome \notin {"create", "done"})
  /\ UNCHANGED <<conglomerateVars, external, default_node>>

(* What is below a node that is turned on or off, with a parent that is on. *)
SetState(n, off) ==
  LET known == IF nci[n].parentOff THEN nci
               ELSE tree_set_parent_state(node, Kids(node, n), off)
  IN
  /\ nci[n].off # off
  /\ nci' = [known EXCEPT ![n].off = off]
  /\ UNCHANGED <<node, poolVars, first_in_mem, deleted_nid_list, conglomerateVars, external,
                 default_node, modified>>

TreeTurnOn(n) == SetState(n, FALSE)
TreeTurnOff(n) ==
  /\ Cardinality({m \in Nids : nci[m].off}) < MaxOff
  /\ SetState(n, TRUE)

TreeSetSubtree(n) ==
  /\ node[n].child = NIL /\ node[n].member = NIL
  /\ IsChild(n)
  /\ n \in external \/ Cardinality(external) < MaxExternal
  /\ external' = external \cup {n}
  /\ node' = [node EXCEPT ![n].usage = "subtree"]
  /\ modified' = (modified \/ external' # external \/ node' # node)
  /\ UNCHANGED <<poolVars, first_in_mem, deleted_nid_list, conglomerateVars, nci, default_node>>

TreeSetNoSubtree(n) ==
  /\ n \in external
  /\ external' = external \ {n}
  /\ node' = [node EXCEPT ![n].usage = "structure"]
  /\ modified' = TRUE
  /\ UNCHANGED <<poolVars, first_in_mem, deleted_nid_list, conglomerateVars, nci, default_node>>

TreeSetDefault(n) ==
  /\ n \in Defaults
  /\ default_node' = n
  /\ UNCHANGED <<node, poolVars, first_in_mem, deleted_nid_list, conglomerateVars, external, nci,
                 modified>>

Next ==
  \/ \E p \in Parents, x \in Names, usage \in AddUsages : TreeAddNode(p, x, usage)
  \/ \E n \in InTree \ {Root}, p \in Parents, x \in Names, is_child \in BOOLEAN :
       TreeRenameNode(n, p, x, is_child)
  \/ \E size \in Sizes : TreeStartConglomerate(size)
  \/ TreeEndConglomerate
  \/ \E outcome \in Outcomes : TreeWriteTree(outcome)
  \/ \E n \in InTree : \/ TreeDeleteNode(n)
                       \/ TreeTurnOn(n) \/ TreeTurnOff(n)
                       \/ TreeSetSubtree(n) \/ TreeSetNoSubtree(n)
                       \/ TreeSetDefault(n)

Spec == Init /\ [][Next]_vars

-----------------------------------------------------------------------------
(* Properties. *)

FreeNodes == FreeList(node, free)

(***************************************************************************)
(* TreeVerify finds no bad linkage: the first of the children and of the    *)
(* members of a node has the node as its parent, a brother has the same     *)
(* parent, and the free node after a free node links back to it.            *)
(***************************************************************************)
TreeVerify ==
  /\ \A n \in InTree :
       /\ \A m \in {node[n].child, node[n].member} \ {NIL} : node[m].parent = n
       /\ node[n].brother # NIL => node[node[n].brother].parent = node[n].parent
  /\ \A n \in FreeNodes : node[n].parent # NIL => node[node[n].parent].child = n

(***************************************************************************)
(* What is more, whatever was added, moved, deleted and written: no node is *)
(* met twice, and nothing comes before the first free one.                  *)
(***************************************************************************)
Linked ==
  /\ TreeVerify
  /\ \A n \in InTree :
       Cardinality({m \in InTree : n \in {node[m].child, node[m].member, node[m].brother}})
         = (IF n = Root THEN 0 ELSE 1)
  /\ free # NIL => node[free].child = NIL

(***************************************************************************)
(* Every node of the array is in the tree, free, or deleted; what is in the *)
(* tree is neither, and what waits for the next write is not free yet.      *)
(***************************************************************************)
Accounted ==
  LET gone == {n \in 0 .. nodes - 1 : node[n].name = DELETED} IN
  /\ InTree \cup FreeNodes \cup gone = 0 .. nodes - 1
  /\ InTree \cap (FreeNodes \cup gone) = {}
  /\ Elements(deleted_nid_list) \subseteq gone \ FreeNodes
  /\ Cardinality(Elements(deleted_nid_list)) = Len(deleted_nid_list)

(***************************************************************************)
(* The elements of a conglomerate have successive numbers, from its first   *)
(* one on: this is how the others are found from any of them.               *)
(***************************************************************************)
Successive ==
  \A n \in InTree : node[n].elt > 1 => n - 1 \in InTree /\ node[n - 1].elt = node[n].elt - 1

(***************************************************************************)
(* A node knows whether one above it is off, also after it was moved or     *)
(* switched while others were off, or made of one that was deleted; up to a *)
(* write that leaves some of the characteristics in memory ("nci").         *)
(***************************************************************************)
StateKnown ==
  \A n \in InTree \ {Root} : nci[n].parentOff = ~IsOn(node[n].parent)

(* No reference to a subtree outlives its node (_TreeSetNoSubtree on delete). *)
ExternalsLive == external \subseteq InTree

(***************************************************************************)
(* What leaves the tree was deleted: no node is renamed off into space      *)
(* (TreeRenameNode) or hangs on one that is not in the tree itself.         *)
(***************************************************************************)
NotIntoSpace == [][\A n \in InTree \ InTree' : node'[n].name = DELETED]_vars

(***************************************************************************)
(* To its user the array is a tree of named nodes (NodeTree).               *)
(***************************************************************************)
Abstract == INSTANCE NodeTree WITH
  tree <- [n \in InTree \ {Root} |-> [parent |-> node[n].parent, name |-> node[n].name]]

TreeSpec == Abstract!Spec
================================================================================
