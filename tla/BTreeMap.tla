------------------------------ MODULE BTreeMap ------------------------------
(***************************************************************************)
(* The B-tree of docker/agamotto/drivers/custom/btree_map.c, a target of   *)
(* the campaigns.  A node is its occupied items and slots; what lies       *)
(* behind them in the arrays is never used.  Keys are not 0, the value     *)
(* of an empty item.  Each operation runs in one transaction.              *)
(***************************************************************************)
EXTENDS Integers, Sequences, FiniteSets, SequencesExt

CONSTANT BTREE_ORDER

ASSUME OrderAssumption == BTREE_ORDER \in Nat /\ BTREE_ORDER > 2 /\ BTREE_ORDER % 2 = 0

BTREE_MIN == BTREE_ORDER \div 2 - 1     \* the least number of keys of a node

Node(items, slots) == [items |-> items, slots |-> slots]
IsLeaf(n) == n.slots = <<>>
Full(n)   == Len(n.items) = BTREE_ORDER - 1

\* The root of a map just created or cleared is null; readers take it for an empty node.
NullRoot == [items |-> <<>>, slots |-> <<>>, null |-> TRUE]
btree_map_create == NullRoot
Slots(n, first, last) == IF IsLeaf(n) THEN <<>> ELSE SubSeq(n.slots, first, last)

\* A null pointer was followed: 0 is not a key.
Segfault == Node(<<0>>, <<>>)

--------------------------------------------------------------------------
(* Insertion: full nodes are split on the way down. *)

btree_map_create_split_node(n) ==
  LET c == BTREE_ORDER \div 2
  IN  [median |-> n.items[c],
       left   |-> Node(SubSeq(n.items, 1, c - 1), Slots(n, 1, c)),
       right  |-> Node(SubSeq(n.items, c + 1, BTREE_ORDER - 1), Slots(n, c + 1, BTREE_ORDER))]

\* The split child at slot i + 1 becomes two around its median.
btree_map_insert_node(n, i, s) ==
  Node(InsertAt(n.items, i + 1, s.median), InsertAt([n.slots EXCEPT ![i + 1] = s.right], i + 1, s.left))

RECURSIVE btree_map_find_dest_node(_, _)
\* n, which is not full, with the key in the leaf where it belongs.
btree_map_find_dest_node(n, key) ==
  LET i == Cardinality({j \in DOMAIN n.items : n.items[j] <= key})
  IN  IF IsLeaf(n) THEN Node(InsertAt(n.items, i + 1, key), <<>>)
      ELSE IF ~Full(n.slots[i + 1])
           THEN [n EXCEPT !.slots[i + 1] = btree_map_find_dest_node(@, key)]
           ELSE LET s == btree_map_create_split_node(n.slots[i + 1])
                    j == IF key > s.median THEN i + 2 ELSE i + 1
                IN  [btree_map_insert_node(n, i, s) EXCEPT !.slots[j] = btree_map_find_dest_node(@, key)]

btree_map_is_empty(root) == root.items = <<>>

btree_map_insert(root, key) ==
  IF btree_map_is_empty(root) THEN Node(<<key>>, <<>>)
  ELSE IF ~Full(root) THEN btree_map_find_dest_node(root, key)
  ELSE LET s == btree_map_create_split_node(root)
       IN  btree_map_find_dest_node(Node(<<s.median>>, <<s.left, s.right>>), key)

--------------------------------------------------------------------------
(* Removal: a deficient child takes an item from a sibling or merges.      *)
(* p counts slots from 1.                                                  *)

btree_map_rotate_right(n, p) ==
  LET node == n.slots[p]
      rsb  == n.slots[p + 1]
  IN  Node([n.items EXCEPT ![p] = Head(rsb.items)],
           [n.slots EXCEPT ![p]     = Node(Append(node.items, n.items[p]), node.slots \o Slots(rsb, 1, 1)),
                           ![p + 1] = Node(Tail(rsb.items), Slots(rsb, 2, Len(rsb.slots)))])

btree_map_rotate_left(n, p) ==
  LET node == n.slots[p]
      lsb  == n.slots[p - 1]
  IN  Node([n.items EXCEPT ![p - 1] = Last(lsb.items)],
           [n.slots EXCEPT ![p]     = Node(<<n.items[p - 1]>> \o node.items, Slots(lsb, Len(lsb.slots), Len(lsb.slots)) \o node.slots),
                           ![p - 1] = Node(Front(lsb.items), Slots(lsb, 1, Len(lsb.slots) - 1))])

\* Mutant: the separator is dropped.
btree_map_merge_NoSeparator(n, p) ==
  Node(RemoveAt(n.items, p),
       RemoveAt([n.slots EXCEPT ![p] = Node(@.items \o n.slots[p + 1].items, @.slots \o n.slots[p + 1].slots)], p + 1))

btree_map_merge(n, p) ==
  LET l == n.slots[p]
      r == n.slots[p + 1]
  IN  Node(RemoveAt(n.items, p),
           RemoveAt([n.slots EXCEPT ![p] = Node(l.items \o <<n.items[p]>> \o r.items, l.slots \o r.slots)], p + 1))

btree_map_rebalance(n, p) ==
  LET Spare(q) == q \in DOMAIN n.slots /\ Len(n.slots[q].items) > BTREE_MIN
  IN  IF Spare(p + 1) THEN btree_map_rotate_right(n, p)
      ELSE IF Spare(p - 1) THEN btree_map_rotate_left(n, p)
      ELSE IF p < Len(n.slots) THEN btree_map_merge(n, p)
      ELSE IF p > 1 THEN btree_map_merge(n, p - 1)
      ELSE Segfault                      \* the only child: merged with a null sibling

Repaired(n, p) == IF Len(n.slots[p].items) < BTREE_MIN THEN btree_map_rebalance(n, p) ELSE n

RECURSIVE Leftmost(_)
Leftmost(n) == IF IsLeaf(n) THEN n.items[1] ELSE Leftmost(n.slots[1])

RECURSIVE WithoutLeftmost(_)
\* Only the parent of the leaf repairs it; the nodes above are not looked at.
WithoutLeftmost(n) ==
  IF IsLeaf(n) THEN Node(Tail(n.items), <<>>)
  ELSE LET m == [n EXCEPT !.slots[1] = WithoutLeftmost(@)]
       IN  IF IsLeaf(n.slots[1]) THEN Repaired(m, 1) ELSE m

btree_map_remove_from_node(n, i) ==
  IF IsLeaf(n) THEN Node(RemoveAt(n.items, i), <<>>)
  ELSE LET m == Node([n.items EXCEPT ![i] = Leftmost(n.slots[i + 1])],
                     [n.slots EXCEPT ![i + 1] = WithoutLeftmost(@)])
       IN  IF IsLeaf(n.slots[i + 1]) THEN Repaired(m, i + 1) ELSE m

RECURSIVE btree_map_remove_item(_, _)
btree_map_remove_item(n, key) ==
  LET i == Cardinality({j \in DOMAIN n.items : n.items[j] < key}) + 1
  IN  IF i \in DOMAIN n.items /\ n.items[i] = key THEN btree_map_remove_from_node(n, i)
      ELSE IF IsLeaf(n) THEN n
      ELSE Repaired([n EXCEPT !.slots[i] = btree_map_remove_item(@, key)], i)

\* A root without items gives way to its only child.
btree_map_remove(root, key) ==
  LET r == IF root = NullRoot THEN Segfault ELSE btree_map_remove_item(root, key)
  IN  IF r.items = <<>> /\ ~IsLeaf(r) THEN r.slots[1] ELSE r

RECURSIVE btree_map_foreach_node(_)
btree_map_foreach_node(n) ==
  IF IsLeaf(n) THEN n.items
  ELSE FlattenSeq([i \in DOMAIN n.slots |->
         btree_map_foreach_node(n.slots[i]) \o SubSeq(n.items, i, IF i \in DOMAIN n.items THEN i ELSE i - 1)])

RECURSIVE Search(_, _)
\* The node where the search for the key ends.
Search(n, key) ==
  LET i == Cardinality({j \in DOMAIN n.items : n.items[j] < key}) + 1
  IN  IF IsLeaf(n) \/ (i \in DOMAIN n.items /\ n.items[i] = key) THEN n ELSE Search(n.slots[i], key)

btree_map_lookup(n, key) == Contains(Search(n, key).items, key)

\* The value of a key stands for itself, 0 for no value.
btree_map_get(n, key) ==
  IF Contains(Search(n, key).items, key) THEN key ELSE 0

RECURSIVE btree_map_clear_node(_)
\* Whether it survives: it goes on to every slot but the last, a leaf's are null.
btree_map_clear_node(n) == IF IsLeaf(n) THEN n.items = <<>> ELSE \A i \in DOMAIN n.items : btree_map_clear_node(n.slots[i])

btree_map_clear(root) == IF root # NullRoot /\ btree_map_clear_node(root) THEN NullRoot ELSE Segfault

--------------------------------------------------------------------------
RECURSIVE NodesOf(_)
NodesOf(n) == {n} \cup UNION {NodesOf(n.slots[i]) : i \in DOMAIN n.slots}

RECURSIVE Depth(_)
Depth(n) == IF IsLeaf(n) THEN 0 ELSE 1 + Depth(n.slots[1])

\* In the shape of a B-tree: leaves at one depth, nodes not overfull.
BTreeShape(root) ==
  \A n \in NodesOf(root) :
    /\ Len(n.items) < BTREE_ORDER
    /\ IsLeaf(n) \/ Len(n.slots) = Len(n.items) + 1
    /\ \A i \in DOMAIN n.slots : Depth(n.slots[i]) = Depth(n) - 1
=============================================================================
