------------------------------ MODULE RBTreeMap ------------------------------
(***************************************************************************)
(* The red-black tree of docker/agamotto/drivers/custom/rbtree_map.c, as   *)
(* the heap it lives in: a function from nodes to what they hold.  A node  *)
(* is named by its key and the number of its copy; the sentinel, which     *)
(* stands for every null pointer, and the root above the first node have   *)
(* key 0.  Each operation runs in one transaction.                         *)
(***************************************************************************)
EXTENDS Integers, Sequences, FiniteSets, Functions

s     == <<0, 0>>       \* the sentinel
r     == <<0, 1>>       \* the root
Left  == 0
Right == 1
Key(n) == n[1]

Black == [color |-> "black", parent |-> s, slots |-> [c \in {Left, Right} |-> s]]
rbtree_map_create == [n \in {s, r} |-> Black]

First(h)       == h[r].slots[Left]
P(h, n)        == h[n].parent
Location(h, n) == IF h[P(h, n)].slots[Right] = n THEN Right ELSE Left
Red(h, n)      == h[n].color = "red"
Paint(h, n, color) == [h EXCEPT ![n].color = color]

rbtree_map_rotate(h, node, c) ==
  LET child == h[node].slots[1 - c]
      inner == h[child].slots[c]
      above == h[node].parent
  IN  [h EXCEPT ![node].slots[1 - c] = inner, ![child].parent = above,
                ![inner].parent = IF inner = s THEN @ ELSE node,
                ![above].slots[Location(h, node)] = child,
                ![child].slots[c] = node, ![node].parent = child]

RECURSIVE Descend(_, _, _, _)
\* The empty place below parent, on side c, where the key belongs.
Descend(h, parent, c, key) ==
  LET dst == h[parent].slots[c]
  IN  IF dst = s THEN <<parent, c>> ELSE Descend(h, dst, IF key > Key(dst) THEN Right ELSE Left, key)

rbtree_map_insert_bst(h, n) ==
  LET place == Descend(h, r, Left, Key(n))
      h1 == [m \in DOMAIN h \cup {n} |-> IF m = n THEN [Black EXCEPT !.color = "red", !.parent = place[1]] ELSE h[m]]
  IN  [h1 EXCEPT ![place[1]].slots[place[2]] = n]

\* Mutant: a red uncle is painted, the parent is not.
rbtree_map_recolor_NoParent(h, n, c) ==
  LET uncle == h[P(h, P(h, n))].slots[1 - c]
  IN  [node |-> s, heap |-> Paint(h, uncle, "black")]

\* n, on the outer side, hands its red up and its grandparent rotates over.
RotateOver(h, n, c) ==
  rbtree_map_rotate([h EXCEPT ![P(h, n)].color = "black", ![P(h, P(h, n))].color = "red"], P(h, P(h, n)), 1 - c)

\* The new heap and the node to go on with.
rbtree_map_recolor(h, n, c) ==
  LET up    == P(h, n)
      uncle == h[P(h, up)].slots[1 - c]
  IN  IF Red(h, uncle)
      THEN [node |-> P(h, up),
            heap |-> [h EXCEPT ![uncle].color = "black", ![up].color = "black", ![P(h, up)].color = "red"]]
      ELSE IF n = h[up].slots[1 - c]
      THEN [node |-> up, heap |-> RotateOver(rbtree_map_rotate(h, up, c), up, c)]
      ELSE [node |-> n, heap |-> RotateOver(h, n, c)]

RECURSIVE RestoreInsert(_, _)
RestoreFrom(next) == RestoreInsert(next.heap, next.node)
RestoreInsert(h, n) ==
  IF Red(h, P(h, n))
  THEN RestoreFrom(rbtree_map_recolor(h, n, Location(h, P(h, n))))
  ELSE Paint(h, First(h), "black")

rbtree_map_insert(h, n) == RestoreInsert(rbtree_map_insert_bst(h, n), n)

--------------------------------------------------------------------------
RECURSIVE Minimum(_, _)
Minimum(h, n) == IF h[n].slots[Left] = s THEN n ELSE Minimum(h, h[n].slots[Left])

\* The successor is asked for of nodes with two children only.
rbtree_map_successor(h, n) == Minimum(h, h[n].slots[Right])

\* A red sibling becomes the grandparent.
RedSibling(h, up, sb, c) ==
  IF Red(h, sb) THEN rbtree_map_rotate([h EXCEPT ![sb].color = "black", ![up].color = "red"], up, c) ELSE h

\* The sibling's red child comes to lie on the outer side.
OuterNephew(h, sb, c) ==
  IF Red(h, h[sb].slots[1 - c]) THEN h
  ELSE rbtree_map_rotate([h EXCEPT ![h[sb].slots[c]].color = "black", ![sb].color = "red"], sb, 1 - c)

\* The sibling takes the place and the color of the parent.
SiblingUp(h, up, sb, c) ==
  rbtree_map_rotate([h EXCEPT ![sb].color = h[up].color, ![up].color = "black", ![h[sb].slots[1 - c]].color = "black"], up, c)

Done(h) == [node |-> First(h), heap |-> h]

BlackSibling(h, n, up, sb, c) ==
  IF \A side \in {Left, Right} : ~Red(h, h[sb].slots[side])
  THEN [node |-> P(h, n), heap |-> Paint(h, sb, "red")]
  ELSE LET h2 == OuterNephew(h, sb, c) IN Done(SiblingUp(h2, up, h2[up].slots[1 - c], c))

rbtree_map_repair_branch(h, n, c) ==
  LET up == P(h, n)
      h1 == RedSibling(h, up, h[up].slots[1 - c], c)
  IN  BlackSibling(h1, n, up, h1[up].slots[1 - c], c)

RECURSIVE rbtree_map_repair(_, _)
RepairFrom(next) == rbtree_map_repair(next.heap, next.node)
rbtree_map_repair(h, n) ==
  IF n # First(h) /\ ~Red(h, n)
  THEN RepairFrom(rbtree_map_repair_branch(h, n, Location(h, n)))
  ELSE Paint(h, n, "black")

\* x takes the place of y, its parent.
Splice(h, x, y) ==
  IF P(h, y) = r THEN [h EXCEPT ![x].parent = r, ![r].slots[Left] = x]
  ELSE [h EXCEPT ![x].parent = P(h, y), ![P(h, y)].slots[Location(h, y)] = x]

\* y takes the place of n.
Replace(h, n, y) ==
  [h EXCEPT ![y] = h[n], ![h[n].slots[Left]].parent = y, ![h[n].slots[Right]].parent = y,
            ![P(h, n)].slots[Location(h, n)] = y]

Unlink(h, y) ==
  LET x == h[y].slots[IF h[y].slots[Left] = s THEN Right ELSE Left]
  IN  IF Red(h, y) THEN Splice(h, x, y) ELSE rbtree_map_repair(Splice(h, x, y), x)

rbtree_map_remove(h, n) ==
  LET one == s \in {h[n].slots[Left], h[n].slots[Right]}
      y   == IF one THEN n ELSE rbtree_map_successor(h, n)
      h1  == Unlink(h, y)
  IN  Restrict(IF one THEN h1 ELSE Replace(h1, n, y), DOMAIN h \ {n})

RECURSIVE FindBelow(_, _, _)
FindBelow(h, n, key) == IF n = s \/ Key(n) = key THEN n ELSE FindBelow(h, h[n].slots[IF key > Key(n) THEN Right ELSE Left], key)
rbtree_map_find_node(h, key) == FindBelow(h, First(h), key)      \* s if there is none

RECURSIVE rbtree_map_foreach_node(_, _)
rbtree_map_foreach_node(h, n) ==
  IF n = s THEN <<>>
  ELSE rbtree_map_foreach_node(h, h[n].slots[Left]) \o <<Key(n)>> \o rbtree_map_foreach_node(h, h[n].slots[Right])

rbtree_map_lookup(h, key) == rbtree_map_find_node(h, key) # s
rbtree_map_get(h, key)    == Key(rbtree_map_find_node(h, key))   \* the key stands for its value
rbtree_map_is_empty(h)    == s \notin DOMAIN h                   \* asks for null where the sentinel is

RECURSIVE Subtree(_, _)
Subtree(h, n) == {n} \cup UNION {Subtree(h, h[n].slots[c]) : c \in {c \in {Left, Right} : h[n].slots[c] # s}}

\* Root and sentinel are freed too and null from then on: every other operation follows them.
rbtree_map_clear(h) == Restrict(h, DOMAIN h \ (Subtree(h, r) \cup {s}))
Cleared(h)          == r \notin DOMAIN h

--------------------------------------------------------------------------
RECURSIVE BlackHeight(_, _)
\* -1 if the two sides differ.
BlackHeight(h, n) ==
  IF n = s THEN 0
  ELSE LET a == BlackHeight(h, h[n].slots[Left])
           b == BlackHeight(h, h[n].slots[Right])
       IN  IF a # b \/ a = -1 THEN -1 ELSE a + (IF Red(h, n) THEN 0 ELSE 1)

\* The red-black properties, and parents that agree with the children.
RBTreeShape(h) ==
  /\ BlackHeight(h, First(h)) >= 0
  /\ ~Red(h, First(h)) /\ ~Red(h, s)
  /\ \A n \in DOMAIN h \ {s, r} : \A c \in {Left, Right} :
       LET m == h[n].slots[c] IN m # s => P(h, m) = n /\ (Red(h, n) => ~Red(h, m))
=============================================================================
