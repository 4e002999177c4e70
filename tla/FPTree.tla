-------------------------------- MODULE FPTree --------------------------------
(***************************************************************************)
(* The failure point tree (src/src/instrumentation/fp_tree.cpp) and the    *)
(* memory it takes (allocator.cpp).                                        *)
(*                                                                         *)
(* A backtrace is its sequence of addresses from the frame under the root  *)
(* to the failure point; a node is the sequence of addresses on its path,  *)
(* so the root is <<>> and parent pointers are implicit.  The children of  *)
(* a node keep the order in which they were inserted.                      *)
(***************************************************************************)
EXTENDS Integers, Sequences, FiniteSets, SequencesExt

\* Sizes in bytes on the x86-64 build.
SIZEOF_FPTraceAddr == 40
SIZEOF_PTR         == 8
INIT_CHILDREN      == 1
REALLOC_RATIO      == 2

NewTree == [children |-> [n \in {<<>>} |-> <<>>], visited |-> {}]

Nodes(tree)         == DOMAIN tree.children
ChildNodes(tree, n) == {Append(n, addr) : addr \in ToSet(tree.children[n])}
Path(stack, depth)  == SubSeq(stack, 1, depth)

\* Memory of a new node, and of the children array when a child is added to
\* `count` of them: it doubles when it is full.
NewNodeSize == SIZEOF_FPTraceAddr + SIZEOF_PTR * INIT_CHILDREN

Realloc(count) ==
  IF \E k \in 0 .. count : count = INIT_CHILDREN * REALLOC_RATIO ^ k
  THEN SIZEOF_PTR * REALLOC_RATIO * count ELSE 0

\* allocator::init leaves the first byte unused.
InitialIdx == 1
-----------------------------------------------------------------------------
(* InsertFPTrace.  Its inner loop goes on after a match, with the children *)
(* of the matched node and the same index: it follows a chain of equal     *)
(* addresses down the tree as long as their positions increase.            *)

Chain(node, addr, length) == node \o [k \in 1 .. length |-> addr]

Position(tree, node, addr) ==
  CHOOSE k \in DOMAIN tree.children[node] : tree.children[node][k] = addr

Follows(tree, node, addr, length) ==
  \A i \in 0 .. length - 1 :
    LET here == Chain(node, addr, i)
    IN  /\ Append(here, addr) \in Nodes(tree)
        /\ i > 0 => Position(tree, here, addr)
                      > Position(tree, Chain(node, addr, i - 1), addr)

Matched(tree, node, addr) ==
  LET lengths == {m \in 0 .. Cardinality(Nodes(tree)) : Follows(tree, node, addr, m)}
  IN  Chain(node, addr, CHOOSE m \in lengths : \A l \in lengths : l <= m)

InsertAddr_NotLinked(at, addr) ==
  LET next == Matched(at.tree, at.node, addr)
  IN  IF next # at.node
      THEN [at EXCEPT !.node = next]
      ELSE [tree |-> [at.tree EXCEPT !.children =
                        (Append(at.node, addr) :> <<>>) @@ @],
            node |-> Append(at.node, addr), uniq |-> TRUE,
            idx |-> at.idx + Realloc(Len(at.tree.children[at.node])) + NewNodeSize]

\* One address of the backtrace: move to the matched node, or add it.
InsertAddr(at, addr) ==
  LET next     == Matched(at.tree, at.node, addr)
      siblings == at.tree.children[at.node]
      added    == Append(at.node, addr)
      children == [n \in Nodes(at.tree) \cup {added} |->
                     IF n = added THEN <<>>
                     ELSE IF n = at.node THEN Append(siblings, addr)
                     ELSE at.tree.children[n]]
  IN  IF next # at.node
      THEN [tree |-> at.tree, node |-> next, uniq |-> at.uniq, idx |-> at.idx]
      ELSE [tree |-> [children |-> children, visited |-> at.tree.visited],
            node |-> added,
            uniq |-> TRUE,
            idx  |-> at.idx + Realloc(Len(siblings)) + NewNodeSize]

InsertFPTrace(tree, idx, stack) ==
  LET at[k \in 0 .. Len(stack)] ==
        IF k = 0 THEN [tree |-> tree, node |-> <<>>, uniq |-> FALSE, idx |-> idx]
        ELSE InsertAddr(at[k - 1], stack[k])
  IN  at[Len(stack)]
-----------------------------------------------------------------------------
(* InjectFP.  The walk stops at the first node that is missing or visited. *)

Obstacles(tree, stack) ==
  {d \in 1 .. Len(stack) :
     Path(stack, d) \notin Nodes(tree) \/ Path(stack, d) \in tree.visited}

Injects(tree, stack) == Obstacles(tree, stack) = {}

UnexpectedNewFP(tree, stack) ==
  \E d \in Obstacles(tree, stack) :
    /\ Path(stack, d) \notin Nodes(tree)
    /\ \A e \in Obstacles(tree, stack) : d <= e

MarkVisited_AnyChild(tree, stack) ==
  [tree EXCEPT !.visited = @ \cup {Path(stack, d) : d \in 0 .. Len(stack)}]

MarkVisited_LeafOnly(tree, stack) == [tree EXCEPT !.visited = @ \cup {stack}]

\* Marks the node and back-propagates: an ancestor is visited once all its
\* children are, and the first that is not ends the climb.
MarkVisited(tree, stack) ==
  LET marked(d) == \A e \in d .. Len(stack) - 1 :
                     ChildNodes(tree, Path(stack, e)) \ {Path(stack, e + 1)}
                       \subseteq tree.visited
  IN  [children |-> tree.children,
       visited  |-> tree.visited \cup {Path(stack, d) : d \in {e \in 0 .. Len(stack) : marked(e)}}]
-----------------------------------------------------------------------------
(* DeSerialize allocates every node with room for exactly its children.    *)

ReadBackSize(tree) ==
  FoldSet(LAMBDA n, idx : idx + SIZEOF_FPTraceAddr + SIZEOF_PTR * Len(tree.children[n]),
          InitialIdx, Nodes(tree))

\* What a tree.bin whose writing was cut short still holds: the nodes of some
\* prefix of the file, parents first.  What is read past its end is garbage
\* that no address of a backtrace matches.
Truncations(tree) ==
  {[children |-> [n \in kept |->
                    SelectSeq(tree.children[n], LAMBDA addr : Append(n, addr) \in kept)],
    visited  |-> tree.visited \cap kept] :
   kept \in {k \in SUBSET Nodes(tree) :
               \A n \in Nodes(tree) : n \in k => \A d \in 0 .. Len(n) : Path(n, d) \in k}
            \ {{}}}
=============================================================================
