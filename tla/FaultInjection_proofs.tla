------------------------- MODULE FaultInjection_proofs -------------------------
(***************************************************************************)
(* The failure point tree of a campaign, and what the campaign does with   *)
(* it, for every set of backtraces a compiled program may have at failure  *)
(* points.                                                                 *)
(*                                                                         *)
(* What is recursive is proved by induction over a set of numbers, which   *)
(* WellFoundedInduction gives without a predicate as a parameter.          *)
(***************************************************************************)
EXTENDS FailurePoints, FiniteSetTheorems, SequenceTheorems, WellFoundedInduction, TLAPS

(* No backtrace is the beginning of another: the last address is that of   *)
(* an access to memory, those before it of calls.  And none has a call     *)
(* that is its own caller: InsertFPTrace misplaces those, as run           *)
(* RecursiveBacktraces shows.                                              *)
NoneBeginsAnother == \A s, t \in Stacks : IsPrefix(s, t) => s = t
NoRecursion       == \A s \in Stacks : \A i \in 1 .. Len(s) - 1 : s[i] # s[i + 1]
ProperBacktraces  == NoneBeginsAnother /\ NoRecursion

--------------------------------------------------------------------------
(* Induction over a set.                                                   *)

LEMMA LeastElement ==
  ASSUME NEW T, T \subseteq Nat, T # {}
  PROVE  \E n \in T : \A m \in T : n <= m
  <1> DEFINE less == {p \in Nat \X Nat : p[1] < p[2]}
  <1>1. IsWellFoundedOn(less, Nat)
    BY NatLessThanWellFounded DEF OpToRel
  <1>2. PICK n \in T : \A m \in T : <<m, n>> \notin less
    BY <1>1, WFMin
  <1>3. \A m \in T : ~(m < n)
    BY <1>2
  <1> QED
    BY <1>3

(* Up to a bound, from one number to the next.                             *)
LEMMA InductionUpTo ==
  ASSUME NEW N \in Nat, NEW T, 0 \in T, \A n \in 0 .. N - 1 : n \in T => n + 1 \in T
  PROVE  \A n \in 0 .. N : n \in T
  <1> SUFFICES ASSUME (0 .. N) \ T # {} PROVE FALSE
    OBVIOUS
  <1>0. (0 .. N) \ T \subseteq Nat
    OBVIOUS
  <1>1. PICK n \in (0 .. N) \ T : \A m \in (0 .. N) \ T : n <= m
    BY <1>0, LeastElement
  <1>2. n - 1 \in 0 .. N - 1 /\ n - 1 \in T
    BY <1>1
  <1> QED
    BY <1>1, <1>2

--------------------------------------------------------------------------
(* Paths.                                                                  *)

IsSequence(s) == \E S : s \in Seq(S)

LEMMA StackFields ==
  ASSUME NEW s \in Stacks
  PROVE  IsSequence(s) /\ Len(s) \in Nat \ {0} /\ DOMAIN s = 1 .. Len(s)
  <1>1. s \in Seq(ToSet(s)) /\ s # <<>>
    BY StacksAssumption
  <1> QED
    BY <1>1 DEF IsSequence

LEMMA PathFields ==
  ASSUME NEW s, IsSequence(s), NEW d \in 0 .. Len(s)
  PROVE  /\ IsSequence(Path(s, d))
         /\ Len(Path(s, d)) = d
         /\ DOMAIN Path(s, d) = 1 .. d
         /\ \A i \in 1 .. d : Path(s, d)[i] = s[i]
  <1>1. PICK S : s \in Seq(S)
    BY DEF IsSequence
  <1>2. Path(s, d) = SubSeq(s, 1, d)
    BY DEF Path
  <1> QED
    BY <1>1, <1>2, SubSeqProperties DEF IsSequence

(* Two sequences are one if they are so everywhere.                        *)
LEMMA SameSequence ==
  ASSUME NEW s, NEW t, IsSequence(s), IsSequence(t), Len(s) = Len(t),
         \A i \in 1 .. Len(s) : s[i] = t[i]
  PROVE  s = t
  <1>1. PICK S : s \in Seq(S)
    BY DEF IsSequence
  <1>2. PICK T : t \in Seq(T)
    BY DEF IsSequence
  <1> QED
    BY <1>1, <1>2

LEMMA AppendFields ==
  ASSUME NEW s, IsSequence(s), NEW e
  PROVE  /\ IsSequence(Append(s, e))
         /\ Len(Append(s, e)) = Len(s) + 1 /\ Len(s) \in Nat
         /\ \A i \in 1 .. Len(s) : Append(s, e)[i] = s[i]
         /\ Append(s, e)[Len(s) + 1] = e
         /\ Append(s, e) # <<>>
  <1>1. PICK S : s \in Seq(S)
    BY DEF IsSequence
  <1> DEFINE T == S \cup {e}
  <1>2. s \in Seq(T) /\ e \in T
    BY <1>1, SeqMonotonic
  <1>3. Append(s, e) \in Seq(T)
    BY <1>2
  <1> QED
    BY <1>2, <1>3 DEF IsSequence

LEMMA PathEnds ==
  ASSUME NEW s, IsSequence(s)
  PROVE  Path(s, 0) = <<>> /\ Path(s, Len(s)) = s
  <1>1. Len(s) \in Nat
    BY DEF IsSequence
  <1>2. Path(s, 0) = <<>>
    BY <1>1 DEF Path, IsSequence
  <1>3. Path(s, Len(s)) = s
    BY <1>1, PathFields, SameSequence
  <1> QED
    BY <1>2, <1>3

LEMMA PathStep ==
  ASSUME NEW s, IsSequence(s), NEW d \in 0 .. Len(s) - 1
  PROVE  Path(s, d + 1) = Append(Path(s, d), s[d + 1])
  <1>1. Len(s) \in Nat /\ d + 1 \in 0 .. Len(s) /\ d \in 0 .. Len(s) /\ d \in Nat
    BY DEF IsSequence
  <1> DEFINE p == Path(s, d)
             q == Path(s, d + 1)
             r == Append(p, s[d + 1])
  <1>2. IsSequence(p) /\ Len(p) = d /\ \A i \in 1 .. d : p[i] = s[i]
    BY <1>1, PathFields
  <1>3. IsSequence(q) /\ Len(q) = d + 1 /\ \A i \in 1 .. d + 1 : q[i] = s[i]
    BY <1>1, PathFields
  <1> HIDE DEF p, q
  <1>4. IsSequence(r) /\ Len(r) = d + 1 /\ (\A i \in 1 .. d : r[i] = p[i]) /\ r[d + 1] = s[d + 1]
    BY <1>2, AppendFields
  <1> HIDE DEF r
  <1>5. q = r
    BY <1>1, <1>2, <1>3, <1>4, SameSequence
  <1> QED
    BY <1>5 DEF p, q, r

LEMMA PathsEqual ==
  ASSUME NEW s, NEW t, IsSequence(s), IsSequence(t), NEW d \in 0 .. Len(s), NEW e \in 0 .. Len(t)
  PROVE  Path(s, d) = Path(t, e) <=> d = e /\ \A i \in 1 .. d : s[i] = t[i]
  <1>1. /\ IsSequence(Path(s, d)) /\ Len(Path(s, d)) = d /\ \A i \in 1 .. d : Path(s, d)[i] = s[i]
        /\ IsSequence(Path(t, e)) /\ Len(Path(t, e)) = e /\ \A i \in 1 .. e : Path(t, e)[i] = t[i]
    BY PathFields
  <1> QED
    BY <1>1, SameSequence

LEMMA AppendsEqual ==
  ASSUME NEW s, NEW t, IsSequence(s), IsSequence(t), NEW a, NEW b, Append(s, a) = Append(t, b)
  PROVE  s = t /\ a = b
  <1>1. Len(s) = Len(t) /\ a = b /\ \A i \in 1 .. Len(s) : s[i] = t[i]
    BY AppendFields
  <1> QED
    BY <1>1, SameSequence

(* A prefix is a path.                                                     *)
LEMMA PrefixIsPath ==
  ASSUME NEW n, NEW s, IsSequence(n), IsSequence(s)
  PROVE  IsPrefix(n, s) <=> Len(n) \in 0 .. Len(s) /\ n = Path(s, Len(n))
  <1>1. Len(n) \in Nat /\ Len(s) \in Nat
    BY DEF IsSequence
  <1>2. Path(n, Len(n)) = n
    BY PathEnds
  <1> QED
    BY <1>1, <1>2 DEF IsPrefix, Path

(* The paths of the backtraces.                                            *)
IsPath(n) == \E s \in Stacks : \E d \in 0 .. Len(s) : n = Path(s, d)

LEMMA PathIsSequence == ASSUME NEW n, IsPath(n) PROVE IsSequence(n)
  BY StackFields, PathFields DEF IsPath

LEMMA StacksArePaths == ASSUME NEW s \in Stacks PROVE IsPath(s)
  <1>1. Len(s) \in 0 .. Len(s) /\ s = Path(s, Len(s))
    BY StackFields, PathEnds
  <1> QED
    BY <1>1 DEF IsPath

(* No path goes on with an address twice.                                  *)
LEMMA NoChain ==
  ASSUME NoRecursion, NEW n, IsSequence(n), NEW a
  PROVE  ~IsPath(Append(Append(n, a), a))
  <1> SUFFICES ASSUME NEW s \in Stacks, NEW d \in 0 .. Len(s), Append(Append(n, a), a) = Path(s, d)
               PROVE  FALSE
    BY DEF IsPath
  <1> DEFINE p == Append(n, a)
             q == Append(p, a)
  <1>1. IsSequence(p) /\ Len(p) = Len(n) + 1 /\ Len(n) \in Nat /\ p[Len(n) + 1] = a
    BY AppendFields
  <1>2. Len(q) = Len(p) + 1 /\ q[Len(p)] = p[Len(p)] /\ q[Len(p) + 1] = a
    <2> HIDE DEF p
    <2> QED
      BY <1>1, AppendFields
  <1>3. IsSequence(s) /\ Len(s) \in Nat
    BY StackFields
  <1>4. Len(Path(s, d)) = d /\ \A i \in 1 .. d : Path(s, d)[i] = s[i]
    BY <1>3, PathFields
  <1> HIDE DEF p
  <1>5. d = Len(n) + 2 /\ s[Len(n) + 1] = a /\ s[Len(n) + 2] = a
    BY <1>1, <1>2, <1>4
  <1>6. Len(n) + 1 \in 1 .. Len(s) - 1
    BY <1>1, <1>3, <1>5
  <1> QED
    BY <1>1, <1>5, <1>6 DEF NoRecursion

(* Where two backtraces part.                                              *)
LEMMA Parting ==
  ASSUME NoneBeginsAnother, NEW s \in Stacks, NEW t \in Stacks, s # t
  PROVE  \E e \in Nat : /\ e < Len(s) /\ e < Len(t)
                        /\ \A i \in 1 .. e : s[i] = t[i]
                        /\ s[e + 1] # t[e + 1]
  <1>1. IsSequence(s) /\ IsSequence(t) /\ Len(s) \in Nat /\ Len(t) \in Nat
    BY StackFields
  <1> DEFINE D == {i \in Nat : i >= 1 /\ i <= Len(s) /\ i <= Len(t) /\ s[i] # t[i]}
  <1>2. D # {}
    <2> SUFFICES ASSUME \A i \in Nat : i >= 1 /\ i <= Len(s) /\ i <= Len(t) => s[i] = t[i] PROVE FALSE
      OBVIOUS
    <2>1. CASE Len(s) <= Len(t)
      <3>1. Path(s, Len(s)) = Path(t, Len(s))
        BY <1>1, <2>1, PathsEqual
      <3>2. IsPrefix(s, t)
        BY <1>1, <2>1, <3>1, PathEnds, PrefixIsPath
      <3> QED
        BY <3>2 DEF NoneBeginsAnother
    <2>2. CASE Len(t) <= Len(s)
      <3>1. Path(t, Len(t)) = Path(s, Len(t))
        BY <1>1, <2>2, PathsEqual
      <3>2. IsPrefix(t, s)
        BY <1>1, <2>2, <3>1, PathEnds, PrefixIsPath
      <3> QED
        BY <3>2 DEF NoneBeginsAnother
    <2> QED
      BY <1>1, <2>1, <2>2
  <1>3. PICK m \in D : \A i \in D : m <= i
    BY <1>2, LeastElement
  <1>4. m - 1 \in Nat /\ m - 1 < Len(s) /\ m - 1 < Len(t) /\ s[(m - 1) + 1] # t[(m - 1) + 1]
    BY <1>1, <1>3
  <1>5. \A i \in 1 .. m - 1 : s[i] = t[i]
    BY <1>1, <1>3
  <1> QED
    BY <1>4, <1>5

--------------------------------------------------------------------------
(* Trees.                                                                  *)

(* The children of a node are the nodes one address longer, each once.     *)
Linked(t) ==
  /\ IsFiniteSet(Nodes(t))
  /\ <<>> \in Nodes(t)
  /\ \A n \in Nodes(t) : IsSequence(t.children[n]) /\ IsInjective(t.children[n])
  /\ \A n \in Nodes(t) : \A addr : addr \in ToSet(t.children[n]) <=> Append(n, addr) \in Nodes(t)
  /\ \A n, addr : IsSequence(n) /\ Append(n, addr) \in Nodes(t) => n \in Nodes(t)

OnPaths(t) == \A n \in Nodes(t) : IsPath(n) \/ n = <<>>

LEMMA ChainFields ==
  ASSUME NEW node, IsSequence(node), NEW addr
  PROVE  Chain(node, addr, 0) = node /\ Chain(node, addr, 1) = Append(node, addr)
  <1>1. ASSUME NEW m \in Nat
        PROVE  /\ IsSequence(Chain(node, addr, m)) /\ Len(Chain(node, addr, m)) = Len(node) + m
               /\ \A i \in 1 .. Len(node) : Chain(node, addr, m)[i] = node[i]
               /\ \A i \in Len(node) + 1 .. Len(node) + m : Chain(node, addr, m)[i] = addr
    <2> DEFINE c == [k \in 1 .. m |-> addr]
    <2>1. PICK S : node \in Seq(S)
      BY DEF IsSequence
    <2> DEFINE T == S \cup {addr}
    <2>2. node \in Seq(T)
      BY <2>1, SeqMonotonic
    <2>3. c \in Seq(T) /\ Len(c) = m /\ \A i \in 1 .. m : c[i] = addr
      OBVIOUS
    <2>4. Chain(node, addr, m) = node \o c
      BY DEF Chain
    <2> HIDE DEF c, T
    <2>5. node \o c \in Seq(T) /\ Len(node \o c) = Len(node) + Len(c)
      BY <2>2, <2>3
    <2>6. /\ Len(node) \in Nat
          /\ \A i \in 1 .. Len(node) + m :
               (node \o c)[i] = IF i <= Len(node) THEN node[i] ELSE c[i - Len(node)]
      BY <2>2, <2>3
    <2>7. \A i \in Len(node) + 1 .. Len(node) + m : c[i - Len(node)] = addr
      BY <2>3, <2>6
    <2>8. ASSUME NEW i \in Len(node) + 1 .. Len(node) + m PROVE (node \o c)[i] = addr
      <3>1. i \in 1 .. Len(node) + m /\ ~(i <= Len(node))
        BY <2>6
      <3> QED
        BY <2>6, <2>7, <3>1
    <2>9. \A i \in 1 .. Len(node) : (node \o c)[i] = node[i]
      BY <2>6
    <2> QED
      BY <2>3, <2>4, <2>5, <2>8, <2>9 DEF IsSequence
  <1>2. Len(node) \in Nat
    BY DEF IsSequence
  <1>3. Chain(node, addr, 0) = node
    BY <1>1, <1>2, SameSequence
  <1>4. Chain(node, addr, 1) = Append(node, addr)
    <2> DEFINE a == Append(node, addr)
               c == Chain(node, addr, 1)
    <2>1. IsSequence(a) /\ Len(a) = Len(node) + 1
          /\ (\A i \in 1 .. Len(node) : a[i] = node[i]) /\ a[Len(node) + 1] = addr
      BY AppendFields
    <2>2. IsSequence(c) /\ Len(c) = Len(node) + 1
          /\ (\A i \in 1 .. Len(node) : c[i] = node[i]) /\ c[Len(node) + 1] = addr
      BY <1>1, <1>2
    <2> HIDE DEF a, c
    <2>3. a = c
      BY <1>2, <2>1, <2>2, SameSequence
    <2> QED
      BY <2>3 DEF a, c
  <1> QED
    BY <1>3, <1>4

(* Without recursion InsertFPTrace goes down one level, if it can.         *)
LEMMA MatchedChild ==
  ASSUME NoRecursion, NEW t, Linked(t), OnPaths(t), NEW n, IsSequence(n), NEW addr
  PROVE  Matched(t, n, addr) = IF Append(n, addr) \in Nodes(t) THEN Append(n, addr) ELSE n
  <1> DEFINE next    == Append(n, addr)
             lengths == {m \in 0 .. Cardinality(Nodes(t)) : Follows(t, n, addr, m)}
  <1>1. Chain(n, addr, 0) = n /\ Chain(n, addr, 1) = next /\ IsSequence(next)
    BY ChainFields, AppendFields
  <1>2. Cardinality(Nodes(t)) \in Nat \ {0}
    BY FS_CardinalityType, FS_EmptySet DEF Linked
  <1>3. Follows(t, n, addr, 0)
    BY DEF Follows
  <1>4. Follows(t, n, addr, 1) <=> next \in Nodes(t)
    BY <1>1 DEF Follows
  <1>5. ASSUME NEW m \in Nat, m > 1 PROVE ~Follows(t, n, addr, m)
    <2>1. Append(next, addr) \notin Nodes(t)
      <3>1. ~IsPath(Append(Append(n, addr), addr))
        BY NoChain
      <3>2. Append(next, addr) # <<>>
        BY <1>1, AppendFields
      <3> QED
        BY <3>1, <3>2 DEF OnPaths
    <2>2. 1 \in 0 .. m - 1
      BY <1>5
    <2> QED
      BY <1>1, <2>1, <2>2 DEF Follows
  <1>6. lengths = IF next \in Nodes(t) THEN {0, 1} ELSE {0}
    BY <1>2, <1>3, <1>4, <1>5
  <1>7. Matched(t, n, addr) = Chain(n, addr, CHOOSE m \in lengths : \A l \in lengths : l <= m)
    BY DEF Matched
  <1> HIDE DEF lengths, next
  <1>8. (CHOOSE m \in lengths : \A l \in lengths : l <= m) = IF next \in Nodes(t) THEN 1 ELSE 0
    BY <1>6
  <1>9. Matched(t, n, addr) = IF next \in Nodes(t) THEN next ELSE n
    BY <1>1, <1>7, <1>8
  <1> QED
    BY <1>9 DEF next

LEMMA AppendSet ==
  ASSUME NEW s, IsSequence(s), NEW e
  PROVE  /\ ToSet(Append(s, e)) = ToSet(s) \cup {e}
         /\ IsInjective(s) /\ e \notin ToSet(s) => IsInjective(Append(s, e))
  <1>1. PICK S : s \in Seq(S)
    BY DEF IsSequence
  <1>2. /\ DOMAIN s = 1 .. Len(s) /\ Len(s) \in Nat
        /\ DOMAIN Append(s, e) = 1 .. Len(s) + 1
        /\ \A i \in 1 .. Len(s) : Append(s, e)[i] = s[i]
        /\ Append(s, e)[Len(s) + 1] = e
    BY <1>1
  <1>3. ToSet(Append(s, e)) = ToSet(s) \cup {e}
    BY <1>2 DEF ToSet
  <1>4. IsInjective(s) /\ e \notin ToSet(s) => IsInjective(Append(s, e))
    BY <1>2 DEF IsInjective, ToSet
  <1> QED
    BY <1>3, <1>4

(* What InsertFPTrace does with one address.                               *)
Descended(at, addr, next, r) ==
  /\ r.node = next
  /\ Nodes(r.tree) = Nodes(at.tree) \cup {next}
  /\ r.tree.visited = at.tree.visited
  /\ Linked(r.tree) /\ OnPaths(r.tree)
  /\ next \in Nodes(at.tree) => r = [tree |-> at.tree, node |-> next, uniq |-> at.uniq, idx |-> at.idx]
  /\ next \notin Nodes(at.tree) =>
       /\ r.uniq = TRUE
       /\ r.idx = at.idx + Realloc(Len(at.tree.children[at.node])) + NewNodeSize
       /\ r.tree.children[next] = <<>>
       /\ r.tree.children[at.node] = Append(at.tree.children[at.node], addr)
       /\ \A n \in Nodes(at.tree) : n # at.node => r.tree.children[n] = at.tree.children[n]

LEMMA InsertAddrFields ==
  ASSUME NoRecursion, NEW at, Linked(at.tree), OnPaths(at.tree), at.node \in Nodes(at.tree),
         NEW addr, IsPath(Append(at.node, addr)), IsSequence(at.node)
  PROVE  Descended(at, addr, Append(at.node, addr), InsertAddr(at, addr))
  <1>0. PICK next, r : next = Append(at.node, addr) /\ r = InsertAddr(at, addr)
    OBVIOUS
  <1> DEFINE siblings == at.tree.children[at.node]
             children == [n \in Nodes(at.tree) \cup {next} |->
                            IF n = next THEN <<>> ELSE IF n = at.node THEN Append(siblings, addr)
                            ELSE at.tree.children[n]]
  <1>1. IsSequence(next) /\ next # at.node /\ Len(next) = Len(at.node) + 1 /\ Len(at.node) \in Nat
    BY <1>0, AppendFields
  <1>2. Matched(at.tree, at.node, addr) = IF next \in Nodes(at.tree) THEN next ELSE at.node
    BY <1>0, MatchedChild
  <1>3. ASSUME next \in Nodes(at.tree) PROVE Descended(at, addr, next, r)
    <2>1. r = [tree |-> at.tree, node |-> next, uniq |-> at.uniq, idx |-> at.idx]
      BY <1>0, <1>1, <1>2, <1>3 DEF InsertAddr
    <2>2. r.node = next /\ r.tree = at.tree
      BY <2>1
    <2>3. Nodes(at.tree) \cup {next} = Nodes(at.tree)
      BY <1>3
    <2> QED
      BY <1>3, <2>1, <2>2, <2>3 DEF Descended
  <1>4. ASSUME next \notin Nodes(at.tree) PROVE Descended(at, addr, next, r)
    <2>1. r = [tree |-> [children |-> children, visited |-> at.tree.visited], node |-> next, uniq |-> TRUE,
               idx |-> at.idx + Realloc(Len(siblings)) + NewNodeSize]
      BY <1>0, <1>1, <1>2, <1>4 DEF InsertAddr
    <2>k. /\ DOMAIN children = Nodes(at.tree) \cup {next}
          /\ \A n \in Nodes(at.tree) \cup {next} :
               children[n] = IF n = next THEN <<>> ELSE IF n = at.node THEN Append(siblings, addr)
                             ELSE at.tree.children[n]
      OBVIOUS
    <2> HIDE DEF children
    <2>2. /\ r.node = next /\ r.uniq = TRUE /\ r.tree.visited = at.tree.visited
          /\ r.idx = at.idx + Realloc(Len(siblings)) + NewNodeSize
          /\ r.tree.children = children
      BY <2>1
    <2>3. Nodes(r.tree) = Nodes(at.tree) \cup {next}
      BY <2>k, <2>2 DEF Nodes
    <2>4. /\ r.tree.children[next] = <<>>
          /\ r.tree.children[at.node] = Append(siblings, addr)
          /\ \A n \in Nodes(at.tree) : n # at.node => r.tree.children[n] = at.tree.children[n]
      BY <1>1, <1>4, <2>k, <2>2
    <2>5. addr \notin ToSet(siblings)
      BY <1>0, <1>4 DEF Linked
    <2>6. Linked(r.tree)
      <3>1. IsFiniteSet(Nodes(r.tree)) /\ <<>> \in Nodes(r.tree)
        <4>1. IsFiniteSet(Nodes(at.tree)) /\ <<>> \in Nodes(at.tree)
          BY DEF Linked
        <4> QED
          BY <2>3, <4>1, FS_AddElement
      <3>2. IsSequence(siblings) /\ IsInjective(siblings)
        BY DEF Linked
      <3>3. ToSet(Append(siblings, addr)) = ToSet(siblings) \cup {addr}
        BY <3>2, AppendSet
      <3>4. IsSequence(Append(siblings, addr)) /\ IsInjective(Append(siblings, addr))
        BY <2>5, <3>2, AppendSet, AppendFields
      <3>5. IsSequence(<<>>) /\ IsInjective(<<>>) /\ ToSet(<<>>) = {}
        BY DEF IsSequence, IsInjective, ToSet
      <3>6. ASSUME NEW n \in Nodes(r.tree)
            PROVE  IsSequence(r.tree.children[n]) /\ IsInjective(r.tree.children[n])
        BY <2>3, <2>4, <3>4, <3>5 DEF Linked
      <3>7. ASSUME NEW n \in Nodes(r.tree), NEW a
            PROVE  a \in ToSet(r.tree.children[n]) <=> Append(n, a) \in Nodes(r.tree)
        <4>0. \A m \in Nodes(at.tree) : IsSequence(m)
          BY PathIsSequence, <3>5 DEF OnPaths
        <4>1. CASE n = next
          <5>1. Append(next, a) \notin Nodes(at.tree)
            BY <1>1, <1>4 DEF Linked
          <5>2. Append(next, a) # next
            BY <1>1, AppendFields
          <5> QED
            BY <2>3, <2>4, <3>5, <4>1, <5>1, <5>2
        <4>2. CASE n = at.node
          <5>1. Append(n, a) = next <=> a = addr
            BY <1>0, <4>2, AppendsEqual
          <5> QED
            BY <2>3, <2>4, <3>3, <4>2, <5>1 DEF Linked
        <4>3. CASE n # next /\ n # at.node
          <5>1. n \in Nodes(at.tree) /\ IsSequence(n)
            BY <2>3, <4>0, <4>3
          <5>2. Append(n, a) # next
            BY <1>0, <4>3, <5>1, AppendsEqual
          <5> QED
            BY <2>3, <2>4, <4>3, <5>1, <5>2 DEF Linked
        <4> QED
          BY <4>1, <4>2, <4>3
      <3>8. ASSUME NEW n, NEW a, IsSequence(n), Append(n, a) \in Nodes(r.tree)
            PROVE  n \in Nodes(r.tree)
        <4>1. CASE Append(n, a) = next
          <5>1. n = at.node
            BY <1>0, <3>8, <4>1, AppendsEqual
          <5> QED
            BY <2>3, <5>1
        <4>2. CASE Append(n, a) \in Nodes(at.tree)
          <5>1. n \in Nodes(at.tree)
            BY <3>8, <4>2 DEF Linked
          <5> QED
            BY <2>3, <5>1
        <4> QED
          BY <2>3, <3>8, <4>1, <4>2
      <3> QED
        BY <3>1, <3>6, <3>7, <3>8 DEF Linked
    <2>7. OnPaths(r.tree)
      BY <1>0, <2>3 DEF OnPaths
    <2> QED
      BY <1>4, <2>2, <2>3, <2>4, <2>6, <2>7 DEF Descended
  <1> QED
    BY <1>0, <1>3, <1>4

(* What it takes: a new node, and now and then a longer children array.    *)
LEMMA SizesAreNat == ASSUME NEW n \in Nat PROVE Realloc(n) \in Nat
  BY DEF Realloc, SIZEOF_PTR, REALLOC_RATIO

Room(t, i, r, j) ==
  i \in Nat => j \in Nat /\ j >= i + NewNodeSize * (Cardinality(Nodes(r)) - Cardinality(Nodes(t)))

LEMMA RoomTaken ==
  ASSUME NEW t, IsFiniteSet(Nodes(t)), NEW i, NEW at, Linked(at.tree), at.node \in Nodes(at.tree),
         Room(t, i, at.tree, at.idx), NEW addr, NEW next, NEW r, Descended(at, addr, next, r)
  PROVE  Room(t, i, r.tree, r.idx)
  <1> SUFFICES ASSUME i \in Nat
               PROVE  /\ r.idx \in Nat
                      /\ r.idx >= i + NewNodeSize * (Cardinality(Nodes(r.tree)) - Cardinality(Nodes(t)))
    BY DEF Room
  <1>1. PICK x, y, c, l : /\ x = Cardinality(Nodes(t)) /\ y = Cardinality(Nodes(at.tree)) /\ c = at.idx
                          /\ l = Len(at.tree.children[at.node])
    OBVIOUS
  <1>2. x \in Nat /\ y \in Nat /\ IsFiniteSet(Nodes(at.tree))
    BY <1>1, FS_CardinalityType DEF Linked
  <1>3. c \in Nat /\ c >= i + NewNodeSize * (y - x)
    BY <1>1 DEF Room
  <1>4. NewNodeSize = 48
    BY DEF NewNodeSize, SIZEOF_FPTraceAddr, SIZEOF_PTR, INIT_CHILDREN
  <1>5. CASE next \in Nodes(at.tree)
    <2>1. r = [tree |-> at.tree, node |-> next, uniq |-> at.uniq, idx |-> at.idx]
      BY <1>5 DEF Descended
    <2>2. r.tree = at.tree /\ r.idx = c
      BY <1>1, <2>1
    <2> QED
      BY <1>1, <1>3, <2>2
  <1>6. CASE next \notin Nodes(at.tree)
    <2>1. Nodes(r.tree) = Nodes(at.tree) \cup {next} /\ r.idx = c + Realloc(l) + NewNodeSize
      BY <1>1, <1>6 DEF Descended
    <2>2. Cardinality(Nodes(r.tree)) = y + 1
      <3>1. PICK N : N = Nodes(at.tree)
        OBVIOUS
      <3>2. Cardinality(N \cup {next}) = Cardinality(N) + 1
        BY <1>2, <1>6, <3>1, FS_AddElement
      <3> QED
        BY <1>1, <2>1, <3>1, <3>2
    <2>3. l \in Nat
      BY <1>1 DEF Linked, IsSequence
    <2>4. PICK k \in Nat : k = Realloc(l)
      BY <2>3, SizesAreNat
    <2>5. r.idx = c + k + 48
      BY <1>4, <2>1, <2>4
    <2>6. r.idx \in Nat /\ r.idx >= i + 48 * (y + 1 - x)
      BY <1>2, <1>3, <1>4, <2>4, <2>5
    <2>7. PICK z : z = Cardinality(Nodes(r.tree))
      OBVIOUS
    <2>8. r.idx \in Nat /\ r.idx >= i + NewNodeSize * (z - x)
      BY <1>2, <1>4, <2>2, <2>6, <2>7
    <2> QED
      BY <1>1, <2>7, <2>8
  <1> QED
    BY <1>5, <1>6

(* The insertion of a backtrace, address by address.                       *)
Start(t, i) == [tree |-> t, node |-> <<>>, uniq |-> FALSE, idx |-> i]

Inserts(at, n, start, s) ==
  /\ at[0] = start
  /\ \A k \in 1 .. n : at[k] = InsertAddr(at[k - 1], s[k])

LEMMA InsertionSteps ==
  ASSUME NEW t, NEW i, NEW s, Len(s) \in Nat
  PROVE  \E at : Inserts(at, Len(s), Start(t, i), s) /\ InsertFPTrace(t, i, s) = at[Len(s)]
  <1> DEFINE Def(at, n) == at = [k \in 0 .. n |-> IF k = 0 THEN Start(t, i) ELSE InsertAddr(at[k - 1], s[k])]
             T == {n \in Nat : \E at : Def(at, n)}
  <1>1. 0 \in T
    <2> DEFINE g == [k \in 0 .. 0 |-> Start(t, i)]
    <2>1. Def(g, 0)
      OBVIOUS
    <2> QED
      BY <2>1
  <1>2. ASSUME NEW n \in 0 .. Len(s) - 1, n \in T PROVE n + 1 \in T
    <2>1. PICK g : Def(g, n)
      BY <1>2
    <2> DEFINE h == [k \in 0 .. n + 1 |-> IF k = n + 1 THEN InsertAddr(g[n], s[n + 1]) ELSE g[k]]
    <2>2. ASSUME NEW k \in 0 .. n + 1
          PROVE  h[k] = IF k = 0 THEN Start(t, i) ELSE InsertAddr(h[k - 1], s[k])
      <3>1. CASE k = n + 1
        <4>1. h[k] = InsertAddr(g[n], s[n + 1]) /\ h[k - 1] = g[n]
          BY <3>1
        <4> QED
          BY <3>1, <4>1
      <3>2. CASE k \in 1 .. n
        <4>1. h[k] = g[k] /\ h[k - 1] = g[k - 1]
          BY <3>2
        <4>2. g[k] = InsertAddr(g[k - 1], s[k])
          BY <2>1, <3>2
        <4> QED
          BY <3>2, <4>1, <4>2
      <3>3. CASE k = 0
        <4>1. h[0] = g[0] /\ g[0] = Start(t, i)
          BY <2>1
        <4> QED
          BY <3>3, <4>1
      <3> QED
        BY <3>1, <3>2, <3>3
    <2>3. Def(h, n + 1)
      BY <2>2
    <2> HIDE DEF Def, h
    <2>4. (\E at : Def(at, n + 1)) /\ n + 1 \in Nat
      BY <2>3
    <2> QED
      BY <2>4
  <1>3. \A n \in 0 .. Len(s) : n \in T
    <2> HIDE DEF T
    <2> QED
      BY <1>1, <1>2, InductionUpTo
  <1>4. PICK g : Def(g, Len(s))
    BY <1>3
  <1> DEFINE at == CHOOSE at : Def(at, Len(s))
  <1>5. Def(at, Len(s))
    BY <1>4
  <1>6. InsertFPTrace(t, i, s) = at[Len(s)]
    BY DEF InsertFPTrace, Start
  <1> HIDE DEF at
  <1>7. Inserts(at, Len(s), Start(t, i), s)
    BY <1>5 DEF Inserts
  <1> QED
    BY <1>6, <1>7

(* The tree after an insertion: the paths of the backtrace are new nodes   *)
(* or old ones, nothing is ticked off, and the backtrace counts if its     *)
(* node is new.                                                            *)
Inserted(t, i, s, r) ==
  /\ \A n : n \in Nodes(r.tree) <=> n \in Nodes(t) \/ \E d \in 1 .. Len(s) : n = Path(s, d)
  /\ r.tree.visited = t.visited
  /\ Linked(r.tree) /\ OnPaths(r.tree)
  /\ r.uniq \in BOOLEAN
  /\ r.uniq <=> s \notin Nodes(t)
  /\ s \in Nodes(t) => r.tree = t /\ r.idx = i
  /\ Room(t, i, r.tree, r.idx)

LEMMA InsertedTree ==
  ASSUME NoRecursion, NEW t, Linked(t), OnPaths(t), NEW i, NEW s \in Stacks,
         NEW r, r = InsertFPTrace(t, i, s)
  PROVE  Inserted(t, i, s, r)
  <1>1. IsSequence(s) /\ Len(s) \in Nat /\ Len(s) \in Nat \ {0}
    BY StackFields
  <1>2. PICK at : Inserts(at, Len(s), Start(t, i), s) /\ r = at[Len(s)]
    BY <1>1, InsertionSteps
  <1> DEFINE Holds(k) ==
               /\ at[k].node = Path(s, k)
               /\ \A n : n \in Nodes(at[k].tree) <=> n \in Nodes(t) \/ \E d \in 1 .. k : n = Path(s, d)
               /\ at[k].tree.visited = t.visited
               /\ Linked(at[k].tree) /\ OnPaths(at[k].tree)
               /\ at[k].uniq \in BOOLEAN
               /\ at[k].uniq <=> Path(s, k) \notin Nodes(t)
               /\ Path(s, k) \in Nodes(t) => at[k].tree = t /\ at[k].idx = i
               /\ Room(t, i, at[k].tree, at[k].idx)
             T == {k \in Nat : Holds(k)}
  <1>3. Holds(0)
    <2>1. at[0] = Start(t, i) /\ Path(s, 0) = <<>>
      BY <1>1, <1>2, PathEnds DEF Inserts
    <2>2. at[0].node = <<>> /\ at[0].tree = t /\ at[0].uniq = FALSE /\ at[0].idx = i
      BY <2>1 DEF Start
    <2>3. <<>> \in Nodes(t)
      BY DEF Linked
    <2>4. \A d : d \notin 1 .. 0
      OBVIOUS
    <2>5. \A n : n \in Nodes(at[0].tree) <=> n \in Nodes(t) \/ \E d \in 1 .. 0 : n = Path(s, d)
      BY <2>2, <2>4
    <2>6. Linked(at[0].tree) /\ OnPaths(at[0].tree) /\ at[0].tree.visited = t.visited
      BY <2>2
    <2>7. Room(t, i, at[0].tree, at[0].idx)
      <3>1. Cardinality(Nodes(t)) \in Nat
        BY FS_CardinalityType DEF Linked
      <3>2. Cardinality(Nodes(t)) - Cardinality(Nodes(t)) = 0
        BY <3>1
      <3> QED
        BY <2>2, <3>2 DEF Room, NewNodeSize, SIZEOF_FPTraceAddr, SIZEOF_PTR, INIT_CHILDREN
    <2> QED
      BY <2>1, <2>2, <2>3, <2>5, <2>6, <2>7
  <1>4. ASSUME NEW k \in 0 .. Len(s) - 1, Holds(k) PROVE Holds(k + 1)
    <2> DEFINE next == Path(s, k + 1)
    <2>1. next = Append(at[k].node, s[k + 1])
      BY <1>1, <1>4, PathStep
    <2>2. IsSequence(at[k].node) /\ at[k].node \in Nodes(at[k].tree)
      <3>1. IsSequence(Path(s, k)) /\ k \in 0 .. Len(s) /\ k \in Nat
        BY <1>1, PathFields
      <3>2. CASE k = 0
        BY <1>1, <1>4, <3>1, <3>2, PathEnds DEF Linked
      <3>3. CASE k # 0
        BY <1>4, <3>1, <3>3
      <3> QED
        BY <3>2, <3>3
    <2>3. IsPath(next)
      BY <1>1 DEF IsPath
    <2>4. at[k + 1] = InsertAddr(at[k], s[k + 1])
      BY <1>1, <1>2 DEF Inserts
    <2> DEFINE q == at[k + 1]
    <2>5. /\ q.node = next
          /\ Nodes(q.tree) = Nodes(at[k].tree) \cup {next}
          /\ q.tree.visited = at[k].tree.visited
          /\ Linked(q.tree) /\ OnPaths(q.tree)
          /\ next \in Nodes(at[k].tree) =>
               q = [tree |-> at[k].tree, node |-> next, uniq |-> at[k].uniq, idx |-> at[k].idx]
          /\ next \notin Nodes(at[k].tree) => q.uniq = TRUE
          /\ Room(t, i, q.tree, q.idx)
      <3>1. Linked(at[k].tree) /\ OnPaths(at[k].tree) /\ Room(t, i, at[k].tree, at[k].idx)
        BY <1>4
      <3> HIDE DEF Holds
      <3>2. PICK p, a : p = at[k] /\ a = s[k + 1]
        OBVIOUS
      <3>3. next = Append(p.node, a) /\ q = InsertAddr(p, a)
        BY <2>1, <2>4, <3>2
      <3> HIDE DEF next, q
      <3>4. Linked(p.tree) /\ OnPaths(p.tree) /\ p.node \in Nodes(p.tree) /\ IsSequence(p.node)
            /\ IsPath(Append(p.node, a)) /\ Room(t, i, p.tree, p.idx)
        BY <2>2, <2>3, <3>1, <3>2, <3>3
      <3>5. /\ q.node = next
            /\ Nodes(q.tree) = Nodes(p.tree) \cup {next}
            /\ q.tree.visited = p.tree.visited
            /\ Linked(q.tree) /\ OnPaths(q.tree)
            /\ next \in Nodes(p.tree) => q = [tree |-> p.tree, node |-> next, uniq |-> p.uniq, idx |-> p.idx]
            /\ next \notin Nodes(p.tree) => q.uniq = TRUE
            /\ Room(t, i, q.tree, q.idx)
        <4>1. Descended(p, a, next, q)
          BY <3>3, <3>4, InsertAddrFields
        <4>2. Room(t, i, q.tree, q.idx)
          <5>1. IsFiniteSet(Nodes(t))
            BY DEF Linked
          <5> QED
            BY <3>4, <4>1, <5>1, RoomTaken
        <4> QED
          BY <4>1, <4>2 DEF Descended
      <3> QED
        BY <3>2, <3>5
    <2>6. ASSUME NEW n
          PROVE  n \in Nodes(q.tree) <=> n \in Nodes(t) \/ \E d \in 1 .. k + 1 : n = Path(s, d)
      <3>1. \A d : d \in 1 .. k + 1 <=> d \in 1 .. k \/ d = k + 1
        OBVIOUS
      <3> QED
        BY <1>4, <2>5, <3>1
    <2>7. next \in Nodes(t) => Path(s, k) \in Nodes(t)
      <3>1. IsSequence(Path(s, k)) /\ next = Append(Path(s, k), s[k + 1])
        BY <1>1, PathFields, PathStep
      <3> QED
        BY <3>1 DEF Linked
    <2>8. next \in Nodes(at[k].tree) => next \in Nodes(t)
      <3>1. \A d \in 1 .. k : Path(s, d) # next
        BY <1>1, PathsEqual
      <3> QED
        BY <1>4, <3>1
    <2>9. CASE next \in Nodes(t)
      <3>1. at[k].tree = t /\ at[k].idx = i /\ at[k].uniq = FALSE
        BY <1>4, <2>7, <2>9
      <3>2. q = [tree |-> at[k].tree, node |-> next, uniq |-> at[k].uniq, idx |-> at[k].idx]
        BY <2>5, <2>9, <3>1
      <3>3. q.tree = t /\ q.idx = i /\ q.uniq = FALSE
        BY <3>1, <3>2
      <3> QED
        BY <1>4, <2>5, <2>6, <2>9, <3>3
    <2>10. CASE next \notin Nodes(t)
      <3>1. q.uniq = TRUE
        BY <2>5, <2>8, <2>10
      <3> QED
        BY <1>4, <2>5, <2>6, <2>10, <3>1
    <2> QED
      BY <2>9, <2>10
  <1>5. \A k \in 0 .. Len(s) : k \in T
    <2>0. ASSUME NEW k \in 0 .. Len(s) - 1, k \in T PROVE k + 1 \in T
      <3>1. Holds(k + 1)
        BY <1>4, <2>0
      <3> HIDE DEF Holds
      <3> QED
        BY <3>1
    <2>1. 0 \in T /\ \A k \in 0 .. Len(s) - 1 : k \in T => k + 1 \in T
      <3> HIDE DEF Holds
      <3> QED
        BY <1>3, <2>0
    <2> HIDE DEF T
    <2> QED
      BY <1>1, <2>1, InductionUpTo
  <1>6. Holds(Len(s))
    BY <1>1, <1>5
  <1>7. Path(s, Len(s)) = s
    BY <1>1, PathEnds
  <1> QED
    BY <1>2, <1>6, <1>7 DEF Inserted

--------------------------------------------------------------------------
(* Ticking off.                                                            *)

\* The nodes are those of the backtraces of S.
Full(t, S) == \A n : n \in Nodes(t) <=> n = <<>> \/ \E s \in S : \E d \in 1 .. Len(s) : n = Path(s, d)

Exact(t, S) ==
  /\ t.visited \subseteq Nodes(t)
  /\ \A n \in Nodes(t) \ {<<>>} : n \in t.visited <=> \A s \in S : IsPrefix(n, s) => s \in t.visited

(* The nodes above a backtrace.                                            *)
LEMMA Above ==
  ASSUME NEW s \in Stacks, NEW d \in 0 .. Len(s), NEW x \in Stacks
  PROVE  /\ IsSequence(Path(s, d)) /\ Len(Path(s, d)) = d
         /\ IsPrefix(Path(s, d), x) <=> d <= Len(x) /\ \A i \in 1 .. d : s[i] = x[i]
         /\ IsPrefix(Path(s, d), x) => Path(s, d) = Path(x, d)
         /\ d > 0 => Path(s, d) # <<>>
  <1>1. IsSequence(s) /\ IsSequence(x) /\ Len(s) \in Nat /\ Len(x) \in Nat
    BY StackFields
  <1>2. IsSequence(Path(s, d)) /\ Len(Path(s, d)) = d /\ d \in Nat
    BY <1>1, PathFields
  <1>3. IsPrefix(Path(s, d), x) <=> d \in 0 .. Len(x) /\ Path(s, d) = Path(x, d)
    BY <1>1, <1>2, PrefixIsPath
  <1>4. d \in 0 .. Len(x) => (Path(s, d) = Path(x, d) <=> \A i \in 1 .. d : s[i] = x[i])
    BY <1>1, PathsEqual
  <1>5. d > 0 => Path(s, d) # <<>>
    BY <1>2
  <1> QED
    BY <1>1, <1>2, <1>3, <1>4, <1>5

TickedOff(t, s, m, S) ==
  /\ m.children = t.children
  /\ Exact(m, S)
  /\ \A x \in S : x \in m.visited <=> x \in t.visited \/ x = s

(* InjectFP reaches the node of a backtrace through nodes that were not    *)
(* ticked off, and ticks off the node, and above it each that has no other *)
(* child left.                                                             *)
LEMMA MarkedExact ==
  ASSUME NoneBeginsAnother, NEW S \in SUBSET Stacks, NEW t, Linked(t), Full(t, S), Exact(t, S),
         NEW s \in S, Injects(t, s), NEW m, m = MarkVisited(t, s)
  PROVE  TickedOff(t, s, m, S)
  <1> DEFINE marked(d) == \A e \in d .. Len(s) - 1 :
                            ChildNodes(t, Path(s, e)) \ {Path(s, e + 1)} \subseteq t.visited
  <1>1. /\ m.children = t.children
        /\ \A n : n \in m.visited <=> n \in t.visited \/ \E d \in 0 .. Len(s) : marked(d) /\ n = Path(s, d)
    BY DEF MarkVisited
  <1>2. s \in Stacks /\ IsSequence(s) /\ Len(s) \in Nat \ {0} /\ Path(s, Len(s)) = s
    BY StackFields, PathEnds
  <1>3. \A d \in 1 .. Len(s) : Path(s, d) \in Nodes(t) /\ Path(s, d) \notin t.visited
    BY DEF Injects, Obstacles
  <1>4. \A d \in 0 .. Len(s) : Path(s, d) \in Nodes(t)
    <2>1. Path(s, 0) \in Nodes(t)
      BY <1>2, PathEnds DEF Linked
    <2> QED
      BY <1>2, <1>3, <2>1
  <1>5. s \in m.visited
    <2>1. marked(Len(s)) /\ Len(s) \in 0 .. Len(s)
      BY <1>2
    <2> QED
      BY <1>1, <1>2, <2>1
  <1>6. ASSUME NEW x \in S PROVE x \in m.visited <=> x \in t.visited \/ x = s
    <2>1. ASSUME NEW d \in 0 .. Len(s), x = Path(s, d) PROVE x = s
      <3>1. IsSequence(x) /\ Path(x, Len(x)) = x /\ Len(x) = d /\ x \in Stacks
        BY <1>2, <2>1, StackFields, PathEnds, PathFields
      <3>2. IsPrefix(x, s)
        BY <1>2, <2>1, <3>1, PrefixIsPath
      <3> QED
        BY <1>2, <3>1, <3>2 DEF NoneBeginsAnother
    <2> QED
      BY <1>1, <1>5, <2>1
  <1>7. m.visited \subseteq Nodes(m)
    BY <1>1, <1>4 DEF Exact, Nodes
  (* A child of a node above s that is not itself above s. *)
  <1>8. ASSUME NEW e \in 0 .. Len(s) - 1, NEW addr, Append(Path(s, e), addr) \in Nodes(t)
        PROVE  Append(Path(s, e), addr) \in ChildNodes(t, Path(s, e))
    <2>1. Path(s, e) \in Nodes(t)
      BY <1>4
    <2>2. addr \in ToSet(t.children[Path(s, e)])
      BY <1>8, <2>1 DEF Linked
    <2> QED
      BY <2>2 DEF ChildNodes
  <1>9. ASSUME NEW n \in Nodes(t), n # <<>>, n \in m.visited, NEW x \in S, IsPrefix(n, x)
        PROVE  x \in m.visited
    <2>1. CASE n \in t.visited
      BY <1>1, <1>9, <2>1 DEF Exact
    <2>2. CASE n \notin t.visited /\ x # s
      <3>1. PICK d \in 0 .. Len(s) : marked(d) /\ n = Path(s, d)
        BY <1>1, <1>9, <2>2
      <3>2. PICK e \in Nat : e < Len(s) /\ e < Len(x) /\ (\A i \in 1 .. e : s[i] = x[i]) /\ s[e + 1] # x[e + 1]
        BY <1>2, <2>2, Parting
      <3>3. IsSequence(x) /\ Len(x) \in Nat /\ x \in Stacks
        BY StackFields
      <3>4. \A i \in 1 .. d : s[i] = x[i]
        BY <1>2, <1>9, <3>1, <3>3, Above
      <3>5. d <= e
        BY <1>2, <3>2, <3>4
      <3>6. Path(s, e) = Path(x, e)
        BY <1>2, <3>2, <3>3, PathsEqual
      <3>7. Path(x, e + 1) = Append(Path(s, e), x[e + 1])
        BY <3>2, <3>3, <3>6, PathStep
      <3>8. Path(x, e + 1) \in Nodes(t)
        BY <3>2, <3>3 DEF Full
      <3>9. Path(x, e + 1) \in ChildNodes(t, Path(s, e))
        <4>1. e \in 0 .. Len(s) - 1
          BY <1>2, <3>2
        <4> QED
          BY <1>8, <3>7, <3>8, <4>1
      <3>10. Path(x, e + 1) # Path(s, e + 1)
        BY <1>2, <3>2, <3>3, PathsEqual
      <3>11. Path(x, e + 1) \in t.visited
        BY <1>2, <3>1, <3>2, <3>5, <3>9, <3>10
      <3>12. IsPrefix(Path(x, e + 1), x) /\ Path(x, e + 1) # <<>>
        BY <3>2, <3>3, Above
      <3> QED
        BY <1>6, <3>8, <3>11, <3>12 DEF Exact
    <2>3. CASE x = s
      BY <1>5, <2>3
    <2> QED
      BY <2>1, <2>2, <2>3
  <1>10. ASSUME NEW n \in Nodes(t), n # <<>>, \A x \in S : IsPrefix(n, x) => x \in m.visited, n \notin t.visited
         PROVE  n \in m.visited
    <2>1. IsPrefix(n, s) /\ IsSequence(n)
      <3>1. PICK x \in S : IsPrefix(n, x) /\ x \notin t.visited
        BY <1>10 DEF Exact
      <3>2. x = s
        BY <1>6, <1>10, <3>1
      <3>3. PICK y \in S : \E d \in 1 .. Len(y) : n = Path(y, d)
        BY <1>10 DEF Full
      <3>4. IsSequence(n)
        BY <3>3, StackFields, PathFields
      <3> QED
        BY <3>1, <3>2, <3>4
    <2> DEFINE d == Len(n)
    <2>2. d \in 0 .. Len(s) /\ n = Path(s, d)
      BY <1>2, <2>1, PrefixIsPath
    <2> HIDE DEF d
    <2>3. ASSUME NEW e \in d .. Len(s) - 1, NEW c \in ChildNodes(t, Path(s, e)), c # Path(s, e + 1)
          PROVE  c \in t.visited
      <3>1. e \in 0 .. Len(s) - 1 /\ e \in 0 .. Len(s) /\ e \in Nat
        BY <1>2, <2>2
      <3>2. IsSequence(Path(s, e)) /\ Len(Path(s, e)) = e /\ Path(s, e) \in Nodes(t)
        BY <1>2, <1>4, <3>1, PathFields
      <3>3. PICK addr : addr \in ToSet(t.children[Path(s, e)]) /\ c = Append(Path(s, e), addr)
        BY DEF ChildNodes
      <3>4. c \in Nodes(t)
        BY <3>2, <3>3 DEF Linked
      <3>5. IsSequence(c) /\ Len(c) = e + 1 /\ c # <<>>
        BY <3>2, <3>3, AppendFields
      <3>6. ASSUME NEW y \in S, IsPrefix(c, y) PROVE y \in t.visited
        <4>1. IsSequence(y) /\ Len(y) \in Nat /\ y \in Stacks
          BY StackFields
        <4>2. e + 1 \in 0 .. Len(y) /\ c = Path(y, e + 1)
          BY <3>5, <3>6, <4>1, PrefixIsPath
        <4>3. y # s
          BY <2>3, <4>2
        <4>4. e \in 0 .. Len(y) - 1 /\ e \in 0 .. Len(y)
          BY <3>1, <4>1, <4>2
        <4>5. c = Append(Path(y, e), y[e + 1]) /\ IsSequence(Path(y, e))
          BY <4>1, <4>2, <4>4, PathStep, PathFields
        <4>6. Path(y, e) = Path(s, e)
          <5>1. Append(Path(y, e), y[e + 1]) = Append(Path(s, e), addr)
            BY <3>3, <4>5
          <5> QED
            BY <3>2, <4>5, <5>1, AppendsEqual
        <4>7. \A i \in 1 .. e : s[i] = y[i]
          BY <1>2, <3>1, <4>1, <4>4, <4>6, PathsEqual
        <4>8. IsPrefix(n, y)
          BY <1>2, <2>2, <3>1, <4>1, <4>4, <4>7, Above
        <4> QED
          BY <1>6, <1>10, <4>3, <4>8
      <3> QED
        BY <3>4, <3>5, <3>6 DEF Exact
    <2> QED
      BY <1>1, <2>2, <2>3
  <1>11. Nodes(m) = Nodes(t)
    BY <1>1 DEF Nodes
  <1>12. Exact(m, S)
    <2>1. ASSUME NEW n \in Nodes(m) \ {<<>>}
          PROVE  n \in m.visited <=> \A x \in S : IsPrefix(n, x) => x \in m.visited
      BY <1>1, <1>9, <1>10, <1>11
    <2> QED
      BY <1>7, <2>1 DEF Exact
  <1> QED
    BY <1>1, <1>6, <1>12 DEF TickedOff

--------------------------------------------------------------------------
(* VisitedExact.                                                           *)

\* What a step is to the campaign.
Step ==
  \/ \E stack \in Stacks : CountFP(stack) \/ ExhaustMemory(stack)
  \/ WriteCount
  \/ StartIteration \/ ReachFP \/ EndOfTarget \/ Serialize \/ Timeout \/ Recover \/ EndLoop
  \/ UNCHANGED vars

FPNext == ExecuteCounting \/ EndCounting \/ (CampaignNext /\ UNCHANGED fpvars)

LEMMA EveryStep == ASSUME [FPNext]_<<vars, fpvars>> PROVE Step
  <1>1. ASSUME NEW stack \in Stacks, InstrumentFPs(stack) PROVE Step
    BY <1>1 DEF InstrumentFPs, Step
  <1>2. ASSUME Passes PROVE Step
    BY <1>2 DEF Passes, Step
  <1>3. ASSUME NEW stack \in Stacks, NEW kind, InstrumentFPsWrapper(kind, stack) PROVE Step
    BY <1>1, <1>2, <1>3 DEF InstrumentFPsWrapper
  <1>4. ASSUME NEW stack \in Stacks, NEW pm, RMWFPHandler(pm, stack) PROVE Step
    BY <1>1, <1>2, <1>4 DEF RMWFPHandler
  <1>5. ASSUME NEW stack \in Stacks, NEW kind, InstrumentOthers(kind, stack) PROVE Step
    BY <1>1, <1>2, <1>5 DEF InstrumentOthers
  <1>6. ASSUME NEW stack \in Stacks, InstrumentStores(stack) PROVE Step
    BY <1>1, <1>6 DEF InstrumentStores
  <1>7. ASSUME NEW pm, IgnoredRMW(pm) PROVE Step
    BY <1>2, <1>7 DEF IgnoredRMW
  <1>8. ASSUME NonFPWriteHandler PROVE Step
    BY <1>2, <1>8 DEF NonFPWriteHandler
  <1>9. ASSUME Instrument PROVE Step
    BY <1>9 DEF Instrument, Step
  <1>10. CASE ExecuteCounting
    BY <1>3, <1>4, <1>5, <1>6, <1>7, <1>8, <1>9, <1>10 DEF ExecuteCounting
  <1>11. CASE EndCounting
    BY <1>11 DEF EndCounting, Step
  <1>12. CASE CampaignNext
    BY <1>12 DEF CampaignNext, Step
  <1>13. CASE UNCHANGED <<vars, fpvars>>
    BY <1>13 DEF Step
  <1> QED
    BY <1>10, <1>11, <1>12, <1>13 DEF FPNext

(* The inductive invariant.  VisitedExact alone is not one: that a node is *)
(* ticked off when all under it was says nothing of what is under it.  A   *)
(* tree is that of the whole execution, or the empty one with which a      *)
(* campaign begins and which a counting execution that outgrows its memory *)
(* leaves in tree.bin.                                                     *)
FilesIntact == fp = 0 \/ KillDuringSerialize = FALSE

Hits == ToSet(execution)

Grown(t) == Linked(t) /\ OnPaths(t) /\ Full(t, Hits) /\ Exact(t, Hits)

Ticked ==
  /\ execution \in Seq(Stacks)
  /\ fp \in Nat
  /\ FilesIntact => \A t \in {tree, tree_bin} : t = NewTree \/ Grown(t)
  /\ pc = "counting" => fp = 0 /\ Grown(tree) /\ tree.visited = {} /\ tree_bin = NewTree
  /\ pc = "running" => pos \in Nat \ {0}

LEMMA NewTreeFields ==
  Nodes(NewTree) = {<<>>} /\ NewTree.visited = {} /\ Linked(NewTree) /\ OnPaths(NewTree)
  <1>1. Nodes(NewTree) = {<<>>} /\ NewTree.visited = {} /\ NewTree.children[<<>>] = <<>>
    BY DEF Nodes, NewTree
  <1>2. IsSequence(<<>>) /\ IsInjective(<<>>) /\ ToSet(<<>>) = {}
    BY DEF IsSequence, IsInjective, ToSet
  <1>3. IsFiniteSet({<<>>})
    BY FS_Singleton
  <1>4. \A n, addr : IsSequence(n) => Append(n, addr) \notin Nodes(NewTree)
    BY <1>1, AppendFields
  <1>5. Linked(NewTree)
    BY <1>1, <1>2, <1>3, <1>4 DEF Linked
  <1> QED
    BY <1>1, <1>5 DEF OnPaths

LEMMA NothingTicked ==
  ASSUME NEW S \in SUBSET Stacks, NEW t, Full(t, S), t.visited = {}
  PROVE  Exact(t, S)
  <1>1. ASSUME NEW n \in Nodes(t) \ {<<>>} PROVE \E s \in S : IsPrefix(n, s)
    <2>1. PICK s \in S : \E d \in 1 .. Len(s) : n = Path(s, d)
      BY DEF Full
    <2>2. PICK d \in 1 .. Len(s) : n = Path(s, d)
      BY <2>1
    <2>3. s \in Stacks /\ d \in 0 .. Len(s)
      BY <2>2, StackFields
    <2>4. IsPrefix(n, s)
      BY <2>2, <2>3, StackFields, Above
    <2> QED
      BY <2>4
  <1> QED
    BY <1>1 DEF Exact

LEMMA NewTreeGrown == ASSUME execution = <<>> PROVE Grown(NewTree)
  <1>1. Hits = {}
    BY DEF Hits, ToSet
  <1>2. Full(NewTree, {})
    BY NewTreeFields DEF Full
  <1>3. Exact(NewTree, {})
    BY <1>2, NewTreeFields, NothingTicked
  <1> QED
    BY <1>1, <1>2, <1>3, NewTreeFields DEF Grown

LEMMA NewTreeInjectsNothing == ASSUME NEW s \in Stacks PROVE ~Injects(NewTree, s)
  <1>1. Len(s) \in Nat \ {0} /\ 1 \in 1 .. Len(s) /\ 1 \in 0 .. Len(s)
    BY StackFields
  <1>2. Path(s, 1) # <<>>
    BY <1>1, Above
  <1> QED
    BY <1>1, <1>2, NewTreeFields DEF Injects, Obstacles

LEMMA InitTicked == FPInit => Ticked
  <1>1. execution = <<>> => execution \in Seq(Stacks)
    OBVIOUS
  <1> QED
    BY <1>1, NewTreeGrown, NewTreeFields DEF FPInit, Init, Ticked, FilesIntact

LEMMA HitsAreStacks ==
  ASSUME execution \in Seq(Stacks)
  PROVE  Hits \in SUBSET Stacks /\ \A i \in 1 .. Len(execution) : execution[i] \in Hits
  BY DEF Hits, ToSet

LEMMA CountTicks ==
  ASSUME ProperBacktraces, Ticked, NEW stack \in Stacks, CountFP(stack)
  PROVE  Ticked'
  <1> DEFINE result == InsertFPTrace(tree, idx, stack)
  <1>1. /\ pc = "counting" /\ pc' = "counting"
        /\ execution' = Append(execution, stack)
        /\ tree' = result.tree /\ tree_bin' = NewTree
        /\ fp' = 0
    BY DEF CountFP, Meets, Ticked
  <1>2. Linked(tree) /\ OnPaths(tree) /\ Full(tree, Hits) /\ tree.visited = {} /\ execution \in Seq(Stacks)
    BY <1>1 DEF Ticked, Grown
  <1>3. /\ \A n : n \in Nodes(result.tree) <=> n \in Nodes(tree) \/ \E d \in 1 .. Len(stack) : n = Path(stack, d)
        /\ result.tree.visited = {} /\ Linked(result.tree) /\ OnPaths(result.tree)
    BY <1>2, InsertedTree DEF ProperBacktraces, Inserted
  <1>4. execution' \in Seq(Stacks) /\ Hits' = Hits \cup {stack} /\ Hits' \in SUBSET Stacks
    <2>1. IsSequence(execution)
      BY <1>2 DEF IsSequence
    <2>2. ToSet(Append(execution, stack)) = ToSet(execution) \cup {stack}
      BY <2>1, AppendSet
    <2> QED
      BY <1>1, <1>2, <2>2, HitsAreStacks DEF Hits
  <1> HIDE DEF result
  <1>5. Full(tree', Hits') /\ tree'.visited = {} /\ Linked(tree') /\ OnPaths(tree')
    BY <1>1, <1>2, <1>3, <1>4 DEF Full
  <1>6. Exact(tree', Hits')
    BY <1>4, <1>5, NothingTicked
  <1>7. Grown(tree)'
    BY <1>5, <1>6 DEF Grown
  <1> QED
    BY <1>1, <1>4, <1>5, <1>7 DEF Ticked

(* A step of the tool that leaves the execution alone and makes no tree of *)
(* its own.                                                                *)
LEMMA SameTrees ==
  ASSUME Ticked, execution' = execution, pc' # "counting", pc' = "running" => pos' \in Nat \ {0},
         fp' \in {fp, fp + 1}, FilesIntact' => \A t \in {tree', tree_bin'} : t = NewTree \/ Grown(t)
  PROVE  Ticked'
  <1>1. Hits' = Hits
    BY DEF Hits
  <1>2. FilesIntact' => FilesIntact
    BY DEF Ticked, FilesIntact
  <1> QED
    BY <1>1, <1>2 DEF Ticked, Grown

LEMMA MarkedGrown ==
  ASSUME ProperBacktraces, execution \in Seq(Stacks), NEW t, Grown(t), NEW s \in Hits, Injects(t, s),
         NEW m, m = MarkVisited(t, s)
  PROVE  Grown(m) /\ \A x \in Hits : x \in m.visited <=> x \in t.visited \/ x = s
  <1>1. Hits \in SUBSET Stacks /\ Linked(t) /\ OnPaths(t) /\ Full(t, Hits) /\ Exact(t, Hits)
    BY HitsAreStacks DEF Grown
  <1>2. PICK S : S = Hits
    OBVIOUS
  <1>a. S \in SUBSET Stacks /\ Linked(t) /\ Full(t, S) /\ Exact(t, S) /\ s \in S /\ NoneBeginsAnother
    BY <1>1, <1>2 DEF ProperBacktraces
  <1>b. TickedOff(t, s, m, S)
    BY <1>a, MarkedExact
  <1>3. /\ m.children = t.children /\ Exact(m, S)
        /\ \A x \in S : x \in m.visited <=> x \in t.visited \/ x = s
    BY <1>b DEF TickedOff
  <1>4. Linked(m) /\ OnPaths(m) /\ Full(m, S)
    BY <1>1, <1>2, <1>3 DEF Linked, OnPaths, Full, Nodes
  <1> QED
    BY <1>2, <1>3, <1>4 DEF Grown

LEMMA ReachTicks ==
  ASSUME ProperBacktraces, Ticked, ReachFP
  PROVE  Ticked'
  <1> DEFINE s == execution[pos]
  <1>1. /\ pc = "running" /\ pos \in Nat \ {0} /\ pos <= Len(execution)
        /\ execution' = execution /\ tree_bin' = tree_bin /\ execution \in Seq(Stacks)
        /\ fp' = fp
        /\ FilesIntact => tree_bin = NewTree \/ Grown(tree_bin)
        /\ FilesIntact => tree = NewTree \/ Grown(tree)
    BY DEF ReachFP, Ticked
  <1>2. s \in Stacks /\ s \in Hits /\ Hits \in SUBSET Stacks
    BY <1>1, HitsAreStacks
  <1>3. pc' # "counting" /\ (pc' = "running" => pos' \in Nat \ {0})
    BY <1>1 DEF ReachFP, PassBy, PassByTarget, Crash
  <1>4. tree' = tree \/ (Injects(tree, s) /\ tree' = MarkVisited(tree, s))
    BY DEF ReachFP, PassBy, PassByTarget, Crash
  <1>5. ASSUME FilesIntact, Injects(tree, s), tree' = MarkVisited(tree, s) PROVE Grown(tree')
    <2>1. Grown(tree)
      BY <1>1, <1>2, <1>5, NewTreeInjectsNothing
    <2> QED
      BY <1>1, <1>2, <1>5, <2>1, MarkedGrown
  <1> QED
    BY <1>1, <1>3, <1>4, <1>5, SameTrees DEF FilesIntact

LEMMA NextTicked ==
  ASSUME ProperBacktraces, Ticked, [FPNext]_<<vars, fpvars>>
  PROVE  Ticked'
  <1>0. /\ fp \in Nat
        /\ FilesIntact => (tree = NewTree \/ Grown(tree)) /\ (tree_bin = NewTree \/ Grown(tree_bin))
        /\ pc = "counting" => fp = 0 /\ Grown(tree) /\ tree_bin = NewTree
    BY DEF Ticked
  <1>a. fp' \in {fp, fp + 1} => fp' \in Nat /\ (FilesIntact' => FilesIntact)
    BY <1>0 DEF FilesIntact
  <1>b. ASSUME execution' = execution, pc' # "counting", pc' = "running" => pos' \in Nat \ {0},
               fp' \in {fp, fp + 1},
               FilesIntact => tree' \in {tree, tree_bin} /\ tree_bin' \in {tree, tree_bin}
        PROVE  Ticked'
    BY <1>0, <1>a, <1>b, SameTrees
  <1>1. ASSUME NEW stack \in Stacks, ExhaustMemory(stack) PROVE Ticked'
    BY <1>1, <1>b DEF ExhaustMemory
  <1>2. CASE WriteCount
    BY <1>2, <1>b DEF WriteCount
  <1>3. CASE StartIteration
    BY <1>3, <1>b DEF StartIteration
  <1>4. CASE EndOfTarget
    BY <1>4, <1>b DEF EndOfTarget
  <1>5. CASE Serialize
    BY <1>5, <1>b DEF Serialize
  <1>6. CASE Timeout
    <2>1. fp' = fp + 1 /\ execution' = execution /\ pc' = "looping" /\ tree' = tree
      BY <1>6 DEF Timeout
    <2>2. FilesIntact' => tree_bin' \in {tree, tree_bin}
      BY <1>0, <1>6, <2>1 DEF Timeout, FilesIntact
    <2> QED
      BY <1>0, <1>a, <2>1, <2>2, SameTrees
  <1>7. CASE Recover
    BY <1>7, <1>b DEF Recover
  <1>8. CASE EndLoop
    BY <1>8, <1>b DEF EndLoop
  <1>9. CASE UNCHANGED vars
    BY <1>9 DEF vars, Ticked, Grown, Hits, FilesIntact
  <1> QED
    BY <1>1, <1>2, <1>3, <1>4, <1>5, <1>6, <1>7, <1>8, <1>9, EveryStep, CountTicks, ReachTicks DEF Step

(* A node of the failure point tree is ticked off exactly when every       *)
(* failure point under it was (fp_tree.cpp:126-141), through any number of *)
(* iterations and timeouts that spare the writing of tree.bin.             *)
THEOREM VisitedAlwaysExact ==
  ASSUME ProperBacktraces, KillDuringSerialize = FALSE
  PROVE  FPSpec => []VisitedExact
  <1>1. FPInit => Ticked
    BY InitTicked
  <1>2. Ticked /\ [FPNext]_<<vars, fpvars>> => Ticked'
    BY NextTicked
  <1>3. Ticked => VisitedExact
    <2>0. FilesIntact
      BY DEF FilesIntact
    <2> SUFFICES ASSUME Ticked, NEW t \in {tree, tree_bin}, NEW n \in Nodes(t) \ {<<>>}
                 PROVE  n \in t.visited <=>
                          \A i \in DOMAIN execution : IsPrefix(n, execution[i]) => execution[i] \in t.visited
      BY DEF VisitedExact
    <2>1. Exact(t, Hits)
      BY <2>0, NewTreeFields DEF Ticked, Grown
    <2> QED
      BY <2>1 DEF Exact, Hits, ToSet
  <1> QED
    BY <1>1, <1>2, <1>3, PTL DEF FPSpec, FPNext

--------------------------------------------------------------------------
(* The failure points of an execution, each once.                          *)

Repeated(hits, n, skip) == hits[n] \in skip \/ \E j \in 1 .. n - 1 : hits[j] = hits[n]

Following(before, hits, n, skip) == IF Repeated(hits, n, skip) THEN before ELSE Append(before, hits[n])

LEMMA FirstsUnfolded ==
  ASSUME NEW hits, NEW skip, NEW n \in Nat
  PROVE  /\ Firsts(hits, 0, skip) = <<>>
         /\ Firsts(hits, n + 1, skip) = Following(Firsts(hits, n, skip), hits, n + 1, skip)
  <1> DEFINE Def(f, m) == f = [k \in 0 .. m |-> IF k = 0 THEN <<>> ELSE Following(f[k - 1], hits, k, skip)]
             T == {m \in Nat : \E f : Def(f, m)}
  <1>1. 0 \in T
    <2> DEFINE g == [k \in 0 .. 0 |-> <<>>]
    <2>1. Def(g, 0)
      OBVIOUS
    <2> QED
      BY <2>1
  <1>2. ASSUME NEW m \in Nat, m \in T PROVE m + 1 \in T
    <2>1. PICK g : Def(g, m)
      BY <1>2
    <2> DEFINE h == [k \in 0 .. m + 1 |-> IF k = m + 1 THEN Following(g[m], hits, m + 1, skip) ELSE g[k]]
    <2>2. ASSUME NEW k \in 0 .. m + 1
          PROVE  h[k] = IF k = 0 THEN <<>> ELSE Following(h[k - 1], hits, k, skip)
      BY <2>1
    <2>3. Def(h, m + 1)
      <3>1. DOMAIN h = 0 .. m + 1 /\ h = [k \in 0 .. m + 1 |-> h[k]]
        OBVIOUS
      <3> HIDE DEF h
      <3> QED
        BY <2>2, <3>1
    <2>4. \E f : Def(f, m + 1)
      BY <2>3
    <2> QED
      BY <2>4
  <1>3. ASSUME NEW m \in Nat PROVE m \in T
    <2> HIDE DEF T
    <2>1. 0 \in T /\ \A k \in 0 .. m - 1 : k \in T => k + 1 \in T
      BY <1>1, <1>2
    <2> QED
      BY <2>1, InductionUpTo
  <1>4. ASSUME NEW m \in Nat
        PROVE  \E f : Def(f, m) /\ Firsts(hits, m, skip) = f[m]
    <2>1. Def(CHOOSE f : Def(f, m), m)
      BY <1>3
    <2>2. Firsts(hits, m, skip) = (CHOOSE f : Def(f, m))[m]
      BY DEF Firsts, Following, Repeated
    <2> QED
      BY <2>1, <2>2
  <1>5. PICK f : Def(f, n) /\ Firsts(hits, n, skip) = f[n]
    BY <1>4
  <1>6. PICK g : Def(g, n + 1) /\ Firsts(hits, n + 1, skip) = g[n + 1]
    <2> HIDE DEF Def
    <2>1. n + 1 \in Nat
      OBVIOUS
    <2> QED
      BY <1>4, <2>1
  <1>7. \A k \in 0 .. n : f[k] = g[k]
    <2> DEFINE U == {k \in Nat : k <= n => f[k] = g[k]}
    <2>1. 0 \in U
      BY <1>5, <1>6
    <2>2. ASSUME NEW k \in 0 .. n - 1, k \in U PROVE k + 1 \in U
      <3>1. f[k] = g[k] /\ k + 1 \in 0 .. n /\ k + 1 # 0 /\ (k + 1) - 1 = k
        BY <2>2
      <3>2. f[k + 1] = Following(f[k], hits, k + 1, skip) /\ g[k + 1] = Following(g[k], hits, k + 1, skip)
        BY <1>5, <1>6, <3>1
      <3> QED
        BY <3>1, <3>2
    <2> HIDE DEF U
    <2>3. \A k \in 0 .. n : k \in U
      BY <2>1, <2>2, InductionUpTo
    <2> QED
      BY <2>3 DEF U
  <1>8. g[n + 1] = Following(g[n], hits, n + 1, skip)
    BY <1>6
  <1>9. Firsts(hits, 0, skip) = <<>>
    <2>1. PICK e : Def(e, 0) /\ Firsts(hits, 0, skip) = e[0]
      BY <1>4
    <2> QED
      BY <2>1
  <1>10. f[n] = g[n]
    BY <1>7
  <1> HIDE DEF Def
  <1> QED
    BY <1>5, <1>6, <1>8, <1>9, <1>10

LEMMA FirstsFields ==
  ASSUME NEW hits \in Seq(Stacks), NEW skip
  PROVE  \A n \in 0 .. Len(hits) :
           /\ Firsts(hits, n, skip) \in Seq(Stacks)
           /\ \A x : x \in ToSet(Firsts(hits, n, skip)) <=> x \notin skip /\ \E i \in 1 .. n : hits[i] = x
  <1> DEFINE F(n) == Firsts(hits, n, skip)
             Holds(n) == /\ F(n) \in Seq(Stacks)
                         /\ \A x : x \in ToSet(F(n)) <=> x \notin skip /\ \E i \in 1 .. n : hits[i] = x
             T == {n \in Nat : Holds(n)}
  <1>1. 0 \in T
    <2>1. F(0) = <<>>
      BY FirstsUnfolded
    <2>2. ToSet(<<>>) = {} /\ <<>> \in Seq(Stacks)
      BY DEF ToSet
    <2> HIDE DEF F
    <2>3. Holds(0)
      <3>1. F(0) \in Seq(Stacks) /\ ToSet(F(0)) = {}
        BY <2>1, <2>2
      <3> QED
        BY <3>1
    <2> QED
      BY <2>3
  <1>2. ASSUME NEW n \in 0 .. Len(hits) - 1, n \in T PROVE n + 1 \in T
    <2>1. F(n + 1) = Following(F(n), hits, n + 1, skip) /\ n \in Nat
      BY FirstsUnfolded
    <2>2. hits[n + 1] \in Stacks /\ Holds(n)
      BY <1>2
    <2> HIDE DEF F
    <2>3. IsSequence(F(n))
      BY <2>2 DEF IsSequence
    <2>4. \A i : i \in 1 .. n + 1 <=> i \in 1 .. n \/ i = n + 1
      BY <2>1
    <2>5. CASE Repeated(hits, n + 1, skip)
      <3>1. F(n + 1) = F(n)
        BY <2>1, <2>5 DEF Following
      <3>2. hits[n + 1] \in skip \/ \E j \in 1 .. n : hits[j] = hits[n + 1]
        BY <2>1, <2>5 DEF Repeated
      <3> QED
        BY <2>1, <2>2, <2>4, <3>1, <3>2
    <2>6. CASE ~Repeated(hits, n + 1, skip)
      <3>1. F(n + 1) = Append(F(n), hits[n + 1])
        BY <2>1, <2>6 DEF Following
      <3>2. hits[n + 1] \notin skip
        BY <2>6 DEF Repeated
      <3>3. ToSet(F(n + 1)) = ToSet(F(n)) \cup {hits[n + 1]}
        BY <2>3, <3>1, AppendSet
      <3>4. F(n + 1) \in Seq(Stacks)
        BY <2>2, <3>1
      <3> QED
        BY <2>1, <2>2, <2>4, <3>2, <3>3, <3>4
    <2> QED
      BY <2>5, <2>6
  <1> HIDE DEF T
  <1>3. \A n \in 0 .. Len(hits) : n \in T
    <2>1. Len(hits) \in Nat
      OBVIOUS
    <2> QED
      BY <1>1, <1>2, <2>1, InductionUpTo
  <1> QED
    BY <1>3 DEF T

(* They depend on the hits so far, and on which of them are left out.      *)
LEMMA FirstsAgree ==
  ASSUME NEW hits, NEW others, NEW skip, NEW left, NEW n \in Nat,
         \A i \in 1 .. n : hits[i] = others[i] /\ (hits[i] \in skip <=> others[i] \in left)
  PROVE  Firsts(hits, n, skip) = Firsts(others, n, left)
  <1> DEFINE T == {m \in Nat : Firsts(hits, m, skip) = Firsts(others, m, left)}
  <1>1. 0 \in T
    BY FirstsUnfolded
  <1>2. ASSUME NEW m \in 0 .. n - 1, m \in T PROVE m + 1 \in T
    <2>1. Repeated(hits, m + 1, skip) <=> Repeated(others, m + 1, left)
      BY DEF Repeated
    <2>2. hits[m + 1] = others[m + 1] /\ m \in Nat /\ m + 1 \in Nat
      OBVIOUS
    <2>3. Firsts(hits, m + 1, skip) = Following(Firsts(hits, m, skip), hits, m + 1, skip)
      BY <2>2, FirstsUnfolded
    <2>4. Firsts(others, m + 1, left) = Following(Firsts(others, m, left), others, m + 1, left)
      BY <2>2, FirstsUnfolded
    <2> QED
      BY <1>2, <2>1, <2>2, <2>3, <2>4 DEF Following
  <1> HIDE DEF T
  <1>3. n \in T
    BY <1>1, <1>2, InductionUpTo
  <1> QED
    BY <1>3 DEF T

(* What is first stays first.                                              *)
LEMMA FirstsGrow ==
  ASSUME NEW hits \in Seq(Stacks), NEW skip, NEW m \in 0 .. Len(hits)
  PROVE  \A n \in m .. Len(hits) :
           /\ Len(Firsts(hits, m, skip)) <= Len(Firsts(hits, n, skip))
           /\ \A k \in 1 .. Len(Firsts(hits, m, skip)) : Firsts(hits, n, skip)[k] = Firsts(hits, m, skip)[k]
  <1> DEFINE F(n) == Firsts(hits, n, skip)
             Holds(n) == Len(F(m)) <= Len(F(n)) /\ \A k \in 1 .. Len(F(m)) : F(n)[k] = F(m)[k]
             T == {d \in Nat : m + d <= Len(hits) => Holds(m + d)}
  <1>0. Len(hits) \in Nat /\ m \in Nat /\ \A n \in 0 .. Len(hits) : F(n) \in Seq(Stacks)
    BY FirstsFields
  <1>1. \A n \in Nat : F(n + 1) = Following(F(n), hits, n + 1, skip)
    BY FirstsUnfolded
  <1> HIDE DEF F
  <1>2. 0 \in T
    <2>1. m + 0 = m /\ Len(F(m)) \in Nat
      BY <1>0
    <2> QED
      BY <2>1
  <1>3. ASSUME NEW d \in 0 .. Len(hits) - 1, d \in T PROVE d + 1 \in T
    <2> SUFFICES ASSUME m + (d + 1) <= Len(hits) PROVE Holds(m + (d + 1))
      OBVIOUS
    <2> DEFINE n == m + d
    <2>1. n \in Nat /\ n + 1 = m + (d + 1) /\ n \in 0 .. Len(hits) /\ n + 1 \in 0 .. Len(hits)
          /\ n + 1 \in 1 .. Len(hits) /\ Holds(n)
      BY <1>0, <1>3
    <2> HIDE DEF n
    <2>2. F(n) \in Seq(Stacks) /\ hits[n + 1] \in Stacks /\ F(m) \in Seq(Stacks) /\ Len(F(m)) \in Nat
      BY <1>0, <2>1
    <2>3. F(n + 1) = F(n) \/ F(n + 1) = Append(F(n), hits[n + 1])
      BY <1>1, <2>1 DEF Following
    <2>4. /\ Len(F(n)) <= Len(F(n + 1)) /\ Len(F(n)) \in Nat /\ Len(F(n + 1)) \in Nat
          /\ \A k \in 1 .. Len(F(n)) : F(n + 1)[k] = F(n)[k]
      BY <2>2, <2>3
    <2>5. Holds(n + 1)
      BY <2>1, <2>2, <2>4
    <2> QED
      BY <2>1, <2>5
  <1> HIDE DEF T
  <1>4. \A d \in 0 .. Len(hits) : d \in T
    BY <1>0, <1>2, <1>3, InductionUpTo
  <1>5. ASSUME NEW n \in m .. Len(hits) PROVE Holds(n)
    <2>1. n - m \in 0 .. Len(hits) /\ m + (n - m) = n /\ n <= Len(hits)
      BY <1>0
    <2>2. m + (n - m) <= Len(hits) => Holds(m + (n - m))
      <3>1. n - m \in T
        BY <1>4, <2>1
      <3> HIDE DEF Holds
      <3> QED
        BY <3>1 DEF T
    <2> QED
      BY <2>1, <2>2
  <1> QED
    BY <1>5 DEF F

LEMMA AppendTail ==
  ASSUME NEW s \in Seq(Stacks), NEW e \in Stacks, s # <<>>
  PROVE  Append(s, e) # <<>> /\ Head(Append(s, e)) = Head(s) /\ Tail(Append(s, e)) = Append(Tail(s), e)
  OBVIOUS

(* The first hit that is not left out comes before the others.             *)
LEMMA FirstsHead ==
  ASSUME NEW hits \in Seq(Stacks), NEW skip, NEW p \in 1 .. Len(hits),
         \A i \in 1 .. p - 1 : hits[i] \in skip, hits[p] \notin skip
  PROVE  LET all == Firsts(hits, Len(hits), skip)
         IN  /\ all # <<>> /\ Head(all) = hits[p]
             /\ Tail(all) = Firsts(hits, Len(hits), skip \cup {hits[p]})
  <1> DEFINE more == skip \cup {hits[p]}
             F(n) == Firsts(hits, n, skip)
             G(n) == Firsts(hits, n, more)
             Holds(n) == F(n) # <<>> /\ Head(F(n)) = hits[p] /\ Tail(F(n)) = G(n)
             T == {n \in Nat : IF n < p THEN F(n) = <<>> /\ G(n) = <<>> ELSE Holds(n)}
  <1>0. Len(hits) \in Nat /\ p \in Nat /\ \A n \in 0 .. Len(hits) : F(n) \in Seq(Stacks) /\ G(n) \in Seq(Stacks)
    BY FirstsFields
  <1>1. /\ F(0) = <<>> /\ G(0) = <<>>
        /\ \A n \in Nat : F(n + 1) = Following(F(n), hits, n + 1, skip)
        /\ \A n \in Nat : G(n + 1) = Following(G(n), hits, n + 1, more)
    BY FirstsUnfolded
  <1> HIDE DEF F, G
  <1>2. 0 \in T
    BY <1>0, <1>1
  <1>3. ASSUME NEW n \in 0 .. Len(hits) - 1, n \in T PROVE n + 1 \in T
    <2> HIDE DEF Holds, more
    <2>a. n \in Nat /\ n + 1 \in Nat /\ n \in 0 .. Len(hits) /\ n + 1 \in 1 .. Len(hits)
      BY <1>0
    <2>b. hits[n + 1] \in Stacks /\ F(n) \in Seq(Stacks) /\ G(n) \in Seq(Stacks)
      BY <1>0, <2>a
    <2>c. F(n + 1) = Following(F(n), hits, n + 1, skip) /\ G(n + 1) = Following(G(n), hits, n + 1, more)
      BY <1>1, <2>a
    <2>0. /\ n \in Nat /\ n + 1 \in Nat /\ n \in 0 .. Len(hits) /\ hits[n + 1] \in Stacks
          /\ F(n) \in Seq(Stacks) /\ G(n) \in Seq(Stacks)
          /\ F(n + 1) = Following(F(n), hits, n + 1, skip)
          /\ G(n + 1) = Following(G(n), hits, n + 1, more)
      BY <2>a, <2>b, <2>c
    <2>1. CASE n + 1 < p
      <3>1. Repeated(hits, n + 1, skip) /\ Repeated(hits, n + 1, more)
        BY <1>0, <2>0, <2>1 DEF Repeated, more
      <3>2. F(n) = <<>> /\ G(n) = <<>>
        BY <1>0, <1>3, <2>0, <2>1
      <3>3. F(n + 1) = <<>> /\ G(n + 1) = <<>>
        BY <2>0, <3>1, <3>2 DEF Following
      <3> QED
        BY <2>0, <2>1, <3>3
    <2>2. CASE n + 1 = p
      <3>1. ~Repeated(hits, n + 1, skip) /\ Repeated(hits, n + 1, more)
        BY <2>0, <2>2 DEF Repeated, more
      <3>2. F(n) = <<>> /\ G(n) = <<>>
        BY <1>0, <1>3, <2>0, <2>2
      <3>3. F(n + 1) = <<hits[p]>> /\ G(n + 1) = <<>>
        BY <2>0, <2>2, <3>1, <3>2 DEF Following
      <3>4. Holds(n + 1)
        <4>1. <<hits[p]>> # <<>> /\ Head(<<hits[p]>>) = hits[p] /\ Tail(<<hits[p]>>) = <<>>
          OBVIOUS
        <4> QED
          BY <3>3, <4>1 DEF Holds
      <3> QED
        BY <2>0, <2>2, <3>4
    <2>3. CASE n + 1 > p
      <3>1. Holds(n) /\ ~(n < p)
        BY <1>0, <1>3, <2>0, <2>3
      <3>2. Repeated(hits, n + 1, skip) <=> Repeated(hits, n + 1, more)
        <4>1. p \in 1 .. (n + 1) - 1
          BY <1>0, <2>0, <2>3
        <4> QED
          BY <4>1 DEF Repeated, more
      <3>3. CASE Repeated(hits, n + 1, skip)
        <4>1. F(n + 1) = F(n) /\ G(n + 1) = G(n)
          BY <2>0, <3>2, <3>3 DEF Following
        <4>2. Holds(n + 1)
          BY <3>1, <4>1 DEF Holds
        <4> QED
          BY <1>0, <2>0, <2>3, <4>2
      <3>4. CASE ~Repeated(hits, n + 1, skip)
        <4>1. F(n + 1) = Append(F(n), hits[n + 1]) /\ G(n + 1) = Append(G(n), hits[n + 1])
          BY <2>0, <3>2, <3>4 DEF Following
        <4>2. Holds(n + 1)
          <5>1. F(n) # <<>>
            BY <3>1 DEF Holds
          <5>2. F(n + 1) # <<>> /\ Head(F(n + 1)) = Head(F(n)) /\ Tail(F(n + 1)) = Append(Tail(F(n)), hits[n + 1])
            BY <2>0, <4>1, <5>1, AppendTail
          <5> QED
            BY <3>1, <4>1, <5>2 DEF Holds
        <4> QED
          BY <1>0, <2>0, <2>3, <4>2
      <3> QED
        BY <3>3, <3>4
    <2> QED
      BY <1>0, <2>0, <2>1, <2>2, <2>3
  <1> HIDE DEF T
  <1>4. Len(hits) \in T
    <2>1. \A n \in 0 .. Len(hits) : n \in T
      BY <1>0, <1>2, <1>3, InductionUpTo
    <2> QED
      BY <1>0, <2>1
  <1>5. Holds(Len(hits))
    <2> HIDE DEF Holds
    <2> QED
      BY <1>0, <1>4 DEF T
  <1> QED
    BY <1>5 DEF F, G

--------------------------------------------------------------------------
(* TargetIsIteration.                                                      *)

\* What was ticked off of the hits are the first n of them.
Seen(t, n) == \A s \in Hits : s \in t.visited <=> \E i \in 1 .. n : execution[i] = s

AtTarget(s) == \E k \in DOMAIN FirstHits : k = target_fp + 1 /\ s = FirstHits[k]

(* The inductive invariant.  current_fp numbers the failure points met so  *)
(* far as they were first met, because the only iteration of a campaign    *)
(* with -F reads back a tree in which nothing is ticked off.               *)
Aimed ==
  /\ target_fp \in Int
  /\ tested # <<>> => fp > 0 /\ Len(tested) = 1 /\ AtTarget(tested[1])
  /\ pc \in {"counting", "looping", "running", "serializing", "recovering", "finished"}
  /\ pc # "looping" /\ pc # "finished" => fp = 0
  /\ pc \in {"counting", "looping"} /\ fp = 0 => tree_bin.visited = {}
  /\ pc = "running" =>
       /\ fp_backtrace = <<>>
       /\ tree = NewTree \/ (current_fp = Len(Firsts(execution, pos - 1, {})) /\ Seen(tree, pos - 1))
  /\ pc \in {"serializing", "recovering"} => fp_backtrace = <<>> \/ AtTarget(fp_backtrace)

LEMMA InjectsUnvisited ==
  ASSUME NEW S \in SUBSET Stacks, NEW t, Full(t, S), Exact(t, S), NEW s \in S
  PROVE  Injects(t, s) <=> s \notin t.visited
  <1>1. s \in Stacks /\ IsSequence(s) /\ Len(s) \in 1 .. Len(s) /\ Path(s, Len(s)) = s
    BY StackFields, PathEnds
  <1>2. ASSUME NEW d \in 1 .. Len(s), Path(s, d) \notin Nodes(t) \/ Path(s, d) \in t.visited
        PROVE  s \in t.visited
    <2>1. Path(s, d) \in Nodes(t)
      BY DEF Full
    <2>2. d \in 0 .. Len(s) /\ d > 0
      BY <1>1
    <2>3. IsPrefix(Path(s, d), s) /\ Path(s, d) # <<>>
      BY <1>1, <2>2, Above
    <2> QED
      BY <1>2, <2>1, <2>3 DEF Exact
  <1> QED
    BY <1>1, <1>2 DEF Injects, Obstacles

LEMMA InitAimed == FPInit => Aimed
  BY TargetsAssumption, NewTreeFields DEF FPInit, Init, Aimed

LEMMA SameTarget ==
  ASSUME execution' = execution, target_fp' = target_fp, NEW s
  PROVE  (AtTarget(s) => AtTarget(s)') /\ Hits' = Hits
  BY DEF AtTarget, FirstHits, Hits

(* What the iteration makes of the next hit.                               *)
LEMMA ReachAimed ==
  ASSUME ProperBacktraces, Ticked, target_fp >= 0, Aimed, ReachFP
  PROVE  Aimed'
  <1> DEFINE s == execution[pos]
             F(n) == Firsts(execution, n, {})
  <1>1. /\ pc = "running" /\ pos \in Nat \ {0} /\ pos <= Len(execution) /\ fp = 0
        /\ execution' = execution /\ tree_bin' = tree_bin /\ fp' = fp /\ tested' = tested /\ target_fp' = target_fp
        /\ execution \in Seq(Stacks) /\ Len(execution) \in Nat /\ target_fp \in Int
        /\ tree = NewTree \/ Grown(tree)
        /\ tested = <<>> /\ fp_backtrace = <<>>
    BY DEF ReachFP, Ticked, Aimed, FilesIntact
  <1>2. s \in Stacks /\ s \in Hits /\ Hits \in SUBSET Stacks /\ Hits' = Hits
    BY <1>1, HitsAreStacks DEF Hits
  <1>3. pos - 1 \in Nat /\ pos - 1 \in 0 .. Len(execution) /\ pos \in 0 .. Len(execution) /\ pos = (pos - 1) + 1
    BY <1>1
  <1>4. F(pos) = Following(F(pos - 1), execution, pos, {})
    BY <1>3, FirstsUnfolded
  <1>5. F(pos - 1) \in Seq(Stacks)
    BY <1>1, <1>3, FirstsFields
  <1>6. ASSUME tree = NewTree PROVE Aimed'
    <2>1. PassBy
      BY <1>2, <1>6, NewTreeInjectsNothing DEF ReachFP, PassByTarget, Crash
    <2> QED
      BY <1>1, <1>6, <2>1 DEF PassBy, Aimed
  <1>7. ASSUME tree # NewTree
        PROVE  /\ Grown(tree) /\ current_fp = Len(F(pos - 1)) /\ Seen(tree, pos - 1)
               /\ Injects(tree, s) <=> ~Repeated(execution, pos, {})
    <2>1. Grown(tree) /\ current_fp = Len(F(pos - 1)) /\ Seen(tree, pos - 1)
      BY <1>1, <1>7 DEF Aimed
    <2>2. Injects(tree, s) <=> s \notin tree.visited
      BY <1>2, <2>1, InjectsUnvisited DEF Grown
    <2> QED
      BY <1>2, <2>1, <2>2 DEF Seen, Repeated
  <1>8. ASSUME tree # NewTree, PassBy PROVE Aimed'
    <2>1. F(pos) = F(pos - 1)
      BY <1>4, <1>7, <1>8 DEF PassBy, Following
    <2>2. Seen(tree, pos)
      <3>1. \E j \in 1 .. pos - 1 : execution[j] = s
        BY <1>7, <1>8 DEF PassBy, Repeated
      <3>2. \A i : i \in 1 .. pos <=> i \in 1 .. pos - 1 \/ i = pos
        BY <1>1
      <3> QED
        BY <1>7, <1>8, <3>1, <3>2 DEF Seen
    <2>3. pos' - 1 = pos /\ tree' = tree /\ current_fp' = current_fp /\ pc' = pc /\ fp_backtrace' = <<>>
      BY <1>1, <1>8 DEF PassBy
    <2>4. Seen(tree, pos - 1)'
      BY <1>1, <1>2, <2>2, <2>3 DEF Seen
    <2>5. current_fp' = Len(Firsts(execution, pos - 1, {}))'
      BY <1>1, <1>7, <1>8, <2>1, <2>3
    <2> HIDE DEF F
    <2> QED
      BY <1>1, <2>3, <2>4, <2>5 DEF Aimed
  <1>9. ASSUME tree # NewTree, Injects(tree, s), tree' = MarkVisited(tree, s)
        PROVE  F(pos) = Append(F(pos - 1), s) /\ Seen(tree', pos)
    <2>1. F(pos) = Append(F(pos - 1), s)
      BY <1>4, <1>7, <1>9 DEF Following
    <2>2. \A x \in Hits : x \in tree'.visited <=> x \in tree.visited \/ x = s
      BY <1>1, <1>2, <1>7, <1>9, MarkedGrown
    <2>3. \A i : i \in 1 .. pos <=> i \in 1 .. pos - 1 \/ i = pos
      BY <1>1
    <2> QED
      BY <1>7, <1>9, <2>1, <2>2, <2>3 DEF Seen
  <1>10. ASSUME tree # NewTree, PassByTarget PROVE Aimed'
    <2>1. F(pos) = Append(F(pos - 1), s) /\ Seen(tree', pos)
      BY <1>9, <1>10 DEF PassByTarget
    <2>2. pos' - 1 = pos /\ current_fp' = current_fp + 1 /\ pc' = pc /\ fp_backtrace' = <<>>
      BY <1>1, <1>10 DEF PassByTarget
    <2>3. Seen(tree, pos - 1)'
      BY <1>1, <1>2, <2>1, <2>2 DEF Seen
    <2>4. Len(F(pos)) = Len(F(pos - 1)) + 1
      BY <1>2, <1>5, <2>1
    <2>5. current_fp' = Len(Firsts(execution, pos - 1, {}))'
      BY <1>1, <1>7, <1>10, <2>2, <2>4
    <2> HIDE DEF F
    <2> QED
      BY <1>1, <2>2, <2>3, <2>5 DEF Aimed
  <1>11. ASSUME tree # NewTree, Crash PROVE Aimed'
    <2>1. F(pos) = Append(F(pos - 1), s) /\ current_fp = Len(F(pos - 1)) /\ current_fp = target_fp
      BY <1>1, <1>7, <1>9, <1>11 DEF Crash, NotTarget
    <2>2. Len(F(pos)) = target_fp + 1 /\ F(pos)[target_fp + 1] = s /\ target_fp + 1 \in 1 .. Len(F(pos))
      BY <1>2, <1>5, <2>1
    <2>3. Len(execution) \in pos .. Len(execution)
      BY <1>1
    <2>4. Len(F(pos)) <= Len(FirstHits) /\ \A k \in 1 .. Len(F(pos)) : FirstHits[k] = F(pos)[k]
      BY <1>1, <1>3, <2>3, FirstsGrow DEF FirstHits
    <2>5. FirstHits \in Seq(Stacks)
      <3>1. Len(execution) \in 0 .. Len(execution)
        BY <1>1
      <3> QED
        BY <1>1, <3>1, FirstsFields DEF FirstHits
    <2>6. AtTarget(s)
      <3>1. target_fp + 1 \in DOMAIN FirstHits
        BY <1>1, <2>2, <2>4, <2>5
      <3> QED
        BY <2>2, <2>4, <3>1 DEF AtTarget
    <2>7. PICK e : e = s
      OBVIOUS
    <2>8. fp_backtrace' = e /\ pc' = "serializing"
      BY <1>11, <2>7 DEF Crash
    <2>9. AtTarget(e)'
      BY <1>1, <2>6, <2>7, SameTarget
    <2>10. AtTarget(fp_backtrace)'
      BY <2>8, <2>9 DEF AtTarget
    <2> QED
      BY <1>1, <2>8, <2>10 DEF Aimed
  <1> QED
    BY <1>6, <1>8, <1>10, <1>11 DEF ReachFP

LEMMA NextAimed ==
  ASSUME ProperBacktraces, Ticked, target_fp >= 0 => Aimed, [FPNext]_<<vars, fpvars>>
  PROVE  target_fp' >= 0 => Aimed'
  <1>1. target_fp' = target_fp
    BY EveryStep DEF Step, CountFP, ExhaustMemory, WriteCount, StartIteration, ReachFP, EndOfTarget,
                     Serialize, Timeout, Recover, EndLoop, vars
  <1> SUFFICES ASSUME target_fp >= 0, Aimed PROVE Aimed'
    BY <1>1
  <1>2. /\ target_fp \in Int /\ fp \in Nat
        /\ pc = "counting" => tree.visited = {} /\ tree_bin = NewTree /\ fp = 0
    BY DEF Aimed, Ticked
  <1>3. ASSUME NEW stack \in Stacks, CountFP(stack) PROVE Aimed'
    <2>1. pc = "counting" /\ pc' = "counting" /\ tree_bin' = tree_bin /\ fp' = fp /\ tested' = tested
      BY <1>3 DEF CountFP, Meets
    <2>2. tested = <<>>
      BY <1>2, <2>1 DEF Aimed
    <2> QED
      BY <1>1, <1>2, <2>1, <2>2, NewTreeFields DEF Aimed
  <1>4. ASSUME execution' = execution, tested' = tested, fp' = fp, tree_bin' = tree_bin,
               pc' \in {"looping", "serializing", "finished"}, pc' = "looping" => fp = 0 /\ pc = "counting",
               pc' = "serializing" => pc = "running" /\ fp_backtrace' = fp_backtrace
        PROVE  Aimed'
    <2>1. fp' = 0 => tested' = <<>>
      BY <1>4, <1>2 DEF Aimed
    <2>2. tested' # <<>> => fp' > 0 /\ Len(tested') = 1 /\ AtTarget(tested[1])'
      BY <1>1, <1>4 DEF Aimed, AtTarget, FirstHits
    <2> QED
      BY <1>1, <1>2, <1>4, <2>1, <2>2 DEF Aimed
  <1>5. ASSUME NEW stack \in Stacks, ExhaustMemory(stack) PROVE Aimed'
    BY <1>2, <1>4, <1>5 DEF ExhaustMemory, Meets
  <1>6. CASE WriteCount
    <2>1. fp = 0 /\ tested' = tested /\ tested = <<>> /\ tree_bin'.visited = {} /\ pc' = "looping"
      BY <1>2, <1>6 DEF WriteCount, Aimed
    <2> QED
      BY <1>1, <1>2, <2>1 DEF Aimed
  <1>7. CASE StartIteration
    <2>1. fp = 0 /\ fp' = 0 /\ tested' = tested /\ tested = <<>> /\ pc' = "running" /\ pos' = 1
          /\ current_fp' = 0 /\ fp_backtrace' = <<>> /\ tree' = tree_bin /\ tree_bin.visited = {}
      BY <1>2, <1>7 DEF StartIteration, MoreIterations, Aimed
    <2>2. Firsts(execution, pos - 1, {})' = <<>>
      BY <2>1, FirstsUnfolded
    <2>3. Seen(tree, pos - 1)'
      BY <2>1 DEF Seen
    <2>4. current_fp' = Len(Firsts(execution, pos - 1, {}))'
      BY <2>1, <2>2
    <2> QED
      BY <1>1, <1>2, <2>1, <2>3, <2>4 DEF Aimed
  <1>8. CASE EndOfTarget
    BY <1>4, <1>8 DEF EndOfTarget
  <1>9. ASSUME execution' = execution, tested' = tested, fp' = fp, pc = "serializing", pc' = "recovering",
               fp_backtrace' = fp_backtrace
        PROVE  Aimed'
    <2>1. tested' = <<>> /\ fp' = 0
      BY <1>2, <1>9 DEF Aimed
    <2>2. fp_backtrace' = <<>> \/ AtTarget(fp_backtrace)'
      BY <1>1, <1>9 DEF Aimed, AtTarget, FirstHits
    <2> QED
      BY <1>1, <1>2, <1>9, <2>1, <2>2 DEF Aimed
  <1>10. CASE Serialize
    BY <1>9, <1>10 DEF Serialize
  <1>11. CASE Timeout
    <2>1. tested' = <<>> /\ fp' > 0 /\ pc' = "looping"
      BY <1>2, <1>11 DEF Timeout, Aimed
    <2> QED
      BY <1>1, <1>2, <2>1 DEF Aimed
  <1>12. CASE Recover
    <2>1. tested = <<>> /\ fp' > 0 /\ pc' = "looping" /\ execution' = execution
      BY <1>2, <1>12 DEF Recover, Aimed
    <2>2. tested' = <<>> \/ (tested' = <<fp_backtrace>> /\ AtTarget(fp_backtrace))
      BY <1>12, <2>1 DEF Recover, Aimed
    <2>3. tested' # <<>> => Len(tested') = 1 /\ AtTarget(tested[1])'
      BY <1>1, <2>1, <2>2 DEF AtTarget, FirstHits
    <2> QED
      BY <1>1, <1>2, <2>1, <2>3 DEF Aimed
  <1>13. CASE EndLoop
    BY <1>4, <1>13 DEF EndLoop
  <1>14. CASE UNCHANGED vars
    BY <1>14 DEF vars, Aimed, AtTarget, FirstHits, Seen, Hits
  <1> QED
    BY <1>3, <1>5, <1>6, <1>7, <1>8, <1>10, <1>11, <1>12, <1>13, <1>14, EveryStep, ReachAimed DEF Step

(* -F is the number that fi_loop gave the failure point: a campaign with   *)
(* -F crashes the target at most once, where iteration -F of the full      *)
(* campaign would have with no timeout (bfi.cpp:66, current_fp), even if a *)
(* kill may strike while tree.bin is written.                              *)
THEOREM TargetAlwaysIteration ==
  ASSUME ProperBacktraces
  PROVE  FPSpec => []TargetIsIteration
  <1> DEFINE Inv == Ticked /\ (target_fp >= 0 => Aimed)
  <1>1. FPInit => Inv
    BY InitTicked, InitAimed
  <1>2. Inv /\ [FPNext]_<<vars, fpvars>> => Inv'
    BY NextTicked, NextAimed
  <1>3. Inv => TargetIsIteration
    BY DEF Aimed, AtTarget, TargetIsIteration
  <1> QED
    BY <1>1, <1>2, <1>3, PTL DEF FPSpec, FPNext

--------------------------------------------------------------------------
(* ImplementsCampaign.                                                     *)

Untested(t) == Firsts(execution, Len(execution), t.visited)

(* The inductive invariant of a campaign without -F.  An iteration never   *)
(* runs to the end of the target, because there are as many failure points *)
(* left to crash at as turns: that is what is lost when tree.bin is.       *)
Turning ==
  /\ uniq_fps \in Nat /\ fp <= uniq_fps
  /\ pc \in {"counting", "looping", "running", "serializing", "recovering", "finished"}
  /\ pc = "counting" => tested = <<>> /\ uniq_fps = Len(FirstHits)
  /\ pc # "counting" =>
       /\ uniq_fps - fp - (IF pc = "recovering" THEN 1 ELSE 0) <= Len(Untested(tree_bin))
       /\ uniq_fps > 0 => Grown(tree_bin)
  /\ pc \in {"running", "serializing", "recovering"} => fp < uniq_fps /\ Grown(tree)
  /\ pc = "running" =>
       /\ \A s \in Hits : s \in tree.visited <=> s \in tree_bin.visited
       /\ \A i \in 1 .. pos - 1 : execution[i] \in tree.visited
  /\ pc = "serializing" =>
       /\ Untested(tree_bin) # <<>>
       /\ Head(Untested(tree_bin)) = fp_backtrace
       /\ Untested(tree) = Tail(Untested(tree_bin))
  /\ pc \in {"serializing", "recovering"} => fp_backtrace \in Stacks

LEMMA UntestedFields ==
  ASSUME execution \in Seq(Stacks), NEW t
  PROVE  /\ Untested(t) \in Seq(Stacks)
         /\ \A s : s \in ToSet(Untested(t)) <=> s \in Hits /\ s \notin t.visited
  <1>1. Len(execution) \in Nat /\ Len(execution) \in 0 .. Len(execution)
    OBVIOUS
  <1>2. /\ Untested(t) \in Seq(Stacks)
        /\ \A s : s \in ToSet(Untested(t)) <=> s \notin t.visited /\ \E i \in 1 .. Len(execution) : execution[i] = s
    BY <1>1, FirstsFields DEF Untested
  <1>3. \A s : s \in Hits <=> \E i \in 1 .. Len(execution) : execution[i] = s
    BY DEF Hits, ToSet
  <1> QED
    BY <1>2, <1>3

LEMMA SameUntested ==
  ASSUME execution \in Seq(Stacks), NEW t, NEW u, \A s \in Hits : s \in t.visited <=> s \in u.visited
  PROVE  Untested(t) = Untested(u)
  <1>1. \A i \in 1 .. Len(execution) : execution[i] \in t.visited <=> execution[i] \in u.visited
    BY HitsAreStacks
  <1>2. Len(execution) \in Nat
    OBVIOUS
  <1> QED
    BY <1>1, <1>2, FirstsAgree DEF Untested

LEMMA UntestedBefore ==
  ASSUME execution \in Seq(Stacks), NEW t, t.visited = {}
  PROVE  Untested(t) = FirstHits
  BY DEF Untested, FirstHits

LEMMA HitsAreNodes ==
  ASSUME NoneBeginsAnother, NEW S \in SUBSET Stacks, NEW t, Full(t, S), NEW s \in Stacks
  PROVE  s \in Nodes(t) <=> s \in S
  <1>1. IsSequence(s) /\ Len(s) \in 1 .. Len(s) /\ Path(s, Len(s)) = s /\ s # <<>>
    BY StackFields, PathEnds
  <1>2. ASSUME NEW x \in S, NEW d \in 1 .. Len(x), s = Path(x, d) PROVE s = x
    <2>1. x \in Stacks /\ IsSequence(x) /\ d \in 0 .. Len(x)
      BY StackFields
    <2>2. Len(s) = d
      BY <1>2, <2>1, PathFields
    <2>3. IsPrefix(s, x)
      BY <1>1, <1>2, <2>1, <2>2, PrefixIsPath
    <2> QED
      BY <2>1, <2>3 DEF NoneBeginsAnother
  <1> QED
    BY <1>1, <1>2 DEF Full

LEMMA HitFirst ==
  ASSUME execution \in Seq(Stacks), NEW s \in Stacks, execution' = Append(execution, s)
  PROVE  /\ FirstHits \in Seq(Stacks)
         /\ FirstHits' = IF s \in Hits THEN FirstHits ELSE Append(FirstHits, s)
         /\ \A x : x \in ToSet(FirstHits) <=> x \in Hits
  <1> DEFINE n == Len(execution)
  <1>1. PICK e : e = Append(execution, s)
    OBVIOUS
  <1>2. n \in Nat /\ Len(e) = n + 1 /\ e[n + 1] = s /\ \A i \in 1 .. n : e[i] = execution[i]
    BY <1>1
  <1>3. Firsts(e, n, {}) = FirstHits
    <2>1. Firsts(e, n, {}) = Firsts(execution, n, {})
      BY <1>2, FirstsAgree
    <2> QED
      BY <2>1 DEF FirstHits
  <1>4. Repeated(e, n + 1, {}) <=> s \in Hits
    <2>1. s \in Hits <=> \E i \in 1 .. n : execution[i] = s
      BY DEF Hits, ToSet
    <2>2. (n + 1) - 1 = n
      BY <1>2
    <2> QED
      BY <1>2, <2>1, <2>2 DEF Repeated
  <1>5. FirstHits' = Firsts(e, n + 1, {})
    BY <1>1, <1>2 DEF FirstHits
  <1>6. Firsts(e, n + 1, {}) = Following(Firsts(e, n, {}), e, n + 1, {})
    BY <1>2, FirstsUnfolded
  <1>7. PICK t : t = NewTree
    OBVIOUS
  <1>8. FirstHits = Untested(t) /\ t.visited = {}
    BY <1>7, UntestedBefore, NewTreeFields
  <1>9. FirstHits \in Seq(Stacks) /\ \A x : x \in ToSet(FirstHits) <=> x \in Hits
    BY <1>8, UntestedFields
  <1> QED
    BY <1>2, <1>3, <1>4, <1>5, <1>6, <1>9 DEF Following

\* What counting one more hit makes of the number of failure points.
LEMMA CountUniq ==
  ASSUME ProperBacktraces, Ticked, Turning, NEW stack \in Stacks, CountFP(stack)
  PROVE  /\ uniq_fps' = uniq_fps + (IF stack \in Hits THEN 0 ELSE 1)
         /\ FirstHits' = IF stack \in Hits THEN FirstHits ELSE Append(FirstHits, stack)
         /\ uniq_fps' = Len(FirstHits')
         /\ \A x : x \in ToSet(FirstHits) <=> x \in Hits
         /\ FirstHits \in Seq(Stacks)
  <1>1. pc = "counting" /\ execution' = Append(execution, stack) /\ execution \in Seq(Stacks)
        /\ uniq_fps' = uniq_fps + (IF InsertFPTrace(tree, idx, stack).uniq THEN 1 ELSE 0)
        /\ uniq_fps = Len(FirstHits) /\ uniq_fps \in Nat
    BY DEF CountFP, Meets, Ticked, Turning
  <1>2. Linked(tree) /\ OnPaths(tree) /\ Full(tree, Hits) /\ Hits \in SUBSET Stacks
    BY <1>1, HitsAreStacks DEF Ticked, Grown
  <1>3. PICK r : r = InsertFPTrace(tree, idx, stack)
    OBVIOUS
  <1>4. r.uniq <=> stack \notin Nodes(tree)
    BY <1>2, <1>3, InsertedTree DEF ProperBacktraces, Inserted
  <1>5. stack \in Nodes(tree) <=> stack \in Hits
    BY <1>2, HitsAreNodes DEF ProperBacktraces
  <1>6. /\ FirstHits \in Seq(Stacks)
        /\ FirstHits' = IF stack \in Hits THEN FirstHits ELSE Append(FirstHits, stack)
        /\ \A x : x \in ToSet(FirstHits) <=> x \in Hits
    BY <1>1, HitFirst
  <1>7. uniq_fps' = uniq_fps + (IF stack \in Hits THEN 0 ELSE 1)
    BY <1>1, <1>3, <1>4, <1>5
  <1> QED
    BY <1>1, <1>6, <1>7

LEMMA ReachTurning ==
  ASSUME ProperBacktraces, KillDuringSerialize = FALSE, Ticked, target_fp < 0, target_fp \in Int, Turning, ReachFP
  PROVE  Turning'
  <1> DEFINE s == execution[pos]
  <1>1. /\ pc = "running" /\ pos \in Nat \ {0} /\ pos <= Len(execution) /\ pos \in 1 .. Len(execution)
        /\ execution' = execution /\ tree_bin' = tree_bin /\ fp' = fp /\ uniq_fps' = uniq_fps
        /\ execution \in Seq(Stacks) /\ Len(execution) \in Nat /\ Grown(tree)
    BY DEF ReachFP, Ticked, Turning
  <1>2. s \in Stacks /\ s \in Hits /\ Hits \in SUBSET Stacks /\ Hits' = Hits
    BY <1>1, HitsAreStacks DEF Hits
  <1>3. Injects(tree, s) <=> s \notin tree.visited
    BY <1>1, <1>2, InjectsUnvisited DEF Grown
  <1>5. Untested(tree_bin)' = Untested(tree_bin) /\ Grown(tree_bin)' = Grown(tree_bin)
    BY <1>1, <1>2 DEF Untested, Grown
  <1>6. CASE PassBy
    <2>1. tree' = tree /\ pos' = pos + 1 /\ pc' = pc /\ s \in tree.visited
      BY <1>3, <1>6 DEF PassBy
    <2>2. \A i \in 1 .. pos' - 1 : execution'[i] \in tree'.visited
      BY <1>1, <2>1 DEF Turning
    <2>3. Grown(tree)'
      BY <1>1, <1>2, <2>1 DEF Grown
    <2> QED
      BY <1>1, <1>2, <1>5, <2>1, <2>2, <2>3 DEF Turning
  <1>7. ~PassByTarget
    BY DEF PassByTarget, NotTarget
  <1>8. CASE Crash
    <2>1. /\ tree' = MarkVisited(tree, s) /\ Injects(tree, s) /\ fp_backtrace' = s /\ pc' = "serializing"
          /\ s \notin tree.visited
      BY <1>3, <1>8 DEF Crash
    <2>2. PICK m : m = tree'
      OBVIOUS
    <2>3. Grown(m) /\ \A x \in Hits : x \in m.visited <=> x \in tree.visited \/ x = s
      BY <1>1, <1>2, <2>1, <2>2, MarkedGrown
    <2>4. \A x \in Hits : x \in tree.visited <=> x \in tree_bin.visited
      BY <1>1 DEF Turning
    <2>5. PICK skip : skip = tree_bin.visited
      OBVIOUS
    <2>6. /\ Untested(tree_bin) # <<>> /\ Head(Untested(tree_bin)) = s
          /\ Tail(Untested(tree_bin)) = Firsts(execution, Len(execution), skip \cup {s})
      <3>1. \A i \in 1 .. pos - 1 : execution[i] \in skip
        BY <1>1, <2>4, <2>5, HitsAreStacks DEF Turning
      <3>2. execution[pos] \notin skip
        BY <1>2, <2>1, <2>4, <2>5
      <3> QED
        BY <1>1, <2>5, <3>1, <3>2, FirstsHead DEF Untested
    <2>7. Untested(m) = Firsts(execution, Len(execution), skip \cup {s})
      <3>1. \A i \in 1 .. Len(execution) : execution[i] \in m.visited <=> execution[i] \in skip \cup {s}
        BY <1>1, <2>3, <2>4, <2>5, HitsAreStacks
      <3> QED
        BY <1>1, <3>1, FirstsAgree DEF Untested
    <2>8. Untested(tree)' = Untested(m) /\ Grown(tree)'
      BY <1>1, <1>2, <2>2, <2>3 DEF Untested, Grown
    <2> HIDE DEF s
    <2> QED
      BY <1>1, <1>2, <1>5, <2>1, <2>6, <2>7, <2>8 DEF Turning
  <1> QED
    BY <1>6, <1>7, <1>8 DEF ReachFP

\* Nothing has been found when the iterations are over, and not before.
LEMMA NoEndOfTarget ==
  ASSUME Ticked, Turning PROVE ~EndOfTarget
  <1> SUFFICES ASSUME EndOfTarget PROVE FALSE
    OBVIOUS
  <1>1. /\ execution \in Seq(Stacks) /\ pc = "running" /\ pos > Len(execution) /\ pos \in Nat
        /\ fp < uniq_fps /\ fp \in Nat /\ uniq_fps \in Nat
    BY DEF EndOfTarget, Ticked, Turning
  <1>2. uniq_fps - fp <= Len(Untested(tree_bin))
    BY <1>1 DEF Turning
  <1>3. /\ Untested(tree_bin) \in Seq(Stacks)
        /\ \A s : s \in ToSet(Untested(tree_bin)) <=> s \in Hits /\ s \notin tree_bin.visited
    BY <1>1, UntestedFields
  <1>4. \A s \in Hits : s \in tree_bin.visited
    <2>1. \A i \in 1 .. Len(execution) : i \in 1 .. pos - 1
      BY <1>1
    <2> QED
      BY <1>1, <2>1 DEF Turning, Hits, ToSet
  <1>5. 1 \in 1 .. Len(Untested(tree_bin))
    BY <1>1, <1>2, <1>3
  <1>6. Untested(tree_bin)[1] \in ToSet(Untested(tree_bin))
    BY <1>3, <1>5 DEF ToSet
  <1> QED
    BY <1>3, <1>4, <1>6

LEMMA NextTurning ==
  ASSUME ProperBacktraces, KillDuringSerialize = FALSE, Ticked, target_fp < 0 => Turning, target_fp \in Int,
         [FPNext]_<<vars, fpvars>>
  PROVE  target_fp' < 0 => Turning'
  <1>1. target_fp' = target_fp
    BY EveryStep DEF Step, CountFP, ExhaustMemory, WriteCount, StartIteration, ReachFP, EndOfTarget,
                     Serialize, Timeout, Recover, EndLoop, vars
  <1> SUFFICES ASSUME target_fp < 0, Turning PROVE Turning'
    BY <1>1
  <1>2. /\ fp \in Nat /\ uniq_fps \in Nat /\ fp <= uniq_fps /\ execution \in Seq(Stacks)
        /\ pc = "counting" => fp = 0 /\ Grown(tree) /\ tree.visited = {} /\ tree_bin.visited = {}
    BY NewTreeFields DEF Turning, Ticked
  <1>3. Untested(tree_bin) \in Seq(Stacks) /\ Untested(tree) \in Seq(Stacks) /\ FirstHits \in Seq(Stacks)
    <2>1. FirstHits = Untested(NewTree)
      BY <1>2, NewTreeFields, UntestedBefore
    <2> QED
      BY <1>2, <2>1, UntestedFields
  <1>4. execution' = execution =>
          /\ Hits' = Hits
          /\ tree_bin' = tree_bin => Untested(tree_bin)' = Untested(tree_bin) /\ Grown(tree_bin)' = Grown(tree_bin)
          /\ tree_bin' = tree => Untested(tree_bin)' = Untested(tree) /\ Grown(tree_bin)' = Grown(tree)
          /\ tree' = tree => Untested(tree)' = Untested(tree) /\ Grown(tree)' = Grown(tree)
          /\ tree' = tree_bin => Grown(tree)' = Grown(tree_bin)
    BY DEF Hits, Untested, Grown
  <1>5. ASSUME NEW stack \in Stacks, CountFP(stack) PROVE Turning'
    <2>1. pc' = "counting" /\ fp' = fp /\ tested' = <<>> /\ pc = "counting"
      BY <1>5 DEF CountFP, Meets, Turning
    <2>2. uniq_fps' = Len(FirstHits') /\ uniq_fps' \in Nat
      BY <1>2, <1>5, CountUniq
    <2> QED
      BY <1>2, <2>1, <2>2 DEF Turning
  <1>6. ASSUME NEW stack \in Stacks, ExhaustMemory(stack) PROVE Turning'
    <2>1. pc = "counting" /\ pc' = "looping" /\ fp' = 0 /\ uniq_fps' = 0 /\ execution' = execution /\ tree_bin' = tree_bin
      BY <1>2, <1>6 DEF ExhaustMemory, Meets
    <2> QED
      BY <1>3, <1>4, <2>1 DEF Turning
  <1>7. CASE WriteCount
    <2>1. /\ pc = "counting" /\ pc' = "looping" /\ fp' = 0 /\ uniq_fps' = uniq_fps /\ execution' = execution
          /\ tree_bin' = tree /\ uniq_fps = Len(FirstHits)
      BY <1>2, <1>7 DEF WriteCount, Turning
    <2>2. Untested(tree) = FirstHits /\ Grown(tree)
      BY <1>2, <2>1, UntestedBefore
    <2> QED
      BY <1>2, <1>3, <1>4, <2>1, <2>2 DEF Turning
  <1>8. CASE StartIteration
    <2>1. /\ pc = "looping" /\ pc' = "running" /\ fp' = fp /\ fp < uniq_fps /\ uniq_fps' = uniq_fps
          /\ execution' = execution /\ tree_bin' = tree_bin /\ tree' = tree_bin /\ pos' = 1
      BY <1>8 DEF StartIteration, MoreIterations
    <2>2. Grown(tree_bin) /\ uniq_fps - fp <= Len(Untested(tree_bin))
      BY <1>2, <2>1 DEF Turning
    <2>3. \A i \in 1 .. pos' - 1 : execution'[i] \in tree'.visited
      BY <2>1
    <2> QED
      BY <1>2, <1>3, <1>4, <2>1, <2>2, <2>3 DEF Turning
  <1>9. CASE Serialize
    <2>1. /\ pc = "serializing" /\ pc' = "recovering" /\ fp' = fp /\ uniq_fps' = uniq_fps /\ execution' = execution
          /\ tree_bin' = tree /\ tree' = tree /\ fp_backtrace' = fp_backtrace
      BY <1>9 DEF Serialize
    <2>2. /\ uniq_fps - fp <= Len(Untested(tree_bin)) /\ Untested(tree_bin) # <<>>
          /\ Untested(tree) = Tail(Untested(tree_bin)) /\ fp < uniq_fps /\ Grown(tree) /\ fp_backtrace \in Stacks
      BY <1>2, <2>1 DEF Turning
    <2>3. Len(Untested(tree)) = Len(Untested(tree_bin)) - 1
      BY <1>3, <2>2
    <2> QED
      BY <1>2, <1>3, <1>4, <2>1, <2>2, <2>3 DEF Turning
  <1>10. CASE Timeout
    <2>1. /\ pc \in {"running", "serializing"} /\ pc' = "looping" /\ fp' = fp + 1 /\ uniq_fps' = uniq_fps
          /\ execution' = execution
          /\ tree_bin' = tree_bin \/ (pc = "serializing" /\ tree_bin' = tree)
      BY <1>10 DEF Timeout
    <2>2. uniq_fps - fp <= Len(Untested(tree_bin)) /\ fp < uniq_fps /\ Grown(tree) /\ Grown(tree_bin)
      BY <1>2, <2>1 DEF Turning
    <2>3. pc = "serializing" => Len(Untested(tree)) = Len(Untested(tree_bin)) - 1
      BY <1>3 DEF Turning
    <2>4. /\ Untested(tree_bin)' \in {Untested(tree_bin), Untested(tree)} /\ Grown(tree_bin)'
          /\ pc = "running" => Untested(tree_bin)' = Untested(tree_bin)
      BY <1>4, <2>1, <2>2
    <2>5. uniq_fps' - fp' <= Len(Untested(tree_bin))'
      <3>1. CASE Untested(tree_bin)' = Untested(tree_bin)
        BY <1>2, <1>3, <2>1, <2>2, <3>1
      <3>2. CASE pc = "serializing" /\ Untested(tree_bin)' = Untested(tree)
        BY <1>2, <1>3, <2>1, <2>2, <2>3, <3>2
      <3> QED
        BY <2>1, <2>4, <3>1, <3>2
    <2>6. uniq_fps' \in Nat /\ fp' <= uniq_fps' /\ pc' = "looping"
      BY <1>2, <2>1, <2>2
    <2>7. uniq_fps' - fp' - (IF pc' = "recovering" THEN 1 ELSE 0) <= Len(Untested(tree_bin)')
      <3>1. PICK u, f, l : u = uniq_fps' /\ f = fp' /\ l = Len(Untested(tree_bin)')
        OBVIOUS
      <3>2. u \in Int /\ f \in Int /\ u - f <= l
        BY <1>2, <2>1, <2>5, <2>6, <3>1
      <3> QED
        BY <2>6, <3>1, <3>2
    <2>8. Grown(tree_bin)'
      BY <2>4
    <2> QED
      BY <2>6, <2>7, <2>8 DEF Turning
  <1>11. CASE Recover
    <2>1. /\ pc = "recovering" /\ pc' = "looping" /\ fp' = fp + 1 /\ uniq_fps' = uniq_fps
          /\ execution' = execution /\ tree_bin' = tree_bin
      BY <1>11 DEF Recover
    <2>2. uniq_fps - fp - 1 <= Len(Untested(tree_bin)) /\ fp < uniq_fps /\ Grown(tree_bin)
      BY <1>2, <2>1 DEF Turning
    <2> QED
      BY <1>2, <1>3, <1>4, <2>1, <2>2 DEF Turning
  <1>12. CASE EndLoop
    BY <1>2, <1>4, <1>12 DEF EndLoop, Turning
  <1>13. CASE UNCHANGED vars
    BY <1>13 DEF vars, Turning, Untested, Grown, Hits, FirstHits
  <1> QED
    BY <1>5, <1>6, <1>7, <1>8, <1>9, <1>10, <1>11, <1>12, <1>13, EveryStep, ReachTurning, NoEndOfTarget DEF Step

LEMMA InitTurning == FPInit => Turning
  <1> SUFFICES ASSUME FPInit PROVE Turning
    OBVIOUS
  <1>1. execution = <<>> /\ uniq_fps = 0 /\ fp = 0 /\ pc = "counting" /\ tested = <<>>
    BY DEF FPInit, Init
  <1>2. FirstHits = <<>>
    BY <1>1, FirstsUnfolded DEF FirstHits
  <1> QED
    BY <1>1, <1>2 DEF Turning

\* The values the refinement gives the variables of FailurePointCampaign.
absUntested == IF IsCampaign THEN Firsts(execution, Len(execution), tree_bin.visited) ELSE <<>>
absTested   == IF ~IsCampaign THEN <<>> ELSE IF pc = "recovering" THEN Append(tested, fp_backtrace) ELSE tested
absTurns    == IF ~IsCampaign THEN 0
               ELSE IF pc = "recovering" THEN uniq_fps - fp - 1 ELSE uniq_fps - fp
absStarted  == IsCampaign /\ pc # "counting"

LEMMA AbstractSteps ==
  /\ \A s : /\ ~absStarted /\ (\A i \in DOMAIN absUntested : absUntested[i] # s)
            /\ absUntested' = Append(absUntested, s) /\ absTurns' = absTurns + 1
            /\ absTested' = absTested /\ absStarted' = absStarted
            => Campaign!Find(s)
  /\ ~absStarted /\ absStarted' /\ absUntested' = absUntested /\ absTested' = absTested =>
       /\ absTurns' = absTurns => Campaign!Start
       /\ absTurns' = 0 => Campaign!GiveUp
  /\ absStarted /\ absTurns > 0 /\ absTurns' = absTurns - 1 /\ absStarted' = absStarted =>
       /\ absUntested # <<>> /\ absTested' = Append(absTested, Head(absUntested)) /\ absUntested' = Tail(absUntested)
          => Campaign!Test
       /\ absTested' = absTested
          /\ (absUntested' = absUntested \/ (absUntested # <<>> /\ absUntested' = Tail(absUntested)))
          => Campaign!TimeOut
  /\ absUntested' = absUntested /\ absTested' = absTested /\ absTurns' = absTurns /\ absStarted' = absStarted
     => UNCHANGED Campaign!campaign
  BY DEF Campaign!Find, Campaign!Start, Campaign!GiveUp, Campaign!Turn, Campaign!Test, Campaign!TimeOut,
         Campaign!campaign, absUntested, absTested, absTurns, absStarted

LEMMA InitCampaign == FPInit => Campaign!Init
  <1> SUFFICES ASSUME FPInit PROVE Campaign!Init
    OBVIOUS
  <1>1. execution = <<>> /\ uniq_fps = 0 /\ fp = 0 /\ pc = "counting" /\ tested = <<>>
    BY DEF FPInit, Init
  <1>2. Firsts(execution, Len(execution), tree_bin.visited) = <<>>
    BY <1>1, FirstsUnfolded
  <1> QED
    BY <1>1, <1>2 DEF Campaign!Init, IsCampaign

LEMMA NextCampaign ==
  ASSUME ProperBacktraces, KillDuringSerialize = FALSE, Ticked, target_fp < 0 => Turning, target_fp \in Int,
         [FPNext]_<<vars, fpvars>>
  PROVE  [Campaign!Next]_Campaign!campaign
  <1>1. target_fp' = target_fp
    BY EveryStep DEF Step, CountFP, ExhaustMemory, WriteCount, StartIteration, ReachFP, EndOfTarget,
                     Serialize, Timeout, Recover, EndLoop, vars
  <1>2. CASE target_fp >= 0
    <2>1. ~IsCampaign /\ ~IsCampaign'
      BY <1>1, <1>2 DEF IsCampaign
    <2> QED
      BY <2>1 DEF Campaign!campaign
  <1> SUFFICES ASSUME target_fp < 0, Turning, IsCampaign, IsCampaign' PROVE [Campaign!Next]_Campaign!campaign
    BY <1>1, <1>2 DEF IsCampaign
  <1>3. /\ fp \in Nat /\ uniq_fps \in Nat /\ fp <= uniq_fps /\ execution \in Seq(Stacks)
        /\ pc = "counting" => /\ fp = 0 /\ tree.visited = {} /\ tree_bin.visited = {}
                              /\ tested = <<>> /\ uniq_fps = Len(FirstHits)
    BY NewTreeFields DEF Turning, Ticked
  <1>4. execution' = execution =>
          /\ tree_bin' = tree_bin => Untested(tree_bin)' = Untested(tree_bin)
          /\ tree_bin' = tree => Untested(tree_bin)' = Untested(tree)
    BY DEF Untested
  <1>5. /\ absUntested = Untested(tree_bin) /\ absUntested' = Untested(tree_bin)'
        /\ absTested = IF pc = "recovering" THEN Append(tested, fp_backtrace) ELSE tested
        /\ absTested' = IF pc' = "recovering" THEN Append(tested', fp_backtrace') ELSE tested'
        /\ absTurns = IF pc = "recovering" THEN uniq_fps - fp - 1 ELSE uniq_fps - fp
        /\ absTurns' = IF pc' = "recovering" THEN uniq_fps' - fp' - 1 ELSE uniq_fps' - fp'
        /\ absStarted = (pc # "counting") /\ absStarted' = (pc' # "counting")
    BY DEF absUntested, absTested, absTurns, absStarted, Untested
  <1>6. Untested(tree_bin) \in Seq(Stacks)
    BY <1>3, UntestedFields
  <1>7. ASSUME execution' = execution, tree_bin' = tree_bin, tested' = tested, uniq_fps' = uniq_fps, fp' = fp,
               pc # "counting", pc' # "counting", pc # "recovering", pc' # "recovering"
        PROVE  UNCHANGED Campaign!campaign
    BY <1>4, <1>5, <1>7, AbstractSteps
  <1>8. ASSUME NEW stack \in Stacks, CountFP(stack) PROVE Campaign!Find(stack) \/ UNCHANGED Campaign!campaign
    <2>1. /\ pc = "counting" /\ pc' = "counting" /\ fp' = fp /\ tested' = tested /\ tree_bin' = tree_bin
      BY <1>8 DEF CountFP, Meets
    <2>2. absUntested = FirstHits /\ absUntested' = FirstHits'
      BY <1>3, <1>5, <2>1 DEF Untested, FirstHits
    <2>3. /\ uniq_fps' = uniq_fps + (IF stack \in Hits THEN 0 ELSE 1)
          /\ FirstHits' = IF stack \in Hits THEN FirstHits ELSE Append(FirstHits, stack)
          /\ \A x : x \in ToSet(FirstHits) <=> x \in Hits
      BY <1>8, CountUniq
    <2>4. CASE stack \in Hits
      BY <1>3, <1>5, <2>1, <2>2, <2>3, <2>4, AbstractSteps
    <2>5. CASE stack \notin Hits
      <3>1. \A i \in DOMAIN absUntested : absUntested[i] # stack
        BY <2>2, <2>3, <2>5 DEF ToSet
      <3>2. absUntested' = Append(absUntested, stack) /\ absTurns' = absTurns + 1
        BY <1>3, <1>5, <2>1, <2>2, <2>3, <2>5
      <3>3. absTested' = absTested /\ absStarted' = absStarted /\ ~absStarted
        BY <1>5, <2>1
      <3> QED
        BY <3>1, <3>2, <3>3, AbstractSteps
    <2> QED
      BY <2>4, <2>5
  <1>9. ASSUME NEW stack \in Stacks, ExhaustMemory(stack) PROVE Campaign!GiveUp
    <2>1. /\ pc = "counting" /\ pc' = "looping" /\ fp' = fp /\ fp = 0 /\ uniq_fps' = 0 /\ tested' = tested
          /\ tree_bin' = tree_bin /\ execution' = execution
      BY <1>3, <1>9 DEF ExhaustMemory, Meets
    <2>2. ~absStarted /\ absStarted' /\ absTested' = absTested
      BY <1>5, <2>1
    <2>3. absTurns' = 0
      BY <1>5, <2>1
    <2> QED
      BY <1>4, <1>5, <2>1, <2>2, <2>3, AbstractSteps
  <1>10. CASE WriteCount
    <2>1. /\ pc = "counting" /\ pc' = "looping" /\ fp' = fp /\ uniq_fps' = uniq_fps /\ tested' = tested
          /\ tree_bin' = tree /\ execution' = execution
      BY <1>10 DEF WriteCount
    <2>2. Untested(tree) = Untested(tree_bin)
      BY <1>3, <2>1, UntestedBefore
    <2>3. ~absStarted /\ absStarted' /\ absTested' = absTested /\ absTurns' = absTurns
      BY <1>5, <2>1
    <2>4. Campaign!Start
      BY <1>4, <1>5, <2>1, <2>2, <2>3, AbstractSteps
    <2> QED
      BY <2>4 DEF Campaign!Next
  <1>11. CASE StartIteration
    BY <1>7, <1>11 DEF StartIteration
  <1>12. CASE ReachFP
    <2>1. pc = "running" /\ pc' \in {"running", "serializing"}
      BY <1>12 DEF ReachFP, PassBy, PassByTarget, Crash
    <2> QED
      BY <1>7, <1>12, <2>1 DEF ReachFP
  <1>13. CASE Serialize
    <2>1. /\ pc = "serializing" /\ pc' = "recovering" /\ fp' = fp /\ uniq_fps' = uniq_fps /\ tested' = tested
          /\ tree_bin' = tree /\ execution' = execution /\ fp_backtrace' = fp_backtrace
      BY <1>13 DEF Serialize
    <2>2. /\ fp < uniq_fps /\ Untested(tree_bin) # <<>> /\ Head(Untested(tree_bin)) = fp_backtrace
          /\ Untested(tree) = Tail(Untested(tree_bin))
      BY <2>1 DEF Turning
    <2>a. absStarted /\ absStarted' = absStarted
      BY <1>5, <2>1
    <2>b. absTurns = uniq_fps - fp /\ absTurns' = uniq_fps - fp - 1
      BY <1>5, <2>1
    <2>3. absStarted /\ absStarted' = absStarted /\ absTurns > 0 /\ absTurns' = absTurns - 1
      BY <1>3, <2>2, <2>a, <2>b
    <2>4. absUntested # <<>> /\ absTested' = Append(absTested, Head(absUntested)) /\ absUntested' = Tail(absUntested)
      BY <1>4, <1>5, <2>1, <2>2
    <2>5. Campaign!Test
      BY <2>3, <2>4, AbstractSteps
    <2> QED
      BY <2>5 DEF Campaign!Next
  <1>14. CASE Timeout
    <2>1. /\ pc \in {"running", "serializing"} /\ pc' = "looping" /\ fp' = fp + 1 /\ uniq_fps' = uniq_fps
          /\ tested' = tested /\ execution' = execution
          /\ tree_bin' = tree_bin \/ (pc = "serializing" /\ tree_bin' = tree)
      BY <1>14 DEF Timeout
    <2>2. fp < uniq_fps
      BY <2>1 DEF Turning
    <2>3. pc = "serializing" => Untested(tree_bin) # <<>> /\ Untested(tree) = Tail(Untested(tree_bin))
      BY DEF Turning
    <2>a. absStarted /\ absStarted' = absStarted /\ absTested' = absTested
      BY <1>5, <2>1
    <2>b. absTurns = uniq_fps - fp /\ absTurns' = uniq_fps - (fp + 1)
      BY <1>5, <2>1
    <2>c. absTurns > 0 /\ absTurns' = absTurns - 1
      BY <1>3, <2>2, <2>b
    <2>4. absStarted /\ absStarted' = absStarted /\ absTurns > 0 /\ absTurns' = absTurns - 1 /\ absTested' = absTested
      BY <2>a, <2>c
    <2>5. absUntested' = absUntested \/ (absUntested # <<>> /\ absUntested' = Tail(absUntested))
      BY <1>4, <1>5, <2>1, <2>3
    <2>6. Campaign!TimeOut
      BY <2>4, <2>5, AbstractSteps
    <2> QED
      BY <2>6 DEF Campaign!Next
  <1>15. CASE Recover
    <2>1. /\ pc = "recovering" /\ pc' = "looping" /\ fp' = fp + 1 /\ uniq_fps' = uniq_fps /\ execution' = execution
          /\ tree_bin' = tree_bin
          /\ tested' = IF fp_backtrace = <<>> THEN tested ELSE Append(tested, fp_backtrace)
      BY <1>15 DEF Recover
    <2>2. fp_backtrace # <<>>
      BY <2>1, StacksAssumption DEF Turning
    <2>3. absTested' = absTested /\ absTurns' = absTurns /\ absStarted' = absStarted
      BY <1>3, <1>5, <2>1, <2>2
    <2> QED
      BY <1>4, <1>5, <2>1, <2>3, AbstractSteps
  <1>16. CASE EndLoop
    BY <1>7, <1>16 DEF EndLoop
  <1>17. CASE UNCHANGED vars
    BY <1>4, <1>5, <1>17, AbstractSteps DEF vars
  <1> QED
    BY <1>8, <1>9, <1>10, <1>11, <1>12, <1>13, <1>14, <1>15, <1>16, <1>17, EveryStep, NoEndOfTarget
       DEF Step, Campaign!Next

(* Without -F, every iteration recovers from a crash at the next failure   *)
(* point of the execution that none before it crashed at, or is lost to a  *)
(* timeout (src/mumak, fi_loop and fi_iter): none is tested twice, none is *)
(* skipped, and a timeout costs at most one.                               *)
THEOREM EveryFailurePointTested ==
  ASSUME ProperBacktraces, KillDuringSerialize = FALSE
  PROVE  FPSpec => ImplementsCampaign
  <1> DEFINE Inv == Ticked /\ (target_fp < 0 => Turning) /\ target_fp \in Int
  <1>1. FPInit => Inv
    BY InitTicked, InitTurning, TargetsAssumption DEF FPInit, Init
  <1>2. Inv /\ [FPNext]_<<vars, fpvars>> => Inv'
    <2>1. [FPNext]_<<vars, fpvars>> => target_fp' = target_fp
      BY EveryStep DEF Step, CountFP, ExhaustMemory, WriteCount, StartIteration, ReachFP, EndOfTarget,
                       Serialize, Timeout, Recover, EndLoop, vars
    <2> QED
      BY <2>1, NextTicked, NextTurning
  <1>3. FPInit => Campaign!Init
    BY InitCampaign
  <1>4. Inv /\ [FPNext]_<<vars, fpvars>> => [Campaign!Next]_Campaign!campaign
    BY NextCampaign
  <1> QED
    BY <1>1, <1>2, <1>3, <1>4, PTL DEF FPSpec, FPNext, ImplementsCampaign, Campaign!Spec

--------------------------------------------------------------------------
(* TreeFits.                                                               *)

\* What reading back one node takes, after the others of a set of nodes.
ReadNode(t, set, f) ==
  LET n == CHOOSE x \in set : TRUE
  IN  f[set \ {n}] + SIZEOF_FPTraceAddr + SIZEOF_PTR * Len(t.children[n])

Reads(t, f) == f = [set \in SUBSET Nodes(t) |-> IF set = {} THEN InitialIdx ELSE ReadNode(t, set, f)]

LEMMA ReadBackSteps ==
  ASSUME NEW t, IsFiniteSet(Nodes(t))
  PROVE  \E f : Reads(t, f) /\ ReadBackSize(t) = f[Nodes(t)]
  <1> DEFINE N      == Nodes(t)
             UpTo(m) == {set \in SUBSET N : Cardinality(set) <= m}
             Def(f, m) == f = [set \in UpTo(m) |-> IF set = {} THEN InitialIdx ELSE ReadNode(t, set, f)]
             T == {m \in Nat : \E f : Def(f, m)}
  <1>0. \A set \in SUBSET N : IsFiniteSet(set) /\ Cardinality(set) \in Nat /\ (Cardinality(set) = 0 <=> set = {})
    BY FS_Subset, FS_CardinalityType, FS_EmptySet
  <1>a. ASSUME NEW set \in SUBSET N, set # {}
        PROVE  LET x == CHOOSE x \in set : TRUE
               IN  set \ {x} \in SUBSET N /\ Cardinality(set \ {x}) = Cardinality(set) - 1
    BY <1>0, <1>a, FS_RemoveElement
  <1>1. 0 \in T
    <2>1. PICK g : g = [set \in UpTo(0) |-> InitialIdx]
      OBVIOUS
    <2>2. \A set \in UpTo(0) : set = {}
      BY <1>0
    <2>3. Def(g, 0)
      BY <2>1, <2>2
    <2>4. \E f : Def(f, 0)
      BY <2>3
    <2> HIDE DEF Def
    <2> QED
      BY <2>4
  <1>2. ASSUME NEW m \in Nat, m \in T PROVE m + 1 \in T
    <2>1. PICK g : Def(g, m)
      BY <1>2
    <2> DEFINE h == [set \in UpTo(m + 1) |->
                       IF set = {} THEN InitialIdx ELSE ReadNode(t, set, g)]
    <2>2. ASSUME NEW set \in UpTo(m + 1)
          PROVE  h[set] = IF set = {} THEN InitialIdx ELSE ReadNode(t, set, h)
      <3>1. h[set] = IF set = {} THEN InitialIdx ELSE ReadNode(t, set, g)
        OBVIOUS
      <3>2. ASSUME set # {} PROVE ReadNode(t, set, g) = ReadNode(t, set, h)
        <4>1. PICK x : x = CHOOSE y \in set : TRUE
          OBVIOUS
        <4>2. set \ {x} \in UpTo(m) /\ set \ {x} \in UpTo(m + 1)
          BY <1>0, <1>a, <3>2, <4>1
        <4>3. g[set \ {x}] = h[set \ {x}]
          BY <2>1, <4>2
        <4> HIDE DEF h
        <4> QED
          BY <4>1, <4>3 DEF ReadNode
      <3> HIDE DEF h
      <3> QED
        BY <3>1, <3>2
    <2>3. Def(h, m + 1)
      <3>1. h = [set \in UpTo(m + 1) |-> h[set]]
        OBVIOUS
      <3> HIDE DEF h, UpTo
      <3> QED
        BY <2>2, <3>1
    <2>4. \E f : Def(f, m + 1)
      BY <2>3
    <2> HIDE DEF Def
    <2> QED
      BY <2>4
  <1>3. Cardinality(N) \in T
    <2> HIDE DEF T
    <2>1. Cardinality(N) \in Nat
      BY <1>0
    <2>2. \A k \in 0 .. Cardinality(N) - 1 : k \in T => k + 1 \in T
      BY <1>2
    <2>3. \A k \in 0 .. Cardinality(N) : k \in T
      BY <1>1, <2>1, <2>2, InductionUpTo
    <2> QED
      BY <2>1, <2>3
  <1>4. UpTo(Cardinality(N)) = SUBSET N
    BY FS_Subset
  <1>5. \E f : Reads(t, f)
    <2>1. PICK f : Def(f, Cardinality(N))
      BY <1>3
    <2>2. Reads(t, f)
      BY <1>4, <2>1 DEF Reads
    <2> QED
      BY <2>2
  <1>6. ReadBackSize(t) = (CHOOSE f : Reads(t, f))[N]
    BY DEF ReadBackSize, FoldSet, MapThenFoldSet, Reads, ReadNode
  <1> QED
    BY <1>5, <1>6

LEMMA NodesAreSequences ==
  ASSUME NEW t, OnPaths(t), NEW n \in Nodes(t)
  PROVE  IsSequence(n)
  <1>1. IsSequence(<<>>)
    BY DEF IsSequence
  <1> QED
    BY <1>1, PathIsSequence DEF OnPaths

LEMMA ChildrenFields ==
  ASSUME NEW t, Linked(t), OnPaths(t), NEW n \in Nodes(t)
  PROVE  /\ ChildNodes(t, n) \in SUBSET Nodes(t) /\ <<>> \notin ChildNodes(t, n)
         /\ IsFiniteSet(ChildNodes(t, n)) /\ Cardinality(ChildNodes(t, n)) = Len(t.children[n])
         /\ Len(t.children[n]) \in Nat
         /\ \A m \in Nodes(t) : m # n => ChildNodes(t, m) \cap ChildNodes(t, n) = {}
  <1> DEFINE c == t.children[n]
             S == 1 .. Len(c)
             C == ChildNodes(t, n)
             f == [k \in S |-> Append(n, c[k])]
  <1>1. IsSequence(n) /\ IsSequence(c) /\ IsInjective(c)
    BY NodesAreSequences DEF Linked
  <1>2. Len(c) \in Nat /\ DOMAIN c = S
    BY <1>1 DEF IsSequence
  <1>3. C = {Append(n, c[k]) : k \in S}
    BY <1>2 DEF ChildNodes, ToSet
  <1>4. C \in SUBSET Nodes(t) /\ <<>> \notin C
    <2>1. ASSUME NEW k \in S PROVE Append(n, c[k]) \in Nodes(t) /\ Append(n, c[k]) # <<>>
      <3>1. c[k] \in ToSet(c)
        BY <1>2 DEF ToSet
      <3> QED
        BY <1>1, <3>1, AppendFields DEF Linked
    <2> QED
      BY <1>3, <2>1
  <1>5. f \in Surjection(S, C)
    BY <1>3 DEF Surjection
  <1>6. f \in Injection(S, C)
    <2>1. ASSUME NEW j \in S, NEW k \in S, f[j] = f[k] PROVE j = k
      <3>1. Append(n, c[j]) = Append(n, c[k])
        BY <2>1
      <3>2. c[j] = c[k]
        BY <1>1, <3>1, AppendsEqual
      <3> QED
        BY <1>1, <1>2, <3>2 DEF IsInjective
    <2>2. f \in [S -> C]
      BY <1>3
    <2>3. IsInjective(f)
      <3>1. DOMAIN f = S
        OBVIOUS
      <3> HIDE DEF f
      <3> QED
        BY <2>1, <3>1 DEF IsInjective
    <2> QED
      BY <2>2, <2>3 DEF Injection
  <1>7. IsFiniteSet(S) /\ Cardinality(S) = Len(c)
    BY <1>2, FS_Interval
  <1>8. IsFiniteSet(C) /\ Cardinality(C) = Len(c)
    BY <1>5, <1>6, <1>7, FS_Surjection
  <1>9. ASSUME NEW m \in Nodes(t), NEW x \in ChildNodes(t, m), x \in C PROVE m = n
    <2>1. IsSequence(m)
      BY NodesAreSequences
    <2>2. PICK a, b : x = Append(m, a) /\ x = Append(n, b)
      BY <1>9 DEF ChildNodes
    <2> QED
      BY <1>1, <2>1, <2>2, AppendsEqual
  <1> QED
    BY <1>2, <1>4, <1>8, <1>9

(* Every node but the root is the child of one.                            *)
LEMMA Parents ==
  ASSUME NEW t, Linked(t), OnPaths(t)
  PROVE  UNION {ChildNodes(t, n) : n \in Nodes(t)} = Nodes(t) \ {<<>>}
  <1> DEFINE N == Nodes(t)
             B == UNION {ChildNodes(t, n) : n \in N}
  <1>1. B \subseteq N \ {<<>>}
    BY ChildrenFields
  <1>2. ASSUME NEW n \in N, n # <<>> PROVE n \in B
    <2>1. PICK s \in Stacks : \E d \in 0 .. Len(s) : n = Path(s, d)
      BY <1>2 DEF OnPaths, IsPath
    <2>2. PICK d \in 0 .. Len(s) : n = Path(s, d)
      BY <2>1
    <2>3. IsSequence(s) /\ Len(s) \in Nat /\ Path(s, 0) = <<>>
      BY StackFields, PathEnds
    <2>4. d - 1 \in 0 .. Len(s) - 1 /\ d - 1 \in 0 .. Len(s) /\ (d - 1) + 1 = d
      BY <1>2, <2>2, <2>3
    <2>5. n = Append(Path(s, d - 1), s[d]) /\ IsSequence(Path(s, d - 1))
      BY <2>2, <2>3, <2>4, PathStep, PathFields
    <2>6. Path(s, d - 1) \in N
      BY <2>5 DEF Linked
    <2>7. s[d] \in ToSet(t.children[Path(s, d - 1)])
      BY <2>5, <2>6 DEF Linked
    <2>8. n \in ChildNodes(t, Path(s, d - 1))
      BY <2>5, <2>7 DEF ChildNodes
    <2> QED
      BY <2>6, <2>8
  <1> QED
    BY <1>1, <1>2

LEMMA ReadBackExact ==
  ASSUME NEW t, Linked(t), OnPaths(t)
  PROVE  ReadBackSize(t) = NewNodeSize * Cardinality(Nodes(t)) - SIZEOF_PTR + InitialIdx
  <1> DEFINE N == Nodes(t)
             Below(set) == UNION {ChildNodes(t, n) : n \in set}
  <1>0. IsFiniteSet(N) /\ <<>> \in N /\ Cardinality(N) \in Nat
    BY FS_CardinalityType DEF Linked
  <1>1. PICK f : Reads(t, f) /\ ReadBackSize(t) = f[N]
    BY <1>0, ReadBackSteps
  <1> DEFINE Holds(set) == /\ f[set] = InitialIdx + SIZEOF_FPTraceAddr * Cardinality(set)
                                         + SIZEOF_PTR * Cardinality(Below(set))
                           /\ IsFiniteSet(Below(set)) /\ Cardinality(Below(set)) \in Nat
             T == {m \in Nat : \A set \in SUBSET N : Cardinality(set) = m => Holds(set)}
  <1>2. \A set \in SUBSET N : IsFiniteSet(set) /\ Cardinality(set) \in Nat /\ (Cardinality(set) = 0 <=> set = {})
    BY <1>0, FS_Subset, FS_CardinalityType, FS_EmptySet
  <1>3. 0 \in T
    <2>1. f[{}] = InitialIdx
      BY <1>1 DEF Reads
    <2>2. Below({}) = {} /\ Cardinality({}) = 0 /\ IsFiniteSet({})
      BY FS_EmptySet
    <2>3. Holds({})
      BY <2>1, <2>2 DEF InitialIdx, SIZEOF_FPTraceAddr, SIZEOF_PTR
    <2> HIDE DEF Holds
    <2> QED
      BY <1>2, <2>3
  <1>4. ASSUME NEW m \in Nat, m \in T PROVE m + 1 \in T
    <2> SUFFICES ASSUME NEW set \in SUBSET N, Cardinality(set) = m + 1 PROVE Holds(set)
      OBVIOUS
    <2>1. PICK n : n = CHOOSE x \in set : TRUE
      OBVIOUS
    <2>2. set # {} /\ n \in set /\ n \in N /\ IsFiniteSet(set)
      BY <1>2, <2>1
    <2> DEFINE rest == set \ {n}
               C    == ChildNodes(t, n)
    <2>3. rest \in SUBSET N /\ Cardinality(rest) = m
      <3> HIDE DEF Holds, Below
      <3>1. Cardinality(rest) = Cardinality(set) - 1
        BY <2>2, FS_RemoveElement
      <3>2. Cardinality(rest) = m
        BY <3>1
      <3> QED
        BY <3>2
    <2>4. Holds(rest)
      <3> HIDE DEF Holds
      <3> QED
        BY <1>4, <2>3
    <2>5. f[set] = f[rest] + SIZEOF_FPTraceAddr + SIZEOF_PTR * Len(t.children[n])
      BY <1>1, <2>1, <2>2 DEF Reads, ReadNode
    <2>6. Below(set) = Below(rest) \cup C /\ Below(rest) \cap C = {}
      <3>1. Below(set) = Below(rest) \cup C
        BY <2>2
      <3>2. Below(rest) \cap C = {}
        BY <2>2, ChildrenFields
      <3> QED
        BY <3>1, <3>2
    <2>7. IsFiniteSet(C) /\ Cardinality(C) = Len(t.children[n]) /\ Len(t.children[n]) \in Nat
      BY <2>2, ChildrenFields
    <2> HIDE DEF Below, rest, C
    <2>8. IsFiniteSet(Below(set)) /\ Cardinality(Below(set)) = Cardinality(Below(rest)) + Cardinality(C)
      <3>1. PICK A, B : A = Below(rest) /\ B = C
        OBVIOUS
      <3>2. IsFiniteSet(A) /\ Cardinality(A) \in Nat
        BY <2>4, <3>1
      <3>3. IsFiniteSet(B) /\ Cardinality(B) \in Nat /\ Below(set) = A \cup B /\ A \cap B = {}
        BY <2>6, <2>7, <3>1
      <3>4. /\ IsFiniteSet(A \cup B)
            /\ Cardinality(A \cup B) = Cardinality(A) + Cardinality(B) - Cardinality(A \cap B)
        BY <3>2, <3>3, FS_Union
      <3>5. Cardinality(A \cap B) = 0
        BY <3>3, FS_EmptySet
      <3>6. Cardinality(A \cup B) = Cardinality(A) + Cardinality(B)
        BY <3>2, <3>3, <3>4, <3>5
      <3> QED
        BY <3>1, <3>3, <3>4, <3>6
    <2>9. f[rest] = InitialIdx + SIZEOF_FPTraceAddr * m + SIZEOF_PTR * Cardinality(Below(rest))
          /\ Cardinality(Below(rest)) \in Nat
      BY <2>3, <2>4
    <2> HIDE DEF Holds
    <2>10. /\ f[set] = InitialIdx + SIZEOF_FPTraceAddr * (m + 1) + SIZEOF_PTR * Cardinality(Below(set))
           /\ Cardinality(Below(set)) \in Nat
      <3>1. PICK x, y, l : x = Cardinality(Below(rest)) /\ y = Cardinality(Below(set)) /\ l = Len(t.children[n])
        OBVIOUS
      <3>2. y = x + l /\ x \in Nat /\ l \in Nat /\ y \in Nat
        BY <2>7, <2>8, <2>9, <3>1
      <3>3. f[set] = f[rest] + SIZEOF_FPTraceAddr + SIZEOF_PTR * l
            /\ f[rest] = InitialIdx + SIZEOF_FPTraceAddr * m + SIZEOF_PTR * x
        BY <2>5, <2>9, <3>1
      <3>4. f[set] = InitialIdx + SIZEOF_FPTraceAddr * (m + 1) + SIZEOF_PTR * y
        BY <3>2, <3>3 DEF InitialIdx, SIZEOF_FPTraceAddr, SIZEOF_PTR
      <3> QED
        BY <3>1, <3>2, <3>4
    <2>11. Cardinality(set) = m + 1
      OBVIOUS
    <2> QED
      BY <2>8, <2>10, <2>11 DEF Holds
  <1>5. Holds(N)
    <2> HIDE DEF T, Holds
    <2>1. \A k \in 0 .. Cardinality(N) : k \in T
      BY <1>0, <1>3, <1>4, InductionUpTo
    <2>2. Cardinality(N) \in T
      BY <1>0, <2>1
    <2> QED
      BY <2>2 DEF T
  <1>6. Below(N) = N \ {<<>>}
    BY Parents
  <1>7. Cardinality(N \ {<<>>}) = Cardinality(N) - 1
    BY <1>0, FS_RemoveElement
  <1>8. f[N] = InitialIdx + SIZEOF_FPTraceAddr * Cardinality(N) + SIZEOF_PTR * (Cardinality(N) - 1)
    BY <1>5, <1>6, <1>7
  <1>9. Cardinality(N) \in Nat /\ ReadBackSize(t) = f[N] /\ N = Nodes(t)
    BY <1>0, <1>1
  <1> HIDE DEF N
  <1> QED
    BY <1>8, <1>9 DEF InitialIdx, SIZEOF_FPTraceAddr, SIZEOF_PTR, NewNodeSize, INIT_CHILDREN

\* Read back, the tree fits.
Small(t) ==
  /\ Linked(t) /\ OnPaths(t)
  /\ ReadBackSize(t) \in Nat /\ ReadBackSize(t) < current_size

LEMMA SmallFields ==
  ASSUME NEW t, Linked(t), OnPaths(t)
  PROVE  /\ Cardinality(Nodes(t)) \in Nat \ {0}
         /\ ReadBackSize(t) = 48 * Cardinality(Nodes(t)) - 7
         /\ ReadBackSize(t) \in Nat
  <1>1. PICK n : n = Cardinality(Nodes(t))
    OBVIOUS
  <1>2. n \in Nat \ {0}
    BY <1>1, FS_CardinalityType, FS_EmptySet DEF Linked
  <1>3. ReadBackSize(t) = 48 * n - 7
    <2>1. ReadBackSize(t) = NewNodeSize * n - SIZEOF_PTR + InitialIdx
      BY <1>1, ReadBackExact
    <2> QED
      BY <1>2, <2>1 DEF NewNodeSize, SIZEOF_FPTraceAddr, SIZEOF_PTR, INIT_CHILDREN, InitialIdx
  <1> QED
    BY <1>1, <1>2, <1>3

\* Ticking off takes no memory.
LEMMA MarkedSmall ==
  ASSUME NEW t, Small(t), NEW s
  PROVE  Small(MarkVisited(t, s))
  <1>1. PICK m : m = MarkVisited(t, s)
    OBVIOUS
  <1>2. m.children = t.children
    BY <1>1 DEF MarkVisited
  <1>3. Linked(m) /\ OnPaths(m) /\ Nodes(m) = Nodes(t) /\ Linked(t) /\ OnPaths(t)
    BY <1>2 DEF Small, Linked, OnPaths, Nodes
  <1>4. ReadBackSize(m) = ReadBackSize(t)
    BY <1>3, SmallFields
  <1> QED
    BY <1>1, <1>3, <1>4 DEF Small

\* While the tree is built it takes at least what its nodes do.
Fits ==
  /\ idx \in Nat /\ idx < current_size
  /\ Small(tree) /\ Small(tree_bin)
  /\ pc = "counting" => idx >= InitialIdx + NewNodeSize * Cardinality(Nodes(tree))

LEMMA InitFits ==
  ASSUME current_size \in Int, current_size > InitialIdx + NewNodeSize, FPInit
  PROVE  Fits
  <1>1. InitialIdx + NewNodeSize = 49 /\ InitialIdx = 1 /\ NewNodeSize = 48
    BY DEF NewNodeSize, SIZEOF_FPTraceAddr, SIZEOF_PTR, INIT_CHILDREN, InitialIdx
  <1>2. idx = 49 /\ tree = NewTree /\ tree_bin = NewTree
    BY <1>1 DEF FPInit, Init
  <1>3. PICK t : t = NewTree
    OBVIOUS
  <1>4. Linked(t) /\ OnPaths(t) /\ Nodes(t) = {<<>>}
    BY <1>3, NewTreeFields
  <1>5. Cardinality(Nodes(t)) = 1
    BY <1>4, FS_Singleton
  <1>6. ReadBackSize(t) = 48 * 1 - 7
    BY <1>4, <1>5, SmallFields
  <1>7. Small(t)
    BY <1>1, <1>4, <1>6 DEF Small
  <1> QED
    BY <1>1, <1>2, <1>3, <1>5, <1>7 DEF Fits

LEMMA CountFits ==
  ASSUME NoRecursion, current_size \in Int, Fits, NEW stack \in Stacks, CountFP(stack)
  PROVE  Fits'
  <1>1. PICK r : r = InsertFPTrace(tree, idx, stack)
    OBVIOUS
  <1>2. tree' = r.tree /\ idx' = r.idx /\ r.idx < current_size /\ tree_bin' = tree_bin /\ pc = "counting"
    BY <1>1 DEF CountFP, Meets
  <1>3. Linked(tree) /\ OnPaths(tree) /\ idx \in Nat
    BY DEF Fits, Small
  <1>4. Linked(r.tree) /\ OnPaths(r.tree) /\ Room(tree, idx, r.tree, r.idx)
    <2>1. Inserted(tree, idx, stack, r)
      BY <1>1, <1>3, InsertedTree
    <2> QED
      BY <2>1 DEF Inserted
  <1>5. PICK n, m : n = Cardinality(Nodes(tree)) /\ m = Cardinality(Nodes(r.tree))
    OBVIOUS
  <1>6. n \in Nat /\ m \in Nat \ {0} /\ ReadBackSize(r.tree) = 48 * m - 7 /\ ReadBackSize(r.tree) \in Nat
    BY <1>3, <1>4, <1>5, SmallFields
  <1>7. InitialIdx = 1 /\ NewNodeSize = 48
    BY DEF NewNodeSize, SIZEOF_FPTraceAddr, SIZEOF_PTR, INIT_CHILDREN, InitialIdx
  <1>8. idx >= 1 + 48 * n
    BY <1>2, <1>5, <1>7 DEF Fits
  <1>9. r.idx \in Nat /\ r.idx >= idx + 48 * (m - n)
    BY <1>3, <1>4, <1>5, <1>7 DEF Room
  <1>10. r.idx >= 1 + 48 * m
    <2>1. PICK i \in Nat : i = r.idx
      BY <1>9
    <2> QED
      BY <1>3, <1>6, <1>8, <1>9, <2>1
  <1>11. ReadBackSize(r.tree) < current_size
    BY <1>2, <1>6, <1>9, <1>10
  <1>12. Small(r.tree)
    BY <1>4, <1>6, <1>11 DEF Small
  <1>13. Small(tree)' /\ Small(tree_bin)'
    BY <1>2, <1>12 DEF Fits, Small
  <1> QED
    BY <1>2, <1>5, <1>7, <1>9, <1>10, <1>13 DEF Fits

LEMMA NextFits ==
  ASSUME NoRecursion, KillDuringSerialize = FALSE, current_size \in Int, Fits, [FPNext]_<<vars, fpvars>>
  PROVE  Fits'
  <1>1. Small(tree) /\ Small(tree_bin) /\ idx \in Nat /\ idx < current_size
    BY DEF Fits
  <1>2. ASSUME tree' \in {tree, tree_bin}, tree_bin' \in {tree, tree_bin},
               idx' \in {idx, ReadBackSize(tree_bin)}, pc' # "counting"
        PROVE  Fits'
    BY <1>1, <1>2 DEF Fits, Small
  <1>3. ASSUME NEW stack \in Stacks, ExhaustMemory(stack) PROVE Fits'
    BY <1>3, <1>2 DEF ExhaustMemory
  <1>4. CASE WriteCount
    BY <1>4, <1>2 DEF WriteCount
  <1>5. CASE StartIteration
    BY <1>5, <1>2 DEF StartIteration
  <1>6. CASE ReachFP
    <2>1. idx' = idx /\ tree_bin' = tree_bin /\ pc' # "counting"
      BY <1>6 DEF ReachFP, PassBy, PassByTarget, Crash
    <2>2. tree' = tree \/ tree' = MarkVisited(tree, execution[pos])
      BY <1>6 DEF ReachFP, PassBy, PassByTarget, Crash
    <2>3. Small(tree)'
      BY <1>1, <2>2, MarkedSmall DEF Small
    <2> QED
      BY <1>1, <2>1, <2>3 DEF Fits, Small
  <1>7. CASE EndOfTarget
    BY <1>7, <1>2 DEF EndOfTarget
  <1>8. CASE Serialize
    BY <1>8, <1>2 DEF Serialize
  <1>9. CASE Timeout
    BY <1>9, <1>2 DEF Timeout
  <1>10. CASE Recover
    BY <1>10, <1>2 DEF Recover
  <1>11. CASE EndLoop
    BY <1>11, <1>2 DEF EndLoop
  <1>12. CASE UNCHANGED vars
    BY <1>12, <1>1 DEF vars, Fits, Small
  <1> QED
    BY <1>3, <1>4, <1>5, <1>6, <1>7, <1>8, <1>9, <1>10, <1>11, <1>12, EveryStep, CountFits DEF Step

(* The tool never outgrows the memory it was given for the tree: reading   *)
(* it back takes less than building it took (allocator.cpp:32), so no      *)
(* iteration can fail where the counting execution did not.                *)
THEOREM TreeAlwaysFits ==
  ASSUME NoRecursion, KillDuringSerialize = FALSE,
         current_size \in Int, current_size > InitialIdx + NewNodeSize
  PROVE  FPSpec => []TreeFits
  <1>1. FPInit => Fits
    BY InitFits
  <1>2. Fits /\ [FPNext]_<<vars, fpvars>> => Fits'
    BY NextFits
  <1>3. Fits => TreeFits
    BY DEF Fits, TreeFits
  <1> QED
    BY <1>1, <1>2, <1>3, PTL DEF FPSpec, FPNext
--------------------------------------------------------------------------
(* TypeOK.                                                                 *)

LEMMA GrownIsWellFormed ==
  ASSUME NEW t, Linked(t), OnPaths(t), t.visited \subseteq Nodes(t)
  PROVE  WellFormed(t)
  <1>1. <<>> \in Nodes(t) /\ \A n \in Nodes(t) : IsInjective(t.children[n])
    BY DEF Linked
  <1> QED
    BY <1>1, Parents DEF WellFormed

\* No execution passes over more failure points than it met.
Typed ==
  /\ pc \in {"counting", "looping", "running", "serializing", "recovering", "finished"}
  /\ Len(execution) <= MaxHits
  /\ uniq_fps \in 0 .. Len(execution)
  /\ target_fp \in Targets
  /\ pos \in 1 .. Len(execution) + 1
  /\ current_fp \in 0 .. pos - 1
  /\ fp_backtrace \in Stacks \cup {<<>>}
  /\ tested \in Seq(Stacks)

LEMMA InitTyped == FPInit => Typed
  BY HitsAssumption DEF FPInit, Init, Typed

LEMMA NextTyped ==
  ASSUME Ticked, Typed, [FPNext]_<<vars, fpvars>>
  PROVE  Typed'
  <1>1. execution \in Seq(Stacks) /\ Len(execution) \in Nat /\ MaxHits \in Nat
    BY HitsAssumption DEF Ticked
  <1>2. ASSUME NEW stack \in Stacks, CountFP(stack) PROVE Typed'
    <2>1. PICK k \in {0, 1} : uniq_fps' = uniq_fps + k
      BY <1>2 DEF CountFP
    <2>2. /\ Len(execution) < MaxHits /\ execution' = Append(execution, stack)
          /\ pc' = pc /\ target_fp' = target_fp /\ pos' = pos /\ current_fp' = current_fp
          /\ fp_backtrace' = fp_backtrace /\ tested' = tested
      BY <1>2 DEF CountFP, Meets
    <2>3. Len(execution') = Len(execution) + 1
      BY <1>1, <2>2
    <2> QED
      BY <1>1, <2>1, <2>2, <2>3 DEF Typed
  <1>3. ASSUME NEW stack \in Stacks, ExhaustMemory(stack) PROVE Typed'
    BY <1>1, <1>3 DEF ExhaustMemory, Typed
  <1>4. CASE WriteCount
    BY <1>4 DEF WriteCount, Typed
  <1>5. CASE StartIteration
    BY <1>1, <1>5 DEF StartIteration, Typed
  <1>6. CASE ReachFP
    <2>1. /\ execution' = execution /\ uniq_fps' = uniq_fps /\ target_fp' = target_fp /\ tested' = tested
          /\ pos <= Len(execution) /\ execution[pos] \in Stacks
      BY <1>1, <1>6 DEF ReachFP, Typed
    <2>2. \/ pc' = pc /\ pos' = pos + 1 /\ current_fp' \in {current_fp, current_fp + 1} /\ fp_backtrace' = fp_backtrace
          \/ pc' = "serializing" /\ pos' = pos /\ current_fp' = current_fp /\ fp_backtrace' = execution[pos]
      BY <1>6 DEF ReachFP, PassBy, PassByTarget, Crash
    <2> QED
      BY <1>1, <2>1, <2>2 DEF Typed
  <1>7. CASE EndOfTarget
    BY <1>7 DEF EndOfTarget, Typed
  <1>8. CASE Serialize
    BY <1>8 DEF Serialize, Typed
  <1>9. CASE Timeout
    BY <1>9 DEF Timeout, Typed
  <1>10. CASE Recover
    <2>1. tested' \in Seq(Stacks)
      <3>1. fp_backtrace = <<>> \/ fp_backtrace \in Stacks
        BY DEF Typed
      <3> QED
        BY <1>10, <3>1 DEF Recover, Typed
    <2> QED
      BY <1>10, <2>1 DEF Recover, Typed
  <1>11. CASE EndLoop
    BY <1>11 DEF EndLoop, Typed
  <1>12. CASE UNCHANGED vars
    BY <1>12 DEF vars, Typed
  <1> QED
    BY <1>2, <1>3, <1>4, <1>5, <1>6, <1>7, <1>8, <1>9, <1>10, <1>11, <1>12, EveryStep DEF Step

(* Both trees are always trees, in which every node but the root is the    *)
(* child of its parent, once, and everything else has its type.            *)
THEOREM TypesCorrect ==
  ASSUME ProperBacktraces, KillDuringSerialize = FALSE,
         current_size \in Int, current_size > InitialIdx + NewNodeSize
  PROVE  FPSpec => []TypeOK
  <1> DEFINE Inv == Ticked /\ Fits /\ Typed
  <1>1. FPInit => Inv
    BY InitTicked, InitFits, InitTyped
  <1>2. Inv /\ [FPNext]_<<vars, fpvars>> => Inv'
    BY NextTicked, NextFits, NextTyped DEF ProperBacktraces
  <1>3. Inv => TypeOK
    <2> SUFFICES ASSUME Inv PROVE TypeOK
      OBVIOUS
    <2>1. FilesIntact
      BY DEF FilesIntact
    <2>2. ASSUME NEW t \in {tree, tree_bin} PROVE WellFormed(t)
      <3>1. Linked(t) /\ OnPaths(t) /\ t.visited \subseteq Nodes(t)
        BY <2>1, NewTreeFields DEF Ticked, Grown, Exact
      <3> QED
        BY <3>1, GrownIsWellFormed
    <2>3. WellFormed(tree) /\ WellFormed(tree_bin)
      BY <2>2
    <2>4. execution \in Seq(Stacks) /\ fp \in Nat /\ idx \in Nat /\ Len(execution) \in Nat /\ MaxHits \in Nat
      BY HitsAssumption DEF Ticked, Fits
    <2> QED
      BY <2>3, <2>4 DEF TypeOK, Typed
  <1> QED
    BY <1>1, <1>2, <1>3, PTL DEF FPSpec, FPNext

(***************************************************************************)
(* Which instructions are failure points: one stands for all the stores    *)
(* since the last, and leaves no store without, whatever backtraces the    *)
(* target has, however much memory the tree is given and wherever          *)
(* instrumentation begins.                                                 *)
(***************************************************************************)

(* The inductive invariant.  StoresExposed says nothing of a store that no *)
(* fence has followed yet: the flag must remember that such a store exists *)
(* until a failure point or a fence with one comes.                        *)
Remembered == detect_all_fps /\ store = "unexposed" => performed_store_since_last_fp

Exposing == Remembered /\ StoresExposed

LEMMA InitExposing == FPInit => Exposing
  BY DEF FPInit, Exposing, Remembered, StoresExposed

(* What an instruction that is not a store makes of the last one.          *)
LEMMA RetireNoStore ==
  ASSUME NEW met, NEW orders, Retire(met, FALSE, orders),
         store = "unexposed" /\ orders /\ fi_enabled => met,
         met \in BOOLEAN, orders \in BOOLEAN
  PROVE  /\ store' \in {"exposed", store}
         /\ met \/ orders => store' = "exposed"
         /\ instruction' = instruction
  BY DEF Retire

LEMMA RetireStore ==
  ASSUME NEW met, Retire(met, TRUE, FALSE)
  PROVE  store' = "unexposed" /\ instruction' = instruction
  BY DEF Retire

(* A flush, an sfence or a non-temporal store is a failure point when      *)
(* there was a store since the last one, and only then forgets about it.   *)
LEMMA ExposingWrapper ==
  ASSUME Exposing, NEW kind, NEW stack, InstrumentFPsWrapper(kind, stack),
         performed_store_since_last_fp \in BOOLEAN
  PROVE  Exposing'
  <1> DEFINE met == performed_store_since_last_fp
  <1>1. detect_all_fps /\ fi_enabled /\ ~performed_store_since_last_fp'
    BY DEF InstrumentFPsWrapper, Flag
  <1>2. /\ store' \in {"exposed", store}
        /\ met => store' = "exposed"
        /\ instruction' = instruction
    <2>1. Retire(met, FALSE, kind = "sfence")
      BY DEF InstrumentFPsWrapper
    <2>2. store = "unexposed" => met
      BY <1>1 DEF Exposing, Remembered
    <2> HIDE DEF met
    <2>3. met \in BOOLEAN
      BY DEF met
    <2> QED
      BY <2>1, <2>2, <2>3, RetireNoStore
  <1>3. store' # "unexposed"
    BY <1>1, <1>2 DEF Exposing, Remembered
  <1> QED
    BY <1>2, <1>3 DEF Exposing, Remembered, StoresExposed

LEMMA ExposingRMW ==
  ASSUME Exposing, NEW pm \in BOOLEAN, NEW stack, RMWFPHandler(pm, stack),
         performed_store_since_last_fp \in BOOLEAN
  PROVE  Exposing'
  <1> DEFINE met == fi_enabled /\ (pm \/ performed_store_since_last_fp)
  <1>1. detect_all_fps /\ Retire(met, FALSE, TRUE)
    BY DEF RMWFPHandler
  <1>2. store = "unexposed" /\ fi_enabled => met
    BY <1>1 DEF Exposing, Remembered
  <1>3. met \in BOOLEAN
    OBVIOUS
  <1> HIDE DEF met
  <1>4. store' = "exposed" /\ instruction' = instruction
    BY <1>1, <1>2, <1>3, RetireNoStore
  <1> QED
    BY <1>4 DEF Exposing, Remembered, StoresExposed

LEMMA ExposingIgnoredRMW ==
  ASSUME Exposing, NEW pm \in BOOLEAN, IgnoredRMW(pm)
  PROVE  Exposing'
  <1>1. /\ performed_store_since_last_fp' = (performed_store_since_last_fp \/ pm)
        /\ Retire(FALSE, pm, FALSE)
    BY DEF IgnoredRMW, Flag
  <1>2. CASE pm
    <2>1. store' = "unexposed" /\ instruction' = instruction
      BY <1>1, <1>2, RetireStore
    <2> QED
      BY <1>1, <1>2, <2>1 DEF Exposing, Remembered, StoresExposed
  <1>3. CASE ~pm
    <2>1. store' = store /\ instruction' = instruction
      BY <1>1, <1>3 DEF Retire
    <2> QED
      BY <1>1, <1>3, <2>1 DEF Exposing, Remembered, StoresExposed, detect_all_fps
  <1> QED
    BY <1>2, <1>3

(* With one opcode for -target, only sfence promises anything: every       *)
(* sfence is a failure point.                                              *)
LEMMA ExposingOthers ==
  ASSUME Exposing, NEW kind, NEW stack, InstrumentOthers(kind, stack)
  PROVE  Exposing'
  <1>1. ~detect_all_fps /\ instruction' = instruction
    BY DEF InstrumentOthers, Retire
  <1>2. ~detect_all_fps'
    BY <1>1 DEF detect_all_fps
  <1>3. CASE instruction = "sfence"
    <2>1. store' # "fenced"
      BY <1>3 DEF InstrumentOthers, Retire, Exposing, StoresExposed
    <2> QED
      BY <1>2, <2>1 DEF Exposing, Remembered, StoresExposed
  <1>4. CASE instruction # "sfence"
    BY <1>1, <1>2, <1>4 DEF Exposing, Remembered, StoresExposed, detect_all_fps
  <1> QED
    BY <1>3, <1>4

LEMMA NextExposing ==
  ASSUME Exposing, performed_store_since_last_fp \in BOOLEAN,
         [ExecuteCounting \/ EndCounting \/ (CampaignNext /\ UNCHANGED fpvars)]_<<vars, fpvars>>
  PROVE  Exposing' /\ performed_store_since_last_fp' \in BOOLEAN
  <1>1. CASE Instrument
    BY <1>1 DEF Instrument, Exposing, Remembered, StoresExposed, detect_all_fps
  <1>2. CASE NonFPWriteHandler
    <2>1. performed_store_since_last_fp' = TRUE /\ Retire(FALSE, TRUE, FALSE)
      BY <1>2 DEF NonFPWriteHandler, Flag
    <2>2. store' = "unexposed" /\ instruction' = instruction
      BY <2>1, RetireStore
    <2> QED
      BY <2>1, <2>2 DEF Exposing, Remembered, StoresExposed
  <1>3. ASSUME NEW pm \in BOOLEAN, IgnoredRMW(pm)
        PROVE  Exposing' /\ performed_store_since_last_fp' \in BOOLEAN
    BY <1>3, ExposingIgnoredRMW DEF IgnoredRMW, Flag
  <1>4. ASSUME NEW stack, NEW kind, InstrumentFPsWrapper(kind, stack)
        PROVE  Exposing' /\ performed_store_since_last_fp' \in BOOLEAN
    BY <1>4, ExposingWrapper DEF InstrumentFPsWrapper, Flag
  <1>5. ASSUME NEW stack, NEW pm \in BOOLEAN, RMWFPHandler(pm, stack)
        PROVE  Exposing' /\ performed_store_since_last_fp' \in BOOLEAN
    BY <1>5, ExposingRMW DEF RMWFPHandler, Flag
  <1>6. ASSUME NEW stack, NEW kind, InstrumentOthers(kind, stack)
        PROVE  Exposing' /\ performed_store_since_last_fp' \in BOOLEAN
    BY <1>6, ExposingOthers DEF InstrumentOthers, Flag
  <1>7. ASSUME NEW stack, InstrumentStores(stack)
        PROVE  Exposing' /\ performed_store_since_last_fp' \in BOOLEAN
    <2>1. /\ instruction = "store" /\ instruction' = instruction
          /\ performed_store_since_last_fp' = performed_store_since_last_fp
      BY <1>7 DEF InstrumentStores, Retire, Flag
    <2> QED
      BY <2>1 DEF Exposing, Remembered, StoresExposed, detect_all_fps
  <1>8. CASE EndCounting
    BY <1>8 DEF EndCounting, Flag, Exposing, Remembered, StoresExposed
  <1>9. CASE UNCHANGED fpvars
    BY <1>9 DEF fpvars, Exposing, Remembered, StoresExposed, detect_all_fps
  <1> QED
    BY <1>1, <1>2, <1>3, <1>4, <1>5, <1>6, <1>7, <1>8, <1>9 DEF ExecuteCounting

(* With -target all, allrmw or sfence the target is crashed between every  *)
(* ordinary store to persistent memory and the fence that comes next, once *)
(* something is instrumented.                                              *)
THEOREM StoresAlwaysExposed == FPSpec => []StoresExposed
  <1> DEFINE inv == Exposing /\ performed_store_since_last_fp \in BOOLEAN
  <1>1. FPInit => inv
    BY InitExposing DEF FPInit
  <1>2. inv /\ [ExecuteCounting \/ EndCounting \/ (CampaignNext /\ UNCHANGED fpvars)]_<<vars, fpvars>> => inv'
    BY NextExposing
  <1>3. inv => StoresExposed
    BY DEF Exposing
  <1> QED
    BY <1>1, <1>2, <1>3, PTL DEF FPSpec
=============================================================================
