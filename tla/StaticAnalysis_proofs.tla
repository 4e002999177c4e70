-------------------------- MODULE StaticAnalysis_proofs ------------------------
(***************************************************************************)
(* What the static analysis takes from a function, for functions of any    *)
(* shape and length: the worklists of palantir leave behind the dominators *)
(* and postdominators their names promise, and the loops found with them   *)
(* are natural loops.  What it does with them: a region whose ends it      *)
(* found is closed when the function returns, and one that is opened in    *)
(* the block of the access is opened on every way to it, for its address.  *)
(***************************************************************************)
EXTENDS PatchedFunction, FiniteSetTheorems, SequenceTheorems, WellFoundedInduction, TLAPS

LEMMA LeastElement ==
  ASSUME NEW T, T \subseteq Nat, T # {}
  PROVE  \E n \in T : \A m \in T : n <= m
  <1> DEFINE less == {p \in Nat \X Nat : p[1] < p[2]}
  <1>1. IsWellFoundedOn(less, Nat)
    BY NatLessThanWellFounded DEF OpToRel
  <1>2. PICK n \in T : \A m \in T : <<m, n>> \notin less
    BY <1>1, WFMin
  <1>3. \A m \in T : ~(m < n)
    BY <1>2
  <1> QED
    BY <1>3

LEMMA UpFromZero ==
  ASSUME NEW T, 0 \in T, \A n \in Nat : n \in T => n + 1 \in T
  PROVE  \A n \in Nat : n \in T
  <1> SUFFICES ASSUME Nat \ T # {} PROVE FALSE
    OBVIOUS
  <1>1. PICK n \in Nat \ T : \A m \in Nat \ T : n <= m
    BY LeastElement
  <1>2. n - 1 \in Nat /\ n - 1 \in T
    BY <1>1
  <1> QED
    BY <1>1, <1>2

(***************************************************************************)
(* Sequences: what the pieces of one hold, the whole holds.                *)
(***************************************************************************)

LEMMA Joined ==
  ASSUME NEW S, NEW s \in Seq(S), NEW t \in Seq(S)
  PROVE  s \o t \in Seq(S) /\ ToSet(s \o t) = ToSet(s) \cup ToSet(t)
  <1>1. PICK a, b, q : a = Len(s) /\ b = Len(t) /\ q = s \o t
    OBVIOUS
  <1>2. a \in Nat /\ b \in Nat /\ q \in Seq(S) /\ DOMAIN q = 1 .. (a + b) /\ DOMAIN s = 1 .. a /\ DOMAIN t = 1 .. b
    BY <1>1
  <1>3. /\ \A i \in 1 .. a : q[i] = s[i] /\ i \in 1 .. (a + b)
        /\ \A i \in 1 .. b : q[a + i] = t[i] /\ a + i \in 1 .. (a + b)
    BY <1>1
  <1>4. \A i \in 1 .. (a + b) : i \in 1 .. a \/ (i - a \in 1 .. b /\ a + (i - a) = i)
    BY <1>2
  <1>5. ASSUME NEW x \in ToSet(q) PROVE x \in ToSet(s) \cup ToSet(t)
    <2>1. PICK i \in 1 .. (a + b) : x = q[i]
      BY <1>2, <1>5 DEF ToSet
    <2>2. CASE i \in 1 .. a
      BY <1>2, <1>3, <2>1, <2>2 DEF ToSet
    <2>3. CASE i - a \in 1 .. b /\ a + (i - a) = i
      <3>1. x = t[i - a]
        BY <1>3, <2>1, <2>3
      <3> QED
        BY <1>2, <2>3, <3>1 DEF ToSet
    <2> QED
      BY <1>4, <2>2, <2>3
  <1>6. ASSUME NEW x \in ToSet(s) \cup ToSet(t) PROVE x \in ToSet(q)
    BY <1>2, <1>3 DEF ToSet
  <1> QED
    BY <1>1, <1>2, <1>5, <1>6

(* A sequence of sequences in one.                                         *)
Flattens(seqs, f) ==
  f = [i \in 1 .. Len(seqs) |-> IF i = 1 THEN seqs[i] ELSE f[i - 1] \o seqs[i]]

LEMMA FlattenSteps ==
  ASSUME NEW S, NEW seqs \in Seq(Seq(S)), seqs # <<>>
  PROVE  \E f : Flattens(seqs, f) /\ FlattenSeq(seqs) = f[Len(seqs)]
  <1> DEFINE N == Len(seqs)
             Def(f, m) == f = [i \in 1 .. m |-> IF i = 1 THEN seqs[i] ELSE f[i - 1] \o seqs[i]]
             T == {m \in Nat : \E f : Def(f, m)}
  <1>0. N \in Nat \ {0}
    OBVIOUS
  <1>1. 0 \in T
    <2>1. PICK g : g = [i \in 1 .. 0 |-> seqs[i]]
      OBVIOUS
    <2>2. Def(g, 0)
      BY <2>1
    <2> HIDE DEF Def
    <2> QED
      BY <2>2
  <1>2. ASSUME NEW m \in Nat, m \in T PROVE m + 1 \in T
    <2>1. PICK g : Def(g, m)
      BY <1>2
    <2> DEFINE h == [i \in 1 .. m + 1 |-> IF i = 1 THEN seqs[i] ELSE g[i - 1] \o seqs[i]]
    <2>2. ASSUME NEW i \in 1 .. m PROVE g[i] = h[i]
      <3>1. g[i] = IF i = 1 THEN seqs[i] ELSE g[i - 1] \o seqs[i]
        BY <2>1
      <3>2. i \in 1 .. m + 1
        OBVIOUS
      <3>3. h[i] = IF i = 1 THEN seqs[i] ELSE g[i - 1] \o seqs[i]
        BY <3>2
      <3> HIDE DEF h
      <3> QED
        BY <3>1, <3>3
    <2>3. ASSUME NEW i \in 1 .. m + 1, i # 1 PROVE g[i - 1] = h[i - 1]
      <3>1. i - 1 \in 1 .. m
        BY <2>3
      <3> HIDE DEF h, Def
      <3> QED
        BY <2>2, <3>1
    <2>4. h = [i \in 1 .. m + 1 |-> IF i = 1 THEN seqs[i] ELSE h[i - 1] \o seqs[i]]
      <3> DEFINE k == [i \in 1 .. m + 1 |-> IF i = 1 THEN seqs[i] ELSE h[i - 1] \o seqs[i]]
      <3>1. \A i \in 1 .. m + 1 : h[i] = k[i]
        BY <2>3
      <3> QED
        BY <3>1
    <2>5. Def(h, m + 1)
      BY <2>4
    <2> HIDE DEF Def, h
    <2> QED
      BY <2>5
  <1>3. N \in T
    <2> HIDE DEF T
    <2> QED
      BY <1>0, <1>1, <1>2, UpFromZero
  <1>4. \E f : Flattens(seqs, f)
    BY <1>3 DEF Flattens
  <1>5. Flattens(seqs, CHOOSE f : Flattens(seqs, f))
    BY <1>4
  <1>6. FlattenSeq(seqs) = (CHOOSE f : Flattens(seqs, f))[N]
    BY <1>0 DEF FlattenSeq, Flattens
  <1> QED
    BY <1>5, <1>6

LEMMA FlattenHolds ==
  ASSUME NEW S, NEW seqs \in Seq(Seq(S))
  PROVE  /\ FlattenSeq(seqs) \in Seq(S)
         /\ ToSet(FlattenSeq(seqs)) = UNION {ToSet(seqs[i]) : i \in 1 .. Len(seqs)}
  <1>1. CASE seqs = <<>>
    <2>1. FlattenSeq(seqs) = <<>> /\ Len(seqs) = 0 /\ \A i : i \notin 1 .. 0
      BY <1>1 DEF FlattenSeq
    <2>2. ToSet(<<>>) = {} /\ <<>> \in Seq(S)
      BY DEF ToSet
    <2>3. UNION {ToSet(seqs[i]) : i \in 1 .. Len(seqs)} = {}
      BY <2>1
    <2> QED
      BY <2>1, <2>2, <2>3
  <1>2. CASE seqs # <<>>
    <2>1. PICK f : Flattens(seqs, f) /\ FlattenSeq(seqs) = f[Len(seqs)]
      BY <1>2, FlattenSteps
    <2> DEFINE N == Len(seqs)
               Good(m) == f[m] \in Seq(S) /\ ToSet(f[m]) = UNION {ToSet(seqs[i]) : i \in 1 .. m}
               T == {m \in Nat : m \in 1 .. N => Good(m)}
    <2>0. N \in Nat \ {0} /\ \A i \in 1 .. N : seqs[i] \in Seq(S)
      BY <1>2
    <2>2. 0 \in T
      OBVIOUS
    <2>3. ASSUME NEW m \in Nat, m \in T PROVE m + 1 \in T
      <3> SUFFICES ASSUME m + 1 \in 1 .. N PROVE Good(m + 1)
        OBVIOUS
      <3>1. CASE m = 0
        <4>1. f[1] = seqs[1]
          BY <2>0, <2>1 DEF Flattens
        <4>2. 1 .. 1 = {1} /\ 1 \in 1 .. N
          BY <2>0
        <4>3. ToSet(seqs[1]) = UNION {ToSet(seqs[i]) : i \in {1}}
          OBVIOUS
        <4> QED
          BY <2>0, <3>1, <4>1, <4>2, <4>3
      <3>2. CASE m # 0
        <4>1. m \in 1 .. N /\ Good(m)
          BY <2>3, <3>2
        <4>2. f[m + 1] = f[m] \o seqs[m + 1]
          <5>1. m + 1 # 1 /\ (m + 1) - 1 = m /\ m + 1 \in 1 .. Len(seqs)
            BY <3>2
          <5>2. f[m + 1] = IF m + 1 = 1 THEN seqs[m + 1] ELSE f[(m + 1) - 1] \o seqs[m + 1]
            BY <2>1, <5>1 DEF Flattens
          <5> QED
            BY <5>1, <5>2
        <4>5. f[m] \in Seq(S) /\ seqs[m + 1] \in Seq(S)
          BY <2>0, <4>1
        <4>6. f[m + 1] \in Seq(S) /\ ToSet(f[m + 1]) = ToSet(f[m]) \cup ToSet(seqs[m + 1])
          BY <4>2, <4>5, Joined
        <4>7. \A i : i \in 1 .. m + 1 <=> i \in 1 .. m \/ i = m + 1
          OBVIOUS
        <4>8. ToSet(f[m + 1]) = UNION {ToSet(seqs[i]) : i \in 1 .. m + 1}
          BY <4>1, <4>6, <4>7
        <4> QED
          BY <4>6, <4>8
      <3> HIDE DEF Good
      <3> QED
        BY <3>1, <3>2
    <2>4. N \in T
      <3> HIDE DEF T
      <3> QED
        BY <2>0, <2>2, <2>3, UpFromZero
    <2> QED
      BY <2>0, <2>1, <2>4
  <1> QED
    BY <1>1, <1>2

(* The same for a function on positions.                                   *)
LEMMA FlattenFunction ==
  ASSUME NEW S, NEW n \in Nat, NEW g \in [1 .. n -> Seq(S)]
  PROVE  /\ FlattenSeq(g) \in Seq(S)
         /\ ToSet(FlattenSeq(g)) = UNION {ToSet(g[i]) : i \in 1 .. n}
  <1>1. g \in Seq(Seq(S)) /\ Len(g) = n
    OBVIOUS
  <1> QED
    BY <1>1, FlattenHolds

LEMMA KeepHolds ==
  ASSUME NEW S, NEW s \in Seq(S), NEW N
  PROVE  KeepAt(s, N) \in Seq(S) /\ ToSet(KeepAt(s, N)) = {s[k] : k \in (DOMAIN s) \cap N}
  <1>0. Len(s) \in Nat /\ DOMAIN s = 1 .. Len(s) /\ \A i \in DOMAIN s : s[i] \in S
    OBVIOUS
  <1>1. PICK g : g = [k \in DOMAIN s |-> IF k \in N THEN <<s[k]>> ELSE <<>>]
    OBVIOUS
  <1>2. g = [k \in 1 .. Len(s) |-> g[k]]
    BY <1>0, <1>1
  <1>3. \A k \in 1 .. Len(s) : g[k] = IF k \in N THEN <<s[k]>> ELSE <<>>
    BY <1>0, <1>1
  <1>4. \A k \in 1 .. Len(s) : g[k] \in Seq(S) /\ ToSet(g[k]) = IF k \in N THEN {s[k]} ELSE {}
    <2>1. \A x \in S : <<x>> \in Seq(S) /\ ToSet(<<x>>) = {x}
      BY DEF ToSet
    <2>2. <<>> \in Seq(S) /\ ToSet(<<>>) = {}
      BY DEF ToSet
    <2> QED
      BY <1>0, <1>3, <2>1, <2>2
  <1>7. g \in [1 .. Len(s) -> Seq(S)]
    BY <1>2, <1>4
  <1>5. FlattenSeq(g) \in Seq(S) /\ ToSet(FlattenSeq(g)) = UNION {ToSet(g[k]) : k \in 1 .. Len(s)}
    BY <1>0, <1>7, FlattenFunction
  <1>6. UNION {ToSet(g[k]) : k \in 1 .. Len(s)} = {s[k] : k \in (DOMAIN s) \cap N}
    <2>1. ASSUME NEW x \in UNION {ToSet(g[k]) : k \in 1 .. Len(s)} PROVE x \in {s[k] : k \in (DOMAIN s) \cap N}
      BY <1>0, <1>4
    <2>2. ASSUME NEW x \in {s[k] : k \in (DOMAIN s) \cap N} PROVE x \in UNION {ToSet(g[k]) : k \in 1 .. Len(s)}
      <3>1. PICK k \in (DOMAIN s) \cap N : x = s[k]
        OBVIOUS
      <3>2. k \in 1 .. Len(s) /\ ToSet(g[k]) = {x}
        BY <1>0, <1>4, <3>1
      <3> QED
        BY <3>2
    <2> QED
      BY <2>1, <2>2
  <1> QED
    BY <1>1, <1>5, <1>6 DEF KeepAt

(***************************************************************************)
(* Closure is the least set that holds S and is closed under next.         *)
(***************************************************************************)

Closes(S, next, f) ==
  f = [n \in 0 .. Cardinality(Blocks) |-> IF n = 0 THEN S ELSE f[n - 1] \cup UNION {next[b] : b \in f[n - 1]}]

LEMMA ClosureSteps ==
  ASSUME NEW S, NEW next, IsFiniteSet(Blocks)
  PROVE  \E f : Closes(S, next, f) /\ Closure(S, next) = f[Cardinality(Blocks)]
  <1> DEFINE N == Cardinality(Blocks)
             Def(f, m) == f = [n \in 0 .. m |-> IF n = 0 THEN S ELSE f[n - 1] \cup UNION {next[b] : b \in f[n - 1]}]
             T == {m \in Nat : \E f : Def(f, m)}
  <1>0. N \in Nat
    BY FS_CardinalityType
  <1>1. 0 \in T
    <2>1. PICK g : g = [n \in 0 .. 0 |-> S]
      OBVIOUS
    <2>2. \A n \in 0 .. 0 : n = 0
      OBVIOUS
    <2>3. Def(g, 0)
      BY <2>1, <2>2
    <2> HIDE DEF Def
    <2> QED
      BY <2>3
  <1>2. ASSUME NEW m \in Nat, m \in T PROVE m + 1 \in T
    <2>1. PICK g : Def(g, m)
      BY <1>2
    <2> DEFINE h == [n \in 0 .. m + 1 |-> IF n = 0 THEN S ELSE g[n - 1] \cup UNION {next[b] : b \in g[n - 1]}]
    <2>2. ASSUME NEW i \in 0 .. m PROVE g[i] = h[i]
      <3>1. g[i] = IF i = 0 THEN S ELSE g[i - 1] \cup UNION {next[b] : b \in g[i - 1]}
        BY <2>1
      <3>2. i \in 0 .. m + 1
        OBVIOUS
      <3>3. h[i] = IF i = 0 THEN S ELSE g[i - 1] \cup UNION {next[b] : b \in g[i - 1]}
        BY <3>2
      <3> HIDE DEF h
      <3> QED
        BY <3>1, <3>3
    <2>3. ASSUME NEW i \in 0 .. m + 1, i # 0 PROVE g[i - 1] = h[i - 1]
      <3>1. i - 1 \in 0 .. m
        BY <2>3
      <3> HIDE DEF h, Def
      <3> QED
        BY <2>2, <3>1
    <2>4. h = [i \in 0 .. m + 1 |-> IF i = 0 THEN S ELSE h[i - 1] \cup UNION {next[b] : b \in h[i - 1]}]
      <3> DEFINE k == [i \in 0 .. m + 1 |-> IF i = 0 THEN S ELSE h[i - 1] \cup UNION {next[b] : b \in h[i - 1]}]
      <3>1. \A i \in 0 .. m + 1 : h[i] = k[i]
        BY <2>3
      <3> QED
        BY <3>1
    <2>5. Def(h, m + 1)
      BY <2>4
    <2> HIDE DEF Def, h
    <2> QED
      BY <2>5
  <1>3. N \in T
    <2> HIDE DEF T
    <2> QED
      BY <1>0, <1>1, <1>2, UpFromZero
  <1>4. \E f : Closes(S, next, f)
    BY <1>3 DEF Closes
  <1>5. Closes(S, next, CHOOSE f : Closes(S, next, f))
    BY <1>4
  <1>6. Closure(S, next) = (CHOOSE f : Closes(S, next, f))[N]
    BY DEF Closure, Closes
  <1> QED
    BY <1>5, <1>6

LEMMA ClosureLeast ==
  ASSUME IsFiniteSet(Blocks), NEW next \in [Blocks -> SUBSET Blocks], NEW S \in SUBSET Blocks
  PROVE  /\ S \subseteq Closure(S, next) /\ Closure(S, next) \subseteq Blocks
         /\ \A b \in Closure(S, next) : next[b] \subseteq Closure(S, next)
         /\ \A T : S \subseteq T /\ (\A b \in T \cap Blocks : next[b] \subseteq T) => Closure(S, next) \subseteq T
  <1>1. PICK f : Closes(S, next, f) /\ Closure(S, next) = f[Cardinality(Blocks)]
    BY ClosureSteps
  <1> DEFINE N == Cardinality(Blocks)
  <1>0. N \in Nat
    BY FS_CardinalityType
  <1>2. f[0] = S
    BY <1>0, <1>1 DEF Closes
  <1>3. ASSUME NEW n \in Nat, n + 1 <= N PROVE f[n + 1] = f[n] \cup UNION {next[b] : b \in f[n]}
    <2>1. n + 1 \in 0 .. N /\ n + 1 # 0 /\ (n + 1) - 1 = n
      BY <1>0, <1>3
    <2>2. f[n + 1] = IF n + 1 = 0 THEN S ELSE f[(n + 1) - 1] \cup UNION {next[b] : b \in f[(n + 1) - 1]}
      BY <1>1, <2>1 DEF Closes
    <2> QED
      BY <2>1, <2>2
  <1> DEFINE IsClosed(U) == \A b \in U : next[b] \subseteq U
             Grows(n) == f[n] \subseteq Blocks /\ S \subseteq f[n] /\ (IsClosed(f[n]) \/ Cardinality(f[n]) >= n)
             G == {n \in Nat : n <= N => Grows(n)}
  <1>4. 0 \in G
    <2>1. IsFiniteSet(S) /\ Cardinality(S) \in Nat
      BY FS_Subset, FS_CardinalityType
    <2> QED
      BY <1>2, <2>1
  <1>5. ASSUME NEW n \in Nat, n \in G PROVE n + 1 \in G
    <2> SUFFICES ASSUME n + 1 <= N PROVE Grows(n + 1)
      OBVIOUS
    <2>1. Grows(n)
      BY <1>0, <1>5
    <2>2. f[n + 1] = f[n] \cup UNION {next[b] : b \in f[n]}
      BY <1>3
    <2>3. f[n + 1] \subseteq Blocks /\ f[n] \subseteq f[n + 1]
      BY <2>1, <2>2
    <2>4. CASE IsClosed(f[n])
      <3>1. f[n + 1] = f[n]
        BY <2>2, <2>4
      <3> QED
        BY <2>1, <2>4, <3>1
    <2>5. CASE ~IsClosed(f[n])
      <3>1. f[n + 1] # f[n]
        BY <2>2, <2>5
      <3>2. IsFiniteSet(f[n]) /\ IsFiniteSet(f[n + 1]) /\ Cardinality(f[n]) \in Nat /\ Cardinality(f[n + 1]) \in Nat
        BY <2>1, <2>3, FS_Subset, FS_CardinalityType
      <3>3. Cardinality(f[n]) < Cardinality(f[n + 1])
        BY <2>3, <3>1, <3>2, FS_Subset
      <3>4. Cardinality(f[n]) >= n
        BY <2>1, <2>5
      <3>5. Cardinality(f[n + 1]) >= n + 1
        BY <3>2, <3>3, <3>4
      <3> QED
        BY <2>1, <2>3, <3>5
    <2> QED
      BY <2>4, <2>5
  <1>6. Grows(N)
    <2>1. N \in G
      <3> HIDE DEF G
      <3> QED
        BY <1>0, <1>4, <1>5, UpFromZero
    <2> QED
      BY <1>0, <2>1
  <1>7. IsClosed(f[N])
    <2>1. CASE Cardinality(f[N]) >= N
      <3>1. f[N] \subseteq Blocks /\ Cardinality(f[N]) <= N /\ Cardinality(f[N]) \in Nat
        BY <1>6, FS_Subset, FS_CardinalityType
      <3>2. Cardinality(f[N]) = N
        BY <1>0, <2>1, <3>1
      <3>3. f[N] = Blocks
        BY <3>1, <3>2, FS_Subset
      <3> QED
        BY <3>3
    <2> QED
      BY <1>6, <2>1
  <1>8. ASSUME NEW T, S \subseteq T, \A b \in T \cap Blocks : next[b] \subseteq T PROVE f[N] \subseteq T
    <2> DEFINE H == {n \in Nat : n <= N => f[n] \subseteq T /\ f[n] \subseteq Blocks}
    <2>1. 0 \in H
      BY <1>2, <1>8
    <2>2. ASSUME NEW n \in Nat, n \in H PROVE n + 1 \in H
      <3> SUFFICES ASSUME n + 1 <= N PROVE f[n + 1] \subseteq T /\ f[n + 1] \subseteq Blocks
        OBVIOUS
      <3>1. f[n] \subseteq T /\ f[n] \subseteq Blocks
        BY <1>0, <2>2
      <3>2. f[n + 1] = f[n] \cup UNION {next[b] : b \in f[n]}
        BY <1>3
      <3> QED
        BY <1>8, <3>1, <3>2
    <2>3. N \in H
      <3> HIDE DEF H
      <3> QED
        BY <1>0, <2>1, <2>2, UpFromZero
    <2> QED
      BY <1>0, <2>3
  <1> QED
    BY <1>1, <1>6, <1>7, <1>8

(***************************************************************************)
(* Function::BuildCFG makes a graph: its blocks are finitely many, edges   *)
(* join blocks, and the predecessors are the inverse of the successors.    *)
(***************************************************************************)

IsGraph(g) ==
  LET blocks == ToSet(g.blocks)
  IN  /\ g.blocks \in Seq(blocks) /\ g.blocks # <<>> /\ IsFiniteSet(blocks)
      /\ g.succ \in [blocks -> Seq(blocks)]
      /\ g.pred \in [blocks -> Seq(blocks)]
      /\ \A a, b \in blocks : a \in ToSet(g.pred[b]) <=> b \in ToSet(g.succ[a])

Addresses == Nat \ {0}

LEMMA ProgramShape ==
  ASSUME NEW p \in Programs
  PROVE  /\ Len(p) \in Nat \ {0} /\ DOMAIN p = 1 .. Len(p)
         /\ \A i \in 1 .. Len(p) : p[i].op \in Jumps => p[i].target \in Addresses
  <1>1. p \in Seq(ToSet(p)) /\ p # <<>> /\ \A i \in DOMAIN p : p[i].op \in Jumps => p[i].target \in Addresses
    BY ProgramsAssumption DEF Addresses
  <1> QED
    BY <1>1

LEMMA EdgesAreAddresses ==
  ASSUME NEW p \in Programs, NEW i \in DOMAIN p
  PROVE  Edges(p, i) \in Seq(Addresses)
  <1>1. i \in Nat /\ (p[i].op \in Jumps => p[i].target \in Addresses)
    BY ProgramShape
  <1>2. PICK a, b : /\ a = (IF has_fallthrough(p, i) THEN <<i + 1>> ELSE <<>>)
                    /\ b = (IF p[i].op \in Jumps THEN <<p[i].target>> ELSE <<>>)
    OBVIOUS
  <1>3. \A x \in Addresses : <<x>> \in Seq(Addresses)
    OBVIOUS
  <1>4. a \in Seq(Addresses) /\ b \in Seq(Addresses)
    <2>1. i + 1 \in Addresses /\ <<>> \in Seq(Addresses)
      BY <1>1 DEF Addresses
    <2> QED
      BY <1>1, <1>2, <1>3, <2>1
  <1>5. Edges(p, i) = a \o b
    BY <1>2 DEF Edges
  <1> QED
    BY <1>4, <1>5

(* The leader of an instruction is the last before it.                     *)
LEMMA LeaderOf ==
  ASSUME NEW p, NEW i \in Nat \ {0}
  PROVE  /\ Leader(p, i) \in 1 .. i /\ IsLeader(p, Leader(p, i))
         /\ \A k \in (Leader(p, i) + 1) .. i : ~IsLeader(p, k)
  <1> DEFINE T == {i - l : l \in {k \in 1 .. i : IsLeader(p, k)}}
             IsIt(l) == IsLeader(p, l) /\ \A k \in (l + 1) .. i : ~IsLeader(p, k)
  <1>1. i - 1 \in T
    <2>1. 1 \in 1 .. i /\ IsLeader(p, 1)
      BY DEF IsLeader
    <2> QED
      BY <2>1
  <1>2. T \subseteq Nat
    OBVIOUS
  <1>3. PICK n \in T : \A m \in T : n <= m
    <2> HIDE DEF T
    <2> QED
      BY <1>1, <1>2, LeastElement
  <1>4. PICK l \in 1 .. i : IsLeader(p, l) /\ n = i - l
    BY <1>3
  <1>5. IsIt(l)
    <2>1. ASSUME NEW k \in (l + 1) .. i, IsLeader(p, k) PROVE FALSE
      <3>1. k \in 1 .. i
        OBVIOUS
      <3>2. i - k \in T
        BY <2>1, <3>1
      <3>3. i - l <= i - k
        BY <1>3, <1>4, <3>2
      <3> QED
        BY <3>3
    <2> QED
      BY <1>4, <2>1
  <1>6. \E x \in 1 .. i : IsIt(x)
    BY <1>5
  <1>7. Leader(p, i) = CHOOSE x \in 1 .. i : IsIt(x)
    BY DEF Leader
  <1> HIDE DEF IsIt
  <1>8. Leader(p, i) \in 1 .. i /\ IsIt(Leader(p, i))
    BY <1>6, <1>7
  <1> QED
    BY <1>8 DEF IsIt

(* An instruction that ends a block is the last of its own.                *)
LEMMA LastOfItsBlock ==
  ASSUME NEW p \in Programs, NEW i \in DOMAIN p, EndsBlock(p, i)
  PROVE  i \in Insts(p, Leader(p, i)) /\ LastInst(p, Leader(p, i)) = i
  <1>1. i \in Nat \ {0} /\ DOMAIN p = 1 .. Len(p) /\ Len(p) \in Nat
    BY ProgramShape
  <1>2. Leader(p, i) \in 1 .. i
    BY <1>1, LeaderOf
  <1>3. i \in Insts(p, Leader(p, i))
    BY <1>1, <1>2 DEF Insts
  <1>4. ASSUME NEW j \in Insts(p, Leader(p, i)) PROVE j <= i
    <2>1. j \in DOMAIN p /\ j \in Nat \ {0} /\ Leader(p, j) = Leader(p, i)
      BY <1>1 DEF Insts
    <2>2. \A k \in (Leader(p, i) + 1) .. j : ~IsLeader(p, k)
      BY <2>1, LeaderOf
    <2>3. IsLeader(p, i + 1)
      <3>1. (i + 1) - 1 = i
        BY <1>1
      <3> QED
        BY <3>1 DEF IsLeader
    <2>4. i + 1 \notin (Leader(p, i) + 1) .. j
      BY <2>2, <2>3
    <2> QED
      BY <1>1, <1>2, <2>1, <2>4
  <1>5. \A j \in Insts(p, Leader(p, i)) : (\A k \in Insts(p, Leader(p, i)) : k <= j) => j = i
    <2>1. \A j \in Insts(p, Leader(p, i)) : j \in Nat
      BY <1>1 DEF Insts
    <2> QED
      BY <1>1, <1>3, <1>4, <2>1
  <1>6. LastInst(p, Leader(p, i)) = CHOOSE j \in Insts(p, Leader(p, i)) : \A k \in Insts(p, Leader(p, i)) : k <= j
    BY DEF LastInst
  <1> QED
    BY <1>3, <1>4, <1>5, <1>6

LEMMA LastInstIn ==
  ASSUME NEW p \in Programs, NEW b, Insts(p, b) # {}
  PROVE  LastInst(p, b) \in Insts(p, b)
  <1>1. PICK n : n = Len(p) /\ n \in Nat /\ DOMAIN p = 1 .. n
    BY ProgramShape
  <1> DEFINE T == {n - i : i \in Insts(p, b)}
  <1>2. \A i \in Insts(p, b) : i \in 1 .. n
    BY <1>1 DEF Insts
  <1>3. PICK m \in T : \A k \in T : m <= k
    <2>1. T \subseteq Nat /\ T # {}
      BY <1>1, <1>2
    <2> HIDE DEF T
    <2> QED
      BY <2>1, LeastElement
  <1>4. PICK i \in Insts(p, b) : m = n - i
    BY <1>3
  <1>5. \A j \in Insts(p, b) : j <= i
    <2>1. \A j \in Insts(p, b) : n - i <= n - j
      BY <1>3, <1>4
    <2> QED
      BY <1>1, <1>2, <2>1
  <1>6. LastInst(p, b) = CHOOSE j \in Insts(p, b) : \A k \in Insts(p, b) : k <= j
    BY DEF LastInst
  <1> QED
    BY <1>4, <1>5, <1>6

(* The addresses a block is made for.                                      *)
LEMMA NewBlocksHold ==
  ASSUME NEW p \in Programs
  PROVE  /\ NewBlocks(p) \in Seq(Addresses)
         /\ \A x : x \in ToSet(NewBlocks(p)) <=>
              \E i \in DOMAIN p : (x = i /\ IsLeader(p, i)) \/ (EndsBlock(p, i) /\ x \in ToSet(Edges(p, i)))
  <1>1. PICK n : n = Len(p) /\ n \in Nat /\ DOMAIN p = 1 .. n
    BY ProgramShape
  <1> DEFINE own(i) == IF IsLeader(p, i) THEN <<i>> ELSE <<>>
             ahead(i) == IF EndsBlock(p, i) THEN Edges(p, i) ELSE <<>>
  <1>2. PICK g : g = [i \in 1 .. n |-> own(i) \o ahead(i)]
    OBVIOUS
  <1>3. NewBlocks(p) = FlattenSeq(g)
    BY <1>1, <1>2 DEF NewBlocks
  <1>4. ASSUME NEW i \in 1 .. n
        PROVE  /\ g[i] \in Seq(Addresses)
               /\ \A x : x \in ToSet(g[i]) <=> (x = i /\ IsLeader(p, i)) \/ (EndsBlock(p, i) /\ x \in ToSet(Edges(p, i)))
    <2>1. <<>> \in Seq(Addresses) /\ ToSet(<<>>) = {}
      BY DEF ToSet
    <2>2. i \in Addresses
      BY DEF Addresses
    <2>3. <<i>> \in Seq(Addresses) /\ ToSet(<<i>>) = {i}
      BY <2>2 DEF ToSet
    <2>4. own(i) \in Seq(Addresses) /\ ToSet(own(i)) = IF IsLeader(p, i) THEN {i} ELSE {}
      BY <2>1, <2>3
    <2>5. ahead(i) \in Seq(Addresses) /\ ToSet(ahead(i)) = IF EndsBlock(p, i) THEN ToSet(Edges(p, i)) ELSE {}
      BY <1>1, <2>1, EdgesAreAddresses
    <2>6. g[i] = own(i) \o ahead(i)
      BY <1>2
    <2> HIDE DEF own, ahead
    <2>7. g[i] \in Seq(Addresses) /\ ToSet(g[i]) = ToSet(own(i)) \cup ToSet(ahead(i))
      BY <2>4, <2>5, <2>6, Joined
    <2> QED
      BY <2>4, <2>5, <2>7
  <1>5. g = [i \in 1 .. n |-> g[i]]
    BY <1>2
  <1> HIDE DEF own, ahead
  <1>9. g \in [1 .. n -> Seq(Addresses)]
    BY <1>4, <1>5
  <1>6. FlattenSeq(g) \in Seq(Addresses) /\ ToSet(FlattenSeq(g)) = UNION {ToSet(g[i]) : i \in 1 .. n}
    BY <1>1, <1>9, FlattenFunction
  <1>7. \A x : x \in UNION {ToSet(g[i]) : i \in 1 .. n} <=> \E i \in 1 .. n : x \in ToSet(g[i])
    OBVIOUS
  <1> QED
    BY <1>1, <1>3, <1>4, <1>6, <1>7

(* Every element has a first occurrence.                                   *)
LEMMA FirstOccurrences ==
  ASSUME NEW S, NEW s \in Seq(S)
  PROVE  ToSet(KeepAt(s, {k \in DOMAIN s : \A j \in 1 .. (k - 1) : s[j] # s[k]})) = ToSet(s)
  <1> DEFINE F == {k \in DOMAIN s : \A j \in 1 .. (k - 1) : s[j] # s[k]}
  <1>0. Len(s) \in Nat /\ DOMAIN s = 1 .. Len(s)
    OBVIOUS
  <1>1. ToSet(KeepAt(s, F)) = {s[k] : k \in (DOMAIN s) \cap F}
    BY KeepHolds
  <1>2. ASSUME NEW x \in ToSet(s) PROVE \E k \in F : x = s[k]
    <2> DEFINE T == {k \in DOMAIN s : s[k] = x}
    <2>1. T \subseteq Nat /\ T # {}
      BY <1>0, <1>2 DEF ToSet
    <2>2. PICK k \in T : \A m \in T : k <= m
      <3> HIDE DEF T
      <3> QED
        BY <2>1, LeastElement
    <2>3. ASSUME NEW j \in 1 .. (k - 1), s[j] = s[k] PROVE FALSE
      <3>1. j \in DOMAIN s /\ j < k /\ k \in Nat /\ j \in Nat
        BY <1>0, <2>2
      <3>2. j \in T
        BY <2>2, <2>3, <3>1
      <3> QED
        BY <2>2, <3>1, <3>2
    <2> QED
      BY <2>2, <2>3
  <1>3. \A x : x \in ToSet(s) <=> \E k \in DOMAIN s : x = s[k]
    BY DEF ToSet
  <1>4. \A k \in F : k \in DOMAIN s
    OBVIOUS
  <1> HIDE DEF F
  <1>5. {s[k] : k \in (DOMAIN s) \cap F} = ToSet(s)
    BY <1>2, <1>3, <1>4
  <1> QED
    BY <1>1, <1>5 DEF F

LEMMA BuildsGraph ==
  ASSUME NEW p \in Programs
  PROVE  IsGraph(BuildCFG(p))
  <1> DEFINE new      == NewBlocks(p)
             seq      == KeepAt(new, {k \in DOMAIN new : \A j \in 1 .. (k - 1) : new[j] # new[k]})
             next(b)  == IF Insts(p, b) = {} \/ ~EndsBlock(p, LastInst(p, b)) THEN <<>> ELSE Edges(p, LastInst(p, b))
             froms(i, b) == KeepAt([n \in DOMAIN Edges(p, i) |-> Leader(p, i)],
                                  {n \in DOMAIN Edges(p, i) : EndsBlock(p, i) /\ Edges(p, i)[n] = b})
             into(b)  == FlattenSeq([i \in DOMAIN p |-> froms(i, b)])
  <1>1. PICK bs, g : bs = ToSet(seq) /\ g = BuildCFG(p)
    OBVIOUS
  <1>2. g = [blocks |-> seq, succ |-> [b \in bs |-> next(b)], pred |-> [b \in bs |-> into(b)]]
    BY <1>1 DEF BuildCFG
  <1>3. PICK n : n = Len(p) /\ n \in Nat \ {0} /\ DOMAIN p = 1 .. n
    BY ProgramShape
  <1>4. new \in Seq(Addresses) /\ bs = ToSet(new) /\ seq \in Seq(Addresses)
    BY <1>1, NewBlocksHold, FirstOccurrences, KeepHolds
  <1>5. /\ \A i \in DOMAIN p : IsLeader(p, i) => i \in bs
        /\ \A i \in DOMAIN p : EndsBlock(p, i) => ToSet(Edges(p, i)) \subseteq bs
        /\ bs \subseteq Addresses
    <2>1. bs \subseteq Addresses
      BY <1>4 DEF ToSet
    <2>2. \A x : x \in bs <=>
              \E i \in DOMAIN p : (x = i /\ IsLeader(p, i)) \/ (EndsBlock(p, i) /\ x \in ToSet(Edges(p, i)))
      BY <1>4, NewBlocksHold
    <2> HIDE DEF new, seq, next, into, froms
    <2> QED
      BY <2>1, <2>2
  <1> HIDE DEF seq, new
  <1>6. seq \in Seq(bs) /\ seq # <<>> /\ IsFiniteSet(bs)
    <2>1. Len(seq) \in Nat /\ DOMAIN seq = 1 .. Len(seq) /\ seq = [i \in 1 .. Len(seq) |-> seq[i]]
      BY <1>4
    <2>2. bs = {seq[i] : i \in 1 .. Len(seq)}
      BY <1>1, <2>1 DEF ToSet
    <2>3. seq \in Seq(bs)
      BY <2>1, <2>2
    <2>4. seq \in Surjection(1 .. Len(seq), bs)
      BY <2>1, <2>2 DEF Surjection
    <2>5. IsFiniteSet(bs)
      BY <2>1, <2>4, FS_Surjection, FS_Interval
    <2>6. 1 \in bs
      BY <1>3, <1>5 DEF IsLeader
    <2> QED
      BY <2>1, <2>2, <2>3, <2>5, <2>6
  <1>7. ASSUME NEW i \in DOMAIN p
        PROVE  Leader(p, i) \in bs /\ Leader(p, i) \in 1 .. i
    <2>1. i \in Nat \ {0} /\ \A l \in 1 .. i : l \in DOMAIN p
      BY <1>3
    <2>2. Leader(p, i) \in 1 .. i /\ IsLeader(p, Leader(p, i))
      BY <2>1, LeaderOf
    <2> QED
      BY <1>5, <2>1, <2>2
  <1>8. ASSUME NEW b \in bs
        PROVE  next(b) \in Seq(bs)
    <2>1. CASE Insts(p, b) = {} \/ ~EndsBlock(p, LastInst(p, b))
      BY <2>1
    <2>2. CASE Insts(p, b) # {} /\ EndsBlock(p, LastInst(p, b))
      <3>1. LastInst(p, b) \in DOMAIN p
        BY <2>2, LastInstIn DEF Insts
      <3>2. Edges(p, LastInst(p, b)) \in Seq(Addresses) /\ ToSet(Edges(p, LastInst(p, b))) \subseteq bs
        BY <1>5, <2>2, <3>1, EdgesAreAddresses
      <3>3. Edges(p, LastInst(p, b)) \in Seq(bs)
        BY <3>2 DEF ToSet
      <3> QED
        BY <2>2, <3>3
    <2> QED
      BY <2>1, <2>2
  <1>9. ASSUME NEW b \in bs, NEW i \in DOMAIN p
        PROVE  /\ froms(i, b) \in Seq(bs)
               /\ \A a : a \in ToSet(froms(i, b)) <=> a = Leader(p, i) /\ EndsBlock(p, i) /\ b \in ToSet(Edges(p, i))
    <2>1. PICK e : e = Edges(p, i) /\ e \in Seq(Addresses)
      BY EdgesAreAddresses
    <2>2. Len(e) \in Nat /\ DOMAIN e = 1 .. Len(e)
      BY <2>1
    <2> DEFINE s == [n_1 \in DOMAIN e |-> Leader(p, i)]
               N == {n_1 \in DOMAIN e : EndsBlock(p, i) /\ e[n_1] = b}
    <2>3. s \in Seq(bs) /\ DOMAIN s = DOMAIN e /\ \A k \in DOMAIN e : s[k] = Leader(p, i)
      BY <1>7, <2>2
    <2>4. froms(i, b) = KeepAt(s, N)
      BY <2>1
    <2>5. \A k : k \in N <=> k \in DOMAIN e /\ EndsBlock(p, i) /\ e[k] = b
      OBVIOUS
    <2> HIDE DEF s, N, froms
    <2>6. KeepAt(s, N) \in Seq(bs) /\ ToSet(KeepAt(s, N)) = {s[k] : k \in (DOMAIN s) \cap N}
      BY <2>3, KeepHolds
    <2>7. \A a : a \in {s[k] : k \in (DOMAIN s) \cap N} <=> a = Leader(p, i) /\ EndsBlock(p, i) /\ \E k \in DOMAIN e : e[k] = b
      BY <2>3, <2>5
    <2>8. b \in ToSet(e) <=> \E k \in DOMAIN e : e[k] = b
      BY DEF ToSet
    <2> QED
      BY <2>1, <2>4, <2>6, <2>7, <2>8
  <1>10. ASSUME NEW b \in bs
         PROVE  /\ into(b) \in Seq(bs)
                /\ \A a : a \in ToSet(into(b)) <=>
                     \E i \in DOMAIN p : a = Leader(p, i) /\ EndsBlock(p, i) /\ b \in ToSet(Edges(p, i))
    <2>1. PICK f : f = [i \in 1 .. n |-> froms(i, b)]
      OBVIOUS
    <2>2. f = [i \in 1 .. n |-> f[i]] /\ \A i \in 1 .. n : f[i] = froms(i, b)
      BY <2>1
    <2>3. into(b) = FlattenSeq(f)
      BY <1>3, <2>1
    <2> HIDE DEF froms, into
    <2>4. f \in [1 .. n -> Seq(bs)]
      BY <1>3, <1>9, <2>2
    <2>5. FlattenSeq(f) \in Seq(bs) /\ ToSet(FlattenSeq(f)) = UNION {ToSet(f[i]) : i \in 1 .. n}
      BY <1>3, <2>4, FlattenFunction
    <2>6. \A a : a \in UNION {ToSet(f[i]) : i \in 1 .. n} <=> \E i \in 1 .. n : a \in ToSet(f[i])
      OBVIOUS
    <2>7. \A i \in 1 .. n : \A a : a \in ToSet(f[i]) <=> a = Leader(p, i) /\ EndsBlock(p, i) /\ b \in ToSet(Edges(p, i))
      BY <1>3, <1>9, <2>2
    <2>8. \A a : a \in ToSet(into(b)) <=> \E i \in 1 .. n : a \in ToSet(f[i])
      BY <2>3, <2>5, <2>6
    <2>9. ASSUME NEW a
          PROVE  a \in ToSet(into(b)) <=> \E i \in 1 .. n : a = Leader(p, i) /\ EndsBlock(p, i) /\ b \in ToSet(Edges(p, i))
      BY <2>7, <2>8
    <2> QED
      BY <1>3, <2>3, <2>5, <2>9
  <1>11. ASSUME NEW a \in bs, NEW b \in bs
         PROVE  a \in ToSet(into(b)) <=> b \in ToSet(next(a))
    <2>1. ASSUME NEW i \in DOMAIN p, a = Leader(p, i), EndsBlock(p, i), b \in ToSet(Edges(p, i))
          PROVE  b \in ToSet(next(a))
      <3>1. Insts(p, a) # {} /\ LastInst(p, a) = i
        BY <2>1, LastOfItsBlock
      <3>2. next(a) = Edges(p, i)
        BY <2>1, <3>1
      <3> QED
        BY <2>1, <3>2
    <2>2. ASSUME b \in ToSet(next(a))
          PROVE  \E i \in DOMAIN p : a = Leader(p, i) /\ EndsBlock(p, i) /\ b \in ToSet(Edges(p, i))
      <3>1. ToSet(<<>>) = {}
        BY DEF ToSet
      <3>2. Insts(p, a) # {} /\ EndsBlock(p, LastInst(p, a)) /\ next(a) = Edges(p, LastInst(p, a))
        BY <2>2, <3>1
      <3>3. LastInst(p, a) \in DOMAIN p /\ Leader(p, LastInst(p, a)) = a
        BY <3>2, LastInstIn DEF Insts
      <3> QED
        BY <2>2, <3>2, <3>3
    <2> HIDE DEF into, next
    <2> QED
      BY <1>10, <2>1, <2>2
  <1> HIDE DEF next, into, froms
  <1>12. /\ g.blocks = seq
         /\ g.succ = [b \in bs |-> next(b)]
         /\ g.pred = [b \in bs |-> into(b)]
    BY <1>2
  <1>13. g.succ \in [bs -> Seq(bs)] /\ g.pred \in [bs -> Seq(bs)]
    BY <1>8, <1>10, <1>12
  <1>14. \A a, b \in bs : a \in ToSet(g.pred[b]) <=> b \in ToSet(g.succ[a])
    BY <1>11, <1>12
  <1> QED
    BY <1>1, <1>6, <1>12, <1>13, <1>14 DEF IsGraph

(***************************************************************************)
(* Paths in a graph: what can be reached, avoiding a block or not.         *)
(***************************************************************************)

Graph == IsGraph(cfg)

LEMMA GraphFacts ==
  ASSUME Graph
  PROVE  /\ IsFiniteSet(Blocks) /\ Entry \in Blocks
         /\ cfg.blocks \in Seq(Blocks)
         /\ cfg.succ \in [Blocks -> Seq(Blocks)] /\ cfg.pred \in [Blocks -> Seq(Blocks)]
         /\ Succ \in [Blocks -> SUBSET Blocks] /\ Pred \in [Blocks -> SUBSET Blocks]
         /\ \A b \in Blocks : Succ[b] = ToSet(cfg.succ[b]) /\ Pred[b] = ToSet(cfg.pred[b])
         /\ \A a, b \in Blocks : a \in Pred[b] <=> b \in Succ[a]
  <1>1. /\ cfg.blocks \in Seq(Blocks) /\ cfg.blocks # <<>> /\ IsFiniteSet(Blocks)
        /\ cfg.succ \in [Blocks -> Seq(Blocks)] /\ cfg.pred \in [Blocks -> Seq(Blocks)]
        /\ \A a, b \in Blocks : a \in ToSet(cfg.pred[b]) <=> b \in ToSet(cfg.succ[a])
    BY DEF Graph, IsGraph, Blocks
  <1>2. \A s \in Seq(Blocks) : ToSet(s) \subseteq Blocks
    BY DEF ToSet
  <1>3. Entry \in Blocks
    BY <1>1 DEF Entry
  <1>4. \A b \in Blocks : Succ[b] = ToSet(cfg.succ[b]) /\ Pred[b] = ToSet(cfg.pred[b])
    BY DEF Succ, Pred
  <1>5. \A b \in Blocks : ToSet(cfg.succ[b]) \subseteq Blocks /\ ToSet(cfg.pred[b]) \subseteq Blocks
    BY <1>1, <1>2
  <1>6. Succ \in [Blocks -> SUBSET Blocks] /\ Pred \in [Blocks -> SUBSET Blocks]
    BY <1>5 DEF Succ, Pred
  <1> QED
    BY <1>1, <1>3, <1>4, <1>6

LEMMA Avoiding ==
  ASSUME Graph, NEW a \in Blocks, NEW x \in Blocks, a # x
  PROVE  /\ a \in ReachableAvoiding(a, x) /\ x \notin ReachableAvoiding(a, x)
         /\ ReachableAvoiding(a, x) \subseteq Blocks
         /\ \A b \in ReachableAvoiding(a, x) : Succ[b] \ {x} \subseteq ReachableAvoiding(a, x)
         /\ \A T : a \in T /\ (\A b \in T \cap Blocks : Succ[b] \ {x} \subseteq T) => ReachableAvoiding(a, x) \subseteq T
  <1> DEFINE next == [b \in Blocks |-> Succ[b] \ {x}]
  <1>1. next \in [Blocks -> SUBSET Blocks] /\ \A b \in Blocks : next[b] = Succ[b] \ {x}
    BY GraphFacts
  <1>2. PICK R : R = Closure({a}, next)
    OBVIOUS
  <1>3. ReachableAvoiding(a, x) = R
    BY <1>2 DEF ReachableAvoiding
  <1> HIDE DEF next
  <1>4. /\ {a} \subseteq R /\ R \subseteq Blocks
        /\ \A b \in R : next[b] \subseteq R
        /\ \A T : {a} \subseteq T /\ (\A b \in T \cap Blocks : next[b] \subseteq T) => R \subseteq T
    <2>1. IsFiniteSet(Blocks) /\ {a} \in SUBSET Blocks
      BY GraphFacts
    <2> QED
      BY <1>1, <1>2, <2>1, ClosureLeast
  <1>5. \A b \in R : Succ[b] \ {x} \subseteq R
    BY <1>1, <1>4
  <1>6. \A T : a \in T /\ (\A b \in T \cap Blocks : Succ[b] \ {x} \subseteq T) => R \subseteq T
    BY <1>1, <1>4
  <1>7. R \subseteq Blocks \ {x}
    <2>1. \A b \in Blocks : Succ[b] \subseteq Blocks
      BY GraphFacts
    <2>2. a \in Blocks \ {x} /\ \A b \in (Blocks \ {x}) \cap Blocks : Succ[b] \ {x} \subseteq Blocks \ {x}
      BY <2>1
    <2> QED
      BY <1>6, <2>2
  <1> QED
    BY <1>3, <1>4, <1>5, <1>6, <1>7

LEMMA AvoidingItself ==
  ASSUME NEW x
  PROVE  ReachableAvoiding(x, x) = {}
  BY DEF ReachableAvoiding

(* The same without the case in which a is x.                              *)
LEMMA AvoidingStep ==
  ASSUME Graph, NEW a \in Blocks, NEW x \in Blocks,
         NEW b \in ReachableAvoiding(a, x), NEW c \in Succ[b], c # x
  PROVE  b \in Blocks /\ c \in Blocks /\ c \in ReachableAvoiding(a, x)
  <1>1. a # x
    BY AvoidingItself
  <1> QED
    BY <1>1, Avoiding, GraphFacts

LEMMA AvoidingMember ==
  ASSUME Graph, NEW a \in Blocks, NEW x \in Blocks
  PROVE  x \notin ReachableAvoiding(a, x) /\ ReachableAvoiding(a, x) \subseteq Blocks
  BY Avoiding, AvoidingItself

LEMMA ReachableLeast ==
  ASSUME Graph
  PROVE  /\ Entry \in Reachable /\ Reachable \subseteq Blocks
         /\ \A b \in Reachable : Succ[b] \subseteq Reachable
         /\ \A T : Entry \in T /\ (\A b \in T \cap Blocks : Succ[b] \subseteq T) => Reachable \subseteq T
  <1>1. {Entry} \in SUBSET Blocks /\ Succ \in [Blocks -> SUBSET Blocks] /\ IsFiniteSet(Blocks)
    BY GraphFacts
  <1>2. /\ {Entry} \subseteq Reachable /\ Reachable \subseteq Blocks
        /\ \A b \in Reachable : Succ[b] \subseteq Reachable
        /\ \A T : {Entry} \subseteq T /\ (\A b \in T \cap Blocks : Succ[b] \subseteq T) => Reachable \subseteq T
    BY <1>1, ClosureLeast DEF Reachable
  <1> QED
    BY <1>2

LEMMA ExitingLeast ==
  ASSUME Graph
  PROVE  /\ Exits \subseteq Exiting /\ Exiting \subseteq Blocks
         /\ \A b \in Exiting : Pred[b] \subseteq Exiting
         /\ \A T : Exits \subseteq T /\ (\A b \in T \cap Blocks : Pred[b] \subseteq T) => Exiting \subseteq T
  <1>1. Exits \in SUBSET Blocks /\ Pred \in [Blocks -> SUBSET Blocks] /\ IsFiniteSet(Blocks)
    BY GraphFacts DEF Exits
  <1> QED
    BY <1>1, ClosureLeast DEF Exiting

LEMMA AvoidingIsReachable ==
  ASSUME Graph, NEW x \in Blocks
  PROVE  ReachableAvoiding(Entry, x) \subseteq Reachable
  <1>1. CASE Entry = x
    BY <1>1, AvoidingItself
  <1>2. CASE Entry # x
    BY <1>2, Avoiding, ReachableLeast, GraphFacts
  <1> QED
    BY <1>1, <1>2

(* What is reachable but the entry has a predecessor other than itself.    *)
LEMMA ReachedFrom ==
  ASSUME Graph, NEW y \in Reachable, y # Entry
  PROVE  Pred[y] \ {y} # {}
  <1> SUFFICES ASSUME Pred[y] \ {y} = {} PROVE FALSE
    OBVIOUS
  <1>1. \A b \in (Reachable \ {y}) \cap Blocks : Succ[b] \subseteq Reachable \ {y}
    BY GraphFacts, ReachableLeast
  <1>2. Reachable \subseteq Reachable \ {y}
    BY <1>1, ReachableLeast
  <1> QED
    BY <1>2

LEMMA ExitsFrom ==
  ASSUME Graph, NEW y \in Exiting, y \notin Exits
  PROVE  Succ[y] \ {y} # {}
  <1> SUFFICES ASSUME Succ[y] \ {y} = {} PROVE FALSE
    OBVIOUS
  <1>1. \A b \in (Exiting \ {y}) \cap Blocks : Pred[b] \subseteq Exiting \ {y}
    BY GraphFacts, ExitingLeast
  <1>2. Exiting \subseteq Exiting \ {y}
    BY <1>1, ExitingLeast
  <1> QED
    BY <1>2

(***************************************************************************)
(* True dominators lie on one path.                                        *)
(***************************************************************************)

LEMMA DominatorReachable ==
  ASSUME Graph, NEW x \in Blocks, NEW y \in Reachable, TrulyDominates(x, y)
  PROVE  x \in Reachable
  <1> SUFFICES ASSUME x \notin Reachable PROVE FALSE
    OBVIOUS
  <1>1. Entry # x
    BY ReachableLeast
  <1>2. \A b \in ReachableAvoiding(Entry, x) \cap Blocks : Succ[b] \subseteq ReachableAvoiding(Entry, x)
    <2>1. \A b \in ReachableAvoiding(Entry, x) : x \notin Succ[b]
      BY AvoidingIsReachable, ReachableLeast
    <2> QED
      BY <1>1, <2>1, Avoiding, GraphFacts
  <1>3. Reachable \subseteq ReachableAvoiding(Entry, x)
    BY <1>1, <1>2, Avoiding, GraphFacts, ReachableLeast
  <1> QED
    BY <1>3 DEF TrulyDominates

LEMMA DominanceTransitive ==
  ASSUME Graph, NEW a \in Blocks, NEW b \in Blocks, NEW c \in Blocks, TrulyDominates(a, b), TrulyDominates(b, c)
  PROVE  TrulyDominates(a, c)
  <1> SUFFICES ASSUME c \in ReachableAvoiding(Entry, a) PROVE FALSE
    BY DEF TrulyDominates
  <1> DEFINE T == ReachableAvoiding(Entry, a) \cap ReachableAvoiding(Entry, b)
  <1>1. Entry # a /\ Entry \in Blocks
    BY AvoidingItself, GraphFacts
  <1>2. Entry # b
    BY <1>1, Avoiding DEF TrulyDominates
  <1>3. Entry \in T
    BY <1>1, <1>2, Avoiding
  <1>4. ASSUME NEW u \in T \cap Blocks, NEW v \in Succ[u] \ {a} PROVE v \in T
    <2>1. v \in ReachableAvoiding(Entry, a)
      BY <1>1, <1>4, AvoidingStep
    <2>2. v # b
      BY <2>1 DEF TrulyDominates
    <2> QED
      BY <1>1, <1>4, <2>1, <2>2, AvoidingStep
  <1>5. ReachableAvoiding(Entry, a) \subseteq T
    <2>1. \A u \in T \cap Blocks : Succ[u] \ {a} \subseteq T
      BY <1>4
    <2> HIDE DEF T
    <2> QED
      BY <1>1, <1>3, <2>1, Avoiding
  <1> QED
    BY <1>5 DEF TrulyDominates

LEMMA DominanceAntisymmetric ==
  ASSUME Graph, NEW a \in Reachable, NEW b \in Reachable, TrulyDominates(a, b), TrulyDominates(b, a)
  PROVE  a = b
  <1> SUFFICES ASSUME a # b PROVE FALSE
    OBVIOUS
  <1> DEFINE T == ReachableAvoiding(Entry, a) \cap ReachableAvoiding(Entry, b)
  <1>0. a \in Blocks /\ b \in Blocks /\ Entry \in Blocks
    BY ReachableLeast, GraphFacts
  <1>1. Entry # a /\ Entry # b
    BY <1>0, Avoiding DEF TrulyDominates
  <1>2. Entry \in T
    BY <1>0, <1>1, Avoiding
  <1>3. ASSUME NEW u \in T \cap Blocks, NEW v \in Succ[u] PROVE v \in T
    <2>1. v # a
      BY <1>0, <1>3, AvoidingStep DEF TrulyDominates
    <2>2. v # b
      BY <1>0, <1>3, AvoidingStep DEF TrulyDominates
    <2> QED
      BY <1>0, <1>3, <2>1, <2>2, AvoidingStep
  <1>4. Reachable \subseteq T
    <2>1. \A u \in T \cap Blocks : Succ[u] \subseteq T
      BY <1>3
    <2> HIDE DEF T
    <2> QED
      BY <1>2, <2>1, ReachableLeast
  <1> QED
    BY <1>0, <1>4, AvoidingMember

LEMMA DominatorsOnOnePath ==
  ASSUME Graph, NEW a \in Blocks, NEW b \in Blocks, NEW y \in Reachable, TrulyDominates(a, y), TrulyDominates(b, y)
  PROVE  TrulyDominates(a, b) \/ TrulyDominates(b, a)
  <1> SUFFICES ASSUME b \in ReachableAvoiding(Entry, a), a \in ReachableAvoiding(Entry, b) PROVE FALSE
    BY DEF TrulyDominates
  <1> DEFINE T == ReachableAvoiding(Entry, a) \cup ReachableAvoiding(Entry, b)
  <1>0. Entry \in Blocks /\ Entry # a /\ Entry # b
    BY AvoidingItself, GraphFacts
  <1>1. Entry \in T
    BY <1>0, Avoiding
  <1>2. ASSUME NEW u \in T \cap Blocks, NEW v \in Succ[u] PROVE v \in T
    BY <1>0, <1>2, AvoidingStep
  <1>3. Reachable \subseteq T
    <2>1. \A u \in T \cap Blocks : Succ[u] \subseteq T
      BY <1>2
    <2> HIDE DEF T
    <2> QED
      BY <1>1, <2>1, ReachableLeast
  <1> QED
    BY <1>3 DEF TrulyDominates

(* One of a nonempty set of dominators is dominated by the others.         *)
LEMMA LastDominator ==
  ASSUME Graph, NEW y \in Reachable, NEW doms \in [Blocks -> SUBSET Blocks],
         \A z \in Reachable, x \in Blocks : x \in doms[z] <=> TrulyDominates(x, z),
         doms[y] \ {y} # {}
  PROVE  \E m \in doms[y] \ {y} : \A x \in doms[y] \ {y} : TrulyDominates(x, m)
  <1> DEFINE S == doms[y] \ {y}
             n == Cardinality(Blocks)
             T == {n - Cardinality(doms[m]) : m \in S}
  <1>0. y \in Blocks /\ S \subseteq Blocks /\ \A x \in S : TrulyDominates(x, y)
    BY ReachableLeast
  <1>1. S \subseteq Reachable
    BY <1>0, DominatorReachable
  <1>2. n \in Nat /\ \A m \in S : IsFiniteSet(doms[m]) /\ Cardinality(doms[m]) \in Nat /\ Cardinality(doms[m]) <= n
    <2>1. \A m \in S : doms[m] \in SUBSET Blocks
      BY <1>0
    <2> QED
      BY <2>1, GraphFacts, FS_CardinalityType, FS_Subset
  <1>3. T \subseteq Nat /\ T # {}
    BY <1>2
  <1>4. PICK k \in T : \A l \in T : k <= l
    <2> HIDE DEF T
    <2> QED
      BY <1>3, LeastElement
  <1>5. PICK m \in S : k = n - Cardinality(doms[m])
    BY <1>4
  <1>6. ASSUME NEW x \in S PROVE TrulyDominates(x, m)
    <2> SUFFICES ASSUME TrulyDominates(m, x) PROVE TrulyDominates(x, m)
      BY <1>0, DominatorsOnOnePath
    <2>1. x \in Reachable /\ m \in Reachable /\ x \in Blocks /\ m \in Blocks
      BY <1>0, <1>1
    <2>2. doms[m] \subseteq doms[x]
      <3>1. ASSUME NEW z \in doms[m] PROVE z \in doms[x]
        <4>1. z \in Blocks /\ TrulyDominates(z, m)
          BY <2>1, <3>1
        <4> QED
          BY <2>1, <4>1, DominanceTransitive
      <3> QED
        BY <3>1
    <2>3. n - Cardinality(doms[m]) <= n - Cardinality(doms[x])
      BY <1>4, <1>5
    <2>4. Cardinality(doms[x]) <= Cardinality(doms[m])
      BY <1>2, <2>3
    <2>5. Cardinality(doms[m]) <= Cardinality(doms[x])
      BY <1>2, <2>2, FS_Subset
    <2>6. Cardinality(doms[m]) = Cardinality(doms[x])
      BY <1>2, <2>4, <2>5
    <2>7. doms[m] = doms[x]
      BY <1>2, <2>2, <2>6, FS_Subset
    <2>8. x \in doms[x]
      BY <2>1, AvoidingMember, GraphFacts DEF TrulyDominates
    <2> QED
      BY <2>1, <2>7, <2>8
  <1> QED
    BY <1>6

(***************************************************************************)
(* The first worklist.  No set ever loses a dominator, and a block whose   *)
(* set is not what its predecessors make it waits in the worklist.         *)
(***************************************************************************)

DomState(doms, queued) ==
  /\ doms \in [Blocks -> SUBSET Blocks]
  /\ \A x, y \in Blocks : TrulyDominates(x, y) => x \in doms[y]
  /\ \A y \in Reachable : doms[y] = Meet(y, cfg.pred[y], doms) \/ y \in queued

LEMMA MeetIs ==
  ASSUME NEW y \in Blocks, NEW s, NEW sets
  PROVE  /\ Meet(y, s, sets) \subseteq Blocks /\ y \in Meet(y, s, sets)
         /\ \A b \in Blocks : b \in Meet(y, s, sets) <=>
              b = y \/ (ToSet(s) \ {y} # {} /\ \A x \in ToSet(s) \ {y} : b \in sets[x])
  BY DEF Meet

(* Meet looks at the sets of the other neighbours only.                    *)
LEMMA MeetSame ==
  ASSUME NEW y \in Blocks, NEW s, NEW sets, NEW other, \A x \in ToSet(s) \ {y} : sets[x] = other[x]
  PROVE  Meet(y, s, sets) = Meet(y, s, other)
  <1>1. Meet(y, s, sets) \subseteq Blocks /\ Meet(y, s, other) \subseteq Blocks
    BY MeetIs
  <1>2. \A b \in Blocks : b \in Meet(y, s, sets) <=> b \in Meet(y, s, other)
    BY MeetIs
  <1> QED
    BY <1>1, <1>2

LEMMA DominatorsStart ==
  ASSUME Graph
  PROVE  DomState([b \in Blocks |-> Blocks], {Entry})
  <1> DEFINE all == [b \in Blocks |-> Blocks]
  <1>1. ASSUME NEW y \in Reachable, y # Entry PROVE all[y] = Meet(y, cfg.pred[y], all)
    <2>1. y \in Blocks /\ Pred[y] \ {y} # {} /\ ToSet(cfg.pred[y]) = Pred[y] /\ Pred[y] \subseteq Blocks
      BY <1>1, GraphFacts, ReachableLeast, ReachedFrom
    <2>2. \A b \in Blocks : b \in Meet(y, cfg.pred[y], all)
      BY <2>1, MeetIs
    <2>3. Meet(y, cfg.pred[y], all) \subseteq Blocks
      BY <2>1, MeetIs
    <2> QED
      BY <2>1, <2>2, <2>3
  <1> QED
    BY <1>1 DEF DomState

LEMMA DominatorsKept ==
  ASSUME Graph, NEW y \in Reachable, NEW doms, NEW Q, NEW R, DomState(doms, Q),
         \A q \in Q : q = y \/ q \in R,
         Meet(y, cfg.pred[y], doms) # doms[y] => Succ[y] \subseteq R
  PROVE  DomState([doms EXCEPT ![y] = Meet(y, cfg.pred[y], doms)], R)
  <1> DEFINE new == Meet(y, cfg.pred[y], doms)
  <1>0. y \in Blocks /\ doms \in [Blocks -> SUBSET Blocks] /\ ToSet(cfg.pred[y]) = Pred[y] /\ Pred[y] \subseteq Blocks
    BY GraphFacts, ReachableLeast DEF DomState
  <1>1. PICK d : d = [doms EXCEPT ![y] = new]
    OBVIOUS
  <1>2. /\ d \in [Blocks -> SUBSET Blocks] /\ d[y] = new
        /\ \A b \in Blocks \ {y} : d[b] = doms[b]
    BY <1>0, <1>1, MeetIs
  <1>3. ASSUME NEW x \in Blocks, TrulyDominates(x, y) PROVE x \in new
    <2> SUFFICES ASSUME x # y PROVE x \in new
      BY <1>0, MeetIs
    <2>1. y # Entry
      BY <1>3, <1>0, Avoiding DEF TrulyDominates
    <2>2. Pred[y] \ {y} # {}
      BY <2>1, ReachedFrom
    <2>3. ASSUME NEW o \in Pred[y] \ {y} PROVE x \in doms[o]
      <3>1. o \in Blocks /\ y \in Succ[o]
        BY <1>0, GraphFacts
      <3>2. o \notin ReachableAvoiding(Entry, x)
        BY <1>3, <3>1, AvoidingStep, GraphFacts DEF TrulyDominates
      <3> QED
        BY <3>1, <3>2 DEF DomState, TrulyDominates
    <2> QED
      BY <1>0, <2>2, <2>3, MeetIs
  <1>4. \A x, z \in Blocks : TrulyDominates(x, z) => x \in d[z]
    BY <1>2, <1>3 DEF DomState
  <1>5. ASSUME NEW z \in Reachable PROVE d[z] = Meet(z, cfg.pred[z], d) \/ z \in R
    <2>0. z \in Blocks /\ ToSet(cfg.pred[z]) = Pred[z] /\ Pred[z] \subseteq Blocks
      BY GraphFacts, ReachableLeast
    <2>1. CASE z = y
      <3>1. \A x \in ToSet(cfg.pred[y]) \ {y} : doms[x] = d[x]
        BY <1>0, <1>2
      <3> QED
        BY <1>0, <1>2, <2>1, <3>1, MeetSame
    <2>2. CASE z # y /\ (z \notin Succ[y] \/ new = doms[y])
      <3>1. \A x \in ToSet(cfg.pred[z]) \ {z} : doms[x] = d[x]
        <4>1. ASSUME NEW x \in Pred[z] PROVE doms[x] = d[x]
          <5>1. x = y => z \in Succ[y]
            BY <1>0, <2>0, <4>1, GraphFacts
          <5> QED
            BY <1>2, <2>0, <2>2, <5>1
        <4> QED
          BY <2>0, <4>1
      <3>2. Meet(z, cfg.pred[z], doms) = Meet(z, cfg.pred[z], d)
        BY <2>0, <3>1, MeetSame
      <3>3. d[z] = doms[z]
        BY <1>2, <2>0, <2>2
      <3>4. doms[z] = Meet(z, cfg.pred[z], doms) \/ z \in Q
        BY DEF DomState
      <3> QED
        BY <2>2, <3>2, <3>3, <3>4
    <2>3. CASE z # y /\ z \in Succ[y] /\ new # doms[y]
      BY <2>3
    <2> QED
      BY <2>1, <2>2, <2>3
  <1>6. DomState(d, R)
    BY <1>2, <1>4, <1>5 DEF DomState
  <1> QED
    BY <1>1, <1>6

(* With nothing left to do, the sets are the dominators.                   *)
LEMMA DominatorsFound ==
  ASSUME Graph, NEW doms, DomState(doms, {}), ~EntryIsTarget
  PROVE  \A y \in Reachable, x \in Blocks : x \in doms[y] <=> TrulyDominates(x, y)
  <1>1. ASSUME NEW x \in Blocks, NEW y \in Reachable, x \in doms[y], y \in ReachableAvoiding(Entry, x) PROVE FALSE
    <2> DEFINE T == {z \in Reachable : x \notin doms[z]}
    <2>1. Entry # x /\ Entry \in Blocks
      BY <1>1, AvoidingItself, GraphFacts
    <2>2. ASSUME NEW z \in Reachable PROVE z \in Blocks /\ doms[z] = Meet(z, cfg.pred[z], doms) /\ ToSet(cfg.pred[z]) = Pred[z]
      BY ReachableLeast, GraphFacts DEF DomState
    <2>3. Entry \in T
      <3>1. Entry \in Reachable /\ ToSet(cfg.pred[Entry]) \ {Entry} = {}
        BY ReachableLeast DEF EntryIsTarget
      <3> QED
        BY <2>1, <2>2, <3>1, MeetIs
    <2>4. ASSUME NEW b \in T \cap Blocks, NEW z \in Succ[b] \ {x} PROVE z \in T
      <3>1. z \in Reachable /\ z \in Blocks /\ b \in Pred[z]
        BY <2>4, ReachableLeast, GraphFacts
      <3>2. CASE z = b
        BY <2>4, <3>2
      <3>3. CASE z # b
        <4>1. x \notin Meet(z, cfg.pred[z], doms)
          BY <2>2, <2>4, <3>1, <3>3, MeetIs
        <4> QED
          BY <2>2, <3>1, <4>1
      <3> QED
        BY <3>2, <3>3
    <2>5. ReachableAvoiding(Entry, x) \subseteq T
      <3>1. \A b \in T \cap Blocks : Succ[b] \ {x} \subseteq T
        BY <2>4
      <3> HIDE DEF T
      <3> QED
        BY <2>1, <2>3, <3>1, Avoiding
    <2> QED
      BY <1>1, <2>5
  <1>2. \A y \in Reachable : y \in Blocks
    BY ReachableLeast
  <1> QED
    BY <1>1, <1>2 DEF DomState, TrulyDominates

(***************************************************************************)
(* The second worklist.                                                    *)
(***************************************************************************)

PdomState(pdoms, queued) ==
  /\ pdoms \in [Blocks -> SUBSET Blocks]
  /\ \A x, y \in Blocks : TrulyPostdominates(x, y) => x \in pdoms[y]
  /\ \A y \in Exiting : pdoms[y] = Meet(y, cfg.succ[y], pdoms) \/ y \in queued
  /\ \A y \in Blocks \ Exiting : pdoms[y] = Blocks

LEMMA PostdominatorsStart ==
  ASSUME Graph
  PROVE  PdomState([b \in Blocks |-> Blocks], Exits)
  <1> DEFINE all == [b \in Blocks |-> Blocks]
  <1>1. ASSUME NEW y \in Exiting, y \notin Exits PROVE all[y] = Meet(y, cfg.succ[y], all)
    <2>1. y \in Blocks /\ Succ[y] \ {y} # {} /\ ToSet(cfg.succ[y]) = Succ[y] /\ Succ[y] \subseteq Blocks
      BY <1>1, GraphFacts, ExitingLeast, ExitsFrom
    <2>2. \A b \in Blocks : b \in Meet(y, cfg.succ[y], all)
      BY <2>1, MeetIs
    <2>3. Meet(y, cfg.succ[y], all) \subseteq Blocks
      BY <2>1, MeetIs
    <2> QED
      BY <2>1, <2>2, <2>3
  <1> QED
    BY <1>1 DEF PdomState

(* A block on a way to an exit past x has successors on one.               *)
LEMMA ExitsPast ==
  ASSUME Graph, NEW x \in Blocks, NEW y \in Blocks, TrulyPostdominates(x, y), x # y
  PROVE  y \notin Exits /\ \A o \in Succ[y] : TrulyPostdominates(x, o)
  <1>1. y \notin Exits
    BY Avoiding DEF TrulyPostdominates
  <1>2. ASSUME NEW o \in Succ[y], NEW e \in ReachableAvoiding(o, x), e \in Exits PROVE FALSE
    <2>1. o \in Blocks /\ o # x
      BY <1>2, AvoidingItself, GraphFacts
    <2>2. o \in ReachableAvoiding(y, x)
      BY <2>1, Avoiding
    <2>3. \A b \in ReachableAvoiding(y, x) \cap Blocks : Succ[b] \ {x} \subseteq ReachableAvoiding(y, x)
      BY Avoiding
    <2>4. ReachableAvoiding(o, x) \subseteq ReachableAvoiding(y, x)
      BY <2>1, <2>2, <2>3, Avoiding
    <2> QED
      BY <1>2, <2>4 DEF TrulyPostdominates
  <1> QED
    BY <1>1, <1>2 DEF TrulyPostdominates

LEMMA PostdominatorsKept ==
  ASSUME Graph, NEW y \in Exiting, NEW pdoms, NEW Q, NEW R, PdomState(pdoms, Q),
         \A q \in Q : q = y \/ q \in R,
         Meet(y, cfg.succ[y], pdoms) # pdoms[y] => Pred[y] \subseteq R
  PROVE  PdomState([pdoms EXCEPT ![y] = Meet(y, cfg.succ[y], pdoms)], R)
  <1> DEFINE new == Meet(y, cfg.succ[y], pdoms)
  <1>0. y \in Blocks /\ pdoms \in [Blocks -> SUBSET Blocks] /\ ToSet(cfg.succ[y]) = Succ[y] /\ Succ[y] \subseteq Blocks
    BY GraphFacts, ExitingLeast DEF PdomState
  <1>1. PICK d : d = [pdoms EXCEPT ![y] = new]
    OBVIOUS
  <1>2. /\ d \in [Blocks -> SUBSET Blocks] /\ d[y] = new
        /\ \A b \in Blocks \ {y} : d[b] = pdoms[b]
    BY <1>0, <1>1, MeetIs
  <1>3. ASSUME NEW x \in Blocks, TrulyPostdominates(x, y) PROVE x \in new
    <2> SUFFICES ASSUME x # y PROVE x \in new
      BY <1>0, MeetIs
    <2>1. y \notin Exits /\ \A o \in Succ[y] : TrulyPostdominates(x, o)
      BY <1>0, <1>3, ExitsPast
    <2>2. Succ[y] \ {y} # {}
      BY <2>1, ExitsFrom
    <2>3. \A o \in Succ[y] \ {y} : x \in pdoms[o]
      BY <1>0, <2>1 DEF PdomState
    <2> QED
      BY <1>0, <2>2, <2>3, MeetIs
  <1>4. \A x, z \in Blocks : TrulyPostdominates(x, z) => x \in d[z]
    BY <1>2, <1>3 DEF PdomState
  <1>5. ASSUME NEW z \in Exiting PROVE d[z] = Meet(z, cfg.succ[z], d) \/ z \in R
    <2>0. z \in Blocks /\ ToSet(cfg.succ[z]) = Succ[z] /\ Succ[z] \subseteq Blocks
      BY GraphFacts, ExitingLeast
    <2>1. CASE z = y
      <3>1. \A x \in ToSet(cfg.succ[y]) \ {y} : pdoms[x] = d[x]
        BY <1>0, <1>2
      <3> QED
        BY <1>0, <1>2, <2>1, <3>1, MeetSame
    <2>2. CASE z # y /\ (z \notin Pred[y] \/ new = pdoms[y])
      <3>1. \A x \in ToSet(cfg.succ[z]) \ {z} : pdoms[x] = d[x]
        <4>1. ASSUME NEW x \in Succ[z] PROVE pdoms[x] = d[x]
          <5>1. x = y => z \in Pred[y]
            BY <1>0, <2>0, <4>1, GraphFacts
          <5> QED
            BY <1>2, <2>0, <2>2, <5>1
        <4> QED
          BY <2>0, <4>1
      <3>2. Meet(z, cfg.succ[z], pdoms) = Meet(z, cfg.succ[z], d)
        BY <2>0, <3>1, MeetSame
      <3>3. d[z] = pdoms[z]
        BY <1>2, <2>0, <2>2
      <3>4. pdoms[z] = Meet(z, cfg.succ[z], pdoms) \/ z \in Q
        BY DEF PdomState
      <3> QED
        BY <2>2, <3>2, <3>3, <3>4
    <2>3. CASE z # y /\ z \in Pred[y] /\ new # pdoms[y]
      BY <2>3
    <2> QED
      BY <2>1, <2>2, <2>3
  <1>6. \A z \in Blocks \ Exiting : d[z] = Blocks
    BY <1>2 DEF PdomState
  <1>7. PdomState(d, R)
    BY <1>2, <1>4, <1>5, <1>6 DEF PdomState
  <1> QED
    BY <1>1, <1>7

LEMMA PostdominatorsFound ==
  ASSUME Graph, NEW pdoms, PdomState(pdoms, {})
  PROVE  \A y \in Blocks : pdoms[y] = IF y \in Exiting THEN {x \in Blocks : TrulyPostdominates(x, y)} ELSE Blocks
  <1>1. ASSUME NEW y \in Exiting, NEW x \in Blocks, x \in pdoms[y] PROVE TrulyPostdominates(x, y)
    <2>0. y \in Blocks
      BY ExitingLeast
    <2>1. CASE x = y
      BY <2>1, AvoidingItself DEF TrulyPostdominates
    <2>2. CASE x # y
      <3> DEFINE T == {z \in Blocks : z # x /\ (z \in Exiting => x \in pdoms[z])}
      <3>1. y \in T
        BY <1>1, <2>0, <2>2
      <3>2. ASSUME NEW z \in Exiting PROVE z \in Blocks /\ pdoms[z] = Meet(z, cfg.succ[z], pdoms) /\ ToSet(cfg.succ[z]) = Succ[z]
        BY ExitingLeast, GraphFacts DEF PdomState
      <3>3. ASSUME NEW z \in T \cap Blocks, NEW w \in Succ[z] \ {x} PROVE w \in T
        <4>1. w \in Blocks /\ z \in Pred[w]
          BY <3>3, GraphFacts
        <4>2. ASSUME w \in Exiting PROVE x \in pdoms[w]
          <5>1. z \in Exiting
            BY <4>1, <4>2, ExitingLeast
          <5>2. x \in Meet(z, cfg.succ[z], pdoms) /\ x # z
            BY <3>2, <3>3, <5>1
          <5>3. w = z \/ w \in ToSet(cfg.succ[z]) \ {z}
            BY <3>2, <3>3, <5>1
          <5> QED
            BY <3>2, <3>3, <5>1, <5>2, <5>3, MeetIs
        <4> QED
          BY <3>3, <4>1, <4>2
      <3>4. ReachableAvoiding(y, x) \subseteq T
        <4>1. \A z \in T \cap Blocks : Succ[z] \ {x} \subseteq T
          BY <3>3
        <4> HIDE DEF T
        <4> QED
          BY <2>0, <2>2, <3>1, <4>1, Avoiding
      <3>5. ASSUME NEW e \in Exits, e \in T PROVE FALSE
        <4>1. e \in Exiting /\ e \in Blocks /\ cfg.succ[e] = <<>> /\ x \in pdoms[e] /\ e # x
          BY <3>5, ExitingLeast DEF Exits
        <4>2. ToSet(cfg.succ[e]) = {}
          BY <4>1 DEF ToSet
        <4> QED
          BY <3>2, <4>1, <4>2, MeetIs
      <3> QED
        BY <3>4, <3>5 DEF TrulyPostdominates
    <2> QED
      BY <2>1, <2>2
  <1>2. ASSUME NEW y \in Exiting PROVE pdoms[y] = {x \in Blocks : TrulyPostdominates(x, y)}
    <2>1. y \in Blocks /\ pdoms[y] \subseteq Blocks
      BY ExitingLeast DEF PdomState
    <2> QED
      BY <1>1, <2>1 DEF PdomState
  <1> QED
    BY <1>2 DEF PdomState

(***************************************************************************)
(* Immediate dominators and natural loops.                                 *)
(***************************************************************************)

LEMMA OneImmediateDominator ==
  ASSUME Graph, DomState(dominators, {}), ~EntryIsTarget, NEW y \in Reachable, y # Entry
  PROVE  Cardinality({x \in Blocks : ImmediatlyDominates(x, y)}) = 1
  <1>1. \A z \in Reachable, x \in Blocks : x \in dominators[z] <=> TrulyDominates(x, z)
    BY DominatorsFound
  <1>2. dominators \in [Blocks -> SUBSET Blocks] /\ y \in Blocks /\ dominators[y] \subseteq Blocks
    BY ReachableLeast DEF DomState
  <1>3. dominators[y] \ {y} # {}
    BY <1>1, AvoidingItself, GraphFacts DEF TrulyDominates
  <1>4. PICK m \in dominators[y] \ {y} : \A x \in dominators[y] \ {y} : TrulyDominates(x, m)
    BY <1>1, <1>2, <1>3, LastDominator
  <1>5. \A x \in dominators[y] : x \in Blocks /\ x \in Reachable
    BY <1>1, <1>2, DominatorReachable
  <1>6. ImmediatlyDominates(m, y)
    BY <1>1, <1>4, <1>5 DEF ImmediatlyDominates, Dominates
  <1>7. ASSUME NEW x \in Blocks, ImmediatlyDominates(x, y) PROVE x = m
    <2>1. x \in dominators[y] \ {y} /\ m \in dominators[x]
      BY <1>4, <1>7 DEF ImmediatlyDominates, Dominates
    <2>2. TrulyDominates(x, m) /\ TrulyDominates(m, x)
      BY <1>1, <1>4, <1>5, <2>1
    <2> QED
      BY <1>4, <1>5, <2>1, <2>2, DominanceAntisymmetric
  <1>8. {x \in Blocks : ImmediatlyDominates(x, y)} = {m}
    BY <1>4, <1>5, <1>6, <1>7
  <1> QED
    BY <1>8, FS_Singleton

LEMMA LoopBodyClosed ==
  ASSUME Graph, NEW h \in Blocks, NEW n \in Blocks, TrulyDominates(h, n)
  PROVE  /\ n \in LoopBody(h, n) /\ LoopBody(h, n) \subseteq Blocks
         /\ \A b \in LoopBody(h, n) \ {h} : TrulyDominates(h, b) /\ Pred[b] \subseteq LoopBody(h, n)
  <1>1. CASE h = n
    BY <1>1 DEF LoopBody
  <1>2. CASE h # n
    <2>1. PICK next, C : next = [Pred EXCEPT ![h] = {}] /\ C = Closure({n}, next)
      OBVIOUS
    <2>2. /\ next \in [Blocks -> SUBSET Blocks] /\ next[h] = {}
          /\ \A b \in Blocks \ {h} : next[b] = Pred[b]
      BY <2>1, GraphFacts
    <2>3. LoopBody(h, n) = {h} \cup C
      BY <1>2, <2>1 DEF LoopBody
    <2>4. {n} \in SUBSET Blocks /\ IsFiniteSet(Blocks)
      BY GraphFacts
    <2>5. /\ {n} \subseteq C /\ C \subseteq Blocks
          /\ \A b \in C : next[b] \subseteq C
          /\ \A T : {n} \subseteq T /\ (\A b \in T \cap Blocks : next[b] \subseteq T) => C \subseteq T
      BY <2>1, <2>2, <2>4, ClosureLeast
    <2> DEFINE T == {b \in Blocks : TrulyDominates(h, b)}
    <2>6. ASSUME NEW b \in T \cap Blocks, NEW p \in next[b] PROVE p \in T
      <3>1. b # h /\ p \in Pred[b] /\ p \in Blocks
        BY <2>2, <2>6, GraphFacts
      <3>2. b \in Succ[p]
        BY <3>1, <2>6, GraphFacts
      <3>3. p \notin ReachableAvoiding(Entry, h)
        BY <2>6, <3>1, <3>2, AvoidingStep, GraphFacts DEF TrulyDominates
      <3> QED
        BY <3>1, <3>3 DEF TrulyDominates
    <2>7. C \subseteq T
      <3>1. \A b \in T \cap Blocks : next[b] \subseteq T
        BY <2>6
      <3>2. {n} \subseteq T
        OBVIOUS
      <3> HIDE DEF T
      <3> QED
        BY <2>5, <3>1, <3>2
    <2>8. \A b \in C \ {h} : TrulyDominates(h, b) /\ Pred[b] \subseteq C
      BY <2>2, <2>5, <2>7
    <2> QED
      BY <2>3, <2>5, <2>8
  <1> QED
    BY <1>1, <1>2

(* Every loop comes from an edge to a dominator of where it starts.        *)
LEMMA LoopsComeFromEdges ==
  ASSUME Graph, NEW doms \in [Blocks -> SUBSET Blocks]
  PROVE  /\ \E L : LoopsOf(doms) \in Seq(L)
         /\ \A k \in DOMAIN LoopsOf(doms) : \E n, h \in Blocks :
              /\ h \in Succ[n] /\ h \in doms[n]
              /\ LoopsOf(doms)[k] = [header |-> h, end |-> n, body |-> LoopBody(h, n)]
  <1>0. PICK bs : bs = cfg.blocks /\ bs \in Seq(Blocks)
    BY GraphFacts
  <1>1. PICK N \in Nat : N = Len(bs) /\ DOMAIN bs = 1 .. N /\ \A i \in 1 .. N : bs[i] \in Blocks
    BY <1>0
  <1> DEFINE L == {[header |-> h, end |-> n, body |-> LoopBody(h, n)] : n \in Blocks, h \in Blocks}
  <1> DEFINE Edge(n, l) == \E h \in Blocks : /\ h \in Succ[n] /\ h \in doms[n]
                                             /\ l = [header |-> h, end |-> n, body |-> LoopBody(h, n)]
  <1>3. ASSUME NEW n \in Blocks
        PROVE  LoopsFrom(n, doms) \in Seq(L) /\ \A l \in ToSet(LoopsFrom(n, doms)) : Edge(n, l)
    <2>1. PICK s, hs : s = cfg.succ[n] /\ hs = KeepAt(s, {i \in DOMAIN s : s[i] \in doms[n]})
      OBVIOUS
    <2>2. s \in Seq(Blocks) /\ ToSet(s) = Succ[n]
      BY <2>1, GraphFacts
    <2>3. hs \in Seq(Blocks) /\ ToSet(hs) = {s[i] : i \in (DOMAIN s) \cap {i \in DOMAIN s : s[i] \in doms[n]}}
      BY <2>1, <2>2, KeepHolds
    <2>4. \A h \in ToSet(hs) : h \in Succ[n] /\ h \in doms[n] /\ h \in Blocks
      <3>1. \A h \in ToSet(hs) : h \in ToSet(s) /\ h \in doms[n]
        BY <2>3 DEF ToSet
      <3> QED
        BY <2>2, <3>1, GraphFacts
    <2>5. LoopsFrom(n, doms) = [i \in DOMAIN hs |-> [header |-> hs[i], end |-> n, body |-> LoopBody(hs[i], n)]]
      BY <2>1 DEF LoopsFrom
    <2>6. DOMAIN hs = 1 .. Len(hs) /\ Len(hs) \in Nat /\ \A i \in DOMAIN hs : hs[i] \in ToSet(hs) /\ hs[i] \in Blocks
      BY <2>3 DEF ToSet
    <2>7. PICK f : f = LoopsFrom(n, doms)
      OBVIOUS
    <2>8. DOMAIN f = 1 .. Len(hs) /\ \A i \in 1 .. Len(hs) : f[i] = [header |-> hs[i], end |-> n, body |-> LoopBody(hs[i], n)]
      BY <2>5, <2>6, <2>7
    <2>9. \A i \in 1 .. Len(hs) : f[i] \in L /\ Edge(n, f[i])
      BY <2>4, <2>6, <2>8
    <2>10. f = [i \in 1 .. Len(hs) |-> f[i]]
      BY <2>5, <2>6, <2>7
    <2>11. f \in Seq(L)
      <3> HIDE DEF Edge, L
      <3> QED
        BY <2>6, <2>9, <2>10
    <2> HIDE DEF Edge, L
    <2> QED
      BY <2>7, <2>8, <2>9, <2>11 DEF ToSet
  <1>4. PICK g : g = [i \in 1 .. N |-> LoopsFrom(bs[i], doms)]
    OBVIOUS
  <1> HIDE DEF Edge, L
  <1>5. g \in [1 .. N -> Seq(L)]
    BY <1>1, <1>3, <1>4
  <1>6. LoopsOf(doms) = FlattenSeq(g)
    BY <1>0, <1>1, <1>4 DEF LoopsOf
  <1>7. FlattenSeq(g) \in Seq(L) /\ ToSet(FlattenSeq(g)) = UNION {ToSet(g[i]) : i \in 1 .. N}
    BY <1>1, <1>5, FlattenFunction
  <1>8. ASSUME NEW k \in DOMAIN LoopsOf(doms) PROVE \E n \in Blocks : Edge(n, LoopsOf(doms)[k])
    <2>1. LoopsOf(doms)[k] \in UNION {ToSet(g[i]) : i \in 1 .. N}
      BY <1>6, <1>7 DEF ToSet
    <2>2. PICK i \in 1 .. N : LoopsOf(doms)[k] \in ToSet(g[i])
      BY <2>1
    <2> QED
      BY <1>1, <1>3, <1>4, <2>2
  <1> QED
    BY <1>6, <1>7, <1>8 DEF Edge

(***************************************************************************)
(* The inductive invariant: what holds of the graph and of the worklists   *)
(* in each phase of the analysis.                                          *)
(***************************************************************************)

IInv ==
  /\ Graph
  /\ phase = "dominators" =>
       /\ DomState(dominators, ToSet(worklist)) /\ worklist \in Seq(Reachable)
       /\ postdominators = [b \in Blocks |-> Blocks]
  /\ phase = "postdominators" =>
       /\ DomState(dominators, {})
       /\ PdomState(postdominators, ToSet(worklist)) /\ worklist \in Seq(Exiting)
  /\ Analysed => DomState(dominators, {}) /\ PdomState(postdominators, {}) /\ loops = LoopsOf(dominators)

LEMMA GraphsFromInvariant ==
  ASSUME IInv PROVE GraphsExact
  <1> SUFFICES ASSUME Analysed PROVE GraphsExact
    BY DEF GraphsExact, DominatorsExact, PostdominatorsExact, LoopsExact
  <1>1. Graph /\ DomState(dominators, {}) /\ PdomState(postdominators, {}) /\ loops = LoopsOf(dominators)
    BY DEF IInv
  <1>2. ASSUME ~EntryIsTarget PROVE \A y \in Reachable, x \in Blocks : x \in dominators[y] <=> TrulyDominates(x, y)
    BY <1>1, <1>2, DominatorsFound
  <1>3. DominatorsExact
    BY <1>1, <1>2, OneImmediateDominator DEF DominatorsExact, Dominates, TrulyDominates
  <1>4. PostdominatorsExact
    BY <1>1, PostdominatorsFound DEF PostdominatorsExact
  <1>5. ASSUME ~EntryIsTarget, Reachable = Blocks
        PROVE  /\ loops = LoopsOf([y \in Blocks |-> {x \in Blocks : TrulyDominates(x, y)}])
               /\ \A k \in DOMAIN loops :
                    /\ \A b \in loops[k].body \ {loops[k].header} :
                         TrulyDominates(loops[k].header, b) /\ ToSet(cfg.pred[b]) \subseteq loops[k].body
                    /\ loops[k].end \in loops[k].body
    <2>1. dominators \in [Blocks -> SUBSET Blocks]
      BY <1>1 DEF DomState
    <2>2. dominators = [y \in Blocks |-> {x \in Blocks : TrulyDominates(x, y)}]
      <3>1. \A y \in Blocks : dominators[y] = {x \in Blocks : TrulyDominates(x, y)}
        BY <1>2, <1>5, <2>1
      <3> QED
        BY <2>1, <3>1
    <2>3. ASSUME NEW k \in DOMAIN loops
          PROVE  /\ \A b \in loops[k].body \ {loops[k].header} :
                      TrulyDominates(loops[k].header, b) /\ ToSet(cfg.pred[b]) \subseteq loops[k].body
                 /\ loops[k].end \in loops[k].body
      <3>1. PICK n, h \in Blocks : /\ h \in Succ[n] /\ h \in dominators[n]
                                   /\ loops[k] = [header |-> h, end |-> n, body |-> LoopBody(h, n)]
        BY <1>1, <2>1, <2>3, LoopsComeFromEdges
      <3>2. TrulyDominates(h, n)
        BY <1>2, <1>5, <3>1
      <3>3. /\ n \in LoopBody(h, n) /\ LoopBody(h, n) \subseteq Blocks
            /\ \A b \in LoopBody(h, n) \ {h} : TrulyDominates(h, b) /\ Pred[b] \subseteq LoopBody(h, n)
        BY <1>1, <3>2, LoopBodyClosed
      <3>4. loops[k].header = h /\ loops[k].end = n /\ loops[k].body = LoopBody(h, n)
        BY <3>1
      <3>5. \A b \in Blocks : ToSet(cfg.pred[b]) = Pred[b]
        BY <1>1, GraphFacts
      <3> QED
        BY <3>3, <3>4, <3>5
    <2> QED
      BY <1>1, <2>2, <2>3
  <1>6. LoopsExact
    BY <1>5 DEF LoopsExact
  <1> QED
    BY <1>3, <1>4, <1>6 DEF GraphsExact

(* The graph never changes, nor what is computed from it alone.            *)
LEMMA SameGraph ==
  ASSUME cfg' = cfg
  PROVE  /\ Graph' <=> Graph
         /\ Blocks' = Blocks /\ Entry' = Entry /\ Succ' = Succ /\ Pred' = Pred
         /\ Reachable' = Reachable /\ Exits' = Exits /\ Exiting' = Exiting
  <1>1. Blocks' = Blocks /\ Entry' = Entry /\ Succ' = Succ /\ Pred' = Pred /\ (Graph' <=> Graph)
    BY DEF Blocks, Entry, Succ, Pred, ToSet, Graph, IsGraph
  <1>2. Reachable' = Reachable
    BY <1>1 DEF Reachable, Closure
  <1>3. Exits' = Exits
    BY <1>1 DEF Exits
  <1>4. Exiting' = Exiting
    BY <1>1, <1>3 DEF Exiting, Closure
  <1> QED
    BY <1>1, <1>2, <1>3, <1>4

LEMMA SameDomState ==
  ASSUME cfg' = cfg, NEW Q, DomState(dominators', Q)
  PROVE  DomState(dominators, Q)'
  <1>1. \A x, y \in Blocks : TrulyDominates(x, y)' <=> TrulyDominates(x, y)
    BY SameGraph DEF TrulyDominates, ReachableAvoiding, Closure
  <1>2. \A y \in Blocks : Meet(y, cfg.pred[y], dominators)' = Meet(y, cfg.pred[y], dominators')
    BY SameGraph DEF Meet
  <1> QED
    BY SameGraph, <1>1, <1>2 DEF DomState, TrulyDominates, ReachableAvoiding, Closure, Meet

LEMMA SamePdomState ==
  ASSUME cfg' = cfg, NEW Q, PdomState(postdominators', Q)
  PROVE  PdomState(postdominators, Q)'
  <1>1. \A x, y \in Blocks : TrulyPostdominates(x, y)' <=> TrulyPostdominates(x, y)
    BY SameGraph DEF TrulyPostdominates, ReachableAvoiding, Closure
  <1>2. \A y \in Blocks : Meet(y, cfg.succ[y], postdominators)' = Meet(y, cfg.succ[y], postdominators')
    BY SameGraph DEF Meet
  <1>3. (\A x, y \in Blocks : TrulyPostdominates(x, y) => x \in postdominators[y])'
    <2>1. \A x, y \in Blocks : TrulyPostdominates(x, y) => x \in postdominators'[y]
      BY DEF PdomState
    <2> QED
      BY SameGraph, <1>1, <2>1
  <1> QED
    BY SameGraph, <1>1, <1>2, <1>3 DEF PdomState, Meet

LEMMA SameLoops ==
  ASSUME cfg' = cfg
  PROVE  LoopsOf(dominators)' = LoopsOf(dominators')
  <1>1. \A h, n : LoopBody(h, n)' = LoopBody(h, n)
    BY SameGraph DEF LoopBody, Closure
  <1>2. \A n : LoopsFrom(n, dominators)' = LoopsFrom(n, dominators')
    BY <1>1 DEF LoopsFrom
  <1> QED
    BY <1>2 DEF LoopsOf

LEMMA Within ==
  ASSUME NEW S, NEW T, NEW s \in Seq(S), ToSet(s) \subseteq T
  PROVE  s \in Seq(T)
  <1>1. Len(s) \in Nat /\ DOMAIN s = 1 .. Len(s) /\ s = [i \in 1 .. Len(s) |-> s[i]]
    OBVIOUS
  <1>2. \A i \in 1 .. Len(s) : s[i] \in T
    BY <1>1 DEF ToSet
  <1> QED
    BY <1>1, <1>2

LEMMA Queue ==
  ASSUME NEW S, NEW s \in Seq(S), s # <<>>, NEW t \in Seq(S)
  PROVE  /\ Head(s) \in S /\ Tail(s) \o t \in Seq(S)
         /\ \A q \in ToSet(s) : q = Head(s) \/ q \in ToSet(Tail(s) \o t)
         /\ ToSet(t) \subseteq ToSet(Tail(s) \o t)
  <1>1. Head(s) \in S /\ Tail(s) \in Seq(S)
    OBVIOUS
  <1>2. Tail(s) \o t \in Seq(S) /\ ToSet(Tail(s) \o t) = ToSet(Tail(s)) \cup ToSet(t)
    BY <1>1, Joined
  <1>3. ASSUME NEW q \in ToSet(s), q # Head(s) PROVE q \in ToSet(Tail(s))
    <2>1. PICK i \in 1 .. Len(s) : q = s[i]
      BY <1>3 DEF ToSet
    <2>2. i # 1 /\ i - 1 \in 1 .. Len(Tail(s)) /\ DOMAIN Tail(s) = 1 .. Len(Tail(s))
      BY <1>3, <2>1
    <2>3. Tail(s)[i - 1] = s[i]
      BY <2>2
    <2> QED
      BY <2>1, <2>2, <2>3 DEF ToSet
  <1> QED
    BY <1>1, <1>2, <1>3

LEMMA InvariantStarts ==
  ASSUME CFInit PROVE IInv
  <1>1. Graph
    BY BuildsGraph DEF CFInit, Graph
  <1>2. dominators = [b \in Blocks |-> Blocks] /\ postdominators = [b \in Blocks |-> Blocks]
    BY DEF CFInit, Blocks
  <1>3. worklist = <<Entry>>
    BY DEF CFInit, Entry
  <1>4. worklist \in Seq(Reachable) /\ ToSet(worklist) = {Entry}
    BY <1>1, <1>3, ReachableLeast DEF ToSet
  <1>5. DomState(dominators, ToSet(worklist))
    BY <1>1, <1>2, <1>4, DominatorsStart
  <1> QED
    BY <1>1, <1>2, <1>4, <1>5 DEF CFInit, IInv, Analysed

LEMMA DominatorsStepKeeps ==
  ASSUME IInv, DominatorsStep PROVE IInv'
  <1> USE DEF DominatorsStep
  <1>1. PICK y, new, t : /\ y = Head(worklist) /\ new = Meet(y, cfg.pred[y], dominators)
                         /\ t = IF new # dominators[y] THEN cfg.succ[y] ELSE <<>>
    OBVIOUS
  <1>2. dominators' = [dominators EXCEPT ![y] = new] /\ worklist' = Tail(worklist) \o t
    BY <1>1
  <1>3. Graph /\ worklist \in Seq(Reachable) /\ worklist # <<>> /\ DomState(dominators, ToSet(worklist))
    BY DEF IInv
  <1>4. y \in Reachable /\ y \in Blocks
    BY <1>1, <1>3, ReachableLeast
  <1>5. cfg.succ[y] \in Seq(Blocks) /\ ToSet(cfg.succ[y]) = Succ[y] /\ Succ[y] \subseteq Reachable
    BY <1>3, <1>4, ReachableLeast, GraphFacts
  <1>6. t \in Seq(Reachable) /\ (new # dominators[y] => ToSet(t) = Succ[y])
    <2>1. cfg.succ[y] \in Seq(Reachable)
      BY <1>5, Within
    <2> QED
      BY <1>1, <1>5, <2>1
  <1>7. PICK R, next : next = worklist' /\ R = ToSet(next)
    OBVIOUS
  <1>8. /\ next \in Seq(Reachable)
        /\ \A q \in ToSet(worklist) : q = y \/ q \in R
        /\ ToSet(t) \subseteq R
    <2>1. next = Tail(worklist) \o t
      BY <1>2, <1>7
    <2> QED
      BY <1>1, <1>3, <1>6, <1>7, <2>1, Queue
  <1>9. DomState(dominators', R)
    <2>1. PICK Q : Q = ToSet(worklist) /\ DomState(dominators, Q)
      BY <1>3
    <2>2. Meet(y, cfg.pred[y], dominators) # dominators[y] => Succ[y] \subseteq R
      BY <1>1, <1>6, <1>8
    <2>3. \A q \in Q : q = y \/ q \in R
      BY <1>8, <2>1
    <2>4. DomState([dominators EXCEPT ![y] = Meet(y, cfg.pred[y], dominators)], R)
      BY <1>3, <1>4, <2>1, <2>2, <2>3, DominatorsKept
    <2> QED
      BY <1>1, <1>2, <2>4
  <1>10. DomState(dominators, R)'
    BY <1>9, SameDomState
  <1>11. DomState(dominators, ToSet(worklist))'
    <2>1. R = ToSet(worklist)'
      BY <1>7 DEF ToSet
    <2> QED
      BY <1>10, <2>1 DEF DomState
  <1> QED
    BY <1>3, <1>7, <1>8, <1>11, SameGraph DEF IInv, Analysed

LEMMA StartPostdominatorsKeeps ==
  ASSUME IInv, StartPostdominators PROVE IInv'
  <1> USE DEF StartPostdominators
  <1>1. Graph /\ DomState(dominators, ToSet(worklist)) /\ worklist = <<>> /\ postdominators = [b \in Blocks |-> Blocks]
    BY DEF IInv
  <1>2. DomState(dominators, {})
    <2>1. ToSet(<<>>) = {}
      BY DEF ToSet
    <2> QED
      BY <1>1, <2>1
  <1>3. PICK bs, N : bs = cfg.blocks /\ N = {k \in DOMAIN cfg.blocks : cfg.succ[cfg.blocks[k]] = <<>>}
    OBVIOUS
  <1>4. bs \in Seq(Blocks) /\ Blocks = ToSet(bs)
    BY <1>1, <1>3, GraphFacts DEF Blocks
  <1>5. PICK w : w = KeepAt(bs, N)
    OBVIOUS
  <1>6. worklist' = w /\ w \in Seq(Blocks) /\ ToSet(w) = {bs[k] : k \in (DOMAIN bs) \cap N}
    BY <1>3, <1>4, <1>5, KeepHolds
  <1>7. ToSet(w) = Exits
    <2>1. \A k \in DOMAIN bs : k \in N <=> cfg.succ[bs[k]] = <<>>
      BY <1>3
    <2>2. \A b : b \in Blocks <=> \E k \in DOMAIN bs : b = bs[k]
      BY <1>4 DEF ToSet
    <2>3. \A b : b \in Exits <=> \E k \in (DOMAIN bs) \cap N : b = bs[k]
      BY <2>1, <2>2 DEF Exits
    <2> QED
      BY <1>6, <2>3
  <1>8. w \in Seq(Exiting)
    <2>1. ToSet(w) \subseteq Exiting
      BY <1>1, <1>7, ExitingLeast
    <2> QED
      BY <1>6, <2>1 DEF ToSet
  <1>9. PdomState(postdominators', ToSet(w))
    BY <1>1, <1>7, PostdominatorsStart
  <1>10. DomState(dominators, {})'
    BY <1>2, SameDomState
  <1>11. PdomState(postdominators, ToSet(worklist))'
    <2>1. PICK Q : Q = ToSet(w)
      OBVIOUS
    <2>2. PdomState(postdominators, Q)'
      BY <1>9, <2>1, SamePdomState
    <2>3. Q = ToSet(worklist)'
      BY <1>6, <2>1 DEF ToSet
    <2> QED
      BY <2>2, <2>3 DEF PdomState
  <1> QED
    BY <1>1, <1>6, <1>8, <1>10, <1>11, SameGraph DEF IInv, Analysed

LEMMA PostdominatorsStepKeeps ==
  ASSUME IInv, PostdominatorsStep PROVE IInv'
  <1> USE DEF PostdominatorsStep
  <1>1. PICK y, new, t : /\ y = Head(worklist) /\ new = Meet(y, cfg.succ[y], postdominators)
                         /\ t = IF new # postdominators[y] THEN cfg.pred[y] ELSE <<>>
    OBVIOUS
  <1>2. postdominators' = [postdominators EXCEPT ![y] = new] /\ worklist' = Tail(worklist) \o t
    BY <1>1
  <1>3. /\ Graph /\ worklist \in Seq(Exiting) /\ worklist # <<>>
        /\ DomState(dominators, {}) /\ PdomState(postdominators, ToSet(worklist))
    BY DEF IInv
  <1>4. y \in Exiting /\ y \in Blocks
    BY <1>1, <1>3, ExitingLeast
  <1>5. cfg.pred[y] \in Seq(Blocks) /\ ToSet(cfg.pred[y]) = Pred[y] /\ Pred[y] \subseteq Exiting
    BY <1>3, <1>4, ExitingLeast, GraphFacts
  <1>6. t \in Seq(Exiting) /\ (new # postdominators[y] => ToSet(t) = Pred[y])
    <2>1. cfg.pred[y] \in Seq(Exiting)
      BY <1>5, Within
    <2> QED
      BY <1>1, <1>5, <2>1
  <1>7. PICK R, next : next = worklist' /\ R = ToSet(next)
    OBVIOUS
  <1>8. /\ next \in Seq(Exiting)
        /\ \A q \in ToSet(worklist) : q = y \/ q \in R
        /\ ToSet(t) \subseteq R
    <2>1. next = Tail(worklist) \o t
      BY <1>2, <1>7
    <2> QED
      BY <1>1, <1>3, <1>6, <1>7, <2>1, Queue
  <1>9. PdomState(postdominators', R)
    <2>1. PICK Q : Q = ToSet(worklist) /\ PdomState(postdominators, Q)
      BY <1>3
    <2>2. Meet(y, cfg.succ[y], postdominators) # postdominators[y] => Pred[y] \subseteq R
      BY <1>1, <1>6, <1>8
    <2>3. \A q \in Q : q = y \/ q \in R
      BY <1>8, <2>1
    <2>4. PdomState([postdominators EXCEPT ![y] = Meet(y, cfg.succ[y], postdominators)], R)
      BY <1>3, <1>4, <2>1, <2>2, <2>3, PostdominatorsKept
    <2> QED
      BY <1>1, <1>2, <2>4
  <1>10. PdomState(postdominators, R)' /\ DomState(dominators, {})'
    BY <1>3, <1>9, SamePdomState, SameDomState
  <1>11. PdomState(postdominators, ToSet(worklist))'
    <2>1. R = ToSet(worklist)'
      BY <1>7 DEF ToSet
    <2> QED
      BY <1>10, <2>1 DEF PdomState
  <1> QED
    BY <1>3, <1>7, <1>8, <1>10, <1>11, SameGraph DEF IInv, Analysed

LEMMA DefineLoopsKeeps ==
  ASSUME IInv, DefineLoops PROVE IInv'
  <1> USE DEF DefineLoops
  <1>1. Graph /\ DomState(dominators, {}) /\ PdomState(postdominators, ToSet(worklist)) /\ worklist = <<>>
    BY DEF IInv
  <1>2. PdomState(postdominators, {})
    <2>1. ToSet(<<>>) = {}
      BY DEF ToSet
    <2> QED
      BY <1>1, <2>1
  <1>3. PdomState(postdominators, {})' /\ DomState(dominators, {})'
    BY <1>1, <1>2, SameDomState, SamePdomState
  <1>4. loops' = LoopsOf(dominators)'
    BY SameLoops
  <1> QED
    BY <1>1, <1>3, <1>4, SameGraph DEF IInv, Analysed

(* Nothing after the analysis changes the graph or its sets.               *)
LEMMA LaterKeeps ==
  ASSUME IInv, cfg' = cfg,
         \/ phase' \in {"ends", "run", "undefined"}
         \/ UNCHANGED <<phase, worklist, dominators, postdominators, loops>>
  PROVE  IInv'
  <1>1. Graph'
    BY SameGraph DEF IInv
  <1>2. CASE phase' \in {"ends", "run", "undefined"}
    BY <1>1, <1>2 DEF IInv, Analysed
  <1>3. CASE UNCHANGED <<phase, worklist, dominators, postdominators, loops>>
    <2>1. ASSUME NEW Q, DomState(dominators, Q) PROVE DomState(dominators, Q)'
      BY <1>3, <2>1, SameDomState
    <2>2. ASSUME NEW Q, PdomState(postdominators, Q) PROVE PdomState(postdominators, Q)'
      BY <1>3, <2>2, SamePdomState
    <2>3. LoopsOf(dominators)' = LoopsOf(dominators)
      BY <1>3, SameLoops
    <2>4. ASSUME phase = "dominators" PROVE DomState(dominators, ToSet(worklist))'
      <3>1. PICK Q : Q = ToSet(worklist)
        OBVIOUS
      <3>2. DomState(dominators, Q)'
        BY <2>1, <2>4, <3>1 DEF IInv
      <3> QED
        BY <1>3, <3>1, <3>2 DEF DomState, ToSet
    <2>5. ASSUME phase = "postdominators" PROVE PdomState(postdominators, ToSet(worklist))'
      <3>1. PICK Q : Q = ToSet(worklist)
        OBVIOUS
      <3>2. PdomState(postdominators, Q)'
        BY <2>2, <2>5, <3>1 DEF IInv
      <3> QED
        BY <1>3, <3>1, <3>2 DEF PdomState, ToSet
    <2> QED
      BY <1>1, <1>3, <2>1, <2>2, <2>3, <2>4, <2>5, SameGraph DEF IInv, Analysed
  <1> QED
    BY <1>2, <1>3

LEMMA InvariantKept ==
  ASSUME IInv, [PFNext]_pfvars PROVE IInv'
  <1>1. CASE CFNext
    BY <1>1, DominatorsStepKeeps, StartPostdominatorsKeeps, PostdominatorsStepKeeps, DefineLoopsKeeps DEF CFNext
  <1>2. CASE FindMinimalWindows
    BY <1>2, LaterKeeps DEF FindMinimalWindows
  <1>3. CASE ProcessStep
    BY <1>3, LaterKeeps DEF ProcessStep, cfvars
  <1>4. CASE Prune
    BY <1>4, LaterKeeps DEF Prune, cfvars
  <1>5. CASE BackOfEmpty
    BY <1>5, LaterKeeps DEF BackOfEmpty
  <1>6. CASE CollectStarts
    BY <1>6, LaterKeeps DEF CollectStarts
  <1>7. CASE FindEnds
    <2>1. phase' \in {"undefined", "run"} /\ cfg' = cfg
      BY <1>7 DEF FindEnds
    <2> QED
      BY <2>1, LaterKeeps
  <1>8. CASE ReleasesEnd
    BY <1>8, LaterKeeps DEF ReleasesEnd
  <1>9. CASE Execute
    BY <1>9, LaterKeeps DEF Execute, cfvars
  <1>10. CASE UNCHANGED pfvars
    BY <1>10, LaterKeeps DEF pfvars, cfvars
  <1> QED
    BY <1>1, <1>2, <1>3, <1>4, <1>5, <1>6, <1>7, <1>8, <1>9, <1>10 DEF PFNext, RPNext

(* The sets the worklists of ComputeDominators leave behind are the        *)
(* dominators of every reachable block and the postdominators of every     *)
(* block an exit can be reached from, whatever the shape of the function   *)
(* and the number of its blocks; a reachable block has one immediate       *)
(* dominator, and what DefineLoops finds are natural loops.                *)
THEOREM GraphsAlwaysExact == PFSpec => []GraphsExact
  <1>1. PFInit => IInv
    BY InvariantStarts DEF PFInit, RPInit
  <1>2. IInv /\ [PFNext]_pfvars => IInv'
    BY InvariantKept
  <1>3. IInv => GraphsExact
    BY GraphsFromInvariant
  <1> QED
    BY <1>1, <1>2, <1>3, PTL DEF PFSpec

(***************************************************************************)
(* How control moves through the blocks of Function::BuildCFG.             *)
(***************************************************************************)

LEMMA LeaderUnique ==
  ASSUME NEW p, NEW i \in Nat \ {0}, NEW l \in 1 .. i, IsLeader(p, l), \A k \in (l + 1) .. i : ~IsLeader(p, k)
  PROVE  Leader(p, i) = l
  <1>1. PICK m : m = Leader(p, i)
    OBVIOUS
  <1>2. m \in 1 .. i /\ IsLeader(p, m) /\ \A k \in (m + 1) .. i : ~IsLeader(p, k)
    BY <1>1, LeaderOf
  <1>3. m \notin (l + 1) .. i /\ l \notin (m + 1) .. i
    BY <1>2
  <1> QED
    BY <1>1, <1>2, <1>3

(* A block is an interval of instructions.                                 *)
LEMMA BlockIsInterval ==
  ASSUME NEW p \in Programs, NEW b, NEW i \in Insts(p, b)
  PROVE  /\ b \in 1 .. i /\ IsLeader(p, b) /\ i \in DOMAIN p /\ i \in Nat
         /\ \A k \in b .. i : k \in Insts(p, b)
         /\ \A k \in (b + 1) .. i : ~IsLeader(p, k)
  <1>1. PICK n : n = Len(p) /\ n \in Nat /\ DOMAIN p = 1 .. n
    BY ProgramShape
  <1>2. i \in 1 .. n /\ Leader(p, i) = b
    BY <1>1 DEF Insts
  <1>3. b \in 1 .. i /\ IsLeader(p, b) /\ \A k \in (b + 1) .. i : ~IsLeader(p, k)
    BY <1>2, LeaderOf
  <1>4. ASSUME NEW k \in b .. i PROVE k \in Insts(p, b)
    <2>1. k \in Nat \ {0} /\ b \in 1 .. k /\ k \in 1 .. n
      BY <1>1, <1>2, <1>3
    <2>2. \A j \in (b + 1) .. k : j \in (b + 1) .. i
      BY <1>2, <1>3, <2>1
    <2>3. Leader(p, k) = b
      BY <1>3, <2>1, <2>2, LeaderUnique
    <2> QED
      BY <1>1, <2>1, <2>3 DEF Insts
  <1> QED
    BY <1>1, <1>2, <1>3, <1>4

LEMMA LeaderLeadsItself ==
  ASSUME NEW p, NEW i \in Nat \ {0}, IsLeader(p, i)
  PROVE  Leader(p, i) = i
  <1>1. i \in 1 .. i /\ \A k \in (i + 1) .. i : FALSE
    OBVIOUS
  <1> QED
    BY <1>1, LeaderUnique

(* Control stays in a block, or leaves its last instruction for the first  *)
(* of another.                                                             *)
LEMMA FlowOfBlocks ==
  ASSUME NEW p \in Programs, NEW i \in DOMAIN p, NEW n \in ToSet(Edges(p, i)), n \in DOMAIN p
  PROVE  \/ EndsBlock(p, i) /\ IsLeader(p, n) /\ Leader(p, n) = n
         \/ ~EndsBlock(p, i) /\ n = i + 1 /\ Leader(p, n) = Leader(p, i) /\ ~IsLeader(p, n)
  <1>1. PICK N : N = Len(p) /\ N \in Nat /\ DOMAIN p = 1 .. N
    BY ProgramShape
  <1>2. i \in 1 .. N /\ n \in 1 .. N
    BY <1>1
  <1>3. Edges(p, i) # <<>>
    <2>1. ToSet(<<>>) = {}
      BY DEF ToSet
    <2> QED
      BY <2>1
  <1>4. n = i + 1 \/ (p[i].op \in Jumps /\ n = p[i].target)
    <2>1. PICK a, b : /\ a = (IF has_fallthrough(p, i) THEN <<i + 1>> ELSE <<>>)
                      /\ b = (IF p[i].op \in Jumps THEN <<p[i].target>> ELSE <<>>)
      OBVIOUS
    <2>2. \A x \in Addresses : <<x>> \in Seq(Addresses) /\ ToSet(<<x>>) = {x}
      BY DEF ToSet
    <2>3. <<>> \in Seq(Addresses) /\ ToSet(<<>>) = {}
      BY DEF ToSet
    <2>4. i + 1 \in Addresses /\ (p[i].op \in Jumps => p[i].target \in Addresses)
      BY <1>1, <1>2, ProgramShape DEF Addresses
    <2>5. a \in Seq(Addresses) /\ ToSet(a) \subseteq {i + 1}
      BY <2>1, <2>2, <2>3, <2>4
    <2>6. b \in Seq(Addresses) /\ \A x \in ToSet(b) : p[i].op \in Jumps /\ x = p[i].target
      BY <2>1, <2>2, <2>3, <2>4
    <2>7. ToSet(Edges(p, i)) = ToSet(a) \cup ToSet(b)
      BY <2>1, <2>5, <2>6, Joined DEF Edges
    <2> QED
      BY <2>5, <2>6, <2>7
  <1>5. CASE EndsBlock(p, i)
    <2>1. IsLeader(p, n)
      <3>1. CASE n = i + 1
        <4>1. n - 1 = i
          BY <1>2, <3>1
        <4> QED
          BY <1>5, <4>1 DEF IsLeader
      <3>2. CASE p[i].op \in Jumps /\ n = p[i].target /\ n # 1
        <4>1. n - 1 \in 1 .. N /\ n - 1 < N /\ (n - 1) + 1 = n
          BY <1>1, <1>2, <3>2
        <4>2. IsJumpTarget(p, n)
          BY <3>2 DEF IsJumpTarget
        <4>3. EndsBlock(p, n - 1)
          BY <1>1, <4>1, <4>2 DEF EndsBlock
        <4> QED
          BY <4>3 DEF IsLeader
      <3>3. CASE n = 1
        BY <3>3 DEF IsLeader
      <3> QED
        BY <1>4, <3>1, <3>2, <3>3
    <2>2. n \in Nat \ {0}
      BY <1>2
    <2> QED
      BY <1>5, <2>1, <2>2, LeaderLeadsItself
  <1>6. CASE ~EndsBlock(p, i)
    <2>1. n = i + 1
      BY <1>4, <1>6 DEF EndsBlock
    <2>2. n # 1 /\ n - 1 = i
      BY <1>2, <2>1
    <2>3. ~IsLeader(p, n)
      BY <1>3, <1>6, <2>2 DEF IsLeader
    <2>4. PICK l : l = Leader(p, i) /\ l \in 1 .. i /\ IsLeader(p, l) /\ \A k \in (l + 1) .. i : ~IsLeader(p, k)
      BY <1>2, LeaderOf
    <2>5. l \in 1 .. n /\ \A k \in (l + 1) .. n : k = n \/ k \in (l + 1) .. i
      BY <1>2, <2>1, <2>4
    <2>6. Leader(p, n) = l
      BY <1>2, <2>3, <2>4, <2>5, LeaderUnique
    <2> QED
      BY <1>6, <2>1, <2>3, <2>4, <2>6
  <1> QED
    BY <1>5, <1>6

(* An instruction nothing follows is the last of its block.                *)
LEMMA LeavesAtLast ==
  ASSUME NEW p \in Programs, NEW i \in DOMAIN p, Edges(p, i) = <<>>
  PROVE  i \in Insts(p, Leader(p, i)) /\ LastInst(p, Leader(p, i)) = i
  <1>1. PICK N : N = Len(p) /\ N \in Nat /\ DOMAIN p = 1 .. N
    BY ProgramShape
  <1>2. i \in 1 .. N
    BY <1>1
  <1>3. PICK l : l = Leader(p, i) /\ l \in 1 .. i
    BY <1>2, LeaderOf
  <1>4. i \in Insts(p, l)
    BY <1>1, <1>2, <1>3 DEF Insts
  <1>5. IsLeader(p, i + 1)
    <2>1. (i + 1) - 1 = i
      BY <1>2
    <2> QED
      BY <2>1 DEF IsLeader
  <1>6. ASSUME NEW j \in Insts(p, l) PROVE j \in Nat /\ j <= i
    <2>1. j \in Nat /\ \A k \in (l + 1) .. j : ~IsLeader(p, k)
      BY BlockIsInterval
    <2>2. i + 1 \notin (l + 1) .. j
      BY <1>5, <2>1
    <2> QED
      BY <1>2, <1>3, <2>1, <2>2
  <1>7. LastInst(p, l) \in Insts(p, l) /\ \A k \in Insts(p, l) : k <= LastInst(p, l)
    <2>1. \E j \in Insts(p, l) : \A k \in Insts(p, l) : k <= j
      BY <1>4, <1>6
    <2> QED
      BY <2>1 DEF LastInst
  <1>8. LastInst(p, l) = i
    BY <1>2, <1>4, <1>6, <1>7
  <1> QED
    BY <1>3, <1>4, <1>8

LEMMA LastIsGreatest ==
  ASSUME NEW p \in Programs, NEW b, NEW i \in Insts(p, b)
  PROVE  LastInst(p, b) \in Insts(p, b) /\ i <= LastInst(p, b) /\ LastInst(p, b) \in Nat /\ i \in Nat
  <1>1. PICK n : n = Len(p) /\ n \in Nat /\ DOMAIN p = 1 .. n
    BY ProgramShape
  <1> DEFINE T == {n - j : j \in Insts(p, b)}
  <1>2. \A j \in Insts(p, b) : j \in 1 .. n
    BY <1>1 DEF Insts
  <1>3. PICK m \in T : \A k \in T : m <= k
    <2>1. T \subseteq Nat /\ T # {}
      BY <1>1, <1>2
    <2> HIDE DEF T
    <2> QED
      BY <2>1, LeastElement
  <1>4. PICK j \in Insts(p, b) : m = n - j
    BY <1>3
  <1>5. \A k \in Insts(p, b) : k <= j
    <2>1. \A k \in Insts(p, b) : n - j <= n - k
      BY <1>3, <1>4
    <2> QED
      BY <1>1, <1>2, <2>1
  <1>6. LastInst(p, b) \in Insts(p, b) /\ \A k \in Insts(p, b) : k <= LastInst(p, b)
    BY <1>5 DEF LastInst
  <1> QED
    BY <1>2, <1>6

(* The first of a sequence of pieces is the first of the first piece.      *)
LEMMA FlattenFirst ==
  ASSUME NEW S, NEW n \in Nat \ {0}, NEW g \in [1 .. n -> Seq(S)], g[1] # <<>>
  PROVE  FlattenSeq(g)[1] = g[1][1]
  <1>1. g \in Seq(Seq(S)) /\ g # <<>> /\ Len(g) = n
    OBVIOUS
  <1>2. PICK f : Flattens(g, f) /\ FlattenSeq(g) = f[n]
    BY <1>1, FlattenSteps
  <1>3. f[1] = g[1] /\ \A i \in 1 .. n : i # 1 => f[i] = f[i - 1] \o g[i]
    <2>1. f = [i \in 1 .. n |-> IF i = 1 THEN g[i] ELSE f[i - 1] \o g[i]]
      BY <1>1, <1>2 DEF Flattens
    <2>2. \A i \in 1 .. n : f[i] = IF i = 1 THEN g[i] ELSE f[i - 1] \o g[i]
      BY <2>1
    <2>3. 1 \in 1 .. n
      OBVIOUS
    <2> QED
      BY <2>2, <2>3
  <1> DEFINE P(s) == s \in Seq(S) /\ s # <<>> /\ s[1] = g[1][1]
             T == {m \in Nat : m + 1 \in 1 .. n => P(f[m + 1])}
  <1>4. 0 \in T
    BY <1>3
  <1>5. ASSUME NEW m \in Nat, m \in T PROVE m + 1 \in T
    <2> SUFFICES ASSUME (m + 1) + 1 \in 1 .. n PROVE P(f[(m + 1) + 1])
      OBVIOUS
    <2>1. m + 1 \in 1 .. n /\ (m + 1) + 1 # 1 /\ ((m + 1) + 1) - 1 = m + 1
      OBVIOUS
    <2>2. PICK s, t : s = f[m + 1] /\ t = g[(m + 1) + 1]
      OBVIOUS
    <2>3. P(s) /\ t \in Seq(S) /\ f[(m + 1) + 1] = s \o t
      BY <1>3, <1>5, <2>1, <2>2
    <2>4. P(s \o t)
      BY <2>3
    <2> QED
      BY <2>3, <2>4
  <1>6. n - 1 \in T
    <2>1. n - 1 \in Nat
      OBVIOUS
    <2> HIDE DEF T
    <2> QED
      BY <1>4, <1>5, <2>1, UpFromZero
  <1>7. (n - 1) + 1 = n /\ n \in 1 .. n
    OBVIOUS
  <1> QED
    BY <1>2, <1>6, <1>7

LEMMA KeepFirst ==
  ASSUME NEW S, NEW s \in Seq(S), s # <<>>, NEW N, 1 \in N
  PROVE  KeepAt(s, N)[1] = s[1]
  <1>1. PICK n : n = Len(s) /\ n \in Nat \ {0} /\ DOMAIN s = 1 .. n
    OBVIOUS
  <1>2. PICK g : g = [k \in 1 .. n |-> IF k \in N THEN <<s[k]>> ELSE <<>>]
    OBVIOUS
  <1>3. g \in [1 .. n -> Seq(S)]
    <2>1. \A x \in S : <<x>> \in Seq(S)
      OBVIOUS
    <2>2. \A k \in 1 .. n : s[k] \in S
      BY <1>1
    <2>3. \A k \in 1 .. n : (IF k \in N THEN <<s[k]>> ELSE <<>>) \in Seq(S)
      BY <2>1, <2>2
    <2> QED
      BY <1>2, <2>3
  <1>4. g[1] = <<s[1]>> /\ g[1] # <<>>
    BY <1>1, <1>2
  <1>5. FlattenSeq(g)[1] = g[1][1]
    BY <1>1, <1>3, <1>4, FlattenFirst
  <1>6. KeepAt(s, N) = FlattenSeq(g)
    BY <1>1, <1>2 DEF KeepAt
  <1> QED
    BY <1>4, <1>5, <1>6

LEMMA BlocksOfCode ==
  ASSUME NEW p \in Programs, NEW g, g = BuildCFG(p)
  PROVE  /\ \A i \in DOMAIN p : Leader(p, i) \in ToSet(g.blocks)
         /\ \A i \in DOMAIN p : EndsBlock(p, i) => ToSet(Edges(p, i)) \subseteq ToSet(g.blocks)
         /\ \A b \in ToSet(g.blocks) :
              g.succ[b] = IF Insts(p, b) = {} \/ ~EndsBlock(p, LastInst(p, b)) THEN <<>> ELSE Edges(p, LastInst(p, b))
         /\ g.blocks[1] = 1
  <1> DEFINE new   == NewBlocks(p)
             first == {k \in DOMAIN new : \A j \in 1 .. (k - 1) : new[j] # new[k]}
             seq   == KeepAt(new, first)
             next(b) == IF Insts(p, b) = {} \/ ~EndsBlock(p, LastInst(p, b)) THEN <<>> ELSE Edges(p, LastInst(p, b))
  <1>1. PICK n : n = Len(p) /\ n \in Nat \ {0} /\ DOMAIN p = 1 .. n
    BY ProgramShape
  <1>2. g.blocks = seq /\ g.succ = [b \in ToSet(seq) |-> next(b)]
    BY DEF BuildCFG
  <1>3. new \in Seq(Addresses) /\ ToSet(seq) = ToSet(new)
    BY NewBlocksHold, FirstOccurrences
  <1>4. \A x : x \in ToSet(new) <=>
              \E i \in DOMAIN p : (x = i /\ IsLeader(p, i)) \/ (EndsBlock(p, i) /\ x \in ToSet(Edges(p, i)))
    BY NewBlocksHold
  <1> HIDE DEF new, seq, next
  <1>5. ASSUME NEW i \in DOMAIN p PROVE Leader(p, i) \in ToSet(seq)
    <2>1. Leader(p, i) \in DOMAIN p /\ IsLeader(p, Leader(p, i))
      BY <1>1, LeaderOf
    <2> QED
      BY <1>3, <1>4, <2>1
  <1>6. ASSUME NEW i \in DOMAIN p, EndsBlock(p, i) PROVE ToSet(Edges(p, i)) \subseteq ToSet(seq)
    BY <1>3, <1>4, <1>6
  <1>7. seq[1] = 1
    <2> DEFINE own(i) == IF IsLeader(p, i) THEN <<i>> ELSE <<>>
               ahead(i) == IF EndsBlock(p, i) THEN Edges(p, i) ELSE <<>>
    <2>1. PICK h : h = [i \in 1 .. n |-> own(i) \o ahead(i)]
      OBVIOUS
    <2>2. new = FlattenSeq(h)
      BY <1>1, <2>1 DEF NewBlocks, new
    <2>3. ASSUME NEW i \in 1 .. n PROVE own(i) \in Seq(Addresses) /\ ahead(i) \in Seq(Addresses)
      <3>1. i \in Addresses /\ i \in DOMAIN p
        BY <1>1 DEF Addresses
      <3>2. <<i>> \in Seq(Addresses)
        BY <3>1
      <3>3. Edges(p, i) \in Seq(Addresses)
        BY <3>1, EdgesAreAddresses
      <3> QED
        BY <3>2, <3>3
    <2>4. own(1) = <<1>>
      BY DEF IsLeader
    <2>5. 1 \in 1 .. n
      BY <1>1
    <2> HIDE DEF own, ahead
    <2>6. h \in [1 .. n -> Seq(Addresses)]
      BY <2>1, <2>3
    <2>7. h[1] # <<>> /\ h[1][1] = 1
      <3>1. PICK s : s = ahead(1) /\ s \in Seq(Addresses)
        BY <2>3, <2>5
      <3>2. h[1] = <<1>> \o s
        BY <2>1, <2>4, <2>5, <3>1
      <3>3. Len(<<1>> \o s) = 1 + Len(s) /\ (<<1>> \o s)[1] = 1 /\ Len(s) \in Nat
        BY <3>1
      <3> QED
        BY <3>2, <3>3
    <2>8. new[1] = 1
      BY <1>1, <2>2, <2>6, <2>7, FlattenFirst
    <2>9. new # <<>>
      <3>1. 1 \in ToSet(new)
        BY <1>1, <1>4, <2>5 DEF IsLeader
      <3>2. ToSet(<<>>) = {}
        BY DEF ToSet
      <3> QED
        BY <3>1, <3>2
    <2>10. 1 \in first
      <3>1. 1 \in DOMAIN new
        BY <1>3, <2>9
      <3> QED
        BY <3>1
    <2> HIDE DEF first
    <2> QED
      BY <1>3, <2>8, <2>9, <2>10, KeepFirst DEF seq
  <1> QED
    BY <1>2, <1>5, <1>6, <1>7 DEF next

Built == code \in Programs /\ cfg = BuildCFG(code)

LEMMA BuiltFacts ==
  ASSUME Built
  PROVE  /\ Graph /\ Entry = 1
         /\ \A i \in DOMAIN code : Leader(code, i) \in Blocks
         /\ \A i \in DOMAIN code : EndsBlock(code, i) => ToSet(Edges(code, i)) \subseteq Blocks
         /\ \A b \in Blocks : cfg.succ[b] = IF Insts(code, b) = {} \/ ~EndsBlock(code, LastInst(code, b))
                                            THEN <<>> ELSE Edges(code, LastInst(code, b))
  BY BuildsGraph, BlocksOfCode DEF Built, Graph, Blocks, Entry

LEMMA FlowOfControl ==
  ASSUME Built, NEW i \in DOMAIN code, NEW n \in ToSet(Edges(code, i))
  PROVE  /\ n \in DOMAIN code =>
              \/ n = i + 1 /\ ~IsLeader(code, n) /\ Leader(code, n) = Leader(code, i)
              \/ IsLeader(code, n) /\ Leader(code, n) = n /\ n \in Succ[Leader(code, i)]
         /\ n \notin DOMAIN code => n \in Exits /\ Insts(code, n) = {}
  <1>1. PICK N : N = Len(code) /\ N \in Nat /\ DOMAIN code = 1 .. N
    BY ProgramShape DEF Built
  <1>2. code \in Programs /\ Graph /\ i \in 1 .. N
    BY <1>1, BuiltFacts DEF Built
  <1>3. CASE n \in DOMAIN code /\ ~EndsBlock(code, i)
    BY <1>2, <1>3, FlowOfBlocks
  <1>4. CASE n \in DOMAIN code /\ EndsBlock(code, i)
    <2>1. IsLeader(code, n) /\ Leader(code, n) = n
      BY <1>2, <1>4, FlowOfBlocks
    <2>2. i \in Insts(code, Leader(code, i)) /\ LastInst(code, Leader(code, i)) = i
      BY <1>2, <1>4, LastOfItsBlock
    <2>3. Leader(code, i) \in Blocks /\ cfg.succ[Leader(code, i)] = Edges(code, i)
      BY <1>4, <2>2, BuiltFacts
    <2>4. Succ[Leader(code, i)] = ToSet(Edges(code, i))
      BY <1>2, <2>3, GraphFacts
    <2> QED
      BY <1>4, <2>1, <2>4
  <1>5. CASE n \notin DOMAIN code
    <2>1. EndsBlock(code, i)
      <3> SUFFICES ASSUME code[i].op \notin Jumps PROVE FALSE
        BY DEF EndsBlock
      <3>1. CASE has_fallthrough(code, i)
        <4>1. Edges(code, i) = <<i + 1>> \/ ToSet(Edges(code, i)) = {i + 1}
          BY <3>1 DEF Edges
        <4>2. n = i + 1 /\ i < N
          BY <1>1, <3>1, <4>1 DEF ToSet, has_fallthrough
        <4> QED
          BY <1>1, <1>2, <1>5, <4>2
      <3>2. CASE ~has_fallthrough(code, i)
        <4>1. Edges(code, i) = <<>>
          BY <3>2 DEF Edges
        <4> QED
          BY <4>1 DEF ToSet
      <3> QED
        BY <3>1, <3>2
    <2>2. n \in Blocks
      BY <2>1, BuiltFacts
    <2>3. Insts(code, n) = {}
      <3> SUFFICES ASSUME NEW j \in Insts(code, n) PROVE FALSE
        OBVIOUS
      <3>1. n \in 1 .. j /\ j \in 1 .. N
        BY <1>1, <1>2, BlockIsInterval
      <3> QED
        BY <1>1, <1>5, <3>1
    <2>4. cfg.succ[n] = <<>>
      BY <2>2, <2>3, BuiltFacts
    <2> QED
      BY <1>5, <2>2, <2>3, <2>4 DEF Exits
  <1> QED
    BY <1>3, <1>4, <1>5

LEMMA ControlLeaves ==
  ASSUME Built, NEW i \in DOMAIN code, Edges(code, i) = <<>>
  PROVE  Leader(code, i) \in Exits /\ i \in Insts(code, Leader(code, i)) /\ LastInst(code, Leader(code, i)) = i
  <1>1. i \in Insts(code, Leader(code, i)) /\ LastInst(code, Leader(code, i)) = i
    BY LeavesAtLast DEF Built
  <1>2. Leader(code, i) \in Blocks /\ cfg.succ[Leader(code, i)] = <<>>
    BY <1>1, BuiltFacts
  <1> QED
    BY <1>1, <1>2 DEF Exits

(* The blocks the access can be reached from.                              *)
Leading == Closure({Origin}, Pred)

LEMMA LeadingLeast ==
  ASSUME Graph, Origin \in Blocks
  PROVE  /\ Origin \in Leading /\ Leading \subseteq Blocks
         /\ \A b \in Leading : Pred[b] \subseteq Leading
         /\ \A T : Origin \in T /\ (\A b \in T \cap Blocks : Pred[b] \subseteq T) => Leading \subseteq T
  <1>1. {Origin} \in SUBSET Blocks /\ Pred \in [Blocks -> SUBSET Blocks] /\ IsFiniteSet(Blocks)
    BY GraphFacts
  <1>2. /\ {Origin} \subseteq Leading /\ Leading \subseteq Blocks
        /\ \A b \in Leading : Pred[b] \subseteq Leading
        /\ \A T : {Origin} \subseteq T /\ (\A b \in T \cap Blocks : Pred[b] \subseteq T) => Leading \subseteq T
    BY <1>1, ClosureLeast DEF Leading
  <1> QED
    BY <1>2

LEMMA ExitsDoNotLead ==
  ASSUME Graph, Origin \in Blocks, NEW b \in Leading, b \in Exits
  PROVE  b = Origin
  <1> DEFINE T == {c \in Blocks : c = Origin \/ Succ[c] # {}}
  <1>1. \A c \in T \cap Blocks : Pred[c] \subseteq T
    BY GraphFacts
  <1>2. Leading \subseteq T
    <2>1. Origin \in T
      OBVIOUS
    <2> HIDE DEF T
    <2> QED
      BY <1>1, <2>1, LeadingLeast
  <1>3. Succ[b] = {}
    <2>1. b \in Blocks /\ cfg.succ[b] = <<>> /\ Succ[b] = ToSet(cfg.succ[b])
      BY LeadingLeast, GraphFacts DEF Exits
    <2> QED
      BY <2>1 DEF ToSet
  <1> QED
    BY <1>2, <1>3

LEMMA LeadersReach ==
  ASSUME Graph, Origin \in Blocks, NEW b \in Leading, b \in Reachable
  PROVE  Origin \in Reachable
  <1> DEFINE T == {c \in Blocks : c \in Reachable => Origin \in Reachable}
  <1>1. \A c \in T \cap Blocks : Pred[c] \subseteq T
    BY GraphFacts, ReachableLeast
  <1>2. Leading \subseteq T
    <2>1. Origin \in T
      OBVIOUS
    <2> HIDE DEF T
    <2> QED
      BY <1>1, <2>1, LeadingLeast
  <1> QED
    BY <1>2

(* An exit dominates no other block.                                       *)
LEMMA ExitDominatesItself ==
  ASSUME Graph, NEW x \in Exits, NEW y \in Reachable, TrulyDominates(x, y)
  PROVE  x = y
  <1> DEFINE T == ReachableAvoiding(Entry, x) \cup {x}
  <1>0. x \in Blocks /\ Entry \in Blocks /\ Succ[x] = {}
    <2>1. x \in Blocks /\ cfg.succ[x] = <<>> /\ Succ[x] = ToSet(cfg.succ[x])
      BY GraphFacts DEF Exits
    <2> QED
      BY <2>1, GraphFacts DEF ToSet
  <1>1. Entry \in T
    BY <1>0, Avoiding
  <1>2. ASSUME NEW u \in T \cap Blocks, NEW v \in Succ[u] PROVE v \in T
    BY <1>0, <1>2, AvoidingStep
  <1>3. Reachable \subseteq T
    <2>1. \A u \in T \cap Blocks : Succ[u] \subseteq T
      BY <1>2
    <2> HIDE DEF T
    <2> QED
      BY <1>1, <2>1, ReachableLeast
  <1> QED
    BY <1>3 DEF TrulyDominates

LEMMA DominatesPredecessor ==
  ASSUME Graph, NEW x \in Blocks, NEW a \in Blocks, NEW b \in Succ[a], TrulyDominates(x, b), x # b
  PROVE  TrulyDominates(x, a)
  BY AvoidingStep, GraphFacts DEF TrulyDominates

(***************************************************************************)
(* FindPossiblePIFREnds: the ends of the function are considered one by    *)
(* one, and one left out has an end on its way that dominates.             *)
(***************************************************************************)

EndsFound(n, f) ==
  f = [k \in 0 .. n |-> IF k = 0 THEN ReleaseEnds ELSE AddCFGEnd(f[k - 1], Terminators[k])]

LEMMA EndsAfterSteps ==
  ASSUME NEW n \in Nat
  PROVE  \E f : EndsFound(n, f) /\ EndsAfter(n) = f[n]
  <1> DEFINE T == {m \in Nat : \E f : EndsFound(m, f)}
  <1>1. 0 \in T
    <2>1. PICK g : g = [k \in 0 .. 0 |-> ReleaseEnds]
      OBVIOUS
    <2>2. \A k \in 0 .. 0 : k = 0
      OBVIOUS
    <2>3. EndsFound(0, g)
      BY <2>1, <2>2 DEF EndsFound
    <2> QED
      BY <2>3
  <1>2. ASSUME NEW m \in Nat, m \in T PROVE m + 1 \in T
    <2>1. PICK g : EndsFound(m, g)
      BY <1>2
    <2> DEFINE h == [k \in 0 .. m + 1 |-> IF k = 0 THEN ReleaseEnds ELSE AddCFGEnd(g[k - 1], Terminators[k])]
    <2>2. ASSUME NEW i \in 0 .. m PROVE g[i] = h[i]
      <3>1. g[i] = IF i = 0 THEN ReleaseEnds ELSE AddCFGEnd(g[i - 1], Terminators[i])
        BY <2>1 DEF EndsFound
      <3>2. i \in 0 .. m + 1
        OBVIOUS
      <3>3. h[i] = IF i = 0 THEN ReleaseEnds ELSE AddCFGEnd(g[i - 1], Terminators[i])
        BY <3>2
      <3> HIDE DEF h
      <3> QED
        BY <3>1, <3>3
    <2>3. ASSUME NEW i \in 0 .. m + 1, i # 0 PROVE g[i - 1] = h[i - 1]
      <3>1. i - 1 \in 0 .. m
        BY <2>3
      <3> HIDE DEF h
      <3> QED
        BY <2>2, <3>1
    <2>4. h = [i \in 0 .. m + 1 |-> IF i = 0 THEN ReleaseEnds ELSE AddCFGEnd(h[i - 1], Terminators[i])]
      <3> DEFINE k == [i \in 0 .. m + 1 |-> IF i = 0 THEN ReleaseEnds ELSE AddCFGEnd(h[i - 1], Terminators[i])]
      <3>1. \A i \in 0 .. m + 1 : h[i] = k[i]
        BY <2>3
      <3> QED
        BY <3>1
    <2>5. EndsFound(m + 1, h)
      BY <2>4 DEF EndsFound
    <2> HIDE DEF h
    <2> QED
      BY <2>5
  <1>3. n \in T
    <2> HIDE DEF T
    <2> QED
      BY <1>1, <1>2, UpFromZero
  <1>4. \E f : EndsFound(n, f)
    BY <1>3
  <1>5. EndsFound(n, CHOOSE f : EndsFound(n, f))
    BY <1>4
  <1>6. EndsAfter(n) = (CHOOSE f : EndsFound(n, f))[n]
    BY DEF EndsAfter, EndsFound
  <1> QED
    BY <1>5, <1>6

(* An end of the function on whose way from the access an end dominates.   *)
LeftOpen(b, es) ==
  /\ AdjacentTo(LastInst(code, b))
  /\ \E i \in Between(LastInst(code, b)), e \in es : Dominates(BlockOf(e), BlockOf(i))

LEMMA TerminatorsAreExits ==
  ASSUME Graph
  PROVE  Terminators \in Seq(Blocks) /\ ToSet(Terminators) = Exits
  <1>1. PICK N : N = {k \in DOMAIN cfg.blocks : cfg.succ[cfg.blocks[k]] = <<>>}
    OBVIOUS
  <1>2. cfg.blocks \in Seq(Blocks) /\ Terminators = KeepAt(cfg.blocks, N)
    BY <1>1, GraphFacts DEF Terminators
  <1>3. Terminators \in Seq(Blocks) /\ ToSet(Terminators) = {cfg.blocks[k] : k \in (DOMAIN cfg.blocks) \cap N}
    BY <1>2, KeepHolds
  <1>4. Blocks = {cfg.blocks[k] : k \in DOMAIN cfg.blocks}
    BY DEF Blocks, ToSet
  <1> QED
    BY <1>1, <1>3, <1>4 DEF Exits

LEMMA EndsOfFunction ==
  ASSUME Graph, NEW es, es = EndsAfter(Len(Terminators))
  PROVE  /\ ReleaseEnds \subseteq es
         /\ \A e \in es : e \in ReleaseEnds \/ \E b \in Exits : e = LastInst(code, b)
         /\ \A b \in Exits : LastInst(code, b) \in es \/ LeftOpen(b, es)
  <1>1. Terminators \in Seq(Blocks) /\ ToSet(Terminators) = Exits
    BY TerminatorsAreExits
  <1>2. PICK n, ts : ts = Terminators /\ n = Len(ts) /\ n \in Nat /\ DOMAIN ts = 1 .. n
    BY <1>1
  <1>3. PICK f : EndsFound(n, f) /\ es = f[n]
    BY <1>2, EndsAfterSteps
  <1>4. f[0] = ReleaseEnds /\ \A k \in 1 .. n : f[k] = AddCFGEnd(f[k - 1], ts[k])
    <2>1. \A k \in 0 .. n : f[k] = IF k = 0 THEN ReleaseEnds ELSE AddCFGEnd(f[k - 1], ts[k])
      BY <1>2, <1>3 DEF EndsFound
    <2>2. 0 \in 0 .. n /\ \A k \in 1 .. n : k \in 0 .. n /\ k # 0
      BY <1>2
    <2> QED
      BY <2>1, <2>2
  <1> DEFINE Kept(s, m) == /\ ReleaseEnds \subseteq s
                           /\ \A e \in s : e \in ReleaseEnds \/ \E b \in Exits : e = LastInst(code, b)
                           /\ \A k \in 1 .. m : LastInst(code, ts[k]) \in s \/ LeftOpen(ts[k], s)
             T == {m \in Nat : m \in 0 .. n => Kept(f[m], m)}
  <1>5. 0 \in T
    BY <1>4
  <1>6. ASSUME NEW m \in Nat, m \in T PROVE m + 1 \in T
    <2> SUFFICES ASSUME m + 1 \in 0 .. n PROVE Kept(f[m + 1], m + 1)
      OBVIOUS
    <2>1. m \in 0 .. n /\ m + 1 \in 1 .. n /\ (m + 1) - 1 = m
      BY <1>2
    <2>2. PICK s, b, end : s = f[m] /\ b = ts[m + 1] /\ end = LastInst(code, b)
      OBVIOUS
    <2>3. Kept(s, m) /\ f[m + 1] = AddCFGEnd(s, b)
      BY <1>4, <1>6, <2>1, <2>2
    <2>4. b \in Exits
      BY <1>1, <1>2, <2>1, <2>2 DEF ToSet
    <2>5. \/ f[m + 1] = s /\ LeftOpen(b, s)
          \/ f[m + 1] = s \cup {end}
      BY <2>2, <2>3 DEF AddCFGEnd, LeftOpen
    <2>6. PICK r : r = f[m + 1]
      OBVIOUS
    <2>7. s \subseteq r /\ r \subseteq s \cup {end} /\ (end \in r \/ LeftOpen(b, r))
      BY <2>5, <2>6
    <2>8. \A c : LeftOpen(c, s) => LeftOpen(c, r)
      BY <2>7 DEF LeftOpen
    <2>9. ASSUME NEW k \in 1 .. (m + 1) PROVE LastInst(code, ts[k]) \in r \/ LeftOpen(ts[k], r)
      <3>1. CASE k = m + 1
        BY <2>2, <2>7, <3>1
      <3>2. CASE k \in 1 .. m
        BY <2>3, <2>7, <2>8, <3>2
      <3> QED
        BY <3>1, <3>2
    <2>10. ReleaseEnds \subseteq r /\ \A e \in r : e \in ReleaseEnds \/ \E c \in Exits : e = LastInst(code, c)
      BY <2>2, <2>3, <2>4, <2>7
    <2> QED
      BY <2>6, <2>9, <2>10
  <1>7. Kept(es, n)
    <2>1. n \in T
      <3> HIDE DEF T
      <3> QED
        BY <1>2, <1>5, <1>6, UpFromZero
    <2> QED
      BY <1>2, <1>3, <2>1
  <1>8. ASSUME NEW b \in Exits PROVE LastInst(code, b) \in es \/ LeftOpen(b, es)
    <2>1. PICK k \in 1 .. n : b = ts[k]
      BY <1>1, <1>2 DEF ToSet
    <2> QED
      BY <1>7, <2>1
  <1> QED
    BY <1>7, <1>8

(***************************************************************************)
(* WalkBlock stops at an instruction of the block.                         *)
(***************************************************************************)

Walks(b, from, t, f) ==
  f = [i \in b .. from |-> IF i = from THEN [possible |-> TRUE, inst |-> from, target |-> t] ELSE WalkBack(f[i + 1], i)]

LEMMA WalkSteps ==
  ASSUME NEW b \in Nat, NEW from \in Nat, b <= from, NEW t
  PROVE  \E f : Walks(b, from, t, f) /\ WalkBlock(b, from, t) = f[b]
  <1> DEFINE first == [possible |-> TRUE, inst |-> from, target |-> t]
             T == {m \in Nat : \E f : Walks(from - m, from, t, f)}
  <1>1. 0 \in T
    <2>1. PICK g : g = [i \in from .. from |-> first]
      OBVIOUS
    <2>2. (\A i \in from .. from : i = from) /\ from - 0 = from
      OBVIOUS
    <2>3. Walks(from, from, t, g)
      BY <2>1, <2>2 DEF Walks
    <2> QED
      BY <2>2, <2>3
  <1>2. ASSUME NEW m \in Nat, m \in T PROVE m + 1 \in T
    <2>1. PICK g : Walks(from - m, from, t, g)
      BY <1>2
    <2>2. PICK c \in Int : c = from - m /\ c - 1 = from - (m + 1) /\ c <= from
      OBVIOUS
    <2> DEFINE h == [i \in (c - 1) .. from |-> IF i = from THEN first ELSE WalkBack(g[i + 1], i)]
    <2>3. ASSUME NEW i \in c .. from PROVE g[i] = h[i]
      <3>1. g[i] = IF i = from THEN first ELSE WalkBack(g[i + 1], i)
        BY <2>1, <2>2 DEF Walks
      <3>2. i \in (c - 1) .. from
        BY <2>2
      <3>3. h[i] = IF i = from THEN first ELSE WalkBack(g[i + 1], i)
        BY <3>2
      <3> HIDE DEF h
      <3> QED
        BY <3>1, <3>3
    <2>4. ASSUME NEW i \in (c - 1) .. from, i # from PROVE g[i + 1] = h[i + 1]
      <3>1. i + 1 \in c .. from
        BY <2>2, <2>4
      <3> HIDE DEF h
      <3> QED
        BY <2>3, <3>1
    <2>5. h = [i \in (c - 1) .. from |-> IF i = from THEN first ELSE WalkBack(h[i + 1], i)]
      <3> DEFINE k == [i \in (c - 1) .. from |-> IF i = from THEN first ELSE WalkBack(h[i + 1], i)]
      <3>1. \A i \in (c - 1) .. from : h[i] = k[i]
        BY <2>4
      <3> QED
        BY <3>1
    <2>6. Walks(c - 1, from, t, h)
      BY <2>5 DEF Walks
    <2> HIDE DEF h
    <2> QED
      BY <2>2, <2>6
  <1>3. from - b \in T
    <2>1. from - b \in Nat
      OBVIOUS
    <2> HIDE DEF T
    <2> QED
      BY <1>1, <1>2, <2>1, UpFromZero
  <1>4. \E f : Walks(b, from, t, f)
    <2>1. from - (from - b) = b
      OBVIOUS
    <2> QED
      BY <1>3, <2>1
  <1>5. Walks(b, from, t, CHOOSE f : Walks(b, from, t, f))
    BY <1>4
  <1>6. WalkBlock(b, from, t) = (CHOOSE f : Walks(b, from, t, f))[b]
    BY DEF WalkBlock, Walks
  <1> QED
    BY <1>5, <1>6

LEMMA WalkInst ==
  ASSUME NEW b \in Nat, NEW from \in Nat, b <= from, NEW t
  PROVE  /\ WalkBlock(b, from, t).inst \in b .. from
         /\ b # from => WalkBlock(b, from, t).inst # from
  <1>1. PICK f : Walks(b, from, t, f) /\ WalkBlock(b, from, t) = f[b]
    BY WalkSteps
  <1>2. \A i \in b .. from : f[i] = IF i = from THEN [possible |-> TRUE, inst |-> from, target |-> t] ELSE WalkBack(f[i + 1], i)
    BY <1>1 DEF Walks
  <1> DEFINE P(r, i) == r.inst \in i .. from /\ (i # from => r.inst # from) /\ (i = from => r.possible)
             T == {m \in Nat : from - m \in b .. from => P(f[from - m], from - m)}
  <1>3. 0 \in T
    BY <1>2
  <1>4. ASSUME NEW m \in Nat, m \in T PROVE m + 1 \in T
    <2> SUFFICES ASSUME from - (m + 1) \in b .. from PROVE P(f[from - (m + 1)], from - (m + 1))
      OBVIOUS
    <2>1. PICK i : i = from - (m + 1) /\ i \in b .. from /\ i # from /\ i + 1 = from - m /\ i + 1 \in b .. from
      OBVIOUS
    <2>2. PICK r : r = f[i + 1]
      OBVIOUS
    <2>3. P(r, i + 1) /\ f[i] = WalkBack(r, i)
      BY <1>2, <1>4, <2>1, <2>2
    <2>4. WalkBack(r, i).inst = i \/ (~r.possible /\ WalkBack(r, i) = r)
      BY DEF WalkBack
    <2>5. P(WalkBack(r, i), i)
      BY <2>1, <2>3, <2>4
    <2> QED
      BY <2>1, <2>3, <2>5
  <1>5. from - b \in T
    <2>1. from - b \in Nat
      OBVIOUS
    <2> HIDE DEF T
    <2> QED
      BY <1>3, <1>4, <2>1, UpFromZero
  <1>6. from - (from - b) = b /\ b \in b .. from
    OBVIOUS
  <1> QED
    BY <1>1, <1>5, <1>6

(***************************************************************************)
(* FindPossiblePIFRStart only ever stops in a block the access can be      *)
(* reached from, and in the block of the access only where the first walk  *)
(* does.                                                                   *)
(***************************************************************************)

Walked(k) == WalkBlock(k, access, Operand(access))

Good(step) ==
  /\ step.block \in Leading /\ step.inst \in Insts(code, step.block)
  /\ step.block = Origin => step.inst = Walked(Origin).inst /\ step.target = Walked(Origin).target

Waits(item, S) ==
  /\ item.block \in Leading /\ item.path \in Seq(S)
  /\ item.from \in Nat /\ item.block \in 0 .. item.from
  /\ IF item.path = <<>> THEN item.block = Origin ELSE item.path[1].block = Origin
  /\ item.block = Origin => item.from = access /\ item.target = Operand(access)
  /\ \A i \in item.block .. item.from : (item.block # item.from => i # item.from) => i \in Insts(code, item.block)

Walking ==
  \E S : /\ \A step \in S : Good(step)
         /\ paths \in Seq(Seq(S))
         /\ \E I : items \in Seq(I) /\ \A item \in I : Waits(item, S)

LEMMA SamePlaces ==
  ASSUME cfg' = cfg, code' = code, access' = access
  PROVE  /\ Origin' = Origin /\ Leading' = Leading /\ (Built' <=> Built)
         /\ \A step : Good(step)' <=> Good(step)
         /\ \A k : Walked(k)' = Walked(k)
         /\ \A item, S : Waits(item, S)' <=> Waits(item, S)
  <1>0. \A r, i : WalkBack(r, i)' = WalkBack(r, i)
    BY DEF WalkBack, UpdateTarget, Stop, Go, WritesMemory, SameMemAccess, Operand, reads_from_register,
           FamilyWritten, is_mov, register_written
  <1>1. Origin' = Origin
    BY DEF Origin
  <1>2. Leading' = Leading
    BY <1>1, SameGraph DEF Leading, Closure
  <1>3. Built' <=> Built
    BY DEF Built
  <1>4. Operand(access)' = Operand(access) /\ \A k : Walked(k)' = Walked(k)
    BY <1>0 DEF Operand, Walked, WalkBlock
  <1>5. \A step : Good(step)' <=> Good(step)
    BY <1>1, <1>2, <1>4 DEF Good
  <1>6. \A item, S : Waits(item, S)' <=> Waits(item, S)
    BY <1>1, <1>2, <1>4 DEF Waits
  <1> QED
    BY <1>1, <1>2, <1>3, <1>4, <1>5, <1>6

LEMMA SameWalk ==
  ASSUME cfg' = cfg, code' = code, access' = access, Walking, UNCHANGED <<items, paths>>
  PROVE  Walking'
  <1>1. PICK S, I : /\ \A step \in S : Good(step)
                    /\ paths \in Seq(Seq(S))
                    /\ items \in Seq(I) /\ \A item \in I : Waits(item, S)
    BY DEF Walking
  <1>2. /\ \A step \in S : Good(step)'
        /\ paths' \in Seq(Seq(S))
        /\ items' \in Seq(I) /\ \A item \in I : Waits(item, S)'
    BY <1>1, SamePlaces
  <1> QED
    BY <1>2 DEF Walking

LEMMA OriginIsBlock ==
  ASSUME Built, access \in DOMAIN code
  PROVE  Origin \in Blocks /\ access \in Insts(code, Origin) /\ Origin \in Nat /\ access \in Nat /\ Origin <= access
  <1>1. PICK N : N = Len(code) /\ N \in Nat /\ DOMAIN code = 1 .. N
    BY ProgramShape DEF Built
  <1>2. Origin \in Blocks
    BY BuiltFacts DEF Origin
  <1>3. Origin \in 1 .. access
    BY <1>1, LeaderOf DEF Origin
  <1>4. access \in Insts(code, Origin)
    BY <1>1, <1>3 DEF Insts, Origin
  <1> QED
    BY <1>1, <1>2, <1>3, <1>4

LEMMA WalkStarts ==
  ASSUME Built, RPInit
  PROVE  Walking
  <1>1. access \in DOMAIN code
    BY DEF RPInit
  <1>2. Origin \in Leading /\ Graph
    BY <1>1, BuiltFacts, OriginIsBlock, LeadingLeast
  <1>3. PICK item : item = [block |-> Origin, from |-> access, target |-> Operand(access), path |-> <<>>]
    OBVIOUS
  <1>4. items = <<item>> /\ paths = <<>>
    BY <1>3 DEF RPInit
  <1>5. Waits(item, {})
    <2>1. \A i \in Origin .. access : i \in Insts(code, Origin)
      BY <1>1, OriginIsBlock, BlockIsInterval DEF Built
    <2>2. <<>> \in Seq({})
      OBVIOUS
    <2> QED
      BY <1>1, <1>2, <1>3, <2>1, <2>2, OriginIsBlock DEF Waits
  <1>6. items \in Seq({item}) /\ paths \in Seq(Seq({}))
    BY <1>4
  <1> QED
    BY <1>5, <1>6 DEF Walking

LEMMA Wider ==
  ASSUME NEW S, NEW T, S \subseteq T
  PROVE  Seq(S) \subseteq Seq(T)
  <1>1. ASSUME NEW s \in Seq(S) PROVE s \in Seq(T)
    <2>1. \A i \in 1 .. Len(s) : s[i] \in T
      OBVIOUS
    <2> QED
      BY <2>1
  <1> QED
    BY <1>1

(* One step of the walk keeps to these blocks.                             *)
LEMMA StepKeepsWalking ==
  ASSUME Built, IInv, access \in DOMAIN code, Walking, ProcessStep
  PROVE  Walking'
  <1> DEFINE s     == Head(items)
             w     == WalkBlock(s.block, s.from, s.target)
             step  == [block |-> s.block, inst |-> w.inst, target |-> w.target]
             path  == Append(s.path, step)
             same  == SameMemAccess(s.target, w.target)
             ok    == w.possible /\ CanWalk(s.block, same)
             Leave(l) == Origin \notin l.body
             Cut(l)   == CASE Leave(l) /\ ((ok /\ ~same) \/ ~w.possible) -> <<Outside(path, l)>>
                           [] ok /\ ~Leave(l) /\ l.header = s.block /\ ChangesIn(l, w.target) -> <<path>>
                           [] OTHER -> <<>>
             with  == LoopsWith(s.block)
             cuts  == FlattenSeq([k \in DOMAIN with |-> Cut(with[k])])
             preds == Preds(s.block)
             Item(p) == [block |-> p, from |-> LastInst(code, p) + 1, target |-> w.target, path |-> path]
             Next(p) == IF BlockInPath(p, path) THEN <<>> ELSE <<Item(p)>>
             more  == FlattenSeq([k \in DOMAIN preds |-> Next(preds[k])])
  <1>1. /\ phase = "starts" /\ items # <<>>
        /\ paths' = paths \o cuts \o (IF ok THEN <<>> ELSE <<path>>)
        /\ items' = Tail(items) \o (IF ok /\ cuts = <<>> THEN more ELSE <<>>)
        /\ cfg' = cfg /\ code' = code /\ access' = access
    BY DEF ProcessStep, cfvars
  <1>2. PICK S, I : /\ \A st \in S : Good(st)
                    /\ paths \in Seq(Seq(S))
                    /\ items \in Seq(I) /\ \A item \in I : Waits(item, S)
    BY DEF Walking
  <1>3. PICK S2 : S2 = S \cup {step}
    OBVIOUS
  <1>4. s \in I /\ Tail(items) \in Seq(I)
    <2>1. PICK its : its = items /\ its \in Seq(I) /\ its # <<>>
      BY <1>1, <1>2
    <2>2. Head(its) \in I /\ Tail(its) \in Seq(I)
      BY <2>1
    <2> QED
      BY <2>1, <2>2
  <1>5. Waits(s, S) /\ Graph /\ Origin \in Blocks /\ code \in Programs
    BY <1>2, <1>4, OriginIsBlock, BuiltFacts DEF Built
  <1>6. s.block \in Leading /\ s.path \in Seq(S) /\ s.from \in Nat /\ s.block \in Nat /\ s.block <= s.from
        /\ \A i \in s.block .. s.from : (s.block # s.from => i # s.from) => i \in Insts(code, s.block)
        /\ (IF s.path = <<>> THEN s.block = Origin ELSE s.path[1].block = Origin)
        /\ (s.block = Origin => s.from = access /\ s.target = Operand(access))
    BY <1>5 DEF Waits
  <1>7. Good(step)
    <2>1. w.inst \in s.block .. s.from /\ (s.block # s.from => w.inst # s.from)
      BY <1>6, WalkInst
    <2>2. w.inst \in Insts(code, s.block)
      BY <1>6, <2>1
    <2>3. step.block = s.block /\ step.inst = w.inst /\ step.target = w.target
      OBVIOUS
    <2>4. s.block = Origin => w = Walked(Origin)
      BY <1>6 DEF Walked
    <2> HIDE DEF w, step
    <2> QED
      BY <1>6, <2>2, <2>3, <2>4 DEF Good
  <1>8. (\A st \in S2 : Good(st)) /\ S \subseteq S2 /\ step \in S2
    BY <1>2, <1>3, <1>7
  <1>9. path \in Seq(S2) /\ path # <<>> /\ path[Len(path)].block = s.block /\ path[1].block = Origin
    <2>0. step.block = s.block
      OBVIOUS
    <2> HIDE DEF step
    <2>1. PICK q, st : q = s.path /\ st = step /\ st.block = s.block
      BY <2>0
    <2>2. q \in Seq(S2) /\ st \in S2
      BY <1>3, <1>6, <1>8, <2>1
    <2>3. Append(q, st) \in Seq(S2) /\ Append(q, st) # <<>> /\ Append(q, st)[Len(Append(q, st))] = st
      BY <2>2
    <2>4. Append(q, st)[1] = IF q = <<>> THEN st ELSE q[1]
      BY <2>2
    <2> QED
      BY <1>6, <2>1, <2>3, <2>4
  <1> HIDE DEF path
  <1>10. ASSUME NEW l, s.block \in l.body PROVE Outside(path, l) \in Seq(S2)
    <2> DEFINE IsIt(n) == path[n].block \in l.body /\ \A m \in 1 .. (n - 1) : path[m].block \notin l.body
               In == {n \in DOMAIN path : path[n].block \in l.body}
    <2>1. DOMAIN path = 1 .. Len(path) /\ Len(path) \in Nat \ {0}
      BY <1>9
    <2>2. Len(path) \in In
      BY <1>9, <1>10, <2>1
    <2>3. PICK n \in In : \A m \in In : n <= m
      <3>1. In \subseteq Nat /\ In # {}
        BY <2>1, <2>2
      <3> HIDE DEF In
      <3> QED
        BY <3>1, LeastElement
    <2>4. n \in DOMAIN path /\ IsIt(n)
      BY <2>1, <2>3
    <2>5. PICK k : k = CHOOSE m \in DOMAIN path : IsIt(m)
      OBVIOUS
    <2>6. k \in 1 .. Len(path)
      BY <2>1, <2>4, <2>5
    <2>7. Outside(path, l) = SubSeq(path, 1, k - 1)
      BY <2>5 DEF Outside
    <2>8. SubSeq(path, 1, k - 1) \in Seq(S2)
      <3>1. \A i \in 1 .. (k - 1) : path[i] \in S2
        BY <1>9, <2>1, <2>6
      <3>2. k - 1 \in 0 .. Len(path) /\ 1 \in Int
        BY <2>1, <2>6
      <3> QED
        BY <1>9, <3>1, <3>2
    <2> QED
      BY <2>7, <2>8
  <1>11. cuts \in Seq(Seq(S2))
    <2>1. PICK L : loops \in Seq(L)
      <3>1. Analysed
        BY <1>1 DEF Analysed
      <3>2. DomState(dominators, {}) /\ loops = LoopsOf(dominators)
        BY <3>1 DEF IInv
      <3>3. dominators \in [Blocks -> SUBSET Blocks]
        BY <3>2 DEF DomState
      <3> QED
        BY <1>5, <3>2, <3>3, LoopsComeFromEdges
    <2>2. PICK N : N = {k \in DOMAIN loops : s.block \in loops[k].body}
      OBVIOUS
    <2>3. with = KeepAt(loops, N)
      BY <2>2 DEF LoopsWith
    <2>4. with \in Seq(L) /\ ToSet(with) = {loops[k] : k \in (DOMAIN loops) \cap N}
      BY <2>1, <2>3, KeepHolds
    <2>5. PICK ws, n : ws = with /\ n = Len(ws) /\ n \in Nat /\ DOMAIN ws = 1 .. n
      BY <2>4
    <2>6. \A k \in 1 .. n : s.block \in ws[k].body
      BY <2>2, <2>4, <2>5 DEF ToSet
    <2>7. \A l : s.block \in l.body => Cut(l) \in Seq(Seq(S2))
      <3>1. ASSUME NEW l, s.block \in l.body PROVE Cut(l) \in Seq(Seq(S2))
        <4>1. PICK o, q : o = Outside(path, l) /\ q = path /\ o \in Seq(S2) /\ q \in Seq(S2)
          BY <1>9, <1>10, <3>1
        <4>2. <<o>> \in Seq(Seq(S2)) /\ <<q>> \in Seq(Seq(S2)) /\ <<>> \in Seq(Seq(S2))
          BY <4>1
        <4>3. Cut(l) \in {<<o>>, <<q>>, <<>>}
          BY <4>1
        <4> HIDE DEF Cut
        <4> QED
          BY <4>2, <4>3
      <3> QED
        BY <3>1
    <2> HIDE DEF Cut, with
    <2>8. PICK g : g = [k \in 1 .. n |-> Cut(ws[k])]
      OBVIOUS
    <2>9. g \in [1 .. n -> Seq(Seq(S2))]
      BY <2>6, <2>7, <2>8
    <2>10. cuts = FlattenSeq(g)
      BY <2>5, <2>8
    <2> QED
      BY <2>5, <2>9, <2>10, FlattenFunction
  <1>12. paths' \in Seq(Seq(S2))
    <2>1. PICK ps, cs, q : ps = paths /\ cs = cuts /\ q = path
      OBVIOUS
    <2>2. ps \in Seq(Seq(S2))
      <3>1. Seq(S) \subseteq Seq(S2)
        BY <1>8, Wider
      <3>2. Seq(Seq(S)) \subseteq Seq(Seq(S2))
        BY <3>1, Wider
      <3> QED
        BY <1>2, <2>1, <3>2
    <2>3. cs \in Seq(Seq(S2)) /\ q \in Seq(S2)
      BY <1>9, <1>11, <2>1
    <2>4. paths' = (ps \o cs) \o (IF ok THEN <<>> ELSE <<q>>)
      BY <1>1, <2>1
    <2> HIDE DEF ok
    <2>5. PICK t : t = (IF ok THEN <<>> ELSE <<q>>) /\ t \in Seq(Seq(S2))
      <3>1. <<>> \in Seq(Seq(S2)) /\ <<q>> \in Seq(Seq(S2))
        BY <2>3
      <3> QED
        BY <3>1
    <2>6. (ps \o cs) \o t \in Seq(Seq(S2))
      BY <2>2, <2>3, <2>5
    <2> QED
      BY <2>4, <2>5, <2>6
  <1>13. PICK J : J = I \cup {Item(p) : p \in Pred[s.block] \ {Origin}}
    OBVIOUS
  <1>14. \A item \in J : Waits(item, S2)
    <2>1. ASSUME NEW item \in I PROVE Waits(item, S2)
      <3>1. PICK q : q = item.path /\ q \in Seq(S)
        BY <1>2 DEF Waits
      <3>2. q \in Seq(S2)
        BY <1>8, <3>1
      <3> QED
        BY <1>2, <3>1, <3>2 DEF Waits
    <2>2. ASSUME NEW p \in Pred[s.block] \ {Origin} PROVE Waits(Item(p), S2)
      <3>1. p \in Leading /\ p \in Blocks /\ s.block \in Succ[p]
        BY <1>5, <1>6, LeadingLeast, GraphFacts
      <3>2. Insts(code, p) # {}
        <4>1. cfg.succ[p] # <<>>
          <5>1. Succ[p] = ToSet(cfg.succ[p]) /\ ToSet(<<>>) = {}
            BY <1>5, <3>1, GraphFacts DEF ToSet
          <5> QED
            BY <3>1, <5>1
        <4> QED
          BY <3>1, <4>1, BuiltFacts
      <3>3. PICK last : last = LastInst(code, p) /\ last \in Insts(code, p)
        BY <1>5, <3>2, LastIsGreatest
      <3>4. last \in Nat /\ p \in 1 .. last /\ \A k \in p .. last : k \in Insts(code, p)
        BY <1>5, <3>3, BlockIsInterval
      <3>5. PICK it : it = Item(p)
        OBVIOUS
      <3>6. it.block = p /\ it.from = last + 1 /\ it.path = path
        BY <3>3, <3>5
      <3>7. last + 1 \in Nat /\ p \in 0 .. (last + 1) /\ \A i \in p .. (last + 1) : i # last + 1 => i \in p .. last
        BY <3>4
      <3>8. p # last + 1
        BY <3>4
      <3>9. Waits(it, S2)
        BY <1>9, <3>1, <3>4, <3>6, <3>7, <3>8 DEF Waits
      <3> QED
        BY <3>5, <3>9
    <2> HIDE DEF Item
    <2> QED
      BY <1>13, <2>1, <2>2
  <1>15. more \in Seq(J)
    <2>1. PICK s0 : s0 = cfg.pred[s.block] /\ s0 \in Seq(Blocks) /\ ToSet(s0) = Pred[s.block]
      BY <1>5, <1>6, LeadingLeast, GraphFacts
    <2>2. PICK N : N = {k \in DOMAIN s0 : ~Dominates(s.block, s0[k])}
      OBVIOUS
    <2>3. preds = KeepAt(s0, N)
      BY <2>1, <2>2 DEF Preds
    <2>4. preds \in Seq(Blocks) /\ ToSet(preds) = {s0[k] : k \in (DOMAIN s0) \cap N}
      BY <2>1, <2>3, KeepHolds
    <2>5. ToSet(preds) \subseteq Pred[s.block]
      BY <2>1, <2>4 DEF ToSet
    <2>6. PICK ps, n : ps = preds /\ n = Len(ps) /\ n \in Nat /\ DOMAIN ps = 1 .. n
      BY <2>4
    <2>7. \A k \in 1 .. n : ps[k] \in Pred[s.block]
      BY <2>5, <2>6 DEF ToSet
    <2>8. ASSUME NEW p \in Pred[s.block] PROVE Next(p) \in Seq(J)
      <3>1. CASE p = Origin
        <4>1. 1 \in DOMAIN path
          BY <1>9
        <4>2. Next(p) = <<>>
          BY <1>9, <3>1, <4>1 DEF BlockInPath
        <4> HIDE DEF Next
        <4> QED
          BY <4>2
      <3>2. CASE p # Origin
        <4>1. PICK it : it = Item(p) /\ it \in J
          BY <1>13, <3>2
        <4>2. <<it>> \in Seq(J) /\ <<>> \in Seq(J)
          BY <4>1
        <4>3. Next(p) \in {<<it>>, <<>>}
          BY <4>1
        <4> HIDE DEF Next
        <4> QED
          BY <4>2, <4>3
      <3> QED
        BY <3>1, <3>2
    <2> HIDE DEF Next, preds
    <2>9. PICK g : g = [k \in 1 .. n |-> Next(ps[k])]
      OBVIOUS
    <2>10. g \in [1 .. n -> Seq(J)]
      BY <2>7, <2>8, <2>9
    <2>11. more = FlattenSeq(g)
      BY <2>6, <2>9
    <2> QED
      BY <2>6, <2>10, <2>11, FlattenFunction
  <1>16. items' \in Seq(J)
    <2>1. PICK t, m : t = Tail(items) /\ m = more
      OBVIOUS
    <2>2. t \in Seq(J) /\ m \in Seq(J)
      BY <1>4, <1>13, <1>15, <2>1
    <2>3. items' = t \o m \/ items' = t \o <<>>
      BY <1>1, <2>1
    <2>4. t \o m \in Seq(J) /\ t \o <<>> \in Seq(J)
      BY <2>2
    <2> QED
      BY <2>3, <2>4
  <1>17. (\A st \in S2 : Good(st)') /\ \A item \in J : Waits(item, S2)'
    BY <1>1, <1>8, <1>14, SamePlaces
  <1> QED
    BY <1>12, <1>16, <1>17 DEF Walking

LEMMA PruneKeepsWalking ==
  ASSUME Walking, Prune
  PROVE  Walking'
  <1>1. PICK S, I : /\ \A st \in S : Good(st)
                    /\ paths \in Seq(Seq(S))
                    /\ items \in Seq(I) /\ \A item \in I : Waits(item, S)
    BY DEF Walking
  <1>2. UNCHANGED <<cfg, code, access, items>>
    BY DEF Prune, cfvars
  <1>3. PICK q \in PrunePairs : paths' = Pruned(q[1], q[2])
    BY DEF Prune
  <1>4. PICK a, b : a = q[1] /\ b = q[2] /\ a \in DOMAIN paths /\ b \in DOMAIN paths
    BY <1>3 DEF PrunePairs
  <1> DEFINE pop(ps, p) == [ps EXCEPT ![p] = Front(ps[p])]
  <1>5. ASSUME NEW ps \in Seq(Seq(S)), NEW p \in DOMAIN ps PROVE pop(ps, p) \in Seq(Seq(S)) /\ DOMAIN pop(ps, p) = DOMAIN ps
    <2>1. PICK r : r = ps[p] /\ r \in Seq(S)
      BY <1>5
    <2>2. Front(r) \in Seq(S)
      <3>1. \A i \in 1 .. (Len(r) - 1) : r[i] \in S
        BY <2>1
      <3>2. SubSeq(r, 1, Len(r) - 1) \in Seq(S)
        BY <2>1, <3>1
      <3> QED
        BY <3>2 DEF Front
    <2>3. PICK f : f = Front(r) /\ f \in Seq(S)
      BY <2>2
    <2>4. [ps EXCEPT ![p] = f] \in Seq(Seq(S)) /\ DOMAIN [ps EXCEPT ![p] = f] = DOMAIN ps
      BY <1>5, <2>3
    <2> QED
      BY <2>1, <2>3, <2>4
  <1>6. RemoveAt(paths, b) \in Seq(Seq(S))
    <2>1. PICK ps, n : ps = paths /\ n = Len(ps) /\ n \in Nat /\ ps \in Seq(Seq(S)) /\ b \in 1 .. n
      BY <1>1, <1>4
    <2>2. SubSeq(ps, 1, b - 1) \in Seq(Seq(S))
      <3>1. \A i \in 1 .. (b - 1) : ps[i] \in Seq(S)
        BY <2>1
      <3> QED
        BY <2>1, <3>1
    <2>3. SubSeq(ps, b + 1, n) \in Seq(Seq(S))
      <3>1. \A i \in (b + 1) .. n : ps[i] \in Seq(S)
        BY <2>1
      <3> QED
        BY <2>1, <3>1
    <2>4. PICK s, t : s = SubSeq(ps, 1, b - 1) /\ t = SubSeq(ps, b + 1, n) /\ s \in Seq(Seq(S)) /\ t \in Seq(Seq(S))
      BY <2>2, <2>3
    <2>5. s \o t \in Seq(Seq(S))
      BY <2>4
    <2> QED
      BY <2>1, <2>4, <2>5 DEF RemoveAt
  <1>7. paths' \in Seq(Seq(S))
    <2>1. pop(paths, a) \in Seq(Seq(S)) /\ DOMAIN pop(paths, a) = DOMAIN paths /\ pop(paths, b) \in Seq(Seq(S))
      BY <1>1, <1>4, <1>5
    <2>2. pop(pop(paths, a), b) \in Seq(Seq(S))
      <3> HIDE DEF pop
      <3> QED
        BY <1>4, <1>5, <2>1
    <2>3. Pruned(a, b) \in {RemoveAt(paths, b), pop(pop(paths, a), b), pop(paths, b), paths}
      BY DEF Pruned
    <2> HIDE DEF pop
    <2> QED
      BY <1>1, <1>3, <1>4, <1>6, <2>1, <2>2, <2>3
  <1>8. /\ \A st \in S : Good(st)'
        /\ items' \in Seq(I) /\ \A item \in I : Waits(item, S)'
    BY <1>1, <1>2, SamePlaces
  <1> QED
    BY <1>7, <1>8 DEF Walking

(* So every start lies in a block the access can be reached from; one in   *)
(* the block of the access is where the first walk stopped.                *)
StartsLead ==
  \A s \in starts : \E b \in Leading :
    /\ s.inst \in Insts(code, b)
    /\ b = Origin /\ mode # "minimal" => s = [inst |-> Walked(Origin).inst, target |-> Walked(Origin).target]

LEMMA CollectStartsLead ==
  ASSUME Walking, CollectStarts
  PROVE  StartsLead'
  <1>1. PICK S : (\A st \in S : Good(st)) /\ paths \in Seq(Seq(S))
    BY DEF Walking
  <1>2. /\ UNCHANGED <<cfg, code, access>> /\ NoPathEmpty
        /\ starts' = {[inst |-> Last(p).inst, target |-> Last(p).target] : p \in ToSet(paths)}
    BY DEF CollectStarts
  <1>3. ASSUME NEW s \in starts'
        PROVE  \E b \in Leading : /\ s.inst \in Insts(code, b)
                                  /\ b = Origin => s = [inst |-> Walked(Origin).inst, target |-> Walked(Origin).target]
    <2>1. PICK p \in ToSet(paths) : s = [inst |-> Last(p).inst, target |-> Last(p).target]
      BY <1>2
    <2>2. p \in Seq(S) /\ p # <<>>
      <3>1. PICK k \in DOMAIN paths : p = paths[k]
        BY <2>1 DEF ToSet
      <3> QED
        BY <1>1, <1>2, <3>1 DEF NoPathEmpty
    <2>3. PICK st : st = Last(p) /\ st \in S
      <3>1. p[Len(p)] \in S
        BY <2>2
      <3> QED
        BY <3>1 DEF Last
    <2>4. s = [inst |-> st.inst, target |-> st.target] /\ Good(st)
      BY <1>1, <2>1, <2>3
    <2> QED
      BY <2>4 DEF Good
  <1> QED
    BY <1>2, <1>3, SamePlaces DEF StartsLead

LEMMA MinimalStartLeads ==
  ASSUME Built, access \in DOMAIN code, FindMinimalWindows
  PROVE  StartsLead'
  <1>1. UNCHANGED <<cfg, code, access, mode>> /\ mode = "minimal" /\ starts' = {[inst |-> access, target |-> Operand(access)]}
    BY DEF FindMinimalWindows
  <1>2. Origin \in Leading /\ access \in Insts(code, Origin)
    BY BuiltFacts, OriginIsBlock, LeadingLeast
  <1>3. \A s \in starts' : s.inst = access
    BY <1>1
  <1> QED
    BY <1>1, <1>2, <1>3, SamePlaces DEF StartsLead

(***************************************************************************)
(* The ends of a function with ends, and its execution.                    *)
(***************************************************************************)

EndsPlaced(es) ==
  /\ \A e \in es : e \in DOMAIN code /\ (ReleasesAt(e) \/ \E b \in Exits : e = LastInst(code, b))
  /\ \A b \in Exits : Insts(code, b) # {} /\ (LastInst(code, b) \in es \/ LeftOpen(b, es))

\* Where control is, and no end of the last block has been passed with the region open.
Running ==
  /\ pc \in DOMAIN code \cup {0}
  /\ pc # 0 => BlockOf(pc) \in Reachable
  /\ region # Closed => Origin \in Reachable
  /\ region # Closed /\ pc # 0 /\ BlockOf(pc) \in Exits \ {Origin}
       => \A e \in ends : BlockOf(e) = BlockOf(pc) => pc <= e

CInv ==
  /\ IInv /\ Built /\ access \in DOMAIN code /\ Walking /\ StartsLead
  /\ phase # "run" => pc = 1 /\ region = Closed
  /\ mode = "pifrs-with-ends" /\ phase \in {"ends", "run"} => DomState(dominators, {})
  /\ mode = "pifrs-with-ends" /\ phase = "run" => EndsPlaced(ends) /\ Running
  /\ ClosedAtExit

LEMMA SameEnds ==
  ASSUME UNCHANGED <<code, cfg, access, dominators>>, NEW es, es = ends', EndsPlaced(es)
  PROVE  EndsPlaced(ends)'
  BY SameGraph DEF EndsPlaced, ReleasesAt, LeftOpen, AdjacentTo, Between, BlockOf, Dominates, Origin

LEMMA BlockOfInst ==
  ASSUME Built, NEW i \in DOMAIN code
  PROVE  BlockOf(i) \in Blocks /\ i \in Insts(code, BlockOf(i)) /\ i \in Nat \ {0} /\ BlockOf(i) \in Nat /\ BlockOf(i) <= i
  <1>1. PICK N : N = Len(code) /\ N \in Nat /\ DOMAIN code = 1 .. N
    BY ProgramShape DEF Built
  <1>2. BlockOf(i) \in Blocks
    BY BuiltFacts DEF BlockOf
  <1>3. BlockOf(i) \in 1 .. i
    BY <1>1, LeaderOf DEF BlockOf
  <1>4. i \in Insts(code, BlockOf(i))
    BY <1>1, <1>3 DEF Insts, BlockOf
  <1> QED
    BY <1>1, <1>2, <1>3, <1>4

LEMMA FindEndsPlaces ==
  ASSUME CInv, FindEnds, phase' = "run"
  PROVE  EndsPlaced(ends)'
  <1>1. /\ UNCHANGED <<code, cfg, access, dominators>> /\ phase = "ends"
        /\ ends' = EndsAfter(Len(Terminators))
        /\ \A b \in ToSet(Terminators) : Insts(code, b) # {}
    BY DEF FindEnds
  <1>2. Graph /\ Built /\ code \in Programs
    BY BuiltFacts DEF CInv, Built
  <1>3. PICK es : es = ends'
    OBVIOUS
  <1>4. /\ ReleaseEnds \subseteq es
        /\ \A e \in es : e \in ReleaseEnds \/ \E b \in Exits : e = LastInst(code, b)
        /\ \A b \in Exits : LastInst(code, b) \in es \/ LeftOpen(b, es)
    BY <1>1, <1>2, <1>3, EndsOfFunction
  <1>5. \A b \in Exits : Insts(code, b) # {}
    BY <1>1, <1>2, TerminatorsAreExits
  <1>6. \A e \in es : e \in DOMAIN code /\ (ReleasesAt(e) \/ \E b \in Exits : e = LastInst(code, b))
    <2>1. \A e \in ReleaseEnds : e \in DOMAIN code /\ ReleasesAt(e)
      BY DEF ReleaseEnds
    <2>2. \A b \in Exits : LastInst(code, b) \in DOMAIN code
      <3>1. ASSUME NEW b \in Exits PROVE LastInst(code, b) \in DOMAIN code
        <4>1. LastInst(code, b) \in Insts(code, b)
          BY <1>2, <1>5, LastInstIn
        <4> QED
          BY <4>1 DEF Insts
      <3> QED
        BY <3>1
    <2> QED
      BY <1>4, <2>1, <2>2
  <1>7. EndsPlaced(es)
    BY <1>4, <1>5, <1>6 DEF EndsPlaced
  <1> QED
    BY <1>1, <1>3, <1>7, SameEnds

(* A function left with the region open has passed a release on the way to *)
(* the access.                                                             *)
LEMMA LeftWithRelease ==
  ASSUME CInv, mode = "pifrs-with-ends", phase = "run", ~EntryIsTarget, region # Closed,
         pc # 0, pc \notin ends, Edges(code, pc) = <<>>
  PROVE  \E e \in ends : ReleasesAt(e) /\ Dominates(BlockOf(e), Origin)
  <1>1. Graph /\ Built /\ code \in Programs /\ Origin \in Blocks /\ DomState(dominators, {}) /\ EndsPlaced(ends) /\ Running
    BY BuiltFacts, OriginIsBlock DEF CInv, Built
  <1>2. pc \in DOMAIN code /\ BlockOf(pc) \in Reachable /\ Origin \in Reachable
    BY <1>1 DEF Running
  <1>3. PICK b : b = BlockOf(pc) /\ b \in Exits /\ pc \in Insts(code, b) /\ LastInst(code, b) = pc /\ b \in Reachable /\ b \in Blocks
    BY <1>1, <1>2, ControlLeaves, ReachableLeast DEF BlockOf
  <1>4. LeftOpen(b, ends)
    BY <1>1, <1>3 DEF EndsPlaced
  <1>5. b \in Succ[Origin]
    <2>1. Contains(cfg.succ[Origin], b)
      BY <1>3, <1>4 DEF LeftOpen, AdjacentTo
    <2>2. cfg.succ[Origin] \in Seq(Blocks) /\ Succ[Origin] = ToSet(cfg.succ[Origin])
      BY <1>1, GraphFacts
    <2> QED
      BY <2>1, <2>2 DEF Contains, ToSet
  <1>6. Origin \notin Exits /\ b # Origin
    <2>1. Succ[Origin] = ToSet(cfg.succ[Origin])
      BY <1>1, GraphFacts
    <2>2. cfg.succ[Origin] # <<>>
      BY <1>5, <2>1 DEF ToSet
    <2> QED
      BY <1>3, <2>2 DEF Exits
  <1>7. PICK j \in Between(pc), e \in ends : Dominates(BlockOf(e), BlockOf(j))
    BY <1>3, <1>4 DEF LeftOpen
  <1>8. BlockOf(j) = Origin \/ BlockOf(j) = b
    <2>1. j \in Insts(code, Origin) \/ j \in Insts(code, b)
      BY <1>3, <1>6, <1>7 DEF Between
    <2> QED
      BY <2>1 DEF Insts, BlockOf
  <1>9. PICK d : d = BlockOf(e) /\ d \in Blocks /\ e \in DOMAIN code /\ e \in Insts(code, d)
    BY <1>1, BlockOfInst DEF EndsPlaced
  <1>10. TrulyDominates(d, BlockOf(j))
    BY <1>1, <1>2, <1>3, <1>7, <1>8, <1>9, DominatorsFound DEF Dominates
  <1>11. d # b
    <2> SUFFICES ASSUME d = b PROVE FALSE
      OBVIOUS
    <2>1. pc <= e
      BY <1>1, <1>2, <1>3, <1>6, <1>9 DEF Running
    <2>2. e <= pc /\ e \in Nat /\ pc \in Nat
      BY <1>1, <1>3, <1>9, LastIsGreatest
    <2> QED
      BY <2>1, <2>2
  <1>12. ReleasesAt(e)
    <2> SUFFICES ASSUME NEW c \in Exits, e = LastInst(code, c) PROVE FALSE
      BY <1>1 DEF EndsPlaced
    <2>1. e \in Insts(code, c)
      BY <1>1, LastInstIn DEF EndsPlaced
    <2>2. d = c
      BY <1>9, <2>1 DEF Insts
    <2>3. BlockOf(j) = d
      BY <1>1, <1>2, <1>3, <1>8, <1>10, <2>2, ExitDominatesItself
    <2> QED
      BY <1>6, <1>8, <1>11, <2>2, <2>3
  <1>13. TrulyDominates(d, Origin)
    BY <1>1, <1>5, <1>8, <1>10, <1>9, <1>11, DominatesPredecessor
  <1>14. Dominates(d, Origin)
    BY <1>1, <1>2, <1>9, <1>13, DominatorsFound DEF Dominates
  <1> QED
    BY <1>9, <1>12, <1>14

LEMMA ExecuteKeepsRunning ==
  ASSUME CInv, mode = "pifrs-with-ends", Execute
  PROVE  /\ Running'
         /\ pc' = 0 /\ region' # Closed => region # Closed /\ pc \notin ends /\ Edges(code, pc) = <<>>
  <1>1. /\ Graph /\ Built /\ code \in Programs /\ Origin \in Blocks /\ EndsPlaced(ends) /\ Running /\ StartsLead
        /\ phase = "run" /\ pc # 0 /\ UNCHANGED <<code, cfg, access, ends, starts, mode, phase, dominators>>
    BY BuiltFacts, OriginIsBlock DEF CInv, Built, Execute, cfvars, rpvars
  <1>2. PICK next \in Successors(pc) :
          /\ pc' = next
          /\ \/ /\ {s \in starts : s.inst = pc} # {} /\ next = pc + 1
             \/ region' = IF pc \in ends THEN Closed ELSE region
    BY DEF Execute
  <1>3. PICK i : i = pc /\ i \in DOMAIN code /\ i \in Nat \ {0} /\ BlockOf(i) \in Reachable /\ BlockOf(i) \in Blocks
    BY <1>1, BlockOfInst DEF Running
  <1>4. \A e \in ends : e \in DOMAIN code /\ e \in Nat /\ BlockOf(e) \in Nat /\ BlockOf(e) <= e
    BY <1>1, BlockOfInst DEF EndsPlaced
  <1>5. 0 \notin DOMAIN code
    BY <1>1, BlockOfInst
  \* Where control goes.
  <1>6. \/ next = 0 /\ Edges(code, i) = <<>>
        \/ next \in DOMAIN code /\ next \in ToSet(Edges(code, i))
    <2>1. PICK es : es = Edges(code, i) /\ es \in Seq(Addresses)
      BY <1>1, <1>3, EdgesAreAddresses
    <2>2. CASE ToSet(es) = {}
      <3>1. es = <<>>
        BY <2>1, <2>2 DEF ToSet
      <3> QED
        BY <1>2, <1>3, <2>1, <2>2, <3>1 DEF Successors
    <2>3. CASE ToSet(es) # {}
      <3>1. PICK e \in ToSet(es) : next = IF e \in DOMAIN code THEN e ELSE 0
        BY <1>2, <1>3, <2>1, <2>3 DEF Successors
      <3>2. e \in DOMAIN code
        BY <1>1, <1>3, <2>1, FlowOfControl DEF EndsPlaced
      <3> QED
        BY <2>1, <3>1, <3>2
    <2> QED
      BY <2>2, <2>3
  <1>7. next # 0 => \/ next = i + 1 /\ BlockOf(next) = BlockOf(i)
                    \/ BlockOf(next) = next /\ next \in Succ[BlockOf(i)]
    BY <1>1, <1>3, <1>6, FlowOfControl DEF BlockOf
  <1>8. next # 0 => BlockOf(next) \in Reachable
    BY <1>1, <1>3, <1>7, ReachableLeast
  \* A region that is open afterwards was opened here, or was open before.
  <1>9. \/ next = i + 1 /\ \E b \in Leading : i \in Insts(code, b)
        \/ region' # Closed => region # Closed /\ i \notin ends
    BY <1>1, <1>2, <1>3 DEF StartsLead
  <1>10. region' # Closed => Origin \in Reachable
    <2>1. CASE \E b \in Leading : i \in Insts(code, b)
      <3>1. BlockOf(i) \in Leading
        BY <2>1 DEF Insts, BlockOf
      <3> QED
        BY <1>1, <1>3, <3>1, LeadersReach
    <2> QED
      BY <1>1, <1>9, <2>1 DEF Running
  <1>11. ASSUME region' # Closed, next # 0, BlockOf(next) \in Exits \ {Origin}, NEW e \in ends, BlockOf(e) = BlockOf(next)
         PROVE  next <= e
    <2>1. CASE BlockOf(next) = next
      BY <1>4, <1>11, <2>1
    <2>2. CASE next = i + 1 /\ BlockOf(next) = BlockOf(i)
      <3>1. BlockOf(i) \notin Leading
        BY <1>1, <1>11, <2>2, ExitsDoNotLead
      <3>2. ~\E b \in Leading : i \in Insts(code, b)
        BY <3>1 DEF Insts, BlockOf
      <3>3. region # Closed /\ i \notin ends
        BY <1>9, <1>11, <3>2
      <3>4. i <= e
        BY <1>1, <1>3, <1>11, <2>2, <3>3 DEF Running
      <3>5. i # e
        BY <1>11, <3>3
      <3> QED
        BY <1>3, <1>4, <1>11, <2>2, <3>4, <3>5
    <2> QED
      BY <1>7, <1>11, <2>1, <2>2
  <1>12. Running'
    <2>1. \A x : BlockOf(x)' = BlockOf(x)
      BY <1>1 DEF BlockOf
    <2>2. Origin' = Origin /\ Reachable' = Reachable /\ Exits' = Exits /\ ends' = ends /\ code' = code /\ pc' = next
      BY <1>1, <1>2, SamePlaces, SameGraph
    <2>3. BlockOf(pc)' = BlockOf(next)
      BY <2>2 DEF BlockOf
    <2> QED
      BY <1>6, <1>8, <1>10, <1>11, <2>1, <2>2, <2>3 DEF Running, Closed
  <1>13. next = 0 /\ region' # Closed => region # Closed /\ i \notin ends /\ Edges(code, i) = <<>>
    BY <1>3, <1>5, <1>6, <1>9
  <1> QED
    BY <1>2, <1>3, <1>12, <1>13

LEMMA ExecuteKeepsClosed ==
  ASSUME CInv, Execute
  PROVE  ClosedAtExit'
  <1>1. UNCHANGED <<code, cfg, access, ends, mode, phase, dominators>> /\ phase = "run" /\ pc # 0
    BY DEF Execute, cfvars, rpvars
  <1> SUFFICES ASSUME mode = "pifrs-with-ends", pc' = 0, ~EntryIsTarget', region' # Closed
               PROVE  (\E e \in ends : ReleasesAt(e) /\ Dominates(BlockOf(e), Origin))'
    BY <1>1 DEF ClosedAtExit, Closed
  <1>2. ~EntryIsTarget
    BY <1>1 DEF EntryIsTarget, Entry
  <1>3. region # Closed /\ pc \notin ends /\ Edges(code, pc) = <<>>
    BY ExecuteKeepsRunning
  <1>4. \E e \in ends : ReleasesAt(e) /\ Dominates(BlockOf(e), Origin)
    BY <1>1, <1>2, <1>3, LeftWithRelease
  <1> QED
    BY <1>1, <1>4, SamePlaces DEF ReleasesAt, Dominates, BlockOf

LEMMA CInvStarts ==
  ASSUME PFInit PROVE CInv
  <1>1. RPInit /\ CFInit /\ pc = 1 /\ region = Closed /\ phase = "dominators" /\ starts = {} /\ access \in DOMAIN code
    BY DEF PFInit, RPInit, CFInit
  <1>2. IInv /\ Built
    BY <1>1, InvariantStarts DEF CFInit, Built
  <1>3. Walking
    BY <1>1, <1>2, WalkStarts
  <1> QED
    BY <1>1, <1>2, <1>3 DEF CInv, StartsLead, ClosedAtExit

\* What the analysis leaves alone when it neither finds starts or ends nor runs.
LEMMA CInvAnalysis ==
  ASSUME CInv, IInv', Walking', StartsLead', UNCHANGED <<code, cfg, access, mode, xvars>>,
         phase # "run", phase' # "run",
         mode = "pifrs-with-ends" /\ phase' = "ends" => DomState(dominators, {})'
  PROVE  CInv'
  BY SamePlaces DEF CInv, ClosedAtExit, xvars, Closed

LEMMA CInvKept ==
  ASSUME CInv, [PFNext]_pfvars PROVE CInv'
  <1>1. IInv /\ IInv' /\ Built /\ access \in DOMAIN code /\ Walking /\ StartsLead
    BY InvariantKept DEF CInv
  <1>2. ASSUME UNCHANGED <<code, cfg, access, starts, mode>> PROVE StartsLead'
    BY <1>1, <1>2, SamePlaces DEF StartsLead
  <1>3. CASE CFNext /\ UNCHANGED rpvars /\ UNCHANGED xvars
    <2>1. UNCHANGED <<code, cfg>> /\ phase # "run" /\ phase' # "run" /\ phase' # "ends"
      BY <1>3 DEF CFNext, DominatorsStep, StartPostdominators, PostdominatorsStep, DefineLoops
    <2> QED
      BY <1>1, <1>2, <1>3, <2>1, SameWalk, CInvAnalysis DEF rpvars
  <1>4. CASE ProcessStep /\ UNCHANGED xvars
    <2>1. UNCHANGED <<code, cfg, access, mode, starts, phase>> /\ phase = "starts"
      BY <1>4 DEF ProcessStep, cfvars
    <2> QED
      BY <1>1, <1>2, <1>4, <2>1, StepKeepsWalking, CInvAnalysis
  <1>5. CASE Prune /\ UNCHANGED xvars
    <2>1. UNCHANGED <<code, cfg, access, mode, starts, phase>> /\ phase = "starts"
      BY <1>5 DEF Prune, cfvars
    <2> QED
      BY <1>1, <1>2, <1>5, <2>1, PruneKeepsWalking, CInvAnalysis
  <1>6. CASE BackOfEmpty /\ UNCHANGED xvars
    <2>1. UNCHANGED <<code, cfg, access, mode, starts, items, paths>> /\ phase = "starts" /\ phase' = "undefined"
      BY <1>6 DEF BackOfEmpty, rpvars
    <2> QED
      BY <1>1, <1>2, <1>6, <2>1, SameWalk, CInvAnalysis
  <1>7. CASE CollectStarts /\ UNCHANGED xvars
    <2>1. UNCHANGED <<code, cfg, access, mode, items, paths, dominators>> /\ phase = "starts" /\ phase' = "ends"
      BY <1>7 DEF CollectStarts
    <2>2. DomState(dominators', {})
      BY <1>1, <2>1 DEF IInv, Analysed
    <2>3. DomState(dominators, {})'
      BY <2>1, <2>2, SameDomState
    <2> QED
      BY <1>1, <1>7, <2>1, <2>3, SameWalk, CollectStartsLead, CInvAnalysis
  <1>8. CASE FindEnds /\ UNCHANGED xvars
    <2>1. UNCHANGED <<code, cfg, access, mode, items, paths, starts, dominators>> /\ phase = "ends" /\ phase' \in {"undefined", "run"}
      BY <1>8 DEF FindEnds
    <2>2. mode = "pifrs-with-ends" /\ DomState(dominators', {}) /\ pc = 1 /\ region = Closed
      BY <1>8, <2>1 DEF CInv, FindEnds
    <2>3. DomState(dominators, {})'
      BY <2>1, <2>2, SameDomState
    <2>4. Walking' /\ StartsLead'
      BY <1>1, <1>2, <2>1, SameWalk
    <2>5. CASE phase' = "undefined"
      BY <1>1, <1>8, <2>1, <2>4, <2>5, CInvAnalysis
    <2>6. CASE phase' = "run"
      <3>1. EndsPlaced(ends)'
        BY <1>8, <2>6, FindEndsPlaces
      <3>2. pc' = 1 /\ region' = Closed
        BY <1>8, <2>2 DEF xvars
      <3>3. Running'
        <4>1. 1 \in DOMAIN code /\ BlockOf(1) = 1
          <5>1. 1 \in DOMAIN code
            BY <1>1, ProgramShape DEF Built
          <5>2. Leader(code, 1) = 1
            BY LeaderLeadsItself DEF IsLeader
          <5> QED
            BY <5>1, <5>2 DEF BlockOf
        <4>2. 1 \in Reachable
          BY <1>1, BuiltFacts, ReachableLeast
        <4>3. BlockOf(pc)' = BlockOf(1) /\ Reachable' = Reachable /\ code' = code
          BY <2>1, <3>2, SameGraph DEF BlockOf
        <4> QED
          BY <3>2, <4>1, <4>2, <4>3 DEF Running, Closed
      <3>4. ClosedAtExit' /\ Built' /\ (access \in DOMAIN code)'
        BY <1>1, <2>1, <3>2, SamePlaces DEF ClosedAtExit
      <3> QED
        BY <1>1, <2>3, <2>4, <2>6, <3>1, <3>3, <3>4 DEF CInv
    <2> QED
      BY <2>1, <2>5, <2>6
  <1>9. CASE ReleasesEnd /\ UNCHANGED xvars
    <2>1. UNCHANGED <<code, cfg, access, mode, items, paths, starts>> /\ phase' = "run" /\ mode = "pifrs"
      BY <1>9 DEF ReleasesEnd
    <2>2. Walking' /\ StartsLead' /\ Built' /\ (access \in DOMAIN code)'
      BY <1>1, <1>2, <2>1, SameWalk, SamePlaces
    <2>3. mode' = "pifrs" /\ ClosedAtExit'
      BY <2>1 DEF ClosedAtExit
    <2> QED
      BY <1>1, <2>1, <2>2, <2>3 DEF CInv
  <1>10. CASE FindMinimalWindows /\ UNCHANGED xvars
    <2>1. UNCHANGED <<code, cfg, access, mode, items, paths>> /\ phase' = "run" /\ mode = "minimal"
      BY <1>10 DEF FindMinimalWindows
    <2>2. Walking' /\ StartsLead' /\ Built' /\ (access \in DOMAIN code)'
      BY <1>1, <1>10, <2>1, SameWalk, MinimalStartLeads, SamePlaces
    <2>3. mode' = "minimal" /\ ClosedAtExit'
      BY <2>1 DEF ClosedAtExit
    <2> QED
      BY <1>1, <2>1, <2>2, <2>3 DEF CInv
  <1>11. CASE Execute
    <2>1. UNCHANGED <<code, cfg, access, mode, items, paths, starts, ends, phase, dominators>> /\ phase = "run"
      BY <1>11 DEF Execute, cfvars, rpvars
    <2>2. Walking' /\ StartsLead' /\ Built' /\ (access \in DOMAIN code)'
      BY <1>1, <1>2, <2>1, SameWalk, SamePlaces
    <2>3. ASSUME mode = "pifrs-with-ends" PROVE EndsPlaced(ends)' /\ Running' /\ DomState(dominators, {})'
      <3>1. EndsPlaced(ends) /\ DomState(dominators', {})
        BY <2>1, <2>3 DEF CInv
      <3>2. DomState(dominators, {})'
        BY <2>1, <3>1, SameDomState
      <3>3. PICK es : es = ends
        OBVIOUS
      <3>4. EndsPlaced(es) /\ es = ends'
        BY <2>1, <3>1, <3>3
      <3>5. EndsPlaced(ends)'
        BY <2>1, <3>4, SameEnds
      <3> QED
        BY <1>11, <2>3, <3>2, <3>5, ExecuteKeepsRunning
    <2> QED
      BY <1>1, <1>11, <2>1, <2>2, <2>3, ExecuteKeepsClosed DEF CInv
  <1>12. CASE UNCHANGED pfvars
    <2>1. UNCHANGED <<code, cfg, access, mode, items, paths, starts, ends, phase, dominators, pc, region>>
      BY <1>12 DEF pfvars, cfvars, rpvars, xvars
    <2>2. Walking' /\ StartsLead' /\ Built' /\ (access \in DOMAIN code)'
      BY <1>1, <1>2, <2>1, SameWalk, SamePlaces
    <2>3. ASSUME DomState(dominators, {}) PROVE DomState(dominators, {})'
      BY <2>1, <2>3, SameDomState
    <2>4. ASSUME EndsPlaced(ends) PROVE EndsPlaced(ends)'
      <3>1. PICK es : es = ends
        OBVIOUS
      <3>2. EndsPlaced(es) /\ es = ends'
        BY <2>1, <2>4, <3>1
      <3> QED
        BY <2>1, <3>2, SameEnds
    <2>5. Running' <=> Running
      BY <2>1, SamePlaces, SameGraph DEF Running, BlockOf, Closed
    <2>6. ClosedAtExit'
      <3>1. EntryIsTarget' <=> EntryIsTarget
        BY <2>1 DEF EntryIsTarget, Entry
      <3> QED
        BY <2>1, <3>1, SamePlaces DEF CInv, ClosedAtExit, ReleasesAt, Dominates, BlockOf, Closed
    <2> QED
      BY <1>1, <2>1, <2>2, <2>3, <2>4, <2>5, <2>6 DEF CInv, Closed
  <1> QED
    BY <1>3, <1>4, <1>5, <1>6, <1>7, <1>8, <1>9, <1>10, <1>11, <1>12 DEF PFNext, RPNext

(* In any function whose entry is not jumped to, whatever its blocks, its  *)
(* releases and the way it is executed, the region of an access whose ends *)
(* FindPossiblePIFREnds found is closed when the function returns, unless  *)
(* an end at a release dominates the access: an end of the function that   *)
(* AddCFGEnd leaves open lies behind a release on every way to it.         *)
THEOREM RegionsAlwaysClosed == PFSpec => []ClosedAtExit
  <1>1. PFInit => CInv
    BY CInvStarts
  <1>2. CInv /\ [PFNext]_pfvars => CInv'
    BY CInvKept
  <1>3. CInv => ClosedAtExit
    BY DEF CInv
  <1> QED
    BY <1>1, <1>2, <1>3, PTL DEF PFSpec

(***************************************************************************)
(* WalkBlock, one instruction at a time.                                   *)
(***************************************************************************)

LEMMA WalksSteps ==
  ASSUME NEW b \in Nat, NEW from \in Nat, NEW t, NEW f, Walks(b, from, t, f)
  PROVE  \A i \in b .. from : f[i] = IF i = from THEN [possible |-> TRUE, inst |-> from, target |-> t] ELSE WalkBack(f[i + 1], i)
  BY DEF Walks

LEMMA WalkRecurs ==
  ASSUME NEW b \in Nat, NEW from \in Nat, b < from, NEW t
  PROVE  WalkBlock(b, from, t) = WalkBack(WalkBlock(b + 1, from, t), b)
  <1>1. PICK f : Walks(b, from, t, f) /\ WalkBlock(b, from, t) = f[b]
    BY WalkSteps
  <1>2. PICK g : Walks(b + 1, from, t, g) /\ WalkBlock(b + 1, from, t) = g[b + 1]
    <2>1. b + 1 \in Nat /\ b + 1 <= from
      OBVIOUS
    <2> QED
      BY <2>1, WalkSteps
  <1> DEFINE first == [possible |-> TRUE, inst |-> from, target |-> t]
             T == {m \in Nat : from - m \in (b + 1) .. from => f[from - m] = g[from - m]}
  <1>3. \A i \in b .. from : f[i] = IF i = from THEN first ELSE WalkBack(f[i + 1], i)
    BY <1>1, WalksSteps
  <1>4. \A i \in (b + 1) .. from : g[i] = IF i = from THEN first ELSE WalkBack(g[i + 1], i)
    BY <1>2, WalksSteps
  <1> HIDE DEF first
  <1>5. 0 \in T
    BY <1>3, <1>4
  <1>6. ASSUME NEW m \in Nat, m \in T PROVE m + 1 \in T
    <2> SUFFICES ASSUME from - (m + 1) \in (b + 1) .. from PROVE f[from - (m + 1)] = g[from - (m + 1)]
      OBVIOUS
    <2>1. PICK i : i = from - (m + 1) /\ i \in (b + 1) .. from /\ i \in b .. from /\ i # from /\ i + 1 = from - m /\ i + 1 \in (b + 1) .. from
      OBVIOUS
    <2>2. f[i + 1] = g[i + 1]
      BY <1>6, <2>1
    <2>3. f[i] = WalkBack(f[i + 1], i) /\ g[i] = WalkBack(g[i + 1], i)
      BY <1>3, <1>4, <2>1
    <2> QED
      BY <2>1, <2>2, <2>3
  <1>7. f[b + 1] = g[b + 1]
    <2>1. from - (b + 1) \in Nat /\ from - (from - (b + 1)) = b + 1 /\ b + 1 \in (b + 1) .. from
      OBVIOUS
    <2>2. from - (b + 1) \in T
      <3> HIDE DEF T
      <3> QED
        BY <1>5, <1>6, <2>1, UpFromZero
    <2> QED
      BY <2>1, <2>2
  <1>8. f[b] = WalkBack(f[b + 1], b)
    BY <1>3
  <1> QED
    BY <1>1, <1>2, <1>7, <1>8

LEMMA WalkBegins ==
  ASSUME NEW from \in Nat, NEW t
  PROVE  WalkBlock(from, from, t) = [possible |-> TRUE, inst |-> from, target |-> t]
  <1>1. PICK f : Walks(from, from, t, f) /\ WalkBlock(from, from, t) = f[from]
    BY WalkSteps
  <1> QED
    BY <1>1, WalksSteps

(* The operands the walk carries.  An indirect one is loaded through a     *)
(* register that a load or a move of the function reads.                   *)
Pointer(r) == \E j \in DOMAIN code : (code[j].op = "load" /\ code[j].base = r) \/ (code[j].op = "mov" /\ code[j].src = r)

IsTarget(t) ==
  /\ \E n, b, d, p : t = [indirect |-> n, base |-> b, disp |-> d, post |-> p] /\ n \in BOOLEAN /\ b \in Registers
  /\ t.indirect => Pointer(t.base)

\* Stores in front of the access that the walk can tell from the tracked word.
Unaliased ==
  \A i \in Insts(code, Origin) :
    i < access /\ WritesMemory(i) /\ Walked(i + 1).target.indirect => code[i].base = Walked(i + 1).target.base

LEMMA OperandsAreRegisters ==
  ASSUME Built, NEW i \in DOMAIN code
  PROVE  /\ Registers \subseteq Nat \ {0}
         /\ code[i].op \in {"mov", "mov32"} => code[i].dst \in Registers /\ code[i].src \in Registers
         /\ code[i].op = "load"  => code[i].dst \in Registers /\ code[i].base \in Registers
         /\ code[i].op = "store" => code[i].base \in Registers /\ code[i].src \in Registers \cup {0}
         /\ code[i].op = "alu"   => code[i].dst \in Registers
  BY RegistersAssumption DEF Built

LEMMA TargetRecord ==
  ASSUME NEW n \in BOOLEAN, NEW b \in Registers, NEW d, NEW p, n => Pointer(b)
  PROVE  IsTarget([indirect |-> n, base |-> b, disp |-> d, post |-> p])
  <1>1. PICK t : t = [indirect |-> n, base |-> b, disp |-> d, post |-> p]
    OBVIOUS
  <1>2. t.indirect = n /\ t.base = b
    BY <1>1
  <1> QED
    BY <1>1, <1>2 DEF IsTarget

(* UpdateTarget, for a function without the moves and the chains of loads  *)
(* it is not made for.                                                     *)
LEMMA TargetBefore ==
  ASSUME Built, OnePointer, WholeMoves, NEW i \in DOMAIN code, NEW t, IsTarget(t),
         NEW u, u = UpdateTarget(i, t)
  PROVE  /\ ~u.possible => u.target = t
         /\ u.possible => IsTarget(u.target)
  <1>1. PICK n, b, d, p : t = [indirect |-> n, base |-> b, disp |-> d, post |-> p] /\ n \in BOOLEAN /\ b \in Registers
    BY DEF IsTarget
  <1>0. t.indirect = n /\ t.base = b
    BY <1>1
  <1>2. ~u.possible => u.target = t
    BY DEF UpdateTarget, Stop, Go
  <1>3. CASE n /\ WritesMemory(i)
    <2>1. CASE ~SameMemAccess(t, Operand(i))
      <3>1. u = Go(t)
        BY <1>0, <1>3, <2>1 DEF UpdateTarget, SameMemAccess, Operand
      <3>2. u.target = t
        BY <3>1 DEF Go
      <3> QED
        BY <3>2
    <2>2. CASE SameMemAccess(t, Operand(i)) /\ reads_from_register(i) = 0
      BY <1>0, <1>2, <1>3, <2>2 DEF UpdateTarget, Stop
    <2>3. CASE SameMemAccess(t, Operand(i)) /\ reads_from_register(i) # 0
      <3>1. PICK v : v = [indirect |-> FALSE, base |-> reads_from_register(i), disp |-> t.post, post |-> 0]
        OBVIOUS
      <3>2. u = Go(v)
        BY <1>0, <1>3, <2>3, <3>1 DEF UpdateTarget
      <3>3. reads_from_register(i) \in Registers
        BY <1>0, <1>3, <2>3, OperandsAreRegisters DEF reads_from_register, WritesMemory
      <3>4. IsTarget(v)
        BY <3>1, <3>3, TargetRecord
      <3> QED
        BY <1>2, <3>2, <3>4 DEF Go
    <2> QED
      BY <2>1, <2>2, <2>3
  <1>4. CASE ~(n /\ WritesMemory(i)) /\ FamilyWritten(i) # b
    <2>1. u = Go(t)
      BY <1>0, <1>4 DEF UpdateTarget
    <2>2. u.target = t
      BY <2>1 DEF Go
    <2> QED
      BY <2>2
  <1>5. CASE ~(n /\ WritesMemory(i)) /\ FamilyWritten(i) = b
    <2>1. code[i].op \in {"mov", "load", "alu"} /\ b \in Nat \ {0}
      BY <1>0, <1>1, <1>5, RegistersAssumption DEF FamilyWritten, WholeMoves
    <2>2. CASE code[i].op = "alu"
      BY <1>0, <1>2, <1>5, <2>2 DEF UpdateTarget, is_mov, Stop, FamilyWritten
    <2>3. CASE code[i].op = "mov"
      <3>1. code[i].src \in Registers /\ code[i].src # 0
        BY <2>3, OperandsAreRegisters
      <3>2. u = Go([t EXCEPT !.base = code[i].src])
        BY <1>0, <1>5, <2>3, <3>1 DEF UpdateTarget, is_mov, reads_from_register, register_written, FamilyWritten, WritesMemory
      <3>3. [t EXCEPT !.base = code[i].src] = [indirect |-> n, base |-> code[i].src, disp |-> d, post |-> p]
        BY <1>1
      <3>4. Pointer(code[i].src)
        BY <2>3 DEF Pointer
      <3>5. IsTarget([t EXCEPT !.base = code[i].src])
        BY <1>1, <3>1, <3>3, <3>4, TargetRecord
      <3> QED
        BY <1>2, <3>2, <3>5 DEF Go
    <2>4. CASE code[i].op = "load"
      <3>1. u = Go([indirect |-> TRUE, base |-> code[i].base, disp |-> code[i].disp, post |-> t.disp])
        BY <1>0, <1>5, <2>4 DEF UpdateTarget, is_mov, reads_from_register, FamilyWritten, WritesMemory
      <3>2. code[i].base \in Registers /\ Pointer(code[i].base)
        BY <2>4, OperandsAreRegisters DEF Pointer
      <3>3. IsTarget([indirect |-> TRUE, base |-> code[i].base, disp |-> code[i].disp, post |-> t.disp])
        BY <3>2, TargetRecord
      <3> QED
        BY <1>2, <3>1, <3>3 DEF Go
    <2> QED
      BY <2>1, <2>2, <2>3, <2>4
  <1> QED
    BY <1>0, <1>3, <1>4, <1>5

(* What an instruction before the access does to the tracked address.      *)
LEMMA AddressKept ==
  ASSUME Built, OnePointer, WholeMoves, regs = [r \in Registers |-> regs[r]],
         NEW i \in DOMAIN code, NEW t, IsTarget(t),
         t.indirect /\ WritesMemory(i) => code[i].base = t.base,
         code[i].op \in Calls => t.base # rax,
         NEW u, u = UpdateTarget(i, t), u.possible
  PROVE  /\ Address(u.target, regs, mem) = Address(t, RegsAfter(i), MemAfter(i))
         /\ Address(u.target, RegsAfter(i), MemAfter(i)) = Address(t, RegsAfter(i), MemAfter(i))
  <1>1. PICK n, b, d, p : t = [indirect |-> n, base |-> b, disp |-> d, post |-> p] /\ n \in BOOLEAN /\ b \in Registers
    BY DEF IsTarget
  <1>2. PICK rs, ms : rs = RegsAfter(i) /\ ms = MemAfter(i)
    OBVIOUS
  <1>3. t.indirect = n /\ t.base = b /\ t.disp = d /\ t.post = p /\ b \in Nat \ {0}
    BY <1>1, RegistersAssumption
  <1>4. ASSUME NEW r \in Registers, r # FamilyWritten(i), code[i].op \in Calls => r # rax PROVE rs[r] = regs[r]
    BY <1>2, <1>4, OperandsAreRegisters DEF RegsAfter, FamilyWritten, WholeMoves
  <1>5. ASSUME NEW v, NEW k, WritesMemory(i) => <<v, k>> # <<regs[code[i].base], code[i].disp>> PROVE Loaded(ms, v, k) = Loaded(mem, v, k)
    BY <1>2, <1>5 DEF Loaded, MemAfter, WritesMemory
  <1>6. CASE n /\ WritesMemory(i)
    <2>1. code[i].base = b /\ FamilyWritten(i) = 0 /\ code[i].op \notin Calls /\ code[i].op = "store"
      BY <1>3, <1>6 DEF WritesMemory, FamilyWritten, Calls
    <2>2. rs[b] = regs[b]
      BY <1>1, <1>3, <1>4, <2>1
    <2>3. CASE d # code[i].disp
      <3>1. u = Go(t)
        BY <1>3, <1>6, <2>1, <2>3 DEF UpdateTarget, SameMemAccess, Operand
      <3>2. u.target = t
        BY <3>1 DEF Go
      <3>3. Loaded(ms, regs[b], d) = Loaded(mem, regs[b], d)
        BY <1>5, <2>3
      <3> QED
        BY <1>2, <1>3, <2>2, <3>2, <3>3 DEF Address, apply_mask
    <2>4. CASE d = code[i].disp
      <3>1. SameMemAccess(t, Operand(i))
        BY <1>3, <2>1, <2>4 DEF SameMemAccess, Operand
      <3>2. reads_from_register(i) # 0
        BY <1>3, <1>6, <3>1 DEF UpdateTarget, Stop
      <3>3. PICK src : src = code[i].src /\ src = reads_from_register(i) /\ src \in Registers
        BY <2>1, <3>2, OperandsAreRegisters DEF reads_from_register
      <3>4. u = Go([indirect |-> FALSE, base |-> src, disp |-> p, post |-> 0])
        BY <1>3, <1>6, <3>1, <3>2, <3>3 DEF UpdateTarget
      <3>5. u.target.indirect = FALSE /\ u.target.base = src /\ u.target.disp = p
        BY <3>4 DEF Go
      <3>6. Loaded(ms, regs[b], d) = regs[src]
        <4>1. ms = [x \in DOMAIN mem \cup {<<regs[b], d>>} |-> IF x = <<regs[b], d>> THEN regs[src] ELSE mem[x]]
          BY <1>2, <2>1, <2>4, <3>2, <3>3 DEF MemAfter
        <4> QED
          BY <4>1 DEF Loaded
      <3>7. rs[src] = regs[src]
        BY <1>4, <2>1, <3>3, RegistersAssumption
      <3> QED
        BY <1>2, <1>3, <1>6, <2>2, <3>5, <3>6, <3>7 DEF Address, apply_mask
    <2> QED
      BY <2>3, <2>4
  <1>7. CASE ~(n /\ WritesMemory(i)) /\ FamilyWritten(i) # b
    <2>1. u = Go(t)
      BY <1>3, <1>7 DEF UpdateTarget
    <2>2. u.target = t
      BY <2>1 DEF Go
    <2>3. rs[b] = regs[b]
      BY <1>1, <1>3, <1>4, <1>7
    <2>4. n => Loaded(ms, regs[b], d) = Loaded(mem, regs[b], d)
      BY <1>5, <1>7
    <2> QED
      BY <1>2, <1>3, <2>2, <2>3, <2>4 DEF Address, apply_mask
  <1>8. CASE ~(n /\ WritesMemory(i)) /\ FamilyWritten(i) = b
    <2>1. code[i].op \in {"mov", "load", "alu"}
      BY <1>3, <1>8 DEF FamilyWritten, WholeMoves
    <2>2. code[i].op # "alu"
      BY <1>3, <1>8 DEF UpdateTarget, is_mov, Stop, FamilyWritten
    <2>3. ms = mem
      BY <1>2, <2>1 DEF MemAfter
    <2>4. CASE code[i].op = "mov"
      <3>1. PICK src : src = code[i].src /\ src \in Registers /\ src # 0 /\ code[i].dst = b
        BY <1>8, <2>4, OperandsAreRegisters DEF FamilyWritten
      <3>2. u = Go([t EXCEPT !.base = src])
        BY <1>3, <1>8, <2>4, <3>1 DEF UpdateTarget, is_mov, reads_from_register, register_written, FamilyWritten, WritesMemory
      <3>3. u.target = [indirect |-> n, base |-> src, disp |-> d, post |-> p]
        BY <1>1, <3>2 DEF Go
      <3>4. rs = [regs EXCEPT ![b] = regs[src]]
        BY <1>2, <2>4, <3>1 DEF RegsAfter, Calls
      <3>5. rs[b] = regs[src] /\ rs[src] = regs[src]
        BY <1>1, <3>1, <3>4
      <3> QED
        BY <1>2, <1>3, <2>3, <3>3, <3>5 DEF Address, apply_mask
    <2>5. CASE code[i].op = "load"
      <3>1. PICK c, k : c = code[i].base /\ k = code[i].disp /\ c \in Registers /\ c # b /\ code[i].dst = b
        BY <1>8, <2>5, OperandsAreRegisters DEF FamilyWritten, OnePointer
      <3>2. ~n
        <4>1. ~Pointer(b)
          BY <2>5, <3>1 DEF Pointer, OnePointer
        <4> QED
          BY <1>3, <4>1 DEF IsTarget
      <3>3. u = Go([indirect |-> TRUE, base |-> c, disp |-> k, post |-> d])
        BY <1>3, <1>8, <2>5, <3>1 DEF UpdateTarget, is_mov, reads_from_register, FamilyWritten, WritesMemory
      <3>4. u.target = [indirect |-> TRUE, base |-> c, disp |-> k, post |-> d]
        BY <3>3 DEF Go
      <3>5. rs = [regs EXCEPT ![b] = Loaded(mem, regs[c], k)]
        BY <1>2, <2>5, <3>1 DEF RegsAfter, Calls
      <3>6. rs[b] = Loaded(mem, regs[c], k) /\ rs[c] = regs[c]
        BY <1>1, <3>1, <3>5
      <3> QED
        BY <1>2, <1>3, <2>3, <3>2, <3>4, <3>6 DEF Address, apply_mask
    <2> QED
      BY <2>1, <2>2, <2>4, <2>5
  <1> QED
    BY <1>1, <1>3, <1>6, <1>7, <1>8

(* The first walk: every instruction between the access and where it stops *)
(* was passed, with an operand of the function.                            *)
WalkStopped(b) ==
  LET w == Walked(b) IN
    /\ w.inst \in b .. access
    /\ \A k \in (w.inst + 1) .. access : Walked(k).possible
    /\ w.inst # access => Walked(w.inst) = w
    /\ w.possible => w.inst = b
    /\ \A k \in b .. access : k > w.inst \/ w.possible => IsTarget(Walked(k).target)

LEMMA WalkShape ==
  ASSUME Built, access \in DOMAIN code, code[access].op \in {"load", "store"}, OnePointer, WholeMoves
  PROVE  WalkStopped(Origin)
  <1>1. Origin \in Nat /\ access \in Nat /\ Origin <= access /\ \A i \in Origin .. access : i \in DOMAIN code
    <2>1. access \in Insts(code, Origin) /\ Origin \in Nat /\ access \in Nat /\ Origin <= access
      BY OriginIsBlock
    <2>2. \A i \in Origin .. access : i \in Insts(code, Origin)
      BY <2>1, BlockIsInterval DEF Built
    <2> QED
      BY <2>1, <2>2 DEF Insts
  <1>2. Walked(access) = [possible |-> TRUE, inst |-> access, target |-> Operand(access)]
    BY <1>1, WalkBegins DEF Walked
  <1>3. \A b \in Origin .. (access - 1) : Walked(b) = WalkBack(Walked(b + 1), b)
    BY <1>1, WalkRecurs DEF Walked
  <1>4. IsTarget(Operand(access))
    <2>1. code[access].base \in Registers
      BY OperandsAreRegisters
    <2> QED
      BY <2>1, TargetRecord DEF Operand
  <1> DEFINE T == {m \in Nat : access - m \in Origin .. access => WalkStopped(access - m)}
  <1>5. 0 \in T
    <2>1. PICK w : w = Walked(access)
      OBVIOUS
    <2>2. w.inst = access /\ w.possible = TRUE /\ w.target = Operand(access)
      BY <1>2, <2>1
    <2>3. access - 0 = access /\ access \in access .. access /\ (\A k \in (access + 1) .. access : FALSE) /\ \A k \in access .. access : k = access
      BY <1>1
    <2>4. WalkStopped(access)
      BY <1>4, <2>1, <2>2, <2>3 DEF WalkStopped
    <2> QED
      BY <2>3, <2>4
  <1>6. ASSUME NEW m \in Nat, m \in T PROVE m + 1 \in T
    <2> SUFFICES ASSUME access - (m + 1) \in Origin .. access PROVE WalkStopped(access - (m + 1))
      OBVIOUS
    <2>1. PICK b : /\ b = access - (m + 1) /\ b \in Origin .. (access - 1) /\ b + 1 = access - m /\ b + 1 \in Origin .. access
                   /\ b \in Nat /\ b \in DOMAIN code
      BY <1>1
    <2>2. WalkStopped(b + 1)
      BY <1>6, <2>1
    <2>3. PICK v, w : v = Walked(b + 1) /\ w = Walked(b) /\ w = WalkBack(v, b)
      BY <1>3, <2>1
    <2>4. /\ v.inst \in (b + 1) .. access
          /\ \A k \in (v.inst + 1) .. access : Walked(k).possible
          /\ v.inst # access => Walked(v.inst) = v
          /\ v.possible => v.inst = b + 1
          /\ \A k \in (b + 1) .. access : k > v.inst \/ v.possible => IsTarget(Walked(k).target)
      BY <2>2, <2>3 DEF WalkStopped
    <2>5. CASE ~v.possible
      <3>1. w = v
        BY <2>3, <2>5 DEF WalkBack
      <3>2. w.inst \in b .. access /\ w.inst # b
        BY <1>1, <2>1, <2>4, <3>1
      <3>3. \A k \in b .. access : k > w.inst => IsTarget(Walked(k).target)
        BY <1>1, <2>1, <2>4, <3>1, <3>2
      <3> QED
        BY <2>1, <2>3, <2>4, <2>5, <3>1, <3>2, <3>3 DEF WalkStopped
    <2>6. CASE v.possible
      <3>1. v.inst = b + 1 /\ IsTarget(v.target)
        BY <2>1, <2>3, <2>4, <2>6
      <3>2. w.inst = b
        BY <2>3, <2>6 DEF WalkBack
      <3>3. w.possible => IsTarget(w.target)
        <4>1. PICK u : u = UpdateTarget(b, v.target)
          OBVIOUS
        <4>2. u.possible => IsTarget(u.target)
          BY <2>1, <3>1, <4>1, TargetBefore
        <4>3. w.possible => u.possible /\ w.target = u.target
          BY <2>3, <2>6, <4>1 DEF WalkBack
        <4> QED
          BY <4>2, <4>3
      <3>4. \A k \in (b + 1) .. access : Walked(k).possible
        <4>1. \A k \in (b + 1) .. access : k = b + 1 \/ k \in (v.inst + 1) .. access
          BY <1>1, <2>1, <3>1
        <4> QED
          BY <2>3, <2>4, <2>6, <4>1
      <3>5. \A k \in b .. access : k > w.inst \/ w.possible => IsTarget(Walked(k).target)
        <4> SUFFICES ASSUME NEW k \in b .. access, k > w.inst \/ w.possible PROVE IsTarget(Walked(k).target)
          OBVIOUS
        <4>1. CASE k = b
          BY <2>1, <2>3, <3>2, <3>3, <4>1
        <4>2. CASE k \in (b + 1) .. access
          BY <2>4, <2>6, <4>2
        <4> QED
          BY <1>1, <2>1, <4>1, <4>2
      <3>6. b \in b .. access
        BY <1>1, <2>1
      <3> QED
        BY <2>1, <2>3, <3>2, <3>4, <3>5, <3>6 DEF WalkStopped
    <2> QED
      BY <2>5, <2>6
  <1>7. access - Origin \in T /\ access - (access - Origin) = Origin /\ Origin \in Origin .. access
    <2>1. access - Origin \in Nat /\ access - (access - Origin) = Origin /\ Origin \in Origin .. access
      BY <1>1
    <2> HIDE DEF T
    <2> QED
      BY <1>5, <1>6, <2>1, UpFromZero
  <1> QED
    BY <1>7

(* An instruction of the first walk moves the address as the walk says.    *)
LEMMA WalkedAddress ==
  ASSUME Built, access \in DOMAIN code, code[access].op \in {"load", "store"}, OnePointer, WholeMoves, Unaliased,
         regs = [r \in Registers |-> regs[r]],
         NEW i \in Nat, i < access, Walked(Origin).inst <= i
  PROVE  /\ i > Walked(Origin).inst =>
              Address(Walked(i).target, regs, mem) = Address(Walked(i + 1).target, RegsAfter(i), MemAfter(i))
         /\ i = Walked(Origin).inst =>
              Address(Walked(Origin).target, RegsAfter(i), MemAfter(i)) = Address(Walked(i + 1).target, RegsAfter(i), MemAfter(i))
  <1>1. WalkStopped(Origin) /\ Origin \in Nat /\ access \in Nat /\ access \in Insts(code, Origin)
    BY WalkShape, OriginIsBlock
  <1>2. PICK w : w = Walked(Origin) /\ w.inst \in Origin .. access
    BY <1>1 DEF WalkStopped
  <1>3. i \in Origin .. access /\ i + 1 \in (w.inst + 1) .. access /\ i + 1 \in Origin .. access
    BY <1>1, <1>2
  <1>4. i \in Insts(code, Origin) /\ i \in DOMAIN code
    <2>1. i \in Insts(code, Origin)
      BY <1>1, <1>3, BlockIsInterval DEF Built
    <2> QED
      BY <2>1 DEF Insts
  <1>5. PICK v, t, u : v = Walked(i + 1) /\ t = v.target /\ u = UpdateTarget(i, t)
    OBVIOUS
  <1>6. v.possible /\ IsTarget(t)
    <2>1. i + 1 > w.inst
      BY <1>2, <1>3
    <2> QED
      BY <1>1, <1>2, <1>3, <1>5, <2>1 DEF WalkStopped
  <1>7. Walked(i) = WalkBack(v, i)
    BY <1>1, <1>5, WalkRecurs DEF Walked
  <1>8. PICK x : x = Walked(i)
    OBVIOUS
  <1>9. \/ x.possible /\ u.possible /\ x.target = u.target /\ (code[i].op \in Calls => t.base # rax)
        \/ ~x.possible /\ x.target = t
    <2>1. ~u.possible => u.target = t
      BY <1>4, <1>5, <1>6, TargetBefore
    <2>2. code[i].op = "acquire" => code[i].op \in Calls
      BY DEF Calls
    <2>3. CASE code[i].op = "acquire" \/ (code[i].op \in Calls /\ t.base = rax)
      BY <1>5, <1>6, <1>7, <1>8, <2>3 DEF WalkBack
    <2>4. CASE ~(code[i].op = "acquire" \/ (code[i].op \in Calls /\ t.base = rax))
      <3>1. x = [possible |-> u.possible, inst |-> i, target |-> u.target]
        BY <1>5, <1>6, <1>7, <1>8, <2>4 DEF WalkBack
      <3>2. x.possible = u.possible /\ x.target = u.target
        BY <3>1
      <3> QED
        BY <2>1, <2>4, <3>2
    <2> QED
      BY <2>3, <2>4
  <1>10. t.indirect /\ WritesMemory(i) => code[i].base = t.base
    BY <1>4, <1>5 DEF Unaliased
  <1>11. x.possible => /\ Address(x.target, regs, mem) = Address(t, RegsAfter(i), MemAfter(i))
                       /\ Address(x.target, RegsAfter(i), MemAfter(i)) = Address(t, RegsAfter(i), MemAfter(i))
    BY <1>4, <1>5, <1>6, <1>9, <1>10, AddressKept
  <1>12. i > w.inst => x.possible
    <2>1. i > w.inst => i \in (w.inst + 1) .. access
      BY <1>2, <1>3
    <2> QED
      BY <1>1, <1>2, <1>8, <2>1 DEF WalkStopped
  <1>13. i = w.inst => x = w
    BY <1>1, <1>2, <1>8 DEF WalkStopped
  <1> QED
    BY <1>2, <1>5, <1>8, <1>9, <1>11, <1>12, <1>13

(***************************************************************************)
(* Regions that are opened in the block of the access, and the regions of  *)
(* FindMinimalWindows.                                                     *)
(***************************************************************************)

\* No path of FindPossiblePIFRStart ends in front of the block of the access.
OpensInBlock == starts # {} /\ \A s \in starts : BlockOf(s.inst) = Origin

\* Between the start of the region and the access.
PastStart(k) == k \in (Walked(Origin).inst + 1) .. access

Tracking ==
  /\ pc \in DOMAIN code \cup {0}
  /\ mode = "minimal" => starts = {[inst |-> access, target |-> Operand(access)]}
  /\ mode # "minimal" /\ OpensInBlock /\ PastStart(pc) =>
       /\ opened
       /\ region # Closed /\ OnePointer /\ WholeMoves /\ Unaliased => region = Address(Walked(pc).target, regs, mem)
  /\ AfterMinimal => region = Accessed

RInv ==
  /\ CInv
  /\ code[access].op \in {"load", "store"}
  /\ regs = [r \in Registers |-> regs[r]]
  /\ phase = "run" => Tracking

LEMMA WithinBlock ==
  ASSUME Built, access \in DOMAIN code
  PROVE  /\ Walked(Origin).inst \in Nat \ {0} /\ access \in Nat \ {0} /\ Walked(Origin).inst \in Origin .. access
         /\ \A k : PastStart(k) => k \in Nat /\ k \in DOMAIN code /\ ~IsLeader(code, k) /\ Leader(code, k) = Origin
  <1>1. Origin \in Nat /\ access \in Nat /\ Origin <= access /\ access \in Insts(code, Origin)
    BY OriginIsBlock
  <1>2. Walked(Origin).inst \in Origin .. access
    BY <1>1, WalkInst DEF Walked
  <1>3. /\ Origin \in 1 .. access
        /\ \A k \in Origin .. access : k \in Insts(code, Origin)
        /\ \A k \in (Origin + 1) .. access : ~IsLeader(code, k)
    BY <1>1, BlockIsInterval DEF Built
  <1>4. ASSUME NEW k, PastStart(k) PROVE k \in Nat /\ k \in DOMAIN code /\ ~IsLeader(code, k) /\ Leader(code, k) = Origin
    <2>1. k \in (Origin + 1) .. access /\ k \in Origin .. access /\ k \in Nat
      BY <1>1, <1>2, <1>4 DEF PastStart
    <2> QED
      BY <1>3, <2>1 DEF Insts
  <1> QED
    BY <1>1, <1>2, <1>3, <1>4

LEMMA GoesAlongEdge ==
  ASSUME Built, NEW i \in DOMAIN code, NEW next \in Successors(i), next # 0
  PROVE  next \in DOMAIN code /\ next \in ToSet(Edges(code, i))
  BY DEF Successors

LEMMA FallsThrough ==
  ASSUME NEW p, NEW i \in DOMAIN p, NEW n \in ToSet(Edges(p, i)), p[i].op \notin Jumps \/ ~IsJumpTarget(p, n)
  PROVE  n = i + 1 /\ has_fallthrough(p, i)
  <1>1. n \in ToSet(IF has_fallthrough(p, i) THEN <<i + 1>> ELSE <<>>) \cup ToSet(IF p[i].op \in Jumps THEN <<p[i].target>> ELSE <<>>)
    BY DEF Edges, ToSet
  <1>2. ~(p[i].op \in Jumps /\ n = p[i].target)
    BY DEF IsJumpTarget
  <1> QED
    BY <1>1, <1>2 DEF ToSet

\* The block is entered at its first instruction and left only behind the access.
LEMMA ComesFromAbove ==
  ASSUME Built, access \in DOMAIN code, NEW i \in DOMAIN code, NEW next \in Successors(i), PastStart(next)
  PROVE  i \in Nat /\ next = i + 1 /\ has_fallthrough(code, i) /\ i < access /\ Walked(Origin).inst <= i
  <1>1. next \in Nat \ {0} /\ next \in DOMAIN code /\ ~IsLeader(code, next)
    BY WithinBlock DEF PastStart
  <1>2. next \in ToSet(Edges(code, i))
    BY <1>1, GoesAlongEdge
  <1>3. code[i].op \notin Jumps
    BY <1>1, <1>2, FlowOfBlocks DEF Built, EndsBlock
  <1>4. next = i + 1 /\ has_fallthrough(code, i)
    BY <1>2, <1>3, FallsThrough
  <1>5. i \in Nat
    BY BlockOfInst
  <1> QED
    BY <1>1, <1>4, <1>5, WithinBlock DEF PastStart

LEMMA RegistersKept ==
  ASSUME regs = [r \in Registers |-> regs[r]], NEW i
  PROVE  RegsAfter(i) = [r \in Registers |-> RegsAfter(i)[r]]
  <1>1. RegsAfter(i) = regs \/ \E d, v : RegsAfter(i) = [regs EXCEPT ![d] = v]
    <2>1. code[i].op \in {"mov", "mov32", "load", "alu"} => \E v : RegsAfter(i) = [regs EXCEPT ![code[i].dst] = v]
      <3>1. CASE code[i].op = "mov"
        BY <3>1 DEF RegsAfter, Calls
      <3>2. CASE code[i].op = "mov32"
        BY <3>2 DEF RegsAfter, Calls
      <3>3. CASE code[i].op = "load"
        BY <3>3 DEF RegsAfter, Calls
      <3>4. CASE code[i].op = "alu"
        BY <3>4 DEF RegsAfter, Calls
      <3> QED
        BY <3>1, <3>2, <3>3, <3>4
    <2>2. code[i].op \in Calls => RegsAfter(i) = [regs EXCEPT ![rax] = Fresh]
      BY DEF RegsAfter, Calls
    <2>3. code[i].op \notin {"mov", "mov32", "load", "alu"} \cup Calls => RegsAfter(i) = regs
      BY DEF RegsAfter
    <2> QED
      BY <2>1, <2>2, <2>3
  <1>2. ASSUME NEW d, NEW v, NEW rs, rs = [regs EXCEPT ![d] = v] PROVE rs = [r \in Registers |-> rs[r]]
    <2>1. PICK f : f = regs /\ f = [r \in Registers |-> f[r]]
      OBVIOUS
    <2>2. rs = [f EXCEPT ![d] = v]
      BY <1>2, <2>1
    <2> QED
      BY <2>1, <2>2
  <1> QED
    BY <1>1, <1>2

LEMMA SameTracking ==
  ASSUME UNCHANGED <<code, cfg, access>>
  PROVE  /\ Operand(access)' = Operand(access) /\ (OnePointer' <=> OnePointer) /\ (WholeMoves' <=> WholeMoves)
         /\ (Unaliased' <=> Unaliased) /\ \A k : PastStart(k)' <=> PastStart(k)
         /\ starts' = starts => (OpensInBlock' <=> OpensInBlock)
  BY SamePlaces DEF Operand, OnePointer, WholeMoves, Unaliased, WritesMemory, PastStart, OpensInBlock, BlockOf

\* The starts of a region that is opened in the block of the access.
LEMMA StartInBlock ==
  ASSUME StartsLead, mode # "minimal", OpensInBlock, NEW s \in starts
  PROVE  s = [inst |-> Walked(Origin).inst, target |-> Walked(Origin).target]
  <1>1. PICK b \in Leading : s.inst \in Insts(code, b) /\ (b = Origin => s = [inst |-> Walked(Origin).inst, target |-> Walked(Origin).target])
    BY DEF StartsLead
  <1>2. b = Origin
    BY <1>1 DEF OpensInBlock, BlockOf, Insts
  <1> QED
    BY <1>1, <1>2

LEMMA ExecuteTracks ==
  ASSUME RInv, Execute
  PROVE  Tracking' /\ (regs = [r \in Registers |-> regs[r]])'
  <1>1. /\ Built /\ access \in DOMAIN code /\ StartsLead /\ Tracking /\ phase = "run" /\ pc # 0 /\ pc \in DOMAIN code
        /\ UNCHANGED <<code, cfg, access, starts, mode, phase>>
    BY DEF RInv, CInv, Tracking, Execute, cfvars, rpvars
  <1>2. PICK i : i = pc /\ i \in DOMAIN code
    BY <1>1
  <1>3. PICK next \in Successors(i) :
          /\ pc' = next /\ regs' = RegsAfter(i) /\ mem' = MemAfter(i)
          /\ IF {s \in starts : s.inst = i} # {} /\ next = i + 1 /\ has_fallthrough(code, i)
             THEN \E s \in {s \in starts : s.inst = i} : region' = Address(s.target, regs', mem') /\ opened' = TRUE
             ELSE region' = (IF i \in ends THEN Closed ELSE region) /\ UNCHANGED opened
    BY <1>2 DEF Execute
  <1>4. next \in DOMAIN code \cup {0}
    BY <1>3 DEF Successors
  <1>5. (regs = [r \in Registers |-> regs[r]])'
    BY <1>3, RegistersKept DEF RInv
  <1>6. Walked(Origin).inst \in Nat \ {0} /\ access \in Nat \ {0} /\ Walked(Origin).inst \in Origin .. access
    BY <1>1, WithinBlock
  <1>7. ASSUME mode # "minimal", OpensInBlock, PastStart(next)
        PROVE  /\ opened'
               /\ region' # Closed /\ OnePointer /\ WholeMoves /\ Unaliased => region' = Address(Walked(next).target, regs', mem')
    <2>1. i \in Nat /\ next = i + 1 /\ has_fallthrough(code, i) /\ i < access /\ Walked(Origin).inst <= i
      BY <1>1, <1>2, <1>3, <1>7, ComesFromAbove
    <2>2. \A s \in starts : s = [inst |-> Walked(Origin).inst, target |-> Walked(Origin).target]
      BY <1>1, <1>7, StartInBlock
    <2>3. starts # {}
      BY <1>7 DEF OpensInBlock
    <2>4. ASSUME OnePointer, WholeMoves, Unaliased
          PROVE  /\ i > Walked(Origin).inst => Address(Walked(i).target, regs, mem) = Address(Walked(next).target, regs', mem')
                 /\ i = Walked(Origin).inst => Address(Walked(Origin).target, regs', mem') = Address(Walked(next).target, regs', mem')
      BY <1>1, <1>3, <2>1, <2>4, WalkedAddress DEF RInv
    <2>5. CASE i = Walked(Origin).inst
      <3>1. PICK s \in starts : region' = Address(s.target, regs', mem') /\ opened' = TRUE
        BY <1>3, <2>1, <2>2, <2>3, <2>5
      <3>2. s.target = Walked(Origin).target
        BY <2>2, <3>1
      <3> QED
        BY <2>4, <2>5, <3>1, <3>2
    <2>6. CASE i > Walked(Origin).inst
      <3>1. {s \in starts : s.inst = i} = {}
        BY <1>6, <2>1, <2>2, <2>6
      <3>2. region' = (IF i \in ends THEN Closed ELSE region) /\ opened' = opened
        BY <1>3, <3>1
      <3>3. PastStart(i)
        BY <1>6, <2>1, <2>6 DEF PastStart
      <3>4. /\ opened
            /\ region # Closed /\ OnePointer /\ WholeMoves /\ Unaliased => region = Address(Walked(i).target, regs, mem)
        BY <1>1, <1>2, <1>7, <3>3 DEF Tracking
      <3> QED
        BY <2>4, <2>6, <3>2, <3>4
    <2> QED
      BY <1>6, <2>1, <2>5, <2>6
  <1>8. ASSUME mode = "minimal", next = access + 1, ~IsJumpTarget(code, next)
        PROVE  region' = <<regs'[code[access].base], code[access].disp>>
    <2>1. next \in ToSet(Edges(code, i))
      BY <1>1, <1>2, <1>3, <1>6, <1>8, GoesAlongEdge
    <2>2. next = i + 1 /\ has_fallthrough(code, i)
      BY <1>2, <1>8, <2>1, FallsThrough
    <2>3. i = access
      <3>1. i \in Nat
        BY <1>1, <1>2, BlockOfInst
      <3> QED
        BY <1>6, <1>8, <2>2, <3>1
    <2>4. starts = {[inst |-> access, target |-> Operand(access)]}
      BY <1>1, <1>8 DEF Tracking
    <2>5. PICK s \in {[inst |-> access, target |-> Operand(access)]} : region' = Address(s.target, regs', mem')
      <3>1. \A s \in starts : s.inst = access
        BY <2>4
      <3>2. {s \in starts : s.inst = i} = starts
        BY <2>3, <3>1
      <3> QED
        BY <1>3, <2>2, <2>4, <3>2
    <2> QED
      BY <2>5 DEF Address, Operand, apply_mask
  <1>9. AfterMinimal' => (region = Accessed)'
    BY <1>1, <1>3, <1>8 DEF AfterMinimal, Accessed
  <1>10. (mode # "minimal" /\ OpensInBlock /\ PastStart(pc) =>
            /\ opened
            /\ region # Closed /\ OnePointer /\ WholeMoves /\ Unaliased => region = Address(Walked(pc).target, regs, mem))'
    <2>1. /\ (OpensInBlock' <=> OpensInBlock) /\ (OnePointer' <=> OnePointer) /\ (WholeMoves' <=> WholeMoves) /\ (Unaliased' <=> Unaliased)
      BY <1>1, SameTracking
    <2>2. (PastStart(pc)' <=> PastStart(next)) /\ Walked(pc)' = Walked(next)
      BY <1>1, <1>3, SamePlaces DEF PastStart, Walked, Operand
    <2>3. Address(Walked(pc).target, regs, mem)' = Address(Walked(next).target, regs', mem')
      BY <2>2 DEF Address, Loaded, apply_mask
    <2> QED
      BY <1>1, <1>7, <2>1, <2>2, <2>3 DEF Closed
  <1>11. (mode = "minimal" => starts = {[inst |-> access, target |-> Operand(access)]})'
    BY <1>1, SameTracking DEF Tracking
  <1> QED
    BY <1>1, <1>3, <1>4, <1>5, <1>9, <1>10, <1>11 DEF Tracking

LEMMA RInvStarts ==
  ASSUME PFInit PROVE RInv
  <1>1. code[access].op \in {"load", "store"}
    BY DEF PFInit, RPInit, annotate_relevant_insts, relevant_insts, InstrumentCollectTrace, WritesMemory
  <1>2. regs = [r \in Registers |-> regs[r]] /\ phase = "dominators"
    BY DEF PFInit, RPInit, CFInit
  <1> QED
    BY <1>1, <1>2, CInvStarts DEF RInv

\* Before the first instruction.
LEMMA TrackingBegins ==
  ASSUME Built, access \in DOMAIN code, UNCHANGED <<code, cfg, access>>, pc' = 1,
         (mode = "minimal" => starts = {[inst |-> access, target |-> Operand(access)]})'
  PROVE  Tracking'
  <1>1. 1 \in DOMAIN code
    BY ProgramShape DEF Built
  <1>2. ~PastStart(1) /\ 1 # access + 1
    BY WithinBlock DEF PastStart
  <1>3. ~PastStart(pc)' /\ ~AfterMinimal'
    BY <1>2, SamePlaces DEF PastStart, AfterMinimal
  <1> QED
    BY <1>1, <1>3 DEF Tracking

LEMMA RInvKept ==
  ASSUME RInv, [PFNext]_pfvars PROVE RInv'
  <1>1. CInv /\ CInv' /\ Built /\ access \in DOMAIN code /\ regs = [r \in Registers |-> regs[r]]
    BY CInvKept DEF RInv, CInv
  <1>2. ASSUME UNCHANGED <<code, access>> PROVE (code[access].op \in {"load", "store"})'
    BY <1>2 DEF RInv
  <1>3. CASE Execute
    BY <1>1, <1>2, <1>3, ExecuteTracks DEF RInv, Execute, cfvars, rpvars
  <1>4. CASE RPNext /\ UNCHANGED xvars
    <2>1. UNCHANGED <<code, cfg, access, mode, pc, regs>> /\ phase # "run"
      BY <1>4 DEF RPNext, CFNext, DominatorsStep, StartPostdominators, PostdominatorsStep, DefineLoops, FindMinimalWindows,
                  ProcessStep, Prune, BackOfEmpty, CollectStarts, FindEnds, ReleasesEnd, cfvars, rpvars, xvars
    <2>2. pc = 1
      BY <1>1, <2>1 DEF CInv
    <2>3. ASSUME phase' = "run" PROVE (mode = "minimal" => starts = {[inst |-> access, target |-> Operand(access)]})'
      <3>1. \/ FindMinimalWindows
            \/ mode # "minimal"
        BY <1>4, <2>1, <2>3 DEF RPNext, ProcessStep, Prune, BackOfEmpty, CollectStarts, FindEnds, ReleasesEnd, cfvars
      <3> QED
        BY <2>1, <3>1 DEF FindMinimalWindows, Operand
    <2>4. ASSUME phase' = "run" PROVE Tracking'
      <3>1. pc' = 1
        BY <2>1, <2>2
      <3>2. (mode = "minimal" => starts = {[inst |-> access, target |-> Operand(access)]})'
        BY <2>3, <2>4
      <3> QED
        BY <1>1, <2>1, <3>1, <3>2, TrackingBegins
    <2> QED
      BY <1>1, <1>2, <2>1, <2>4 DEF RInv
  <1>5. CASE UNCHANGED pfvars
    <2>1. UNCHANGED <<code, cfg, access, mode, starts, phase, pc, regs, mem, region, opened>>
      BY <1>5 DEF pfvars, cfvars, rpvars, xvars
    <2>2. (AfterMinimal' <=> AfterMinimal) /\ ((region = Accessed)' <=> (region = Accessed))
      BY <2>1 DEF AfterMinimal, Accessed, FamilyWritten
    <2>3. (PastStart(pc)' <=> PastStart(pc)) /\ Address(Walked(pc).target, regs, mem)' = Address(Walked(pc).target, regs, mem)
      BY <2>1, SamePlaces DEF PastStart, Walked, Operand, Address, Loaded, apply_mask
    <2>4. /\ (OpensInBlock' <=> OpensInBlock) /\ (OnePointer' <=> OnePointer) /\ (WholeMoves' <=> WholeMoves) /\ (Unaliased' <=> Unaliased)
          /\ Operand(access)' = Operand(access) /\ Closed' = Closed
      BY <2>1, SameTracking DEF Closed
    <2>5. Tracking' <=> Tracking
      BY <2>1, <2>2, <2>3, <2>4 DEF Tracking
    <2> QED
      BY <1>1, <1>2, <2>1, <2>5 DEF RInv
  <1> QED
    BY <1>3, <1>4, <1>5 DEF PFNext

\* What tracking means at the access.
LEMMA AtTheAccess ==
  ASSUME RInv, AtAccess, Placed, OpensInBlock
  PROVE  /\ opened
         /\ region # Closed /\ OnePointer /\ WholeMoves /\ Unaliased => region = Accessed
  <1>1. Built /\ access \in DOMAIN code /\ StartsLead /\ Tracking /\ pc = access
    BY DEF RInv, CInv, AtAccess
  <1>2. PICK s \in starts : s.inst # access
    BY DEF OpensInBlock, Placed
  <1>3. mode # "minimal"
    <2> SUFFICES ASSUME mode = "minimal" PROVE FALSE
      OBVIOUS
    <2>1. starts = {[inst |-> access, target |-> Operand(access)]}
      BY <1>1 DEF Tracking
    <2>2. s.inst = access
      BY <1>2, <2>1
    <2> QED
      BY <1>2, <2>2
  <1>4. s.inst = Walked(Origin).inst
    BY <1>1, <1>3, StartInBlock
  <1>5. PastStart(access)
    BY <1>1, <1>2, <1>4, WithinBlock DEF PastStart
  <1>6. Address(Walked(access).target, regs, mem) = Accessed
    <2>1. Walked(access).target = Operand(access)
      BY <1>1, OriginIsBlock, WalkBegins DEF Walked
    <2> QED
      BY <2>1 DEF Address, Operand, apply_mask, Accessed
  <1> QED
    BY <1>1, <1>3, <1>5, <1>6 DEF Tracking

(* In any function whose access has its region opened in the block of the  *)
(* access, whatever the function does elsewhere and however often control  *)
(* comes back to the block: the address the region is opened with is the   *)
(* one accessed, if no store in front of the access goes through another   *)
(* register to the word the address is loaded from (UpdateTarget compares  *)
(* operands by their registers).  Of the exceptions of RightAddress only   *)
(* those are needed that precede its OneName.  A region of --minimal is    *)
(* right in every function.                                                *)
THEOREM RightWithinBlock ==
  PFSpec => [](/\ AtAccess /\ region # Closed /\ Placed /\ OnePointer /\ WholeMoves
                  /\ OpensInBlock /\ Unaliased => region = Accessed
               /\ AfterMinimal => region = Accessed)
  <1>1. PFInit => RInv
    BY RInvStarts
  <1>2. RInv /\ [PFNext]_pfvars => RInv'
    BY RInvKept
  <1>3. RInv => /\ AtAccess /\ region # Closed /\ Placed /\ OnePointer /\ WholeMoves
                   /\ OpensInBlock /\ Unaliased => region = Accessed
                /\ AfterMinimal => region = Accessed
    <2> SUFFICES ASSUME RInv
                 PROVE  /\ AtAccess /\ region # Closed /\ Placed /\ OnePointer /\ WholeMoves
                           /\ OpensInBlock /\ Unaliased => region = Accessed
                        /\ AfterMinimal => region = Accessed
      OBVIOUS
    <2>1. AfterMinimal => region = Accessed
      BY DEF RInv, AfterMinimal, Tracking
    <2> QED
      BY <2>1, AtTheAccess
  <1> QED
    BY <1>1, <1>2, <1>3, PTL DEF PFSpec

(* In the same functions no execution reaches the access without having    *)
(* opened the region: every way into the block passes its start, and       *)
(* Covered holds without SurvivorsKept.                                    *)
THEOREM CoveredWithinBlock == PFSpec => [](AtAccess /\ Placed /\ OpensInBlock => opened)
  <1>1. PFInit => RInv
    BY RInvStarts
  <1>2. RInv /\ [PFNext]_pfvars => RInv'
    BY RInvKept
  <1>3. RInv => (AtAccess /\ Placed /\ OpensInBlock => opened)
    BY AtTheAccess
  <1> QED
    BY <1>1, <1>2, <1>3, PTL DEF PFSpec
=============================================================================
