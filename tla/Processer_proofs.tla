--------------------------- MODULE Processer_proofs ---------------------------
(***************************************************************************)
(* Type correctness of the Processer, and the disjointness of its two maps *)
(* that makes std::map::insert lossless, for every set of store shapes and *)
(* flush addresses.                                                        *)
(***************************************************************************)
EXTENDS Processer, TLAPS

USE CachelineAssumption, ShapesAssumption, FlushAssumption, MaxIdAssumption

StoreAddresses == {s[1] : s \in StoreShapes}

(* What a map is at an instruction count: IsGroup with the bound on the    *)
(* ids a parameter, so that it can be carried from one count to the next.  *)
GroupAt(group, states, n) ==
  /\ group = [a \in DOMAIN group |-> group[a]]
  /\ DOMAIN group \subseteq StoreAddresses
  /\ \A a \in DOMAIN group :
       group[a] \in Store /\ group[a].state \in states /\ group[a].instruction_id < n

Unflushed == {"MODIFIED", "PARTIALLY_FLUSHED"}

(* Erasing keys keeps a map a map.                                         *)
LEMMA EraseGroup ==
  ASSUME NEW group, NEW states, NEW n \in Nat, NEW keys, GroupAt(group, states, n)
  PROVE  /\ GroupAt(Erase(group, keys), states, n + 1)
         /\ DOMAIN Erase(group, keys) = DOMAIN group \ keys
         /\ \A a \in DOMAIN group \ keys : Erase(group, keys)[a] = group[a]
  BY DEF GroupAt, Erase, Restrict, Store

(* Inserting entries of the right kind keeps a map a map.                  *)
LEMMA InsertGroup ==
  ASSUME NEW group, NEW entries, NEW states, NEW n \in Nat,
         GroupAt(group, states, n), GroupAt(entries, states, n)
  PROVE  /\ GroupAt(Insert(group, entries), states, n)
         /\ DOMAIN Insert(group, entries) = DOMAIN group \cup DOMAIN entries
  BY DEF GroupAt, Insert, Store

(* A single new store, whose id is the current count.                      *)
LEMMA NewEntry ==
  ASSUME NEW s \in StoreShapes, NEW n \in Nat, NEW st \in StoreState
  PROVE  GroupAt([a \in {s[1]} |-> NewStore(s[2], n, st)], {st}, n + 1)
  <1>1. s[1] \in Nat /\ s[2] \in Nat \ {0}
    OBVIOUS
  <1>2. NewStore(s[2], n, st) \in Store
    BY <1>1 DEF NewStore, Store
  <1>3. NewStore(s[2], n, st).instruction_id = n /\ NewStore(s[2], n, st).state = st
    BY DEF NewStore
  <1> QED
    BY <1>1, <1>2, <1>3 DEF GroupAt, StoreAddresses

(* A map whose states all lie in a smaller set is one for a larger set.    *)
LEMMA WidenGroup ==
  ASSUME NEW group, NEW small, NEW big, NEW n \in Nat,
         small \subseteq big, GroupAt(group, small, n)
  PROVE  GroupAt(group, big, n) /\ GroupAt(group, big, n + 1)
  BY DEF GroupAt, Store

(* CheckStore always erases the entry under the address being stored to:   *)
(* of two stores with the same start, one contains the other.  So the      *)
(* insert that follows it never finds its key taken.                       *)
LEMMA CheckStoreFreesKey ==
  ASSUME NEW group, NEW states, NEW n \in Nat, GroupAt(group, states, n),
         NEW s \in StoreShapes
  PROVE  /\ s[1] \notin DOMAIN CheckStore(group, s[1], s[2])
         /\ DOMAIN CheckStore(group, s[1], s[2]) \subseteq DOMAIN group
         /\ GroupAt(CheckStore(group, s[1], s[2]), states, n + 1)
  <1> DEFINE over == Overwritten(group, s[1], s[2])
  <1>1. s[1] \in Nat /\ s[2] \in Nat \ {0}
    OBVIOUS
  <1>2. ASSUME s[1] \in DOMAIN group
        PROVE  s[1] \in over
    <2>1. group[s[1]].size \in Nat
      BY <1>2 DEF GroupAt, Store
    <2>2. s[1] \in CoveredKeys(group, s[1], s[1] + s[2])
      BY <1>1, <1>2 DEF CoveredKeys
    <2> QED
      BY <1>1, <2>1, <2>2 DEF Overwritten, TargetStoreContainsSourceStore,
                              SourceStoreContainsTargetStore
  <1>3. DOMAIN Erase(group, over) = DOMAIN group \ over /\ GroupAt(Erase(group, over), states, n + 1)
    BY EraseGroup
  <1> QED
    BY <1>2, <1>3 DEF CheckStore

(* The bugs a step reports have the ids of pending stores.                 *)
LEMMA BugsTyped ==
  ASSUME NEW type \in BugType, NEW ids \in SUBSET Nat
  PROVE  BugsAt(type, ids) \subseteq Bug
  BY DEF BugsAt, Bug

LEMMA PendingIdsTyped ==
  ASSUME NEW group, NEW states, NEW n \in Nat, GroupAt(group, states, n)
  PROVE  PendingIds(group) \subseteq Nat /\ \A i \in PendingIds(group) : i < n
  BY DEF GroupAt, PendingIds, Store

LEMMA OverwrittenBugsTyped ==
  ASSUME NEW group, NEW states, NEW n \in Nat, GroupAt(group, states, n),
         NEW s \in StoreShapes, NEW type \in BugType
  PROVE  OverwrittenBugs(group, s[1], s[2], type) \subseteq Bug
  <1> DEFINE over == Overwritten(group, s[1], s[2])
  <1>1. over \subseteq DOMAIN group
    BY DEF Overwritten, CoveredKeys
  <1>2. PendingIds(Restrict(group, over)) \subseteq Nat
    BY <1>1 DEF PendingIds, Restrict, GroupAt, Store
  <1> QED
    BY <1>2, BugsTyped DEF OverwrittenBugs
-----------------------------------------------------------------------------
(* The inductive invariant: TypeOK with the map types as GroupAt, and      *)
(* PendingDisjoint.                                                        *)
IInv ==
  /\ current_instruction_id \in Nat
  /\ GroupAt(flush_pending, Unflushed, current_instruction_id)
  /\ GroupAt(fence_pending, {"FLUSHED"}, current_instruction_id)
  /\ unordered_flushes \in 0 .. current_instruction_id
  /\ fully_persisted \subseteq Nat
  /\ bugs \subseteq Bug
  /\ done \in BOOLEAN
  /\ PendingDisjoint

LEMMA IInvTypeOK == IInv <=> TypeOK /\ PendingDisjoint
  BY DEF IInv, TypeOK, IsGroup, GroupAt, Unflushed, StoreAddresses

(* The empty map.                                                          *)
LEMMA EmptyGroup ==
  ASSUME NEW states, NEW n \in Nat
  PROVE  GroupAt(NoStores, states, n) /\ DOMAIN NoStores = {}
  BY DEF GroupAt, NoStores

LEMMA InitIInv == Init => IInv
  <1> SUFFICES ASSUME Init PROVE IInv
    OBVIOUS
  <1>1. /\ GroupAt(flush_pending, Unflushed, 0)
        /\ GroupAt(fence_pending, {"FLUSHED"}, 0)
        /\ DOMAIN flush_pending = {}
    BY EmptyGroup DEF Init
  <1>2. 0 \in 0 .. 0 /\ {} \subseteq Nat /\ {} \subseteq Bug
    OBVIOUS
  <1>3. PendingDisjoint
    BY <1>1 DEF PendingDisjoint
  <1> QED
    BY <1>1, <1>2, <1>3 DEF Init, IInv

LEMMA StoreStep ==
  ASSUME IInv, NEW s \in StoreShapes, NEW is_movnt \in BOOLEAN,
         TraceStore(s[1], s[2], is_movnt)
  PROVE  IInv'
  <1> DEFINE n         == current_instruction_id
             write     == NewStore(s[2], n, IF is_movnt THEN "FLUSHED" ELSE "MODIFIED")
             entry     == [a \in {s[1]} |-> write]
             unflushed == CheckStore(flush_pending, s[1], s[2])
             unfenced  == CheckStore(fence_pending, s[1], s[2])
  <1>1. /\ n \in Nat /\ current_instruction_id' = n + 1
        /\ unordered_flushes' \in 0 .. n + 1
        /\ fully_persisted' \subseteq Nat
        /\ done' \in BOOLEAN
    BY DEF IInv, TraceStore, TraceLine, ProcessStore
  <1>2. /\ s[1] \notin DOMAIN unflushed /\ s[1] \notin DOMAIN unfenced
        /\ DOMAIN unflushed \cap DOMAIN unfenced = {}
        /\ GroupAt(unflushed, Unflushed, n + 1) /\ GroupAt(unfenced, {"FLUSHED"}, n + 1)
    BY CheckStoreFreesKey DEF IInv, PendingDisjoint
  <1>3. bugs' \subseteq Bug
    <2>1. OverwrittenBugs(flush_pending, s[1], s[2], "OVERWRITTEN_UNFLUSHED") \subseteq Bug
      BY OverwrittenBugsTyped DEF IInv, BugType
    <2>2. OverwrittenBugs(fence_pending, s[1], s[2], "OVERWRITTEN_UNFENCED") \subseteq Bug
      BY OverwrittenBugsTyped DEF IInv, BugType
    <2> QED
      BY <2>1, <2>2 DEF IInv, TraceStore, ProcessStore
  <1>4. CASE is_movnt
    <2>1. flush_pending' = unflushed /\ fence_pending' = Insert(unfenced, entry)
      BY <1>4 DEF TraceStore, ProcessStore
    <2>2. GroupAt(entry, {"FLUSHED"}, n + 1)
      BY <1>1, <1>4, NewEntry DEF StoreState
    <2>3. GroupAt(fence_pending', {"FLUSHED"}, n + 1) /\ DOMAIN fence_pending' = DOMAIN unfenced \cup {s[1]}
      <3>1. n + 1 \in Nat /\ DOMAIN entry = {s[1]}
        BY <1>1
      <3> HIDE DEF entry, unfenced
      <3> QED
        BY <1>2, <2>1, <2>2, <3>1, InsertGroup
    <2> QED
      BY <1>1, <1>2, <1>3, <2>1, <2>3 DEF IInv, PendingDisjoint
  <1>5. CASE ~is_movnt
    <2>1. flush_pending' = Insert(unflushed, entry) /\ fence_pending' = unfenced
      BY <1>5 DEF TraceStore, ProcessStore
    <2>2. GroupAt(entry, Unflushed, n + 1)
      <3>1. GroupAt(entry, {"MODIFIED"}, n + 1) /\ {"MODIFIED"} \subseteq Unflushed
        BY <1>1, <1>5, NewEntry DEF StoreState, Unflushed
      <3> HIDE DEF entry
      <3> QED
        BY <1>1, <3>1, WidenGroup
    <2>3. GroupAt(flush_pending', Unflushed, n + 1) /\ DOMAIN flush_pending' = DOMAIN unflushed \cup {s[1]}
      <3>1. n + 1 \in Nat /\ DOMAIN entry = {s[1]}
        BY <1>1
      <3> HIDE DEF entry, unflushed
      <3> QED
        BY <1>2, <2>1, <2>2, <3>1, InsertGroup
    <2> QED
      BY <1>1, <1>2, <1>3, <2>1, <2>3 DEF IInv, PendingDisjoint
  <1> QED
    BY <1>4, <1>5

(* A flush moves each store it erases from one map into the other: the     *)
(* domains stay disjoint because an entry is never copied without being    *)
(* erased.                                                                 *)
LEMMA FlushStep ==
  ASSUME IInv, NEW t \in Flushes, NEW address \in FlushAddresses, TraceFlush(t, address)
  PROVE  IInv'
  <1> DEFINE n       == current_instruction_id
             keys    == FlushedKeys(flush_pending, address)
             marked  == MarkPartial(flush_pending, address)
             flushed == [a \in keys |-> flush(flush_pending[a])]
  <1>1. /\ n \in Nat /\ current_instruction_id' = n + 1
        /\ unordered_flushes' \in 0 .. n + 1
        /\ fully_persisted' \subseteq Nat
        /\ done' \in BOOLEAN
    BY DEF IInv, TraceFlush, TraceLine, ProcessFlush
  <1>2. keys \subseteq DOMAIN flush_pending
    BY DEF FlushedKeys, Inside, PartiallyInside, CoveredKeys
  <1>3. GroupAt(marked, Unflushed, n) /\ DOMAIN marked = DOMAIN flush_pending
    BY DEF IInv, GroupAt, MarkPartial, Unflushed, Store, StoreState
  <1>4. GroupAt(flushed, {"FLUSHED"}, n)
    BY <1>2 DEF IInv, GroupAt, flush, Store, StoreState
  <1>5. /\ GroupAt(flush_pending', Unflushed, n + 1)
        /\ DOMAIN flush_pending' = DOMAIN flush_pending \ keys
    <2>1. flush_pending' = Erase(marked, keys)
      BY DEF TraceFlush, ProcessFlush
    <2>2. /\ GroupAt(Erase(marked, keys), Unflushed, n + 1)
          /\ DOMAIN Erase(marked, keys) = DOMAIN marked \ keys
      <3>1. n \in Nat
        BY <1>1
      <3>2. GroupAt(marked, Unflushed, n)
        BY <1>3
      <3> HIDE DEF marked, keys, n
      <3> QED
        BY <3>1, <3>2, EraseGroup
    <2> QED
      BY <1>1, <1>3, <2>1, <2>2
  <1>6. /\ GroupAt(fence_pending', {"FLUSHED"}, n + 1)
        /\ DOMAIN fence_pending' = DOMAIN fence_pending \cup keys
    <2>1. fence_pending' = Insert(fence_pending, flushed)
      BY DEF TraceFlush, ProcessFlush
    <2>2. GroupAt(Insert(fence_pending, flushed), {"FLUSHED"}, n)
      BY <1>1, <1>4, InsertGroup DEF IInv
    <2> QED
      BY <1>1, <1>4, <2>1, <2>2, InsertGroup, WidenGroup DEF IInv
  <1>7. bugs' \subseteq Bug
    BY <1>1, BugsTyped DEF IInv, TraceFlush, ProcessFlush, BugType
  <1> QED
    BY <1>1, <1>2, <1>5, <1>6, <1>7 DEF IInv, PendingDisjoint

LEMMA FenceBugsTyped ==
  ASSUME IInv, NEW is_rmw \in BOOLEAN
  PROVE  FenceBugs(current_instruction_id, is_rmw) \subseteq Bug
  BY BugsTyped DEF FenceBugs, BugType, IInv

LEMMA FenceStep ==
  ASSUME IInv, TraceFence
  PROVE  IInv'
  <1>1. current_instruction_id \in Nat /\ current_instruction_id' = current_instruction_id + 1
    BY DEF IInv, TraceFence, TraceLine
  <1>2. PendingIds(fence_pending) \subseteq Nat
    BY PendingIdsTyped DEF IInv
  <1>3. GroupAt(flush_pending', Unflushed, current_instruction_id')
    BY <1>1, WidenGroup DEF IInv, TraceFence, ProcessFence
  <1>4. GroupAt(fence_pending', {"FLUSHED"}, current_instruction_id') /\ DOMAIN fence_pending' = {}
    BY <1>1, EmptyGroup DEF TraceFence, ProcessFence
  <1>5. bugs' \subseteq Bug
    BY FenceBugsTyped DEF IInv, TraceFence, ProcessFence
  <1>6. fully_persisted' \subseteq Nat
    BY <1>1, <1>2 DEF IInv, TraceFence, ProcessFence
  <1>7. unordered_flushes' \in 0 .. current_instruction_id' /\ done' \in BOOLEAN
    BY <1>1 DEF IInv, TraceFence, TraceLine, ProcessFence
  <1>8. PendingDisjoint'
    BY <1>4 DEF PendingDisjoint
  <1> QED
    BY <1>1, <1>3, <1>4, <1>5, <1>6, <1>7, <1>8 DEF IInv

LEMMA RMWStep ==
  ASSUME IInv, NEW address, NEW size, TraceRMW(address, size),
         size = 0 \/ <<address, size>> \in StoreShapes
  PROVE  IInv'
  <1> DEFINE n     == current_instruction_id
             entry == [a \in {address} |-> NewStore(size, n, "MODIFIED")]
  <1>1. /\ n \in Nat /\ current_instruction_id' = n + 1
        /\ unordered_flushes' \in 0 .. n + 1
        /\ done' \in BOOLEAN
    BY DEF IInv, TraceRMW, TraceLine, ProcessRMW
  <1>2. fully_persisted' \subseteq Nat
    <2>1. PendingIds(fence_pending) \subseteq Nat
      BY PendingIdsTyped DEF IInv
    <2>2. fully_persisted' = fully_persisted \cup PendingIds(fence_pending)
      BY DEF TraceRMW, ProcessRMW
    <2> QED
      BY <1>1, <2>1, <2>2 DEF IInv
  <1>3. GroupAt(fence_pending', {"FLUSHED"}, n + 1) /\ DOMAIN fence_pending' = {}
    BY <1>1, EmptyGroup DEF TraceRMW, ProcessRMW
  <1>4. CASE size = 0
    <2>1. flush_pending' = flush_pending /\ bugs' \subseteq Bug
      BY <1>4, FenceBugsTyped DEF IInv, TraceRMW, ProcessRMW
    <2>2. GroupAt(flush_pending', Unflushed, n + 1)
      BY <1>1, <2>1, WidenGroup DEF IInv
    <2> QED
      BY <1>1, <1>2, <1>3, <2>1, <2>2 DEF IInv, PendingDisjoint
  <1>5. CASE size # 0
    <2> DEFINE s == <<address, size>>
    <2>1. s \in StoreShapes /\ s[1] = address /\ s[2] = size
      BY <1>5
    <2>2. flush_pending' = Insert(CheckStore(flush_pending, address, size), entry)
      BY <1>5 DEF TraceRMW, ProcessRMW
    <2>3. GroupAt(CheckStore(flush_pending, s[1], s[2]), Unflushed, n + 1)
      BY <2>1, CheckStoreFreesKey DEF IInv
    <2>4. GroupAt([a \in {s[1]} |-> NewStore(s[2], n, "MODIFIED")], {"MODIFIED"}, n + 1)
      BY <1>1, <2>1, NewEntry DEF StoreState
    <2>5. GroupAt(entry, Unflushed, n + 1)
      BY <1>1, <2>1, <2>4, WidenGroup DEF Unflushed
    <2>6. GroupAt(flush_pending', Unflushed, n + 1)
      <3>1. n + 1 \in Nat
        BY <1>1
      <3> HIDE DEF entry
      <3> QED
        BY <2>1, <2>2, <2>3, <2>5, <3>1, InsertGroup
    <2>7. OverwrittenBugs(flush_pending, s[1], s[2], "OVERWRITTEN_UNFLUSHED") \subseteq Bug
      BY <2>1, OverwrittenBugsTyped DEF IInv, BugType
    <2>8. bugs' \subseteq Bug
      BY <1>5, <2>1, <2>7, FenceBugsTyped DEF IInv, TraceRMW, ProcessRMW
    <2> QED
      BY <1>1, <1>2, <1>3, <2>6, <2>8 DEF IInv, PendingDisjoint
  <1> QED
    BY <1>4, <1>5

LEMMA RemainderStep ==
  ASSUME IInv, CheckRemainder
  PROVE  IInv'
  <1>1. PendingIds(flush_pending) \subseteq Nat /\ PendingIds(fence_pending) \subseteq Nat
    BY PendingIdsTyped DEF IInv
  <1>2. bugs' \subseteq Bug
    BY <1>1, BugsTyped DEF IInv, CheckRemainder, BugType
  <1> QED
    BY <1>2 DEF IInv, CheckRemainder, PendingDisjoint

LEMMA NextIInv == IInv /\ [Next]_vars => IInv'
  <1> SUFFICES ASSUME IInv, [Next]_vars PROVE IInv'
    OBVIOUS
  <1>1. ASSUME NEW s \in StoreShapes, NEW is_movnt \in BOOLEAN, TraceStore(s[1], s[2], is_movnt)
        PROVE  IInv'
    BY <1>1, StoreStep
  <1>2. ASSUME NEW t \in Flushes, NEW a \in FlushAddresses, TraceFlush(t, a)
        PROVE  IInv'
    BY <1>2, FlushStep
  <1>3. CASE TraceFence
    BY <1>3, FenceStep
  <1>4. ASSUME NEW s \in StoreShapes, TraceRMW(s[1], s[2])
        PROVE  IInv'
    <2>1. <<s[1], s[2]>> \in StoreShapes
      OBVIOUS
    <2> QED
      BY <1>4, <2>1, RMWStep
  <1>5. CASE TraceRMW(0, 0)
    BY <1>5, RMWStep
  <1>6. CASE CheckRemainder
    BY <1>6, RemainderStep
  <1>7. CASE UNCHANGED vars
    BY <1>7 DEF vars, IInv, PendingDisjoint
  <1> QED
    BY <1>1, <1>2, <1>3, <1>4, <1>5, <1>6, <1>7 DEF Next

(* Every state of the processor is well typed; in particular the state     *)
(* field of an entry always matches the map it is in.                      *)
THEOREM TypeCorrect == Spec => []TypeOK
  <1>1. IInv => TypeOK
    BY IInvTypeOK
  <1> QED
    BY <1>1, InitIInv, NextIInv, PTL DEF Spec

(* No address is ever in both maps, whatever the traced program does: no   *)
(* std::map::insert of ProcessStore or ProcessFlush is lost.               *)
THEOREM MapsDisjoint == Spec => []PendingDisjoint
  <1>1. IInv => PendingDisjoint
    BY DEF IInv
  <1> QED
    BY <1>1, InitIInv, NextIInv, PTL DEF Spec
-----------------------------------------------------------------------------
(* Programs whose flushes cover what they are meant to: every store stays  *)
(* within a cache line and every flush is of the start of one.             *)
StoresInLine ==
  \A s \in StoreShapes : s[1] \div CACHELINE_SIZE = (s[1] + s[2] - 1) \div CACHELINE_SIZE

FlushesLineStarts == \A a \in FlushAddresses : a % CACHELINE_SIZE = 0

(* Every entry of a map is a store of the program.                         *)
InShape(group) == \A a \in DOMAIN group : <<a, group[a].size>> \in StoreShapes

(* The line of a word is the interval it lies in.                          *)
LEMMA LineBounds ==
  ASSUME NEW w \in Nat
  PROVE  LET q == w \div CACHELINE_SIZE
         IN  q \in Nat /\ CACHELINE_SIZE * q <= w /\ w < CACHELINE_SIZE * q + CACHELINE_SIZE
  OBVIOUS

LEMMA LineUnique ==
  ASSUME NEW w \in Nat, NEW q \in Nat,
         CACHELINE_SIZE * q <= w, w < CACHELINE_SIZE * q + CACHELINE_SIZE
  PROVE  w \div CACHELINE_SIZE = q
  <1>1. ASSUME NEW i \in Nat, NEW j \in Nat,
               CACHELINE_SIZE * i < CACHELINE_SIZE * j + CACHELINE_SIZE, i >= j + 1
        PROVE  FALSE
    <2>1. CACHELINE_SIZE * i >= CACHELINE_SIZE * (j + 1)
      BY <1>1
    <2> QED
      BY <1>1, <2>1
  <1> DEFINE p == w \div CACHELINE_SIZE
  <1>2. p \in Nat /\ CACHELINE_SIZE * p <= w /\ w < CACHELINE_SIZE * p + CACHELINE_SIZE
    BY LineBounds
  <1> HIDE DEF p
  <1>3. CACHELINE_SIZE * p < CACHELINE_SIZE * q + CACHELINE_SIZE
    BY <1>2
  <1>4. CACHELINE_SIZE * q < CACHELINE_SIZE * p + CACHELINE_SIZE
    BY <1>2
  <1>5. ~(p >= q + 1)
    BY <1>1, <1>2, <1>3
  <1>6. ~(q >= p + 1)
    BY <1>1, <1>2, <1>4
  <1>7. p = q
    BY <1>2, <1>5, <1>6
  <1> QED
    BY <1>7 DEF p

(* The words of a line that starts at `a`.                                 *)
LEMMA LineOfStart ==
  ASSUME NEW a \in Nat, NEW w \in Nat, a % CACHELINE_SIZE = 0
  PROVE  w \div CACHELINE_SIZE = a \div CACHELINE_SIZE <=> a <= w /\ w < a + CACHELINE_SIZE
  <1> DEFINE k == a \div CACHELINE_SIZE
             q == w \div CACHELINE_SIZE
  <1>1. k \in Nat /\ a = CACHELINE_SIZE * k
    OBVIOUS
  <1>2. q \in Nat /\ CACHELINE_SIZE * q <= w /\ w < CACHELINE_SIZE * q + CACHELINE_SIZE
    BY LineBounds
  <1>3. ASSUME a <= w, w < a + CACHELINE_SIZE
        PROVE  q = k
    <2>1. CACHELINE_SIZE * k <= w /\ w < CACHELINE_SIZE * k + CACHELINE_SIZE
      BY <1>1, <1>3
    <2> QED
      BY <1>1, <2>1, LineUnique
  <1>4. ASSUME q = k
        PROVE  a <= w /\ w < a + CACHELINE_SIZE
    <2> HIDE DEF q, k
    <2> QED
      BY <1>1, <1>2, <1>4
  <1> QED
    BY <1>3, <1>4

(* A store that stays within a line has all its words in the line of its   *)
(* first one.                                                              *)
LEMMA StoreLine ==
  ASSUME StoresInLine, NEW s \in StoreShapes, NEW w \in s[1] .. (s[1] + s[2] - 1)
  PROVE  w \div CACHELINE_SIZE = s[1] \div CACHELINE_SIZE
  <1> DEFINE last == s[1] + s[2] - 1
             q    == s[1] \div CACHELINE_SIZE
  <1>1. s[1] \in Nat /\ last \in Nat /\ w \in Nat /\ s[1] <= w /\ w <= last
    OBVIOUS
  <1>2. q \in Nat /\ CACHELINE_SIZE * q <= s[1]
    BY <1>1, LineBounds
  <1>3. last < CACHELINE_SIZE * q + CACHELINE_SIZE
    <2>1. last \div CACHELINE_SIZE = q
      BY DEF StoresInLine
    <2> HIDE DEF last, q
    <2> QED
      BY <1>1, <2>1, LineBounds
  <1>4. CACHELINE_SIZE * q <= w /\ w < CACHELINE_SIZE * q + CACHELINE_SIZE
    <2> HIDE DEF last, q
    <2> QED
      BY <1>1, <1>2, <1>3
  <1> QED
    BY <1>1, <1>2, <1>4, LineUnique

(* For such programs a flush takes the pending stores of its line, all of  *)
(* them and no other, and meets no store partially.                        *)
LEMMA FlushTakesLine ==
  ASSUME StoresInLine, FlushesLineStarts, NEW address \in FlushAddresses,
         NEW group, NEW states, NEW n \in Nat, GroupAt(group, states, n), InShape(group)
  PROVE  LET line == {a \in DOMAIN group : a \div CACHELINE_SIZE = address \div CACHELINE_SIZE}
         IN  /\ Inside(group, address) = line
             /\ PartiallyInside(group, address) = {}
             /\ FlushedKeys(group, address) = line
             /\ MarkPartial(group, address) = group
  <1>1. ASSUME NEW a \in DOMAIN group
        PROVE  LET b == a + group[a].size
               IN  /\ a \in Nat /\ group[a].size \in Nat \ {0}
                   /\ a \div CACHELINE_SIZE = address \div CACHELINE_SIZE
                        => address <= a /\ a <= address + CACHELINE_SIZE /\ b <= address + CACHELINE_SIZE
                   /\ a \div CACHELINE_SIZE # address \div CACHELINE_SIZE
                        => b <= address \/ a >= address + CACHELINE_SIZE
    <2> DEFINE size == group[a].size
               last == a + size - 1
    <2>1. <<a, size>> \in StoreShapes
      BY DEF InShape
    <2>2. a \in Nat /\ size \in Nat \ {0} /\ address \in Nat /\ address % CACHELINE_SIZE = 0 /\ last \in Nat
      BY <2>1 DEF FlushesLineStarts
    <2>3. last \div CACHELINE_SIZE = a \div CACHELINE_SIZE
      BY <2>1 DEF StoresInLine
    <2>4. a \div CACHELINE_SIZE = address \div CACHELINE_SIZE <=> address <= a /\ a < address + CACHELINE_SIZE
      BY <2>2, LineOfStart
    <2>5. last \div CACHELINE_SIZE = address \div CACHELINE_SIZE <=> address <= last /\ last < address + CACHELINE_SIZE
      BY <2>2, LineOfStart
    <2>6. last + 1 = a + size
      BY <2>2
    <2>7. a <= last
      BY <2>2
    <2> DEFINE qa == a \div CACHELINE_SIZE
               ql == last \div CACHELINE_SIZE
               qf == address \div CACHELINE_SIZE
    <2>8. CASE qa = qf
      <3>1. address <= a /\ a < address + CACHELINE_SIZE /\ last < address + CACHELINE_SIZE
        BY <2>3, <2>4, <2>5, <2>8
      <3> HIDE DEF qa, qf, last, size
      <3> QED
        BY <2>2, <2>6, <2>8, <3>1 DEF size, qa, qf
    <2>9. CASE qa # qf
      <3>1. /\ ~(address <= a /\ a < address + CACHELINE_SIZE)
            /\ ~(address <= last /\ last < address + CACHELINE_SIZE)
        BY <2>3, <2>4, <2>5, <2>9
      <3>2. ~(a < address /\ last >= address + CACHELINE_SIZE)
        <4> SUFFICES ASSUME a < address, last >= address + CACHELINE_SIZE PROVE FALSE
          OBVIOUS
        <4>1. address \in a .. last
          <5> HIDE DEF last
          <5> QED
            BY <2>2
        <4>2. address \div CACHELINE_SIZE = a \div CACHELINE_SIZE
          BY <2>1, <4>1, StoreLine
        <4> QED
          BY <2>9, <4>2
      <3> HIDE DEF qa, qf, last, size
      <3> QED
        BY <2>2, <2>6, <2>7, <2>9, <3>1, <3>2 DEF size, qa, qf
    <2> QED
      BY <2>8, <2>9
  <1> DEFINE line == {a \in DOMAIN group : a \div CACHELINE_SIZE = address \div CACHELINE_SIZE}
  <1>2. address \in Nat
    OBVIOUS
  <1>3. Inside(group, address) = line
    <2>1. ASSUME NEW a \in DOMAIN group, a \in line
          PROVE  a \in Inside(group, address)
      BY <1>1, <1>2, <2>1 DEF Inside, CoveredKeys, StoreIsInsideCacheline
    <2>2. ASSUME NEW a \in DOMAIN group, a \in Inside(group, address)
          PROVE  a \in line
      <3>1. address <= a /\ a + group[a].size <= address + CACHELINE_SIZE
        BY <2>2 DEF Inside, StoreIsInsideCacheline
      <3> QED
        BY <1>1, <1>2, <3>1
    <2> QED
      BY <2>1, <2>2 DEF Inside, CoveredKeys
  <1>4. PartiallyInside(group, address) = {}
    <2>1. ASSUME NEW a \in DOMAIN group, a \notin line
          PROVE  ~StoreIsPartiallyInsideCacheline(address, a, group[a].size)
      BY <1>1, <1>2, <2>1 DEF StoreIsPartiallyInsideCacheline
    <2> QED
      BY <1>3, <2>1 DEF PartiallyInside, CoveredKeys
  <1>5. MarkPartial(group, address) = group
    BY <1>4 DEF MarkPartial, GroupAt
  <1> QED
    BY <1>3, <1>4, <1>5 DEF FlushedKeys

(* The shapes of a map after CheckStore and after an insertion.             *)
LEMMA CheckStoreShape ==
  ASSUME NEW group, NEW address, NEW size, InShape(group)
  PROVE  InShape(CheckStore(group, address, size))
  BY DEF InShape, CheckStore, Erase, Restrict

LEMMA InsertShape ==
  ASSUME NEW group, NEW entries, InShape(group), InShape(entries)
  PROVE  InShape(Insert(group, entries))
  BY DEF InShape, Insert
-----------------------------------------------------------------------------
(* The ids of the entries of a map: each store has its own.                *)
DistinctIds(group) ==
  \A a, b \in DOMAIN group : group[a].instruction_id = group[b].instruction_id => a = b

(* Erasing entries of a map with distinct ids removes their ids and no     *)
(* other.                                                                  *)
LEMMA EraseIds ==
  ASSUME NEW group, NEW keys \in SUBSET DOMAIN group, DistinctIds(group)
  PROVE  /\ PendingIds(Erase(group, keys)) = PendingIds(group) \ PendingIds(Restrict(group, keys))
         /\ PendingIds(Restrict(group, keys)) \subseteq PendingIds(group)
         /\ DistinctIds(Erase(group, keys))
         /\ DistinctIds(Restrict(group, keys))
  BY DEF PendingIds, Erase, Restrict, DistinctIds

(* Inserting under free keys entries with new ids adds their ids.          *)
LEMMA InsertIds ==
  ASSUME NEW group, NEW entries, DistinctIds(group), DistinctIds(entries),
         DOMAIN group \cap DOMAIN entries = {},
         PendingIds(group) \cap PendingIds(entries) = {}
  PROVE  /\ PendingIds(Insert(group, entries)) = PendingIds(group) \cup PendingIds(entries)
         /\ DistinctIds(Insert(group, entries))
  <1>1. DOMAIN Insert(group, entries) = DOMAIN group \cup DOMAIN entries
    BY DEF Insert
  <1>2. \A a \in DOMAIN group : Insert(group, entries)[a] = group[a]
    BY DEF Insert
  <1>3. \A a \in DOMAIN entries : Insert(group, entries)[a] = entries[a]
    BY DEF Insert
  <1> HIDE DEF Insert
  <1>4. PendingIds(Insert(group, entries)) = PendingIds(group) \cup PendingIds(entries)
    BY <1>1, <1>2, <1>3 DEF PendingIds
  <1>5. DistinctIds(Insert(group, entries))
    BY <1>1, <1>2, <1>3 DEF PendingIds, DistinctIds
  <1> QED
    BY <1>4, <1>5

(* What a report adds to the ids reported as overwritten.                  *)
LEMMA OverwrittenInUnion ==
  ASSUME NEW A, NEW B
  PROVE  OverwrittenIn(A \cup B) = OverwrittenIn(A) \cup OverwrittenIn(B)
  BY DEF OverwrittenIn

LEMMA OverwrittenInBugsAt ==
  ASSUME NEW type, NEW ids
  PROVE  /\ type \in OverwriteTypes => OverwrittenIn(BugsAt(type, ids)) = ids
         /\ type \notin OverwriteTypes => OverwrittenIn(BugsAt(type, ids)) = {}
  <1>1. \A b \in BugsAt(type, ids) : b.type = type /\ b.instruction_id \in ids
    BY DEF BugsAt
  <1>2. ASSUME NEW i \in ids
        PROVE  \E b \in BugsAt(type, ids) : b.instruction_id = i
    <2>1. [type |-> type, instruction_id |-> i] \in BugsAt(type, ids)
      BY DEF BugsAt
    <2> QED
      BY <2>1
  <1>3. {b.instruction_id : b \in BugsAt(type, ids)} = ids
    BY <1>1, <1>2
  <1>4. ASSUME type \in OverwriteTypes
        PROVE  {x \in BugsAt(type, ids) : x.type \in OverwriteTypes} = BugsAt(type, ids)
    BY <1>1, <1>4
  <1>5. ASSUME type \notin OverwriteTypes
        PROVE  {x \in BugsAt(type, ids) : x.type \in OverwriteTypes} = {}
    BY <1>1, <1>5
  <1> QED
    BY <1>3, <1>4, <1>5 DEF OverwrittenIn

(* CheckStore removes from a map exactly the ids it reports.               *)
LEMMA CheckStoreIds ==
  ASSUME NEW group, NEW address, NEW size, NEW type \in OverwriteTypes, DistinctIds(group)
  PROVE  LET reported == OverwrittenIn(OverwrittenBugs(group, address, size, type))
             kept     == CheckStore(group, address, size)
         IN  /\ PendingIds(kept) = PendingIds(group) \ reported
             /\ reported \subseteq PendingIds(group)
             /\ DistinctIds(kept)
  <1> DEFINE keys == Overwritten(group, address, size)
  <1>1. keys \in SUBSET DOMAIN group
    BY DEF Overwritten, CoveredKeys
  <1>2. OverwrittenIn(OverwrittenBugs(group, address, size, type)) = PendingIds(Restrict(group, keys))
    BY OverwrittenInBugsAt DEF OverwrittenBugs
  <1> HIDE DEF keys
  <1>3. /\ PendingIds(Erase(group, keys)) = PendingIds(group) \ PendingIds(Restrict(group, keys))
        /\ PendingIds(Restrict(group, keys)) \subseteq PendingIds(group)
        /\ DistinctIds(Erase(group, keys))
    BY <1>1, EraseIds
  <1> QED
    BY <1>2, <1>3 DEF CheckStore, keys

(* A flush changes no id.                                                  *)
LEMMA FlushedIds ==
  ASSUME NEW group, NEW states, NEW n \in Nat, GroupAt(group, states, n),
         NEW address, DistinctIds(group)
  PROVE  LET keys  == FlushedKeys(group, address)
             moved == [a \in keys |-> flush(group[a])]
             kept  == Erase(MarkPartial(group, address), keys)
         IN  /\ PendingIds(kept) \cup PendingIds(moved) = PendingIds(group)
             /\ PendingIds(kept) \cap PendingIds(moved) = {}
             /\ DistinctIds(kept) /\ DistinctIds(moved)
             /\ DOMAIN moved \subseteq DOMAIN group
  <1> DEFINE keys   == FlushedKeys(group, address)
             moved  == [a \in keys |-> flush(group[a])]
             marked == MarkPartial(group, address)
             kept   == Erase(marked, keys)
  <1>1. keys \subseteq DOMAIN group
    BY DEF FlushedKeys, Inside, PartiallyInside, CoveredKeys
  <1>2. /\ DOMAIN marked = DOMAIN group
        /\ \A a \in DOMAIN group : marked[a].instruction_id = group[a].instruction_id
    BY DEF MarkPartial, GroupAt, Store
  <1>3. /\ DOMAIN moved = keys
        /\ \A a \in keys : moved[a].instruction_id = group[a].instruction_id
    BY <1>1 DEF flush, GroupAt, Store
  <1>4. /\ DOMAIN kept = DOMAIN group \ keys
        /\ \A a \in DOMAIN kept : kept[a].instruction_id = group[a].instruction_id
    BY <1>2 DEF Erase, Restrict
  <1> HIDE DEF keys, moved, marked, kept
  <1>5. PendingIds(kept) \cup PendingIds(moved) = PendingIds(group)
    BY <1>1, <1>3, <1>4 DEF PendingIds
  <1>6. PendingIds(kept) \cap PendingIds(moved) = {}
    BY <1>1, <1>3, <1>4 DEF PendingIds, DistinctIds
  <1>7. DistinctIds(kept) /\ DistinctIds(moved)
    BY <1>1, <1>3, <1>4 DEF DistinctIds
  <1> QED
    BY <1>1, <1>3, <1>5, <1>6, <1>7 DEF keys, moved, marked, kept

(* The empty map has none.                                                 *)
LEMMA NoStoresIds == PendingIds(NoStores) = {} /\ DistinctIds(NoStores)
  BY DEF PendingIds, DistinctIds, NoStores

(* What was reported as overwritten stays reported.                        *)
LEMMA OverwrittenGrow ==
  ASSUME NEW A, NEW B
  PROVE  A \subseteq B => OverwrittenIn(A) \subseteq OverwrittenIn(B)
  BY DEF OverwrittenIn
=============================================================================
