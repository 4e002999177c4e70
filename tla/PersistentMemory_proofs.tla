----------------------- MODULE PersistentMemory_proofs -----------------------
(***************************************************************************)
(* Persistent memory, from both sides.                                     *)
(*                                                                         *)
(* The tracer (TracedMemory): no store is lost, every store of the trace   *)
(* has exactly one fate.  And for programs that flush what they store,     *)
(* line by line: what the processor believes of every word is what the     *)
(* memory did, its final report is complete, and it counts no flush of an  *)
(* earlier epoch.                                                          *)
(*                                                                         *)
(* A program that keeps its data there (HashmapAtomic), for every hash,    *)
(* every number of keys and buckets, and however many crashes: a number of *)
(* entries that is not marked as in doubt is right at every persist, and   *)
(* between operations every entry is where it is looked for, once.         *)
(***************************************************************************)
EXTENDS TracedMemory, HashmapAtomic, Processer_proofs, FiniteSetTheorems, SequenceTheorems, WellFoundedInduction

(* The inductive invariant.  The ids in a map must be distinct for an      *)
(* erased entry to take its id out of the map, and every issued id must be *)
(* below the next one for a new store to be new.                           *)
Accounted ==
  /\ IInv
  /\ DistinctIds(flush_pending)
  /\ DistinctIds(fence_pending)
  /\ \A i \in issued : i < current_instruction_id
  /\ issued \subseteq Nat
  /\ StoreAccounted

LEMMA InitAccounted == TMInit => Accounted
  <1> SUFFICES ASSUME TMInit PROVE Accounted
    OBVIOUS
  <1>1. IInv
    BY InitIInv DEF TMInit
  <1>2. PendingIds(NoStores) = {} /\ DistinctIds(NoStores)
    BY DEF PendingIds, DistinctIds, NoStores
  <1>3. OverwrittenIn({}) = {}
    BY DEF OverwrittenIn
  <1> QED
    BY <1>1, <1>2, <1>3 DEF TMInit, Init, Accounted, StoreAccounted, OverwrittenIds

(* A temporal or non-temporal store: the ids CheckStore reports leave the  *)
(* maps, the new id enters one of them.                                    *)
LEMMA AccountedStore ==
  ASSUME Accounted, NEW s \in StoreShapes, NEW is_movnt \in BOOLEAN,
         TraceStore(s[1], s[2], is_movnt), Written(Footprint(s[1], s[2]))
  PROVE  Accounted'
  <1> DEFINE n         == current_instruction_id
             st        == IF is_movnt THEN "FLUSHED" ELSE "MODIFIED"
             entry     == [a \in {s[1]} |-> NewStore(s[2], n, st)]
             unflushed == CheckStore(flush_pending, s[1], s[2])
             unfenced  == CheckStore(fence_pending, s[1], s[2])
             bugs1     == OverwrittenBugs(flush_pending, s[1], s[2], "OVERWRITTEN_UNFLUSHED")
             bugs2     == OverwrittenBugs(fence_pending, s[1], s[2], "OVERWRITTEN_UNFENCED")
             over1     == OverwrittenIn(bugs1)
             over2     == OverwrittenIn(bugs2)
  <1>1. IInv'
    BY StoreStep DEF Accounted
  <1>2. n \in Nat /\ current_instruction_id' = n + 1 /\ n \notin issued
    <2>1. n \in Nat /\ current_instruction_id' = n + 1
      BY DEF Accounted, IInv, TraceStore, TraceLine
    <2>2. \A i \in issued : i \in Nat /\ i < n
      BY DEF Accounted
    <2> QED
      BY <2>1, <2>2
  <1>3. /\ issued' = issued \cup {n}
        /\ fully_persisted' = fully_persisted
        /\ bugs' = bugs \cup bugs1 \cup bugs2
    BY DEF Written, TraceStore, ProcessStore
  <1>4. OverwrittenIds' = OverwrittenIds \cup over1 \cup over2
    <2> HIDE DEF bugs1, bugs2
    <2>1. OverwrittenIn(bugs \cup bugs1 \cup bugs2) = OverwrittenIn(bugs \cup bugs1) \cup over2
      BY OverwrittenInUnion
    <2>2. OverwrittenIn(bugs \cup bugs1) = OverwrittenIn(bugs) \cup over1
      BY OverwrittenInUnion
    <2>3. OverwrittenIds' = OverwrittenIn(bugs')
      BY DEF OverwrittenIds
    <2> HIDE DEF over1, over2
    <2> QED
      BY <1>3, <2>1, <2>2, <2>3 DEF OverwrittenIds
  <1>5. /\ PendingIds(unflushed) = PendingIds(flush_pending) \ over1
        /\ over1 \subseteq PendingIds(flush_pending)
        /\ DistinctIds(unflushed)
    BY CheckStoreIds DEF Accounted, OverwriteTypes
  <1>6. /\ PendingIds(unfenced) = PendingIds(fence_pending) \ over2
        /\ over2 \subseteq PendingIds(fence_pending)
        /\ DistinctIds(unfenced)
    BY CheckStoreIds DEF Accounted, OverwriteTypes
  <1>7. PendingIds(entry) = {n} /\ DistinctIds(entry) /\ DOMAIN entry = {s[1]}
    BY DEF PendingIds, DistinctIds, NewStore
  <1>8. s[1] \notin DOMAIN unflushed /\ s[1] \notin DOMAIN unfenced
    BY CheckStoreFreesKey DEF Accounted, IInv
  <1>9. /\ flush_pending' = IF is_movnt THEN unflushed ELSE Insert(unflushed, entry)
        /\ fence_pending' = IF is_movnt THEN Insert(unfenced, entry) ELSE unfenced
    BY DEF TraceStore, ProcessStore
  <1>10. /\ n \notin PendingIds(flush_pending)
         /\ n \notin PendingIds(fence_pending)
         /\ n \notin fully_persisted
         /\ n \notin OverwrittenIds
    BY <1>2 DEF Accounted, StoreAccounted
  <1>11. \A i \in issued' : i < current_instruction_id' /\ i \in Nat
    BY <1>2, <1>3 DEF Accounted
  <1> HIDE DEF n, st, entry, unflushed, unfenced, bugs1, bugs2, over1, over2
  <1>12. /\ PendingIds(Insert(unflushed, entry)) = PendingIds(unflushed) \cup {n}
         /\ DistinctIds(Insert(unflushed, entry))
    <2>1. DOMAIN unflushed \cap DOMAIN entry = {} /\ PendingIds(unflushed) \cap PendingIds(entry) = {}
      BY <1>5, <1>7, <1>8, <1>10
    <2> QED
      BY <1>5, <1>7, <2>1, InsertIds
  <1>13. /\ PendingIds(Insert(unfenced, entry)) = PendingIds(unfenced) \cup {n}
         /\ DistinctIds(Insert(unfenced, entry))
    <2>1. DOMAIN unfenced \cap DOMAIN entry = {} /\ PendingIds(unfenced) \cap PendingIds(entry) = {}
      BY <1>6, <1>7, <1>8, <1>10
    <2> QED
      BY <1>6, <1>7, <2>1, InsertIds
  <1>14. StoreAccounted
    BY DEF Accounted
  <1>15. CASE is_movnt
    <2>1. /\ PendingIds(flush_pending') = PendingIds(flush_pending) \ over1
          /\ PendingIds(fence_pending') = (PendingIds(fence_pending) \ over2) \cup {n}
      BY <1>5, <1>6, <1>9, <1>13, <1>15
    <2>2. DistinctIds(flush_pending') /\ DistinctIds(fence_pending')
      BY <1>5, <1>9, <1>13, <1>15
    <2>3. StoreAccounted'
      BY <1>3, <1>4, <1>5, <1>6, <1>10, <1>14, <2>1 DEF StoreAccounted
    <2> QED
      BY <1>1, <1>11, <2>2, <2>3 DEF Accounted
  <1>16. CASE ~is_movnt
    <2>1. /\ PendingIds(flush_pending') = (PendingIds(flush_pending) \ over1) \cup {n}
          /\ PendingIds(fence_pending') = PendingIds(fence_pending) \ over2
      BY <1>5, <1>6, <1>9, <1>12, <1>16
    <2>2. DistinctIds(flush_pending') /\ DistinctIds(fence_pending')
      BY <1>6, <1>9, <1>12, <1>16
    <2>3. StoreAccounted'
      BY <1>3, <1>4, <1>5, <1>6, <1>10, <1>14, <2>1 DEF StoreAccounted
    <2> QED
      BY <1>1, <1>11, <2>2, <2>3 DEF Accounted
  <1> QED
    BY <1>15, <1>16

LEMMA AccountedFlush ==
  ASSUME Accounted, NEW t \in Flushes, NEW address \in FlushAddresses,
         TraceFlush(t, address), UNCHANGED issued
  PROVE  Accounted'
  <1> DEFINE keys  == FlushedKeys(flush_pending, address)
             moved == [a \in keys |-> flush(flush_pending[a])]
             kept  == Erase(MarkPartial(flush_pending, address), keys)
  <1>1. IInv'
    BY FlushStep DEF Accounted
  <1>2. /\ PendingIds(kept) \cup PendingIds(moved) = PendingIds(flush_pending)
        /\ PendingIds(kept) \cap PendingIds(moved) = {}
        /\ DistinctIds(kept) /\ DistinctIds(moved)
        /\ DOMAIN moved \subseteq DOMAIN flush_pending
    BY FlushedIds DEF Accounted, IInv
  <1>3. /\ flush_pending' = kept
        /\ fence_pending' = Insert(fence_pending, moved)
        /\ fully_persisted' = fully_persisted
        /\ issued' = issued
        /\ bugs' = bugs \/ bugs' = bugs \cup BugsAt("REDUNDANT_FLUSH", {current_instruction_id})
    BY DEF TraceFlush, ProcessFlush
  <1>4. OverwrittenIds' = OverwrittenIds
    <2>1. OverwrittenIn(BugsAt("REDUNDANT_FLUSH", {current_instruction_id})) = {}
      BY OverwrittenInBugsAt DEF OverwriteTypes
    <2>2. OverwrittenIn(bugs \cup BugsAt("REDUNDANT_FLUSH", {current_instruction_id})) = OverwrittenIn(bugs)
      BY <2>1, OverwrittenInUnion
    <2>3. OverwrittenIds' = OverwrittenIn(bugs')
      BY DEF OverwrittenIds
    <2> QED
      BY <1>3, <2>2, <2>3 DEF OverwrittenIds
  <1>5. \A i \in issued' : i < current_instruction_id' /\ i \in Nat
    BY <1>3 DEF Accounted, IInv, TraceFlush, TraceLine
  <1> HIDE DEF keys, moved, kept
  <1>6. DOMAIN fence_pending \cap DOMAIN moved = {}
    BY <1>2 DEF Accounted, IInv, PendingDisjoint
  <1>7. PendingIds(fence_pending) \cap PendingIds(moved) = {}
    BY <1>2 DEF Accounted, StoreAccounted
  <1>8. /\ PendingIds(fence_pending') = PendingIds(fence_pending) \cup PendingIds(moved)
        /\ DistinctIds(fence_pending')
    BY <1>2, <1>3, <1>6, <1>7, InsertIds DEF Accounted
  <1>9. PendingIds(flush_pending') = PendingIds(kept) /\ DistinctIds(flush_pending')
    BY <1>2, <1>3
  <1>10. StoreAccounted'
    BY <1>2, <1>3, <1>4, <1>8, <1>9 DEF Accounted, StoreAccounted
  <1> QED
    BY <1>1, <1>5, <1>8, <1>9, <1>10 DEF Accounted

(* The reports of a fence name no overwritten store.                       *)
LEMMA FenceBugsOverwriteNothing ==
  ASSUME NEW id, NEW is_rmw
  PROVE  OverwrittenIn(FenceBugs(id, is_rmw)) = {}
  <1>1. \A b \in FenceBugs(id, is_rmw) : b.type \notin OverwriteTypes
    BY DEF FenceBugs, BugsAt, OverwriteTypes
  <1> QED
    BY <1>1 DEF OverwrittenIn

(* A fence takes the stores of fence_pending, and no other, to             *)
(* fully_persisted.                                                        *)
LEMMA AccountedFence ==
  ASSUME Accounted, TraceFence, UNCHANGED issued
  PROVE  Accounted'
  <1>1. IInv'
    BY FenceStep DEF Accounted
  <1>2. /\ flush_pending' = flush_pending
        /\ fence_pending' = NoStores
        /\ fully_persisted' = fully_persisted \cup PendingIds(fence_pending)
        /\ issued' = issued
        /\ bugs' = bugs \cup FenceBugs(current_instruction_id, FALSE)
    BY DEF TraceFence, ProcessFence
  <1>3. OverwrittenIds' = OverwrittenIds
    <2>1. OverwrittenIds' = OverwrittenIn(bugs')
      BY DEF OverwrittenIds
    <2> DEFINE reports == FenceBugs(current_instruction_id, FALSE)
    <2>2. OverwrittenIn(reports) = {}
      BY FenceBugsOverwriteNothing
    <2> HIDE DEF reports
    <2>3. OverwrittenIn(bugs \cup reports) = OverwrittenIn(bugs)
      BY <2>2, OverwrittenInUnion
    <2> QED
      BY <1>2, <2>1, <2>3 DEF OverwrittenIds, reports
  <1>4. \A i \in issued' : i < current_instruction_id' /\ i \in Nat
    BY <1>2 DEF Accounted, IInv, TraceFence, TraceLine
  <1>5. /\ PendingIds(flush_pending') = PendingIds(flush_pending)
        /\ PendingIds(fence_pending') = {}
        /\ DistinctIds(flush_pending') /\ DistinctIds(fence_pending')
    BY <1>2, NoStoresIds DEF Accounted
  <1>6. StoreAccounted'
    BY <1>2, <1>3, <1>5 DEF Accounted, StoreAccounted
  <1> QED
    BY <1>1, <1>4, <1>5, <1>6 DEF Accounted

(* A read-modify-write that misses persistent memory is a fence.           *)
LEMMA AccountedVolatileRMW ==
  ASSUME Accounted, TraceRMW(0, 0), UNCHANGED issued
  PROVE  Accounted'
  <1>1. IInv'
    BY RMWStep DEF Accounted
  <1>2. /\ flush_pending' = flush_pending
        /\ fence_pending' = NoStores
        /\ fully_persisted' = fully_persisted \cup PendingIds(fence_pending)
        /\ issued' = issued
        /\ bugs' = bugs \cup FenceBugs(current_instruction_id, TRUE)
    BY DEF TraceRMW, ProcessRMW
  <1>3. OverwrittenIds' = OverwrittenIds
    <2>1. OverwrittenIds' = OverwrittenIn(bugs')
      BY DEF OverwrittenIds
    <2> DEFINE reports == FenceBugs(current_instruction_id, TRUE)
    <2>2. OverwrittenIn(reports) = {}
      BY FenceBugsOverwriteNothing
    <2> HIDE DEF reports
    <2>3. OverwrittenIn(bugs \cup reports) = OverwrittenIn(bugs)
      BY <2>2, OverwrittenInUnion
    <2> QED
      BY <1>2, <2>1, <2>3 DEF OverwrittenIds, reports
  <1>4. \A i \in issued' : i < current_instruction_id' /\ i \in Nat
    BY <1>2 DEF Accounted, IInv, TraceRMW, TraceLine
  <1>5. /\ PendingIds(flush_pending') = PendingIds(flush_pending)
        /\ PendingIds(fence_pending') = {}
        /\ DistinctIds(flush_pending') /\ DistinctIds(fence_pending')
    BY <1>2, NoStoresIds DEF Accounted
  <1>6. StoreAccounted'
    BY <1>2, <1>3, <1>5 DEF Accounted, StoreAccounted
  <1> QED
    BY <1>1, <1>4, <1>5, <1>6 DEF Accounted

(* A read-modify-write of persistent memory is a fence and then a store.   *)
LEMMA AccountedRMW ==
  ASSUME Accounted, NEW s \in StoreShapes, TraceRMW(s[1], s[2]),
         Written(Footprint(s[1], s[2]))
  PROVE  Accounted'
  <1> DEFINE n         == current_instruction_id
             entry     == [a \in {s[1]} |-> NewStore(s[2], n, "MODIFIED")]
             unflushed == CheckStore(flush_pending, s[1], s[2])
             bugs1     == FenceBugs(n, TRUE)
             bugs2     == OverwrittenBugs(flush_pending, s[1], s[2], "OVERWRITTEN_UNFLUSHED")
             over      == OverwrittenIn(bugs2)
  <1>1. IInv'
    <2>1. <<s[1], s[2]>> \in StoreShapes
      BY ShapesAssumption
    <2> QED
      BY <2>1, RMWStep DEF Accounted
  <1>2. n \in Nat /\ current_instruction_id' = n + 1 /\ n \notin issued
    <2>1. n \in Nat /\ current_instruction_id' = n + 1
      BY DEF Accounted, IInv, TraceRMW, TraceLine
    <2>2. \A i \in issued : i \in Nat /\ i < n
      BY DEF Accounted
    <2> QED
      BY <2>1, <2>2
  <1>3. /\ flush_pending' = Insert(unflushed, entry)
        /\ fence_pending' = NoStores
        /\ fully_persisted' = fully_persisted \cup PendingIds(fence_pending)
        /\ issued' = issued \cup {n}
        /\ bugs' = bugs \cup bugs1 \cup bugs2
    <2>1. s[2] # 0
      BY ShapesAssumption
    <2> QED
      BY <2>1 DEF Written, TraceRMW, ProcessRMW
  <1>4. OverwrittenIds' = OverwrittenIds \cup over
    <2>1. OverwrittenIn(bugs1) = {}
      BY FenceBugsOverwriteNothing
    <2> HIDE DEF bugs1, bugs2
    <2>2. OverwrittenIn(bugs \cup bugs1 \cup bugs2) = OverwrittenIn(bugs \cup bugs1) \cup over
      BY OverwrittenInUnion
    <2>3. OverwrittenIn(bugs \cup bugs1) = OverwrittenIn(bugs)
      BY <2>1, OverwrittenInUnion
    <2>4. OverwrittenIds' = OverwrittenIn(bugs')
      BY DEF OverwrittenIds
    <2> HIDE DEF over
    <2> QED
      BY <1>3, <2>2, <2>3, <2>4 DEF OverwrittenIds
  <1>5. /\ PendingIds(unflushed) = PendingIds(flush_pending) \ over
        /\ over \subseteq PendingIds(flush_pending)
        /\ DistinctIds(unflushed)
    BY CheckStoreIds DEF Accounted, OverwriteTypes
  <1>6. PendingIds(entry) = {n} /\ DistinctIds(entry) /\ DOMAIN entry = {s[1]}
    BY DEF PendingIds, DistinctIds, NewStore
  <1>7. s[1] \notin DOMAIN unflushed
    BY CheckStoreFreesKey DEF Accounted, IInv
  <1>8. /\ n \notin PendingIds(flush_pending)
        /\ n \notin PendingIds(fence_pending)
        /\ n \notin fully_persisted
        /\ n \notin OverwrittenIds
    BY <1>2 DEF Accounted, StoreAccounted
  <1>9. \A i \in issued' : i < current_instruction_id' /\ i \in Nat
    BY <1>2, <1>3 DEF Accounted
  <1> HIDE DEF n, entry, unflushed, bugs1, bugs2, over
  <1>10. /\ PendingIds(Insert(unflushed, entry)) = PendingIds(unflushed) \cup {n}
         /\ DistinctIds(Insert(unflushed, entry))
    <2>1. DOMAIN unflushed \cap DOMAIN entry = {} /\ PendingIds(unflushed) \cap PendingIds(entry) = {}
      BY <1>5, <1>6, <1>7, <1>8
    <2> QED
      BY <1>5, <1>6, <2>1, InsertIds
  <1>11. /\ PendingIds(flush_pending') = (PendingIds(flush_pending) \ over) \cup {n}
         /\ PendingIds(fence_pending') = {}
         /\ DistinctIds(flush_pending') /\ DistinctIds(fence_pending')
    BY <1>3, <1>5, <1>10, NoStoresIds
  <1>12. StoreAccounted
    BY DEF Accounted
  <1>13. StoreAccounted'
    BY <1>3, <1>4, <1>5, <1>8, <1>11, <1>12 DEF StoreAccounted
  <1> QED
    BY <1>1, <1>9, <1>11, <1>13 DEF Accounted

LEMMA AccountedRemainder ==
  ASSUME Accounted, CheckRemainder, UNCHANGED issued
  PROVE  Accounted'
  <1>1. IInv'
    BY RemainderStep DEF Accounted
  <1>2. OverwrittenIds' = OverwrittenIds
    <2> DEFINE b1 == BugsAt("MISSING_FLUSH", PendingIds(flush_pending))
               b2 == BugsAt("MISSING_FENCE", PendingIds(fence_pending))
    <2>1. OverwrittenIn(b1) = {} /\ OverwrittenIn(b2) = {}
      BY OverwrittenInBugsAt DEF OverwriteTypes
    <2>2. bugs' = bugs \cup b1 \cup b2
      BY DEF CheckRemainder
    <2> HIDE DEF b1, b2
    <2>3. OverwrittenIn(bugs \cup b1 \cup b2) = OverwrittenIn(bugs)
      <3>1. OverwrittenIn(bugs \cup b1) = OverwrittenIn(bugs)
        BY <2>1, OverwrittenInUnion
      <3>2. OverwrittenIn(bugs \cup b1 \cup b2) = OverwrittenIn(bugs \cup b1)
        BY <2>1, OverwrittenInUnion
      <3> QED
        BY <3>1, <3>2
    <2>4. OverwrittenIds' = OverwrittenIn(bugs')
      BY DEF OverwrittenIds
    <2> QED
      BY <2>2, <2>3, <2>4 DEF OverwrittenIds
  <1>3. UNCHANGED <<flush_pending, fence_pending, fully_persisted, current_instruction_id>>
    BY DEF CheckRemainder
  <1>4. /\ DistinctIds(flush_pending') /\ DistinctIds(fence_pending')
        /\ PendingIds(flush_pending') = PendingIds(flush_pending)
        /\ PendingIds(fence_pending') = PendingIds(fence_pending)
    BY <1>3 DEF Accounted
  <1>5. StoreAccounted /\ issued \subseteq Nat /\ \A i \in issued : i < current_instruction_id
    BY DEF Accounted
  <1>6. StoreAccounted'
    BY <1>2, <1>3, <1>4, <1>5 DEF StoreAccounted
  <1>7. /\ issued' \subseteq Nat /\ \A i \in issued' : i < current_instruction_id'
    BY <1>3, <1>5
  <1> QED
    BY <1>1, <1>4, <1>6, <1>7 DEF Accounted

(* A step of the composition is a step of the processor, so that what      *)
(* holds of Spec holds of TMSpec.                                          *)
LEMMA NextAccounted == Accounted /\ [TMNext]_tmvars => Accounted'
  <1> SUFFICES ASSUME Accounted, [TMNext]_tmvars PROVE Accounted'
    OBVIOUS
  <1>1. ASSUME NEW s \in StoreShapes, ExecStore(s[1], s[2])
        PROVE  Accounted'
    BY <1>1, AccountedStore DEF ExecStore
  <1>2. ASSUME NEW s \in StoreShapes, ExecNTStore(s[1], s[2])
        PROVE  Accounted'
    BY <1>2, AccountedStore DEF ExecNTStore
  <1>3. ASSUME NEW t \in Flushes, NEW a \in FlushAddresses, ExecFlush(t, a)
        PROVE  Accounted'
    BY <1>3, AccountedFlush DEF ExecFlush
  <1>4. CASE ExecFence
    BY <1>4, AccountedFence DEF ExecFence
  <1>5. ASSUME NEW s \in StoreShapes, ExecRMW(s[1], s[2])
        PROVE  Accounted'
    BY <1>5, AccountedRMW DEF ExecRMW
  <1>6. CASE ExecVolatileRMW
    BY <1>6, AccountedVolatileRMW DEF ExecVolatileRMW
  <1>7. CASE ExecEnd
    BY <1>7, AccountedRemainder DEF ExecEnd
  <1>8. CASE UNCHANGED tmvars
    BY <1>8 DEF tmvars, vars, Accounted, IInv, PendingDisjoint, StoreAccounted,
                DistinctIds, PendingIds, OverwrittenIds
  <1> QED
    BY <1>1, <1>2, <1>3, <1>4, <1>5, <1>6, <1>7, <1>8 DEF TMNext

(* Every store in the trace has exactly one fate, for every program:       *)
(* stores of any size and alignment, flushes of any address.               *)
THEOREM EveryStoreAccounted == TMSpec => []StoreAccounted
  <1>1. Accounted => StoreAccounted
    BY DEF Accounted
  <1> QED
    BY <1>1, InitAccounted, NextAccounted, PTL DEF TMSpec
-----------------------------------------------------------------------------
(* The inductive invariant of BeliefsExact.  The maps must hold stores of  *)
(* the program, of which a line has all the words or none, and no writer   *)
(* may have the id of the next store.                                      *)
Shaped ==
  /\ InShape(flush_pending)
  /\ InShape(fence_pending)
  /\ status \in [Words -> PM!Status]
  /\ \A w \in Words : writer[w] \in Int /\ writer[w] < current_instruction_id

Believed == Accounted /\ Shaped /\ BeliefsExact

(* What BeliefsExact says of one word.                                     *)
Believes(w) ==
  /\ \/ status[w] = "persisted"
     \/ writer[w] \in OverwrittenIds
     \/ status[w] = "dirty" /\ WaitsIn(flush_pending, w, writer[w])
     \/ status[w] = "flushing" /\ WaitsIn(fence_pending, w, writer[w])
  /\ WaitsIn(flush_pending, w, writer[w]) => status[w] = "dirty"
  /\ WaitsIn(fence_pending, w, writer[w]) => status[w] = "flushing"

(* CheckStore keeps or reports what waits in a map.                        *)
LEMMA CheckStoreWaits ==
  ASSUME NEW group, NEW address, NEW size, NEW type \in OverwriteTypes, NEW w, NEW id
  PROVE  LET kept     == CheckStore(group, address, size)
             reported == OverwrittenIn(OverwrittenBugs(group, address, size, type))
         IN  /\ WaitsIn(kept, w, id) => WaitsIn(group, w, id)
             /\ WaitsIn(group, w, id) => WaitsIn(kept, w, id) \/ id \in reported
  <1> DEFINE keys == Overwritten(group, address, size)
             kept == CheckStore(group, address, size)
  <1>1. OverwrittenIn(OverwrittenBugs(group, address, size, type)) = PendingIds(Restrict(group, keys))
    BY OverwrittenInBugsAt DEF OverwrittenBugs
  <1>2. keys \subseteq DOMAIN group
    BY DEF Overwritten, CoveredKeys
  <1>3. DOMAIN kept = DOMAIN group \ keys /\ \A a \in DOMAIN kept : kept[a] = group[a]
    BY DEF CheckStore, Erase, Restrict
  <1>4. ASSUME NEW a \in keys
        PROVE  group[a].instruction_id \in PendingIds(Restrict(group, keys))
    BY <1>2 DEF PendingIds, Restrict
  <1> HIDE DEF keys, kept
  <1>5. WaitsIn(kept, w, id) => WaitsIn(group, w, id)
    BY <1>3 DEF WaitsIn
  <1>6. ASSUME WaitsIn(group, w, id)
        PROVE  WaitsIn(kept, w, id) \/ id \in PendingIds(Restrict(group, keys))
    <2>1. PICK a \in DOMAIN group : group[a].instruction_id = id /\ w \in Footprint(a, group[a].size)
      BY <1>6 DEF WaitsIn
    <2>2. CASE a \in keys
      BY <1>4, <2>1, <2>2
    <2>3. CASE a \notin keys
      BY <1>3, <2>1, <2>3 DEF WaitsIn
    <2> QED
      BY <2>2, <2>3
  <1> QED
    BY <1>1, <1>5, <1>6 DEF kept

(* What waits in a map after an insertion under free keys.                 *)
LEMMA InsertWaits ==
  ASSUME NEW group, NEW entries, DOMAIN group \cap DOMAIN entries = {}, NEW w, NEW id
  PROVE  WaitsIn(Insert(group, entries), w, id) <=> WaitsIn(group, w, id) \/ WaitsIn(entries, w, id)
  <1> DEFINE all == Insert(group, entries)
  <1>1. /\ DOMAIN all = DOMAIN group \cup DOMAIN entries
        /\ \A a \in DOMAIN group : all[a] = group[a]
        /\ \A a \in DOMAIN entries : all[a] = entries[a]
    BY DEF Insert
  <1> HIDE DEF all
  <1>2. WaitsIn(all, w, id) <=> WaitsIn(group, w, id) \/ WaitsIn(entries, w, id)
    BY <1>1 DEF WaitsIn
  <1> QED
    BY <1>2 DEF all

(* Nothing waits in an empty map.                                          *)
LEMMA NothingWaits ==
  ASSUME NEW w, NEW id
  PROVE  ~WaitsIn(NoStores, w, id) /\ InShape(NoStores)
  BY DEF WaitsIn, NoStores, InShape

(* The maps always hold stores of the program, whatever it flushes.        *)
LEMMA NextShaped == Accounted /\ Shaped /\ [TMNext]_tmvars => Shaped'
  <1> SUFFICES ASSUME Accounted, Shaped, [TMNext]_tmvars PROVE Shaped'
    OBVIOUS
  <1> DEFINE n == current_instruction_id
  <1>1. n \in Nat
    BY DEF Accounted, IInv
  <1>2. status' \in [Words -> PM!Status]
    BY DEF TMNext, tmvars, ExecStore, ExecNTStore, ExecFlush, ExecFence, ExecRMW, ExecVolatileRMW, ExecEnd,
           PM!StoreWords, PM!Stored, PM!NTStoreWords, PM!NTStored, PM!FlushLine, PM!LineFlushed,
           PM!Fence, PM!Fenced, PM!LockedUpdate, PM!Status, Shaped
  <1>3. /\ current_instruction_id' = n + 1 \/ (current_instruction_id' = n /\ writer' = writer)
        /\ \A w \in Words : (writer'[w] = n /\ current_instruction_id' = n + 1) \/ writer'[w] = writer[w]
    BY DEF TMNext, tmvars, vars, ExecStore, ExecNTStore, ExecFlush, ExecFence, ExecRMW, ExecVolatileRMW,
           ExecEnd, CheckRemainder, TraceStore, TraceFlush, TraceFence, TraceRMW, TraceLine, Written
  <1>4. \A w \in Words : writer'[w] \in Int /\ writer'[w] < current_instruction_id'
    <2> SUFFICES ASSUME NEW w \in Words
                 PROVE  writer'[w] \in Int /\ writer'[w] < current_instruction_id'
      OBVIOUS
    <2>1. writer[w] \in Int /\ writer[w] < n
      BY DEF Shaped
    <2> QED
      BY <1>1, <1>3, <2>1
  <1>5. ASSUME NEW s \in StoreShapes, NEW is_movnt \in BOOLEAN, TraceStore(s[1], s[2], is_movnt)
        PROVE  InShape(flush_pending') /\ InShape(fence_pending')
    <2> DEFINE entry     == [a \in {s[1]} |-> NewStore(s[2], n, IF is_movnt THEN "FLUSHED" ELSE "MODIFIED")]
               unflushed == CheckStore(flush_pending, s[1], s[2])
               unfenced  == CheckStore(fence_pending, s[1], s[2])
    <2>1. /\ flush_pending' = IF is_movnt THEN unflushed ELSE Insert(unflushed, entry)
          /\ fence_pending' = IF is_movnt THEN Insert(unfenced, entry) ELSE unfenced
      BY <1>5 DEF TraceStore, ProcessStore
    <2>2. InShape(unflushed) /\ InShape(unfenced)
      BY CheckStoreShape DEF Shaped
    <2>3. InShape(entry)
      BY ShapesAssumption DEF InShape, NewStore
    <2> HIDE DEF entry, unflushed, unfenced
    <2> QED
      BY <2>1, <2>2, <2>3, InsertShape
  <1>6. ASSUME NEW t \in Flushes, NEW address \in FlushAddresses, TraceFlush(t, address)
        PROVE  InShape(flush_pending') /\ InShape(fence_pending')
    <2> DEFINE keys   == FlushedKeys(flush_pending, address)
               moved  == [a \in keys |-> flush(flush_pending[a])]
               marked == MarkPartial(flush_pending, address)
    <2>1. flush_pending' = Erase(marked, keys) /\ fence_pending' = Insert(fence_pending, moved)
      BY <1>6 DEF TraceFlush, ProcessFlush
    <2>2. \A a \in DOMAIN flush_pending : marked[a].size = flush_pending[a].size
      BY DEF MarkPartial, Accounted, IInv, GroupAt, Store
    <2>3. keys \subseteq DOMAIN flush_pending
      BY DEF FlushedKeys, Inside, PartiallyInside, CoveredKeys
    <2>4. InShape(marked)
      BY <2>2 DEF InShape, Shaped, MarkPartial
    <2>5. \A a \in keys : moved[a].size = flush_pending[a].size
      BY <2>3 DEF flush, Accounted, IInv, GroupAt, Store
    <2>6. InShape(moved)
      BY <2>3, <2>5 DEF InShape, Shaped
    <2> HIDE DEF keys, moved, marked
    <2>7. InShape(Erase(marked, keys))
      BY <2>4 DEF InShape, Erase, Restrict
    <2> QED
      BY <2>1, <2>6, <2>7, InsertShape DEF Shaped
  <1>7. ASSUME TraceFence \/ TraceRMW(0, 0) \/ CheckRemainder \/ UNCHANGED vars
        PROVE  InShape(flush_pending') /\ InShape(fence_pending')
    <2>1. flush_pending' = flush_pending /\ (fence_pending' = fence_pending \/ fence_pending' = NoStores)
      BY <1>7 DEF TraceFence, ProcessFence, TraceRMW, ProcessRMW, CheckRemainder, vars
    <2> QED
      BY <2>1, NothingWaits DEF Shaped
  <1>8. ASSUME NEW s \in StoreShapes, TraceRMW(s[1], s[2])
        PROVE  InShape(flush_pending') /\ InShape(fence_pending')
    <2> DEFINE entry     == [a \in {s[1]} |-> NewStore(s[2], n, "MODIFIED")]
               unflushed == CheckStore(flush_pending, s[1], s[2])
    <2>1. flush_pending' \in {flush_pending, Insert(unflushed, entry)} /\ fence_pending' = NoStores
      BY <1>8 DEF TraceRMW, ProcessRMW
    <2>2. InShape(unflushed)
      BY CheckStoreShape DEF Shaped
    <2>3. InShape(entry)
      BY ShapesAssumption DEF InShape, NewStore
    <2> HIDE DEF entry, unflushed
    <2> QED
      BY <2>1, <2>2, <2>3, InsertShape, NothingWaits DEF Shaped
  <1>9. InShape(flush_pending') /\ InShape(fence_pending')
    BY <1>5, <1>6, <1>7, <1>8 DEF TMNext, tmvars, ExecStore, ExecNTStore, ExecFlush, ExecFence, ExecRMW,
                                  ExecVolatileRMW, ExecEnd
  <1> QED
    BY <1>2, <1>4, <1>9 DEF Shaped

(* Nothing is stored yet.                                                  *)
LEMMA InitBelieved == TMInit => Believed
  <1> SUFFICES ASSUME TMInit PROVE Believed
    OBVIOUS
  <1>1. Accounted
    BY InitAccounted
  <1>2. flush_pending = NoStores /\ fence_pending = NoStores /\ current_instruction_id = 0
    BY DEF TMInit, Init
  <1>3. status = [w \in Words |-> "persisted"] /\ writer = [w \in Words |-> -1]
    BY DEF TMInit, PM!Init
  <1>4. Shaped
    BY <1>2, <1>3, NothingWaits DEF Shaped, PM!Status
  <1>5. BeliefsExact
    BY <1>2, <1>3, NothingWaits DEF BeliefsExact, NoSilentLoss, NoFalseAlarm
  <1> QED
    BY <1>1, <1>4, <1>5 DEF Believed

(* An ordinary or non-temporal store: its words wait in the map its kind   *)
(* calls for, and the others keep their belief or lose their entry to a    *)
(* report.                                                                 *)
LEMMA BelievedStore ==
  ASSUME Believed, NEW s \in StoreShapes, ExecStore(s[1], s[2]) \/ ExecNTStore(s[1], s[2])
  PROVE  BeliefsExact'
  <1> DEFINE n         == current_instruction_id
             words     == Footprint(s[1], s[2])
             is_movnt  == ~ExecStore(s[1], s[2])
             st        == IF is_movnt THEN "FLUSHED" ELSE "MODIFIED"
             entry     == [a \in {s[1]} |-> NewStore(s[2], n, st)]
             unflushed == CheckStore(flush_pending, s[1], s[2])
             unfenced  == CheckStore(fence_pending, s[1], s[2])
             bugs1     == OverwrittenBugs(flush_pending, s[1], s[2], "OVERWRITTEN_UNFLUSHED")
             bugs2     == OverwrittenBugs(fence_pending, s[1], s[2], "OVERWRITTEN_UNFENCED")
  <1>1. /\ TraceStore(s[1], s[2], is_movnt)
        /\ Written(words)
        /\ status' = [w \in Words |-> IF w \in words THEN IF is_movnt THEN "flushing" ELSE "dirty"
                                      ELSE status[w]]
    BY DEF ExecStore, ExecNTStore, PM!StoreWords, PM!Stored, PM!NTStoreWords, PM!NTStored
  <1>2. is_movnt \in BOOLEAN
    OBVIOUS
  <1> HIDE DEF is_movnt
  <1>3. /\ flush_pending' = IF is_movnt THEN unflushed ELSE Insert(unflushed, entry)
        /\ fence_pending' = IF is_movnt THEN Insert(unfenced, entry) ELSE unfenced
        /\ bugs' = bugs \cup bugs1 \cup bugs2
        /\ current_instruction_id' = n + 1
        /\ writer' = [w \in Words |-> IF w \in words THEN n ELSE writer[w]]
    BY <1>1 DEF TraceStore, TraceLine, ProcessStore, Written
  <1>4. n \in Nat
    BY DEF Believed, Accounted, IInv
  <1>5. s[1] \notin DOMAIN unflushed /\ s[1] \notin DOMAIN unfenced
    BY CheckStoreFreesKey DEF Believed, Accounted, IInv
  <1>6. DOMAIN entry = {s[1]} /\ entry[s[1]] = NewStore(s[2], n, st)
    OBVIOUS
  <1>7. DOMAIN unflushed \cap DOMAIN entry = {} /\ DOMAIN unfenced \cap DOMAIN entry = {}
    BY <1>5, <1>6
  <1>8. /\ OverwrittenIn(bugs) \subseteq OverwrittenIn(bugs')
        /\ OverwrittenIn(bugs1) \subseteq OverwrittenIn(bugs')
        /\ OverwrittenIn(bugs2) \subseteq OverwrittenIn(bugs')
    <2> HIDE DEF bugs1, bugs2
    <2> QED
      BY <1>3, OverwrittenGrow
  <1>9. OverwrittenIds \subseteq OverwrittenIds'
    BY <1>8 DEF OverwrittenIds
  <1>10. ASSUME NEW w, NEW id
         PROVE  /\ WaitsIn(unflushed, w, id) => WaitsIn(flush_pending, w, id)
                /\ WaitsIn(flush_pending, w, id) => WaitsIn(unflushed, w, id) \/ id \in OverwrittenIds'
                /\ WaitsIn(unfenced, w, id) => WaitsIn(fence_pending, w, id)
                /\ WaitsIn(fence_pending, w, id) => WaitsIn(unfenced, w, id) \/ id \in OverwrittenIds'
    <2>1. "OVERWRITTEN_UNFLUSHED" \in OverwriteTypes /\ "OVERWRITTEN_UNFENCED" \in OverwriteTypes
      BY DEF OverwriteTypes
    <2>2. /\ WaitsIn(unflushed, w, id) => WaitsIn(flush_pending, w, id)
          /\ WaitsIn(flush_pending, w, id) => WaitsIn(unflushed, w, id) \/ id \in OverwrittenIn(bugs1)
      BY <2>1, CheckStoreWaits
    <2>3. /\ WaitsIn(unfenced, w, id) => WaitsIn(fence_pending, w, id)
          /\ WaitsIn(fence_pending, w, id) => WaitsIn(unfenced, w, id) \/ id \in OverwrittenIn(bugs2)
      BY <2>1, CheckStoreWaits
    <2> QED
      BY <1>8, <2>2, <2>3 DEF OverwrittenIds
  <1>11. ASSUME NEW w, NEW id
         PROVE  WaitsIn(entry, w, id) <=> id = n /\ w \in words
    <2> HIDE DEF entry
    <2> QED
      BY <1>6 DEF WaitsIn, NewStore
  <1> HIDE DEF entry, unflushed, unfenced, bugs1, bugs2
  <1>12. ASSUME NEW w, NEW id
         PROVE  /\ WaitsIn(flush_pending', w, id) <=>
                     WaitsIn(unflushed, w, id) \/ (~is_movnt /\ id = n /\ w \in words)
                /\ WaitsIn(fence_pending', w, id) <=>
                     WaitsIn(unfenced, w, id) \/ (is_movnt /\ id = n /\ w \in words)
    BY <1>3, <1>7, <1>11, InsertWaits
  <1>13. ASSUME NEW w \in Words, w \in words
         PROVE  Believes(w)'
    <2>1. writer'[w] = n /\ status'[w] = IF is_movnt THEN "flushing" ELSE "dirty"
      BY <1>1, <1>3, <1>13
    <2>2. ASSUME NEW group, GroupAt(group, StoreState, n)
          PROVE  ~WaitsIn(group, w, n)
      BY <1>4, <2>2 DEF GroupAt, WaitsIn, Store
    <2>3. ~WaitsIn(flush_pending, w, n) /\ ~WaitsIn(fence_pending, w, n)
      <3>1. GroupAt(flush_pending, StoreState, n) /\ GroupAt(fence_pending, StoreState, n)
        BY WidenGroup, <1>4 DEF Believed, Accounted, IInv, Unflushed, StoreState
      <3> QED
        BY <2>2, <3>1
    <2>4. ~WaitsIn(unflushed, w, n) /\ ~WaitsIn(unfenced, w, n)
      BY <1>10, <2>3
    <2> QED
      BY <1>2, <1>12, <1>13, <2>1, <2>4 DEF Believes
  <1>14. ASSUME NEW w \in Words, w \notin words
         PROVE  Believes(w)'
    <2>1. writer'[w] = writer[w] /\ status'[w] = status[w]
      BY <1>1, <1>3, <1>14
    <2>2. Believes(w)
      BY DEF Believed, BeliefsExact, NoSilentLoss, NoFalseAlarm, Believes
    <2> QED
      BY <1>9, <1>10, <1>12, <1>14, <2>1, <2>2 DEF Believes
  <1> QED
    BY <1>13, <1>14 DEF BeliefsExact, NoSilentLoss, NoFalseAlarm, Believes

(* A flush of a line start: the words of the line that wait for a flush    *)
(* are the ones of the entries that move.                                  *)
LEMMA BelievedFlush ==
  ASSUME StoresInLine, FlushesLineStarts, Believed,
         NEW t \in Flushes, NEW address \in FlushAddresses, ExecFlush(t, address)
  PROVE  BeliefsExact'
  <1> DEFINE line  == {a \in DOMAIN flush_pending : a \div CACHELINE_SIZE = address \div CACHELINE_SIZE}
             moved == [a \in line |-> flush(flush_pending[a])]
             kept  == Erase(flush_pending, line)
  <1>1. /\ TraceFlush(t, address)
        /\ status' = [w \in Words |-> IF LineOf(w) = LineOf(address) /\ status[w] = "dirty"
                                      THEN "flushing" ELSE status[w]]
        /\ writer' = writer /\ issued' = issued
    BY DEF ExecFlush, PM!FlushLine, PM!LineFlushed
  <1>2. FlushedKeys(flush_pending, address) = line /\ MarkPartial(flush_pending, address) = flush_pending
    BY FlushTakesLine DEF Believed, Shaped, Accounted, IInv
  <1>3. /\ flush_pending' = kept
        /\ fence_pending' = Insert(fence_pending, moved)
        /\ bugs \subseteq bugs'
        /\ current_instruction_id' = current_instruction_id + 1
    BY <1>1, <1>2 DEF TraceFlush, TraceLine, ProcessFlush
  <1>4. OverwrittenIds \subseteq OverwrittenIds'
    BY <1>3, OverwrittenGrow DEF OverwrittenIds
  <1>5. /\ DOMAIN kept = DOMAIN flush_pending \ line
        /\ \A a \in DOMAIN kept : kept[a] = flush_pending[a]
    BY DEF Erase, Restrict
  <1>6. /\ DOMAIN moved = line
        /\ \A a \in line : /\ moved[a].size = flush_pending[a].size
                           /\ moved[a].instruction_id = flush_pending[a].instruction_id
    BY DEF flush, Believed, Accounted, IInv, GroupAt, Store
  <1>7. line \subseteq DOMAIN flush_pending
    OBVIOUS
  <1>8. ASSUME NEW w \in Words, NEW id
        PROVE  /\ WaitsIn(kept, w, id) <=> WaitsIn(flush_pending, w, id) /\ LineOf(w) # LineOf(address)
               /\ WaitsIn(moved, w, id) <=> WaitsIn(flush_pending, w, id) /\ LineOf(w) = LineOf(address)
    <2>1. ASSUME NEW a \in DOMAIN flush_pending, w \in Footprint(a, flush_pending[a].size)
          PROVE  a \in line <=> LineOf(w) = LineOf(address)
      <3> DEFINE s == <<a, flush_pending[a].size>>
      <3>1. s \in StoreShapes /\ s[1] = a /\ s[2] = flush_pending[a].size
        BY DEF Believed, Shaped, InShape
      <3>2. w \div CACHELINE_SIZE = a \div CACHELINE_SIZE
        <4> HIDE DEF s
        <4> QED
          BY <2>1, <3>1, StoreLine DEF Footprint
      <3> QED
        BY <3>2 DEF LineOf
    <2> HIDE DEF line, moved, kept
    <2> QED
      BY <1>5, <1>6, <1>7, <2>1 DEF WaitsIn
  <1>9. DOMAIN fence_pending \cap DOMAIN moved = {}
    BY DEF Believed, Accounted, IInv, PendingDisjoint
  <1> HIDE DEF line, moved, kept
  <1>10. ASSUME NEW w, NEW id
         PROVE  WaitsIn(fence_pending', w, id) <=> WaitsIn(fence_pending, w, id) \/ WaitsIn(moved, w, id)
    BY <1>3, <1>9, InsertWaits
  <1>11. ASSUME NEW w \in Words
         PROVE  Believes(w)'
    <2>1. writer'[w] = writer[w]
      BY <1>1
    <2>2. status'[w] = IF LineOf(w) = LineOf(address) /\ status[w] = "dirty" THEN "flushing" ELSE status[w]
      BY <1>1
    <2>3. Believes(w)
      BY DEF Believed, BeliefsExact, NoSilentLoss, NoFalseAlarm, Believes
    <2>4. /\ WaitsIn(flush_pending', w, writer'[w])
               <=> WaitsIn(flush_pending, w, writer[w]) /\ LineOf(w) # LineOf(address)
          /\ WaitsIn(fence_pending', w, writer'[w])
               <=> \/ WaitsIn(fence_pending, w, writer[w])
                   \/ WaitsIn(flush_pending, w, writer[w]) /\ LineOf(w) = LineOf(address)
      BY <1>3, <1>8, <1>10, <2>1
    <2> QED
      BY <1>4, <2>1, <2>2, <2>3, <2>4 DEF Believes
  <1> QED
    BY <1>11 DEF BeliefsExact, NoSilentLoss, NoFalseAlarm, Believes

(* A fence, alone or as part of a locked instruction on volatile memory,   *)
(* empties fence_pending and completes the write-backs under way.          *)
LEMMA BelievedFence ==
  ASSUME Believed, ExecFence \/ ExecVolatileRMW
  PROVE  BeliefsExact'
  <1>1. /\ flush_pending' = flush_pending
        /\ fence_pending' = NoStores
        /\ bugs \subseteq bugs'
        /\ current_instruction_id' = current_instruction_id + 1
        /\ writer' = writer /\ issued' = issued
    BY DEF ExecFence, TraceFence, ProcessFence, ExecVolatileRMW, TraceRMW, ProcessRMW, TraceLine
  <1>2. status' = [w \in Words |-> IF status[w] = "flushing" THEN "persisted" ELSE status[w]]
    BY DEF ExecFence, ExecVolatileRMW, PM!Fence, PM!LockedUpdate, PM!Stored, PM!Fenced
  <1>3. OverwrittenIds \subseteq OverwrittenIds'
    BY <1>1, OverwrittenGrow DEF OverwrittenIds
  <1>4. ASSUME NEW w \in Words
        PROVE  Believes(w)'
    <2>1. Believes(w)
      BY DEF Believed, BeliefsExact, NoSilentLoss, NoFalseAlarm, Believes
    <2>2. ~WaitsIn(fence_pending', w, writer'[w])
      BY <1>1, NothingWaits
    <2> QED
      BY <1>1, <1>2, <1>3, <2>1, <2>2 DEF Believes
  <1> QED
    BY <1>4 DEF BeliefsExact, NoSilentLoss, NoFalseAlarm, Believes

(* A locked instruction on persistent memory: a fence and then a store.    *)
LEMMA BelievedRMW ==
  ASSUME Believed, NEW s \in StoreShapes, ExecRMW(s[1], s[2])
  PROVE  BeliefsExact'
  <1> DEFINE n         == current_instruction_id
             words     == Footprint(s[1], s[2])
             entry     == [a \in {s[1]} |-> NewStore(s[2], n, "MODIFIED")]
             unflushed == CheckStore(flush_pending, s[1], s[2])
             reports   == OverwrittenBugs(flush_pending, s[1], s[2], "OVERWRITTEN_UNFLUSHED")
  <1>1. /\ TraceRMW(s[1], s[2])
        /\ Written(words)
        /\ status' = [w \in Words |-> IF w \in words THEN "dirty"
                                      ELSE IF status[w] = "flushing" THEN "persisted" ELSE status[w]]
    BY DEF ExecRMW, PM!LockedUpdate, PM!Stored, PM!Fenced
  <1>2. /\ flush_pending' = Insert(unflushed, entry)
        /\ fence_pending' = NoStores
        /\ bugs \subseteq bugs' /\ reports \subseteq bugs'
        /\ current_instruction_id' = n + 1
        /\ writer' = [w \in Words |-> IF w \in words THEN n ELSE writer[w]]
    <2>1. s[2] # 0
      BY ShapesAssumption
    <2> QED
      BY <1>1, <2>1 DEF TraceRMW, TraceLine, ProcessRMW, Written
  <1>3. n \in Nat
    BY DEF Believed, Accounted, IInv
  <1>4. s[1] \notin DOMAIN unflushed
    BY CheckStoreFreesKey DEF Believed, Accounted, IInv
  <1>5. DOMAIN entry = {s[1]} /\ entry[s[1]] = NewStore(s[2], n, "MODIFIED")
    OBVIOUS
  <1>6. DOMAIN unflushed \cap DOMAIN entry = {}
    BY <1>4, <1>5
  <1>7. OverwrittenIds \subseteq OverwrittenIds' /\ OverwrittenIn(reports) \subseteq OverwrittenIds'
    <2> HIDE DEF reports
    <2> QED
      BY <1>2, OverwrittenGrow DEF OverwrittenIds
  <1>8. ASSUME NEW w, NEW id
        PROVE  /\ WaitsIn(unflushed, w, id) => WaitsIn(flush_pending, w, id)
               /\ WaitsIn(flush_pending, w, id) => WaitsIn(unflushed, w, id) \/ id \in OverwrittenIds'
    <2>1. "OVERWRITTEN_UNFLUSHED" \in OverwriteTypes
      BY DEF OverwriteTypes
    <2>2. /\ WaitsIn(unflushed, w, id) => WaitsIn(flush_pending, w, id)
          /\ WaitsIn(flush_pending, w, id) => WaitsIn(unflushed, w, id) \/ id \in OverwrittenIn(reports)
      BY <2>1, CheckStoreWaits
    <2> QED
      BY <1>7, <2>2
  <1>9. ASSUME NEW w, NEW id
        PROVE  WaitsIn(entry, w, id) <=> id = n /\ w \in words
    <2> HIDE DEF entry
    <2> QED
      BY <1>5 DEF WaitsIn, NewStore
  <1> HIDE DEF entry, unflushed, reports
  <1>10. ASSUME NEW w, NEW id
         PROVE  /\ WaitsIn(flush_pending', w, id) <=>
                     WaitsIn(unflushed, w, id) \/ (id = n /\ w \in words)
                /\ ~WaitsIn(fence_pending', w, id)
    BY <1>2, <1>6, <1>9, InsertWaits, NothingWaits
  <1>11. ASSUME NEW w \in Words
         PROVE  Believes(w)'
    <2>1. Believes(w)
      BY DEF Believed, BeliefsExact, NoSilentLoss, NoFalseAlarm, Believes
    <2>2. CASE w \in words
      <3>1. writer'[w] = n /\ status'[w] = "dirty"
        BY <1>1, <1>2, <2>2
      <3> QED
        BY <1>10, <2>2, <3>1 DEF Believes
    <2>3. CASE w \notin words
      <3>1. /\ writer'[w] = writer[w]
            /\ status'[w] = IF status[w] = "flushing" THEN "persisted" ELSE status[w]
        BY <1>1, <1>2, <2>3
      <3> QED
        BY <1>7, <1>8, <1>10, <2>1, <2>3, <3>1 DEF Believes
    <2> QED
      BY <2>2, <2>3
  <1> QED
    BY <1>11 DEF BeliefsExact, NoSilentLoss, NoFalseAlarm, Believes

(* CheckRemainder only reports.                                            *)
LEMMA BelievedEnd ==
  ASSUME Believed, ExecEnd
  PROVE  BeliefsExact'
  <1>1. /\ bugs \subseteq bugs'
        /\ UNCHANGED <<flush_pending, fence_pending, current_instruction_id, status, writer>>
    BY DEF ExecEnd, CheckRemainder
  <1>2. OverwrittenIds \subseteq OverwrittenIds'
    BY <1>1, OverwrittenGrow DEF OverwrittenIds
  <1> QED
    BY <1>1, <1>2 DEF Believed, BeliefsExact, NoSilentLoss, NoFalseAlarm

(* Every step keeps the beliefs exact: one lemma per kind of step.         *)
LEMMA NextBelieved ==
  ASSUME StoresInLine, FlushesLineStarts
  PROVE  Believed /\ [TMNext]_tmvars => Believed'
  <1> SUFFICES ASSUME Believed, [TMNext]_tmvars PROVE BeliefsExact'
    BY NextAccounted, NextShaped DEF Believed
  <1>1. ASSUME NEW s \in StoreShapes, ExecStore(s[1], s[2]) \/ ExecNTStore(s[1], s[2])
        PROVE  BeliefsExact'
    BY <1>1, BelievedStore
  <1>2. ASSUME NEW t \in Flushes, NEW a \in FlushAddresses, ExecFlush(t, a)
        PROVE  BeliefsExact'
    BY <1>2, BelievedFlush
  <1>3. CASE ExecFence \/ ExecVolatileRMW
    BY <1>3, BelievedFence
  <1>4. ASSUME NEW s \in StoreShapes, ExecRMW(s[1], s[2])
        PROVE  BeliefsExact'
    BY <1>4, BelievedRMW
  <1>5. CASE ExecEnd
    BY <1>5, BelievedEnd
  <1>6. CASE UNCHANGED tmvars
    BY <1>6 DEF tmvars, vars, Believed, BeliefsExact, NoSilentLoss, NoFalseAlarm, OverwrittenIds
  <1> QED
    BY <1>1, <1>2, <1>3, <1>4, <1>5, <1>6 DEF TMNext

(* For every program whose stores stay within a cache line and whose       *)
(* flushes are of line starts, whatever the overlaps of its stores: no     *)
(* word that is not persistent is forgotten, and none is suspected that    *)
(* its last writer does not leave waiting.                                 *)
THEOREM BeliefsAlwaysExact ==
  ASSUME StoresInLine, FlushesLineStarts
  PROVE  TMSpec => []BeliefsExact
  <1>1. Believed => BeliefsExact
    BY DEF Believed
  <1>2. Believed /\ [TMNext]_tmvars => Believed'
    BY NextBelieved
  <1> QED
    BY <1>1, <1>2, InitBelieved, PTL DEF TMSpec

(* CheckRemainder is the last step, and reports all that is pending.       *)
Remaindered ==
  done => /\ BugsAt("MISSING_FLUSH", PendingIds(flush_pending)) \subseteq bugs
          /\ BugsAt("MISSING_FENCE", PendingIds(fence_pending)) \subseteq bugs

(* No line of the trace comes after it.                                    *)
LEMMA NextRemaindered == Remaindered /\ [TMNext]_tmvars => Remaindered'
  <1> SUFFICES ASSUME Remaindered, [TMNext]_tmvars PROVE Remaindered'
    OBVIOUS
  <1>1. CASE ExecEnd
    BY <1>1 DEF ExecEnd, CheckRemainder, Remaindered, PendingIds
  <1>2. CASE UNCHANGED tmvars
    BY <1>2 DEF tmvars, vars, Remaindered, PendingIds
  <1>3. CASE TraceLine
    BY <1>3 DEF TraceLine, Remaindered
  <1> QED
    BY <1>1, <1>2, <1>3 DEF TMNext, ExecStore, ExecNTStore, ExecFlush, ExecFence, ExecRMW, ExecVolatileRMW,
                            TraceStore, TraceFlush, TraceFence, TraceRMW

(* For the same programs: at the end of the trace every word left          *)
(* unpersisted has its last writer in bug-ids.txt, under the type that     *)
(* tells what was omitted.                                                 *)
THEOREM FinalReportComplete ==
  ASSUME StoresInLine, FlushesLineStarts
  PROVE  TMSpec => []FinalReport
  <1>1. TMInit => Remaindered
    BY DEF TMInit, Init, Remaindered
  <1>2. Believed /\ Remaindered => FinalReport
    <2> SUFFICES ASSUME Believed, Remaindered, done, NEW w \in Words, status[w] # "persisted",
                        writer[w] \notin OverwrittenIds
                 PROVE  [type |-> IF status[w] = "dirty" THEN "MISSING_FLUSH" ELSE "MISSING_FENCE",
                         instruction_id |-> writer[w]] \in bugs
      BY DEF FinalReport
    <2>1. \/ status[w] = "dirty" /\ WaitsIn(flush_pending, w, writer[w])
          \/ status[w] = "flushing" /\ WaitsIn(fence_pending, w, writer[w])
      BY DEF Believed, BeliefsExact, NoSilentLoss
    <2>2. ASSUME NEW group, WaitsIn(group, w, writer[w]), NEW type
          PROVE  [type |-> type, instruction_id |-> writer[w]] \in BugsAt(type, PendingIds(group))
      <3>1. writer[w] \in PendingIds(group)
        BY <2>2 DEF WaitsIn, PendingIds
      <3> QED
        BY <3>1 DEF BugsAt
    <2>3. CASE status[w] = "dirty" /\ WaitsIn(flush_pending, w, writer[w])
      BY <2>2, <2>3 DEF Remaindered
    <2>4. CASE status[w] = "flushing" /\ WaitsIn(fence_pending, w, writer[w])
      BY <2>2, <2>4 DEF Remaindered
    <2> QED
      BY <2>1, <2>3, <2>4
  <1>3. Believed /\ [TMNext]_tmvars => Believed'
    BY NextBelieved
  <1> QED
    BY <1>1, <1>2, <1>3, InitBelieved, NextRemaindered, PTL DEF TMSpec
-----------------------------------------------------------------------------
(* The stores a fence may still have to answer for: the ones that wait for *)
(* it and the ones reported as overwritten while they did.                 *)
UnfencedBugs == {b \in bugs : b.type = "OVERWRITTEN_UNFENCED"}
UnfencedIds  == {b.instruction_id : b \in UnfencedBugs}
EpochIds     == PendingIds(fence_pending) \cup UnfencedIds

(* The inductive invariant of UnorderedFlushesBounded: it counts ids, which *)
(* a store keeps when it leaves fence_pending for a report.                 *)
FlushesCounted == unordered_flushes <= Cardinality(EpochIds)

(* There are finitely many, as each is one of the ids issued.              *)
EpochIsFinite == IsFiniteSet(EpochIds) /\ Cardinality(EpochIds) \in Nat

LEMMA EpochFinite == Accounted => EpochIsFinite
  <1> SUFFICES ASSUME Accounted PROVE EpochIsFinite
    OBVIOUS
  <1>1. UnfencedIds \subseteq OverwrittenIds
    BY DEF UnfencedIds, UnfencedBugs, OverwrittenIds, OverwrittenIn, OverwriteTypes
  <1>2. EpochIds \subseteq issued
    BY <1>1 DEF EpochIds, Accounted, StoreAccounted
  <1>3. EpochIds \in SUBSET Nat /\ \A i \in EpochIds : i <= current_instruction_id
    BY <1>2 DEF Accounted, IInv
  <1>4. IsFiniteSet(EpochIds)
    <2> HIDE DEF EpochIds
    <2> QED
      BY <1>3, FS_BoundedSetOfNaturals DEF Accounted, IInv
  <1> QED
    BY <1>4, FS_CardinalityType DEF EpochIsFinite

(* As many entries as ids, and as many reports as ids in them.             *)
LEMMA EpochCount ==
  ASSUME Accounted
  PROVE  /\ IsFiniteSet(DOMAIN fence_pending) /\ IsFiniteSet(UnfencedBugs)
         /\ Cardinality(EpochIds) <= Cardinality(DOMAIN fence_pending) + Cardinality(UnfencedBugs)
  <1> DEFINE pending == PendingIds(fence_pending)
             f == [a \in DOMAIN fence_pending |-> fence_pending[a].instruction_id]
             g == [b \in UnfencedBugs |-> b.instruction_id]
  <1>1. /\ IsFiniteSet(pending) /\ IsFiniteSet(UnfencedIds)
        /\ Cardinality(EpochIds) <= Cardinality(pending) + Cardinality(UnfencedIds)
    <2>1. pending \in SUBSET EpochIds /\ UnfencedIds \in SUBSET EpochIds
      BY DEF EpochIds
    <2>2. IsFiniteSet(pending) /\ IsFiniteSet(UnfencedIds)
      <3> HIDE DEF pending
      <3> QED
        BY <2>1, EpochFinite, FS_Subset DEF EpochIsFinite
    <2> HIDE DEF pending
    <2>3. /\ Cardinality(pending \cup UnfencedIds)
               = Cardinality(pending) + Cardinality(UnfencedIds) - Cardinality(pending \cap UnfencedIds)
          /\ IsFiniteSet(pending \cap UnfencedIds)
      BY <2>2, FS_Union, FS_Intersection
    <2>4. /\ Cardinality(pending) \in Nat
          /\ Cardinality(UnfencedIds) \in Nat
          /\ Cardinality(pending \cap UnfencedIds) \in Nat
      BY <2>2, <2>3, FS_CardinalityType
    <2>5. EpochIds = pending \cup UnfencedIds
      BY DEF EpochIds, pending
    <2> QED
      BY <2>2, <2>3, <2>4, <2>5
  <1>2. IsFiniteSet(DOMAIN fence_pending) /\ Cardinality(pending) = Cardinality(DOMAIN fence_pending)
    <2>1. f \in Injection(DOMAIN fence_pending, pending)
      BY DEF Accounted, DistinctIds, PendingIds, Injection, IsInjective
    <2>2. f \in Surjection(DOMAIN fence_pending, pending)
      BY DEF PendingIds, Surjection
    <2> HIDE DEF f, pending
    <2> QED
      BY <1>1, <2>1, <2>2, FS_Injection
  <1>3. IsFiniteSet(UnfencedBugs) /\ Cardinality(UnfencedIds) = Cardinality(UnfencedBugs)
    <2>1. \A b \in UnfencedBugs : b \in Bug /\ b.type = "OVERWRITTEN_UNFENCED"
      BY DEF UnfencedBugs, Accounted, IInv
    <2>2. \A b, c \in UnfencedBugs : b.instruction_id = c.instruction_id => b = c
      BY <2>1 DEF Bug
    <2>3. g \in Injection(UnfencedBugs, UnfencedIds)
      BY <2>2 DEF UnfencedIds, Injection, IsInjective
    <2>4. g \in Surjection(UnfencedBugs, UnfencedIds)
      BY DEF UnfencedIds, Surjection
    <2> HIDE DEF g
    <2> QED
      BY <1>1, <2>3, <2>4, FS_Injection
  <1> QED
    BY <1>1, <1>2, <1>3

(* The same of the next state.                                             *)
LEMMA EpochFiniteNext == Accounted' => EpochIsFinite'
  BY EpochFinite, PTL

(* A store takes ids out of fence_pending only to report them.             *)
LEMMA CountedStore ==
  ASSUME Accounted, FlushesCounted, Accounted',
         NEW s \in StoreShapes, NEW is_movnt \in BOOLEAN, TraceStore(s[1], s[2], is_movnt)
  PROVE  FlushesCounted'
  <1> DEFINE keys     == Overwritten(fence_pending, s[1], s[2])
             entry    == [a \in {s[1]} |-> NewStore(s[2], current_instruction_id, "FLUSHED")]
             unfenced == CheckStore(fence_pending, s[1], s[2])
             reports  == OverwrittenBugs(fence_pending, s[1], s[2], "OVERWRITTEN_UNFENCED")
  <1>1. /\ unordered_flushes' = unordered_flushes
        /\ fence_pending' = IF is_movnt THEN Insert(unfenced, entry) ELSE unfenced
        /\ bugs \subseteq bugs' /\ reports \subseteq bugs'
    BY DEF TraceStore, ProcessStore
  <1>2. keys \subseteq DOMAIN fence_pending
    BY DEF Overwritten, CoveredKeys
  <1>3. DOMAIN unfenced = DOMAIN fence_pending \ keys /\ \A a \in DOMAIN unfenced : unfenced[a] = fence_pending[a]
    BY DEF CheckStore, Erase, Restrict
  <1>4. ASSUME NEW a \in keys
        PROVE  [type |-> "OVERWRITTEN_UNFENCED", instruction_id |-> fence_pending[a].instruction_id] \in reports
    BY <1>2 DEF OverwrittenBugs, BugsAt, PendingIds, Restrict
  <1>5. /\ DOMAIN unfenced \subseteq DOMAIN fence_pending'
        /\ \A a \in DOMAIN unfenced : fence_pending'[a] = unfenced[a]
    BY <1>1 DEF Insert
  <1> HIDE DEF keys, entry, unfenced, reports
  <1>6. PendingIds(fence_pending) \subseteq EpochIds'
    <2> SUFFICES ASSUME NEW a \in DOMAIN fence_pending
                 PROVE  fence_pending[a].instruction_id \in EpochIds'
      BY DEF PendingIds
    <2>1. CASE a \in keys
      <3>1. \E b \in bugs' : b.type = "OVERWRITTEN_UNFENCED" /\ b.instruction_id = fence_pending[a].instruction_id
        BY <1>1, <1>4, <2>1
      <3> QED
        BY <3>1 DEF EpochIds, UnfencedIds, UnfencedBugs
    <2>2. CASE a \notin keys
      BY <1>3, <1>5, <2>2 DEF EpochIds, PendingIds
    <2> QED
      BY <2>1, <2>2
  <1>7. UnfencedIds \subseteq EpochIds'
    BY <1>1 DEF EpochIds, UnfencedIds, UnfencedBugs
  <1>8. EpochIds \in SUBSET EpochIds'
    BY <1>6, <1>7 DEF EpochIds
  <1>9. Cardinality(EpochIds) <= Cardinality(EpochIds')
    <2> HIDE DEF EpochIds
    <2> QED
      BY <1>8, EpochFiniteNext, FS_Subset DEF EpochIsFinite
  <1> QED
    BY <1>1, <1>9, EpochFinite, EpochFiniteNext DEF EpochIsFinite, FlushesCounted, Accounted, IInv

(* A flush that counts one more has moved a store, whose id is new to the  *)
(* epoch.                                                                  *)
LEMMA CountedFlush ==
  ASSUME StoresInLine, FlushesLineStarts, Accounted, Shaped, FlushesCounted, Accounted',
         NEW t \in Flushes, NEW address \in FlushAddresses, TraceFlush(t, address)
  PROVE  FlushesCounted'
  <1> DEFINE line  == {a \in DOMAIN flush_pending : a \div CACHELINE_SIZE = address \div CACHELINE_SIZE}
             moved == [a \in line |-> flush(flush_pending[a])]
  <1>1. /\ Inside(flush_pending, address) = line
        /\ PartiallyInside(flush_pending, address) = {}
        /\ FlushedKeys(flush_pending, address) = line
    BY FlushTakesLine DEF Shaped, Accounted, IInv
  <1>2. /\ fence_pending' = Insert(fence_pending, moved)
        /\ bugs \subseteq bugs'
        /\ \/ unordered_flushes' = unordered_flushes
           \/ line # {} /\ unordered_flushes' = unordered_flushes + 1
    BY <1>1 DEF TraceFlush, ProcessFlush
  <1>3. \A a \in line : a \in DOMAIN moved /\ moved[a].instruction_id = flush_pending[a].instruction_id
    BY DEF flush, Accounted, IInv, GroupAt, Store
  <1>4. line \subseteq DOMAIN flush_pending
    OBVIOUS
  <1>5. DOMAIN moved = line
    OBVIOUS
  <1> HIDE DEF line, moved
  <1>6. /\ DOMAIN fence_pending' = DOMAIN fence_pending \cup line
        /\ \A a \in DOMAIN fence_pending : fence_pending'[a] = fence_pending[a]
        /\ \A a \in line : fence_pending'[a] = moved[a]
    <2>1. DOMAIN fence_pending \cap line = {}
      BY <1>4 DEF Accounted, IInv, PendingDisjoint
    <2> QED
      BY <1>2, <1>5, <2>1 DEF Insert
  <1>7. EpochIds \in SUBSET EpochIds'
    BY <1>2, <1>6 DEF EpochIds, PendingIds, UnfencedIds, UnfencedBugs
  <1>8. IsFiniteSet(EpochIds) /\ IsFiniteSet(EpochIds')
    BY EpochFinite, EpochFiniteNext DEF EpochIsFinite
  <1>9. CASE line = {}
    <2>1. Cardinality(EpochIds) <= Cardinality(EpochIds')
      <3> HIDE DEF EpochIds
      <3> QED
        BY <1>7, <1>8, FS_Subset
    <2> QED
      BY <1>2, <1>9, <2>1, EpochFinite, EpochFiniteNext DEF EpochIsFinite, FlushesCounted, Accounted, IInv
  <1>10. CASE line # {}
    <2>1. PICK a \in line : TRUE
      BY <1>10
    <2> DEFINE id == flush_pending[a].instruction_id
    <2>2. id \in EpochIds'
      BY <1>3, <1>6, <2>1 DEF EpochIds, PendingIds
    <2>3. id \notin EpochIds
      <3>1. id \in PendingIds(flush_pending)
        BY <1>4, <2>1 DEF PendingIds
      <3>2. UnfencedIds \subseteq OverwrittenIds
        BY DEF UnfencedIds, UnfencedBugs, OverwrittenIds, OverwrittenIn, OverwriteTypes
      <3> HIDE DEF id
      <3> QED
        BY <3>1, <3>2 DEF EpochIds, Accounted, StoreAccounted
    <2> HIDE DEF id
    <2>4. EpochIds \cup {id} \in SUBSET EpochIds'
      BY <1>7, <2>2
    <2>5. Cardinality(EpochIds \cup {id}) = Cardinality(EpochIds) + 1
      BY <1>8, <2>3, FS_AddElement
    <2>6. Cardinality(EpochIds \cup {id}) <= Cardinality(EpochIds')
      <3> HIDE DEF EpochIds
      <3> QED
        BY <1>8, <2>4, FS_Subset
    <2> QED
      BY <1>2, <2>5, <2>6, EpochFinite, EpochFiniteNext DEF EpochIsFinite, FlushesCounted, Accounted, IInv
  <1> QED
    BY <1>9, <1>10

(* The other steps reset the count, or change neither it nor the epoch.    *)
LEMMA NextCounted ==
  ASSUME StoresInLine, FlushesLineStarts
  PROVE  Accounted /\ Shaped /\ FlushesCounted /\ [TMNext]_tmvars => FlushesCounted'
  <1> SUFFICES ASSUME Accounted, Shaped, FlushesCounted, [TMNext]_tmvars PROVE FlushesCounted'
    OBVIOUS
  <1>1. Accounted'
    BY NextAccounted
  <1>2. ASSUME NEW s \in StoreShapes, NEW is_movnt \in BOOLEAN, TraceStore(s[1], s[2], is_movnt)
        PROVE  FlushesCounted'
    BY <1>1, <1>2, CountedStore
  <1>3. ASSUME NEW t \in Flushes, NEW a \in FlushAddresses, TraceFlush(t, a)
        PROVE  FlushesCounted'
    BY <1>1, <1>3, CountedFlush
  <1>4. ASSUME unordered_flushes' = 0
        PROVE  FlushesCounted'
    BY <1>1, <1>4, EpochFiniteNext DEF EpochIsFinite, FlushesCounted
  <1>5. CASE ExecEnd
    <2>1. UnfencedIds' = UnfencedIds
      <3>1. \A ids : \A b \in BugsAt("MISSING_FLUSH", ids) \cup BugsAt("MISSING_FENCE", ids) :
              b.type # "OVERWRITTEN_UNFENCED"
        BY DEF BugsAt
      <3>2. UnfencedBugs' = UnfencedBugs
        BY <1>5, <3>1 DEF ExecEnd, CheckRemainder, UnfencedBugs
      <3> QED
        BY <3>2 DEF UnfencedIds
    <2> QED
      BY <1>5, <2>1 DEF ExecEnd, CheckRemainder, FlushesCounted, EpochIds, PendingIds
  <1>6. CASE UNCHANGED tmvars
    BY <1>6 DEF tmvars, vars, FlushesCounted, EpochIds, PendingIds, UnfencedIds, UnfencedBugs
  <1>7. ASSUME TraceFence \/ \E address, size : TraceRMW(address, size)
        PROVE  FlushesCounted'
    BY <1>4, <1>7 DEF TraceFence, ProcessFence, TraceRMW, ProcessRMW
  <1> QED
    BY <1>2, <1>3, <1>5, <1>6, <1>7 DEF TMNext, ExecStore, ExecNTStore, ExecFlush, ExecFence, ExecRMW,
                                        ExecVolatileRMW

(* For programs whose stores stay within a line and whose flushes are of   *)
(* line starts: a fence never answers for more weakly ordered flushes than *)
(* there are stores that wait for it or were overwritten while they did.   *)
THEOREM UnorderedFlushesAlwaysBounded ==
  ASSUME StoresInLine, FlushesLineStarts
  PROVE  TMSpec => []UnorderedFlushesBounded
  <1> DEFINE Counted == Accounted /\ Shaped /\ FlushesCounted
  <1>1. TMInit => Counted
    <2> SUFFICES ASSUME TMInit PROVE Counted
      OBVIOUS
    <2>1. Accounted /\ Shaped
      BY InitBelieved DEF Believed
    <2> QED
      BY <2>1, EpochFinite DEF EpochIsFinite, FlushesCounted, TMInit, Init
  <1>2. Counted /\ [TMNext]_tmvars => Counted'
    BY NextAccounted, NextShaped, NextCounted
  <1>3. Counted => UnorderedFlushesBounded
    <2> SUFFICES ASSUME Accounted, FlushesCounted PROVE UnorderedFlushesBounded
      OBVIOUS
    <2>1. IsFiniteSet(DOMAIN fence_pending) /\ IsFiniteSet(UnfencedBugs)
      BY EpochCount
    <2>2. Cardinality(DOMAIN fence_pending) \in Nat /\ Cardinality(UnfencedBugs) \in Nat
      BY <2>1, FS_CardinalityType
    <2>3. unordered_flushes <= Cardinality(DOMAIN fence_pending) + Cardinality(UnfencedBugs)
      BY <2>2, EpochCount, EpochFinite DEF EpochIsFinite, FlushesCounted, Accounted, IInv
    <2> QED
      BY <2>3 DEF UnorderedFlushesBounded, UnfencedBugs
  <1> QED
    BY <1>1, <1>2, <1>3, PTL DEF TMSpec
-----------------------------------------------------------------------------
(* Stores that may straddle two lines, but no more.                        *)
StoresAtMostALine == \A s \in StoreShapes : s[2] <= CACHELINE_SIZE

(* What FirstLineExact says of the entry under `a`.                        *)
FirstWord(a) ==
  /\ a \in DOMAIN flush_pending /\ flush_pending[a].instruction_id = writer[a]
       => (flush_pending[a].state = "MODIFIED" <=> status[a] = "dirty")
  /\ a \in DOMAIN fence_pending /\ fence_pending[a].instruction_id = writer[a]
       => status[a] # "dirty"

(* FirstLineExact, one address at a time.                                  *)
LEMMA FirstWordExact == FirstLineExact <=> \A a : FirstWord(a)
  BY DEF FirstLineExact, FirstWord

(* The start of an entry is a word of the memory.                          *)
LEMMA StartIsWord ==
  ASSUME NEW group, InShape(group), NEW a \in DOMAIN group
  PROVE  a \in Words
  <1> DEFINE s == <<a, group[a].size>>
  <1>1. s \in StoreShapes /\ s[1] = a
    BY DEF InShape
  <1> HIDE DEF s
  <1>2. a \in Footprint(s[1], s[2])
    BY <1>1, ShapesAssumption DEF Footprint
  <1> QED
    BY <1>1, <1>2 DEF Words

(* A store to `a` makes older entries about `a` void, and its own right.   *)
LEMMA FirstWordStore ==
  ASSUME Accounted, Shaped, FirstLineExact, NEW s \in StoreShapes,
         ExecStore(s[1], s[2]) \/ ExecNTStore(s[1], s[2]), NEW a
  PROVE  FirstWord(a)'
  <1> DEFINE n         == current_instruction_id
             words     == Footprint(s[1], s[2])
             is_movnt  == ~ExecStore(s[1], s[2])
             st        == IF is_movnt THEN "FLUSHED" ELSE "MODIFIED"
             entry     == [x \in {s[1]} |-> NewStore(s[2], n, st)]
             unflushed == CheckStore(flush_pending, s[1], s[2])
             unfenced  == CheckStore(fence_pending, s[1], s[2])
  <1>1. /\ TraceStore(s[1], s[2], is_movnt)
        /\ Written(words)
        /\ status' = [w \in Words |-> IF w \in words THEN IF is_movnt THEN "flushing" ELSE "dirty"
                                      ELSE status[w]]
    BY DEF ExecStore, ExecNTStore, PM!StoreWords, PM!Stored, PM!NTStoreWords, PM!NTStored
  <1> HIDE DEF is_movnt
  <1>2. /\ flush_pending' = IF is_movnt THEN unflushed ELSE Insert(unflushed, entry)
        /\ fence_pending' = IF is_movnt THEN Insert(unfenced, entry) ELSE unfenced
        /\ writer' = [w \in Words |-> IF w \in words THEN n ELSE writer[w]]
    BY <1>1 DEF TraceStore, ProcessStore, Written
  <1>3. /\ DOMAIN entry = {s[1]}
        /\ entry[s[1]].state = st /\ entry[s[1]].instruction_id = n
    BY DEF NewStore
  <1>4. s[1] \notin DOMAIN unflushed /\ s[1] \notin DOMAIN unfenced
    BY CheckStoreFreesKey DEF Accounted, IInv
  <1>5. /\ DOMAIN unflushed \subseteq DOMAIN flush_pending
        /\ \A x \in DOMAIN unflushed : unflushed[x] = flush_pending[x]
        /\ DOMAIN unfenced \subseteq DOMAIN fence_pending
        /\ \A x \in DOMAIN unfenced : unfenced[x] = fence_pending[x]
    BY DEF CheckStore, Erase, Restrict
  <1>6. s[1] \in words /\ s[1] \in Words
    BY ShapesAssumption DEF Footprint, Words
  <1> HIDE DEF entry, unflushed, unfenced
  <1>7. CASE a = s[1]
    <2>1. /\ a \in DOMAIN flush_pending' => ~is_movnt /\ flush_pending'[a] = entry[a]
          /\ a \in DOMAIN fence_pending' => is_movnt
      BY <1>2, <1>3, <1>4, <1>7 DEF Insert
    <2>2. status'[a] = IF is_movnt THEN "flushing" ELSE "dirty"
      BY <1>1, <1>6, <1>7
    <2> QED
      BY <1>3, <1>7, <2>1, <2>2 DEF FirstWord
  <1>8. CASE a # s[1]
    <2>1. /\ a \in DOMAIN flush_pending' => a \in DOMAIN flush_pending /\ flush_pending'[a] = flush_pending[a]
          /\ a \in DOMAIN fence_pending' => a \in DOMAIN fence_pending /\ fence_pending'[a] = fence_pending[a]
      BY <1>2, <1>3, <1>5, <1>8 DEF Insert
    <2>2. CASE a \in Words /\ a \in words
      <3>1. writer'[a] = n /\ n \in Nat
        BY <1>2, <2>2 DEF Accounted, IInv
      <3>2. /\ a \in DOMAIN flush_pending => flush_pending[a].instruction_id \in Nat /\ flush_pending[a].instruction_id < n
            /\ a \in DOMAIN fence_pending => fence_pending[a].instruction_id \in Nat /\ fence_pending[a].instruction_id < n
        BY DEF Accounted, IInv, GroupAt, Store
      <3> QED
        BY <2>1, <3>1, <3>2 DEF FirstWord
    <2>3. CASE a \in Words /\ a \notin words
      <3>1. writer'[a] = writer[a] /\ status'[a] = status[a]
        BY <1>1, <1>2, <2>3
      <3> QED
        BY <2>1, <3>1, FirstWordExact DEF FirstWord
    <2>4. CASE a \notin Words
      BY <2>1, <2>4, StartIsWord DEF FirstWord, Shaped
    <2> QED
      BY <2>2, <2>3, <2>4
  <1> QED
    BY <1>7, <1>8

(* A flush that does not start below an entry's first word does not reach  *)
(* it; one that does takes the entry, or marks it.                         *)
LEMMA FirstWordFlush ==
  ASSUME FlushesLineStarts, StoresAtMostALine, Accounted, Shaped, FirstLineExact,
         NEW t \in Flushes, NEW address \in FlushAddresses, ExecFlush(t, address), NEW a
  PROVE  FirstWord(a)'
  <1> DEFINE keys  == FlushedKeys(flush_pending, address)
             moved == [x \in keys |-> flush(flush_pending[x])]
             kept  == Erase(MarkPartial(flush_pending, address), keys)
  <1>1. /\ TraceFlush(t, address)
        /\ status' = [w \in Words |-> IF LineOf(w) = LineOf(address) /\ status[w] = "dirty"
                                      THEN "flushing" ELSE status[w]]
        /\ writer' = writer
    BY DEF ExecFlush, PM!FlushLine, PM!LineFlushed
  <1>2. flush_pending' = kept /\ fence_pending' = Insert(fence_pending, moved)
    BY <1>1 DEF TraceFlush, ProcessFlush
  <1>3. keys \subseteq DOMAIN flush_pending
    BY DEF FlushedKeys, Inside, PartiallyInside, CoveredKeys
  <1>4. CASE a \notin DOMAIN flush_pending
    <2>1. a \notin DOMAIN flush_pending'
      BY <1>2, <1>4 DEF Erase, Restrict, MarkPartial
    <2>2. a \in DOMAIN fence_pending' => a \in DOMAIN fence_pending /\ fence_pending'[a] = fence_pending[a]
      BY <1>2, <1>3, <1>4 DEF Insert
    <2>3. a \in DOMAIN fence_pending => a \in Words
      BY StartIsWord DEF Shaped
    <2>4. a \in Words => (status'[a] = "dirty" => status[a] = "dirty")
      BY <1>1
    <2> QED
      BY <1>1, <2>1, <2>2, <2>3, <2>4, FirstWordExact DEF FirstWord
  <1>5. CASE a \in DOMAIN flush_pending
    <2> DEFINE size   == flush_pending[a].size
               inside == address <= a /\ a < address + CACHELINE_SIZE
    <2>1. /\ <<a, size>> \in StoreShapes
          /\ a \in Nat /\ size \in Nat \ {0} /\ size <= CACHELINE_SIZE
          /\ address \in Nat
          /\ flush_pending[a].state \in Unflushed
      BY <1>5, ShapesAssumption, FlushAssumption
         DEF Shaped, InShape, StoresAtMostALine, Accounted, IInv, GroupAt
    <2>2. a \in Words
      BY <1>5, StartIsWord DEF Shaped
    <2>3. LineOf(a) = LineOf(address) <=> inside
      BY <2>1, LineOfStart DEF FlushesLineStarts, LineOf
    <2>4. status'[a] = IF inside /\ status[a] = "dirty" THEN "flushing" ELSE status[a]
      BY <1>1, <2>2, <2>3
    <2>5. a \notin DOMAIN fence_pending
      BY <1>5 DEF Accounted, IInv, PendingDisjoint
    <2>6. a \in Inside(flush_pending, address) \cup PartiallyInside(flush_pending, address) <=> inside
      BY <1>5, <2>1, CachelineAssumption DEF Inside, PartiallyInside, CoveredKeys, StoreIsInsideCacheline,
                            StoreIsPartiallyInsideCacheline
    <2>7. /\ a \in keys => inside
          /\ a \notin keys /\ inside => a \in PartiallyInside(flush_pending, address)
          /\ ~inside => a \notin PartiallyInside(flush_pending, address)
      BY <2>6 DEF FlushedKeys
    <2>8. /\ a \in DOMAIN flush_pending' <=> a \notin keys
          /\ a \in DOMAIN fence_pending' <=> a \in keys
      BY <1>2, <1>5, <2>5 DEF Erase, Restrict, MarkPartial, Insert
    <2>9. CASE a \in keys
      BY <2>4, <2>7, <2>8, <2>9 DEF FirstWord
    <2>10. CASE a \notin keys
      <3>1. flush_pending'[a] = IF inside THEN [flush_pending[a] EXCEPT !.state = "PARTIALLY_FLUSHED"]
                                ELSE flush_pending[a]
        BY <1>2, <1>5, <2>7, <2>10 DEF Erase, Restrict, MarkPartial
      <3>2. /\ flush_pending'[a].state = IF inside THEN "PARTIALLY_FLUSHED" ELSE flush_pending[a].state
            /\ flush_pending'[a].instruction_id = flush_pending[a].instruction_id
        BY <1>5, <3>1 DEF Accounted, IInv, GroupAt, Store
      <3>3. FirstWord(a)
        BY FirstWordExact
      <3> QED
        BY <1>1, <1>5, <2>4, <2>8, <2>10, <3>2, <3>3 DEF FirstWord
    <2> QED
      BY <2>9, <2>10
  <1> QED
    BY <1>4, <1>5

(* A fence, alone or with an update of volatile memory.                    *)
LEMMA FirstWordFence ==
  ASSUME Shaped, FirstLineExact, ExecFence \/ ExecVolatileRMW, NEW a
  PROVE  FirstWord(a)'
  <1>1. /\ flush_pending' = flush_pending /\ fence_pending' = NoStores /\ writer' = writer
        /\ status' = [w \in Words |-> IF status[w] = "flushing" THEN "persisted" ELSE status[w]]
    BY DEF ExecFence, TraceFence, ProcessFence, ExecVolatileRMW, TraceRMW, ProcessRMW,
           PM!Fence, PM!LockedUpdate, PM!Stored, PM!Fenced
  <1>2. a \in DOMAIN flush_pending => a \in Words
    BY StartIsWord DEF Shaped
  <1>3. a \in Words => (status'[a] = "dirty" <=> status[a] = "dirty")
    BY <1>1
  <1>4. a \notin DOMAIN fence_pending'
    BY <1>1 DEF NoStores
  <1> QED
    BY <1>1, <1>2, <1>3, <1>4, FirstWordExact DEF FirstWord

(* A locked update: a fence, then a store.                                 *)
LEMMA FirstWordRMW ==
  ASSUME Accounted, Shaped, FirstLineExact, NEW s \in StoreShapes, ExecRMW(s[1], s[2]), NEW a
  PROVE  FirstWord(a)'
  <1> DEFINE n         == current_instruction_id
             words     == Footprint(s[1], s[2])
             entry     == [x \in {s[1]} |-> NewStore(s[2], n, "MODIFIED")]
             unflushed == CheckStore(flush_pending, s[1], s[2])
  <1>1. /\ flush_pending' = Insert(unflushed, entry)
        /\ fence_pending' = NoStores
        /\ writer' = [w \in Words |-> IF w \in words THEN n ELSE writer[w]]
        /\ status' = [w \in Words |-> IF w \in words THEN "dirty"
                                      ELSE IF status[w] = "flushing" THEN "persisted" ELSE status[w]]
    <2>1. s[2] # 0
      BY ShapesAssumption
    <2> QED
      BY <2>1 DEF ExecRMW, TraceRMW, ProcessRMW, Written, PM!LockedUpdate, PM!Stored, PM!Fenced
  <1>2. DOMAIN entry = {s[1]} /\ entry[s[1]].state = "MODIFIED"
    BY DEF NewStore
  <1>3. s[1] \notin DOMAIN unflushed
    BY CheckStoreFreesKey DEF Accounted, IInv
  <1>4. /\ DOMAIN unflushed \subseteq DOMAIN flush_pending
        /\ \A x \in DOMAIN unflushed : unflushed[x] = flush_pending[x]
    BY DEF CheckStore, Erase, Restrict
  <1>5. s[1] \in words /\ s[1] \in Words
    BY ShapesAssumption DEF Footprint, Words
  <1>6. a \notin DOMAIN fence_pending'
    BY <1>1 DEF NoStores
  <1> HIDE DEF entry, unflushed
  <1>7. CASE a = s[1]
    <2>1. flush_pending'[a] = entry[a]
      BY <1>1, <1>2, <1>3, <1>7 DEF Insert
    <2>2. status'[a] = "dirty"
      BY <1>1, <1>5, <1>7
    <2> QED
      BY <1>2, <1>6, <1>7, <2>1, <2>2 DEF FirstWord
  <1>8. CASE a # s[1] /\ a \in DOMAIN flush_pending'
    <2>1. a \in DOMAIN flush_pending /\ flush_pending'[a] = flush_pending[a]
      BY <1>1, <1>2, <1>4, <1>8 DEF Insert
    <2>2. a \in Words
      BY <2>1, StartIsWord DEF Shaped
    <2>3. CASE a \in words
      <3>1. writer'[a] = n
        BY <1>1, <2>2, <2>3
      <3>2. n \in Nat /\ flush_pending[a].instruction_id \in Nat /\ flush_pending[a].instruction_id < n
        BY <2>1 DEF Accounted, IInv, GroupAt, Store
      <3> QED
        BY <1>6, <2>1, <3>1, <3>2 DEF FirstWord
    <2>4. CASE a \notin words
      <3>1. writer'[a] = writer[a] /\ (status'[a] = "dirty" <=> status[a] = "dirty")
        BY <1>1, <2>2, <2>4
      <3> QED
        BY <1>6, <2>1, <3>1, FirstWordExact DEF FirstWord
    <2> QED
      BY <2>3, <2>4
  <1> QED
    BY <1>6, <1>7, <1>8 DEF FirstWord

(* For every program whose flushes are of line starts and whose stores are *)
(* no longer than a line, straddling two lines or not: the state of an     *)
(* entry tells whether the first word of its store was flushed.            *)
THEOREM FirstLineAlwaysExact ==
  ASSUME FlushesLineStarts, StoresAtMostALine
  PROVE  TMSpec => []FirstLineExact
  <1> DEFINE First == Accounted /\ Shaped /\ FirstLineExact
  <1>1. TMInit => First
    <2> SUFFICES ASSUME TMInit PROVE First
      OBVIOUS
    <2>1. Accounted /\ Shaped
      BY InitBelieved DEF Believed
    <2> QED
      BY <2>1 DEF TMInit, Init, NoStores, FirstLineExact
  <1>2. First /\ [TMNext]_tmvars => First'
    <2> SUFFICES ASSUME Accounted, Shaped, FirstLineExact, [TMNext]_tmvars PROVE FirstLineExact'
      BY NextAccounted, NextShaped
    <2>1. CASE UNCHANGED tmvars \/ ExecEnd
      BY <2>1 DEF tmvars, vars, ExecEnd, CheckRemainder, FirstLineExact
    <2>2. ASSUME NEW a, TMNext, ~ExecEnd
          PROVE  FirstWord(a)'
      BY <2>2, FirstWordStore, FirstWordFlush, FirstWordFence, FirstWordRMW DEF TMNext
    <2> QED
      BY <2>1, <2>2 DEF FirstLineExact, FirstWord
  <1> QED
    BY <1>1, <1>2, PTL DEF TMSpec

(***************************************************************************)
(* The hash map.                                                           *)
(***************************************************************************)

LEMMA LeastElement ==
  ASSUME NEW T, T \subseteq Nat, T # {}
  PROVE  \E n \in T : \A m \in T : n <= m
  <1> DEFINE less == {p \in Nat \X Nat : p[1] < p[2]}
  <1>1. IsWellFoundedOn(less, Nat)
    BY NatLessThanWellFounded DEF OpToRel
  <1>2. PICK n \in T : \A m \in T : <<m, n>> \notin less
    BY <1>1, WFMin
  <1>3. \A m \in T : ~(m < n)
    BY <1>2
  <1> QED
    BY <1>3

LEMMA UpFromZero ==
  ASSUME NEW T, 0 \in T, \A n \in Nat : n \in T => n + 1 \in T
  PROVE  \A n \in Nat : n \in T
  <1> SUFFICES ASSUME Nat \ T # {} PROVE FALSE
    OBVIOUS
  <1>1. PICK n \in Nat \ T : \A m \in Nat \ T : n <= m
    BY LeastElement
  <1>2. n - 1 \in Nat /\ n - 1 \in T
    BY <1>1
  <1> QED
    BY <1>1, <1>2

(***************************************************************************)
(* Sequences whose elements are distinct: what they hold, and how many.    *)
(***************************************************************************)

Distinct(s) == \A i, j \in 1 .. Len(s) : s[i] = s[j] => i = j
Elements(s) == {s[i] : i \in 1 .. Len(s)}

LEMMA DistinctInjective ==
  ASSUME NEW S, NEW s \in Seq(S)
  PROVE  IsInjective(s) <=> Distinct(s)
  <1>1. DOMAIN s = 1 .. Len(s)
    OBVIOUS
  <1> QED
    BY <1>1 DEF IsInjective, Distinct

LEMMA ElementsCounted ==
  ASSUME NEW S, NEW s \in Seq(S), Distinct(s)
  PROVE  IsFiniteSet(Elements(s)) /\ Cardinality(Elements(s)) = Len(s)
  <1>1. Len(s) \in Nat /\ s = [i \in 1 .. Len(s) |-> s[i]]
    OBVIOUS
  <1>2. s \in Bijection(1 .. Len(s), Elements(s))
    BY <1>1 DEF Distinct, Elements, Bijection, Injection, Surjection, IsInjective
  <1>3. ExistsBijection(1 .. Len(s), Elements(s))
    BY <1>2 DEF ExistsBijection
  <1> QED
    BY <1>1, <1>3, FS_NatBijection, FS_CountingElements

LEMMA Concatenated ==
  ASSUME NEW S, NEW s \in Seq(S), NEW t \in Seq(S)
  PROVE  /\ s \o t \in Seq(S) /\ Elements(s \o t) = Elements(s) \cup Elements(t)
         /\ Distinct(s) /\ Distinct(t) /\ Elements(s) \cap Elements(t) = {} => Distinct(s \o t)
  <1>1. PICK a, b, q : a = Len(s) /\ b = Len(t) /\ q = s \o t
    OBVIOUS
  <1>2. a \in Nat /\ b \in Nat /\ q \in Seq(S) /\ Len(q) = a + b
    BY <1>1
  <1>3. /\ \A i \in 1 .. a : q[i] = s[i] /\ i \in 1 .. a + b
        /\ \A i \in 1 .. b : q[a + i] = t[i] /\ a + i \in 1 .. a + b
    BY <1>1
  <1>4. \A i \in 1 .. a + b : i \in 1 .. a \/ (i - a \in 1 .. b /\ a + (i - a) = i)
    BY <1>2
  <1>5. Elements(q) = Elements(s) \cup Elements(t)
    BY <1>1, <1>2, <1>3, <1>4 DEF Elements
  <1>6. ASSUME Distinct(s), Distinct(t), Elements(s) \cap Elements(t) = {},
               NEW i \in 1 .. a + b, NEW j \in 1 .. a + b, q[i] = q[j]
        PROVE  i = j
    <2>1. CASE i \in 1 .. a /\ j \in 1 .. a
      BY <1>1, <1>3, <1>6, <2>1 DEF Distinct
    <2>2. CASE i - a \in 1 .. b /\ j - a \in 1 .. b
      <3>a. a + (i - a) = i /\ a + (j - a) = j
        BY <1>2
      <3>1. q[i] = t[i - a] /\ q[j] = t[j - a]
        BY <1>3, <2>2, <3>a
      <3>2. i - a = j - a
        BY <1>1, <1>6, <2>2, <3>1 DEF Distinct
      <3> QED
        BY <1>2, <3>2
    <2>3. ASSUME NEW v \in 1 .. a, NEW w \in 1 .. a + b, w - a \in 1 .. b, a + (w - a) = w, q[v] = q[w] PROVE FALSE
      <3>1. q[v] \in Elements(s) /\ q[w] \in Elements(t)
        BY <1>1, <1>3, <2>3 DEF Elements
      <3> QED
        BY <1>6, <2>3, <3>1
    <2> QED
      BY <1>4, <1>6, <2>1, <2>2, <2>3
  <1> QED
    BY <1>1, <1>2, <1>5, <1>6 DEF Distinct

LEMMA RestOf ==
  ASSUME NEW S, NEW s \in Seq(S), Distinct(s), NEW p \in 1 .. Len(s)
  PROVE  /\ RemoveAt(s, p) \in Seq(S) /\ Distinct(RemoveAt(s, p))
         /\ Elements(RemoveAt(s, p)) = Elements(s) \ {s[p]}
  <1>0. Len(s) \in Nat /\ p \in Nat
    OBVIOUS
  <1>1. PICK a, b, n : a = SubSeq(s, 1, p - 1) /\ b = SubSeq(s, p + 1, Len(s)) /\ n = Len(s)
    OBVIOUS
  <1>2. /\ a \in Seq(S) /\ Len(a) = p - 1 /\ \A i \in 1 .. p - 1 : a[i] = s[i]
        /\ b \in Seq(S) /\ Len(b) = n - p /\ \A i \in 1 .. n - p : b[i] = s[p + i]
    BY <1>0, <1>1
  <1>3. Elements(a) = {s[i] : i \in 1 .. p - 1}
    BY <1>2 DEF Elements
  <1>4. Elements(b) = {s[i] : i \in p + 1 .. n}
    <2>1. \A i \in 1 .. n - p : p + i \in p + 1 .. n
      BY <1>0, <1>1
    <2>2. \A i \in p + 1 .. n : i - p \in 1 .. n - p /\ p + (i - p) = i
      BY <1>0, <1>1
    <2>3. Elements(b) = {s[p + i] : i \in 1 .. n - p}
      BY <1>2 DEF Elements
    <2>4. ASSUME NEW x PROVE x \in {s[p + i] : i \in 1 .. n - p} <=> x \in {s[i] : i \in p + 1 .. n}
      BY <2>1, <2>2
    <2> QED
      BY <2>3, <2>4
  <1>5. Distinct(a) /\ Distinct(b)
    <2>1. \A i \in 1 .. p - 1 : i \in 1 .. Len(s)
      BY <1>0
    <2>2. \A i \in 1 .. n - p : p + i \in 1 .. Len(s)
      BY <1>0, <1>1
    <2>3. \A i, j \in 1 .. n - p : p + i = p + j => i = j
      BY <1>0, <1>1
    <2> QED
      BY <1>2, <2>1, <2>2, <2>3 DEF Distinct
  <1>6. /\ \A i \in 1 .. n : i \in 1 .. p - 1 \/ i = p \/ i \in p + 1 .. n
        /\ \A i \in 1 .. p - 1 : i \in 1 .. n /\ i # p /\ i \notin p + 1 .. n
        /\ \A i \in p + 1 .. n : i \in 1 .. n /\ i # p
    BY <1>0, <1>1
  <1>7. Elements(a) \cap Elements(b) = {}
    BY <1>1, <1>3, <1>4, <1>6 DEF Distinct
  <1>8. Elements(a) \cup Elements(b) = Elements(s) \ {s[p]}
    <2>1. Elements(s) = {s[i] : i \in 1 .. n}
      BY <1>1 DEF Elements
    <2>2. \A i \in 1 .. n : s[i] = s[p] => i = p
      BY <1>1 DEF Distinct
    <2>3. ASSUME NEW x \in Elements(s), x # s[p] PROVE x \in Elements(a) \cup Elements(b)
      BY <1>3, <1>4, <1>6, <2>1, <2>3
    <2>4. Elements(a) \cup Elements(b) \subseteq Elements(s) \ {s[p]}
      BY <1>3, <1>4, <1>6, <2>1, <2>2
    <2> QED
      BY <2>3, <2>4
  <1>9. RemoveAt(s, p) = a \o b
    BY <1>1 DEF RemoveAt
  <1> QED
    BY <1>2, <1>5, <1>7, <1>8, <1>9, Concatenated

(* A sequence of sequences in one.                                         *)
Flattens(seqs, f) ==
  f = [i \in 1 .. Len(seqs) |-> IF i = 1 THEN seqs[i] ELSE f[i - 1] \o seqs[i]]

LEMMA FlattenSteps ==
  ASSUME NEW S, NEW seqs \in Seq(Seq(S)), seqs # <<>>
  PROVE  \E f : Flattens(seqs, f) /\ FlattenSeq(seqs) = f[Len(seqs)]
  <1> DEFINE N == Len(seqs)
             Def(f, m) == f = [i \in 1 .. m |-> IF i = 1 THEN seqs[i] ELSE f[i - 1] \o seqs[i]]
             T == {m \in Nat : \E f : Def(f, m)}
  <1>0. N \in Nat \ {0}
    OBVIOUS
  <1>1. 0 \in T
    <2>1. PICK g : g = [i \in 1 .. 0 |-> seqs[i]]
      OBVIOUS
    <2>2. Def(g, 0)
      BY <2>1
    <2> HIDE DEF Def
    <2> QED
      BY <2>2
  <1>2. ASSUME NEW m \in Nat, m \in T PROVE m + 1 \in T
    <2>1. PICK g : Def(g, m)
      BY <1>2
    <2> DEFINE h == [i \in 1 .. m + 1 |-> IF i = 1 THEN seqs[i] ELSE g[i - 1] \o seqs[i]]
    <2>2. ASSUME NEW i \in 1 .. m PROVE g[i] = h[i]
      <3>1. g[i] = IF i = 1 THEN seqs[i] ELSE g[i - 1] \o seqs[i]
        BY <2>1
      <3>2. i \in 1 .. m + 1
        OBVIOUS
      <3>3. h[i] = IF i = 1 THEN seqs[i] ELSE g[i - 1] \o seqs[i]
        BY <3>2
      <3> HIDE DEF h
      <3> QED
        BY <3>1, <3>3
    <2>3. ASSUME NEW i \in 1 .. m + 1, i # 1 PROVE g[i - 1] = h[i - 1]
      <3>1. i - 1 \in 1 .. m
        BY <2>3
      <3> HIDE DEF h, Def
      <3> QED
        BY <2>2, <3>1
    <2>4. h = [i \in 1 .. m + 1 |-> IF i = 1 THEN seqs[i] ELSE h[i - 1] \o seqs[i]]
      <3> DEFINE k == [i \in 1 .. m + 1 |-> IF i = 1 THEN seqs[i] ELSE h[i - 1] \o seqs[i]]
      <3>1. \A i \in 1 .. m + 1 : h[i] = k[i]
        BY <2>3
      <3> QED
        BY <3>1
    <2>5. Def(h, m + 1)
      BY <2>4
    <2> HIDE DEF Def, h
    <2> QED
      BY <2>5
  <1>3. N \in T
    <2> HIDE DEF T
    <2> QED
      BY <1>0, <1>1, <1>2, UpFromZero
  <1>4. \E f : Flattens(seqs, f)
    BY <1>3 DEF Flattens
  <1>5. Flattens(seqs, CHOOSE f : Flattens(seqs, f))
    BY <1>4
  <1>6. FlattenSeq(seqs) = (CHOOSE f : Flattens(seqs, f))[N]
    BY <1>0 DEF FlattenSeq, Flattens
  <1> QED
    BY <1>5, <1>6

LEMMA FlattenExact ==
  ASSUME NEW S, NEW seqs \in Seq(Seq(S)),
         \A i \in 1 .. Len(seqs) : Distinct(seqs[i]),
         \A i, j \in 1 .. Len(seqs) : i # j => Elements(seqs[i]) \cap Elements(seqs[j]) = {}
  PROVE  /\ FlattenSeq(seqs) \in Seq(S) /\ Distinct(FlattenSeq(seqs))
         /\ Elements(FlattenSeq(seqs)) = UNION {Elements(seqs[i]) : i \in 1 .. Len(seqs)}
  <1>1. CASE seqs = <<>>
    <2>1. FlattenSeq(seqs) = <<>> /\ Len(seqs) = 0 /\ 1 .. 0 = {}
      BY <1>1 DEF FlattenSeq
    <2> QED
      BY <2>1 DEF Distinct, Elements
  <1>2. CASE seqs # <<>>
    <2>1. PICK f : Flattens(seqs, f) /\ FlattenSeq(seqs) = f[Len(seqs)]
      BY <1>2, FlattenSteps
    <2> DEFINE N == Len(seqs)
               Good(m) == /\ f[m] \in Seq(S) /\ Distinct(f[m])
                          /\ Elements(f[m]) = UNION {Elements(seqs[i]) : i \in 1 .. m}
               T == {m \in Nat : m \in 1 .. N => Good(m)}
    <2>0. N \in Nat \ {0} /\ \A i \in 1 .. N : seqs[i] \in Seq(S)
      BY <1>2
    <2>2. 0 \in T
      OBVIOUS
    <2>3. ASSUME NEW m \in Nat, m \in T PROVE m + 1 \in T
      <3> SUFFICES ASSUME m + 1 \in 1 .. N PROVE Good(m + 1)
        OBVIOUS
      <3>1. CASE m = 0
        <4>1. f[1] = seqs[1]
          BY <2>0, <2>1 DEF Flattens
        <4>2. 1 .. 1 = {1} /\ 1 \in 1 .. N
          BY <2>0
        <4>3. Elements(seqs[1]) = UNION {Elements(seqs[i]) : i \in {1}}
          OBVIOUS
        <4> QED
          BY <2>0, <3>1, <4>1, <4>2, <4>3
      <3>2. CASE m # 0
        <4>1. m \in 1 .. N /\ Good(m)
          BY <2>3, <3>2
        <4>2. f[m + 1] = f[m] \o seqs[m + 1]
          <5>1. m + 1 # 1 /\ (m + 1) - 1 = m /\ m + 1 \in 1 .. Len(seqs)
            BY <3>2
          <5>2. f[m + 1] = IF m + 1 = 1 THEN seqs[m + 1] ELSE f[(m + 1) - 1] \o seqs[m + 1]
            BY <2>1, <5>1 DEF Flattens
          <5> QED
            BY <5>1, <5>2
        <4>3. \A i \in 1 .. m : i \in 1 .. N /\ i # m + 1
          OBVIOUS
        <4>4. Elements(f[m]) \cap Elements(seqs[m + 1]) = {}
          <5>1. \A i \in 1 .. m : Elements(seqs[i]) \cap Elements(seqs[m + 1]) = {}
            BY <4>3
          <5> QED
            BY <4>1, <5>1
        <4>5. f[m] \in Seq(S) /\ Distinct(f[m]) /\ seqs[m + 1] \in Seq(S) /\ Distinct(seqs[m + 1])
          BY <2>0, <4>1
        <4>6. /\ f[m + 1] \in Seq(S) /\ Distinct(f[m + 1])
              /\ Elements(f[m + 1]) = Elements(f[m]) \cup Elements(seqs[m + 1])
          BY <4>2, <4>4, <4>5, Concatenated
        <4>7. \A i : i \in 1 .. m + 1 <=> i \in 1 .. m \/ i = m + 1
          OBVIOUS
        <4>8. Elements(f[m + 1]) = UNION {Elements(seqs[i]) : i \in 1 .. m + 1}
          BY <4>1, <4>6, <4>7
        <4> QED
          BY <4>6, <4>8
      <3> HIDE DEF Good
      <3> QED
        BY <3>1, <3>2
    <2>4. N \in T
      <3> HIDE DEF T
      <3> QED
        BY <2>0, <2>2, <2>3, UpFromZero
    <2> QED
      BY <2>0, <2>1, <2>4
  <1> QED
    BY <1>1, <1>2

(***************************************************************************)
(* Bucket arrays: every key in the list it hashes to, once.                *)
(***************************************************************************)

InPlace(array) == \A i \in 1 .. Len(array) : \A j \in 1 .. Len(array[i]) : hash(array, array[i][j]) = i

Sound(array) ==
  /\ array \in Seq(Seq(Keys))
  /\ InPlace(array)
  /\ \A i \in 1 .. Len(array) : Distinct(array[i])

KeysOf(array) == UNION {Elements(array[i]) : i \in 1 .. Len(array)}

LEMMA HashRange ==
  ASSUME NEW array \in Seq(Seq(Keys)), array # <<>>, NEW key \in Keys
  PROVE  hash(array, key) \in 1 .. Len(array)
  <1>1. PICK n : n = Len(array)
    OBVIOUS
  <1>2. n \in Nat /\ n > 0
    BY <1>1
  <1>3. PICK x : x = hash_fun_a * key + hash_fun_b
    OBVIOUS
  <1>4. x \in Int
    BY <1>3, KeysAssumption, HashAssumption
  <1>5. x % hash_fun_p \in Int
    BY <1>4, HashAssumption
  <1>6. (x % hash_fun_p) % n \in 0 .. n - 1
    BY <1>2, <1>5
  <1>7. ((x % hash_fun_p) % n) + 1 \in 1 .. n
    BY <1>2, <1>6
  <1> QED
    BY <1>1, <1>3, <1>7 DEF hash

(* All of an array in one list, and where a key is.                        *)
LEMMA ForeachExact ==
  ASSUME NEW array, Sound(array)
  PROVE  /\ hm_atomic_foreach(array) \in Seq(Keys) /\ Distinct(hm_atomic_foreach(array))
         /\ Elements(hm_atomic_foreach(array)) = KeysOf(array)
         /\ KeysOf(array) \subseteq Keys
         /\ IsFiniteSet(KeysOf(array)) /\ Len(hm_atomic_foreach(array)) = Cardinality(KeysOf(array))
  <1>1. array \in Seq(Seq(Keys)) /\ \A i \in 1 .. Len(array) : Distinct(array[i])
    BY DEF Sound
  <1>2. ASSUME NEW i \in 1 .. Len(array), NEW j \in 1 .. Len(array), i # j
        PROVE  Elements(array[i]) \cap Elements(array[j]) = {}
    <2>1. ASSUME NEW k \in 1 .. Len(array), NEW x \in Elements(array[k]) PROVE hash(array, x) = k
      BY DEF Elements, Sound, InPlace
    <2> QED
      BY <1>2, <2>1
  <1>3. PICK q : q = FlattenSeq(array)
    OBVIOUS
  <1>4. q \in Seq(Keys) /\ Distinct(q) /\ Elements(q) = KeysOf(array)
    BY <1>1, <1>2, <1>3, FlattenExact DEF KeysOf
  <1>5. Elements(q) \subseteq Keys
    BY <1>4 DEF Elements
  <1>6. IsFiniteSet(Elements(q)) /\ Cardinality(Elements(q)) = Len(q)
    BY <1>4, ElementsCounted
  <1> QED
    BY <1>3, <1>4, <1>5, <1>6 DEF hm_atomic_foreach

LEMMA HoldsExact ==
  ASSUME NEW array, Sound(array), array # <<>>, NEW key \in Keys
  PROVE  /\ Holds(array, key) <=> key \in KeysOf(array)
         /\ hash(array, key) \in 1 .. Len(array)
         /\ key \in KeysOf(array) <=> key \in Elements(array[hash(array, key)])
  <1>1. array \in Seq(Seq(Keys))
    BY DEF Sound
  <1>2. PICK h : h = hash(array, key)
    OBVIOUS
  <1>3. h \in 1 .. Len(array)
    BY <1>1, <1>2, HashRange
  <1>4. Holds(array, key) <=> key \in Elements(array[h])
    BY <1>2 DEF Holds, Contains, Elements
  <1>5. ASSUME NEW i \in 1 .. Len(array), key \in Elements(array[i]) PROVE i = h
    BY <1>2, <1>5 DEF Sound, InPlace, Elements
  <1> QED
    BY <1>2, <1>3, <1>4, <1>5 DEF KeysOf

LEMMA CreatedSound ==
  ASSUME NEW len \in Nat \ {0}
  PROVE  Sound(create_buckets(len)) /\ KeysOf(create_buckets(len)) = {} /\ create_buckets(len) # <<>>
  <1>1. PICK array : array = create_buckets(len)
    OBVIOUS
  <1>2. array \in Seq(Seq(Keys)) /\ Len(array) = len /\ \A i \in 1 .. len : array[i] = <<>>
    <2>1. <<>> \in Seq(Keys)
      OBVIOUS
    <2>2. array \in [1 .. len -> Seq(Keys)]
      BY <1>1, <2>1 DEF create_buckets
    <2> QED
      BY <1>1, <2>2 DEF create_buckets
  <1>3. \A i \in 1 .. len : Len(array[i]) = 0 /\ 1 .. 0 = {}
    BY <1>2
  <1>4. InPlace(array) /\ \A i \in 1 .. len : Distinct(array[i]) /\ Elements(array[i]) = {}
    BY <1>2, <1>3 DEF InPlace, Distinct, Elements
  <1>5. array # <<>>
    BY <1>2
  <1> QED
    BY <1>1, <1>2, <1>4, <1>5 DEF Sound, KeysOf

(* Another list for one bucket.                                            *)
Replaced(array, h, list, new) == new = [array EXCEPT ![h] = list]

LEMMA ListChanged ==
  ASSUME NEW array, Sound(array), NEW h \in 1 .. Len(array), NEW list \in Seq(Keys), Distinct(list),
         \A x \in Elements(list) : hash(array, x) = h,
         NEW new, Replaced(array, h, list, new)
  PROVE  /\ Sound(new) /\ Len(new) = Len(array)
         /\ KeysOf(new) = (KeysOf(array) \ Elements(array[h])) \cup Elements(list)
  <1>1. array \in Seq(Seq(Keys)) /\ InPlace(array) /\ \A i \in 1 .. Len(array) : Distinct(array[i])
    BY DEF Sound
  <1>2. /\ new \in Seq(Seq(Keys)) /\ Len(new) = Len(array) /\ new[h] = list
        /\ \A i \in 1 .. Len(array) : i # h => new[i] = array[i]
    BY <1>1 DEF Replaced
  <1>3. \A x : hash(new, x) = hash(array, x)
    BY <1>2 DEF hash
  <1>4. \A i \in 1 .. Len(array) : \A x \in Elements(array[i]) : hash(array, x) = i
    BY <1>1 DEF InPlace, Elements
  <1>5. \A i \in 1 .. Len(array) : \A x \in Elements(new[i]) : hash(new, x) = i
    BY <1>2, <1>3, <1>4
  <1>6. InPlace(new)
    <2>1. ASSUME NEW i \in 1 .. Len(new), NEW j \in 1 .. Len(new[i]) PROVE hash(new, new[i][j]) = i
      <3>1. new[i][j] \in Elements(new[i])
        BY DEF Elements
      <3> QED
        BY <1>2, <1>5, <3>1
    <2> QED
      BY <2>1 DEF InPlace
  <1>7. \A i \in 1 .. Len(array) : Distinct(new[i])
    BY <1>1, <1>2
  <1>8. ASSUME NEW x PROVE x \in KeysOf(new) <=> (x \in KeysOf(array) /\ x \notin Elements(array[h])) \/ x \in Elements(list)
    <2>1. x \in KeysOf(new) <=> \E i \in 1 .. Len(array) : x \in Elements(new[i])
      BY <1>2 DEF KeysOf
    <2>2. x \in KeysOf(array) <=> \E i \in 1 .. Len(array) : x \in Elements(array[i])
      BY DEF KeysOf
    <2>3. \A i \in 1 .. Len(array) : i # h /\ x \in Elements(array[i]) => x \notin Elements(array[h])
      BY <1>4
    <2> QED
      BY <1>2, <2>1, <2>2, <2>3
  <1> QED
    BY <1>2, <1>6, <1>7, <1>8 DEF Sound

LEMMA KeyAdded ==
  ASSUME NEW array, Sound(array), array # <<>>, NEW key \in Keys, key \notin KeysOf(array), NEW new,
         new = [array EXCEPT ![hash(array, key)] = <<key>> \o @]
  PROVE  Sound(new) /\ new # <<>> /\ KeysOf(new) = KeysOf(array) \cup {key} /\ Len(new) = Len(array)
  <1>0. Sound(array)
    OBVIOUS
  <1>1. PICK h, old, list : h = hash(array, key) /\ old = array[h] /\ list = <<key>> \o old
    OBVIOUS
  <1>2. h \in 1 .. Len(array) /\ key \notin Elements(old)
    BY <1>1, HoldsExact
  <1>3. old \in Seq(Keys) /\ Distinct(old) /\ \A x \in Elements(old) : hash(array, x) = h
    BY <1>1, <1>2 DEF Sound, InPlace, Elements
  <1>4. <<key>> \in Seq(Keys) /\ Distinct(<<key>>) /\ Elements(<<key>>) = {key}
    <2>1. <<key>> \in Seq(Keys) /\ Len(<<key>>) = 1 /\ 1 .. 1 = {1} /\ <<key>>[1] = key
      OBVIOUS
    <2> QED
      BY <2>1 DEF Distinct, Elements
  <1>5. list \in Seq(Keys) /\ Distinct(list) /\ Elements(list) = {key} \cup Elements(old)
    <2>1. PICK e : e = <<key>>
      OBVIOUS
    <2>2. e \in Seq(Keys) /\ Distinct(e) /\ Elements(e) = {key} /\ Elements(e) \cap Elements(old) = {} /\ list = e \o old
      BY <1>1, <1>2, <1>4, <2>1
    <2> QED
      BY <1>3, <2>2, Concatenated
  <1>6. Replaced(array, h, list, new)
    BY <1>1 DEF Replaced
  <1>7. \A x \in Elements(list) : hash(array, x) = h
    BY <1>1, <1>3, <1>5
  <1>8. Sound(new) /\ Len(new) = Len(array) /\ KeysOf(new) = (KeysOf(array) \ Elements(old)) \cup Elements(list)
    <2>a. h \in 1 .. Len(array)
      BY <1>2
    <2>b. list \in Seq(Keys) /\ Distinct(list)
      BY <1>5
    <2>1. Sound(new) /\ Len(new) = Len(array) /\ KeysOf(new) = (KeysOf(array) \ Elements(array[h])) \cup Elements(list)
      BY ONLY <1>0, <2>a, <2>b, <1>6, <1>7, ListChanged
    <2> QED
      BY <1>1, <2>1
  <1>9. Elements(old) \subseteq KeysOf(array)
    BY <1>1, <1>2 DEF KeysOf
  <1>10. new # <<>>
    <2>1. array \in Seq(Seq(Keys)) /\ Len(array) # 0
      BY <1>2 DEF Sound
    <2> QED
      BY <1>8, <2>1
  <1> QED
    BY <1>5, <1>8, <1>9, <1>10

LEMMA KeyTaken ==
  ASSUME NEW array, Sound(array), array # <<>>, NEW h \in 1 .. Len(array), NEW list, list \in Seq(Keys), Distinct(list),
         NEW key, key \in Elements(array[h]), Elements(list) = Elements(array[h]) \ {key},
         NEW new, Replaced(array, h, list, new)
  PROVE  Sound(new) /\ new # <<>> /\ KeysOf(new) = KeysOf(array) \ {key} /\ key \in KeysOf(array)
  <1>1. PICK old : old = array[h]
    OBVIOUS
  <1>2. \A x \in Elements(old) : hash(array, x) = h
    BY <1>1 DEF Sound, InPlace, Elements
  <1>3. Sound(new) /\ Len(new) = Len(array) /\ KeysOf(new) = (KeysOf(array) \ Elements(old)) \cup Elements(list)
    <2>1. \A x \in Elements(list) : hash(array, x) = h
      BY <1>1, <1>2
    <2>2. Sound(new) /\ Len(new) = Len(array) /\ KeysOf(new) = (KeysOf(array) \ Elements(array[h])) \cup Elements(list)
      BY <2>1, ListChanged
    <2> QED
      BY <1>1, <2>2
  <1>4. Elements(old) \subseteq KeysOf(array)
    BY <1>1 DEF KeysOf
  <1>5. new # <<>>
    <2>1. array \in Seq(Seq(Keys)) /\ Len(array) # 0
      BY DEF Sound
    <2> QED
      BY <1>3, <2>1
  <1> QED
    BY <1>1, <1>3, <1>4, <1>5

(***************************************************************************)
(* The inductive invariant.  Everything that is stored is in the two       *)
(* arrays, nothing in both; the step that comes next tells which arrays    *)
(* there are, and how the number of entries relates to what is stored.     *)
(***************************************************************************)

Stored == KeysOf(heap[1]) \cup KeysOf(heap[2])

Arrays ==
  /\ heap \in [Addresses -> Seq(Seq(Keys))]
  /\ \A a \in Addresses : Sound(heap[a])
  /\ KeysOf(heap[1]) \cap KeysOf(heap[2]) = {}

Only(a) == a \in Addresses /\ \A b \in Addresses : heap[b] # <<>> <=> b = a

One         == Only(buckets) /\ buckets_tmp = 0
Moving      == buckets \in Addresses /\ buckets_tmp \in Addresses \ {buckets} /\ \A a \in Addresses : heap[a] # <<>>
Unpublished == Only(buckets_tmp) /\ buckets = 0
Published   == Only(buckets) /\ buckets_tmp = buckets

Phase ==
  /\ pc \in {"idle", "list", "count", "clean", "alloc", "recount", "move", "publish", "forget", "down"}
  /\ pc \in {"idle", "list", "count", "clean", "alloc", "recount"} => One
  /\ pc = "move"    => Moving
  /\ pc = "publish" => Unpublished
  /\ pc = "forget"  => Published
  /\ pc = "down"    => One \/ Moving \/ Unpublished \/ Published

Operation ==
  /\ arg \in [op : {"none", "insert", "remove", "rebuild", "recover"}, key : Nat, len : Nat]
  /\ pc \in {"list", "count"} => arg.op \in {"insert", "remove"} /\ arg.key \in Keys /\ count_dirty
  /\ pc = "list"  => (arg.key \in Stored <=> arg.op = "remove")
  /\ pc = "alloc" => arg.op # "recover"

Total == Cardinality(Stored)

Numbers ==
  /\ count \in Int /\ count_dirty \in BOOLEAN
  /\ ~count_dirty => count = Total
  /\ pc \in {"idle", "list", "clean", "alloc"} => count = Total
  /\ pc \in {"move", "publish", "forget"} /\ arg.op # "recover" => count = Total
  /\ pc = "count" => count = IF arg.op = "insert" THEN Total - 1 ELSE Total + 1

HashInv == Arrays /\ Phase /\ Operation /\ Numbers

LEMMA NothingStored == Sound(<<>>) /\ KeysOf(<<>>) = {}
  <1>1. <<>> \in Seq(Seq(Keys)) /\ Len(<<>>) = 0 /\ 1 .. 0 = {}
    OBVIOUS
  <1> QED
    BY <1>1 DEF Sound, InPlace, KeysOf

LEMMA Counted ==
  ASSUME Arrays
  PROVE  IsFiniteSet(Stored) /\ Total \in Nat /\ Stored \subseteq Keys
  <1>1. 1 \in Addresses /\ 2 \in Addresses
    BY DEF Addresses
  <1>2. /\ IsFiniteSet(KeysOf(heap[1])) /\ KeysOf(heap[1]) \subseteq Keys
        /\ IsFiniteSet(KeysOf(heap[2])) /\ KeysOf(heap[2]) \subseteq Keys
    BY <1>1, ForeachExact DEF Arrays
  <1>3. IsFiniteSet(Stored)
    BY <1>2, FS_Union DEF Stored
  <1> QED
    BY <1>2, <1>3, FS_CardinalityType DEF Stored, Total

(* What is stored, when only one array is left.                            *)
LEMMA StoredInOne ==
  ASSUME Arrays, NEW a, Only(a)
  PROVE  /\ a \in Addresses /\ heap[a] \in Seq(Seq(Keys)) /\ Sound(heap[a]) /\ heap[a] # <<>>
         /\ Stored = KeysOf(heap[a])
         /\ \A b \in Addresses : b # a => heap[b] = <<>>
  <1>1. a \in Addresses /\ heap[a] # <<>> /\ \A b \in Addresses : b # a => heap[b] = <<>>
    BY DEF Only
  <1>2. Addresses = {1, 2}
    BY DEF Addresses
  <1>3. Stored = KeysOf(heap[a])
    <2>1. CASE a = 1
      BY <1>1, <1>2, <2>1, NothingStored DEF Stored
    <2>2. CASE a = 2
      BY <1>1, <1>2, <2>2, NothingStored DEF Stored
    <2> QED
      BY <1>1, <1>2, <2>1, <2>2
  <1> QED
    BY <1>1, <1>3 DEF Arrays

LEMMA EntriesExact ==
  ASSUME Arrays
  PROVE  Entries \in Seq(Keys) /\ IsInjective(Entries) /\ Len(Entries) = Total
  <1>1. Addresses = {1, 2} /\ 1 .. 2 = {1, 2}
    BY DEF Addresses
  <1>2. \A a \in {1, 2} : /\ hm_atomic_foreach(heap[a]) \in Seq(Keys) /\ Distinct(hm_atomic_foreach(heap[a]))
                          /\ Elements(hm_atomic_foreach(heap[a])) = KeysOf(heap[a])
    BY <1>1, ForeachExact DEF Arrays
  <1>3. PICK lists : lists = [a \in {1, 2} |-> hm_atomic_foreach(heap[a])]
    OBVIOUS
  <1>4. /\ lists \in Seq(Seq(Keys)) /\ Len(lists) = 2
        /\ \A a \in {1, 2} : Distinct(lists[a]) /\ Elements(lists[a]) = KeysOf(heap[a])
    <2>1. lists \in [1 .. 2 -> Seq(Keys)]
      BY <1>1, <1>2, <1>3
    <2>2. lists \in Seq(Seq(Keys)) /\ Len(lists) = 2
      BY <2>1
    <2>3. \A a \in {1, 2} : lists[a] = hm_atomic_foreach(heap[a])
      BY <1>3
    <2> QED
      BY <1>2, <2>2, <2>3
  <1>5. Elements(lists[1]) \cap Elements(lists[2]) = {}
    BY <1>4 DEF Arrays
  <1>6. \A i \in 1 .. Len(lists) : Distinct(lists[i])
    BY <1>1, <1>4
  <1>7. \A i, j \in 1 .. Len(lists) : i # j => Elements(lists[i]) \cap Elements(lists[j]) = {}
    <2>1. \A i, j \in {1, 2} : i # j => Elements(lists[i]) \cap Elements(lists[j]) = {}
      BY <1>5
    <2> QED
      BY <1>1, <1>4, <2>1
  <1>8. PICK q : q = FlattenSeq(lists)
    OBVIOUS
  <1>9. /\ q \in Seq(Keys) /\ Distinct(q)
        /\ Elements(q) = UNION {Elements(lists[i]) : i \in 1 .. Len(lists)}
    BY <1>4, <1>6, <1>7, <1>8, FlattenExact
  <1>10. Elements(q) = Stored
    <2>1. UNION {Elements(lists[i]) : i \in {1, 2}} = Elements(lists[1]) \cup Elements(lists[2])
      OBVIOUS
    <2> QED
      BY <1>1, <1>4, <1>9, <2>1 DEF Stored
  <1>11. Len(q) = Total
    BY <1>9, <1>10, ElementsCounted DEF Total
  <1>12. Entries = q
    BY <1>1, <1>3, <1>8 DEF Entries
  <1> QED
    BY <1>9, <1>11, <1>12, DistinctInjective

(* The invariant gives what is checked.                                    *)
LEMMA HashInvExact == HashInv => HashExact
  <1> SUFFICES ASSUME HashInv PROVE HashExact
    OBVIOUS
  <1>1. IsInjective(Entries) /\ Len(Entries) = Total
    BY EntriesExact DEF HashInv
  <1>2. CountExact
    BY <1>1 DEF CountExact, hm_atomic_count, HashInv, Numbers
  <1>3. ASSUME pc = "idle" PROVE HashShape
    <2>1. One
      BY <1>3 DEF HashInv, Phase
    <2>2. Sound(heap[buckets]) /\ heap[buckets] \in Seq(Seq(Keys))
      BY <2>1, StoredInOne DEF One, HashInv
    <2>3. /\ buckets_tmp = 0
          /\ \A a \in Addresses : heap[a] # <<>> <=> a = buckets
      BY <2>1 DEF One, Only
    <2>4. ASSUME NEW i \in DOMAIN heap[buckets], NEW j \in DOMAIN heap[buckets][i]
          PROVE  hash(heap[buckets], heap[buckets][i][j]) = i
      <3>1. i \in 1 .. Len(heap[buckets]) /\ heap[buckets][i] \in Seq(Keys)
        BY <2>2
      <3>2. j \in 1 .. Len(heap[buckets][i])
        BY <3>1
      <3> QED
        BY <2>2, <3>1, <3>2 DEF Sound, InPlace
    <2> QED
      BY <1>1, <2>3, <2>4 DEF HashShape
  <1>4. HashShape
    BY <1>3 DEF HashShape
  <1> QED
    BY <1>2, <1>4 DEF HashExact

LEMMA HashInvInit == HashInit => HashInv
  <1> SUFFICES ASSUME HashInit PROVE HashInv
    OBVIOUS
  <1>1. PICK new : new = create_buckets(INIT_BUCKETS_NUM)
    OBVIOUS
  <1>2. Sound(new) /\ KeysOf(new) = {} /\ new # <<>>
    BY <1>1, BucketsAssumption, CreatedSound
  <1>3. Addresses = {1, 2}
    BY DEF Addresses
  <1>4. heap = [a \in Addresses |-> IF a = 1 THEN new ELSE <<>>]
    BY <1>1 DEF HashInit
  <1>5. heap[1] = new /\ heap[2] = <<>>
    BY <1>3, <1>4
  <1>6. Arrays
    BY <1>2, <1>3, <1>4, <1>5, NothingStored DEF Arrays, Sound
  <1>7. Total = 0
    BY <1>2, <1>5, NothingStored, FS_EmptySet DEF Total, Stored
  <1>8. Only(1)
    BY <1>2, <1>3, <1>5 DEF Only
  <1>9. Phase
    BY <1>8 DEF HashInit, Phase, One
  <1>10. Operation
    BY DEF HashInit, Operation, None
  <1>11. Numbers
    <2>1. count = 0 /\ count_dirty = FALSE /\ pc = "idle"
      BY DEF HashInit
    <2>2. count \in Int /\ count = Total
      BY <1>7, <2>1
    <2>3. count_dirty \in BOOLEAN
      BY <2>1
    <2>4. pc # "count"
      BY <2>1
    <2> QED
      BY <2>2, <2>3, <2>4 DEF Numbers
  <1> QED
    BY <1>6, <1>9, <1>10, <1>11 DEF HashInv

(* A step that leaves the arrays alone.                                    *)
LEMMA Still ==
  ASSUME Arrays, heap' = heap
  PROVE  Arrays' /\ Stored' = Stored /\ Total' = Total
  <1>1. Stored' = Stored
    BY DEF Stored
  <1> QED
    BY <1>1 DEF Arrays, Total

(* The steps that leave the arrays alone, one lemma each.                  *)
LEMMA StartInv ==
  ASSUME HashInv, NEW key \in Keys, hm_atomic_insert(key) \/ hm_atomic_remove(key)
  PROVE  HashInv'
  <1>1. /\ pc = "idle" /\ pc' = "list" /\ count_dirty' = TRUE
        /\ UNCHANGED <<count, heap, buckets, buckets_tmp>>
    BY DEF hm_atomic_insert, hm_atomic_remove
  <1>2. PICK op \in {"insert", "remove"} :
            /\ arg' = [op |-> op, key |-> key, len |-> 0]
            /\ Holds(heap[buckets], key) <=> op = "remove"
    BY DEF hm_atomic_insert, hm_atomic_remove
  <1>3. Only(buckets) /\ buckets_tmp = 0
    BY <1>1 DEF HashInv, Phase, One
  <1>4. Arrays' /\ Stored' = Stored /\ Total' = Total
    BY <1>1, Still DEF HashInv
  <1>5. Holds(heap[buckets], key) <=> key \in Stored
    <2>1. Sound(heap[buckets]) /\ heap[buckets] # <<>> /\ Stored = KeysOf(heap[buckets])
      BY <1>3, StoredInOne DEF HashInv
    <2> QED
      BY <2>1, HoldsExact
  <1>6. Phase'
    BY <1>1, <1>3 DEF Phase, One, Only
  <1>7. Operation'
    <2>1. arg'.op = op /\ arg'.key = key /\ key \in Nat
      BY <1>2, KeysAssumption
    <2> QED
      BY <1>1, <1>2, <1>4, <1>5, <2>1 DEF Operation
  <1>8. count \in Int /\ count = Total
    BY <1>1 DEF HashInv, Numbers
  <1>9. Numbers'
    BY <1>1, <1>4, <1>8 DEF Numbers
  <1> QED
    BY <1>4, <1>6, <1>7, <1>9 DEF HashInv

LEMMA CmdInv ==
  ASSUME HashInv, NEW len \in Nat, hm_atomic_cmd(len)
  PROVE  HashInv'
  <1>1. /\ pc = "idle" /\ pc' = "alloc" /\ arg' = [op |-> "rebuild", key |-> 0, len |-> len]
        /\ UNCHANGED <<count, count_dirty, heap, buckets, buckets_tmp>>
    BY DEF hm_atomic_cmd
  <1>2. Arrays' /\ Stored' = Stored /\ Total' = Total
    BY <1>1, Still DEF HashInv
  <1>3. Phase'
    BY <1>1 DEF HashInv, Phase, One, Only
  <1>4. Operation'
    BY <1>1 DEF Operation
  <1>5. count \in Int /\ count_dirty \in BOOLEAN /\ count = Total
    BY <1>1 DEF HashInv, Numbers
  <1>6. Numbers'
    BY <1>1, <1>2, <1>5 DEF Numbers
  <1> QED
    BY <1>2, <1>3, <1>4, <1>6 DEF HashInv

(* The operation ends where the number is right again or still in doubt.   *)
LEMMA NoSpaceInv ==
  ASSUME HashInv, NoSpaceForEntry \/ NoSpaceForBuckets
  PROVE  HashInv'
  <1>1. /\ pc \in {"list", "alloc"} /\ pc' = "idle" /\ arg' = None
        /\ UNCHANGED <<count, count_dirty, heap, buckets, buckets_tmp>>
    BY DEF NoSpaceForEntry, NoSpaceForBuckets
  <1>2. Arrays' /\ Stored' = Stored /\ Total' = Total
    BY <1>1, Still DEF HashInv
  <1>3. Phase'
    BY <1>1 DEF HashInv, Phase, One, Only
  <1>4. Operation'
    BY <1>1 DEF Operation, None
  <1>5. count \in Int /\ count_dirty \in BOOLEAN /\ count = Total
    BY <1>1 DEF HashInv, Numbers
  <1>6. Numbers'
    BY <1>1, <1>2, <1>5 DEF Numbers
  <1> QED
    BY <1>2, <1>3, <1>4, <1>6 DEF HashInv

LEMMA UpdateCountInv ==
  ASSUME HashInv, UpdateCount
  PROVE  HashInv'
  <1>1. /\ pc = "count" /\ pc' = "clean"
        /\ count' = IF arg.op = "insert" THEN count + 1 ELSE count - 1
        /\ UNCHANGED <<count_dirty, heap, buckets, buckets_tmp, arg>>
    BY DEF UpdateCount
  <1>2. Arrays' /\ Stored' = Stored /\ Total' = Total
    BY <1>1, Still DEF HashInv
  <1>3. Phase'
    BY <1>1 DEF HashInv, Phase, One, Only
  <1>4. Operation' /\ count_dirty
    BY <1>1 DEF HashInv, Operation
  <1>5. count' = Total /\ Total \in Nat
    BY <1>1, Counted DEF HashInv, Numbers
  <1>6. Numbers'
    BY <1>1, <1>2, <1>4, <1>5 DEF HashInv, Numbers
  <1> QED
    BY <1>2, <1>3, <1>4, <1>6 DEF HashInv

LEMMA CleanInv ==
  ASSUME HashInv, Clean
  PROVE  HashInv'
  <1>1. pc = "clean" /\ count_dirty' = FALSE /\ UNCHANGED <<count, heap, buckets, buckets_tmp>>
    BY DEF Clean
  <1>2. Arrays' /\ Stored' = Stored /\ Total' = Total
    BY <1>1, Still DEF HashInv
  <1>3. One /\ count \in Int /\ count = Total
    BY <1>1 DEF HashInv, Phase, Numbers
  <1>4. pc' \in {"idle", "alloc"}
    BY DEF Clean
  <1>5. Phase'
    BY <1>1, <1>3, <1>4 DEF Phase, One, Only
  <1>6. Numbers'
    BY <1>1, <1>2, <1>3, <1>4 DEF Numbers
  <1>7. Operation'
    <2>1. CASE pc' = "idle" /\ arg' = None
      BY <2>1 DEF Operation, None
    <2>2. CASE Rehash >= 0 /\ pc' = "alloc" /\ arg' = [arg EXCEPT !.len = Rehash]
      <3>1. Len(heap[buckets]) \in Nat
        BY <1>3, StoredInOne DEF HashInv, One
      <3>2. PICK n : n = Len(heap[buckets])
        OBVIOUS
      <3>3. Rehash \in {2 * n, n \div 2, -1} /\ (arg.op \notin {"insert", "remove"} => Rehash = -1)
        BY <3>2 DEF Rehash
      <3>4. Rehash \in Nat /\ arg.op \in {"insert", "remove"}
        <4>1. 2 * n \in Nat /\ n \div 2 \in Nat /\ ~(-1 >= 0)
          <5>1. n \in Nat
            BY <3>1, <3>2
          <5>2. n \div 2 \in Nat
            BY <5>1
          <5> QED
            BY <5>1, <5>2
        <4>2. Rehash # -1
          BY <2>2, <4>1
        <4> QED
          BY <3>3, <4>1, <4>2
      <3>5. arg \in [op : {"none", "insert", "remove", "rebuild", "recover"}, key : Nat, len : Nat]
        BY DEF HashInv, Operation
      <3>6. /\ arg' \in [op : {"none", "insert", "remove", "rebuild", "recover"}, key : Nat, len : Nat]
            /\ arg'.op = arg.op
        BY <2>2, <3>4, <3>5
      <3> QED
        BY <2>2, <3>4, <3>6 DEF Operation
    <2> QED
      BY <2>1, <2>2 DEF Clean
  <1> QED
    BY <1>2, <1>5, <1>6, <1>7 DEF HashInv

LEMMA PublishInv ==
  ASSUME HashInv, Publish
  PROVE  HashInv'
  <1>1. /\ pc = "publish" /\ pc' = "forget" /\ buckets' = buckets_tmp
        /\ UNCHANGED <<count, count_dirty, heap, buckets_tmp, arg>>
    BY DEF Publish
  <1>2. Arrays' /\ Stored' = Stored /\ Total' = Total
    BY <1>1, Still DEF HashInv
  <1>3. Phase'
    BY <1>1 DEF HashInv, Phase, Unpublished, Published, Only
  <1>4. Operation'
    BY <1>1 DEF HashInv, Operation
  <1>5. Numbers'
    BY <1>1, <1>2 DEF HashInv, Numbers
  <1> QED
    BY <1>2, <1>3, <1>4, <1>5 DEF HashInv

LEMMA ForgetInv ==
  ASSUME HashInv, Forget
  PROVE  HashInv'
  <1>1. pc = "forget" /\ buckets_tmp' = 0 /\ UNCHANGED <<count, count_dirty, heap, buckets>>
    BY DEF Forget
  <1>2. Arrays' /\ Stored' = Stored /\ Total' = Total
    BY <1>1, Still DEF HashInv
  <1>3. pc' \in {"recount", "idle"} /\ (pc' = "idle" => arg.op # "recover")
    BY DEF Forget
  <1>4. Phase'
    BY <1>1, <1>3 DEF HashInv, Phase, One, Published, Only
  <1>5. Operation'
    BY <1>3 DEF HashInv, Operation, None, Forget
  <1>6. Numbers'
    BY <1>1, <1>2, <1>3 DEF HashInv, Numbers
  <1> QED
    BY <1>2, <1>4, <1>5, <1>6 DEF HashInv

LEMMA HashCrashInv ==
  ASSUME HashInv, HashCrash
  PROVE  HashInv'
  <1>1. pc' = "down" /\ arg' = None /\ UNCHANGED <<count, count_dirty, heap, buckets, buckets_tmp>>
    BY DEF HashCrash
  <1>2. Arrays' /\ Stored' = Stored /\ Total' = Total
    BY <1>1, Still DEF HashInv
  <1>3. Phase'
    BY <1>1 DEF HashInv, Phase, One, Moving, Unpublished, Published, Only
  <1>4. Operation'
    BY <1>1 DEF Operation, None
  <1>5. Numbers'
    BY <1>1, <1>2 DEF HashInv, Numbers
  <1> QED
    BY <1>2, <1>3, <1>4, <1>5 DEF HashInv

LEMMA RecoveryInv ==
  ASSUME HashInv, hm_atomic_init
  PROVE  HashInv'
  <1>1. /\ pc = "down" /\ arg' = [None EXCEPT !.op = "recover"]
        /\ UNCHANGED <<count, count_dirty, heap, buckets, buckets_tmp>>
    BY DEF hm_atomic_init
  <1>2. Arrays' /\ Stored' = Stored /\ Total' = Total
    BY <1>1, Still DEF HashInv
  <1>3. arg' = [op |-> "recover", key |-> 0, len |-> 0]
    BY <1>1 DEF None
  <1>4. pc' = CASE buckets_tmp = 0       -> "recount"
                [] buckets_tmp = buckets -> "forget"
                [] buckets = 0           -> "publish"
                [] OTHER                 -> "move"
    BY DEF hm_atomic_init
  <1>5. Addresses = {1, 2}
    BY DEF Addresses
  <1>6. \/ pc' = "recount" /\ One
        \/ pc' = "forget" /\ Published
        \/ pc' = "publish" /\ Unpublished
        \/ pc' = "move" /\ Moving
    <2>1. CASE One
      BY <1>4, <1>5, <2>1 DEF One, Only
    <2>2. CASE Published
      BY <1>4, <1>5, <2>2 DEF Published, Only
    <2>3. CASE Unpublished
      BY <1>4, <1>5, <2>3 DEF Unpublished, Only
    <2>4. CASE Moving
      BY <1>4, <1>5, <2>4 DEF Moving
    <2>5. One \/ Moving \/ Unpublished \/ Published
      BY <1>1 DEF HashInv, Phase
    <2> QED
      BY <2>1, <2>2, <2>3, <2>4, <2>5
  <1>7. Phase'
    BY <1>1, <1>6 DEF Phase, One, Moving, Unpublished, Published, Only
  <1>8. pc' \in {"recount", "forget", "publish", "move"}
    BY <1>6
  <1>9. Operation'
    BY <1>3, <1>8 DEF Operation
  <1>10. Numbers'
    BY <1>1, <1>2, <1>3, <1>8 DEF HashInv, Numbers
  <1> QED
    BY <1>2, <1>7, <1>9, <1>10 DEF HashInv

LEMMA RecountInv ==
  ASSUME HashInv, Recount
  PROVE  HashInv'
  <1>1. pc = "recount" /\ UNCHANGED <<count_dirty, heap, buckets, buckets_tmp>>
    BY DEF Recount
  <1>2. Arrays' /\ Stored' = Stored /\ Total' = Total
    BY <1>1, Still DEF HashInv
  <1>3. One
    BY <1>1 DEF HashInv, Phase
  <1>4. Len(hm_atomic_foreach(heap[buckets])) = Total /\ Total \in Nat
    <2>1. Sound(heap[buckets]) /\ Stored = KeysOf(heap[buckets])
      BY <1>3, StoredInOne DEF HashInv, One
    <2> QED
      BY <2>1, ForeachExact, Counted DEF HashInv, Total
  <1>5. pc' \in {"clean", "idle"} /\ count' = Total
    BY <1>4 DEF HashInv, Numbers, Recount
  <1>6. Phase'
    BY <1>1, <1>3, <1>5 DEF Phase, One, Only
  <1>7. Operation'
    BY <1>5 DEF HashInv, Operation, None, Recount
  <1>8. Numbers'
    BY <1>1, <1>2, <1>4, <1>5 DEF HashInv, Numbers
  <1> QED
    BY <1>2, <1>6, <1>7, <1>8 DEF HashInv

(***************************************************************************)
(* The steps that change an array.                                         *)
(***************************************************************************)

(* Another array at one address, apart from what the other address holds.  *)
LEMMA ArrayChanged ==
  ASSUME Arrays, NEW a \in Addresses, NEW b \in Addresses, a # b, NEW new, Sound(new),
         KeysOf(new) \cap KeysOf(heap[b]) = {}, heap' = [heap EXCEPT ![a] = new]
  PROVE  Arrays' /\ heap'[a] = new /\ heap'[b] = heap[b] /\ Stored' = KeysOf(new) \cup KeysOf(heap[b])
  <1>1. Addresses = {1, 2}
    BY DEF Addresses
  <1>2. heap'[a] = new /\ heap'[b] = heap[b] /\ DOMAIN heap' = Addresses
    BY DEF Arrays
  <1>3. new \in Seq(Seq(Keys)) /\ heap' \in [Addresses -> Seq(Seq(Keys))]
    BY DEF Arrays, Sound
  <1>4. {a, b} = {1, 2}
    BY <1>1
  <1>5. \A x \in Addresses : Sound(heap'[x])
    BY <1>1, <1>2, <1>4 DEF Arrays
  <1>6. CASE a = 1 /\ b = 2
    BY <1>2, <1>3, <1>5, <1>6 DEF Arrays, Stored
  <1>7. CASE a = 2 /\ b = 1
    BY <1>2, <1>3, <1>5, <1>7 DEF Arrays, Stored
  <1> QED
    BY <1>4, <1>6, <1>7

(* The first place of a key in a list, and the first list that is not empty. *)
LEMMA FirstPlace ==
  ASSUME NEW n \in Nat, NEW P, \E j \in 1 .. n : j \in P
  PROVE  \E j \in 1 .. n : j \in P /\ \A k \in 1 .. j - 1 : k \notin P
  <1>1. PICK j \in P \cap (1 .. n) : \A m \in P \cap (1 .. n) : j <= m
    <2>1. P \cap (1 .. n) \subseteq Nat /\ P \cap (1 .. n) # {}
      OBVIOUS
    <2> QED
      BY <2>1, LeastElement
  <1>2. \A k \in 1 .. j - 1 : k \in 1 .. n /\ ~(j <= k)
    BY <1>1
  <1> QED
    BY <1>1, <1>2

LEMMA UpdateListInv ==
  ASSUME HashInv, UpdateList
  PROVE  HashInv'
  <1>1. /\ pc = "list" /\ pc' = "count"
        /\ UNCHANGED <<count, count_dirty, buckets, buckets_tmp, arg>>
    BY DEF UpdateList
  <1>a. PICK array : array = heap[buckets]
    OBVIOUS
  <1>b. PICK key : key = arg.key
    OBVIOUS
  <1>c. PICK h : h = hash(array, key)
    OBVIOUS
  <1>d. PICK old : old = array[h]
    OBVIOUS
  <1>e. PICK p : p = CHOOSE j \in DOMAIN old : old[j] = key /\ \A k \in 1..(j - 1) : old[k] # key
    OBVIOUS
  <1>f. PICK list : list = IF arg.op = "insert" THEN <<key>> \o old ELSE RemoveAt(old, p)
    OBVIOUS
  <1>2. array = heap[buckets] /\ key = arg.key /\ h = hash(array, key)
    BY <1>a, <1>b, <1>c
  <1>3. One /\ Only(buckets)
    BY <1>1 DEF HashInv, Phase, One
  <1>4. /\ buckets \in Addresses /\ array \in Seq(Seq(Keys)) /\ Sound(array) /\ array # <<>> /\ Stored = KeysOf(array)
        /\ \A b \in Addresses : b # buckets => heap[b] = <<>>
    BY <1>2, <1>3, StoredInOne DEF HashInv
  <1>5. key \in Keys /\ arg.op \in {"insert", "remove"} /\ (key \in Stored <=> arg.op = "remove") /\ count_dirty
    BY <1>1, <1>2 DEF HashInv, Operation
  <1>6. h \in 1 .. Len(array) /\ (key \in KeysOf(array) <=> key \in Elements(array[h]))
    BY <1>2, <1>4, <1>5, HoldsExact
  <1>7. PICK new : new = [array EXCEPT ![h] = list]
    OBVIOUS
  <1>8. heap' = [heap EXCEPT ![buckets] = new]
    BY <1>2, <1>7, <1>d, <1>e, <1>f DEF UpdateList
  <1>9. count \in Int /\ count = Total /\ Total \in Nat /\ IsFiniteSet(Stored)
    BY <1>1, Counted DEF HashInv, Numbers
  <1>10. /\ Sound(new) /\ new # <<>>
         /\ KeysOf(new) = IF arg.op = "insert" THEN Stored \cup {key} ELSE Stored \ {key}
    <2>1. CASE arg.op = "insert"
      <3>1. list = <<key>> \o array[h]
        BY <1>d, <1>f, <2>1
      <3>2. new = [array EXCEPT ![hash(array, key)] = <<key>> \o @]
        BY <1>2, <1>7, <3>1
      <3>3. key \notin KeysOf(array)
        BY <1>4, <1>5, <2>1
      <3> QED
        BY <1>4, <1>5, <2>1, <3>2, <3>3, KeyAdded
    <2>2. CASE arg.op = "remove"
      <3>2. old \in Seq(Keys) /\ Distinct(old) /\ DOMAIN old = 1 .. Len(old) /\ key \in Elements(old)
        BY <1>4, <1>5, <1>6, <1>d, <2>2 DEF Sound
      <3>3. \E j \in DOMAIN old : old[j] = key /\ \A k \in 1..(j - 1) : old[k] # key
        <4> DEFINE P == {j \in Nat : old[j] = key}
        <4>1. \E j \in 1 .. Len(old) : j \in P
          BY <3>2 DEF Elements
        <4>2. Len(old) \in Nat
          BY <3>2
        <4>3. PICK j \in 1 .. Len(old) : j \in P /\ \A k \in 1 .. j - 1 : k \notin P
          <5> HIDE DEF P
          <5> QED
            BY <4>1, <4>2, FirstPlace
        <4> QED
          BY <3>2, <4>3
      <3>5. p \in 1 .. Len(old) /\ old[p] = key
        BY <1>e, <3>2, <3>3
      <3>6. list = RemoveAt(old, p)
        BY <1>f, <2>2
      <3>7. list \in Seq(Keys) /\ Distinct(list) /\ Elements(list) = Elements(old) \ {key}
        BY <3>2, <3>5, <3>6, RestOf
      <3>8. Replaced(array, h, list, new)
        BY <1>7 DEF Replaced
      <3>9. key \in Elements(array[h]) /\ Elements(list) = Elements(array[h]) \ {key}
        BY <1>d, <3>2, <3>7
      <3>10. Sound(new) /\ new # <<>> /\ KeysOf(new) = KeysOf(array) \ {key}
        BY <1>4, <1>6, <3>7, <3>8, <3>9, KeyTaken
      <3> QED
        BY <1>4, <2>2, <3>10
    <2> QED
      BY <1>5, <2>1, <2>2
  <1>11. PICK b \in Addresses : b # buckets /\ heap[b] = <<>> /\ KeysOf(heap[b]) = {} /\ Addresses = {b, buckets}
    BY <1>4, NothingStored DEF Addresses
  <1>12. Arrays' /\ heap'[buckets] = new /\ heap'[b] = heap[b] /\ Stored' = KeysOf(new)
    <2>1. Arrays /\ KeysOf(new) \cap KeysOf(heap[b]) = {} /\ KeysOf(new) \cup KeysOf(heap[b]) = KeysOf(new)
      BY <1>11 DEF HashInv
    <2>2. Sound(new) /\ buckets # b
      BY <1>10, <1>11
    <2> QED
      BY <1>4, <1>8, <2>1, <2>2, ArrayChanged
  <1>13. Phase'
    BY <1>1, <1>3, <1>10, <1>11, <1>12 DEF Phase, One, Only
  <1>14. Operation'
    BY <1>1, <1>5 DEF HashInv, Operation
  <1>15. count = IF arg.op = "insert" THEN Total' - 1 ELSE Total' + 1
    <2>1. CASE arg.op = "insert"
      <3>1. Total' = Total + 1
        BY <1>5, <1>9, <1>10, <1>12, <2>1, FS_AddElement DEF Total
      <3> QED
        BY <1>9, <2>1, <3>1
    <2>2. CASE arg.op = "remove"
      <3>1. Total' = Total - 1
        BY <1>5, <1>9, <1>10, <1>12, <2>2, FS_RemoveElement DEF Total
      <3> QED
        BY <1>9, <2>2, <3>1
    <2> QED
      BY <1>5, <2>1, <2>2
  <1>16. Numbers'
    BY <1>1, <1>5, <1>9, <1>15 DEF Numbers
  <1> QED
    BY <1>12, <1>13, <1>14, <1>16 DEF HashInv

LEMMA RebuildInv ==
  ASSUME HashInv, hm_atomic_rebuild
  PROVE  HashInv'
  <1>1. /\ pc = "alloc" /\ pc' = "move"
        /\ UNCHANGED <<count, count_dirty, buckets, arg>>
    BY DEF hm_atomic_rebuild
  <1>2. PICK free, len, new :
            /\ free = CHOOSE a \in Addresses : heap[a] = <<>>
            /\ len = (IF arg.len = 0 THEN Len(heap[buckets]) ELSE arg.len)
            /\ new = create_buckets(len)
    OBVIOUS
  <1>3. heap' = [heap EXCEPT ![free] = new] /\ buckets_tmp' = free
    BY <1>2 DEF hm_atomic_rebuild
  <1>4. Only(buckets)
    BY <1>1 DEF HashInv, Phase, One
  <1>5. /\ buckets \in Addresses /\ heap[buckets] \in Seq(Seq(Keys)) /\ heap[buckets] # <<>>
        /\ Stored = KeysOf(heap[buckets])
    BY <1>4, StoredInOne DEF HashInv
  <1>6. free \in Addresses /\ free # buckets /\ Addresses = {free, buckets}
    <2>1. \E a \in Addresses : heap[a] = <<>>
      BY <1>4 DEF Only, Addresses
    <2> QED
      BY <1>2, <1>5, <2>1 DEF Addresses
  <1>7. len \in Nat \ {0}
    <2>1. arg.len \in Nat /\ Len(heap[buckets]) \in Nat \ {0}
      BY <1>5 DEF HashInv, Operation
    <2> QED
      BY <1>2, <2>1
  <1>8. Sound(new) /\ KeysOf(new) = {} /\ new # <<>>
    BY <1>2, <1>7, CreatedSound
  <1>9. Arrays' /\ heap'[free] = new /\ heap'[buckets] = heap[buckets] /\ Stored' = Stored
    <2>1. Arrays /\ KeysOf(new) \cap KeysOf(heap[buckets]) = {} /\ KeysOf(new) \cup KeysOf(heap[buckets]) = Stored
      BY <1>5, <1>8 DEF HashInv
    <2> QED
      BY <1>3, <1>5, <1>6, <1>8, <2>1, ArrayChanged
  <1>10. Phase'
    BY <1>1, <1>3, <1>5, <1>6, <1>8, <1>9 DEF Phase, Moving
  <1>11. Operation'
    BY <1>1 DEF HashInv, Operation
  <1>12. Total' = Total
    BY <1>9 DEF Total
  <1>13. count \in Int /\ count_dirty \in BOOLEAN /\ count = Total
    BY <1>1 DEF HashInv, Numbers
  <1>14. Numbers'
    BY <1>1, <1>12, <1>13 DEF Numbers
  <1> QED
    BY <1>9, <1>10, <1>11, <1>14 DEF HashInv

LEMMA TailOf ==
  ASSUME NEW S, NEW s \in Seq(S), s # <<>>, Distinct(s)
  PROVE  /\ Head(s) \in Elements(s) /\ Tail(s) \in Seq(S) /\ Distinct(Tail(s))
         /\ Elements(Tail(s)) = Elements(s) \ {Head(s)}
  <1>1. PICK n, t : n = Len(s) /\ t = Tail(s)
    OBVIOUS
  <1>2. /\ n \in Nat \ {0} /\ t \in Seq(S) /\ Len(t) = n - 1 /\ Head(s) = s[1]
        /\ \A i \in 1 .. n - 1 : t[i] = s[i + 1] /\ i + 1 \in 1 .. n /\ i + 1 # 1
    BY <1>1
  <1>3. \A i \in 1 .. n : i = 1 \/ (i - 1 \in 1 .. n - 1 /\ (i - 1) + 1 = i)
    BY <1>2
  <1>4. Distinct(t)
    BY <1>1, <1>2 DEF Distinct
  <1>5. 1 \in 1 .. n
    BY <1>2
  <1>6. Elements(t) = Elements(s) \ {s[1]}
    <2>1. Elements(s) = {s[i] : i \in 1 .. n} /\ Elements(t) = {t[i] : i \in 1 .. n - 1}
      BY <1>1, <1>2 DEF Elements
    <2>2. \A i \in 1 .. n : s[i] = s[1] => i = 1
      BY <1>1, <1>5 DEF Distinct
    <2>3. ASSUME NEW x \in Elements(t) PROVE x \in Elements(s) \ {s[1]}
      BY <1>2, <2>1, <2>2, <2>3
    <2>4. ASSUME NEW x \in Elements(s), x # s[1] PROVE x \in Elements(t)
      <3>1. PICK i \in 1 .. n : x = s[i]
        BY <2>1, <2>4
      <3>2. i - 1 \in 1 .. n - 1 /\ (i - 1) + 1 = i
        BY <1>3, <2>4, <3>1
      <3>3. x = t[i - 1]
        BY <1>2, <3>1, <3>2
      <3> QED
        BY <2>1, <3>2, <3>3
    <2> QED
      BY <2>3, <2>4
  <1> QED
    BY <1>1, <1>2, <1>4, <1>5, <1>6 DEF Elements

LEMMA MoveInv ==
  ASSUME HashInv, hm_atomic_rebuild_finish
  PROVE  HashInv'
  <1>1. /\ pc = "move" /\ hm_atomic_foreach(heap[buckets]) # <<>>
        /\ UNCHANGED <<count, count_dirty, buckets, buckets_tmp, pc, arg>>
    BY DEF hm_atomic_rebuild_finish
  <1>2. PICK cur, next : cur = heap[buckets] /\ next = heap[buckets_tmp]
    OBVIOUS
  <1>3. Moving
    BY <1>1 DEF HashInv, Phase
  <1>4. /\ buckets \in Addresses /\ buckets_tmp \in Addresses /\ buckets # buckets_tmp
        /\ Addresses = {buckets, buckets_tmp}
        /\ Sound(cur) /\ cur # <<>> /\ Sound(next) /\ next # <<>>
        /\ cur \in Seq(Seq(Keys)) /\ next \in Seq(Seq(Keys))
    BY <1>2, <1>3 DEF Moving, Addresses, HashInv, Arrays
  <1>5. KeysOf(cur) \cap KeysOf(next) = {} /\ Stored = KeysOf(cur) \cup KeysOf(next)
    BY <1>2, <1>3 DEF Moving, Addresses, HashInv, Arrays, Stored
  <1>6. PICK i : i = CHOOSE j \in DOMAIN cur : cur[j] # <<>> /\ \A k \in 1..(j - 1) : cur[k] = <<>>
    OBVIOUS
  <1>7. i \in 1 .. Len(cur) /\ cur[i] # <<>>
    <2>1. PICK q : q = hm_atomic_foreach(cur)
      OBVIOUS
    <2>2. q \in Seq(Keys) /\ q # <<>> /\ Elements(q) = KeysOf(cur)
      BY <1>1, <1>2, <1>4, <2>1, ForeachExact
    <2>3. q[1] \in KeysOf(cur)
      BY <2>2 DEF Elements
    <2>4. PICK j \in 1 .. Len(cur) : q[1] \in Elements(cur[j])
      BY <2>3 DEF KeysOf
    <2>5. cur[j] # <<>>
      BY <2>4 DEF Elements
    <2> DEFINE P == {m \in Nat : cur[m] # <<>>}
    <2>6. \E m \in 1 .. Len(cur) : m \in P
      BY <2>5
    <2>7. Len(cur) \in Nat /\ DOMAIN cur = 1 .. Len(cur)
      BY <1>4
    <2>8. PICK f \in 1 .. Len(cur) : f \in P /\ \A k \in 1 .. f - 1 : k \notin P
      <3> HIDE DEF P
      <3> QED
        BY <2>6, <2>7, FirstPlace
    <2>9. \E m \in DOMAIN cur : cur[m] # <<>> /\ \A k \in 1..(m - 1) : cur[k] = <<>>
      BY <2>7, <2>8
    <2> QED
      BY <1>6, <2>7, <2>9
  <1>8. PICK list : list = cur[i]
    OBVIOUS
  <1>9. PICK key : key = Head(list)
    OBVIOUS
  <1>10. list \in Seq(Keys) /\ list # <<>> /\ Distinct(list)
    BY <1>4, <1>7, <1>8 DEF Sound
  <1>11. /\ key \in Elements(list) /\ Tail(list) \in Seq(Keys) /\ Distinct(Tail(list))
         /\ Elements(Tail(list)) = Elements(list) \ {key}
    BY <1>9, <1>10, TailOf
  <1>12. PICK less : less = [cur EXCEPT ![i] = Tail(list)]
    OBVIOUS
  <1>13. PICK more : more = [next EXCEPT ![hash(next, key)] = <<key>> \o @]
    OBVIOUS
  <1>14. Sound(less) /\ less # <<>> /\ KeysOf(less) = KeysOf(cur) \ {key} /\ key \in KeysOf(cur)
    <2>1. Replaced(cur, i, Tail(list), less)
      BY <1>12 DEF Replaced
    <2>2. key \in Elements(cur[i]) /\ Elements(Tail(list)) = Elements(cur[i]) \ {key}
      BY <1>8, <1>11
    <2> QED
      BY <1>4, <1>7, <1>11, <2>1, <2>2, KeyTaken
  <1>15. key \in Keys /\ key \notin KeysOf(next)
    BY <1>4, <1>5, <1>14, ForeachExact
  <1>16. Sound(more) /\ more # <<>> /\ KeysOf(more) = KeysOf(next) \cup {key}
    BY <1>4, <1>13, <1>15, KeyAdded
  <1>17. heap' = [heap EXCEPT ![buckets] = less, ![buckets_tmp] = more]
    <2>1. heap' = [heap EXCEPT ![buckets][i] = Tail(@), ![buckets_tmp][hash(heap[buckets_tmp], key)] = <<key>> \o @]
      BY <1>2, <1>6, <1>8, <1>9 DEF hm_atomic_rebuild_finish
    <2> QED
      BY <1>2, <1>4, <1>8, <1>12, <1>13, <2>1
  <1>18. heap'[buckets] = less /\ heap'[buckets_tmp] = more /\ heap' \in [Addresses -> Seq(Seq(Keys))]
    BY <1>4, <1>14, <1>16, <1>17 DEF HashInv, Arrays, Sound
  <1>19. KeysOf(less) \cap KeysOf(more) = {} /\ KeysOf(less) \cup KeysOf(more) = Stored
    BY <1>5, <1>14, <1>16
  <1>20. Arrays' /\ Stored' = Stored
    <2>1. (buckets = 1 /\ buckets_tmp = 2) \/ (buckets = 2 /\ buckets_tmp = 1)
      BY <1>4 DEF Addresses
    <2>2. \A a \in Addresses : Sound(heap'[a])
      BY <1>4, <1>14, <1>16, <1>18
    <2>3. KeysOf(heap'[1]) \cap KeysOf(heap'[2]) = {} /\ KeysOf(heap'[1]) \cup KeysOf(heap'[2]) = Stored
      BY <1>18, <1>19, <2>1
    <2> QED
      BY <1>18, <2>2, <2>3 DEF Arrays, Stored
  <1>21. Phase'
    <2>1. \A a \in Addresses : heap'[a] # <<>>
      BY <1>4, <1>14, <1>16, <1>18
    <2> QED
      BY <1>1, <1>4, <2>1 DEF Phase, Moving
  <1>22. Operation'
    BY <1>1 DEF HashInv, Operation
  <1>23. Total' = Total
    BY <1>20 DEF Total
  <1>24. Numbers'
    BY <1>1, <1>23 DEF HashInv, Numbers
  <1> QED
    BY <1>20, <1>21, <1>22, <1>24 DEF HashInv

LEMMA FreeBucketsInv ==
  ASSUME HashInv, FreeBuckets
  PROVE  HashInv'
  <1>1. /\ pc = "move" /\ pc' = "publish" /\ buckets' = 0
        /\ hm_atomic_foreach(heap[buckets]) = <<>> /\ heap' = [heap EXCEPT ![buckets] = <<>>]
        /\ UNCHANGED <<count, count_dirty, buckets_tmp, arg>>
    BY DEF FreeBuckets
  <1>2. Moving
    BY <1>1 DEF HashInv, Phase
  <1>3. /\ buckets \in Addresses /\ buckets_tmp \in Addresses /\ buckets # buckets_tmp
        /\ Addresses = {buckets, buckets_tmp} /\ Sound(heap[buckets]) /\ heap[buckets_tmp] # <<>>
    BY <1>2 DEF Moving, Addresses, HashInv, Arrays
  <1>4. KeysOf(heap[buckets]) = {}
    <2>1. Elements(hm_atomic_foreach(heap[buckets])) = KeysOf(heap[buckets])
      BY <1>3, ForeachExact
    <2>2. Len(<<>>) = 0 /\ 1 .. 0 = {}
      OBVIOUS
    <2> QED
      BY <1>1, <2>1, <2>2 DEF Elements
  <1>5. Stored = KeysOf(heap[buckets_tmp])
    BY <1>2, <1>4 DEF Moving, Addresses, Stored
  <1>6. Arrays' /\ heap'[buckets] = <<>> /\ heap'[buckets_tmp] = heap[buckets_tmp] /\ Stored' = Stored
    <2>1. PICK new : new = <<>>
      OBVIOUS
    <2>2. Sound(new) /\ KeysOf(new) = {} /\ heap' = [heap EXCEPT ![buckets] = new]
      BY <1>1, <2>1, NothingStored
    <2>3. Arrays /\ KeysOf(new) \cap KeysOf(heap[buckets_tmp]) = {} /\ KeysOf(new) \cup KeysOf(heap[buckets_tmp]) = Stored
      BY <1>5, <2>2 DEF HashInv
    <2> QED
      BY <1>3, <2>1, <2>2, <2>3, ArrayChanged
  <1>7. Phase'
    BY <1>1, <1>3, <1>6 DEF Phase, Unpublished, Only
  <1>8. Operation'
    BY <1>1 DEF HashInv, Operation
  <1>9. Total' = Total
    BY <1>6 DEF Total
  <1>10. Numbers'
    BY <1>1, <1>9 DEF HashInv, Numbers
  <1> QED
    BY <1>6, <1>7, <1>8, <1>10 DEF HashInv

(* Every step of the map keeps the invariant.                              *)
LEMMA HashInvStep == HashInv /\ [HashNext]_hashVars => HashInv'
  <1> SUFFICES ASSUME HashInv, [HashNext]_hashVars PROVE HashInv'
    OBVIOUS
  <1>1. CASE HashStep
    BY <1>1, UpdateListInv, NoSpaceInv, UpdateCountInv, CleanInv, RebuildInv, MoveInv, FreeBucketsInv,
       PublishInv, ForgetInv, RecoveryInv, RecountInv DEF HashStep
  <1>2. CASE HashCrash
    BY <1>2, HashCrashInv
  <1>3. CASE \E len \in Nat : hm_atomic_cmd(len)
    BY <1>3, CmdInv
  <1>4. CASE \E key \in Keys : hm_atomic_insert(key) \/ hm_atomic_remove(key)
    BY <1>4, StartInv
  <1>5. CASE UNCHANGED hashVars
    <2>1. UNCHANGED <<count, count_dirty, heap, buckets, buckets_tmp, pc, arg>>
      BY <1>5 DEF hashVars
    <2>2. Arrays' /\ Stored' = Stored /\ Total' = Total
      BY <2>1, Still DEF HashInv
    <2>3. Phase'
      BY <2>1 DEF HashInv, Phase, One, Moving, Unpublished, Published, Only
    <2>4. Operation'
      BY <2>1, <2>2 DEF HashInv, Operation
    <2>5. Numbers'
      BY <2>1, <2>2 DEF HashInv, Numbers
    <2> QED
      BY <2>2, <2>3, <2>4, <2>5 DEF HashInv
  <1> QED
    BY <1>1, <1>2, <1>3, <1>4, <1>5 DEF HashNext

(* The hash map keeps its promise at every step, for every hash function,  *)
(* number of keys, buckets and crashes: a number of entries that is not    *)
(* marked as in doubt is right, so that hm_atomic_init may trust it        *)
(* (hashmap_atomic.c:479), and between operations there is one array in    *)
(* which every entry is in the list its key hashes to, once.               *)
THEOREM HashAlwaysExact == HashSpec => []HashExact
  <1> QED
    BY HashInvInit, HashInvStep, HashInvExact, PTL DEF HashSpec
=============================================================================
