------------------------------ MODULE Onta_proofs ------------------------------
(***************************************************************************)
(* The online analysis blames the right instruction, whatever the program  *)
(* stores and flushes.  And for programs whose stores are equal or         *)
(* disjoint, stay within a line and are flushed line by line, the          *)
(* Processer implements the machine's memory, and reports an instruction   *)
(* redundant exactly when the machine had nothing to do.                   *)
(***************************************************************************)
EXTENDS Onta, Processer_proofs

PendingStores == PendingIds(flush_pending) \cup PendingIds(fence_pending)

(* No store waits twice: the id of an entry says in which map it is.       *)
IdsApart ==
  /\ IInv
  /\ DistinctIds(flush_pending)
  /\ PendingIds(flush_pending) \cap PendingIds(fence_pending) = {}

(* The ids of the new bugs of a step, by what reports them.                *)
BlameNow     == \A b \in NewBugs : b.instruction_id = current_instruction_id
BlamePending == \A b \in NewBugs :
                  b.instruction_id \in PendingStores /\ b.type # "UNORDERED_FLUSHES"

LEMMA PendingBelow == IdsApart => \A i \in PendingStores : i \in Nat /\ i < current_instruction_id
  BY PendingIdsTyped DEF IdsApart, IInv, PendingStores

LEMMA BugsAtFields ==
  ASSUME NEW type, NEW ids, NEW b \in BugsAt(type, ids)
  PROVE  b.type = type /\ b.instruction_id \in ids
  BY DEF BugsAt

(* CheckStore reports stores that wait, and keeps no others.               *)
LEMMA CheckStoreSub ==
  ASSUME NEW group, NEW address, NEW size
  PROVE  /\ PendingIds(CheckStore(group, address, size)) \subseteq PendingIds(group)
         /\ DistinctIds(group) => DistinctIds(CheckStore(group, address, size))
  <1>1. Overwritten(group, address, size) \subseteq DOMAIN group
    BY DEF Overwritten, CoveredKeys
  <1> QED
    BY <1>1 DEF CheckStore, Erase, Restrict, PendingIds, DistinctIds

LEMMA OverwrittenPending ==
  ASSUME NEW group, NEW address, NEW size, NEW type,
         NEW b \in OverwrittenBugs(group, address, size, type)
  PROVE  b.type = type /\ b.instruction_id \in PendingIds(group)
  <1>1. Overwritten(group, address, size) \subseteq DOMAIN group
    BY DEF Overwritten, CoveredKeys
  <1>2. PendingIds(Restrict(group, Overwritten(group, address, size))) \subseteq PendingIds(group)
    BY <1>1 DEF PendingIds, Restrict
  <1> QED
    BY <1>2, BugsAtFields DEF OverwrittenBugs

(* Inserting the entry of the instruction that executes.                   *)
LEMMA InsertNewId ==
  ASSUME NEW group, NEW entry, NEW id,
         PendingIds(entry) = {id}, DistinctIds(entry),
         DistinctIds(group), id \notin PendingIds(group)
  PROVE  /\ PendingIds(Insert(group, entry)) \subseteq PendingIds(group) \cup {id}
         /\ DistinctIds(Insert(group, entry))
  <1> DEFINE all == Insert(group, entry)
  <1>1. /\ DOMAIN all = DOMAIN group \cup DOMAIN entry
        /\ \A a \in DOMAIN group : all[a] = group[a]
        /\ \A a \in DOMAIN entry \ DOMAIN group : all[a] = entry[a]
    BY DEF Insert
  <1> HIDE DEF all
  <1> QED
    BY <1>1 DEF PendingIds, DistinctIds, all

LEMMA StoreBlames ==
  ASSUME IdsApart, NEW s \in StoreShapes, NEW is_movnt \in BOOLEAN,
         TraceStore(s[1], s[2], is_movnt)
  PROVE  /\ IdsApart'
         /\ PendingStores' \subseteq PendingStores \cup {current_instruction_id}
         /\ BlamePending
  <1> DEFINE n         == current_instruction_id
             st        == IF is_movnt THEN "FLUSHED" ELSE "MODIFIED"
             entry     == [a \in {s[1]} |-> NewStore(s[2], n, st)]
             unflushed == CheckStore(flush_pending, s[1], s[2])
             unfenced  == CheckStore(fence_pending, s[1], s[2])
  <1>1. IInv'
    BY StoreStep DEF IdsApart
  <1>2. n \notin PendingStores
    BY PendingBelow DEF IdsApart, IInv
  <1>3. /\ PendingIds(unflushed) \subseteq PendingIds(flush_pending)
        /\ PendingIds(unfenced) \subseteq PendingIds(fence_pending)
        /\ DistinctIds(unflushed)
    BY CheckStoreSub DEF IdsApart
  <1>4. /\ flush_pending' = IF is_movnt THEN unflushed ELSE Insert(unflushed, entry)
        /\ fence_pending' = IF is_movnt THEN Insert(unfenced, entry) ELSE unfenced
    BY DEF TraceStore, ProcessStore
  <1>5. /\ PendingIds(Insert(unflushed, entry)) \subseteq PendingIds(unflushed) \cup {n}
        /\ PendingIds(Insert(unfenced, entry)) \subseteq PendingIds(unfenced) \cup {n}
        /\ DistinctIds(Insert(unflushed, entry))
    <2>1. PendingIds(entry) = {n} /\ DistinctIds(entry)
      BY DEF PendingIds, DistinctIds, NewStore
    <2>2. n \notin PendingIds(unflushed)
      BY <1>2, <1>3 DEF PendingStores
    <2> HIDE DEF unflushed, unfenced, entry, n
    <2>3. PendingIds(Insert(unfenced, entry)) \subseteq PendingIds(unfenced) \cup {n}
      BY <2>1 DEF PendingIds, Insert
    <2> QED
      BY <1>3, <2>1, <2>2, <2>3, InsertNewId
  <1>6. BlamePending
    <2> DEFINE bugs1 == OverwrittenBugs(flush_pending, s[1], s[2], "OVERWRITTEN_UNFLUSHED")
               bugs2 == OverwrittenBugs(fence_pending, s[1], s[2], "OVERWRITTEN_UNFENCED")
    <2>1. bugs' = bugs \cup bugs1 \cup bugs2
      BY DEF TraceStore, ProcessStore
    <2>2. \A b \in bugs1 : b.type = "OVERWRITTEN_UNFLUSHED" /\ b.instruction_id \in PendingIds(flush_pending)
      BY OverwrittenPending
    <2>3. \A b \in bugs2 : b.type = "OVERWRITTEN_UNFENCED" /\ b.instruction_id \in PendingIds(fence_pending)
      BY OverwrittenPending
    <2> HIDE DEF bugs1, bugs2
    <2> QED
      BY <2>1, <2>2, <2>3 DEF BlamePending, NewBugs, PendingStores
  <1> HIDE DEF n, entry, unflushed, unfenced
  <1>7. /\ PendingIds(flush_pending') \subseteq PendingIds(flush_pending) \cup {n}
        /\ PendingIds(fence_pending') \subseteq PendingIds(fence_pending) \cup {n}
        /\ DistinctIds(flush_pending')
        /\ PendingIds(flush_pending') \cap PendingIds(fence_pending') = {}
    <2>1. n \notin PendingIds(unflushed) /\ n \notin PendingIds(unfenced)
      BY <1>2, <1>3 DEF PendingStores
    <2>2. PendingIds(flush_pending) \cap PendingIds(fence_pending) = {}
      BY DEF IdsApart
    <2>3. CASE is_movnt
      BY <1>3, <1>4, <1>5, <2>1, <2>2, <2>3
    <2>4. CASE ~is_movnt
      BY <1>3, <1>4, <1>5, <2>1, <2>2, <2>4
    <2> QED
      BY <2>3, <2>4
  <1> QED
    BY <1>1, <1>6, <1>7 DEF IdsApart, PendingStores, n

LEMMA FlushBlames ==
  ASSUME IdsApart, NEW t \in Flushes, NEW address \in FlushAddresses, TraceFlush(t, address)
  PROVE  IdsApart' /\ PendingStores' \subseteq PendingStores /\ BlameNow
  <1> DEFINE keys  == FlushedKeys(flush_pending, address)
             moved == [a \in keys |-> flush(flush_pending[a])]
             kept  == Erase(MarkPartial(flush_pending, address), keys)
  <1>1. IInv'
    BY FlushStep DEF IdsApart
  <1>2. /\ PendingIds(kept) \cup PendingIds(moved) = PendingIds(flush_pending)
        /\ PendingIds(kept) \cap PendingIds(moved) = {}
        /\ DistinctIds(kept)
    BY FlushedIds DEF IdsApart, IInv
  <1>3. flush_pending' = kept /\ fence_pending' = Insert(fence_pending, moved)
    BY DEF TraceFlush, ProcessFlush
  <1>4. BlameNow
    <2>1. bugs' = bugs \/ bugs' = bugs \cup BugsAt("REDUNDANT_FLUSH", {current_instruction_id})
      BY DEF TraceFlush, ProcessFlush
    <2> QED
      BY <2>1, BugsAtFields DEF BlameNow, NewBugs
  <1> HIDE DEF keys, moved, kept
  <1>5. PendingIds(Insert(fence_pending, moved)) \subseteq PendingIds(fence_pending) \cup PendingIds(moved)
    BY DEF PendingIds, Insert
  <1>6. PendingIds(flush_pending) \cap PendingIds(fence_pending) = {}
    BY DEF IdsApart
  <1> QED
    BY <1>1, <1>2, <1>3, <1>4, <1>5, <1>6 DEF IdsApart, PendingStores

LEMMA FenceBlames ==
  ASSUME IdsApart, TraceFence
  PROVE  /\ IdsApart' /\ BlameNow
         /\ PendingStores' \subseteq PendingStores \ PendingIds(fence_pending)
  <1>1. IInv'
    BY FenceStep DEF IdsApart
  <1>2. flush_pending' = flush_pending /\ fence_pending' = NoStores
    BY DEF TraceFence, ProcessFence
  <1>3. BlameNow
    BY BugsAtFields DEF BlameNow, NewBugs, TraceFence, ProcessFence, FenceBugs
  <1> QED
    BY <1>1, <1>2, <1>3, NoStoresIds DEF IdsApart, PendingStores

LEMMA VolatileRMWBlames ==
  ASSUME IdsApart, NEW address, TraceRMW(address, 0)
  PROVE  /\ IdsApart' /\ BlameNow
         /\ \A b \in NewBugs : b.type = "UNORDERED_FLUSHES"
         /\ PendingStores' \subseteq PendingStores \ PendingIds(fence_pending)
  <1>1. IInv'
    BY RMWStep DEF IdsApart
  <1>2. flush_pending' = flush_pending /\ fence_pending' = NoStores
    BY DEF TraceRMW, ProcessRMW
  <1>3. BlameNow /\ \A b \in NewBugs : b.type = "UNORDERED_FLUSHES"
    <2>1. bugs' = bugs \cup FenceBugs(current_instruction_id, TRUE)
      BY DEF TraceRMW, ProcessRMW
    <2>2. FenceBugs(current_instruction_id, TRUE) \subseteq
            BugsAt("UNORDERED_FLUSHES", {current_instruction_id})
      BY DEF FenceBugs
    <2> QED
      BY <2>1, <2>2, BugsAtFields DEF BlameNow, NewBugs
  <1> QED
    BY <1>1, <1>2, <1>3, NoStoresIds DEF IdsApart, PendingStores

LEMMA RMWBlames ==
  ASSUME IdsApart, NEW s \in StoreShapes, TraceRMW(s[1], s[2])
  PROVE  /\ IdsApart'
         /\ PendingStores' \subseteq
              (PendingStores \ PendingIds(fence_pending)) \cup {current_instruction_id}
         /\ \A b \in NewBugs : \/ b.instruction_id = current_instruction_id
                               \/ b.instruction_id \in PendingIds(flush_pending)
  <1> DEFINE n         == current_instruction_id
             unflushed == CheckStore(flush_pending, s[1], s[2])
  <1>1. s[2] # 0 /\ <<s[1], s[2]>> \in StoreShapes
    BY ShapesAssumption
  <1>2. IInv'
    BY <1>1, RMWStep DEF IdsApart
  <1>3. n \notin PendingStores
    BY PendingBelow DEF IdsApart, IInv
  <1>4. PendingIds(unflushed) \subseteq PendingIds(flush_pending) /\ DistinctIds(unflushed)
    BY CheckStoreSub DEF IdsApart
  <1>5. /\ PendingIds(flush_pending') \subseteq PendingIds(unflushed) \cup {n}
        /\ DistinctIds(flush_pending')
    <2> DEFINE entry == [a \in {s[1]} |-> NewStore(s[2], n, "MODIFIED")]
    <2>1. flush_pending' = Insert(unflushed, entry)
      BY <1>1 DEF TraceRMW, ProcessRMW
    <2>2. n \notin PendingIds(unflushed)
      BY <1>3, <1>4 DEF PendingStores
    <2>3. PendingIds(entry) = {n} /\ DistinctIds(entry)
      BY DEF PendingIds, DistinctIds, NewStore
    <2> HIDE DEF unflushed, entry
    <2> QED
      BY <1>4, <2>1, <2>2, <2>3, InsertNewId
  <1>6. PendingIds(fence_pending') = {}
    BY NoStoresIds DEF TraceRMW, ProcessRMW
  <1>7. \A b \in NewBugs : b.instruction_id = n \/ b.instruction_id \in PendingIds(flush_pending)
    <2> DEFINE bugs2 == OverwrittenBugs(flush_pending, s[1], s[2], "OVERWRITTEN_UNFLUSHED")
    <2>1. bugs' = bugs \cup FenceBugs(n, TRUE) \cup bugs2
      BY <1>1 DEF TraceRMW, ProcessRMW
    <2>2. \A b \in FenceBugs(n, TRUE) : b.instruction_id = n
      BY BugsAtFields DEF FenceBugs
    <2>3. \A b \in bugs2 : b.instruction_id \in PendingIds(flush_pending)
      BY OverwrittenPending
    <2> HIDE DEF bugs2, n
    <2> QED
      BY <2>1, <2>2, <2>3 DEF NewBugs
  <1> HIDE DEF n, unflushed
  <1>8. PendingIds(flush_pending) \cap PendingIds(fence_pending) = {}
    BY DEF IdsApart
  <1> QED
    BY <1>2, <1>3, <1>4, <1>5, <1>6, <1>7, <1>8 DEF IdsApart, PendingStores, n

LEMMA RemainderBlames ==
  ASSUME IdsApart, CheckRemainder
  PROVE  IdsApart' /\ PendingStores' = PendingStores /\ BlamePending
  <1>1. IInv'
    BY RemainderStep DEF IdsApart
  <1>2. BlamePending
    BY BugsAtFields DEF BlamePending, NewBugs, PendingStores, CheckRemainder
  <1>3. UNCHANGED <<flush_pending, fence_pending>>
    BY DEF CheckRemainder
  <1> QED
    BY <1>1, <1>2, <1>3 DEF IdsApart, PendingStores
-----------------------------------------------------------------------------
(* The inductive invariant of the report.  A store that waits must have    *)
(* its record, filled in; a record that was never filled in belongs to an  *)
(* instruction that is past, so nothing can turn one into the other.       *)
Recorded(ops, n) == \A i \in DOMAIN ops : i \in Nat /\ i < n /\ ops[i] \in {i, Garbage}

Filled(ops) == \A i \in PendingStores : i \in DOMAIN ops /\ ops[i] = i

Located ==
  /\ IdsApart
  /\ \A b \in bugs : b.instruction_id < current_instruction_id
  /\ Recorded(recorded_ops, current_instruction_id)
  /\ Filled(recorded_ops)
  /\ BugsLocated

(* The backtrace under which a bug is reported, given the records.         *)
Blamed(b, ops) ==
  IF /\ b.type = "UNORDERED_FLUSHES"
     /\ b.instruction_id \in DOMAIN ops /\ ops[b.instruction_id] = Garbage
  THEN Garbage ELSE b.instruction_id

LocatedIn(reports, ops, reported) == reported = {Blamed(b, ops) : b \in reports}

LEMMA LocatedAsBlamed == BugsLocated <=> LocatedIn(bugs, recorded_ops, report)
  BY DEF BugsLocated, BlamesVolatileRMW, LocatedIn, Blamed

LEMMA LocatedNext == LocatedIn(bugs, recorded_ops, report)' => BugsLocated'
  BY LocatedAsBlamed, PTL

(* Two records that leave the same past instructions without a backtrace   *)
(* blame the same ones.                                                    *)
SameGarbage(ops, later, n) ==
  \A i \in Nat : i < n =>
    (i \in DOMAIN ops /\ ops[i] = Garbage <=> i \in DOMAIN later /\ later[i] = Garbage)

LEMMA BlameKept ==
  ASSUME NEW reports \in SUBSET Bug, NEW ops, NEW later, NEW n,
         \A b \in reports : b.instruction_id < n, SameGarbage(ops, later, n)
  PROVE  \A b \in reports : Blamed(b, later) = Blamed(b, ops)
  <1>1. \A b \in reports : b.instruction_id \in Nat
    BY DEF Bug
  <1> QED
    BY <1>1 DEF Blamed, SameGarbage

(* The report after new bugs, each under its backtrace.                    *)
LEMMA LocatedMore ==
  ASSUME NEW old, NEW more, NEW ops, NEW later, NEW reported,
         LocatedIn(old, ops, reported), \A b \in old : Blamed(b, later) = Blamed(b, ops)
  PROVE  LocatedIn(old \cup more, later, reported \cup {Blamed(b, later) : b \in more})
  <1>1. {Blamed(b, ops) : b \in old} = {Blamed(b, later) : b \in old}
    OBVIOUS
  <1>2. {Blamed(b, later) : b \in old \cup more} =
          {Blamed(b, later) : b \in old} \cup {Blamed(b, later) : b \in more}
    OBVIOUS
  <1> QED
    BY <1>1, <1>2 DEF LocatedIn

(* RecordPossibleBugs() from the records: each new bug blames a store that *)
(* has its backtrace there, or the locked instruction that executes.       *)
LEMMA ReportFromRecords ==
  ASSUME Located, IdsApart', NEW ops, ReportedFrom(ops),
         bugs \subseteq bugs', current_instruction_id \in Nat,
         \/ current_instruction_id' = current_instruction_id
         \/ current_instruction_id' = current_instruction_id + 1,
         Recorded(ops, current_instruction_id'),
         SameGarbage(recorded_ops, ops, current_instruction_id),
         \A i \in PendingStores' : i \in DOMAIN ops /\ ops[i] = i,
         \A b \in NewBugs :
            \/ b.instruction_id \in DOMAIN ops /\ ops[b.instruction_id] = b.instruction_id
            \/ /\ b.type = "UNORDERED_FLUSHES"
               /\ b.instruction_id = current_instruction_id
               /\ current_instruction_id < current_instruction_id'
  PROVE  Located'
  <1> DEFINE n   == current_instruction_id
             ids == {b.instruction_id : b \in NewBugs}
  <1>1. n \in Nat /\ n' \in Nat /\ n <= n' /\ bugs \subseteq Bug
    BY DEF Located, IdsApart, IInv
  <1>2. /\ DOMAIN recorded_ops' = DOMAIN ops \cup ids
        /\ \A i \in DOMAIN ops : recorded_ops'[i] = ops[i]
        /\ \A i \in ids \ DOMAIN ops : recorded_ops'[i] = Garbage
        /\ report' = report \cup {recorded_ops'[i] : i \in ids}
    BY DEF ReportedFrom
  <1>3. \A i \in ids : (i \in DOMAIN ops /\ ops[i] = i) \/ (i = n /\ n < n')
    OBVIOUS
  <1>4. Recorded(recorded_ops, n)'
    BY <1>1, <1>2, <1>3 DEF Recorded
  <1>5. SameGarbage(recorded_ops, recorded_ops', n)
    <2>1. \A i \in DOMAIN recorded_ops' : i \in DOMAIN ops \/ i = n
      BY <1>2, <1>3
    <2> QED
      BY <1>1, <1>2, <2>1 DEF SameGarbage
  <1>6. Filled(recorded_ops)'
    BY <1>2 DEF Filled
  <1>7. (\A b \in bugs : b.instruction_id < n)'
    <2>1. bugs' = bugs \cup NewBugs
      BY DEF NewBugs
    <2>2. \A b \in bugs : b.instruction_id < n'
      <3>1. \A b \in bugs : b.instruction_id \in Nat /\ b.instruction_id < n
        BY <1>1 DEF Located, Bug
      <3> QED
        BY <1>1, <3>1
    <2>3. \A b \in NewBugs : b.instruction_id < n'
      BY <1>3, <1>1 DEF Recorded
    <2> QED
      BY <2>1, <2>2, <2>3
  <1>8. LocatedIn(bugs', recorded_ops', report')
    <2>1. \A b \in bugs : Blamed(b, recorded_ops') = Blamed(b, recorded_ops)
      BY <1>1, <1>5, BlameKept DEF Located
    <2>2. \A b \in NewBugs : Blamed(b, recorded_ops') = recorded_ops'[b.instruction_id]
      <3> SUFFICES ASSUME NEW b \in NewBugs
                   PROVE  Blamed(b, recorded_ops') = recorded_ops'[b.instruction_id]
        OBVIOUS
      <3>1. b.instruction_id \in ids /\ b.instruction_id \in DOMAIN recorded_ops'
        BY <1>2
      <3>2. CASE b.instruction_id \in DOMAIN ops /\ ops[b.instruction_id] = b.instruction_id
        BY <1>2, <3>1, <3>2 DEF Blamed
      <3>3. CASE b.instruction_id \in DOMAIN ops /\ ops[b.instruction_id] # b.instruction_id
        BY <1>2, <3>1, <3>3 DEF Blamed, Recorded
      <3>4. CASE b.instruction_id \notin DOMAIN ops
        BY <1>2, <3>1, <3>4 DEF Blamed
      <3> QED
        BY <3>2, <3>3, <3>4
    <2>3. {recorded_ops'[i] : i \in ids} = {Blamed(b, recorded_ops') : b \in NewBugs}
      <3>1. {recorded_ops'[i] : i \in ids} = {recorded_ops'[b.instruction_id] : b \in NewBugs}
        OBVIOUS
      <3> QED
        BY <2>2, <3>1
    <2>4. bugs' = bugs \cup NewBugs
      BY DEF NewBugs
    <2>5. LocatedIn(bugs, recorded_ops, report)
      BY LocatedAsBlamed DEF Located
    <2> HIDE DEF ids
    <2> QED
      BY <1>2, <2>1, <2>3, <2>4, <2>5, LocatedMore
  <1>9. BugsLocated'
    BY <1>8, LocatedNext
  <1> QED
    BY <1>4, <1>6, <1>7, <1>9 DEF Located

(* RecordPossibleBugs(ctxt), with the backtrace of what executes.          *)
LEMMA ReportWhatExecutes ==
  ASSUME Located, IdsApart', ReportedNow, BlameNow,
         bugs \subseteq bugs', current_instruction_id' = current_instruction_id + 1,
         Recorded(recorded_ops', current_instruction_id),
         SameGarbage(recorded_ops, recorded_ops', current_instruction_id),
         Filled(recorded_ops)'
  PROVE  Located'
  <1> DEFINE n == current_instruction_id
  <1>1. n \in Nat /\ n' = n + 1 /\ bugs \subseteq Bug
    BY DEF Located, IdsApart, IInv
  <1>2. Recorded(recorded_ops, n)'
    BY <1>1 DEF Recorded
  <1>3. bugs' = bugs \cup NewBugs
    BY DEF NewBugs
  <1>4. (\A b \in bugs : b.instruction_id < n)'
    <2>1. \A b \in bugs : b.instruction_id \in Nat /\ b.instruction_id < n
      BY <1>1 DEF Located, Bug
    <2> QED
      BY <1>1, <1>3, <2>1 DEF BlameNow
  <1>5. LocatedIn(bugs', recorded_ops', report')
    <2>1. \A b \in bugs : Blamed(b, recorded_ops') = Blamed(b, recorded_ops)
      BY <1>1, BlameKept DEF Located
    <2>2. \A b \in NewBugs : Blamed(b, recorded_ops') = n
      <3>1. n \notin DOMAIN recorded_ops'
        BY <1>1 DEF Recorded
      <3> QED
        BY <3>1 DEF Blamed, BlameNow
    <2>3. report' = report \cup {Blamed(b, recorded_ops') : b \in NewBugs}
      <3>1. CASE NewBugs = {}
        BY <3>1 DEF ReportedNow
      <3>2. CASE NewBugs # {}
        BY <2>2, <3>2 DEF ReportedNow
      <3> QED
        BY <3>1, <3>2
    <2>4. LocatedIn(bugs, recorded_ops, report)
      BY LocatedAsBlamed DEF Located
    <2> QED
      BY <1>3, <2>1, <2>3, <2>4, LocatedMore
  <1>6. BugsLocated'
    BY <1>5, LocatedNext
  <1> QED
    BY <1>2, <1>4, <1>6 DEF Located

LEMMA RecordKeeps ==
  ASSUME NEW ops, NEW n \in Nat, n = current_instruction_id, Recorded(ops, n)
  PROVE  /\ Recorded(Record(ops), n + 1) /\ SameGarbage(ops, Record(ops), n)
         /\ DOMAIN Record(ops) = DOMAIN ops \cup {n}
         /\ \A i \in DOMAIN ops : Record(ops)[i] = ops[i]
         /\ Record(ops)[n] = n
  <1>1. n \notin DOMAIN ops
    BY DEF Recorded
  <1>2. /\ DOMAIN Record(ops) = DOMAIN ops \cup {n}
        /\ \A i \in DOMAIN ops : Record(ops)[i] = ops[i]
        /\ Record(ops)[n] = n
    BY <1>1 DEF Record
  <1>3. Recorded(Record(ops), n + 1)
    BY <1>2 DEF Recorded
  <1>4. SameGarbage(ops, Record(ops), n)
    BY <1>2 DEF SameGarbage, Garbage
  <1> QED
    BY <1>2, <1>3, <1>4

(* What a fence forgets was filled in, and waits no longer.                *)
LEMMA ForgetKeeps ==
  ASSUME Located
  PROVE  LET kept == Forget(recorded_ops)
         IN  /\ Recorded(kept, current_instruction_id)
             /\ SameGarbage(recorded_ops, kept, current_instruction_id)
             /\ \A i \in PendingStores \ PendingIds(fence_pending) : i \in DOMAIN kept /\ kept[i] = i
  <1> DEFINE kept == Forget(recorded_ops)
  <1>1. /\ DOMAIN kept = DOMAIN recorded_ops \ PendingIds(fence_pending)
        /\ \A i \in DOMAIN kept : kept[i] = recorded_ops[i]
    BY DEF Forget, Restrict
  <1> HIDE DEF kept
  <1>2. \A i \in PendingIds(fence_pending) : recorded_ops[i] = i
    BY DEF Located, Filled, PendingStores
  <1>3. Recorded(kept, current_instruction_id)
    BY <1>1 DEF Located, Recorded
  <1>4. SameGarbage(recorded_ops, kept, current_instruction_id)
    <2>1. \A i \in Nat : i # Garbage
      BY DEF Garbage
    <2> QED
      BY <1>1, <1>2, <2>1 DEF SameGarbage
  <1>5. \A i \in PendingStores \ PendingIds(fence_pending) : i \in DOMAIN kept /\ kept[i] = i
    BY <1>1 DEF Located, Filled
  <1> QED
    BY <1>3, <1>4, <1>5 DEF kept

LEMMA SameGarbageTrans ==
  ASSUME NEW a, NEW b, NEW c, NEW n, SameGarbage(a, b, n), SameGarbage(b, c, n)
  PROVE  SameGarbage(a, c, n)
  BY DEF SameGarbage

LEMMA InitLocated == OntaInit => Located
  <1> SUFFICES ASSUME OntaInit PROVE Located
    OBVIOUS
  <1>1. IInv
    BY InitIInv DEF OntaInit
  <1>2. PendingStores = {} /\ IdsApart
    BY <1>1, NoStoresIds DEF OntaInit, Init, PendingStores, IdsApart
  <1>3. DOMAIN recorded_ops = {}
    BY DEF OntaInit
  <1> QED
    BY <1>2, <1>3 DEF OntaInit, Init, Located, Recorded, Filled, BugsLocated

LEMMA LocatedWrite ==
  ASSUME Located, NEW s \in StoreShapes, NEW is_movnt \in BOOLEAN,
         WriteHandler(s[1], s[2], is_movnt)
  PROVE  Located'
  <1> DEFINE n   == current_instruction_id
             ops == Record(recorded_ops)
  <1>1. TraceStore(s[1], s[2], is_movnt) /\ ReportedFrom(ops) /\ bugs \subseteq bugs'
    BY DEF WriteHandler, TraceStore, ProcessStore
  <1>2. n \in Nat /\ n' = n + 1
    BY <1>1 DEF TraceStore, TraceLine, Located, IdsApart, IInv
  <1>3. IdsApart' /\ PendingStores' \subseteq PendingStores \cup {n} /\ BlamePending
    BY <1>1, StoreBlames DEF Located
  <1>4. /\ Recorded(ops, n') /\ SameGarbage(recorded_ops, ops, n)
        /\ DOMAIN ops = DOMAIN recorded_ops \cup {n}
        /\ \A i \in DOMAIN recorded_ops : ops[i] = recorded_ops[i]
        /\ ops[n] = n
    BY <1>2, RecordKeeps DEF Located
  <1> HIDE DEF ops
  <1>5. \A i \in PendingStores' : i \in DOMAIN ops /\ ops[i] = i
    BY <1>3, <1>4 DEF Located, Filled
  <1>6. \A b \in NewBugs : b.instruction_id \in DOMAIN ops /\ ops[b.instruction_id] = b.instruction_id
    BY <1>3, <1>4 DEF Located, Filled, BlamePending
  <1> QED
    BY <1>1, <1>2, <1>3, <1>4, <1>5, <1>6, ReportFromRecords

LEMMA LocatedFlush ==
  ASSUME Located, NEW t \in Flushes, NEW address \in FlushAddresses, FlushHandler(address, t)
  PROVE  Located'
  <1>1. TraceFlush(t, address) /\ ReportedNow /\ bugs \subseteq bugs' /\ recorded_ops' = recorded_ops
    BY DEF FlushHandler, TraceFlush, ProcessFlush
  <1>2. current_instruction_id' = current_instruction_id + 1
    BY <1>1 DEF TraceFlush, TraceLine
  <1>3. IdsApart' /\ PendingStores' \subseteq PendingStores /\ BlameNow
    BY <1>1, FlushBlames DEF Located
  <1>4. Filled(recorded_ops)' /\ Recorded(recorded_ops', current_instruction_id)
    BY <1>1, <1>3 DEF Located, Filled
  <1>5. SameGarbage(recorded_ops, recorded_ops', current_instruction_id)
    BY <1>1 DEF SameGarbage
  <1> QED
    BY <1>1, <1>2, <1>3, <1>4, <1>5, ReportWhatExecutes

LEMMA LocatedFence ==
  ASSUME Located, FenceHandler
  PROVE  Located'
  <1>1. TraceFence /\ ReportedNow /\ bugs \subseteq bugs' /\ recorded_ops' = Forget(recorded_ops)
    BY DEF FenceHandler, TraceFence, ProcessFence
  <1>2. current_instruction_id' = current_instruction_id + 1
    BY <1>1 DEF TraceFence, TraceLine
  <1>3. IdsApart' /\ PendingStores' \subseteq PendingStores \ PendingIds(fence_pending) /\ BlameNow
    BY <1>1, FenceBlames DEF Located
  <1>4. /\ Recorded(recorded_ops', current_instruction_id)
        /\ SameGarbage(recorded_ops, recorded_ops', current_instruction_id)
        /\ \A i \in PendingStores \ PendingIds(fence_pending) :
             i \in DOMAIN recorded_ops' /\ recorded_ops'[i] = i
    BY <1>1, ForgetKeeps
  <1>5. Filled(recorded_ops)'
    BY <1>3, <1>4 DEF Filled
  <1> QED
    BY <1>1, <1>2, <1>3, <1>4, <1>5, ReportWhatExecutes

(* A locked instruction on volatile memory has no record: what is reported *)
(* from there is Garbage, which is the exception of BugsLocated.           *)
LEMMA LocatedVolatileRMW ==
  ASSUME Located, NEW address, RMWHandler(address, 0)
  PROVE  Located'
  <1> DEFINE n   == current_instruction_id
             ops == Forget(recorded_ops)
  <1>1. TraceRMW(address, 0) /\ ReportedFrom(ops) /\ bugs \subseteq bugs'
    BY DEF RMWHandler, TraceRMW, ProcessRMW
  <1>2. n \in Nat /\ n' = n + 1
    BY <1>1 DEF TraceRMW, TraceLine, Located, IdsApart, IInv
  <1>3. /\ IdsApart' /\ BlameNow
        /\ \A b \in NewBugs : b.type = "UNORDERED_FLUSHES"
        /\ PendingStores' \subseteq PendingStores \ PendingIds(fence_pending)
    BY <1>1, VolatileRMWBlames DEF Located
  <1>4. /\ Recorded(ops, n) /\ SameGarbage(recorded_ops, ops, n)
        /\ \A i \in PendingStores \ PendingIds(fence_pending) : i \in DOMAIN ops /\ ops[i] = i
    BY ForgetKeeps
  <1> HIDE DEF ops
  <1>5. Recorded(ops, n')
    BY <1>2, <1>4 DEF Recorded
  <1>6. \A i \in PendingStores' : i \in DOMAIN ops /\ ops[i] = i
    BY <1>3, <1>4
  <1>7. \A b \in NewBugs : b.type = "UNORDERED_FLUSHES" /\ b.instruction_id = n /\ n < n'
    BY <1>2, <1>3 DEF BlameNow
  <1> QED
    BY <1>1, <1>2, <1>3, <1>4, <1>5, <1>6, <1>7, ReportFromRecords

(* One on persistent memory is recorded after the fence forgets.           *)
LEMMA LocatedRMW ==
  ASSUME Located, NEW s \in StoreShapes, RMWHandler(s[1], s[2])
  PROVE  Located'
  <1> DEFINE n    == current_instruction_id
             kept == Forget(recorded_ops)
             ops  == Record(kept)
  <1>1. TraceRMW(s[1], s[2]) /\ ReportedFrom(ops) /\ bugs \subseteq bugs'
    <2>1. s[2] # 0
      BY ShapesAssumption
    <2> QED
      BY <2>1 DEF RMWHandler, TraceRMW, ProcessRMW
  <1>2. n \in Nat /\ n' = n + 1
    BY <1>1 DEF TraceRMW, TraceLine, Located, IdsApart, IInv
  <1>3. /\ IdsApart'
        /\ PendingStores' \subseteq (PendingStores \ PendingIds(fence_pending)) \cup {n}
        /\ \A b \in NewBugs : b.instruction_id = n \/ b.instruction_id \in PendingIds(flush_pending)
    BY <1>1, RMWBlames DEF Located
  <1>4. /\ Recorded(kept, n) /\ SameGarbage(recorded_ops, kept, n)
        /\ \A i \in PendingStores \ PendingIds(fence_pending) : i \in DOMAIN kept /\ kept[i] = i
    BY ForgetKeeps
  <1> HIDE DEF kept
  <1>5. /\ Recorded(ops, n') /\ SameGarbage(kept, ops, n)
        /\ DOMAIN ops = DOMAIN kept \cup {n}
        /\ \A i \in DOMAIN kept : ops[i] = kept[i]
        /\ ops[n] = n
    BY <1>2, <1>4, RecordKeeps
  <1> HIDE DEF ops
  <1>6. SameGarbage(recorded_ops, ops, n)
    BY <1>4, <1>5, SameGarbageTrans
  <1>7. \A i \in PendingStores' : i \in DOMAIN ops /\ ops[i] = i
    BY <1>3, <1>4, <1>5
  <1>8. \A b \in NewBugs : b.instruction_id \in DOMAIN ops /\ ops[b.instruction_id] = b.instruction_id
    <2>1. \A i \in PendingIds(flush_pending) : i \in PendingStores \ PendingIds(fence_pending)
      BY DEF Located, IdsApart, PendingStores
    <2> QED
      BY <1>3, <1>4, <1>5, <2>1
  <1> QED
    BY <1>1, <1>2, <1>3, <1>5, <1>6, <1>7, <1>8, ReportFromRecords

LEMMA LocatedEnd ==
  ASSUME Located, BeforeFini
  PROVE  Located'
  <1>1. CheckRemainder /\ ReportedFrom(recorded_ops) /\ bugs \subseteq bugs'
    BY DEF BeforeFini, CheckRemainder
  <1>2. /\ current_instruction_id \in Nat
        /\ current_instruction_id' = current_instruction_id
    BY <1>1 DEF CheckRemainder, Located, IdsApart, IInv
  <1>3. IdsApart' /\ PendingStores' = PendingStores /\ BlamePending
    BY <1>1, RemainderBlames DEF Located
  <1>4. /\ Recorded(recorded_ops, current_instruction_id')
        /\ SameGarbage(recorded_ops, recorded_ops, current_instruction_id)
    BY <1>2 DEF Located, SameGarbage
  <1>5. \A i \in PendingStores' : i \in DOMAIN recorded_ops /\ recorded_ops[i] = i
    BY <1>3 DEF Located, Filled
  <1>6. \A b \in NewBugs :
          b.instruction_id \in DOMAIN recorded_ops /\ recorded_ops[b.instruction_id] = b.instruction_id
    BY <1>3 DEF Located, Filled, BlamePending
  <1> QED
    BY <1>1, <1>2, <1>3, <1>4, <1>5, <1>6, ReportFromRecords

LEMMA NextLocated == Located /\ [OntaNext]_ovars => Located'
  <1> SUFFICES ASSUME Located, [OntaNext]_ovars PROVE Located'
    OBVIOUS
  <1>1. ASSUME NEW s \in StoreShapes, NEW is_movnt \in BOOLEAN, WriteHandler(s[1], s[2], is_movnt)
        PROVE  Located'
    BY <1>1, LocatedWrite
  <1>2. ASSUME NEW t \in Flushes, NEW a \in FlushAddresses, FlushHandler(a, t)
        PROVE  Located'
    BY <1>2, LocatedFlush
  <1>3. CASE FenceHandler
    BY <1>3, LocatedFence
  <1>4. ASSUME NEW s \in StoreShapes \cup {<<0, 0>>}, RMWHandler(s[1], s[2])
        PROVE  Located'
    <2>1. CASE s \in StoreShapes
      BY <1>4, <2>1, LocatedRMW
    <2>2. CASE s = <<0, 0>>
      BY <1>4, <2>2, LocatedVolatileRMW
    <2> QED
      BY <2>1, <2>2
  <1>5. CASE BeforeFini
    BY <1>5, LocatedEnd
  <1>6. CASE UNCHANGED ovars
    BY <1>6 DEF ovars, vars, Located, IdsApart, IInv, PendingDisjoint, PendingStores,
                Recorded, Filled, BugsLocated, BlamesVolatileRMW
  <1> QED
    BY <1>1, <1>2, <1>3, <1>4, <1>5, <1>6 DEF OntaNext

(* Whatever the program stores and flushes, aligned or not, the report of  *)
(* the online analysis has the backtrace of the instruction that each bug  *)
(* blames and no other, but for unordered flushes found at a locked        *)
(* instruction on volatile memory.                                         *)
THEOREM OnlineBugsLocated == OntaSpec => []BugsLocated
  <1>1. Located => BugsLocated
    BY DEF Located
  <1> QED
    BY <1>1, InitLocated, NextLocated, PTL DEF OntaSpec
-----------------------------------------------------------------------------
(* The refinement.  What it needs of a state: the types, that the entries  *)
(* are stores of the program, and that no bug is reported in advance.      *)
Mapped ==
  /\ IInv
  /\ InShape(flush_pending)
  /\ InShape(fence_pending)
  /\ \A b \in bugs : b.instruction_id < current_instruction_id

(* A store writes the word it starts at, which is a word of the memory.    *)
LEMMA FirstWord ==
  ASSUME NEW s \in StoreShapes
  PROVE  /\ s[1] \in Nat /\ s[2] \in Nat \ {0}
         /\ s[1] \in Footprint(s[1], s[2])
         /\ Footprint(s[1], s[2]) \subseteq Words
         /\ Footprint(s[1], s[2]) \subseteq Nat
  <1>1. s[1] \in Nat /\ s[2] \in Nat \ {0}
    BY ShapesAssumption
  <1> QED
    BY <1>1 DEF Footprint, Words

LEMMA StartCovered ==
  ASSUME NEW a \in Nat, NEW m \in Nat \ {0}
  PROVE  a \in Footprint(a, m)
  BY DEF Footprint

(* Two stores of the program that share a word are the same store.         *)
LEMMA SharedWord ==
  ASSUME UniformShapes, NEW a, NEW m, NEW b, NEW n, NEW w,
         <<a, m>> \in StoreShapes, <<b, n>> \in StoreShapes,
         w \in Footprint(a, m), w \in Footprint(b, n)
  PROVE  a = b /\ m = n
  <1> DEFINE s == <<a, m>>
             t == <<b, n>>
  <1>1. s = t \/ Footprint(s[1], s[2]) \cap Footprint(t[1], t[2]) = {}
    BY DEF UniformShapes
  <1>2. s = t
    BY <1>1
  <1> QED
    BY <1>2

(* CheckStore takes out the previous write of the same words, if any.      *)
LEMMA CheckStoreCovers ==
  ASSUME UniformShapes, NEW group, NEW states, NEW n \in Nat,
         GroupAt(group, states, n), InShape(group), NEW s \in StoreShapes
  PROVE  \A w : Covers(CheckStore(group, s[1], s[2]), w)
                 <=> Covers(group, w) /\ w \notin Footprint(s[1], s[2])
  <1> DEFINE over == Overwritten(group, s[1], s[2])
             kept == CheckStore(group, s[1], s[2])
  <1>1. /\ s[1] \in Nat /\ s[2] \in Nat \ {0} /\ <<s[1], s[2]>> \in StoreShapes
        /\ s[1] \in Footprint(s[1], s[2])
    BY FirstWord, ShapesAssumption
  <1>2. \A a \in DOMAIN group : /\ <<a, group[a].size>> \in StoreShapes
                                /\ a \in Nat /\ group[a].size \in Nat \ {0}
    BY ShapesAssumption DEF InShape
  <1>3. ASSUME NEW a \in over
        PROVE  a = s[1]
    <2>1. a \in DOMAIN group
      BY DEF Overwritten, CoveredKeys
    <2>2. \E w : w \in Footprint(s[1], s[2]) /\ w \in Footprint(a, group[a].size)
      <3> DEFINE m == group[a].size
      <3>1. a \in Nat /\ m \in Nat \ {0}
        BY <1>2, <2>1
      <3>2. \/ a <= s[1] /\ s[1] + s[2] <= a + m
            \/ s[1] <= a /\ a + m <= s[1] + s[2]
        BY DEF Overwritten, TargetStoreContainsSourceStore, SourceStoreContainsTargetStore
      <3> HIDE DEF m
      <3>3. s[1] \in Footprint(a, m) \/ a \in Footprint(s[1], s[2])
        BY <1>1, <3>1, <3>2 DEF Footprint
      <3>4. a \in Footprint(a, m)
        BY <3>1, StartCovered
      <3> QED
        BY <1>1, <3>3, <3>4 DEF m
    <2> QED
      BY <1>1, <1>2, <2>1, <2>2, SharedWord
  <1>4. s[1] \notin DOMAIN kept
    BY CheckStoreFreesKey
  <1>5. /\ DOMAIN kept = DOMAIN group \ {s[1]}
        /\ \A a \in DOMAIN kept : kept[a] = group[a]
    <2>1. DOMAIN kept = DOMAIN group \ over /\ \A a \in DOMAIN kept : kept[a] = group[a]
      BY DEF CheckStore, Erase, Restrict
    <2> HIDE DEF over, kept
    <2> QED
      BY <1>3, <1>4, <2>1
  <1> HIDE DEF kept
  <1>6. ASSUME NEW w, NEW a \in DOMAIN group, w \in Footprint(a, group[a].size)
        PROVE  w \in Footprint(s[1], s[2]) <=> a = s[1]
    <2>1. ASSUME w \in Footprint(s[1], s[2])
          PROVE  a = s[1]
      BY <1>1, <1>2, <1>6, <2>1, SharedWord
    <2>2. ASSUME a = s[1]
          PROVE  w \in Footprint(s[1], s[2])
      <3>1. a \in Footprint(a, group[a].size)
        BY <1>2, StartCovered
      <3>2. group[a].size = s[2]
        BY <1>1, <1>2, <2>2, <3>1, SharedWord
      <3> QED
        BY <1>6, <2>2, <3>2
    <2> QED
      BY <2>1, <2>2
  <1>7. \A w : Covers(kept, w) <=> Covers(group, w) /\ w \notin Footprint(s[1], s[2])
    BY <1>5, <1>6 DEF Covers
  <1> QED
    BY <1>7 DEF kept

(* An insertion under free keys adds the words of its entries.             *)
LEMMA InsertCovers ==
  ASSUME NEW group, NEW entries, DOMAIN group \cap DOMAIN entries = {}
  PROVE  \A w : Covers(Insert(group, entries), w) <=> Covers(group, w) \/ Covers(entries, w)
  <1>1. /\ DOMAIN Insert(group, entries) = DOMAIN group \cup DOMAIN entries
        /\ \A a \in DOMAIN group : Insert(group, entries)[a] = group[a]
        /\ \A a \in DOMAIN entries : Insert(group, entries)[a] = entries[a]
    BY DEF Insert
  <1> HIDE DEF Insert
  <1> QED
    BY <1>1 DEF Covers

LEMMA NothingCovered == \A w : ~Covers(NoStores, w)
  BY DEF Covers, NoStores

(* A new store, in the map it goes to.                                     *)
LEMMA StoredCovers ==
  ASSUME NEW group, NEW states, NEW n \in Nat, GroupAt(group, states, n),
         InShape(group), UniformShapes, NEW s \in StoreShapes,
         NEW entry, DOMAIN entry = {s[1]}, entry[s[1]].size = s[2]
  PROVE  /\ \A w : Covers(Insert(CheckStore(group, s[1], s[2]), entry), w)
                    <=> Covers(group, w) \/ w \in Footprint(s[1], s[2])
         /\ InShape(Insert(CheckStore(group, s[1], s[2]), entry))
  <1> DEFINE kept == CheckStore(group, s[1], s[2])
  <1>1. s[1] \notin DOMAIN kept
    BY CheckStoreFreesKey
  <1>2. \A w : Covers(kept, w) <=> Covers(group, w) /\ w \notin Footprint(s[1], s[2])
    BY CheckStoreCovers
  <1>3. InShape(kept)
    BY CheckStoreShape
  <1> HIDE DEF kept
  <1>4. \A w : Covers(entry, w) <=> w \in Footprint(s[1], s[2])
    BY DEF Covers
  <1>5. \A w : Covers(Insert(kept, entry), w) <=> Covers(kept, w) \/ Covers(entry, w)
    BY <1>1, InsertCovers
  <1>6. InShape(Insert(kept, entry))
    <2>1. InShape(entry)
      BY ShapesAssumption DEF InShape
    <2> QED
      BY <1>3, <2>1, InsertShape
  <1> QED
    BY <1>2, <1>4, <1>5, <1>6 DEF kept

(* The two maps cover no word both: a word has one status.                 *)
LEMMA CoversApart ==
  ASSUME UniformShapes, Mapped
  PROVE  \A w : ~(Covers(flush_pending, w) /\ Covers(fence_pending, w))
  <1> SUFFICES ASSUME NEW a \in DOMAIN flush_pending, NEW b \in DOMAIN fence_pending, NEW w,
                      w \in Footprint(a, flush_pending[a].size),
                      w \in Footprint(b, fence_pending[b].size)
               PROVE  FALSE
    BY DEF Covers
  <1>1. <<a, flush_pending[a].size>> \in StoreShapes /\ <<b, fence_pending[b].size>> \in StoreShapes
    BY DEF Mapped, InShape
  <1>2. a = b
    BY <1>1, SharedWord
  <1> QED
    BY <1>2 DEF Mapped, IInv, PendingDisjoint

(* A flush moves the words of its line.                                    *)
LEMMA FlushCovers ==
  ASSUME StoresInLine, FlushesLineStarts, NEW t \in Flushes, NEW address \in FlushAddresses,
         Mapped, TraceFlush(t, address)
  PROVE  \A w : /\ Covers(flush_pending', w) <=> Covers(flush_pending, w) /\ LineOf(w) # LineOf(address)
                /\ Covers(fence_pending', w) <=> \/ Covers(fence_pending, w)
                                                 \/ Covers(flush_pending, w) /\ LineOf(w) = LineOf(address)
  <1> DEFINE line  == {a \in DOMAIN flush_pending : LineOf(a) = LineOf(address)}
             keys  == FlushedKeys(flush_pending, address)
             moved == [a \in keys |-> flush(flush_pending[a])]
  <1>1. keys = line /\ MarkPartial(flush_pending, address) = flush_pending
    BY FlushTakesLine DEF Mapped, IInv, LineOf
  <1>2. /\ flush_pending' = Erase(flush_pending, line)
        /\ fence_pending' = Insert(fence_pending, moved)
    BY <1>1 DEF TraceFlush, ProcessFlush
  <1>3. /\ DOMAIN flush_pending' = DOMAIN flush_pending \ line
        /\ \A a \in DOMAIN flush_pending' : flush_pending'[a] = flush_pending[a]
    BY <1>2 DEF Erase, Restrict
  <1>4. DOMAIN moved = line /\ \A a \in line : moved[a].size = flush_pending[a].size
    <2>1. \A a \in line : flush(flush_pending[a]).size = flush_pending[a].size
      BY DEF Mapped, IInv, GroupAt, Store, flush
    <2> QED
      BY <1>1, <2>1
  <1>5. \A w : Covers(fence_pending', w) <=> Covers(fence_pending, w) \/ Covers(moved, w)
    <2>1. DOMAIN fence_pending \cap DOMAIN moved = {}
      BY <1>4 DEF Mapped, IInv, PendingDisjoint
    <2> HIDE DEF moved
    <2> QED
      BY <1>2, <2>1, InsertCovers
  <1>6. \A a \in DOMAIN flush_pending : \A w \in Footprint(a, flush_pending[a].size) : LineOf(w) = LineOf(a)
    <2> SUFFICES ASSUME NEW a \in DOMAIN flush_pending, NEW w \in Footprint(a, flush_pending[a].size)
                 PROVE  LineOf(w) = LineOf(a)
      OBVIOUS
    <2> DEFINE s == <<a, flush_pending[a].size>>
    <2>1. s \in StoreShapes
      BY DEF Mapped, InShape
    <2>2. w \in s[1] .. (s[1] + s[2] - 1)
      BY DEF Footprint
    <2>3. w \div CACHELINE_SIZE = s[1] \div CACHELINE_SIZE
      BY <2>1, <2>2, StoreLine
    <2> QED
      BY <2>3 DEF LineOf
  <1> HIDE DEF moved, keys
  <1>7. \A w : Covers(flush_pending', w) <=> Covers(flush_pending, w) /\ LineOf(w) # LineOf(address)
    BY <1>3, <1>6 DEF Covers
  <1>8. \A w : Covers(moved, w) <=> Covers(flush_pending, w) /\ LineOf(w) = LineOf(address)
    BY <1>4, <1>6 DEF Covers
  <1> QED
    BY <1>5, <1>7, <1>8
-----------------------------------------------------------------------------
(* Each instruction does to MappedStatus what it does to the memory.       *)
LEMMA MapsTo ==
  /\ MappedStatus' = [w \in Words |-> IF Covers(flush_pending, w)' THEN "dirty"
                                      ELSE IF Covers(fence_pending, w)' THEN "flushing" ELSE "persisted"]
  /\ \A w \in Words : MappedStatus[w] = IF Covers(flush_pending, w) THEN "dirty"
                       ELSE IF Covers(fence_pending, w) THEN "flushing" ELSE "persisted"
  BY DEF MappedStatus, Covers

LEMMA StoreMaps ==
  ASSUME UniformShapes, Mapped, NEW s \in StoreShapes, TraceStore(s[1], s[2], FALSE)
  PROVE  /\ PM!StoreWords(Footprint(s[1], s[2]))
         /\ InShape(flush_pending)' /\ InShape(fence_pending)'
  <1> DEFINE f     == Footprint(s[1], s[2])
             entry == [a \in {s[1]} |-> NewStore(s[2], current_instruction_id, "MODIFIED")]
  <1>1. /\ flush_pending' = Insert(CheckStore(flush_pending, s[1], s[2]), entry)
        /\ fence_pending' = CheckStore(fence_pending, s[1], s[2])
    BY DEF TraceStore, ProcessStore
  <1>2. DOMAIN entry = {s[1]} /\ entry[s[1]].size = s[2]
    BY DEF NewStore
  <1> HIDE DEF entry
  <1>3. (\A w : Covers(flush_pending', w) <=> Covers(flush_pending, w) \/ w \in f) /\ InShape(flush_pending')
    BY <1>1, <1>2, StoredCovers DEF Mapped, IInv
  <1>4. (\A w : Covers(fence_pending', w) <=> Covers(fence_pending, w) /\ w \notin f) /\ InShape(fence_pending')
    BY <1>1, CheckStoreCovers, CheckStoreShape DEF Mapped, IInv
  <1>5. \A w : /\ Covers(flush_pending, w)' <=> Covers(flush_pending', w)
               /\ Covers(fence_pending, w)' <=> Covers(fence_pending', w)
    BY DEF Covers
  <1> HIDE DEF f
  <1>6. MappedStatus' = PM!Stored(MappedStatus, f)
    BY <1>3, <1>4, <1>5, MapsTo DEF PM!Stored
  <1> QED
    BY <1>3, <1>4, <1>6 DEF PM!StoreWords, InShape, f

LEMMA NTStoreMaps ==
  ASSUME UniformShapes, Mapped, NEW s \in StoreShapes, TraceStore(s[1], s[2], TRUE)
  PROVE  /\ PM!NTStoreWords(Footprint(s[1], s[2]))
         /\ InShape(flush_pending)' /\ InShape(fence_pending)'
  <1> DEFINE f     == Footprint(s[1], s[2])
             entry == [a \in {s[1]} |-> NewStore(s[2], current_instruction_id, "FLUSHED")]
  <1>1. /\ flush_pending' = CheckStore(flush_pending, s[1], s[2])
        /\ fence_pending' = Insert(CheckStore(fence_pending, s[1], s[2]), entry)
    BY DEF TraceStore, ProcessStore
  <1>2. DOMAIN entry = {s[1]} /\ entry[s[1]].size = s[2]
    BY DEF NewStore
  <1> HIDE DEF entry
  <1>3. (\A w : Covers(flush_pending', w) <=> Covers(flush_pending, w) /\ w \notin f) /\ InShape(flush_pending')
    BY <1>1, CheckStoreCovers, CheckStoreShape DEF Mapped, IInv
  <1>4. (\A w : Covers(fence_pending', w) <=> Covers(fence_pending, w) \/ w \in f) /\ InShape(fence_pending')
    BY <1>1, <1>2, StoredCovers DEF Mapped, IInv
  <1>5. \A w : /\ Covers(flush_pending, w)' <=> Covers(flush_pending', w)
               /\ Covers(fence_pending, w)' <=> Covers(fence_pending', w)
    BY DEF Covers
  <1> HIDE DEF f
  <1>6. MappedStatus' = PM!NTStored(MappedStatus, f)
    BY <1>3, <1>4, <1>5, MapsTo DEF PM!NTStored
  <1> QED
    BY <1>3, <1>4, <1>6 DEF PM!NTStoreWords, InShape, f

LEMMA RMWMaps ==
  ASSUME UniformShapes, Mapped, NEW s \in StoreShapes, TraceRMW(s[1], s[2])
  PROVE  /\ PM!LockedUpdate(Footprint(s[1], s[2]))
         /\ InShape(flush_pending)' /\ InShape(fence_pending)'
  <1> DEFINE f     == Footprint(s[1], s[2])
             entry == [a \in {s[1]} |-> NewStore(s[2], current_instruction_id, "MODIFIED")]
  <1>1. /\ flush_pending' = Insert(CheckStore(flush_pending, s[1], s[2]), entry)
        /\ fence_pending' = NoStores
    <2>1. s[2] # 0
      BY ShapesAssumption
    <2> QED
      BY <2>1 DEF TraceRMW, ProcessRMW
  <1>2. DOMAIN entry = {s[1]} /\ entry[s[1]].size = s[2]
    BY DEF NewStore
  <1> HIDE DEF entry
  <1>3. (\A w : Covers(flush_pending', w) <=> Covers(flush_pending, w) \/ w \in f) /\ InShape(flush_pending')
    BY <1>1, <1>2, StoredCovers DEF Mapped, IInv
  <1>4. (\A w : ~Covers(fence_pending', w)) /\ InShape(fence_pending')
    BY <1>1, NothingCovered DEF InShape, NoStores
  <1>5. \A w : /\ Covers(flush_pending, w)' <=> Covers(flush_pending', w)
               /\ Covers(fence_pending, w)' <=> Covers(fence_pending', w)
    BY DEF Covers
  <1> HIDE DEF f
  <1>6. MappedStatus' = PM!Stored(PM!Fenced(MappedStatus), f)
    BY <1>3, <1>4, <1>5, MapsTo DEF PM!Stored, PM!Fenced
  <1> QED
    BY <1>3, <1>4, <1>6 DEF PM!LockedUpdate, InShape, f

LEMMA FenceMaps ==
  ASSUME Mapped, flush_pending' = flush_pending, fence_pending' = NoStores
  PROVE  PM!Fence /\ InShape(flush_pending)' /\ InShape(fence_pending)'
  <1>1. \A w : Covers(flush_pending, w)' <=> Covers(flush_pending, w)
    BY DEF Covers
  <1>2. \A w : ~Covers(fence_pending, w)'
    BY NothingCovered DEF Covers
  <1>3. MappedStatus' = PM!Fenced(MappedStatus)
    BY <1>1, <1>2, MapsTo DEF PM!Fenced
  <1>4. InShape(flush_pending)' /\ InShape(fence_pending)'
    BY DEF Mapped, InShape, NoStores
  <1> QED
    BY <1>3, <1>4 DEF PM!Fence

LEMMA FlushMaps ==
  ASSUME StoresInLine, FlushesLineStarts, Mapped,
         NEW t \in Flushes, NEW address \in FlushAddresses, TraceFlush(t, address)
  PROVE  PM!FlushLine(LineOf(address)) /\ InShape(flush_pending)' /\ InShape(fence_pending)'
  <1>1. \A w : /\ Covers(flush_pending', w) <=> Covers(flush_pending, w) /\ LineOf(w) # LineOf(address)
               /\ Covers(fence_pending', w) <=> \/ Covers(fence_pending, w)
                                                \/ Covers(flush_pending, w) /\ LineOf(w) = LineOf(address)
    BY FlushCovers
  <1>2. MappedStatus' = PM!LineFlushed(MappedStatus, LineOf(address))
    <2> DEFINE line    == LineOf(address)
               then(w) == IF Covers(flush_pending', w) THEN "dirty"
                          ELSE IF Covers(fence_pending', w) THEN "flushing" ELSE "persisted"
               now(w)  == IF LineOf(w) = line /\ MappedStatus[w] = "dirty"
                          THEN "flushing" ELSE MappedStatus[w]
    <2>1. ASSUME NEW w \in Words
          PROVE  then(w) = now(w)
      <3>1. MappedStatus[w] = IF Covers(flush_pending, w) THEN "dirty"
                              ELSE IF Covers(fence_pending, w) THEN "flushing" ELSE "persisted"
        BY MapsTo
      <3>2. CASE LineOf(w) = LineOf(address)
        BY <1>1, <3>1, <3>2
      <3>3. CASE LineOf(w) # LineOf(address)
        BY <1>1, <3>1, <3>3
      <3> QED
        BY <3>2, <3>3
    <2>2. MappedStatus' = [w \in Words |-> then(w)]
      BY DEF MappedStatus, Covers
    <2>3. PM!LineFlushed(MappedStatus, line) = [w \in Words |-> now(w)]
      BY DEF PM!LineFlushed
    <2> HIDE DEF then, now
    <2> QED
      BY <2>1, <2>2, <2>3
  <1> DEFINE keys  == FlushedKeys(flush_pending, address)
             moved == [a \in keys |-> flush(flush_pending[a])]
  <1>3. /\ flush_pending' = Erase(MarkPartial(flush_pending, address), keys)
        /\ fence_pending' = Insert(fence_pending, moved)
    BY DEF TraceFlush, ProcessFlush
  <1>4. keys \subseteq DOMAIN flush_pending /\ MarkPartial(flush_pending, address) = flush_pending
    BY FlushTakesLine DEF Mapped, IInv
  <1>5. InShape(flush_pending')
    BY <1>3, <1>4 DEF Mapped, InShape, Erase, Restrict
  <1>6. InShape(moved)
    <2>1. \A a \in keys : flush(flush_pending[a]).size = flush_pending[a].size
      BY <1>4 DEF Mapped, IInv, GroupAt, Store, flush
    <2> QED
      BY <1>4, <2>1 DEF Mapped, InShape
  <1>7. InShape(fence_pending')
    <2> HIDE DEF moved
    <2> QED
      BY <1>3, <1>6, InsertShape DEF Mapped
  <1> QED
    BY <1>2, <1>5, <1>7 DEF PM!FlushLine, InShape

LEMMA MappedBugs ==
  ASSUME Mapped, bugs' \subseteq bugs \cup {b \in Bug : b.instruction_id <= current_instruction_id},
         current_instruction_id' = current_instruction_id + 1
  PROVE  (\A b \in bugs : b.instruction_id < current_instruction_id)'
  <1>1. \A b \in bugs' : b.instruction_id \in Nat /\ b.instruction_id <= current_instruction_id
    BY DEF Mapped, IInv, Bug
  <1> QED
    BY <1>1 DEF Mapped, IInv

(* What an instruction reports names itself or a store that waits.         *)
LEMMA ReportsBounded ==
  ASSUME IInv, NEW type \in BugType, NEW group, NEW states,
         GroupAt(group, states, current_instruction_id)
  PROVE  /\ BugsAt(type, {current_instruction_id}) \subseteq
              {b \in Bug : b.instruction_id <= current_instruction_id}
         /\ \A address, size : OverwrittenBugs(group, address, size, type) \subseteq
              {b \in Bug : b.instruction_id <= current_instruction_id}
         /\ \A b \in BugsAt(type, PendingIds(group)) : b.instruction_id < current_instruction_id
  <1>1. PendingIds(group) \subseteq Nat /\ \A i \in PendingIds(group) : i < current_instruction_id
    BY PendingIdsTyped DEF IInv
  <1>2. current_instruction_id \in Nat
    BY DEF IInv
  <1>3. ASSUME NEW address, NEW size
        PROVE  OverwrittenBugs(group, address, size, type) \subseteq
                 {b \in Bug : b.instruction_id <= current_instruction_id}
    <2> SUFFICES ASSUME NEW b \in OverwrittenBugs(group, address, size, type)
                 PROVE  b \in Bug /\ b.instruction_id <= current_instruction_id
      OBVIOUS
    <2>1. b.instruction_id \in PendingIds(group)
      BY OverwrittenPending
    <2>2. b.instruction_id \in Nat /\ b.instruction_id <= current_instruction_id
      BY <1>1, <1>2, <2>1
    <2>3. \E i \in Nat : b = [type |-> type, instruction_id |-> i]
      <3>1. \E i : b = [type |-> type, instruction_id |-> i]
        BY DEF OverwrittenBugs, BugsAt
      <3> QED
        BY <2>2, <3>1
    <2> QED
      BY <2>2, <2>3 DEF Bug
  <1>4. BugsAt(type, {current_instruction_id}) \subseteq
          {b \in Bug : b.instruction_id <= current_instruction_id}
    BY <1>2 DEF BugsAt, Bug
  <1>5. \A b \in BugsAt(type, PendingIds(group)) : b.instruction_id < current_instruction_id
    BY <1>1 DEF BugsAt
  <1> QED
    BY <1>3, <1>4, <1>5

LEMMA InitMapped == OntaInit => Mapped /\ PM!Init
  <1> SUFFICES ASSUME OntaInit PROVE Mapped /\ PM!Init
    OBVIOUS
  <1>1. IInv /\ flush_pending = NoStores /\ fence_pending = NoStores /\ bugs = {}
    BY InitIInv DEF OntaInit, Init
  <1>2. InShape(flush_pending) /\ InShape(fence_pending)
    BY <1>1 DEF InShape, NoStores
  <1>3. MappedStatus = [w \in Words |-> "persisted"]
    BY <1>1, NothingCovered DEF MappedStatus
  <1> QED
    BY <1>1, <1>2, <1>3 DEF Mapped, PM!Init

(* Every step of the analysis keeps Mapped and is one of the memory's.     *)
LEMMA NextMapped ==
  ASSUME UniformShapes, StoresInLine, FlushesLineStarts, Mapped, [OntaNext]_ovars
  PROVE  Mapped' /\ [PM!Next]_MappedStatus
  <1> DEFINE upto == {b \in Bug : b.instruction_id <= current_instruction_id}
  <1>1. ASSUME NEW s \in StoreShapes, NEW is_movnt \in BOOLEAN, TraceStore(s[1], s[2], is_movnt)
        PROVE  Mapped' /\ PM!Next
    <2>1. IInv'
      BY <1>1, StoreStep DEF Mapped
    <2>2. (\A b \in bugs : b.instruction_id < current_instruction_id)'
      <3>1. current_instruction_id' = current_instruction_id + 1
        BY <1>1 DEF TraceStore, TraceLine
      <3>2. /\ OverwrittenBugs(flush_pending, s[1], s[2], "OVERWRITTEN_UNFLUSHED") \subseteq upto
            /\ OverwrittenBugs(fence_pending, s[1], s[2], "OVERWRITTEN_UNFENCED") \subseteq upto
        BY ReportsBounded DEF Mapped, IInv, BugType
      <3>3. bugs' \subseteq bugs \cup upto
        BY <1>1, <3>2 DEF TraceStore, ProcessStore
      <3> QED
        BY <3>1, <3>3, MappedBugs
    <2>3. Footprint(s[1], s[2]) \in Footprints
      BY DEF Footprints
    <2>4. CASE is_movnt = TRUE
      <3>1. PM!NTStoreWords(Footprint(s[1], s[2])) /\ InShape(flush_pending)' /\ InShape(fence_pending)'
        BY <1>1, <2>4, NTStoreMaps
      <3> QED
        BY <2>1, <2>2, <2>3, <3>1 DEF Mapped, PM!Next
    <2>5. CASE is_movnt = FALSE
      <3>1. PM!StoreWords(Footprint(s[1], s[2])) /\ InShape(flush_pending)' /\ InShape(fence_pending)'
        BY <1>1, <2>5, StoreMaps
      <3> QED
        BY <2>1, <2>2, <2>3, <3>1 DEF Mapped, PM!Next
    <2> QED
      BY <2>4, <2>5
  <1>2. ASSUME NEW t \in Flushes, NEW a \in FlushAddresses, TraceFlush(t, a)
        PROVE  Mapped' /\ [PM!Next]_MappedStatus
    <2>1. IInv'
      BY <1>2, FlushStep DEF Mapped
    <2>2. (\A b \in bugs : b.instruction_id < current_instruction_id)'
      <3>1. current_instruction_id' = current_instruction_id + 1
        BY <1>2 DEF TraceFlush, TraceLine
      <3>2. BugsAt("REDUNDANT_FLUSH", {current_instruction_id}) \subseteq upto
        BY ReportsBounded DEF Mapped, IInv, BugType
      <3>3. bugs' \subseteq bugs \cup upto
        BY <1>2, <3>2 DEF TraceFlush, ProcessFlush
      <3> QED
        BY <3>1, <3>3, MappedBugs
    <2>3. PM!FlushLine(LineOf(a)) /\ InShape(flush_pending)' /\ InShape(fence_pending)'
      BY <1>2, FlushMaps
    <2>4. [PM!Next]_MappedStatus
      <3>1. CASE \E w \in Words : LineOf(w) = LineOf(a)
        <4>1. PICK w \in Words : LineOf(w) = LineOf(a)
          BY <3>1
        <4>2. PM!FlushLine(LineOf(w))
          BY <2>3, <4>1
        <4> QED
          BY <4>2 DEF PM!Next
      <3>2. CASE ~ \E w \in Words : LineOf(w) = LineOf(a)
        <4>1. PM!LineFlushed(MappedStatus, LineOf(a)) = MappedStatus
          BY <3>2 DEF PM!LineFlushed, MappedStatus
        <4> QED
          BY <2>3, <4>1 DEF PM!FlushLine
      <3> QED
        BY <3>1, <3>2
    <2> QED
      BY <2>1, <2>2, <2>3, <2>4 DEF Mapped
  <1>3. ASSUME NEW is_rmw \in BOOLEAN
        PROVE  FenceBugs(current_instruction_id, is_rmw) \subseteq upto
    BY ReportsBounded DEF FenceBugs, Mapped, IInv, BugType
  <1>4. CASE TraceFence
    <2>1. IInv'
      BY <1>4, FenceStep DEF Mapped
    <2>2. (\A b \in bugs : b.instruction_id < current_instruction_id)'
      BY <1>3, <1>4, MappedBugs DEF TraceFence, TraceLine, ProcessFence
    <2>3. PM!Fence /\ InShape(flush_pending)' /\ InShape(fence_pending)'
      BY <1>4, FenceMaps DEF TraceFence, ProcessFence
    <2> QED
      BY <2>1, <2>2, <2>3 DEF Mapped, PM!Next
  <1>5. CASE TraceRMW(0, 0)
    <2>1. IInv'
      BY <1>5, RMWStep DEF Mapped
    <2>2. (\A b \in bugs : b.instruction_id < current_instruction_id)'
      BY <1>3, <1>5, MappedBugs DEF TraceRMW, TraceLine, ProcessRMW
    <2>3. PM!Fence /\ InShape(flush_pending)' /\ InShape(fence_pending)'
      BY <1>5, FenceMaps DEF TraceRMW, ProcessRMW
    <2> QED
      BY <2>1, <2>2, <2>3 DEF Mapped, PM!Next
  <1>6. ASSUME NEW s \in StoreShapes, TraceRMW(s[1], s[2])
        PROVE  Mapped' /\ PM!Next
    <2>1. IInv'
      <3>1. <<s[1], s[2]>> \in StoreShapes
        BY ShapesAssumption
      <3> QED
        BY <1>6, <3>1, RMWStep DEF Mapped
    <2>2. (\A b \in bugs : b.instruction_id < current_instruction_id)'
      <3>1. current_instruction_id' = current_instruction_id + 1
        BY <1>6 DEF TraceRMW, TraceLine
      <3>2. OverwrittenBugs(flush_pending, s[1], s[2], "OVERWRITTEN_UNFLUSHED") \subseteq upto
        BY ReportsBounded DEF Mapped, IInv, BugType
      <3>3. bugs' \subseteq bugs \cup upto
        BY <1>3, <1>6, <3>2 DEF TraceRMW, ProcessRMW
      <3> QED
        BY <3>1, <3>3, MappedBugs
    <2>3. PM!LockedUpdate(Footprint(s[1], s[2])) /\ InShape(flush_pending)' /\ InShape(fence_pending)'
      BY <1>6, RMWMaps
    <2>4. Footprint(s[1], s[2]) \in Footprints
      BY DEF Footprints
    <2> QED
      BY <2>1, <2>2, <2>3, <2>4 DEF Mapped, PM!Next
  <1>7. CASE CheckRemainder
    <2>1. IInv'
      BY <1>7, RemainderStep DEF Mapped
    <2>2. (\A b \in bugs : b.instruction_id < current_instruction_id)'
      <3>1. /\ \A b \in BugsAt("MISSING_FLUSH", PendingIds(flush_pending)) : b.instruction_id < current_instruction_id
            /\ \A b \in BugsAt("MISSING_FENCE", PendingIds(fence_pending)) : b.instruction_id < current_instruction_id
        BY ReportsBounded DEF Mapped, IInv, BugType
      <3> QED
        BY <1>7, <3>1 DEF CheckRemainder, Mapped
    <2>3. UNCHANGED <<flush_pending, fence_pending>>
      BY <1>7 DEF CheckRemainder
    <2> QED
      BY <2>1, <2>2, <2>3 DEF Mapped, InShape, MappedStatus, Covers
  <1>8. CASE UNCHANGED ovars
    BY <1>8 DEF ovars, vars, Mapped, IInv, PendingDisjoint, InShape, MappedStatus, Covers
  <1>9. ASSUME NEW s \in StoreShapes \cup {<<0, 0>>}, RMWHandler(s[1], s[2])
        PROVE  Mapped' /\ [PM!Next]_MappedStatus
    <2>1. TraceRMW(s[1], s[2])
      BY <1>9 DEF RMWHandler
    <2>2. CASE s \in StoreShapes
      BY <1>6, <2>1, <2>2
    <2>3. CASE s = <<0, 0>>
      BY <1>5, <2>1, <2>3
    <2> QED
      BY <2>2, <2>3
  <1> QED
    BY <1>1, <1>2, <1>4, <1>7, <1>8, <1>9 DEF OntaNext, WriteHandler, FlushHandler, FenceHandler, BeforeFini

(* For programs whose stores are equal or disjoint, stay in a line and are *)
(* flushed by line starts: read off its two maps, the Processer is the     *)
(* machine's memory, step by step and instruction by instruction.          *)
THEOREM OntaImplementsMemory ==
  ASSUME UniformShapes, StoresInLine, FlushesLineStarts
  PROVE  OntaSpec => ImplementsMemory
  <1>1. Mapped => SameInstruction
    BY StoreMaps, NTStoreMaps, RMWMaps, FlushMaps, FenceMaps
       DEF SameInstruction, TraceFence, ProcessFence
  <1>2. Mapped /\ [OntaNext]_ovars => Mapped' /\ [PM!Next]_MappedStatus
    BY NextMapped
  <1>3. OntaSpec => []Mapped
    BY InitMapped, <1>2, PTL DEF OntaSpec
  <1>4. OntaSpec => PM!Spec
    BY InitMapped, <1>2, <1>3, PTL DEF OntaSpec, PM!Spec
  <1>5. OntaSpec => [][SameInstruction]_vars
    BY <1>1, <1>3, PTL
  <1> QED
    BY <1>4, <1>5 DEF ImplementsMemory
-----------------------------------------------------------------------------
(* No report bears an id that is still to be given out, so one that bears  *)
(* the id of the instruction that executes is made now.                    *)
LEMMA ReportedWhen ==
  ASSUME Mapped, NEW type, NEW type2, NEW ids, bugs' = bugs \cup BugsAt(type2, ids)
  PROVE  Reported(type) <=> type = type2 /\ current_instruction_id \in ids
  <1> DEFINE b == [type |-> type, instruction_id |-> current_instruction_id]
  <1>1. b \notin bugs
    BY DEF Mapped, IInv
  <1>2. b \in BugsAt(type2, ids) <=> type = type2 /\ current_instruction_id \in ids
    BY DEF BugsAt
  <1> QED
    BY <1>1, <1>2 DEF Reported

LEMMA RedundantFlush ==
  ASSUME StoresInLine, FlushesLineStarts, Mapped,
         NEW t \in Flushes, NEW address \in FlushAddresses, TraceFlush(t, address)
  PROVE  Reported("REDUNDANT_FLUSH") <=> PM!LineFlushed(MappedStatus, LineOf(address)) = MappedStatus
  <1> DEFINE line == {a \in DOMAIN flush_pending : LineOf(a) = LineOf(address)}
             hit  == Inside(flush_pending, address) \cup PartiallyInside(flush_pending, address) # {}
  <1>1. hit <=> line # {}
    BY FlushTakesLine DEF Mapped, IInv, LineOf
  <1>2. bugs' = bugs \cup BugsAt("REDUNDANT_FLUSH", IF hit THEN {} ELSE {current_instruction_id})
    BY DEF TraceFlush, ProcessFlush, BugsAt
  <1>3. Reported("REDUNDANT_FLUSH") <=> line = {}
    <2> HIDE DEF hit, line
    <2> QED
      BY <1>1, <1>2, ReportedWhen
  <1>4. ASSUME NEW a \in line
        PROVE  PM!LineFlushed(MappedStatus, LineOf(address)) # MappedStatus
    <2> DEFINE s == <<a, flush_pending[a].size>>
    <2>1. s \in StoreShapes
      BY DEF Mapped, InShape
    <2>2. a \in Footprint(a, flush_pending[a].size) /\ a \in Words
      BY <2>1, FirstWord
    <2>3. MappedStatus[a] = "dirty"
      BY <2>2 DEF MappedStatus, Covers
    <2>4. PM!LineFlushed(MappedStatus, LineOf(address))[a] = "flushing"
      BY <2>2, <2>3 DEF PM!LineFlushed
    <2> QED
      BY <2>3, <2>4
  <1>5. ASSUME line = {}
        PROVE  PM!LineFlushed(MappedStatus, LineOf(address)) = MappedStatus
    <2>1. \A w \in Words : Covers(flush_pending, w) => LineOf(w) # LineOf(address)
      <3> SUFFICES ASSUME NEW w, NEW a \in DOMAIN flush_pending, w \in Footprint(a, flush_pending[a].size)
                   PROVE  LineOf(w) # LineOf(address)
        BY DEF Covers
      <3> DEFINE s == <<a, flush_pending[a].size>>
      <3>1. s \in StoreShapes /\ w \in s[1] .. (s[1] + s[2] - 1)
        BY DEF Mapped, InShape, Footprint
      <3>2. LineOf(w) = LineOf(a)
        BY <3>1, StoreLine DEF LineOf
      <3> QED
        BY <1>5, <3>2
    <2>2. \A w \in Words : MappedStatus[w] = "dirty" => Covers(flush_pending, w)
      BY DEF MappedStatus
    <2>3. \A w \in Words : ~(LineOf(w) = LineOf(address) /\ MappedStatus[w] = "dirty")
      BY <2>1, <2>2
    <2>4. MappedStatus = [w \in Words |-> MappedStatus[w]]
      BY DEF MappedStatus
    <2> QED
      BY <2>3, <2>4 DEF PM!LineFlushed
  <1> QED
    BY <1>3, <1>4, <1>5

LEMMA RedundantFence ==
  ASSUME UniformShapes, Mapped, TraceFence
  PROVE  Reported("REDUNDANT_FENCE") <=> PM!Fenced(MappedStatus) = MappedStatus
  <1>1. Reported("REDUNDANT_FENCE") <=> DOMAIN fence_pending = {}
    <2> DEFINE b == [type |-> "REDUNDANT_FENCE", instruction_id |-> current_instruction_id]
    <2>1. b \notin bugs
      BY DEF Mapped, IInv
    <2>2. bugs' = bugs \cup FenceBugs(current_instruction_id, FALSE)
      BY DEF TraceFence, ProcessFence
    <2>3. b \in FenceBugs(current_instruction_id, FALSE) <=> DOMAIN fence_pending = {}
      BY DEF FenceBugs, BugsAt
    <2> QED
      BY <2>1, <2>2, <2>3 DEF Reported
  <1>2. ASSUME NEW a \in DOMAIN fence_pending
        PROVE  PM!Fenced(MappedStatus) # MappedStatus
    <2> DEFINE s == <<a, fence_pending[a].size>>
    <2>1. s \in StoreShapes
      BY DEF Mapped, InShape
    <2>2. a \in Footprint(a, fence_pending[a].size) /\ a \in Words
      BY <2>1, FirstWord
    <2>3. Covers(fence_pending, a) /\ ~Covers(flush_pending, a)
      BY <2>2, CoversApart DEF Covers
    <2>4. MappedStatus[a] = "flushing"
      BY <2>2, <2>3 DEF MappedStatus
    <2>5. PM!Fenced(MappedStatus)[a] = "persisted"
      BY <2>2, <2>4 DEF PM!Fenced
    <2> QED
      BY <2>4, <2>5
  <1>3. ASSUME DOMAIN fence_pending = {}
        PROVE  PM!Fenced(MappedStatus) = MappedStatus
    <2>1. \A w \in Words : MappedStatus[w] # "flushing"
      BY <1>3 DEF MappedStatus, Covers
    <2>2. MappedStatus = [w \in Words |-> MappedStatus[w]]
      BY DEF MappedStatus
    <2> QED
      BY <2>1, <2>2 DEF PM!Fenced
  <1> QED
    BY <1>1, <1>2, <1>3

(* For the same programs, a flush or a fence is reported redundant exactly *)
(* when the machine had nothing to do for it: no report is spurious and    *)
(* none is missed.                                                         *)
THEOREM OntaRedundantExact ==
  ASSUME UniformShapes, StoresInLine, FlushesLineStarts
  PROVE  OntaSpec => RedundantExact
  <1>1. Mapped /\ [OntaNext]_ovars => Mapped'
    BY NextMapped
  <1>2. OntaSpec => []Mapped
    BY InitMapped, <1>1, PTL DEF OntaSpec
  <1> DEFINE exact ==
        /\ \A t \in Flushes, a \in FlushAddresses :
             TraceFlush(t, a) =>
               (Reported("REDUNDANT_FLUSH") <=> PM!LineFlushed(MappedStatus, LineOf(a)) = MappedStatus)
        /\ TraceFence =>
             (Reported("REDUNDANT_FENCE") <=> PM!Fenced(MappedStatus) = MappedStatus)
  <1>3. Mapped => exact
    BY RedundantFlush, RedundantFence
  <1> HIDE DEF exact
  <1>4. OntaSpec => [][exact]_vars
    BY <1>2, <1>3, PTL
  <1> QED
    BY <1>4 DEF RedundantExact, exact
=============================================================================
