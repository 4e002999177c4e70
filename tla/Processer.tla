------------------------------ MODULE Processer ------------------------------
(***************************************************************************)
(* The persistent-memory trace processor (class Processer of               *)
(* src/src/utils/tracing.hpp), driven as src/src/utils/mumak_oftp.cpp      *)
(* drives it: one action per kind of line of pm-trace.txt, then            *)
(* CheckRemainder at the end of the trace.                                 *)
(*                                                                         *)
(* A std::map<uint64_t, Store> is a function whose domain is the set of    *)
(* keys.  Instruction ids are the ones ofta.cpp gives out, from 0 up.      *)
(* The counters flushes and implicit_flushes are written and never read,   *)
(* and flushed_by is read by another overload only: they are left out.     *)
(***************************************************************************)
EXTENDS Integers, Functions

CONSTANTS
  CACHELINE_SIZE,   \* length of a cache line, in the unit of the addresses
  StoreShapes,      \* <<address, size>> of the stores of the traced program
  FlushAddresses,   \* operands of its flush instructions
  MaxId             \* bound on the number of traced instructions

ASSUME CachelineAssumption == CACHELINE_SIZE \in Nat \ {0}
ASSUME ShapesAssumption    == StoreShapes \subseteq Nat \X (Nat \ {0})
ASSUME FlushAssumption     == FlushAddresses \subseteq Nat
ASSUME MaxIdAssumption     == MaxId \in Nat

VARIABLES
  flush_pending,          \* stores not written back yet, by start address
  fence_pending,          \* stores written back and not fenced yet
  unordered_flushes,      \* weakly ordered flushes since the last fence
  fully_persisted,        \* ids ProcessFence returned as persisted, so far
  bugs,                   \* the lines of bug-ids.txt
  current_instruction_id, \* id of the next traced instruction
  done                    \* CheckRemainder ran

vars == <<flush_pending, fence_pending, unordered_flushes, fully_persisted,
          bugs, current_instruction_id, done>>

Flushes         == {"CLFLUSH", "CLFLUSHOPT", "CLWB"}
UnorderedKinds  == {"CLFLUSHOPT", "CLWB"}
StoreState      == {"MODIFIED", "PARTIALLY_FLUSHED", "FLUSHED"}
Store           == [size : Nat \ {0}, instruction_id : Nat, state : StoreState]
BugType         == {"REDUNDANT_FLUSH", "REDUNDANT_FENCE", "MISSING_FLUSH",
                    "MISSING_FENCE", "OVERWRITTEN_UNFLUSHED",
                    "OVERWRITTEN_UNFENCED", "UNORDERED_FLUSHES"}
Bug             == [type : BugType, instruction_id : Nat]

NoStores == [a \in {} |-> a]

NewStore(size, id, state) ==
  [size |-> size, instruction_id |-> id, state |-> state]

\* Mutants, here and below: what a plausible slip in the code would make of the
\* definition that follows.
flush_KeepsState(store) == store

\* Store::flush.
flush(store) == [store EXCEPT !.state = "FLUSHED"]

\* std::map::insert of each entry of `entries`: a key that is already in the
\* map keeps its old value.
Insert(group, entries) ==
  [a \in DOMAIN group \cup DOMAIN entries |->
     IF a \in DOMAIN group THEN group[a] ELSE entries[a]]

Erase_Forgotten(group, keys) == group

Erase(group, keys) == Restrict(group, DOMAIN group \ keys)

PendingIds(group) == {group[a].instruction_id : a \in DOMAIN group}

BugsAt(type, ids) == {[type |-> type, instruction_id |-> i] : i \in ids}
-----------------------------------------------------------------------------
(* Geometry.  The last argument of the two containment tests is the end of *)
(* the target store, as in the calls of CheckStore.                        *)

SourceStoreContainsTargetStore(source_addr, source_size, target_addr, target_end) ==
  target_addr >= source_addr /\ target_end <= source_addr + source_size

TargetStoreContainsSourceStore(source_addr, source_size, target_addr, target_end) ==
  target_addr <= source_addr /\ target_end >= source_addr + source_size

StoreIsInsideCacheline_OffByOne(flush_addr, store_addr, store_size) ==
  /\ store_addr >= flush_addr
  /\ store_addr + store_size <= flush_addr + CACHELINE_SIZE + 1

StoreIsInsideCacheline(flush_addr, store_addr, store_size) ==
  /\ store_addr >= flush_addr
  /\ store_addr + store_size <= flush_addr + CACHELINE_SIZE

\* Both sides of the line, as in the code; the left one never applies to a key
\* that CoveredKeys returns.
StoreIsPartiallyInsideCacheline(flush_addr, store_addr, store_size) ==
  LET flush_end == flush_addr + CACHELINE_SIZE
      store_end == store_addr + store_size
  IN  \/ flush_addr < store_addr /\ flush_end > store_addr /\ flush_end < store_end
      \/ flush_addr > store_addr /\ store_end > flush_addr /\ flush_end > store_end

\* The keys an iteration from lower_bound(from) to upper_bound(to) visits.  The
\* test `begin->first < to` in front of the loops only skips a key equal to
\* `to`, which no test of their bodies accepts; when begin is end() it reads
\* past the map, and the loop is empty whatever it reads.
CoveredKeys(group, from, to) == {a \in DOMAIN group : from <= a /\ a <= to}
-----------------------------------------------------------------------------
(* CheckStore: the pending stores a new store overwrites.                  *)

Overwritten_UpperBound(group, address, size) ==
  {a \in CoveredKeys(group, address + 1, address + size) :
     \/ TargetStoreContainsSourceStore(a, group[a].size, address, address + size)
     \/ SourceStoreContainsTargetStore(a, group[a].size, address, address + size)}

Overwritten(group, address, size) ==
  {a \in CoveredKeys(group, address, address + size) :
     \/ TargetStoreContainsSourceStore(a, group[a].size, address, address + size)
     \/ SourceStoreContainsTargetStore(a, group[a].size, address, address + size)}

CheckStore(group, address, size) == Erase(group, Overwritten(group, address, size))

OverwrittenBugs(group, address, size, type) ==
  BugsAt(type, PendingIds(Restrict(group, Overwritten(group, address, size))))

ProcessStore_IgnoresMovnt(address, size, is_movnt, id) ==
  /\ flush_pending' = Insert(CheckStore(flush_pending, address, size),
                             [a \in {address} |-> NewStore(size, id, "MODIFIED")])
  /\ fence_pending' = CheckStore(fence_pending, address, size)
  /\ bugs' = bugs
       \cup OverwrittenBugs(flush_pending, address, size, "OVERWRITTEN_UNFLUSHED")
       \cup OverwrittenBugs(fence_pending, address, size, "OVERWRITTEN_UNFENCED")
  /\ UNCHANGED <<unordered_flushes, fully_persisted>>

ProcessStore(address, size, is_movnt, id) ==
  LET write     == NewStore(size, id, IF is_movnt THEN "FLUSHED" ELSE "MODIFIED")
      entry     == [a \in {address} |-> write]
      unflushed == CheckStore(flush_pending, address, size)
      unfenced  == CheckStore(fence_pending, address, size)
  IN  /\ flush_pending' = IF is_movnt THEN unflushed ELSE Insert(unflushed, entry)
      /\ fence_pending' = IF is_movnt THEN Insert(unfenced, entry) ELSE unfenced
      /\ bugs' = bugs
           \cup OverwrittenBugs(flush_pending, address, size, "OVERWRITTEN_UNFLUSHED")
           \cup OverwrittenBugs(fence_pending, address, size, "OVERWRITTEN_UNFENCED")
      /\ UNCHANGED <<unordered_flushes, fully_persisted>>
-----------------------------------------------------------------------------
(* ProcessFlush: stores inside the line move to fence_pending; a store     *)
(* partially inside it moves the second time it is met.                    *)

Inside(group, address) ==
  {a \in CoveredKeys(group, address, address + CACHELINE_SIZE) :
     StoreIsInsideCacheline(address, a, group[a].size)}

PartiallyInside(group, address) ==
  {a \in CoveredKeys(group, address, address + CACHELINE_SIZE) \ Inside(group, address) :
     StoreIsPartiallyInsideCacheline(address, a, group[a].size)}

FlushedKeys(group, address) ==
  Inside(group, address) \cup
    {a \in PartiallyInside(group, address) : group[a].state = "PARTIALLY_FLUSHED"}

MarkPartial_Never(group, address) == group

MarkPartial(group, address) ==
  [a \in DOMAIN group |->
     IF a \in PartiallyInside(group, address)
     THEN [group[a] EXCEPT !.state = "PARTIALLY_FLUSHED"] ELSE group[a]]

ProcessFlush(flush_type, address, id) ==
  LET keys    == FlushedKeys(flush_pending, address)
      flushed == [a \in keys |-> flush(flush_pending[a])]
      hit     == Inside(flush_pending, address) \cup PartiallyInside(flush_pending, address) # {}
  IN  /\ flush_pending' = Erase(MarkPartial(flush_pending, address), keys)
      /\ fence_pending' = Insert(fence_pending, flushed)
      /\ unordered_flushes' = IF hit /\ flush_type \in UnorderedKinds
                              THEN unordered_flushes + 1 ELSE unordered_flushes
      /\ bugs' = IF hit THEN bugs ELSE bugs \cup BugsAt("REDUNDANT_FLUSH", {id})
      /\ UNCHANGED fully_persisted
-----------------------------------------------------------------------------
(* ProcessFence, the overload that also returns the persisted stores.      *)

FenceBugs_WrongMap(id, is_rmw) ==
  (IF DOMAIN flush_pending = {} /\ ~is_rmw THEN BugsAt("REDUNDANT_FENCE", {id}) ELSE {})
    \cup (IF unordered_flushes > 1 THEN BugsAt("UNORDERED_FLUSHES", {id}) ELSE {})

FenceBugs(id, is_rmw) ==
  (IF DOMAIN fence_pending = {} /\ ~is_rmw THEN BugsAt("REDUNDANT_FENCE", {id}) ELSE {})
    \cup (IF unordered_flushes > 1 THEN BugsAt("UNORDERED_FLUSHES", {id}) ELSE {})

ProcessFence_NoClear(id) ==
  /\ unordered_flushes' = 0
  /\ fully_persisted' = fully_persisted \cup PendingIds(fence_pending)
  /\ bugs' = bugs \cup FenceBugs(id, FALSE)
  /\ UNCHANGED <<flush_pending, fence_pending>>

ProcessFence(id) ==
  /\ fence_pending' = NoStores
  /\ unordered_flushes' = 0
  /\ fully_persisted' = fully_persisted \cup PendingIds(fence_pending)
  /\ bugs' = bugs \cup FenceBugs(id, FALSE)
  /\ UNCHANGED flush_pending

ProcessRMW_NoReset(address, size, id) ==
  /\ fence_pending' = NoStores
  /\ fully_persisted' = fully_persisted \cup PendingIds(fence_pending)
  /\ bugs' = bugs \cup FenceBugs(id, TRUE)
  /\ UNCHANGED <<flush_pending, unordered_flushes>>

\* A locked read-modify-write: a fence, then a store when it targets persistent
\* memory (size 0 otherwise).
ProcessRMW(address, size, id) ==
  /\ fence_pending' = NoStores
  /\ unordered_flushes' = 0
  /\ fully_persisted' = fully_persisted \cup PendingIds(fence_pending)
  /\ \/ /\ size = 0
        /\ bugs' = bugs \cup FenceBugs(id, TRUE)
        /\ UNCHANGED flush_pending
     \/ /\ size # 0
        /\ bugs' = bugs \cup FenceBugs(id, TRUE)
             \cup OverwrittenBugs(flush_pending, address, size, "OVERWRITTEN_UNFLUSHED")
        /\ flush_pending' = Insert(CheckStore(flush_pending, address, size),
                              [a \in {address} |-> NewStore(size, id, "MODIFIED")])
-----------------------------------------------------------------------------
(* The loop of mumak_oftp.cpp over the trace.                              *)

Init ==
  /\ flush_pending = NoStores
  /\ fence_pending = NoStores
  /\ unordered_flushes = 0
  /\ fully_persisted = {}
  /\ bugs = {}
  /\ current_instruction_id = 0
  /\ done = FALSE

\* The next trace line exists, within the bound on the length of the trace.
TraceLine ==
  /\ ~done
  /\ current_instruction_id < MaxId
  /\ current_instruction_id' = current_instruction_id + 1
  /\ UNCHANGED done

TraceStore(address, size, is_movnt) ==
  TraceLine /\ ProcessStore(address, size, is_movnt, current_instruction_id)

TraceFlush(flush_type, address) ==
  TraceLine /\ ProcessFlush(flush_type, address, current_instruction_id)

TraceFence == TraceLine /\ ProcessFence(current_instruction_id)

TraceRMW(address, size) ==
  TraceLine /\ ProcessRMW(address, size, current_instruction_id)

CheckRemainder_FlushOnly ==
  /\ ~done
  /\ done' = TRUE
  /\ bugs' = bugs \cup BugsAt("MISSING_FLUSH", PendingIds(flush_pending))
  /\ UNCHANGED <<flush_pending, fence_pending, unordered_flushes,
                 fully_persisted, current_instruction_id>>

CheckRemainder ==
  /\ ~done
  /\ done' = TRUE
  /\ bugs' = bugs \cup BugsAt("MISSING_FLUSH", PendingIds(flush_pending))
                  \cup BugsAt("MISSING_FENCE", PendingIds(fence_pending))
  /\ UNCHANGED <<flush_pending, fence_pending, unordered_flushes,
                 fully_persisted, current_instruction_id>>

Next ==
  \/ \E s \in StoreShapes, is_movnt \in BOOLEAN : TraceStore(s[1], s[2], is_movnt)
  \/ \E t \in Flushes, a \in FlushAddresses : TraceFlush(t, a)
  \/ TraceFence
  \/ \E s \in StoreShapes : TraceRMW(s[1], s[2])
  \/ TraceRMW(0, 0)
  \/ CheckRemainder

Spec == Init /\ [][Next]_vars
-----------------------------------------------------------------------------
IsGroup(group, states) ==
  /\ group = [a \in DOMAIN group |-> group[a]]
  /\ DOMAIN group \subseteq {s[1] : s \in StoreShapes}
  /\ \A a \in DOMAIN group :
       group[a] \in Store /\ group[a].state \in states
                          /\ group[a].instruction_id < current_instruction_id

(* Types: an entry of flush_pending is never FLUSHED and one of            *)
(* fence_pending always is (the states Store::flush and ProcessStore set). *)
TypeOK ==
  /\ IsGroup(flush_pending, {"MODIFIED", "PARTIALLY_FLUSHED"})
  /\ IsGroup(fence_pending, {"FLUSHED"})
  /\ unordered_flushes \in 0 .. current_instruction_id
  /\ fully_persisted \subseteq Nat
  /\ bugs \subseteq Bug
  /\ current_instruction_id \in Nat
  /\ done \in BOOLEAN

(* A store address is never in both maps.  Both maps are written with      *)
(* std::map::insert, which drops the new entry when the key is taken: this *)
(* is what makes ProcessFlush lose no store.                               *)
PendingDisjoint == DOMAIN flush_pending \cap DOMAIN fence_pending = {}

OverwriteTypes == {"OVERWRITTEN_UNFLUSHED", "OVERWRITTEN_UNFENCED"}
OverwrittenIn(reports) ==
  {b.instruction_id : b \in {x \in reports : x.type \in OverwriteTypes}}
OverwrittenIds == OverwrittenIn(bugs)
=============================================================================
