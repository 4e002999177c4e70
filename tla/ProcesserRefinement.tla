------------------------- MODULE ProcesserRefinement -------------------------
(***************************************************************************)
(* The Processer implements PersistentMemory: the status of every word of  *)
(* the program's memory can be read off its two maps.  This holds for      *)
(* programs whose stores are equal or disjoint and stay within a line, and *)
(* which flush line starts (TracedMemory says what is left without that).  *)
(***************************************************************************)
EXTENDS Processer

Footprint(address, size) == address .. (address + size - 1)
LineOf(w)                == w \div CACHELINE_SIZE
Words                    == UNION {Footprint(s[1], s[2]) : s \in StoreShapes}
Footprints               == {Footprint(s[1], s[2]) : s \in StoreShapes} \cup {{}}

UniformShapes ==
  \A s, t \in StoreShapes :
    s = t \/ Footprint(s[1], s[2]) \cap Footprint(t[1], t[2]) = {}

Covers(group, w) == \E a \in DOMAIN group : w \in Footprint(a, group[a].size)

MappedStatus ==
  [w \in Words |-> IF Covers(flush_pending, w) THEN "dirty"
                   ELSE IF Covers(fence_pending, w) THEN "flushing" ELSE "persisted"]

PM == INSTANCE PersistentMemory WITH status <- MappedStatus

SameInstruction ==
  /\ \A s \in StoreShapes :
       /\ TraceStore(s[1], s[2], FALSE) => PM!StoreWords(Footprint(s[1], s[2]))
       /\ TraceStore(s[1], s[2], TRUE)  => PM!NTStoreWords(Footprint(s[1], s[2]))
       /\ TraceRMW(s[1], s[2])          => PM!LockedUpdate(Footprint(s[1], s[2]))
  /\ \A t \in Flushes, a \in FlushAddresses : TraceFlush(t, a) => PM!FlushLine(LineOf(a))
  /\ TraceFence => PM!Fence

(* Every step of the processor is a step of the memory under the           *)
(* refinement mapping, and the one that the same instruction makes.        *)
ImplementsMemory == PM!Spec /\ [][SameInstruction]_vars

Reported(type) == [type |-> type, instruction_id |-> current_instruction_id] \in bugs'

(* A flush is reported redundant exactly when it writes back no dirty      *)
(* word, a fence exactly when it completes no write-back.                  *)
RedundantExact ==
  [][/\ \A t \in Flushes, a \in FlushAddresses :
          TraceFlush(t, a) =>
            (Reported("REDUNDANT_FLUSH") <=> PM!LineFlushed(MappedStatus, LineOf(a)) = MappedStatus)
     /\ TraceFence =>
            (Reported("REDUNDANT_FENCE") <=> PM!Fenced(MappedStatus) = MappedStatus)]_vars
=============================================================================
