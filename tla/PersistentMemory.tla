-------------------------- MODULE PersistentMemory --------------------------
(***************************************************************************)
(* What the traced program's memory does, word by word, on the machine the *)
(* analysis is about: a store leaves its words dirty in the cache, a flush *)
(* starts the write-back of the dirty words of one line, a non-temporal    *)
(* store starts the write-back of its own words, a fence completes the     *)
(* write-backs under way.  The processor is not part of the repository:    *)
(* this is the machine its handlers take for granted, in which a flush of  *)
(* any kind is completed by a fence.                                       *)
(***************************************************************************)
EXTENDS Integers

CONSTANTS
  Words,       \* the words of persistent memory
  LineOf(_),   \* the cache line of a word
  Footprints   \* the sets of words a store may write: subsets of Words

VARIABLE status    \* status[w]: where the last value written to w is

Status == {"persisted", "dirty", "flushing"}

TypeOK == status \in [Words -> Status]

Init == status = [w \in Words |-> "persisted"]

\* `status` after each instruction, from the status `s` before it.
Stored(s, footprint)   == [w \in Words |-> IF w \in footprint THEN "dirty" ELSE s[w]]
NTStored(s, footprint) == [w \in Words |-> IF w \in footprint THEN "flushing" ELSE s[w]]
LineFlushed(s, line)   == [w \in Words |-> IF LineOf(w) = line /\ s[w] = "dirty"
                                           THEN "flushing" ELSE s[w]]
Fenced(s)              == [w \in Words |-> IF s[w] = "flushing" THEN "persisted" ELSE s[w]]

StoreWords(footprint)   == status' = Stored(status, footprint)
NTStoreWords(footprint) == status' = NTStored(status, footprint)
FlushLine(line)         == status' = LineFlushed(status, line)
Fence                   == status' = Fenced(status)
LockedUpdate(footprint) == status' = Stored(Fenced(status), footprint)

Next ==
  \/ \E f \in Footprints : StoreWords(f) \/ NTStoreWords(f) \/ LockedUpdate(f)
  \/ \E w \in Words : FlushLine(LineOf(w))
  \/ Fence

Spec == Init /\ [][Next]_status
=============================================================================
