---------------------------- MODULE TracedMemory ----------------------------
(***************************************************************************)
(* The trace processor next to the memory of the program it watches: every *)
(* line of the trace is processed by the Processer and executed by the     *)
(* PersistentMemory, so that what the processor believes can be compared   *)
(* with what happened.                                                     *)
(***************************************************************************)
EXTENDS Processer, FiniteSets

VARIABLES
  status,   \* the memory of the traced program (PersistentMemory)
  writer,   \* writer[w]: id of the last store to w
  issued    \* ids of the stores to persistent memory in the trace so far

tmvars == <<vars, status, writer, issued>>

Footprint(address, size) == address .. (address + size - 1)
LineOf(w)                == w \div CACHELINE_SIZE
Words                    == UNION {Footprint(s[1], s[2]) : s \in StoreShapes}
Footprints               == {Footprint(s[1], s[2]) : s \in StoreShapes} \cup {{}}

PM == INSTANCE PersistentMemory

TMInit ==
  /\ Init
  /\ PM!Init
  /\ writer = [w \in Words |-> -1]
  /\ issued = {}

Written(footprint) ==
  /\ writer' = [w \in Words |-> IF w \in footprint THEN current_instruction_id ELSE writer[w]]
  /\ issued' = issued \cup {current_instruction_id}

ExecStore(address, size) ==
  /\ TraceStore(address, size, FALSE)
  /\ PM!StoreWords(Footprint(address, size))
  /\ Written(Footprint(address, size))

ExecNTStore(address, size) ==
  /\ TraceStore(address, size, TRUE)
  /\ PM!NTStoreWords(Footprint(address, size))
  /\ Written(Footprint(address, size))

ExecFlush(flush_type, address) ==
  /\ TraceFlush(flush_type, address)
  /\ PM!FlushLine(LineOf(address))
  /\ UNCHANGED <<writer, issued>>

ExecFence == TraceFence /\ PM!Fence /\ UNCHANGED <<writer, issued>>

ExecRMW(address, size) ==
  /\ TraceRMW(address, size)
  /\ PM!LockedUpdate(Footprint(address, size))
  /\ Written(Footprint(address, size))

ExecVolatileRMW ==
  /\ TraceRMW(0, 0)
  /\ PM!LockedUpdate({})
  /\ UNCHANGED <<writer, issued>>

ExecEnd == CheckRemainder /\ UNCHANGED <<status, writer, issued>>

TMNext ==
  \/ \E s \in StoreShapes : ExecStore(s[1], s[2])
  \/ \E s \in StoreShapes : ExecNTStore(s[1], s[2])
  \/ \E t \in Flushes, a \in FlushAddresses : ExecFlush(t, a)
  \/ ExecFence
  \/ \E s \in StoreShapes : ExecRMW(s[1], s[2])
  \/ ExecVolatileRMW
  \/ ExecEnd

TMSpec == TMInit /\ [][TMNext]_tmvars
-----------------------------------------------------------------------------
(* Every store in the trace has exactly one fate: waiting for a flush,     *)
(* waiting for a fence, returned as persisted by ProcessFence, or reported *)
(* as overwritten.  The maps silently drop an entry inserted under a taken *)
(* key and CheckStore erases entries in the middle of its iteration: a     *)
(* store lost or kept twice there would break this.                        *)
StoreAccounted ==
  LET unflushed == PendingIds(flush_pending)
      unfenced  == PendingIds(fence_pending)
  IN  /\ issued = unflushed \cup unfenced \cup fully_persisted \cup OverwrittenIds
      /\ unflushed \cap unfenced = {}
      /\ (unflushed \cup unfenced) \cap (fully_persisted \cup OverwrittenIds) = {}
      /\ fully_persisted \cap OverwrittenIds = {}

WaitsIn(group, w, id) ==
  \E a \in DOMAIN group :
    group[a].instruction_id = id /\ w \in Footprint(a, group[a].size)

(* A word that is not persistent is never forgotten: its last writer is    *)
(* still pending, in the map that matches the state of the word, or was    *)
(* reported as overwritten.  Needs flushes of line starts and stores that  *)
(* stay within a line.                                                     *)
NoSilentLoss ==
  \A w \in Words :
    \/ status[w] = "persisted"
    \/ writer[w] \in OverwrittenIds
    \/ status[w] = "dirty" /\ WaitsIn(flush_pending, w, writer[w])
    \/ status[w] = "flushing" /\ WaitsIn(fence_pending, w, writer[w])

(* The converse: a pending store is never a false alarm about a word it    *)
(* was the last to write.                                                  *)
NoFalseAlarm ==
  \A w \in Words :
    /\ WaitsIn(flush_pending, w, writer[w]) => status[w] = "dirty"
    /\ WaitsIn(fence_pending, w, writer[w]) => status[w] = "flushing"

(* What the processor believes of every word is what the memory did        *)
(* (tracing.hpp:190-278).                                                  *)
BeliefsExact == NoSilentLoss /\ NoFalseAlarm

(* At the end of the trace every word left unpersisted has its last writer *)
(* in bug-ids.txt, under the bug type that tells what the program omitted. *)
FinalReport ==
  done => \A w \in Words :
    status[w] # "persisted" =>
      \/ writer[w] \in OverwrittenIds
      \/ [type |-> IF status[w] = "dirty" THEN "MISSING_FLUSH" ELSE "MISSING_FENCE",
          instruction_id |-> writer[w]] \in bugs

(* A fence never answers for flushes of an earlier epoch: each weakly      *)
(* ordered flush it counts moved a store that still waits for that fence,  *)
(* or that was overwritten meanwhile and reported.                         *)
UnorderedFlushesBounded ==
  unordered_flushes <=
    Cardinality(DOMAIN fence_pending) +
    Cardinality({b \in bugs : b.type = "OVERWRITTEN_UNFENCED"})

(* For a store that straddles two lines (and line-start flushes) the       *)
(* processor is only right about the first of them: MODIFIED means its     *)
(* first word was not flushed, anything else means it was.                 *)
FirstLineExact ==
  /\ \A a \in DOMAIN flush_pending :
       flush_pending[a].instruction_id = writer[a] =>
         (flush_pending[a].state = "MODIFIED" <=> status[a] = "dirty")
  /\ \A a \in DOMAIN fence_pending :
       fence_pending[a].instruction_id = writer[a] => status[a] # "dirty"
-----------------------------------------------------------------------------
(* What a comment of tracing.hpp says and the code does not do.            *)

(* "If write is partially inside cacheline in the left side"               *)
(* (tracing.hpp:107): a store stops waiting for a flush once the lines on  *)
(* both of its sides were flushed.                                         *)
FlushedStoreMoves ==
  \A a \in DOMAIN flush_pending :
    LET words == Footprint(a, flush_pending[a].size)
    IN  (\A w \in words : writer[w] = flush_pending[a].instruction_id) =>
          \E w \in words : status[w] = "dirty"
=============================================================================
