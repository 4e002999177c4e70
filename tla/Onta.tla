--------------------------------- MODULE Onta ---------------------------------
(***************************************************************************)
(* onta, the online analysis: PIN calls a handler before each instruction, *)
(* which calls the Processer and reports what it finds at once, under the  *)
(* backtrace of the instruction to blame.  For a store that is a past one, *)
(* whose backtrace recorded_ops keeps until the store is persisted.        *)
(* The backtrace of an instruction is named by the id of the execution; in *)
(* the report, the ones that are equal are merged, whatever the types of   *)
(* the bugs, which is why it is a set of backtraces.  What is read from an *)
(* entry that operator[] has just made is Garbage.                         *)
(***************************************************************************)
EXTENDS ProcesserRefinement

Garbage == -1     \* uninitialized memory

VARIABLES
  recorded_ops,   \* instruction id -> its backtrace
  report          \* backtraces of bug-report.txt (logged_addresses)

ovars == <<vars, recorded_ops, report>>

NewBugs == bugs' \ bugs

OntaInit == Init /\ recorded_ops = <<>> /\ report = {}

\* RecordPossibleBugs(ctxt), for the instruction that executes.
ReportedNow == report' = IF NewBugs = {} THEN report ELSE report \cup {current_instruction_id}

\* RecordPossibleBugs(): operator[] adds an entry where there is none.
ReportedFrom(ops) ==
  LET ids == {b.instruction_id : b \in NewBugs}
  IN  /\ recorded_ops' = [id \in DOMAIN ops \cup ids |-> IF id \in DOMAIN ops THEN ops[id] ELSE Garbage]
      /\ report' = report \cup {recorded_ops'[id] : id \in ids}

Record(ops) == [id \in DOMAIN ops \cup {current_instruction_id} |-> IF id \in DOMAIN ops THEN ops[id] ELSE id]

\* Mutant: everything is forgotten, what waits for a flush too.
Forget_All(ops) == <<>>

\* What this fence persists.
Forget(ops) == Restrict(ops, DOMAIN ops \ PendingIds(fence_pending))

WriteHandler(address, size, is_movnt) ==
  /\ TraceStore(address, size, is_movnt)
  /\ ReportedFrom(Record(recorded_ops))

FlushHandler(address, flush_type) ==
  /\ TraceFlush(flush_type, address)
  /\ ReportedNow
  /\ UNCHANGED recorded_ops

FenceHandler ==
  /\ TraceFence
  /\ recorded_ops' = Forget(recorded_ops)
  /\ ReportedNow

\* Only a store to persistent memory is recorded (size 0: another one).
RMWHandler(address, size) ==
  /\ TraceRMW(address, size)
  /\ ReportedFrom(IF size = 0 THEN Forget(recorded_ops) ELSE Record(Forget(recorded_ops)))

BeforeFini ==
  /\ CheckRemainder
  /\ ReportedFrom(recorded_ops)

OntaNext ==
  \/ \E s \in StoreShapes, is_movnt \in BOOLEAN : WriteHandler(s[1], s[2], is_movnt)
  \/ \E t \in Flushes, a \in FlushAddresses : FlushHandler(a, t)
  \/ FenceHandler
  \/ \E s \in StoreShapes \cup {<<0, 0>>} : RMWHandler(s[1], s[2])
  \/ BeforeFini

OntaSpec == OntaInit /\ [][OntaNext]_ovars
-----------------------------------------------------------------------------
BlamesVolatileRMW(b) == b.type = "UNORDERED_FLUSHES" /\ b.instruction_id \in DOMAIN recorded_ops /\ recorded_ops[b.instruction_id] = Garbage

(* The report has the backtrace of the instruction that each bug blames,   *)
(* and no other: the record of a store outlives the store in the maps and  *)
(* is never that of another one (onta.cpp:54, 102).  One case is excepted: *)
(* unordered flushes found at a locked instruction on volatile memory,     *)
(* reported from a record that was never filled in.                        *)
BugsLocated ==
  report = {IF BlamesVolatileRMW(b) THEN Garbage ELSE b.instruction_id : b \in bugs}
=============================================================================
