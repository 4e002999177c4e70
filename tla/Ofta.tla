---------------------------------- MODULE Ofta ----------------------------------
(***************************************************************************)
(* The offline trace analysis of src/mumak (dofta and ndofta) around its   *)
(* analyzer: the PIN tool src/src/instrumentation/ofta.cpp traces the      *)
(* target, the analyzer leaves the ids of buggy instructions in            *)
(* bug-ids.txt, and a second execution gives each bug its backtrace: by    *)
(* counting instructions again (dofta), or from the backtraces the first   *)
(* one recorded in a mapped file (ndofta).                                 *)
(*                                                                         *)
(* The target is deterministic, as dofta assumes, and has one thread.  The *)
(* analyzer is TracedMemory's subject: here it finds any bugs.  A          *)
(* backtrace stands for the hash by which ReportBug knows it, which leaves *)
(* the type of the bug out.                                                *)
(***************************************************************************)
EXTENDS Naturals, Sequences

CONSTANTS
  Backtraces,                \* backtraces of traced instructions
  MaxInstructions,           \* bound on the traced instructions
  MaxBugs,                   \* bound on the lines of bug-ids.txt
  RECORD_OPERATIONS_LIMIT,   \* instructions recorded per segment of the file
  default_ramdisk            \* whether $RAMDISK is the directory the sort names

ASSUME LimitAssumption == RECORD_OPERATIONS_LIMIT \in Nat \ {0}
ASSUME BoundAssumption == MaxInstructions \in Nat /\ MaxBugs \in Nat
ASSUME SortAssumption  == default_ramdisk \in BOOLEAN
\* A backtrace holds at least the traced instruction.
ASSUME BacktracesAssumption == <<>> \notin Backtraces

VARIABLES
  pc,                      \* which program runs
  non_deterministic,       \* ndofta
  execution,               \* backtraces of the traced instructions, in order
  current_instruction_id,
  total_inserted,          \* what the tool takes for the length of the file
  inserted_since_increase,
  mapped,                  \* length of the mapping at recorded_operations
  bug_ids,                 \* what is left to read of bug-ids.txt
  found,                   \* the ids the analyzer wrote there
  next_bug,                \* id of the next bug
  addresses,               \* the last backtrace collected, <<>> before
  bug_report               \* the backtraces in bug-report.txt, in order

records  == <<total_inserted, inserted_since_increase, mapped>>
report == <<bug_ids, next_bug, addresses, bug_report>>
vars   == <<pc, non_deterministic, execution, current_instruction_id, records,
            found, report>>

Init ==
  /\ pc = "tracing"
  /\ non_deterministic \in BOOLEAN
  /\ execution = <<>>
  /\ current_instruction_id = 0
  /\ total_inserted = 0
  /\ inserted_since_increase = 0
  /\ mapped = 0
  /\ bug_ids = <<>>
  /\ found = {}
  /\ next_bug = 1
  /\ addresses = <<>>
  /\ bug_report = <<>>
-----------------------------------------------------------------------------
(* The first execution.                                                    *)

\* The first record maps a segment; a full one maps the file anew, with one
\* segment more than total_inserted says.
Map ==
  IF total_inserted = 0
  THEN /\ total_inserted' = RECORD_OPERATIONS_LIMIT
       /\ mapped' = RECORD_OPERATIONS_LIMIT
  ELSE IF inserted_since_increase = RECORD_OPERATIONS_LIMIT
  THEN /\ total_inserted' = total_inserted + RECORD_OPERATIONS_LIMIT
       /\ mapped' = total_inserted' + RECORD_OPERATIONS_LIMIT
  ELSE UNCHANGED <<total_inserted, mapped>>

RecordTraceAddresses_NoReset ==
  /\ Map
  /\ inserted_since_increase' = inserted_since_increase + 1

RecordTraceAddresses ==
  /\ Map
  /\ inserted_since_increase' =
       IF inserted_since_increase = RECORD_OPERATIONS_LIMIT THEN 1
       ELSE inserted_since_increase + 1

\* The handler of an instruction that is traced.
Trace(backtrace) ==
  /\ pc = "tracing"
  /\ current_instruction_id < MaxInstructions
  /\ IF non_deterministic THEN RecordTraceAddresses ELSE UNCHANGED records
  /\ execution' = Append(execution, backtrace)
  /\ current_instruction_id' = current_instruction_id + 1
  /\ UNCHANGED <<pc, non_deterministic, found, report>>

Fini == pc = "tracing" /\ pc' = "analyzing"
        /\ UNCHANGED <<non_deterministic, execution, current_instruction_id, records,
                       found, report>>

Lists(ids) == UNION {[1 .. n -> ids] : n \in 0 .. MaxBugs}
Sorted(list) == \A i, j \in DOMAIN list : i < j => list[i] <= list[j]

\* The analyzer, and the sort of bug-ids.txt.
Analyze ==
  /\ pc = "analyzing"
  /\ bug_ids' \in Lists(0 .. current_instruction_id - 1)
  /\ default_ramdisk => Sorted(bug_ids')
  /\ found' = {bug_ids'[i] : i \in DOMAIN bug_ids'}
  /\ current_instruction_id' = 0
  /\ pc' = "opening"
  /\ UNCHANGED <<non_deterministic, execution, records, next_bug, addresses, bug_report>>
-----------------------------------------------------------------------------
(* The second execution.                                                   *)

\* ReportBug: a backtrace is written once.
Reported(reports, backtrace) ==
  IF \E i \in DOMAIN reports : reports[i] = backtrace THEN reports
  ELSE Append(reports, backtrace)

Repeats(list, id) ==
  CHOOSE n \in 0 .. Len(list) :
    /\ \A i \in 1 .. n : list[i] = id
    /\ n < Len(list) => list[n + 1] # id

SetNextBugId_NoLoop(backtrace, reports) ==
  /\ bug_ids # <<>>
  /\ next_bug' = Head(bug_ids)
  /\ bug_ids' = Tail(bug_ids)
  /\ bug_report' = reports

\* SetNextBugId: further bugs of the same instruction are reported with its
\* backtrace, and the next one is taken.  It fails at the end of the list.
NoNextBug == Repeats(bug_ids, next_bug) = Len(bug_ids)

SetNextBugId(backtrace, reports) ==
  LET n == Repeats(bug_ids, next_bug)
  IN  /\ bug_report' = IF n > 0 THEN Reported(reports, backtrace) ELSE reports
      /\ IF NoNextBug THEN bug_ids' = <<>> /\ UNCHANGED next_bug
         ELSE /\ next_bug' = bug_ids[n + 1]
              /\ bug_ids' = SubSeq(bug_ids, n + 2, Len(bug_ids))

Open ==
  /\ pc = "opening"
  /\ pc' = IF NoNextBug /\ ~non_deterministic THEN "done" ELSE "collecting"
  /\ IF non_deterministic THEN UNCHANGED report
     ELSE SetNextBugId(addresses, bug_report) /\ UNCHANGED addresses
  /\ UNCHANGED <<non_deterministic, execution, current_instruction_id, records, found>>

\* CollectBacktrace, at each instruction that was traced.
CollectBacktrace ==
  /\ pc = "collecting"
  /\ ~non_deterministic
  /\ current_instruction_id < Len(execution)
  /\ IF current_instruction_id = next_bug
     THEN /\ addresses' = execution[current_instruction_id + 1]
          /\ SetNextBugId(addresses', Reported(bug_report, addresses'))
          /\ pc' = IF NoNextBug THEN "done" ELSE pc
     ELSE UNCHANGED <<report, pc>>
  /\ current_instruction_id' = current_instruction_id + 1
  /\ UNCHANGED <<non_deterministic, execution, records, found>>

\* ReportAllBugs, one line of bug-ids.txt after the other.
ReportRecorded ==
  /\ pc = "collecting"
  /\ non_deterministic
  /\ bug_ids # <<>>
  /\ bug_report' = Reported(bug_report, execution[Head(bug_ids) + 1])
  /\ bug_ids' = Tail(bug_ids)
  /\ UNCHANGED <<pc, non_deterministic, execution, current_instruction_id, records,
                 found, next_bug, addresses>>

\* The target ends, or ReportAllBugs exits.
Exit ==
  /\ pc = "collecting"
  /\ IF non_deterministic THEN bug_ids = <<>> ELSE current_instruction_id = Len(execution)
  /\ pc' = "done"
  /\ UNCHANGED <<non_deterministic, execution, current_instruction_id, records,
                 found, report>>

Next ==
  \/ \E backtrace \in Backtraces : Trace(backtrace)
  \/ Fini
  \/ Analyze
  \/ Open
  \/ CollectBacktrace
  \/ ReportRecorded
  \/ Exit

Spec == Init /\ [][Next]_vars
-----------------------------------------------------------------------------
(* ndofta writes and reads back inside what it mapped: every recorded      *)
(* instruction lies below the length the tool keeps for the second         *)
(* execution (mmap-size.txt), and that below what is mapped.               *)
RecordsMapped ==
  non_deterministic =>
    /\ pc = "tracing" => current_instruction_id <= total_inserted
    /\ Len(execution) <= total_inserted
    /\ total_inserted <= mapped

InReport == {bug_report[i] : i \in DOMAIN bug_report}
BacktracesOf(ids) == {execution[id + 1] : id \in ids}

\* dofta compares the first id with next_bug's initial value before any
\* instruction ran: a first bug at id 1 is reported with an empty backtrace.
Mislaid == IF <<>> \in InReport THEN {1} ELSE {}

(* Joining the two executions by instruction id neither loses a bug nor    *)
(* blames another instruction: in the end bug-report.txt has the           *)
(* backtraces of the instructions in bug-ids.txt, each once, but for that  *)
(* of a first bug at id 1.                                                 *)
EveryBugLocated ==
  pc = "done" =>
    /\ BacktracesOf(found \ Mislaid) \subseteq InReport
    /\ InReport \ {<<>>} \subseteq BacktracesOf(found)
    /\ \A i, j \in DOMAIN bug_report : bug_report[i] = bug_report[j] => i = j
=============================================================================
