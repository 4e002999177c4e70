---------------------------- MODULE FaultInjection ----------------------------
(***************************************************************************)
(* A fault injection campaign: the bfi branch of src/mumak (count_fps,     *)
(* fi_loop, fi_iter) and the PIN tool it runs the target under (bfi.cpp).  *)
(* The first execution of the target builds the failure point tree; each   *)
(* iteration reads it back from tree.bin, crashes the target at the first  *)
(* failure point not visited yet, writes the tree again and recovers.  An  *)
(* iteration may be killed (timeout -s SIGKILL) at any moment.             *)
(*                                                                         *)
(* The target is deterministic and runs one thread: every execution meets  *)
(* the same sequence of failure points, chosen while it is counted, where  *)
(* FailurePoints tells which instructions are failure points.              *)
(***************************************************************************)
EXTENDS FPTree

CONSTANTS
  Stacks,               \* backtraces the target may meet at failure points
  MaxHits,              \* bound on how many it meets in one execution
  current_size,         \* bytes given to the tree (-alloc)
  Targets,              \* values of -F; -1 when it is not given
  KillDuringSerialize   \* whether a kill may strike while tree.bin is written

ASSUME StacksAssumption  == \A stack \in Stacks : stack \in Seq(ToSet(stack)) /\ stack # <<>>
ASSUME HitsAssumption    == MaxHits \in Nat
ASSUME TargetsAssumption == Targets \subseteq Int /\ Targets # {}

VARIABLES
  pc,             \* what is running
  execution,      \* the failure points the target meets, in order
  tree,           \* the tree in the memory of the tool
  idx,            \* allocator.cpp: the next free byte
  uniq_fps,       \* failure points counted
  tree_bin,       \* the tree in $RAMDISK/tree.bin
  target_fp,      \* -F
  fp,             \* the iteration of fi_loop
  pos,            \* the next failure point of the execution
  current_fp,     \* failure points passed over because of -F
  fp_backtrace,   \* $RAMDISK/fp-backtrace.out, <<>> when there is none
  tested          \* the failure points recovered from, in order

vars == <<pc, execution, tree, idx, uniq_fps, tree_bin, target_fp, fp, pos,
          current_fp, fp_backtrace, tested>>

Init ==
  /\ pc = "counting"
  /\ execution = <<>>
  /\ tree = NewTree
  /\ idx = InitialIdx + NewNodeSize
  /\ uniq_fps = 0
  /\ tree_bin = NewTree
  /\ target_fp \in Targets
  /\ fp = 0
  /\ pos = 1
  /\ current_fp = 0
  /\ fp_backtrace = <<>>
  /\ tested = <<>>

Meets(stack) == pc = "counting" /\ Len(execution) < MaxHits

CountFP_Unchecked(stack) ==
  LET result == InsertFPTrace(tree, idx, stack)
  IN  /\ Meets(stack)
      /\ execution' = Append(execution, stack)
      /\ tree' = result.tree
      /\ idx' = result.idx
      /\ uniq_fps' = uniq_fps + (IF result.uniq THEN 1 ELSE 0)
      /\ UNCHANGED <<pc, tree_bin, target_fp, fp, pos, current_fp, fp_backtrace, tested>>

\* InstrumentFPs while counting.
CountFP(stack) ==
  LET result == InsertFPTrace(tree, idx, stack)
  IN  /\ Meets(stack)
      /\ result.idx < current_size
      /\ execution' = Append(execution, stack)
      /\ tree' = result.tree
      /\ idx' = result.idx
      /\ uniq_fps' = uniq_fps + (IF result.uniq THEN 1 ELSE 0)
      /\ UNCHANGED <<pc, tree_bin, target_fp, fp, pos, current_fp, fp_backtrace, tested>>

\* check_if_should_truncate exits: neither the count nor the tree is written,
\* and fi_loop runs no iteration (one with -F).
ExhaustMemory(stack) ==
  /\ Meets(stack)
  /\ InsertFPTrace(tree, idx, stack).idx >= current_size
  /\ pc' = "looping"
  /\ uniq_fps' = 0
  /\ UNCHANGED <<execution, tree, idx, tree_bin, target_fp, fp, pos,
                 current_fp, fp_backtrace, tested>>

\* Fini of the counting execution.
WriteCount ==
  /\ pc = "counting"
  /\ pc' = "looping"
  /\ tree_bin' = tree
  /\ UNCHANGED <<execution, tree, idx, uniq_fps, target_fp, fp, pos,
                 current_fp, fp_backtrace, tested>>
-----------------------------------------------------------------------------
\* fi_loop runs one iteration with -F, uniq_fps of them without.
MoreIterations == IF target_fp >= 0 THEN fp = 0 ELSE fp < uniq_fps

StartIteration ==
  /\ pc = "looping"
  /\ MoreIterations
  /\ pc' = "running"
  /\ tree' = tree_bin
  /\ idx' = ReadBackSize(tree_bin)
  /\ pos' = 1
  /\ current_fp' = 0
  /\ fp_backtrace' = <<>>
  /\ UNCHANGED <<execution, uniq_fps, tree_bin, target_fp, fp, tested>>

PassBy ==
  /\ ~Injects(tree, execution[pos])
  /\ pos' = pos + 1
  /\ UNCHANGED <<pc, tree, current_fp, fp_backtrace>>

NotTarget_OneBased == target_fp >= 0 /\ current_fp + 1 # target_fp

NotTarget == target_fp >= 0 /\ current_fp # target_fp

PassByTarget ==
  /\ Injects(tree, execution[pos])
  /\ NotTarget
  /\ tree' = MarkVisited(tree, execution[pos])
  /\ current_fp' = current_fp + 1
  /\ pos' = pos + 1
  /\ UNCHANGED <<pc, fp_backtrace>>

Crash ==
  /\ Injects(tree, execution[pos])
  /\ ~NotTarget
  /\ tree' = MarkVisited(tree, execution[pos])
  /\ fp_backtrace' = execution[pos]
  /\ pc' = "serializing"
  /\ UNCHANGED <<pos, current_fp>>

\* InstrumentFPs while injecting.
ReachFP ==
  /\ pc = "running"
  /\ pos <= Len(execution)
  /\ PassBy \/ PassByTarget \/ Crash
  /\ UNCHANGED <<execution, idx, uniq_fps, tree_bin, target_fp, fp, tested>>

\* The target reaches its end with no fault injected.
EndOfTarget ==
  /\ pc = "running"
  /\ pos > Len(execution)
  /\ pc' = "serializing"
  /\ UNCHANGED <<execution, tree, idx, uniq_fps, tree_bin, target_fp, fp, pos,
                 current_fp, fp_backtrace, tested>>

\* Fini of an iteration.
Serialize ==
  /\ pc = "serializing"
  /\ pc' = "recovering"
  /\ tree_bin' = tree
  /\ UNCHANGED <<execution, tree, idx, uniq_fps, target_fp, fp, pos,
                 current_fp, fp_backtrace, tested>>

\* `timeout` kills the target: exit code 137, and fi_iter returns.
Timeout ==
  /\ pc \in {"running", "serializing"}
  /\ pc' = "looping"
  /\ fp' = fp + 1
  /\ tree_bin' \in {tree_bin}
       \cup (IF pc = "serializing" THEN {tree} ELSE {})
       \cup (IF pc = "serializing" /\ KillDuringSerialize THEN Truncations(tree) ELSE {})
  /\ UNCHANGED <<execution, tree, idx, uniq_fps, target_fp, pos, current_fp,
                 fp_backtrace, tested>>

\* basic_recover, whatever its verdict, then the next iteration.
Recover ==
  /\ pc = "recovering"
  /\ pc' = "looping"
  /\ fp' = fp + 1
  /\ tested' = IF fp_backtrace = <<>> THEN tested ELSE Append(tested, fp_backtrace)
  /\ UNCHANGED <<execution, tree, idx, uniq_fps, tree_bin, target_fp, pos,
                 current_fp, fp_backtrace>>

EndLoop ==
  /\ pc = "looping"
  /\ ~MoreIterations
  /\ pc' = "finished"
  /\ UNCHANGED <<execution, tree, idx, uniq_fps, tree_bin, target_fp, fp, pos,
                 current_fp, fp_backtrace, tested>>

\* After the counting execution.
CampaignNext ==
  \/ StartIteration
  \/ ReachFP
  \/ EndOfTarget
  \/ Serialize
  \/ Timeout
  \/ Recover
  \/ EndLoop
-----------------------------------------------------------------------------
WellFormed(t) ==
  /\ <<>> \in Nodes(t)
  /\ t.visited \subseteq Nodes(t)
  /\ Nodes(t) \ {<<>>} = UNION {ChildNodes(t, n) : n \in Nodes(t)}
  /\ \A n \in Nodes(t) : IsInjective(t.children[n])

(* Types: both trees are trees, every node but the root being the child of *)
(* its parent, once.                                                       *)
TypeOK ==
  /\ pc \in {"counting", "looping", "running", "serializing", "recovering", "finished"}
  /\ execution \in Seq(Stacks) /\ Len(execution) <= MaxHits
  /\ WellFormed(tree) /\ WellFormed(tree_bin)
  /\ idx \in Nat /\ uniq_fps \in 0 .. MaxHits /\ fp \in Nat
  /\ target_fp \in Targets
  /\ pos \in 1 .. MaxHits + 1 /\ current_fp \in 0 .. MaxHits
  /\ fp_backtrace \in Stacks \cup {<<>>}
  /\ tested \in Seq(Stacks)

(* A node is ticked off exactly when every failure point below it was: the *)
(* walk of InjectFP gives up at a visited node, so one ticked off too soon *)
(* hides what is under it, and one too late is harmless only by luck.      *)
VisitedExact ==
  \A t \in {tree, tree_bin} : \A n \in Nodes(t) \ {<<>>} :
    n \in t.visited <=>
      \A i \in DOMAIN execution : IsPrefix(n, execution[i]) => execution[i] \in t.visited

(* The tool never outgrows the memory given to the tree: neither while it  *)
(* counts nor, with a tree that fitted then, when an iteration reads it    *)
(* back and allocates it anew.                                             *)
TreeFits == idx < current_size

\* Of the first `length` hits those that are not in skip, each once, in order.
Firsts(hits, length, skip) ==
  LET first[n \in 0 .. length] ==
        IF n = 0 THEN <<>>
        ELSE IF hits[n] \in skip \/ \E j \in 1 .. n - 1 : hits[j] = hits[n] THEN first[n - 1]
        ELSE Append(first[n - 1], hits[n])
  IN  first[length]

(* The failure points of the execution, each at its first occurrence.      *)
FirstHits == Firsts(execution, Len(execution), {})

(* -F is the number that fi_loop gave the failure point: the campaign      *)
(* crashes at the failure point that iteration -F of the full campaign     *)
(* would have reached with no timeout.                                     *)
TargetIsIteration ==
  target_fp >= 0 /\ tested # <<>> =>
    Len(tested) = 1 /\ \E k \in DOMAIN FirstHits : k = target_fp + 1 /\ tested[1] = FirstHits[k]

(* The campaign, seen from outside; one with -F is not a campaign of       *)
(* turns, and shows nothing.                                               *)
IsCampaign == target_fp < 0
Campaign == INSTANCE FailurePointCampaign WITH
  FailurePoints <- Stacks,
  untested <- IF IsCampaign THEN Firsts(execution, Len(execution), tree_bin.visited) ELSE <<>>,
  tested   <- IF ~IsCampaign THEN <<>>
              ELSE IF pc = "recovering" THEN Append(tested, fp_backtrace) ELSE tested,
  turns    <- IF ~IsCampaign THEN 0
              ELSE IF pc = "recovering" THEN uniq_fps - fp - 1 ELSE uniq_fps - fp,
  started  <- IsCampaign /\ pc # "counting"

(* Without -F, every iteration recovers from a crash at the next failure   *)
(* point of the execution that none before it crashed at, or is lost to a  *)
(* timeout: none is tested twice, and a timeout costs at most one.         *)
ImplementsCampaign == Campaign!Spec
-----------------------------------------------------------------------------
(* "should not reach here, supposedly it should have found all FPs in the  *)
(* first phase" (fp_tree.cpp:117).                                         *)
AllFoundInFirstPhase ==
  pc = "running" /\ pos <= Len(execution) => ~UnexpectedNewFP(tree, execution[pos])
=============================================================================
