----------------------------- MODULE FailurePoints -----------------------------
(***************************************************************************)
(* Which instructions of the target are failure points: the handlers of    *)
(* bfi.cpp, at work while the failure points are counted; the target being *)
(* deterministic, the injecting executions meet the same ones.             *)
(*                                                                         *)
(* An mfence is not instrumented at all, so it is no instruction here.     *)
(***************************************************************************)
EXTENDS FaultInjection

CONSTANT Instructions   \* values of -target; "sfence" and "flush" stand for those of one opcode

ASSUME InstructionsAssumption ==
  Instructions \subseteq {"all", "allrmw", "store", "sfence", "flush", "movnt"} /\ Instructions # {}

VARIABLES
  instruction,                     \* -target
  fi_enabled,
  performed_store_since_last_fp,
  store                            \* what became of the last ordinary store to PM: "exposed" by a
                                   \* failure point, "unexposed" so far, or "fenced" unexposed

fpvars == <<instruction, fi_enabled, performed_store_since_last_fp, store>>

FPInit ==
  /\ Init
  /\ instruction \in Instructions
  /\ fi_enabled = FALSE
  /\ performed_store_since_last_fp = FALSE
  /\ store = "exposed"

detect_all_fps == instruction \in {"all", "allrmw"}
ignore_rmw     == instruction = "allrmw"

\* PIN instruments a trace before it runs; the first target instruction in one,
\* executed or not, enables the tool.
Instrument ==
  /\ pc = "counting" /\ ~fi_enabled
  /\ fi_enabled' = TRUE
  /\ UNCHANGED <<vars, instruction, performed_store_since_last_fp, store>>

InstrumentFPs(stack) == fi_enabled /\ (CountFP(stack) \/ ExhaustMemory(stack))

\* After its failure point, if it is one, the instruction itself runs.
Retire(met, stores, orders) ==
  /\ store' = CASE stores -> "unexposed"
                [] orders /\ fi_enabled /\ ~met /\ store = "unexposed" -> "fenced"
                [] OTHER  -> IF met \/ orders THEN "exposed" ELSE store
  /\ UNCHANGED <<instruction, fi_enabled>>

Passes == pc = "counting" /\ UNCHANGED vars

\* The flag as each handler leaves it.
Flag(value) == performed_store_since_last_fp' = value

\* Flushes, sfence and movnt.
InstrumentFPsWrapper(kind, stack) ==
  /\ detect_all_fps /\ fi_enabled
  /\ IF performed_store_since_last_fp THEN InstrumentFPs(stack) ELSE Passes
  /\ Flag(FALSE)
  /\ Retire(performed_store_since_last_fp, FALSE, kind = "sfence")

NonFPWriteHandler ==
  /\ detect_all_fps /\ Passes
  /\ Flag(TRUE)
  /\ Retire(FALSE, TRUE, FALSE)

\* Mutant: a locked instruction on volatile memory is no failure point.
RMWFPHandler_PMOnly(pm, stack) ==
  /\ detect_all_fps /\ ~ignore_rmw
  /\ IF fi_enabled /\ pm THEN InstrumentFPs(stack) ELSE Passes
  /\ Flag(FALSE)
  /\ Retire(fi_enabled /\ pm, FALSE, TRUE)

RMWFPHandler(pm, stack) ==
  LET met == fi_enabled /\ (pm \/ performed_store_since_last_fp)
  IN  /\ detect_all_fps /\ ~ignore_rmw
      /\ IF met THEN InstrumentFPs(stack) ELSE Passes
      /\ Flag(FALSE)
      /\ Retire(met, FALSE, TRUE)

\* With -target allrmw a locked instruction is a store like any other.
IgnoredRMW(pm) ==
  /\ ignore_rmw /\ Passes
  /\ Flag(performed_store_since_last_fp \/ pm)
  /\ Retire(FALSE, pm, FALSE)

InstrumentStores(stack) ==
  /\ instruction = "store"
  /\ InstrumentFPs(stack) /\ Flag(performed_store_since_last_fp)
  /\ Retire(TRUE, TRUE, FALSE)

InstrumentOthers(kind, stack) ==
  /\ ~detect_all_fps /\ instruction # "store"
  /\ IF kind = instruction THEN InstrumentFPs(stack) ELSE Passes
  /\ Flag(performed_store_since_last_fp)
  /\ Retire(kind = instruction, kind = "store", kind = "sfence")

ExecuteCounting ==
  \/ Instrument \/ NonFPWriteHandler \/ \E pm \in BOOLEAN : IgnoredRMW(pm)
  \/ \E stack \in Stacks :
       \/ \E kind \in {"flush", "sfence", "movnt"} : InstrumentFPsWrapper(kind, stack)
       \/ \E pm \in BOOLEAN : RMWFPHandler(pm, stack)
       \/ \E kind \in {"store", "flush", "sfence", "movnt"} : InstrumentOthers(kind, stack)
       \/ InstrumentStores(stack)

\* Nothing of it outlives the execution.
EndCounting ==
  /\ WriteCount
  /\ fi_enabled' = FALSE /\ Flag(FALSE) /\ store' = "exposed"
  /\ UNCHANGED instruction

FPSpec == FPInit /\ [][
  ExecuteCounting \/ EndCounting \/ (CampaignNext /\ UNCHANGED fpvars)]_<<vars, fpvars>>
-----------------------------------------------------------------------------
(* With -target all, allrmw or sfence the target is crashed at least once  *)
(* between an ordinary store to persistent memory and the fence that comes *)
(* next (an sfence, and for all a locked instruction), once something is   *)
(* instrumented: one failure point for all stores since the last must not  *)
(* leave one store without.                                                *)
StoresExposed == instruction \in {"all", "allrmw", "sfence"} => store # "fenced"
=============================================================================
