--------------------------- MODULE PatchedFunction ---------------------------
(***************************************************************************)
(* The function after patch_wrapper.py and patcher.c put calls at the      *)
(* patch points, and the machine that executes it.  A value is the         *)
(* sequence of what was done to obtain it: the register it was in at       *)
(* entry, a load from a displacement, an operation of some step; two       *)
(* values are equal when they are for every memory without aliases.        *)
(***************************************************************************)
EXTENDS RegionPlacement

CONSTANTS Registers, MaxSteps

ASSUME RegistersAssumption ==
  /\ Registers \subseteq Nat \ {0}
  /\ \A p \in Programs : \A i \in DOMAIN p :
       /\ p[i].op \in {"mov", "mov32"} => p[i].dst \in Registers /\ p[i].src \in Registers
       /\ p[i].op = "load"  => p[i].dst \in Registers /\ p[i].base \in Registers
       /\ p[i].op = "store" => p[i].base \in Registers /\ p[i].src \in Registers \cup {0}
       /\ p[i].op = "alu"   => p[i].dst \in Registers

VARIABLES
  pc,        \* the next instruction; 0 after the end
  regs,      \* the registers
  mem,       \* the words stored so far
  steps,     \* instructions executed
  region,    \* the address the open region was started with, or Closed
  opened     \* whether a region was started before this visit of the access

xvars == <<pc, regs, mem, steps, region, opened>>
pfvars == <<cfvars, rpvars, xvars>>

Closed == <<>>

PFInit ==
  /\ RPInit
  /\ pc = 1
  /\ regs = [r \in Registers |-> <<r>>]
  /\ mem = <<>>
  /\ steps = 0
  /\ region = Closed
  /\ opened = FALSE

Loaded(m, v, d) == IF <<v, d>> \in DOMAIN m THEN m[<<v, d>>] ELSE Append(v, 10 + d)
Fresh           == <<100 + steps>>

\* The register of a mask; a base is a whole register here.
apply_mask(base, rs) == rs[base]

\* compute_mem_addr, and the indirect variants of patch_start_pifr.
Address(t, rs, m) ==
  IF t.indirect THEN <<Loaded(m, apply_mask(t.base, rs), t.disp), t.post>> ELSE <<apply_mask(t.base, rs), t.disp>>

RegsAfter(i) ==
  CASE code[i].op = "mov"   -> [regs EXCEPT ![code[i].dst] = regs[code[i].src]]
    [] code[i].op = "mov32" -> [regs EXCEPT ![code[i].dst] = Append(regs[code[i].src], 32)]
    [] code[i].op = "load"  -> [regs EXCEPT ![code[i].dst] = Loaded(mem, regs[code[i].base], code[i].disp)]
    [] code[i].op = "alu"   -> [regs EXCEPT ![code[i].dst] = Append(regs[code[i].dst], 100 + steps)]
    [] code[i].op \in Calls -> [regs EXCEPT ![rax] = Fresh]
    [] OTHER                -> regs

MemAfter(i) ==
  IF code[i].op # "store" THEN mem
  ELSE LET a == <<regs[code[i].base], code[i].disp>>
           v == IF code[i].src = 0 THEN Fresh ELSE regs[code[i].src]
       IN  [x \in DOMAIN mem \cup {a} |-> IF x = a THEN v ELSE mem[x]]

Successors(i) == LET es == ToSet(Edges(code, i)) IN IF es = {} THEN {0} ELSE {IF e \in DOMAIN code THEN e ELSE 0 : e \in es}

\* patch_end_pifrs runs before the instruction, patch_start_pifr after it, when
\* control falls through.
Execute ==
  /\ phase = "run"
  /\ pc # 0
  /\ steps < MaxSteps
  /\ \E next \in Successors(pc) :
       LET fallsThrough == next = pc + 1 /\ has_fallthrough(code, pc)
           here == {s \in starts : s.inst = pc}
       IN  /\ pc' = next
           /\ regs' = RegsAfter(pc)
           /\ mem' = MemAfter(pc)
           /\ IF here # {} /\ fallsThrough
              THEN \E s \in here : region' = Address(s.target, regs', mem') /\ opened' = TRUE
              ELSE /\ region' = IF pc \in ends THEN Closed ELSE region
                   /\ UNCHANGED opened
  /\ steps' = steps + 1
  /\ UNCHANGED <<cfvars, rpvars>>

PFNext == (RPNext /\ UNCHANGED xvars) \/ Execute
PFSpec == PFInit /\ [][PFNext]_pfvars /\ WF_pfvars(PFNext)

--------------------------------------------------------------------------
AtAccess == phase = "run" /\ pc = access

\* What the walk over the code is not made for: a pointer loaded through a
\* loaded pointer (statica.cpp:242 keeps one displacement), a 32-bit move into
\* the base register (statica.cpp:226-236 matches it but changes nothing).
OnePointer ==
  \A i, j \in DOMAIN code :
    code[i].op = "load" => /\ code[j].op = "load" => code[j].base # code[i].dst
                           /\ code[j].op = "mov"  => code[j].src # code[i].dst
WholeMoves == \A i \in DOMAIN code : code[i].op # "mov32"

\* Nor for functions whose entry is jumped to, or that cannot return from the
\* access; a start at a jump, or at the access itself, runs too late, being
\* patched after its instruction (patch_wrapper.py:86).
Placed == /\ cfg.pred[Entry] = <<>>
          /\ Origin \in Exiting
          /\ \A s \in starts : s.inst # access /\ code[s.inst].op \notin Jumps

(* What the walks backwards leave out: a change of the address on a way    *)
(* that the region takes and no walk did.  The walks are those that were   *)
(* kept and those that were erased as duplicates.                          *)
WalkedPaths == ToSet(paths) \cup discarded
WalkedSteps == UNION {ToSet(p) : p \in WalkedPaths}
PatchPoint(s) == [inst |-> s.inst, target |-> s.target]

\* Two walks that end in the same step are duplicates and one is erased
\* (statica.cpp:461-468).  The other may be shortened later: then it ends in
\* another step, and nothing opens the region on the way of the erased one.
SurvivorsKept == \A p \in discarded : PatchPoint(Last(p)) \in starts

\* A start lies on the way of another walk, with another target, or in a loop
\* whose header is; only the last steps of walks are compared (statica.cpp:453-490).
NoStartPassed ==
  \A s \in starts, w \in WalkedSteps :
    /\ BlockOf(s.inst) = w.block => PatchPoint(w) = s
    /\ \A l \in ToSet(loops) : w.block = l.header /\ BlockOf(s.inst) \in l.body => w.target = s.target

\* A walk goes through the header of a loop and on.  Its body, which the walk need
\* not enter, is looked at if the access is in it, and for registers only
\* (statica.cpp:371-402).
LoopsPassedKeep ==
  \A p \in WalkedPaths, l \in ToSet(loops) : \A w \in ToSet(p) :
    w.block = l.header /\ Last(p).block \notin l.body =>
      \A i \in UNION {Insts(code, b) : b \in l.body} :
        /\ Origin \notin l.body => FamilyWritten(i) # w.target.base /\ ~(code[i].op \in Calls /\ w.target.base = rax)
        /\ w.target.indirect /\ WritesMemory(i) => code[i].disp # w.target.disp

\* A cycle that is entered at two blocks is no loop of the analysis.
Reducible == ~\E S \in (SUBSET Blocks) \ {{}} : \A b \in S : \E c \in ToSet(cfg.succ[b]) \cap S : ~Dominates(c, b)

\* A store is matched with the tracked word by the names of registers (statica.cpp:206-208).
OneName ==
  \A i, j \in DOMAIN code :
    WritesMemory(i) /\ code[j].op = "load" /\ code[i].disp = code[j].disp => code[i].base = code[j].base

Accessed == <<regs[code[access].base], code[access].disp>>

\* After an access whose region was started at the access itself; one that loads
\* over its own base has lost the address by then.
AfterMinimal ==
  /\ phase = "run" /\ mode = "minimal" /\ pc = access + 1 /\ ~IsJumpTarget(code, pc)
  /\ FamilyWritten(access) # code[access].base

\* A region that is open when the access runs is open for the address that is
\* accessed: UpdateTarget and the loop rules of FindPossiblePIFRStart carried
\* the operand back correctly over every path, iteration and pruned step, but
\* for what the exceptions above name.  One of FindMinimalWindows is once the
\* access has run (statica.cpp:868-920).
RightAddress ==
  /\ AtAccess /\ region # Closed /\ Placed /\ OnePointer /\ WholeMoves
     /\ OneName /\ Reducible /\ LoopsPassedKeep /\ NoStartPassed => region = Accessed
  /\ AfterMinimal => region = Accessed

\* No execution reaches the access without having passed a patch point that
\* opens its region: the postdominance tests of WalkCFG and the pruning of the
\* paths keep a start on every way (statica.cpp:324-496), unless a path was
\* erased as a duplicate of one that is shortened later.
Covered == AtAccess /\ Placed /\ SurvivorsKept => opened

\* With ends, a function returns with the region open only if a release before
\* the access dominates the return (statica.cpp:618-650); where the entry is
\* jumped to, every block seems to dominate it.
ClosedAtExit ==
  phase = "run" /\ pc = 0 /\ mode = "pifrs-with-ends" /\ ~EntryIsTarget /\ region # Closed
    => \E e \in ends : ReleasesAt(e) /\ Dominates(BlockOf(e), Origin)

\* The worklists and the pruning, which starts over after every change, end; and
\* back() is taken of an empty path (statica.cpp:455), or the last instruction of an
\* empty block, only in functions that cannot return from the access or tail-call.
AnalysisEnds ==
  <>(\/ phase = "run"
     \/ phase = "undefined" /\ (Origin \notin Exiting \/ \E b \in Exits : Insts(code, b) = {}))
==============================================================================
