--------------------------- MODULE RegionPlacement ---------------------------
(***************************************************************************)
(* Where palantir opens and closes the region of one access to persistent  *)
(* memory (analysis/statica.cpp): backwards from the access while the      *)
(* address it uses can still be computed (FindPossiblePIFRStart), forwards *)
(* to the releases and ends of the function (FindPossiblePIFREnds).        *)
(*                                                                         *)
(* A memory operand is a base register and a displacement.  An instruction *)
(* is "mov" (dst, src), "mov32" (the same on the low halves), "load" (dst, *)
(* base, disp), "store" (base, disp, src; src 0 is an immediate), "alu"    *)
(* (dst), "flush", or one of Calls and Jumps of ControlFlow, or "ret".     *)
(***************************************************************************)
EXTENDS ControlFlow

VARIABLES
  mode,       \* the option palantir is given
  access,     \* the instruction that accesses persistent memory
  items,      \* the worklist of FindPossiblePIFRStart
  paths,      \* the paths found so far: sequences of steps
  starts,     \* the patch points that open the region
  ends,       \* the instructions that close it
  discarded   \* history: the paths erased as duplicates; no action reads it

rpvars == <<mode, access, items, paths, starts, ends, discarded>>

Modes   == {"pifrs", "pifrs-with-ends", "minimal"}
rax     == 1
Origin  == Leader(code, access)
Operand(i) == [indirect |-> FALSE, base |-> code[i].base, disp |-> code[i].disp, post |-> 0]
SameMemAccess(m1, m2) == m1.base = m2.base /\ m1.disp = m2.disp

is_mov(i)       == code[i].op \in {"mov", "mov32", "load", "store"}
WritesMemory(i) == code[i].op = "store"
reads_from_register(i) == IF code[i].op \in {"mov", "mov32", "store"} THEN code[i].src ELSE 0
\* The family of the register written; register_written is that register if it is a whole one.
FamilyWritten(i)    == IF code[i].op \in {"mov", "mov32", "load", "alu"} THEN code[i].dst ELSE 0
register_written(i) == IF code[i].op = "mov32" THEN 0 ELSE FamilyWritten(i)

--------------------------------------------------------------------------
(* Which instructions matter: those that pifr_trace saw access persistent  *)
(* memory, and the calls by the names of the functions they call.          *)

\* The line that an execution of the instruction adds to the trace.
InstrumentCollectTrace(i) ==
  CASE code[i].op = "flush" -> "FLUSH" [] WritesMemory(i) -> "PM_WRITE" [] code[i].op = "load" -> "PM_READ" [] OTHER -> "none"

relevant_insts(line) ==
  CASE line = "PM_WRITE" -> "STORE" [] line = "PM_READ" -> "LOAD" [] line = "FLUSH" -> "CLWB" [] OTHER -> "OTHER"

annotate_relevant_insts(i) ==
  CASE code[i].op = "acquire" -> "ACQUIRE" [] code[i].op = "release" -> "RELEASE" [] OTHER -> relevant_insts(InstrumentCollectTrace(i))

--------------------------------------------------------------------------
(* UpdateTarget: the operand that has, before instruction i, the address t *)
(* has after it.  "possible" is what the code returns.                     *)

Stop(t) == [possible |-> FALSE, target |-> t]
Go(t)   == [possible |-> TRUE, target |-> t]

UpdateTarget(i, t) ==
  IF t.indirect /\ WritesMemory(i)
  THEN IF ~SameMemAccess(t, Operand(i))         THEN Go(t)
       ELSE IF reads_from_register(i) = 0       THEN Stop(t)
       ELSE Go([indirect |-> FALSE, base |-> reads_from_register(i), disp |-> t.post, post |-> 0])
  ELSE IF FamilyWritten(i) # t.base             THEN Go(t)
       ELSE IF ~is_mov(i)                       THEN Stop(t)
       ELSE IF reads_from_register(i) = 0
            THEN Go([indirect |-> TRUE, base |-> code[i].base, disp |-> code[i].disp, post |-> t.disp])
       ELSE Go(IF register_written(i) = t.base THEN [t EXCEPT !.base = reads_from_register(i)] ELSE t)

\* One instruction of WalkBlock, from what the instructions below it left.
WalkBack(r, i) ==
  IF ~r.possible THEN r
  ELSE IF code[i].op = "acquire" \/ (code[i].op \in Calls /\ r.target.base = rax)
       THEN [possible |-> FALSE, inst |-> i, target |-> r.target]
       ELSE LET u == UpdateTarget(i, r.target) IN [possible |-> u.possible, inst |-> i, target |-> u.target]

\* WalkBlock: backwards from before instruction "from" to the first of the block.
WalkBlock(b, from, t) ==
  LET walked[i \in b .. from] ==
        IF i = from THEN [possible |-> TRUE, inst |-> from, target |-> t] ELSE WalkBack(walked[i + 1], i)
  IN  walked[b]

\* WalkCFG: all predecessors must lead to the access; backedges are not followed.
CanWalk(b, same) ==
  /\ cfg.pred[b] # <<>>
  /\ \A p \in ToSet(cfg.pred[b]) : ~(p = b /\ same) /\ Postdominates(Origin, p)
\* Mutant: one predecessor is enough.
Preds_FirstOnly(b) == <<Head(cfg.pred[b])>>
Preds(b) == KeepAt(cfg.pred[b], {k \in DOMAIN cfg.pred[b] : ~Dominates(b, cfg.pred[b][k])})

--------------------------------------------------------------------------
(* FindPossiblePIFRStart, the walk *)

RPInit ==
  /\ CFInit
  /\ mode \in Modes
  /\ access \in {i \in DOMAIN code : annotate_relevant_insts(i) \in {"STORE", "LOAD"}}
  /\ items = <<[block |-> Origin, from |-> access, target |-> Operand(access), path |-> <<>>]>>
  /\ paths = <<>>
  /\ starts = {}
  /\ ends = {}
  /\ discarded = {}

BlockInPath(b, path) == \E k \in DOMAIN path : path[k].block = b

\* The part of the path before it enters the loop.
Outside(path, l) ==
  LET k == CHOOSE n \in DOMAIN path : path[n].block \in l.body /\ \A m \in 1 .. (n - 1) : path[m].block \notin l.body
  IN  SubSeq(path, 1, k - 1)

\* Mutant: the body of the loop is not looked at.
ChangesIn_Never(l, t) == FALSE
ChangesIn(l, t) == \E i \in UNION {Insts(code, b) : b \in l.body} :
                     (code[i].op \in Calls /\ t.base = rax) \/ register_written(i) = t.base

ProcessStep ==
  /\ phase = "starts"
  /\ items # <<>>
  /\ LET s     == Head(items)
         w     == WalkBlock(s.block, s.from, s.target)
         path  == Append(s.path, [block |-> s.block, inst |-> w.inst, target |-> w.target])
         same  == SameMemAccess(s.target, w.target)
         ok    == w.possible /\ CanWalk(s.block, same)
         Leave(l) == Origin \notin l.body
         Cut(l)   == CASE Leave(l) /\ ((ok /\ ~same) \/ ~w.possible) -> <<Outside(path, l)>>
                       [] ok /\ ~Leave(l) /\ l.header = s.block /\ ChangesIn(l, w.target) -> <<path>>
                       [] OTHER -> <<>>
         with  == LoopsWith(s.block)
         cuts  == FlattenSeq([k \in DOMAIN with |-> Cut(with[k])])
         preds == Preds(s.block)
         Item(p) == [block |-> p, from |-> LastInst(code, p) + 1, target |-> w.target, path |-> path]
     IN  /\ paths' = paths \o cuts \o (IF ok THEN <<>> ELSE <<path>>)
         /\ items' = Tail(items) \o
              (IF ok /\ cuts = <<>>
               THEN FlattenSeq([k \in DOMAIN preds |-> IF BlockInPath(preds[k], path) THEN <<>> ELSE <<Item(preds[k])>>])
               ELSE <<>>)
  /\ UNCHANGED <<cfvars, mode, access, starts, ends, discarded>>

--------------------------------------------------------------------------
(* FindPossiblePIFRStart, from the label restart on *)

SamePatchPoint(s1, s2) == s1.inst = s2.inst /\ SameMemAccess(s1.target, s2.target)

\* What the pair does to the paths; the same paths if it asks for nothing.
Pruned(p1, p2) ==
  LET s1 == Last(paths[p1])
      s2 == Last(paths[p2])
      pop(ps, p) == [ps EXCEPT ![p] = Front(ps[p])]
  IN  IF s1.block = s2.block
      THEN IF SamePatchPoint(s1, s2) THEN RemoveAt(paths, p2) ELSE pop(pop(paths, p1), p2)
      ELSE IF \/ code[s1.inst].op = "acquire" /\ Dominates(s2.block, s1.block)
              \/ Postdominates(s1.block, s2.block)
           THEN pop(paths, p2) ELSE paths
PrunePairs == {q \in (DOMAIN paths) \X (DOMAIN paths) : q[1] # q[2] /\ Pruned(q[1], q[2]) # paths}

NoPathEmpty == \A p \in DOMAIN paths : paths[p] # <<>>

Prune ==
  /\ phase = "starts"
  /\ items = <<>>
  /\ NoPathEmpty
  /\ \E q \in PrunePairs :
       /\ \A o \in PrunePairs : q[1] < o[1] \/ (q[1] = o[1] /\ q[2] <= o[2])
       /\ paths' = Pruned(q[1], q[2])
       /\ discarded' = discarded \cup IF Len(paths') < Len(paths) THEN {paths[q[2]]} ELSE {}
  /\ UNCHANGED <<cfvars, mode, access, items, starts, ends>>

\* back() of an empty path: undefined, the analysis is lost.
BackOfEmpty ==
  /\ phase = "starts"
  /\ items = <<>>
  /\ ~NoPathEmpty
  /\ phase' = "undefined"
  /\ UNCHANGED <<code, cfg, worklist, dominators, postdominators, loops, rpvars>>

CollectStarts ==
  /\ phase = "starts"
  /\ items = <<>>
  /\ NoPathEmpty
  /\ PrunePairs = {}
  /\ starts' = {[inst |-> Last(p).inst, target |-> Last(p).target] : p \in ToSet(paths)}
  /\ phase' = "ends"
  /\ UNCHANGED <<code, cfg, worklist, dominators, postdominators, loops, mode, access, items, paths, ends, discarded>>

--------------------------------------------------------------------------
(* FindPossiblePIFREnds *)

ReleasesAt(i) == code[i].op = "release"
FlushesAt(i)  == code[i].op = "flush"
BlockOf(i)    == Leader(code, i)

\* AllPathsBetween: BlockInPath (statica.cpp:513) compares each block with itself,
\* so no path grows beyond the block it starts in and one successor.
AdjacentTo(dest) == Contains(cfg.succ[Origin], BlockOf(dest))
Between(dest) ==
  {i \in Insts(code, Origin) : i >= access /\ ~(BlockOf(dest) = Origin /\ access <= dest /\ i >= dest)}
  \cup (IF BlockOf(dest) = Origin THEN {} ELSE {i \in Insts(code, BlockOf(dest)) : i < dest})

Flushes  == \E i \in DOMAIN code : FlushesAt(i)
Releases == \E i \in DOMAIN code : ReleasesAt(i)

ReleaseEnds ==
  IF ~Flushes \/ ~Releases THEN {}
  ELSE {i \in DOMAIN code : /\ ReleasesAt(i) /\ AdjacentTo(i)
                       /\ \E j \in Between(i) : code[access].op = "load" \/ FlushesAt(j)}

\* Mutant: any release closes the region.
AddCFGEnd_AnyRelease(es, b) == IF es = {} THEN {LastInst(code, b)} ELSE es

\* An end of the function stays open if a region end dominates an instruction on the way.
AddCFGEnd(es, b) ==
  LET end == LastInst(code, b)
  IN  IF AdjacentTo(end) /\ \E i \in Between(end), e \in es : Dominates(BlockOf(e), BlockOf(i))
      THEN es ELSE es \cup {end}

Terminators == KeepAt(cfg.blocks, {k \in DOMAIN cfg.blocks : cfg.succ[cfg.blocks[k]] = <<>>})

\* The ends once the first n ends of the function were considered.
EndsAfter(n) ==
  LET exits == Terminators
      found[k \in 0 .. n] == IF k = 0 THEN ReleaseEnds ELSE AddCFGEnd(found[k - 1], exits[k])
  IN  found[n]

\* FindPIFRsWithEnds: the ends of this access.  The last instruction of a block
\* without any is undefined.
FindEnds ==
  /\ phase = "ends"
  /\ mode = "pifrs-with-ends"
  /\ IF \E b \in ToSet(Terminators) : Insts(code, b) = {}
     THEN phase' = "undefined" /\ UNCHANGED ends
     ELSE phase' = "run" /\ ends' = EndsAfter(Len(Terminators))
  /\ UNCHANGED <<code, cfg, worklist, dominators, postdominators, loops, mode, access, items, paths, starts, discarded>>

\* FindPIFRs: every release of the function closes every region.
ReleasesEnd ==
  /\ phase = "ends"
  /\ mode = "pifrs"
  /\ phase' = "run"
  /\ ends' = {i \in DOMAIN code : ReleasesAt(i)}
  /\ UNCHANGED <<code, cfg, worklist, dominators, postdominators, loops, mode, access, items, paths, starts, discarded>>

\* --minimal: the region of an access starts at the access; there are no ends.
FindMinimalWindows ==
  /\ phase = "dominators" /\ mode = "minimal"
  /\ starts' = {[inst |-> access, target |-> Operand(access)]}
  /\ phase' = "run"
  /\ UNCHANGED <<code, cfg, worklist, dominators, postdominators, loops, mode, access, items, paths, ends, discarded>>

RPNext == (mode # "minimal" /\ CFNext /\ UNCHANGED rpvars) \/ FindMinimalWindows \/ ProcessStep \/ Prune \/ BackOfEmpty \/ CollectStarts \/ FindEnds \/ ReleasesEnd
=============================================================================
