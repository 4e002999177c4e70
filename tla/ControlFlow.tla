----------------------------- MODULE ControlFlow -----------------------------
(***************************************************************************)
(* The control flow graph of one function and what palantir computes on    *)
(* it: basic blocks (Function::BuildCFG), dominators and postdominators    *)
(* by worklists (CFG::ComputeDominators), natural loops (DefineLoops).     *)
(*                                                                         *)
(* A function is a sequence of instructions; an instruction's address is   *)
(* its index and a block's name is its first address.  A jump out of the   *)
(* function goes to an address behind the last: new_block makes a block    *)
(* without instructions for it.                                            *)
(***************************************************************************)
EXTENDS Integers, Sequences, FiniteSets, SequencesExt

CONSTANT Programs   \* the functions under analysis

VARIABLES
  code,            \* the instructions of the function
  cfg,             \* its blocks, their successors and predecessors
  phase,           \* what the analysis is doing
  worklist,        \* the deque of the loop it is in
  dominators,      \* dominators[b]: the set computed so far for block b
  postdominators,
  loops            \* the natural loops, in the order they are found

cfvars == <<code, cfg, phase, worklist, dominators, postdominators, loops>>

Jumps     == {"jmp", "jcc"}
Calls     == {"call", "acquire", "release", "exit"}
NoReturns == {"ret", "jmp"}
does_not_return(i) == i.op = "exit"     \* a call of exit, abort, longjmp and the like

ASSUME ProgramsAssumption ==
  \A p \in Programs :
    /\ p \in Seq(ToSet(p)) /\ p # <<>>
    /\ \A i \in DOMAIN p : p[i].op \in Jumps => p[i].target \in Nat \ {0}

\* The elements of s at the positions in N.
KeepAt(s, N) == FlattenSeq([k \in DOMAIN s |-> IF k \in N THEN <<s[k]>> ELSE <<>>])

--------------------------------------------------------------------------
(* Function::BuildCFG *)

has_fallthrough(p, i) == p[i].op \notin NoReturns /\ ~does_not_return(p[i]) /\ i < Len(p)
Edges(p, i) == (IF has_fallthrough(p, i) THEN <<i + 1>> ELSE <<>>)
               \o (IF p[i].op \in Jumps THEN <<p[i].target>> ELSE <<>>)
IsJumpTarget(p, i) == \E j \in DOMAIN p : p[j].op \in Jumps /\ p[j].target = i
EndsBlock(p, i)    == p[i].op \in Jumps \/ (i < Len(p) /\ IsJumpTarget(p, i + 1))
IsLeader(p, i)     == i = 1 \/ EndsBlock(p, i - 1) \/ Edges(p, i - 1) = <<>>

\* The calls of new_block, in order; a block exists from the first on.
NewBlocks(p) ==
  LET at(i) == (IF IsLeader(p, i) THEN <<i>> ELSE <<>>) \o (IF EndsBlock(p, i) THEN Edges(p, i) ELSE <<>>)
  IN  FlattenSeq([i \in DOMAIN p |-> at(i)])

Leader(p, i) == CHOOSE l \in 1 .. i : IsLeader(p, l) /\ \A k \in (l + 1) .. i : ~IsLeader(p, k)
Insts(p, b)  == {i \in DOMAIN p : i >= b /\ Leader(p, i) = b}
LastInst(p, b) == CHOOSE i \in Insts(p, b) : \A j \in Insts(p, b) : j <= i

BuildCFG(p) ==
  LET new    == NewBlocks(p)
      blocks == KeepAt(new, {k \in DOMAIN new : \A j \in 1 .. (k - 1) : new[j] # new[k]})
      succ   == [b \in ToSet(blocks) |-> IF Insts(p, b) = {} \/ ~EndsBlock(p, LastInst(p, b))
                                          THEN <<>> ELSE Edges(p, LastInst(p, b))]
      from(i, b) == KeepAt([n \in DOMAIN Edges(p, i) |-> Leader(p, i)],
                           {n \in DOMAIN Edges(p, i) : EndsBlock(p, i) /\ Edges(p, i)[n] = b})
  IN  [blocks |-> blocks, succ |-> succ,
       pred |-> [b \in ToSet(blocks) |-> FlattenSeq([i \in DOMAIN p |-> from(i, b)])]]

Blocks == ToSet(cfg.blocks)
Entry  == cfg.blocks[1]

--------------------------------------------------------------------------
(* CFG::ComputeDominators *)

CFInit ==
  /\ code \in Programs
  /\ cfg = BuildCFG(code)
  /\ phase = "dominators"
  /\ worklist = <<cfg.blocks[1]>>
  /\ dominators = [b \in ToSet(cfg.blocks) |-> ToSet(cfg.blocks)]
  /\ postdominators = dominators
  /\ loops = <<>>

\* Mutant: successors are queued whether the set changed or not.
DominatorsStep_AlwaysQueued ==
  /\ phase = "dominators"
  /\ worklist # <<>>
  /\ worklist' = Tail(worklist) \o cfg.succ[Head(worklist)]
  /\ UNCHANGED <<code, cfg, phase, dominators, postdominators, loops>>
\* Mutant: only the first neighbour counts.
Meet_FirstOnly(y, neighbours, sets) == {y} \cup (IF neighbours = <<>> THEN {} ELSE sets[Head(neighbours)])

\* The new set of y: what the sets of its neighbours other than itself share.
Meet(y, neighbours, sets) ==
  LET others == ToSet(neighbours) \ {y}
  IN  {y} \cup (IF others = {} THEN {} ELSE {b \in Blocks : \A x \in others : b \in sets[x]})

\* Take the head of the worklist; queue the blocks that depend on a set that changed.
DominatorsStep ==
  /\ phase = "dominators"
  /\ worklist # <<>>
  /\ LET y   == Head(worklist)
         new == Meet(y, cfg.pred[y], dominators)
     IN  /\ dominators' = [dominators EXCEPT ![y] = new]
         /\ worklist' = Tail(worklist) \o (IF new # dominators[y] THEN cfg.succ[y] ELSE <<>>)
  /\ UNCHANGED <<code, cfg, phase, postdominators, loops>>

\* Mutant: the second worklist starts at the first exit only.
StartPostdominators_OneExit ==
  /\ phase = "dominators"
  /\ worklist = <<>>
  /\ phase' = "postdominators"
  /\ \E b \in Blocks : cfg.succ[b] = <<>> /\ worklist' = <<b>>
  /\ UNCHANGED <<code, cfg, dominators, postdominators, loops>>

StartPostdominators ==
  /\ phase = "dominators"
  /\ worklist = <<>>
  /\ phase' = "postdominators"
  /\ worklist' = KeepAt(cfg.blocks, {k \in DOMAIN cfg.blocks : cfg.succ[cfg.blocks[k]] = <<>>})
  /\ UNCHANGED <<code, cfg, dominators, postdominators, loops>>

PostdominatorsStep ==
  /\ phase = "postdominators"
  /\ worklist # <<>>
  /\ LET y   == Head(worklist)
         new == Meet(y, cfg.succ[y], postdominators)
     IN  /\ postdominators' = [postdominators EXCEPT ![y] = new]
         /\ worklist' = Tail(worklist) \o (IF new # postdominators[y] THEN cfg.pred[y] ELSE <<>>)
  /\ UNCHANGED <<code, cfg, phase, dominators, loops>>

Dominates(a, b)     == a \in dominators[b]
Postdominates(a, b) == a \in postdominators[b]
ImmediatlyDominates(a, b) == a # b /\ Dominates(a, b) /\ dominators[b] \ {b} \subseteq dominators[a]

\* What can be reached from S by steps to next.
Closure(S, next) ==
  LET f[n \in 0 .. Cardinality(Blocks)] == IF n = 0 THEN S ELSE f[n - 1] \cup UNION {next[b] : b \in f[n - 1]}
  IN  f[Cardinality(Blocks)]

Succ == [b \in Blocks |-> ToSet(cfg.succ[b])]
Pred == [b \in Blocks |-> ToSet(cfg.pred[b])]

\* Mutant: the walk does not stop at the header.
LoopBody_PastHeader(h, n) == {h} \cup Closure({n}, Pred)

LoopBody(h, n) == {h} \cup (IF h = n THEN {} ELSE Closure({n}, [Pred EXCEPT ![h] = {}]))

LoopsFrom(n, doms) ==
  LET headers == KeepAt(cfg.succ[n], {k \in DOMAIN cfg.succ[n] : cfg.succ[n][k] \in doms[n]})
  IN  [k \in DOMAIN headers |-> [header |-> headers[k], end |-> n, body |-> LoopBody(headers[k], n)]]
LoopsOf(doms) == FlattenSeq([k \in DOMAIN cfg.blocks |-> LoopsFrom(cfg.blocks[k], doms)])

DefineLoops ==
  /\ phase = "postdominators"
  /\ worklist = <<>>
  /\ loops' = LoopsOf(dominators)
  /\ phase' = "starts"
  /\ UNCHANGED <<code, cfg, worklist, dominators, postdominators>>

LoopsWith(b) == KeepAt(loops, {k \in DOMAIN loops : b \in loops[k].body})

CFNext == DominatorsStep \/ StartPostdominators \/ PostdominatorsStep \/ DefineLoops

--------------------------------------------------------------------------
(* The reference: what the names promise. *)

ReachableAvoiding(a, x) == IF a = x THEN {} ELSE Closure({a}, [b \in Blocks |-> Succ[b] \ {x}])
Reachable == Closure({Entry}, Succ)
Exits     == {b \in Blocks : cfg.succ[b] = <<>>}
Exiting   == Closure(Exits, Pred)   \* blocks an exit is reachable from

TrulyDominates(x, y)     == y \notin ReachableAvoiding(Entry, x)
TrulyPostdominates(x, y) == ReachableAvoiding(y, x) \cap Exits = {}

\* A jump to the first instruction from another block: the worklist starts with
\* the entry alone, whose set then keeps every block, and ends with it.
EntryIsTarget == ToSet(cfg.pred[Entry]) \ {Entry} # {}

Analysed == phase = "starts"   \* nothing here changes afterwards

\* The sets the worklist leaves behind are the dominators of every reachable
\* block, computed from a fixed point over unreachable predecessors too, and an
\* early end of the worklist (cfg.cpp:209-260) leaves none of them too large.  The
\* dominators of a block lie on one path: one is immediate (cfg.cpp:323-339).
DominatorsExact ==
  Analysed /\ ~EntryIsTarget =>
    /\ \A x \in Blocks : LET without == ReachableAvoiding(Entry, x)
                          IN  \A y \in Reachable : Dominates(x, y) <=> y \notin without
    /\ \A y \in Reachable \ {Entry} : Cardinality({x \in Blocks : ImmediatlyDominates(x, y)}) = 1

\* The same for the second worklist (cfg.cpp:262-316), which starts at several
\* exits; a block no exit can be reached from keeps every block.
PostdominatorsExact ==
  Analysed =>
    \A y \in Blocks : postdominators[y] = IF y \in Exiting THEN {x \in Blocks : TrulyPostdominates(x, y)} ELSE Blocks

\* A loop is found for each edge to a dominator, and its body, from which the
\* placement of regions decides where it may not go, is what reaches the edge
\* without its header (cfg.cpp:393-436).
LoopsExact ==
  Analysed /\ ~EntryIsTarget /\ Reachable = Blocks =>
    /\ loops = LoopsOf([y \in Blocks |-> {x \in Blocks : TrulyDominates(x, y)}])
    /\ \A k \in DOMAIN loops : LET l == loops[k] IN
         /\ \A b \in l.body \ {l.header} : TrulyDominates(l.header, b) /\ ToSet(cfg.pred[b]) \subseteq l.body
         /\ l.end \in l.body

\* What the placement of regions takes from the graph (cfg.cpp:209-436).
GraphsExact == DominatorsExact /\ PostdominatorsExact /\ LoopsExact
==============================================================================
