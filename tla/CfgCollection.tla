---------------------------- MODULE CfgCollection ----------------------------
(***************************************************************************)
(* collect_cfg: a first execution under PIN records the accesses to        *)
(* persistent memory and the indirect branches of the program, a second    *)
(* one loads them, builds the control-flow graph of each routine with      *)
(* edges from flushes to the stores they persist, and reduces it to the    *)
(* instructions of interest.  One routine, at addresses 1..Len(code) of    *)
(* its image; a thread executes it once the regions are mapped.            *)
(***************************************************************************)
EXTENDS PmMappings, FiniteSets

CONSTANTS
  Cases,           \* [code, calls]: a routine, and a bound on the calls before it
  CACHELINE_SIZE,
  Base,            \* where the image is loaded
  Addresses,       \* operands of the accesses to memory
  MaxSteps         \* bound on the instructions executed

VARIABLES
  code,            \* sequence of [op, target]
  phase,           \* "map", "collect", "load", "build", "reduce", "done"
  rip,             \* the next instruction, 0 after the return
  steps,           \* the transfers of control of the execution
  trace,           \* lines of trace.txt
  missed,          \* an access to mapped memory was not traced
  tables,          \* what LoadTrace makes of the trace
  nodes,           \* address -> type
  forward_edges,   \* pairs <<source, target>>, by source
  backward_edges,  \* the same, by target
  to_reduce        \* nodes reduce has yet to take out

gvars == <<code, phase, rip, steps, trace, missed, tables, nodes, forward_edges, backward_edges, to_reduce>>

Reads(ins)       == ins.op = "load"
Writes(ins)      == ins.op = "store"
Flushing(ins)    == ins.op = "clwb"
Indirect(ins)    == ins.op \in {"ijmp", "ret"}
Direct(ins)      == ins.op \in {"jcc", "jmp"}
ControlFlow(ins) == Indirect(ins) \/ Direct(ins)
FallsThrough(ins) == ins.op \notin {"jmp", "ijmp", "ret", "call"}
FollowedByNext(ins) == FallsThrough(ins) \/ ins.op = "call"

\* The last instruction of a routine leaves it, direct jumps stay inside.
ASSUME CasesAssumption ==
  \A c \in Cases :
    /\ Len(c.code) \in Nat \ {0} /\ DOMAIN c.code = 1..Len(c.code)
    /\ ~FollowedByNext(c.code[Len(c.code)])
    /\ \A i \in DOMAIN c.code : Direct(c.code[i]) => c.code[i].target \in DOMAIN c.code

ASSUME LinesAssumption == CACHELINE_SIZE \in Nat \ {0} /\ Addresses \subseteq Nat /\ Base \in Nat

NoTables == [branches |-> {}, pm_stores |-> {}, pm_flushes |-> {}, pm_loads |-> {}, persist_deps |-> {},
             flush_pending |-> <<>>, fence_pending |-> <<>>]

CollectionInit ==
  \E c \in Cases :
    /\ MappingsInit(c.calls)
    /\ code = c.code /\ phase = "map" /\ rip = 1 /\ steps = {} /\ trace = <<>> /\ missed = FALSE
    /\ tables = NoTables /\ nodes = <<>> /\ forward_edges = {} /\ backward_edges = {} /\ to_reduce = {}

Mapping ==
  /\ phase = "map"
  /\ \/ MappingsNext /\ UNCHANGED phase
     \/ Quiet /\ phase' = "collect" /\ UNCHANGED mvars
  /\ UNCHANGED <<code, rip, steps, trace, missed, tables, nodes, forward_edges, backward_edges, to_reduce>>

--------------------------------------------------------------------------
(* The first execution. *)

Line(type, ip, target) == [type |-> type, ip |-> ip, target |-> target]

Goes(to) == rip' = to /\ steps' = steps \cup {<<rip, to>>}

\* LoadHandler, StoreHandler and FlushHandler.
AccessHandler(type) ==
  \E address \in Addresses :
    LET size == IF type = "flush" THEN 0 ELSE 1
    IN  /\ trace' = IF IsPMAddress(address, size) THEN Append(trace, Line(type, rip, address)) ELSE trace
        /\ missed' = (missed \/ (/\ ~IsPMAddress(address, size)
                                 /\ Mapped(address)))

FenceHandler == trace' = Append(trace, Line("fence", rip, 0)) /\ UNCHANGED missed

\* Its addresses are those of the process, not of the image.
IndirectBranchHandler(to) == trace' = Append(trace, Line("branch", Base + rip, Base + to)) /\ UNCHANGED missed

Execute ==
  LET ins == code[rip]
  IN  /\ phase = "collect" /\ rip # 0 /\ Cardinality(steps) < MaxSteps /\ Len(trace) < MaxSteps
      /\ \/ Reads(ins)    /\ AccessHandler("load")  /\ Goes(rip + 1)
         \/ Writes(ins)   /\ AccessHandler("store") /\ Goes(rip + 1)
         \/ Flushing(ins) /\ AccessHandler("flush") /\ Goes(rip + 1)
         \/ ins.op = "fence" /\ FenceHandler /\ Goes(rip + 1)
         \/ ins.op = "ijmp" /\ \E to \in DOMAIN code : IndirectBranchHandler(to) /\ Goes(to)
         \/ ins.op = "ret" /\ IndirectBranchHandler(0) /\ rip' = 0 /\ UNCHANGED steps
         \/ ins.op \in {"nop", "jcc", "call"} /\ Goes(rip + 1) /\ UNCHANGED <<trace, missed>>
         \/ Direct(ins) /\ Goes(ins.target) /\ UNCHANGED <<trace, missed>>
      /\ UNCHANGED <<mvars, code, phase, tables, nodes, forward_edges, backward_edges, to_reduce>>

\* The program ends, or exits from wherever it is.
CollectCFGFini ==
  /\ phase = "collect"
  /\ phase' = "load"
  /\ UNCHANGED <<mvars, code, rip, steps, trace, missed, tables, nodes, forward_edges, backward_edges, to_reduce>>

--------------------------------------------------------------------------
(* LoadTrace.  It never reads the size of a store, and gives the Processer *)
(* stores of no length: CheckStore finds none of those, and the first      *)
(* store to an address stays in flush_pending until it is flushed.         *)

With(map, entries) == [a \in DOMAIN map \cup DOMAIN entries |-> IF a \in DOMAIN map THEN map[a] ELSE entries[a]]

LoadStore(t, line) ==
  [t EXCEPT !.pm_stores = @ \cup {line.ip}, !.flush_pending = With(@, [a \in {line.target} |-> line.ip])]

\* A store of no length at the end of the line is inside it, provided that the
\* loop is entered at all.
FlushedBy(pending, address) ==
  LET keys == {a \in DOMAIN pending : address <= a /\ a <= address + CACHELINE_SIZE}
  IN  IF \E a \in keys : a < address + CACHELINE_SIZE THEN keys ELSE {}

LoadFlush(t, line) ==
  LET keys == FlushedBy(t.flush_pending, line.target)
  IN  [t EXCEPT !.pm_flushes = @ \cup {line.ip},
                !.persist_deps = @ \cup {<<line.ip, t.flush_pending[a]>> : a \in keys},
                !.flush_pending = [a \in DOMAIN @ \ keys |-> @[a]],
                !.fence_pending = With(@, [a \in keys |-> line.ip])]

\* Mutant: what was fenced is not cleared.
LoadFence_NoClear(t, line) ==
  [t EXCEPT !.persist_deps = @ \cup {<<line.ip, t.fence_pending[a]>> : a \in DOMAIN t.fence_pending}]

LoadFence(t, line) ==
  [t EXCEPT !.persist_deps = @ \cup {<<line.ip, t.fence_pending[a]>> : a \in DOMAIN t.fence_pending},
            !.fence_pending = <<>>]

LoadLine(t, line) ==
  CASE line.type = "store"  -> LoadStore(t, line)
    [] line.type = "flush"  -> LoadFlush(t, line)
    [] line.type = "fence"  -> LoadFence(t, line)
    [] line.type = "load"   -> [t EXCEPT !.pm_loads = @ \cup {line.ip}]
    [] line.type = "branch" -> [t EXCEPT !.branches = @ \cup {<<line.ip, line.target>>}]

LoadTrace ==
  /\ phase = "load"
  /\ tables' = FoldLeft(LoadLine, NoTables, trace)
  /\ phase' = "build"
  /\ UNCHANGED <<mvars, code, rip, steps, trace, missed, nodes, forward_edges, backward_edges, to_reduce>>

--------------------------------------------------------------------------
(* The second execution: the graph of the routine, and its reduction.      *)

GetINSWrapper(i) ==
  LET ins == code[i]
  IN  CASE Writes(ins) /\ i \in tables.pm_stores    -> "STORE"
        [] Reads(ins) /\ i \in tables.pm_loads      -> "LOAD"
        [] Flushing(ins) /\ i \in tables.pm_flushes -> "CLWB"
        [] ins.op = "fence"                         -> "FENCE"
        [] ControlFlow(ins)                         -> "BRANCH"
        [] OTHER                                    -> "OTHER"

\* Mutant: a call is not followed by the next instruction.
Fallthrough_NotCalls == {<<i, i + 1>> : i \in {j \in DOMAIN code : j < Len(code) /\ FallsThrough(code[j])}}

Fallthrough == {<<i, i + 1>> : i \in {j \in DOMAIN code : j < Len(code) /\ FollowedByNext(code[j])}}

Within(pairs) == {p \in pairs : p[1] \in DOMAIN code /\ p[2] \in DOMAIN code}

Jumps == Within(tables.branches) \cup {<<i, code[i].target>> : i \in {j \in DOMAIN code : Direct(code[j])}}

Edges == Fallthrough \cup Jumps \cup Within(tables.persist_deps)

NodeType(i) ==
  IF i = 1 \/ (GetINSWrapper(i) = "OTHER" /\ \E p \in Within(tables.branches) : p[2] = i)
  THEN "BRANCH_TARGET" ELSE GetINSWrapper(i)

GetCFGforRTN ==
  /\ phase = "build"
  /\ nodes' = [i \in DOMAIN code |-> NodeType(i)]
  /\ forward_edges' = Edges /\ backward_edges' = Edges
  /\ to_reduce' = {i \in DOMAIN code : NodeType(i) = "OTHER"}
  /\ phase' = "reduce"
  /\ UNCHANGED <<mvars, code, rip, steps, trace, missed, tables>>

\* Mutant: the edge is entered by its source only.
add_edges_OneWay(new) == [forward |-> forward_edges \cup new, backward |-> backward_edges]

add_edges(new) == [forward |-> forward_edges \cup new, backward |-> backward_edges \cup new]

\* A node with no predecessor stays among the predecessors of its successors.
reduce ==
  LET node  == CHOOSE n \in to_reduce : \A o \in to_reduce : n <= o
      backs == {b \in 1..Len(code) : <<b, node>> \in backward_edges}
      fwds  == {f \in 1..Len(code) : <<node, f>> \in forward_edges}
      added == add_edges({p \in backs \X fwds : p[1] # p[2]})
  IN  /\ phase = "reduce" /\ to_reduce # {}
      /\ nodes' = [n \in DOMAIN nodes \ {node} |-> nodes[n]]
      /\ forward_edges' = added.forward \ ((backs \X {node}) \cup ({node} \X fwds))
      /\ backward_edges' = IF backs = {} THEN added.backward ELSE added.backward \ ({node} \X fwds)
      /\ to_reduce' = to_reduce \ {node}
      /\ UNCHANGED <<mvars, code, phase, rip, steps, trace, missed, tables>>

Written ==
  /\ phase = "reduce" /\ to_reduce = {}
  /\ phase' = "done"
  /\ UNCHANGED <<mvars, code, rip, steps, trace, missed, tables, nodes, forward_edges, backward_edges, to_reduce>>

CollectionNext == Mapping \/ Execute \/ CollectCFGFini \/ LoadTrace \/ GetCFGforRTN \/ reduce \/ Written

CollectionSpec == CollectionInit /\ [][CollectionNext]_<<mvars, gvars>>
--------------------------------------------------------------------------
(* Every access to a mapping is in the trace: the address PIN has of it is *)
(* that of the last mapping, whatever calls came before and whichever of   *)
(* them failed (pin_utils.hpp:84), as long as no two threads were in a     *)
(* call at once.                                                           *)
AccessesTraced == missed => overlapped

(* Both tables of mappings are those of the system, as far as the program  *)
(* can tell (pin_utils.hpp:58, mmap_wrapper.c:80).                         *)
TablesExact == WrapperExact /\ AccessesTraced

Stores(j, address)   == trace[j].type = "store" /\ trace[j].target = address
CoversLine(k, address) == trace[k].type = "flush" /\ trace[k].target <= address /\ address < trace[k].target + CACHELINE_SIZE
Takes(k, address)    == CoversLine(k, address) \/ (trace[k].type = "flush" /\ address = trace[k].target + CACHELINE_SIZE)

(* The edges the trace gives: from a flush to a store before it in the     *)
(* line, or in the first word behind it, that no flush of its line came    *)
(* after; from a fence to a flush since the last fence; and every store    *)
(* that was flushed has one, or an earlier store to its address has        *)
(* (tracing.hpp:281, 341).                                                 *)
DependenciesOrdered ==
  LET deps == tables.persist_deps
      Between(j, k, type) == \E m \in (j + 1)..(k - 1) : trace[m].type = type
  IN  phase \in {"build", "reduce", "done"} =>
        /\ \A d \in deps : \E j, k \in DOMAIN trace :
             /\ j < k /\ trace[j].ip = d[2] /\ trace[k].ip = d[1]
             /\ \/ /\ \E a \in Addresses : Stores(j, a) /\ Takes(k, a) /\ \A m \in (j + 1)..(k - 1) : ~CoversLine(m, a)
                \/ trace[j].type = "flush" /\ trace[k].type = "fence" /\ ~Between(j, k, "fence")
        /\ \A j, k \in DOMAIN trace, a \in Addresses :
             j < k /\ Stores(j, a) /\ CoversLine(k, a) =>
               \E i \in 1..j, m \in (j + 1)..k : Stores(i, a) /\ Takes(m, a) /\ <<trace[m].ip, trace[i].ip>> \in deps

Removed == DOMAIN code \ DOMAIN nodes

\* What is connected over these edges, through nodes taken out only.
Connected(edges) ==
  FoldSet(LAMBDA n, pairs : pairs \cup {p \in (1..Len(code)) \X (1..Len(code)) : <<p[1], n>> \in pairs /\ <<n, p[2]>> \in pairs},
          edges, Removed)

(* Two nodes that are left are connected exactly when a path through the   *)
(* nodes taken out connected them, whatever the order of the addresses,    *)
(* branches and code nothing leads to (instrumentation/cfg.hpp:164).       *)
ReducedExact ==
  phase \in {"reduce", "done"} =>
    LET connected == Connected(Edges)
    IN  \A a, b \in DOMAIN nodes : a # b => (<<a, b>> \in forward_edges <=> <<a, b>> \in connected)

(* What the first execution did is a path of the graph, except where an    *)
(* indirect jump led: these are recorded at addresses of the process, and  *)
(* are found at none of the nodes.                                         *)
ExecutionInCFG ==
  phase = "done" =>
    \A p \in Connected({s \in steps : ~Indirect(code[s[1]])}) :
      p[1] # p[2] /\ {p[1], p[2]} \subseteq DOMAIN nodes => p \in forward_edges
=============================================================================
