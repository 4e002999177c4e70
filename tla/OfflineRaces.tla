----------------------------- MODULE OfflineRaces -----------------------------
(***************************************************************************)
(* The same races found offline: the program runs under PIN, which traces  *)
(* its accesses and the entries of its acquire and release functions       *)
(* (pifr_oftrace.cpp), and pifr_oftp opens and closes the regions of the   *)
(* trace in the region store of the runtime.  It opens the region of an    *)
(* access where the thread last entered an acquire, by moving the access   *)
(* there before it consumes the trace.                                     *)
(* A program is watched by the runtime or offline, never both.             *)
(***************************************************************************)
EXTENDS RaceDetection

CONSTANTS
  MaxTrace,   \* bound on the lines of a trace
  Slices      \* progress reports of pifr_oftp (10)

VARIABLES
  stage,      \* "online", or of the offline analysis: "tracing", "consuming", "done", "died"
  trace,      \* lines [type, thread, ip, target]
  mapped,     \* lines [type, thread, target, pifrs]
  line,       \* the line being consumed
  access,     \* the next of its pifrs
  regions,    \* the region store of pifr_oftp
  to_close,
  bugs        \* pairs of ids in its bugs.txt

ofvars == <<stage, trace, mapped, line, access, regions, to_close, bugs>>

Backend == INSTANCE PIFRRuntime WITH pifrs <- regions, pifrs_to_close <- to_close

OfflineInit ==
  /\ RInit
  /\ stage \in {"online", "tracing"}
  /\ trace = <<>> /\ mapped = <<>> /\ line = 1 /\ access = 1
  /\ regions = <<>> /\ to_close = <<>> /\ bugs = {}

--------------------------------------------------------------------------
(* pifr_oftrace, under the lock of PIN. *)

ThreadedTrace(t, type, ip, target) ==
  /\ stage = "tracing" /\ Len(trace) < MaxTrace
  /\ trace' = Append(trace, [type |-> type, thread |-> t, ip |-> ip, target |-> target])
  /\ UNCHANGED <<stage, mapped, line, access, regions, to_close, bugs>>

\* Before the function runs: an acquire has not got its lock yet.
SyncHandler(t)      == \E type \in {"ACQUIRE", "RELEASE"} : ThreadedTrace(t, type, 0, 0)
AccessHandler(t, a) == (\E ip \in Writes : ThreadedTrace(t, "PM_WRITE", ip, a)) \/ (\E ip \in Reads : ThreadedTrace(t, "PM_READ", ip, a))
FlushHandler(t, a)  == ThreadedTrace(t, "FLUSH", 0, a)

--------------------------------------------------------------------------
(* pifr_oftp. *)

Mapped(type, l) == [type |-> type, thread |-> l.thread, target |-> l.target, pifrs |-> <<>>]

BuildRegion(l) ==
  [pifr_id |-> l.ip, mem_addr |-> l.target, tid |-> l.thread, is_write |-> l.type = "PM_WRITE", dirty |-> FALSE]

\* Mutant: one most recent acquire for all threads.
MapLine_AnyThread(m, l) ==
  LET placed == DOMAIN m.acquires # {}
      res    == IF l.type \in {"PM_WRITE", "PM_READ"} THEN (IF placed THEN m.res ELSE Append(m.res, Mapped("ACQUIRE", l)))
                ELSE Append(m.res, Mapped(l.type, l))
      at     == IF l.type # "ACQUIRE" /\ placed THEN m.acquires[0] ELSE Len(res)
  IN  CASE l.type \in {"FLUSH", "RELEASE"} -> [m EXCEPT !.res = res]
        [] l.type = "ACQUIRE"              -> [res |-> res, acquires |-> Put(m.acquires, 0, at)]
        [] OTHER -> [res |-> [res EXCEPT ![at].pifrs = Append(@, BuildRegion(l))], acquires |-> Put(m.acquires, 0, at)]

\* An access of a thread that has acquired nothing yet stands for an acquire.
MapLine(m, l) ==
  LET known   == l.thread \in DOMAIN m.acquires
      added   == [m EXCEPT !.res = Append(@, Mapped(l.type, l))]
      acquire == [res |-> Append(m.res, Mapped("ACQUIRE", l)), acquires |-> Put(m.acquires, l.thread, Len(m.res) + 1)]
      place   == IF known THEN m ELSE acquire
  IN  CASE l.type = "ACQUIRE"              -> acquire
        [] l.type \in {"FLUSH", "RELEASE"} -> added
        [] OTHER -> [place EXCEPT !.res[place.acquires[l.thread]].pifrs = Append(@, BuildRegion(l))]

mapping(lines) == FoldLeft(MapLine, [res |-> <<>>, acquires |-> <<>>], lines).res

Analyze ==
  /\ stage = "tracing"
  /\ mapped' = mapping(trace)
  /\ stage' = IF mapped' = <<>> THEN "done" ELSE "consuming"
  /\ UNCHANGED <<trace, line, access, regions, to_close, bugs>>

\* Iterators are named by the place of the access in the mapped trace.
open_region(p) ==
  /\ regions' = Put(regions, <<line, access>>, p)
  /\ to_close' = Put(to_close, p.tid, (IF p.tid \in DOMAIN to_close THEN to_close[p.tid] ELSE <<>>) \o <<<<line, access>>>>)

ConsumeAccess ==
  LET p == mapped[line].pifrs[access]
  IN  /\ stage = "consuming" /\ mapped[line].type = "ACQUIRE" /\ access <= Len(mapped[line].pifrs)
      /\ bugs' = bugs \cup {Line(p, other) : other \in Backend!find_overlaps(p)}
      /\ open_region(p)
      /\ access' = access + 1
      /\ UNCHANGED <<stage, trace, mapped, line>>

end_regions(t) ==
  /\ regions' = [i \in DOMAIN regions \ Backend!Closable(t) |-> regions[i]]
  /\ to_close' = Put(to_close, t, <<>>)

\* The end of a turn of the loop: i % slice.
Progress ==
  /\ stage' = IF Len(mapped) \div Slices = 0 THEN "died" ELSE IF line = Len(mapped) THEN "done" ELSE "consuming"
  /\ line' = line + 1 /\ access' = 1
  /\ UNCHANGED <<trace, mapped, bugs>>

consume ==
  LET l == mapped[line]
  IN  /\ stage = "consuming"
      /\ \/ l.type = "ACQUIRE" /\ access > Len(l.pifrs) /\ UNCHANGED <<regions, to_close>>
         \/ l.type = "RELEASE" /\ end_regions(l.thread)
         \/ l.type = "FLUSH" /\ Backend!flush(l.thread, l.target)
      /\ Progress

OfflineNext ==
  \/ \E t \in Threads : SyncHandler(t) \/ \E a \in Addrs : AccessHandler(t, a) \/ FlushHandler(t, a)
  \/ Analyze \/ ConsumeAccess \/ consume

WatchedSpec ==
  OfflineInit /\ [][(stage = "online" /\ RNext /\ UNCHANGED ofvars) \/ (OfflineNext /\ UNCHANGED rvars)]_<<rvars, ofvars>>
--------------------------------------------------------------------------
Accesses == {i \in DOMAIN trace : trace[i].type \in {"PM_WRITE", "PM_READ"}}
OfThread(i) == {j \in DOMAIN trace : trace[j].thread = trace[i].thread}

\* The window of an access: from the last acquire of its thread before it, or its
\* first access, to the release that comes next.
Opened(i) ==
  LET acquires == {j \in OfThread(i) : j < i /\ trace[j].type = "ACQUIRE"}
  IN  IF acquires # {} THEN CHOOSE j \in acquires : \A k \in acquires : k <= j
      ELSE CHOOSE j \in OfThread(i) \cap Accesses : \A k \in OfThread(i) \cap Accesses : j <= k

Closed(i) ==
  LET releases == {j \in OfThread(i) : j > Opened(i) /\ trace[j].type = "RELEASE"}
  IN  IF releases = {} THEN Len(trace) + 1 ELSE CHOOSE j \in releases : \A k \in releases : j <= k

Meet(i, j) == Opened(i) < Closed(j) /\ Opened(j) < Closed(i)

RacesWith(i, j) ==
  /\ trace[i].thread # trace[j].thread /\ trace[i].target = trace[j].target
  /\ trace[i].type # trace[j].type /\ Meet(i, j)

Earlier(i, j) == Opened(i) < Opened(j) \/ (Opened(i) = Opened(j) /\ i < j)

SameIdMet(j) ==
  \E i \in Accesses : trace[i].ip = trace[j].ip /\ trace[i].target = trace[j].target /\ Earlier(i, j) /\ Opened(j) < Closed(i)

(* The offline analysis reports exactly the read and the write of one      *)
(* address, by two threads, whose windows overlap in the trace, however    *)
(* the moves of the accesses reorder it (pifr_oftp.cpp:54), but for an     *)
(* access that meets a region of its own instruction open.                 *)
OfflineExact ==
  stage = "done" =>
    /\ \A pair \in bugs : \E i, j \in Accesses : RacesWith(i, j) /\ pair = {trace[i].ip, trace[j].ip}
    /\ \A i, j \in Accesses :
         RacesWith(i, j) /\ Earlier(i, j) /\ ~SameIdMet(j) => {trace[i].ip, trace[j].ip} \in bugs
=============================================================================
