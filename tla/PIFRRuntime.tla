----------------------------- MODULE PIFRRuntime -----------------------------
(***************************************************************************)
(* The race detection runtime a patched program calls from its threads     *)
(* (src/src/runtime/runtime.cpp, tbb_backend.cpp), tracing off.            *)
(*                                                                         *)
(* A call runs as several steps, cut where the code leaves a lock or       *)
(* touches what other threads touch.  pifrs_mutex is taken for writing in  *)
(* end_regions only, whose body is one step, so the lock itself is not a   *)
(* variable; what runs under it for reading is one step too.               *)
(*                                                                         *)
(* Addresses are those is_pmem_addr accepts.  The hash of a bug line       *)
(* stands for the line: the pair of pifr ids.                              *)
(***************************************************************************)
EXTENDS Integers, Sequences, FiniteSets, SequencesExt

CONSTANTS
  Threads,
  Addrs,
  Reads, Writes,     \* the pifr ids of reads and of writes
  Locations,         \* call sites of pifrrt_end_pifrs and pifrrt_flush
  minimal_regions,   \* PIFR_MINIMAL
  sampling_rate,     \* PIFR_SAMPLING, 0 for off
  delay,             \* whether PIFR_DELAY > 0
  decay,             \* PIFR_DECAY
  MaxOpens,          \* bound on the regions opened
  MaxDecays,         \* bound on the decays of a location
  SizeMax            \* 2^w for a size_t of w bits

ASSUME IdsAssumption  == Reads \cap Writes = {}
ASSUME ModeAssumption == minimal_regions \in BOOLEAN /\ delay \in BOOLEAN
ASSUME NumAssumption  == sampling_rate \in Nat /\ decay \in Nat /\ MaxOpens \in Nat
                         /\ MaxDecays \in Nat /\ SizeMax \in Nat \ {0}

VARIABLES
  threads,             \* the threads seen so far: was one of its regions in a new bug
  pifrs,               \* the open regions, by iterator
  pifrs_to_close,      \* per thread, the iterators end_regions will erase
  rw_bug_hashes,       \* the bugs reported: pairs of pifr ids
  sample,              \* thread_local counter of sampling
  sleeping,            \* threads asleep
  schedule_locations,  \* the delay probability of each location, in percent
  itrs,                \* regions inserted so far: the next iterator
  pc,                  \* where each thread is
  call                 \* the arguments and locals of its call

vars == <<threads, pifrs, pifrs_to_close, rw_bug_hashes, sample, sleeping,
          schedule_locations, itrs, pc, call>>
store    == <<pifrs, pifrs_to_close, itrs>>
schedule == <<sleeping, schedule_locations>>

NoCall == [pifr_id |-> 0, mem_addr |-> 0, overlaps |-> {}, location |-> 0, value |-> 0]

sampling == sampling_rate > 0

Init ==
  /\ threads = << >>
  /\ pifrs = << >>
  /\ pifrs_to_close = << >>
  /\ rw_bug_hashes = {}
  /\ sample = [t \in Threads |-> 0]
  /\ sleeping = 0
  /\ schedule_locations = << >>
  /\ itrs = 0
  /\ pc = [t \in Threads |-> "idle"]
  /\ call = [t \in Threads |-> NoCall]

Put(f, key, value) ==
  [k \in DOMAIN f \cup {key} |-> IF k = key THEN value ELSE f[k]]

Goto(t, label) == pc' = [pc EXCEPT ![t] = label]

Return(t) == Goto(t, "idle") /\ call' = [call EXCEPT ![t] = NoCall]

is_new_thread(t) == t \notin DOMAIN threads
-----------------------------------------------------------------------------
(* pifrrt_start_pifr.                                                      *)

Start(t, pifr_id, mem_addr) ==
  /\ pc[t] = "idle"
  /\ itrs < MaxOpens
  /\ threads' = IF is_new_thread(t) THEN Put(threads, t, FALSE) ELSE threads
  /\ call' = [call EXCEPT ![t].pifr_id = pifr_id, ![t].mem_addr = mem_addr]
  /\ Goto(t, "find")
  /\ UNCHANGED <<store, rw_bug_hashes, sample, schedule>>

\* The region of the access: the caller passes is_dirty for is_write, and
\* dirty is always false.
build_pifr(t) ==
  [pifr_id |-> call[t].pifr_id, mem_addr |-> call[t].mem_addr, tid |-> t,
   is_write |-> IF minimal_regions THEN FALSE ELSE call[t].pifr_id \in Writes,
   dirty |-> FALSE]

AtAddress(mem_addr) == {pifrs[i] : i \in {j \in DOMAIN pifrs : pifrs[j].mem_addr = mem_addr}}

SameIdOpen(p) == \E other \in AtAddress(p.mem_addr) : other.pifr_id = p.pifr_id

find_overlaps_WriteAfterRead(p) ==
  IF SameIdOpen(p) THEN {}
  ELSE {other \in AtAddress(p.mem_addr) :
          other.tid # p.tid /\ p.is_write /\ ~other.is_write}

find_overlaps_OwnThread(p) ==
  IF SameIdOpen(p) THEN {}
  ELSE {other \in AtAddress(p.mem_addr) : p.is_write = ~other.is_write}

find_overlaps(p) ==
  IF SameIdOpen(p) THEN {}
  ELSE {other \in AtAddress(p.mem_addr) :
          other.tid # p.tid /\ p.is_write = ~other.is_write}

\* With one thread seen so far the call returns at once.
FindOverlaps(t) ==
  /\ pc[t] = "find"
  /\ IF Cardinality(DOMAIN threads) = 1
     THEN Return(t)
     ELSE /\ call' = [call EXCEPT ![t].overlaps = find_overlaps(build_pifr(t))]
          /\ Goto(t, "report")
  /\ UNCHANGED <<threads, store, rw_bug_hashes, sample, schedule>>

Line(p, other) == {p.pifr_id, other.pifr_id}

\* report_bug for each overlap: of those that make the same line the first one
\* reports it, and only the thread of that one is told.
Report(t) ==
  LET line(other) == Line(build_pifr(t), other)
      new   == {other \in call[t].overlaps : line(other) \notin rw_bug_hashes}
      firsts == {f \in SUBSET new : \A other \in new :
                   Cardinality({x \in f : line(x) = line(other)}) = 1}
  IN  /\ pc[t] = "report"
      /\ rw_bug_hashes' = rw_bug_hashes \cup {line(other) : other \in new}
      /\ \E f \in firsts :
           threads' = [u \in DOMAIN threads |-> threads[u] \/ \E x \in f : x.tid = u]
      /\ call' = [call EXCEPT ![t].overlaps = {}]
      /\ Goto(t, "open")
      /\ UNCHANGED <<store, sample, schedule>>

Opens(t) ==
  /\ minimal_regions => call[t].pifr_id \in Writes
  /\ sampling => (sample[t] + 1) % sampling_rate = 0

\* open_region up to the unlock.
OpenRegion(t) ==
  /\ pc[t] = "open"
  /\ Opens(t)
  /\ sample' = [sample EXCEPT ![t] = 0]
  /\ pifrs' = Put(pifrs, itrs, build_pifr(t))
  /\ pifrs_to_close' = IF t \in DOMAIN pifrs_to_close THEN pifrs_to_close
                       ELSE Put(pifrs_to_close, t, <<>>)
  /\ itrs' = itrs + 1
  /\ call' = [call EXCEPT ![t].value = itrs]
  /\ Goto(t, "push")
  /\ UNCHANGED <<threads, rw_bug_hashes, schedule>>

SkipRegion(t) ==
  /\ pc[t] = "open"
  /\ ~Opens(t)
  /\ sample' = IF sampling /\ (minimal_regions => call[t].pifr_id \in Writes)
               THEN [sample EXCEPT ![t] = @ + 1] ELSE sample
  /\ Return(t)
  /\ UNCHANGED <<threads, store, rw_bug_hashes, schedule>>

\* The insertion into pifrs always succeeds (a multimap).
PushBack(t) ==
  /\ pc[t] = "push"
  /\ pifrs_to_close' = IF pifrs[call[t].value].dirty THEN pifrs_to_close
                       ELSE [pifrs_to_close EXCEPT ![t] = Append(@, call[t].value)]
  /\ Return(t)
  /\ UNCHANGED <<threads, pifrs, itrs, rw_bug_hashes, sample, schedule>>
-----------------------------------------------------------------------------
(* pifrrt_end_pifrs and pifrrt_flush.                                      *)

Close(t, location) ==
  /\ call' = [call EXCEPT ![t].location = location]
  /\ Goto(t, "closing")

End(t, location) ==
  /\ pc[t] = "idle"
  /\ ~is_new_thread(t)
  /\ ~minimal_regions
  /\ Close(t, location)
  /\ UNCHANGED <<threads, store, rw_bug_hashes, sample, schedule>>

\* TBBBackend::flush: the thread's dirty regions of the 64 bytes from mem_addr
\* (here the address itself) become closable.
flush(t, mem_addr) ==
  LET dirty == {i \in DOMAIN pifrs : t \in DOMAIN pifrs_to_close /\ pifrs[i].tid = t
                                     /\ pifrs[i].mem_addr = mem_addr /\ pifrs[i].dirty}
  IN  /\ pifrs' = [i \in DOMAIN pifrs |->
                     IF i \in dirty THEN [pifrs[i] EXCEPT !.dirty = FALSE] ELSE pifrs[i]]
      /\ pifrs_to_close' = IF t \notin DOMAIN pifrs_to_close THEN pifrs_to_close
                           ELSE [pifrs_to_close EXCEPT ![t] = @ \o SetToSeq(dirty)]

Flush(t, location, mem_addr) ==
  /\ pc[t] = "idle"
  /\ ~is_new_thread(t)
  /\ IF minimal_regions
     THEN Close(t, location) /\ UNCHANGED <<pifrs, pifrs_to_close>>
     ELSE flush(t, mem_addr) /\ UNCHANGED <<pc, call>>
  /\ UNCHANGED <<threads, itrs, rw_bug_hashes, sample, schedule>>

\* get_location_delay_prob (its insertion of 100 is not split from its test).
Probability(location) ==
  IF location \in DOMAIN schedule_locations THEN schedule_locations[location] ELSE 100

\* The remainder of a short keeps its sign.
RandomPercent == -99 .. 99

DelayAllowed == delay /\ ~((sleeping * 2) % SizeMax >= Cardinality(DOMAIN threads))

Consulted(t) ==
  schedule_locations' = IF delay
                        THEN Put(schedule_locations, call[t].location,
                                 Probability(call[t].location))
                        ELSE schedule_locations

Delay(t) ==
  /\ pc[t] = "closing"
  /\ DelayAllowed
  /\ decay = 0 \/ Probability(call[t].location) > 100 - MaxDecays * decay
  /\ \E r \in RandomPercent : r <= Probability(call[t].location)
  /\ Consulted(t)
  /\ call' = [call EXCEPT ![t].value = sleeping]
  /\ Goto(t, "falling asleep")
  /\ UNCHANGED <<threads, store, rw_bug_hashes, sample, sleeping>>

\* sleeping is a plain size_t: ++ and -- are a load and a store.
FallAsleep(t) ==
  /\ pc[t] = "falling asleep"
  /\ sleeping' = (call[t].value + 1) % SizeMax
  /\ Goto(t, "asleep")
  /\ UNCHANGED <<threads, store, rw_bug_hashes, sample, schedule_locations, call>>

Wake(t) ==
  /\ pc[t] = "asleep"
  /\ call' = [call EXCEPT ![t].value = sleeping]
  /\ Goto(t, "waking")
  /\ UNCHANGED <<threads, store, rw_bug_hashes, sample, schedule>>

Awake(t) ==
  /\ pc[t] = "waking"
  /\ sleeping' = (call[t].value - 1) % SizeMax
  /\ schedule_locations' =
       IF threads[t] THEN schedule_locations
       ELSE [schedule_locations EXCEPT ![call[t].location] = @ - decay]
  /\ threads' = Put(threads, t, FALSE)
  /\ Goto(t, "end")
  /\ UNCHANGED <<store, rw_bug_hashes, sample, call>>

NoDelay(t) ==
  /\ pc[t] = "closing"
  /\ DelayAllowed => \E r \in RandomPercent : r > Probability(call[t].location)
  /\ Consulted(t)
  /\ threads' = Put(threads, t, FALSE)
  /\ Goto(t, "end")
  /\ UNCHANGED <<store, rw_bug_hashes, sample, sleeping, call>>

Closable(t) == IF t \in DOMAIN pifrs_to_close THEN ToSet(pifrs_to_close[t]) ELSE {}

EndRegions_NoClear(t) ==
  /\ pc[t] = "end"
  /\ pifrs' = [i \in DOMAIN pifrs \ Closable(t) |-> pifrs[i]]
  /\ pifrs_to_close' = IF t \in DOMAIN pifrs_to_close THEN pifrs_to_close
                       ELSE Put(pifrs_to_close, t, <<>>)
  /\ Return(t)
  /\ UNCHANGED <<threads, itrs, rw_bug_hashes, sample, schedule>>

EndRegions_NoErase(t) ==
  /\ pc[t] = "end"
  /\ pifrs_to_close' = Put(pifrs_to_close, t, <<>>)
  /\ Return(t)
  /\ UNCHANGED <<threads, pifrs, itrs, rw_bug_hashes, sample, schedule>>

\* end_regions.
EndRegions(t) ==
  /\ pc[t] = "end"
  /\ pifrs' = [i \in DOMAIN pifrs \ Closable(t) |-> pifrs[i]]
  /\ pifrs_to_close' = Put(pifrs_to_close, t, <<>>)
  /\ Return(t)
  /\ UNCHANGED <<threads, itrs, rw_bug_hashes, sample, schedule>>
-----------------------------------------------------------------------------
Step(t) ==
  \/ FindOverlaps(t) \/ Report(t) \/ OpenRegion(t) \/ SkipRegion(t) \/ PushBack(t)
  \/ Delay(t) \/ NoDelay(t) \/ FallAsleep(t) \/ Wake(t) \/ Awake(t)
  \/ EndRegions(t)

Next ==
  \E t \in Threads :
    \/ \E i \in Reads \cup Writes, a \in Addrs : Start(t, i, a)
    \/ \E l \in Locations : End(t, l)
    \/ \E l \in Locations, a \in Addrs : Flush(t, l, a)
    \/ Step(t)

Spec == Init /\ [][Next]_vars
=============================================================================
