--------------------------- MODULE RaceDetection_proofs ---------------------------
(***************************************************************************)
(* The race detection runtime for every number of threads, addresses,      *)
(* instructions and sleeps: end_regions erases exactly the regions its     *)
(* thread opened, reports are true, and accesses in order are reported.    *)
(* Then the offline analysis, for traces of any length: it reports exactly *)
(* the races of the trace.                                                 *)
(***************************************************************************)
EXTENDS OfflineRaces, FiniteSetTheorems, SequenceTheorems, WellFoundedInduction, TLAPS

Pushing(t) == IF pc[t] = "push" THEN {call[t].value} ELSE {}

Access(p) == <<p.pifr_id, p.mem_addr>>

Fields == {"pifr_id", "mem_addr", "overlaps", "location", "value"}

(* Calls are records, opened has an entry per thread.                      *)
Calls ==
  /\ pc = [t \in Threads |-> pc[t]]
  /\ call = [t \in Threads |-> call[t]]
  /\ \A t \in Threads : DOMAIN call[t] = Fields
  /\ opened = [t \in Threads |-> opened[t]]

(* Iterators are handed out once, and no region is dirty.                  *)
Regions ==
  /\ itrs \in Nat
  /\ pifrs = [i \in DOMAIN pifrs |-> pifrs[i]]
  /\ \A i \in DOMAIN pifrs : i \in Nat /\ i < itrs /\ ~pifrs[i].dirty
  /\ pifrs_to_close = [t \in DOMAIN pifrs_to_close |-> pifrs_to_close[t]]
  /\ \A t \in DOMAIN pifrs_to_close : pifrs_to_close[t] \in Seq(Nat)

(* What one thread keeps to erase, and what it opened.                     *)
ThreadExact(t) ==
  /\ Closable(t) = OwnRegions(t) \ Pushing(t)
  /\ Pushing(t) \subseteq OwnRegions(t)
  /\ t \in DOMAIN pifrs_to_close => IsInjective(pifrs_to_close[t])
  /\ pc[t] = "push" =>
       /\ t \in DOMAIN pifrs_to_close
       /\ Access(pifrs[call[t].value]) = <<call[t].pifr_id, call[t].mem_addr>>
  /\ {Access(pifrs[i]) : i \in OwnRegions(t) \ Pushing(t)} = opened[t]

IInv == Calls /\ Regions /\ \A t \in Threads : ThreadExact(t)

(* Whatever leaves the store alone and no thread in, or brings none into,  *)
(* the middle of open_region keeps the invariant.                          *)
Quiet ==
  /\ UNCHANGED <<store, opened>>
  /\ \A u \in Threads : pc'[u] = "push" <=> pc[u] = "push"
  /\ \A u \in Threads : pc[u] = "push" => call'[u] = call[u]

LEMMA QuietStep ==
  ASSUME IInv, Quiet, Calls' PROVE IInv'
<1>1. Regions'
  BY DEF IInv, Regions, Quiet, store
<1>2. ASSUME NEW t \in Threads PROVE ThreadExact(t)'
  <2>1. UNCHANGED <<pifrs, pifrs_to_close, opened>>
    BY DEF Quiet, store
  <2>2. Pushing(t)' = Pushing(t) /\ (pc'[t] = "push" <=> pc[t] = "push")
    BY DEF Quiet, Pushing
  <2>3. pc[t] = "push" => call'[t] = call[t]
    BY DEF Quiet
  <2>4. Closable(t)' = Closable(t) /\ OwnRegions(t)' = OwnRegions(t)
    BY <2>1 DEF Closable, OwnRegions
  <2>5. ThreadExact(t)
    BY DEF IInv
  <2> QED BY <2>1, <2>2, <2>3, <2>4, <2>5 DEF ThreadExact
<1> QED BY <1>1, <1>2 DEF IInv

(* The steps of a call that only move its thread along.                    *)
LEMMA StartQuiet ==
  ASSUME IInv, NEW t \in Threads, NEW i, NEW a, RStart(t, i, a)
  PROVE  IInv'
<1>1. Quiet /\ Calls'
  BY DEF IInv, Calls, Quiet, RStart, Start, Goto, Fields
<1> QED BY <1>1, QuietStep

LEMMA FindQuiet ==
  ASSUME IInv, NEW t \in Threads, RFind(t)
  PROVE  IInv'
<1>1. CASE Cardinality(DOMAIN threads) = 1
  <2>1. Quiet /\ Calls'
    BY <1>1 DEF IInv, Calls, Quiet, RFind, FindOverlaps, Return, NoCall, Goto, Fields
  <2> QED BY <2>1, QuietStep
<1>2. CASE Cardinality(DOMAIN threads) # 1
  <2> DEFINE found == find_overlaps(build_pifr(t))
  <2>1. /\ pc[t] = "find" /\ UNCHANGED <<store, opened>>
        /\ call' = [call EXCEPT ![t].overlaps = found]
        /\ pc' = [pc EXCEPT ![t] = "report"]
    BY <1>2 DEF RFind, FindOverlaps, Goto
  <2> HIDE DEF found
  <2>2. Quiet /\ Calls'
    BY <2>1 DEF IInv, Calls, Quiet, Fields
  <2> QED BY <2>2, QuietStep
<1> QED BY <1>1, <1>2

LEMMA NoDirtyRegion ==
  ASSUME IInv, NEW t \in Threads, NEW a, flush(t, a)
  PROVE  UNCHANGED <<pifrs, pifrs_to_close>>
<1> DEFINE dirty == {i \in DOMAIN pifrs : t \in DOMAIN pifrs_to_close /\ pifrs[i].tid = t
                                          /\ pifrs[i].mem_addr = a /\ pifrs[i].dirty}
<1>1. dirty = {}
  BY DEF IInv, Regions
<1>2. /\ pifrs' = [i \in DOMAIN pifrs |->
                     IF i \in dirty THEN [pifrs[i] EXCEPT !.dirty = FALSE] ELSE pifrs[i]]
      /\ pifrs_to_close' = IF t \notin DOMAIN pifrs_to_close THEN pifrs_to_close
                           ELSE [pifrs_to_close EXCEPT ![t] = @ \o SetToSeq(dirty)]
  BY DEF flush
<1> HIDE DEF dirty
<1>3. pifrs' = pifrs
  BY <1>1, <1>2 DEF IInv, Regions
<1>4. SetToSeq({}) = <<>>
  <2>1. Cardinality({}) = 0
    BY FS_EmptySet
  <2>2. SetToSeq({}) = CHOOSE f \in [1 .. 0 -> {}] : IsInjective(f)
    BY <2>1 DEF SetToSeq
  <2>3. <<>> \in [1 .. 0 -> {}] /\ IsInjective(<<>>)
    BY DEF IsInjective
  <2>4. SetToSeq({}) \in [1 .. 0 -> {}]
    BY <2>2, <2>3
  <2> QED BY <2>4
<1>5. CASE t \in DOMAIN pifrs_to_close
  <2>1. pifrs_to_close[t] \in Seq(Nat)
    BY <1>5 DEF IInv, Regions
  <2>2. pifrs_to_close[t] \o <<>> = pifrs_to_close[t]
    BY <2>1
  <2> QED BY <1>1, <1>2, <1>3, <1>4, <1>5, <2>2 DEF IInv, Regions
<1> QED BY <1>2, <1>3, <1>5

LEMMA OtherQuiet ==
  ASSUME IInv, NEW t \in Threads, ROther(t), ~OpenRegion(t)
  PROVE  IInv'
<1> USE DEF IInv, Calls, Quiet, ROther, ghosts, Goto
<1>1. CASE Report(t)
  <2>1. Quiet /\ Calls'
    BY <1>1 DEF Report, Fields
  <2> QED BY <2>1, QuietStep
<1>2. CASE SkipRegion(t)
  <2>1. Quiet /\ Calls'
    BY <1>2 DEF SkipRegion, Return, NoCall, Fields
  <2> QED BY <2>1, QuietStep
<1>3. CASE Delay(t)
  <2>1. Quiet /\ Calls'
    BY <1>3 DEF Delay, Fields
  <2> QED BY <2>1, QuietStep
<1>4. CASE NoDelay(t)
  <2>1. Quiet /\ Calls'
    BY <1>4 DEF NoDelay, Fields
  <2> QED BY <2>1, QuietStep
<1>5. CASE FallAsleep(t)
  <2>1. Quiet /\ Calls'
    BY <1>5 DEF FallAsleep, Fields
  <2> QED BY <2>1, QuietStep
<1>6. CASE Wake(t)
  <2>1. Quiet /\ Calls'
    BY <1>6 DEF Wake, Fields
  <2> QED BY <2>1, QuietStep
<1>7. CASE Awake(t)
  <2>1. Quiet /\ Calls'
    BY <1>7 DEF Awake, Fields
  <2> QED BY <2>1, QuietStep
<1>8. ASSUME NEW l \in Locations, End(t, l) PROVE IInv'
  <2>1. Quiet /\ Calls'
    BY <1>8 DEF End, Close, Fields
  <2> QED BY <2>1, QuietStep
<1>9. ASSUME NEW l \in Locations, NEW a \in Addrs, Flush(t, l, a) PROVE IInv'
  <2>1. UNCHANGED <<pifrs, pifrs_to_close>>
    BY <1>9, NoDirtyRegion DEF Flush
  <2>2. Quiet /\ Calls'
    BY <1>9, <2>1 DEF Flush, Close, Fields, store
  <2> QED BY <2>2, QuietStep
<1> QED BY <1>1, <1>2, <1>3, <1>4, <1>5, <1>6, <1>7, <1>8, <1>9

(* open_region: the region is there, its iterator not yet kept.            *)
LEMMA OpenStep ==
  ASSUME IInv, NEW t \in Threads, OpenRegion(t), UNCHANGED opened
  PROVE  IInv'
<1> DEFINE p == build_pifr(t)
<1>1. /\ pc[t] = "open"
      /\ pifrs' = Put(pifrs, itrs, p)
      /\ pifrs_to_close' = IF t \in DOMAIN pifrs_to_close THEN pifrs_to_close
                           ELSE Put(pifrs_to_close, t, <<>>)
      /\ itrs' = itrs + 1
      /\ call' = [call EXCEPT ![t].value = itrs]
      /\ pc' = [pc EXCEPT ![t] = "push"]
  BY DEF OpenRegion, Goto
<1>2. p.tid = t /\ ~p.dirty /\ Access(p) = <<call[t].pifr_id, call[t].mem_addr>>
  BY DEF build_pifr, Access
<1> HIDE DEF p
<1>3. itrs \in Nat /\ itrs \notin DOMAIN pifrs
  BY DEF IInv, Regions
<1>4. /\ DOMAIN pifrs' = DOMAIN pifrs \cup {itrs}
      /\ pifrs'[itrs] = p
      /\ \A i \in DOMAIN pifrs : pifrs'[i] = pifrs[i]
      /\ pifrs' = [i \in DOMAIN pifrs' |-> pifrs'[i]]
  BY <1>1, <1>3 DEF Put
<1>5. /\ DOMAIN pifrs_to_close' = DOMAIN pifrs_to_close \cup {t}
      /\ \A u \in DOMAIN pifrs_to_close : pifrs_to_close'[u] = pifrs_to_close[u]
      /\ t \notin DOMAIN pifrs_to_close => pifrs_to_close'[t] = <<>>
      /\ pifrs_to_close' = [u \in DOMAIN pifrs_to_close' |-> pifrs_to_close'[u]]
  <2>1. CASE t \in DOMAIN pifrs_to_close
    BY <1>1, <2>1 DEF IInv, Regions
  <2>2. CASE t \notin DOMAIN pifrs_to_close
    BY <1>1, <2>2 DEF Put
  <2> QED BY <2>1, <2>2
<1>6. Regions'
  <2>1. \A u \in DOMAIN pifrs_to_close' : pifrs_to_close'[u] \in Seq(Nat)
    <3>1. <<>> \in Seq(Nat)
      OBVIOUS
    <3>2. \A u \in DOMAIN pifrs_to_close : pifrs_to_close[u] \in Seq(Nat)
      BY DEF IInv, Regions
    <3> QED BY <1>5, <3>1, <3>2
  <2>2. \A i \in DOMAIN pifrs' : i \in Nat /\ i < itrs' /\ ~pifrs'[i].dirty
    BY <1>1, <1>2, <1>3, <1>4 DEF IInv, Regions
  <2> QED BY <1>1, <1>3, <1>4, <1>5, <2>1, <2>2 DEF Regions
<1>7. Calls'
  BY <1>1 DEF IInv, Calls, Fields
<1>8. /\ \A u \in Threads \ {t} : pc'[u] = pc[u] /\ call'[u] = call[u]
      /\ pc'[t] = "push" /\ call'[t].value = itrs
      /\ call'[t].pifr_id = call[t].pifr_id /\ call'[t].mem_addr = call[t].mem_addr
  BY <1>1 DEF IInv, Calls, Fields
<1>9. ASSUME NEW u \in Threads PROVE Closable(u)' = Closable(u)
  <2>1. CASE u \in DOMAIN pifrs_to_close
    BY <1>5, <2>1 DEF Closable
  <2>2. CASE u \notin DOMAIN pifrs_to_close
    BY <1>5, <2>2 DEF Closable, ToSet
  <2> QED BY <2>1, <2>2
<1>10. ASSUME NEW u \in Threads, u # t PROVE ThreadExact(u)'
  <2>1. OwnRegions(u)' = OwnRegions(u) /\ Pushing(u)' = Pushing(u)
    BY <1>2, <1>4, <1>8, <1>10 DEF OwnRegions, Pushing
  <2>2. \A i \in OwnRegions(u) : pifrs'[i] = pifrs[i]
    BY <1>4 DEF OwnRegions
  <2>3. ThreadExact(u)
    BY DEF IInv
  <2>4. u \in DOMAIN pifrs_to_close' => u \in DOMAIN pifrs_to_close
                                      /\ pifrs_to_close'[u] = pifrs_to_close[u]
    BY <1>5, <1>10
  <2>5. pc'[u] = "push" => call'[u].value \in OwnRegions(u) /\ call'[u] = call[u] /\ pc[u] = "push"
    BY <1>8, <1>10, <2>3 DEF ThreadExact, Pushing
  <2>6. {Access(pifrs'[i]) : i \in OwnRegions(u) \ Pushing(u)} = opened'[u]
    BY <2>2, <2>3 DEF ThreadExact
  <2>7. pc'[u] = "push" =>
          /\ u \in DOMAIN pifrs_to_close'
          /\ Access(pifrs'[call'[u].value]) = <<call'[u].pifr_id, call'[u].mem_addr>>
    BY <1>5, <2>2, <2>3, <2>5 DEF ThreadExact
  <2> QED BY <1>9, <2>1, <2>3, <2>4, <2>6, <2>7 DEF ThreadExact
<1>11. ThreadExact(t)'
  <2>1. ThreadExact(t) /\ Pushing(t) = {}
    BY <1>1 DEF IInv, Pushing
  <2>2. OwnRegions(t)' = OwnRegions(t) \cup {itrs} /\ Pushing(t)' = {itrs}
        /\ itrs \notin OwnRegions(t)
    BY <1>2, <1>3, <1>4, <1>8 DEF OwnRegions, Pushing
  <2>3. \A i \in OwnRegions(t) : pifrs'[i] = pifrs[i]
    BY <1>4 DEF OwnRegions
  <2>4. t \in DOMAIN pifrs_to_close' /\ IsInjective(pifrs_to_close'[t])
    BY <1>5, <2>1 DEF ThreadExact, IsInjective
  <2>5. OwnRegions(t)' \ Pushing(t)' = OwnRegions(t) \ Pushing(t)
    BY <2>1, <2>2
  <2>6. {Access(pifrs'[i]) : i \in OwnRegions(t) \ Pushing(t)} = opened'[t]
    BY <2>1, <2>3 DEF ThreadExact
  <2>7. Access(pifrs'[call'[t].value]) = <<call'[t].pifr_id, call'[t].mem_addr>>
    BY <1>2, <1>4, <1>8
  <2> QED BY <1>9, <2>1, <2>2, <2>4, <2>5, <2>6, <2>7 DEF ThreadExact
<1> QED BY <1>6, <1>7, <1>10, <1>11 DEF IInv

(* open_region: the iterator is kept, and the region is the thread's.      *)
LEMMA PushStep ==
  ASSUME IInv, NEW t \in Threads, RPushBack(t)
  PROVE  IInv'
<1> DEFINE itr == call[t].value
           made == <<call[t].pifr_id, call[t].mem_addr>>
<1>1. ThreadExact(t) /\ Pushing(t) = {itr} /\ pc[t] = "push"
  BY DEF IInv, RPushBack, PushBack, Pushing
<1>2. /\ itr \in DOMAIN pifrs /\ itr \in Nat /\ ~pifrs[itr].dirty
      /\ itr \in OwnRegions(t) /\ itr \notin Closable(t)
      /\ t \in DOMAIN pifrs_to_close /\ Access(pifrs[itr]) = made
  BY <1>1 DEF ThreadExact, OwnRegions, IInv, Regions
<1>3. /\ pifrs_to_close' = [pifrs_to_close EXCEPT ![t] = Append(@, itr)]
      /\ pifrs' = pifrs /\ itrs' = itrs
      /\ pc' = [pc EXCEPT ![t] = "idle"] /\ call' = [call EXCEPT ![t] = NoCall]
      /\ opened' = [opened EXCEPT ![t] = @ \cup {made}]
  BY <1>2 DEF RPushBack, PushBack, Return, Goto
<1> HIDE DEF itr, made
<1>4. Calls'
  BY <1>3 DEF IInv, Calls, NoCall, Fields
<1> DEFINE list == pifrs_to_close[t]
<1>5. list \in Seq(Nat) /\ Append(list, itr) \in Seq(Nat)
      /\ pifrs_to_close'[t] = Append(list, itr)
      /\ DOMAIN pifrs_to_close' = DOMAIN pifrs_to_close
      /\ \A u \in DOMAIN pifrs_to_close \ {t} : pifrs_to_close'[u] = pifrs_to_close[u]
  BY <1>2, <1>3 DEF IInv, Regions
<1>6. Regions'
  <2>1. \A u \in DOMAIN pifrs_to_close' : pifrs_to_close'[u] \in Seq(Nat)
    BY <1>5 DEF IInv, Regions
  <2> HIDE DEF list
  <2>2. pifrs_to_close' = [u \in DOMAIN pifrs_to_close' |-> pifrs_to_close'[u]]
    BY <1>3
  <2> QED BY <1>3, <2>1, <2>2 DEF IInv, Regions
<1>7. ASSUME NEW u \in Threads, u # t PROVE ThreadExact(u)'
  <2>1. pc'[u] = pc[u] /\ call'[u] = call[u] /\ opened'[u] = opened[u]
    BY <1>3, <1>7 DEF IInv, Calls
  <2>2. Closable(u)' = Closable(u) /\ OwnRegions(u)' = OwnRegions(u)
    BY <1>3, <1>5, <1>7 DEF Closable, OwnRegions
  <2>3. Pushing(u)' = Pushing(u)
    BY <2>1 DEF Pushing
  <2>4. ThreadExact(u)
    BY DEF IInv
  <2>5. u \in DOMAIN pifrs_to_close => pifrs_to_close'[u] = pifrs_to_close[u]
    BY <1>5, <1>7
  <2> QED BY <1>3, <1>5, <2>1, <2>2, <2>3, <2>4, <2>5 DEF ThreadExact
<1>8. ThreadExact(t)'
  <2>1. pc'[t] = "idle" /\ opened'[t] = opened[t] \cup {made} /\ Pushing(t)' = {}
    BY <1>3 DEF IInv, Calls, Pushing
  <2>2. OwnRegions(t)' = OwnRegions(t)
    BY <1>3 DEF OwnRegions
  <2>3. Closable(t) = ToSet(list) /\ Closable(t)' = ToSet(Append(list, itr))
    BY <1>2, <1>5 DEF Closable
  <2> HIDE DEF list
  <2>4. ToSet(Append(list, itr)) = ToSet(list) \cup {itr}
    BY <1>2, <1>5 DEF ToSet
  <2>5. IsInjective(Append(list, itr))
    <3>1. IsInjective(list)
      BY <1>1, <1>2 DEF ThreadExact, list
    <3>2. \A k \in DOMAIN list : list[k] # itr
      BY <1>2, <2>3 DEF ToSet
    <3> QED BY <1>2, <1>5, <3>1, <3>2 DEF IsInjective
  <2>6. Closable(t)' = OwnRegions(t)' \ Pushing(t)'
    BY <1>1, <1>2, <2>1, <2>2, <2>3, <2>4 DEF ThreadExact
  <2>7. {Access(pifrs[i]) : i \in OwnRegions(t)} = opened[t] \cup {made}
    BY <1>1, <1>2 DEF ThreadExact
  <2>8. {Access(pifrs[i]) : i \in OwnRegions(t) \ {}} = opened'[t]
    BY <2>1, <2>7
  <2> QED BY <1>3, <1>5, <2>1, <2>2, <2>5, <2>6, <2>8 DEF ThreadExact
<1> QED BY <1>4, <1>6, <1>7, <1>8 DEF IInv

(* end_regions: the thread's regions go, and nobody else's.                *)
LEMMA CloseStep ==
  ASSUME IInv, NEW t \in Threads, RClose(t)
  PROVE  IInv'
<1>1. /\ pc[t] = "end"
      /\ pifrs' = [i \in DOMAIN pifrs \ Closable(t) |-> pifrs[i]]
      /\ pifrs_to_close' = Put(pifrs_to_close, t, <<>>)
      /\ itrs' = itrs
      /\ pc' = [pc EXCEPT ![t] = "idle"] /\ call' = [call EXCEPT ![t] = NoCall]
      /\ opened' = [opened EXCEPT ![t] = {}]
  BY DEF RClose, EndRegions, Return, Goto
<1>2. ThreadExact(t) /\ Pushing(t) = {} /\ Closable(t) = OwnRegions(t)
  BY <1>1 DEF IInv, ThreadExact, Pushing
<1>3. Calls'
  BY <1>1 DEF IInv, Calls, NoCall, Fields
<1>4. /\ DOMAIN pifrs_to_close' = DOMAIN pifrs_to_close \cup {t}
      /\ pifrs_to_close'[t] = <<>>
      /\ \A u \in DOMAIN pifrs_to_close \ {t} : pifrs_to_close'[u] = pifrs_to_close[u]
      /\ pifrs_to_close' = [u \in DOMAIN pifrs_to_close' |-> pifrs_to_close'[u]]
  BY <1>1 DEF Put
<1>5. Regions'
  <2>1. <<>> \in Seq(Nat)
    OBVIOUS
  <2>2. \A u \in DOMAIN pifrs_to_close : pifrs_to_close[u] \in Seq(Nat)
    BY DEF IInv, Regions
  <2>3. \A u \in DOMAIN pifrs_to_close' : pifrs_to_close'[u] \in Seq(Nat)
    BY <1>4, <2>1, <2>2
  <2>4. \A i \in DOMAIN pifrs' : i \in Nat /\ i < itrs' /\ ~pifrs'[i].dirty
    BY <1>1 DEF IInv, Regions
  <2>5. pifrs' = [i \in DOMAIN pifrs' |-> pifrs'[i]]
    BY <1>1
  <2> QED BY <1>1, <1>4, <2>3, <2>4, <2>5 DEF IInv, Regions
<1>6. ASSUME NEW u \in Threads, u # t PROVE ThreadExact(u)'
  <2>1. pc'[u] = pc[u] /\ call'[u] = call[u] /\ opened'[u] = opened[u]
    BY <1>1, <1>6 DEF IInv, Calls
  <2>2. Pushing(u)' = Pushing(u)
    BY <2>1 DEF Pushing
  <2>3. OwnRegions(u)' = OwnRegions(u) /\ \A i \in OwnRegions(u) : pifrs'[i] = pifrs[i]
    BY <1>1, <1>2, <1>6 DEF OwnRegions
  <2>4. Closable(u)' = Closable(u)
    BY <1>4, <1>6 DEF Closable
  <2>5. ThreadExact(u)
    BY DEF IInv
  <2>6. u \in DOMAIN pifrs_to_close' <=> u \in DOMAIN pifrs_to_close
    BY <1>4, <1>6
  <2>7. u \in DOMAIN pifrs_to_close => pifrs_to_close'[u] = pifrs_to_close[u]
    BY <1>4, <1>6
  <2>8. {Access(pifrs'[i]) : i \in OwnRegions(u) \ Pushing(u)} = opened'[u]
    BY <2>1, <2>3, <2>5 DEF ThreadExact
  <2>9. pc'[u] = "push" =>
          Access(pifrs'[call'[u].value]) = <<call'[u].pifr_id, call'[u].mem_addr>>
    BY <2>1, <2>3, <2>5 DEF ThreadExact, Pushing
  <2> QED BY <2>1, <2>2, <2>3, <2>4, <2>5, <2>6, <2>7, <2>8, <2>9 DEF ThreadExact
<1>7. ThreadExact(t)'
  <2>1. pc'[t] = "idle" /\ opened'[t] = {} /\ Pushing(t)' = {}
    BY <1>1 DEF IInv, Calls, Pushing
  <2>2. OwnRegions(t)' = {}
    BY <1>1, <1>2 DEF OwnRegions
  <2>3. Closable(t)' = {} /\ IsInjective(pifrs_to_close'[t])
    BY <1>4 DEF Closable, ToSet, IsInjective
  <2>4. {Access(pifrs'[i]) : i \in {}} = opened'[t]
    BY <2>1
  <2> QED BY <2>1, <2>2, <2>3, <2>4 DEF ThreadExact
<1> QED BY <1>3, <1>5, <1>6, <1>7 DEF IInv

LEMMA Invariance == RSpec => []IInv
<1>1. RInit => IInv
  <2> SUFFICES ASSUME RInit PROVE IInv
    OBVIOUS
  <2>1. Calls /\ Regions
    BY DEF RInit, Init, Calls, Regions, NoCall, Fields
  <2>2. ASSUME NEW t \in Threads PROVE ThreadExact(t)
    <3>1. pc[t] = "idle" /\ opened[t] = {} /\ DOMAIN pifrs = {} /\ DOMAIN pifrs_to_close = {}
      BY DEF RInit, Init
    <3>2. OwnRegions(t) = {} /\ Closable(t) = {} /\ Pushing(t) = {}
      BY <3>1 DEF OwnRegions, Closable, Pushing
    <3> QED BY <3>1, <3>2 DEF ThreadExact
  <2> QED BY <2>1, <2>2 DEF IInv
<1>2. IInv /\ [RNext]_rvars => IInv'
  <2> SUFFICES ASSUME IInv, [RNext]_rvars PROVE IInv'
    OBVIOUS
  <2>1. CASE UNCHANGED rvars
    <3>1. Quiet /\ Calls'
      BY <2>1 DEF IInv, Calls, Quiet, rvars, vars, store, ghosts
    <3> QED BY <3>1, QuietStep
  <2>2. ASSUME NEW t \in Threads,
               NEW i \in Reads \cup Writes, NEW a \in Addrs, RStart(t, i, a)
        PROVE IInv'
    BY <2>2, StartQuiet
  <2>3. ASSUME NEW t \in Threads, RFind(t) PROVE IInv'
    BY <2>3, FindQuiet
  <2>4. ASSUME NEW t \in Threads, RPushBack(t) PROVE IInv'
    BY <2>4, PushStep
  <2>5. ASSUME NEW t \in Threads, RClose(t) PROVE IInv'
    BY <2>5, CloseStep
  <2>6. ASSUME NEW t \in Threads, ROther(t) PROVE IInv'
    <3>1. CASE OpenRegion(t)
      BY <2>6, <3>1, OpenStep DEF ROther, ghosts
    <3>2. CASE ~OpenRegion(t)
      BY <2>6, <3>2, OtherQuiet
    <3> QED BY <3>1, <3>2
  <2> QED BY <2>1, <2>2, <2>3, <2>4, <2>5, <2>6 DEF RNext
<1> QED BY <1>1, <1>2, PTL DEF RSpec

(* end_regions never erases through an iterator that is not, or no longer, *)
(* in the multimap, nor leaves a region of its thread behind, in every     *)
(* interleaving of any number of threads.                                  *)
THEOREM IteratorsValid == RSpec => []CloseListsExact
<1>1. IInv => CloseListsExact
  BY DEF IInv, ThreadExact, CloseListsExact, Pushing
<1> QED BY <1>1, Invariance, PTL

(* A region stays open from the return of pifrrt_start_pifr to the next    *)
(* close of its thread, however long any thread sleeps in close_regions.   *)
THEOREM RegionsStayOpen == RSpec => []OpenUntilClosed
<1>1. IInv => OpenUntilClosed
  <2> SUFFICES ASSUME IInv, NEW t \in Threads, pc[t] # "push"
               PROVE {<<pifrs[i].pifr_id, pifrs[i].mem_addr>> : i \in OwnRegions(t)} = opened[t]
    BY DEF OpenUntilClosed
  <2>1. Pushing(t) = {} /\ ThreadExact(t)
    BY DEF Pushing, IInv
  <2> QED BY <2>1 DEF ThreadExact, Access
<1> QED BY <1>1, Invariance, PTL
-----------------------------------------------------------------------------
(* No false alarm.                                                         *)

InCall(t) == pc[t] \in {"find", "report", "open", "push"}

(* Two conflicting accesses that are both open have overlapped.            *)
OpenPairs ==
  \A t, u \in Threads : \A p \in accesses[t], q \in accesses[u] :
    t # u /\ p[2] = q[2] /\ Conflict(p[1], q[1]) => {p[1], q[1]} \in overlapped

(* A call is about an open access of its thread.                           *)
CallsOpen ==
  \A t \in Threads : InCall(t) => <<call[t].pifr_id, call[t].mem_addr>> \in accesses[t]

(* A region stands for an open access of its thread.                       *)
RegionsOpen ==
  \A i \in DOMAIN pifrs :
    /\ pifrs[i].tid \in Threads
    /\ Access(pifrs[i]) \in accesses[pifrs[i].tid]
    /\ minimal_regions => ~pifrs[i].is_write
    /\ ~minimal_regions => (pifrs[i].is_write <=> pifrs[i].pifr_id \in Writes)

FoundOverlapped ==
  \A t \in Threads : pc[t] = "report" =>
    \A other \in call[t].overlaps : {call[t].pifr_id, other.pifr_id} \in overlapped

SoundInv ==
  /\ accesses \in [Threads -> SUBSET ((Reads \cup Writes) \X Addrs)]
  /\ OpenPairs /\ CallsOpen /\ RegionsOpen /\ FoundOverlapped /\ RaceSound

(* Steps that touch no region, no access and no call that is on its way.   *)
Aside ==
  /\ UNCHANGED <<pifrs, accesses, overlapped, rw_bug_hashes>>
  /\ \A u \in Threads : pc'[u] \in {"find", "report", "open", "push"} =>
       /\ InCall(u)
       /\ call'[u].pifr_id = call[u].pifr_id /\ call'[u].mem_addr = call[u].mem_addr
  /\ \A u \in Threads : pc'[u] = "report" =>
       pc[u] = "report" /\ call'[u].overlaps = call[u].overlaps

LEMMA AsideStep ==
  ASSUME SoundInv, Aside PROVE SoundInv'
<1>1. OpenPairs' /\ RegionsOpen' /\ RaceSound'
  BY DEF SoundInv, Aside, OpenPairs, RegionsOpen, RaceSound, Access
<1>2. CallsOpen'
  BY DEF SoundInv, Aside, CallsOpen, InCall
<1>3. FoundOverlapped'
  BY DEF SoundInv, Aside, FoundOverlapped
<1>4. (accesses \in [Threads -> SUBSET ((Reads \cup Writes) \X Addrs)])'
  BY DEF SoundInv, Aside
<1> QED BY <1>1, <1>2, <1>3, <1>4 DEF SoundInv

LEMMA StartSound ==
  ASSUME IInv, SoundInv, NEW t \in Threads,
         NEW i \in Reads \cup Writes, NEW a \in Addrs, RStart(t, i, a)
  PROVE  SoundInv'
<1>1. /\ accesses' = [accesses EXCEPT ![t] = @ \cup {<<i, a>>}]
      /\ overlapped' = overlapped \cup {{i, p[2]} : p \in Racing(t, accesses, i, a)}
      /\ call' = [call EXCEPT ![t].pifr_id = i, ![t].mem_addr = a]
      /\ pc' = [pc EXCEPT ![t] = "find"]
      /\ pifrs' = pifrs /\ rw_bug_hashes' = rw_bug_hashes
  BY DEF RStart, Start, Goto, store
<1>2. /\ accesses' \in [Threads -> SUBSET ((Reads \cup Writes) \X Addrs)]
      /\ accesses'[t] = accesses[t] \cup {<<i, a>>}
      /\ \A u \in Threads \ {t} : accesses'[u] = accesses[u]
      /\ overlapped \subseteq overlapped'
  BY <1>1 DEF SoundInv
<1>3. /\ pc'[t] = "find" /\ call'[t].pifr_id = i /\ call'[t].mem_addr = a
      /\ \A u \in Threads \ {t} : pc'[u] = pc[u] /\ call'[u] = call[u]
  BY <1>1 DEF IInv, Calls, Fields
<1>4. ASSUME NEW u \in Threads \ {t}, NEW q \in accesses[u], q[2] = a, Conflict(i, q[1])
      PROVE  {i, q[1]} \in overlapped'
  <2>1. q = <<q[1], a>> /\ q[1] \in Reads \cup Writes
    BY <1>4 DEF SoundInv
  <2>2. <<u, q[1]>> \in Racing(t, accesses, i, a)
    BY <1>4, <2>1 DEF Racing, Others
  <2> QED BY <1>1, <2>2
<1>5. OpenPairs'
  <2> SUFFICES ASSUME NEW u \in Threads, NEW v \in Threads,
                      NEW p \in accesses'[u], NEW q \in accesses'[v],
                      u # v, p[2] = q[2], Conflict(p[1], q[1])
               PROVE  {p[1], q[1]} \in overlapped'
    BY DEF OpenPairs, Conflict
  <2>1. CASE p \in accesses[u] /\ q \in accesses[v]
    BY <1>2, <2>1 DEF SoundInv, OpenPairs
  <2>2. CASE p \notin accesses[u]
    <3>1. u = t /\ p = <<i, a>> /\ v \in Threads \ {t} /\ q \in accesses[v]
      BY <1>2, <2>2
    <3> QED BY <1>4, <3>1
  <2>3. CASE q \notin accesses[v]
    <3>1. v = t /\ q = <<i, a>> /\ u \in Threads \ {t} /\ p \in accesses[u]
      BY <1>2, <2>3
    <3>2. p[2] = a /\ Conflict(i, p[1])
      BY <3>1 DEF Conflict
    <3>3. {i, p[1]} \in overlapped'
      BY <1>4, <3>1, <3>2
    <3>4. {p[1], q[1]} = {i, p[1]}
      BY <3>1
    <3> QED BY <3>3, <3>4
  <2> QED BY <2>1, <2>2, <2>3
<1>6. CallsOpen'
  BY <1>2, <1>3 DEF SoundInv, CallsOpen, InCall
<1>7. RegionsOpen'
  BY <1>1, <1>2 DEF SoundInv, RegionsOpen, Access
<1>8. FoundOverlapped' /\ RaceSound'
  BY <1>1, <1>2, <1>3 DEF SoundInv, FoundOverlapped, RaceSound
<1> QED BY <1>2, <1>5, <1>6, <1>7, <1>8 DEF SoundInv

(* What find_overlaps returns has overlapped.                              *)
LEMMA OverlapsSound ==
  ASSUME SoundInv, NEW t \in Threads, InCall(t),
         NEW other \in find_overlaps(build_pifr(t))
  PROVE  {call[t].pifr_id, other.pifr_id} \in overlapped
<1> DEFINE p == build_pifr(t)
<1>1. /\ p.pifr_id = call[t].pifr_id /\ p.mem_addr = call[t].mem_addr /\ p.tid = t
      /\ p.is_write = IF minimal_regions THEN FALSE ELSE call[t].pifr_id \in Writes
  BY DEF build_pifr
<1> HIDE DEF p
<1>2. other \in AtAddress(p.mem_addr) /\ other.tid # p.tid /\ p.is_write = ~other.is_write
  BY DEF find_overlaps, p
<1>3. PICK i \in DOMAIN pifrs : other = pifrs[i] /\ pifrs[i].mem_addr = p.mem_addr
  BY <1>2 DEF AtAddress
<1>4. /\ other.tid \in Threads
      /\ <<other.pifr_id, call[t].mem_addr>> \in accesses[other.tid]
      /\ minimal_regions => ~other.is_write
      /\ ~minimal_regions => (other.is_write <=> other.pifr_id \in Writes)
  BY <1>1, <1>3 DEF SoundInv, RegionsOpen, Access
<1>5. <<call[t].pifr_id, call[t].mem_addr>> \in accesses[t]
  BY DEF SoundInv, CallsOpen
<1>6. ~minimal_regions
  BY <1>1, <1>2, <1>4
<1>7. Conflict(call[t].pifr_id, other.pifr_id)
  BY <1>1, <1>2, <1>4, <1>6 DEF Conflict
<1>8. t # other.tid
  BY <1>1, <1>2
<1>9. \A x \in accesses[t], y \in accesses[other.tid] :
        x[2] = y[2] /\ Conflict(x[1], y[1]) => {x[1], y[1]} \in overlapped
  BY <1>4, <1>8 DEF SoundInv, OpenPairs
<1> QED BY <1>4, <1>5, <1>7, <1>9

LEMMA FindSound ==
  ASSUME IInv, SoundInv, NEW t \in Threads, RFind(t)
  PROVE  SoundInv'
<1>1. /\ pc[t] = "find" /\ InCall(t)
      /\ UNCHANGED <<pifrs, accesses, overlapped, rw_bug_hashes>>
  BY DEF RFind, FindOverlaps, InCall, store
<1>2. CASE Cardinality(DOMAIN threads) = 1
  <2>1. Aside
    BY <1>1, <1>2 DEF IInv, Calls, Aside, RFind, FindOverlaps, Return, NoCall, Goto, InCall
  <2> QED BY <2>1, AsideStep
<1>3. CASE Cardinality(DOMAIN threads) # 1
  <2> DEFINE found == find_overlaps(build_pifr(t))
  <2>1. \A other \in found : {call[t].pifr_id, other.pifr_id} \in overlapped
    BY <1>1, OverlapsSound
  <2>2. call' = [call EXCEPT ![t].overlaps = found] /\ pc' = [pc EXCEPT ![t] = "report"]
    BY <1>3 DEF RFind, FindOverlaps, Goto
  <2> HIDE DEF found
  <2>3. /\ pc'[t] = "report" /\ call'[t].overlaps = found
        /\ \A u \in Threads : call'[u].pifr_id = call[u].pifr_id
                               /\ call'[u].mem_addr = call[u].mem_addr
        /\ \A u \in Threads \ {t} : pc'[u] = pc[u] /\ call'[u] = call[u]
    BY <2>2 DEF IInv, Calls, Fields
  <2>4. CallsOpen'
    BY <1>1, <2>3 DEF SoundInv, CallsOpen, InCall
  <2>5. FoundOverlapped'
    BY <1>1, <2>1, <2>3 DEF SoundInv, FoundOverlapped
  <2> QED BY <1>1, <2>4, <2>5 DEF SoundInv, OpenPairs, RegionsOpen, RaceSound, Access
<1> QED BY <1>2, <1>3

LEMMA ReportSound ==
  ASSUME IInv, SoundInv, NEW t \in Threads, Report(t), UNCHANGED ghosts
  PROVE  SoundInv'
<1> DEFINE reported(other) == Line(build_pifr(t), other)
           new == {other \in call[t].overlaps : reported(other) \notin rw_bug_hashes}
<1>1. /\ pc[t] = "report"
      /\ rw_bug_hashes' = rw_bug_hashes \cup {reported(other) : other \in new}
      /\ call' = [call EXCEPT ![t].overlaps = {}]
      /\ pc' = [pc EXCEPT ![t] = "open"]
      /\ UNCHANGED <<pifrs, accesses, overlapped>>
  BY DEF Report, Goto, store, ghosts
<1>2. \A other \in new : reported(other) \in overlapped
  BY <1>1 DEF SoundInv, FoundOverlapped, Line, build_pifr
<1> HIDE DEF reported, new
<1>3. RaceSound'
  BY <1>1, <1>2 DEF SoundInv, RaceSound
<1>4. /\ pc'[t] = "open"
      /\ \A u \in Threads : call'[u].pifr_id = call[u].pifr_id
                             /\ call'[u].mem_addr = call[u].mem_addr
      /\ \A u \in Threads \ {t} : pc'[u] = pc[u] /\ call'[u] = call[u]
  BY <1>1 DEF IInv, Calls, Fields
<1>5. CallsOpen' /\ FoundOverlapped'
  BY <1>1, <1>4 DEF SoundInv, CallsOpen, InCall, FoundOverlapped
<1> QED BY <1>1, <1>3, <1>5 DEF SoundInv, OpenPairs, RegionsOpen, Access

LEMMA OpenSound ==
  ASSUME IInv, SoundInv, NEW t \in Threads, OpenRegion(t), UNCHANGED ghosts
  PROVE  SoundInv'
<1> DEFINE p == build_pifr(t)
<1>1. /\ pc[t] = "open" /\ InCall(t)
      /\ pifrs' = Put(pifrs, itrs, p)
      /\ call' = [call EXCEPT ![t].value = itrs]
      /\ pc' = [pc EXCEPT ![t] = "push"]
      /\ UNCHANGED <<accesses, overlapped, rw_bug_hashes>>
  BY DEF OpenRegion, Goto, ghosts, InCall
<1>2. /\ p.tid = t /\ Access(p) = <<call[t].pifr_id, call[t].mem_addr>>
      /\ p.pifr_id = call[t].pifr_id
      /\ p.is_write = IF minimal_regions THEN FALSE ELSE call[t].pifr_id \in Writes
  BY DEF build_pifr, Access
<1> HIDE DEF p
<1>3. /\ DOMAIN pifrs' = DOMAIN pifrs \cup {itrs}
      /\ \A i \in DOMAIN pifrs' : pifrs'[i] = IF i = itrs THEN p ELSE pifrs[i]
  BY <1>1 DEF Put
<1>4. <<call[t].pifr_id, call[t].mem_addr>> \in accesses[t]
  BY <1>1 DEF SoundInv, CallsOpen
<1>5. RegionsOpen'
  <2> SUFFICES ASSUME NEW i \in DOMAIN pifrs'
               PROVE  /\ pifrs'[i].tid \in Threads
                      /\ Access(pifrs'[i]) \in accesses[pifrs'[i].tid]
                      /\ minimal_regions => ~pifrs'[i].is_write
                      /\ ~minimal_regions =>
                           (pifrs'[i].is_write <=> pifrs'[i].pifr_id \in Writes)
    BY <1>1 DEF RegionsOpen, Access
  <2>1. CASE i = itrs
    <3>1. pifrs'[i] = p
      BY <1>3, <2>1
    <3>2. /\ minimal_regions => ~p.is_write
          /\ ~minimal_regions => (p.is_write <=> p.pifr_id \in Writes)
      BY <1>2
    <3> QED BY <1>2, <1>4, <3>1, <3>2
  <2>2. CASE i # itrs
    BY <1>3, <2>2 DEF SoundInv, RegionsOpen
  <2> QED BY <2>1, <2>2
<1>6. /\ pc'[t] = "push"
      /\ \A u \in Threads : call'[u].pifr_id = call[u].pifr_id
                             /\ call'[u].mem_addr = call[u].mem_addr
      /\ \A u \in Threads \ {t} : pc'[u] = pc[u] /\ call'[u] = call[u]
  BY <1>1 DEF IInv, Calls, Fields
<1>7. CallsOpen' /\ FoundOverlapped'
  BY <1>1, <1>6 DEF SoundInv, CallsOpen, InCall, FoundOverlapped
<1> QED BY <1>1, <1>5, <1>7 DEF SoundInv, OpenPairs, RaceSound

(* The regions that go are those of the thread whose accesses end.         *)
LEMMA CloseSound ==
  ASSUME IInv, SoundInv, NEW t \in Threads, RClose(t)
  PROVE  SoundInv'
<1>1. /\ pc[t] = "end"
      /\ pifrs' = [i \in DOMAIN pifrs \ Closable(t) |-> pifrs[i]]
      /\ pc' = [pc EXCEPT ![t] = "idle"] /\ call' = [call EXCEPT ![t] = NoCall]
      /\ accesses' = [accesses EXCEPT ![t] = {}]
      /\ UNCHANGED <<overlapped, rw_bug_hashes>>
  BY DEF RClose, EndRegions, Return, Goto
<1>2. Closable(t) = {i \in DOMAIN pifrs : pifrs[i].tid = t}
  BY <1>1 DEF IInv, ThreadExact, Pushing, OwnRegions
<1>3. /\ accesses' \in [Threads -> SUBSET ((Reads \cup Writes) \X Addrs)]
      /\ accesses'[t] = {}
      /\ \A u \in Threads \ {t} : accesses'[u] = accesses[u]
  BY <1>1 DEF SoundInv
<1>4. OpenPairs'
  BY <1>1, <1>3 DEF SoundInv, OpenPairs, Conflict
<1>5. RegionsOpen'
  BY <1>1, <1>2, <1>3 DEF SoundInv, RegionsOpen, Access
<1>6. /\ pc'[t] = "idle"
      /\ \A u \in Threads \ {t} : pc'[u] = pc[u] /\ call'[u] = call[u]
  BY <1>1 DEF IInv, Calls
<1>7. CallsOpen' /\ FoundOverlapped'
  BY <1>1, <1>3, <1>6 DEF SoundInv, CallsOpen, InCall, FoundOverlapped
<1> QED BY <1>1, <1>3, <1>4, <1>5, <1>7 DEF SoundInv, RaceSound

LEMMA OtherSound ==
  ASSUME IInv, SoundInv, NEW t \in Threads, ROther(t), ~Report(t), ~OpenRegion(t)
  PROVE  SoundInv'
<1> USE DEF IInv, Calls, Aside, InCall, ghosts, store, Goto, Fields
<1>1. UNCHANGED ghosts
  BY DEF ROther
<1>2. CASE SkipRegion(t)
  <2>1. Aside
    BY <1>1, <1>2 DEF SkipRegion, Return, NoCall
  <2> QED BY <2>1, AsideStep
<1>3. CASE Delay(t)
  <2>1. Aside
    BY <1>1, <1>3 DEF Delay
  <2> QED BY <2>1, AsideStep
<1>4. CASE NoDelay(t)
  <2>1. Aside
    BY <1>1, <1>4 DEF NoDelay
  <2> QED BY <2>1, AsideStep
<1>5. CASE FallAsleep(t)
  <2>1. Aside
    BY <1>1, <1>5 DEF FallAsleep
  <2> QED BY <2>1, AsideStep
<1>6. CASE Wake(t)
  <2>1. Aside
    BY <1>1, <1>6 DEF Wake
  <2> QED BY <2>1, AsideStep
<1>7. CASE Awake(t)
  <2>1. Aside
    BY <1>1, <1>7 DEF Awake
  <2> QED BY <2>1, AsideStep
<1>8. ASSUME NEW l \in Locations, End(t, l) PROVE SoundInv'
  <2>1. Aside
    BY <1>1, <1>8 DEF End, Close
  <2> QED BY <2>1, AsideStep
<1>9. ASSUME NEW l \in Locations, NEW a \in Addrs, Flush(t, l, a) PROVE SoundInv'
  <2>1. UNCHANGED pifrs
    BY <1>9, NoDirtyRegion DEF Flush
  <2>2. Aside
    BY <1>1, <1>9, <2>1 DEF Flush, Close
  <2> QED BY <2>2, AsideStep
<1> QED BY <1>2, <1>3, <1>4, <1>5, <1>6, <1>7, <1>8, <1>9 DEF ROther

LEMMA SoundInvariance == RSpec => []SoundInv
<1>1. RInit => SoundInv
  BY DEF RInit, Init, SoundInv, OpenPairs, CallsOpen, RegionsOpen, FoundOverlapped,
         RaceSound, InCall
<1>2. IInv /\ SoundInv /\ [RNext]_rvars => SoundInv'
  <2> SUFFICES ASSUME IInv, SoundInv, [RNext]_rvars PROVE SoundInv'
    OBVIOUS
  <2>1. CASE UNCHANGED rvars
    <3>1. Aside
      BY <2>1 DEF Aside, InCall, rvars, vars, store, ghosts
    <3> QED BY <3>1, AsideStep
  <2>2. ASSUME NEW t \in Threads,
               NEW i \in Reads \cup Writes, NEW a \in Addrs, RStart(t, i, a)
        PROVE SoundInv'
    BY <2>2, StartSound
  <2>3. ASSUME NEW t \in Threads, RFind(t) PROVE SoundInv'
    BY <2>3, FindSound
  <2>4. ASSUME NEW t \in Threads, RPushBack(t) PROVE SoundInv'
    <3>1. Aside
      BY <2>4 DEF IInv, Calls, Aside, InCall, RPushBack, PushBack, Return, NoCall, Goto
    <3> QED BY <3>1, AsideStep
  <2>5. ASSUME NEW t \in Threads, RClose(t) PROVE SoundInv'
    BY <2>5, CloseSound
  <2>6. ASSUME NEW t \in Threads, ROther(t) PROVE SoundInv'
    <3>1. UNCHANGED ghosts
      BY <2>6 DEF ROther
    <3> QED BY <2>6, <3>1, ReportSound, OpenSound, OtherSound
  <2> QED BY <2>1, <2>2, <2>3, <2>4, <2>5, <2>6 DEF RNext
<1> QED BY <1>1, <1>2, Invariance, PTL DEF RSpec

(* The race detector reports no pair of instructions that did not overlap  *)
(* on one address in two threads, in any interleaving of any number of     *)
(* threads, with or without delays, sampling and minimal regions.          *)
THEOREM NoFalseRace == RSpec => []RaceSound
<1>1. SoundInv => RaceSound
  BY DEF SoundInv
<1> QED BY <1>1, SoundInvariance, PTL

-----------------------------------------------------------------------------
(* No missed race.                                                         *)

(* What an access is owed is still open.                                   *)
OwedOpen ==
  \A t \in Threads : InCall(t) => \A p \in owed[t] :
    /\ p[1] \in Threads \ {t}
    /\ Conflict(call[t].pifr_id, p[2])
    /\ <<p[2], call[t].mem_addr>> \in opened[p[1]]

(* find_overlaps found what the access is owed.                            *)
OverlapsComplete ==
  \A t \in Threads : pc[t] = "report" /\ ~sameId[t] =>
    \A p \in owed[t] : \E other \in call[t].overlaps : other.pifr_id = p[2]

MissInv ==
  /\ owed = [t \in Threads |-> owed[t]]
  /\ sameId = [t \in Threads |-> sameId[t]]
  /\ OwedOpen /\ OverlapsComplete /\ NoMissedRace

(* Steps that close no region and let no call look for overlaps or report. *)
Onward ==
  /\ UNCHANGED <<owed, sameId>>
  /\ rw_bug_hashes \subseteq rw_bug_hashes'
  /\ \A u \in Threads : opened[u] \subseteq opened'[u]
  /\ \A u \in Threads : pc'[u] \in {"find", "report", "open", "push"} =>
       /\ InCall(u)
       /\ call'[u].pifr_id = call[u].pifr_id /\ call'[u].mem_addr = call[u].mem_addr
  /\ \A u \in Threads : pc'[u] = "report" =>
       pc[u] = "report" /\ call'[u].overlaps = call[u].overlaps
  /\ \A u \in Threads : pc'[u] = "open" => pc[u] = "open"

(* Calls that go on, or end, keep what they are owed.                      *)
LEMMA OwedKept ==
  ASSUME OwedOpen, owed' = owed, \A u \in Threads : opened[u] \subseteq opened'[u],
         \A u \in Threads : pc'[u] \in {"find", "report", "open", "push"} =>
           /\ InCall(u)
           /\ call'[u].pifr_id = call[u].pifr_id /\ call'[u].mem_addr = call[u].mem_addr
  PROVE  OwedOpen'
<1> SUFFICES ASSUME NEW u \in Threads, pc'[u] \in {"find", "report", "open", "push"},
                    NEW p \in owed'[u]
             PROVE  /\ p[1] \in Threads \ {u}
                    /\ Conflict(call'[u].pifr_id, p[2])
                    /\ <<p[2], call'[u].mem_addr>> \in opened'[p[1]]
  BY DEF OwedOpen, Conflict, InCall
<1>1. InCall(u) /\ p \in owed[u]
  OBVIOUS
<1>2. /\ p[1] \in Threads \ {u}
      /\ Conflict(call[u].pifr_id, p[2])
      /\ <<p[2], call[u].mem_addr>> \in opened[p[1]]
  BY <1>1 DEF OwedOpen
<1>3. call'[u].pifr_id = call[u].pifr_id /\ call'[u].mem_addr = call[u].mem_addr
  OBVIOUS
<1> QED BY <1>2, <1>3

LEMMA OnwardStep ==
  ASSUME MissInv, Onward PROVE MissInv'
<1>1. OwedOpen'
  BY OwedKept DEF MissInv, Onward
<1>2. OverlapsComplete'
  BY DEF MissInv, Onward, OverlapsComplete
<1>3. NoMissedRace'
  BY DEF MissInv, Onward, NoMissedRace, InCall
<1> QED BY <1>1, <1>2, <1>3 DEF MissInv, Onward

LEMMA StartMiss ==
  ASSUME IInv, MissInv, NEW t \in Threads, NEW i, NEW a, RStart(t, i, a)
  PROVE  MissInv'
<1>0. opened' = opened /\ sameId' = sameId /\ rw_bug_hashes' = rw_bug_hashes
  BY DEF RStart, Start
<1>1. /\ owed' = [owed EXCEPT ![t] = Racing(t, opened, i, a)]
      /\ call' = [call EXCEPT ![t].pifr_id = i, ![t].mem_addr = a]
      /\ pc' = [pc EXCEPT ![t] = "find"]
  BY DEF RStart, Start, Goto
<1>2. /\ pc'[t] = "find" /\ call'[t].pifr_id = i /\ call'[t].mem_addr = a
      /\ \A u \in Threads \ {t} : pc'[u] = pc[u] /\ call'[u] = call[u]
  BY <1>1 DEF IInv, Calls, Fields
<1>3. owed'[t] = Racing(t, opened, i, a) /\ \A u \in Threads \ {t} : owed'[u] = owed[u]
  BY <1>1 DEF MissInv
<1>4. \A p \in Racing(t, opened, i, a) :
        p[1] \in Threads \ {t} /\ Conflict(i, p[2]) /\ <<p[2], a>> \in opened[p[1]]
  BY DEF Racing, Others
<1>5. OwedOpen'
  <2> SUFFICES ASSUME NEW u \in Threads, InCall(u)', NEW p \in owed'[u]
               PROVE  /\ p[1] \in Threads \ {u}
                      /\ Conflict(call'[u].pifr_id, p[2])
                      /\ <<p[2], call'[u].mem_addr>> \in opened'[p[1]]
    BY DEF OwedOpen, Conflict
  <2>1. CASE u = t
    BY <1>0, <1>2, <1>3, <1>4, <2>1
  <2>2. CASE u # t
    <3>1. InCall(u) /\ p \in owed[u] /\ call'[u] = call[u]
      BY <1>2, <1>3, <2>2 DEF InCall
    <3> QED BY <1>0, <3>1 DEF MissInv, OwedOpen
  <2> QED BY <2>1, <2>2
<1>6. OverlapsComplete'
  BY <1>0, <1>2, <1>3 DEF MissInv, OverlapsComplete
<1>7. NoMissedRace'
  BY <1>0, <1>2, <1>3 DEF MissInv, NoMissedRace
<1> QED BY <1>0, <1>1, <1>5, <1>6, <1>7 DEF MissInv

(* An access that is owed one finds it, if no region of its id is open.    *)
LEMMA OverlapsFound ==
  ASSUME IInv, SoundInv, MissInv, ~minimal_regions,
         NEW t \in Threads, InCall(t), ~SameIdOpen(build_pifr(t)), NEW p \in owed[t]
  PROVE  \E other \in find_overlaps(build_pifr(t)) : other.pifr_id = p[2]
<1> DEFINE q == build_pifr(t)
           u == p[1]
<1>1. /\ u \in Threads /\ u # t
      /\ Conflict(call[t].pifr_id, p[2])
      /\ <<p[2], call[t].mem_addr>> \in opened[u]
  BY DEF MissInv, OwedOpen
<1>2. PICK i \in OwnRegions(u) : Access(pifrs[i]) = <<p[2], call[t].mem_addr>>
  <2>1. ThreadExact(u)
    BY <1>1 DEF IInv
  <2> QED BY <1>1, <2>1 DEF ThreadExact
<1>3. /\ i \in DOMAIN pifrs /\ pifrs[i].tid = u
      /\ pifrs[i].pifr_id = p[2] /\ pifrs[i].mem_addr = call[t].mem_addr
      /\ pifrs[i].is_write <=> p[2] \in Writes
  BY <1>2 DEF OwnRegions, Access, SoundInv, RegionsOpen
<1>4. /\ q.mem_addr = call[t].mem_addr /\ q.tid = t
      /\ q.is_write = (call[t].pifr_id \in Writes)
  BY DEF build_pifr
<1> HIDE DEF q, u
<1>5. pifrs[i] \in AtAddress(q.mem_addr)
  BY <1>3, <1>4 DEF AtAddress
<1>6. q.is_write = ~pifrs[i].is_write
  BY <1>1, <1>3, <1>4 DEF Conflict
<1>7. pifrs[i] \in find_overlaps(q)
  BY <1>1, <1>3, <1>4, <1>5, <1>6 DEF find_overlaps, q
<1> QED BY <1>3, <1>7 DEF q

LEMMA FindMiss ==
  ASSUME IInv, SoundInv, MissInv, ~minimal_regions, NEW t \in Threads, RFind(t)
  PROVE  MissInv'
<1>1. /\ pc[t] = "find" /\ InCall(t)
      /\ sameId' = [sameId EXCEPT ![t] = SameIdOpen(build_pifr(t))]
      /\ UNCHANGED <<owed, opened, rw_bug_hashes>>
  BY DEF RFind, FindOverlaps, InCall
<1>2. /\ sameId'[t] = SameIdOpen(build_pifr(t))
      /\ \A u \in Threads \ {t} : sameId'[u] = sameId[u]
      /\ sameId' = [u \in Threads |-> sameId'[u]]
  BY <1>1 DEF MissInv
<1>3. CASE Cardinality(DOMAIN threads) = 1
  <2>1. /\ pc'[t] = "idle"
        /\ \A u \in Threads \ {t} : pc'[u] = pc[u] /\ call'[u] = call[u]
    BY <1>3 DEF IInv, Calls, RFind, FindOverlaps, Return, Goto
  <2>2. OwedOpen'
    <3>1. \A u \in Threads : pc'[u] \in {"find", "report", "open", "push"} =>
            InCall(u) /\ call'[u] = call[u]
      BY <2>1 DEF InCall
    <3> QED BY <1>1, <3>1, OwedKept DEF MissInv
  <2>3. OverlapsComplete'
    BY <1>1, <1>2, <2>1 DEF MissInv, OverlapsComplete
  <2>4. NoMissedRace'
    BY <1>1, <1>2, <2>1 DEF MissInv, NoMissedRace
  <2> QED BY <1>1, <1>2, <2>2, <2>3, <2>4 DEF MissInv
<1>4. CASE Cardinality(DOMAIN threads) # 1
  <2> DEFINE found == find_overlaps(build_pifr(t))
  <2>1. ~SameIdOpen(build_pifr(t)) =>
          \A p \in owed[t] : \E other \in found : other.pifr_id = p[2]
    BY <1>1, OverlapsFound
  <2>2. call' = [call EXCEPT ![t].overlaps = found] /\ pc' = [pc EXCEPT ![t] = "report"]
    BY <1>4 DEF RFind, FindOverlaps, Goto
  <2> HIDE DEF found
  <2>3. /\ pc'[t] = "report" /\ call'[t].overlaps = found
        /\ \A u \in Threads : call'[u].pifr_id = call[u].pifr_id
                               /\ call'[u].mem_addr = call[u].mem_addr
        /\ \A u \in Threads \ {t} : pc'[u] = pc[u] /\ call'[u] = call[u]
    BY <2>2 DEF IInv, Calls, Fields
  <2>4. OwedOpen'
    <3>1. \A u \in Threads : pc'[u] \in {"find", "report", "open", "push"} => InCall(u)
      BY <1>1, <2>3 DEF InCall
    <3> QED BY <1>1, <2>3, <3>1, OwedKept DEF MissInv
  <2>5. OverlapsComplete'
    BY <1>1, <1>2, <2>1, <2>3 DEF MissInv, OverlapsComplete
  <2>6. NoMissedRace'
    BY <1>1, <1>2, <2>3 DEF MissInv, NoMissedRace
  <2> QED BY <1>1, <1>2, <2>4, <2>5, <2>6 DEF MissInv
<1> QED BY <1>3, <1>4

LEMMA ReportMiss ==
  ASSUME IInv, MissInv, NEW t \in Threads, Report(t), UNCHANGED ghosts
  PROVE  MissInv'
<1> DEFINE reported(other) == Line(build_pifr(t), other)
           new == {other \in call[t].overlaps : reported(other) \notin rw_bug_hashes}
<1>1. /\ pc[t] = "report"
      /\ rw_bug_hashes' = rw_bug_hashes \cup {reported(other) : other \in new}
      /\ call' = [call EXCEPT ![t].overlaps = {}]
      /\ pc' = [pc EXCEPT ![t] = "open"]
      /\ UNCHANGED <<opened, owed, sameId>>
  BY DEF Report, Goto, ghosts
<1>2. \A other \in call[t].overlaps : {call[t].pifr_id, other.pifr_id} \in rw_bug_hashes'
  <2>1. \A other \in call[t].overlaps : reported(other) \in rw_bug_hashes'
    BY <1>1
  <2> QED BY <2>1 DEF Line, build_pifr
<1> HIDE DEF reported, new
<1>3. /\ pc'[t] = "open"
      /\ \A u \in Threads : call'[u].pifr_id = call[u].pifr_id
                             /\ call'[u].mem_addr = call[u].mem_addr
      /\ \A u \in Threads \ {t} : pc'[u] = pc[u] /\ call'[u] = call[u]
  BY <1>1 DEF IInv, Calls, Fields
<1>4. OwedOpen' /\ OverlapsComplete'
  <2>1. \A u \in Threads : pc'[u] \in {"find", "report", "open", "push"} => InCall(u)
    BY <1>1, <1>3 DEF InCall
  <2>2. OwedOpen'
    BY <1>1, <1>3, <2>1, OwedKept DEF MissInv
  <2>3. OverlapsComplete'
    BY <1>1, <1>3 DEF MissInv, OverlapsComplete
  <2> QED BY <2>2, <2>3
<1>5. ASSUME NEW u \in Threads, pc'[u] = "open", ~sameId'[u], NEW p \in owed'[u]
      PROVE  {call'[u].pifr_id, p[2]} \in rw_bug_hashes'
  <2>1. CASE u = t
    <3>1. p \in owed[t] /\ ~sameId[t]
      BY <1>1, <1>5, <2>1
    <3>2. PICK other \in call[t].overlaps : other.pifr_id = p[2]
      BY <1>1, <3>1 DEF MissInv, OverlapsComplete
    <3> QED BY <1>2, <1>3, <2>1, <3>2
  <2>2. CASE u # t
    BY <1>1, <1>3, <1>5, <2>2 DEF MissInv, NoMissedRace
  <2> QED BY <2>1, <2>2
<1> QED BY <1>1, <1>4, <1>5 DEF MissInv, NoMissedRace

LEMMA CloseMiss ==
  ASSUME IInv, MissInv, NEW t \in Threads, RClose(t)
  PROVE  MissInv'
<1>1. /\ pc' = [pc EXCEPT ![t] = "idle"] /\ call' = [call EXCEPT ![t] = NoCall]
      /\ opened' = [opened EXCEPT ![t] = {}]
      /\ owed' = [u \in Threads |-> {p \in owed[u] : p[1] # t}]
      /\ UNCHANGED <<sameId, rw_bug_hashes>>
  BY DEF RClose, EndRegions, Return, Goto
<1>2. /\ pc'[t] = "idle"
      /\ \A u \in Threads \ {t} : pc'[u] = pc[u] /\ call'[u] = call[u]
                                  /\ opened'[u] = opened[u]
      /\ \A u \in Threads : owed'[u] = {p \in owed[u] : p[1] # t}
  BY <1>1 DEF IInv, Calls
<1>3. OwedOpen'
  BY <1>2 DEF MissInv, OwedOpen, InCall, Conflict
<1>4. OverlapsComplete' /\ NoMissedRace'
  BY <1>1, <1>2 DEF MissInv, OverlapsComplete, NoMissedRace
<1> QED BY <1>1, <1>3, <1>4 DEF MissInv

LEMMA OtherMiss ==
  ASSUME IInv, MissInv, NEW t \in Threads, ROther(t), ~Report(t)
  PROVE  MissInv'
<1> USE DEF IInv, Calls, Onward, InCall, ghosts, Goto, Fields
<1>1. UNCHANGED ghosts
  BY DEF ROther
<1>2. CASE OpenRegion(t)
  <2>1. Onward
    BY <1>1, <1>2 DEF OpenRegion
  <2> QED BY <2>1, OnwardStep
<1>3. CASE SkipRegion(t)
  <2>1. Onward
    BY <1>1, <1>3 DEF SkipRegion, Return, NoCall
  <2> QED BY <2>1, OnwardStep
<1>4. CASE Delay(t) \/ NoDelay(t)
  <2>1. Onward
    BY <1>1, <1>4 DEF Delay, NoDelay
  <2> QED BY <2>1, OnwardStep
<1>5. CASE FallAsleep(t) \/ Wake(t) \/ Awake(t)
  <2>1. Onward
    BY <1>1, <1>5 DEF FallAsleep, Wake, Awake
  <2> QED BY <2>1, OnwardStep
<1>6. ASSUME NEW l \in Locations, End(t, l) PROVE MissInv'
  <2>1. Onward
    BY <1>1, <1>6 DEF End, Close
  <2> QED BY <2>1, OnwardStep
<1>7. ASSUME NEW l \in Locations, NEW a \in Addrs, Flush(t, l, a) PROVE MissInv'
  <2>1. Onward
    BY <1>1, <1>7 DEF Flush, Close
  <2> QED BY <2>1, OnwardStep
<1> QED BY <1>2, <1>3, <1>4, <1>5, <1>6, <1>7 DEF ROther

(* Without PIFR_MINIMAL, an access that begins while a conflicting region  *)
(* of another thread stays open is reported with it before it opens its    *)
(* own, unless a region of its own id is open, in any interleaving of any  *)
(* number of threads, with or without delays and sampling.                 *)
THEOREM AccessesInOrderReported ==
  ASSUME ~minimal_regions PROVE RSpec => []NoMissedRace
<1>1. RInit => MissInv
  BY DEF RInit, Init, MissInv, OwedOpen, OverlapsComplete, NoMissedRace, InCall
<1>2. IInv /\ SoundInv /\ MissInv /\ [RNext]_rvars => MissInv'
  <2> SUFFICES ASSUME IInv, SoundInv, MissInv, [RNext]_rvars PROVE MissInv'
    OBVIOUS
  <2>1. CASE UNCHANGED rvars
    <3>1. Onward
      BY <2>1 DEF Onward, InCall, rvars, vars, ghosts
    <3> QED BY <3>1, OnwardStep
  <2>2. ASSUME NEW t \in Threads,
               NEW i \in Reads \cup Writes, NEW a \in Addrs, RStart(t, i, a)
        PROVE MissInv'
    BY <2>2, StartMiss
  <2>3. ASSUME NEW t \in Threads, RFind(t) PROVE MissInv'
    BY <2>3, FindMiss
  <2>4. ASSUME NEW t \in Threads, RPushBack(t) PROVE MissInv'
    <3>1. Onward
      BY <2>4 DEF IInv, Calls, Onward, InCall, RPushBack, PushBack, Return, NoCall, Goto
    <3> QED BY <3>1, OnwardStep
  <2>5. ASSUME NEW t \in Threads, RClose(t) PROVE MissInv'
    BY <2>5, CloseMiss
  <2>6. ASSUME NEW t \in Threads, ROther(t) PROVE MissInv'
    <3>1. UNCHANGED ghosts
      BY <2>6 DEF ROther
    <3> QED BY <2>6, <3>1, ReportMiss, OtherMiss
  <2> QED BY <2>1, <2>2, <2>3, <2>4, <2>5, <2>6 DEF RNext
<1>3. MissInv => NoMissedRace
  BY DEF MissInv
<1> QED BY <1>1, <1>2, <1>3, Invariance, SoundInvariance, PTL DEF RSpec

--------------------------------------------------------------------------
(* Induction over a set of numbers, and the last of one.                   *)

LEMMA LeastElement ==
  ASSUME NEW T, T \subseteq Nat, T # {}
  PROVE  \E n \in T : \A m \in T : n <= m
  <1> DEFINE less == {p \in Nat \X Nat : p[1] < p[2]}
  <1>1. IsWellFoundedOn(less, Nat)
    BY NatLessThanWellFounded DEF OpToRel
  <1>2. PICK n \in T : \A m \in T : <<m, n>> \notin less
    BY <1>1, WFMin
  <1>3. \A m \in T : ~(m < n)
    BY <1>2
  <1> QED
    BY <1>3

LEMMA UpFromZero ==
  ASSUME NEW T, 0 \in T, \A n \in Nat : n \in T => n + 1 \in T
  PROVE  \A n \in Nat : n \in T
  <1> SUFFICES ASSUME Nat \ T # {} PROVE FALSE
    OBVIOUS
  <1>1. PICK n \in Nat \ T : \A m \in Nat \ T : n <= m
    BY LeastElement
  <1>2. n - 1 \in Nat /\ n - 1 \in T
    BY <1>1
  <1> QED
    BY <1>1, <1>2

LEMMA LastOf ==
  ASSUME NEW N \in Nat, NEW set \in SUBSET (1 .. N), set # {}
  PROVE  Max(set) \in set /\ \A m \in set : m <= Max(set)
  <1> DEFINE T == {N - m : m \in set}
  <1>0. \A m \in set : m \in Nat /\ m <= N
    OBVIOUS
  <1>a. \A m \in set : N - m \in Nat
    BY <1>0
  <1>1. T \subseteq Nat /\ T # {}
    BY <1>a
  <1>2. PICK n \in T : \A m \in T : n <= m
    BY <1>1, LeastElement
  <1>3. PICK x \in set : n = N - x
    OBVIOUS
  <1>4. ASSUME NEW m \in set PROVE m <= x
    <2>1. n <= N - m
      BY <1>2
    <2> QED
      BY <1>0, <1>3, <2>1
  <1>5. \E y \in set : \A m \in set : y >= m
    BY <1>3, <1>4
  <1>6. Max(set) \in set /\ \A m \in set : Max(set) >= m
    BY <1>5 DEF Max
  <1> QED
    BY <1>6

(***************************************************************************)
(* The offline analysis.  First the mapping of a trace, line by line.      *)
(***************************************************************************)

NoRows == [res |-> <<>>, acquires |-> <<>>]

Map(lines) == FoldLeft(MapLine, NoRows, lines)

MapLast(lines, set, f) == MapLine(f[set \ {Max(set)}], lines[Max(set)])

Maps(lines, f) == f = [set \in SUBSET (DOMAIN lines) |-> IF set = {} THEN NoRows ELSE MapLast(lines, set, f)]

LEMMA MapSteps ==
  ASSUME NEW S, NEW lines \in Seq(S)
  PROVE  \E f : Maps(lines, f) /\ Map(lines) = f[DOMAIN lines]
  <1> DEFINE N == Len(lines)
             Def(f, m) == f = [set \in SUBSET (1 .. m) |-> IF set = {} THEN NoRows ELSE MapLast(lines, set, f)]
             T == {m \in Nat : \E f : Def(f, m)}
  <1>0. N \in Nat /\ DOMAIN lines = 1 .. N
    OBVIOUS
  <1>1. 0 \in T
    <2>1. PICK g : g = [set \in SUBSET (1 .. 0) |-> NoRows]
      OBVIOUS
    <2>2. \A set \in SUBSET (1 .. 0) : set = {}
      OBVIOUS
    <2>3. Def(g, 0)
      BY <2>1, <2>2
    <2> HIDE DEF Def
    <2> QED
      BY <2>3
  <1>2. ASSUME NEW m \in Nat, m \in T PROVE m + 1 \in T
    <2>1. PICK g : Def(g, m)
      BY <1>2
    <2> DEFINE h == [set \in SUBSET (1 .. m + 1) |-> IF set = {} THEN NoRows ELSE MapLast(lines, set, g)]
    <2>2. ASSUME NEW set \in SUBSET (1 .. m) PROVE g[set] = h[set]
      <3>1. set \in SUBSET (1 .. m + 1)
        OBVIOUS
      <3>2. g[set] = IF set = {} THEN NoRows ELSE MapLast(lines, set, g)
        BY <2>1
      <3>3. h[set] = IF set = {} THEN NoRows ELSE MapLast(lines, set, g)
        BY <3>1
      <3> HIDE DEF h, Def
      <3> QED
        BY <3>2, <3>3
    <2>3. ASSUME NEW set \in SUBSET (1 .. m + 1), set # {}
          PROVE  MapLast(lines, set, g) = MapLast(lines, set, h)
      <3> HIDE DEF h, Def, T
      <3>1. m + 1 \in Nat
        OBVIOUS
      <3>3. PICK x : x = Max(set)
        OBVIOUS
      <3>4. x \in set /\ \A n \in set : n <= x
        BY <2>3, <3>1, <3>3, LastOf
      <3>5. ASSUME NEW n \in set, n # x PROVE n \in 1 .. m
        <4>1. n \in 1 .. m + 1 /\ x \in 1 .. m + 1 /\ n <= x
          BY <3>4, <3>5
        <4> QED
          BY <3>5, <4>1
      <3>2. set \ {Max(set)} \in SUBSET (1 .. m)
        BY <3>3, <3>5
      <3>6. g[set \ {Max(set)}] = h[set \ {Max(set)}]
        BY <2>2, <3>2
      <3> QED
        BY <3>6 DEF MapLast
    <2>4. Def(h, m + 1)
      <3>1. h = [set \in SUBSET (1 .. m + 1) |-> IF set = {} THEN NoRows ELSE MapLast(lines, set, h)]
        <4> DEFINE k == [set \in SUBSET (1 .. m + 1) |-> IF set = {} THEN NoRows ELSE MapLast(lines, set, h)]
        <4>1. ASSUME NEW set \in SUBSET (1 .. m + 1) PROVE h[set] = k[set]
          <5>1. h[set] = IF set = {} THEN NoRows ELSE MapLast(lines, set, g)
            OBVIOUS
          <5>2. k[set] = IF set = {} THEN NoRows ELSE MapLast(lines, set, h)
            OBVIOUS
          <5> HIDE DEF h, k, Def
          <5> QED
            BY <2>3, <5>1, <5>2
        <4>2. h = [set \in SUBSET (1 .. m + 1) |-> h[set]] /\ k = [set \in SUBSET (1 .. m + 1) |-> k[set]]
          OBVIOUS
        <4>3. h = k
          <5> HIDE DEF h, k
          <5> QED
            BY <4>1, <4>2
        <4> QED
          BY <4>3
      <3> HIDE DEF h
      <3> QED
        BY <3>1
    <2> HIDE DEF Def, h
    <2> QED
      BY <2>4
  <1>3. N \in T
    <2> HIDE DEF T
    <2>1. \A m \in Nat : m \in T
      BY <1>1, <1>2, UpFromZero
    <2> QED
      BY <1>0, <2>1
  <1>4. \E f : Maps(lines, f)
    <2>1. PICK f : Def(f, N)
      BY <1>3
    <2>2. Maps(lines, f)
      BY <1>0, <2>1 DEF Maps
    <2> QED
      BY <2>2
  <1>5. Map(lines) = (CHOOSE f : Maps(lines, f))[DOMAIN lines]
    BY DEF Map, FoldLeft, MapThenFoldSet, Maps, MapLast
  <1> QED
    BY <1>4, <1>5

(* Line by line.                                                           *)
LEMMA MappedSoFar ==
  ASSUME NEW S, NEW lines \in Seq(S)
  PROVE  \E g : /\ g[0] = NoRows /\ g[Len(lines)] = Map(lines)
                /\ \A n \in 0 .. Len(lines) - 1 : g[n + 1] = MapLine(g[n], lines[n + 1])
  <1>1. PICK f : Maps(lines, f) /\ Map(lines) = f[DOMAIN lines]
    BY MapSteps
  <1>2. Len(lines) \in Nat /\ DOMAIN lines = 1 .. Len(lines)
    OBVIOUS
  <1> DEFINE N == Len(lines)
             g == [n \in 0 .. N |-> f[1 .. n]]
  <1>3. g[0] = NoRows
    <2>1. 1 .. 0 = {} /\ 0 \in 0 .. N
      BY <1>2
    <2>2. f[{}] = NoRows
      BY <1>1 DEF Maps
    <2> QED
      BY <2>1, <2>2
  <1>4. g[N] = Map(lines)
    BY <1>1, <1>2
  <1>5. ASSUME NEW n \in 0 .. N - 1 PROVE g[n + 1] = MapLine(g[n], lines[n + 1])
    <2>1. n \in Nat /\ n + 1 \in Nat /\ n \in 0 .. N /\ n + 1 \in 0 .. N /\ \A m \in 1 .. n + 1 : m \in 1 .. N
      BY <1>2
    <2>2. 1 .. n + 1 \in SUBSET (DOMAIN lines) /\ n + 1 \in 1 .. n + 1 /\ (1 .. n + 1) \ {n + 1} = 1 .. n
      BY <1>2, <2>1
    <2>3. Max(1 .. n + 1) = n + 1
      <3>1. Max(1 .. n + 1) \in 1 .. n + 1 /\ \A m \in 1 .. n + 1 : m <= Max(1 .. n + 1)
        BY <2>1, <2>2, LastOf
      <3> QED
        BY <2>1, <2>2, <3>1
    <2>4. f[1 .. n + 1] = MapLast(lines, 1 .. n + 1, f)
      BY <1>1, <2>2 DEF Maps
    <2>5. f[1 .. n + 1] = MapLine(f[1 .. n], lines[n + 1])
      BY <2>2, <2>3, <2>4 DEF MapLast
    <2> QED
      BY <2>1, <2>5
  <1> HIDE DEF g
  <1> QED
    BY <1>3, <1>4, <1>5


(* The lines of a trace, and where Opened and Closed lead.                 *)

Targets == Addrs \cup {0}
Ids     == Reads \cup Writes \cup {0}

TraceLines ==
  [type : {"ACQUIRE", "RELEASE", "FLUSH", "PM_WRITE", "PM_READ"}, thread : Threads, ip : Ids, target : Targets]

AcquireOf(j, t) == trace[j].type = "ACQUIRE" /\ trace[j].thread = t
ReleaseOf(j, t) == trace[j].type = "RELEASE" /\ trace[j].thread = t
AccessOf(j, t)  == trace[j].type \in {"PM_WRITE", "PM_READ"} /\ trace[j].thread = t

LEMMA OpenedByAcquire ==
  ASSUME trace \in Seq(TraceLines), NEW i \in DOMAIN trace, NEW j \in DOMAIN trace, j < i,
         NEW t, trace[i].thread = t, AcquireOf(j, t), \A k \in (j + 1) .. (i - 1) : ~AcquireOf(k, t)
  PROVE  Opened(i) = j
  <1> DEFINE acquires == {k \in OfThread(i) : k < i /\ trace[k].type = "ACQUIRE"}
  <1>0. DOMAIN trace \subseteq Nat
    BY SeqDef
  <1>1. j \in acquires
    BY DEF OfThread, AcquireOf
  <1>2. ASSUME NEW k \in acquires PROVE k <= j
    <2>1. k \in Nat /\ i \in Nat /\ j \in Nat /\ k < i /\ AcquireOf(k, t)
      BY <1>0 DEF OfThread, AcquireOf
    <2> QED
      BY <2>1
  <1>3. acquires \subseteq Nat
    BY <1>0 DEF OfThread
  <1> HIDE DEF acquires
  <1>4. (CHOOSE k \in acquires : \A m \in acquires : m <= k) = j
    <2> DEFINE c == CHOOSE k \in acquires : \A m \in acquires : m <= k
    <2>1. c \in acquires /\ \A m \in acquires : m <= c
      BY <1>1, <1>2
    <2> HIDE DEF c
    <2>2. c <= j /\ j <= c /\ c \in Nat /\ j \in Nat
      BY <1>1, <1>2, <1>3, <2>1
    <2>3. c = j
      BY <2>2
    <2> QED
      BY <2>3 DEF c
  <1> QED
    BY <1>1, <1>4 DEF Opened, acquires

LEMMA OpenedFirst ==
  ASSUME trace \in Seq(TraceLines), NEW i \in DOMAIN trace, NEW j \in DOMAIN trace, j <= i,
         NEW t, AccessOf(i, t), AccessOf(j, t),
         \A k \in 1 .. (i - 1) : ~AcquireOf(k, t), \A k \in 1 .. (j - 1) : ~AccessOf(k, t)
  PROVE  Opened(i) = j
  <1> DEFINE acquires == {k \in OfThread(i) : k < i /\ trace[k].type = "ACQUIRE"}
             own      == OfThread(i) \cap Accesses
  <1>0. DOMAIN trace \subseteq Nat \ {0}
    BY SeqDef
  <1>1. acquires = {}
    <2> SUFFICES ASSUME NEW k \in acquires PROVE FALSE
      OBVIOUS
    <2>1. k \in Nat \ {0} /\ i \in Nat \ {0} /\ k < i /\ AcquireOf(k, t)
      BY <1>0 DEF OfThread, AcquireOf, AccessOf
    <2> QED
      BY <2>1
  <1>2. j \in own
    BY DEF OfThread, Accesses, AccessOf
  <1>3. ASSUME NEW k \in own PROVE j <= k
    <2>1. k \in Nat \ {0} /\ j \in Nat \ {0} /\ AccessOf(k, t)
      BY <1>0 DEF OfThread, Accesses, AccessOf
    <2> QED
      BY <2>1
  <1>4. own \subseteq Nat
    BY <1>0 DEF OfThread
  <1> HIDE DEF own, acquires
  <1>5. (CHOOSE k \in own : \A m \in own : k <= m) = j
    <2> DEFINE c == CHOOSE k \in own : \A m \in own : k <= m
    <2>1. c \in own /\ \A m \in own : c <= m
      BY <1>2, <1>3
    <2> HIDE DEF c
    <2>2. c <= j /\ j <= c /\ c \in Nat /\ j \in Nat
      BY <1>2, <1>3, <1>4, <2>1
    <2>3. c = j
      BY <2>2
    <2> QED
      BY <2>3 DEF c
  <1> QED
    BY <1>1, <1>5 DEF Opened, own, acquires

LEMMA ClosedByRelease ==
  ASSUME trace \in Seq(TraceLines), NEW i \in DOMAIN trace, NEW t, trace[i].thread = t,
         Opened(i) \in Nat, NEW v \in DOMAIN trace, Opened(i) <= v
  PROVE  v < Closed(i) <=> \A r \in (Opened(i) + 1) .. v : ~ReleaseOf(r, t)
  <1> DEFINE o == Opened(i)
             releases == {j \in OfThread(i) : j > o /\ trace[j].type = "RELEASE"}
  <1>0. DOMAIN trace = 1 .. Len(trace) /\ Len(trace) \in Nat
    OBVIOUS
  <1>1. \A r : r \in releases <=> r \in DOMAIN trace /\ r > o /\ ReleaseOf(r, t)
    BY DEF OfThread, ReleaseOf
  <1>2. releases \subseteq Nat
    BY <1>0, <1>1
  <1>3. Closed(i) = IF releases = {} THEN Len(trace) + 1 ELSE CHOOSE j \in releases : \A k \in releases : j <= k
    BY DEF Closed
  <1>4. o \in Nat /\ v \in Nat /\ v <= Len(trace) /\ o <= v
    BY <1>0
  <1> HIDE DEF releases, o
  <1>5. CASE releases = {}
    <2>1. ASSUME NEW r \in (o + 1) .. v PROVE ~ReleaseOf(r, t)
      <3>1. r \in DOMAIN trace /\ r > o
        BY <1>0, <1>4
      <3> QED
        BY <1>1, <1>5, <3>1
    <2>2. v < Closed(i)
      BY <1>3, <1>4, <1>5, <1>0
    <2> QED
      BY <2>1, <2>2 DEF o
  <1>6. CASE releases # {}
    <2> DEFINE c == CHOOSE j \in releases : \A k \in releases : j <= k
    <2>1. c \in releases /\ \A k \in releases : c <= k
      BY <1>2, <1>6, LeastElement
    <2>2. Closed(i) = c
      BY <1>3, <1>6
    <2> HIDE DEF c
    <2>3. c \in DOMAIN trace /\ c \in Nat /\ c > o /\ ReleaseOf(c, t)
      BY <1>1, <1>2, <2>1
    <2>4. ASSUME v < c, NEW r \in (o + 1) .. v, ReleaseOf(r, t) PROVE FALSE
      <3>1. r \in DOMAIN trace /\ r > o /\ r < c /\ r \in Nat
        BY <1>0, <1>4, <2>3, <2>4
      <3> QED
        BY <1>1, <2>1, <2>3, <2>4, <3>1
    <2>5. ASSUME ~(v < c) PROVE c \in (o + 1) .. v
      BY <1>4, <2>3, <2>5
    <2> QED
      BY <2>2, <2>3, <2>4, <2>5 DEF o
  <1> QED
    BY <1>5, <1>6

(* The mapped trace.  A row stands for a mapped line: the line of the      *)
(* trace it was made of, and the accesses that were moved there.           *)

Pifrs == [pifr_id : Ids, mem_addr : Targets, tid : Threads, is_write : BOOLEAN, dirty : {FALSE}]

MappedLines ==
  {l \in [type : {"ACQUIRE", "RELEASE", "FLUSH"}, thread : Threads, target : Targets, pifrs : Seq(Pifrs)] :
     /\ l.type # "ACQUIRE" => l.pifrs = <<>>
     /\ \A x \in 1 .. Len(l.pifrs) : l.pifrs[x].tid = l.thread}

Rows == [head : Nat, members : Seq(Nat)]

Stands(row, l) ==
  /\ l.thread = trace[row.head].thread
  /\ l.type = IF trace[row.head].type \in {"PM_WRITE", "PM_READ"} THEN "ACQUIRE" ELSE trace[row.head].type
  /\ Len(l.pifrs) = Len(row.members)
  /\ \A x \in 1 .. Len(row.members) :
       /\ AccessOf(row.members[x], l.thread)
       /\ Opened(row.members[x]) = row.head
       /\ l.pifrs[x] = BuildRegion(trace[row.members[x]])

\* The rows of the first n lines, in their order, and in each the accesses among the first c.
Ordered(n, c, rows) ==
  /\ \A k \in 1 .. Len(rows) : rows[k].head \in 1 .. n
  /\ \A k, l \in 1 .. Len(rows) : k < l => rows[k].head < rows[l].head
  /\ \A k \in 1 .. Len(rows) : \A x \in 1 .. Len(rows[k].members) : rows[k].members[x] \in 1 .. c
  /\ \A k \in 1 .. Len(rows) : \A x, y \in 1 .. Len(rows[k].members) :
       x < y => rows[k].members[x] < rows[k].members[y]

Complete(n, c, rows) ==
  /\ \A i \in 1 .. c : trace[i].type \in {"PM_WRITE", "PM_READ"} =>
       \E k \in 1 .. Len(rows) : \E x \in 1 .. Len(rows[k].members) : rows[k].members[x] = i
  /\ \A r \in 1 .. n : trace[r].type = "RELEASE" => \E k \in 1 .. Len(rows) : rows[k].head = r

\* Where the next access of a thread goes.
NextRow(n, c, rows, acquires, t) ==
  /\ t \in DOMAIN acquires <=> \E j \in 1 .. n : AcquireOf(j, t) \/ AccessOf(j, t)
  /\ t \in DOMAIN acquires =>
       /\ acquires[t] \in 1 .. Len(rows)
       /\ AcquireOf(rows[acquires[t]].head, t) \/ AccessOf(rows[acquires[t]].head, t)
       /\ \A i \in DOMAIN trace :
            i > c /\ AccessOf(i, t) /\ (\A k \in (n + 1) .. (i - 1) : ~AcquireOf(k, t)) =>
              Opened(i) = rows[acquires[t]].head

IsMapping(m) == DOMAIN m = {"res", "acquires"} /\ m.res \in Seq(MappedLines)

Upto(n, c, rows, m) ==
  /\ IsMapping(m)
  /\ rows \in Seq(Rows) /\ Len(rows) = Len(m.res)
  /\ \A k \in 1 .. Len(rows) : Stands(rows[k], m.res[k])
  /\ Ordered(n, c, rows)
  /\ Complete(n, c, rows)
  /\ \A t \in Threads : NextRow(n, c, rows, m.acquires, t)

LEMMA Appended ==
  ASSUME NEW S, NEW s \in Seq(S), NEW e \in S
  PROVE  /\ Append(s, e) \in Seq(S) /\ Len(Append(s, e)) = Len(s) + 1 /\ Len(s) \in Nat
         /\ \A k \in 1 .. Len(s) : Append(s, e)[k] = s[k] /\ k \in 1 .. Len(s) + 1
         /\ Append(s, e)[Len(s) + 1] = e
         /\ Len(s) + 1 \in 1 .. Len(s) + 1
         /\ \A k \in 1 .. Len(s) + 1 : k \in 1 .. Len(s) \/ k = Len(s) + 1
  OBVIOUS

(* A line that is no access has a row, or the first access of a thread.    *)
LEMMA NewRow ==
  ASSUME trace \in Seq(TraceLines), NEW n \in 0 .. Len(trace) - 1, NEW rows, NEW m, Upto(n, n, rows, m),
         NEW type, type = IF trace[n + 1].type \in {"PM_WRITE", "PM_READ"} THEN "ACQUIRE" ELSE trace[n + 1].type,
         NEW u, IsMapping(u), u.res = Append(m.res, Mapped(type, trace[n + 1])),
         u.acquires = IF type = "ACQUIRE" THEN Put(m.acquires, trace[n + 1].thread, Len(m.res) + 1) ELSE m.acquires,
         trace[n + 1].type \in {"PM_WRITE", "PM_READ"} => trace[n + 1].thread \notin DOMAIN m.acquires
  PROVE  \E more : Upto(n + 1, n, more, u)
  <1> DEFINE l   == trace[n + 1]
             row == [head |-> n + 1, members |-> <<>>]
  <1>p. PICK more, N : more = Append(rows, row) /\ N = Len(rows)
    OBVIOUS
  <1>0. /\ n \in Nat /\ n + 1 \in DOMAIN trace /\ l \in TraceLines /\ DOMAIN trace = 1 .. Len(trace) /\ Len(trace) \in Nat
        /\ n + 1 \in 1 .. n + 1 /\ \A j \in 1 .. n : j \in 1 .. n + 1 /\ j < n + 1 /\ j \in Nat
        /\ \A j \in 1 .. n + 1 : j \in 1 .. n \/ j = n + 1
    <2>1. n \in Nat /\ n + 1 \in 1 .. Len(trace) /\ Len(trace) \in Nat /\ DOMAIN trace = 1 .. Len(trace)
      OBVIOUS
    <2>2. l \in TraceLines
      BY <2>1
    <2> QED
      BY <2>1, <2>2
  <1>1. rows \in Seq(Rows) /\ row \in Rows /\ N = Len(m.res) /\ N \in Nat /\ m.res \in Seq(MappedLines)
    BY <1>0, <1>p DEF Upto, Rows, IsMapping
  <1>2. /\ more \in Seq(Rows) /\ Len(more) = N + 1
        /\ \A k \in 1 .. N : more[k] = rows[k] /\ k \in 1 .. N + 1
        /\ more[N + 1] = row /\ N + 1 \in 1 .. N + 1
        /\ \A k \in 1 .. N + 1 : k \in 1 .. N \/ k = N + 1
    BY <1>1, <1>p, Appended
  <1>3. PICK new : new = Mapped(type, l)
    OBVIOUS
  <1>4. new \in MappedLines /\ new.thread = l.thread /\ new.type = type /\ new.pifrs = <<>>
    BY <1>0, <1>3 DEF Mapped, MappedLines, TraceLines
  <1>5. Len(u.res) = N + 1 /\ (\A k \in 1 .. N : u.res[k] = m.res[k]) /\ u.res[N + 1] = new
    BY <1>1, <1>3, <1>4, Appended
  <1> HIDE DEF l, row
  <1>r. row.head = n + 1 /\ row.members = <<>>
    BY DEF row
  <1>6. ASSUME NEW k \in 1 .. N + 1 PROVE Stands(more[k], u.res[k])
    <2>1. CASE k \in 1 .. N
      BY <1>1, <1>2, <1>5, <1>p, <2>1 DEF Upto
    <2>2. CASE k = N + 1
      <3>1. Stands(row, new)
        BY <1>4, <1>r DEF Stands, l
      <3> QED
        BY <1>2, <1>5, <2>2, <3>1
    <2> QED
      BY <1>2, <2>1, <2>2
  <1>7. Ordered(n + 1, n, more)
    <2>0. Ordered(n, n, rows)
      BY DEF Upto
    <2>1. \A k \in 1 .. N + 1 : more[k].head \in 1 .. n + 1
      BY <1>0, <1>2, <1>p, <1>r, <2>0 DEF Ordered
    <2>2. ASSUME NEW k \in 1 .. N + 1, NEW j \in 1 .. N + 1, k < j PROVE more[k].head < more[j].head
      <3>1. k \in 1 .. N
        BY <1>1, <2>2
      <3>2. CASE j \in 1 .. N
        BY <1>2, <1>p, <2>0, <2>2, <3>1, <3>2 DEF Ordered
      <3>3. CASE j = N + 1
        BY <1>0, <1>2, <1>p, <1>r, <2>0, <3>1, <3>3 DEF Ordered
      <3> QED
        BY <1>2, <3>2, <3>3
    <2>3. \A k \in 1 .. N + 1 : k \in 1 .. N \/ (Len(more[k].members) = 0 /\ 1 .. 0 = {})
      BY <1>2, <1>r
    <2>4. \A k \in 1 .. N + 1 : \A x \in 1 .. Len(more[k].members) : more[k].members[x] \in 1 .. n
      BY <1>2, <1>p, <2>0, <2>3 DEF Ordered
    <2>5. \A k \in 1 .. N + 1 : \A x, y \in 1 .. Len(more[k].members) : x < y => more[k].members[x] < more[k].members[y]
      BY <1>2, <1>p, <2>0, <2>3 DEF Ordered
    <2> QED
      BY <1>2, <2>1, <2>2, <2>4, <2>5 DEF Ordered
  <1>8. Complete(n + 1, n, more)
    <2>0. Complete(n, n, rows)
      BY DEF Upto
    <2>1. ASSUME NEW i \in 1 .. n, trace[i].type \in {"PM_WRITE", "PM_READ"}
          PROVE  \E k \in 1 .. N + 1 : \E x \in 1 .. Len(more[k].members) : more[k].members[x] = i
      <3>1. PICK k \in 1 .. N : \E x \in 1 .. Len(rows[k].members) : rows[k].members[x] = i
        BY <1>p, <2>0, <2>1 DEF Complete
      <3> QED
        BY <1>2, <3>1
    <2>2. ASSUME NEW r \in 1 .. n + 1, trace[r].type = "RELEASE" PROVE \E k \in 1 .. N + 1 : more[k].head = r
      <3>1. CASE r \in 1 .. n
        <4>1. PICK k \in 1 .. N : rows[k].head = r
          BY <1>p, <2>0, <2>2, <3>1 DEF Complete
        <4> QED
          BY <1>2, <4>1
      <3>2. CASE r = n + 1
        BY <1>2, <1>r, <3>2
      <3> QED
        BY <1>0, <3>1, <3>2
    <2> QED
      BY <1>2, <2>1, <2>2 DEF Complete
  <1>9. ASSUME NEW t \in Threads PROVE NextRow(n + 1, n, more, u.acquires, t)
    <2>0. NextRow(n, n, rows, m.acquires, t)
      BY DEF Upto
    <2>1. CASE type = "ACQUIRE" /\ t = l.thread
      <3>1. t \in DOMAIN u.acquires /\ u.acquires[t] = N + 1
        BY <1>1, <2>1 DEF Put, l
      <3>2. AcquireOf(n + 1, t) \/ AccessOf(n + 1, t)
        BY <1>0, <2>1 DEF AcquireOf, AccessOf, l, TraceLines
      <3>3. ASSUME NEW i \in DOMAIN trace, i > n, AccessOf(i, t), \A k \in (n + 2) .. (i - 1) : ~AcquireOf(k, t)
            PROVE  Opened(i) = n + 1
        <4>0. i \in Nat /\ n + 1 <= i /\ (n + 1) + 1 = n + 2
          BY <1>0, <3>3
        <4>1. CASE AcquireOf(n + 1, t)
          <5>1. i # n + 1
            BY <3>3, <4>1 DEF AcquireOf, AccessOf
          <5>2. n + 1 < i /\ \A k \in (n + 1) + 1 .. (i - 1) : ~AcquireOf(k, t)
            BY <1>0, <3>3, <4>0, <5>1
          <5> QED
            BY <1>0, <3>3, <4>1, <5>2, OpenedByAcquire DEF AccessOf
        <4>2. CASE AccessOf(n + 1, t)
          <5>1. t \notin DOMAIN m.acquires
            BY <2>1, <4>2 DEF AccessOf, l
          <5>2. \A j \in 1 .. n : ~AcquireOf(j, t) /\ ~AccessOf(j, t)
            BY <2>0, <5>1 DEF NextRow
          <5>3. ~AcquireOf(n + 1, t)
            BY <4>2 DEF AcquireOf, AccessOf
          <5>4. \A k \in 1 .. (i - 1) : ~AcquireOf(k, t)
            <6>1. \A k \in 1 .. (i - 1) : k \in 1 .. n \/ k = n + 1 \/ k \in (n + 2) .. (i - 1)
              BY <1>0, <4>0
            <6> QED
              BY <3>3, <5>2, <5>3, <6>1
          <5>5. \A k \in 1 .. (n + 1) - 1 : ~AccessOf(k, t)
            BY <1>0, <5>2
          <5> QED
            BY <1>0, <3>3, <4>0, <4>2, <5>4, <5>5, OpenedFirst
        <4> QED
          BY <3>2, <4>1, <4>2
      <3> QED
        <4>1. (n + 1) + 1 = n + 2
          BY <1>0
        <4> QED
          BY <1>0, <1>2, <1>r, <3>1, <3>2, <3>3, <4>1 DEF NextRow
    <2>2. CASE ~(type = "ACQUIRE" /\ t = l.thread)
      <3>1. (t \in DOMAIN u.acquires <=> t \in DOMAIN m.acquires) /\ (t \in DOMAIN m.acquires => u.acquires[t] = m.acquires[t])
        BY <2>2 DEF Put, l
      <3>2. ~AcquireOf(n + 1, t) /\ ~AccessOf(n + 1, t)
        BY <2>2 DEF AcquireOf, AccessOf, l
      <3>3. (\E j \in 1 .. n + 1 : AcquireOf(j, t) \/ AccessOf(j, t)) <=> (\E j \in 1 .. n : AcquireOf(j, t) \/ AccessOf(j, t))
        BY <1>0, <3>2
      <3>4. ASSUME t \in DOMAIN m.acquires PROVE m.acquires[t] \in 1 .. N /\ more[m.acquires[t]] = rows[m.acquires[t]]
        BY <1>2, <1>p, <2>0, <3>4 DEF NextRow
      <3>5. ASSUME NEW i \in DOMAIN trace, \A k \in (n + 1) + 1 .. (i - 1) : ~AcquireOf(k, t)
            PROVE  \A k \in n + 1 .. (i - 1) : ~AcquireOf(k, t)
        <4>1. \A k \in n + 1 .. (i - 1) : k = n + 1 \/ k \in (n + 1) + 1 .. (i - 1)
          BY <1>0
        <4> QED
          BY <3>2, <3>5, <4>1
      <3> QED
        BY <1>2, <1>p, <2>0, <3>1, <3>3, <3>4, <3>5 DEF NextRow
    <2> QED
      BY <2>1, <2>2
  <1>10. Upto(n + 1, n, more, u)
    BY <1>2, <1>5, <1>6, <1>7, <1>8, <1>9 DEF Upto
  <1> QED
    BY <1>10

LEMMA Replaced ==
  ASSUME NEW S, NEW s \in Seq(S), NEW k \in 1 .. Len(s), NEW e \in S, NEW r, r = [s EXCEPT ![k] = e]
  PROVE  /\ r \in Seq(S) /\ Len(r) = Len(s) /\ r[k] = e
         /\ \A j \in 1 .. Len(s) : j # k => r[j] = s[j]
  OBVIOUS

(* A line that is no access moves none, and an access of a thread that     *)
(* acquired or accessed before makes no row.                               *)
LEMMA NoAccess ==
  ASSUME NEW n \in Nat, NEW rows, NEW m, Upto(n + 1, n, rows, m), n + 1 \in DOMAIN trace, trace \in Seq(TraceLines),
         trace[n + 1].type \notin {"PM_WRITE", "PM_READ"}
  PROVE  Upto(n + 1, n + 1, rows, m)
  <1>0. /\ \A j \in 1 .. n : j \in 1 .. n + 1
        /\ \A j \in 1 .. n + 1 : j \in 1 .. n \/ j = n + 1
        /\ \A i \in DOMAIN trace : i > n + 1 => i > n
    <2>1. DOMAIN trace = 1 .. Len(trace)
      OBVIOUS
    <2> QED
      BY <2>1
  <1>1. Ordered(n + 1, n + 1, rows)
    BY <1>0 DEF Upto, Ordered
  <1>2. Complete(n + 1, n + 1, rows)
    BY <1>0 DEF Upto, Complete
  <1>3. \A t \in Threads : NextRow(n + 1, n + 1, rows, m.acquires, t)
    BY <1>0 DEF Upto, NextRow
  <1> QED
    BY <1>1, <1>2, <1>3 DEF Upto

LEMMA KnownAccess ==
  ASSUME trace \in Seq(TraceLines), NEW n \in 0 .. Len(trace) - 1, NEW rows, NEW m, Upto(n, n, rows, m),
         trace[n + 1].type \in {"PM_WRITE", "PM_READ"}, trace[n + 1].thread \in DOMAIN m.acquires
  PROVE  Upto(n + 1, n, rows, m)
  <1>0. /\ \A j \in 1 .. n : j \in 1 .. n + 1
        /\ \A j \in 1 .. n + 1 : j \in 1 .. n \/ j = n + 1
        /\ n \in Nat
    OBVIOUS
  <1>1. Ordered(n + 1, n, rows)
    BY <1>0 DEF Upto, Ordered
  <1>2. Complete(n + 1, n, rows)
    BY <1>0 DEF Upto, Complete
  <1>3. ASSUME NEW t \in Threads PROVE NextRow(n + 1, n, rows, m.acquires, t)
    <2>0. NextRow(n, n, rows, m.acquires, t)
      BY DEF Upto
    <2>1. ~AcquireOf(n + 1, t) /\ (AccessOf(n + 1, t) => t \in DOMAIN m.acquires)
      BY DEF AcquireOf, AccessOf
    <2>2. t \in DOMAIN m.acquires <=> \E j \in 1 .. n + 1 : AcquireOf(j, t) \/ AccessOf(j, t)
      BY <1>0, <2>0, <2>1 DEF NextRow
    <2>3. ASSUME NEW i \in DOMAIN trace, \A k \in (n + 1) + 1 .. (i - 1) : ~AcquireOf(k, t)
          PROVE  \A k \in n + 1 .. (i - 1) : ~AcquireOf(k, t)
      <3>1. \A k \in n + 1 .. (i - 1) : k = n + 1 \/ k \in (n + 1) + 1 .. (i - 1)
        BY <1>0
      <3> QED
        BY <2>1, <2>3, <3>1
    <2> QED
      BY <2>0, <2>2, <2>3 DEF NextRow
  <1> QED
    BY <1>1, <1>2, <1>3 DEF Upto

(* The access is moved to the row of its thread.                           *)
LEMMA AccessPlaced ==
  ASSUME trace \in Seq(TraceLines), NEW n \in 0 .. Len(trace) - 1, NEW rows, NEW m, Upto(n + 1, n, rows, m),
         NEW t \in Threads, AccessOf(n + 1, t),
         NEW u, IsMapping(m), u = [m EXCEPT !.res[m.acquires[t]].pifrs = Append(@, BuildRegion(trace[n + 1]))]
  PROVE  \E more : Upto(n + 1, n + 1, more, u)
  <1>0. /\ n \in Nat /\ n + 1 \in DOMAIN trace /\ trace[n + 1] \in TraceLines /\ n + 1 > n
        /\ n + 1 \in 1 .. n + 1 /\ \A j \in 1 .. n : j \in 1 .. n + 1 /\ j < n + 1 /\ j \in Nat
        /\ \A j \in 1 .. n + 1 : j \in 1 .. n \/ j = n + 1
        /\ \A j : ~(j \in (n + 1) + 1 .. ((n + 1) - 1))
        /\ \A i \in DOMAIN trace : i > n + 1 => i > n
    <2>1. n \in Nat /\ n + 1 \in 1 .. Len(trace) /\ Len(trace) \in Nat /\ DOMAIN trace = 1 .. Len(trace)
      OBVIOUS
    <2>2. trace[n + 1] \in TraceLines
      BY <2>1
    <2> QED
      BY <2>1, <2>2
  <1>1. PICK k, N, res, R : k = m.acquires[t] /\ N = Len(rows) /\ res = m.res /\ R = BuildRegion(trace[n + 1])
    OBVIOUS
  <1>2. N \in Nat /\ N = Len(res) /\ res \in Seq(MappedLines) /\ rows \in Seq(Rows)
    BY <1>1 DEF Upto, IsMapping
  <1>3. k \in 1 .. N /\ Opened(n + 1) = rows[k].head /\ (AcquireOf(rows[k].head, t) \/ AccessOf(rows[k].head, t))
    <2>1. NextRow(n + 1, n, rows, m.acquires, t)
      BY DEF Upto
    <2>2. t \in DOMAIN m.acquires
      BY <1>0, <2>1 DEF NextRow
    <2> QED
      BY <1>0, <1>1, <2>1, <2>2 DEF NextRow
  <1>4. rows[k] \in Rows /\ res[k] \in MappedLines /\ Stands(rows[k], res[k])
    BY <1>1, <1>2, <1>3 DEF Upto
  <1>5. res[k].thread = t /\ res[k].type = "ACQUIRE"
    BY <1>3, <1>4 DEF Stands, AcquireOf, AccessOf
  <1>6. R \in Pifrs /\ R.tid = t
    BY <1>0, <1>1 DEF BuildRegion, Pifrs, TraceLines, AccessOf
  <1>7. PICK new, row : /\ new = [res[k] EXCEPT !.pifrs = Append(@, R)]
                        /\ row = [rows[k] EXCEPT !.members = Append(@, n + 1)]
    OBVIOUS
  <1>8. PICK q, s : q = res[k].pifrs /\ s = rows[k].members
    OBVIOUS
  <1>9. q \in Seq(Pifrs) /\ s \in Seq(Nat) /\ Len(q) = Len(s) /\ n + 1 \in Nat /\ Len(s) \in Nat
    BY <1>0, <1>4, <1>8 DEF Rows, MappedLines, Stands
  <1>10. PICK q2, s2 : q2 = Append(q, R) /\ s2 = Append(s, n + 1)
    OBVIOUS
  <1>11. /\ q2 \in Seq(Pifrs) /\ s2 \in Seq(Nat) /\ Len(q2) = Len(s) + 1 /\ Len(s2) = Len(s) + 1
         /\ \A x \in 1 .. Len(s) : q2[x] = q[x] /\ s2[x] = s[x] /\ x \in 1 .. Len(s) + 1
         /\ q2[Len(s) + 1] = R /\ s2[Len(s) + 1] = n + 1
         /\ Len(s) + 1 \in 1 .. Len(s) + 1
         /\ \A x \in 1 .. Len(s) + 1 : x \in 1 .. Len(s) \/ x = Len(s) + 1
    BY <1>6, <1>9, <1>10, Appended
  <1>12. row \in Rows /\ row.head = rows[k].head /\ row.members = s2
    BY <1>4, <1>7, <1>8, <1>10, <1>11 DEF Rows
  <1>13. new.thread = t /\ new.type = "ACQUIRE" /\ new.pifrs = q2 /\ new.target = res[k].target
         /\ new = [type |-> "ACQUIRE", thread |-> t, target |-> res[k].target, pifrs |-> q2]
    BY <1>4, <1>5, <1>7, <1>8, <1>10 DEF MappedLines
  <1>14. new \in MappedLines
    <2>1. \A x \in 1 .. Len(q) : q[x].tid = t
      BY <1>4, <1>5, <1>8 DEF MappedLines
    <2>2. \A x \in 1 .. Len(q2) : q2[x].tid = t
      BY <1>6, <1>9, <1>11, <2>1
    <2>3. res[k].target \in Targets
      BY <1>4 DEF MappedLines
    <2> QED
      BY <1>11, <1>13, <2>2, <2>3 DEF MappedLines
  <1>15. Stands(row, new)
    <2>1. \A x \in 1 .. Len(s) : AccessOf(s[x], t) /\ Opened(s[x]) = row.head /\ q[x] = BuildRegion(trace[s[x]])
      BY <1>4, <1>5, <1>8, <1>12 DEF Stands
    <2>2. \A x \in 1 .. Len(s2) : AccessOf(s2[x], t) /\ Opened(s2[x]) = row.head /\ q2[x] = BuildRegion(trace[s2[x]])
      BY <1>1, <1>3, <1>9, <1>11, <1>12, <2>1
    <2> QED
      BY <1>3, <1>11, <1>12, <1>13, <2>2 DEF Stands, AcquireOf, AccessOf
  <1>16. PICK more, out : more = [rows EXCEPT ![k] = row] /\ out = [res EXCEPT ![k] = new]
    OBVIOUS
  <1>17. /\ more \in Seq(Rows) /\ Len(more) = N /\ more[k] = row
         /\ \A j \in 1 .. N : j # k => more[j] = rows[j]
         /\ \A j \in 1 .. N : more[j].head = rows[j].head
    <2>1. k \in 1 .. Len(rows)
      BY <1>1, <1>3
    <2>a. rows \in Seq(Rows) /\ row \in Rows /\ Len(rows) = N
      BY <1>1, <1>2, <1>12
    <2>b. more = [rows EXCEPT ![k] = row]
      BY <1>16
    <2>c. /\ more \in Seq(Rows) /\ Len(more) = Len(rows) /\ more[k] = row
          /\ \A j \in 1 .. Len(rows) : j # k => more[j] = rows[j]
      BY <2>1, <2>a, <2>b, Replaced
    <2>2. more \in Seq(Rows) /\ Len(more) = N /\ more[k] = row /\ \A j \in 1 .. N : j # k => more[j] = rows[j]
      BY <2>a, <2>c
    <2>3. \A j \in 1 .. N : more[j].head = rows[j].head
      BY <1>12, <2>2
    <2> QED
      BY <2>2, <2>3
  <1>18. out \in Seq(MappedLines) /\ Len(out) = N /\ out[k] = new /\ \A j \in 1 .. N : j # k => out[j] = res[j]
    BY <1>2, <1>3, <1>14, <1>16
  <1>19. IsMapping(u) /\ u.res = out /\ u.acquires = m.acquires
    <2>1. u = [m EXCEPT !.res = out]
      BY <1>1, <1>7, <1>16 DEF IsMapping
    <2> QED
      BY <1>18, <2>1 DEF IsMapping
  <1>20. Ordered(n + 1, n, rows) /\ Complete(n + 1, n, rows)
    BY DEF Upto
  <1>21. Ordered(n + 1, n + 1, more)
    <2>1. \A x \in 1 .. Len(s2) : s2[x] \in 1 .. n + 1
      BY <1>0, <1>1, <1>3, <1>8, <1>11, <1>20 DEF Ordered
    <2>2. ASSUME NEW x \in 1 .. Len(s2), NEW y \in 1 .. Len(s2), x < y PROVE s2[x] < s2[y]
      <3>1. x \in 1 .. Len(s)
        BY <1>9, <1>11, <2>2
      <3>2. CASE y \in 1 .. Len(s)
        BY <1>1, <1>3, <1>8, <1>11, <1>20, <2>2, <3>1, <3>2 DEF Ordered
      <3>3. CASE y = Len(s) + 1
        <4>1. s[x] \in 1 .. n
          BY <1>1, <1>3, <1>8, <1>20, <3>1 DEF Ordered
        <4> QED
          BY <1>0, <1>11, <3>1, <3>3, <4>1
      <3> QED
        BY <1>11, <3>2, <3>3
    <2>3. \A j \in 1 .. N : \A x \in 1 .. Len(more[j].members) : more[j].members[x] \in 1 .. n + 1
      BY <1>0, <1>1, <1>12, <1>17, <1>20, <2>1 DEF Ordered
    <2>4. \A j \in 1 .. N : \A x, y \in 1 .. Len(more[j].members) : x < y => more[j].members[x] < more[j].members[y]
      BY <1>1, <1>12, <1>17, <1>20, <2>2 DEF Ordered
    <2> QED
      BY <1>1, <1>17, <1>20, <2>3, <2>4 DEF Ordered
  <1>22. Complete(n + 1, n + 1, more)
    <2>1. ASSUME NEW i \in 1 .. n + 1, trace[i].type \in {"PM_WRITE", "PM_READ"}
          PROVE  \E j \in 1 .. N : \E x \in 1 .. Len(more[j].members) : more[j].members[x] = i
      <3>1. CASE i = n + 1
        BY <1>3, <1>11, <1>12, <1>17, <3>1
      <3>2. CASE i \in 1 .. n
        <4>1. PICK j \in 1 .. N : \E x \in 1 .. Len(rows[j].members) : rows[j].members[x] = i
          BY <1>1, <1>20, <2>1, <3>2 DEF Complete
        <4>2. PICK x \in 1 .. Len(rows[j].members) : rows[j].members[x] = i
          BY <4>1
        <4>3. CASE j = k
          <5>1. x \in 1 .. Len(s2) /\ s2[x] = i
            BY <1>8, <1>11, <4>2, <4>3
          <5> QED
            BY <1>3, <1>12, <1>17, <5>1
        <4>4. CASE j # k
          BY <1>17, <4>1, <4>4
        <4> QED
          BY <4>3, <4>4
      <3> QED
        BY <1>0, <3>1, <3>2
    <2> QED
      BY <1>1, <1>17, <1>20, <2>1 DEF Complete
  <1>23. ASSUME NEW v \in Threads PROVE NextRow(n + 1, n + 1, more, u.acquires, v)
    <2>1. NextRow(n + 1, n, rows, m.acquires, v)
      BY DEF Upto
    <2>2. v \in DOMAIN m.acquires => m.acquires[v] \in 1 .. N /\ more[m.acquires[v]].head = rows[m.acquires[v]].head
      BY <1>1, <1>17, <2>1 DEF NextRow
    <2> QED
      BY <1>0, <1>1, <1>17, <1>19, <2>1, <2>2 DEF NextRow
  <1>24. \A j \in 1 .. N : Stands(more[j], out[j])
    BY <1>1, <1>15, <1>17, <1>18 DEF Upto
  <1>25. Upto(n + 1, n + 1, more, u)
    BY <1>17, <1>18, <1>19, <1>21, <1>22, <1>23, <1>24 DEF Upto
  <1> QED
    BY <1>25

(* One line of the trace, and all of them.                                 *)
LEMMA LineMapped ==
  ASSUME trace \in Seq(TraceLines), NEW n \in 0 .. Len(trace) - 1, NEW rows, NEW m, Upto(n, n, rows, m)
  PROVE  \E more : Upto(n + 1, n + 1, more, MapLine(m, trace[n + 1]))
  <1> DEFINE l       == trace[n + 1]
             known   == l.thread \in DOMAIN m.acquires
             added   == [m EXCEPT !.res = Append(@, Mapped(l.type, l))]
             acquire == [res |-> Append(m.res, Mapped("ACQUIRE", l)), acquires |-> Put(m.acquires, l.thread, Len(m.res) + 1)]
             place   == IF known THEN m ELSE acquire
  <1>0. n \in Nat /\ n + 1 \in DOMAIN trace /\ l \in TraceLines
    <2>1. n \in Nat /\ n + 1 \in 1 .. Len(trace) /\ DOMAIN trace = 1 .. Len(trace)
      OBVIOUS
    <2>2. l \in TraceLines
      BY <2>1
    <2> QED
      BY <2>1, <2>2
  <1>1. IsMapping(m)
    BY DEF Upto
  <1>2. ASSUME NEW type \in {"ACQUIRE", "RELEASE", "FLUSH"} PROVE Append(m.res, Mapped(type, l)) \in Seq(MappedLines)
    <2>1. Mapped(type, l) \in MappedLines
      BY <1>0 DEF Mapped, MappedLines, TraceLines
    <2> QED
      BY <1>1, <2>1 DEF IsMapping
  <1>3. IsMapping(acquire)
    BY <1>2 DEF IsMapping
  <1>4. MapLine(m, l) = CASE l.type = "ACQUIRE" -> acquire
                          [] l.type \in {"FLUSH", "RELEASE"} -> added
                          [] OTHER -> [place EXCEPT !.res[place.acquires[l.thread]].pifrs = Append(@, BuildRegion(l))]
    BY DEF MapLine
  <1>5. CASE l.type = "ACQUIRE"
    <2>1. PICK more : Upto(n + 1, n, more, acquire)
      BY <1>1, <1>3, <1>5, NewRow
    <2>2. Upto(n + 1, n + 1, more, acquire)
      BY <1>0, <1>5, <2>1, NoAccess
    <2> QED
      BY <1>4, <1>5, <2>2
  <1>6. CASE l.type \in {"FLUSH", "RELEASE"}
    <2>1. IsMapping(added) /\ added.res = Append(m.res, Mapped(l.type, l)) /\ added.acquires = m.acquires
      BY <1>1, <1>2, <1>6 DEF IsMapping
    <2>2. l.type # "ACQUIRE" /\ l.type \notin {"PM_WRITE", "PM_READ"}
      BY <1>6
    <2> HIDE DEF added
    <2>3. PICK more : Upto(n + 1, n, more, added)
      BY <2>1, <2>2, NewRow
    <2>4. Upto(n + 1, n + 1, more, added)
      BY <1>0, <2>2, <2>3, NoAccess
    <2>5. MapLine(m, l) = added
      BY <1>4, <1>6, <2>2
    <2> QED
      BY <2>4, <2>5
  <1>7. CASE l.type \in {"PM_WRITE", "PM_READ"}
    <2>1. PICK more : Upto(n + 1, n, more, place)
      <3>1. CASE known
        BY <1>7, <3>1, KnownAccess
      <3>2. CASE ~known
        <4>1. PICK type : type = "ACQUIRE"
          OBVIOUS
        <4>2. /\ type = IF l.type \in {"PM_WRITE", "PM_READ"} THEN "ACQUIRE" ELSE l.type
              /\ acquire.res = Append(m.res, Mapped(type, l))
              /\ acquire.acquires = IF type = "ACQUIRE" THEN Put(m.acquires, l.thread, Len(m.res) + 1) ELSE m.acquires
          BY <1>7, <4>1
        <4>3. \E more : Upto(n + 1, n, more, acquire)
          <5> HIDE DEF acquire
          <5> QED
            BY <1>3, <3>2, <4>2, NewRow
        <4> QED
          BY <3>2, <4>3
      <3> QED
        BY <3>1, <3>2
    <2>2. l.thread \in Threads /\ AccessOf(n + 1, l.thread) /\ IsMapping(place)
      BY <1>0, <1>1, <1>3, <1>7 DEF AccessOf, TraceLines
    <2>3. PICK u : u = [place EXCEPT !.res[place.acquires[l.thread]].pifrs = Append(@, BuildRegion(l))]
      OBVIOUS
    <2>4. \E rest : Upto(n + 1, n + 1, rest, u)
      <3> HIDE DEF place
      <3> QED
        BY <2>1, <2>2, <2>3, AccessPlaced
    <2>5. MapLine(m, l) = u
      BY <1>4, <1>7, <2>3
    <2> QED
      BY <2>4, <2>5
  <1> QED
    BY <1>0, <1>5, <1>6, <1>7 DEF TraceLines

LEMMA NothingMapped == Upto(0, 0, <<>>, NoRows)
  <1>1. IsMapping(NoRows) /\ <<>> \in Seq(Rows) /\ Len(<<>>) = 0 /\ NoRows.res = <<>> /\ NoRows.acquires = <<>> /\ 1 .. 0 = {}
    BY DEF IsMapping, NoRows
  <1>2. Ordered(0, 0, <<>>)
    BY <1>1 DEF Ordered
  <1>3. Complete(0, 0, <<>>)
    BY <1>1 DEF Complete
  <1>4. \A t \in Threads : NextRow(0, 0, <<>>, <<>>, t)
    BY <1>1 DEF NextRow
  <1> QED
    BY <1>1, <1>2, <1>3, <1>4 DEF Upto

LEMMA TraceMapped ==
  ASSUME trace \in Seq(TraceLines)
  PROVE  \E rows : Upto(Len(trace), Len(trace), rows, Map(trace))
  <1> DEFINE N == Len(trace)
  <1>1. PICK g : /\ g[0] = NoRows /\ g[N] = Map(trace)
                 /\ \A n \in 0 .. N - 1 : g[n + 1] = MapLine(g[n], trace[n + 1])
    BY MappedSoFar
  <1> DEFINE T == {n \in Nat : n <= N => \E rows : Upto(n, n, rows, g[n])}
  <1>2. 0 \in T
    BY <1>1, NothingMapped
  <1>3. ASSUME NEW n \in Nat, n \in T PROVE n + 1 \in T
    <2> SUFFICES ASSUME n + 1 <= N PROVE \E rows : Upto(n + 1, n + 1, rows, g[n + 1])
      OBVIOUS
    <2>1. n \in 0 .. N - 1 /\ n <= N
      OBVIOUS
    <2>2. PICK rows : Upto(n, n, rows, g[n])
      BY <1>3, <2>1
    <2> QED
      BY <1>1, <2>1, <2>2, LineMapped
  <1>4. \A n \in Nat : n \in T
    <2> HIDE DEF T
    <2> QED
      BY <1>2, <1>3, UpFromZero
  <1>5. N \in Nat /\ N <= N
    OBVIOUS
  <1> QED
    BY <1>1, <1>4, <1>5

(***************************************************************************)
(* The consumption of a mapped trace, which the store and the reports      *)
(* follow: a region is named <<line, access>>.                             *)
(***************************************************************************)

Places(lines)    == {y \in Nat \X Nat : y[1] \in 1 .. Len(lines) /\ y[2] \in 1 .. Len(lines[y[1]].pifrs)}
Region(lines, y) == lines[y[1]].pifrs[y[2]]

Before(y, z) == y[1] < z[1] \/ (y[1] = z[1] /\ y[2] < z[2])

Ended(lines, k, l) ==
  \E r \in (k + 1) .. (l - 1) : lines[r].type = "RELEASE" /\ lines[r].thread = lines[k].thread

Live(lines, z) == {y \in Places(lines) : Before(y, z) /\ ~Ended(lines, y[1], z[1])}

SameId(p, q)    == p.mem_addr = q.mem_addr /\ q.pifr_id = p.pifr_id
Conflicts(p, q) == q.mem_addr = p.mem_addr /\ q.tid # p.tid /\ p.is_write = ~q.is_write

Found(lines, z, y) ==
  /\ z \in Places(lines) /\ y \in Live(lines, z)
  /\ Conflicts(Region(lines, z), Region(lines, y))
  /\ \A x \in Live(lines, z) : ~SameId(Region(lines, z), Region(lines, x))

Now == <<line, access>>

Store ==
  /\ regions = [y \in Live(mapped, Now) |-> Region(mapped, y)]
  /\ to_close = [t \in DOMAIN to_close |-> to_close[t]]
  /\ \A t \in DOMAIN to_close : to_close[t] \in Seq(Nat \X Nat)
  /\ \A t \in Threads : Backend!Closable(t) = {y \in Live(mapped, Now) : Region(mapped, y).tid = t}

Reports ==
  \A pair : pair \in bugs <=>
    \E y, z : Before(z, Now) /\ Found(mapped, z, y) /\ pair = Line(Region(mapped, z), Region(mapped, y))

Consumed ==
  /\ mapped = mapping(trace)
  /\ line \in Nat \ {0} /\ access \in Nat \ {0}
  /\ Store /\ Reports

OfflineInv ==
  /\ trace \in Seq(TraceLines)
  /\ stage = "tracing" => mapped = <<>> /\ line = 1 /\ access = 1 /\ regions = <<>> /\ to_close = <<>> /\ bugs = {}
  /\ stage = "consuming" => Consumed /\ line <= Len(mapped)
  /\ stage = "done" => Consumed /\ line = Len(mapped) + 1 /\ access = 1

LEMMA MappedType ==
  ASSUME trace \in Seq(TraceLines), mapped = mapping(trace) PROVE mapped \in Seq(MappedLines)
  <1>1. PICK rows : Upto(Len(trace), Len(trace), rows, Map(trace))
    BY TraceMapped
  <1>2. mapped = Map(trace).res
    BY DEF mapping, Map, NoRows
  <1> QED
    BY <1>1, <1>2 DEF Upto, IsMapping

LEMMA LineType ==
  ASSUME NEW lines \in Seq(MappedLines), NEW k \in 1 .. Len(lines)
  PROVE  /\ lines[k].type \in {"ACQUIRE", "RELEASE", "FLUSH"} /\ lines[k].thread \in Threads
         /\ lines[k].pifrs \in Seq(Pifrs) /\ lines[k].target \in Targets
         /\ lines[k].type # "ACQUIRE" => lines[k].pifrs = <<>>
         /\ \A x \in 1 .. Len(lines[k].pifrs) : lines[k].pifrs[x] \in Pifrs /\ lines[k].pifrs[x].tid = lines[k].thread
  <1>1. lines[k] \in MappedLines
    OBVIOUS
  <1>2. PICK l : l = lines[k]
    OBVIOUS
  <1>3. /\ l.type \in {"ACQUIRE", "RELEASE", "FLUSH"} /\ l.thread \in Threads /\ l.pifrs \in Seq(Pifrs) /\ l.target \in Targets
        /\ l.type # "ACQUIRE" => l.pifrs = <<>>
        /\ \A x \in 1 .. Len(l.pifrs) : l.pifrs[x].tid = l.thread
    BY <1>1, <1>2 DEF MappedLines
  <1>4. \A x \in 1 .. Len(l.pifrs) : l.pifrs[x] \in Pifrs
    BY <1>3
  <1> QED
    BY <1>2, <1>3, <1>4

LEMMA PlaceType ==
  ASSUME NEW lines \in Seq(MappedLines), NEW y \in Places(lines)
  PROVE  /\ y \in Nat \X Nat /\ y[1] \in 1 .. Len(lines) /\ y[2] \in Nat \ {0} /\ y[1] \in Nat \ {0}
         /\ y[2] <= Len(lines[y[1]].pifrs)
         /\ Region(lines, y) \in Pifrs /\ Region(lines, y).tid = lines[y[1]].thread
         /\ lines[y[1]].type = "ACQUIRE"
  <1>1. y[1] \in 1 .. Len(lines) /\ y[2] \in 1 .. Len(lines[y[1]].pifrs) /\ y \in Nat \X Nat
    BY DEF Places
  <1>2. lines[y[1]].type # "ACQUIRE" => Len(lines[y[1]].pifrs) = 0
    BY <1>1, LineType
  <1> QED
    BY <1>1, <1>2, LineType DEF Region

(* How the set of live regions moves with the consumption.                 *)
LEMMA LiveAfterAccess ==
  ASSUME NEW lines \in Seq(MappedLines), NEW l \in 1 .. Len(lines), NEW a \in Nat \ {0}, a <= Len(lines[l].pifrs)
  PROVE  /\ <<l, a>> \in Places(lines) /\ <<l, a>> \notin Live(lines, <<l, a>>)
         /\ Live(lines, <<l, a + 1>>) = Live(lines, <<l, a>>) \cup {<<l, a>>}
         /\ \A z \in Places(lines) : Before(z, <<l, a + 1>>) <=> Before(z, <<l, a>>) \/ z = <<l, a>>
  <1>0. l \in Nat /\ lines[l].pifrs \in Seq(Pifrs)
    BY LineType
  <1>1. <<l, a>> \in Places(lines)
    BY <1>0 DEF Places
  <1>2. ~Before(<<l, a>>, <<l, a>>)
    BY <1>0 DEF Before
  <1>3. ASSUME NEW z \in Places(lines) PROVE Before(z, <<l, a + 1>>) <=> Before(z, <<l, a>>) \/ z = <<l, a>>
    <2>1. z = <<z[1], z[2]>> /\ z[1] \in Nat /\ z[2] \in Nat
      BY DEF Places
    <2> QED
      BY <1>0, <2>1 DEF Before
  <1>4. ~Ended(lines, l, l)
    BY <1>0 DEF Ended
  <1>5. \A y \in Places(lines) : y \in Live(lines, <<l, a + 1>>) <=> y \in Live(lines, <<l, a>>) \/ y = <<l, a>>
    BY <1>3, <1>4 DEF Live
  <1> QED
    BY <1>1, <1>2, <1>3, <1>5 DEF Live

LEMMA LiveAfterLine ==
  ASSUME NEW lines \in Seq(MappedLines), NEW l \in 1 .. Len(lines), NEW a \in Nat \ {0},
         lines[l].type = "ACQUIRE" => a > Len(lines[l].pifrs)
  PROVE  /\ Live(lines, <<l + 1, 1>>) =
              {y \in Live(lines, <<l, a>>) : lines[l].type = "RELEASE" => lines[y[1]].thread # lines[l].thread}
         /\ \A z \in Places(lines) : Before(z, <<l + 1, 1>>) <=> Before(z, <<l, a>>)
  <1>0. l \in Nat /\ lines[l].pifrs \in Seq(Pifrs) /\ Len(lines[l].pifrs) \in Nat
    BY LineType
  <1>1. ASSUME NEW z \in Places(lines) PROVE Before(z, <<l + 1, 1>>) <=> Before(z, <<l, a>>)
    <2>1. z[1] \in Nat /\ z[2] \in Nat \ {0} /\ z[2] <= Len(lines[z[1]].pifrs) /\ lines[z[1]].type = "ACQUIRE"
      BY PlaceType
    <2>2. z[1] = l => z[2] < a
      BY <1>0, <2>1
    <2> QED
      BY <1>0, <2>1, <2>2 DEF Before
  <1>2. ASSUME NEW y \in Places(lines), Before(y, <<l, a>>)
        PROVE  Ended(lines, y[1], l + 1) <=>
                 Ended(lines, y[1], l) \/ (lines[l].type = "RELEASE" /\ lines[y[1]].thread = lines[l].thread)
    <2>1. y[1] \in Nat /\ y[1] <= l /\ lines[y[1]].type = "ACQUIRE"
      BY <1>0, <1>2, PlaceType DEF Before
    <2>2. lines[l].type = "RELEASE" => y[1] < l
      BY <1>0, <2>1
    <2>3. \A r : r \in (y[1] + 1) .. ((l + 1) - 1) <=> r \in (y[1] + 1) .. (l - 1) \/ (r = l /\ y[1] < l)
      BY <1>0, <2>1
    <2> QED
      BY <2>1, <2>2, <2>3 DEF Ended
  <1> QED
    BY <1>1, <1>2 DEF Live

LEMMA NothingLive ==
  ASSUME NEW lines \in Seq(MappedLines)
  PROVE  Live(lines, <<1, 1>>) = {} /\ \A z \in Places(lines) : ~Before(z, <<1, 1>>)
  <1>1. ASSUME NEW z \in Places(lines) PROVE ~Before(z, <<1, 1>>)
    <2>1. z[1] \in Nat \ {0} /\ z[2] \in Nat \ {0}
      BY PlaceType
    <2> QED
      BY <2>1 DEF Before
  <1> QED
    BY <1>1 DEF Live

LEMMA Concatenated ==
  ASSUME NEW S, NEW s \in Seq(S), NEW e \in S
  PROVE  s \o <<e>> \in Seq(S) /\ ToSet(s \o <<e>>) = ToSet(s) \cup {e}
  <1>1. s \o <<e>> \in Seq(S) /\ Len(s \o <<e>>) = Len(s) + 1 /\ Len(s) \in Nat
    OBVIOUS
  <1>2. \A x \in 1 .. Len(s) : (s \o <<e>>)[x] = s[x] /\ x \in 1 .. Len(s) + 1
    OBVIOUS
  <1>3. (s \o <<e>>)[Len(s) + 1] = e /\ Len(s) + 1 \in 1 .. Len(s) + 1
    OBVIOUS
  <1>4. \A x \in 1 .. Len(s) + 1 : x \in 1 .. Len(s) \/ x = Len(s) + 1
    BY <1>1
  <1>5. DOMAIN s = 1 .. Len(s) /\ DOMAIN (s \o <<e>>) = 1 .. Len(s) + 1
    BY <1>1
  <1>6. PICK q : q = s \o <<e>>
    OBVIOUS
  <1>7. ToSet(q) = ToSet(s) \cup {e}
    BY <1>2, <1>3, <1>4, <1>5, <1>6 DEF ToSet
  <1> QED
    BY <1>1, <1>6, <1>7

(* The steps of pifr_oftp.                                                 *)
LEMMA AnalyzeKeeps ==
  ASSUME OfflineInv, Analyze PROVE OfflineInv'
  <1>1. /\ trace' = trace /\ mapped' = mapping(trace) /\ line' = 1 /\ access' = 1 /\ trace \in Seq(TraceLines)
        /\ regions' = <<>> /\ to_close' = <<>> /\ bugs' = {}
        /\ stage' = IF mapped' = <<>> THEN "done" ELSE "consuming"
    BY DEF OfflineInv, Analyze
  <1>2. mapped' = mapping(trace')
    BY <1>1
  <1>3. mapped' \in Seq(MappedLines)
    <2>1. PICK rows : Upto(Len(trace), Len(trace), rows, Map(trace))
      BY <1>1, TraceMapped
    <2>2. mapped' = Map(trace).res
      BY <1>1 DEF mapping, Map, NoRows
    <2> QED
      BY <2>1, <2>2 DEF Upto, IsMapping
  <1>4. Live(mapped', <<1, 1>>) = {} /\ \A z \in Places(mapped') : ~Before(z, <<1, 1>>)
    BY <1>3, NothingLive
  <1>5. Store'
    <2>1. \A t : Backend!Closable(t)' = {}
      BY <1>1 DEF Backend!Closable
    <2>2. regions' = [y \in Live(mapped', <<1, 1>>) |-> Region(mapped', y)]
      BY <1>1, <1>4
    <2> QED
      BY <1>1, <1>4, <2>1, <2>2 DEF Store, Now
  <1>6. Reports'
    BY <1>1, <1>4 DEF Reports, Now, Found
  <1>7. mapped' = <<>> => Len(mapped') = 0
    OBVIOUS
  <1>8. mapped' # <<>> => Len(mapped') \in Nat /\ 1 <= Len(mapped')
    BY <1>3
  <1> QED
    BY <1>1, <1>2, <1>5, <1>6, <1>7, <1>8 DEF OfflineInv, Consumed

LEMMA AccessKeeps ==
  ASSUME OfflineInv, ConsumeAccess PROVE OfflineInv'
  <1>0. /\ stage = "consuming" /\ Consumed /\ line <= Len(mapped) /\ trace \in Seq(TraceLines)
        /\ UNCHANGED <<stage, trace, mapped, line>> /\ access' = access + 1
        /\ mapped[line].type = "ACQUIRE" /\ access <= Len(mapped[line].pifrs)
    BY DEF OfflineInv, ConsumeAccess
  <1>1. mapped \in Seq(MappedLines) /\ line \in 1 .. Len(mapped) /\ access \in Nat \ {0}
    BY <1>0, MappedType DEF Consumed
  <1>2. PICK p, now : p = mapped[line].pifrs[access] /\ now = <<line, access>>
    OBVIOUS
  <1>3. /\ now \in Places(mapped) /\ now \notin Live(mapped, now) /\ Now = now /\ p = Region(mapped, now)
        /\ Live(mapped, Now') = Live(mapped, now) \cup {now}
        /\ \A z \in Places(mapped) : Before(z, Now') <=> Before(z, now) \/ z = now
    BY <1>0, <1>1, <1>2, LiveAfterAccess DEF Now, Region
  <1>4. now \in Nat \X Nat /\ p \in Pifrs /\ p.tid \in Threads
    <2>1. now \in Nat \X Nat /\ p \in Pifrs
      BY <1>1, <1>3, PlaceType
    <2> QED
      BY <2>1 DEF Pifrs
  <1>5. Store /\ Reports
    BY <1>0 DEF Consumed
  <1>6. /\ bugs' = bugs \cup {Line(p, other) : other \in Backend!find_overlaps(p)}
        /\ regions' = Put(regions, now, p)
        /\ to_close' = Put(to_close, p.tid, (IF p.tid \in DOMAIN to_close THEN to_close[p.tid] ELSE <<>>) \o <<now>>)
    BY <1>2 DEF ConsumeAccess, open_region
  <1>7. PICK live : live = Live(mapped, now)
    OBVIOUS
  <1>8. DOMAIN regions = live /\ \A y \in live : regions[y] = Region(mapped, y)
    BY <1>3, <1>5, <1>7 DEF Store
  <1>9. Store'
    <2>1. regions' = [y \in Live(mapped', Now') |-> Region(mapped', y)]
      <3>1. regions' = [y \in live \cup {now} |-> IF y = now THEN p ELSE regions[y]]
        BY <1>6, <1>8 DEF Put
      <3>2. \A y \in live \cup {now} : (IF y = now THEN p ELSE regions[y]) = Region(mapped, y)
        BY <1>3, <1>8
      <3>3. regions' = [y \in live \cup {now} |-> Region(mapped, y)]
        BY <3>1, <3>2
      <3> QED
        BY <1>0, <1>3, <1>7, <3>3
    <2>2. PICK s : s = IF p.tid \in DOMAIN to_close THEN to_close[p.tid] ELSE <<>>
      OBVIOUS
    <2>3. s \in Seq(Nat \X Nat)
      BY <1>5, <2>2 DEF Store
    <2>4. ToSet(s) = Backend!Closable(p.tid)
      <3>1. ToSet(<<>>) = {}
        BY DEF ToSet
      <3> QED
        BY <2>2, <3>1 DEF Backend!Closable, Backend!ToSet, ToSet
    <2>5. s \o <<now>> \in Seq(Nat \X Nat) /\ ToSet(s \o <<now>>) = ToSet(s) \cup {now}
      BY <1>4, <2>3, Concatenated
    <2>6. /\ DOMAIN to_close' = DOMAIN to_close \cup {p.tid} /\ to_close'[p.tid] = s \o <<now>>
          /\ \A t \in DOMAIN to_close : t # p.tid => to_close'[t] = to_close[t]
          /\ to_close' = [t \in DOMAIN to_close' |-> to_close'[t]]
      BY <1>6, <2>2 DEF Put
    <2>7. \A t \in DOMAIN to_close' : to_close'[t] \in Seq(Nat \X Nat)
      BY <1>5, <2>5, <2>6 DEF Store
    <2>8. ASSUME NEW t \in Threads PROVE Backend!Closable(t)' = {y \in live \cup {now} : Region(mapped, y).tid = t}
      <3>1. Backend!Closable(t) = {y \in live : Region(mapped, y).tid = t}
        BY <1>3, <1>5, <1>7 DEF Store
      <3>2. CASE t = p.tid
        <4>1. Backend!Closable(t)' = Backend!Closable(t) \cup {now}
          <5>1. PICK s2 : s2 = s \o <<now>>
            OBVIOUS
          <5>2. t \in DOMAIN to_close' /\ to_close'[t] = s2
            BY <2>6, <3>2, <5>1
          <5>3. Backend!Closable(t)' = ToSet(s2)
            BY <5>2 DEF Backend!Closable, Backend!ToSet, ToSet
          <5> QED
            BY <2>4, <2>5, <3>2, <5>1, <5>3
        <4> QED
          BY <1>3, <3>1, <3>2, <4>1
      <3>3. CASE t # p.tid
        <4>1. Backend!Closable(t)' = Backend!Closable(t)
          BY <2>6, <3>3 DEF Backend!Closable
        <4> QED
          BY <1>3, <3>1, <3>3, <4>1
      <3> QED
        BY <3>2, <3>3
    <2> QED
      BY <1>0, <1>3, <1>7, <2>1, <2>6, <2>7, <2>8 DEF Store
  <1>10. Reports'
    <2>1. PICK over : over = Backend!find_overlaps(p)
      OBVIOUS
    <2>2. ASSUME NEW q PROVE q \in over <=> \E y : Found(mapped, now, y) /\ q = Region(mapped, y)
      <3>1. Backend!AtAddress(p.mem_addr) = {Region(mapped, y) : y \in {x \in live : Region(mapped, x).mem_addr = p.mem_addr}}
        BY <1>8 DEF Backend!AtAddress
      <3>2. Backend!SameIdOpen(p) <=> \E x \in live : SameId(p, Region(mapped, x))
        BY <3>1 DEF Backend!SameIdOpen, SameId
      <3>3. CASE Backend!SameIdOpen(p)
        <4>1. over = {}
          BY <2>1, <3>3 DEF Backend!find_overlaps
        <4> QED
          BY <1>3, <1>7, <3>2, <3>3, <4>1 DEF Found
      <3>4. CASE ~Backend!SameIdOpen(p)
        <4>1. over = {other \in Backend!AtAddress(p.mem_addr) : other.tid # p.tid /\ p.is_write = ~other.is_write}
          BY <2>1, <3>4 DEF Backend!find_overlaps
        <4>2. q \in over <=> \E y \in live : Conflicts(p, Region(mapped, y)) /\ q = Region(mapped, y)
          BY <3>1, <4>1 DEF Conflicts
        <4> QED
          BY <1>3, <1>7, <3>2, <3>4, <4>2 DEF Found
      <3> QED
        BY <3>3, <3>4
    <2>3. ASSUME NEW pair
          PROVE  pair \in bugs' <=> pair \in bugs \/ \E y : Found(mapped, now, y) /\ pair = Line(p, Region(mapped, y))
      BY <1>6, <2>1, <2>2
    <2>4. ASSUME NEW pair
          PROVE  pair \in bugs <=> \E y, z : Before(z, now) /\ Found(mapped, z, y) /\ pair = Line(Region(mapped, z), Region(mapped, y))
      BY <1>3, <1>5 DEF Reports
    <2>5. \A y, z : Found(mapped, z, y) => z \in Places(mapped)
      BY DEF Found
    <2>6. ASSUME NEW pair
          PROVE  pair \in bugs' <=> \E y, z : Before(z, Now') /\ Found(mapped, z, y) /\ pair = Line(Region(mapped, z), Region(mapped, y))
      BY <1>3, <2>3, <2>4, <2>5
    <2> QED
      BY <1>0, <2>6 DEF Reports
  <1>11. mapped' = mapping(trace')
    BY <1>0 DEF Consumed
  <1>12. access' \in Nat \ {0} /\ line' \in Nat \ {0}
    BY <1>0, <1>1
  <1>13. Consumed'
    BY <1>9, <1>10, <1>11, <1>12 DEF Consumed
  <1> QED
    BY <1>0, <1>13 DEF OfflineInv

LEMMA StoreFlushed ==
  ASSUME NEW t, NEW a, Backend!flush(t, a), Store, \A i \in DOMAIN regions : ~regions[i].dirty
  PROVE  regions' = regions /\ to_close' = to_close
  <1> DEFINE dirty == {i \in DOMAIN regions : t \in DOMAIN to_close /\ regions[i].tid = t
                                              /\ regions[i].mem_addr = a /\ regions[i].dirty}
  <1>1. dirty = {}
    OBVIOUS
  <1>2. /\ regions' = [i \in DOMAIN regions |-> IF i \in dirty THEN [regions[i] EXCEPT !.dirty = FALSE] ELSE regions[i]]
        /\ to_close' = IF t \notin DOMAIN to_close THEN to_close ELSE [to_close EXCEPT ![t] = @ \o Backend!SetToSeq(dirty)]
    BY DEF Backend!flush
  <1> HIDE DEF dirty
  <1>3. Backend!SetToSeq({}) = <<>>
    <2>1. Cardinality({}) = 0
      BY FS_EmptySet
    <2>2. Backend!SetToSeq({}) = CHOOSE f \in [1 .. 0 -> {}] : IsInjective(f)
      BY <2>1 DEF Backend!SetToSeq, Backend!IsInjective, IsInjective, Backend!Cardinality, Cardinality
    <2>3. <<>> \in [1 .. 0 -> {}] /\ IsInjective(<<>>)
      BY DEF IsInjective
    <2>4. Backend!SetToSeq({}) \in [1 .. 0 -> {}]
      BY <2>2, <2>3
    <2> QED
      BY <2>4
  <1>4. CASE t \in DOMAIN to_close
    <2>1. to_close[t] \in Seq(Nat \X Nat)
      BY <1>4 DEF Store
    <2>2. to_close[t] \o <<>> = to_close[t]
      BY <2>1
    <2> QED
      BY <1>1, <1>2, <1>3, <1>4, <2>2 DEF Store
  <1> QED
    BY <1>1, <1>2, <1>4 DEF Store

LEMMA LineKeeps ==
  ASSUME OfflineInv, consume PROVE OfflineInv'
  <1>0. /\ stage = "consuming" /\ Consumed /\ line <= Len(mapped) /\ trace \in Seq(TraceLines)
        /\ UNCHANGED <<trace, mapped, bugs>> /\ line' = line + 1 /\ access' = 1
        /\ stage' \in {"died", "done", "consuming"} /\ (stage' = "done" => line = Len(mapped))
        /\ (stage' = "consuming" => line # Len(mapped))
    BY DEF OfflineInv, consume, Progress
  <1>1. mapped \in Seq(MappedLines) /\ line \in 1 .. Len(mapped) /\ access \in Nat \ {0} /\ line \in Nat
    BY <1>0, MappedType DEF Consumed
  <1>2. PICK l : l = mapped[line]
    OBVIOUS
  <1>3. /\ \/ l.type = "ACQUIRE" /\ access > Len(l.pifrs) /\ UNCHANGED <<regions, to_close>>
           \/ l.type = "RELEASE" /\ end_regions(l.thread)
           \/ l.type = "FLUSH" /\ Backend!flush(l.thread, l.target)
        /\ l.thread \in Threads
    <2>1. \/ l.type = "ACQUIRE" /\ access > Len(l.pifrs) /\ UNCHANGED <<regions, to_close>>
          \/ l.type = "RELEASE" /\ end_regions(l.thread)
          \/ l.type = "FLUSH" /\ Backend!flush(l.thread, l.target)
      BY <1>2 DEF consume
    <2> QED
      BY <1>1, <1>2, <2>1, LineType
  <1>4. PICK live : live = Live(mapped, Now)
    OBVIOUS
  <1>5. /\ Live(mapped, Now') = {y \in live : l.type = "RELEASE" => mapped[y[1]].thread # l.thread}
        /\ \A z \in Places(mapped) : Before(z, Now') <=> Before(z, Now)
    <2>1. mapped[line].type = "ACQUIRE" => access > Len(mapped[line].pifrs)
      BY <1>2, <1>3
    <2> QED
      BY <1>0, <1>1, <1>2, <1>4, <2>1, LiveAfterLine DEF Now
  <1>6. Store /\ Reports
    BY <1>0 DEF Consumed
  <1>7. regions = [y \in live |-> Region(mapped, y)]
    BY <1>4, <1>6 DEF Store
  <1>8. \A y \in live : y \in Places(mapped) /\ Region(mapped, y).tid = mapped[y[1]].thread /\ ~Region(mapped, y).dirty
    <2>1. live \subseteq Places(mapped)
      BY <1>4 DEF Live
    <2>2. \A y \in live : Region(mapped, y) \in Pifrs /\ Region(mapped, y).tid = mapped[y[1]].thread
      BY <1>1, <2>1, PlaceType
    <2> QED
      BY <2>1, <2>2 DEF Pifrs
  <1>9. Store'
    <2>1. CASE l.type = "RELEASE" /\ end_regions(l.thread)
      <3>1. PICK t : t = l.thread
        OBVIOUS
      <3>2. /\ regions' = [i \in DOMAIN regions \ Backend!Closable(t) |-> regions[i]]
            /\ to_close' = Put(to_close, t, <<>>)
        BY <2>1, <3>1 DEF end_regions
      <3>3. Backend!Closable(t) = {y \in live : Region(mapped, y).tid = t}
        BY <1>3, <1>4, <1>6, <3>1 DEF Store
      <3>4. Live(mapped, Now') = live \ Backend!Closable(t)
        BY <1>5, <1>8, <2>1, <3>1, <3>3
      <3>5. regions' = [y \in Live(mapped', Now') |-> Region(mapped', y)]
        BY <1>0, <1>7, <3>2, <3>4
      <3>6. /\ DOMAIN to_close' = DOMAIN to_close \cup {t} /\ to_close'[t] = <<>>
            /\ \A u \in DOMAIN to_close : u # t => to_close'[u] = to_close[u]
            /\ to_close' = [u \in DOMAIN to_close' |-> to_close'[u]]
        BY <3>2 DEF Put
      <3>7. \A u \in DOMAIN to_close' : to_close'[u] \in Seq(Nat \X Nat)
        <4>1. <<>> \in Seq(Nat \X Nat)
          OBVIOUS
        <4>2. \A u \in DOMAIN to_close : to_close[u] \in Seq(Nat \X Nat)
          BY <1>6 DEF Store
        <4>3. ASSUME NEW u \in DOMAIN to_close' PROVE to_close'[u] = <<>> \/ (u \in DOMAIN to_close /\ to_close'[u] = to_close[u])
          BY <3>6
        <4> QED
          BY <4>1, <4>2, <4>3
      <3>8. ASSUME NEW u \in Threads
            PROVE  Backend!Closable(u)' = {y \in live \ Backend!Closable(t) : Region(mapped, y).tid = u}
        <4>1. CASE u = t
          <5>1. Backend!Closable(u)' = {}
            BY <3>6, <4>1 DEF Backend!Closable, Backend!ToSet
          <5> QED
            BY <3>3, <4>1, <5>1
        <4>2. CASE u # t
          <5>1. Backend!Closable(u)' = Backend!Closable(u)
            BY <3>6, <4>2 DEF Backend!Closable
          <5>2. Backend!Closable(u) = {y \in live : Region(mapped, y).tid = u}
            BY <1>4, <1>6 DEF Store
          <5> QED
            BY <3>3, <4>2, <5>1, <5>2
        <4> QED
          BY <4>1, <4>2
      <3> QED
        BY <1>0, <3>4, <3>5, <3>6, <3>7, <3>8 DEF Store
    <2>2. CASE l.type # "RELEASE"
      <3>1. regions' = regions /\ to_close' = to_close
        <4>1. CASE l.type = "FLUSH"
          <5>1. \A i \in DOMAIN regions : ~regions[i].dirty
            BY <1>7, <1>8
          <5> QED
            BY <1>3, <1>6, <4>1, <5>1, StoreFlushed
        <4> QED
          BY <1>3, <2>2, <4>1
      <3>2. Live(mapped', Now') = live
        BY <1>0, <1>5, <2>2
      <3>3. \A t : Backend!Closable(t)' = Backend!Closable(t)
        BY <3>1 DEF Backend!Closable
      <3> QED
        BY <1>0, <1>4, <1>6, <3>1, <3>2, <3>3 DEF Store
    <2> QED
      BY <1>3, <2>1, <2>2
  <1>10. Reports'
    <2>1. \A y, z : Found(mapped, z, y) => z \in Places(mapped)
      BY DEF Found
    <2>2. ASSUME NEW pair
          PROVE  pair \in bugs' <=> \E y, z : Before(z, Now') /\ Found(mapped, z, y) /\ pair = Line(Region(mapped, z), Region(mapped, y))
      BY <1>0, <1>5, <1>6, <2>1 DEF Reports
    <2> QED
      BY <1>0, <2>2 DEF Reports
  <1>11. mapped' = mapping(trace')
    BY <1>0 DEF Consumed
  <1>12. access' \in Nat \ {0} /\ line' \in Nat \ {0}
    BY <1>0, <1>1
  <1>13. Consumed'
    BY <1>9, <1>10, <1>11, <1>12 DEF Consumed
  <1>14. stage' = "consuming" => line' <= Len(mapped')
    BY <1>0, <1>1
  <1> QED
    BY <1>0, <1>13, <1>14 DEF OfflineInv

LEMMA TraceKeeps ==
  ASSUME OfflineInv, NEW t \in Threads, SyncHandler(t) \/ \E a \in Addrs : AccessHandler(t, a) \/ FlushHandler(t, a)
  PROVE  OfflineInv'
  <1>1. PICK type \in {"ACQUIRE", "RELEASE", "FLUSH", "PM_WRITE", "PM_READ"}, ip \in Ids, target \in Targets :
          ThreadedTrace(t, type, ip, target)
    BY DEF SyncHandler, AccessHandler, FlushHandler, Ids, Targets
  <1>2. [type |-> type, thread |-> t, ip |-> ip, target |-> target] \in TraceLines
    BY DEF TraceLines
  <1>3. trace' \in Seq(TraceLines)
    BY <1>1, <1>2 DEF ThreadedTrace, OfflineInv
  <1> QED
    BY <1>1, <1>3 DEF ThreadedTrace, OfflineInv

LEMMA OfflineNextKeeps ==
  ASSUME OfflineInv, OfflineNext PROVE OfflineInv'
  BY AnalyzeKeeps, AccessKeeps, LineKeeps, TraceKeeps DEF OfflineNext

LEMMA OfflineStill ==
  ASSUME OfflineInv, UNCHANGED ofvars PROVE OfflineInv'
  <1>1. /\ trace' = trace /\ stage' = stage /\ mapped' = mapped /\ line' = line /\ access' = access
        /\ regions' = regions /\ to_close' = to_close /\ bugs' = bugs
    BY DEF ofvars
  <1>2. Consumed => Consumed'
    <2>1. \A t : Backend!Closable(t)' = Backend!Closable(t)
      BY <1>1 DEF Backend!Closable
    <2>2. Store => Store'
      BY <1>1, <2>1 DEF Store, Now
    <2>3. Reports => Reports'
      BY <1>1 DEF Reports, Now
    <2> QED
      BY <1>1, <2>2, <2>3 DEF Consumed
  <1> QED
    BY <1>1, <1>2 DEF OfflineInv

(***************************************************************************)
(* What the reports come to, read back in the trace.                       *)
(***************************************************************************)

At(rows, y) == rows[y[1]].members[y[2]]

LEMMA ClosedNat ==
  ASSUME trace \in Seq(TraceLines), NEW i \in DOMAIN trace PROVE Closed(i) \in Nat
  <1> DEFINE releases == {j \in OfThread(i) : j > Opened(i) /\ trace[j].type = "RELEASE"}
  <1>0. DOMAIN trace \subseteq Nat /\ Len(trace) + 1 \in Nat
    BY SeqDef
  <1>1. releases \subseteq Nat
    BY <1>0 DEF OfThread
  <1>2. Closed(i) = IF releases = {} THEN Len(trace) + 1 ELSE CHOOSE j \in releases : \A k \in releases : j <= k
    BY DEF Closed
  <1> HIDE DEF releases
  <1>3. CASE releases # {}
    <2> DEFINE c == CHOOSE j \in releases : \A k \in releases : j <= k
    <2>1. c \in releases
      BY <1>1, <1>3, LeastElement
    <2> QED
      BY <1>1, <1>2, <1>3, <2>1
  <1> QED
    BY <1>0, <1>2, <1>3

LEMMA PlaceAccess ==
  ASSUME trace \in Seq(TraceLines), NEW rows, NEW m, Upto(Len(trace), Len(trace), rows, m), NEW y \in Places(m.res)
  PROVE  /\ At(rows, y) \in Accesses /\ At(rows, y) \in DOMAIN trace /\ At(rows, y) \in Nat
         /\ trace[At(rows, y)].thread = m.res[y[1]].thread
         /\ Opened(At(rows, y)) = rows[y[1]].head /\ rows[y[1]].head \in DOMAIN trace
         /\ trace[rows[y[1]].head].type # "RELEASE"
         /\ Region(m.res, y) = BuildRegion(trace[At(rows, y)])
         /\ y[1] \in 1 .. Len(rows) /\ y[2] \in 1 .. Len(rows[y[1]].members)
  <1>0. DOMAIN trace = 1 .. Len(trace) /\ Len(trace) \in Nat
    OBVIOUS
  <1>1. m.res \in Seq(MappedLines) /\ Len(rows) = Len(m.res) /\ Ordered(Len(trace), Len(trace), rows)
    BY DEF Upto, IsMapping
  <1>2. PICK k, x, l, row : k = y[1] /\ x = y[2] /\ l = m.res[k] /\ row = rows[k]
    OBVIOUS
  <1>3. k \in 1 .. Len(rows) /\ x \in 1 .. Len(l.pifrs) /\ l.type = "ACQUIRE"
    BY <1>1, <1>2, PlaceType DEF Places
  <1>4. Stands(row, l)
    BY <1>2, <1>3 DEF Upto
  <1>5. PICK i : i = row.members[x]
    OBVIOUS
  <1>6. x \in 1 .. Len(row.members) /\ AccessOf(i, l.thread) /\ Opened(i) = row.head /\ l.pifrs[x] = BuildRegion(trace[i])
    BY <1>3, <1>4, <1>5 DEF Stands
  <1>7. i \in DOMAIN trace /\ i \in Nat /\ row.head \in DOMAIN trace
    BY <1>0, <1>1, <1>2, <1>3, <1>5, <1>6 DEF Ordered
  <1>8. trace[row.head].type # "RELEASE"
    BY <1>3, <1>4 DEF Stands
  <1>9. At(rows, y) = i /\ Region(m.res, y) = l.pifrs[x]
    BY <1>2, <1>5 DEF At, Region
  <1> QED
    BY <1>2, <1>3, <1>6, <1>7, <1>8, <1>9 DEF AccessOf, Accesses

LEMMA AccessPlace ==
  ASSUME trace \in Seq(TraceLines), NEW rows, NEW m, Upto(Len(trace), Len(trace), rows, m), NEW i \in Accesses
  PROVE  \E y \in Places(m.res) : At(rows, y) = i
  <1>1. i \in 1 .. Len(trace) /\ trace[i].type \in {"PM_WRITE", "PM_READ"}
    BY DEF Accesses
  <1>2. PICK k \in 1 .. Len(rows) : \E x \in 1 .. Len(rows[k].members) : rows[k].members[x] = i
    BY <1>1 DEF Upto, Complete
  <1>3. PICK x \in 1 .. Len(rows[k].members) : rows[k].members[x] = i
    BY <1>2
  <1>4. Len(m.res[k].pifrs) = Len(rows[k].members) /\ Len(m.res) = Len(rows)
    BY <1>2 DEF Upto, Stands
  <1>5. <<k, x>> \in Places(m.res)
    BY <1>2, <1>3, <1>4 DEF Places
  <1>6. At(rows, <<k, x>>) = i
    BY <1>3 DEF At
  <1> QED
    BY <1>5, <1>6

LEMMA HeadsOrdered ==
  ASSUME NEW n \in Nat, NEW c, NEW rows \in Seq(Rows), Ordered(n, c, rows),
         NEW k \in 1 .. Len(rows), NEW l \in 1 .. Len(rows)
  PROVE  /\ rows[k].head \in Nat
         /\ k < l <=> rows[k].head < rows[l].head
         /\ k = l <=> rows[k].head = rows[l].head
  <1>1. k \in Nat /\ l \in Nat /\ rows[k].head \in Nat /\ rows[l].head \in Nat
    BY DEF Ordered
  <1>2. (k < l => rows[k].head < rows[l].head) /\ (l < k => rows[l].head < rows[k].head)
    BY DEF Ordered
  <1> QED
    BY <1>1, <1>2

LEMMA PlacesOrdered ==
  ASSUME trace \in Seq(TraceLines), NEW rows, NEW m, Upto(Len(trace), Len(trace), rows, m),
         NEW y \in Places(m.res), NEW z \in Places(m.res)
  PROVE  Before(y, z) <=> Earlier(At(rows, y), At(rows, z))
  <1>0. Len(trace) \in Nat
    OBVIOUS
  <1>1. rows \in Seq(Rows) /\ Ordered(Len(trace), Len(trace), rows)
    BY DEF Upto
  <1>2. PICK k, l, a, b : k = y[1] /\ l = z[1] /\ a = y[2] /\ b = z[2]
    OBVIOUS
  <1>3. /\ k \in 1 .. Len(rows) /\ a \in 1 .. Len(rows[k].members) /\ Opened(At(rows, y)) = rows[k].head
        /\ l \in 1 .. Len(rows) /\ b \in 1 .. Len(rows[l].members) /\ Opened(At(rows, z)) = rows[l].head
        /\ At(rows, y) \in Nat /\ At(rows, z) \in Nat
    BY <1>2, PlaceAccess
  <1>4. rows[k].head \in Nat /\ (k < l <=> rows[k].head < rows[l].head) /\ (k = l <=> rows[k].head = rows[l].head)
    BY <1>0, <1>1, <1>3, HeadsOrdered
  <1>5. ASSUME k = l PROVE a < b <=> At(rows, y) < At(rows, z)
    <2>1. At(rows, y) = rows[k].members[a] /\ At(rows, z) = rows[k].members[b]
      BY <1>2, <1>5 DEF At
    <2>2. a \in Nat /\ b \in Nat /\ b \in 1 .. Len(rows[k].members)
      BY <1>3, <1>5
    <2>3. (a < b => At(rows, y) < At(rows, z)) /\ (b < a => At(rows, z) < At(rows, y))
      BY <1>1, <1>3, <2>1, <2>2 DEF Ordered
    <2>4. a = b => At(rows, y) = At(rows, z)
      BY <2>1
    <2> QED
      BY <1>3, <2>2, <2>3, <2>4
  <1> QED
    BY <1>2, <1>3, <1>4, <1>5 DEF Before, Earlier

LEMMA StillOpen ==
  ASSUME trace \in Seq(TraceLines), NEW rows, NEW m, Upto(Len(trace), Len(trace), rows, m),
         NEW y \in Places(m.res), NEW z \in Places(m.res), y[1] <= z[1]
  PROVE  ~Ended(m.res, y[1], z[1]) <=> Opened(At(rows, z)) < Closed(At(rows, y))
  <1>0. Len(trace) \in Nat /\ DOMAIN trace = 1 .. Len(trace)
    OBVIOUS
  <1>1. /\ rows \in Seq(Rows) /\ Ordered(Len(trace), Len(trace), rows) /\ Len(rows) = Len(m.res)
        /\ Complete(Len(trace), Len(trace), rows) /\ \A p \in 1 .. Len(rows) : Stands(rows[p], m.res[p])
    BY DEF Upto
  <1>2. PICK k, l, i, t : k = y[1] /\ l = z[1] /\ i = At(rows, y) /\ t = m.res[k].thread
    OBVIOUS
  <1>3. /\ k \in 1 .. Len(rows) /\ Opened(i) = rows[k].head /\ i \in DOMAIN trace /\ trace[i].thread = t
        /\ l \in 1 .. Len(rows) /\ Opened(At(rows, z)) = rows[l].head /\ rows[l].head \in DOMAIN trace
        /\ trace[rows[l].head].type # "RELEASE"
    BY <1>2, PlaceAccess
  <1>4. PICK o, v : o = rows[k].head /\ v = rows[l].head
    OBVIOUS
  <1>5. o \in Nat /\ v \in DOMAIN trace /\ o <= v /\ v \in Nat
    <2>1. k < l \/ k = l
      BY <1>2, <1>3
    <2> QED
      BY <1>0, <1>1, <1>3, <1>4, <2>1, HeadsOrdered
  <1>6. v < Closed(i) <=> \A r \in (o + 1) .. v : ~ReleaseOf(r, t)
    BY <1>3, <1>4, <1>5, ClosedByRelease
  <1>7. ASSUME NEW p \in (k + 1) .. (l - 1), m.res[p].type = "RELEASE", m.res[p].thread = t
        PROVE  \E r \in (o + 1) .. v : ReleaseOf(r, t)
    <2>1. p \in 1 .. Len(rows) /\ k < p /\ p < l
      BY <1>3, <1>7
    <2>2. rows[p].head \in Nat /\ o < rows[p].head /\ rows[p].head < v
      BY <1>0, <1>1, <1>3, <1>4, <2>1, HeadsOrdered
    <2>3. ReleaseOf(rows[p].head, t)
      BY <1>1, <1>7, <2>1 DEF Stands, ReleaseOf
    <2> QED
      BY <1>5, <2>2, <2>3
  <1>8. ASSUME NEW r \in (o + 1) .. v, ReleaseOf(r, t)
        PROVE  \E p \in (k + 1) .. (l - 1) : m.res[p].type = "RELEASE" /\ m.res[p].thread = t
    <2>1. r \in 1 .. Len(trace) /\ o < r /\ r < v
      <3>1. r # v
        BY <1>3, <1>4, <1>8 DEF ReleaseOf
      <3> QED
        BY <1>0, <1>5, <1>8, <3>1
    <2>2. PICK p \in 1 .. Len(rows) : rows[p].head = r
      BY <1>1, <1>8, <2>1 DEF Complete, ReleaseOf
    <2>3. k < p /\ p < l
      BY <1>0, <1>1, <1>3, <1>4, <2>1, <2>2, HeadsOrdered
    <2>4. p \in (k + 1) .. (l - 1)
      BY <1>3, <2>2, <2>3
    <2>5. m.res[p].type = "RELEASE" /\ m.res[p].thread = t
      BY <1>1, <1>8, <2>2 DEF Stands, ReleaseOf
    <2> QED
      BY <2>4, <2>5
  <1>9. Ended(m.res, k, l) <=> \E r \in (o + 1) .. v : ReleaseOf(r, t)
    BY <1>2, <1>7, <1>8 DEF Ended
  <1> QED
    BY <1>2, <1>3, <1>4, <1>6, <1>9

LEMMA LiveMeets ==
  ASSUME trace \in Seq(TraceLines), NEW rows, NEW m, Upto(Len(trace), Len(trace), rows, m),
         NEW y \in Places(m.res), NEW z \in Places(m.res)
  PROVE  y \in Live(m.res, z) <=> Earlier(At(rows, y), At(rows, z)) /\ Opened(At(rows, z)) < Closed(At(rows, y))
  <1>1. Before(y, z) <=> Earlier(At(rows, y), At(rows, z))
    BY PlacesOrdered
  <1>2. Before(y, z) => y[1] <= z[1]
    BY DEF Before, Places
  <1>3. Before(y, z) => (~Ended(m.res, y[1], z[1]) <=> Opened(At(rows, z)) < Closed(At(rows, y)))
    BY <1>2, StillOpen
  <1> QED
    BY <1>1, <1>3 DEF Live

LEMMA EarlierMeets ==
  ASSUME trace \in Seq(TraceLines), NEW rows, NEW m, Upto(Len(trace), Len(trace), rows, m),
         NEW y \in Places(m.res), NEW z \in Places(m.res), Earlier(At(rows, y), At(rows, z))
  PROVE  Meet(At(rows, y), At(rows, z)) <=> Opened(At(rows, z)) < Closed(At(rows, y))
  <1>1. PICK i, j, o, v : i = At(rows, y) /\ j = At(rows, z) /\ o = Opened(i) /\ v = Opened(j)
    OBVIOUS
  <1>2. i \in DOMAIN trace /\ j \in DOMAIN trace /\ o \in DOMAIN trace /\ v \in DOMAIN trace
    BY <1>1, PlaceAccess
  <1>3. o \in Nat /\ v \in Nat
    BY <1>2
  <1>4. o <= v
    BY <1>1, <1>3 DEF Earlier
  <1>5. \A r : ~(r \in (v + 1) .. v)
    BY <1>3
  <1>6. v < Closed(j)
    BY <1>1, <1>2, <1>3, <1>5, ClosedByRelease
  <1>7. Closed(j) \in Nat
    BY <1>2, ClosedNat
  <1>8. o < Closed(j)
    BY <1>3, <1>4, <1>6, <1>7
  <1> QED
    BY <1>1, <1>8 DEF Meet

LEMMA RegionOf ==
  ASSUME NEW i \in Accesses, NEW j \in Accesses, NEW p, NEW q, p = BuildRegion(trace[i]), q = BuildRegion(trace[j])
  PROVE  /\ Conflicts(q, p) <=>
              trace[i].thread # trace[j].thread /\ trace[i].target = trace[j].target /\ trace[i].type # trace[j].type
         /\ SameId(q, p) <=> trace[i].ip = trace[j].ip /\ trace[i].target = trace[j].target
         /\ Line(q, p) = {trace[i].ip, trace[j].ip}
  <1>1. trace[i].type \in {"PM_WRITE", "PM_READ"} /\ trace[j].type \in {"PM_WRITE", "PM_READ"}
    BY DEF Accesses
  <1>2. /\ p.pifr_id = trace[i].ip /\ p.mem_addr = trace[i].target /\ p.tid = trace[i].thread
        /\ p.is_write = (trace[i].type = "PM_WRITE")
        /\ q.pifr_id = trace[j].ip /\ q.mem_addr = trace[j].target /\ q.tid = trace[j].thread
        /\ q.is_write = (trace[j].type = "PM_WRITE")
    BY DEF BuildRegion
  <1>3. q.is_write = ~p.is_write <=> trace[i].type # trace[j].type
    BY <1>1, <1>2
  <1>4. Line(q, p) = {trace[i].ip, trace[j].ip}
    BY <1>2 DEF Line
  <1>5. SameId(q, p) <=> trace[i].ip = trace[j].ip /\ trace[i].target = trace[j].target
    BY <1>2 DEF SameId
  <1>6. Conflicts(q, p) <=> p.mem_addr = q.mem_addr /\ p.tid # q.tid /\ q.is_write = ~p.is_write
    BY DEF Conflicts
  <1> QED
    BY <1>2, <1>3, <1>4, <1>5, <1>6

LEMMA InvExact == ASSUME OfflineInv, stage = "done" PROVE OfflineExact
  <1>0. trace \in Seq(TraceLines) /\ Consumed /\ line = Len(mapped) + 1 /\ access = 1
    BY DEF OfflineInv
  <1>1. PICK rows, m : Upto(Len(trace), Len(trace), rows, m) /\ m.res = mapped
    <2>1. mapped = Map(trace).res
      BY <1>0 DEF Consumed, mapping, Map, NoRows
    <2> QED
      BY <1>0, <2>1, TraceMapped
  <1>2. mapped \in Seq(MappedLines)
    BY <1>1 DEF Upto, IsMapping
  <1>3. \A z \in Places(mapped) : Before(z, Now)
    <2>1. \A z \in Places(mapped) : z[1] \in 1 .. Len(mapped)
      BY DEF Places
    <2> QED
      BY <1>0, <1>2, <2>1 DEF Before, Now
  <1>4. ASSUME NEW pair
        PROVE  pair \in bugs <=> \E y, z : Found(mapped, z, y) /\ pair = Line(Region(mapped, z), Region(mapped, y))
    <2>1. \A y, z : Found(mapped, z, y) => z \in Places(mapped)
      BY DEF Found
    <2> QED
      BY <1>0, <1>3, <2>1 DEF Consumed, Reports
  <1>5. ASSUME NEW y \in Places(mapped), NEW z \in Places(mapped)
        PROVE  /\ At(rows, y) \in Accesses /\ At(rows, z) \in Accesses
               /\ y \in Live(mapped, z) <=> Earlier(At(rows, y), At(rows, z)) /\ Opened(At(rows, z)) < Closed(At(rows, y))
               /\ Earlier(At(rows, y), At(rows, z)) =>
                    (Meet(At(rows, y), At(rows, z)) <=> Opened(At(rows, z)) < Closed(At(rows, y)))
               /\ SameId(Region(mapped, z), Region(mapped, y)) <=>
                    trace[At(rows, y)].ip = trace[At(rows, z)].ip /\ trace[At(rows, y)].target = trace[At(rows, z)].target
               /\ Conflicts(Region(mapped, z), Region(mapped, y)) /\ Meet(At(rows, y), At(rows, z)) <=>
                    RacesWith(At(rows, y), At(rows, z))
               /\ Line(Region(mapped, z), Region(mapped, y)) = {trace[At(rows, y)].ip, trace[At(rows, z)].ip}
    <2>1. PICK i, j : i = At(rows, y) /\ j = At(rows, z)
      OBVIOUS
    <2>2. /\ i \in Accesses /\ j \in Accesses
          /\ Region(mapped, y) = BuildRegion(trace[i]) /\ Region(mapped, z) = BuildRegion(trace[j])
      BY <1>0, <1>1, <2>1, PlaceAccess
    <2>3. /\ Conflicts(Region(mapped, z), Region(mapped, y)) <=>
               trace[i].thread # trace[j].thread /\ trace[i].target = trace[j].target /\ trace[i].type # trace[j].type
          /\ SameId(Region(mapped, z), Region(mapped, y)) <=> trace[i].ip = trace[j].ip /\ trace[i].target = trace[j].target
          /\ Line(Region(mapped, z), Region(mapped, y)) = {trace[i].ip, trace[j].ip}
      <3>1. PICK p, q : p = Region(mapped, y) /\ q = Region(mapped, z)
        OBVIOUS
      <3>2. /\ Conflicts(q, p) <=>
                 trace[i].thread # trace[j].thread /\ trace[i].target = trace[j].target /\ trace[i].type # trace[j].type
            /\ SameId(q, p) <=> trace[i].ip = trace[j].ip /\ trace[i].target = trace[j].target
            /\ Line(q, p) = {trace[i].ip, trace[j].ip}
        <4>1. p = BuildRegion(trace[i]) /\ q = BuildRegion(trace[j])
          BY <2>2, <3>1
        <4>2. i \in Accesses /\ j \in Accesses
          BY <2>2
        <4> QED
          BY <4>1, <4>2, RegionOf
      <3> QED
        BY <3>1, <3>2
    <2>4. y \in Live(mapped, z) <=> Earlier(i, j) /\ Opened(j) < Closed(i)
      BY <1>0, <1>1, <2>1, LiveMeets
    <2>5. Earlier(i, j) => (Meet(i, j) <=> Opened(j) < Closed(i))
      BY <1>0, <1>1, <2>1, EarlierMeets
    <2>6. Conflicts(Region(mapped, z), Region(mapped, y)) /\ Meet(i, j) <=> RacesWith(i, j)
      BY <2>3 DEF RacesWith
    <2> QED
      BY <2>1, <2>2, <2>3, <2>4, <2>5, <2>6
  <1>6. ASSUME NEW pair \in bugs PROVE \E i, j \in Accesses : RacesWith(i, j) /\ pair = {trace[i].ip, trace[j].ip}
    <2>1. PICK y, z : Found(mapped, z, y) /\ pair = Line(Region(mapped, z), Region(mapped, y))
      BY <1>4, <1>6
    <2>2. y \in Places(mapped) /\ z \in Places(mapped) /\ y \in Live(mapped, z) /\ Conflicts(Region(mapped, z), Region(mapped, y))
      BY <2>1 DEF Found, Live
    <2>3. PICK i, j : i = At(rows, y) /\ j = At(rows, z)
      OBVIOUS
    <2>4. i \in Accesses /\ j \in Accesses /\ RacesWith(i, j) /\ pair = {trace[i].ip, trace[j].ip}
      BY <1>5, <2>1, <2>2, <2>3
    <2> QED
      BY <2>4
  <1>7. ASSUME NEW i \in Accesses, NEW j \in Accesses, RacesWith(i, j), Earlier(i, j), ~SameIdMet(j)
        PROVE  {trace[i].ip, trace[j].ip} \in bugs
    <2>1. PICK y \in Places(mapped), z \in Places(mapped) : At(rows, y) = i /\ At(rows, z) = j
      BY <1>0, <1>1, AccessPlace
    <2>2. Opened(j) < Closed(i)
      BY <1>7 DEF RacesWith, Meet
    <2>3. /\ y \in Live(mapped, z) /\ Conflicts(Region(mapped, z), Region(mapped, y))
          /\ Line(Region(mapped, z), Region(mapped, y)) = {trace[i].ip, trace[j].ip}
      BY <1>5, <1>7, <2>1, <2>2
    <2>4. ASSUME NEW x \in Live(mapped, z), SameId(Region(mapped, z), Region(mapped, x)) PROVE FALSE
      <3>1. x \in Places(mapped)
        BY DEF Live
      <3>2. /\ At(rows, x) \in Accesses /\ Earlier(At(rows, x), j) /\ Opened(j) < Closed(At(rows, x))
            /\ trace[At(rows, x)].ip = trace[j].ip /\ trace[At(rows, x)].target = trace[j].target
        BY <1>5, <2>1, <2>4, <3>1
      <3> QED
        BY <1>7, <3>2 DEF SameIdMet
    <2>5. Found(mapped, z, y)
      BY <2>1, <2>3, <2>4 DEF Found
    <2> QED
      BY <1>4, <2>3, <2>5
  <1> QED
    BY <1>6, <1>7 DEF OfflineExact

(* The offline analysis reports exactly the reads and writes of one        *)
(* address by two threads whose windows overlap in the trace, but for an   *)
(* access that meets a region of its own instruction open: the move of     *)
(* the accesses to their acquires and the one pass over the result lose    *)
(* nothing and invent nothing (pifr_oftp.cpp).                             *)
THEOREM OfflineAlwaysExact == WatchedSpec => []OfflineExact
  <1>1. OfflineInit => OfflineInv
    <2>1. <<>> \in Seq(TraceLines)
      OBVIOUS
    <2> QED
      BY <2>1 DEF OfflineInit, OfflineInv
  <1>2. OfflineInv /\ [(stage = "online" /\ RNext /\ UNCHANGED ofvars) \/ (OfflineNext /\ UNCHANGED rvars)]_<<rvars, ofvars>>
          => OfflineInv'
    BY OfflineNextKeeps, OfflineStill
  <1>3. OfflineInv => OfflineExact
    BY InvExact DEF OfflineExact
  <1> QED
    BY <1>1, <1>2, <1>3, PTL DEF WatchedSpec

(* What holds of the runtime holds of it in a program that is watched      *)
(* online or offline: the steps of the offline analysis are none of its.   *)
THEOREM WatchedIsRuntime == WatchedSpec => RSpec
  <1>1. OfflineInit => RInit
    BY DEF OfflineInit
  <1>2. [(stage = "online" /\ RNext /\ UNCHANGED ofvars) \/ (OfflineNext /\ UNCHANGED rvars)]_<<rvars, ofvars>> => [RNext]_rvars
    OBVIOUS
  <1> QED
    BY <1>1, <1>2, PTL DEF WatchedSpec, RSpec
=============================================================================
