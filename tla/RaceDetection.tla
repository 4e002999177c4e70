---------------------------- MODULE RaceDetection ----------------------------
(***************************************************************************)
(* The runtime next to the program it watches: which accesses each thread  *)
(* made since it last closed its regions, so that what the runtime reports *)
(* can be compared with what overlapped.                                   *)
(***************************************************************************)
EXTENDS PIFRRuntime

VARIABLES
  accesses,     \* per thread, the <<id, address>> begun since its last close
  overlapped,   \* the pairs of ids of a read and a write of one address, in two
                \* threads, one begun while the other was not closed
  opened,       \* per thread, the accesses whose call returned with a region
  owed,         \* per thread, the opened <<thread, id>> its current access races
  sameId        \* per thread, whether its current access met a region of its id

ghosts == <<accesses, overlapped, opened, owed, sameId>>
rvars  == <<vars, ghosts>>

Conflict(i, j) == (i \in Writes) # (j \in Writes)

Others(t) == Threads \ {t}

RInit ==
  /\ Init
  /\ accesses = [t \in Threads |-> {}]
  /\ overlapped = {}
  /\ opened = [t \in Threads |-> {}]
  /\ owed = [t \in Threads |-> {}]
  /\ sameId = [t \in Threads |-> FALSE]

Racing(t, set, i, a) ==
  {p \in Others(t) \X (Reads \cup Writes) : Conflict(i, p[2]) /\ <<p[2], a>> \in set[p[1]]}

RStart(t, i, a) ==
  /\ Start(t, i, a)
  /\ accesses' = [accesses EXCEPT ![t] = @ \cup {<<i, a>>}]
  /\ overlapped' = overlapped \cup {{i, p[2]} : p \in Racing(t, accesses, i, a)}
  /\ owed' = [owed EXCEPT ![t] = Racing(t, opened, i, a)]
  /\ UNCHANGED <<opened, sameId>>

RFind(t) ==
  /\ FindOverlaps(t)
  /\ sameId' = [sameId EXCEPT ![t] = SameIdOpen(build_pifr(t))]
  /\ UNCHANGED <<accesses, overlapped, opened, owed>>

RPushBack(t) ==
  /\ PushBack(t)
  /\ opened' = [opened EXCEPT ![t] = @ \cup {<<call[t].pifr_id, call[t].mem_addr>>}]
  /\ UNCHANGED <<accesses, overlapped, owed, sameId>>

\* Closed regions are owed to nobody any more.
RClose(t) ==
  /\ EndRegions(t)
  /\ accesses' = [accesses EXCEPT ![t] = {}]
  /\ opened' = [opened EXCEPT ![t] = {}]
  /\ owed' = [u \in Threads |-> {p \in owed[u] : p[1] # t}]
  /\ UNCHANGED <<overlapped, sameId>>

ROther(t) ==
  /\ \/ Report(t) \/ OpenRegion(t) \/ SkipRegion(t)
     \/ Delay(t) \/ NoDelay(t) \/ FallAsleep(t) \/ Wake(t) \/ Awake(t)
     \/ \E l \in Locations : End(t, l) \/ \E a \in Addrs : Flush(t, l, a)
  /\ UNCHANGED ghosts

RNext ==
  \E t \in Threads :
    \/ \E i \in Reads \cup Writes, a \in Addrs : RStart(t, i, a)
    \/ RFind(t)
    \/ RPushBack(t)
    \/ RClose(t)
    \/ ROther(t)

RSpec == RInit /\ [][RNext]_rvars
-----------------------------------------------------------------------------
OwnRegions(t) == {i \in DOMAIN pifrs : pifrs[i].tid = t}

(* end_regions erases through iterators it kept: each is valid, belongs to *)
(* a region of the thread, and is there once; and every region is there,   *)
(* but for the one being inserted. An iterator erased twice or left behind *)
(* would be a use after free.                                              *)
CloseListsExact ==
  \A t \in Threads :
    LET pushing == IF pc[t] = "push" THEN {call[t].value} ELSE {}
    IN  /\ Closable(t) = OwnRegions(t) \ pushing
        /\ pushing \subseteq OwnRegions(t)
        /\ t \in DOMAIN pifrs_to_close => IsInjective(pifrs_to_close[t])

(* A region is open from the return of its start call to the thread's next *)
(* close, whatever the other threads do and however long the thread sleeps *)
(* before closing.                                                         *)
OpenUntilClosed ==
  \A t \in Threads :
    pc[t] # "push" =>
      {<<pifrs[i].pifr_id, pifrs[i].mem_addr>> : i \in OwnRegions(t)} = opened[t]

(* No false alarm: a reported pair did overlap, a read and a write of one  *)
(* address by two threads, neither closed when the other began.            *)
RaceSound == rw_bug_hashes \subseteq overlapped

(* No missed race, "R/W or W/R" (tbb_backend.cpp:36), among calls in        *)
(* order: an access that begins while a conflicting region of another      *)
(* thread stays open is reported with it before the call opens a region of *)
(* its own, unless it met a region of its own id, when find_overlaps       *)
(* returns nothing.                                                        *)
NoMissedRace ==
  \A t \in Threads :
    pc[t] = "open" /\ ~sameId[t] =>
      \A p \in owed[t] : {call[t].pifr_id, p[2]} \in rw_bug_hashes
=============================================================================
