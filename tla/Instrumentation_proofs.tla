------------------------ MODULE Instrumentation_proofs ------------------------
(***************************************************************************)
(* What the PIN tools leave in files is right when it is read.             *)
(*                                                                         *)
(* CFG collection: the tables of mappings, the trace of an execution, and  *)
(* the graph made of it and reduced, for any number of threads, regions    *)
(* and calls, every routine, and executions of any length.                 *)
(*                                                                         *)
(* Offline trace analysis: the records of ndofta stay inside the file and  *)
(* its mapping, for every length of a segment and every length of the      *)
(* trace; and the second execution locates every bug that the analyzer     *)
(* found.                                                                  *)
(***************************************************************************)
EXTENDS CfgCollection, Ofta, FiniteSetTheorems, SequenceTheorems, WellFoundedInduction, TLAPS

--------------------------------------------------------------------------
(* Induction over a set of numbers, and the last of one.                   *)

LEMMA LeastElement ==
  ASSUME NEW T, T \subseteq Nat, T # {}
  PROVE  \E n \in T : \A m \in T : n <= m
  <1> DEFINE less == {p \in Nat \X Nat : p[1] < p[2]}
  <1>1. IsWellFoundedOn(less, Nat)
    BY NatLessThanWellFounded DEF OpToRel
  <1>2. PICK n \in T : \A m \in T : <<m, n>> \notin less
    BY <1>1, WFMin
  <1>3. \A m \in T : ~(m < n)
    BY <1>2
  <1> QED
    BY <1>3

LEMMA UpFromZero ==
  ASSUME NEW T, 0 \in T, \A n \in Nat : n \in T => n + 1 \in T
  PROVE  \A n \in Nat : n \in T
  <1> SUFFICES ASSUME Nat \ T # {} PROVE FALSE
    OBVIOUS
  <1>1. PICK n \in Nat \ T : \A m \in Nat \ T : n <= m
    BY LeastElement
  <1>2. n - 1 \in Nat /\ n - 1 \in T
    BY <1>1
  <1> QED
    BY <1>1, <1>2

LEMMA LastOf ==
  ASSUME NEW N \in Nat, NEW set \in SUBSET (1 .. N), set # {}
  PROVE  Max(set) \in set /\ \A m \in set : m <= Max(set)
  <1> DEFINE T == {N - m : m \in set}
  <1>0. \A m \in set : m \in Nat /\ m <= N
    OBVIOUS
  <1>a. \A m \in set : N - m \in Nat
    BY <1>0
  <1>1. T \subseteq Nat /\ T # {}
    BY <1>a
  <1>2. PICK n \in T : \A m \in T : n <= m
    BY <1>1, LeastElement
  <1>3. PICK x \in set : n = N - x
    OBVIOUS
  <1>4. ASSUME NEW m \in set PROVE m <= x
    <2>1. n <= N - m
      BY <1>2
    <2> QED
      BY <1>0, <1>3, <2>1
  <1>5. \E y \in set : \A m \in set : y >= m
    BY <1>3, <1>4
  <1>6. Max(set) \in set /\ \A m \in set : Max(set) >= m
    BY <1>5 DEF Max
  <1> QED
    BY <1>6

(***************************************************************************)
(* The mappings.                                                           *)
(***************************************************************************)

Calls ==
  {NoCall, [name |-> "other", region |-> Failed]}
    \cup [name : {"mmap", "mmapped", "munmap", "munmapped"}, region : Regions]

In(c, name)        == {t \in Threads : c[t].name = name}
RegionsOf(c, name) == {c[t].region : t \in In(c, name)}

Allocation == [start : Nat, size : Nat]

MappingTypes ==
  /\ mappings \subseteq Regions
  /\ call \in [Threads -> Calls]
  /\ allocs \in Seq(Allocation)
  /\ found_alloc \in BOOLEAN
  /\ wrapped \in Seq(Regions)
  /\ overlapped \in BOOLEAN

(* One call at a time.                                                     *)
Alone == \A t, u \in Threads : call[t] # NoCall /\ call[u] # NoCall => t = u

Apart(set) == \A r, s \in set : r # s => ~Overlap(r, s)

(* What the wrapper has yet to hear of, it hears of when the call returns  *)
(* to it.                                                                  *)
Tabled(table, maps, c) ==
  /\ IsInjective(table)
  /\ ToSet(table) = (maps \ RegionsOf(c, "mmapped")) \cup RegionsOf(c, "munmapped")
  /\ RegionsOf(c, "mmapped") \cup RegionsOf(c, "munmap") \subseteq maps
  /\ RegionsOf(c, "munmapped") \cap maps = {}
  /\ Apart(maps \cup RegionsOf(c, "munmapped"))

(* PIN's table has every mapping, besides the entry that waits for its     *)
(* address.                                                                *)
Recorded(table, r, n) == \E i \in 1 .. n : table[i].start = r.start /\ table[i].size = r.size

Waits(c) == In(c, "mmap") # {}

Traced(table, waits, maps, c) ==
  /\ waits <=> Waits(c)
  /\ \A r \in RegionsOf(c, "mmap") : Len(table) >= 1 /\ table[Len(table)].size = r.size
  /\ \A r \in maps : Recorded(table, r, IF Waits(c) THEN Len(table) - 1 ELSE Len(table))

MappingsInv ==
  /\ MappingTypes
  /\ ~overlapped => /\ Alone
                    /\ Tabled(wrapped, mappings, call)
                    /\ Traced(allocs, found_alloc, mappings, call)

--------------------------------------------------------------------------
LEMMA RegionFields ==
  ASSUME NEW r \in Regions
  PROVE  /\ r.start \in Nat /\ r.size \in Nat \ {0} /\ r = [start |-> r.start, size |-> r.size]
         /\ Overlap(r, r)
  <1>1. r \in [start : Nat, size : Nat \ {0}]
    BY RegionsAssumption
  <1> QED
    BY <1>1 DEF Overlap

LEMMA CallFields ==
  ASSUME NEW k \in Calls
  PROVE  /\ k.name \in {"none", "other", "mmap", "mmapped", "munmap", "munmapped"}
         /\ k.name = "none" <=> k = NoCall
         /\ k.name \in {"mmap", "mmapped", "munmap", "munmapped"} => k.region \in Regions
         /\ k = [name |-> k.name, region |-> k.region]
  BY DEF Calls, NoCall

(* When all the other threads are out of calls, what counts is one call.   *)
Sole(c, t) == \A u \in Threads \ {t} : c[u] = NoCall

LEMMA SoleSets ==
  ASSUME NEW c, NEW t \in Threads, Sole(c, t), NEW name, name # "none"
  PROVE  RegionsOf(c, name) = (IF c[t].name = name THEN {c[t].region} ELSE {})
         /\ (In(c, name) # {} <=> c[t].name = name)
  <1>1. In(c, name) = IF c[t].name = name THEN {t} ELSE {}
    BY DEF In, Sole, NoCall
  <1> QED
    BY <1>1 DEF RegionsOf

TabledBy(table, maps, k) ==
  /\ IsInjective(table)
  /\ k.name = "mmapped" => ToSet(table) = maps \ {k.region}
  /\ k.name = "munmapped" => ToSet(table) = maps \cup {k.region}
  /\ k.name \notin {"mmapped", "munmapped"} => ToSet(table) = maps
  /\ k.name \in {"mmapped", "munmap"} => k.region \in maps
  /\ k.name = "munmapped" => k.region \notin maps /\ Apart(maps \cup {k.region})
  /\ k.name # "munmapped" => Apart(maps)

TracedBy(table, waits, maps, k) ==
  /\ waits <=> k.name = "mmap"
  /\ k.name = "mmap" => /\ Len(table) >= 1 /\ table[Len(table)].size = k.region.size
                        /\ \A r \in maps : Recorded(table, r, Len(table) - 1)
  /\ k.name # "mmap" => \A r \in maps : Recorded(table, r, Len(table))

LEMMA SoleTabled ==
  ASSUME NEW c, NEW t \in Threads, Sole(c, t), NEW table, NEW maps
  PROVE  Tabled(table, maps, c) <=> TabledBy(table, maps, c[t])
  <1> DEFINE k == c[t]
  <1>1. /\ RegionsOf(c, "mmapped") = IF k.name = "mmapped" THEN {k.region} ELSE {}
        /\ RegionsOf(c, "munmapped") = IF k.name = "munmapped" THEN {k.region} ELSE {}
        /\ RegionsOf(c, "munmap") = IF k.name = "munmap" THEN {k.region} ELSE {}
    BY SoleSets
  <1> HIDE DEF k
  <1>2. CASE k.name = "mmapped"
    BY <1>1, <1>2 DEF Tabled, TabledBy, k
  <1>3. CASE k.name = "munmapped"
    BY <1>1, <1>3 DEF Tabled, TabledBy, k
  <1>4. CASE k.name \notin {"mmapped", "munmapped"}
    BY <1>1, <1>4 DEF Tabled, TabledBy, k
  <1> QED
    BY <1>2, <1>3, <1>4

LEMMA SoleTraced ==
  ASSUME NEW c, NEW t \in Threads, Sole(c, t), NEW table, NEW waits, NEW maps
  PROVE  Traced(table, waits, maps, c) <=> TracedBy(table, waits, maps, c[t])
  <1>1. /\ RegionsOf(c, "mmap") = IF c[t].name = "mmap" THEN {c[t].region} ELSE {}
        /\ Waits(c) <=> c[t].name = "mmap"
    BY SoleSets DEF Waits
  <1> QED
    BY <1>1 DEF Traced, TracedBy

LEMMA InitMappings == CollectionInit => MappingsInv
  <1> SUFFICES ASSUME CollectionInit PROVE MappingsInv
    OBVIOUS
  <1>1. /\ mappings = {} /\ call = [t \in Threads |-> NoCall] /\ allocs = <<>> /\ found_alloc = FALSE
        /\ wrapped = <<>> /\ overlapped = FALSE
    BY DEF CollectionInit, MappingsInit
  <1>2. \A name : name # "none" => In(call, name) = {} /\ RegionsOf(call, name) = {}
    BY <1>1 DEF In, RegionsOf, NoCall
  <1>a. NoCall \in Calls /\ <<>> \in Seq(Allocation) /\ <<>> \in Seq(Regions)
    BY DEF Calls
  <1>b. call \in [Threads -> Calls] /\ \A t \in Threads : call[t] = NoCall
    BY <1>1, <1>a
  <1>3. MappingTypes /\ Alone
    BY <1>1, <1>a, <1>b DEF MappingTypes, Alone
  <1>4. ToSet(<<>>) = {} /\ IsInjective(<<>>)
    BY DEF ToSet, IsInjective
  <1>c. RegionsOf(call, "mmapped") = {} /\ RegionsOf(call, "munmapped") = {} /\ RegionsOf(call, "munmap") = {}
    BY <1>2
  <1>5. Tabled(wrapped, mappings, call)
    BY <1>1, <1>c, <1>4 DEF Tabled, Apart
  <1>6. Traced(allocs, found_alloc, mappings, call)
    BY <1>1, <1>2 DEF Traced, Waits
  <1> QED
    BY <1>3, <1>5, <1>6 DEF MappingsInv

(* What a step of one thread has to show.                                  *)
LEMMA OneThread ==
  ASSUME MappingsInv, NEW t \in Threads, Interleaved(t), NEW k \in Calls, call' = [call EXCEPT ![t] = k]
  PROVE  /\ call' \in [Threads -> Calls] /\ call'[t] = k /\ overlapped' \in BOOLEAN
         /\ ~overlapped' => /\ ~overlapped /\ Alone'
                            /\ TabledBy(wrapped, mappings, call[t])
                            /\ TracedBy(allocs, found_alloc, mappings, call[t])
                            /\ TabledBy(wrapped', mappings', k) => Tabled(wrapped', mappings', call')
                            /\ TracedBy(allocs', found_alloc', mappings', k) => Traced(allocs', found_alloc', mappings', call')
  <1>1. call \in [Threads -> Calls] /\ overlapped \in BOOLEAN
    BY DEF MappingsInv, MappingTypes
  <1>2. call' \in [Threads -> Calls] /\ call'[t] = k /\ \A u \in Threads \ {t} : call'[u] = call[u]
    BY <1>1
  <1>3. overlapped' \in BOOLEAN
    BY <1>1 DEF Interleaved
  <1>4. ASSUME ~overlapped' PROVE ~overlapped /\ Sole(call, t)
    BY <1>1, <1>4 DEF Interleaved, Sole
  <1>5. ASSUME ~overlapped' PROVE Sole(call', t) /\ Alone'
    BY <1>2, <1>4, <1>5 DEF Sole, Alone
  <1>6. ASSUME ~overlapped'
        PROVE  TabledBy(wrapped, mappings, call[t]) /\ TracedBy(allocs, found_alloc, mappings, call[t])
    BY <1>4, <1>6, SoleTabled, SoleTraced DEF MappingsInv
  <1>7. ASSUME ~overlapped'
        PROVE  /\ TabledBy(wrapped', mappings', k) => Tabled(wrapped', mappings', call')
               /\ TracedBy(allocs', found_alloc', mappings', k) => Traced(allocs', found_alloc', mappings', call')
    BY <1>2, <1>5, <1>7, SoleTabled, SoleTraced
  <1> QED
    BY <1>2, <1>3, <1>4, <1>5, <1>6, <1>7

LEMMA AppendTable ==
  ASSUME NEW S, NEW table \in Seq(S), NEW e \in S
  PROVE  /\ Append(table, e) \in Seq(S)
         /\ Len(table) \in Nat /\ Len(Append(table, e)) = Len(table) + 1 /\ DOMAIN table = 1 .. Len(table)
         /\ Append(table, e)[Len(table) + 1] = e
         /\ \A i \in 1 .. Len(table) : Append(table, e)[i] = table[i]
         /\ ToSet(Append(table, e)) = ToSet(table) \cup {e}
         /\ IsInjective(table) /\ e \notin ToSet(table) => IsInjective(Append(table, e))
  <1>1. /\ Append(table, e) \in Seq(S)
        /\ Len(table) \in Nat /\ Len(Append(table, e)) = Len(table) + 1 /\ DOMAIN table = 1 .. Len(table)
        /\ DOMAIN Append(table, e) = 1 .. Len(table) + 1
        /\ Append(table, e)[Len(table) + 1] = e
        /\ \A i \in 1 .. Len(table) : Append(table, e)[i] = table[i]
    OBVIOUS
  <1> DEFINE a == Append(table, e)
  <1> HIDE DEF a
  <1>2. \A i \in 1 .. Len(table) + 1 : i \in 1 .. Len(table) \/ i = Len(table) + 1
    BY <1>1
  <1>3. \A i \in 1 .. Len(table) : i \in 1 .. Len(table) + 1
    BY <1>1
  <1>4. Len(table) + 1 \in 1 .. Len(table) + 1
    BY <1>1
  <1>5. ToSet(a) = ToSet(table) \cup {e}
    BY <1>1, <1>2, <1>3, <1>4 DEF ToSet, a
  <1>6. IsInjective(table) /\ e \notin ToSet(table) => IsInjective(a)
    BY <1>1, <1>2, <1>3, <1>4 DEF ToSet, a, IsInjective
  <1> QED
    BY <1>1, <1>5, <1>6 DEF a

LEMMA EntryMappings ==
  ASSUME MappingsInv, NEW t \in Threads, SyscallEntry(t)
  PROVE  MappingsInv'
  <1>0. MappingTypes /\ call[t] = NoCall /\ call[t].name = "none" /\ UNCHANGED <<mappings, wrapped>> /\ Interleaved(t)
    BY DEF MappingsInv, SyscallEntry, NoCall
  <1>1. ASSUME NEW r \in Regions, call' = [call EXCEPT ![t] = [name |-> "mmap", region |-> r]], SysBefore(r.size)
        PROVE  MappingsInv'
    <2> DEFINE k == [name |-> "mmap", region |-> r]
    <2>1. k \in Calls /\ k.name = "mmap" /\ k.region = r
      BY DEF Calls
    <2> DEFINE e == [start |-> 0, size |-> r.size]
    <2>2. e \in Allocation /\ e.size = r.size
      BY RegionFields DEF Allocation
    <2>3. allocs' = Append(allocs, e) /\ found_alloc' = TRUE
      BY <1>1 DEF SysBefore
    <2> HIDE DEF k, e
    <2>4. call' = [call EXCEPT ![t] = k]
      BY <1>1 DEF k
    <2>5. allocs' \in Seq(Allocation) /\ Len(allocs) \in Nat /\ Len(allocs') = Len(allocs) + 1 /\ allocs'[Len(allocs')] = e
          /\ \A i \in 1 .. Len(allocs) : allocs'[i] = allocs[i]
      BY <1>0, <2>2, <2>3, AppendTable DEF MappingTypes
    <2>6. MappingTypes'
      BY <1>0, <2>1, <2>3, <2>4, <2>5, OneThread DEF MappingTypes
    <2>7. ASSUME ~overlapped'
          PROVE  Alone' /\ Tabled(wrapped', mappings', call') /\ Traced(allocs', found_alloc', mappings', call')
      <3>1. /\ Alone'
            /\ TabledBy(wrapped, mappings, call[t])
            /\ TracedBy(allocs, found_alloc, mappings, call[t])
            /\ TabledBy(wrapped', mappings', k) => Tabled(wrapped', mappings', call')
            /\ TracedBy(allocs', found_alloc', mappings', k) => Traced(allocs', found_alloc', mappings', call')
        BY <1>0, <2>1, <2>4, <2>7, OneThread
      <3>2. TabledBy(wrapped', mappings', k)
        BY <1>0, <2>1, <3>1 DEF TabledBy
      <3>3. \A q \in mappings : Recorded(allocs, q, Len(allocs))
        BY <1>0, <3>1 DEF TracedBy
      <3>4. \A q \in mappings : Recorded(allocs', q, Len(allocs') - 1)
        BY <2>5, <3>3 DEF Recorded
      <3>6. Len(allocs') >= 1 /\ allocs'[Len(allocs')].size = r.size
        BY <2>2, <2>5
      <3>7. TracedBy(allocs', found_alloc', mappings', k)
        BY <1>0, <2>1, <2>3, <3>4, <3>6 DEF TracedBy
      <3> QED
        BY <3>1, <3>2, <3>7
    <2> QED
      BY <2>6, <2>7 DEF MappingsInv
  <1>2. ASSUME NEW k \in Calls, k.name \in {"munmap", "other"}, k.name = "munmap" => k.region \in mappings,
               call' = [call EXCEPT ![t] = k], UNCHANGED <<allocs, found_alloc>>
        PROVE  MappingsInv'
    <2>1. MappingTypes'
      BY <1>0, <1>2, OneThread DEF MappingTypes
    <2>2. ASSUME ~overlapped'
          PROVE  Alone' /\ Tabled(wrapped', mappings', call') /\ Traced(allocs', found_alloc', mappings', call')
      <3>1. /\ Alone'
            /\ TabledBy(wrapped, mappings, call[t])
            /\ TracedBy(allocs, found_alloc, mappings, call[t])
            /\ TabledBy(wrapped', mappings', k) => Tabled(wrapped', mappings', call')
            /\ TracedBy(allocs', found_alloc', mappings', k) => Traced(allocs', found_alloc', mappings', call')
        BY <1>0, <1>2, <2>2, OneThread
      <3>2. TabledBy(wrapped', mappings', k)
        BY <1>0, <1>2, <3>1 DEF TabledBy
      <3>3. TracedBy(allocs', found_alloc', mappings', k)
        BY <1>0, <1>2, <3>1 DEF TracedBy
      <3> QED
        BY <3>1, <3>2, <3>3
    <2> QED
      BY <2>1, <2>2 DEF MappingsInv
  <1>3. ASSUME NEW r \in mappings, call' = [call EXCEPT ![t] = [name |-> "munmap", region |-> r]],
               UNCHANGED <<allocs, found_alloc>>
        PROVE  MappingsInv'
    <2>1. PICK k : k = [name |-> "munmap", region |-> r]
      OBVIOUS
    <2>2. k \in Calls /\ k.name = "munmap" /\ k.region = r
      BY <1>0, <2>1 DEF Calls, MappingTypes
    <2> QED
      BY <1>2, <1>3, <2>1, <2>2
  <1>4. ASSUME call' = [call EXCEPT ![t] = [name |-> "other", region |-> Failed]], UNCHANGED <<allocs, found_alloc>>
        PROVE  MappingsInv'
    <2>1. PICK k : k = [name |-> "other", region |-> Failed]
      OBVIOUS
    <2>2. k \in Calls /\ k.name = "other"
      BY <2>1 DEF Calls
    <2> QED
      BY <1>2, <1>4, <2>1, <2>2
  <1> QED
    BY <1>1, <1>3, <1>4 DEF SyscallEntry

(* The address of a mapping completes the last entry of PIN's table.       *)
LEMMA CompletedTable ==
  ASSUME NEW table \in Seq(Allocation), Len(table) >= 1, NEW value \in Nat,
         NEW other, other = [table EXCEPT ![Len(table)].start = value]
  PROVE  /\ other \in Seq(Allocation) /\ Len(other) = Len(table) /\ Len(table) \in Nat \ {0}
         /\ other[Len(table)] = [start |-> value, size |-> table[Len(table)].size]
         /\ \A i \in 1 .. Len(table) - 1 : other[i] = table[i]
  <1>1. Len(table) \in Nat \ {0} /\ DOMAIN table = 1 .. Len(table) /\ \A i \in 1 .. Len(table) : table[i] \in Allocation
    OBVIOUS
  <1>2. DOMAIN other = 1 .. Len(table) /\ \A i \in 1 .. Len(table) - 1 : other[i] = table[i]
    BY <1>1
  <1>3. other[Len(table)] = [start |-> value, size |-> table[Len(table)].size]
    <2>1. Len(table) \in DOMAIN table /\ table[Len(table)] \in Allocation
      BY <1>1
    <2>2. other[Len(table)] = [table[Len(table)] EXCEPT !.start = value]
      BY <2>1
    <2> QED
      BY <2>1, <2>2 DEF Allocation
  <1>4. other[Len(table)] \in Allocation
    BY <1>1, <1>3 DEF Allocation
  <1>5. \A i \in 1 .. Len(table) : i \in 1 .. Len(table) - 1 \/ i = Len(table)
    BY <1>1
  <1>6. \A i \in 1 .. Len(table) : other[i] \in Allocation
    BY <1>1, <1>2, <1>4, <1>5
  <1>7. other = [i \in 1 .. Len(table) |-> other[i]]
    BY <1>1, <1>2
  <1>8. other \in [1 .. Len(table) -> Allocation]
    BY <1>6, <1>7
  <1>9. other \in Seq(Allocation) /\ Len(other) = Len(table)
    BY <1>1, <1>8
  <1> QED
    BY <1>1, <1>2, <1>3, <1>9

(* A call ends: of those that a thread can be in, only a mapping waits.    *)
LEMMA ExitMappings ==
  ASSUME MappingsInv, NEW t \in Threads, SyscallExit(t)
  PROVE  MappingsInv'
  <1> DEFINE r == call[t].region
  <1>0. /\ MappingTypes /\ UNCHANGED wrapped /\ Interleaved(t) /\ call[t] \in Calls /\ found_alloc \in BOOLEAN
        /\ Failed.start \in Nat
    BY DEF MappingsInv, MappingTypes, SyscallExit, Failed
  <1>a. ASSUME NEW value \in Nat, SysAfter(value)
        PROVE  /\ found_alloc' = FALSE
               /\ ~found_alloc \/ Len(allocs) = 0 => allocs' = allocs
               /\ found_alloc => allocs' = [allocs EXCEPT ![Len(allocs)].start = value]
               /\ allocs' \in Seq(Allocation)
    <2>1. allocs \in Seq(Allocation) /\ Len(allocs) \in Nat /\ DOMAIN allocs = 1 .. Len(allocs)
      BY <1>0 DEF MappingTypes
    <2>5. found_alloc' = FALSE
      BY <1>a DEF SysAfter
    <2>6. ~found_alloc \/ Len(allocs) = 0 => allocs' = allocs
      <3>1. CASE ~found_alloc
        BY <1>a, <3>1 DEF SysAfter
      <3>2. CASE found_alloc /\ Len(allocs) = 0
        <4>1. Len(allocs) \notin DOMAIN allocs
          BY <2>1, <3>2
        <4> QED
          BY <1>a, <2>1, <3>2, <4>1 DEF SysAfter
      <3> QED
        BY <1>0, <3>1, <3>2
    <2>7. found_alloc => allocs' = [allocs EXCEPT ![Len(allocs)].start = value]
      BY <1>a DEF SysAfter
    <2>8. allocs' \in Seq(Allocation)
      <3>1. CASE found_alloc /\ Len(allocs) >= 1
        BY <2>1, <2>7, <3>1, CompletedTable
      <3>2. CASE ~found_alloc \/ Len(allocs) = 0
        BY <2>1, <2>6, <3>2
      <3> QED
        BY <2>1, <3>1, <3>2
    <2> QED
      BY <2>5, <2>6, <2>7, <2>8
  <1>b. ASSUME NEW k \in Calls, call' = [call EXCEPT ![t] = k], mappings' \subseteq Regions,
               NEW value \in Nat, SysAfter(value), k.name # "mmap",
               ASSUME TabledBy(wrapped, mappings, call[t]), TracedBy(allocs, found_alloc, mappings, call[t])
               PROVE  TabledBy(wrapped, mappings', k) /\ \A q \in mappings' : Recorded(allocs', q, Len(allocs'))
        PROVE  MappingsInv'
    <2>1. MappingTypes'
      BY <1>0, <1>a, <1>b, OneThread DEF MappingTypes
    <2>2. ASSUME ~overlapped'
          PROVE  Alone' /\ Tabled(wrapped', mappings', call') /\ Traced(allocs', found_alloc', mappings', call')
      <3>1. /\ Alone'
            /\ TabledBy(wrapped, mappings, call[t])
            /\ TracedBy(allocs, found_alloc, mappings, call[t])
            /\ TabledBy(wrapped', mappings', k) => Tabled(wrapped', mappings', call')
            /\ TracedBy(allocs', found_alloc', mappings', k) => Traced(allocs', found_alloc', mappings', call')
        BY <1>0, <1>b, <2>2, OneThread
      <3>2. TabledBy(wrapped, mappings', k) /\ \A q \in mappings' : Recorded(allocs', q, Len(allocs'))
        BY <1>b, <3>1
      <3>3. found_alloc' = FALSE
        BY <1>a, <1>b
      <3>4. TracedBy(allocs', found_alloc', mappings', k)
        BY <1>b, <3>2, <3>3 DEF TracedBy
      <3> QED
        BY <1>0, <3>1, <3>2, <3>4
    <2> QED
      BY <2>1, <2>2 DEF MappingsInv
  <1>c. ASSUME TabledBy(wrapped, mappings, call[t]), TracedBy(allocs, found_alloc, mappings, call[t])
        PROVE  /\ IsInjective(wrapped)
               /\ call[t].name \in {"mmap", "munmap", "other"} => ToSet(wrapped) = mappings /\ Apart(mappings)
               /\ call[t].name = "munmap" => r \in mappings
               /\ call[t].name = "mmap" => /\ found_alloc /\ Len(allocs) >= 1 /\ allocs[Len(allocs)].size = r.size
                                           /\ \A q \in mappings : Recorded(allocs, q, Len(allocs) - 1)
               /\ call[t].name # "mmap" => ~found_alloc /\ \A q \in mappings : Recorded(allocs, q, Len(allocs))
    BY <1>c DEF TabledBy, TracedBy
  \* What was recorded before the last entry stays so when that is completed.
  <1>d. ASSUME found_alloc, Len(allocs) >= 1, NEW value \in Nat, SysAfter(value)
        PROVE  /\ Len(allocs') = Len(allocs) /\ Len(allocs) \in Nat \ {0}
               /\ allocs'[Len(allocs')] = [start |-> value, size |-> allocs[Len(allocs)].size]
               /\ \A q : Recorded(allocs, q, Len(allocs) - 1) => Recorded(allocs', q, Len(allocs'))
    <2>1. allocs \in Seq(Allocation) /\ allocs' = [allocs EXCEPT ![Len(allocs)].start = value]
      BY <1>0, <1>d DEF SysAfter, MappingTypes
    <2>2. /\ Len(allocs') = Len(allocs) /\ Len(allocs) \in Nat \ {0}
          /\ allocs'[Len(allocs)] = [start |-> value, size |-> allocs[Len(allocs)].size]
          /\ \A i \in 1 .. Len(allocs) - 1 : allocs'[i] = allocs[i]
      BY <1>d, <2>1, CompletedTable
    <2>3. \A i \in 1 .. Len(allocs) - 1 : i \in 1 .. Len(allocs')
      BY <2>2
    <2>4. \A q : Recorded(allocs, q, Len(allocs) - 1) => Recorded(allocs', q, Len(allocs'))
      BY <2>2, <2>3 DEF Recorded
    <2> QED
      BY <2>2, <2>4
  <1>1. ASSUME call[t].name = "mmap", \A q \in mappings : ~Overlap(q, r), mappings' = mappings \cup {r},
               call' = [call EXCEPT ![t].name = "mmapped"], SysAfter(r.start)
        PROVE  MappingsInv'
    <2>0. r \in Regions /\ mappings \subseteq Regions
      BY <1>0, <1>1, CallFields DEF MappingTypes
    <2>1. PICK k : k = [name |-> "mmapped", region |-> r]
      OBVIOUS
    <2>2. k \in Calls /\ k.name = "mmapped" /\ k.region = r
      BY <2>0, <2>1 DEF Calls
    <2>3. [call[t] EXCEPT !.name = "mmapped"] = k
      BY <1>0, <2>1, CallFields
    <2>4. call' = [call EXCEPT ![t] = k]
      BY <1>0, <1>1, <2>3 DEF MappingTypes
    <2>5. r \notin mappings /\ r.start \in Nat
      BY <1>1, <2>0, RegionFields
    <2>6. ASSUME Apart(mappings) PROVE Apart(mappings')
      <3>1. ASSUME NEW a \in mappings, NEW b \in mappings', a # b PROVE ~Overlap(a, b)
        BY <1>1, <2>6, <3>1 DEF Apart
      <3>2. \A a, b \in Regions : Overlap(a, b) <=> Overlap(b, a)
        BY DEF Overlap
      <3> QED
        BY <1>1, <2>0, <3>1, <3>2 DEF Apart
    <2>7. ASSUME TabledBy(wrapped, mappings, call[t]), TracedBy(allocs, found_alloc, mappings, call[t])
          PROVE  TabledBy(wrapped, mappings', k) /\ \A q \in mappings' : Recorded(allocs', q, Len(allocs'))
      <3>1. /\ IsInjective(wrapped) /\ ToSet(wrapped) = mappings /\ Apart(mappings)
            /\ found_alloc /\ Len(allocs) >= 1 /\ allocs[Len(allocs)].size = r.size
            /\ \A q \in mappings : Recorded(allocs, q, Len(allocs) - 1)
        BY <1>1, <1>c, <2>7
      <3>2. /\ Len(allocs') \in Nat \ {0}
            /\ allocs'[Len(allocs')] = [start |-> r.start, size |-> r.size]
            /\ \A q \in mappings : Recorded(allocs', q, Len(allocs'))
        BY <1>1, <1>d, <2>5, <3>1
      <3>3. Recorded(allocs', r, Len(allocs'))
        BY <3>2 DEF Recorded
      <3>4. ToSet(wrapped) = mappings' \ {r} /\ r \in mappings'
        BY <1>1, <2>5, <3>1
      <3>5. TabledBy(wrapped, mappings', k)
        BY <2>2, <2>6, <3>1, <3>4 DEF TabledBy
      <3> QED
        BY <1>1, <3>2, <3>3, <3>5
    <2>8. mappings' \subseteq Regions
      BY <1>1, <2>0
    <2> HIDE DEF r
    <2> QED
      BY <1>1, <1>b, <2>2, <2>4, <2>5, <2>7, <2>8
  <1>2. ASSUME call[t].name = "mmap", mappings' = mappings, call' = [call EXCEPT ![t] = NoCall], SysAfter(Failed.start)
        PROVE  MappingsInv'
    <2>1. NoCall \in Calls /\ NoCall.name = "none" /\ mappings' \subseteq Regions
      BY <1>0, <1>2 DEF Calls, NoCall, MappingTypes
    <2>2. ASSUME TabledBy(wrapped, mappings, call[t]), TracedBy(allocs, found_alloc, mappings, call[t])
          PROVE  TabledBy(wrapped, mappings', NoCall) /\ \A q \in mappings' : Recorded(allocs', q, Len(allocs'))
      BY <1>0, <1>2, <1>c, <1>d, <2>1, <2>2 DEF TabledBy
    <2> QED
      BY <1>0, <1>2, <1>b, <2>1, <2>2
  <1>3. ASSUME call[t].name = "munmap", mappings' = mappings \ {r}, call' = [call EXCEPT ![t].name = "munmapped"],
               SysAfter(0)
        PROVE  MappingsInv'
    <2>0. r \in Regions /\ mappings \subseteq Regions
      BY <1>0, <1>3, CallFields DEF MappingTypes
    <2>1. PICK k : k = [name |-> "munmapped", region |-> r]
      OBVIOUS
    <2>2. k \in Calls /\ k.name = "munmapped" /\ k.region = r
      BY <2>0, <2>1 DEF Calls
    <2>3. [call[t] EXCEPT !.name = "munmapped"] = k
      BY <1>0, <2>1, CallFields
    <2>4. call' = [call EXCEPT ![t] = k]
      BY <1>0, <1>3, <2>3 DEF MappingTypes
    <2>5. ASSUME TabledBy(wrapped, mappings, call[t]), TracedBy(allocs, found_alloc, mappings, call[t])
          PROVE  TabledBy(wrapped, mappings', k) /\ \A q \in mappings' : Recorded(allocs', q, Len(allocs'))
      <3>1. /\ IsInjective(wrapped) /\ ToSet(wrapped) = mappings /\ Apart(mappings) /\ r \in mappings
            /\ ~found_alloc /\ \A q \in mappings : Recorded(allocs, q, Len(allocs))
        BY <1>3, <1>c, <2>5
      <3>2. allocs' = allocs /\ mappings' \cup {r} = mappings /\ r \notin mappings'
        BY <1>3, <1>a, <3>1
      <3>3. TabledBy(wrapped, mappings', k)
        BY <2>2, <3>1, <3>2 DEF TabledBy
      <3> QED
        BY <1>3, <3>1, <3>2, <3>3
    <2>6. mappings' \subseteq Regions
      BY <1>3, <2>0
    <2> HIDE DEF r
    <2> QED
      BY <1>3, <1>b, <2>2, <2>4, <2>5, <2>6
  <1>4. ASSUME call[t].name = "other", mappings' = mappings, call' = [call EXCEPT ![t] = NoCall], SysAfter(0)
        PROVE  MappingsInv'
    <2>1. NoCall \in Calls /\ NoCall.name = "none" /\ mappings' \subseteq Regions
      BY <1>0, <1>4 DEF Calls, NoCall, MappingTypes
    <2>2. ASSUME TabledBy(wrapped, mappings, call[t]), TracedBy(allocs, found_alloc, mappings, call[t])
          PROVE  TabledBy(wrapped, mappings', NoCall) /\ \A q \in mappings' : Recorded(allocs', q, Len(allocs'))
      <3>1. /\ IsInjective(wrapped) /\ ToSet(wrapped) = mappings /\ Apart(mappings)
            /\ ~found_alloc /\ \A q \in mappings : Recorded(allocs, q, Len(allocs))
        BY <1>4, <1>c, <2>2
      <3>2. allocs' = allocs
        BY <1>4, <1>a, <3>1
      <3> QED
        BY <1>4, <2>1, <3>1, <3>2 DEF TabledBy
    <2> QED
      BY <1>4, <1>b, <2>1, <2>2
  <1> QED
    BY <1>1, <1>2, <1>3, <1>4 DEF SyscallExit

(* Outside of calls the wrapper appends a region or drops one.             *)
LEMMA MmapMappings ==
  ASSUME MappingsInv, NEW t \in Threads, mmap(t)
  PROVE  MappingsInv'
  <1> DEFINE r == call[t].region
  <1>0. /\ MappingTypes /\ UNCHANGED <<mappings, allocs, found_alloc>> /\ Interleaved(t)
        /\ call[t] \in Calls /\ call[t].name = "mmapped" /\ call' = [call EXCEPT ![t] = NoCall]
        /\ wrapped' = Append(wrapped, r) \/ (wrapped' = wrapped /\ \E u \in Threads \ {t} : call[u].name \in {"mmapped", "munmapped"})
    BY DEF MappingsInv, MappingTypes, mmap
  <1>1. r \in Regions /\ NoCall \in Calls /\ NoCall.name = "none"
    BY <1>0, CallFields DEF Calls, NoCall
  <1> HIDE DEF r
  <1>2. MappingTypes'
    <2>1. wrapped' \in Seq(Regions)
      BY <1>0, <1>1, AppendTable DEF MappingTypes
    <2> QED
      BY <1>0, <1>1, <2>1, OneThread DEF MappingTypes
  <1>3. ASSUME ~overlapped'
        PROVE  Alone' /\ Tabled(wrapped', mappings', call') /\ Traced(allocs', found_alloc', mappings', call')
    <2>1. /\ Alone'
          /\ TabledBy(wrapped, mappings, call[t])
          /\ TracedBy(allocs, found_alloc, mappings, call[t])
          /\ TabledBy(wrapped', mappings', NoCall) => Tabled(wrapped', mappings', call')
          /\ TracedBy(allocs', found_alloc', mappings', NoCall) => Traced(allocs', found_alloc', mappings', call')
      BY <1>0, <1>1, <1>3, OneThread
    <2>2. wrapped' = Append(wrapped, r)
      <3>1. \A u \in Threads \ {t} : call[u] = NoCall
        BY <1>0, <1>3 DEF Interleaved
      <3> QED
        BY <1>0, <1>1, <3>1
    <2>3. IsInjective(wrapped) /\ ToSet(wrapped) = mappings \ {r} /\ r \in mappings /\ Apart(mappings)
      BY <1>0, <2>1 DEF TabledBy, r
    <2>4. IsInjective(wrapped') /\ ToSet(wrapped') = mappings
      <3>1. wrapped \in Seq(Regions) /\ r \notin ToSet(wrapped)
        BY <1>0, <2>3 DEF MappingTypes
      <3>2. IsInjective(wrapped') /\ ToSet(wrapped') = ToSet(wrapped) \cup {r}
        BY <1>1, <2>2, <2>3, <3>1, AppendTable
      <3> QED
        BY <2>3, <3>2
    <2>5. TabledBy(wrapped', mappings', NoCall)
      BY <1>0, <1>1, <2>3, <2>4 DEF TabledBy
    <2>6. TracedBy(allocs', found_alloc', mappings', NoCall)
      BY <1>0, <1>1, <2>1 DEF TracedBy
    <2> QED
      BY <2>1, <2>5, <2>6
  <1> QED
    BY <1>2, <1>3 DEF MappingsInv

LEMMA RemovedTable ==
  ASSUME NEW S, NEW table \in Seq(S), NEW i \in 1 .. Len(table)
  PROVE  /\ RemoveAt(table, i) \in Seq(S)
         /\ IsInjective(table) => /\ IsInjective(RemoveAt(table, i))
                                  /\ ToSet(RemoveAt(table, i)) = ToSet(table) \ {table[i]}
  <1> DEFINE N == Len(table)
             a == SubSeq(table, 1, i - 1)
             b == SubSeq(table, i + 1, N)
             o == RemoveAt(table, i)
  <1>1. N \in Nat /\ i \in Nat /\ 1 <= i /\ i <= N /\ DOMAIN table = 1 .. N /\ \A j \in 1 .. N : table[j] \in S
    OBVIOUS
  <1>2. a \in Seq(S) /\ Len(a) = i - 1 /\ \A j \in 1 .. i - 1 : a[j] = table[j]
    <2>1. \A j \in 1 .. i - 1 : j \in 1 .. N
      BY <1>1
    <2> QED
      BY <1>1, <2>1
  <1>3. b \in Seq(S) /\ Len(b) = N - i /\ \A j \in 1 .. N - i : b[j] = table[j + i]
    <2> DEFINE f == [j \in 1 .. N - i |-> table[j + i]]
    <2>1. \A j \in 1 .. N - i : j + i \in 1 .. N
      BY <1>1
    <2>2. N - i \in Nat /\ f \in Seq(S) /\ Len(f) = N - i
      <3>1. N - i \in Nat /\ f \in [1 .. N - i -> S]
        BY <1>1, <2>1
      <3> QED
        BY <3>1
    <2>3. b = f
      <3>1. b = [j \in 1 .. (N - (i + 1)) + 1 |-> table[(i + 1) + j - 1]]
        BY <1>1
      <3>2. (N - (i + 1)) + 1 = N - i /\ \A j \in 1 .. N - i : (i + 1) + j - 1 = j + i
        BY <1>1
      <3> QED
        BY <3>1, <3>2
    <2> QED
      BY <2>2, <2>3
  <1>4. o = a \o b
    BY DEF RemoveAt
  <1> HIDE DEF a, b, o
  <1>5. /\ o \in Seq(S) /\ Len(o) = N - 1 /\ DOMAIN o = 1 .. N - 1
        /\ \A j \in 1 .. i - 1 : o[j] = table[j]
        /\ \A j \in i .. N - 1 : o[j] = table[j + 1]
    <2>1. o \in Seq(S) /\ Len(o) = N - 1 /\ DOMAIN o = 1 .. N - 1
      <3>1. o \in Seq(S) /\ Len(o) = Len(a) + Len(b)
        BY <1>2, <1>3, <1>4, ConcatProperties
      <3>2. Len(o) = N - 1
        BY <1>1, <1>2, <1>3, <3>1
      <3> QED
        BY <3>1, <3>2
    <2>2. ASSUME NEW j \in 1 .. i - 1 PROVE o[j] = table[j]
      BY <1>1, <1>2, <1>3, <1>4
    <2>3. ASSUME NEW j \in i .. N - 1 PROVE o[j] = table[j + 1]
      <3>1. j - (i - 1) \in 1 .. N - i /\ (j - (i - 1)) + i = j + 1
        BY <1>1
      <3>2. o[j] = b[j - (i - 1)]
        BY <1>1, <1>2, <1>3, <1>4
      <3> QED
        BY <1>3, <3>1, <3>2
    <2> QED
      BY <2>1, <2>2, <2>3
  <1>6. ASSUME IsInjective(table)
        PROVE  IsInjective(o) /\ ToSet(o) = ToSet(table) \ {table[i]}
    <2> DEFINE At(j) == IF j < i THEN j ELSE j + 1
    <2>1. \A j \in 1 .. N - 1 : At(j) \in 1 .. N /\ At(j) # i /\ o[j] = table[At(j)]
      BY <1>1, <1>5
    <2>2. \A j, k \in 1 .. N - 1 : At(j) = At(k) => j = k
      BY <1>1
    <2>3. \A k \in 1 .. N : k # i => \E j \in 1 .. N - 1 : At(j) = k
      <3> SUFFICES ASSUME NEW k \in 1 .. N, k # i PROVE \E j \in 1 .. N - 1 : At(j) = k
        OBVIOUS
      <3>1. CASE k < i
        <4>1. k \in 1 .. N - 1 /\ At(k) = k
          BY <1>1, <3>1
        <4> QED
          BY <4>1
      <3>2. CASE k > i
        <4>1. k - 1 \in 1 .. N - 1 /\ At(k - 1) = k
          BY <1>1, <3>2
        <4> QED
          BY <4>1
      <3> QED
        BY <1>1, <3>1, <3>2
    <2> HIDE DEF At
    <2>4. IsInjective(o)
      <3> SUFFICES ASSUME NEW j \in 1 .. N - 1, NEW k \in 1 .. N - 1, o[j] = o[k] PROVE j = k
        BY <1>5 DEF IsInjective
      <3>1. At(j) = At(k)
        BY <1>1, <1>6, <2>1 DEF IsInjective
      <3> QED
        BY <2>2, <3>1
    <2>5. ToSet(o) = ToSet(table) \ {table[i]}
      <3>1. ASSUME NEW e \in ToSet(o) PROVE e \in ToSet(table) \ {table[i]}
        <4>1. PICK j \in 1 .. N - 1 : e = o[j]
          BY <1>5 DEF ToSet
        <4> QED
          BY <1>1, <1>6, <2>1, <4>1 DEF ToSet, IsInjective
      <3>2. ASSUME NEW e \in ToSet(table) \ {table[i]} PROVE e \in ToSet(o)
        <4>1. PICK k \in 1 .. N : e = table[k] /\ k # i
          BY <1>1 DEF ToSet
        <4>2. PICK j \in 1 .. N - 1 : At(j) = k
          BY <2>3, <4>1
        <4> QED
          BY <1>5, <2>1, <4>1, <4>2 DEF ToSet
      <3> QED
        BY <3>1, <3>2
    <2> QED
      BY <2>4, <2>5
  <1> QED
    BY <1>5, <1>6 DEF o

LEMMA MunmapMappings ==
  ASSUME MappingsInv, NEW t \in Threads, munmap(t)
  PROVE  MappingsInv'
  <1> DEFINE r     == call[t].region
             places == {i \in DOMAIN wrapped : wrapped[i].start = r.start}
  <1>0. /\ MappingTypes /\ UNCHANGED <<mappings, allocs, found_alloc>> /\ Interleaved(t)
        /\ call[t] \in Calls /\ call[t].name = "munmapped" /\ call' = [call EXCEPT ![t] = NoCall]
        /\ wrapped' = IF places = {} THEN wrapped ELSE RemoveAt(wrapped, CHOOSE i \in places : \A j \in places : i <= j)
    BY DEF MappingsInv, MappingTypes, munmap
  <1>1. r \in Regions /\ NoCall \in Calls /\ NoCall.name = "none"
    BY <1>0, CallFields DEF Calls, NoCall
  <1>2. wrapped \in Seq(Regions) /\ DOMAIN wrapped = 1 .. Len(wrapped) /\ Len(wrapped) \in Nat
    BY <1>0 DEF MappingTypes
  <1> HIDE DEF r
  <1>3. ASSUME places # {}
        PROVE  \E i \in places : wrapped' = RemoveAt(wrapped, i)
    <2>1. places \subseteq Nat
      BY <1>2
    <2> HIDE DEF places
    <2>2. \E i \in places : \A j \in places : i <= j
      BY <1>3, <2>1, LeastElement
    <2> QED
      BY <1>0, <1>3, <2>2
  <1>4. MappingTypes'
    <2>1. wrapped' \in Seq(Regions)
      <3>1. CASE places = {}
        BY <1>0, <1>2, <3>1
      <3>2. CASE places # {}
        <4>1. PICK i \in places : wrapped' = RemoveAt(wrapped, i)
          BY <1>3, <3>2
        <4> QED
          BY <1>2, <4>1, RemovedTable
      <3> QED
        BY <3>1, <3>2
    <2> QED
      BY <1>0, <1>1, <2>1, OneThread DEF MappingTypes
  <1>5. ASSUME ~overlapped'
        PROVE  Alone' /\ Tabled(wrapped', mappings', call') /\ Traced(allocs', found_alloc', mappings', call')
    <2>1. /\ Alone'
          /\ TabledBy(wrapped, mappings, call[t])
          /\ TracedBy(allocs, found_alloc, mappings, call[t])
          /\ TabledBy(wrapped', mappings', NoCall) => Tabled(wrapped', mappings', call')
          /\ TracedBy(allocs', found_alloc', mappings', NoCall) => Traced(allocs', found_alloc', mappings', call')
      BY <1>0, <1>1, <1>5, OneThread
    <2>3. /\ IsInjective(wrapped) /\ ToSet(wrapped) = mappings \cup {r} /\ r \notin mappings
          /\ Apart(mappings \cup {r})
      BY <1>0, <2>1 DEF TabledBy, r
    <2>4. PICK i \in 1 .. Len(wrapped) : wrapped[i] = r
      BY <1>2, <2>3 DEF ToSet
    <2>5. ASSUME NEW j \in places PROVE wrapped[j] = r
      <3>1. wrapped[j] \in mappings \cup {r} /\ wrapped[j] \in Regions
        BY <1>2, <2>3 DEF ToSet
      <3>2. Overlap(wrapped[j], r)
        BY <1>1, <3>1, RegionFields DEF Overlap
      <3> QED
        BY <2>3, <3>1, <3>2 DEF Apart
    <2>6. places # {}
      BY <1>2, <2>4
    <2>7. PICK j \in places : wrapped' = RemoveAt(wrapped, j)
      BY <1>3, <2>6
    <2>8. IsInjective(wrapped') /\ ToSet(wrapped') = mappings
      <3>1. j \in 1 .. Len(wrapped) /\ wrapped[j] = r
        BY <1>2, <2>5
      <3>2. IsInjective(wrapped') /\ ToSet(wrapped') = ToSet(wrapped) \ {wrapped[j]}
        BY <1>2, <2>3, <2>7, <3>1, RemovedTable
      <3> QED
        BY <2>3, <3>1, <3>2
    <2>9. Apart(mappings)
      BY <2>3 DEF Apart
    <2>10. TabledBy(wrapped', mappings', NoCall)
      BY <1>0, <1>1, <2>8, <2>9 DEF TabledBy
    <2>11. TracedBy(allocs', found_alloc', mappings', NoCall)
      BY <1>0, <1>1, <2>1 DEF TracedBy
    <2> QED
      BY <2>1, <2>10, <2>11
  <1> QED
    BY <1>4, <1>5 DEF MappingsInv

LEMMA NextMappings == MappingsInv /\ [CollectionNext]_<<mvars, gvars>> => MappingsInv'
  <1> SUFFICES ASSUME MappingsInv, [CollectionNext]_<<mvars, gvars>> PROVE MappingsInv'
    OBVIOUS
  <1>1. CASE UNCHANGED mvars
    <2>1. UNCHANGED <<mappings, call, allocs, found_alloc, wrapped, overlapped>>
      BY <1>1 DEF mvars
    <2> QED
      BY <2>1 DEF MappingsInv, MappingTypes, Alone
  <1>2. CASE MappingsNext
    BY <1>2, EntryMappings, ExitMappings, MmapMappings, MunmapMappings DEF MappingsNext
  <1>3. MappingsNext \/ UNCHANGED mvars
    BY DEF CollectionNext, Mapping, Execute, CollectCFGFini, LoadTrace, GetCFGforRTN, reduce, Written
  <1> QED
    BY <1>1, <1>2, <1>3

LEMMA QuietWrapperExact == MappingsInv => WrapperExact
  <1> SUFFICES ASSUME MappingsInv, Quiet, ~overlapped, NEW q \in Regions, NEW address \in q.start .. (q.start + q.size - 1)
               PROVE  is_pmem_addr(address, 1) <=> Mapped(address)
    BY DEF WrapperExact
  <1>1. \A name : name # "none" => RegionsOf(call, name) = {}
    BY DEF Quiet, RegionsOf, In, NoCall
  <1>2. RegionsOf(call, "mmapped") = {} /\ RegionsOf(call, "munmapped") = {}
    BY <1>1
  <1>3. ToSet(wrapped) = mappings /\ mappings \subseteq Regions
    BY <1>2 DEF MappingsInv, MappingTypes, Tabled
  <1>4. address \in Int
    BY RegionFields
  <1>5. is_pmem_addr(address, 1) <=> \E r \in mappings : address >= r.start /\ address + 1 <= r.start + r.size
    BY <1>3 DEF is_pmem_addr, InTable, ToSet
  <1>6. \A r \in mappings : r.start \in Nat /\ r.size \in Nat
    BY <1>3, RegionFields
  <1> QED
    BY <1>4, <1>5, <1>6 DEF Mapped
(***************************************************************************)
(* The accesses: PIN has no entry waiting for its address once the program *)
(* runs.                                                                   *)
(***************************************************************************)

Tracing ==
  /\ MappingsInv
  /\ phase # "map" => Quiet
  /\ missed => overlapped

LEMMA AccessTraced ==
  ASSUME Tracing, phase # "map", ~overlapped, NEW address \in Addresses, NEW size \in {0, 1}, Mapped(address)
  PROVE  IsPMAddress(address, size)
  <1>1. Quiet /\ mappings \subseteq Regions /\ allocs \in Seq(Allocation) /\ address \in Nat
    BY LinesAssumption DEF Tracing, MappingsInv, MappingTypes
  <1>2. ~Waits(call)
    BY <1>1 DEF Waits, In, Quiet, NoCall
  <1>3. \A r \in mappings : Recorded(allocs, r, Len(allocs))
    BY <1>2 DEF Tracing, MappingsInv, Traced
  <1>4. PICK r \in mappings : address >= r.start /\ address < r.start + r.size
    BY DEF Mapped
  <1>5. PICK i \in 1 .. Len(allocs) : allocs[i].start = r.start /\ allocs[i].size = r.size
    BY <1>3 DEF Recorded
  <1>6. r.start \in Nat /\ r.size \in Nat
    BY <1>1, RegionFields
  <1>7. i \in DOMAIN allocs
    BY <1>1
  <1>8. address + size <= r.start + r.size
    BY <1>1, <1>4, <1>6
  <1> QED
    BY <1>4, <1>5, <1>7, <1>8 DEF IsPMAddress, InTable

LEMMA NextTracing == Tracing /\ [CollectionNext]_<<mvars, gvars>> => Tracing'
  <1> SUFFICES ASSUME Tracing, [CollectionNext]_<<mvars, gvars>> PROVE Tracing'
    OBVIOUS
  <1>1. MappingsInv'
    BY NextMappings DEF Tracing
  <1>2. ASSUME UNCHANGED mvars PROVE (Quiet <=> Quiet') /\ overlapped' = overlapped
    BY <1>2 DEF mvars, Quiet
  <1>3. CASE UNCHANGED mvars /\ UNCHANGED <<phase, missed>>
    BY <1>1, <1>2, <1>3 DEF Tracing
  <1>4. CASE Mapping
    <2>1. ~missed' \/ overlapped'
      <3>1. missed' = missed /\ (overlapped => overlapped')
        <4>1. missed' = missed /\ (MappingsNext \/ UNCHANGED mvars)
          BY <1>4 DEF Mapping
        <4>2. ASSUME MappingsNext PROVE \E t \in Threads : Interleaved(t)
          BY <4>2 DEF MappingsNext, SyscallEntry, SyscallExit, mmap, munmap
        <4>3. overlapped \in BOOLEAN
          BY DEF Tracing, MappingsInv, MappingTypes
        <4>4. CASE MappingsNext
          <5>1. PICK t \in Threads : Interleaved(t)
            BY <4>2, <4>4
          <5> QED
            BY <4>1, <4>3, <5>1 DEF Interleaved
        <4> QED
          BY <1>2, <4>1, <4>4
      <3> QED
        BY <3>1 DEF Tracing
    <2>2. phase' # "map" => Quiet'
      BY <1>2, <1>4 DEF Mapping
    <2> QED
      BY <1>1, <2>1, <2>2 DEF Tracing
  <1>5. ASSUME NEW type \in {"load", "store", "flush"}, AccessHandler(type), UNCHANGED mvars, phase = "collect", phase' = phase
        PROVE  Tracing'
    <2>1. PICK address \in Addresses :
            missed' = (missed \/ (/\ ~IsPMAddress(address, IF type = "flush" THEN 0 ELSE 1)
                                  /\ Mapped(address)))
      BY <1>5 DEF AccessHandler
    <2>2. missed' => missed \/ overlapped
      BY <1>5, <2>1, AccessTraced
    <2> QED
      BY <1>1, <1>2, <1>5, <2>2 DEF Tracing
  <1>6. CASE Execute
    <2>1. UNCHANGED mvars /\ phase = "collect" /\ phase' = phase
      BY <1>6 DEF Execute
    <2>2. \/ \E type \in {"load", "store", "flush"} : AccessHandler(type)
          \/ UNCHANGED missed
      BY <1>6 DEF Execute, FenceHandler, IndirectBranchHandler
    <2> QED
      BY <1>3, <1>5, <2>1, <2>2
  <1>7. CASE CollectCFGFini \/ LoadTrace \/ GetCFGforRTN \/ reduce \/ Written
    <2>1. UNCHANGED mvars /\ missed' = missed /\ phase # "map"
      BY <1>7 DEF CollectCFGFini, LoadTrace, GetCFGforRTN, reduce, Written
    <2> QED
      BY <1>1, <1>2, <2>1 DEF Tracing
  <1>8. CASE UNCHANGED <<mvars, gvars>>
    BY <1>3, <1>8 DEF gvars
  <1> QED
    BY <1>4, <1>6, <1>7, <1>8 DEF CollectionNext

(* Both tables of mappings are those of the system, for any number of      *)
(* threads, regions and calls, of which any may fail: the wrapper's accepts *)
(* the addresses of the mappings (mmap_wrapper.c:80), and PIN's lets no    *)
(* access to one go untraced (pin_utils.hpp:58), as long as no two threads *)
(* were in a call at once.                                                 *)
THEOREM TablesAlwaysExact == CollectionSpec => []TablesExact
  <1>1. CollectionInit => Tracing
    <2> SUFFICES ASSUME CollectionInit PROVE Tracing
      OBVIOUS
    <2>1. phase = "map" /\ ~missed
      BY DEF CollectionInit
    <2> QED
      BY <2>1, InitMappings DEF Tracing
  <1>2. Tracing => TablesExact
    BY QuietWrapperExact DEF Tracing, TablesExact, AccessesTraced
  <1> QED
    BY <1>1, <1>2, NextTracing, PTL DEF CollectionSpec

(***************************************************************************)
(* The reduction of the graph: what is connected through a set of nodes    *)
(* does not depend on the order in which they are taken out.               *)
(***************************************************************************)

Pick(set) == CHOOSE x \in set : TRUE

Grid(N) == N \X N

\* What taking out a node adds.
Via(N, n, pairs) == pairs \cup {p \in Grid(N) : <<p[1], n>> \in pairs /\ <<n, p[2]>> \in pairs}

Through(N, edges, removed) ==
  FoldSet(LAMBDA n, pairs : pairs \cup {p \in N \X N : <<p[1], n>> \in pairs /\ <<n, p[2]>> \in pairs},
          edges, removed)

ViaPicked(N, set, f) == Via(N, Pick(set), f[set \ {Pick(set)}])

Joins(N, edges, removed, f) ==
  f = [set \in SUBSET removed |-> IF set = {} THEN edges ELSE ViaPicked(N, set, f)]

LEMMA PickedFrom ==
  ASSUME NEW set, IsFiniteSet(set), set # {}
  PROVE  /\ Pick(set) \in set /\ IsFiniteSet(set \ {Pick(set)})
         /\ \A x \in set : IsFiniteSet(set \ {x}) /\ Cardinality(set \ {x}) = Cardinality(set) - 1
  BY FS_RemoveElement DEF Pick

LEMMA ThroughSteps ==
  ASSUME NEW N, NEW edges, NEW R, IsFiniteSet(R)
  PROVE  \E f : Joins(N, edges, R, f) /\ Through(N, edges, R) = f[R]
  <1> DEFINE UpTo(m) == {set \in SUBSET R : Cardinality(set) <= m}
             Def(f, m) == f = [set \in UpTo(m) |-> IF set = {} THEN edges ELSE ViaPicked(N, set, f)]
             T == {m \in Nat : \E f : Def(f, m)}
  <1>0. \A set \in SUBSET R : IsFiniteSet(set) /\ Cardinality(set) \in Nat /\ (Cardinality(set) = 0 <=> set = {})
    BY FS_Subset, FS_CardinalityType, FS_EmptySet
  <1>a. ASSUME NEW set \in SUBSET R, set # {}
        PROVE  set \ {Pick(set)} \in SUBSET R /\ Cardinality(set \ {Pick(set)}) = Cardinality(set) - 1
    BY <1>0, <1>a, PickedFrom
  <1>1. 0 \in T
    <2>1. PICK g : g = [set \in UpTo(0) |-> edges]
      OBVIOUS
    <2>2. \A set \in UpTo(0) : set = {}
      BY <1>0
    <2>3. Def(g, 0)
      BY <2>1, <2>2
    <2>4. \E f : Def(f, 0)
      BY <2>3
    <2> HIDE DEF Def
    <2> QED
      BY <2>4
  <1>2. ASSUME NEW m \in Nat, m \in T PROVE m + 1 \in T
    <2>1. PICK g : Def(g, m)
      BY <1>2
    <2> DEFINE h == [set \in UpTo(m + 1) |-> IF set = {} THEN edges ELSE ViaPicked(N, set, g)]
    <2>2. ASSUME NEW set \in UpTo(m + 1)
          PROVE  h[set] = IF set = {} THEN edges ELSE ViaPicked(N, set, h)
      <3>1. h[set] = IF set = {} THEN edges ELSE ViaPicked(N, set, g)
        OBVIOUS
      <3>2. ASSUME set # {} PROVE ViaPicked(N, set, g) = ViaPicked(N, set, h)
        <4>2. set \ {Pick(set)} \in UpTo(m) /\ set \ {Pick(set)} \in UpTo(m + 1)
          BY <1>0, <1>a, <3>2
        <4>3. g[set \ {Pick(set)}] = h[set \ {Pick(set)}]
          BY <2>1, <4>2
        <4> HIDE DEF h
        <4> QED
          BY <4>3 DEF ViaPicked
      <3> HIDE DEF h
      <3> QED
        BY <3>1, <3>2
    <2>3. Def(h, m + 1)
      <3>1. h = [set \in UpTo(m + 1) |-> h[set]]
        OBVIOUS
      <3> HIDE DEF h, UpTo
      <3> QED
        BY <2>2, <3>1
    <2>4. \E f : Def(f, m + 1)
      BY <2>3
    <2> HIDE DEF Def
    <2> QED
      BY <2>4
  <1>3. Cardinality(R) \in T
    <2> HIDE DEF T
    <2>1. \A k \in Nat : k \in T => k + 1 \in T
      BY <1>2
    <2>2. \A k \in Nat : k \in T
      BY <1>1, <2>1, UpFromZero
    <2> QED
      BY <1>0, <2>2
  <1>4. UpTo(Cardinality(R)) = SUBSET R
    BY FS_Subset
  <1>5. \E f : Joins(N, edges, R, f)
    <2>1. PICK f : Def(f, Cardinality(R))
      BY <1>3
    <2>2. Joins(N, edges, R, f)
      BY <1>4, <2>1 DEF Joins
    <2> QED
      BY <2>2
  <1>6. Through(N, edges, R) = (CHOOSE f : Joins(N, edges, R, f))[R]
    BY DEF Through, FoldSet, MapThenFoldSet, Joins, ViaPicked, Via, Pick, Grid
  <1> QED
    BY <1>5, <1>6

(* Induction over the subsets of a finite set.                             *)
LEMMA SubsetInduction ==
  ASSUME NEW R, IsFiniteSet(R), NEW Good, {} \in Good,
         \A set \in SUBSET R : set # {} /\ (\A x \in set : set \ {x} \in Good) => set \in Good
  PROVE  \A set \in SUBSET R : set \in Good
  <1> DEFINE T == {m \in Nat : \A set \in SUBSET R : Cardinality(set) = m => set \in Good}
  <1>0. \A set \in SUBSET R : IsFiniteSet(set) /\ Cardinality(set) \in Nat /\ (Cardinality(set) = 0 <=> set = {})
    BY FS_Subset, FS_CardinalityType, FS_EmptySet
  <1>1. 0 \in T
    BY <1>0
  <1>2. ASSUME NEW m \in Nat, m \in T PROVE m + 1 \in T
    <2> SUFFICES ASSUME NEW set \in SUBSET R, Cardinality(set) = m + 1 PROVE set \in Good
      OBVIOUS
    <2>1. set # {}
      BY <1>0
    <2>2. ASSUME NEW x \in set PROVE set \ {x} \in SUBSET R /\ Cardinality(set \ {x}) = m
      <3>1. IsFiniteSet(set)
        BY <1>0
      <3>2. Cardinality(set \ {x}) = Cardinality(set) - 1
        BY <2>1, <3>1, PickedFrom
      <3>3. (m + 1) - 1 = m
        OBVIOUS
      <3> QED
        BY <3>2, <3>3
    <2> QED
      BY <1>2, <2>1, <2>2
  <1>3. \A m \in Nat : m \in T
    <2> HIDE DEF T
    <2> QED
      BY <1>1, <1>2, UpFromZero
  <1> QED
    BY <1>0, <1>3

LEMMA JoinsUnique ==
  ASSUME NEW N, NEW edges, NEW R, IsFiniteSet(R), NEW Q \in SUBSET R,
         NEW f, Joins(N, edges, R, f), NEW g, Joins(N, edges, Q, g)
  PROVE  f[Q] = g[Q]
  <1> DEFINE Good == {set \in SUBSET Q : f[set] = g[set]}
  <1>0. IsFiniteSet(Q)
    BY FS_Subset
  <1>1. {} \in Good
    BY DEF Joins
  <1>2. ASSUME NEW set \in SUBSET Q, set # {}, \A x \in set : set \ {x} \in Good
        PROVE  set \in Good
    <2>1. f[set] = ViaPicked(N, set, f) /\ g[set] = ViaPicked(N, set, g)
      BY <1>2 DEF Joins
    <2>2. Pick(set) \in set
      BY <1>2 DEF Pick
    <2> QED
      BY <1>2, <2>1, <2>2 DEF ViaPicked
  <1>3. \A set \in SUBSET Q : set \in Good
    <2> HIDE DEF Good
    <2> QED
      BY <1>0, <1>1, <1>2, SubsetInduction
  <1> QED
    BY <1>3

LEMMA ViaCommutes ==
  ASSUME NEW N, IsFiniteSet(N), NEW pairs, NEW m \in N, NEW n \in N
  PROVE  Via(N, m, Via(N, n, pairs)) = Via(N, n, Via(N, m, pairs))
  <1> DEFINE A == Via(N, m, pairs)
             B == Via(N, n, pairs)
  <1>1. \A p : p \in A <=> p \in pairs \/ (p \in Grid(N) /\ <<p[1], m>> \in pairs /\ <<m, p[2]>> \in pairs)
    BY DEF Via
  <1>2. \A p : p \in B <=> p \in pairs \/ (p \in Grid(N) /\ <<p[1], n>> \in pairs /\ <<n, p[2]>> \in pairs)
    BY DEF Via
  <1>3. \A p : p \in Via(N, m, B) <=> p \in B \/ (p \in Grid(N) /\ <<p[1], m>> \in B /\ <<m, p[2]>> \in B)
    BY DEF Via
  <1>4. \A p : p \in Via(N, n, A) <=> p \in A \/ (p \in Grid(N) /\ <<p[1], n>> \in A /\ <<n, p[2]>> \in A)
    BY DEF Via
  <1> HIDE DEF A, B
  <1>5. ASSUME NEW p \in Grid(N)
        PROVE  /\ <<p[1], m>> \in B <=> <<p[1], m>> \in pairs \/ (<<p[1], n>> \in pairs /\ <<n, m>> \in pairs)
               /\ <<m, p[2]>> \in B <=> <<m, p[2]>> \in pairs \/ (<<m, n>> \in pairs /\ <<n, p[2]>> \in pairs)
               /\ <<p[1], n>> \in A <=> <<p[1], n>> \in pairs \/ (<<p[1], m>> \in pairs /\ <<m, n>> \in pairs)
               /\ <<n, p[2]>> \in A <=> <<n, p[2]>> \in pairs \/ (<<n, m>> \in pairs /\ <<m, p[2]>> \in pairs)
    <2>1. {<<p[1], m>>, <<m, p[2]>>, <<p[1], n>>, <<n, p[2]>>} \subseteq Grid(N)
      BY DEF Grid
    <2>2. /\ <<p[1], m>>[1] = p[1] /\ <<p[1], m>>[2] = m /\ <<m, p[2]>>[1] = m /\ <<m, p[2]>>[2] = p[2]
          /\ <<p[1], n>>[1] = p[1] /\ <<p[1], n>>[2] = n /\ <<n, p[2]>>[1] = n /\ <<n, p[2]>>[2] = p[2]
      OBVIOUS
    <2>3. <<p[1], m>> \in B <=> <<p[1], m>> \in pairs \/ (<<p[1], n>> \in pairs /\ <<n, m>> \in pairs)
      BY <1>2, <2>1, <2>2
    <2>4. <<m, p[2]>> \in B <=> <<m, p[2]>> \in pairs \/ (<<m, n>> \in pairs /\ <<n, p[2]>> \in pairs)
      BY <1>2, <2>1, <2>2
    <2>5. <<p[1], n>> \in A <=> <<p[1], n>> \in pairs \/ (<<p[1], m>> \in pairs /\ <<m, n>> \in pairs)
      BY <1>1, <2>1, <2>2
    <2>6. <<n, p[2]>> \in A <=> <<n, p[2]>> \in pairs \/ (<<n, m>> \in pairs /\ <<m, p[2]>> \in pairs)
      BY <1>1, <2>1, <2>2
    <2> QED
      BY <2>3, <2>4, <2>5, <2>6
  <1>6. ASSUME NEW p PROVE p \in Via(N, m, B) <=> p \in Via(N, n, A)
    <2>1. CASE p \in Grid(N)
      BY <1>1, <1>2, <1>3, <1>4, <1>5, <2>1
    <2>2. CASE p \notin Grid(N)
      BY <1>1, <1>2, <1>3, <1>4, <2>2
    <2> QED
      BY <2>1, <2>2
  <1> QED
    BY <1>6 DEF A, B

(* Whichever node is taken out last.                                       *)
LEMMA JoinsAny ==
  ASSUME NEW N, IsFiniteSet(N), NEW edges, NEW f, Joins(N, edges, N, f)
  PROVE  \A set \in SUBSET N : \A x \in set : f[set] = Via(N, x, f[set \ {x}])
  <1> DEFINE R == N
             Good == {set \in SUBSET R : \A x \in set : f[set] = Via(N, x, f[set \ {x}])}
  <1>0. IsFiniteSet(R)
    OBVIOUS
  <1>1. {} \in Good
    OBVIOUS
  <1>2. ASSUME NEW set \in SUBSET R, set # {}, \A x \in set : set \ {x} \in Good
        PROVE  set \in Good
    <2> SUFFICES ASSUME NEW x \in set PROVE f[set] = Via(N, x, f[set \ {x}])
      OBVIOUS
    <2> DEFINE c == Pick(set)
    <2>1. c \in set
      BY DEF Pick
    <2>2. f[set] = Via(N, c, f[set \ {c}])
      BY <1>2 DEF Joins, ViaPicked
    <2> HIDE DEF c
    <2>3. CASE x # c
      <3>1. x \in set \ {c} /\ c \in set \ {x} /\ (set \ {c}) \ {x} = (set \ {x}) \ {c}
        BY <2>1, <2>3
      <3>2. f[set \ {c}] = Via(N, x, f[(set \ {c}) \ {x}])
        BY <1>2, <2>1, <3>1
      <3>3. f[set \ {x}] = Via(N, c, f[(set \ {x}) \ {c}])
        BY <1>2, <3>1
      <3>4. c \in N /\ x \in N
        BY <1>2, <2>1
      <3> HIDE DEF Good
      <3>5. PICK q : q = f[(set \ {c}) \ {x}]
        OBVIOUS
      <3>6. f[set \ {c}] = Via(N, x, q) /\ f[set \ {x}] = Via(N, c, q)
        BY <3>1, <3>2, <3>3, <3>5
      <3>7. Via(N, c, Via(N, x, q)) = Via(N, x, Via(N, c, q))
        BY <3>4, ViaCommutes
      <3> QED
        BY <2>2, <3>6, <3>7
    <2> QED
      BY <2>2, <2>3
  <1>3. \A set \in SUBSET R : set \in Good
    <2> HIDE DEF Good
    <2> QED
      BY <1>0, <1>1, <1>2, SubsetInduction
  <1> QED
    BY <1>3

LEMMA ThroughEmpty ==
  ASSUME NEW N, NEW edges
  PROVE  Through(N, edges, {}) = edges
  <1>1. PICK f : Joins(N, edges, {}, f) /\ Through(N, edges, {}) = f[{}]
    BY ThroughSteps, FS_EmptySet
  <1> QED
    BY <1>1 DEF Joins

LEMMA ThroughOneMore ==
  ASSUME NEW N, IsFiniteSet(N), NEW edges, NEW R \in SUBSET N, NEW x \in R
  PROVE  Through(N, edges, R) = Via(N, x, Through(N, edges, R \ {x}))
  <1>0. R \ {x} \in SUBSET N /\ IsFiniteSet(R) /\ IsFiniteSet(R \ {x})
    BY FS_Subset
  <1>1. PICK f : Joins(N, edges, N, f)
    BY <1>0, ThroughSteps
  <1>2. ASSUME NEW Q \in SUBSET N, IsFiniteSet(Q) PROVE Through(N, edges, Q) = f[Q]
    <2>1. PICK g : Joins(N, edges, Q, g) /\ Through(N, edges, Q) = g[Q]
      BY <1>2, ThroughSteps
    <2> QED
      BY <1>0, <1>1, <2>1, JoinsUnique
  <1>3. f[R] = Via(N, x, f[R \ {x}])
    BY <1>1, JoinsAny
  <1>4. Through(N, edges, R) = f[R] /\ Through(N, edges, R \ {x}) = f[R \ {x}]
    BY <1>0, <1>2
  <1> QED
    BY <1>3, <1>4

(* More edges connect more, and nothing outside of the grid.               *)
LEMMA ThroughMore ==
  ASSUME NEW N, IsFiniteSet(N), NEW some, NEW all, some \subseteq all, some \subseteq Grid(N), NEW R \in SUBSET N
  PROVE  Through(N, some, R) \subseteq Through(N, all, R) /\ Through(N, some, R) \subseteq Grid(N)
  <1> DEFINE S(set) == Through(N, some, set)
             A(set) == Through(N, all, set)
             Good == {set \in SUBSET R : S(set) \subseteq A(set) /\ S(set) \subseteq Grid(N)}
  <1>0. IsFiniteSet(R)
    BY FS_Subset
  <1>1. {} \in Good
    BY ThroughEmpty
  <1>2. ASSUME NEW set \in SUBSET R, set # {}, \A x \in set : set \ {x} \in Good
        PROVE  set \in Good
    <2>1. PICK x : x \in set
      BY <1>2
    <2>2. S(set) = Via(N, x, S(set \ {x})) /\ A(set) = Via(N, x, A(set \ {x}))
      <3>1. set \in SUBSET N
        OBVIOUS
      <3> HIDE DEF Good
      <3> QED
        BY <2>1, <3>1, ThroughOneMore
    <2>3. S(set \ {x}) \subseteq A(set \ {x}) /\ S(set \ {x}) \subseteq Grid(N)
      BY <1>2, <2>1
    <2> HIDE DEF S, A
    <2> QED
      BY <2>2, <2>3 DEF Via
  <1>3. \A set \in SUBSET R : set \in Good
    <2> HIDE DEF Good
    <2> QED
      BY <1>0, <1>1, <1>2, SubsetInduction
  <1> QED
    BY <1>3

LEMMA ConnectedThrough ==
  ASSUME NEW edges
  PROVE  /\ Connected(edges) = Through(1 .. Len(code), edges, Removed)
         /\ Connected(Edges)' = Through(1 .. Len(code'), Edges', Removed')
  <1>1. Connected(edges) = Through(1 .. Len(code), edges, Removed)
    BY DEF Connected, Through
  <1>2. Connected(Edges) = Through(1 .. Len(code), Edges, Removed)
    BY DEF Connected, Through
  <1>3. (Connected(Edges) = Through(1 .. Len(code), Edges, Removed))'
    BY <1>2, PTL
  <1>4. Connected(Edges)' = Through(1 .. Len(code'), Edges', Removed')
    BY <1>3
  <1> QED
    BY <1>1, <1>4

--------------------------------------------------------------------------
(* The routine, and what its execution does.                               *)

Shaped == \E c \in Cases : code = c.code

Step(p) ==
  /\ p \in (DOMAIN code) \X (DOMAIN code)
  /\ Indirect(code[p[1]]) \/ p \in Fallthrough \/ (Direct(code[p[1]]) /\ p[2] = code[p[1]].target)

Stepping ==
  /\ Shaped
  /\ rip \in DOMAIN code \cup {0}
  /\ \A p \in steps : Step(p)

(* The graph, and as much of it as reduce has left: what connects two      *)
(* nodes that are left is in both maps of edges.  The maps may keep edges  *)
(* of nodes taken out.                                                     *)
Reducing ==
  phase \in {"reduce", "done"} =>
    /\ DOMAIN nodes \subseteq DOMAIN code
    /\ to_reduce \subseteq DOMAIN nodes
    /\ \A a, b \in DOMAIN nodes :
         a # b => /\ <<a, b>> \in forward_edges <=> <<a, b>> \in Connected(Edges)
                  /\ <<a, b>> \in backward_edges <=> <<a, b>> \in Connected(Edges)

LEMMA RoutineShape ==
  ASSUME Shaped
  PROVE  /\ Len(code) \in Nat \ {0} /\ DOMAIN code = 1 .. Len(code) /\ 1 \in DOMAIN code
         /\ \A i \in DOMAIN code : FollowedByNext(code[i]) => i + 1 \in DOMAIN code /\ <<i, i + 1>> \in Fallthrough
         /\ \A i \in DOMAIN code : Direct(code[i]) => code[i].target \in DOMAIN code
  <1>1. /\ Len(code) \in Nat \ {0} /\ DOMAIN code = 1 .. Len(code)
        /\ ~FollowedByNext(code[Len(code)])
        /\ \A i \in DOMAIN code : Direct(code[i]) => code[i].target \in DOMAIN code
    BY CasesAssumption DEF Shaped
  <1>2. 1 \in DOMAIN code
    BY <1>1
  <1>3. ASSUME NEW i \in DOMAIN code, FollowedByNext(code[i])
        PROVE  i + 1 \in DOMAIN code /\ <<i, i + 1>> \in Fallthrough
    <2>1. i # Len(code)
      BY <1>1, <1>3
    <2>2. i < Len(code) /\ i + 1 \in DOMAIN code
      BY <1>1, <2>1
    <2> QED
      BY <1>3, <2>2 DEF Fallthrough
  <1> QED
    BY <1>1, <1>2, <1>3

LEMMA InitGraph == CollectionInit => Stepping /\ Reducing
  <1> SUFFICES ASSUME CollectionInit PROVE Stepping /\ Reducing
    OBVIOUS
  <1>1. Shaped /\ rip = 1 /\ steps = {} /\ phase = "map"
    BY DEF CollectionInit, Shaped
  <1> QED
    BY <1>1, RoutineShape DEF Stepping, Reducing

LEMMA NextStepping == Stepping /\ [CollectionNext]_<<mvars, gvars>> => Stepping'
  <1> SUFFICES ASSUME Stepping, [CollectionNext]_<<mvars, gvars>> PROVE Stepping'
    OBVIOUS
  <1>1. code' = code
    BY DEF CollectionNext, Mapping, Execute, CollectCFGFini, LoadTrace, GetCFGforRTN, reduce, Written, gvars
  <1>2. Shaped' /\ Fallthrough' = Fallthrough /\ \A p : Step(p)' <=> Step(p)
    BY <1>1 DEF Stepping, Shaped, Fallthrough, Step
  <1>3. CASE UNCHANGED <<rip, steps>>
    BY <1>1, <1>2, <1>3 DEF Stepping
  <1>4. ASSUME NEW to \in DOMAIN code, Step(<<rip, to>>), Goes(to) PROVE Stepping'
    BY <1>1, <1>2, <1>4 DEF Stepping, Goes
  <1>5. CASE Execute
    <2> DEFINE ins == code[rip]
    <2>0. rip \in DOMAIN code
      BY <1>5 DEF Execute, Stepping
    <2>1. ASSUME ins.op \in {"load", "store", "clwb", "fence", "nop", "jcc", "call"} PROVE rip + 1 \in DOMAIN code /\ Step(<<rip, rip + 1>>)
      <3>1. FollowedByNext(ins)
        BY <2>1 DEF FollowedByNext, FallsThrough
      <3> QED
        BY <2>0, <3>1, RoutineShape DEF Stepping, Step
    <2>2. ASSUME Direct(ins) PROVE ins.target \in DOMAIN code /\ Step(<<rip, ins.target>>)
      BY <2>0, <2>2, RoutineShape DEF Stepping, Step
    <2>3. ASSUME NEW to \in DOMAIN code, ins.op = "ijmp" PROVE Step(<<rip, to>>)
      BY <2>0, <2>3 DEF Step, Indirect
    <2>4. \/ ins.op \in {"load", "store", "clwb", "fence", "nop", "jcc", "call"} /\ Goes(rip + 1)
          \/ Direct(ins) /\ Goes(ins.target)
          \/ ins.op = "ijmp" /\ \E to \in DOMAIN code : Goes(to)
          \/ rip' = 0 /\ steps' = steps
      BY <1>5 DEF Execute, Reads, Writes, Flushing
    <2>5. CASE rip' = 0 /\ steps' = steps
      BY <1>1, <1>2, <2>5 DEF Stepping
    <2> HIDE DEF ins
    <2> QED
      BY <1>4, <2>1, <2>2, <2>3, <2>4, <2>5
  <1> QED
    BY <1>3, <1>5 DEF CollectionNext, Mapping, CollectCFGFini, LoadTrace, GetCFGforRTN, reduce, Written, gvars

LEMMA ReducingGraph ==
  ASSUME Stepping, GetCFGforRTN
  PROVE  Reducing'
  <1> DEFINE all == Edges
  <1>1. /\ code' = code /\ tables' = tables /\ DOMAIN nodes' = DOMAIN code /\ to_reduce' \subseteq DOMAIN code
        /\ forward_edges' = all /\ backward_edges' = all
    BY DEF GetCFGforRTN
  <1>2. Edges' = all /\ Removed' = {}
    BY <1>1 DEF Edges, Fallthrough, Jumps, Within, Removed
  <1>3. Connected(Edges)' = all
    <2>1. Connected(Edges)' = Through(1 .. Len(code'), all, {})
      BY <1>2, ConnectedThrough
    <2> QED
      BY <2>1, ThroughEmpty
  <1> HIDE DEF all
  <1> QED
    BY <1>1, <1>3 DEF Reducing

LEMMA ReducingNode ==
  ASSUME Stepping, Reducing, reduce
  PROVE  Reducing'
  <1> DEFINE top   == Len(code)
             node  == CHOOSE n \in to_reduce : \A o \in to_reduce : n <= o
             backs == {b \in 1..Len(code) : <<b, node>> \in backward_edges}
             fwds  == {f \in 1..Len(code) : <<node, f>> \in forward_edges}
             new   == {p \in backs \X fwds : p[1] # p[2]}
             all   == Edges
             before == Connected(all)
             N == 1 .. top
  <1>1. /\ phase = "reduce" /\ to_reduce # {} /\ UNCHANGED <<code, phase, tables>>
        /\ nodes' = [n \in DOMAIN nodes \ {node} |-> nodes[n]]
        /\ forward_edges' = (forward_edges \cup new) \ ((backs \X {node}) \cup ({node} \X fwds))
        /\ backward_edges' = IF backs = {} THEN backward_edges \cup new ELSE (backward_edges \cup new) \ ({node} \X fwds)
        /\ to_reduce' = to_reduce \ {node}
    BY DEF reduce, add_edges
  <1>2. top \in Nat /\ DOMAIN code = N
    BY RoutineShape DEF Stepping
  <1>3. /\ DOMAIN nodes \subseteq N /\ to_reduce \subseteq DOMAIN nodes
        /\ \A a, b \in DOMAIN nodes :
             a # b => /\ <<a, b>> \in forward_edges <=> <<a, b>> \in before
                      /\ <<a, b>> \in backward_edges <=> <<a, b>> \in before
    BY <1>1, <1>2 DEF Reducing
  <1>4. node \in to_reduce
    <2>1. to_reduce \subseteq Nat
      BY <1>2, <1>3
    <2>2. \E n \in to_reduce : \A o \in to_reduce : n <= o
      BY <1>1, <2>1, LeastElement
    <2> QED
      BY <2>2
  <1> HIDE DEF node
  <1>5. node \in DOMAIN nodes /\ DOMAIN nodes' = DOMAIN nodes \ {node}
    BY <1>1, <1>3, <1>4
  <1>6. Removed' = Removed \cup {node} /\ Removed' \ {node} = Removed /\ Removed' \in SUBSET N
    BY <1>1, <1>2, <1>3, <1>5 DEF Removed
  <1>7. Edges' = all
    BY <1>1 DEF Edges, Fallthrough, Jumps, Within
  <1>8. Connected(Edges)' = Via(N, node, before)
    <2>1. Connected(Edges)' = Through(N, all, Removed')
      BY <1>1, <1>7, ConnectedThrough
    <2>2. before = Through(N, all, Removed)
      BY ConnectedThrough
    <2>4. IsFiniteSet(N) /\ node \in Removed'
      BY <1>2, <1>6, FS_Interval
    <2> HIDE DEF N, all, before
    <2>3. Through(N, all, Removed') = Via(N, node, Through(N, all, Removed' \ {node}))
      BY <1>6, <2>4, ThroughOneMore
    <2> QED
      BY <1>6, <2>1, <2>2, <2>3
  <1> HIDE DEF all, before, top, N
  <1>9. ASSUME NEW a \in DOMAIN nodes', NEW b \in DOMAIN nodes', a # b
        PROVE  /\ <<a, b>> \in forward_edges' <=> <<a, b>> \in Via(N, node, before)
               /\ <<a, b>> \in backward_edges' <=> <<a, b>> \in Via(N, node, before)
    <2>1. /\ a \in DOMAIN nodes /\ b \in DOMAIN nodes /\ a # node /\ b # node
          /\ a \in N /\ b \in N /\ <<a, b>> \in Grid(N)
      BY <1>3, <1>5 DEF Grid
    <2>2. <<a, b>> \in Via(N, node, before) <=> <<a, b>> \in before \/ (<<a, node>> \in before /\ <<node, b>> \in before)
      BY <2>1 DEF Via
    <2>3. a \in backs <=> <<a, node>> \in before
      BY <1>3, <1>5, <2>1 DEF top, N
    <2>4. b \in fwds <=> <<node, b>> \in before
      BY <1>3, <1>5, <2>1 DEF top, N
    <2>5. <<a, b>> \in new <=> a \in backs /\ b \in fwds
      BY <1>9
    <2> HIDE DEF new, backs, fwds
    <2>6. <<a, b>> \notin (backs \X {node}) \cup ({node} \X fwds)
      BY <2>1
    <2>7. <<a, b>> \in forward_edges' <=> <<a, b>> \in forward_edges \/ <<a, b>> \in new
      BY <1>1, <2>6
    <2>8. <<a, b>> \in backward_edges' <=> <<a, b>> \in backward_edges \/ <<a, b>> \in new
      BY <1>1, <2>6
    <2>9. (<<a, b>> \in forward_edges <=> <<a, b>> \in before) /\ (<<a, b>> \in backward_edges <=> <<a, b>> \in before)
      BY <1>3, <1>9, <2>1
    <2> QED
      BY <2>2, <2>3, <2>4, <2>5, <2>7, <2>8, <2>9
  <1>10. DOMAIN nodes' \subseteq DOMAIN code' /\ to_reduce' \subseteq DOMAIN nodes'
    BY <1>1, <1>2, <1>3, <1>5
  <1> HIDE DEF backs, fwds, new
  <1> QED
    BY <1>8, <1>9, <1>10 DEF Reducing

LEMMA NextReducing == Stepping /\ Reducing /\ [CollectionNext]_<<mvars, gvars>> => Reducing'
  <1> SUFFICES ASSUME Stepping, Reducing, [CollectionNext]_<<mvars, gvars>> PROVE Reducing'
    OBVIOUS
  <1>1. ASSUME UNCHANGED <<code, tables, nodes, forward_edges, backward_edges, to_reduce>>,
               phase' \in {"reduce", "done"} => phase \in {"reduce", "done"}
        PROVE  Reducing'
    <2>1. Edges' = Edges /\ Removed' = Removed
      BY <1>1 DEF Edges, Fallthrough, Jumps, Within, Removed
    <2>2. Connected(Edges)' = Connected(Edges)
      BY <1>1, <2>1, ConnectedThrough
    <2> QED
      BY <1>1, <2>2 DEF Reducing
  <1>2. CASE Mapping
    <2>1. phase' \in {"map", "collect"}
      BY <1>2 DEF Mapping
    <2> QED
      BY <2>1 DEF Reducing
  <1>3. CASE Execute \/ CollectCFGFini \/ LoadTrace
    <2>1. phase' \in {"collect", "load", "build"}
      BY <1>3 DEF Execute, CollectCFGFini, LoadTrace
    <2> QED
      BY <2>1 DEF Reducing
  <1>4. CASE Written
    BY <1>1, <1>4 DEF Written
  <1>5. CASE UNCHANGED <<mvars, gvars>>
    BY <1>1, <1>5 DEF gvars
  <1> QED
    BY <1>2, <1>3, <1>4, <1>5, ReducingGraph, ReducingNode DEF CollectionNext

(* The reduced graph connects two nodes exactly when a path through nodes  *)
(* taken out did, for every routine, whatever its trace added to the       *)
(* graph, and in whatever order nodes are taken out (cfg.hpp:164).         *)
THEOREM ReductionAlwaysExact == CollectionSpec => []ReducedExact
  <1> DEFINE inv == Stepping /\ Reducing
  <1>1. inv => ReducedExact
    BY DEF Reducing, ReducedExact
  <1>2. inv /\ [CollectionNext]_<<mvars, gvars>> => inv'
    BY NextStepping, NextReducing
  <1>3. CollectionInit => inv
    BY InitGraph
  <1> HIDE DEF inv
  <1> QED
    BY <1>1, <1>2, <1>3, PTL DEF CollectionSpec

(* What the first execution did is a path of the reduced graph, for every  *)
(* routine and execution of any length, except where an indirect jump led  *)
(* (cfg.hpp:437-447).                                                      *)
THEOREM ExecutionAlwaysInCFG == CollectionSpec => []ExecutionInCFG
  <1> DEFINE inv == Stepping /\ Reducing
  <1>1. inv => ExecutionInCFG
    <2> DEFINE taken == {s \in steps : ~Indirect(code[s[1]])}
    <2> SUFFICES ASSUME inv, phase = "done", NEW p \in Connected(taken), p[1] # p[2], {p[1], p[2]} \subseteq DOMAIN nodes
                 PROVE  p \in forward_edges
      BY DEF ExecutionInCFG
    <2> DEFINE N == 1 .. Len(code)
    <2>1. DOMAIN code = N /\ IsFiniteSet(N)
      BY RoutineShape, FS_Interval DEF Stepping
    <2>4. p \in Through(N, taken, Removed)
      BY ConnectedThrough
    <2>0. Connected(Edges) = Through(N, Edges, Removed)
      BY ConnectedThrough
    <2> HIDE DEF N
    <2>2. taken \subseteq Grid(N) /\ taken \subseteq Edges
      <3> SUFFICES ASSUME NEW s \in taken PROVE s \in Grid(N) /\ s \in Edges
        OBVIOUS
      <3>1. Step(s) /\ ~Indirect(code[s[1]])
        BY DEF Stepping
      <3>2. s \in Grid(N) /\ s[1] \in DOMAIN code /\ s = <<s[1], s[2]>>
        BY <2>1, <3>1 DEF Step, Grid
      <3>3. s \in Fallthrough \/ s \in {<<i, code[i].target>> : i \in {j \in DOMAIN code : Direct(code[j])}}
        BY <3>1, <3>2 DEF Step
      <3> QED
        BY <3>2, <3>3 DEF Edges, Jumps
    <2> HIDE DEF taken
    <2>3. Removed \in SUBSET N
      BY <2>1 DEF Removed
    <2>5. p \in Through(N, Edges, Removed) /\ p \in Grid(N)
      BY <2>1, <2>2, <2>3, <2>4, ThroughMore
    <2>6. p \in Connected(Edges) /\ p = <<p[1], p[2]>>
      BY <2>0, <2>5 DEF Grid
    <2> QED
      BY <2>6 DEF Reducing
  <1>2. inv /\ [CollectionNext]_<<mvars, gvars>> => inv'
    BY NextStepping, NextReducing
  <1>3. CollectionInit => inv
    BY InitGraph
  <1> HIDE DEF inv
  <1> QED
    BY <1>1, <1>2, <1>3, PTL DEF CollectionSpec

(***************************************************************************)
(* The dependencies LoadTrace makes of a trace.                            *)
(***************************************************************************)

Lines ==
  {line \in [type : {"load", "store", "flush", "fence", "branch"}, ip : Nat, target : Nat] :
     line.type \in {"store", "flush"} => line.target \in Addresses}

Load(lines) == FoldLeft(LoadLine, NoTables, lines)

LoadLast(lines, set, f) == LoadLine(f[set \ {Max(set)}], lines[Max(set)])

Loads(lines, f) == f = [set \in SUBSET (DOMAIN lines) |-> IF set = {} THEN NoTables ELSE LoadLast(lines, set, f)]

LEMMA LoadSteps ==
  ASSUME NEW S, NEW lines \in Seq(S)
  PROVE  \E f : Loads(lines, f) /\ Load(lines) = f[DOMAIN lines]
  <1> DEFINE N == Len(lines)
             Def(f, m) == f = [set \in SUBSET (1 .. m) |-> IF set = {} THEN NoTables ELSE LoadLast(lines, set, f)]
             T == {m \in Nat : \E f : Def(f, m)}
  <1>0. N \in Nat /\ DOMAIN lines = 1 .. N
    OBVIOUS
  <1>1. 0 \in T
    <2>1. PICK g : g = [set \in SUBSET (1 .. 0) |-> NoTables]
      OBVIOUS
    <2>2. \A set \in SUBSET (1 .. 0) : set = {}
      OBVIOUS
    <2>3. Def(g, 0)
      BY <2>1, <2>2
    <2> HIDE DEF Def
    <2> QED
      BY <2>3
  <1>2. ASSUME NEW m \in Nat, m \in T PROVE m + 1 \in T
    <2>1. PICK g : Def(g, m)
      BY <1>2
    <2> DEFINE h == [set \in SUBSET (1 .. m + 1) |-> IF set = {} THEN NoTables ELSE LoadLast(lines, set, g)]
    <2>2. ASSUME NEW set \in SUBSET (1 .. m) PROVE g[set] = h[set]
      <3>1. set \in SUBSET (1 .. m + 1)
        OBVIOUS
      <3>2. g[set] = IF set = {} THEN NoTables ELSE LoadLast(lines, set, g)
        BY <2>1
      <3>3. h[set] = IF set = {} THEN NoTables ELSE LoadLast(lines, set, g)
        BY <3>1
      <3> HIDE DEF h, Def
      <3> QED
        BY <3>2, <3>3
    <2>3. ASSUME NEW set \in SUBSET (1 .. m + 1), set # {}
          PROVE  LoadLast(lines, set, g) = LoadLast(lines, set, h)
      <3> HIDE DEF h, Def, T
      <3>1. m + 1 \in Nat
        OBVIOUS
      <3>3. PICK x : x = Max(set)
        OBVIOUS
      <3>4. x \in set /\ \A n \in set : n <= x
        BY <2>3, <3>1, <3>3, LastOf
      <3>5. ASSUME NEW n \in set, n # x PROVE n \in 1 .. m
        <4>1. n \in 1 .. m + 1 /\ x \in 1 .. m + 1 /\ n <= x
          BY <3>4, <3>5
        <4> QED
          BY <3>5, <4>1
      <3>2. set \ {Max(set)} \in SUBSET (1 .. m)
        BY <3>3, <3>5
      <3>6. g[set \ {Max(set)}] = h[set \ {Max(set)}]
        BY <2>2, <3>2
      <3> QED
        BY <3>6 DEF LoadLast
    <2>4. Def(h, m + 1)
      <3>1. h = [set \in SUBSET (1 .. m + 1) |-> IF set = {} THEN NoTables ELSE LoadLast(lines, set, h)]
        <4> DEFINE k == [set \in SUBSET (1 .. m + 1) |-> IF set = {} THEN NoTables ELSE LoadLast(lines, set, h)]
        <4>1. ASSUME NEW set \in SUBSET (1 .. m + 1) PROVE h[set] = k[set]
          <5>1. h[set] = IF set = {} THEN NoTables ELSE LoadLast(lines, set, g)
            OBVIOUS
          <5>2. k[set] = IF set = {} THEN NoTables ELSE LoadLast(lines, set, h)
            OBVIOUS
          <5> HIDE DEF h, k, Def
          <5> QED
            BY <2>3, <5>1, <5>2
        <4>2. h = [set \in SUBSET (1 .. m + 1) |-> h[set]] /\ k = [set \in SUBSET (1 .. m + 1) |-> k[set]]
          OBVIOUS
        <4>3. h = k
          <5> HIDE DEF h, k
          <5> QED
            BY <4>1, <4>2
        <4> QED
          BY <4>3
      <3> HIDE DEF h
      <3> QED
        BY <3>1
    <2> HIDE DEF Def, h
    <2> QED
      BY <2>4
  <1>3. N \in T
    <2> HIDE DEF T
    <2>1. \A m \in Nat : m \in T
      BY <1>1, <1>2, UpFromZero
    <2> QED
      BY <1>0, <2>1
  <1>4. \E f : Loads(lines, f)
    <2>1. PICK f : Def(f, N)
      BY <1>3
    <2>2. Loads(lines, f)
      BY <1>0, <2>1 DEF Loads
    <2> QED
      BY <2>2
  <1>5. Load(lines) = (CHOOSE f : Loads(lines, f))[DOMAIN lines]
    BY DEF Load, FoldLeft, MapThenFoldSet, Loads, LoadLast
  <1> QED
    BY <1>4, <1>5

(* Line by line.                                                           *)
LEMMA LoadedSoFar ==
  ASSUME NEW S, NEW lines \in Seq(S)
  PROVE  \E g : /\ g[0] = NoTables /\ g[Len(lines)] = Load(lines)
                /\ \A n \in 0 .. Len(lines) - 1 : g[n + 1] = LoadLine(g[n], lines[n + 1])
  <1>1. PICK f : Loads(lines, f) /\ Load(lines) = f[DOMAIN lines]
    BY LoadSteps
  <1>2. Len(lines) \in Nat /\ DOMAIN lines = 1 .. Len(lines)
    OBVIOUS
  <1> DEFINE N == Len(lines)
             g == [n \in 0 .. N |-> f[1 .. n]]
  <1>3. g[0] = NoTables
    <2>1. 1 .. 0 = {} /\ 0 \in 0 .. N
      BY <1>2
    <2>2. f[{}] = NoTables
      BY <1>1 DEF Loads
    <2> QED
      BY <2>1, <2>2
  <1>4. g[N] = Load(lines)
    BY <1>1, <1>2
  <1>5. ASSUME NEW n \in 0 .. N - 1 PROVE g[n + 1] = LoadLine(g[n], lines[n + 1])
    <2>1. n \in Nat /\ n + 1 \in Nat /\ n \in 0 .. N /\ n + 1 \in 0 .. N /\ \A m \in 1 .. n + 1 : m \in 1 .. N
      BY <1>2
    <2>2. 1 .. n + 1 \in SUBSET (DOMAIN lines) /\ n + 1 \in 1 .. n + 1 /\ (1 .. n + 1) \ {n + 1} = 1 .. n
      BY <1>2, <2>1
    <2>3. Max(1 .. n + 1) = n + 1
      <3>1. Max(1 .. n + 1) \in 1 .. n + 1 /\ \A m \in 1 .. n + 1 : m <= Max(1 .. n + 1)
        BY <2>1, <2>2, LastOf
      <3> QED
        BY <2>1, <2>2, <3>1
    <2>4. f[1 .. n + 1] = LoadLast(lines, 1 .. n + 1, f)
      BY <1>1, <2>2 DEF Loads
    <2>5. f[1 .. n + 1] = LoadLine(f[1 .. n], lines[n + 1])
      BY <2>2, <2>3, <2>4 DEF LoadLast
    <2> QED
      BY <2>1, <2>5
  <1> HIDE DEF g
  <1> QED
    BY <1>3, <1>4, <1>5

(* The first n lines, and the tables they give.  A store waits in          *)
(* flush_pending for a flush of its line, and stands for the later ones to *)
(* its address; a flush waits in fence_pending for a fence.                *)

IsTable(t) ==
  DOMAIN t = {"branches", "pm_stores", "pm_flushes", "pm_loads", "persist_deps", "flush_pending", "fence_pending"}

FlushPendings(n, t) ==
  /\ DOMAIN t.flush_pending \subseteq Addresses
  /\ \A a \in DOMAIN t.flush_pending : \E j \in 1 .. n :
       Stores(j, a) /\ trace[j].ip = t.flush_pending[a] /\ \A m \in (j + 1) .. n : ~CoversLine(m, a)

FencePendings(n, t) ==
  \A a \in DOMAIN t.fence_pending : \E k \in 1 .. n :
    /\ trace[k].type = "flush" /\ trace[k].ip = t.fence_pending[a]
    /\ \A m \in (k + 1) .. n : trace[m].type # "fence"

Justifies(j, k, d) ==
  /\ j < k /\ trace[j].ip = d[2] /\ trace[k].ip = d[1]
  /\ \/ \E a \in Addresses : Stores(j, a) /\ Takes(k, a) /\ \A m \in (j + 1) .. (k - 1) : ~CoversLine(m, a)
     \/ trace[j].type = "flush" /\ trace[k].type = "fence" /\ \A m \in (j + 1) .. (k - 1) : trace[m].type # "fence"

Justified(n, t) == \A d \in t.persist_deps : \E j, k \in 1 .. n : Justifies(j, k, d)

Given(j, n, a, deps) ==
  \E i \in 1 .. j, m \in (j + 1) .. n : Stores(i, a) /\ Takes(m, a) /\ <<trace[m].ip, trace[i].ip>> \in deps

Pending(j, a, t) == a \in DOMAIN t.flush_pending /\ \E i \in 1 .. j : Stores(i, a) /\ trace[i].ip = t.flush_pending[a]

StoresKept(n, t) ==
  \A j \in 1 .. n, a \in Addresses : Stores(j, a) => Given(j, n, a, t.persist_deps) \/ Pending(j, a, t)

Prefix(n, t) ==
  IsTable(t) /\ FlushPendings(n, t) /\ FencePendings(n, t) /\ Justified(n, t) /\ StoresKept(n, t)

(* What a line makes of the tables, field by field.                        *)

Joined(map, entries, joined) ==
  /\ DOMAIN joined = DOMAIN map \cup DOMAIN entries
  /\ \A a \in DOMAIN map : joined[a] = map[a]
  /\ \A a \in DOMAIN entries \ DOMAIN map : joined[a] = entries[a]

StoreLoaded(t, line, u) ==
  /\ IsTable(u) /\ u.persist_deps = t.persist_deps /\ u.fence_pending = t.fence_pending
  /\ DOMAIN u.flush_pending = DOMAIN t.flush_pending \cup {line.target}
  /\ \A a \in DOMAIN t.flush_pending : u.flush_pending[a] = t.flush_pending[a]
  /\ line.target \notin DOMAIN t.flush_pending => u.flush_pending[line.target] = line.ip

FlushLoaded(t, line, keys, u) ==
  /\ IsTable(u)
  /\ \A d : d \in u.persist_deps <=> d \in t.persist_deps \/ \E a \in keys : d = <<line.ip, t.flush_pending[a]>>
  /\ DOMAIN u.fence_pending = DOMAIN t.fence_pending \cup keys
  /\ \A a \in DOMAIN t.fence_pending : u.fence_pending[a] = t.fence_pending[a]
  /\ \A a \in keys \ DOMAIN t.fence_pending : u.fence_pending[a] = line.ip
  /\ DOMAIN u.flush_pending = DOMAIN t.flush_pending \ keys
  /\ \A a \in DOMAIN t.flush_pending \ keys : u.flush_pending[a] = t.flush_pending[a]

FenceLoaded(t, line, u) ==
  /\ IsTable(u) /\ u.fence_pending = <<>> /\ u.flush_pending = t.flush_pending
  /\ \A d : d \in u.persist_deps
              <=> d \in t.persist_deps \/ \E a \in DOMAIN t.fence_pending : d = <<line.ip, t.fence_pending[a]>>

LEMMA WithJoins ==
  ASSUME NEW map, NEW entries
  PROVE  Joined(map, entries, With(map, entries))
  BY DEF With, Joined

LEMMA StoreFields ==
  ASSUME NEW t, IsTable(t), NEW line
  PROVE  StoreLoaded(t, line, LoadStore(t, line))
  <1>0. PICK entries, u : entries = [a \in {line.target} |-> line.ip] /\ u = LoadStore(t, line)
    OBVIOUS
  <1>1. PICK v, w, map : v = t.pm_stores \cup {line.ip} /\ map = t.flush_pending /\ w = With(map, entries)
    OBVIOUS
  <1>2. u = [t EXCEPT !.pm_stores = v, !.flush_pending = w]
    BY <1>0, <1>1 DEF LoadStore
  <1>3. IsTable(u) /\ u.persist_deps = t.persist_deps /\ u.fence_pending = t.fence_pending /\ u.flush_pending = w
    BY <1>2 DEF IsTable
  <1>4. DOMAIN entries = {line.target} /\ entries[line.target] = line.ip
    BY <1>0
  <1>5. Joined(map, entries, w)
    BY <1>1, WithJoins
  <1>6. StoreLoaded(t, line, u)
    BY <1>1, <1>3, <1>4, <1>5 DEF Joined, StoreLoaded
  <1> QED
    BY <1>0, <1>6

LEMMA FlushFields ==
  ASSUME NEW t, IsTable(t), NEW line
  PROVE  FlushLoaded(t, line, FlushedBy(t.flush_pending, line.target), LoadFlush(t, line))
  <1>0. PICK keys, entries, u : /\ keys = FlushedBy(t.flush_pending, line.target)
                                /\ entries = [a \in keys |-> line.ip] /\ u = LoadFlush(t, line)
    OBVIOUS
  <1>1. PICK v, w, x, y, map : /\ v = t.pm_flushes \cup {line.ip}
                               /\ w = t.persist_deps \cup {<<line.ip, t.flush_pending[a]>> : a \in keys}
                               /\ x = [a \in DOMAIN t.flush_pending \ keys |-> t.flush_pending[a]]
                               /\ map = t.fence_pending /\ y = With(map, entries)
    OBVIOUS
  <1>2. u = [t EXCEPT !.pm_flushes = v, !.persist_deps = w, !.flush_pending = x, !.fence_pending = y]
    BY <1>0, <1>1 DEF LoadFlush
  <1>3. IsTable(u) /\ u.persist_deps = w /\ u.fence_pending = y /\ u.flush_pending = x
    BY <1>2 DEF IsTable
  <1>4. DOMAIN entries = keys /\ \A a \in keys : entries[a] = line.ip
    BY <1>0
  <1>5. Joined(map, entries, y)
    BY <1>1, WithJoins
  <1>6. DOMAIN x = DOMAIN t.flush_pending \ keys /\ \A a \in DOMAIN t.flush_pending \ keys : x[a] = t.flush_pending[a]
    BY <1>1
  <1>7. \A d : d \in w <=> d \in t.persist_deps \/ \E a \in keys : d = <<line.ip, t.flush_pending[a]>>
    BY <1>1
  <1>8. FlushLoaded(t, line, keys, u)
    BY <1>1, <1>3, <1>4, <1>5, <1>6, <1>7 DEF Joined, FlushLoaded
  <1> QED
    BY <1>0, <1>8

LEMMA FenceFields ==
  ASSUME NEW t, IsTable(t), NEW line
  PROVE  FenceLoaded(t, line, LoadFence(t, line))
  <1>0. PICK u : u = LoadFence(t, line)
    OBVIOUS
  <1>1. PICK v : v = t.persist_deps \cup {<<line.ip, t.fence_pending[a]>> : a \in DOMAIN t.fence_pending}
    OBVIOUS
  <1>2. u = [t EXCEPT !.persist_deps = v, !.fence_pending = <<>>]
    BY <1>0, <1>1 DEF LoadFence
  <1>3. IsTable(u) /\ u.persist_deps = v /\ u.fence_pending = <<>> /\ u.flush_pending = t.flush_pending
    BY <1>2 DEF IsTable
  <1>4. \A d : d \in v <=> d \in t.persist_deps \/ \E a \in DOMAIN t.fence_pending : d = <<line.ip, t.fence_pending[a]>>
    BY <1>1
  <1>5. FenceLoaded(t, line, u)
    BY <1>3, <1>4 DEF FenceLoaded
  <1> QED
    BY <1>0, <1>5

LEMMA LineCases ==
  ASSUME NEW line \in Lines, NEW t
  PROVE  /\ line.type \in {"load", "store", "flush", "fence", "branch"}
         /\ line.type = "store" => LoadLine(t, line) = LoadStore(t, line) /\ line.target \in Addresses
         /\ line.type = "flush" => LoadLine(t, line) = LoadFlush(t, line) /\ line.target \in Addresses
         /\ line.type = "fence" => LoadLine(t, line) = LoadFence(t, line)
  BY DEF LoadLine, Lines

(* The lines before the next one, and from one of them up to it.           *)
LEMMA Ranges ==
  ASSUME NEW n \in Nat
  PROVE  /\ \A j \in 1 .. n : j \in 1 .. n + 1 /\ j \in Nat /\ j < n + 1
         /\ \A j \in 1 .. n + 1 : j \in 1 .. n \/ j = n + 1
         /\ n + 1 \in 1 .. n + 1
         /\ \A j \in 1 .. n + 1 : \A m \in (j + 1) .. (n + 1) : m \in (j + 1) .. n \/ m = n + 1
         /\ \A j \in 1 .. n : \A m \in (j + 1) .. n : m \in (j + 1) .. (n + 1)
         /\ \A j \in 1 .. n : n + 1 \in (j + 1) .. (n + 1)
         /\ (n + 1) + 1 .. n + 1 = {}
         /\ (n + 1) - 1 = n
  OBVIOUS

LEMMA PrefixStore ==
  ASSUME trace \in Seq(Lines), NEW n \in 0 .. Len(trace) - 1, NEW t, Prefix(n, t), trace[n + 1].type = "store"
  PROVE  Prefix(n + 1, LoadLine(t, trace[n + 1]))
  <1>p. PICK line, u : line = trace[n + 1] /\ u = LoadLine(t, line)
    OBVIOUS
  <1> DEFINE b == line.target
  <1>0. n \in Nat /\ line \in Lines /\ n + 1 \in 1 .. Len(trace)
    <2>1. Len(trace) \in Nat
      OBVIOUS
    <2>2. n \in Nat /\ n + 1 \in 1 .. Len(trace)
      BY <2>1
    <2> QED
      BY <1>p, <2>2
  <1>1. u = LoadStore(t, line) /\ b \in Addresses
    BY <1>0, <1>p, LineCases
  <1>a. IsTable(t)
    BY DEF Prefix
  <1>b. StoreLoaded(t, line, u)
    BY <1>1, <1>a, StoreFields
  <1>2. IsTable(u) /\ u.persist_deps = t.persist_deps /\ u.fence_pending = t.fence_pending
    BY <1>b DEF StoreLoaded
  <1>3. /\ DOMAIN u.flush_pending = DOMAIN t.flush_pending \cup {b}
        /\ \A a \in DOMAIN t.flush_pending : u.flush_pending[a] = t.flush_pending[a]
        /\ b \notin DOMAIN t.flush_pending => u.flush_pending[b] = line.ip
    BY <1>b DEF StoreLoaded
  <1>4. Stores(n + 1, b) /\ line.type = "store" /\ \A a : ~CoversLine(n + 1, a) /\ (Stores(n + 1, a) => a = b)
    BY <1>p DEF Stores, CoversLine
  <1> HIDE DEF b
  <1>5. FlushPendings(n + 1, u)
    <2>1. DOMAIN u.flush_pending \subseteq Addresses
      BY <1>1, <1>3 DEF Prefix, FlushPendings
    <2>2. ASSUME NEW a \in DOMAIN t.flush_pending
          PROVE  \E j \in 1 .. n + 1 :
                   Stores(j, a) /\ trace[j].ip = u.flush_pending[a] /\ \A m \in (j + 1) .. (n + 1) : ~CoversLine(m, a)
      <3>1. PICK j \in 1 .. n :
              Stores(j, a) /\ trace[j].ip = t.flush_pending[a] /\ \A m \in (j + 1) .. n : ~CoversLine(m, a)
        BY DEF Prefix, FlushPendings
      <3> QED
        BY <1>p, <1>0, <1>3, <1>4, <3>1, Ranges
    <2>3. CASE b \notin DOMAIN t.flush_pending
      <3>1. \A m \in (n + 1) + 1 .. n + 1 : ~CoversLine(m, b)
        BY <1>p, <1>0, Ranges
      <3>2. n + 1 \in 1 .. n + 1 /\ trace[n + 1].ip = u.flush_pending[b]
        BY <1>0, <1>3, <1>p, <2>3
      <3> QED
        BY <1>3, <1>4, <2>1, <2>2, <3>1, <3>2 DEF FlushPendings
    <2>4. CASE b \in DOMAIN t.flush_pending
      BY <1>3, <2>1, <2>2, <2>4 DEF FlushPendings
    <2> QED
      BY <2>3, <2>4
  <1>6. FencePendings(n + 1, u)
    BY <1>p, <1>0, <1>2, <1>4, Ranges DEF Prefix, FencePendings
  <1>7. Justified(n + 1, u)
    BY <1>p, <1>0, <1>2, Ranges DEF Prefix, Justified
  <1>8. StoresKept(n + 1, u)
    <2> SUFFICES ASSUME NEW j \in 1 .. n + 1, NEW a \in Addresses, Stores(j, a)
                 PROVE  Given(j, n + 1, a, u.persist_deps) \/ Pending(j, a, u)
      BY DEF StoresKept
    <2>1. CASE j \in 1 .. n
      <3>1. Given(j, n, a, t.persist_deps) \/ Pending(j, a, t)
        BY <2>1 DEF Prefix, StoresKept
      <3>2. ASSUME Given(j, n, a, t.persist_deps) PROVE Given(j, n + 1, a, u.persist_deps)
        BY <1>p, <1>0, <1>2, <2>1, <3>2, Ranges DEF Given
      <3>3. ASSUME Pending(j, a, t) PROVE Pending(j, a, u)
        BY <1>3, <3>3 DEF Pending
      <3> QED
        BY <3>1, <3>2, <3>3
    <2>2. CASE j = n + 1
      <3>1. a = b
        BY <1>4, <2>2
      <3>2. CASE b \in DOMAIN t.flush_pending
        <4>1. PICK i \in 1 .. n : Stores(i, b) /\ trace[i].ip = t.flush_pending[b]
          BY <3>2 DEF Prefix, FlushPendings
        <4>2. i \in 1 .. n + 1
          BY <1>0
        <4> QED
          BY <1>3, <2>2, <3>1, <3>2, <4>1, <4>2 DEF Pending
      <3>3. CASE b \notin DOMAIN t.flush_pending
        <4>1. n + 1 \in 1 .. n + 1
          BY <1>0
        <4> QED
          BY <1>3, <1>4, <1>p, <2>2, <3>1, <3>3, <4>1 DEF Pending
      <3> QED
        BY <3>2, <3>3
    <2> QED
      BY <1>p, <1>0, <2>1, <2>2, Ranges
  <1>9. Prefix(n + 1, u)
    BY <1>2, <1>5, <1>6, <1>7, <1>8 DEF Prefix
  <1> QED
    BY <1>p, <1>9

LEMMA PrefixFlush ==
  ASSUME trace \in Seq(Lines), NEW n \in 0 .. Len(trace) - 1, NEW t, Prefix(n, t), trace[n + 1].type = "flush"
  PROVE  Prefix(n + 1, LoadLine(t, trace[n + 1]))
  <1>p. PICK line, u : line = trace[n + 1] /\ u = LoadLine(t, line)
    OBVIOUS
  <1> DEFINE b    == line.target
             keys == FlushedBy(t.flush_pending, b)
             pending == t.flush_pending
  <1>0. n \in Nat /\ line \in Lines /\ n + 1 \in 1 .. Len(trace)
    <2>1. Len(trace) \in Nat
      OBVIOUS
    <2>2. n \in Nat /\ n + 1 \in 1 .. Len(trace)
      BY <2>1
    <2> QED
      BY <1>p, <2>2
  <1>1. u = LoadFlush(t, line) /\ b \in Addresses /\ line.type = "flush"
    BY <1>0, <1>p, LineCases
  <1>a. IsTable(t)
    BY DEF Prefix
  <1>b. FlushLoaded(t, line, keys, u)
    BY <1>1, <1>a, FlushFields
  <1>2. /\ IsTable(u)
        /\ \A d : d \in u.persist_deps <=> d \in t.persist_deps \/ \E a \in keys : d = <<line.ip, pending[a]>>
    BY <1>b DEF FlushLoaded
  <1>3. /\ DOMAIN u.fence_pending = DOMAIN t.fence_pending \cup keys
        /\ \A a \in DOMAIN t.fence_pending : u.fence_pending[a] = t.fence_pending[a]
        /\ \A a \in keys \ DOMAIN t.fence_pending : u.fence_pending[a] = line.ip
    BY <1>b DEF FlushLoaded
  <1>4. DOMAIN u.flush_pending = DOMAIN pending \ keys /\ \A a \in DOMAIN u.flush_pending : u.flush_pending[a] = pending[a]
    BY <1>b DEF FlushLoaded
  <1>5. keys \subseteq DOMAIN pending /\ DOMAIN pending \subseteq Addresses
    BY DEF Prefix, FlushPendings, FlushedBy
  <1>6. \A a \in keys : Takes(n + 1, a)
    <2> SUFFICES ASSUME NEW a \in keys PROVE Takes(n + 1, a)
      OBVIOUS
    <2>1. b <= a /\ a <= b + CACHELINE_SIZE /\ a \in Nat /\ b \in Nat /\ CACHELINE_SIZE \in Nat
      BY <1>1, <1>5, LinesAssumption DEF FlushedBy
    <2> QED
      BY <1>1, <1>p, <2>1 DEF Takes, CoversLine
  <1>7. \A a \in DOMAIN pending \ keys : ~CoversLine(n + 1, a)
    <2> SUFFICES ASSUME NEW a \in DOMAIN pending, CoversLine(n + 1, a) PROVE a \in keys
      OBVIOUS
    <2>1. b <= a /\ a < b + CACHELINE_SIZE /\ a \in Nat /\ b \in Nat /\ CACHELINE_SIZE \in Nat
      BY <1>1, <1>5, <1>p, LinesAssumption DEF CoversLine
    <2> DEFINE near == {c \in DOMAIN pending : b <= c /\ c <= b + CACHELINE_SIZE}
    <2>2. a \in near
      BY <2>1
    <2>3. keys = near
      BY <2>1, <2>2 DEF FlushedBy
    <2> QED
      BY <2>2, <2>3
  <1>8. \A a : ~Stores(n + 1, a)
    BY <1>1, <1>p DEF Stores
  <1> HIDE DEF keys, b, pending
  <1>9. FlushPendings(n + 1, u)
    <2> SUFFICES ASSUME NEW a \in DOMAIN u.flush_pending
                 PROVE  \E j \in 1 .. n + 1 :
                          Stores(j, a) /\ trace[j].ip = u.flush_pending[a] /\ \A m \in (j + 1) .. (n + 1) : ~CoversLine(m, a)
      BY <1>4, <1>5 DEF FlushPendings
    <2>1. PICK j \in 1 .. n :
            Stores(j, a) /\ trace[j].ip = pending[a] /\ \A m \in (j + 1) .. n : ~CoversLine(m, a)
      BY <1>4 DEF Prefix, FlushPendings, pending
    <2>2. ~CoversLine(n + 1, a) /\ u.flush_pending[a] = pending[a]
      BY <1>4, <1>7
    <2>3. j \in 1 .. n + 1 /\ \A m \in (j + 1) .. (n + 1) : m \in (j + 1) .. n \/ m = n + 1
      BY <1>0, Ranges
    <2> QED
      BY <2>1, <2>2, <2>3
  <1>10. FencePendings(n + 1, u)
    <2> SUFFICES ASSUME NEW a \in DOMAIN u.fence_pending
                 PROVE  \E k \in 1 .. n + 1 : /\ trace[k].type = "flush" /\ trace[k].ip = u.fence_pending[a]
                                              /\ \A m \in (k + 1) .. (n + 1) : trace[m].type # "fence"
      BY DEF FencePendings
    <2>1. CASE a \in DOMAIN t.fence_pending
      <3>1. PICK k \in 1 .. n : /\ trace[k].type = "flush" /\ trace[k].ip = t.fence_pending[a]
                                /\ \A m \in (k + 1) .. n : trace[m].type # "fence"
        BY <2>1 DEF Prefix, FencePendings
      <3> QED
        BY <1>p, <1>0, <1>1, <1>3, <2>1, <3>1, Ranges
    <2>2. CASE a \notin DOMAIN t.fence_pending
      <3>1. u.fence_pending[a] = line.ip
        BY <1>3, <2>2
      <3> QED
        BY <1>p, <1>0, <1>1, <3>1, Ranges
    <2> QED
      BY <2>1, <2>2
  <1>11. Justified(n + 1, u)
    <2> SUFFICES ASSUME NEW d \in u.persist_deps PROVE \E j, k \in 1 .. n + 1 : Justifies(j, k, d)
      BY DEF Justified
    <2>1. CASE d \in t.persist_deps
      BY <1>p, <1>0, <2>1, Ranges DEF Prefix, Justified
    <2>2. CASE d \notin t.persist_deps
      <3>1. PICK a \in keys : d = <<line.ip, pending[a]>>
        BY <1>2, <2>2
      <3>2. PICK j \in 1 .. n : Stores(j, a) /\ trace[j].ip = pending[a] /\ \A m \in (j + 1) .. n : ~CoversLine(m, a)
        BY <1>5 DEF Prefix, FlushPendings, pending
      <3>3. j < n + 1 /\ j \in 1 .. n + 1 /\ n + 1 \in 1 .. n + 1 /\ (n + 1) - 1 = n
        BY <1>0
      <3>4. d[2] = trace[j].ip /\ d[1] = trace[n + 1].ip
        BY <1>p, <3>1, <3>2
      <3>5. Justifies(j, n + 1, d)
        BY <1>5, <1>6, <3>2, <3>3, <3>4 DEF Justifies
      <3> QED
        BY <3>3, <3>5
    <2> QED
      BY <2>1, <2>2
  <1>12. StoresKept(n + 1, u)
    <2> SUFFICES ASSUME NEW j \in 1 .. n + 1, NEW a \in Addresses, Stores(j, a)
                 PROVE  Given(j, n + 1, a, u.persist_deps) \/ Pending(j, a, u)
      BY DEF StoresKept
    <2>1. j \in 1 .. n
      BY <1>p, <1>0, <1>8, Ranges
    <2>2. Given(j, n, a, t.persist_deps) \/ Pending(j, a, t)
      BY <2>1 DEF Prefix, StoresKept
    <2>3. ASSUME Given(j, n, a, t.persist_deps) PROVE Given(j, n + 1, a, u.persist_deps)
      BY <1>p, <1>0, <1>2, <2>1, <2>3, Ranges DEF Given
    <2>4. CASE Pending(j, a, t) /\ a \in keys
      <3>1. PICK i \in 1 .. j : Stores(i, a) /\ trace[i].ip = pending[a]
        BY <2>4 DEF Pending, pending
      <3>2. <<trace[n + 1].ip, trace[i].ip>> \in u.persist_deps
        BY <1>2, <1>p, <2>4, <3>1
      <3>3. n + 1 \in (j + 1) .. (n + 1)
        BY <1>p, <1>0, <2>1, Ranges
      <3> QED
        BY <1>6, <2>4, <3>1, <3>2, <3>3 DEF Given
    <2>5. CASE Pending(j, a, t) /\ a \notin keys
      BY <1>4, <2>5 DEF Pending, pending
    <2> QED
      BY <2>2, <2>3, <2>4, <2>5
  <1>13. Prefix(n + 1, u)
    BY <1>2, <1>9, <1>10, <1>11, <1>12 DEF Prefix
  <1> QED
    BY <1>p, <1>13

LEMMA PrefixFence ==
  ASSUME trace \in Seq(Lines), NEW n \in 0 .. Len(trace) - 1, NEW t, Prefix(n, t), trace[n + 1].type = "fence"
  PROVE  Prefix(n + 1, LoadLine(t, trace[n + 1]))
  <1>p. PICK line, u : line = trace[n + 1] /\ u = LoadLine(t, line)
    OBVIOUS
  <1>0. n \in Nat /\ line \in Lines /\ n + 1 \in 1 .. Len(trace)
    <2>1. Len(trace) \in Nat
      OBVIOUS
    <2>2. n \in Nat /\ n + 1 \in 1 .. Len(trace)
      BY <2>1
    <2> QED
      BY <1>p, <2>2
  <1>1. u = LoadFence(t, line) /\ line.type = "fence"
    BY <1>0, <1>p, LineCases
  <1>a. IsTable(t)
    BY DEF Prefix
  <1>2. /\ IsTable(u)
        /\ \A d : d \in u.persist_deps
                    <=> d \in t.persist_deps \/ \E a \in DOMAIN t.fence_pending : d = <<line.ip, t.fence_pending[a]>>
        /\ u.fence_pending = <<>> /\ u.flush_pending = t.flush_pending
    <2>1. FenceLoaded(t, line, u)
      BY <1>1, <1>a, FenceFields
    <2> QED
      BY <2>1 DEF FenceLoaded
  <1>3. \A a : ~Stores(n + 1, a) /\ ~CoversLine(n + 1, a)
    BY <1>1, <1>p DEF Stores, CoversLine
  <1>4. FlushPendings(n + 1, u)
    <2> SUFFICES ASSUME NEW a \in DOMAIN t.flush_pending
                 PROVE  \E j \in 1 .. n + 1 :
                          Stores(j, a) /\ trace[j].ip = t.flush_pending[a] /\ \A m \in (j + 1) .. (n + 1) : ~CoversLine(m, a)
      BY <1>2 DEF Prefix, FlushPendings
    <2>1. PICK j \in 1 .. n :
            Stores(j, a) /\ trace[j].ip = t.flush_pending[a] /\ \A m \in (j + 1) .. n : ~CoversLine(m, a)
      BY DEF Prefix, FlushPendings
    <2> QED
      BY <1>p, <1>0, <1>3, <2>1, Ranges
  <1>5. FencePendings(n + 1, u)
    BY <1>2 DEF FencePendings
  <1>6. Justified(n + 1, u)
    <2> SUFFICES ASSUME NEW d \in u.persist_deps PROVE \E j, k \in 1 .. n + 1 : Justifies(j, k, d)
      BY DEF Justified
    <2>1. CASE d \in t.persist_deps
      BY <1>p, <1>0, <2>1, Ranges DEF Prefix, Justified
    <2>2. CASE d \notin t.persist_deps
      <3>1. PICK a \in DOMAIN t.fence_pending : d = <<line.ip, t.fence_pending[a]>>
        BY <1>2, <2>2
      <3>2. PICK j \in 1 .. n : /\ trace[j].type = "flush" /\ trace[j].ip = t.fence_pending[a]
                                /\ \A m \in (j + 1) .. n : trace[m].type # "fence"
        BY DEF Prefix, FencePendings
      <3>3. j < n + 1 /\ j \in 1 .. n + 1 /\ n + 1 \in 1 .. n + 1 /\ (n + 1) - 1 = n
        BY <1>0
      <3>4. d[2] = trace[j].ip /\ d[1] = trace[n + 1].ip
        BY <1>p, <3>1, <3>2
      <3>5. Justifies(j, n + 1, d)
        BY <1>1, <1>p, <3>2, <3>3, <3>4 DEF Justifies
      <3> QED
        BY <3>3, <3>5
    <2> QED
      BY <2>1, <2>2
  <1>7. StoresKept(n + 1, u)
    <2> SUFFICES ASSUME NEW j \in 1 .. n + 1, NEW a \in Addresses, Stores(j, a)
                 PROVE  Given(j, n + 1, a, u.persist_deps) \/ Pending(j, a, u)
      BY DEF StoresKept
    <2>1. j \in 1 .. n
      BY <1>p, <1>0, <1>3, Ranges
    <2>2. Given(j, n, a, t.persist_deps) \/ Pending(j, a, t)
      BY <2>1 DEF Prefix, StoresKept
    <2>3. ASSUME Given(j, n, a, t.persist_deps) PROVE Given(j, n + 1, a, u.persist_deps)
      BY <1>p, <1>0, <1>2, <2>1, <2>3, Ranges DEF Given
    <2>4. ASSUME Pending(j, a, t) PROVE Pending(j, a, u)
      BY <1>2, <2>4 DEF Pending
    <2> QED
      BY <2>2, <2>3, <2>4
  <1>8. Prefix(n + 1, u)
    BY <1>2, <1>4, <1>5, <1>6, <1>7 DEF Prefix
  <1> QED
    BY <1>p, <1>8

LEMMA PrefixOther ==
  ASSUME trace \in Seq(Lines), NEW n \in 0 .. Len(trace) - 1, NEW t, Prefix(n, t), trace[n + 1].type \in {"load", "branch"}
  PROVE  Prefix(n + 1, LoadLine(t, trace[n + 1]))
  <1>p. PICK line, u : line = trace[n + 1] /\ u = LoadLine(t, line)
    OBVIOUS
  <1>0. n \in Nat /\ line \in Lines /\ n + 1 \in 1 .. Len(trace)
    <2>1. Len(trace) \in Nat
      OBVIOUS
    <2>2. n \in Nat /\ n + 1 \in 1 .. Len(trace)
      BY <2>1
    <2> QED
      BY <1>p, <2>2
  <1>1. /\ IsTable(u) /\ u.persist_deps = t.persist_deps
        /\ u.fence_pending = t.fence_pending /\ u.flush_pending = t.flush_pending
    <2>1. IsTable(t)
      BY DEF Prefix
    <2>2. CASE line.type = "load"
      <3>0. u = [t EXCEPT !.pm_loads = @ \cup {line.ip}]
        BY <1>p, <2>2 DEF LoadLine
      <3>1. PICK v : u = [t EXCEPT !.pm_loads = v]
        BY <3>0
      <3> QED
        BY <2>1, <3>1 DEF IsTable
    <2>3. CASE line.type = "branch"
      <3>0. u = [t EXCEPT !.branches = @ \cup {<<line.ip, line.target>>}]
        BY <1>p, <2>3 DEF LoadLine
      <3>1. PICK v : u = [t EXCEPT !.branches = v]
        BY <3>0
      <3> QED
        BY <2>1, <3>1 DEF IsTable
    <2> QED
      BY <1>p, <2>2, <2>3
  <1>3. line.type # "fence" /\ \A a : ~Stores(n + 1, a) /\ ~CoversLine(n + 1, a)
    BY <1>p DEF Stores, CoversLine
  <1>4. FlushPendings(n + 1, u)
    <2> SUFFICES ASSUME NEW a \in DOMAIN t.flush_pending
                 PROVE  \E j \in 1 .. n + 1 :
                          Stores(j, a) /\ trace[j].ip = t.flush_pending[a] /\ \A m \in (j + 1) .. (n + 1) : ~CoversLine(m, a)
      BY <1>1 DEF Prefix, FlushPendings
    <2>1. PICK j \in 1 .. n :
            Stores(j, a) /\ trace[j].ip = t.flush_pending[a] /\ \A m \in (j + 1) .. n : ~CoversLine(m, a)
      BY DEF Prefix, FlushPendings
    <2> QED
      BY <1>p, <1>0, <1>3, <2>1, Ranges
  <1>5. FencePendings(n + 1, u)
    BY <1>p, <1>0, <1>1, <1>3, Ranges DEF Prefix, FencePendings
  <1>6. Justified(n + 1, u)
    BY <1>p, <1>0, <1>1, Ranges DEF Prefix, Justified
  <1>7. StoresKept(n + 1, u)
    <2> SUFFICES ASSUME NEW j \in 1 .. n + 1, NEW a \in Addresses, Stores(j, a)
                 PROVE  Given(j, n + 1, a, u.persist_deps) \/ Pending(j, a, u)
      BY DEF StoresKept
    <2>1. j \in 1 .. n
      BY <1>p, <1>0, <1>3, Ranges
    <2>2. Given(j, n, a, t.persist_deps) \/ Pending(j, a, t)
      BY <2>1 DEF Prefix, StoresKept
    <2>3. ASSUME Given(j, n, a, t.persist_deps) PROVE Given(j, n + 1, a, u.persist_deps)
      BY <1>p, <1>0, <1>1, <2>1, <2>3, Ranges DEF Given
    <2>4. ASSUME Pending(j, a, t) PROVE Pending(j, a, u)
      BY <1>1, <2>4 DEF Pending
    <2> QED
      BY <2>2, <2>3, <2>4
  <1>8. Prefix(n + 1, u)
    BY <1>1, <1>4, <1>5, <1>6, <1>7 DEF Prefix
  <1> QED
    BY <1>p, <1>8

LEMMA NoLines == Prefix(0, NoTables)
  <1>1. IsTable(NoTables) /\ NoTables.persist_deps = {} /\ NoTables.flush_pending = <<>> /\ NoTables.fence_pending = <<>>
    BY DEF NoTables, IsTable
  <1>2. DOMAIN <<>> = {}
    OBVIOUS
  <1>3. 1 .. 0 = {}
    OBVIOUS
  <1> QED
    BY <1>1, <1>2, <1>3 DEF Prefix, FlushPendings, FencePendings, Justified, StoresKept

LEMMA PrefixNext ==
  ASSUME trace \in Seq(Lines), NEW n \in 0 .. Len(trace) - 1, NEW t, Prefix(n, t)
  PROVE  /\ Prefix(n + 1, LoadLine(t, trace[n + 1]))
         /\ t.persist_deps \subseteq LoadLine(t, trace[n + 1]).persist_deps
  <1>p. PICK line, u : line = trace[n + 1] /\ u = LoadLine(t, line)
    OBVIOUS
  <1>0. n + 1 \in 1 .. Len(trace)
    OBVIOUS
  <1>1. line \in Lines
    BY <1>p, <1>0
  <1>2. line.type \in {"load", "store", "flush", "fence", "branch"}
    BY <1>1, LineCases
  <1>3. Prefix(n + 1, LoadLine(t, trace[n + 1]))
    BY <1>p, <1>2, PrefixStore, PrefixFlush, PrefixFence, PrefixOther
  <1>a. IsTable(t)
    BY DEF Prefix
  <1>4. t.persist_deps \subseteq u.persist_deps
    <2>1. CASE line.type = "store"
      <3>1. StoreLoaded(t, line, u)
        BY <1>p, <1>1, <1>a, <2>1, LineCases, StoreFields
      <3> QED
        BY <3>1 DEF StoreLoaded
    <2>2. CASE line.type = "flush"
      <3>1. PICK keys : FlushLoaded(t, line, keys, u)
        BY <1>p, <1>1, <1>a, <2>2, LineCases, FlushFields
      <3> QED
        BY <3>1 DEF FlushLoaded
    <2>3. CASE line.type = "fence"
      <3>1. FenceLoaded(t, line, u)
        BY <1>p, <1>1, <1>a, <2>3, LineCases, FenceFields
      <3> QED
        BY <3>1 DEF FenceLoaded
    <2>4. CASE line.type = "load"
      <3>0. u = [t EXCEPT !.pm_loads = @ \cup {line.ip}]
        BY <1>p, <2>4 DEF LoadLine
      <3>1. PICK v : u = [t EXCEPT !.pm_loads = v]
        BY <3>0
      <3> QED
        BY <1>a, <3>1 DEF IsTable
    <2>5. CASE line.type = "branch"
      <3>0. u = [t EXCEPT !.branches = @ \cup {<<line.ip, line.target>>}]
        BY <1>p, <2>5 DEF LoadLine
      <3>1. PICK v : u = [t EXCEPT !.branches = v]
        BY <3>0
      <3> QED
        BY <1>a, <3>1 DEF IsTable
    <2> QED
      BY <1>2, <2>1, <2>2, <2>3, <2>4, <2>5
  <1> QED
    BY <1>p, <1>3, <1>4

LEMMA EveryPrefix ==
  ASSUME trace \in Seq(Lines)
  PROVE  \E g : /\ g[Len(trace)] = Load(trace)
                /\ \A n \in 0 .. Len(trace) : Prefix(n, g[n]) /\ \A k \in 0 .. n : g[k].persist_deps \subseteq g[n].persist_deps
  <1>1. PICK g : /\ g[0] = NoTables /\ g[Len(trace)] = Load(trace)
                 /\ \A n \in 0 .. Len(trace) - 1 : g[n + 1] = LoadLine(g[n], trace[n + 1])
    BY LoadedSoFar
  <1>2. PICK N : N = Len(trace) /\ N \in Nat
    OBVIOUS
  <1> DEFINE T == {n \in Nat : n <= N => /\ Prefix(n, g[n])
                                         /\ \A k \in 0 .. n : g[k].persist_deps \subseteq g[n].persist_deps}
  <1>3. 0 \in T
    <2>1. \A k \in 0 .. 0 : k = 0
      OBVIOUS
    <2> QED
      BY <1>1, <2>1, NoLines
  <1>4. ASSUME NEW n \in Nat, n \in T PROVE n + 1 \in T
    <2> SUFFICES ASSUME n + 1 <= N
                 PROVE  /\ Prefix(n + 1, g[n + 1])
                        /\ \A k \in 0 .. n + 1 : g[k].persist_deps \subseteq g[n + 1].persist_deps
      OBVIOUS
    <2>1. n <= N /\ n \in 0 .. N - 1 /\ n \in 0 .. Len(trace) - 1
      BY <1>2
    <2>2. Prefix(n, g[n]) /\ \A k \in 0 .. n : g[k].persist_deps \subseteq g[n].persist_deps
      BY <1>4, <2>1
    <2>3. Prefix(n + 1, g[n + 1]) /\ g[n].persist_deps \subseteq g[n + 1].persist_deps
      BY <1>1, <2>1, <2>2, PrefixNext
    <2>4. \A k \in 0 .. n + 1 : k \in 0 .. n \/ k = n + 1
      OBVIOUS
    <2> QED
      BY <2>2, <2>3, <2>4
  <1>5. \A n \in Nat : n \in T
    <2> HIDE DEF T
    <2> QED
      BY <1>3, <1>4, UpFromZero
  <1>6. \A n \in 0 .. N : n \in Nat /\ n <= N
    BY <1>2
  <1>7. \A n \in 0 .. N : Prefix(n, g[n]) /\ \A k \in 0 .. n : g[k].persist_deps \subseteq g[n].persist_deps
    BY <1>5, <1>6
  <1>8. \A n \in 0 .. Len(trace) : Prefix(n, g[n]) /\ \A k \in 0 .. n : g[k].persist_deps \subseteq g[n].persist_deps
    BY <1>2, <1>7
  <1> QED
    BY <1>1, <1>8

(* A store that a flush of its line follows waits no more at the flush.    *)
LEMMA LoadOrdered ==
  ASSUME trace \in Seq(Lines), phase \in {"build", "reduce", "done"} => tables = Load(trace)
  PROVE  DependenciesOrdered
  <1> SUFFICES ASSUME tables = Load(trace)
               PROVE  /\ \A d \in tables.persist_deps : \E j, k \in DOMAIN trace : Justifies(j, k, d)
                      /\ \A j, k \in DOMAIN trace, a \in Addresses :
                           j < k /\ Stores(j, a) /\ CoversLine(k, a) =>
                             \E i \in 1 .. j, m \in (j + 1) .. k :
                               Stores(i, a) /\ Takes(m, a) /\ <<trace[m].ip, trace[i].ip>> \in tables.persist_deps
    BY DEF DependenciesOrdered, Justifies
  <1>1. PICK N : N = Len(trace) /\ N \in Nat /\ DOMAIN trace = 1 .. N
    OBVIOUS
  <1>2. PICK g : /\ g[Len(trace)] = Load(trace)
                 /\ \A n \in 0 .. Len(trace) :
                      Prefix(n, g[n]) /\ \A k \in 0 .. n : g[k].persist_deps \subseteq g[n].persist_deps
    BY EveryPrefix
  <1>3. N \in 0 .. N /\ g[N] = tables
    BY <1>1, <1>2
  <1>4. \A d \in tables.persist_deps : \E j, k \in DOMAIN trace : Justifies(j, k, d)
    BY <1>1, <1>2, <1>3 DEF Prefix, Justified
  <1>5. ASSUME NEW j \in DOMAIN trace, NEW k \in DOMAIN trace, NEW a \in Addresses,
               j < k, Stores(j, a), CoversLine(k, a)
        PROVE  \E i \in 1 .. j, m \in (j + 1) .. k :
                 Stores(i, a) /\ Takes(m, a) /\ <<trace[m].ip, trace[i].ip>> \in tables.persist_deps
    <2>1. k \in 0 .. N /\ j \in 1 .. k /\ k \in Nat
      BY <1>1, <1>5
    <2>2. Prefix(k, g[k]) /\ g[k].persist_deps \subseteq tables.persist_deps
      BY <1>1, <1>2, <1>3, <2>1
    <2>3. a \notin DOMAIN g[k].flush_pending
      <3> SUFFICES ASSUME a \in DOMAIN g[k].flush_pending PROVE FALSE
        OBVIOUS
      <3>1. PICK i \in 1 .. k : Stores(i, a) /\ \A m \in (i + 1) .. k : ~CoversLine(m, a)
        BY <2>2 DEF Prefix, FlushPendings
      <3>2. i # k
        BY <1>5, <3>1 DEF Stores, CoversLine
      <3>3. k \in (i + 1) .. k
        BY <2>1, <3>2
      <3> QED
        BY <1>5, <3>1, <3>3
    <2>4. Given(j, k, a, g[k].persist_deps)
      BY <1>5, <2>1, <2>2, <2>3 DEF Prefix, StoresKept, Pending
    <2> QED
      BY <2>2, <2>4 DEF Given
  <1> QED
    BY <1>4, <1>5

(* The trace is one of lines LoadTrace knows, and the tables are what it   *)
(* makes of them.                                                          *)
Loaded ==
  /\ trace \in Seq(Lines)
  /\ phase \in {"build", "reduce", "done"} => tables = Load(trace)

LEMMA InitLoaded == CollectionInit => Loaded
  <1> SUFFICES ASSUME CollectionInit PROVE Loaded
    OBVIOUS
  <1>1. trace = <<>> /\ phase = "map"
    BY DEF CollectionInit
  <1>2. <<>> \in Seq(Lines)
    OBVIOUS
  <1> QED
    BY <1>1, <1>2 DEF Loaded

LEMMA NextLoaded == Stepping /\ Loaded /\ [CollectionNext]_<<mvars, gvars>> => Loaded'
  <1> SUFFICES ASSUME Stepping, Loaded, [CollectionNext]_<<mvars, gvars>> PROVE Loaded'
    OBVIOUS
  <1>1. ASSUME UNCHANGED <<trace, tables>>,
               phase' = phase \/ phase' \in {"collect", "load"} \/ (phase \in {"build", "reduce"} /\ phase' \in {"reduce", "done"})
        PROVE  Loaded'
    <2>1. Load(trace)' = Load(trace)
      BY <1>1 DEF Load
    <2> QED
      BY <1>1, <2>1 DEF Loaded
  <1>2. ASSUME NEW line \in Lines, trace' \in {trace, Append(trace, line)}, phase = "collect", phase' = phase PROVE Loaded'
    <2>1. Append(trace, line) \in Seq(Lines)
      BY DEF Loaded
    <2> QED
      BY <1>2, <2>1 DEF Loaded
  <1>3. CASE Execute
    <2>0. rip \in DOMAIN code /\ rip \in Nat /\ \A to \in DOMAIN code : to \in Nat
      <3>1. rip \in DOMAIN code /\ DOMAIN code = 1 .. Len(code)
        BY <1>3, RoutineShape DEF Execute, Stepping
      <3> QED
        BY <3>1
    <2>c. phase = "collect" /\ phase' = phase /\ tables' = tables
      BY <1>3 DEF Execute
    <2>1. ASSUME NEW type \in {"load", "store", "flush"}, AccessHandler(type) PROVE Loaded'
      <3>1. PICK address \in Addresses : trace' \in {trace, Append(trace, Line(type, rip, address))}
        BY <2>1 DEF AccessHandler
      <3>2. Line(type, rip, address) \in Lines
        BY <2>0, LinesAssumption DEF Line, Lines
      <3> QED
        BY <1>2, <2>c, <3>1, <3>2
    <2>2. ASSUME FenceHandler PROVE Loaded'
      <3>1. Line("fence", rip, 0) \in Lines
        BY <2>0 DEF Line, Lines
      <3> QED
        BY <1>2, <2>c, <2>2, <3>1 DEF FenceHandler
    <2>3. ASSUME NEW to \in DOMAIN code \cup {0}, IndirectBranchHandler(to) PROVE Loaded'
      <3>1. Line("branch", Base + rip, Base + to) \in Lines
        BY <2>0, LinesAssumption DEF Line, Lines
      <3> QED
        BY <1>2, <2>c, <2>3, <3>1 DEF IndirectBranchHandler
    <2>4. CASE UNCHANGED trace
      BY <1>1, <2>c, <2>4
    <2>5. \/ \E type \in {"load", "store", "flush"} : AccessHandler(type)
          \/ FenceHandler
          \/ \E to \in DOMAIN code \cup {0} : IndirectBranchHandler(to)
          \/ UNCHANGED trace
      BY <1>3 DEF Execute
    <2> QED
      BY <2>1, <2>2, <2>3, <2>4, <2>5
  <1>4. CASE LoadTrace
    <2>1. trace' = trace /\ tables' = Load(trace)
      BY <1>4 DEF LoadTrace, Load
    <2>2. Load(trace)' = Load(trace)
      BY <2>1 DEF Load
    <2> QED
      BY <2>1, <2>2 DEF Loaded
  <1>5. CASE Mapping \/ CollectCFGFini
    BY <1>1, <1>5 DEF Mapping, CollectCFGFini
  <1>6. CASE GetCFGforRTN \/ reduce \/ Written
    BY <1>1, <1>6 DEF GetCFGforRTN, reduce, Written
  <1>7. CASE UNCHANGED <<mvars, gvars>>
    BY <1>1, <1>7 DEF gvars
  <1> QED
    BY <1>3, <1>4, <1>5, <1>6, <1>7 DEF CollectionNext

(* The edges the trace gives are those of a flush to a store it persists,  *)
(* or of a fence to a flush it orders, and every store that was flushed is *)
(* stood for, for traces of any length (tracing.hpp:281, 341).             *)
THEOREM DependenciesAlwaysOrdered == CollectionSpec => []DependenciesOrdered
  <1> DEFINE inv == Stepping /\ Loaded
  <1>1. inv => DependenciesOrdered
    BY LoadOrdered DEF Loaded
  <1>2. inv /\ [CollectionNext]_<<mvars, gvars>> => inv'
    BY NextStepping, NextLoaded
  <1>3. CollectionInit => inv
    BY InitGraph, InitLoaded
  <1> HIDE DEF inv
  <1> QED
    BY <1>1, <1>2, <1>3, PTL DEF CollectionSpec

--------------------------------------------------------------------------
(* The offline trace analysis.                                             *)

(* A file that exists holds total_inserted records, of which the last      *)
(* segment has RECORD_OPERATIONS_LIMIT - inserted_since_increase left.     *)
FileTight ==
  IF total_inserted = 0
  THEN Len(execution) = 0 /\ inserted_since_increase = 0 /\ mapped = 0
  ELSE /\ Len(execution) + RECORD_OPERATIONS_LIMIT = total_inserted + inserted_since_increase
       /\ total_inserted <= mapped

IInv ==
  /\ execution \in Seq(Backtraces)
  /\ total_inserted \in Nat /\ inserted_since_increase \in Nat /\ mapped \in Nat
  /\ pc = "tracing" => current_instruction_id = Len(execution)
  /\ non_deterministic => inserted_since_increase <= RECORD_OPERATIONS_LIMIT /\ FileTight

(* Whatever does not touch the records keeps the invariant, once the first *)
(* execution is over or its id keeps up.                                   *)
LEMMA Untouched ==
  ASSUME IInv, UNCHANGED <<execution, records, non_deterministic>>,
         pc' = "tracing" => pc = "tracing" /\ UNCHANGED current_instruction_id
  PROVE  IInv'
BY DEF IInv, FileTight, records

(* Recording one more instruction, with or without a new segment.          *)
LEMMA RecordStep ==
  ASSUME IInv, NEW backtrace \in Backtraces, Trace(backtrace)
  PROVE  IInv'
<1> USE LimitAssumption
<1>1. /\ execution' = Append(execution, backtrace)
      /\ current_instruction_id' = current_instruction_id + 1
      /\ pc = "tracing" /\ UNCHANGED <<pc, non_deterministic>>
  BY DEF Trace
<1>2. execution' \in Seq(Backtraces) /\ Len(execution') = Len(execution) + 1
      /\ Len(execution) \in Nat
  BY <1>1 DEF IInv
<1>3. CASE non_deterministic
  <2>1. RecordTraceAddresses
    BY <1>3 DEF Trace
  <2>2. CASE total_inserted = 0
    <3>1. total_inserted' = RECORD_OPERATIONS_LIMIT /\ mapped' = RECORD_OPERATIONS_LIMIT
      BY <2>1, <2>2 DEF RecordTraceAddresses, Map
    <3>2. inserted_since_increase = 0 /\ Len(execution) = 0
      BY <1>3, <2>2 DEF IInv, FileTight
    <3>3. inserted_since_increase' = 1
      BY <2>1, <3>2 DEF RecordTraceAddresses
    <3> QED BY <1>1, <1>2, <3>1, <3>2, <3>3 DEF IInv, FileTight
  <2>3. CASE total_inserted # 0 /\ inserted_since_increase = RECORD_OPERATIONS_LIMIT
    <3>1. /\ total_inserted' = total_inserted + RECORD_OPERATIONS_LIMIT
          /\ mapped' = total_inserted' + RECORD_OPERATIONS_LIMIT
          /\ inserted_since_increase' = 1
      BY <2>1, <2>3 DEF RecordTraceAddresses, Map
    <3> QED BY <1>1, <1>2, <1>3, <2>3, <3>1 DEF IInv, FileTight
  <2>4. CASE total_inserted # 0 /\ inserted_since_increase # RECORD_OPERATIONS_LIMIT
    <3>1. /\ UNCHANGED <<total_inserted, mapped>>
          /\ inserted_since_increase' = inserted_since_increase + 1
      BY <2>1, <2>4 DEF RecordTraceAddresses, Map
    <3> QED BY <1>1, <1>2, <1>3, <2>4, <3>1 DEF IInv, FileTight
  <2> QED BY <2>2, <2>3, <2>4
<1>4. CASE ~non_deterministic
  <2>1. UNCHANGED records
    BY <1>4 DEF Trace
  <2> QED BY <1>1, <1>2, <1>4, <2>1 DEF IInv, records
<1> QED BY <1>3, <1>4

LEMMA Invariance == Spec => []IInv
<1>1. Init => IInv
  BY LimitAssumption DEF Init, IInv, FileTight
<1>2. IInv /\ [Next]_vars => IInv'
  <2> SUFFICES ASSUME IInv, [Next]_vars PROVE IInv'
    OBVIOUS
  <2>1. ASSUME NEW backtrace \in Backtraces, Trace(backtrace) PROVE IInv'
    BY <2>1, RecordStep
  <2>2. CASE Fini
    BY <2>2, Untouched DEF Fini
  <2>3. CASE Analyze
    BY <2>3, Untouched DEF Analyze
  <2>4. CASE Open
    BY <2>4, Untouched DEF Open
  <2>5. CASE CollectBacktrace
    BY <2>5, Untouched DEF CollectBacktrace
  <2>6. CASE ReportRecorded
    BY <2>6, Untouched DEF ReportRecorded
  <2>7. CASE Exit
    BY <2>7, Untouched DEF Exit
  <2>8. CASE UNCHANGED vars
    BY <2>8, Untouched DEF vars
  <2> QED BY <2>1, <2>2, <2>3, <2>4, <2>5, <2>6, <2>7, <2>8 DEF Next
<1> QED BY <1>1, <1>2, PTL DEF Spec

(* RecordTraceAddresses never writes, and ReportAllBugs never reads, past  *)
(* what IncreaseMmapMemory mapped, however long the trace.                 *)
THEOREM RecordsStayMapped == Spec => []RecordsMapped
<1>1. IInv => RecordsMapped
  <2> SUFFICES ASSUME IInv, non_deterministic PROVE
        /\ pc = "tracing" => current_instruction_id <= total_inserted
        /\ Len(execution) <= total_inserted
        /\ total_inserted <= mapped
    BY DEF RecordsMapped
  <2>1. Len(execution) \in Nat
    BY DEF IInv
  <2>2. CASE total_inserted = 0
    BY <2>1, <2>2 DEF IInv, FileTight
  <2>3. CASE total_inserted # 0
    BY <2>1, <2>3, LimitAssumption DEF IInv, FileTight
  <2> QED BY <2>2, <2>3
<1> QED BY <1>1, Invariance, PTL
--------------------------------------------------------------------------
(* The bugs.                                                               *)

Members(list)  == {list[i] : i \in DOMAIN list}
Distinct(list) == \A i, j \in DOMAIN list : list[i] = list[j] => i = j

\* What Reported makes of a report.
ReportedOnce(r, b, result, S) ==
  result \in Seq(S) /\ Members(result) = Members(r) \cup {b} /\ Distinct(result)

LEMMA ReportedFields ==
  ASSUME NEW S, NEW r \in Seq(S), Distinct(r), NEW b \in S
  PROVE  ReportedOnce(r, b, Reported(r, b), S)
<1>1. CASE \E i \in DOMAIN r : r[i] = b
  <2>1. Reported(r, b) = r /\ b \in Members(r)
    BY <1>1 DEF Reported, Members
  <2> QED BY <2>1 DEF ReportedOnce
<1>2. CASE ~ \E i \in DOMAIN r : r[i] = b
  <2>1. PICK e : e = Append(r, b)
    OBVIOUS
  <2>2. /\ e \in Seq(S) /\ DOMAIN r = 1 .. Len(r) /\ Len(r) \in Nat
        /\ DOMAIN e = 1 .. Len(r) + 1 /\ e[Len(r) + 1] = b /\ \A i \in 1 .. Len(r) : e[i] = r[i]
    BY <2>1
  <2>3. Members(e) = Members(r) \cup {b}
    BY <2>2 DEF Members
  <2>4. Distinct(e)
    BY <1>2, <2>2 DEF Distinct
  <2>5. Reported(r, b) = e
    BY <1>2, <2>1 DEF Reported
  <2> QED BY <2>2, <2>3, <2>4, <2>5 DEF ReportedOnce
<1> QED BY <1>1, <1>2

(* The ids equal to next_bug at the head of the list are counted, and no   *)
(* more.                                                                   *)
LEMMA RepeatsFields ==
  ASSUME NEW list \in Seq(Nat), NEW id
  PROVE  /\ Repeats(list, id) \in 0 .. Len(list)
         /\ \A i \in 1 .. Repeats(list, id) : list[i] = id
         /\ Repeats(list, id) < Len(list) => list[Repeats(list, id) + 1] # id
<1> DEFINE less == {p \in Nat \X Nat : p[1] < p[2]}
           T    == {n \in 0 .. Len(list) : n < Len(list) => list[n + 1] # id}
           P(n) == (\A i \in 1 .. n : list[i] = id) /\ (n < Len(list) => list[n + 1] # id)
<1>1. IsWellFoundedOn(less, Nat)
  BY NatLessThanWellFounded DEF OpToRel
<1>2. Len(list) \in T /\ T \subseteq Nat
  OBVIOUS
<1>3. PICK n \in T : \A m \in T : <<m, n>> \notin less
  BY <1>1, <1>2, WFMin
<1>4. ASSUME NEW i \in 1 .. n PROVE list[i] = id
  <2>1. i - 1 \in 0 .. Len(list) /\ i - 1 < n /\ (i - 1) + 1 = i
    OBVIOUS
  <2>2. <<i - 1, n>> \in less
    BY <2>1
  <2>3. i - 1 \notin T
    BY <1>3, <2>2
  <2> QED BY <2>1, <2>3
<1>5. P(n) /\ n \in 0 .. Len(list)
  BY <1>4
<1>6. Repeats(list, id) = CHOOSE m \in 0 .. Len(list) : P(m)
  BY DEF Repeats
<1> HIDE DEF P
<1>7. P(Repeats(list, id)) /\ Repeats(list, id) \in 0 .. Len(list)
  BY <1>5, <1>6
<1> QED BY <1>7 DEF P

(* What SetNextBugId takes from a sorted list: all of it but the id just   *)
(* reported, and the next one is the least of the rest.                    *)
NextTaken(list, id, n, next, rest) ==
  /\ next \in Members(list) /\ next # id
  /\ rest \in Seq(Nat) /\ Sorted(rest)
  /\ {next} \cup Members(rest) \subseteq Members(list)
  /\ Members(list) \subseteq {next} \cup Members(rest) \cup (IF n = 0 THEN {} ELSE {id})
  /\ \A m \in Members(rest) : next <= m

LEMMA NextTakenFields ==
  ASSUME NEW list \in Seq(Nat), Sorted(list), NEW id, NEW n, n = Repeats(list, id), n # Len(list)
  PROVE  /\ NextTaken(list, id, n, list[n + 1], SubSeq(list, n + 2, Len(list)))
         /\ n # 0 => id \in Members(list)
<1> DEFINE L    == Len(list)
           rest == SubSeq(list, n + 2, L)
<1>1. n \in Nat /\ n < L /\ L \in Nat /\ DOMAIN list = 1 .. L
      /\ (\A i \in 1 .. n : list[i] = id) /\ list[n + 1] # id
  BY RepeatsFields
<1>b. n + 1 \in 1 .. L /\ n + 1 \in DOMAIN list
  <2>1. PICK k \in Nat, l \in Nat : k = n /\ l = L
    BY <1>1
  <2>2. k < l
    BY <1>1, <2>1
  <2>3. k + 1 \in 1 .. l
    BY <2>2
  <2> QED BY <1>1, <2>1, <2>3
<1>a. ASSUME NEW i \in 1 .. L - n - 1
      PROVE  /\ i \in Nat /\ i + (n + 1) \in 1 .. L /\ i + (n + 1) > n + 1
             /\ i \in 1 .. L - (n + 2) + 1 /\ (n + 2) + i - 1 = i + (n + 1)
  <2>1. PICK k \in Nat, l \in Nat : k = n /\ l = L
    BY <1>1
  <2>2. i \in 1 .. l - k - 1
    BY <2>1
  <2>3. /\ i \in Nat /\ i + (k + 1) \in 1 .. l /\ i + (k + 1) > k + 1
        /\ i \in 1 .. l - (k + 2) + 1 /\ (k + 2) + i - 1 = i + (k + 1)
    BY <2>2
  <2> QED BY <2>1, <2>3
<1>2. rest \in Seq(Nat) /\ DOMAIN rest = 1 .. L - n - 1 /\ \A i \in 1 .. L - n - 1 : rest[i] = list[i + (n + 1)]
  <2>1. PICK r : r = rest
    OBVIOUS
  <2>2. \A i \in n + 2 .. L : list[i] \in Nat
    BY <1>1
  <2>a. PICK from \in Nat : from = n + 2
    BY <1>1
  <2>3. /\ r \in Seq(Nat)
        /\ Len(r) = (IF from <= L THEN L - from + 1 ELSE 0)
        /\ \A i \in 1 .. L - from + 1 : r[i] = list[from + i - 1]
    <3>1. r = SubSeq(list, from, L) /\ from \in Int /\ L \in Int /\ \A i \in from .. L : list[i] \in Nat
      BY <1>1, <2>1, <2>2, <2>a
    <3> HIDE DEF L
    <3> QED BY <3>1, SubSeqProperties
  <2>4. Len(r) = L - n - 1
    BY <1>1, <2>3, <2>a
  <2>5. \A i \in 1 .. L - n - 1 : r[i] = list[i + (n + 1)]
    <3> SUFFICES ASSUME NEW i \in 1 .. L - n - 1 PROVE r[i] = list[i + (n + 1)]
      OBVIOUS
    <3>1. i \in 1 .. L - from + 1 /\ from + i - 1 = i + (n + 1)
      BY <1>a, <2>a
    <3> QED BY <2>3, <3>1
  <2> QED BY <2>1, <2>3, <2>4, <2>5
<1> HIDE DEF rest
<1>4. Sorted(rest)
  <2> SUFFICES ASSUME NEW i \in 1 .. L - n - 1, NEW j \in 1 .. L - n - 1, i < j PROVE rest[i] <= rest[j]
    BY <1>2 DEF Sorted
  <2>0. i + (n + 1) \in 1 .. L /\ j + (n + 1) \in 1 .. L /\ i + (n + 1) < j + (n + 1)
    <3>1. i \in Nat /\ j \in Nat /\ n \in Nat
      BY <1>1, <1>a
    <3> QED BY <1>a, <3>1
  <2>1. i + (n + 1) \in DOMAIN list /\ j + (n + 1) \in DOMAIN list
    BY <1>1, <2>0
  <2>2. list[i + (n + 1)] <= list[j + (n + 1)]
    BY <2>0, <2>1 DEF Sorted
  <2> QED BY <1>2, <2>2
<1>5. ASSUME NEW m \in Members(rest) PROVE m \in Members(list) /\ list[n + 1] <= m
  <2>1. PICK i \in 1 .. L - n - 1 : m = list[i + (n + 1)]
    BY <1>2 DEF Members
  <2>2. i + (n + 1) \in DOMAIN list /\ n + 1 \in DOMAIN list /\ n + 1 < i + (n + 1)
    <3>1. i + (n + 1) \in DOMAIN list
      BY <1>1, <1>a
    <3>2. i \in Nat /\ n \in Nat /\ i + (n + 1) > n + 1
      BY <1>1, <1>a
    <3> QED BY <1>b, <3>1, <3>2
  <2>3. list[n + 1] <= list[i + (n + 1)]
    BY <2>2 DEF Sorted
  <2> QED BY <2>1, <2>2, <2>3 DEF Members
<1>6. list[n + 1] \in Members(list)
  <2>1. n + 1 \in DOMAIN list
    BY <1>b
  <2> QED BY <2>1 DEF Members
<1>7. ASSUME NEW m \in Members(list) PROVE m = list[n + 1] \/ m \in Members(rest) \/ (n # 0 /\ m = id)
  <2>1. PICK j \in 1 .. L : m = list[j]
    BY <1>1, <1>7 DEF Members
  <2>2. CASE j <= n
    BY <1>1, <2>1, <2>2
  <2>3. CASE j > n + 1
    <3>1. j - (n + 1) \in 1 .. L - n - 1 /\ (j - (n + 1)) + (n + 1) = j
      BY <1>1, <2>3
    <3>2. rest[j - (n + 1)] = m
      BY <1>2, <2>1, <3>1
    <3> QED BY <1>2, <3>1, <3>2 DEF Members
  <2> QED BY <1>1, <2>1, <2>2, <2>3
<1>8. n # 0 => id \in Members(list)
  <2>1. n # 0 => 1 \in DOMAIN list /\ list[1] = id
    BY <1>1
  <2> QED BY <2>1 DEF Members
<1>9. NextTaken(list, id, n, list[n + 1], rest)
  BY <1>1, <1>2, <1>4, <1>5, <1>6, <1>7 DEF NextTaken
<1> QED BY <1>8, <1>9 DEF rest

\* The ids whose backtraces are still to be reported.
PendingBugs == Members(bug_ids) \cup (IF non_deterministic THEN {} ELSE {next_bug})

\* The report has the backtraces of the bugs but those of P, and no other.
Located(P) ==
  /\ BacktracesOf(found \ (Mislaid \cup P)) \subseteq InReport
  /\ InReport \ {<<>>} \subseteq BacktracesOf(found)
  /\ Distinct(bug_report)

(* The second execution keeps pace with the sorted list: nothing that is   *)
(* pending was passed, and the next bug is the first that will be met.     *)
Locating ==
  /\ execution \in Seq(Backtraces)
  /\ bug_ids \in Seq(Nat) /\ next_bug \in Nat
  /\ bug_report \in Seq(Backtraces \cup {<<>>})
  /\ found \subseteq 0 .. Len(execution) - 1
  /\ ~non_deterministic => Sorted(bug_ids)
  /\ pc \in {"tracing", "analyzing"} => bug_report = <<>> /\ next_bug = 1 /\ bug_ids = <<>>
                                        /\ addresses = <<>> /\ current_instruction_id = Len(execution)
  /\ pc = "opening" => /\ bug_report = <<>> /\ next_bug = 1 /\ addresses = <<>>
                       /\ found = Members(bug_ids) /\ current_instruction_id = 0
  /\ pc = "collecting" => /\ PendingBugs \subseteq found /\ Located(PendingBugs)
                          /\ current_instruction_id \in 0 .. Len(execution)
  /\ pc = "collecting" /\ ~non_deterministic =>
       /\ current_instruction_id <= next_bug
       /\ \A m \in Members(bug_ids) : next_bug <= m
  /\ pc = "done" => Located({})
LEMMA Nothing == Members(<<>>) = {} /\ Distinct(<<>>) /\ Sorted(<<>>) /\ <<>> \in Seq(Nat)
BY DEF Members, Distinct, Sorted

LEMMA InitLocating == Init => Locating
BY Nothing DEF Init, Locating

(* One more bug, id, is reported.                                          *)
LEMMA LocatedMore ==
  ASSUME NEW P, NEW Q, Located(P), NEW id, id \in found, execution[id + 1] \in Backtraces,
         P \subseteq Q \cup {id}, InReport' = InReport \cup {execution[id + 1]},
         Distinct(bug_report'), found' = found, execution' = execution
  PROVE  Located(Q)'
<1>1. Mislaid' = Mislaid
  BY BacktracesAssumption DEF Mislaid
<1>2. \A ids : BacktracesOf(ids)' = BacktracesOf(ids)
  BY DEF BacktracesOf
<1>3. BacktracesOf(found \ (Mislaid \cup Q)) \subseteq InReport'
  BY DEF Located, BacktracesOf
<1>4. InReport' \ {<<>>} \subseteq BacktracesOf(found)
  BY DEF Located, BacktracesOf
<1>5. BacktracesOf(found \ (Mislaid \cup Q))' = BacktracesOf(found \ (Mislaid \cup Q))
      /\ BacktracesOf(found)' = BacktracesOf(found)
  BY <1>1 DEF BacktracesOf
<1> QED BY <1>3, <1>4, <1>5 DEF Located

(* The first id is looked for before the second execution.                 *)
LEMMA OpenLocates == ASSUME Locating, Open PROVE Locating'
<1>1. /\ pc = "opening" /\ execution' = execution /\ found' = found /\ non_deterministic' = non_deterministic
      /\ current_instruction_id' = 0 /\ bug_report = <<>> /\ next_bug = 1 /\ addresses = <<>>
      /\ found = Members(bug_ids) /\ bug_ids \in Seq(Nat) /\ execution \in Seq(Backtraces)
      /\ found \subseteq 0 .. Len(execution) - 1 /\ Len(execution) \in Nat
  BY DEF Open, Locating
<1>2. CASE non_deterministic
  <2>1. pc' = "collecting" /\ bug_report' = <<>> /\ next_bug' = 1 /\ bug_ids' = bug_ids
    BY <1>1, <1>2 DEF Open, report
  <2>2. PendingBugs' = found /\ InReport' = {}
    BY <1>1, <1>2, <2>1 DEF PendingBugs, InReport, Members
  <2>3. Located(PendingBugs)'
    BY <1>1, <2>1, <2>2, Nothing DEF Located, BacktracesOf
  <2> QED BY <1>1, <1>2, <2>1, <2>2, <2>3 DEF Locating
<1>3. CASE ~non_deterministic
  <2>1. PICK n, list : n = Repeats(bug_ids, 1) /\ list = bug_ids
    OBVIOUS
  <2>2. /\ bug_report' = (IF n > 0 THEN Reported(<<>>, <<>>) ELSE <<>>)
        /\ pc' = IF n = Len(list) THEN "done" ELSE "collecting"
        /\ n = Len(list) => bug_ids' = <<>> /\ next_bug' = 1
        /\ n # Len(list) => next_bug' = list[n + 1] /\ bug_ids' = SubSeq(list, n + 2, Len(list))
    BY <1>1, <1>3, <2>1 DEF Open, SetNextBugId, NoNextBug
  <2>3. list \in Seq(Nat) /\ Sorted(list) /\ found = Members(list)
    BY <1>1, <1>3, <2>1 DEF Locating
  <2>4. /\ n \in 0 .. Len(list) /\ \A i \in 1 .. n : list[i] = 1
        /\ Len(list) \in Nat /\ DOMAIN list = 1 .. Len(list)
    BY <2>1, <2>3, RepeatsFields
  <2>5. /\ bug_report' \in Seq(Backtraces \cup {<<>>}) /\ Distinct(bug_report')
        /\ InReport' = (IF n > 0 THEN {<<>>} ELSE {})
    <3>1. CASE n > 0
      <4>1. ReportedOnce(<<>>, <<>>, Reported(<<>>, <<>>), Backtraces \cup {<<>>})
        <5>1. PICK e, S : e = <<>> /\ S = Backtraces \cup {<<>>}
          OBVIOUS
        <5>2. e \in Seq(S) /\ Distinct(e) /\ e \in S
          BY <5>1, Nothing
        <5>3. ReportedOnce(e, e, Reported(e, e), S)
          BY <5>2, ReportedFields
        <5> QED BY <5>1, <5>3
      <4> QED BY <2>2, <3>1, <4>1, Nothing DEF ReportedOnce, InReport, Members
    <3>2. CASE ~(n > 0)
      BY <2>2, <3>2, Nothing DEF InReport, Members
    <3> QED BY <3>1, <3>2
  <2>6. Mislaid' = IF n > 0 THEN {1} ELSE {}
    BY <2>5 DEF Mislaid
  <2>7. CASE n = Len(list)
    <3>1. found \ Mislaid' = {}
      BY <2>3, <2>4, <2>6, <2>7 DEF Members
    <3>2. Located({})'
      BY <1>1, <2>5, <3>1 DEF Located, BacktracesOf
    <3>3. pc' = "done" /\ bug_ids' = <<>> /\ next_bug' = 1
      BY <2>2, <2>7
    <3> QED BY <1>1, <2>5, <3>2, <3>3, Nothing DEF Locating
  <2>8. CASE n # Len(list)
    <3>1. PICK next, rest : next = list[n + 1] /\ rest = SubSeq(list, n + 2, Len(list))
      OBVIOUS
    <3>2. NextTaken(list, 1, n, next, rest)
      BY <2>1, <2>3, <2>8, <3>1, NextTakenFields
    <3>3. pc' = "collecting" /\ next_bug' = next /\ bug_ids' = rest
      BY <2>2, <2>8, <3>1
    <3>4. PendingBugs' = {next} \cup Members(rest)
      BY <1>1, <1>3, <3>3 DEF PendingBugs
    <3>5. PendingBugs' \subseteq found /\ found \ (Mislaid' \cup PendingBugs') = {} /\ next \in Nat
      BY <1>1, <2>3, <2>4, <2>6, <3>2, <3>4 DEF NextTaken
    <3>6. Located(PendingBugs)'
      BY <1>1, <2>5, <3>5 DEF Located, BacktracesOf
    <3> QED BY <1>1, <1>3, <2>5, <3>2, <3>3, <3>5, <3>6 DEF Locating, NextTaken
  <2> QED BY <2>7, <2>8
<1> QED BY <1>2, <1>3

(* dofta, at the instruction after the one it looked at last.              *)
LEMMA CollectLocates == ASSUME Locating, CollectBacktrace PROVE Locating'
<1>1. /\ pc = "collecting" /\ ~non_deterministic /\ execution' = execution /\ found' = found
      /\ non_deterministic' = non_deterministic
      /\ current_instruction_id \in Nat /\ current_instruction_id < Len(execution)
      /\ current_instruction_id' = current_instruction_id + 1 /\ current_instruction_id <= next_bug
      /\ bug_ids \in Seq(Nat) /\ execution \in Seq(Backtraces) /\ next_bug \in Nat
      /\ found \subseteq 0 .. Len(execution) - 1 /\ Len(execution) \in Nat
      /\ PendingBugs \subseteq found /\ Located(PendingBugs) /\ \A m \in Members(bug_ids) : next_bug <= m
      /\ bug_report \in Seq(Backtraces \cup {<<>>}) /\ Sorted(bug_ids)
  BY DEF CollectBacktrace, Locating
<1>2. CASE current_instruction_id # next_bug
  <2>1. UNCHANGED <<report, pc>>
    BY <1>2 DEF CollectBacktrace
  <2>2. bug_ids' = bug_ids /\ next_bug' = next_bug /\ bug_report' = bug_report /\ pc' = "collecting"
    BY <1>1, <2>1 DEF report
  <2>3. PendingBugs' = PendingBugs /\ Located(PendingBugs)'
    <3>1. PendingBugs' = PendingBugs
      BY <1>1, <2>2 DEF PendingBugs
    <3>2. PICK P : P = PendingBugs
      OBVIOUS
    <3>3. Located(P)' <=> Located(P)
      BY <1>1, <2>2 DEF Located, InReport, Mislaid, BacktracesOf
    <3>4. Located(PendingBugs)' <=> Located(P)'
      BY <3>1, <3>2 DEF Located
    <3> QED BY <1>1, <3>1, <3>2, <3>3, <3>4
  <2>4. current_instruction_id' \in 0 .. Len(execution) /\ current_instruction_id' <= next_bug
    BY <1>1, <1>2
  <2> QED BY <1>1, <2>2, <2>3, <2>4 DEF Locating
<1>3. CASE current_instruction_id = next_bug
  <2>1. PICK id, b, n, list, r : /\ id = next_bug /\ b = execution[id + 1] /\ n = Repeats(bug_ids, id)
                                 /\ list = bug_ids /\ r = Reported(bug_report, b)
    OBVIOUS
  <2>2. /\ bug_report' = (IF n > 0 THEN Reported(r, b) ELSE r)
        /\ pc' = IF n = Len(list) THEN "done" ELSE "collecting"
        /\ n = Len(list) => bug_ids' = <<>> /\ next_bug' = id
        /\ n # Len(list) => next_bug' = list[n + 1] /\ bug_ids' = SubSeq(list, n + 2, Len(list))
    BY <1>1, <1>3, <2>1 DEF CollectBacktrace, SetNextBugId, NoNextBug
  <2>3. id \in found /\ b \in Backtraces /\ id + 1 \in 1 .. Len(execution)
    <3>1. id \in PendingBugs
      BY <1>1, <2>1 DEF PendingBugs
    <3>2. id + 1 \in 1 .. Len(execution)
      BY <1>1, <1>3, <2>1
    <3> QED BY <1>1, <2>1, <3>1, <3>2
  <2>4. bug_report' \in Seq(Backtraces \cup {<<>>}) /\ Distinct(bug_report') /\ InReport' = InReport \cup {b}
    <3>1. ReportedOnce(bug_report, b, r, Backtraces \cup {<<>>})
      BY <1>1, <2>1, <2>3, ReportedFields DEF Located
    <3>2. ReportedOnce(r, b, Reported(r, b), Backtraces \cup {<<>>})
      BY <2>3, <3>1, ReportedFields DEF ReportedOnce
    <3>3. ReportedOnce(bug_report, b, bug_report', Backtraces \cup {<<>>})
      BY <2>2, <3>1, <3>2 DEF ReportedOnce
    <3> QED BY <3>3 DEF ReportedOnce, InReport, Members
  <2>5. /\ n \in 0 .. Len(list) /\ (\A i \in 1 .. n : list[i] = id) /\ DOMAIN list = 1 .. Len(list)
        /\ list \in Seq(Nat) /\ Sorted(list)
    BY <1>1, <2>1, RepeatsFields
  <2>6. PICK P : P = PendingBugs
    OBVIOUS
  <2>7. P = Members(list) \cup {id} /\ Located(P)
    BY <1>1, <2>1, <2>6 DEF PendingBugs
  <2>8. ASSUME NEW Q, P \subseteq Q \cup {id} PROVE Located(Q)'
    BY <1>1, <2>1, <2>3, <2>4, <2>7, <2>8, LocatedMore
  <2>9. CASE n = Len(list)
    <3>1. P \subseteq {} \cup {id}
      BY <2>5, <2>7, <2>9 DEF Members
    <3>2. Located({})'
      BY <2>8, <3>1
    <3> QED BY <1>1, <2>1, <2>2, <2>4, <2>9, <3>2, Nothing DEF Locating
  <2>10. CASE n # Len(list)
    <3>1. PICK next, rest : next = list[n + 1] /\ rest = SubSeq(list, n + 2, Len(list))
      OBVIOUS
    <3>2. NextTaken(list, id, n, next, rest)
      BY <2>1, <2>5, <2>10, <3>1, NextTakenFields
    <3>3. pc' = "collecting" /\ next_bug' = next /\ bug_ids' = rest
      BY <2>2, <2>10, <3>1
    <3>4. PICK Q : Q = {next} \cup Members(rest)
      OBVIOUS
    <3>5. PendingBugs' = Q
      BY <1>1, <3>3, <3>4 DEF PendingBugs
    <3>6. Q \subseteq Members(list) /\ P \subseteq Q \cup {id} /\ next \in Members(list) /\ next # id
      BY <2>7, <3>2, <3>4 DEF NextTaken
    <3>7. Located(Q)'
      BY <2>8, <3>6
    <3>8. Located(PendingBugs)'
      BY <3>5, <3>7 DEF Located
    <3>9. Q \subseteq found
      BY <1>1, <2>6, <2>7, <3>6
    <3>10. next \in Nat /\ id <= next
      BY <1>1, <2>1, <3>6, <3>9
    <3>11. current_instruction_id' \in 0 .. Len(execution) /\ current_instruction_id' <= next
      BY <1>1, <1>3, <2>1, <3>6, <3>10
    <3> QED BY <1>1, <2>4, <3>2, <3>3, <3>5, <3>8, <3>9, <3>10, <3>11 DEF Locating, NextTaken
  <2> QED BY <2>9, <2>10
<1> QED BY <1>2, <1>3

(* ndofta, one line of bug-ids.txt.                                        *)
LEMMA RecordedLocates == ASSUME Locating, ReportRecorded PROVE Locating'
<1>1. /\ pc = "collecting" /\ pc' = "collecting" /\ non_deterministic /\ non_deterministic' = non_deterministic
      /\ execution' = execution /\ found' = found /\ next_bug' = next_bug
      /\ current_instruction_id' = current_instruction_id /\ bug_ids # <<>>
      /\ bug_ids \in Seq(Nat) /\ execution \in Seq(Backtraces)
      /\ found \subseteq 0 .. Len(execution) - 1 /\ Len(execution) \in Nat
      /\ PendingBugs \subseteq found /\ Located(PendingBugs) /\ PendingBugs = Members(bug_ids)
      /\ bug_report \in Seq(Backtraces \cup {<<>>})
  BY DEF ReportRecorded, Locating, PendingBugs
<1>2. PICK id, b, rest, list : /\ id = Head(bug_ids) /\ b = execution[id + 1] /\ rest = Tail(bug_ids)
                               /\ list = bug_ids
  OBVIOUS
<1>3. bug_report' = Reported(bug_report, b) /\ bug_ids' = rest
  BY <1>2 DEF ReportRecorded
<1>4. /\ list \in Seq(Nat) /\ list # <<>> /\ rest \in Seq(Nat) /\ Len(rest) = Len(list) - 1
      /\ id = list[1] /\ \A i \in 1 .. Len(rest) : rest[i] = list[i + 1]
  BY <1>1, <1>2
<1>5. Members(list) = Members(rest) \cup {id}
  <2>1. Len(list) \in Nat \ {0} /\ DOMAIN list = 1 .. Len(list) /\ DOMAIN rest = 1 .. Len(list) - 1
    BY <1>4
  <2>2. \A i \in 1 .. Len(list) : i = 1 \/ (i - 1 \in 1 .. Len(list) - 1 /\ (i - 1) + 1 = i)
    BY <2>1
  <2>3. \A i \in 1 .. Len(list) - 1 : i + 1 \in 1 .. Len(list)
    BY <2>1
  <2>4. ASSUME NEW m \in Members(list) PROVE m = id \/ m \in Members(rest)
    <3>1. PICK i \in 1 .. Len(list) : m = list[i]
      BY <2>1, <2>4 DEF Members
    <3>2. CASE i = 1
      BY <1>4, <3>1, <3>2
    <3>3. CASE i # 1
      <4>1. i - 1 \in 1 .. Len(rest) /\ rest[i - 1] = list[i]
        BY <1>4, <2>2, <3>3
      <4> QED BY <1>4, <2>1, <3>1, <4>1 DEF Members
    <3> QED BY <3>2, <3>3
  <2>5. ASSUME NEW m \in Members(rest) PROVE m \in Members(list)
    <3>1. PICK i \in 1 .. Len(list) - 1 : m = rest[i]
      BY <2>1, <2>5 DEF Members
    <3>2. i + 1 \in DOMAIN list /\ m = list[i + 1]
      BY <1>4, <2>1, <2>3, <3>1
    <3> QED BY <3>2 DEF Members
  <2>6. id \in Members(list)
    <3>1. 1 \in DOMAIN list
      BY <2>1
    <3> QED BY <1>4, <3>1 DEF Members
  <2> QED BY <2>4, <2>5, <2>6
<1>6. id \in found /\ b \in Backtraces
  <2>1. id \in found
    BY <1>1, <1>2, <1>5
  <2>2. id + 1 \in 1 .. Len(execution)
    BY <1>1, <2>1
  <2> QED BY <1>1, <1>2, <2>1, <2>2
<1>7. bug_report' \in Seq(Backtraces \cup {<<>>}) /\ Distinct(bug_report') /\ InReport' = InReport \cup {b}
  <2>1. ReportedOnce(bug_report, b, Reported(bug_report, b), Backtraces \cup {<<>>})
    BY <1>1, <1>6, ReportedFields DEF Located
  <2> QED BY <1>3, <2>1 DEF ReportedOnce, InReport, Members
<1>8. PICK P, Q : P = Members(list) /\ Q = Members(rest)
  OBVIOUS
<1>9. Located(P) /\ P \subseteq Q \cup {id} /\ Q \subseteq found
  BY <1>1, <1>2, <1>5, <1>8
<1>10. Located(Q)'
  BY <1>1, <1>2, <1>6, <1>7, <1>9, LocatedMore
<1>11. PendingBugs' = Q
  BY <1>1, <1>3, <1>8 DEF PendingBugs
<1>12. Located(PendingBugs)'
  BY <1>10, <1>11 DEF Located
<1> QED BY <1>1, <1>3, <1>4, <1>7, <1>9, <1>11, <1>12 DEF Locating

LEMMA NextLocating ==
  ASSUME default_ramdisk = TRUE, Locating, [Next]_vars
  PROVE  Locating'
<1>1. ASSUME NEW backtrace \in Backtraces, Trace(backtrace) PROVE Locating'
  <2>1. /\ pc = "tracing" /\ pc' = "tracing" /\ execution' = Append(execution, backtrace)
        /\ current_instruction_id' = current_instruction_id + 1 /\ found' = found
        /\ non_deterministic' = non_deterministic
        /\ bug_ids' = bug_ids /\ next_bug' = next_bug /\ bug_report' = bug_report
        /\ addresses' = addresses
    BY <1>1 DEF Trace, report
  <2>2. execution' \in Seq(Backtraces) /\ Len(execution') = Len(execution) + 1 /\ Len(execution) \in Nat
    BY <2>1 DEF Locating
  <2>3. found' \subseteq 0 .. Len(execution') - 1
    BY <2>1, <2>2 DEF Locating
  <2> QED BY <2>1, <2>2, <2>3 DEF Locating
<1>2. CASE Fini
  BY <1>2 DEF Fini, Locating, report
<1>3. CASE Analyze
  <2>1. /\ pc = "analyzing" /\ pc' = "opening" /\ execution' = execution /\ next_bug' = 1
        /\ addresses' = <<>> /\ bug_report' = <<>> /\ current_instruction_id' = 0
        /\ found' = Members(bug_ids') /\ Sorted(bug_ids')
        /\ bug_ids' \in Lists(0 .. Len(execution) - 1) /\ execution \in Seq(Backtraces)
    BY <1>3 DEF Analyze, Locating, Members
  <2>2. PICK k \in Nat : bug_ids' \in [1 .. k -> 0 .. Len(execution) - 1]
    BY <2>1, BoundAssumption DEF Lists
  <2>3. bug_ids' \in Seq(Nat) /\ Members(bug_ids') \subseteq 0 .. Len(execution) - 1
    <3>1. Len(execution) \in Nat
      BY <2>1
    <3> QED BY <2>2, <3>1 DEF Members
  <2> QED BY <2>1, <2>3, Nothing DEF Locating
<1>4. CASE Open
  BY <1>4, OpenLocates
<1>5. CASE CollectBacktrace
  BY <1>5, CollectLocates
<1>6. CASE ReportRecorded
  BY <1>6, RecordedLocates
<1>7. CASE Exit
  <2>1. /\ pc = "collecting" /\ pc' = "done" /\ execution' = execution /\ found' = found
        /\ bug_ids' = bug_ids /\ next_bug' = next_bug /\ bug_report' = bug_report
        /\ non_deterministic' = non_deterministic
    BY <1>7 DEF Exit, report
  <2>2. non_deterministic
    <3> SUFFICES ASSUME ~non_deterministic PROVE FALSE
      OBVIOUS
    <3>1. next_bug \in 0 .. Len(execution) - 1 /\ next_bug >= Len(execution) /\ Len(execution) \in Nat
      BY <1>7, <2>1 DEF Exit, Locating, PendingBugs
    <3> QED BY <3>1
  <2>3. PendingBugs = {} /\ Located(PendingBugs)
    BY <1>7, <2>1, <2>2, Nothing DEF Exit, Locating, PendingBugs
  <2>4. Located({})'
    <3>1. PICK P : P = {}
      OBVIOUS
    <3>2. Located(P)' <=> Located(P)
      BY <2>1 DEF Located, InReport, Mislaid, BacktracesOf
    <3>3. Located(P)
      <4>1. Located(PendingBugs) /\ PendingBugs = P
        BY <2>3, <3>1
      <4> QED BY <4>1
    <3> QED BY <3>1, <3>2, <3>3
  <2> QED BY <2>1, <2>4 DEF Locating
<1>8. CASE UNCHANGED vars
  <2>1. /\ pc' = pc /\ non_deterministic' = non_deterministic /\ execution' = execution /\ found' = found
        /\ current_instruction_id' = current_instruction_id /\ addresses' = addresses
        /\ bug_ids' = bug_ids /\ next_bug' = next_bug /\ bug_report' = bug_report
    BY <1>8 DEF vars, report
  <2>2. PendingBugs' = PendingBugs /\ (Located(PendingBugs)' <=> Located(PendingBugs)) /\ (Located({})' <=> Located({}))
    BY <2>1 DEF Located, PendingBugs, InReport, Mislaid, BacktracesOf
  <2> QED BY <2>1, <2>2 DEF Locating
<1> QED BY <1>1, <1>2, <1>3, <1>4, <1>5, <1>6, <1>7, <1>8 DEF Next

(* Joining the two executions by instruction id (ofta.cpp:143,             *)
(* SetNextBugId, CollectBacktrace, ReportAllBugs) loses no bug and blames  *)
(* no other instruction, whatever the analyzer found and however often it  *)
(* wrote an id, as long as bug-ids.txt is sorted.                          *)
THEOREM BugsAlwaysLocated ==
  ASSUME default_ramdisk = TRUE
  PROVE  Spec => []EveryBugLocated
<1>1. Init => Locating
  BY InitLocating
<1>2. Locating /\ [Next]_vars => Locating'
  BY NextLocating
<1>3. Locating => EveryBugLocated
  <2> SUFFICES ASSUME Locating, pc = "done"
               PROVE  /\ BacktracesOf(found \ Mislaid) \subseteq InReport
                      /\ InReport \ {<<>>} \subseteq BacktracesOf(found)
                      /\ \A i, j \in DOMAIN bug_report : bug_report[i] = bug_report[j] => i = j
    BY DEF EveryBugLocated
  <2>1. Located({}) /\ found \ (Mislaid \cup {}) = found \ Mislaid
    BY DEF Locating
  <2> QED BY <2>1 DEF Located, Distinct
<1> QED BY <1>1, <1>2, <1>3, PTL DEF Spec
=============================================================================
