------------------------------ MODULE PmMappings ------------------------------
(***************************************************************************)
(* The two tables of persistent-memory mappings: the one the PIN tools     *)
(* keep from the entries and exits of system calls (pin_utils.hpp), and    *)
(* the one mmap_wrapper.c keeps from the calls of mmap and munmap it       *)
(* intercepts.  Threads of the program map and unmap regions whole; what   *)
(* is mapped in truth is in mappings.  Mappings that are not shared or not *)
(* of a file on the persistent mount are like any other system call.       *)
(***************************************************************************)
EXTENDS Integers, Sequences, SequencesExt

CONSTANTS Threads, Regions   \* the regions the kernel gives: [start, size]

\* The kernel maps nothing for a length of zero.
ASSUME RegionsAssumption == \A r \in Regions : r \in [start : Nat, size : Nat \ {0}]

Failed == [start |-> 65535, size |-> 0]     \* MAP_FAILED, (void*)-1: the largest address

VARIABLES
  mappings,     \* the regions that are mapped
  call,         \* thread -> the call it is in: [name, region, mapped]
  allocs,       \* of PIN: sequence of [start, size]
  found_alloc,  \* PIN waits for the address of the last of them
  wrapped,      \* of mmap_wrapper.c: sequence of [start, size]
  overlapped,   \* a call has begun or ended while another thread was in one
  calls_left    \* bound on the calls the program makes

mvars == <<mappings, call, allocs, found_alloc, wrapped, overlapped, calls_left>>

NoCall == [name |-> "none", region |-> Failed]
Quiet  == \A t \in Threads : call[t] = NoCall

MappingsInit(calls) ==
  /\ mappings = {} /\ call = [t \in Threads |-> NoCall]
  /\ allocs = <<>> /\ found_alloc = FALSE /\ wrapped = <<>>
  /\ overlapped = FALSE /\ calls_left = calls

Interleaved(t) == overlapped' = (overlapped \/ \E u \in Threads \ {t} : call[u] # NoCall)

SysBefore(size) ==
  /\ allocs' = Append(allocs, [start |-> 0, size |-> size])
  /\ found_alloc' = TRUE

\* Mutant: the flag stays up, and every later call moves the last allocation.
SysAfter_FlagKept(value) ==
  /\ allocs' = IF found_alloc THEN [allocs EXCEPT ![Len(allocs)].start = value] ELSE allocs
  /\ UNCHANGED found_alloc

SysAfter(value) ==
  /\ allocs' = IF found_alloc THEN [allocs EXCEPT ![Len(allocs)].start = value] ELSE allocs
  /\ found_alloc' = FALSE

SyscallEntry(t) ==
  /\ call[t] = NoCall /\ calls_left > 0
  /\ calls_left' = calls_left - 1
  /\ \/ \E r \in Regions :
          /\ call' = [call EXCEPT ![t] = [name |-> "mmap", region |-> r]]
          /\ SysBefore(r.size)
     \/ \E r \in mappings :                       \* munmap
          /\ \A u \in Threads : call[u].region # r
          /\ call' = [call EXCEPT ![t] = [name |-> "munmap", region |-> r]]
          /\ UNCHANGED <<allocs, found_alloc>>
     \/ /\ call' = [call EXCEPT ![t] = [name |-> "other", region |-> Failed]]
        /\ UNCHANGED <<allocs, found_alloc>>
  /\ Interleaved(t)
  /\ UNCHANGED <<mappings, wrapped>>

Overlap(r, s) == r.start < s.start + s.size /\ s.start < r.start + r.size

\* The call returns to the wrapper, which has nothing to do for the ones that fail.
SyscallExit(t) ==
  /\ \/ /\ call[t].name = "mmap"
        /\ \/ /\ \A r \in mappings : ~Overlap(r, call[t].region)
              /\ mappings' = mappings \cup {call[t].region}
              /\ call' = [call EXCEPT ![t].name = "mmapped"]
              /\ SysAfter(call[t].region.start)
           \/ /\ call' = [call EXCEPT ![t] = NoCall]
              /\ SysAfter(Failed.start)
              /\ UNCHANGED mappings
     \/ /\ call[t].name = "munmap"
        /\ mappings' = mappings \ {call[t].region}
        /\ call' = [call EXCEPT ![t].name = "munmapped"]
        /\ SysAfter(0)
     \/ /\ call[t].name = "other"
        /\ call' = [call EXCEPT ![t] = NoCall]
        /\ SysAfter(0)
        /\ UNCHANGED mappings
  /\ Interleaved(t)
  /\ UNCHANGED <<wrapped, calls_left>>

\* Nothing guards the vector: what two threads write to it at once may be lost.
mmap(t) ==
  /\ call[t].name = "mmapped"
  /\ \/ wrapped' = Append(wrapped, call[t].region)
     \/ /\ \E u \in Threads \ {t} : call[u].name \in {"mmapped", "munmapped"}
        /\ UNCHANGED wrapped
  /\ call' = [call EXCEPT ![t] = NoCall]
  /\ Interleaved(t)
  /\ UNCHANGED <<mappings, allocs, found_alloc, calls_left>>

\* Mutant: the last entry is erased, not the one found.
munmap_Last(t) ==
  /\ call[t].name = "munmapped"
  /\ wrapped' = IF \E i \in DOMAIN wrapped : wrapped[i].start = call[t].region.start THEN Front(wrapped) ELSE wrapped
  /\ call' = [call EXCEPT ![t] = NoCall]
  /\ Interleaved(t)
  /\ UNCHANGED <<mappings, allocs, found_alloc, calls_left>>

munmap(t) ==
  /\ call[t].name = "munmapped"
  /\ wrapped' = LET found == {i \in DOMAIN wrapped : wrapped[i].start = call[t].region.start}
                IN  IF found = {} THEN wrapped ELSE RemoveAt(wrapped, CHOOSE i \in found : \A j \in found : i <= j)
  /\ call' = [call EXCEPT ![t] = NoCall]
  /\ Interleaved(t)
  /\ UNCHANGED <<mappings, allocs, found_alloc, calls_left>>

MappingsNext == \E t \in Threads : SyscallEntry(t) \/ SyscallExit(t) \/ mmap(t) \/ munmap(t)

InTable(table, address, size) ==
  \E i \in DOMAIN table : address >= table[i].start /\ address + size <= table[i].start + table[i].size

IsPMAddress(address, size)  == InTable(allocs, address, size)
is_pmem_addr(address, size) == InTable(wrapped, address, size)
--------------------------------------------------------------------------
Mapped(address) == \E r \in mappings : address >= r.start /\ address < r.start + r.size

(* When no call is under way, and none has overlapped with another one,    *)
(* the table of mmap_wrapper.c accepts exactly the addresses of the        *)
(* mappings (mmap_wrapper.c:82, 95), also after a region is mapped again.  *)
WrapperExact ==
  Quiet /\ ~overlapped =>
    \A r \in Regions : \A address \in r.start..(r.start + r.size - 1) : is_pmem_addr(address, 1) <=> Mapped(address)
=============================================================================
