---------------------------- MODULE HashmapAtomic ----------------------------
(***************************************************************************)
(* The hash map of docker/agamotto/drivers/custom/hashmap_atomic.c, which  *)
(* does without transactions: a step is what one persist, or one atomic    *)
(* call of libpmemobj, makes durable, and a crash may fall between any     *)
(* two.  Opening the pool again runs hm_atomic_init.                       *)
(*                                                                         *)
(* A bucket array is a sequence of lists of keys, kept at an address; 0    *)
(* is the null pointer.                                                    *)
(***************************************************************************)
EXTENDS Integers, Sequences, FiniteSets, SequencesExt

CONSTANTS Keys,                   \* the keys of the client
          INIT_BUCKETS_NUM,       \* buckets of a new map
          MIN_HASHSET_THRESHOLD,  \* shortest list that may cause a rebuild
          MAX_HASHSET_THRESHOLD,  \* longest list that causes none
          hash_fun_a, hash_fun_b, hash_fun_p,   \* coefficients of the hash
          MaxCrashes              \* bound on crashes

ASSUME KeysAssumption    == Keys \subseteq Nat
ASSUME BucketsAssumption == INIT_BUCKETS_NUM \in Nat \ {0}
ASSUME HashAssumption    == hash_fun_a \in Nat /\ hash_fun_b \in Nat /\ hash_fun_p \in Nat \ {0}

VARIABLES count, count_dirty,     \* entries, and whether the number is in doubt
          heap,                   \* address -> bucket array, <<>> if free
          buckets, buckets_tmp,   \* addresses of the array and of the next one
          pc,                     \* the next persist of the running operation
          arg,                    \* [op, key or length] of the operation
          crashes

hashVars == <<count, count_dirty, heap, buckets, buckets_tmp, pc, arg, crashes>>

Addresses == {1, 2}
create_buckets(len) == [i \in 1..len |-> <<>>]
hash(array, key)    == (((hash_fun_a * key + hash_fun_b) % hash_fun_p) % Len(array)) + 1
Holds(array, key)   == Contains(array[hash(array, key)], key)
hm_atomic_foreach(array) == FlattenSeq(array)
None == [op |-> "none", key |-> 0, len |-> 0]

HashInit ==
  /\ count = 0 /\ count_dirty = FALSE
  /\ heap = [a \in Addresses |-> IF a = 1 THEN create_buckets(INIT_BUCKETS_NUM) ELSE <<>>]
  /\ buckets = 1 /\ buckets_tmp = 0
  /\ pc = "idle" /\ arg = None /\ crashes = 0

--------------------------------------------------------------------------
\* Mutant: the number is not marked as in doubt.
hm_atomic_insert_Clean(key) ==
  /\ pc = "idle"
  /\ ~Holds(heap[buckets], key)
  /\ UNCHANGED count
  /\ arg' = [op |-> "insert", key |-> key, len |-> 0]
  /\ pc' = "list"
  /\ UNCHANGED <<count_dirty, heap, buckets, buckets_tmp, crashes>>

hm_atomic_insert(key) ==
  /\ pc = "idle"
  /\ ~Holds(heap[buckets], key)
  /\ count_dirty' = TRUE
  /\ arg' = [op |-> "insert", key |-> key, len |-> 0]
  /\ pc' = "list"
  /\ UNCHANGED <<count, heap, buckets, buckets_tmp, crashes>>

hm_atomic_remove(key) ==
  /\ pc = "idle"
  /\ Holds(heap[buckets], key)
  /\ count_dirty' = TRUE
  /\ arg' = [op |-> "remove", key |-> key, len |-> 0]
  /\ pc' = "list"
  /\ UNCHANGED <<count, heap, buckets, buckets_tmp, crashes>>

\* HASHMAP_CMD_REBUILD, or what an insertion or a removal ends with.
hm_atomic_cmd(len) ==
  /\ pc = "idle"
  /\ arg' = [op |-> "rebuild", key |-> 0, len |-> len]
  /\ pc' = "alloc"
  /\ UNCHANGED <<count, count_dirty, heap, buckets, buckets_tmp, crashes>>

\* POBJ_LIST_INSERT_NEW_HEAD, and POBJ_LIST_REMOVE_FREE of the first entry of the key.
UpdateList ==
  /\ pc = "list"
  /\ heap' = [heap EXCEPT ![buckets][hash(heap[buckets], arg.key)] =
                IF arg.op = "insert" THEN <<arg.key>> \o @
                ELSE RemoveAt(@, CHOOSE j \in DOMAIN @ : @[j] = arg.key /\ \A k \in 1..(j - 1) : @[k] # arg.key)]
  /\ pc' = "count"
  /\ UNCHANGED <<count, count_dirty, buckets, buckets_tmp, arg, crashes>>

\* The pool is full: the operation returns, count_dirty stays set.
NoSpaceForEntry ==
  /\ pc = "list" /\ arg.op = "insert"
  /\ pc' = "idle" /\ arg' = None
  /\ UNCHANGED <<count, count_dirty, heap, buckets, buckets_tmp, crashes>>

UpdateCount ==
  /\ pc = "count"
  /\ count' = IF arg.op = "insert" THEN count + 1 ELSE count - 1
  /\ pc' = "clean"
  /\ UNCHANGED <<count_dirty, heap, buckets, buckets_tmp, arg, crashes>>

\* The new length if the map is rebuilt after the operation, else -1.
Rehash ==
  LET array == heap[buckets]
      num   == Len(array[hash(array, arg.key)])
  IN  CASE arg.op = "insert" /\ (num > MAX_HASHSET_THRESHOLD \/ (num > MIN_HASHSET_THRESHOLD /\ count > 2 * Len(array)))
             -> 2 * Len(array)
        [] arg.op = "remove" /\ count < Len(array) -> Len(array) \div 2
        [] OTHER -> -1

Clean ==
  /\ pc = "clean"
  /\ count_dirty' = FALSE
  /\ \/ Rehash >= 0 /\ pc' = "alloc" /\ arg' = [arg EXCEPT !.len = Rehash]
     \/ Rehash = -1 /\ pc' = "idle" /\ arg' = None
  /\ UNCHANGED <<count, heap, buckets, buckets_tmp, crashes>>

--------------------------------------------------------------------------
hm_atomic_rebuild ==
  /\ pc = "alloc"
  /\ LET free == CHOOSE a \in Addresses : heap[a] = <<>>
     IN  /\ heap' = [heap EXCEPT ![free] = create_buckets(IF arg.len = 0 THEN Len(heap[buckets]) ELSE arg.len)]
         /\ buckets_tmp' = free
  /\ pc' = "move"
  /\ UNCHANGED <<count, count_dirty, buckets, arg, crashes>>

NoSpaceForBuckets ==
  /\ pc = "alloc"
  /\ pc' = "idle" /\ arg' = None
  /\ UNCHANGED <<count, count_dirty, heap, buckets, buckets_tmp, crashes>>

\* Mutant: a list is moved to the list of its old position.
hm_atomic_rebuild_finish_SamePlace ==
  /\ pc = "move"
  /\ hm_atomic_foreach(heap[buckets]) # <<>>
  /\ LET cur == heap[buckets]
         i   == CHOOSE j \in DOMAIN cur : cur[j] # <<>> /\ \A k \in 1..(j - 1) : cur[k] = <<>>
         key == Head(cur[i])
     IN  heap' = [heap EXCEPT ![buckets][i] = Tail(@), ![buckets_tmp][((i - 1) % Len(heap[buckets_tmp])) + 1] = <<key>> \o @]
  /\ UNCHANGED <<count, count_dirty, buckets, buckets_tmp, pc, arg, crashes>>

\* POBJ_LIST_MOVE_ELEMENT_HEAD of the first element of the first list.
hm_atomic_rebuild_finish ==
  /\ pc = "move"
  /\ hm_atomic_foreach(heap[buckets]) # <<>>
  /\ LET cur == heap[buckets]
         i   == CHOOSE j \in DOMAIN cur : cur[j] # <<>> /\ \A k \in 1..(j - 1) : cur[k] = <<>>
         key == Head(cur[i])
     IN  heap' = [heap EXCEPT ![buckets][i] = Tail(@), ![buckets_tmp][hash(heap[buckets_tmp], key)] = <<key>> \o @]
  /\ UNCHANGED <<count, count_dirty, buckets, buckets_tmp, pc, arg, crashes>>

FreeBuckets ==
  /\ pc = "move"
  /\ hm_atomic_foreach(heap[buckets]) = <<>>
  /\ heap' = [heap EXCEPT ![buckets] = <<>>]
  /\ buckets' = 0
  /\ pc' = "publish"
  /\ UNCHANGED <<count, count_dirty, buckets_tmp, arg, crashes>>

Publish ==
  /\ pc = "publish"
  /\ buckets' = buckets_tmp
  /\ pc' = "forget"
  /\ UNCHANGED <<count, count_dirty, heap, buckets_tmp, arg, crashes>>

\* Mutant: the recovery tests buckets_tmp again, which nothing has cleared.
Forget_Kept ==
  /\ pc = "forget"
  /\ \/ arg.op = "recover" /\ pc' = "down" /\ UNCHANGED <<buckets_tmp, arg>>
     \/ arg.op # "recover" /\ buckets_tmp' = 0 /\ pc' = "idle" /\ arg' = None
  /\ UNCHANGED <<count, count_dirty, heap, buckets, crashes>>

\* The end of a rebuild: a recovery goes on, an operation returns.
Forget ==
  /\ pc = "forget"
  /\ buckets_tmp' = 0
  /\ \/ arg.op = "recover" /\ pc' = "recount" /\ UNCHANGED arg
     \/ arg.op # "recover" /\ pc' = "idle" /\ arg' = None
  /\ UNCHANGED <<count, count_dirty, heap, buckets, crashes>>

--------------------------------------------------------------------------
HashCrash ==
  /\ crashes < MaxCrashes
  /\ pc # "down"
  /\ pc' = "down" /\ arg' = None /\ crashes' = crashes + 1
  /\ UNCHANGED <<count, count_dirty, heap, buckets, buckets_tmp>>

hm_atomic_init ==
  /\ pc = "down"
  /\ pc' = CASE buckets_tmp = 0       -> "recount"
             [] buckets_tmp = buckets -> "forget"
             [] buckets = 0           -> "publish"
             [] OTHER                 -> "move"
  /\ arg' = [None EXCEPT !.op = "recover"]
  /\ UNCHANGED <<count, count_dirty, heap, buckets, buckets_tmp, crashes>>

Recount ==
  /\ pc = "recount"
  /\ \/ count_dirty /\ count' = Len(hm_atomic_foreach(heap[buckets])) /\ pc' = "clean" /\ UNCHANGED arg
     \/ ~count_dirty /\ pc' = "idle" /\ arg' = None /\ UNCHANGED count
  /\ UNCHANGED <<count_dirty, heap, buckets, buckets_tmp, crashes>>

\* What the program does by itself once an operation is under way.
HashStep ==
  \/ UpdateList \/ NoSpaceForEntry \/ UpdateCount \/ Clean
  \/ hm_atomic_rebuild \/ NoSpaceForBuckets \/ hm_atomic_rebuild_finish \/ FreeBuckets \/ Publish \/ Forget
  \/ hm_atomic_init \/ Recount

\* The map by itself, under a client that calls its operations in any order.
HashNext ==
  \/ HashStep \/ HashCrash \/ \E len \in Nat : hm_atomic_cmd(len)
  \/ \E key \in Keys : hm_atomic_insert(key) \/ hm_atomic_remove(key)

HashSpec == HashInit /\ [][HashNext]_hashVars

--------------------------------------------------------------------------
hm_atomic_count == count

Entries == FlattenSeq([a \in Addresses |-> hm_atomic_foreach(heap[a])])

hm_atomic_lookup(key) == Holds(heap[buckets], key)
hm_atomic_get(key)    == IF Holds(heap[buckets], key) THEN key ELSE 0    \* the key stands for its value

(* A number that is not marked as in doubt is right, even while the map is *)
(* being rebuilt and across crashes: hm_atomic_init trusts it              *)
(* (hashmap_atomic.c:479).                                                 *)
CountExact == ~count_dirty => hm_atomic_count = Len(Entries)

(* Between operations there is one bucket array, and every entry is in the *)
(* list its key hashes to, once.                                           *)
HashShape ==
  pc = "idle" =>
    /\ buckets_tmp = 0
    /\ \A a \in Addresses : heap[a] # <<>> <=> a = buckets
    /\ IsInjective(Entries)
    /\ \A i \in DOMAIN heap[buckets] : \A j \in DOMAIN heap[buckets][i] : hash(heap[buckets], heap[buckets][i][j]) = i

(* What recovery relies on at any time, and the operations between them    *)
(* (hashmap_atomic.c:448-500).                                             *)
HashExact == CountExact /\ HashShape
=============================================================================
