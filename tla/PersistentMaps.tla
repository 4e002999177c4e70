--------------------------- MODULE PersistentMaps ---------------------------
(***************************************************************************)
(* A program that keeps one of the persistent maps, through the interface  *)
(* of docker/agamotto/drivers/custom/map.c: data_store.c and its variants  *)
(* insert in transactions, one for each key or one for all, then remove,   *)
(* outside of them, keys that map_foreach returned.  A crash may come at   *)
(* any time.  The trees change under transactions only, and libpmemobj     *)
(* takes an interrupted one back; the hash map is on its own.              *)
(***************************************************************************)
EXTENDS BTreeMap, RBTreeMap, HashmapAtomic

CONSTANTS Copies,       \* type of map -> key -> bound on its entries
          MaxTx         \* bound on the operations of a transaction

VARIABLES type,         \* which map, argv[1] of data_store.c
          map,          \* the tree
          image,        \* the tree a crash goes back to
          tx            \* operations of the open transaction, -1 if there is none

mapVars == <<type, map, image, tx>>
vars    == <<mapVars, hashVars>>

Types == {"btree", "rbtree", "hashmap_atomic"}

--------------------------------------------------------------------------
(* The tables of operations.  A tree is the new one after an operation.    *)

Count(entries, key) == Cardinality({i \in DOMAIN entries : entries[i] = key})

\* What TX_NEW allocates.
FreshNode(h, key) ==
  CHOOSE n \in {key} \X (1..Copies[type][key]) :
    n \notin DOMAIN h /\ \A m \in {key} \X (1..(n[2] - 1)) : m \in DOMAIN h

btree_map_ops(op, m, key) ==
  CASE op \in {"insert", "insert_new"}  -> btree_map_insert(m, key)
    [] op \in {"remove", "remove_free"} -> btree_map_remove(m, key)
    [] op \in {"clear", "destroy"}      -> btree_map_clear(m)
    [] op = "create"                    -> btree_map_create
    [] op = "get"                       -> btree_map_get(m, key)
    [] op = "lookup"                    -> btree_map_lookup(m, key)
    [] op = "foreach"                   -> btree_map_foreach_node(m)
    [] op = "is_empty"                  -> btree_map_is_empty(m)

rbtree_map_ops(op, m, key) ==
  CASE op \in {"insert", "insert_new"}  -> rbtree_map_insert(m, FreshNode(m, key))
    [] op \in {"remove", "remove_free"} -> rbtree_map_remove(m, rbtree_map_find_node(m, key))
    [] op \in {"clear", "destroy"}      -> rbtree_map_clear(m)
    [] op = "create"                    -> rbtree_map_create
    [] op = "get"                       -> rbtree_map_get(m, key)
    [] op = "lookup"                    -> rbtree_map_lookup(m, key)
    [] op = "foreach"                   -> rbtree_map_foreach_node(m, First(m))
    [] op = "is_empty"                  -> rbtree_map_is_empty(m)

\* The hash map changes in steps of its own.
hashmap_atomic_ops(op, key) ==
  CASE op = "get"     -> hm_atomic_get(key)
    [] op = "lookup"  -> hm_atomic_lookup(key)
    [] op = "foreach" -> hm_atomic_foreach(heap[buckets])

\* The null entries: map.c ends the program.
NotImplemented ==
  IF type = "hashmap_atomic" THEN {"destroy", "insert_new", "remove_free", "clear", "is_empty"}
  ELSE {"init", "count", "cmd"}

map_ops(op, ptr, key) ==
  CASE type = "btree"          -> btree_map_ops(op, ptr[1], key)
    [] type = "rbtree"         -> rbtree_map_ops(op, ptr[1], key)
    [] type = "hashmap_atomic" -> hashmap_atomic_ops(op, key)

--------------------------------------------------------------------------
Init ==
  /\ type \in Types
  /\ map = <<>> /\ image = <<>> /\ tx = -1
  /\ HashInit

Tree == type # "hashmap_atomic"

map_check == map = <<>>                 \* the pointer to the map is null

TxBegin ==
  /\ Tree /\ ~map_check /\ tx = -1 /\ MaxTx > 0
  /\ tx' = 0 /\ image' = map
  /\ UNCHANGED <<type, map, hashVars>>

\* A null pointer was followed on the way: the root of a map that was cleared, or one that
\* left the item 0 in the tree.
Died(m) == IF type = "rbtree" THEN Cleared(map[1]) ELSE \E n \in NodesOf(m) : Contains(n.items, 0)

\* The program dies and what it began is taken back, or the pointer is what it becomes.
Becomes(died, ptr) ==
  /\ \/ died  /\ map' = image /\ tx' = -1 /\ UNCHANGED image
     \/ ~died /\ map' = ptr /\ (IF tx = -1 THEN image' = ptr /\ UNCHANGED tx ELSE tx < MaxTx /\ tx' = tx + 1 /\ UNCHANGED image)
  /\ UNCHANGED hashVars

MapCreate == Tree /\ map_check /\ Becomes(FALSE, <<map_ops("create", <<0>>, 0)>>) /\ UNCHANGED type

\* One operation on a tree, which runs in a transaction, its own or that of the program.
Change(op, key) ==
  LET m == map_ops(op, map, key) IN Becomes(Died(m), <<m>>)

\* Reading does not follow a null pointer.
Usable(ptr)      == IF Tree THEN ptr # <<>> /\ ~(type = "rbtree" /\ Cleared(ptr[1])) ELSE pc = "idle"
map_foreach(ptr) == IF Usable(ptr) THEN map_ops("foreach", ptr, 0) ELSE <<>>

MapInsert(key) ==
  /\ \/ Tree /\ ~map_check /\ Count(map_foreach(map), key) < Copies[type][key] /\ \E op \in {"insert", "insert_new"} : Change(op, key)
     \/ ~Tree /\ hm_atomic_insert(key) /\ UNCHANGED <<map, image, tx>>
  /\ UNCHANGED type

MapRemove(key) ==
  /\ \/ Tree /\ tx = -1 /\ Contains(map_foreach(map), key) /\ \E op \in {"remove", "remove_free"} : Change(op, key)
     \/ ~Tree /\ hm_atomic_remove(key) /\ UNCHANGED <<map, image, tx>>
  /\ UNCHANGED type

MapClear ==
  /\ \/ Tree /\ ~map_check /\ Change("clear", 0)
     \/ "clear" \in NotImplemented /\ pc = "idle" /\ HashCrash /\ UNCHANGED <<map, image, tx>>
  /\ UNCHANGED type

\* A map that can be cleared is freed, the pointer to it null.
MapDestroy ==
  /\ Tree /\ ~map_check
  /\ Becomes(Died(map_ops("destroy", map, 0)), <<>>)
  /\ UNCHANGED type

TxCommit ==
  /\ Tree /\ tx >= 0
  /\ tx' = -1 /\ image' = map
  /\ UNCHANGED <<type, map, hashVars>>

CrashAndOpen ==
  /\ \/ Tree /\ map' = image /\ tx' = -1 /\ UNCHANGED <<image, hashVars>>
     \/ ~Tree /\ HashCrash /\ UNCHANGED <<map, image, tx>>
  /\ UNCHANGED type

\* HASHMAP_CMD_REBUILD.
MapCmd(len) == ~Tree /\ hm_atomic_cmd(len) /\ UNCHANGED mapVars

HashProceed == ~Tree /\ HashStep /\ UNCHANGED mapVars

Next ==
  \/ MapCreate \/ TxBegin \/ TxCommit \/ CrashAndOpen \/ MapClear \/ MapDestroy \/ HashProceed
  \/ \E key \in DOMAIN Copies[type] : MapInsert(key) \/ MapRemove(key)
  \/ MapCmd(0)

\* The program runs on: it takes the next step of what it has begun.
Spec == Init /\ [][Next]_vars /\ WF_vars(HashProceed)

--------------------------------------------------------------------------
Bag(entries) == [k \in Keys |-> Count(entries, k)]

Contents == IF Tree THEN map_foreach(map) ELSE Entries

M == INSTANCE MapSpec WITH contents  <- Bag(Contents),
                           committed <- Bag(IF Tree /\ tx >= 0 THEN map_foreach(image) ELSE Contents)

(* Every map is a bag of keys: an insertion adds one key, a removal takes  *)
(* one, clearing or destroying a map, where the program survives it, takes *)
(* them all, nothing else changes the contents, and a crash leaves what    *)
(* was committed (btree_map.c, rbtree_map.c and hashmap_atomic.c through   *)
(* map.c).                                                                 *)
ImplementsMap == M!MapSpec

(* The trees stay in their shape, their keys are returned in order, and   *)
(* of every map lookup, get and, of a B-tree, is_empty agree with          *)
(* map_foreach (map.c:168-202).                                            *)
TreesInShape ==
  Usable(map) =>
    LET q == map_foreach(map)
    IN  /\ type = "btree"  => BTreeShape(map[1]) /\ (map_ops("is_empty", map, 0) <=> q = <<>>)
        /\ type = "rbtree" => RBTreeShape(map[1])
        /\ Tree => \A i \in 1..(Len(q) - 1) : q[i] <= q[i + 1]
        /\ \A k \in Keys : /\ map_ops("lookup", map, k) <=> Contains(q, k)
                          /\ map_ops("get", map, k) = IF Contains(q, k) THEN k ELSE 0

(* A hash map operation, or its recovery, comes to an end: rebuilds and    *)
(* crashes during a recovery included.                                     *)
OperationsEnd == (pc # "idle") ~> (pc = "idle")
=============================================================================
