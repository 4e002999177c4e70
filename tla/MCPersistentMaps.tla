-------------------------- MODULE MCPersistentMaps --------------------------
EXTENDS PersistentMaps

\* Enough keys for a B-tree of three levels, a key that is there twice, and a hash map
\* that is rebuilt both ways.
MCKeys   == 1..8
MCCopies == [t \in Types |-> CASE t = "btree"          -> [k \in 1..8 |-> 1]
                               [] t = "rbtree"         -> [k \in 1..5 |-> IF k = 3 THEN 2 ELSE 1]
                               [] t = "hashmap_atomic" -> [k \in 1..4 |-> 1]]
=============================================================================
