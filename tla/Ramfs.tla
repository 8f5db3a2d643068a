------------------------------- MODULE Ramfs -------------------------------
(***************************************************************************)
(* The file system in RAM, fs/ramfs.cpp, as functions of node_pool.        *)
(*                                                                         *)
(* A node is its index in node_pool, 0 is nullptr and 1 the root; a link   *)
(* may also be an address that is no node of node_pool.  A text is its     *)
(* length; a byte of a file is the number of the write that stored it, 0   *)
(* before.                                                                 *)
(***************************************************************************)
EXTENDS Integers, Sequences, FiniteSetsExt

CONSTANTS MAX_NODES,     \* size of node_pool (128 in the code)
          MAX_DATA,      \* bytes of a file (256 in the code)
          Names          \* names a node may have

ASSUME RamfsAssumption == MAX_NODES \in Nat /\ MAX_DATA \in Nat \ {0}

nullptr == 0
root_node == 1
outside == -1      \* an address that is no node of node_pool
Link == Nat \cup {outside}

-----------------------------------------------------------------------------
(* Nodes *)

Node ==
    [name : Names, flags : {"FILE", "DIR"}, parent : Link, next_sibling : Link,
     first_child : Nat, size : 0..MAX_DATA, data : [0..(MAX_DATA - 1) -> Nat]]

NewNode(name, flags, parent, sibling) ==
    [name |-> name, flags |-> flags, parent |-> parent,
     next_sibling |-> sibling, first_child |-> nullptr,
     size |-> 0, data |-> [i \in 0..(MAX_DATA - 1) |-> 0]]

(* The new node becomes the first child of its parent.                      *)
Created_ForgetsSiblings(pool, parent, name, flags) ==
    [Append(pool, NewNode(name, flags, parent, nullptr))
        EXCEPT ![parent].first_child = Len(pool) + 1]

Created_BelowRoot(pool, parent, name, flags) ==
    [Append(pool, NewNode(name, flags, root_node, pool[parent].first_child))
        EXCEPT ![parent].first_child = Len(pool) + 1]

Created_InRoot(pool, parent, name, flags) ==
    [Append(pool, NewNode(name, flags, parent, pool[root_node].first_child))
        EXCEPT ![root_node].first_child = Len(pool) + 1]

Created(pool, parent, name, flags) ==
    [Append(pool, NewNode(name, flags, parent, pool[parent].first_child))
        EXCEPT ![parent].first_child = Len(pool) + 1]

ramfs_create_file(pool, parent, name) == Created(pool, parent, name, "FILE")
ramfs_create_dir(pool, parent, name) == Created(pool, parent, name, "DIR")

(* Every caller writes at offset 0; id numbers the write.                   *)
Written_LastSize(node, length, id) ==
    [node EXCEPT !.data = [i \in 0..(MAX_DATA - 1) |-> IF i < length THEN id ELSE @[i]],
                 !.size = Min({length, MAX_DATA})]

Written(node, length, id) ==
    [node EXCEPT !.data = [i \in 0..(MAX_DATA - 1) |-> IF i < length THEN id ELSE @[i]],
                 !.size = Max({Min({length, MAX_DATA}), @})]

ramfs_write(pool, n, length, id) == [pool EXCEPT ![n] = Written(@, length, id)]

(* cur in the loops over the children of directory d, after k turns.        *)
Cur(pool, d) ==
    LET cur[k \in 0..Len(pool)] ==
            IF k = 0 THEN pool[d].first_child
            ELSE LET last == cur[k - 1]
                 IN  IF last = nullptr THEN nullptr ELSE pool[last].next_sibling
    IN  cur

(* The list of children of directory d, newest first.                       *)
Children(pool, d) ==
    LET cur == Cur(pool, d)
        turns == Min({k \in 0..Len(pool) : k = Len(pool) \/ cur[k] = nullptr})
    IN  [k \in 1..turns |-> cur[k - 1]]

(* The first child of that name.                                            *)
ramfs_finddir(pool, d, name) ==
    LET list == Children(pool, d)
        same == {k \in DOMAIN list : pool[list[k]].name = name}
    IN  IF same = {} THEN nullptr ELSE list[Min(same)]

(* What ls gets for index 0, 1, ... until -1: the nodes of the list.        *)
ramfs_readdir(pool, d) == Children(pool, d)

(* What reading n from its start gives a caller with room for size bytes.   *)
ramfs_read(pool, n, size) ==
    [i \in 1..Min({size, pool[n].size}) |-> pool[n].data[i - 1]]

(* Room in the pool.  kmalloc may fail as well: then nothing changes.       *)
alloc_node(pool) == Len(pool) < MAX_NODES
=============================================================================
