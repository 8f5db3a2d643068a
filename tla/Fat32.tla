------------------------------- MODULE Fat32 --------------------------------
(***************************************************************************)
(* Reading a FAT32 disk, fs/fat32.cpp on top of drivers/ata.cpp.  Nothing  *)
(* in the kernel writes to the disk.                                       *)
(*                                                                         *)
(* A disk is its allocation table, what its clusters hold when they are    *)
(* read as a directory, and its root cluster.  The numbers 0 and 1 have    *)
(* entries in the table too, but no cluster: what is read for them are the *)
(* sectors before the first cluster.  A byte of a file is named by its     *)
(* cluster and its place there.  bad is the set of what cannot be read     *)
(* while the call runs: <<"data", c>> is cluster c, <<"fat", c>> its entry *)
(* in the table.                                                           *)
(***************************************************************************)
EXTENDS Integers, Sequences, FiniteSetsExt

CONSTANTS Clusters,        \* the clusters of the disk: 2..n
          CLUSTER_BYTES    \* sectors_per_cluster * 512

ASSUME Fat32Assumption ==
    /\ CLUSTER_BYTES \in Nat \ {0}
    /\ Clusters = 2..(Cardinality(Clusters) + 1)

FAT32_EOC == 268435448   \* 0x0FFFFFF8: a chain ends with any value from here on
Cells == {0, 1} \cup Clusters
Stray == <<0, 0>>   \* a byte of the stack around cluster_buf
NoDisk == [root |-> FAT32_EOC, fat |-> <<>>, dir |-> <<>>]

(* ata_read_sector: -1 when the drive stays busy, does not ask for data in  *)
(* time, or reports an error.  A sector beyond the disk is an error.        *)
ata_read_sector(sector, bad) == sector[2] \in Cells /\ sector \notin bad

fat32_next_cluster(disk, cluster, bad) ==
    IF ata_read_sector(<<"fat", cluster>>, bad) THEN disk.fat[cluster] ELSE FAT32_EOC

(* One more turn of a loop, unless it has ended.                            *)
Turn(disk, cluster, bad) ==
    IF cluster < FAT32_EOC THEN fat32_next_cluster(disk, cluster, bad) ELSE FAT32_EOC

(* A loop that takes so many turns has been somewhere twice.                *)
FullTurn == Cardinality(Cells) + 1

(* The clusters a loop visits from first on, to the end of the chain or     *)
(* until it has been somewhere twice.  An entry of the table below          *)
(* FAT32_EOC is followed, whatever it is.                                   *)
Chain(disk, first, bad) ==
    LET visit[k \in 1..FullTurn] ==
            IF k = 1 THEN first ELSE Turn(disk, visit[k - 1], bad)
    IN  SelectSeq(visit, LAMBDA cluster : cluster < FAT32_EOC)

(* What may be mounted: the drive's partition, at the root cluster its boot *)
(* sector names, or nothing, when there is no drive, it has no FAT32        *)
(* partition, one of its first sectors cannot be read or memory is out.     *)
fat32_mount(disks) == disks \cup {NoDisk}

-----------------------------------------------------------------------------
(* Files *)

(* One turn of fat32_read's loop.  cluster_start is computed from the       *)
(* number of the cluster, not from its place in the file: cluster_off may   *)
(* be negative, and then what lies before cluster_buf is copied.  For the   *)
(* numbers 0 and 1 it wraps: 1 is passed over, and for 0 all that is still  *)
(* wanted is copied from behind cluster_buf.                                *)
ReadStep(s, cluster, want, bad) ==
    LET cluster_start == (cluster - 2) * CLUSTER_BYTES
        cluster_off == s.offset - cluster_start
        to_read == Min({want - Len(s.out)}
                          \cup IF cluster = 0 THEN {} ELSE {CLUSTER_BYTES - cluster_off})
    IN  IF \/ s.failed \/ Len(s.out) >= want
           \/ cluster # 0 /\ (cluster = 1 \/ cluster_off >= CLUSTER_BYTES) THEN s
        ELSE IF ~ata_read_sector(<<"data", cluster>>, bad) THEN [s EXCEPT !.failed = TRUE]
        ELSE [s EXCEPT !.offset = @ + to_read,
                       !.out = @ \o [i \in 1..to_read |->
                                       LET at == cluster_off + i - 1
                                       IN  IF at \in 0..(CLUSTER_BYTES - 1)
                                           THEN <<cluster, at>> ELSE Stray]]

(* What the loop has copied after the last cluster of the chain.            *)
ReadLoop(chain, want, bad) ==
    LET s[k \in 0..Len(chain)] ==
            IF k = 0 THEN [out |-> <<>>, offset |-> 0, failed |-> FALSE]
            ELSE ReadStep(s[k - 1], chain[k], want, bad)
    IN  s[Len(chain)]

(* Once offset is behind every cluster of a cycle nothing is copied.        *)
ReadResult(s, length, want) ==
    [out |-> s.out, endless |-> ~s.failed /\ Len(s.out) < want /\ length = FullTurn]

ReadUpTo(chain, want, bad) == ReadResult(ReadLoop(chain, want, bad), Len(chain), want)

(* fat32_read at offset 0, as all its callers call it: what it copies, or   *)
(* that it never returns.                                                   *)
fat32_read_PastEnd(disk, file, size, bad) == ReadUpTo(Chain(disk, file.first, bad), size, bad)

fat32_read(disk, file, size, bad) ==
    ReadUpTo(Chain(disk, file.first, bad), Min({size, file.size}), bad)

-----------------------------------------------------------------------------
(* Directories *)

(* An entry's name: the extension only for files.                           *)
entry_name(entry) == IF entry.flags = "DIR" THEN entry.base ELSE entry.full

(* What one cluster holds up to its end mark, but for deleted entries and   *)
(* parts of long names.  A volume label is an entry like any other.         *)
Live_KeepsDeleted(entries) ==
    SelectSeq(SubSeq(entries, 1, Min({k \in 1..Len(entries) : entries[k].mark = "end"}
                                        \cup {Len(entries) + 1}) - 1),
              LAMBDA entry : entry.mark # "lfn")

Live(entries) ==
    SelectSeq(SubSeq(entries, 1, Min({k \in 1..Len(entries) : entries[k].mark = "end"}
                                        \cup {Len(entries) + 1}) - 1),
              LAMBDA entry : entry.mark \notin {"deleted", "lfn"})

(* The entries of one cluster after those of another.                       *)
Joined(lists) == MapThenFoldSet(\o, <<>>, LAMBDA k : lists[k], Min, DOMAIN lists)

(* The entries the loops of fat32_finddir and fat32_readdir come to, before *)
(* a cluster that cannot be read ends them.  The end mark ends only the     *)
(* loop over its cluster.                                                   *)
Unread(chain, bad) == {k \in DOMAIN chain : ~ata_read_sector(<<"data", chain[k]>>, bad)}

Entries(disk, first, bad) ==
    LET chain == Chain(disk, first, bad)
    IN  Joined([k \in 1..(Min(Unread(chain, bad) \cup {Len(chain) + 1}) - 1) |->
                   Live(disk.dir[chain[k]])])

(* In a chain that is a cycle the loops end only at what they look for.     *)
IsEndless(disk, first, bad) ==
    LET chain == Chain(disk, first, bad)
    IN  Len(chain) = FullTurn /\ Unread(chain, bad) = {}

NoEntry == [name |-> "", flags |-> "", first |-> FAT32_EOC, size |-> 0]
EndlessEntry == [name |-> "", flags |-> "endless", first |-> FAT32_EOC, size |-> 0]

AsNode(entry) ==
    [name |-> entry_name(entry), flags |-> entry.flags, first |-> entry.first, size |-> entry.size]

(* The first entry of that name, as a new node, or that the loop never ends.*)
fat32_finddir(disk, first, name, bad) ==
    LET same == SelectSeq(Entries(disk, first, bad), LAMBDA entry : entry_name(entry) = name)
    IN  IF same # <<>> THEN AsNode(Head(same))
        ELSE IF IsEndless(disk, first, bad) THEN EndlessEntry ELSE NoEntry

(* What ls gets from fat32_readdir for index 0, 1, ... until it returns -1, *)
(* in a chain that ends.                                                    *)
fat32_readdir(disk, first, bad) == Entries(disk, first, bad)
=============================================================================
