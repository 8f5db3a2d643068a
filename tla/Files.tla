------------------------------- MODULE Files --------------------------------
(***************************************************************************)
(* The file systems as the shell uses them: path resolution and mounts     *)
(* (fs/vfs.cpp) over the tree in RAM at "/" and a FAT32 disk at "/mnt",    *)
(* what kernel_main puts there, and touch, mkdir, cd, pwd, ls, cat and     *)
(* write.                                                                  *)
(*                                                                         *)
(* A node of the RAM tree is one of Ramfs.  A node of the disk is made     *)
(* anew by every lookup, with a pointer to the node it was looked up in:   *)
(* it is the entries on the way from the root of the mount.  A path is the *)
(* slashes it begins with and its components.  Only the shell uses the     *)
(* file systems, so a command is one step; what cannot be read during it   *)
(* is bad, and a lookup without memory for the node fails like a read.     *)
(***************************************************************************)
EXTENDS Ramfs, Fat32

CONSTANTS Disks,         \* the disks the machine may have
          NewNames,      \* names given to touch and mkdir
          FileNames,     \* names given to cat and write
          Paths,         \* paths given to cd
          Lengths,       \* lengths of the texts written
          ElfSizes,      \* sizes of the programs stored at boot
          CAT_MAX,       \* bytes cat asks for (255 in the code)
          PWD_LEVELS,    \* levels pwd climbs at most (64 in the code)
          Faults,        \* what may be unreadable during one command
          WRITE_BOUND    \* bound: writes to one file

ASSUME FilesAssumption ==
    /\ MAX_NODES >= 6 /\ {} \in Faults
    /\ {"/", "mnt", "bin", "hello.elf", "tmp", "test.elf"} \cup NewNames \subseteq Names
    /\ Paths \subseteq [slashes : Nat, components : Seq(STRING)]
    /\ Lengths \subseteq Nat /\ ElfSizes \subseteq Nat
    /\ CAT_MAX \in Nat /\ PWD_LEVELS \in Nat \ {0} /\ WRITE_BOUND \in Nat

VARIABLES node_pool, cwd,
          disk,          \* never changes
          root_cluster,  \* first_cluster of the node fat32_mount returned
          machine,       \* "up", "fault": it has called a null function pointer,
                         \* "loop": a command never returns
          shown,         \* what the last command, ls or cat, printed
          writes         \* writes[n]: the lengths written to n so far, in order

vars == <<node_pool, cwd, disk, root_cluster, machine, shown, writes>>

Nothing == [what |-> "", of |-> nullptr, size |-> 0, complete |-> TRUE, list |-> <<>>]

-----------------------------------------------------------------------------
(* Nodes *)

(* Endless is the outcome of a lookup that never returns.                   *)
Null == [fs |-> "null", node |-> nullptr, path |-> <<>>]
Endless == [fs |-> "endless", node |-> nullptr, path |-> <<>>]
Ram(n) == [fs |-> "ram", node |-> n, path |-> <<>>]
Fat(path) == [fs |-> "fat", node |-> nullptr, path |-> path]

(* The entry a node of the disk was found by.                               *)
Found(at) == at.path[Len(at.path)]

Flags(at) ==
    IF at.fs = "ram" THEN node_pool[at.node].flags
    ELSE IF at.path = <<>> THEN "DIR" ELSE Found(at).flags

first_cluster(at) == IF at.path = <<>> THEN root_cluster ELSE Found(at).first

(* The node's own finddir; a file has none.                                 *)
finddir(at, name, bad) ==
    LET n == ramfs_finddir(node_pool, at.node, name)
        entry == fat32_finddir(disk, first_cluster(at), name, bad)
    IN  IF Flags(at) # "DIR" THEN Null
        ELSE IF at.fs = "ram" THEN IF n = nullptr THEN Null ELSE Ram(n)
        ELSE IF entry = NoEntry THEN Null
        ELSE IF entry = EndlessEntry THEN Endless ELSE Fat(Append(at.path, entry))

(* The root of the mount has no parent; the root of the tree is its own.    *)
Parent(at) ==
    IF at.fs = "ram" THEN Ram(node_pool[at.node].parent)
    ELSE IF at.path = <<>> THEN at ELSE Fat(SubSeq(at.path, 1, Len(at.path) - 1))

-----------------------------------------------------------------------------
(* Paths *)

Step(current, component, bad) ==
    IF current \in {Null, Endless} \/ component = "." THEN current
    ELSE IF component = ".." THEN Parent(current)
    ELSE finddir(current, component, bad)

(* current in the loop over the components, after k of them.                *)
Current(base, components, bad) ==
    LET current[k \in 0..Len(components)] ==
            IF k = 0 THEN base ELSE Step(current[k - 1], components[k], bad)
    IN  current

Walk(base, components, bad) == Current(base, components, bad)[Len(components)]

mounts == {"/"} \cup IF disk = NoDisk THEN {} ELSE {"/mnt"}

vfs_get_root == Ram(root_node)

(* The mount "/" matches a path whose second character is a slash or none,  *)
(* "/mnt" one whose first component is mnt.                                 *)
UnderMnt(path) ==
    "/mnt" \in mounts /\ path.slashes = 1 /\ path.components # <<>> /\ path.components[1] = "mnt"

vfs_resolve(path, bad) ==
    IF UnderMnt(path) THEN Walk(Fat(<<>>), Tail(path.components), bad)
    ELSE IF path.slashes = 1 /\ path.components # <<>> THEN Null
    ELSE Walk(vfs_get_root, path.components, bad)

vfs_resolve_relative(base, path, bad) ==
    IF path.slashes > 0 THEN vfs_resolve(path, bad) ELSE Walk(base, path.components, bad)

-----------------------------------------------------------------------------
(* Boot *)

(* What kernel_main stores, with programs of e1 and e2 bytes.               *)
BootPool(e1, e2) ==
    LET p1 == <<NewNode("/", "DIR", root_node, nullptr)>>
        p2 == ramfs_create_dir(p1, root_node, "mnt")
        p3 == ramfs_create_dir(p2, root_node, "bin")
        p4 == ramfs_write(ramfs_create_file(p3, 3, "hello.elf"), 4, e1, 1)
        p5 == ramfs_create_dir(p4, root_node, "tmp")
    IN  ramfs_write(ramfs_create_file(p5, root_node, "test.elf"), 6, e2, 1)

Init ==
    \E e1, e2 \in ElfSizes :
        /\ node_pool = BootPool(e1, e2)
        /\ writes = <<<<>>, <<>>, <<>>, <<e1>>, <<>>, <<e2>>>>
        /\ disk \in fat32_mount(Disks) /\ root_cluster = disk.root
        /\ cwd = vfs_get_root /\ machine = "up" /\ shown = Nothing

-----------------------------------------------------------------------------
(* The shell's commands *)

(* ramfs_create_* takes the directory for one of its own, whose first_child *)
(* lies where a node of the disk has first_cluster.  So the number of that  *)
(* cluster becomes the next_sibling of the new node, and the address of the *)
(* new node, which nothing finds, the number of the cluster.  The address   *)
(* of node n is the number -n; any other number but 0 is no node's address. *)
AsPointer(number) ==
    IF -number \in DOMAIN node_pool THEN -number
    ELSE IF number = 0 THEN nullptr ELSE outside

Overwritten(entry, number) ==
    [name |-> entry.name, flags |-> entry.flags, first |-> number, size |-> entry.size]

CreateOnDisk(name, flags) ==
    LET new == Len(node_pool) + 1
    IN  /\ node_pool' = Append(node_pool,
                               NewNode(name, flags, outside, AsPointer(first_cluster(cwd))))
        /\ IF cwd.path = <<>>
           THEN root_cluster' = -new /\ UNCHANGED cwd
           ELSE /\ cwd' = Fat([cwd.path EXCEPT ![Len(cwd.path)] = Overwritten(@, -new)])
                /\ UNCHANGED root_cluster

ShellTouch(name) ==
    /\ machine = "up" /\ alloc_node(node_pool)
    /\ IF cwd.fs = "ram"
       THEN /\ node_pool' = ramfs_create_file(node_pool, cwd.node, name)
            /\ UNCHANGED <<cwd, root_cluster>>
       ELSE CreateOnDisk(name, "FILE")
    /\ writes' = Append(writes, <<>>) /\ shown' = Nothing
    /\ UNCHANGED <<disk, machine>>

ShellMkdir(name) ==
    /\ machine = "up" /\ alloc_node(node_pool)
    /\ IF cwd.fs = "ram"
       THEN /\ node_pool' = ramfs_create_dir(node_pool, cwd.node, name)
            /\ UNCHANGED <<cwd, root_cluster>>
       ELSE CreateOnDisk(name, "DIR")
    /\ writes' = Append(writes, <<>>) /\ shown' = Nothing
    /\ UNCHANGED <<disk, machine>>

(* A loop over a chain that is a cycle, from which a command never returns. *)
NeverReturns ==
    /\ machine' = "loop" /\ shown' = Nothing
    /\ UNCHANGED <<node_pool, cwd, disk, root_cluster, writes>>

CdTo_AnyNode(dir) ==
    /\ dir \notin {Null, Endless}
    /\ cwd' = dir /\ shown' = Nothing
    /\ UNCHANGED <<node_pool, disk, root_cluster, machine, writes>>

CdTo(dir) ==
    /\ dir \notin {Null, Endless} /\ Flags(dir) = "DIR"
    /\ cwd' = dir /\ shown' = Nothing
    /\ UNCHANGED <<node_pool, disk, root_cluster, machine, writes>>

ShellCd(path, bad) ==
    LET dir == vfs_resolve_relative(cwd, path, bad)
    IN  machine = "up" /\ (CdTo(dir) \/ (dir = Endless /\ NeverReturns))

(* A file of the disk has no write: the call goes through a null pointer.   *)
WriteTo(file, length) ==
    /\ file \notin {Null, Endless} /\ Flags(file) = "FILE"
    /\ \/ /\ file.fs = "ram" /\ Len(writes[file.node]) < WRITE_BOUND
          /\ node_pool' = ramfs_write(node_pool, file.node, length, Len(writes[file.node]) + 1)
          /\ writes' = [writes EXCEPT ![file.node] = Append(@, length)]
          /\ UNCHANGED machine
       \/ file.fs = "fat" /\ machine' = "fault" /\ UNCHANGED <<node_pool, writes>>
    /\ shown' = Nothing
    /\ UNCHANGED <<cwd, disk, root_cluster>>

ShellWrite(name, length, bad) ==
    LET file == finddir(cwd, name, bad)
    IN  machine = "up" /\ (WriteTo(file, length) \/ (file = Endless /\ NeverReturns))

Shows(what, of, size, bad, list) ==
    /\ shown' = [what |-> what, of |-> of, size |-> size, complete |-> bad = {}, list |-> list]
    /\ UNCHANGED <<node_pool, cwd, disk, root_cluster, machine, writes>>

(* What fat32_read returned.                                                *)
CatRead(entry, read, bad) ==
    IF read.endless THEN NeverReturns
    ELSE Shows("cat", entry.first, entry.size, bad, read.out)

CatOf(file, bad) ==
    /\ file \notin {Null, Endless} /\ Flags(file) = "FILE"
    /\ IF file.fs = "ram"
       THEN Shows("cat", file.node, node_pool[file.node].size, {},
                  ramfs_read(node_pool, file.node, CAT_MAX))
       ELSE CatRead(Found(file), fat32_read(disk, Found(file), CAT_MAX, bad), bad)

ShellCat(name, bad) ==
    LET file == finddir(cwd, name, bad)
    IN  machine = "up" /\ (CatOf(file, bad) \/ (file = Endless /\ NeverReturns))

ShellLs(bad) ==
    /\ machine = "up"
    /\ IF cwd.fs = "ram" THEN Shows("ls", cwd.node, 0, {}, ramfs_readdir(node_pool, cwd.node))
       ELSE IF IsEndless(disk, first_cluster(cwd), bad) THEN NeverReturns
       ELSE Shows("ls", first_cluster(cwd), 0, bad, fat32_readdir(disk, first_cluster(cwd), bad))

(* Only a lookup on the disk reads it.                                      *)
Unreadable(at) == IF at.fs = "ram" THEN {{}} ELSE Faults

Next ==
    \/ \E name \in NewNames : ShellTouch(name) \/ ShellMkdir(name)
    \/ \E path \in Paths : \E bad \in Unreadable(IF UnderMnt(path) THEN Fat(<<>>) ELSE cwd) :
          ShellCd(path, bad)
    \/ \E bad \in Unreadable(cwd) :
          \/ \E name \in FileNames : ShellCat(name, bad)
          \/ \E name \in FileNames : \E length \in Lengths : ShellWrite(name, length, bad)
          \/ ShellLs(bad)

Spec == Init /\ [][Next]_vars

-----------------------------------------------------------------------------
(* Properties *)

Nodes == DOMAIN node_pool
Directories == {n \in Nodes : node_pool[n].flags = "DIR"}

(* The node k levels above cwd; the root is above itself.                   *)
Up ==
    LET up[k \in 0..Len(node_pool)] ==
            IF k = 0 THEN cwd.node ELSE node_pool[up[k - 1]].parent
    IN  up

(* What pwd prints in the tree: the names on the way down to cwd from the   *)
(* root, or from PWD_LEVELS above cwd.                                      *)
pwd ==
    LET up == Up
        levels == Min({k \in 0..Len(node_pool) :
                          k = PWD_LEVELS \/ node_pool[up[k]].parent = up[k]})
    IN  [i \in 1..levels |-> node_pool[up[levels - i]].name]

(* The nodes created in a directory of the tree.                            *)
TreeNodes == {n \in Nodes : node_pool[n].parent # outside}

(* Types: the pool never outgrows node_pool, a file never its data, and cwd *)
(* is a directory, whose readdir and finddir the commands call untested.    *)
(* The addresses that a creation on the disk takes for nodes stay in the    *)
(* nodes created there: no link of a node of the tree leads out of it, and  *)
(* no node of the tree takes the place of the root cluster.                 *)
TypeOK ==
    /\ node_pool \in Seq(Node) /\ Len(node_pool) \in 1..MAX_NODES
    /\ \A n \in TreeNodes :
          /\ node_pool[n].parent \in TreeNodes
          /\ {node_pool[n].next_sibling, node_pool[n].first_child}
                \subseteq TreeNodes \cup {nullptr}
    /\ cwd \in {Ram(cwd.node), Fat(cwd.path)} /\ Flags(cwd) = "DIR"
    /\ cwd.fs = "ram" => cwd.node \in TreeNodes
    /\ root_cluster = disk.root \/ -root_cluster \in Nodes \ TreeNodes
    /\ writes \in Seq(Seq(Nat)) /\ Len(writes) = Len(node_pool)
    /\ machine \in {"up", "fault", "loop"}

(* The lists of children are a tree: every node but the root is in exactly  *)
(* one list, once, and that list is its parent's; one created in a          *)
(* directory of the disk is in none and has no children.  No creation, not  *)
(* even there, loses a node of the tree or closes a cycle on which ls would *)
(* not end.                                                                 *)
TreeOK ==
    LET lists == [d \in Nodes |-> Children(node_pool, d)]
    IN  /\ \A d \in Nodes : /\ IsInjective(lists[d])
                            /\ lists[d] # <<>> => d \in Directories \cap TreeNodes
        /\ \A n \in Nodes \ {root_node} :
              {d \in Nodes : \E k \in DOMAIN lists[d] : lists[d][k] = n}
                  = {node_pool[n].parent} \ {outside}

(* In the tree, the path pwd prints leads back to cwd from where the climb  *)
(* ended, the root unless cwd is deeper than PWD_LEVELS: although touch and *)
(* mkdir may make a second node of the same name that hides the first, and  *)
(* the disk hides the directory mnt, no command hides a directory the shell *)
(* is in or below.                                                          *)
PwdLeadsBack ==
    cwd.fs = "ram" => /\ Walk(Ram(Up[Len(pwd)]), pwd, {}) = cwd
                      /\ Len(pwd) < PWD_LEVELS => Up[Len(pwd)] = root_node

(* A command changes what a name stands for only in cwd, and in the tree    *)
(* only to a node that did not exist before; every other lookup, in either  *)
(* file system, finds what it found.                                        *)
LookupStable ==
    [][/\ \A d \in Directories : \A name \in NewNames :
             LET before == ramfs_finddir(node_pool, d, name)
                 after == ramfs_finddir(node_pool', d, name)
             IN  before # after => cwd = Ram(d) /\ after = Len(node_pool')
       /\ root_cluster' # root_cluster => cwd = Fat(<<>>) /\ node_pool' # node_pool]_vars

(* A byte of a file is the one stored by the last write that was long       *)
(* enough to reach it, and the size is the longest write, up to MAX_DATA: a *)
(* shorter write keeps the end of an older one.                             *)
FileKeepsNewest ==
    \A n \in Nodes :
        LET reaching(i) == {k \in DOMAIN writes[n] : writes[n][k] > i}
        IN  /\ \A i \in 0..(MAX_DATA - 1) :
                  node_pool[n].data[i] = Max({0} \cup reaching(i))
            /\ node_pool[n].size =
                  Min({MAX_DATA, Max({0} \cup {writes[n][k] : k \in DOMAIN writes[n]})})

(* What was shown begins the list.                                          *)
Begins(part, list) == Len(part) <= Len(list) /\ part = SubSeq(list, 1, Len(part))

(* The bytes of a file, by its place in the chain, as FAT32 defines them.   *)
FileBytes(chain, size) ==
    [i \in 1..size |-> <<chain[((i - 1) \div CLUSTER_BYTES) + 1], (i - 1) % CLUSTER_BYTES>>]

(* The bytes of a file in RAM: each is that of the last write that reached  *)
(* it.                                                                      *)
NewestBytes(lengths, size) ==
    [i \in 1..size |-> Max({k \in DOMAIN lengths : lengths[k] >= i})]

(* cat delivers the bytes of a file in order, never one past its end, and   *)
(* all that were asked for unless something could not be read.  In RAM that *)
(* is what ramfs_read finds of all the writes; on the disk fat32_read does  *)
(* so for a file whose clusters are 2, 3, 4, ...                            *)
CatShowsFile ==
    LET size == Min({CAT_MAX, shown.size})
        chain == Chain(disk, shown.of, {})
    IN  shown.what = "cat" =>
          IF cwd.fs = "ram" THEN shown.list = NewestBytes(writes[shown.of], size)
          ELSE (\A k \in DOMAIN chain : chain[k] = k + 1)
               => /\ Begins(shown.list, FileBytes(chain, size))
                  /\ shown.complete => Len(shown.list) = size

(* All a directory's clusters hold, and the place of the first end mark.    *)
Written32(chain) == Joined([k \in DOMAIN chain |-> disk.dir[chain[k]]])
EndMark(entries) == Min({k \in DOMAIN entries : entries[k].mark = "end"} \cup {Len(entries) + 1})

(* The entries of a directory as FAT32 defines them: the live ones before   *)
(* the end mark, in the clusters of its chain.                              *)
DirectoryEntries(entries) ==
    SelectSeq(SubSeq(entries, 1, EndMark(entries) - 1), LAMBDA entry : entry.mark = "live")

(* ls lists a directory completely.  In RAM: its nodes, each once, the      *)
(* newest first.  On the disk, where no touch has hit it: all its entries,  *)
(* each once, in order and over all its clusters, up to the first one that  *)
(* could not be read; what fat32_readdir lists besides is a volume label or *)
(* what an end mark in an earlier cluster should have hidden; and           *)
(* fat32_finddir finds by each name the first entry listed by it.           *)
LsShowsTree ==
    /\ Range(shown.list) = {n \in Nodes \ {root_node} : node_pool[n].parent = cwd.node}
    /\ \A k \in 2..Len(shown.list) : shown.list[k] < shown.list[k - 1]

LsShowsDisk(entries) ==
    LET proper == DirectoryEntries(entries)
        hidden == Range(SubSeq(entries, EndMark(entries), Len(entries)))
        listed == SelectSeq(shown.list, LAMBDA entry : entry \in Range(proper))
        same(k) == {j \in DOMAIN shown.list : entry_name(shown.list[j]) = entry_name(shown.list[k])}
    IN  /\ Begins(listed, proper) /\ (shown.complete => listed = proper)
        /\ \A entry \in Range(shown.list) \ Range(proper) :
              entry.mark = "label" \/ entry \in hidden
        /\ \A k \in DOMAIN shown.list :
              fat32_finddir(disk, shown.of, entry_name(shown.list[k]), {})
                  = AsNode(shown.list[Min(same(k))])

LsShowsDirectory ==
    LET chain == Chain(disk, shown.of, {})
    IN  shown.what = "ls" =>
          IF cwd.fs = "ram" THEN LsShowsTree
          ELSE shown.of >= 0 /\ Range(chain) \subseteq Clusters /\ Len(chain) < FullTurn
               => LsShowsDisk(Written32(chain))
=============================================================================
