---------------------------- MODULE FilesProofs -----------------------------
(***************************************************************************)
(* For every size of the pool and of a file, every disk, every set of      *)
(* names, paths and faults: the lists of children are a tree, a name finds *)
(* its newest node, pwd leads back, and a file keeps its newest bytes.     *)
(*                                                                         *)
(* What the commands do to node_pool is in RamfsProofs.  Added here is     *)
(* where cwd may be: a node of the tree it is on is the newest of its name *)
(* in its parent, and so is every node above it (Place).                   *)
(***************************************************************************)
EXTENDS Files, RamfsProofs

-----------------------------------------------------------------------------
(* Definitions *)

IsSeq(s) == s \in Seq(Range(s))

(* The places a path can lead to.                                           *)
Place(at) ==
    \/ at \in {Null, Endless}
    \/ at = Fat(at.path) /\ IsSeq(at.path)
    \/ at = Ram(at.node) /\ \E V \in SUBSET DOMAIN node_pool :
                               Reached(node_pool, V) /\ at.node \in V

-----------------------------------------------------------------------------
(* The places a path can lead to *)

(* Sequences of entries of the disk, whatever these are.                    *)
LEMMA SeqIsSeq ==
    ASSUME NEW S, NEW s \in Seq(S)
    PROVE  IsSeq(s)
<1>1. Len(s) \in Nat /\ DOMAIN s = 1..Len(s) /\ s \in [1..Len(s) -> S]
  BY LenProperties
<1>2. s \in [1..Len(s) -> Range(s)]
  BY <1>1 DEF Range
<1> QED BY <1>1, <1>2, SeqDef DEF IsSeq

(* A lookup in a directory of the disk makes the path longer,               *)
LEMMA AppendIsSeq ==
    ASSUME NEW s, IsSeq(s), NEW e
    PROVE  IsSeq(Append(s, e))
<1> DEFINE S == Range(s) \cup {e}
<1>1. s \in Seq(S)
  BY SeqMonotonic DEF IsSeq
<1>2. e \in S
  OBVIOUS
<1> HIDE DEF S
<1>3. Append(s, e) \in Seq(S)
  BY <1>1, <1>2, AppendProperties
<1> QED BY <1>3, SeqIsSeq

(* and its parent has a shorter one.                                        *)
LEMMA FrontIsSeq ==
    ASSUME NEW s, IsSeq(s)
    PROVE  IsSeq(SubSeq(s, 1, Len(s) - 1))
<1>1. Len(s) \in Nat /\ \A i \in 1..(Len(s) - 1) : s[i] \in Range(s)
  BY LenProperties, ElementOfSeq DEF IsSeq
<1>2. SubSeq(s, 1, Len(s) - 1) \in Seq(Range(s))
  <2>1. 1 \in Int /\ Len(s) - 1 \in Int
    BY <1>1
  <2> QED BY <1>1, <2>1, SubSeqProperties
<1> QED BY <1>2, SeqIsSeq

(* Overwriting the last entry of a path.                                    *)
LEMMA LastReplaced ==
    ASSUME NEW s, IsSeq(s), s # <<>>, NEW e
    PROVE  LET t == [s EXCEPT ![Len(s)] = e]
           IN  IsSeq(t) /\ t # <<>> /\ t[Len(t)] = e
<1> DEFINE S == Range(s) \cup {e}
           t == [s EXCEPT ![Len(s)] = e]
<1>1. s \in Seq(S)
  BY SeqMonotonic DEF IsSeq
<1>2. e \in S
  OBVIOUS
<1> HIDE DEF S
<1>3. Len(s) \in Nat \ {0} /\ Len(s) \in 1..Len(s)
  BY <1>1, EmptySeq
<1>4. t \in Seq(S) /\ Len(t) = Len(s) /\ t[Len(s)] = e
  BY <1>1, <1>2, <1>3, ExceptSeq
<1> HIDE DEF t
<1>5. t # <<>>
  BY <1>3, <1>4, EmptySeq
<1> QED BY <1>4, <1>5, SeqIsSeq DEF t

(* One component of a path leads from a place to a place.                   *)
LEMMA StepPlace ==
    ASSUME PoolOK(node_pool), NEW at, Place(at), NEW component, NEW bad
    PROVE  Place(Step(at, component, bad))
<1>1. CASE at \in {Null, Endless} \/ component = "."
  BY <1>1 DEF Step
<1>2. CASE at \notin {Null, Endless} /\ component # "." /\ at = Fat(at.path) /\ IsSeq(at.path)
  <2>1. at.fs = "fat"
    BY <1>2 DEF Fat
  <2>2. Place(Parent(at))
    <3>1. CASE at.path = <<>>
      BY <2>1, <3>1 DEF Parent
    <3>2. CASE at.path # <<>>
      <4> DEFINE above == SubSeq(at.path, 1, Len(at.path) - 1)
      <4>1. Parent(at) = Fat(above)
        BY <2>1, <3>2 DEF Parent
      <4>2. IsSeq(above) /\ Fat(above).path = above
        BY <1>2, FrontIsSeq DEF Fat
      <4> QED BY <4>1, <4>2 DEF Place
    <3> QED BY <3>1, <3>2
  <2>3. Place(finddir(at, component, bad))
    <3> DEFINE entry == fat32_finddir(disk, first_cluster(at), component, bad)
               longer == Append(at.path, entry)
    <3>1. finddir(at, component, bad) \in {Null, Endless, Fat(longer)}
      BY <2>1 DEF finddir
    <3>2. IsSeq(longer)
      <4> HIDE DEF entry
      <4> QED BY <1>2, AppendIsSeq
    <3> HIDE DEF longer
    <3>3. Fat(longer).path = longer
      BY DEF Fat
    <3> QED BY <3>1, <3>2, <3>3 DEF Place
  <2> QED BY <1>2, <2>2, <2>3 DEF Step
<1>3. CASE at \notin {Null, Endless} /\ component # "." /\ at = Ram(at.node)
           /\ \E V \in SUBSET DOMAIN node_pool : Reached(node_pool, V) /\ at.node \in V
  <2>1. PICK V \in SUBSET DOMAIN node_pool : Reached(node_pool, V) /\ at.node \in V
    BY <1>3
  <2>2. at.fs = "ram"
    BY <1>3 DEF Ram
  <2>3. Place(Parent(at))
    <3>1. Parent(at) = Ram(node_pool[at.node].parent)
      BY <2>2 DEF Parent
    <3>2. node_pool[at.node].parent \in V
      BY <2>1 DEF Reached
    <3> QED BY <2>1, <3>1, <3>2 DEF Place, Ram
  <2>4. CASE component # ".."
    <3> DEFINE n == ramfs_finddir(node_pool, at.node, component)
    <3>1. finddir(at, component, bad) = Null
          \/ (n # nullptr /\ finddir(at, component, bad) = Ram(n))
      BY <2>2 DEF finddir
    <3>2. ASSUME n # nullptr PROVE Place(Ram(n))
      <4>1. Reached(node_pool, V \cup {n}) /\ n \in DOMAIN node_pool
        BY <1>3, <2>1, <2>4, <3>2, FoundReached
      <4> HIDE DEF n
      <4>2. V \cup {n} \in SUBSET DOMAIN node_pool /\ n \in V \cup {n}
        BY <4>1
      <4>3. Ram(n).node = n
        BY DEF Ram
      <4> QED BY <4>1, <4>2, <4>3 DEF Place
    <3>3. Step(at, component, bad) = finddir(at, component, bad)
      BY <1>3, <2>4 DEF Step
    <3>4. Place(Null)
      BY DEF Place
    <3> HIDE DEF n
    <3> QED BY <3>1, <3>2, <3>3, <3>4
  <2>5. CASE component = ".."
    BY <1>3, <2>3, <2>5 DEF Step
  <2> QED BY <2>4, <2>5
<1> QED BY <1>1, <1>2, <1>3 DEF Place

(* The loop over the components: current exists,                            *)
LEMMA CurrentIs ==
    ASSUME NEW base, NEW components, Len(components) \in Nat, NEW bad
    PROVE  LET current == Current(base, components, bad)
           IN  /\ current[0] = base
               /\ \A k \in 1..Len(components) :
                     current[k] = Step(current[k - 1], components[k], bad)
<1> DEFINE Loop(f, m) ==
             f = [k \in 0..m |-> IF k = 0 THEN base ELSE Step(f[k - 1], components[k], bad)]
           Stuck == {m \in 0..Len(components) : ~\E f : Loop(f, m)}
<1>1. Stuck = {}
  <2> SUFFICES ASSUME Stuck # {} PROVE FALSE
    OBVIOUS
  <2>1. PICK m \in Stuck : \A j \in Stuck : m <= j
    <3>1. Stuck \subseteq Nat
      OBVIOUS
    <3> HIDE DEF Stuck
    <3> QED BY <3>1, LeastNumber
  <2>2. m \in 0..Len(components) /\ m \in Nat /\ ~\E f : Loop(f, m)
    OBVIOUS
  <2>3. \A j \in 0..Len(components) : ~(m <= j) => \E f : Loop(f, j)
    BY <2>1
  <2> HIDE DEF Stuck
  <2>4. m # 0
    <3>1. Loop([k \in 0..0 |-> base], 0)
      OBVIOUS
    <3> QED BY <2>2, <3>1
  <2>5. m - 1 \in 0..Len(components) /\ ~(m <= m - 1)
    BY <2>2, <2>4
  <2>6. PICK f : Loop(f, m - 1)
    BY <2>3, <2>5
  <2> DEFINE last == Step(f[m - 1], components[m], bad)
             g == [k \in 0..m |-> IF k = m THEN last ELSE f[k]]
  <2>7. ASSUME NEW k \in 0..m
        PROVE  g[k] = IF k = 0 THEN base ELSE Step(g[k - 1], components[k], bad)
    <3>1. k # 0 => g[k - 1] = f[k - 1]
      BY <2>2
    <3>2. CASE k = m
      BY <2>4, <3>1, <3>2
    <3>3. CASE k # m
      <4>1. k \in 0..(m - 1) /\ g[k] = f[k]
        BY <2>2, <3>3
      <4>2. f[k] = IF k = 0 THEN base ELSE Step(f[k - 1], components[k], bad)
        BY <2>6, <4>1
      <4> HIDE DEF g, Loop
      <4> QED BY <3>1, <4>1, <4>2
    <3> QED BY <3>2, <3>3
  <2>8. Loop(g, m)
    <3> HIDE DEF last
    <3> QED BY <2>7
  <2> QED BY <2>2, <2>8
<1>2. \E f : Loop(f, Len(components))
  BY <1>1
<1>3. Loop(Current(base, components, bad), Len(components))
  BY <1>2 DEF Current
<1> DEFINE current == Current(base, components, bad)
<1>4. current = [k \in 0..Len(components) |->
                   IF k = 0 THEN base ELSE Step(current[k - 1], components[k], bad)]
  BY <1>3
<1> HIDE DEF current, Loop
<1> DEFINE F == [k \in 0..Len(components) |->
                   IF k = 0 THEN base ELSE Step(current[k - 1], components[k], bad)]
<1>5. F[0] = base /\ \A k \in 1..Len(components) : F[k] = Step(current[k - 1], components[k], bad)
  OBVIOUS
<1>6. current = F
  BY <1>4
<1> HIDE DEF F
<1>7. current[0] = base
      /\ \A k \in 1..Len(components) : current[k] = Step(current[k - 1], components[k], bad)
  BY <1>5, <1>6
<1> QED BY <1>7 DEF current

(* and every turn leads from a place to a place.                            *)
LEMMA WalkPlace ==
    ASSUME PoolOK(node_pool), NEW base, Place(base), NEW components,
           Len(components) \in Nat, NEW bad
    PROVE  Place(Walk(base, components, bad))
<1> DEFINE current == Current(base, components, bad)
           Off == {k \in 0..Len(components) : ~Place(current[k])}
<1>1. /\ current[0] = base
      /\ \A k \in 1..Len(components) : current[k] = Step(current[k - 1], components[k], bad)
  BY CurrentIs
<1> HIDE DEF current
<1>2. Off = {}
  <2> SUFFICES ASSUME Off # {} PROVE FALSE
    OBVIOUS
  <2>1. PICK k \in Off : \A j \in Off : k <= j
    <3>1. Off \subseteq Nat
      OBVIOUS
    <3> HIDE DEF Off
    <3> QED BY <3>1, LeastNumber
  <2>2. k \in 0..Len(components) /\ k \in Nat /\ ~Place(current[k])
    OBVIOUS
  <2>3. \A j \in 0..Len(components) : ~(k <= j) => Place(current[j])
    BY <2>1
  <2> HIDE DEF Off
  <2>4. k # 0
    BY <1>1, <2>2
  <2>5. k \in 1..Len(components) /\ k - 1 \in 0..Len(components) /\ ~(k <= k - 1)
    BY <2>2, <2>4
  <2>6. Place(current[k - 1])
    BY <2>3, <2>5
  <2>7. Place(Step(current[k - 1], components[k], bad))
    BY <2>6, StepPlace
  <2> QED BY <1>1, <2>2, <2>5, <2>7
<1>3. Len(components) \in 0..Len(components)
  OBVIOUS
<1>4. Place(current[Len(components)])
  BY <1>2, <1>3
<1> QED BY <1>4 DEF Walk, current

(* vfs_resolve_relative leads from a place to a place.                      *)
LEMMA ResolvePlace ==
    ASSUME PoolOK(node_pool), NEW base, Place(base), NEW path \in Paths, NEW bad
    PROVE  Place(vfs_resolve_relative(base, path, bad))
<1>1. path.components \in Seq(STRING)
  BY FilesAssumption
<1>2. Len(path.components) \in Nat
  BY <1>1, LenProperties
<1>3. Place(Walk(base, path.components, bad))
  BY <1>2, WalkPlace
<1>4. Place(Null)
  BY DEF Place
<1>5. Place(Walk(vfs_get_root, path.components, bad))
  <2>1. Place(vfs_get_root)
    <3>1. Reached(node_pool, {root_node}) /\ {root_node} \in SUBSET DOMAIN node_pool
      BY RootReached
    <3>2. Ram(root_node).node = root_node
      BY DEF Ram
    <3> QED BY <3>1, <3>2 DEF Place, vfs_get_root
  <2> QED BY <1>2, <2>1, WalkPlace
<1>6. UnderMnt(path) => Place(Walk(Fat(<<>>), Tail(path.components), bad))
  <2> SUFFICES ASSUME UnderMnt(path)
               PROVE  Place(Walk(Fat(<<>>), Tail(path.components), bad))
    OBVIOUS
  <2>1. path.components # <<>>
    BY DEF UnderMnt
  <2>2. Tail(path.components) \in Seq(STRING)
    BY <1>1, <2>1, HeadTailProperties
  <2>3. Len(Tail(path.components)) \in Nat
    BY <2>2, LenProperties
  <2>4. IsSeq(<<>>)
    BY EmptySeq DEF IsSeq
  <2>5. Fat(<<>>).path = <<>>
    BY DEF Fat
  <2>6. Place(Fat(<<>>))
    BY <2>4, <2>5 DEF Place
  <2> QED BY <2>3, <2>6, WalkPlace
<1>7. Place(vfs_resolve(path, bad))
  BY <1>4, <1>5, <1>6 DEF vfs_resolve
<1> QED BY <1>3, <1>7 DEF vfs_resolve_relative

-----------------------------------------------------------------------------
(* The invariant *)

(* The first cluster of the mount: the disk's, or the address of a node     *)
(* that was created on the disk.                                            *)
MountRoot(pool, cluster, of) ==
    cluster = of.root \/ (-cluster \in DOMAIN pool /\ pool[-cluster].parent = outside)

FilesInv ==
    /\ PoolOK(node_pool) /\ AllNewest(node_pool, writes)
    /\ Place(cwd) /\ cwd \notin {Null, Endless} /\ Flags(cwd) = "DIR"
    /\ MountRoot(node_pool, root_cluster, disk) /\ machine \in {"up", "fault", "loop"}

(* What is reached is in the tree.                                          *)
LEMMA ReachedInTree ==
    ASSUME NEW pool, PoolOK(pool), NEW V, Reached(pool, V), NEW n \in V
    PROVE  n \in DOMAIN pool /\ pool[n].parent # outside
<1>1. V \subseteq 1..Len(pool) /\ pool[n].parent \in V /\ DOMAIN pool = 1..Len(pool)
  BY PoolFacts DEF Reached
<1> QED BY <1>1 DEF outside

(* A step that keeps the parents keeps the root of the mount.               *)
LEMMA MountRootKept ==
    ASSUME NEW pool, NEW q, NEW cluster, NEW of, MountRoot(pool, cluster, of),
           DOMAIN pool \subseteq DOMAIN q, \A n \in DOMAIN pool : q[n].parent = pool[n].parent
    PROVE  MountRoot(q, cluster, of)
BY DEF MountRoot

(* The shell is in a directory of the tree or of the disk.                  *)
LEMMA CwdCases ==
    ASSUME FilesInv
    PROVE  \/ /\ cwd = Ram(cwd.node) /\ cwd.fs = "ram"
              /\ \E V \in SUBSET DOMAIN node_pool : Reached(node_pool, V) /\ cwd.node \in V
           \/ cwd = Fat(cwd.path) /\ cwd.fs = "fat" /\ IsSeq(cwd.path)
BY DEF FilesInv, Place, Ram, Fat

(* It implies the types.                                                    *)
LEMMA InvTypes == FilesInv => TypeOK
<1> SUFFICES ASSUME FilesInv PROVE TypeOK
  OBVIOUS
<1>1. /\ node_pool \in Seq(Node) /\ Len(node_pool) \in 1..MAX_NODES
      /\ DOMAIN node_pool = 1..Len(node_pool) /\ Len(node_pool) \in Nat
  BY PoolFacts DEF FilesInv, PoolOK
<1>2. ASSUME NEW n \in TreeNodes
      PROVE  /\ node_pool[n].parent \in TreeNodes
             /\ {node_pool[n].next_sibling, node_pool[n].first_child}
                   \subseteq TreeNodes \cup {nullptr}
  <2>1. n \in 1..Len(node_pool) /\ Nodes = 1..Len(node_pool) /\ node_pool[n].parent # outside
    BY <1>1 DEF Nodes, TreeNodes
  <2>2. LinksOK(node_pool, n) /\ PoolOK(node_pool)
    BY <2>1, PoolFacts DEF FilesInv
  <2>3. \A d \in 1..Len(node_pool) : Kids(node_pool, d) \subseteq TreeNodes
    BY <1>1, <2>1 DEF Kids, TreeNodes, outside
  <2>4. node_pool[n].first_child \in TreeNodes \cup {nullptr}
    BY <2>1, <2>2, <2>3 DEF LinksOK, IsLast
  <2>5. node_pool[n].parent \in 1..Len(node_pool)
    BY <2>1, <2>2, ParentIs
  <2>6. node_pool[n].next_sibling \in TreeNodes \cup {nullptr}
    <3>1. \/ node_pool[n].next_sibling = nullptr
          \/ IsLast(node_pool[n].next_sibling,
                    {m \in Kids(node_pool, node_pool[n].parent) : m < n})
      BY <2>1, <2>2 DEF LinksOK
    <3> QED BY <2>3, <2>5, <3>1 DEF IsLast
  <2>7. node_pool[node_pool[n].parent].parent # outside
    <3>1. n = root_node => node_pool[n].parent = root_node
      BY <2>2 DEF LinksOK
    <3>2. n # root_node => TreeDir(node_pool, node_pool[n].parent)
      BY <2>1, <2>2 DEF LinksOK
    <3> QED BY <2>1, <3>1, <3>2 DEF TreeDir
  <2> QED BY <2>1, <2>4, <2>5, <2>6, <2>7 DEF TreeNodes
<1>3. cwd \in {Ram(cwd.node), Fat(cwd.path)} /\ Flags(cwd) = "DIR"
  BY CwdCases DEF FilesInv
<1>4. cwd.fs = "ram" => cwd.node \in TreeNodes
  <2> SUFFICES ASSUME cwd.fs = "ram" PROVE cwd.node \in TreeNodes
    OBVIOUS
  <2>1. PICK V \in SUBSET DOMAIN node_pool : Reached(node_pool, V) /\ cwd.node \in V
    BY CwdCases
  <2> QED BY <2>1, ReachedInTree DEF Nodes, TreeNodes, FilesInv
<1>5. writes \in Seq(Seq(Nat)) /\ Len(writes) = Len(node_pool)
  BY DEF FilesInv, AllNewest
<1>6. root_cluster = disk.root \/ -root_cluster \in Nodes \ TreeNodes
  BY DEF FilesInv, MountRoot, Nodes, TreeNodes
<1>7. machine \in {"up", "fault", "loop"}
  BY DEF FilesInv
<1> QED BY <1>1, <1>2, <1>3, <1>4, <1>5, <1>6, <1>7 DEF TypeOK

(* A sequence with one more element at its end.                             *)
LEMMA AppendEqual ==
    ASSUME NEW S, NEW s \in Seq(S), NEW e \in S, NEW t \in Seq(S), Len(t) = Len(s) + 1,
           t[Len(t)] = e, \A i \in 1..Len(s) : t[i] = s[i]
    PROVE  Append(s, e) = t
<1>1. Len(s) \in Nat
  BY LenProperties
<1>2. /\ Append(s, e) \in Seq(S) /\ Len(Append(s, e)) = Len(t)
      /\ \A i \in 1..Len(s) : Append(s, e)[i] = s[i]
      /\ Append(s, e)[Len(t)] = e
  BY AppendProperties
<1>3. \A i \in 1..Len(t) : i = Len(t) \/ i \in 1..Len(s)
  BY <1>1
<1>4. \A i \in 1..Len(t) : Append(s, e)[i] = t[i]
  BY <1>2, <1>3
<1> QED BY <1>2, <1>4, SeqEqual

(* One of the first nodes; t are the writes so far.                         *)
LEMMA BootCreates ==
    ASSUME NEW pool, PoolOK(pool), Len(pool) < 6, NEW p \in 1..Len(pool), TreeDir(pool, p),
           NEW name \in Names, NEW flags \in {"FILE", "DIR"}
    PROVE  LET q == Created(pool, p, name, flags)
           IN  PoolOK(q) /\ Len(q) = Len(pool) + 1 /\ (flags = "DIR" => TreeDir(q, Len(q)))
<1>1. Len(pool) < MAX_NODES /\ p \in DOMAIN pool /\ p # outside
  BY FilesAssumption, RamfsAssumption, PoolFacts DEF outside
<1> DEFINE q == Created(pool, p, name, flags)
<1>2. PoolOK(q) /\ Len(q) = Len(pool) + 1 /\ q[Len(q)].flags = flags /\ q[Len(q)].parent = p
  BY <1>1, CreatedLinks
<1> HIDE DEF q
<1>3. flags = "DIR" => TreeDir(q, Len(q))
  BY <1>1, <1>2 DEF TreeDir
<1> QED BY <1>2, <1>3 DEF q

(* The files then.                                                          *)
LEMMA BootFiles ==
    ASSUME NEW pool, PoolOK(pool), NEW ws, AllNewest(pool, ws), Len(pool) < 6,
           NEW p \in 1..Len(pool), TreeDir(pool, p),
           NEW name \in Names, NEW flags \in {"FILE", "DIR"},
           NEW t \in Seq(Seq(Nat)), Len(t) = Len(ws) + 1, t[Len(t)] = <<>>,
           \A i \in 1..Len(ws) : t[i] = ws[i]
    PROVE  AllNewest(Created(pool, p, name, flags), t)
<1>1. Len(pool) < MAX_NODES /\ p \in DOMAIN pool
  BY FilesAssumption, RamfsAssumption, PoolFacts
<1>2. ws \in Seq(Seq(Nat)) /\ <<>> \in Seq(Nat)
  BY EmptySeq DEF AllNewest
<1>3. Append(ws, <<>>) = t
  BY <1>2, AppendEqual
<1>4. AllNewest(Created(pool, p, name, flags), Append(ws, <<>>))
  BY <1>1, CreatedFiles
<1> QED BY <1>3, <1>4

(* The names kernel_main uses.                                              *)
LEMMA BootNames ==
    /\ "/" \in Names /\ "mnt" \in Names /\ "bin" \in Names
    /\ "hello.elf" \in Names /\ "tmp" \in Names /\ "test.elf" \in Names
BY FilesAssumption

(* kernel_main stores a tree.                                               *)
LEMMA BootKeeps ==
    ASSUME NEW e1 \in Nat, NEW e2 \in Nat
    PROVE  /\ PoolOK(BootPool(e1, e2))
           /\ AllNewest(BootPool(e1, e2), <<<<>>, <<>>, <<>>, <<e1>>, <<>>, <<e2>>>>)
<1> DEFINE root == NewNode("/", "DIR", root_node, nullptr)
           p1 == <<root>>
           p2 == Created(p1, root_node, "mnt", "DIR")
           p3 == Created(p2, root_node, "bin", "DIR")
           q4 == Created(p3, 3, "hello.elf", "FILE")
           p4 == ramfs_write(q4, 4, e1, 1)
           p5 == Created(p4, root_node, "tmp", "DIR")
           q6 == Created(p5, root_node, "test.elf", "FILE")
           p6 == ramfs_write(q6, 6, e2, 1)
<1>0. BootPool(e1, e2) = p6
  BY DEF BootPool, ramfs_create_dir, ramfs_create_file
<1>1. PoolOK(p1) /\ Len(p1) = 1 /\ AllNewest(p1, <<<<>>>>)
  <2>0. root_node \in Link /\ nullptr \in Link
    BY DEF root_node, nullptr, Link
  <2>1. root \in Node
    BY <2>0, BootNames, NewNodeType
  <2>2. /\ root.parent = root_node /\ root.flags = "DIR"
        /\ root.next_sibling = nullptr /\ root.first_child = nullptr
    BY DEF NewNode
  <2>3. Newest(root, <<>>)
    BY NewIsNewest
  <2> HIDE DEF root
  <2>4. p1 \in Seq(Node) /\ Len(p1) = 1 /\ p1[1] = root /\ DOMAIN p1 = {1}
    BY <2>1
  <2> HIDE DEF p1
  <2>5. Kids(p1, 1) = {}
    BY <2>4 DEF Kids, root_node
  <2>6. LinksOK(p1, 1)
    BY <2>2, <2>4, <2>5 DEF LinksOK, IsLast, root_node
  <2>7. Len(p1) \in 1..MAX_NODES
    BY <2>4, FilesAssumption, RamfsAssumption
  <2>8. PoolOK(p1)
    BY <2>4, <2>6, <2>7 DEF PoolOK
  <2>9. <<<<>>>> \in Seq(Seq(Nat)) /\ Len(<<<<>>>>) = 1 /\ <<<<>>>>[1] = <<>>
    BY EmptySeq
  <2> QED BY <2>3, <2>4, <2>8, <2>9 DEF AllNewest
<1> HIDE DEF p1
<1>r. \A pool : PoolOK(pool) => TreeDir(pool, root_node)
  BY RootReached DEF TreeDir, root_node, outside
<1>2. PoolOK(p2) /\ Len(p2) = 2 /\ AllNewest(p2, <<<<>>, <<>>>>)
  <2> DEFINE ws == <<<<>>>>
             t == <<<<>>, <<>>>>
  <2>1. /\ t \in Seq(Seq(Nat)) /\ Len(t) = 2 /\ t[2] = <<>>
        /\ Len(ws) = 1 /\ \A i \in 1..1 : t[i] = ws[i]
    BY EmptySeq
  <2>2. AllNewest(p1, ws)
    BY <1>1
  <2> HIDE DEF ws, t
  <2>3. PoolOK(p1) /\ Len(p1) < 6 /\ 1 \in 1..Len(p1) /\ TreeDir(p1, 1)
    BY <1>1, <1>r DEF root_node
  <2>4. PoolOK(p2) /\ Len(p2) = Len(p1) + 1 /\ TreeDir(p2, Len(p2))
    BY <2>3, BootNames, BootCreates DEF root_node
  <2>5. Len(t) = Len(ws) + 1 /\ t[Len(t)] = <<>> /\ \A i \in 1..Len(ws) : t[i] = ws[i]
    BY <2>1
  <2>6. AllNewest(p2, t)
    BY <2>1, <2>2, <2>3, <2>5, BootNames, BootFiles DEF root_node
  <2> QED BY <1>1, <2>4, <2>6 DEF t
<1> HIDE DEF p2
<1>3. PoolOK(p3) /\ Len(p3) = 3 /\ AllNewest(p3, <<<<>>, <<>>, <<>>>>) /\ TreeDir(p3, 3)
  <2> DEFINE ws == <<<<>>, <<>>>>
             t == <<<<>>, <<>>, <<>>>>
  <2>1. /\ t \in Seq(Seq(Nat)) /\ Len(t) = 3 /\ t[3] = <<>>
        /\ Len(ws) = 2 /\ \A i \in 1..2 : t[i] = ws[i]
    BY EmptySeq
  <2>2. AllNewest(p2, ws)
    BY <1>2
  <2> HIDE DEF ws, t
  <2>3. PoolOK(p2) /\ Len(p2) < 6 /\ 1 \in 1..Len(p2) /\ TreeDir(p2, 1)
    BY <1>2, <1>r DEF root_node
  <2>4. PoolOK(p3) /\ Len(p3) = Len(p2) + 1 /\ TreeDir(p3, Len(p3))
    BY <2>3, BootNames, BootCreates DEF root_node
  <2>5. Len(t) = Len(ws) + 1 /\ t[Len(t)] = <<>> /\ \A i \in 1..Len(ws) : t[i] = ws[i]
    BY <2>1
  <2>6. AllNewest(p3, t)
    BY <2>1, <2>2, <2>3, <2>5, BootNames, BootFiles DEF root_node
  <2>7. Len(p3) = 3
    BY <1>2, <2>4
  <2> QED BY <2>4, <2>6, <2>7 DEF t
<1> HIDE DEF p3
<1>4. PoolOK(q4) /\ Len(q4) = 4 /\ AllNewest(q4, <<<<>>, <<>>, <<>>, <<>>>>)
  <2> DEFINE ws == <<<<>>, <<>>, <<>>>>
             t == <<<<>>, <<>>, <<>>, <<>>>>
  <2>1. /\ t \in Seq(Seq(Nat)) /\ Len(t) = 4 /\ t[4] = <<>>
        /\ Len(ws) = 3 /\ \A i \in 1..3 : t[i] = ws[i]
    BY EmptySeq
  <2>2. AllNewest(p3, ws)
    BY <1>3
  <2> HIDE DEF ws, t
  <2>3. PoolOK(p3) /\ Len(p3) < 6 /\ 3 \in 1..Len(p3) /\ TreeDir(p3, 3)
    BY <1>3
  <2>4. PoolOK(q4) /\ Len(q4) = Len(p3) + 1
    BY <2>3, BootNames, BootCreates
  <2>5. Len(t) = Len(ws) + 1 /\ t[Len(t)] = <<>> /\ \A i \in 1..Len(ws) : t[i] = ws[i]
    BY <2>1
  <2>6. AllNewest(q4, t)
    BY <2>1, <2>2, <2>3, <2>5, BootNames, BootFiles
  <2> QED BY <1>3, <2>4, <2>6 DEF t
<1> HIDE DEF q4
<1>5. PoolOK(p4) /\ Len(p4) = 4 /\ AllNewest(p4, <<<<>>, <<>>, <<>>, <<e1>>>>)
  <2> DEFINE ws == <<<<>>, <<>>, <<>>, <<>>>>
  <2>1. [ws EXCEPT ![4] = Append(ws[4], e1)] = <<<<>>, <<>>, <<>>, <<e1>>>>
    OBVIOUS
  <2>2. Len(ws[4]) + 1 = 1 /\ AllNewest(q4, ws)
    BY <1>4
  <2> HIDE DEF ws
  <2>3. 4 \in DOMAIN q4 /\ 1 \in Nat
    BY <1>4, PoolFacts
  <2>4. PoolOK(p4) /\ Len(p4) = 4
    BY <1>4, <2>3, WriteKeepsLinks
  <2>5. AllNewest(ramfs_write(q4, 4, e1, Len(ws[4]) + 1), [ws EXCEPT ![4] = Append(ws[4], e1)])
    BY <1>4, <2>2, <2>3, WriteKeeps
  <2> QED BY <2>1, <2>2, <2>4, <2>5
<1> HIDE DEF p4
<1>6. PoolOK(p5) /\ Len(p5) = 5 /\ AllNewest(p5, <<<<>>, <<>>, <<>>, <<e1>>, <<>>>>)
  <2> DEFINE ws == <<<<>>, <<>>, <<>>, <<e1>>>>
             t == <<<<>>, <<>>, <<>>, <<e1>>, <<>>>>
  <2>1. /\ t \in Seq(Seq(Nat)) /\ Len(t) = 5 /\ t[5] = <<>>
        /\ Len(ws) = 4 /\ \A i \in 1..4 : t[i] = ws[i]
    BY EmptySeq
  <2>2. AllNewest(p4, ws)
    BY <1>5
  <2> HIDE DEF ws, t
  <2>3. PoolOK(p4) /\ Len(p4) < 6 /\ 1 \in 1..Len(p4) /\ TreeDir(p4, 1)
    BY <1>5, <1>r DEF root_node
  <2>4. PoolOK(p5) /\ Len(p5) = Len(p4) + 1 /\ TreeDir(p5, Len(p5))
    BY <2>3, BootNames, BootCreates DEF root_node
  <2>5. Len(t) = Len(ws) + 1 /\ t[Len(t)] = <<>> /\ \A i \in 1..Len(ws) : t[i] = ws[i]
    BY <2>1
  <2>6. AllNewest(p5, t)
    BY <2>1, <2>2, <2>3, <2>5, BootNames, BootFiles DEF root_node
  <2> QED BY <1>5, <2>4, <2>6 DEF t
<1> HIDE DEF p5
<1>7. PoolOK(q6) /\ Len(q6) = 6 /\ AllNewest(q6, <<<<>>, <<>>, <<>>, <<e1>>, <<>>, <<>>>>)
  <2> DEFINE ws == <<<<>>, <<>>, <<>>, <<e1>>, <<>>>>
             t == <<<<>>, <<>>, <<>>, <<e1>>, <<>>, <<>>>>
  <2>1. /\ t \in Seq(Seq(Nat)) /\ Len(t) = 6 /\ t[6] = <<>>
        /\ Len(ws) = 5 /\ \A i \in 1..5 : t[i] = ws[i]
    BY EmptySeq
  <2>2. AllNewest(p5, ws)
    BY <1>6
  <2> HIDE DEF ws, t
  <2>3. PoolOK(p5) /\ Len(p5) < 6 /\ 1 \in 1..Len(p5) /\ TreeDir(p5, 1)
    BY <1>6, <1>r DEF root_node
  <2>4. PoolOK(q6) /\ Len(q6) = Len(p5) + 1
    BY <2>3, BootNames, BootCreates DEF root_node
  <2>5. Len(t) = Len(ws) + 1 /\ t[Len(t)] = <<>> /\ \A i \in 1..Len(ws) : t[i] = ws[i]
    BY <2>1
  <2>6. AllNewest(q6, t)
    BY <2>1, <2>2, <2>3, <2>5, BootNames, BootFiles DEF root_node
  <2> QED BY <1>6, <2>4, <2>6 DEF t
<1> HIDE DEF q6
<1>8. PoolOK(p6) /\ AllNewest(p6, <<<<>>, <<>>, <<>>, <<e1>>, <<>>, <<e2>>>>)
  <2> DEFINE ws == <<<<>>, <<>>, <<>>, <<e1>>, <<>>, <<>>>>
  <2>1. [ws EXCEPT ![6] = Append(ws[6], e2)] = <<<<>>, <<>>, <<>>, <<e1>>, <<>>, <<e2>>>>
    OBVIOUS
  <2>2. Len(ws[6]) + 1 = 1 /\ AllNewest(q6, ws)
    BY <1>7
  <2> HIDE DEF ws
  <2>3. 6 \in DOMAIN q6 /\ 1 \in Nat
    BY <1>7, PoolFacts
  <2>4. PoolOK(p6)
    BY <1>7, <2>3, WriteKeepsLinks
  <2>5. AllNewest(ramfs_write(q6, 6, e2, Len(ws[6]) + 1), [ws EXCEPT ![6] = Append(ws[6], e2)])
    BY <1>7, <2>2, <2>3, WriteKeeps
  <2> QED BY <2>1, <2>2, <2>4, <2>5
<1> QED BY <1>0, <1>8

(* After boot the shell is in the root of the tree.                         *)
LEMMA FilesInitInv == Init => FilesInv
<1> SUFFICES ASSUME Init PROVE FilesInv
  OBVIOUS
<1>1. PICK e1 \in ElfSizes, e2 \in ElfSizes :
         /\ node_pool = BootPool(e1, e2)
         /\ writes = <<<<>>, <<>>, <<>>, <<e1>>, <<>>, <<e2>>>>
         /\ root_cluster = disk.root /\ cwd = vfs_get_root /\ machine = "up"
  BY DEF Init
<1>2. e1 \in Nat /\ e2 \in Nat
  BY FilesAssumption
<1>3. PoolOK(node_pool) /\ AllNewest(node_pool, writes)
  BY <1>1, <1>2, BootKeeps
<1>4. cwd = Ram(root_node) /\ cwd.fs = "ram" /\ cwd.node = root_node
      /\ cwd \notin {Null, Endless}
  BY <1>1 DEF vfs_get_root, Ram, Null, Endless
<1>5. /\ Reached(node_pool, {root_node}) /\ {root_node} \in SUBSET DOMAIN node_pool
      /\ node_pool[root_node].flags = "DIR"
  BY <1>3, RootReached
<1>6. Place(cwd) /\ Flags(cwd) = "DIR"
  BY <1>4, <1>5 DEF Place, Flags
<1> QED BY <1>1, <1>3, <1>4, <1>6 DEF FilesInv, MountRoot

-----------------------------------------------------------------------------
(* The commands *)

(* What a step may do to the meaning of names: a new node, the last of the  *)
(* pool, takes a name in cwd.                                               *)
NamesKept ==
    \A d \in DOMAIN node_pool : \A name :
        \/ Named(node_pool', d, name) = Named(node_pool, d, name)
        \/ /\ cwd = Ram(d) /\ Len(node_pool') \notin DOMAIN node_pool
           /\ Named(node_pool', d, name) = Named(node_pool, d, name) \cup {Len(node_pool')}

(* touch and mkdir in a directory of the tree.                              *)
LEMMA MakeInTree ==
    ASSUME FilesInv, cwd.fs = "ram", alloc_node(node_pool),
           NEW name \in NewNames, NEW flags \in {"FILE", "DIR"},
           node_pool' = Created(node_pool, cwd.node, name, flags),
           writes' = Append(writes, <<>>), UNCHANGED <<cwd, root_cluster, disk, machine>>
    PROVE  FilesInv' /\ NamesKept
<1> DEFINE p == cwd.node
           q == Created(node_pool, p, name, flags)
<1>1. PoolOK(node_pool) /\ AllNewest(node_pool, writes) /\ Len(node_pool) < MAX_NODES
  BY DEF FilesInv, alloc_node
<1>2. PICK V \in SUBSET DOMAIN node_pool : Reached(node_pool, V) /\ p \in V
  BY CwdCases
<1>3. cwd = Ram(p)
  BY CwdCases
<1>4. p \in DOMAIN node_pool /\ TreeDir(node_pool, p) /\ name \in Names
  BY <1>1, <1>2, ReachedInTree, FilesAssumption DEF FilesInv, Flags, TreeDir
<1>5. DOMAIN node_pool = 1..Len(node_pool) /\ Len(node_pool) \in Nat
  BY <1>1, PoolFacts
<1>6. /\ PoolOK(q) /\ Len(q) = Len(node_pool) + 1
      /\ \A n \in 1..Len(node_pool) :
            /\ q[n].name = node_pool[n].name /\ q[n].flags = node_pool[n].flags
            /\ q[n].parent = node_pool[n].parent
      /\ TakesName(node_pool, q, p, name)
  BY <1>1, <1>4, CreatedLinks
<1>7. AllNewest(q, writes')
  BY <1>1, <1>4, CreatedFiles
<1>8. node_pool' = q
  OBVIOUS
<1> HIDE DEF q
<1>9. Place(cwd)'
  <2> DEFINE W == {n \in V : n <= p}
  <2>1. Len(node_pool) < Len(q)
    BY <1>5, <1>6
  <2>4. ASSUME NEW d \in 1..Len(node_pool), d # p, NEW nm
        PROVE  Named(q, d, nm) = Named(node_pool, d, nm)
    <3>1. Named(q, d, nm) = Named(node_pool, d, nm) \cup
             IF d = p /\ nm = name THEN {Len(q)} ELSE {}
      BY <1>6 DEF TakesName
    <3> QED BY <2>4, <3>1
  <2>5. /\ PoolOK(q) /\ \A n \in 1..Len(node_pool) :
           q[n].name = node_pool[n].name /\ q[n].parent = node_pool[n].parent
    BY <1>6
  <2>2. Reached(q, W) /\ p \in W
    BY <1>1, <1>2, <2>1, <2>4, <2>5, CreatedReaches
  <2> HIDE DEF W
  <2>3. W \in SUBSET DOMAIN q
    BY <2>2 DEF Reached
  <2> QED BY <1>3, <1>8, <2>2, <2>3 DEF Place
<1>10. Flags(cwd)' = "DIR"
  <2>1. q[p].flags = "DIR"
    BY <1>4, <1>5, <1>6 DEF TreeDir
  <2> QED BY <1>8, <2>1 DEF Flags
<1>11. FilesInv'
  <2>1. DOMAIN q = 1..Len(q) /\ DOMAIN node_pool \subseteq DOMAIN q
    BY <1>5, <1>6, PoolFacts
  <2>2. MountRoot(q, root_cluster, disk)
    BY <1>5, <1>6, <2>1, MountRootKept DEF FilesInv
  <2>3. (cwd \notin {Null, Endless})'
    BY DEF FilesInv, Null, Endless
  <2> QED BY <1>6, <1>7, <1>8, <1>9, <1>10, <2>2, <2>3 DEF FilesInv
<1>12. ASSUME NEW d \in DOMAIN node_pool, NEW nm
       PROVE  \/ Named(q, d, nm) = Named(node_pool, d, nm)
              \/ /\ cwd = Ram(d) /\ Len(q) \notin DOMAIN node_pool
                 /\ Named(q, d, nm) = Named(node_pool, d, nm) \cup {Len(q)}
  <2>1. Named(q, d, nm) = Named(node_pool, d, nm) \cup
           IF d = p /\ nm = name THEN {Len(q)} ELSE {}
    BY <1>5, <1>6 DEF TakesName
  <2>2. Len(q) \notin DOMAIN node_pool
    BY <1>5, <1>6
  <2> QED BY <1>3, <2>1, <2>2
<1> QED BY <1>8, <1>11, <1>12 DEF NamesKept

(* A number of a cluster, taken for an address.                             *)
LEMMA PointerIsLink ==
    ASSUME PoolOK(node_pool), NEW number
    PROVE  AsPointer(number) \in Link
<1>1. DOMAIN node_pool \subseteq Nat
  BY PoolFacts
<1> QED BY <1>1 DEF AsPointer, Link, nullptr

(* touch and mkdir in a directory of the disk.                              *)
LEMMA MakeOnDisk ==
    ASSUME FilesInv, cwd.fs # "ram", alloc_node(node_pool),
           NEW name \in NewNames, NEW flags \in {"FILE", "DIR"}, CreateOnDisk(name, flags),
           writes' = Append(writes, <<>>), UNCHANGED <<disk, machine>>
    PROVE  FilesInv' /\ NamesKept /\ (root_cluster' # root_cluster => cwd = Fat(<<>>))
<1> DEFINE sibling == AsPointer(first_cluster(cwd))
           q == Append(node_pool, NewNode(name, flags, outside, sibling))
           new == Len(node_pool) + 1
<1>1. PoolOK(node_pool) /\ AllNewest(node_pool, writes) /\ Len(node_pool) < MAX_NODES
  BY DEF FilesInv, alloc_node
<1>2. cwd = Fat(cwd.path) /\ cwd.fs = "fat" /\ IsSeq(cwd.path)
  BY CwdCases
<1>3. name \in Names /\ sibling \in Link
  BY <1>1, PointerIsLink, FilesAssumption
<1>6. node_pool' = q /\ DOMAIN node_pool = 1..Len(node_pool) /\ Len(node_pool) \in Nat
  BY <1>1, PoolFacts DEF CreateOnDisk
<1> HIDE DEF sibling
<1>4. /\ PoolOK(q) /\ Len(q) = Len(node_pool) + 1 /\ q[Len(q)].parent = outside
      /\ \A n \in 1..Len(node_pool) : q[n] = node_pool[n]
      /\ \A d \in 1..Len(node_pool) : \A nm : Named(q, d, nm) = Named(node_pool, d, nm)
  BY <1>1, <1>3, LooseLinks
<1>5. AllNewest(q, writes')
  BY <1>1, <1>3, LooseFiles
<1> HIDE DEF q
<1>10. DOMAIN q = 1..Len(q) /\ DOMAIN node_pool \subseteq DOMAIN q /\ new \in DOMAIN q
  BY <1>4, <1>6, PoolFacts
<1>7. NamesKept
  BY <1>4, <1>6 DEF NamesKept
<1>8. CASE cwd.path = <<>>
  <2>1. root_cluster' = -new /\ cwd' = cwd /\ cwd = Fat(<<>>)
    BY <1>2, <1>8 DEF CreateOnDisk
  <2>2. Place(cwd)' /\ (cwd \notin {Null, Endless})' /\ (Flags(cwd) = "DIR")'
    BY <1>2, <1>8, <2>1 DEF Place, Flags, Null, Endless
  <2>3. -(-new) = new
    BY <1>6
  <2>4. MountRoot(node_pool, root_cluster, disk)'
    BY <1>4, <1>6, <1>10, <2>1, <2>3 DEF MountRoot
  <2> QED BY <1>4, <1>5, <1>6, <1>7, <2>1, <2>2, <2>4 DEF FilesInv
<1>9. CASE cwd.path # <<>>
  <2> DEFINE entry == Overwritten(cwd.path[Len(cwd.path)], -new)
             path == [cwd.path EXCEPT ![Len(cwd.path)] = entry]
  <2>1. cwd' = Fat(path) /\ root_cluster' = root_cluster
    BY <1>9 DEF CreateOnDisk
  <2>2. IsSeq(path) /\ path # <<>> /\ path[Len(path)] = entry
    <3> HIDE DEF entry
    <3> QED BY <1>2, <1>9, LastReplaced
  <2>3. entry.flags = "DIR"
    <3>1. cwd.path[Len(cwd.path)].flags = "DIR"
      BY <1>2, <1>9 DEF FilesInv, Flags, Found
    <3> QED BY <3>1 DEF Overwritten
  <2> HIDE DEF entry, path
  <2>4. cwd'.path = path /\ cwd'.fs = "fat"
    BY <2>1 DEF Fat
  <2>5. Place(cwd)' /\ (cwd \notin {Null, Endless})'
    BY <2>1, <2>2, <2>4 DEF Place, Null, Endless
  <2>6. (Flags(cwd) = "DIR")'
    BY <2>2, <2>3, <2>4 DEF Flags, Found
  <2>7. MountRoot(node_pool, root_cluster, disk)'
    BY <1>4, <1>6, <1>10, <2>1, MountRootKept DEF FilesInv
  <2>8. FilesInv'
    BY <1>4, <1>5, <1>6, <2>5, <2>6, <2>7 DEF FilesInv
  <2> QED BY <1>7, <2>1, <2>8
<1> QED BY <1>8, <1>9

(* cat, ls, a command that never returns and no step at all change none of  *)
(* this.                                                                    *)
LEMMA ShowKeeps ==
    ASSUME FilesInv, UNCHANGED <<node_pool, cwd, disk, root_cluster, writes>>,
           machine' \in {"up", "fault", "loop"}
    PROVE  FilesInv' /\ NamesKept /\ root_cluster' = root_cluster
<1>1. Place(cwd)' /\ (cwd \notin {Null, Endless})' /\ (Flags(cwd) = "DIR")'
  BY DEF FilesInv, Place, Flags, Null, Endless
<1>2. MountRoot(node_pool, root_cluster, disk)'
  BY DEF FilesInv, MountRoot
<1> QED BY <1>1, <1>2 DEF FilesInv, NamesKept

(* cd leads to a directory of a place.                                      *)
LEMMA CdKeeps ==
    ASSUME FilesInv, NEW path \in Paths, NEW bad, ShellCd(path, bad)
    PROVE  FilesInv' /\ NamesKept /\ root_cluster' = root_cluster
<1> DEFINE dir == vfs_resolve_relative(cwd, path, bad)
<1>1. Place(dir)
  BY ResolvePlace DEF FilesInv
<1>2. CdTo(dir) \/ NeverReturns
  BY DEF ShellCd
<1> HIDE DEF dir
<1>3. CASE NeverReturns
  BY <1>3, ShowKeeps DEF NeverReturns
<1>4. CASE CdTo(dir)
  <2>1. /\ cwd' = dir /\ dir \notin {Null, Endless} /\ Flags(dir) = "DIR"
        /\ UNCHANGED <<node_pool, disk, root_cluster, machine, writes>>
    BY <1>4 DEF CdTo
  <2>2. Place(cwd)'
    BY <1>1, <2>1 DEF Place
  <2>3. (Flags(cwd) = "DIR")' /\ (cwd \notin {Null, Endless})'
    BY <2>1 DEF Flags, Null, Endless
  <2>4. MountRoot(node_pool, root_cluster, disk)'
    BY <2>1 DEF FilesInv, MountRoot
  <2> QED BY <2>1, <2>2, <2>3, <2>4 DEF FilesInv, NamesKept
<1> QED BY <1>2, <1>3, <1>4

(* write changes one file of cwd.                                           *)
LEMMA WriteInv ==
    ASSUME FilesInv, NEW name, NEW length \in Lengths, NEW bad, ShellWrite(name, length, bad)
    PROVE  FilesInv' /\ NamesKept /\ root_cluster' = root_cluster
<1> DEFINE file == finddir(cwd, name, bad)
<1>1. UNCHANGED <<cwd, disk, root_cluster>>
  BY DEF ShellWrite, WriteTo, NeverReturns
<1>2. CASE machine' \in {"fault", "loop"} /\ UNCHANGED <<node_pool, writes>>
  BY <1>1, <1>2, ShowKeeps
<1>3. CASE /\ file.fs = "ram" /\ UNCHANGED machine
           /\ node_pool' = ramfs_write(node_pool, file.node, length, Len(writes[file.node]) + 1)
           /\ writes' = [writes EXCEPT ![file.node] = Append(writes[file.node], length)]
  <2> DEFINE n == ramfs_finddir(node_pool, cwd.node, name)
  <2>1. PoolOK(node_pool) /\ AllNewest(node_pool, writes)
    BY DEF FilesInv
  <2>2. file = Ram(n) /\ n # nullptr /\ cwd.fs = "ram"
    <3>1. file \in {Null, Endless, Ram(n)} \/ \E path : file = Fat(path)
      BY DEF finddir
    <3>2. file.fs # "ram" \/ (n # nullptr /\ cwd.fs = "ram")
      BY DEF finddir, Null, Endless, Fat
    <3> HIDE DEF file, n
    <3>3. n # nullptr /\ cwd.fs = "ram"
      BY <1>3, <3>2
    <3>4. \A path : Null.fs # "ram" /\ Endless.fs # "ram" /\ Fat(path).fs # "ram"
      BY DEF Null, Endless, Fat
    <3> QED BY <1>3, <3>1, <3>3, <3>4
  <2>3. PICK V \in SUBSET DOMAIN node_pool : Reached(node_pool, V) /\ cwd.node \in V
    BY <2>2, CwdCases
  <2>4. cwd = Ram(cwd.node) /\ cwd.node \in DOMAIN node_pool
    BY <2>2, <2>3, CwdCases
  <2>5. n \in DOMAIN node_pool
    <3>1. IsLast(n, Named(node_pool, cwd.node, name))
      BY <2>1, <2>4, FinddirLast
    <3> HIDE DEF n
    <3> QED BY <2>2, <3>1 DEF IsLast, Named, Kids
  <2> HIDE DEF n
  <2>6. file.node = n
    BY <2>2 DEF Ram
  <2> HIDE DEF file
  <2>7. length \in Nat /\ Len(writes[n]) + 1 \in Nat
    <3>1. writes \in Seq(Seq(Nat)) /\ n \in 1..Len(writes)
      BY <2>1, <2>5, PoolFacts DEF AllNewest
    <3>2. writes[n] \in Seq(Nat)
      BY <3>1, ElementOfSeq
    <3>3. Len(writes[n]) \in Nat
      BY <3>2, LenProperties
    <3> QED BY <3>3, FilesAssumption
  <2>8. /\ PoolOK(node_pool')
        /\ \A d, nm : Named(node_pool', d, nm) = Named(node_pool, d, nm)
        /\ Reached(node_pool', V)
    BY <1>3, <2>1, <2>3, <2>5, <2>6, <2>7, WriteKeepsLinks
  <2>9. AllNewest(node_pool', writes')
    BY <1>3, <2>1, <2>5, <2>6, <2>7, WriteKeeps
  <2>10. ASSUME NEW m \in 1..Len(node_pool)
         PROVE  node_pool'[m].flags = node_pool[m].flags /\ node_pool'[m].parent = node_pool[m].parent
    <3> DEFINE new == Written(node_pool[n], length, Len(writes[n]) + 1)
    <3>1. node_pool[n] \in Node
      BY <2>1, <2>5, PoolFacts
    <3>2. new.flags = node_pool[n].flags /\ new.parent = node_pool[n].parent
      BY <2>7, <3>1, WrittenIs
    <3> HIDE DEF new
    <3>3. node_pool'[m] = IF m = n THEN new ELSE node_pool[m]
      BY <1>3, <2>1, <2>5, <2>6, <2>7, WriteKeepsLinks DEF new
    <3> QED BY <3>2, <3>3
  <2>11. Place(cwd)'
    <3>1. V \in SUBSET DOMAIN node_pool'
      BY <2>8 DEF Reached
    <3> QED BY <1>1, <2>3, <2>4, <2>8, <3>1 DEF Place
  <2>12. (cwd \notin {Null, Endless})' /\ (Flags(cwd) = "DIR")'
    <3>1. cwd.node \in 1..Len(node_pool)
      BY <2>1, <2>4, PoolFacts
    <3> QED BY <1>1, <2>2, <2>10, <3>1 DEF FilesInv, Flags, Null, Endless
  <2>14. MountRoot(node_pool, root_cluster, disk)'
    <3>1. DOMAIN node_pool' = DOMAIN node_pool /\ DOMAIN node_pool = 1..Len(node_pool)
      BY <1>3, <2>1, PoolFacts DEF ramfs_write
    <3> QED BY <1>1, <2>10, <3>1, MountRootKept DEF FilesInv
  <2>13. FilesInv'
    BY <1>1, <1>3, <2>8, <2>9, <2>11, <2>12, <2>14 DEF FilesInv
  <2> QED BY <1>1, <2>8, <2>13 DEF NamesKept
<1>4. WriteTo(file, length) \/ NeverReturns
  BY DEF ShellWrite
<1>5. CASE NeverReturns
  BY <1>2, <1>5 DEF NeverReturns
<1>6. CASE WriteTo(file, length)
  <2> HIDE DEF file
  <2> QED BY <1>2, <1>3, <1>6 DEF WriteTo
<1> QED BY <1>4, <1>5, <1>6

(* What cat and ls change, apart from what they show.                       *)
LEMMA CatKeeps ==
    ASSUME NEW name, NEW bad, ShellCat(name, bad)
    PROVE  UNCHANGED <<node_pool, cwd, disk, root_cluster, writes>> /\ machine' \in {machine, "loop"}
<1> DEFINE file == finddir(cwd, name, bad)
<1>1. CatOf(file, bad) \/ NeverReturns
  BY DEF ShellCat
<1> HIDE DEF file
<1>2. ASSUME NEW of, NEW size, NEW faults, NEW list, Shows("cat", of, size, faults, list)
      PROVE  UNCHANGED <<node_pool, cwd, disk, root_cluster, writes, machine>>
  BY <1>2 DEF Shows
<1>3. CASE CatOf(file, bad)
  <2>1. NeverReturns \/ \E of, size, faults, list : Shows("cat", of, size, faults, list)
    BY <1>3 DEF CatOf, CatRead
  <2> QED BY <1>2, <2>1 DEF NeverReturns
<1> QED BY <1>1, <1>3 DEF NeverReturns

(* Likewise.                                                                *)
LEMMA LsKeeps ==
    ASSUME NEW bad, ShellLs(bad)
    PROVE  UNCHANGED <<node_pool, cwd, disk, root_cluster, writes>> /\ machine' \in {machine, "loop"}
BY DEF ShellLs, Shows, NeverReturns

(* What every step keeps.                                                   *)
StepKeeps ==
    /\ FilesInv' /\ NamesKept
    /\ root_cluster' # root_cluster => cwd = Fat(<<>>) /\ node_pool' # node_pool

(* Every command keeps FilesInv, changes what names stand for only as       *)
(* NamesKept says, and the root of the mount only by a creation in it.      *)
LEMMA FilesNextInv == FilesInv /\ [Next]_vars => StepKeeps
<1> SUFFICES ASSUME FilesInv, [Next]_vars PROVE StepKeeps
  OBVIOUS
<1>1. ASSUME NEW name \in NewNames, NEW flags \in {"FILE", "DIR"}, CreateOnDisk(name, flags)
      PROVE  node_pool' # node_pool
  <2>1. PoolOK(node_pool) /\ name \in Names
    BY FilesAssumption DEF FilesInv
  <2>2. Len(node_pool') = Len(node_pool) + 1
    BY <1>1, <2>1, PointerIsLink, LooseIs DEF CreateOnDisk
  <2>3. Len(node_pool) \in Nat
    BY <2>1, PoolFacts
  <2> QED BY <2>2, <2>3
<1>2. ASSUME NEW name \in NewNames, ShellTouch(name) PROVE StepKeeps
  <2>1. CASE cwd.fs = "ram"
    <3>1. FilesInv' /\ NamesKept
      BY <1>2, <2>1, MakeInTree DEF ShellTouch, ramfs_create_file
    <3> QED BY <1>2, <2>1, <3>1 DEF ShellTouch, StepKeeps
  <2>2. CASE cwd.fs # "ram"
    <3>1. CreateOnDisk(name, "FILE")
      BY <1>2, <2>2 DEF ShellTouch
    <3>2. FilesInv' /\ NamesKept /\ (root_cluster' # root_cluster => cwd = Fat(<<>>))
      BY <1>2, <2>2, <3>1, MakeOnDisk DEF ShellTouch
    <3> QED BY <1>1, <3>1, <3>2 DEF StepKeeps
  <2> QED BY <2>1, <2>2
<1>3. ASSUME NEW name \in NewNames, ShellMkdir(name) PROVE StepKeeps
  <2>1. CASE cwd.fs = "ram"
    <3>1. FilesInv' /\ NamesKept
      BY <1>3, <2>1, MakeInTree DEF ShellMkdir, ramfs_create_dir
    <3> QED BY <1>3, <2>1, <3>1 DEF ShellMkdir, StepKeeps
  <2>2. CASE cwd.fs # "ram"
    <3>1. CreateOnDisk(name, "DIR")
      BY <1>3, <2>2 DEF ShellMkdir
    <3>2. FilesInv' /\ NamesKept /\ (root_cluster' # root_cluster => cwd = Fat(<<>>))
      BY <1>3, <2>2, <3>1, MakeOnDisk DEF ShellMkdir
    <3> QED BY <1>1, <3>1, <3>2 DEF StepKeeps
  <2> QED BY <2>1, <2>2
<1>4. ASSUME NEW path \in Paths, NEW bad, ShellCd(path, bad) PROVE StepKeeps
  BY <1>4, CdKeeps DEF StepKeeps
<1>5. ASSUME NEW name, NEW length \in Lengths, NEW bad, ShellWrite(name, length, bad) PROVE StepKeeps
  BY <1>5, WriteInv DEF StepKeeps
<1>6. ASSUME NEW name, NEW bad, ShellCat(name, bad) PROVE StepKeeps
  BY <1>6, CatKeeps, ShowKeeps DEF StepKeeps, FilesInv
<1>7. ASSUME NEW bad, ShellLs(bad) PROVE StepKeeps
  BY <1>7, LsKeeps, ShowKeeps DEF StepKeeps, FilesInv
<1>8. CASE UNCHANGED vars
  BY <1>8, ShowKeeps DEF vars, StepKeeps, FilesInv
<1> QED BY <1>2, <1>3, <1>4, <1>5, <1>6, <1>7, <1>8 DEF Next

-----------------------------------------------------------------------------
(* The theorems *)

(* FilesInv holds in every reachable state.                                 *)
THEOREM FilesInvariant == Spec => []FilesInv
<1>1. FilesInv /\ [Next]_vars => FilesInv'
  BY FilesNextInv DEF StepKeeps
<1> QED BY FilesInitInv, <1>1, PTL DEF Spec

(* Types: node_pool never outgrows its array nor a file its data, cwd is a  *)
(* directory, and no creation on the disk, where ramfs_create_* stores the  *)
(* address of a node for a cluster and the other way round, makes a link of *)
(* a node of the tree lead out of it.                                       *)
THEOREM FilesTypesCorrect == Spec => []TypeOK
BY FilesInvariant, InvTypes, PTL

(* The lists of children are a tree.                                        *)
LEMMA InvTree == FilesInv => TreeOK
<1> SUFFICES ASSUME FilesInv PROVE TreeOK
  OBVIOUS
<1> DEFINE list(d) == Children(node_pool, d)
<1>1. PoolOK(node_pool) /\ Nodes = DOMAIN node_pool
  BY DEF FilesInv, Nodes
<1>2. ASSUME NEW d \in Nodes
      PROVE  /\ DOMAIN list(d) \subseteq Nat
             /\ \A k \in DOMAIN list(d) : list(d)[k] \in Kids(node_pool, d)
             /\ \A j, k \in DOMAIN list(d) : j < k => list(d)[k] < list(d)[j]
             /\ \A n \in Kids(node_pool, d) : \E k \in DOMAIN list(d) : list(d)[k] = n
  <2>1. PICK turns \in 0..Len(node_pool) : DOMAIN list(d) = 1..turns
    BY <1>1, ChildrenFall
  <2>2. turns \in Nat
    BY <1>1, PoolFacts
  <2> QED BY <1>1, <2>1, <2>2, ChildrenFall
<1> HIDE DEF list
<1>3. \A n \in Nodes : node_pool[n] \in Node /\ LinksOK(node_pool, n) /\ n \in Nat /\ n # outside
  BY <1>1, PoolFacts DEF outside
<1>4. \A d : Kids(node_pool, d) \subseteq Nodes \ {root_node}
  BY <1>1 DEF Kids
<1>5. ASSUME NEW d \in Nodes PROVE IsInjective(list(d))
  <2>1. ASSUME NEW j \in DOMAIN list(d), NEW k \in DOMAIN list(d), j < k
        PROVE  list(d)[j] # list(d)[k]
    <3>1. list(d)[k] < list(d)[j] /\ list(d)[k] \in Nat
      BY <1>2, <1>3, <1>4, <2>1
    <3> QED BY <3>1
  <2>2. ASSUME NEW j \in DOMAIN list(d), NEW k \in DOMAIN list(d), list(d)[j] = list(d)[k]
        PROVE  j = k
    <3>1. j \in Nat /\ k \in Nat
      BY <1>2
    <3>2. ~(j < k) /\ ~(k < j)
      BY <2>1, <2>2
    <3> QED BY <3>1, <3>2
  <2> QED BY <2>2 DEF IsInjective
<1>6. ASSUME NEW d \in Nodes, list(d) # <<>> PROVE d \in Directories \cap TreeNodes
  <2>1. DOMAIN list(d) # {}
    <3>1. PICK turns \in 0..Len(node_pool) : DOMAIN list(d) = 1..turns
      BY <1>1, ChildrenFall DEF list
    <3>2. \E m \in Nat : list(d) = [k \in 1..m |-> Cur(node_pool, d)[k - 1]]
      <4>1. turns \in Nat
        BY <1>1, PoolFacts
      <4>2. list(d) = [k \in DOMAIN list(d) |-> Cur(node_pool, d)[k - 1]]
        BY DEF list, Children
      <4> QED BY <3>1, <4>1, <4>2
    <3>3. PICK m \in Nat : list(d) = [k \in 1..m |-> Cur(node_pool, d)[k - 1]]
      BY <3>2
    <3>4. m # 0
      <4> SUFFICES ASSUME m = 0 PROVE FALSE
        OBVIOUS
      <4>1. 1..m = {}
        OBVIOUS
      <4>2. list(d) = <<>>
        BY <3>3, <4>1
      <4> QED BY <1>6, <4>2
    <3>5. 1 \in 1..m
      BY <3>4
    <3> QED BY <3>3, <3>5
  <2>2. PICK n \in Kids(node_pool, d) : TRUE
    BY <1>2, <2>1
  <2>3. n \in Nodes /\ n # root_node /\ node_pool[n].parent = d
    BY <1>4 DEF Kids
  <2>4. TreeDir(node_pool, d)
    BY <1>3, <2>3 DEF LinksOK
  <2> QED BY <2>4 DEF Directories, TreeNodes, TreeDir
<1>7. ASSUME NEW n \in Nodes \ {root_node}
      PROVE  {d \in Nodes : \E k \in DOMAIN list(d) : list(d)[k] = n}
                = {node_pool[n].parent} \ {outside}
  <2>1. ASSUME NEW d \in Nodes, NEW k \in DOMAIN list(d), list(d)[k] = n
        PROVE  d = node_pool[n].parent /\ d # outside
    BY <1>2, <1>3, <2>1 DEF Kids
  <2>2. ASSUME node_pool[n].parent # outside
        PROVE  /\ node_pool[n].parent \in Nodes
               /\ \E k \in DOMAIN list(node_pool[n].parent) :
                     list(node_pool[n].parent)[k] = n
    <3>1. node_pool[n].parent \in Nodes
      BY <1>1, <2>2, PoolFacts, ParentIs
    <3>2. n \in Kids(node_pool, node_pool[n].parent)
      BY <1>1 DEF Kids
    <3> QED BY <1>2, <3>1, <3>2
  <2> QED BY <2>1, <2>2
<1> QED BY <1>5, <1>6, <1>7 DEF TreeOK, list

(* ramfs_create_file and ramfs_create_dir, wherever the shell is, leave the *)
(* lists of children a tree.                                                *)
THEOREM ListsAreTree == Spec => []TreeOK
BY FilesInvariant, InvTree, PTL

(* ramfs_write: a byte is the newest write's that reached it.               *)
THEOREM NewestIsKept == Spec => []FileKeepsNewest
<1>1. FilesInv => FileKeepsNewest
  <2> SUFFICES ASSUME FilesInv PROVE FileKeepsNewest
    OBVIOUS
  <2>1. Nodes = 1..Len(node_pool)
    BY PoolFacts DEF FilesInv, Nodes
  <2>2. \A n \in 1..Len(node_pool) : Newest(node_pool[n], writes[n])
    BY DEF FilesInv, AllNewest
  <2> QED BY <2>1, <2>2 DEF FileKeepsNewest, Newest
<1> QED BY FilesInvariant, <1>1, PTL

(* No command takes a node away.                                            *)
LEMMA PoolGrows ==
    ASSUME FilesInv, [Next]_vars
    PROVE  DOMAIN node_pool \subseteq DOMAIN node_pool'
<1>1. FilesInv'
  BY FilesNextInv DEF StepKeeps
<1>2. writes \in Seq(Seq(Nat)) /\ Len(writes) = Len(node_pool) /\ Len(writes') = Len(node_pool')
  BY <1>1 DEF FilesInv, AllNewest
<1>3. /\ DOMAIN node_pool = 1..Len(node_pool) /\ Len(node_pool) \in Nat
      /\ DOMAIN node_pool' = 1..Len(node_pool') /\ Len(node_pool') \in Nat
  BY <1>1, PoolFacts DEF FilesInv
<1>4. \/ writes' = Append(writes, <<>>) \/ node_pool' = node_pool
      \/ \E n, length, id : node_pool' = ramfs_write(node_pool, n, length, id)
  <2>1. ASSUME NEW name, ShellTouch(name) \/ ShellMkdir(name)
        PROVE  writes' = Append(writes, <<>>)
    BY <2>1 DEF ShellTouch, ShellMkdir
  <2>2. ASSUME NEW path, NEW bad, ShellCd(path, bad) PROVE node_pool' = node_pool
    BY <2>2 DEF ShellCd, CdTo, NeverReturns
  <2>3. ASSUME NEW name, NEW bad, ShellCat(name, bad) PROVE node_pool' = node_pool
    BY <2>3, CatKeeps
  <2>4. ASSUME NEW name, NEW length, NEW bad, ShellWrite(name, length, bad)
        PROVE  \/ node_pool' = node_pool
               \/ \E n, id : node_pool' = ramfs_write(node_pool, n, length, id)
    <3>1. \A file : WriteTo(file, length) =>
             \/ node_pool' = node_pool
             \/ \E n, id : node_pool' = ramfs_write(node_pool, n, length, id)
      BY DEF WriteTo
    <3> QED BY <2>4, <3>1 DEF ShellWrite, NeverReturns
  <2>5. ASSUME NEW bad, ShellLs(bad) PROVE node_pool' = node_pool
    BY <2>5, LsKeeps
  <2>6. UNCHANGED vars => node_pool' = node_pool
    BY DEF vars
  <2> QED BY <2>1, <2>2, <2>3, <2>4, <2>5, <2>6 DEF Next
<1>5. CASE writes' = Append(writes, <<>>)
  <2>1. <<>> \in Seq(Nat)
    OBVIOUS
  <2>2. Len(writes') = Len(writes) + 1
    BY <1>2, <1>5, <2>1, AppendProperties
  <2> QED BY <1>2, <1>3, <2>2
<1>6. CASE \E n, length, id : node_pool' = ramfs_write(node_pool, n, length, id)
  BY <1>6 DEF ramfs_write
<1> QED BY <1>4, <1>5, <1>6

(* A command changes what a name stands for only in cwd, to a new node.     *)
THEOREM NamesAreStable == Spec => LookupStable
<1> DEFINE A == /\ \A d \in Directories : \A name \in NewNames :
                      LET before == ramfs_finddir(node_pool, d, name)
                          after == ramfs_finddir(node_pool', d, name)
                      IN  before # after => cwd = Ram(d) /\ after = Len(node_pool')
                /\ root_cluster' # root_cluster => cwd = Fat(<<>>) /\ node_pool' # node_pool
<1>1. FilesInv /\ [Next]_vars => A
  <2> SUFFICES ASSUME FilesInv, [Next]_vars PROVE A
    OBVIOUS
  <2>1. FilesInv' /\ NamesKept
        /\ (root_cluster' # root_cluster => cwd = Fat(<<>>) /\ node_pool' # node_pool)
    BY FilesNextInv DEF StepKeeps
  <2>2. PoolOK(node_pool) /\ PoolOK(node_pool')
    BY <2>1 DEF FilesInv
  <2>3. ASSUME NEW d \in Directories, NEW name \in NewNames,
               ramfs_finddir(node_pool, d, name) # ramfs_finddir(node_pool', d, name)
        PROVE  cwd = Ram(d) /\ ramfs_finddir(node_pool', d, name) = Len(node_pool')
    <3> DEFINE before == ramfs_finddir(node_pool, d, name)
               after == ramfs_finddir(node_pool', d, name)
               old == Named(node_pool, d, name)
               new == Named(node_pool', d, name)
    <3>1. d \in DOMAIN node_pool
      BY DEF Directories, Nodes
    <3>2. old \subseteq Nat /\ new \subseteq Nat /\ new \subseteq DOMAIN node_pool'
      BY <2>2, PoolFacts DEF Named, Kids
    <3>3. IsLast(before, old)
      BY <2>2, <3>1, FinddirLast
    <3>4. ASSUME d \in DOMAIN node_pool' PROVE IsLast(after, new)
      BY <2>2, <3>4, FinddirLast
    <3>5. d \in DOMAIN node_pool'
      BY <3>1, PoolGrows
    <3> HIDE DEF before, after
    <3>6. old # new
      BY <2>3, <3>2, <3>3, <3>4, <3>5, LastUnique DEF before, after
    <3>7. cwd = Ram(d) /\ new = old \cup {Len(node_pool')}
      BY <2>1, <3>1, <3>6 DEF NamesKept
    <3>8. Len(node_pool') \in Nat /\ \A x \in new : x \in Nat /\ x <= Len(node_pool')
      BY <2>2, <3>2, PoolFacts
    <3> HIDE DEF old, new
    <3>9. IsLast(Len(node_pool'), new)
      BY <3>7, <3>8 DEF IsLast
    <3> QED BY <3>2, <3>4, <3>5, <3>7, <3>9, LastUnique DEF after
  <2> QED BY <2>1, <2>3
<1> QED BY FilesInvariant, <1>1, PTL DEF Spec, LookupStable

(* The loop of pwd over the parents: up exists.                             *)
LEMMA UpIs ==
    ASSUME Len(node_pool) \in Nat
    PROVE  Up[0] = cwd.node /\ \A k \in 1..Len(node_pool) : Up[k] = node_pool[Up[k - 1]].parent
<1> DEFINE N == Len(node_pool)
           Loop(f, m) ==
             f = [k \in 0..m |-> IF k = 0 THEN cwd.node ELSE node_pool[f[k - 1]].parent]
           Stuck == {m \in 0..N : ~\E f : Loop(f, m)}
<1>1. Stuck = {}
  <2> SUFFICES ASSUME Stuck # {} PROVE FALSE
    OBVIOUS
  <2>1. PICK m \in Stuck : \A j \in Stuck : m <= j
    <3>1. Stuck \subseteq Nat
      OBVIOUS
    <3> HIDE DEF Stuck
    <3> QED BY <3>1, LeastNumber
  <2>2. m \in 0..N /\ m \in Nat /\ ~\E f : Loop(f, m)
    OBVIOUS
  <2>3. \A j \in 0..N : ~(m <= j) => \E f : Loop(f, j)
    BY <2>1
  <2> HIDE DEF Stuck
  <2>4. m # 0
    <3>1. Loop([k \in 0..0 |-> cwd.node], 0)
      OBVIOUS
    <3> QED BY <2>2, <3>1
  <2>5. m - 1 \in 0..N /\ ~(m <= m - 1)
    BY <2>2, <2>4
  <2>6. PICK f : Loop(f, m - 1)
    BY <2>3, <2>5
  <2> DEFINE last == node_pool[f[m - 1]].parent
             g == [k \in 0..m |-> IF k = m THEN last ELSE f[k]]
  <2>7. ASSUME NEW k \in 0..m
        PROVE  g[k] = IF k = 0 THEN cwd.node ELSE node_pool[g[k - 1]].parent
    <3>1. k # 0 => g[k - 1] = f[k - 1]
      BY <2>2
    <3>2. CASE k = m
      BY <2>4, <3>1, <3>2
    <3>3. CASE k # m
      <4>1. k \in 0..(m - 1) /\ g[k] = f[k]
        BY <2>2, <3>3
      <4>2. f[k] = IF k = 0 THEN cwd.node ELSE node_pool[f[k - 1]].parent
        BY <2>6, <4>1
      <4> HIDE DEF g, Loop
      <4> QED BY <3>1, <4>1, <4>2
    <3> QED BY <3>2, <3>3
  <2>8. Loop(g, m)
    <3> HIDE DEF last
    <3> QED BY <2>7
  <2> QED BY <2>2, <2>8
<1>2. \E f : Loop(f, N)
  BY <1>1
<1>3. Loop(Up, N)
  BY <1>2 DEF Up
<1> DEFINE up == Up
           F == [k \in 0..N |-> IF k = 0 THEN cwd.node ELSE node_pool[up[k - 1]].parent]
<1>4. up = F
  BY <1>3
<1> HIDE DEF up, Loop
<1>5. F[0] = cwd.node /\ \A k \in 1..N : F[k] = node_pool[up[k - 1]].parent
  OBVIOUS
<1> HIDE DEF F
<1>6. up[0] = cwd.node /\ \A k \in 1..N : up[k] = node_pool[up[k - 1]].parent
  BY <1>4, <1>5
<1> QED BY <1>6 DEF up

(* From cwd the loop of pwd climbs through nodes of V, and ends at the root *)
(* or after PWD_LEVELS.                                                     *)
LEMMA Climb ==
    ASSUME PoolOK(node_pool), NEW V, Reached(node_pool, V), cwd.node \in V
    PROVE  \E levels \in 0..Len(node_pool) :
              /\ pwd = [i \in 1..levels |-> node_pool[Up[levels - i]].name]
              /\ Up[0] = cwd.node /\ (levels < PWD_LEVELS => Up[levels] = root_node)
              /\ \A k \in 0..(levels - 1) :
                    /\ Up[k] \in V /\ Up[k] # root_node
                    /\ node_pool[Up[k]].parent = Up[k + 1]
<1> DEFINE N == Len(node_pool)
           up == Up
           Low(k) == up[k] \in V /\ (up[k] = root_node \/ up[k] <= N - k)
           High == {k \in 0..N : ~Low(k)}
<1>1. N \in Nat /\ 1 <= N /\ V \subseteq 1..N
  BY PoolFacts DEF Reached
<1>2. up[0] = cwd.node /\ \A k \in 1..N : up[k] = node_pool[up[k - 1]].parent
  BY <1>1, UpIs
<1>3. ASSUME NEW n \in V
      PROVE  /\ node_pool[n].parent \in V /\ n \in Nat /\ node_pool[n].parent \in Nat
             /\ n # root_node => node_pool[n].parent < n
             /\ n = root_node => node_pool[n].parent = root_node
  <2>1. node_pool[n].parent \in V
    BY DEF Reached
  <2>2. n \in Nat /\ node_pool[n].parent \in Nat
    <3>1. n \in 1..N /\ node_pool[n].parent \in 1..N
      BY <1>1, <2>1
    <3> QED BY <1>1, <3>1
  <2>3. n = root_node => node_pool[n].parent = root_node
    BY RootReached
  <2>4. n # root_node => node_pool[n].parent < n
    BY ReachedIsFound
  <2> QED BY <2>1, <2>2, <2>3, <2>4
<1> HIDE DEF up
<1>4. High = {}
  <2> SUFFICES ASSUME High # {} PROVE FALSE
    OBVIOUS
  <2>1. PICK m \in High : \A j \in High : m <= j
    <3>1. High \subseteq Nat
      OBVIOUS
    <3> HIDE DEF High
    <3> QED BY <3>1, LeastNumber
  <2>2. m \in 0..N /\ m \in Nat /\ ~Low(m)
    OBVIOUS
  <2>3. m # 0
    <3>1. up[0] \in V /\ up[0] \in 1..N
      BY <1>1, <1>2
    <3>2. up[0] <= N - 0
      BY <1>1, <3>1
    <3> QED BY <2>2, <3>1, <3>2
  <2>4. m - 1 \in 0..N /\ m - 1 \notin High
    BY <1>1, <2>1, <2>2, <2>3
  <2>5. Low(m - 1)
    BY <2>4
  <2>6. up[m] = node_pool[up[m - 1]].parent
    BY <1>2, <2>2, <2>3
  <2> DEFINE n == up[m - 1]
  <2>7. up[m] \in V /\ (n = root_node => up[m] = root_node) /\ (n # root_node => up[m] < n)
        /\ n \in Nat /\ up[m] \in Nat
    BY <1>3, <2>5, <2>6
  <2>8. n = root_node \/ n <= N - (m - 1)
    BY <2>5
  <2> HIDE DEF n
  <2> QED BY <1>1, <2>2, <2>7, <2>8
<1>5. \A k \in 0..N : Low(k)
  BY <1>4
<1> HIDE DEF High
<1> DEFINE Tops == {k \in 0..N : k = PWD_LEVELS \/ node_pool[up[k]].parent = up[k]}
           levels == Min(Tops)
<1>6. Tops \subseteq Nat /\ N \in Tops
  <2>1. up[N] = root_node
    <3>1. up[N] \in V /\ (up[N] = root_node \/ up[N] <= N - N)
      BY <1>1, <1>5
    <3>2. up[N] \in 1..N
      BY <1>1, <3>1
    <3> QED BY <1>1, <3>1, <3>2
  <2>2. node_pool[up[N]].parent = up[N]
    BY <2>1, RootReached
  <2> QED BY <1>1, <2>2
<1>7. levels \in Tops /\ \A k \in Tops : levels <= k
  <2> HIDE DEF Tops
  <2> QED BY <1>6, MinIs
<1>8. levels \in 0..N /\ (levels = PWD_LEVELS \/ node_pool[up[levels]].parent = up[levels])
  BY <1>7
<1>9. \A k \in 0..N : node_pool[up[k]].parent = up[k] => levels <= k
  BY <1>7
<1>10. pwd = [i \in 1..levels |-> node_pool[up[levels - i]].name]
  BY DEF pwd, up
<1> HIDE DEF levels, Tops
<1>11. levels < PWD_LEVELS => up[levels] = root_node
  <2> SUFFICES ASSUME levels < PWD_LEVELS PROVE up[levels] = root_node
    OBVIOUS
  <2>1. up[levels] \in V
    BY <1>5, <1>8
  <2>2. ~(up[levels] < up[levels])
    BY <1>3, <2>1
  <2>3. levels # PWD_LEVELS
    BY <1>1, <1>8
  <2> QED BY <1>3, <1>8, <2>1, <2>2, <2>3
<1>12. ASSUME NEW k \in 0..(levels - 1)
       PROVE  up[k] \in V /\ up[k] # root_node /\ node_pool[up[k]].parent = up[k + 1]
  <2>1. k \in 0..N /\ k + 1 \in 1..N /\ ~(levels <= k) /\ (k + 1) - 1 = k
    BY <1>1, <1>8
  <2>2. node_pool[up[k]].parent # up[k]
    BY <1>9, <2>1
  <2>3. up[k] \in V
    BY <1>5, <2>1
  <2>4. up[k + 1] = node_pool[up[(k + 1) - 1]].parent
    BY <1>2, <2>1
  <2> QED BY <1>3, <2>1, <2>2, <2>3, <2>4
<1>13. /\ pwd = [i \in 1..levels |-> node_pool[up[levels - i]].name]
       /\ up[0] = cwd.node /\ (levels < PWD_LEVELS => up[levels] = root_node)
       /\ \A k \in 0..(levels - 1) :
             up[k] \in V /\ up[k] # root_node /\ node_pool[up[k]].parent = up[k + 1]
  BY <1>2, <1>10, <1>11, <1>12
<1> QED BY <1>8, <1>13 DEF up

(* The path pwd prints leads from where the climb ended to cwd.             *)
LEMMA InvPwd == FilesInv => PwdLeadsBack
<1> SUFFICES ASSUME FilesInv, cwd.fs = "ram"
             PROVE  /\ Walk(Ram(Up[Len(pwd)]), pwd, {}) = cwd
                    /\ Len(pwd) < PWD_LEVELS => Up[Len(pwd)] = root_node
  BY DEF PwdLeadsBack
<1>1. PICK V : Reached(node_pool, V) /\ cwd.node \in V
  BY CwdCases
<1>2. PoolOK(node_pool) /\ cwd = Ram(cwd.node)
  BY CwdCases DEF FilesInv
<1> DEFINE up == Up
<1>3. PICK levels \in 0..Len(node_pool) :
         /\ pwd = [i \in 1..levels |-> node_pool[up[levels - i]].name]
         /\ up[0] = cwd.node /\ (levels < PWD_LEVELS => up[levels] = root_node)
         /\ \A k \in 0..(levels - 1) :
               up[k] \in V /\ up[k] # root_node /\ node_pool[up[k]].parent = up[k + 1]
  BY <1>1, <1>2, Climb
<1> HIDE DEF up
<1>4. levels \in Nat
  BY <1>2, PoolFacts
<1>5. Len(pwd) = levels /\ \A i \in 1..levels : pwd[i] = node_pool[up[levels - i]].name
  BY <1>3, <1>4
<1> DEFINE current == Current(Ram(up[levels]), pwd, {})
           Lost == {i \in 0..levels : current[i] # Ram(up[levels - i])}
<1>6. /\ current[0] = Ram(up[levels])
      /\ \A i \in 1..levels : current[i] = Step(current[i - 1], pwd[i], {})
  <2>1. Len(pwd) \in Nat
    BY <1>4, <1>5
  <2> QED BY <1>5, <2>1, CurrentIs
<1>7. Walk(Ram(up[levels]), pwd, {}) = current[levels]
  BY <1>5 DEF Walk
<1> HIDE DEF current
<1>8. ASSUME NEW n \in V, n # root_node
      PROVE  Step(Ram(node_pool[n].parent), node_pool[n].name, {}) = Ram(n)
  <2> DEFINE d == node_pool[n].parent
             name == node_pool[n].name
  <2>1. ramfs_finddir(node_pool, d, name) = n /\ node_pool[d].flags = "DIR"
    BY <1>1, <1>2, <1>8, ReachedIsFound
  <2>2. name \notin {".", ".."} /\ n # nullptr
    BY <1>1, <1>2, <1>8, PoolFacts DEF Reached, nullptr
  <2>3. Ram(d).fs = "ram" /\ Ram(d).node = d /\ Ram(d) \notin {Null, Endless}
    BY DEF Ram, Null, Endless
  <2> HIDE DEF d, name
  <2>4. Flags(Ram(d)) = "DIR"
    BY <2>1, <2>3 DEF Flags
  <2>5. finddir(Ram(d), name, {}) = Ram(n)
    BY <2>1, <2>2, <2>3, <2>4 DEF finddir
  <2>6. Step(Ram(d), name, {}) = Ram(n)
    BY <2>2, <2>3, <2>5 DEF Step
  <2> QED BY <2>6 DEF d, name
<1>9. Lost = {}
  <2> SUFFICES ASSUME Lost # {} PROVE FALSE
    OBVIOUS
  <2>1. PICK m \in Lost : \A j \in Lost : m <= j
    <3>1. Lost \subseteq Nat
      OBVIOUS
    <3> HIDE DEF Lost
    <3> QED BY <3>1, LeastNumber
  <2>2. m \in 0..levels /\ m \in Nat /\ current[m] # Ram(up[levels - m])
    OBVIOUS
  <2>3. m # 0
    <3>1. levels - 0 = levels
      BY <1>4
    <3> QED BY <1>6, <2>2, <3>1
  <2>4. m - 1 \in 0..levels /\ m - 1 \notin Lost
    BY <1>4, <2>1, <2>2, <2>3
  <2>5. current[m - 1] = Ram(up[levels - (m - 1)])
    BY <2>4
  <2>6. levels - m \in 0..(levels - 1) /\ (levels - m) + 1 = levels - (m - 1) /\ m \in 1..levels
    BY <1>4, <2>2, <2>3
  <2> HIDE DEF Lost
  <2> DEFINE n == up[levels - m]
  <2>7. n \in V /\ n # root_node /\ node_pool[n].parent = up[levels - (m - 1)]
    BY <1>3, <2>6
  <2>8. pwd[m] = node_pool[n].name /\ current[m] = Step(current[m - 1], pwd[m], {})
    BY <1>5, <1>6, <2>6
  <2> QED BY <1>8, <2>2, <2>5, <2>7, <2>8
<1>10. current[levels] = Ram(up[levels - levels]) /\ levels - levels = 0
  BY <1>4, <1>9
<1>11. Walk(Ram(up[levels]), pwd, {}) = cwd
  BY <1>2, <1>3, <1>7, <1>10
<1> QED BY <1>3, <1>5, <1>11 DEF up

(* pwd walks up from cwd, vfs_resolve_relative down: the one's path is the  *)
(* other's, whatever touch and mkdir have hidden in between.                *)
THEOREM PwdIsThePath == Spec => []PwdLeadsBack
BY FilesInvariant, InvPwd, PTL
=============================================================================
