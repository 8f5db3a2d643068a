---------------------------- MODULE RamfsProofs -----------------------------
(***************************************************************************)
(* node_pool of fs/ramfs.cpp, for every size of the pool and of a file:    *)
(* what creating and writing nodes keeps, and what a lookup finds.         *)
(*                                                                         *)
(* The heart is PoolOK: a node is made behind all others in the pool and   *)
(* before all others in its list, so a list is the children of a directory *)
(* in falling order.  With it a lookup is a greatest number (FinddirLast), *)
(* and the lists are not needed any more.                                  *)
(***************************************************************************)
EXTENDS Ramfs, Lemmas

-----------------------------------------------------------------------------
(* Definitions *)

(* m is the greatest member of S, or nullptr when there is none.            *)
IsLast(m, S) == IF S = {} THEN m = nullptr ELSE m \in S /\ \A x \in S : x <= m

(* The nodes whose parent is d, and those of them with that name.           *)
Kids(pool, d) == {n \in DOMAIN pool \ {root_node} : pool[n].parent = d}
Named(pool, d, name) == {n \in Kids(pool, d) : pool[n].name = name}

(* A directory of the tree, where nodes can be created in it.               *)
TreeDir(pool, d) == pool[d].flags = "DIR" /\ pool[d].parent # outside

(* The links of one node: parents and later siblings come first in the      *)
(* pool, a parent is a directory of the tree, and the links lead through    *)
(* the children in falling order.  Of a node created on the disk only the   *)
(* list of its children, which is empty, is followed.                       *)
LinksOK(pool, n) ==
    /\ IsLast(pool[n].first_child, Kids(pool, n))
    /\ IF n = root_node
       THEN pool[n].parent = root_node /\ pool[n].next_sibling = nullptr
            /\ pool[n].flags = "DIR"
       ELSE /\ pool[n].parent < n /\ pool[n].parent # nullptr
            /\ pool[n].parent # outside =>
                  /\ TreeDir(pool, pool[n].parent)
                  /\ IsLast(pool[n].next_sibling, {m \in Kids(pool, pool[n].parent) : m < n})

PoolOK(pool) ==
    /\ pool \in Seq(Node) /\ Len(pool) \in 1..MAX_NODES
    /\ \A n \in DOMAIN pool : LinksOK(pool, n)

(* V holds the root, the parent of each of its nodes, and no node that a    *)
(* newer one of the same name hides or that a path cannot name.             *)
Reached(pool, V) ==
    /\ V \subseteq DOMAIN pool /\ root_node \in V
    /\ \A n \in V : pool[n].parent \in V
    /\ \A n \in V \ {root_node} :
          /\ pool[n].name \notin {".", ".."}
          /\ \A m \in Named(pool, pool[n].parent, pool[n].name) : m <= n

-----------------------------------------------------------------------------
(* Numbers *)

(* A bounded set of numbers has a greatest member.                          *)
LEMMA GreatestNumber ==
    ASSUME NEW S, S \subseteq Nat, S # {}, NEW b \in Nat, \A x \in S : x <= b
    PROVE  \E x \in S : \A y \in S : y <= x
<1> DEFINE D == {b - x : x \in S}
<1>1. D \subseteq Nat /\ D # {}
  <2>1. ASSUME NEW x \in S PROVE b - x \in Nat
    <3>1. x \in Nat /\ x <= b
      OBVIOUS
    <3> QED BY <3>1
  <2> QED BY <2>1
<1>2. PICK d \in D : \A e \in D : d <= e
  <2> HIDE DEF D
  <2> QED BY <1>1, LeastNumber
<1>3. PICK x \in S : d = b - x
  OBVIOUS
<1>4. ASSUME NEW y \in S PROVE y <= x
  <2>1. b - y \in D /\ x \in Nat /\ y \in Nat
    OBVIOUS
  <2>2. d <= b - y
    BY <1>2, <2>1
  <2> QED BY <1>3, <2>1, <2>2
<1> QED BY <1>4

(* Min and Max, where there is one.                                         *)
LEMMA MinIs ==
    ASSUME NEW S, S \subseteq Nat, S # {}
    PROVE  Min(S) \in S /\ \A y \in S : Min(S) <= y
BY LeastNumber DEF Min

(* The same for the greatest member.                                        *)
LEMMA MaxIs ==
    ASSUME NEW S, S \subseteq Nat, NEW m \in S, \A y \in S : y <= m
    PROVE  Max(S) = m
<1>1. Max(S) \in S /\ \A y \in S : y <= Max(S)
  BY DEF Max
<1>2. m \in Nat /\ Max(S) \in Nat /\ m <= Max(S) /\ Max(S) <= m
  BY <1>1
<1> QED BY <1>1, <1>2

(* There is one last member.                                                *)
LEMMA LastUnique ==
    ASSUME NEW S, S \subseteq Nat, NEW a, NEW b, IsLast(a, S), IsLast(b, S)
    PROVE  a = b
<1>1. CASE S = {}
  BY <1>1 DEF IsLast
<1>2. CASE S # {}
  <2>1. a \in S /\ b \in S /\ a <= b /\ b <= a
    BY <1>2 DEF IsLast
  <2> QED BY <2>1
<1> QED BY <1>1, <1>2

-----------------------------------------------------------------------------
(* The list of children *)

(* PoolOK, read out.                                                        *)
LEMMA PoolFacts ==
    ASSUME NEW pool, PoolOK(pool)
    PROVE  /\ Len(pool) \in Nat /\ 1 <= Len(pool) /\ DOMAIN pool = 1..Len(pool)
           /\ \A n \in 1..Len(pool) : pool[n] \in Node /\ LinksOK(pool, n)
           /\ \A d : Kids(pool, d) \subseteq 2..Len(pool)
BY LenProperties, ElementOfSeq DEF PoolOK, Kids, root_node

(* The loop over the children of d: cur exists,                             *)
LEMMA CurIs ==
    ASSUME NEW pool, NEW d, Len(pool) \in Nat
    PROVE  Cur(pool, d) =
             [k \in 0..Len(pool) |->
                IF k = 0 THEN pool[d].first_child
                ELSE IF Cur(pool, d)[k - 1] = nullptr THEN nullptr
                ELSE pool[Cur(pool, d)[k - 1]].next_sibling]
<1> DEFINE Loop(f, m) ==
             f = [k \in 0..m |->
                    IF k = 0 THEN pool[d].first_child
                    ELSE IF f[k - 1] = nullptr THEN nullptr ELSE pool[f[k - 1]].next_sibling]
           Stuck == {m \in 0..Len(pool) : ~\E f : Loop(f, m)}
<1>1. Stuck = {}
  <2> SUFFICES ASSUME Stuck # {} PROVE FALSE
    OBVIOUS
  <2>1. PICK m \in Stuck : \A j \in Stuck : m <= j
    <3>1. Stuck \subseteq Nat
      OBVIOUS
    <3> HIDE DEF Stuck
    <3> QED BY <3>1, LeastNumber
  <2>2. CASE m = 0
    <3>1. Loop([k \in 0..0 |-> pool[d].first_child], 0)
      OBVIOUS
    <3> QED BY <2>2, <3>1
  <2>3. CASE m # 0
    <3>1. m \in Nat /\ m - 1 \in 0..Len(pool) /\ m - 1 \notin Stuck
      <4>1. m \in 0..Len(pool)
        OBVIOUS
      <4>2. m - 1 \in 0..Len(pool) /\ ~(m <= m - 1)
        BY <2>3, <4>1
      <4> HIDE DEF Stuck
      <4> QED BY <2>1, <4>1, <4>2
    <3>2. PICK f : Loop(f, m - 1)
      BY <3>1
    <3> DEFINE last == IF f[m - 1] = nullptr THEN nullptr ELSE pool[f[m - 1]].next_sibling
               g == [k \in 0..m |-> IF k = m THEN last ELSE f[k]]
    <3>3. Loop(g, m)
      <4>1. \A k \in 0..m : k # 0 => g[k - 1] = f[k - 1]
        BY <3>1
      <4>2. ASSUME NEW k \in 0..m
            PROVE  g[k] = IF k = 0 THEN pool[d].first_child
                          ELSE IF g[k - 1] = nullptr THEN nullptr
                          ELSE pool[g[k - 1]].next_sibling
        <5>1. CASE k = m
          BY <2>3, <4>1, <5>1
        <5>2. CASE k # m
          <6>1. k \in 0..(m - 1)
            BY <3>1, <5>2
          <6>2. f[k] = IF k = 0 THEN pool[d].first_child
                       ELSE IF f[k - 1] = nullptr THEN nullptr
                       ELSE pool[f[k - 1]].next_sibling
            BY <3>2, <6>1
          <6>3. g[k] = f[k]
            BY <5>2
          <6> HIDE DEF g, Loop
          <6> QED BY <4>1, <6>2, <6>3
        <5> QED BY <5>1, <5>2
      <4> HIDE DEF last
      <4> QED BY <4>2
    <3> QED BY <3>3
  <2> QED BY <2>2, <2>3
<1>2. \E f : Loop(f, Len(pool))
  BY <1>1
<1> QED BY <1>2 DEF Cur

(* it goes through children of d in falling order, each the last one before *)
(* the one before it, and ends within Len(pool) turns.                      *)
LEMMA CurFalls ==
    ASSUME NEW pool, PoolOK(pool), NEW d \in DOMAIN pool
    PROVE  LET cur == Cur(pool, d)
           IN  /\ \A k \in 0..Len(pool) :
                    cur[k] = nullptr \/ (cur[k] \in Kids(pool, d) /\ cur[k] <= Len(pool) - k)
               /\ IsLast(cur[0], Kids(pool, d))
               /\ \A k \in 1..Len(pool) : cur[k - 1] # nullptr =>
                    IsLast(cur[k], {m \in Kids(pool, d) : m < cur[k - 1]})
               /\ \A k \in 1..Len(pool) : cur[k - 1] = nullptr => cur[k] = nullptr
<1> DEFINE cur == Cur(pool, d)
           N == Len(pool)
           Good(k) == cur[k] = nullptr \/ (cur[k] \in Kids(pool, d) /\ cur[k] <= N - k)
           Off == {k \in 0..N : ~Good(k)}
<1>1. /\ N \in Nat /\ 1 <= N /\ d \in 1..N
      /\ \A n \in 1..N : LinksOK(pool, n)
      /\ Kids(pool, d) \subseteq 2..N
  BY PoolFacts
<1>2. /\ cur[0] = pool[d].first_child
      /\ \A k \in 1..N : cur[k] = IF cur[k - 1] = nullptr THEN nullptr
                                   ELSE pool[cur[k - 1]].next_sibling
  <2> DEFINE F == [k \in 0..N |-> IF k = 0 THEN pool[d].first_child
                                  ELSE IF cur[k - 1] = nullptr THEN nullptr
                                  ELSE pool[cur[k - 1]].next_sibling]
  <2>1. cur = F
    BY <1>1, CurIs
  <2>2. F[0] = pool[d].first_child
    BY <1>1
  <2>3. \A k \in 1..N : F[k] = IF cur[k - 1] = nullptr THEN nullptr
                               ELSE pool[cur[k - 1]].next_sibling
    BY <1>1
  <2> HIDE DEF cur, F
  <2> QED BY <2>1, <2>2, <2>3
<1> HIDE DEF cur
<1>3. IsLast(cur[0], Kids(pool, d))
  BY <1>1, <1>2 DEF LinksOK
<1>4. ASSUME NEW k \in 1..N, cur[k - 1] \in Kids(pool, d)
      PROVE  IsLast(cur[k], {m \in Kids(pool, d) : m < cur[k - 1]})
  <2>1. /\ cur[k - 1] \in 1..N /\ cur[k - 1] # nullptr /\ cur[k - 1] # root_node
        /\ pool[cur[k - 1]].parent = d
    BY <1>1, <1>4 DEF Kids, nullptr, root_node
  <2>2. cur[k] = pool[cur[k - 1]].next_sibling
    BY <1>2, <2>1
  <2>3. d # outside
    BY <1>1 DEF outside
  <2> QED BY <1>1, <2>1, <2>2, <2>3 DEF LinksOK
<1>5. Off = {}
  <2> SUFFICES ASSUME Off # {} PROVE FALSE
    OBVIOUS
  <2>1. PICK k \in Off : \A j \in Off : k <= j
    <3>1. Off \subseteq Nat
      BY <1>1
    <3> HIDE DEF Off
    <3> QED BY <3>1, LeastNumber
  <2>2. k \in 0..N /\ ~Good(k) /\ k \in Nat
    BY <1>1
  <2>5. \A j \in 0..N : ~(k <= j) => Good(j)
    BY <2>1
  <2> HIDE DEF Off
  <2>3. CASE k = 0
    <3>1. cur[0] = nullptr \/ cur[0] \in Kids(pool, d)
      BY <1>3 DEF IsLast
    <3>2. cur[0] \in Kids(pool, d) => cur[0] <= N - 0
      <4>1. cur[0] \in Kids(pool, d) => cur[0] \in 2..N
        BY <1>1
      <4> QED BY <1>1, <4>1
    <3> QED BY <2>2, <2>3, <3>1, <3>2
  <2>4. CASE k # 0
    <3>1. k \in 1..N /\ k - 1 \in 0..N /\ ~(k <= k - 1)
      BY <1>1, <2>2, <2>4
    <3>2. Good(k - 1)
      BY <2>5, <3>1
    <3>3. CASE cur[k - 1] = nullptr
      BY <1>2, <2>2, <3>1, <3>3
    <3>4. CASE cur[k - 1] \in Kids(pool, d) /\ cur[k - 1] <= N - (k - 1)
      <4>1. IsLast(cur[k], {m \in Kids(pool, d) : m < cur[k - 1]})
        BY <1>4, <3>1, <3>4
      <4>2. cur[k] = nullptr \/ (cur[k] \in Kids(pool, d) /\ cur[k] < cur[k - 1])
        BY <4>1 DEF IsLast
      <4>3. cur[k] \in Kids(pool, d) /\ cur[k] < cur[k - 1] => cur[k] <= N - k
        <5>1. cur[k - 1] \in 2..N /\ (cur[k] \in Kids(pool, d) => cur[k] \in 2..N)
          BY <1>1, <3>4
        <5> QED BY <1>1, <3>1, <3>4, <5>1
      <4> QED BY <2>2, <4>2, <4>3
    <3> QED BY <3>2, <3>3, <3>4
  <2> QED BY <2>3, <2>4
<1>6. \A k \in 0..N : Good(k)
  BY <1>5
<1>7. ASSUME NEW k \in 1..N, cur[k - 1] # nullptr
      PROVE  IsLast(cur[k], {m \in Kids(pool, d) : m < cur[k - 1]})
  <2>1. k - 1 \in 0..N
    BY <1>1
  <2> QED BY <1>4, <1>6, <1>7, <2>1
<1> QED BY <1>2, <1>3, <1>6, <1>7 DEF cur

(* The list of children of d: its children, each once, in falling order.    *)
LEMMA ChildrenFall ==
    ASSUME NEW pool, PoolOK(pool), NEW d \in DOMAIN pool
    PROVE  LET list == Children(pool, d)
           IN  /\ \E turns \in 0..Len(pool) : DOMAIN list = 1..turns
               /\ \A k \in DOMAIN list : list[k] \in Kids(pool, d)
               /\ \A j, k \in DOMAIN list : j < k => list[k] < list[j]
               /\ \A n \in Kids(pool, d) : \E k \in DOMAIN list : list[k] = n
<1> DEFINE cur == Cur(pool, d)
           N == Len(pool)
           Stops == {k \in 0..N : k = N \/ cur[k] = nullptr}
           turns == Min(Stops)
           list == [k \in 1..turns |-> cur[k - 1]]
<1>1. N \in Nat /\ 1 <= N /\ Kids(pool, d) \subseteq 2..N
  BY PoolFacts
<1>2. /\ \A k \in 0..N : cur[k] = nullptr \/ (cur[k] \in Kids(pool, d) /\ cur[k] <= N - k)
      /\ IsLast(cur[0], Kids(pool, d))
      /\ \A k \in 1..N : cur[k - 1] # nullptr =>
            IsLast(cur[k], {m \in Kids(pool, d) : m < cur[k - 1]})
  BY CurFalls
<1>3. Children(pool, d) = list
  BY DEF Children
<1> HIDE DEF cur
<1>4. turns \in 0..N /\ cur[turns] = nullptr /\ \A k \in 0..(turns - 1) : cur[k] # nullptr
  <2>1. Stops \subseteq Nat /\ N \in Stops
    BY <1>1
  <2>2. turns \in Stops /\ \A k \in Stops : turns <= k
    <3> HIDE DEF Stops
    <3> QED BY <2>1, MinIs
  <2>3. turns \in 0..N
    <3> HIDE DEF turns
    <3> QED BY <2>2
  <2>4. cur[N] = nullptr
    <3>1. cur[N] \in Kids(pool, d) => cur[N] \in 2..N /\ ~(cur[N] <= N - N)
      BY <1>1
    <3>2. N \in 0..N
      BY <1>1
    <3> QED BY <1>2, <3>1, <3>2
  <2>5. cur[turns] = nullptr
    <3> HIDE DEF turns
    <3> QED BY <2>2, <2>4
  <2>6. ASSUME NEW k \in 0..(turns - 1) PROVE cur[k] # nullptr
    <3>1. k \in 0..N /\ ~(turns <= k)
      <4> HIDE DEF turns
      <4> QED BY <1>1, <2>3
    <3>2. k \notin Stops
      <4> HIDE DEF turns, Stops
      <4> QED BY <2>2, <3>1
    <3> QED BY <3>1, <3>2
  <2> QED BY <2>3, <2>5, <2>6
<1> HIDE DEF turns
<1>5. ASSUME NEW k \in 1..turns
      PROVE  k \in 1..N /\ k - 1 \in 0..(turns - 1) /\ k - 1 \in 0..N /\ list[k] = cur[k - 1]
  BY <1>1, <1>4
<1>6. ASSUME NEW k \in 1..turns PROVE list[k] \in Kids(pool, d) /\ list[k] \in 2..N
  BY <1>1, <1>2, <1>4, <1>5
<1>7. ASSUME NEW j \in 1..turns, NEW k \in 1..turns, j < k PROVE list[k] < list[j]
  <2> DEFINE High == {i \in 1..turns : j < i /\ ~(list[i] < list[j])}
  <2> SUFFICES ASSUME High # {} PROVE FALSE
    BY <1>7
  <2>1. High \subseteq Nat
    BY <1>4
  <2>2. PICK i \in High : \A h \in High : i <= h
    <3> HIDE DEF High
    <3> QED BY <2>1, LeastNumber
  <2>3. i \in 1..turns /\ j < i /\ ~(list[i] < list[j]) /\ i \in Nat /\ j \in Nat
    BY <1>4
  <2>4. i - 1 \in 1..turns /\ ~(i <= i - 1) /\ (i - 1 = j \/ j < i - 1)
    BY <1>4, <2>3
  <2>5. i - 1 = j \/ list[i - 1] < list[j]
    BY <2>2, <2>4
  <2>6. list[i - 1] = cur[i - 2] /\ list[i] = cur[i - 1] /\ i - 1 \in 1..N
    <3>1. (i - 1) - 1 = i - 2
      BY <2>3
    <3> QED BY <1>5, <2>3, <2>4, <3>1
  <2>7. list[i - 1] \in Kids(pool, d) /\ list[i - 1] \in Nat /\ list[i - 1] # nullptr
    BY <1>6, <2>4 DEF nullptr
  <2>8. IsLast(cur[i - 1], {m \in Kids(pool, d) : m < cur[i - 2]})
    <3>1. (i - 1) - 1 = i - 2
      BY <2>3
    <3> QED BY <1>2, <2>6, <2>7, <3>1
  <2>9. list[i] \in Nat /\ list[i] # nullptr /\ list[j] \in Nat
    BY <1>6, <2>3 DEF nullptr
  <2>10. list[i] < list[i - 1]
    <3> HIDE DEF list
    <3> QED BY <2>6, <2>8, <2>9 DEF IsLast
  <2> HIDE DEF list, High
  <2> QED BY <2>3, <2>5, <2>7, <2>9, <2>10
<1>8. ASSUME NEW n \in Kids(pool, d) PROVE \E k \in 1..turns : list[k] = n
  <2> DEFINE Low == {k \in 0..turns : cur[k] < n}
  <2>1. n \in 2..N
    BY <1>1
  <2>2. Low \subseteq Nat /\ turns \in Low
    BY <1>4, <2>1 DEF nullptr
  <2>3. PICK k \in Low : \A h \in Low : k <= h
    <3> HIDE DEF Low
    <3> QED BY <2>2, LeastNumber
  <2>4. k \in 0..turns /\ cur[k] < n /\ k \in 0..N
    BY <1>4
  <2>5. \A h \in 0..turns : ~(k <= h) => ~(cur[h] < n)
    BY <2>3
  <2> HIDE DEF Low
  <2>6. ASSUME NEW h \in 0..N PROVE cur[h] \in Nat
    <3>1. Kids(pool, d) \subseteq Nat
      BY <1>1
    <3> QED BY <1>2, <3>1 DEF nullptr
  <2>7. k # 0
    <3>1. n <= cur[0]
      BY <1>2 DEF IsLast
    <3> QED BY <1>1, <2>1, <2>4, <2>6, <3>1
  <2>8. k \in 1..turns /\ k \in 1..N /\ k - 1 \in 0..turns /\ k - 1 \in 0..N /\ ~(k <= k - 1)
    BY <1>4, <2>4, <2>7
  <2>9. ~(cur[k - 1] < n)
    BY <2>5, <2>8
  <2>10. cur[k - 1] # nullptr
    BY <2>1, <2>9 DEF nullptr
  <2>11. IsLast(cur[k], {m \in Kids(pool, d) : m < cur[k - 1]})
    BY <1>2, <2>8, <2>10
  <2>12. ~(n < cur[k - 1])
    <3>1. n < cur[k - 1] => n <= cur[k]
      BY <2>11 DEF IsLast
    <3> QED BY <2>1, <2>4, <2>6, <3>1
  <2>13. cur[k - 1] = n
    BY <2>1, <2>6, <2>8, <2>9, <2>12
  <2> QED BY <1>5, <2>8, <2>13
<1>9. DOMAIN list = 1..turns
  OBVIOUS
<1> HIDE DEF list
<1> QED BY <1>3, <1>4, <1>6, <1>7, <1>8, <1>9

(* What ramfs_finddir returns: the newest child of that name.  The code's   *)
(* loop returns the first match in the list.                                *)
THEOREM FinddirLast ==
    ASSUME NEW pool, PoolOK(pool), NEW d \in DOMAIN pool, NEW name
    PROVE  IsLast(ramfs_finddir(pool, d, name), Named(pool, d, name))
<1> DEFINE list == Children(pool, d)
           same == {k \in DOMAIN list : pool[list[k]].name = name}
<1>1. PICK turns \in 0..Len(pool) : DOMAIN list = 1..turns
  BY ChildrenFall
<1>2. /\ \A k \in DOMAIN list : list[k] \in Kids(pool, d)
      /\ \A j, k \in DOMAIN list : j < k => list[k] < list[j]
      /\ \A n \in Kids(pool, d) : \E k \in DOMAIN list : list[k] = n
  BY ChildrenFall
<1>3. ramfs_finddir(pool, d, name) = IF same = {} THEN nullptr ELSE list[Min(same)]
  BY DEF ramfs_finddir
<1> HIDE DEF list
<1>4. \A n \in Named(pool, d, name) : \E k \in same : list[k] = n
  BY <1>2 DEF Named
<1>5. CASE same = {}
  BY <1>3, <1>4, <1>5 DEF IsLast
<1>6. CASE same # {}
  <2>1. same \subseteq Nat
    BY <1>1, PoolFacts
  <2>2. Min(same) \in same /\ \A k \in same : Min(same) <= k
    <3> HIDE DEF same
    <3> QED BY <1>6, <2>1, MinIs
  <2> DEFINE first == Min(same)
  <2>3. first \in same /\ (\A k \in same : first <= k) /\ first \in Nat
    BY <2>1, <2>2
  <2> HIDE DEF first
  <2>4. list[first] \in Named(pool, d, name)
    BY <1>2, <2>3 DEF Named
  <2>5. ASSUME NEW n \in Named(pool, d, name) PROVE n <= list[first]
    <3>1. PICK k \in same : list[k] = n
      BY <1>4
    <3>2. k \in Nat /\ first <= k /\ k \in DOMAIN list /\ first \in DOMAIN list
      BY <2>1, <2>3
    <3>3. k = first \/ list[k] < list[first]
      BY <1>2, <2>3, <3>2
    <3>4. list[k] \in Nat /\ list[first] \in Nat
      BY <1>2, <3>2, PoolFacts
    <3> QED BY <3>1, <3>3, <3>4
  <2>6. ramfs_finddir(pool, d, name) = list[first]
    BY <1>3, <1>6 DEF first
  <2> QED BY <2>4, <2>5, <2>6 DEF IsLast
<1> QED BY <1>5, <1>6

-----------------------------------------------------------------------------
(* What the operations of ramfs.cpp do to the pool *)

(* The least and the greatest of two numbers.                               *)
LEMMA OfTwo ==
    ASSUME NEW a \in Nat, NEW b \in Nat
    PROVE  /\ Min({a, b}) = IF a <= b THEN a ELSE b
           /\ Max({a, b}) = IF a <= b THEN b ELSE a
<1>1. Min({a, b}) \in {a, b} /\ Min({a, b}) <= a /\ Min({a, b}) <= b
  BY MinIs
<1>2. Max({a, b}) = IF a <= b THEN b ELSE a
  BY MaxIs
<1> QED BY <1>1, <1>2

(* A new node is one.                                                       *)
LEMMA NewNodeType ==
    ASSUME NEW name \in Names, NEW flags \in {"FILE", "DIR"},
           NEW parent \in Link, NEW sibling \in Link
    PROVE  NewNode(name, flags, parent, sibling) \in Node
<1>1. [i \in 0..(MAX_DATA - 1) |-> 0] \in [0..(MAX_DATA - 1) -> Nat] /\ 0 \in 0..MAX_DATA
  BY RamfsAssumption
<1> QED BY <1>1 DEF NewNode, Node, nullptr

(* ramfs_write changes the bytes and the size of a node.                    *)
LEMMA WrittenIs ==
    ASSUME NEW node \in Node, NEW length \in Nat, NEW id \in Nat
    PROVE  LET new == Written(node, length, id)
           IN  /\ new \in Node
               /\ new.name = node.name /\ new.flags = node.flags /\ new.parent = node.parent
               /\ new.next_sibling = node.next_sibling /\ new.first_child = node.first_child
               /\ \A i \in 0..(MAX_DATA - 1) :
                     new.data[i] = IF i < length THEN id ELSE node.data[i]
               /\ new.size = Max({Min({length, MAX_DATA}), node.size})
<1> DEFINE data == [i \in 0..(MAX_DATA - 1) |-> IF i < length THEN id ELSE node.data[i]]
           size == Max({Min({length, MAX_DATA}), node.size})
           new == [node EXCEPT !.data = data, !.size = size]
<1>1. Written(node, length, id) = new
  BY DEF Written
<1>2. data \in [0..(MAX_DATA - 1) -> Nat]
  BY DEF Node
<1>3. size \in 0..MAX_DATA
  <2>1. MAX_DATA \in Nat /\ node.size \in Nat /\ node.size <= MAX_DATA
    BY RamfsAssumption DEF Node
  <2> DEFINE least == Min({length, MAX_DATA})
  <2>2. least \in Nat /\ least <= MAX_DATA
    BY <2>1, OfTwo
  <2> HIDE DEF least
  <2>3. Max({least, node.size}) = IF least <= node.size THEN node.size ELSE least
    BY <2>1, <2>2, OfTwo
  <2>4. Max({least, node.size}) \in 0..MAX_DATA
    BY <2>1, <2>2, <2>3
  <2> QED BY <2>4 DEF least
<1>4. \A i \in 0..(MAX_DATA - 1) : data[i] = IF i < length THEN id ELSE node.data[i]
  OBVIOUS
<1> HIDE DEF data, size
<1>5. new \in Node
  BY <1>2, <1>3 DEF Node
<1>6. /\ new.name = node.name /\ new.flags = node.flags /\ new.parent = node.parent
      /\ new.next_sibling = node.next_sibling /\ new.first_child = node.first_child
      /\ new.data = data /\ new.size = size
  BY DEF Node
<1> QED BY <1>1, <1>4, <1>5, <1>6 DEF size

(* The parent of a node of the tree is a node.                              *)
LEMMA ParentIs ==
    ASSUME NEW pool, PoolOK(pool), NEW n \in 1..Len(pool)
    PROVE  /\ pool[n].parent \in Int
           /\ pool[n].parent # outside => pool[n].parent \in 1..Len(pool)
<1>1. /\ pool[n] \in Node /\ LinksOK(pool, n)
      /\ Len(pool) \in Nat /\ 1 <= Len(pool)
  BY PoolFacts
<1>2. pool[n].parent \in Link
  BY <1>1 DEF Node
<1>3. n # root_node => pool[n].parent < n /\ pool[n].parent # nullptr
  BY <1>1 DEF LinksOK
<1>4. n = root_node => pool[n].parent = root_node
  BY <1>1 DEF LinksOK
<1>5. pool[n].parent \in Int
  BY <1>2 DEF Link, outside
<1>6. ASSUME pool[n].parent # outside PROVE pool[n].parent \in 1..Len(pool)
  <2>1. pool[n].parent \in Nat
    BY <1>2, <1>6 DEF Link
  <2> QED BY <1>1, <1>3, <1>4, <2>1 DEF nullptr, root_node
<1> QED BY <1>5, <1>6

(* A pool whose links and names are those of another.                       *)
LEMMA SameLinks ==
    ASSUME NEW pool, PoolOK(pool), NEW q \in Seq(Node), Len(q) = Len(pool),
           \A n \in 1..Len(pool) :
              /\ q[n].name = pool[n].name /\ q[n].flags = pool[n].flags
              /\ q[n].parent = pool[n].parent /\ q[n].next_sibling = pool[n].next_sibling
              /\ q[n].first_child = pool[n].first_child
    PROVE  /\ PoolOK(q)
           /\ \A d, name : Named(q, d, name) = Named(pool, d, name)
           /\ \A V : Reached(pool, V) => Reached(q, V)
<1>1. DOMAIN q = 1..Len(pool) /\ DOMAIN pool = 1..Len(pool)
  BY LenProperties, PoolFacts
<1>2. \A d : Kids(q, d) = Kids(pool, d)
  BY <1>1 DEF Kids
<1>3. ASSUME NEW n \in 1..Len(pool) PROVE LinksOK(q, n)
  <2>1. LinksOK(pool, n)
    BY PoolFacts
  <2>2. pool[n].parent # outside => pool[n].parent \in 1..Len(pool)
    BY ParentIs
  <2>3. {m \in Kids(q, q[n].parent) : m < n} = {m \in Kids(pool, pool[n].parent) : m < n}
    BY <1>2
  <2>4. IsLast(q[n].first_child, Kids(q, n))
    BY <1>2, <2>1 DEF LinksOK
  <2>5. q[n].parent # outside /\ n # root_node => TreeDir(q, q[n].parent)
    BY <2>1, <2>2 DEF LinksOK, TreeDir
  <2> QED BY <2>1, <2>3, <2>4, <2>5 DEF LinksOK
<1>4. PoolOK(q)
  BY <1>1, <1>3 DEF PoolOK
<1>5. ASSUME NEW d, NEW name PROVE Named(q, d, name) = Named(pool, d, name)
  <2>1. Kids(pool, d) \subseteq 1..Len(pool)
    BY <1>1 DEF Kids
  <2> QED BY <1>2, <2>1 DEF Named
<1>6. ASSUME NEW V, Reached(pool, V) PROVE Reached(q, V)
  <2>1. V \subseteq 1..Len(pool)
    BY <1>1, <1>6 DEF Reached
  <2>2. ASSUME NEW n \in V
        PROVE  q[n].parent = pool[n].parent /\ q[n].name = pool[n].name
    BY <2>1
  <2> QED BY <1>1, <1>5, <1>6, <2>2 DEF Reached
<1> QED BY <1>4, <1>5, <1>6

(* ramfs_write keeps the links.                                             *)
LEMMA WriteKeepsLinks ==
    ASSUME NEW pool, PoolOK(pool), NEW n \in DOMAIN pool, NEW length \in Nat, NEW id \in Nat
    PROVE  LET q == ramfs_write(pool, n, length, id)
           IN  /\ PoolOK(q) /\ Len(q) = Len(pool)
               /\ \A m \in 1..Len(pool) :
                     q[m] = IF m = n THEN Written(pool[n], length, id) ELSE pool[m]
               /\ \A d, name : Named(q, d, name) = Named(pool, d, name)
               /\ \A V : Reached(pool, V) => Reached(q, V)
<1> DEFINE q == [pool EXCEPT ![n] = Written(pool[n], length, id)]
<1>1. ramfs_write(pool, n, length, id) = q
  BY DEF ramfs_write
<1>2. pool \in Seq(Node) /\ n \in 1..Len(pool) /\ pool[n] \in Node
  BY PoolFacts DEF PoolOK
<1>3. Written(pool[n], length, id) \in Node
  BY <1>2, WrittenIs
<1>4. /\ q \in Seq(Node) /\ Len(q) = Len(pool)
      /\ \A m \in 1..Len(pool) :
            q[m] = IF m = n THEN Written(pool[n], length, id) ELSE pool[m]
  BY <1>2, <1>3, ExceptSeq
<1> HIDE DEF q
<1>5. ASSUME NEW m \in 1..Len(pool)
      PROVE  /\ q[m].name = pool[m].name /\ q[m].flags = pool[m].flags
             /\ q[m].parent = pool[m].parent /\ q[m].next_sibling = pool[m].next_sibling
             /\ q[m].first_child = pool[m].first_child
  <2>1. CASE m = n
    <3>1. q[m] = Written(pool[n], length, id)
      BY <1>4, <2>1
    <3>2. LET new == Written(pool[n], length, id)
          IN  /\ new.name = pool[n].name /\ new.flags = pool[n].flags
              /\ new.parent = pool[n].parent /\ new.next_sibling = pool[n].next_sibling
              /\ new.first_child = pool[n].first_child
      BY <1>2, WrittenIs
    <3> QED BY <2>1, <3>1, <3>2
  <2>2. CASE m # n
    <3>1. q[m] = pool[m]
      BY <1>4, <2>2
    <3> QED BY <3>1
  <2> QED BY <2>1, <2>2
<1>6. /\ PoolOK(q)
      /\ \A d, name : Named(q, d, name) = Named(pool, d, name)
      /\ \A V : Reached(pool, V) => Reached(q, V)
  BY <1>4, <1>5, SameLinks
<1> QED BY <1>1, <1>4, <1>6

(* The directory's own node gets a new first child.                         *)
WithFirst(node, c) == [node EXCEPT !.first_child = c]

(* That keeps the rest of it.                                               *)
LEMMA FirstChildIs ==
    ASSUME NEW node \in Node, NEW c \in Nat
    PROVE  LET new == WithFirst(node, c)
           IN  /\ new \in Node /\ new.first_child = c
               /\ new.name = node.name /\ new.flags = node.flags
               /\ new.parent = node.parent /\ new.next_sibling = node.next_sibling
               /\ new.data = node.data /\ new.size = node.size
BY DEF Node, WithFirst

(* Creating a node: behind all others in the pool, first in the list of its *)
(* directory.                                                               *)
LEMMA CreatedIs ==
    ASSUME NEW pool, PoolOK(pool), NEW p \in DOMAIN pool, NEW name \in Names,
           NEW flags \in {"FILE", "DIR"}
    PROVE  LET q == Created(pool, p, name, flags)
           IN  /\ q \in Seq(Node) /\ Len(q) = Len(pool) + 1
               /\ q[Len(pool) + 1] = NewNode(name, flags, p, pool[p].first_child)
               /\ q[p] = WithFirst(pool[p], Len(pool) + 1)
               /\ \A n \in 1..Len(pool) : n # p => q[n] = pool[n]
<1> DEFINE new == NewNode(name, flags, p, pool[p].first_child)
           longer == Append(pool, new)
           dir == WithFirst(pool[p], Len(pool) + 1)
           q == [longer EXCEPT ![p] = dir]
<1>1. /\ pool \in Seq(Node) /\ Len(pool) \in Nat /\ p \in 1..Len(pool) /\ p \in Nat
      /\ pool[p] \in Node /\ pool[p].first_child \in Nat
  <2>1. /\ pool \in Seq(Node) /\ Len(pool) \in Nat /\ p \in 1..Len(pool) /\ p \in Nat
        /\ pool[p] \in Node
    BY PoolFacts DEF PoolOK
  <2>2. pool[p].first_child \in Nat
    BY <2>1 DEF Node
  <2> QED BY <2>1, <2>2
<1>2. new \in Node
  <2>1. p \in Link /\ pool[p].first_child \in Link
    BY <1>1 DEF Link
  <2> QED BY <2>1, NewNodeType
<1>3. dir \in Node
  <2>1. Len(pool) + 1 \in Nat
    BY <1>1
  <2> QED BY <1>1, <2>1, FirstChildIs
<1> HIDE DEF new, dir
<1>4. /\ longer \in Seq(Node) /\ Len(longer) = Len(pool) + 1
      /\ longer[Len(pool) + 1] = new
      /\ \A n \in 1..Len(pool) : longer[n] = pool[n]
  BY <1>1, <1>2, AppendProperties
<1>5. Created(pool, p, name, flags) = q
  BY <1>1, <1>4 DEF Created, WithFirst, new, dir
<1> HIDE DEF longer
<1>6. p \in 1..Len(longer) /\ p # Len(pool) + 1
  BY <1>1, <1>4
<1>7. /\ q \in Seq(Node) /\ Len(q) = Len(longer)
      /\ \A n \in 1..Len(longer) : q[n] = IF n = p THEN dir ELSE longer[n]
  BY <1>3, <1>4, <1>6, ExceptSeq
<1> HIDE DEF q
<1>8. q[Len(pool) + 1] = new
  BY <1>1, <1>4, <1>6, <1>7
<1>9. ASSUME NEW n \in 1..Len(pool), n # p PROVE q[n] = pool[n]
  <2>1. n \in 1..Len(longer)
    BY <1>1, <1>4
  <2> QED BY <1>4, <1>7, <1>9, <2>1
<1>10. q[p] = dir
  BY <1>6, <1>7
<1> QED BY <1>4, <1>5, <1>7, <1>8, <1>9, <1>10 DEF new, dir

(* CreateOnDisk: the node joins no list.                                    *)
LEMMA LooseIs ==
    ASSUME NEW pool, PoolOK(pool), NEW name \in Names, NEW flags \in {"FILE", "DIR"},
           NEW sibling \in Link
    PROVE  LET q == Append(pool, NewNode(name, flags, outside, sibling))
           IN  /\ q \in Seq(Node) /\ Len(q) = Len(pool) + 1
               /\ q[Len(pool) + 1] = NewNode(name, flags, outside, sibling)
               /\ \A n \in 1..Len(pool) : q[n] = pool[n]
<1>1. outside \in Link
  BY DEF Link
<1>2. pool \in Seq(Node) /\ NewNode(name, flags, outside, sibling) \in Node
  BY <1>1, NewNodeType DEF PoolOK
<1> QED BY <1>2, AppendProperties

(* A pool with one more node, which is in the list of p (or in none, when p *)
(* is outside).                                                             *)
OneLonger(pool, q, p) ==
    /\ q \in Seq(Node) /\ Len(q) = Len(pool) + 1 /\ Len(q) <= MAX_NODES
    /\ p # outside => TreeDir(pool, p) /\ q[Len(q)].next_sibling = pool[p].first_child
    /\ q[Len(q)].parent = p /\ q[Len(q)].first_child = nullptr
    /\ \A n \in 1..Len(pool) :
          /\ q[n].name = pool[n].name /\ q[n].flags = pool[n].flags
          /\ q[n].parent = pool[n].parent /\ q[n].next_sibling = pool[n].next_sibling
          /\ q[n].first_child = IF n = p THEN Len(q) ELSE pool[n].first_child

(* Only what that name stands for in p changes.                             *)
TakesName(pool, q, p, name) ==
    \A d \in 1..Len(pool) : \A nm :
        Named(q, d, nm) = Named(pool, d, nm) \cup IF d = p /\ nm = name THEN {Len(q)} ELSE {}

(* It is as well-formed as the pool.                                        *)
LEMMA OneMore ==
    ASSUME NEW pool, PoolOK(pool), NEW p \in (1..Len(pool)) \cup {outside}, NEW q, OneLonger(pool, q, p)
    PROVE  PoolOK(q) /\ TakesName(pool, q, p, q[Len(q)].name)
<1> USE DEF OneLonger
<1>1. /\ DOMAIN q = 1..Len(q) /\ DOMAIN pool = 1..Len(pool) /\ Len(pool) \in Nat
      /\ 1 <= Len(pool) /\ Len(q) \in 1..MAX_NODES
  BY LenProperties, PoolFacts DEF PoolOK
<1>2. /\ 1..Len(q) = (1..Len(pool)) \cup {Len(q)} /\ Len(q) # root_node
      /\ Len(q) \notin 1..Len(pool) /\ Len(q) \in Nat
      /\ p # Len(q) /\ p \in Int /\ p < Len(q) /\ p # nullptr
  BY <1>1 DEF root_node, outside, nullptr
<1>3. ASSUME NEW d
      PROVE  Kids(q, d) = Kids(pool, d) \cup IF d = p THEN {Len(q)} ELSE {}
  BY <1>1, <1>2 DEF Kids
<1>4. \A n \in 1..Len(pool) : LinksOK(pool, n) /\ pool[n].parent \in Int
  BY PoolFacts, ParentIs
<1>5. \A d : Kids(pool, d) \subseteq 1..Len(pool)
  BY <1>1 DEF Kids
<1>6. ASSUME NEW n \in 1..Len(pool) PROVE LinksOK(q, n)
  <2>1. IsLast(q[n].first_child, Kids(q, n))
    <3>1. CASE n = p
      <4>1. Kids(q, n) = Kids(pool, n) \cup {Len(q)} /\ q[n].first_child = Len(q)
        BY <1>3, <3>1
      <4>2. \A m \in Kids(pool, n) : m <= Len(q)
        BY <1>1, <1>5
      <4> QED BY <1>2, <4>1, <4>2 DEF IsLast
    <3>2. CASE n # p
      <4>1. Kids(q, n) = Kids(pool, n)
        <5>1. Kids(q, n) = Kids(pool, n) \cup IF n = p THEN {Len(q)} ELSE {}
          BY <1>3
        <5> QED BY <3>2, <5>1
      <4>2. q[n].first_child = pool[n].first_child
        BY <3>2
      <4> QED BY <1>4, <4>1, <4>2 DEF LinksOK
    <3> QED BY <3>1, <3>2
  <2>2. pool[n].parent # outside => pool[n].parent \in 1..Len(pool)
    BY ParentIs
  <2>3. {m \in Kids(q, q[n].parent) : m < n} = {m \in Kids(pool, pool[n].parent) : m < n}
    <3>1. ~(Len(q) < n)
      BY <1>1, <1>2
    <3> QED BY <1>3, <3>1
  <2>5. LinksOK(pool, n)
    BY <1>4
  <2>4. q[n].parent # outside /\ n # root_node => TreeDir(q, q[n].parent)
    <3>1. q[n].parent = pool[n].parent
      OBVIOUS
    <3>2. n # root_node /\ pool[n].parent # outside => TreeDir(pool, pool[n].parent)
      BY <2>5 DEF LinksOK
    <3>3. \A m \in 1..Len(pool) : q[m].flags = pool[m].flags /\ q[m].parent = pool[m].parent
      OBVIOUS
    <3> QED BY <2>2, <3>1, <3>2, <3>3 DEF TreeDir
  <2> QED BY <2>1, <2>3, <2>4, <2>5 DEF LinksOK
<1>7. LinksOK(q, Len(q))
  <2>1. Kids(pool, Len(q)) = {}
    <3>1. ASSUME NEW n \in Kids(pool, Len(q)) PROVE FALSE
      <4>1. n \in 1..Len(pool) /\ n # root_node /\ pool[n].parent = Len(q)
        BY <1>1, <3>1 DEF Kids
      <4>2. pool[n].parent < n
        BY <1>4, <4>1 DEF LinksOK
      <4> QED BY <1>1, <1>2, <4>1, <4>2
    <3> QED BY <3>1
  <2>2. IsLast(q[Len(q)].first_child, Kids(q, Len(q)))
    BY <1>2, <1>3, <2>1 DEF IsLast
  <2>3. q[Len(q)].parent < Len(q) /\ q[Len(q)].parent # nullptr
    BY <1>1, <1>2
  <2>4. p # outside => p \in 1..Len(pool) /\ TreeDir(q, p)
    BY <1>1 DEF TreeDir
  <2>5. p # outside => IsLast(q[Len(q)].next_sibling, {m \in Kids(q, p) : m < Len(q)})
    <3> SUFFICES ASSUME p # outside
                 PROVE  IsLast(q[Len(q)].next_sibling, {m \in Kids(q, p) : m < Len(q)})
      OBVIOUS
    <3>1. {m \in Kids(q, p) : m < Len(q)} = Kids(pool, p)
      <4>1. \A m \in Kids(pool, p) : m < Len(q)
        BY <1>1, <1>5
      <4>2. Kids(q, p) = Kids(pool, p) \cup {Len(q)} /\ ~(Len(q) < Len(q))
        BY <1>2, <1>3
      <4> QED BY <4>1, <4>2
    <3>2. IsLast(pool[p].first_child, Kids(pool, p))
      BY <1>4, <2>4 DEF LinksOK
    <3> QED BY <3>1, <3>2
  <2> QED BY <1>2, <2>2, <2>3, <2>4, <2>5 DEF LinksOK
<1>8. PoolOK(q)
  BY <1>1, <1>2, <1>6, <1>7 DEF PoolOK
<1>9. ASSUME NEW d \in 1..Len(pool), NEW name
      PROVE  Named(q, d, name) = Named(pool, d, name) \cup
                IF d = p /\ name = q[Len(q)].name THEN {Len(q)} ELSE {}
  <2>1. \A n \in Kids(pool, d) : q[n].name = pool[n].name
    BY <1>5
  <2> QED BY <1>3, <2>1 DEF Named
<1> QED BY <1>8, <1>9 DEF TakesName

-----------------------------------------------------------------------------
(* What a file holds *)

(* FileKeepsNewest for one node and the lengths written to it,              *)
Newest(node, ws) ==
    /\ \A i \in 0..(MAX_DATA - 1) : node.data[i] = Max({0} \cup {k \in DOMAIN ws : ws[k] > i})
    /\ node.size = Min({MAX_DATA, Max({0} \cup {ws[k] : k \in DOMAIN ws})})

(* and for all.                                                             *)
AllNewest(pool, ws) ==
    /\ ws \in Seq(Seq(Nat)) /\ Len(ws) = Len(pool)
    /\ \A n \in 1..Len(pool) : Newest(pool[n], ws[n])

(* A sequence of numbers has an upper bound.                                *)
LEMMA SeqBounded ==
    ASSUME NEW ws \in Seq(Nat)
    PROVE  \E b \in Nat : \A k \in DOMAIN ws : ws[k] <= b
<1> DEFINE Bound(j, b) == \A k \in 1..j : ws[k] <= b
           Open == {j \in 0..Len(ws) : ~\E b \in Nat : Bound(j, b)}
<1>1. Len(ws) \in Nat /\ DOMAIN ws = 1..Len(ws) /\ \A k \in 1..Len(ws) : ws[k] \in Nat
  BY LenProperties, ElementOfSeq
<1>2. Open = {}
  <2> SUFFICES ASSUME Open # {} PROVE FALSE
    OBVIOUS
  <2>1. Open \subseteq Nat
    BY <1>1
  <2>2. PICK j \in Open : \A h \in Open : j <= h
    <3> HIDE DEF Open
    <3> QED BY <2>1, LeastNumber
  <2>3. j \in 0..Len(ws) /\ j \in Nat /\ ~\E b \in Nat : Bound(j, b)
    BY <1>1
  <2>4. \A h \in 0..Len(ws) : ~(j <= h) => \E b \in Nat : Bound(h, b)
    BY <2>2
  <2> HIDE DEF Open
  <2>5. j # 0
    <3>1. Bound(0, 0)
      OBVIOUS
    <3> QED BY <2>3, <3>1
  <2>6. j - 1 \in 0..Len(ws) /\ ~(j <= j - 1) /\ j \in 1..Len(ws)
    BY <1>1, <2>3, <2>5
  <2>7. PICK b \in Nat : Bound(j - 1, b)
    BY <2>4, <2>6
  <2>8. ws[j] \in Nat
    BY <1>1, <2>6
  <2>9. ASSUME NEW k \in 1..j PROVE ws[k] <= b + ws[j]
    <3>1. ws[k] \in Nat
      BY <1>1, <2>6
    <3>2. CASE k = j
      BY <2>8, <3>2
    <3>3. CASE k # j
      <4>1. ws[k] <= b
        BY <2>3, <2>7, <3>3
      <4> QED BY <2>8, <3>1, <4>1
    <3> QED BY <3>2, <3>3
  <2>10. b + ws[j] \in Nat
    BY <2>8
  <2> QED BY <2>3, <2>9, <2>10
<1>3. Len(ws) \in 0..Len(ws)
  BY <1>1
<1>4. \E b \in Nat : Bound(Len(ws), b)
  BY <1>2, <1>3
<1> QED BY <1>1, <1>4

(* A new file is empty.                                                     *)
LEMMA NewIsNewest ==
    ASSUME NEW name, NEW flags, NEW parent, NEW sibling
    PROVE  Newest(NewNode(name, flags, parent, sibling), <<>>)
<1> DEFINE new == NewNode(name, flags, parent, sibling)
<1>1. new.size = 0 /\ \A i \in 0..(MAX_DATA - 1) : new.data[i] = 0
  BY DEF NewNode
<1>2. Max({0}) = 0
  BY MaxIs
<1>3. \A i : {0} \cup {k \in DOMAIN <<>> : <<>>[k] > i} = {0}
  OBVIOUS
<1>4. {0} \cup {<<>>[k] : k \in DOMAIN <<>>} = {0}
  OBVIOUS
<1>5. Min({MAX_DATA, 0}) = 0
  <2>1. MAX_DATA \in Nat /\ ~(MAX_DATA <= 0)
    BY RamfsAssumption
  <2> QED BY <2>1, OfTwo
<1> HIDE DEF new
<1>6. Newest(new, <<>>)
  BY <1>1, <1>2, <1>3, <1>4, <1>5 DEF Newest
<1> QED BY <1>6 DEF new

(* A write is the newest for the bytes it reaches, and for the others the   *)
(* write that was the newest still is.                                      *)
LEMMA WrittenIsNewest ==
    ASSUME NEW node \in Node, NEW ws \in Seq(Nat), NEW length \in Nat, Newest(node, ws)
    PROVE  Newest(Written(node, length, Len(ws) + 1), Append(ws, length))
<1> DEFINE new == Written(node, length, Len(ws) + 1)
           L == Len(ws) + 1
           all == Append(ws, length)
<1>1. /\ Len(ws) \in Nat /\ L \in Nat /\ DOMAIN ws = 1..Len(ws)
      /\ \A k \in 1..Len(ws) : ws[k] \in Nat
  BY LenProperties, ElementOfSeq
<1>2. /\ DOMAIN all = 1..L /\ all[L] = length
      /\ \A k \in 1..Len(ws) : all[k] = ws[k]
  <2>1. /\ all \in Seq(Nat) /\ Len(all) = Len(ws) + 1
        /\ \A k \in 1..Len(ws) : all[k] = ws[k]
        /\ all[Len(ws) + 1] = length
    BY AppendProperties
  <2>2. DOMAIN all = 1..Len(all)
    BY <2>1, LenProperties
  <2> QED BY <2>1, <2>2
<1>3. 1..L = (1..Len(ws)) \cup {L} /\ L \notin 1..Len(ws)
  BY <1>1
<1>4. /\ \A i \in 0..(MAX_DATA - 1) : new.data[i] = IF i < length THEN L ELSE node.data[i]
      /\ new.size = Max({Min({length, MAX_DATA}), node.size})
  BY <1>1, WrittenIs
<1> HIDE DEF new, L, all
<1>5. ASSUME NEW i \in 0..(MAX_DATA - 1)
      PROVE  new.data[i] = Max({0} \cup {k \in DOMAIN all : all[k] > i})
  <2> DEFINE old == {0} \cup {k \in DOMAIN ws : ws[k] > i}
             reach == {0} \cup {k \in DOMAIN all : all[k] > i}
  <2>1. i \in Nat
    BY RamfsAssumption
  <2>2. CASE i < length
    <3>1. L \in reach
      BY <1>2, <1>3, <2>1, <2>2
    <3>2. reach \subseteq Nat /\ \A k \in reach : k <= L
      BY <1>1, <1>2
    <3> HIDE DEF reach
    <3>3. Max(reach) = L
      BY <3>1, <3>2, MaxIs
    <3> QED BY <1>4, <2>2, <3>3 DEF reach
  <2>3. CASE ~(i < length)
    <3>1. ~(all[L] > i)
      BY <1>2, <2>1, <2>3
    <3>2. reach = old
      BY <1>1, <1>2, <1>3, <3>1
    <3>3. node.data[i] = Max(old)
      BY DEF Newest
    <3> QED BY <1>4, <2>3, <3>2, <3>3
  <2> QED BY <2>2, <2>3
<1>6. new.size = Min({MAX_DATA, Max({0} \cup {all[k] : k \in DOMAIN all})})
  <2> DEFINE old == {0} \cup {ws[k] : k \in DOMAIN ws}
             S == {0} \cup {all[k] : k \in DOMAIN all}
  <2>1. S = old \cup {length}
    BY <1>1, <1>2, <1>3
  <2>2. old \subseteq Nat /\ 0 \in old
    BY <1>1
  <2>3. PICK m \in old : \A y \in old : y <= m
    <3>1. PICK b \in Nat : \A k \in DOMAIN ws : ws[k] <= b
      BY SeqBounded
    <3>2. \A y \in old : y <= b
      BY <3>1
    <3> HIDE DEF old
    <3> QED BY <2>2, <3>2, GreatestNumber
  <2>4. node.size = Min({MAX_DATA, Max(old)})
    BY DEF Newest
  <2> HIDE DEF old, S
  <2>5. m \in Nat /\ Max(old) = m
    BY <2>2, <2>3, MaxIs
  <2> DEFINE top == IF m <= length THEN length ELSE m
  <2>6. top \in Nat /\ Max(S) = top
    <3>1. S \subseteq Nat /\ top \in S /\ top \in Nat
      BY <2>1, <2>2, <2>3, <2>5
    <3>2. \A y \in S : y <= top
      BY <2>1, <2>2, <2>3, <2>5
    <3> HIDE DEF top
    <3> QED BY <3>1, <3>2, MaxIs
  <2>7. MAX_DATA \in Nat
    BY RamfsAssumption
  <2>8. node.size = IF MAX_DATA <= m THEN MAX_DATA ELSE m
    BY <2>4, <2>5, <2>7, OfTwo
  <2>9. Min({length, MAX_DATA}) = IF length <= MAX_DATA THEN length ELSE MAX_DATA
    BY <2>7, OfTwo
  <2>10. Min({MAX_DATA, top}) = IF MAX_DATA <= top THEN MAX_DATA ELSE top
    <3> HIDE DEF top
    <3> QED BY <2>6, <2>7, OfTwo
  <2> DEFINE a == Min({length, MAX_DATA})
  <2>11. a \in Nat /\ node.size \in Nat
    BY <2>5, <2>7, <2>8, <2>9
  <2>12. Max({a, node.size}) = IF a <= node.size THEN node.size ELSE a
    <3> HIDE DEF a
    <3> QED BY <2>11, OfTwo
  <2>13. Max({a, node.size}) = Min({MAX_DATA, top})
    <3> DEFINE left == Max({a, node.size})
               right == Min({MAX_DATA, top})
               b == a
    <3>1. left = (IF b <= node.size THEN node.size ELSE b)
          /\ right = (IF MAX_DATA <= top THEN MAX_DATA ELSE top)
          /\ b = (IF length <= MAX_DATA THEN length ELSE MAX_DATA)
      BY <2>9, <2>10, <2>12
    <3> HIDE DEF left, right, b
    <3>2. left = right
      BY <2>5, <2>7, <2>8, <3>1
    <3> QED BY <3>2 DEF left, right
  <2> QED BY <1>4, <2>6, <2>13 DEF S
<1>7. Newest(new, all)
  BY <1>5, <1>6 DEF Newest
<1> QED BY <1>7 DEF new, all

(* One more file, empty, beside files that keep their bytes.                *)
LEMMA OneMoreFile ==
    ASSUME NEW pool, Len(pool) \in Nat, NEW ws, AllNewest(pool, ws), NEW q,
           Len(q) = Len(pool) + 1, Newest(q[Len(q)], <<>>),
           \A n \in 1..Len(pool) : q[n].data = pool[n].data /\ q[n].size = pool[n].size
    PROVE  AllNewest(q, Append(ws, <<>>))
<1> DEFINE all == Append(ws, <<>>)
<1>1. ws \in Seq(Seq(Nat)) /\ Len(ws) = Len(pool) /\ <<>> \in Seq(Nat)
  BY EmptySeq DEF AllNewest
<1>2. /\ all \in Seq(Seq(Nat)) /\ Len(all) = Len(q) /\ all[Len(q)] = <<>>
      /\ \A n \in 1..Len(pool) : all[n] = ws[n]
  BY <1>1, AppendProperties
<1> HIDE DEF all
<1>3. ASSUME NEW n \in 1..Len(q) PROVE Newest(q[n], all[n])
  <2>1. CASE n = Len(q)
    BY <1>2, <2>1
  <2>2. CASE n # Len(q)
    <3>1. n \in 1..Len(pool)
      BY <2>2
    <3>2. Newest(pool[n], ws[n])
      BY <3>1 DEF AllNewest
    <3>3. all[n] = ws[n] /\ q[n].data = pool[n].data /\ q[n].size = pool[n].size
      BY <1>2, <3>1
    <3> QED BY <3>2, <3>3 DEF Newest
  <2> QED BY <2>1, <2>2
<1>4. AllNewest(q, all)
  BY <1>2, <1>3 DEF AllNewest
<1> QED BY <1>4 DEF all

(* Creating a node in a directory of the tree.                              *)
LEMMA CreatedLinks ==
    ASSUME NEW pool, PoolOK(pool), Len(pool) < MAX_NODES,
           NEW p \in DOMAIN pool, TreeDir(pool, p),
           NEW name \in Names, NEW flags \in {"FILE", "DIR"}
    PROVE  LET q == Created(pool, p, name, flags)
           IN  /\ PoolOK(q) /\ Len(q) = Len(pool) + 1
               /\ q[Len(q)].flags = flags /\ q[Len(q)].parent = p /\ Newest(q[Len(q)], <<>>)
               /\ \A n \in 1..Len(pool) :
                     /\ q[n].name = pool[n].name /\ q[n].flags = pool[n].flags
                     /\ q[n].parent = pool[n].parent
                     /\ q[n].data = pool[n].data /\ q[n].size = pool[n].size
               /\ TakesName(pool, q, p, name)
<1> DEFINE q == Created(pool, p, name, flags)
           new == NewNode(name, flags, p, pool[p].first_child)
<1>1. /\ q \in Seq(Node) /\ Len(q) = Len(pool) + 1 /\ q[Len(pool) + 1] = new
      /\ q[p] = WithFirst(pool[p], Len(pool) + 1)
      /\ \A n \in 1..Len(pool) : n # p => q[n] = pool[n]
  BY CreatedIs
<1>2. /\ Len(pool) \in Nat /\ p \in 1..Len(pool) /\ p # outside
      /\ \A n \in 1..Len(pool) : pool[n] \in Node
  BY PoolFacts DEF outside
<1>3. Len(q) <= MAX_NODES
  BY <1>1, <1>2, RamfsAssumption
<1>4. /\ new.parent = p /\ new.first_child = nullptr /\ new.name = name /\ new.flags = flags
      /\ new.next_sibling = pool[p].first_child
  BY DEF NewNode
<1>5. Newest(new, <<>>)
  BY NewIsNewest
<1> HIDE DEF q, new
<1>6. q[Len(q)] = new
  BY <1>1
<1>7. ASSUME NEW n \in 1..Len(pool)
      PROVE  /\ q[n].name = pool[n].name /\ q[n].flags = pool[n].flags
             /\ q[n].parent = pool[n].parent /\ q[n].next_sibling = pool[n].next_sibling
             /\ q[n].first_child = IF n = p THEN Len(q) ELSE pool[n].first_child
             /\ q[n].data = pool[n].data /\ q[n].size = pool[n].size
  <2>1. CASE n = p
    <3>1. q[n] = WithFirst(pool[n], Len(pool) + 1)
      BY <1>1, <2>1
    <3>2. pool[n] \in Node /\ Len(pool) + 1 \in Nat
      BY <1>2
    <3> DEFINE dir == WithFirst(pool[n], Len(pool) + 1)
    <3>3. /\ dir.first_child = Len(pool) + 1
          /\ dir.name = pool[n].name /\ dir.flags = pool[n].flags
          /\ dir.parent = pool[n].parent /\ dir.next_sibling = pool[n].next_sibling
          /\ dir.data = pool[n].data /\ dir.size = pool[n].size
      BY <3>2, FirstChildIs
    <3> HIDE DEF dir
    <3>4. q[n] = dir
      BY <3>1 DEF dir
    <3> QED BY <1>1, <2>1, <3>3, <3>4
  <2>2. CASE n # p
    <3>1. q[n] = pool[n]
      BY <1>1, <2>2
    <3> QED BY <2>2, <3>1
  <2> QED BY <2>1, <2>2
<1>8. PoolOK(q) /\ TakesName(pool, q, p, q[Len(q)].name)
  <2>1. /\ q[Len(q)].parent = p /\ q[Len(q)].first_child = nullptr
        /\ q[Len(q)].next_sibling = pool[p].first_child
    BY <1>2, <1>4, <1>6
  <2>2. q \in Seq(Node) /\ Len(q) = Len(pool) + 1
    BY <1>1
  <2>3. \A n \in 1..Len(pool) :
           /\ q[n].name = pool[n].name /\ q[n].flags = pool[n].flags
           /\ q[n].parent = pool[n].parent /\ q[n].next_sibling = pool[n].next_sibling
           /\ q[n].first_child = IF n = p THEN Len(q) ELSE pool[n].first_child
    BY <1>7
  <2>4. OneLonger(pool, q, p)
    BY <1>3, <2>1, <2>2, <2>3 DEF OneLonger
  <2> QED BY <1>2, <2>4, OneMore
<1>9. TakesName(pool, q, p, name)
  BY <1>4, <1>6, <1>8
<1> QED BY <1>1, <1>4, <1>5, <1>6, <1>7, <1>8, <1>9 DEF q

(* The files it keeps, and the new one.                                     *)
LEMMA CreatedFiles ==
    ASSUME NEW pool, PoolOK(pool), NEW ws, AllNewest(pool, ws), Len(pool) < MAX_NODES,
           NEW p \in DOMAIN pool, TreeDir(pool, p),
           NEW name \in Names, NEW flags \in {"FILE", "DIR"}
    PROVE  AllNewest(Created(pool, p, name, flags), Append(ws, <<>>))
<1> DEFINE q == Created(pool, p, name, flags)
<1>1. /\ Len(q) = Len(pool) + 1 /\ Newest(q[Len(q)], <<>>)
      /\ \A n \in 1..Len(pool) : q[n].data = pool[n].data /\ q[n].size = pool[n].size
  BY CreatedLinks
<1>2. Len(pool) \in Nat
  BY PoolFacts
<1> HIDE DEF q
<1>3. AllNewest(q, Append(ws, <<>>))
  BY <1>1, <1>2, OneMoreFile
<1> QED BY <1>3 DEF q

(* Creating a node in a directory of the disk: no name changes its meaning. *)
LEMMA LooseLinks ==
    ASSUME NEW pool, PoolOK(pool), Len(pool) < MAX_NODES,
           NEW name \in Names, NEW flags \in {"FILE", "DIR"}, NEW sibling \in Link
    PROVE  LET q == Append(pool, NewNode(name, flags, outside, sibling))
           IN  /\ PoolOK(q) /\ Len(q) = Len(pool) + 1 /\ Newest(q[Len(q)], <<>>)
               /\ q[Len(q)].parent = outside
               /\ \A n \in 1..Len(pool) : q[n] = pool[n]
               /\ \A d \in 1..Len(pool) : \A nm : Named(q, d, nm) = Named(pool, d, nm)
<1> DEFINE new == NewNode(name, flags, outside, sibling)
           q == Append(pool, new)
<1>1. /\ q \in Seq(Node) /\ Len(q) = Len(pool) + 1 /\ q[Len(pool) + 1] = new
      /\ \A n \in 1..Len(pool) : q[n] = pool[n]
  BY LooseIs
<1>2. Len(pool) \in Nat /\ outside \notin 1..Len(pool)
  BY PoolFacts DEF outside
<1>3. Len(q) <= MAX_NODES
  <2> HIDE DEF q
  <2> QED BY <1>1, <1>2, RamfsAssumption
<1>4. new.parent = outside /\ new.first_child = nullptr
  BY DEF NewNode
<1>5. Newest(new, <<>>)
  BY NewIsNewest
<1> HIDE DEF q, new
<1>6. q[Len(q)] = new
  BY <1>1
<1>7. \A n \in 1..Len(pool) : n # outside
  BY <1>2
<1>8. PoolOK(q) /\ TakesName(pool, q, outside, q[Len(q)].name)
  <2>1. OneLonger(pool, q, outside)
    BY <1>1, <1>3, <1>4, <1>6, <1>7 DEF OneLonger
  <2> QED BY <1>2, <2>1, OneMore
<1>9. ASSUME NEW d \in 1..Len(pool), NEW nm PROVE Named(q, d, nm) = Named(pool, d, nm)
  <2>1. Named(q, d, nm) = Named(pool, d, nm) \cup
           IF d = outside /\ nm = q[Len(q)].name THEN {Len(q)} ELSE {}
    BY <1>8 DEF TakesName
  <2> QED BY <1>7, <2>1
<1> QED BY <1>1, <1>4, <1>5, <1>6, <1>8, <1>9 DEF q, new

(* The files it keeps, and the new one.                                     *)
LEMMA LooseFiles ==
    ASSUME NEW pool, PoolOK(pool), NEW ws, AllNewest(pool, ws), Len(pool) < MAX_NODES,
           NEW name \in Names, NEW flags \in {"FILE", "DIR"}, NEW sibling \in Link
    PROVE  AllNewest(Append(pool, NewNode(name, flags, outside, sibling)), Append(ws, <<>>))
<1> DEFINE q == Append(pool, NewNode(name, flags, outside, sibling))
<1>1. /\ Len(q) = Len(pool) + 1 /\ Newest(q[Len(q)], <<>>)
      /\ \A n \in 1..Len(pool) : q[n] = pool[n]
  BY LooseLinks
<1>2. Len(pool) \in Nat
  BY PoolFacts
<1> HIDE DEF q
<1>3. AllNewest(q, Append(ws, <<>>))
  BY <1>1, <1>2, OneMoreFile
<1> QED BY <1>3 DEF q

(* Writing to a file, numbered by the writes to it so far.                  *)
LEMMA WriteKeeps ==
    ASSUME NEW pool, PoolOK(pool), NEW ws, AllNewest(pool, ws), NEW n \in DOMAIN pool,
           NEW length \in Nat
    PROVE  AllNewest(ramfs_write(pool, n, length, Len(ws[n]) + 1),
                     [ws EXCEPT ![n] = Append(ws[n], length)])
<1> DEFINE q == ramfs_write(pool, n, length, Len(ws[n]) + 1)
           new == Append(ws[n], length)
           all == [ws EXCEPT ![n] = new]
<1>1. /\ n \in 1..Len(pool) /\ pool[n] \in Node /\ ws \in Seq(Seq(Nat))
      /\ Len(ws) = Len(pool) /\ n \in 1..Len(ws)
  BY PoolFacts DEF AllNewest
<1>2. ws[n] \in Seq(Nat)
  BY <1>1, ElementOfSeq
<1>3. Len(ws[n]) + 1 \in Nat /\ new \in Seq(Nat)
  BY <1>2, AppendProperties, LenProperties
<1>4. /\ Len(q) = Len(pool)
      /\ \A m \in 1..Len(pool) :
            q[m] = IF m = n THEN Written(pool[n], length, Len(ws[n]) + 1) ELSE pool[m]
  BY <1>3, WriteKeepsLinks
<1> HIDE DEF q
<1>5. /\ all \in Seq(Seq(Nat)) /\ Len(all) = Len(ws)
      /\ \A m \in 1..Len(ws) : all[m] = IF m = n THEN new ELSE ws[m]
  <2> HIDE DEF new
  <2> QED BY <1>1, <1>3, ExceptSeq
<1> HIDE DEF all
<1>6. ASSUME NEW m \in 1..Len(pool) PROVE Newest(q[m], all[m])
  <2>1. Newest(pool[m], ws[m])
    BY DEF AllNewest
  <2>2. CASE m = n
    <3>1. q[m] = Written(pool[n], length, Len(ws[n]) + 1) /\ all[m] = new
      BY <1>1, <1>4, <1>5, <2>2
    <3>2. Newest(Written(pool[n], length, Len(ws[n]) + 1), new)
      BY <1>1, <1>2, <2>1, <2>2, WrittenIsNewest
    <3> QED BY <3>1, <3>2
  <2>3. CASE m # n
    <3>1. q[m] = pool[m] /\ all[m] = ws[m]
      BY <1>1, <1>4, <1>5, <2>3
    <3> QED BY <2>1, <3>1
  <2> QED BY <2>2, <2>3
<1>7. AllNewest(q, all)
  BY <1>1, <1>4, <1>5, <1>6 DEF AllNewest
<1> QED BY <1>7 DEF q, all

-----------------------------------------------------------------------------
(* What paths reach *)

(* The root is reached, and its parent is the root.                         *)
LEMMA RootReached ==
    ASSUME NEW pool, PoolOK(pool)
    PROVE  /\ Reached(pool, {root_node}) /\ root_node \in DOMAIN pool
           /\ pool[root_node].parent = root_node /\ pool[root_node].flags = "DIR"
<1>1. root_node \in 1..Len(pool) /\ DOMAIN pool = 1..Len(pool)
  BY PoolFacts DEF root_node
<1>2. pool[root_node].parent = root_node /\ pool[root_node].flags = "DIR"
  BY <1>1, PoolFacts DEF LinksOK
<1> QED BY <1>1, <1>2 DEF Reached

(* So is what a lookup finds in a directory that is.                        *)
LEMMA FoundReached ==
    ASSUME NEW pool, PoolOK(pool), NEW V, Reached(pool, V), NEW d \in V,
           NEW name, name \notin {".", ".."}, ramfs_finddir(pool, d, name) # nullptr
    PROVE  LET n == ramfs_finddir(pool, d, name)
           IN  Reached(pool, V \cup {n}) /\ n \in DOMAIN pool
<1> DEFINE n == ramfs_finddir(pool, d, name)
<1>1. d \in DOMAIN pool
  BY DEF Reached
<1>2. IsLast(n, Named(pool, d, name))
  BY <1>1, FinddirLast
<1> HIDE DEF n
<1>3. n # nullptr
  BY DEF n
<1>4. n \in Named(pool, d, name) /\ \A m \in Named(pool, d, name) : m <= n
  BY <1>2, <1>3 DEF IsLast
<1>5. /\ n \in DOMAIN pool /\ n # root_node
      /\ pool[n].parent = d /\ pool[n].name = name
  BY <1>4 DEF Named, Kids
<1>6. Reached(pool, V \cup {n})
  BY <1>4, <1>5 DEF Reached
<1> QED BY <1>5, <1>6 DEF n

(* A node that is reached is what its name stands for in its parent.        *)
LEMMA ReachedIsFound ==
    ASSUME NEW pool, PoolOK(pool), NEW V, Reached(pool, V), NEW n \in V, n # root_node
    PROVE  /\ ramfs_finddir(pool, pool[n].parent, pool[n].name) = n
           /\ pool[pool[n].parent].flags = "DIR" /\ pool[n].parent < n
<1> DEFINE d == pool[n].parent
<1>1. n \in DOMAIN pool /\ d \in DOMAIN pool
  BY DEF Reached
<1>2. IsLast(ramfs_finddir(pool, d, pool[n].name), Named(pool, d, pool[n].name))
  BY <1>1, FinddirLast
<1>3. n \in Named(pool, d, pool[n].name)
  BY <1>1 DEF Named, Kids
<1>4. IsLast(n, Named(pool, d, pool[n].name))
  BY <1>3 DEF IsLast, Reached
<1>5. Named(pool, d, pool[n].name) \subseteq Nat
  BY PoolFacts DEF Named
<1>6. d # outside
  BY <1>1, PoolFacts DEF outside
<1>7. d < n /\ (d # outside => pool[d].flags = "DIR")
  BY <1>1, PoolFacts DEF LinksOK, TreeDir
<1> QED BY <1>2, <1>4, <1>5, <1>6, <1>7, LastUnique

(* Creating a node in a directory that is reached hides none of the         *)
(* directories above it: these come before it in the pool.                  *)
LEMMA CreatedReaches ==
    ASSUME NEW pool, PoolOK(pool), NEW V, Reached(pool, V), NEW p \in V,
           NEW q, PoolOK(q), Len(pool) < Len(q),
           \A n \in 1..Len(pool) : q[n].name = pool[n].name /\ q[n].parent = pool[n].parent,
           \A d \in 1..Len(pool) : d # p => \A nm : Named(q, d, nm) = Named(pool, d, nm)
    PROVE  LET W == {n \in V : n <= p} IN Reached(q, W) /\ p \in W
<1> DEFINE W == {n \in V : n <= p}
<1>1. /\ V \subseteq 1..Len(pool) /\ DOMAIN q = 1..Len(q) /\ Len(pool) \in Nat
      /\ Len(q) \in Nat /\ p \in Nat
  BY PoolFacts DEF Reached
<1>2. W \subseteq DOMAIN q /\ root_node \in W /\ p \in W
  BY <1>1 DEF Reached, root_node
<1>3. ASSUME NEW n \in W, n # root_node
      PROVE  /\ pool[n].parent \in W /\ pool[n].parent # p /\ pool[n].parent \in 1..Len(pool)
  <2>1. n \in V /\ n <= p /\ n \in Nat
    BY <1>1
  <2>2. pool[n].parent \in V /\ pool[n].parent \in 1..Len(pool)
    BY <1>1, <2>1 DEF Reached
  <2>3. pool[n].parent < n
    BY <1>3, <2>1, ReachedIsFound
  <2> QED BY <1>1, <2>1, <2>2, <2>3
<1>4. ASSUME NEW n \in W PROVE q[n].parent \in W
  <2>1. n \in 1..Len(pool)
    BY <1>1
  <2>2. CASE n = root_node
    BY <1>2, <2>1, <2>2, RootReached
  <2>3. CASE n # root_node
    BY <1>3, <2>1, <2>3
  <2> QED BY <2>2, <2>3
<1>5. ASSUME NEW n \in W \ {root_node}
      PROVE  /\ q[n].name \notin {".", ".."}
             /\ \A m \in Named(q, q[n].parent, q[n].name) : m <= n
  <2>1. n \in 1..Len(pool) /\ n \in V
    BY <1>1
  <2>2. q[n].name = pool[n].name /\ q[n].parent = pool[n].parent
    BY <2>1
  <2>3. /\ pool[n].name \notin {".", ".."}
        /\ \A m \in Named(pool, pool[n].parent, pool[n].name) : m <= n
    BY <2>1 DEF Reached
  <2> DEFINE d == pool[n].parent
             nm == pool[n].name
  <2>4. d \in 1..Len(pool) /\ d # p
    BY <1>3
  <2> HIDE DEF d, nm
  <2>6. Named(q, d, nm) = Named(pool, d, nm)
    BY <2>4
  <2> QED BY <2>2, <2>3, <2>6 DEF d, nm
<1> QED BY <1>2, <1>4, <1>5 DEF Reached
=============================================================================
