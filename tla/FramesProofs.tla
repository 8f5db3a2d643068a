---------------------------- MODULE FramesProofs ----------------------------
(***************************************************************************)
(* For every amount of RAM: used_pages is the number of set bits,          *)
(* pmm_alloc_page hands out free pages and fails only when there is none,  *)
(* and whatever the shell commands allocate and give back, no page in use  *)
(* is free and no page has two owners.                                     *)
(***************************************************************************)
EXTENDS Frames, FiniteSetTheorems, Lemmas

-----------------------------------------------------------------------------
(* The page allocator. *)

PmmInv == PmmTypeOK /\ CountExact

(* The bitmap covers total_pages pages.                                     *)
LEMMA PagesFinite == IsFiniteSet(Pages) /\ Cardinality(Pages) = total_pages
<1>1. 0 \in Int /\ total_pages - 1 \in Int
  BY PmmAssumption
<1> QED BY <1>1, FS_Interval, PmmAssumption DEF Pages

(* The count stays within RAM because it is the size of a set of pages.     *)
LEMMA CountInRange ==
    ASSUME NEW b, b \subseteq Pages
    PROVE  /\ IsFiniteSet(b) /\ Cardinality(b) \in 0..total_pages
           /\ Cardinality(b) = total_pages <=> b = Pages
<1>1. IsFiniteSet(b) /\ Cardinality(b) <= Cardinality(Pages)
      /\ (Cardinality(b) = Cardinality(Pages) => b = Pages)
  BY PagesFinite, FS_Subset
<1>2. Cardinality(b) \in Nat
  BY <1>1, FS_CardinalityType
<1> QED BY <1>1, <1>2, PagesFinite, PmmAssumption

(* pmm_init counts the pages it reserves.                                   *)
LEMMA PmmInitInv == pmm_init => PmmInv
<1> SUFFICES ASSUME pmm_init PROVE PmmInv
  OBVIOUS
<1>1. used_pages \in 0..total_pages /\ bitmap = 0..(used_pages - 1) /\ returned = -1
  BY PmmAssumption DEF pmm_init
<1>2. bitmap \subseteq Pages
  BY <1>1, PmmAssumption DEF Pages
<1>3. IsFiniteSet(bitmap) /\ Cardinality(bitmap) = used_pages
  <2>1. 0 \in Int /\ used_pages - 1 \in Int
    BY <1>1, PmmAssumption
  <2> QED BY <1>1, <2>1, FS_Interval, PmmAssumption
<1> QED BY <1>1, <1>2, <1>3 DEF PmmInv, PmmTypeOK, CountExact

(* pmm_alloc_page sets one clear bit and counts it.                         *)
LEMMA AllocInv == PmmInv /\ pmm_alloc_page => PmmInv'
<1> SUFFICES ASSUME PmmInv, pmm_alloc_page PROVE PmmInv'
  OBVIOUS
<1> USE DEF PmmInv
<1>1. CASE Pages \subseteq bitmap /\ returned' = -1 /\ UNCHANGED <<bitmap, used_pages>>
  BY <1>1 DEF PmmTypeOK, CountExact
<1>2. ASSUME NEW i \in Pages, FirstFree(bitmap, i), bitmap' = bitmap \cup {i},
             used_pages' = used_pages + 1, returned' = i
      PROVE  PmmInv'
  <2>1. bitmap' \subseteq Pages /\ i \notin bitmap
    BY <1>2 DEF PmmTypeOK, FirstFree
  <2>2. IsFiniteSet(bitmap') /\ Cardinality(bitmap') = Cardinality(bitmap) + 1
    BY <1>2, <2>1, FS_AddElement DEF CountExact
  <2> QED BY <1>2, <2>1, <2>2, CountInRange DEF PmmTypeOK, CountExact
<1> QED BY <1>1, <1>2 DEF pmm_alloc_page

(* pmm_free_page clears a set bit and counts it, or does nothing.           *)
LEMMA FreeInv ==
    ASSUME PmmInv, NEW page, pmm_free_page(page)
    PROVE  PmmInv'
<1> USE DEF PmmInv
<1>1. CASE UNCHANGED <<bitmap, used_pages>>
  BY <1>1 DEF pmm_free_page, PmmTypeOK, CountExact
<1>2. CASE page \in bitmap /\ bitmap' = bitmap \ {page} /\ used_pages' = used_pages - 1
  <2>1. IsFiniteSet(bitmap') /\ Cardinality(bitmap') = Cardinality(bitmap) - 1
    BY <1>2, FS_RemoveElement DEF CountExact
  <2>2. bitmap' \subseteq Pages
    BY <1>2 DEF PmmTypeOK
  <2> QED BY <1>2, <2>1, <2>2, CountInRange DEF pmm_free_page, PmmTypeOK, CountExact
<1> QED BY <1>1, <1>2 DEF pmm_free_page

(* Both operations keep the invariant.                                      *)
LEMMA PmmNextInv == PmmInv /\ [PmmNext]_pmmVars => PmmInv'
<1>1. PmmInv /\ UNCHANGED pmmVars => PmmInv'
  BY DEF PmmInv, PmmTypeOK, CountExact, pmmVars
<1> QED BY <1>1, AllocInv, FreeInv DEF PmmNext

(* The invariant holds throughout.                                          *)
LEMMA PmmInvariant == PmmSpec => []PmmInv
BY PmmInitInv, PmmNextInv, PTL DEF PmmSpec

(* The page count stays between zero and the amount of RAM.                 *)
THEOREM PmmTypesCorrect == PmmSpec => []PmmTypeOK
BY PmmInvariant, PTL DEF PmmInv

(* pmm_used_pages() is exact after every sequence of allocations and frees. *)
THEOREM CountIsExact == PmmSpec => []CountExact
BY PmmInvariant, PTL DEF PmmInv

(* A page that is handed out was free, and none is only when all are used.  *)
AllocStep ==
    IF pmm_free_pages = 0 THEN returned' = -1
    ELSE returned' \in Pages \ bitmap /\ returned' \in bitmap'

LEMMA AllocTakesFree == PmmInv /\ pmm_alloc_page => AllocStep
<1> SUFFICES ASSUME PmmInv, pmm_alloc_page PROVE AllocStep
  OBVIOUS
<1>1. pmm_free_pages = 0 <=> bitmap = Pages
  BY CountInRange, PmmAssumption DEF PmmInv, PmmTypeOK, CountExact, pmm_free_pages
<1>2. CASE Pages \subseteq bitmap /\ returned' = -1
  BY <1>1, <1>2 DEF PmmInv, PmmTypeOK, AllocStep
<1>3. ASSUME NEW i \in Pages, FirstFree(bitmap, i), bitmap' = bitmap \cup {i}, returned' = i
      PROVE  AllocStep
  BY <1>1, <1>3 DEF FirstFree, AllocStep
<1> QED BY <1>2, <1>3 DEF pmm_alloc_page

(* pmm_alloc_page never hands out a page that is in use, and fails only     *)
(* when all are.                                                            *)
THEOREM AllocIsFresh == PmmSpec => AllocFresh
<1>1. PmmInv /\ [PmmNext]_pmmVars => [pmm_alloc_page => AllocStep]_pmmVars
  BY AllocTakesFree
<1> QED BY <1>1, PmmInvariant, PTL DEF PmmSpec, AllocFresh, AllocStep

-----------------------------------------------------------------------------
(* Several allocations in a row. *)

Below(S, page) == {p \in S : p < page}

(* Below(S, page) grows with page, strictly at the members of S.            *)
LEMMA BelowGrows ==
    ASSUME NEW S, S \subseteq Nat, IsFiniteSet(S), NEW p \in S, NEW q \in S
    PROVE  /\ IsFiniteSet(Below(S, p)) /\ Cardinality(Below(S, p)) \in Nat
           /\ Cardinality(Below(S, p)) < Cardinality(S)
           /\ p < q <=> Cardinality(Below(S, p)) < Cardinality(Below(S, q))
<1>1. ASSUME NEW T, IsFiniteSet(T), NEW x \in T, NEW U, U \subseteq T, x \notin U
      PROVE  IsFiniteSet(U) /\ Cardinality(U) \in Nat /\ Cardinality(U) < Cardinality(T)
  <2>1. IsFiniteSet(U) /\ Cardinality(U) <= Cardinality(T)
        /\ (Cardinality(U) = Cardinality(T) => U = T)
    BY <1>1, FS_Subset
  <2>2. Cardinality(U) \in Nat /\ Cardinality(T) \in Nat /\ U # T
    BY <1>1, <2>1, FS_CardinalityType
  <2> QED BY <2>1, <2>2
<1>2. ASSUME NEW x \in S
      PROVE  IsFiniteSet(Below(S, x)) /\ Cardinality(Below(S, x)) \in Nat
             /\ Cardinality(Below(S, x)) < Cardinality(S)
  <2>1. Below(S, x) \subseteq S /\ x \notin Below(S, x)
    BY DEF Below
  <2> QED BY <1>1, <2>1
<1>3. ASSUME NEW x \in S, NEW y \in S, x < y
      PROVE  Cardinality(Below(S, x)) < Cardinality(Below(S, y))
  <2>0. ASSUME NEW z \in S, z < x PROVE z < y
    <3>1. x \in Nat /\ y \in Nat /\ z \in Nat
      OBVIOUS
    <3> QED BY <1>3, <2>0, <3>1
  <2>1. Below(S, x) \subseteq Below(S, y)
    BY <2>0 DEF Below
  <2>2. x \in Below(S, y) /\ x \notin Below(S, x)
    BY <1>3 DEF Below
  <2> QED BY <1>1, <1>2, <2>1, <2>2
<1>4. p < q \/ q < p \/ p = q
  OBVIOUS
<1> QED BY <1>2, <1>3, <1>4

(* A set of n numbers has an i-th least member for every i up to n.         *)
LEMMA LeastExists ==
    ASSUME NEW S, S \subseteq Nat, IsFiniteSet(S), NEW i \in 1..Cardinality(S)
    PROVE  Least(S, i) \in S /\ Cardinality(Below(S, Least(S, i))) = i - 1
<1> DEFINE Has(k) == \E page \in S : Cardinality(Below(S, page)) = k - 1
           N == Cardinality(S)
           Missing == {k \in 1..N : ~Has(k)}
<1>0. N \in Nat
  BY FS_CardinalityType
<1>1. ASSUME Missing # {} PROVE FALSE
  <2>1. PICK k \in Missing : \A m \in Missing : k <= m
    <3>1. Missing \subseteq Nat
      BY <1>0
    <3> HIDE DEF Missing
    <3> QED BY <1>1, <3>1, LeastNumber
  <2>2. k \in 1..N /\ ~Has(k)
    OBVIOUS
  <2> HIDE DEF Missing
  <2>3. CASE k = 1
    <3>1. S # {}
      BY <2>2, FS_EmptySet
    <3>2. PICK x \in S : \A y \in S : x <= y
      BY <3>1, LeastNumber
    <3>3. Below(S, x) = {}
      <4>1. \A y \in S : x \in Nat /\ y \in Nat /\ ~(y < x)
        BY <3>2
      <4> QED BY <4>1 DEF Below
    <3> QED BY <2>2, <2>3, <3>3, FS_EmptySet
  <2>4. CASE k > 1
    <3>1. k - 1 \in 1..N /\ k - 1 \notin Missing
      BY <1>0, <2>1, <2>2, <2>4
    <3>2. PICK x \in S : Cardinality(Below(S, x)) = (k - 1) - 1
      BY <3>1 DEF Missing
    <3> DEFINE T == Below(S, x) \cup {x}
    <3>3. IsFiniteSet(T) /\ Cardinality(T) = k - 1
      <4>1. IsFiniteSet(Below(S, x)) /\ x \notin Below(S, x)
        <5>1. x \notin Below(S, x)
          BY DEF Below
        <5> QED BY <5>1, BelowGrows
      <4> QED BY <2>2, <3>2, <4>1, FS_AddElement
    <3>4. S \ T # {}
      <4>1. SUFFICES ASSUME S \ T = {} PROVE FALSE
        OBVIOUS
      <4>2. S = T
        BY <4>1 DEF Below
      <4> QED BY <1>0, <2>2, <3>3, <4>2
    <3>5. PICK y \in S \ T : \A z \in S \ T : y <= z
      <4>1. S \ T \subseteq Nat
        OBVIOUS
      <4> QED BY <3>4, <4>1, LeastNumber
    <3>6. Below(S, y) = T
      <4>1. x \in Nat /\ y \in Nat /\ \A z \in S : z \in Nat
        BY <3>5
      <4>2. y # x /\ ~(y < x)
        BY <3>5 DEF Below
      <4>3. ASSUME NEW z \in S PROVE z < y <=> z \in T
        BY <3>5, <4>1, <4>2 DEF Below
      <4> QED BY <4>3 DEF Below
    <3> QED BY <2>2, <3>3, <3>5, <3>6
  <2> QED BY <2>2, <2>3, <2>4
<1>2. PICK page \in S : Cardinality(Below(S, page)) = i - 1
  BY <1>1
<1> QED BY <1>2 DEF Least, Below

Free == Pages \ bitmap

(* Fresh lists the free pages, each once, in ascending order.               *)
LEMMA FreshFacts ==
    /\ Fresh \in Seq(Free) /\ Len(Fresh) \in Nat
    /\ \A i \in 1..Len(Fresh) : Fresh[i] \in Free /\ Cardinality(Below(Free, Fresh[i])) = i - 1
    /\ \A i, j \in 1..Len(Fresh) : i < j => Fresh[i] < Fresh[j]
<1> DEFINE N == Cardinality(Free)
<1>1. Free \subseteq Nat /\ IsFiniteSet(Free) /\ N \in Nat
  <2>1. Free \subseteq Pages /\ Pages \subseteq Nat
    BY PmmAssumption DEF Free, Pages
  <2>2. IsFiniteSet(Free) /\ N \in 0..total_pages
    BY <2>1, CountInRange
  <2> QED BY <2>1, <2>2, PmmAssumption
<1>2. Fresh = [i \in 1..N |-> Least(Free, i)]
  BY DEF Fresh, Free
<1>3. \A i \in 1..N : Least(Free, i) \in Free /\ Cardinality(Below(Free, Least(Free, i))) = i - 1
  BY <1>1, LeastExists
<1> HIDE DEF N
<1>4. Fresh \in Seq(Free) /\ Len(Fresh) = N
  BY <1>1, <1>2, <1>3
<1>5. \A i \in 1..N : Fresh[i] \in Free /\ Cardinality(Below(Free, Fresh[i])) = i - 1
  BY <1>2, <1>3
<1>6. ASSUME NEW i \in 1..N, NEW j \in 1..N, i < j PROVE Fresh[i] < Fresh[j]
  <2>1. Cardinality(Below(Free, Fresh[i])) < Cardinality(Below(Free, Fresh[j]))
    BY <1>1, <1>5, <1>6
  <2>2. Fresh[i] \in Free /\ Fresh[j] \in Free
    BY <1>5
  <2> QED BY <1>1, <2>1, <2>2, BelowGrows
<1> QED BY <1>1, <1>4, <1>5, <1>6

(* Fresh is what successive calls of pmm_alloc_page return: each call finds *)
(* the first clear bit of the bitmap the calls before it have left, and     *)
(* after the last one there is none.                                        *)
THEOREM FreshIsSuccessiveAllocs ==
    /\ \A i \in 1..Len(Fresh) : FirstFree(bitmap \cup FirstFresh(i - 1), Fresh[i])
    /\ Pages \subseteq bitmap \cup FirstFresh(Len(Fresh))
<1>1. Free \subseteq Nat /\ IsFiniteSet(Free) /\ Cardinality(Free) = Len(Fresh)
  <2>1. Free \subseteq Pages /\ Pages \subseteq Nat
    BY PmmAssumption DEF Free, Pages
  <2>2. IsFiniteSet(Free) /\ Cardinality(Free) \in Nat
    BY <2>1, CountInRange, FS_CardinalityType
  <2>3. Fresh = [i \in 1..Cardinality(Free) |-> Least(Free, i)]
    BY DEF Fresh, Free
  <2> QED BY <2>1, <2>2, <2>3
<1>2. ASSUME NEW p \in Free
      PROVE  LET r == Cardinality(Below(Free, p)) IN r + 1 \in 1..Len(Fresh) /\ p = Fresh[r + 1]
  <2> DEFINE r == Cardinality(Below(Free, p))
  <2>1. r \in Nat /\ r + 1 \in 1..Len(Fresh)
    <3>1. r \in Nat /\ r < Cardinality(Free)
      BY <1>1, BelowGrows
    <3>2. Cardinality(Free) \in Nat
      BY <1>1, FS_CardinalityType
    <3> QED BY <1>1, <3>1, <3>2
  <2>2. Fresh[r + 1] \in Free /\ Cardinality(Below(Free, Fresh[r + 1])) = r
    BY <2>1, FreshFacts
  <2>3. ~(p < Fresh[r + 1]) /\ ~(Fresh[r + 1] < p)
    <3> HIDE DEF r
    <3>1. ~(r < r)
      BY <2>1
    <3> QED BY <1>1, <2>2, <3>1, BelowGrows DEF r
  <2>4. p \in Nat /\ Fresh[r + 1] \in Nat
    BY <1>1, <2>2
  <2> QED BY <2>1, <2>3, <2>4
<1>3. ASSUME NEW i \in 1..Len(Fresh)
      PROVE  FirstFree(bitmap \cup FirstFresh(i - 1), Fresh[i])
  <2>1. Fresh[i] \in Free
    BY FreshFacts
  <2>2. Fresh[i] \notin FirstFresh(i - 1)
    <3>1. ASSUME NEW j \in 1..(i - 1) PROVE Fresh[j] < Fresh[i] /\ Fresh[j] \in Nat
      <4>1. Fresh \in Seq(Free) /\ Len(Fresh) \in Nat
        BY FreshFacts
      <4>2. j \in 1..Len(Fresh) /\ j < i
        BY <4>1
      <4> QED BY <1>1, <4>2, FreshFacts
    <3> QED BY <1>1, <2>1, <3>1 DEF FirstFresh
  <2>3. ASSUME NEW j \in 0..(Fresh[i] - 1), j \notin bitmap PROVE j \in FirstFresh(i - 1)
    <3>1. j \in Free /\ j < Fresh[i]
      BY <1>1, <2>1, <2>3, PmmAssumption DEF Free, Pages
    <3> DEFINE r == Cardinality(Below(Free, j))
    <3>2. r + 1 \in 1..Len(Fresh) /\ j = Fresh[r + 1]
      BY <1>2, <3>1
    <3>3. r \in Nat /\ r < i - 1
      <4>1. Cardinality(Below(Free, Fresh[i])) = i - 1
        BY FreshFacts
      <4>2. r \in Nat /\ r < Cardinality(Below(Free, Fresh[i]))
        BY <1>1, <2>1, <3>1, BelowGrows
      <4> QED BY <4>1, <4>2
    <3> QED BY <3>2, <3>3 DEF FirstFresh
  <2> QED BY <2>1, <2>2, <2>3 DEF FirstFree, Free
<1>4. Pages \subseteq bitmap \cup FirstFresh(Len(Fresh))
  BY <1>2 DEF FirstFresh, Free
<1> QED BY <1>3, <1>4

(* The pages of k calls are free pages.                                     *)
LEMMA FirstFreshFree ==
    ASSUME NEW k \in 0..Len(Fresh)
    PROVE  FirstFresh(k) \subseteq Pages /\ FirstFresh(k) \cap bitmap = {}
<1>1. ASSUME NEW i \in 1..k PROVE Fresh[i] \in Pages \ bitmap
  <2>1. i \in 1..Len(Fresh)
    BY FreshFacts
  <2> QED BY <2>1, FreshFacts DEF Free
<1> QED BY <1>1 DEF FirstFresh

(* heap_grow takes no more pages than there are.                            *)
LEMMA GrowTakenInRange == GrowTaken \in 0..Len(Fresh)
<1> DEFINE L == Len(Fresh)
           Ends == {m \in 0..L : m < L => Fresh[m + 1] # Fresh[1] + m}
<1>1. L \in Nat /\ L \in Ends /\ Ends \subseteq Nat
  BY FreshFacts
<1>2. PICK m \in Ends : \A n \in Ends : m <= n
  <2> HIDE DEF Ends
  <2> QED BY <1>1, LeastNumber
<1>3. m \in 0..L /\ (m < L => Fresh[m + 1] # Fresh[1] + m)
  OBVIOUS
<1>4. ASSUME NEW i \in 1..m PROVE Fresh[i] = Fresh[1] + i - 1
  <2>1. i - 1 \in 0..L /\ i - 1 < L /\ i - 1 \notin Ends
    BY <1>1, <1>2, <1>3
  <2>2. Fresh[(i - 1) + 1] = Fresh[1] + (i - 1)
    BY <2>1
  <2>3. (i - 1) + 1 = i /\ i \in 1..L /\ 1 \in 1..L
    BY <1>1, <1>3
  <2>4. Fresh[1] \in Nat
    BY <2>3, FreshFacts, PmmAssumption DEF Free, Pages
  <2> QED BY <2>2, <2>3, <2>4
<1>5. \E n \in 0..Len(Fresh) : /\ \A i \in 1..n : Fresh[i] = Fresh[1] + i - 1
                               /\ n < Len(Fresh) => Fresh[n + 1] # Fresh[1] + n
  BY <1>3, <1>4
<1>6. GrowRun \in 0..L
  BY <1>5 DEF GrowRun
<1> QED BY <1>1, <1>6, GrowAssumption DEF GrowTaken, GrowContiguous

(* Setting bits, then clearing some, is counted like single calls are.      *)
LEMMA HoldingInv ==
    ASSUME PmmInv, NEW set \in SUBSET Pages, NEW cleared, Holding(set, cleared)
    PROVE  PmmInv'
<1> DEFINE new == set \ bitmap
           all == bitmap \cup set
<1>1. IsFiniteSet(bitmap) /\ Cardinality(bitmap) \in Nat /\ used_pages = Cardinality(bitmap)
  BY FS_CardinalityType DEF PmmInv, CountExact
<1>2. IsFiniteSet(new) /\ Cardinality(new) \in Nat /\ bitmap \cap new = {} /\ all = bitmap \cup new
  <2>1. new \subseteq Pages
    OBVIOUS
  <2> QED BY <2>1, CountInRange, FS_CardinalityType
<1> HIDE DEF new
<1>3. IsFiniteSet(all) /\ Cardinality(all) = Cardinality(bitmap) + Cardinality(new)
  <2>1. Cardinality(bitmap \cap new) = 0
    BY <1>2, FS_EmptySet
  <2>2. IsFiniteSet(bitmap \cup new)
        /\ Cardinality(bitmap \cup new)
              = Cardinality(bitmap) + Cardinality(new) - Cardinality(bitmap \cap new)
    BY <1>1, <1>2, FS_Union
  <2> HIDE DEF all
  <2> QED BY <1>1, <1>2, <2>1, <2>2
<1>4. IsFiniteSet(all \ cleared)
      /\ Cardinality(all \ cleared) = Cardinality(all) - Cardinality(all \cap cleared)
  <2> HIDE DEF all
  <2> QED BY <1>3, FS_Difference
<1>5. bitmap' = all \ cleared /\ returned' = returned
      /\ used_pages' = used_pages + Cardinality(new) - Cardinality(all \cap cleared)
  <2>1. all \cap cleared = cleared \cap (bitmap \cup set)
    OBVIOUS
  <2> QED BY <2>1 DEF Holding, new
<1>6. bitmap' \subseteq Pages
  BY <1>5 DEF PmmInv, PmmTypeOK
<1>7. used_pages' = Cardinality(bitmap') /\ IsFiniteSet(bitmap')
  <2>1. Cardinality(all \cap cleared) \in Nat
    <3>1. all \cap cleared \subseteq all
      OBVIOUS
    <3> HIDE DEF all
    <3> QED BY <1>3, <3>1, FS_Subset, FS_CardinalityType
  <2> HIDE DEF all
  <2> QED BY <1>1, <1>2, <1>3, <1>4, <1>5, <2>1
<1>8. used_pages' \in 0..total_pages
  BY <1>6, <1>7, CountInRange
<1> QED BY <1>5, <1>6, <1>7, <1>8 DEF PmmInv, PmmTypeOK, CountExact

(* Calls of pmm_alloc_page alone: the pages in use stay in use.             *)
LEMMA AllocatingInv ==
    ASSUME PmmInv, NEW k \in 0..Len(Fresh), Holding(FirstFresh(k), {})
    PROVE  PmmInv' /\ bitmap' = bitmap \cup FirstFresh(k)
<1>1. FirstFresh(k) \in SUBSET Pages
  BY FirstFreshFree
<1>2. PmmInv'
  BY <1>1, HoldingInv
<1> QED BY <1>2 DEF Holding

-----------------------------------------------------------------------------
(* Who owns the pages. *)

Purposes(p) ==
    /\ p.pd # p.pt /\ {p.pd, p.pt} \cap (p.kernel_stack \cup p.own) = {}
    /\ p.kernel_stack \cap p.own = {}

FramesInv ==
    /\ PmmInv /\ TypeOK /\ (loading => procs # <<>>)
    /\ NothingDangles /\ NoPageHasTwoOwners

(* The pages taken at boot are pages of RAM.                                *)
LEMMA BootFacts ==
    /\ BootPages \in Nat /\ user_code_phys \in 0..(BootPages - 1)
    /\ kernel_tables \subseteq 0..(BootPages - 1) /\ kernel_stacks \subseteq 0..(BootPages - 1)
    /\ 0..(BootPages - 1) \subseteq Pages
<1>1. table_count \in Nat
  BY PmmAssumption, FramesAssumption DEF table_count
<1> USE PmmAssumption, FramesAssumption
<1>2. user_code_phys \in Nat /\ user_code_phys >= RESERVED_PAGES + table_count
  BY <1>1 DEF user_code_phys
<1>3. BootPages \in Nat /\ BootPages = user_code_phys + 2 * KERNEL_PROCESSES + 1
  BY <1>2 DEF BootPages
<1>4. user_code_phys \in 0..(BootPages - 1) /\ kernel_stacks \subseteq 0..(BootPages - 1)
  BY <1>2, <1>3 DEF kernel_stacks
<1>5. kernel_tables \subseteq 0..(BootPages - 1)
  BY <1>1, <1>2, <1>3 DEF kernel_tables
<1>6. 0..(BootPages - 1) \subseteq Pages
  BY <1>3, RamAssumption DEF Pages
<1> QED BY <1>3, <1>4, <1>5, <1>6

(* After boot only the kernel has pages.                                    *)
LEMMA FramesInitInv == Init => FramesInv
<1> SUFFICES ASSUME Init PROVE FramesInv
  OBVIOUS
<1>1. PmmInv
  <2>1. bitmap \subseteq Pages /\ used_pages = BootPages
    BY BootFacts DEF Init
  <2>4. used_pages \in 0..total_pages
    BY <2>1, BootFacts, RamAssumption, PmmAssumption
  <2>2. IsFiniteSet(bitmap) /\ Cardinality(bitmap) = BootPages
    <3>1. 0 \in Int /\ BootPages - 1 \in Int /\ BootPages \in Nat
      BY BootFacts
    <3>2. bitmap = 0..(BootPages - 1)
      BY DEF Init
    <3> QED BY <3>1, <3>2, FS_Interval
  <2>3. returned \in Pages
    <3>1. BootPages - 1 \in 0..(BootPages - 1)
      BY BootFacts
    <3> QED BY <3>1, BootFacts DEF Init
  <2> QED BY <2>1, <2>2, <2>3, <2>4 DEF PmmInv, PmmTypeOK, CountExact
<1>2. TypeOK
  <2>1. kernel_map \in [VirtualPages -> Pages \cup {NoPage}]
    BY DEF Init, Unmapped
  <2>2. procs \in Seq(Space) /\ Len(procs) <= PROCESS_BOUND
    <3>1. procs = <<>> /\ PROCESS_BOUND \in Nat
      BY FramesAssumption DEF Init
    <3>2. procs \in Seq(Space) /\ Len(procs) = 0
      BY <3>1
    <3> QED BY <3>1, <3>2
  <2> QED BY <1>1, <2>1, <2>2 DEF Init, TypeOK, PmmInv
<1>3. Mapped(kernel_map) = {} /\ Tested = {} /\ ProcessIds = {}
  <2>1. kernel_map = Unmapped /\ test_page = NoPage /\ Len(procs) = 0
    BY DEF Init
  <2>2. Mapped(kernel_map) = {} /\ Tested = {}
    BY <2>1 DEF Mapped, Unmapped, Tested
  <2> QED BY <2>1, <2>2 DEF ProcessIds
<1>4. Shared \subseteq bitmap
  BY <1>3, BootFacts DEF Init, Shared
<1> QED BY <1>1, <1>2, <1>3, <1>4 DEF Init, FramesInv, NothingDangles, NoPageHasTwoOwners

(* The kernel's pages and a process's pages depend on nothing else.         *)
LEMMA SharedSame == UNCHANGED <<kernel_pt, kernel_map>> => Shared' = Shared
BY DEF Shared, Mapped

LEMMA SpaceSame ==
    ASSUME NEW i, procs'[i] = procs[i]
    PROVE  Private(i)' = Private(i) /\ Reached(i)' = Reached(i)
BY DEF Private, Reached, Mapped

(* Steps that only set bits of pages nobody knows of.                       *)
LEMMA LeakInv ==
    ASSUME FramesInv, PmmInv', bitmap \subseteq bitmap',
           UNCHANGED <<test_page, kernel_pt, kernel_map, procs, loading>>,
           stopped' \in {"", "recursion", "page fault"}
    PROVE  FramesInv'
<1>1. Shared' = Shared /\ Tested' = Tested /\ ProcessIds' = ProcessIds
      /\ \A i : Private(i)' = Private(i) /\ Reached(i)' = Reached(i)
  BY SharedSame, SpaceSame DEF Tested, ProcessIds
<1>2. TypeOK'
  BY DEF FramesInv, TypeOK, PmmInv
<1> QED BY <1>1, <1>2 DEF FramesInv, NothingDangles, NoPageHasTwoOwners

(* heap_grow, and process_create and elfinfo when memory runs out.          *)
LEMMA LeakSteps ==
    ASSUME FramesInv, NEW k \in 0..Len(Fresh), Holding(FirstFresh(k), {}),
           UNCHANGED <<test_page, kernel_pt, kernel_map, procs, loading>>,
           stopped' \in {"", "recursion", "page fault"}
    PROVE  FramesInv'
<1>1. PmmInv' /\ bitmap \subseteq bitmap'
  BY AllocatingInv DEF FramesInv
<1> QED BY <1>1, LeakInv

(* alloc: the page was free, so nobody else has it.                         *)
LEMMA ShellAllocInv == FramesInv /\ ShellAlloc => FramesInv'
<1> SUFFICES ASSUME FramesInv, ShellAlloc PROVE FramesInv'
  OBVIOUS
<1>1. PmmInv' /\ bitmap \subseteq bitmap' /\ test_page' \in (bitmap' \ bitmap) \cup {NoPage}
  <2>1. PmmInv'
    BY AllocInv DEF FramesInv, ShellAlloc
  <2> QED BY <2>1 DEF ShellAlloc, pmm_alloc_page, FirstFree, NoPage
<1>2. Shared' = Shared /\ ProcessIds' = ProcessIds /\ Tested' \subseteq bitmap' \ bitmap
      /\ \A i : Private(i)' = Private(i) /\ Reached(i)' = Reached(i)
  BY <1>1, SharedSame, SpaceSame DEF ShellAlloc, Tested, ProcessIds
<1>3. TypeOK'
  BY <1>1 DEF FramesInv, TypeOK, PmmInv, PmmTypeOK, ShellAlloc
<1>4. NothingDangles'
  BY <1>1, <1>2 DEF FramesInv, NothingDangles
<1>5. NoPageHasTwoOwners'
  <2>1. Tested' \cap Shared' = {} /\ \A i \in ProcessIds : Tested' \cap Reached(i)' = {}
    BY <1>2 DEF FramesInv, NothingDangles
  <2> QED BY <1>2, <2>1 DEF FramesInv, NoPageHasTwoOwners, ShellAlloc
<1> QED BY <1>1, <1>3, <1>4, <1>5 DEF FramesInv, ShellAlloc

(* free: only the shell had the page.                                       *)
LEMMA ShellFreeInv == FramesInv /\ ShellFree => FramesInv'
<1> SUFFICES ASSUME FramesInv, ShellFree PROVE FramesInv'
  OBVIOUS
<1>1. PmmInv' /\ bitmap \ Tested \subseteq bitmap'
  <2>1. PmmInv'
    BY FreeInv DEF FramesInv, ShellFree
  <2> QED BY <2>1 DEF ShellFree, pmm_free_page, Tested
<1>2. Shared' = Shared /\ ProcessIds' = ProcessIds /\ Tested' = {}
      /\ \A i : Private(i)' = Private(i) /\ Reached(i)' = Reached(i)
  BY SharedSame, SpaceSame DEF ShellFree, Tested, ProcessIds
<1>3. TypeOK'
  BY <1>1 DEF FramesInv, TypeOK, PmmInv, ShellFree
<1>4. NothingDangles'
  BY <1>1, <1>2 DEF FramesInv, NothingDangles, NoPageHasTwoOwners
<1>5. NoPageHasTwoOwners'
  BY <1>2 DEF FramesInv, NoPageHasTwoOwners, ShellFree
<1> QED BY <1>1, <1>3, <1>4, <1>5 DEF FramesInv, ShellFree

(* process_create gives the new process five pages that were free, and maps *)
(* what the kernel maps.                                                    *)
LEMMA CreateInv ==
    ASSUME FramesInv, process_create, Len(procs) < PROCESS_BOUND,
           UNCHANGED <<test_page, kernel_pt, kernel_map>>, loading' \in BOOLEAN
    PROVE  FramesInv'
<1>0. PICK L \in Nat : L = Len(procs)
  BY LenProperties DEF FramesInv, TypeOK
<1> DEFINE new == FirstFresh(5)
<1>1. PmmInv' /\ bitmap' = bitmap \cup new /\ new \cap bitmap = {} /\ new \subseteq Pages
  <2>1. 5 \in 0..Len(Fresh) /\ Holding(FirstFresh(5), {})
    BY FreshFacts DEF process_create
  <2> QED BY <2>1, AllocatingInv, FirstFreshFree DEF FramesInv
<1>2. /\ Fresh[1] \in new /\ Fresh[2] \in new /\ Fresh[3] \in new /\ Fresh[4] \in new /\ Fresh[5] \in new
      /\ Fresh[1] < Fresh[2] /\ Fresh[2] < Fresh[3] /\ Fresh[3] < Fresh[4] /\ Fresh[4] < Fresh[5]
  <2>1. \A i \in 1..5 : i \in 1..Len(Fresh) /\ Fresh[i] \in new
    BY FreshFacts DEF process_create, FirstFresh
  <2>2. \A i \in 1..4 : Fresh[i] < Fresh[i + 1]
    BY <2>1, FreshFacts
  <2> QED BY <2>1, <2>2
<1>3. VirtualPages \subseteq Nat /\ 0 \in VirtualPages /\ 1 \in VirtualPages
  BY FramesAssumption DEF VirtualPages
<1>4. /\ NewSpace \in Space /\ Purposes(NewSpace)
      /\ {NewSpace.pd, NewSpace.pt} \cup NewSpace.kernel_stack \cup NewSpace.own \subseteq new
      /\ Mapped(NewSpace.map) \subseteq new \cup Shared
  <2> DEFINE map == [kernel_map EXCEPT ![0] = user_code_phys, ![1] = Fresh[3]]
  <2>1. map \in [VirtualPages -> Pages \cup {NoPage}]
    <3>1. user_code_phys \in Pages
      BY BootFacts
    <3> QED BY <1>1, <1>2, <1>3, <3>1 DEF FramesInv, TypeOK
  <2>2. \A v \in VirtualPages : map[v] \in {kernel_map[v], user_code_phys, Fresh[3]}
    BY <1>3 DEF FramesInv, TypeOK
  <2>3. Mapped(map) \subseteq new \cup Shared
    BY <1>2, <2>2 DEF Mapped, Shared
  <2>4. NewSpace = [pd |-> Fresh[1], pt |-> Fresh[2], map |-> map,
                    kernel_stack |-> {Fresh[4], Fresh[5]}, own |-> {Fresh[3]}]
    BY DEF NewSpace
  <2> HIDE DEF map, new
  <2>5. NewSpace \in Space
    BY <1>1, <1>2, <2>1, <2>4 DEF Space
  <2>6. Fresh[1] \in Int /\ Fresh[2] \in Int /\ Fresh[3] \in Int /\ Fresh[4] \in Int /\ Fresh[5] \in Int
    <3>1. \A page \in new : page \in Int
      BY <1>1, PmmAssumption DEF Pages
    <3> QED BY <1>2, <3>1
  <2>7. Purposes(NewSpace)
    BY <1>2, <2>4, <2>6 DEF Purposes
  <2> QED BY <1>2, <2>3, <2>4, <2>5, <2>7
<1> HIDE DEF new
<1>5. /\ procs' \in Seq(Space) /\ Len(procs') = L + 1 /\ L \in Nat /\ procs' # <<>>
      /\ \A i \in 1..L : procs'[i] = procs[i]
      /\ procs'[L + 1] = NewSpace
  <2>1. procs \in Seq(Space) /\ procs' = Append(procs, NewSpace)
    BY DEF FramesInv, TypeOK, process_create
  <2> QED BY <1>0, <1>4, <2>1, AppendProperties, LenProperties
<1>6. /\ Shared' = Shared /\ Tested' = Tested /\ ProcessIds' = ProcessIds \cup {L + 1}
      /\ \A i \in ProcessIds : Private(i)' = Private(i) /\ Reached(i)' = Reached(i)
      /\ Private(L + 1)' \subseteq new /\ Reached(L + 1)' \subseteq new \cup Shared
  <2>1. Private(L + 1)' \subseteq new /\ Reached(L + 1)' \subseteq new \cup Shared
    BY <1>4, <1>5 DEF Private, Reached, Mapped
  <2>2. ProcessIds' = ProcessIds \cup {L + 1}
    BY <1>0, <1>5 DEF ProcessIds
  <2> QED BY <1>0, <1>5, <2>1, <2>2, SharedSame, SpaceSame DEF Tested, ProcessIds
<1>7. TypeOK'
  <2>1. Len(procs') <= PROCESS_BOUND
    BY <1>0, <1>5, FramesAssumption
  <2> QED BY <1>1, <1>5, <2>1 DEF FramesInv, TypeOK, PmmInv, process_create
<1>8. NothingDangles'
  BY <1>1, <1>6 DEF FramesInv, NothingDangles
<1>9. NoPageHasTwoOwners'
  <2>1. \A i \in ProcessIds : Private(i) \cap new = {} /\ Reached(i) \cap new = {}
    BY <1>1 DEF FramesInv, NothingDangles, Reached
  <2>2. Shared \cap new = {} /\ Tested \cap new = {}
    BY <1>1 DEF FramesInv, NothingDangles
  <2>3. \A i, j \in ProcessIds' : i # j => Private(i)' \cap Reached(j)' = {}
    BY <1>6, <2>1, <2>2 DEF FramesInv, NoPageHasTwoOwners
  <2>4. \A i \in ProcessIds' : Private(i)' \cap Shared' = {} /\ Tested' \cap Reached(i)' = {}
    BY <1>6, <2>2 DEF FramesInv, NoPageHasTwoOwners
  <2>5. \A i \in ProcessIds' : Purposes(procs'[i])
    BY <1>0, <1>4, <1>5, <1>6 DEF FramesInv, NoPageHasTwoOwners, Purposes, ProcessIds
  <2> QED BY <1>6, <2>3, <2>4, <2>5 DEF FramesInv, NoPageHasTwoOwners, Purposes
<1> QED BY <1>1, <1>5, <1>7, <1>8, <1>9 DEF FramesInv

(* exec loads the program into pages that were free.                        *)
LEMMA ExecLoadInv ==
    ASSUME FramesInv, NEW n \in VirtualPages, ExecLoad(n)
    PROVE  FramesInv'
<1>0. PICK L \in Nat : L = Len(procs)
  BY LenProperties DEF FramesInv, TypeOK
<1> DEFINE new == FirstFresh(n + 1)
           e == LoadedSpace(uproc, n + 1)
<1>1. PmmInv' /\ bitmap' = bitmap \cup new /\ new \cap bitmap = {} /\ new \subseteq Pages
  <2>1. n + 1 \in 0..Len(Fresh) /\ Holding(FirstFresh(n + 1), {})
    <3>1. n \in Nat
      BY FramesAssumption DEF VirtualPages
    <3>2. Len(Fresh) >= n + 1 /\ Holding(FirstFresh(n + 1), {})
      BY DEF ExecLoad
    <3> QED BY <3>1, <3>2, FreshFacts
  <2> QED BY <2>1, AllocatingInv, FirstFreshFree DEF FramesInv
<1>2. procs \in Seq(Space) /\ procs # <<>> /\ L \in 1..L /\ uproc \in Space /\ uproc = procs[L]
  <2>1. procs \in Seq(Space) /\ procs # <<>>
    BY DEF FramesInv, TypeOK, ExecLoad
  <2>2. L \in 1..L
    BY <1>0, <2>1, EmptySeq
  <2> QED BY <1>0, <2>1, <2>2, ElementOfSeq DEF uproc
<1>3. ASSUME NEW v \in VirtualPages, v < n + 1 PROVE Fresh[v + 1] \in new
  <2>1. v + 1 \in 1..(n + 1)
    BY <1>3, FramesAssumption DEF VirtualPages
  <2> QED BY <2>1 DEF FirstFresh
<1> HIDE DEF new
<1>4. /\ e \in Space /\ e.pd = uproc.pd /\ e.pt = uproc.pt /\ e.kernel_stack = uproc.kernel_stack
      /\ e.own = uproc.own \cup new /\ Mapped(e.map) \subseteq Mapped(uproc.map) \cup new
  <2> DEFINE map == Loaded(uproc.map, Fresh, n + 1)
  <2>1. \A v \in VirtualPages : map[v] \in new \cup {uproc.map[v]}
    BY <1>3 DEF Loaded
  <2>2. map \in [VirtualPages -> Pages \cup {NoPage}]
    <3>1. \A v \in VirtualPages : uproc.map[v] \in Pages \cup {NoPage}
      BY <1>2 DEF Space
    <3>2. map = [v \in VirtualPages |-> map[v]]
      BY DEF Loaded
    <3> HIDE DEF map
    <3> QED BY <1>1, <2>1, <3>1, <3>2
  <2>3. Mapped(map) \subseteq Mapped(uproc.map) \cup new
    BY <2>1 DEF Mapped
  <2>4. e.pd = uproc.pd /\ e.pt = uproc.pt /\ e.kernel_stack = uproc.kernel_stack
        /\ e.own = uproc.own \cup new /\ e.map = map
    BY <1>2 DEF Space, LoadedSpace, new
  <2>5. e \in Space
    <3> HIDE DEF map
    <3>1. e = [uproc EXCEPT !.map = map, !.own = uproc.own \cup new]
      BY <1>2 DEF Space, LoadedSpace, map, new
    <3>2. uproc.own \cup new \in SUBSET Pages
      BY <1>1, <1>2 DEF Space
    <3>3. uproc \in [pd : Pages, pt : Pages, map : [VirtualPages -> Pages \cup {NoPage}],
                     kernel_stack : SUBSET Pages, own : SUBSET Pages]
      BY <1>2 DEF Space
    <3> HIDE DEF e
    <3> QED BY <2>2, <3>1, <3>2, <3>3 DEF Space
  <2> QED BY <2>3, <2>4, <2>5
<1>5. /\ procs' \in Seq(Space) /\ Len(procs') = L /\ procs'[L] = e
      /\ \A i \in 1..L : i # L => procs'[i] = procs[i]
  <2>1. procs' = [procs EXCEPT ![L] = e]
    BY <1>0 DEF ExecLoad
  <2> HIDE DEF e
  <2> QED BY <1>0, <1>2, <1>4, <2>1, ExceptSeq
<1> HIDE DEF e
<1>6. /\ Shared' = Shared /\ Tested' = Tested /\ ProcessIds' = ProcessIds /\ ProcessIds = 1..L
      /\ \A i \in ProcessIds : i # L => Private(i)' = Private(i) /\ Reached(i)' = Reached(i)
      /\ Private(L)' \subseteq Private(L) \cup new /\ Reached(L)' \subseteq Reached(L) \cup new
  <2>1. Private(L)' \subseteq Private(L) \cup new /\ Reached(L)' \subseteq Reached(L) \cup new
    <3>1. Private(L) = {uproc.pd, uproc.pt} \cup uproc.kernel_stack \cup uproc.own
          /\ Private(L)' = {e.pd, e.pt} \cup e.kernel_stack \cup e.own
      BY <1>2, <1>5 DEF Private
    <3>2. Reached(L) = Private(L) \cup Mapped(uproc.map)
          /\ Reached(L)' = Private(L)' \cup Mapped(e.map)
      BY <1>2, <1>5 DEF Reached, Mapped
    <3> QED BY <1>4, <3>1, <3>2
  <2>2. ProcessIds' = ProcessIds /\ ProcessIds = 1..L
    BY <1>0, <1>5 DEF ProcessIds
  <2> QED BY <1>5, <2>1, <2>2, SharedSame, SpaceSame DEF Tested, ExecLoad
<1>7. TypeOK'
  BY <1>0, <1>1, <1>5 DEF FramesInv, TypeOK, PmmInv, ExecLoad
<1>8. NothingDangles'
  BY <1>1, <1>6 DEF FramesInv, NothingDangles
<1>9. NoPageHasTwoOwners'
  <2>1. \A i \in ProcessIds : Private(i) \cap new = {} /\ Reached(i) \cap new = {}
    BY <1>1 DEF FramesInv, NothingDangles, Reached
  <2>2. Shared \cap new = {} /\ Tested \cap new = {}
    BY <1>1 DEF FramesInv, NothingDangles
  <2>3. \A i, j \in ProcessIds : i # j => Private(i)' \cap Reached(j)' = {}
    BY <1>6, <2>1 DEF FramesInv, NoPageHasTwoOwners
  <2>4. \A i \in ProcessIds : Private(i)' \cap Shared' = {} /\ Tested' \cap Reached(i)' = {}
    BY <1>6, <2>2 DEF FramesInv, NoPageHasTwoOwners
  <2>5. \A i \in ProcessIds : Purposes(procs'[i])
    <3>1. Purposes(e)
      <4>1. Purposes(uproc) /\ Private(L) = {uproc.pd, uproc.pt} \cup uproc.kernel_stack \cup uproc.own
        BY <1>2, <1>6 DEF FramesInv, NoPageHasTwoOwners, Purposes, Private
      <4>2. Private(L) \cap new = {}
        BY <1>2, <1>6, <2>1
      <4> QED BY <1>4, <4>1, <4>2 DEF Purposes
    <3> QED BY <1>5, <1>6, <3>1 DEF FramesInv, NoPageHasTwoOwners, Purposes
  <2> QED BY <1>6, <2>3, <2>4, <2>5 DEF FramesInv, NoPageHasTwoOwners, Purposes
<1> QED BY <1>1, <1>7, <1>8, <1>9 DEF FramesInv, ExecLoad

(* exec fails: process_destroy gives back pages only this process has.      *)
LEMMA ExecFailInv ==
    ASSUME FramesInv, NEW k \in VirtualPages, ExecFail(k)
    PROVE  FramesInv'
<1>0. PICK L \in Nat : L = Len(procs)
  BY LenProperties DEF FramesInv, TypeOK
<1>1. PmmInv' /\ bitmap \ DestroyFrees(uproc) \subseteq bitmap'
  <2>1. k \in 0..Len(Fresh) /\ Holding(FirstFresh(k), DestroyFrees(uproc))
    <3>1. (k = 0 \/ k = Len(Fresh)) /\ Holding(FirstFresh(k), DestroyFrees(uproc))
      BY DEF ExecFail
    <3> QED BY <3>1, FreshFacts
  <2>2. FirstFresh(k) \in SUBSET Pages
    BY <2>1, FirstFreshFree
  <2>3. PmmInv'
    BY <2>1, <2>2, HoldingInv DEF FramesInv
  <2> QED BY <2>1, <2>3 DEF Holding
<1>2. procs \in Seq(Space) /\ L >= 1 /\ uproc = procs[L]
  <2>1. procs \in Seq(Space) /\ procs # <<>>
    BY DEF FramesInv, TypeOK, ExecFail
  <2> QED BY <1>0, <2>1, EmptySeq DEF uproc
<1>3. DestroyFrees(uproc) \subseteq Private(L)
  BY <1>2 DEF DestroyFrees, Private
<1>4. procs' \in Seq(Space) /\ Len(procs') = L - 1 /\ \A i \in 1..(L - 1) : procs'[i] = procs[i]
  <2>1. procs' = SubSeq(procs, 1, L - 1) /\ 1 \in Int /\ L - 1 \in Int
    <3>1. procs' = SubSeq(procs, 1, Len(procs) - 1)
      BY DEF ExecFail
    <3> QED BY <1>0, <3>1
  <2>2. \A i \in 1..(L - 1) : procs[i] \in Space
    BY <1>0, <1>2, ElementOfSeq
  <2>3. /\ procs' \in Seq(Space) /\ Len(procs') = IF 1 <= L - 1 THEN L - 1 - 1 + 1 ELSE 0
        /\ \A i \in 1..(L - 1 - 1 + 1) : procs'[i] = procs[1 + i - 1]
    BY <2>1, <2>2, SubSeqProperties
  <2>4. L - 1 - 1 + 1 = L - 1 /\ \A i \in 1..(L - 1) : 1 + i - 1 = i
    BY <1>2
  <2> QED BY <1>2, <2>3, <2>4
<1>5. /\ Shared' = Shared /\ Tested' = Tested
      /\ ProcessIds' \subseteq ProcessIds /\ L \in ProcessIds /\ L \notin ProcessIds'
      /\ \A i \in ProcessIds' : /\ Private(i)' = Private(i) /\ Reached(i)' = Reached(i)
                                /\ procs'[i] = procs[i]
  <2>1. ProcessIds' = 1..(L - 1) /\ ProcessIds = 1..L
    BY <1>0, <1>4 DEF ProcessIds
  <2>2. ProcessIds' \subseteq ProcessIds /\ L \in ProcessIds /\ L \notin ProcessIds'
    BY <1>2, <2>1
  <2> QED BY <1>4, <2>1, <2>2, SharedSame, SpaceSame DEF Tested, ExecFail
<1>6. TypeOK'
  <2>1. Len(procs') <= PROCESS_BOUND
    <3>1. Len(procs) <= PROCESS_BOUND
      BY DEF FramesInv, TypeOK
    <3> QED BY <1>0, <1>4, <3>1, FramesAssumption
  <2> QED BY <1>1, <1>4, <2>1 DEF FramesInv, TypeOK, PmmInv, ExecFail
<1>7. NothingDangles'
  <2>1. Shared \cap Private(L) = {} /\ Tested \cap Private(L) = {}
    BY <1>5 DEF FramesInv, NoPageHasTwoOwners, Reached
  <2>2. \A i \in ProcessIds' : Private(L) \cap Reached(i) = {} /\ Reached(i) \subseteq bitmap
    BY <1>5 DEF FramesInv, NoPageHasTwoOwners, NothingDangles
  <2>3. Shared \cup Tested \subseteq bitmap
    BY DEF FramesInv, NothingDangles
  <2> QED BY <1>1, <1>3, <1>5, <2>1, <2>2, <2>3 DEF NothingDangles
<1>8. NoPageHasTwoOwners'
  BY <1>5 DEF FramesInv, NoPageHasTwoOwners
<1> QED BY <1>1, <1>6, <1>7, <1>8 DEF FramesInv, ExecFail

(* elfinfo gives the kernel a page table and pages that were free.          *)
LEMMA ElfinfoInv ==
    ASSUME FramesInv, NEW n \in VirtualPages, NEW k \in 1..(n + 1), ShellElfinfo(n, k)
    PROVE  FramesInv'
<1> DEFINE new == FirstFresh(k + NeedsTable)
<1>0. n \in Nat /\ k \in Nat /\ k >= 1 /\ VirtualPages \subseteq Nat
  BY FramesAssumption DEF VirtualPages
<1>1. PmmInv' /\ bitmap' = bitmap \cup new /\ new \cap bitmap = {} /\ new \subseteq Pages
  <2>1. k + NeedsTable \in 0..Len(Fresh) /\ Holding(FirstFresh(k + NeedsTable), {})
    BY <1>0, FreshFacts DEF ShellElfinfo, NeedsTable
  <2> QED BY <2>1, AllocatingInv, FirstFreshFree DEF FramesInv
<1>2. kernel_pt' \in new \cup {kernel_pt}
  BY <1>0 DEF ShellElfinfo, NeedsTable, FirstFresh
<1>3. ASSUME NEW v \in VirtualPages, v < k PROVE KernelLoadOrder[v + 1] \in new
  <2>1. CASE kernel_pt # NoPage
    <3>1. v + 1 \in 1..(k + NeedsTable) /\ KernelLoadOrder[v + 1] = Fresh[v + 1]
      BY <1>0, <1>3, <2>1 DEF NeedsTable, KernelLoadOrder
    <3> QED BY <3>1 DEF FirstFresh
  <2>2. CASE kernel_pt = NoPage
    <3> DEFINE rest == SubSeq(Fresh, 3, Len(Fresh))
    <3>0. NeedsTable = 1 /\ Len(Fresh) \in Nat /\ Len(Fresh) >= k + 1 /\ KernelLoadOrder = <<Fresh[1]>> \o rest
      BY <1>0, <2>2, FreshFacts DEF ShellElfinfo, NeedsTable, KernelLoadOrder
    <3>1. \A i \in 1..Len(Fresh) : Fresh[i] \in Free
      BY FreshFacts
    <3>2. <<Fresh[1]>> \in Seq(Free) /\ Len(<<Fresh[1]>>) = 1 /\ <<Fresh[1]>>[1] = Fresh[1]
      <4>1. Fresh[1] \in Free
        BY <1>0, <3>0, <3>1
      <4> QED BY <4>1
    <3>3. /\ rest \in Seq(Free) /\ Len(rest) = IF 3 <= Len(Fresh) THEN Len(Fresh) - 3 + 1 ELSE 0
          /\ \A i \in 1..(Len(Fresh) - 3 + 1) : rest[i] = Fresh[3 + i - 1]
      <4>1. 3 \in Int /\ Len(Fresh) \in Int /\ \A i \in 3..Len(Fresh) : Fresh[i] \in Free
        BY <3>0, <3>1
      <4> QED BY <4>1, SubSeqProperties
    <3> HIDE DEF rest
    <3>4. \A i \in 1..(1 + Len(rest)) :
              KernelLoadOrder[i] = IF i <= 1 THEN <<Fresh[1]>>[i] ELSE rest[i - 1]
      BY <3>0, <3>2, <3>3, ConcatProperties
    <3>5. CASE v = 0
      <4>1. 1 \in 1..(1 + Len(rest)) /\ 1 \in 1..(k + NeedsTable)
        BY <1>0, <3>0, <3>3
      <4>2. KernelLoadOrder[v + 1] = Fresh[1]
        BY <3>2, <3>4, <3>5, <4>1
      <4> QED BY <4>1, <4>2 DEF FirstFresh
    <3>6. CASE v # 0
      <4>1. v \in Nat /\ v >= 1 /\ v + 2 <= k + 1
        BY <1>0, <1>3, <3>6
      <4>2. v + 1 \in 1..(1 + Len(rest)) /\ v \in 1..(Len(Fresh) - 3 + 1) /\ ~(v + 1 <= 1)
        BY <1>0, <3>0, <3>3, <4>1
      <4>3. KernelLoadOrder[v + 1] = rest[(v + 1) - 1] /\ rest[v] = Fresh[3 + v - 1]
        BY <3>3, <3>4, <4>2
      <4>4. (v + 1) - 1 = v /\ 3 + v - 1 = v + 2 /\ v + 2 \in 1..(k + NeedsTable)
        BY <1>0, <3>0, <4>1
      <4>5. KernelLoadOrder[v + 1] = Fresh[v + 2]
        BY <4>3, <4>4
      <4> QED BY <4>4, <4>5 DEF FirstFresh
    <3> QED BY <3>5, <3>6
  <2> QED BY <2>1, <2>2
<1> HIDE DEF new
<1>4. /\ kernel_map' \in [VirtualPages -> Pages \cup {NoPage}]
      /\ Mapped(kernel_map)' \subseteq Mapped(kernel_map) \cup new
  <2>1. kernel_map' = [v \in VirtualPages |-> IF v < k THEN KernelLoadOrder[v + 1] ELSE kernel_map[v]]
    BY DEF ShellElfinfo, Loaded
  <2>2. \A v \in VirtualPages : kernel_map'[v] \in new \cup {kernel_map[v]}
    BY <1>3, <2>1
  <2>3. \A v \in VirtualPages : kernel_map[v] \in Pages \cup {NoPage}
    BY DEF FramesInv, TypeOK
  <2>4. kernel_map' \in [VirtualPages -> Pages \cup {NoPage}]
    BY <1>1, <2>1, <2>2, <2>3
  <2> QED BY <2>2, <2>4 DEF Mapped
<1>5. /\ Shared' \subseteq Shared \cup new /\ Tested' = Tested /\ ProcessIds' = ProcessIds
      /\ \A i : Private(i)' = Private(i) /\ Reached(i)' = Reached(i)
  <2>1. Shared' \subseteq Shared \cup new
    BY <1>2, <1>4 DEF Shared
  <2> QED BY <2>1, SpaceSame DEF Tested, ProcessIds, ShellElfinfo
<1>6. TypeOK'
  BY <1>1, <1>2, <1>4 DEF FramesInv, TypeOK, PmmInv, ShellElfinfo
<1>7. NothingDangles'
  BY <1>1, <1>5 DEF FramesInv, NothingDangles
<1>8. NoPageHasTwoOwners'
  <2>1. \A i \in ProcessIds : Private(i) \cap new = {}
    BY <1>1 DEF FramesInv, NothingDangles, Reached
  <2>2. Tested \cap new = {}
    BY <1>1 DEF FramesInv, NothingDangles
  <2> QED BY <1>5, <2>1, <2>2 DEF FramesInv, NoPageHasTwoOwners, ShellElfinfo
<1> QED BY <1>1, <1>6, <1>7, <1>8 DEF FramesInv, ShellElfinfo

(* process_create without success.                                          *)
LEMMA CreateFailsInv ==
    ASSUME FramesInv, process_create_fails \/ process_create_recurses,
           UNCHANGED <<test_page, kernel_pt, kernel_map, loading>>
    PROVE  FramesInv'
<1>1. CASE process_create_fails
  <2> DEFINE k == IF Len(Fresh) < 2 /\ kernel_pt # NoPage THEN 0
                  ELSE IF Len(Fresh) < 3 THEN Len(Fresh) ELSE 3
  <2>1. k \in 0..Len(Fresh)
    BY FreshFacts
  <2>2. Holding(FirstFresh(k), {}) /\ UNCHANGED <<procs, stopped>>
    BY <1>1 DEF process_create_fails
  <2>3. stopped' \in {"", "recursion", "page fault"}
    BY <2>2 DEF FramesInv, TypeOK
  <2> HIDE DEF k
  <2> QED BY <2>1, <2>2, <2>3, LeakSteps
<1>2. CASE process_create_recurses
  <2>1. 3 \in 0..Len(Fresh)
    BY <1>2, FreshFacts DEF process_create_recurses
  <2>2. Holding(FirstFresh(3), {}) /\ UNCHANGED procs
        /\ stopped' \in {"", "recursion", "page fault"}
    BY <1>2 DEF process_create_recurses
  <2> QED BY <2>1, <2>2, LeakSteps
<1> QED BY <1>1, <1>2

(* Every command keeps the owners apart.                                    *)
LEMMA FramesNextInv == FramesInv /\ [Next]_vars => FramesInv'
<1> SUFFICES ASSUME FramesInv, [Next]_vars PROVE FramesInv'
  OBVIOUS
<1>1. CASE UNCHANGED vars
  <2>1. PmmInv'
    BY <1>1 DEF vars, FramesInv, PmmInv, PmmTypeOK, CountExact
  <2>2. stopped' \in {"", "recursion", "page fault"}
    BY <1>1 DEF vars, FramesInv, TypeOK
  <2> QED BY <1>1, <2>1, <2>2, LeakInv DEF vars
<1>2. CASE HeapGrows
  <2>1. stopped' \in {"", "recursion", "page fault"}
    BY <1>2 DEF HeapGrows, FramesInv, TypeOK
  <2> QED BY <1>2, <2>1, GrowTakenInRange, LeakSteps DEF HeapGrows
<1>3. CASE ShellRing3
  <2>1. CASE process_create
    BY <1>3, <2>1, CreateInv DEF ShellRing3, FramesInv, TypeOK
  <2>2. CASE process_create_fails \/ process_create_recurses
    BY <1>3, <2>2, CreateFailsInv DEF ShellRing3
  <2> QED BY <1>3, <2>1, <2>2 DEF ShellRing3
<1>4. CASE ShellExec
  <2>1. CASE process_create /\ loading' = TRUE
    BY <1>4, <2>1, CreateInv DEF ShellExec
  <2>2. CASE (process_create_fails \/ process_create_recurses) /\ UNCHANGED loading
    BY <1>4, <2>2, CreateFailsInv DEF ShellExec
  <2> QED BY <1>4, <2>1, <2>2 DEF ShellExec
<1>5. ASSUME NEW n \in VirtualPages, ShellElfinfoNoTable(n) PROVE FramesInv'
  <2>1. 1 \in 0..Len(Fresh)
    <3>1. Len(Fresh) = 1
      BY <1>5 DEF ShellElfinfoNoTable
    <3> QED BY <3>1
  <2>2. stopped' \in {"", "recursion", "page fault"}
    BY <1>5 DEF ShellElfinfoNoTable, FramesInv, TypeOK
  <2> QED BY <1>5, <2>1, <2>2, LeakSteps DEF ShellElfinfoNoTable
<1>6. CASE Stopped
  BY <1>1, <1>6 DEF Stopped
<1> QED BY <1>1, <1>2, <1>3, <1>4, <1>5, <1>6, ShellAllocInv, ShellFreeInv, ExecLoadInv,
           ExecFailInv, ElfinfoInv DEF Next

(* The invariant holds throughout.                                          *)
LEMMA FramesInvariant == Spec => []FramesInv
BY FramesInitInv, FramesNextInv, PTL DEF Spec

(* Whatever the operator types, every page number the kernel keeps is a     *)
(* page of RAM, and the count of used pages stays within it.                *)
THEOREM FramesTypesCorrect == Spec => []TypeOK
BY FramesInvariant, PTL DEF FramesInv

(* used_pages is exact when processes and loads take and return pages too.  *)
THEOREM CommandsCountExact == Spec => []CountExact
BY FramesInvariant, PTL DEF FramesInv, PmmInv

(* No command frees a page that the kernel, the shell or a live process     *)
(* still refers to: not when an exec fails half way, nor when memory runs   *)
(* out in any of the calls.                                                 *)
THEOREM NothingEverDangles == Spec => []NothingDangles
BY FramesInvariant, PTL DEF FramesInv

(* No page is ever given to two owners, or used for two purposes.           *)
THEOREM OwnersStayApart == Spec => []NoPageHasTwoOwners
BY FramesInvariant, PTL DEF FramesInv

(* The shell's alloc hands out a page that was free, and fails only when    *)
(* every page is in use.                                                    *)
THEOREM CommandsAllocFresh == Spec => AllocFresh
<1>1. FramesInv /\ [Next]_vars => [pmm_alloc_page => AllocStep]_pmmVars
  BY AllocTakesFree DEF FramesInv
<1> QED BY <1>1, FramesInvariant, PTL DEF Spec, AllocFresh, AllocStep
=============================================================================
