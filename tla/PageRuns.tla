------------------------------ MODULE PageRuns ------------------------------
(***************************************************************************)
(* Several calls of the page allocator in a row, as process_create,        *)
(* elf_load_into and heap_grow make them.                                  *)
(***************************************************************************)
EXTENDS Pmm, Sequences

CONSTANT HEAP_GROW_PAGES   \* HEAP_GROW / 4096 (16 in the code)

ASSUME GrowAssumption == HEAP_GROW_PAGES \in Nat \ {0}

(* The i-th least member of S, a finite set of page numbers.                *)
Least(S, i) == CHOOSE page \in S : Cardinality({p \in S : p < page}) = i - 1

(* Successive calls of pmm_alloc_page return the free pages in ascending    *)
(* order: Fresh[1], Fresh[2], ...; the next call after the last is nullptr. *)
Fresh_OffByOne ==
    LET free == (0..total_pages) \ bitmap
    IN  [i \in 1..Cardinality(free) |-> Least(free, i)]

Fresh ==
    LET free == Pages \ bitmap
    IN  [i \in 1..Cardinality(free) |-> Least(free, i)]

FirstFresh(k) == {Fresh[i] : i \in 1..k}

(* What calls that set some bits, then clear some, do to the allocator.     *)
Holding(set, cleared) ==
    /\ bitmap' = (bitmap \cup set) \ cleared
    /\ used_pages' = used_pages + Cardinality(set \ bitmap)
                                - Cardinality(cleared \cap (bitmap \cup set))
    /\ UNCHANGED returned

(* heap_grow asks for HEAP_GROW_PAGES adjacent pages.  When it meets a gap, *)
(* or the end, it keeps the pages before it, which nothing refers to any    *)
(* more, gives back the page after it, and asks for as many single pages.   *)
GrowRun ==
    CHOOSE m \in 0..Len(Fresh) :
        /\ \A i \in 1..m : Fresh[i] = Fresh[1] + i - 1
        /\ m < Len(Fresh) => Fresh[m + 1] # Fresh[1] + m

GrowContiguous == GrowRun >= HEAP_GROW_PAGES

GrowTaken ==
    IF GrowContiguous THEN HEAP_GROW_PAGES
    ELSE IF GrowRun + HEAP_GROW_PAGES > Len(Fresh) THEN Len(Fresh)
    ELSE GrowRun + HEAP_GROW_PAGES
=============================================================================
