-------------------------------- MODULE Pmm ---------------------------------
(***************************************************************************)
(* The physical page allocator, memory/pmm_bitmap.cpp.  bitmap is the set  *)
(* of pages whose bit is set.  Its callers run one at a time: kernel_main  *)
(* before the first tick, the shell afterwards.                            *)
(***************************************************************************)
EXTENDS Integers, FiniteSets

CONSTANTS total_pages,      \* pages of RAM; the bitmap covers them
          RESERVED_PAGES    \* kernel image and VGA memory (1024 in the code)

ASSUME PmmAssumption == total_pages \in Nat \ {0} /\ RESERVED_PAGES \in Nat

VARIABLES bitmap, used_pages,
          returned     \* what pmm_alloc_page returned last, -1 for nullptr

pmmVars == <<bitmap, used_pages, returned>>

Pages == 0..(total_pages - 1)

pmm_init ==
    LET reserved == IF RESERVED_PAGES > total_pages THEN total_pages ELSE RESERVED_PAGES
    IN  /\ used_pages = reserved
        /\ bitmap = 0..(reserved - 1)
        /\ returned = -1

(* The loop stops at the first clear bit. *)
FirstFree_NotTested(b, i) == i \in Pages /\ \A j \in 0..(i - 1) : j \in b

FirstFree(b, i) == i \in Pages \ b /\ \A j \in 0..(i - 1) : j \in b

pmm_alloc_page_NoCount ==
    \/ \E i \in Pages :
          /\ FirstFree(bitmap, i)
          /\ bitmap' = bitmap \cup {i}
          /\ UNCHANGED used_pages
          /\ returned' = i
    \/ Pages \subseteq bitmap /\ returned' = -1 /\ UNCHANGED <<bitmap, used_pages>>

pmm_alloc_page ==
    \/ \E i \in Pages :
          /\ FirstFree(bitmap, i)
          /\ bitmap' = bitmap \cup {i}
          /\ used_pages' = used_pages + 1
          /\ returned' = i
    \/ Pages \subseteq bitmap /\ returned' = -1 /\ UNCHANGED <<bitmap, used_pages>>

(* Freeing a page that is free, or that is no page of RAM, changes nothing. *)
pmm_free_page(page) ==
    /\ IF page < total_pages /\ page \in bitmap
       THEN bitmap' = bitmap \ {page} /\ used_pages' = used_pages - 1
       ELSE UNCHANGED <<bitmap, used_pages>>
    /\ UNCHANGED returned

pmm_free_pages == total_pages - used_pages

PmmNext == pmm_alloc_page \/ \E page \in 0..total_pages : pmm_free_page(page)

PmmSpec == pmm_init /\ [][PmmNext]_pmmVars

-----------------------------------------------------------------------------
(* Types: the number of free pages shown by the shell is never negative.    *)
PmmTypeOK ==
    /\ bitmap \subseteq Pages
    /\ used_pages \in 0..total_pages
    /\ returned \in Pages \cup {-1}

(* used_pages, which is maintained by increments and decrements, counts the *)
(* bits of the bitmap exactly, whatever is freed twice or out of range.     *)
CountExact == IsFiniteSet(bitmap) /\ used_pages = Cardinality(bitmap)

(* An allocation fails only when every page is in use, and a page it        *)
(* returns was free: no page is ever handed out to two owners.              *)
AllocFresh ==
    [][pmm_alloc_page => IF pmm_free_pages = 0 THEN returned' = -1
                         ELSE returned' \in Pages \ bitmap /\ returned' \in bitmap']_pmmVars
=============================================================================
