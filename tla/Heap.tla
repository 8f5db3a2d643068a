-------------------------------- MODULE Heap --------------------------------
(***************************************************************************)
(* kmalloc and kfree (memory/kmalloc.cpp) on top of the page allocator.    *)
(*                                                                         *)
(* Memory is a function from word addresses to what was last stored there. *)
(* A block at h has its header in h..h+3 (size, magic, next, prev) and its *)
(* size once more in its last word; sizes and addresses are in words of 4  *)
(* bytes, so a header is 4, MIN_BLOCK 8 and the alignment 2.  Address 0 is *)
(* nullptr.  kmalloc and kfree run to completion: only the shell and the   *)
(* commands it runs use the heap once the scheduler has started.           *)
(***************************************************************************)
EXTENDS PageRuns, TLC

CONSTANTS PAGE_WORDS,        \* words of a page (1024 in the code)
          Sizes,             \* sizes asked for, in words
          LIVE_BOUND         \* bound: blocks in use at a time

ASSUME HeapAssumption ==
    /\ PAGE_WORDS \in Nat /\ PAGE_WORDS >= 8
    /\ Sizes \subseteq Nat /\ LIVE_BOUND \in Nat

VARIABLES mem, free_list, heap_end,
          live,      \* blocks in use: [ptr, size] as the caller knows them
          others,    \* pages held by the rest of the kernel
          faulted    \* has kfree touched memory that is not mapped?

heapVars == <<mem, free_list, heap_end>>
vars == <<bitmap, used_pages, returned, mem, free_list, heap_end, live, others, faulted>>

HEADER_SIZE == 4
MIN_BLOCK == 8
HEAP_MAGIC == 57005
nullptr == 0

Words == 0..(total_pages * PAGE_WORDS - 1)
Address(page) == page * PAGE_WORDS

-----------------------------------------------------------------------------
(* Headers, boundary tags and the free list *)

size(m, h) == m[h]
magic(m, h) == m[h + 1]
next(m, h) == m[h + 2]
prev(m, h) == m[h + 3]

set_footer(m, h) == (h + size(m, h) - 1 :> size(m, h)) @@ m

(* A block of n words with its header and footer. *)
NewBlock(m, h, n) == set_footer((h :> n) @@ (h + 1 :> HEAP_MAGIC) @@ m, h)

(* A store through a pointer that the code tests first. *)
StoreIf(pointer, offset, value) ==
    IF pointer # nullptr THEN (pointer + offset :> value) ELSE <<>>

(* A heap is its memory and the head of its free list. *)
list_remove(hp, h) ==
    LET n == next(hp.mem, h)
        p == prev(hp.mem, h)
    IN  [mem |-> StoreIf(p, 2, n) @@ StoreIf(n, 3, p) @@ hp.mem,
         list |-> IF hp.list = h THEN n ELSE hp.list]

(* The blocks reached from h, at most n of them. *)
RECURSIVE Chain(_, _, _)
Chain(m, h, n) ==
    IF h = nullptr \/ n = 0 THEN <<>> ELSE <<h>> \o Chain(m, next(m, h), n - 1)

FreeBlocks(hp) == Chain(hp.mem, hp.list, Cardinality(Words))

list_append(hp, h) ==
    LET chain == FreeBlocks(hp)
        last == chain[Len(chain)]
    IN  IF hp.list = nullptr
        THEN [mem |-> (h + 2 :> nullptr) @@ (h + 3 :> nullptr) @@ hp.mem, list |-> h]
        ELSE [hp EXCEPT !.mem = (last + 2 :> h) @@ (h + 2 :> nullptr) @@ (h + 3 :> last) @@ @]

-----------------------------------------------------------------------------
(* kmalloc *)

needed(n) == LET block == ((n + 1) \div 2) * 2 + HEADER_SIZE + 1
             IN  IF block < MIN_BLOCK THEN MIN_BLOCK ELSE block

Fits(hp, n) == SelectSeq(FreeBlocks(hp), LAMBDA h : size(hp.mem, h) >= n)

Split_LosesWord(hp, h, n) ==
    LET left == h + n
        after == next(hp.mem, h)
        before == prev(hp.mem, h)
    IN  [mem |-> (h :> n) @@ StoreIf(after, 3, left) @@ StoreIf(before, 2, left)
                 @@ (left + 2 :> after) @@ (left + 3 :> before)
                 @@ NewBlock(hp.mem, left, size(hp.mem, h) - n - 1),
         list |-> IF before = nullptr THEN left ELSE hp.list]

Split_NoBackLink(hp, h, n) ==
    LET left == h + n
        after == next(hp.mem, h)
        before == prev(hp.mem, h)
    IN  [mem |-> (h :> n) @@ StoreIf(before, 2, left)
                 @@ (left + 2 :> after) @@ (left + 3 :> before)
                 @@ NewBlock(hp.mem, left, size(hp.mem, h) - n),
         list |-> IF before = nullptr THEN left ELSE hp.list]

(* The block that is left over takes the place of h in the list. *)
Split(hp, h, n) ==
    LET left == h + n
        after == next(hp.mem, h)
        before == prev(hp.mem, h)
    IN  [mem |-> (h :> n) @@ StoreIf(after, 3, left) @@ StoreIf(before, 2, left)
                 @@ (left + 2 :> after) @@ (left + 3 :> before)
                 @@ NewBlock(hp.mem, left, size(hp.mem, h) - n),
         list |-> IF before = nullptr THEN left ELSE hp.list]

(* Footer and zeroed payload. *)
Cleared(m, h) ==
    LET f == set_footer(m, h)
    IN  [a \in DOMAIN f |-> IF a \in (h + HEADER_SIZE)..(h + size(m, h) - 2) THEN 0 ELSE f[a]]

Taken_OffByOne(hp, h, n) ==
    LET hq == IF size(hp.mem, h) - n >= MIN_BLOCK THEN Split(hp, h, n - 1) ELSE list_remove(hp, h)
    IN  [mem |-> Cleared(hq.mem, h), list |-> hq.list]

Taken(hp, h, n) ==
    LET hq == IF size(hp.mem, h) - n >= MIN_BLOCK THEN Split(hp, h, n) ELSE list_remove(hp, h)
    IN  [mem |-> Cleared(hq.mem, h), list |-> hq.list]

(* The blocks of singles, one page each, in the order they were allocated. *)
RECURSIVE AddPages(_, _)
AddPages(hp, pages) ==
    IF pages = <<>> THEN hp
    ELSE LET h == Address(Head(pages))
         IN  AddPages(list_append([hp EXCEPT !.mem = NewBlock(@, h, PAGE_WORDS)], h), Tail(pages))

Grown(hp) ==
    IF GrowContiguous
    THEN LET h == Address(Fresh[1])
         IN  list_append([hp EXCEPT !.mem = NewBlock(@, h, HEAP_GROW_PAGES * PAGE_WORDS)], h)
    ELSE AddPages(hp, SubSeq(Fresh, GrowRun + 1, GrowTaken))

GrownEnd ==
    IF GrowContiguous \/ GrowTaken > GrowRun
    THEN Address(Fresh[GrowTaken]) + PAGE_WORDS ELSE heap_end

heap_grow ==
    /\ Holding(FirstFresh(GrowTaken), {})
    /\ heap_end' = GrownEnd

Heap == [mem |-> mem, list |-> free_list]

kmalloc(n) ==
    LET grows == Fits(Heap, needed(n)) = <<>> /\ Fresh # <<>>
        hp == IF grows THEN Grown(Heap) ELSE Heap
        fits == Fits(hp, needed(n))
        hq == IF fits = <<>> THEN hp ELSE Taken(hp, Head(fits), needed(n))
    IN  /\ ~faulted /\ n > 0 /\ Cardinality(live) < LIVE_BOUND
        /\ IF grows THEN heap_grow ELSE UNCHANGED <<pmmVars, heap_end>>
        /\ mem' = hq.mem /\ free_list' = hq.list
        /\ live' = IF fits = <<>> THEN live
                   ELSE live \cup {[ptr |-> Head(fits) + HEADER_SIZE, size |-> n]}
        /\ UNCHANGED <<others, faulted>>

-----------------------------------------------------------------------------
(* kfree *)

next_block(h) == h + size(mem, h)
prev_block(h) == h - mem[h - 1]
has_next(h) == next_block(h) < heap_end
has_prev(h) == h > heap_end - HEAP_GROW_PAGES * PAGE_WORDS

(* p grows over the k words that follow it. *)
Merged(hp, p, k) == [hp EXCEPT !.mem = set_footer((p :> size(@, p) + k) @@ @, p)]

(* The neighbours are looked at by their magic number, which a block in use *)
(* has as well; a block merged only with the one before it is not put back  *)
(* into the list.                                                           *)
Freed(h) ==
    LET p == prev_block(h)
        n == next_block(h)
        merge_prev == has_prev(h) /\ magic(mem, p) = HEAP_MAGIC
        merge_next == has_next(h) /\ magic(mem, n) = HEAP_MAGIC
    IN  IF merge_prev /\ merge_next
        THEN list_append(Merged(list_remove(list_remove(Heap, p), n), p,
                                size(mem, h) + size(mem, n)), p)
        ELSE IF merge_prev THEN Merged(list_remove(Heap, p), p, size(mem, h))
        ELSE IF merge_next
        THEN list_append(Merged(list_remove(Heap, n), h, size(mem, n)), h)
        ELSE list_append([Heap EXCEPT !.mem = set_footer(@, h)], h)

kfree(block) ==
    LET h == block.ptr - HEADER_SIZE
    IN  /\ ~faulted
        /\ live' = live \ {block}
        /\ IF magic(mem, h) # HEAP_MAGIC THEN UNCHANGED <<heapVars, faulted>>
           ELSE IF has_prev(h) /\ prev_block(h) \notin Words
           THEN faulted' = TRUE /\ UNCHANGED heapVars
           ELSE /\ mem' = Freed(h).mem /\ free_list' = Freed(h).list
                /\ UNCHANGED <<heap_end, faulted>>
        /\ UNCHANGED <<bitmap, used_pages, returned, others>>

-----------------------------------------------------------------------------
(* The rest of the kernel takes and gives back single pages. *)
OtherTakes ==
    /\ ~faulted /\ pmm_alloc_page
    /\ others' = others \cup ({returned'} \ {-1})
    /\ UNCHANGED <<heapVars, live, faulted>>

OtherFrees(page) ==
    /\ ~faulted /\ pmm_free_page(page)
    /\ others' = others \ {page}
    /\ UNCHANGED <<heapVars, live, faulted>>

(* What a page holds that is not the heap's is not known; the word before   *)
(* the first page is the last entry of a page table, far too large a size.  *)
WILD == total_pages * PAGE_WORDS + 1

kmalloc_init ==
    LET initial == Address(RESERVED_PAGES)
        empty == [a \in Words |-> IF a < initial THEN WILD ELSE 0]
    IN  /\ mem = NewBlock(empty, initial, PAGE_WORDS)
        /\ free_list = initial
        /\ heap_end = initial + PAGE_WORDS

Init ==
    /\ bitmap = 0..RESERVED_PAGES
    /\ used_pages = RESERVED_PAGES + 1
    /\ returned = RESERVED_PAGES
    /\ kmalloc_init
    /\ live = {} /\ others = {} /\ faulted = FALSE

(* The heap while nothing is given back to it. *)
AllocNext ==
    \/ \E n \in Sizes : kmalloc(n)
    \/ OtherTakes
    \/ \E page \in others : OtherFrees(page)

AllocSpec == Init /\ [][AllocNext]_vars

Next == AllocNext \/ \E block \in live : kfree(block)

Spec == Init /\ [][Next]_vars

-----------------------------------------------------------------------------
LiveHeaders == {block.ptr - HEADER_SIZE : block \in live}
ListedHeaders == {FreeBlocks(Heap)[i] : i \in DOMAIN FreeBlocks(Heap)}
Extent(h) == h..(h + size(mem, h) - 1)
PagesOf(words) == {a \div PAGE_WORDS : a \in words}

(* Types, with the invariants of the page allocator.                        *)
TypeOK ==
    /\ PmmTypeOK
    /\ DOMAIN mem = Words
    /\ free_list \in Words /\ heap_end \in 1..(total_pages * PAGE_WORDS)
    /\ \A block \in live : block.ptr \in Words /\ block.size \in Sizes
    /\ others \subseteq Pages
    /\ faulted \in BOOLEAN

(* No two blocks overlap, whether in use or in the free list: what one      *)
(* caller of kmalloc writes never reaches another caller's block or the     *)
(* links of the list; and a block is as large as was asked for.             *)
NoOverlap ==
    /\ \A g, h \in LiveHeaders \cup ListedHeaders : g # h => Extent(g) \cap Extent(h) = {}
    /\ LiveHeaders \cap ListedHeaders = {}
    /\ \A block \in live :
          block.ptr + block.size <= block.ptr - HEADER_SIZE + size(mem, block.ptr - HEADER_SIZE) - 1

(* The blocks cover the pages of the heap without a gap, no word is lost to *)
(* splitting, and no such page is one the rest of the kernel holds.         *)
BlocksTile ==
    LET words == UNION {Extent(h) : h \in LiveHeaders \cup ListedHeaders}
    IN  /\ Cardinality(words) = PAGE_WORDS * Cardinality(PagesOf(words))
        /\ PagesOf(words) \subseteq bitmap \ others

(* Boundary tags and links agree: every block carries its size in its last  *)
(* word and the magic number, and every listed block is the prev of its     *)
(* next.                                                                    *)
ListConsistent ==
    /\ \A h \in LiveHeaders \cup ListedHeaders :
          magic(mem, h) = HEAP_MAGIC /\ mem[h + size(mem, h) - 1] = size(mem, h)
    /\ free_list # nullptr => prev(mem, free_list) = nullptr
    /\ \A h \in ListedHeaders : next(mem, h) # nullptr => prev(mem, next(mem, h)) = h
=============================================================================
