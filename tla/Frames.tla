------------------------------- MODULE Frames -------------------------------
(***************************************************************************)
(* Who owns the physical pages: the shell commands alloc, free, ring3,     *)
(* exec and elfinfo on top of the page allocator (memory/pmm_bitmap.cpp),  *)
(* address spaces (memory/vmm.cpp, user/user_mode.cpp), kernel stacks      *)
(* (process/process.cpp) and the ELF loader (fs/elf.cpp).                  *)
(*                                                                         *)
(* Only the shell allocates and frees pages, so a command is one step; exec*)
(* is two, the creation of the process and the load.  An address space is  *)
(* its directory, the one page table of the user region at 0x40000000 and  *)
(* what that table maps; virtual page 0 is USER_CODE_ADDR, 1 is the user   *)
(* stack.  The kernel's own table for that region exists once elfinfo has  *)
(* loaded a program there.  Of the heap, only the pages it grows by matter *)
(* here; Heap models the rest of it.                                       *)
(***************************************************************************)
EXTENDS PageRuns

CONSTANTS PROCESS_BOUND,   \* bound: live processes (16 in the code, then panic)
          PAGES_PER_TABLE, \* pages a page table maps (1024 in the code)
          BOOT_HEAP_PAGES, \* pages of the heap when user_map_pages is called
          KERNEL_PROCESSES, \* processes kernel_main creates (3 in the code)
          USER_PAGES,      \* bound: pages of the user region a program may use
          Commands         \* commands the operator types

ASSUME FramesAssumption ==
    /\ PROCESS_BOUND \in Nat /\ PAGES_PER_TABLE \in Nat \ {0}
    /\ BOOT_HEAP_PAGES \in Nat /\ KERNEL_PROCESSES \in Nat
    /\ USER_PAGES \in Nat /\ USER_PAGES >= 2
    /\ Commands \subseteq {"alloc", "free", "ring3", "exec", "elfinfo"}

VARIABLES test_page,        \* the shell's test_page
          kernel_pt, kernel_map,
          procs,            \* live user processes, oldest first
          loading,          \* is exec between process_create and the load?
          stopped           \* "": running; else why the kernel is gone

vars == <<bitmap, used_pages, returned, test_page, kernel_pt, kernel_map, procs,
          loading, stopped>>

NoPage == -1
VirtualPages == 0..(USER_PAGES - 1)

(* paging_init maps all of RAM in the kernel's directory.  boot_page_table  *)
(* serves the first PAGES_PER_TABLE pages; each further table takes a page. *)
(* Every address space shares them.                                         *)
table_count == (total_pages - 1) \div PAGES_PER_TABLE
kernel_tables == RESERVED_PAGES..(RESERVED_PAGES + table_count - 1)

(* Then come kmalloc_init, user_map_pages and the kernel processes' stacks. *)
user_code_phys == RESERVED_PAGES + table_count + BOOT_HEAP_PAGES
kernel_stacks == (user_code_phys + 1)..(user_code_phys + 2 * KERNEL_PROCESSES)
BootPages == user_code_phys + 2 * KERNEL_PROCESSES + 1

(* paging_init and kmalloc_init panic when memory runs out, and without the *)
(* user code page and the shell's stack there is nothing to run.            *)
ASSUME RamAssumption == BootPages <= total_pages

Unmapped == [v \in VirtualPages |-> NoPage]

Init ==
    /\ bitmap = 0..(BootPages - 1)
    /\ used_pages = BootPages
    /\ returned = BootPages - 1
    /\ test_page = NoPage
    /\ kernel_pt = NoPage /\ kernel_map = Unmapped
    /\ procs = <<>> /\ loading = FALSE
    /\ stopped = ""

-----------------------------------------------------------------------------
(* kmalloc found no block and calls heap_grow: in any command and, for the  *)
(* file's buffer, between the creation of a process and its load.           *)
HeapGrows ==
    /\ stopped = "" /\ Fresh # <<>>
    /\ Holding(FirstFresh(GrowTaken), {})
    /\ UNCHANGED <<test_page, kernel_pt, kernel_map, procs, loading, stopped>>

Ready(command) == stopped = "" /\ ~loading /\ command \in Commands

ShellAlloc ==
    /\ Ready("alloc")
    /\ pmm_alloc_page
    /\ test_page' = returned'
    /\ UNCHANGED <<kernel_pt, kernel_map, procs, loading, stopped>>

ShellFree ==
    /\ Ready("free")
    /\ test_page # NoPage
    /\ pmm_free_page(test_page)
    /\ test_page' = NoPage
    /\ UNCHANGED <<kernel_pt, kernel_map, procs, loading, stopped>>

-----------------------------------------------------------------------------
(* process_create: directory, page table, user stack, two stack pages *)

(* vmm_create_space copies the kernel's table of the user region if there   *)
(* is one; otherwise vmm_map makes the table.  It is the second page.       *)
NewSpace_SharesTable ==
    [pd |-> Fresh[1], pt |-> IF kernel_pt # NoPage THEN kernel_pt ELSE Fresh[2],
     map |-> [kernel_map EXCEPT ![0] = user_code_phys, ![1] = Fresh[3]],
     kernel_stack |-> {Fresh[4], Fresh[5]}, own |-> {Fresh[3]}]

NewSpace ==
    [pd |-> Fresh[1], pt |-> Fresh[2],
     map |-> [kernel_map EXCEPT ![0] = user_code_phys, ![1] = Fresh[3]],
     kernel_stack |-> {Fresh[4], Fresh[5]}, own |-> {Fresh[3]}]

(* Out of memory.  vmm_create_space cleans up after itself; when the pages  *)
(* run out later, process_create frees the PCB and keeps the space.         *)
process_create_fails ==
    /\ Len(Fresh) < 5
    /\ LET kept == IF Len(Fresh) < 2 /\ kernel_pt # NoPage THEN 0
                   ELSE IF Len(Fresh) < 3 THEN Len(Fresh) ELSE 3
       IN  Holding(FirstFresh(kept), {})
    /\ UNCHANGED <<procs, stopped>>

(* alloc_kernel_stack gives two pages that are not adjacent back and calls  *)
(* itself: it gets the same two again, until the stack overflows.           *)
process_create_recurses ==
    /\ Len(Fresh) >= 5 /\ Fresh[5] # Fresh[4] + 1
    /\ Holding(FirstFresh(3), {})
    /\ stopped' = "recursion"
    /\ UNCHANGED procs

process_create ==
    /\ Len(Fresh) >= 5 /\ Fresh[5] = Fresh[4] + 1
    /\ Holding(FirstFresh(5), {})
    /\ procs' = Append(procs, NewSpace)
    /\ UNCHANGED stopped

ShellRing3 ==
    /\ Ready("ring3") /\ Len(procs) < PROCESS_BOUND
    /\ process_create \/ process_create_fails \/ process_create_recurses
    /\ UNCHANGED <<test_page, kernel_pt, kernel_map, loading>>

ShellExec ==
    /\ Ready("exec") /\ Len(procs) < PROCESS_BOUND
    /\ \/ process_create /\ loading' = TRUE
       \/ (process_create_fails \/ process_create_recurses) /\ UNCHANGED loading
    /\ UNCHANGED <<test_page, kernel_pt, kernel_map>>

-----------------------------------------------------------------------------
(* elf_load_into for a program of pages 0..n *)

uproc == procs[Len(procs)]

(* map with the first k fresh pages of order put into pages 0..k-1.         *)
Loaded(map, order, k) == [v \in VirtualPages |-> IF v < k THEN order[v + 1] ELSE map[v]]

LoadedSpace(p, k) == [p EXCEPT !.map = Loaded(@, Fresh, k), !.own = @ \cup FirstFresh(k)]

ExecLoad(n) ==
    /\ loading /\ stopped = ""
    /\ Len(Fresh) >= n + 1
    /\ Holding(FirstFresh(n + 1), {})
    /\ procs' = [procs EXCEPT ![Len(procs)] = LoadedSpace(uproc, n + 1)]
    /\ loading' = FALSE
    /\ UNCHANGED <<test_page, kernel_pt, kernel_map, stopped>>

(* process_destroy: vmm_destroy_space frees the table of the user region    *)
(* and the directory, not what the table maps and not the kernel's tables;  *)
(* then the kernel stack.                                                   *)
DestroyFrees_AllTables(p) == {p.pd, p.pt} \cup kernel_tables \cup p.kernel_stack

DestroyFrees(p) == {p.pd, p.pt} \cup p.kernel_stack

(* The load fails: not an ELF file (k = 0), or no page left after k.        *)
ExecFail(k) ==
    /\ loading /\ stopped = ""
    /\ k = 0 \/ k = Len(Fresh)
    /\ Holding(FirstFresh(k), DestroyFrees(uproc))
    /\ procs' = SubSeq(procs, 1, Len(procs) - 1)
    /\ loading' = FALSE
    /\ UNCHANGED <<test_page, kernel_pt, kernel_map, stopped>>

(* elfinfo loads into the kernel's space.  The first page comes before the  *)
(* table, if there is no table yet.                                         *)
KernelLoadOrder == IF kernel_pt # NoPage THEN Fresh
                   ELSE <<Fresh[1]>> \o SubSeq(Fresh, 3, Len(Fresh))
NeedsTable == IF kernel_pt = NoPage THEN 1 ELSE 0

(* k pages are loaded: all n + 1 of them, or as many as were left.          *)
ShellElfinfo(n, k) ==
    /\ Ready("elfinfo")
    /\ Len(Fresh) >= 1 + NeedsTable
    /\ \/ k = n + 1 /\ k + NeedsTable <= Len(Fresh)
       \/ k < n + 1 /\ k + NeedsTable = Len(Fresh)
    /\ Holding(FirstFresh(k + NeedsTable), {})
    /\ kernel_pt' = IF kernel_pt = NoPage THEN Fresh[2] ELSE kernel_pt
    /\ kernel_map' = Loaded(kernel_map, KernelLoadOrder, k)
    /\ UNCHANGED <<test_page, procs, loading, stopped>>

(* One page left and no table: vmm_map fails and its result is not looked   *)
(* at.  A longer program fails on its second page; for one of one page the  *)
(* copy to the unmapped address is a page fault.                            *)
ShellElfinfoNoTable(n) ==
    /\ Ready("elfinfo")
    /\ kernel_pt = NoPage /\ Len(Fresh) = 1
    /\ Holding(FirstFresh(1), {})
    /\ stopped' = IF n = 0 THEN "page fault" ELSE stopped
    /\ UNCHANGED <<test_page, kernel_pt, kernel_map, procs, loading>>

Stopped == stopped # "" /\ UNCHANGED vars

Next ==
    \/ HeapGrows \/ ShellAlloc \/ ShellFree \/ ShellRing3 \/ ShellExec
    \/ \E n \in VirtualPages : ExecLoad(n)
    \/ \E k \in VirtualPages : ExecFail(k)
    \/ \E n \in VirtualPages : \E k \in 1..(n + 1) : ShellElfinfo(n, k)
    \/ \E n \in VirtualPages : ShellElfinfoNoTable(n)
    \/ Stopped

Spec == Init /\ [][Next]_vars

-----------------------------------------------------------------------------
ProcessIds == 1..Len(procs)
Mapped(map) == {map[v] : v \in VirtualPages} \ {NoPage}

(* Pages allocated for one process alone.                                   *)
Private(i) ==
    {procs[i].pd, procs[i].pt} \cup procs[i].kernel_stack \cup procs[i].own

(* Pages it can reach.                                                      *)
Reached(i) == Private(i) \cup Mapped(procs[i].map)

(* Pages of the kernel, which every process shares, and of the shell.       *)
Shared ==
    {user_code_phys} \cup kernel_tables \cup kernel_stacks \cup Mapped(kernel_map)
        \cup ({kernel_pt} \ {NoPage})
Tested == {test_page} \ {NoPage}

Space ==
    [pd : Pages, pt : Pages, map : [VirtualPages -> Pages \cup {NoPage}],
     kernel_stack : SUBSET Pages, own : SUBSET Pages]

(* Types, with those of the page allocator.                                 *)
TypeOK ==
    /\ PmmTypeOK
    /\ test_page \in Pages \cup {NoPage} /\ kernel_pt \in Pages \cup {NoPage}
    /\ kernel_map \in [VirtualPages -> Pages \cup {NoPage}]
    /\ procs \in Seq(Space) /\ Len(procs) <= PROCESS_BOUND
    /\ loading \in BOOLEAN
    /\ stopped \in {"", "recursion", "page fault"}

(* No page that a live process, the kernel or the shell refers to is free   *)
(* for the allocator to hand out again.                                     *)
NothingDangles ==
    /\ Shared \cup Tested \subseteq bitmap
    /\ \A i \in ProcessIds : Reached(i) \subseteq bitmap

(* No page belongs to two owners: a directory, a page table, a kernel stack *)
(* or a private page of one process is never mapped by another one, nor is  *)
(* it a page of the kernel; and the page free will give back is nobody's    *)
(* but the shell's.  Within a process no page serves two purposes.          *)
NoPageHasTwoOwners ==
    /\ \A i, j \in ProcessIds : i # j => Private(i) \cap Reached(j) = {}
    /\ \A i \in ProcessIds : Private(i) \cap Shared = {} /\ Tested \cap Reached(i) = {}
    /\ Tested \cap Shared = {}
    /\ \A i \in ProcessIds : LET p == procs[i] IN
           /\ p.pd # p.pt /\ {p.pd, p.pt} \cap (p.kernel_stack \cup p.own) = {}
           /\ p.kernel_stack \cap p.own = {}
=============================================================================
