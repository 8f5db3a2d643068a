# NemoOS: TLA+ models and proofs

NemoOS is a kernel for one i386 CPU, written in C++ and assembly under
`src/src/`. This directory models the parts of it in which order matters
(scheduling, processes, messages, keys, the cursor, the network card) and the
parts whose data structures must survive any sequence of calls (pages, heap,
files, disk, address cache). TLC checks the models
on small instances. TLAPS proves the central invariants for every value of the
constants.

## The system

After boot three kernel processes share the CPU: the shell (pid 1) and two
loops that only count (`prime_task`, `counter_task`). The shell's `ring3` and
`exec` commands add user processes.

* **What runs when.** Interrupt gates clear IF, so `irq0`, `irq1` and
  `int 0x80` run to completion. Kernel processes run with interrupts enabled
  and can be interrupted between any two instructions. Concurrency is therefore
  a tick, a key or a program's system call between two steps of the shell or of
  `kernel_main`.
* **Who shares what.** The process table, the process states and the message
  queues are used by the shell, by system calls and by the tick. The key ring
  is used by `irq1`, the shell and the `read` call, the terminal by the shell and
  the `write` call. The card fills its receive ring and empties its transmit
  slots by itself; `net_poll`, called by the shell's task, only looks. Pages,
  heap, files and the protocols belong to the shell alone once the scheduler has
  started. (The `wait` call
  would destroy processes too, but `process_create` makes every process a child
  of pid 1, so it never finds one to reap.)
* **Nothing is persisted** (the disk is only read), and there is no second CPU, so there is no crash
  recovery to model. A panic or a fault stops the machine.

| Part | State | Operations | What makes it hard |
|---|---|---|---|
| process table, scheduler | `process_table`, `process_count`, `current_process`, PCBs, cr3, esp0 | tick, create, destroy, kill, exit, wait, boot hand-over | an index kept across removals; a tick inside `exec`, `recv` and the hand-over; nothing reaps the dead |
| messages | `ipc_queue` | send, receive, block, wake | check and increment are not atomic for the shell |
| keyboard | modifier flags, ring, line | make, break, pop, read, edit | three users of one ring, two keys for one flag |
| page allocator | bitmap, `used_pages` | alloc, free | double free, exhaustion |
| address spaces, frames | directories, tables, stacks | create, map, load, destroy | failure at each allocation |
| heap | headers, boundary tags, list | kmalloc, kfree, grow | split, growth over a gap, coalescing |
| terminal | `row`, `col` | putchar, scroll, clear | a program prints in the middle of the shell's putchar |
| files | node pool, sibling lists, mounts, `cwd` | touch, mkdir, cd, pwd, ls, cat, write | hidden names, a pointer kept between commands, two file systems behind one node type |
| FAT32, disk | table, directories, clusters | mount, read, readdir, finddir | chains, deleted entries, sectors that cannot be read |
| network card | receive ring, transmit slots | poll, send; receive and transmit by the card | the card moves while the driver works, both rings wrap |
| protocols | address cache, id, `len` | poll loop, ARP, IP, echo, ping | answers late, repeated or contradictory; a full cache |
| PCI, boot, descriptor tables | | | not modelled, see below |

## Modules

**`Scheduler`** (`MCScheduler` for TLC). One action per tick, shell command,
system call and step of `process_first_enter`. `scheduler_tick(tbl, n, st)` is
the tail of `irq0` and of `syscall_stub`; it takes the table and states the
handler left. `saved_esp` tells where a saved frame stands: `"here"` where the
process was suspended, `"old"` a place it has since left, `"boot"` the frame of
`kernel_main`, `"null"` none. The shell's commands are taken in the steps between
which a tick matters: `exec` (create, switch cr3, load, switch back, set the
entry, or destroy), the accesses of `ipc_send` and `ipc_recv` to `count` and to
the state, and the two stores of `register_process`, which counts a slot before
it fills it. A freed PCB may still be in that slot; what the heap has put there
since may look runnable (`DispatchFreed`). `elfinfo` loads a program into the
kernel's space, which decides what a load that has gone astray meets there.
`KernelTable` and `Queued` say which kernel processes and queues boot had the
memory to create.

**`Ipc`** is the shell's queue at the level of memory accesses: the build has no
optimisation, so `count++` is a load and a store. `programs`, fixed at the
start, says whether a program sends to it. **`Keyboard`** covers the driver, the
ring, the shell's line and the `read` call; the shell's pop is two steps under
`cli`. Enter runs a command, which may block or kill the shell or never return,
and programs may wake or kill it. **`Fifo`** is the abstract bounded queue that
both implement.

**`Pmm`** is the page allocator. **`PageRuns`** says what several of its calls in a row
do, and what `heap_grow` takes. **`Frames`** is who owns which page:
`alloc`, `free`, `ring3`, `exec`, `elfinfo` and heap growth, with every way of
running out. **`Heap`** is `kmalloc` and `kfree` on a memory of words.

**`Terminal`** is the cursor of `terminal.cpp`: the shell's `putchar` in steps of
one memory access, a program's (system call `write`) in one. `loaded` is the
register between a load and its store. **`ShellShared`** composes it with `Ipc`:
the shell is in one call at a time, and programs come in between any two
accesses of either.

**`Ramfs`** is the node tree in RAM and **`Fat32`** the disk, both as functions of
their data. **`Files`** (`MCFiles`) puts them behind the mounts "/" and "/mnt" and
has one action per file command. A node of the disk is made anew by each lookup
and points to the one it was looked up in, so it is modelled as the entries on
the way from the mount. What cannot be read during a command is a parameter of
it (`bad`), so every read may be the one that fails. A chain that is a cycle keeps
a command for ever (`machine = "loop"`). A node created in a directory of the disk
gets that directory's cluster number as its sibling, and the cluster number
becomes the node's address: such links are `outside` the tree.

**`Rtl8139`** is the card beside its driver: the receive ring in words, with the
header and checksum words that `rtl8139_poll` steps over, and the transmit
slots. `device` is how far `rtl8139_init_one` got: no card, one left enabled
without buffers, or one that works. The transmit buffers lie behind `rx_buffer`,
and what the card writes there destroys the frames that wait in them (`Trampled`).
Bytes read at a wrong place may look like any frame (`TakenFor`). **`Checksum`** is the Internet checksum on 16-bit words. **`Net`**
(`MCNet`) adds `net_poll`, the address cache, `ip_send`, the echo service and
`ping`. The network may bring any frame at any time, which covers lost, late,
repeated, reordered and contradictory answers.

**`SchedulerProofs`, `KeyboardProofs`, `ShellSharedProofs`, `FramesProofs`,
`RamfsProofs`, `FilesProofs`, `NetProofs`** and **`Lemmas`** hold the theorems.

Definitions named `X_Something` next to `X` are faulty variants of `X`, each a
plausible mistake in the code that `X` models. For every property of a passing
run, `PROJECT.json` names one that must make TLC find the property violated.

## Runs

| Run | Properties | Shows |
|---|---|---|
| `scheduler_full` | `TypeOK` `CurrentIsOnCpu` `RegistersMatch` `OneRunning` `TableConsistent` `OthersContextSaved` `DeadIsFinal` | under all commands and system calls, up to the full table's panic: index, registers, states and table agree, and only the shell can lose its frame |
| `scheduler_ring3` | `NoStarvation` | without `exec`, and with a kernel process missing: whatever is killed, blocked, woken or created, no READY process starves |
| `keyboard` | `TypeOK` `NoStuckModifier` `RingIsFifo` `KeysGetRead` | the ring is a FIFO for all its users, and its characters are read while the shell is scheduled and its commands return |
| `shell_shared` | `TypeOK` `CursorReturns` `QueueIsFifo` | the cursor is on the screen after each character; the queue is a FIFO while the shell alone uses it; with programs, indices stay in range and `count` overshoots by at most one |
| `frames_owners` | `TypeOK` `CountExact` `AllocFresh` `NothingDangles` `NoPageHasTwoOwners` | exhaustion included, only free pages are handed out and the count is exact; pages may leak, but none in use is free or shared |
| `heap_alloc` | `TypeOK` `NoOverlap` `BlocksTile` `ListConsistent` | `kmalloc` alone, with growth of every kind |
| `files` | `TypeOK` `TreeOK` `PwdLeadsBack` `FileKeepsNewest` `CatShowsFile` `LsShowsDirectory` `LookupStable` | with hidden names, a full pool, unreadable sectors and cyclic chains: the tree stays a tree, `pwd` leads back, no command disturbs another lookup, `ls` and `cat` show what FAT32 says is there |
| `net` | `TypeOK` `CacheIsLatest` `HeaderAccepted` `SentAsAnnounced` `HandledInOrder` | the address cache holds what was announced last, packets are handled once and in order and sent where they belong, headers carry a valid checksum |
| `scheduler_v_context` | `ContextSaved` | **violated**, see below |
| `scheduler_v_exec` | `LoadedWhereAsked` | **violated** |
| `ipc_v_bound` | `QueueBounded` | **violated** |
| `heap_v_overlap` | `NoOverlap` | **violated** once `kfree` is called |

### Violations

* **`ContextSaved`.** The shell calls `recv` on an empty queue: its state is
  BLOCKED, and it goes on until the next tick. If it sends a message to itself
  before that tick, it is READY while it runs. `scheduler_tick` saves a frame only for RUNNING
  and BLOCKED, so the shell is later resumed from an old frame.
* **`LoadedWhereAsked`.** `exec` sets cr3 to the new space and copies the
  program with interrupts enabled. A tick resumes the shell with its own space,
  and the copy goes on there. It usually ends in a page fault; when an earlier
  `elfinfo` has mapped the page in the kernel's space, it ends there and reports
  success. On the way round the table the new process has the CPU with entry 0;
  the behaviour needs an IRQ0 that is pending at its iret, before its first
  instruction faults.
* **`QueueBounded`.** The shell tests `count`, a program's send fills the last
  slot, and the shell goes on: `count` passes the limit and a message is
  overwritten.
* **`NoOverlap`.** `kfree` merges with a neighbour that carries `HEAP_MAGIC`.
  A block in use carries it too and becomes part of a free block.

### Other deviations met while modelling

The models contain these behaviours, and no run states a property about them.

* `scheduler_tick` has no idle context (`reporte.txt:137`): with nothing
  runnable the interrupted process goes on, even when dead (`StayOn`).
* No tick cleans up the dead (`reporte.txt:232`): a dead process keeps its slot,
  until the table is full and creation panics.
* The release of one shift key clears the flag while the other is down
  (`ModifierBreak`; `reporte.txt:256` claims both).
* `process_destroy` frees tables and stacks, not the pages they map
  (`DestroyFrees`; `reporte.txt:236`).
* When its two stack pages are not adjacent, `alloc_kernel_stack` frees them and
  gets the same two again, until the stack overflows (`process_create_recurses`).
* A message sent between the test and the store of `recv` wakes nobody. If the
  queue is full by then, no later send can wake the shell either.
* A process that `exec` creates is READY before it is loaded, and faults when a
  tick runs it then (`UserFault` with entry `"null"`).
* A shell that is killed and calls `recv` before the next tick is BLOCKED, and a
  send revives it; `DeadIsFinal` is about the others.
* **Terminal.** A program's newline between the shell's test of `col` and its
  decrement takes `col` to -1, and the next character goes to the end of the row
  above (`BackStore`). `CursorReturns` therefore allows column -1 when programs
  print. A backspace stops at column 0, so a line that has wrapped cannot be
  erased on the screen beyond the wrap, although the shell's index goes on down.
* **Paths.** The mount "/" matches only "/" and paths that begin with "//", so
  `cd /bin` finds nothing (`UnderMnt`, `vfs_resolve`).
* **FAT32.** `fat32_read` computes a cluster's place in the file from its number
  (`ReadStep`): only files in clusters 2, 3, ... are read right, and
  `CatShowsFile` is about these. `touch` and `mkdir` in a directory of the disk
  overwrite its `first_cluster` (`CreateOnDisk`), and `write` to a file of the
  disk calls a null pointer (`WriteTo`). The end mark of a directory ends only
  its cluster and volume labels are listed as files (`Live`), which
  `LsShowsDirectory` allows. No loop notices a chain that is a cycle
  (`IsEndless`).
* **Network card.** `rtl8139_poll` steps over a packet without its checksum word
  and takes that word for the next header (`PollTakes`, `PollFinds`). It compares
  `rx_offset` with the card's position as if the ring never wrapped, and hears
  nothing more once the card has wrapped (`PollRefuses`). The ring the card is
  told (16 KB) is longer than `rx_buffer` (8 KB and 16 bytes), and reaches into the
  transmit buffers (`Trampled`). A transmit slot is refilled without asking whether
  it was sent (`rtl8139_send_packet`). When a transmit buffer cannot be allocated,
  the receiver stays enabled on memory that is freed (`device = "enabled"`).
* **Protocols.** `len` is not reset between two polls of one `net_poll`, so a short
  frame cuts the next. `ping` sends before the ARP answer can be there, and its
  first echo to an unknown host is dropped. A full address cache refuses every new
  host for good.

Read in the code and outside the models: the shell tells `wc`, `head` and
`rev` apart by their second letter (`shell.cpp:785`), so `wc` prints the text
reversed and `rev` drops a letter of the file name and acts as `head`; `pwd` in a directory of the disk,
and the 256 bytes of its buffer; clusters of more than eight sectors overrun
`cluster_buf`; each lookup on the disk leaks its node; `update_cursor` can be interrupted
between the index and the value of a cursor register; with 1 GB of RAM or more
the page bitmap and the identity map overlap what comes after them.

## Bounds

* **Scheduler:** table of 4 (3 kernel processes and one free slot), up to 5
  pids, queue of 1. One user slot is enough to fill, free and refill the table
  and to reach the panic; two pids for it cover reuse after a failed `exec`.
  `scheduler_ring3` has a kernel process less, so two user processes, and leaves
  out `exec`, to keep the graph within reach of the liveness check.
* **Keyboard:** ring of 3 slots (2 characters, so order and wrap-around both
  show), line of 1, both shift keys. **ShellShared:** a
  queue of 3 slots with 2 messages, a screen of 2 by 2: the smallest on which a
  line can wrap, the screen scroll, and both at once.
* **Frames, Heap:** RAM of a few pages, so that every allocation of every
  command is the one that fails in some behaviour. `BOOT_HEAP_PAGES`,
  `KERNEL_PROCESSES` and `USER_PAGES` say what is taken at boot and how large a
  program may be. The heap's page has just enough words for several splits.
* **Files:** the 6 nodes of boot and 2 more, one name that exists already and
  paths of every form; files of 5 bytes, texts of 6 and a `cat` that asks for 4, so
  that both truncate. No disk or one of three, each with 5 clusters of 2 bytes:
  directories and files of two clusters in and out of order, deleted entries, long
  names, labels, an end mark before a second cluster, cycles, a file without
  clusters, and faults in data and table. `pwd` stops after `PWD_LEVELS` levels, 64 in the code
  and 2 here, so that it stops too early in some behaviours; its buffer of 256
  bytes is not modelled. `Names` are the names nodes may have.
* **Net:** 3 packets into a ring of 8 words of which the buffer covers 5, so that
  it wraps and runs past the buffer, into transmit buffers of `TX_BUF_WORDS` = 2
  words that are shorter than what a poll may return; 3 hosts for 2 cache slots, 2
  addresses, 2 transmit slots, one ping. Hosts and addresses are symmetric: nothing but
  equality is asked of them, and the one `CHOOSE` over them is in a faulty
  variant. `HeaderAccepted` is checked for the ids reached and for those `Later` adds, at
  the wrap and where a fold carries again, and proved for all.

Every bound is a constant named in its module. Deadlock is checked in the
scheduler, keyboard, frames and heap runs. It is not in `ShellShared` and `Ipc`,
where the shell may stay blocked for ever, in `Files`, where a write to the
disk's file stops the kernel and a cycle keeps it, and in `Net`, where the bounds on packets and
pings are used up.

## Fairness

`Scheduler!FairSpec` assumes weak fairness of the tick, which the timer raises
for ever, and of `kernel_main`'s steps. It assumes nothing of the operator or of
programs. `Keyboard!FairSpec` assumes that a shell that is READY infinitely often
with something to pop or to handle gets to do it, which is what `NoStarvation`
says of a READY process; that a pop under `cli` is finished; and that a begun
system call ends. Nothing is assumed of a BLOCKED or DEAD shell, nor that a
command returns: `KeysGetRead` has that as its hypothesis. The other specifications are safety only.

## Proofs

TLAPS proves, for every value of the constants allowed by the ASSUMEs:

* **`SchedulerProofs`**: `KernelInv` is inductive, hence `TypeOK`,
  `CurrentIsOnCpu`, `RegistersMatch`, `OneRunning`, `TableConsistent`, and from
  it `DeadIsFinal`. The five properties are not inductive alone. `TableInv` adds
  that the kernel processes keep the first slots, that pids are handed
  out in order, that the process the shell builds is the last of the table, and
  that the slots behind it hold nothing or freed PCBs:
  this is why the removal of a process never moves the entry `current_process`
  names. `BootInv` adds where `kernel_main` can be, and that its saved frame can
  only be the shell's; `QueueInv` what the shell has tested of a `count` when a
  program sends, which bounds the overshoot by one. On top of `KernelInv`:
  `ContextsKept` proves `OthersContextSaved`. `ContextInv` says that a process
  never entered has no frame, that the one on the CPU is RUNNING or DEAD (so that
  `scheduler_tick` saves it or may forget it), and that one entered and left keeps
  the frame saved then. The shell is excepted: `ContextSaved` is violated for it.
* **`KeyboardProofs`**: `TypeOK`, and that the ring implements `Fifo` for every
  size. The mapping reads the queue from `tail` to `head`. The proof needs
  `PopInv` (interrupts are off between the shell's load and its store) and the
  arithmetic of a wrapping index from `Lemmas`.
  `ModifiersRelease` proves `NoStuckModifier` from an invariant about the keys
  held down.
* **`ShellSharedProofs`**. Queue: `TypeOK` with programs sending at every point, and that
  it implements `Fifo` for every capacity when the shell alone uses it. `PcInv` says
  what the register may hold at each position of a send or receive; `RingInv`
  that `tail` is `count` slots after the first message, but for the steps between
  the stores of `tail` (or `head`) and `count`. A send is the abstract Put at the
  store of `count`, a receive the abstract Get at its store.
  Cursor: `TerminalTypeOK` and `CursorReturns` for every size of the
  screen. `CursorInv` says at which positions of `putchar` row and col may be one
  past the screen and what the register holds; the lemma `ProgramOnScreen` that a
  program's character ends on the screen from each of these.
  Both: each behaviour of the composition is one of `Ipc` and one of `Terminal` (the
  lemma `SharedIsBoth`), so the three properties of the run `shell_shared` hold for
  every capacity, screen and program.
* **`FramesProofs`**, in two parts. The allocator alone (`PmmSpec`), with frees of
  any page at any time, so double frees too: `PmmTypeOK`, `CountExact` and
  `AllocFresh` for every amount of RAM, by the cardinality of the bitmap. The
  commands on top of it: all five properties of `frames_owners`, for every amount
  of RAM that survives boot (`RamAssumption`), every number of processes and
  every size of program. `FramesInv` is their conjunction, with the fact that a
  load goes on only for a process that exists. The commands take several pages
  at once, as `Fresh` of `PageRuns`: `FreshIsSuccessiveAllocs` shows that these
  are the pages which as many calls of `pmm_alloc_page` return.
* **`RamfsProofs`, `FilesProofs`**: five of the seven properties of `Files`, for every size of
  pool (with room for the 6 nodes of boot) and file, every disk, name, path and
  fault. `PoolOK` is the inductive
  invariant of the pool: each node is made behind all others and put before all
  others in its list, so that `first_child` and `next_sibling` lead through the
  children of a directory in falling order, and a parent comes before its
  children. Of a node created in a directory of the disk only the empty list of its
  children matters: no other list leads to it. A walk along such links ends (`ChildrenFall`), and a lookup finds the
  greatest number of that name (`FinddirLast`), which is how the recursion of the
  walk leaves the rest of the proof. `ListsAreTree` is then a consequence, and
  `NamesAreStable` needs only that a new node has the greatest number.
  `AllNewest` says of each byte that the last write long enough stored it
  (`NewestIsKept`). `PwdLeadsBack` is not inductive, because a directory on the
  way to `cwd` could be hidden by a new one of its name: a node is in a `Reached`
  set when it and all above it are the newest of their names. A path leads only to
  such nodes (`WalkPlace`), and a creation hides none on the way to `cwd`, since
  it makes a child of `cwd` itself. The climb of `pwd` ends because parents have
  smaller numbers (`Climb`).
* **`NetProofs`**: all five properties of `Net`, for every number of hosts, cache and
  transmit slots, packets and pings and every size of ring and buffer. `CacheInv`
  is `CacheIsLatest` slot by slot; `RxInv` says that until `rx_offset` is ahead of
  the card, where it then stays, the packets between them are numbered in the
  order of their places and after the one handled last. `HeaderAccepted` rests on a lemma on one's-complement
  sums: a folded sum and its complement fold to 65535.

The inductive invariants that no run states (`ContextInv`, `FramesInv`, `FilesInv`
and the others named above) hold under TLC too, in the configurations of the
runs.

Only model-checked: the liveness properties (`NoStarvation`, `KeysGetRead`),
because the prover has no fairness or ENABLED reasoning; everything about
`Heap`, whose list walk is a RECURSIVE operator; `CatShowsFile` and
`LsShowsDirectory`, which compare a loop over the chain of a file, or a directory
joined from its clusters, with what FAT32 says they are: equality of two
computations over data of any length.

## Not modelled

* **PCI, ATA set-up, the card's registers:** port I/O in one pass at boot. A
  sector read is a call that succeeds or fails; its polling is left out, and
  `ata_write_sector` has no caller.
* **Set-up:** boot code, multiboot, descriptor tables, PIC: straight-line code that
  runs before interrupts are enabled.
* **Output:** the characters on the screen, the serial line, the commands that only
  print (`help`, `ps`, `mem`, `netstat`, `lsdisk`). `wc`, `head` and `rev` read as
  `cat` does. **libk and ports:** library routines and single instructions.
* **`task.cpp`, `sleep.cpp`**: nothing calls `task_create` or `sleep_ms` any more.
* **Keyboard with Scheduler:** the fairness `Keyboard` assumes of the shell is what
  `NoStarvation` says; the two are not composed in one run, whose state space is
  the product of both.
