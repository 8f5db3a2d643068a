------------------------------ MODULE Scheduler ------------------------------
(***************************************************************************)
(* The preemptive core of NemoOS: the process table (process/process.cpp), *)
(* the round-robin scheduler (scheduler/scheduler.cpp), the int 0x80       *)
(* system calls that change process states (syscalls/syscall.cpp), the     *)
(* shell commands kill, send, recv, exec, ring3 and elfinfo                *)
(* (shell/shell.cpp), with the message counts of ipc/ipc.cpp, and the      *)
(* hand-over from kernel_main to the shell (kernel.cpp).                   *)
(*                                                                         *)
(* One CPU.  irq0 and int 0x80 go through interrupt gates, so a timer tick *)
(* and a whole system call are single steps; the shell is a kernel thread  *)
(* that runs with interrupts enabled, so a tick may fall between any two   *)
(* of its steps.  A process is named by its pid, which is never reused.    *)
(***************************************************************************)
EXTENDS Integers, Sequences

CONSTANTS MAX_PROCESSES,         \* slots of process_table (16 in the code)
          PID_BOUND,             \* bound: the model stops creating at this pid
          IPC_MAX_MSG_PER_PROC,  \* capacity of a message queue
          KernelTable,           \* the pids kernel_main's creations got, by slot
          Queued,                \* those that also got a message queue
          Commands,              \* shell commands the operator may type
          Syscalls               \* what user programs may do

(***************************************************************************)
(* kernel_main creates the shell and two more kernel processes.  Without   *)
(* the shell it halts; the others may be missing for want of memory, with  *)
(* or without having used up a pid, and so may any of the message queues   *)
(* (<<1, 2, 3>> and {1, 2, 3} when nothing fails).                         *)
(***************************************************************************)
KernelPids == {KernelTable[i] : i \in 1..Len(KernelTable)}

ASSUME ConstantsAssumption ==
    /\ MAX_PROCESSES \in Nat /\ MAX_PROCESSES >= 3
    /\ PID_BOUND \in Nat /\ PID_BOUND >= 3
    /\ IPC_MAX_MSG_PER_PROC \in Nat \ {0}
    /\ KernelTable \in Seq(1..3) /\ Len(KernelTable) \in 1..3 /\ KernelTable[1] = 1
    /\ \A i, j \in 1..Len(KernelTable) : i < j => KernelTable[i] < KernelTable[j]
    /\ Queued \subseteq KernelPids
    /\ Commands \subseteq {"kill", "send", "recv", "exec", "ring3", "elfinfo"}
    /\ Syscalls \subseteq {"exit", "wait", "kill", "send", "recv", "other", "fault"}

VARIABLES process_table,    \* process_table[i] is a pid, 0 is an unused slot
          process_count, next_pid,
          state,            \* TaskState of every PCB, "FREE" when there is none
          entry,            \* user_entry in the initial frame: "null" or "set"
          image,            \* is a program in the process's space, or in the kernel's?
          saved_esp,        \* which frame saved_esp points at, see Frames
          current_process,  \* index into process_table, -1 before the first
          count,            \* messages in the queue of a kernel process
          cpu,              \* whose instructions the CPU is executing
          cr3, esp0,        \* address space and ring-0 stack: the owner's pid
          started,          \* processes whose initial frame has been entered
          boot,             \* where kernel_main is in process_first_enter
          sh, proc,         \* where the shell is, and the process it works on
          loaded,           \* the q->count it has loaded to change it
          panic

cpuRegs   == <<cpu, cr3, esp0>>
tableVars == <<process_table, process_count, next_pid>>
shellVars == <<sh, proc, loaded>>
vars == <<process_table, process_count, next_pid, state, entry, image,
          saved_esp, current_process, count, cpu, cr3, esp0, started, boot,
          sh, proc, loaded, panic>>

Shell == 1
Pids == 1..PID_BOUND
NoProc == 0          \* nullptr
Boot == 0            \* the context of kernel_main
kernel_space == 0
TaskState == {"FREE", "READY", "RUNNING", "BLOCKED", "DEAD"}

(***************************************************************************)
(* What saved_esp of a process points at: nothing yet ("null", the code's  *)
(* 0), the frame where the process is now suspended ("here"), a frame of   *)
(* kernel_main ("boot"), or a frame the process has since returned through *)
(* ("old"): resuming there runs it from a place it has already left.       *)
(***************************************************************************)
Frames == {"null", "here", "boot", "old"}

Registering == {"register_ring3", "register_exec"}
SendSteps == {"send_load", "send_store", "send_test", "send_wake"}
RecvSteps == {"recv_block", "recv_load", "recv_store"}
LoadSteps == {"exec_load", "exec_astray", "exec_ok", "exec_failed"}
ExecSteps == LoadSteps \cup {"exec_switch", "exec_set_entry", "exec_destroy", "exec_remove"}

address_space(p) == IF p \in KernelPids THEN kernel_space ELSE p

process_get(tbl, n, i) == IF i \in 0..(n - 1) THEN tbl[i] ELSE NoProc

scheduler_current_process == process_get(process_table, process_count, current_process)

(* p is found by its pid.  The slot register_process is filling may still   *)
(* point at a freed PCB: what is stored through it changes no process.      *)
Registered(p) ==
    state[p] # "FREE" /\ \E i \in 0..(process_count - 1) : process_table[i] = p

Init ==
    /\ process_table = [i \in 0..(MAX_PROCESSES - 1) |->
                           IF i < Len(KernelTable) THEN KernelTable[i + 1] ELSE NoProc]
    /\ process_count = Len(KernelTable)
    /\ next_pid \in (KernelTable[Len(KernelTable)] + 1)..4
    /\ state = [p \in Pids |-> IF p \in KernelPids THEN "READY" ELSE "FREE"]
    /\ entry = [p \in Pids |-> IF p \in KernelPids THEN "set" ELSE "null"]
    /\ image = [p \in Pids \cup {kernel_space} |-> p \in KernelPids]
    /\ saved_esp = [p \in Pids |-> "null"]
    /\ current_process = -1
    /\ count = [p \in KernelPids |-> 0]
    /\ cpu = Boot /\ cr3 = kernel_space /\ esp0 = NoProc
    /\ started = {}
    /\ boot = "set_running"
    /\ sh = "idle" /\ proc = NoProc /\ loaded = 0
    /\ panic = FALSE

-----------------------------------------------------------------------------
(* scheduler.cpp *)

Runnable_RevivesDead(st, p) == p # NoProc /\ st[p] \notin {"BLOCKED", "FREE"}
Runnable(st, p) == p # NoProc /\ st[p] \notin {"DEAD", "BLOCKED", "FREE"}

find_next_FromFirst(tbl, n, st, from, idx) ==
    Runnable(st, tbl[idx]) /\ \A i \in 0..(idx - 1) : ~Runnable(st, tbl[i])

(* find_next(from) returns idx: the first runnable slot after from, in      *)
(* circular order, from itself being the last one tried.                    *)
find_next(tbl, n, st, from, idx) ==
    \E step \in 1..n :
        /\ idx = (from + step) % n
        /\ Runnable(st, tbl[idx])
        /\ \A s \in 1..(step - 1) : ~Runnable(st, tbl[(from + s) % n])

NoneRunnable(tbl, n, st) == \A i \in 0..(n - 1) : ~Runnable(st, tbl[i])

process_switch_KeepsSpace(next) == esp0' = next /\ UNCHANGED cr3

process_switch(next) ==
    /\ esp0' = next
    /\ cr3' = address_space(next)

(* Returning esp to the interrupt stub: the CPU goes on in that frame.      *)
Resume(p, esp) ==
    /\ cpu' = IF esp[p] = "boot" THEN Boot ELSE p
    /\ saved_esp' = IF esp[p] = "null" THEN esp ELSE [esp EXCEPT ![p] = "old"]
    /\ started' = IF esp[p] = "null" THEN started \cup {p} ELSE started

(* The frame that scheduler_tick stores into the process it interrupted. A  *)
(* process it finds READY or DEAD is left without saving.                   *)
Saves_OnlyBlocked(st, p) == p # NoProc /\ st[p] = "BLOCKED"
Saves(st, p) == p # NoProc /\ st[p] \in {"RUNNING", "BLOCKED"}

EspAfterSave(st, p) ==
    IF Saves(st, p)
    THEN [saved_esp EXCEPT ![p] = IF cpu = Boot THEN "boot" ELSE "here"]
    ELSE saved_esp

Parked_StaysRunning(st, p) == st
Parked(st, p) ==
    IF p # NoProc /\ st[p] = "RUNNING" THEN [st EXCEPT ![p] = "READY"] ELSE st

Dispatch_KeepsIndex(tbl, idx, st, esp) ==
    /\ process_switch(tbl[idx])
    /\ state' = [st EXCEPT ![tbl[idx]] = "RUNNING"]
    /\ UNCHANGED <<current_process, panic>>
    /\ Resume(tbl[idx], esp)

Dispatch(tbl, idx, st, esp) ==
    /\ process_switch(tbl[idx])
    /\ state' = [st EXCEPT ![tbl[idx]] = "RUNNING"]
    /\ current_process' = idx
    /\ Resume(tbl[idx], esp)
    /\ UNCHANGED panic

(* No runnable process: scheduler_tick returns the esp it was given, and    *)
(* the interrupted process goes on, whatever its state.                     *)
StayOn(st, p) ==
    /\ state' = st
    /\ saved_esp' = IF Saves(st, p) THEN [saved_esp EXCEPT ![p] = "old"] ELSE saved_esp
    /\ UNCHANGED <<cpu, cr3, esp0, current_process, started, panic>>

(* The slot register_process is filling may still point at the PCB that     *)
(* process_destroy freed last.  It says DEAD, as process_destroy left it,   *)
(* and is skipped, unless the heap has put something else there since: then *)
(* it may be taken for a runnable process.  The switch to the space and the *)
(* stack it seems to have ends in a triple fault.                           *)
DispatchFreed(tbl, n, st) ==
    /\ \E idx \in 0..(n - 1) :
          /\ tbl[idx] # NoProc /\ st[tbl[idx]] = "FREE"
          /\ find_next(tbl, n, [st EXCEPT ![tbl[idx]] = "READY"], current_process, idx)
    /\ state' = st
    /\ panic' = TRUE
    /\ UNCHANGED <<cpu, cr3, esp0, current_process, saved_esp, started>>

(* The tail of irq0 and of syscall_stub, after the handler left the table   *)
(* at tbl, n and the process states at st.                                  *)
scheduler_tick(tbl, n, st) ==
    LET prev_p == process_get(tbl, n, current_process)
    IN  \/ \E idx \in 0..(n - 1) :
              /\ find_next(tbl, n, st, current_process, idx)
              /\ Dispatch(tbl, idx, Parked(st, prev_p), EspAfterSave(st, prev_p))
        \/ NoneRunnable(tbl, n, st) /\ StayOn(st, prev_p)
        \/ DispatchFreed(tbl, n, st)

InterruptsEnabled == ~panic /\ ~(cpu = Boot /\ boot = "enter")

(* IRQ0.  kernel_main's context is lost when the tick leaves it unsaved.    *)
Tick ==
    /\ InterruptsEnabled
    /\ scheduler_tick(process_table, process_count, state)
    /\ boot' = IF cpu = Boot /\ cpu' # Boot /\ current_process = -1
               THEN "gone" ELSE boot
    /\ UNCHANGED <<tableVars, entry, image, count, shellVars>>

-----------------------------------------------------------------------------
(* kernel_main after sti, and process_first_enter(shell_proc) *)

BootStep(at) == ~panic /\ cpu = Boot /\ boot = at

BootSetRunning ==
    /\ BootStep("set_running")
    /\ state' = [state EXCEPT ![Shell] = "RUNNING"]
    /\ boot' = "switch"
    /\ UNCHANGED <<tableVars, entry, image, saved_esp, current_process, count,
                   cpuRegs, started, shellVars, panic>>

BootSwitch ==
    /\ BootStep("switch")
    /\ process_switch(Shell)
    /\ boot' = "mark"
    /\ UNCHANGED <<tableVars, state, entry, image, saved_esp, current_process,
                   count, cpu, started, shellVars, panic>>

BootMarkCurrent ==
    /\ BootStep("mark")
    /\ \E i \in 0..(process_count - 1) :
          process_table[i] = Shell /\ current_process' = i
    /\ boot' = "cli"
    /\ UNCHANGED <<tableVars, state, entry, image, saved_esp, count, cpuRegs,
                   started, shellVars, panic>>

BootCli ==
    /\ BootStep("cli")
    /\ boot' = "enter"
    /\ UNCHANGED <<tableVars, state, entry, image, saved_esp, current_process,
                   count, cpuRegs, started, shellVars, panic>>

BootEnter ==
    /\ BootStep("enter")
    /\ cpu' = Shell
    /\ started' = started \cup {Shell}
    /\ boot' = "gone"
    /\ UNCHANGED <<tableVars, state, entry, image, saved_esp, current_process,
                   count, cr3, esp0, shellVars, panic>>

-----------------------------------------------------------------------------
(* process.cpp *)

(* Running out of memory after the pid was taken returns nullptr.           *)
process_create_fails ==
    /\ next_pid < PID_BOUND + 1
    /\ next_pid' = next_pid + 1
    /\ UNCHANGED <<process_table, process_count, state, entry, image, shellVars, panic>>

process_create_NoFullCheck(e, img, at) ==
    /\ next_pid < PID_BOUND + 1
    /\ next_pid' = next_pid + 1
    /\ process_count' = process_count + 1
    /\ state' = [state EXCEPT ![next_pid] = "READY"]
    /\ entry' = [entry EXCEPT ![next_pid] = e]
    /\ image' = [image EXCEPT ![next_pid] = img]
    /\ sh' = at /\ proc' = next_pid
    /\ UNCHANGED <<process_table, loaded, panic>>

(* process_create with the frame's entry e and the program in place or not, *)
(* up to the first store of register_process: process_count is incremented  *)
(* before the slot is written.  The slot holds nullptr or the PCB destroyed *)
(* last, and kmalloc may have returned that very block again.  A full table *)
(* is a kernel panic.                                                       *)
process_create(e, img, at) ==
    /\ next_pid < PID_BOUND + 1
    /\ next_pid' = next_pid + 1
    /\ \/ /\ process_count >= MAX_PROCESSES
          /\ panic' = TRUE
          /\ UNCHANGED <<process_table, process_count, state, entry, image, shellVars>>
       \/ /\ process_count < MAX_PROCESSES
          /\ process_count' = process_count + 1
          /\ \/ UNCHANGED process_table
             \/ /\ process_table[process_count] # NoProc
                /\ process_table' = [process_table EXCEPT ![process_count] = next_pid]
          /\ state' = [state EXCEPT ![next_pid] = "READY"]
          /\ entry' = [entry EXCEPT ![next_pid] = e]
          /\ image' = [image EXCEPT ![next_pid] = img]
          /\ sh' = at /\ proc' = next_pid
          /\ UNCHANGED <<loaded, panic>>

(* process_destroy: the last entry moves into the slot, the PCB is freed.   *)
TableWithout(p) ==
    LET i == CHOOSE k \in 0..(process_count - 1) : process_table[k] = p
    IN  [process_table EXCEPT ![i] = process_table[process_count - 1]]

(* ipc.cpp: the send succeeds, and what it does to the target's state.      *)
CanSend(to) ==
    /\ to \in Queued
    /\ Registered(to)
    /\ state[to] # "DEAD"
    /\ count[to] < IPC_MAX_MSG_PER_PROC

Woken(to) == IF state[to] = "BLOCKED" THEN [state EXCEPT ![to] = "READY"] ELSE state

-----------------------------------------------------------------------------
(* shell.cpp: the shell executes a command while it has the CPU *)

ShellAt(at) == ~panic /\ cpu = Shell /\ sh = at

ShellKill(p) ==
    /\ ShellAt("idle") /\ "kill" \in Commands
    /\ Registered(p)
    /\ state' = [state EXCEPT ![p] = "DEAD"]
    /\ UNCHANGED <<tableVars, entry, image, saved_esp, current_process, count,
                   cpuRegs, started, boot, shellVars, panic>>

(* The shell's ipc_send: the tests, the load and the store of q->count, the *)
(* test of p->state and the store of TASK_READY are steps of their own.     *)
ShellSend(to) ==
    /\ ShellAt("idle") /\ "send" \in Commands
    /\ CanSend(to)
    /\ sh' = "send_load" /\ proc' = to
    /\ UNCHANGED <<tableVars, state, entry, image, saved_esp, current_process, count,
                   cpuRegs, started, boot, loaded, panic>>

SendLoad ==
    /\ ShellAt("send_load")
    /\ loaded' = count[proc]
    /\ sh' = "send_store"
    /\ UNCHANGED <<tableVars, state, entry, image, saved_esp, current_process, count,
                   cpuRegs, started, boot, proc, panic>>

SendStore ==
    /\ ShellAt("send_store")
    /\ count' = [count EXCEPT ![proc] = loaded + 1]
    /\ sh' = "send_test" /\ loaded' = 0
    /\ UNCHANGED <<tableVars, state, entry, image, saved_esp, current_process,
                   cpuRegs, started, boot, proc, panic>>

SendTest ==
    /\ ShellAt("send_test")
    /\ \/ state[proc] = "BLOCKED" /\ sh' = "send_wake" /\ UNCHANGED proc
       \/ state[proc] # "BLOCKED" /\ sh' = "idle" /\ proc' = NoProc
    /\ UNCHANGED <<tableVars, state, entry, image, saved_esp, current_process, count,
                   cpuRegs, started, boot, loaded, panic>>

SendWake ==
    /\ ShellAt("send_wake")
    /\ state' = [state EXCEPT ![proc] = "READY"]
    /\ sh' = "idle" /\ proc' = NoProc
    /\ UNCHANGED <<tableVars, entry, image, saved_esp, current_process, count,
                   cpuRegs, started, boot, loaded, panic>>

(* The shell's ipc_recv: the test of q->count, then the store of            *)
(* TASK_BLOCKED or the load and the store of q->count.  The shell goes on   *)
(* running after it has blocked itself.                                     *)
ShellRecv ==
    /\ ShellAt("idle") /\ "recv" \in Commands
    /\ scheduler_current_process \in Queued
    /\ sh' = IF count[scheduler_current_process] = 0 THEN "recv_block" ELSE "recv_load"
    /\ UNCHANGED <<tableVars, state, entry, image, saved_esp, current_process, count,
                   cpuRegs, started, boot, proc, loaded, panic>>

ShellRecvBlock ==
    /\ ShellAt("recv_block")
    /\ state' = [state EXCEPT ![scheduler_current_process] = "BLOCKED"]
    /\ sh' = "idle"
    /\ UNCHANGED <<tableVars, entry, image, saved_esp, current_process, count,
                   cpuRegs, started, boot, proc, loaded, panic>>

RecvLoad ==
    /\ ShellAt("recv_load")
    /\ loaded' = count[scheduler_current_process]
    /\ sh' = "recv_store"
    /\ UNCHANGED <<tableVars, state, entry, image, saved_esp, current_process, count,
                   cpuRegs, started, boot, proc, panic>>

RecvStore ==
    /\ ShellAt("recv_store")
    /\ count' = [count EXCEPT ![scheduler_current_process] = loaded - 1]
    /\ sh' = "idle" /\ loaded' = 0
    /\ UNCHANGED <<tableVars, state, entry, image, saved_esp, current_process,
                   cpuRegs, started, boot, proc, panic>>

(* ring3: the user code page is mapped and the entry known at creation.     *)
ShellRing3 ==
    /\ ShellAt("idle") /\ "ring3" \in Commands
    /\ process_create_fails \/ process_create("set", TRUE, "register_ring3")
    /\ UNCHANGED <<saved_esp, current_process, count, cpuRegs, started, boot>>

(* exec: process_create(nullptr, 0, 0) registers the process before its     *)
(* program is loaded and its entry set.                                     *)
ShellExec ==
    /\ ShellAt("idle") /\ "exec" \in Commands
    /\ process_create_fails \/ process_create("null", FALSE, "register_exec")
    /\ UNCHANGED <<saved_esp, current_process, count, cpuRegs, started, boot>>

(* The second store of register_process.                                    *)
RegisterSlot ==
    /\ \/ ShellAt("register_ring3") /\ sh' = "idle" /\ proc' = NoProc
       \/ ShellAt("register_exec") /\ sh' = "exec_switch" /\ UNCHANGED proc
    /\ process_table' = [process_table EXCEPT ![process_count - 1] = proc]
    /\ UNCHANGED <<process_count, next_pid, state, entry, image, saved_esp,
                   current_process, count, cpuRegs, started, boot, loaded, panic>>

(* elfinfo loads a program into the kernel's space, the one it runs in.     *)
ShellElfinfo ==
    /\ ShellAt("idle") /\ "elfinfo" \in Commands
    /\ image' = [image EXCEPT ![kernel_space] = TRUE]
    /\ UNCHANGED <<tableVars, state, entry, saved_esp, current_process, count,
                   cpuRegs, started, boot, shellVars, panic>>

ExecSwitch ==
    /\ ShellAt("exec_switch")
    /\ cr3' = address_space(proc)
    /\ sh' = "exec_load"
    /\ UNCHANGED <<tableVars, state, entry, image, saved_esp, current_process,
                   count, cpu, esp0, started, boot, proc, loaded, panic>>

(* elf_load_into writes the segments byte by byte through whatever cr3      *)
(* holds.  A tick in between leaves the rest to be written in the kernel's  *)
(* space: a page fault, which panics, unless elfinfo has mapped that page   *)
(* there before; then some of the bytes have gone astray.  The load ends    *)
(* with the last byte, or fails on the way: a bad header, no page left.     *)
ExecLoad ==
    /\ \/ /\ ShellAt("exec_load") /\ cr3 = address_space(proc)
          /\ image' = [image EXCEPT ![proc] = TRUE]
          /\ sh' = "exec_ok"
          /\ UNCHANGED panic
       \/ /\ ShellAt("exec_load") \/ ShellAt("exec_astray")
          /\ cr3 # address_space(proc)
          /\ \/ panic' = TRUE /\ UNCHANGED sh
             \/ image[cr3] /\ sh' = "exec_astray" /\ UNCHANGED panic
          /\ UNCHANGED image
       \/ /\ ShellAt("exec_astray")
          /\ sh' = "exec_ok"
          /\ UNCHANGED <<image, panic>>
       \/ /\ ShellAt("exec_load") \/ ShellAt("exec_astray")
          /\ sh' = "exec_failed"
          /\ UNCHANGED <<image, panic>>
    /\ UNCHANGED <<tableVars, state, entry, saved_esp, current_process, count,
                   cpuRegs, started, boot, proc, loaded>>

ExecSwitchBack ==
    /\ \/ ShellAt("exec_ok") /\ sh' = "exec_set_entry"
       \/ ShellAt("exec_failed") /\ sh' = "exec_destroy"
    /\ cr3' = kernel_space
    /\ UNCHANGED <<tableVars, state, entry, image, saved_esp, current_process,
                   count, cpu, esp0, started, boot, proc, loaded, panic>>

(* process_set_entry rebuilds the frame at the top of the kernel stack; a   *)
(* frame the process saved there on its way out of ring 3 has that layout.  *)
ExecSetEntry ==
    /\ ShellAt("exec_set_entry")
    /\ entry' = [entry EXCEPT ![proc] = "set"]
    /\ sh' = "idle" /\ proc' = NoProc
    /\ UNCHANGED <<tableVars, state, image, saved_esp, current_process, count,
                   cpuRegs, started, boot, loaded, panic>>

(* process_destroy on the failure path.  The process is DEAD before its     *)
(* memory is released, so no tick between the two steps can run it.         *)
ExecDestroy ==
    /\ ShellAt("exec_destroy")
    /\ state' = [state EXCEPT ![proc] = "DEAD"]
    /\ sh' = "exec_remove"
    /\ UNCHANGED <<tableVars, entry, image, saved_esp, current_process, count,
                   cpuRegs, started, boot, proc, loaded, panic>>

ExecRemove_KeepsSlot ==
    /\ ShellAt("exec_remove")
    /\ state' = [state EXCEPT ![proc] = "FREE"]
    /\ sh' = "idle" /\ proc' = NoProc
    /\ UNCHANGED <<tableVars, entry, image, saved_esp, current_process, count,
                   cpuRegs, started, boot, loaded, panic>>

ExecRemove ==
    /\ ShellAt("exec_remove")
    /\ process_table' = TableWithout(proc)
    /\ process_count' = process_count - 1
    /\ state' = [state EXCEPT ![proc] = "FREE"]
    /\ sh' = "idle" /\ proc' = NoProc
    /\ UNCHANGED <<next_pid, entry, image, saved_esp, current_process, count,
                   cpuRegs, started, boot, loaded, panic>>

-----------------------------------------------------------------------------
(* syscall.cpp: a user program traps, syscall_dispatch runs with interrupts *)
(* off, and syscall_stub calls scheduler_tick before it returns.            *)

UserAt(call) ==
    /\ ~panic /\ cpu \notin KernelPids \cup {Boot}
    /\ entry[cpu] = "set"
    /\ call \in Syscalls

SysExit ==
    /\ UserAt("exit")
    /\ scheduler_tick(process_table, process_count,
                      [state EXCEPT ![scheduler_current_process] = "DEAD"])
    /\ UNCHANGED <<tableVars, entry, image, count, boot, shellVars>>

SysKill(p) ==
    /\ UserAt("kill")
    /\ Registered(p)
    /\ scheduler_tick(process_table, process_count, [state EXCEPT ![p] = "DEAD"])
    /\ UNCHANGED <<tableVars, entry, image, count, boot, shellVars>>

(* Every process, user or kernel, is created with parent_pid = 1.           *)
parent_pid(p) == Shell

Zombies(me) == {p \in Pids : Registered(p) /\ parent_pid(p) = me /\ state[p] = "DEAD"}

SysWait ==
    /\ UserAt("wait")
    /\ IF Zombies(scheduler_current_process) = {}
       THEN /\ scheduler_tick(process_table, process_count, state)
            /\ UNCHANGED <<process_table, process_count>>
       ELSE \E child \in Zombies(scheduler_current_process) :
            /\ process_table' = TableWithout(child)
            /\ process_count' = process_count - 1
            /\ scheduler_tick(TableWithout(child), process_count - 1,
                              [state EXCEPT ![child] = "FREE"])
    /\ UNCHANGED <<next_pid, entry, image, count, boot, shellVars>>

SysSend(to) ==
    /\ UserAt("send")
    /\ CanSend(to)
    /\ count' = [count EXCEPT ![to] = @ + 1]
    /\ scheduler_tick(process_table, process_count, Woken(to))
    /\ UNCHANGED <<tableVars, entry, image, boot, shellVars>>

(* get_ticks, write, read and every call that fails only yield the CPU; so  *)
(* does recv, because process_create leaves msg_queue null.                 *)
SysYield ==
    /\ UserAt("recv") \/ UserAt("other")
    /\ scheduler_tick(process_table, process_count, state)
    /\ UNCHANGED <<tableVars, entry, image, count, boot, shellVars>>

(* page_fault_handler and gp_handler panic.  A process without its program  *)
(* faults: one whose frame has entry 0 does so on its first instruction.    *)
UserFault ==
    /\ ~panic /\ cpu \notin KernelPids \cup {Boot}
    /\ entry[cpu] = "null" \/ ~image[cpu] \/ "fault" \in Syscalls
    /\ panic' = TRUE
    /\ UNCHANGED <<tableVars, state, entry, image, saved_esp, current_process,
                   count, cpuRegs, started, boot, shellVars>>

(* panic(): cli, then hlt for ever.                                         *)
Halted == panic /\ UNCHANGED vars

BootNext == BootSetRunning \/ BootSwitch \/ BootMarkCurrent \/ BootCli \/ BootEnter

ShellNext ==
    \/ \E p \in Pids : ShellKill(p)
    \/ \E to \in KernelPids : ShellSend(to)
    \/ SendLoad \/ SendStore \/ SendTest \/ SendWake
    \/ ShellRecv \/ ShellRecvBlock \/ RecvLoad \/ RecvStore
    \/ ShellRing3 \/ ShellElfinfo \/ RegisterSlot
    \/ ShellExec \/ ExecSwitch \/ ExecLoad \/ ExecSwitchBack
    \/ ExecSetEntry \/ ExecDestroy \/ ExecRemove

UserNext ==
    \/ SysExit \/ SysWait \/ SysYield \/ UserFault
    \/ \E p \in Pids : SysKill(p)
    \/ \E to \in KernelPids : SysSend(to)

Next == Tick \/ BootNext \/ ShellNext \/ UserNext \/ Halted

Spec == Init /\ [][Next]_vars

(* The PIT raises IRQ0 for ever, and interrupts are never off for good      *)
(* short of a panic.  Nothing is assumed of the operator or of programs.    *)
FairSpec == Spec /\ WF_vars(Tick) /\ WF_vars(BootNext)

-----------------------------------------------------------------------------
(* Properties *)

(* Every variable has its type: no index leaves process_table, and a count  *)
(* exceeds the capacity of its queue by one message at most, wherever       *)
(* programs send while the shell sends or receives.                         *)
TypeOK ==
    /\ process_table \in [0..(MAX_PROCESSES - 1) -> Pids \cup {NoProc}]
    /\ process_count \in 0..MAX_PROCESSES
    /\ next_pid \in 2..(PID_BOUND + 1)
    /\ state \in [Pids -> TaskState]
    /\ entry \in [Pids -> {"null", "set"}]
    /\ image \in [Pids \cup {kernel_space} -> BOOLEAN]
    /\ saved_esp \in [Pids -> Frames]
    /\ current_process \in -1..(MAX_PROCESSES - 1)
    /\ count \in [KernelPids -> 0..(IPC_MAX_MSG_PER_PROC + 1)]
    /\ cpu \in Pids \cup {Boot}
    /\ cr3 \in Pids \cup {kernel_space} /\ esp0 \in Pids \cup {NoProc}
    /\ started \subseteq Pids
    /\ boot \in {"set_running", "switch", "mark", "cli", "enter", "gone"}
    /\ sh \in {"idle"} \cup SendSteps \cup RecvSteps \cup Registering \cup ExecSteps
    /\ proc \in Pids \cup {NoProc}
    /\ loaded \in 0..(IPC_MAX_MSG_PER_PROC + 1)
    /\ panic \in BOOLEAN

(* current_process is an index and process_destroy moves the last entry     *)
(* down: the index must still name the process that has the CPU, because    *)
(* exit, recv and the tick act on whatever it names.                        *)
CurrentIsOnCpu ==
    cpu # Boot => /\ current_process \in 0..(process_count - 1)
                  /\ process_table[current_process] = cpu

(* The process on the CPU runs in its own address space and on its own      *)
(* ring-0 stack; only the shell, inside exec, borrows the new one's space.  *)
RegistersMatch ==
    cpu # Boot =>
        /\ esp0 = cpu
        /\ \/ cr3 = address_space(cpu)
           \/ cpu = Shell /\ cr3 = proc /\ sh \in LoadSteps

(* Who the kernel believes is running, counting kernel_main once it has     *)
(* marked the shell as current.                                             *)
OnCpu == IF cpu = Boot /\ current_process >= 0 THEN Shell ELSE cpu

(* At most one process is RUNNING, and it is the one on the CPU (or the     *)
(* shell while kernel_main hands over to it).                               *)
OneRunning ==
    \A p \in Pids : state[p] = "RUNNING" => p = OnCpu \/ (p = Shell /\ cpu = Boot)

(* The table lists every live PCB exactly once and nothing else, whatever   *)
(* was appended and removed; only the slot that register_process has        *)
(* counted and not yet written may hold nullptr or a freed PCB.             *)
TableConsistent ==
    /\ \A i, j \in 0..(process_count - 1) :
          process_table[i] = process_table[j] => i = j
    /\ \A i \in 0..(process_count - 1) :
          \/ process_table[i] \in Pids /\ state[process_table[i]] # "FREE"
          \/ sh \in Registering /\ i = process_count - 1
    /\ \A p \in Pids : state[p] # "FREE" =>
          Registered(p) \/ (sh \in Registering /\ p = proc)

(* p, off the CPU, would be resumed where it was suspended: if it may run   *)
(* again, its current frame is in saved_esp, or it has not been entered yet *)
(* (kernel_main's frame stands in for the shell's).                         *)
FrameKept(p) ==
    state[p] \in {"READY", "RUNNING", "BLOCKED"} =>
        IF p \in started THEN saved_esp[p] = "here"
        ELSE saved_esp[p] = "null" \/ (p = Shell /\ saved_esp[p] = "boot")

(* A context switch resumes a process where it was suspended (reporte.txt:  *)
(* "context switch funcional"), whatever it was doing when the tick came.   *)
ContextSaved == \A p \in Pids \ {OnCpu} : FrameKept(p)

(* The same for every process but the shell, the only one that can be READY *)
(* while it has the CPU: ticks, system calls, kills and exec of whichever   *)
(* process never leave another one with an old frame.                       *)
OthersContextSaved == \A p \in Pids \ {OnCpu, Shell} : FrameKept(p)

(* A DEAD process other than the shell is never given a live state again    *)
(* (reporte.txt: the tick no longer overwrites DEAD with READY).            *)
DeadIsFinal ==
    [][\A p \in Pids \ {Shell} : state[p] = "DEAD" => state'[p] \in {"DEAD", "FREE"}]_vars

(* elf.hpp says elf_load_into loads "into a specific address space": when   *)
(* it has succeeded, the program is in the space exec passed to it.         *)
LoadedWhereAsked == sh = "exec_ok" => image[proc]

(* Round robin starves nobody: a READY process of the table gets the CPU.   *)
NoStarvation ==
    \A p \in Pids : Registered(p) /\ state[p] = "READY" ~> (cpu = p \/ state[p] # "READY" \/ panic)

-----------------------------------------------------------------------------
(* The inductive invariant behind the first five properties. *)

(* Where kernel_main can be while it has the CPU, and what it has set up.   *)
BootInv ==
    /\ cpu = Boot =>
          \/ boot \in {"set_running", "switch"} /\ current_process = -1
          \/ boot = "mark" /\ current_process = -1
             /\ esp0 = Shell /\ cr3 = kernel_space
          \/ boot \in {"cli", "enter"} /\ current_process = 0
             /\ esp0 = Shell /\ cr3 = kernel_space
    /\ \A p \in Pids : saved_esp[p] = "boot" => p = Shell /\ boot = "cli" /\ cpu # Boot

(* The kernel processes keep the first slots, pids are handed out in order, *)
(* the process the shell creates is the last one of the table, and the      *)
(* slots behind it hold nothing or freed PCBs.                              *)
TableInv ==
    /\ process_count >= Len(KernelTable)
    /\ \A i \in 0..(Len(KernelTable) - 1) : process_table[i] = KernelTable[i + 1]
    /\ \A p \in Pids : state[p] # "FREE" => p < next_pid
    /\ \A i \in process_count..(MAX_PROCESSES - 1) :
          process_table[i] # NoProc =>
              state[process_table[i]] = "FREE" /\ process_table[i] < next_pid
    /\ sh \in ExecSteps \cup Registering =>
          process_count > Len(KernelTable) /\ proc \in Pids /\ state[proc] # "FREE"
    /\ sh \in ExecSteps => proc = process_table[process_count - 1]
    /\ sh \in Registering =>
          /\ LET slot == process_table[process_count - 1]
             IN  slot \in {NoProc, proc} \/ state[slot] = "FREE"
          /\ \A i \in 0..(process_count - 2) : process_table[i] # proc
    /\ cpu # Boot => state[cpu] # "FREE"

(* Only the shell is ever BLOCKED, and what it has tested of a count when a *)
(* program's send may come in between.                                      *)
QueueInv ==
    /\ \A p \in Pids \ {Shell} : state[p] # "BLOCKED"
    /\ sh \in SendSteps => proc \in KernelPids
    /\ sh = "send_load" => count[proc] <= IPC_MAX_MSG_PER_PROC
    /\ sh = "send_store" => loaded <= IPC_MAX_MSG_PER_PROC
    /\ sh = "send_wake" => proc = Shell
    /\ sh = "recv_load" => count[Shell] > 0
    /\ sh = "recv_store" => loaded > 0

KernelInv ==
    /\ TypeOK /\ CurrentIsOnCpu /\ RegistersMatch /\ OneRunning
    /\ TableConsistent /\ BootInv /\ TableInv /\ QueueInv
=============================================================================
