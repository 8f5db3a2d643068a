-------------------------- MODULE SchedulerProofs ---------------------------
(***************************************************************************)
(* KernelInv is an inductive invariant of Scheduler for every size of the  *)
(* table, every pid bound, every outcome of kernel_main's creations and    *)
(* every set of commands and system calls, and the safety properties       *)
(* follow from it.  The heart is TickPreserves: a system call is a change  *)
(* of process states followed by scheduler_tick, so one lemma serves the   *)
(* timer and every call.                                                   *)
(***************************************************************************)
EXTENDS Scheduler, TLAPS

USE DEF Shell, NoProc, Boot, kernel_space

(* The kernel processes, whichever of them kernel_main could create.        *)
LEMMA KernelFacts ==
    /\ Len(KernelTable) \in 1..3 /\ KernelTable[1] = Shell
    /\ \A i \in 1..Len(KernelTable) : KernelTable[i] \in 1..3
    /\ KernelPids \subseteq Pids /\ Shell \in KernelPids /\ Queued \subseteq KernelPids
    /\ Pids \subseteq Nat /\ 0 \notin Pids /\ 1 \in Pids
<1>1. /\ Len(KernelTable) \in 1..3 /\ KernelTable[1] = 1 /\ Queued \subseteq KernelPids
      /\ KernelTable \in Seq(1..3)
  BY ConstantsAssumption
<1>2. \A i \in 1..Len(KernelTable) : KernelTable[i] \in 1..3
  BY <1>1
<1>3. 1..3 \subseteq Pids /\ Pids \subseteq Nat /\ 0 \notin Pids /\ 1 \in Pids
  BY ConstantsAssumption DEF Pids
<1>4. KernelPids \subseteq Pids /\ Shell \in KernelPids
  BY <1>1, <1>2, <1>3 DEF KernelPids
<1> QED BY <1>1, <1>2, <1>3, <1>4

(* The shell has the first slot, and every kernel process has one.          *)
LEMMA KernelSlots ==
    ASSUME KernelInv
    PROVE  /\ process_count \in Nat /\ process_count >= 1 /\ process_table[0] = Shell
           /\ \A p \in KernelPids : \E i \in 0..(Len(KernelTable) - 1) :
                 process_table[i] = p /\ i \in 0..(process_count - 1)
<1>1. /\ process_count \in Nat /\ process_count >= Len(KernelTable)
      /\ \A i \in 0..(Len(KernelTable) - 1) : process_table[i] = KernelTable[i + 1]
  BY DEF KernelInv, TypeOK, TableInv
<1>2. process_count >= 1 /\ process_table[0] = Shell
  BY <1>1, KernelFacts
<1>3. ASSUME NEW p \in KernelPids
      PROVE  \E i \in 0..(Len(KernelTable) - 1) :
                process_table[i] = p /\ i \in 0..(process_count - 1)
  <2>1. PICK k \in 1..Len(KernelTable) : p = KernelTable[k]
    BY DEF KernelPids
  <2>2. k - 1 \in 0..(Len(KernelTable) - 1) /\ (k - 1) + 1 = k
    BY KernelFacts
  <2>3. process_table[k - 1] = p /\ k - 1 \in 0..(process_count - 1)
    BY <1>1, <2>1, <2>2, KernelFacts
  <2> QED BY <2>2, <2>3
<1> QED BY <1>1, <1>2, <1>3

(* A slot of the table names a process or nobody.                           *)
LEMMA SlotType ==
    ASSUME KernelInv, NEW i \in 0..(process_count - 1)
    PROVE  i \in 0..(MAX_PROCESSES - 1) /\ process_table[i] \in Pids \cup {NoProc}
<1>1. i \in 0..(MAX_PROCESSES - 1)
  BY ConstantsAssumption DEF KernelInv, TypeOK
<1> QED BY <1>1 DEF KernelInv, TypeOK

(* The shell's PCB, and any kernel process's, is never freed.               *)
LEMMA ShellLive ==
    ASSUME KernelInv
    PROVE  /\ \A p \in KernelPids : state[p] # "FREE" /\ Registered(p)
           /\ state[Shell] # "FREE" /\ Registered(Shell)
<1>1. ASSUME NEW p \in KernelPids PROVE state[p] # "FREE" /\ Registered(p)
  <2>1. PICK i \in 0..(Len(KernelTable) - 1) :
            process_table[i] = p /\ i \in 0..(process_count - 1)
    BY KernelSlots
  <2>2. sh \in Registering => i # process_count - 1
    BY KernelFacts, KernelSlots DEF KernelInv, TableInv
  <2>3. state[p] # "FREE"
    BY <2>1, <2>2 DEF KernelInv, TableConsistent
  <2> QED BY <2>1, <2>3 DEF Registered
<1> QED BY <1>1, KernelFacts

(* What the tick finds as the interrupted process: the one on the CPU, the  *)
(* shell once kernel_main has marked it current, nobody before that.        *)
LEMMA PrevProcess ==
    ASSUME KernelInv
    PROVE  LET prev_p == process_get(process_table, process_count, current_process)
           IN  /\ cpu # Boot => prev_p = cpu
               /\ cpu = Boot /\ current_process = -1 => prev_p = NoProc
               /\ cpu = Boot /\ current_process # -1 =>
                     prev_p = Shell /\ current_process = 0
BY KernelSlots DEF KernelInv, TypeOK, CurrentIsOnCpu, BootInv, process_get

(* find_next before any process is current starts with the shell's slot.    *)
LEMMA FirstIsShell ==
    ASSUME KernelInv, NEW st, NEW idx \in 0..(process_count - 1),
           find_next(process_table, process_count, st, -1, idx),
           st[Shell] = "RUNNING"
    PROVE  idx = 0
<1>1. PICK step \in 1..process_count :
        /\ idx = (-1 + step) % process_count
        /\ \A s \in 1..(step - 1) :
              ~Runnable(st, process_table[(-1 + s) % process_count])
  BY DEF find_next
<1>2. process_count \in Nat /\ process_count >= 1 /\ process_table[0] = 1
  BY KernelSlots
<1>3. (-1 + 1) % process_count = 0
  BY <1>2
<1>4. Runnable(st, process_table[0])
  BY <1>2 DEF Runnable
<1>5. step = 1
  BY <1>1, <1>2, <1>3, <1>4
<1> QED BY <1>1, <1>3, <1>5

(* The states a handler leaves for scheduler_tick: it may kill or wake a    *)
(* process, but neither creates nor frees a PCB, makes none RUNNING and     *)
(* blocks none but the shell.                                               *)
HandlerStates(st) ==
    /\ st \in [Pids -> TaskState]
    /\ \A p \in Pids : st[p] = "FREE" <=> state[p] = "FREE"
    /\ \A p \in Pids : st[p] = "RUNNING" => state[p] = "RUNNING"
    /\ \A p \in Pids \ {Shell} : st[p] # "BLOCKED"

(* What a program's send may do to the counts, the shell being anywhere.    *)
CountsGrow ==
    /\ count' \in [KernelPids -> 0..(IPC_MAX_MSG_PER_PROC + 1)]
    /\ \A p \in KernelPids :
          /\ count'[p] >= count[p]
          /\ count[p] <= IPC_MAX_MSG_PER_PROC => count'[p] <= IPC_MAX_MSG_PER_PROC

(* The tick parks the interrupted process and nothing else is RUNNING then, *)
(* except a shell that kernel_main is about to enter.                       *)
LEMMA ParkedStates ==
    ASSUME KernelInv, NEW st, HandlerStates(st)
    PROVE  LET prev_p == process_get(process_table, process_count, current_process)
               parked == Parked(st, prev_p)
           IN  /\ parked \in [Pids -> TaskState]
               /\ \A p \in Pids : parked[p] = "FREE" <=> state[p] = "FREE"
               /\ \A p \in Pids \ {Shell} : parked[p] # "BLOCKED"
               /\ \A p \in Pids : parked[p] = "RUNNING" =>
                     /\ p = Shell /\ st[Shell] = "RUNNING"
                     /\ cpu = Boot /\ current_process = -1
<1> DEFINE prev_p == process_get(process_table, process_count, current_process)
           parked == Parked(st, prev_p)
<1>1. prev_p \in Pids \cup {NoProc}
  BY PrevProcess, ConstantsAssumption DEF KernelInv, TypeOK, Pids
<1>2. /\ parked \in [Pids -> TaskState]
      /\ \A p \in Pids : parked[p] = "FREE" <=> state[p] = "FREE"
      /\ \A p \in Pids \ {Shell} : parked[p] # "BLOCKED"
  BY <1>1 DEF Parked, HandlerStates, TaskState
<1>3. ASSUME NEW p \in Pids, parked[p] = "RUNNING"
      PROVE  /\ p = Shell /\ st[Shell] = "RUNNING"
             /\ cpu = Boot /\ current_process = -1
  <2>1. st[p] = "RUNNING" /\ p # prev_p
    BY <1>1, <1>3 DEF Parked, HandlerStates, Pids
  <2>2. p = OnCpu \/ (p = Shell /\ cpu = Boot)
    BY <2>1 DEF HandlerStates, KernelInv, OneRunning
  <2>3. p # 0
    BY DEF Pids
  <2> QED BY <2>1, <2>2, <2>3, PrevProcess DEF OnCpu, KernelInv, BootInv
<1> QED BY <1>2, <1>3

(* Nothing that leaves the table and the shell alone, and frees and creates *)
(* no PCB, disturbs the order of the slots.                                 *)
LEMMA SlotsSame ==
    ASSUME KernelInv, UNCHANGED <<process_table, process_count, next_pid, sh, proc>>,
           \A p \in Pids : state'[p] = "FREE" <=> state[p] = "FREE",
           cpu' # Boot => state'[cpu'] # "FREE"
    PROVE  TableInv' /\ TableConsistent'
<1>1. /\ process_table \in [0..(MAX_PROCESSES - 1) -> Pids \cup {NoProc}]
      /\ process_count \in 0..MAX_PROCESSES
  BY DEF KernelInv, TypeOK
<1>2. \A i \in process_count..(MAX_PROCESSES - 1) :
         process_table[i] # NoProc =>
             state'[process_table[i]] = "FREE" /\ process_table[i] < next_pid
  BY <1>1, ConstantsAssumption DEF KernelInv, TableInv
<1>3. sh \in Registering =>
        LET slot == process_table[process_count - 1]
        IN  slot \in {NoProc, proc} \/ state'[slot] = "FREE"
  <2> SUFFICES ASSUME sh \in Registering
               PROVE  \/ process_table[process_count - 1] \in {NoProc, proc}
                      \/ state'[process_table[process_count - 1]] = "FREE"
    OBVIOUS
  <2>1. process_count > Len(KernelTable) /\ Len(KernelTable) \in 1..3
    BY KernelFacts DEF KernelInv, TableInv
  <2>2. process_count - 1 \in 0..(MAX_PROCESSES - 1)
    BY <1>1, <2>1, ConstantsAssumption
  <2>3. process_table[process_count - 1] \in Pids \cup {NoProc}
    BY <1>1, <2>2
  <2> QED BY <2>3 DEF KernelInv, TableInv
<1>4. TableInv'
  BY <1>2, <1>3 DEF KernelInv, TableInv
<1>5. \A p \in Pids : Registered(p)' <=> Registered(p)
  BY DEF Registered
<1>6. ASSUME NEW i \in 0..(process_count - 1)
      PROVE  \/ process_table[i] \in Pids /\ state'[process_table[i]] # "FREE"
             \/ sh \in Registering /\ i = process_count - 1
  BY DEF KernelInv, TableConsistent
<1>7. TableConsistent'
  BY <1>5, <1>6 DEF KernelInv, TableConsistent
<1> QED BY <1>4, <1>7

(* A program's send keeps what the shell relies on between its own test and *)
(* store of a count.                                                        *)
LEMMA QueueGrows ==
    ASSUME KernelInv, UNCHANGED <<sh, proc, loaded>>, CountsGrow,
           \A p \in Pids \ {Shell} : state'[p] # "BLOCKED"
    PROVE  QueueInv'
<1>1. count \in [KernelPids -> 0..(IPC_MAX_MSG_PER_PROC + 1)] /\ IPC_MAX_MSG_PER_PROC \in Nat
  BY ConstantsAssumption DEF KernelInv, TypeOK
<1>2. sh = "send_load" => count'[proc] <= IPC_MAX_MSG_PER_PROC
  BY DEF KernelInv, QueueInv, CountsGrow, SendSteps
<1>3. sh = "recv_load" => count'[Shell] > 0
  <2>1. count[Shell] \in Nat /\ count'[Shell] \in Nat /\ count'[Shell] >= count[Shell]
    BY <1>1, KernelFacts DEF CountsGrow
  <2> QED BY <2>1 DEF KernelInv, QueueInv
<1> QED BY <1>2, <1>3 DEF KernelInv, QueueInv

(* A tick switches to a registered process, and then the index, the         *)
(* registers, the states and kernel_main's position all agree.              *)
LEMMA DispatchPreserves ==
    ASSUME KernelInv, NEW st, HandlerStates(st),
           NEW idx \in 0..(process_count - 1),
           find_next(process_table, process_count, st, current_process, idx),
           Dispatch(process_table, idx,
               Parked(st, process_get(process_table, process_count, current_process)),
               EspAfterSave(st, process_get(process_table, process_count, current_process))),
           ~(cpu = Boot /\ boot = "enter"),
           UNCHANGED <<tableVars, shellVars, entry, image>>, CountsGrow,
           boot' = IF cpu = Boot /\ cpu' # Boot /\ current_process = -1
                   THEN "gone" ELSE boot
    PROVE  KernelInv'
<1> DEFINE prev_p == process_get(process_table, process_count, current_process)
           parked == Parked(st, prev_p)
           esp == EspAfterSave(st, prev_p)
           next == process_table[idx]
<1>n. st[next] # "FREE"
  BY DEF find_next, Runnable
<1>0. process_count \in Nat /\ next \in Pids /\ Pids \subseteq Nat /\ 0 \notin Pids
      /\ current_process' = idx /\ idx \in 0..(MAX_PROCESSES - 1) /\ 1 \in Pids
  <2>1. Pids \subseteq Nat /\ 0 \notin Pids /\ 1 \in Pids
    BY KernelFacts
  <2>2. process_count \in Nat /\ next \in Pids
    BY SlotType DEF KernelInv, TypeOK, find_next, Runnable
  <2>3. current_process' = idx /\ idx \in 0..(MAX_PROCESSES - 1)
    BY ConstantsAssumption DEF Dispatch, KernelInv, TypeOK
  <2> QED BY <2>1, <2>2, <2>3
<1>1. prev_p \in Pids \cup {NoProc}
  BY <1>0, PrevProcess DEF KernelInv, TypeOK
<1>2. /\ esp \in [Pids -> Frames]
      /\ \A p \in Pids : esp[p] = "boot" =>
            \/ p = Shell /\ boot = "cli"
            \/ p = prev_p /\ cpu = Boot
  BY <1>1 DEF EspAfterSave, KernelInv, TypeOK, Frames, BootInv
<1>3. \A p \in Pids : esp[p] = "boot" => p = Shell /\ boot = "cli"
  BY <1>2, <1>0, PrevProcess DEF KernelInv, BootInv
<1>4. /\ cpu' = IF esp[next] = "boot" THEN Boot ELSE next
      /\ saved_esp' = IF esp[next] = "null" THEN esp ELSE [esp EXCEPT ![next] = "old"]
      /\ started' = IF esp[next] = "null" THEN started \cup {next} ELSE started
      /\ esp0' = next /\ cr3' = address_space(next)
      /\ state' = [parked EXCEPT ![next] = "RUNNING"]
  BY DEF Dispatch, Resume, process_switch
<1>5. TypeOK'
  <2>1. state' \in [Pids -> TaskState]
    BY <1>4, <1>0, ParkedStates DEF TaskState
  <2>2. saved_esp' \in [Pids -> Frames] /\ started' \subseteq Pids
    BY <1>4, <1>2, <1>0 DEF Frames, KernelInv, TypeOK
  <2>3. /\ cpu' \in Pids \cup {Boot}
        /\ cr3' \in Pids \cup {kernel_space} /\ esp0' \in Pids \cup {NoProc}
    BY <1>4, <1>0 DEF address_space
  <2>4. boot' \in {"set_running", "switch", "mark", "cli", "enter", "gone"}
    BY DEF KernelInv, TypeOK
  <2>5. current_process' \in -1..(MAX_PROCESSES - 1)
    BY <1>0, ConstantsAssumption
  <2> QED BY <2>1, <2>2, <2>3, <2>4, <2>5 DEF TypeOK, KernelInv, tableVars, shellVars,
             CountsGrow, Dispatch
<1>6. CurrentIsOnCpu'
  BY <1>0, <1>4 DEF CurrentIsOnCpu, tableVars
<1>7. RegistersMatch'
  BY <1>0, <1>4 DEF RegistersMatch, address_space
<1>8. cpu' = Boot => next = Shell /\ idx = 0 /\ boot = "cli" /\ boot' = "cli"
  <2> SUFFICES ASSUME cpu' = Boot PROVE next = Shell /\ idx = 0 /\ boot = "cli"
    OBVIOUS
  <2>1. next = Shell /\ boot = "cli"
    BY <1>0, <1>3, <1>4
  <2>2. 0 \in 0..(process_count - 1) /\ process_table[0] = Shell
    BY KernelSlots
  <2> QED BY <2>1, <2>2 DEF KernelInv, TableConsistent
<1>9. OneRunning'
  <2> SUFFICES ASSUME NEW p \in Pids, state'[p] = "RUNNING"
               PROVE  p = OnCpu'
    BY DEF OneRunning
  <2>1. p = next
    <3> SUFFICES ASSUME p # next PROVE FALSE
      OBVIOUS
    <3>1. parked[p] = "RUNNING"
      BY <1>4, ParkedStates, <1>0
    <3>2. p = Shell /\ st[Shell] = "RUNNING" /\ current_process = -1
      BY <3>1, ParkedStates
    <3>3. idx = 0
      BY <3>2, FirstIsShell
    <3> QED BY <3>2, <3>3, KernelSlots
  <2> QED BY <2>1, <1>4, <1>8, <1>0 DEF OnCpu
<1>f. \A p \in Pids : state'[p] = "FREE" <=> state[p] = "FREE"
  <2>1. state[next] # "FREE"
    BY <1>0, <1>n DEF HandlerStates
  <2> QED BY <2>1, <1>4, <1>0, ParkedStates
<1>11. BootInv'
  <2>1. \A p \in Pids : saved_esp'[p] = "boot" => p = Shell /\ boot = "cli" /\ cpu' # Boot
    BY <1>2, <1>3, <1>4, <1>8, <1>0
  <2>2. boot = "cli" => boot' = "cli"
    BY DEF KernelInv, BootInv
  <2> QED BY <2>1, <2>2, <1>8, <1>4, <1>0, KernelFacts DEF BootInv, address_space
<1>12. TableInv' /\ TableConsistent'
  <2>1. cpu' # Boot => state'[cpu'] # "FREE"
    BY <1>f, <1>n, <1>4, <1>0 DEF HandlerStates
  <2> QED BY <1>f, <2>1, SlotsSame DEF tableVars, shellVars
<1>13. QueueInv'
  <2>1. \A p \in Pids \ {Shell} : state'[p] # "BLOCKED"
    BY <1>4, <1>0, ParkedStates
  <2> QED BY <2>1, QueueGrows DEF shellVars
<1> QED BY <1>5, <1>6, <1>7, <1>9, <1>11, <1>12, <1>13 DEF KernelInv

(* With nobody runnable the tick returns to where it came from.             *)
LEMMA StayPreserves ==
    ASSUME KernelInv, NEW st, HandlerStates(st),
           NoneRunnable(process_table, process_count, st),
           StayOn(st, process_get(process_table, process_count, current_process)),
           UNCHANGED <<tableVars, shellVars, entry, image>>, CountsGrow,
           boot' = IF cpu = Boot /\ cpu' # Boot /\ current_process = -1
                   THEN "gone" ELSE boot
    PROVE  KernelInv'
<1> DEFINE prev_p == process_get(process_table, process_count, current_process)
<1>1. state' = st /\ UNCHANGED <<cpu, cr3, esp0, current_process, started, boot, panic>>
  BY DEF StayOn
<1>2. /\ saved_esp' \in [Pids -> Frames]
      /\ \A p \in Pids : saved_esp'[p] = "boot" => saved_esp[p] = "boot"
  BY DEF StayOn, KernelInv, TypeOK, Frames
<1>3. TypeOK'
  BY <1>1, <1>2 DEF KernelInv, TypeOK, HandlerStates, tableVars, shellVars, CountsGrow
<1>4. OneRunning'
  BY <1>1 DEF KernelInv, OneRunning, OnCpu, HandlerStates
<1>5. CurrentIsOnCpu' /\ RegistersMatch'
  BY <1>1 DEF KernelInv, CurrentIsOnCpu, RegistersMatch, tableVars, shellVars, address_space
<1>6. TableConsistent' /\ TableInv'
  <2>1. \A p \in Pids : state'[p] = "FREE" <=> state[p] = "FREE"
    BY <1>1 DEF HandlerStates
  <2>2. cpu' # Boot => state'[cpu'] # "FREE"
    BY <1>1, <2>1 DEF KernelInv, TypeOK, TableInv
  <2> QED BY <2>1, <2>2, SlotsSame DEF tableVars, shellVars
<1>7. BootInv'
  BY <1>1, <1>2 DEF KernelInv, BootInv
<1>8. QueueInv'
  BY <1>1, QueueGrows DEF HandlerStates, shellVars
<1> QED BY <1>3, <1>4, <1>5, <1>6, <1>7, <1>8 DEF KernelInv

(* A freed PCB taken for a process stops the machine where it is.           *)
LEMMA FreedPreserves ==
    ASSUME KernelInv, NEW st, HandlerStates(st),
           DispatchFreed(process_table, process_count, st),
           UNCHANGED <<tableVars, shellVars, entry, image>>, CountsGrow,
           boot' = IF cpu = Boot /\ cpu' # Boot /\ current_process = -1
                   THEN "gone" ELSE boot
    PROVE  KernelInv'
<1>1. /\ state' = st /\ panic' = TRUE
      /\ UNCHANGED <<cpu, cr3, esp0, current_process, saved_esp, started, boot>>
  BY DEF DispatchFreed
<1>2. TypeOK'
  BY <1>1 DEF KernelInv, TypeOK, HandlerStates, tableVars, shellVars, CountsGrow
<1>3. OneRunning'
  BY <1>1 DEF KernelInv, OneRunning, OnCpu, HandlerStates
<1>4. CurrentIsOnCpu' /\ RegistersMatch' /\ BootInv'
  BY <1>1 DEF KernelInv, CurrentIsOnCpu, RegistersMatch, BootInv, tableVars, shellVars,
         address_space
<1>5. \A p \in Pids : state'[p] = "FREE" <=> state[p] = "FREE"
  BY <1>1 DEF HandlerStates
<1>6. TableInv' /\ TableConsistent'
  <2>1. cpu' # Boot => state'[cpu'] # "FREE"
    BY <1>1, <1>5 DEF KernelInv, TypeOK, TableInv
  <2> QED BY <1>5, <2>1, SlotsSame DEF tableVars, shellVars
<1>7. QueueInv'
  BY <1>1, QueueGrows DEF HandlerStates, shellVars
<1> QED BY <1>2, <1>3, <1>4, <1>6, <1>7 DEF KernelInv

(* scheduler_tick, entered with any states a handler may leave, keeps the   *)
(* invariant.                                                               *)
LEMMA TickPreserves ==
    ASSUME KernelInv, NEW st, HandlerStates(st),
           scheduler_tick(process_table, process_count, st),
           ~(cpu = Boot /\ boot = "enter"),
           UNCHANGED <<tableVars, shellVars, entry, image>>, CountsGrow,
           boot' = IF cpu = Boot /\ cpu' # Boot /\ current_process = -1
                   THEN "gone" ELSE boot
    PROVE  KernelInv'
BY DispatchPreserves, StayPreserves, FreedPreserves DEF scheduler_tick

-----------------------------------------------------------------------------
(* kernel_main's own steps. *)
LEMMA BootPreserves == ASSUME KernelInv, BootNext PROVE KernelInv'
<1>0. Pids \subseteq Nat /\ 0 \notin Pids /\ 1 \in Pids
  BY KernelFacts
<1>s. state[Shell] # "FREE"
  BY ShellLive
<1>g. ASSUME UNCHANGED <<count, shellVars>>,
             \A p \in Pids \ {Shell} : state'[p] = state[p]
      PROVE  QueueInv'
  BY <1>g DEF KernelInv, QueueInv, shellVars
<1>t. ASSUME UNCHANGED <<tableVars, shellVars>>,
             \A p \in Pids : state'[p] = "FREE" <=> state[p] = "FREE",
             cpu' \in {Boot, Shell}
      PROVE  TableConsistent' /\ TableInv'
  BY <1>0, <1>s, <1>t, SlotsSame DEF tableVars, shellVars
<1>1. CASE BootSetRunning
  <2>2. TypeOK' /\ OneRunning'
    BY <1>0, <1>1 DEF BootSetRunning, BootStep, KernelInv, TypeOK, OneRunning, OnCpu,
                 BootInv, TaskState, tableVars, shellVars, cpuRegs
  <2>3. TableConsistent' /\ TableInv' /\ QueueInv'
    <3>1. /\ \A p \in Pids : state'[p] = "FREE" <=> state[p] = "FREE"
          /\ \A p \in Pids \ {Shell} : state'[p] = state[p]
      BY <1>0, <1>1, <1>s DEF BootSetRunning, KernelInv, TypeOK
    <3>2. UNCHANGED <<tableVars, shellVars, count>> /\ cpu' = Boot
      BY <1>1 DEF BootSetRunning, BootStep, cpuRegs
    <3> QED BY <1>g, <1>t, <3>1, <3>2
  <2> QED BY <1>1, <2>2, <2>3 DEF BootSetRunning, BootStep, KernelInv,
             CurrentIsOnCpu, RegistersMatch, BootInv, tableVars, shellVars, cpuRegs
<1>2. CASE BootSwitch
  <2>1. TypeOK'
    BY <1>0, <1>2 DEF BootSwitch, KernelInv, TypeOK, process_switch, address_space,
                 tableVars, shellVars
  <2>2. TableConsistent' /\ TableInv' /\ QueueInv'
    BY <1>2, <1>g, <1>t DEF BootSwitch, BootStep
  <2> QED BY <2>1, <2>2, <1>2, KernelFacts DEF BootSwitch, BootStep, KernelInv, CurrentIsOnCpu,
             RegistersMatch, OneRunning, OnCpu,
             BootInv, process_switch, address_space, tableVars, shellVars
<1>3. CASE BootMarkCurrent
  <2>1. current_process' = 0
    BY <1>3, KernelSlots DEF BootMarkCurrent, KernelInv, TableConsistent
  <2>2. TypeOK'
    BY <1>3, <2>1, ConstantsAssumption
       DEF BootMarkCurrent, KernelInv, TypeOK, tableVars, shellVars, cpuRegs
  <2>3. OneRunning'
    BY <1>0, <1>3, <2>1 DEF BootMarkCurrent, BootStep, KernelInv, OneRunning, OnCpu, cpuRegs
  <2>4. TableConsistent' /\ TableInv' /\ QueueInv'
    BY <1>3, <1>g, <1>t DEF BootMarkCurrent, BootStep, cpuRegs
  <2> QED BY <2>1, <2>2, <2>3, <2>4, <1>3 DEF BootMarkCurrent, BootStep, KernelInv,
             CurrentIsOnCpu, RegistersMatch, BootInv, tableVars, shellVars, cpuRegs
<1>4. CASE BootCli
  <2>1. TypeOK'
    BY <1>4 DEF BootCli, KernelInv, TypeOK, tableVars, shellVars, cpuRegs
  <2>2. \A p \in Pids : saved_esp[p] # "boot"
    BY <1>4 DEF BootCli, BootStep, KernelInv, BootInv
  <2>3. TableConsistent' /\ TableInv' /\ QueueInv'
    BY <1>4, <1>g, <1>t DEF BootCli, BootStep, cpuRegs
  <2> QED BY <2>1, <2>2, <2>3, <1>4 DEF BootCli, BootStep, KernelInv, CurrentIsOnCpu,
             RegistersMatch, OneRunning, OnCpu, BootInv, tableVars, shellVars, cpuRegs
<1>5. CASE BootEnter
  <2>1. /\ current_process = 0 /\ esp0 = Shell /\ cr3 = kernel_space
        /\ process_table[0] = Shell
    BY <1>5, KernelSlots DEF BootEnter, BootStep, KernelInv, BootInv
  <2>2. TypeOK'
    BY <1>0, <1>5 DEF BootEnter, KernelInv, TypeOK, tableVars, shellVars
  <2>3. CurrentIsOnCpu' /\ RegistersMatch' /\ OneRunning' /\ BootInv'
    BY <1>0, <1>5, <2>1, KernelFacts, KernelSlots DEF BootEnter, BootStep, KernelInv, TypeOK,
             CurrentIsOnCpu, RegistersMatch, OneRunning, OnCpu, BootInv, address_space,
             tableVars, shellVars
  <2>4. TableConsistent' /\ TableInv' /\ QueueInv'
    BY <1>5, <1>g, <1>t DEF BootEnter, BootStep
  <2> QED BY <2>2, <2>3, <2>4 DEF KernelInv
<1> QED BY <1>1, <1>2, <1>3, <1>4, <1>5 DEF BootNext

-----------------------------------------------------------------------------
(* The shell's steps. *)

(* The process the shell is creating is a user process.                     *)
LEMMA NewProcess ==
    ASSUME KernelInv, sh \in ExecSteps \cup Registering
    PROVE  /\ process_count \in Nat /\ process_count > Len(KernelTable)
           /\ process_count - 1 \in 0..(process_count - 1)
           /\ process_count <= MAX_PROCESSES /\ MAX_PROCESSES \in Nat
           /\ proc \in Pids /\ state[proc] # "FREE"
           /\ proc \notin KernelPids
           /\ sh \in ExecSteps => process_table[process_count - 1] = proc
<1>1. /\ process_count \in Nat /\ process_count > Len(KernelTable)
      /\ proc \in Pids /\ state[proc] # "FREE"
      /\ process_count <= MAX_PROCESSES /\ MAX_PROCESSES \in Nat
  BY ConstantsAssumption DEF KernelInv, TypeOK, TableInv
<1>2. process_count - 1 \in 0..(process_count - 1)
  BY <1>1, KernelFacts
<1>3. proc \notin KernelPids
  <2> SUFFICES ASSUME proc \in KernelPids PROVE FALSE
    OBVIOUS
  <2>1. PICK i \in 0..(Len(KernelTable) - 1) :
            process_table[i] = proc /\ i \in 0..(process_count - 1)
    BY KernelSlots
  <2>2. i < process_count - 1 /\ i \in 0..(process_count - 2)
    BY <1>1, <2>1, KernelFacts
  <2>3. CASE sh \in Registering
    BY <2>1, <2>2, <2>3 DEF KernelInv, TableInv
  <2>4. CASE sh \in ExecSteps
    <3>1. process_table[process_count - 1] = proc
      BY <2>4 DEF KernelInv, TableInv
    <3>2. i = process_count - 1
      BY <1>2, <2>1, <3>1 DEF KernelInv, TableConsistent
    <3> QED BY <1>1, <2>2, <3>2
  <2> QED BY <2>3, <2>4
<1>4. sh \in ExecSteps => process_table[process_count - 1] = proc
  BY DEF KernelInv, TableInv
<1> QED BY <1>1, <1>2, <1>3, <1>4

(* Steps of the shell's that change process states, a count or the shell's  *)
(* own place, and leave the table and the CPU alone.                        *)
LEMMA StatesPreserve ==
    ASSUME KernelInv, cpu = Shell, HandlerStates(state'),
           UNCHANGED <<tableVars, saved_esp, current_process,
                       cpuRegs, started, boot, panic>>,
           entry' \in [Pids -> {"null", "set"}],
           image' \in [Pids \cup {kernel_space} -> BOOLEAN],
           count' \in [KernelPids -> 0..(IPC_MAX_MSG_PER_PROC + 1)],
           loaded' \in 0..(IPC_MAX_MSG_PER_PROC + 1),
           proc' \in Pids \cup {NoProc}, QueueInv',
           \/ sh \notin ExecSteps \cup Registering
              /\ sh' \in {"idle"} \cup SendSteps \cup RecvSteps
           \/ sh \in ExecSteps /\ sh' \in ExecSteps /\ UNCHANGED proc
              /\ (sh \in LoadSteps => sh' \in LoadSteps)
           \/ sh = "exec_set_entry" /\ sh' = "idle"
    PROVE  KernelInv'
<1>0. /\ sh' \in {"idle"} \cup SendSteps \cup RecvSteps \cup Registering \cup ExecSteps
      /\ sh' \notin Registering
      /\ sh' \in ExecSteps => sh \in ExecSteps /\ proc' = proc
      /\ cpu' = Shell
  BY DEF SendSteps, RecvSteps, Registering, ExecSteps, LoadSteps, cpuRegs
<1>1. sh \notin Registering
  BY DEF Registering, ExecSteps, LoadSteps
<1>2. TypeOK'
  BY <1>0 DEF KernelInv, TypeOK, HandlerStates, tableVars, cpuRegs
<1>3. OneRunning' /\ CurrentIsOnCpu' /\ BootInv'
  BY DEF KernelInv, OneRunning, OnCpu, CurrentIsOnCpu, BootInv, HandlerStates,
         tableVars, cpuRegs
<1>4. RegistersMatch'
  <2>1. UNCHANGED <<cr3, esp0, cpu>>
    BY DEF cpuRegs
  <2>2. sh \in LoadSteps => sh' \in LoadSteps /\ proc' = proc
    BY DEF LoadSteps, ExecSteps
  <2> QED BY <2>1, <2>2 DEF KernelInv, RegistersMatch, address_space
<1>5. /\ \A p \in Pids : state'[p] = "FREE" <=> state[p] = "FREE"
      /\ UNCHANGED <<process_table, process_count, next_pid>>
  BY DEF HandlerStates, tableVars
<1>6. TableConsistent'
  <2>1. \A p \in Pids : Registered(p)' <=> Registered(p)
    BY <1>5 DEF Registered
  <2>2. ASSUME NEW i \in 0..(process_count - 1)
        PROVE  process_table[i] \in Pids /\ state'[process_table[i]] # "FREE"
    BY <1>1, <1>5 DEF KernelInv, TableConsistent
  <2> QED BY <1>1, <1>5, <2>1, <2>2 DEF KernelInv, TableConsistent
<1>7. TableInv'
  <2>1. \A i \in process_count..(MAX_PROCESSES - 1) :
           process_table[i] # NoProc =>
               state'[process_table[i]] = "FREE" /\ process_table[i] < next_pid
    <3>1. /\ process_table \in [0..(MAX_PROCESSES - 1) -> Pids \cup {NoProc}]
          /\ process_count \in Nat /\ MAX_PROCESSES \in Nat
      BY ConstantsAssumption DEF KernelInv, TypeOK
    <3> QED BY <1>5, <3>1 DEF KernelInv, TableInv
  <2>2. cpu' # Boot => state'[cpu'] # "FREE"
    BY <1>0, <1>5, ShellLive, KernelFacts
  <2> QED BY <1>0, <1>5, <2>1, <2>2 DEF KernelInv, TableInv
<1> QED BY <1>2, <1>3, <1>4, <1>6, <1>7 DEF KernelInv

(* The states kill, send and recv leave. *)
LEMMA KilledStates ==
    ASSUME KernelInv, NEW p \in Pids, state[p] # "FREE",
           NEW s \in {"DEAD", "BLOCKED", "READY"}, s = "BLOCKED" => p = Shell
    PROVE  HandlerStates([state EXCEPT ![p] = s])
BY DEF HandlerStates, KernelInv, TypeOK, TaskState, QueueInv

(* ipc_send makes a BLOCKED target READY and touches nobody else.           *)
LEMMA WokenStates ==
    ASSUME KernelInv, NEW to \in KernelPids
    PROVE  HandlerStates(Woken(to))
BY KernelFacts DEF HandlerStates, Woken, KernelInv, TypeOK, TaskState, QueueInv

(* A plain tick, or a call that only yields, enters with the states as they *)
(* are.                                                                     *)
LEMMA SameStates == ASSUME KernelInv PROVE HandlerStates(state)
BY DEF HandlerStates, KernelInv, TypeOK, QueueInv

(* A program's ipc_send is atomic: its limit check bounds its own message.  *)
LEMMA SentCount ==
    ASSUME KernelInv, NEW to, CanSend(to), count' = [count EXCEPT ![to] = @ + 1]
    PROVE  CountsGrow
<1>1. /\ to \in KernelPids /\ IPC_MAX_MSG_PER_PROC \in Nat
      /\ count \in [KernelPids -> 0..(IPC_MAX_MSG_PER_PROC + 1)]
  BY KernelFacts, ConstantsAssumption DEF CanSend, KernelInv, TypeOK
<1>2. count[to] \in Nat /\ count[to] < IPC_MAX_MSG_PER_PROC
  BY <1>1 DEF CanSend
<1>3. count[to] + 1 \in 0..(IPC_MAX_MSG_PER_PROC + 1) /\ count[to] + 1 <= IPC_MAX_MSG_PER_PROC
  BY <1>1, <1>2
<1> QED BY <1>1, <1>2, <1>3 DEF CountsGrow

(* Nobody sends.                                                            *)
LEMMA SameCount == ASSUME KernelInv, UNCHANGED count PROVE CountsGrow
BY ConstantsAssumption DEF CountsGrow, KernelInv, TypeOK

(* kill, and the steps of send and recv.                                    *)
LEMMA ShellCommandsPreserve ==
    ASSUME KernelInv,
           \/ \E p \in Pids : ShellKill(p)
           \/ \E to \in KernelPids : ShellSend(to)
           \/ SendLoad \/ SendStore \/ SendTest \/ SendWake
           \/ ShellRecv \/ ShellRecvBlock \/ RecvLoad \/ RecvStore
    PROVE  KernelInv'
<1>0. /\ Shell \in Pids /\ Shell \in KernelPids /\ KernelPids \subseteq Pids
      /\ IPC_MAX_MSG_PER_PROC \in Nat /\ 0 \in 0..(IPC_MAX_MSG_PER_PROC + 1)
  BY KernelFacts, ConstantsAssumption
<1>1. /\ count \in [KernelPids -> 0..(IPC_MAX_MSG_PER_PROC + 1)]
      /\ loaded \in 0..(IPC_MAX_MSG_PER_PROC + 1) /\ proc \in Pids \cup {NoProc}
      /\ image \in [Pids \cup {kernel_space} -> BOOLEAN] /\ entry \in [Pids -> {"null", "set"}]
  BY DEF KernelInv, TypeOK
<1>2. /\ \A p \in Pids \ {Shell} : state[p] # "BLOCKED"
      /\ sh \in SendSteps => proc \in KernelPids
      /\ sh = "send_load" => count[proc] <= IPC_MAX_MSG_PER_PROC
      /\ sh = "send_store" => loaded <= IPC_MAX_MSG_PER_PROC
      /\ sh = "send_wake" => proc = Shell
      /\ sh = "recv_load" => count[Shell] > 0
      /\ sh = "recv_store" => loaded > 0
  BY DEF KernelInv, QueueInv
<1>3. cpu = Shell => scheduler_current_process = Shell
  BY <1>0, PrevProcess DEF scheduler_current_process
<1>4. ASSUME NEW p \in Pids, ShellKill(p) PROVE KernelInv'
  <2>1. HandlerStates(state')
    BY <1>4, KilledStates DEF ShellKill, Registered
  <2>2. QueueInv'
    BY <1>4, <2>1 DEF ShellKill, HandlerStates, QueueInv, KernelInv, shellVars
  <2>3. sh = "idle" /\ sh' = "idle" /\ UNCHANGED <<proc, loaded>>
    BY <1>4 DEF ShellKill, ShellAt, shellVars
  <2>4. sh \notin ExecSteps \cup Registering
    BY <2>3 DEF ExecSteps, LoadSteps, Registering
  <2> QED BY <1>1, <1>4, <2>1, <2>2, <2>3, <2>4, StatesPreserve DEF ShellKill, ShellAt
<1>5. ASSUME UNCHANGED state PROVE HandlerStates(state')
  BY <1>5, SameStates
<1>6. ASSUME NEW to \in KernelPids, ShellSend(to) PROVE KernelInv'
  <2>1. count[to] <= IPC_MAX_MSG_PER_PROC
    BY <1>0, <1>1, <1>6 DEF ShellSend, CanSend
  <2>2. QueueInv'
    BY <1>2, <1>6, <2>1 DEF ShellSend, QueueInv
  <2>3. sh = "idle" /\ sh' = "send_load" /\ proc' = to /\ UNCHANGED <<state, count, loaded, image>>
    BY <1>6 DEF ShellSend, ShellAt
  <2>4. sh \notin ExecSteps \cup Registering /\ sh' \in SendSteps
    BY <2>3 DEF ExecSteps, LoadSteps, Registering, SendSteps
  <2> QED BY <1>0, <1>1, <1>5, <1>6, <2>2, <2>3, <2>4, StatesPreserve DEF ShellSend, ShellAt
<1>7. CASE SendLoad
  <2>1. /\ sh = "send_load" /\ sh' = "send_store" /\ loaded' = count[proc]
        /\ UNCHANGED <<state, count, proc, image>>
    BY <1>7 DEF SendLoad, ShellAt
  <2>2. /\ sh \notin ExecSteps \cup Registering /\ sh \in SendSteps /\ sh' \in SendSteps
    BY <2>1 DEF ExecSteps, LoadSteps, Registering, SendSteps
  <2>3. QueueInv' /\ loaded' \in 0..(IPC_MAX_MSG_PER_PROC + 1)
    BY <1>1, <1>2, <2>1, <2>2 DEF QueueInv
  <2> QED BY <1>1, <1>5, <1>7, <2>1, <2>2, <2>3, StatesPreserve DEF SendLoad, ShellAt
<1>8. CASE SendStore
  <2>1. /\ sh = "send_store" /\ sh' = "send_test" /\ loaded' = 0
        /\ count' = [count EXCEPT ![proc] = loaded + 1]
        /\ UNCHANGED <<state, proc, image>>
    BY <1>8 DEF SendStore, ShellAt
  <2>2. /\ sh \notin ExecSteps \cup Registering /\ sh \in SendSteps /\ sh' \in SendSteps
    BY <2>1 DEF ExecSteps, LoadSteps, Registering, SendSteps
  <2>3. QueueInv' /\ count' \in [KernelPids -> 0..(IPC_MAX_MSG_PER_PROC + 1)]
    BY <1>0, <1>1, <1>2, <2>1, <2>2 DEF QueueInv
  <2> QED BY <1>0, <1>1, <1>5, <1>8, <2>1, <2>2, <2>3, StatesPreserve DEF SendStore, ShellAt
<1>9. CASE SendTest
  <2>1. /\ sh = "send_test" /\ UNCHANGED <<state, count, loaded, image>>
        /\ \/ sh' = "send_wake" /\ proc' = proc /\ state[proc] = "BLOCKED"
           \/ sh' = "idle" /\ proc' = NoProc
    BY <1>9 DEF SendTest, ShellAt
  <2>2. /\ sh \notin ExecSteps \cup Registering /\ sh \in SendSteps
        /\ sh' \in {"idle"} \cup SendSteps
        /\ sh' \in SendSteps => sh' = "send_wake"
    BY <2>1 DEF ExecSteps, LoadSteps, Registering, SendSteps
  <2>3. QueueInv'
    BY <1>0, <1>2, <2>1, <2>2 DEF QueueInv
  <2> QED BY <1>1, <1>5, <1>9, <2>1, <2>2, <2>3, StatesPreserve DEF SendTest, ShellAt
<1>10. CASE SendWake
  <2>1. /\ sh = "send_wake" /\ proc = Shell /\ sh' = "idle" /\ proc' = NoProc
        /\ UNCHANGED <<count, loaded, image>> /\ state' = [state EXCEPT ![Shell] = "READY"]
    BY <1>2, <1>10 DEF SendWake, ShellAt
  <2>2. sh \notin ExecSteps \cup Registering /\ sh' \notin SendSteps
    BY <2>1 DEF ExecSteps, LoadSteps, Registering, SendSteps
  <2>3. HandlerStates(state')
    BY <1>0, <2>1, ShellLive, KilledStates
  <2>4. QueueInv'
    BY <2>1, <2>2, <2>3 DEF QueueInv, HandlerStates
  <2> QED BY <1>1, <1>10, <2>1, <2>2, <2>3, <2>4, StatesPreserve DEF SendWake, ShellAt
<1>11. CASE ShellRecv
  <2>1. /\ sh = "idle" /\ UNCHANGED <<state, count, proc, loaded, image>>
        /\ sh' = IF count[Shell] = 0 THEN "recv_block" ELSE "recv_load"
    BY <1>3, <1>11 DEF ShellRecv, ShellAt
  <2>2. /\ sh \notin ExecSteps \cup Registering /\ sh' \in RecvSteps /\ sh' \notin SendSteps
    BY <2>1 DEF ExecSteps, LoadSteps, Registering, SendSteps, RecvSteps
  <2>3. QueueInv'
    BY <1>0, <1>1, <1>2, <2>1, <2>2 DEF QueueInv
  <2> QED BY <1>1, <1>5, <1>11, <2>1, <2>2, <2>3, StatesPreserve DEF ShellRecv, ShellAt
<1>12. CASE ShellRecvBlock
  <2>1. /\ sh = "recv_block" /\ sh' = "idle" /\ UNCHANGED <<count, proc, loaded, image>>
        /\ state' = [state EXCEPT ![Shell] = "BLOCKED"]
    BY <1>3, <1>12 DEF ShellRecvBlock, ShellAt
  <2>2. sh \notin ExecSteps \cup Registering /\ sh' \notin SendSteps
    BY <2>1 DEF ExecSteps, LoadSteps, Registering, SendSteps
  <2>3. HandlerStates(state')
    BY <1>0, <2>1, ShellLive, KilledStates
  <2>4. QueueInv'
    BY <2>1, <2>2, <2>3 DEF QueueInv, HandlerStates
  <2> QED BY <1>1, <1>12, <2>1, <2>2, <2>3, <2>4, StatesPreserve DEF ShellRecvBlock, ShellAt
<1>13. CASE RecvLoad
  <2>1. /\ sh = "recv_load" /\ sh' = "recv_store" /\ loaded' = count[Shell]
        /\ UNCHANGED <<state, count, proc, image>>
    BY <1>3, <1>13 DEF RecvLoad, ShellAt
  <2>2. sh \notin ExecSteps \cup Registering /\ sh' \notin SendSteps /\ sh' \in RecvSteps
    BY <2>1 DEF ExecSteps, LoadSteps, Registering, SendSteps, RecvSteps
  <2>3. QueueInv' /\ loaded' \in 0..(IPC_MAX_MSG_PER_PROC + 1)
    BY <1>0, <1>1, <1>2, <2>1, <2>2 DEF QueueInv
  <2> QED BY <1>1, <1>5, <1>13, <2>1, <2>2, <2>3, StatesPreserve DEF RecvLoad, ShellAt
<1>14. CASE RecvStore
  <2>1. /\ sh = "recv_store" /\ sh' = "idle" /\ loaded' = 0
        /\ count' = [count EXCEPT ![Shell] = loaded - 1]
        /\ UNCHANGED <<state, proc, image>>
    BY <1>3, <1>14 DEF RecvStore, ShellAt
  <2>2. sh \notin ExecSteps \cup Registering /\ sh' \notin SendSteps
    BY <2>1 DEF ExecSteps, LoadSteps, Registering, SendSteps
  <2>3. QueueInv' /\ count' \in [KernelPids -> 0..(IPC_MAX_MSG_PER_PROC + 1)]
    BY <1>0, <1>1, <1>2, <2>1, <2>2 DEF QueueInv
  <2> QED BY <1>0, <1>1, <1>5, <1>14, <2>1, <2>2, <2>3, StatesPreserve DEF RecvStore, ShellAt
<1> QED BY <1>4, <1>6, <1>7, <1>8, <1>9, <1>10, <1>11, <1>12, <1>13, <1>14

(* process_create counts a fresh pid in, below the capacity of the table.   *)
LEMMA CreatePreserves ==
    ASSUME KernelInv, sh = "idle", cpu = Shell,
           NEW e \in {"null", "set"}, NEW img \in BOOLEAN, NEW at \in Registering,
           process_create_fails \/ process_create(e, img, at),
           UNCHANGED <<saved_esp, current_process, count, cpuRegs, started, boot>>
    PROVE  KernelInv'
<1>0. /\ Pids \subseteq Nat /\ 0 \notin Pids /\ process_count \in Nat /\ next_pid \in Nat
      /\ process_count >= 1 /\ process_count >= Len(KernelTable)
      /\ MAX_PROCESSES \in Nat /\ Shell \in Pids /\ Len(KernelTable) \in 1..3
  <2>1. process_count >= Len(KernelTable) /\ next_pid \in 2..(PID_BOUND + 1)
    BY DEF KernelInv, TypeOK, TableInv
  <2> QED BY <2>1, KernelFacts, KernelSlots, ConstantsAssumption
<1>s. sh \notin ExecSteps \cup Registering \cup SendSteps
  BY DEF ExecSteps, LoadSteps, Registering, SendSteps
<1>1. next_pid \in Pids /\ next_pid' = next_pid + 1 /\ next_pid' \in 2..(PID_BOUND + 1)
  <2>1. next_pid \in 2..(PID_BOUND + 1)
    BY DEF KernelInv, TypeOK
  <2>2. next_pid < PID_BOUND + 1 /\ next_pid' = next_pid + 1
    BY DEF process_create, process_create_fails
  <2> QED BY <2>1, <2>2, ConstantsAssumption DEF Pids
<1>2. CASE /\ UNCHANGED <<process_table, process_count, state, entry, image>>
           /\ panic' \in BOOLEAN
           /\ UNCHANGED shellVars
  <2>1. TypeOK'
    BY <1>1, <1>2 DEF KernelInv, TypeOK, shellVars, cpuRegs
  <2>2. TableInv'
    <3>1. \A p \in Pids : state[p] # "FREE" => p < next_pid'
      BY <1>0, <1>1 DEF KernelInv, TableInv
    <3>2. ASSUME NEW i \in process_count..(MAX_PROCESSES - 1), process_table[i] # NoProc
          PROVE  state[process_table[i]] = "FREE" /\ process_table[i] < next_pid'
      <4>1. process_table \in [0..(MAX_PROCESSES - 1) -> Pids \cup {NoProc}]
        BY DEF KernelInv, TypeOK
      <4>2. i \in 0..(MAX_PROCESSES - 1)
        BY <1>0
      <4>3. process_table[i] \in Nat
        BY <1>0, <4>1, <4>2
      <4>4. state[process_table[i]] = "FREE" /\ process_table[i] < next_pid
        BY <3>2 DEF KernelInv, TableInv
      <4>5. next_pid \in Nat /\ next_pid' = next_pid + 1
        BY <1>0, <1>1
      <4> QED BY <4>3, <4>4, <4>5
    <3> QED BY <1>2, <3>1, <3>2 DEF KernelInv, TableInv, shellVars, cpuRegs
  <2> QED BY <1>2, <2>1, <2>2 DEF KernelInv, CurrentIsOnCpu, RegistersMatch,
             OneRunning, OnCpu, TableConsistent, Registered, BootInv, QueueInv, shellVars,
             cpuRegs, address_space
<1>3. CASE process_create(e, img, at) /\ process_count < MAX_PROCESSES
  <2>1. /\ \/ process_table' = process_table
           \/ process_table' = [process_table EXCEPT ![process_count] = next_pid]
        /\ process_count' = process_count + 1
        /\ state' = [state EXCEPT ![next_pid] = "READY"]
        /\ entry' = [entry EXCEPT ![next_pid] = e]
        /\ image' = [image EXCEPT ![next_pid] = img]
        /\ sh' = at /\ proc' = next_pid
        /\ UNCHANGED <<loaded, panic>>
    BY <1>0, <1>3 DEF process_create
  <2>2. state[next_pid] = "FREE" /\ ~Registered(next_pid)
    BY <1>0, <1>1 DEF KernelInv, TableInv, Registered
  <2>t. /\ process_table \in [0..(MAX_PROCESSES - 1) -> Pids \cup {NoProc}]
        /\ state \in [Pids -> TaskState]
    BY DEF KernelInv, TypeOK
  <2>3. /\ \A i \in 0..(process_count - 1) : process_table'[i] = process_table[i]
        /\ \A i \in (process_count + 1)..(MAX_PROCESSES - 1) :
              process_table'[i] = process_table[i]
        /\ process_table'[process_count] \in {process_table[process_count], next_pid}
        /\ process_table' \in [0..(MAX_PROCESSES - 1) -> Pids \cup {NoProc}]
    BY <1>0, <1>1, <1>3, <2>1, <2>t
  <2>n. /\ \A i \in 0..(process_count - 1) :
              /\ process_table[i] \in Pids /\ process_table[i] # next_pid
              /\ state[process_table[i]] # "FREE"
        /\ process_table[process_count] # NoProc =>
              state[process_table[process_count]] = "FREE"
    BY <1>0, <1>3, <1>s, <2>2 DEF KernelInv, TableConsistent, TableInv
  <2>4. TypeOK'
    <3>1. /\ state' \in [Pids -> TaskState] /\ entry' \in [Pids -> {"null", "set"}]
          /\ image' \in [Pids \cup {kernel_space} -> BOOLEAN]
      BY <1>1, <2>1 DEF KernelInv, TypeOK, TaskState
    <3>2. process_count' \in 0..MAX_PROCESSES
      BY <1>0, <1>3, <2>1
    <3> QED BY <1>1, <2>1, <2>3, <3>1, <3>2 DEF KernelInv, TypeOK, cpuRegs
  <2>5. CurrentIsOnCpu'
    BY <1>0, <2>1, <2>3 DEF KernelInv, TypeOK, CurrentIsOnCpu, cpuRegs
  <2>6. RegistersMatch'
    <3>1. cr3 = address_space(cpu) /\ esp0 = cpu
      BY <1>0, <1>s DEF KernelInv, RegistersMatch, ExecSteps
    <3> QED BY <3>1 DEF RegistersMatch, cpuRegs, address_space
  <2>7. OneRunning' /\ BootInv'
    BY <1>1, <2>1 DEF KernelInv, TypeOK, OneRunning, OnCpu, BootInv, cpuRegs
  <2>f. \A p \in Pids : state'[p] # "FREE" <=> (state[p] # "FREE" \/ p = next_pid)
    BY <1>1, <2>1, <2>t
  <2>8. TableConsistent'
    <3>2. ASSUME NEW i \in 0..(process_count' - 1), NEW j \in 0..(process_count' - 1),
                 process_table'[i] = process_table'[j]
          PROVE  i = j
      <4>1. process_table'[process_count] = NoProc \/ process_table'[process_count] = next_pid
              \/ state[process_table'[process_count]] = "FREE"
        BY <2>3, <2>n
      <4>2. \A k \in 0..(process_count - 1) : process_table'[k] # process_table'[process_count]
        BY <1>0, <2>3, <2>n, <4>1
      <4>3. i \in 0..process_count /\ j \in 0..process_count
        BY <1>0, <2>1
      <4>4. CASE i = process_count \/ j = process_count
        BY <1>0, <3>2, <4>2, <4>3, <4>4
      <4>5. CASE i # process_count /\ j # process_count
        <5>1. i \in 0..(process_count - 1) /\ j \in 0..(process_count - 1)
          BY <1>0, <4>3, <4>5
        <5> QED BY <2>3, <3>2, <5>1 DEF KernelInv, TableConsistent
      <4> QED BY <4>4, <4>5
    <3>3. ASSUME NEW i \in 0..(process_count' - 1)
          PROVE  \/ process_table'[i] \in Pids /\ state'[process_table'[i]] # "FREE"
                 \/ sh' \in Registering /\ i = process_count' - 1
      BY <1>0, <2>1, <2>3, <2>n, <2>f
    <3>4. ASSUME NEW p \in Pids, state'[p] # "FREE"
          PROVE  Registered(p)' \/ (sh' \in Registering /\ p = proc')
      <4>1. CASE p = next_pid
        BY <2>1, <4>1
      <4>2. CASE p # next_pid
        <5>1. Registered(p)
          BY <1>s, <2>f, <3>4, <4>2 DEF KernelInv, TableConsistent
        <5> QED BY <1>0, <2>1, <2>3, <3>4, <5>1 DEF Registered
      <4> QED BY <4>1, <4>2
    <3> QED BY <3>2, <3>3, <3>4 DEF TableConsistent
  <2>9. TableInv'
    <3>1. process_count' >= Len(KernelTable) /\ process_count' > Len(KernelTable)
      BY <1>0, <2>1
    <3>2. \A i \in 0..(Len(KernelTable) - 1) : process_table'[i] = KernelTable[i + 1]
      BY <1>0, <2>3 DEF KernelInv, TableInv
    <3>3. \A p \in Pids : state'[p] # "FREE" => p < next_pid'
      BY <1>0, <1>1, <2>f DEF KernelInv, TableInv
    <3>4. ASSUME NEW i \in process_count'..(MAX_PROCESSES - 1), process_table'[i] # NoProc
          PROVE  state'[process_table'[i]] = "FREE" /\ process_table'[i] < next_pid'
      <4>1. i \in (process_count + 1)..(MAX_PROCESSES - 1)
            /\ i \in process_count..(MAX_PROCESSES - 1) /\ i \in 0..(MAX_PROCESSES - 1)
        BY <1>0, <2>1
      <4>2. process_table'[i] = process_table[i] /\ process_table[i] \in Pids
        BY <2>3, <2>t, <3>4, <4>1
      <4>3. state[process_table[i]] = "FREE" /\ process_table[i] < next_pid
        BY <3>4, <4>1, <4>2 DEF KernelInv, TableInv
      <4>4. process_table[i] # next_pid /\ process_table[i] < next_pid'
        <5>1. process_table[i] \in Nat /\ next_pid \in Nat /\ next_pid' = next_pid + 1
          BY <1>0, <1>1, <4>2
        <5> QED BY <4>3, <5>1
      <4> QED BY <2>f, <4>2, <4>3, <4>4
    <3>5. sh' \in Registering /\ sh' \notin ExecSteps /\ proc' \in Pids /\ state'[proc'] # "FREE"
      BY <1>1, <2>1, <2>f DEF Registering, ExecSteps, LoadSteps
    <3>6. \/ process_table'[process_count' - 1] \in {NoProc, proc'}
          \/ state'[process_table'[process_count' - 1]] = "FREE"
      <4>1. process_count' - 1 = process_count
        BY <1>0, <2>1
      <4> QED BY <1>0, <1>1, <1>3, <2>1, <2>3, <2>n, <2>t, <2>f, <4>1
    <3>8. \A i \in 0..(process_count' - 2) : process_table'[i] # proc'
      BY <1>0, <2>1, <2>3, <2>n
    <3>7. cpu' # Boot => state'[cpu'] # "FREE"
      BY <1>0, <2>f, ShellLive DEF cpuRegs
    <3> QED BY <3>1, <3>2, <3>3, <3>4, <3>5, <3>6, <3>7, <3>8 DEF TableInv
  <2>10. QueueInv'
    <3>1. sh' \notin SendSteps /\ sh' \notin {"send_load", "send_store", "send_wake",
                                              "recv_load", "recv_store"}
      BY <2>1 DEF Registering, SendSteps
    <3>2. \A p \in Pids \ {Shell} : state'[p] # "BLOCKED"
      BY <1>1, <2>1, <2>t DEF KernelInv, QueueInv
    <3> QED BY <3>1, <3>2 DEF QueueInv
  <2> QED BY <2>4, <2>5, <2>6, <2>7, <2>8, <2>9, <2>10 DEF KernelInv
<1>4. \/ /\ UNCHANGED <<process_table, process_count, state, entry, image>>
         /\ panic' \in BOOLEAN
         /\ UNCHANGED shellVars
      \/ process_create(e, img, at) /\ process_count < MAX_PROCESSES
  BY DEF process_create, process_create_fails, KernelInv, TypeOK
<1> QED BY <1>2, <1>3, <1>4

(* register_process then writes the slot it has counted.                    *)
LEMMA RegisterPreserves == ASSUME KernelInv, RegisterSlot PROVE KernelInv'
<1>0. cpu = Shell /\ sh \in Registering /\ sh \notin ExecSteps
  BY DEF RegisterSlot, ShellAt, Registering, ExecSteps, LoadSteps
<1>1. /\ process_count \in Nat /\ process_count > Len(KernelTable)
      /\ process_count - 1 \in 0..(process_count - 1)
      /\ process_count <= MAX_PROCESSES /\ MAX_PROCESSES \in Nat
      /\ proc \in Pids /\ state[proc] # "FREE" /\ proc \notin KernelPids
  BY <1>0, NewProcess
<1>2. /\ process_table' = [process_table EXCEPT ![process_count - 1] = proc]
      /\ UNCHANGED <<process_count, next_pid, state, entry, image, saved_esp,
                     current_process, count, cpu, cr3, esp0, started, boot, loaded, panic>>
      /\ \/ sh' = "idle" /\ proc' = NoProc
         \/ sh' = "exec_switch" /\ proc' = proc
  BY DEF RegisterSlot, cpuRegs
<1>t. process_table \in [0..(MAX_PROCESSES - 1) -> Pids \cup {NoProc}]
  BY DEF KernelInv, TypeOK
<1>3. /\ process_table' \in [0..(MAX_PROCESSES - 1) -> Pids \cup {NoProc}]
      /\ process_table'[process_count - 1] = proc
      /\ \A i \in 0..(MAX_PROCESSES - 1) :
            i # process_count - 1 => process_table'[i] = process_table[i]
      /\ 0..(process_count - 1) \subseteq 0..(MAX_PROCESSES - 1)
  BY <1>1, <1>2, <1>t
<1>4. /\ process_table[process_count - 1] \in {NoProc, proc}
            \/ state[process_table[process_count - 1]] = "FREE"
      /\ \A i \in 0..(process_count - 2) : process_table[i] # proc
  BY <1>0 DEF KernelInv, TableInv
<1>5. /\ sh' \notin Registering /\ sh' \notin SendSteps /\ sh' \notin LoadSteps
      /\ sh' \in {"idle"} \cup SendSteps \cup RecvSteps \cup Registering \cup ExecSteps
      /\ sh' \in ExecSteps => proc' = proc
      /\ sh' \notin {"send_load", "send_store", "send_wake", "recv_load", "recv_store"}
  BY <1>2 DEF Registering, SendSteps, LoadSteps, ExecSteps
<1>6. TypeOK'
  BY <1>1, <1>2, <1>3, <1>5 DEF KernelInv, TypeOK
<1>7. CurrentIsOnCpu'
  <2>1. current_process \in 0..(process_count - 1) /\ process_table[current_process] = Shell
    BY <1>0 DEF KernelInv, CurrentIsOnCpu
  <2>2. current_process # process_count - 1
    BY <1>1, <1>4, <2>1, ShellLive, KernelFacts
  <2> QED BY <1>0, <1>2, <1>3, <2>1, <2>2 DEF CurrentIsOnCpu
<1>8. RegistersMatch'
  <2>1. sh \notin LoadSteps
    BY <1>0 DEF ExecSteps
  <2> QED BY <1>0, <1>2, <2>1 DEF KernelInv, RegistersMatch, address_space
<1>9. OneRunning' /\ BootInv'
  BY <1>2 DEF KernelInv, OneRunning, OnCpu, BootInv
<1>10. TableConsistent'
  <2>1. ASSUME NEW i \in 0..(process_count - 1), i # process_count - 1
        PROVE  /\ process_table'[i] = process_table[i] /\ i \in 0..(process_count - 2)
               /\ process_table[i] \in Pids /\ state[process_table[i]] # "FREE"
    BY <1>1, <1>3, <2>1 DEF KernelInv, TableConsistent
  <2>2. ASSUME NEW i \in 0..(process_count - 1), NEW j \in 0..(process_count - 1),
               process_table'[i] = process_table'[j]
        PROVE  i = j
    <3>1. CASE i = process_count - 1 \/ j = process_count - 1
      BY <1>3, <1>4, <2>1, <2>2, <3>1
    <3>2. CASE i # process_count - 1 /\ j # process_count - 1
      BY <2>1, <2>2, <3>2 DEF KernelInv, TableConsistent
    <3> QED BY <3>1, <3>2
  <2>3. ASSUME NEW i \in 0..(process_count - 1)
        PROVE  process_table'[i] \in Pids /\ state[process_table'[i]] # "FREE"
    BY <1>1, <1>3, <2>1
  <2>4. ASSUME NEW p \in Pids, state[p] # "FREE" PROVE Registered(p)'
    <3>1. CASE p = proc
      BY <1>1, <1>2, <1>3, <2>4, <3>1 DEF Registered
    <3>2. CASE p # proc
      <4>1. PICK i \in 0..(process_count - 1) : process_table[i] = p
        BY <2>4, <3>2 DEF KernelInv, TableConsistent, Registered
      <4>2. i # process_count - 1
        BY <1>4, <2>4, <3>2, <4>1, KernelFacts
      <4> QED BY <1>2, <2>1, <2>4, <4>1, <4>2 DEF Registered
    <3> QED BY <3>1, <3>2
  <2> QED BY <1>2, <2>2, <2>3, <2>4 DEF TableConsistent
<1>11. TableInv'
  <2>1. \A i \in 0..(Len(KernelTable) - 1) : process_table'[i] = KernelTable[i + 1]
    BY <1>1, <1>3, KernelFacts DEF KernelInv, TableInv
  <2>2. \A i \in process_count..(MAX_PROCESSES - 1) : process_table'[i] = process_table[i]
    BY <1>1, <1>3
  <2> QED BY <1>1, <1>2, <1>3, <1>5, <2>1, <2>2 DEF KernelInv, TableInv
<1>12. QueueInv'
  BY <1>2, <1>5 DEF KernelInv, QueueInv
<1> QED BY <1>6, <1>7, <1>8, <1>9, <1>10, <1>11, <1>12 DEF KernelInv

(* elfinfo, and the steps of exec after the process is registered.          *)
LEMMA ExecPreserves ==
    ASSUME KernelInv,
           ShellElfinfo \/ ExecSwitch \/ ExecLoad \/ ExecSwitchBack \/ ExecSetEntry
           \/ ExecDestroy \/ ExecRemove
    PROVE  KernelInv'
<1>0. /\ state \in [Pids -> TaskState] /\ proc \in Pids \cup {NoProc}
      /\ count \in [KernelPids -> 0..(IPC_MAX_MSG_PER_PROC + 1)]
      /\ loaded \in 0..(IPC_MAX_MSG_PER_PROC + 1)
      /\ image \in [Pids \cup {kernel_space} -> BOOLEAN] /\ entry \in [Pids -> {"null", "set"}]
  BY DEF KernelInv, TypeOK
<1>e. ASSUME sh \in ExecSteps
      PROVE  /\ process_count \in Nat /\ process_count > Len(KernelTable)
             /\ process_count - 1 \in 0..(process_count - 1)
             /\ process_count <= MAX_PROCESSES /\ MAX_PROCESSES \in Nat
             /\ proc \in Pids /\ state[proc] # "FREE" /\ proc \notin KernelPids
             /\ process_table[process_count - 1] = proc
  BY <1>e, NewProcess
<1>q. ASSUME sh' \in {"idle"} \cup ExecSteps, \A p \in Pids \ {Shell} : state'[p] # "BLOCKED"
      PROVE  QueueInv'
  <2>1. sh' \notin SendSteps \cup {"recv_load", "recv_store"}
    BY <1>q DEF ExecSteps, LoadSteps, SendSteps
  <2> QED BY <1>q, <2>1 DEF QueueInv, SendSteps
<1>b. \A p \in Pids \ {Shell} : state[p] # "BLOCKED"
  BY DEF KernelInv, QueueInv
<1>1. CASE ExecSwitch \/ ExecSwitchBack \/ ExecLoad
  <2>0. cpu = Shell /\ sh \in ExecSteps
    BY <1>1 DEF ExecSwitch, ExecLoad, ExecSwitchBack, ShellAt, ExecSteps, LoadSteps
  <2>1. UNCHANGED <<tableVars, state, entry, saved_esp, current_process,
                    count, cpu, esp0, started, boot, proc, loaded>>
    BY <1>1 DEF ExecSwitch, ExecSwitchBack, ExecLoad, cpuRegs
  <2>2. sh' \in ExecSteps
    BY <2>0, <1>1 DEF ExecSwitch, ExecSwitchBack, ExecLoad, ExecSteps, LoadSteps
  <2>3. RegistersMatch'
    <3>1. address_space(Shell) = kernel_space /\ address_space(proc) = proc /\ esp0 = Shell
      BY <1>e, <2>0, KernelFacts DEF address_space, KernelInv, RegistersMatch
    <3>2. CASE ExecSwitch
      BY <2>0, <2>1, <3>1, <3>2 DEF ExecSwitch, RegistersMatch, LoadSteps
    <3>3. CASE ExecSwitchBack
      BY <2>0, <2>1, <3>1, <3>3 DEF ExecSwitchBack, RegistersMatch
    <3>4. CASE ExecLoad
      <4>1. cr3' = cr3 /\ sh' \in LoadSteps
        BY <3>4 DEF ExecLoad, ShellAt, cpuRegs, LoadSteps
      <4>2. cr3 = address_space(Shell) \/ cr3 = proc
        BY <2>0 DEF KernelInv, RegistersMatch
      <4> QED BY <2>0, <2>1, <3>1, <4>1, <4>2 DEF RegistersMatch
    <3> QED BY <1>1, <3>2, <3>3, <3>4
  <2>4. image' \in [Pids \cup {kernel_space} -> BOOLEAN] /\ panic' \in BOOLEAN
        /\ cr3' \in Pids \cup {kernel_space}
    BY <1>0, <1>e, <1>1, <2>0 DEF ExecSwitch, ExecSwitchBack, ExecLoad, KernelInv, TypeOK,
                 address_space, cpuRegs
  <2>5. TypeOK'
    BY <2>1, <2>2, <2>4 DEF KernelInv, TypeOK, tableVars
  <2>6. CurrentIsOnCpu' /\ OneRunning' /\ BootInv'
    BY <2>0, <2>1 DEF KernelInv, CurrentIsOnCpu, OneRunning, OnCpu, BootInv, tableVars
  <2>7. TableConsistent' /\ TableInv'
    <3>1. sh \notin Registering /\ sh' \notin Registering
      BY <2>0, <2>2 DEF Registering, ExecSteps, LoadSteps
    <3> QED BY <2>0, <2>1, <2>2, <3>1 DEF KernelInv, TableConsistent, Registered, TableInv,
               tableVars
  <2> QED BY <1>b, <1>q, <2>1, <2>2, <2>3, <2>5, <2>6, <2>7 DEF KernelInv
<1>2. CASE ShellElfinfo
  <2>1. /\ cpu = Shell /\ sh = "idle" /\ sh' = "idle"
        /\ UNCHANGED <<tableVars, state, entry, saved_esp, current_process, count,
                       cpuRegs, started, boot, panic, proc, loaded>>
        /\ image' \in [Pids \cup {kernel_space} -> BOOLEAN]
    BY <1>0, <1>2 DEF ShellElfinfo, ShellAt, shellVars
  <2>2. sh \notin ExecSteps \cup Registering
    BY <2>1 DEF ExecSteps, LoadSteps, Registering
  <2>3. HandlerStates(state')
    BY <2>1, SameStates
  <2> QED BY <1>0, <1>b, <1>q, <2>1, <2>2, <2>3, StatesPreserve
<1>3. CASE ExecSetEntry
  <2>1. /\ cpu = Shell /\ sh = "exec_set_entry" /\ sh' = "idle" /\ proc' = NoProc
        /\ UNCHANGED <<tableVars, state, image, saved_esp, current_process, count,
                       cpuRegs, started, boot, panic, loaded>>
        /\ entry' \in [Pids -> {"null", "set"}]
    BY <1>0, <1>3 DEF ExecSetEntry, ShellAt
  <2>2. HandlerStates(state')
    BY <2>1, SameStates
  <2> QED BY <1>0, <1>b, <1>q, <2>1, <2>2, StatesPreserve
<1>4. CASE ExecDestroy
  <2>1. /\ cpu = Shell /\ sh = "exec_destroy" /\ sh' = "exec_remove"
        /\ state' = [state EXCEPT ![proc] = "DEAD"]
        /\ UNCHANGED <<tableVars, entry, image, saved_esp, current_process, count,
                       cpuRegs, started, boot, panic, proc, loaded>>
    BY <1>4 DEF ExecDestroy, ShellAt
  <2>2. sh \in ExecSteps /\ sh' \in ExecSteps /\ sh \notin LoadSteps
    BY <2>1 DEF ExecSteps, LoadSteps
  <2>3. HandlerStates(state')
    BY <1>e, <2>1, <2>2, KilledStates
  <2>4. QueueInv'
    BY <1>q, <2>2, <2>3 DEF HandlerStates
  <2> QED BY <1>0, <2>1, <2>2, <2>3, <2>4, StatesPreserve
<1>5. CASE ExecRemove
  <2>0. cpu = Shell /\ sh = "exec_remove" /\ sh \in ExecSteps /\ sh \notin Registering
        /\ sh \notin LoadSteps
    BY <1>5 DEF ExecRemove, ShellAt, ExecSteps, LoadSteps, Registering
  <2>t. process_table \in [0..(MAX_PROCESSES - 1) -> Pids \cup {NoProc}]
    BY DEF KernelInv, TypeOK
  <2>u. \A i \in 0..(process_count - 1) : process_table[i] = proc => i = process_count - 1
    BY <1>e, <2>0 DEF KernelInv, TableConsistent
  <2>1. TableWithout(proc) = process_table
    <3>1. (CHOOSE k \in 0..(process_count - 1) : process_table[k] = proc) = process_count - 1
      BY <1>e, <2>0, <2>u
    <3> QED BY <2>t, <3>1 DEF TableWithout
  <2>2. /\ process_table' = process_table /\ process_count' = process_count - 1
        /\ state' = [state EXCEPT ![proc] = "FREE"] /\ sh' = "idle"
        /\ proc' = NoProc
        /\ UNCHANGED <<next_pid, entry, image, saved_esp, current_process, count,
                       cpuRegs, started, boot, loaded, panic>>
    BY <1>5, <2>1 DEF ExecRemove
  <2>3. TypeOK'
    <3>1. state' \in [Pids -> TaskState]
      BY <1>0, <2>2 DEF TaskState
    <3>2. process_count' \in 0..MAX_PROCESSES
      BY <1>e, <2>0, <2>2, KernelFacts
    <3> QED BY <2>2, <3>1, <3>2 DEF KernelInv, TypeOK, cpuRegs
  <2>4. RegistersMatch'
    BY <2>0, <2>2 DEF KernelInv, RegistersMatch, address_space, cpuRegs
  <2>5. CurrentIsOnCpu'
    <3>1. current_process \in 0..(process_count - 1) /\ process_table[current_process] = Shell
      BY <2>0 DEF KernelInv, CurrentIsOnCpu
    <3>2. current_process # process_count - 1
      BY <1>e, <2>0, <3>1, KernelFacts
    <3>3. current_process \in 0..(process_count' - 1)
      BY <1>e, <2>0, <2>2, <3>1, <3>2
    <3> QED BY <2>0, <2>2, <3>1, <3>3 DEF CurrentIsOnCpu, cpuRegs
  <2>6. OneRunning' /\ BootInv'
    BY <1>0, <2>2 DEF KernelInv, OneRunning, OnCpu, BootInv, cpuRegs
  <2>f. \A p \in Pids : state'[p] # "FREE" <=> (state[p] # "FREE" /\ p # proc)
    BY <1>0, <1>e, <2>0, <2>2
  <2>7. TableConsistent'
    <3>1. ASSUME NEW i \in 0..(process_count' - 1)
          PROVE  /\ i \in 0..(process_count - 1) /\ process_table[i] # proc
                 /\ process_table[i] \in Pids /\ state[process_table[i]] # "FREE"
      <4>1. i \in 0..(process_count - 1) /\ i # process_count - 1
        BY <1>e, <2>0, <2>2
      <4> QED BY <2>0, <2>u, <4>1 DEF KernelInv, TableConsistent
    <3>2. ASSUME NEW p \in Pids, state'[p] # "FREE" PROVE Registered(p)'
      <4>1. PICK i \in 0..(process_count - 1) : process_table[i] = p
        BY <2>0, <2>f, <3>2 DEF KernelInv, TableConsistent, Registered
      <4>2. i \in 0..(process_count' - 1)
        BY <1>e, <2>0, <2>2, <2>f, <3>2, <4>1
      <4> QED BY <2>2, <3>2, <4>1, <4>2 DEF Registered
    <3>3. \A i, j \in 0..(process_count' - 1) :
             process_table'[i] = process_table'[j] => i = j
      BY <2>2, <3>1 DEF KernelInv, TableConsistent
    <3> QED BY <2>2, <2>f, <3>1, <3>2, <3>3 DEF TableConsistent
  <2>8. TableInv'
    <3>1. \A p \in Pids : state'[p] # "FREE" => p < next_pid'
      BY <2>2, <2>f DEF KernelInv, TableInv
    <3>2. sh' \notin ExecSteps \cup Registering
      BY <2>2 DEF ExecSteps, LoadSteps, Registering
    <3>3. ASSUME NEW i \in process_count'..(MAX_PROCESSES - 1), process_table[i] # NoProc
          PROVE  state'[process_table[i]] = "FREE" /\ process_table[i] < next_pid
      <4>1. CASE i = process_count - 1
        BY <1>e, <2>0, <2>f, <4>1 DEF KernelInv, TableInv
      <4>2. CASE i # process_count - 1
        <5>1. i \in process_count..(MAX_PROCESSES - 1) /\ i \in 0..(MAX_PROCESSES - 1)
          BY <1>e, <2>0, <2>2, <4>2
        <5>2. process_table[i] \in Pids
          BY <2>t, <3>3, <5>1
        <5>3. state[process_table[i]] = "FREE" /\ process_table[i] < next_pid
          BY <3>3, <5>1 DEF KernelInv, TableInv
        <5> QED BY <2>f, <5>2, <5>3
      <4> QED BY <4>1, <4>2
    <3>4. process_count' >= Len(KernelTable)
      BY <1>e, <2>0, <2>2, KernelFacts
    <3>5. cpu' # Boot => state'[cpu'] # "FREE"
      BY <1>e, <2>0, <2>2, <2>f, ShellLive, KernelFacts DEF cpuRegs
    <3> QED BY <2>2, <3>1, <3>2, <3>3, <3>4, <3>5 DEF KernelInv, TableInv
  <2>9. QueueInv'
    BY <1>0, <1>b, <1>q, <2>2
  <2> QED BY <2>3, <2>4, <2>5, <2>6, <2>7, <2>8, <2>9 DEF KernelInv
<1> QED BY <1>1, <1>2, <1>3, <1>4, <1>5

-----------------------------------------------------------------------------
(* The system calls: a change of states, then the tick. *)
LEMMA UserPreserves == ASSUME KernelInv, UserNext PROVE KernelInv'
<1>0. UNCHANGED count => CountsGrow
  BY SameCount
<1>1. cpu # Boot /\ cpu \notin KernelPids /\ cpu \in Pids
  BY DEF UserNext, SysExit, SysKill, SysWait, SysSend, SysYield, UserFault, UserAt,
         KernelInv, TypeOK
<1>2. scheduler_current_process = cpu /\ Registered(cpu)
  BY <1>1, PrevProcess DEF scheduler_current_process, KernelInv, CurrentIsOnCpu, Registered,
         TableInv
<1>3. CASE SysExit
  <2>1. HandlerStates([state EXCEPT ![scheduler_current_process] = "DEAD"])
    BY <1>1, <1>2, KilledStates DEF Registered
  <2> QED BY <1>0, <1>1, <1>3, <2>1, TickPreserves DEF SysExit
<1>4. ASSUME NEW p \in Pids, SysKill(p) PROVE KernelInv'
  <2>1. HandlerStates([state EXCEPT ![p] = "DEAD"])
    BY <1>4, KilledStates DEF SysKill, Registered
  <2> QED BY <1>0, <1>1, <1>4, <2>1, TickPreserves DEF SysKill
<1>5. CASE SysWait
  <2>1. Zombies(scheduler_current_process) = {}
    BY <1>1, <1>2, KernelFacts DEF Zombies, parent_pid
  <2>2. /\ scheduler_tick(process_table, process_count, state)
        /\ UNCHANGED <<process_table, process_count, next_pid, entry, image, count,
                       boot, shellVars>>
    BY <1>5, <2>1 DEF SysWait
  <2> QED BY <1>0, <1>1, <2>2, SameStates, TickPreserves DEF tableVars
<1>6. ASSUME NEW to \in KernelPids, SysSend(to) PROVE KernelInv'
  <2>1. HandlerStates(Woken(to))
    BY WokenStates
  <2>2. CountsGrow
    BY <1>6, SentCount DEF SysSend
  <2> QED BY <1>1, <1>6, <2>1, <2>2, TickPreserves DEF SysSend
<1>7. CASE SysYield
  BY <1>0, <1>1, <1>7, SameStates, TickPreserves DEF SysYield
<1>8. CASE UserFault
  <2>1. TypeOK'
    BY <1>8 DEF UserFault, KernelInv, TypeOK, tableVars, shellVars, cpuRegs
  <2> QED BY <1>8, <2>1 DEF UserFault, KernelInv, CurrentIsOnCpu, RegistersMatch, OneRunning,
             OnCpu, TableConsistent, Registered, TableInv, BootInv, QueueInv, address_space,
             tableVars, shellVars, cpuRegs
<1> QED BY <1>3, <1>4, <1>5, <1>6, <1>7, <1>8 DEF UserNext

-----------------------------------------------------------------------------
(* What kernel_main has set up before sti satisfies the invariant.          *)
LEMMA InitInv == Init => KernelInv
<1> SUFFICES ASSUME Init PROVE KernelInv
  OBVIOUS
<1> DEFINE n == Len(KernelTable)
<1>0. /\ Pids \subseteq Nat /\ 0 \notin Pids /\ 1..3 \subseteq Pids
      /\ MAX_PROCESSES \in Nat /\ MAX_PROCESSES >= 3 /\ PID_BOUND \in Nat /\ PID_BOUND >= 3
      /\ n \in 1..3
  BY ConstantsAssumption DEF Pids
<1>k. /\ \A i \in 1..n : KernelTable[i] \in 1..3 /\ KernelTable[i] \in Pids
      /\ \A i, j \in 1..n : i < j => KernelTable[i] < KernelTable[j]
      /\ \A i \in 1..n : KernelTable[i] <= KernelTable[n]
  <2>1. /\ \A i \in 1..n : KernelTable[i] \in 1..3
        /\ \A i, j \in 1..n : i < j => KernelTable[i] < KernelTable[j]
    BY KernelFacts, ConstantsAssumption
  <2>2. ASSUME NEW i \in 1..n PROVE KernelTable[i] <= KernelTable[n]
    <3>1. KernelTable[i] \in 1..3 /\ KernelTable[n] \in 1..3 /\ (i = n \/ i < n)
      BY <1>0, <2>1
    <3> QED BY <1>0, <2>1, <3>1
  <2> QED BY <1>0, <2>1, <2>2
<1> HIDE DEF n
<1>1. /\ process_table = [i \in 0..(MAX_PROCESSES - 1) |->
                             IF i < n THEN KernelTable[i + 1] ELSE NoProc]
      /\ process_count = n /\ next_pid \in (KernelTable[n] + 1)..4
      /\ state = [p \in Pids |-> IF p \in KernelPids THEN "READY" ELSE "FREE"]
      /\ KernelPids = {KernelTable[i] : i \in 1..n}
  BY DEF Init, n, KernelPids
<1>2. /\ \A i \in 0..(n - 1) : process_table[i] = KernelTable[i + 1] /\ i + 1 \in 1..n
      /\ \A i \in n..(MAX_PROCESSES - 1) : process_table[i] = NoProc
  <2>1. ASSUME NEW i \in 0..(n - 1)
        PROVE  process_table[i] = KernelTable[i + 1] /\ i + 1 \in 1..n
    <3>1. i \in 0..(MAX_PROCESSES - 1) /\ i < n /\ i + 1 \in 1..n
      BY <1>0
    <3> QED BY <1>1, <3>1
  <2>2. ASSUME NEW i \in n..(MAX_PROCESSES - 1) PROVE process_table[i] = NoProc
    <3>1. i \in 0..(MAX_PROCESSES - 1) /\ ~(i < n)
      BY <1>0
    <3> QED BY <1>1, <3>1
  <2> QED BY <2>1, <2>2
<1>3. TypeOK
  <2>1. count \in [KernelPids -> 0..(IPC_MAX_MSG_PER_PROC + 1)]
        /\ loaded \in 0..(IPC_MAX_MSG_PER_PROC + 1)
    BY ConstantsAssumption DEF Init
  <2>2. process_count \in 0..MAX_PROCESSES /\ current_process \in -1..(MAX_PROCESSES - 1)
    BY <1>0, <1>1 DEF Init
  <2>3. next_pid \in 2..(PID_BOUND + 1)
    BY <1>0, <1>1, <1>k
  <2>4. image \in [Pids \cup {kernel_space} -> BOOLEAN] /\ panic \in BOOLEAN
    <3>1. image = [p \in Pids \cup {kernel_space} |-> p \in KernelPids] /\ panic = FALSE
      BY DEF Init
    <3>2. ASSUME NEW p \in Pids \cup {kernel_space}
          PROVE (p \in KernelPids) = TRUE \/ (p \in KernelPids) = FALSE
      OBVIOUS
    <3> QED BY <3>1, <3>2
  <2>5. /\ state \in [Pids -> TaskState] /\ entry \in [Pids -> {"null", "set"}]
        /\ saved_esp \in [Pids -> Frames]
    BY DEF Init, TaskState, Frames
  <2>6. process_table \in [0..(MAX_PROCESSES - 1) -> Pids \cup {NoProc}]
    <3>1. ASSUME NEW i \in 0..(MAX_PROCESSES - 1)
          PROVE  process_table[i] \in Pids \cup {NoProc}
      <4>1. i \in 0..(n - 1) \/ i \in n..(MAX_PROCESSES - 1)
        BY <1>0
      <4> QED BY <1>2, <1>k, <4>1
    <3> QED BY <1>1, <3>1
  <2> QED BY <2>1, <2>2, <2>3, <2>4, <2>5, <2>6 DEF Init, TypeOK
<1>s. sh = "idle" /\ sh \notin ExecSteps \cup Registering \cup SendSteps /\ cpu = Boot
  BY DEF Init, ExecSteps, LoadSteps, Registering, SendSteps
<1>4. BootInv /\ OneRunning /\ CurrentIsOnCpu /\ RegistersMatch
  BY DEF Init, BootInv, OneRunning, CurrentIsOnCpu, RegistersMatch
<1>5. TableInv
  <2>1. ASSUME NEW p \in Pids, state[p] # "FREE" PROVE p < next_pid
    <3>1. PICK i \in 1..n : p = KernelTable[i]
      BY <1>1, <2>1
    <3>2. KernelTable[i] \in 1..3 /\ KernelTable[n] \in 1..3 /\ KernelTable[i] <= KernelTable[n]
      BY <1>0, <1>k
    <3> QED BY <1>1, <3>1, <3>2
  <2>2. /\ process_count >= Len(KernelTable)
        /\ \A i \in 0..(Len(KernelTable) - 1) : process_table[i] = KernelTable[i + 1]
    <3>1. process_count = n
      BY <1>1
    <3> QED BY <1>0, <1>2, <3>1 DEF n
  <2>3. \A i \in process_count..(MAX_PROCESSES - 1) : process_table[i] = NoProc
    BY <1>1, <1>2
  <2> QED BY <1>s, <2>1, <2>2, <2>3 DEF TableInv
<1>6. TableConsistent
  <2>1. ASSUME NEW i \in 0..(process_count - 1), NEW j \in 0..(process_count - 1),
               process_table[i] = process_table[j]
        PROVE  i = j
    <3>1. /\ i + 1 \in 1..n /\ j + 1 \in 1..n /\ KernelTable[i + 1] = KernelTable[j + 1]
          /\ KernelTable[i + 1] \in 1..3
      BY <1>1, <1>2, <1>k, <2>1
    <3>2. ~(i + 1 < j + 1) /\ ~(j + 1 < i + 1)
      BY <1>k, <3>1
    <3> QED BY <1>0, <3>1, <3>2
  <2>2. ASSUME NEW i \in 0..(process_count - 1)
        PROVE  process_table[i] \in Pids /\ state[process_table[i]] # "FREE"
    <3>1. i + 1 \in 1..n /\ process_table[i] = KernelTable[i + 1]
      BY <1>1, <1>2
    <3>2. \A k \in 1..n : KernelTable[k] \in KernelPids
      BY DEF KernelPids, n
    <3>3. process_table[i] \in Pids /\ process_table[i] \in KernelPids
      BY <1>k, <3>1, <3>2
    <3> QED BY <1>1, <3>3
  <2>3. ASSUME NEW p \in Pids, state[p] # "FREE" PROVE Registered(p)
    <3>1. PICK i \in 1..n : p = KernelTable[i]
      BY <1>1, <2>3
    <3>2. i - 1 \in 0..(n - 1) /\ (i - 1) + 1 = i
      BY <1>0
    <3>3. process_table[i - 1] = p
      BY <1>2, <3>1, <3>2
    <3> QED BY <1>1, <2>3, <3>2, <3>3 DEF Registered
  <2> QED BY <2>1, <2>2, <2>3 DEF TableConsistent
<1>7. QueueInv
  BY <1>1, <1>s DEF QueueInv
<1> QED BY <1>3, <1>4, <1>5, <1>6, <1>7 DEF KernelInv

(* Every step of the kernel, one case per group of actions.                 *)
LEMMA NextInv == KernelInv /\ [Next]_vars => KernelInv'
<1> SUFFICES ASSUME KernelInv, [Next]_vars PROVE KernelInv'
  OBVIOUS
<1>1. CASE Tick
  <2>1. CountsGrow
    BY <1>1, SameCount DEF Tick
  <2> QED BY <1>1, <2>1, SameStates, TickPreserves DEF Tick, InterruptsEnabled
<1>2. CASE BootNext
  BY <1>2, BootPreserves
<1>3. CASE ShellNext
  <2>1. CASE ShellRing3
    BY <2>1, CreatePreserves DEF ShellRing3, ShellAt, Registering
  <2>2. CASE ShellExec
    BY <2>2, CreatePreserves DEF ShellExec, ShellAt, Registering
  <2>3. CASE \/ \E p \in Pids : ShellKill(p)
             \/ \E to \in KernelPids : ShellSend(to)
             \/ SendLoad \/ SendStore \/ SendTest \/ SendWake
             \/ ShellRecv \/ ShellRecvBlock \/ RecvLoad \/ RecvStore
    BY <2>3, ShellCommandsPreserve, Zenon
  <2>4. CASE \/ ShellElfinfo \/ ExecSwitch \/ ExecLoad \/ ExecSwitchBack \/ ExecSetEntry
             \/ ExecDestroy \/ ExecRemove
    BY <2>4, ExecPreserves
  <2>5. CASE RegisterSlot
    BY <2>5, RegisterPreserves
  <2> QED BY <1>3, <2>1, <2>2, <2>3, <2>4, <2>5, Zenon DEF ShellNext
<1>4. CASE UserNext
  BY <1>4, UserPreserves
<1>5. CASE Halted \/ UNCHANGED vars
  <2>1. UNCHANGED vars
    BY <1>5 DEF Halted
  <2>2. TypeOK'
    BY <2>1 DEF vars, KernelInv, TypeOK
  <2>4. CurrentIsOnCpu' /\ RegistersMatch' /\ OneRunning'
    BY <2>1 DEF vars, KernelInv, CurrentIsOnCpu, RegistersMatch, OneRunning, OnCpu, address_space
  <2>3. TableConsistent' /\ TableInv'
    BY <2>1 DEF vars, KernelInv, TableConsistent, Registered, TableInv
  <2>5. BootInv' /\ QueueInv'
    BY <2>1 DEF vars, KernelInv, BootInv, QueueInv
  <2> QED BY <2>2, <2>3, <2>4, <2>5 DEF KernelInv
<1> QED BY <1>1, <1>2, <1>3, <1>4, <1>5 DEF Next

(* KernelInv holds in every reachable state of the process table, the       *)
(* scheduler, the boot hand-over, the commands and the system calls.        *)
THEOREM KernelInvariant == Spec => []KernelInv
BY InitInv, NextInv, PTL DEF Spec

(* Types: no index leaves process_table, and a queue exceeds its capacity   *)
(* by one message at most, however the shell's ipc_send is interrupted.     *)
THEOREM TypesCorrect == Spec => []TypeOK
BY KernelInvariant, PTL DEF KernelInv

(* scheduler.cpp's index always names the process that has the CPU.         *)
THEOREM CurrentCorrect == Spec => []CurrentIsOnCpu
BY KernelInvariant, PTL DEF KernelInv

(* process_switch: the process on the CPU has its own space and ring-0      *)
(* stack loaded.                                                            *)
THEOREM RegistersCorrect == Spec => []RegistersMatch
BY KernelInvariant, PTL DEF KernelInv

(* scheduler_tick keeps at most one process RUNNING.                        *)
THEOREM MutualExclusion == Spec => []OneRunning
BY KernelInvariant, PTL DEF KernelInv

(* register_process and process_destroy keep the table duplicate-free.      *)
THEOREM TableCorrect == Spec => []TableConsistent
BY KernelInvariant, PTL DEF KernelInv

-----------------------------------------------------------------------------
(* The dead. *)

(* What a handler may do to the states before it calls scheduler_tick: kill *)
(* a process, or wake one.                                                  *)
KillsOrWakes(st) ==
    \A p \in Pids : \/ st[p] = state[p]
                    \/ st[p] = "DEAD" /\ state[p] # "FREE"
                    \/ state[p] = "BLOCKED" /\ st[p] = "READY"

(* Every step that may switch processes is such a change of states and then *)
(* scheduler_tick.                                                          *)
LEMMA TickingSteps ==
    ASSUME KernelInv, Tick \/ UserNext, ~UserFault
    PROVE  \E st : /\ HandlerStates(st) /\ KillsOrWakes(st)
                   /\ scheduler_tick(process_table, process_count, st)
                   /\ UNCHANGED <<tableVars, entry, image, shellVars>>
<1> DEFINE Goal(st) == /\ HandlerStates(st) /\ KillsOrWakes(st)
                       /\ scheduler_tick(process_table, process_count, st)
                       /\ UNCHANGED <<tableVars, entry, image, shellVars>>
<1> SUFFICES \E st : Goal(st)
  OBVIOUS
<1>s. HandlerStates(state) /\ KillsOrWakes(state) /\ state \in [Pids -> TaskState]
  BY SameStates DEF KillsOrWakes, KernelInv, TypeOK
<1>k. ASSUME NEW p \in Pids, Registered(p)
      PROVE  HandlerStates([state EXCEPT ![p] = "DEAD"])
             /\ KillsOrWakes([state EXCEPT ![p] = "DEAD"])
  <2>1. state[p] # "FREE"
    BY <1>k DEF Registered
  <2> QED BY <1>k, <1>s, <2>1, KilledStates DEF KillsOrWakes
<1>1. CASE Tick
  <2>1. Goal(state)
    BY <1>1, <1>s DEF Tick
  <2> QED BY <2>1
<1>2. CASE UserNext
  <2>1. cpu # Boot /\ cpu \notin KernelPids /\ cpu \in Pids
    BY <1>2 DEF UserNext, SysExit, SysKill, SysWait, SysSend, SysYield, UserFault, UserAt,
           KernelInv, TypeOK
  <2>2. scheduler_current_process = cpu /\ Registered(cpu)
    BY <2>1, PrevProcess DEF scheduler_current_process, KernelInv, CurrentIsOnCpu, Registered,
           TableInv
  <2>3. CASE SysExit
    <3>1. Goal([state EXCEPT ![cpu] = "DEAD"])
      BY <1>k, <2>1, <2>2, <2>3 DEF SysExit
    <3> QED BY <3>1
  <2>4. ASSUME NEW p \in Pids, SysKill(p) PROVE \E st : Goal(st)
    <3>1. Goal([state EXCEPT ![p] = "DEAD"])
      BY <1>k, <2>4 DEF SysKill
    <3> QED BY <3>1
  <2>5. CASE SysWait
    <3>1. Zombies(scheduler_current_process) = {}
      BY <2>1, <2>2, KernelFacts DEF Zombies, parent_pid
    <3>2. Goal(state)
      BY <1>s, <2>5, <3>1 DEF SysWait, tableVars
    <3> QED BY <3>2
  <2>6. ASSUME NEW to \in KernelPids, SysSend(to) PROVE \E st : Goal(st)
    <3>1. KillsOrWakes(Woken(to))
      BY <1>s DEF KillsOrWakes, Woken
    <3>2. Goal(Woken(to))
      BY <2>6, <3>1, WokenStates DEF SysSend, UserAt
    <3> QED BY <3>2
  <2>7. CASE SysYield
    <3>1. Goal(state)
      BY <1>s, <2>7 DEF SysYield
    <3> QED BY <3>1
  <2> QED BY <1>2, <2>3, <2>4, <2>5, <2>6, <2>7 DEF UserNext
<1> QED BY <1>1, <1>2

(* find_next skips the dead, so a tick leaves them as they are.             *)
LEMMA TickKeepsDead ==
    ASSUME KernelInv, NEW st, HandlerStates(st),
           scheduler_tick(process_table, process_count, st),
           NEW p \in Pids, st[p] = "DEAD"
    PROVE  state'[p] = "DEAD"
<1> DEFINE prev_p == process_get(process_table, process_count, current_process)
           parked == Parked(st, prev_p)
<1>1. parked[p] = "DEAD" /\ parked \in [Pids -> TaskState]
  BY ParkedStates DEF Parked, HandlerStates
<1>2. ASSUME NEW idx \in 0..(process_count - 1),
             find_next(process_table, process_count, st, current_process, idx),
             state' = [parked EXCEPT ![process_table[idx]] = "RUNNING"]
      PROVE  state'[p] = "DEAD"
  <2>1. process_table[idx] # p
    BY <1>2 DEF find_next, Runnable
  <2> QED BY <1>1, <1>2, <2>1
<1>3. CASE NoneRunnable(process_table, process_count, st) /\ StayOn(st, prev_p)
  BY <1>3 DEF StayOn
<1>4. CASE DispatchFreed(process_table, process_count, st)
  BY <1>4 DEF DispatchFreed
<1> QED BY <1>2, <1>3, <1>4 DEF scheduler_tick, Dispatch

(* No handler, command or tick gives a DEAD process a live state.           *)
LEMMA StepKeepsDead ==
    ASSUME KernelInv, [Next]_vars, NEW p \in Pids \ {Shell}, state[p] = "DEAD"
    PROVE  state'[p] \in {"DEAD", "FREE"}
<1>0. state \in [Pids -> TaskState] /\ p \in Pids
  BY DEF KernelInv, TypeOK
<1>1. CASE (Tick \/ UserNext) /\ ~UserFault
  <2>1. PICK st : /\ HandlerStates(st) /\ KillsOrWakes(st)
                  /\ scheduler_tick(process_table, process_count, st)
    BY <1>1, TickingSteps
  <2>2. st[p] = "DEAD"
    BY <1>0, <2>1 DEF KillsOrWakes
  <2> QED BY <1>0, <2>1, <2>2, TickKeepsDead
<1>2. CASE BootNext
  BY <1>0, <1>2 DEF BootNext, BootSetRunning, BootSwitch, BootMarkCurrent, BootCli, BootEnter
<1>3. CASE ShellNext
  <2>1. CASE ShellRing3 \/ ShellExec
    <3>1. p # next_pid
      <4>1. next_pid \in 2..(PID_BOUND + 1) /\ p < next_pid
        BY <1>0 DEF KernelInv, TypeOK, TableInv
      <4> QED BY <1>0, <4>1, ConstantsAssumption DEF Pids
    <3> QED BY <1>0, <2>1, <3>1 DEF ShellRing3, ShellExec, process_create, process_create_fails
  <2>2. CASE ShellRecvBlock
    <3>1. scheduler_current_process = Shell
      BY <2>2, PrevProcess DEF ShellRecvBlock, ShellAt, scheduler_current_process
    <3> QED BY <1>0, <2>2, <3>1 DEF ShellRecvBlock
  <2>3. ASSUME NEW q \in Pids, ShellKill(q) PROVE state'[p] = "DEAD"
    BY <1>0, <2>3 DEF ShellKill
  <2>4. CASE SendWake
    <3>1. proc = Shell
      BY <2>4 DEF SendWake, ShellAt, KernelInv, QueueInv
    <3> QED BY <1>0, <2>4, <3>1 DEF SendWake
  <2>5. CASE ExecDestroy \/ ExecRemove
    BY <1>0, <2>5 DEF ExecDestroy, ExecRemove
  <2>6. CASE \/ \E to \in KernelPids : ShellSend(to)
             \/ SendLoad \/ SendStore \/ SendTest \/ ShellRecv \/ RecvLoad \/ RecvStore
             \/ RegisterSlot \/ ShellElfinfo
             \/ ExecSwitch \/ ExecLoad \/ ExecSwitchBack \/ ExecSetEntry
    BY <2>6 DEF ShellSend, SendLoad, SendStore, SendTest, ShellRecv, RecvLoad, RecvStore,
           RegisterSlot, ShellElfinfo, ExecSwitch, ExecLoad, ExecSwitchBack, ExecSetEntry
  <2> QED BY <1>3, <2>1, <2>2, <2>3, <2>4, <2>5, <2>6, Zenon DEF ShellNext
<1>4. CASE UserFault
  BY <1>4 DEF UserFault
<1>5. CASE Halted \/ UNCHANGED vars
  BY <1>5 DEF Halted, vars
<1> QED BY <1>1, <1>2, <1>3, <1>4, <1>5 DEF Next

(* A killed or exited process other than the shell never gets a live state  *)
(* again, from the tick or from anything else.                              *)
THEOREM DeadStaysDead == Spec => DeadIsFinal
<1>1. KernelInv /\ [Next]_vars =>
        [\A p \in Pids \ {Shell} : state[p] = "DEAD" => state'[p] \in {"DEAD", "FREE"}]_vars
  BY StepKeepsDead
<1> QED BY <1>1, KernelInvariant, PTL DEF Spec, DeadIsFinal

-----------------------------------------------------------------------------
(* Saved contexts. *)

Live == {"READY", "RUNNING", "BLOCKED"}

(* Why no process but the shell is left with a stale frame.  A process that *)
(* was never entered has no frame; one that has the CPU is RUNNING or DEAD, *)
(* so the tick that takes the CPU away saves it or may forget it; one that  *)
(* was entered, left and may run again keeps the frame saved then.  Pids    *)
(* are not reused, so nothing an earlier process left is taken for a frame. *)
ContextInv ==
    \A p \in Pids \ {Shell} :
        /\ p \notin started => saved_esp[p] = "null"
        /\ p \in started => p < next_pid
        /\ p = cpu => p \in started /\ state[p] \in {"RUNNING", "DEAD"}
        /\ p # cpu /\ p \in started /\ state[p] \in Live => saved_esp[p] = "here"

(* scheduler_tick saves whom it leaves, and enters or resumes one process.  *)
LEMMA TickKeepsContext ==
    ASSUME KernelInv, ContextInv, NEW st, HandlerStates(st), KillsOrWakes(st),
           scheduler_tick(process_table, process_count, st), next_pid' = next_pid
    PROVE  ContextInv'
<1> DEFINE prev_p == process_get(process_table, process_count, current_process)
           parked == Parked(st, prev_p)
           esp == EspAfterSave(st, prev_p)
<1>0. /\ saved_esp \in [Pids -> Frames] /\ st \in [Pids -> TaskState] /\ next_pid \in Nat
      /\ Pids \subseteq Nat /\ 0 \notin Pids /\ 1 \in Pids
  <2>1. saved_esp \in [Pids -> Frames] /\ next_pid \in 2..(PID_BOUND + 1)
    BY DEF KernelInv, TypeOK
  <2>2. st \in [Pids -> TaskState]
    BY DEF HandlerStates
  <2> QED BY <2>1, <2>2, ConstantsAssumption DEF Pids
<1>1. ASSUME NEW p \in Pids \ {Shell} PROVE p = prev_p <=> p = cpu
  BY <1>0, PrevProcess DEF KernelInv, TypeOK, BootInv
<1>2. ASSUME NEW p \in Pids \ {Shell}, p = cpu PROVE st[p] \in {"RUNNING", "DEAD"}
  BY <1>2 DEF ContextInv, KillsOrWakes
<1>3. ASSUME NEW p \in Pids, st[p] \in Live PROVE state[p] \in Live
  BY <1>3 DEF KillsOrWakes, Live
<1>4. ASSUME NEW p \in Pids \ {Shell}
      PROVE  esp[p] = IF p = cpu /\ st[p] = "RUNNING" THEN "here" ELSE saved_esp[p]
  <2>1. CASE p = cpu
    <3>1. p = prev_p /\ p # NoProc /\ cpu # Boot /\ st[p] # "BLOCKED"
      BY <1>0, <1>1, <1>2, <2>1
    <3> QED BY <1>0, <2>1, <3>1 DEF EspAfterSave, Saves
  <2>2. CASE p # cpu
    <3>1. p # prev_p
      BY <1>1, <2>2
    <3> QED BY <1>0, <2>2, <3>1 DEF EspAfterSave
  <2> QED BY <2>1, <2>2
<1>5. ASSUME NEW idx \in 0..(process_count - 1),
             find_next(process_table, process_count, st, current_process, idx),
             Dispatch(process_table, idx, parked, esp)
      PROVE  ContextInv'
  <2> DEFINE next == process_table[idx]
  <2>1. next \in Pids /\ next < next_pid
    <3>1. next # NoProc /\ st[next] # "FREE"
      BY <1>5 DEF find_next, Runnable
    <3>2. next \in Pids
      BY <3>1, SlotType
    <3>3. state[next] # "FREE"
      BY <3>1, <3>2 DEF HandlerStates
    <3> QED BY <3>2, <3>3 DEF KernelInv, TableInv
  <2>2. /\ cpu' = IF esp[next] = "boot" THEN Boot ELSE next
        /\ saved_esp' = IF esp[next] = "null" THEN esp ELSE [esp EXCEPT ![next] = "old"]
        /\ started' = IF esp[next] = "null" THEN started \cup {next} ELSE started
        /\ state' = [parked EXCEPT ![next] = "RUNNING"]
    BY <1>5 DEF Dispatch, Resume
  <2>3. esp \in [Pids -> Frames] /\ parked \in [Pids -> TaskState]
    <3>1. prev_p \in Pids \cup {NoProc}
      BY <1>0, PrevProcess DEF KernelInv, TypeOK
    <3> QED BY <1>0, <3>1, ParkedStates DEF EspAfterSave, Frames
  <2> SUFFICES ASSUME NEW p \in Pids \ {Shell}
               PROVE  /\ p \notin started' => saved_esp'[p] = "null"
                      /\ p \in started' => p < next_pid'
                      /\ p = cpu' => p \in started' /\ state'[p] \in {"RUNNING", "DEAD"}
                      /\ p # cpu' /\ p \in started' /\ state'[p] \in Live =>
                            saved_esp'[p] = "here"
    BY DEF ContextInv
  <2>4. /\ p \notin started => saved_esp[p] = "null"
        /\ p \in started => p < next_pid
        /\ p = cpu => p \in started
        /\ p # cpu /\ p \in started /\ state[p] \in Live => saved_esp[p] = "here"
    BY DEF ContextInv
  <2> HIDE DEF next, esp, parked, prev_p
  <2>5. CASE p = next
    <3>1. esp[p] # "boot"
      <4>1. saved_esp[p] # "boot"
        BY DEF KernelInv, BootInv
      <4> QED BY <1>4, <4>1
    <3>2. cpu' = p /\ state'[p] = "RUNNING"
      BY <2>2, <2>3, <2>5, <3>1
    <3>3. p \in started'
      <4>1. CASE p \in started
        BY <2>2, <4>1
      <4>2. CASE p \notin started
        <5>1. esp[p] = "null"
          BY <1>4, <2>4, <4>2
        <5> QED BY <2>2, <2>5, <5>1
      <4> QED BY <4>1, <4>2
    <3>4. p < next_pid'
      BY <2>1, <2>5
    <3> QED BY <3>2, <3>3, <3>4
  <2>6. CASE p # next
    <3>1. saved_esp'[p] = esp[p] /\ state'[p] = parked[p] /\ (p \in started' <=> p \in started)
      BY <2>2, <2>3, <2>6
    <3>2. p # cpu'
      BY <1>0, <2>2, <2>6
    <3>3. CASE p = cpu
      <4>1. p = prev_p /\ p # NoProc /\ st[p] \in {"RUNNING", "DEAD"}
        BY <1>0, <1>1, <1>2, <3>3
      <4>2. parked[p] \in Live => st[p] = "RUNNING"
        BY <1>0, <4>1 DEF parked, Parked, Live
      <4> QED BY <1>4, <2>4, <3>1, <3>2, <3>3, <4>2
    <3>4. CASE p # cpu
      <4>1. p # prev_p
        BY <1>1, <3>4
      <4>2. parked[p] = st[p] /\ esp[p] = saved_esp[p]
        BY <1>0, <1>4, <3>4, <4>1 DEF parked, Parked
      <4> QED BY <1>3, <2>4, <3>1, <3>2, <3>4, <4>2
    <3> QED BY <3>3, <3>4
  <2> QED BY <2>5, <2>6
<1>6. CASE NoneRunnable(process_table, process_count, st) /\ StayOn(st, prev_p)
  <2>1. state' = st /\ cpu' = cpu /\ started' = started
    BY <1>6 DEF StayOn
  <2>2. ASSUME NEW p \in Pids \ {Shell} PROVE saved_esp'[p] = saved_esp[p]
    <3>1. CASE p = cpu
      <4>1. st[p] # "RUNNING"
        BY <1>0, <1>6, <3>1 DEF NoneRunnable, Runnable, KernelInv, CurrentIsOnCpu
      <4>2. st[p] = "DEAD" /\ p = prev_p
        BY <1>1, <1>2, <3>1, <4>1
      <4> QED BY <1>6, <4>2 DEF StayOn, Saves
    <3>2. CASE p # cpu
      <4>1. p # prev_p
        BY <1>1, <3>2
      <4> QED BY <1>0, <1>6, <4>1 DEF StayOn
    <3> QED BY <3>1, <3>2
  <2> QED BY <1>2, <1>3, <2>1, <2>2 DEF ContextInv
<1>7. CASE DispatchFreed(process_table, process_count, st)
  <2>1. state' = st /\ UNCHANGED <<cpu, started, saved_esp>>
    BY <1>7 DEF DispatchFreed
  <2> QED BY <1>2, <1>3, <2>1 DEF ContextInv
<1> QED BY <1>5, <1>6, <1>7 DEF scheduler_tick

(* The steps that switch nobody.  They may kill or wake processes, create   *)
(* one under a fresh pid or free one.                                       *)
LEMMA QuietKeepsContext ==
    ASSUME KernelInv, ContextInv, cpu = Shell, UNCHANGED <<saved_esp, cpu, started>>,
           next_pid' \in Nat, next_pid' >= next_pid,
           \A p \in Pids \ {Shell} : state'[p] \in Live => state[p] \in Live \/ p >= next_pid
    PROVE  ContextInv'
<1>1. next_pid \in Nat /\ Pids \subseteq Nat
  BY DEF KernelInv, TypeOK, Pids
<1> QED BY <1>1 DEF ContextInv

(* One case per group of actions.                                           *)
LEMMA StepKeepsContext == KernelInv /\ ContextInv /\ [Next]_vars => ContextInv'
<1> SUFFICES ASSUME KernelInv, ContextInv, [Next]_vars PROVE ContextInv'
  OBVIOUS
<1>0. /\ state \in [Pids -> TaskState] /\ next_pid \in Nat /\ Pids \subseteq Nat
      /\ 0 \notin Pids
  BY DEF KernelInv, TypeOK, Pids
<1>1. CASE (Tick \/ UserNext) /\ ~UserFault
  <2>1. PICK st : /\ HandlerStates(st) /\ KillsOrWakes(st)
                  /\ scheduler_tick(process_table, process_count, st)
                  /\ UNCHANGED <<tableVars, entry, image, shellVars>>
    BY <1>1, TickingSteps
  <2> QED BY <2>1, TickKeepsContext DEF tableVars
<1>2. CASE UserFault
  BY <1>2 DEF UserFault, ContextInv, tableVars, cpuRegs
<1>3. CASE BootNext
  <2>1. cpu = Boot /\ next_pid' = next_pid /\ saved_esp' = saved_esp
    BY <1>3 DEF BootNext, BootSetRunning, BootSwitch, BootMarkCurrent, BootCli, BootEnter,
           BootStep, tableVars
  <2>2. \A p \in Pids \ {Shell} : state'[p] = state[p] /\ p # cpu' /\ p # cpu
    BY <1>0, <1>3, <2>1 DEF BootNext, BootSetRunning, BootSwitch, BootMarkCurrent, BootCli,
           BootEnter, cpuRegs
  <2>3. \A p \in Pids \ {Shell} : p \in started' <=> p \in started
    BY <1>3 DEF BootNext, BootSetRunning, BootSwitch, BootMarkCurrent, BootCli, BootEnter
  <2> QED BY <2>1, <2>2, <2>3 DEF ContextInv
<1>4. CASE ShellNext
  <2>1. cpu = Shell
    BY <1>4 DEF ShellNext, ShellKill, ShellSend, SendLoad, SendStore, SendTest, SendWake,
           ShellRecv, ShellRecvBlock, RecvLoad, RecvStore, ShellRing3, ShellElfinfo, RegisterSlot,
           ShellExec, ExecSwitch, ExecLoad, ExecSwitchBack, ExecSetEntry, ExecDestroy, ExecRemove,
           ShellAt
  <2>2. UNCHANGED <<saved_esp, started, cpu>>
    BY <1>4 DEF ShellNext, ShellKill, ShellSend, SendLoad, SendStore, SendTest, SendWake,
           ShellRecv, ShellRecvBlock, RecvLoad, RecvStore, ShellRing3, ShellElfinfo, RegisterSlot,
           ShellExec, ExecSwitch, ExecLoad, ExecSwitchBack, ExecSetEntry, ExecDestroy, ExecRemove,
           cpuRegs
  <2>3. CASE ShellRing3 \/ ShellExec
    <3>1. next_pid' = next_pid + 1
          /\ (state' = state \/ state' = [state EXCEPT ![next_pid] = "READY"])
      BY <2>3 DEF ShellRing3, ShellExec, process_create, process_create_fails
    <3> QED BY <1>0, <2>1, <2>2, <3>1, QuietKeepsContext
  <2>4. ASSUME next_pid' = next_pid,
               \A p \in Pids \ {Shell} : state'[p] \in Live => state[p] \in Live
        PROVE  ContextInv'
    BY <1>0, <2>1, <2>2, <2>4, QuietKeepsContext
  <2>5. ASSUME NEW p \in Pids, ShellKill(p) PROVE ContextInv'
    BY <1>0, <2>4, <2>5 DEF ShellKill, Live, tableVars
  <2>6. CASE SendWake
    <3>1. proc = Shell
      BY <2>6 DEF SendWake, ShellAt, KernelInv, QueueInv
    <3> QED BY <1>0, <2>4, <2>6, <3>1 DEF SendWake, tableVars
  <2>7. CASE ShellRecvBlock
    <3>1. scheduler_current_process = Shell
      BY <2>1, PrevProcess DEF scheduler_current_process
    <3> QED BY <1>0, <2>4, <2>7, <3>1 DEF ShellRecvBlock, tableVars
  <2>8. CASE ExecDestroy \/ ExecRemove
    BY <1>0, <2>4, <2>8 DEF ExecDestroy, ExecRemove, Live, tableVars
  <2>9. CASE \/ \E to \in KernelPids : ShellSend(to)
             \/ SendLoad \/ SendStore \/ SendTest \/ ShellRecv \/ RecvLoad \/ RecvStore
             \/ RegisterSlot \/ ShellElfinfo
             \/ ExecSwitch \/ ExecLoad \/ ExecSwitchBack \/ ExecSetEntry
    BY <2>4, <2>9 DEF ShellSend, SendLoad, SendStore, SendTest, ShellRecv, RecvLoad, RecvStore,
           RegisterSlot, ShellElfinfo, ExecSwitch, ExecLoad, ExecSwitchBack, ExecSetEntry,
           tableVars
  <2> QED BY <1>4, <2>3, <2>5, <2>6, <2>7, <2>8, <2>9, Zenon DEF ShellNext
<1>5. CASE Halted \/ UNCHANGED vars
  BY <1>5 DEF Halted, vars, ContextInv
<1> QED BY <1>1, <1>2, <1>3, <1>4, <1>5 DEF Next

(* Ticks, system calls, kills and exec never leave a process other than the *)
(* shell with a frame it has already returned through: whenever it gets the *)
(* CPU back it goes on where the tick or the system call stopped it.        *)
THEOREM ContextsKept == Spec => []OthersContextSaved
<1>1. Init => ContextInv
  BY DEF Init, ContextInv, Pids
<1>2. KernelInv /\ ContextInv => OthersContextSaved
  <2> SUFFICES ASSUME KernelInv, ContextInv, NEW p \in Pids \ {OnCpu, Shell}
               PROVE  FrameKept(p)
    BY DEF OthersContextSaved
  <2>1. p # cpu
    BY DEF OnCpu, Pids
  <2> QED BY <2>1 DEF ContextInv, FrameKept, Live
<1> QED BY <1>1, <1>2, StepKeepsContext, KernelInvariant, PTL DEF Spec

=============================================================================
