-------------------------------- MODULE Ipc ---------------------------------
(***************************************************************************)
(* One message queue of ipc/ipc.cpp, the shell's, at the granularity of    *)
(* memory accesses.  The shell calls ipc_send and ipc_recv with interrupts *)
(* enabled, so a tick may come between any two of its accesses and let     *)
(* programs run; a program's ipc_send is a system call and is atomic.      *)
(* Programs own no queue, so they never receive.  The kernel is compiled   *)
(* without optimisation: q->tail, q->count++ and q->count-- are a load and *)
(* a store each (the local copy is reg).                                   *)
(***************************************************************************)
EXTENDS Integers, Sequences

CONSTANTS IPC_MAX_MSG_PER_PROC,  \* 16 in the code
          Messages

ASSUME IpcAssumption ==
    /\ IPC_MAX_MSG_PER_PROC \in Nat \ {0}
    /\ "empty" \notin Messages

VARIABLES msgs, head, tail, count,   \* struct ipc_queue
          state,                     \* TaskState of the shell
          parked,                    \* has a tick taken a BLOCKED shell off the CPU?
          pc, reg, msg,              \* the shell: position, register, message
          got,                       \* what the last ipc_recv returned
          programs                   \* is there a program that sends?

vars == <<msgs, head, tail, count, state, parked, pc, reg, msg, got, programs>>
queueVars == <<msgs, head, tail, count>>

Slots == 0..(IPC_MAX_MSG_PER_PROC - 1)
Next1(i) == (i + 1) % IPC_MAX_MSG_PER_PROC

Init ==
    /\ msgs = [i \in Slots |-> "empty"] /\ head = 0 /\ tail = 0 /\ count = 0
    /\ state = "RUNNING" /\ parked = FALSE
    /\ pc = "idle" /\ reg = 0 /\ msg = "empty"
    /\ got = "empty"
    /\ programs \in BOOLEAN

ShellAt(at) == ~parked /\ pc = at

-----------------------------------------------------------------------------
(* ipc_send, called by the shell *)

SendCheck(m) ==
    /\ ShellAt("idle")
    /\ count < IPC_MAX_MSG_PER_PROC
    /\ msg' = m
    /\ pc' = "write"
    /\ UNCHANGED <<queueVars, state, parked, reg, got, programs>>

SendWrite ==
    /\ ShellAt("write")
    /\ msgs' = [msgs EXCEPT ![tail] = msg]
    /\ pc' = "load_tail"
    /\ UNCHANGED <<head, tail, count, state, parked, reg, msg, got, programs>>

SendLoadTail ==
    /\ ShellAt("load_tail")
    /\ reg' = tail
    /\ pc' = "store_tail"
    /\ UNCHANGED <<queueVars, state, parked, msg, got, programs>>

SendStoreTail_NoWrap ==
    /\ ShellAt("store_tail")
    /\ tail' = reg + 1
    /\ pc' = "load_inc"
    /\ UNCHANGED <<msgs, head, count, state, parked, reg, msg, got, programs>>

SendStoreTail ==
    /\ ShellAt("store_tail")
    /\ tail' = Next1(reg)
    /\ pc' = "load_inc"
    /\ UNCHANGED <<msgs, head, count, state, parked, reg, msg, got, programs>>

SendLoadCount ==
    /\ ShellAt("load_inc")
    /\ reg' = count
    /\ pc' = "store_inc"
    /\ UNCHANGED <<queueVars, state, parked, msg, got, programs>>

SendStoreCount ==
    /\ ShellAt("store_inc")
    /\ count' = reg + 1
    /\ pc' = "wake"
    /\ UNCHANGED <<msgs, head, tail, state, parked, reg, msg, got, programs>>

SendWake ==
    /\ ShellAt("wake")
    /\ state' = IF state = "BLOCKED" THEN "READY" ELSE state
    /\ pc' = "idle"
    /\ UNCHANGED <<queueVars, parked, reg, msg, got, programs>>

-----------------------------------------------------------------------------
(* ipc_recv, called by the shell *)

RecvCheck ==
    /\ ShellAt("idle")
    /\ pc' = IF count = 0 THEN "block" ELSE "take"
    /\ UNCHANGED <<queueVars, state, parked, reg, msg, got, programs>>

RecvBlock ==
    /\ ShellAt("block")
    /\ state' = "BLOCKED"
    /\ pc' = "idle"
    /\ UNCHANGED <<queueVars, parked, reg, msg, got, programs>>

RecvTake ==
    /\ ShellAt("take")
    /\ msg' = msgs[head]
    /\ pc' = "advance"
    /\ UNCHANGED <<queueVars, state, parked, reg, got, programs>>

RecvAdvance_Stays ==
    /\ ShellAt("advance")
    /\ pc' = "load_dec"
    /\ UNCHANGED <<queueVars, state, parked, reg, msg, got, programs>>

RecvAdvance ==
    /\ ShellAt("advance")
    /\ head' = Next1(head)
    /\ pc' = "load_dec"
    /\ UNCHANGED <<msgs, tail, count, state, parked, reg, msg, got, programs>>

RecvLoadCount ==
    /\ ShellAt("load_dec")
    /\ reg' = count
    /\ pc' = "store_dec"
    /\ UNCHANGED <<queueVars, state, parked, msg, got, programs>>

RecvStoreCount ==
    /\ ShellAt("store_dec")
    /\ count' = reg - 1
    /\ got' = msg
    /\ pc' = "idle"
    /\ UNCHANGED <<msgs, head, tail, state, parked, reg, msg, programs>>

-----------------------------------------------------------------------------
(* syscall 7: ipc_send by a program, with interrupts off *)
ProgramSend(m) ==
    /\ programs
    /\ count < IPC_MAX_MSG_PER_PROC
    /\ msgs' = [msgs EXCEPT ![tail] = m]
    /\ tail' = Next1(tail)
    /\ count' = count + 1
    /\ state' = IF state = "BLOCKED" THEN "READY" ELSE state
    /\ parked' = (parked /\ state # "BLOCKED")
    /\ UNCHANGED <<head, pc, reg, msg, got, programs>>

(* A tick stops a BLOCKED shell until a send makes it READY.  Other ticks   *)
(* are the interleaving of the actors itself.                               *)
TickParks ==
    /\ state = "BLOCKED" /\ ~parked
    /\ parked' = TRUE
    /\ UNCHANGED <<queueVars, state, pc, reg, msg, got, programs>>

ShellNext ==
    \/ \E m \in Messages : SendCheck(m)
    \/ SendWrite \/ SendLoadTail \/ SendStoreTail
    \/ SendLoadCount \/ SendStoreCount \/ SendWake
    \/ RecvCheck \/ RecvBlock \/ RecvTake \/ RecvAdvance
    \/ RecvLoadCount \/ RecvStoreCount

ProgramNext == \E m \in Messages : ProgramSend(m)

Next == ShellNext \/ ProgramNext \/ TickParks

Spec == Init /\ [][Next]_vars

-----------------------------------------------------------------------------
(* Types.  Even when a program's send races the shell's, head and tail stay *)
(* inside the array and count overshoots its limit by one at most.          *)
TypeOK ==
    /\ msgs \in [Slots -> Messages \cup {"empty"}]
    /\ head \in Slots /\ tail \in Slots
    /\ count \in 0..(IPC_MAX_MSG_PER_PROC + 1) /\ reg \in 0..(IPC_MAX_MSG_PER_PROC + 1)
    /\ state \in {"RUNNING", "READY", "BLOCKED"}
    /\ parked \in BOOLEAN /\ programs \in BOOLEAN
    /\ pc \in {"idle", "write", "load_tail", "store_tail", "load_inc", "store_inc",
               "wake", "block", "take", "advance", "load_dec", "store_dec"}
    /\ msg \in Messages \cup {"empty"} /\ got \in Messages \cup {"empty"}

(* ipc.hpp declares IPC_MAX_MSG_PER_PROC as the most messages a process may *)
(* hold, and ipc_send refuses one more.                                     *)
QueueBounded == count \in 0..IPC_MAX_MSG_PER_PROC

(* The messages in the queue, oldest first.  Between head's advance and the *)
(* decrement of count the message being received still counts.              *)
First == IF pc \in {"load_dec", "store_dec"}
         THEN (head + IPC_MAX_MSG_PER_PROC - 1) % IPC_MAX_MSG_PER_PROC ELSE head
Queue == [i \in 1..count |-> msgs[(First + i - 1) % IPC_MAX_MSG_PER_PROC]]

F == INSTANCE Fifo WITH Capacity <- IPC_MAX_MSG_PER_PROC, Msg <- Messages,
                        NoMsg <- "empty", queue <- IF programs THEN <<>> ELSE Queue,
                        got <- IF programs THEN "empty" ELSE got

(* As long as only the shell uses the queue, ipc_send and ipc_recv are a FIFO    *)
(* queue of IPC_MAX_MSG_PER_PROC messages, however often the ring wraps.    *)
QueueIsFifo == F!Spec
=============================================================================
