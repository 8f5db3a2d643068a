------------------------- MODULE ShellSharedProofs --------------------------
(***************************************************************************)
(* The message queue of ipc/ipc.cpp for every IPC_MAX_MSG_PER_PROC, the    *)
(* cursor of terminal.cpp for every size of the screen, and the two used   *)
(* by one shell with programs in between.                                  *)
(*                                                                         *)
(* Queue: head and tail stay inside the array whatever a program's send    *)
(* does to the shell's, and a queue that only the shell uses implements    *)
(* Fifo.  Cursor: CursorReturns is not inductive; CursorInv adds how far   *)
(* row and col may be off while the shell's putchar is under way, and what *)
(* its register holds then.  A program's putchar always ends on the screen *)
(* in its row and before the end of its line, wherever it starts           *)
(* (ProgramOnScreen).                                                      *)
(***************************************************************************)
EXTENDS ShellShared, Lemmas

-----------------------------------------------------------------------------
(* The message queue *)

N == IPC_MAX_MSG_PER_PROC
Wrap(i) == IF i >= N THEN i - N ELSE i

Sending == {"write", "load_tail", "store_tail", "load_inc", "store_inc"}
Receiving == {"take", "advance", "load_dec", "store_dec"}

(* What each position of the shell's code knows although programs may send  *)
(* in between: a send began with room, so count overshoots by one at most;  *)
(* a receive began with a message, and nobody else takes it away.           *)
PcInv ==
    /\ pc \in Sending => count <= N /\ msg \in Messages
    /\ pc = "store_tail" => reg \in Slots
    /\ pc = "store_inc" => reg <= N
    /\ pc \in Receiving => count >= 1
    /\ pc = "store_dec" => reg >= 1

(* Next1 is the step round the ring.                                        *)
LEMMA Next1Wraps ==
    ASSUME NEW i \in Slots
    PROVE  Next1(i) = Wrap(i + 1) /\ Next1(i) \in Slots
BY RingNext, IpcAssumption DEF Next1, Wrap, N, Slots

(* ipc_init's queue satisfies both.                                         *)
LEMMA InitTypes == Init => TypeOK /\ PcInv
<1> SUFFICES ASSUME Init PROVE TypeOK /\ PcInv
  OBVIOUS
<1>1. msgs \in [Slots -> Messages \cup {"empty"}] /\ head \in Slots /\ tail \in Slots
  BY IpcAssumption DEF Init, Slots
<1>2. parked \in BOOLEAN /\ programs \in BOOLEAN
  BY Zenon DEF Init
<1>3. PcInv
  BY DEF Init, PcInv, Sending, Receiving
<1> QED BY <1>1, <1>2, <1>3, IpcAssumption DEF Init, TypeOK

(* Every access of the shell, every send of a program and every tick keeps  *)
(* them.                                                                    *)
LEMMA NextTypes == TypeOK /\ PcInv /\ [Next]_vars => TypeOK' /\ PcInv'
<1> SUFFICES ASSUME TypeOK, PcInv, [Next]_vars PROVE TypeOK' /\ PcInv'
  OBVIOUS
<1> USE IpcAssumption DEF TypeOK, PcInv, N, Sending, Receiving, ShellAt, queueVars
<1>1. ASSUME NEW m \in Messages, SendCheck(m) PROVE TypeOK' /\ PcInv'
  BY <1>1 DEF SendCheck
<1>2. ASSUME NEW m \in Messages, ProgramSend(m) PROVE TypeOK' /\ PcInv'
  <2>1. Next1(tail) \in Slots
    BY Next1Wraps
  <2>2. parked' \in BOOLEAN
    BY <1>2, Zenon DEF ProgramSend
  <2> QED BY <1>2, <2>1, <2>2 DEF ProgramSend
<1>3. CASE SendWrite
  BY <1>3 DEF SendWrite
<1>4. CASE SendLoadTail
  BY <1>4 DEF SendLoadTail, Slots
<1>5. CASE SendStoreTail
  <2>1. Next1(reg) \in Slots
    BY <1>5, Next1Wraps DEF SendStoreTail
  <2> QED BY <1>5, <2>1 DEF SendStoreTail
<1>6. CASE SendLoadCount
  BY <1>6 DEF SendLoadCount
<1>7. CASE SendStoreCount
  BY <1>7 DEF SendStoreCount
<1>8. CASE SendWake
  BY <1>8 DEF SendWake
<1>9. CASE RecvCheck
  BY <1>9 DEF RecvCheck
<1>10. CASE RecvBlock
  BY <1>10 DEF RecvBlock
<1>11. CASE RecvTake
  BY <1>11 DEF RecvTake
<1>12. CASE RecvAdvance
  <2>1. Next1(head) \in Slots
    BY Next1Wraps
  <2> QED BY <1>12, <2>1 DEF RecvAdvance
<1>13. CASE RecvLoadCount
  BY <1>13 DEF RecvLoadCount
<1>14. CASE RecvStoreCount
  BY <1>14 DEF RecvStoreCount
<1>15. CASE TickParks
  BY <1>15 DEF TickParks
<1>16. CASE UNCHANGED vars
  BY <1>16 DEF vars
<1> QED BY <1>1, <1>2, <1>3, <1>4, <1>5, <1>6, <1>7, <1>8, <1>9, <1>10, <1>11, <1>12,
           <1>13, <1>14, <1>15, <1>16 DEF Next, ShellNext, ProgramNext

(* No index of the ring leaves its array and count overshoots by one at     *)
(* most, even when a program's ipc_send comes between the loads and stores  *)
(* of the shell's.                                                          *)
THEOREM IpcTypesCorrect == Spec => []TypeOK
<1> QED BY InitTypes, NextTypes, PTL DEF Spec

-----------------------------------------------------------------------------
(* The refinement, for a queue that only the shell uses. *)

(* tail is count places after First, plus one between the store to tail and *)
(* the increment of count; the slot after the last message holds the one    *)
(* being sent, and msg the one being received.                              *)
RingInv ==
    /\ First \in Slots
    /\ count <= N
    /\ pc \in Sending => count < N
    /\ tail = Wrap(First + count) \/ pc \in {"load_inc", "store_inc"}
    /\ pc \in {"load_inc", "store_inc"} => tail = Wrap(Wrap(First + count) + 1)
    /\ pc \in Sending \ {"write"} => msgs[Wrap(First + count)] = msg
    /\ pc = "store_tail" => reg = tail
    /\ pc \in {"store_inc", "store_dec"} => reg = count
    /\ pc \in Receiving \ {"take"} => msg = msgs[First]

QueueInv == TypeOK /\ PcInv /\ (~programs => RingInv)

(* Between head's advance and the decrement, First is the slot head left.   *)
FirstFacts ==
    /\ First = IF pc \in {"load_dec", "store_dec"} THEN Wrap(head + N - 1) ELSE head
    /\ First \in Slots

(* It is a slot, and the one head is about to leave or has just left.       *)
LEMMA FirstIs == TypeOK => FirstFacts
<1> SUFFICES ASSUME TypeOK PROVE FirstFacts
  OBVIOUS
<1>1. head + N - 1 \in 0..(2 * N - 1) /\ N \in Nat
  BY IpcAssumption DEF TypeOK, N, Slots
<1>2. (head + N - 1) % N = Wrap(head + N - 1)
  BY <1>1, RingMod DEF Wrap
<1>3. Wrap(head + N - 1) \in Slots
  BY IpcAssumption DEF TypeOK, N, Slots, Wrap
<1> QED BY <1>2, <1>3 DEF First, FirstFacts, N, TypeOK

(* Queue without %.                                                         *)
QueueFacts ==
    /\ Queue = [i \in 1..count |-> msgs[Wrap(First + i - 1)]]
    /\ \A i \in 1..count : Wrap(First + i - 1) \in Slots
    /\ Queue \in Seq(Messages \cup {"empty"}) /\ Len(Queue) = count

(* It is a sequence of count messages, read from slots of the ring.         *)
LEMMA QueueIs == TypeOK /\ count <= N => QueueFacts
<1> SUFFICES ASSUME TypeOK, count <= N PROVE QueueFacts
  OBVIOUS
<1> count \in Nat /\ First \in Slots /\ N \in Nat
  BY FirstIs, IpcAssumption DEF TypeOK, FirstFacts, N
<1>1. ASSUME NEW i \in 1..count
      PROVE  (First + i - 1) % N = Wrap(First + i - 1) /\ Wrap(First + i - 1) \in Slots
  <2>1. First + i - 1 \in 0..(2 * N - 1)
    BY DEF Slots, N
  <2>2. (First + i - 1) % N = Wrap(First + i - 1)
    BY <2>1, RingMod DEF Wrap
  <2> QED BY <2>1, <2>2 DEF Wrap, Slots, N
<1>2. Queue = [i \in 1..count |-> msgs[Wrap(First + i - 1)]]
  BY <1>1 DEF Queue, N
<1>3. Queue \in Seq(Messages \cup {"empty"}) /\ Len(Queue) = count
  BY <1>1, <1>2 DEF TypeOK
<1> QED BY <1>1, <1>2, <1>3 DEF QueueFacts

(* First moves only when a receive ends; until then Queue is read at the    *)
(* same places.                                                             *)
LEMMA FirstStays ==
    ASSUME TypeOK, TypeOK', head' = head,
           pc \in {"load_dec", "store_dec"} <=> pc' \in {"load_dec", "store_dec"}
    PROVE  First' = First
BY DEF First

(* The shell's own steps keep the shape of the ring.                        *)
LEMMA NextRing == QueueInv /\ [Next]_vars => QueueInv'
<1> SUFFICES ASSUME QueueInv, [Next]_vars, ~programs' PROVE RingInv'
  BY NextTypes DEF QueueInv
<1>t. TypeOK /\ PcInv /\ TypeOK' /\ PcInv'
  BY NextTypes DEF QueueInv
<1>p. ~programs
  BY DEF Next, ShellNext, ProgramNext, SendCheck, ProgramSend,
        SendWrite, SendLoadTail, SendStoreTail, SendLoadCount,
         SendStoreCount, SendWake, RecvCheck, RecvBlock, RecvTake, RecvAdvance,
         RecvLoadCount, RecvStoreCount, TickParks, vars
<1>r. RingInv
  BY <1>p DEF QueueInv
<1>f. FirstFacts /\ FirstFacts'
  BY <1>t, FirstIs, PTL
<1>n. N \in Nat /\ N >= 1 /\ count \in Nat
  BY <1>t, IpcAssumption DEF N, TypeOK
<1> USE <1>t, <1>r, <1>f, <1>n DEF RingInv, FirstFacts, Sending, Receiving, ShellAt, queueVars
<1>1. ASSUME NEW m \in Messages, SendCheck(m) PROVE RingInv'
  <2>1. First' = First
    BY <1>1, FirstStays DEF SendCheck
  <2> QED BY <1>1, <2>1 DEF SendCheck, Wrap, N
<1>2. CASE SendWrite
  <2>1. First' = First
    BY <1>2, FirstStays DEF SendWrite
  <2>2. msgs'[Wrap(First + count)] = msg
    BY <1>2 DEF SendWrite, TypeOK
  <2> QED BY <1>2, <2>1, <2>2 DEF SendWrite, Wrap, N
<1>3. CASE SendLoadTail
  <2>1. First' = First
    BY <1>3, FirstStays DEF SendLoadTail
  <2> QED BY <1>3, <2>1 DEF SendLoadTail, Wrap, N
<1>4. CASE SendStoreTail
  <2>1. First' = First
    BY <1>4, FirstStays DEF SendStoreTail
  <2>2. tail' = Wrap(Wrap(First + count) + 1)
    BY <1>4, Next1Wraps DEF SendStoreTail, TypeOK
  <2> QED BY <1>4, <2>1, <2>2 DEF SendStoreTail, Wrap, N
<1>5. CASE SendLoadCount
  <2>1. First' = First
    BY <1>5, FirstStays DEF SendLoadCount
  <2> QED BY <1>5, <2>1 DEF SendLoadCount, Wrap, N
<1>6. CASE SendStoreCount
  <2>1. First' = First
    BY <1>6, FirstStays DEF SendStoreCount
  <2>2. count' = count + 1 /\ tail' = tail /\ pc' = "wake" /\ pc = "store_inc"
    BY <1>6 DEF SendStoreCount
  <2>3. Wrap(Wrap(First + count) + 1) = Wrap(First + (count + 1))
    BY <2>2 DEF Wrap, Slots, N
  <2>4. tail' = Wrap(First' + count')
    BY <2>1, <2>2, <2>3
  <2> QED BY <2>2, <2>4 DEF Wrap, N
<1>7. CASE SendWake
  <2>1. First' = First
    BY <1>7, FirstStays DEF SendWake
  <2> QED BY <1>7, <2>1 DEF SendWake, Wrap, N
<1>8. CASE RecvCheck \/ RecvBlock
  <2>1. First' = First
    BY <1>8, FirstStays DEF RecvCheck, RecvBlock
  <2> QED BY <1>8, <2>1 DEF RecvCheck, RecvBlock, Wrap, N
<1>9. CASE RecvTake
  <2>1. First' = First /\ First = head
    BY <1>9, FirstStays DEF RecvTake, First
  <2> QED BY <1>9, <2>1 DEF RecvTake, Wrap, N
<1>10. CASE RecvAdvance
  <2>1. First = head
    BY <1>10 DEF RecvAdvance, First
  <2>2. head' = Wrap(head + 1) /\ pc' = "load_dec"
    BY <1>10, Next1Wraps DEF RecvAdvance, TypeOK
  <2>3. Wrap(Wrap(head + 1) + N - 1) = head
    BY DEF TypeOK, Slots, Wrap, N
  <2>4. First' = First
    BY <2>1, <2>2, <2>3 DEF Wrap, N
  <2> QED BY <1>10, <2>4 DEF RecvAdvance, Wrap, N
<1>11. CASE RecvLoadCount
  <2>1. First' = First
    BY <1>11, FirstStays DEF RecvLoadCount
  <2> QED BY <1>11, <2>1 DEF RecvLoadCount, Wrap, N
<1>12. CASE RecvStoreCount
  <2>1. First = Wrap(head + N - 1) /\ First' = head /\ count' = count - 1 /\ tail' = tail
        /\ pc' = "idle" /\ pc = "store_dec" /\ count >= 1
    BY <1>12 DEF RecvStoreCount, PcInv, Wrap, N
  <2>2. Wrap(First + count) = Wrap(head + (count - 1))
    BY <2>1 DEF Wrap, TypeOK, Slots, N
  <2>3. tail' = Wrap(First' + count')
    BY <2>1, <2>2
  <2> QED BY <2>1, <2>3 DEF Wrap, N
<1>13. CASE TickParks \/ UNCHANGED vars
  <2>1. First' = First
    BY <1>13, FirstStays DEF TickParks, vars
  <2> QED BY <1>13, <2>1 DEF TickParks, vars, Wrap, N
<1> QED BY <1>p, <1>1, <1>2, <1>3, <1>4, <1>5, <1>6, <1>7, <1>8, <1>9, <1>10, <1>11,
           <1>12, <1>13 DEF Next, ShellNext, ProgramNext, ProgramSend

(* The increment of count is the Put: it makes the slot that was written    *)
(* before part of the queue.                                                *)
LEMMA StorePuts ==
    ASSUME QueueInv, QueueInv', ~programs, ~programs', SendStoreCount
    PROVE  Len(Queue) < N /\ Queue' = Append(Queue, msg)
<1> USE DEF QueueInv, RingInv
<1>f. FirstFacts /\ FirstFacts' /\ QueueFacts /\ QueueFacts'
  BY FirstIs, QueueIs, PTL
<1>1. count' = count + 1 /\ First' = First /\ msgs' = msgs /\ count \in Nat /\ count < N
      /\ msgs[Wrap(First + count)] = msg
  BY FirstStays DEF SendStoreCount, ShellAt, TypeOK, Sending
<1>2. Queue' = [i \in 1..(count + 1) |-> msgs[Wrap(First + i - 1)]]
  BY <1>f, <1>1 DEF QueueFacts, Wrap, N
<1>3. Append(Queue, msg)
        = [i \in 1..(count + 1) |-> IF i = count + 1 THEN msg ELSE Queue[i]]
  BY <1>f, AppendAsFunction DEF QueueFacts, TypeOK
<1>4. ASSUME NEW i \in 1..(count + 1)
      PROVE  msgs[Wrap(First + i - 1)] = IF i = count + 1 THEN msg ELSE Queue[i]
  <2>1. CASE i = count + 1
    <3>1. First + i - 1 = First + count
      BY <1>f, <1>1, <2>1 DEF FirstFacts, Slots
    <3> QED BY <1>1, <2>1, <3>1
  <2>2. CASE i \in 1..count
    BY <1>f, <1>1, <2>2 DEF QueueFacts
  <2> QED BY <1>1, <2>1, <2>2
<1> QED BY <1>f, <1>1, <1>2, <1>3, <1>4 DEF QueueFacts

(* The decrement of count is the Take: the message copied before head was   *)
(* advanced leaves the queue.                                               *)
LEMMA StoreTakes ==
    ASSUME QueueInv, QueueInv', ~programs, ~programs', RecvStoreCount
    PROVE  Queue # <<>> /\ got' = Head(Queue) /\ Queue' = Tail(Queue)
<1> USE DEF QueueInv, RingInv
<1>f. FirstFacts /\ FirstFacts' /\ QueueFacts /\ QueueFacts'
  BY FirstIs, QueueIs, PTL
<1>1. count' = count - 1 /\ count \in Nat /\ count >= 1 /\ count <= N /\ msgs' = msgs
      /\ First = Wrap(head + N - 1) /\ First' = head /\ got' = msgs[First]
  BY <1>f DEF RecvStoreCount, ShellAt, TypeOK, Receiving, PcInv, FirstFacts, Wrap, N
<1>2. Queue # <<>> /\ Head(Queue) = Queue[1]
  BY <1>f, <1>1 DEF QueueFacts
<1>3. Queue[1] = msgs[First]
  <2>1. Wrap(First + 1 - 1) = First
    BY <1>f, IpcAssumption DEF FirstFacts, Wrap, Slots, N
  <2> QED BY <1>f, <1>1, <2>1 DEF QueueFacts
<1>4. Queue' = [i \in 1..(count - 1) |-> msgs[Wrap(head + i - 1)]]
  <2>1. Queue' = [i \in 1..(count') |-> msgs'[Wrap(First' + i - 1)]]
    BY <1>f DEF QueueFacts, Wrap, N
  <2> HIDE DEF QueueInv, RingInv
  <2> QED BY <1>1, <2>1
<1>5. Tail(Queue) = [i \in 1..(count - 1) |-> Queue[i + 1]]
  BY <1>f, <1>2, TailAsFunction DEF QueueFacts
<1>6. ASSUME NEW i \in 1..(count - 1) PROVE Queue[i + 1] = msgs[Wrap(head + i - 1)]
  <2>1. i + 1 \in 1..count
    BY <1>1
  <2>2. head \in 0..(N - 1) /\ N \in Nat
    BY IpcAssumption DEF TypeOK, Slots, N
  <2>3. First = IF head = 0 THEN N - 1 ELSE head - 1
    BY <1>1, <2>2 DEF Wrap
  <2>4. Wrap(First + (i + 1) - 1) = Wrap(head + i - 1)
    BY <1>1, <2>2, <2>3 DEF Wrap
  <2> QED BY <1>f, <2>1, <2>4 DEF QueueFacts
<1> QED BY <1>1, <1>2, <1>3, <1>4, <1>5, <1>6

(* ipc_init's queue is the empty one.                                       *)
LEMMA InitFifo == Init => F!Init
<1> SUFFICES ASSUME Init PROVE F!Init
  OBVIOUS
<1>1. Queue = <<>>
  BY DEF Init, Queue
<1> QED BY <1>1 DEF Init, F!Init

(* Everything but the two stores to count leaves the messages in the queue  *)
(* alone: what is written meanwhile is the slot behind the last.            *)
LEMMA OthersStutter ==
    ASSUME QueueInv, QueueInv', ~programs, ~programs', got' = got, count' = count, First' = First,
           msgs' = msgs \/ (pc = "write" /\ msgs' = [msgs EXCEPT ![tail] = msg])
    PROVE  Queue' = Queue
<1> USE DEF QueueInv, RingInv
<1>f. FirstFacts /\ QueueFacts /\ QueueFacts'
  BY FirstIs, QueueIs, PTL
<1>1. ASSUME NEW i \in 1..count PROVE msgs'[Wrap(First + i - 1)] = msgs[Wrap(First + i - 1)]
  <2>1. CASE pc = "write" /\ msgs' = [msgs EXCEPT ![tail] = msg]
    <3>1. Wrap(First + i - 1) # tail
      BY <1>f, <2>1, IpcAssumption DEF FirstFacts, Wrap, Slots, N, TypeOK, Sending
    <3> QED BY <1>f, <2>1, <3>1 DEF QueueFacts, TypeOK
  <2> QED BY <2>1
<1> QED BY <1>f, <1>1 DEF QueueFacts, Wrap, N

(* Each step of the code is a Put, a Take or a stutter of the queue.        *)
LEMMA NextFifo == QueueInv /\ QueueInv' /\ [Next]_vars
    => [F!Next]_<<IF programs THEN <<>> ELSE Queue, IF programs THEN "empty" ELSE got>>
<1> DEFINE q == IF programs THEN <<>> ELSE Queue
           g == IF programs THEN "empty" ELSE got
<1> SUFFICES ASSUME QueueInv, QueueInv', [Next]_vars PROVE [F!Next]_<<q, g>>
  OBVIOUS
<1>p. programs' = programs
  BY DEF Next, ShellNext, ProgramNext, SendCheck, ProgramSend,
        SendWrite, SendLoadTail, SendStoreTail, SendLoadCount,
         SendStoreCount, SendWake, RecvCheck, RecvBlock, RecvTake, RecvAdvance,
         RecvLoadCount, RecvStoreCount, TickParks, vars
<1>1. CASE programs
  BY <1>p, <1>1
<1>2. CASE ~programs /\ SendStoreCount
  <2>1. Len(Queue) < N /\ Queue' = Append(Queue, msg) /\ got' = got /\ msg \in Messages
    BY <1>p, <1>2, StorePuts DEF QueueInv, PcInv, Sending, ShellAt, SendStoreCount
  <2>2. F!Put(msg)
    BY <1>p, <1>2, <2>1 DEF F!Put, N
  <2> QED BY <2>1, <2>2 DEF F!Next
<1>3. CASE ~programs /\ RecvStoreCount
  <2>1. F!Take
    BY <1>p, <1>3, StoreTakes DEF F!Take
  <2> QED BY <2>1 DEF F!Next
<1>4. CASE ~programs /\ ~SendStoreCount /\ ~RecvStoreCount
  <2>1. got' = got /\ count' = count
        /\ (msgs' = msgs \/ (pc = "write" /\ msgs' = [msgs EXCEPT ![tail] = msg]))
    BY <1>4 DEF Next, ShellNext, ProgramNext, SendCheck, ProgramSend,
        SendWrite, SendLoadTail, SendStoreTail,
         SendLoadCount, SendWake, RecvCheck, RecvBlock, RecvTake, RecvAdvance,
         RecvLoadCount, TickParks, vars, queueVars, ShellAt
  <2>2. CASE RecvAdvance
    <3>1. FirstFacts /\ FirstFacts'
      BY FirstIs, PTL DEF QueueInv
    <3>2. head' = Wrap(head + 1) /\ pc' = "load_dec" /\ First = head
      BY <2>2, Next1Wraps DEF RecvAdvance, QueueInv, TypeOK, First, ShellAt
    <3>3. Wrap(Wrap(head + 1) + N - 1) = head
      BY IpcAssumption DEF QueueInv, TypeOK, Slots, Wrap, N
    <3> QED BY <1>p, <1>4, <2>1, <3>1, <3>2, <3>3, OthersStutter DEF FirstFacts, Wrap, N
  <2>3. CASE ~RecvAdvance
    <3>1. head' = head
          /\ (pc \in {"load_dec", "store_dec"} <=> pc' \in {"load_dec", "store_dec"})
      BY <1>4, <2>3 DEF Next, ShellNext, ProgramNext, SendCheck, ProgramSend,
        SendWrite, SendLoadTail, SendStoreTail,
           SendLoadCount, SendWake, RecvCheck, RecvBlock, RecvTake,
           RecvLoadCount, TickParks, vars, queueVars, ShellAt
    <3>2. First' = First
      BY <3>1, FirstStays DEF QueueInv
    <3> QED BY <1>p, <1>4, <2>1, <3>2, OthersStutter
  <2> QED BY <2>2, <2>3
<1> QED BY <1>1, <1>2, <1>3, <1>4

(* A queue that only the shell uses is a FIFO of IPC_MAX_MSG_PER_PROC       *)
(* messages, although each of its operations is interrupted between any two *)
(* accesses and the ring wraps.                                             *)
THEOREM QueueImplementsFifo == Spec => QueueIsFifo
<1>1. Init => QueueInv
  <2> SUFFICES ASSUME Init PROVE RingInv
    BY InitTypes DEF QueueInv
  <2> QED BY IpcAssumption DEF Init, RingInv, First, Wrap, N, Slots, Sending, Receiving
<1>2. Spec => []QueueInv
  BY <1>1, NextRing, PTL DEF Spec
<1> QED BY <1>2, InitFifo, NextFifo, PTL DEF Spec, QueueIsFifo, F!Spec

-----------------------------------------------------------------------------
(* The cursor *)

CursorInv ==
    /\ row = HEIGHT => at \in {"wrap_test", "scroll_test", "scroll"}
    /\ col = WIDTH => at \in {"wrap_test", "wrap"} /\ row < HEIGHT
    /\ at \in {"newline_store", "wrap_store"} => loaded \in 0..(HEIGHT - 1)
    /\ at = "put_store" => loaded \in -1..(WIDTH - 1)
    /\ at = "back_load" => col >= 0
    /\ at = "back_store" => loaded \in 0..(WIDTH - 1)
    /\ ~writers => /\ col >= 0
                   /\ at = "back_load" => col > 0
                   /\ at = "back_store" => loaded > 0
                   /\ at = "put_store" => loaded >= 0

ScreenInv == TerminalTypeOK /\ CursorInv

(* The write system call, from any position the shell may have left: row    *)
(* and col end on the screen, but for a column that was -1 and is erased    *)
(* again.                                                                   *)
LEMMA ProgramOnScreen ==
    ASSUME NEW r \in 0..HEIGHT, NEW k \in -1..WIDTH, NEW c \in Characters
    PROVE  LET p == Scrolled(Wrapped(Moved(r, k, c)))
           IN  /\ p[1] \in 0..(HEIGHT - 1) /\ p[2] \in -1..(WIDTH - 1)
               /\ k >= 0 => p[2] >= 0
<1>1. CASE c = "newline"
  BY <1>1, TerminalAssumption DEF Scrolled, Wrapped, Moved
<1>2. CASE c = "backspace"
  BY <1>2, TerminalAssumption DEF Scrolled, Wrapped, Moved
<1>3. CASE c = "printable"
  BY <1>3, TerminalAssumption DEF Scrolled, Wrapped, Moved
<1> QED
  BY <1>1, <1>2, <1>3 DEF Characters

(* One step of the shell's putchar or of a program keeps the invariant.     *)
LEMMA NextCursor == ScreenInv /\ [TerminalNext]_terminalVars => ScreenInv'
<1> SUFFICES ASSUME ScreenInv, [TerminalNext]_terminalVars PROVE ScreenInv'
  OBVIOUS
<1> USE TerminalAssumption DEF ScreenInv, TerminalTypeOK, CursorInv, Go, Positions
<1>1. ASSUME NEW c \in Characters, PutStarts(c) PROVE ScreenInv'
  BY <1>1 DEF PutStarts
<1>2. CASE ToFirstColumn
  BY <1>2 DEF ToFirstColumn
<1>3. CASE LoadRow
  BY <1>3 DEF LoadRow
<1>4. CASE NextRow
  BY <1>4 DEF NextRow
<1>5. CASE BackTest
  BY <1>5 DEF BackTest
<1>6. CASE LoadColumn
  BY <1>6 DEF LoadColumn
<1>7. CASE BackStore
  BY <1>7 DEF BackStore
<1>8. CASE Store
  BY <1>8 DEF Store
<1>9. CASE PutStore
  BY <1>9 DEF PutStore
<1>10. CASE WrapTest
  BY <1>10 DEF WrapTest
<1>11. CASE ScrollTest
  BY <1>11 DEF ScrollTest
<1>12. CASE scroll
  BY <1>12 DEF scroll
<1>13. CASE clear
  BY <1>13 DEF clear
<1>14. ASSUME NEW c \in Characters, SysWrite(c) PROVE ScreenInv'
  <2>1. /\ row' \in 0..(HEIGHT - 1) /\ col' \in -1..(WIDTH - 1)
        /\ col >= 0 => col' >= 0
        /\ writers /\ UNCHANGED <<at, loaded, writers>>
    BY <1>14, ProgramOnScreen DEF SysWrite
  <2> QED
    BY <2>1
<1>15. CASE UNCHANGED terminalVars
  BY <1>15 DEF terminalVars
<1> QED
  BY <1>1, <1>2, <1>3, <1>4, <1>5, <1>6, <1>7, <1>8, <1>9, <1>10, <1>11, <1>12, <1>13, <1>14, <1>15
     DEF TerminalNext, putchar

LEMMA CursorInvariant == TerminalSpec => []ScreenInv
<1>1. TerminalInit => ScreenInv
  BY TerminalAssumption DEF TerminalInit, ScreenInv, TerminalTypeOK, CursorInv, Positions
<1> QED
  BY <1>1, NextCursor, PTL DEF TerminalSpec

(* terminal.cpp: row and col stay within one row and one column of the      *)
(* screen, so every store to buffer does, for every size of the screen.     *)
THEOREM TerminalTypesCorrect == TerminalSpec => []TerminalTypeOK
<1>1. ScreenInv => TerminalTypeOK
  BY DEF ScreenInv
<1> QED
  BY <1>1, CursorInvariant, PTL

(* putchar brings the cursor back to the screen, although a program may     *)
(* print between any two accesses of the shell's.                           *)
THEOREM CursorComesBack == TerminalSpec => []CursorReturns
<1>1. ScreenInv => CursorReturns
  BY TerminalAssumption DEF ScreenInv, TerminalTypeOK, CursorInv, CursorReturns
<1> QED
  BY <1>1, CursorInvariant, PTL

-----------------------------------------------------------------------------
(* Both together *)

(* A shell that is in one call at a time uses each of the two as it would   *)
(* alone, and so do the programs: every step is one of the queue that       *)
(* leaves the cursor, or one of the cursor that leaves the queue.           *)
LEMMA SharedIsBoth == SharedSpec => Spec /\ TerminalSpec
<1>1. SharedInit => Init /\ TerminalInit
  BY DEF SharedInit
<1>2. [SharedNext]_<<vars, terminalVars>> => [Next]_vars /\ [TerminalNext]_terminalVars
  BY DEF SharedNext, Next, TerminalNext
<1> QED BY <1>1, <1>2, PTL DEF SharedSpec, Spec, TerminalSpec

(* ipc_send and ipc_recv, between characters the shell prints and with      *)
(* programs that send and print: no index leaves msgs.                      *)
THEOREM SharedTypesCorrect == SharedSpec => []TypeOK
BY SharedIsBoth, IpcTypesCorrect, PTL

(* putchar, between messages the shell sends and receives and with programs *)
(* that send and print: the cursor comes back to the screen.                *)
THEOREM SharedCursorComesBack == SharedSpec => []CursorReturns
BY SharedIsBoth, CursorComesBack, PTL

(* With the shell printing in between, a queue that only the shell uses is  *)
(* still a FIFO.                                                            *)
THEOREM SharedQueueIsFifo == SharedSpec => QueueIsFifo
BY SharedIsBoth, QueueImplementsFifo, PTL
=============================================================================
