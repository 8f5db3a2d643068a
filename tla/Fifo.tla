-------------------------------- MODULE Fifo --------------------------------
(***************************************************************************)
(* What a kernel queue promises: messages come out once, in the order they *)
(* were accepted, and a message that finds the queue full is not accepted. *)
(* The keyboard ring (drivers/keyboard_buffer.cpp) and the message queues  *)
(* (ipc/ipc.cpp) are shown to implement it.                                *)
(***************************************************************************)
EXTENDS Integers, Sequences

CONSTANTS Capacity, Msg, NoMsg

VARIABLES queue, got   \* got: the message handed out last

Init == queue = <<>> /\ got = NoMsg

Put(m) ==
    /\ Len(queue) < Capacity
    /\ queue' = Append(queue, m)
    /\ UNCHANGED got

Take ==
    /\ queue # <<>>
    /\ got' = Head(queue)
    /\ queue' = Tail(queue)

Next == Take \/ \E m \in Msg : Put(m)

Spec == Init /\ [][Next]_<<queue, got>>
=============================================================================
