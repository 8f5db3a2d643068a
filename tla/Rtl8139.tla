------------------------------ MODULE Rtl8139 -------------------------------
(***************************************************************************)
(* The network card and its driver, drivers/rtl8139.cpp: the receive ring, *)
(* which the card fills by itself while the driver polls, and the transmit *)
(* slots, which the driver fills while the card empties them.              *)
(*                                                                         *)
(* A word is four bytes, and a packet in the ring is a header word, the    *)
(* words of the frame and the word of its checksum, at which the card      *)
(* aligns the next one.  A frame's size is what the protocols can tell     *)
(* apart: one word is enough for the headers they look at.  kmalloc puts   *)
(* the transmit buffers right behind rx_buffer, where the card takes the   *)
(* memory for its ring's; the other blocks of the heap it may hit there    *)
(* are not modelled.                                                       *)
(***************************************************************************)
EXTENDS Integers

CONSTANTS RX_BUF_WORDS,    \* words of rx_buffer ((8192 + 16) / 4 in the code)
          RX_RING_WORDS,   \* length of the ring the card is told (4096 words)
          TX_SLOTS,        \* transmit descriptors (4)
          TX_BUF_WORDS,    \* words of a tx_buffer (1536 / 4)
          RECV_BOUND       \* bound: packets the card receives

ASSUME Rtl8139Assumption ==
    /\ RX_BUF_WORDS \in Nat \ {0} /\ RX_RING_WORDS \in Nat /\ RX_RING_WORDS > 4
    /\ TX_SLOTS \in Nat \ {0} /\ TX_BUF_WORDS \in Nat \ {0} /\ RECV_BOUND \in Nat

VARIABLES device,           \* how far rtl8139_init_one got; never changes
          packets,          \* the packets in the ring that rx_offset has not passed
          cbr,              \* where the card writes next
          received,         \* packets received so far; each has its number
          rx_offset,        \* where the driver reads next
          tx_buffer,        \* what the card has still to send
          tx_cur,
          tx_card           \* the slot the card sends next

rxVars == <<device, packets, cbr, received, rx_offset>>
txVars == <<tx_buffer, tx_cur, tx_card>>

NoFrame == [kind |-> "none"]
Junk == [kind |-> "junk"]       \* bytes that are no frame
TxSlots == 0..(TX_SLOTS - 1)

(* Without an address, without an answer to the reset or without memory for *)
(* rx_buffer the card is left alone, as if there were none.  Without memory *)
(* for the transmit buffers it has been enabled already, and goes on        *)
(* receiving into a buffer that is freed, with no device to poll it.        *)
rtl8139_init_one ==
    /\ device \in {"absent", "enabled", "initialized"}
    /\ packets = {} /\ cbr = 0 /\ received = 0 /\ rx_offset = 0
    /\ tx_buffer = [i \in TxSlots |-> NoFrame] /\ tx_cur = 0 /\ tx_card = 0

-----------------------------------------------------------------------------
(* Receive *)

Extent(p) == {(p.at + i) % RX_RING_WORDS : i \in 0..(p.words + 1)}

(* The words of the ring that frame lies in, in the buffer of slot i.       *)
InSlot(i, frame) == {RX_BUF_WORDS + i * TX_BUF_WORDS + k : k \in 0..(frame.words - 1)}

(* The frames that wait in the slots, after the card has written to words.  *)
Trampled(words) ==
    [i \in TxSlots |->
        IF tx_buffer[i] \notin {NoFrame, Junk} /\ InSlot(i, tx_buffer[i]) \cap words # {}
        THEN Junk ELSE tx_buffer[i]]

(* The card reads CAPR, which the driver sets from rx_offset, and drops     *)
(* what would reach it.  Old packets are overwritten as the ring comes      *)
(* round, and so are frames that wait to be sent.                           *)
CardReceives(frame, words) ==
    LET room == (rx_offset - cbr) % RX_RING_WORDS
        new == [at |-> cbr, words |-> words, frame |-> frame, number |-> received + 1]
    IN  /\ device # "absent" /\ received < RECV_BOUND
        /\ room = 0 \/ words + 2 < room
        /\ packets' = {p \in packets : Extent(p) \cap Extent(new) = {}}
                          \cup {p \in {new} : p.at >= rx_offset}
        /\ cbr' = (cbr + words + 2) % RX_RING_WORDS
        /\ received' = received + 1
        /\ tx_buffer' = Trampled(Extent(new))
        /\ UNCHANGED <<device, rx_offset, tx_cur, tx_card>>

(* The part of the ring behind rx_buffer belongs to others.                 *)
InBuffer(p) == p.at + p.words + 2 <= RX_BUF_WORDS

(* What rtl8139_poll may find at rx_offset for a caller with room for len   *)
(* words; nothing when it returns 0.  A word that is no header is read as   *)
(* any header, and what follows it as any bytes.                            *)
PollFinds(len) ==
    LET here == {p \in packets : p.at = rx_offset}
    IN  IF rx_offset >= cbr THEN {}
        ELSE {[words |-> IF p.words > len THEN len ELSE p.words, frame |-> p.frame,
               number |-> p.number] : p \in here}
             \cup IF \E p \in here : InBuffer(p) THEN {}
                  ELSE {[words |-> k, frame |-> Junk, number |-> 0] : k \in 0..len}

(* rtl8139_poll returns 0: nothing there, or a header it does not accept.   *)
PollRefuses == rx_offset >= cbr \/ ~\E p \in packets : p.at = rx_offset /\ InBuffer(p)

(* rtl8139_poll returns what it found: past the header and the bytes copied.*)
PollTakes_Stays(found) == UNCHANGED rxVars

PollTakes(found) ==
    /\ rx_offset' = rx_offset + found.words + 1
    /\ packets' = {p \in packets : p.at >= rx_offset'}
    /\ UNCHANGED <<device, cbr, received>>

-----------------------------------------------------------------------------
(* Transmit *)

(* There is a card, and the frame is not too long.                          *)
Sends(frame) == device = "initialized" /\ frame.words <= TX_BUF_WORDS

rtl8139_send_packet_NoWrap(frame) ==
    /\ tx_buffer' = IF Sends(frame) THEN [tx_buffer EXCEPT ![tx_cur] = frame] ELSE tx_buffer
    /\ tx_cur' = IF Sends(frame) THEN tx_cur + 1 ELSE tx_cur
    /\ UNCHANGED tx_card

(* Nothing asks the card whether it has sent what the slot holds.           *)
rtl8139_send_packet(frame) ==
    /\ tx_buffer' = IF Sends(frame) THEN [tx_buffer EXCEPT ![tx_cur] = frame] ELSE tx_buffer
    /\ tx_cur' = IF Sends(frame) THEN (tx_cur + 1) % TX_SLOTS ELSE tx_cur
    /\ UNCHANGED tx_card

CardTransmits ==
    /\ tx_buffer[tx_card] # NoFrame
    /\ tx_buffer' = [tx_buffer EXCEPT ![tx_card] = NoFrame]
    /\ tx_card' = (tx_card + 1) % TX_SLOTS
    /\ UNCHANGED tx_cur
=============================================================================
