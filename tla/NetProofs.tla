----------------------------- MODULE NetProofs ------------------------------
(***************************************************************************)
(* The network stack for every number of hosts, addresses, cache entries,  *)
(* transmit slots and every length of the receive ring.                    *)
(***************************************************************************)
EXTENDS Net, Lemmas

(* A loop over the slots that stops at the first match finds the least.     *)
LEMMA FirstExists ==
    ASSUME NEW S, S \subseteq Nat, S # {}
    PROVE  First(S) \in S
BY LeastNumber DEF First

-----------------------------------------------------------------------------
(* The checksum. *)

(* All that the arithmetic needs to know of 2^16.                           *)
LEMMA WordIs == WORD \in Nat /\ WORD > 6000 /\ 256 * 255 + 255 = WORD - 1
BY SMT DEF WORD

(* A sum of q * 2^16 + r is folded to r + q.                                *)
LEMMA FoldIs ==
    ASSUME NEW q \in 0..8, NEW r \in 0..(WORD - 1)
    PROVE  Fold(q * WORD + r) = r + q
<1>1. (q * WORD + r) % WORD = r
  BY WordIs
<1>2. (q * WORD + r) \div WORD = q
  BY WordIs
<1> QED BY <1>1, <1>2 DEF Fold

(* What the checksum is when the loop has left f of the sum.                *)
LEMMA ChecksumIs ==
    ASSUME NEW sum, NEW f \in 0..(WORD - 1), Folded(sum) = f
    PROVE  net_checksum(sum) = WORD - 1 - f
<1>1. f % WORD = f
  BY WordIs
<1> QED BY <1>1 DEF net_checksum

(* The checksum of a header completes its sum to 0xFFFF, carries included.  *)
LEMMA FoldedComplement ==
    ASSUME NEW q \in 0..7, NEW r \in 0..(WORD - 1)
    PROVE  LET s == q * WORD + r IN ip_checksum_ok(s + net_checksum(s))
<1> DEFINE s == q * WORD + r
           t == s + net_checksum(s)
<1>1. Fold(s) = r + q /\ s \in Nat /\ (s < WORD <=> q = 0)
  BY FoldIs, WordIs
<1>2. CASE q = 0
  <2>0. Folded(s) = r
    BY <1>1, <1>2, WordIs DEF Folded
  <2>1. t = WORD - 1
    BY <1>2, <2>0, ChecksumIs, WordIs
  <2> QED BY <2>1, WordIs DEF ip_checksum_ok, Folded
<1>3. CASE q > 0 /\ r + q < WORD
  <2>0. Folded(s) = r + q /\ r + q \in 0..(WORD - 1)
    BY <1>1, <1>3, WordIs DEF Folded
  <2>1. t = q * WORD + (WORD - 1 - q)
    BY <2>0, ChecksumIs, WordIs
  <2>2. Fold(q * WORD + (WORD - 1 - q)) = WORD - 1
    <3>1. WORD - 1 - q \in 0..(WORD - 1) /\ (WORD - 1 - q) + q = WORD - 1
      BY WordIs
    <3> QED BY <3>1, FoldIs
  <2>3. t >= WORD
    BY <1>3, <2>1, WordIs
  <2> QED BY <2>1, <2>2, <2>3, WordIs DEF ip_checksum_ok, Folded
<1>4. CASE q > 0 /\ r + q >= WORD
  <2>1. Fold(Fold(s)) = r + q - WORD + 1
    <3>1. 1 * WORD + (r + q - WORD) = r + q /\ r + q - WORD \in 0..(WORD - 1)
      BY <1>4, WordIs
    <3>2. Fold(1 * WORD + (r + q - WORD)) = (r + q - WORD) + 1
      BY <3>1, FoldIs
    <3> QED BY <1>1, <3>1, <3>2
  <2>0. Folded(s) = r + q - WORD + 1 /\ r + q - WORD + 1 \in 0..(WORD - 1)
    BY <1>1, <1>4, <2>1, WordIs DEF Folded
  <2>2. t = (q + 1) * WORD + (WORD - 2 - q)
    BY <2>0, ChecksumIs, WordIs
  <2>3. Fold((q + 1) * WORD + (WORD - 2 - q)) = WORD - 1
    <3>1. q + 1 \in 0..8 /\ WORD - 2 - q \in 0..(WORD - 1)
      BY WordIs
    <3>2. (WORD - 2 - q) + (q + 1) = WORD - 1
      BY WordIs
    <3> QED BY <3>1, <3>2, FoldIs
  <2>4. t >= WORD
    BY <1>4, <2>2, WordIs
  <2> QED BY <2>2, <2>3, <2>4, WordIs DEF ip_checksum_ok, Folded
<1> QED BY <1>2, <1>3, <1>4, WordIs

AnyOctet == 0..255
AnyLength == 0..1500
AnyId == 0..(WORD - 1)
HeaderOK(sum) == ip_checksum_ok(sum + net_checksum(sum))

(* The header of ip_send for any identification, destination and length.    *)
LEMMA AnyHeaderAccepted ==
    ASSUME NEW id \in AnyId, NEW octet \in AnyOctet, NEW bytes \in AnyLength
    PROVE  HeaderOK(HeaderSum(id, octet, bytes))
<1> DEFINE sum == HeaderSum(id, octet, bytes)
<1>1. htons(id) \in 0..(WORD - 1) /\ htons(20 + bytes) \in 0..(WORD - 1)
  BY WordIs DEF htons, AnyId, AnyLength
<1>2. sum \in Nat /\ sum < 4 * WORD
  BY <1>1, WordIs DEF HeaderSum, AnyOctet
<1> HIDE DEF sum
<1> DEFINE Quotient(q) == q \in 0..7 /\ sum - q * WORD \in 0..(WORD - 1)
<1>3. Quotient(0) \/ Quotient(1) \/ Quotient(2) \/ Quotient(3)
  BY <1>2, WordIs
<1> HIDE DEF Quotient
<1>4. PICK q : Quotient(q)
  BY <1>3
<1> USE DEF Quotient
<1>5. sum = q * WORD + (sum - q * WORD)
  BY <1>2, <1>4, WordIs
<1>6. \A r \in 0..(WORD - 1) : sum = q * WORD + r => ip_checksum_ok(sum + net_checksum(sum))
  BY <1>4, FoldedComplement
<1> QED BY <1>4, <1>5, <1>6 DEF sum, HeaderOK

-----------------------------------------------------------------------------
(* Types, in the parts that one operation changes. *)

RxTypes ==
    /\ device \in {"absent", "enabled", "initialized"}
    /\ packets \subseteq [at : 0..(RX_RING_WORDS - 1), words : 1..2, frame : Arriving,
                          number : 1..RECV_BOUND]
    /\ cbr \in 0..(RX_RING_WORDS - 1) /\ received \in 0..RECV_BOUND
    /\ rx_offset \in 0..(RX_RING_WORDS + LEN_MAX - 1)

TxTypes ==
    /\ tx_buffer \in [TxSlots -> Leaving \cup {NoFrame, Junk}]
    /\ tx_cur \in TxSlots /\ tx_card \in TxSlots

ArpTypes ==
    /\ arp_cache \in [Slots -> [ip : Hosts, mac : Macs] \cup {Free}] /\ ip_id \in 0..(WORD - 1)
    /\ announced \in [Hosts -> Macs \cup {NoMac}]

TaskTypes ==
    /\ task \in {"idle", "poll", "ping"} /\ len \in 0..LEN_MAX /\ target \in Hosts \cup {NoHost}
    /\ task = "ping" => target \in Hosts
    /\ pings \in 0..PING_BOUND /\ handled \in 0..RECV_BOUND

(* TypeOK is the four together.                                             *)
LEMMA TypeParts == TypeOK <=> RxTypes /\ TxTypes /\ ArpTypes /\ TaskTypes
BY DEF TypeOK, RxTypes, TxTypes, ArpTypes, TaskTypes

(* rtl8139_init_one and the empty cache.                                    *)
LEMMA InitTypes == Init => TypeOK
<1> SUFFICES ASSUME Init PROVE RxTypes /\ TxTypes /\ ArpTypes /\ TaskTypes
  BY TypeParts
<1> USE Rtl8139Assumption, NetAssumption DEF Init, rtl8139_init_one
<1>1. RxTypes
  BY DEF RxTypes
<1>2. TxTypes
  BY DEF TxTypes, TxSlots
<1>3. ArpTypes
  BY WordIs DEF ArpTypes
<1>4. TaskTypes
  BY DEF TaskTypes
<1> QED BY <1>1, <1>2, <1>3, <1>4

(* rtl8139_send_packet fills a slot of the four and moves to the next, or   *)
(* refuses the frame.                                                       *)
LEMMA SendTypes ==
    ASSUME TxTypes, NEW frame, Sends(frame) => frame \in Leaving, rtl8139_send_packet(frame)
    PROVE  TxTypes'
<1>1. CASE Sends(frame)
  <2>1. tx_cur' \in TxSlots
    BY <1>1, Rtl8139Assumption, RingNext DEF rtl8139_send_packet, TxTypes, TxSlots
  <2> QED BY <1>1, <2>1 DEF rtl8139_send_packet, TxTypes
<1>2. CASE ~Sends(frame)
  BY <1>2 DEF rtl8139_send_packet, TxTypes
<1> QED BY <1>1, <1>2

(* A used slot of the cache holds a host and an address of its own.         *)
LEMMA SlotFacts ==
    ASSUME ArpTypes, NEW i \in Slots
    PROVE  /\ arp_cache[i] # Free
               => arp_cache[i].ip \in Hosts /\ arp_cache[i].mac \in Macs
           /\ arp_cache[i] = Free => arp_cache[i].ip = NoHost
           /\ arp_cache[i].ip \in Hosts <=> arp_cache[i] # Free
BY NetAssumption DEF ArpTypes, Free

(* The slot the loop of arp_cache_lookup stops at holds the host.           *)
LEMMA SlotOfFacts ==
    ASSUME ArpTypes, NEW h \in Hosts
    PROVE  /\ SlotOf(h) = {i \in Slots : arp_cache[i].ip = h}
           /\ SlotOf(h) # {} => First(SlotOf(h)) \in SlotOf(h)
           /\ arp_resolve(h) \in Macs \cup {NoMac}
           /\ arp_resolve(h) # NoMac => SlotOf(h) # {}
<1>1. SlotOf(h) = {i \in Slots : arp_cache[i].ip = h}
  BY SlotFacts DEF SlotOf
<1>2. SlotOf(h) # {} => First(SlotOf(h)) \in SlotOf(h)
  BY <1>1, FirstExists DEF Slots
<1>3. SlotOf(h) # {} => arp_resolve(h) \in Macs
  BY <1>1, <1>2, SlotFacts DEF arp_resolve
<1> QED BY <1>1, <1>2, <1>3 DEF arp_resolve

-----------------------------------------------------------------------------
(* The address cache. *)

(* CacheIsLatest, slot by slot.                                             *)
CacheInv ==
    /\ \A i, j \in Slots : arp_cache[i] # Free /\ arp_cache[i].ip = arp_cache[j].ip => i = j
    /\ \A i \in Slots : arp_cache[i] # Free => arp_cache[i].mac = announced[arp_cache[i].ip]
    /\ \A h \in Hosts : announced[h] # NoMac
           => (\E i \in Slots : arp_cache[i].ip = h) \/ \A i \in Slots : arp_cache[i] # Free

(* An announcement, first or repeated, into a cache with room or without.   *)
LEMMA AddKeeps ==
    ASSUME ArpTypes, CacheInv, NEW ip \in Hosts, NEW mac \in Macs, arp_cache_add(ip, mac),
           announced' = [announced EXCEPT ![ip] = mac], ip_id' = ip_id
    PROVE  ArpTypes' /\ CacheInv'
<1> DEFINE entry == [ip |-> ip, mac |-> mac]
           free == {i \in Slots : arp_cache[i] = Free}
<1>e. entry \in [ip : Hosts, mac : Macs] /\ entry # Free /\ entry.ip = ip /\ entry.mac = mac
  BY NetAssumption DEF Free
<1>a. announced' \in [Hosts -> Macs \cup {NoMac}] /\ announced'[ip] = mac
      /\ \A h \in Hosts : h # ip => announced'[h] = announced[h]
  BY DEF ArpTypes
<1>1. ASSUME NEW f \in Slots, arp_cache' = [arp_cache EXCEPT ![f] = entry],
             arp_cache[f] = Free \/ arp_cache[f].ip = ip,
             \A i \in Slots : arp_cache[i].ip = ip => i = f
      PROVE  ArpTypes' /\ CacheInv'
  <2> HIDE DEF entry
  <2>1. arp_cache'[f] = entry /\ \A i \in Slots : i # f => arp_cache'[i] = arp_cache[i]
    BY <1>1 DEF ArpTypes
  <2>2. ArpTypes'
    BY <1>1, <1>e, <1>a DEF ArpTypes
  <2>3. ASSUME NEW i \in Slots, NEW j \in Slots, arp_cache'[i] # Free,
               arp_cache'[i].ip = arp_cache'[j].ip
        PROVE  i = j
    BY <2>1, <2>3, <1>1, <1>e DEF CacheInv
  <2>4. ASSUME NEW i \in Slots, arp_cache'[i] # Free
        PROVE  arp_cache'[i].mac = announced'[arp_cache'[i].ip]
    <3>1. CASE i = f
      BY <2>1, <3>1, <1>e, <1>a
    <3>2. CASE i # f
      <4>1. arp_cache'[i] = arp_cache[i] /\ arp_cache[i].ip \in Hosts /\ arp_cache[i].ip # ip
        BY <1>1, <2>1, <2>4, <3>2, SlotFacts
      <4> QED BY <2>4, <4>1, <1>a DEF CacheInv
    <3> QED BY <3>1, <3>2
  <2>5. ASSUME NEW h \in Hosts, announced'[h] # NoMac
        PROVE  (\E i \in Slots : arp_cache'[i].ip = h) \/ \A i \in Slots : arp_cache'[i] # Free
    <3>1. CASE h = ip
      BY <1>1, <1>e, <2>1, <3>1
    <3>2. CASE h # ip /\ \E i \in Slots : arp_cache[i].ip = h
      <4>1. PICK i \in Slots : arp_cache[i].ip = h
        BY <3>2
      <4>2. i # f
        BY <1>1, <3>2, <4>1, NetAssumption DEF Free
      <4> QED BY <2>1, <4>1, <4>2
    <3>3. CASE h # ip /\ \A i \in Slots : arp_cache[i] # Free
      BY <3>3, <2>1, <1>e
    <3> QED BY <2>5, <3>1, <3>2, <3>3, <1>a DEF CacheInv
  <2> QED BY <2>2, <2>3, <2>4, <2>5 DEF CacheInv
<1>2. CASE SlotOf(ip) # {}
  <2>1. First(SlotOf(ip)) \in SlotOf(ip) /\ SlotOf(ip) = {i \in Slots : arp_cache[i].ip = ip}
    BY <1>2, SlotOfFacts
  <2>2. \A i \in Slots : arp_cache[i].ip = ip => i = First(SlotOf(ip))
    BY <2>1, SlotFacts DEF CacheInv
  <2> QED BY <1>1, <1>2, <2>1, <2>2 DEF arp_cache_add
<1>3. CASE SlotOf(ip) = {} /\ free # {}
  <2>1. First(free) \in free
    BY <1>3, FirstExists DEF Slots
  <2>2. \A i \in Slots : arp_cache[i].ip # ip
    BY <1>3, SlotOfFacts
  <2> QED BY <1>1, <1>3, <2>1, <2>2 DEF arp_cache_add
<1>4. CASE SlotOf(ip) = {} /\ free = {}
  <2>1. arp_cache' = arp_cache
    BY <1>4 DEF arp_cache_add
  <2>2. \A i \in Slots : arp_cache[i] # Free /\ arp_cache[i].ip \in Hosts \ {ip}
    BY <1>4, SlotOfFacts, SlotFacts
  <2> QED BY <2>1, <2>2, <1>a DEF ArpTypes, CacheInv
<1> QED BY <1>2, <1>3, <1>4

(* CacheInv says what arp_cache_lookup returns.                             *)
LEMMA CacheInvLatest == ArpTypes /\ CacheInv => CacheIsLatest
<1> SUFFICES ASSUME ArpTypes, CacheInv PROVE CacheIsLatest
  OBVIOUS
<1>1. ASSUME NEW h \in Hosts, SlotOf(h) # {}
      PROVE  arp_resolve(h) = announced[h] /\ announced[h] # NoMac
  <2>1. First(SlotOf(h)) \in SlotOf(h) /\ SlotOf(h) = {i \in Slots : arp_cache[i].ip = h}
    BY <1>1, SlotOfFacts
  <2>2. arp_cache[First(SlotOf(h))] # Free /\ arp_cache[First(SlotOf(h))].mac \in Macs
    BY <2>1, SlotFacts
  <2> QED BY <1>1, <2>1, <2>2, NetAssumption DEF arp_resolve, CacheInv
<1>2. ASSUME NEW h \in Hosts, SlotOf(h) = {}
      PROVE  announced[h] = NoMac \/ \A i \in Slots : arp_cache[i] # Free
  BY <1>2, SlotOfFacts DEF CacheInv
<1> QED BY <1>1, <1>2 DEF CacheIsLatest, CacheInv

-----------------------------------------------------------------------------
(* The receive ring. *)

(* As long as rx_offset is not ahead of the card, the packets between them  *)
(* are numbered in the order of their places and none was handled.  Once it *)
(* is ahead, because the card went round the ring or a wrong header was     *)
(* believed, it stays ahead for ever: rx_offset never wraps, and the card   *)
(* stops before it.                                                         *)
RxInv ==
    /\ handled <= received
    /\ \/ rx_offset > cbr
       \/ /\ rx_offset <= cbr
          /\ \A p \in packets : /\ rx_offset <= p.at /\ p.at < cbr
                                /\ handled < p.number /\ p.number <= received
          /\ \A p, q \in packets : p.at < q.at => p.number < q.number

(* The card puts a packet at cbr, wherever the ring comes round.            *)
LEMMA CardKeeps ==
    ASSUME RxTypes, RxInv, NEW frame \in Arriving, CardReceives(frame, Words(frame)),
           handled \in Nat, handled' = handled
    PROVE  RxTypes' /\ RxInv'
<1> DEFINE w == Words(frame)
           R == RX_RING_WORDS
           room == (rx_offset - cbr) % R
           new == [at |-> cbr, words |-> w, frame |-> frame, number |-> received + 1]
<1>w. w \in 1..2
  BY DEF Words
<1> HIDE DEF w
<1>r. R \in Nat /\ R > 4 /\ RECV_BOUND \in Nat
  BY Rtl8139Assumption
<1>c. received < RECV_BOUND /\ (room = 0 \/ w + 2 < room) /\ rx_offset' = rx_offset
      /\ received' = received + 1 /\ cbr' = (cbr + w + 2) % R
      /\ packets' \subseteq packets \cup {new} /\ device' = device
  BY DEF CardReceives, w
<1>t. cbr \in 0..(R - 1) /\ rx_offset \in Nat /\ received \in 0..RECV_BOUND
  BY NetAssumption, <1>r DEF RxTypes
<1>m. cbr' = IF cbr + w + 2 >= R THEN cbr + w + 2 - R ELSE cbr + w + 2
  <2> DEFINE x == cbr + w + 2
  <2>1. x \in 0..(2 * R - 1) /\ cbr' = x % R /\ R \in Nat
    BY <1>w, <1>r, <1>t, <1>c
  <2> HIDE DEF x
  <2>2. x % R = IF x >= R THEN x - R ELSE x
    BY <2>1, RingMod
  <2>3. cbr' = IF x >= R THEN x - R ELSE x
    BY <2>1, <2>2
  <2> QED BY <2>3, <1>w, <1>t, <1>r DEF x
<1>1. RxTypes'
  <2>1. new \in [at : 0..(R - 1), words : 1..2, frame : Arriving, number : 1..RECV_BOUND]
    BY <1>w, <1>r, <1>c, <1>t
  <2>2. cbr' \in 0..(R - 1) /\ received' \in 0..RECV_BOUND
    BY <1>w, <1>r, <1>c, <1>t, <1>m
  <2> QED BY <1>c, <2>1, <2>2 DEF RxTypes
<1>2. ASSUME rx_offset <= cbr, cbr' = cbr + w + 2 PROVE RxInv'
  <2>1. \A p \in packets : /\ rx_offset <= p.at /\ p.at < cbr
                           /\ handled < p.number /\ p.number <= received
    BY <1>2, <1>t DEF RxInv
  <2>2. \A p \in packets : p.at \in Nat /\ p.number \in Nat
    BY DEF RxTypes
  <2>3. ASSUME NEW p \in packets'
        PROVE  /\ rx_offset <= p.at /\ p.at < cbr'
               /\ handled < p.number /\ p.number <= received'
    <3>1. CASE p = new
      BY <3>1, <1>2, <1>w, <1>c, <1>t DEF RxInv
    <3>2. CASE p \in packets
      BY <3>2, <2>1, <2>2, <1>2, <1>w, <1>c, <1>t
    <3> QED BY <3>1, <3>2, <1>c
  <2>4. ASSUME NEW p \in packets', NEW q \in packets', p.at < q.at PROVE p.number < q.number
    <3>1. CASE p \in packets /\ q \in packets
      BY <3>1, <2>4, <1>2, <1>t DEF RxInv
    <3>2. CASE p \in packets /\ q = new
      BY <3>2, <2>1, <2>2, <1>t
    <3>3. CASE p = new
      <4>1. q = new \/ q.at < cbr
        BY <1>c, <2>1
      <4>2. q.at \in Nat
        BY <1>c, <1>t, <2>2
      <4> QED BY <3>3, <2>4, <4>1, <4>2, <1>t
    <3> QED BY <3>1, <3>2, <3>3, <1>c
  <2>5. handled' <= received' /\ rx_offset' <= cbr'
    BY <1>2, <1>w, <1>c, <1>t DEF RxInv
  <2> QED BY <2>3, <2>4, <2>5, <1>c DEF RxInv
<1>3. ASSUME rx_offset > cbr' PROVE RxInv'
  BY <1>3, <1>c, <1>t DEF RxInv
<1>4. CASE rx_offset >= R
  BY <1>1, <1>3, <1>4, <1>r, <1>t DEF RxTypes
<1>5. CASE rx_offset > cbr /\ rx_offset < R
  <2>1. room = rx_offset - cbr
    <3>1. rx_offset - cbr \in 0..(2 * R - 1) /\ rx_offset - cbr < R
      BY <1>5, <1>r, <1>t
    <3> QED BY <3>1, <1>r, RingMod
  <2>2. rx_offset > cbr'
    BY <1>5, <2>1, <1>c, <1>m, <1>w, <1>r, <1>t
  <2> QED BY <1>1, <1>3, <2>2
<1>6. CASE rx_offset = cbr
  BY <1>1, <1>2, <1>3, <1>6, <1>m, <1>w, <1>r, <1>t
<1>7. CASE rx_offset < cbr
  <2>1. room = rx_offset - cbr + R
    <3>1. rx_offset - cbr \in Int /\ -R < rx_offset - cbr /\ rx_offset - cbr < 0
      BY <1>7, <1>r, <1>t
    <3> QED BY <3>1, <1>r, RingBack
  <2> HIDE DEF room
  <2>2. cbr' = cbr + w + 2 \/ rx_offset > cbr'
    BY <1>7, <2>1, <1>c, <1>m, <1>w, <1>r, <1>t
  <2> QED BY <1>1, <1>2, <1>3, <1>7, <2>2, <1>t
<1>8. RxInv'
  BY <1>4, <1>5, <1>6, <1>7, <1>r, <1>t
<1> QED BY <1>1, <1>8

(* rtl8139_poll takes a packet of the ring, or what it believes is one.     *)
LEMMA PollKeeps ==
    ASSUME RxTypes, RxInv, handled \in 0..RECV_BOUND, len \in 0..LEN_MAX,
           NEW found \in PollFinds(len), PollTakes(found),
           handled' = IF found.number # 0 THEN found.number ELSE handled
    PROVE  /\ RxTypes' /\ RxInv'
           /\ found.words \in 0..len /\ found.frame \in Arriving \cup {Junk}
           /\ handled' # handled => handled' > handled /\ handled' <= received
           /\ handled' \in 0..RECV_BOUND
<1>r. RECV_BOUND \in Nat /\ LEN_MAX \in Nat /\ rx_offset \in Nat /\ cbr \in Nat
      /\ RX_RING_WORDS \in Nat /\ cbr <= RX_RING_WORDS - 1 /\ received \in 0..RECV_BOUND
  BY Rtl8139Assumption, NetAssumption DEF RxTypes
<1>1. rx_offset < cbr
  BY <1>r DEF PollFinds
<1>2. \A p \in packets : /\ p.at \in Nat /\ p.number \in 1..RECV_BOUND /\ p.words \in 1..2
                         /\ p.frame \in Arriving
                         /\ rx_offset <= p.at /\ handled < p.number /\ p.number <= received
  BY <1>1, <1>r DEF RxInv, RxTypes
<1>3. \/ \E p \in packets : /\ p.at = rx_offset /\ found.number = p.number
                            /\ found.frame = p.frame
                            /\ found.words = IF p.words > len THEN len ELSE p.words
      \/ found.number = 0 /\ found.frame = Junk /\ found.words \in 0..len
  BY <1>1, <1>r DEF PollFinds
<1>4. found.words \in 0..len /\ found.frame \in Arriving \cup {Junk}
  BY <1>2, <1>3, <1>r
<1>5. /\ handled' # handled => handled' > handled /\ handled' <= received
      /\ handled' \in 0..RECV_BOUND /\ handled' <= received
  BY <1>2, <1>3, <1>r DEF RxInv
<1>6. rx_offset' = rx_offset + found.words + 1 /\ rx_offset' \in Nat /\ rx_offset' > rx_offset
      /\ packets' = {p \in packets : p.at >= rx_offset'} /\ cbr' = cbr /\ received' = received
      /\ device' = device
  BY <1>4, <1>r DEF PollTakes
<1>7. RxTypes'
  <2>1. rx_offset' \in 0..(RX_RING_WORDS + LEN_MAX - 1)
    BY <1>1, <1>4, <1>6, <1>r
  <2> QED BY <1>6, <2>1 DEF RxTypes
<1>8. ASSUME rx_offset' <= cbr PROVE RxInv'
  <2>1. ASSUME NEW q \in packets'
        PROVE  /\ rx_offset' <= q.at /\ q.at < cbr
               /\ handled' < q.number /\ q.number <= received
    <3>1. q \in packets /\ q.at >= rx_offset' /\ q.at < cbr /\ q.number <= received
          /\ handled < q.number
      BY <1>1, <1>2, <1>6, <1>r DEF RxInv
    <3>2. ASSUME NEW p \in packets, p.at = rx_offset PROVE p.number < q.number
      BY <3>1, <3>2, <1>1, <1>2, <1>6, <1>r DEF RxInv
    <3> QED BY <3>1, <3>2, <1>2, <1>3, <1>6, <1>r
  <2>2. \A p, q \in packets' : p.at < q.at => p.number < q.number
    BY <1>1, <1>6, <1>r DEF RxInv
  <2> QED BY <1>5, <1>6, <1>8, <2>1, <2>2 DEF RxInv
<1>9. CASE rx_offset' > cbr
  BY <1>4, <1>5, <1>6, <1>7, <1>9 DEF RxInv
<1> QED BY <1>4, <1>5, <1>6, <1>7, <1>8, <1>9, <1>r

-----------------------------------------------------------------------------
(* The handlers. *)

SentStep ==
    \A i \in TxSlots :
        tx_buffer'[i] # tx_buffer[i] /\ tx_buffer'[i].kind \in {"echo", "echo_reply"}
            => tx_buffer'[i].mac = announced[tx_buffer'[i].to]

(* rtl8139_send_packet changes the current slot only.                       *)
LEMMA SendSent ==
    ASSUME TxTypes, NEW frame, rtl8139_send_packet(frame),
           frame.kind \in {"echo", "echo_reply"} => frame.mac = announced[frame.to]
    PROVE  SentStep
BY DEF TxTypes, rtl8139_send_packet, SentStep

(* Asking for an address sends no IP frame.                                 *)
LEMMA RequestKeeps ==
    ASSUME TxTypes, NEW h \in Hosts, arp_send_request(h)
    PROVE  TxTypes' /\ SentStep
<1> DEFINE frame == [kind |-> "arp_request", to |-> h, words |-> 1]
<1>1. frame \in Leaving /\ frame.kind \notin {"echo", "echo_reply"}
  BY DEF Leaving
<1>2. rtl8139_send_packet(frame)
  BY DEF arp_send_request
<1> HIDE DEF frame
<1> QED BY <1>1, <1>2, SendTypes, SendSent

(* ip_send addresses the frame as the cache says, or asks.                  *)
LEMMA IpSendKeeps ==
    ASSUME TxTypes, ArpTypes, CacheInv, NEW dst \in Hosts, NEW kind \in {"echo", "echo_reply"},
           NEW total \in Nat \ {0}, ip_send(dst, kind, total)
    PROVE  TxTypes' /\ SentStep /\ ip_id' \in 0..(WORD - 1)
<1>1. CASE arp_resolve(dst) = NoMac
  BY <1>1, RequestKeeps DEF ip_send, ArpTypes
<1>2. CASE arp_resolve(dst) # NoMac
  <2> DEFINE frame == [kind |-> kind, to |-> dst, mac |-> arp_resolve(dst), words |-> total]
  <2>1. arp_resolve(dst) \in Macs
    BY <1>2, SlotOfFacts
  <2>2. Sends(frame) => frame \in Leaving
    <3>1. total <= TX_BUF_WORDS => total \in 1..TX_BUF_WORDS
      BY Rtl8139Assumption
    <3> QED BY <2>1, <3>1 DEF Leaving, Sends
  <2>3. frame.mac = announced[frame.to]
    BY <1>2, SlotOfFacts, CacheInvLatest DEF CacheIsLatest
  <2>4. rtl8139_send_packet(frame) /\ ip_id' = NextId(total)
    BY <1>2 DEF ip_send
  <2>5. ip_id' \in 0..(WORD - 1)
    BY <2>4, WordIs, RingNext DEF ArpTypes, NextId
  <2> HIDE DEF frame
  <2> QED BY <2>2, <2>3, <2>4, <2>5, SendTypes, SendSent
<1> QED BY <1>1, <1>2

(* The fields of what a handler is given.                                   *)
LEMMA FrameFields ==
    ASSUME NEW f \in Arriving
    PROVE  /\ f.kind = "echo" => f.src \in Hosts
           /\ f.kind \in {"request", "reply"} => f.spa \in Hosts /\ f.sha \in Macs
<1>1. CASE f \in [kind : {"request"}, spa : Hosts, sha : Macs]
  BY <1>1
<1>2. CASE f \in [kind : {"reply"}, spa : Hosts, sha : Macs]
  BY <1>2
<1>3. CASE f \in [kind : {"echo"}, src : Hosts]
  BY <1>3
<1>4. CASE f = [kind |-> "other"]
  BY <1>4
<1> QED BY <1>1, <1>2, <1>3, <1>4, Zenon DEF Arriving

(* Whatever net_poll hands on.                                              *)
LEMMA HandleKeeps ==
    ASSUME TxTypes, ArpTypes, CacheInv, NEW arp \in Arriving, NEW words \in Nat,
           Handle(arp, words)
    PROVE  TxTypes' /\ ArpTypes' /\ CacheInv' /\ SentStep
<1>1. CASE ~Accepted(arp, words)
  <2>1. UNCHANGED <<txVars, arp_cache, announced, ip_id>>
    BY <1>1 DEF Handle
  <2>2. TxTypes' /\ SentStep
    BY <2>1 DEF TxTypes, SentStep, txVars
  <2>3. ArpTypes' /\ CacheInv'
    BY <2>1 DEF ArpTypes, CacheInv
  <2> QED BY <2>2, <2>3
<1>2. CASE Accepted(arp, words) /\ arp.kind = "echo"
  <2>1. arp.src \in Hosts /\ words \in Nat \ {0}
    BY <1>2, FrameFields DEF Accepted
  <2>2. ip_send(arp.src, "echo_reply", words) /\ UNCHANGED <<arp_cache, announced>>
    BY <1>2 DEF Handle, icmp_handle_packet
  <2>3. TxTypes' /\ SentStep /\ ip_id' \in 0..(WORD - 1)
    BY <2>1, <2>2, IpSendKeeps
  <2> QED BY <2>2, <2>3 DEF ArpTypes, CacheInv
<1>3. CASE Accepted(arp, words) /\ arp.kind # "echo"
  <2>1. arp.spa \in Hosts /\ arp.sha \in Macs /\ arp_handle_packet(arp)
        /\ arp.kind \in {"request", "reply"}
    BY <1>3, FrameFields DEF Accepted, Handle
  <2>2. ArpTypes' /\ CacheInv'
    BY <2>1, AddKeeps DEF arp_handle_packet
  <2>3. TxTypes' /\ SentStep
    <3>1. CASE arp.kind = "request"
      <4> DEFINE frame == [kind |-> "arp_reply", to |-> arp.spa, mac |-> arp.sha,
                            words |-> 1]
      <4>1. frame \in Leaving /\ frame.kind \notin {"echo", "echo_reply"}
        BY <2>1 DEF Leaving
      <4>2. rtl8139_send_packet(frame)
        BY <2>1, <3>1 DEF arp_handle_packet
      <4> HIDE DEF frame
      <4> QED BY <4>1, <4>2, SendTypes, SendSent
    <3>2. CASE arp.kind # "request"
      BY <2>1, <3>2 DEF arp_handle_packet, txVars, TxTypes, SentStep
    <3> QED BY <3>1, <3>2
  <2> QED BY <2>2, <2>3
<1> QED BY <1>1, <1>2, <1>3

-----------------------------------------------------------------------------
(* The invariant. *)

Inv == TypeOK /\ CacheInv /\ RxInv

(* The machine after rtl8139_init_one.                                      *)
LEMMA InitInv == Init => Inv
<1> SUFFICES ASSUME Init PROVE CacheInv /\ RxInv
  BY InitTypes DEF Inv
<1>1. CacheInv
  BY DEF Init, CacheInv
<1>2. RxInv
  BY DEF Init, rtl8139_init_one, RxInv
<1> QED BY <1>1, <1>2

(* Each step of the card, of the network and of the shell keeps the         *)
(* invariant and sends as announced.                                        *)
LEMMA NextInv == Inv /\ [Next]_vars => Inv' /\ SentStep
<1> SUFFICES ASSUME Inv, [Next]_vars PROVE Inv' /\ SentStep
  OBVIOUS
<1>t. RxTypes /\ TxTypes /\ ArpTypes /\ TaskTypes /\ CacheInv /\ RxInv
  BY TypeParts DEF Inv
<1>i. RxTypes' /\ TxTypes' /\ ArpTypes' /\ TaskTypes' /\ CacheInv' /\ RxInv' => Inv'
  BY TypeParts, PTL DEF Inv
<1>0. LEN_MAX \in Nat /\ PING_BOUND \in Nat /\ RECV_BOUND \in Nat
  BY NetAssumption, Rtl8139Assumption
<1>1. ASSUME NEW frame \in Arriving, CardReceives(frame, Words(frame)), UNCHANGED netVars
      PROVE  Inv' /\ SentStep
  <2>1. RxTypes' /\ RxInv'
    BY <1>t, <1>0, <1>1, CardKeeps DEF netVars, TaskTypes
  <2>2. ArpTypes' /\ TaskTypes' /\ CacheInv'
    BY <1>t, <1>1 DEF netVars, ArpTypes, TaskTypes, CacheInv
  <2>3. TxTypes' /\ SentStep
    <3>1. PICK words : tx_buffer' = Trampled(words)
      BY <1>1 DEF CardReceives
    <3>2. tx_cur' = tx_cur /\ tx_card' = tx_card
      BY <1>1 DEF CardReceives
    <3>3. /\ tx_buffer' \in [TxSlots -> Leaving \cup {NoFrame, Junk}]
          /\ \A i \in TxSlots : tx_buffer'[i] = tx_buffer[i] \/ tx_buffer'[i] = Junk
      BY <1>t, <3>1 DEF Trampled, TxTypes
    <3>4. Junk.kind \notin {"echo", "echo_reply"}
      BY DEF Junk
    <3> QED BY <1>t, <3>2, <3>3, <3>4 DEF TxTypes, SentStep
  <2> QED BY <1>i, <2>1, <2>2, <2>3
<1>2. CASE CardTransmits /\ UNCHANGED <<rxVars, netVars>>
  <2>1. TxTypes'
    BY <1>t, <1>2, Rtl8139Assumption, RingNext DEF CardTransmits, TxTypes, TxSlots
  <2>2. SentStep
    BY <1>t, <1>2 DEF CardTransmits, TxTypes, SentStep, NoFrame
  <2>3. RxTypes' /\ ArpTypes' /\ TaskTypes' /\ CacheInv' /\ RxInv' /\ handled' = handled
    BY <1>t, <1>2 DEF rxVars, netVars, RxTypes, ArpTypes, TaskTypes, CacheInv, RxInv
  <2> QED BY <1>i, <2>1, <2>2, <2>3
<1>3. CASE PollStarts \/ PollEnds
  <2>1. TaskTypes'
    BY <1>t, <1>3, <1>0 DEF PollStarts, PollEnds, TaskTypes
  <2>2. UNCHANGED <<rxVars, txVars, arp_cache, ip_id, announced, handled>>
    BY <1>3 DEF PollStarts, PollEnds
  <2>3. RxTypes' /\ RxInv'
    BY <1>t, <2>2 DEF rxVars, RxTypes, RxInv
  <2>4. TxTypes' /\ SentStep
    BY <1>t, <2>2 DEF txVars, TxTypes, SentStep
  <2>5. ArpTypes' /\ CacheInv'
    BY <1>t, <2>2 DEF ArpTypes, CacheInv
  <2> QED BY <1>i, <2>1, <2>2, <2>3, <2>4, <2>5
<1>4. CASE net_poll
  <2>1. PICK found \in PollFinds(len) :
          /\ PollTakes(found) /\ len' = found.words
          /\ \E frame \in TakenFor(found) : Handle(frame, found.words)
          /\ handled' = IF found.number # 0 THEN found.number ELSE handled
    BY <1>4 DEF net_poll
  <2>2. /\ RxTypes' /\ RxInv'
        /\ found.words \in 0..len /\ found.frame \in Arriving \cup {Junk}
        /\ handled' # handled => handled' > handled /\ handled' <= received
        /\ handled' \in 0..RECV_BOUND
    BY <1>t, <2>1, PollKeeps DEF TaskTypes
  <2>3. TxTypes' /\ ArpTypes' /\ CacheInv' /\ SentStep
    <3>1. PICK frame \in TakenFor(found) : Handle(frame, found.words)
      BY <2>1
    <3>2. frame \in Arriving
      BY <2>2, <3>1 DEF TakenFor
    <3>3. found.words \in Nat
      BY <1>t, <1>0, <2>2 DEF TaskTypes
    <3> QED BY <1>t, <3>1, <3>2, <3>3, HandleKeeps
  <2>4. TaskTypes'
    BY <1>t, <1>4, <1>0, <2>1, <2>2 DEF net_poll, TaskTypes
  <2> QED BY <1>i, <2>2, <2>3, <2>4
<1>5. ASSUME NEW h \in Hosts, PingAsks(h) PROVE Inv' /\ SentStep
  <2>1. TxTypes' /\ SentStep
    BY <1>t, <1>5, RequestKeeps DEF PingAsks
  <2>2. TaskTypes'
    BY <1>t, <1>5, <1>0 DEF PingAsks, TaskTypes
  <2>3. RxTypes' /\ ArpTypes' /\ CacheInv' /\ RxInv' /\ handled' = handled
    BY <1>t, <1>5 DEF PingAsks, rxVars, RxTypes, ArpTypes, CacheInv, RxInv
  <2> QED BY <1>i, <2>1, <2>2, <2>3
<1>6. CASE PingSends
  <2>1. TxTypes' /\ SentStep /\ ip_id' \in 0..(WORD - 1)
    BY <1>t, <1>6, IpSendKeeps DEF PingSends, icmp_send_echo, TaskTypes
  <2>2. TaskTypes'
    BY <1>t, <1>6 DEF PingSends, TaskTypes
  <2>3. RxTypes' /\ ArpTypes' /\ CacheInv' /\ RxInv' /\ handled' = handled
    BY <1>t, <1>6, <2>1 DEF PingSends, rxVars, RxTypes, ArpTypes, CacheInv, RxInv
  <2> QED BY <1>i, <2>1, <2>2, <2>3
<1>7. CASE UNCHANGED vars
  BY <1>t, <1>i, <1>7 DEF vars, rxVars, txVars, netVars, RxTypes, TxTypes, ArpTypes, TaskTypes,
                          CacheInv, RxInv, SentStep
<1> QED BY <1>1, <1>2, <1>3, <1>4, <1>5, <1>6, <1>7 DEF Next

(* Everything the theorems below use.                                       *)
LEMMA Invariant == Spec => []Inv
BY InitInv, NextInv, PTL DEF Spec

(* No index leaves the transmit slots or the cache, and rx_offset passes    *)
(* the ring's end by no more than a frame, whatever arrives.                *)
THEOREM NetTypesCorrect == Spec => []TypeOK
BY Invariant, PTL DEF Inv

(* For every cache size and every order of announcements, arp_cache_lookup  *)
(* returns the address announced last, or the cache is full.                *)
THEOREM CacheCorrect == Spec => []CacheIsLatest
<1>1. Inv => CacheIsLatest
  BY TypeParts, CacheInvLatest DEF Inv
<1> QED BY <1>1, Invariant, PTL

(* No IP frame is handed to the card with an address its destination has    *)
(* replaced.                                                                *)
THEOREM SendsAsAnnounced == Spec => SentAsAnnounced
<1>1. Inv /\ [Next]_vars => [SentStep]_vars
  BY NextInv
<1> QED BY <1>1, Invariant, PTL DEF Spec, SentAsAnnounced, SentStep

(* No packet is handled twice or before its predecessor, for every length   *)
(* of the ring and wherever the packets lie in it.                          *)
THEOREM HandlesInOrder == Spec => []HandledInOrder
<1>1. ASSUME Inv PROVE HandledInOrder
  <2> SUFFICES ASSUME NEW found \in PollFinds(LEN_MAX), found.number # 0
               PROVE  handled < found.number /\ found.number <= received
    BY DEF HandledInOrder
  <2>1. RxTypes /\ RxInv
    BY <1>1, TypeParts DEF Inv
  <2>2. ~(rx_offset >= cbr)
    BY Zenon DEF PollFinds
  <2>3. rx_offset < cbr
    BY <2>1, <2>2, Rtl8139Assumption DEF RxTypes
  <2>4. PICK p \in packets : found.number = p.number
    <3>1. \/ \E p \in packets :
                found = [words |-> IF p.words > LEN_MAX THEN LEN_MAX ELSE p.words,
                         frame |-> p.frame, number |-> p.number]
          \/ \E k \in 0..LEN_MAX : found = [words |-> k, frame |-> Junk, number |-> 0]
      BY <2>2, Zenon DEF PollFinds
    <3>2. ASSUME NEW k, found = [words |-> k, frame |-> Junk, number |-> 0] PROVE FALSE
      BY <3>2
    <3>3. ASSUME NEW p \in packets, NEW w,
                 found = [words |-> w, frame |-> p.frame, number |-> p.number]
          PROVE  found.number = p.number
      BY <3>3
    <3> QED BY <3>1, <3>2, <3>3, Zenon
  <2>5. handled < p.number /\ p.number <= received
    BY <2>1, <2>3, <2>4, Rtl8139Assumption DEF RxInv, RxTypes
  <2> QED BY <2>4, <2>5
<1> QED BY <1>1, Invariant, PTL

(* Every header ip_send builds passes the receiver's test, through the      *)
(* carries of the sum and the wrap of the identification.                   *)
THEOREM HeadersAccepted == Spec => []HeaderAccepted
<1>1. Inv => HeaderAccepted
  <2>1. Octets \subseteq AnyOctet /\ Payloads \subseteq AnyLength
    BY SMT DEF Octets, Payloads, AnyOctet, AnyLength
  <2>2. Inv => \A k \in Later : (ip_id + k) % WORD \in AnyId
    BY WordIs DEF Inv, TypeOK, AnyId, Later
  <2> QED BY <2>1, <2>2, AnyHeaderAccepted, Zenon DEF HeaderAccepted, HeaderOK
<1> QED BY <1>1, Invariant, PTL

=============================================================================
