-------------------------------- MODULE Net ---------------------------------
(***************************************************************************)
(* The network stack on top of the card: net_poll (net/net.cpp), the       *)
(* address cache (net/arp.cpp), ip_send (net/ip.cpp), the echo service     *)
(* (net/icmp.cpp) and the shell's ping.                                    *)
(*                                                                         *)
(* Three parties: the network, which may bring any frame at any time (so   *)
(* answers may be lost, late, repeated, out of order or contradictory),    *)
(* the card, and the shell's task, which polls or pings.                   *)
(***************************************************************************)
EXTENDS Rtl8139, Checksum

CONSTANTS Hosts, NoHost, Macs, NoMac,
          ARP_CACHE_SIZE,    \* 8 in the code
          LEN_MAX,           \* words of buf, in net_poll and in ip_send (1600 / 4)
          PING_BOUND         \* bound: pings typed

ASSUME NetAssumption ==
    /\ NoHost \notin Hosts /\ NoMac \notin Macs
    /\ ARP_CACHE_SIZE \in Nat \ {0} /\ PING_BOUND \in Nat
    /\ LEN_MAX \in Nat /\ TX_BUF_WORDS <= LEN_MAX

VARIABLES arp_cache, ip_id,
          task,          \* what the shell's task is doing: "idle", "poll" or "ping"
          len,           \* net_poll's len
          target,        \* the host being pinged
          pings,         \* pings typed so far
          announced,     \* the address each host announced last, in what was handled
                         \* or was taken for an announcement
          handled        \* the number of the packet handled last

netVars == <<arp_cache, ip_id, task, len, target, pings, announced, handled>>
vars == <<rxVars, txVars, netVars>>

Slots == 1..ARP_CACHE_SIZE
Free == [ip |-> NoHost, mac |-> NoMac]     \* valid = 0

(* What the network may bring: requests for the machine's own address,      *)
(* replies, echo requests.  "other" is any frame no handler accepts: a      *)
(* request for another address, a type, an operation or a protocol the      *)
(* kernel does not know, a bad checksum, an echo reply.                     *)
Arriving ==
    [kind : {"request"}, spa : Hosts, sha : Macs]
        \cup [kind : {"reply"}, spa : Hosts, sha : Macs]
        \cup [kind : {"echo"}, src : Hosts]
        \cup {[kind |-> "other"]}

Words(frame) == IF frame.kind = "echo" THEN 2 ELSE 1

(* What the kernel sends: ARP to a host, IP to a host at a hardware address.*)
Leaving ==
    [kind : {"arp_request"}, to : Hosts, words : {1}]
        \cup [kind : {"arp_reply"}, to : Hosts, mac : Macs, words : {1}]
        \cup [kind : {"echo", "echo_reply"}, to : Hosts, mac : Macs, words : 1..TX_BUF_WORDS]

Init ==
    /\ rtl8139_init_one
    /\ arp_cache = [i \in Slots |-> Free] /\ ip_id = 0
    /\ task = "idle" /\ len = 0 /\ target = NoHost /\ pings = 0
    /\ announced = [h \in Hosts |-> NoMac] /\ handled = 0

-----------------------------------------------------------------------------
(* net/arp.cpp *)

SlotOf(ip) == {i \in Slots : arp_cache[i].ip = ip /\ arp_cache[i] # Free}

First(S) == CHOOSE i \in S : \A j \in S : i <= j

(* Refreshes the entry of ip, else takes the first free slot, else gives up.*)
arp_cache_add_NoRefresh(ip, mac) ==
    LET free == {i \in Slots : arp_cache[i] = Free}
    IN  arp_cache' =
            IF free # {} /\ SlotOf(ip) = {}
            THEN [arp_cache EXCEPT ![First(free)] = [ip |-> ip, mac |-> mac]]
            ELSE arp_cache

arp_cache_add(ip, mac) ==
    LET free == {i \in Slots : arp_cache[i] = Free}
    IN  arp_cache' =
            IF SlotOf(ip) # {}
            THEN [arp_cache EXCEPT ![First(SlotOf(ip))] = [ip |-> ip, mac |-> mac]]
            ELSE IF free # {}
            THEN [arp_cache EXCEPT ![First(free)] = [ip |-> ip, mac |-> mac]]
            ELSE arp_cache

(* NoMac when arp_cache_lookup returns -1.                                  *)
arp_resolve(ip) == IF SlotOf(ip) = {} THEN NoMac ELSE arp_cache[First(SlotOf(ip))].mac

arp_send_request(ip) ==
    rtl8139_send_packet([kind |-> "arp_request", to |-> ip, words |-> 1])

arp_handle_packet(arp) ==
    /\ IF arp.kind = "request"
       THEN rtl8139_send_packet([kind |-> "arp_reply", to |-> arp.spa, mac |-> arp.sha,
                                 words |-> 1])
       ELSE UNCHANGED txVars
    /\ arp_cache_add(arp.spa, arp.sha)
    /\ announced' = [announced EXCEPT ![arp.spa] = arp.sha]
    /\ UNCHANGED ip_id

-----------------------------------------------------------------------------
(* net/ip.cpp and net/icmp.cpp *)

(* The sum of the words of the header ip_send builds, without its checksum: *)
(* version and service, length, id, ttl and protocol, 10.0.2.15, and the    *)
(* destination 10.0.2.octet.                                                *)
HeaderSum(id, octet, bytes) ==
    69 + htons(20 + bytes) + htons(id) + (64 + 256) + (10 + 2 + 15 * 256) + (10 + 2 + octet * 256)

(* An unknown host is asked for its address and the packet is dropped.  One *)
(* that fits buf takes an identification, also when the driver refuses it;  *)
(* one that does not is dropped here, and is too long for the driver too.   *)
NextId(total) ==
    IF device # "initialized" \/ total > LEN_MAX THEN ip_id ELSE (ip_id + 1) % WORD

ip_send_AnyMac(dst, kind, total) ==
    IF arp_resolve(dst) = NoMac
    THEN arp_send_request(dst) /\ UNCHANGED ip_id
    ELSE /\ rtl8139_send_packet([kind |-> kind, to |-> dst, mac |-> CHOOSE m \in Macs : TRUE,
                                 words |-> total])
         /\ ip_id' = NextId(total)

ip_send(dst, kind, total) ==
    IF arp_resolve(dst) = NoMac
    THEN arp_send_request(dst) /\ UNCHANGED ip_id
    ELSE /\ rtl8139_send_packet([kind |-> kind, to |-> dst, mac |-> arp_resolve(dst),
                                 words |-> total])
         /\ ip_id' = NextId(total)

(* The reply is as long as the request.                                     *)
icmp_handle_packet(icmp, words) ==
    ip_send(icmp.src, "echo_reply", words) /\ UNCHANGED <<arp_cache, announced>>

icmp_send_echo(dst) == ip_send(dst, "echo", 2)

-----------------------------------------------------------------------------
(* net/net.cpp and the shell *)

(* Bytes read at a wrong place are taken for whatever frame they look like. *)
TakenFor(found) == IF found.frame = Junk THEN Arriving ELSE {found.frame}

(* A frame shorter than the headers its handler reads is not handed on.     *)
Accepted(frame, words) == words >= 1 /\ frame.kind \in {"request", "reply", "echo"}

Handle(frame, words) ==
    IF ~Accepted(frame, words) THEN UNCHANGED <<txVars, arp_cache, announced, ip_id>>
    ELSE IF frame.kind = "echo" THEN icmp_handle_packet(frame, words)
    ELSE arp_handle_packet(frame)

(* shell_task_main calls net_poll, which finds a device.                    *)
PollStarts ==
    /\ task = "idle" /\ device = "initialized"
    /\ task' = "poll" /\ len' = LEN_MAX
    /\ UNCHANGED <<rxVars, txVars, arp_cache, ip_id, target, pings, announced, handled>>

(* One turn of net_poll's loop.  len is what the last poll left in it.      *)
net_poll ==
    /\ task = "poll"
    /\ \E found \in PollFinds(len) :
         /\ PollTakes(found)
         /\ \E frame \in TakenFor(found) : Handle(frame, found.words)
         /\ len' = found.words
         /\ handled' = IF found.number # 0 THEN found.number ELSE handled
    /\ UNCHANGED <<task, target, pings>>

PollEnds ==
    /\ task = "poll" /\ PollRefuses
    /\ task' = "idle" /\ len' = 0
    /\ UNCHANGED <<rxVars, txVars, arp_cache, ip_id, target, pings, announced, handled>>

(* The ping command: it asks for the address, and then sends without        *)
(* waiting for the answer.                                                  *)
PingAsks(h) ==
    /\ task = "idle" /\ pings < PING_BOUND
    /\ arp_send_request(h)
    /\ task' = "ping" /\ target' = h /\ pings' = pings + 1
    /\ UNCHANGED <<rxVars, arp_cache, ip_id, len, announced, handled>>

PingSends ==
    /\ task = "ping"
    /\ icmp_send_echo(target)
    /\ task' = "idle" /\ target' = NoHost
    /\ UNCHANGED <<rxVars, arp_cache, len, pings, announced, handled>>

Next ==
    \/ \E frame \in Arriving : CardReceives(frame, Words(frame)) /\ UNCHANGED netVars
    \/ CardTransmits /\ UNCHANGED <<rxVars, netVars>>
    \/ PollStarts \/ net_poll \/ PollEnds
    \/ \E h \in Hosts : PingAsks(h)
    \/ PingSends

Spec == Init /\ [][Next]_vars

-----------------------------------------------------------------------------
(* Properties *)

(* Types: neither side leaves its slots, the address cache its entries, nor *)
(* does rtl8139_poll ever look further behind the ring than one frame,      *)
(* although nothing takes rx_offset back.                                   *)
TypeOK ==
    /\ device \in {"absent", "enabled", "initialized"}
    /\ packets \subseteq [at : 0..(RX_RING_WORDS - 1), words : 1..2, frame : Arriving,
                          number : 1..RECV_BOUND]
    /\ cbr \in 0..(RX_RING_WORDS - 1) /\ received \in 0..RECV_BOUND
    /\ rx_offset \in 0..(RX_RING_WORDS + LEN_MAX - 1)
    /\ tx_buffer \in [TxSlots -> Leaving \cup {NoFrame, Junk}]
    /\ tx_cur \in TxSlots /\ tx_card \in TxSlots
    /\ arp_cache \in [Slots -> [ip : Hosts, mac : Macs] \cup {Free}] /\ ip_id \in 0..(WORD - 1)
    /\ task \in {"idle", "poll", "ping"} /\ len \in 0..LEN_MAX /\ target \in Hosts \cup {NoHost}
    /\ task = "ping" => target \in Hosts
    /\ pings \in 0..PING_BOUND /\ announced \in [Hosts -> Macs \cup {NoMac}]
    /\ handled \in 0..RECV_BOUND

(* arp_cache_add keeps each host in at most one slot, with the address it   *)
(* announced last whatever order the announcements came in, and no host     *)
(* that announced itself is missing unless the cache is full.  Nothing is   *)
(* ever forgotten.                                                          *)
CacheIsLatest ==
    /\ \A i, j \in Slots : arp_cache[i] # Free /\ arp_cache[i].ip = arp_cache[j].ip => i = j
    /\ \A h \in Hosts :
         \/ SlotOf(h) # {} /\ arp_resolve(h) = announced[h] /\ announced[h] # NoMac
         \/ SlotOf(h) = {} /\ (announced[h] = NoMac \/ \A i \in Slots : arp_cache[i] # Free)

(* Every IP frame the kernel hands to the card is addressed to the hardware *)
(* address its destination announced last, also when it is the late answer  *)
(* to an echo or follows a change of address.                               *)
SentAsAnnounced ==
    [][\A i \in TxSlots :
         tx_buffer'[i] # tx_buffer[i] /\ tx_buffer'[i].kind \in {"echo", "echo_reply"}
             => tx_buffer'[i].mac = announced[tx_buffer'[i].to]]_vars

(* rtl8139_poll hands each packet on at most once and in the order of their *)
(* arrival, never one the card has not finished: what it can still find is  *)
(* newer than all it has found, although packets are skipped when a         *)
(* checksum word is taken for a header, and although the ring comes round.  *)
HandledInOrder ==
    \A found \in PollFinds(LEN_MAX) :
        found.number # 0 => handled < found.number /\ found.number <= received

Octets == {1, 254}             \* bounds of HeaderAccepted: last bytes of a destination,
Payloads == {4, 32, 1500}      \* payload lengths
Later == {0, 25277, WORD - 1}  \* and packets sent before the one it looks at

(* The headers ip_send is about to build, whatever their destination and    *)
(* length, pass the test net_poll makes of the headers it receives.  Later  *)
(* reaches the wrap of ip_id, and a sum whose fold carries once more.       *)
HeaderAccepted ==
    \A octet \in Octets : \A bytes \in Payloads : \A k \in Later :
        LET sum == HeaderSum((ip_id + k) % WORD, octet, bytes)
        IN  ip_checksum_ok(sum + net_checksum(sum))
=============================================================================
