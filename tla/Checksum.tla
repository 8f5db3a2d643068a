------------------------------ MODULE Checksum ------------------------------
(***************************************************************************)
(* The Internet checksum of net/ip.cpp, net/icmp.cpp and net/net.cpp.  A   *)
(* header stands for the sum of its 16-bit words, which the code keeps in  *)
(* a uint32_t.                                                             *)
(***************************************************************************)
EXTENDS Integers

WORD == 65536       \* 2^16

htons(v) == (v % 256) * 256 + ((v \div 256) % 256)

Fold(sum) == (sum % WORD) + (sum \div WORD)

Folded_Once(sum) == IF sum < WORD THEN sum ELSE Fold(sum)

(* while(sum >> 16): a 32-bit sum is folded at most twice.                  *)
Folded(sum) ==
    IF sum < WORD THEN sum ELSE IF Fold(sum) < WORD THEN Fold(sum) ELSE Fold(Fold(sum))

(* ~(uint16_t)sum, over a header whose checksum is 0.                       *)
net_checksum(sum) == WORD - 1 - (Folded(sum) % WORD)

ip_checksum_ok(sum) == Folded(sum) = WORD - 1
=============================================================================
