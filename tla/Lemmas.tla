------------------------------- MODULE Lemmas -------------------------------
(***************************************************************************)
(* Facts several proofs use: least numbers, sequences as functions on      *)
(* 1..n, for the refinement proofs that compare a ring of slots with the   *)
(* abstract queue of Fifo, and the arithmetic of such rings.               *)
(***************************************************************************)
EXTENDS Integers, Sequences, NaturalsInduction, SequenceTheorems,
        WellFoundedInduction, TLAPS

(* A set of numbers has a least member: a loop stops at its first match,    *)
(* and a claim about numbers that fails has a least counterexample.         *)
LEMMA LeastNumber ==
    ASSUME NEW S, S \subseteq Nat, S # {}
    PROVE  \E x \in S : \A y \in S : x <= y
<1> DEFINE R == {ss \in Nat \X Nat : ss[1] < ss[2]}
<1>1. OpToRel(<, Nat) = R
  BY Zenon DEF OpToRel
<1>2. IsWellFoundedOn(R, Nat)
  BY <1>1, NatLessThanWellFounded, Zenon
<1>3. PICK x \in S : \A y \in S : ~(<<y, x>> \in R)
  <2> HIDE DEF R
  <2> QED BY <1>2, WFMin
<1>4. ASSUME NEW y \in S PROVE x <= y
  <2>1. y < x => <<y, x>> \in R
    OBVIOUS
  <2>2. ~(y < x)
    BY <1>3, <2>1, Zenon
  <2> QED BY <2>2
<1> QED BY <1>4

(* Appending, as an accepted keyboard_buffer_push or ipc_send does.         *)
LEMMA AppendAsFunction ==
    ASSUME NEW S, NEW s \in Seq(S), NEW e \in S
    PROVE  Append(s, e) = [i \in 1..(Len(s) + 1) |-> IF i = Len(s) + 1 THEN e ELSE s[i]]
<1>1. Append(s, e) \in [1..(Len(s) + 1) -> S]
  BY AppendProperties, LenProperties
<1>2. Len(s) \in Nat
  BY LenProperties
<1>3. \A i \in 1..(Len(s) + 1) : Append(s, e)[i] = IF i = Len(s) + 1 THEN e ELSE s[i]
  BY <1>2, AppendProperties
<1> QED BY <1>1, <1>3

(* Removing the first, as keyboard_buffer_pop or ipc_recv does.             *)
LEMMA TailAsFunction ==
    ASSUME NEW S, NEW s \in Seq(S), s # <<>>
    PROVE  Tail(s) = [i \in 1..(Len(s) - 1) |-> s[i + 1]]
<1>1. Tail(s) \in [1..(Len(s) - 1) -> S]
  BY HeadTailProperties, LenProperties
<1>2. \A i \in 1..(Len(s) - 1) : Tail(s)[i] = s[i + 1]
  BY HeadTailProperties
<1> QED BY <1>1, <1>2

(* (i + 1) % n walks round the ring.                                        *)
LEMMA RingNext ==
    ASSUME NEW n \in Nat, NEW i \in 0..(n - 1)
    PROVE  (i + 1) % n = IF i + 1 = n THEN 0 ELSE i + 1
<1>1. CASE i + 1 = n
  BY <1>1
<1>2. CASE i + 1 < n
  BY <1>2
<1> QED BY <1>1, <1>2

(* x % n for an x that has gone round the ring at most once,                *)
LEMMA RingMod ==
    ASSUME NEW n \in Nat, NEW x \in 0..(2 * n - 1)
    PROVE  x % n = IF x >= n THEN x - n ELSE x
<1>1. CASE x < n
  BY <1>1
<1>2. CASE x >= n
  BY <1>2
<1> QED BY <1>1, <1>2

(* and for a distance back to a place behind.                               *)
LEMMA RingBack ==
    ASSUME NEW n \in Nat, NEW x \in Int, -n < x, x < 0
    PROVE  x % n = x + n
OBVIOUS
=============================================================================
