---------------------------- MODULE MaxTheorems ----------------------------
(***************************************************************************)
(* The maximum of a set of numbers, which FiniteSetsExt defines by CHOOSE. *)
(***************************************************************************)
EXTENDS Integers, FiniteSetsExt, WellFoundedInduction, TLAPS

LEMMA MaxIsLast ==
  ASSUME NEW S, S \subseteq Nat, NEW last \in S, \A i \in S : i <= last
  PROVE  Max(S) = last
<1>1. Max(S) = CHOOSE x \in S : \A y \in S : x >= y
  BY DEF Max
<1>2. \A x \in S : (\A y \in S : x >= y) <=> x = last
  OBVIOUS
<1> QED BY <1>1, <1>2, Zenon

\* A bounded set of numbers has a last one: the least of its bounds
LEMMA HasLast ==
  ASSUME NEW n \in Nat, NEW S, S \subseteq 0 .. n, S # {}
  PROVE  Max(S) \in S /\ \A i \in S : i <= Max(S)
<1> DEFINE bounds == {m \in Nat : \A i \in S : i <= m}
           less == OpToRel(<, Nat)
<1>1. \A x, y \in Nat : x < y => <<x, y>> \in less
  BY DEF OpToRel
<1>2. n \in bounds /\ bounds \subseteq Nat /\ bounds # {}
  OBVIOUS
<1> HIDE DEF bounds, less
<1>3. IsWellFoundedOn(less, Nat)
  BY NatLessThanWellFounded DEF less
<1>4. PICK last \in bounds : \A m \in bounds : ~ (<<m, last>> \in less)
  BY <1>2, <1>3, WFMin
<1>5. last \in Nat /\ (\A i \in S : i <= last) /\ S \subseteq Nat
  BY DEF bounds
<1>6. last \in S
  <2> SUFFICES ASSUME last \notin S PROVE FALSE
    OBVIOUS
  <2>0. \A i \in S : i \in Nat /\ i <= last /\ i # last
    BY <1>5
  <2>1. (\A i \in S : i <= last - 1) /\ last - 1 \in Nat /\ last - 1 < last
    <3>1. \A i \in S : i <= last - 1
      BY <1>5, <2>0
    <3>2. PICK i \in S : TRUE
      OBVIOUS
    <3>3. last - 1 \in Nat /\ last - 1 < last
      BY <1>5, <2>0, <3>2
    <3> QED BY <3>1, <3>3
  <2>2. last - 1 \in bounds
    BY <2>1 DEF bounds
  <2>3. <<last - 1, last>> \in less
    BY <1>1, <1>5, <2>1
  <2> QED BY <1>4, <2>2, <2>3
<1>7. Max(S) = last
  BY <1>5, <1>6, MaxIsLast
<1> QED BY <1>5, <1>6, <1>7
=============================================================================
