----------------------------- MODULE LeastNumber -----------------------------
(***************************************************************************)
(* The principle of the least number. With it the proofs do without a      *)
(* theorem of induction what they have to say of every number: the least   *)
(* one for which it fails has one before it for which it does not.         *)
(***************************************************************************)
EXTENDS Integers, WellFoundedInduction, TLAPS

(* Every set of natural numbers but the empty one has a least element.     *)
LEMMA LeastElement ==
  ASSUME NEW S \in SUBSET Nat, S # {}
  PROVE  \E x \in S : \A y \in S : x <= y
<1> DEFINE less == {pair \in Nat \X Nat : pair[1] < pair[2]}
<1>1. IsWellFoundedOn(less, Nat)
  BY NatLessThanWellFounded DEF OpToRel
<1> HIDE DEF less
<1>2. PICK x \in S : \A y \in S : ~(<<y, x>> \in less)
  BY <1>1, WFMin
<1>3. ASSUME NEW y \in S PROVE x <= y
  <2>1. <<y, x>> \notin less
    BY <1>2
  <2>2. ~(y < x)
    BY <2>1 DEF less
  <2> QED
    BY <2>2
<1> QED
  BY <1>3
==============================================================================
