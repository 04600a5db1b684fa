---------------------------- MODULE LeastElement ----------------------------
(***************************************************************************)
(* The scans of the code that return the first index, or the lowest id, of *)
(* a set are modelled with Min; this is the fact about it they rest on.    *)
(***************************************************************************)
EXTENDS Integers, WellFoundedInduction, TLAPS

\* A set of naturals has a least element.
LEMMA LeastNat ==
    ASSUME NEW S, S \subseteq Nat, S # {}
    PROVE  \E x \in S : \A y \in S : x <= y
<1>1. \A x, y \in Nat : <<y, x>> \notin OpToRel(<, Nat) => x <= y
  BY DEF OpToRel
<1>2. \E R : IsWellFoundedOn(R, Nat) /\ \A x, y \in Nat : <<y, x>> \notin R => x <= y
  BY <1>1, NatLessThanWellFounded, Zenon
<1>3. PICK R : IsWellFoundedOn(R, Nat) /\ \A x, y \in Nat : <<y, x>> \notin R => x <= y
  BY <1>2
<1>4. \E x \in S : \A y \in S : ~(<<y, x>> \in R)
  BY <1>3, WFMin, Zenon
<1> QED
  BY <1>3, <1>4

=============================================================================
