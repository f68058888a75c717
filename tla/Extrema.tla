------------------------------ MODULE Extrema -------------------------------
(***************************************************************************)
(* A set of natural numbers has a least member, and a greatest one if it   *)
(* has a bound: what the proofs need of CHOOSE.                            *)
(***************************************************************************)
EXTENDS Integers, WellFoundedInduction, TLAPS

\* < on the natural numbers is well-founded.
LEMMA LeastMember ==
    ASSUME NEW S, S \subseteq Nat, S # {}
    PROVE  \E i \in S : \A k \in S : i <= k
<1> DEFINE Before == OpToRel(<, Nat)
<1>1. IsWellFoundedOn(Before, Nat)
  BY NatLessThanWellFounded
<1>2. \A i, k \in Nat : <<k, i>> \in Before <=> k < i
  BY DEF OpToRel
<1> HIDE DEF Before
<1>3. PICK i \in S : \A k \in S : ~(<<k, i>> \in Before)
  BY <1>1, WFMin
<1>4. ASSUME NEW k \in S PROVE i <= k
  <2>1. i \in Nat /\ k \in Nat
    OBVIOUS
  <2>2. ~(k < i)
    BY <1>2, <1>3, <2>1
  <2> QED
    BY <2>1, <2>2
<1> QED
  BY <1>4

\* The greatest member is the least one counted from the bound.
LEMMA GreatestMember ==
    ASSUME NEW N \in Nat, NEW S, S \subseteq 0..N, S # {}
    PROVE  \E i \in S : \A k \in S : k <= i
<1> DEFINE Mirror == {N - i : i \in S}
<1>1. Mirror \subseteq Nat
  OBVIOUS
<1>2. Mirror # {}
  <2>1. PICK i \in S : TRUE
    OBVIOUS
  <2>2. N - i \in Mirror
    BY <2>1
  <2> QED
    BY <2>2
<1>3. PICK m \in Mirror : \A k \in Mirror : m <= k
  BY <1>1, <1>2, LeastMember
<1>4. PICK i \in S : m = N - i
  BY <1>3
<1>5. ASSUME NEW k \in S PROVE k <= i
  <2>1. m <= N - k
    BY <1>3
  <2>2. i \in 0..N /\ k \in 0..N
    OBVIOUS
  <2> QED
    BY <1>4, <2>1, <2>2
<1> QED
  BY <1>5
=============================================================================
