----------------------------- MODULE NatLemmas -----------------------------
(***************************************************************************)
(* Facts about natural numbers that the proofs of several components use.  *)
(***************************************************************************)
EXTENDS Integers, FiniteSetsExt, WellFoundedInduction, TLAPS

\* A nonempty set of natural numbers has a least element, which Min returns.
LEMMA NatMin ==
    ASSUME NEW S \in SUBSET Nat, S # {}
    PROVE  Min(S) \in S /\ \A y \in S : Min(S) <= y
<1> DEFINE R == OpToRel(<, Nat)
<1>1. IsWellFoundedOn(R, Nat)
  BY NatLessThanWellFounded
<1>2. \A x, y \in Nat : x < y => <<x, y>> \in R
  BY DEF OpToRel
<1> HIDE DEF R
<1>3. PICK x \in S : \A y \in S : ~ (<<y, x>> \in R)
  BY <1>1, WFMin
<1>4. \A y \in S : x <= y
  <2> SUFFICES ASSUME NEW y \in S PROVE x <= y
    OBVIOUS
  <2>1. x \in Nat /\ y \in Nat
    OBVIOUS
  <2>2. ~ (y < x)
    BY <1>2, <1>3, <2>1, Zenon
  <2> QED BY <2>1, <2>2
<1> QED BY <1>4 DEF Min

-----------------------------------------------------------------------------
(* Division.                                                               *)

\* A quotient of natural numbers is one.
LEMMA DivNat == ASSUME NEW a \in Nat, NEW k \in Nat \ {0} PROVE a \div k \in Nat
  OBVIOUS

\* Quotient and remainder determine the number.
LEMMA DivMod ==
    ASSUME NEW a \in Nat, NEW k \in Nat \ {0}
    PROVE  a = (a \div k) * k + (a % k) /\ a % k \in 0 .. k - 1
<1>1. a = (a \div k) * k + (a % k)
  OBVIOUS
<1>2. a % k \in 0 .. k - 1
  OBVIOUS
<1> QED BY <1>1, <1>2

\* a \div k is the number of the block of k numbers that a is in.
LEMMA DivBounds ==
    ASSUME NEW a \in Nat, NEW k \in Nat \ {0}
    PROVE  (a \div k) * k <= a /\ a < (a \div k + 1) * k
<1>1. (a \div k + 1) * k = (a \div k) * k + k
  BY DivNat
<1> QED BY <1>1, DivNat, DivMod

\* The quotient is the only number with these bounds.
LEMMA DivUnique ==
    ASSUME NEW a \in Nat, NEW k \in Nat \ {0}, NEW q \in Nat, q * k <= a, a < (q + 1) * k
    PROVE  a \div k = q
  BY DivNat, DivMod

\* Multiplication keeps the order.
LEMMA TimesMonotone ==
    ASSUME NEW q \in Nat, NEW r \in Nat, q <= r, NEW k \in Nat \ {0}
    PROVE  q * k \in Nat /\ r * k \in Nat /\ q * k <= r * k
  OBVIOUS

\* A larger quotient comes from a larger number.
LEMMA DivMonotone ==
    ASSUME NEW a \in Nat, NEW b \in Nat, NEW k \in Nat \ {0}, a \div k < b \div k
    PROVE  a < b
<1>1. (a \div k + 1) * k <= (b \div k) * k
  BY DivNat, TimesMonotone
<1>2. a < (a \div k + 1) * k /\ (b \div k) * k <= b
  BY DivBounds
<1>3. (a \div k + 1) * k \in Nat /\ (b \div k) * k \in Nat
  BY DivNat, TimesMonotone
<1> QED BY <1>1, <1>2, <1>3

\* The remainder is the only number below k that leaves a multiple of k.
LEMMA ModUnique ==
    ASSUME NEW a \in Int, NEW q \in Int, NEW k \in Nat \ {0}, NEW r \in 0 .. k - 1,
           a = q * k + r
    PROVE  a % k = r
  OBVIOUS

\* A multiple of k more leaves the same remainder.
LEMMA ModShift ==
    ASSUME NEW a \in Int, NEW q \in Int, NEW k \in Nat \ {0}
    PROVE  (a + q * k) % k = a % k
<1>1. PICK d \in Int, r \in 0 .. k - 1 : a = d * k + r
  <2>1. a = (a \div k) * k + (a % k) /\ a % k \in 0 .. k - 1 /\ a \div k \in Int
    OBVIOUS
  <2> QED BY <2>1
<1>2. a % k = r
  BY <1>1, ModUnique
<1>3. a + q * k = (d + q) * k + r
  BY <1>1
<1>4. a + q * k \in Int /\ d + q \in Int
  BY <1>1
<1>5. (a + q * k) % k = r
  BY <1>1, <1>3, <1>4, ModUnique
<1> QED BY <1>2, <1>5
=============================================================================
