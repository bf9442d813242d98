----------------------------- MODULE NumberFacts -----------------------------
(***************************************************************************)
(* Facts about natural numbers that the proofs rest on: remainders (a      *)
(* packet is stored in slot index % size, and two indices less than size   *)
(* apart never share a slot), and least and greatest elements of sets of   *)
(* indices, which the library gives as the well-foundedness of <.          *)
(***************************************************************************)
EXTENDS Integers, WellFoundedInduction, TLAPS

(* Division with remainder, as an existential that hides \div.             *)
LEMMA DivMod ==
  ASSUME NEW b \in Nat \ {0}, NEW i \in Nat
  PROVE  \E q \in Int : i = (b * q) + (i % b) /\ (i % b) \in 0 .. b - 1
<1>1. /\ i = (b * (i \div b)) + (i % b) /\ (i % b) \in 0 .. b - 1
      /\ (i \div b) \in Int
  OBVIOUS
<1> QED
  BY <1>1

(* A remainder is a slot.                                                  *)
LEMMA ModType ==
  ASSUME NEW b \in Nat \ {0}, NEW i \in Nat
  PROVE  i % b \in 0 .. b - 1
  OBVIOUS

(* A number below the size is its own slot.                                *)
LEMMA ModSmall ==
  ASSUME NEW b \in Nat \ {0}, NEW i \in Nat, i < b
  PROVE  i % b = i
  OBVIOUS

(* Different multiples of b are at least b apart.                          *)
LEMMA Gap ==
  ASSUME NEW b \in Nat \ {0}, NEW p \in Int, NEW q \in Int, p < q
  PROVE  (b * p) + b <= b * q
<1>1. b * (q - p) >= b
  <2> DEFINE d == q - p
  <2>1. d \in Nat /\ d >= 1
    OBVIOUS
  <2> HIDE DEF d
  <2>2. b * d >= b * 1
    BY <2>1
  <2> QED
    BY <2>2 DEF d
<1>2. b * (q - p) = (b * q) - (b * p)
  OBVIOUS
<1> QED
  BY <1>1, <1>2

(* Two indices less than b apart that share a slot are the same.           *)
LEMMA ModWindow ==
  ASSUME NEW b \in Nat \ {0}, NEW i \in Nat, NEW j \in Nat,
         i % b = j % b, i - j < b, j - i < b
  PROVE  i = j
<1>1. PICK p \in Int : i = (b * p) + (i % b) /\ (i % b) \in 0 .. b - 1
  BY DivMod
<1>2. PICK q \in Int : j = (b * q) + (j % b) /\ (j % b) \in 0 .. b - 1
  BY DivMod
<1> DEFINE x == b * p
           y == b * q
<1>3. x \in Int /\ y \in Int
  OBVIOUS
<1>4. p < q => x + b <= y
  BY Gap
<1>5. q < p => y + b <= x
  BY Gap
<1>6. i - j = x - y /\ (p = q => x = y)
  BY <1>1, <1>2
<1> HIDE DEF x, y
<1> QED
  BY <1>3, <1>4, <1>5, <1>6

(* An index and the one that overwrites it share a slot.                   *)
LEMMA ModBack ==
  ASSUME NEW b \in Nat \ {0}, NEW j \in Nat, NEW i \in Nat, i = j + b
  PROVE  i % b = j % b
<1>1. PICK q \in Int : j = (b * q) + (j % b) /\ (j % b) \in 0 .. b - 1
  BY DivMod
<1>2. PICK p \in Int : i = (b * p) + (i % b) /\ (i % b) \in 0 .. b - 1
  BY DivMod
<1> DEFINE x == b * p
           y == b * q
           z == b * (q + 1)
<1>3. x \in Int /\ y \in Int /\ z \in Int /\ z = y + b
  OBVIOUS
<1>4. p < q + 1 => x + b <= z
  BY Gap, q + 1 \in Int
<1>5. q + 1 < p => z + b <= x
  BY Gap, q + 1 \in Int
<1>6. x + (i % b) = z + (j % b) /\ (p = q + 1 => x = z)
  BY <1>1, <1>2, <1>3
<1> DEFINE r == i % b
           s == j % b
<1>7. r \in 0 .. b - 1 /\ s \in 0 .. b - 1 /\ x + r = z + s
  BY <1>1, <1>2, <1>6
<1> HIDE DEF x, y, z, r, s
<1>8. r = s
  BY <1>3, <1>4, <1>5, <1>6, <1>7
<1> QED
  BY <1>8 DEF r, s
-----------------------------------------------------------------------------
(* Every non-empty set of natural numbers has a least element.             *)
LEMMA LeastElement ==
  ASSUME NEW T \in SUBSET Nat, T # {}
  PROVE  \E x \in T : \A y \in T : x <= y
<1> DEFINE R == OpToRel(<, Nat)
<1>1. IsWellFoundedOn(R, Nat)
  BY NatLessThanWellFounded
<1>2. \A x, y \in Nat : x < y => <<x, y>> \in R
  BY DEF OpToRel
<1> HIDE DEF R
<1>3. PICK x \in T : \A y \in T : ~ (<<y, x>> \in R)
  BY <1>1, WFMin
<1>4. ASSUME NEW y \in T PROVE x <= y
  <2>1. ~ (y < x)
    BY <1>2, <1>3, Zenon
  <2> QED
    BY <2>1
<1> QED
  BY <1>4

(* Every non-empty bounded set of natural numbers has a greatest element.  *)
LEMMA GreatestElement ==
  ASSUME NEW n \in Nat, NEW S \in SUBSET (0 .. n), S # {}
  PROVE  \E x \in S : \A y \in S : y <= x
<1> DEFINE T == {m \in Nat : \A x \in S : x <= m}
<1>1. n \in T /\ T \in SUBSET Nat
  OBVIOUS
<1>2. PICK m \in T : \A y \in T : m <= y
  <2> HIDE DEF T
  <2> QED
    BY <1>1, LeastElement
<1>3. m \in S
  <2> SUFFICES ASSUME m \notin S PROVE FALSE
    OBVIOUS
  <2>1. PICK x \in S : TRUE
    OBVIOUS
  <2>2. m # 0
    BY <2>1, x \in 0 .. n, x <= m
  <2>3. m - 1 \in T
    BY <2>2
  <2> QED
    BY <1>2, <2>3
<1> QED
  BY <1>2, <1>3
=============================================================================
