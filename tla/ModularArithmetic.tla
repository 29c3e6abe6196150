------------------------- MODULE ModularArithmetic -------------------------
(***************************************************************************)
(* Facts about numbers that the proofs share: quotients and remainders, and   *)
(* induction over the naturals as a statement about sets.                    *)
(***************************************************************************)
EXTENDS Integers, WellFoundedInduction, TLAPS

\* Quotient and remainder.
LEMMA DivMod ==
    ASSUME NEW a \in Int, NEW m \in Nat \ {0}
    PROVE  /\ a \div m \in Int
           /\ a % m \in 0..(m - 1)
           /\ a = m * (a \div m) + (a % m)
OBVIOUS

\* The same with the quotient and the remainder named.
LEMMA Decompose ==
    ASSUME NEW a \in Int, NEW m \in Nat \ {0}
    PROVE  \E q \in Int : \E r \in 0..(m - 1) : a = m * q + r /\ a % m = r
<1>1. a \div m \in Int /\ a % m \in 0..(m - 1) /\ a = m * (a \div m) + (a % m)
  BY DivMod
<1>2. \E r \in 0..(m - 1) : a = m * (a \div m) + r /\ a % m = r
  BY <1>1, Zenon
<1>3. QED
  BY <1>1, <1>2, Zenon

\* Multiplication distributes over subtraction.
LEMMA Distribute ==
    ASSUME NEW m \in Int, NEW j \in Int, NEW k \in Int
    PROVE  m * (j - k) = m * j - m * k
OBVIOUS

\* The only multiple of m strictly between -m and m is zero.
LEMMA SmallMultiple ==
    ASSUME NEW m \in Nat \ {0}, NEW k \in Int, m * k < m, -m < m * k
    PROVE  k = 0
<1>1. CASE k >= 1
  <2>1. m * k >= m * 1
    BY <1>1
  <2>2. QED
    BY <2>1
<1>2. CASE k <= -1
  <2>1. m * k <= m * (-1)
    BY <1>2
  <2>2. QED
    BY <2>1
<1>3. QED
  BY <1>1, <1>2

\* Quotient and remainder are unique.
LEMMA DivModUnique ==
    ASSUME NEW a \in Int, NEW m \in Nat \ {0}, NEW k \in Int, NEW r \in 0..(m - 1),
           a = m * k + r
    PROVE  a % m = r /\ a \div m = k
<1> DEFINE j == a \div m
<1>1. j \in Int /\ a % m \in 0..(m - 1) /\ a = m * j + (a % m)
  BY DivMod
<1> HIDE DEF j
<1>2. m * (j - k) = r - (a % m)
  BY <1>1, Distribute
<1>3. j - k = 0
  BY <1>1, <1>2, SmallMultiple
<1>4. j = k
  BY <1>1, <1>3
<1>5. QED
  BY <1>1, <1>4 DEF j

\* The remainder is unique.
LEMMA ModUnique ==
    ASSUME NEW a \in Int, NEW m \in Nat \ {0}, NEW k \in Int, NEW r \in 0..(m - 1),
           a = m * k + r
    PROVE  a % m = r
BY DivModUnique

\* Every nonempty set of naturals has a least element.
LEMMA LeastElement ==
    ASSUME NEW T \in SUBSET Nat, T # {}
    PROVE  \E x \in T : \A y \in T : x <= y
<1>1. IsWellFoundedOn(OpToRel(<, Nat), Nat)
  BY NatLessThanWellFounded
<1>2. PICK x \in T : \A y \in T : ~ (<<y, x>> \in OpToRel(<, Nat))
  BY <1>1, WFMin
<1>3. \A y \in T : ~ (y < x)
  BY <1>2 DEF OpToRel
<1>4. x \in Nat /\ \A y \in T : y \in Nat
  OBVIOUS
<1>5. \A y \in T : x <= y
  BY <1>3, <1>4
<1>6. QED
  BY <1>5

\* A set of naturals that holds zero, and with a number its successor, holds all.
LEMMA HoldsEveryNumber ==
    ASSUME NEW T \in SUBSET Nat, 0 \in T, \A n \in T : n + 1 \in T
    PROVE  T = Nat
<1>1. SUFFICES ASSUME Nat \ T # {} PROVE FALSE
  OBVIOUS
<1>2. PICK x \in Nat \ T : \A y \in Nat \ T : x <= y
  BY <1>1, LeastElement
<1>3. x # 0
  OBVIOUS
<1>4. x - 1 \in Nat /\ ~(x <= x - 1) /\ (x - 1) + 1 = x
  BY <1>3
<1>5. x - 1 \in T
  BY <1>2, <1>4
<1>6. QED
  BY <1>4, <1>5
=============================================================================
