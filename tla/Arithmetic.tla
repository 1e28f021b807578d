----------------------------- MODULE Arithmetic -----------------------------
(* Products and quotients of integers: the steps of the proofs that are out of *)
(* reach of the provers when they meet them inside something else.             *)
EXTENDS Integers, TLAPS

\* A product with a natural number grows with its factor.
LEMMA Monotone ==
    ASSUME NEW a \in Int, NEW b \in Int, NEW c \in Nat, a <= b
    PROVE  a * c <= b * c
<1>1. b - a \in Nat
  OBVIOUS
<1>2. (b - a) * c \in Nat
  BY <1>1
<1>3. (b - a) * c = b * c - a * c /\ a * c \in Int /\ b * c \in Int
  OBVIOUS
<1> QED
  BY <1>2, <1>3

\* A product with a positive number orders its factors.
LEMMA Cancel ==
    ASSUME NEW a \in Int, NEW b \in Int, NEW c \in Nat, c > 0
    PROVE  /\ a * c <= b * c => a <= b
           /\ a * c < b * c => a < b
<1>1. ASSUME b < a PROVE b * c + c <= a * c
  <2>1. (b + 1) * c <= a * c
    BY <1>1, Monotone
  <2>2. (b + 1) * c = b * c + c
    OBVIOUS
  <2> QED
    BY <2>1, <2>2
<1>2. ASSUME b = a PROVE b * c = a * c
  BY <1>2
<1>3. a * c \in Int /\ b * c \in Int
  OBVIOUS
<1> QED
  BY <1>1, <1>2, <1>3

\* The quotient of natural numbers, by what it is.
LEMMA QuotientIs ==
    ASSUME NEW a \in Nat, NEW b \in Nat, b > 0
    PROVE  /\ a \div b \in Nat
           /\ (a \div b) * b <= a
           /\ a < (a \div b) * b + b
<1>1. a \div b \in Nat
  BY SMT
<1>2. b * (a \div b) <= a /\ a < b * (a \div b) + b
  BY SMT
<1> QED
  BY <1>1, <1>2

\* A quotient between two multiples of the divisor.
LEMMA QuotientBetween ==
    ASSUME NEW a \in Nat, NEW b \in Nat, b > 0,
           NEW low \in Int, NEW high \in Int, low * b <= a, a < (high + 1) * b
    PROVE  a \div b \in low .. high
<1> DEFINE q == a \div b
<1>1. q \in Nat /\ q * b <= a /\ a < q * b + b
  BY QuotientIs
<1> HIDE DEF q
<1>2. (q + 1) * b = q * b + b /\ q * b \in Int /\ (q + 1) * b \in Int
      /\ low * b \in Int /\ (high + 1) * b \in Int
  BY <1>1
<1>3. low < q + 1
  BY <1>1, <1>2, Cancel
<1>4. q < high + 1
  BY <1>1, <1>2, Cancel
<1> QED
  BY <1>1, <1>3, <1>4 DEF q
=============================================================================
