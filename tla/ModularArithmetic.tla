------------------------- MODULE ModularArithmetic -------------------------
(***************************************************************************)
(* Lemmas about % with a divisor that is a constant of the specification.    *)
(* The ring index, the offset in a buffer and the position in a S/PDIF block *)
(* of source/main.c are all counters reduced this way.                      *)
(***************************************************************************)
EXTENDS Integers, TLAPS

\* What \div and % are.
LEMMA Division ==
  ASSUME NEW x \in Nat, NEW d \in Nat \ {0}
  PROVE  /\ x = d * (x \div d) + (x % d)
         /\ x \div d \in Nat
         /\ x % d \in 0 .. d - 1
OBVIOUS

\* Multiples of d are at least d apart.
LEMMA MultiplesApart ==
  ASSUME NEW d \in Nat, NEW p \in Int, NEW q \in Int, p < q
  PROVE  d * p + d <= d * q
<1>1. d * (q - p - 1) >= 0  OBVIOUS
<1>2. d * (q - p - 1) = d * q - d * p - d  OBVIOUS
<1> QED  BY <1>1, <1>2

\* Quotient and remainder are determined by x = d * q + r.
LEMMA RemainderUnique ==
  ASSUME NEW d \in Nat \ {0}, NEW q \in Int, NEW r \in 0 .. d - 1,
         NEW x \in Nat, x = d * q + r
  PROVE  x % d = r
<1> DEFINE s == x \div d
           t == x % d
<1>1. x = d * s + t /\ s \in Nat /\ t \in 0 .. d - 1  BY Division
<1> HIDE DEF s, t
<1>2. CASE s < q
  <2>1. d * s + d <= d * q  BY <1>1, <1>2, MultiplesApart
  <2> QED  BY <2>1, <1>1
<1>3. CASE q < s
  <2>1. d * q + d <= d * s  BY <1>1, <1>3, MultiplesApart
  <2> QED  BY <2>1, <1>1
<1>4. CASE q = s  BY <1>1, <1>4 DEF t
<1> QED  BY <1>1, <1>2, <1>3, <1>4

\* A number below the divisor is its own remainder.
LEMMA RemainderSmall ==
  ASSUME NEW d \in Nat \ {0}, NEW x \in 0 .. d - 1
  PROVE  x % d = x
OBVIOUS

\* One more: the remainder goes up by one or back to zero.
LEMMA RemainderSucc ==
  ASSUME NEW x \in Nat, NEW d \in Nat \ {0}
  PROVE  (x + 1) % d = IF x % d = d - 1 THEN 0 ELSE (x % d) + 1
<1> DEFINE q == x \div d
           r == x % d
<1>1. x = d * q + r /\ q \in Nat /\ r \in 0 .. d - 1  BY Division
<1> HIDE DEF q, r
<1>2. CASE r = d - 1
  <2>1. x + 1 = d * (q + 1) + 0  BY <1>1, <1>2
  <2>2. (x + 1) % d = 0  BY <2>1, <1>1, RemainderUnique
  <2> QED  BY <2>2, <1>2 DEF r
<1>3. CASE r # d - 1
  <2>1. x + 1 = d * q + (r + 1) /\ r + 1 \in 0 .. d - 1  BY <1>1, <1>3
  <2>2. (x + 1) % d = r + 1  BY <2>1, <1>1, RemainderUnique
  <2> QED  BY <2>2, <1>3 DEF r
<1> QED  BY <1>2, <1>3

\* Only the remainder matters when one is added.
LEMMA RemainderCarries ==
  ASSUME NEW x \in Nat, NEW d \in Nat \ {0}
  PROVE  (x + 1) % d = ((x % d) + 1) % d
<1>1. x % d \in 0 .. d - 1 /\ x % d \in Nat  BY Division
<1>2. (x % d) % d = x % d  BY <1>1, RemainderSmall
<1>3. (x + 1) % d = IF x % d = d - 1 THEN 0 ELSE (x % d) + 1  BY RemainderSucc
<1> DEFINE r == x % d
<1> HIDE DEF r
<1>4. (r + 1) % d = IF r % d = d - 1 THEN 0 ELSE (r % d) + 1
  BY <1>1, RemainderSucc DEF r
<1>5. r % d = r  BY <1>2 DEF r
<1>6. (r + 1) % d = IF r = d - 1 THEN 0 ELSE r + 1  BY <1>4, <1>5
<1> QED  BY <1>3, <1>6 DEF r

\* Adding a multiple of the divisor leaves the remainder.
LEMMA RemainderSkips ==
  ASSUME NEW d \in Nat \ {0}, NEW x \in Nat, NEW m \in Nat, m % d = 0
  PROVE  (x + m) % d = x % d
<1> DEFINE q == x \div d
           r == x % d
           k == m \div d
<1>1. x = d * q + r /\ q \in Nat /\ r \in 0 .. d - 1  BY Division
<1>2. m = d * k /\ k \in Nat  BY Division
<1> HIDE DEF q, r, k
<1>3. x + m = d * (q + k) + r  BY <1>1, <1>2
<1>4. (x + m) % d = r  BY <1>1, <1>2, <1>3, RemainderUnique
<1> QED  BY <1>4 DEF r
=============================================================================
