---------------------------- MODULE ModArithmetic ----------------------------
(* Lemmas about positions in a ring of m slots: the slots k % m that a run   *)
(* of consecutive k goes through.                                            *)
EXTENDS Integers, TLAPS

\* Division with remainder.
LEMMA DivMod ==
  ASSUME NEW m \in Nat \ {0}, NEW k \in Nat
  PROVE  /\ k \div m \in Nat
         /\ k % m \in 0..(m - 1)
         /\ k = m * (k \div m) + (k % m)
OBVIOUS

\* Different multiples of m are at least m apart.
LEMMA Gap ==
  ASSUME NEW m \in Nat \ {0}, NEW p \in Nat, NEW q \in Nat, p # q
  PROVE  m * p >= m * q + m \/ m * q >= m * p + m
<1>1. CASE p >= q + 1
  <2>1. m * p >= m * (q + 1)  BY <1>1
  <2>2. m * (q + 1) = m * q + m  OBVIOUS
  <2> QED  BY <2>1, <2>2
<1>2. CASE q >= p + 1
  <2>1. m * q >= m * (p + 1)  BY <1>2
  <2>2. m * (p + 1) = m * p + m  OBVIOUS
  <2> QED  BY <2>1, <2>2
<1> QED  BY <1>1, <1>2

\* The remainder is the only one there is.
LEMMA ModUnique ==
  ASSUME NEW m \in Nat \ {0}, NEW q \in Nat, NEW r \in 0..(m - 1),
         NEW k \in Nat, k = m * q + r
  PROVE  k % m = r
<1> DEFINE p == k \div m
           s == k % m
<1>1. p \in Nat /\ s \in 0..(m - 1) /\ k = m * p + s  BY DivMod
<1>2. p = q \/ m * p >= m * q + m \/ m * q >= m * p + m  BY <1>1, Gap
<1>3. m * p \in Nat /\ m * q \in Nat  BY <1>1
<1> HIDE DEF p, s
<1>4. s = r  BY <1>1, <1>2, <1>3
<1> QED  BY <1>4 DEF s

\* A remainder is a slot number.
LEMMA ModRange ==
  ASSUME NEW m \in Nat \ {0}, NEW k \in Nat
  PROVE  k % m \in 0..(m - 1)
BY DivMod

\* A slot number is its own remainder.
LEMMA ModSmall ==
  ASSUME NEW m \in Nat \ {0}, NEW k \in 0..(m - 1)
  PROVE  k % m = k
<1>1. k = m * 0 + k  OBVIOUS
<1> QED  BY <1>1, ModUnique

\* Two numbers less than m apart fall on different slots.
LEMMA ModInj ==
  ASSUME NEW m \in Nat \ {0}, NEW j \in Nat, NEW k \in Nat, j < k, k < j + m
  PROVE  k % m # j % m
<1> DEFINE p == k \div m
           s == k % m
           q == j \div m
           r == j % m
<1>1. p \in Nat /\ s \in 0..(m - 1) /\ k = m * p + s  BY DivMod
<1>2. q \in Nat /\ r \in 0..(m - 1) /\ j = m * q + r  BY DivMod
<1>3. p = q \/ m * p >= m * q + m \/ m * q >= m * p + m  BY <1>1, <1>2, Gap
<1>4. m * p \in Nat /\ m * q \in Nat  BY <1>1, <1>2
<1> HIDE DEF p, q, r, s
<1>5. s # r  BY <1>1, <1>2, <1>3, <1>4
<1> QED  BY <1>5 DEF r, s

\* Where d slots on from k leads, with or without going round the ring.
LEMMA ModAdd ==
  ASSUME NEW m \in Nat \ {0}, NEW k \in Nat, NEW d \in 0..m
  PROVE  (k + d) % m = IF (k % m) + d < m THEN (k % m) + d ELSE (k % m) + d - m
<1> DEFINE p == k \div m
           s == k % m
<1>1. p \in Nat /\ s \in 0..(m - 1) /\ k = m * p + s  BY DivMod
<1>2. m * (p + 1) = m * p + m  BY <1>1
<1>3. m * p \in Nat  BY <1>1
<1> HIDE DEF p, s
<1>4. CASE s + d < m
  <2>1. k + d = m * p + (s + d) /\ s + d \in 0..(m - 1)  BY <1>1, <1>3, <1>4
  <2>2. (k + d) % m = s + d  BY <1>1, <2>1, ModUnique
  <2> QED  BY <2>2, <1>4 DEF s
<1>5. CASE ~(s + d < m)
  <2> DEFINE u == p + 1
             t == s + d - m
             l == k + d
  <2>1. l = m * u + t  BY <1>1, <1>2, <1>3
  <2>2. t \in 0..(m - 1)  BY <1>1, <1>5
  <2>3. u \in Nat /\ l \in Nat  BY <1>1
  <2> HIDE DEF u, t, l
  <2>4. l % m = t  BY <2>1, <2>2, <2>3, ModUnique
  <2> QED  BY <2>4, <1>5 DEF s, t, l
<1> QED  BY <1>4, <1>5

\* Taking the remainder first changes nothing.
LEMMA ModMod ==
  ASSUME NEW m \in Nat \ {0}, NEW k \in Nat, NEW d \in 0..m
  PROVE  ((k % m) + d) % m = (k + d) % m
<1> DEFINE s == k % m
<1>1. s \in 0..(m - 1) /\ s \in Nat  BY ModRange
<1>2. (k + d) % m = IF s + d < m THEN s + d ELSE s + d - m  BY ModAdd
<1>3. s % m = s  BY <1>1, ModSmall
<1> HIDE DEF s
<1>4. (s + d) % m = IF (s % m) + d < m THEN (s % m) + d ELSE (s % m) + d - m
      BY <1>1, ModAdd
<1>5. (s + d) % m = (k + d) % m  BY <1>2, <1>3, <1>4
<1> QED  BY <1>5 DEF s

\* The distance between two slots, however the ring is turned.
LEMMA ModDistance ==
  ASSUME NEW m \in Nat \ {0}, NEW k \in Nat, NEW d \in 0..(m - 1)
  PROVE  (((k + d) % m) - (k % m) + m) % m = d
<1> DEFINE s == k % m
           t == (k + d) % m
<1>1. s \in 0..(m - 1) /\ d \in 0..m  BY ModRange
<1>2. t = IF s + d < m THEN s + d ELSE s + d - m  BY <1>1, ModAdd
<1> HIDE DEF s, t
<1>3. CASE s + d < m
  <2>1. t - s + m = m * 1 + d  BY <1>1, <1>2, <1>3
  <2>2. t - s + m \in Nat  BY <1>1, <1>2, <1>3
  <2>3. (t - s + m) % m = d  BY <2>1, <2>2, ModUnique
  <2> QED  BY <2>3 DEF s, t
<1>4. CASE ~(s + d < m)
  <2>1. t - s + m = d  BY <1>1, <1>2, <1>4
  <2>2. (t - s + m) % m = d  BY <2>1, ModSmall
  <2> QED  BY <2>2 DEF s, t
<1> QED  BY <1>3, <1>4
=============================================================================
