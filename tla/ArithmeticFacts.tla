--------------------------- MODULE ArithmeticFacts ---------------------------
(***************************************************************************)
(* Facts about natural numbers and sequences of the plain text that the    *)
(* proofs keep needing.                                                    *)
(***************************************************************************)
EXTENDS Integers, Sequences, TLAPS, WellFoundedInduction

\* A set of natural numbers has a least element.
LEMMA LeastElement ==
  ASSUME NEW T \in SUBSET Nat, T # {}
  PROVE  \E m \in T : \A k \in T : m <= k
<1> DEFINE R == {p \in Nat \X Nat : p[1] < p[2]}
<1>1. IsWellFoundedOn(R, Nat)
  <2>1. OpToRel(<, Nat) = R
    BY DEF OpToRel
  <2>2. QED BY <2>1, NatLessThanWellFounded
<1>2. PICK m \in T : \A k \in T : ~(<<k, m>> \in R)
  BY <1>1, WFMin
<1>3. \A k \in T : ~(k < m)
  BY <1>2
<1>4. \A k \in T : m <= k
  BY <1>3
<1>5. QED BY <1>4

\* Induction, as a fact about sets.
LEMMA InductiveSet ==
  ASSUME NEW S \in SUBSET Nat, 0 \in S, \A n \in S : n + 1 \in S
  PROVE  S = Nat
<1>1. SUFFICES ASSUME Nat \ S # {} PROVE FALSE
  OBVIOUS
<1>2. PICK m \in Nat \ S : \A k \in Nat \ S : m <= k
  BY <1>1, LeastElement
<1>3. m - 1 \in Nat /\ m - 1 \in S
  BY <1>2
<1>4. QED BY <1>2, <1>3

\* A division has one quotient.
LEMMA OneQuotient ==
  ASSUME NEW d \in Nat \ {0}, NEW q \in Int, NEW p \in Int,
         NEW r \in 0..(d - 1), NEW s \in 0..(d - 1), d * q + r = d * p + s
  PROVE  q = p /\ r = s
<1>1. \A k \in Nat \ {0} : d * k >= d
  OBVIOUS
<1>2. d * (q - p) = s - r /\ d * (p - q) = r - s
  OBVIOUS
<1>3. ~(q > p)
  BY <1>1, <1>2
<1>4. ~(q < p)
  BY <1>1, <1>2
<1>5. q = p
  BY <1>3, <1>4
<1>6. QED BY <1>5

LEMMA Remainder ==
  ASSUME NEW d \in Nat \ {0}, NEW i \in Nat
  PROVE  /\ i % d \in 0..(d - 1) /\ i \div d \in Nat
         /\ i = d * (i \div d) + (i % d)
         /\ i < d => i % d = i
         /\ i >= d => (i - d) % d = i % d
<1>1. /\ i % d \in 0..(d - 1) /\ i \div d \in Nat
      /\ i = d * (i \div d) + (i % d) /\ (i < d => i % d = i)
  OBVIOUS
<1>2. ASSUME i >= d PROVE (i - d) % d = i % d
  <2>1. PICK j \in Nat : j = i - d
    BY <1>2
  <2>2. j % d \in 0..(d - 1) /\ j \div d \in Nat /\ j = d * (j \div d) + (j % d)
    OBVIOUS
  <2>3. PICK q \in Nat, p \in Nat, r \in 0..(d - 1), s \in 0..(d - 1) :
          q = i \div d /\ p = j \div d /\ r = i % d /\ s = j % d
    BY <1>1, <2>2
  <2>4. d * q + r = d * (p + 1) + s
    BY <1>1, <2>1, <2>2, <2>3
  <2>5. PICK t \in Int : t = p + 1
    BY <2>3
  <2>6. r = s
    <3>1. d * q + r = d * t + s /\ q \in Int
      BY <2>3, <2>4, <2>5
    <3>2. QED BY <3>1, OneQuotient
  <2>7. QED BY <2>1, <2>3, <2>6
<1>3. QED BY <1>1, <1>2

\* A text of which every byte is the one d bytes before repeats d bytes.
LEMMA Periodic ==
  ASSUME NEW f, NEW o \in Int, NEW d \in Nat \ {0}, NEW n \in Nat,
         \A x \in o..(o + n - 1) : f[x] = f[x - d]
  PROVE  \A i \in 0..(n - 1) : f[o + i] = f[o - d + (i % d)]
<1> DEFINE T == {i \in 0..(n - 1) : f[o + i] # f[o - d + (i % d)]}
<1>1. SUFFICES ASSUME T # {} PROVE FALSE
  OBVIOUS
<1>2. T \in SUBSET Nat
  OBVIOUS
<1>3. PICK m \in T : \A k \in T : m <= k
  BY <1>1, <1>2, LeastElement
<1>4. m \in Nat /\ m <= n - 1 /\ f[o + m] # f[o - d + (m % d)]
  BY <1>3
<1>5. f[o + m] = f[(o + m) - d]
  <2>1. o + m \in o..(o + n - 1)
    BY <1>4
  <2>2. QED BY <2>1
<1>6. CASE m < d
  <2>1. m % d = m
    BY <1>4, <1>6, Remainder
  <2>2. (o + m) - d = o - d + m
    BY <1>4
  <2>3. QED BY <1>4, <1>5, <2>1, <2>2
<1>7. CASE m >= d
  <2>1. m - d \in 0..(n - 1) /\ m - d < m
    BY <1>4, <1>7
  <2>2. m - d \notin T
    BY <1>3, <1>4, <2>1
  <2>3. f[o + (m - d)] = f[o - d + ((m - d) % d)]
    BY <2>1, <2>2
  <2>4. (m - d) % d = m % d
    BY <1>4, <1>7, Remainder
  <2>5. o + (m - d) = (o + m) - d
    BY <1>4
  <2>6. QED BY <1>4, <1>5, <2>3, <2>4, <2>5
<1>8. QED BY <1>4, <1>6, <1>7

\* A function that is defined by recursion over 0..n exists.
Recurses(n, X, x, g) ==
  \E f \in [0..n -> X] : f[0] = x /\ \A i \in 1..n : f[i] = g[i][f[i - 1]]

LEMMA Recursion ==
  ASSUME NEW n \in Nat, NEW X, NEW x \in X, NEW g, g \in [1..n -> [X -> X]]
  PROVE  Recurses(n, X, x, g)
<1> DEFINE S == {m \in Nat : m <= n => Recurses(m, X, x, g)}
<1>1. 0 \in S
  <2>1. PICK f : f = [i \in 0..0 |-> x]
    OBVIOUS
  <2>2. f \in [0..0 -> X] /\ f[0] = x /\ 1..0 = {}
    BY <2>1
  <2>3. Recurses(0, X, x, g)
    BY <2>2 DEF Recurses
  <2>4. QED BY <2>3
<1>2. ASSUME NEW m \in S PROVE m + 1 \in S
  <2>1. SUFFICES ASSUME m + 1 <= n PROVE Recurses(m + 1, X, x, g)
    BY <1>2
  <2>2. PICK h \in [0..m -> X] : h[0] = x /\ \A i \in 1..m : h[i] = g[i][h[i - 1]]
    <3>1. Recurses(m, X, x, g)
      BY <1>2, <2>1
    <3>2. QED BY <3>1 DEF Recurses
  <2>3. m + 1 \in 1..n /\ m \in 0..m /\ m \in Nat
    BY <1>2, <2>1
  <2>4. PICK y \in X : y = g[m + 1][h[m]]
    <3>1. g[m + 1] \in [X -> X] /\ h[m] \in X
      BY <2>2, <2>3
    <3>2. QED BY <3>1
  <2> DEFINE f == [i \in 0..(m + 1) |-> IF i <= m THEN h[i] ELSE y]
  <2>5. f \in [0..(m + 1) -> X]
    <3>1. ASSUME NEW i \in 0..(m + 1) PROVE (IF i <= m THEN h[i] ELSE y) \in X
      <4>1. i <= m => i \in 0..m
        BY <2>3, <3>1
      <4>2. QED BY <2>2, <4>1
    <3>2. QED BY <3>1
  <2>6. (\A i \in 0..m : f[i] = h[i]) /\ f[m + 1] = y
    BY <2>3
  <2> HIDE DEF f
  <2>7. ASSUME NEW i \in 1..(m + 1) PROVE f[i] = g[i][f[i - 1]]
    <3>1. i - 1 \in 0..m
      BY <2>3, <2>7
    <3>2. f[i - 1] = h[i - 1]
      BY <2>6, <3>1
    <3>3. CASE i \in 1..m
      <4>1. i \in 0..m
        BY <3>3
      <4>2. f[i] = h[i]
        BY <2>6, <4>1
      <4>3. h[i] = g[i][h[i - 1]]
        BY <2>2, <3>3
      <4>4. QED BY <3>2, <4>2, <4>3
    <3>4. CASE i = m + 1
      <4>1. i - 1 = m
        BY <2>3, <3>4
      <4>2. QED BY <2>4, <2>6, <3>2, <3>4, <4>1
    <3>5. QED BY <2>3, <2>7, <3>3, <3>4
  <2>8. f[0] = x
    <3>1. 0 \in 0..m
      BY <2>3
    <3>2. QED BY <2>2, <2>6, <3>1
  <2>9. QED BY <2>5, <2>7, <2>8 DEF Recurses
<1>3. S = Nat
  <2> HIDE DEF S
  <2>1. S \in SUBSET Nat
    BY DEF S
  <2>2. QED BY <1>1, <1>2, <2>1, InductiveSet
<1>4. n \in S
  BY <1>3
<1>5. QED BY <1>4

\* Bits are counted modulo 8.
LEMMA EightMore ==
  ASSUME NEW x \in Nat, NEW y \in Nat
  PROVE  ((x % 8) + y) % 8 = (x + y) % 8
OBVIOUS

\* Two sequences, one behind the other.
LEMMA Concatenated ==
  ASSUME NEW S, NEW s \in Seq(S), NEW t \in Seq(S)
  PROVE  /\ s \o t \in Seq(S) /\ Len(s \o t) = Len(s) + Len(t)
         /\ \A i \in 1..Len(s) : (s \o t)[i] = s[i]
         /\ \A i \in 1..Len(t) : (s \o t)[Len(s) + i] = t[i]
<1>1. s \o t \in Seq(S) /\ Len(s \o t) = Len(s) + Len(t)
  OBVIOUS
<1>2. \A i \in 1..Len(s) : (s \o t)[i] = s[i]
  OBVIOUS
<1>3. \A i \in 1..Len(t) : (s \o t)[Len(s) + i] = t[i]
  OBVIOUS
<1>4. QED BY <1>1, <1>2, <1>3
=============================================================================
