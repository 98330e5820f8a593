------------------------- MODULE HuffmanTreeProofs -------------------------
(***************************************************************************)
(* Proofs about HuffmanTree, for every histogram, every cutoff of the sort *)
(* and every limit that leaves a code for each symbol.                     *)
(***************************************************************************)
EXTENDS HuffmanTree, ArithmeticFacts, FiniteSetTheorems, TLAPS

Sorts == {"collect", "sort", "insert", "scan"}
PairPhases == {"first", "second"}
Later == {"measured", "limit", "done"}

Types ==
  /\ pc \in Sorts \cup PairPhases \cup {"depth", "level"} \cup Later
  /\ hist \in [Syms -> Nat] /\ \E m \in Nat : Syms = 0..(m - 1)
  /\ limit \in Nat /\ (pc # "done" => limit # 0)
  /\ lits \in Seq(Syms) /\ todo \in Seq(Int \X Int)
  /\ (pc \in Sorts \/ w \in [0..(n - 1) -> Nat])
  /\ i \in Int /\ j \in Int /\ leaf \in Int /\ root \in Int /\ next \in Int
  /\ avail \in Int /\ used \in Int /\ depth \in Int /\ total \in Int
  /\ lens \in [Syms -> Nat]

-----------------------------------------------------------------------------
(***************************************************************************)
(* Sums and powers: the sum of a set that MapThenSumSet adds up in an      *)
(* order of its own is that of the numbers from 1 on.                      *)
(***************************************************************************)
\* h[k] is g[1] + ... + g[k].
SumsOf(g, m, h) ==
  h \in [0..m -> Int] /\ h[0] = 0 /\ \A k \in 1..m : h[k] = h[k - 1] + g[k]

Sigma(g, m) == (CHOOSE h : SumsOf(g, m, h))[m]

Integral(g, m) == \A k \in 1..m : g[k] \in Int

LEMMA SumsExist ==
  ASSUME NEW m \in Nat, NEW g, Integral(g, m)
  PROVE  \E h : SumsOf(g, m, h) /\ h[m] = Sigma(g, m)
<1>1. PICK f : f = [k \in 1..m |-> [z \in Int |-> z + g[k]]]
  OBVIOUS
<1>2. f \in [1..m -> [Int -> Int]]
  BY <1>1 DEF Integral
<1>3. Recurses(m, Int, 0, f)
  <2>1. 0 \in Int
    OBVIOUS
  <2>2. QED BY <1>2, <2>1, Recursion, Zenon
<1>4. PICK h \in [0..m -> Int] : h[0] = 0 /\ \A k \in 1..m : h[k] = f[k][h[k - 1]]
  BY <1>3 DEF Recurses
<1>5. SumsOf(g, m, h)
  <2>1. ASSUME NEW k \in 1..m PROVE h[k] = h[k - 1] + g[k]
    <3>1. k - 1 \in 0..m
      OBVIOUS
    <3>2. h[k - 1] \in Int /\ h[k] = f[k][h[k - 1]]
      BY <1>4, <3>1
    <3>3. QED BY <1>1, <3>2
  <2>2. QED BY <1>4, <2>1 DEF SumsOf
<1>6. PICK e : e = CHOOSE x : SumsOf(g, m, x)
  OBVIOUS
<1>7. SumsOf(g, m, e)
  BY <1>5, <1>6
<1>8. e[m] = Sigma(g, m)
  BY <1>6 DEF Sigma
<1>9. QED BY <1>7, <1>8

LEMMA SigmaInt ==
  ASSUME NEW m \in Nat, NEW g, Integral(g, m)
  PROVE  Sigma(g, m) \in Int
<1>1. PICK h : SumsOf(g, m, h) /\ h[m] = Sigma(g, m)
  BY SumsExist
<1>2. h[m] \in Int
  BY <1>1 DEF SumsOf
<1>3. QED BY <1>1, <1>2

\* A sum changes by what one number changes.
LEMMA SigmaChange ==
  ASSUME NEW m \in Nat, NEW f, NEW g, NEW x \in 1..m, Integral(f, m), Integral(g, m),
         \A k \in 1..m : k # x => f[k] = g[k]
  PROVE  Sigma(f, m) = Sigma(g, m) + (f[x] - g[x])
<1>1. PICK e : SumsOf(f, m, e) /\ e[m] = Sigma(f, m)
  BY SumsExist
<1>2. PICK h : SumsOf(g, m, h) /\ h[m] = Sigma(g, m)
  BY SumsExist
<1>3. /\ \A k \in 0..m : e[k] \in Int /\ h[k] \in Int
      /\ e[0] = 0 /\ h[0] = 0
      /\ \A k \in 1..m : e[k] = e[k - 1] + f[k] /\ h[k] = h[k - 1] + g[k]
  BY <1>1, <1>2 DEF SumsOf
<1>4. PICK d \in Int : d = f[x] - g[x] /\ f[x] = g[x] + d /\ g[x] \in Int
  BY DEF Integral
<1> DEFINE T == {k \in Nat : k <= m => e[k] = h[k] + (IF k < x THEN 0 ELSE d)}
<1>5. 0 \in T
  BY <1>3
<1>6. ASSUME NEW k \in T PROVE k + 1 \in T
  <2>1. SUFFICES ASSUME k + 1 <= m
                 PROVE  e[k + 1] = h[k + 1] + (IF k + 1 < x THEN 0 ELSE d)
    BY <1>6
  <2>2. k \in Nat /\ e[k] = h[k] + (IF k < x THEN 0 ELSE d)
    BY <1>6, <2>1
  <2>3. k \in 0..m /\ k + 1 \in 1..m /\ (k + 1) - 1 = k
    BY <2>1, <2>2
  <2>4. e[k + 1] = e[k] + f[k + 1] /\ h[k + 1] = h[k] + g[k + 1]
    BY <1>3, <2>3
  <2>5. PICK a \in Int, b \in Int, c \in Int : a = e[k] /\ b = h[k] /\ c = g[k + 1]
    BY <1>3, <2>3 DEF Integral
  <2>6. f[k + 1] = IF k + 1 = x THEN c + d ELSE c
    <3>1. CASE k + 1 = x
      BY <1>4, <2>5, <3>1
    <3>2. CASE k + 1 # x
      BY <2>3, <2>5, <3>2
    <3>3. QED BY <3>1, <3>2
  <2>7. a = b + (IF k < x THEN 0 ELSE d)
    BY <2>2, <2>5
  <2>8. e[k + 1] = a + f[k + 1] /\ h[k + 1] = b + c
    BY <2>4, <2>5
  <2>9. CASE k + 1 = x
    <3>1. a = b /\ f[k + 1] = c + d
      BY <2>2, <2>6, <2>7, <2>9
    <3>2. ~(k + 1 < x)
      BY <2>2, <2>9
    <3>3. QED BY <2>5, <2>8, <3>1, <3>2
  <2>10. CASE k + 1 # x
    <3>1. f[k + 1] = c /\ (k < x <=> k + 1 < x)
      BY <2>2, <2>5, <2>6, <2>10
    <3>2. QED BY <2>5, <2>7, <2>8, <3>1
  <2>11. QED BY <2>9, <2>10
<1>7. T = Nat
  <2> HIDE DEF T
  <2>1. T \in SUBSET Nat
    BY DEF T
  <2>2. QED BY <1>5, <1>6, <2>1, InductiveSet
<1>8. m \in T
  BY <1>7
<1>9. QED BY <1>1, <1>2, <1>4, <1>8

LEMMA SigmaSame ==
  ASSUME NEW m \in Nat, NEW f, NEW g, Integral(g, m), \A k \in 1..m : f[k] = g[k]
  PROVE  Sigma(f, m) = Sigma(g, m)
<1>1. Integral(f, m)
  BY DEF Integral
<1>2. CASE m = 0
  <2>1. \A x : Integral(x, 0) => Sigma(x, 0) = 0
    <3>1. ASSUME NEW x, Integral(x, 0) PROVE Sigma(x, 0) = 0
      <4>1. PICK h : SumsOf(x, 0, h) /\ h[0] = Sigma(x, 0)
        BY <3>1, SumsExist
      <4>2. QED BY <4>1 DEF SumsOf
    <3>2. QED BY <3>1
  <2>2. QED BY <1>1, <1>2, <2>1
<1>3. CASE m # 0
  <2>1. 1 \in 1..m /\ f[1] = g[1] /\ g[1] \in Int
    BY <1>3 DEF Integral
  <2>2. Sigma(f, m) = Sigma(g, m) + (f[1] - g[1])
    BY <1>1, <2>1, SigmaChange
  <2>3. Sigma(g, m) \in Int
    BY SigmaInt
  <2>4. QED BY <2>1, <2>2, <2>3
<1>4. QED BY <1>2, <1>3

LEMMA SigmaZero ==
  ASSUME NEW m \in Nat, NEW g, \A k \in 1..m : g[k] = 0
  PROVE  Sigma(g, m) = 0
<1>1. PICK h : SumsOf(g, m, h) /\ h[m] = Sigma(g, m)
  BY SumsExist DEF Integral
<1> DEFINE T == {k \in Nat : k <= m => h[k] = 0}
<1>2. 0 \in T
  BY <1>1 DEF SumsOf
<1>3. ASSUME NEW k \in T PROVE k + 1 \in T
  <2>1. SUFFICES ASSUME k + 1 <= m PROVE h[k + 1] = 0
    BY <1>3
  <2>2. k \in Nat /\ h[k] = 0 /\ k + 1 \in 1..m /\ (k + 1) - 1 = k
    BY <1>3, <2>1
  <2>3. h[k + 1] = h[k] + g[k + 1]
    BY <1>1, <2>2 DEF SumsOf
  <2>4. QED BY <2>2, <2>3
<1>4. T = Nat
  <2> HIDE DEF T
  <2>1. T \in SUBSET Nat
    BY DEF T
  <2>2. QED BY <1>2, <1>3, <2>1, InductiveSet
<1>5. QED BY <1>1, <1>4

\* What MapThenSumSet computes.
Only(g, s, m) == [k \in 1..m |-> IF k \in s THEN g[k] ELSE 0]
OneOf(s) == CHOOSE x \in s : TRUE

SetSums(g, m, f) ==
  f = [s \in SUBSET (1..m) |-> IF s = {} THEN 0 ELSE g[OneOf(s)] + f[s \ {OneOf(s)}]]

LEMMA OnlyLess ==
  ASSUME NEW m \in Nat, NEW g, Integral(g, m), NEW s \in SUBSET (1..m), NEW x \in s
  PROVE  /\ Sigma(Only(g, s, m), m) = g[x] + Sigma(Only(g, s \ {x}, m), m)
         /\ Sigma(Only(g, s, m), m) \in Int
<1>1. x \in 1..m /\ g[x] \in Int
  BY DEF Integral
<1>2. PICK a, b : a = Only(g, s, m) /\ b = Only(g, s \ {x}, m)
  OBVIOUS
<1>3. Integral(a, m) /\ Integral(b, m)
  BY <1>2 DEF Only, Integral
<1>4. a[x] = g[x] /\ b[x] = 0 /\ \A k \in 1..m : k # x => a[k] = b[k]
  BY <1>1, <1>2 DEF Only
<1>5. Sigma(a, m) = Sigma(b, m) + (a[x] - b[x])
  <2>1. \A k \in 1..m : k # x => a[k] = b[k]
    BY <1>4
  <2>2. QED BY <1>1, <1>3, <2>1, SigmaChange
<1>6. Sigma(a, m) \in Int /\ Sigma(b, m) \in Int
  BY <1>3, SigmaInt
<1>7. QED BY <1>1, <1>2, <1>4, <1>5, <1>6

LEMMA OnlyNone ==
  ASSUME NEW m \in Nat, NEW g
  PROVE  Sigma(Only(g, {}, m), m) = 0
<1>1. \A k \in 1..m : Only(g, {}, m)[k] = 0
  BY DEF Only
<1>2. QED BY <1>1, SigmaZero

LEMMA SetSumsExist ==
  ASSUME NEW m \in Nat, NEW g, Integral(g, m)
  PROVE  \E f : SetSums(g, m, f)
<1>1. PICK f : f = [s \in SUBSET (1..m) |-> Sigma(Only(g, s, m), m)]
  OBVIOUS
<1>2. ASSUME NEW s \in SUBSET (1..m)
      PROVE  f[s] = IF s = {} THEN 0 ELSE g[OneOf(s)] + f[s \ {OneOf(s)}]
  <2>1. CASE s = {}
    BY <1>1, <2>1, OnlyNone
  <2>2. CASE s # {}
    <3>1. PICK x \in s : x = OneOf(s)
      BY <2>2 DEF OneOf
    <3>2. s \ {x} \in SUBSET (1..m)
      OBVIOUS
    <3>3. f[s \ {x}] = Sigma(Only(g, s \ {x}, m), m) /\ f[s] = Sigma(Only(g, s, m), m)
      BY <1>1, <3>2
    <3>4. Sigma(Only(g, s, m), m) = g[x] + Sigma(Only(g, s \ {x}, m), m)
      BY OnlyLess
    <3>5. QED BY <2>2, <3>1, <3>3, <3>4
  <2>3. QED BY <2>1, <2>2
<1>3. f = [s \in SUBSET (1..m) |-> f[s]]
  BY <1>1
<1>4. SetSums(g, m, f)
  BY <1>2, <1>3 DEF SetSums
<1>5. QED BY <1>4

LEMMA SetSumsOne ==
  ASSUME NEW m \in Nat, NEW g, Integral(g, m), NEW f, SetSums(g, m, f)
  PROVE  \A s \in SUBSET (1..m) : f[s] = Sigma(Only(g, s, m), m)
<1> DEFINE Bad(s) == f[s] # Sigma(Only(g, s, m), m)
           T == {k \in Nat : \E s \in SUBSET (1..m) : Bad(s) /\ Cardinality(s) = k}
<1>1. SUFFICES ASSUME NEW z \in SUBSET (1..m), Bad(z) PROVE FALSE
  OBVIOUS
<1>2. \A s \in SUBSET (1..m) : IsFiniteSet(s) /\ Cardinality(s) \in Nat
  <2>1. IsFiniteSet(1..m)
    BY FS_Interval
  <2>2. QED BY <2>1, FS_Subset, FS_CardinalityType
<1>3. T # {} /\ T \in SUBSET Nat
  BY <1>1, <1>2
<1>4. PICK k \in T : \A c \in T : k <= c
  BY <1>3, LeastElement
<1>5. PICK s \in SUBSET (1..m) : Bad(s) /\ Cardinality(s) = k
  BY <1>4
<1>6. \A y \in SUBSET (1..m) :
        f[y] = IF y = {} THEN 0 ELSE g[OneOf(y)] + f[y \ {OneOf(y)}]
  BY DEF SetSums
<1>7. s # {}
  BY <1>5, <1>6, OnlyNone
<1>8. PICK x \in s : x = OneOf(s)
  BY <1>7 DEF OneOf
<1>9. s \ {x} \in SUBSET (1..m)
  OBVIOUS
<1>10. Cardinality(s \ {x}) = k - 1 /\ Cardinality(s \ {x}) \in Nat /\ k \in Nat
  BY <1>2, <1>3, <1>4, <1>5, <1>8, <1>9, FS_RemoveElement
<1>11. Cardinality(s \ {x}) \notin T
  <2> HIDE DEF T
  <2>1. ASSUME Cardinality(s \ {x}) \in T PROVE FALSE
    <3>1. k <= Cardinality(s \ {x})
      BY <1>4, <2>1
    <3>2. QED BY <1>10, <3>1
  <2>2. QED BY <2>1
<1>12. f[s \ {x}] = Sigma(Only(g, s \ {x}, m), m)
  BY <1>9, <1>10, <1>11
<1>13. f[s] = g[x] + f[s \ {x}]
  BY <1>6, <1>7, <1>8
<1>14. f[s] = Sigma(Only(g, s, m), m)
  BY <1>8, <1>12, <1>13, OnlyLess
<1>15. QED BY <1>5, <1>14

LEMMA SetSum ==
  ASSUME NEW m \in Nat, NEW g, Integral(g, m), NEW f, SetSums(g, m, f)
  PROVE  f[1..m] = Sigma(g, m)
<1>1. f[1..m] = Sigma(Only(g, 1..m, m), m)
  BY SetSumsOne
<1>2. \A k \in 1..m : Only(g, 1..m, m)[k] = g[k]
  BY DEF Only
<1>3. Sigma(Only(g, 1..m, m), m) = Sigma(g, m)
  BY <1>2, SigmaSame
<1>4. QED BY <1>1, <1>3

LEMMA SumOf ==
  ASSUME NEW m \in Nat, NEW g, Integral(g, m)
  PROVE  MapThenSumSet(LAMBDA k : g[k], 1..m) = Sigma(g, m)
<1>1. PICK f : f = CHOOSE x : SetSums(g, m, x)
  OBVIOUS
<1>2. SetSums(g, m, f)
  BY <1>1, SetSumsExist
<1>3. f[1..m] = Sigma(g, m)
  BY <1>2, SetSum
<1>4. MapThenSumSet(LAMBDA k : g[k], 1..m) = f[1..m]
  BY <1>1 DEF SetSums, OneOf, MapThenSumSet, MapThenFoldSet
<1>5. QED BY <1>3, <1>4

\* What it computes of numbers e with weights y.
WeightedSums(e, y, m, f) ==
  f = [s \in SUBSET (1..m) |->
         IF s = {} THEN 0 ELSE (e[OneOf(s)] * y[m - OneOf(s)]) + f[s \ {OneOf(s)}]]

LEMMA WeightedSum ==
  ASSUME NEW m \in Nat, NEW g, NEW e, NEW y, Integral(g, m),
         \A k \in 1..m : g[k] = e[k] * y[m - k]
  PROVE  LET f == CHOOSE x : WeightedSums(e, y, m, x)
         IN  WeightedSums(e, y, m, f) /\ f[1..m] = Sigma(g, m)
<1>1. ASSUME NEW s \in SUBSET (1..m), s # {}
      PROVE  g[OneOf(s)] = e[OneOf(s)] * y[m - OneOf(s)]
  <2>1. OneOf(s) \in s
    BY <1>1 DEF OneOf
  <2>2. QED BY <2>1
<1>2. \A f : WeightedSums(e, y, m, f) <=> SetSums(g, m, f)
  BY <1>1 DEF SetSums, WeightedSums
<1>3. PICK f : f = CHOOSE x : WeightedSums(e, y, m, x)
  OBVIOUS
<1>4. WeightedSums(e, y, m, f)
  BY <1>2, <1>3, SetSumsExist
<1>5. f[1..m] = Sigma(g, m)
  BY <1>2, <1>4, SetSum
<1>6. QED BY <1>3, <1>4, <1>5

\* h[k] is 2 to the power of k.
Doubles(m, h) ==
  h \in [0..m -> Nat \ {0}] /\ h[0] = 1 /\ \A k \in 1..m : h[k] = 2 * h[k - 1]

LEMMA DoublesExist ==
  ASSUME NEW m \in Nat
  PROVE  \E h : Doubles(m, h)
<1>1. PICK f : f = [k \in 1..m |-> [z \in Nat \ {0} |-> 2 * z]]
  OBVIOUS
<1>2. f \in [1..m -> [Nat \ {0} -> Nat \ {0}]]
  BY <1>1
<1>3. Recurses(m, Nat \ {0}, 1, f)
  <2>1. 1 \in Nat \ {0}
    OBVIOUS
  <2>2. QED BY <1>2, <2>1, Recursion, Zenon
<1>4. PICK h \in [0..m -> Nat \ {0}] : h[0] = 1 /\ \A k \in 1..m : h[k] = f[k][h[k - 1]]
  BY <1>3 DEF Recurses
<1>5. ASSUME NEW k \in 1..m PROVE h[k] = 2 * h[k - 1]
  <2>1. k - 1 \in 0..m
    OBVIOUS
  <2>2. h[k - 1] \in Nat \ {0} /\ h[k] = f[k][h[k - 1]]
    BY <1>4, <2>1
  <2>3. QED BY <1>1, <2>2
<1>6. QED BY <1>4, <1>5 DEF Doubles

LEMMA DoublesOne ==
  ASSUME NEW m \in Nat, NEW l \in Nat, l <= m, NEW h, NEW e, Doubles(m, h), Doubles(l, e)
  PROVE  h[l] = e[l]
<1> DEFINE T == {k \in Nat : k <= l => h[k] = e[k]}
<1>1. 0 \in T
  BY DEF Doubles
<1>2. ASSUME NEW k \in T PROVE k + 1 \in T
  <2>1. SUFFICES ASSUME k + 1 <= l PROVE h[k + 1] = e[k + 1]
    BY <1>2
  <2>2. h[k] = e[k] /\ k + 1 \in 1..m /\ k + 1 \in 1..l /\ (k + 1) - 1 = k
    BY <1>2, <2>1
  <2>3. h[k + 1] = 2 * h[k] /\ e[k + 1] = 2 * e[k]
    BY <2>2 DEF Doubles
  <2>4. QED BY <2>2, <2>3
<1>3. T = Nat
  <2> HIDE DEF T
  <2>1. T \in SUBSET Nat
    BY DEF T
  <2>2. QED BY <1>1, <1>2, <2>1, InductiveSet
<1>4. QED BY <1>3

LEMMA PowerFacts ==
  /\ PowerOf2[0] = 1
  /\ \A k \in Nat : PowerOf2[k] \in Nat \ {0} /\ PowerOf2[k + 1] = 2 * PowerOf2[k]
<1> DEFINE H(k) == CHOOSE h : Doubles(k, h)
           F == [k \in Nat |-> H(k)[k]]
           IsPower(f) == f = [k \in Nat |-> IF k = 0 THEN 1 ELSE 2 * f[k - 1]]
<1>1. \A k \in Nat : Doubles(k, H(k))
  BY DoublesExist
<1>2. \A k \in Nat : F[k] = H(k)[k]
  OBVIOUS
<1> HIDE DEF H, F
<1>3. F[0] = 1
  BY <1>1, <1>2 DEF Doubles
<1>4. ASSUME NEW k \in Nat PROVE F[k + 1] = 2 * F[k]
  <2>1. Doubles(k + 1, H(k + 1)) /\ Doubles(k, H(k)) /\ k + 1 \in Nat
    BY <1>1
  <2>2. H(k + 1)[k] = H(k)[k]
    <3>1. k <= k + 1
      OBVIOUS
    <3>2. QED BY <2>1, <3>1, DoublesOne
  <2>3. k + 1 \in 1..(k + 1) /\ (k + 1) - 1 = k
    OBVIOUS
  <2>4. H(k + 1)[k + 1] = 2 * H(k + 1)[k]
    BY <2>1, <2>3 DEF Doubles
  <2>5. QED BY <1>2, <2>1, <2>2, <2>4
<1>5. IsPower(F)
  <2>1. ASSUME NEW k \in Nat PROVE F[k] = IF k = 0 THEN 1 ELSE 2 * F[k - 1]
    <3>1. CASE k = 0
      BY <1>3, <3>1
    <3>2. CASE k # 0
      <4>1. k - 1 \in Nat /\ (k - 1) + 1 = k
        BY <3>2
      <4>2. F[(k - 1) + 1] = 2 * F[k - 1]
        BY <1>4, <4>1
      <4>3. QED BY <3>2, <4>1, <4>2
    <3>3. QED BY <3>1, <3>2
  <2>2. F = [k \in Nat |-> F[k]]
    BY DEF F
  <2>3. QED BY <2>1, <2>2
<1>6. PICK f : f = CHOOSE g : IsPower(g)
  OBVIOUS
<1>7. IsPower(f)
  <2> HIDE DEF IsPower
  <2>1. QED BY <1>5, <1>6
<1>8. f = PowerOf2
  BY <1>6 DEF PowerOf2
<1>9. PowerOf2[0] = 1 /\ \A k \in Nat \ {0} : PowerOf2[k] = 2 * PowerOf2[k - 1]
  BY <1>7, <1>8
<1>10. ASSUME NEW k \in Nat PROVE PowerOf2[k + 1] = 2 * PowerOf2[k]
  <2>1. k + 1 \in Nat \ {0} /\ (k + 1) - 1 = k
    OBVIOUS
  <2>2. QED BY <1>9, <2>1
<1> DEFINE T == {k \in Nat : PowerOf2[k] \in Nat \ {0}}
<1>11. 0 \in T
  BY <1>9
<1>12. ASSUME NEW k \in T PROVE k + 1 \in T
  BY <1>10
<1>13. T = Nat
  <2> HIDE DEF T
  <2>1. T \in SUBSET Nat
    BY DEF T
  <2>2. QED BY <1>11, <1>12, <2>1, InductiveSet
<1>14. QED BY <1>9, <1>10, <1>13

-----------------------------------------------------------------------------
(***************************************************************************)
(* Sorting.  s is an array, t the stack of its intervals.                  *)
(***************************************************************************)
\* Each element of S is in s, once.
OneEach(s, S) ==
  /\ \A a, b \in 0..(Len(s) - 1) : a # b => s[a + 1] # s[b + 1]
  /\ \A x : x \in S <=> \E k \in 0..(Len(s) - 1) : s[k + 1] = x

Held(t, a, b) == \E u \in DOMAIN t : {a, b} \subseteq t[u][1]..t[u][2]

\* What is not in one interval is in order.
Placed(s, t) ==
  \A a, b \in 0..(Len(s) - 1) : a < b => Above(s[a + 1], s[b + 1]) \/ Held(t, a, b)

\* Intervals are inside 0 .. m - 1, and apart from each other.
Apart(t, m) ==
  /\ \A u \in DOMAIN t : 0 <= t[u][1] /\ t[u][2] < m
  /\ \A u, v \in DOMAIN t : u # v => t[u][2] < t[v][1] \/ t[v][2] < t[u][1]

\* What scan has passed is on its side of the pivot.
Scanning ==
  /\ todo # <<>> /\ Left < Right /\ Left < i /\ i <= j + 1 /\ j <= Right
  /\ \A a \in (Left + 1)..(i - 1) : Above(Lit(a), Lit(Left))
  /\ \A a \in (j + 1)..Right : Above(Lit(Left), Lit(a))

\* The first elements are in order, but for the one that sinks.
Inserting ==
  /\ todo # <<>> /\ Left < i /\ Left <= j /\ j <= i /\ (i <= Right \/ j = i)
  /\ \A a, b \in Left..Right : a < b /\ b <= i /\ b # j => Above(Lit(a), Lit(b))

Occur == {s \in Syms : hist[s] > 0}

SortInv ==
  /\ pc = "collect" => 0 <= i /\ OneEach(lits, {s \in Occur : s < i})
  /\ pc # "collect" => OneEach(lits, Occur) /\ Placed(lits, todo) /\ Apart(todo, n)
  /\ pc \notin Sorts => todo = <<>>
  /\ pc = "scan" => Scanning
  /\ pc = "insert" => Inserting

LEMMA AboveOrder ==
  ASSUME Types
  PROVE  /\ \A x, y \in Syms : Above(x, y) => ~Above(y, x)
         /\ \A x, y \in Syms : x # y => Above(x, y) \/ Above(y, x)
         /\ \A x, y, z \in Syms : Above(x, y) /\ Above(y, z) => Above(x, z)
<1>1. \A x \in Syms : Count(x) \in Nat /\ x \in Nat
  BY WidthsOK DEF Types, Count
<1>2. QED BY <1>1 DEF Above

LEMMA SwappedFacts ==
  ASSUME Types, NEW a \in 0..(n - 1), NEW b \in 0..(n - 1)
  PROVE  /\ Swapped(a, b) \in Seq(Syms) /\ Len(Swapped(a, b)) = n
         /\ Swapped(a, b)[a + 1] = Lit(b) /\ Swapped(a, b)[b + 1] = Lit(a)
         /\ \A k \in 0..(n - 1) : k # a /\ k # b => Swapped(a, b)[k + 1] = Lit(k)
<1>1. PICK m \in Nat, s \in Seq(Syms) : s = lits /\ m = n /\ m = Len(s)
  BY DEF Types, n
<1>2. \A k \in 1..m : s[k] \in Syms
  BY <1>1
<1>3. a \in 0..(m - 1) /\ b \in 0..(m - 1)
  BY <1>1
<1>4. PICK f : f = [k \in 1..m |-> IF k = a + 1 THEN s[b + 1]
                                   ELSE IF k = b + 1 THEN s[a + 1] ELSE s[k]]
  OBVIOUS
<1>5. f \in [1..m -> Syms]
  <2>1. s[a + 1] \in Syms /\ s[b + 1] \in Syms
    BY <1>1, <1>2, <1>3
  <2>2. ASSUME NEW k \in 1..m PROVE f[k] \in Syms
    <3>1. s[k] \in Syms
      BY <1>2
    <3>2. f[k] = s[b + 1] \/ f[k] = s[a + 1] \/ f[k] = s[k]
      BY <1>4
    <3>3. QED BY <2>1, <3>1, <3>2, Zenon
  <2>3. f = [k \in 1..m |-> f[k]]
    BY <1>4
  <2>4. QED BY <2>2, <2>3
<1>6. f \in Seq(Syms) /\ Len(f) = m
  BY <1>1, <1>5
<1>7. /\ f[a + 1] = s[b + 1] /\ f[b + 1] = s[a + 1]
      /\ \A k \in 0..(m - 1) : k # a /\ k # b => f[k + 1] = s[k + 1]
  BY <1>1, <1>3, <1>4
<1>8. Swapped(a, b) = f
  BY <1>1, <1>4 DEF Swapped
<1>9. QED BY <1>1, <1>6, <1>7, <1>8 DEF Lit

LEMMA SwappedSame ==
  ASSUME Types, NEW a \in 0..(n - 1), NEW b \in 0..(n - 1), NEW S, OneEach(lits, S)
  PROVE  OneEach(Swapped(a, b), S)
<1>1. PICK f : f = Swapped(a, b)
  OBVIOUS
<1>2. /\ f \in Seq(Syms) /\ Len(f) = n
      /\ f[a + 1] = Lit(b) /\ f[b + 1] = Lit(a)
      /\ \A k \in 0..(n - 1) : k # a /\ k # b => f[k + 1] = Lit(k)
  BY <1>1, SwappedFacts
<1>3. PICK m \in Nat : m = n /\ m = Len(lits)
  BY DEF Types, n
<1>4. /\ \A c, d \in 0..(m - 1) : c # d => Lit(c) # Lit(d)
      /\ \A x : x \in S <=> \E k \in 0..(m - 1) : Lit(k) = x
  BY <1>3 DEF OneEach, Lit
<1>5. ASSUME NEW c \in 0..(m - 1), NEW d \in 0..(m - 1), c # d
      PROVE  f[c + 1] # f[d + 1]
  <2>1. PICK x \in 0..(m - 1) : f[c + 1] = Lit(x) /\ x = IF c = a THEN b ELSE IF c = b THEN a ELSE c
    BY <1>2, <1>3
  <2>2. PICK y \in 0..(m - 1) : f[d + 1] = Lit(y) /\ y = IF d = a THEN b ELSE IF d = b THEN a ELSE d
    BY <1>2, <1>3
  <2>3. x # y
    BY <1>5, <2>1, <2>2
  <2>4. QED BY <1>4, <2>1, <2>2, <2>3
<1>6. \A x : x \in S <=> \E k \in 0..(m - 1) : f[k + 1] = x
  BY <1>2, <1>3, <1>4
<1>7. QED BY <1>1, <1>2, <1>3, <1>5, <1>6 DEF OneEach

\* Two elements of the interval that is being sorted may change places.
LEMMA SwappedPlaced ==
  ASSUME Types, todo # <<>>, Apart(todo, n), Placed(lits, todo),
         NEW a \in Left..Right, NEW b \in Left..Right
  PROVE  a \in 0..(n - 1) /\ b \in 0..(n - 1) /\ Placed(Swapped(a, b), todo)
<1>1. PICK m \in Nat : m = n /\ m = Len(lits)
  BY DEF Types, n
<1>2. PICK lo \in Int, hi \in Int : lo = Left /\ hi = Right
  BY DEF Types, Left, Right
<1>3. 1 \in DOMAIN todo /\ todo[1][1] = lo /\ todo[1][2] = hi
  BY <1>2 DEF Types, Left, Right
<1>4. 0 <= lo /\ hi < m
  BY <1>1, <1>3 DEF Apart
<1>5. a \in 0..(m - 1) /\ b \in 0..(m - 1) /\ a \in lo..hi /\ b \in lo..hi
  BY <1>1, <1>2, <1>4
<1>6. PICK f : f = Swapped(a, b)
  OBVIOUS
<1>7. /\ Len(f) = m
      /\ f[a + 1] = Lit(b) /\ f[b + 1] = Lit(a)
      /\ \A k \in 0..(m - 1) : k # a /\ k # b => f[k + 1] = Lit(k)
  BY <1>1, <1>5, <1>6, SwappedFacts
<1>8. ASSUME NEW c \in 0..(m - 1), NEW d \in 0..(m - 1), c < d, ~Held(todo, c, d)
      PROVE  Above(f[c + 1], f[d + 1])
  <2>1. ~(c \in lo..hi /\ d \in lo..hi)
    BY <1>3, <1>8 DEF Held
  <2>2. \A x, y \in 0..(m - 1) : x < y => Above(Lit(x), Lit(y)) \/ Held(todo, x, y)
    BY <1>1 DEF Placed, Lit
  \* One inside, one outside.
  <2>3. ASSUME NEW x \in lo..hi, NEW y \in 0..(m - 1), y \notin lo..hi
        PROVE  ~Held(todo, x, y) /\ ~Held(todo, y, x)
    <3>1. SUFFICES ASSUME NEW u \in DOMAIN todo, {x, y} \subseteq todo[u][1]..todo[u][2]
                   PROVE  FALSE
      BY DEF Held
    <3>2. todo[u][1] \in Int /\ todo[u][2] \in Int
      BY <3>1 DEF Types
    <3>3. u # 1
      BY <1>3, <2>3, <3>1
    <3>4. todo[u][2] < lo \/ hi < todo[u][1]
      BY <1>3, <3>1, <3>3 DEF Apart
    <3>5. QED BY <2>3, <3>1, <3>2, <3>4
  <2>4. CASE c \notin lo..hi /\ d \notin lo..hi
    <3>1. f[c + 1] = Lit(c) /\ f[d + 1] = Lit(d)
      BY <1>5, <1>7, <2>4
    <3>2. QED BY <1>8, <2>2, <3>1
  <2>5. CASE c \in lo..hi /\ d \notin lo..hi
    <3>1. f[d + 1] = Lit(d) /\ d > hi
      BY <1>5, <1>7, <1>8, <2>5
    <3>2. PICK x \in lo..hi : f[c + 1] = Lit(x)
      BY <1>5, <1>7, <2>5
    <3>3. x \in 0..(m - 1) /\ x < d
      BY <1>4, <3>1
    <3>4. ~Held(todo, x, d)
      BY <2>3, <2>5
    <3>5. QED BY <2>2, <3>1, <3>2, <3>3, <3>4
  <2>6. CASE c \notin lo..hi /\ d \in lo..hi
    <3>1. f[c + 1] = Lit(c) /\ c < lo
      BY <1>5, <1>7, <1>8, <2>6
    <3>2. PICK x \in lo..hi : f[d + 1] = Lit(x)
      BY <1>5, <1>7, <2>6
    <3>3. x \in 0..(m - 1) /\ c < x
      BY <1>4, <3>1
    <3>4. ~Held(todo, c, x)
      BY <2>3, <2>6
    <3>5. QED BY <2>2, <3>1, <3>2, <3>3, <3>4
  <2>7. QED BY <2>1, <2>4, <2>5, <2>6
<1>9. Placed(f, todo)
  BY <1>7, <1>8 DEF Placed
<1>10. QED BY <1>1, <1>5, <1>6, <1>9

-----------------------------------------------------------------------------
\* Head and tail of the stack.
LEMMA StackFacts ==
  ASSUME Types, todo # <<>>
  PROVE  /\ Left \in Int /\ Right \in Int
         /\ 1 \in DOMAIN todo /\ todo[1][1] = Left /\ todo[1][2] = Right
         /\ Tail(todo) \in Seq(Int \X Int)
         /\ \A u \in DOMAIN Tail(todo) : u + 1 \in DOMAIN todo /\ Tail(todo)[u] = todo[u + 1]
         /\ \A u \in DOMAIN todo : u = 1 \/ (u - 1 \in DOMAIN Tail(todo)
                                             /\ Tail(todo)[u - 1] = todo[u])
<1>1. PICK t \in Seq(Int \X Int) : t = todo /\ t # <<>>
  BY DEF Types
<1>2. Len(t) \in Nat \ {0} /\ DOMAIN t = 1..Len(t) /\ t[1] \in Int \X Int
  BY <1>1
<1>3. Head(t) = t[1]
  BY <1>1
<1>4. /\ Tail(t) \in Seq(Int \X Int) /\ Len(Tail(t)) = Len(t) - 1
      /\ DOMAIN Tail(t) = 1..(Len(t) - 1)
      /\ \A u \in 1..(Len(t) - 1) : Tail(t)[u] = t[u + 1]
  BY <1>1, <1>2
<1>5. \A u \in DOMAIN Tail(t) : u + 1 \in DOMAIN t /\ Tail(t)[u] = t[u + 1]
  BY <1>2, <1>4
<1>6. \A u \in DOMAIN t : u = 1 \/ (u - 1 \in DOMAIN Tail(t) /\ Tail(t)[u - 1] = t[u])
  BY <1>2, <1>4
<1>7. QED BY <1>1, <1>2, <1>3, <1>4, <1>5, <1>6 DEF Left, Right

LEMMA LengthFacts ==
  ASSUME Types
  PROVE  n \in Nat /\ n = Len(lits)
BY DEF Types, n

LEMMA PushTwo ==
  ASSUME NEW S, NEW x \in S, NEW y \in S, NEW r \in Seq(S)
  PROVE  LET t == <<x, y>> \o r
         IN  /\ t \in Seq(S) /\ DOMAIN t = 1..(Len(r) + 2) /\ t[1] = x /\ t[2] = y
             /\ \A u \in 1..Len(r) : t[u + 2] = r[u]
OBVIOUS

\* An interval that is in order needs no longer be remembered.
LEMMA HeadSorted ==
  ASSUME Types, todo # <<>>, Placed(lits, todo), Apart(todo, n),
         \A a, b \in Left..Right : a < b => Above(Lit(a), Lit(b))
  PROVE  Placed(lits, Tail(todo)) /\ Apart(Tail(todo), n)
<1>1. Apart(Tail(todo), n)
  <2>1. \A u \in DOMAIN Tail(todo) : u + 1 \in DOMAIN todo /\ Tail(todo)[u] = todo[u + 1]
    BY StackFacts
  <2>2. DOMAIN Tail(todo) \subseteq Nat
    BY StackFacts
  <2>3. \A u, v \in DOMAIN Tail(todo) : u # v => u + 1 # v + 1
    BY <2>2
  <2>4. QED BY <2>1, <2>3 DEF Apart
<1>2. ASSUME NEW a \in 0..(Len(lits) - 1), NEW b \in 0..(Len(lits) - 1), a < b
      PROVE  Above(lits[a + 1], lits[b + 1]) \/ Held(Tail(todo), a, b)
  <2>1. Above(lits[a + 1], lits[b + 1]) \/ Held(todo, a, b)
    BY <1>2 DEF Placed
  <2>2. CASE Held(todo, a, b)
    <3>1. PICK u \in DOMAIN todo : {a, b} \subseteq todo[u][1]..todo[u][2]
      BY <2>2 DEF Held
    <3>2. CASE u = 1
      BY <1>2, <3>1, <3>2, StackFacts DEF Lit
    <3>3. CASE u # 1
      <4>1. u - 1 \in DOMAIN Tail(todo) /\ Tail(todo)[u - 1] = todo[u]
        BY <3>3, StackFacts
      <4>2. QED BY <3>1, <4>1 DEF Held
    <3>4. QED BY <3>2, <3>3
  <2>3. QED BY <2>1, <2>2
<1>3. QED BY <1>1, <1>2 DEF Placed

\* The two parts of an interval, and the other intervals.
Parts(t, r, lo, p, hi) ==
  /\ \E u, v \in DOMAIN t : t[u] = <<lo, p - 1>> /\ t[v] = <<p + 1, hi>>
  /\ \A u \in DOMAIN r : \E v \in DOMAIN t : t[v] = r[u]
  /\ \A u, v \in DOMAIN t : u # v =>
       \/ t[u] = <<lo, p - 1>> /\ t[v] = <<p + 1, hi>>
       \/ t[v] = <<lo, p - 1>> /\ t[u] = <<p + 1, hi>>
       \/ \E x \in DOMAIN r : t[u] = r[x] /\ t[v] \in {<<lo, p - 1>>, <<p + 1, hi>>}
       \/ \E x \in DOMAIN r : t[v] = r[x] /\ t[u] \in {<<lo, p - 1>>, <<p + 1, hi>>}
       \/ \E x, y \in DOMAIN r : x # y /\ t[u] = r[x] /\ t[v] = r[y]
  /\ \A u \in DOMAIN t : t[u] \in {<<lo, p - 1>>, <<p + 1, hi>>} \/ \E x \in DOMAIN r : t[u] = r[x]

LEMMA PushedParts ==
  ASSUME NEW lo \in Int, NEW p \in Int, NEW hi \in Int, NEW r \in Seq(Int \X Int), NEW t,
         lo <= p,
         \/ t = <<<<lo, p - 1>>, <<p + 1, hi>>>> \o r
         \/ t = <<<<p + 1, hi>>, <<lo, p - 1>>>> \o r
  PROVE  t \in Seq(Int \X Int) /\ Parts(t, r, lo, p, hi)
<1>1. PICK x \in Int \X Int, y \in Int \X Int :
        /\ {x, y} = {<<lo, p - 1>>, <<p + 1, hi>>} /\ t = <<x, y>> \o r
  <2>1. <<lo, p - 1>> \in Int \X Int /\ <<p + 1, hi>> \in Int \X Int
    OBVIOUS
  <2>2. QED BY <2>1
<1>2. /\ t \in Seq(Int \X Int) /\ DOMAIN t = 1..(Len(r) + 2) /\ t[1] = x /\ t[2] = y
      /\ \A u \in 1..Len(r) : t[u + 2] = r[u]
  BY <1>1, PushTwo
<1>3. PICK m \in Nat : m = Len(r) /\ DOMAIN r = 1..m
  OBVIOUS
<1>4. ASSUME NEW u \in 1..(m + 2) PROVE u = 1 \/ u = 2 \/ (u - 2 \in 1..m /\ t[u] = r[u - 2])
  <2>1. u = 1 \/ u = 2 \/ u - 2 \in 1..m
    BY <1>4
  <2>2. (u - 2) + 2 = u
    BY <1>4
  <2>3. QED BY <1>2, <1>3, <2>1, <2>2
<1>5. \A u \in 1..m : u + 2 \in 1..(m + 2) /\ t[u + 2] = r[u]
  BY <1>2, <1>3
<1>6. 1 \in 1..(m + 2) /\ 2 \in 1..(m + 2)
  OBVIOUS
<1>7. /\ x = <<lo, p - 1>> \/ x = <<p + 1, hi>>
      /\ x = <<lo, p - 1>> => y = <<p + 1, hi>>
      /\ x = <<p + 1, hi>> => y = <<lo, p - 1>>
  <2>1. <<lo, p - 1>> # <<p + 1, hi>>
    OBVIOUS
  <2>2. QED BY <1>1, <2>1
<1>8. \E u, v \in DOMAIN t : t[u] = <<lo, p - 1>> /\ t[v] = <<p + 1, hi>>
  BY <1>2, <1>3, <1>6, <1>7, Zenon
<1>9. \A u \in DOMAIN r : \E v \in DOMAIN t : t[v] = r[u]
  BY <1>2, <1>3, <1>5, Zenon
<1>10. ASSUME NEW u \in DOMAIN t, NEW v \in DOMAIN t, u # v
      PROVE  \/ t[u] = <<lo, p - 1>> /\ t[v] = <<p + 1, hi>>
             \/ t[v] = <<lo, p - 1>> /\ t[u] = <<p + 1, hi>>
             \/ \E a \in DOMAIN r : t[u] = r[a] /\ t[v] \in {<<lo, p - 1>>, <<p + 1, hi>>}
             \/ \E a \in DOMAIN r : t[v] = r[a] /\ t[u] \in {<<lo, p - 1>>, <<p + 1, hi>>}
             \/ \E a, b \in DOMAIN r : a # b /\ t[u] = r[a] /\ t[v] = r[b]
  <2>1. u \in 1..(m + 2) /\ v \in 1..(m + 2)
    BY <1>2, <1>3, <1>10
  <2>2. u - 2 # v - 2
    BY <1>10, <2>1
  <2>3. /\ u = 1 \/ u = 2 \/ (u - 2 \in 1..m /\ t[u] = r[u - 2])
        /\ v = 1 \/ v = 2 \/ (v - 2 \in 1..m /\ t[v] = r[v - 2])
    BY <1>4, <2>1
  <2>4. CASE u \in {1, 2} /\ v \in {1, 2}
    <3>1. (u = 1 /\ v = 2) \/ (u = 2 /\ v = 1)
      BY <1>10, <2>4
    <3>2. QED BY <1>2, <1>7, <3>1, Zenon
  <2>5. CASE u \in {1, 2} /\ v \notin {1, 2}
    BY <1>2, <1>3, <2>3, <1>7, <2>5, Zenon
  <2>6. CASE u \notin {1, 2} /\ v \in {1, 2}
    BY <1>2, <1>3, <2>3, <1>7, <2>6, Zenon
  <2>7. CASE u \notin {1, 2} /\ v \notin {1, 2}
    BY <1>3, <2>2, <2>3, <2>7, Zenon
  <2>8. QED BY <2>4, <2>5, <2>6, <2>7
<1>11. ASSUME NEW u \in DOMAIN t
       PROVE  t[u] \in {<<lo, p - 1>>, <<p + 1, hi>>} \/ \E a \in DOMAIN r : t[u] = r[a]
  <2>1. u \in 1..(m + 2)
    BY <1>2, <1>3, <1>11
  <2>2. u = 1 \/ u = 2 \/ (u - 2 \in 1..m /\ t[u] = r[u - 2])
    BY <1>4, <2>1
  <2>3. x \in {<<lo, p - 1>>, <<p + 1, hi>>} /\ y \in {<<lo, p - 1>>, <<p + 1, hi>>}
    BY <1>1
  <2>4. QED BY <1>2, <1>3, <2>2, <2>3, Zenon
<1>12. QED BY <1>2, <1>8, <1>9, <1>10, <1>11 DEF Parts

\* The pivot has the better ones in front and the worse ones behind.
LEMMA HeadSplit ==
  ASSUME Types, todo # <<>>, Apart(todo, n), NEW p \in Left..Right,
         NEW f \in Seq(Syms), Len(f) = n, Placed(f, todo),
         \A a \in Left..(p - 1) : Above(f[a + 1], f[p + 1]),
         \A b \in (p + 1)..Right : Above(f[p + 1], f[b + 1]),
         NEW t, Parts(t, Tail(todo), Left, p, Right)
  PROVE  Placed(f, t) /\ Apart(t, n)
<1>1. PICK lo \in Int, hi \in Int : lo = Left /\ hi = Right
  BY StackFacts
<1>2. PICK m \in Nat : m = n
  BY LengthFacts
<1>3. PICK r \in Seq(Int \X Int) : r = Tail(todo)
  BY StackFacts
<1>4. lo <= p /\ p <= hi /\ 0 <= lo /\ hi < m /\ p \in Int
  <2>1. 0 <= lo /\ hi < m
    BY <1>1, <1>2, StackFacts DEF Apart
  <2>2. QED BY <1>1, <2>1
<1>5. ASSUME NEW u \in DOMAIN r
      PROVE  /\ u + 1 \in DOMAIN todo /\ r[u] = todo[u + 1] /\ u + 1 # 1
             /\ r[u][1] \in Int /\ r[u][2] \in Int
  <2>1. u + 1 \in DOMAIN todo /\ r[u] = todo[u + 1]
    BY <1>3, <1>5, StackFacts
  <2>2. u \in Nat \ {0}
    BY <1>5
  <2>3. r[u] \in Int \X Int
    BY <1>5
  <2>4. QED BY <2>1, <2>2, <2>3
<1>6. ASSUME NEW u \in DOMAIN r
      PROVE  /\ 0 <= r[u][1] /\ r[u][2] < m
             /\ r[u][2] < lo \/ hi < r[u][1]
  <2>1. u + 1 \in DOMAIN todo /\ r[u] = todo[u + 1] /\ u + 1 # 1
    BY <1>5, <1>6
  <2>2. 1 \in DOMAIN todo /\ todo[1][1] = lo /\ todo[1][2] = hi
    BY <1>1, StackFacts
  <2>3. QED BY <1>2, <2>1, <2>2 DEF Apart
<1>7. ASSUME NEW u \in DOMAIN r, NEW v \in DOMAIN r, u # v
      PROVE  r[u][2] < r[v][1] \/ r[v][2] < r[u][1]
  <2>1. /\ u + 1 \in DOMAIN todo /\ r[u] = todo[u + 1] /\ v + 1 \in DOMAIN todo
        /\ r[v] = todo[v + 1]
    BY <1>5, <1>7
  <2>2. u + 1 # v + 1
    BY <1>7
  <2>3. QED BY <2>1, <2>2 DEF Apart
<1>8. Parts(t, r, lo, p, hi)
  BY <1>1, <1>3
<1>9. \A x \in {<<lo, p - 1>>, <<p + 1, hi>>} :
        x[1] \in lo..(p + 1) /\ x[2] \in (p - 1)..hi /\ (x[2] <= p - 1 \/ x[1] >= p + 1)
  BY <1>4
<1>10. Apart(t, n)
  <2>1. ASSUME NEW u \in DOMAIN t PROVE 0 <= t[u][1] /\ t[u][2] < m
    <3>1. t[u] \in {<<lo, p - 1>>, <<p + 1, hi>>} \/ \E x \in DOMAIN r : t[u] = r[x]
      BY <1>8, <2>1 DEF Parts
    <3>2. CASE t[u] \in {<<lo, p - 1>>, <<p + 1, hi>>}
      BY <1>4, <1>9, <3>2
    <3>3. CASE \E x \in DOMAIN r : t[u] = r[x]
      BY <1>6, <3>3
    <3>4. QED BY <3>1, <3>2, <3>3
  <2>2. ASSUME NEW x \in {<<lo, p - 1>>, <<p + 1, hi>>}, NEW y \in DOMAIN r
        PROVE  x[2] < r[y][1] \/ r[y][2] < x[1]
    <3>1. x[1] \in lo..(p + 1) /\ x[2] \in (p - 1)..hi
      BY <1>9, <2>2
    <3>2. r[y][2] < lo \/ hi < r[y][1]
      BY <1>6, <2>2
    <3>3. r[y][1] \in Int /\ r[y][2] \in Int
      BY <1>5, <2>2
    <3>4. QED BY <1>4, <3>1, <3>2, <3>3
  <2>3. ASSUME NEW u \in DOMAIN t, NEW v \in DOMAIN t, u # v
        PROVE  t[u][2] < t[v][1] \/ t[v][2] < t[u][1]
    <3>1. \/ t[u] = <<lo, p - 1>> /\ t[v] = <<p + 1, hi>>
          \/ t[v] = <<lo, p - 1>> /\ t[u] = <<p + 1, hi>>
          \/ \E x \in DOMAIN r : t[u] = r[x] /\ t[v] \in {<<lo, p - 1>>, <<p + 1, hi>>}
          \/ \E x \in DOMAIN r : t[v] = r[x] /\ t[u] \in {<<lo, p - 1>>, <<p + 1, hi>>}
          \/ \E x, y \in DOMAIN r : x # y /\ t[u] = r[x] /\ t[v] = r[y]
      BY <1>8, <2>3 DEF Parts
    <3>2. CASE \/ t[u] = <<lo, p - 1>> /\ t[v] = <<p + 1, hi>>
               \/ t[v] = <<lo, p - 1>> /\ t[u] = <<p + 1, hi>>
      BY <1>4, <3>2
    <3>3. CASE \/ \E x \in DOMAIN r : t[u] = r[x] /\ t[v] \in {<<lo, p - 1>>, <<p + 1, hi>>}
               \/ \E x \in DOMAIN r : t[v] = r[x] /\ t[u] \in {<<lo, p - 1>>, <<p + 1, hi>>}
      BY <2>2, <3>3
    <3>4. CASE \E x, y \in DOMAIN r : x # y /\ t[u] = r[x] /\ t[v] = r[y]
      BY <1>7, <3>4
    <3>5. QED BY <3>1, <3>2, <3>3, <3>4
  <2>4. QED BY <1>2, <2>1, <2>3 DEF Apart
<1>11. ASSUME NEW a \in 0..(Len(f) - 1), NEW b \in 0..(Len(f) - 1), a < b
       PROVE  Above(f[a + 1], f[b + 1]) \/ Held(t, a, b)
  <2>1. Above(f[a + 1], f[b + 1]) \/ Held(todo, a, b)
    BY <1>11 DEF Placed
  <2>2. CASE Held(todo, a, b)
    <3>1. PICK u \in DOMAIN todo : {a, b} \subseteq todo[u][1]..todo[u][2]
      BY <2>2 DEF Held
    <3>2. CASE u # 1
      <4>1. u - 1 \in DOMAIN r /\ r[u - 1] = todo[u]
        BY <1>3, <3>2, StackFacts
      <4>2. PICK v \in DOMAIN t : t[v] = todo[u]
        BY <1>8, <4>1 DEF Parts
      <4>3. QED BY <3>1, <4>2 DEF Held
    <3>3. CASE u = 1
      <4>1. a \in lo..hi /\ b \in lo..hi
        BY <1>1, <3>1, <3>3, StackFacts
      <4>2. PICK x, y \in DOMAIN t : t[x] = <<lo, p - 1>> /\ t[y] = <<p + 1, hi>>
        BY <1>8 DEF Parts
      <4>3. CASE b < p
        <5>1. {a, b} \subseteq t[x][1]..t[x][2]
          BY <1>4, <1>11, <4>1, <4>2, <4>3
        <5>2. QED BY <5>1 DEF Held
      <4>4. CASE a > p
        <5>1. {a, b} \subseteq t[y][1]..t[y][2]
          BY <1>4, <1>11, <4>1, <4>2, <4>4
        <5>2. QED BY <5>1 DEF Held
      <4>5. CASE a <= p /\ p <= b
        <5>1. a \in Left..(p - 1) \/ a = p
          BY <1>1, <1>4, <4>1, <4>5
        <5>2. b \in (p + 1)..Right \/ b = p
          BY <1>1, <1>4, <4>1, <4>5
        <5>3. a # b
          BY <1>11
        <5>4. p \in 0..(m - 1) /\ a \in 0..(m - 1) /\ b \in 0..(m - 1)
          BY <1>4, <4>1
        <5>5. f[a + 1] \in Syms /\ f[b + 1] \in Syms /\ f[p + 1] \in Syms
          <6>1. p + 1 \in 1..m /\ a + 1 \in 1..m /\ b + 1 \in 1..m
            BY <5>4
          <6>2. QED BY <1>2, <6>1
        <5>6. /\ a # p => Above(f[a + 1], f[p + 1])
              /\ b # p => Above(f[p + 1], f[b + 1])
          BY <5>1, <5>2
        <5>7. \A x1, y1, z1 \in Syms : Above(x1, y1) /\ Above(y1, z1) => Above(x1, z1)
          BY AboveOrder
        <5>8. CASE a # p /\ b # p
          BY <5>5, <5>6, <5>7, <5>8
        <5>9. CASE a = p \/ b = p
          BY <5>3, <5>6, <5>9
        <5>10. QED BY <5>8, <5>9
      <4>6. QED BY <1>4, <1>11, <4>1, <4>3, <4>4, <4>5
    <3>4. QED BY <3>2, <3>3
  <2>3. QED BY <2>1, <2>2
<1>12. QED BY <1>10, <1>11 DEF Placed

-----------------------------------------------------------------------------
(***************************************************************************)
(* The steps of the sort.                                                  *)
(***************************************************************************)
LEMMA OneEachNone ==
  /\ OneEach(<<>>, {}) /\ Placed(<<>>, <<>>) /\ Apart(<<>>, 0)
<1>1. Len(<<>>) = 0 /\ 0..(0 - 1) = {} /\ DOMAIN <<>> = {}
  OBVIOUS
<1>2. QED BY <1>1 DEF OneEach, Placed, Apart

LEMMA OneEachMore ==
  ASSUME NEW T, NEW s \in Seq(T), NEW x \in T, NEW S, x \notin S, OneEach(s, S)
  PROVE  OneEach(Append(s, x), S \cup {x})
<1>1. PICK m \in Nat : m = Len(s)
  OBVIOUS
<1>2. PICK u : u = Append(s, x)
  OBVIOUS
<1>3. Len(u) = m + 1 /\ u[m + 1] = x /\ \A k \in 0..(m - 1) : u[k + 1] = s[k + 1]
  BY <1>1, <1>2
<1>4. /\ \A a, b \in 0..(m - 1) : a # b => s[a + 1] # s[b + 1]
      /\ \A y : y \in S <=> \E k \in 0..(m - 1) : s[k + 1] = y
  BY <1>1 DEF OneEach
<1>5. \A k \in 0..m : k = m \/ k \in 0..(m - 1)
  OBVIOUS
<1>6. \A a, b \in 0..m : a # b => u[a + 1] # u[b + 1]
  BY <1>3, <1>4, <1>5
<1>7. \A y : y \in S \cup {x} <=> \E k \in 0..m : u[k + 1] = y
  <2>1. \A k \in 0..(m - 1) : k \in 0..m
    OBVIOUS
  <2>2. m \in 0..m
    OBVIOUS
  <2>3. QED BY <1>3, <1>4, <1>5, <2>1, <2>2
<1>8. QED BY <1>2, <1>3, <1>6, <1>7 DEF OneEach

LEMMA GenerateSort ==
  ASSUME NEW m \in Nat, NEW l \in Nat, NEW h \in [0..m -> Nat], Generate(h, l)
  PROVE  SortInv'
<1>1. pc' = "collect" /\ lits' = <<>> /\ i' = 0 /\ hist' = h
  BY DEF Generate
<1>2. {s \in Occur' : s < 0} = {}
  BY <1>1 DEF Occur, Syms
<1>3. OneEach(<<>>, {s \in Occur' : s < 0})
  BY <1>2, OneEachNone
<1>4. QED BY <1>1, <1>3 DEF SortInv, OneEach, Sorts

LEMMA CollectSort ==
  ASSUME Types, SortInv, Collect
  PROVE  SortInv'
<1>1. /\ pc = "collect" /\ pc' = "collect" /\ i \in Syms /\ i' = i + 1 /\ hist' = hist
      /\ lits' = IF hist[i] # 0 THEN Append(lits, i) ELSE lits
  BY DEF Collect
<1>2. OneEach(lits, {s \in Occur : s < i}) /\ i \in Nat
  BY <1>1 DEF SortInv, Types
<1>3. hist[i] \in Nat /\ \A s \in Syms : s \in Nat
  BY <1>1 DEF Types
<1>4. CASE hist[i] # 0
  <2>1. {s \in Occur : s < i + 1} = {s \in Occur : s < i} \cup {i}
    <3>1. i \in Occur
      BY <1>1, <1>3, <1>4 DEF Occur
    <3>2. ASSUME NEW s \in Occur PROVE s < i + 1 <=> (s < i \/ s = i)
      BY <1>2, <1>3, <3>2 DEF Occur
    <3>3. QED BY <3>1, <3>2
  <2>2. i \notin {s \in Occur : s < i}
    BY <1>2
  <2>3. lits \in Seq(Syms)
    BY DEF Types
  <2>4. OneEach(Append(lits, i), {s \in Occur : s < i + 1})
    <3>1. OneEach(Append(lits, i), {s \in Occur : s < i} \cup {i})
      BY <1>1, <1>2, <2>2, <2>3, OneEachMore
    <3>2. QED BY <2>1, <3>1
  <2>5. QED BY <1>1, <1>2, <1>4, <2>4 DEF SortInv, OneEach, Occur, Syms, Sorts
<1>5. CASE hist[i] = 0
  <2>1. {s \in Occur : s < i + 1} = {s \in Occur : s < i}
    BY <1>2, <1>3, <1>5 DEF Occur
  <2>2. OneEach(lits, {s \in Occur : s < i + 1})
    BY <1>2, <2>1
  <2>3. QED BY <1>1, <1>2, <1>5, <2>2 DEF SortInv, OneEach, Occur, Syms, Sorts
<1>6. QED BY <1>4, <1>5

LEMMA CollectedSort ==
  ASSUME Types, SortInv, Collected
  PROVE  SortInv'
<1>1. /\ pc = "collect" /\ pc' = "sort" /\ i \notin Syms /\ hist' = hist /\ lits' = lits
      /\ todo' = <<<<0, n - 1>>>>
  BY DEF Collected
<1>2. OneEach(lits, {s \in Occur : s < i}) /\ 0 <= i
  BY <1>1 DEF SortInv
<1>3. {s \in Occur : s < i} = Occur
  <2>1. PICK m \in Nat : Syms = 0..(m - 1)
    BY DEF Types
  <2>2. i \in Int
    BY DEF Types
  <2>3. i >= m
    BY <1>1, <1>2, <2>1, <2>2
  <2>4. QED BY <2>1, <2>2, <2>3 DEF Occur
<1>4. PICK m \in Nat : m = n /\ m = Len(lits)
  BY LengthFacts
<1>5. PICK t : t = <<<<0, m - 1>>>>
  OBVIOUS
<1>6. DOMAIN t = {1} /\ t[1][1] = 0 /\ t[1][2] = m - 1
  BY <1>5
<1>7. Apart(t, m)
  BY <1>6 DEF Apart
<1>8. Placed(lits, t)
  <2>1. \A a, b \in 0..(m - 1) : Held(t, a, b)
    BY <1>6 DEF Held
  <2>2. QED BY <1>4, <2>1 DEF Placed
<1>9. OneEach(lits, Occur) /\ Placed(lits, todo') /\ Apart(todo', n)
  BY <1>1, <1>2, <1>3, <1>4, <1>5, <1>7, <1>8
<1>10. Occur' = Occur /\ n' = n
  BY <1>1 DEF Occur, Syms, n
<1>11. OneEach(lits, Occur)' /\ Placed(lits, todo)' /\ Apart(todo, n)'
  <2>1. OneEach(lits, Occur)'
    BY <1>1, <1>9, <1>10 DEF OneEach
  <2>2. Placed(lits, todo)'
    <3>1. \A a, b \in 0..(m - 1) : Held(t, a, b)
      BY <1>6 DEF Held
    <3>2. \A a, b \in 0..(m - 1) : Held(todo', a, b)
      BY <1>1, <1>4, <1>5, <3>1
    <3>3. QED BY <1>1, <1>4, <3>2 DEF Placed
  <2>3. Apart(todo, n)'
    BY <1>9, <1>10 DEF Apart
  <2>4. QED BY <2>1, <2>2, <2>3
<1>12. QED BY <1>1, <1>11 DEF SortInv, Sorts

\* Nothing has changed places.
LEMMA SameOrder ==
  ASSUME hist' = hist, lits' = lits, todo' = todo,
         OneEach(lits, Occur), Placed(lits, todo), Apart(todo, n)
  PROVE  OneEach(lits, Occur)' /\ Placed(lits, todo)' /\ Apart(todo, n)'
<1>1. Occur' = Occur /\ n' = n
  BY DEF Occur, Syms, n
<1>2. QED BY <1>1 DEF OneEach, Placed, Apart, Above, Count, Held

LEMMA StartInsertSort ==
  ASSUME Types, SortInv, StartInsert
  PROVE  SortInv'
<1>1. /\ pc = "sort" /\ pc' = "insert" /\ hist' = hist /\ lits' = lits /\ todo' = todo
      /\ todo # <<>> /\ i' = Left + 1 /\ j' = Left + 1
  BY DEF StartInsert
<1>2. OneEach(lits, Occur)' /\ Placed(lits, todo)' /\ Apart(todo, n)'
  BY <1>1, SameOrder DEF SortInv
<1>3. PICK lo \in Int, hi \in Int : lo = Left /\ hi = Right
  BY <1>1, StackFacts
<1>4. Left' = lo /\ Right' = hi
  BY <1>1, <1>3 DEF Left, Right
<1>5. Inserting'
  <2>1. ASSUME NEW a \in lo..hi, NEW b \in lo..hi, a < b, b <= lo + 1, b # lo + 1
        PROVE  FALSE
    BY <2>1
  <2>2. QED BY <1>1, <1>3, <1>4, <2>1 DEF Inserting
<1>6. QED BY <1>1, <1>2, <1>5 DEF SortInv, Sorts

LEMMA NextInsertSort ==
  ASSUME Types, SortInv, NextInsert
  PROVE  SortInv'
<1>1. /\ pc = "insert" /\ pc' = "insert" /\ hist' = hist /\ lits' = lits /\ todo' = todo
      /\ i' = i + 1 /\ j' = i + 1 /\ i <= Right /\ ~Sinks
  BY DEF NextInsert
<1>2. OneEach(lits, Occur)' /\ Placed(lits, todo)' /\ Apart(todo, n)'
  BY <1>1, SameOrder DEF SortInv
<1>3. Inserting /\ todo # <<>>
  BY <1>1 DEF SortInv, Inserting
<1>4. PICK lo \in Int, hi \in Int : lo = Left /\ hi = Right
  BY <1>3, StackFacts
<1>5. Left' = lo /\ Right' = hi
  BY <1>1, <1>4 DEF Left, Right
<1>6. PICK x \in Int, y \in Int : x = i /\ y = j
  BY DEF Types
<1>7. /\ lo < x /\ lo <= y /\ y <= x /\ x <= hi
      /\ \A a, b \in lo..hi : a < b /\ b <= x /\ b # y => Above(Lit(a), Lit(b))
  BY <1>1, <1>3, <1>4, <1>6 DEF Inserting
<1>8. PICK m \in Nat : m = n /\ m = Len(lits)
  BY LengthFacts
<1>9. 0 <= lo /\ hi < m
  BY <1>1, <1>3, <1>4, <1>8, StackFacts DEF SortInv, Apart
<1>10. ASSUME NEW a \in lo..hi, a < y PROVE Above(Lit(a), Lit(y))
  <2>1. y - 1 \in lo..hi /\ y \in lo..hi
    BY <1>7, <1>10
  <2>2. \A k \in lo..hi : k \in 0..(m - 1) /\ Lit(k) \in Syms
    <3>1. ASSUME NEW k \in lo..hi PROVE k \in 0..(m - 1) /\ Lit(k) \in Syms
      <4>1. k + 1 \in 1..m /\ k \in 0..(m - 1)
        BY <1>9
      <4>2. QED BY <1>8, <4>1 DEF Types, Lit
    <3>2. QED BY <3>1
  <2>3. ~Above(Lit(y), Lit(y - 1))
    BY <1>1, <1>4, <1>6, <1>10 DEF Sinks
  <2>4. Lit(y) # Lit(y - 1)
    <3>1. OneEach(lits, Occur)
      BY <1>1 DEF SortInv
    <3>2. y # y - 1
      OBVIOUS
    <3>3. QED BY <1>8, <2>1, <2>2, <3>1, <3>2 DEF OneEach, Lit
  <2>5. Above(Lit(y - 1), Lit(y))
    BY <2>1, <2>2, <2>3, <2>4, AboveOrder
  <2>6. CASE a = y - 1
    BY <2>5, <2>6
  <2>7. CASE a < y - 1
    <3>1. Above(Lit(a), Lit(y - 1))
      <4>1. y - 1 <= x /\ y - 1 # y
        BY <1>7
      <4>2. QED BY <1>7, <2>1, <2>7, <4>1
    <3>2. QED BY <2>1, <2>2, <2>5, <3>1, AboveOrder
  <2>8. QED BY <1>10, <2>6, <2>7
<1>11. \A a, b \in lo..hi : a < b /\ b <= x + 1 /\ b # x + 1 => Above(Lit(a), Lit(b))
  <2>1. SUFFICES ASSUME NEW a \in lo..hi, NEW b \in lo..hi, a < b, b <= x
                 PROVE  Above(Lit(a), Lit(b))
    OBVIOUS
  <2>2. QED BY <1>7, <1>10, <2>1
<1>12. Inserting'
  <2>1. \A a, b \in lo..hi : a < b /\ b <= i' /\ b # j' => Above(Lit(a), Lit(b))'
    BY <1>1, <1>6, <1>11 DEF Lit, Above, Count
  <2>2. QED BY <1>1, <1>3, <1>5, <1>6, <1>7, <2>1 DEF Inserting
<1>13. QED BY <1>1, <1>2, <1>12 DEF SortInv, Sorts

\* What is in order stays in order as long as the counts do.
LEMMA PlacedNext ==
  ASSUME hist' = hist, NEW s, NEW t, lits' = s, todo' = t, Placed(s, t)
  PROVE  Placed(lits, todo)'
<1>1. \A a, b \in 0..(Len(s) - 1) : a < b => Above(s[a + 1], s[b + 1])' \/ Held(t, a, b)
  BY DEF Placed, Above, Count
<1>2. QED BY <1>1 DEF Placed

\* Two elements of the interval that is being sorted change places.
LEMMA SwapStep ==
  ASSUME Types, SortInv, pc \in {"insert", "scan"}, NEW a \in Left..Right, NEW b \in Left..Right,
         hist' = hist, todo' = todo, lits' = Swapped(a, b)
  PROVE  /\ OneEach(lits, Occur)' /\ Placed(lits, todo)' /\ Apart(todo, n)'
         /\ Lit(a)' = Lit(b) /\ Lit(b)' = Lit(a)
         /\ \A k \in Left..Right : k # a /\ k # b => Lit(k)' = Lit(k)
<1>1. OneEach(lits, Occur) /\ Placed(lits, todo) /\ Apart(todo, n) /\ todo # <<>>
  BY DEF SortInv, Sorts, Scanning, Inserting
<1>2. a \in 0..(n - 1) /\ b \in 0..(n - 1) /\ Placed(Swapped(a, b), todo)
  BY <1>1, SwappedPlaced
<1>3. OneEach(Swapped(a, b), Occur)
  BY <1>1, <1>2, SwappedSame
<1>4. /\ Len(lits') = n /\ lits'[a + 1] = Lit(b) /\ lits'[b + 1] = Lit(a)
      /\ \A k \in 0..(n - 1) : k # a /\ k # b => lits'[k + 1] = Lit(k)
  BY <1>2, SwappedFacts
<1>5. Occur' = Occur /\ n' = n
  BY <1>4 DEF Occur, Syms, n
<1>6. OneEach(lits, Occur)' /\ Placed(lits, todo)' /\ Apart(todo, n)'
  <2>1. OneEach(lits, Occur)'
    BY <1>3, <1>5 DEF OneEach
  <2>2. Placed(lits, todo)'
    BY <1>2, PlacedNext
  <2>3. Apart(todo, n)'
    BY <1>1, <1>5 DEF Apart
  <2>4. QED BY <2>1, <2>2, <2>3
<1>7. \A k \in Left..Right : k \in 0..(n - 1)
  BY <1>1, LengthFacts, StackFacts DEF Apart
<1>8. QED BY <1>4, <1>6, <1>7 DEF Lit

LEMMA HeadFacts ==
  ASSUME Types, SortInv, pc \in {"insert", "scan"}
  PROVE  /\ todo # <<>> /\ Left \in Int /\ Right \in Int /\ 0 <= Left /\ Right < n
         /\ \A k \in Left..Right : k \in 0..(n - 1) /\ Lit(k) \in Syms
         /\ \A a, b \in Left..Right : a # b => Lit(a) # Lit(b)
<1>1. OneEach(lits, Occur) /\ Apart(todo, n) /\ todo # <<>>
  BY DEF SortInv, Sorts, Scanning, Inserting
<1>2. PICK lo \in Int, hi \in Int : lo = Left /\ hi = Right
  BY <1>1, StackFacts
<1>3. PICK m \in Nat : m = n /\ m = Len(lits)
  BY LengthFacts
<1>4. 0 <= lo /\ hi < m
  BY <1>1, <1>2, <1>3, StackFacts DEF Apart
<1>5. ASSUME NEW k \in lo..hi PROVE k \in 0..(m - 1) /\ Lit(k) \in Syms
  <2>1. k + 1 \in 1..m /\ k \in 0..(m - 1)
    BY <1>4
  <2>2. QED BY <1>3, <2>1 DEF Types, Lit
<1>6. \A a, b \in lo..hi : a # b => Lit(a) # Lit(b)
  BY <1>1, <1>3, <1>5 DEF OneEach, Lit
<1>7. QED BY <1>1, <1>2, <1>3, <1>4, <1>5, <1>6

LEMMA SinkSort ==
  ASSUME Types, SortInv, Sink
  PROVE  SortInv'
<1>1. /\ pc = "insert" /\ pc' = "insert" /\ hist' = hist /\ todo' = todo /\ i' = i
      /\ j' = j - 1 /\ lits' = Swapped(j - 1, j)
      /\ i <= Right /\ j > Left /\ Above(Lit(j), Lit(j - 1))
  BY DEF Sink, Sinks
<1>2. PICK lo \in Int, hi \in Int : lo = Left /\ hi = Right
  BY <1>1, HeadFacts
<1>3. Left' = lo /\ Right' = hi /\ todo # <<>>
  BY <1>1, <1>2, HeadFacts DEF Left, Right
<1>4. PICK x \in Int, y \in Int : x = i /\ y = j
  BY DEF Types
<1>5. /\ lo < x /\ lo < y /\ y <= x /\ x <= hi
      /\ \A a, b \in lo..hi : a < b /\ b <= x /\ b # y => Above(Lit(a), Lit(b))
  BY <1>1, <1>2, <1>4 DEF SortInv, Inserting
<1>6. y \in lo..hi /\ y - 1 \in lo..hi
  BY <1>5
<1>7. /\ OneEach(lits, Occur)' /\ Placed(lits, todo)' /\ Apart(todo, n)'
      /\ Lit(y - 1)' = Lit(y) /\ Lit(y)' = Lit(y - 1)
      /\ \A k \in lo..hi : k # y - 1 /\ k # y => Lit(k)' = Lit(k)
  BY <1>1, <1>2, <1>4, <1>6, SwapStep
<1>8. ASSUME NEW a \in lo..hi, NEW b \in lo..hi, a < b, b <= x, b # y - 1
      PROVE  Above(Lit(a)', Lit(b)')
  <2>1. CASE b = y
    <3>1. a = y - 1 \/ a < y - 1
      BY <1>8, <2>1
    <3>2. CASE a = y - 1
      BY <1>1, <1>4, <1>7, <2>1, <3>2
    <3>3. CASE a < y - 1
      <4>1. Lit(a)' = Lit(a)
        BY <1>7, <3>3
      <4>2. Above(Lit(a), Lit(y - 1))
        <5>1. y - 1 <= x /\ y - 1 # y
          BY <1>5
        <5>2. QED BY <1>5, <1>6, <3>3, <5>1
      <4>3. QED BY <1>7, <2>1, <4>1, <4>2
    <3>4. QED BY <3>1, <3>2, <3>3
  <2>2. CASE b # y
    <3>1. Lit(b)' = Lit(b)
      BY <1>7, <1>8, <2>2
    <3>2. PICK c \in lo..hi : Lit(a)' = Lit(c) /\ c < b
      <4>1. CASE a = y
        BY <1>6, <1>7, <1>8, <4>1
      <4>2. CASE a = y - 1
        BY <1>6, <1>7, <1>8, <2>2, <4>2
      <4>3. CASE a # y /\ a # y - 1
        BY <1>7, <1>8, <4>3
      <4>4. QED BY <4>1, <4>2, <4>3
    <3>3. Above(Lit(c), Lit(b))
      BY <1>5, <1>8, <2>2, <3>2
    <3>4. QED BY <3>1, <3>2, <3>3
  <2>3. QED BY <2>1, <2>2
<1>9. Inserting'
  <2>1. \A a, b \in lo..hi : a < b /\ b <= x /\ b # y - 1 => Above(Lit(a), Lit(b))'
    BY <1>1, <1>8 DEF Above, Count
  <2>2. lo < x /\ lo <= y - 1 /\ y - 1 <= x
    BY <1>5
  <2>3. QED BY <1>1, <1>3, <1>4, <1>5, <2>1, <2>2 DEF Inserting
<1>10. QED BY <1>1, <1>7, <1>9 DEF SortInv, Sorts

LEMMA InsertedSort ==
  ASSUME Types, SortInv, Inserted
  PROVE  SortInv'
<1>1. /\ pc = "insert" /\ pc' = "sort" /\ hist' = hist /\ lits' = lits /\ i > Right
      /\ todo' = Tail(todo)
  BY DEF Inserted
<1>2. Inserting /\ OneEach(lits, Occur) /\ Placed(lits, todo) /\ Apart(todo, n)
  BY <1>1 DEF SortInv, Sorts
<1>3. \A a, b \in Left..Right : a < b => Above(Lit(a), Lit(b))
  <2>1. i \in Int /\ j \in Int /\ Left \in Int /\ Right \in Int
    BY <1>1, HeadFacts DEF Types
  <2>2. j = i
    BY <1>1, <1>2, <2>1 DEF Inserting
  <2>3. \A b \in Left..Right : b <= i /\ b # j
    BY <1>1, <2>1, <2>2
  <2>4. QED BY <1>2, <2>3 DEF Inserting
<1>4. Placed(lits, Tail(todo)) /\ Apart(Tail(todo), n)
  BY <1>2, <1>3, HeadSorted DEF Inserting
<1>5. Occur' = Occur /\ n' = n
  BY <1>1 DEF Occur, Syms, n
<1>6. OneEach(lits, Occur)'
  BY <1>1, <1>2, <1>5 DEF OneEach
<1>7. Placed(lits, todo)'
  <2>1. PICK t : t = Tail(todo) /\ t = todo'
    BY <1>1
  <2>2. Placed(lits, t)
    BY <1>4, <2>1
  <2>3. QED BY <1>1, <2>1, <2>2, PlacedNext
<1>8. Apart(todo, n)'
  BY <1>1, <1>4, <1>5 DEF Apart
<1>9. QED BY <1>1, <1>6, <1>7, <1>8 DEF SortInv, Sorts

LEMMA StartScanSort ==
  ASSUME Types, SortInv, StartScan
  PROVE  SortInv'
<1>1. /\ pc = "sort" /\ pc' = "scan" /\ hist' = hist /\ lits' = lits /\ todo' = todo
      /\ todo # <<>> /\ i' = Left + 1 /\ j' = Right /\ Right - Left >= Cutoff
  BY DEF StartScan
<1>2. OneEach(lits, Occur)' /\ Placed(lits, todo)' /\ Apart(todo, n)'
  BY <1>1, SameOrder DEF SortInv
<1>3. PICK lo \in Int, hi \in Int : lo = Left /\ hi = Right
  BY <1>1, StackFacts
<1>4. Left' = lo /\ Right' = hi /\ lo < hi
  BY <1>1, <1>3, CutoffOK DEF Left, Right
<1>5. Scanning'
  <2>1. (lo + 1)..((lo + 1) - 1) = {} /\ (hi + 1)..hi = {}
    OBVIOUS
  <2>2. QED BY <1>1, <1>3, <1>4, <2>1 DEF Scanning
<1>6. QED BY <1>1, <1>2, <1>5 DEF SortInv, Sorts

LEMMA SortedSort ==
  ASSUME Types, SortInv, Sorted
  PROVE  SortInv'
<1>1. /\ pc = "sort" /\ hist' = hist /\ lits' = lits /\ todo' = todo /\ todo = <<>>
      /\ pc' \in {"measured", "first"}
  BY DEF Sorted, sortVars
<1>2. OneEach(lits, Occur)' /\ Placed(lits, todo)' /\ Apart(todo, n)'
  BY <1>1, SameOrder DEF SortInv
<1>3. QED BY <1>1, <1>2 DEF SortInv, Sorts

LEMMA ScanSort ==
  ASSUME Types, SortInv, Scan
  PROVE  SortInv'
<1>1. /\ pc = "scan" /\ pc' = "scan" /\ hist' = hist /\ todo' = todo /\ i <= j
      /\ lits' = Swapped(i, j) \/ lits' = lits
      /\ i' = IF Above(Lit(Left), lits'[i + 1]) THEN i ELSE i + 1
      /\ j' = IF Above(lits'[j + 1], Lit(Left)) THEN j ELSE j - 1
  BY DEF Scan
<1>2. PICK lo \in Int, hi \in Int : lo = Left /\ hi = Right
  BY <1>1, HeadFacts
<1>3. Left' = lo /\ Right' = hi /\ todo # <<>>
  BY <1>1, <1>2, HeadFacts DEF Left, Right
<1>4. PICK x \in Int, y \in Int : x = i /\ y = j
  BY DEF Types
<1>5. /\ lo < hi /\ lo < x /\ x <= y /\ y <= hi
      /\ \A a \in (lo + 1)..(x - 1) : Above(Lit(a), Lit(lo))
      /\ \A a \in (y + 1)..hi : Above(Lit(lo), Lit(a))
  BY <1>1, <1>2, <1>4 DEF SortInv, Scanning
<1>6. x \in lo..hi /\ y \in lo..hi /\ lo \in lo..hi
  BY <1>5
<1>7. /\ OneEach(lits, Occur)' /\ Placed(lits, todo)' /\ Apart(todo, n)'
      /\ \A k \in lo..hi : k # x /\ k # y => Lit(k)' = Lit(k)
      /\ (Lit(x)' = Lit(y) /\ Lit(y)' = Lit(x)) \/ (Lit(x)' = Lit(x) /\ Lit(y)' = Lit(y))
  <2>1. CASE lits' = Swapped(i, j)
    BY <1>1, <1>2, <1>4, <1>6, <2>1, SwapStep
  <2>2. CASE lits' = lits
    <3>1. OneEach(lits, Occur)' /\ Placed(lits, todo)' /\ Apart(todo, n)'
      BY <1>1, <2>2, SameOrder DEF SortInv, Sorts
    <3>2. QED BY <2>2, <3>1 DEF Lit
  <2>3. QED BY <1>1, <2>1, <2>2
<1>8. PICK p, e, f : p = Lit(lo) /\ e = Lit(x)' /\ f = Lit(y)'
  OBVIOUS
<1>9. /\ p \in Syms /\ e \in Syms /\ f \in Syms /\ e # p /\ f # p /\ Lit(lo)' = p
      /\ x = y => e = f
  <2>1. \A k \in lo..hi : Lit(k) \in Syms
    BY <1>1, <1>2, HeadFacts
  <2>2. \A a, b \in lo..hi : a # b => Lit(a) # Lit(b)
    BY <1>1, <1>2, HeadFacts
  <2>3. Lit(x) # p /\ Lit(y) # p
    BY <1>5, <1>6, <1>8, <2>2
  <2>4. Lit(lo)' = Lit(lo)
    BY <1>5, <1>6, <1>7
  <2>5. QED BY <1>6, <1>7, <1>8, <2>1, <2>3, <2>4
<1>10. /\ Above(e, p) \/ Above(p, e)
       /\ ~(Above(e, p) /\ Above(p, e))
       /\ Above(f, p) \/ Above(p, f)
       /\ ~(Above(f, p) /\ Above(p, f))
  BY <1>9, AboveOrder
<1>11. /\ i' = IF Above(p, e) THEN x ELSE x + 1
       /\ j' = IF Above(f, p) THEN y ELSE y - 1
  BY <1>1, <1>2, <1>4, <1>8 DEF Lit
<1>12. ASSUME NEW a \in (lo + 1)..(i' - 1) PROVE Above(Lit(a)', p)
  <2>1. CASE a \in (lo + 1)..(x - 1)
    <3>1. a \in lo..hi /\ a # x /\ a # y
      BY <1>5, <2>1
    <3>2. QED BY <1>5, <1>7, <1>8, <2>1, <3>1
  <2>2. CASE a \notin (lo + 1)..(x - 1)
    <3>1. a = x /\ ~Above(p, e)
      BY <1>5, <1>11, <1>12, <2>2
    <3>2. QED BY <1>8, <1>10, <3>1
  <2>3. QED BY <2>1, <2>2
<1>13. ASSUME NEW a \in (j' + 1)..hi PROVE Above(p, Lit(a)')
  <2>1. CASE a \in (y + 1)..hi
    <3>1. a \in lo..hi /\ a # x /\ a # y
      BY <1>5, <2>1
    <3>2. QED BY <1>5, <1>7, <1>8, <2>1, <3>1
  <2>2. CASE a \notin (y + 1)..hi
    <3>1. a = y /\ ~Above(f, p)
      BY <1>5, <1>11, <1>13, <2>2
    <3>2. QED BY <1>8, <1>10, <3>1
  <2>3. QED BY <2>1, <2>2
<1>14. lo < i' /\ i' <= j' + 1 /\ j' <= hi
  <2>1. CASE x = y
    <3>1. Above(p, e) \/ Above(f, p)
      BY <1>9, <1>10, <2>1
    <3>2. QED BY <1>5, <1>11, <2>1, <3>1
  <2>2. CASE x < y
    BY <1>5, <1>11, <2>2
  <2>3. QED BY <1>5, <2>1, <2>2
<1>15. Scanning'
  <2>1. \A a \in (lo + 1)..(i' - 1) : Above(Lit(a), Lit(lo))'
    BY <1>1, <1>9, <1>12 DEF Above, Count
  <2>2. \A a \in (j' + 1)..hi : Above(Lit(lo), Lit(a))'
    BY <1>1, <1>9, <1>13 DEF Above, Count
  <2>3. QED BY <1>1, <1>3, <1>5, <1>14, <2>1, <2>2 DEF Scanning
<1>16. QED BY <1>1, <1>7, <1>15 DEF SortInv, Sorts

LEMMA ScannedSort ==
  ASSUME Types, SortInv, Scanned
  PROVE  SortInv'
<1>1. /\ pc = "scan" /\ pc' = "sort" /\ hist' = hist /\ i > j /\ lits' = Swapped(Left, j)
      /\ \/ todo' = <<<<Left, j - 1>>, <<j + 1, Right>>>> \o Tail(todo)
         \/ todo' = <<<<j + 1, Right>>, <<Left, j - 1>>>> \o Tail(todo)
  BY DEF Scanned
<1>2. PICK lo \in Int, hi \in Int : lo = Left /\ hi = Right
  BY <1>1, HeadFacts
<1>3. PICK x \in Int, y \in Int : x = i /\ y = j
  BY DEF Types
<1>4. /\ lo < hi /\ x = y + 1 /\ lo <= y /\ y <= hi
      /\ \A a \in (lo + 1)..y : Above(Lit(a), Lit(lo))
      /\ \A a \in (y + 1)..hi : Above(Lit(lo), Lit(a))
  <2>1. lo < hi /\ lo < x /\ x <= y + 1 /\ y <= hi /\ x > y
    BY <1>1, <1>2, <1>3 DEF SortInv, Scanning
  <2>2. x - 1 = y
    BY <2>1
  <2>3. /\ \A a \in (lo + 1)..y : Above(Lit(a), Lit(lo))
        /\ \A a \in (y + 1)..hi : Above(Lit(lo), Lit(a))
    BY <1>1, <1>2, <1>3, <2>2 DEF SortInv, Scanning
  <2>4. QED BY <2>1, <2>3
<1>5. y \in lo..hi /\ lo \in lo..hi
  BY <1>4
<1>6. PICK f : f = Swapped(Left, j)
  OBVIOUS
<1>7. OneEach(lits, Occur) /\ Placed(lits, todo) /\ Apart(todo, n) /\ todo # <<>>
  BY <1>1 DEF SortInv, Sorts, Scanning
<1>8. lo \in 0..(n - 1) /\ y \in 0..(n - 1) /\ Placed(f, todo)
  BY <1>2, <1>3, <1>5, <1>6, <1>7, SwappedPlaced
<1>9. /\ f \in Seq(Syms) /\ Len(f) = n /\ f[lo + 1] = Lit(y) /\ f[y + 1] = Lit(lo)
      /\ \A k \in 0..(n - 1) : k # lo /\ k # y => f[k + 1] = Lit(k)
  BY <1>2, <1>3, <1>6, <1>8, SwappedFacts
<1>10. \A k \in lo..hi : k \in 0..(n - 1)
  BY <1>1, <1>2, HeadFacts
<1>11. \A a \in lo..(y - 1) : Above(f[a + 1], f[y + 1])
  <2>1. ASSUME NEW a \in lo..(y - 1) PROVE Above(f[a + 1], f[y + 1])
    <3>1. PICK b \in (lo + 1)..y : f[a + 1] = Lit(b)
      <4>1. CASE a = lo
        <5>1. y \in (lo + 1)..y
          BY <2>1, <4>1
        <5>2. QED BY <1>9, <4>1, <5>1
      <4>2. CASE a # lo
        <5>1. a \in (lo + 1)..y /\ a # y /\ a \in lo..hi
          BY <1>4, <2>1, <4>2
        <5>2. QED BY <1>9, <1>10, <4>2, <5>1
      <4>3. QED BY <4>1, <4>2
    <3>2. QED BY <1>4, <1>9, <3>1
  <2>2. QED BY <2>1
<1>12. \A b \in (y + 1)..hi : Above(f[y + 1], f[b + 1])
  <2>1. ASSUME NEW b \in (y + 1)..hi PROVE Above(f[y + 1], f[b + 1])
    <3>1. b # lo /\ b # y /\ b \in lo..hi
      BY <1>4, <2>1
    <3>2. f[b + 1] = Lit(b)
      BY <1>9, <1>10, <3>1
    <3>3. QED BY <1>4, <1>9, <2>1, <3>2
  <2>2. QED BY <2>1
<1>13. PICK t : t = todo'
  OBVIOUS
<1>14. Parts(t, Tail(todo), lo, y, hi)
  <2>1. Tail(todo) \in Seq(Int \X Int)
    BY <1>7, StackFacts
  <2>2. \/ t = <<<<lo, y - 1>>, <<y + 1, hi>>>> \o Tail(todo)
        \/ t = <<<<y + 1, hi>>, <<lo, y - 1>>>> \o Tail(todo)
    BY <1>1, <1>2, <1>3, <1>13
  <2>3. QED BY <1>4, <2>1, <2>2, PushedParts
<1>15. Placed(f, t) /\ Apart(t, n)
  BY <1>2, <1>5, <1>7, <1>8, <1>9, <1>11, <1>12, <1>14, HeadSplit
<1>16. OneEach(f, Occur)
  <2>1. OneEach(Swapped(lo, y), Occur)
    BY <1>7, <1>8, SwappedSame
  <2>2. QED BY <1>2, <1>3, <1>6, <2>1
<1>17. lits' = f /\ n' = n /\ Occur' = Occur
  BY <1>1, <1>6, <1>9 DEF n, Occur, Syms
<1>18. OneEach(lits, Occur)'
  BY <1>16, <1>17 DEF OneEach
<1>19. Placed(lits, todo)'
  BY <1>1, <1>13, <1>15, <1>17, PlacedNext
<1>20. Apart(todo, n)'
  BY <1>13, <1>15, <1>17 DEF Apart
<1>21. QED BY <1>1, <1>18, <1>19, <1>20 DEF SortInv, Sorts

\* The rest of Generate leaves the sorted array as it is.
LEMMA SameSort ==
  ASSUME SortInv, pc \notin Sorts, pc' \notin Sorts, hist' = hist, UNCHANGED sortVars
  PROVE  SortInv'
<1>1. lits' = lits /\ todo' = todo /\ pc # "collect" /\ pc' # "collect"
      /\ pc' # "scan" /\ pc' # "insert"
  BY DEF sortVars, Sorts
<1>2. OneEach(lits, Occur)' /\ Placed(lits, todo)' /\ Apart(todo, n)'
  BY <1>1, SameOrder DEF SortInv
<1>3. QED BY <1>1, <1>2 DEF SortInv

-----------------------------------------------------------------------------
(***************************************************************************)
(* Pairing and depths.  Inner nodes are 1 .. m; p has their parents, d     *)
(* their depths.                                                           *)
(***************************************************************************)
\* A parent comes before its children, and has no more than two.
Parents(p, m) ==
  /\ p \in [1..m -> Nat] /\ \A k \in 2..m : p[k] \in 1..(k - 1)
  /\ \A x, y \in 2..m : x <= y => p[x] <= p[y]
  /\ \A x, y \in 2..m : x + 2 <= y => p[x] < p[y]

Depths(d, p, m) ==
  /\ d \in [1..m -> Nat] /\ d[1] = 0
  /\ \A k \in 2..m : d[k] = d[p[k]] + 1

\* The nodes behind r know their parents, which are x or greater.
Linked(f, r, x, m) ==
  /\ \A k \in (r + 1)..(m - 1) : f[k] < k /\ 1 <= f[k] /\ x <= f[k]
  /\ \A k, l \in (r + 1)..(m - 1) : k <= l => f[k] <= f[l]
  /\ \A k, l \in (r + 1)..(m - 1) : k + 2 <= l => f[k] < f[l]

\* As many nodes are left as pairs have to be made, and one more; next has no
\* child, or one, the last that was taken.
Pairable(q, m, f, y, r, x) ==
  /\ 2 <= m /\ -1 <= y /\ 0 <= x /\ x <= r /\ r < m
  /\ q = "first"  => y + r = 2 * x /\ (x = m - 1 \/ x < r)
  /\ q = "second" => y + r = 2 * x - 1 /\ 1 <= x
  /\ Linked(f, r, x, m)
  /\ \A k \in (r + 1)..(m - 1) : f[k] = x => q = "second" /\ k = r + 1

PairInv == pc \in PairPhases => Pairable(pc, n, w, leaf, root, next)

\* f has the depths of the nodes before x, and the parents p of the others.
Deepening(m, f, x, p) ==
  /\ Parents(p, m - 1)
  /\ \A k \in 2..(x - 1) : f[k] = f[p[k]] + 1
  /\ \A k \in x..(m - 1) : f[k] = p[k]

DepthNow(p) == 2 <= n /\ 2 <= next /\ next <= n /\ w[1] = 0 /\ Deepening(n, w, next, p)

DepthInv == pc = "depth" => \E p : DepthNow(p)

\* Of v nodes of depth t, u inner nodes are counted, those before r.  There are
\* two for each inner node of the depth before, and x is the first one's place.
Level(d, m, r, v, u, t, x) ==
  /\ 1 <= r - u /\ 0 <= u /\ u <= v /\ r <= m + 1 /\ 0 <= t
  /\ 0 <= x /\ x = (r - u) - v
  /\ \A k \in (r - u)..(r - 1) : d[k] = t
  /\ \A k \in 1..((r - u) - 1) : d[k] < t
  /\ t = 0 => r - u = 1 /\ v = 1
  /\ t > 0 => \E a \in 1..((r - u) - 1) :
               /\ v = 2 * ((r - u) - a)
               /\ \A k \in a..((r - u) - 1) : d[k] = t - 1
               /\ \A k \in 1..(a - 1) : d[k] < t - 1

LevelNow(p, d) ==
  /\ 2 <= n /\ Parents(p, n - 1) /\ Depths(d, p, n - 1)
  /\ Level(d, n - 1, root, avail, used, depth, next)
  /\ \A k \in root..(n - 1) : w[k] = d[k]

LevelInv == pc = "level" => \E p, d : LevelNow(p, d)

-----------------------------------------------------------------------------
\* Depths do not get smaller.
LEMMA DepthsGrow ==
  ASSUME NEW m \in Nat, NEW p, NEW d, Parents(p, m), Depths(d, p, m)
  PROVE  \A x, y \in 1..m : x <= y => d[x] <= d[y]
<1> DEFINE T == {y \in 1..m : \E x \in 1..m : x <= y /\ d[x] > d[y]}
<1>1. \A k \in 1..m : d[k] \in Nat
  BY DEF Depths
<1>2. SUFFICES ASSUME T # {} PROVE FALSE
  BY <1>1
<1>3. T \subseteq Nat
  OBVIOUS
<1>4. PICK y \in T : \A z \in T : y <= z
  BY <1>2, <1>3, LeastElement
<1>5. PICK x \in 1..m : x <= y /\ d[x] > d[y]
  BY <1>4
<1>6. y \in 2..m /\ x \in 2..m
  <2>1. x # y /\ y \in 1..m
    BY <1>1, <1>4, <1>5
  <2>2. d[1] = 0
    BY DEF Depths
  <2>3. x # 1
    BY <1>1, <1>5, <2>1, <2>2
  <2>4. QED BY <1>5, <2>1, <2>3
<1>7. p[x] \in 1..(x - 1) /\ p[y] \in 1..(y - 1) /\ p[x] <= p[y]
  BY <1>5, <1>6 DEF Parents
<1>8. p[x] \in 1..m /\ p[y] \in 1..m /\ p[y] < y
  BY <1>6, <1>7
<1>9. d[p[x]] > d[p[y]]
  <2>1. d[x] = d[p[x]] + 1 /\ d[y] = d[p[y]] + 1
    BY <1>6 DEF Depths
  <2>2. QED BY <1>1, <1>5, <1>8, <2>1
<1>10. p[y] \in T
  BY <1>7, <1>8, <1>9
<1>11. QED BY <1>4, <1>8, <1>10

\* Two nodes later there is another parent.
LEMMA ParentsSpread ==
  ASSUME NEW m \in Nat, NEW p, Parents(p, m), NEW b \in 2..m, NEW c \in Nat, b + 2 * c <= m
  PROVE  p[b + 2 * c] >= p[b] + c
<1> DEFINE S == {k \in Nat : b + 2 * k <= m => p[b + 2 * k] >= p[b] + k}
<1>1. \A k \in 2..m : p[k] \in Nat
  BY DEF Parents
<1>2. 0 \in S
  BY <1>1
<1>3. ASSUME NEW k \in S PROVE k + 1 \in S
  <2>1. SUFFICES ASSUME b + 2 * (k + 1) <= m PROVE p[b + 2 * (k + 1)] >= p[b] + (k + 1)
    BY <1>3
  <2>2. k \in Nat
    BY <1>3
  <2>3. PICK x \in 2..m, y \in 2..m : x = b + 2 * k /\ y = b + 2 * (k + 1) /\ x + 2 <= y
    BY <2>1, <2>2
  <2>4. p[x] >= p[b] + k
    BY <1>3, <2>2, <2>3
  <2>5. p[x] < p[y]
    BY <2>3 DEF Parents
  <2>6. p[x] \in Nat /\ p[y] \in Nat /\ p[b] \in Nat
    BY <1>1
  <2>7. QED BY <2>2, <2>3, <2>4, <2>5, <2>6
<1>4. S = Nat
  <2> HIDE DEF S
  <2>1. S \in SUBSET Nat
    BY DEF S
  <2>2. QED BY <1>2, <1>3, <2>1, InductiveSet
<1>5. c \in S
  BY <1>4
<1>6. QED BY <1>5

\* One more node learns its parent.
LEMMA LinkOne ==
  ASSUME NEW m \in Nat, NEW f \in [0..(m - 1) -> Nat], NEW g \in [0..(m - 1) -> Nat],
         NEW x \in Nat \ {0}, NEW r \in Nat, x < r, r < m, Linked(f, r, x, m),
         \A k \in (r + 2)..(m - 1) : f[k] # x,
         g[r] = x, \A k \in (r + 1)..(m - 1) : g[k] = f[k]
  PROVE  Linked(g, r - 1, x, m)
<1>1. /\ \A k \in (r + 1)..(m - 1) : f[k] < k /\ 1 <= f[k] /\ x <= f[k]
      /\ \A k, l \in (r + 1)..(m - 1) : k <= l => f[k] <= f[l]
      /\ \A k, l \in (r + 1)..(m - 1) : k + 2 <= l => f[k] < f[l]
  BY DEF Linked
<1>2. \A k \in r..(m - 1) : k = r \/ k \in (r + 1)..(m - 1)
  OBVIOUS
<1>3. \A k \in (r + 1)..(m - 1) : f[k] \in Nat
  OBVIOUS
<1>4. ASSUME NEW k \in r..(m - 1) PROVE g[k] < k /\ 1 <= g[k] /\ x <= g[k]
  <2>1. CASE k = r
    BY <2>1
  <2>2. CASE k \in (r + 1)..(m - 1)
    BY <1>1, <2>2
  <2>3. QED BY <1>2, <2>1, <2>2
<1>5. ASSUME NEW k \in r..(m - 1), NEW l \in r..(m - 1), k <= l
      PROVE  g[k] <= g[l] /\ (k + 2 <= l => g[k] < g[l])
  <2>1. CASE k = r /\ l = r
    BY <2>1
  <2>2. CASE k = r /\ l # r
    <3>1. l \in (r + 1)..(m - 1) /\ g[l] = f[l] /\ x <= f[l] /\ f[l] \in Nat
      BY <1>1, <1>2, <1>3, <2>2
    <3>2. k + 2 <= l => f[l] # x
      BY <2>2, <3>1
    <3>3. QED BY <2>2, <3>1, <3>2
  <2>3. CASE k # r
    <3>1. k \in (r + 1)..(m - 1) /\ l \in (r + 1)..(m - 1)
      BY <1>5, <2>3
    <3>2. QED BY <1>1, <1>5, <3>1
  <2>4. QED BY <2>1, <2>2, <2>3
<1>6. (r - 1) + 1 = r
  OBVIOUS
<1>7. ((r - 1) + 1)..(m - 1) = r..(m - 1)
  BY <1>6
<1>8. /\ \A k \in ((r - 1) + 1)..(m - 1) : g[k] < k /\ 1 <= g[k] /\ x <= g[k]
      /\ \A k, l \in ((r - 1) + 1)..(m - 1) : k <= l => g[k] <= g[l]
      /\ \A k, l \in ((r - 1) + 1)..(m - 1) : k + 2 <= l => g[k] < g[l]
  <2>1. \A k, l \in r..(m - 1) : k + 2 <= l => k <= l
    OBVIOUS
  <2>2. QED BY <1>4, <1>5, <1>7, <2>1, Zenon
<1>9. QED BY <1>8 DEF Linked

\* What the two nodes of a pair have in common.
PairTypes ==
  /\ w \in [0..(n - 1) -> Nat] /\ n \in Nat
  /\ leaf \in Int /\ root \in Int /\ next \in Int

LEMMA PairFacts ==
  ASSUME Types, PairInv, pc \in PairPhases
  PROVE  /\ PairTypes
         /\ next \in 0..(n - 1) /\ root \in 0..(n - 1)
         /\ leaf < n
         /\ (pairsRunning \/ pc = "second") /\ TakesInner => next < root
         /\ (pairsRunning \/ pc = "second") /\ ~TakesInner => 0 <= leaf
<1>1. PairTypes
  BY LengthFacts DEF Types, PairTypes, PairPhases, Sorts
<1>2. /\ 2 <= n /\ -1 <= leaf /\ 0 <= next /\ next <= root /\ root < n
      /\ pc = "first"  => leaf + root = 2 * next /\ (next = n - 1 \/ next < root)
      /\ pc = "second" => leaf + root = 2 * next - 1 /\ 1 <= next
  BY DEF PairInv, Pairable
<1>3. pc = "first" \/ pc = "second"
  BY DEF PairPhases
<1>4. next \in 0..(n - 1) /\ root \in 0..(n - 1) /\ leaf < n
  BY <1>1, <1>2, <1>3 DEF PairTypes
<1>5. ASSUME pairsRunning \/ pc = "second", TakesInner PROVE next < root
  <2>1. 1 <= next
    BY <1>1, <1>2, <1>3, <1>5 DEF pairsRunning
  <2>2. CASE leaf >= 0
    BY <1>1, <1>5, <2>2 DEF TakesInner, PairTypes
  <2>3. CASE leaf = -1
    BY <1>1, <1>2, <1>3, <2>1, <2>3 DEF PairTypes
  <2>4. QED BY <1>1, <1>2, <2>2, <2>3 DEF PairTypes
<1>6. ~TakesInner => 0 <= leaf
  BY <1>1 DEF TakesInner, PairTypes
<1>7. QED BY <1>1, <1>4, <1>5, <1>6

\* The numbers that a step of pairing starts from.
PairAt(m, f, y, r, x) ==
  /\ m = n /\ f = w /\ y = leaf /\ r = root /\ x = next
  /\ m \in Nat /\ f \in [0..(m - 1) -> Nat] /\ y \in -1..(m - 1)
  /\ r \in 0..(m - 1) /\ x \in 0..(m - 1) /\ 2 <= m
  /\ Pairable(pc, m, f, y, r, x)

LEMMA PairStart ==
  ASSUME Types, PairInv, pc \in PairPhases, NEW m, NEW f, NEW y, NEW r, NEW x,
         m = n, f = w, y = leaf, r = root, x = next
  PROVE  PairAt(m, f, y, r, x)
<1>1. PairTypes /\ next \in 0..(n - 1) /\ root \in 0..(n - 1) /\ leaf < n
  BY PairFacts
<1>2. Pairable(pc, n, w, leaf, root, next)
  BY DEF PairInv
<1>3. -1 <= leaf /\ 2 <= n
  BY <1>2 DEF Pairable
<1>4. leaf \in -1..(n - 1)
  BY <1>1, <1>3 DEF PairTypes
<1>5. QED BY <1>1, <1>2, <1>3, <1>4 DEF PairAt, PairTypes

LEMMA FirstInnerPair ==
  ASSUME Types, PairInv, FirstInner
  PROVE  PairInv' /\ w' \in [0..(n - 1) -> Nat]
<1>1. /\ pc = "first" /\ pc' = "second" /\ pairsRunning /\ TakesInner /\ lits' = lits
      /\ w' = [w EXCEPT ![next] = w[root], ![root] = next]
      /\ root' = root - 1 /\ leaf' = leaf /\ next' = next
  BY DEF FirstInner, pairUnchanged, sortVars
<1>2. PICK m, f, y, r, x : PairAt(m, f, y, r, x)
  BY <1>1, PairStart DEF PairPhases
<1>3. /\ m = n /\ f = w /\ y = leaf /\ r = root /\ x = next
      /\ m \in Nat /\ f \in [0..(m - 1) -> Nat] /\ y \in -1..(m - 1)
      /\ r \in 0..(m - 1) /\ x \in 0..(m - 1) /\ 2 <= m
  BY <1>2 DEF PairAt
<1>4. x < r
  BY <1>1, <1>3, PairFacts DEF PairPhases
<1>5. /\ y + r = 2 * x /\ 1 <= x /\ Linked(f, r, x, m)
      /\ \A k \in (r + 1)..(m - 1) : f[k] # x
  BY <1>1, <1>2, <1>3 DEF PairAt, Pairable, pairsRunning
<1>6. PICK g : g = [f EXCEPT ![x] = f[r], ![r] = x]
  OBVIOUS
<1>7. g \in [0..(m - 1) -> Nat] /\ g[r] = x /\ \A k \in (r + 1)..(m - 1) : g[k] = f[k]
  BY <1>3, <1>4, <1>6
<1>8. Linked(g, r - 1, x, m)
  <2>1. \A k \in (r + 2)..(m - 1) : f[k] # x
    BY <1>3, <1>5
  <2>2. x \in Nat \ {0} /\ r \in Nat /\ r < m
    BY <1>3, <1>5
  <2>3. QED BY <1>3, <1>4, <1>5, <1>7, <2>1, <2>2, LinkOne
<1>9. \A k \in ((r - 1) + 1)..(m - 1) : g[k] = x => k = (r - 1) + 1
  BY <1>3, <1>5, <1>7
<1>10. /\ y + (r - 1) = 2 * x - 1 /\ x <= r - 1 /\ r - 1 < m /\ -1 <= y /\ 0 <= x
  BY <1>3, <1>4, <1>5
<1>11. Pairable("second", m, g, y, r - 1, x)
  BY <1>3, <1>5, <1>8, <1>9, <1>10 DEF Pairable
<1>12. /\ pc' = "second" /\ n' = m /\ w' = g /\ leaf' = y /\ root' = r - 1 /\ next' = x
  BY <1>1, <1>3, <1>6 DEF n
<1>13. QED BY <1>3, <1>7, <1>11, <1>12 DEF PairInv

\* A step that leaves the nodes behind r as they are.
LEMMA LinkSame ==
  ASSUME NEW m, NEW f, NEW g, NEW x, NEW r, Linked(f, r, x, m),
         \A k \in (r + 1)..(m - 1) : g[k] = f[k]
  PROVE  Linked(g, r, x, m)
BY DEF Linked

LEMMA LinkLess ==
  ASSUME NEW m \in Nat, NEW f \in [0..(m - 1) -> Nat], NEW x \in Nat, NEW r \in Nat,
         Linked(f, r, x, m)
  PROVE  Linked(f, r, x - 1, m)
<1>1. ASSUME NEW k \in (r + 1)..(m - 1) PROVE x - 1 <= f[k]
  <2>1. x <= f[k]
    BY DEF Linked
  <2>2. f[k] \in Nat
    OBVIOUS
  <2>3. QED BY <2>1, <2>2
<1>2. QED BY <1>1 DEF Linked

LEMMA FirstLeafPair ==
  ASSUME Types, PairInv, FirstLeaf
  PROVE  PairInv' /\ w' \in [0..(n - 1) -> Nat]
<1>1. /\ pc = "first" /\ pc' = "second" /\ pairsRunning /\ ~TakesInner /\ lits' = lits
      /\ w' = [w EXCEPT ![next] = w[leaf]]
      /\ leaf' = leaf - 1 /\ root' = root /\ next' = next
  BY DEF FirstLeaf, pairUnchanged, sortVars
<1>2. PICK m, f, y, r, x : PairAt(m, f, y, r, x)
  BY <1>1, PairStart DEF PairPhases
<1>3. /\ m = n /\ f = w /\ y = leaf /\ r = root /\ x = next
      /\ m \in Nat /\ f \in [0..(m - 1) -> Nat] /\ y \in -1..(m - 1)
      /\ r \in 0..(m - 1) /\ x \in 0..(m - 1) /\ 2 <= m
  BY <1>2 DEF PairAt
<1>4. 0 <= y
  BY <1>1, <1>3, PairFacts DEF PairPhases
<1>5. /\ y + r = 2 * x /\ 1 <= x /\ Linked(f, r, x, m) /\ x <= r
      /\ \A k \in (r + 1)..(m - 1) : f[k] # x
  BY <1>1, <1>2, <1>3 DEF PairAt, Pairable, pairsRunning
<1>6. PICK g : g = [f EXCEPT ![x] = f[y]]
  OBVIOUS
<1>7. g \in [0..(m - 1) -> Nat] /\ \A k \in (r + 1)..(m - 1) : g[k] = f[k]
  <2>1. y \in 0..(m - 1)
    BY <1>3, <1>4
  <2>2. f[y] \in Nat
    BY <1>3, <2>1
  <2>3. \A k \in (r + 1)..(m - 1) : k # x
    BY <1>3, <1>5
  <2>4. QED BY <1>3, <1>6, <2>2, <2>3
<1>8. Linked(g, r, x, m)
  BY <1>5, <1>7, LinkSame
<1>9. \A k \in (r + 1)..(m - 1) : g[k] # x
  BY <1>5, <1>7
<1>10. /\ (y - 1) + r = 2 * x - 1 /\ x <= r /\ r < m /\ -1 <= y - 1 /\ 0 <= x
  BY <1>3, <1>4, <1>5
<1>11. Pairable("second", m, g, y - 1, r, x)
  BY <1>3, <1>5, <1>8, <1>9, <1>10 DEF Pairable
<1>12. /\ pc' = "second" /\ n' = m /\ w' = g /\ leaf' = y - 1 /\ root' = r /\ next' = x
  BY <1>1, <1>3, <1>6 DEF n
<1>13. QED BY <1>3, <1>7, <1>11, <1>12 DEF PairInv

\* What a pair's second child finds.
LEMMA SecondFacts ==
  ASSUME NEW m, NEW f, NEW y, NEW r, NEW x, PairAt(m, f, y, r, x), pc = "second"
  PROVE  /\ y + r = 2 * x - 1 /\ 1 <= x /\ x <= r /\ Linked(f, r, x, m)
         /\ \A k \in (r + 2)..(m - 1) : f[k] # x
<1>1. /\ y + r = 2 * x - 1 /\ 1 <= x /\ x <= r /\ Linked(f, r, x, m)
      /\ \A k \in (r + 1)..(m - 1) : f[k] = x => k = r + 1
  BY DEF PairAt, Pairable
<1>2. r \in Nat /\ m \in Nat
  BY DEF PairAt
<1>3. \A k \in (r + 2)..(m - 1) : k \in (r + 1)..(m - 1) /\ k # r + 1
  BY <1>2
<1>4. QED BY <1>1, <1>3

LEMMA SecondInnerPair ==
  ASSUME Types, PairInv, SecondInner
  PROVE  PairInv' /\ w' \in [0..(n - 1) -> Nat]
<1>1. /\ pc = "second" /\ pc' = "first" /\ TakesInner /\ lits' = lits
      /\ w' = [w EXCEPT ![next] = w[next] + w[root], ![root] = next]
      /\ leaf' = leaf /\ root' = root - 1 /\ next' = next - 1
  BY DEF SecondInner, pairUnchanged, sortVars
<1>2. PICK m, f, y, r, x : PairAt(m, f, y, r, x)
  BY <1>1, PairStart DEF PairPhases
<1>3. /\ m = n /\ f = w /\ y = leaf /\ r = root /\ x = next
      /\ m \in Nat /\ f \in [0..(m - 1) -> Nat] /\ y \in -1..(m - 1)
      /\ r \in 0..(m - 1) /\ x \in 0..(m - 1) /\ 2 <= m
  BY <1>2 DEF PairAt
<1>4. x < r
  BY <1>1, <1>3, PairFacts DEF PairPhases
<1>5. /\ y + r = 2 * x - 1 /\ 1 <= x /\ x <= r /\ Linked(f, r, x, m)
      /\ \A k \in (r + 2)..(m - 1) : f[k] # x
  BY <1>1, <1>2, SecondFacts
<1>6. PICK g : g = [f EXCEPT ![x] = f[x] + f[r], ![r] = x]
  OBVIOUS
<1>7. g \in [0..(m - 1) -> Nat] /\ g[r] = x /\ \A k \in (r + 1)..(m - 1) : g[k] = f[k]
  <2>1. f[x] + f[r] \in Nat /\ x \in Nat
    BY <1>3
  <2>2. \A k \in (r + 1)..(m - 1) : k # x /\ k # r /\ k \in 0..(m - 1)
    BY <1>3, <1>5
  <2>3. QED BY <1>3, <1>6, <2>1, <2>2
<1>8. Linked(g, r - 1, x, m)
  <2>1. x \in Nat \ {0} /\ r \in Nat /\ r < m
    BY <1>3, <1>5
  <2>2. QED BY <1>3, <1>4, <1>5, <1>7, <2>1, LinkOne
<1>9. Linked(g, r - 1, x - 1, m)
  <2>1. x \in Nat /\ r - 1 \in Nat
    BY <1>3, <1>4, <1>5
  <2>2. QED BY <1>3, <1>7, <1>8, <2>1, LinkLess
<1>10. \A k \in ((r - 1) + 1)..(m - 1) : g[k] # x - 1
  <2>1. \A k \in ((r - 1) + 1)..(m - 1) : x <= g[k]
    BY <1>8 DEF Linked
  <2>2. x - 1 < x /\ \A k \in ((r - 1) + 1)..(m - 1) : g[k] \in Nat
    BY <1>3, <1>7
  <2>3. QED BY <1>3, <2>1, <2>2
<1>11. /\ y + (r - 1) = 2 * (x - 1) /\ x - 1 < r - 1 /\ r - 1 < m /\ -1 <= y
       /\ 0 <= x - 1 /\ x - 1 <= r - 1
  BY <1>3, <1>4, <1>5
<1>12. Pairable("first", m, g, y, r - 1, x - 1)
  BY <1>3, <1>9, <1>10, <1>11 DEF Pairable
<1>13. pc' = "first" /\ n' = m /\ w' = g /\ leaf' = y /\ root' = r - 1 /\ next' = x - 1
  BY <1>1, <1>3, <1>6 DEF n
<1>14. QED BY <1>3, <1>7, <1>12, <1>13 DEF PairInv

LEMMA SecondLeafPair ==
  ASSUME Types, PairInv, SecondLeaf
  PROVE  PairInv' /\ w' \in [0..(n - 1) -> Nat]
<1>1. /\ pc = "second" /\ pc' = "first" /\ ~TakesInner /\ lits' = lits
      /\ w' = [w EXCEPT ![next] = w[next] + w[leaf]]
      /\ leaf' = leaf - 1 /\ root' = root /\ next' = next - 1
  BY DEF SecondLeaf, pairUnchanged, sortVars
<1>2. PICK m, f, y, r, x : PairAt(m, f, y, r, x)
  BY <1>1, PairStart DEF PairPhases
<1>3. /\ m = n /\ f = w /\ y = leaf /\ r = root /\ x = next
      /\ m \in Nat /\ f \in [0..(m - 1) -> Nat] /\ y \in -1..(m - 1)
      /\ r \in 0..(m - 1) /\ x \in 0..(m - 1) /\ 2 <= m
  BY <1>2 DEF PairAt
<1>4. 0 <= y
  BY <1>1, <1>3, PairFacts DEF PairPhases
<1>5. y + r = 2 * x - 1 /\ 1 <= x /\ x <= r /\ Linked(f, r, x, m)
  BY <1>1, <1>2, SecondFacts
<1>6. PICK g : g = [f EXCEPT ![x] = f[x] + f[y]]
  OBVIOUS
<1>7. g \in [0..(m - 1) -> Nat] /\ \A k \in (r + 1)..(m - 1) : g[k] = f[k]
  <2>1. y \in 0..(m - 1)
    BY <1>3, <1>4
  <2>2. f[x] + f[y] \in Nat
    BY <1>3, <2>1
  <2>3. \A k \in (r + 1)..(m - 1) : k # x /\ k \in 0..(m - 1)
    BY <1>3, <1>5
  <2>4. QED BY <1>3, <1>6, <2>2, <2>3
<1>8. Linked(g, r, x, m) /\ Linked(g, r, x - 1, m)
  <2>1. Linked(g, r, x, m)
    BY <1>5, <1>7, LinkSame
  <2>2. x \in Nat /\ r \in Nat
    BY <1>3
  <2>3. QED BY <1>3, <1>7, <2>1, <2>2, LinkLess
<1>9. \A k \in (r + 1)..(m - 1) : g[k] # x - 1
  <2>1. \A k \in (r + 1)..(m - 1) : x <= g[k]
    BY <1>8 DEF Linked
  <2>2. x - 1 < x /\ \A k \in (r + 1)..(m - 1) : g[k] \in Nat
    BY <1>3, <1>7
  <2>3. QED BY <1>3, <2>1, <2>2
<1>10. /\ (y - 1) + r = 2 * (x - 1) /\ x - 1 < r /\ r < m /\ -1 <= y - 1
       /\ 0 <= x - 1 /\ x - 1 <= r
  BY <1>3, <1>4, <1>5
<1>11. Pairable("first", m, g, y - 1, r, x - 1)
  BY <1>3, <1>8, <1>9, <1>10 DEF Pairable
<1>12. pc' = "first" /\ n' = m /\ w' = g /\ leaf' = y - 1 /\ root' = r /\ next' = x - 1
  BY <1>1, <1>3, <1>6 DEF n
<1>13. QED BY <1>3, <1>7, <1>11, <1>12 DEF PairInv

\* The sorted array is all leaves.
LEMMA SortedPair ==
  ASSUME Types, Sorted
  PROVE  PairInv' /\ w' \in [0..(n - 1) -> Nat]
<1>1. PICK m \in Nat : m = n
  BY LengthFacts
<1>2. /\ w' = [k \in 0..(n - 1) |-> IF n = 1 THEN 1 ELSE Count(Lit(k))]
      /\ leaf' = n - 1 /\ root' = n - 1 /\ next' = n - 1
      /\ pc' = IF n <= 1 THEN "measured" ELSE "first"
      /\ lits' = lits
  BY DEF Sorted, sortVars
<1>3. \A k \in 0..(m - 1) : Count(Lit(k)) \in Nat
  <2>1. ASSUME NEW k \in 0..(m - 1) PROVE Count(Lit(k)) \in Nat
    <3>1. k + 1 \in 1..Len(lits)
      BY <1>1 DEF n
    <3>2. Lit(k) \in Syms
      BY <3>1 DEF Types, Lit
    <3>3. hist[Lit(k)] \in Nat
      BY <3>2 DEF Types
    <3>4. QED BY <3>3, WidthsOK DEF Count
  <2>2. QED BY <2>1
<1>4. w' \in [0..(m - 1) -> Nat]
  BY <1>1, <1>2, <1>3
<1>5. n' = m
  BY <1>1, <1>2 DEF n
<1>6. ASSUME pc' \in PairPhases PROVE Pairable(pc, n, w, leaf, root, next)'
  <2>1. pc' = "first" /\ 2 <= m
    BY <1>1, <1>2, <1>6 DEF PairPhases
  <2>2. ((m - 1) + 1)..(m - 1) = {}
    BY <1>1
  <2>3. PICK g : g = w'
    OBVIOUS
  <2>4. Linked(g, m - 1, m - 1, m)
    BY <2>2 DEF Linked
  <2>5. Pairable("first", m, g, m - 1, m - 1, m - 1)
    <3>1. /\ 2 <= m /\ -1 <= m - 1 /\ 0 <= m - 1 /\ m - 1 <= m - 1 /\ m - 1 < m
          /\ (m - 1) + (m - 1) = 2 * (m - 1)
      BY <1>1, <2>1
    <3>2. QED BY <2>2, <2>4, <3>1 DEF Pairable
  <2>6. QED BY <1>1, <1>2, <1>5, <2>1, <2>3, <2>5
<1>7. QED BY <1>1, <1>4, <1>6 DEF PairInv

\* When all pairs are made, each node but the root of the tree has a parent.
LEMMA PairedParents ==
  ASSUME Types, PairInv, Paired
  PROVE  /\ w' \in [0..(n - 1) -> Nat] /\ root = 1
         /\ \E p : DepthNow(p)' /\ \A k \in 2..(n - 1) : p[k] = w[k]
<1>1. /\ pc = "first" /\ pc' = "depth" /\ ~pairsRunning /\ lits' = lits
      /\ w' = [w EXCEPT ![1] = 0] /\ next' = 2
  BY DEF Paired, pairUnchanged, sortVars
<1>2. PICK m, f, y, r, x : PairAt(m, f, y, r, x)
  BY <1>1, PairStart DEF PairPhases
<1>3. /\ m = n /\ f = w /\ y = leaf /\ r = root /\ x = next
      /\ m \in Nat /\ f \in [0..(m - 1) -> Nat] /\ y \in -1..(m - 1)
      /\ r \in 0..(m - 1) /\ x \in 0..(m - 1) /\ 2 <= m
  BY <1>2 DEF PairAt
<1>4. y + r = 2 * x /\ (x = m - 1 \/ x < r) /\ Linked(f, r, x, m)
  BY <1>1, <1>2 DEF PairAt, Pairable
<1>5. x = 0
  BY <1>1, <1>3 DEF pairsRunning
<1>6. r = 1
  BY <1>3, <1>4, <1>5
<1>7. /\ \A k \in 2..(m - 1) : f[k] < k /\ 1 <= f[k]
      /\ \A k, l \in 2..(m - 1) : k <= l => f[k] <= f[l]
      /\ \A k, l \in 2..(m - 1) : k + 2 <= l => f[k] < f[l]
  <2>1. r + 1 = 2
    BY <1>6
  <2>2. QED BY <1>4, <2>1 DEF Linked
<1>8. PICK p : p = [k \in 1..(m - 1) |-> f[k]]
  OBVIOUS
<1>9. Parents(p, m - 1)
  <2>1. p \in [1..(m - 1) -> Nat]
    BY <1>3, <1>8
  <2>2. ASSUME NEW k \in 2..(m - 1) PROVE p[k] = f[k] /\ p[k] \in 1..(k - 1)
    <3>1. p[k] = f[k] /\ f[k] \in Nat
      BY <1>3, <1>8
    <3>2. QED BY <1>7, <3>1
  <2>3. QED BY <1>7, <2>1, <2>2 DEF Parents
<1>10. PICK g : g = [f EXCEPT ![1] = 0]
  OBVIOUS
<1>11. /\ g \in [0..(m - 1) -> Nat] /\ g[1] = 0
       /\ \A k \in 2..(m - 1) : g[k] = p[k]
  BY <1>3, <1>8, <1>10
<1>12. Deepening(m, g, 2, p)
  BY <1>9, <1>11 DEF Deepening
<1>13. pc' = "depth" /\ n' = m /\ w' = g /\ next' = 2
  BY <1>1, <1>3, <1>10 DEF n
<1>14. DepthNow(p)'
  BY <1>3, <1>11, <1>12, <1>13 DEF DepthNow
<1>15. \A k \in 2..(n - 1) : p[k] = w[k]
  BY <1>3, <1>8
<1>16. w' \in [0..(n - 1) -> Nat] /\ root = 1
  BY <1>3, <1>6, <1>11, <1>13
<1>17. QED BY <1>14, <1>15, <1>16

LEMMA PairedDepth ==
  ASSUME Types, PairInv, Paired
  PROVE  DepthInv' /\ w' \in [0..(n - 1) -> Nat]
<1>1. w' \in [0..(n - 1) -> Nat] /\ \E p : DepthNow(p)'
  BY PairedParents
<1>2. QED BY <1>1 DEF DepthInv

\* The numbers that a step of the second phase starts from.
DepthAt(m, f, x, p) ==
  /\ m = n /\ f = w /\ x = next
  /\ m \in Nat /\ 2 <= m /\ f \in [0..(m - 1) -> Nat] /\ x \in 2..m /\ f[1] = 0
  /\ Parents(p, m - 1) /\ Deepening(m, f, x, p)

LEMMA DepthStart ==
  ASSUME Types, pc = "depth", NEW p, DepthNow(p)
  PROVE  DepthAt(n, w, next, p)
<1>1. 2 <= n /\ 2 <= next /\ next <= n /\ w[1] = 0 /\ Deepening(n, w, next, p)
  BY DEF DepthNow
<1>2. n \in Nat /\ w \in [0..(n - 1) -> Nat] /\ next \in Int
  BY LengthFacts DEF Types, Sorts
<1>3. next \in 2..n
  BY <1>1, <1>2
<1>4. QED BY <1>1, <1>2, <1>3 DEF DepthAt, Deepening

LEMMA DeepenParents ==
  ASSUME Types, NEW p, DepthNow(p), Deepen
  PROVE  DepthNow(p)' /\ w' \in [0..(n - 1) -> Nat]
<1>1. /\ pc = "depth" /\ pc' = pc /\ next <= n - 1 /\ lits' = lits
      /\ w' = [w EXCEPT ![next] = w[w[next]] + 1] /\ next' = next + 1
  BY DEF Deepen, pairUnchanged, sortVars
<1>2. PICK m, f, x : DepthAt(m, f, x, p)
  BY <1>1, DepthStart
<1>3. /\ m = n /\ f = w /\ x = next
      /\ m \in Nat /\ 2 <= m /\ f \in [0..(m - 1) -> Nat] /\ x \in 2..m /\ f[1] = 0
      /\ Parents(p, m - 1) /\ Deepening(m, f, x, p)
  BY <1>2 DEF DepthAt
<1>4. x \in 2..(m - 1)
  BY <1>1, <1>3
<1>5. \A k \in 2..(m - 1) : p[k] \in 1..(k - 1)
  BY <1>3 DEF Parents
<1>6. PICK g : g = [f EXCEPT ![x] = f[p[x]] + 1]
  OBVIOUS
<1>7. g = w'
  <2>1. f[x] = p[x]
    BY <1>3, <1>4 DEF Deepening
  <2>2. QED BY <1>1, <1>3, <1>6, <2>1
<1>8. p[x] \in 0..(m - 1) /\ p[x] # x
  BY <1>3, <1>4, <1>5
<1>9. /\ g \in [0..(m - 1) -> Nat] /\ g[1] = 0 /\ g[x] = f[p[x]] + 1
      /\ \A k \in 0..(m - 1) : k # x => g[k] = f[k]
  <2>1. f[p[x]] + 1 \in Nat
    BY <1>3, <1>8
  <2>2. QED BY <1>3, <1>4, <1>6, <2>1
<1>10. ASSUME NEW k \in 2..x PROVE g[k] = g[p[k]] + 1
  <2>1. CASE k = x
    BY <1>8, <1>9, <2>1
  <2>2. CASE k # x
    <3>1. k \in 2..(x - 1) /\ k \in 2..(m - 1)
      BY <1>3, <1>4, <2>2
    <3>2. p[k] \in 0..(m - 1) /\ p[k] # x /\ k \in 0..(m - 1)
      <4>1. p[k] \in 1..(k - 1)
        BY <1>5, <3>1
      <4>2. QED BY <1>3, <3>1, <4>1
    <3>3. f[k] = f[p[k]] + 1
      BY <1>3, <3>1 DEF Deepening
    <3>4. QED BY <1>9, <2>2, <3>2, <3>3
  <2>3. QED BY <2>1, <2>2
<1>11. \A k \in (x + 1)..(m - 1) : g[k] = p[k]
  <2>1. \A k \in (x + 1)..(m - 1) : k # x /\ k \in 0..(m - 1) /\ k \in x..(m - 1)
    BY <1>3
  <2>2. \A k \in x..(m - 1) : f[k] = p[k]
    BY <1>3 DEF Deepening
  <2>3. QED BY <1>9, <2>1, <2>2
<1>12. Deepening(m, g, x + 1, p)
  <2>1. (x + 1) - 1 = x
    BY <1>3
  <2>2. QED BY <1>3, <1>10, <1>11, <2>1 DEF Deepening
<1>13. n' = m /\ w' = g /\ next' = x + 1 /\ 2 <= x + 1 /\ x + 1 <= m
  BY <1>1, <1>3, <1>4, <1>7 DEF n
<1>14. QED BY <1>1, <1>3, <1>9, <1>12, <1>13 DEF DepthNow

LEMMA DeepenDepth ==
  ASSUME Types, DepthInv, Deepen
  PROVE  DepthInv' /\ w' \in [0..(n - 1) -> Nat]
<1>1. PICK p : DepthNow(p)
  BY DEF DepthInv, Deepen
<1>2. DepthNow(p)' /\ w' \in [0..(n - 1) -> Nat]
  BY <1>1, DeepenParents
<1>3. QED BY <1>2 DEF DepthInv

\* Before depth 0 is looked at, nothing is counted.
LEMMA DeepenedParents ==
  ASSUME Types, NEW p, DepthNow(p), Deepened
  PROVE  (\E d : LevelNow(p, d)') /\ w' \in [0..(n - 1) -> Nat]
<1>1. /\ pc = "depth" /\ pc' = "level" /\ next > n - 1 /\ lits' = lits /\ w' = w
      /\ avail' = 1 /\ used' = 0 /\ depth' = 0 /\ root' = 1 /\ next' = 0
  BY DEF Deepened, sortVars
<1>2. PICK m, f, x : DepthAt(m, f, x, p)
  BY <1>1, DepthStart
<1>3. /\ m = n /\ f = w /\ x = next
      /\ m \in Nat /\ 2 <= m /\ f \in [0..(m - 1) -> Nat] /\ x \in 2..m /\ f[1] = 0
      /\ Parents(p, m - 1) /\ Deepening(m, f, x, p)
  BY <1>2 DEF DepthAt
<1>4. x - 1 = m - 1
  BY <1>1, <1>3
<1>5. PICK d : d = [k \in 1..(m - 1) |-> f[k]]
  OBVIOUS
<1>6. Depths(d, p, m - 1)
  <2>1. d \in [1..(m - 1) -> Nat] /\ d[1] = 0
    BY <1>3, <1>5
  <2>2. ASSUME NEW k \in 2..(m - 1) PROVE d[k] = d[p[k]] + 1
    <3>1. f[k] = f[p[k]] + 1
      BY <1>3, <1>4 DEF Deepening
    <3>2. p[k] \in 1..(m - 1) /\ k \in 1..(m - 1)
      <4>1. p[k] \in 1..(k - 1)
        BY <1>3 DEF Parents
      <4>2. QED BY <1>3, <4>1
    <3>3. QED BY <1>5, <3>1, <3>2
  <2>3. QED BY <2>1, <2>2 DEF Depths
<1>7. Level(d, m - 1, 1, 1, 0, 0, 0)
  <2>1. 1 - 0 = 1 /\ 1..0 = {} /\ 1 - 1 = 0 /\ 1 <= (m - 1) + 1
    BY <1>3
  <2>2. QED BY <2>1 DEF Level
<1>8. \A k \in 1..(m - 1) : f[k] = d[k]
  BY <1>5
<1>9. n' = m /\ w' = f
  BY <1>1, <1>3 DEF n
<1>10. LevelNow(p, d)'
  BY <1>1, <1>3, <1>6, <1>7, <1>8, <1>9 DEF LevelNow
<1>11. QED BY <1>1, <1>3, <1>10

LEMMA DeepenedLevel ==
  ASSUME Types, DepthInv, Deepened
  PROVE  LevelInv' /\ w' \in [0..(n - 1) -> Nat]
<1>1. PICK p : DepthNow(p)
  BY DEF DepthInv, Deepened
<1>2. (\E d : LevelNow(p, d)') /\ w' \in [0..(n - 1) -> Nat]
  BY <1>1, DeepenedParents
<1>3. QED BY <1>2 DEF LevelInv

\* The numbers that a step of the third phase starts from.
LevelAt(m, f, p, d, r, v, u, t, x) ==
  /\ m = n /\ f = w /\ r = root /\ v = avail /\ u = used /\ t = depth /\ x = next
  /\ m \in Nat /\ 2 <= m /\ f \in [0..(m - 1) -> Nat]
  /\ r \in Int /\ v \in Int /\ u \in Int /\ t \in Int /\ x \in Int
  /\ Parents(p, m - 1) /\ Depths(d, p, m - 1) /\ Level(d, m - 1, r, v, u, t, x)
  /\ \A k \in r..(m - 1) : f[k] = d[k]

LEMMA LevelHere ==
  ASSUME Types, pc = "level", NEW p, NEW d, LevelNow(p, d)
  PROVE  LevelAt(n, w, p, d, root, avail, used, depth, next)
<1>1. /\ 2 <= n /\ Parents(p, n - 1) /\ Depths(d, p, n - 1)
      /\ Level(d, n - 1, root, avail, used, depth, next)
      /\ \A k \in root..(n - 1) : w[k] = d[k]
  BY DEF LevelNow
<1>2. /\ n \in Nat /\ w \in [0..(n - 1) -> Nat] /\ root \in Int /\ avail \in Int
      /\ used \in Int /\ depth \in Int /\ next \in Int
  BY LengthFacts DEF Types, Sorts
<1>3. QED BY <1>1, <1>2 DEF LevelAt

LEMMA LevelStart ==
  ASSUME Types, LevelInv, pc = "level"
  PROVE  \E p, d : LevelAt(n, w, p, d, root, avail, used, depth, next)
BY LevelHere DEF LevelInv

\* The inner nodes of a depth are not more than its nodes.
LEMMA RoomForInner ==
  ASSUME NEW m \in Nat, NEW p, NEW d, Parents(p, m), Depths(d, p, m),
         NEW r \in 1..m, NEW v \in Int, NEW u \in Int, NEW t \in Int, NEW x,
         Level(d, m, r, v, u, t, x), d[r] = t
  PROVE  u + 1 <= v
<1>1. PICK b \in Int : b = r - u
  OBVIOUS
<1>2. /\ 1 <= b /\ 0 <= u /\ u <= v /\ 0 <= t
      /\ \A k \in b..(r - 1) : d[k] = t
      /\ t = 0 => b = 1 /\ v = 1
      /\ t > 0 => \E a \in 1..(b - 1) :
                    /\ v = 2 * (b - a)
                    /\ \A k \in a..(b - 1) : d[k] = t - 1
                    /\ \A k \in 1..(a - 1) : d[k] < t - 1
  BY <1>1 DEF Level
<1>3. \A k \in 2..m : d[k] = d[p[k]] + 1 /\ p[k] \in 1..(k - 1) /\ p[k] \in 1..m
  <2>1. \A k \in 2..m : d[k] = d[p[k]] + 1 /\ p[k] \in 1..(k - 1)
    BY DEF Parents, Depths
  <2>2. \A k \in 2..m : \A q \in 1..(k - 1) : q \in 1..m
    OBVIOUS
  <2>3. QED BY <2>1, <2>2
<1>4. \A k \in 1..m : d[k] \in Nat
  BY DEF Depths
<1>5. CASE t = 0
  <2>1. SUFFICES ASSUME u # 0 PROVE FALSE
    BY <1>2, <1>5
  <2>2. r \in 2..m
    BY <1>1, <1>2, <2>1
  <2>3. d[r] = d[p[r]] + 1 /\ d[p[r]] \in Nat
    BY <1>3, <1>4, <2>2
  <2>4. QED BY <1>5, <2>3
<1>6. CASE t # 0
  <2>1. PICK a \in 1..(b - 1) : /\ v = 2 * (b - a)
                                /\ \A k \in a..(b - 1) : d[k] = t - 1
                                /\ \A k \in 1..(a - 1) : d[k] < t - 1
    BY <1>2, <1>6
  <2>2. SUFFICES ASSUME u = v PROVE FALSE
    BY <1>2
  <2>3. PICK c \in Nat : c = b - a
    BY <1>1, <2>1
  <2>4. r = b + 2 * c /\ b \in 2..m /\ r \in 2..m /\ b <= r - 1
    BY <1>1, <2>1, <2>2, <2>3
  <2>5. p[b] >= a
    <3>1. p[b] \in 1..(b - 1) /\ p[b] \in 1..m /\ d[b] = d[p[b]] + 1
      BY <1>3, <2>4
    <3>2. b \in b..(r - 1)
      BY <1>1, <2>4
    <3>3. d[b] = t /\ d[p[b]] \in Nat
      BY <1>2, <1>4, <3>1, <3>2
    <3>4. ~(p[b] < a)
      <4>1. ASSUME p[b] < a PROVE FALSE
        <5>1. p[b] \in 1..(a - 1)
          BY <3>1, <4>1
        <5>2. d[p[b]] < t - 1
          BY <2>1, <5>1
        <5>3. QED BY <3>1, <3>3, <5>2
      <4>2. QED BY <4>1
    <3>5. QED BY <3>1, <3>4
  <2>6. p[r] >= p[b] + c
    <3>1. b + 2 * c <= m
      BY <2>4
    <3>2. QED BY <2>3, <2>4, <3>1, ParentsSpread
  <2>7. p[r] \in b..(r - 1)
    <3>1. p[r] \in 1..(r - 1) /\ p[b] \in 1..(b - 1)
      BY <1>3, <2>4
    <3>2. p[r] >= b
      BY <2>1, <2>3, <2>5, <2>6, <3>1
    <3>3. QED BY <1>1, <3>1, <3>2
  <2>8. d[p[r]] = t /\ d[r] = d[p[r]] + 1
    BY <1>2, <1>3, <2>4, <2>7
  <2>9. QED BY <2>8
<1>7. QED BY <1>5, <1>6

LEMMA CountInnerParents ==
  ASSUME Types, NEW p, NEW d, LevelNow(p, d), CountInner
  PROVE  LevelNow(p, d)' /\ w' \in [0..(n - 1) -> Nat]
<1>1. /\ pc = "level" /\ pc' = pc /\ IsInner /\ lits' = lits /\ w' = w
      /\ root' = root + 1 /\ used' = used + 1
      /\ next' = next /\ avail' = avail /\ depth' = depth
  BY DEF CountInner, sortVars
<1>2. PICK m, f, r, v, u, t, x : LevelAt(m, f, p, d, r, v, u, t, x)
  BY <1>1, LevelHere
<1>3. /\ m = n /\ f = w /\ r = root /\ v = avail /\ u = used /\ t = depth /\ x = next
      /\ m \in Nat /\ 2 <= m /\ f \in [0..(m - 1) -> Nat]
      /\ r \in Int /\ v \in Int /\ u \in Int /\ t \in Int /\ x \in Int
      /\ Parents(p, m - 1) /\ Depths(d, p, m - 1)
      /\ Level(d, m - 1, r, v, u, t, x)
      /\ \A k \in r..(m - 1) : f[k] = d[k]
  BY <1>2 DEF LevelAt
<1>4. /\ 1 <= r - u /\ 0 <= u /\ u <= v /\ r <= (m - 1) + 1 /\ 0 <= t
      /\ 0 <= x /\ x = (r - u) - v
      /\ \A k \in (r - u)..(r - 1) : d[k] = t
      /\ \A k \in 1..((r - u) - 1) : d[k] < t
      /\ t = 0 => r - u = 1 /\ v = 1
      /\ t > 0 => \E a \in 1..((r - u) - 1) :
                    /\ v = 2 * ((r - u) - a)
                    /\ \A k \in a..((r - u) - 1) : d[k] = t - 1
                    /\ \A k \in 1..(a - 1) : d[k] < t - 1
  BY <1>3 DEF Level
<1>5. r \in 1..(m - 1) /\ d[r] = t
  <2>1. r < m /\ f[r] = t
    BY <1>1, <1>3 DEF IsInner
  <2>2. r \in 1..(m - 1) /\ r \in r..(m - 1)
    BY <1>3, <1>4, <2>1
  <2>3. QED BY <1>3, <2>1, <2>2
<1>6. u + 1 <= v
  <2>1. m - 1 \in Nat
    BY <1>3
  <2>2. QED BY <1>3, <1>5, <2>1, RoomForInner
<1>7. \A k \in (r - u)..r : d[k] = t
  <2>1. \A k \in (r - u)..r : k = r \/ k \in (r - u)..(r - 1)
    BY <1>3
  <2>2. QED BY <1>4, <1>5, <2>1
<1>8. Level(d, m - 1, r + 1, v, u + 1, t, x)
  <2>1. (r + 1) - (u + 1) = r - u /\ (r + 1) - 1 = r
    BY <1>3
  <2>2. 0 <= u + 1 /\ r + 1 <= (m - 1) + 1
    BY <1>3, <1>4, <1>5
  <2>3. QED BY <1>4, <1>6, <1>7, <2>1, <2>2 DEF Level
<1>9. \A k \in (r + 1)..(m - 1) : f[k] = d[k]
  <2>1. \A k \in (r + 1)..(m - 1) : k \in r..(m - 1)
    BY <1>3
  <2>2. QED BY <1>3, <2>1
<1>10. /\ pc' = "level" /\ n' = m /\ w' = f /\ root' = r + 1 /\ avail' = v
       /\ used' = u + 1 /\ depth' = t /\ next' = x
  BY <1>1, <1>3 DEF n
<1>11. LevelNow(p, d)'
  BY <1>3, <1>8, <1>9, <1>10 DEF LevelNow
<1>12. QED BY <1>3, <1>10, <1>11

LEMMA CountInnerLevel ==
  ASSUME Types, LevelInv, CountInner
  PROVE  LevelInv' /\ w' \in [0..(n - 1) -> Nat]
<1>1. PICK p, d : LevelNow(p, d)
  BY DEF LevelInv, CountInner
<1>2. LevelNow(p, d)' /\ w' \in [0..(n - 1) -> Nat]
  BY <1>1, CountInnerParents
<1>3. QED BY <1>2 DEF LevelInv

\* The leaves of this depth get their places, and the inner nodes that are
\* counted make the nodes of the next.
LEMMA AssignLeavesParents ==
  ASSUME Types, NEW p, NEW d, LevelNow(p, d), AssignLeaves
  PROVE  (pc' = "level" => LevelNow(p, d)') /\ w' \in [0..(n - 1) -> Nat]
<1>1. /\ pc = "level" /\ ~IsInner /\ lits' = lits
      /\ w' = [k \in DOMAIN w |-> IF k \in LeavesHere THEN depth ELSE w[k]]
      /\ next' = IF avail > used THEN next + avail - used ELSE next
      /\ avail' = 2 * used /\ depth' = depth + 1 /\ used' = 0 /\ root' = root
      /\ pc' = IF used > 0 THEN "level" ELSE "measured"
  BY DEF AssignLeaves, sortVars
<1>2. PICK m, f, r, v, u, t, x : LevelAt(m, f, p, d, r, v, u, t, x)
  BY <1>1, LevelHere
<1>3. /\ m = n /\ f = w /\ r = root /\ v = avail /\ u = used /\ t = depth /\ x = next
      /\ m \in Nat /\ 2 <= m /\ f \in [0..(m - 1) -> Nat]
      /\ r \in Int /\ v \in Int /\ u \in Int /\ t \in Int /\ x \in Int
      /\ Parents(p, m - 1) /\ Depths(d, p, m - 1)
      /\ Level(d, m - 1, r, v, u, t, x)
      /\ \A k \in r..(m - 1) : f[k] = d[k]
  BY <1>2 DEF LevelAt
<1>4. /\ 1 <= r - u /\ 0 <= u /\ u <= v /\ r <= (m - 1) + 1 /\ 0 <= t
      /\ 0 <= x /\ x = (r - u) - v
      /\ \A k \in (r - u)..(r - 1) : d[k] = t
      /\ \A k \in 1..((r - u) - 1) : d[k] < t
  BY <1>3 DEF Level
<1>5. PICK g : g = [k \in 0..(m - 1) |-> IF k \in x..(x + v - u - 1) THEN t ELSE f[k]]
  OBVIOUS
<1>6. g = w'
  BY <1>1, <1>3, <1>5 DEF LeavesHere
<1>7. g \in [0..(m - 1) -> Nat]
  <2>1. t \in Nat
    BY <1>3, <1>4
  <2>2. QED BY <1>3, <1>5, <2>1
<1>8. next' = x + (v - u) /\ x + (v - u) = r - 2 * u
  BY <1>1, <1>3, <1>4
<1>9. n' = m
  BY <1>1, <1>3 DEF n
<1>10. ASSUME pc' = "level" PROVE LevelNow(p, d)'
  <2>1. u > 0 /\ u \in Nat
    BY <1>1, <1>3, <1>4, <1>10
  <2>2. \A k \in r..(m - 1) : g[k] = d[k]
    <3>1. \A k \in r..(m - 1) : k \in 0..(m - 1) /\ k \notin x..(x + v - u - 1)
      BY <1>3, <1>4, <2>1
    <3>2. QED BY <1>3, <1>5, <3>1
  <2>3. \A k \in 1..(r - 1) : d[k] < t + 1
    <3>1. \A k \in 1..(r - 1) : k \in (r - u)..(r - 1) \/ k \in 1..((r - u) - 1)
      BY <1>3
    <3>2. \A k \in 1..(r - 1) : d[k] \in Nat
      <4>1. \A k \in 1..(r - 1) : k \in 1..(m - 1)
        BY <1>3, <1>4
      <4>2. QED BY <1>3, <4>1 DEF Depths
    <3>3. ASSUME NEW k \in 1..(r - 1) PROVE d[k] < t + 1
      <4>1. d[k] = t \/ d[k] < t
        BY <1>4, <3>1
      <4>2. QED BY <1>3, <3>2, <4>1
    <3>4. QED BY <3>3
  <2>4. Level(d, m - 1, r, 2 * u, 0, t + 1, x + (v - u))
    <3>1. r - 0 = r /\ r..(r - 1) = {} /\ (t + 1) - 1 = t /\ t + 1 > 0 /\ t + 1 # 0
      BY <1>3, <1>4
    <3>2. /\ 1 <= r /\ 0 <= 2 * u /\ 0 <= x + (v - u) /\ x + (v - u) = r - 2 * u
          /\ 0 <= t + 1
      BY <1>3, <1>4, <1>8
    <3>3. PICK a \in 1..(r - 1) : a = r - u
      BY <1>3, <1>4, <2>1
    <3>4. 2 * u = 2 * (r - a)
      BY <1>3, <3>3
    <3>5. QED BY <1>4, <2>3, <3>1, <3>2, <3>3, <3>4 DEF Level
  <2>5. /\ n' = m /\ w' = g /\ root' = r /\ avail' = 2 * u /\ used' = 0
        /\ depth' = t + 1 /\ next' = x + (v - u)
    BY <1>1, <1>3, <1>6, <1>8, <1>9
  <2>6. QED BY <1>3, <2>2, <2>4, <2>5 DEF LevelNow
<1>11. QED BY <1>3, <1>6, <1>7, <1>10

LEMMA AssignLeavesLevel ==
  ASSUME Types, LevelInv, AssignLeaves
  PROVE  LevelInv' /\ w' \in [0..(n - 1) -> Nat]
<1>1. PICK p, d : LevelNow(p, d)
  BY DEF LevelInv, AssignLeaves
<1>2. (pc' = "level" => LevelNow(p, d)') /\ w' \in [0..(n - 1) -> Nat]
  BY <1>1, AssignLeavesParents
<1>3. QED BY <1>2 DEF LevelInv

-----------------------------------------------------------------------------
(***************************************************************************)
(* Types.                                                                  *)
(***************************************************************************)
\* What a step has to keep so that the types are kept.
LEMMA NextTypes ==
  ASSUME Types, pc # "done", hist' = hist, limit' = limit, lens' \in [Syms -> Nat],
         lits' \in Seq(Syms), todo' \in Seq(Int \X Int),
         pc' \in Sorts \cup PairPhases \cup {"depth", "level"} \cup Later,
         pc' \in Sorts \/ w' \in [0..(n' - 1) -> Nat],
         i' \in Int, j' \in Int, leaf' \in Int, root' \in Int, next' \in Int,
         avail' \in Int, used' \in Int, depth' \in Int, total' \in Int
  PROVE  Types'
<1>1. Syms' = Syms
  BY DEF Syms
<1>2. /\ hist \in [Syms -> Nat] /\ \E m \in Nat : Syms = 0..(m - 1)
      /\ limit \in Nat /\ limit # 0
  BY DEF Types
<1>3. (hist \in [Syms -> Nat])' /\ (\E m \in Nat : Syms = 0..(m - 1))' /\ limit' \in Nat
      /\ limit' # 0
  BY <1>1, <1>2
<1>4. lits' \in Seq(Syms') /\ lens' \in [Syms' -> Nat]
  BY <1>1
<1>5. QED BY <1>3, <1>4, Zenon DEF Types

LEMMA NumberTypes ==
  ASSUME Types
  PROVE  /\ i \in Int /\ j \in Int /\ leaf \in Int /\ root \in Int /\ next \in Int
         /\ avail \in Int /\ used \in Int /\ depth \in Int /\ total \in Int
         /\ lits \in Seq(Syms) /\ todo \in Seq(Int \X Int) /\ lens \in [Syms -> Nat]
BY DEF Types

LEMMA CollectTypes ==
  ASSUME Types, Collect
  PROVE  Types'
<1>1. lits' \in Seq(Syms)
  <2>1. i \in Syms /\ lits \in Seq(Syms)
    BY DEF Collect, Types
  <2>2. lits' = Append(lits, i) \/ lits' = lits
    BY DEF Collect
  <2>3. QED BY <2>1, <2>2
<1>2. /\ pc = "collect" /\ pc' = pc /\ i' = i + 1
      /\ hist' = hist /\ limit' = limit /\ lens' = lens /\ todo' = todo /\ j' = j
      /\ leaf' = leaf /\ root' = root /\ next' = next
      /\ avail' = avail /\ used' = used /\ depth' = depth /\ total' = total
  BY DEF Collect, pairVars, levelVars, limitVars
<1>3. i' \in Int
  BY <1>2, NumberTypes
<1>4. pc' \in Sorts
  BY <1>2 DEF Sorts
<1>5. QED BY <1>1, <1>2, <1>3, <1>4, NumberTypes, NextTypes

LEMMA CollectedTypes ==
  ASSUME Types, Collected
  PROVE  Types'
<1>1. todo' \in Seq(Int \X Int)
  <2>1. <<0, n - 1>> \in Int \X Int
    BY LengthFacts
  <2>2. todo' = <<<<0, n - 1>>>>
    BY DEF Collected
  <2>3. QED BY <2>1, <2>2
<1>2. /\ pc = "collect" /\ pc' = "sort" /\ i' = i /\ lits' = lits
      /\ hist' = hist /\ limit' = limit /\ lens' = lens /\ j' = j
      /\ leaf' = leaf /\ root' = root /\ next' = next
      /\ avail' = avail /\ used' = used /\ depth' = depth /\ total' = total
  BY DEF Collected, pairVars, levelVars, limitVars
<1>3. pc' \in Sorts
  BY <1>2 DEF Sorts
<1>4. QED BY <1>1, <1>2, <1>3, NumberTypes, NextTypes

\* The steps of the sort change only what the sort keeps.
SortStep ==
  /\ pc \in Sorts /\ pc' \in Sorts /\ hist' = hist /\ limit' = limit /\ lens' = lens
  /\ leaf' = leaf /\ root' = root /\ next' = next
  /\ avail' = avail /\ used' = used /\ depth' = depth /\ total' = total

LEMMA SortStepTypes ==
  ASSUME Types, SortStep, lits' \in Seq(Syms), todo' \in Seq(Int \X Int),
         i' \in Int, j' \in Int
  PROVE  Types'
<1>1. /\ pc \in Sorts /\ pc' \in Sorts /\ hist' = hist /\ limit' = limit /\ lens' = lens
      /\ leaf' = leaf /\ root' = root /\ next' = next
      /\ avail' = avail /\ used' = used /\ depth' = depth /\ total' = total
  BY DEF SortStep
<1>2. pc # "done"
  BY <1>1 DEF Sorts
<1>3. QED BY <1>1, <1>2, NumberTypes, NextTypes

LEMMA StartInsertTypes ==
  ASSUME Types, StartInsert
  PROVE  Types'
<1>1. SortStep /\ todo # <<>> /\ i' = Left + 1 /\ j' = Left + 1 /\ lits' = lits /\ todo' = todo
  BY DEF StartInsert, SortStep, Sorts, pairVars, levelVars, limitVars
<1>2. i' \in Int /\ j' \in Int
  BY <1>1, StackFacts
<1>3. QED BY <1>1, <1>2, NumberTypes, SortStepTypes

LEMMA SinkTypes ==
  ASSUME Types, SortInv, Sink
  PROVE  Types'
<1>1. /\ SortStep /\ pc = "insert" /\ i <= Right /\ j > Left
      /\ i' = i /\ j' = j - 1 /\ lits' = Swapped(j - 1, j) /\ todo' = todo
  BY DEF Sink, Sinks, SortStep, Sorts, pairVars, levelVars, limitVars
<1>2. j - 1 \in 0..(n - 1) /\ j \in 0..(n - 1)
  <2>1. Left \in Int /\ Right \in Int /\ 0 <= Left /\ Right < n /\ n \in Nat
    BY <1>1, HeadFacts, LengthFacts
  <2>2. j <= i
    BY <1>1 DEF SortInv, Inserting
  <2>3. QED BY <1>1, <2>1, <2>2, NumberTypes
<1>3. lits' \in Seq(Syms)
  BY <1>1, <1>2, SwappedFacts
<1>4. i' \in Int /\ j' \in Int
  BY <1>1, NumberTypes
<1>5. QED BY <1>1, <1>3, <1>4, NumberTypes, SortStepTypes

LEMMA NextInsertTypes ==
  ASSUME Types, NextInsert
  PROVE  Types'
<1>1. SortStep /\ i' = i + 1 /\ j' = i + 1 /\ lits' = lits /\ todo' = todo
  BY DEF NextInsert, SortStep, Sorts, pairVars, levelVars, limitVars
<1>2. i' \in Int /\ j' \in Int
  BY <1>1, NumberTypes
<1>3. QED BY <1>1, <1>2, NumberTypes, SortStepTypes

LEMMA InsertedTypes ==
  ASSUME Types, SortInv, Inserted
  PROVE  Types'
<1>1. SortStep /\ pc = "insert" /\ i' = i /\ j' = j /\ lits' = lits /\ todo' = Tail(todo)
  BY DEF Inserted, SortStep, Sorts, pairVars, levelVars, limitVars
<1>2. todo' \in Seq(Int \X Int)
  BY <1>1, HeadFacts, StackFacts
<1>3. QED BY <1>1, <1>2, NumberTypes, SortStepTypes

LEMMA StartScanTypes ==
  ASSUME Types, StartScan
  PROVE  Types'
<1>1. SortStep /\ todo # <<>> /\ i' = Left + 1 /\ j' = Right /\ lits' = lits /\ todo' = todo
  BY DEF StartScan, SortStep, Sorts, pairVars, levelVars, limitVars
<1>2. i' \in Int /\ j' \in Int
  BY <1>1, StackFacts
<1>3. QED BY <1>1, <1>2, NumberTypes, SortStepTypes

\* What a turn of scan has at its ends.
LEMMA ScanPlaces ==
  ASSUME Types, SortInv, pc = "scan"
  PROVE  /\ todo # <<>> /\ Left \in 0..(n - 1) /\ j \in 0..(n - 1)
         /\ i <= j => i \in 0..(n - 1)
         /\ j - 1 \in Int /\ j + 1 \in Int /\ Right \in Int /\ i \in Int
<1>1. /\ todo # <<>> /\ Left < Right /\ Left < i /\ i <= j + 1 /\ j <= Right
  BY DEF SortInv, Scanning
<1>2. Left \in Int /\ Right \in Int /\ 0 <= Left /\ Right < n /\ n \in Nat
  BY HeadFacts, LengthFacts
<1>3. i \in Int /\ j \in Int
  BY NumberTypes
<1>4. QED BY <1>1, <1>2, <1>3

LEMMA ScanTypes ==
  ASSUME Types, SortInv, Scan
  PROVE  Types'
<1>1. /\ SortStep /\ pc = "scan" /\ i <= j /\ todo' = todo
      /\ lits' = lits \/ lits' = Swapped(i, j)
      /\ i' = i \/ i' = i + 1
      /\ j' = j \/ j' = j - 1
  BY DEF Scan, SortStep, Sorts, pairVars, levelVars, limitVars
<1>2. lits' \in Seq(Syms)
  BY <1>1, ScanPlaces, NumberTypes, SwappedFacts
<1>3. i' \in Int /\ j' \in Int
  BY <1>1, NumberTypes
<1>4. QED BY <1>1, <1>2, <1>3, NumberTypes, SortStepTypes

LEMMA ScannedTypes ==
  ASSUME Types, SortInv, Scanned
  PROVE  Types'
<1>1. /\ SortStep /\ pc = "scan" /\ i' = i /\ j' = j /\ lits' = Swapped(Left, j)
      /\ \/ todo' = <<<<Left, j - 1>>, <<j + 1, Right>>>> \o Tail(todo)
         \/ todo' = <<<<j + 1, Right>>, <<Left, j - 1>>>> \o Tail(todo)
  BY DEF Scanned, SortStep, Sorts, pairVars, levelVars, limitVars
<1>2. lits' \in Seq(Syms)
  BY <1>1, ScanPlaces, SwappedFacts
<1>3. todo' \in Seq(Int \X Int)
  <2>1. Tail(todo) \in Seq(Int \X Int)
    BY <1>1, ScanPlaces, StackFacts
  <2>2. j - 1 \in Int /\ j + 1 \in Int /\ Left \in Int /\ Right \in Int
    BY <1>1, ScanPlaces
  <2>3. PICK x \in Int \X Int, y \in Int \X Int : x = <<Left, j - 1>> /\ y = <<j + 1, Right>>
    BY <2>2
  <2>4. <<x, y>> \o Tail(todo) \in Seq(Int \X Int) /\ <<y, x>> \o Tail(todo) \in Seq(Int \X Int)
    BY <2>1, PushTwo
  <2>5. QED BY <1>1, <2>3, <2>4
<1>4. QED BY <1>1, <1>2, <1>3, NumberTypes, SortStepTypes

LEMMA SortingTypes ==
  ASSUME Types, SortInv, Collect \/ Collected \/ StartInsert \/ Sink \/ NextInsert
                           \/ Inserted \/ StartScan \/ Scan \/ Scanned
  PROVE  Types'
BY CollectTypes, CollectedTypes, StartInsertTypes, SinkTypes, NextInsertTypes,
   InsertedTypes, StartScanTypes, ScanTypes, ScannedTypes

LEMMA SortedTypes ==
  ASSUME Types, Sorted
  PROVE  Types'
<1>1. /\ pc = "sort" /\ leaf' = n - 1 /\ root' = n - 1 /\ next' = n - 1
      /\ pc' = IF n <= 1 THEN "measured" ELSE "first"
      /\ hist' = hist /\ limit' = limit /\ lens' = lens
      /\ lits' = lits /\ todo' = todo /\ i' = i /\ j' = j
      /\ avail' = avail /\ used' = used /\ depth' = depth /\ total' = total
  BY DEF Sorted, sortVars, levelVars, limitVars
<1>2. w' \in [0..(n - 1) -> Nat] /\ n' = n
  BY <1>1, SortedPair DEF n
<1>3. leaf' \in Int /\ root' \in Int /\ next' \in Int
  BY <1>1, LengthFacts
<1>4. pc # "done" /\ pc' \in PairPhases \cup Later
  BY <1>1 DEF PairPhases, Later
<1>5. QED BY <1>1, <1>2, <1>3, <1>4, NumberTypes, NextTypes

\* Steps that work on the sorted array.
WorkStep ==
  /\ pc # "done" /\ pc' \in PairPhases \cup {"depth", "level"} \cup Later
  /\ hist' = hist /\ limit' = limit /\ lits' = lits /\ todo' = todo /\ i' = i /\ j' = j

LEMMA WorkTypes ==
  ASSUME Types, WorkStep, w' \in [0..(n - 1) -> Nat], lens' \in [Syms -> Nat],
         leaf' \in Int, root' \in Int, next' \in Int,
         avail' \in Int, used' \in Int, depth' \in Int, total' \in Int
  PROVE  Types'
<1>1. /\ pc # "done" /\ pc' \in PairPhases \cup {"depth", "level"} \cup Later
      /\ hist' = hist /\ limit' = limit /\ lits' = lits /\ todo' = todo /\ i' = i /\ j' = j
  BY DEF WorkStep
<1>2. n' = n
  BY <1>1 DEF n
<1>3. QED BY <1>1, <1>2, NumberTypes, NextTypes

LEMMA PairingTypes ==
  ASSUME Types, PairInv, Pairing
  PROVE  Types' /\ PairInv' /\ (pc' = "depth" => DepthInv')
<1>1. /\ WorkStep /\ avail' = avail /\ used' = used /\ depth' = depth /\ total' = total
      /\ lens' = lens
      /\ root' = root \/ root' = root - 1
      /\ leaf' = leaf \/ leaf' = leaf - 1
      /\ next' = next \/ next' = next - 1 \/ next' = 2
  BY DEF Pairing, FirstInner, FirstLeaf, SecondInner, SecondLeaf, Paired, pairUnchanged,
         WorkStep, sortVars, levelVars, limitVars, PairPhases, Later
<1>2. leaf' \in Int /\ root' \in Int /\ next' \in Int
  BY <1>1, NumberTypes
<1>3. w' \in [0..(n - 1) -> Nat] /\ (PairInv' \/ Paired)
  BY FirstInnerPair, FirstLeafPair, SecondInnerPair, SecondLeafPair, PairedDepth DEF Pairing
<1>4. Types'
  BY <1>1, <1>2, <1>3, NumberTypes, WorkTypes
<1>5. Paired => DepthInv' /\ PairInv'
  <2>1. Paired => pc' = "depth"
    BY DEF Paired
  <2>2. pc' = "depth" => PairInv'
    BY DEF PairInv, PairPhases
  <2>3. QED BY <2>1, <2>2, PairedDepth
<1>6. pc' = "depth" => Paired
  BY DEF Pairing, FirstInner, FirstLeaf, SecondInner, SecondLeaf
<1>7. QED BY <1>3, <1>4, <1>5, <1>6

LEMMA MeasuringTypes ==
  ASSUME Types, DepthInv, LevelInv, Measuring
  PROVE  Types' /\ DepthInv' /\ LevelInv'
<1>1. /\ WorkStep /\ leaf' = leaf /\ total' = total /\ lens' = lens
  BY DEF Measuring, Deepen, Deepened, CountInner, AssignLeaves, pairUnchanged,
         WorkStep, sortVars, levelVars, limitVars, PairPhases, Later
<1>2. /\ root' = root \/ root' = root + 1 \/ root' = 1
      /\ avail' = avail \/ avail' = 1 \/ avail' = 2 * used
      /\ used' = used \/ used' = 0 \/ used' = used + 1
      /\ depth' = depth \/ depth' = 0 \/ depth' = depth + 1
      /\ next' = next \/ next' = next + 1 \/ next' = 0 \/ next' = next + avail - used
  BY DEF Measuring, Deepen, Deepened, CountInner, AssignLeaves, pairUnchanged, levelVars
<1>3. /\ root' \in Int /\ next' \in Int /\ avail' \in Int /\ used' \in Int /\ depth' \in Int
  BY <1>2, NumberTypes
<1>4. w' \in [0..(n - 1) -> Nat]
  BY DeepenDepth, DeepenedLevel, CountInnerLevel, AssignLeavesLevel DEF Measuring
<1>5. Types'
  BY <1>1, <1>3, <1>4, NumberTypes, WorkTypes
<1>6. DepthInv'
  <2>1. Deepen => DepthInv'
    BY DeepenDepth
  <2>2. Deepened \/ CountInner \/ AssignLeaves => pc' # "depth"
    BY DEF Deepened, CountInner, AssignLeaves
  <2>3. QED BY <2>1, <2>2 DEF Measuring, DepthInv
<1>7. LevelInv'
  <2>1. Deepened \/ CountInner \/ AssignLeaves => LevelInv'
    BY DeepenedLevel, CountInnerLevel, AssignLeavesLevel
  <2>2. Deepen => pc' # "level"
    BY DEF Deepen
  <2>3. QED BY <2>1, <2>2 DEF Measuring, LevelInv
<1>8. QED BY <1>5, <1>6, <1>7

LEMMA WithLengthsType ==
  ASSUME NEW f \in [0..(n - 1) -> Nat]
  PROVE  WithLengths(f) \in [Syms -> Nat]
<1>1. ASSUME NEW s \in Syms, \E k \in 0..(n - 1) : Lit(k) = s
      PROVE  f[CHOOSE k \in 0..(n - 1) : Lit(k) = s] \in Nat
  <2>1. PICK a : a = CHOOSE k \in 0..(n - 1) : Lit(k) = s
    OBVIOUS
  <2>2. a \in 0..(n - 1)
    BY <1>1, <2>1
  <2>3. QED BY <2>1, <2>2
<1>2. QED BY <1>1 DEF WithLengths

\* The numbers of codes of each length that enforceMaxLen starts from.
LEMMA TooLongCounts ==
  ASSUME Types, TooLong
  PROVE  /\ limit \in Nat \ {0} /\ lenCounts' \in [1..limit -> Nat]
         /\ Integral([l \in 1..limit |-> lenCounts'[l] * PowerOf2[limit - l]], limit)
         /\ total' = Sigma([l \in 1..limit |-> lenCounts'[l] * PowerOf2[limit - l]], limit)
<1>1. limit \in Nat \ {0} /\ n \in Nat
  BY LengthFacts DEF Types, TooLong
<1>2. lenCounts' = [l \in 1..limit |->
        Cardinality({k \in 0..(n - 1) : IF l < limit THEN w[k] = l ELSE w[k] >= l})]
  BY DEF TooLong
<1>3. ASSUME NEW S \in SUBSET (0..(n - 1)) PROVE Cardinality(S) \in Nat
  <2>1. IsFiniteSet(0..(n - 1))
    BY <1>1, FS_Interval
  <2>2. QED BY <2>1, FS_Subset, FS_CardinalityType
<1>4. lenCounts' \in [1..limit -> Nat]
  <2>1. ASSUME NEW l \in 1..limit
        PROVE  Cardinality({k \in 0..(n - 1) : IF l < limit THEN w[k] = l ELSE w[k] >= l}) \in Nat
    BY <1>3
  <2>2. QED BY <1>2, <2>1
<1>5. PICK c \in [1..limit -> Nat] : c = lenCounts'
  BY <1>4
<1>6. PICK g : g = [l \in 1..limit |-> c[l] * PowerOf2[limit - l]]
  OBVIOUS
<1>7. Integral(g, limit)
  <2>1. ASSUME NEW l \in 1..limit PROVE g[l] \in Int
    <3>1. limit - l \in Nat
      BY <1>1
    <3>2. PowerOf2[limit - l] \in Nat /\ c[l] \in Nat
      BY <3>1, PowerFacts
    <3>3. g[l] = c[l] * PowerOf2[limit - l]
      BY <1>6
    <3>4. \A a, b \in Nat : a * b \in Int
      OBVIOUS
    <3>5. QED BY <3>2, <3>3, <3>4, Zenon
  <2>2. QED BY <2>1 DEF Integral
<1>8. PICK f : f = CHOOSE x : WeightedSums(c, PowerOf2, limit, x)
  OBVIOUS
<1>9. total' = f[1..limit]
  BY <1>5, <1>8 DEF TooLong, WeightedSums, OneOf, MapThenSumSet, MapThenFoldSet
<1>10. total' = Sigma(g, limit)
  <2>1. \A l \in 1..limit : g[l] = c[l] * PowerOf2[limit - l]
    BY <1>6
  <2>2. f[1..limit] = Sigma(g, limit)
    BY <1>1, <1>7, <1>8, <2>1, WeightedSum
  <2>3. QED BY <1>9, <2>2
<1>11. QED BY <1>1, <1>4, <1>5, <1>6, <1>7, <1>10

LEMMA LimitedType ==
  ASSUME Types, AssignLimited
  PROVE  lens' \in [Syms -> Nat]
<1>1. limit \in Nat \ {0} /\ n \in Nat /\ w \in [0..(n - 1) -> Nat]
  BY LengthFacts DEF Types, AssignLimited, Sorts
<1>2. PICK f : f = [k \in 0..(n - 1) |->
        IF k < UpTo(limit) THEN Min({l \in 1..limit : k < UpTo(l)}) ELSE w[k]]
  OBVIOUS
<1>3. ASSUME NEW k \in 0..(n - 1) PROVE f[k] \in Nat
  <2>1. CASE k < UpTo(limit)
    <3>1. PICK T : T = {l \in 1..limit : k < UpTo(l)}
      OBVIOUS
    <3>2. T \in SUBSET Nat /\ T # {}
      BY <1>1, <2>1, <3>1
    <3>3. Min(T) \in T
      BY <3>2, LeastElement DEF Min
    <3>4. f[k] = Min(T)
      BY <1>2, <2>1, <3>1
    <3>5. QED BY <3>2, <3>3, <3>4
  <2>2. CASE ~(k < UpTo(limit))
    BY <1>1, <1>2, <2>2
  <2>3. QED BY <2>1, <2>2
<1>4. f \in [0..(n - 1) -> Nat]
  <2>1. f = [k \in 0..(n - 1) |-> f[k]]
    BY <1>2
  <2>2. QED BY <1>3, <2>1
<1>5. lens' = WithLengths(f)
  BY <1>2 DEF AssignLimited
<1>6. QED BY <1>4, <1>5, WithLengthsType

LEMMA LimitingTypes ==
  ASSUME Types, Limiting
  PROVE  Types'
<1>1. /\ WorkStep /\ w' = w /\ leaf' = leaf /\ root' = root /\ next' = next
      /\ avail' = avail /\ used' = used /\ depth' = depth
      /\ pc \in {"measured", "limit"}
  BY DEF Limiting, LengthsFit, TooLong, MoveLongest, AssignLimited, treeUnchanged,
         WorkStep, sortVars, pairVars, levelVars, Later
<1>2. w' \in [0..(n - 1) -> Nat]
  BY <1>1 DEF Types, Sorts
<1>3. total' \in Int
  <2>1. CASE TooLong
    BY <2>1, TooLongCounts, SigmaInt
  <2>2. CASE MoveLongest
    BY <2>2, NumberTypes DEF MoveLongest
  <2>3. CASE LengthsFit \/ AssignLimited
    BY <2>3, NumberTypes DEF LengthsFit, AssignLimited, limitVars
  <2>4. QED BY <2>1, <2>2, <2>3 DEF Limiting
<1>4. lens' \in [Syms -> Nat]
  <2>1. CASE LengthsFit
    BY <1>1, <1>2, <2>1, WithLengthsType DEF LengthsFit
  <2>2. CASE TooLong \/ MoveLongest
    BY <2>2, NumberTypes DEF TooLong, MoveLongest
  <2>3. CASE AssignLimited
    BY <2>3, LimitedType
  <2>4. QED BY <2>1, <2>2, <2>3 DEF Limiting
<1>5. QED BY <1>1, <1>2, <1>3, <1>4, NumberTypes, WorkTypes

LEMMA GenerateTypes ==
  ASSUME Types, NEW m \in Nat, NEW l \in Nat \ {0}, NEW h \in [0..m -> Nat], Generate(h, l)
  PROVE  Types'
<1>1. /\ pc' = "collect" /\ hist' = h /\ limit' = l
      /\ lits' = <<>> /\ todo' = <<>> /\ i' = 0 /\ j' = 0
      /\ lens' = [s \in DOMAIN h |-> 0]
      /\ leaf' = leaf /\ root' = root /\ next' = next
      /\ avail' = avail /\ used' = used /\ depth' = depth /\ total' = total
  BY DEF Generate, pairVars, levelVars, limitVars
<1>2. Syms' = 0..m /\ DOMAIN h = 0..m
  BY <1>1 DEF Syms
<1>3. (\E k \in Nat : Syms = 0..(k - 1))'
  <2>1. m + 1 \in Nat /\ (m + 1) - 1 = m
    OBVIOUS
  <2>2. QED BY <1>2, <2>1
<1>4. (hist \in [Syms -> Nat])' /\ (lens \in [Syms -> Nat])'
  BY <1>1, <1>2
<1>5. (lits \in Seq(Syms))' /\ (todo \in Seq(Int \X Int))'
  BY <1>1
<1>6. pc' \in Sorts /\ limit' \in Nat /\ limit' # 0 /\ i' \in Int /\ j' \in Int
  BY <1>1 DEF Sorts
<1>7. /\ leaf' \in Int /\ root' \in Int /\ next' \in Int
      /\ avail' \in Int /\ used' \in Int /\ depth' \in Int /\ total' \in Int
  BY <1>1, NumberTypes
<1>8. QED BY <1>3, <1>4, <1>5, <1>6, <1>7, Zenon DEF Types

-----------------------------------------------------------------------------
(***************************************************************************)
(* The invariant.                                                          *)
(***************************************************************************)
PhaseInv == PairInv /\ DepthInv /\ LevelInv

IInv == Types /\ SortInv /\ PhaseInv

LEMMA InitInv == TreeInit => IInv
<1> SUFFICES ASSUME TreeInit PROVE IInv
  OBVIOUS
<1>1. /\ pc = "done" /\ hist = <<>> /\ limit = 0 /\ lits = <<>> /\ todo = <<>>
      /\ i = 0 /\ j = 0 /\ w = <<>> /\ leaf = 0 /\ root = 0 /\ next = 0
      /\ avail = 0 /\ used = 0 /\ depth = 0 /\ lenCounts = <<>> /\ total = 0 /\ lens = <<>>
  BY DEF TreeInit
<1>2. n = 0 /\ Syms = {} /\ 0..(n - 1) = {}
  BY <1>1 DEF n, Syms
<1>3. Types
  <2>1. hist \in [Syms -> Nat] /\ lens \in [Syms -> Nat] /\ w \in [0..(n - 1) -> Nat]
    BY <1>1, <1>2
  <2>2. \E m \in Nat : Syms = 0..(m - 1)
    <3>1. 0 \in Nat /\ 0..(0 - 1) = {}
      OBVIOUS
    <3>2. QED BY <1>2, <3>1
  <2>3. lits \in Seq(Syms) /\ todo \in Seq(Int \X Int)
    BY <1>1
  <2>4. i \in Int /\ j \in Int /\ leaf \in Int /\ root \in Int /\ next \in Int
    BY <1>1
  <2>5. avail \in Int /\ used \in Int /\ depth \in Int /\ total \in Int /\ limit \in Nat
    BY <1>1
  <2>6. pc = "done" /\ "done" \in Later
    BY <1>1 DEF Later
  <2>7. QED BY <2>1, <2>2, <2>3, <2>4, <2>5, <2>6 DEF Types
<1>4. SortInv
  <2>1. OneEach(lits, Occur)
    <3>1. Occur = {} /\ 0..(Len(lits) - 1) = {}
      BY <1>1, <1>2 DEF Occur
    <3>2. QED BY <3>1 DEF OneEach
  <2>2. Placed(lits, todo)
    <3>1. 0..(Len(lits) - 1) = {}
      BY <1>1
    <3>2. QED BY <3>1 DEF Placed
  <2>3. Apart(todo, n)
    BY <1>1 DEF Apart
  <2>4. QED BY <1>1, <2>1, <2>2, <2>3 DEF SortInv
<1>5. PhaseInv
  BY <1>1 DEF PhaseInv, PairInv, DepthInv, LevelInv, PairPhases
<1>6. QED BY <1>3, <1>4, <1>5 DEF IInv

\* Outside the phases of codeLens nothing is said about them.
LEMMA NoPhase ==
  ASSUME pc' \in Sorts \cup Later
  PROVE  PhaseInv'
BY DEF PhaseInv, PairInv, DepthInv, LevelInv, Sorts, Later, PairPhases

LEMMA SortingInv ==
  ASSUME IInv, Sorting
  PROVE  IInv'
<1>1. Types /\ SortInv
  BY DEF IInv
<1>2. CASE Sorted
  <2>1. Types' /\ SortInv' /\ PairInv'
    BY <1>1, <1>2, SortedTypes, SortedSort, SortedPair
  <2>2. pc' # "depth" /\ pc' # "level"
    BY <1>2 DEF Sorted
  <2>3. QED BY <2>1, <2>2 DEF IInv, PhaseInv, DepthInv, LevelInv
<1>3. CASE ~Sorted
  <2>1. Collect \/ Collected \/ StartInsert \/ Sink \/ NextInsert
        \/ Inserted \/ StartScan \/ Scan \/ Scanned
    BY <1>3 DEF Sorting
  <2>2. pc' \in Sorts
    BY <2>1 DEF Collect, Collected, StartInsert, Sink, NextInsert,
                Inserted, StartScan, Scan, Scanned, Sorts
  <2>3. SortInv'
    BY <1>1, <2>1, CollectSort, CollectedSort, StartInsertSort, SinkSort, NextInsertSort,
       InsertedSort, StartScanSort, ScanSort, ScannedSort
  <2>4. Types'
    BY <1>1, <2>1, SortingTypes
  <2>5. QED BY <2>2, <2>3, <2>4, NoPhase DEF IInv
<1>4. QED BY <1>2, <1>3

LEMMA PairingInv ==
  ASSUME IInv, Pairing
  PROVE  IInv'
<1>1. /\ pc \in PairPhases /\ pc' \in PairPhases \cup {"depth"}
      /\ hist' = hist /\ UNCHANGED sortVars
  BY DEF Pairing, FirstInner, FirstLeaf, SecondInner, SecondLeaf, Paired,
         pairUnchanged, PairPhases
<1>2. SortInv'
  <2>1. pc \notin Sorts /\ pc' \notin Sorts
    BY <1>1 DEF PairPhases, Sorts
  <2>2. QED BY <1>1, <2>1, SameSort DEF IInv
<1>3. Types' /\ PairInv' /\ DepthInv'
  <2>1. Types' /\ PairInv' /\ (pc' = "depth" => DepthInv')
    BY PairingTypes DEF IInv, PhaseInv
  <2>2. QED BY <2>1 DEF DepthInv
<1>4. LevelInv'
  BY <1>1 DEF LevelInv, PairPhases
<1>5. QED BY <1>2, <1>3, <1>4 DEF IInv, PhaseInv

LEMMA MeasuringInv ==
  ASSUME IInv, Measuring
  PROVE  IInv'
<1>1. /\ pc \in {"depth", "level"} /\ pc' \in {"depth", "level", "measured"}
      /\ hist' = hist /\ UNCHANGED sortVars
  BY DEF Measuring, Deepen, Deepened, CountInner, AssignLeaves, pairUnchanged
<1>2. SortInv'
  <2>1. pc \notin Sorts /\ pc' \notin Sorts
    BY <1>1 DEF Sorts
  <2>2. QED BY <1>1, <2>1, SameSort DEF IInv
<1>3. Types' /\ DepthInv' /\ LevelInv'
  BY MeasuringTypes DEF IInv, PhaseInv
<1>4. PairInv'
  BY <1>1 DEF PairInv, PairPhases
<1>5. QED BY <1>2, <1>3, <1>4 DEF IInv, PhaseInv

LEMMA LimitingInv ==
  ASSUME IInv, Limiting
  PROVE  IInv'
<1>1. pc \in Later /\ pc' \in Later /\ hist' = hist /\ UNCHANGED sortVars
  BY DEF Limiting, LengthsFit, TooLong, MoveLongest, AssignLimited, treeUnchanged, Later
<1>2. SortInv'
  <2>1. pc \notin Sorts /\ pc' \notin Sorts
    BY <1>1 DEF Sorts, Later
  <2>2. QED BY <1>1, <2>1, SameSort DEF IInv
<1>3. Types'
  BY LimitingTypes DEF IInv
<1>4. QED BY <1>1, <1>2, <1>3, NoPhase DEF IInv

LEMMA CallInv ==
  ASSUME IInv, TreeCall
  PROVE  IInv'
<1>1. PICK m \in Nat, l \in Nat \ {0} : \E h \in [0..m -> Nat] : Generate(h, l)
  <2>1. 1..MaxDepth \subseteq Nat \ {0}
    OBVIOUS
  <2>2. QED BY <2>1 DEF TreeCall
<1>2. PICK h \in [0..m -> Nat] : Generate(h, l)
  BY <1>1
<1>3. SortInv'
  BY <1>2, GenerateSort
<1>4. Types'
  BY <1>2, GenerateTypes DEF IInv
<1>5. pc' \in Sorts
  BY <1>2 DEF Generate, Sorts
<1>6. QED BY <1>3, <1>4, <1>5, NoPhase DEF IInv

LEMMA SameInv ==
  ASSUME IInv, UNCHANGED treeVars
  PROVE  IInv'
<1>1. /\ pc' = pc /\ hist' = hist /\ limit' = limit /\ lits' = lits /\ todo' = todo
      /\ i' = i /\ j' = j /\ w' = w /\ leaf' = leaf /\ root' = root /\ next' = next
      /\ avail' = avail /\ used' = used /\ depth' = depth
      /\ lenCounts' = lenCounts /\ total' = total /\ lens' = lens
  BY DEF treeVars, sortVars, pairVars, levelVars, limitVars
<1>2. n' = n /\ Syms' = Syms
  BY <1>1 DEF n, Syms
<1>3. Types'
  BY <1>1, <1>2 DEF IInv, Types
<1>4. SortInv'
  <2>1. lits' = lits /\ todo' = todo /\ hist' = hist
    BY <1>1
  <2>2. pc # "collect" => OneEach(lits, Occur)' /\ Placed(lits, todo)' /\ Apart(todo, n)'
    BY <2>1, SameOrder DEF IInv, SortInv
  <2>3. pc = "collect" => 0 <= i' /\ OneEach(lits, {s \in Occur : s < i})'
    BY <1>1, <1>2 DEF IInv, SortInv, OneEach, Occur
  <2>4. pc = "scan" => Scanning'
    BY <1>1 DEF IInv, SortInv, Scanning, Left, Right, Lit, Above, Count
  <2>5. pc = "insert" => Inserting'
    BY <1>1 DEF IInv, SortInv, Inserting, Left, Right, Lit, Above, Count
  <2>6. pc \notin Sorts => todo' = <<>>
    BY <1>1 DEF IInv, SortInv
  <2>7. QED BY <1>1, <2>2, <2>3, <2>4, <2>5, <2>6 DEF SortInv
<1>5. PairInv' /\ DepthInv' /\ LevelInv'
  BY <1>1, <1>2 DEF IInv, PhaseInv, PairInv, DepthInv, DepthNow, LevelInv, LevelNow
<1>6. QED BY <1>3, <1>4, <1>5 DEF IInv, PhaseInv

THEOREM Invariant == TreeSpec => []IInv
<1>1. IInv /\ [TreeNext \/ TreeCall]_treeVars => IInv'
  BY SortingInv, PairingInv, MeasuringInv, LimitingInv, CallInv, SameInv DEF TreeNext
<1>2. QED BY InitInv, <1>1, PTL DEF TreeSpec

-----------------------------------------------------------------------------
(***************************************************************************)
(* Types, indexes, and the sorted array.                                   *)
(***************************************************************************)
\* In every call, whatever was called before, the variables of Generate keep
\* their types: counts, parents and depths are natural numbers, and so are the
\* lengths of codes.
THEOREM TypeCorrect == TreeSpec => []TreeTypeOK
<1>1. IInv => TreeTypeOK
  <2>1. SUFFICES ASSUME Types PROVE TreeTypeOK
    BY DEF IInv
  <2>2. Syms \subseteq Nat
    <3>1. PICK m \in Nat : Syms = 0..(m - 1)
      BY <2>1 DEF Types
    <3>2. QED BY <3>1
  <2>3. {i, j, leaf, root, next, avail, used, depth, total} \subseteq Int
    BY <2>1 DEF Types
  <2>4. QED BY <2>1, <2>2, <2>3 DEF Types, TreeTypeOK, Sorts, PairPhases, Later
<1>2. QED BY Invariant, <1>1, PTL

LEMMA SortTouches ==
  ASSUME Types, SortInv
  PROVE  /\ pc = "insert" /\ i <= Right /\ j > Left => {j - 1, j} \subseteq 0..(n - 1)
         /\ pc = "scan" => {Left, j} \subseteq 0..(n - 1)
         /\ pc = "scan" /\ i <= j => {Left, i, j} \subseteq 0..(n - 1)
<1>1. ASSUME pc = "insert", i <= Right, j > Left PROVE {j - 1, j} \subseteq 0..(n - 1)
  <2>1. Left \in Int /\ Right \in Int /\ 0 <= Left /\ Right < n /\ n \in Nat
    BY <1>1, HeadFacts, LengthFacts
  <2>2. j <= i
    BY <1>1 DEF SortInv, Inserting
  <2>3. QED BY <1>1, <2>1, <2>2, NumberTypes
<1>2. ASSUME pc = "scan" PROVE /\ {Left, j} \subseteq 0..(n - 1)
                               /\ i <= j => {Left, i, j} \subseteq 0..(n - 1)
  BY <1>2, ScanPlaces
<1>3. QED BY <1>1, <1>2

LEMMA PairTouches ==
  ASSUME Types, PairInv, pc \in PairPhases
  PROVE  /\ pairsRunning => {next} \cup (IF TakesInner THEN {root} ELSE {leaf})
                                   \cup (IF leaf >= 0 THEN {leaf} ELSE {})
                              \subseteq 0..(n - 1)
         /\ 1 \in 0..(n - 1)
<1>1. PICK m, f, y, r, x : PairAt(m, f, y, r, x)
  BY PairStart
<1>2. /\ m = n /\ y = leaf /\ r = root /\ x = next
      /\ m \in Nat /\ y \in -1..(m - 1) /\ r \in 0..(m - 1) /\ x \in 0..(m - 1) /\ 2 <= m
  BY <1>1 DEF PairAt
<1>3. 1 \in 0..(n - 1) /\ (leaf >= 0 => leaf \in 0..(n - 1))
  BY <1>2
<1>4. pairsRunning /\ ~TakesInner => leaf >= 0
  <2>1. pairsRunning /\ ~TakesInner => 0 <= leaf
    BY PairFacts
  <2>2. QED BY <1>2, <2>1
<1>5. QED BY <1>2, <1>3, <1>4

LEMMA DepthTouches ==
  ASSUME Types, DepthInv, pc = "depth", next <= n - 1
  PROVE  {next, w[next]} \subseteq 0..(n - 1)
<1>1. PICK m, f, x, p : DepthAt(m, f, x, p)
  BY DepthStart DEF DepthInv
<1>2. /\ m = n /\ f = w /\ x = next /\ m \in Nat /\ x \in 2..m
      /\ Parents(p, m - 1) /\ Deepening(m, f, x, p)
  BY <1>1 DEF DepthAt
<1>3. x \in 2..(m - 1) /\ x \in x..(m - 1)
  BY <1>2
<1>4. f[x] = p[x] /\ p[x] \in 1..(x - 1)
  BY <1>2, <1>3 DEF Deepening, Parents
<1>5. f[x] \in 0..(m - 1) /\ x \in 0..(m - 1)
  BY <1>2, <1>3, <1>4
<1>6. QED BY <1>2, <1>5

LEMMA LevelTouches ==
  ASSUME Types, LevelInv, pc = "level"
  PROVE  /\ IsInner => root \in 0..(n - 1)
         /\ LeavesHere \subseteq 0..(n - 1)
         /\ next <= root
         /\ \A k \in LeavesHere : k < root
<1>1. PICK m, f, p, d, r, v, u, t, x : LevelAt(m, f, p, d, r, v, u, t, x)
  BY LevelStart
<1>2. /\ m = n /\ r = root /\ v = avail /\ u = used /\ x = next /\ m \in Nat
      /\ r \in Int /\ v \in Int /\ u \in Int /\ x \in Int
      /\ Level(d, m - 1, r, v, u, t, x)
  BY <1>1 DEF LevelAt
<1>3. /\ 1 <= r - u /\ 0 <= u /\ u <= v /\ r <= (m - 1) + 1
      /\ 0 <= x /\ x = (r - u) - v
  BY <1>2 DEF Level
<1>4. x <= r /\ (r < m => r \in 0..(m - 1))
  BY <1>2, <1>3
<1>5. \A k \in x..(x + v - u - 1) : k \in 0..(m - 1) /\ k < r
  BY <1>2, <1>3
<1>6. IsInner => r < m
  BY <1>2 DEF IsInner
<1>7. LeavesHere = x..(x + v - u - 1)
  BY <1>2 DEF LeavesHere
<1>8. QED BY <1>2, <1>4, <1>5, <1>6, <1>7

\* No loop of the sort or of codeLens reads or writes outside its array,
\* whatever the counts: a turn of insertReverseSort or scan stays in its
\* interval, each pair finds two nodes, the depth of a parent is there before
\* that of its child, and the leaves of a depth fit below the inner nodes that
\* are still to be counted.
THEOREM StaysInRange == TreeSpec => []InRange
<1>1. ASSUME IInv PROVE InRange
  <2>1. Types /\ SortInv /\ PairInv /\ DepthInv /\ LevelInv
    BY <1>1 DEF IInv, PhaseInv
  <2>2. pc = "level" => next <= root /\ \A k \in LeavesHere : IsInner \/ k < root
    BY <2>1, LevelTouches
  <2>3. Touched \subseteq 0..(n - 1)
    <3>1. CASE pc = "insert"
      BY <2>1, <3>1, SortTouches DEF Touched
    <3>2. CASE pc = "scan"
      BY <2>1, <3>2, SortTouches DEF Touched
    <3>3. CASE pc \in {"first", "second"} /\ pairsRunning
      BY <2>1, <3>3, PairTouches DEF Touched, PairPhases
    <3>4. CASE pc = "first" /\ ~pairsRunning
      BY <2>1, <3>4, PairTouches DEF Touched, PairPhases
    <3>5. CASE pc = "depth"
      BY <2>1, <3>5, DepthTouches DEF Touched
    <3>6. CASE pc = "level"
      BY <2>1, <3>6, LevelTouches DEF Touched
    <3>7. CASE pc = "measured"
      BY <2>1, <3>7, LengthFacts DEF Touched
    <3>8. CASE pc \in {"collect", "sort", "limit", "done"} \/ (pc = "second" /\ ~pairsRunning)
      BY <3>8 DEF Touched
    <3>9. QED BY <2>1, <3>1, <3>2, <3>3, <3>4, <3>5, <3>6, <3>7, <3>8
              DEF Types, Sorts, PairPhases, Later
  <2>4. QED BY <2>2, <2>3 DEF InRange
<1>2. QED BY Invariant, <1>1, PTL

\* A sequence that holds each element of a set once is as long as the set is
\* large.
LEMMA OneEachCount ==
  ASSUME NEW S, NEW s \in Seq(S), OneEach(s, S)
  PROVE  Len(s) = Cardinality(S)
<1>1. PICK m \in Nat : m = Len(s)
  OBVIOUS
<1>2. PICK f : f = [k \in 1..m |-> s[k]]
  OBVIOUS
<1>3. f \in [1..m -> S]
  BY <1>1, <1>2
<1>4. \A x, y \in 1..m : x # y => f[x] # f[y]
  <2>1. ASSUME NEW x \in 1..m, NEW y \in 1..m, x # y PROVE f[x] # f[y]
    <3>1. x - 1 \in 0..(m - 1) /\ y - 1 \in 0..(m - 1) /\ x - 1 # y - 1
      BY <2>1
    <3>2. s[(x - 1) + 1] # s[(y - 1) + 1]
      BY <1>1, <3>1 DEF OneEach
    <3>3. (x - 1) + 1 = x /\ (y - 1) + 1 = y
      OBVIOUS
    <3>4. QED BY <1>2, <3>2, <3>3
  <2>2. QED BY <2>1
<1>5. \A z \in S : \E x \in 1..m : f[x] = z
  <2>1. ASSUME NEW z \in S PROVE \E x \in 1..m : f[x] = z
    <3>1. PICK k \in 0..(m - 1) : s[k + 1] = z
      BY <1>1 DEF OneEach
    <3>2. k + 1 \in 1..m
      OBVIOUS
    <3>3. QED BY <1>2, <3>1, <3>2
  <2>2. QED BY <2>1
<1>6. ExistsBijection(1..m, S)
  BY <1>3, <1>4, <1>5 DEF ExistsBijection, Bijection, Injection, Surjection, IsInjective
<1>7. Cardinality(S) = m
  BY <1>6, FS_CountingElements
<1>8. QED BY <1>1, <1>7

\* quickSortReverse sorts every histogram, for every cutoff: what is not in one
\* of the intervals still to be sorted is in order, and the array always holds
\* the symbols that occur, each once.
THEOREM SortedByCount == TreeSpec => []SortsByCount
<1>1. ASSUME IInv PROVE SortsByCount
  <2>1. Types /\ (pc # "collect" => OneEach(lits, Occur) /\ Placed(lits, todo))
    BY <1>1 DEF IInv, SortInv
  <2>2. n = Len(lits) /\ n \in Nat
    BY <2>1, LengthFacts
  <2>3. ASSUME pc # "collect", NEW a \in 0..(n - 1), NEW b \in 0..(n - 1)
        PROVE  \/ a >= b
               \/ Above(Lit(a), Lit(b))
               \/ \E t \in DOMAIN todo : {a, b} \subseteq todo[t][1]..todo[t][2]
    <3>1. SUFFICES ASSUME a < b
                   PROVE  \/ Above(Lit(a), Lit(b))
                          \/ \E t \in DOMAIN todo : {a, b} \subseteq todo[t][1]..todo[t][2]
      BY <2>2
    <3>2. Above(lits[a + 1], lits[b + 1]) \/ Held(todo, a, b)
      BY <2>1, <2>2, <2>3, <3>1 DEF Placed
    <3>3. QED BY <3>2 DEF Held, Lit
  <2>4. ASSUME pc # "collect"
        PROVE  {Lit(k) : k \in 0..(n - 1)} = Occur /\ n = Cardinality(Occur)
    <3>1. OneEach(lits, Occur)
      BY <2>1, <2>4
    <3>2. {Lit(k) : k \in 0..(n - 1)} = Occur
      BY <2>2, <3>1 DEF OneEach, Lit
    <3>3. lits \in Seq(Occur)
      <4>1. ASSUME NEW x \in 1..n PROVE lits[x] \in Occur
        <5>1. x - 1 \in 0..(n - 1) /\ (x - 1) + 1 = x
          BY <2>2
        <5>2. QED BY <2>2, <3>1, <5>1 DEF OneEach
      <4>2. lits \in Seq(Syms)
        BY <2>1 DEF Types
      <4>3. QED BY <2>2, <4>1, <4>2
    <3>4. QED BY <2>2, <3>1, <3>2, <3>3, OneEachCount
  <2>5. QED BY <2>3, <2>4 DEF SortsByCount, Occur
<1>2. QED BY Invariant, <1>1, PTL

-----------------------------------------------------------------------------
(***************************************************************************)
(* Sums that get longer, and sums of counted numbers.                      *)
(***************************************************************************)
LEMMA SigmaNone ==
  ASSUME NEW g
  PROVE  Sigma(g, 0) = 0
<1>1. \A k \in 1..0 : g[k] = 0
  OBVIOUS
<1>2. QED BY <1>1, SigmaZero

LEMMA SigmaNext ==
  ASSUME NEW m \in Nat, NEW g, Integral(g, m + 1)
  PROVE  Integral(g, m) /\ Sigma(g, m + 1) = Sigma(g, m) + g[m + 1]
<1>1. Integral(g, m)
  BY DEF Integral
<1>2. PICK e : SumsOf(g, m, e) /\ e[m] = Sigma(g, m)
  BY <1>1, SumsExist
<1>3. PICK h : SumsOf(g, m + 1, h) /\ h[m + 1] = Sigma(g, m + 1)
  <2>1. m + 1 \in Nat
    OBVIOUS
  <2>2. QED BY <2>1, SumsExist
<1> DEFINE T == {k \in Nat : k <= m => e[k] = h[k]}
<1>4. 0 \in T
  BY <1>2, <1>3 DEF SumsOf
<1>5. ASSUME NEW k \in T PROVE k + 1 \in T
  <2>1. SUFFICES ASSUME k + 1 <= m PROVE e[k + 1] = h[k + 1]
    BY <1>5
  <2>2. k \in Nat /\ e[k] = h[k] /\ k + 1 \in 1..m /\ k + 1 \in 1..(m + 1) /\ (k + 1) - 1 = k
    BY <1>5, <2>1
  <2>3. e[k + 1] = e[k] + g[k + 1] /\ h[k + 1] = h[k] + g[k + 1]
    BY <1>2, <1>3, <2>2 DEF SumsOf
  <2>4. QED BY <2>2, <2>3
<1>6. T = Nat
  <2> HIDE DEF T
  <2>1. T \in SUBSET Nat
    BY DEF T
  <2>2. QED BY <1>4, <1>5, <2>1, InductiveSet
<1>7. e[m] = h[m]
  BY <1>6
<1>8. h[m + 1] = h[m] + g[m + 1]
  <2>1. m + 1 \in 1..(m + 1) /\ (m + 1) - 1 = m
    OBVIOUS
  <2>2. QED BY <1>3, <2>1 DEF SumsOf
<1>9. QED BY <1>1, <1>2, <1>3, <1>7, <1>8

LEMMA SigmaMore ==
  ASSUME NEW m \in Nat, NEW c \in Nat, NEW z \in Int, NEW g, Integral(g, m),
         \A k \in (m + 1)..(m + c) : g[k] = z
  PROVE  Integral(g, m + c) /\ Sigma(g, m + c) = Sigma(g, m) + c * z
<1>1. Integral(g, m + c)
  <2>1. \A k \in 1..(m + c) : k \in 1..m \/ k \in (m + 1)..(m + c)
    OBVIOUS
  <2>2. QED BY <2>1 DEF Integral
<1>2. PICK s \in Int : s = Sigma(g, m)
  BY SigmaInt
<1> DEFINE T == {k \in Nat : k <= c => Sigma(g, m + k) = s + k * z}
<1>3. 0 \in T
  <2>1. m + 0 = m /\ s + 0 * z = s
    OBVIOUS
  <2>2. QED BY <1>2, <2>1
<1>4. ASSUME NEW k \in T PROVE k + 1 \in T
  <2>1. SUFFICES ASSUME k + 1 <= c PROVE Sigma(g, m + (k + 1)) = s + (k + 1) * z
    BY <1>4
  <2>2. k \in Nat /\ Sigma(g, m + k) = s + k * z /\ m + k \in Nat /\ (m + k) + 1 = m + (k + 1)
    BY <1>4, <2>1
  <2>3. Integral(g, (m + k) + 1)
    <3>1. \A x \in 1..((m + k) + 1) : x \in 1..(m + c)
      BY <2>1, <2>2
    <3>2. QED BY <1>1, <3>1 DEF Integral
  <2>4. Sigma(g, (m + k) + 1) = Sigma(g, m + k) + g[(m + k) + 1]
    BY <2>2, <2>3, SigmaNext
  <2>5. g[(m + k) + 1] = z
    <3>1. (m + k) + 1 \in (m + 1)..(m + c)
      BY <2>1, <2>2
    <3>2. QED BY <3>1
  <2>6. (s + k * z) + z = s + (k + 1) * z
    BY <2>2
  <2>7. QED BY <2>2, <2>4, <2>5, <2>6
<1>5. T = Nat
  <2> HIDE DEF T
  <2>1. T \in SUBSET Nat
    BY DEF T
  <2>2. QED BY <1>3, <1>4, <2>1, InductiveSet
<1>6. Sigma(g, m + c) = s + c * z
  BY <1>5
<1>7. QED BY <1>1, <1>2, <1>6

\* How many of the first m numbers of f are z.
Times(f, m, z) == Cardinality({k \in 0..(m - 1) : f[k] = z})

LEMMA TimesFacts ==
  ASSUME NEW m \in Nat, NEW f, NEW z
  PROVE  /\ Times(f, 0, z) = 0 /\ Times(f, m, z) \in Nat
         /\ Times(f, m + 1, z) = IF f[m] = z THEN Times(f, m, z) + 1 ELSE Times(f, m, z)
<1>1. PICK s : s = {k \in 0..(m - 1) : f[k] = z}
  OBVIOUS
<1>2. IsFiniteSet(s) /\ Cardinality(s) \in Nat
  <2>1. IsFiniteSet(0..(m - 1))
    BY FS_Interval
  <2>2. s \in SUBSET (0..(m - 1))
    BY <1>1
  <2>3. QED BY <2>1, <2>2, FS_Subset, FS_CardinalityType
<1>3. {k \in 0..(0 - 1) : f[k] = z} = {}
  OBVIOUS
<1>4. {k \in 0..((m + 1) - 1) : f[k] = z} = IF f[m] = z THEN s \cup {m} ELSE s
  BY <1>1
<1>5. Cardinality(s \cup {m}) = Cardinality(s) + 1
  <2>1. m \notin s
    BY <1>1
  <2>2. QED BY <1>2, <2>1, FS_AddElement
<1>6. Cardinality({}) = 0
  BY FS_EmptySet
<1>7. QED BY <1>1, <1>2, <1>3, <1>4, <1>5, <1>6 DEF Times

\* A sum over all numbers is one over how often each value is among them.
LEMMA Exchange ==
  ASSUME NEW m \in Nat, NEW l \in Nat, NEW f \in [0..(m - 1) -> 1..l], NEW y \in [1..l -> Int]
  PROVE  /\ Integral([z \in 1..l |-> Times(f, m, z) * y[z]], l)
         /\ Sigma([z \in 1..l |-> Times(f, m, z) * y[z]], l)
              = Sigma([k \in 1..m |-> y[f[k - 1]]], m)
<1> DEFINE C(c) == [z \in 1..l |-> Times(f, c, z) * y[z]]
<1>1. PICK g : g = [k \in 1..m |-> y[f[k - 1]]]
  OBVIOUS
<1>2. \A k \in 1..m : f[k - 1] \in 1..l /\ g[k] = y[f[k - 1]] /\ g[k] \in Int
  <2>1. \A k \in 1..m : k - 1 \in 0..(m - 1)
    OBVIOUS
  <2>2. QED BY <1>1, <2>1
<1>3. \A a \in Nat, b \in Int : a * b \in Int
  OBVIOUS
<1>4. ASSUME NEW c \in Nat PROVE Integral(C(c), l)
  BY <1>3, TimesFacts DEF Integral
<1> DEFINE T == {c \in Nat : c <= m => Sigma(C(c), l) = Sigma(g, c)}
<1>5. 0 \in T
  <2>1. \A z \in 1..l : C(0)[z] = 0
    BY TimesFacts
  <2>2. Sigma(C(0), l) = 0
    BY <2>1, SigmaZero
  <2>3. QED BY <2>2, SigmaNone
<1>6. ASSUME NEW c \in T PROVE c + 1 \in T
  <2>1. SUFFICES ASSUME c + 1 <= m PROVE Sigma(C(c + 1), l) = Sigma(g, c + 1)
    BY <1>6
  <2>2. c \in Nat /\ Sigma(C(c), l) = Sigma(g, c) /\ c + 1 \in Nat /\ c + 1 \in 1..m
        /\ (c + 1) - 1 = c
    BY <1>6, <2>1
  <2>3. PICK q \in 1..l : q = f[c] /\ g[c + 1] = y[q]
    BY <1>2, <2>2
  <2>4. \A z \in 1..l : z # q => C(c + 1)[z] = C(c)[z]
    <3>1. ASSUME NEW z \in 1..l, z # q PROVE Times(f, c + 1, z) = Times(f, c, z)
      BY <2>2, <2>3, <3>1, TimesFacts
    <3>2. QED BY <3>1
  <2>5. C(c + 1)[q] - C(c)[q] = y[q]
    <3>1. PICK a \in Nat, b \in Int : a = Times(f, c, q) /\ b = y[q]
      BY <2>2, TimesFacts
    <3>2. Times(f, c + 1, q) = a + 1
      BY <2>2, <2>3, <3>1, TimesFacts
    <3>3. C(c + 1)[q] = (a + 1) * b /\ C(c)[q] = a * b
      BY <3>1, <3>2
    <3>4. (a + 1) * b - a * b = b
      OBVIOUS
    <3>5. QED BY <3>1, <3>3, <3>4
  <2>6. PICK x1, x2 : x1 = C(c + 1) /\ x2 = C(c)
    OBVIOUS
  <2>7. Sigma(x1, l) = Sigma(x2, l) + (x1[q] - x2[q])
    <3>1. Integral(x1, l) /\ Integral(x2, l)
      BY <1>4, <2>2, <2>6
    <3>2. \A z \in 1..l : z # q => x1[z] = x2[z]
      BY <2>4, <2>6
    <3>3. QED BY <3>1, <3>2, SigmaChange
  <2>8. Sigma(g, c + 1) = Sigma(g, c) + g[c + 1]
    <3>1. Integral(g, c + 1)
      <4>1. \A k \in 1..(c + 1) : k \in 1..m
        BY <2>2
      <4>2. QED BY <1>2, <4>1 DEF Integral
    <3>2. QED BY <2>2, <3>1, SigmaNext
  <2>9. QED BY <2>2, <2>3, <2>5, <2>6, <2>7, <2>8
<1>7. T = Nat
  <2> HIDE DEF T
  <2>1. T \in SUBSET Nat
    BY DEF T
  <2>2. QED BY <1>5, <1>6, <2>1, InductiveSet
<1>8. Sigma(C(m), l) = Sigma(g, m)
  <2>1. m \in T
    <3> HIDE DEF T
    <3>1. QED BY <1>7
  <2>2. m <= m
    OBVIOUS
  <2>3. QED BY <2>1, <2>2
<1>9. QED BY <1>1, <1>4, <1>8

-----------------------------------------------------------------------------
(***************************************************************************)
(* What the nodes of a tree take of the 2^l codes of l bits.               *)
(***************************************************************************)
\* A node of depth t takes those that begin with its code, or one.
Weight(l, t) == IF t <= l THEN PowerOf2[l - t] ELSE 1
Weights(f, l, m) == [k \in 1..m |-> Weight(l, f[k - 1])]

\* The same without the nodes that are not above depth l.
Upper(l, t) == IF t < l THEN PowerOf2[l - t] ELSE 0
Uppers(f, l, m) == [k \in 1..m |-> Upper(l, f[k - 1])]

\* x leaves and v nodes of depth t take all: those below depth l more than all,
\* those above it less.
Taken(f, l, x, v, t) ==
  /\ t <= l => Sigma(Weights(f, l, x), x) + v * PowerOf2[l - t] = PowerOf2[l]
  /\ t > l => /\ Sigma(Weights(f, l, x), x) + v >= PowerOf2[l]
              /\ Sigma(Uppers(f, l, x), x) < PowerOf2[l]
  /\ t = l + 1 /\ v = 0 => Sigma(Weights(f, l, x), x) = PowerOf2[l]

\* The leaves that have their depth, deeper ones behind.
Leaves(f, x, t) ==
  /\ \A k \in 0..(x - 1) : f[k] \in Nat /\ 1 <= f[k] /\ f[k] < t
  /\ \A a, b \in 0..(x - 1) : a <= b => f[a] <= f[b]

LEMMA WeightFacts ==
  ASSUME NEW l \in Nat, NEW t \in Nat
  PROVE  /\ Weight(l, t) \in Nat \ {0} /\ Upper(l, t) \in Nat
         /\ t < l => /\ Upper(l, t) = Weight(l, t)
                     /\ PowerOf2[l - t] \in Nat /\ PowerOf2[l - (t + 1)] \in Nat
                     /\ PowerOf2[l - t] = 2 * PowerOf2[l - (t + 1)]
         /\ t <= l => Weight(l, t) = PowerOf2[l - t]
         /\ t >= l => Weight(l, t) = 1 /\ Upper(l, t) = 0
<1>1. PowerOf2[0] = 1
  BY PowerFacts
<1>2. CASE t < l
  <2>1. l - t \in Nat /\ l - (t + 1) \in Nat /\ (l - (t + 1)) + 1 = l - t
    BY <1>2
  <2>2. /\ PowerOf2[l - t] \in Nat \ {0} /\ PowerOf2[l - (t + 1)] \in Nat \ {0}
        /\ PowerOf2[(l - (t + 1)) + 1] = 2 * PowerOf2[l - (t + 1)]
    BY <2>1, PowerFacts
  <2>3. QED BY <1>2, <2>1, <2>2 DEF Weight, Upper
<1>3. CASE t = l
  <2>1. l - t = 0
    BY <1>3
  <2>2. QED BY <1>1, <1>3, <2>1 DEF Weight, Upper
<1>4. CASE t > l
  BY <1>4 DEF Weight, Upper
<1>5. QED BY <1>2, <1>3, <1>4

LEMMA WeightsTypes ==
  ASSUME NEW l \in Nat, NEW x \in Nat, NEW f, \A k \in 0..(x - 1) : f[k] \in Nat
  PROVE  /\ Integral(Weights(f, l, x), x) /\ Integral(Uppers(f, l, x), x)
         /\ Sigma(Weights(f, l, x), x) \in Int /\ Sigma(Uppers(f, l, x), x) \in Int
<1>1. ASSUME NEW k \in 1..x
      PROVE  Weights(f, l, x)[k] \in Int /\ Uppers(f, l, x)[k] \in Int
  <2>1. PICK t \in Nat : t = f[k - 1]
    OBVIOUS
  <2>2. Weight(l, t) \in Nat /\ Upper(l, t) \in Nat
    BY WeightFacts
  <2>3. Weights(f, l, x)[k] = Weight(l, t) /\ Uppers(f, l, x)[k] = Upper(l, t)
    BY <2>1 DEF Weights, Uppers
  <2>4. QED BY <2>2, <2>3
<1>2. Integral(Weights(f, l, x), x) /\ Integral(Uppers(f, l, x), x)
  BY <1>1 DEF Integral
<1>3. QED BY <1>2, SigmaInt

\* g has c more leaves, of depth t.
Extended(f, g, x, c, t) ==
  /\ \A k \in 0..(x - 1) : f[k] \in Nat /\ g[k] = f[k]
  /\ \A k \in x..(x + c - 1) : g[k] = t

LEMMA MoreLeaves ==
  ASSUME NEW l \in Nat, NEW x \in Nat, NEW c \in Nat, NEW t \in Nat, NEW f, NEW g,
         Extended(f, g, x, c, t)
  PROVE  /\ Sigma(Weights(g, l, x + c), x + c) = Sigma(Weights(f, l, x), x) + c * Weight(l, t)
         /\ Sigma(Uppers(g, l, x + c), x + c) = Sigma(Uppers(f, l, x), x) + c * Upper(l, t)
<1>1. /\ \A k \in 0..(x - 1) : f[k] \in Nat /\ g[k] = f[k]
      /\ \A k \in x..(x + c - 1) : g[k] = t
  BY DEF Extended
<1>2. PICK a, b : a = Weights(g, l, x + c) /\ b = Uppers(g, l, x + c)
  OBVIOUS
<1>3. PICK p1 \in Nat, p2 \in Nat : p1 = Weight(l, t) /\ p2 = Upper(l, t)
  <2>1. Weight(l, t) \in Nat /\ Upper(l, t) \in Nat
    BY WeightFacts
  <2>2. QED BY <2>1
<1>4. \A k \in (x + 1)..(x + c) : a[k] = Weight(l, t) /\ b[k] = Upper(l, t)
  <2>1. ASSUME NEW k \in (x + 1)..(x + c)
        PROVE  a[k] = Weight(l, t) /\ b[k] = Upper(l, t)
    <3>1. k \in 1..(x + c) /\ k - 1 \in x..(x + c - 1)
      OBVIOUS
    <3>2. g[k - 1] = t
      BY <1>1, <3>1
    <3>3. QED BY <1>2, <3>1, <3>2 DEF Weights, Uppers
  <2>2. QED BY <2>1
<1>5. \A k \in 1..x : a[k] = Weights(f, l, x)[k] /\ b[k] = Uppers(f, l, x)[k]
  <2>1. ASSUME NEW k \in 1..x
        PROVE  a[k] = Weights(f, l, x)[k] /\ b[k] = Uppers(f, l, x)[k]
    <3>1. k \in 1..(x + c) /\ k - 1 \in 0..(x - 1)
      OBVIOUS
    <3>2. g[k - 1] = f[k - 1]
      BY <1>1, <3>1
    <3>3. QED BY <1>2, <3>1, <3>2 DEF Weights, Uppers
  <2>2. QED BY <2>1
<1>6. Integral(Weights(f, l, x), x) /\ Integral(Uppers(f, l, x), x)
  BY <1>1, WeightsTypes
<1>7. Integral(a, x) /\ Integral(b, x)
  BY <1>5, <1>6 DEF Integral
<1>8. Sigma(a, x) = Sigma(Weights(f, l, x), x) /\ Sigma(b, x) = Sigma(Uppers(f, l, x), x)
  BY <1>5, <1>6, SigmaSame
<1>9. /\ Sigma(a, x + c) = Sigma(a, x) + c * p1
      /\ Sigma(b, x + c) = Sigma(b, x) + c * p2
  BY <1>3, <1>4, <1>7, SigmaMore
<1>10. QED BY <1>2, <1>3, <1>8, <1>9

\* All of depth less than l: nothing is left out.
LEMMA AllUpper ==
  ASSUME NEW l \in Nat, NEW x \in Nat, NEW f, \A k \in 0..(x - 1) : f[k] \in Nat /\ f[k] < l
  PROVE  Sigma(Uppers(f, l, x), x) = Sigma(Weights(f, l, x), x)
<1>1. ASSUME NEW k \in 1..x PROVE Uppers(f, l, x)[k] = Weights(f, l, x)[k]
  <2>1. f[k - 1] \in Nat /\ f[k - 1] < l
    OBVIOUS
  <2>2. Upper(l, f[k - 1]) = Weight(l, f[k - 1])
    BY <2>1, WeightFacts
  <2>3. QED BY <2>2 DEF Weights, Uppers
<1>2. Integral(Weights(f, l, x), x)
  BY WeightsTypes
<1>3. QED BY <1>1, <1>2, SigmaSame

\* Of v nodes of depth t, u have two children each, and the others are leaves.
LEMMA TakenLeaves ==
  ASSUME NEW l \in Nat, NEW x \in Nat, NEW v \in Nat \ {0}, NEW u \in 0..v, NEW t \in Nat,
         NEW f, NEW g, NEW c \in Nat, c = v - u,
         \A k \in 0..(x - 1) : g[k] = f[k], \A k \in x..(x + c - 1) : g[k] = t,
         t = 0 => c = 0, Leaves(f, x, t), Taken(f, l, x, v, t)
  PROVE  Leaves(g, x + c, t + 1) /\ Taken(g, l, x + c, 2 * u, t + 1)
<1>1. /\ \A k \in 0..(x - 1) : f[k] \in Nat /\ 1 <= f[k] /\ f[k] < t
      /\ \A a, b \in 0..(x - 1) : a <= b => f[a] <= f[b]
  BY DEF Leaves
<1>2. Leaves(g, x + c, t + 1)
  <2>1. ASSUME NEW k \in 0..(x + c - 1) PROVE g[k] \in Nat /\ 1 <= g[k] /\ g[k] < t + 1
    <3>1. CASE k < x
      <4>1. k \in 0..(x - 1)
        BY <3>1
      <4>2. g[k] = f[k] /\ f[k] \in Nat /\ 1 <= f[k] /\ f[k] < t
        BY <1>1, <4>1
      <4>3. QED BY <4>2
    <3>2. CASE k >= x
      <4>1. k \in x..(x + c - 1) /\ c # 0
        BY <3>2
      <4>2. g[k] = t /\ t # 0
        BY <4>1
      <4>3. QED BY <4>2
    <3>3. QED BY <3>1, <3>2
  <2>2. ASSUME NEW a \in 0..(x + c - 1), NEW b \in 0..(x + c - 1), a <= b
        PROVE  g[a] <= g[b]
    <3>1. CASE b < x
      <4>1. a \in 0..(x - 1) /\ b \in 0..(x - 1)
        BY <2>2, <3>1
      <4>2. g[a] = f[a] /\ g[b] = f[b] /\ f[a] <= f[b]
        BY <1>1, <2>2, <4>1
      <4>3. QED BY <4>2
    <3>2. CASE b >= x
      <4>1. b \in x..(x + c - 1)
        BY <3>2
      <4>2. g[b] = t
        BY <4>1
      <4>3. g[a] \in Nat /\ g[a] < t + 1
        BY <2>1
      <4>4. QED BY <4>2, <4>3
    <3>3. QED BY <3>1, <3>2
  <2>3. QED BY <2>1, <2>2 DEF Leaves
<1>3. PICK s \in Int, z \in Int : s = Sigma(Weights(f, l, x), x) /\ z = Sigma(Uppers(f, l, x), x)
  BY <1>1, WeightsTypes
<1>4. /\ Sigma(Weights(g, l, x + c), x + c) = s + c * Weight(l, t)
      /\ Sigma(Uppers(g, l, x + c), x + c) = z + c * Upper(l, t)
  <2>1. Extended(f, g, x, c, t)
    BY <1>1 DEF Extended
  <2>2. /\ Sigma(Weights(g, l, x + c), x + c)
             = Sigma(Weights(f, l, x), x) + c * Weight(l, t)
        /\ Sigma(Uppers(g, l, x + c), x + c)
             = Sigma(Uppers(f, l, x), x) + c * Upper(l, t)
    BY <2>1, MoreLeaves
  <2>3. QED BY <1>3, <2>2, Zenon
<1>5. PICK q \in Nat : q = PowerOf2[l]
  BY PowerFacts
<1>6. /\ t <= l => s + v * PowerOf2[l - t] = q
      /\ t > l => s + v >= q /\ z < q
  BY <1>3, <1>5 DEF Taken
<1>7. CASE t < l
  <2>1. PICK p \in Nat : p = PowerOf2[l - (t + 1)]
    BY <1>7, WeightFacts
  <2>2. PowerOf2[l - t] = 2 * p /\ Weight(l, t) = 2 * p
    <3>1. PowerOf2[l - t] = 2 * PowerOf2[l - (t + 1)]
      BY <1>7, WeightFacts
    <3>2. Weight(l, t) = PowerOf2[l - t]
      BY <1>7 DEF Weight
    <3>3. QED BY <2>1, <3>1, <3>2
  <2>3. s + v * (2 * p) = q
    BY <1>6, <1>7, <2>2
  <2>4. (s + c * (2 * p)) + (2 * u) * p = q
    <3>1. \A a, b, d \in Int : b = a - d => b * (2 * p) + (2 * d) * p = a * (2 * p)
      OBVIOUS
    <3>2. c * (2 * p) + (2 * u) * p = v * (2 * p)
      BY <3>1
    <3>3. PICK y1 \in Int, y2 \in Int, y3 \in Int :
            y1 = c * (2 * p) /\ y2 = (2 * u) * p /\ y3 = v * (2 * p)
      OBVIOUS
    <3>4. QED BY <2>3, <3>2, <3>3
  <2>5. ~(t + 1 > l) /\ ~(t + 1 = l + 1)
    BY <1>7
  <2>6. Taken(g, l, x + c, 2 * u, t + 1)
    BY <1>4, <1>5, <2>1, <2>2, <2>4, <2>5 DEF Taken
  <2>7. QED BY <1>2, <2>6
<1>8. CASE t = l
  <2>1. Weight(l, t) = 1 /\ Upper(l, t) = 0 /\ PowerOf2[l - t] = 1
    <3>1. l - t = 0 /\ t <= l
      BY <1>8
    <3>2. Weight(l, t) = PowerOf2[l - t] /\ Upper(l, t) = 0
      BY <1>8, <3>1 DEF Weight, Upper
    <3>3. QED BY <3>1, <3>2, PowerFacts
  <2>2. s + v = q
    BY <1>6, <1>8, <2>1
  <2>3. z = s
    <3>1. \A k \in 0..(x - 1) : f[k] \in Nat /\ f[k] < l
      BY <1>1, <1>8
    <3>2. QED BY <1>3, <3>1, AllUpper
  <2>4. /\ Sigma(Weights(g, l, x + c), x + c) = s + c
        /\ Sigma(Uppers(g, l, x + c), x + c) = z
    BY <1>3, <1>4, <2>1
  <2>5. (s + c) + 2 * u >= q /\ z < q /\ (2 * u = 0 => s + c = q)
    BY <2>2, <2>3
  <2>6. ~(t + 1 <= l)
    BY <1>8
  <2>7. Taken(g, l, x + c, 2 * u, t + 1)
    BY <1>5, <2>4, <2>5, <2>6 DEF Taken
  <2>8. QED BY <1>2, <2>7
<1>9. CASE t > l
  <2>1. Weight(l, t) = 1 /\ Upper(l, t) = 0
    BY <1>9, WeightFacts
  <2>2. s + v >= q /\ z < q
    BY <1>6, <1>9
  <2>3. /\ Sigma(Weights(g, l, x + c), x + c) = s + c
        /\ Sigma(Uppers(g, l, x + c), x + c) = z
    BY <1>3, <1>4, <2>1
  <2>4. (s + c) + 2 * u >= q
    BY <2>2
  <2>5. ~(t + 1 <= l) /\ ~(t + 1 = l + 1)
    BY <1>9
  <2>6. Taken(g, l, x + c, 2 * u, t + 1)
    BY <1>5, <2>2, <2>3, <2>4, <2>5 DEF Taken
  <2>7. QED BY <1>2, <2>6
<1>10. QED BY <1>7, <1>8, <1>9

-----------------------------------------------------------------------------
(***************************************************************************)
(* Counts of lengths.                                                      *)
(***************************************************************************)
Weighted(c, l) == [z \in 1..l |-> c[z] * PowerOf2[l - z]]

\* c counts the lengths of m codes, none longer than l bits.  They take s of
\* the 2^l codes of l bits, with those of l bits all of them or too many,
\* without them less than all.
Limited(c, s, l, m) ==
  /\ c \in [1..l -> Nat]
  /\ Sigma(c, l) = m /\ m <= PowerOf2[l]
  /\ s = Sigma(Weighted(c, l), l)
  /\ s >= PowerOf2[l] /\ s - c[l] < PowerOf2[l]

LEMMA PowerTypes ==
  ASSUME NEW l \in Nat, NEW z \in 0..l
  PROVE  l - z \in Nat /\ PowerOf2[l - z] \in Nat /\ PowerOf2[l - z] \in Int
<1>1. PICK k \in Nat : k = l - z
  OBVIOUS
<1>2. PowerOf2[k] \in Nat
  BY PowerFacts
<1>3. QED BY <1>1, <1>2

LEMMA WeightedTypes ==
  ASSUME NEW l \in Nat \ {0}, NEW c \in [1..l -> Int]
  PROVE  /\ Integral(c, l) /\ Integral(Weighted(c, l), l)
         /\ Sigma(c, l) \in Int /\ Sigma(Weighted(c, l), l) \in Int
<1>1. ASSUME NEW z \in 1..l PROVE c[z] \in Int /\ Weighted(c, l)[z] \in Int
  <2>1. PowerOf2[l - z] \in Int
    BY PowerTypes
  <2>2. PICK a \in Int, p \in Int : a = c[z] /\ p = PowerOf2[l - z]
    BY <2>1
  <2>3. Weighted(c, l)[z] = a * p
    BY <2>2 DEF Weighted
  <2>4. a * p \in Int
    OBVIOUS
  <2>5. QED BY <2>2, <2>3, <2>4
<1>2. Integral(c, l) /\ Integral(Weighted(c, l), l)
  BY <1>1 DEF Integral
<1>3. QED BY <1>2, SigmaInt

\* c makes s codes, which take y of those of l bits.
Counting(c, l, s, y) ==
  c \in [1..l -> Int] /\ Sigma(c, l) = s /\ Sigma(Weighted(c, l), l) = y

\* One count changes by d.
Changed(c, e, x, d) == e = [c EXCEPT ![x] = @ + d]
Taking(l, x, d, q) == q = d * PowerOf2[l - x]

LEMMA CountChange ==
  ASSUME NEW l \in Nat \ {0}, NEW c, NEW e, NEW x \in 1..l, NEW d \in Int,
         Changed(c, e, x, d), NEW q \in Int, Taking(l, x, d, q),
         NEW s \in Int, NEW y \in Int, Counting(c, l, s, y),
         NEW a1 \in Int, a1 = s + d, NEW a2 \in Int, a2 = y + q
  PROVE  Counting(e, l, a1, a2)
<1>1. PICK p \in Int : p = PowerOf2[l - x]
  <2>1. x \in 0..l
    OBVIOUS
  <2>2. QED BY <2>1, PowerTypes
<1>2. q = d * p
  BY <1>1 DEF Taking
<1>3. /\ c \in [1..l -> Int] /\ Sigma(c, l) = s /\ Sigma(Weighted(c, l), l) = y
      /\ e = [c EXCEPT ![x] = @ + d]
  BY DEF Counting, Changed
<1>4. e \in [1..l -> Int]
  BY <1>3
<1>5. PICK a \in Int : a = c[x] /\ e[x] = a + d
  BY <1>3
<1>6. \A z \in 1..l : z # x => e[z] = c[z]
  BY <1>3
<1>7. Sigma(e, l) = Sigma(c, l) + (e[x] - c[x])
  <2>1. Integral(e, l) /\ Integral(c, l)
    BY <1>3, <1>4, WeightedTypes
  <2>2. QED BY <1>6, <2>1, SigmaChange
<1>8. PICK f, g : f = Weighted(e, l) /\ g = Weighted(c, l)
  OBVIOUS
<1>9. Integral(f, l) /\ Integral(g, l)
  BY <1>3, <1>4, <1>8, WeightedTypes
<1>10. \A z \in 1..l : z # x => f[z] = g[z]
  BY <1>6, <1>8 DEF Weighted
<1>11. f[x] = (a + d) * p /\ g[x] = a * p
  BY <1>5, <1>8, <1>1 DEF Weighted
<1>12. Sigma(f, l) = Sigma(g, l) + (f[x] - g[x])
  BY <1>9, <1>10, SigmaChange
<1>13. (a + d) * p - a * p = q
  <2>1. (a + d) * p = a * p + d * p
    OBVIOUS
  <2>2. QED BY <1>2, <2>1
<1>14. Sigma(e, l) = s + d
  <2>1. (a + d) - a = d
    OBVIOUS
  <2>2. QED BY <1>3, <1>5, <1>7, <2>1
<1>15. Sigma(Weighted(e, l), l) = y + q
  BY <1>3, <1>8, <1>11, <1>12, <1>13
<1>16. QED BY <1>4, <1>14, <1>15 DEF Counting

\* When there are too many codes, one is shorter than the limit.
LEMMA HasShorter ==
  ASSUME NEW l \in Nat \ {0}, NEW c, NEW s, NEW m \in Nat, Limited(c, s, l, m),
         \A z \in 1..(l - 1) : c[z] = 0
  PROVE  s = PowerOf2[l]
<1>1. /\ c \in [1..l -> Nat] /\ Sigma(c, l) = m /\ m <= PowerOf2[l]
      /\ s = Sigma(Weighted(c, l), l) /\ s >= PowerOf2[l]
  BY DEF Limited
<1>2. c \in [1..l -> Int]
  BY <1>1
<1>3. ASSUME NEW z \in 1..l PROVE Weighted(c, l)[z] = c[z]
  <2>1. CASE z = l
    <3>1. l - z = 0 /\ c[z] \in Nat
      BY <1>1, <2>1
    <3>2. Weighted(c, l)[z] = c[z] * PowerOf2[0]
      BY <3>1 DEF Weighted
    <3>3. QED BY <3>1, <3>2, PowerFacts
  <2>2. CASE z # l
    <3>1. z \in 1..(l - 1) /\ l - z \in Nat
      BY <2>2
    <3>2. c[z] = 0 /\ PowerOf2[l - z] \in Nat
      BY <3>1, PowerFacts
    <3>3. Weighted(c, l)[z] = c[z] * PowerOf2[l - z]
      BY DEF Weighted
    <3>4. \A y \in Nat : 0 * y = 0
      OBVIOUS
    <3>5. QED BY <3>2, <3>3, <3>4
  <2>3. QED BY <2>1, <2>2
<1>4. s = m
  BY <1>1, <1>2, <1>3, WeightedTypes, SigmaSame
<1>5. PowerOf2[l] \in Nat
  BY PowerFacts
<1>6. QED BY <1>1, <1>4, <1>5

\* One of l bits and the longest shorter one make way for two that are a bit
\* longer than that one.
LEMMA MoveOne ==
  ASSUME NEW l \in Nat \ {0}, NEW c, NEW s \in Int, NEW m \in Nat, Limited(c, s, l, m),
         s # PowerOf2[l], NEW q \in 1..(l - 1), c[q] # 0,
         NEW e, e = [[c EXCEPT ![l] = @ - 1] EXCEPT ![q] = @ - 1, ![q + 1] = @ + 2]
  PROVE  Limited(e, s - 1, l, m)
<1>1. /\ c \in [1..l -> Nat] /\ Sigma(c, l) = m /\ m <= PowerOf2[l]
      /\ s = Sigma(Weighted(c, l), l) /\ s >= PowerOf2[l] /\ s - c[l] < PowerOf2[l]
  BY DEF Limited
<1>2. PICK h \in Nat : h = PowerOf2[l]
  BY PowerFacts
<1>3. /\ l - (q + 1) \in Nat /\ (l - (q + 1)) + 1 = l - q /\ l - l = 0
      /\ q \in 1..l /\ q + 1 \in 1..l /\ l \in 1..l /\ q # l /\ q # q + 1
  OBVIOUS
<1>4. PICK p \in Nat : p = PowerOf2[l - (q + 1)]
  BY <1>3, PowerFacts
<1>5. 2 * p = PowerOf2[l - q]
  BY <1>3, <1>4, PowerFacts
<1>6. 1 = PowerOf2[l - l]
  BY <1>3, PowerFacts
<1>7. PICK c1 : c1 = [c EXCEPT ![l] = @ + (-1)]
  OBVIOUS
<1>8. PICK c2 : c2 = [c1 EXCEPT ![q] = @ + (-1)]
  OBVIOUS
<1>9. PICK c3 : c3 = [c2 EXCEPT ![q + 1] = @ + 2]
  OBVIOUS
<1>10. PICK o \in Int, m1 \in Int, m2 \in Int, s1 \in Int, s2 \in Int, y2 \in Int, y3 \in Int :
         /\ o = -1 /\ m1 = m + o /\ m2 = m1 + o /\ m = m2 + 2
         /\ y3 = 2 * p /\ y2 = -y3 /\ s1 = s + o /\ s2 = s1 + y2 /\ s1 = s2 + y3
         /\ y2 = o * (2 * p) /\ s1 = s - 1
  OBVIOUS
<1>11. Counting(c1, l, m1, s1)
  <2>1. Counting(c, l, m, s)
    <3>1. c \in [1..l -> Int]
      BY <1>1
    <3>2. QED BY <1>1, <3>1 DEF Counting
  <2>2. Changed(c, c1, l, o)
    BY <1>7, <1>10 DEF Changed
  <2>3. Taking(l, l, o, o)
    BY <1>6, <1>10 DEF Taking
  <2>4. m1 = m + o /\ s1 = s + o /\ m \in Int /\ l \in 1..l
    BY <1>10
  <2>5. QED BY <2>1, <2>2, <2>3, <2>4, CountChange, Zenon
<1>12. Counting(c2, l, m2, s2)
  <2>1. Changed(c1, c2, q, o)
    BY <1>8, <1>10 DEF Changed
  <2>2. Taking(l, q, o, y2)
    BY <1>5, <1>10 DEF Taking
  <2>3. m2 = m1 + o /\ s2 = s1 + y2 /\ q \in 1..l
    BY <1>3, <1>10
  <2>4. QED BY <1>11, <2>1, <2>2, <2>3, CountChange, Zenon
<1>13. Counting(c3, l, m, s1)
  <2>1. PICK d \in Int : d = 2
    OBVIOUS
  <2>2. Changed(c2, c3, q + 1, d)
    BY <1>9, <2>1 DEF Changed
  <2>3. Taking(l, q + 1, d, y3)
    BY <1>4, <1>10, <2>1 DEF Taking
  <2>4. m = m2 + d /\ s1 = s2 + y3 /\ m \in Int /\ q + 1 \in 1..l
    BY <1>3, <1>10, <2>1
  <2>5. QED BY <1>12, <2>2, <2>3, <2>4, CountChange, Zenon
<1>14. c1 \in [1..l -> Int] /\ c2 \in [1..l -> Int] /\ c3 \in [1..l -> Int]
  BY <1>11, <1>12, <1>13 DEF Counting
<1>15. /\ \A z \in 1..l : c[z] \in Nat
       /\ \A z \in 1..l : c1[z] = IF z = l THEN c[z] - 1 ELSE c[z]
  BY <1>1, <1>7
<1>16. c3 = e
  <2>1. \A z \in 1..l : c2[z] = IF z = q THEN c1[z] - 1 ELSE c1[z]
    BY <1>8, <1>14
  <2>2. \A z \in 1..l : c3[z] = IF z = q + 1 THEN c2[z] + 2 ELSE c2[z]
    BY <1>9, <1>14
  <2>3. PICK b : b = [c EXCEPT ![l] = @ - 1]
    OBVIOUS
  <2>4. b \in [1..l -> Int] /\ \A z \in 1..l : b[z] = c1[z]
    BY <1>1, <1>7, <2>3
  <2>5. e = [b EXCEPT ![q] = @ - 1, ![q + 1] = @ + 2]
    BY <2>3
  <2>6. \A z \in 1..l : e[z] = IF z = q + 1 THEN b[z] + 2 ELSE IF z = q THEN b[z] - 1 ELSE b[z]
    BY <1>3, <2>4, <2>5
  <2>7. e = [z \in 1..l |-> e[z]] /\ c3 = [z \in 1..l |-> c3[z]]
    BY <1>14, <2>4, <2>5
  <2>8. ASSUME NEW z \in 1..l PROVE c3[z] = e[z]
    <3>1. CASE z = q + 1
      <4>1. z # q
        BY <3>1
      <4>2. c3[z] = c2[z] + 2 /\ c2[z] = c1[z] /\ e[z] = b[z] + 2 /\ b[z] = c1[z]
        BY <2>1, <2>2, <2>4, <2>6, <3>1, <4>1
      <4>3. QED BY <4>2
    <3>2. CASE z # q + 1
      <4>1. c3[z] = c2[z] /\ b[z] = c1[z]
        BY <2>2, <2>4, <3>2
      <4>2. CASE z = q
        BY <2>1, <2>6, <3>2, <4>1, <4>2
      <4>3. CASE z # q
        BY <2>1, <2>6, <3>2, <4>1, <4>3
      <4>4. QED BY <4>2, <4>3
    <3>3. QED BY <3>1, <3>2
  <2>9. QED BY <2>7, <2>8
<1>17. PICK x \in Nat : x = c[l]
  BY <1>3, <1>15
<1>18. s > h /\ s - x < h /\ x # 0
  <2>1. s >= h /\ s # h /\ s - x < h
    BY <1>1, <1>2, <1>17
  <2>2. QED BY <2>1
<1>19. \A z \in 1..l : e[z] = IF z = q + 1 THEN c1[z] + 2 ELSE IF z = q THEN c1[z] - 1 ELSE c1[z]
  <2>1. \A z \in 1..l : c2[z] = IF z = q THEN c1[z] - 1 ELSE c1[z]
    BY <1>8, <1>14
  <2>2. \A z \in 1..l : c3[z] = IF z = q + 1 THEN c2[z] + 2 ELSE c2[z]
    BY <1>9, <1>14
  <2>3. ASSUME NEW z \in 1..l
        PROVE  e[z] = IF z = q + 1 THEN c1[z] + 2 ELSE IF z = q THEN c1[z] - 1 ELSE c1[z]
    BY <1>3, <1>16, <2>1, <2>2
  <2>4. QED BY <2>3
<1>20. e \in [1..l -> Nat]
  <2>1. ASSUME NEW z \in 1..l PROVE e[z] \in Nat
    <3>1. CASE z = q
      <4>1. c[z] \in Nat /\ c[z] # 0 /\ c1[z] = c[z] /\ e[z] = c1[z] - 1
        BY <1>3, <1>15, <1>19, <3>1
      <4>2. QED BY <4>1
    <3>2. CASE z # q /\ z = l
      <4>1. c1[z] = x - 1 /\ (e[z] = c1[z] + 2 \/ e[z] = c1[z])
        BY <1>3, <1>15, <1>17, <1>19, <3>2
      <4>2. QED BY <1>18, <4>1
    <3>3. CASE z # q /\ z # l
      <4>1. c[z] \in Nat /\ c1[z] = c[z] /\ (e[z] = c1[z] + 2 \/ e[z] = c1[z])
        BY <1>15, <1>19, <3>3
      <4>2. QED BY <4>1
    <3>4. QED BY <3>1, <3>2, <3>3
  <2>2. e = [z \in 1..l |-> e[z]]
    BY <1>16, <1>14
  <2>3. QED BY <2>1, <2>2
<1>21. e[l] = x - 1 \/ e[l] = x + 1
  <2>1. c1[l] = x - 1
    BY <1>3, <1>15, <1>17
  <2>2. e[l] = c1[l] + 2 \/ e[l] = c1[l]
    BY <1>3, <1>19
  <2>3. (x - 1) + 2 = x + 1
    OBVIOUS
  <2>4. QED BY <2>1, <2>2, <2>3
<1>22. Sigma(e, l) = m /\ Sigma(Weighted(e, l), l) = s - 1
  BY <1>13, <1>16, <1>10 DEF Counting
<1>23. s - 1 >= h /\ (s - 1) - (x - 1) < h /\ (s - 1) - (x + 1) < h
  BY <1>18
<1>24. (s - 1) - e[l] < h
  BY <1>21, <1>23
<1>25. QED BY <1>1, <1>2, <1>20, <1>22, <1>23, <1>24 DEF Limited

LEMMA SigmaOnes ==
  ASSUME NEW m \in Nat, NEW g, \A k \in 1..m : g[k] = 1
  PROVE  Sigma(g, m) = m
<1>1. PICK x \in Nat, z \in Int : x = 0 /\ z = 1
  OBVIOUS
<1>2. Integral(g, x) /\ \A k \in (x + 1)..(x + m) : g[k] = z
  BY <1>1 DEF Integral
<1>3. Sigma(g, x + m) = Sigma(g, x) + m * z
  BY <1>2, SigmaMore
<1>4. Sigma(g, x) = 0
  BY <1>1, SigmaNone
<1>5. x + m = m /\ 0 + m * z = m
  BY <1>1
<1>6. QED BY <1>3, <1>4, <1>5

\* Lengths over l are counted as l.
Cut(f, l, m) == [k \in 0..(m - 1) |-> IF f[k] < l THEN f[k] ELSE l]

LEMMA CutCounts ==
  ASSUME NEW m \in Nat \ {0}, NEW l \in Nat \ {0}, NEW f \in [0..(m - 1) -> Nat], NEW t,
         Leaves(f, m, t), t \in Nat, l < t - 1, Taken(f, l, m, 0, t), m <= PowerOf2[l],
         NEW c, c = [z \in 1..l |-> Times(Cut(f, l, m), m, z)],
         NEW s, s = Sigma(Weighted(c, l), l)
  PROVE  Limited(c, s, l, m)
<1>1. PICK g : g = Cut(f, l, m)
  OBVIOUS
<1>2. \A k \in 0..(m - 1) : f[k] \in Nat /\ 1 <= f[k] /\ g[k] = IF f[k] < l THEN f[k] ELSE l
  BY <1>1 DEF Leaves, Cut
<1>3. g \in [0..(m - 1) -> 1..l]
  <2>1. \A k \in 0..(m - 1) : g[k] \in 1..l
    BY <1>2
  <2>2. g = [k \in 0..(m - 1) |-> g[k]]
    BY <1>1 DEF Cut
  <2>3. QED BY <2>1, <2>2
<1>4. \A z \in 1..l : c[z] = Times(g, m, z) /\ c[z] \in Nat
  BY <1>1, TimesFacts
<1>5. c \in [1..l -> Nat]
  BY <1>4
<1>6. Sigma(c, l) = m
  <2>1. PICK y : y = [z \in 1..l |-> 1]
    OBVIOUS
  <2>2. y \in [1..l -> Int]
    BY <2>1
  <2>3. PICK a, b : a = [z \in 1..l |-> Times(g, m, z) * y[z]] /\ b = [k \in 1..m |-> y[g[k - 1]]]
    OBVIOUS
  <2>4. Integral(a, l) /\ Sigma(a, l) = Sigma(b, m)
    BY <1>3, <2>2, <2>3, Exchange
  <2>5. ASSUME NEW z \in 1..l PROVE c[z] = a[z]
    <3>1. a[z] = Times(g, m, z) * 1
      BY <2>1, <2>3
    <3>2. QED BY <1>4, <3>1
  <2>6. Sigma(c, l) = Sigma(a, l)
    BY <2>4, <2>5, SigmaSame
  <2>7. Sigma(b, m) = m
    <3>1. ASSUME NEW k \in 1..m PROVE b[k] = 1
      <4>1. g[k - 1] \in 1..l
        BY <1>3
      <4>2. QED BY <2>1, <2>3, <4>1
    <3>2. m \in Nat
      OBVIOUS
    <3>3. QED BY <3>1, <3>2, SigmaOnes
  <2>8. QED BY <2>4, <2>6, <2>7
<1>7. \A k \in 1..m : k - 1 \in 0..(m - 1) /\ g[k - 1] \in 1..l
  BY <1>3
<1>8. s = Sigma(Weights(f, l, m), m)
  <2>1. PICK y : y = [z \in 1..l |-> PowerOf2[l - z]]
    OBVIOUS
  <2>2. y \in [1..l -> Int]
    <3>1. ASSUME NEW z \in 1..l PROVE PowerOf2[l - z] \in Int
      BY PowerTypes
    <3>2. QED BY <2>1, <3>1
  <2>3. PICK a, b : a = [z \in 1..l |-> Times(g, m, z) * y[z]] /\ b = [k \in 1..m |-> y[g[k - 1]]]
    OBVIOUS
  <2>4. Integral(a, l) /\ Sigma(a, l) = Sigma(b, m)
    BY <1>3, <2>2, <2>3, Exchange
  <2>5. ASSUME NEW z \in 1..l PROVE Weighted(c, l)[z] = a[z]
    BY <1>4, <2>1, <2>3 DEF Weighted
  <2>6. s = Sigma(a, l)
    BY <2>4, <2>5, SigmaSame
  <2>7. ASSUME NEW k \in 1..m PROVE b[k] = Weights(f, l, m)[k]
    <3>1. PICK x \in Nat : x = f[k - 1] /\ g[k - 1] = IF x < l THEN x ELSE l
      BY <1>2, <1>7
    <3>2. b[k] = PowerOf2[l - g[k - 1]]
      BY <1>7, <2>1, <2>3
    <3>3. Weights(f, l, m)[k] = Weight(l, x)
      BY <3>1 DEF Weights
    <3>4. CASE x < l
      BY <3>1, <3>2, <3>3, <3>4 DEF Weight
    <3>5. CASE ~(x < l)
      <4>1. x >= l /\ l - l = 0
        BY <3>5
      <4>2. Weight(l, x) = 1
        BY <4>1, WeightFacts
      <4>3. QED BY <3>1, <3>2, <3>3, <3>5, <4>1, <4>2, PowerFacts
    <3>6. QED BY <3>4, <3>5
  <2>8. Integral(Weights(f, l, m), m)
    BY <1>2, WeightsTypes
  <2>9. Sigma(b, m) = Sigma(Weights(f, l, m), m)
    BY <2>7, <2>8, SigmaSame
  <2>10. QED BY <2>4, <2>6, <2>9
<1>9. s - c[l] = Sigma(Uppers(f, l, m), m)
  <2>1. PICK y : y = [z \in 1..l |-> IF z < l THEN PowerOf2[l - z] ELSE 0]
    OBVIOUS
  <2>2. y \in [1..l -> Int]
    <3>1. ASSUME NEW z \in 1..l PROVE PowerOf2[l - z] \in Int
      BY PowerTypes
    <3>2. QED BY <2>1, <3>1
  <2>3. PICK a, b : a = [z \in 1..l |-> Times(g, m, z) * y[z]] /\ b = [k \in 1..m |-> y[g[k - 1]]]
    OBVIOUS
  <2>4. Integral(a, l) /\ Sigma(a, l) = Sigma(b, m)
    BY <1>3, <2>2, <2>3, Exchange
  <2>5. PICK d : d = Weighted(c, l)
    OBVIOUS
  <2>6. \A z \in 1..l : z # l => d[z] = a[z]
    BY <1>4, <2>1, <2>3, <2>5 DEF Weighted
  <2>7. a[l] = 0 /\ d[l] = c[l] /\ c[l] \in Nat
    <3>1. l \in 1..l /\ l - l = 0 /\ ~(l < l)
      OBVIOUS
    <3>2. a[l] = Times(g, m, l) * 0 /\ Times(g, m, l) \in Nat /\ c[l] \in Nat
      BY <1>4, <2>1, <2>3, <3>1
    <3>3. d[l] = c[l] * PowerOf2[0]
      BY <2>5, <3>1 DEF Weighted
    <3>4. QED BY <3>2, <3>3, PowerFacts
  <2>8. Integral(d, l)
    <3>1. c \in [1..l -> Int]
      BY <1>5
    <3>2. QED BY <2>5, <3>1, WeightedTypes
  <2>9. Sigma(d, l) = Sigma(a, l) + (d[l] - a[l])
    <3>1. l \in 1..l
      OBVIOUS
    <3>2. QED BY <2>4, <2>6, <2>8, <3>1, SigmaChange
  <2>10. ASSUME NEW k \in 1..m PROVE b[k] = Uppers(f, l, m)[k]
    <3>1. PICK x \in Nat : x = f[k - 1] /\ g[k - 1] = IF x < l THEN x ELSE l
      BY <1>2, <1>7
    <3>2. b[k] = IF g[k - 1] < l THEN PowerOf2[l - g[k - 1]] ELSE 0
      BY <1>7, <2>1, <2>3
    <3>3. Uppers(f, l, m)[k] = Upper(l, x)
      BY <3>1 DEF Uppers
    <3>4. QED BY <3>1, <3>2, <3>3 DEF Upper
  <2>11. Integral(Uppers(f, l, m), m)
    BY <1>2, WeightsTypes
  <2>12. Sigma(b, m) = Sigma(Uppers(f, l, m), m) /\ Sigma(b, m) \in Int
    <3>1. Sigma(b, m) = Sigma(Uppers(f, l, m), m)
      BY <2>10, <2>11, SigmaSame
    <3>2. QED BY <2>11, <3>1, SigmaInt
  <2>13. QED BY <2>4, <2>5, <2>7, <2>9, <2>12
<1>10. Sigma(Weights(f, l, m), m) >= PowerOf2[l] /\ Sigma(Uppers(f, l, m), m) < PowerOf2[l]
  <2>1. t > l
    OBVIOUS
  <2>2. Sigma(Weights(f, l, m), m) + 0 >= PowerOf2[l] /\ Sigma(Uppers(f, l, m), m) < PowerOf2[l]
    BY <2>1 DEF Taken
  <2>3. Sigma(Weights(f, l, m), m) \in Int
    BY <1>2, WeightsTypes
  <2>4. QED BY <2>2, <2>3
<1>11. QED BY <1>5, <1>6, <1>8, <1>9, <1>10 DEF Limited

-----------------------------------------------------------------------------
(***************************************************************************)
(* The invariant of lengths.                                               *)
(***************************************************************************)
\* The limit leaves a code for each symbol.
RoomInv == limit <= MaxDepth /\ (pc # "done" => Cardinality(Occur) <= PowerOf2[limit])

\* While depths are counted, leaves and the nodes of this depth take all codes;
\* no node of the depth before is left.
LeafInv ==
  pc = "level" =>
    /\ Leaves(w, next, depth) /\ Taken(w, limit, next, avail, depth)
    /\ used = 0 /\ root < n => w[root] # depth - 1

\* In the end the leaves take all.
MeasuredInv ==
  pc = "measured" =>
    /\ n = 1 => w[0] = 1
    /\ n >= 2 => /\ Leaves(w, n, depth) /\ Taken(w, limit, n, 0, depth)
                 /\ w[n - 1] = depth - 1

LimitInv == pc = "limit" => Limited(lenCounts, total, limit, n)

LengthsInv == IInv /\ RoomInv /\ LeafInv /\ MeasuredInv /\ LimitInv

LEMMA NoLengths ==
  ASSUME pc' \notin {"level", "measured", "limit"}
  PROVE  LeafInv' /\ MeasuredInv' /\ LimitInv'
BY DEF LeafInv, MeasuredInv, LimitInv

LEMMA CallLengths ==
  ASSUME TreeCall
  PROVE  RoomInv' /\ LeafInv' /\ MeasuredInv' /\ LimitInv'
<1>1. PICK m \in Nat, l \in 1..MaxDepth :
        \E h \in [0..m -> Nat] :
          /\ Cardinality({s \in 0..m : h[s] > 0}) <= PowerOf2[l]
          /\ Generate(h, l)
  BY DEF TreeCall
<1>2. PICK h \in [0..m -> Nat] : /\ Cardinality({s \in 0..m : h[s] > 0}) <= PowerOf2[l]
                                 /\ Generate(h, l)
  BY <1>1
<1>3. pc' = "collect" /\ hist' = h /\ limit' = l
  BY <1>2 DEF Generate
<1>4. Occur' = {s \in 0..m : h[s] > 0}
  BY <1>3 DEF Occur, Syms
<1>5. RoomInv'
  <2>1. l <= MaxDepth
    BY WidthsOK
  <2>2. QED BY <1>2, <1>3, <1>4, <2>1 DEF RoomInv
<1>6. LeafInv' /\ MeasuredInv' /\ LimitInv'
  BY <1>3, NoLengths
<1>7. QED BY <1>5, <1>6

LEMMA NextRoom ==
  ASSUME RoomInv, TreeNext
  PROVE  RoomInv'
<1>1. pc # "done" /\ hist' = hist /\ limit' = limit
  BY DEF TreeNext, Sorting, Collect, Collected, StartInsert, Sink, NextInsert, Inserted,
         StartScan, Scan, Scanned, Sorted, Pairing, FirstInner, FirstLeaf, SecondInner,
         SecondLeaf, Paired, pairUnchanged, Measuring, Deepen, Deepened, CountInner,
         AssignLeaves, Limiting, LengthsFit, TooLong, MoveLongest, AssignLimited, treeUnchanged
<1>2. Occur' = Occur
  BY <1>1 DEF Occur, Syms
<1>3. QED BY <1>1, <1>2 DEF RoomInv

LEMMA SortingLengths ==
  ASSUME IInv, Sorting
  PROVE  LeafInv' /\ MeasuredInv' /\ LimitInv'
<1>1. CASE Sorted
  <2>1. /\ pc' \in {"measured", "first"} /\ lits' = lits /\ (pc' = "measured" => n <= 1)
        /\ w' = [k \in 0..(n - 1) |-> IF n = 1 THEN 1 ELSE Count(Lit(k))]
    BY <1>1 DEF Sorted, sortVars
  <2>2. n' = n /\ n \in Nat
    BY <2>1, LengthFacts DEF n, IInv
  <2>3. n = 1 => w'[0] = 1
    BY <2>1
  <2>4. pc' = "measured" => ~(n' >= 2) /\ (n' = 1 => w'[0] = 1)
    BY <2>1, <2>2, <2>3
  <2>5. MeasuredInv'
    BY <2>4 DEF MeasuredInv
  <2>6. QED BY <2>1, <2>5 DEF LeafInv, LimitInv
<1>2. CASE ~Sorted
  <2>1. pc' \in Sorts
    BY <1>2 DEF Sorting, Collect, Collected, StartInsert, Sink, NextInsert,
                Inserted, StartScan, Scan, Scanned, Sorts
  <2>2. QED BY <2>1, NoLengths DEF Sorts
<1>3. QED BY <1>1, <1>2

LEMMA PairingLengths ==
  ASSUME Pairing
  PROVE  LeafInv' /\ MeasuredInv' /\ LimitInv'
<1>1. pc' \in {"first", "second", "depth"}
  BY DEF Pairing, FirstInner, FirstLeaf, SecondInner, SecondLeaf, Paired
<1>2. QED BY <1>1, NoLengths

LEMMA DeepenedLengths ==
  ASSUME IInv, Deepened
  PROVE  LeafInv' /\ MeasuredInv' /\ LimitInv'
<1>1. /\ pc = "depth" /\ avail' = 1 /\ used' = 0 /\ depth' = 0 /\ root' = 1 /\ next' = 0
      /\ pc' = "level" /\ w' = w /\ lits' = lits /\ limit' = limit
  BY DEF Deepened, sortVars
<1>2. n' = n /\ n \in Nat /\ w \in [0..(n - 1) -> Nat] /\ limit \in Nat
  BY <1>1, LengthFacts DEF n, IInv, Types, Sorts
<1>3. Leaves(w, 0, 0)
  BY DEF Leaves
<1>4. Taken(w, limit, 0, 1, 0)
  <2>1. PICK q \in Nat : q = PowerOf2[limit]
    BY <1>2, PowerFacts
  <2>2. limit - 0 = limit /\ 0 + 1 * q = q /\ ~(0 > limit) /\ ~(0 = limit + 1)
    BY <1>2, <2>1
  <2>3. Sigma(Weights(w, limit, 0), 0) = 0
    BY SigmaNone
  <2>4. QED BY <2>1, <2>2, <2>3 DEF Taken
<1>5. 1 < n => w[1] # 0 - 1
  BY <1>2
<1>6. LeafInv'
  BY <1>1, <1>2, <1>3, <1>4, <1>5 DEF LeafInv
<1>7. QED BY <1>1, <1>6 DEF MeasuredInv, LimitInv

LEMMA CountInnerLengths ==
  ASSUME IInv, LeafInv, CountInner
  PROVE  LeafInv' /\ MeasuredInv' /\ LimitInv'
<1>1. /\ pc = "level" /\ pc' = pc /\ lits' = lits /\ w' = w /\ limit' = limit
      /\ used' = used + 1 /\ next' = next /\ avail' = avail /\ depth' = depth
  BY DEF CountInner, sortVars
<1>2. 0 <= used /\ used \in Int
  BY <1>1 DEF IInv, PhaseInv, LevelInv, LevelNow, Level, Types
<1>3. used' # 0
  BY <1>1, <1>2
<1>4. LeafInv'
  BY <1>1, <1>3 DEF LeafInv
<1>5. QED BY <1>1, <1>4 DEF MeasuredInv, LimitInv

\* When no node of a depth has children, there are no nodes behind it.
LEMMA LastLevel ==
  ASSUME NEW m \in Nat, NEW p, NEW d, Parents(p, m), Depths(d, p, m),
         NEW r \in Int, NEW v \in Int, NEW t \in Int, NEW x,
         Level(d, m, r, v, 0, t, x), r <= m => d[r] # t /\ d[r] # t - 1
  PROVE  r = m + 1
<1>1. /\ 1 <= r /\ r <= m + 1 /\ 0 <= t
      /\ \A k \in 1..(r - 1) : d[k] < t
      /\ t = 0 => r = 1
      /\ t > 0 => \E a \in 1..(r - 1) : \A k \in a..(r - 1) : d[k] = t - 1
  <2>1. r - 0 = r
    OBVIOUS
  <2>2. QED BY <2>1 DEF Level
<1>2. SUFFICES ASSUME r <= m PROVE FALSE
  BY <1>1
<1>3. r \in 1..m /\ d[r] # t /\ d[r] # t - 1
  BY <1>1, <1>2
<1>4. \A k \in 1..m : d[k] \in Nat
  BY DEF Depths
<1>5. CASE r = 1
  <2>1. d[1] = 0
    BY DEF Depths
  <2>2. CASE t = 0
    BY <1>3, <1>5, <2>1, <2>2
  <2>3. CASE t # 0
    <3>1. t > 0 /\ 1..(r - 1) = {}
      BY <1>1, <1>5, <2>3
    <3>2. QED BY <1>1, <3>1
  <2>4. QED BY <2>2, <2>3
<1>6. CASE r # 1
  <2>1. r \in 2..m
    BY <1>3, <1>6
  <2>2. p[r] \in 1..(r - 1) /\ d[r] = d[p[r]] + 1
    BY <2>1 DEF Parents, Depths
  <2>3. PICK b \in Nat : b = d[p[r]] /\ b < t
    <3>1. p[r] \in 1..m
      BY <2>1, <2>2
    <3>2. QED BY <1>1, <1>4, <2>2, <3>1
  <2>4. t > 0
    BY <2>3
  <2>5. d[r - 1] = t - 1
    <3>1. PICK a \in 1..(r - 1) : \A k \in a..(r - 1) : d[k] = t - 1
      BY <1>1, <2>4
    <3>2. r - 1 \in a..(r - 1)
      BY <2>1
    <3>3. QED BY <3>1, <3>2
  <2>6. d[r - 1] <= d[r]
    <3>1. r - 1 \in 1..m /\ r - 1 <= r
      BY <2>1
    <3>2. QED BY <1>3, <3>1, DepthsGrow
  <2>7. PICK c \in Nat : c = d[r]
    BY <1>3, <1>4
  <2>8. c = b + 1 /\ b < t /\ t - 1 <= c /\ c # t /\ c # t - 1
    BY <1>3, <2>2, <2>3, <2>5, <2>6, <2>7
  <2>9. QED BY <2>8
<1>7. QED BY <1>5, <1>6

LEMMA AssignLeavesLengths ==
  ASSUME IInv, LeafInv, AssignLeaves
  PROVE  LeafInv' /\ MeasuredInv' /\ LimitInv'
<1>1. /\ pc = "level" /\ ~IsInner /\ lits' = lits /\ limit' = limit
      /\ w' = [k \in DOMAIN w |-> IF k \in LeavesHere THEN depth ELSE w[k]]
      /\ next' = IF avail > used THEN next + avail - used ELSE next
      /\ avail' = 2 * used /\ depth' = depth + 1 /\ used' = 0 /\ root' = root
      /\ pc' = IF used > 0 THEN "level" ELSE "measured"
  BY DEF AssignLeaves, sortVars
<1>2. PICK m, f, p, d, r, v, u, t, x : LevelAt(m, f, p, d, r, v, u, t, x)
  BY <1>1, LevelStart DEF IInv, PhaseInv
<1>3. /\ m = n /\ f = w /\ r = root /\ v = avail /\ u = used /\ t = depth /\ x = next
      /\ m \in Nat /\ 2 <= m /\ f \in [0..(m - 1) -> Nat]
      /\ r \in Int /\ v \in Int /\ u \in Int /\ t \in Int /\ x \in Int
      /\ Parents(p, m - 1) /\ Depths(d, p, m - 1)
      /\ Level(d, m - 1, r, v, u, t, x)
      /\ \A k \in r..(m - 1) : f[k] = d[k]
  BY <1>2 DEF LevelAt
<1>4. /\ 1 <= r - u /\ 0 <= u /\ u <= v /\ r <= (m - 1) + 1 /\ 0 <= t
      /\ 0 <= x /\ x = (r - u) - v
      /\ t = 0 => r - u = 1 /\ v = 1
      /\ t > 0 => \E a \in 1..((r - u) - 1) : v = 2 * ((r - u) - a)
  BY <1>3 DEF Level
<1>5. v \in Nat \ {0} /\ u \in 0..v /\ t \in Nat /\ x \in Nat /\ v - u \in Nat
  <2>1. v # 0
    <3>1. CASE t = 0
      BY <1>4, <3>1
    <3>2. CASE t # 0
      <4>1. PICK a \in 1..((r - u) - 1) : v = 2 * ((r - u) - a)
        BY <1>3, <1>4, <3>2
      <4>2. QED BY <1>3, <4>1
    <3>3. QED BY <3>1, <3>2
  <2>2. QED BY <1>3, <1>4, <2>1
<1>6. r < m => f[r] # t /\ f[r] = d[r]
  <2>1. r < m => f[r] # t
    BY <1>1, <1>3 DEF IsInner
  <2>2. r < m => r \in r..(m - 1)
    BY <1>3
  <2>3. QED BY <1>3, <2>1, <2>2
<1>7. t = 0 => v - u = 0
  <2>1. SUFFICES ASSUME t = 0, u # 1 PROVE FALSE
    BY <1>3, <1>4
  <2>2. u = 0 /\ r = 1 /\ r < m
    BY <1>3, <1>4, <2>1
  <2>3. d[1] = 0
    BY <1>3 DEF Depths
  <2>4. QED BY <1>6, <2>1, <2>2, <2>3
<1>8. PICK g : g = w'
  OBVIOUS
<1>9. PICK l \in Nat : l = limit
  BY DEF IInv, Types
<1>10. /\ Leaves(f, x, t) /\ Taken(f, l, x, v, t)
       /\ u = 0 /\ r < m => f[r] # t - 1
  BY <1>1, <1>3, <1>9 DEF LeafInv
<1>11. PICK c \in Nat : c = v - u
  BY <1>5
<1>12. x + c = r - 2 * u /\ next' = x + c
  BY <1>1, <1>3, <1>4, <1>11
<1>13. \A k \in 0..(m - 1) : g[k] = IF k \in x..(x + c - 1) THEN t ELSE f[k]
  <2>1. LeavesHere = x..(x + c - 1)
    <3>1. x + v - u - 1 = x + c - 1
      BY <1>3, <1>11
    <3>2. QED BY <1>3, <3>1 DEF LeavesHere
  <2>2. QED BY <1>1, <1>3, <1>8, <2>1
<1>14. x + c <= m /\ x + c <= r
  BY <1>3, <1>4, <1>12
<1>15. /\ \A k \in 0..(x - 1) : g[k] = f[k]
       /\ \A k \in x..(x + c - 1) : g[k] = t
  <2>1. \A k \in 0..(x - 1) : k \in 0..(m - 1) /\ k \notin x..(x + c - 1)
    BY <1>3, <1>5, <1>14
  <2>2. \A k \in x..(x + c - 1) : k \in 0..(m - 1)
    BY <1>3, <1>5, <1>14
  <2>3. QED BY <1>13, <2>1, <2>2
<1>16. Leaves(g, x + c, t + 1) /\ Taken(g, l, x + c, 2 * u, t + 1)
  <2>1. t = 0 => c = 0
    BY <1>7, <1>11
  <2>2. QED BY <1>5, <1>10, <1>11, <1>15, <2>1, TakenLeaves
<1>17. n' = m /\ limit' = l
  BY <1>1, <1>3, <1>9 DEF n
<1>18. CASE u > 0
  <2>1. pc' = "level"
    BY <1>1, <1>3, <1>18
  <2>2. r < m => g[r] # (t + 1) - 1
    <3>1. SUFFICES ASSUME r < m PROVE g[r] # t
      BY <1>5
    <3>2. r \in 0..(m - 1) /\ r \notin x..(x + c - 1)
      BY <1>3, <1>4, <1>14, <3>1
    <3>3. QED BY <1>6, <1>13, <3>1, <3>2
  <2>3. LeafInv'
    BY <1>1, <1>3, <1>8, <1>12, <1>16, <1>17, <2>2 DEF LeafInv
  <2>4. QED BY <2>1, <2>3 DEF MeasuredInv, LimitInv
<1>19. CASE ~(u > 0)
  <2>1. u = 0 /\ pc' = "measured"
    BY <1>1, <1>3, <1>4, <1>19
  <2>2. r = m
    <3>1. r <= m - 1 => d[r] # t /\ d[r] # t - 1
      BY <1>3, <1>6, <1>10, <2>1
    <3>2. m - 1 \in Nat /\ (m - 1) + 1 = m
      BY <1>3
    <3>3. Level(d, m - 1, r, v, 0, t, x)
      BY <1>3, <2>1
    <3>4. r = (m - 1) + 1
      BY <1>3, <3>1, <3>2, <3>3, LastLevel
    <3>5. QED BY <3>2, <3>4
  <2>3. x + c = m /\ 2 * u = 0
    BY <1>3, <1>12, <2>1, <2>2
  <2>4. Leaves(g, m, t + 1) /\ Taken(g, l, m, 0, t + 1)
    BY <1>16, <2>3
  <2>5. g[m - 1] = (t + 1) - 1
    <3>1. m - 1 \in x..(x + c - 1)
      BY <1>3, <1>5, <1>11, <2>1, <2>3
    <3>2. g[m - 1] = t
      BY <1>15, <3>1
    <3>3. QED BY <1>5, <3>2
  <2>6. m # 1
    BY <1>3
  <2>7. MeasuredInv'
    BY <1>1, <1>3, <1>8, <1>17, <2>4, <2>5, <2>6 DEF MeasuredInv
  <2>8. QED BY <2>1, <2>7 DEF LeafInv, LimitInv
<1>20. QED BY <1>18, <1>19

LEMMA TooLongLengths ==
  ASSUME IInv, RoomInv, MeasuredInv, TooLong
  PROVE  LimitInv'
<1>1. /\ pc = "measured" /\ pc' = "limit" /\ maxLen > limit
      /\ lits' = lits /\ limit' = limit /\ w' = w
      /\ lenCounts' = [l \in 1..limit |->
           Cardinality({k \in 0..(n - 1) : IF l < limit THEN w[k] = l ELSE w[k] >= l})]
  BY DEF TooLong, treeUnchanged, sortVars
<1>2. PICK m \in Nat, l \in Nat \ {0}, f \in {w} :
        m = n /\ l = limit /\ f = w /\ f \in [0..(m - 1) -> Nat]
  BY <1>1, LengthFacts DEF IInv, Types, Sorts
<1>3. maxLen = IF m = 0 THEN 0 ELSE f[m - 1]
  BY <1>2 DEF maxLen
<1>4. m >= 2
  <2>1. m # 0
    BY <1>1, <1>2, <1>3
  <2>2. m # 1
    <3>1. SUFFICES ASSUME m = 1 PROVE FALSE
      OBVIOUS
    <3>2. f[0] = 1 /\ m - 1 = 0
      BY <1>1, <1>2, <3>1 DEF MeasuredInv
    <3>3. QED BY <1>1, <1>2, <1>3, <3>1, <3>2
  <2>3. QED BY <2>1, <2>2
<1>5. PICK t : t = depth /\ Leaves(f, m, t) /\ Taken(f, l, m, 0, t) /\ f[m - 1] = t - 1
  BY <1>1, <1>2, <1>4 DEF MeasuredInv
<1>6. t \in Nat /\ l < t - 1
  <2>1. t \in Int
    BY <1>5 DEF IInv, Types
  <2>2. m - 1 \in 0..(m - 1)
    BY <1>4
  <2>3. f[m - 1] \in Nat /\ f[m - 1] > l
    BY <1>1, <1>2, <1>3, <1>4, <2>2
  <2>4. QED BY <1>5, <2>1, <2>3
<1>7. m <= PowerOf2[l]
  <2>1. OneEach(lits, Occur)
    BY <1>1 DEF IInv, SortInv
  <2>2. lits \in Seq(Occur)
    <3>1. lits \in Seq(Syms)
      BY DEF IInv, Types
    <3>2. ASSUME NEW k \in 1..Len(lits) PROVE lits[k] \in Occur
      <4>1. k - 1 \in 0..(Len(lits) - 1) /\ (k - 1) + 1 = k
        BY <3>1
      <4>2. QED BY <2>1, <4>1 DEF OneEach
    <3>3. QED BY <3>1, <3>2
  <2>3. Len(lits) = Cardinality(Occur)
    BY <2>1, <2>2, OneEachCount
  <2>4. QED BY <1>1, <1>2, <2>3 DEF RoomInv, n
<1>8. PICK c : c = lenCounts'
  OBVIOUS
<1>9. c = [z \in 1..l |-> Times(Cut(f, l, m), m, z)]
  <2>1. ASSUME NEW z \in 1..l, NEW k \in 0..(m - 1)
        PROVE  (Cut(f, l, m)[k] = z) <=> (IF z < l THEN f[k] = z ELSE f[k] >= z)
    <3>1. f[k] \in Nat /\ Cut(f, l, m)[k] = IF f[k] < l THEN f[k] ELSE l
      BY <1>2 DEF Cut
    <3>2. QED BY <3>1
  <2>2. ASSUME NEW z \in 1..l
        PROVE  {k \in 0..(m - 1) : IF z < l THEN f[k] = z ELSE f[k] >= z}
                 = {k \in 0..(m - 1) : Cut(f, l, m)[k] = z}
    BY <2>1
  <2>3. c = [z \in 1..l |->
               Cardinality({k \in 0..(m - 1) : IF z < l THEN f[k] = z ELSE f[k] >= z})]
    BY <1>1, <1>2, <1>8
  <2>4. QED BY <2>2, <2>3 DEF Times
<1>10. total' = Sigma(Weighted(c, l), l)
  BY <1>2, <1>8, TooLongCounts DEF IInv, Weighted
<1>11. PICK s : s = total'
  OBVIOUS
<1>12. Limited(c, s, l, m)
  <2>1. m \in Nat \ {0}
    BY <1>4
  <2>2. s = Sigma(Weighted(c, l), l)
    BY <1>10, <1>11
  <2>3. QED BY <1>2, <1>5, <1>6, <1>7, <1>9, <2>1, <2>2, CutCounts
<1>13. n' = m /\ limit' = l
  BY <1>1, <1>2 DEF n
<1>14. QED BY <1>8, <1>11, <1>12, <1>13 DEF LimitInv

LEMMA MoveLongestLengths ==
  ASSUME IInv, LimitInv, MoveLongest
  PROVE  LimitInv' /\ Shorter # {}
<1>1. /\ pc = "limit" /\ pc' = pc /\ total # PowerOf2[limit]
      /\ lits' = lits /\ limit' = limit /\ total' = total - 1
  BY DEF MoveLongest, treeUnchanged, sortVars
<1>2. PICK m \in Nat, l \in Nat \ {0}, s \in Int, c \in {lenCounts} :
      m = n /\ l = limit /\ s = total /\ c = lenCounts
  BY <1>1, LengthFacts DEF IInv, Types
<1>3. Limited(c, s, l, m) /\ s # PowerOf2[l]
  BY <1>1, <1>2 DEF LimitInv
<1>4. Shorter = {z \in 1..(l - 1) : c[z] # 0}
  BY <1>2 DEF Shorter
<1>5. Shorter # {}
  <2>1. SUFFICES ASSUME Shorter = {} PROVE FALSE
    OBVIOUS
  <2>2. \A z \in 1..(l - 1) : c[z] = 0
    BY <1>4, <2>1
  <2>3. QED BY <1>3, <2>2, HasShorter
<1>6. PICK q : q = Max(Shorter)
  OBVIOUS
<1>7. q \in Shorter
  <2>1. PICK T : T = {y \in Nat : y <= l /\ l - y \in Shorter}
    OBVIOUS
  <2>2. T \in SUBSET Nat /\ T # {}
    <3>1. PICK z \in Shorter : TRUE
      BY <1>5
    <3>2. z \in 1..(l - 1)
      BY <1>4
    <3>3. l - z \in Nat /\ l - (l - z) = z /\ l - z <= l
      BY <3>2
    <3>4. l - z \in T
      BY <2>1, <3>1, <3>3
    <3>5. QED BY <2>1, <3>4
  <2>3. PICK b \in T : \A y \in T : b <= y
    BY <2>2, LeastElement
  <2>4. b \in Nat /\ b <= l /\ l - b \in Shorter
    BY <2>1, <2>3
  <2>5. ASSUME NEW z \in Shorter PROVE l - b >= z
    <3>1. z \in 1..(l - 1)
      BY <1>4
    <3>2. l - z \in Nat /\ l - (l - z) = z /\ l - z <= l
      BY <3>1
    <3>3. l - z \in T
      BY <2>1, <3>2
    <3>4. b <= l - z
      BY <2>3, <3>3
    <3>5. QED BY <2>4, <3>1, <3>4
  <2>6. \E x \in Shorter : \A z \in Shorter : x >= z
    BY <2>4, <2>5
  <2>7. QED BY <1>6, <2>6 DEF Max
<1>8. q \in 1..(l - 1) /\ c[q] # 0
  BY <1>4, <1>7
<1>9. PICK e : e = [[c EXCEPT ![l] = @ - 1] EXCEPT ![q] = @ - 1, ![q + 1] = @ + 2]
  OBVIOUS
<1>10. lenCounts' = e
  BY <1>2, <1>5, <1>6, <1>9 DEF MoveLongest
<1>11. Limited(e, s - 1, l, m)
  BY <1>3, <1>8, <1>9, MoveOne
<1>12. n' = m /\ limit' = l /\ total' = s - 1
  BY <1>1, <1>2 DEF n
<1>13. QED BY <1>5, <1>10, <1>11, <1>12 DEF LimitInv

LEMMA MeasuringLengths ==
  ASSUME IInv, LeafInv, Measuring
  PROVE  LeafInv' /\ MeasuredInv' /\ LimitInv'
<1>1. CASE Deepen
  <2>1. pc' = "depth"
    BY <1>1 DEF Deepen
  <2>2. QED BY <2>1, NoLengths
<1>2. QED BY <1>1, DeepenedLengths, CountInnerLengths, AssignLeavesLengths DEF Measuring

LEMMA LimitingLengths ==
  ASSUME IInv, RoomInv, MeasuredInv, LimitInv, Limiting
  PROVE  LeafInv' /\ MeasuredInv' /\ LimitInv'
<1>1. CASE LengthsFit \/ AssignLimited
  <2>1. pc' = "done"
    BY <1>1 DEF LengthsFit, AssignLimited
  <2>2. QED BY <2>1, NoLengths
<1>2. CASE TooLong \/ MoveLongest
  <2>1. pc' = "limit"
    BY <1>2 DEF TooLong, MoveLongest
  <2>2. LimitInv'
    BY <1>2, TooLongLengths, MoveLongestLengths
  <2>3. QED BY <2>1, <2>2 DEF LeafInv, MeasuredInv
<1>3. QED BY <1>1, <1>2 DEF Limiting

LEMMA SameLengths ==
  ASSUME RoomInv, LeafInv, MeasuredInv, LimitInv, UNCHANGED treeVars
  PROVE  RoomInv' /\ LeafInv' /\ MeasuredInv' /\ LimitInv'
<1>1. /\ pc' = pc /\ hist' = hist /\ limit' = limit /\ lits' = lits
      /\ w' = w /\ root' = root /\ next' = next
      /\ avail' = avail /\ used' = used /\ depth' = depth
      /\ lenCounts' = lenCounts /\ total' = total
  BY DEF treeVars, sortVars, pairVars, levelVars, limitVars
<1>2. n' = n /\ Occur' = Occur
  BY <1>1 DEF n, Occur, Syms
<1>3. QED BY <1>1, <1>2 DEF RoomInv, LeafInv, MeasuredInv, LimitInv

\* The lengths take all codes, before they are limited and while they are.
THEOREM LengthsCorrect == TreeSpec => []LengthsInv
<1>1. TreeInit => LengthsInv
  <2> SUFFICES ASSUME TreeInit PROVE LengthsInv
    OBVIOUS
  <2>1. pc = "done" /\ limit = 0 /\ 0 <= MaxDepth
    BY WidthsOK DEF TreeInit
  <2>2. QED BY <2>1, InitInv DEF LengthsInv, RoomInv, LeafInv, MeasuredInv, LimitInv
<1>2. LengthsInv /\ [TreeNext \/ TreeCall]_treeVars => LengthsInv'
  <2> SUFFICES ASSUME LengthsInv, [TreeNext \/ TreeCall]_treeVars PROVE LengthsInv'
    OBVIOUS
  <2>1. IInv /\ RoomInv /\ LeafInv /\ MeasuredInv /\ LimitInv
    BY DEF LengthsInv
  <2>2. CASE TreeNext
    <3>1. IInv'
      BY <2>1, <2>2, SortingInv, PairingInv, MeasuringInv, LimitingInv DEF TreeNext
    <3>2. RoomInv'
      BY <2>1, <2>2, NextRoom
    <3>3. LeafInv' /\ MeasuredInv' /\ LimitInv'
      BY <2>1, <2>2, SortingLengths, PairingLengths, MeasuringLengths, LimitingLengths
         DEF TreeNext
    <3>4. QED BY <3>1, <3>2, <3>3 DEF LengthsInv
  <2>3. CASE TreeCall
    BY <2>1, <2>3, CallInv, CallLengths DEF LengthsInv
  <2>4. CASE UNCHANGED treeVars
    BY <2>1, <2>4, SameInv, SameLengths DEF LengthsInv
  <2>5. QED BY <2>2, <2>3, <2>4
<1>3. QED BY <1>1, <1>2, PTL DEF TreeSpec

\* enforceMaxLen never takes a code from a length that has none, and keeps the
\* number of codes and the sum: whatever the histogram, its loop has a code to
\* move each time, and ends with all codes used.
THEOREM LimitKeeps == TreeSpec => []LimitKeepsCodes
<1>1. LengthsInv => LimitKeepsCodes
  <2> SUFFICES ASSUME LengthsInv, pc = "limit"
               PROVE  /\ \A l \in 1..limit : lenCounts[l] >= 0
                      /\ UpTo(limit) = n
                      /\ total = MapThenSumSet(LAMBDA l : lenCounts[l] * PowerOf2[limit - l], 1..limit)
                      /\ total >= PowerOf2[limit]
    BY DEF LimitKeepsCodes
  <2>1. PICK m \in Nat, l \in Nat \ {0}, s \in Int, c \in {lenCounts} :
        m = n /\ l = limit /\ s = total /\ c = lenCounts
    BY LengthFacts DEF LengthsInv, IInv, Types
  <2>2. Limited(c, s, l, m)
    BY <2>1 DEF LengthsInv, LimitInv
  <2>3. /\ c \in [1..l -> Nat] /\ Sigma(c, l) = m
        /\ s = Sigma(Weighted(c, l), l) /\ s >= PowerOf2[l]
    BY <2>2 DEF Limited
  <2>4. c \in [1..l -> Int]
    BY <2>3
  <2>5. Integral(c, l) /\ Integral(Weighted(c, l), l)
    BY <2>4, WeightedTypes
  <2>6. \A z \in 1..limit : lenCounts[z] >= 0
    <3>1. \A z \in 1..l : c[z] >= 0
      BY <2>3
    <3>2. QED BY <2>1, <3>1
  <2>7. UpTo(limit) = n
    <3>1. MapThenSumSet(LAMBDA k : c[k], 1..l) = Sigma(c, l)
      BY <2>5, SumOf
    <3>2. QED BY <2>1, <2>3, <3>1 DEF UpTo
  <2>8. total = MapThenSumSet(LAMBDA z : lenCounts[z] * PowerOf2[limit - z], 1..limit)
    <3>1. PICK g : g = Weighted(c, l)
      OBVIOUS
    <3>2. \A z \in 1..l : g[z] = c[z] * PowerOf2[l - z]
      BY <3>1 DEF Weighted
    <3>3. PICK f : f = CHOOSE x : WeightedSums(c, PowerOf2, l, x)
      OBVIOUS
    <3>4. f[1..l] = Sigma(g, l)
      BY <2>5, <3>1, <3>2, <3>3, WeightedSum
    <3>5. f[1..l] = MapThenSumSet(LAMBDA z : lenCounts[z] * PowerOf2[limit - z], 1..limit)
      BY <2>1, <3>3 DEF WeightedSums, OneOf, MapThenSumSet, MapThenFoldSet
    <3>6. QED BY <2>1, <2>3, <3>1, <3>4, <3>5
  <2>9. QED BY <2>1, <2>3, <2>6, <2>7, <2>8
<1>2. QED BY <1>1, LengthsCorrect, PTL

-----------------------------------------------------------------------------
(***************************************************************************)
(* Bits.  What is left of x, a number of a bits, when only its highest k   *)
(* are kept; the last of them is bit k of its code.                        *)
(***************************************************************************)
Top(x, a) == [k \in 0..a |-> x \div PowerOf2[a - k]]

\* Each keeps one bit more than the one before.
Halves(t, a) == \A k \in 1..a : t[k] \in Nat /\ t[k - 1] = t[k] \div 2

LEMMA HalfOfQuotient ==
  ASSUME NEW x \in Nat, NEW p \in Nat \ {0}
  PROVE  x \div (2 * p) = (x \div p) \div 2 /\ x \div p \in Nat
<1>1. PICK y \in Nat, r \in 0..(p - 1) : y = x \div p /\ x = p * y + r
  BY Remainder
<1>2. PICK h \in Nat, b \in 0..1 : h = y \div 2 /\ y = 2 * h + b
  <2>1. y \div 2 \in Nat /\ y % 2 \in 0..1 /\ y = 2 * (y \div 2) + (y % 2)
    OBVIOUS
  <2>2. QED BY <2>1
<1>3. PICK d \in Nat \ {0} : d = 2 * p
  OBVIOUS
<1>4. PICK e \in Nat, s \in 0..(d - 1) : e = x \div d /\ x = d * e + s
  BY Remainder
<1>5. PICK o \in Int : o = p * b + r
  OBVIOUS
<1>6. o \in 0..(d - 1)
  <2>1. b = 0 \/ b = 1
    OBVIOUS
  <2>2. p * b = IF b = 0 THEN 0 ELSE p
    BY <2>1
  <2>3. QED BY <1>3, <1>5, <2>1, <2>2
<1>7. x = d * h + o
  <2>1. p * (2 * h + b) = (2 * p) * h + p * b
    OBVIOUS
  <2>2. x = p * (2 * h + b) + r /\ d * h = (2 * p) * h
    BY <1>1, <1>2, <1>3
  <2>3. PICK z1 \in Int, z2 \in Int, z3 \in Int :
          z1 = p * (2 * h + b) /\ z2 = (2 * p) * h /\ z3 = p * b
    OBVIOUS
  <2>4. QED BY <1>5, <2>1, <2>2, <2>3
<1>8. h = e
  BY <1>4, <1>6, <1>7, OneQuotient
<1>9. QED BY <1>1, <1>2, <1>3, <1>4, <1>8

LEMMA TopFacts ==
  ASSUME NEW a \in Nat, NEW x \in Nat, x < PowerOf2[a]
  PROVE  /\ Top(x, a)[0] = 0 /\ Top(x, a)[a] = x
         /\ Halves(Top(x, a), a)
         /\ \A k \in 1..a : BitsOf(x, a)[k] = Top(x, a)[k] % 2
<1>1. Top(x, a)[0] = 0
  <2>1. PICK p \in Nat \ {0} : p = PowerOf2[a]
    BY PowerFacts
  <2>2. x \div p = 0
    <3>1. x \div p \in Nat /\ x % p \in 0..(p - 1) /\ x = p * (x \div p) + (x % p)
      BY Remainder
    <3>2. x \in 0..(p - 1) /\ x = p * 0 + x
      BY <2>1
    <3>3. QED BY <3>1, <3>2, OneQuotient
  <2>3. a - 0 = a /\ 0 \in 0..a
    OBVIOUS
  <2>4. QED BY <2>1, <2>2, <2>3 DEF Top
<1>2. Top(x, a)[a] = x
  <2>1. a - a = 0 /\ a \in 0..a /\ x \div 1 = x
    OBVIOUS
  <2>2. QED BY <2>1, PowerFacts DEF Top
<1>3. Halves(Top(x, a), a)
  <2>1. ASSUME NEW k \in 1..a
        PROVE  Top(x, a)[k] \in Nat /\ Top(x, a)[k - 1] = Top(x, a)[k] \div 2
    <3>1. PICK m \in Nat : m = a - k /\ a - (k - 1) = m + 1
      OBVIOUS
    <3>2. PICK p \in Nat \ {0} : p = PowerOf2[m] /\ PowerOf2[m + 1] = 2 * p
      BY PowerFacts
    <3>3. k \in 0..a /\ k - 1 \in 0..a
      OBVIOUS
    <3>4. Top(x, a)[k] = x \div p /\ Top(x, a)[k - 1] = x \div (2 * p)
      BY <3>1, <3>2, <3>3 DEF Top
    <3>5. QED BY <3>4, HalfOfQuotient
  <2>2. QED BY <2>1 DEF Halves
<1>4. \A k \in 1..a : BitsOf(x, a)[k] = Top(x, a)[k] % 2
  BY DEF BitsOf, Top
<1>5. QED BY <1>1, <1>2, <1>3, <1>4

\* Where two of them become different, one has 0 and the other 1.
LEMMA FirstDifferent ==
  ASSUME NEW a \in Nat, NEW s, NEW t, Halves(s, a), Halves(t, a), s[0] = 0, t[0] = 0,
         s[a] < t[a]
  PROVE  \E k \in 1..a : /\ s[k] % 2 < t[k] % 2
                         /\ \A z \in 1..(k - 1) : s[z] = t[z]
<1>1. \A k \in 0..a : s[k] \in Nat /\ t[k] \in Nat
  BY DEF Halves
<1> DEFINE T == {k \in 0..a : s[k] < t[k]}
<1>2. T \in SUBSET Nat /\ a \in T
  OBVIOUS
<1>3. PICK k \in T : \A z \in T : k <= z
  BY <1>2, LeastElement
<1>4. k \in 1..a /\ s[k] < t[k] /\ k - 1 \in 0..a /\ k - 1 \notin T
  BY <1>3
<1>5. PICK x \in Nat, y \in Nat, e \in Nat, f \in Nat :
        /\ x = s[k] /\ y = t[k] /\ e = s[k - 1] /\ f = t[k - 1]
        /\ e = x \div 2 /\ f = y \div 2
  BY <1>1, <1>4 DEF Halves
<1>6. x < y /\ e >= f
  <2>1. ~(s[k - 1] < t[k - 1])
    BY <1>4
  <2>2. QED BY <1>4, <1>5, <2>1
<1>7. e = f /\ x % 2 < y % 2
  BY <1>5, <1>6
<1>8. ASSUME NEW z \in 1..(k - 1) PROVE s[z] = t[z]
  <2> DEFINE U == {c \in Nat : c < k => s[(k - 1) - c] = t[(k - 1) - c]}
  <2>1. 0 \in U
    <3>1. (k - 1) - 0 = k - 1 /\ s[k - 1] = t[k - 1]
      BY <1>4, <1>5, <1>7
    <3>2. QED BY <3>1
  <2>2. ASSUME NEW c \in U PROVE c + 1 \in U
    <3>1. SUFFICES ASSUME c + 1 < k PROVE s[(k - 1) - (c + 1)] = t[(k - 1) - (c + 1)]
      BY <2>2
    <3>2. c \in Nat /\ c < k /\ s[(k - 1) - c] = t[(k - 1) - c]
      BY <1>4, <2>2, <3>1
    <3>3. (k - 1) - c \in 1..a /\ ((k - 1) - c) - 1 = (k - 1) - (c + 1)
      BY <1>4, <3>1, <3>2
    <3>4. QED BY <3>2, <3>3 DEF Halves
  <2>3. U = Nat
    <3> HIDE DEF U
    <3>1. U \in SUBSET Nat
      BY DEF U
    <3>2. QED BY <2>1, <2>2, <3>1, InductiveSet
  <2>4. PICK c \in Nat : c = (k - 1) - z /\ c < k /\ z = (k - 1) - c
    BY <1>4
  <2>5. QED BY <2>3, <2>4
<1>9. QED BY <1>4, <1>5, <1>7, <1>8

\* A code of a bits, and a later one that is as long or longer.
LEMMA LaterCode ==
  ASSUME NEW a \in Nat, NEW b \in Nat, a <= b, NEW x \in Nat, NEW y \in Nat,
         x < PowerOf2[a], y < PowerOf2[b], PowerOf2[b - a] * (x + 1) <= y
  PROVE  /\ Below(BitsOf(x, a), BitsOf(y, b))
         /\ ~IsPrefixOf(BitsOf(x, a), BitsOf(y, b))
         /\ ~IsPrefixOf(BitsOf(y, b), BitsOf(x, a))
<1>1. PICK s, t : s = Top(x, a) /\ t = Top(y, b)
  OBVIOUS
<1>2. /\ s[0] = 0 /\ t[0] = 0 /\ s[a] = x
      /\ Halves(s, a) /\ Halves(t, b)
      /\ \A k \in 1..a : BitsOf(x, a)[k] = s[k] % 2
      /\ \A k \in 1..b : BitsOf(y, b)[k] = t[k] % 2
  BY <1>1, TopFacts
<1>3. Halves(t, a)
  BY <1>2 DEF Halves
<1>4. s[a] < t[a]
  <2>1. b - a \in Nat /\ a \in 0..b
    OBVIOUS
  <2>2. PICK p \in Nat \ {0} : p = PowerOf2[b - a]
    BY <2>1, PowerFacts
  <2>3. PICK q \in Nat, r \in 0..(p - 1) : q = y \div p /\ y = p * q + r
    <3>1. y \div p \in Nat /\ y % p \in 0..(p - 1) /\ y = p * (y \div p) + (y % p)
      BY Remainder
    <3>2. QED BY <3>1
  <2>4. t[a] = q
    BY <1>1, <2>1, <2>2, <2>3 DEF Top
  <2>5. q > x
    <3>1. p * (x + 1) <= p * q + r
      BY <2>2, <2>3
    <3>2. ASSUME q <= x PROVE FALSE
      <4>1. p * q <= p * x
        BY <3>2
      <4>2. p * (x + 1) = p * x + p
        OBVIOUS
      <4>3. PICK o1 \in Int, o2 \in Int, o3 \in Int : o1 = p * q /\ o2 = p * x /\ o3 = p * (x + 1)
        OBVIOUS
      <4>4. QED BY <3>1, <4>1, <4>2, <4>3
    <3>3. QED BY <3>2
  <2>6. QED BY <1>2, <2>4, <2>5
<1>5. PICK k \in 1..a : s[k] % 2 < t[k] % 2 /\ \A z \in 1..(k - 1) : s[z] = t[z]
  BY <1>2, <1>3, <1>4, FirstDifferent
<1>6. PICK e, f : e = BitsOf(x, a) /\ f = BitsOf(y, b)
  OBVIOUS
<1>7. DOMAIN e = 1..a /\ DOMAIN f = 1..b
  BY <1>6 DEF BitsOf
<1>8. k \in DOMAIN e \cap DOMAIN f /\ e[k] < f[k]
  BY <1>2, <1>5, <1>6, <1>7
<1>9. \A z \in 1..(k - 1) : e[z] = f[z]
  <2>1. ASSUME NEW z \in 1..(k - 1) PROVE e[z] = f[z]
    <3>1. z \in 1..a /\ z \in 1..b
      OBVIOUS
    <3>2. QED BY <1>2, <1>5, <1>6, <3>1
  <2>2. QED BY <2>1
<1>10. Len(e) = a /\ Len(f) = b
  BY <1>6 DEF BitsOf
<1>11. e[k] # f[k] /\ k \in 1..Len(e) /\ k \in 1..Len(f)
  <2>1. e[k] = s[k] % 2 /\ f[k] = t[k] % 2 /\ s[k] \in Nat /\ t[k] \in Nat
    BY <1>2, <1>3, <1>6, <1>7, <1>8 DEF Halves
  <2>2. QED BY <1>5, <1>10, <2>1
<1>12. QED BY <1>6, <1>8, <1>9, <1>11 DEF Below, IsPrefixOf

-----------------------------------------------------------------------------
(***************************************************************************)
(* The first code of each length.                                          *)
(***************************************************************************)
\* As section 3.2.2 of the RFC computes them, for c[k] codes of k bits.
FirstCodes(c, m, h) ==
  h \in [0..m -> Nat] /\ h[0] = 0 /\ \A k \in 1..m : h[k] = 2 * (h[k - 1] + c[k - 1])

LEMMA NextCodesFacts ==
  ASSUME NEW m \in Nat, NEW c, \A k \in 0..m : c[k] \in Nat
  PROVE  FirstCodes(c, m, NextCodes(c, m))
<1> DEFINE IsCode(f) == f = [bits \in 0..m |-> IF bits = 0 THEN 0
                                               ELSE 2 * (f[bits - 1] + c[bits - 1])]
<1>1. PICK g : g = [k \in 1..m |-> [z \in Nat |-> 2 * (z + c[k - 1])]]
  OBVIOUS
<1>2. g \in [1..m -> [Nat -> Nat]]
  <2>1. ASSUME NEW k \in 1..m, NEW z \in Nat PROVE 2 * (z + c[k - 1]) \in Nat
    <3>1. k - 1 \in 0..m
      OBVIOUS
    <3>2. c[k - 1] \in Nat
      BY <3>1
    <3>3. QED BY <3>2
  <2>2. QED BY <1>1, <2>1
<1>3. Recurses(m, Nat, 0, g)
  <2>1. 0 \in Nat
    OBVIOUS
  <2>2. QED BY <1>2, <2>1, Recursion, Zenon
<1>4. PICK h \in [0..m -> Nat] : h[0] = 0 /\ \A k \in 1..m : h[k] = g[k][h[k - 1]]
  BY <1>3 DEF Recurses
<1>5. ASSUME NEW k \in 1..m PROVE h[k] = 2 * (h[k - 1] + c[k - 1])
  <2>1. k - 1 \in 0..m
    OBVIOUS
  <2>2. h[k - 1] \in Nat /\ h[k] = g[k][h[k - 1]]
    BY <1>4, <2>1
  <2>3. QED BY <1>1, <2>2
<1>6. IsCode(h)
  <2>1. ASSUME NEW k \in 0..m
        PROVE  h[k] = IF k = 0 THEN 0 ELSE 2 * (h[k - 1] + c[k - 1])
    <3>1. CASE k = 0
      BY <1>4, <3>1
    <3>2. CASE k # 0
      BY <1>5, <3>2
    <3>3. QED BY <3>1, <3>2
  <2>2. h = [k \in 0..m |-> h[k]]
    BY <1>4
  <2>3. QED BY <2>1, <2>2
<1>7. PICK f : f = CHOOSE x : IsCode(x)
  OBVIOUS
<1>8. IsCode(f)
  <2> HIDE DEF IsCode
  <2>1. QED BY <1>6, <1>7
<1>9. f = NextCodes(c, m)
  BY <1>7 DEF NextCodes
<1>10. f[0] = 0 /\ \A k \in 1..m : f[k] = 2 * (f[k - 1] + c[k - 1])
  <2>1. 0 \in 0..m /\ \A k \in 1..m : k \in 0..m /\ k # 0
    OBVIOUS
  <2>2. QED BY <1>8, <2>1
<1> DEFINE T == {k \in Nat : k <= m => f[k] \in Nat}
<1>11. 0 \in T
  BY <1>10
<1>12. ASSUME NEW k \in T PROVE k + 1 \in T
  <2>1. SUFFICES ASSUME k + 1 <= m PROVE f[k + 1] \in Nat
    BY <1>12
  <2>2. f[k] \in Nat /\ k \in 0..m /\ k + 1 \in 1..m /\ (k + 1) - 1 = k
    BY <1>12, <2>1
  <2>3. c[k] \in Nat /\ f[k + 1] = 2 * (f[k] + c[k])
    BY <1>10, <2>2
  <2>4. QED BY <2>2, <2>3
<1>13. T = Nat
  <2> HIDE DEF T
  <2>1. T \in SUBSET Nat
    BY DEF T
  <2>2. QED BY <1>11, <1>12, <2>1, InductiveSet
<1>14. f \in [0..m -> Nat]
  <2>1. \A k \in 0..m : f[k] \in Nat
    BY <1>13
  <2>2. f = [k \in 0..m |-> f[k]]
    BY <1>8
  <2>3. QED BY <2>1, <2>2
<1>15. QED BY <1>9, <1>10, <1>14 DEF FirstCodes

LEMMA PowerSum ==
  ASSUME NEW a \in Nat, NEW b \in Nat
  PROVE  PowerOf2[a + b] = PowerOf2[a] * PowerOf2[b]
<1> DEFINE T == {k \in Nat : PowerOf2[a + k] = PowerOf2[a] * PowerOf2[k]}
<1>1. 0 \in T
  <2>1. a + 0 = a /\ PowerOf2[0] = 1 /\ PowerOf2[a] \in Nat
    BY PowerFacts
  <2>2. QED BY <2>1
<1>2. ASSUME NEW k \in T PROVE k + 1 \in T
  <2>1. k \in Nat /\ a + k \in Nat /\ a + (k + 1) = (a + k) + 1 /\ k + 1 \in Nat
    BY <1>2
  <2>2. PICK x \in Nat, y \in Nat, z \in Nat :
          x = PowerOf2[a] /\ y = PowerOf2[k] /\ z = PowerOf2[a + k]
    BY <2>1, PowerFacts
  <2>3. z = x * y
    BY <1>2, <2>2
  <2>4. PowerOf2[k + 1] = 2 * y /\ PowerOf2[a + (k + 1)] = 2 * z
    BY <2>1, <2>2, PowerFacts
  <2>5. x * (2 * y) = 2 * (x * y)
    OBVIOUS
  <2>6. PowerOf2[a + (k + 1)] = PowerOf2[a] * PowerOf2[k + 1]
    BY <2>2, <2>3, <2>4, <2>5
  <2>7. QED BY <2>1, <2>6
<1>3. T = Nat
  <2> HIDE DEF T
  <2>1. T \in SUBSET Nat
    BY DEF T
  <2>2. QED BY <1>1, <1>2, <2>1, InductiveSet
<1>4. QED BY <1>3

\* The first code of a length lies behind all that begin with a shorter one.
LEMMA LaterFirst ==
  ASSUME NEW m \in Nat, NEW c, \A k \in 0..m : c[k] \in Nat, NEW h, FirstCodes(c, m, h),
         NEW a \in 0..m, NEW b \in (a + 1)..m
  PROVE  PowerOf2[b - a] * (h[a] + c[a]) <= h[b]
<1>1. /\ \A k \in 0..m : h[k] \in Nat /\ c[k] \in Nat
      /\ \A k \in 1..m : h[k] = 2 * (h[k - 1] + c[k - 1])
  BY DEF FirstCodes
<1>2. PICK z \in Nat : z = h[a] + c[a]
  BY <1>1
<1> DEFINE T == {k \in Nat : a + k + 1 <= m => PowerOf2[k + 1] * z <= h[a + k + 1]}
<1>3. 0 \in T
  <2>1. SUFFICES ASSUME a + 0 + 1 <= m PROVE PowerOf2[0 + 1] * z <= h[a + 0 + 1]
    OBVIOUS
  <2>2. a + 0 + 1 \in 1..m /\ (a + 0 + 1) - 1 = a
    BY <2>1
  <2>3. h[a + 0 + 1] = 2 * z
    BY <1>1, <1>2, <2>2
  <2>4. PowerOf2[0 + 1] = 2
    BY PowerFacts
  <2>5. QED BY <2>3, <2>4
<1>4. ASSUME NEW k \in T PROVE k + 1 \in T
  <2>1. SUFFICES ASSUME a + (k + 1) + 1 <= m
                 PROVE  PowerOf2[(k + 1) + 1] * z <= h[a + (k + 1) + 1]
    BY <1>4
  <2>2. k \in Nat /\ a + k + 1 <= m /\ PowerOf2[k + 1] * z <= h[a + k + 1]
    BY <1>4, <2>1
  <2>3. a + (k + 1) + 1 \in 1..m /\ (a + (k + 1) + 1) - 1 = a + k + 1 /\ a + k + 1 \in 0..m
    BY <2>1, <2>2
  <2>4. PICK x \in Nat, y \in Nat, p \in Nat :
          x = h[a + k + 1] /\ y = c[a + k + 1] /\ p = PowerOf2[k + 1]
    <3>1. PowerOf2[k + 1] \in Nat
      BY <2>2, PowerFacts
    <3>2. h[a + k + 1] \in Nat /\ c[a + k + 1] \in Nat
      BY <1>1, <2>3
    <3>3. QED BY <3>1, <3>2
  <2>5. h[a + (k + 1) + 1] = 2 * (x + y)
    BY <1>1, <2>3, <2>4
  <2>6. PowerOf2[(k + 1) + 1] = 2 * p
    BY <2>2, <2>4, PowerFacts
  <2>7. PICK o \in Int : o = p * z /\ (2 * p) * z = 2 * o
    OBVIOUS
  <2>8. o <= x
    BY <2>2, <2>4, <2>7
  <2>9. 2 * o <= 2 * (x + y)
    BY <2>8
  <2>10. QED BY <2>5, <2>6, <2>7, <2>9
<1>5. T = Nat
  <2> HIDE DEF T
  <2>1. T \in SUBSET Nat
    BY DEF T
  <2>2. QED BY <1>3, <1>4, <2>1, InductiveSet
<1>6. PICK k \in Nat : k + 1 = b - a /\ a + k + 1 = b
  <2>1. (b - a) - 1 \in Nat /\ ((b - a) - 1) + 1 = b - a /\ a + ((b - a) - 1) + 1 = b
    OBVIOUS
  <2>2. QED BY <2>1
<1>7. PowerOf2[k + 1] * z <= h[a + k + 1]
  <2>1. k \in T
    BY <1>5
  <2>2. a + k + 1 <= m
    BY <1>6
  <2>3. QED BY <2>1, <2>2
<1>8. QED BY <1>2, <1>6, <1>7

LEMMA SigmaGrows ==
  ASSUME NEW m \in Nat, NEW g, \A k \in 1..m : g[k] \in Nat, NEW x \in 0..m
  PROVE  Integral(g, x) /\ Sigma(g, x) \in Int /\ Sigma(g, x) <= Sigma(g, m)
<1>1. ASSUME NEW k \in 0..m PROVE Integral(g, k) /\ Sigma(g, k) \in Int
  <2>1. Integral(g, k)
    BY DEF Integral
  <2>2. QED BY <2>1, SigmaInt
<1> DEFINE T == {k \in Nat : x + k <= m => Sigma(g, x) <= Sigma(g, x + k)}
<1>2. 0 \in T
  BY <1>1
<1>3. ASSUME NEW k \in T PROVE k + 1 \in T
  <2>1. SUFFICES ASSUME x + (k + 1) <= m PROVE Sigma(g, x) <= Sigma(g, x + (k + 1))
    BY <1>3
  <2>2. k \in Nat /\ Sigma(g, x) <= Sigma(g, x + k)
    BY <1>3, <2>1
  <2>3. PICK y \in Nat : y = x + k /\ y + 1 = x + (k + 1) /\ y \in 0..m /\ y + 1 \in 1..m
                         /\ y + 1 \in 0..m
    BY <2>1, <2>2
  <2>4. Sigma(g, y + 1) = Sigma(g, y) + g[y + 1] /\ g[y + 1] \in Nat
    BY <1>1, <2>3, SigmaNext
  <2>5. Sigma(g, y) \in Int /\ Sigma(g, y + 1) \in Int /\ Sigma(g, x) \in Int
    BY <1>1, <2>3
  <2>6. PICK s \in Int, t \in Int, u \in Int, v \in Nat :
          s = Sigma(g, y) /\ t = Sigma(g, y + 1) /\ u = Sigma(g, x) /\ v = g[y + 1]
    BY <2>4, <2>5
  <2>7. t = s + v /\ u <= s
    BY <2>2, <2>3, <2>4, <2>6
  <2>8. u <= t
    BY <2>7
  <2>9. QED BY <2>3, <2>6, <2>8
<1>4. T = Nat
  <2> HIDE DEF T
  <2>1. T \in SUBSET Nat
    BY DEF T
  <2>2. QED BY <1>2, <1>3, <2>1, InductiveSet
<1>5. PICK k \in Nat : x + k = m
  <2>1. m - x \in Nat /\ x + (m - x) = m
    OBVIOUS
  <2>2. QED BY <2>1
<1>6. Sigma(g, x) <= Sigma(g, m)
  <2>1. k \in T
    BY <1>4
  <2>2. x + k <= m
    BY <1>5
  <2>3. QED BY <1>5, <2>1, <2>2
<1>7. QED BY <1>1, <1>6

\* If all codes together take no more than there is, so do those of each length.
LEMMA EnoughCodes ==
  ASSUME NEW l \in Nat, NEW m \in 0..l, NEW c, \A k \in 0..l : c[k] \in Nat, c[0] = 0,
         NEW h, FirstCodes(c, m, h), Sigma(Weighted(c, l), l) <= PowerOf2[l],
         NEW x \in 0..m
  PROVE  h[x] + c[x] <= PowerOf2[x]
<1>1. /\ \A k \in 0..m : h[k] \in Nat /\ c[k] \in Nat
      /\ h[0] = 0 /\ \A k \in 1..m : h[k] = 2 * (h[k - 1] + c[k - 1])
  BY DEF FirstCodes
<1>2. PICK g : g = Weighted(c, l)
  OBVIOUS
<1>3. \A a, b \in Nat : a * b \in Nat
  OBVIOUS
<1>4. ASSUME NEW k \in 1..l
      PROVE  g[k] \in Nat /\ g[k] = c[k] * PowerOf2[l - k]
  <2>1. k \in 0..l /\ PowerOf2[l - k] \in Nat
    <3>1. k \in 0..l
      OBVIOUS
    <3>2. QED BY <3>1, PowerTypes
  <2>2. g[k] = c[k] * PowerOf2[l - k]
    BY <1>2 DEF Weighted
  <2>3. QED BY <1>3, <2>1, <2>2
<1>5. \A k \in 0..l : Integral(g, k) /\ Sigma(g, k) \in Int /\ Sigma(g, k) <= Sigma(g, l)
  BY <1>4, SigmaGrows
<1> DEFINE T == {k \in Nat : k <= m => (h[k] + c[k]) * PowerOf2[l - k] = Sigma(g, k)}
<1>6. 0 \in T
  <2>1. h[0] + c[0] = 0 /\ l - 0 = l /\ PowerOf2[l] \in Nat
    BY <1>1, PowerFacts
  <2>2. Sigma(g, 0) = 0
    BY SigmaNone
  <2>3. QED BY <2>1, <2>2
<1>7. ASSUME NEW k \in T PROVE k + 1 \in T
  <2>1. SUFFICES ASSUME k + 1 <= m
                 PROVE  (h[k + 1] + c[k + 1]) * PowerOf2[l - (k + 1)] = Sigma(g, k + 1)
    BY <1>7
  <2>2. k \in Nat /\ (h[k] + c[k]) * PowerOf2[l - k] = Sigma(g, k)
    BY <1>7, <2>1
  <2>3. PICK d \in Nat : d = l - (k + 1) /\ d + 1 = l - k
    BY <2>1, <2>2
  <2>4. PICK p \in Nat : p = PowerOf2[d] /\ PowerOf2[d + 1] = 2 * p
    BY PowerFacts
  <2>5. k \in 0..m /\ k + 1 \in 1..m /\ k + 1 \in 0..m /\ (k + 1) - 1 = k
        /\ k + 1 \in 0..l /\ k + 1 \in 1..l
    BY <2>1, <2>2
  <2>6. PICK x1 \in Nat, y1 \in Nat, y2 \in Nat : x1 = h[k] /\ y1 = c[k] /\ y2 = c[k + 1]
    BY <1>1, <2>5
  <2>7. h[k + 1] = 2 * (x1 + y1)
    BY <1>1, <2>5, <2>6
  <2>8. (x1 + y1) * (2 * p) = Sigma(g, k)
    BY <2>2, <2>3, <2>4, <2>6
  <2>9. Sigma(g, k + 1) = Sigma(g, k) + g[k + 1] /\ g[k + 1] = y2 * p
    BY <1>4, <1>5, <2>2, <2>3, <2>4, <2>5, <2>6, SigmaNext
  <2>10. (2 * (x1 + y1) + y2) * p = (x1 + y1) * (2 * p) + y2 * p
    OBVIOUS
  <2>11. QED BY <2>3, <2>4, <2>6, <2>7, <2>8, <2>9, <2>10
<1>8. T = Nat
  <2> HIDE DEF T
  <2>1. T \in SUBSET Nat
    BY DEF T
  <2>2. QED BY <1>6, <1>7, <2>1, InductiveSet
<1>9. (h[x] + c[x]) * PowerOf2[l - x] = Sigma(g, x)
  <2>1. x \in T
    BY <1>8
  <2>2. QED BY <2>1
<1>10. PICK a \in Nat, p \in Nat \ {0}, q \in Nat, s \in Int :
         a = h[x] + c[x] /\ p = PowerOf2[l - x] /\ q = PowerOf2[x] /\ s = Sigma(g, x)
  <2>1. l - x \in Nat /\ x \in Nat /\ x \in 0..l
    OBVIOUS
  <2>2. PowerOf2[l - x] \in Nat \ {0} /\ PowerOf2[x] \in Nat /\ Sigma(g, x) \in Int
    BY <1>5, <2>1, PowerFacts
  <2>3. h[x] + c[x] \in Nat
    BY <1>1
  <2>4. QED BY <2>2, <2>3
<1>11. PowerOf2[l] = q * p
  <2>1. l - x \in Nat /\ x \in Nat /\ x + (l - x) = l
    OBVIOUS
  <2>2. QED BY <1>10, <2>1, PowerSum
<1>12. a * p <= q * p
  <2>1. x \in 0..l
    OBVIOUS
  <2>2. Sigma(g, x) <= Sigma(g, l) /\ Sigma(g, l) \in Int /\ Sigma(g, l) <= PowerOf2[l]
    BY <1>2, <1>5, <2>1
  <2>3. PICK z1 \in Int, z2 \in Int, z3 \in Int : z1 = a * p /\ z2 = q * p /\ z3 = Sigma(g, l)
    BY <2>2
  <2>4. z1 = s /\ s <= z3 /\ z3 <= z2
    BY <1>9, <1>10, <1>11, <2>2, <2>3
  <2>5. QED BY <2>3, <2>4
<1>13. a <= q
  BY <1>12
<1>14. QED BY <1>10, <1>13

-----------------------------------------------------------------------------
(***************************************************************************)
(* The codes that GenerateCode makes of lengths.                           *)
(***************************************************************************)
LEMMA GreatestElement ==
  ASSUME NEW l \in Nat, NEW T \in SUBSET (0..l), T # {}
  PROVE  Max(T) \in T /\ \A z \in T : z <= Max(T)
<1>1. PICK U : U = {y \in Nat : y <= l /\ l - y \in T}
  OBVIOUS
<1>2. ASSUME NEW z \in T PROVE l - z \in U /\ z \in 0..l
  <2>1. l - z \in Nat /\ l - (l - z) = z /\ l - z <= l
    OBVIOUS
  <2>2. QED BY <1>1, <2>1
<1>3. U \in SUBSET Nat /\ U # {}
  BY <1>1, <1>2
<1>4. PICK b \in U : \A y \in U : b <= y
  BY <1>3, LeastElement
<1>5. b \in Nat /\ b <= l /\ l - b \in T
  BY <1>1, <1>4
<1>6. ASSUME NEW z \in T PROVE l - b >= z
  <2>1. b <= l - z /\ z \in 0..l
    BY <1>2, <1>4
  <2>2. QED BY <1>5, <2>1
<1>7. \E x \in T : \A z \in T : x >= z
  BY <1>5, <1>6
<1>8. Max(T) \in T /\ \A z \in T : Max(T) >= z
  BY <1>7 DEF Max
<1>9. ASSUME NEW z \in T PROVE z <= Max(T)
  <2>1. z \in 0..l /\ Max(T) \in 0..l /\ Max(T) >= z
    BY <1>8
  <2>2. QED BY <2>1
<1>10. QED BY <1>8, <1>9

\* The place of a symbol among those of its length.
PlaceOf(e, s) == Cardinality({t \in OfLength(e, e[s]) : t < s})

LEMMA PlaceFacts ==
  ASSUME NEW S \in SUBSET Nat, IsFiniteSet(S), NEW e \in [S -> Nat], NEW s \in S
  PROVE  /\ Cardinality(OfLength(e, e[s])) \in Nat
         /\ PlaceOf(e, s) \in Nat /\ PlaceOf(e, s) < Cardinality(OfLength(e, e[s]))
         /\ \A t \in S : e[t] = e[s] /\ s < t => PlaceOf(e, t) \in Nat /\ PlaceOf(e, s) < PlaceOf(e, t)
<1>1. PICK U : U = OfLength(e, e[s])
  OBVIOUS
<1>2. U \in SUBSET S /\ IsFiniteSet(U) /\ s \in U
  <2>1. U \in SUBSET S /\ s \in U
    BY <1>1 DEF OfLength
  <2>2. QED BY <2>1, FS_Subset
<1>3. ASSUME NEW X \in SUBSET U, NEW Y \in SUBSET U, X \subseteq Y, NEW x \in Y, x \notin X
      PROVE  Cardinality(X) \in Nat /\ Cardinality(Y) \in Nat /\ Cardinality(X) < Cardinality(Y)
  <2>1. IsFiniteSet(X) /\ IsFiniteSet(Y)
    BY <1>2, FS_Subset
  <2>2. X # Y
    BY <1>3
  <2>3. Cardinality(X) \in Nat /\ Cardinality(Y) \in Nat
    BY <2>1, FS_CardinalityType
  <2>4. Cardinality(X) < Cardinality(Y)
    <3>1. X \in SUBSET Y
      BY <1>3
    <3>2. Cardinality(X) <= Cardinality(Y) /\ Cardinality(X) # Cardinality(Y)
      BY <2>1, <2>2, <3>1, FS_Subset
    <3>3. QED BY <2>3, <3>2
  <2>5. QED BY <2>3, <2>4
<1>4. PICK X : X = {t \in U : t < s}
  OBVIOUS
<1>5. X \in SUBSET U /\ s \notin X /\ X \subseteq U /\ PlaceOf(e, s) = Cardinality(X)
  BY <1>1, <1>2, <1>4 DEF PlaceOf
<1>6. PlaceOf(e, s) \in Nat /\ Cardinality(U) \in Nat /\ PlaceOf(e, s) < Cardinality(U)
  BY <1>2, <1>3, <1>5
<1>7. ASSUME NEW t \in S, e[t] = e[s], s < t
      PROVE  PlaceOf(e, t) \in Nat /\ PlaceOf(e, s) < PlaceOf(e, t)
  <2>1. PICK Y : Y = {x \in U : x < t}
    OBVIOUS
  <2>2. PlaceOf(e, t) = Cardinality(Y)
    BY <1>1, <1>7, <2>1 DEF PlaceOf
  <2>3. Y \in SUBSET U /\ s \in Y /\ X \subseteq Y
    <3>1. ASSUME NEW x \in X PROVE x \in Y
      <4>1. x \in Nat /\ s \in Nat /\ t \in Nat /\ x < s /\ x \in U
        BY <1>2, <1>4
      <4>2. QED BY <1>7, <2>1, <4>1
    <3>2. QED BY <1>2, <1>7, <2>1, <3>1
  <2>4. QED BY <1>3, <1>5, <2>2, <2>3
<1>8. QED BY <1>1, <1>6, <1>7

\* Codes made from the first code h of each length, which lies behind all that
\* begin with a shorter one and has room behind it.
FirstOfLengths(S, e, h) ==
  /\ \A s \in S : h[e[s]] \in Nat
  /\ \A s \in S : e[s] # 0 =>
       h[e[s]] + Cardinality(OfLength(e, e[s])) <= PowerOf2[e[s]]
  /\ \A s, t \in S : 0 < e[s] /\ e[s] < e[t] =>
       PowerOf2[e[t] - e[s]] * (h[e[s]] + Cardinality(OfLength(e, e[s]))) <= h[e[t]]

NumberedFrom(S, e, h, g) ==
  \A s \in S : g[s] = IF e[s] = 0 THEN <<>> ELSE BitsOf(h[e[s]] + PlaceOf(e, s), e[s])

LEMMA OrderedCodes ==
  ASSUME NEW S \in SUBSET Nat, IsFiniteSet(S), NEW e \in [S -> Nat], NEW h, NEW g,
         FirstOfLengths(S, e, h), NumberedFrom(S, e, h, g)
  PROVE  Canonical(e, g)
<1>1. /\ \A s \in S : h[e[s]] \in Nat
      /\ \A s \in S : e[s] # 0 =>
           h[e[s]] + Cardinality(OfLength(e, e[s])) <= PowerOf2[e[s]]
      /\ \A s, t \in S : 0 < e[s] /\ e[s] < e[t] =>
           PowerOf2[e[t] - e[s]] * (h[e[s]] + Cardinality(OfLength(e, e[s]))) <= h[e[t]]
  BY DEF FirstOfLengths
<1>2. \A s \in S : g[s] = IF e[s] = 0 THEN <<>> ELSE BitsOf(h[e[s]] + PlaceOf(e, s), e[s])
  BY DEF NumberedFrom
<1>3. ASSUME NEW s \in S PROVE Len(g[s]) = e[s]
  <2>1. CASE e[s] = 0
    BY <1>2, <2>1
  <2>2. CASE e[s] # 0
    <3>1. PICK a \in Nat : a = e[s]
      OBVIOUS
    <3>2. g[s] = BitsOf(h[a] + PlaceOf(e, s), a)
      BY <1>2, <2>2, <3>1
    <3>3. Len(BitsOf(h[a] + PlaceOf(e, s), a)) = a
      BY DEF BitsOf
    <3>4. QED BY <3>1, <3>2, <3>3
  <2>3. QED BY <2>1, <2>2
<1>4. ASSUME NEW s \in S, NEW t \in S, e[s] > 0, e[t] > 0,
             e[s] < e[t] \/ (e[s] = e[t] /\ s < t)
      PROVE  Below(g[s], g[t]) /\ ~IsPrefixOf(g[s], g[t]) /\ ~IsPrefixOf(g[t], g[s])
  <2>1. PICK a \in Nat, b \in Nat : a = e[s] /\ b = e[t] /\ a <= b /\ a # 0 /\ b # 0
    BY <1>4
  <2>2. PICK x1 \in Nat, x2 \in Nat, x3 \in Nat :
          /\ x1 = h[a] /\ x2 = PlaceOf(e, s) /\ x3 = Cardinality(OfLength(e, a)) /\ x2 < x3
          /\ \A u \in S : e[u] = e[s] /\ s < u => PlaceOf(e, u) \in Nat /\ x2 < PlaceOf(e, u)
    BY <1>1, <2>1, PlaceFacts
  <2>3. PICK y1 \in Nat, y2 \in Nat, y3 \in Nat :
          y1 = h[b] /\ y2 = PlaceOf(e, t) /\ y3 = Cardinality(OfLength(e, b)) /\ y2 < y3
    BY <1>1, <2>1, PlaceFacts
  <2>4. PICK p \in Nat, q \in Nat, r \in Nat :
          p = PowerOf2[a] /\ q = PowerOf2[b] /\ r = PowerOf2[b - a]
    <3>1. b - a \in Nat
      BY <2>1
    <3>2. QED BY <3>1, PowerFacts
  <2>5. x1 + x3 <= p /\ y1 + y3 <= q
    BY <1>1, <2>1, <2>2, <2>3, <2>4
  <2>6. PICK x \in Nat, y \in Nat : x = x1 + x2 /\ y = y1 + y2
    OBVIOUS
  <2>7. x < p /\ y < q
    BY <2>2, <2>3, <2>5, <2>6
  <2>8. r * (x + 1) <= y
    <3>1. CASE a < b
      <4>1. r * (x1 + x3) <= y1
        <5>1. 0 < e[s] /\ e[s] < e[t]
          BY <2>1, <3>1
        <5>2. PowerOf2[e[t] - e[s]] * (h[e[s]] + Cardinality(OfLength(e, e[s]))) <= h[e[t]]
          BY <1>1, <5>1
        <5>3. QED BY <2>1, <2>2, <2>3, <2>4, <5>2
      <4>2. r * (x + 1) <= r * (x1 + x3)
        <5>1. x + 1 <= x1 + x3
          BY <2>2, <2>6
        <5>2. PICK d \in Nat : x1 + x3 = (x + 1) + d
          <6>1. (x1 + x3) - (x + 1) \in Nat /\ x1 + x3 = (x + 1) + ((x1 + x3) - (x + 1))
            BY <5>1
          <6>2. QED BY <6>1
        <5>3. r * ((x + 1) + d) = r * (x + 1) + r * d /\ r * d >= 0
          OBVIOUS
        <5>4. QED BY <5>2, <5>3
      <4>3. PICK z1 \in Int, z2 \in Int : z1 = r * (x + 1) /\ z2 = r * (x1 + x3)
        OBVIOUS
      <4>4. QED BY <2>6, <4>1, <4>2, <4>3
    <3>2. CASE a = b
      <4>1. b - a = 0 /\ r = 1
        BY <2>4, <3>2, PowerFacts
      <4>2. x1 = y1 /\ x2 < y2
        BY <1>4, <2>1, <2>2, <2>3, <3>2
      <4>3. x + 1 <= y
        BY <2>6, <4>2
      <4>4. QED BY <4>1, <4>3
    <3>3. QED BY <2>1, <3>1, <3>2
  <2>9. g[s] = BitsOf(x, a) /\ g[t] = BitsOf(y, b)
    BY <1>1, <1>2, <2>1, <2>2, <2>3, <2>6
  <2>10. Below(BitsOf(x, a), BitsOf(y, b)) /\ ~IsPrefixOf(BitsOf(x, a), BitsOf(y, b))
         /\ ~IsPrefixOf(BitsOf(y, b), BitsOf(x, a))
    BY <2>1, <2>4, <2>7, <2>8, LaterCode
  <2>11. QED BY <2>9, <2>10
<1>5. ASSUME NEW s \in Coded(e), NEW t \in Coded(e), s # t
      PROVE  /\ ~IsPrefixOf(g[s], g[t])
             /\ e[s] < e[t] \/ (e[s] = e[t] /\ s < t) => Below(g[s], g[t])
  <2>1. s \in S /\ t \in S /\ e[s] > 0 /\ e[t] > 0 /\ s \in Nat /\ t \in Nat
        /\ e[s] \in Nat /\ e[t] \in Nat
    BY DEF Coded
  <2>2. \/ e[s] < e[t] \/ (e[s] = e[t] /\ s < t)
        \/ e[t] < e[s] \/ (e[t] = e[s] /\ t < s)
    BY <1>5, <2>1
  <2>3. QED BY <1>4, <2>1, <2>2
<1>6. DOMAIN e = S
  OBVIOUS
<1>7. QED BY <1>3, <1>5, <1>6 DEF Canonical

\* How many codes there are of each length.
CountsOf(e) == [k \in 0..MaxDepth |-> IF k = 0 THEN 0 ELSE Cardinality(OfLength(e, k))]

LEMMA GeneratedCodes ==
  ASSUME NEW S \in SUBSET Nat, IsFiniteSet(S), NEW e \in [S -> Nat], NEW l \in 0..MaxDepth,
         \A s \in S : e[s] <= l, Sigma(Weighted(CountsOf(e), l), l) <= PowerOf2[l]
  PROVE  \E h : FirstOfLengths(S, e, h) /\ NumberedFrom(S, e, h, GenerateCode(e))
<1>1. PICK c : c = CountsOf(e)
  OBVIOUS
<1>2. l \in Nat /\ \A k \in 0..l : k \in 0..MaxDepth
  BY WidthsOK
<1>3. \A k \in 0..l : c[k] \in Nat
  <2>1. ASSUME NEW k \in 0..l PROVE Cardinality(OfLength(e, k)) \in Nat
    <3>1. OfLength(e, k) \in SUBSET S
      BY DEF OfLength
    <3>2. QED BY <3>1, FS_Subset, FS_CardinalityType
  <2>2. QED BY <1>1, <1>2, <2>1 DEF CountsOf
<1>4. [Counts(e) EXCEPT ![0] = 0] = c
  BY <1>1 DEF Counts, CountsOf
<1>5. PICK m : m = Longest(e)
  OBVIOUS
<1>6. m \in 0..l /\ \A s \in S : e[s] \in 0..m
  <2>1. PICK T : T = {e[s] : s \in S} \cup {0}
    OBVIOUS
  <2>2. T \in SUBSET (0..l) /\ T # {}
    BY <1>2, <2>1
  <2>3. m = Max(T)
    BY <1>5, <2>1 DEF Longest
  <2>4. m \in T /\ \A z \in T : z <= m
    BY <1>2, <2>2, <2>3, GreatestElement
  <2>5. ASSUME NEW s \in S PROVE e[s] \in 0..m
    <3>1. e[s] \in T /\ e[s] \in Nat
      BY <2>1
    <3>2. e[s] <= m /\ m \in 0..l
      BY <2>2, <2>4, <3>1
    <3>3. QED BY <3>1, <3>2
  <2>6. QED BY <2>2, <2>4, <2>5
<1>7. PICK h : h = NextCodes(c, m)
  OBVIOUS
<1>8. m \in Nat /\ \A k \in 0..m : c[k] \in Nat
  BY <1>2, <1>3, <1>6
<1>9. FirstCodes(c, m, h)
  BY <1>7, <1>8, NextCodesFacts
<1>10. \A s \in S : GenerateCode(e)[s] = IF e[s] = 0 THEN <<>>
                                        ELSE BitsOf(h[e[s]] + PlaceOf(e, s), e[s])
  BY <1>4, <1>5, <1>7 DEF GenerateCode, Numbered, PlaceOf
<1>11. \A s \in S : h[e[s]] \in Nat
  BY <1>6, <1>9 DEF FirstCodes
<1>12. \A s \in S : e[s] # 0 => c[e[s]] = Cardinality(OfLength(e, e[s]))
  BY <1>1, <1>2, <1>6 DEF CountsOf
<1>13. ASSUME NEW s \in S, e[s] # 0
       PROVE  h[e[s]] + Cardinality(OfLength(e, e[s])) <= PowerOf2[e[s]]
  <2>1. c[0] = 0
    <3>1. 0 \in 0..MaxDepth
      BY <1>2
    <3>2. QED BY <1>1, <3>1 DEF CountsOf
  <2>2. h[e[s]] + c[e[s]] <= PowerOf2[e[s]]
    BY <1>1, <1>2, <1>3, <1>6, <1>9, <2>1, EnoughCodes
  <2>3. QED BY <1>12, <1>13, <2>2
<1>14. ASSUME NEW s \in S, NEW t \in S, 0 < e[s], e[s] < e[t]
       PROVE  PowerOf2[e[t] - e[s]] * (h[e[s]] + Cardinality(OfLength(e, e[s]))) <= h[e[t]]
  <2>1. e[s] \in 0..m /\ e[t] \in (e[s] + 1)..m
    BY <1>6, <1>14
  <2>2. PowerOf2[e[t] - e[s]] * (h[e[s]] + c[e[s]]) <= h[e[t]]
    BY <1>8, <1>9, <2>1, LaterFirst
  <2>3. c[e[s]] = Cardinality(OfLength(e, e[s]))
    BY <1>12, <1>14
  <2>4. QED BY <2>2, <2>3
<1>15. QED BY <1>10, <1>11, <1>13, <1>14 DEF FirstOfLengths, NumberedFrom

LEMMA CanonicalCodes ==
  ASSUME NEW S \in SUBSET Nat, IsFiniteSet(S), NEW e \in [S -> Nat], NEW l \in 0..MaxDepth,
         \A s \in S : e[s] <= l, Sigma(Weighted(CountsOf(e), l), l) <= PowerOf2[l]
  PROVE  Canonical(e, GenerateCode(e))
<1>1. PICK h : FirstOfLengths(S, e, h) /\ NumberedFrom(S, e, h, GenerateCode(e))
  BY GeneratedCodes
<1>2. QED BY <1>1, OrderedCodes

-----------------------------------------------------------------------------
(***************************************************************************)
(* Sums over a set, in the order of its own that MapThenSumSet chooses.    *)
(***************************************************************************)
\* y[s] is the sum of the numbers g of s, whichever is taken first.
Additive(D, g, y) ==
  /\ y \in [SUBSET D -> Int] /\ y[{}] = 0
  /\ \A s \in SUBSET D : \A x \in s : y[s] = g[x] + y[s \ {x}]

SumsOver(D, g, f) ==
  f = [s \in SUBSET D |-> IF s = {} THEN 0 ELSE g[OneOf(s)] + f[s \ {OneOf(s)}]]

LEMMA AdditiveSum ==
  ASSUME NEW D, IsFiniteSet(D), NEW g, NEW y, Additive(D, g, y)
  PROVE  LET f == CHOOSE x : SumsOver(D, g, x) IN SumsOver(D, g, f) /\ f[D] = y[D]
<1>1. SumsOver(D, g, y)
  <2>1. ASSUME NEW s \in SUBSET D
        PROVE  y[s] = IF s = {} THEN 0 ELSE g[OneOf(s)] + y[s \ {OneOf(s)}]
    <3>1. CASE s = {}
      BY <3>1 DEF Additive
    <3>2. CASE s # {}
      <4>1. OneOf(s) \in s
        BY <3>2 DEF OneOf
      <4>2. QED BY <3>2, <4>1 DEF Additive
    <3>3. QED BY <3>1, <3>2
  <2>2. y = [s \in SUBSET D |-> y[s]]
    BY DEF Additive
  <2>3. QED BY <2>1, <2>2 DEF SumsOver
<1>2. PICK f : f = CHOOSE x : SumsOver(D, g, x)
  OBVIOUS
<1>3. SumsOver(D, g, f)
  BY <1>1, <1>2
<1> DEFINE Bad(s) == f[s] # y[s]
           T == {k \in Nat : \E s \in SUBSET D : Bad(s) /\ Cardinality(s) = k}
<1>4. f[D] = y[D]
  <2>1. SUFFICES ASSUME NEW z \in SUBSET D, Bad(z) PROVE FALSE
    OBVIOUS
  <2>2. \A s \in SUBSET D : IsFiniteSet(s) /\ Cardinality(s) \in Nat
    BY FS_Subset, FS_CardinalityType
  <2>3. T # {} /\ T \in SUBSET Nat
    BY <2>1, <2>2
  <2>4. PICK k \in T : \A c \in T : k <= c
    BY <2>3, LeastElement
  <2>5. PICK s \in SUBSET D : Bad(s) /\ Cardinality(s) = k
    BY <2>4
  <2>6. \A z2 \in SUBSET D :
          f[z2] = IF z2 = {} THEN 0 ELSE g[OneOf(z2)] + f[z2 \ {OneOf(z2)}]
    BY <1>3 DEF SumsOver
  <2>7. s # {}
    BY <2>5, <2>6 DEF Additive
  <2>8. PICK x \in s : x = OneOf(s)
    BY <2>7 DEF OneOf
  <2>9. s \ {x} \in SUBSET D
    OBVIOUS
  <2>10. Cardinality(s \ {x}) = k - 1 /\ Cardinality(s \ {x}) \in Nat /\ k \in Nat
    BY <2>2, <2>3, <2>4, <2>5, <2>8, <2>9, FS_RemoveElement
  <2>11. Cardinality(s \ {x}) \notin T
    <3> HIDE DEF T
    <3>1. ASSUME Cardinality(s \ {x}) \in T PROVE FALSE
      <4>1. k <= Cardinality(s \ {x})
        BY <2>4, <3>1
      <4>2. QED BY <2>10, <4>1
    <3>2. QED BY <3>1
  <2>12. f[s \ {x}] = y[s \ {x}]
    BY <2>9, <2>10, <2>11
  <2>13. f[s] = g[x] + f[s \ {x}]
    BY <2>6, <2>7, <2>8
  <2>14. y[s] = g[x] + y[s \ {x}]
    BY DEF Additive
  <2>15. QED BY <2>5, <2>12, <2>13, <2>14
<1>5. QED BY <1>2, <1>3, <1>4

\* A common factor.
LEMMA SigmaScale ==
  ASSUME NEW m \in Nat, NEW f, NEW g, NEW d \in Int, Integral(g, m),
         \A k \in 1..m : f[k] = d * g[k]
  PROVE  Sigma(f, m) = d * Sigma(g, m)
<1>1. \A a, b \in Int : a * b \in Int
  OBVIOUS
<1>2. Integral(f, m)
  <2>1. ASSUME NEW k \in 1..m PROVE f[k] \in Int
    <3>1. g[k] \in Int /\ f[k] = d * g[k]
      BY DEF Integral
    <3>2. QED BY <1>1, <3>1, Zenon
  <2>2. QED BY <2>1 DEF Integral
<1>3. \A k \in 0..m : Integral(f, k) /\ Integral(g, k) /\ Sigma(g, k) \in Int
  <2>1. ASSUME NEW k \in 0..m
        PROVE  Integral(f, k) /\ Integral(g, k) /\ Sigma(g, k) \in Int
    <3>1. Integral(f, k) /\ Integral(g, k)
      BY <1>2 DEF Integral
    <3>2. QED BY <3>1, SigmaInt
  <2>2. QED BY <2>1
<1> DEFINE T == {k \in Nat : k <= m => Sigma(f, k) = d * Sigma(g, k)}
<1>4. 0 \in T
  BY SigmaNone
<1>5. ASSUME NEW k \in T PROVE k + 1 \in T
  <2>1. SUFFICES ASSUME k + 1 <= m PROVE Sigma(f, k + 1) = d * Sigma(g, k + 1)
    BY <1>5
  <2>2. k \in Nat /\ Sigma(f, k) = d * Sigma(g, k)
    BY <1>5, <2>1
  <2>3. k \in 0..m /\ k + 1 \in 0..m /\ k + 1 \in 1..m
    BY <2>1, <2>2
  <2>4. PICK a \in Int, b \in Int : a = Sigma(g, k) /\ b = g[k + 1]
    BY <1>3, <2>3 DEF Integral
  <2>5. Sigma(g, k + 1) = a + b
    BY <1>3, <2>2, <2>3, <2>4, SigmaNext
  <2>6. Sigma(f, k + 1) = Sigma(f, k) + f[k + 1] /\ f[k + 1] = d * b
    BY <1>3, <2>2, <2>3, <2>4, SigmaNext
  <2>7. Sigma(f, k) = d * a
    BY <2>2, <2>4
  <2>8. d * (a + b) = d * a + d * b
    OBVIOUS
  <2>9. QED BY <2>5, <2>6, <2>7, <2>8
<1>6. T = Nat
  <2> HIDE DEF T
  <2>1. T \in SUBSET Nat
    BY DEF T
  <2>2. QED BY <1>4, <1>5, <2>1, InductiveSet
<1>7. QED BY <1>6

-----------------------------------------------------------------------------
(***************************************************************************)
(* Lengths e of the symbols in S: that at position k of an array q of m    *)
(* symbols has f[k], in 1..l, all others have none.                        *)
(***************************************************************************)
Given(e, S, q, f, m, l) ==
  /\ e \in [S -> Nat] /\ q \in [0..(m - 1) -> S] /\ f \in [0..(m - 1) -> 1..l]
  /\ \A a, b \in 0..(m - 1) : a # b => q[a] # q[b]
  /\ \A k \in 0..(m - 1) : e[q[k]] = f[k]
  /\ \A s \in S : e[s] # 0 => \E k \in 0..(m - 1) : q[k] = s

LEMMA GivenCounts ==
  ASSUME NEW m \in Nat, NEW l, NEW e, NEW S, NEW q, NEW f, Given(e, S, q, f, m, l),
         NEW z \in Nat \ {0}
  PROVE  Cardinality(OfLength(e, z)) = Times(f, m, z)
<1>1. PICK U, V : U = {k \in 0..(m - 1) : f[k] = z} /\ V = OfLength(e, z)
  OBVIOUS
<1>2. IsFiniteSet(U)
  <2>1. U \in SUBSET (0..(m - 1))
    BY <1>1
  <2>2. IsFiniteSet(0..(m - 1))
    BY FS_Interval
  <2>3. QED BY <2>1, <2>2, FS_Subset
<1>3. PICK g : g = [k \in U |-> q[k]]
  OBVIOUS
<1>4. g \in [U -> V]
  <2>1. ASSUME NEW k \in U PROVE q[k] \in V
    <3>1. k \in 0..(m - 1) /\ f[k] = z
      BY <1>1
    <3>2. q[k] \in S /\ e[q[k]] = z /\ DOMAIN e = S
      BY <3>1 DEF Given
    <3>3. QED BY <1>1, <3>2 DEF OfLength
  <2>2. QED BY <1>3, <2>1
<1>5. \A a, b \in U : a # b => g[a] # g[b]
  BY <1>1, <1>3 DEF Given
<1>6. \A s \in V : \E k \in U : g[k] = s
  <2>1. ASSUME NEW s \in V PROVE \E k \in U : g[k] = s
    <3>1. s \in S /\ e[s] = z
      BY <1>1 DEF OfLength, Given
    <3>2. PICK k \in 0..(m - 1) : q[k] = s
      BY <3>1 DEF Given
    <3>3. f[k] = z
      BY <3>1, <3>2 DEF Given
    <3>4. k \in U
      BY <1>1, <3>3
    <3>5. QED BY <1>3, <3>2, <3>4
  <2>2. QED BY <2>1
<1>7. ExistsBijection(U, V)
  BY <1>4, <1>5, <1>6 DEF ExistsBijection, Bijection, Injection, Surjection, IsInjective
<1>8. Cardinality(V) = Cardinality(U)
  BY <1>2, <1>7, FS_Bijection
<1>9. QED BY <1>1, <1>8 DEF Times

\* What the codes take, summed over the lengths and over the positions.
CountsTimes(c, f, l, m) == \A z \in 1..l : c[z] = Times(f, m, z)

LEMMA TimesWeights ==
  ASSUME NEW m \in Nat, NEW l \in Nat, NEW f \in [0..(m - 1) -> 1..l], NEW c,
         CountsTimes(c, f, l, m)
  PROVE  Sigma(Weighted(c, l), l) = Sigma(Weights(f, l, m), m)
<1>1. PICK y : y = [z \in 1..l |-> PowerOf2[l - z]]
  OBVIOUS
<1>2. y \in [1..l -> Int]
  <2>1. ASSUME NEW z \in 1..l PROVE PowerOf2[l - z] \in Int
    <3>1. z \in 0..l
      OBVIOUS
    <3>2. QED BY <3>1, PowerTypes
  <2>2. QED BY <1>1, <2>1
<1>3. PICK a, b : /\ a = [z \in 1..l |-> Times(f, m, z) * y[z]]
                  /\ b = [k \in 1..m |-> y[f[k - 1]]]
  OBVIOUS
<1>4. Integral(a, l) /\ Sigma(a, l) = Sigma(b, m)
  BY <1>2, <1>3, Exchange
<1>5. \A z \in 1..l : Weighted(c, l)[z] = a[z]
  BY <1>1, <1>3 DEF Weighted, CountsTimes
<1>6. Sigma(Weighted(c, l), l) = Sigma(a, l)
  BY <1>4, <1>5, SigmaSame
<1>7. ASSUME NEW k \in 1..m PROVE b[k] = Weights(f, l, m)[k] /\ Weights(f, l, m)[k] \in Int
  <2>1. k - 1 \in 0..(m - 1)
    OBVIOUS
  <2>2. PICK t \in 1..l : t = f[k - 1]
    BY <2>1
  <2>3. b[k] = PowerOf2[l - t] /\ PowerOf2[l - t] \in Int
    BY <1>1, <1>2, <1>3, <2>2
  <2>4. t <= l
    OBVIOUS
  <2>5. QED BY <2>2, <2>3, <2>4 DEF Weights, Weight
<1>8. Sigma(b, m) = Sigma(Weights(f, l, m), m)
  <2>1. Integral(Weights(f, l, m), m)
    BY <1>7 DEF Integral
  <2>2. QED BY <1>7, <2>1, SigmaSame
<1>9. QED BY <1>4, <1>6, <1>8

LEMMA GivenWeights ==
  ASSUME NEW m \in Nat, NEW l \in 0..MaxDepth, NEW e, NEW S, NEW q, NEW f,
         Given(e, S, q, f, m, l)
  PROVE  Sigma(Weighted(CountsOf(e), l), l) = Sigma(Weights(f, l, m), m)
<1>1. l \in Nat /\ f \in [0..(m - 1) -> 1..l]
  BY DEF Given
<1>2. ASSUME NEW z \in 1..l PROVE CountsOf(e)[z] = Times(f, m, z)
  <2>1. z \in Nat \ {0} /\ z \in 0..MaxDepth /\ z # 0
    BY WidthsOK
  <2>2. QED BY <2>1, GivenCounts DEF CountsOf
<1>3. CountsTimes(CountsOf(e), f, l, m)
  BY <1>2 DEF CountsTimes
<1>4. QED BY <1>1, <1>3, TimesWeights

\* What Kraft adds up.
KraftSums(e, f) ==
  f = [s \in SUBSET Coded(e) |->
         IF s = {} THEN 0 ELSE PowerOf2[MaxDepth - e[OneOf(s)]] + f[s \ {OneOf(s)}]]

\* The terms of the symbols in s, at their positions.
Terms(q, f, m, s) == [k \in 1..m |-> IF q[k - 1] \in s THEN PowerOf2[MaxDepth - f[k - 1]] ELSE 0]

LEMMA TermFacts ==
  ASSUME NEW m \in Nat, NEW l \in 0..MaxDepth, NEW q, NEW f \in [0..(m - 1) -> 1..l], NEW s
  PROVE  Integral(Terms(q, f, m, s), m) /\ Sigma(Terms(q, f, m, s), m) \in Int
<1>1. ASSUME NEW k \in 1..m PROVE Terms(q, f, m, s)[k] \in Int
  <2>1. k - 1 \in 0..(m - 1)
    OBVIOUS
  <2>2. f[k - 1] \in 0..MaxDepth
    BY <2>1, WidthsOK
  <2>3. PowerOf2[MaxDepth - f[k - 1]] \in Int
    BY <2>2, PowerTypes, WidthsOK
  <2>4. QED BY <2>3 DEF Terms
<1>2. Integral(Terms(q, f, m, s), m)
  BY <1>1 DEF Integral
<1>3. QED BY <1>2, SigmaInt

LEMMA OneTerm ==
  ASSUME NEW m \in Nat, NEW l \in 0..MaxDepth, NEW e, NEW S, NEW q, NEW f,
         Given(e, S, q, f, m, l),
         NEW s \in SUBSET Coded(e), NEW x \in s
  PROVE  Sigma(Terms(q, f, m, s), m)
           = PowerOf2[MaxDepth - e[x]] + Sigma(Terms(q, f, m, s \ {x}), m)
<1>1. x \in S /\ e[x] > 0 /\ e[x] \in Nat
  BY DEF Coded, Given
<1>2. PICK c \in 0..(m - 1) : q[c] = x /\ f[c] = e[x]
  <2>1. e[x] # 0
    BY <1>1
  <2>2. QED BY <1>1, <2>1 DEF Given
<1>3. PICK a, b : a = Terms(q, f, m, s) /\ b = Terms(q, f, m, s \ {x})
  OBVIOUS
<1>4. Integral(a, m) /\ Integral(b, m) /\ Sigma(a, m) \in Int /\ Sigma(b, m) \in Int
  <2>1. f \in [0..(m - 1) -> 1..l]
    BY DEF Given
  <2>2. QED BY <1>3, <2>1, TermFacts
<1>5. c + 1 \in 1..m /\ (c + 1) - 1 = c
  OBVIOUS
<1>6. a[c + 1] = PowerOf2[MaxDepth - e[x]] /\ b[c + 1] = 0
  BY <1>2, <1>3, <1>5 DEF Terms
<1>7. ASSUME NEW k \in 1..m, k # c + 1 PROVE a[k] = b[k]
  <2>1. k - 1 \in 0..(m - 1) /\ k - 1 # c
    BY <1>7
  <2>2. q[k - 1] # x
    BY <1>2, <2>1 DEF Given
  <2>3. QED BY <1>3, <2>2 DEF Terms
<1>8. Sigma(a, m) = Sigma(b, m) + (a[c + 1] - b[c + 1])
  <2>1. PICK o \in 1..m : o = c + 1
    BY <1>5
  <2>2. \A k \in 1..m : k # o => a[k] = b[k]
    BY <1>7, <2>1
  <2>3. Sigma(a, m) = Sigma(b, m) + (a[o] - b[o])
    <3>1. \A x1, x2 : /\ Integral(x1, m) /\ Integral(x2, m)
                      /\ \A k \in 1..m : k # o => x1[k] = x2[k]
                      => Sigma(x1, m) = Sigma(x2, m) + (x1[o] - x2[o])
      BY SigmaChange
    <3>2. Integral(a, m) /\ Integral(b, m)
      BY <1>4
    <3>3. QED BY <2>2, <3>1, <3>2, Zenon
  <2>4. QED BY <2>1, <2>3
<1>9. PICK p \in Int : p = PowerOf2[MaxDepth - e[x]]
  BY <1>4, <1>5, <1>6 DEF Integral
<1>10. QED BY <1>3, <1>4, <1>6, <1>8, <1>9

LEMMA GivenKraft ==
  ASSUME NEW m \in Nat, NEW l \in 0..MaxDepth, NEW e, NEW S, IsFiniteSet(S), NEW q, NEW f,
         Given(e, S, q, f, m, l)
  PROVE  Kraft(e) = PowerOf2[MaxDepth - l] * Sigma(Weights(f, l, m), m)
<1>1. PICK D : D = Coded(e)
  OBVIOUS
<1>2. IsFiniteSet(D)
  <2>1. D \in SUBSET S
    BY <1>1 DEF Coded, Given
  <2>2. QED BY <2>1, FS_Subset
<1>3. PICK g : g = [s \in D |-> PowerOf2[MaxDepth - e[s]]]
  OBVIOUS
<1>4. PICK y : y = [s \in SUBSET D |-> Sigma(Terms(q, f, m, s), m)]
  OBVIOUS
<1>5. Additive(D, g, y)
  <2>1. y \in [SUBSET D -> Int]
    <3>1. f \in [0..(m - 1) -> 1..l]
      BY DEF Given
    <3>2. QED BY <1>4, <3>1, TermFacts
  <2>2. y[{}] = 0
    <3>1. \A k \in 1..m : Terms(q, f, m, {})[k] = 0
      BY DEF Terms
    <3>2. QED BY <1>4, <3>1, SigmaZero
  <2>3. ASSUME NEW s \in SUBSET D, NEW x \in s PROVE y[s] = g[x] + y[s \ {x}]
    <3>1. s \ {x} \in SUBSET D /\ x \in D
      OBVIOUS
    <3>2. Sigma(Terms(q, f, m, s), m)
            = PowerOf2[MaxDepth - e[x]] + Sigma(Terms(q, f, m, s \ {x}), m)
      <4>1. s \in SUBSET Coded(e)
        BY <1>1
      <4>2. QED BY <4>1, OneTerm
    <3>3. QED BY <1>3, <1>4, <3>1, <3>2
  <2>4. QED BY <2>1, <2>2, <2>3 DEF Additive
<1>6. \A h : KraftSums(e, h) <=> SumsOver(D, g, h)
  <2>1. \A s \in SUBSET D : s # {} => g[OneOf(s)] = PowerOf2[MaxDepth - e[OneOf(s)]]
    <3>1. ASSUME NEW s \in SUBSET D, s # {}
          PROVE  g[OneOf(s)] = PowerOf2[MaxDepth - e[OneOf(s)]]
      <4>1. OneOf(s) \in D
        BY <3>1 DEF OneOf
      <4>2. QED BY <1>3, <4>1
    <3>2. QED BY <3>1
  <2>2. QED BY <1>1, <2>1 DEF KraftSums, SumsOver
<1>7. PICK h : h = CHOOSE x : KraftSums(e, x)
  OBVIOUS
<1>8. h = CHOOSE x : SumsOver(D, g, x)
  BY <1>6, <1>7
<1>9. h[D] = y[D]
  BY <1>2, <1>5, <1>8, AdditiveSum
<1>10. Kraft(e) = h[D]
  BY <1>1, <1>7 DEF Kraft, KraftSums, OneOf, MapThenSumSet, MapThenFoldSet
<1>11. PICK d \in Int : d = PowerOf2[MaxDepth - l]
  BY PowerTypes, WidthsOK
<1>12. ASSUME NEW k \in 1..m
       PROVE  /\ Terms(q, f, m, D)[k] = d * Weights(f, l, m)[k]
              /\ Weights(f, l, m)[k] \in Int
  <2>1. k - 1 \in 0..(m - 1)
    OBVIOUS
  <2>2. PICK t \in 1..l : t = f[k - 1]
    BY <2>1 DEF Given
  <2>3. q[k - 1] \in D
    <3>1. q[k - 1] \in S /\ e[q[k - 1]] = t /\ DOMAIN e = S
      BY <2>1, <2>2 DEF Given
    <3>2. t > 0
      OBVIOUS
    <3>3. QED BY <1>1, <3>1, <3>2 DEF Coded
  <2>4. Terms(q, f, m, D)[k] = PowerOf2[MaxDepth - t]
    BY <2>2, <2>3 DEF Terms
  <2>5. t <= l
    OBVIOUS
  <2>6. Weights(f, l, m)[k] = PowerOf2[l - t]
    BY <2>2, <2>5 DEF Weights, Weight
  <2>7. MaxDepth - l \in Nat /\ l - t \in Nat /\ (MaxDepth - l) + (l - t) = MaxDepth - t
    BY WidthsOK
  <2>8. PowerOf2[MaxDepth - t] = PowerOf2[MaxDepth - l] * PowerOf2[l - t] /\ PowerOf2[l - t] \in Int
    <3>1. PowerOf2[(MaxDepth - l) + (l - t)] = PowerOf2[MaxDepth - l] * PowerOf2[l - t]
      BY <2>7, PowerSum
    <3>2. PowerOf2[l - t] \in Nat
      BY <2>7, PowerFacts
    <3>3. QED BY <2>7, <3>1, <3>2
  <2>9. QED BY <1>11, <2>4, <2>6, <2>8
<1>13. Sigma(Terms(q, f, m, D), m) = d * Sigma(Weights(f, l, m), m)
  <2>1. Integral(Weights(f, l, m), m)
    BY <1>12 DEF Integral
  <2>2. QED BY <1>12, <2>1, SigmaScale
<1>14. QED BY <1>4, <1>9, <1>10, <1>11, <1>13

\* What AssignLimited gives the symbols when c[z] are to have z bits.
Assigned(c, l, m) == [k \in 0..(m - 1) |-> Min({z \in 1..l : k < Sigma(c, z)})]

\* Lengths of 1..l bits, the shorter ones first.
Ascending(f, m, l) ==
  /\ f \in [0..(m - 1) -> 1..l]
  /\ \A a, b \in 0..(m - 1) : a <= b => f[a] <= f[b]

LEMMA AssignedLengths ==
  ASSUME NEW l \in Nat \ {0}, NEW c \in [1..l -> Nat], NEW m \in Nat, m = Sigma(c, l)
  PROVE  Ascending(Assigned(c, l, m), m, l) /\ CountsTimes(c, Assigned(c, l, m), l, m)
<1>0. PICK f : f = [k \in 0..(m - 1) |-> Min({z \in 1..l : k < Sigma(c, z)})]
  OBVIOUS
<1>1. ASSUME NEW z \in 0..l PROVE Integral(c, z) /\ Sigma(c, z) \in Int /\ Sigma(c, z) <= m
  BY SigmaGrows
<1>2. ASSUME NEW k \in 0..(m - 1)
      PROVE  /\ f[k] \in 1..l /\ k < Sigma(c, f[k])
             /\ \A z \in 1..l : k < Sigma(c, z) => f[k] <= z
  <2>1. PICK T : T = {z \in 1..l : k < Sigma(c, z)}
    OBVIOUS
  <2>2. T \in SUBSET Nat /\ T # {}
    <3>1. l \in T
      BY <2>1
    <3>2. QED BY <2>1, <3>1
  <2>3. Min(T) \in T /\ \A z \in T : Min(T) <= z
    BY <2>2, LeastElement DEF Min
  <2>4. f[k] = Min(T)
    BY <1>0, <2>1
  <2>5. QED BY <2>1, <2>3, <2>4
<1>3. f \in [0..(m - 1) -> 1..l]
  <2>1. f = [k \in 0..(m - 1) |-> f[k]]
    BY <1>0
  <2>2. QED BY <1>2, <2>1
<1>4. ASSUME NEW a \in 0..(m - 1), NEW b \in 0..(m - 1), a <= b PROVE f[a] <= f[b]
  <2>1. PICK s \in Int : s = Sigma(c, f[b]) /\ b < s /\ f[b] \in 1..l
    <3>1. f[b] \in 1..l /\ f[b] \in 0..l
      BY <1>2
    <3>2. QED BY <1>1, <1>2, <3>1
  <2>2. a < s
    BY <1>4, <2>1
  <2>3. QED BY <1>2, <2>1, <2>2
<1>5. ASSUME NEW z \in 1..l PROVE c[z] = Times(f, m, z)
  <2>1. z - 1 \in 0..l /\ z \in 0..l /\ z - 1 \in Nat /\ (z - 1) + 1 = z
    OBVIOUS
  <2>2. PICK s \in Int, t \in Int, d \in Nat :
          s = Sigma(c, z - 1) /\ t = Sigma(c, z) /\ d = c[z] /\ t <= m
    BY <1>1, <2>1
  <2>3. t = s + d
    <3>1. Integral(c, (z - 1) + 1)
      BY <1>1, <2>1
    <3>2. Sigma(c, (z - 1) + 1) = Sigma(c, z - 1) + c[(z - 1) + 1]
      BY <2>1, <3>1, SigmaNext
    <3>3. QED BY <2>1, <2>2, <3>2
  <2>4. s >= 0
    <3>1. 0 \in 0..(z - 1) /\ \A k \in 1..(z - 1) : c[k] \in Nat
      BY <2>1
    <3>2. Sigma(c, 0) <= Sigma(c, z - 1)
      BY <2>1, <3>1, SigmaGrows
    <3>3. QED BY <2>2, <3>2, SigmaNone
  <2>5. ASSUME NEW k \in 0..(m - 1) PROVE f[k] = z <=> k \in s..(t - 1)
    <3>1. PICK g \in 1..l : g = f[k] /\ k < Sigma(c, g)
                            /\ \A y \in 1..l : k < Sigma(c, y) => g <= y
      BY <1>2
    <3>2. ASSUME g = z PROVE k \in s..(t - 1)
      <4>1. k < t
        BY <2>2, <3>1, <3>2
      <4>2. k >= s
        <5>1. CASE z = 1
          <6>1. s = 0
            BY <2>2, <5>1, SigmaNone
          <6>2. QED BY <6>1
        <5>2. CASE z # 1
          <6>1. z - 1 \in 1..l /\ ~(g <= z - 1)
            BY <3>2, <5>2
          <6>2. ~(k < s)
            BY <2>2, <3>1, <6>1
          <6>3. QED BY <6>2
        <5>3. QED BY <5>1, <5>2
      <4>3. QED BY <4>1, <4>2
    <3>3. ASSUME k \in s..(t - 1) PROVE g = z
      <4>1. k < t /\ k >= s
        BY <3>3
      <4>2. g <= z
        BY <2>2, <3>1, <4>1
      <4>3. ~(g <= z - 1)
        <5>1. SUFFICES ASSUME g <= z - 1 PROVE FALSE
          OBVIOUS
        <5>2. g \in 0..(z - 1) /\ \A y \in 1..(z - 1) : c[y] \in Nat
          BY <5>1
        <5>3. Sigma(c, g) \in Int /\ Sigma(c, g) <= Sigma(c, z - 1)
          BY <2>1, <5>2, SigmaGrows
        <5>4. QED BY <2>2, <3>1, <4>1, <5>3
      <4>4. QED BY <4>2, <4>3
    <3>4. QED BY <3>1, <3>2, <3>3
  <2>6. {k \in 0..(m - 1) : f[k] = z} = s..(t - 1)
    <3>1. \A k \in s..(t - 1) : k \in 0..(m - 1)
      BY <2>2, <2>4
    <3>2. QED BY <2>5, <3>1
  <2>7. Cardinality(s..(t - 1)) = d
    <3>1. t - 1 \in Int
      OBVIOUS
    <3>2. Cardinality(s..(t - 1)) = IF s > t - 1 THEN 0 ELSE (t - 1) - s + 1
      BY <3>1, FS_Interval
    <3>3. QED BY <2>3, <3>2
  <2>8. QED BY <2>2, <2>6, <2>7 DEF Times
<1>6. f = Assigned(c, l, m)
  BY <1>0 DEF Assigned
<1>7. QED BY <1>3, <1>4, <1>5, <1>6 DEF Ascending, CountsTimes

LEMMA LimitedLengths ==
  ASSUME NEW l \in Nat \ {0}, NEW c \in [1..l -> Nat], NEW m \in Nat, m = Sigma(c, l),
         Sigma(Weighted(c, l), l) = PowerOf2[l]
  PROVE  /\ Ascending(Assigned(c, l, m), m, l)
         /\ Sigma(Weights(Assigned(c, l, m), l, m), m) = PowerOf2[l]
<1>1. Ascending(Assigned(c, l, m), m, l) /\ CountsTimes(c, Assigned(c, l, m), l, m)
  BY AssignedLengths
<1>2. \A f : Ascending(f, m, l) /\ CountsTimes(c, f, l, m)
               => Sigma(Weighted(c, l), l) = Sigma(Weights(f, l, m), m)
  <2>1. SUFFICES ASSUME NEW f, Ascending(f, m, l), CountsTimes(c, f, l, m)
                 PROVE  Sigma(Weighted(c, l), l) = Sigma(Weights(f, l, m), m)
    OBVIOUS
  <2>2. f \in [0..(m - 1) -> 1..l]
    BY <2>1 DEF Ascending
  <2>3. PICK k \in Nat : k = l
    OBVIOUS
  <2>4. f \in [0..(m - 1) -> 1..k] /\ CountsTimes(c, f, k, m)
    BY <2>1, <2>2, <2>3
  <2>5. Sigma(Weighted(c, k), k) = Sigma(Weights(f, k, m), m)
    BY ONLY <2>4, m \in Nat, k \in Nat, TimesWeights
  <2>6. QED BY <2>3, <2>5
<1>3. QED BY <1>1, <1>2

-----------------------------------------------------------------------------
(***************************************************************************)
(* The lengths that Generate returns.                                      *)
(***************************************************************************)
\* f are the lengths in the order of the array.  They take all codes, but for
\* no symbol, and one alone.
Finished(f) ==
  /\ Ascending(f, n, limit) /\ lens = WithLengths(f)
  /\ n = 0 \/ (n = 1 /\ f[0] = 1) \/ Sigma(Weights(f, limit, n), n) = PowerOf2[limit]

DoneInv == pc = "done" => \E f : Finished(f)

LEMMA InitDone ==
  ASSUME TreeInit
  PROVE  DoneInv
<1>1. lits = <<>> /\ lens = <<>> /\ hist = <<>>
  BY DEF TreeInit
<1>2. n = 0 /\ Syms = {} /\ 0..(n - 1) = {}
  BY <1>1 DEF n, Syms
<1>3. PICK f : f = [k \in 0..(n - 1) |-> 1]
  OBVIOUS
<1>4. f \in [0..(n - 1) -> 1..limit]
  BY <1>2, <1>3
<1>5. lens = WithLengths(f)
  BY <1>1, <1>2 DEF WithLengths
<1>6. QED BY <1>2, <1>4, <1>5 DEF DoneInv, Finished, Ascending

LEMMA FitDone ==
  ASSUME LengthsInv, LengthsFit
  PROVE  DoneInv'
<1>1. /\ pc = "measured" /\ maxLen <= limit /\ lens' = WithLengths(w)
      /\ lits' = lits /\ limit' = limit /\ hist' = hist
  BY DEF LengthsFit, treeUnchanged, sortVars
<1>2. PICK m \in Nat, l \in Nat \ {0}, f \in {w} :
        m = n /\ l = limit /\ f = w /\ f \in [0..(m - 1) -> Nat]
  BY <1>1, LengthFacts DEF LengthsInv, IInv, Types, Sorts
<1>3. maxLen = IF m = 0 THEN 0 ELSE f[m - 1]
  BY <1>2 DEF maxLen
<1>4. MeasuredInv
  BY DEF LengthsInv
<1>5. /\ f \in [0..(m - 1) -> 1..l]
      /\ \A a, b \in 0..(m - 1) : a <= b => f[a] <= f[b]
      /\ m = 0 \/ (m = 1 /\ f[0] = 1) \/ Sigma(Weights(f, l, m), m) = PowerOf2[l]
  <2>1. CASE m = 0
    <3>1. 0..(m - 1) = {}
      BY <2>1
    <3>2. QED BY <1>2, <2>1, <3>1
  <2>2. CASE m = 1
    <3>1. 0..(m - 1) = {0}
      BY <2>2
    <3>2. f[0] = 1 /\ 1 \in 1..l
      BY <1>1, <1>2, <1>4, <2>2 DEF MeasuredInv
    <3>3. QED BY <1>2, <2>2, <3>1, <3>2
  <2>3. CASE m >= 2
    <3>1. PICK t : t = depth /\ Leaves(f, m, t) /\ Taken(f, l, m, 0, t) /\ f[m - 1] = t - 1
      BY <1>1, <1>2, <1>4, <2>3 DEF MeasuredInv
    <3>2. t \in Int
      BY <3>1 DEF LengthsInv, IInv, Types
    <3>3. m - 1 \in 0..(m - 1)
      BY <2>3
    <3>4. f[m - 1] \in Nat /\ f[m - 1] <= l
      BY <1>1, <1>2, <1>3, <2>3, <3>3
    <3>5. t \in Nat /\ t <= l + 1
      BY <3>1, <3>2, <3>4
    <3>6. ASSUME NEW k \in 0..(m - 1) PROVE f[k] \in 1..l
      <4>1. f[k] \in Nat /\ 1 <= f[k] /\ f[k] < t
        BY <3>1 DEF Leaves
      <4>2. QED BY <3>5, <4>1
    <3>7. f \in [0..(m - 1) -> 1..l]
      BY <1>2, <3>6
    <3>8. \A a, b \in 0..(m - 1) : a <= b => f[a] <= f[b]
      BY <3>1 DEF Leaves
    <3>9. Sigma(Weights(f, l, m), m) = PowerOf2[l]
      <4>1. Sigma(Weights(f, l, m), m) \in Int
        BY <1>2, WeightsTypes
      <4>2. CASE t <= l
        <5>1. PICK p \in Nat : p = PowerOf2[l - t]
          <6>1. l - t \in Nat
            BY <3>5, <4>2
          <6>2. QED BY <6>1, PowerFacts
        <5>2. Sigma(Weights(f, l, m), m) + 0 * p = PowerOf2[l]
          BY <3>1, <4>2, <5>1 DEF Taken
        <5>3. QED BY <4>1, <5>2
      <4>3. CASE t = l + 1
        BY <3>1, <4>3 DEF Taken
      <4>4. QED BY <3>5, <4>2, <4>3
    <3>10. QED BY <3>7, <3>8, <3>9
  <2>4. QED BY <2>1, <2>2, <2>3
<1>6. n' = n /\ lens' = WithLengths(f)' /\ limit' = l /\ n' = m
  BY <1>1, <1>2 DEF n, WithLengths, Syms, Lit
<1>7. Finished(f)'
  BY <1>5, <1>6 DEF Finished, Ascending
<1>8. QED BY <1>7 DEF DoneInv

LEMMA LimitedDone ==
  ASSUME LengthsInv, AssignLimited
  PROVE  DoneInv'
<1>1. /\ pc = "limit" /\ total = PowerOf2[limit]
      /\ lens' = WithLengths([k \in 0..(n - 1) |->
           IF k < UpTo(limit) THEN Min({l \in 1..limit : k < UpTo(l)}) ELSE w[k]])
      /\ lits' = lits /\ limit' = limit /\ hist' = hist
  BY DEF AssignLimited, treeUnchanged, sortVars
<1>2. PICK m \in Nat, l \in Nat \ {0}, s \in Int, c \in {lenCounts} :
        m = n /\ l = limit /\ s = total /\ c = lenCounts
  BY LengthFacts DEF LengthsInv, IInv, Types, AssignLimited
<1>3. Limited(c, s, l, m)
  BY <1>1, <1>2 DEF LengthsInv, LimitInv
<1>4. c \in [1..l -> Nat] /\ Sigma(c, l) = m /\ Sigma(Weighted(c, l), l) = PowerOf2[l]
  BY <1>1, <1>2, <1>3 DEF Limited
<1>5. ASSUME NEW z \in 1..l PROVE UpTo(z) = Sigma(c, z)
  <2>1. z \in Nat /\ Integral(c, z)
    BY <1>4 DEF Integral
  <2>2. MapThenSumSet(LAMBDA k : c[k], 1..z) = Sigma(c, z)
    BY <2>1, SumOf
  <2>3. QED BY <1>2, <2>2 DEF UpTo
<1>6. PICK f : f = Assigned(c, l, m)
  OBVIOUS
<1>7. [k \in 0..(n - 1) |->
         IF k < UpTo(limit) THEN Min({z \in 1..limit : k < UpTo(z)}) ELSE w[k]] = f
  <2>1. UpTo(limit) = m
    <3>1. l \in 1..l
      OBVIOUS
    <3>2. QED BY <1>2, <1>4, <1>5, <3>1
  <2>2. ASSUME NEW k \in 0..(m - 1)
        PROVE  /\ k < UpTo(limit)
               /\ {z \in 1..limit : k < UpTo(z)} = {z \in 1..l : k < Sigma(c, z)}
    BY <1>2, <1>5, <2>1
  <2>3. QED BY <1>2, <1>6, <2>2 DEF Assigned
<1>8. Ascending(f, m, l) /\ Sigma(Weights(f, l, m), m) = PowerOf2[l]
  BY <1>4, <1>6, LimitedLengths
<1>9. lens' = WithLengths(f)
  BY <1>1, <1>7
<1>10. WithLengths(f)' = WithLengths(f) /\ n' = n
  <2>1. lits' = lits /\ hist' = hist
    BY <1>1
  <2>2. QED BY <2>1 DEF n, WithLengths, Syms, Lit
<1>11. lens' = WithLengths(f)' /\ limit' = l /\ n' = m
  BY <1>1, <1>2, <1>9, <1>10
<1>12. Finished(f)'
  BY <1>8, <1>11 DEF Finished
<1>13. QED BY <1>12 DEF DoneInv

LEMMA NextDone ==
  ASSUME LengthsInv, DoneInv, [TreeNext \/ TreeCall]_treeVars
  PROVE  DoneInv'
<1>1. CASE LengthsFit
  BY <1>1, FitDone
<1>2. CASE AssignLimited
  BY <1>2, LimitedDone
<1>3. CASE Sorting \/ Pairing \/ Measuring \/ TooLong \/ MoveLongest \/ TreeCall
  <2>1. pc' # "done"
    BY <1>3
       DEF Sorting, Collect, Collected, StartInsert, Sink, NextInsert, Inserted,
           StartScan, Scan, Scanned, Sorted, Pairing, FirstInner, FirstLeaf, SecondInner,
           SecondLeaf, Paired, pairUnchanged, Measuring, Deepen, Deepened, CountInner,
           AssignLeaves, TooLong, MoveLongest, TreeCall, Generate
  <2>2. QED BY <2>1 DEF DoneInv
<1>4. CASE UNCHANGED treeVars
  <2>1. pc' = pc /\ hist' = hist /\ limit' = limit /\ lits' = lits /\ lens' = lens
    BY <1>4 DEF treeVars, sortVars
  <2>2. n' = n /\ \A f : WithLengths(f)' = WithLengths(f)
    BY <2>1 DEF n, WithLengths, Syms, Lit
  <2>3. \A f : Finished(f) => Finished(f)'
    BY <2>1, <2>2 DEF Finished
  <2>4. QED BY <2>1, <2>3 DEF DoneInv
<1>5. QED BY <1>1, <1>2, <1>3, <1>4 DEF TreeNext, Limiting

\* The positions of the array are those of the symbols that occur.
Order == [k \in 0..(n - 1) |-> Lit(k)]

LEMMA FinishedLengths ==
  ASSUME Types, OneEach(lits, Occur), NEW f, Finished(f)
  PROVE  Given(lens, Syms, Order, f, n, limit) /\ Coded(lens) = Occur
<1>1. PICK m \in Nat : m = n
  BY LengthFacts DEF Types
<1>2. PICK q : q = [k \in 0..(m - 1) |-> Lit(k)]
  OBVIOUS
<1>3. lits \in Seq(Syms) /\ n = Len(lits) /\ lens \in [Syms -> Nat] /\ Occur \subseteq Syms
  BY DEF Types, n, Occur
<1>4. ASSUME NEW k \in 0..(m - 1) PROVE q[k] = Lit(k) /\ Lit(k) \in Syms
  <2>1. k + 1 \in 1..Len(lits)
    BY <1>1, <1>3
  <2>2. lits[k + 1] \in Syms
    BY <1>3, <2>1
  <2>3. QED BY <1>2, <2>2 DEF Lit
<1>5. \A a, b \in 0..(m - 1) : a # b => q[a] # q[b]
  <2>1. \A a, b \in 0..(m - 1) : a # b => lits[a + 1] # lits[b + 1]
    BY <1>1, <1>3 DEF OneEach
  <2>2. QED BY <1>4, <2>1 DEF Lit
<1>6. \A x : x \in Occur <=> \E k \in 0..(m - 1) : q[k] = x
  <2>1. \A x : x \in Occur <=> \E k \in 0..(m - 1) : lits[k + 1] = x
    BY <1>1, <1>3 DEF OneEach
  <2>2. QED BY <1>4, <2>1 DEF Lit
<1>7. f \in [0..(m - 1) -> 1..limit]
  BY <1>1 DEF Finished, Ascending
<1>8. ASSUME NEW k \in 0..(m - 1) PROVE lens[q[k]] = f[k]
  <2>1. q[k] \in Syms /\ q[k] = Lit(k)
    BY <1>4
  <2>2. \E a \in 0..(n - 1) : Lit(a) = q[k]
    BY <1>1, <2>1
  <2>3. lens[q[k]] = f[CHOOSE a \in 0..(n - 1) : Lit(a) = q[k]]
    BY <2>1, <2>2 DEF Finished, WithLengths
  <2>4. PICK c : c = CHOOSE a \in 0..(n - 1) : Lit(a) = q[k]
    OBVIOUS
  <2>5. c \in 0..(m - 1) /\ Lit(c) = q[k]
    BY <1>1, <2>2, <2>4
  <2>6. c = k
    BY <1>4, <1>5, <2>5
  <2>7. QED BY <2>3, <2>4, <2>6
<1>9. ASSUME NEW s \in Syms, s \notin Occur PROVE lens[s] = 0
  <2>1. ~\E k \in 0..(n - 1) : Lit(k) = s
    BY <1>1, <1>4, <1>6, <1>9
  <2>2. QED BY <2>1 DEF Finished, WithLengths
<1>10. Given(lens, Syms, q, f, m, limit)
  <2>1. q \in [0..(m - 1) -> Syms]
    BY <1>2, <1>4
  <2>2. \A s \in Syms : lens[s] # 0 => \E k \in 0..(m - 1) : q[k] = s
    BY <1>6, <1>9
  <2>3. QED BY <1>3, <1>5, <1>7, <1>8, <2>1, <2>2 DEF Given
<1>11. Coded(lens) = Occur
  <2>1. ASSUME NEW s \in Occur PROVE s \in Coded(lens)
    <3>1. PICK k \in 0..(m - 1) : q[k] = s
      BY <1>6
    <3>2. lens[s] \in 1..limit
      BY <1>7, <1>8, <3>1
    <3>3. lens[s] > 0
      BY <3>2
    <3>4. QED BY <1>3, <3>3 DEF Coded
  <2>2. ASSUME NEW s \in Coded(lens) PROVE s \in Occur
    <3>1. s \in Syms /\ lens[s] > 0
      BY <1>3 DEF Coded
    <3>2. QED BY <1>9, <3>1
  <2>3. QED BY <2>1, <2>2
<1>12. QED BY <1>1, <1>2, <1>10, <1>11 DEF Order

\* None of them is longer than the limit, and there are codes enough.
LEMMA GivenFits ==
  ASSUME NEW m \in Nat, NEW l \in Nat, NEW e, NEW S, NEW q, NEW f, Given(e, S, q, f, m, l),
         m = 0 \/ (m = 1 /\ f[0] = 1) \/ Sigma(Weights(f, l, m), m) = PowerOf2[l]
  PROVE  (\A s \in S : e[s] <= l) /\ Sigma(Weights(f, l, m), m) <= PowerOf2[l]
<1>1. ASSUME NEW s \in S PROVE e[s] <= l
  <2>1. CASE e[s] = 0
    BY <2>1
  <2>2. CASE e[s] # 0
    <3>1. PICK k \in 0..(m - 1) : q[k] = s
      BY <2>2 DEF Given
    <3>2. e[s] \in 1..l
      BY <3>1 DEF Given
    <3>3. QED BY <3>2
  <2>3. QED BY <2>1, <2>2
<1>2. PowerOf2[l] \in Nat
  BY PowerFacts
<1>3. CASE m = 0
  <2>1. Sigma(Weights(f, l, m), m) = 0
    BY <1>3, SigmaNone
  <2>2. QED BY <1>1, <1>2, <2>1
<1>4. CASE m = 1 /\ f[0] = 1
  <2>1. 0 \in 0..(m - 1) /\ 1 \in 1..m
    BY <1>4
  <2>2. 1 \in 1..l
    BY <1>4, <2>1 DEF Given
  <2>3. l - 1 \in Nat /\ 1 <= l /\ (l - 1) + 1 = l
    BY <2>2
  <2>4. PICK g : g = Weights(f, l, m)
    OBVIOUS
  <2>5. g[1] = PowerOf2[l - 1]
    <3>1. 1 - 1 = 0
      OBVIOUS
    <3>2. g[1] = Weight(l, f[0])
      BY <2>1, <2>4, <3>1 DEF Weights
    <3>3. QED BY <1>4, <2>3, <3>2 DEF Weight
  <2>6. PICK p \in Nat : p = PowerOf2[l - 1] /\ PowerOf2[l] = 2 * p
    <3>1. PowerOf2[l - 1] \in Nat /\ PowerOf2[(l - 1) + 1] = 2 * PowerOf2[l - 1]
      BY <2>3, PowerFacts
    <3>2. QED BY <2>3, <3>1
  <2>7. Sigma(g, 1) = p
    <3>1. Integral(g, 0 + 1)
      BY <2>5, <2>6 DEF Integral
    <3>2. Sigma(g, 0 + 1) = Sigma(g, 0) + g[0 + 1]
      BY <3>1, SigmaNext
    <3>3. Sigma(g, 0) = 0
      BY SigmaNone
    <3>4. QED BY <2>5, <2>6, <3>2, <3>3
  <2>8. p <= 2 * p
    OBVIOUS
  <2>9. QED BY <1>1, <1>4, <2>4, <2>6, <2>7, <2>8
<1>5. CASE Sigma(Weights(f, l, m), m) = PowerOf2[l]
  BY <1>1, <1>2, <1>5
<1>6. QED BY <1>3, <1>4, <1>5

\* A symbol that is counted more often is at an earlier position.
LEMMA MoreOften ==
  ASSUME Types, OneEach(lits, Occur), Placed(lits, <<>>), NEW f, Finished(f),
         NEW s \in Occur, NEW t \in Occur, Count(s) > Count(t)
  PROVE  lens[s] <= lens[t]
<1>1. PICK m \in Nat, q \in {Order} : m = n /\ q = Order
  BY LengthFacts DEF Types
<1>2. q = [k \in 0..(m - 1) |-> lits[k + 1]] /\ m = Len(lits)
  BY <1>1 DEF Order, Lit, n
<1>3. Given(lens, Syms, q, f, m, limit) /\ Coded(lens) = Occur
  BY <1>1, FinishedLengths
<1>4. \A a, b \in 0..(m - 1) : a <= b => f[a] <= f[b]
  BY <1>1 DEF Finished, Ascending
<1>5. PICK a \in 0..(m - 1), b \in 0..(m - 1) : lits[a + 1] = s /\ lits[b + 1] = t
  BY <1>2 DEF OneEach
<1>6. q[a] = s /\ q[b] = t
  BY <1>2, <1>5
<1>7. Above(s, t) /\ ~Above(t, s) /\ s # t
  <2>1. s \in Syms /\ t \in Syms
    BY DEF Occur
  <2>2. Above(s, t)
    BY DEF Above
  <2>3. ~Above(t, s)
    BY <2>1, <2>2, AboveOrder
  <2>4. QED BY <2>2, <2>3
<1>8. ~Held(<<>>, b, a)
  BY DEF Held
<1>9. a <= b
  <2>1. b < a => Above(t, s) \/ Held(<<>>, b, a)
    BY <1>2, <1>5 DEF Placed
  <2>2. QED BY <1>7, <1>8, <2>1
<1>10. lens[s] = f[a] /\ lens[t] = f[b]
  BY <1>3, <1>6 DEF Given
<1>11. QED BY <1>4, <1>9, <1>10

LEMMA DoneCode ==
  ASSUME LengthsInv, DoneInv
  PROVE  MakesCode
<1> SUFFICES ASSUME pc = "done" PROVE
      /\ CodesFor(hist, lens, limit)
      /\ \A s, t \in Coded(lens) : Count(s) > Count(t) => lens[s] <= lens[t]
      /\ Canonical(lens, GenerateCode(lens))
  BY DEF MakesCode
<1>1. Types /\ OneEach(lits, Occur) /\ Placed(lits, <<>>)
  BY DEF LengthsInv, IInv, SortInv, Sorts
<1>2. PICK f : Finished(f)
  BY DEF DoneInv
<1>3. PICK m \in Nat, l \in 0..MaxDepth, q \in {Order} : m = n /\ l = limit /\ q = Order
  <2>1. limit \in 0..MaxDepth
    BY <1>1, WidthsOK DEF LengthsInv, RoomInv, Types
  <2>2. QED BY <1>1, <2>1, LengthFacts DEF Types
<1>4. PICK S \in SUBSET Nat : S = Syms /\ IsFiniteSet(S)
  <2>1. PICK k \in Nat : Syms = 0..(k - 1)
    BY <1>1 DEF Types
  <2>2. IsFiniteSet(0..(k - 1)) /\ 0..(k - 1) \in SUBSET Nat
    BY FS_Interval
  <2>3. QED BY <2>1, <2>2
<1>5. PICK e \in [S -> Nat] : e = lens
  BY <1>1, <1>4 DEF Types
<1>6. Given(e, S, q, f, m, l) /\ Coded(e) = Occur
  BY <1>1, <1>2, <1>3, <1>4, <1>5, FinishedLengths
<1>7. m = 0 \/ (m = 1 /\ f[0] = 1) \/ Sigma(Weights(f, l, m), m) = PowerOf2[l]
  BY <1>2, <1>3 DEF Finished
<1>8. (\A s \in S : e[s] <= l) /\ Sigma(Weights(f, l, m), m) <= PowerOf2[l]
  <2>1. l \in Nat
    OBVIOUS
  <2>2. QED BY <1>6, <1>7, <2>1, GivenFits
<1>9. Canonical(e, GenerateCode(e))
  <2>1. Sigma(Weighted(CountsOf(e), l), l) = Sigma(Weights(f, l, m), m)
    BY <1>6, GivenWeights
  <2>2. QED BY <1>4, <1>8, <2>1, CanonicalCodes
<1>10. Coded(e) = {} \/ Single(e) \/ Complete(e)
  <2>0. DOMAIN e = S /\ Coded(e) = {s \in S : e[s] > 0}
    BY <1>6 DEF Coded, Given
  <2>1. CASE m = 0
    <3>1. 0..(m - 1) = {}
      BY <2>1
    <3>2. \A s \in S : ~(e[s] # 0)
      BY <1>6, <3>1 DEF Given
    <3>3. \A s \in S : ~(e[s] > 0)
      BY <3>2
    <3>4. QED BY <2>0, <3>3
  <2>2. CASE m = 1 /\ f[0] = 1
    <3>1. 0..(m - 1) = {0}
      BY <2>2
    <3>2. q[0] \in S /\ e[q[0]] = 1
      BY <1>6, <2>2, <3>1 DEF Given
    <3>3. \A s \in S : e[s] # 0 => s = q[0]
      BY <1>6, <3>1 DEF Given
    <3>4. Coded(e) = {q[0]}
      <4>1. \A s \in S : e[s] > 0 => s = q[0]
        BY <3>3
      <4>2. e[q[0]] > 0
        BY <3>2
      <4>3. QED BY <2>0, <3>2, <4>1, <4>2
    <3>5. QED BY <2>0, <3>2, <3>4 DEF Single
  <2>3. CASE Sigma(Weights(f, l, m), m) = PowerOf2[l]
    <3>1. Kraft(e) = PowerOf2[MaxDepth - l] * PowerOf2[l]
      BY <1>4, <1>6, <2>3, GivenKraft
    <3>2. MaxDepth - l \in Nat /\ l \in Nat /\ (MaxDepth - l) + l = MaxDepth
      BY WidthsOK
    <3>3. PowerOf2[(MaxDepth - l) + l] = PowerOf2[MaxDepth - l] * PowerOf2[l]
      BY <3>2, PowerSum
    <3>4. QED BY <3>1, <3>2, <3>3 DEF Complete
  <2>4. QED BY <1>7, <2>1, <2>2, <2>3
<1>11. CodesFor(hist, lens, limit)
  <2>1. Coded(lens) = {s \in DOMAIN hist : hist[s] > 0}
    BY <1>5, <1>6 DEF Occur, Syms
  <2>2. \A s \in DOMAIN lens : lens[s] <= limit
    BY <1>3, <1>5, <1>8
  <2>3. QED BY <1>5, <1>10, <2>1, <2>2 DEF CodesFor
<1>12. \A s, t \in Coded(lens) : Count(s) > Count(t) => lens[s] <= lens[t]
  BY <1>1, <1>2, <1>5, <1>6, MoreOften
<1>13. QED BY <1>5, <1>9, <1>11, <1>12

\* Whatever was counted, Generate returns the lengths of a complete code for the
\* symbols that occur (of one bit for one symbol alone), none over the limit and
\* none longer for a symbol that is counted more often; and the codes that
\* GenerateCode makes of them are canonical: none begins with another
\* (huffman/len_limited.go, moffat.go, code.go).
THEOREM MakesCodes == TreeSpec => []MakesCode
<1>1. TreeInit => DoneInv
  BY InitDone
<1>2. LengthsInv /\ DoneInv /\ [TreeNext \/ TreeCall]_treeVars => DoneInv'
  BY NextDone
<1>3. LengthsInv /\ DoneInv => MakesCode
  BY DoneCode
<1>4. QED BY <1>1, <1>2, <1>3, LengthsCorrect, PTL DEF TreeSpec

-----------------------------------------------------------------------------
(***************************************************************************)
(* Huffman's algorithm: what the array holds are the same weights.  Nodes  *)
(* are pairs of a weight and a number of their own.                        *)
(***************************************************************************)
\* The numbers of the nodes are not less than -z.
NodesAbove(N, z) ==
  /\ z \in Nat /\ \A q \in N : q[1] \in Nat /\ q[2] \in Int /\ -z <= q[2] /\ q = <<q[1], q[2]>>

\* The reference takes this one.
LightestOf(N) ==
  CHOOSE a \in N : \A b \in N : a[1] < b[1] \/ (a[1] = b[1] /\ a[2] <= b[2])

\* a has the least weight of the nodes.
Lightest(N, a) == a \in N /\ a[1] \in Nat /\ \A b \in N : a[1] <= b[1]

\* There is a lightest one.
LEMMA LightestExists ==
  ASSUME NEW N, NEW z, NodesAbove(N, z), N # {}
  PROVE  Lightest(N, LightestOf(N))
<1>1. z \in Nat /\ \A q \in N : q[1] \in Nat /\ q[2] \in Int /\ -z <= q[2]
  BY DEF NodesAbove
<1>2. PICK T : T = {q[1] : q \in N}
  OBVIOUS
<1>3. T \in SUBSET Nat /\ T # {}
  BY <1>1, <1>2
<1>4. PICK c \in T : \A k \in T : c <= k
  BY <1>3, LeastElement
<1>5. PICK Z : Z = {q[2] + z : q \in {q \in N : q[1] = c}}
  OBVIOUS
<1>6. Z \in SUBSET Nat /\ Z # {}
  BY <1>1, <1>2, <1>4, <1>5
<1>7. PICK d \in Z : \A k \in Z : d <= k
  BY <1>6, LeastElement
<1>8. PICK a \in N : a[1] = c /\ d = a[2] + z
  BY <1>5, <1>7
<1>9. ASSUME NEW b \in N PROVE a[1] < b[1] \/ (a[1] = b[1] /\ a[2] <= b[2])
  <2>1. c <= b[1] /\ b[1] \in Nat /\ c \in Nat
    BY <1>1, <1>2, <1>3, <1>4
  <2>2. CASE b[1] = c
    <3>1. b[2] + z \in Z
      BY <1>5, <2>2
    <3>2. d <= b[2] + z
      BY <1>7, <3>1
    <3>3. a[2] <= b[2]
      BY <1>1, <1>8, <3>2
    <3>4. QED BY <1>8, <2>2, <3>3
  <2>3. QED BY <1>8, <2>1, <2>2
<1>10. PICK l : l = LightestOf(N)
  OBVIOUS
<1>11. l \in N /\ \A b \in N : l[1] < b[1] \/ (l[1] = b[1] /\ l[2] <= b[2])
  BY <1>9, <1>10 DEF LightestOf
<1>12. ASSUME NEW b \in N PROVE l[1] <= b[1]
  <2>1. l[1] \in Nat /\ b[1] \in Nat
    BY <1>1, <1>11
  <2>2. QED BY <1>11, <2>1
<1>13. QED BY <1>1, <1>10, <1>11, <1>12 DEF Lightest

-----------------------------------------------------------------------------
\* g pairs off the places I, which have weights e, with the nodes N.
Matching(I, e, N, g) ==
  /\ g \in [I -> N] /\ \A x, y \in I : g[x] = g[y] => x = y
  /\ \A q \in N : \E x \in I : g[x] = q
  /\ \A x \in I : g[x][1] = e[x] /\ e[x] \in Nat

Matched(I, e, N) == \E g : Matching(I, e, N, g)

\* c is a place with the least weight.
LeastPlace(I, e, c) == c \in I /\ \A x \in I : e[c] <= e[x]

\* The lightest node has the weight of the lightest place, and without the two
\* of them the others can still be paired off.
LEMMA WithoutLightest ==
  ASSUME NEW I, NEW e, NEW N, Matched(I, e, N), NEW c, LeastPlace(I, e, c),
         NEW a, Lightest(N, a)
  PROVE  a[1] = e[c] /\ Matched(I \ {c}, e, N \ {a})
<1>1. PICK g : Matching(I, e, N, g)
  BY DEF Matched
<1>2. /\ g \in [I -> N] /\ \A x, y \in I : g[x] = g[y] => x = y
      /\ \A q \in N : \E x \in I : g[x] = q
      /\ \A x \in I : g[x][1] = e[x] /\ e[x] \in Nat
  BY <1>1 DEF Matching
<1>3. c \in I /\ \A x \in I : e[c] <= e[x]
  BY DEF LeastPlace
<1>4. a \in N /\ a[1] \in Nat /\ \A b \in N : a[1] <= b[1]
  BY DEF Lightest
<1>5. PICK o \in I : g[o] = a
  BY <1>2, <1>4
<1>6. e[o] = e[c] /\ a[1] = e[c]
  <2>1. e[o] = a[1] /\ e[o] \in Nat /\ e[c] \in Nat /\ e[c] = g[c][1] /\ g[c] \in N
    BY <1>2, <1>3, <1>5
  <2>2. e[c] <= e[o] /\ a[1] <= g[c][1]
    BY <1>3, <1>4, <2>1
  <2>3. QED BY <2>1, <2>2
<1>7. PICK h : h = [x \in I \ {c} |-> IF x = o THEN g[c] ELSE g[x]]
  OBVIOUS
<1>8. ASSUME NEW x \in I \ {c} PROVE h[x] \in N \ {a} /\ h[x][1] = e[x] /\ e[x] \in Nat
  <2>1. CASE x = o
    <3>1. h[x] = g[c] /\ o # c
      BY <1>7, <1>8, <2>1
    <3>2. g[c] # a /\ g[c] \in N /\ g[c][1] = e[c]
      BY <1>2, <1>3, <1>5, <3>1
    <3>3. QED BY <1>2, <1>6, <2>1, <3>1, <3>2
  <2>2. CASE x # o
    <3>1. h[x] = g[x] /\ x \in I
      BY <1>7, <1>8, <2>2
    <3>2. g[x] # a
      BY <1>2, <1>5, <2>2, <3>1
    <3>3. QED BY <1>2, <3>1, <3>2
  <2>3. QED BY <2>1, <2>2
<1>9. ASSUME NEW x \in I \ {c}, NEW y \in I \ {c}, h[x] = h[y] PROVE x = y
  <2>1. /\ h[x] = (IF x = o THEN g[c] ELSE g[x])
        /\ h[y] = (IF y = o THEN g[c] ELSE g[y])
    BY <1>7
  <2>2. QED BY <1>2, <1>3, <1>9, <2>1
<1>10. ASSUME NEW q \in N \ {a} PROVE \E x \in I \ {c} : h[x] = q
  <2>1. PICK x \in I : g[x] = q
    BY <1>2
  <2>2. x # o
    BY <1>5, <1>10, <2>1
  <2>3. CASE x = c
    <3>1. o \in I \ {c}
      BY <2>2, <2>3
    <3>2. h[o] = q
      BY <1>7, <2>1, <2>3, <3>1
    <3>3. QED BY <3>1, <3>2
  <2>4. CASE x # c
    <3>1. x \in I \ {c} /\ h[x] = q
      BY <1>7, <2>1, <2>2, <2>4
    <3>2. QED BY <3>1
  <2>5. QED BY <2>3, <2>4
<1>11. h \in [I \ {c} -> N \ {a}]
  BY <1>7, <1>8
<1>12. Matching(I \ {c}, e, N \ {a}, h)
  BY <1>8, <1>9, <1>10, <1>11 DEF Matching
<1>13. QED BY <1>6, <1>12 DEF Matched

\* One more of the same weight.
LEMMA WithOneMore ==
  ASSUME NEW I, NEW e, NEW N, Matched(I, e, N), NEW c, c \notin I, NEW q, q \notin N,
         NEW f, \A x \in I : f[x] = e[x], q[1] = f[c], f[c] \in Nat
  PROVE  Matched(I \cup {c}, f, N \cup {q})
<1>1. PICK g : Matching(I, e, N, g)
  BY DEF Matched
<1>2. /\ g \in [I -> N] /\ \A x, y \in I : g[x] = g[y] => x = y
      /\ \A p \in N : \E x \in I : g[x] = p
      /\ \A x \in I : g[x][1] = e[x] /\ e[x] \in Nat
  BY <1>1 DEF Matching
<1>3. PICK h : h = [x \in I \cup {c} |-> IF x = c THEN q ELSE g[x]]
  OBVIOUS
<1>4. h \in [I \cup {c} -> N \cup {q}]
  BY <1>2, <1>3
<1>5. h[c] = q /\ \A x \in I : h[x] = g[x]
  BY <1>3
<1>6. \A x, y \in I \cup {c} : h[x] = h[y] => x = y
  BY <1>2, <1>5
<1>7. \A p \in N \cup {q} : \E x \in I \cup {c} : h[x] = p
  BY <1>2, <1>5
<1>8. \A x \in I \cup {c} : h[x][1] = f[x] /\ f[x] \in Nat
  BY <1>2, <1>5
<1>9. Matching(I \cup {c}, f, N \cup {q}, h)
  BY <1>4, <1>6, <1>7, <1>8 DEF Matching
<1>10. QED BY <1>9 DEF Matched

\* What matches is not empty, and it does not matter what else e is.
LEMMA SameMatched ==
  ASSUME NEW I, NEW e, NEW N, Matched(I, e, N), NEW f, \A x \in I : f[x] = e[x]
  PROVE  Matched(I, f, N) /\ (I # {} => N # {})
<1>1. PICK g : Matching(I, e, N, g)
  BY DEF Matched
<1>2. Matching(I, f, N, g)
  BY <1>1 DEF Matching
<1>3. I # {} => N # {}
  BY <1>1 DEF Matching
<1>4. QED BY <1>2, <1>3 DEF Matched

-----------------------------------------------------------------------------
\* The two lightest nodes become one, the k-th.
MergedOnce(st, k) ==
  LET a == LightestOf(st.nodes)
      b == LightestOf(st.nodes \ {a})
  IN  [cost |-> st.cost + a[1] + b[1],
       nodes |-> (st.nodes \ {a, b}) \cup {<<a[1] + b[1], -k>>}]

AllNodes == [cost |-> 0, nodes |-> {<<Count(s), s>> : s \in Range(lits)}]

MergesOf(z, o, f) == f = [k \in 0..z |-> IF k = 0 THEN o ELSE MergedOnce(f[k - 1], k)]

\* What the reference says.
LEMMA CostIs ==
  HuffmanCost = (CHOOSE f : MergesOf(n - 1, AllNodes, f))[n - 1].cost
BY DEF HuffmanCost, MergesOf, AllNodes, MergedOnce, LightestOf

\* h has the first z states of the reference.
States(h, o, z) == h[0] = o /\ \A k \in 1..z : h[k] = MergedOnce(h[k - 1], k)

\* States are those of the function that the reference defines.
LEMMA StatesAre ==
  ASSUME NEW z \in Nat, NEW o, NEW h, States(h, o, z)
  PROVE  (CHOOSE f : MergesOf(z, o, f))[z] = h[z]
<1>1. PICK g : g = [k \in 0..z |-> h[k]]
  OBVIOUS
<1>2. MergesOf(z, o, g)
  <2>1. ASSUME NEW k \in 0..z PROVE g[k] = IF k = 0 THEN o ELSE MergedOnce(g[k - 1], k)
    <3>1. CASE k = 0
      BY <1>1, <3>1 DEF States
    <3>2. CASE k # 0
      <4>1. k \in 1..z /\ k - 1 \in 0..z
        BY <3>2
      <4>2. g[k] = h[k] /\ g[k - 1] = h[k - 1] /\ h[k] = MergedOnce(h[k - 1], k)
        BY <1>1, <4>1 DEF States
      <4>3. QED BY <3>2, <4>2
    <3>3. QED BY <3>1, <3>2
  <2>2. QED BY <1>1, <2>1 DEF MergesOf
<1>3. PICK f : f = CHOOSE y : MergesOf(z, o, y)
  OBVIOUS
<1>4. MergesOf(z, o, f)
  BY <1>2, <1>3
<1>5. f[0] = o /\ \A k \in 1..z : f[k] = MergedOnce(f[k - 1], k)
  <2>1. \A k \in 0..z : f[k] = IF k = 0 THEN o ELSE MergedOnce(f[k - 1], k)
    BY <1>4 DEF MergesOf
  <2>2. 0 \in 0..z /\ \A k \in 1..z : k \in 0..z /\ k # 0
    OBVIOUS
  <2>3. QED BY <2>1, <2>2
<1> DEFINE T == {k \in Nat : k <= z => f[k] = h[k]}
<1>6. 0 \in T
  BY <1>5 DEF States
<1>7. ASSUME NEW k \in T PROVE k + 1 \in T
  <2>1. SUFFICES ASSUME k + 1 <= z PROVE f[k + 1] = h[k + 1]
    BY <1>7
  <2>2. k + 1 \in 1..z /\ (k + 1) - 1 = k /\ f[k] = h[k]
    BY <1>7, <2>1
  <2>3. QED BY <1>5, <2>2 DEF States
<1>8. T = Nat
  <2> HIDE DEF T
  <2>1. T \in SUBSET Nat
    BY DEF T
  <2>2. QED BY <1>6, <1>7, <2>1, InductiveSet
<1>9. f[z] = h[z]
  BY <1>8
<1>10. QED BY <1>3, <1>9

\* The first of the two nodes that become one.
LEMMA MirrorFirst ==
  ASSUME NEW I, NEW e, NEW N, NEW z, NodesAbove(N, z), Matched(I, e, N),
         NEW c, LeastPlace(I, e, c), NEW a, a = LightestOf(N)
  PROVE  a[1] = e[c] /\ Matched(I \ {c}, e, N \ {a})
<1>1. N # {}
  <2>1. I # {}
    BY DEF LeastPlace
  <2>2. QED BY <2>1, SameMatched
<1>2. Lightest(N, a)
  BY <1>1, LightestExists
<1>3. QED BY <1>2, WithoutLightest

\* What the second one leaves, with the new node at place o.
MirrorsMerge(st, new, z, v, I, e) ==
  new.cost = st.cost + v /\ NodesAbove(new.nodes, z + 1) /\ Matched(I, e, new.nodes)

LEMMA MirrorSecond ==
  ASSUME NEW I, NEW e, NEW st, st.cost \in Nat, NEW z, NodesAbove(st.nodes, z),
         NEW a, a = LightestOf(st.nodes), a \in st.nodes, Matched(I, e, st.nodes \ {a}),
         NEW c, LeastPlace(I, e, c), NEW v \in Nat, v = a[1] + e[c],
         NEW o, o \notin I, NEW f, \A x \in I \ {c} : f[x] = e[x], f[o] = v,
         NEW new, new = MergedOnce(st, z + 1)
  PROVE  MirrorsMerge(st, new, z, v, (I \ {c}) \cup {o}, f)
<1>1. PICK N : N = st.nodes
  OBVIOUS
<1>2. z \in Nat /\ \A q \in N : q[1] \in Nat /\ q[2] \in Int /\ -z <= q[2] /\ q = <<q[1], q[2]>>
  BY <1>1 DEF NodesAbove
<1>3. NodesAbove(N \ {a}, z)
  BY <1>2 DEF NodesAbove
<1>4. PICK b : b = LightestOf(N \ {a})
  OBVIOUS
<1>5. N \ {a} # {}
  <2>1. I # {}
    BY DEF LeastPlace
  <2>2. QED BY <1>1, <2>1, SameMatched
<1>6. Lightest(N \ {a}, b)
  BY <1>3, <1>4, <1>5, LightestExists
<1>7. b[1] = e[c] /\ Matched(I \ {c}, e, (N \ {a}) \ {b})
  BY <1>1, <1>6, WithoutLightest
<1>8. PICK M : M = N \ {a, b}
  OBVIOUS
<1>9. (N \ {a}) \ {b} = M
  BY <1>8
<1>10. PICK q : q = <<v, -(z + 1)>>
  OBVIOUS
<1>11. q[1] = v /\ q[2] = -(z + 1)
  BY <1>10
<1>12. q \notin M
  <2>1. SUFFICES ASSUME q \in N PROVE FALSE
    BY <1>8
  <2>2. -z <= q[2] /\ q[2] = -(z + 1)
    BY <1>2, <1>11, <2>1
  <2>3. QED BY <1>2, <2>2
<1>13. a[1] \in Nat /\ b[1] \in Nat /\ v = a[1] + b[1]
  <2>1. b[1] \in Nat
    BY <1>6 DEF Lightest
  <2>2. QED BY <1>1, <1>2, <1>7, <2>1
<1>14. new.cost = st.cost + a[1] + b[1] /\ new.nodes = M \cup {q}
  BY <1>1, <1>4, <1>8, <1>10, <1>13 DEF MergedOnce
<1>15. new.cost = st.cost + v
  BY <1>13, <1>14
<1>16. NodesAbove(M \cup {q}, z + 1)
  <2>1. \A p \in M : p[1] \in Nat /\ p[2] \in Int /\ -(z + 1) <= p[2] /\ p = <<p[1], p[2]>>
    BY <1>2, <1>8
  <2>2. q[1] \in Nat /\ q[2] \in Int /\ -(z + 1) <= q[2] /\ q = <<q[1], q[2]>>
    BY <1>2, <1>10, <1>11
  <2>3. z + 1 \in Nat
    BY <1>2
  <2>4. QED BY <2>1, <2>2, <2>3 DEF NodesAbove
<1>17. Matched((I \ {c}) \cup {o}, f, M \cup {q})
  <2>1. Matched(I \ {c}, e, M)
    BY <1>7, <1>9
  <2>2. q[1] = f[o] /\ f[o] \in Nat /\ o \notin I \ {c}
    BY <1>11
  <2>3. QED BY <1>12, <2>1, <2>2, WithOneMore
<1>18. QED BY <1>14, <1>15, <1>16, <1>17 DEF MirrorsMerge

-----------------------------------------------------------------------------
(***************************************************************************)
(* The array.  Leaves 0..y and inner nodes x+1..r can be paired; the place *)
(* of an inner node k is -k.                                               *)
(***************************************************************************)
\* The places and the weights of what can be paired.
PairPlaces(y, r, x) == (0..y) \cup ((-r)..(-(x + 1)))
WeightsAt(c, f) == [k \in Int |-> IF k >= 0 THEN c[k] ELSE f[-k]]

\* More frequent symbols come first.
Descending(m, c) ==
  /\ c \in [0..(m - 1) -> Nat]
  /\ \A a, b \in 0..(m - 1) : a <= b => c[b] <= c[a]

\* Inner nodes are heavier the later they are made, since all that can be
\* paired weighs v or more, and the latest inner node no more than 2 * v.
Queued(m, c, f, y, r, x, v) ==
  /\ v \in Nat /\ \A k \in 0..y : f[k] = c[k] /\ v <= c[k]
  /\ \A k \in (x + 1)..r : v <= f[k]
  /\ \A k, l \in (x + 1)..r : k <= l => f[l] <= f[k]
  /\ x < r => f[x + 1] <= 2 * v

\* The numbers in the array, when one can be taken.
ArrayAt(m, c, f, y, r, x) ==
  /\ m \in Nat /\ Descending(m, c) /\ f \in [0..(m - 1) -> Nat]
  /\ y \in -1..(m - 1) /\ r \in 0..(m - 1) /\ x \in 0..(m - 1) /\ x <= r

\* An inner node is taken when it is lighter than the last leaf, or no leaf is left.
TakesRoot(f, y, r, x) == x < r /\ (y >= 0 => f[r] < f[y])
TakesLeaf(f, y, r, x) == y >= 0 /\ (x < r => f[y] <= f[r])

\* An inner node that is taken is a lightest one ...
LEMMA LightestRoot ==
  ASSUME NEW m, NEW c, NEW f, NEW y, NEW r, NEW x, NEW v, ArrayAt(m, c, f, y, r, x),
         Queued(m, c, f, y, r, x, v), TakesRoot(f, y, r, x)
  PROVE  LeastPlace(PairPlaces(y, r, x), WeightsAt(c, f), -r) /\ WeightsAt(c, f)[-r] = f[r]
<1>1. /\ m \in Nat /\ c \in [0..(m - 1) -> Nat]
      /\ \A a, b \in 0..(m - 1) : a <= b => c[b] <= c[a]
      /\ f \in [0..(m - 1) -> Nat]
      /\ y \in -1..(m - 1) /\ r \in 0..(m - 1) /\ x \in 0..(m - 1) /\ x < r
      /\ y >= 0 => f[r] < f[y]
  BY DEF ArrayAt, Descending, TakesRoot
<1>2. /\ \A k \in 0..y : f[k] = c[k]
      /\ \A k, l \in (x + 1)..r : k <= l => f[l] <= f[k]
  BY DEF Queued
<1>3. PICK e : e = WeightsAt(c, f)
  OBVIOUS
<1>4. \A k \in Int : e[k] = IF k >= 0 THEN c[k] ELSE f[-k]
  BY <1>3 DEF WeightsAt
<1>5. -r \in PairPlaces(y, r, x) /\ e[-r] = f[r]
  <2>1. -r \in Int /\ ~(-r >= 0) /\ -(-r) = r /\ -r \in (-r)..(-(x + 1))
    BY <1>1
  <2>2. QED BY <1>4, <2>1 DEF PairPlaces
<1>6. ASSUME NEW k \in 0..y PROVE f[r] <= e[k]
  <2>1. k \in Int /\ k >= 0 /\ y >= 0 /\ k \in 0..(m - 1) /\ y \in 0..(m - 1) /\ k <= y
    BY <1>1
  <2>2. e[k] = c[k] /\ f[y] = c[y] /\ c[y] <= c[k] /\ f[r] < f[y]
    BY <1>1, <1>2, <1>4, <2>1
  <2>3. f[r] \in Nat /\ c[y] \in Nat /\ c[k] \in Nat
    BY <1>1, <2>1
  <2>4. QED BY <2>2, <2>3
<1>7. ASSUME NEW k \in (-r)..(-(x + 1)) PROVE f[r] <= e[k]
  <2>1. k \in Int /\ ~(k >= 0) /\ -k \in (x + 1)..r /\ -k <= r /\ r \in (x + 1)..r
    BY <1>1
  <2>2. QED BY <1>2, <1>4, <2>1
<1>8. QED BY <1>3, <1>5, <1>6, <1>7 DEF LeastPlace, PairPlaces

\* ... and so is a leaf.
LEMMA LightestLeaf ==
  ASSUME NEW m, NEW c, NEW f, NEW y, NEW r, NEW x, NEW v, ArrayAt(m, c, f, y, r, x),
         Queued(m, c, f, y, r, x, v), TakesLeaf(f, y, r, x)
  PROVE  LeastPlace(PairPlaces(y, r, x), WeightsAt(c, f), y) /\ WeightsAt(c, f)[y] = f[y]
<1>1. /\ m \in Nat /\ c \in [0..(m - 1) -> Nat]
      /\ \A a, b \in 0..(m - 1) : a <= b => c[b] <= c[a]
      /\ f \in [0..(m - 1) -> Nat]
      /\ y \in 0..(m - 1) /\ r \in 0..(m - 1) /\ x \in 0..(m - 1) /\ x <= r
      /\ x < r => f[y] <= f[r]
  BY DEF ArrayAt, Descending, TakesLeaf
<1>2. /\ \A k \in 0..y : f[k] = c[k]
      /\ \A k, l \in (x + 1)..r : k <= l => f[l] <= f[k]
  BY DEF Queued
<1>3. PICK e : e = WeightsAt(c, f)
  OBVIOUS
<1>4. \A k \in Int : e[k] = IF k >= 0 THEN c[k] ELSE f[-k]
  BY <1>3 DEF WeightsAt
<1>5. y \in PairPlaces(y, r, x) /\ e[y] = f[y] /\ f[y] = c[y]
  <2>1. y \in Int /\ y >= 0 /\ y \in 0..y
    BY <1>1
  <2>2. QED BY <1>2, <1>4, <2>1 DEF PairPlaces
<1>6. ASSUME NEW k \in 0..y PROVE f[y] <= e[k]
  <2>1. k \in Int /\ k >= 0 /\ k \in 0..(m - 1) /\ k <= y
    BY <1>1
  <2>2. QED BY <1>1, <1>4, <1>5, <2>1
<1>7. ASSUME NEW k \in (-r)..(-(x + 1)) PROVE f[y] <= e[k]
  <2>1. k \in Int /\ ~(k >= 0) /\ -k \in (x + 1)..r /\ -k <= r /\ r \in (x + 1)..r /\ x < r
    BY <1>1
  <2>2. e[k] = f[-k] /\ f[r] <= f[-k] /\ f[y] <= f[r]
    BY <1>1, <1>2, <1>4, <2>1
  <2>3. f[y] \in Nat /\ f[r] \in Nat /\ f[-k] \in Nat
    <3>1. -k \in 0..(m - 1)
      BY <1>1, <2>1
    <3>2. QED BY <1>1, <3>1
  <2>4. QED BY <2>2, <2>3
<1>8. QED BY <1>3, <1>5, <1>6, <1>7 DEF LeastPlace, PairPlaces

\* z is the weight of what is taken.
Least(c, f, y, r, x, v, z) ==
  /\ z \in Nat /\ v <= z
  /\ \A k \in 0..y : z <= c[k]
  /\ \A k \in (x + 1)..r : z <= f[k]

\* What is taken weighs no less than the nodes that were paired before.
LEMMA LeastWeight ==
  ASSUME NEW m, NEW c, NEW f, NEW y, NEW r, NEW x, NEW v, ArrayAt(m, c, f, y, r, x),
         Queued(m, c, f, y, r, x, v), NEW q, LeastPlace(PairPlaces(y, r, x), WeightsAt(c, f), q),
         NEW z, z = WeightsAt(c, f)[q]
  PROVE  Least(c, f, y, r, x, v, z)
<1>1. /\ m \in Nat /\ c \in [0..(m - 1) -> Nat] /\ f \in [0..(m - 1) -> Nat]
      /\ y \in -1..(m - 1) /\ r \in 0..(m - 1) /\ x \in 0..(m - 1) /\ x <= r
  BY DEF ArrayAt, Descending
<1>2. /\ v \in Nat /\ \A k \in 0..y : v <= c[k]
      /\ \A k \in (x + 1)..r : v <= f[k]
  BY DEF Queued
<1>3. PICK e : e = WeightsAt(c, f)
  OBVIOUS
<1>4. \A k \in Int : e[k] = IF k >= 0 THEN c[k] ELSE f[-k]
  BY <1>3 DEF WeightsAt
<1>5. \A k \in 0..y : k \in PairPlaces(y, r, x) /\ e[k] = c[k] /\ c[k] \in Nat
  <2>1. ASSUME NEW k \in 0..y PROVE k \in PairPlaces(y, r, x) /\ e[k] = c[k] /\ c[k] \in Nat
    <3>1. k \in Int /\ k >= 0 /\ k \in 0..(m - 1)
      BY <1>1
    <3>2. QED BY <1>1, <1>4, <3>1 DEF PairPlaces
  <2>2. QED BY <2>1
<1>6. \A k \in (x + 1)..r : -k \in PairPlaces(y, r, x) /\ e[-k] = f[k] /\ f[k] \in Nat
  <2>1. ASSUME NEW k \in (x + 1)..r PROVE -k \in PairPlaces(y, r, x) /\ e[-k] = f[k] /\ f[k] \in Nat
    <3>1. /\ -k \in Int /\ ~(-k >= 0) /\ -(-k) = k /\ k \in 0..(m - 1)
          /\ -k \in (-r)..(-(x + 1))
      BY <1>1
    <3>2. QED BY <1>1, <1>4, <3>1 DEF PairPlaces
  <2>2. QED BY <2>1
<1>7. q \in PairPlaces(y, r, x) /\ \A k \in PairPlaces(y, r, x) : z <= e[k]
  BY <1>3 DEF LeastPlace
<1>8. z \in Nat /\ v <= z
  <2>1. CASE q \in 0..y
    BY <1>2, <1>3, <1>5, <2>1
  <2>2. CASE q \in (-r)..(-(x + 1))
    <3>1. -q \in (x + 1)..r /\ -(-q) = q
      BY <1>1, <2>2
    <3>2. e[q] = f[-q] /\ f[-q] \in Nat
      BY <1>6, <3>1
    <3>3. QED BY <1>2, <1>3, <3>1, <3>2
  <2>3. QED BY <1>7, <2>1, <2>2 DEF PairPlaces
<1>9. \A k \in 0..y : z <= c[k]
  BY <1>5, <1>7
<1>10. \A k \in (x + 1)..r : z <= f[k]
  BY <1>6, <1>7
<1>11. QED BY <1>8, <1>9, <1>10 DEF Least

\* What is left when the first node of a pair is taken.
LEMMA QueueAfter ==
  ASSUME NEW m, NEW c, NEW f, NEW y, NEW r, NEW x, NEW v, ArrayAt(m, c, f, y, r, x),
         Queued(m, c, f, y, r, x, v), NEW z, Least(c, f, y, r, x, v, z),
         NEW g, NEW b \in Int, b <= y, NEW d \in Int, d <= r,
         \A k \in 0..b : g[k] = f[k], \A k \in (x + 1)..d : g[k] = f[k]
  PROVE  Queued(m, c, g, b, d, x, z)
<1>1. /\ m \in Nat /\ f \in [0..(m - 1) -> Nat]
      /\ y \in -1..(m - 1) /\ r \in 0..(m - 1) /\ x \in 0..(m - 1) /\ x <= r
  BY DEF ArrayAt
<1>2. /\ v \in Nat /\ \A k \in 0..y : f[k] = c[k]
      /\ \A k, l \in (x + 1)..r : k <= l => f[l] <= f[k]
      /\ x < r => f[x + 1] <= 2 * v
  BY DEF Queued
<1>3. /\ z \in Nat /\ v <= z /\ \A k \in 0..y : z <= c[k]
      /\ \A k \in (x + 1)..r : z <= f[k]
  BY DEF Least
<1>4. /\ \A k \in 0..b : k \in 0..y
      /\ \A k \in (x + 1)..d : k \in (x + 1)..r
  BY <1>1
<1>5. x < d => g[x + 1] <= 2 * z
  <2>1. SUFFICES ASSUME x < d PROVE g[x + 1] <= 2 * z
    OBVIOUS
  <2>2. x < r /\ x + 1 \in (x + 1)..d /\ x + 1 \in 0..(m - 1)
    BY <1>1, <2>1
  <2>3. g[x + 1] = f[x + 1] /\ f[x + 1] \in Nat /\ f[x + 1] <= 2 * v
    BY <1>1, <1>2, <2>2
  <2>4. QED BY <1>2, <1>3, <2>3
<1>6. \A k \in 0..b : g[k] = c[k] /\ z <= c[k]
  BY <1>2, <1>3, <1>4
<1>7. \A k \in (x + 1)..d : z <= g[k]
  BY <1>3, <1>4
<1>8. \A k, l \in (x + 1)..d : k <= l => g[l] <= g[k]
  BY <1>2, <1>4
<1>9. QED BY <1>3, <1>5, <1>6, <1>7, <1>8 DEF Queued

\* What is left when they both are, with the new node.
LEMMA QueueNew ==
  ASSUME NEW m, NEW c, NEW f, NEW y, NEW r, NEW x, NEW v, ArrayAt(m, c, f, y, r, x),
         Queued(m, c, f, y, r, x, v), NEW z, Least(c, f, y, r, x, v, z),
         NEW g, NEW b \in Int, b <= y, NEW d \in Int, d <= r,
         \A k \in 0..b : g[k] = f[k], \A k \in (x + 1)..d : g[k] = f[k],
         g[x] = v + z, NEW o, o = x - 1
  PROVE  Queued(m, c, g, b, d, o, z)
<1>1. /\ m \in Nat /\ f \in [0..(m - 1) -> Nat]
      /\ y \in -1..(m - 1) /\ r \in 0..(m - 1) /\ x \in 0..(m - 1) /\ x <= r
  BY DEF ArrayAt
<1>2. v \in Nat /\ z \in Nat /\ v <= z
  BY DEF Queued, Least
<1>3. /\ \A k \in (x + 1)..r : f[k] \in Nat
      /\ \A k, l \in (x + 1)..r : k <= l => f[l] <= f[k]
      /\ x < r => f[x + 1] <= 2 * v
  <2>1. \A k \in (x + 1)..r : k \in 0..(m - 1)
    BY <1>1
  <2>2. QED BY <1>1, <2>1 DEF Queued
<1>4. /\ \A k \in 0..b : g[k] = c[k] /\ z <= c[k]
      /\ \A k \in (x + 1)..d : z <= g[k]
      /\ \A k, l \in (x + 1)..d : k <= l => g[l] <= g[k]
  <2>1. Queued(m, c, g, b, d, x, z)
    BY QueueAfter
  <2>2. QED BY <2>1 DEF Queued
<1>5. o + 1 = x /\ g[x] \in Nat /\ z <= g[x] /\ g[x] <= 2 * z
  BY <1>1, <1>2
<1>6. \A k \in x..d : k = x \/ k \in (x + 1)..d
  BY <1>1
<1>7. ASSUME NEW l \in (x + 1)..d PROVE g[l] <= g[x]
  <2>1. x < r /\ l \in (x + 1)..r /\ x + 1 \in (x + 1)..r /\ x + 1 <= l
    BY <1>1
  <2>2. f[l] <= f[x + 1] /\ f[x + 1] <= 2 * v /\ f[l] \in Nat /\ f[x + 1] \in Nat /\ g[l] = f[l]
    BY <1>3, <2>1
  <2>3. QED BY <1>2, <2>2
<1>8. ASSUME NEW k \in x..d, NEW l \in x..d, k <= l PROVE g[l] <= g[k]
  <2>1. CASE k = x /\ l = x
    BY <1>5, <2>1
  <2>2. CASE k = x /\ l # x
    <3>1. l \in (x + 1)..d
      BY <1>6, <2>2
    <3>2. QED BY <1>7, <2>2, <3>1
  <2>3. CASE k # x
    <3>1. k \in (x + 1)..d /\ l \in (x + 1)..d
      BY <1>1, <1>8, <2>3
    <3>2. QED BY <1>4, <1>8, <3>1
  <2>4. QED BY <2>1, <2>2, <2>3
<1>9. \A k \in x..d : z <= g[k]
  BY <1>4, <1>5, <1>6
<1>10. /\ \A k \in (o + 1)..d : z <= g[k]
       /\ \A k, l \in (o + 1)..d : k <= l => g[l] <= g[k]
       /\ o < d => g[o + 1] <= 2 * z
  BY <1>5, <1>8, <1>9
<1>11. QED BY <1>2, <1>4, <1>10 DEF Queued

-----------------------------------------------------------------------------
(***************************************************************************)
(* Sums.  T[k] is the weight of the leaves from k on, S[k] that of the     *)
(* inner nodes behind k.                                                   *)
(***************************************************************************)
\* T has the weights of leaves, S those of inner nodes.
LeafSums(m, c, T) ==
  T \in [0..m -> Nat] /\ T[m] = 0 /\ \A k \in 0..(m - 1) : T[k] = T[k + 1] + c[k]

Inners(m, f, r, x, S) ==
  S \in [0..(m - 1) -> Nat] /\ S[m - 1] = 0 /\ \A k \in (x + 1)..r : S[k - 1] = S[k] + f[k]

\* Where the inner nodes behind k have all those behind z as children, and no
\* other, they weigh as much as these and the leaves behind 2 * k - z.
Balanced(m, f, r, x, S, T) ==
  \A k \in x..(m - 1), z \in r..(m - 1) :
    /\ \A q \in (r + 1)..z : f[q] <= k
    /\ \A q \in (z + 1)..(m - 1) : k < f[q]
    => S[k] = T[2 * k - z + 1] + S[z]

LEMMA BalanceSame ==
  ASSUME NEW m, NEW f, NEW r, NEW x, NEW S, NEW T, Balanced(m, f, r, x, S, T),
         NEW g, m \in Nat, r \in Nat, \A k \in (r + 1)..(m - 1) : g[k] = f[k]
  PROVE  Balanced(m, g, r, x, S, T)
<1>1. ASSUME NEW k \in x..(m - 1), NEW z \in r..(m - 1),
             \A q \in (r + 1)..z : g[q] <= k, \A q \in (z + 1)..(m - 1) : k < g[q]
      PROVE  S[k] = T[2 * k - z + 1] + S[z]
  <2>1. \A q \in (r + 1)..z : f[q] <= k
    <3>1. \A q \in (r + 1)..z : q \in (r + 1)..(m - 1)
      OBVIOUS
    <3>2. QED BY <1>1, <3>1
  <2>2. \A q \in (z + 1)..(m - 1) : k < f[q]
    <3>1. \A q \in (z + 1)..(m - 1) : q \in (r + 1)..(m - 1)
      OBVIOUS
    <3>2. QED BY <1>1, <3>1
  <2>3. QED BY <2>1, <2>2 DEF Balanced
<1>2. QED BY <1>1 DEF Balanced

\* One more node learns its parent.
LEMMA BalanceLink ==
  ASSUME NEW m, NEW f, NEW r, NEW x, NEW S, NEW T, Balanced(m, f, r, x, S, T),
         NEW g, m \in Nat, r \in Nat, x \in Nat, r < m, \A k \in (r + 1)..(m - 1) : g[k] = f[k],
         g[r] = x, NEW d, d = r - 1
  PROVE  Balanced(m, g, d, x, S, T)
<1>1. ASSUME NEW k \in x..(m - 1), NEW z \in d..(m - 1),
             \A q \in (d + 1)..z : g[q] <= k, \A q \in (z + 1)..(m - 1) : k < g[q]
      PROVE  S[k] = T[2 * k - z + 1] + S[z]
  <2>1. z # d
    <3>1. SUFFICES ASSUME z = d PROVE FALSE
      OBVIOUS
    <3>2. r \in (z + 1)..(m - 1)
      BY <3>1
    <3>3. k < g[r]
      BY <1>1, <3>2
    <3>4. QED BY <3>3
  <2>2. z \in r..(m - 1)
    BY <2>1
  <2>3. \A q \in (r + 1)..z : g[q] <= k
    <3>1. \A q \in (r + 1)..z : q \in (d + 1)..z
      OBVIOUS
    <3>2. QED BY <1>1, <3>1
  <2>4. Balanced(m, g, r, x, S, T)
    BY BalanceSame
  <2>5. QED BY <1>1, <2>2, <2>3, <2>4 DEF Balanced
<1>2. QED BY <1>1 DEF Balanced

\* One more pair is made.
LEMMA BalanceMore ==
  ASSUME NEW m, NEW f, NEW r, NEW x, NEW S, NEW T, Balanced(m, f, r, x, S, T),
         m \in Nat, r \in Nat, x \in Nat \ {0}, x <= r, r < m,
         \A q \in (r + 1)..(m - 1) : x <= f[q] /\ f[q] \in Nat,
         S \in [0..(m - 1) -> Nat], NEW s \in Nat, NEW R, R = [S EXCEPT ![x - 1] = s],
         s = T[2 * (x - 1) - r + 1] + S[r], NEW o, o = x - 1
  PROVE  Balanced(m, f, r, o, R, T)
<1>1. R[o] = s /\ \A k \in x..(m - 1) : R[k] = S[k]
  BY Z3
<1>2. ASSUME NEW k \in o..(m - 1), NEW z \in r..(m - 1),
             \A q \in (r + 1)..z : f[q] <= k, \A q \in (z + 1)..(m - 1) : k < f[q]
      PROVE  R[k] = T[2 * k - z + 1] + R[z]
  <2>1. z \in x..(m - 1) /\ R[z] = S[z]
    BY <1>1
  <2>2. CASE k = o
    <3>1. z = r
      <4>1. SUFFICES ASSUME z # r PROVE FALSE
        OBVIOUS
      <4>2. r + 1 \in (r + 1)..z /\ r + 1 \in (r + 1)..(m - 1)
        BY <4>1
      <4>3. f[r + 1] <= k /\ x <= f[r + 1] /\ f[r + 1] \in Nat
        BY <1>2, <4>2
      <4>4. QED BY <2>2, <4>3
    <3>2. QED BY <1>1, <2>1, <2>2, <3>1
  <2>3. CASE k # o
    <3>1. k \in x..(m - 1)
      BY <2>3
    <3>2. S[k] = T[2 * k - z + 1] + S[z]
      BY <1>2, <3>1 DEF Balanced
    <3>3. QED BY <1>1, <2>1, <3>1, <3>2
  <2>4. QED BY <2>2, <2>3
<1>3. QED BY <1>2 DEF Balanced

\* So its weight is known.
InnersThen(m, g, d, o, R, S, x, s) ==
  Inners(m, g, d, o, R) /\ R[o] = s /\ \A k \in x..(m - 1) : R[k] = S[k]

LEMMA InnersMore ==
  ASSUME NEW m \in Nat, NEW f, NEW r \in Nat, NEW x \in Nat \ {0}, x <= r, r < m, NEW S,
         Inners(m, f, r, x, S), NEW g, NEW d \in Nat, d <= r, \A k \in (x + 1)..d : g[k] = f[k],
         NEW s \in Nat, s = S[x] + g[x], NEW R, R = [S EXCEPT ![x - 1] = s], NEW o, o = x - 1
  PROVE  InnersThen(m, g, d, o, R, S, x, s)
<1>1. S \in [0..(m - 1) -> Nat] /\ S[m - 1] = 0 /\ \A k \in (x + 1)..r : S[k - 1] = S[k] + f[k]
  BY DEF Inners
<1>2. R[o] = s /\ (\A k \in x..(m - 1) : R[k] = S[k]) /\ R \in [0..(m - 1) -> Nat]
  BY <1>1
<1>3. R[m - 1] = 0
  <2>1. m - 1 \in x..(m - 1)
    OBVIOUS
  <2>2. QED BY <1>1, <1>2, <2>1
<1>4. ASSUME NEW k \in (o + 1)..d PROVE R[k - 1] = R[k] + g[k]
  <2>1. CASE k = x
    <3>1. k - 1 = o /\ x \in x..(m - 1)
      BY <2>1
    <3>2. QED BY <1>2, <2>1, <3>1
  <2>2. CASE k # x
    <3>1. k \in (x + 1)..d /\ k \in (x + 1)..r /\ k - 1 \in x..(m - 1) /\ k \in x..(m - 1)
      BY <2>2
    <3>2. QED BY <1>1, <1>2, <3>1
  <2>3. QED BY <2>1, <2>2
<1>5. QED BY <1>2, <1>3, <1>4 DEF Inners, InnersThen

\* The places when an inner node, or a leaf, is taken and when a node is made.
LEMMA RootTaken ==
  ASSUME NEW y \in Int, NEW r \in Nat, NEW x \in Nat, x < r, NEW d, d = r - 1
  PROVE  PairPlaces(y, r, x) \ {-r} = PairPlaces(y, d, x)
<1>1. d \in Nat /\ -r \in Int /\ -d \in Int /\ -(x + 1) \in Int
  OBVIOUS
<1>2. \A k \in Int : k \in (-r)..(-(x + 1)) /\ k # -r <=> k \in (-d)..(-(x + 1))
  OBVIOUS
<1>3. -r \notin 0..y
  OBVIOUS
<1>4. QED BY <1>2, <1>3 DEF PairPlaces

LEMMA LeafTaken ==
  ASSUME NEW y \in Nat, NEW r \in Nat, NEW x \in Nat, NEW b, b = y - 1
  PROVE  PairPlaces(y, r, x) \ {y} = PairPlaces(b, r, x)
<1>1. \A k \in Int : k \in 0..y /\ k # y <=> k \in 0..b
  OBVIOUS
<1>2. y \notin (-r)..(-(x + 1))
  OBVIOUS
<1>3. QED BY <1>1, <1>2 DEF PairPlaces

LEMMA NodeMade ==
  ASSUME NEW y \in Int, NEW r \in Nat, NEW x \in Nat \ {0}, x <= r, NEW z, z = x - 1
  PROVE  /\ -x \notin PairPlaces(y, r, x)
         /\ PairPlaces(y, r, x) \cup {-x} = PairPlaces(y, r, z)
<1>1. \A k \in Int : k \in (-r)..(-(x + 1)) \/ k = -x <=> k \in (-r)..(-(z + 1))
  OBVIOUS
<1>2. -x \notin 0..y /\ -x \notin (-r)..(-(x + 1)) /\ -x \in Int
  OBVIOUS
<1>3. QED BY <1>1, <1>2 DEF PairPlaces

\* One state more of the reference.
LEMMA StatesMore ==
  ASSUME NEW h, NEW o, NEW z \in Nat, States(h, o, z), NEW k, k = z + 1
  PROVE  \E g : States(g, o, k) /\ g[k] = MergedOnce(h[z], k)
<1>1. PICK g : g = [q \in 0..k |-> IF q = k THEN MergedOnce(h[z], k) ELSE h[q]]
  OBVIOUS
<1>2. g[k] = MergedOnce(h[z], k) /\ \A q \in 0..z : g[q] = h[q]
  BY <1>1
<1>3. g[0] = o
  BY <1>2 DEF States
<1>4. ASSUME NEW q \in 1..k PROVE g[q] = MergedOnce(g[q - 1], q)
  <2>1. CASE q = k
    <3>1. q - 1 = z /\ z \in 0..z
      BY <2>1
    <3>2. QED BY <1>2, <2>1, <3>1
  <2>2. CASE q # k
    <3>1. q \in 1..z /\ q \in 0..z /\ q - 1 \in 0..z
      BY <2>2
    <3>2. QED BY <1>2, <3>1 DEF States
  <2>3. QED BY <2>1, <2>2
<1>5. States(g, o, k)
  BY <1>3, <1>4 DEF States
<1>6. QED BY <1>2, <1>5

\* Weights that do not change.
AgreeOn(I, e, g) == \A k \in I : g[k] = e[k]

\* A state of the reference that has merged weights of k in all, and whose nodes
\* are paired off with the places I; in its next step it has taken one of weight s.
Mirrors(st, z, k, I, e) ==
  st.cost = k /\ NodesAbove(st.nodes, z) /\ Matched(I, e, st.nodes)

MirrorsHalf(st, z, k, s, I, e) ==
  /\ st.cost = k /\ NodesAbove(st.nodes, z)
  /\ LightestOf(st.nodes) \in st.nodes /\ LightestOf(st.nodes)[1] = s
  /\ Matched(I, e, st.nodes \ {LightestOf(st.nodes)})

\* The reference takes the same weight first, and second.
LEMMA FirstMirror ==
  ASSUME NEW st, NEW z, NEW k, NEW I, NEW e, Mirrors(st, z, k, I, e),
         NEW q, LeastPlace(I, e, q), NEW J, J = I \ {q}, NEW g, AgreeOn(J, e, g)
  PROVE  MirrorsHalf(st, z, k, e[q], J, g)
<1>1. st.cost = k /\ NodesAbove(st.nodes, z) /\ Matched(I, e, st.nodes)
  BY DEF Mirrors
<1>2. PICK N : N = st.nodes
  OBVIOUS
<1>3. PICK a : a = LightestOf(N)
  OBVIOUS
<1>4. a[1] = e[q] /\ Matched(J, e, N \ {a})
  BY <1>1, <1>2, <1>3, MirrorFirst
<1>5. a \in N
  <2>1. I # {}
    BY DEF LeastPlace
  <2>2. N # {}
    BY <1>1, <1>2, <2>1, SameMatched
  <2>3. Lightest(N, a)
    BY <1>1, <1>2, <1>3, <2>2, LightestExists
  <2>4. QED BY <2>3 DEF Lightest
<1>6. Matched(J, g, N \ {a})
  BY <1>4, SameMatched DEF AgreeOn
<1>7. QED BY <1>1, <1>2, <1>3, <1>4, <1>5, <1>6 DEF MirrorsHalf

LEMMA SecondMirror ==
  ASSUME NEW st, NEW z, NEW k \in Nat, NEW s, NEW I, NEW e, MirrorsHalf(st, z, k, s, I, e),
         NEW q, LeastPlace(I, e, q), NEW v \in Nat, v = s + e[q],
         NEW o, o \notin I, NEW g, AgreeOn(I \ {q}, e, g), g[o] = v
  PROVE  Mirrors(MergedOnce(st, z + 1), z + 1, k + v, (I \ {q}) \cup {o}, g)
<1>1. PICK a : a = LightestOf(st.nodes)
  OBVIOUS
<1>2. /\ st.cost = k /\ NodesAbove(st.nodes, z) /\ a \in st.nodes /\ a[1] = s
      /\ Matched(I, e, st.nodes \ {a})
  BY <1>1 DEF MirrorsHalf
<1>3. v = a[1] + e[q] /\ st.cost \in Nat
  BY <1>2
<1>4. MirrorsMerge(st, MergedOnce(st, z + 1), z, v, (I \ {q}) \cup {o}, g)
  BY <1>1, <1>2, <1>3, MirrorSecond DEF AgreeOn
<1>5. QED BY <1>2, <1>4 DEF MirrorsMerge, Mirrors

-----------------------------------------------------------------------------
(***************************************************************************)
(* Pairs.                                                                  *)
(***************************************************************************)
\* What is known of the array before either node of a pair is taken.
Sums(m, c, f, y, r, x, S, T) ==
  /\ ArrayAt(m, c, f, y, r, x) /\ LeafSums(m, c, T) /\ Inners(m, f, r, x, S)
  /\ Balanced(m, f, r, x, S, T)

\* The states of the reference up to the one with an inner node for each of the
\* array.
PairsFirst(m, c, o, f, y, r, x, S, T, v, h) ==
  /\ Sums(m, c, f, y, r, x, S, T) /\ Queued(m, c, f, y, r, x, v)
  /\ S[x] = T[y + 1] + S[r] /\ States(h, o, m - 1 - x)
  /\ Mirrors(h[m - 1 - x], m - 1 - x, S[x], PairPlaces(y, r, x), WeightsAt(c, f))

\* The same when one of them is: its weight is that of node x so far.
PairsSecond(m, c, o, f, y, r, x, S, T, h) ==
  /\ Sums(m, c, f, y, r, x, S, T) /\ Queued(m, c, f, y, r, x, f[x])
  /\ S[x] + f[x] = T[y + 1] + S[r] /\ States(h, o, m - 1 - x)
  /\ MirrorsHalf(h[m - 1 - x], m - 1 - x, S[x], f[x], PairPlaces(y, r, x), WeightsAt(c, f))

\* Weights of places that do not change.
LEMMA SameWeights ==
  ASSUME NEW c, NEW f, NEW g, NEW y \in Int, NEW r \in Nat, NEW x \in Nat,
         \A k \in (x + 1)..r : g[k] = f[k]
  PROVE  AgreeOn(PairPlaces(y, r, x), WeightsAt(c, f), WeightsAt(c, g))
<1>1. ASSUME NEW k \in 0..y PROVE WeightsAt(c, g)[k] = WeightsAt(c, f)[k]
  BY DEF WeightsAt
<1>2. ASSUME NEW k \in (-r)..(-(x + 1)) PROVE WeightsAt(c, g)[k] = WeightsAt(c, f)[k]
  <2>1. -k \in (x + 1)..r /\ k \in Int
    OBVIOUS
  <2>2. QED BY <2>1 DEF WeightsAt
<1>3. QED BY <1>1, <1>2 DEF PairPlaces, AgreeOn

\* The types of what the steps use.
LEMMA SumsFacts ==
  ASSUME NEW m, NEW c, NEW f, NEW y, NEW r, NEW x, NEW S, NEW T,
         Sums(m, c, f, y, r, x, S, T)
  PROVE  /\ m \in Nat /\ f \in [0..(m - 1) -> Nat] /\ c \in [0..(m - 1) -> Nat]
         /\ y \in -1..(m - 1) /\ r \in 0..(m - 1) /\ x \in 0..(m - 1) /\ x <= r
         /\ S \in [0..(m - 1) -> Nat] /\ T \in [0..m -> Nat]
         /\ ArrayAt(m, c, f, y, r, x) /\ LeafSums(m, c, T) /\ Inners(m, f, r, x, S)
         /\ Balanced(m, f, r, x, S, T) /\ Descending(m, c)
BY DEF Sums, ArrayAt, Descending, LeafSums, Inners

\* What an array is after one number, or two, have changed.
AlteredAt(m, f, g, K) == g \in [0..(m - 1) -> Nat] /\ \A k \in 0..(m - 1) : k \notin K => g[k] = f[k]

AltersOne(m, f, g, x, s) == AlteredAt(m, f, g, {x}) /\ g[x] = s

\* Such arrays keep what they do not change.
LEMMA AlteredOne ==
  ASSUME NEW m \in Nat, NEW f \in [0..(m - 1) -> Nat], NEW x \in 0..(m - 1), NEW s \in Nat,
         NEW g, g = [f EXCEPT ![x] = s]
  PROVE  AltersOne(m, f, g, x, s)
BY DEF AlteredAt, AltersOne

AltersTwo(m, f, g, x, s, r) == AlteredAt(m, f, g, {x, r}) /\ g[x] = s /\ g[r] = x

LEMMA AlteredTwo ==
  ASSUME NEW m \in Nat, NEW f \in [0..(m - 1) -> Nat], NEW x \in 0..(m - 1), NEW s \in Nat,
         NEW r \in 0..(m - 1), x < r, NEW g, g = [f EXCEPT ![x] = s, ![r] = x]
  PROVE  AltersTwo(m, f, g, x, s, r)
<1>1. x \in Nat /\ x # r
  OBVIOUS
<1>2. QED BY <1>1 DEF AlteredAt, AltersTwo

\* Leaves 0..b and inner nodes x+1..d, and the nodes behind r, are as they were.
KeptBetween(m, f, g, b, x, d, r) ==
  /\ \A k \in 0..b : g[k] = f[k]
  /\ \A k \in (x + 1)..d : g[k] = f[k]
  /\ \A k \in (r + 1)..(m - 1) : g[k] = f[k]

\* The steps that take an inner node, or a leaf, change no other.
LEMMA KeptRoot ==
  ASSUME NEW m \in Nat, NEW f, NEW g, NEW x \in 0..(m - 1), NEW r \in 0..(m - 1), x < r,
         AlteredAt(m, f, g, {x, r}), NEW y \in Int, y < x, NEW d, d = r - 1
  PROVE  KeptBetween(m, f, g, y, x, d, r)
<1>1. \A k \in 0..y : k \in 0..(m - 1) /\ k \notin {x, r}
  OBVIOUS
<1>2. \A k \in (x + 1)..d : k \in 0..(m - 1) /\ k \notin {x, r}
  OBVIOUS
<1>3. \A k \in (r + 1)..(m - 1) : k \in 0..(m - 1) /\ k \notin {x, r}
  OBVIOUS
<1>4. QED BY <1>1, <1>2, <1>3 DEF AlteredAt, KeptBetween

LEMMA KeptLeaf ==
  ASSUME NEW m \in Nat, NEW f, NEW g, NEW x \in 0..(m - 1), NEW r \in 0..(m - 1), x <= r,
         AlteredAt(m, f, g, {x}), NEW b \in Int, b < x
  PROVE  KeptBetween(m, f, g, b, x, r, r)
<1>1. \A k \in 0..b : k \in 0..(m - 1) /\ k \notin {x}
  OBVIOUS
<1>2. \A k \in (x + 1)..r : k \in 0..(m - 1) /\ k \notin {x}
  OBVIOUS
<1>3. \A k \in (r + 1)..(m - 1) : k \in 0..(m - 1) /\ k \notin {x}
  OBVIOUS
<1>4. QED BY <1>1, <1>2, <1>3 DEF AlteredAt, KeptBetween

\* An inner node is taken as the first of a pair.
LEMMA FirstRoot ==
  ASSUME NEW m, NEW c, NEW o, NEW f, NEW y, NEW r, NEW x, NEW S, NEW T, NEW v, NEW h,
         PairsFirst(m, c, o, f, y, r, x, S, T, v, h), TakesRoot(f, y, r, x),
         y + r = 2 * x, 1 <= x,
         NEW g, g = [f EXCEPT ![x] = f[r], ![r] = x], NEW d, d = r - 1
  PROVE  PairsSecond(m, c, o, g, y, d, x, S, T, h)
<1>1. /\ Sums(m, c, f, y, r, x, S, T) /\ Queued(m, c, f, y, r, x, v)
      /\ S[x] = T[y + 1] + S[r] /\ States(h, o, m - 1 - x)
      /\ Mirrors(h[m - 1 - x], m - 1 - x, S[x], PairPlaces(y, r, x), WeightsAt(c, f))
  BY DEF PairsFirst
<1>2. /\ m \in Nat /\ f \in [0..(m - 1) -> Nat]
      /\ y \in -1..(m - 1) /\ r \in 0..(m - 1) /\ x \in 0..(m - 1)
      /\ S \in [0..(m - 1) -> Nat] /\ T \in [0..m -> Nat]
  BY <1>1, SumsFacts
<1>3. /\ ArrayAt(m, c, f, y, r, x) /\ LeafSums(m, c, T) /\ Inners(m, f, r, x, S)
      /\ Balanced(m, f, r, x, S, T) /\ Descending(m, c)
  BY <1>1, SumsFacts
<1>4. /\ x < r /\ d \in 0..(m - 1) /\ x <= d /\ y < x /\ r < m
      /\ y \in Int /\ d \in Int /\ d \in Nat /\ r \in Nat /\ x \in Nat /\ d <= r /\ y <= y
      /\ f[r] \in Nat
  BY <1>2 DEF TakesRoot
<1>5. AlteredAt(m, f, g, {x, r}) /\ g[x] = f[r] /\ g[r] = x
  <2>1. AltersTwo(m, f, g, x, f[r], r)
    BY <1>2, <1>4, AlteredTwo
  <2>2. QED BY <2>1 DEF AltersTwo
<1>6. KeptBetween(m, f, g, y, x, d, r)
  BY <1>2, <1>4, <1>5, KeptRoot
<1>7. /\ \A k \in 0..y : g[k] = f[k]
      /\ \A k \in (x + 1)..d : g[k] = f[k]
      /\ \A k \in (r + 1)..(m - 1) : g[k] = f[k]
  BY <1>6 DEF KeptBetween
<1>8. /\ LeastPlace(PairPlaces(y, r, x), WeightsAt(c, f), -r)
      /\ WeightsAt(c, f)[-r] = f[r]
  BY ONLY <1>1, <1>3, TakesRoot(f, y, r, x), LightestRoot
<1>9. Least(c, f, y, r, x, v, WeightsAt(c, f)[-r])
  BY ONLY <1>1, <1>3, <1>8, LeastWeight
<1>10. Queued(m, c, g, y, d, x, WeightsAt(c, f)[-r])
  BY ONLY <1>1, <1>3, <1>4, <1>7, <1>9, QueueAfter
<1>11. Queued(m, c, g, y, d, x, g[x])
  BY ONLY <1>5, <1>8, <1>10
<1>12. PairPlaces(y, d, x) = PairPlaces(y, r, x) \ {-r}
  BY ONLY <1>4, d = r - 1, RootTaken
<1>13. AgreeOn(PairPlaces(y, d, x), WeightsAt(c, f), WeightsAt(c, g))
  BY ONLY <1>4, <1>7, SameWeights
<1>14. MirrorsHalf(h[m - 1 - x], m - 1 - x, S[x], WeightsAt(c, f)[-r], PairPlaces(y, d, x), WeightsAt(c, g))
  BY ONLY <1>1, <1>8, <1>12, <1>13, FirstMirror
<1>15. MirrorsHalf(h[m - 1 - x], m - 1 - x, S[x], g[x], PairPlaces(y, d, x), WeightsAt(c, g))
  BY ONLY <1>5, <1>8, <1>14
<1>16. Balanced(m, g, d, x, S, T)
  BY ONLY <1>2, <1>3, <1>4, <1>5, <1>7, d = r - 1, BalanceLink
<1>17. Inners(m, g, d, x, S) /\ S[d] = S[r] + f[r]
  <2>1. /\ S \in [0..(m - 1) -> Nat] /\ S[m - 1] = 0
        /\ \A k \in (x + 1)..r : S[k - 1] = S[k] + f[k]
    BY <1>3 DEF Inners
  <2>2. \A k \in (x + 1)..d : k \in (x + 1)..r
    BY <1>2, <1>4
  <2>3. r \in (x + 1)..r /\ r - 1 = d
    BY <1>2, <1>4
  <2>4. QED BY <1>7, <2>1, <2>2, <2>3 DEF Inners
<1>18. S[x] + g[x] = T[y + 1] + S[d]
  <2>1. y + 1 \in 0..m /\ S[r] \in Nat /\ f[r] \in Nat
    BY <1>2
  <2>2. T[y + 1] \in Nat
    BY <1>2, <2>1
  <2>3. QED BY <1>1, <1>5, <1>17, <2>1, <2>2
<1>19. ArrayAt(m, c, g, y, d, x)
  <2>1. g \in [0..(m - 1) -> Nat]
    BY <1>5 DEF AlteredAt
  <2>2. QED BY <1>2, <1>3, <1>4, <2>1 DEF ArrayAt
<1>20. Sums(m, c, g, y, d, x, S, T)
  BY <1>3, <1>16, <1>17, <1>19 DEF Sums
<1>21. QED BY <1>1, <1>11, <1>15, <1>18, <1>20 DEF PairsSecond

\* A leaf is taken as the first of a pair.
LEMMA FirstLeafTaken ==
  ASSUME NEW m, NEW c, NEW o, NEW f, NEW y, NEW r, NEW x, NEW S, NEW T, NEW v, NEW h,
         PairsFirst(m, c, o, f, y, r, x, S, T, v, h), TakesLeaf(f, y, r, x),
         y + r = 2 * x, 1 <= x,
         NEW g, g = [f EXCEPT ![x] = f[y]], NEW b, b = y - 1
  PROVE  PairsSecond(m, c, o, g, b, r, x, S, T, h)
<1>1. /\ Sums(m, c, f, y, r, x, S, T) /\ Queued(m, c, f, y, r, x, v)
      /\ S[x] = T[y + 1] + S[r] /\ States(h, o, m - 1 - x)
      /\ Mirrors(h[m - 1 - x], m - 1 - x, S[x], PairPlaces(y, r, x), WeightsAt(c, f))
  BY DEF PairsFirst
<1>2. /\ m \in Nat /\ f \in [0..(m - 1) -> Nat] /\ c \in [0..(m - 1) -> Nat]
      /\ y \in -1..(m - 1) /\ r \in 0..(m - 1) /\ x \in 0..(m - 1) /\ x <= r
      /\ S \in [0..(m - 1) -> Nat] /\ T \in [0..m -> Nat]
  BY <1>1, SumsFacts
<1>3. /\ ArrayAt(m, c, f, y, r, x) /\ LeafSums(m, c, T) /\ Inners(m, f, r, x, S)
      /\ Balanced(m, f, r, x, S, T) /\ Descending(m, c)
  BY <1>1, SumsFacts
<1>4. /\ y \in 0..(m - 1) /\ b \in -1..(m - 1) /\ b < x /\ b <= y /\ b \in Int /\ r <= r
      /\ r \in Nat /\ x \in Nat /\ r \in Int /\ y \in Nat /\ f[y] \in Nat
  BY <1>2 DEF TakesLeaf
<1>5. AlteredAt(m, f, g, {x}) /\ g[x] = f[y]
  <2>1. AltersOne(m, f, g, x, f[y])
    BY <1>2, <1>4, AlteredOne
  <2>2. QED BY <2>1 DEF AltersOne
<1>6. KeptBetween(m, f, g, b, x, r, r)
  BY <1>2, <1>4, <1>5, KeptLeaf
<1>7. /\ \A k \in 0..b : g[k] = f[k]
      /\ \A k \in (x + 1)..r : g[k] = f[k]
      /\ \A k \in (r + 1)..(m - 1) : g[k] = f[k]
  BY <1>6 DEF KeptBetween
<1>8. /\ LeastPlace(PairPlaces(y, r, x), WeightsAt(c, f), y)
      /\ WeightsAt(c, f)[y] = f[y]
  BY ONLY <1>1, <1>3, TakesLeaf(f, y, r, x), LightestLeaf
<1>9. Least(c, f, y, r, x, v, WeightsAt(c, f)[y])
  BY ONLY <1>1, <1>3, <1>8, LeastWeight
<1>10. Queued(m, c, g, b, r, x, WeightsAt(c, f)[y])
  BY ONLY <1>1, <1>3, <1>4, <1>7, <1>9, QueueAfter
<1>11. Queued(m, c, g, b, r, x, g[x])
  BY ONLY <1>5, <1>8, <1>10
<1>12. PairPlaces(b, r, x) = PairPlaces(y, r, x) \ {y}
  BY ONLY <1>4, b = y - 1, LeafTaken
<1>13. AgreeOn(PairPlaces(b, r, x), WeightsAt(c, f), WeightsAt(c, g))
  BY ONLY <1>4, <1>7, SameWeights
<1>14. MirrorsHalf(h[m - 1 - x], m - 1 - x, S[x], WeightsAt(c, f)[y], PairPlaces(b, r, x), WeightsAt(c, g))
  BY ONLY <1>1, <1>8, <1>12, <1>13, FirstMirror
<1>15. MirrorsHalf(h[m - 1 - x], m - 1 - x, S[x], g[x], PairPlaces(b, r, x), WeightsAt(c, g))
  BY ONLY <1>5, <1>8, <1>14
<1>16. Balanced(m, g, r, x, S, T)
  BY ONLY <1>2, <1>3, <1>4, <1>7, BalanceSame
<1>17. Inners(m, g, r, x, S)
  BY <1>3, <1>7 DEF Inners
<1>18. S[x] + g[x] = T[b + 1] + S[r]
  <2>1. /\ T[y] = T[y + 1] + c[y] /\ y + 1 \in 0..m /\ b + 1 = y
    BY <1>2, <1>3, <1>4 DEF LeafSums
  <2>2. f[y] = c[y]
    <3>1. y \in 0..y
      BY <1>4
    <3>2. QED BY <1>1, <3>1 DEF Queued
  <2>3. T[y + 1] \in Nat /\ c[y] \in Nat /\ S[r] \in Nat
    BY <1>2, <1>4, <2>1
  <2>4. QED BY <1>1, <1>5, <2>1, <2>2, <2>3
<1>19. ArrayAt(m, c, g, b, r, x)
  <2>1. g \in [0..(m - 1) -> Nat]
    BY <1>5 DEF AlteredAt
  <2>2. QED BY <1>2, <1>3, <1>4, <2>1 DEF ArrayAt
<1>20. Sums(m, c, g, b, r, x, S, T)
  BY <1>3, <1>16, <1>17, <1>19 DEF Sums
<1>21. QED BY <1>1, <1>11, <1>15, <1>18, <1>20 DEF PairsSecond

\* An inner node is taken as the second of a pair, whose node is made.
LEMMA SecondRoot ==
  ASSUME NEW m, NEW c, NEW o, NEW f, NEW y, NEW r, NEW x, NEW S, NEW T, NEW h,
         PairsSecond(m, c, o, f, y, r, x, S, T, h), TakesRoot(f, y, r, x),
         y + r = 2 * x - 1, 1 <= x, \A k \in (r + 1)..(m - 1) : x <= f[k],
         NEW g, g = [f EXCEPT ![x] = f[x] + f[r], ![r] = x], NEW d, d = r - 1,
         NEW z, z = x - 1
  PROVE  \E R, v, e : PairsFirst(m, c, o, g, y, d, z, R, T, v, e)
<1>1. /\ Sums(m, c, f, y, r, x, S, T) /\ Queued(m, c, f, y, r, x, f[x])
      /\ S[x] + f[x] = T[y + 1] + S[r] /\ States(h, o, m - 1 - x)
      /\ MirrorsHalf(h[m - 1 - x], m - 1 - x, S[x], f[x], PairPlaces(y, r, x), WeightsAt(c, f))
  BY DEF PairsSecond
<1>2. /\ m \in Nat /\ f \in [0..(m - 1) -> Nat] /\ c \in [0..(m - 1) -> Nat]
      /\ y \in -1..(m - 1) /\ r \in 0..(m - 1) /\ x \in 0..(m - 1) /\ x <= r
      /\ S \in [0..(m - 1) -> Nat] /\ T \in [0..m -> Nat]
  BY <1>1, SumsFacts
<1>3. /\ ArrayAt(m, c, f, y, r, x) /\ LeafSums(m, c, T) /\ Inners(m, f, r, x, S)
      /\ Balanced(m, f, r, x, S, T) /\ Descending(m, c)
  BY <1>1, SumsFacts
<1>4. /\ x < r /\ d \in 0..(m - 1) /\ x <= d /\ y < x /\ r < m /\ z \in 0..(m - 1) /\ z <= d
      /\ y \in Int /\ d \in Int /\ d \in Nat /\ r \in Nat /\ x \in Nat \ {0} /\ d <= r /\ y <= y
      /\ f[r] \in Nat /\ f[x] \in Nat /\ f[x] + f[r] \in Nat /\ x \in Nat /\ d < m
  <2>1. /\ x < r /\ d \in 0..(m - 1) /\ x <= d /\ y < x /\ r < m /\ z \in 0..(m - 1) /\ z <= d
        /\ y \in Int /\ d \in Int /\ d \in Nat /\ r \in Nat /\ x \in Nat \ {0} /\ d <= r /\ y <= y
        /\ x \in Nat /\ d < m
    BY <1>2 DEF TakesRoot
  <2>2. f[r] \in Nat /\ f[x] \in Nat
    BY <1>2
  <2>3. QED BY <2>1, <2>2
<1>5. AlteredAt(m, f, g, {x, r}) /\ g[x] = f[x] + f[r] /\ g[r] = x
  <2>1. AltersTwo(m, f, g, x, f[x] + f[r], r)
    BY <1>2, <1>4, AlteredTwo
  <2>2. QED BY <2>1 DEF AltersTwo
<1>6. KeptBetween(m, f, g, y, x, d, r)
  BY <1>2, <1>4, <1>5, KeptRoot
<1>7. /\ \A k \in 0..y : g[k] = f[k]
      /\ \A k \in (x + 1)..d : g[k] = f[k]
      /\ \A k \in (r + 1)..(m - 1) : g[k] = f[k]
  BY <1>6 DEF KeptBetween
<1>8. /\ LeastPlace(PairPlaces(y, r, x), WeightsAt(c, f), -r)
      /\ WeightsAt(c, f)[-r] = f[r]
  BY ONLY <1>1, <1>3, TakesRoot(f, y, r, x), LightestRoot
<1>9. Least(c, f, y, r, x, f[x], WeightsAt(c, f)[-r])
  BY ONLY <1>1, <1>3, <1>8, LeastWeight
<1>10. Queued(m, c, g, y, d, z, f[r])
  <2>1. Least(c, f, y, r, x, f[x], f[r])
    BY ONLY <1>8, <1>9
  <2>2. QED BY ONLY <1>1, <1>3, <1>4, <1>5, <1>7, <2>1, z = x - 1, QueueNew
<1>11. PICK I : I = PairPlaces(y, r, x)
  OBVIOUS
<1>12. I \ {-r} = PairPlaces(y, d, x)
  BY ONLY <1>4, <1>11, d = r - 1, RootTaken
<1>13. -x \notin I /\ (I \ {-r}) \cup {-x} = PairPlaces(y, d, z)
  <2>1. x <= d /\ x <= r
    BY <1>2, <1>4
  <2>2. -x \notin I
    BY ONLY <1>4, <1>11, <2>1, NodeMade
  <2>3. PairPlaces(y, d, x) \cup {-x} = PairPlaces(y, d, z)
    BY ONLY <1>4, <2>1, z = x - 1, NodeMade
  <2>4. QED BY <1>12, <2>2, <2>3
<1>14. AgreeOn(I \ {-r}, WeightsAt(c, f), WeightsAt(c, g))
  <2>1. AgreeOn(PairPlaces(y, d, x), WeightsAt(c, f), WeightsAt(c, g))
    BY ONLY <1>4, <1>7, SameWeights
  <2>2. QED BY <1>12, <2>1
<1>15. WeightsAt(c, g)[-x] = g[x]
  <2>1. -x \in Int /\ ~(-x >= 0) /\ -(-x) = x
    BY <1>4
  <2>2. QED BY <2>1 DEF WeightsAt
<1>16. PICK a \in Nat : a = m - 1 - x
  BY <1>2
<1>17. m - 1 - z = a + 1
  BY <1>2, <1>16
<1>18. PICK e : States(e, o, a + 1) /\ e[a + 1] = MergedOnce(h[a], a + 1)
  BY <1>1, <1>16, StatesMore
<1>19. PICK s \in Nat : s = S[x] + g[x]
  <2>1. S[x] \in Nat /\ g[x] \in Nat
    BY <1>2, <1>4, <1>5
  <2>2. QED BY <2>1
<1>20. Mirrors(e[a + 1], a + 1, s, PairPlaces(y, d, z), WeightsAt(c, g))
  <2>1. g[x] \in Nat /\ S[x] \in Nat 
    BY <1>2, <1>4, <1>5
  <2>2. MirrorsHalf(h[a], a, S[x], f[x], I, WeightsAt(c, f))
    BY <1>1, <1>11, <1>16
  <2>3. g[x] = f[x] + WeightsAt(c, f)[-r]
    BY <1>5, <1>8
  <2>4. LeastPlace(I, WeightsAt(c, f), -r)
    BY <1>8, <1>11
  <2>5. -x \notin I /\ a \in Nat
    BY <1>13
  <2>6. Mirrors(MergedOnce(h[a], a + 1), a + 1, S[x] + g[x], (I \ {-r}) \cup {-x}, WeightsAt(c, g))
    BY ONLY <1>14, <1>15, <2>1, <2>2, <2>3, <2>4, <2>5, SecondMirror
  <2>7. QED BY ONLY <1>13, <1>18, <1>19, <2>6
<1>21. PICK R : R = [S EXCEPT ![x - 1] = s]
  OBVIOUS
<1>22. Inners(m, g, d, z, R) /\ R[z] = s /\ \A k \in x..(m - 1) : R[k] = S[k]
  <2>1. x <= r
    BY <1>2, <1>4
  <2>2. InnersThen(m, g, d, z, R, S, x, s)
    BY ONLY <1>2, <1>3, <1>4, <1>7, <1>19, <1>21, <2>1, z = x - 1, InnersMore
  <2>3. QED BY <2>2 DEF InnersThen
<1>23. S[d] = S[r] + f[r] /\ R[d] = S[d]
  <2>1. r \in (x + 1)..r /\ r - 1 = d /\ d \in x..(m - 1)
    BY <1>2, <1>4
  <2>2. S[r - 1] = S[r] + f[r]
    BY <1>3, <2>1 DEF Inners
  <2>3. QED BY <1>22, <2>1, <2>2
<1>24. s = T[y + 1] + S[d]
  <2>1. y + 1 \in 0..m /\ S[r] \in Nat /\ S[x] \in Nat
    BY <1>2
  <2>2. T[y + 1] \in Nat
    BY <1>2, <2>1
  <2>3. S[x] + f[x] = T[y + 1] + S[r] /\ s = S[x] + (f[x] + f[r]) /\ S[d] = S[r] + f[r]
    BY <1>1, <1>5, <1>19, <1>23
  <2>4. QED BY ONLY <1>4, <2>1, <2>2, <2>3
<1>25. Balanced(m, g, d, z, R, T)
  <2>1. Balanced(m, g, d, x, S, T)
    BY ONLY <1>2, <1>3, <1>4, <1>5, <1>7, d = r - 1, BalanceLink
  <2>2. \A q \in (d + 1)..(m - 1) : x <= g[q] /\ g[q] \in Nat
    <3>1. ASSUME NEW q \in (d + 1)..(m - 1) PROVE x <= g[q] /\ g[q] \in Nat
      <4>1. q \in 0..(m - 1) /\ (q = r \/ q \in (r + 1)..(m - 1))
        BY <1>2, <1>4
      <4>2. g[q] \in Nat
        BY <1>5, <4>1 DEF AlteredAt
      <4>3. CASE q = r
        BY <1>4, <1>5, <4>2, <4>3
      <4>4. CASE q \in (r + 1)..(m - 1)
        BY <1>7, <4>2, <4>4
      <4>5. QED BY <4>1, <4>3, <4>4
    <3>2. QED BY <3>1
  <2>3. s = T[2 * (x - 1) - d + 1] + S[d]
    <3>1. 2 * (x - 1) - d + 1 = y + 1
      BY <1>2, <1>4
    <3>2. QED BY <1>24, <3>1
  <2>4. QED BY ONLY <1>2, <1>4, <1>19, <1>21, <2>1, <2>2, <2>3, z = x - 1, BalanceMore
<1>26. ArrayAt(m, c, g, y, d, z)
  <2>1. g \in [0..(m - 1) -> Nat]
    BY <1>5 DEF AlteredAt
  <2>2. QED BY <1>2, <1>3, <1>4, <2>1 DEF ArrayAt
<1>27. Sums(m, c, g, y, d, z, R, T)
  BY <1>3, <1>22, <1>25, <1>26 DEF Sums
<1>28. PairsFirst(m, c, o, g, y, d, z, R, T, f[r], e)
  <2>1. R[z] = T[y + 1] + R[d]
    BY <1>22, <1>23, <1>24
  <2>2. States(e, o, m - 1 - z)
    BY <1>17, <1>18
  <2>3. Mirrors(e[m - 1 - z], m - 1 - z, R[z], PairPlaces(y, d, z), WeightsAt(c, g))
    BY <1>17, <1>20, <1>22
  <2>4. QED BY <1>10, <1>27, <2>1, <2>2, <2>3 DEF PairsFirst
<1>29. QED BY <1>28

\* A leaf is taken as the second of a pair, whose node is made.
LEMMA SecondLeafTaken ==
  ASSUME NEW m, NEW c, NEW o, NEW f, NEW y, NEW r, NEW x, NEW S, NEW T, NEW h,
         PairsSecond(m, c, o, f, y, r, x, S, T, h), TakesLeaf(f, y, r, x),
         y + r = 2 * x - 1, 1 <= x, \A k \in (r + 1)..(m - 1) : x <= f[k],
         NEW g, g = [f EXCEPT ![x] = f[x] + f[y]], NEW b, b = y - 1,
         NEW z, z = x - 1
  PROVE  \E R, v, e : PairsFirst(m, c, o, g, b, r, z, R, T, v, e)
<1>1. /\ Sums(m, c, f, y, r, x, S, T) /\ Queued(m, c, f, y, r, x, f[x])
      /\ S[x] + f[x] = T[y + 1] + S[r] /\ States(h, o, m - 1 - x)
      /\ MirrorsHalf(h[m - 1 - x], m - 1 - x, S[x], f[x], PairPlaces(y, r, x), WeightsAt(c, f))
  BY DEF PairsSecond
<1>2. /\ m \in Nat /\ f \in [0..(m - 1) -> Nat] /\ c \in [0..(m - 1) -> Nat]
      /\ y \in -1..(m - 1) /\ r \in 0..(m - 1) /\ x \in 0..(m - 1) /\ x <= r
      /\ S \in [0..(m - 1) -> Nat] /\ T \in [0..m -> Nat]
  BY <1>1, SumsFacts
<1>3. /\ ArrayAt(m, c, f, y, r, x) /\ LeafSums(m, c, T) /\ Inners(m, f, r, x, S)
      /\ Balanced(m, f, r, x, S, T) /\ Descending(m, c)
  BY <1>1, SumsFacts
<1>4. /\ y \in 0..(m - 1) /\ b \in -1..(m - 1) /\ b < x /\ b <= y /\ b \in Int /\ r <= r
      /\ r \in Nat /\ x \in Nat \ {0} /\ r \in Int /\ y \in Nat /\ f[y] \in Nat /\ f[x] \in Nat
      /\ f[x] + f[y] \in Nat /\ z \in 0..(m - 1) /\ z <= r /\ x \in Nat /\ r < m /\ y \in Int
  <2>1. /\ y \in 0..(m - 1) /\ b \in -1..(m - 1) /\ b < x /\ b <= y /\ b \in Int /\ r <= r
        /\ r \in Nat /\ x \in Nat \ {0} /\ r \in Int /\ y \in Nat
        /\ z \in 0..(m - 1) /\ z <= r /\ x \in Nat /\ r < m /\ y \in Int
    <3>1. y >= 0
      BY DEF TakesLeaf
    <3>2. /\ m \in Nat /\ y \in -1..(m - 1) /\ r \in 0..(m - 1) /\ x \in 0..(m - 1) /\ x <= r
          /\ y + r = 2 * x - 1 /\ 1 <= x /\ b = y - 1 /\ z = x - 1
      BY <1>2
    <3>3. QED BY ONLY <3>1, <3>2
  <2>2. f[y] \in Nat /\ f[x] \in Nat
    BY <1>2, <2>1
  <2>3. QED BY <2>1, <2>2
<1>5. AlteredAt(m, f, g, {x}) /\ g[x] = f[x] + f[y]
  <2>1. AltersOne(m, f, g, x, f[x] + f[y])
    BY <1>2, <1>4, AlteredOne
  <2>2. QED BY <2>1 DEF AltersOne
<1>6. KeptBetween(m, f, g, b, x, r, r)
  BY <1>2, <1>4, <1>5, KeptLeaf
<1>7. /\ \A k \in 0..b : g[k] = f[k]
      /\ \A k \in (x + 1)..r : g[k] = f[k]
      /\ \A k \in (r + 1)..(m - 1) : g[k] = f[k]
  BY <1>6 DEF KeptBetween
<1>8. /\ LeastPlace(PairPlaces(y, r, x), WeightsAt(c, f), y)
      /\ WeightsAt(c, f)[y] = f[y]
  BY ONLY <1>1, <1>3, TakesLeaf(f, y, r, x), LightestLeaf
<1>9. Least(c, f, y, r, x, f[x], WeightsAt(c, f)[y])
  BY ONLY <1>1, <1>3, <1>8, LeastWeight
<1>10. Queued(m, c, g, b, r, z, f[y])
  <2>1. Least(c, f, y, r, x, f[x], f[y])
    BY ONLY <1>8, <1>9
  <2>2. QED BY ONLY <1>1, <1>3, <1>4, <1>5, <1>7, <2>1, z = x - 1, QueueNew
<1>11. PICK I : I = PairPlaces(y, r, x)
  OBVIOUS
<1>12. I \ {y} = PairPlaces(b, r, x)
  BY ONLY <1>4, <1>11, b = y - 1, LeafTaken
<1>13. -x \notin I /\ (I \ {y}) \cup {-x} = PairPlaces(b, r, z)
  <2>1. x <= r /\ x <= r
    BY <1>2, <1>4
  <2>2. -x \notin I
    BY ONLY <1>4, <1>11, <2>1, NodeMade
  <2>3. PairPlaces(b, r, x) \cup {-x} = PairPlaces(b, r, z)
    BY ONLY <1>4, <2>1, z = x - 1, NodeMade
  <2>4. QED BY <1>12, <2>2, <2>3
<1>14. AgreeOn(I \ {y}, WeightsAt(c, f), WeightsAt(c, g))
  <2>1. AgreeOn(PairPlaces(b, r, x), WeightsAt(c, f), WeightsAt(c, g))
    BY ONLY <1>4, <1>7, SameWeights
  <2>2. QED BY <1>12, <2>1
<1>15. WeightsAt(c, g)[-x] = g[x]
  <2>1. -x \in Int /\ ~(-x >= 0) /\ -(-x) = x
    BY <1>4
  <2>2. QED BY <2>1 DEF WeightsAt
<1>16. PICK a \in Nat : a = m - 1 - x
  BY <1>2
<1>17. m - 1 - z = a + 1
  BY <1>2, <1>16
<1>18. PICK e : States(e, o, a + 1) /\ e[a + 1] = MergedOnce(h[a], a + 1)
  BY <1>1, <1>16, StatesMore
<1>19. PICK s \in Nat : s = S[x] + g[x]
  <2>1. S[x] \in Nat /\ g[x] \in Nat
    BY <1>2, <1>4, <1>5
  <2>2. QED BY <2>1
<1>20. Mirrors(e[a + 1], a + 1, s, PairPlaces(b, r, z), WeightsAt(c, g))
  <2>1. g[x] \in Nat /\ S[x] \in Nat 
    BY <1>2, <1>4, <1>5
  <2>2. MirrorsHalf(h[a], a, S[x], f[x], I, WeightsAt(c, f))
    BY <1>1, <1>11, <1>16
  <2>3. g[x] = f[x] + WeightsAt(c, f)[y]
    BY <1>5, <1>8
  <2>4. LeastPlace(I, WeightsAt(c, f), y)
    BY <1>8, <1>11
  <2>5. -x \notin I /\ a \in Nat
    BY <1>13
  <2>6. Mirrors(MergedOnce(h[a], a + 1), a + 1, S[x] + g[x], (I \ {y}) \cup {-x}, WeightsAt(c, g))
    BY ONLY <1>14, <1>15, <2>1, <2>2, <2>3, <2>4, <2>5, SecondMirror
  <2>7. QED BY ONLY <1>13, <1>18, <1>19, <2>6
<1>21. PICK R : R = [S EXCEPT ![x - 1] = s]
  OBVIOUS
<1>22. Inners(m, g, r, z, R) /\ R[z] = s /\ \A k \in x..(m - 1) : R[k] = S[k]
  <2>1. x <= r
    BY <1>2, <1>4
  <2>2. InnersThen(m, g, r, z, R, S, x, s)
    BY ONLY <1>2, <1>3, <1>4, <1>7, <1>19, <1>21, <2>1, z = x - 1, InnersMore
  <2>3. QED BY <2>2 DEF InnersThen
<1>23. R[r] = S[r]
  <2>1. r \in x..(m - 1)
    BY <1>2
  <2>2. QED BY <1>22, <2>1
<1>24. s = T[b + 1] + S[r]
  <2>1. /\ T[y] = T[y + 1] + c[y] /\ y + 1 \in 0..m /\ b + 1 = y
    BY <1>2, <1>3, <1>4 DEF LeafSums
  <2>2. f[y] = c[y]
    <3>1. y \in 0..y
      BY <1>4
    <3>2. QED BY <1>1, <3>1 DEF Queued
  <2>3. T[y + 1] \in Nat /\ c[y] \in Nat /\ S[r] \in Nat /\ S[x] \in Nat
    BY <1>2, <1>4, <2>1
  <2>4. S[x] + f[x] = T[y + 1] + S[r] /\ s = S[x] + (f[x] + f[y]) /\ T[b + 1] = T[y + 1] + f[y]
    BY <1>1, <1>5, <1>19, <2>1, <2>2
  <2>5. QED BY ONLY <1>4, <2>3, <2>4
<1>25. Balanced(m, g, r, z, R, T)
  <2>1. Balanced(m, g, r, x, S, T)
    BY ONLY <1>2, <1>3, <1>4, <1>7, BalanceSame
  <2>2. \A q \in (r + 1)..(m - 1) : x <= g[q] /\ g[q] \in Nat
    <3>1. ASSUME NEW q \in (r + 1)..(m - 1) PROVE x <= g[q] /\ g[q] \in Nat
      <4>1. q \in 0..(m - 1)
        BY <1>2
      <4>2. g[q] \in Nat
        BY <1>5, <4>1 DEF AlteredAt
      <4>3. QED BY <1>7, <4>2
    <3>2. QED BY <3>1
  <2>3. s = T[2 * (x - 1) - r + 1] + S[r]
    <3>1. 2 * (x - 1) - r + 1 = b + 1
      BY <1>2, <1>4
    <3>2. QED BY <1>24, <3>1
  <2>4. QED BY ONLY <1>2, <1>4, <1>19, <1>21, <2>1, <2>2, <2>3, z = x - 1, BalanceMore
<1>26. ArrayAt(m, c, g, b, r, z)
  <2>1. g \in [0..(m - 1) -> Nat]
    BY <1>5 DEF AlteredAt
  <2>2. QED BY <1>2, <1>3, <1>4, <2>1 DEF ArrayAt
<1>27. Sums(m, c, g, b, r, z, R, T)
  BY <1>3, <1>22, <1>25, <1>26 DEF Sums
<1>28. PairsFirst(m, c, o, g, b, r, z, R, T, f[y], e)
  <2>1. R[z] = T[b + 1] + R[r]
    BY <1>22, <1>23, <1>24
  <2>2. States(e, o, m - 1 - z)
    BY <1>17, <1>18
  <2>3. Mirrors(e[m - 1 - z], m - 1 - z, R[z], PairPlaces(b, r, z), WeightsAt(c, g))
    BY <1>17, <1>20, <1>22
  <2>4. QED BY <1>10, <1>27, <2>1, <2>2, <2>3 DEF PairsFirst
<1>29. QED BY <1>28

-----------------------------------------------------------------------------
(***************************************************************************)
(* Before the first pair: all the nodes are leaves.                        *)
(***************************************************************************)
\* The weights of leaves can be summed from the end.
LEMMA SuffixesExist ==
  ASSUME NEW m \in Nat, NEW c \in [0..(m - 1) -> Nat]
  PROVE  \E T : LeafSums(m, c, T)
<1>1. PICK g : g = [k \in 1..m |-> [z \in Nat |-> z + c[m - k]]]
  OBVIOUS
<1>2. g \in [1..m -> [Nat -> Nat]]
  <2>1. ASSUME NEW k \in 1..m PROVE g[k] \in [Nat -> Nat]
    <3>1. c[m - k] \in Nat
      OBVIOUS
    <3>2. QED BY <1>1, <3>1
  <2>2. QED BY <1>1, <2>1
<1>3. Recurses(m, Nat, 0, g)
  <2>1. 0 \in Nat
    OBVIOUS
  <2>2. QED BY <1>2, <2>1, Recursion, Zenon
<1>4. PICK h \in [0..m -> Nat] : h[0] = 0 /\ \A k \in 1..m : h[k] = g[k][h[k - 1]]
  BY <1>3 DEF Recurses
<1>5. PICK T : T = [k \in 0..m |-> h[m - k]]
  OBVIOUS
<1>6. T \in [0..m -> Nat] /\ T[m] = 0
  BY <1>4, <1>5
<1>7. ASSUME NEW k \in 0..(m - 1) PROVE T[k] = T[k + 1] + c[k]
  <2>1. PICK l : l = m - k
    OBVIOUS
  <2>2. l \in 1..m /\ l - 1 \in 0..m /\ m - l = k /\ m - (k + 1) = l - 1 /\ k + 1 \in 0..m
    BY <2>1
  <2>3. h[l] = g[l][h[l - 1]] /\ h[l - 1] \in Nat
    BY <1>4, <2>2
  <2>4. h[l] = h[l - 1] + c[k]
    BY <1>1, <2>2, <2>3
  <2>5. QED BY <1>5, <2>1, <2>2, <2>4
<1>8. QED BY <1>6, <1>7 DEF LeafSums

\* The reference and the array start with the same weights.
LEMMA PairsStart ==
  ASSUME NEW m \in Nat, 2 <= m, NEW c, Descending(m, c), NEW o, o.cost = 0,
         NodesAbove(o.nodes, 0), Matched(0..(m - 1), c, o.nodes), NEW x, x = m - 1
  PROVE  \E S, T, v, h : PairsFirst(m, c, o, c, x, x, x, S, T, v, h)
<1>1. c \in [0..(m - 1) -> Nat] /\ x \in 0..(m - 1)
  BY DEF Descending
<1>2. PICK T : LeafSums(m, c, T)
  BY <1>1, SuffixesExist
<1>3. PICK S : S = [k \in 0..(m - 1) |-> 0]
  OBVIOUS
<1>4. PICK h : h = [k \in {0} |-> o]
  OBVIOUS
<1>5. ArrayAt(m, c, c, x, x, x)
  BY <1>1 DEF ArrayAt
<1>6. (x + 1)..x = {} /\ (x + 1)..(m - 1) = {} /\ m - 1 - x = 0 /\ x + 1 = m /\ 2 * x - x + 1 = m
  BY <1>1
<1>7. S \in [0..(m - 1) -> Nat] /\ S[x] = 0
  BY <1>1, <1>3
<1>8. Inners(m, c, x, x, S)
  BY <1>6, <1>7 DEF Inners
<1>9. T[m] = 0
  BY <1>2 DEF LeafSums
<1>10. Balanced(m, c, x, x, S, T)
  <2>1. \A k \in x..(m - 1) : k = x
    BY <1>1
  <2>2. S[x] = T[2 * x - x + 1] + S[x]
    BY <1>6, <1>7, <1>9
  <2>3. QED BY <2>1, <2>2 DEF Balanced
<1>11. Queued(m, c, c, x, x, x, 0)
  <2>1. \A k \in 0..x : 0 <= c[k]
    BY <1>1
  <2>2. ~(x < x)
    BY <1>1
  <2>3. QED BY <1>6, <2>1, <2>2 DEF Queued
<1>12. States(h, o, 0)
  BY <1>4 DEF States
<1>13. PairPlaces(x, x, x) = 0..(m - 1)
  <2>1. (-x)..(-(x + 1)) = {} /\ 0..x = 0..(m - 1)
    BY <1>1
  <2>2. QED BY <2>1 DEF PairPlaces
<1>14. Mirrors(o, 0, 0, 0..(m - 1), WeightsAt(c, c))
  <2>1. \A k \in 0..(m - 1) : WeightsAt(c, c)[k] = c[k]
    BY DEF WeightsAt
  <2>2. Matched(0..(m - 1), WeightsAt(c, c), o.nodes)
    BY <2>1, SameMatched
  <2>3. QED BY <2>2 DEF Mirrors
<1>15. Sums(m, c, c, x, x, x, S, T)
  BY <1>2, <1>5, <1>8, <1>10 DEF Sums
<1>16. h[0] = o
  BY <1>4
<1>17. PairsFirst(m, c, o, c, x, x, x, S, T, 0, h)
  BY <1>6, <1>7, <1>9, <1>11, <1>12, <1>13, <1>14, <1>15, <1>16 DEF PairsFirst
<1>18. QED BY <1>17

-----------------------------------------------------------------------------
(***************************************************************************)
(* The steps that make pairs.                                              *)
(***************************************************************************)
\* What the array holds when it is sorted.
SortedCounts == [k \in 0..(n - 1) |-> Count(Lit(k))]

\* The array and the reference agree while pairs are made.
PairCost ==
  /\ pc = "first" =>
       \E S, T, v, h : PairsFirst(n, SortedCounts, AllNodes, w, leaf, root, next, S, T, v, h)
  /\ pc = "second" =>
       \E S, T, h : PairsSecond(n, SortedCounts, AllNodes, w, leaf, root, next, S, T, h)

\* What a step has to do with the counted symbols: nothing.
LEMMA CountsKept ==
  ASSUME hist' = hist, lits' = lits
  PROVE  n' = n /\ SortedCounts' = SortedCounts /\ AllNodes' = AllNodes
<1>1. n' = n
  BY DEF n
<1>2. \A s : Count(s)' = Count(s)
  BY DEF Count
<1>3. SortedCounts' = SortedCounts
  BY <1>1, <1>2 DEF SortedCounts, Lit
<1>4. AllNodes' = AllNodes
  BY <1>2 DEF AllNodes
<1>5. QED BY <1>1, <1>3, <1>4

\* The sorted counts are those of all nodes of the reference.
LEMMA CountsSorted ==
  ASSUME Types, OneEach(lits, Occur), Placed(lits, <<>>)
  PROVE  /\ Descending(n, SortedCounts) /\ AllNodes.cost = 0 /\ NodesAbove(AllNodes.nodes, 0)
         /\ Matched(0..(n - 1), SortedCounts, AllNodes.nodes)
<1>1. PICK m \in Nat : m = n /\ m = Len(lits)
  BY LengthFacts DEF n
<1>2. PICK c : c = SortedCounts
  OBVIOUS
<1>3. \A s \in Syms : Count(s) \in Nat /\ s \in Int /\ 0 <= s
  <2>1. ASSUME NEW s \in Syms PROVE Count(s) \in Nat /\ s \in Int /\ 0 <= s
    <3>1. hist[s] \in Nat
      BY DEF Types
    <3>2. s \in Int /\ 0 <= s
      BY DEF Types
    <3>3. QED BY <3>1, <3>2, WidthsOK DEF Count
  <2>2. QED BY <2>1
<1>4. \A k \in 0..(m - 1) : lits[k + 1] \in Syms /\ c[k] = Count(lits[k + 1]) /\ k + 1 \in 1..m
  <2>1. ASSUME NEW k \in 0..(m - 1)
        PROVE  lits[k + 1] \in Syms /\ c[k] = Count(lits[k + 1]) /\ k + 1 \in 1..m
    <3>1. k + 1 \in 1..m
      OBVIOUS
    <3>2. lits[k + 1] \in Syms
      BY <1>1, <3>1, NumberTypes
    <3>3. QED BY <1>1, <1>2, <3>1, <3>2 DEF SortedCounts, Lit
  <2>2. QED BY <2>1
<1>5. c \in [0..(m - 1) -> Nat]
  <2>1. \A k \in 0..(m - 1) : Count(Lit(k)) \in Nat
    BY <1>3, <1>4 DEF Lit
  <2>2. QED BY <1>1, <1>2, <2>1 DEF SortedCounts
<1>6. Descending(m, c)
  <2>1. ASSUME NEW a \in 0..(m - 1), NEW b \in 0..(m - 1), a <= b PROVE c[b] <= c[a]
    <3>1. CASE a = b
      BY <1>5, <3>1
    <3>2. CASE a # b
      <4>1. a < b
        BY <2>1, <3>2
      <4>2. ~Held(<<>>, a, b)
        BY DEF Held
      <4>3. Above(lits[a + 1], lits[b + 1])
        BY <1>1, <4>1, <4>2 DEF Placed
      <4>4. c[a] > c[b] \/ c[a] = c[b]
        BY <1>4, <4>3 DEF Above
      <4>5. c[a] \in Nat /\ c[b] \in Nat
        BY <1>5
      <4>6. QED BY <4>4, <4>5
    <3>3. QED BY <3>1, <3>2
  <2>2. QED BY <1>5, <2>1 DEF Descending
<1>7. PICK N : N = AllNodes.nodes
  OBVIOUS
<1>8. AllNodes.cost = 0 /\ N = {<<Count(s), s>> : s \in Range(lits)}
  BY <1>7 DEF AllNodes
<1>9. \A s : s \in Range(lits) <=> \E k \in 0..(m - 1) : lits[k + 1] = s
  <2>1. DOMAIN lits = 1..m
    BY <1>1, NumberTypes
  <2>2. \A z \in 1..m : z - 1 \in 0..(m - 1) /\ (z - 1) + 1 = z
    OBVIOUS
  <2>3. QED BY <1>4, <2>1, <2>2 DEF Range
<1>10. NodesAbove(N, 0)
  <2>1. ASSUME NEW q \in N
        PROVE  q[1] \in Nat /\ q[2] \in Int /\ -0 <= q[2] /\ q = <<q[1], q[2]>>
    <3>1. PICK s \in Range(lits) : q = <<Count(s), s>>
      BY <1>8
    <3>2. s \in Syms
      BY <1>4, <1>9
    <3>3. Count(s) \in Nat /\ s \in Int /\ -0 <= s
      BY <1>3, <3>2
    <3>4. QED BY <3>1, <3>3
  <2>2. QED BY <2>1 DEF NodesAbove
<1>11. Matched(0..(m - 1), c, N)
  <2>1. PICK g : g = [k \in 0..(m - 1) |-> <<c[k], lits[k + 1]>>]
    OBVIOUS
  <2>2. g \in [0..(m - 1) -> N]
    <3>1. ASSUME NEW k \in 0..(m - 1) PROVE g[k] \in N
      <4>1. lits[k + 1] \in Range(lits)
        BY <1>9
      <4>2. QED BY <1>4, <1>8, <2>1, <4>1
    <3>2. QED BY <2>1, <3>1
  <2>3. ASSUME NEW a \in 0..(m - 1), NEW b \in 0..(m - 1), g[a] = g[b] PROVE a = b
    <3>1. g[a][2] = lits[a + 1] /\ g[b][2] = lits[b + 1]
      BY <2>1
    <3>2. lits[a + 1] = lits[b + 1]
      BY <2>3, <3>1
    <3>3. QED BY <1>1, <3>2 DEF OneEach
  <2>4. ASSUME NEW q \in N PROVE \E k \in 0..(m - 1) : g[k] = q
    <3>1. PICK s \in Range(lits) : q = <<Count(s), s>>
      BY <1>8
    <3>2. PICK k \in 0..(m - 1) : lits[k + 1] = s
      BY <1>9
    <3>3. g[k] = q
      BY <1>4, <2>1, <3>1, <3>2
    <3>4. QED BY <3>3
  <2>5. \A k \in 0..(m - 1) : g[k][1] = c[k] /\ c[k] \in Nat
    BY <1>5, <2>1
  <2>6. Matching(0..(m - 1), c, N, g)
    BY <2>2, <2>3, <2>4, <2>5 DEF Matching
  <2>7. QED BY <2>6 DEF Matched
<1>12. QED BY <1>1, <1>2, <1>6, <1>7, <1>8, <1>10, <1>11

\* TakesInner for the numbers of a step.
LEMMA TakenNow ==
  ASSUME NEW m, NEW f, NEW y, NEW r, NEW x, PairAt(m, f, y, r, x),
         y = -1 => x < r
  PROVE  IF TakesInner THEN TakesRoot(f, y, r, x) ELSE TakesLeaf(f, y, r, x)
<1>1. /\ m = n /\ f = w /\ y = leaf /\ r = root /\ x = next
      /\ m \in Nat /\ f \in [0..(m - 1) -> Nat] /\ y \in -1..(m - 1)
      /\ r \in 0..(m - 1) /\ x \in 0..(m - 1)
  BY DEF PairAt
<1>2. f[r] \in Nat /\ (y >= 0 => f[y] \in Nat)
  BY <1>1
<1>3. TakesInner <=> (y >= 0 => r > x /\ f[r] < f[y])
  BY <1>1 DEF TakesInner
<1>4. CASE y >= 0
  BY <1>1, <1>2, <1>3, <1>4 DEF TakesRoot, TakesLeaf
<1>5. CASE ~(y >= 0)
  BY <1>1, <1>3, <1>5 DEF TakesRoot
<1>6. QED BY <1>4, <1>5

\* Each step keeps them in agreement.
LEMMA SortedCost ==
  ASSUME IInv, Sorted
  PROVE  PairCost'
<1>1. /\ pc = "sort" /\ hist' = hist /\ lits' = lits /\ todo = <<>>
      /\ w' = [k \in 0..(n - 1) |-> IF n = 1 THEN 1 ELSE Count(Lit(k))]
      /\ leaf' = n - 1 /\ root' = n - 1 /\ next' = n - 1
      /\ pc' = IF n <= 1 THEN "measured" ELSE "first"
  BY DEF Sorted, sortVars
<1>2. Types /\ OneEach(lits, Occur) /\ Placed(lits, <<>>)
  BY <1>1 DEF IInv, SortInv
<1>3. SUFFICES ASSUME pc' = "first"
               PROVE  \E S, T, v, h : PairsFirst(n', SortedCounts', AllNodes', w', leaf',
                                                 root', next', S, T, v, h)
  BY <1>1 DEF PairCost
<1>4. PICK m \in Nat : m = n
  BY <1>2, LengthFacts
<1>5. 2 <= m
  BY <1>1, <1>3, <1>4
<1>6. PICK c, o : c = SortedCounts /\ o = AllNodes
  OBVIOUS
<1>7. /\ Descending(m, c) /\ o.cost = 0 /\ NodesAbove(o.nodes, 0)
      /\ Matched(0..(m - 1), c, o.nodes)
  BY <1>2, <1>4, <1>6, CountsSorted
<1>8. PICK x : x = m - 1
  OBVIOUS
<1>9. PICK S, T, v, h : PairsFirst(m, c, o, c, x, x, x, S, T, v, h)
  BY ONLY <1>4, <1>5, <1>7, <1>8, PairsStart
<1>10. n' = m /\ SortedCounts' = c /\ AllNodes' = o
  BY <1>1, <1>4, <1>6, CountsKept
<1>11. w' = c /\ leaf' = x /\ root' = x /\ next' = x
  <2>1. n # 1
    BY <1>4, <1>5
  <2>2. w' = SortedCounts
    BY <1>1, <2>1 DEF SortedCounts
  <2>3. QED BY <1>1, <1>4, <1>6, <1>8, <2>2
<1>12. QED BY <1>9, <1>10, <1>11

LEMMA FirstInnerCost ==
  ASSUME Types, PairInv, PairCost, FirstInner
  PROVE  PairCost'
<1>1. /\ pc = "first" /\ pc' = "second" /\ pairsRunning /\ TakesInner
      /\ hist' = hist /\ lits' = lits
      /\ w' = [w EXCEPT ![next] = w[root], ![root] = next]
      /\ root' = root - 1 /\ leaf' = leaf /\ next' = next
  BY DEF FirstInner, pairUnchanged, sortVars
<1>2. PICK m, f, y, r, x : PairAt(m, f, y, r, x)
  BY <1>1, PairStart DEF PairPhases
<1>3. /\ m = n /\ f = w /\ y = leaf /\ r = root /\ x = next
      /\ m \in Nat /\ f \in [0..(m - 1) -> Nat] /\ y \in -1..(m - 1)
      /\ r \in 0..(m - 1) /\ x \in 0..(m - 1) /\ 2 <= m
  BY <1>2 DEF PairAt
<1>4. x < r
  BY <1>1, <1>3, PairFacts DEF PairPhases
<1>5. y + r = 2 * x /\ 1 <= x
  BY <1>1, <1>2, <1>3 DEF PairAt, Pairable, pairsRunning
<1>6. TakesRoot(f, y, r, x)
  BY <1>1, <1>2, <1>4, TakenNow
<1>7. PICK c, o : c = SortedCounts /\ o = AllNodes
  OBVIOUS
<1>8. PICK S, T, v, h : PairsFirst(m, c, o, f, y, r, x, S, T, v, h)
  BY <1>1, <1>3, <1>7 DEF PairCost
<1>9. PICK g, d : g = [f EXCEPT ![x] = f[r], ![r] = x] /\ d = r - 1
  OBVIOUS
<1>10. PairsSecond(m, c, o, g, y, d, x, S, T, h)
  BY ONLY <1>5, <1>6, <1>8, <1>9, FirstRoot
<1>11. n' = m /\ SortedCounts' = c /\ AllNodes' = o
  BY <1>1, <1>3, <1>7, CountsKept
<1>12. w' = g /\ leaf' = y /\ root' = d /\ next' = x
  BY <1>1, <1>3, <1>9
<1>13. QED BY <1>1, <1>10, <1>11, <1>12 DEF PairCost

LEMMA FirstLeafCost ==
  ASSUME Types, PairInv, PairCost, FirstLeaf
  PROVE  PairCost'
<1>1. /\ pc = "first" /\ pc' = "second" /\ pairsRunning /\ ~TakesInner
      /\ hist' = hist /\ lits' = lits
      /\ w' = [w EXCEPT ![next] = w[leaf]]
      /\ leaf' = leaf - 1 /\ root' = root /\ next' = next
  BY DEF FirstLeaf, pairUnchanged, sortVars
<1>2. PICK m, f, y, r, x : PairAt(m, f, y, r, x)
  BY <1>1, PairStart DEF PairPhases
<1>3. /\ m = n /\ f = w /\ y = leaf /\ r = root /\ x = next
      /\ m \in Nat /\ f \in [0..(m - 1) -> Nat] /\ y \in -1..(m - 1)
      /\ r \in 0..(m - 1) /\ x \in 0..(m - 1) /\ 2 <= m
  BY <1>2 DEF PairAt
<1>4. 0 <= y
  BY <1>1, <1>3, PairFacts DEF PairPhases
<1>5. y + r = 2 * x /\ 1 <= x
  BY <1>1, <1>2, <1>3 DEF PairAt, Pairable, pairsRunning
<1>6. TakesLeaf(f, y, r, x)
  <2>1. y # -1
    BY <1>3, <1>4
  <2>2. QED BY <1>1, <1>2, <2>1, TakenNow
<1>7. PICK c, o : c = SortedCounts /\ o = AllNodes
  OBVIOUS
<1>8. PICK S, T, v, h : PairsFirst(m, c, o, f, y, r, x, S, T, v, h)
  BY <1>1, <1>3, <1>7 DEF PairCost
<1>9. PICK g, b : g = [f EXCEPT ![x] = f[y]] /\ b = y - 1
  OBVIOUS
<1>10. PairsSecond(m, c, o, g, b, r, x, S, T, h)
  BY ONLY <1>5, <1>6, <1>8, <1>9, FirstLeafTaken
<1>11. n' = m /\ SortedCounts' = c /\ AllNodes' = o
  BY <1>1, <1>3, <1>7, CountsKept
<1>12. w' = g /\ leaf' = b /\ root' = r /\ next' = x
  BY <1>1, <1>3, <1>9
<1>13. QED BY <1>1, <1>10, <1>11, <1>12 DEF PairCost

LEMMA SecondInnerCost ==
  ASSUME Types, PairInv, PairCost, SecondInner
  PROVE  PairCost'
<1>1. /\ pc = "second" /\ pc' = "first" /\ TakesInner /\ hist' = hist /\ lits' = lits
      /\ w' = [w EXCEPT ![next] = w[next] + w[root], ![root] = next]
      /\ leaf' = leaf /\ root' = root - 1 /\ next' = next - 1
  BY DEF SecondInner, pairUnchanged, sortVars
<1>2. PICK m, f, y, r, x : PairAt(m, f, y, r, x)
  BY <1>1, PairStart DEF PairPhases
<1>3. /\ m = n /\ f = w /\ y = leaf /\ r = root /\ x = next
      /\ m \in Nat /\ f \in [0..(m - 1) -> Nat] /\ y \in -1..(m - 1)
      /\ r \in 0..(m - 1) /\ x \in 0..(m - 1) /\ 2 <= m
  BY <1>2 DEF PairAt
<1>4. x < r
  BY <1>1, <1>3, PairFacts DEF PairPhases
<1>5. y + r = 2 * x - 1 /\ 1 <= x /\ Linked(f, r, x, m)
  BY <1>1, <1>2, SecondFacts
<1>6. \A k \in (r + 1)..(m - 1) : x <= f[k]
  BY <1>5 DEF Linked
<1>7. TakesRoot(f, y, r, x)
  BY <1>1, <1>2, <1>4, TakenNow
<1>8. PICK c, o : c = SortedCounts /\ o = AllNodes
  OBVIOUS
<1>9. PICK S, T, h : PairsSecond(m, c, o, f, y, r, x, S, T, h)
  BY <1>1, <1>3, <1>8 DEF PairCost
<1>10. PICK g, d, z : g = [f EXCEPT ![x] = f[x] + f[r], ![r] = x] /\ d = r - 1 /\ z = x - 1
  OBVIOUS
<1>11. \E R, v, e : PairsFirst(m, c, o, g, y, d, z, R, T, v, e)
  BY ONLY <1>5, <1>6, <1>7, <1>9, <1>10, SecondRoot
<1>12. n' = m /\ SortedCounts' = c /\ AllNodes' = o
  BY <1>1, <1>3, <1>8, CountsKept
<1>13. w' = g /\ leaf' = y /\ root' = d /\ next' = z
  BY <1>1, <1>3, <1>10
<1>14. QED BY <1>1, <1>11, <1>12, <1>13 DEF PairCost

LEMMA SecondLeafCost ==
  ASSUME Types, PairInv, PairCost, SecondLeaf
  PROVE  PairCost'
<1>1. /\ pc = "second" /\ pc' = "first" /\ ~TakesInner /\ hist' = hist /\ lits' = lits
      /\ w' = [w EXCEPT ![next] = w[next] + w[leaf]]
      /\ leaf' = leaf - 1 /\ root' = root /\ next' = next - 1
  BY DEF SecondLeaf, pairUnchanged, sortVars
<1>2. PICK m, f, y, r, x : PairAt(m, f, y, r, x)
  BY <1>1, PairStart DEF PairPhases
<1>3. /\ m = n /\ f = w /\ y = leaf /\ r = root /\ x = next
      /\ m \in Nat /\ f \in [0..(m - 1) -> Nat] /\ y \in -1..(m - 1)
      /\ r \in 0..(m - 1) /\ x \in 0..(m - 1) /\ 2 <= m
  BY <1>2 DEF PairAt
<1>4. 0 <= y
  BY <1>1, <1>3, PairFacts DEF PairPhases
<1>5. y + r = 2 * x - 1 /\ 1 <= x /\ Linked(f, r, x, m)
  BY <1>1, <1>2, SecondFacts
<1>6. \A k \in (r + 1)..(m - 1) : x <= f[k]
  BY <1>5 DEF Linked
<1>7. TakesLeaf(f, y, r, x)
  <2>1. y # -1
    BY <1>3, <1>4
  <2>2. QED BY <1>1, <1>2, <2>1, TakenNow
<1>8. PICK c, o : c = SortedCounts /\ o = AllNodes
  OBVIOUS
<1>9. PICK S, T, h : PairsSecond(m, c, o, f, y, r, x, S, T, h)
  BY <1>1, <1>3, <1>8 DEF PairCost
<1>10. PICK g, b, z : g = [f EXCEPT ![x] = f[x] + f[y]] /\ b = y - 1 /\ z = x - 1
  OBVIOUS
<1>11. \E R, v, e : PairsFirst(m, c, o, g, b, r, z, R, T, v, e)
  BY ONLY <1>5, <1>6, <1>7, <1>9, <1>10, SecondLeafTaken
<1>12. n' = m /\ SortedCounts' = c /\ AllNodes' = o
  BY <1>1, <1>3, <1>8, CountsKept
<1>13. w' = g /\ leaf' = b /\ root' = r /\ next' = z
  BY <1>1, <1>3, <1>10
<1>14. QED BY <1>1, <1>11, <1>12, <1>13 DEF PairCost

-----------------------------------------------------------------------------
(***************************************************************************)
(* Depths.                                                                 *)
(***************************************************************************)
\* What the reference takes for z mergers of nodes o.
CostOf(o, z) == (CHOOSE f : MergesOf(z, o, f))[z].cost

\* q is what the inner nodes 1.. of a tree with parents p weigh.
TreeCost(m, c, p, S, T, q) ==
  /\ c \in [0..(m - 1) -> Nat] /\ LeafSums(m, c, T)
  /\ S \in [0..(m - 1) -> Nat] /\ S[m - 1] = 0 /\ S[0] = q
  /\ Balanced(m, p, 1, 0, S, T)

\* A[k] is what lengths f take for the first k symbols.
Priced(m, c, f, A, x) ==
  /\ A \in [0..m -> Int] /\ A[0] = 0
  /\ \A k \in 0..(x - 1) : A[k + 1] = A[k] + c[k] * f[k]

\* Where the inner nodes from b on have depth t or more: those before have cost
\* each leaf from x on t bits.
LevelPrice(x, t, b, S, T, A) == A[x] + t * T[x] = S[0] - S[b - 1]

\* Where the first node of the next depth is r.
LEMMA LevelBalance ==
  ASSUME NEW m \in Nat, 2 <= m, NEW p, NEW d, Parents(p, m - 1), Depths(d, p, m - 1),
         NEW r \in Int, NEW v \in Int, NEW u \in Int, NEW t \in Int, NEW x,
         Level(d, m - 1, r, v, u, t, x), r < m => d[r] # t, u = 0 => r = m,
         NEW c, NEW S, NEW T, NEW q, TreeCost(m, c, p, S, T, q)
  PROVE  2 <= r /\ S[(r - u) - 1] = T[r - 2 * u] + S[r - 1]
<1>1. /\ 1 <= r - u /\ 0 <= u /\ u <= v /\ r <= m /\ 0 <= t
      /\ \A k \in (r - u)..(r - 1) : d[k] = t
      /\ \A k \in 1..((r - u) - 1) : d[k] < t
  BY DEF Level
<1>2. 2 <= r
  BY <1>1
<1>3. /\ \A k \in 1..(m - 1) : d[k] \in Nat
      /\ \A k \in 2..(m - 1) : d[k] = d[p[k]] + 1 /\ p[k] \in 1..(k - 1)
  BY DEF Depths, Parents
<1>4. PICK b \in Int : b = r - u
  OBVIOUS
<1>5. ASSUME NEW k \in 2..(r - 1) PROVE p[k] <= b - 1
  <2>1. p[k] \in 1..(r - 1) /\ k \in 2..(m - 1) /\ k \in 1..(r - 1)
    BY <1>1, <1>3
  <2>2. d[k] = d[p[k]] + 1 /\ d[k] \in Nat /\ d[p[k]] \in Nat
    BY <1>1, <1>3, <2>1
  <2>3. d[k] <= t
    <3>1. k \in b..(r - 1) \/ k \in 1..(b - 1)
      BY <1>4, <2>1
    <3>2. d[k] = t \/ d[k] < t
      BY <1>1, <1>4, <3>1
    <3>3. QED BY <2>2, <3>2
  <2>4. p[k] \notin b..(r - 1)
    BY <1>1, <1>4, <2>2, <2>3
  <2>5. QED BY <1>4, <2>1, <2>4
<1>6. ASSUME NEW k \in r..(m - 1) PROVE b - 1 < p[k]
  <2>1. u # 0 /\ r <= m - 1
    BY <1>1, <1>6
  <2>2. r - 1 \in b..(r - 1) /\ r - 1 \in 1..(m - 1) /\ r \in 1..(m - 1) /\ k \in 1..(m - 1)
    BY <1>1, <1>2, <1>4, <2>1
  <2>3. d[r - 1] = t /\ d[r] # t
    BY <1>1, <1>4, <2>1, <2>2
  <2>4. d[r - 1] <= d[r] /\ d[r] <= d[k]
    <3>1. m - 1 \in Nat /\ r - 1 <= r /\ r <= k
      BY <1>6
    <3>2. QED BY <2>2, <3>1, DepthsGrow
  <2>5. d[k] > t
    <3>1. d[r] \in Nat /\ d[k] \in Nat /\ d[r - 1] \in Nat
      BY <1>3, <2>2
    <3>2. QED BY <2>3, <2>4, <3>1
  <2>6. k \in 2..(m - 1)
    BY <1>2, <1>6
  <2>7. d[k] = d[p[k]] + 1 /\ p[k] \in 1..(k - 1)
    BY <1>3, <2>6
  <2>8. d[p[k]] \in Nat
    BY <1>3, <2>6, <2>7
  <2>9. p[k] \notin 1..(b - 1)
    BY <1>1, <1>4, <2>5, <2>7, <2>8
  <2>10. QED BY <1>4, <2>7, <2>9
<1>7. PICK z, k : z = r - 1 /\ k = b - 1
  OBVIOUS
<1>8. /\ k \in 0..(m - 1) /\ z \in 1..(m - 1) /\ 2 * k - z + 1 = r - 2 * u
  BY <1>1, <1>2, <1>4, <1>7
<1>9. /\ \A s \in (1 + 1)..z : p[s] <= k
      /\ \A s \in (z + 1)..(m - 1) : k < p[s]
  BY <1>5, <1>6, <1>7
<1>10. S[k] = T[2 * k - z + 1] + S[z]
  <2>1. Balanced(m, p, 1, 0, S, T)
    BY DEF TreeCost
  <2>2. QED BY ONLY <1>8, <1>9, <2>1 DEF Balanced
<1>11. QED BY <1>2, <1>4, <1>7, <1>8, <1>10

\* The products of the next lemma.
Distributes(t, a, b) ==
  /\ t * (a + b) = t * a + t * b /\ t * (a - b) = t * a - t * b
  /\ (t + 1) * b = t * b + b /\ b * t = t * b
  /\ t * a \in Int /\ t * b \in Int

LEMMA Distribute ==
  ASSUME NEW t \in Int, NEW a \in Int, NEW b \in Int
  PROVE  Distributes(t, a, b)
BY DEF Distributes

\* g has lengths f before x, and t from there on.
Filled(f, g, x, y, t) ==
  (\A k \in 0..(x - 1) : g[k] = f[k]) /\ \A k \in x..(y - 1) : g[k] = t

\* B takes what A did when the leaves from x on take t bits, those from y on one
\* more.
Paid(A, B, T, x, y, t) == B[y] + (t + 1) * T[y] = A[x] + t * T[x] + T[y]

\* The leaves of depth t get their places.
LEMMA PriceLeaves ==
  ASSUME NEW m \in Nat, NEW c \in [0..(m - 1) -> Nat], NEW T, LeafSums(m, c, T),
         NEW f, NEW A, NEW x \in 0..m, Priced(m, c, f, A, x), NEW y \in 0..m, x <= y,
         NEW t \in Nat, NEW g, Filled(f, g, x, y, t)
  PROVE  \E B : Priced(m, c, g, B, y) /\ Paid(A, B, T, x, y, t)
<1>1. /\ A \in [0..m -> Int] /\ A[0] = 0
      /\ \A k \in 0..(x - 1) : A[k + 1] = A[k] + c[k] * f[k]
      /\ \A k \in 0..(x - 1) : g[k] = f[k]
      /\ \A k \in x..(y - 1) : g[k] = t
  BY DEF Priced, Filled
<1>2. T \in [0..m -> Nat] /\ \A k \in 0..(m - 1) : T[k] = T[k + 1] + c[k]
  BY DEF LeafSums
<1>0. PICK z \in Int : z = A[x]
  BY <1>1
<1>3. PICK B : B = [k \in 0..m |-> IF k <= x THEN A[k] ELSE z + t * (T[x] - T[k])]
  OBVIOUS
<1>4. \A k \in 0..m : T[x] \in Nat /\ T[k] \in Nat
  BY <1>1, <1>2
<1>5. B \in [0..m -> Int]
  <2>1. ASSUME NEW k \in 0..m PROVE A[k] \in Int /\ z + t * (T[x] - T[k]) \in Int
    <3>1. T[x] - T[k] \in Int
      BY <1>4
    <3>2. t * (T[x] - T[k]) \in Int
      BY <3>1
    <3>3. QED BY <1>1, <3>2
  <2>2. QED BY <1>3, <2>1
<1>6. B[0] = 0
  BY <1>1, <1>3
<1>7. ASSUME NEW k \in 0..(x - 1) PROVE B[k + 1] = B[k] + c[k] * g[k]
  <2>1. k \in 0..m /\ k + 1 \in 0..m /\ k <= x /\ k + 1 <= x
    OBVIOUS
  <2>2. B[k + 1] = A[k + 1] /\ B[k] = A[k]
    BY <1>3, <2>1
  <2>3. QED BY <1>1, <2>2
<1>8. \A k \in x..m : B[k] = z + t * (T[x] - T[k])
  <2>1. ASSUME NEW k \in x..m PROVE B[k] = z + t * (T[x] - T[k])
    <3>1. CASE k = x
      <4>1. T[x] - T[x] = 0 /\ t * 0 = 0
        BY <1>4
      <4>2. QED BY <1>3, <1>0, <3>1, <4>1
    <3>2. CASE k # x
      BY <1>3, <3>2
    <3>3. QED BY <3>1, <3>2
  <2>2. QED BY <2>1
<1>9. ASSUME NEW k \in x..(y - 1) PROVE B[k + 1] = B[k] + c[k] * g[k]
  <2>1. k \in x..m /\ k + 1 \in x..m /\ k \in 0..(m - 1) /\ k \in 0..m /\ k + 1 \in 0..m
    OBVIOUS
  <2>2. /\ B[k] = z + t * (T[x] - T[k]) /\ B[k + 1] = z + t * (T[x] - T[k + 1])
        /\ g[k] = t
    BY <1>1, <1>8, <2>1
  <2>3. /\ T[k] = T[k + 1] + c[k] /\ T[k + 1] \in Nat /\ c[k] \in Nat /\ T[k] \in Nat
        /\ T[x] \in Nat
    BY <1>2, <1>4, <2>1
  <2>4. PICK e, b : e = T[x] - T[k] /\ b = c[k] /\ e \in Int /\ b \in Int
    <3>1. T[x] - T[k] \in Int /\ c[k] \in Int
      BY <2>3
    <3>2. QED BY <3>1
  <2>5. T[x] - T[k + 1] = e + b
    BY ONLY <2>3, <2>4
  <2>6. B[k] = z + t * e /\ B[k + 1] = z + t * (e + b) /\ c[k] * g[k] = b * t
    BY ONLY <2>2, <2>4, <2>5
  <2>7. Distributes(t, e, b)
    BY ONLY t \in Nat, <2>4, Distribute
  <2>8. t * (e + b) = t * e + t * b /\ b * t = t * b /\ t * e \in Int /\ t * b \in Int
    BY ONLY <2>7 DEF Distributes
  <2>9. z + t * (e + b) = (z + t * e) + t * b
    BY ONLY z \in Int, <2>8
  <2>10. QED BY ONLY <2>6, <2>8, <2>9
<1>10. Priced(m, c, g, B, y)
  <2>1. \A k \in 0..(y - 1) : k \in 0..(x - 1) \/ k \in x..(y - 1)
    OBVIOUS
  <2>2. \A k \in 0..(y - 1) : B[k + 1] = B[k] + c[k] * g[k]
    BY <1>7, <1>9, <2>1
  <2>3. QED BY <1>5, <1>6, <2>2 DEF Priced
<1>11. B[y] + (t + 1) * T[y] = A[x] + t * T[x] + T[y]
  <2>1. B[y] = z + t * (T[x] - T[y])
    BY <1>8
  <2>2. PICK a \in Int, b \in Int : a = T[x] /\ b = T[y]
    BY <1>2
  <2>3. Distributes(t, a, b)
    BY ONLY t \in Nat, a \in Int, b \in Int, Distribute
  <2>4. t * (a - b) = t * a - t * b /\ (t + 1) * b = t * b + b /\ t * a \in Int /\ t * b \in Int
    BY ONLY <2>3 DEF Distributes
  <2>5. PICK P, Q, D, E :
              /\ P \in Int /\ Q \in Int /\ P = t * a /\ Q = t * b /\ D = P - Q /\ E = Q + b
              /\ D = t * (a - b) /\ E = (t + 1) * b
    BY ONLY <2>4
  <2>6. (z + D) + E = z + P + b
    BY <2>5
  <2>7. QED BY ONLY <1>0, <2>1, <2>2, <2>5, <2>6
<1>12. QED BY <1>10, <1>11 DEF Paid

-----------------------------------------------------------------------------
(***************************************************************************)
(* What the lengths take in all.                                           *)
(***************************************************************************)
\* Sums from the start are those of Sigma.
LEMMA SumsAre ==
  ASSUME NEW m \in Nat, NEW g, Integral(g, m), NEW h, SumsOf(g, m, h)
  PROVE  h[m] = Sigma(g, m)
<1>1. h \in [0..m -> Int] /\ h[0] = 0 /\ \A k \in 1..m : h[k] = h[k - 1] + g[k]
  BY DEF SumsOf
<1> DEFINE T == {k \in Nat : k <= m => h[k] = Sigma(g, k)}
<1>2. 0 \in T
  BY <1>1, SigmaNone
<1>3. ASSUME NEW k \in T PROVE k + 1 \in T
  <2>1. SUFFICES ASSUME k + 1 <= m PROVE h[k + 1] = Sigma(g, k + 1)
    BY <1>3
  <2>2. k \in Nat /\ h[k] = Sigma(g, k) /\ k + 1 \in 1..m /\ (k + 1) - 1 = k
    BY <1>3, <2>1
  <2>3. h[k + 1] = h[k] + g[k + 1]
    BY <1>1, <2>2
  <2>4. Integral(g, k + 1)
    BY <2>2 DEF Integral
  <2>5. Sigma(g, k + 1) = Sigma(g, k) + g[k + 1]
    BY <2>2, <2>4, SigmaNext
  <2>6. QED BY <2>2, <2>3, <2>5
<1>4. T = Nat
  <2> HIDE DEF T
  <2>1. T \in SUBSET Nat
    BY DEF T
  <2>2. QED BY <1>2, <1>3, <2>1, InductiveSet
<1>5. QED BY <1>4

Shifted(s) == {k + 1 : k \in s}

\* A sum that MapThenSumSet makes of 0..m-1, as one that starts at 1.
LEMMA ShiftedSum ==
  ASSUME NEW m \in Nat, NEW e \in [0..(m - 1) -> Int], NEW g, g = [k \in 1..m |-> e[k - 1]]
  PROVE  LET f == CHOOSE x : SumsOver(0..(m - 1), e, x)
         IN  SumsOver(0..(m - 1), e, f) /\ f[0..(m - 1)] = Sigma(g, m)
<1>1. PICK D : D = 0..(m - 1)
  OBVIOUS
<1>2. IsFiniteSet(D)
  BY <1>1, FS_Interval
<1>3. Integral(g, m)
  <2>1. ASSUME NEW k \in 1..m PROVE g[k] \in Int
    <3>1. k - 1 \in 0..(m - 1)
      OBVIOUS
    <3>2. QED BY <3>1
  <2>2. QED BY <2>1 DEF Integral
<1>4. PICK y : y = [s \in SUBSET D |-> Sigma(Only(g, Shifted(s), m), m)]
  OBVIOUS
<1>5. \A s \in SUBSET D : Shifted(s) \in SUBSET (1..m)
  BY <1>1 DEF Shifted
<1>6. ASSUME NEW s \in SUBSET D, NEW x \in s
      PROVE  y[s] = e[x] + y[s \ {x}] /\ y[s] \in Int
  <2>1. x + 1 \in Shifted(s) /\ g[x + 1] = e[x]
    <3>1. x + 1 \in 1..m /\ (x + 1) - 1 = x
      BY <1>1
    <3>2. QED BY <3>1 DEF Shifted
  <2>2. Shifted(s) \ {x + 1} = Shifted(s \ {x})
    <3>1. \A k \in s : k + 1 = x + 1 <=> k = x
      BY <1>1
    <3>2. QED BY <3>1 DEF Shifted
  <2>3. /\ Sigma(Only(g, Shifted(s), m), m)
             = g[x + 1] + Sigma(Only(g, Shifted(s) \ {x + 1}, m), m)
        /\ Sigma(Only(g, Shifted(s), m), m) \in Int
    BY <1>3, <1>5, <2>1, OnlyLess
  <2>4. s \ {x} \in SUBSET D
    OBVIOUS
  <2>5. QED BY <1>4, <2>1, <2>2, <2>3, <2>4
<1>7. y[{}] = 0
  <2>1. Shifted({}) = {}
    BY DEF Shifted
  <2>2. QED BY <1>4, <2>1, OnlyNone
<1>8. Additive(D, e, y)
  <2>1. \A s \in SUBSET D : y[s] \in Int
    <3>1. ASSUME NEW s \in SUBSET D PROVE y[s] \in Int
      <4>1. CASE s = {}
        BY <1>7, <4>1
      <4>2. CASE s # {}
        BY <1>6, <4>2
      <4>3. QED BY <4>1, <4>2
    <3>2. QED BY <3>1
  <2>2. y \in [SUBSET D -> Int]
    BY <1>4, <2>1
  <2>3. QED BY <1>6, <1>7, <2>2 DEF Additive
<1>9. y[D] = Sigma(g, m)
  <2>1. \A k \in 1..m : k - 1 \in D /\ k = (k - 1) + 1
    BY <1>1
  <2>2. Shifted(D) = 1..m
    BY <1>5, <2>1 DEF Shifted
  <2>3. \A k \in 1..m : Only(g, 1..m, m)[k] = g[k]
    BY DEF Only
  <2>4. Sigma(Only(g, 1..m, m), m) = Sigma(g, m)
    BY <1>3, <2>3, SigmaSame
  <2>5. y[D] = Sigma(Only(g, Shifted(D), m), m)
    BY <1>4
  <2>6. QED BY <2>2, <2>4, <2>5
<1>10. PICK f : f = CHOOSE x : SumsOver(D, e, x)
  OBVIOUS
<1>11. SumsOver(D, e, f) /\ f[D] = y[D]
  BY <1>2, <1>8, <1>10, AdditiveSum
<1>12. QED BY <1>1, <1>9, <1>10, <1>11

\* What Cost adds up.
CostSums(f, m, h) ==
  h = [s \in SUBSET (0..(m - 1)) |->
         IF s = {} THEN 0 ELSE Count(Lit(OneOf(s))) * f[OneOf(s)] + h[s \ {OneOf(s)}]]

\* Cost is the last of the prices.
LEMMA CostIsPrice ==
  ASSUME NEW m \in Nat, m = n, NEW f \in [0..(m - 1) -> Nat], NEW c \in [0..(m - 1) -> Nat],
         c = SortedCounts, NEW A, Priced(m, c, f, A, m)
  PROVE  Cost(f) = A[m]
<1>1. PICK e : e = [k \in 0..(m - 1) |-> c[k] * f[k]]
  OBVIOUS
<1>2. e \in [0..(m - 1) -> Int]
  <2>1. ASSUME NEW k \in 0..(m - 1) PROVE c[k] * f[k] \in Int
    <3>1. c[k] \in Int /\ f[k] \in Int
      OBVIOUS
    <3>2. \A a, b \in Int : a * b \in Int
      OBVIOUS
    <3>3. QED BY <3>1, <3>2, Zenon
  <2>2. QED BY <1>1, <2>1
<1>3. PICK g : g = [k \in 1..m |-> e[k - 1]]
  OBVIOUS
<1>4. ASSUME NEW k \in 1..m PROVE g[k] \in Int /\ A[k] = A[k - 1] + g[k]
  <2>1. PICK l \in 0..(m - 1) : l = k - 1 /\ l + 1 = k
    <3>1. k - 1 \in 0..(m - 1) /\ (k - 1) + 1 = k
      OBVIOUS
    <3>2. QED BY <3>1
  <2>2. g[k] = e[l] /\ e[l] \in Int /\ e[l] = c[l] * f[l]
    BY <1>1, <1>2, <1>3, <2>1
  <2>3. A[l + 1] = A[l] + c[l] * f[l]
    BY DEF Priced
  <2>4. A[l + 1] = A[l] + e[l]
    BY ONLY <2>2, <2>3
  <2>5. QED BY <2>1, <2>2, <2>4
<1>5. Integral(g, m) /\ SumsOf(g, m, A)
  BY <1>4 DEF Integral, SumsOf, Priced
<1>6. Sigma(g, m) = A[m]
  BY <1>5, SumsAre
<1>7. \A h : CostSums(f, m, h) <=> SumsOver(0..(m - 1), e, h)
  <2>1. ASSUME NEW s \in SUBSET (0..(m - 1)), s # {}
        PROVE  e[OneOf(s)] = Count(Lit(OneOf(s))) * f[OneOf(s)]
    <3>1. OneOf(s) \in 0..(m - 1)
      BY <2>1 DEF OneOf
    <3>2. QED BY <1>1, <3>1 DEF SortedCounts
  <2>2. QED BY <2>1 DEF CostSums, SumsOver
<1>8. PICK h : h = CHOOSE x : CostSums(f, m, x)
  OBVIOUS
<1>9. h = CHOOSE x : SumsOver(0..(m - 1), e, x)
  BY <1>7, <1>8
<1>10. h[0..(m - 1)] = Sigma(g, m)
  BY <1>2, <1>3, <1>9, ShiftedSum
<1>11. Cost(f) = h[0..(m - 1)]
  BY <1>8 DEF Cost, CostSums, OneOf, MapThenSumSet, MapThenFoldSet
<1>12. QED BY <1>6, <1>10, <1>11

-----------------------------------------------------------------------------
\* What the array and the reference have when all nodes are paired.
LEMMA PairsDone ==
  ASSUME NEW m \in Nat, 2 <= m, NEW c, NEW o, NEW f, NEW y, NEW S, NEW T, NEW v, NEW h,
         PairsFirst(m, c, o, f, y, 1, 0, S, T, v, h), NEW p, \A k \in 2..(m - 1) : p[k] = f[k]
  PROVE  TreeCost(m, c, p, S, T, CostOf(o, m - 1))
<1>1. /\ ArrayAt(m, c, f, y, 1, 0) /\ LeafSums(m, c, T) /\ Inners(m, f, 1, 0, S)
      /\ Balanced(m, f, 1, 0, S, T)
      /\ States(h, o, m - 1 - 0)
      /\ Mirrors(h[m - 1 - 0], m - 1 - 0, S[0], PairPlaces(y, 1, 0), WeightsAt(c, f))
  BY DEF PairsFirst, Sums
<1>2. c \in [0..(m - 1) -> Nat]
  BY <1>1 DEF ArrayAt, Descending
<1>3. S \in [0..(m - 1) -> Nat] /\ S[m - 1] = 0
  BY <1>1 DEF Inners
<1>4. PICK z \in Nat : z = m - 1 /\ z = m - 1 - 0
  OBVIOUS
<1>5. CostOf(o, z) = h[z].cost
  <2>1. States(h, o, z)
    BY <1>1, <1>4
  <2>2. (CHOOSE e : MergesOf(z, o, e))[z] = h[z]
    BY <1>4, <2>1, StatesAre
  <2>3. QED BY <2>2 DEF CostOf
<1>6. h[z].cost = S[0]
  BY <1>1, <1>4 DEF Mirrors
<1>7. Balanced(m, p, 1, 0, S, T)
  <2>1. 1 + 1 = 2 /\ 1 \in Nat
    OBVIOUS
  <2>2. \A k \in (1 + 1)..(m - 1) : p[k] = f[k]
    BY <2>1
  <2>3. QED BY <1>1, <2>1, <2>2, BalanceSame
<1>8. QED BY <1>1, <1>2, <1>3, <1>4, <1>5, <1>6, <1>7 DEF TreeCost

\* Where no node has a depth yet, nothing is taken.
LEMMA NothingPaid ==
  ASSUME NEW m \in Nat, 2 <= m, NEW c, NEW f, NEW p, NEW S, NEW T, NEW q,
         TreeCost(m, c, p, S, T, q)
  PROVE  \E A : Priced(m, c, f, A, 0) /\ LevelPrice(0, 0, 1, S, T, A)
<1>1. S \in [0..(m - 1) -> Nat] /\ T \in [0..m -> Nat]
  BY DEF TreeCost, LeafSums
<1>2. PICK A : A = [k \in 0..m |-> 0]
  OBVIOUS
<1>3. Priced(m, c, f, A, 0)
  BY <1>2 DEF Priced
<1>4. PICK a \in Nat, b \in Nat : a = S[0] /\ b = T[0]
  BY <1>1
<1>5. A[0] = 0 /\ 1 - 1 = 0
  BY <1>2
<1>6. 0 + 0 * b = a - a
  OBVIOUS
<1>7. LevelPrice(0, 0, 1, S, T, A)
  BY <1>4, <1>5, <1>6 DEF LevelPrice
<1>8. QED BY <1>3, <1>7

\* The leaves of depth t and the nodes behind them take what the tree says.
LEMMA LevelPaid ==
  ASSUME NEW m \in Nat, 2 <= m, NEW p, NEW d, Parents(p, m - 1), Depths(d, p, m - 1),
         NEW r \in Int, NEW v \in Int, NEW u \in Int, NEW t \in Int, NEW x \in Int,
         Level(d, m - 1, r, v, u, t, x), r < m => d[r] # t, u = 0 => r = m,
         NEW c, NEW S, NEW T, NEW q, TreeCost(m, c, p, S, T, q),
         NEW f, NEW A, Priced(m, c, f, A, x), LevelPrice(x, t, r - u, S, T, A),
         NEW y, y = r - 2 * u, NEW g,
         Filled(f, g, x, y, t)
  PROVE  \E B : Priced(m, c, g, B, y) /\ LevelPrice(y, t + 1, r, S, T, B)
<1>1. /\ 1 <= r - u /\ 0 <= u /\ u <= v /\ r <= m /\ 0 <= t
      /\ 0 <= x /\ x = (r - u) - v
  BY DEF Level
<1>2. x \in 0..m /\ y \in 0..m /\ x <= y /\ t \in Nat
  BY <1>1
<1>3. 2 <= r /\ S[(r - u) - 1] = T[r - 2 * u] + S[r - 1]
  BY LevelBalance
<1>4. /\ c \in [0..(m - 1) -> Nat] /\ LeafSums(m, c, T) /\ S \in [0..(m - 1) -> Nat]
      /\ T \in [0..m -> Nat]
  BY DEF TreeCost, LeafSums
<1>5. PICK B : Priced(m, c, g, B, y) /\ Paid(A, B, T, x, y, t)
  <2>1. m \in Nat /\ Priced(m, c, f, A, x) /\ Filled(f, g, x, y, t)
    OBVIOUS
  <2>2. QED BY ONLY <1>2, <1>4, <2>1, PriceLeaves
<1>6. A[x] + t * T[x] = S[0] - S[(r - u) - 1]
  BY DEF LevelPrice
<1>7. PICK z0 \in Nat, z1 \in Nat, z2 \in Nat, z3 \in Nat :
        z0 = S[0] /\ z1 = S[(r - u) - 1] /\ z2 = S[r - 1] /\ z3 = T[y]
  <2>1. 0 \in 0..(m - 1) /\ (r - u) - 1 \in 0..(m - 1) /\ r - 1 \in 0..(m - 1)
    BY <1>1, <1>3
  <2>2. S[0] \in Nat /\ S[(r - u) - 1] \in Nat /\ S[r - 1] \in Nat /\ T[y] \in Nat
    BY <1>2, <1>4, <2>1
  <2>3. QED BY <2>2
<1>8. z1 = z3 + z2
  BY <1>3, <1>7
<1>9. (z0 - z1) + z3 = z0 - z2
  BY <1>8
<1>10. B[y] + (t + 1) * T[y] = z0 - z2
  BY ONLY <1>5, <1>6, <1>7, <1>9 DEF Paid
<1>11. LevelPrice(y, t + 1, r, S, T, B)
  BY <1>7, <1>10 DEF LevelPrice
<1>12. QED BY <1>5, <1>11

\* In the end all is paid.
LEMMA AllPaid ==
  ASSUME NEW m \in Nat, 2 <= m, NEW c, NEW p, NEW S, NEW T, NEW q, TreeCost(m, c, p, S, T, q),
         NEW t \in Int, NEW A, NEW g, Priced(m, c, g, A, m), LevelPrice(m, t, m, S, T, A)
  PROVE  A[m] = q
<1>1. /\ T \in [0..m -> Nat] /\ T[m] = 0
      /\ S \in [0..(m - 1) -> Nat] /\ S[m - 1] = 0 /\ S[0] = q
  BY DEF TreeCost, LeafSums
<1>2. A[m] + t * T[m] = S[0] - S[m - 1]
  BY DEF LevelPrice
<1>3. t * 0 = 0
  OBVIOUS
<1>4. PICK z \in Int : z = A[m]
  BY DEF Priced
<1>5. PICK a \in Nat : a = S[0]
  BY <1>1
<1>6. z + 0 = a - 0
  BY ONLY <1>1, <1>2, <1>3, <1>4, <1>5
<1>7. QED BY <1>1, <1>4, <1>5, <1>6

-----------------------------------------------------------------------------
(***************************************************************************)
(* Measuring.                                                              *)
(***************************************************************************)
\* Phases 2 and 3 lead from what the tree weighs to what its leaves cost.
LeastCost == CostOf(AllNodes, n - 1)

DepthCost ==
  pc = "depth" =>
    \E p, S, T : DepthNow(p) /\ TreeCost(n, SortedCounts, p, S, T, LeastCost)

LevelCost ==
  pc = "level" =>
    \E p, d, S, T, A : /\ LevelNow(p, d) /\ TreeCost(n, SortedCounts, p, S, T, LeastCost)
                       /\ Priced(n, SortedCounts, w, A, next)
                       /\ LevelPrice(next, depth, root - used, S, T, A)

MeasuredCost ==
  pc = "measured" /\ 2 <= n =>
    /\ SortedCounts \in [0..(n - 1) -> Nat]
    /\ \E A : Priced(n, SortedCounts, w, A, n) /\ A[n] = LeastCost

\* A step has nothing to do with the reference, either.
LEMMA LeastKept ==
  ASSUME hist' = hist, lits' = lits
  PROVE  n' = n /\ SortedCounts' = SortedCounts /\ LeastCost' = LeastCost
<1>1. n' = n /\ SortedCounts' = SortedCounts /\ AllNodes' = AllNodes
  BY CountsKept
<1>2. \A o, z : CostOf(o, z)' = CostOf(o, z)
  BY DEF CostOf, MergesOf, MergedOnce, LightestOf
<1>3. QED BY <1>1, <1>2 DEF LeastCost

\* Each step of them keeps the sum.
LEMMA PairedCost ==
  ASSUME Types, PairInv, PairCost, Paired
  PROVE  DepthCost'
<1>1. /\ pc = "first" /\ pc' = "depth" /\ ~pairsRunning /\ lits' = lits /\ hist' = hist
  BY DEF Paired, pairUnchanged, sortVars
<1>2. root = 1 /\ \E p : DepthNow(p)' /\ \A k \in 2..(n - 1) : p[k] = w[k]
  BY PairedParents
<1>3. PICK p : DepthNow(p)' /\ \A k \in 2..(n - 1) : p[k] = w[k]
  BY <1>2
<1>4. PICK m, f, y, r, x : PairAt(m, f, y, r, x)
  BY <1>1, PairStart DEF PairPhases
<1>5. m = n /\ f = w /\ y = leaf /\ r = root /\ x = next /\ m \in Nat /\ 2 <= m /\ x \in 0..(m - 1)
  BY <1>4 DEF PairAt
<1>6. r = 1 /\ x = 0
  BY <1>1, <1>2, <1>5 DEF pairsRunning
<1>7. PICK c, o : c = SortedCounts /\ o = AllNodes
  OBVIOUS
<1>8. PICK S, T, v, h : PairsFirst(m, c, o, f, y, 1, 0, S, T, v, h)
  BY <1>1, <1>5, <1>6, <1>7 DEF PairCost
<1>9. \A k \in 2..(m - 1) : p[k] = f[k]
  BY <1>3, <1>5
<1>10. TreeCost(m, c, p, S, T, CostOf(o, m - 1))
  BY <1>5, <1>8, <1>9, PairsDone
<1>11. n' = m /\ SortedCounts' = c /\ LeastCost' = CostOf(o, m - 1)
  BY <1>1, <1>5, <1>7, LeastKept DEF LeastCost
<1>12. QED BY <1>3, <1>10, <1>11 DEF DepthCost

LEMMA DeepenCost ==
  ASSUME Types, DepthCost, Deepen
  PROVE  DepthCost'
<1>1. pc = "depth" /\ lits' = lits /\ hist' = hist
  BY DEF Deepen, pairUnchanged, sortVars
<1>2. PICK p, S, T : DepthNow(p) /\ TreeCost(n, SortedCounts, p, S, T, LeastCost)
  BY <1>1 DEF DepthCost
<1>3. DepthNow(p)'
  BY <1>2, DeepenParents
<1>4. n' = n /\ SortedCounts' = SortedCounts /\ LeastCost' = LeastCost
  BY <1>1, LeastKept
<1>5. QED BY <1>2, <1>3, <1>4 DEF DepthCost

LEMMA DeepenedCost ==
  ASSUME Types, DepthCost, Deepened
  PROVE  LevelCost'
<1>1. /\ pc = "depth" /\ lits' = lits /\ hist' = hist /\ w' = w
      /\ used' = 0 /\ depth' = 0 /\ root' = 1 /\ next' = 0
  BY DEF Deepened, sortVars
<1>2. PICK p, S, T : DepthNow(p) /\ TreeCost(n, SortedCounts, p, S, T, LeastCost)
  BY <1>1 DEF DepthCost
<1>3. PICK d : LevelNow(p, d)'
  BY <1>2, DeepenedParents
<1>4. n \in Nat /\ 2 <= n
  BY <1>2, LengthFacts DEF DepthNow
<1>5. PICK m, f, c, q : m = n /\ f = w /\ c = SortedCounts /\ q = LeastCost
  OBVIOUS
<1>6. m \in Nat /\ 2 <= m /\ TreeCost(m, c, p, S, T, q)
  BY <1>2, <1>4, <1>5
<1>7. PICK A : Priced(m, c, f, A, 0) /\ LevelPrice(0, 0, 1, S, T, A)
  BY ONLY <1>6, NothingPaid
<1>8. n' = m /\ SortedCounts' = c /\ LeastCost' = q /\ w' = f
  BY <1>1, <1>5, LeastKept
<1>9. next' = 0 /\ depth' = 0 /\ root' - used' = 1
  BY <1>1
<1>10. QED BY <1>3, <1>6, <1>7, <1>8, <1>9 DEF LevelCost

LEMMA CountInnerCost ==
  ASSUME Types, LevelCost, CountInner
  PROVE  LevelCost'
<1>1. /\ pc = "level" /\ lits' = lits /\ hist' = hist /\ w' = w
      /\ root' = root + 1 /\ used' = used + 1 /\ next' = next /\ depth' = depth
  BY DEF CountInner, sortVars
<1>2. PICK p, d, S, T, A :
        /\ LevelNow(p, d) /\ TreeCost(n, SortedCounts, p, S, T, LeastCost)
        /\ Priced(n, SortedCounts, w, A, next)
        /\ LevelPrice(next, depth, root - used, S, T, A)
  BY <1>1 DEF LevelCost
<1>3. LevelNow(p, d)'
  BY <1>2, CountInnerParents
<1>4. n' = n /\ SortedCounts' = SortedCounts /\ LeastCost' = LeastCost
  BY <1>1, LeastKept
<1>5. root' - used' = root - used
  BY <1>1, NumberTypes
<1>6. QED BY <1>1, <1>2, <1>3, <1>4, <1>5 DEF LevelCost

LEMMA AssignLeavesCost ==
  ASSUME Types, LeafInv, LevelCost, AssignLeaves
  PROVE  LevelCost' /\ MeasuredCost'
<1>1. /\ pc = "level" /\ ~IsInner /\ lits' = lits /\ hist' = hist
      /\ w' = [k \in DOMAIN w |-> IF k \in LeavesHere THEN depth ELSE w[k]]
      /\ next' = IF avail > used THEN next + avail - used ELSE next
      /\ depth' = depth + 1 /\ used' = 0 /\ root' = root
      /\ pc' = IF used > 0 THEN "level" ELSE "measured"
  BY DEF AssignLeaves, sortVars
<1>2. PICK p, d, S, T, A :
        /\ LevelNow(p, d) /\ TreeCost(n, SortedCounts, p, S, T, LeastCost)
        /\ Priced(n, SortedCounts, w, A, next)
        /\ LevelPrice(next, depth, root - used, S, T, A)
  BY <1>1 DEF LevelCost
<1>3. PICK m, f, r, v, u, t, x : LevelAt(m, f, p, d, r, v, u, t, x)
  BY <1>1, <1>2, LevelHere
<1>4. /\ m = n /\ f = w /\ r = root /\ v = avail /\ u = used /\ t = depth /\ x = next
      /\ m \in Nat /\ 2 <= m /\ f \in [0..(m - 1) -> Nat]
      /\ r \in Int /\ v \in Int /\ u \in Int /\ t \in Int /\ x \in Int
      /\ Parents(p, m - 1) /\ Depths(d, p, m - 1)
      /\ Level(d, m - 1, r, v, u, t, x)
      /\ \A k \in r..(m - 1) : f[k] = d[k]
  BY <1>3 DEF LevelAt
<1>5. /\ 1 <= r - u /\ 0 <= u /\ u <= v /\ r <= (m - 1) + 1 /\ 0 <= t
      /\ 0 <= x /\ x = (r - u) - v
  BY <1>4 DEF Level
<1>6. PICK c, q : c = SortedCounts /\ q = LeastCost
  OBVIOUS
<1>7. r < m => d[r] # t /\ f[r] = d[r]
  <2>1. SUFFICES ASSUME r < m PROVE d[r] # t /\ f[r] = d[r]
    OBVIOUS
  <2>2. f[r] # t
    BY <1>1, <1>4, <2>1 DEF IsInner
  <2>3. r \in r..(m - 1)
    BY <1>4, <2>1
  <2>4. QED BY <1>4, <2>2, <2>3
<1>8. u = 0 => r = m
  <2>1. SUFFICES ASSUME u = 0 PROVE r = m
    OBVIOUS
  <2>2. r < m => f[r] # t - 1
    BY <1>1, <1>4, <2>1 DEF LeafInv
  <2>3. r <= m - 1 => d[r] # t /\ d[r] # t - 1
    BY <1>4, <1>7, <2>2
  <2>4. m - 1 \in Nat /\ (m - 1) + 1 = m
    BY <1>4
  <2>5. Level(d, m - 1, r, v, 0, t, x)
    BY <1>4, <2>1
  <2>6. r = (m - 1) + 1
    BY <1>4, <2>3, <2>4, <2>5, LastLevel
  <2>7. QED BY <2>4, <2>6
<1>9. PICK y \in Int : y = r - 2 * u /\ y = x + (v - u)
  BY <1>4, <1>5
<1>10. next' = y
  BY <1>1, <1>4, <1>5, <1>9
<1>11. PICK g : g = w'
  OBVIOUS
<1>12. Filled(f, g, x, y, t)
  <2>1. LeavesHere = x..(y - 1)
    <3>1. x + v - u - 1 = y - 1
      BY <1>4, <1>9
    <3>2. QED BY <1>4, <3>1 DEF LeavesHere
  <2>2. \A k \in 0..(m - 1) : g[k] = IF k \in x..(y - 1) THEN t ELSE f[k]
    BY <1>1, <1>4, <1>11, <2>1
  <2>3. \A k \in 0..(x - 1) : k \in 0..(m - 1) /\ k \notin x..(y - 1)
    BY <1>4, <1>5
  <2>4. \A k \in x..(y - 1) : k \in 0..(m - 1)
    BY <1>4, <1>5, <1>9
  <2>5. QED BY <2>2, <2>3, <2>4 DEF Filled
<1>13. /\ TreeCost(m, c, p, S, T, q) /\ Priced(m, c, f, A, x)
       /\ LevelPrice(x, t, r - u, S, T, A)
  BY <1>2, <1>4, <1>6
<1>14. PICK B : Priced(m, c, g, B, y) /\ LevelPrice(y, t + 1, r, S, T, B)
  <2>1. /\ m \in Nat /\ 2 <= m /\ Parents(p, m - 1) /\ Depths(d, p, m - 1)
        /\ r \in Int /\ v \in Int /\ u \in Int /\ t \in Int /\ x \in Int
        /\ Level(d, m - 1, r, v, u, t, x) /\ (r < m => d[r] # t)
    BY <1>4, <1>7
  <2>2. y = r - 2 * u
    BY <1>9
  <2>3. QED BY ONLY <1>8, <1>12, <1>13, <2>1, <2>2, LevelPaid
<1>15. n' = m /\ SortedCounts' = c /\ LeastCost' = q
  BY <1>1, <1>4, <1>6, LeastKept
<1>16. CASE u > 0
  <2>1. pc' = "level"
    BY <1>1, <1>4, <1>16
  <2>2. LevelNow(p, d)'
    BY <1>2, <2>1, AssignLeavesParents
  <2>3. depth' = t + 1 /\ root' - used' = r
    BY <1>1, <1>4
  <2>4. LevelCost'
    BY <1>10, <1>11, <1>13, <1>14, <1>15, <2>2, <2>3 DEF LevelCost
  <2>5. QED BY <2>1, <2>4 DEF MeasuredCost
<1>17. CASE ~(u > 0)
  <2>1. u = 0 /\ pc' = "measured"
    BY <1>1, <1>4, <1>5, <1>17
  <2>2. r = m /\ y = m
    BY <1>4, <1>8, <1>9, <2>1
  <2>3. Priced(m, c, g, B, m) /\ LevelPrice(m, t + 1, m, S, T, B) /\ t + 1 \in Int
    BY <1>4, <1>14, <2>2
  <2>4. B[m] = q
    <3>1. m \in Nat /\ 2 <= m
      BY <1>4
    <3>2. QED BY ONLY <1>13, <2>3, <3>1, AllPaid
  <2>5. c \in [0..(m - 1) -> Nat]
    BY <1>13 DEF TreeCost
  <2>6. MeasuredCost'
    BY <1>11, <1>15, <2>3, <2>4, <2>5 DEF MeasuredCost
  <2>7. QED BY <2>1, <2>6 DEF LevelCost
<1>18. QED BY <1>16, <1>17

-----------------------------------------------------------------------------
\* The strengthening of CodeIsCheapest.
CheapInv == PairCost /\ DepthCost /\ LevelCost /\ MeasuredCost

\* What the other phases have to do with it: nothing.
LEMMA NoCost ==
  ASSUME pc' \notin {"first", "second", "depth", "level", "measured"}
  PROVE  CheapInv'
BY DEF CheapInv, PairCost, DepthCost, LevelCost, MeasuredCost

LEMMA SortingCost ==
  ASSUME IInv, Sorting
  PROVE  CheapInv'
<1>1. CASE Sorted
  <2>1. /\ pc' \in {"measured", "first"} /\ lits' = lits /\ (pc' = "measured" => n <= 1)
    BY <1>1 DEF Sorted, sortVars
  <2>2. n' = n /\ n \in Nat
    BY <2>1, LengthFacts DEF n, IInv
  <2>3. MeasuredCost'
    BY <2>1, <2>2 DEF MeasuredCost
  <2>4. PairCost'
    BY <1>1, SortedCost
  <2>5. QED BY <2>1, <2>3, <2>4 DEF CheapInv, DepthCost, LevelCost
<1>2. CASE ~Sorted
  <2>1. pc' \in Sorts
    BY <1>2 DEF Sorting, Collect, Collected, StartInsert, Sink, NextInsert,
                Inserted, StartScan, Scan, Scanned, Sorts
  <2>2. QED BY <2>1, NoCost DEF Sorts
<1>3. QED BY <1>1, <1>2

LEMMA PairingCost ==
  ASSUME IInv, CheapInv, Pairing
  PROVE  CheapInv'
<1>1. Types /\ PairInv /\ PairCost
  BY DEF IInv, PhaseInv, CheapInv
<1>2. CASE Paired
  <2>1. pc' = "depth"
    BY <1>2 DEF Paired
  <2>2. DepthCost'
    BY <1>1, <1>2, PairedCost
  <2>3. QED BY <2>1, <2>2 DEF CheapInv, PairCost, LevelCost, MeasuredCost
<1>3. CASE ~Paired
  <2>1. pc' \in {"first", "second"}
    BY <1>3 DEF Pairing, FirstInner, FirstLeaf, SecondInner, SecondLeaf
  <2>2. PairCost'
    BY <1>1, <1>3, FirstInnerCost, FirstLeafCost, SecondInnerCost, SecondLeafCost DEF Pairing
  <2>3. QED BY <2>1, <2>2 DEF CheapInv, DepthCost, LevelCost, MeasuredCost
<1>4. QED BY <1>2, <1>3

LEMMA MeasuringCost ==
  ASSUME IInv, LeafInv, CheapInv, Measuring
  PROVE  CheapInv'
<1>1. Types /\ DepthCost /\ LevelCost
  BY DEF IInv, CheapInv
<1>2. CASE Deepen
  <2>1. pc' = "depth"
    BY <1>2 DEF Deepen
  <2>2. DepthCost'
    BY <1>1, <1>2, DeepenCost
  <2>3. QED BY <2>1, <2>2 DEF CheapInv, PairCost, LevelCost, MeasuredCost
<1>3. CASE Deepened \/ CountInner
  <2>1. pc' = "level"
    BY <1>3 DEF Deepened, CountInner
  <2>2. LevelCost'
    BY <1>1, <1>3, DeepenedCost, CountInnerCost
  <2>3. QED BY <2>1, <2>2 DEF CheapInv, PairCost, DepthCost, MeasuredCost
<1>4. CASE AssignLeaves
  <2>1. pc' \in {"level", "measured"}
    BY <1>4 DEF AssignLeaves
  <2>2. LevelCost' /\ MeasuredCost'
    BY <1>1, <1>4, AssignLeavesCost
  <2>3. QED BY <2>1, <2>2 DEF CheapInv, PairCost, DepthCost
<1>5. QED BY <1>2, <1>3, <1>4 DEF Measuring

LEMMA SameCost ==
  ASSUME CheapInv, UNCHANGED treeVars
  PROVE  CheapInv'
<1>1. /\ pc' = pc /\ hist' = hist /\ lits' = lits /\ w' = w /\ leaf' = leaf
      /\ root' = root /\ next' = next /\ avail' = avail /\ used' = used /\ depth' = depth
  BY DEF treeVars, sortVars, pairVars, levelVars
<1>2. n' = n /\ SortedCounts' = SortedCounts /\ LeastCost' = LeastCost /\ AllNodes' = AllNodes
  BY <1>1, LeastKept, CountsKept
<1>3. PairCost'
  BY <1>1, <1>2 DEF CheapInv, PairCost
<1>4. DepthCost'
  <2>1. \A p : DepthNow(p)' <=> DepthNow(p)
    BY <1>1, <1>2 DEF DepthNow
  <2>2. QED BY <1>1, <1>2, <2>1 DEF CheapInv, DepthCost
<1>5. LevelCost'
  <2>1. \A p, d : LevelNow(p, d)' <=> LevelNow(p, d)
    BY <1>1, <1>2 DEF LevelNow
  <2>2. QED BY <1>1, <1>2, <2>1 DEF CheapInv, LevelCost
<1>6. MeasuredCost'
  BY <1>1, <1>2 DEF CheapInv, MeasuredCost
<1>7. QED BY <1>3, <1>4, <1>5, <1>6 DEF CheapInv

\* At the end Cost is what the reference takes.
LEMMA MeasuredCheapest ==
  ASSUME Types, MeasuredCost
  PROVE  CodeIsCheapest
<1>1. SUFFICES ASSUME pc = "measured", n > 1 PROVE Cost(w) = HuffmanCost
  BY DEF CodeIsCheapest
<1>2. n \in Nat /\ w \in [0..(n - 1) -> Nat] /\ 2 <= n
  <2>1. n \in Nat
    BY LengthFacts
  <2>2. w \in [0..(n - 1) -> Nat]
    BY <1>1 DEF Types, Sorts
  <2>3. QED BY <1>1, <2>1, <2>2
<1>3. PICK A : Priced(n, SortedCounts, w, A, n) /\ A[n] = LeastCost
  BY <1>1, <1>2 DEF MeasuredCost
<1>4. PICK m, c, f : m = n /\ c = SortedCounts /\ f = w
  OBVIOUS
<1>5. m \in Nat /\ c \in [0..(m - 1) -> Nat] /\ f \in [0..(m - 1) -> Nat]
  BY <1>1, <1>2, <1>4 DEF MeasuredCost
<1>6. Cost(f) = A[m]
  BY <1>3, <1>4, <1>5, CostIsPrice
<1>7. HuffmanCost = LeastCost
  BY CostIs DEF LeastCost, CostOf
<1>8. QED BY <1>3, <1>4, <1>6, <1>7

\* As long as they are not limited, the lengths that codeLens finds in its one
\* array, whatever the counts, cost what Huffman's algorithm costs when it looks
\* for the two lightest nodes in a set: the sorted leaves and the queue of inner
\* nodes always have them at their ends (huffman/moffat.go).
THEOREM Cheapest == TreeSpec => []CodeIsCheapest
<1>1. TreeInit => CheapInv
  BY DEF TreeInit, CheapInv, PairCost, DepthCost, LevelCost, MeasuredCost
<1>2. LengthsInv /\ CheapInv /\ [TreeNext \/ TreeCall]_treeVars => CheapInv'
  <2> SUFFICES ASSUME LengthsInv, CheapInv, [TreeNext \/ TreeCall]_treeVars PROVE CheapInv'
    OBVIOUS
  <2>1. IInv /\ LeafInv
    BY DEF LengthsInv
  <2>2. CASE Sorting
    BY <2>1, <2>2, SortingCost
  <2>3. CASE Pairing
    BY <2>1, <2>3, PairingCost
  <2>4. CASE Measuring
    BY <2>1, <2>4, MeasuringCost
  <2>5. CASE Limiting
    <3>1. pc' \in {"done", "limit"}
      BY <2>5 DEF Limiting, LengthsFit, TooLong, MoveLongest, AssignLimited
    <3>2. QED BY <3>1, NoCost
  <2>6. CASE TreeCall
    <3>1. pc' = "collect"
      BY <2>6 DEF TreeCall, Generate
    <3>2. QED BY <3>1, NoCost
  <2>7. CASE UNCHANGED treeVars
    BY <2>7, SameCost
  <2>8. QED BY <2>2, <2>3, <2>4, <2>5, <2>6, <2>7 DEF TreeNext
<1>3. LengthsInv /\ CheapInv => CodeIsCheapest
  BY MeasuredCheapest DEF LengthsInv, IInv, CheapInv
<1>4. QED BY <1>1, <1>2, <1>3, LengthsCorrect, PTL DEF TreeSpec

=============================================================================
