------------------------- MODULE HeaderReaderProofs -------------------------
(***************************************************************************)
(* Proofs about HeaderReader, of one call with any header, whatever        *)
(* earlier blocks have left in the memory of the tables: what is counted   *)
(* while the lengths are read is what the codes have in the end, and what  *)
(* the tables find for any bits is what the codes say of them.             *)
(*                                                                         *)
(* The counts are kept for all places of the table of lengths, read or     *)
(* not: a place that is not read yet, or is in the gap between the lengths *)
(* of literals and those of distances, holds 0.  Extra bits make more      *)
(* codes of one length; these are sums over the symbols, which is the      *)
(* order they are added in when it makes no difference.                    *)
(***************************************************************************)
EXTENDS HeaderReader, HuffmanTreeProofs, SequenceTheorems

-----------------------------------------------------------------------------
(***************************************************************************)
(* Sums over a set of places below m, whichever is taken first.            *)
(***************************************************************************)
Chosen(g, s, m) == [k \in 1..m |-> IF k - 1 \in s THEN g[k - 1] ELSE 0]
Total(g, s, m) == Sigma(Chosen(g, s, m), m)

IntegerBelow(g, m) == \A p \in 0..(m - 1) : g[p] \in Int

TotalOK(g, m) ==
  /\ Total(g, {}, m) = 0
  /\ \A s \in SUBSET (0..(m - 1)) :
       /\ Total(g, s, m) \in Int
       /\ \A x \in s : Total(g, s, m) = g[x] + Total(g, s \ {x}, m)

\* The terms of such a sum are integers.
LEMMA ChosenFacts ==
  ASSUME NEW m \in Nat, NEW g, IntegerBelow(g, m), NEW s
  PROVE  Integral(Chosen(g, s, m), m)
<1>1. ASSUME NEW k \in 1..m PROVE Chosen(g, s, m)[k] \in Int
  <2>1. k - 1 \in 0..(m - 1)
    OBVIOUS
  <2>2. g[k - 1] \in Int
    BY <2>1 DEF IntegerBelow
  <2>3. QED BY <2>2 DEF Chosen
<1>2. QED BY <1>1 DEF Integral

\* The sum is that of any of its places and of the rest.
LEMMA TotalFacts ==
  ASSUME NEW m \in Nat, NEW g, IntegerBelow(g, m)
  PROVE  TotalOK(g, m)
<1>1. Total(g, {}, m) = 0
  <2>1. \A k \in 1..m : Chosen(g, {}, m)[k] = 0
    BY DEF Chosen
  <2>2. QED BY <2>1, SigmaZero DEF Total
<1>2. ASSUME NEW s \in SUBSET (0..(m - 1)) PROVE Total(g, s, m) \in Int
  BY ChosenFacts, SigmaInt DEF Total
<1>3. ASSUME NEW s \in SUBSET (0..(m - 1)), NEW x \in s
      PROVE  Total(g, s, m) = g[x] + Total(g, s \ {x}, m)
  <2>1. PICK c \in 1..m : c = x + 1 /\ c - 1 = x
    <3>1. x \in 0..(m - 1)
      OBVIOUS
    <3>2. x + 1 \in 1..m /\ (x + 1) - 1 = x
      BY <3>1
    <3>3. QED BY <3>2
  <2>2. PICK a, b : a = Chosen(g, s, m) /\ b = Chosen(g, s \ {x}, m)
    OBVIOUS
  <2>3. Integral(a, m) /\ Integral(b, m)
    BY <2>2, ChosenFacts
  <2>4. a[c] = g[x] /\ b[c] = 0
    BY <2>1, <2>2 DEF Chosen
  <2>5. ASSUME NEW k \in 1..m, k # c PROVE a[k] = b[k]
    <3>1. k - 1 # x
      BY <2>1, <2>5
    <3>2. QED BY <2>2, <3>1 DEF Chosen
  <2>6. Sigma(a, m) = Sigma(b, m) + (a[c] - b[c])
    <3>1. \A k \in 1..m : k # c => a[k] = b[k]
      BY <2>5
    <3>2. QED BY <2>3, <3>1, SigmaChange
  <2>7. g[x] \in Int /\ Sigma(b, m) \in Int
    <3>1. x \in 0..(m - 1)
      OBVIOUS
    <3>2. QED BY <2>3, <3>1, SigmaInt DEF IntegerBelow
  <2>8. QED BY <2>2, <2>4, <2>6, <2>7 DEF Total
<1>4. QED BY <1>1, <1>2, <1>3 DEF TotalOK

\* What MapThenSumSet computes of numbers g.
LEMMA TotalSum ==
  ASSUME NEW m \in Nat, NEW g, IntegerBelow(g, m), NEW D \in SUBSET (0..(m - 1))
  PROVE  LET f == CHOOSE x : SumsOver(D, g, x)
         IN  SumsOver(D, g, f) /\ f[D] = Total(g, D, m)
<1>1. IsFiniteSet(D)
  <2>1. IsFiniteSet(0..(m - 1))
    BY FS_Interval
  <2>2. QED BY <2>1, FS_Subset
<1>2. PICK y : y = [s \in SUBSET D |-> Total(g, s, m)]
  OBVIOUS
<1>3. \A s \in SUBSET D : s \in SUBSET (0..(m - 1)) /\ y[s] = Total(g, s, m)
  BY <1>2
<1>4. TotalOK(g, m)
  BY TotalFacts
<1>5. Additive(D, g, y)
  <2>1. y \in [SUBSET D -> Int]
    BY <1>2, <1>3, <1>4 DEF TotalOK
  <2>2. y[{}] = 0
    BY <1>3, <1>4 DEF TotalOK
  <2>3. ASSUME NEW s \in SUBSET D, NEW x \in s PROVE y[s] = g[x] + y[s \ {x}]
    <3>1. s \ {x} \in SUBSET D
      OBVIOUS
    <3>2. QED BY <1>3, <1>4, <3>1 DEF TotalOK
  <2>4. QED BY <2>1, <2>2, <2>3 DEF Additive
<1>6. y[D] = Total(g, D, m)
  BY <1>2
<1>7. QED BY <1>1, <1>5, <1>6, AdditiveSum

\* The sum of two tables of terms is the sum of their sums.
LEMMA SigmaPlus ==
  ASSUME NEW m \in Nat, NEW f, NEW g, NEW h, Integral(g, m), Integral(h, m),
         \A k \in 1..m : f[k] = g[k] + h[k]
  PROVE  Sigma(f, m) = Sigma(g, m) + Sigma(h, m)
<1>1. Integral(f, m)
  BY DEF Integral
<1>2. ASSUME NEW k \in 0..m
      PROVE  /\ Integral(f, k) /\ Integral(g, k) /\ Integral(h, k)
             /\ Sigma(g, k) \in Int /\ Sigma(h, k) \in Int
  <2>1. Integral(f, k) /\ Integral(g, k) /\ Integral(h, k)
    BY <1>1 DEF Integral
  <2>2. QED BY <2>1, SigmaInt
<1> DEFINE T == {k \in Nat : k <= m => Sigma(f, k) = Sigma(g, k) + Sigma(h, k)}
<1>3. 0 \in T
  BY SigmaNone
<1>4. ASSUME NEW k \in T PROVE k + 1 \in T
  <2>1. SUFFICES ASSUME k + 1 <= m
                 PROVE  Sigma(f, k + 1) = Sigma(g, k + 1) + Sigma(h, k + 1)
    BY <1>4
  <2>2. k \in Nat /\ k \in 0..m /\ k + 1 \in 0..m /\ k + 1 \in 1..m
        /\ Sigma(f, k) = Sigma(g, k) + Sigma(h, k)
    BY <1>4, <2>1
  <2>3. Integral(f, k + 1) /\ Integral(g, k + 1) /\ Integral(h, k + 1)
    BY <1>2, <2>2
  <2>4. /\ Sigma(f, k + 1) = Sigma(f, k) + f[k + 1]
        /\ Sigma(g, k + 1) = Sigma(g, k) + g[k + 1]
        /\ Sigma(h, k + 1) = Sigma(h, k) + h[k + 1]
    BY <2>2, <2>3, SigmaNext
  <2>5. Sigma(g, k) \in Int /\ Sigma(h, k) \in Int /\ g[k + 1] \in Int /\ h[k + 1] \in Int
    BY <1>2, <2>2 DEF Integral
  <2>6. f[k + 1] = g[k + 1] + h[k + 1]
    BY <2>2
  <2>7. PICK a \in Int, b \in Int, c \in Int, d \in Int :
          a = Sigma(g, k) /\ b = Sigma(h, k) /\ c = g[k + 1] /\ d = h[k + 1]
    BY <2>5
  <2>8. (a + b) + (c + d) = (a + c) + (b + d)
    OBVIOUS
  <2>9. QED BY <2>2, <2>4, <2>6, <2>7, <2>8
<1>5. T = Nat
  <2> HIDE DEF T
  <2>1. T \in SUBSET Nat
    BY DEF T
  <2>2. QED BY <1>3, <1>4, <2>1, InductiveSet
<1>6. QED BY <1>5

\* A sum over a set of one number is that number so many times.
LEMMA TotalOnes ==
  ASSUME NEW m \in Nat, NEW s \in SUBSET (0..(m - 1)), NEW g,
         \A p \in 0..(m - 1) : g[p] = 1
  PROVE  Total(g, s, m) = Cardinality(s)
<1>1. TotalOK(g, m)
  BY TotalFacts DEF IntegerBelow
<1>2. ASSUME NEW x \in SUBSET (0..(m - 1)) PROVE IsFiniteSet(x) /\ Cardinality(x) \in Nat
  <2>1. IsFiniteSet(0..(m - 1))
    BY FS_Interval
  <2>2. QED BY <2>1, FS_Subset, FS_CardinalityType
<1> DEFINE T == {k \in Nat : \A x \in SUBSET (0..(m - 1)) :
                               Cardinality(x) = k => Total(g, x, m) = k}
<1>3. 0 \in T
  <2>1. ASSUME NEW x \in SUBSET (0..(m - 1)), Cardinality(x) = 0 PROVE Total(g, x, m) = 0
    <3>1. x = {}
      BY <1>2, <2>1, FS_EmptySet
    <3>2. QED BY <1>1, <3>1 DEF TotalOK
  <2>2. QED BY <2>1
<1>4. ASSUME NEW k \in T PROVE k + 1 \in T
  <2>1. ASSUME NEW x \in SUBSET (0..(m - 1)), Cardinality(x) = k + 1
        PROVE  Total(g, x, m) = k + 1
    <3>1. k \in Nat
      BY <1>4
    <3>2. x # {}
      BY <2>1, <3>1, FS_EmptySet
    <3>3. PICK z \in x : TRUE
      BY <3>2
    <3>4. x \ {z} \in SUBSET (0..(m - 1))
      OBVIOUS
    <3>5. Cardinality(x \ {z}) = k
      <4>1. Cardinality(x \ {z}) = Cardinality(x) - 1
        BY <1>2, <3>3, FS_RemoveElement
      <4>2. QED BY <2>1, <3>1, <4>1
    <3>6. Total(g, x \ {z}, m) = k
      BY <1>4, <3>4, <3>5
    <3>7. Total(g, x, m) = g[z] + Total(g, x \ {z}, m)
      BY <1>1, <3>3 DEF TotalOK
    <3>8. QED BY <3>1, <3>3, <3>6, <3>7
  <2>2. k + 1 \in Nat
    BY <1>4
  <2>3. QED BY <2>1, <2>2
<1>5. T = Nat
  <2> HIDE DEF T
  <2>1. T \in SUBSET Nat
    BY DEF T
  <2>2. QED BY <1>3, <1>4, <2>1, InductiveSet
<1>6. QED BY <1>2, <1>5

-----------------------------------------------------------------------------
(***************************************************************************)
(* The numbers of lengths.                                                 *)
(***************************************************************************)
Powers == [t \in 0..(NumLens - 1) |-> PowerOf2[LenExtra[t]]]

PowerSums(D, f) ==
  f = [s \in SUBSET D |-> IF s = {} THEN 0
                          ELSE PowerOf2[LenExtra[OneOf(s)]] + f[s \ {OneOf(s)}]]

\* What FormatOK says of the extra bits of lengths.
LEMMA ExtraFacts ==
  /\ NumLens \in Nat \ {0} /\ LitSyms \in Nat \ {0} /\ DistSyms \in Nat \ {0}
  /\ LenExtra[NumLens - 1] = 0
  /\ \A t \in 0..(NumLens - 1) :
       /\ LenExtra[t] \in Nat
       /\ PowerOf2[LenExtra[t]] \in Nat \ {0} /\ Powers[t] = PowerOf2[LenExtra[t]]
<1>1. NumLens \in Nat \ {0} /\ DOMAIN LenExtra = 0..(NumLens - 1)
  BY FormatOK
<1>2. \A t \in 0..(NumLens - 1) : LenExtra[t] \in Nat
  BY <1>1, FormatOK
<1>3. QED BY <1>1, <1>2, FormatOK, PowerFacts DEF Powers

\* LenBase as a sum over the length symbols before s.
LEMMA LenBaseSum ==
  ASSUME NEW s \in 0..NumLens
  PROVE  LenBase(s) = LitSyms + Total(Powers, 0..(s - 1), NumLens)
<1>1. PICK D : D = 0..(s - 1)
  OBVIOUS
<1>2. D \in SUBSET (0..(NumLens - 1)) /\ NumLens \in Nat
  BY <1>1, ExtraFacts
<1>3. IntegerBelow(Powers, NumLens)
  BY ExtraFacts DEF IntegerBelow
<1>4. \A h : PowerSums(D, h) <=> SumsOver(D, Powers, h)
  <2>1. ASSUME NEW t \in SUBSET D, t # {}
        PROVE  Powers[OneOf(t)] = PowerOf2[LenExtra[OneOf(t)]]
    <3>1. OneOf(t) \in 0..(NumLens - 1)
      BY <1>2, <2>1 DEF OneOf
    <3>2. QED BY <3>1 DEF Powers
  <2>2. QED BY <2>1 DEF PowerSums, SumsOver
<1>5. PICK h : h = CHOOSE x : PowerSums(D, x)
  OBVIOUS
<1>6. h = CHOOSE x : SumsOver(D, Powers, x)
  BY <1>4, <1>5
<1>7. h[D] = Total(Powers, D, NumLens)
  BY <1>2, <1>3, <1>6, TotalSum
<1>8. LenBase(s) = LitSyms + h[D]
  BY <1>1, <1>5 DEF LenBase, PowerSums, OneOf, MapThenSumSet, MapThenFoldSet
<1>9. QED BY <1>1, <1>7, <1>8

\* Each length symbol has as many numbers as its extra bits have values.
LEMMA LenBaseNext ==
  /\ LenBase(0) = LitSyms
  /\ \A s \in 0..(NumLens - 1) :
       /\ LenBase(s) \in Nat /\ LenBase(s + 1) \in Nat
       /\ LenBase(s + 1) = LenBase(s) + PowerOf2[LenExtra[s]]
<1>1. TotalOK(Powers, NumLens)
  BY ExtraFacts, TotalFacts DEF IntegerBelow
<1>2. LenBase(0) = LitSyms
  <2>1. 0 \in 0..NumLens /\ 0..(0 - 1) = {}
    BY ExtraFacts
  <2>2. LenBase(0) = LitSyms + Total(Powers, {}, NumLens)
    BY <2>1, LenBaseSum
  <2>3. QED BY <1>1, <2>2, ExtraFacts DEF TotalOK
<1>3. ASSUME NEW s \in 0..(NumLens - 1)
      PROVE  LenBase(s + 1) = LenBase(s) + PowerOf2[LenExtra[s]] /\ LenBase(s) \in Int
  <2>1. s \in 0..NumLens /\ s + 1 \in 0..NumLens /\ (s + 1) - 1 = s
    BY ExtraFacts
  <2>2. 0..s \in SUBSET (0..(NumLens - 1)) /\ 0..(s - 1) \in SUBSET (0..(NumLens - 1))
        /\ s \in 0..s /\ (0..s) \ {s} = 0..(s - 1)
    BY ExtraFacts
  <2>3. Total(Powers, 0..s, NumLens) = Powers[s] + Total(Powers, 0..(s - 1), NumLens)
        /\ Total(Powers, 0..(s - 1), NumLens) \in Int
    <3>1. PICK D, F : D = 0..s /\ F = 0..(s - 1)
      OBVIOUS
    <3>2. D \in SUBSET (0..(NumLens - 1)) /\ F \in SUBSET (0..(NumLens - 1))
          /\ s \in D /\ D \ {s} = F
      BY <2>2, <3>1
    <3>3. Total(Powers, D, NumLens) = Powers[s] + Total(Powers, D \ {s}, NumLens)
          /\ Total(Powers, F, NumLens) \in Int
      BY <1>1, <3>2 DEF TotalOK
    <3>4. QED BY <3>1, <3>2, <3>3
  <2>4. LenBase(s) = LitSyms + Total(Powers, 0..(s - 1), NumLens)
    BY <2>1, LenBaseSum
  <2>5. LenBase(s + 1) = LitSyms + Total(Powers, 0..s, NumLens)
    BY <2>1, LenBaseSum
  <2>6. PICK a \in Int, b \in Nat, c \in Nat :
          a = Total(Powers, 0..(s - 1), NumLens) /\ b = Powers[s] /\ c = LitSyms
    BY <2>3, ExtraFacts
  <2>7. b = PowerOf2[LenExtra[s]]
    BY <2>6, ExtraFacts
  <2>8. QED BY <2>3, <2>4, <2>5, <2>6, <2>7
<1> DEFINE T == {k \in Nat : k <= NumLens => LenBase(k) \in Nat}
<1>4. 0 \in T
  BY <1>2, ExtraFacts
<1>5. ASSUME NEW k \in T PROVE k + 1 \in T
  <2>1. SUFFICES ASSUME k + 1 <= NumLens PROVE LenBase(k + 1) \in Nat
    BY <1>5
  <2>2. k \in 0..(NumLens - 1) /\ LenBase(k) \in Nat
    BY <1>5, <2>1, ExtraFacts
  <2>3. QED BY <1>3, <2>2, ExtraFacts
<1>6. T = Nat
  <2> HIDE DEF T
  <2>1. T \in SUBSET Nat
    BY DEF T
  <2>2. QED BY <1>4, <1>5, <2>1, InductiveSet
<1>7. ASSUME NEW s \in 0..(NumLens - 1) PROVE LenBase(s) \in Nat /\ LenBase(s + 1) \in Nat
  <2>1. s \in Nat /\ s + 1 \in Nat /\ s <= NumLens /\ s + 1 <= NumLens
    BY ExtraFacts
  <2>2. QED BY <1>6, <2>1
<1>8. QED BY <1>2, <1>3, <1>7

\* The numbers of a later symbol are behind those of an earlier one.
LEMMA LenBaseGrows ==
  ASSUME NEW s \in 0..NumLens, NEW t \in 0..s
  PROVE  /\ LenBase(t) \in Nat /\ LenBase(s) \in Nat /\ LitSyms <= LenBase(t)
         /\ LenBase(t) <= LenBase(s)
<1>1. NumLens \in Nat /\ s \in Nat /\ t \in Nat /\ t <= s /\ s <= NumLens
  BY ExtraFacts
<1> DEFINE T == {k \in Nat : k <= NumLens =>
                   /\ LenBase(k) \in Nat /\ LitSyms <= LenBase(k)
                   /\ \A o \in 0..k : LenBase(o) \in Nat /\ LenBase(o) <= LenBase(k)}
<1>2. 0 \in T
  <2>1. \A o \in 0..0 : o = 0
    OBVIOUS
  <2>2. QED BY <2>1, LenBaseNext, ExtraFacts
<1>3. ASSUME NEW k \in T PROVE k + 1 \in T
  <2>1. SUFFICES ASSUME k + 1 <= NumLens
                 PROVE  /\ LenBase(k + 1) \in Nat /\ LitSyms <= LenBase(k + 1)
                        /\ \A o \in 0..(k + 1) :
                             LenBase(o) \in Nat /\ LenBase(o) <= LenBase(k + 1)
    BY <1>3
  <2>2. k \in Nat /\ k \in 0..(NumLens - 1) /\ k <= NumLens
    BY <1>1, <1>3, <2>1
  <2>3. LenBase(k) \in Nat /\ LenBase(k + 1) \in Nat /\ LenBase(k) <= LenBase(k + 1)
    BY <2>2, LenBaseNext, ExtraFacts
  <2>4. LitSyms <= LenBase(k + 1)
    BY <1>3, <2>2, <2>3, ExtraFacts
  <2>5. ASSUME NEW o \in 0..(k + 1) PROVE LenBase(o) \in Nat /\ LenBase(o) <= LenBase(k + 1)
    <3>1. CASE o = k + 1
      BY <2>3, <3>1
    <3>2. CASE o # k + 1
      <4>1. o \in 0..k
        BY <2>2, <3>2
      <4>2. LenBase(o) \in Nat /\ LenBase(o) <= LenBase(k)
        BY <1>3, <2>2, <4>1
      <4>3. QED BY <2>3, <4>2
    <3>3. QED BY <3>1, <3>2
  <2>6. QED BY <2>3, <2>4, <2>5
<1>4. T = Nat
  <2> HIDE DEF T
  <2>1. T \in SUBSET Nat
    BY DEF T
  <2>2. QED BY <1>2, <1>3, <2>1, InductiveSet
<1>5. s \in T /\ t \in T /\ t \in 0..s /\ t <= NumLens
  BY <1>1, <1>4
<1>6. QED BY <1>1, <1>5

\* The numbers of one length symbol, and those of all of them.
LEMMA SymbolFacts ==
  ASSUME NEW s \in 0..(NumLens - 1), NEW x \in LenBase(s)..(LenBase(s + 1) - 1)
  PROVE  /\ SymbolOf(x) = LitSyms + s /\ ValueOf(x) = x - LenBase(s)
         /\ SymbolExtra(SymbolOf(x)) = LenExtra[s] /\ x \in Nat /\ x >= LitSyms
<1>1. s \in 0..NumLens /\ s + 1 \in 0..NumLens /\ s \in Nat /\ NumLens \in Nat
  BY ExtraFacts
<1>2. LenBase(s) \in Nat /\ LenBase(s + 1) \in Nat /\ LitSyms <= LenBase(s)
  <2>1. s \in 0..s /\ s \in 0..(s + 1)
    BY <1>1
  <2>2. QED BY <1>1, <2>1, LenBaseGrows
<1>3. x \in Nat /\ LitSyms <= x /\ LenBase(s) <= x /\ x < LenBase(s + 1)
  BY <1>2, ExtraFacts
<1>4. PICK T : T = {t \in DOMAIN LenExtra : LenBase(t) <= x}
  OBVIOUS
<1>5. DOMAIN LenExtra = 0..(NumLens - 1)
  BY FormatOK
<1>6. s \in T /\ T \in SUBSET (0..NumLens)
  BY <1>3, <1>4, <1>5, ExtraFacts
<1>7. ASSUME NEW t \in T PROVE t <= s
  <2>1. t \in 0..(NumLens - 1) /\ LenBase(t) <= x
    BY <1>4, <1>5
  <2>2. SUFFICES ASSUME t > s PROVE FALSE
    BY <1>1, <2>1
  <2>3. t \in 0..NumLens /\ s + 1 \in 0..t
    BY <1>1, <2>1, <2>2
  <2>4. LenBase(t) \in Nat /\ LenBase(s + 1) <= LenBase(t)
    BY <2>3, LenBaseGrows
  <2>5. QED BY <1>2, <1>3, <2>1, <2>4
<1>8. Max(T) = s
  <2>1. Max(T) \in T /\ \A z \in T : z <= Max(T)
    BY <1>1, <1>6, GreatestElement
  <2>2. PICK z \in T : z = Max(T)
    BY <2>1
  <2>3. s <= z /\ z <= s /\ z \in Nat
    BY <1>1, <1>6, <1>7, <2>1, <2>2
  <2>4. QED BY <1>1, <2>2, <2>3
<1>9. SymbolOf(x) = LitSyms + s
  <2>1. ~(x < LitSyms)
    BY <1>3, ExtraFacts
  <2>2. QED BY <1>4, <1>8, <2>1 DEF SymbolOf
<1>10. ~(x < LitSyms) /\ ~(LitSyms + s < LitSyms) /\ (LitSyms + s) - LitSyms = s
  BY <1>1, <1>3, ExtraFacts
<1>11. QED BY <1>3, <1>9, <1>10 DEF ValueOf, SymbolExtra

\* The last number is the only one of the last length symbol.
LEMMA NumberFacts ==
  /\ MaxLitLenSym + 1 = LenBase(NumLens) - 1 /\ Indexes = 0..(LenBase(NumLens) - 1)
  /\ MaxLitLenSym \in Nat /\ LitSyms <= MaxLitLenSym + 1
  /\ LenBase(NumLens) \in Nat
<1>1. NumLens - 1 \in 0..(NumLens - 1) /\ (NumLens - 1) + 1 = NumLens
  BY ExtraFacts
<1>2. LenBase(NumLens) = LenBase(NumLens - 1) + 1 /\ LenBase(NumLens - 1) \in Nat
      /\ LenBase(NumLens) \in Nat
  BY <1>1, LenBaseNext, ExtraFacts, PowerFacts
<1>3. LitSyms <= LenBase(NumLens - 1)
  <2>1. NumLens - 1 \in 0..NumLens /\ NumLens - 1 \in 0..(NumLens - 1)
    BY ExtraFacts
  <2>2. QED BY <2>1, LenBaseGrows
<1>4. QED BY <1>2, <1>3, ExtraFacts DEF MaxLitLenSym, Indexes

-----------------------------------------------------------------------------
(***************************************************************************)
(* How many codes there are of a length, when those with extra bits are    *)
(* given to all values of these bits.                                      *)
(***************************************************************************)
CodeLen(f, x) ==
  IF f[SymbolOf(x)] = 0 THEN 0 ELSE f[SymbolOf(x)] + SymbolExtra(SymbolOf(x))

\* What symbol p adds to the number of codes of l bits beyond the one that its
\* own length stands for.
Change(f, l) ==
  [p \in 0..(LitLen - 1) |->
     IF p < LitSyms \/ f[p] = 0 THEN 0
     ELSE (IF f[p] + ExtraAt(p) = l THEN PowerOf2[ExtraAt(p)] ELSE 0)
            - (IF f[p] = l THEN 1 ELSE 0)]

\* The numbers that symbols add are integers.
LEMMA ChangeFacts ==
  ASSUME NEW f, \A p \in 0..(LitLen - 1) : f[p] \in Nat, NEW l \in Nat
  PROVE  /\ LitLen \in Nat /\ IntegerBelow(Change(f, l), LitLen)
         /\ TotalOK(Change(f, l), LitLen)
         /\ \A p \in LitSyms..(LitLen - 1) :
              /\ p - LitSyms \in 0..(NumLens - 1)
              /\ ExtraAt(p) \in Nat /\ PowerOf2[ExtraAt(p)] \in Nat \ {0}
<1>1. LitLen \in Nat
  BY ExtraFacts DEF LitLen
<1>2. ASSUME NEW p \in LitSyms..(LitLen - 1)
      PROVE  /\ p - LitSyms \in 0..(NumLens - 1)
             /\ ExtraAt(p) \in Nat /\ PowerOf2[ExtraAt(p)] \in Nat \ {0}
  <2>1. p - LitSyms \in 0..(NumLens - 1)
    BY ExtraFacts DEF LitLen
  <2>2. QED BY <2>1, ExtraFacts DEF ExtraAt
<1>3. ASSUME NEW p \in 0..(LitLen - 1) PROVE Change(f, l)[p] \in Int
  <2>1. CASE p < LitSyms \/ f[p] = 0
    BY <2>1 DEF Change
  <2>2. CASE ~(p < LitSyms \/ f[p] = 0)
    <3>1. p \in LitSyms..(LitLen - 1)
      BY <1>1, <2>2, ExtraFacts
    <3>2. PICK a \in Nat, b \in Nat : a = ExtraAt(p) /\ b = PowerOf2[ExtraAt(p)]
      BY <1>2, <3>1
    <3>3. PICK c \in 0..1 : c = IF f[p] = l THEN 1 ELSE 0
      OBVIOUS
    <3>4. PICK d \in Nat : d = IF f[p] + ExtraAt(p) = l THEN PowerOf2[ExtraAt(p)] ELSE 0
      BY <3>2
    <3>5. Change(f, l)[p] = d - c
      BY <2>2, <3>3, <3>4 DEF Change
    <3>6. QED BY <3>5
  <2>3. QED BY <2>1, <2>2
<1>4. IntegerBelow(Change(f, l), LitLen)
  BY <1>3 DEF IntegerBelow
<1>5. QED BY <1>1, <1>2, <1>4, TotalFacts

\* The codes of l bits of the literals and the first k lengths.
CodesOf(g, l, k) == {x \in 0..(LenBase(k) - 1) : Len(g[x]) = l}
SymbolsOf(f, l, m) == {p \in 0..(m - 1) : f[p] = l}

\* Below LitSyms a number is its symbol, and its code has no extra bits.
LEMMA LiteralCodes ==
  ASSUME NEW f, \A p \in 0..(LitLen - 1) : f[p] \in Nat, NEW l \in Nat \ {0},
         NEW g, \A x \in Indexes : Len(g[x]) = CodeLen(f, x)
  PROVE  /\ CodesOf(g, l, 0) = SymbolsOf(f, l, LitSyms)
         /\ Total(Change(f, l), 0..(LitSyms - 1), LitLen) = 0
<1>1. LenBase(0) = LitSyms
  BY LenBaseNext
<1>2. \A x \in 0..(LitSyms - 1) : x \in Indexes /\ x \in 0..(LitLen - 1) /\ x < LitSyms
  <2>1. LitSyms <= LenBase(NumLens) /\ LenBase(NumLens) \in Nat
    BY NumberFacts, ExtraFacts
  <2>2. QED BY <2>1, NumberFacts, ExtraFacts DEF LitLen
<1>3. ASSUME NEW x \in 0..(LitSyms - 1) PROVE Len(g[x]) = f[x]
  <2>1. SymbolOf(x) = x /\ SymbolExtra(x) = 0
    BY <1>2 DEF SymbolOf, SymbolExtra
  <2>2. f[x] \in Nat
    BY <1>2
  <2>3. CodeLen(f, x) = f[x]
    BY <2>1, <2>2 DEF CodeLen
  <2>4. QED BY <1>2, <2>3
<1>4. CodesOf(g, l, 0) = SymbolsOf(f, l, LitSyms)
  BY <1>1, <1>3 DEF CodesOf, SymbolsOf
<1>5. Total(Change(f, l), 0..(LitSyms - 1), LitLen) = 0
  <2>1. LitLen \in Nat
    BY ChangeFacts
  <2>2. ASSUME NEW k \in 1..LitLen
        PROVE  Chosen(Change(f, l), 0..(LitSyms - 1), LitLen)[k] = 0
    <3>1. k - 1 \in 0..(LitLen - 1)
      BY <2>1
    <3>2. k - 1 \in 0..(LitSyms - 1) => k - 1 < LitSyms
      BY ExtraFacts
    <3>3. QED BY <3>1, <3>2 DEF Chosen, Change
  <2>3. QED BY <2>1, <2>2, SigmaZero DEF Total
<1>6. QED BY <1>4, <1>5

\* Length k has a code of l bits for each value of its extra bits, or none.
SymbolHas(f, g, l, k) ==
  LET p == LitSyms + k
      s == {x \in LenBase(k)..(LenBase(k + 1) - 1) : Len(g[x]) = l}
  IN  /\ IsFiniteSet(s)
      /\ Cardinality(s) = IF f[p] # 0 /\ f[p] + ExtraAt(p) = l
                          THEN PowerOf2[ExtraAt(p)] ELSE 0

\* A length symbol has either none or all of its numbers among the codes of l bits.
LEMMA CodesOfSymbol ==
  ASSUME NEW f, \A p \in 0..(LitLen - 1) : f[p] \in Nat, NEW l \in Nat \ {0},
         NEW g, \A x \in Indexes : Len(g[x]) = CodeLen(f, x),
         NEW k \in 0..(NumLens - 1)
  PROVE  SymbolHas(f, g, l, k)
<1>1. PICK I : I = LenBase(k)..(LenBase(k + 1) - 1)
  OBVIOUS
<1>2. PICK p \in 0..(LitLen - 1) : p = LitSyms + k /\ p \in LitSyms..(LitLen - 1)
                                  /\ p - LitSyms = k
  <2>1. LitSyms + k \in 0..(LitLen - 1) /\ LitSyms + k \in LitSyms..(LitLen - 1)
        /\ (LitSyms + k) - LitSyms = k
    BY ExtraFacts DEF LitLen
  <2>2. QED BY <2>1
<1>3. PICK a \in Nat, b \in Nat \ {0} : a = ExtraAt(p) /\ b = PowerOf2[ExtraAt(p)] /\ a = LenExtra[k]
  BY <1>2, ChangeFacts DEF ExtraAt
<1>4. PICK y \in Nat, z \in Nat : y = LenBase(k) /\ z = LenBase(k + 1) /\ z = y + b
  BY <1>2, <1>3, LenBaseNext DEF ExtraAt
<1>5. IsFiniteSet(I) /\ Cardinality(I) = b
  BY <1>1, <1>4, FS_Interval
<1>6. ASSUME NEW x \in I PROVE Len(g[x]) = IF f[p] = 0 THEN 0 ELSE f[p] + a
  <2>1. x \in Indexes
    <3>1. k + 1 \in 0..NumLens /\ NumLens \in 0..NumLens
      BY ExtraFacts
    <3>2. z <= LenBase(NumLens) /\ LenBase(NumLens) \in Nat
      BY <1>4, <3>1, LenBaseGrows, ExtraFacts
    <3>3. x \in y..(z - 1)
      BY <1>1, <1>4
    <3>4. QED BY <3>2, <3>3, NumberFacts
  <2>2. SymbolOf(x) = p /\ SymbolExtra(SymbolOf(x)) = LenExtra[k]
    BY <1>1, <1>2, SymbolFacts
  <2>3. QED BY <1>3, <2>1, <2>2 DEF CodeLen
<1>7. PICK s : s = {x \in I : Len(g[x]) = l}
  OBVIOUS
<1>8. CASE f[p] # 0 /\ f[p] + a = l
  <2>1. s = I
    BY <1>6, <1>7, <1>8
  <2>2. QED BY <1>1, <1>2, <1>3, <1>5, <1>7, <1>8, <2>1 DEF SymbolHas
<1>9. CASE ~(f[p] # 0 /\ f[p] + a = l)
  <2>1. s = {}
    BY <1>6, <1>7, <1>9
  <2>2. QED BY <1>1, <1>2, <1>3, <1>7, <1>9, <2>1, FS_EmptySet DEF SymbolHas
<1>10. QED BY <1>8, <1>9

\* As many codes as lengths of l bits, and what the extra bits change of that.
LEMMA NumberOfCodes ==
  ASSUME NEW f, \A p \in 0..(LitLen - 1) : f[p] \in Nat, NEW l \in Nat \ {0},
         NEW g, \A x \in Indexes : Len(g[x]) = CodeLen(f, x)
  PROVE  Cardinality({x \in Indexes : Len(g[x]) = l})
           = Cardinality(SymbolsOf(f, l, LitLen)) + Total(Change(f, l), 0..(LitLen - 1), LitLen)
<1>1. PICK h : h = Change(f, l)
  OBVIOUS
<1>2. TotalOK(h, LitLen) /\ LitLen \in Nat /\ LitLen = LitSyms + NumLens
  BY <1>1, ChangeFacts DEF LitLen
<1>3. \A m \in Nat : IsFiniteSet(SymbolsOf(f, l, m)) /\ Cardinality(SymbolsOf(f, l, m)) \in Nat
  <2>1. ASSUME NEW m \in Nat
        PROVE  IsFiniteSet(SymbolsOf(f, l, m)) /\ Cardinality(SymbolsOf(f, l, m)) \in Nat
    <3>1. IsFiniteSet(0..(m - 1)) /\ SymbolsOf(f, l, m) \in SUBSET (0..(m - 1))
      BY FS_Interval DEF SymbolsOf
    <3>2. QED BY <3>1, FS_Subset, FS_CardinalityType
  <2>2. QED BY <2>1
<1> DEFINE T == {k \in Nat : k <= NumLens =>
                   /\ IsFiniteSet(CodesOf(g, l, k))
                   /\ Cardinality(CodesOf(g, l, k))
                        = Cardinality(SymbolsOf(f, l, LitSyms + k))
                            + Total(h, 0..(LitSyms + k - 1), LitLen)}
<1>4. 0 \in T
  <2>1. CodesOf(g, l, 0) = SymbolsOf(f, l, LitSyms) /\ Total(h, 0..(LitSyms - 1), LitLen) = 0
    BY <1>1, LiteralCodes
  <2>2. LitSyms + 0 = LitSyms /\ LitSyms + 0 - 1 = LitSyms - 1 /\ LitSyms \in Nat
    BY ExtraFacts
  <2>3. QED BY <1>3, <2>1, <2>2
<1>5. ASSUME NEW k \in T PROVE k + 1 \in T
  <2>1. SUFFICES ASSUME k + 1 <= NumLens
                 PROVE  /\ IsFiniteSet(CodesOf(g, l, k + 1))
                        /\ Cardinality(CodesOf(g, l, k + 1))
                             = Cardinality(SymbolsOf(f, l, LitSyms + (k + 1)))
                                 + Total(h, 0..(LitSyms + (k + 1) - 1), LitLen)
    BY <1>5
  <2>2. k \in 0..(NumLens - 1) /\ k \in Nat /\ k <= NumLens
    BY <1>5, <2>1, ExtraFacts
  <2>3. PICK p : p = LitSyms + k
    OBVIOUS
  <2>4. /\ p \in 0..(LitLen - 1) /\ p \in LitSyms..(LitLen - 1) /\ LitSyms + (k + 1) = p + 1
        /\ LitSyms + (k + 1) - 1 = p /\ LitSyms + k - 1 = p - 1 /\ p \in Nat
    BY <1>2, <2>2, <2>3, ExtraFacts
  <2>5. PICK A, B, s : /\ A = CodesOf(g, l, k) /\ B = SymbolsOf(f, l, p)
                       /\ s = {x \in LenBase(k)..(LenBase(k + 1) - 1) : Len(g[x]) = l}
    OBVIOUS
  <2>6. PICK a \in Nat, b \in Nat \ {0} : a = ExtraAt(p) /\ b = PowerOf2[ExtraAt(p)]
    BY <2>4, ChangeFacts
  <2>7. IsFiniteSet(s) /\ Cardinality(s) = IF f[p] # 0 /\ f[p] + a = l THEN b ELSE 0
    <3>1. SymbolHas(f, g, l, k)
      BY <2>2, CodesOfSymbol
    <3>2. QED BY ONLY <2>3, <2>5, <2>6, <3>1 DEF SymbolHas
  <2>8. PICK y \in Nat, z \in Nat : y = LenBase(k) /\ z = LenBase(k + 1) /\ y <= z
    <3>1. LenBase(k) \in Nat /\ LenBase(k + 1) \in Nat
          /\ LenBase(k + 1) = LenBase(k) + PowerOf2[LenExtra[k]] /\ PowerOf2[LenExtra[k]] \in Nat
      BY <2>2, LenBaseNext, ExtraFacts
    <3>2. QED BY ONLY <3>1
  <2>9. CodesOf(g, l, k + 1) = A \cup s /\ A \cap s = {}
    <3>1. 0..(z - 1) = (0..(y - 1)) \cup (y..(z - 1)) /\ (0..(y - 1)) \cap (y..(z - 1)) = {}
      BY <2>8
    <3>2. A = {x \in 0..(y - 1) : Len(g[x]) = l} /\ s = {x \in y..(z - 1) : Len(g[x]) = l}
          /\ CodesOf(g, l, k + 1) = {x \in 0..(z - 1) : Len(g[x]) = l}
      BY <2>5, <2>8 DEF CodesOf
    <3>3. QED BY <3>1, <3>2
  <2>10. /\ IsFiniteSet(A) /\ Cardinality(A) = Cardinality(B) + Total(h, 0..(p - 1), LitLen)
    BY <1>5, <2>2, <2>3, <2>4, <2>5
  <2>11. IsFiniteSet(B) /\ Cardinality(B) \in Nat
    BY <1>3, <2>4, <2>5
  <2>12. /\ IsFiniteSet(A \cup s)
         /\ Cardinality(A \cup s) = Cardinality(A) + Cardinality(s)
    <3>1. IsFiniteSet(A \cup s)
          /\ Cardinality(A \cup s) = Cardinality(A) + Cardinality(s) - Cardinality({})
      BY <2>7, <2>9, <2>10, FS_Union
    <3>2. Cardinality(A) \in Nat /\ Cardinality(s) \in Nat
      BY <2>7, <2>10, FS_CardinalityType
    <3>3. QED BY <3>1, <3>2, FS_EmptySet
  <2>13. Cardinality(SymbolsOf(f, l, p + 1)) = IF f[p] = l THEN Cardinality(B) + 1
                                              ELSE Cardinality(B)
    <3>1. 0..((p + 1) - 1) = (0..(p - 1)) \cup {p} /\ p \notin 0..(p - 1)
      BY <2>4
    <3>2. SymbolsOf(f, l, p + 1) = IF f[p] = l THEN B \cup {p} ELSE B
      BY <2>5, <3>1 DEF SymbolsOf
    <3>3. p \notin B
      BY <2>5, <3>1 DEF SymbolsOf
    <3>4. Cardinality(B \cup {p}) = Cardinality(B) + 1
      BY <2>11, <3>3, FS_AddElement
    <3>5. QED BY <3>2, <3>4
  <2>14. PICK t \in Int : t = Total(h, 0..(p - 1), LitLen)
                        /\ Total(h, 0..p, LitLen) = h[p] + t
    <3>1. PICK D, F : D = 0..p /\ F = 0..(p - 1)
      OBVIOUS
    <3>2. D \in SUBSET (0..(LitLen - 1)) /\ F \in SUBSET (0..(LitLen - 1)) /\ p \in D
          /\ D \ {p} = F
      BY <1>2, <2>4, <3>1
    <3>3. Total(h, D, LitLen) = h[p] + Total(h, D \ {p}, LitLen)
          /\ Total(h, F, LitLen) \in Int
      BY <1>2, <3>2 DEF TotalOK
    <3>4. QED BY <3>1, <3>2, <3>3
  <2>15. h[p] = IF f[p] = 0 THEN 0
                ELSE (IF f[p] + a = l THEN b ELSE 0) - (IF f[p] = l THEN 1 ELSE 0)
    <3>1. ~(p < LitSyms)
      BY <2>4, ExtraFacts
    <3>2. QED BY <1>1, <2>4, <2>6, <3>1 DEF Change
  <2>16. PICK x \in Nat, v \in Nat : x = f[p] /\ v = Cardinality(B)
    BY <2>4, <2>11
  <2>17. Cardinality(A \cup s) = (v + t) + (IF x # 0 /\ x + a = l THEN b ELSE 0)
    BY <2>7, <2>10, <2>12, <2>14, <2>16
  <2>18. Cardinality(SymbolsOf(f, l, p + 1)) + Total(h, 0..p, LitLen)
           = (IF x = l THEN v + 1 ELSE v)
               + ((IF x = 0 THEN 0
                   ELSE (IF x + a = l THEN b ELSE 0) - (IF x = l THEN 1 ELSE 0)) + t)
    BY <2>13, <2>14, <2>15, <2>16
  <2>19. Cardinality(A \cup s) = Cardinality(SymbolsOf(f, l, p + 1)) + Total(h, 0..p, LitLen)
    <3>1. CASE x = 0
      BY <2>17, <2>18, <3>1
    <3>2. CASE x # 0
      BY <2>17, <2>18, <3>2
    <3>3. QED BY <3>1, <3>2
  <2>20. QED BY <2>4, <2>9, <2>12, <2>19
<1>6. T = Nat
  <2> HIDE DEF T
  <2>1. T \in SUBSET Nat
    BY DEF T
  <2>2. QED BY <1>4, <1>5, <2>1, InductiveSet
<1>7. Cardinality(CodesOf(g, l, NumLens)) = Cardinality(SymbolsOf(f, l, LitSyms + NumLens))
        + Total(h, 0..(LitSyms + NumLens - 1), LitLen)
  <2>1. NumLens \in T /\ NumLens <= NumLens
    BY <1>6, ExtraFacts
  <2>2. QED BY <2>1
<1>8. CodesOf(g, l, NumLens) = {x \in Indexes : Len(g[x]) = l}
  BY NumberFacts DEF CodesOf
<1>9. LitSyms + NumLens = LitLen /\ LitSyms + NumLens - 1 = LitLen - 1
  BY <1>2, ExtraFacts
<1>10. QED BY <1>1, <1>7, <1>8, <1>9

-----------------------------------------------------------------------------
(***************************************************************************)
(* What a length adds to the counts.                                       *)
(***************************************************************************)
LEMMA SumModulo ==
  ASSUME NEW d \in Nat \ {0}, NEW a \in Int, NEW b \in Int
  PROVE  ((a % d) + b) % d = (a + b) % d /\ a % d \in 0..(d - 1)
<1>1. ASSUME NEW x \in Int PROVE x % d \in 0..(d - 1) /\ x \div d \in Int /\ x = d * (x \div d) + (x % d)
  OBVIOUS
<1>2. PICK q \in Int, r \in 0..(d - 1) : r = a % d /\ a = d * q + r
  BY <1>1
<1>3. PICK x \in Int, y \in Int : x = r + b /\ y = a + b
  OBVIOUS
<1>4. PICK p \in Int, s \in 0..(d - 1) : s = x % d /\ x = d * p + s
  BY <1>1
<1>5. PICK o \in Int, t \in 0..(d - 1) : t = y % d /\ y = d * o + t
  BY <1>1
<1>6. d * (p + q) + s = d * o + t
  <2>1. d * (p + q) = d * p + d * q
    OBVIOUS
  <2>2. PICK z1 \in Int, z2 \in Int, z3 \in Int, z4 \in Int :
          z1 = d * p /\ z2 = d * q /\ z3 = d * o /\ z4 = d * (p + q)
    OBVIOUS
  <2>3. a = z2 + r /\ x = z1 + s /\ y = z3 + t /\ z4 = z1 + z2
    BY <1>2, <1>4, <1>5, <2>1, <2>2
  <2>4. z4 + s = z3 + t
    BY ONLY <1>3, <2>2, <2>3, a \in Int, b \in Int, r \in Int, s \in Int, t \in Int
  <2>5. QED BY <2>2, <2>4
<1>7. s = t
  <2>1. p + q \in Int
    OBVIOUS
  <2>2. QED BY <1>6, <2>1, OneQuotient
<1>8. QED BY <1>1, <1>2, <1>3, <1>4, <1>5, <1>7

TableSize == LitLen + DistSyms
Lengths(f) == f \in [0..(TableSize - 1) -> 0..MaxDepth]

\* The places from a on, below b, of length l; and lengths f have been counted.
Within(f, l, a, b) == {p \in a..(b - 1) : f[p] = l}

\* The codes of l bits beyond the symbols of that length.
Beyond(f, l) == Total(Change(f, l), 0..(LitLen - 1), LitLen)

Counted(f, c, a, b) ==
  /\ c \in [0..MaxDepth -> Nat]
  /\ \A l \in 1..MaxDepth : c[l] = Cardinality(Within(f, l, a, b)) % CountMod
Expands(f, c) ==
  /\ c \in [0..MaxTokenLen -> Nat]
  /\ \A l \in 1..MaxTokenLen :
       c[l] = Beyond(f, l) % CountMod

Written(f, s, len) == [p \in DOMAIN f |-> IF p \in s THEN len ELSE f[p]]

\* Places s are free, and on the side of their boundary.
Free(f, s) ==
  /\ s \in SUBSET (0..(TableSize - 1))
  /\ \A p \in s : f[p] = 0 /\ (p < Boundary \/ p >= LitLen)

\* The sizes of the table of lengths and of its parts.
LEMMA SizeFacts ==
  /\ LitLen \in Nat /\ TableSize \in Nat /\ LitLen < TableSize /\ LitSyms < LitLen
  /\ LitLen = LitSyms + NumLens /\ TableSize = LitLen + DistSyms
  /\ MaxDepth \in Nat \ {0} /\ CountMod \in Nat \ {0}
  /\ \A p \in 0..(LitLen - 1) : p \in 0..(TableSize - 1)
  /\ \A p \in LitLen..(TableSize - 1) : p \in 0..(TableSize - 1)
BY ExtraFacts, WidthsOK DEF LitLen, TableSize

\* Counting modulo CountMod goes on being right when a length is put to free places.
LEMMA CountPut ==
  ASSUME NEW f, Lengths(f), NEW s, Free(f, s), NEW a \in Nat, NEW b \in Nat, b <= TableSize,
         NEW len \in 0..MaxDepth, NEW c, Counted(f, c, a, b), NEW t, t = s \cap (a..(b - 1))
  PROVE  Counted(Written(f, s, len), [c EXCEPT ![len] = (@ + Cardinality(t)) % CountMod], a, b)
<1>1. PICK D : D = a..(b - 1)
  OBVIOUS
<1>2. PICK g : g = Written(f, s, len)
  OBVIOUS
<1>3. PICK e : e = [c EXCEPT ![len] = (@ + Cardinality(t)) % CountMod]
  OBVIOUS
<1>4. /\ f \in [0..(TableSize - 1) -> 0..MaxDepth]
      /\ \A p \in 0..(TableSize - 1) : g[p] = IF p \in s THEN len ELSE f[p]
  BY <1>2 DEF Lengths, Written
<1>5. /\ s \in SUBSET (0..(TableSize - 1)) /\ \A p \in s : f[p] = 0
      /\ t \in SUBSET D /\ IsFiniteSet(D) /\ D \in SUBSET (0..(TableSize - 1))
      /\ \A p \in D : p \in s <=> p \in t
  <2>1. s \in SUBSET (0..(TableSize - 1)) /\ \A p \in s : f[p] = 0
    BY DEF Free
  <2>2. IsFiniteSet(D)
    <3>1. a \in Int /\ b - 1 \in Int
      OBVIOUS
    <3>2. QED BY <1>1, <3>1, FS_Interval
  <2>3. D \in SUBSET (0..(TableSize - 1))
    BY <1>1, SizeFacts
  <2>4. QED BY <1>1, <2>1, <2>2, <2>3
<1>6. ASSUME NEW x \in SUBSET D PROVE IsFiniteSet(x) /\ Cardinality(x) \in Nat
  BY <1>5, FS_Subset, FS_CardinalityType
<1>7. \A x \in Nat : x % CountMod \in Nat
  <2>1. ASSUME NEW x \in Nat PROVE x % CountMod \in Nat
    BY SizeFacts, SumModulo
  <2>2. QED BY <2>1
<1>8. c \in [0..MaxDepth -> Nat] /\ Cardinality(t) \in Nat
  BY <1>5, <1>6 DEF Counted
<1>9. e \in [0..MaxDepth -> Nat]
  <2>1. (c[len] + Cardinality(t)) % CountMod \in Nat
    <3>1. PICK x \in Nat : x = c[len] + Cardinality(t)
      BY <1>8
    <3>2. QED BY <1>7, <3>1
  <2>2. QED BY <1>3, <1>8, <2>1
<1>10. ASSUME NEW l \in 1..MaxDepth
       PROVE  e[l] = Cardinality(Within(g, l, a, b)) % CountMod
  <2>1. PICK S : S = Within(f, l, a, b)
    OBVIOUS
  <2>2. S \in SUBSET D /\ IsFiniteSet(S) /\ Cardinality(S) \in Nat
    <3>1. S \in SUBSET D
      BY <1>1, <2>1 DEF Within
    <3>2. QED BY <1>6, <3>1
  <2>3. c[l] = Cardinality(S) % CountMod /\ l \in 0..MaxDepth
    BY <2>1 DEF Counted
  <2>4. CASE l # len
    <3>1. Within(g, l, a, b) = S
      <4>1. ASSUME NEW p \in D PROVE g[p] = l <=> f[p] = l
        <5>1. p \in 0..(TableSize - 1) /\ l # 0
          BY <1>5
        <5>2. p \in s => g[p] = len /\ f[p] = 0
          BY <1>4, <1>5, <5>1
        <5>3. p \notin s => g[p] = f[p]
          BY <1>4, <5>1
        <5>4. QED BY <2>4, <5>1, <5>2, <5>3
      <4>2. QED BY <1>1, <2>1, <4>1 DEF Within
    <3>2. e[l] = c[l]
      BY <1>3, <1>8, <2>3, <2>4
    <3>3. QED BY <2>3, <3>1, <3>2
  <2>5. CASE l = len
    <3>1. Within(g, l, a, b) = S \cup t /\ S \cap t = {}
      <4>1. ASSUME NEW p \in D
            PROVE  (g[p] = l <=> (f[p] = l \/ p \in t)) /\ ~(f[p] = l /\ p \in t)
        <5>1. p \in 0..(TableSize - 1) /\ l # 0
          BY <1>5
        <5>2. p \in s <=> p \in t
          BY <1>5
        <5>3. p \in s => g[p] = len /\ f[p] = 0
          BY <1>4, <1>5, <5>1
        <5>4. p \notin s => g[p] = f[p]
          BY <1>4, <5>1
        <5>5. QED BY <2>5, <5>1, <5>2, <5>3, <5>4
      <4>2. S = {p \in D : f[p] = l}
            /\ Within(g, l, a, b) = {p \in D : g[p] = l}
        BY <1>1, <2>1 DEF Within
      <4>3. QED BY <1>5, <4>1, <4>2
    <3>2. Cardinality(S \cup t) = Cardinality(S) + Cardinality(t)
      <4>1. Cardinality(S \cup t) = Cardinality(S) + Cardinality(t) - Cardinality({})
        BY <1>5, <1>6, <2>2, <3>1, FS_Union
      <4>2. QED BY <1>8, <2>2, <4>1, FS_EmptySet
    <3>3. e[l] = ((Cardinality(S) % CountMod) + Cardinality(t)) % CountMod
      BY <1>3, <1>8, <2>3, <2>5
    <3>4. e[l] = (Cardinality(S) + Cardinality(t)) % CountMod
      <4>1. PICK x \in Int, y \in Int : x = Cardinality(S) /\ y = Cardinality(t)
        BY <1>8, <2>2
      <4>2. ((x % CountMod) + y) % CountMod = (x + y) % CountMod
        BY SizeFacts, SumModulo
      <4>3. QED BY <3>3, <4>1, <4>2
    <3>5. QED BY <3>1, <3>2, <3>4
  <2>6. QED BY <2>4, <2>5
<1>11. Counted(g, e, a, b)
  BY <1>9, <1>10 DEF Counted
<1>12. QED BY <1>1, <1>2, <1>3, <1>11

\* No code with its extra bits is longer than MaxTokenLen.
LEMMA TokenLenFacts ==
  /\ MaxExtra \in Nat /\ MaxTokenLen \in Nat /\ MaxTokenLen = MaxDepth + MaxExtra
  /\ \A t \in 0..(NumLens - 1) : LenExtra[t] <= MaxExtra
<1> DEFINE T == {k \in Nat : k <= NumLens =>
                   \E z \in Nat : \A t \in 0..(k - 1) : LenExtra[t] <= z}
<1>1. 0 \in T
  <2>1. \A t \in 0..(0 - 1) : LenExtra[t] <= 0
    OBVIOUS
  <2>2. QED BY <2>1
<1>2. ASSUME NEW k \in T PROVE k + 1 \in T
  <2>1. SUFFICES ASSUME k + 1 <= NumLens
                 PROVE  \E z \in Nat : \A t \in 0..((k + 1) - 1) : LenExtra[t] <= z
    BY <1>2
  <2>2. k \in Nat /\ k \in 0..(NumLens - 1) /\ k <= NumLens
    BY <1>2, <2>1, ExtraFacts
  <2>3. PICK z \in Nat : \A t \in 0..(k - 1) : LenExtra[t] <= z
    BY <1>2, <2>2
  <2>4. PICK y \in Nat : y = LenExtra[k]
    BY <2>2, ExtraFacts
  <2>5. PICK x \in Nat : x >= z /\ x >= y
    <3>1. z + y \in Nat /\ z + y >= z /\ z + y >= y
      OBVIOUS
    <3>2. QED BY <3>1
  <2>6. ASSUME NEW t \in 0..((k + 1) - 1) PROVE LenExtra[t] <= x
    <3>1. CASE t = k
      BY <2>4, <2>5, <3>1
    <3>2. CASE t # k
      <4>1. t \in 0..(k - 1) /\ t \in 0..(NumLens - 1)
        BY <2>2, <3>2, ExtraFacts
      <4>2. LenExtra[t] <= z /\ LenExtra[t] \in Nat
        BY <2>3, <4>1, ExtraFacts
      <4>3. QED BY <2>5, <4>2
    <3>3. QED BY <3>1, <3>2
  <2>7. QED BY <2>6
<1>3. T = Nat
  <2> HIDE DEF T
  <2>1. T \in SUBSET Nat
    BY DEF T
  <2>2. QED BY <1>1, <1>2, <2>1, InductiveSet
<1>4. PICK z \in Nat : \A t \in 0..(NumLens - 1) : LenExtra[t] <= z
  <2>1. NumLens \in Nat /\ NumLens <= NumLens
    BY ExtraFacts
  <2>2. NumLens \in T
    <3> HIDE DEF T
    <3>1. QED BY <1>3, <2>1
  <2>3. QED BY <2>1, <2>2
<1>5. PICK S : S = Range(LenExtra)
  OBVIOUS
<1>6. S = {LenExtra[t] : t \in 0..(NumLens - 1)}
  BY <1>5, FormatOK DEF Range
<1>7. S \in SUBSET (0..z) /\ S # {}
  <2>1. \A t \in 0..(NumLens - 1) : LenExtra[t] \in 0..z
    BY <1>4, ExtraFacts
  <2>2. 0 \in 0..(NumLens - 1)
    BY ExtraFacts
  <2>3. QED BY <1>6, <2>1, <2>2
<1>8. Max(S) \in S /\ \A x \in S : x <= Max(S)
  BY <1>7, GreatestElement
<1>9. MaxExtra = Max(S)
  BY <1>5 DEF MaxExtra
<1>10. MaxExtra \in Nat /\ \A t \in 0..(NumLens - 1) : LenExtra[t] <= MaxExtra
  <2>1. MaxExtra \in 0..z
    BY <1>7, <1>8, <1>9
  <2>2. ASSUME NEW t \in 0..(NumLens - 1) PROVE LenExtra[t] <= MaxExtra
    <3>1. LenExtra[t] \in S
      BY <1>6
    <3>2. QED BY <1>8, <1>9, <3>1
  <2>3. QED BY <2>1, <2>2
<1>11. QED BY <1>10, WidthsOK DEF MaxTokenLen

\* The codes of l bits that length symbols with codes of len bits have.
Growth(len, l) ==
  [p \in 0..(LitLen - 1) |->
     IF p < LitSyms THEN 0
     ELSE IF len + ExtraAt(p) = l THEN PowerOf2[ExtraAt(p)] ELSE 0]

GrowthSums(len, l, D, f) ==
  f = [s \in SUBSET D |->
         IF s = {} THEN 0
         ELSE (IF len + ExtraAt(OneOf(s)) = l THEN PowerOf2[ExtraAt(OneOf(s))] ELSE 0)
                + f[s \ {OneOf(s)}]]

\* What Expanded adds to the number of codes of l bits, as a sum.
LEMMA GrowthFacts ==
  ASSUME NEW len \in Nat, NEW l \in Nat, NEW D \in SUBSET (LitSyms..(LitLen - 1))
  PROVE  /\ IntegerBelow(Growth(len, l), LitLen)
         /\ MapThenSumSet(LAMBDA p : IF len + ExtraAt(p) = l
                                     THEN PowerOf2[ExtraAt(p)] ELSE 0, D)
              = Total(Growth(len, l), D, LitLen)
<1>1. PICK g : g = Growth(len, l)
  OBVIOUS
<1>2. ASSUME NEW p \in LitSyms..(LitLen - 1)
      PROVE  /\ p \in 0..(LitLen - 1) /\ PowerOf2[ExtraAt(p)] \in Nat
             /\ g[p] = IF len + ExtraAt(p) = l THEN PowerOf2[ExtraAt(p)] ELSE 0
  <2>1. p \in 0..(LitLen - 1) /\ ~(p < LitSyms)
    BY SizeFacts, ExtraFacts
  <2>2. p - LitSyms \in 0..(NumLens - 1)
    BY SizeFacts, ExtraFacts
  <2>3. PowerOf2[ExtraAt(p)] \in Nat
    BY <2>2, ExtraFacts DEF ExtraAt
  <2>4. QED BY <1>1, <2>1, <2>3 DEF Growth
<1>3. IntegerBelow(g, LitLen)
  <2>1. ASSUME NEW p \in 0..(LitLen - 1) PROVE g[p] \in Int
    <3>1. CASE p < LitSyms
      BY <1>1, <3>1 DEF Growth
    <3>2. CASE ~(p < LitSyms)
      <4>1. p \in LitSyms..(LitLen - 1)
        BY <3>2, SizeFacts, ExtraFacts
      <4>2. QED BY <1>2, <4>1
    <3>3. QED BY <3>1, <3>2
  <2>2. QED BY <2>1 DEF IntegerBelow
<1>4. D \in SUBSET (0..(LitLen - 1)) /\ LitLen \in Nat
  BY <1>2, SizeFacts
<1>5. \A h : GrowthSums(len, l, D, h) <=> SumsOver(D, g, h)
  <2>1. ASSUME NEW s \in SUBSET D, s # {}
        PROVE  g[OneOf(s)] = IF len + ExtraAt(OneOf(s)) = l
                             THEN PowerOf2[ExtraAt(OneOf(s))] ELSE 0
    <3>1. OneOf(s) \in LitSyms..(LitLen - 1)
      BY <2>1 DEF OneOf
    <3>2. QED BY <1>2, <3>1
  <2>2. QED BY <2>1 DEF GrowthSums, SumsOver
<1>6. PICK h : h = CHOOSE x : GrowthSums(len, l, D, x)
  OBVIOUS
<1>7. h = CHOOSE x : SumsOver(D, g, x)
  BY <1>5, <1>6
<1>8. h[D] = Total(g, D, LitLen)
  BY <1>3, <1>4, <1>7, TotalSum
<1>9. MapThenSumSet(LAMBDA p : IF len + ExtraAt(p) = l THEN PowerOf2[ExtraAt(p)] ELSE 0, D)
        = h[D]
  BY <1>6 DEF GrowthSums, OneOf, MapThenSumSet, MapThenFoldSet
<1>10. QED BY <1>1, <1>3, <1>8, <1>9

\* What the length len at free places adds to the codes beyond.
Grows(f, s, len, l) ==
  \E y \in Int, z \in Int, k \in Nat :
    /\ y = Total(Growth(len, l), MatchLens(s), LitLen) /\ z = Beyond(f, l)
    /\ k = Cardinality(MatchLens(s))
    /\ Beyond(Written(f, s, len), l) = z + (y - (IF l = len THEN k ELSE 0))

\* A length put to free places changes the number of codes by what Expanded adds.
LEMMA ChangePut ==
  ASSUME NEW f, Lengths(f), NEW s, Free(f, s), Boundary \in Nat, Boundary <= LitLen,
         NEW len \in 1..MaxDepth, NEW l \in Nat
  PROVE  Grows(f, s, len, l)
<1>1. PICK M, D, m : M = MatchLens(s) /\ D = 0..(LitLen - 1) /\ m = LitLen
  OBVIOUS
<1>2. PICK g : g = Written(f, s, len)
  OBVIOUS
<1>3. m \in Nat /\ len \in Nat /\ len # 0
  BY <1>1, SizeFacts
<1>4. ASSUME NEW p \in D
      PROVE  /\ f[p] \in Nat /\ g[p] = IF p \in s THEN len ELSE f[p]
             /\ p \in s => f[p] = 0
             /\ p \in M <=> p \in s /\ ~(p < LitSyms)
  <2>1. p \in 0..(TableSize - 1) /\ p \in Nat /\ p < LitLen
    BY <1>1, SizeFacts
  <2>2. f[p] \in Nat /\ g[p] = IF p \in s THEN len ELSE f[p]
    <3>1. f \in [0..(TableSize - 1) -> 0..MaxDepth]
      BY DEF Lengths
    <3>2. QED BY <1>2, <2>1, <3>1, SizeFacts DEF Written
  <2>3. p \in s => f[p] = 0 /\ p < Boundary
    BY <2>1, SizeFacts DEF Free
  <2>4. p \in M <=> p \in s /\ LitSyms <= p /\ p < Boundary
    BY <1>1 DEF MatchLens
  <2>5. QED BY <2>1, <2>2, <2>3, <2>4, ExtraFacts
<1>5. M \in SUBSET (LitSyms..(LitLen - 1)) /\ M \in SUBSET D
  <2>1. ASSUME NEW p \in M PROVE p \in LitSyms..(LitLen - 1) /\ p \in D
    <3>1. p \in s /\ LitSyms <= p /\ p < Boundary
      BY <1>1 DEF MatchLens
    <3>2. p \in 0..(TableSize - 1)
      BY <3>1 DEF Free
    <3>3. QED BY <1>1, <3>1, <3>2, SizeFacts, ExtraFacts
  <2>2. QED BY <2>1
<1>6. PICK a, b, o : a = Change(f, l) /\ b = Change(g, l) /\ o = Growth(len, l)
  OBVIOUS
<1>7. PICK u : u = [p \in D |-> 1]
  OBVIOUS
<1>8. IntegerBelow(a, m) /\ IntegerBelow(b, m) /\ IntegerBelow(o, m) /\ IntegerBelow(u, m)
  <2>1. \A p \in 0..(LitLen - 1) : f[p] \in Nat /\ g[p] \in Nat
    BY <1>1, <1>3, <1>4
  <2>2. IntegerBelow(a, m) /\ IntegerBelow(b, m)
    BY <1>1, <1>6, <2>1, ChangeFacts
  <2>3. IntegerBelow(o, m)
    BY <1>1, <1>3, <1>5, <1>6, GrowthFacts
  <2>4. QED BY <1>1, <1>7, <2>2, <2>3 DEF IntegerBelow
<1>9. PICK z \in 0..1 : z = IF l = len THEN 1 ELSE 0
  OBVIOUS
<1>10. PICK A, B, O, U : /\ A = Chosen(a, D, m) /\ B = Chosen(b, D, m)
                         /\ O = Chosen(o, M, m) /\ U = Chosen(u, M, m)
  OBVIOUS
<1>11. Integral(A, m) /\ Integral(B, m) /\ Integral(O, m) /\ Integral(U, m)
  BY <1>3, <1>8, <1>10, ChosenFacts
<1>12. PICK V, X : V = [k \in 1..m |-> z * U[k]] /\ X = [k \in 1..m |-> B[k] + V[k]]
  OBVIOUS
<1>13. Integral(V, m) /\ Integral(X, m)
  <2>1. ASSUME NEW k \in 1..m PROVE V[k] \in Int /\ X[k] \in Int
    <3>1. PICK x \in Int, y \in Int : x = U[k] /\ y = B[k]
      BY <1>11 DEF Integral
    <3>2. V[k] = z * x
      BY <1>12, <3>1
    <3>3. PICK v \in Int : v = z * x
      OBVIOUS
    <3>4. V[k] = v /\ X[k] = y + v
      BY <1>12, <3>1, <3>2, <3>3
    <3>5. QED BY <3>4
  <2>2. QED BY <2>1 DEF Integral
<1>14. ASSUME NEW k \in 1..m PROVE X[k] = A[k] + O[k]
  <2>1. PICK p \in D : p = k - 1
    BY <1>1, <1>3
  <2>2. A[k] = a[p] /\ B[k] = b[p] /\ O[k] = (IF p \in M THEN o[p] ELSE 0)
        /\ U[k] = IF p \in M THEN 1 ELSE 0
    BY <1>7, <1>10, <2>1 DEF Chosen
  <2>3. X[k] = b[p] + z * U[k]
    BY <1>12, <2>2
  <2>4. CASE p < LitSyms
    <3>1. a[p] = 0 /\ b[p] = 0 /\ p \notin M
      BY <1>1, <1>4, <1>6, <2>4 DEF Change
    <3>2. QED BY <2>2, <2>3, <3>1
  <2>5. CASE ~(p < LitSyms)
    <3>1. PICK x \in Nat, y \in Nat : x = ExtraAt(p) /\ y = PowerOf2[ExtraAt(p)]
      <4>1. p \in LitSyms..(LitLen - 1)
        BY <1>1, <2>5, ExtraFacts, SizeFacts
      <4>2. p - LitSyms \in 0..(NumLens - 1)
        BY <4>1, ExtraFacts, SizeFacts
      <4>3. QED BY <4>2, ExtraFacts DEF ExtraAt
    <3>2. p \in M <=> p \in s
      BY <1>4, <2>5
    <3>3. CASE p \in s
      <4>1. a[p] = 0 /\ g[p] = len
        BY <1>1, <1>4, <1>6, <3>3 DEF Change
      <4>2. b[p] = (IF len + x = l THEN y ELSE 0) - (IF len = l THEN 1 ELSE 0)
        BY <1>1, <1>3, <1>6, <2>5, <3>1, <4>1 DEF Change
      <4>3. o[p] = IF len + x = l THEN y ELSE 0
        BY <1>1, <1>6, <2>5, <3>1 DEF Growth
      <4>4. z * 1 = IF len = l THEN 1 ELSE 0
        BY <1>9
      <4>5. PICK v \in Nat : v = IF len + x = l THEN y ELSE 0
        OBVIOUS
      <4>6. b[p] = v - z
        BY <1>9, <4>2, <4>5
      <4>7. QED BY <2>2, <2>3, <3>2, <3>3, <4>1, <4>3, <4>5, <4>6
    <3>4. CASE p \notin s
      <4>1. g[p] = f[p]
        BY <1>4, <3>4
      <4>2. a[p] = b[p]
        BY <1>1, <1>6, <4>1 DEF Change
      <4>3. a[p] \in Int
        BY <1>1, <1>8 DEF IntegerBelow
      <4>4. QED BY <2>2, <2>3, <3>2, <3>4, <4>2, <4>3
    <3>5. QED BY <3>3, <3>4
  <2>6. QED BY <2>4, <2>5
<1>15. Sigma(X, m) = Sigma(A, m) + Sigma(O, m)
  BY <1>3, <1>11, <1>14, SigmaPlus
<1>16. Sigma(X, m) = Sigma(B, m) + Sigma(V, m)
  BY <1>3, <1>11, <1>12, <1>13, SigmaPlus
<1>17. Sigma(V, m) = z * Sigma(U, m)
  BY <1>3, <1>11, <1>12, SigmaScale
<1>18. Sigma(U, m) = Cardinality(M) /\ Cardinality(M) \in Nat
  <2>1. Total(u, M, m) = Cardinality(M)
    BY <1>1, <1>3, <1>5, <1>7, TotalOnes
  <2>2. IsFiniteSet(D)
    BY <1>1, SizeFacts, FS_Interval
  <2>3. Cardinality(M) \in Nat
    BY <1>5, <2>2, FS_Subset, FS_CardinalityType
  <2>4. QED BY <1>10, <2>1, <2>3 DEF Total
<1>19. PICK x1 \in Int, x2 \in Int, x3 \in Int, x4 \in Nat :
         x1 = Sigma(A, m) /\ x2 = Sigma(B, m) /\ x3 = Sigma(O, m) /\ x4 = Cardinality(M)
  BY <1>3, <1>11, <1>18, SigmaInt
<1>20. x2 = x1 + (x3 - (IF l = len THEN x4 ELSE 0))
  <2>1. x1 + x3 = x2 + z * x4
    BY <1>15, <1>16, <1>17, <1>18, <1>19
  <2>2. CASE l = len
    BY <1>9, <2>1, <2>2
  <2>3. CASE l # len
    BY <1>9, <2>1, <2>3
  <2>4. QED BY <2>2, <2>3
<1>21. /\ x1 = Beyond(f, l) /\ x2 = Beyond(Written(f, s, len), l)
       /\ x3 = Total(Growth(len, l), MatchLens(s), LitLen)
       /\ x4 = Cardinality(MatchLens(s))
  BY <1>1, <1>2, <1>6, <1>10, <1>19 DEF Total, Beyond
<1>22. QED BY <1>20, <1>21 DEF Grows

CountGrows(f, s, len, l) ==
  \E x \in Int, d \in Int, z \in Int :
    /\ x = litExpand[l] /\ z = Beyond(f, l)
    /\ Expanded(s, len)[l] = (x + d) % CountMod
    /\ Beyond(Written(f, s, len), l) = z + d

\* The counts of codes with extra bits go on being right, too.
LEMMA ExpandPut ==
  ASSUME NEW f, Lengths(f), NEW s, Free(f, s), Boundary \in Nat, Boundary <= LitLen,
         NEW len \in 0..MaxDepth, Expands(f, litExpand)
  PROVE  Expands(Written(f, s, len), Expanded(s, len))
<1>1. PICK g : g = Written(f, s, len)
  OBVIOUS
<1>2. f \in [0..(TableSize - 1) -> 0..MaxDepth] /\ \A p \in s : p \in DOMAIN f /\ f[p] = 0
  BY DEF Lengths, Free
<1>3. CASE len = 0
  <2>1. g = f
    BY <1>1, <1>2, <1>3 DEF Written
  <2>2. Expanded(s, len) = litExpand
    BY <1>3 DEF Expanded
  <2>3. QED BY <1>1, <2>1, <2>2
<1>4. CASE len # 0
  <2>1. len \in 1..MaxDepth /\ len \in Nat /\ DOMAIN litExpand = 0..MaxTokenLen
    BY <1>4, WidthsOK DEF Expands
  <2>2. PICK M : M = MatchLens(s)
    OBVIOUS
  <2>3. M \in SUBSET (LitSyms..(LitLen - 1))
    <3>1. ASSUME NEW p \in M PROVE p \in LitSyms..(LitLen - 1)
      <4>1. p \in s /\ LitSyms <= p /\ p < Boundary
        BY <2>2 DEF MatchLens
      <4>2. p \in 0..(TableSize - 1)
        BY <4>1 DEF Free
      <4>3. QED BY <4>1, <4>2, SizeFacts, ExtraFacts
    <3>2. QED BY <3>1
  <2>4. PICK e : e = Expanded(s, len)
    OBVIOUS
  <2>5. ASSUME NEW l \in 0..MaxTokenLen
        PROVE  e[l] = (litExpand[l] + Total(Growth(len, l), M, LitLen)
                         - (IF l = len THEN Cardinality(M) ELSE 0)) % CountMod
    <3>1. l \in Nat
      BY TokenLenFacts
    <3>2. MapThenSumSet(LAMBDA p : IF len + ExtraAt(p) = l
                                   THEN PowerOf2[ExtraAt(p)] ELSE 0, M)
            = Total(Growth(len, l), M, LitLen)
      BY <2>1, <2>3, <3>1, GrowthFacts
    <3>3. e[l] = (litExpand[l] + MapThenSumSet(LAMBDA p : IF len + ExtraAt(p) = l
                                                          THEN PowerOf2[ExtraAt(p)] ELSE 0, M)
                    - (IF l = len THEN Cardinality(M) ELSE 0)) % CountMod
      BY <1>4, <2>1, <2>2, <2>4 DEF Expanded
    <3>4. QED BY <3>2, <3>3
  <2>6. ASSUME NEW l \in 0..MaxTokenLen PROVE CountGrows(f, s, len, l)
    <3>1. l \in Nat
      BY TokenLenFacts
    <3>2. Grows(f, s, len, l)
      BY <2>1, <3>1, ChangePut
    <3>3. PICK y \in Int, z \in Int, k \in Nat :
            /\ y = Total(Growth(len, l), M, LitLen) /\ z = Beyond(f, l)
            /\ k = Cardinality(M)
            /\ Beyond(g, l) = z + (y - (IF l = len THEN k ELSE 0))
      BY <1>1, <2>2, <3>2 DEF Grows
    <3>4. PICK c \in Int : c = IF l = len THEN k ELSE 0
      OBVIOUS
    <3>5. PICK x \in Int : x = litExpand[l]
      BY DEF Expands
    <3>6. e[l] = (x + y - c) % CountMod
      BY <2>5, <3>3, <3>4, <3>5
    <3>7. x + y - c = x + (y - c)
      OBVIOUS
    <3>8. e[l] = (x + (y - c)) % CountMod
      BY ONLY <3>6, <3>7
    <3>9. Beyond(g, l) = z + (y - c)
      BY ONLY <3>3, <3>4
    <3>10. PICK d \in Int : d = y - c
      OBVIOUS
    <3>11. e[l] = (x + d) % CountMod /\ Beyond(g, l) = z + d
      BY ONLY <3>8, <3>9, <3>10
    <3>12. QED BY <1>1, <2>4, <3>3, <3>5, <3>11 DEF CountGrows
  <2>7. ASSUME NEW l \in 0..MaxTokenLen PROVE e[l] \in Nat
    <3>1. PICK x \in Int, d \in Int : e[l] = (x + d) % CountMod
      BY <2>4, <2>6 DEF CountGrows
    <3>2. PICK a \in Int : a = x + d
      OBVIOUS
    <3>3. QED BY <3>1, <3>2, SumModulo, SizeFacts
  <2>8. e \in [0..MaxTokenLen -> Nat]
    <3>1. e = [l \in 0..MaxTokenLen |-> e[l]]
      BY <1>4, <2>1, <2>4 DEF Expanded
    <3>2. QED BY <2>7, <3>1
  <2>9. ASSUME NEW l \in 1..MaxTokenLen PROVE e[l] = Beyond(g, l) % CountMod
    <3>1. l \in 0..MaxTokenLen
      BY TokenLenFacts
    <3>2. PICK x \in Int, d \in Int, z \in Int :
            /\ x = litExpand[l] /\ z = Beyond(f, l)
            /\ e[l] = (x + d) % CountMod /\ Beyond(g, l) = z + d
      BY <1>1, <2>4, <2>6, <3>1 DEF CountGrows
    <3>3. x = z % CountMod
      BY <3>2 DEF Expands
    <3>4. ((z % CountMod) + d) % CountMod = (z + d) % CountMod
      BY SumModulo, SizeFacts
    <3>5. QED BY ONLY <3>2, <3>3, <3>4
  <2>10. QED BY <1>1, <2>4, <2>8, <2>9 DEF Expands
<1>5. QED BY <1>3, <1>4
\* Each number is one of some symbol.
LEMMA NumberOfSymbol ==
  ASSUME NEW x \in Indexes
  PROVE  SymbolOf(x) \in 0..(LitLen - 1) /\ SymbolExtra(SymbolOf(x)) \in Nat
<1>1. x \in Nat /\ x < LenBase(NumLens) /\ LenBase(NumLens) \in Nat
  BY NumberFacts
<1>2. CASE x < LitSyms
  <2>1. SymbolOf(x) = x /\ x \in 0..(LitLen - 1)
    BY <1>1, <1>2, SizeFacts, ExtraFacts DEF SymbolOf
  <2>2. QED BY <1>2, <2>1 DEF SymbolExtra
<1>3. CASE ~(x < LitSyms)
  <2> DEFINE T == {k \in Nat : k <= NumLens /\ x < LenBase(k)}
  <2>1. T \in SUBSET Nat /\ T # {}
    BY <1>1, ExtraFacts
  <2>2. PICK k \in T : \A t \in T : k <= t
    BY <2>1, LeastElement
  <2>3. k \in Nat /\ k # 0 /\ k <= NumLens /\ x < LenBase(k)
    BY <1>3, <2>2, LenBaseNext
  <2>4. PICK s \in Nat : s = k - 1 /\ s + 1 = k /\ s \in 0..(NumLens - 1) /\ s \in 0..NumLens
    <3>1. k - 1 \in Nat /\ (k - 1) + 1 = k /\ k - 1 \in 0..(NumLens - 1) /\ k - 1 \in 0..NumLens
      BY <2>3, ExtraFacts
    <3>2. QED BY <3>1
  <2>5. ~(x < LenBase(s))
    <3>1. SUFFICES ASSUME x < LenBase(s) PROVE FALSE
      OBVIOUS
    <3>2. s \in T
      BY <2>4, <3>1
    <3>3. k <= s
      BY <2>2, <3>2
    <3>4. QED BY <2>3, <2>4, <3>3
  <2>6. LenBase(s) \in Nat /\ LenBase(s + 1) \in Nat
    BY <2>4, LenBaseNext
  <2>7. x \in LenBase(s)..(LenBase(s + 1) - 1)
    BY <1>1, <2>3, <2>4, <2>5, <2>6
  <2>8. SymbolOf(x) = LitSyms + s /\ SymbolExtra(SymbolOf(x)) = LenExtra[s]
    BY <2>4, <2>7, SymbolFacts
  <2>9. LitSyms + s \in 0..(LitLen - 1) /\ LenExtra[s] \in Nat
    BY <2>4, SizeFacts, ExtraFacts
  <2>10. QED BY <2>8, <2>9
<1>4. QED BY <1>2, <1>3
-----------------------------------------------------------------------------
(***************************************************************************)
(* The codes that SetCodes gives out.                                      *)
(***************************************************************************)
\* A table of k places is a sequence.
LEMMA TableIsSequence ==
  ASSUME NEW k \in Nat, NEW c, c = [p \in 1..k |-> c[p]]
  PROVE  c \in Seq({c[p] : p \in 1..k}) /\ Len(c) = k
<1>1. PICK S : S = {c[p] : p \in 1..k}
  OBVIOUS
<1>2. c \in [1..k -> S]
  BY <1>1
<1>3. c \in Seq(S) /\ Len(c) = k
  BY <1>2
<1>4. QED BY <1>1, <1>3

HasLengths(e, g) ==
  /\ DOMAIN e = DOMAIN g
  /\ \A s \in DOMAIN g :
       /\ Len(e[s]) = g[s] /\ (e[s] = <<>> <=> g[s] = 0)
       /\ \E S : e[s] \in Seq(S)

\* SetCodes gives each symbol a code of its length.
LEMMA NumberedLengths ==
  ASSUME NEW g, \A s \in DOMAIN g : g[s] \in Nat, NEW c
  PROVE  HasLengths(SetCodes(g, c), g)
<1>1. PICK h : h = NextCodes([c EXCEPT ![0] = 0], MaxDepth)
  OBVIOUS
<1>2. PICK e : e = Numbered(g, h)
  OBVIOUS
<1>3. DOMAIN e = DOMAIN g
  BY <1>2 DEF Numbered
<1>4. ASSUME NEW s \in DOMAIN g
      PROVE  /\ Len(e[s]) = g[s] /\ (e[s] = <<>> <=> g[s] = 0) /\ \E S : e[s] \in Seq(S)
  <2>1. CASE g[s] = 0
    <3>1. e[s] = <<>>
      BY <1>2, <2>1 DEF Numbered
    <3>2. e[s] \in Seq(Nat) /\ Len(e[s]) = 0
      BY <3>1
    <3>3. QED BY <2>1, <3>1, <3>2
  <2>2. CASE g[s] # 0
    <3>1. PICK x : x = h[g[s]] + Cardinality({t \in OfLength(g, g[s]) : t < s})
      OBVIOUS
    <3>2. e[s] = BitsOf(x, g[s])
      BY <1>2, <2>2, <3>1 DEF Numbered
    <3>3. PICK k \in Nat : k = g[s]
      OBVIOUS
    <3>4. PICK d : d = BitsOf(x, k)
      OBVIOUS
    <3>5. d = [p \in 1..k |-> d[p]]
      BY <3>4 DEF BitsOf
    <3>6. d \in Seq({d[p] : p \in 1..k}) /\ Len(d) = k
      BY <3>5, TableIsSequence
    <3>7. d # <<>>
      BY <2>2, <3>3, <3>6
    <3>8. QED BY <2>2, <3>2, <3>3, <3>4, <3>6, <3>7
  <2>3. QED BY <2>1, <2>2
<1>5. e = SetCodes(g, c)
  BY <1>1, <1>2 DEF SetCodes
<1>6. QED BY <1>3, <1>4, <1>5 DEF HasLengths

\* With the extra bits behind it, a code has the length that the counts are of.
LEMMA ExtraLengths ==
  ASSUME NEW f, Lengths(f), NEW g, g = [s \in 0..(LitLen - 1) |-> f[s]], NEW c,
         NEW x \in Indexes
  PROVE  Len(WithExtra(SetCodes(g, c))[x]) = CodeLen(f, x)
<1>1. PICK e : e = SetCodes(g, c)
  OBVIOUS
<1>2. PICK p : p = SymbolOf(x)
  OBVIOUS
<1>3. p \in 0..(LitLen - 1) /\ SymbolExtra(p) \in Nat
  BY <1>2, NumberOfSymbol
<1>4. f[p] \in Nat /\ g[p] = f[p] /\ DOMAIN g = 0..(LitLen - 1) /\ \A s \in DOMAIN g : g[s] \in Nat
  <2>1. f \in [0..(TableSize - 1) -> 0..MaxDepth] /\ \A s \in 0..MaxDepth : s \in Nat
    BY SizeFacts DEF Lengths
  <2>2. QED BY <1>3, <2>1, SizeFacts
<1>5. Len(e[p]) = f[p] /\ (e[p] = <<>> <=> f[p] = 0) /\ \E S : e[p] \in Seq(S)
  <2>1. HasLengths(e, g)
    BY <1>1, <1>4, NumberedLengths
  <2>2. QED BY <1>3, <1>4, <2>1 DEF HasLengths
<1>6. CASE f[p] = 0
  <2>1. WithExtra(e)[x] = <<>>
    BY <1>2, <1>5, <1>6 DEF WithExtra
  <2>2. QED BY <1>1, <1>2, <1>6, <2>1 DEF CodeLen
<1>7. CASE f[p] # 0
  <2>1. PICK y, k : y = ValueOf(x) /\ k = SymbolExtra(p)
    OBVIOUS
  <2>2. WithExtra(e)[x] = e[p] \o ExtraCode(y, k)
    BY <1>2, <1>5, <1>7, <2>1 DEF WithExtra
  <2>3. PICK d : d = ExtraCode(y, k)
    OBVIOUS
  <2>4. k \in Nat /\ d = [q \in 1..k |-> d[q]]
    BY <1>3, <2>1, <2>3 DEF ExtraCode
  <2>5. d \in Seq({d[q] : q \in 1..k}) /\ Len(d) = k
    BY <2>4, TableIsSequence
  <2>6. PICK S, T : e[p] \in Seq(S) /\ d \in Seq(T)
    BY <1>5, <2>5
  <2>7. PICK U : U = S \cup T
    OBVIOUS
  <2>8. e[p] \in Seq(U) /\ d \in Seq(U)
    BY <2>6, <2>7
  <2>9. Len(e[p] \o d) = Len(e[p]) + Len(d)
    BY <2>8, Concatenated
  <2>10. QED BY <1>1, <1>2, <1>5, <1>7, <2>1, <2>2, <2>3, <2>5, <2>9 DEF CodeLen
<1>8. QED BY <1>6, <1>7
-----------------------------------------------------------------------------
(***************************************************************************)
(* What is read of one item.                                               *)
(***************************************************************************)
InputOK ==
  /\ input.hlit \in Nat /\ input.hdist \in Nat
  /\ input.clc \in Seq(0..ClcLimit) /\ input.bits \in Seq({0, 1})

ReaderTypes ==
  /\ step \in {"idle", "numbers", "codes", "lens", "distances", "dist table", "literals",
               "lit table", "ok", "invalid", "short", "panic"}
  /\ InputOK /\ left \in LeftOver /\ clcTable \in [Bits(DistBits) -> LeftOver]
  /\ pos \in Nat /\ curr \in Nat /\ Lengths(huffs)

\* Any entry that earlier blocks may have left has a length and a symbol.
LEMMA EntryFacts ==
  /\ NoCode \in LeftOver
  /\ \A s \in Nat, l \in Nat : Direct(<<s>>, l) \in LeftOver
  /\ \A e \in LeftOver :
       /\ e.kind = "code" /\ e.len \in Nat
       /\ e.len # 0 => Head(e.syms) \in Nat
<1>1. NoCode \in LeftOver
  BY DEF LeftOver
<1>2. ASSUME NEW s \in Nat, NEW l \in Nat PROVE Direct(<<s>>, l) \in LeftOver
  <2>1. PICK y \in Seq(Nat) \ {<<>>} : y = <<s>>
    <3>1. <<s>> \in Seq(Nat) /\ Len(<<s>>) = 1 /\ Len(<<>>) = 0
      OBVIOUS
    <3>2. <<s>> # <<>>
      BY <3>1
    <3>3. QED BY <3>1, <3>2
  <2>2. Direct(y, l) \in LeftOver
    BY DEF LeftOver
  <2>3. QED BY <2>1, <2>2
<1>3. ASSUME NEW e \in LeftOver
      PROVE  e.kind = "code" /\ e.len \in Nat /\ (e.len # 0 => Head(e.syms) \in Nat)
  <2>1. CASE e = NoCode
    BY <2>1 DEF NoCode, Direct
  <2>2. CASE e # NoCode
    <3>1. PICK y \in Seq(Nat) \ {<<>>}, l \in Nat : e = Direct(y, l)
      BY <2>2 DEF LeftOver
    <3>2. e.kind = "code" /\ e.len = l /\ e.syms = y
      BY <3>1 DEF Direct
    <3>3. Head(y) \in Nat
      OBVIOUS
    <3>4. QED BY <3>2, <3>3
  <2>3. QED BY <2>1, <2>2
<1>4. QED BY <1>1, <1>2, <1>3

\* The next item is a symbol, of some bits; no input is read as zeros.
LEMMA ItemFacts ==
  ASSUME ReaderTypes
  PROVE  /\ Item.len \in Nat /\ Sym \in Nat /\ ExtraOf(Sym) \in Nat
         /\ \A p \in Nat : BitAt(p + 1) \in {0, 1}
<1>1. ASSUME NEW p \in Nat PROVE BitAt(p + 1) \in {0, 1}
  <2>1. PICK b \in Seq({0, 1}) : b = input.bits
    BY DEF ReaderTypes, InputOK
  <2>2. \A q \in 1..Len(b) : b[q] \in {0, 1}
    OBVIOUS
  <2>3. p + 1 <= Len(b) => p + 1 \in 1..Len(b)
    OBVIOUS
  <2>4. QED BY <2>1, <2>2, <2>3 DEF BitAt
<1>2. PICK b : b = [k \in 1..DistBits |-> BitAt(pos + k)]
  OBVIOUS
<1>3. b \in Bits(DistBits)
  <2>1. ASSUME NEW k \in 1..DistBits PROVE BitAt(pos + k) \in {0, 1}
    <3>1. PICK p \in Nat : p + 1 = pos + k
      <4>1. PICK y \in Nat, z \in Nat : y = pos /\ z = k - 1 /\ k = z + 1
        <5>1. k - 1 \in Nat /\ k = (k - 1) + 1
          BY BitsOK
        <5>2. QED BY <5>1 DEF ReaderTypes
      <4>2. y + z \in Nat /\ (y + z) + 1 = y + k
        BY <4>1
      <4>3. QED BY <4>1, <4>2
    <3>2. QED BY <1>1, <3>1
  <2>2. QED BY <1>2, <2>1 DEF Bits
<1>4. SubSeq(b, 1, DistBits) = b
  <2>1. b \in [1..DistBits -> {0, 1}] /\ DistBits \in Nat
    BY <1>3, BitsOK DEF Bits
  <2>2. b \in Seq({0, 1}) /\ Len(b) = DistBits
    BY <2>1
  <2>3. QED BY <2>2
<1>5. PICK e \in LeftOver : e = clcTable[b]
  BY <1>3 DEF ReaderTypes
<1>6. e.kind = "code"
  BY EntryFacts
<1>7. Item = e
  <2>1. Item = LookUp(clcTable, DistBits, b)
    BY <1>2 DEF Item
  <2>2. QED BY <1>4, <1>5, <1>6, <2>1 DEF LookUp
<1>8. Sym \in Nat
  <2>1. CASE e.len = 0
    BY <1>7, <2>1, WidthsOK DEF Sym, ManyZeros
  <2>2. CASE e.len # 0
    BY <1>7, <2>2, EntryFacts DEF Sym
  <2>3. QED BY <2>1, <2>2
<1>9. ExtraOf(Sym) \in Nat
  BY FormatOK DEF ExtraOf
<1>10. QED BY <1>1, <1>7, <1>8, <1>9, EntryFacts
\* The values of the bits are a natural number.
LEMMA NaturalTotal ==
  ASSUME NEW m \in Nat, NEW g, \A p \in 0..(m - 1) : g[p] \in Nat,
         NEW s \in SUBSET (0..(m - 1))
  PROVE  Total(g, s, m) \in Nat
<1>1. PICK h : h = Chosen(g, s, m)
  OBVIOUS
<1>2. \A k \in 1..m : h[k] \in Nat
  <2>1. ASSUME NEW k \in 1..m PROVE h[k] \in Nat
    <3>1. k - 1 \in 0..(m - 1)
      OBVIOUS
    <3>2. g[k - 1] \in Nat
      BY <3>1
    <3>3. QED BY <1>1, <3>2 DEF Chosen
  <2>2. QED BY <2>1
<1>3. Sigma(h, 0) <= Sigma(h, m) /\ Sigma(h, m) \in Int
  <2>1. 0 \in 0..m /\ m \in 0..m
    OBVIOUS
  <2>2. QED BY <1>2, <2>1, SigmaGrows
<1>4. Sigma(h, 0) = 0
  BY SigmaNone
<1>5. QED BY <1>1, <1>3, <1>4 DEF Total

ValueSums(D, b, f) ==
  f = [s \in SUBSET D |-> IF s = {} THEN 0
                          ELSE b[OneOf(s)] * PowerOf2[OneOf(s) - 1] + f[s \ {OneOf(s)}]]

\* The value of bits is a natural number.
LEMMA ValueFacts ==
  ASSUME NEW k \in Nat, NEW b, b = [p \in 1..k |-> b[p]], \A p \in 1..k : b[p] \in {0, 1}
  PROVE  ValueOfBits(b) \in Nat
<1>1. PICK D, m : D = 1..k /\ m = k + 1
  OBVIOUS
<1>2. m \in Nat /\ D \in SUBSET (0..(m - 1)) /\ DOMAIN b = D
  BY <1>1
<1>3. PICK g : g = [p \in 0..(m - 1) |-> IF p = 0 THEN 0 ELSE b[p] * PowerOf2[p - 1]]
  OBVIOUS
<1>4. ASSUME NEW p \in D PROVE g[p] = b[p] * PowerOf2[p - 1] /\ g[p] \in Nat
  <2>1. p \in 1..k /\ p # 0 /\ p - 1 \in Nat /\ p \in 0..(m - 1)
    BY <1>1
  <2>2. PICK x \in Nat, y \in Nat : x = b[p] /\ y = PowerOf2[p - 1]
    BY <2>1, PowerFacts
  <2>3. x * y \in Nat
    OBVIOUS
  <2>4. g[p] = x * y
    BY <1>3, <2>1, <2>2
  <2>5. QED BY <2>2, <2>3, <2>4
<1>5. ASSUME NEW p \in 0..(m - 1) PROVE g[p] \in Nat
  <2>1. CASE p = 0
    BY <1>3, <2>1
  <2>2. CASE p # 0
    <3>1. p \in D
      BY <1>1, <2>2
    <3>2. QED BY <1>4, <3>1
  <2>3. QED BY <2>1, <2>2
<1>6. \A h : ValueSums(D, b, h) <=> SumsOver(D, g, h)
  <2>1. ASSUME NEW s \in SUBSET D, s # {}
        PROVE  g[OneOf(s)] = b[OneOf(s)] * PowerOf2[OneOf(s) - 1]
    <3>1. OneOf(s) \in D
      BY <2>1 DEF OneOf
    <3>2. QED BY <1>4, <3>1
  <2>2. QED BY <2>1 DEF ValueSums, SumsOver
<1>7. PICK h : h = CHOOSE x : ValueSums(D, b, x)
  OBVIOUS
<1>8. h = CHOOSE x : SumsOver(D, g, x)
  BY <1>6, <1>7
<1>9. h[D] = Total(g, D, m)
  <2>1. IntegerBelow(g, m)
    BY <1>5 DEF IntegerBelow
  <2>2. QED BY <1>2, <1>8, <2>1, TotalSum
<1>10. ValueOfBits(b) = h[D]
  BY <1>2, <1>7 DEF ValueOfBits, ValueSums, OneOf, MapThenSumSet, MapThenFoldSet
<1>11. QED BY <1>2, <1>5, <1>9, <1>10, NaturalTotal

\* So is that of the extra bits of an item.
LEMMA ExtraOfItem ==
  ASSUME ReaderTypes
  PROVE  Extra \in Nat /\ ItemEnd \in Nat /\ pos + Item.len \in Nat
<1>1. PICK x \in Nat, y \in Nat, z \in Nat : x = pos /\ y = Item.len /\ z = ExtraOf(Sym)
  BY ItemFacts DEF ReaderTypes
<1>2. PICK b : b = [k \in 1..z |-> BitAt(x + y + k)]
  OBVIOUS
<1>3. ASSUME NEW k \in 1..z PROVE b[k] \in {0, 1}
  <2>1. PICK p \in Nat : p + 1 = x + y + k
    <3>1. PICK t \in Nat : t = k - 1 /\ k = t + 1
      OBVIOUS
    <3>2. (x + y + t) \in Nat /\ (x + y + t) + 1 = x + y + k
      BY <3>1
    <3>3. QED BY <3>2
  <2>2. b[k] = BitAt(x + y + k)
    BY <1>2
  <2>3. QED BY <2>1, <2>2, ItemFacts
<1>4. Extra = ValueOfBits(b)
  BY <1>1, <1>2 DEF Extra
<1>5. b = [k \in 1..z |-> b[k]]
  BY <1>2
<1>6. Extra \in Nat
  BY <1>3, <1>4, <1>5, ValueFacts
<1>7. x + y \in Nat /\ (x + y) + z \in Nat
  OBVIOUS
<1>8. ItemEnd = (x + y) + z
  BY <1>1 DEF ItemEnd
<1>9. QED BY <1>1, <1>6, <1>7, <1>8
-----------------------------------------------------------------------------
(***************************************************************************)
(* The table for code length symbols: all codes are found in it directly.  *)
(***************************************************************************)
\* Codes of few bits, of symbols that are numbers.
ShortCodes(codes) ==
  \A s \in DOMAIN codes : s \in Nat /\ Len(codes[s]) \in 0..DistBits

FilledIn(codes, direct, b) ==
  {m \in Shortest(codes)..DistBits : SubSeq(b, 1, m) \in DOMAIN direct}

\* The last of the codes that fill an entry of a short table is one of them.
LEMMA FilledFacts ==
  ASSUME NEW codes, ShortCodes(codes), Used(codes) # {}, NEW direct, NEW b,
         FilledIn(codes, direct, b) # {}
  PROVE  Max(FilledIn(codes, direct, b)) \in FilledIn(codes, direct, b)
<1>1. PICK T : T = {Len(codes[s]) : s \in Used(codes)}
  OBVIOUS
<1>2. T \in SUBSET Nat /\ T # {}
  <2>1. ASSUME NEW s \in Used(codes) PROVE Len(codes[s]) \in Nat
    BY BitsOK DEF Used, ShortCodes
  <2>2. QED BY <1>1, <2>1
<1>3. Shortest(codes) \in Nat
  <2>1. PICK y \in T : \A z \in T : y <= z
    BY <1>2, LeastElement
  <2>2. Min(T) \in T
    BY <2>1 DEF Min
  <2>3. QED BY <1>1, <1>2, <2>2 DEF Shortest
<1>4. FilledIn(codes, direct, b) \in SUBSET (0..DistBits)
  BY <1>3, BitsOK DEF FilledIn
<1>5. QED BY <1>4, BitsOK, GreatestElement

\* A short table is filled with entries of symbols, or keeps what was left there.
LEMMA SmallTableType ==
  ASSUME NEW codes, ShortCodes(codes), NEW old \in [Bits(DistBits) -> LeftOver]
  PROVE  SmallTable(old, codes) \in [Bits(DistBits) -> LeftOver]
<1>1. PICK entry : entry = [s \in DOMAIN codes |-> Direct(<<s>>, Len(codes[s]))]
  OBVIOUS
<1>2. PICK short : short = {s \in Used(codes) : Len(codes[s]) <= DistBits}
  OBVIOUS
<1>3. PICK direct : direct = [b \in {codes[s] : s \in short} |->
                                entry[CHOOSE s \in short : codes[s] = b]]
  OBVIOUS
<1>4. PICK table : table = Doubled(old, DistBits, Shortest(codes), direct)
  OBVIOUS
<1>5. SmallTable(old, codes)
        = IF Used(codes) = {} THEN old ELSE WithLong(table, codes, entry, DistBits, NoCode)
  BY <1>1, <1>2, <1>3, <1>4 DEF SmallTable
<1>6. CASE Used(codes) = {}
  BY <1>5, <1>6
<1>7. CASE Used(codes) # {}
  <2>1. ASSUME NEW s \in DOMAIN codes PROVE entry[s] \in LeftOver
    <3>1. s \in Nat /\ Len(codes[s]) \in Nat
      BY BitsOK DEF ShortCodes
    <3>2. QED BY <1>1, <3>1, EntryFacts
  <2>2. ASSUME NEW x \in DOMAIN direct PROVE direct[x] \in LeftOver
    <3>1. \E s \in short : codes[s] = x
      BY <1>3
    <3>2. PICK s \in short : s = CHOOSE t \in short : codes[t] = x
      BY <3>1
    <3>3. s \in DOMAIN codes
      BY <1>2 DEF Used
    <3>4. direct[x] = entry[s]
      BY <1>3, <3>2
    <3>5. QED BY <2>1, <3>3, <3>4
  <2>3. ASSUME NEW b \in Bits(DistBits) PROVE table[b] \in LeftOver
    <3>1. PICK S : S = FilledIn(codes, direct, b)
      OBVIOUS
    <3>2. PICK a : a = [k \in 1..DistBits |-> IF k < Shortest(codes) THEN b[k] ELSE 0]
      OBVIOUS
    <3>3. table[b] = IF S = {} THEN old[a] ELSE direct[SubSeq(b, 1, Max(S))]
      BY <1>4, <3>1, <3>2 DEF Doubled, FilledIn
    <3>4. CASE S = {}
      <4>1. ASSUME NEW k \in 1..DistBits
            PROVE  (IF k < Shortest(codes) THEN b[k] ELSE 0) \in {0, 1}
        BY DEF Bits
      <4>2. a \in Bits(DistBits)
        BY <3>2, <4>1 DEF Bits
      <4>3. QED BY <3>3, <3>4, <4>2
    <3>5. CASE S # {}
      <4>1. Max(S) \in S
        BY <1>7, <3>1, <3>5, FilledFacts
      <4>2. SubSeq(b, 1, Max(S)) \in DOMAIN direct
        BY <3>1, <4>1 DEF FilledIn
      <4>3. QED BY <2>2, <3>3, <3>5, <4>2
    <3>6. QED BY <3>4, <3>5
  <2>4. ASSUME NEW b PROVE LongOnes(codes, DistBits, b) = {}
    <3>1. ASSUME NEW s \in DOMAIN codes PROVE ~(Len(codes[s]) > DistBits)
      BY BitsOK DEF ShortCodes
    <3>2. QED BY <3>1 DEF LongOnes
  <2>5. WithLong(table, codes, entry, DistBits, NoCode) = [b \in Bits(DistBits) |-> table[b]]
    BY <2>4 DEF WithLong
  <2>6. QED BY <1>5, <1>7, <2>3, <2>5
<1>8. QED BY <1>6, <1>7

\* The table of code length codes has only such entries, whatever the input.
LEMMA ClcTableFacts ==
  ASSUME ReaderTypes
  PROVE  SmallTable(clcTable, ClcCodes) \in [Bits(DistBits) -> LeftOver]
<1>1. PICK g : g = ClcLens
  OBVIOUS
<1>2. DOMAIN g = ClcSyms /\ ClcSyms \in SUBSET Nat
  BY <1>1, WidthsOK DEF ClcLens, ClcSyms, ManyZeros
<1>3. ASSUME NEW s \in ClcSyms PROVE g[s] \in 0..DistBits /\ g[s] \in Nat
  <2>1. PICK c \in Seq(0..ClcLimit) : c = input.clc /\ \A q \in 1..Len(c) : c[q] \in 0..ClcLimit
    <3>1. PICK N : N = 0..ClcLimit
      OBVIOUS
    <3>2. PICK c \in Seq(N) : c = input.clc
      BY <3>1 DEF ReaderTypes, InputOK
    <3>3. \A q \in 1..Len(c) : c[q] \in N
      OBVIOUS
    <3>4. QED BY <3>1, <3>2, <3>3
  <2>2. ClcLimit \in Nat /\ DistBits \in Nat /\ ClcLimit <= DistBits
    BY WidthsOK, FormatOK, BitsOK, ReaderOK
  <2>3. g[s] \in 0..ClcLimit
    <3>1. CASE \E k \in DOMAIN c : ClcOrder[k] = s
      <4>1. PICK k \in DOMAIN c : k = CHOOSE q \in DOMAIN c : ClcOrder[q] = s
        BY <3>1
      <4>2. g[s] = c[k]
        BY <1>1, <2>1, <3>1, <4>1 DEF ClcLens
      <4>3. k \in 1..Len(c)
        OBVIOUS
      <4>4. c[k] \in 0..ClcLimit
        BY <2>1, <4>3
      <4>5. QED BY <4>2, <4>4
    <3>2. CASE ~(\E k \in DOMAIN c : ClcOrder[k] = s)
      <4>1. g[s] = 0
        BY <1>1, <2>1, <3>2 DEF ClcLens
      <4>2. QED BY <2>2, <4>1
    <3>3. QED BY <3>1, <3>2
  <2>4. QED BY <2>2, <2>3
<1>4. PICK e : e = ClcCodes
  OBVIOUS
<1>5. HasLengths(e, g)
  <2>1. e = SetCodes(g, Counts(g))
    BY <1>1, <1>4 DEF ClcCodes
  <2>2. \A s \in DOMAIN g : g[s] \in Nat
    BY <1>2, <1>3
  <2>3. QED BY <2>1, <2>2, NumberedLengths
<1>6. ShortCodes(e)
  <2>1. ASSUME NEW s \in DOMAIN e PROVE s \in Nat /\ Len(e[s]) \in 0..DistBits
    <3>1. s \in ClcSyms /\ Len(e[s]) = g[s]
      BY <1>2, <1>5 DEF HasLengths
    <3>2. QED BY <1>2, <1>3, <3>1
  <2>2. QED BY <2>1 DEF ShortCodes
<1>7. PICK old \in [Bits(DistBits) -> LeftOver] : old = clcTable
  BY DEF ReaderTypes
<1>8. QED BY <1>4, <1>6, <1>7, SmallTableType
-----------------------------------------------------------------------------
(***************************************************************************)
(* The invariant.                                                          *)
(***************************************************************************)
\* What has been counted is what is in the table of lengths.
CountsOK(f, lits1, expand, dists) ==
  /\ Counted(f, lits1, 0, LitLen) /\ Counted(f, dists, LitLen, TableSize)
  /\ Expands(f, expand)

\* The place c comes next, and the places behind it, and those between the two
\* parts of the table, are free.
Ahead(f, b, c) ==
  /\ c <= b \/ c > LitLen
  /\ \A p \in 0..(TableSize - 1) : p >= c \/ (p >= b /\ p < LitLen) => f[p] = 0

Started == step \in {"idle", "numbers", "codes"} =>
             curr = 0 /\ \A p \in 0..(TableSize - 1) : huffs[p] = 0
Accepted == step \in {"codes", "lens"} => input.hlit <= NumLens /\ input.hdist < DistSyms
Progress == step = "lens" => Ahead(huffs, Boundary, curr)
Made == step \in {"lit table", "ok"} => litCodes = WithExtra(SetCodes(LitLens, litCount))

ReaderInv ==
  /\ ReaderTypes /\ CountsOK(huffs, litCount, litExpand, distCount)
  /\ Started /\ Accepted /\ Progress /\ Made

\* Nothing is counted yet and all places are free.
LEMMA ReaderStart ==
  ReaderInit => ReaderInv
<1>1. SUFFICES ASSUME ReaderInit PROVE ReaderInv
  OBVIOUS
<1>2. huffs = [p \in 0..(TableSize - 1) |-> 0]
  <2>1. LitLen + DistSyms - 1 = TableSize - 1
    BY SizeFacts, ExtraFacts
  <2>2. QED BY <1>1, <2>1 DEF ReaderInit
<1>3. ReaderTypes
  <2>1. InputOK
    <3>1. <<>> \in Seq(0..ClcLimit) /\ <<>> \in Seq({0, 1})
      OBVIOUS
    <3>2. QED BY <1>1, <3>1 DEF ReaderInit, InputOK, NoInput
  <2>2. clcTable \in [Bits(DistBits) -> LeftOver]
    <3>1. clcTable = [b \in Bits(DistBits) |-> NoCode]
      BY <1>1 DEF ReaderInit, Sized
    <3>2. QED BY <3>1, EntryFacts
  <2>3. Lengths(huffs)
    BY <1>2, SizeFacts DEF Lengths
  <2>4. QED BY <1>1, <2>1, <2>2, <2>3, EntryFacts DEF ReaderInit, ReaderTypes
<1>4. \A p \in 0..(TableSize - 1) : huffs[p] = 0
  BY <1>2
<1>5. ASSUME NEW a \in Nat, NEW b \in Nat, b <= TableSize
      PROVE  Counted(huffs, NoCounts(MaxDepth), a, b)
  <2>1. ASSUME NEW l \in 1..MaxDepth
        PROVE  NoCounts(MaxDepth)[l] = Cardinality(Within(huffs, l, a, b)) % CountMod
    <3>1. ASSUME NEW p \in a..(b - 1) PROVE huffs[p] # l
      <4>1. p \in 0..(TableSize - 1)
        BY <1>5, SizeFacts
      <4>2. QED BY <1>4, <4>1, SizeFacts
    <3>2. Within(huffs, l, a, b) = {}
      BY <3>1 DEF Within
    <3>3. Cardinality(Within(huffs, l, a, b)) % CountMod = 0
      BY <3>2, FS_EmptySet, SizeFacts
    <3>4. QED BY <3>3, SizeFacts DEF NoCounts
  <2>2. NoCounts(MaxDepth) \in [0..MaxDepth -> Nat]
    BY DEF NoCounts
  <2>3. QED BY <2>1, <2>2 DEF Counted
<1>6. Expands(huffs, NoCounts(MaxTokenLen))
  <2>1. ASSUME NEW l \in 1..MaxTokenLen PROVE NoCounts(MaxTokenLen)[l] = Beyond(huffs, l) % CountMod
    <3>1. PICK g : g = Chosen(Change(huffs, l), 0..(LitLen - 1), LitLen)
      OBVIOUS
    <3>2. ASSUME NEW k \in 1..LitLen PROVE g[k] = 0
      <4>1. k - 1 \in 0..(LitLen - 1) /\ k - 1 \in 0..(TableSize - 1)
        BY SizeFacts
      <4>2. Change(huffs, l)[k - 1] = 0
        BY <1>4, <4>1 DEF Change
      <4>3. QED BY <3>1, <4>2 DEF Chosen
    <3>3. Beyond(huffs, l) = 0
      BY <3>1, <3>2, SigmaZero, SizeFacts DEF Beyond, Total
    <3>4. QED BY <3>3, SizeFacts, TokenLenFacts DEF NoCounts
  <2>2. NoCounts(MaxTokenLen) \in [0..MaxTokenLen -> Nat]
    BY DEF NoCounts
  <2>3. QED BY <2>1, <2>2 DEF Expands
<1>7. CountsOK(huffs, litCount, litExpand, distCount)
  <2>1. litCount = NoCounts(MaxDepth) /\ distCount = NoCounts(MaxDepth)
        /\ litExpand = NoCounts(MaxTokenLen)
    BY <1>1 DEF ReaderInit
  <2>2. LitLen \in Nat /\ TableSize \in Nat /\ 0 \in Nat /\ LitLen <= TableSize /\ TableSize <= TableSize
    BY SizeFacts
  <2>3. QED BY <1>5, <1>6, <2>1, <2>2 DEF CountsOK
<1>8. Started /\ Accepted /\ Progress /\ Made
  BY <1>1, <1>4 DEF ReaderInit, Started, Accepted, Progress, Made
<1>9. QED BY <1>3, <1>7, <1>8 DEF ReaderInv

\* A call changes nothing but its input and the memory of the tables.
LEMMA CallKeeps ==
  ASSUME ReaderInv, ReaderCall
  PROVE  ReaderInv'
<1>1. PICK h \in AnyHeader, e \in LeftOver : Arrives(h, e)
  BY DEF ReaderCall
<1>2. step = "idle" /\ input' = h /\ left' = e /\ step' = "numbers"
      /\ UNCHANGED <<pos, curr, huffs, litCount, litExpand, distCount>>
      /\ clcTable' = [b \in Bits(DistBits) |-> e]
  BY <1>1 DEF Arrives, Sized, countVars
<1>3. InputOK'
  BY <1>2 DEF InputOK, AnyHeader
<1>4. ReaderTypes'
  BY <1>2, <1>3 DEF ReaderInv, ReaderTypes
<1>5. CountsOK(huffs, litCount, litExpand, distCount)'
  BY <1>2 DEF ReaderInv
<1>6. Started' /\ Accepted' /\ Progress' /\ Made'
  BY <1>2 DEF ReaderInv, Started, Accepted, Progress, Made
<1>7. QED BY <1>4, <1>5, <1>6 DEF ReaderInv

\* The calls before and after that of readLitDistLens.
LEMMA SetUpKeeps ==
  ASSUME ReaderInv, SetUp
  PROVE  ReaderInv'
<1>1. /\ UNCHANGED <<input, left, pos, curr, huffs, litCount, litExpand, distCount>>
      /\ step \in {"numbers", "codes", "distances", "dist table", "literals", "lit table"}
  BY DEF SetUp, ReadNumbers, CodeLenCodes, SetDistCodes, GenForDists, SetLitCodes,
         GenForLitLen, lensUnchanged, countVars
<1>2. /\ step' \in {"codes", "lens", "dist table", "literals", "lit table", "ok", "invalid", "short"}
      /\ step' \in {"codes", "lens"} => step \in {"numbers", "codes"}
  BY DEF SetUp, ReadNumbers, CodeLenCodes, SetDistCodes, GenForDists, SetLitCodes,
         GenForLitLen
<1>3. clcTable' \in [Bits(DistBits) -> LeftOver]
  <2>1. clcTable \in [Bits(DistBits) -> LeftOver] /\ ReaderTypes
    BY DEF ReaderInv, ReaderTypes
  <2>2. clcTable' = clcTable \/ clcTable' = SmallTable(clcTable, ClcCodes)
    BY DEF SetUp, ReadNumbers, CodeLenCodes, SetDistCodes, GenForDists, SetLitCodes,
           GenForLitLen, tableVars
  <2>3. QED BY <2>1, <2>2, ClcTableFacts
<1>4. ReaderTypes'
  <2>1. InputOK'
    BY <1>1 DEF ReaderInv, ReaderTypes, InputOK
  <2>2. QED BY <1>1, <1>2, <1>3, <2>1 DEF ReaderInv, ReaderTypes
<1>5. CountsOK(huffs, litCount, litExpand, distCount)'
  BY <1>1 DEF ReaderInv
<1>6. Started'
  <2>1. ASSUME step' \in {"idle", "numbers", "codes"} PROVE step \in {"numbers", "codes"}
    BY <1>2, <2>1
  <2>2. QED BY <1>1, <2>1 DEF ReaderInv, Started
<1>7. Accepted'
  <2>1. ASSUME step' = "codes"
        PROVE  input.hlit <= NumLens /\ input.hdist < DistSyms
    <3>1. ReadNumbers
      BY <2>1 DEF SetUp, CodeLenCodes, SetDistCodes, GenForDists, SetLitCodes, GenForLitLen
    <3>2. ~(input.hlit > NumLens \/ input.hdist >= DistSyms)
      BY <2>1, <3>1 DEF ReadNumbers
    <3>3. PICK y \in Nat, z \in Nat : y = input.hlit /\ z = input.hdist
      BY DEF ReaderInv, ReaderTypes, InputOK
    <3>4. y <= NumLens /\ z < DistSyms
      BY <3>2, <3>3, ExtraFacts
    <3>5. QED BY <3>3, <3>4
  <2>2. ASSUME step' = "lens" PROVE step = "codes"
    BY <2>2 DEF SetUp, ReadNumbers, CodeLenCodes, SetDistCodes, GenForDists, SetLitCodes,
                GenForLitLen
  <2>3. QED BY <1>1, <2>1, <2>2 DEF ReaderInv, Accepted
<1>8. Progress'
  <2>1. ASSUME step' = "lens" PROVE Ahead(huffs, Boundary, curr)'
    <3>1. curr' = 0 /\ \A p \in 0..(TableSize - 1) : huffs'[p] = 0
      BY <1>1, <1>2, <2>1 DEF ReaderInv, Started
    <3>2. curr' <= Boundary'
      <4>1. input'.hlit \in Nat
        BY <1>4 DEF ReaderTypes, InputOK
      <4>2. QED BY <3>1, <4>1, ExtraFacts DEF Boundary
    <3>3. QED BY <3>1, <3>2 DEF Ahead
  <2>2. QED BY <2>1 DEF Progress
<1>9. Made'
  <2>1. ASSUME step' = "lit table" PROVE litCodes' = WithExtra(SetCodes(LitLens, litCount))
    <3>1. SetLitCodes
      BY <2>1 DEF SetUp, ReadNumbers, CodeLenCodes, SetDistCodes, GenForDists, GenForLitLen
    <3>2. QED BY <2>1, <3>1 DEF SetLitCodes
  <2>2. ASSUME step' = "ok" PROVE step = "lit table" /\ litCodes' = litCodes
    BY <2>2 DEF SetUp, ReadNumbers, CodeLenCodes, SetDistCodes, GenForDists, SetLitCodes,
                GenForLitLen, codeVars
  <2>3. LitLens' = LitLens /\ litCount' = litCount
    BY <1>1 DEF LitLens
  <2>4. ASSUME step' \in {"lit table", "ok"}
        PROVE  litCodes' = WithExtra(SetCodes(LitLens, litCount))
    BY <2>1, <2>2, <2>4 DEF ReaderInv, Made
  <2>5. QED BY <2>3, <2>4 DEF Made
<1>10. QED BY <1>4, <1>5, <1>6, <1>7, <1>8, <1>9 DEF ReaderInv
-----------------------------------------------------------------------------
(***************************************************************************)
(* One turn of the loop of readLitDistLens.                                *)
(***************************************************************************)
\* The boundary and the end are places of the table.
LEMMA BoundFacts ==
  ASSUME ReaderInv, step = "lens"
  PROVE  /\ Boundary \in Nat /\ Boundary <= LitLen /\ Gap \in Nat /\ Gap = LitLen - Boundary
         /\ End \in Nat /\ End <= TableSize /\ LitLen < End
         /\ curr \in Nat /\ (curr <= Boundary \/ curr > LitLen)
<1>1. PICK y \in Nat, z \in Nat : y = input.hlit /\ z = input.hdist
  BY DEF ReaderInv, ReaderTypes, InputOK
<1>2. y <= NumLens /\ z < DistSyms
  BY <1>1 DEF ReaderInv, Accepted
<1>3. Boundary = LitSyms + y /\ End = LitLen + z + 1
  BY <1>1 DEF Boundary, End
<1>4. Boundary \in Nat /\ Boundary <= LitLen /\ End \in Nat /\ End <= TableSize /\ LitLen < End
  BY <1>2, <1>3, SizeFacts, ExtraFacts
<1>5. Gap \in Nat /\ Gap = LitLen - Boundary
  BY <1>4, SizeFacts DEF Gap
<1>6. curr \in Nat /\ (curr <= Boundary \/ curr > LitLen)
  BY DEF ReaderInv, ReaderTypes, Progress, Ahead
<1>7. QED BY <1>4, <1>5, <1>6

\* Whatever comes next is put behind what is there, and on its side of the boundary.
LEMMA NextPlaceFacts ==
  ASSUME ReaderInv, step = "lens", NEW p \in Nat, curr <= p
  PROVE  /\ Place(p) \in Nat /\ p <= Place(p)
         /\ Place(p) < Boundary \/ Place(p) >= LitLen
<1>1. PICK b \in Nat, c \in Nat, x \in Nat :
        b = Boundary /\ c = curr /\ x = Gap /\ b + x = LitLen /\ (c <= b \/ c > LitLen)
  <2>1. PICK b \in Nat, c \in Nat, x \in Nat :
          b = Boundary /\ c = curr /\ x = Gap /\ x = LitLen - b /\ (c <= b \/ c > LitLen)
    BY BoundFacts
  <2>2. QED BY <2>1, SizeFacts
<1>2. Place(p) = IF c <= b /\ p >= b THEN p + x ELSE p
  BY <1>1 DEF Place
<1>3. LitLen \in Nat /\ c <= p
  BY <1>1, SizeFacts
<1>4. CASE c <= b /\ p >= b
  BY <1>1, <1>2, <1>3, <1>4
<1>5. CASE c <= b /\ ~(p >= b)
  BY <1>1, <1>2, <1>3, <1>5
<1>6. CASE ~(c <= b)
  BY <1>1, <1>2, <1>3, <1>6
<1>7. QED BY <1>4, <1>5, <1>6

\* The places that one item fills, the last of which is top.
NextPlaces(places, top) ==
  /\ top \in places
  /\ \A p \in places : /\ p \in Nat /\ curr <= p /\ p <= top /\ p < End
                       /\ p < Boundary \/ p >= LitLen

\* Put keeps the counts of all places, and frees none that was free behind.
LEMMA PutFacts ==
  ASSUME ReaderInv, step = "lens", NEW places, NEW top, NextPlaces(places, top),
         NEW len \in 0..MaxDepth, Put(places, len)
  PROVE  /\ Lengths(huffs') /\ CountsOK(huffs', litCount', litExpand', distCount')
         /\ Ahead(huffs', Boundary, top + 1) /\ top + 1 \in Nat
<1>1. PICK b \in Nat, c \in Nat, e \in Nat :
        b = Boundary /\ c = curr /\ e = End /\ b <= LitLen /\ e <= TableSize
  BY BoundFacts
<1>2. ASSUME NEW p \in places
      PROVE  p \in Nat /\ p \in 0..(TableSize - 1) /\ c <= p /\ p <= top
             /\ (p < b \/ p >= LitLen) /\ huffs[p] = 0
  <2>1. p \in Nat /\ c <= p /\ p <= top /\ p < e /\ (p < b \/ p >= LitLen)
    BY <1>1 DEF NextPlaces
  <2>2. p \in 0..(TableSize - 1) /\ p >= c
    BY <1>1, <2>1, SizeFacts
  <2>3. \A q \in 0..(TableSize - 1) : q >= c => huffs[q] = 0
    BY <1>1 DEF ReaderInv, Progress, Ahead
  <2>4. QED BY <2>1, <2>2, <2>3
<1>3. Free(huffs, places)
  BY <1>1, <1>2 DEF Free
<1>4. PICK g : g = Written(huffs, places, len)
  OBVIOUS
<1>5. huffs \in [0..(TableSize - 1) -> 0..MaxDepth] /\ Lengths(huffs)
      /\ CountsOK(huffs, litCount, litExpand, distCount)
  BY DEF ReaderInv, ReaderTypes, Lengths
<1>6. huffs' = g
  BY <1>4 DEF Put, Written
<1>7. Lengths(g)
  BY <1>4, <1>5 DEF Lengths, Written
<1>8. PICK s, t : s = {p \in places : p < Boundary} /\ t = places \ s
  OBVIOUS
<1>9. s = places \cap (0..(LitLen - 1))
  <2>1. ASSUME NEW p \in places PROVE p < b <=> p \in 0..(LitLen - 1)
    BY <1>1, <1>2, SizeFacts
  <2>2. QED BY <1>1, <1>8, <2>1
<1>10. t = places \cap (LitLen..(TableSize - 1))
  <2>1. ASSUME NEW p \in places PROVE ~(p < b) <=> p \in LitLen..(TableSize - 1)
    BY <1>1, <1>2, SizeFacts
  <2>2. QED BY <1>1, <1>8, <2>1
<1>11. /\ litCount' = [litCount EXCEPT ![len] = (@ + Cardinality(s)) % CountMod]
       /\ distCount' = [distCount EXCEPT ![len] = (@ + Cardinality(t)) % CountMod]
       /\ litExpand' = Expanded(places, len)
  BY <1>8 DEF Put
<1>12. Counted(g, litCount', 0, LitLen)
  <2>1. 0 \in Nat /\ LitLen \in Nat /\ LitLen <= TableSize
    BY SizeFacts
  <2>2. QED BY <1>3, <1>4, <1>5, <1>9, <1>11, <2>1, CountPut DEF CountsOK
<1>13. Counted(g, distCount', LitLen, TableSize)
  <2>1. LitLen \in Nat /\ TableSize \in Nat /\ TableSize <= TableSize
    BY SizeFacts
  <2>2. QED BY <1>3, <1>4, <1>5, <1>10, <1>11, <2>1, CountPut DEF CountsOK
<1>14. Expands(g, litExpand')
  BY <1>1, <1>3, <1>4, <1>5, <1>11, ExpandPut DEF CountsOK
<1>15. top \in Nat /\ (top < b \/ top >= LitLen) /\ c <= top
  BY <1>2 DEF NextPlaces
<1>16. Ahead(g, Boundary, top + 1)
  <2>1. top + 1 <= b \/ top + 1 > LitLen
    BY <1>1, <1>15, SizeFacts
  <2>2. ASSUME NEW p \in 0..(TableSize - 1), p >= top + 1 \/ (p >= b /\ p < LitLen)
        PROVE  g[p] = 0
    <3>1. p \in Nat
      BY SizeFacts
    <3>2. p \notin places
      <4>1. SUFFICES ASSUME p \in places PROVE FALSE
        OBVIOUS
      <4>2. p <= top /\ (p < b \/ p >= LitLen)
        BY <1>2, <4>1
      <4>3. QED BY <1>1, <1>15, <2>2, <3>1, <4>2, SizeFacts
    <3>3. p >= c \/ (p >= b /\ p < LitLen)
      BY <1>1, <1>15, <2>2, <3>1
    <3>4. huffs[p] = 0
      BY <1>1, <3>3 DEF ReaderInv, Progress, Ahead
    <3>5. QED BY <1>4, <1>5, <3>2, <3>4 DEF Written
  <2>3. QED BY <1>1, <2>1, <2>2 DEF Ahead
<1>17. QED BY <1>6, <1>7, <1>12, <1>13, <1>14, <1>15, <1>16 DEF CountsOK
\* A turn that writes nothing and ends the loop.
LEMMA EndKeeps ==
  ASSUME ReaderInv, step = "lens", step' \in {"invalid", "short", "panic", "distances"},
         pos' \in Nat, UNCHANGED <<input, left, curr, huffs, countVars, clcTable>>
  PROVE  ReaderInv'
<1>1. UNCHANGED <<input, left, curr, huffs, litCount, litExpand, distCount, clcTable>>
  BY DEF countVars
<1>2. InputOK'
  BY <1>1 DEF ReaderInv, ReaderTypes, InputOK
<1>3. ReaderTypes'
  BY <1>1, <1>2 DEF ReaderInv, ReaderTypes
<1>4. CountsOK(huffs, litCount, litExpand, distCount)'
  BY <1>1 DEF ReaderInv
<1>5. Started' /\ Accepted' /\ Progress' /\ Made'
  BY DEF Started, Accepted, Progress, Made
<1>6. QED BY <1>3, <1>4, <1>5 DEF ReaderInv

\* A turn that goes on behind place c, with the counts that belong to it.
LEMMA TurnKeeps ==
  ASSUME ReaderInv, step = "lens", UNCHANGED <<step, input, left, codeVars, tableVars>>,
         pos' \in Nat, curr' \in Nat, Ahead(huffs', Boundary, curr'), Lengths(huffs'),
         CountsOK(huffs', litCount', litExpand', distCount')
  PROVE  ReaderInv'
<1>1. UNCHANGED <<step, input, left, litCodes, clcTable>>
  BY DEF codeVars, tableVars
<1>2. InputOK' /\ Boundary' = Boundary
  BY <1>1 DEF ReaderInv, ReaderTypes, InputOK, Boundary
<1>3. ReaderTypes'
  BY <1>1, <1>2 DEF ReaderInv, ReaderTypes
<1>4. Started' /\ Made'
  BY <1>1 DEF Started, Made
<1>5. Accepted' /\ Progress'
  BY <1>1, <1>2 DEF ReaderInv, Accepted, Progress
<1>6. QED BY <1>3, <1>4, <1>5 DEF ReaderInv

\* One length goes to the next place.
LEMMA ReadLengthKeeps ==
  ASSUME ReaderInv, ReadLength
  PROVE  ReaderInv'
<1>1. /\ step = "lens" /\ curr < End /\ Sym <= MaxDepth
      /\ Put({Place(curr)}, Sym) /\ pos' = ItemEnd /\ curr' = Place(curr) + 1
      /\ UNCHANGED <<step, input, left, codeVars, tableVars>>
  BY DEF ReadLength, Reading
<1>2. ReaderTypes
  BY DEF ReaderInv
<1>3. PICK p : p = Place(curr)
  OBVIOUS
<1>4. p \in Nat /\ curr <= p /\ (p < Boundary \/ p >= LitLen) /\ curr \in Nat
  BY <1>1, <1>3, BoundFacts, NextPlaceFacts
<1>5. p < End
  <2>1. PICK b \in Nat, c \in Nat, e \in Nat, x \in Nat :
          /\ b = Boundary /\ c = curr /\ e = End /\ x = Gap /\ x = LitLen - b
          /\ LitLen < e /\ c < e /\ b <= LitLen
    BY <1>1, BoundFacts
  <2>2. p = IF c <= b /\ c >= b THEN c + x ELSE c
    BY <1>3, <2>1 DEF Place
  <2>3. QED BY <2>1, <2>2, SizeFacts
<1>6. NextPlaces({p}, p)
  BY <1>4, <1>5 DEF NextPlaces
<1>7. Sym \in 0..MaxDepth
  BY <1>1, <1>2, ItemFacts, SizeFacts
<1>8. /\ Lengths(huffs') /\ CountsOK(huffs', litCount', litExpand', distCount')
      /\ Ahead(huffs', Boundary, p + 1) /\ p + 1 \in Nat
  BY <1>1, <1>3, <1>6, <1>7, PutFacts
<1>9. pos' \in Nat
  BY <1>1, <1>2, ExtraOfItem
<1>10. QED BY <1>1, <1>3, <1>8, <1>9, TurnKeeps

\* A repeated one goes to a row of places, which may go on behind the gap.
LEMMA ReadRepeatKeeps ==
  ASSUME ReaderInv, ReadRepeat
  PROVE  ReaderInv'
<1>1. PICK n1 : n1 = RepeatMin + Extra
  OBVIOUS
<1>2. PICK s : s = Places(n1)
  OBVIOUS
<1>3. /\ step = "lens" /\ curr < End /\ ~RepeatsTooMuch(n1) /\ pos' = ItemEnd
      /\ UNCHANGED <<input, left, codeVars, tableVars>>
      /\ IF \E p \in s : p >= End
         THEN step' = "panic" /\ UNCHANGED <<curr, huffs, countVars>>
         ELSE Put(s, huffs[curr - 1]) /\ curr' = Max(s) + 1 /\ UNCHANGED step
  BY <1>1, <1>2 DEF ReadRepeat, Reading
<1>4. ReaderTypes
  BY DEF ReaderInv
<1>5. pos' \in Nat
  BY <1>3, <1>4, ExtraOfItem
<1>6. CASE \E p \in s : p >= End
  <2>1. step' = "panic" /\ UNCHANGED <<input, left, curr, huffs, countVars, clcTable>>
    BY <1>3, <1>6 DEF tableVars
  <2>2. QED BY <1>3, <1>5, <2>1, EndKeeps
<1>7. CASE ~(\E p \in s : p >= End)
  <2>1. Put(s, huffs[curr - 1]) /\ curr' = Max(s) + 1
        /\ UNCHANGED <<step, input, left, codeVars, tableVars>>
    BY <1>3, <1>7
  <2>2. PICK c \in Nat, e \in Nat : c = curr /\ e = End /\ e <= TableSize
    BY <1>3, BoundFacts
  <2>3. c # 0 /\ c < e
    BY <1>3, <2>2 DEF RepeatsTooMuch
  <2>4. huffs[curr - 1] \in 0..MaxDepth
    <3>1. c - 1 \in 0..(TableSize - 1)
      BY <2>2, <2>3, SizeFacts
    <3>2. QED BY <1>4, <2>2, <3>1 DEF ReaderTypes, Lengths
  <2>5. n1 \in Nat /\ 0 \in 0..(n1 - 1)
    BY <1>1, <1>4, ExtraOfItem DEF RepeatMin
  <2>6. ASSUME NEW p \in s
        PROVE  p \in Nat /\ c <= p /\ p < e /\ (p < Boundary \/ p >= LitLen) /\ p \in 0..e
    <3>1. PICK k \in 0..(n1 - 1) : p = Place(curr + k)
      BY <1>2 DEF Places
    <3>2. PICK q \in Nat : q = curr + k /\ curr <= q /\ c <= q
      BY <2>2, <2>5
    <3>3. p \in Nat /\ q <= p /\ (p < Boundary \/ p >= LitLen)
      BY <1>3, <3>1, <3>2, NextPlaceFacts
    <3>4. ~(p >= e)
      BY <1>7, <2>2
    <3>5. QED BY <2>2, <3>2, <3>3, <3>4
  <2>7. s \in SUBSET (0..e) /\ s # {}
    BY <1>2, <2>5, <2>6 DEF Places
  <2>8. PICK x : x = Max(s)
    OBVIOUS
  <2>9. x \in s /\ \A p \in s : p <= x
    BY <2>2, <2>7, <2>8, GreatestElement
  <2>10. NextPlaces(s, x)
    BY <2>2, <2>6, <2>9 DEF NextPlaces
  <2>11. /\ Lengths(huffs') /\ CountsOK(huffs', litCount', litExpand', distCount')
         /\ Ahead(huffs', Boundary, x + 1) /\ x + 1 \in Nat
    BY <1>3, <2>1, <2>4, <2>10, PutFacts
  <2>12. QED BY <1>3, <1>5, <2>1, <2>8, <2>11, TurnKeeps
<1>8. QED BY <1>6, <1>7

\* Zeros leave their places free, which is what they are without being stored.
LEMMA ReadZerosKeeps ==
  ASSUME ReaderInv, ReadZeros
  PROVE  ReaderInv'
<1>1. PICK x : x = (IF Sym = FewZeros THEN FewMin ELSE ManyMin) + Extra
  OBVIOUS
<1>2. /\ step = "lens" /\ pos' = ItemEnd /\ curr' = AfterZeros(x)
      /\ UNCHANGED <<step, input, left, codeVars, tableVars>> /\ UNCHANGED <<huffs, countVars>>
  BY <1>1 DEF ReadZeros, Reading
<1>3. ReaderTypes
  BY DEF ReaderInv
<1>4. x \in Nat \ {0}
  <2>1. FewMin \in Nat \ {0}
    BY DEF FewMin
  <2>2. ManyMin \in Nat \ {0}
    <3>1. PowerOf2[FewBits] \in Nat
      BY FormatOK, PowerFacts
    <3>2. QED BY <3>1 DEF ManyMin, FewMax, FewMin
  <2>3. PICK y \in Nat \ {0} : y = IF Sym = FewZeros THEN FewMin ELSE ManyMin
    BY <2>1, <2>2
  <2>4. PICK z \in Nat : z = Extra
    BY <1>3, ExtraOfItem
  <2>5. QED BY <1>1, <2>3, <2>4
<1>5. PICK c \in Nat, b \in Nat : c = curr /\ b = Boundary
  BY <1>2, BoundFacts
<1>6. PICK q \in Nat : q = curr + x - 1 /\ curr <= q /\ c <= q
  <2>1. PICK t \in Nat : t = x - 1
    BY <1>4
  <2>2. c + t \in Nat /\ c <= c + t /\ c + t = c + x - 1
    BY <1>4, <2>1
  <2>3. QED BY <1>5, <2>2
<1>7. PICK p \in Nat : p = Place(q) /\ q <= p /\ (p < b \/ p >= LitLen)
  BY <1>2, <1>5, <1>6, NextPlaceFacts
<1>8. curr' = p + 1
  BY <1>2, <1>6, <1>7 DEF AfterZeros
<1>9. Ahead(huffs, Boundary, p + 1)
  <2>1. p + 1 <= b \/ p + 1 > LitLen
    BY <1>7, SizeFacts
  <2>2. ASSUME NEW z \in 0..(TableSize - 1), z >= p + 1 \/ (z >= b /\ z < LitLen)
        PROVE  huffs[z] = 0
    <3>1. z >= c \/ (z >= b /\ z < LitLen)
      BY <1>6, <1>7, <2>2, SizeFacts
    <3>2. QED BY <1>2, <1>5, <3>1 DEF ReaderInv, Progress, Ahead
  <2>3. QED BY <1>5, <2>1, <2>2 DEF Ahead
<1>10. huffs' = huffs /\ litCount' = litCount /\ litExpand' = litExpand /\ distCount' = distCount
  BY <1>2 DEF countVars
<1>11. Lengths(huffs') /\ CountsOK(huffs', litCount', litExpand', distCount')
  BY <1>10 DEF ReaderInv, ReaderTypes
<1>12. pos' \in Nat /\ curr' \in Nat
  BY <1>2, <1>3, <1>8, ExtraOfItem
<1>13. QED BY <1>2, <1>8, <1>9, <1>10, <1>11, <1>12, TurnKeeps

\* Every turn of the loop of readLitDistLens.
LEMMA TurnsKeep ==
  ASSUME ReaderInv, ReadLitDistLens
  PROVE  ReaderInv'
<1>1. ReaderTypes
  BY DEF ReaderInv
<1>2. CASE Missing
  <2>1. step = "lens" /\ step' \in {"invalid", "short"} /\ pos' = pos + Item.len
        /\ UNCHANGED <<input, left, curr, huffs, countVars, clcTable>>
    BY <1>2 DEF Missing, Reading, tableVars
  <2>2. QED BY <1>1, <2>1, ExtraOfItem, EndKeeps
<1>3. CASE RefuseRepeat
  <2>1. step = "lens" /\ step' = "invalid" /\ pos' = ItemEnd
        /\ UNCHANGED <<input, left, curr, huffs, countVars, clcTable>>
    BY <1>3 DEF RefuseRepeat, Reading, tableVars
  <2>2. QED BY <1>1, <2>1, ExtraOfItem, EndKeeps
<1>4. CASE ReadNothing
  <2>1. step = "lens" /\ step' = "invalid" /\ pos' = pos + Item.len
        /\ UNCHANGED <<input, left, curr, huffs, countVars, clcTable>>
    BY <1>4 DEF ReadNothing, Reading, tableVars
  <2>2. QED BY <1>1, <2>1, ExtraOfItem, EndKeeps
<1>5. CASE Finish
  <2>1. step = "lens" /\ UNCHANGED <<input, left, pos, curr, huffs, countVars, clcTable>>
    BY <1>5 DEF Finish, lensUnchanged, tableVars
  <2>2. step' \in {"invalid", "short", "distances"}
    <3>1. step' = CASE curr > End \/ huffs[EndOfBlock] = 0 -> "invalid"
                    [] pos > Len(input.bits) -> "short"
                    [] OTHER -> "distances"
      BY <1>5 DEF Finish
    <3>2. QED BY <3>1
  <2>3. pos' \in Nat
    BY <1>1, <2>1 DEF ReaderTypes
  <2>4. QED BY <2>1, <2>2, <2>3, EndKeeps
<1>6. QED BY <1>2, <1>3, <1>4, <1>5, ReadLengthKeeps, ReadRepeatKeeps, ReadZerosKeeps
          DEF ReadLitDistLens

\* The invariant holds: whatever the header says, the numbers of codes that the
\* reader keeps are those of the lengths that it has written so far.
THEOREM CountsAreKept ==
  ReaderSpec => []ReaderInv
<1>1. ReaderInv /\ [ReaderCall \/ SetUp \/ ReadLitDistLens]_readerVars => ReaderInv'
  <2>1. SUFFICES ASSUME ReaderInv, [ReaderCall \/ SetUp \/ ReadLitDistLens]_readerVars
                 PROVE  ReaderInv'
    OBVIOUS
  <2>2. CASE UNCHANGED readerVars
    <3>1. UNCHANGED <<step, input, left, pos, curr, huffs, litCount, litExpand, distCount,
                      litCodes, clcTable>>
      BY <2>2 DEF readerVars, countVars, codeVars, tableVars
    <3>2. InputOK' /\ LitLens' = LitLens /\ Boundary' = Boundary
      BY <2>1, <3>1 DEF ReaderInv, ReaderTypes, InputOK, LitLens, Boundary
    <3>3. ReaderTypes'
      BY <2>1, <3>1, <3>2 DEF ReaderInv, ReaderTypes
    <3>4. CountsOK(huffs, litCount, litExpand, distCount)'
      BY <2>1, <3>1 DEF ReaderInv
    <3>5. Started' /\ Accepted' /\ Progress' /\ Made'
      BY <2>1, <3>1, <3>2 DEF ReaderInv, Started, Accepted, Progress, Made
    <3>6. QED BY <3>3, <3>4, <3>5 DEF ReaderInv
  <2>3. QED BY <2>1, <2>2, CallKeeps, SetUpKeeps, TurnsKeep
<1>2. QED BY <1>1, ReaderStart, PTL DEF ReaderSpec
-----------------------------------------------------------------------------
(***************************************************************************)
(* The counts and the codes.                                               *)
(***************************************************************************)
Modular(a, b, d) ==
  /\ ((a % d) + (b % d)) % d = (a + b) % d
  /\ (((a + b) % d) - (a % d)) % d = b % d
  /\ (b % d) % d = b % d

\* A difference modulo d does not depend on which of the numbers are reduced.
LEMMA ModuloFacts ==
  ASSUME NEW d \in Nat \ {0}, NEW a \in Int, NEW b \in Int
  PROVE  Modular(a, b, d)
<1>1. PICK r \in Int, s \in Int : r = a % d /\ s = b % d
  <2>1. a % d \in Int /\ b % d \in Int
    OBVIOUS
  <2>2. QED BY <2>1
<1>2. ((a % d) + s) % d = (a + s) % d
  BY SumModulo
<1>3. ((b % d) + a) % d = (b + a) % d
  BY SumModulo
<1>4. a + s = s + a /\ a + b = b + a
  BY <1>1
<1>5. ((a % d) + (b % d)) % d = (a + b) % d
  BY <1>1, <1>2, <1>3, <1>4
<1>6. PICK z \in Int, x \in Int : z = 0 - r /\ x = a + b
  OBVIOUS
<1>7. ((x % d) + z) % d = (x + z) % d
  BY SumModulo
<1>8. ((a % d) + z) % d = (a + z) % d
  BY SumModulo
<1>9. (a + z) % d = 0
  <2>1. r + z = 0 /\ (a % d) + z = 0
    BY <1>1, <1>6
  <2>2. 0 % d = 0
    OBVIOUS
  <2>3. QED BY <1>8, <2>1, <2>2
<1>10. PICK y \in Int : y = a + z
  OBVIOUS
<1>11. ((y % d) + b) % d = (y + b) % d
  BY SumModulo
<1>12. (x + z) % d = b % d
  <2>1. x + z = y + b /\ (y % d) + b = b
    BY <1>6, <1>9, <1>10
  <2>2. QED BY <1>11, <2>1
<1>13. (x % d) - r = (x % d) + z
  <2>1. x % d \in Int
    OBVIOUS
  <2>2. QED BY <1>6, <2>1
<1>14. (((a + b) % d) - (a % d)) % d = b % d
  BY <1>1, <1>6, <1>7, <1>12, <1>13
<1>15. (b % d) % d = b % d
  <2>1. PICK o \in Int : o = 0
    OBVIOUS
  <2>2. ((b % d) + o) % d = (b + o) % d
    BY SumModulo
  <2>3. s + o = s /\ b + o = b
    BY <1>1, <2>1
  <2>4. QED BY <1>1, <2>2, <2>3
<1>16. QED BY <1>5, <1>14, <1>15 DEF Modular

\* Codes of l bits that are counted.
CountedOf(l) == litExpand[l] + (IF l <= MaxDepth THEN litCount[l] ELSE 0)

\* Two neighbouring places of Starts are as far apart as what was counted.
LEMMA StartsFacts ==
  ASSUME CountsOK(huffs, litCount, litExpand, distCount), NEW l \in 1..MaxTokenLen
  PROVE  (Starts[l + 1] - Starts[l]) % CountMod = CountedOf(l) % CountMod
<1>1. PICK m \in Nat : m = MaxTokenLen + 1
  BY TokenLenFacts
<1>2. ASSUME NEW k \in 1..MaxTokenLen PROVE CountedOf(k) \in Nat
  <2>1. litExpand \in [0..MaxTokenLen -> Nat] /\ litCount \in [0..MaxDepth -> Nat]
    BY DEF CountsOK, Counted, Expands
  <2>2. k \in 0..MaxTokenLen /\ (k <= MaxDepth => k \in 0..MaxDepth)
    BY TokenLenFacts, SizeFacts
  <2>3. litExpand[k] \in Nat /\ (k <= MaxDepth => litCount[k] \in Nat)
    BY <2>1, <2>2
  <2>4. QED BY <2>3 DEF CountedOf
<1> DEFINE IsStart(f) ==
  f = [k \in 0..(MaxTokenLen + 1) |->
         IF k <= 1 THEN 0
         ELSE f[k - 1] + litExpand[k - 1]
                + (IF k - 1 <= MaxDepth THEN litCount[k - 1] ELSE 0)]
<1>3. PICK g : g = [k \in 1..m |-> [z \in Nat |-> IF k <= 1 THEN 0 ELSE z + CountedOf(k - 1)]]
  OBVIOUS
<1>4. g \in [1..m -> [Nat -> Nat]]
  <2>1. ASSUME NEW k \in 1..m, NEW z \in Nat
        PROVE  (IF k <= 1 THEN 0 ELSE z + CountedOf(k - 1)) \in Nat
    <3>1. k > 1 => k - 1 \in 1..MaxTokenLen
      BY <1>1, TokenLenFacts
    <3>2. QED BY <1>2, <3>1
  <2>2. QED BY <1>3, <2>1
<1>5. Recurses(m, Nat, 0, g)
  <2>1. 0 \in Nat
    OBVIOUS
  <2>2. QED BY <1>4, <2>1, Recursion, Zenon
<1>6. PICK h \in [0..m -> Nat] : h[0] = 0 /\ \A k \in 1..m : h[k] = g[k][h[k - 1]]
  BY <1>5 DEF Recurses
<1>7. ASSUME NEW k \in 0..m
      PROVE  h[k] = IF k <= 1 THEN 0
                    ELSE h[k - 1] + litExpand[k - 1]
                           + (IF k - 1 <= MaxDepth THEN litCount[k - 1] ELSE 0)
  <2>1. CASE k = 0
    BY <1>6, <2>1
  <2>2. CASE k # 0
    <3>1. k \in 1..m /\ k - 1 \in 0..m
      BY <2>2
    <3>2. h[k - 1] \in Nat /\ h[k] = g[k][h[k - 1]]
      BY <1>6, <3>1
    <3>3. h[k] = IF k <= 1 THEN 0 ELSE h[k - 1] + CountedOf(k - 1)
      BY <1>3, <3>1, <3>2
    <3>4. CASE k <= 1
      BY <3>3, <3>4
    <3>5. CASE ~(k <= 1)
      <4>1. k - 1 \in 1..MaxTokenLen
        BY <1>1, <3>1, <3>5, TokenLenFacts
      <4>2. PICK x \in Nat, y \in Nat :
              x = litExpand[k - 1] /\ y = IF k - 1 <= MaxDepth THEN litCount[k - 1] ELSE 0
        <5>1. litExpand \in [0..MaxTokenLen -> Nat] /\ litCount \in [0..MaxDepth -> Nat]
          BY DEF CountsOK, Counted, Expands
        <5>2. k - 1 \in 0..MaxTokenLen /\ (k - 1 <= MaxDepth => k - 1 \in 0..MaxDepth)
          BY <4>1, TokenLenFacts, SizeFacts
        <5>3. QED BY <5>1, <5>2
      <4>3. CountedOf(k - 1) = x + y
        BY <4>2 DEF CountedOf
      <4>4. PICK z \in Nat : z = h[k - 1]
        BY <3>2
      <4>5. h[k] = z + (x + y) /\ z + (x + y) = z + x + y
        BY <3>3, <3>5, <4>3, <4>4
      <4>6. QED BY <3>5, <4>2, <4>4, <4>5
    <3>6. QED BY <3>4, <3>5
  <2>3. QED BY <2>1, <2>2
<1>8. IsStart(h)
  <2>1. h = [k \in 0..m |-> h[k]]
    BY <1>6
  <2>2. QED BY <1>1, <1>7, <2>1
<1>9. PICK f : f = CHOOSE x : IsStart(x)
  OBVIOUS
<1>10. IsStart(f)
  <2> HIDE DEF IsStart
  <2>1. QED BY <1>8, <1>9
<1>11. Starts = [k \in DOMAIN f |-> f[k] % CountMod]
  BY <1>9 DEF Starts
<1>12. DOMAIN f = 0..m
  BY <1>1, <1>10
<1>13. ASSUME NEW k \in 0..m
       PROVE  f[k] = IF k <= 1 THEN 0
                     ELSE f[k - 1] + litExpand[k - 1]
                            + (IF k - 1 <= MaxDepth THEN litCount[k - 1] ELSE 0)
  BY <1>1, <1>10
<1>14. \A k \in Nat : k <= m => f[k] = h[k]
  <2> DEFINE T == {k \in Nat : k <= m => f[k] = h[k]}
  <2>1. 0 \in T
    BY <1>7, <1>13
  <2>2. ASSUME NEW k \in T PROVE k + 1 \in T
    <3>1. SUFFICES ASSUME k + 1 <= m PROVE f[k + 1] = h[k + 1]
      OBVIOUS
    <3>2. PICK q \in 0..m : q = k + 1 /\ q - 1 = k
      BY <3>1
    <3>3. f[k] = h[k]
      BY <3>1
    <3>4. QED BY <1>7, <1>13, <3>2, <3>3
  <2>3. T = Nat
    <3> HIDE DEF T
    <3>1. T \in SUBSET Nat
      BY DEF T
    <3>2. QED BY <2>1, <2>2, <3>1, InductiveSet
  <2>4. QED BY <2>3
<1>15. PICK q \in 0..m, k \in 0..m : q = l + 1 /\ k = l /\ q - 1 = l /\ ~(q <= 1)
  BY <1>1, TokenLenFacts
<1>16. f[k] \in Nat
  BY <1>6, <1>14
<1>17. PICK a \in Nat, b \in Nat : a = f[k] /\ b = CountedOf(l)
  BY <1>2, <1>16
<1>18. f[q] = a + b
  <2>1. PICK x \in Nat, y \in Nat :
          x = litExpand[l] /\ y = IF l <= MaxDepth THEN litCount[l] ELSE 0
    <3>1. litExpand \in [0..MaxTokenLen -> Nat] /\ litCount \in [0..MaxDepth -> Nat]
      BY DEF CountsOK, Counted, Expands
    <3>2. l \in 0..MaxTokenLen /\ (l <= MaxDepth => l \in 0..MaxDepth)
      BY TokenLenFacts, SizeFacts
    <3>3. QED BY <3>1, <3>2
  <2>2. f[q] = a + x + y
    BY <1>13, <1>15, <1>17, <2>1
  <2>3. b = x + y
    BY <1>17, <2>1 DEF CountedOf
  <2>4. QED BY <2>2, <2>3
<1>19. Starts[l + 1] = (a + b) % CountMod /\ Starts[l] = a % CountMod
  BY <1>11, <1>12, <1>15, <1>17, <1>18
<1>20. PICK d \in Nat \ {0} : d = CountMod
  BY SizeFacts
<1>21. (((a + b) % d) - (a % d)) % d = b % d
  <2>1. a \in Int /\ b \in Int
    OBVIOUS
  <2>2. Modular(a, b, d)
    BY <2>1, ModuloFacts, Zenon
  <2>3. QED BY ONLY <2>2 DEF Modular
<1>22. QED BY <1>17, <1>19, <1>20, <1>21
\* A part of a table has a finite number of places of a length.
LEMMA WithinFacts ==
  ASSUME NEW f, NEW l, NEW a \in Nat, NEW b \in Nat
  PROVE  IsFiniteSet(Within(f, l, a, b)) /\ Cardinality(Within(f, l, a, b)) \in Nat
<1>1. IsFiniteSet(a..(b - 1)) /\ Within(f, l, a, b) \in SUBSET (a..(b - 1))
  BY FS_Interval DEF Within
<1>2. QED BY <1>1, FS_Subset, FS_CardinalityType

\* The numbers of distance codes are those that were counted.
LEMMA DistancesCounted ==
  ASSUME Counted(huffs, distCount, LitLen, TableSize), NEW l \in 1..MaxDepth
  PROVE  distCount[l] = Cardinality(OfLength(DistLens, l))
<1>1. PICK U, V : U = OfLength(DistLens, l) /\ V = Within(huffs, l, LitLen, TableSize)
  OBVIOUS
<1>2. U = {s \in 0..(DistSyms - 1) : huffs[LitLen + s] = l}
  BY <1>1 DEF OfLength, DistLens
<1>3. PICK D : D = 0..(DistSyms - 1)
  OBVIOUS
<1>4. IsFiniteSet(D) /\ Cardinality(D) = DistSyms
  BY <1>3, ExtraFacts, FS_Interval
<1>5. IsFiniteSet(U) /\ Cardinality(U) <= DistSyms /\ Cardinality(U) \in Nat
  <2>1. U \in SUBSET D
    BY <1>2, <1>3
  <2>2. QED BY <1>4, <2>1, FS_Subset, FS_CardinalityType
<1>6. PICK g : g = [s \in U |-> LitLen + s]
  OBVIOUS
<1>7. g \in [U -> V]
  <2>1. ASSUME NEW s \in U PROVE LitLen + s \in V
    <3>1. s \in 0..(DistSyms - 1) /\ huffs[LitLen + s] = l
      BY <1>2
    <3>2. LitLen + s \in LitLen..(TableSize - 1)
      BY <3>1, SizeFacts, ExtraFacts
    <3>3. QED BY <1>1, <3>1, <3>2 DEF Within
  <2>2. QED BY <1>6, <2>1
<1>8. \A s, t \in U : s # t => g[s] # g[t]
  <2>1. ASSUME NEW s \in U, NEW t \in U, s # t PROVE g[s] # g[t]
    <3>1. s \in Int /\ t \in Int /\ LitLen \in Int
      BY <1>2, SizeFacts
    <3>2. g[s] = LitLen + s /\ g[t] = LitLen + t
      BY <1>6
    <3>3. QED BY <2>1, <3>1, <3>2
  <2>2. QED BY <2>1
<1>9. \A p \in V : \E s \in U : g[s] = p
  <2>1. ASSUME NEW p \in V PROVE \E s \in U : g[s] = p
    <3>1. p \in LitLen..(TableSize - 1) /\ huffs[p] = l
      BY <1>1 DEF Within
    <3>2. PICK s \in 0..(DistSyms - 1) : s = p - LitLen /\ LitLen + s = p
      <4>1. p - LitLen \in 0..(DistSyms - 1) /\ LitLen + (p - LitLen) = p
        BY <3>1, SizeFacts, ExtraFacts
      <4>2. QED BY <4>1
    <3>3. s \in U
      BY <1>2, <3>1, <3>2
    <3>4. QED BY <1>6, <3>2, <3>3
  <2>2. QED BY <2>1
<1>10. ExistsBijection(U, V)
  BY <1>7, <1>8, <1>9 DEF ExistsBijection, Bijection, Injection, Surjection, IsInjective
<1>11. Cardinality(V) = Cardinality(U)
  BY <1>5, <1>10, FS_Bijection
<1>12. distCount[l] = Cardinality(V) % CountMod
  BY <1>1 DEF Counted
<1>13. PICK k \in Nat : k = Cardinality(U) /\ k <= DistSyms /\ k < CountMod
  BY <1>5, ReaderOK, SizeFacts, ExtraFacts
<1>14. k % CountMod = k
  BY <1>13, SizeFacts, Remainder
<1>15. QED BY <1>1, <1>11, <1>12, <1>13, <1>14

\* The numbers of codes for literals and lengths are those that were counted.
LEMMA LiteralsCounted ==
  ASSUME Lengths(huffs), CountsOK(huffs, litCount, litExpand, distCount),
         litCodes = WithExtra(SetCodes(LitLens, litCount)), NEW l \in 1..MaxTokenLen
  PROVE  CountedOf(l) % CountMod = Cardinality({x \in Indexes : Len(litCodes[x]) = l}) % CountMod
<1>1. PICK f : f = huffs
  OBVIOUS
<1>2. \A x \in Indexes : Len(litCodes[x]) = CodeLen(f, x)
  <2>1. PICK g : g = [s \in 0..(LitLen - 1) |-> f[s]]
    OBVIOUS
  <2>2. LitLens = g
    BY <1>1, <2>1 DEF LitLens
  <2>3. PICK c : c = litCount
    OBVIOUS
  <2>4. Lengths(f) /\ litCodes = WithExtra(SetCodes(g, c))
    BY <1>1, <2>2, <2>3
  <2>5. QED BY <2>1, <2>4, ExtraLengths
<1>3. f \in [0..(TableSize - 1) -> 0..MaxDepth] /\ \A p \in 0..(LitLen - 1) : f[p] \in Nat
  BY <1>1, SizeFacts DEF Lengths
<1>4. l \in Nat \ {0} /\ l \in 0..MaxTokenLen
  BY TokenLenFacts
<1>5. Cardinality({x \in Indexes : Len(litCodes[x]) = l})
        = Cardinality(SymbolsOf(f, l, LitLen)) + Beyond(f, l)
  <2>1. PICK g : g = litCodes
    OBVIOUS
  <2>2. \A x \in Indexes : Len(g[x]) = CodeLen(f, x)
    BY <1>2, <2>1
  <2>3. QED BY <1>3, <1>4, <2>1, <2>2, NumberOfCodes DEF Beyond
<1>6. PICK a \in Nat : a = Cardinality(SymbolsOf(f, l, LitLen))
  <2>1. SymbolsOf(f, l, LitLen) = Within(f, l, 0, LitLen) /\ 0 \in Nat /\ LitLen \in Nat
    BY SizeFacts DEF SymbolsOf, Within
  <2>2. QED BY <2>1, WithinFacts
<1>7. PICK b \in Int : b = Beyond(f, l)
  <2>1. TotalOK(Change(f, l), LitLen)
    BY <1>3, <1>4, ChangeFacts
  <2>2. QED BY <2>1 DEF TotalOK, Beyond
<1>8. PICK d \in Nat \ {0} : d = CountMod
  BY SizeFacts
<1>9. litExpand[l] = b % d
  BY <1>1, <1>7, <1>8 DEF CountsOK, Expands
<1>10. CASE l <= MaxDepth
  <2>1. litCount[l] = a % d
    <3>1. l \in 1..MaxDepth
      BY <1>4, <1>10, SizeFacts
    <3>2. SymbolsOf(f, l, LitLen) = Within(f, l, 0, LitLen)
      BY DEF SymbolsOf, Within
    <3>3. QED BY <1>1, <1>6, <1>8, <3>1, <3>2 DEF CountsOK, Counted
  <2>2. CountedOf(l) = (b % d) + (a % d)
    BY <1>9, <1>10, <2>1 DEF CountedOf
  <2>3. ((b % d) + (a % d)) % d = (b + a) % d
    <3>1. a \in Int
      OBVIOUS
    <3>2. Modular(b, a, d)
      BY <3>1, ModuloFacts, Zenon
    <3>3. QED BY ONLY <3>2 DEF Modular
  <2>4. b + a = a + b
    OBVIOUS
  <2>5. QED BY <1>5, <1>6, <1>7, <1>8, <2>2, <2>3, <2>4
<1>11. CASE ~(l <= MaxDepth)
  <2>1. a = 0
    <3>1. ASSUME NEW p \in 0..(LitLen - 1) PROVE f[p] # l
      <4>1. f[p] \in 0..MaxDepth
        BY <1>3, SizeFacts
      <4>2. QED BY <1>4, <1>11, <4>1, SizeFacts
    <3>2. SymbolsOf(f, l, LitLen) = {}
      BY <3>1 DEF SymbolsOf
    <3>3. QED BY <1>6, <3>2, FS_EmptySet
  <2>2. PICK z \in Int : z = b % d
    <3>1. b % d \in Int
      OBVIOUS
    <3>2. QED BY <3>1
  <2>3. CountedOf(l) = z
    BY <1>9, <1>11, <2>2 DEF CountedOf
  <2>4. (b % d) % d = b % d
    <3>1. a \in Int
      OBVIOUS
    <3>2. Modular(a, b, d)
      BY <3>1, ModuloFacts, Zenon
    <3>3. QED BY ONLY <3>2 DEF Modular
  <2>5. a + b = b
    BY <2>1
  <2>6. QED BY <1>5, <1>6, <1>7, <1>8, <2>2, <2>3, <2>4, <2>5
<1>12. QED BY <1>10, <1>11

\* What readLitDistLens has counted while it read, in two tables for literals
\* and one for distances, are the numbers of codes of each length, those for
\* all extra bits included, that the tables are then built from: the list of all
\* codes, one length behind the other, is laid out by these counts alone.
THEOREM CountsAgree ==
  ReaderSpec => []CountsMatch
<1>1. ReaderInv => CountsMatch
  <2>1. SUFFICES ASSUME ReaderInv, step \in {"lit table", "ok"}
                 PROVE  /\ \A l \in 1..MaxTokenLen :
                             (Starts[l + 1] - Starts[l]) % CountMod
                               = Cardinality({x \in Indexes : Len(litCodes[x]) = l}) % CountMod
                        /\ \A l \in 1..MaxDepth : distCount[l] = Cardinality(OfLength(DistLens, l))
    BY DEF CountsMatch
  <2>2. CountsOK(huffs, litCount, litExpand, distCount) /\ Lengths(huffs)
        /\ litCodes = WithExtra(SetCodes(LitLens, litCount))
    BY <2>1 DEF ReaderInv, ReaderTypes, Made
  <2>3. ASSUME NEW l \in 1..MaxTokenLen
        PROVE  (Starts[l + 1] - Starts[l]) % CountMod
                 = Cardinality({x \in Indexes : Len(litCodes[x]) = l}) % CountMod
    <3>1. (Starts[l + 1] - Starts[l]) % CountMod = CountedOf(l) % CountMod
      BY <2>2, StartsFacts
    <3>2. QED BY <2>2, <3>1, LiteralsCounted
  <2>4. ASSUME NEW l \in 1..MaxDepth
        PROVE  distCount[l] = Cardinality(OfLength(DistLens, l))
    BY <2>2, DistancesCounted DEF CountsOK
  <2>5. QED BY <2>3, <2>4
<1>2. QED BY <1>1, CountsAreKept, PTL

-----------------------------------------------------------------------------
(***************************************************************************)
(* The codes that the decompressor makes: none begins with another, as     *)
(* what has been counted is what there is.                                 *)
(***************************************************************************)
CountedWell(S, e, c) ==
  /\ c \in [0..MaxDepth -> Nat]
  /\ \A l \in 1..MaxDepth : c[l] = Cardinality(OfLength(e, l))

\* Without too many codes in all there are not too many of any length.
LEMMA SetCodesNumbered ==
  ASSUME NEW S \in SUBSET Nat, IsFiniteSet(S), NEW e \in [S -> 0..MaxDepth],
         NEW c, CountedWell(S, e, c), ~Oversubscribed(c)
  PROVE  \E h : FirstOfLengths(S, e, h) /\ NumberedFrom(S, e, h, SetCodes(e, c))
<1>1. PICK m \in Nat : m = MaxDepth /\ m # 0
  BY WidthsOK
<1>2. PICK d : d = [c EXCEPT ![0] = 0]
  OBVIOUS
<1>3. /\ d \in [0..m -> Nat] /\ d[0] = 0
      /\ \A l \in 1..m : d[l] = Cardinality(OfLength(e, l)) /\ d[l] = c[l]
  BY <1>1, <1>2 DEF CountedWell
<1>4. PICK h : h = NextCodes(d, m)
  OBVIOUS
<1>5. FirstCodes(d, m, h)
  BY <1>1, <1>3, <1>4, NextCodesFacts
<1>6. \A k \in 0..m : h[k] \in Nat /\ d[k] \in Nat
  BY <1>3, <1>5 DEF FirstCodes
<1>7. h[m] + d[m] <= PowerOf2[m]
  <2>1. CodesEnd(c) = h[m] + d[m]
    <3>1. CodesEnd(c) = h[m] + c[m]
      BY <1>1, <1>2, <1>4 DEF CodesEnd
    <3>2. m \in 1..m
      BY <1>1
    <3>3. QED BY <1>3, <3>1, <3>2
  <2>2. m \in 0..m
    BY <1>1
  <2>3. h[m] + d[m] \in Nat /\ PowerOf2[m] \in Nat
    BY <1>1, <1>6, <2>2, PowerFacts
  <2>4. ~(h[m] + d[m] > PowerOf2[m])
    BY <1>1, <2>1 DEF Oversubscribed
  <2>5. QED BY <2>3, <2>4
<1>8. ASSUME NEW a \in 0..m, NEW b \in (a + 1)..m
      PROVE  PowerOf2[b - a] * (h[a] + d[a]) <= h[b]
  BY <1>1, <1>3, <1>5, <1>8, LaterFirst
<1>9. ASSUME NEW x \in 0..m PROVE h[x] + d[x] <= PowerOf2[x]
  <2>1. CASE x = m
    BY <1>7, <2>1
  <2>2. CASE x # m
    <3>1. PICK a \in Nat, p \in Nat \ {0}, q \in Nat, r \in Nat, o \in Nat :
            /\ a = h[x] + d[x] /\ p = PowerOf2[m - x] /\ q = PowerOf2[x]
            /\ r = h[m] /\ o = d[m]
      <4>1. x \in Nat /\ m - x \in Nat /\ m \in 0..m
        BY <1>1
      <4>2. h[x] + d[x] \in Nat /\ h[m] \in Nat /\ d[m] \in Nat
        BY <1>6, <4>1
      <4>3. PowerOf2[m - x] \in Nat \ {0} /\ PowerOf2[x] \in Nat
        BY <4>1, PowerFacts
      <4>4. QED BY <4>2, <4>3
    <3>2. m \in (x + 1)..m
      BY <1>1, <2>2
    <3>3. p * a <= r
      BY <1>8, <3>1, <3>2
    <3>4. PowerOf2[m] = q * p
      <4>1. x \in Nat /\ m - x \in Nat /\ x + (m - x) = m
        BY <1>1
      <4>2. QED BY <3>1, <4>1, PowerSum
    <3>5. p * a <= q * p
      <4>1. PICK y \in Nat, z \in Nat : y = p * a /\ z = q * p
        OBVIOUS
      <4>2. r + o <= z
        BY <1>7, <3>1, <3>4, <4>1
      <4>3. QED BY <3>3, <4>1, <4>2
    <3>6. a <= q
      <4>1. SUFFICES ASSUME a > q PROVE FALSE
        OBVIOUS
      <4>2. PICK t \in Nat : a = q + 1 + t
        <5>1. a - (q + 1) \in Nat /\ a = q + 1 + (a - (q + 1))
          BY <4>1
        <5>2. QED BY <5>1
      <4>3. p * (q + 1 + t) = q * p + p + p * t
        OBVIOUS
      <4>4. PICK y \in Nat, z \in Nat : y = q * p /\ z = p * t
        OBVIOUS
      <4>5. QED BY <3>5, <4>2, <4>3, <4>4
    <3>7. QED BY <3>1, <3>6
  <2>3. QED BY <2>1, <2>2
<1>10. \A s \in S : e[s] \in 0..m /\ e[s] \in Nat
  BY <1>1
<1>11. ASSUME NEW s \in S, e[s] # 0 PROVE e[s] \in 1..m /\ d[e[s]] = Cardinality(OfLength(e, e[s]))
  BY <1>3, <1>10, <1>11
<1>12. FirstOfLengths(S, e, h)
  <2>1. \A s \in S : h[e[s]] \in Nat
    BY <1>6, <1>10
  <2>2. ASSUME NEW s \in S, e[s] # 0
        PROVE  h[e[s]] + Cardinality(OfLength(e, e[s])) <= PowerOf2[e[s]]
    BY <1>9, <1>10, <1>11, <2>2
  <2>3. ASSUME NEW s \in S, NEW t \in S, 0 < e[s], e[s] < e[t]
        PROVE  PowerOf2[e[t] - e[s]] * (h[e[s]] + Cardinality(OfLength(e, e[s]))) <= h[e[t]]
    <3>1. e[s] \in 0..m /\ e[t] \in (e[s] + 1)..m /\ e[s] # 0
      BY <1>10, <2>3
    <3>2. PowerOf2[e[t] - e[s]] * (h[e[s]] + d[e[s]]) <= h[e[t]]
      BY <1>8, <3>1
    <3>3. QED BY <1>11, <3>1, <3>2
  <2>4. QED BY <2>1, <2>2, <2>3 DEF FirstOfLengths
<1>13. NumberedFrom(S, e, h, SetCodes(e, c))
  <2>1. SetCodes(e, c) = Numbered(e, h)
    BY <1>1, <1>2, <1>4 DEF SetCodes
  <2>2. DOMAIN e = S
    OBVIOUS
  <2>3. QED BY <2>1, <2>2 DEF Numbered, NumberedFrom, PlaceOf
<1>14. QED BY <1>12, <1>13

-----------------------------------------------------------------------------
(***************************************************************************)
(* Codes as sequences of bits.                                             *)
(***************************************************************************)
BitSeqs == Seq({0, 1})

\* Codes of the symbols below m, of up to max bits, of which none begins with
\* another.
CodeOK(codes, m, max) ==
  /\ DOMAIN codes = 0..(m - 1)
  /\ \A s \in 0..(m - 1) : codes[s] \in BitSeqs /\ Len(codes[s]) <= max
  /\ \A s, t \in 0..(m - 1) : s # t /\ codes[s] # <<>> /\ codes[t] # <<>> =>
       ~IsPrefixOf(codes[s], codes[t])

\* What is made bit by bit is a sequence of bits.
LEMMA BitSequence ==
  ASSUME NEW k \in Nat, NEW b, b = [p \in 1..k |-> b[p]], \A p \in 1..k : b[p] \in {0, 1}
  PROVE  b \in BitSeqs /\ Len(b) = k /\ (b = <<>> <=> k = 0)
<1>1. PICK B : B = {0, 1}
  OBVIOUS
<1>2. b \in [1..k -> B]
  BY <1>1
<1>3. b \in Seq(B) /\ Len(b) = k
  BY <1>2
<1>4. b = <<>> <=> k = 0
  BY <1>3
<1>5. QED BY <1>1, <1>3, <1>4 DEF BitSeqs

\* A code of k bits is a sequence of k bits.
LEMMA BitsOfNumber ==
  ASSUME NEW x \in Nat, NEW k \in Nat
  PROVE  BitsOf(x, k) \in BitSeqs /\ Len(BitsOf(x, k)) = k /\ (BitsOf(x, k) = <<>> <=> k = 0)
<1>1. PICK b : b = BitsOf(x, k)
  OBVIOUS
<1>2. b = [p \in 1..k |-> b[p]]
  BY <1>1 DEF BitsOf
<1>3. ASSUME NEW p \in 1..k PROVE b[p] \in {0, 1}
  <2>1. k - p \in Nat
    OBVIOUS
  <2>2. PICK d \in Nat \ {0} : d = PowerOf2[k - p]
    BY <2>1, PowerFacts
  <2>3. PICK y \in Nat : y = x \div d
    BY Remainder
  <2>4. b[p] = y % 2
    BY <1>1, <2>2, <2>3 DEF BitsOf
  <2>5. y % 2 \in {0, 1}
    OBVIOUS
  <2>6. QED BY <2>4, <2>5
<1>4. QED BY <1>1, <1>2, <1>3, BitSequence

\* Lengths of up to MaxDepth bits, which were counted, have such codes.
LEMMA SetCodesOK ==
  ASSUME NEW k \in Nat, NEW e \in [0..(k - 1) -> 0..MaxDepth],
         NEW c, CountedWell(0..(k - 1), e, c), ~Oversubscribed(c)
  PROVE  CodeOK(SetCodes(e, c), k, MaxDepth)
<1>1. PICK S : S = 0..(k - 1)
  OBVIOUS
<1>2. S \in SUBSET Nat /\ IsFiniteSet(S) /\ e \in [S -> 0..MaxDepth] /\ CountedWell(S, e, c)
  <2>1. IsFiniteSet(0..(k - 1))
    BY FS_Interval
  <2>2. 0..(k - 1) \in SUBSET Nat
    OBVIOUS
  <2>3. QED BY <1>1, <2>1, <2>2
<1>3. PICK h : FirstOfLengths(S, e, h) /\ NumberedFrom(S, e, h, SetCodes(e, c))
  BY <1>2, SetCodesNumbered
<1>4. PICK g : g = SetCodes(e, c)
  OBVIOUS
<1>5. e \in [S -> Nat] /\ \A s \in S : e[s] <= MaxDepth
  BY <1>2, WidthsOK
<1>6. Canonical(e, g)
  BY <1>2, <1>3, <1>4, <1>5, OrderedCodes
<1>7. ASSUME NEW s \in S
      PROVE  g[s] \in BitSeqs /\ Len(g[s]) = e[s] /\ (g[s] = <<>> <=> e[s] = 0)
  <2>1. CASE e[s] = 0
    <3>1. g[s] = <<>>
      BY <1>3, <1>4, <2>1 DEF NumberedFrom
    <3>2. QED BY <2>1, <3>1 DEF BitSeqs
  <2>2. CASE e[s] # 0
    <3>1. PICK x \in Nat, y \in Nat, z \in Nat : x = h[e[s]] /\ y = PlaceOf(e, s) /\ z = e[s]
      BY <1>2, <1>3, <1>5, PlaceFacts DEF FirstOfLengths
    <3>2. x + y \in Nat
      OBVIOUS
    <3>3. g[s] = BitsOf(x + y, z)
      BY <1>3, <1>4, <2>2, <3>1 DEF NumberedFrom
    <3>4. QED BY <3>1, <3>2, <3>3, BitsOfNumber
  <2>3. QED BY <2>1, <2>2
<1>8. DOMAIN g = S
  BY <1>1, <1>4 DEF SetCodes, Numbered
<1>9. ASSUME NEW s \in S, NEW t \in S, s # t, g[s] # <<>>, g[t] # <<>>
      PROVE  ~IsPrefixOf(g[s], g[t])
  <2>1. e[s] \in Nat /\ e[t] \in Nat /\ e[s] # 0 /\ e[t] # 0
    BY <1>5, <1>7, <1>9
  <2>2. s \in Coded(e) /\ t \in Coded(e)
    BY <1>5, <2>1 DEF Coded
  <2>3. QED BY <1>6, <1>9, <2>2 DEF Canonical
<1>10. QED BY <1>1, <1>4, <1>5, <1>7, <1>8, <1>9 DEF CodeOK

\* A sequence in front of another.
Joint(a, u, c) ==
  /\ c \in BitSeqs /\ Len(a) \in Nat /\ Len(u) \in Nat
  /\ Len(c) = Len(a) + Len(u)
  /\ \A k \in 1..Len(a) : c[k] = a[k]
  /\ \A k \in 1..Len(u) : c[Len(a) + k] = u[k]

\* The bits of two sequences, one behind the other.
LEMMA ConcatParts ==
  ASSUME NEW a \in BitSeqs, NEW u \in BitSeqs, NEW c, c = a \o u
  PROVE  Joint(a, u, c)
<1>1. PICK B : B = {0, 1}
  OBVIOUS
<1>2. a \in Seq(B) /\ u \in Seq(B)
  BY <1>1 DEF BitSeqs
<1>3. c \in Seq(B) /\ Len(c) = Len(a) + Len(u) /\ Len(a) \in Nat /\ Len(u) \in Nat
  BY <1>2
<1>4. \A k \in 1..Len(a) : c[k] = a[k]
  BY <1>2
<1>5. ASSUME NEW k \in 1..Len(u) PROVE c[Len(a) + k] = u[k]
  <2>1. PICK p \in Nat, q \in Nat : p = Len(a) /\ q = Len(u)
    BY <1>3
  <2>2. p + k \in 1..(p + q) /\ ~(p + k <= p) /\ (p + k) - p = k
    BY <2>1
  <2>3. \A z \in 1..(p + q) : c[z] = IF z <= p THEN a[z] ELSE u[z - p]
    BY <1>2, <2>1, ConcatProperties
  <2>4. QED BY <2>1, <2>2, <2>3
<1>6. QED BY <1>1, <1>3, <1>4, <1>5 DEF BitSeqs, Joint

\* The extra bits of a value are as many as its symbol has.
LEMMA ExtraBits ==
  ASSUME NEW v \in Nat, NEW k \in Nat
  PROVE  ExtraCode(v, k) \in BitSeqs /\ Len(ExtraCode(v, k)) = k
<1>1. PICK b : b = ExtraCode(v, k)
  OBVIOUS
<1>2. b = [p \in 1..k |-> b[p]]
  BY <1>1 DEF ExtraCode
<1>3. ASSUME NEW p \in 1..k PROVE b[p] \in {0, 1}
  <2>1. p - 1 \in Nat
    OBVIOUS
  <2>2. PICK d \in Nat \ {0} : d = PowerOf2[p - 1]
    BY <2>1, PowerFacts
  <2>3. PICK y \in Nat : y = v \div d
    BY Remainder
  <2>4. b[p] = y % 2
    BY <1>1, <2>2, <2>3 DEF ExtraCode
  <2>5. y % 2 \in {0, 1}
    OBVIOUS
  <2>6. QED BY <2>4, <2>5
<1>4. QED BY <1>1, <1>2, <1>3, BitSequence

\* Two values of the same extra bits differ in one of them.
DifferInExtra(u, v, k) == \E p \in 1..k : ExtraCode(u, k)[p] # ExtraCode(v, k)[p]

\* Values that fit the same extra bits differ in one of them.
LEMMA ExtraDiffer ==
  ASSUME NEW k \in Nat, NEW u \in Nat, NEW v \in Nat, u < v, v < PowerOf2[k]
  PROVE  DifferInExtra(u, v, k)
<1>1. PICK s, t : s = Top(u, k) /\ t = Top(v, k)
  OBVIOUS
<1>2. u < PowerOf2[k]
  <2>1. PowerOf2[k] \in Nat
    BY PowerFacts
  <2>2. QED BY <2>1
<1>3. s[0] = 0 /\ t[0] = 0 /\ s[k] = u /\ t[k] = v /\ Halves(s, k) /\ Halves(t, k)
  BY <1>1, <1>2, TopFacts
<1>4. PICK q \in 1..k : s[q] % 2 < t[q] % 2
  <2>1. s[k] < t[k]
    BY <1>3
  <2>2. QED BY <1>3, <2>1, FirstDifferent
<1>5. s[q] \in Nat /\ t[q] \in Nat
  BY <1>3 DEF Halves
<1>6. PICK p \in 1..k : p - 1 = k - q
  <2>1. (k - q) + 1 \in 1..k /\ ((k - q) + 1) - 1 = k - q
    OBVIOUS
  <2>2. QED BY <2>1
<1>7. q \in 0..k
  OBVIOUS
<1>8. s[q] = u \div PowerOf2[k - q] /\ t[q] = v \div PowerOf2[k - q]
  BY <1>1, <1>7 DEF Top
<1>9. ExtraCode(u, k)[p] = s[q] % 2 /\ ExtraCode(v, k)[p] = t[q] % 2
  BY <1>6, <1>8 DEF ExtraCode
<1>10. s[q] % 2 # t[q] % 2
  BY <1>4, <1>5
<1>11. QED BY <1>9, <1>10 DEF DifferInExtra

\* A number of literals and lengths is a symbol and the value of its extra bits.
NumberParts(x) ==
  /\ SymbolOf(x) \in 0..(LitLen - 1) /\ SymbolExtra(SymbolOf(x)) \in 0..MaxExtra
  /\ ValueOf(x) \in Nat /\ ValueOf(x) < PowerOf2[SymbolExtra(SymbolOf(x))]
  /\ x = IF SymbolOf(x) < LitSyms THEN SymbolOf(x)
         ELSE LenBase(SymbolOf(x) - LitSyms) + ValueOf(x)
  /\ x < LitSyms => SymbolOf(x) = x

\* Every number has these parts.
LEMMA PartsOfNumber ==
  ASSUME NEW x \in Indexes
  PROVE  NumberParts(x)
<1>1. x \in Nat /\ x < LenBase(NumLens) /\ LenBase(NumLens) \in Nat
  BY NumberFacts
<1>2. CASE x < LitSyms
  <2>1. SymbolOf(x) = x /\ x \in 0..(LitLen - 1) /\ ValueOf(x) = 0
    BY <1>1, <1>2, SizeFacts, ExtraFacts DEF SymbolOf, ValueOf
  <2>2. SymbolExtra(x) = 0 /\ 0 \in 0..MaxExtra
    BY <1>2, TokenLenFacts DEF SymbolExtra
  <2>3. QED BY <1>2, <2>1, <2>2, PowerFacts DEF NumberParts
<1>3. CASE ~(x < LitSyms)
  <2> DEFINE T == {k \in Nat : k <= NumLens /\ x < LenBase(k)}
  <2>1. T \in SUBSET Nat /\ T # {}
    BY <1>1, ExtraFacts
  <2>2. PICK k \in T : \A t \in T : k <= t
    BY <2>1, LeastElement
  <2>3. k \in Nat /\ k # 0 /\ k <= NumLens /\ x < LenBase(k)
    BY <1>3, <2>2, LenBaseNext
  <2>4. PICK s \in Nat : s = k - 1 /\ s + 1 = k /\ s \in 0..(NumLens - 1) /\ s \in 0..NumLens
    <3>1. k - 1 \in Nat /\ (k - 1) + 1 = k /\ k - 1 \in 0..(NumLens - 1) /\ k - 1 \in 0..NumLens
      BY <2>3, ExtraFacts
    <3>2. QED BY <3>1
  <2>5. ~(x < LenBase(s))
    <3>1. SUFFICES ASSUME x < LenBase(s) PROVE FALSE
      OBVIOUS
    <3>2. s \in T
      BY <2>4, <3>1
    <3>3. k <= s
      BY <2>2, <3>2
    <3>4. QED BY <2>3, <2>4, <3>3
  <2>6. PICK y \in Nat, z \in Nat, e \in Nat, p \in Nat :
          /\ y = LenBase(s) /\ z = LenBase(s + 1) /\ z = y + p
          /\ e = LenExtra[s] /\ p = PowerOf2[e]
    BY <2>4, LenBaseNext, ExtraFacts
  <2>7. x \in LenBase(s)..(LenBase(s + 1) - 1)
    BY <1>1, <2>3, <2>4, <2>5, <2>6
  <2>8. SymbolOf(x) = LitSyms + s /\ SymbolExtra(SymbolOf(x)) = e /\ ValueOf(x) = x - y
    BY <2>4, <2>6, <2>7, SymbolFacts
  <2>9. LitSyms + s \in 0..(LitLen - 1) /\ e \in 0..MaxExtra
        /\ ~(LitSyms + s < LitSyms) /\ (LitSyms + s) - LitSyms = s
    <3>1. e <= MaxExtra /\ MaxExtra \in Nat
      BY <2>4, <2>6, TokenLenFacts
    <3>2. QED BY <2>4, <3>1, SizeFacts, ExtraFacts
  <2>10. x - y \in Nat /\ x - y < p /\ x = y + (x - y)
    BY <1>1, <2>3, <2>4, <2>5, <2>6
  <2>11. QED BY <1>3, <2>6, <2>8, <2>9, <2>10 DEF NumberParts
<1>4. QED BY <1>2, <1>3

\* With their extra bits behind them, codes still do not begin with each other.
LEMMA WithExtraOK ==
  ASSUME NEW g, CodeOK(g, LitLen, MaxDepth)
  PROVE  CodeOK(WithExtra(g), MaxLitLenSym + 2, MaxTokenLen)
<1>1. PICK f : f = WithExtra(g)
  OBVIOUS
<1>2. DOMAIN f = Indexes /\ Indexes = 0..((MaxLitLenSym + 2) - 1)
  BY <1>1, NumberFacts DEF WithExtra, Indexes
<1>3. ASSUME NEW x \in Indexes
      PROVE  \E p \in 0..(LitLen - 1), k \in 0..MaxExtra, v \in Nat :
               /\ p = SymbolOf(x) /\ k = SymbolExtra(p) /\ v = ValueOf(x) /\ v < PowerOf2[k]
               /\ g[p] \in BitSeqs /\ ExtraCode(v, k) \in BitSeqs
               /\ Len(ExtraCode(v, k)) = k /\ Len(g[p]) \in Nat /\ Len(g[p]) <= MaxDepth
               /\ f[x] = IF g[p] = <<>> THEN <<>> ELSE g[p] \o ExtraCode(v, k)
  <2>1. PICK p \in 0..(LitLen - 1), k \in 0..MaxExtra, v \in Nat :
          p = SymbolOf(x) /\ k = SymbolExtra(p) /\ v = ValueOf(x) /\ v < PowerOf2[k]
    BY PartsOfNumber DEF NumberParts
  <2>2. g[p] \in BitSeqs /\ Len(g[p]) <= MaxDepth
    BY DEF CodeOK
  <2>3. k \in Nat
    BY TokenLenFacts
  <2>4. ExtraCode(v, k) \in BitSeqs /\ Len(ExtraCode(v, k)) = k /\ Len(g[p]) \in Nat
    BY <2>2, <2>3, ExtraBits DEF BitSeqs
  <2>5. f[x] = IF g[p] = <<>> THEN <<>> ELSE g[p] \o ExtraCode(v, k)
    BY <1>1, <2>1 DEF WithExtra
  <2>6. QED BY <2>1, <2>2, <2>4, <2>5
<1>4. ASSUME NEW x \in Indexes PROVE f[x] \in BitSeqs /\ Len(f[x]) <= MaxTokenLen
  <2>1. PICK p \in 0..(LitLen - 1), k \in 0..MaxExtra, v \in Nat :
               /\ g[p] \in BitSeqs /\ ExtraCode(v, k) \in BitSeqs
               /\ Len(ExtraCode(v, k)) = k /\ Len(g[p]) \in Nat /\ Len(g[p]) <= MaxDepth
               /\ f[x] = IF g[p] = <<>> THEN <<>> ELSE g[p] \o ExtraCode(v, k)
    BY <1>3
  <2>2. CASE g[p] = <<>>
    <3>1. f[x] = <<>>
      BY <2>1, <2>2
    <3>2. f[x] \in BitSeqs /\ Len(f[x]) = 0
      BY <3>1 DEF BitSeqs
    <3>3. QED BY <3>2, TokenLenFacts
  <2>3. CASE g[p] # <<>>
    <3>1. f[x] \in BitSeqs /\ Len(f[x]) = Len(g[p]) + k
      <4>1. f[x] = g[p] \o ExtraCode(v, k)
        BY <2>1, <2>3
      <4>2. Joint(g[p], ExtraCode(v, k), f[x])
        BY <2>1, <4>1, ConcatParts
      <4>3. QED BY <2>1, <4>2 DEF Joint
    <3>2. Len(g[p]) + k <= MaxTokenLen
      BY <2>1, TokenLenFacts, WidthsOK
    <3>3. QED BY <3>1, <3>2
  <2>4. QED BY <2>2, <2>3
<1>5. ASSUME NEW x \in Indexes, NEW y \in Indexes, x # y, f[x] # <<>>, f[y] # <<>>,
             IsPrefixOf(f[x], f[y])
      PROVE  FALSE
  <2>1. PICK p \in 0..(LitLen - 1), k \in 0..MaxExtra, v \in Nat :
               /\ p = SymbolOf(x) /\ k = SymbolExtra(p) /\ v = ValueOf(x) /\ v < PowerOf2[k]
               /\ g[p] \in BitSeqs /\ ExtraCode(v, k) \in BitSeqs
               /\ Len(ExtraCode(v, k)) = k /\ Len(g[p]) \in Nat
               /\ f[x] = IF g[p] = <<>> THEN <<>> ELSE g[p] \o ExtraCode(v, k)
    BY <1>3
  <2>2. PICK q \in 0..(LitLen - 1), h \in 0..MaxExtra, t \in Nat :
               /\ q = SymbolOf(y) /\ h = SymbolExtra(q) /\ t = ValueOf(y) /\ t < PowerOf2[h]
               /\ g[q] \in BitSeqs /\ ExtraCode(t, h) \in BitSeqs
               /\ Len(ExtraCode(t, h)) = h /\ Len(g[q]) \in Nat
               /\ f[y] = IF g[q] = <<>> THEN <<>> ELSE g[q] \o ExtraCode(t, h)
    BY <1>3
  <2>3. PICK a \in BitSeqs, b \in BitSeqs, u \in BitSeqs, d \in BitSeqs :
          a = g[p] /\ b = g[q] /\ u = ExtraCode(v, k) /\ d = ExtraCode(t, h)
    BY <2>1, <2>2
  <2>4. a # <<>> /\ b # <<>> /\ f[x] = a \o u /\ f[y] = b \o d
    BY <1>5, <2>1, <2>2, <2>3
  <2>5. /\ Len(a) \in Nat /\ Len(b) \in Nat /\ Len(u) = k /\ Len(d) = h
        /\ k \in Nat /\ h \in Nat
    BY <2>1, <2>2, <2>3, TokenLenFacts
  <2>6. /\ \A z \in 1..Len(a) : f[x][z] = a[z]
        /\ \A z \in 1..Len(b) : f[y][z] = b[z]
        /\ \A z \in 1..k : f[x][Len(a) + z] = u[z]
        /\ \A z \in 1..h : f[y][Len(b) + z] = d[z]
        /\ Len(f[x]) = Len(a) + k /\ Len(f[y]) = Len(b) + h
    <3>1. Joint(a, u, f[x]) /\ Joint(b, d, f[y])
      BY <2>4, ConcatParts
    <3>2. QED BY <2>5, <3>1 DEF Joint
  <2>7. \A z \in 1..(Len(a) + k) : f[x][z] = f[y][z]
    BY <1>5, <2>6 DEF IsPrefixOf
  <2>8. CASE p # q
    <3>1. CASE Len(a) <= Len(b)
      <4>1. ASSUME NEW z \in 1..Len(a) PROVE a[z] = b[z]
        <5>1. z \in 1..Len(b) /\ z \in 1..(Len(a) + k)
          BY <2>5, <3>1
        <5>2. QED BY <2>6, <2>7, <5>1
      <4>2. IsPrefixOf(a, b)
        BY <3>1, <4>1 DEF IsPrefixOf
      <4>3. QED BY <2>3, <2>4, <2>8, <4>2 DEF CodeOK
    <3>2. CASE Len(b) <= Len(a)
      <4>1. ASSUME NEW z \in 1..Len(b) PROVE b[z] = a[z]
        <5>1. z \in 1..Len(a) /\ z \in 1..(Len(a) + k)
          BY <2>5, <3>2
        <5>2. QED BY <2>6, <2>7, <5>1
      <4>2. IsPrefixOf(b, a)
        BY <3>2, <4>1 DEF IsPrefixOf
      <4>3. QED BY <2>3, <2>4, <2>8, <4>2 DEF CodeOK
    <3>3. QED BY <2>5, <3>1, <3>2
  <2>9. CASE p = q
    <3>1. k = h /\ a = b
      BY <2>1, <2>2, <2>3, <2>9
    <3>2. ASSUME NEW z \in 1..k PROVE u[z] = d[z]
      <4>1. Len(a) + z \in 1..(Len(a) + k)
        BY <2>5
      <4>2. f[x][Len(a) + z] = f[y][Len(a) + z]
        BY <2>7, <4>1
      <4>3. QED BY <2>6, <3>1, <4>2
    <3>3. v # t
      <4>1. SUFFICES ASSUME v = t PROVE FALSE
        OBVIOUS
      <4>2. x = (IF p < LitSyms THEN p ELSE LenBase(p - LitSyms) + v)
        BY <2>1, PartsOfNumber DEF NumberParts
      <4>3. y = (IF p < LitSyms THEN p ELSE LenBase(p - LitSyms) + v)
        BY <2>2, <2>9, <4>1, PartsOfNumber DEF NumberParts
      <4>4. QED BY <1>5, <4>2, <4>3
    <3>4. v < t \/ t < v
      BY <3>3
    <3>5. \E z \in 1..k : u[z] # d[z]
      <4>1. v < PowerOf2[k] /\ t < PowerOf2[k] /\ u = ExtraCode(v, k) /\ d = ExtraCode(t, k)
        BY <2>1, <2>2, <2>3, <3>1
      <4>2. CASE v < t
        <5>1. DifferInExtra(v, t, k)
          BY <2>5, <4>1, <4>2, ExtraDiffer
        <5>2. QED BY <4>1, <5>1 DEF DifferInExtra
      <4>3. CASE t < v
        <5>1. DifferInExtra(t, v, k)
          BY <2>5, <4>1, <4>3, ExtraDiffer
        <5>2. QED BY <4>1, <5>1 DEF DifferInExtra
      <4>4. QED BY <3>4, <4>2, <4>3
    <3>6. QED BY <3>2, <3>5
  <2>10. QED BY <2>8, <2>9
<1>6. ASSUME NEW x \in Indexes, NEW y \in Indexes, x # y, f[x] # <<>>, f[y] # <<>>
      PROVE  ~IsPrefixOf(f[x], f[y])
  BY <1>5, <1>6
<1>7. QED BY <1>1, <1>2, <1>4, <1>6 DEF CodeOK

-----------------------------------------------------------------------------
(***************************************************************************)
(* Which codes bits begin with.                                            *)
(***************************************************************************)
\* p has the bits of b behind the first x, up to y.
Piece(b, x, y, p) ==
  /\ p \in BitSeqs /\ p \in Bits(y - x) /\ Len(p) = y - x
  /\ \A k \in 1..(y - x) : p[k] = b[x + k]

\* A piece of bits.
LEMMA PieceFacts ==
  ASSUME NEW b \in BitSeqs, NEW x \in Nat, NEW y \in Nat, x <= y, y <= Len(b),
         NEW lo, lo = x + 1, NEW p, p = SubSeq(b, lo, y)
  PROVE  Piece(b, x, y, p)
<1>1. PICK B : B = {0, 1}
  OBVIOUS
<1>2. b \in Seq(B) /\ Len(b) \in Nat
  BY <1>1 DEF BitSeqs
<1>3. PICK k \in Nat : k = y - x
  OBVIOUS
<1>4. lo \in Int /\ y \in Int /\ \A z \in lo..y : b[z] \in B
  <2>1. ASSUME NEW z \in lo..y PROVE b[z] \in B
    <3>1. z \in 1..Len(b)
      BY <1>2
    <3>2. QED BY <1>2, <3>1
  <2>2. QED BY <2>1
<1>5. /\ p \in Seq(B) /\ Len(p) = (IF lo <= y THEN y - lo + 1 ELSE 0)
      /\ \A z \in 1..(y - lo + 1) : p[z] = b[lo + z - 1]
  BY <1>4, SubSeqProperties
<1>6. Len(p) = k
  BY <1>3, <1>5
<1>7. ASSUME NEW z \in 1..k PROVE p[z] = b[x + z]
  <2>1. z \in 1..(y - lo + 1) /\ lo + z - 1 = x + z
    BY <1>3
  <2>2. QED BY <1>5, <2>1
<1>8. p \in [1..k -> B]
  <2>1. p \in Seq(B)
    BY <1>5
  <2>2. p \in [1..Len(p) -> B]
    BY <2>1, LenProperties
  <2>3. QED BY <1>6, <2>2
<1>9. QED BY <1>1, <1>3, <1>5, <1>6, <1>7, <1>8 DEF Piece, Bits, BitSeqs

\* A piece from the front.
LEMMA FrontFacts ==
  ASSUME NEW b \in BitSeqs, NEW y \in Nat, y <= Len(b), NEW p, p = SubSeq(b, 1, y)
  PROVE  Piece(b, 0, y, p)
<1>1. PICK x \in Nat, lo \in Nat : x = 0 /\ lo = 1 /\ lo = x + 1
  <2>1. 0 \in Nat /\ 1 \in Nat /\ 1 = 0 + 1
    OBVIOUS
  <2>2. QED BY <2>1
<1>2. x <= y /\ p = SubSeq(b, lo, y)
  BY <1>1
<1>3. Piece(b, x, y, p)
  BY <1>1, <1>2, PieceFacts
<1>4. QED BY <1>1, <1>3

\* Of two beginnings of the same bits one begins the other.
LEMMA CommonPrefix ==
  ASSUME NEW a \in BitSeqs, NEW c \in BitSeqs, NEW b, IsPrefixOf(a, b), IsPrefixOf(c, b)
  PROVE  IsPrefixOf(a, c) \/ IsPrefixOf(c, a)
<1>1. Len(a) \in Nat /\ Len(c) \in Nat
  BY DEF BitSeqs
<1>2. (\A k \in 1..Len(a) : a[k] = b[k]) /\ (\A k \in 1..Len(c) : c[k] = b[k])
  BY DEF IsPrefixOf
<1>3. CASE Len(a) <= Len(c)
  <2>1. ASSUME NEW k \in 1..Len(a) PROVE a[k] = c[k]
    <3>1. k \in 1..Len(c)
      BY <1>1, <1>3
    <3>2. QED BY <1>2, <3>1
  <2>2. QED BY <1>3, <2>1 DEF IsPrefixOf
<1>4. CASE Len(c) <= Len(a)
  <2>1. ASSUME NEW k \in 1..Len(c) PROVE c[k] = a[k]
    <3>1. k \in 1..Len(a)
      BY <1>1, <1>4
    <3>2. QED BY <1>2, <3>1
  <2>2. QED BY <1>4, <2>1 DEF IsPrefixOf
<1>5. QED BY <1>1, <1>3, <1>4

\* Bits begin with one code or none.
OneCode(codes, m, b, s) ==
  /\ s \in 0..(m - 1) /\ codes[s] \in BitSeqs /\ codes[s] # <<>> /\ IsPrefixOf(codes[s], b)
  /\ First(codes, b) = {s} /\ Len(codes[s]) \in Nat \ {0}

\* As no code begins with another, bits begin with no second one.
LEMMA OnlyFirst ==
  ASSUME NEW m \in Nat, NEW max, NEW codes, CodeOK(codes, m, max), NEW b,
         NEW s \in First(codes, b)
  PROVE  OneCode(codes, m, b, s)
<1>1. ASSUME NEW t \in First(codes, b)
      PROVE  t \in 0..(m - 1) /\ codes[t] \in BitSeqs /\ codes[t] # <<>>
             /\ IsPrefixOf(codes[t], b) /\ Len(codes[t]) \in Nat \ {0}
  <2>1. t \in DOMAIN codes /\ codes[t] # <<>> /\ IsPrefixOf(codes[t], b)
    BY DEF First, Used
  <2>2. t \in 0..(m - 1) /\ codes[t] \in BitSeqs
    BY <2>1 DEF CodeOK
  <2>3. Len(codes[t]) \in Nat \ {0}
    BY <2>1, <2>2 DEF BitSeqs
  <2>4. QED BY <2>1, <2>2, <2>3
<1>2. ASSUME NEW t \in First(codes, b) PROVE t = s
  <2>1. SUFFICES ASSUME t # s PROVE FALSE
    OBVIOUS
  <2>2. ~IsPrefixOf(codes[s], codes[t]) /\ ~IsPrefixOf(codes[t], codes[s])
    BY <1>1, <2>1 DEF CodeOK
  <2>3. QED BY <1>1, <2>2, CommonPrefix
<1>3. First(codes, b) = {s}
  BY <1>2
<1>4. QED BY <1>1, <1>3 DEF OneCode

-----------------------------------------------------------------------------
(***************************************************************************)
(* What is found in a table.                                               *)
(***************************************************************************)
TableOf(codes, k, direct, entry, old, oldLong) ==
  WithLong(Doubled(old, k, Shortest(codes), direct), codes, entry, k, oldLong)

\* A code's own entry, or one for what the bits begin with, or none.
Looked(codes, k, direct, entry, old, oldLong, b, e) ==
  \/ \E s \in First(codes, b) : e = entry[s]
  \/ \E x \in DOMAIN direct : /\ e = direct[x]
                              /\ \E h \in 1..k : x = SubSeq(b, 1, h) /\ h <= Len(b)
  \/ First(codes, b) = {} /\ (e = oldLong \/ \E q \in Bits(k) : e = old[q])

\* The short codes have an entry each; an entry is one of these or an old one.
ShortIn(codes, k, direct) ==
  \A s \in Used(codes) : Len(codes[s]) <= k => codes[s] \in DOMAIN direct
\* An entry of the first k bits is one that was written or one that was there.
DirectOrOld(k, direct, old, e) ==
  (\E x \in DOMAIN direct : e = direct[x]) \/ (\E q \in Bits(k) : e = old[q])

\* Bits whose first k are a link: the long part has the code's own entry or an
\* old one.
LEMMA LongLookUp ==
  ASSUME NEW m \in Nat, NEW max \in Nat, NEW codes, CodeOK(codes, m, max),
         NEW k \in Nat \ {0}, k <= max, NEW direct, NEW entry, NEW old, NEW oldLong,
         NEW b \in BitSeqs, Len(b) = max, NEW p, Piece(b, 0, k, p),
         LongOnes(codes, k, p) # {}, NEW t, t = LongPart(codes, entry, k, p, oldLong)
  PROVE  /\ t.kind = "long"
         /\ Looked(codes, k, direct, entry, old, oldLong, b, t.part[SubSeq(b, k + 1, t.len)])
<1>1. PICK S : S = LongOnes(codes, k, p)
  OBVIOUS
<1>2. /\ p \in BitSeqs /\ Len(p) = k /\ \A z \in 1..k : p[z] = b[z]
  <2>1. k - 0 = k /\ \A z \in 1..k : 0 + z = z
    OBVIOUS
  <2>2. QED BY <2>1 DEF Piece
<1>3. ASSUME NEW x \in S
      PROVE  /\ x \in 0..(m - 1) /\ codes[x] \in BitSeqs /\ Len(codes[x]) \in Nat
             /\ Len(codes[x]) > k /\ Len(codes[x]) <= max /\ IsPrefixOf(p, codes[x])
             /\ codes[x] # <<>> /\ x \in Used(codes)
  <2>1. x \in DOMAIN codes /\ Len(codes[x]) > k /\ IsPrefixOf(p, codes[x])
    BY <1>1 DEF LongOnes
  <2>2. x \in 0..(m - 1) /\ codes[x] \in BitSeqs /\ Len(codes[x]) <= max
    BY <2>1 DEF CodeOK
  <2>3. Len(codes[x]) \in Nat /\ codes[x] # <<>>
    BY <2>1, <2>2 DEF BitSeqs
  <2>4. QED BY <2>1, <2>2, <2>3 DEF Used
<1>4. PICK l \in Nat : /\ l = LongestOf(codes, S) /\ l > k /\ l <= max
                       /\ \A x \in S : Len(codes[x]) <= l
  <2>1. PICK T : T = {Len(codes[x]) : x \in S}
    OBVIOUS
  <2>2. T \in SUBSET (0..max) /\ T # {}
    <3>1. \A x \in S : Len(codes[x]) \in 0..max
      BY <1>3
    <3>2. QED BY <1>1, <2>1, <3>1
  <2>3. Max(T) \in T /\ \A z \in T : z <= Max(T)
    BY <2>2, GreatestElement
  <2>4. PICK x \in S : Max(T) = Len(codes[x])
    BY <2>1, <2>3
  <2>5. Max(T) \in Nat /\ Max(T) > k /\ Max(T) <= max
    BY <1>3, <2>4
  <2>6. \A y \in S : Len(codes[y]) <= Max(T)
    BY <2>1, <2>3
  <2>7. Max(T) = LongestOf(codes, S)
    BY <2>1 DEF LongestOf
  <2>8. QED BY <2>5, <2>6, <2>7
<1>5. PICK part : part = [c \in Bits(l - k) |->
                            IF {x \in S : IsPrefixOf(codes[x], p \o c)} = {} THEN oldLong
                            ELSE entry[Min({x \in S : IsPrefixOf(codes[x], p \o c)})]]
  OBVIOUS
<1>6. t = Longer(l, part)
  BY <1>1, <1>4, <1>5 DEF LongPart
<1>7. t.kind = "long" /\ t.len = l /\ t.part = part
  BY <1>6 DEF Longer
<1>8. PICK c : c = SubSeq(b, k + 1, l)
  OBVIOUS
<1>9. Piece(b, k, l, c)
  <2>1. k \in Nat /\ k <= l /\ l <= Len(b)
    BY <1>4
  <2>2. QED BY <1>8, <2>1, PieceFacts
<1>10. /\ c \in BitSeqs /\ c \in Bits(l - k) /\ Len(c) = l - k
       /\ \A z \in 1..(l - k) : c[z] = b[k + z]
  BY <1>9 DEF Piece
<1>11. PICK W : W = {x \in S : IsPrefixOf(codes[x], p \o c)}
  OBVIOUS
<1>12. part[c] = IF W = {} THEN oldLong ELSE entry[Min(W)]
  BY <1>5, <1>10, <1>11
<1>13. PICK d : d = p \o c
  OBVIOUS
<1>14. Len(d) = l /\ \A z \in 1..l : d[z] = b[z]
  <2>1. /\ Len(d) = k + (l - k) /\ \A z \in 1..k : d[z] = p[z]
        /\ \A z \in 1..(l - k) : d[k + z] = c[z]
    <3>1. Joint(p, c, d)
      BY <1>2, <1>10, <1>13, ConcatParts
    <3>2. QED BY <1>2, <1>10, <3>1 DEF Joint
  <2>2. k + (l - k) = l
    BY <1>4
  <2>3. ASSUME NEW z \in 1..l PROVE d[z] = b[z]
    <3>1. CASE z <= k
      BY <1>2, <2>1, <3>1
    <3>2. CASE z > k
      <4>1. PICK y \in 1..(l - k) : z = k + y
        <5>1. z - k \in 1..(l - k) /\ z = k + (z - k)
          BY <1>4, <3>2
        <5>2. QED BY <5>1
      <4>2. QED BY <1>10, <2>1, <4>1
    <3>3. QED BY <3>1, <3>2
  <2>4. QED BY <2>1, <2>2, <2>3
<1>15. ASSUME NEW x \in S PROVE IsPrefixOf(codes[x], d) <=> IsPrefixOf(codes[x], b)
  <2>1. Len(codes[x]) \in Nat /\ Len(codes[x]) <= l /\ l <= Len(b)
    BY <1>3, <1>4
  <2>2. \A z \in 1..Len(codes[x]) : d[z] = b[z]
    BY <1>14, <2>1, <1>4
  <2>3. Len(codes[x]) <= Len(d) /\ Len(codes[x]) <= Len(b)
    BY <1>4, <1>14, <2>1
  <2>4. QED BY <2>2, <2>3 DEF IsPrefixOf
<1>16. ASSUME NEW x \in First(codes, b) PROVE x \in W
  <2>1. OneCode(codes, m, b, x)
    BY OnlyFirst
  <2>2. x \in 0..(m - 1) /\ codes[x] \in BitSeqs /\ codes[x] # <<>> /\ IsPrefixOf(codes[x], b)
        /\ Len(codes[x]) \in Nat /\ x \in DOMAIN codes
    BY <2>1 DEF OneCode, CodeOK
  <2>3. \A z \in 1..Len(codes[x]) : codes[x][z] = b[z]
    BY <2>2 DEF IsPrefixOf
  <2>4. CASE Len(codes[x]) > k
    <3>1. ASSUME NEW z \in 1..k PROVE p[z] = codes[x][z]
      <4>1. z \in 1..Len(codes[x])
        BY <2>2, <2>4
      <4>2. QED BY <1>2, <2>3, <4>1
    <3>2. IsPrefixOf(p, codes[x])
      BY <1>2, <2>2, <2>4, <3>1 DEF IsPrefixOf
    <3>3. x \in S
      BY <1>1, <2>2, <2>4, <3>2 DEF LongOnes
    <3>4. QED BY <1>11, <1>13, <1>15, <2>2, <3>3
  <2>5. CASE Len(codes[x]) <= k
    <3>1. PICK y \in S : TRUE
      BY <1>1
    <3>2. y # x
      BY <1>3, <2>2, <2>5
    <3>3. ASSUME NEW z \in 1..Len(codes[x]) PROVE codes[x][z] = codes[y][z]
      <4>1. z \in 1..k
        BY <2>2, <2>5
      <4>2. p[z] = codes[y][z]
        BY <1>2, <1>3, <4>1 DEF IsPrefixOf
      <4>3. QED BY <1>2, <2>3, <4>1, <4>2
    <3>4. IsPrefixOf(codes[x], codes[y])
      <4>1. Len(codes[x]) <= Len(codes[y])
        BY <1>3, <2>2, <2>5
      <4>2. QED BY <3>3, <4>1 DEF IsPrefixOf
    <3>5. QED BY <1>3, <2>2, <3>2, <3>4 DEF CodeOK
  <2>6. QED BY <2>2, <2>4, <2>5
<1>17. CASE W = {}
  <2>1. First(codes, b) = {}
    BY <1>16, <1>17
  <2>2. part[c] = oldLong
    BY <1>12, <1>17
  <2>3. QED BY <1>7, <1>8, <2>1, <2>2 DEF Looked
<1>18. CASE W # {}
  <2>1. W \in SUBSET Nat
    BY <1>3, <1>11
  <2>2. Min(W) \in W
    <3>1. PICK y \in W : \A z \in W : y <= z
      BY <1>18, <2>1, LeastElement
    <3>2. QED BY <3>1 DEF Min
  <2>3. Min(W) \in First(codes, b)
    BY <1>3, <1>11, <1>13, <1>15, <2>2 DEF First
  <2>4. part[c] = entry[Min(W)]
    BY <1>12, <1>18
  <2>5. QED BY <1>7, <1>8, <2>3, <2>4 DEF Looked
<1>19. QED BY <1>17, <1>18

\* Bits whose first k are no link.
LEMMA ShortLookUp ==
  ASSUME NEW m \in Nat, NEW max \in Nat, NEW codes, CodeOK(codes, m, max),
         NEW k \in Nat \ {0}, k <= max, NEW direct, NEW entry, NEW old, NEW oldLong,
         ShortIn(codes, k, direct),
         Used(codes) # {},
         NEW b \in BitSeqs, Len(b) = max, NEW p, p = SubSeq(b, 1, k), Piece(b, 0, k, p),
         LongOnes(codes, k, p) = {},
         NEW t, t = Doubled(old, k, Shortest(codes), direct)[p]
  PROVE  /\ Looked(codes, k, direct, entry, old, oldLong, b, t)
         /\ DirectOrOld(k, direct, old, t)
<1>1. /\ p \in BitSeqs /\ p \in Bits(k) /\ Len(p) = k /\ \A z \in 1..k : p[z] = b[z]
  <2>1. k - 0 = k /\ \A z \in 1..k : 0 + z = z
    OBVIOUS
  <2>2. QED BY <2>1 DEF Piece
<1>2. ASSUME NEW s \in Used(codes)
      PROVE  s \in 0..(m - 1) /\ codes[s] \in BitSeqs /\ Len(codes[s]) \in Nat \ {0}
             /\ codes[s] # <<>>
  <2>1. s \in 0..(m - 1) /\ codes[s] \in BitSeqs /\ codes[s] # <<>>
    BY DEF Used, CodeOK
  <2>2. QED BY <2>1 DEF BitSeqs
<1>3. Shortest(codes) \in Nat \ {0} /\ \A s \in Used(codes) : Shortest(codes) <= Len(codes[s])
  <2>1. PICK T : T = {Len(codes[s]) : s \in Used(codes)}
    OBVIOUS
  <2>2. T \in SUBSET Nat /\ T # {} /\ 0 \notin T
    BY <1>2, <2>1
  <2>3. PICK y \in T : \A z \in T : y <= z
    BY <2>2, LeastElement
  <2>4. Min(T) \in T /\ \A z \in T : Min(T) <= z
    BY <2>3 DEF Min
  <2>5. Shortest(codes) = Min(T)
    BY <2>1 DEF Shortest
  <2>6. QED BY <2>1, <2>2, <2>4, <2>5
<1>4. PICK F : F = {h \in Shortest(codes)..k : SubSeq(p, 1, h) \in DOMAIN direct}
  OBVIOUS
<1>5. PICK q : q = [z \in 1..k |-> IF z < Shortest(codes) THEN p[z] ELSE 0]
  OBVIOUS
<1>6. t = IF F = {} THEN old[q] ELSE direct[SubSeq(p, 1, Max(F))]
  BY <1>1, <1>4, <1>5 DEF Doubled
<1>7. ASSUME NEW h \in 1..k PROVE SubSeq(p, 1, h) = SubSeq(b, 1, h)
  <2>1. PICK x, y : x = SubSeq(p, 1, h) /\ y = SubSeq(b, 1, h)
    OBVIOUS
  <2>2. h \in Nat /\ h <= Len(p) /\ h <= Len(b) /\ 1 = 0 + 1
    BY <1>1
  <2>3. Piece(p, 0, h, x) /\ Piece(b, 0, h, y)
    <3>1. Piece(p, 0, h, x)
      BY <1>1, <2>1, <2>2, FrontFacts
    <3>2. Piece(b, 0, h, y)
      BY <2>1, <2>2, FrontFacts
    <3>3. QED BY <3>1, <3>2
  <2>4. h - 0 = h /\ \A z \in 1..h : 0 + z = z
    OBVIOUS
  <2>5. /\ x \in [1..h -> {0, 1}] /\ \A z \in 1..h : x[z] = p[z]
        /\ y \in [1..h -> {0, 1}] /\ \A z \in 1..h : y[z] = b[z]
    BY <2>3, <2>4 DEF Piece, Bits
  <2>6. ASSUME NEW z \in 1..h PROVE x[z] = y[z]
    <3>1. z \in 1..k
      OBVIOUS
    <3>2. QED BY <1>1, <2>5, <3>1
  <2>7. x = y
    BY <2>5, <2>6
  <2>8. QED BY <2>1, <2>7
<1>8. CASE F = {}
  <2>1. ASSUME NEW s \in First(codes, b) PROVE FALSE
    <3>1. OneCode(codes, m, b, s) /\ s \in Used(codes)
      BY OnlyFirst DEF First
    <3>2. codes[s] \in BitSeqs /\ IsPrefixOf(codes[s], b)
          /\ Len(codes[s]) \in Nat \ {0} /\ s \in DOMAIN codes
      BY <3>1 DEF OneCode, CodeOK
    <3>3. \A z \in 1..Len(codes[s]) : codes[s][z] = b[z]
      BY <3>2 DEF IsPrefixOf
    <3>4. CASE Len(codes[s]) > k
      <4>1. ASSUME NEW z \in 1..k PROVE p[z] = codes[s][z]
        <5>1. z \in 1..Len(codes[s])
          BY <3>2, <3>4
        <5>2. QED BY <1>1, <3>3, <5>1
      <4>2. IsPrefixOf(p, codes[s])
        BY <1>1, <3>2, <3>4, <4>1 DEF IsPrefixOf
      <4>3. s \in LongOnes(codes, k, p)
        BY <3>2, <3>4, <4>2 DEF LongOnes
      <4>4. QED BY <4>3
    <3>5. CASE Len(codes[s]) <= k
      <4>1. PICK h \in 1..k : h = Len(codes[s])
        BY <3>2, <3>5
      <4>2. PICK x : x = SubSeq(b, 1, h)
        OBVIOUS
      <4>3. Piece(b, 0, h, x)
        <5>1. h \in Nat /\ h <= Len(b) /\ 1 = 0 + 1
          OBVIOUS
        <5>2. QED BY <4>2, <5>1, FrontFacts
      <4>4. h - 0 = h /\ \A z \in 1..h : 0 + z = z
        OBVIOUS
      <4>5. x \in [1..h -> {0, 1}] /\ \A z \in 1..h : x[z] = b[z]
        BY <4>3, <4>4 DEF Piece, Bits
      <4>6. codes[s] \in [1..h -> {0, 1}]
        BY <3>2, <4>1 DEF BitSeqs
      <4>7. x = codes[s]
        BY <3>3, <4>1, <4>5, <4>6
      <4>8. SubSeq(p, 1, h) \in DOMAIN direct
        BY <1>7, <3>1, <3>5, <4>2, <4>7 DEF ShortIn
      <4>9. h \in Shortest(codes)..k
        BY <1>3, <3>1, <4>1
      <4>10. QED BY <1>4, <1>8, <4>8, <4>9
    <3>6. QED BY <3>2, <3>4, <3>5
  <2>2. ASSUME NEW z \in 1..k PROVE (IF z < Shortest(codes) THEN p[z] ELSE 0) \in {0, 1}
    BY <1>1 DEF Bits
  <2>3. q \in Bits(k)
    BY <1>5, <2>2 DEF Bits
  <2>4. t = old[q]
    BY <1>6, <1>8
  <2>5. First(codes, b) = {}
    BY <2>1
  <2>6. QED BY <2>3, <2>4, <2>5 DEF Looked, DirectOrOld
<1>9. CASE F # {}
  <2>1. F \in SUBSET (0..k)
    BY <1>3, <1>4
  <2>2. Max(F) \in F
    BY <1>9, <2>1, GreatestElement
  <2>3. PICK h \in 1..k : h = Max(F) /\ SubSeq(p, 1, h) \in DOMAIN direct
    <3>1. Max(F) \in Shortest(codes)..k /\ SubSeq(p, 1, Max(F)) \in DOMAIN direct
      BY <1>4, <2>2
    <3>2. Max(F) \in 1..k
      BY <1>3, <3>1
    <3>3. QED BY <3>1, <3>2
  <2>4. PICK x \in DOMAIN direct : x = SubSeq(b, 1, h) /\ t = direct[x]
    BY <1>6, <1>7, <1>9, <2>3
  <2>5. h <= Len(b)
    OBVIOUS
  <2>6. QED BY <2>4, <2>5 DEF Looked, DirectOrOld
<1>10. QED BY <1>8, <1>9

\* All that a lookup may find.
LEMMA LookedUp ==
  ASSUME NEW m \in Nat, NEW max \in Nat, NEW codes, CodeOK(codes, m, max),
         NEW k \in Nat \ {0}, k <= max, NEW direct, NEW entry, NEW old, NEW oldLong,
         ShortIn(codes, k, direct),
         Used(codes) # {}, \A x \in DOMAIN direct : direct[x].kind = "code",
         \A q \in Bits(k) : old[q].kind = "code", NEW b \in Bits(max),
         NEW t, t = TableOf(codes, k, direct, entry, old, oldLong)
  PROVE  Looked(codes, k, direct, entry, old, oldLong, b, LookUp(t, k, b))
<1>1. b \in BitSeqs /\ Len(b) = max
  <2>1. PICK B : B = {0, 1}
    OBVIOUS
  <2>2. b \in [1..max -> B]
    BY <2>1 DEF Bits
  <2>3. b \in Seq(B) /\ Len(b) = max
    BY <2>2
  <2>4. QED BY <2>1, <2>3 DEF BitSeqs
<1>2. PICK p : p = SubSeq(b, 1, k)
  OBVIOUS
<1>3. Piece(b, 0, k, p)
  <2>1. k \in Nat /\ 0 <= k /\ k <= Len(b) /\ 1 = 0 + 1
    BY <1>1
  <2>2. QED BY <1>1, <1>2, <2>1, FrontFacts
<1>4. p \in Bits(k)
  <2>1. k - 0 = k
    OBVIOUS
  <2>2. QED BY <1>3, <2>1 DEF Piece
<1>5. PICK d : d = Doubled(old, k, Shortest(codes), direct)
  OBVIOUS
<1>6. t[p] = IF LongOnes(codes, k, p) = {} THEN d[p] ELSE LongPart(codes, entry, k, p, oldLong)
  BY <1>4, <1>5 DEF TableOf, WithLong
<1>7. LookUp(t, k, b) = IF t[p].kind = "long" THEN t[p].part[SubSeq(b, k + 1, t[p].len)] ELSE t[p]
  BY <1>2 DEF LookUp
<1>8. CASE LongOnes(codes, k, p) # {}
  <2>1. t[p] = LongPart(codes, entry, k, p, oldLong)
    BY <1>6, <1>8
  <2>2. /\ t[p].kind = "long"
        /\ Looked(codes, k, direct, entry, old, oldLong, b, t[p].part[SubSeq(b, k + 1, t[p].len)])
    BY ONLY <1>1, <1>3, <1>8, <2>1, LongLookUp, m \in Nat, max \in Nat, CodeOK(codes, m, max),
       k \in Nat \ {0}, k <= max, Zenon
  <2>3. QED BY <1>7, <2>2
<1>9. CASE LongOnes(codes, k, p) = {}
  <2>1. t[p] = d[p]
    BY <1>6, <1>9
  <2>2. /\ Looked(codes, k, direct, entry, old, oldLong, b, d[p])
        /\ DirectOrOld(k, direct, old, d[p])
    <3>1. d[p] = Doubled(old, k, Shortest(codes), direct)[p]
      BY <1>5
    <3>2. QED
    BY ONLY <1>1, <1>2, <1>3, <1>9, <3>1, ShortLookUp, m \in Nat, max \in Nat,
       CodeOK(codes, m, max), k \in Nat \ {0}, k <= max, Used(codes) # {},
       ShortIn(codes, k, direct), Zenon
  <2>3. d[p].kind = "code"
    BY <2>2 DEF DirectOrOld
  <2>4. QED BY <1>7, <2>1, <2>2, <2>3
<1>10. QED BY <1>8, <1>9

-----------------------------------------------------------------------------
(***************************************************************************)
(* The reference, one symbol after the other.                              *)
(***************************************************************************)
\* What is read, and what is left of the bits, after one more symbol.
Reads(codes, r, sym) ==
  IF \E s \in First(codes, r.rest) : r.ok /\ IndexToSym(s) = sym
  THEN [r EXCEPT !.rest =
          SubSeq(@, Len(codes[CHOOSE s \in First(codes, @) : TRUE]) + 1, Len(@))]
  ELSE [r EXCEPT !.ok = FALSE]

\* Before the first symbol.
Unread(b) == [ok |-> TRUE, rest |-> b]

\* g, one symbol further.
Further(codes, b, y, D, g) ==
  [s \in SUBSET D |-> IF s = {} THEN Unread(b)
                      ELSE Reads(codes, g[s \ {Max(s)}], y[Max(s)])]

\* f has what is read after each of the symbols of y at places in D.
ReadingOf(codes, b, y, D, f) ==
  f = [s \in SUBSET D |-> IF s = {} THEN [ok |-> TRUE, rest |-> b]
                          ELSE Reads(codes, f[s \ {Max(s)}], y[Max(s)])]
\* What is read after all of them.
ReadAll(codes, b, y) == (CHOOSE f : ReadingOf(codes, b, y, DOMAIN y, f))[DOMAIN y]

\* The symbols of entry e were read, in as many bits as it says.
Decoded(b, e, r) ==
  /\ r.ok /\ Len(b) - Len(r.rest) = e.len
  /\ e.syms # <<>> /\ \A k \in 1..(Len(e.syms) - 1) : e.syms[k] < EndOfBlock

\* The reference reads the bits in this way.
LEMMA DecodeIs ==
  ASSUME NEW codes, NEW b, NEW e
  PROVE  IsDecode(codes, b, e) <=> Decoded(b, e, ReadAll(codes, b, e.syms))
BY DEF IsDecode, Decoded, ReadAll, ReadingOf, Reads, FoldLeft, MapThenFoldSet

\* g and h agree on sets of places up to k.
SameUpTo(D, k, g, h) == \A s \in SUBSET D : s \in SUBSET (1..k) => g[s] = h[s]

\* Where two readings agree up to k, what goes on from them agrees up to k + 1.
LEMMA FurtherAgain ==
  ASSUME NEW k \in Nat, NEW D, NEW codes, NEW b, NEW y, NEW g, NEW h, D \in SUBSET Nat,
         SameUpTo(D, k, g, h), NEW x, x = k + 1,
         NEW f, NEW d, f = Further(codes, b, y, D, g), d = Further(codes, b, y, D, h)
  PROVE  SameUpTo(D, x, f, d)
<1>1. ASSUME NEW s \in SUBSET D, s \in SUBSET (1..(k + 1)), s # {}
      PROVE  g[s \ {Max(s)}] = h[s \ {Max(s)}]
  <2>1. s \in SUBSET (0..(k + 1)) /\ k + 1 \in Nat
    BY <1>1
  <2>2. Max(s) \in s /\ \A z \in s : z <= Max(s)
    BY <1>1, <2>1, GreatestElement
  <2>3. PICK t \in 1..(k + 1) : t = Max(s)
    BY <1>1, <2>2
  <2>4. ASSUME NEW z \in s \ {t} PROVE z \in 1..k
    <3>1. z \in 1..(k + 1) /\ z <= t /\ z # t
      BY <1>1, <2>2, <2>3
    <3>2. QED BY <3>1
  <2>5. s \ {t} \in SUBSET D /\ s \ {t} \in SUBSET (1..k)
    BY <2>4
  <2>6. QED BY <2>3, <2>5 DEF SameUpTo
<1>2. QED BY <1>1 DEF Further, SameUpTo

\* It reads up to three symbols.
LEMMA ReadingExists ==
  ASSUME NEW z \in 1..3, NEW codes, NEW b, NEW y
  PROVE  \E f : ReadingOf(codes, b, y, 1..z, f)
<1>1. PICK D : D = 1..z
  OBVIOUS
<1>2. D \in SUBSET Nat /\ D \in SUBSET (1..3)
  BY <1>1
<1>3. PICK g, h, f, d : /\ g = Further(codes, b, y, D, <<>>) /\ h = Further(codes, b, y, D, g)
                        /\ f = Further(codes, b, y, D, h) /\ d = Further(codes, b, y, D, f)
  OBVIOUS
<1>4. SameUpTo(D, 0, g, h)
  <2>1. 1..0 = {}
    OBVIOUS
  <2>2. QED BY <1>3, <2>1 DEF Further, SameUpTo
<1>5. SameUpTo(D, 1, h, f)
  <2>1. 0 \in Nat /\ 1 = 0 + 1
    OBVIOUS
  <2>2. QED BY ONLY <1>2, <1>3, <1>4, <2>1, FurtherAgain, Zenon
<1>6. SameUpTo(D, 2, f, d)
  <2>1. 1 \in Nat /\ 2 = 1 + 1
    OBVIOUS
  <2>2. QED BY ONLY <1>2, <1>3, <1>5, <2>1, FurtherAgain, Zenon
<1>7. PICK c : c = Further(codes, b, y, D, d)
  OBVIOUS
<1>8. SameUpTo(D, 3, d, c)
  <2>1. 2 \in Nat /\ 3 = 2 + 1
    OBVIOUS
  <2>2. QED BY ONLY <1>2, <1>3, <1>6, <1>7, <2>1, FurtherAgain, Zenon
<1>9. \A s \in SUBSET D : d[s] = c[s]
  BY <1>2, <1>8 DEF SameUpTo
<1>10. d = c
  <2>1. d = [s \in SUBSET D |-> d[s]] /\ c = [s \in SUBSET D |-> c[s]]
    BY <1>3, <1>7 DEF Further
  <2>2. QED BY <1>9, <2>1
<1>11. ReadingOf(codes, b, y, D, d)
  <2>1. d = Further(codes, b, y, D, d)
    BY <1>7, <1>10
  <2>2. QED BY <2>1 DEF Further, ReadingOf, Unread
<1>12. QED BY <1>1, <1>11

\* The last place of the first k.
LEMMA InitialPart ==
  ASSUME NEW k \in Nat \ {0}
  PROVE  /\ 1..k # {} /\ (1..k) \ {k} = 1..(k - 1) /\ Max(1..k) = k
         /\ \A z \in Nat : k \in 1..z => 1..k \in SUBSET (1..z)
<1>1. k \in 1..k /\ 1..k \in SUBSET (0..k)
  OBVIOUS
<1>2. Max(1..k) \in 1..k /\ \A x \in 1..k : x <= Max(1..k)
  BY <1>1, GreatestElement
<1>3. Max(1..k) = k
  BY <1>1, <1>2
<1>4. ASSUME NEW x \in 1..k, x # k PROVE x \in 1..(k - 1)
  <2>1. x \in Nat /\ 1 <= x /\ x < k
    BY <1>4
  <2>2. QED BY <2>1
<1>5. ASSUME NEW x \in 1..(k - 1) PROVE x \in 1..k /\ x # k
  OBVIOUS
<1>6. (1..k) \ {k} = 1..(k - 1)
  BY <1>4, <1>5
<1>7. ASSUME NEW z \in Nat, k \in 1..z PROVE 1..k \in SUBSET (1..z)
  BY <1>7
<1>8. QED BY <1>1, <1>3, <1>6, <1>7

\* r[k] is what has been read after k symbols.
StepsOf(codes, b, y, z, r) ==
  r[0] = Unread(b) /\ \A k \in 1..z : r[k] = Reads(codes, r[k - 1], y[k])

\* The reference, one symbol after the other.
LEMMA ReadSteps ==
  ASSUME NEW z \in 1..3, NEW codes, NEW b, NEW y, DOMAIN y = 1..z,
         NEW r, StepsOf(codes, b, y, z, r)
  PROVE  ReadAll(codes, b, y) = r[z]
<1>1. PICK D : D = 1..z
  OBVIOUS
<1>2. PICK f : f = CHOOSE x : ReadingOf(codes, b, y, D, x)
  OBVIOUS
<1>3. ReadingOf(codes, b, y, D, f)
  <2>1. \E x : ReadingOf(codes, b, y, D, x)
    BY <1>1, ReadingExists
  <2>2. QED BY <1>2, <2>1
<1>4. \A s \in SUBSET D : f[s] = IF s = {} THEN Unread(b)
                                 ELSE Reads(codes, f[s \ {Max(s)}], y[Max(s)])
  BY <1>3 DEF ReadingOf, Unread
<1>5. f[{}] = r[0]
  BY <1>4 DEF StepsOf
<1>6. ASSUME NEW k \in 1..z PROVE f[1..k] = Reads(codes, f[1..(k - 1)], y[k])
  <2>1. PICK s : s = 1..k
    OBVIOUS
  <2>2. k \in Nat \ {0} /\ k \in 1..z
    OBVIOUS
  <2>3. s \in SUBSET (1..z) /\ s # {}
    BY <2>1, <2>2, InitialPart
  <2>4. Max(s) = k /\ s \ {k} = 1..(k - 1)
    BY <2>1, <2>2, InitialPart
  <2>5. QED BY <1>1, <1>4, <2>1, <2>3, <2>4
<1>7. \A k \in 1..z : r[k] = Reads(codes, r[k - 1], y[k])
  BY DEF StepsOf
<1>8. f[1..1] = r[1]
  <2>1. 1 \in 1..z /\ 1 - 1 = 0 /\ 1..0 = {}
    OBVIOUS
  <2>2. f[1..1] = Reads(codes, f[1..(1 - 1)], y[1]) /\ r[1] = Reads(codes, r[1 - 1], y[1])
    BY <1>6, <1>7, <2>1
  <2>3. f[1..(1 - 1)] = r[1 - 1]
    BY <1>5, <2>1
  <2>4. QED BY <2>2, <2>3
<1>9. z >= 2 => f[1..2] = r[2]
  <2>1. z >= 2 => 2 \in 1..z
    OBVIOUS
  <2>2. 2 - 1 = 1
    OBVIOUS
  <2>3. QED BY <1>6, <1>7, <1>8, <2>1, <2>2
<1>10. z >= 3 => f[1..3] = r[3]
  <2>1. z >= 3 => 3 \in 1..z /\ z >= 2
    OBVIOUS
  <2>2. 3 - 1 = 2
    OBVIOUS
  <2>3. QED BY <1>6, <1>7, <1>9, <2>1, <2>2
<1>11. z = 1 \/ z = 2 \/ z = 3
  OBVIOUS
<1>12. f[D] = r[z]
  <2>1. CASE z = 1
    BY <1>1, <1>8, <2>1
  <2>2. CASE z = 2
    BY <1>1, <1>9, <2>2
  <2>3. CASE z = 3
    BY <1>1, <1>10, <2>3
  <2>4. QED BY <1>11, <2>1, <2>2, <2>3
<1>13. ReadAll(codes, b, y) = f[D]
  BY <1>1, <1>2 DEF ReadAll
<1>14. QED BY <1>12, <1>13

\* Behind its code the reference goes on.
ReadsTo(codes, u, x, v) == Reads(codes, Unread(u), IndexToSym(x)) = Unread(v)

\* From bits that are a code and what is behind it, it reads the code's symbol.
LEMMA ReadsOne ==
  ASSUME NEW m \in Nat, NEW max, NEW codes, CodeOK(codes, m, max), NEW x \in Used(codes),
         NEW v \in BitSeqs, NEW u, u = codes[x] \o v
  PROVE  ReadsTo(codes, u, x, v)
<1>1. x \in 0..(m - 1) /\ codes[x] \in BitSeqs /\ codes[x] # <<>>
  BY DEF Used, CodeOK
<1>2. PICK a \in BitSeqs : a = codes[x]
  BY <1>1
<1>3. /\ u \in BitSeqs /\ Len(a) \in Nat /\ Len(v) \in Nat /\ Len(u) = Len(a) + Len(v)
      /\ \A k \in 1..Len(a) : u[k] = a[k]
      /\ \A k \in 1..Len(v) : u[Len(a) + k] = v[k]
  <2>1. Joint(a, v, u)
    BY <1>2, ConcatParts
  <2>2. QED BY <2>1 DEF Joint
<1>4. IsPrefixOf(a, u)
  BY <1>3 DEF IsPrefixOf
<1>5. x \in First(codes, u)
  BY <1>2, <1>4 DEF First
<1>6. OneCode(codes, m, u, x)
  BY <1>5, OnlyFirst
<1>7. First(codes, u) = {x}
  BY <1>6 DEF OneCode
<1>8. (CHOOSE s \in First(codes, u) : TRUE) = x
  BY <1>7
<1>9. SubSeq(u, Len(a) + 1, Len(u)) = v
  <2>1. PICK p \in Nat, q \in Nat : p = Len(a) /\ q = Len(u) /\ p <= q /\ q <= Len(u) /\ q - p = Len(v)
    BY <1>3
  <2>2. PICK c : c = SubSeq(u, p + 1, q)
    OBVIOUS
  <2>3. Piece(u, p, q, c)
    BY <1>3, <2>1, <2>2, PieceFacts
  <2>4. c \in [1..(q - p) -> {0, 1}] /\ \A k \in 1..(q - p) : c[k] = u[p + k]
    BY <2>3 DEF Piece, Bits
  <2>5. v \in [1..(q - p) -> {0, 1}]
    BY <2>1, LenProperties DEF BitSeqs
  <2>6. \A k \in 1..(q - p) : c[k] = v[k]
    BY <1>3, <2>1, <2>4
  <2>7. c = v
    BY <2>4, <2>5, <2>6
  <2>8. QED BY <2>1, <2>2, <2>7
<1>10. PICK r : r = Unread(u)
  OBVIOUS
<1>11. r.rest = u /\ r.ok = TRUE /\ r = [ok |-> TRUE, rest |-> u]
  BY <1>10 DEF Unread
<1>12. Reads(codes, r, IndexToSym(x)) = [r EXCEPT !.rest = v]
  <2>1. \E s \in First(codes, r.rest) : r.ok /\ IndexToSym(s) = IndexToSym(x)
    BY <1>5, <1>11
  <2>2. SubSeq(r.rest, Len(codes[CHOOSE s \in First(codes, r.rest) : TRUE]) + 1, Len(r.rest))
          = v
    BY <1>2, <1>8, <1>9, <1>11
  <2>3. QED BY <2>1, <2>2 DEF Reads
<1>13. [r EXCEPT !.rest = v] = Unread(v)
  <2>1. ASSUME NEW o PROVE [[ok |-> o, rest |-> u] EXCEPT !.rest = v] = [ok |-> o, rest |-> v]
    OBVIOUS
  <2>2. [[ok |-> TRUE, rest |-> u] EXCEPT !.rest = v] = [ok |-> TRUE, rest |-> v]
    BY <2>1, Zenon
  <2>3. QED BY ONLY <1>10, <2>2, Zenon DEF Unread
<1>14. QED BY <1>10, <1>12, <1>13 DEF ReadsTo

\* rest[k] is behind the code of the k-th of the z symbols xs.
Splits(codes, b, xs, z, rest) ==
  /\ rest[0] = b
  /\ \A k \in 0..z : rest[k] \in BitSeqs
  /\ \A k \in 1..z : xs[k] \in Used(codes) /\ rest[k - 1] = codes[xs[k]] \o rest[k]

\* So it reads the symbols whose codes the bits are split into.
LEMMA SplitDecodes ==
  ASSUME NEW m \in Nat, NEW max, NEW codes, CodeOK(codes, m, max), NEW z \in 1..3,
         NEW b, NEW xs, NEW rest, Splits(codes, b, xs, z, rest), NEW e,
         DOMAIN e.syms = 1..z, Len(e.syms) = z, e.syms # <<>>,
         \A k \in 1..z : e.syms[k] = IndexToSym(xs[k]),
         \A k \in 1..(z - 1) : e.syms[k] < EndOfBlock,
         Len(b) - Len(rest[z]) = e.len
  PROVE  IsDecode(codes, b, e)
<1>1. PICK y : y = e.syms
  OBVIOUS
<1>2. PICK r : r = [k \in 0..z |-> Unread(rest[k])]
  OBVIOUS
<1>3. ASSUME NEW k \in 1..z PROVE r[k] = Reads(codes, r[k - 1], y[k])
  <2>1. k \in 0..z /\ k - 1 \in 0..z
    OBVIOUS
  <2>2. r[k] = Unread(rest[k]) /\ r[k - 1] = Unread(rest[k - 1])
    BY <1>2, <2>1
  <2>3. PICK x \in Used(codes), v \in BitSeqs, u \in BitSeqs :
          x = xs[k] /\ v = rest[k] /\ u = rest[k - 1] /\ u = codes[x] \o v
    BY <2>1 DEF Splits
  <2>4. Reads(codes, Unread(u), IndexToSym(x)) = Unread(v)
    <3>1. x \in Used(codes) /\ v \in BitSeqs /\ u = codes[x] \o v
      BY <2>3
    <3>2. ReadsTo(codes, u, x, v)
      BY <3>1, ReadsOne
    <3>3. QED BY <3>2 DEF ReadsTo
  <2>5. y[k] = IndexToSym(x)
    BY <1>1, <2>3
  <2>6. QED BY <2>2, <2>3, <2>4, <2>5
<1>4. r[0] = Unread(b)
  <2>1. 0 \in 0..z
    OBVIOUS
  <2>2. QED BY <1>2, <2>1 DEF Splits
<1>5. StepsOf(codes, b, y, z, r)
  BY <1>3, <1>4 DEF StepsOf
<1>6. ReadAll(codes, b, y) = r[z]
  <2>1. DOMAIN y = 1..z
    BY <1>1
  <2>2. QED BY ONLY <1>5, <2>1, z \in 1..3, ReadSteps, Zenon
<1>7. z \in 0..z
  OBVIOUS
<1>8. r[z].ok /\ r[z].rest = rest[z]
  BY <1>2, <1>7 DEF Unread
<1>9. Decoded(b, e, r[z])
  BY <1>8 DEF Decoded
<1>10. Decoded(b, e, ReadAll(codes, b, e.syms))
  BY <1>1, <1>6, <1>9
<1>11. QED BY <1>10, DecodeIs

\* What begins with a goes on with v.
GoesOn(a, b, v) == v \in BitSeqs /\ b = a \o v /\ Len(b) - Len(v) = Len(a)

\* What begins with a is a and what is behind it.
LEMMA PrefixGoesOn ==
  ASSUME NEW a \in BitSeqs, NEW b \in BitSeqs, IsPrefixOf(a, b)
  PROVE  \E v : GoesOn(a, b, v)
<1>1. PICK p \in Nat, q \in Nat : p = Len(a) /\ q = Len(b) /\ p <= q
  BY LenProperties DEF IsPrefixOf, BitSeqs
<1>2. PICK v : v = SubSeq(b, p + 1, q)
  OBVIOUS
<1>3. Piece(b, p, q, v)
  <2>1. q <= Len(b) /\ p + 1 = p + 1
    BY <1>1
  <2>2. QED BY <1>1, <1>2, <2>1, PieceFacts
<1>4. PICK l \in Nat : l = q - p /\ p + l = q
  BY <1>1
<1>5. v \in BitSeqs /\ Len(v) = l /\ \A k \in 1..l : v[k] = b[p + k]
  BY <1>3, <1>4 DEF Piece
<1>6. PICK c : c = a \o v
  OBVIOUS
<1>7. Joint(a, v, c)
  BY <1>5, <1>6, ConcatParts
<1>8. /\ c \in BitSeqs /\ Len(c) = q
      /\ \A k \in 1..p : c[k] = a[k]
      /\ \A k \in 1..l : c[p + k] = v[k]
  BY <1>1, <1>4, <1>5, <1>7 DEF Joint
<1>9. \A k \in 1..p : a[k] = b[k]
  BY <1>1 DEF IsPrefixOf
<1>10. ASSUME NEW k \in 1..q PROVE c[k] = b[k]
  <2>1. CASE k <= p
    <3>1. k \in 1..p
      BY <2>1
    <3>2. QED BY <1>8, <1>9, <3>1
  <2>2. CASE ~(k <= p)
    <3>1. PICK x \in 1..l : k = p + x
      <4>1. k - p \in 1..l /\ k = p + (k - p)
        BY <1>4, <2>2
      <4>2. QED BY <4>1
    <3>2. QED BY <1>5, <1>8, <3>1
  <2>3. QED BY <2>1, <2>2
<1>11. c = b
  <2>1. PICK B : B = {0, 1}
    OBVIOUS
  <2>2. c \in Seq(B) /\ b \in Seq(B) /\ Len(b) = q
    BY <1>1, <1>8, <2>1 DEF BitSeqs
  <2>3. c \in [1..q -> B] /\ b \in [1..q -> B]
    BY <1>8, <2>2, LenProperties
  <2>4. QED BY <1>10, <2>3
<1>12. Len(b) - Len(v) = Len(a)
  BY <1>1, <1>4, <1>5
<1>13. QED BY <1>5, <1>6, <1>11, <1>12 DEF GoesOn

\* Both ways to put three sequences together are the same.
JoinsSame(a, c, v, p, q) == p \in BitSeqs /\ q \in BitSeqs /\ p \o v = a \o q

\* It makes no difference which two are put together first.
LEMMA JoinAgain ==
  ASSUME NEW a \in BitSeqs, NEW c \in BitSeqs, NEW v \in BitSeqs,
         NEW p, p = a \o c, NEW q, q = c \o v
  PROVE  JoinsSame(a, c, v, p, q)
<1>1. PICK B : B = {0, 1}
  OBVIOUS
<1>2. a \in Seq(B) /\ c \in Seq(B) /\ v \in Seq(B) /\ BitSeqs = Seq(B)
  BY <1>1 DEF BitSeqs
<1>3. a \o c \in Seq(B) /\ c \o v \in Seq(B)
  BY <1>2, ConcatProperties
<1>4. (a \o c) \o v = a \o (c \o v)
  BY <1>2, ConcatAssociative
<1>5. QED BY <1>2, <1>3, <1>4 DEF JoinsSame

\* What one, two or three codes are together.
FlatOf(s, z, f) ==
  f = [k \in 1..z |-> IF k = 1 THEN s[k] ELSE f[k - 1] \o s[k]]
\* One, two or three sequences put together.
Together(s, z) ==
  IF z = 1 THEN s[1] ELSE IF z = 2 THEN s[1] \o s[2] ELSE (s[1] \o s[2]) \o s[3]

\* The three cases.
LEMMA TogetherFacts ==
  ASSUME NEW s
  PROVE  /\ Together(s, 1) = s[1] /\ Together(s, 2) = s[1] \o s[2]
         /\ Together(s, 3) = (s[1] \o s[2]) \o s[3]
<1>1. 1 # 2 /\ 1 # 3 /\ 2 # 3
  OBVIOUS
<1>2. QED BY ONLY <1>1, Zenon DEF Together

\* The library's operator puts them together in this way.
LEMMA FlattenFew ==
  ASSUME NEW z \in 1..3, NEW s, Len(s) = z
  PROVE  FlattenSeq(s) = Together(s, z)
<1>1. PICK g : g = [k \in 1..z |-> Together(s, k)]
  OBVIOUS
<1>2. ASSUME NEW k \in 1..z
      PROVE  g[k] = IF k = 1 THEN s[k] ELSE g[k - 1] \o s[k]
  <2>1. g[k] = Together(s, k)
    BY <1>1
  <2>2. CASE k = 1
    BY <2>1, <2>2 DEF Together
  <2>3. CASE k = 2
    <3>1. 1 \in 1..z /\ 2 - 1 = 1 /\ g[1] = Together(s, 1)
      BY <1>1, <2>3
    <3>2. g[1] = s[1] /\ g[2] = s[1] \o s[2]
      BY <2>1, <2>3, <3>1 DEF Together
    <3>3. QED BY <2>3, <3>1, <3>2
  <2>4. CASE k = 3
    <3>1. 2 \in 1..z /\ 3 - 1 = 2 /\ g[2] = Together(s, 2)
      BY <1>1, <2>4
    <3>2. g[2] = s[1] \o s[2] /\ g[3] = (s[1] \o s[2]) \o s[3]
      BY <2>1, <2>4, <3>1 DEF Together
    <3>3. k # 1 /\ k - 1 = 2
      BY <2>4
    <3>4. g[k] = g[2] \o s[k]
      BY ONLY <2>4, <3>2, Zenon
    <3>5. QED BY ONLY <3>3, <3>4
  <2>5. k = 1 \/ k = 2 \/ k = 3
    OBVIOUS
  <2>6. QED BY <2>2, <2>3, <2>4, <2>5
<1>3. FlatOf(s, z, g)
  BY <1>1, <1>2 DEF FlatOf
<1>4. PICK f : f = CHOOSE x : FlatOf(s, z, x)
  OBVIOUS
<1>5. FlatOf(s, z, f)
  BY <1>3, <1>4
<1>6. \A k \in 1..z : f[k] = IF k = 1 THEN s[k] ELSE f[k - 1] \o s[k]
  BY <1>5 DEF FlatOf
<1>7. f[1] = g[1]
  <2>1. 1 \in 1..z
    OBVIOUS
  <2>2. QED BY <1>2, <1>6, <2>1
<1>8. z >= 2 => f[2] = g[2]
  <2>1. ASSUME z >= 2 PROVE 2 \in 1..z /\ 2 - 1 = 1 /\ 2 # 1
    BY <2>1
  <2>2. QED BY <1>2, <1>6, <1>7, <2>1
<1>9. z >= 3 => f[3] = g[3]
  <2>1. ASSUME z >= 3 PROVE 3 \in 1..z /\ 3 - 1 = 2 /\ 3 # 1 /\ z >= 2
    BY <2>1
  <2>2. QED BY <1>2, <1>6, <1>8, <2>1
<1>10. f[z] = g[z]
  <2>1. z = 1 \/ z = 2 \/ z = 3
    OBVIOUS
  <2>2. CASE z = 1
    BY <1>7, <2>2
  <2>3. CASE z = 2
    BY <1>8, <2>3
  <2>4. CASE z = 3
    BY <1>9, <2>4
  <2>5. QED BY <2>1, <2>2, <2>3, <2>4
<1>11. g[z] = Together(s, z)
  <2>1. z \in 1..z
    OBVIOUS
  <2>2. QED BY <1>1, <2>1
<1>12. FlattenSeq(s) = f[z]
  <2>1. Len(s) # 0
    OBVIOUS
  <2>2. QED BY <1>4, <2>1 DEF FlattenSeq, FlatOf
<1>13. QED BY <1>10, <1>11, <1>12

(***************************************************************************)
(* The entries of the table for literals and lengths.                      *)
(***************************************************************************)
Listed(codes, xs, z) ==
  /\ z \in 1..3 /\ xs = [k \in 1..z |-> xs[k]]
  /\ \A k \in 1..z : xs[k] \in Used(codes)
  /\ \A k \in 1..(z - 1) : xs[k] < EndOfBlock
  /\ z = 3 => IndexToSym(xs[3]) < MaxLitLenSym

\* One symbol is such a list.
LEMMA SinglesListed ==
  ASSUME NEW codes, NEW xs \in Singles(codes)
  PROVE  Listed(codes, xs, 1)
<1>1. PICK x \in Used(codes) : xs = <<x>>
  BY DEF Singles
<1>2. xs[1] = x /\ xs = [k \in 1..1 |-> xs[k]]
  BY <1>1
<1>3. 1 \in 1..3 /\ 1 # 3 /\ \A k \in 1..1 : k = 1
  OBVIOUS
<1>4. 1..(1 - 1) = {}
  OBVIOUS
<1>5. QED BY <1>1, <1>2, <1>3, <1>4 DEF Listed

\* So are the pairs that share an entry.
LEMMA PairsListed ==
  ASSUME NEW codes, NEW xs \in Pairs(codes)
  PROVE  Listed(codes, xs, 2)
<1>1. PICK x \in Used(codes), y \in Used(codes) : xs = <<x, y>> /\ x < EndOfBlock
  BY DEF Pairs
<1>2. xs[1] = x /\ xs[2] = y /\ xs = [k \in 1..2 |-> xs[k]]
  BY <1>1
<1>3. 2 \in 1..3 /\ 2 # 3 /\ (\A k \in 1..2 : k = 1 \/ k = 2) /\ \A k \in 1..(2 - 1) : k = 1
  OBVIOUS
<1>4. \A k \in 1..2 : xs[k] \in Used(codes)
  BY <1>1, <1>2, <1>3
<1>5. \A k \in 1..(2 - 1) : xs[k] < EndOfBlock
  BY <1>1, <1>2, <1>3
<1>6. QED BY <1>2, <1>3, <1>4, <1>5 DEF Listed

\* So are the triples.
LEMMA TriplesListed ==
  ASSUME NEW codes, NEW xs \in Triples(codes)
  PROVE  Listed(codes, xs, 3)
<1>1. PICK x \in Used(codes), y \in Used(codes), t \in Used(codes) :
        /\ xs = <<x, y, t>> /\ x < EndOfBlock /\ y < EndOfBlock
        /\ IndexToSym(t) < MaxLitLenSym
  BY DEF Triples
<1>2. xs[1] = x /\ xs[2] = y /\ xs[3] = t /\ xs = [k \in 1..3 |-> xs[k]]
  BY <1>1
<1>3. /\ 3 \in 1..3 /\ (\A k \in 1..3 : k = 1 \/ k = 2 \/ k = 3)
      /\ \A k \in 1..(3 - 1) : k = 1 \/ k = 2
  OBVIOUS
<1>4. \A k \in 1..3 : xs[k] \in Used(codes)
  BY <1>1, <1>2, <1>3
<1>5. \A k \in 1..(3 - 1) : xs[k] < EndOfBlock
  BY <1>1, <1>2, <1>3
<1>6. QED BY <1>1, <1>2, <1>3, <1>4, <1>5 DEF Listed

\* The codes of a list, one after the other.
CodesIn(codes, xs, z) == [k \in 1..z |-> codes[xs[k]]]

\* The bits of a list's entry are its codes, put together.
LEMMA JoinedOf ==
  ASSUME NEW codes, NEW xs, NEW z, Listed(codes, xs, z)
  PROVE  Joined(codes, xs) = Together(CodesIn(codes, xs, z), z)
<1>1. z \in 1..3 /\ DOMAIN xs = 1..z
  BY DEF Listed
<1>2. PICK s : s = CodesIn(codes, xs, z)
  OBVIOUS
<1>3. Len(s) = z
  <2>1. s = [k \in 1..z |-> s[k]]
    BY <1>2 DEF CodesIn
  <2>2. z \in Nat
    BY <1>1
  <2>3. QED BY <2>1, <2>2, TableIsSequence
<1>4. Joined(codes, xs) = FlattenSeq(s)
  BY <1>1, <1>2 DEF Joined, CodesIn
<1>5. QED BY <1>1, <1>2, <1>3, <1>4, FlattenFew

\* Bits that begin with the codes of a list are split into them.
SplitBy(codes, b, xs, z) ==
  \E rest : Splits(codes, b, xs, z, rest)
              /\ Len(b) - Len(rest[z]) = Len(Joined(codes, xs))

\* Bits that begin with them can be split.
LEMMA ListedSplits ==
  ASSUME NEW m \in Nat, NEW max, NEW codes, CodeOK(codes, m, max),
         NEW xs, NEW z, Listed(codes, xs, z), NEW b \in BitSeqs,
         IsPrefixOf(Joined(codes, xs), b)
  PROVE  SplitBy(codes, b, xs, z)
<1>1. z \in 1..3 /\ \A k \in 1..z : xs[k] \in Used(codes)
  BY DEF Listed
<1>2. PICK s : s = CodesIn(codes, xs, z)
  OBVIOUS
<1>3. ASSUME NEW k \in 1..z PROVE s[k] = codes[xs[k]] /\ s[k] \in BitSeqs
  <2>1. xs[k] \in 0..(m - 1)
    BY <1>1 DEF Used, CodeOK
  <2>2. QED BY <1>2, <2>1 DEF CodesIn, CodeOK
<1>4. PICK a : a = Joined(codes, xs)
  OBVIOUS
<1>5. a = Together(s, z)
  BY <1>2, <1>4, JoinedOf
<1>6. CASE z = 1
  <2>1. PICK c \in BitSeqs : c = s[1] /\ c = codes[xs[1]]
    <3>1. 1 \in 1..z
      BY <1>6
    <3>2. QED BY <1>3, <3>1
  <2>2. a = c
    BY <1>5, <1>6, <2>1, TogetherFacts
  <2>3. PICK v : GoesOn(a, b, v)
    BY <1>4, <2>2, PrefixGoesOn
  <2>4. v \in BitSeqs /\ b = c \o v /\ Len(b) - Len(v) = Len(a)
    BY <2>2, <2>3 DEF GoesOn
  <2>5. PICK rest : rest = [k \in 0..1 |-> IF k = 0 THEN b ELSE v]
    OBVIOUS
  <2>6. rest[0] = b /\ rest[1] = v
    BY <2>5
  <2>7. \A k \in 0..1 : rest[k] \in BitSeqs
    BY <2>4, <2>5
  <2>8. ASSUME NEW k \in 1..1
        PROVE  xs[k] \in Used(codes) /\ rest[k - 1] = codes[xs[k]] \o rest[k]
    <3>1. k = 1 /\ k - 1 = 0 /\ k \in 1..z
      BY <1>6
    <3>2. QED BY <1>1, <2>1, <2>4, <2>6, <3>1
  <2>9. Splits(codes, b, xs, z, rest)
    BY <1>6, <2>6, <2>7, <2>8 DEF Splits
  <2>10. QED BY <1>4, <1>6, <2>4, <2>6, <2>9 DEF SplitBy
<1>7. CASE z = 2
  <2>1. PICK c \in BitSeqs, d \in BitSeqs :
          c = s[1] /\ c = codes[xs[1]] /\ d = s[2] /\ d = codes[xs[2]]
    <3>1. 1 \in 1..z /\ 2 \in 1..z
      BY <1>7
    <3>2. QED BY <1>3, <3>1
  <2>2. a = c \o d
    BY <1>5, <1>7, <2>1, TogetherFacts
  <2>3. PICK v : GoesOn(a, b, v)
    <3>1. a \in BitSeqs
      BY <2>2, ConcatParts DEF Joint
    <3>2. QED BY <1>4, <3>1, PrefixGoesOn
  <2>4. v \in BitSeqs /\ b = a \o v /\ Len(b) - Len(v) = Len(a)
    BY <2>3 DEF GoesOn
  <2>5. PICK u : u = d \o v
    OBVIOUS
  <2>6. u \in BitSeqs /\ b = c \o u
    <3>1. JoinsSame(c, d, v, a, u)
      BY <2>2, <2>4, <2>5, JoinAgain
    <3>2. QED BY <2>4, <3>1 DEF JoinsSame
  <2>7. PICK rest : rest = [k \in 0..2 |-> IF k = 0 THEN b ELSE IF k = 1 THEN u ELSE v]
    OBVIOUS
  <2>8. rest[0] = b /\ rest[1] = u /\ rest[2] = v
    BY <2>7
  <2>9. \A k \in 0..2 : rest[k] \in BitSeqs
    BY <2>4, <2>6, <2>7
  <2>10. ASSUME NEW k \in 1..2
         PROVE  xs[k] \in Used(codes) /\ rest[k - 1] = codes[xs[k]] \o rest[k]
    <3>1. CASE k = 1
      <4>1. k - 1 = 0 /\ k \in 1..z
        BY <1>7, <3>1
      <4>2. QED BY <1>1, <2>1, <2>6, <2>8, <3>1, <4>1
    <3>2. CASE k = 2
      <4>1. k - 1 = 1 /\ k \in 1..z
        BY <1>7, <3>2
      <4>2. QED BY <1>1, <2>1, <2>5, <2>8, <3>2, <4>1
    <3>3. k = 1 \/ k = 2
      OBVIOUS
    <3>4. QED BY <3>1, <3>2, <3>3
  <2>11. Splits(codes, b, xs, z, rest)
    BY <1>7, <2>8, <2>9, <2>10 DEF Splits
  <2>12. QED BY <1>4, <1>7, <2>4, <2>8, <2>11 DEF SplitBy
<1>8. CASE z = 3
  <2>1. PICK c \in BitSeqs, d \in BitSeqs, f \in BitSeqs :
          /\ c = s[1] /\ c = codes[xs[1]] /\ d = s[2] /\ d = codes[xs[2]]
          /\ f = s[3] /\ f = codes[xs[3]]
    <3>1. 1 \in 1..z /\ 2 \in 1..z /\ 3 \in 1..z
      BY <1>8
    <3>2. QED BY <1>3, <3>1
  <2>2. a = (c \o d) \o f
    BY <1>5, <1>8, <2>1, TogetherFacts
  <2>3. PICK v : GoesOn(a, b, v)
    <3>1. c \o d \in BitSeqs
      BY ConcatParts DEF Joint
    <3>2. a \in BitSeqs
      BY <2>2, <3>1, ConcatParts DEF Joint
    <3>3. QED BY <1>4, <3>2, PrefixGoesOn
  <2>4. v \in BitSeqs /\ b = a \o v /\ Len(b) - Len(v) = Len(a)
    BY <2>3 DEF GoesOn
  <2>5. PICK t, u : t = f \o v /\ u = d \o t
    OBVIOUS
  <2>6. t \in BitSeqs /\ u \in BitSeqs /\ b = c \o u
    <3>1. t \in BitSeqs
      BY <2>4, <2>5, ConcatParts DEF Joint
    <3>2. PICK e \in BitSeqs : e = c \o d
      BY ConcatParts DEF Joint
    <3>3. JoinsSame(e, f, v, a, t)
      BY <2>2, <2>4, <2>5, <3>2, JoinAgain
    <3>4. JoinsSame(c, d, t, e, u)
      BY <2>5, <3>1, <3>2, JoinAgain
    <3>5. QED BY <2>4, <3>1, <3>3, <3>4 DEF JoinsSame
  <2>7. PICK rest : rest = [k \in 0..3 |-> IF k = 0 THEN b ELSE IF k = 1 THEN u
                                           ELSE IF k = 2 THEN t ELSE v]
    OBVIOUS
  <2>8. rest[0] = b /\ rest[1] = u /\ rest[2] = t /\ rest[3] = v
    BY <2>7
  <2>9. \A k \in 0..3 : rest[k] \in BitSeqs
    BY <2>4, <2>6, <2>7
  <2>10. ASSUME NEW k \in 1..3
         PROVE  xs[k] \in Used(codes) /\ rest[k - 1] = codes[xs[k]] \o rest[k]
    <3>1. CASE k = 1
      <4>1. k - 1 = 0 /\ k \in 1..z
        BY <1>8, <3>1
      <4>2. QED BY <1>1, <2>1, <2>6, <2>8, <3>1, <4>1
    <3>2. CASE k = 2
      <4>1. k - 1 = 1 /\ k \in 1..z
        BY <1>8, <3>2
      <4>2. QED BY <1>1, <2>1, <2>5, <2>8, <3>2, <4>1
    <3>3. CASE k = 3
      <4>1. k - 1 = 2 /\ k \in 1..z
        BY <1>8, <3>3
      <4>2. QED BY <1>1, <2>1, <2>5, <2>8, <3>3, <4>1
    <3>4. k = 1 \/ k = 2 \/ k = 3
      OBVIOUS
    <3>5. QED BY <3>1, <3>2, <3>3, <3>4
  <2>11. Splits(codes, b, xs, z, rest)
    BY <1>8, <2>8, <2>9, <2>10 DEF Splits
  <2>12. QED BY <1>4, <1>8, <2>4, <2>8, <2>11 DEF SplitBy
<1>9. z = 1 \/ z = 2 \/ z = 3
  BY <1>1
<1>10. QED BY <1>6, <1>7, <1>8, <1>9

\* Numbers of symbols.
LEMMA SymFacts ==
  /\ MaxLitLenSym \in Nat /\ EndOfBlock \in Nat /\ EndOfBlock <= MaxLitLenSym
  /\ \A x \in Nat : IndexToSym(x) \in Nat
  /\ \A x \in Nat : x <= MaxLitLenSym => IndexToSym(x) = x
  /\ \A x \in Nat : x < MaxLitLenSym => ThirdSym(x) = x
<1>1. MaxLitLenSym \in Nat /\ EndOfBlock \in Nat /\ EndOfBlock <= MaxLitLenSym
  BY NumberFacts, ExtraFacts DEF EndOfBlock
<1>2. \A x \in Nat : IndexToSym(x) \in Nat
  BY <1>1 DEF IndexToSym
<1>3. ASSUME NEW x \in Nat, x <= MaxLitLenSym PROVE IndexToSym(x) = x
  <2>1. x # MaxLitLenSym + 1
    BY <1>1, <1>3
  <2>2. QED BY <2>1 DEF IndexToSym
<1>4. ASSUME NEW x \in Nat, x < MaxLitLenSym PROVE ThirdSym(x) = x
  <2>1. PICK d \in Nat : d = MaxLitLenSym /\ x < d
    BY <1>1, <1>4
  <2>2. d \in Nat \ {0} /\ x % d = x
    BY <2>1
  <2>3. QED BY <2>1, <2>2 DEF ThirdSym
<1>5. QED BY <1>1, <1>2, <1>3, <1>4

\* One symbol's own entry.
LEMMA SymbolDecodes ==
  ASSUME NEW m \in Nat, NEW max, NEW codes, CodeOK(codes, m, max), NEW b \in BitSeqs,
         NEW s \in First(codes, b), NEW e, e = Direct(<<IndexToSym(s)>>, Len(codes[s]))
  PROVE  IsDecode(codes, b, e)
<1>1. s \in Used(codes) /\ codes[s] \in BitSeqs /\ IsPrefixOf(codes[s], b)
  BY OnlyFirst DEF OneCode, First
<1>2. PICK a \in BitSeqs : a = codes[s]
  BY <1>1
<1>3. PICK v : GoesOn(a, b, v)
  BY <1>1, <1>2, PrefixGoesOn
<1>4. v \in BitSeqs /\ b = a \o v /\ Len(b) - Len(v) = Len(a)
  BY <1>3 DEF GoesOn
<1>5. PICK rest : rest = [k \in 0..1 |-> IF k = 0 THEN b ELSE v]
  OBVIOUS
<1>6. rest[0] = b /\ rest[1] = v
  BY <1>5
<1>7. \A k \in 0..1 : rest[k] \in BitSeqs
  BY <1>4, <1>5
<1>8. PICK xs : xs = <<s>> /\ xs[1] = s
  <2>1. <<s>>[1] = s
    OBVIOUS
  <2>2. QED BY <2>1
<1>9. ASSUME NEW k \in 1..1
      PROVE  xs[k] \in Used(codes) /\ rest[k - 1] = codes[xs[k]] \o rest[k]
  <2>1. k = 1 /\ k - 1 = 0
    OBVIOUS
  <2>2. QED BY <1>1, <1>2, <1>4, <1>6, <1>8, <2>1
<1>10. Splits(codes, b, xs, 1, rest)
  BY <1>6, <1>7, <1>9 DEF Splits
<1>11. PICK y : y = <<IndexToSym(s)>>
  OBVIOUS
<1>12. DOMAIN y = 1..1 /\ Len(y) = 1 /\ y[1] = IndexToSym(s) /\ y # <<>>
  BY <1>11
<1>13. e.syms = y /\ e.len = Len(a)
  BY <1>2, <1>11 DEF Direct
<1>14. 1 \in 1..3 /\ (\A k \in 1..1 : k = 1) /\ \A k \in 1..(1 - 1) : FALSE
  <2>1. 1 \in 1..3 /\ \A k \in 1..1 : k = 1
    OBVIOUS
  <2>2. \A k \in 1..(1 - 1) : FALSE
    OBVIOUS
  <2>3. QED BY <2>1, <2>2
<1>15. /\ DOMAIN e.syms = 1..1 /\ Len(e.syms) = 1 /\ e.syms # <<>>
       /\ \A k \in 1..1 : e.syms[k] = IndexToSym(xs[k])
       /\ \A k \in 1..(1 - 1) : e.syms[k] < EndOfBlock
       /\ Len(b) - Len(rest[1]) = e.len
  BY <1>4, <1>6, <1>8, <1>12, <1>13, <1>14
<1>16. 1 \in 1..3
  OBVIOUS
<1>17. QED BY ONLY <1>10, <1>15, <1>16, m \in Nat, CodeOK(codes, m, max), SplitDecodes, Zenon

\* The entry of a list of symbols.
LEMMA ListedDecodes ==
  ASSUME NEW m \in Nat, NEW max, NEW codes, CodeOK(codes, m, max),
         NEW xs, NEW z, Listed(codes, xs, z), NEW b \in BitSeqs,
         IsPrefixOf(Joined(codes, xs), b)
  PROVE  IsDecode(codes, b, EntryOf(codes, xs)) /\ First(codes, b) # {}
<1>1. /\ z \in 1..3 /\ xs = [k \in 1..z |-> xs[k]] /\ DOMAIN xs = 1..z
      /\ \A k \in 1..z : xs[k] \in Used(codes)
      /\ \A k \in 1..(z - 1) : xs[k] < EndOfBlock
      /\ z = 3 => IndexToSym(xs[3]) < MaxLitLenSym
  BY DEF Listed
<1>2. PICK rest : Splits(codes, b, xs, z, rest)
                    /\ Len(b) - Len(rest[z]) = Len(Joined(codes, xs))
  BY ListedSplits DEF SplitBy
<1>3. \A k \in 1..z : xs[k] \in Nat
  BY <1>1 DEF Used, CodeOK
<1>4. PICK y : y = [k \in 1..z |-> IndexToSym(xs[k])]
  OBVIOUS
<1>5. ASSUME NEW k \in 1..z
      PROVE  (IF k = 3 THEN ThirdSym(IndexToSym(xs[k])) ELSE IndexToSym(xs[k])) = y[k]
  <2>1. CASE k = 3
    <3>1. z = 3 /\ IndexToSym(xs[3]) \in Nat
      BY <1>1, <1>3, <2>1, SymFacts
    <3>2. ThirdSym(IndexToSym(xs[3])) = IndexToSym(xs[3])
      BY <1>1, <3>1, SymFacts
    <3>3. QED BY <1>4, <2>1, <3>2
  <2>2. CASE k # 3
    BY <1>4, <2>2
  <2>3. QED BY <2>1, <2>2
<1>6. PICK e : e = EntryOf(codes, xs)
  OBVIOUS
<1>7. e.syms = y /\ e.len = Len(Joined(codes, xs))
  <2>1. [k \in DOMAIN xs |-> IF k = 3 THEN ThirdSym(IndexToSym(xs[k])) ELSE IndexToSym(xs[k])]
          = y
    BY <1>1, <1>4, <1>5
  <2>2. QED BY <1>6, <2>1 DEF EntryOf, Direct
<1>8. DOMAIN y = 1..z /\ Len(y) = z /\ y # <<>>
  <2>1. y = [k \in 1..z |-> y[k]] /\ z \in Nat /\ z # 0
    BY <1>1, <1>4
  <2>2. Len(y) = z
    BY <2>1, TableIsSequence
  <2>3. Len(<<>>) = 0
    OBVIOUS
  <2>4. QED BY <1>4, <2>1, <2>2, <2>3
<1>9. ASSUME NEW k \in 1..(z - 1) PROVE y[k] < EndOfBlock
  <2>1. k \in 1..z
    BY <1>1
  <2>2. PICK x \in Nat : x = xs[k] /\ x < EndOfBlock
    BY <1>1, <1>3, <2>1
  <2>3. x <= MaxLitLenSym
    BY <2>2, SymFacts
  <2>4. y[k] = IndexToSym(x) /\ IndexToSym(x) = x
    BY <1>4, <2>1, <2>2, <2>3, SymFacts
  <2>5. QED BY <2>2, <2>4
<1>10. IsDecode(codes, b, e)
  <2>1. \A k \in 1..z : e.syms[k] = IndexToSym(xs[k])
    BY <1>4, <1>7
  <2>2. \A k \in 1..(z - 1) : e.syms[k] < EndOfBlock
    BY <1>7, <1>9
  <2>3. DOMAIN e.syms = 1..z /\ Len(e.syms) = z /\ e.syms # <<>>
    BY <1>7, <1>8
  <2>4. Len(b) - Len(rest[z]) = e.len
    BY <1>2, <1>7
  <2>5. QED BY ONLY <1>1, <1>2, <2>1, <2>2, <2>3, <2>4, m \in Nat, CodeOK(codes, m, max),
               SplitDecodes, Zenon
<1>11. First(codes, b) # {}
  <2>1. 1 \in 1..z /\ 1 \in 0..z /\ 1 - 1 = 0
    BY <1>1
  <2>2. PICK x \in Used(codes) : x = xs[1] /\ b = codes[x] \o rest[1] /\ rest[1] \in BitSeqs
    BY <1>2, <2>1 DEF Splits
  <2>3. codes[x] \in BitSeqs
    BY DEF Used, CodeOK
  <2>4. Joint(codes[x], rest[1], b)
    BY <2>2, <2>3, ConcatParts
  <2>5. IsPrefixOf(codes[x], b)
    <3>1. PICK p \in Nat, q \in Nat : p = Len(codes[x]) /\ q = Len(rest[1])
                                     /\ Len(b) = p + q /\ \A k \in 1..p : b[k] = codes[x][k]
      BY <2>4 DEF Joint
    <3>2. p <= Len(b)
      <4>1. p <= p + q
        OBVIOUS
      <4>2. QED BY ONLY <3>1, <4>1, Zenon
    <3>3. QED BY <3>1, <3>2 DEF IsPrefixOf
  <2>6. x \in First(codes, b)
    BY <2>5 DEF First
  <2>7. QED BY <2>6
<1>12. QED BY <1>6, <1>10, <1>11

(***************************************************************************)
(* What is found is what the reference reads.                              *)
(***************************************************************************)
AgreesAt(codes, b, e, old) ==
  IF First(codes, b) # {} THEN IsDecode(codes, b, e) ELSE old = NoCode => e = NoCode

\* The entry of a long code says what its symbol is.
OwnEntry(codes, entry) ==
  \A s \in DOMAIN codes : entry[s] = Direct(<<IndexToSym(s)>>, Len(codes[s]))

\* Where bits begin with what an entry is for, it says what they say.
DirectOK(codes, direct) ==
  \A x \in DOMAIN direct :
    /\ direct[x].kind = "code"
    /\ \A b \in BitSeqs : IsPrefixOf(x, b) => IsDecode(codes, b, direct[x])
                                                /\ First(codes, b) # {}

\* Memory that held nothing made no entry that is not this header's.
NothingLeft(k, old, oldLong, before) ==
  before = NoCode => oldLong = NoCode /\ \A q \in Bits(k) : old[q] = NoCode

\* What is looked up agrees with what the bits say.
LEMMA LookedAgrees ==
  ASSUME NEW m \in Nat, NEW max, NEW codes, CodeOK(codes, m, max), NEW k \in Nat,
         NEW direct, DirectOK(codes, direct), NEW entry, OwnEntry(codes, entry),
         NEW old, NEW oldLong, NEW before, NothingLeft(k, old, oldLong, before),
         NEW b \in BitSeqs, NEW e, Looked(codes, k, direct, entry, old, oldLong, b, e)
  PROVE  AgreesAt(codes, b, e, before)
<1>1. CASE \E s \in First(codes, b) : e = entry[s]
  <2>1. PICK s \in First(codes, b) : e = entry[s]
    BY <1>1
  <2>2. s \in DOMAIN codes
    BY DEF First, Used
  <2>3. e = Direct(<<IndexToSym(s)>>, Len(codes[s]))
    BY <2>1, <2>2 DEF OwnEntry
  <2>4. IsDecode(codes, b, e)
    BY <2>3, SymbolDecodes
  <2>5. QED BY <2>1, <2>4 DEF AgreesAt
<1>2. CASE \E x \in DOMAIN direct : /\ e = direct[x]
                                    /\ \E h \in 1..k : x = SubSeq(b, 1, h) /\ h <= Len(b)
  <2>1. PICK x \in DOMAIN direct, h \in 1..k : e = direct[x] /\ x = SubSeq(b, 1, h) /\ h <= Len(b)
    BY <1>2
  <2>2. h \in Nat /\ h - 0 = h
    OBVIOUS
  <2>3. Piece(b, 0, h, x)
    BY <2>1, <2>2, FrontFacts
  <2>4. Len(x) = h /\ \A z \in 1..h : x[z] = b[z]
    <3>1. \A z \in 1..h : 0 + z = z
      OBVIOUS
    <3>2. QED BY <2>2, <2>3, <3>1 DEF Piece
  <2>5. IsPrefixOf(x, b)
    BY <2>1, <2>4 DEF IsPrefixOf
  <2>6. IsDecode(codes, b, e) /\ First(codes, b) # {}
    BY <2>1, <2>5 DEF DirectOK
  <2>7. QED BY <2>6 DEF AgreesAt
<1>3. CASE First(codes, b) = {} /\ (e = oldLong \/ \E q \in Bits(k) : e = old[q])
  BY <1>3 DEF AgreesAt, NothingLeft
<1>4. QED BY <1>1, <1>2, <1>3 DEF Looked

-----------------------------------------------------------------------------
\* Of literals and lengths.
Lists(codes, multisym) ==
  Singles(codes) \cup (IF multisym >= 2 THEN Pairs(codes) ELSE {})
                 \cup (IF multisym >= 3 THEN Triples(codes) ELSE {})
\* The entry of each list's bits.
LitDirect(codes, multisym) ==
  [b \in {Joined(codes, xs) : xs \in Lists(codes, multisym)} |->
     EntryOf(codes, CHOOSE xs \in Lists(codes, multisym) : Joined(codes, xs) = b)]
\* The entry of each symbol with a long code.
LitEntry(codes) == [x \in DOMAIN codes |-> Direct(<<IndexToSym(x)>>, Len(codes[x]))]

\* The table of literals is made of these.
LEMMA LitTableIs ==
  ASSUME NEW codes, NEW multisym, NEW old
  PROVE  LitTable(codes, multisym, old)
           = IF Used(codes) = {} THEN Sized(LitBits, NoCode)
             ELSE TableOf(codes, LitBits, LitDirect(codes, multisym), LitEntry(codes),
                          Sized(LitBits, NoCode), old)
BY DEF LitTable, TableOf, LitDirect, LitEntry, Lists

\* All its lists are lists as above.
LEMMA ListsListed ==
  ASSUME NEW codes, NEW multisym, NEW xs \in Lists(codes, multisym)
  PROVE  \E z : Listed(codes, xs, z)
<1>1. xs \in Singles(codes) \/ xs \in Pairs(codes) \/ xs \in Triples(codes)
  BY DEF Lists
<1>2. QED BY <1>1, SinglesListed, PairsListed, TriplesListed

\* Its entries are right.
LEMMA LitDirectOK ==
  ASSUME NEW m \in Nat, NEW max, NEW codes, CodeOK(codes, m, max), NEW multisym
  PROVE  DirectOK(codes, LitDirect(codes, multisym))
<1>1. PICK L : L = Lists(codes, multisym)
  OBVIOUS
<1>2. PICK d : d = LitDirect(codes, multisym)
  OBVIOUS
<1>3. ASSUME NEW x \in DOMAIN d
      PROVE  /\ d[x].kind = "code"
             /\ \A b \in BitSeqs : IsPrefixOf(x, b) => IsDecode(codes, b, d[x])
                                                         /\ First(codes, b) # {}
  <2>1. \E xs \in L : Joined(codes, xs) = x
    BY <1>1, <1>2 DEF LitDirect
  <2>2. PICK xs : xs = CHOOSE ys \in L : Joined(codes, ys) = x
    OBVIOUS
  <2>3. xs \in L /\ Joined(codes, xs) = x
    BY <2>1, <2>2
  <2>4. d[x] = EntryOf(codes, xs)
    BY <1>1, <1>2, <2>2 DEF LitDirect
  <2>5. d[x].kind = "code"
    BY <2>4 DEF EntryOf, Direct
  <2>6. PICK z : Listed(codes, xs, z)
    BY <1>1, <2>3, ListsListed
  <2>7. ASSUME NEW b \in BitSeqs, IsPrefixOf(x, b)
        PROVE  IsDecode(codes, b, d[x]) /\ First(codes, b) # {}
    BY <2>3, <2>4, <2>6, <2>7, ListedDecodes
  <2>8. QED BY <2>5, <2>7
<1>4. QED BY <1>2, <1>3 DEF DirectOK

\* No short code is missing.
LEMMA LitShortIn ==
  ASSUME NEW m \in Nat, NEW max, NEW codes, CodeOK(codes, m, max), NEW multisym
  PROVE  ShortIn(codes, LitBits, LitDirect(codes, multisym))
<1>1. ASSUME NEW s \in Used(codes), Len(codes[s]) <= LitBits
      PROVE  codes[s] \in DOMAIN LitDirect(codes, multisym)
  <2>1. PICK xs : xs = <<s>>
    OBVIOUS
  <2>2. xs \in Singles(codes)
    BY <1>1, <2>1 DEF Singles
  <2>3. xs \in Lists(codes, multisym)
    BY <2>2 DEF Lists
  <2>4. Joined(codes, xs) = Together(CodesIn(codes, xs, 1), 1)
    BY <2>2, SinglesListed, JoinedOf
  <2>5. Together(CodesIn(codes, xs, 1), 1) = CodesIn(codes, xs, 1)[1]
    BY TogetherFacts
  <2>6. CodesIn(codes, xs, 1)[1] = codes[s]
    <3>1. 1 \in 1..1
      OBVIOUS
    <3>2. xs[1] = s
      BY <2>1
    <3>3. QED BY <3>1, <3>2 DEF CodesIn
  <2>7. codes[s] = Joined(codes, xs)
    BY <2>4, <2>5, <2>6
  <2>8. DOMAIN LitDirect(codes, multisym)
          = {Joined(codes, ys) : ys \in Lists(codes, multisym)}
    BY DEF LitDirect
  <2>9. QED BY <2>3, <2>7, <2>8
<1>2. QED BY <1>1 DEF ShortIn

\* Looked up in an empty table, and in one without long codes.
LEMMA LookUpSized ==
  ASSUME NEW k \in Nat, NEW max \in Nat, k <= max, NEW b \in Bits(max), NEW e,
         e.kind = "code"
  PROVE  LookUp(Sized(k, e), k, b) = e
<1>1. b \in BitSeqs /\ Len(b) = max
  <2>1. PICK B : B = {0, 1}
    OBVIOUS
  <2>2. b \in [1..max -> B]
    BY <2>1 DEF Bits
  <2>3. b \in Seq(B) /\ Len(b) = max
    BY <2>2
  <2>4. QED BY <2>1, <2>3 DEF BitSeqs
<1>2. PICK p : p = SubSeq(b, 1, k)
  OBVIOUS
<1>3. Piece(b, 0, k, p)
  BY <1>1, <1>2, FrontFacts
<1>4. p \in Bits(k)
  <2>1. k - 0 = k
    OBVIOUS
  <2>2. QED BY <1>3, <2>1 DEF Piece
<1>5. Sized(k, e)[p] = e
  BY <1>4 DEF Sized
<1>6. QED BY <1>2, <1>5 DEF LookUp

\* Bits of a given number are a sequence of bits.
LEMMA BitsAreBits ==
  ASSUME NEW k \in Nat, NEW b \in Bits(k)
  PROVE  b \in BitSeqs
<1>1. PICK B : B = {0, 1}
  OBVIOUS
<1>2. b \in [1..k -> B]
  BY <1>1 DEF Bits
<1>3. b \in Seq(B)
  BY <1>2
<1>4. QED BY <1>1, <1>3 DEF BitSeqs

\* What is found in the table of literals.
LEMMA LitTableAgrees ==
  ASSUME NEW m \in Nat, NEW max \in Nat, LitBits <= max, NEW codes, CodeOK(codes, m, max),
         NEW multisym, NEW old, NEW b \in Bits(max)
  PROVE  AgreesAt(codes, b, LookUp(LitTable(codes, multisym, old), LitBits, b), old)
<1>1. PICK t : t = LitTable(codes, multisym, old)
  OBVIOUS
<1>2. LitBits \in Nat \ {0} /\ NoCode.kind = "code"
  BY BitsOK DEF NoCode, Direct
<1>3. PICK sized : sized = Sized(LitBits, NoCode)
  OBVIOUS
<1>4. \A q \in Bits(LitBits) : sized[q] = NoCode
  BY <1>3 DEF Sized
<1>5. CASE Used(codes) = {}
  <2>1. t = sized
    BY <1>1, <1>3, <1>5, LitTableIs
  <2>2. LookUp(t, LitBits, b) = NoCode
    BY <1>2, <1>3, <2>1, LookUpSized
  <2>3. First(codes, b) = {}
    BY <1>5 DEF First
  <2>4. QED BY <1>1, <2>2, <2>3 DEF AgreesAt
<1>6. CASE Used(codes) # {}
  <2>1. PICK d, f : d = LitDirect(codes, multisym) /\ f = LitEntry(codes)
    OBVIOUS
  <2>2. t = TableOf(codes, LitBits, d, f, sized, old)
    BY <1>1, <1>3, <1>6, <2>1, LitTableIs
  <2>3. DirectOK(codes, d) /\ ShortIn(codes, LitBits, d)
    BY <2>1, LitDirectOK, LitShortIn
  <2>4. \A x \in DOMAIN d : d[x].kind = "code"
    BY <2>3 DEF DirectOK
  <2>5. \A q \in Bits(LitBits) : sized[q].kind = "code"
    BY <1>2, <1>4
  <2>6. PICK e : e = LookUp(t, LitBits, b)
    OBVIOUS
  <2>7. Looked(codes, LitBits, d, f, sized, old, b, LookUp(t, LitBits, b))
    BY ONLY <1>2, <1>6, <2>2, <2>3, <2>4, <2>5, LookedUp, m \in Nat, max \in Nat,
       LitBits <= max, CodeOK(codes, m, max), b \in Bits(max), Zenon
  <2>8. OwnEntry(codes, f)
    BY <2>1 DEF OwnEntry, LitEntry
  <2>9. NothingLeft(LitBits, sized, old, old)
    BY <1>4 DEF NothingLeft
  <2>10. b \in BitSeqs /\ LitBits \in Nat
    BY <1>2, BitsAreBits
  <2>11. AgreesAt(codes, b, e, old)
    BY ONLY <2>3, <2>6, <2>7, <2>8, <2>9, <2>10, LookedAgrees, m \in Nat,
       CodeOK(codes, m, max), Zenon
  <2>12. QED BY <1>1, <2>6, <2>11
<1>7. QED BY <1>5, <1>6

\* Of distances.
ShortOnes(codes) == {s \in Used(codes) : Len(codes[s]) <= DistBits}
\* The entry of each distance.
SmallEntry(codes) == [s \in DOMAIN codes |-> Direct(<<s>>, Len(codes[s]))]
\* The entries of those with short codes.
SmallDirect(codes) ==
  [b \in {codes[s] : s \in ShortOnes(codes)} |->
     SmallEntry(codes)[CHOOSE s \in ShortOnes(codes) : codes[s] = b]]

\* The table of distances is made of these.
LEMMA SmallTableIs ==
  ASSUME NEW codes, NEW old
  PROVE  SmallTable(old, codes)
           = IF Used(codes) = {} THEN old
             ELSE TableOf(codes, DistBits, SmallDirect(codes), SmallEntry(codes), old, NoCode)
BY DEF SmallTable, TableOf, SmallDirect, SmallEntry, ShortOnes

\* Its entries of long codes are right.
LEMMA SmallOwnEntry ==
  ASSUME NEW m \in Nat, m <= LitSyms, NEW max, NEW codes, CodeOK(codes, m, max)
  PROVE  OwnEntry(codes, SmallEntry(codes))
<1>1. ASSUME NEW s \in DOMAIN codes
      PROVE  SmallEntry(codes)[s] = Direct(<<IndexToSym(s)>>, Len(codes[s]))
  <2>1. s \in 0..(m - 1)
    BY DEF CodeOK
  <2>2. s \in Nat /\ s <= MaxLitLenSym
    BY <2>1, NumberFacts, ExtraFacts
  <2>3. IndexToSym(s) = s
    BY <2>2, SymFacts
  <2>4. QED BY <2>3 DEF SmallEntry
<1>2. QED BY <1>1 DEF OwnEntry

\* So are those of short codes, and none is missing.
LEMMA SmallDirectOK ==
  ASSUME NEW m \in Nat, NEW max, NEW codes, CodeOK(codes, m, max),
         OwnEntry(codes, SmallEntry(codes))
  PROVE  DirectOK(codes, SmallDirect(codes)) /\ ShortIn(codes, DistBits, SmallDirect(codes))
<1>1. PICK S : S = ShortOnes(codes)
  OBVIOUS
<1>2. PICK d : d = SmallDirect(codes)
  OBVIOUS
<1>3. ASSUME NEW x \in DOMAIN d
      PROVE  /\ d[x].kind = "code"
             /\ \A b \in BitSeqs : IsPrefixOf(x, b) => IsDecode(codes, b, d[x])
                                                         /\ First(codes, b) # {}
  <2>1. \E s \in S : codes[s] = x
    BY <1>1, <1>2 DEF SmallDirect
  <2>2. PICK s : s = CHOOSE t \in S : codes[t] = x
    OBVIOUS
  <2>3. s \in S /\ codes[s] = x
    BY <2>1, <2>2
  <2>4. s \in Used(codes) /\ s \in DOMAIN codes
    BY <1>1, <2>3 DEF ShortOnes, Used
  <2>5. d[x] = SmallEntry(codes)[s]
    BY <1>1, <1>2, <2>2 DEF SmallDirect
  <2>6. d[x] = Direct(<<IndexToSym(s)>>, Len(codes[s]))
    BY <2>4, <2>5 DEF OwnEntry
  <2>7. d[x].kind = "code"
    BY <2>6 DEF Direct
  <2>8. ASSUME NEW b \in BitSeqs, IsPrefixOf(x, b)
        PROVE  IsDecode(codes, b, d[x]) /\ First(codes, b) # {}
    <3>1. s \in First(codes, b)
      BY <2>3, <2>4, <2>8 DEF First
    <3>2. IsDecode(codes, b, d[x])
      BY <2>6, <3>1, SymbolDecodes
    <3>3. QED BY <3>1, <3>2
  <2>9. QED BY <2>7, <2>8
<1>4. ASSUME NEW s \in Used(codes), Len(codes[s]) <= DistBits
      PROVE  codes[s] \in DOMAIN d
  <2>1. s \in ShortOnes(codes)
    BY <1>4 DEF ShortOnes
  <2>2. DOMAIN d = {codes[t] : t \in ShortOnes(codes)}
    BY <1>2 DEF SmallDirect
  <2>3. QED BY <2>1, <2>2
<1>5. QED BY <1>2, <1>3, <1>4 DEF DirectOK, ShortIn

\* What is found in the table of distances.
LEMMA SmallTableAgrees ==
  ASSUME NEW m \in Nat, m <= LitSyms, NEW max \in Nat, DistBits <= max,
         NEW codes, CodeOK(codes, m, max), NEW before, before.kind = "code",
         NEW b \in Bits(max), NEW sized, sized = Sized(DistBits, before)
  PROVE  AgreesAt(codes, b, LookUp(SmallTable(sized, codes), DistBits, b), before)
<1>1. PICK t : t = SmallTable(sized, codes)
  OBVIOUS
<1>2. DistBits \in Nat \ {0} /\ NoCode.kind = "code"
  BY BitsOK DEF NoCode, Direct
<1>3. \A q \in Bits(DistBits) : sized[q] = before
  BY DEF Sized
<1>4. CASE Used(codes) = {}
  <2>1. t = sized
    BY <1>1, <1>4, SmallTableIs
  <2>2. LookUp(t, DistBits, b) = before
    BY <1>2, <2>1, LookUpSized
  <2>3. First(codes, b) = {}
    BY <1>4 DEF First
  <2>4. QED BY <1>1, <2>2, <2>3 DEF AgreesAt
<1>5. CASE Used(codes) # {}
  <2>1. PICK d, f : d = SmallDirect(codes) /\ f = SmallEntry(codes)
    OBVIOUS
  <2>2. t = TableOf(codes, DistBits, d, f, sized, NoCode)
    BY <1>1, <1>5, <2>1, SmallTableIs
  <2>3. OwnEntry(codes, f)
    BY <2>1, SmallOwnEntry
  <2>4. DirectOK(codes, d) /\ ShortIn(codes, DistBits, d)
    BY <2>1, <2>3, SmallDirectOK
  <2>5. \A x \in DOMAIN d : d[x].kind = "code"
    BY <2>4 DEF DirectOK
  <2>6. \A q \in Bits(DistBits) : sized[q].kind = "code"
    BY <1>3
  <2>7. PICK e : e = LookUp(t, DistBits, b)
    OBVIOUS
  <2>8. Looked(codes, DistBits, d, f, sized, NoCode, b, LookUp(t, DistBits, b))
    BY ONLY <1>2, <1>5, <2>2, <2>4, <2>5, <2>6, LookedUp, m \in Nat, max \in Nat,
       DistBits <= max, CodeOK(codes, m, max), b \in Bits(max), Zenon
  <2>9. NothingLeft(DistBits, sized, NoCode, before)
    BY <1>3 DEF NothingLeft
  <2>10. b \in BitSeqs /\ DistBits \in Nat
    BY <1>2, BitsAreBits
  <2>11. AgreesAt(codes, b, e, before)
    BY ONLY <2>3, <2>4, <2>7, <2>8, <2>9, <2>10, LookedAgrees, m \in Nat,
       CodeOK(codes, m, max), Zenon
  <2>12. QED BY <1>1, <2>7, <2>11
<1>6. QED BY <1>4, <1>5

-----------------------------------------------------------------------------
(***************************************************************************)
(* The reader's own codes and tables.                                      *)
(***************************************************************************)
LEMMA LensTypes ==
  ASSUME Lengths(huffs)
  PROVE  /\ LitLens \in [0..(LitLen - 1) -> 0..MaxDepth]
         /\ DistLens \in [0..(DistSyms - 1) -> 0..MaxDepth]
<1>1. ASSUME NEW s \in 0..(LitLen - 1) PROVE huffs[s] \in 0..MaxDepth
  <2>1. s \in 0..(TableSize - 1)
    BY SizeFacts
  <2>2. QED BY <2>1 DEF Lengths
<1>2. ASSUME NEW s \in 0..(DistSyms - 1) PROVE huffs[LitLen + s] \in 0..MaxDepth
  <2>1. LitLen + s \in 0..(TableSize - 1)
    BY SizeFacts, ExtraFacts
  <2>2. QED BY <2>1 DEF Lengths
<1>3. LitLens \in [0..(LitLen - 1) -> 0..MaxDepth]
  BY <1>1 DEF LitLens
<1>4. DistLens \in [0..(DistSyms - 1) -> 0..MaxDepth]
  BY <1>2 DEF DistLens
<1>5. QED BY <1>3, <1>4

\* What is counted in the end is exactly what these parts hold.
LEMMA ExactCounts ==
  ASSUME CountsOK(huffs, litCount, litExpand, distCount)
  PROVE  /\ CountedWell(0..(LitLen - 1), LitLens, litCount)
         /\ CountedWell(0..(DistSyms - 1), DistLens, distCount)
<1>1. Counted(huffs, litCount, 0, LitLen) /\ Counted(huffs, distCount, LitLen, TableSize)
  BY DEF CountsOK
<1>2. litCount \in [0..MaxDepth -> Nat] /\ distCount \in [0..MaxDepth -> Nat]
  BY <1>1 DEF Counted
<1>3. \A l \in 1..MaxDepth : distCount[l] = Cardinality(OfLength(DistLens, l))
  BY <1>1, DistancesCounted
<1>4. ASSUME NEW l \in 1..MaxDepth PROVE litCount[l] = Cardinality(OfLength(LitLens, l))
  <2>1. PICK U : U = OfLength(LitLens, l)
    OBVIOUS
  <2>2. U = Within(huffs, l, 0, LitLen)
    BY <2>1 DEF OfLength, LitLens, Within
  <2>3. PICK D : D = 0..(LitLen - 1)
    OBVIOUS
  <2>4. IsFiniteSet(D) /\ Cardinality(D) = LitLen
    BY <2>3, SizeFacts, FS_Interval
  <2>5. IsFiniteSet(U) /\ Cardinality(U) <= LitLen /\ Cardinality(U) \in Nat
    <3>1. U \in SUBSET D
      BY <2>2, <2>3 DEF Within
    <3>2. QED BY <2>4, <3>1, FS_Subset, FS_CardinalityType
  <2>6. PICK k \in Nat : k = Cardinality(U) /\ k < CountMod
    BY <2>5, ReaderOK, SizeFacts
  <2>7. k % CountMod = k
    BY <2>6, SizeFacts, Remainder
  <2>8. litCount[l] = Cardinality(U) % CountMod
    BY <1>1, <2>2 DEF Counted
  <2>9. QED BY <2>1, <2>6, <2>7, <2>8
<1>5. QED BY <1>2, <1>3, <1>4 DEF CountedWell

\* What the tables are, at each step.
Untouched == step \in {"idle", "numbers", "codes", "lens", "distances", "dist table"} =>
               distTable = Sized(DistBits, left)
\* Distances have the codes of their lengths.
DistsNumbered == step \in {"dist table", "literals", "lit table", "ok"} =>
                   distCodes = SetCodes(DistLens, distCount) /\ ~Oversubscribed(distCount)
\* Their table is filled in over what was left in it.
DistsFilled == step \in {"literals", "lit table", "ok"} =>
                 distTable = SmallTable(Sized(DistBits, left), distCodes)
\* There are not too many codes of literals and lengths.
LitsNumbered == step \in {"lit table", "ok"} => ~Oversubscribed(litCount)
\* Their table is filled in.
LitsFilled == step = "ok" =>
                \E multisym \in 1..3 : litTable = LitTable(litCodes, multisym, left)

\* All of these.
Tables == Untouched /\ DistsNumbered /\ DistsFilled /\ LitsNumbered /\ LitsFilled

\* Before the first call.
LEMMA TablesStart ==
  ReaderInit => Tables
BY DEF ReaderInit, Tables, Untouched, DistsNumbered, DistsFilled, LitsNumbered, LitsFilled

\* A call leaves the tables as they are.
LEMMA CallTables ==
  ASSUME Tables, ReaderCall
  PROVE  Tables'
<1>1. PICK h \in AnyHeader, e \in LeftOver : Arrives(h, e)
  BY DEF ReaderCall
<1>2. step' = "numbers" /\ left' = e /\ distTable' = Sized(DistBits, e)
  BY <1>1 DEF Arrives
<1>3. QED BY <1>2 DEF Tables, Untouched, DistsNumbered, DistsFilled, LitsNumbered, LitsFilled

\* While it reads lengths it leaves the tables alone.
LEMMA TurnTables ==
  ASSUME Tables, ReadLitDistLens
  PROVE  Tables'
<1>1. step = "lens"
  BY DEF ReadLitDistLens, Missing, ReadLength, ReadRepeat, RefuseRepeat, ReadZeros,
         ReadNothing, Finish, Reading
<1>2. step' \in {"lens", "invalid", "short", "panic", "distances"}
  BY <1>1 DEF ReadLitDistLens, Missing, ReadLength, ReadRepeat, RefuseRepeat, ReadZeros,
         ReadNothing, Finish
<1>3. left' = left /\ distTable' = distTable
  BY DEF ReadLitDistLens, Missing, ReadLength, ReadRepeat, RefuseRepeat, ReadZeros,
         ReadNothing, Finish, lensUnchanged, tableVars
<1>4. QED BY <1>1, <1>2, <1>3 DEF Tables, Untouched, DistsNumbered, DistsFilled, LitsNumbered,
             LitsFilled

\* Each step of making them.
LEMMA SetUpTables ==
  ASSUME Tables, SetUp
  PROVE  Tables'
<1>1. /\ UNCHANGED <<left, huffs, litCount, distCount>>
      /\ DistLens' = DistLens /\ LitLens' = LitLens
  BY DEF SetUp, ReadNumbers, CodeLenCodes, SetDistCodes, GenForDists, SetLitCodes,
         GenForLitLen, lensUnchanged, countVars, DistLens, LitLens
<1>2. ASSUME ReadNumbers \/ CodeLenCodes PROVE Tables'
  <2>1. step \in {"numbers", "codes"} /\ step' \in {"codes", "lens", "short", "invalid"}
        /\ distTable' = distTable
    BY <1>2 DEF ReadNumbers, CodeLenCodes, tableVars
  <2>2. QED BY <1>1, <2>1 DEF Tables, Untouched, DistsNumbered, DistsFilled, LitsNumbered,
               LitsFilled
<1>3. ASSUME SetDistCodes PROVE Tables'
  <2>1. step = "distances" /\ distTable' = distTable
    BY <1>3 DEF SetDistCodes, tableVars
  <2>2. \/ step' = "invalid"
        \/ step' = "dist table" /\ distCodes' = SetCodes(DistLens, distCount)
             /\ ~Oversubscribed(distCount)
    BY <1>3 DEF SetDistCodes
  <2>3. QED BY <1>1, <2>1, <2>2 DEF Tables, Untouched, DistsNumbered, DistsFilled, LitsNumbered,
               LitsFilled
<1>4. ASSUME GenForDists PROVE Tables'
  <2>1. /\ step = "dist table" /\ step' = "literals" /\ distCodes' = distCodes
        /\ distTable' = SmallTable(distTable, distCodes)
    BY <1>4 DEF GenForDists, codeVars
  <2>2. QED BY <1>1, <2>1 DEF Tables, Untouched, DistsNumbered, DistsFilled, LitsNumbered,
               LitsFilled
<1>5. ASSUME SetLitCodes PROVE Tables'
  <2>1. step = "literals" /\ distCodes' = distCodes /\ distTable' = distTable
    BY <1>5 DEF SetLitCodes, tableVars
  <2>2. step' = "invalid" \/ (step' = "lit table" /\ ~Oversubscribed(litCount))
    BY <1>5 DEF SetLitCodes
  <2>3. QED BY <1>1, <2>1, <2>2 DEF Tables, Untouched, DistsNumbered, DistsFilled, LitsNumbered,
               LitsFilled
<1>6. ASSUME GenForLitLen PROVE Tables'
  <2>1. /\ step = "lit table" /\ step' = "ok" /\ distCodes' = distCodes
        /\ distTable' = distTable /\ litCodes' = litCodes
        /\ \E multisym \in 1..3 : litTable' = LitTable(litCodes, multisym, left)
    BY <1>6 DEF GenForLitLen, codeVars
  <2>2. QED BY <1>1, <2>1 DEF Tables, Untouched, DistsNumbered, DistsFilled, LitsNumbered,
               LitsFilled
<1>7. QED BY <1>2, <1>3, <1>4, <1>5, <1>6 DEF SetUp

\* LookupIsDecode, of every header that is taken, whatever earlier blocks have
\* left in the memory of the tables: what is found for any bits in the table of
\* literals or of distances is what the codes of the header say of them, and
\* for bits that are no code it is nothing, if the memory held nothing
\* (genForLitLen in huffcode.go, genForDists in header.go).
THEOREM TablesDecode ==
  ReaderSpec => []LookupIsDecode
<1>1. Tables /\ [ReaderCall \/ SetUp \/ ReadLitDistLens]_readerVars => Tables'
  <2>1. SUFFICES ASSUME Tables, [ReaderCall \/ SetUp \/ ReadLitDistLens]_readerVars
                 PROVE  Tables'
    OBVIOUS
  <2>2. CASE UNCHANGED readerVars
    BY <2>1, <2>2 DEF readerVars, countVars, codeVars, tableVars, Tables, Untouched,
                      DistsNumbered, DistsFilled, LitsNumbered, LitsFilled, DistLens
  <2>3. QED BY <2>1, <2>2, CallTables, SetUpTables, TurnTables
<1>2. ReaderInv /\ Tables => LookupIsDecode
  <2>1. SUFFICES ASSUME ReaderInv, Tables, step = "ok"
                 PROVE  /\ Agrees(litTable, LitBits, litCodes, MaxTokenLen)
                        /\ Agrees(distTable, DistBits, distCodes, MaxDepth)
    BY DEF LookupIsDecode
  <2>2. /\ Lengths(huffs) /\ CountsOK(huffs, litCount, litExpand, distCount)
        /\ left \in LeftOver /\ litCodes = WithExtra(SetCodes(LitLens, litCount))
    BY <2>1 DEF ReaderInv, ReaderTypes, Made
  <2>3. /\ distCodes = SetCodes(DistLens, distCount) /\ ~Oversubscribed(distCount)
        /\ distTable = SmallTable(Sized(DistBits, left), distCodes)
        /\ ~Oversubscribed(litCount)
    BY <2>1 DEF Tables, DistsNumbered, DistsFilled, LitsNumbered
  <2>4. PICK multisym \in 1..3 : litTable = LitTable(litCodes, multisym, left)
    BY <2>1 DEF Tables, LitsFilled
  <2>5. CodeOK(distCodes, DistSyms, MaxDepth)
    <3>1. DistSyms \in Nat
      BY ExtraFacts
    <3>2. QED BY <2>2, <2>3, <3>1, LensTypes, ExactCounts, SetCodesOK
  <2>6. CodeOK(litCodes, MaxLitLenSym + 2, MaxTokenLen)
    <3>1. LitLen \in Nat
      BY SizeFacts
    <3>2. PICK g : g = SetCodes(LitLens, litCount)
      OBVIOUS
    <3>3. CodeOK(g, LitLen, MaxDepth)
      BY <2>2, <2>3, <3>1, <3>2, LensTypes, ExactCounts, SetCodesOK
    <3>4. QED BY <2>2, <3>2, <3>3, WithExtraOK
  <2>7. left.kind = "code"
    BY <2>2, EntryFacts
  <2>8. ASSUME NEW b \in Bits(MaxTokenLen)
        PROVE  AgreesAt(litCodes, b, LookUp(litTable, LitBits, b), left)
    <3>1. MaxLitLenSym + 2 \in Nat /\ MaxTokenLen \in Nat /\ LitBits <= MaxTokenLen
      BY SymFacts, TokenLenFacts, ReaderOK, SizeFacts, BitsOK
    <3>2. QED BY <2>4, <2>6, <3>1, LitTableAgrees
  <2>9. ASSUME NEW b \in Bits(MaxDepth)
        PROVE  AgreesAt(distCodes, b, LookUp(distTable, DistBits, b), left)
    <3>1. DistSyms \in Nat /\ DistSyms <= LitSyms /\ MaxDepth \in Nat /\ DistBits <= MaxDepth
      BY ExtraFacts, SizeFacts, ReaderOK
    <3>2. QED BY <2>3, <2>5, <2>7, <3>1, SmallTableAgrees
  <2>10. QED BY <2>8, <2>9 DEF Agrees, AgreesAt
<1>3. QED BY <1>1, <1>2, TablesStart, CountsAreKept, PTL DEF ReaderSpec
=============================================================================
