------------------------- MODULE RemoteDecoderProofs -------------------------
(***************************************************************************)
(* What a decoder makes of the pieces that a compressor writes, and what   *)
(* the bit buffer makes of them: facts about the operators of BitBuf and   *)
(* RemoteDecoder that the proofs of the compressors cite.                  *)
(***************************************************************************)
EXTENDS RemoteDecoder, ArithmeticFacts, SequenceTheorems, FiniteSetsExt

Modes == {"header", "align", "len", "codes", "symbols", "end", "corrupt", "trailing"}

Decoder == [mode : Modes, n : 0..7, k : 0..31, final : {0, 1}, type : {0, 1},
            len : Nat, plain : Seq(Nat)]

(***************************************************************************)
(* One bit                                                                 *)
(***************************************************************************)
LEMMA FreshType == Fresh \in Decoder
<1>1. <<>> \in Seq(Nat)
  OBVIOUS
<1>2. QED BY <1>1 DEF Fresh, Decoder, Modes

\* The updates that a bit makes.
LEMMA UpdateType ==
  ASSUME NEW r \in Decoder
  PROVE  /\ \A m \in Modes : [r EXCEPT !.mode = m] \in Decoder
         /\ \A m \in Modes, k \in 0..31 : [r EXCEPT !.mode = m, !.k = k] \in Decoder
         /\ \A k \in 0..31 : [r EXCEPT !.k = k] \in Decoder
         /\ \A k \in 0..31, f \in {0, 1} : [r EXCEPT !.k = k, !.final = f] \in Decoder
         /\ \A k \in 0..31, f \in {0, 1} : [r EXCEPT !.k = k, !.type = f] \in Decoder
         /\ \A n \in 0..7 : [r EXCEPT !.n = n] \in Decoder
         /\ \A l \in Nat : [r EXCEPT !.len = l] \in Decoder
         /\ \A p \in Seq(Nat) : [r EXCEPT !.plain = p] \in Decoder
         /\ \A p \in Seq(Nat), l \in Nat : [r EXCEPT !.plain = p, !.len = l] \in Decoder
BY DEF Decoder

LEMMA CorruptType ==
  ASSUME NEW r \in Decoder
  PROVE  Corrupt(r) \in Decoder
BY DEF Corrupt, Decoder, Modes

LEMMA AfterBlockType ==
  ASSUME NEW r \in Decoder
  PROVE  AfterBlock(r) \in Decoder
<1>1. "end" \in Modes /\ "header" \in Modes /\ 0 \in 0..31
  BY DEF Modes
<1>2. (IF r.final = 1 THEN "end" ELSE "header") \in Modes
  BY <1>1
<1>3. QED BY <1>1, <1>2, UpdateType DEF AfterBlock

LEMMA HeaderBitType ==
  ASSUME NEW r \in Decoder, NEW b \in Nat
  PROVE  HeaderBit(r, b) \in Decoder
<1>1. "len" \in Modes /\ "align" \in Modes /\ "codes" \in Modes
      /\ 0 \in 0..31 /\ 1 \in 0..31 /\ 2 \in 0..31
  BY DEF Modes
<1>2. (IF r.n = 7 THEN "len" ELSE "align") \in Modes
  BY <1>1
<1>3. b \in {0, 1} => [r EXCEPT !.k = 1, !.final = b] \in Decoder
                      /\ [r EXCEPT !.k = 2, !.type = b] \in Decoder
  BY <1>1, UpdateType
<1>4. /\ [r EXCEPT !.mode = IF r.n = 7 THEN "len" ELSE "align", !.k = 0] \in Decoder
      /\ [r EXCEPT !.mode = "codes", !.k = 0] \in Decoder
  BY <1>1, <1>2, UpdateType
<1>5. QED BY <1>3, <1>4, CorruptType, Zenon DEF HeaderBit

LEMMA LengthBitType ==
  ASSUME NEW r \in Decoder, NEW b \in Nat
  PROVE  LengthBit(r, b) \in Decoder
<1>1. r.k # 31 => [r EXCEPT !.k = @ + 1] \in Decoder
  <2>1. r.k \in 0..31
    BY DEF Decoder
  <2>2. r.k # 31 => r.k + 1 \in 0..31
    BY <2>1
  <2>3. QED BY <2>2, UpdateType
<1>2. QED BY <1>1, CorruptType, AfterBlockType, Zenon DEF LengthBit

\* A copy of len bytes from dist bytes back.
LEMMA CopiedFacts ==
  ASSUME NEW S, NEW p \in Seq(S), NEW d \in Nat \ {0}, d <= Len(p), NEW n \in Nat
  PROVE  /\ Copied(p, d, n) \in Seq(S) /\ Len(Copied(p, d, n)) = Len(p) + n
         /\ \A i \in 1..Len(p) : Copied(p, d, n)[i] = p[i]
<1> DEFINE m == Len(p)
           val(i) == IF i <= m THEN p[i] ELSE p[m - d + 1 + ((i - m - 1) % d)]
<1>1. m \in Nat
  OBVIOUS
<1>2. ASSUME NEW i \in 1..(m + n) PROVE val(i) \in S
  <2>1. CASE i <= m
    BY <1>1, <1>2, <2>1
  <2>2. CASE ~(i <= m)
    <3>1. PICK j \in Nat : j = i - m - 1
      <4> HIDE DEF m
      <4>1. i \in Nat /\ ~(i <= m)
        BY <1>1, <1>2, <2>2
      <4>2. QED BY <1>1, <4>1
    <3>2. PICK q \in 0..(d - 1) : q = j % d
      BY Remainder
    <3>3. m - d + 1 + q \in 1..m
      BY <1>1, <3>2
    <3>4. val(i) = p[m - d + 1 + q]
      BY <2>2, <3>1, <3>2
    <3>5. QED BY <3>3, <3>4
  <2>3. QED BY <2>1, <2>2
<1>3. Copied(p, d, n) = [i \in 1..(m + n) |-> val(i)]
  BY DEF Copied
<1>4. \A i \in 1..m : val(i) = p[i] /\ i \in 1..(m + n)
  BY <1>1
<1> HIDE DEF val, m
<1>5. [i \in 1..(m + n) |-> val(i)] \in [1..(m + n) -> S] /\ m + n \in Nat
  BY <1>1, <1>2
<1>6. Copied(p, d, n) \in Seq(S) /\ Len(Copied(p, d, n)) = m + n
  BY <1>3, <1>5
<1>7. \A i \in 1..m : Copied(p, d, n)[i] = p[i]
  BY <1>3, <1>4
<1>8. QED BY <1>6, <1>7 DEF m

LEMMA SymbolBitType ==
  ASSUME NEW r \in Decoder, NEW b \in Nat
  PROVE  SymbolBit(r, b) \in Decoder
<1>1. r.plain \in Seq(Nat) /\ r.len \in Nat
  BY DEF Decoder
<1>2. b >= LitBit(0) => [r EXCEPT !.plain = Append(@, b - LitBit(0))] \in Decoder
  <2>1. SUFFICES ASSUME b >= LitBit(0) PROVE Append(r.plain, b - LitBit(0)) \in Seq(Nat)
    BY UpdateType
  <2>2. QED BY <1>1, <2>1 DEF LitBit
<1>3. b > LenBit(0) => [r EXCEPT !.len = b - LenBit(0)] \in Decoder
  <2>1. b > LenBit(0) => b - LenBit(0) \in Nat
    BY DEF LenBit
  <2>2. QED BY <2>1, UpdateType
<1>4. b > DistBit(0) /\ b - DistBit(0) <= Len(r.plain)
        => [r EXCEPT !.plain = Copied(@, b - DistBit(0), r.len), !.len = 0] \in Decoder
  <2>1. SUFFICES ASSUME b > DistBit(0), b - DistBit(0) <= Len(r.plain)
                 PROVE  Copied(r.plain, b - DistBit(0), r.len) \in Seq(Nat) /\ 0 \in Nat
    BY UpdateType
  <2>2. PICK d \in Nat \ {0} : d = b - DistBit(0)
    BY <2>1 DEF DistBit
  <2>3. QED BY <1>1, <2>1, <2>2, CopiedFacts
<1>5. QED BY <1>2, <1>3, <1>4, CorruptType, AfterBlockType, Zenon DEF SymbolBit

LEMMA TurnType ==
  ASSUME NEW r \in Decoder, NEW b \in Nat
  PROVE  Turn(r, b) \in Decoder
<1>1. "len" \in Modes /\ "symbols" \in Modes /\ "trailing" \in Modes /\ r.mode \in Modes
  BY DEF Modes, Decoder
<1>2. /\ [r EXCEPT !.mode = "len"] \in Decoder /\ [r EXCEPT !.mode = "symbols"] \in Decoder
      /\ [r EXCEPT !.mode = "trailing"] \in Decoder
  BY <1>1, UpdateType
<1>3. QED BY <1>1, <1>2, HeaderBitType, LengthBitType, SymbolBitType, CorruptType, Zenon
             DEF Turn, Modes

LEMMA TakeBitType ==
  ASSUME NEW r \in Decoder, NEW b \in Nat
  PROVE  TakeBit(r, b) \in Decoder
<1>1. (r.n + 1) % 8 \in 0..7
  BY DEF Decoder
<1>2. QED BY <1>1, TurnType, UpdateType DEF TakeBit

(***************************************************************************)
(* A sequence of bits                                                      *)
(***************************************************************************)
\* The states of a decoder that is fed.
Run(f, r, bits) ==
  /\ f \in [0..Len(bits) -> Decoder] /\ f[0] = r
  /\ \A i \in 1..Len(bits) : f[i] = TakeBit(f[i - 1], bits[i])

LEMMA RunExists ==
  ASSUME NEW r \in Decoder, NEW bits \in Seq(Nat)
  PROVE  \E h : Run(h, r, bits)
<1>1. PICK n \in Nat : n = Len(bits)
  OBVIOUS
<1>2. \A i \in 1..n : bits[i] \in Nat /\ i - 1 \in 0..n
  BY <1>1
<1>3. PICK g : g = [i \in 1..n |-> [q \in Decoder |-> TakeBit(q, bits[i])]]
  OBVIOUS
<1>4. g \in [1..n -> [Decoder -> Decoder]]
  BY <1>2, <1>3, TakeBitType
<1>5. PICK h \in [0..n -> Decoder] : h[0] = r /\ \A i \in 1..n : h[i] = g[i][h[i - 1]]
  <2>1. Recurses(n, Decoder, r, g)
    BY <1>4, Recursion
  <2>2. QED BY <2>1 DEF Recurses
<1>6. \A i \in 1..n : h[i - 1] \in Decoder
  BY <1>2
<1>7. \A i \in 1..n : g[i][h[i - 1]] = TakeBit(h[i - 1], bits[i])
  BY <1>3, <1>6
<1>8. QED BY <1>1, <1>5, <1>7 DEF Run

LEMMA FeedRun ==
  ASSUME NEW r \in Decoder, NEW bits \in Seq(Nat)
  PROVE  \E f : Run(f, r, bits) /\ Feed(r, bits) = f[Len(bits)]
<1> DEFINE n == Len(bits)
           Step(f) == [i \in 0..n |->
                         IF i = 0 THEN r
                         ELSE CHOOSE s \in {TakeBit(q, bits[i]) : q \in {f[i - 1]}} : TRUE]
<1>1. n \in Nat
  OBVIOUS
<1>2. PICK h : Run(h, r, bits)
  BY RunExists
<1>3. /\ h \in [0..n -> Decoder] /\ h[0] = r
      /\ \A i \in 1..n : h[i] = TakeBit(h[i - 1], bits[i])
  BY <1>2 DEF Run
<1>4. \A x : (CHOOSE s \in {x} : TRUE) = x
  OBVIOUS
<1>5. \A f, i : (CHOOSE s \in {TakeBit(q, bits[i]) : q \in {f[i - 1]}} : TRUE)
                = TakeBit(f[i - 1], bits[i])
  <2>1. \A f, i : {TakeBit(q, bits[i]) : q \in {f[i - 1]}} = {TakeBit(f[i - 1], bits[i])}
    OBVIOUS
  <2>2. QED BY <1>4, <2>1
<1> DEFINE f == CHOOSE f : f = Step(f)
<1>7. h = Step(h)
  <2>1. \A i \in 0..n : i # 0 => i \in 1..n
    BY <1>1
  <2> HIDE DEF n
  <2>2. \A i \in 0..n : h[i] = (IF i = 0 THEN r ELSE TakeBit(h[i - 1], bits[i]))
    BY <1>3, <2>1, Zenon
  <2>3. \A i \in 0..n : h[i] = Step(h)[i]
    BY <1>5, <2>2
  <2>4. QED BY <1>3, <2>3
<1>8. f = Step(f) /\ Feed(r, bits) = f[n]
  BY <1>7 DEF Feed
<1> HIDE DEF f
<1>9. \A i \in 1..n : f[i] = TakeBit(f[i - 1], bits[i])
  <2>1. \A i \in 1..n : Step(f)[i] = TakeBit(f[i - 1], bits[i])
    BY <1>5
  <2>2. QED BY <1>8, <2>1
<1>10. f[0] = r
  BY <1>1, <1>8
<1>11. \A i \in 0..n : f[i] = h[i]
  <2> DEFINE S == {i \in Nat : i <= n => f[i] = h[i]}
  <2>1. 0 \in S
    BY <1>1, <1>3, <1>10
  <2>2. ASSUME NEW i \in S PROVE i + 1 \in S
    <3>1. SUFFICES ASSUME i + 1 <= n PROVE f[i + 1] = h[i + 1]
      BY <2>2
    <3>2. i + 1 \in 1..n /\ (i + 1) - 1 = i /\ i <= n /\ i + 1 # 0 /\ i + 1 \in 0..n
      BY <1>1, <2>2, <3>1
    <3>3. f[i + 1] = TakeBit(f[i], bits[i + 1])
      BY <1>9, <3>2
    <3>4. h[i + 1] = TakeBit(h[i], bits[i + 1])
      BY <1>3, <3>2
    <3>5. QED BY <2>2, <3>2, <3>3, <3>4
  <2>3. S = Nat
    <3> HIDE DEF S
    <3>1. S \in SUBSET Nat
      BY DEF S
    <3>2. QED BY <2>1, <2>2, <3>1, InductiveSet
  <2>4. QED BY <2>3
<1>12. f \in [0..n -> Decoder]
  <2>1. f = [i \in 0..n |-> f[i]]
    BY <1>8
  <2>2. QED BY <1>3, <1>11, <2>1
<1>13. QED BY <1>8, <1>9, <1>10, <1>12 DEF Run

\* Runs from the same state over the same bits agree.
Along(n, a, f, h, s, t) ==
  /\ f[0] = h[a]
  /\ \A i \in 1..n : /\ f[i] = TakeBit(f[i - 1], s[i])
                     /\ h[a + i] = TakeBit(h[a + i - 1], t[a + i])
                     /\ s[i] = t[a + i]

LEMMA RunsAgree ==
  ASSUME NEW n \in Nat, NEW a \in Nat, NEW f, NEW h, NEW s, NEW t, Along(n, a, f, h, s, t)
  PROVE  f[n] = h[a + n]
<1> DEFINE S == {i \in Nat : i <= n => f[i] = h[a + i]}
<1>1. 0 \in S
  BY a + 0 = a DEF Along
<1>2. ASSUME NEW i \in S PROVE i + 1 \in S
  <2>1. SUFFICES ASSUME i + 1 <= n PROVE f[i + 1] = h[a + (i + 1)]
    BY <1>2
  <2>2. i + 1 \in 1..n /\ (i + 1) - 1 = i /\ i <= n /\ a + (i + 1) - 1 = a + i
    BY <1>2, <2>1
  <2>3. /\ f[i + 1] = TakeBit(f[i], s[i + 1])
        /\ h[a + (i + 1)] = TakeBit(h[a + i], t[a + (i + 1)])
        /\ s[i + 1] = t[a + (i + 1)]
    BY <2>2 DEF Along
  <2>4. QED BY <1>2, <2>2, <2>3
<1>3. S = Nat
  <2> HIDE DEF S
  <2>1. S \in SUBSET Nat
    BY DEF S
  <2>2. QED BY <1>1, <1>2, <2>1, InductiveSet
<1>4. QED BY <1>3

LEMMA FeedType ==
  ASSUME NEW r \in Decoder, NEW bits \in Seq(Nat)
  PROVE  Feed(r, bits) \in Decoder
<1>1. PICK f : Run(f, r, bits) /\ Feed(r, bits) = f[Len(bits)]
  BY FeedRun
<1>2. Len(bits) \in 0..Len(bits)
  OBVIOUS
<1>3. QED BY <1>1, <1>2 DEF Run

\* Bits may be fed in pieces.
LEMMA FeedConcat ==
  ASSUME NEW r \in Decoder, NEW s \in Seq(Nat), NEW t \in Seq(Nat)
  PROVE  Feed(r, s \o t) = Feed(Feed(r, s), t)
<1>1. PICK f : Run(f, r, s) /\ Feed(r, s) = f[Len(s)]
  BY FeedRun
<1>2. PICK g : Run(g, Feed(r, s), t) /\ Feed(Feed(r, s), t) = g[Len(t)]
  BY FeedRun, FeedType
<1> DEFINE u == s \o t
<1>3. u \in Seq(Nat)
  OBVIOUS
<1>4. PICK m \in Nat, n \in Nat : m = Len(s) /\ n = Len(t)
  OBVIOUS
<1>5. Len(u) = m + n
  BY <1>4
<1>6. (\A i \in 1..m : s[i] = u[i]) /\ (\A i \in 1..n : t[i] = u[m + i])
  BY <1>4
<1> HIDE DEF u
<1>7. PICK h : Run(h, r, u) /\ Feed(r, u) = h[Len(u)]
  BY <1>3, FeedRun
<1>8. f[m] = h[m]
  <2>1. PICK a \in Nat : a = 0
    OBVIOUS
  <2>2. \A i \in 1..m : a + i = i /\ a + i - 1 = i - 1 /\ i \in 1..(m + n)
    BY <2>1
  <2>3. \A i \in 1..m : /\ f[i] = TakeBit(f[i - 1], s[i])
                        /\ h[i] = TakeBit(h[i - 1], u[i])
    BY <1>1, <1>4, <1>5, <1>7, <2>2 DEF Run
  <2>4. \A i \in 1..m : /\ f[i] = TakeBit(f[i - 1], s[i])
                        /\ h[a + i] = TakeBit(h[a + i - 1], u[a + i])
                        /\ s[i] = u[a + i]
    BY <1>6, <2>2, <2>3
  <2>5. f[0] = h[a]
    BY <1>1, <1>7, <2>1 DEF Run
  <2>6. f[m] = h[a + m]
    <3>1. Along(m, a, f, h, s, u)
      BY <2>4, <2>5 DEF Along
    <3>2. QED BY <3>1, RunsAgree
  <2>7. QED BY <2>1, <2>6
<1>9. g[n] = h[m + n]
  <2>1. g[0] = h[m]
    BY <1>1, <1>2, <1>4, <1>8 DEF Run
  <2>2. \A i \in 1..n : m + i \in 1..(m + n)
    OBVIOUS
  <2>3. \A i \in 1..n : g[i] = TakeBit(g[i - 1], t[i])
    BY <1>2, <1>4 DEF Run
  <2>4. \A i \in 1..n : h[m + i] = TakeBit(h[m + i - 1], u[m + i])
    BY <1>5, <1>7, <2>2 DEF Run
  <2>5. \A i \in 1..n : /\ g[i] = TakeBit(g[i - 1], t[i])
                        /\ h[m + i] = TakeBit(h[m + i - 1], u[m + i])
                        /\ t[i] = u[m + i]
    BY <1>6, <2>3, <2>4
  <2>6. Along(n, m, g, h, t, u)
    BY <2>1, <2>5 DEF Along
  <2>7. QED BY <2>6, RunsAgree
<1>10. QED BY <1>2, <1>4, <1>5, <1>7, <1>9 DEF u

LEMMA FeedEmpty ==
  ASSUME NEW r \in Decoder
  PROVE  Feed(r, <<>>) = r
<1>1. <<>> \in Seq(Nat) /\ Len(<<>>) = 0
  OBVIOUS
<1>2. PICK f : Run(f, r, <<>>) /\ Feed(r, <<>>) = f[0]
  BY <1>1, FeedRun
<1>3. QED BY <1>2 DEF Run

LEMMA FeedOne ==
  ASSUME NEW r \in Decoder, NEW b \in Nat
  PROVE  Feed(r, <<b>>) = TakeBit(r, b)
<1>1. <<b>> \in Seq(Nat) /\ Len(<<b>>) = 1 /\ <<b>>[1] = b
  OBVIOUS
<1>2. PICK f : Run(f, r, <<b>>) /\ Feed(r, <<b>>) = f[1]
  BY <1>1, FeedRun
<1>3. 1 \in 1..1 /\ 1 - 1 = 0
  OBVIOUS
<1>4. QED BY <1>1, <1>2, <1>3 DEF Run

\* What holds of the state that is fed, and is kept by each bit, holds behind
\* all of them.
LEMMA FeedKeeps ==
  ASSUME NEW r \in Decoder, NEW bits \in Seq(Nat), NEW I \in SUBSET Decoder, r \in I,
         \A q \in I : \A i \in 1..Len(bits) : TakeBit(q, bits[i]) \in I
  PROVE  Feed(r, bits) \in I
<1>1. PICK n \in Nat : n = Len(bits)
  OBVIOUS
<1>2. PICK f : Run(f, r, bits) /\ Feed(r, bits) = f[n]
  BY <1>1, FeedRun
<1> DEFINE S == {i \in Nat : i <= n => f[i] \in I}
<1>3. 0 \in S
  BY <1>2 DEF Run
<1>4. ASSUME NEW i \in S PROVE i + 1 \in S
  <2>1. SUFFICES ASSUME i + 1 <= n PROVE f[i + 1] \in I
    BY <1>4
  <2>2. i + 1 \in 1..n /\ (i + 1) - 1 = i /\ i <= n
    BY <1>4, <2>1
  <2>3. f[i + 1] = TakeBit(f[i], bits[i + 1])
    BY <1>1, <1>2, <2>2 DEF Run
  <2>4. f[i] \in I
    BY <1>4, <2>2
  <2>5. TakeBit(f[i], bits[i + 1]) \in I
    BY <1>1, <2>2, <2>4
  <2>6. QED BY <2>3, <2>5
<1>5. S = Nat
  <2> HIDE DEF S
  <2>1. S \in SUBSET Nat
    BY DEF S
  <2>2. QED BY <1>3, <1>4, <2>1, InductiveSet
<1>6. QED BY <1>2, <1>5

\* A bit counts.
LEMMA TakeBitCounts ==
  ASSUME NEW r \in Decoder, NEW b \in Nat
  PROVE  TakeBit(r, b).n = (r.n + 1) % 8
<1>1. Turn(r, b) \in Decoder
  BY TurnType
<1>2. QED BY <1>1 DEF TakeBit, Decoder

LEMMA FeedCounts ==
  ASSUME NEW r \in Decoder, NEW bits \in Seq(Nat)
  PROVE  Feed(r, bits).n = (r.n + Len(bits)) % 8
<1>1. PICK n \in Nat : n = Len(bits)
  OBVIOUS
<1>2. PICK f : Run(f, r, bits) /\ Feed(r, bits) = f[n]
  BY <1>1, FeedRun
<1>3. PICK m \in 0..7 : m = r.n
  BY DEF Decoder
<1> DEFINE S == {i \in Nat : i <= n => f[i].n = (m + i) % 8}
<1>4. 0 \in S
  <2>1. f[0].n = m
    BY <1>2, <1>3 DEF Run
  <2>2. (m + 0) % 8 = m
    OBVIOUS
  <2>3. QED BY <2>1, <2>2
<1>5. ASSUME NEW i \in S PROVE i + 1 \in S
  <2>1. SUFFICES ASSUME i + 1 <= n PROVE f[i + 1].n = (m + (i + 1)) % 8
    BY <1>5
  <2>2. i + 1 \in 1..n /\ (i + 1) - 1 = i /\ i <= n /\ i \in 0..n
    BY <1>5, <2>1
  <2>3. f[i + 1] = TakeBit(f[i], bits[i + 1]) /\ f[i] \in Decoder /\ bits[i + 1] \in Nat
    <3>1. f[i + 1] = TakeBit(f[i], bits[i + 1])
      BY <1>1, <1>2, <2>2 DEF Run
    <3>2. f[i] \in Decoder
      BY <1>1, <1>2, <2>2 DEF Run
    <3>3. bits[i + 1] \in Nat
      BY <1>1, <2>2
    <3>4. QED BY <3>1, <3>2, <3>3
  <2>4. f[i + 1].n = (f[i].n + 1) % 8
    BY <2>3, TakeBitCounts
  <2>5. f[i].n = (m + i) % 8
    BY <1>5, <2>2
  <2>6. (((m + i) % 8) + 1) % 8 = (m + (i + 1)) % 8
    <3>1. m + i \in Nat /\ (m + i) + 1 = m + (i + 1) /\ 1 \in Nat
      BY <1>5
    <3>2. QED BY <3>1, EightMore
  <2>7. QED BY <2>4, <2>5, <2>6
<1>6. S = Nat
  <2> HIDE DEF S
  <2>1. S \in SUBSET Nat
    BY DEF S
  <2>2. QED BY <1>4, <1>5, <2>1, InductiveSet
<1>7. QED BY <1>1, <1>2, <1>3, <1>6

(***************************************************************************)
(* Fields and blocks                                                       *)
(***************************************************************************)
\* The same state, but for the count of bits.
Alike(r, q) ==
  /\ q \in Decoder /\ q.mode = r.mode /\ q.k = r.k /\ q.final = r.final
  /\ q.type = r.type /\ q.len = r.len /\ q.plain = r.plain

\* A bit makes of the state what Turn does.
LEMMA TookTurn ==
  ASSUME NEW r \in Decoder, NEW b \in Nat
  PROVE  Alike(Turn(r, b), TakeBit(r, b))
<1>1. Turn(r, b) \in Decoder /\ TakeBit(r, b) \in Decoder
  BY TurnType, TakeBitType
<1>2. QED BY <1>1 DEF TakeBit, Decoder, Alike

\* The bits of a code before its last.
LEMMA PartTaken ==
  ASSUME NEW r \in Decoder, r.mode \in {"codes", "symbols"}
  PROVE  Alike(r, TakeBit(r, Part))
<1>1. Turn(r, Part) = r
  BY Zenon DEF Turn, SymbolBit
<1>2. Part \in Nat
  BY DEF Part
<1>3. QED BY <1>1, <1>2, TookTurn

Parts(n) == [i \in 1..n |-> Part]

LEMMA PartsFed ==
  ASSUME NEW r \in Decoder, r.mode \in {"codes", "symbols"}, NEW n \in Nat
  PROVE  Parts(n) \in Seq(Nat) /\ Alike(r, Feed(r, Parts(n)))
<1>1. Parts(n) \in Seq(Nat) /\ Len(Parts(n)) = n /\ \A i \in 1..n : Parts(n)[i] = Part
  BY DEF Parts, Part
<1>2. PICK I : I = {q \in Decoder : Alike(r, q)}
  OBVIOUS
<1>3. I \in SUBSET Decoder /\ r \in I
  BY <1>2 DEF Alike
<1>4. ASSUME NEW q \in I PROVE TakeBit(q, Part) \in I
  <2>1. q \in Decoder /\ Alike(r, q)
    BY <1>2, <1>4
  <2>2. q.mode \in {"codes", "symbols"}
    BY <2>1 DEF Alike
  <2>3. Alike(q, TakeBit(q, Part))
    BY <2>1, <2>2, PartTaken
  <2>4. Alike(r, TakeBit(q, Part)) /\ TakeBit(q, Part) \in Decoder
    BY <2>1, <2>3 DEF Alike
  <2>5. QED BY <1>2, <2>4
<1>5. \A q \in I : \A i \in 1..Len(Parts(n)) : TakeBit(q, Parts(n)[i]) \in I
  BY <1>1, <1>4
<1>6. Feed(r, Parts(n)) \in I
  BY <1>1, <1>3, <1>5, FeedKeeps
<1>7. QED BY <1>1, <1>2, <1>6

\* A field is its parts and its last bit.
LEMMA FieldSplit ==
  ASSUME NEW w \in Nat \ {0}, NEW b \in Nat
  PROVE  /\ Field(w, b) \in Seq(Nat) /\ Len(Field(w, b)) = w
         /\ Field(w, b) = Parts(w - 1) \o <<b>>
<1>1. Field(w, b) \in [1..w -> Nat]
  BY DEF Field, Part
<1>2. Field(w, b) \in Seq(Nat) /\ Len(Field(w, b)) = w
  BY <1>1
<1>3. /\ Parts(w - 1) \in Seq(Nat) /\ Len(Parts(w - 1)) = w - 1
      /\ \A i \in 1..(w - 1) : Parts(w - 1)[i] = Part
  <2>1. w - 1 \in Nat
    OBVIOUS
  <2>2. Parts(w - 1) \in [1..(w - 1) -> Nat]
    BY DEF Parts, Part
  <2>3. QED BY <2>1, <2>2 DEF Parts
<1>4. PICK u \in Seq(Nat) : u = Parts(w - 1) \o <<b>>
  <2>1. <<b>> \in Seq(Nat)
    OBVIOUS
  <2>2. Parts(w - 1) \o <<b>> \in Seq(Nat)
    BY <1>3, <2>1
  <2>3. QED BY <2>2
<1>5. Len(u) = w /\ \A i \in 1..w : u[i] = (IF i = w THEN b ELSE Part)
  BY <1>3, <1>4
<1>6. \A i \in 1..w : Field(w, b)[i] = u[i]
  BY <1>5 DEF Field
<1>7. Field(w, b) = u
  <2> DEFINE f == Field(w, b)
  <2>1. f \in Seq(Nat) /\ Len(f) = Len(u) /\ \A i \in 1..Len(u) : f[i] = u[i]
    BY <1>2, <1>5, <1>6
  <2> HIDE DEF f
  <2>2. f = u
    BY <2>1
  <2>3. QED BY <2>2 DEF f
<1>8. QED BY <1>2, <1>4, <1>7

\* What a field does is what its last bit does.
LEMMA FieldFed ==
  ASSUME NEW r \in Decoder, r.mode \in {"codes", "symbols"},
         NEW w \in Nat \ {0}, NEW b \in Nat
  PROVE  \E q \in Decoder : Alike(r, q) /\ Alike(Turn(q, b), Feed(r, Field(w, b)))
<1>1. PICK q : q = Feed(r, Parts(w - 1))
  OBVIOUS
<1>2. w - 1 \in Nat /\ <<b>> \in Seq(Nat)
  OBVIOUS
<1>3. Parts(w - 1) \in Seq(Nat) /\ Alike(r, q) /\ q \in Decoder
  BY <1>1, <1>2, PartsFed DEF Alike
<1>4. Feed(r, Field(w, b)) = TakeBit(q, b)
  <2>1. Feed(r, Field(w, b)) = Feed(q, <<b>>)
    <3>1. Field(w, b) = Parts(w - 1) \o <<b>>
      BY FieldSplit
    <3>2. Feed(r, Parts(w - 1) \o <<b>>) = Feed(Feed(r, Parts(w - 1)), <<b>>)
      BY <1>2, <1>3, FeedConcat
    <3>3. QED BY <1>1, <3>1, <3>2
  <2>2. QED BY <1>3, <2>1, FeedOne
<1>5. QED BY <1>3, <1>4, TookTurn

\* Between two blocks, inside one, and behind the last, with data p decoded.
AtBlock(r, p) ==
  r \in Decoder /\ r.mode = "header" /\ r.k = 0 /\ r.len = 0 /\ r.plain = p
InBlock(r, p, f) ==
  r \in Decoder /\ r.mode = "symbols" /\ r.len = 0 /\ r.plain = p /\ r.final = f
AtEnd(r, p) == r \in Decoder /\ r.mode = "end" /\ r.plain = p

LEMMA FeedThree ==
  ASSUME NEW r \in Decoder, NEW a \in Nat, NEW b \in Nat, NEW c \in Nat
  PROVE  Feed(r, <<a, b, c>>) = TakeBit(TakeBit(TakeBit(r, a), b), c)
<1>1. PICK s : s = <<a, b, c>>
  OBVIOUS
<1>2. s \in Seq(Nat) /\ Len(s) = 3 /\ s[1] = a /\ s[2] = b /\ s[3] = c
  BY <1>1
<1>3. PICK f : Run(f, r, s) /\ Feed(r, s) = f[3]
  BY <1>2, FeedRun
<1>4. /\ 1 \in 1..3 /\ 2 \in 1..3 /\ 3 \in 1..3
      /\ 1 - 1 = 0 /\ 2 - 1 = 1 /\ 3 - 1 = 2
  OBVIOUS
<1>5. f[0] = r /\ f[1] = TakeBit(f[0], a) /\ f[2] = TakeBit(f[1], b)
      /\ f[3] = TakeBit(f[2], c)
  BY <1>2, <1>3, <1>4 DEF Run
<1>6. QED BY <1>1, <1>3, <1>5

\* The first two bits of a block's header.
LEMMA TwoBits ==
  ASSUME NEW r, NEW p, AtBlock(r, p), NEW f \in {0, 1}
  PROVE  LET q == TakeBit(TakeBit(r, f), 0) IN
           /\ q \in Decoder /\ q.mode = "header" /\ q.k = 2 /\ q.final = f
           /\ q.type = 0 /\ q.len = 0 /\ q.plain = p
<1>1. r \in Decoder /\ r.mode = "header" /\ r.k = 0 /\ r.len = 0 /\ r.plain = p
  BY DEF AtBlock
<1>2. f \in Nat /\ 0 \in Nat
  OBVIOUS
<1>3. Turn(r, f) = [r EXCEPT !.k = 1, !.final = f]
  BY <1>1, Zenon DEF Turn, HeaderBit
<1>4. PICK s : s = TakeBit(r, f)
  OBVIOUS
<1>5. Alike([r EXCEPT !.k = 1, !.final = f], s)
  BY <1>1, <1>2, <1>3, <1>4, TookTurn
<1>6. /\ s \in Decoder /\ s.mode = "header" /\ s.k = 1 /\ s.final = f /\ s.len = 0
      /\ s.plain = p
  BY <1>1, <1>5 DEF Alike, Decoder
<1>7. Turn(s, 0) = [s EXCEPT !.k = 2, !.type = 0]
  <2>1. s.k # 0 /\ 0 \in {0, 1}
    BY <1>6
  <2>2. QED BY <1>6, <2>1, Zenon DEF Turn, HeaderBit
<1>8. PICK q : q = TakeBit(s, 0)
  OBVIOUS
<1>9. Alike([s EXCEPT !.k = 2, !.type = 0], q)
  BY <1>2, <1>6, <1>7, <1>8, TookTurn
<1>10. /\ q \in Decoder /\ q.mode = "header" /\ q.k = 2 /\ q.final = f /\ q.type = 0
       /\ q.len = 0 /\ q.plain = p
  BY <1>6, <1>9 DEF Alike, Decoder
<1>11. QED BY <1>4, <1>8, <1>10

\* The header of a dynamic block.
LEMMA HeaderFed ==
  ASSUME NEW r, NEW p, AtBlock(r, p), NEW f \in {0, 1}, NEW w \in Nat \ {0}
  PROVE  InBlock(Feed(r, <<f, 0, 1>> \o Field(w, Codes)), p, f)
<1>1. r \in Decoder /\ f \in Nat /\ 0 \in Nat /\ 1 \in Nat /\ Codes \in Nat
  BY DEF AtBlock, Codes
<1>2. <<f, 0, 1>> \in Seq(Nat)
  BY <1>1
<1>3. PICK q : q = TakeBit(TakeBit(r, f), 0)
  OBVIOUS
<1>4. /\ q \in Decoder /\ q.mode = "header" /\ q.k = 2 /\ q.final = f
      /\ q.type = 0 /\ q.len = 0 /\ q.plain = p
  BY <1>3, TwoBits
<1>5. Turn(q, 1) = [q EXCEPT !.mode = "codes", !.k = 0]
  <2>1. q.k # 0 /\ q.k # 1 /\ 1 \in {0, 1} /\ <<q.type, 1>> # <<0, 0>>
        /\ <<q.type, 1>> = <<0, 1>>
    BY <1>4
  <2>2. QED BY <1>4, <2>1, Zenon DEF Turn, HeaderBit
<1>6. PICK s : s = TakeBit(q, 1)
  OBVIOUS
<1>7. Alike([q EXCEPT !.mode = "codes", !.k = 0], s)
  BY <1>1, <1>4, <1>5, <1>6, TookTurn
<1>8. s \in Decoder /\ s.mode = "codes" /\ s.final = f /\ s.len = 0 /\ s.plain = p
  BY <1>4, <1>7 DEF Alike, Decoder
<1>9. Feed(r, <<f, 0, 1>>) = s
  BY <1>1, <1>3, <1>6, FeedThree
<1>10. Feed(r, <<f, 0, 1>> \o Field(w, Codes)) = Feed(s, Field(w, Codes))
  BY <1>1, <1>2, <1>9, FeedConcat, FieldSplit
<1>11. PICK u \in Decoder : Alike(s, u) /\ Alike(Turn(u, Codes), Feed(s, Field(w, Codes)))
  BY <1>1, <1>8, FieldFed
<1>12. u.mode = "codes" /\ u.final = f /\ u.len = 0 /\ u.plain = p
  BY <1>8, <1>11 DEF Alike
<1>13. Turn(u, Codes) = [u EXCEPT !.mode = "symbols"]
  <2>1. Codes # Part
    BY DEF Codes, Part
  <2>2. QED BY <1>12, <2>1, Zenon DEF Turn
<1>14. PICK v : v = Feed(s, Field(w, Codes))
  OBVIOUS
<1>15. Alike([u EXCEPT !.mode = "symbols"], v)
  BY <1>11, <1>13, <1>14
<1>16. InBlock(v, p, f)
  BY <1>12, <1>15 DEF Alike, Decoder, InBlock
<1>17. QED BY <1>10, <1>14, <1>16

\* The code of a literal.
LEMMA LiteralFed ==
  ASSUME NEW r, NEW p, NEW f, InBlock(r, p, f), NEW w \in Nat \ {0}, NEW c \in 0..255
  PROVE  InBlock(Feed(r, Field(w, LitBit(c))), Append(p, c), f)
<1>1. /\ r \in Decoder /\ r.mode = "symbols" /\ r.len = 0 /\ r.plain = p /\ r.final = f
      /\ LitBit(c) \in Nat
  BY DEF InBlock, LitBit
<1>2. PICK u \in Decoder : Alike(r, u) /\ Alike(Turn(u, LitBit(c)), Feed(r, Field(w, LitBit(c))))
  BY <1>1, FieldFed
<1>3. u.mode = "symbols" /\ u.final = f /\ u.len = 0 /\ u.plain = p
  BY <1>1, <1>2 DEF Alike
<1>4. /\ LitBit(c) # Part /\ LitBit(c) # EndOfBlock /\ LitBit(c) >= LitBit(0)
      /\ LitBit(c) < LenBit(0) /\ LitBit(c) - LitBit(0) = c
  BY DEF LitBit, LenBit, Part, EndOfBlock
<1>5. Turn(u, LitBit(c)) = [u EXCEPT !.plain = Append(@, c)]
  BY <1>3, <1>4, Zenon DEF Turn, SymbolBit
<1>6. PICK v : v = Feed(r, Field(w, LitBit(c)))
  OBVIOUS
<1>7. Alike([u EXCEPT !.plain = Append(@, c)], v)
  BY <1>2, <1>5, <1>6
<1>8. InBlock(v, Append(p, c), f)
  BY <1>3, <1>7 DEF Alike, Decoder, InBlock
<1>9. QED BY <1>6, <1>8

\* The end-of-block code.
LEMMA EndFed ==
  ASSUME NEW r, NEW p, NEW f, InBlock(r, p, f), NEW w \in Nat \ {0}
  PROVE  IF f = 1 THEN AtEnd(Feed(r, Field(w, EndOfBlock)), p)
         ELSE AtBlock(Feed(r, Field(w, EndOfBlock)), p)
<1>1. /\ r \in Decoder /\ r.mode = "symbols" /\ r.len = 0 /\ r.plain = p /\ r.final = f
      /\ EndOfBlock \in Nat /\ EndOfBlock # Part
  BY DEF InBlock, EndOfBlock, Part
<1>2. PICK u \in Decoder : Alike(r, u)
                           /\ Alike(Turn(u, EndOfBlock), Feed(r, Field(w, EndOfBlock)))
  BY <1>1, FieldFed
<1>3. u.mode = "symbols" /\ u.final = f /\ u.len = 0 /\ u.plain = p
  BY <1>1, <1>2 DEF Alike
<1>4. Turn(u, EndOfBlock) = AfterBlock(u)
  BY <1>1, <1>3, Zenon DEF Turn, SymbolBit
<1>5. PICK v : v = Feed(r, Field(w, EndOfBlock))
  OBVIOUS
<1>6. Alike(AfterBlock(u), v)
  BY <1>2, <1>4, <1>5
<1>7. CASE f = 1
  <2>1. AfterBlock(u) = [u EXCEPT !.mode = "end", !.k = 0]
    BY <1>3, <1>7 DEF AfterBlock
  <2>2. AtEnd(v, p)
    BY <1>3, <1>6, <2>1 DEF Alike, Decoder, AtEnd
  <2>3. QED BY <1>5, <1>7, <2>2
<1>8. CASE f # 1
  <2>1. AfterBlock(u) = [u EXCEPT !.mode = "header", !.k = 0]
    BY <1>3, <1>8 DEF AfterBlock
  <2>2. AtBlock(v, p)
    BY <1>3, <1>6, <2>1 DEF Alike, Decoder, AtBlock
  <2>3. QED BY <1>5, <1>8, <2>2
<1>9. QED BY <1>7, <1>8

\* Zeros and ones.
Ones(n) == [i \in 1..n |-> 1]

LEMMA ZerosOnes ==
  ASSUME NEW n \in Nat
  PROVE  /\ Zeros(n) \in Seq(Nat) /\ Len(Zeros(n)) = n /\ \A i \in 1..n : Zeros(n)[i] = 0
         /\ Ones(n) \in Seq(Nat) /\ Len(Ones(n)) = n /\ \A i \in 1..n : Ones(n)[i] = 1
BY DEF Zeros, Ones

\* The bits that fill the last byte of the stream.
LEMMA PadFed ==
  ASSUME NEW r, NEW p, AtEnd(r, p), NEW z \in Nat, r.n # 0 \/ z = 0, r.n + z <= 8
  PROVE  AtEnd(Feed(r, Zeros(z)), p)
<1>1. r \in Decoder /\ r.mode = "end" /\ r.plain = p /\ Zeros(z) \in Seq(Nat)
      /\ Len(Zeros(z)) = z /\ \A i \in 1..z : Zeros(z)[i] = 0
  BY ZerosOnes DEF AtEnd
<1>2. PICK m \in 0..7 : m = r.n
  BY <1>1 DEF Decoder
<1>3. PICK g : Run(g, r, Zeros(z)) /\ Feed(r, Zeros(z)) = g[z]
  BY <1>1, FeedRun
<1> DEFINE S == {i \in Nat : i <= z => AtEnd(g[i], p) /\ g[i].n = (m + i) % 8}
<1>4. 0 \in S
  <2>1. g[0] = r /\ (m + 0) % 8 = m
    BY <1>3 DEF Run
  <2>2. QED BY <1>2, <2>1
<1>5. ASSUME NEW i \in S PROVE i + 1 \in S
  <2>1. SUFFICES ASSUME i + 1 <= z
                 PROVE  AtEnd(g[i + 1], p) /\ g[i + 1].n = (m + (i + 1)) % 8
    BY <1>5
  <2>2. i \in Nat /\ i + 1 \in 1..z /\ (i + 1) - 1 = i /\ i <= z
    BY <1>5, <2>1
  <2>3. g[i + 1] = TakeBit(g[i], 0)
    BY <1>1, <1>3, <2>2 DEF Run
  <2>4. AtEnd(g[i], p) /\ g[i].n = (m + i) % 8
    BY <1>5, <2>2
  <2>5. g[i] \in Decoder /\ g[i].mode = "end" /\ g[i].plain = p
    BY <2>4 DEF AtEnd
  <2>6. g[i].n # 0
    <3>1. m + i < 8 /\ m # 0
      BY <1>2, <2>1, <2>2
    <3>2. (m + i) % 8 = m + i
      BY <2>2, <3>1
    <3>3. QED BY <2>2, <2>4, <3>1, <3>2
  <2>7. Turn(g[i], 0) = g[i]
    BY <2>5, <2>6, Zenon DEF Turn
  <2>8. PICK q : q = TakeBit(g[i], 0)
    OBVIOUS
  <2>9. Alike(g[i], q)
    BY <2>5, <2>7, <2>8, TookTurn
  <2>10. q.n = (g[i].n + 1) % 8
    BY <2>5, <2>8, TakeBitCounts
  <2>11. (((m + i) % 8) + 1) % 8 = (m + (i + 1)) % 8
    <3>1. m + i \in Nat /\ (m + i) + 1 = m + (i + 1) /\ 1 \in Nat
      BY <2>2
    <3>2. QED BY <3>1, EightMore
  <2>12. AtEnd(q, p)
    BY <2>5, <2>9 DEF Alike, AtEnd
  <2>13. QED BY <2>3, <2>4, <2>8, <2>10, <2>11, <2>12
<1>6. S = Nat
  <2> HIDE DEF S
  <2>1. S \in SUBSET Nat
    BY DEF S
  <2>2. QED BY <1>4, <1>5, <2>1, InductiveSet
<1>7. QED BY <1>3, <1>6

\* Inside LEN and NLEN of a stored block, k of their bits taken.
InLength(r, p, f, k) ==
  /\ r \in Decoder /\ r.mode = "len" /\ r.k = k /\ r.len = 0 /\ r.plain = p
  /\ r.final = f

LEMMA LengthBitFed ==
  ASSUME NEW r, NEW p, NEW f, NEW k \in 0..30, InLength(r, p, f, k)
  PROVE  InLength(TakeBit(r, IF k < 16 THEN 0 ELSE 1), p, f, k + 1)
<1>1. PICK b \in Nat : b = IF k < 16 THEN 0 ELSE 1
  OBVIOUS
<1>2. r \in Decoder /\ r.mode = "len" /\ r.k = k /\ r.len = 0 /\ r.plain = p /\ r.final = f
  BY DEF InLength
<1>3. Turn(r, b) = [r EXCEPT !.k = @ + 1]
  <2>1. r.k # 31
    BY <1>2
  <2>2. b = IF r.k < 16 THEN 0 ELSE 1
    BY <1>1, <1>2
  <2>3. QED BY <1>2, <2>1, <2>2, Zenon DEF Turn, LengthBit
<1>4. PICK q : q = TakeBit(r, b)
  OBVIOUS
<1>5. Alike([r EXCEPT !.k = @ + 1], q)
  BY <1>2, <1>3, <1>4, TookTurn
<1>6. InLength(q, p, f, k + 1)
  BY <1>2, <1>5 DEF Alike, Decoder, InLength
<1>7. QED BY <1>1, <1>4, <1>6

LEMMA LengthFed ==
  ASSUME NEW r, NEW p, NEW f, InLength(r, p, f, 0)
  PROVE  IF f = 1 THEN AtEnd(Feed(r, Zeros(16) \o Ones(16)), p)
         ELSE AtBlock(Feed(r, Zeros(16) \o Ones(16)), p)
<1>1. r \in Decoder
  BY DEF InLength
<1>2. PICK s : s = Zeros(16) \o Ones(16)
  OBVIOUS
<1>3. /\ s \in Seq(Nat) /\ Len(s) = 32
      /\ \A i \in 1..32 : s[i] = IF i <= 16 THEN 0 ELSE 1
  <2>1. /\ Zeros(16) \in Seq(Nat) /\ Len(Zeros(16)) = 16
        /\ \A i \in 1..16 : Zeros(16)[i] = 0
        /\ Ones(16) \in Seq(Nat) /\ Len(Ones(16)) = 16
        /\ \A i \in 1..16 : Ones(16)[i] = 1
    BY ZerosOnes
  <2>2. /\ s \in Seq(Nat) /\ Len(s) = 32
        /\ (\A i \in 1..16 : s[i] = 0) /\ (\A i \in 1..16 : s[16 + i] = 1)
    <3>1. PICK z \in Seq(Nat), o \in Seq(Nat) : z = Zeros(16) /\ o = Ones(16)
      BY <2>1
    <3>2. s = z \o o /\ Len(z) = 16 /\ Len(o) = 16
      BY <1>2, <2>1, <3>1
    <3>3. /\ z \o o \in Seq(Nat) /\ Len(z \o o) = Len(z) + Len(o)
          /\ \A i \in 1..Len(z) : (z \o o)[i] = z[i]
          /\ \A i \in 1..Len(o) : (z \o o)[Len(z) + i] = o[i]
      BY Concatenated
    <3>4. \A i \in 1..16 : s[i] = 0
      BY <2>1, <3>1, <3>2, <3>3, Zenon
    <3>5. \A i \in 1..16 : s[16 + i] = 1
      <4>1. \A i \in 1..Len(o) : s[Len(z) + i] = o[i]
        BY <3>2, <3>3, Zenon
      <4>2. \A i \in 1..16 : s[16 + i] = o[i]
        BY <3>2, <4>1, Zenon
      <4>3. \A i \in 1..16 : o[i] = 1
        BY <2>1, <3>1, Zenon
      <4>4. SUFFICES ASSUME NEW i \in 1..16 PROVE s[16 + i] = 1
        OBVIOUS
      <4>5. s[16 + i] = o[i] /\ o[i] = 1
        BY <4>2, <4>3, Zenon
      <4>6. QED BY <4>5, Zenon
    <3>6. s \in Seq(Nat) /\ Len(s) = 32
      BY <3>2, <3>3
    <3>7. QED BY <3>4, <3>5, <3>6
  <2>3. \A i \in 17..32 : s[i] = 1
    <3>1. \A i \in 17..32 : i - 16 \in 1..16 /\ 16 + (i - 16) = i
      OBVIOUS
    <3>2. QED BY <2>2, <3>1
  <2>4. QED BY <2>2, <2>3
<1>4. PICK g : Run(g, r, s) /\ Feed(r, s) = g[32]
  BY <1>1, <1>3, FeedRun
<1> DEFINE S == {i \in Nat : i <= 31 => InLength(g[i], p, f, i)}
<1>5. 0 \in S
  BY <1>4 DEF Run
<1>6. ASSUME NEW i \in S PROVE i + 1 \in S
  <2>1. SUFFICES ASSUME i + 1 <= 31 PROVE InLength(g[i + 1], p, f, i + 1)
    BY <1>6
  <2>2. i \in 0..30 /\ i + 1 \in 1..32 /\ (i + 1) - 1 = i /\ i <= 31
    BY <1>6, <2>1
  <2>3. g[i + 1] = TakeBit(g[i], s[i + 1])
    BY <1>3, <1>4, <2>2 DEF Run
  <2>4. s[i + 1] = IF i < 16 THEN 0 ELSE 1
    <3>1. s[i + 1] = IF i + 1 <= 16 THEN 0 ELSE 1
      BY <1>3, <2>2
    <3>2. (i + 1 <= 16) <=> (i < 16)
      BY <2>2
    <3>3. QED BY <3>1, <3>2
  <2>5. InLength(g[i], p, f, i)
    BY <1>6, <2>2
  <2>6. QED BY <2>2, <2>3, <2>4, <2>5, LengthBitFed
<1>7. S = Nat
  <2> HIDE DEF S
  <2>1. S \in SUBSET Nat
    BY DEF S
  <2>2. QED BY <1>5, <1>6, <2>1, InductiveSet
<1>8. InLength(g[31], p, f, 31)
  BY <1>7
<1>9. PICK q : q = g[31]
  OBVIOUS
<1>10. /\ q \in Decoder /\ q.mode = "len" /\ q.k = 31 /\ q.len = 0 /\ q.plain = p
       /\ q.final = f
  BY <1>8, <1>9 DEF InLength
<1>11. g[32] = TakeBit(q, 1)
  <2>1. 32 \in 1..32 /\ 32 - 1 = 31 /\ s[32] = 1
    BY <1>3
  <2>2. QED BY <1>3, <1>4, <1>9, <2>1 DEF Run
<1>12. Turn(q, 1) = AfterBlock(q)
  <2>1. 1 = IF q.k < 16 THEN 0 ELSE 1
    BY <1>10
  <2>2. QED BY <1>10, <2>1, Zenon DEF Turn, LengthBit
<1>13. PICK v : v = g[32]
  OBVIOUS
<1>14. Alike(AfterBlock(q), v)
  BY <1>10, <1>11, <1>12, <1>13, TookTurn
<1>15. CASE f = 1
  <2>1. AfterBlock(q) = [q EXCEPT !.mode = "end", !.k = 0]
    BY <1>10, <1>15 DEF AfterBlock
  <2>2. AtEnd(v, p)
    BY <1>10, <1>14, <2>1 DEF Alike, Decoder, AtEnd
  <2>3. QED BY <1>2, <1>4, <1>13, <1>15, <2>2
<1>16. CASE f # 1
  <2>1. AfterBlock(q) = [q EXCEPT !.mode = "header", !.k = 0]
    BY <1>10, <1>16 DEF AfterBlock
  <2>2. AtBlock(v, p)
    BY <1>10, <1>14, <2>1 DEF Alike, Decoder, AtBlock
  <2>3. QED BY <1>2, <1>4, <1>13, <1>16, <2>2
<1>17. QED BY <1>15, <1>16

\* The three bits of a stored block's header, and the zeros up to the next byte.
LEMMA StoredHeaderFed ==
  ASSUME NEW r, NEW p, AtBlock(r, p), NEW f \in {0, 1}, NEW m \in 0..7,
         m = (r.n + 3) % 8
  PROVE  InLength(Feed(Feed(r, <<f, 0, 0>>), Zeros((8 - m) % 8)), p, f, 0)
<1>1. r \in Decoder /\ f \in Nat /\ 0 \in Nat
  BY DEF AtBlock
<1>2. PICK q : q = TakeBit(TakeBit(r, f), 0)
  OBVIOUS
<1>3. /\ q \in Decoder /\ q.mode = "header" /\ q.k = 2 /\ q.final = f
      /\ q.type = 0 /\ q.len = 0 /\ q.plain = p
  BY <1>2, TwoBits
<1>4. PICK s : s = TakeBit(q, 0)
  OBVIOUS
<1>5. Feed(r, <<f, 0, 0>>) = s
  BY <1>1, <1>2, <1>4, FeedThree
<1>6. s \in Decoder /\ s.n = (q.n + 1) % 8 /\ q.n \in 0..7
  BY <1>3, <1>4, TakeBitType, TakeBitCounts DEF Decoder
<1>7. s.n = m
  <2>1. <<f, 0, 0>> \in Seq(Nat) /\ Len(<<f, 0, 0>>) = 3
    BY <1>1
  <2>2. QED BY <1>1, <1>5, <2>1, FeedCounts
<1>8. Turn(q, 0) = [q EXCEPT !.mode = IF q.n = 7 THEN "len" ELSE "align", !.k = 0]
  <2>1. q.k # 0 /\ q.k # 1 /\ 0 \in {0, 1} /\ <<q.type, 0>> = <<0, 0>>
    BY <1>3
  <2>2. QED BY <1>3, <2>1, Zenon DEF Turn, HeaderBit
<1>9. CASE q.n = 7
  <2>1. m = 0
    BY <1>6, <1>7, <1>9
  <2>2. Alike([q EXCEPT !.mode = "len", !.k = 0], s)
    <3>1. Turn(q, 0) = [q EXCEPT !.mode = "len", !.k = 0]
      BY <1>8, <1>9
    <3>2. QED BY <1>1, <1>3, <1>4, <3>1, TookTurn
  <2>3. InLength(s, p, f, 0)
    BY <1>3, <2>2 DEF Alike, Decoder, InLength
  <2>4. Zeros((8 - m) % 8) = <<>>
    BY <2>1 DEF Zeros
  <2>5. QED BY <1>5, <1>6, <2>3, <2>4, FeedEmpty
<1>10. CASE q.n # 7
  <2>1. PICK z \in 1..7 : z = 8 - m /\ (8 - m) % 8 = z
    <3>1. m \in 1..7
      BY <1>6, <1>7, <1>10
    <3>2. 8 - m \in 1..7 /\ (8 - m) % 8 = 8 - m
      BY <3>1
    <3>3. QED BY <3>2
  <2>2. Alike([q EXCEPT !.mode = "align", !.k = 0], s)
    <3>1. Turn(q, 0) = [q EXCEPT !.mode = "align", !.k = 0]
      BY <1>8, <1>10
    <3>2. QED BY <1>1, <1>3, <1>4, <3>1, TookTurn
  <2>3. /\ s.mode = "align" /\ s.k = 0 /\ s.len = 0 /\ s.plain = p /\ s.final = f
    BY <1>3, <2>2 DEF Alike, Decoder
  <2>4. /\ Zeros(z) \in Seq(Nat) /\ Len(Zeros(z)) = z
        /\ \A i \in 1..z : Zeros(z)[i] = 0
    <3>1. z \in Nat
      OBVIOUS
    <3>2. QED BY <3>1, ZerosOnes, Zenon
  <2>5. PICK g : Run(g, s, Zeros(z)) /\ Feed(s, Zeros(z)) = g[z]
    BY <1>6, <2>4, FeedRun
  <2> DEFINE Aligning(x) == /\ x \in Decoder /\ x.mode = "align" /\ x.k = 0 /\ x.len = 0
                            /\ x.plain = p /\ x.final = f
             S == {i \in Nat : i <= z - 1 => Aligning(g[i]) /\ g[i].n = m + i}
  <2>6. 0 \in S
    <3>1. g[0] = s /\ m + 0 = m
      BY <2>5 DEF Run
    <3>2. QED BY <1>6, <1>7, <2>3, <3>1
  <2>7. ASSUME NEW i \in S PROVE i + 1 \in S
    <3>1. SUFFICES ASSUME i + 1 <= z - 1
                   PROVE  Aligning(g[i + 1]) /\ g[i + 1].n = m + (i + 1)
      BY <2>7
    <3>2. i \in Nat /\ i + 1 \in 1..z /\ (i + 1) - 1 = i /\ i <= z - 1 /\ m + i < 7
      BY <2>1, <2>7, <3>1
    <3>3. g[i + 1] = TakeBit(g[i], 0)
      BY <2>4, <2>5, <3>2 DEF Run
    <3>4. PICK x : x = g[i]
      OBVIOUS
    <3>5. /\ x \in Decoder /\ x.mode = "align" /\ x.k = 0 /\ x.len = 0
          /\ x.plain = p /\ x.final = f /\ x.n = m + i
      BY <2>7, <3>2, <3>4
    <3>6. Turn(x, 0) = x
      <4>1. x.n # 7
        BY <3>2, <3>5
      <4>2. QED BY <3>5, <4>1, Zenon DEF Turn
    <3>7. PICK y : y = TakeBit(x, 0)
      OBVIOUS
    <3>8. Alike(x, y)
      BY <1>1, <3>5, <3>6, <3>7, TookTurn
    <3>9. Aligning(y)
      BY <3>5, <3>8 DEF Alike
    <3>10. y.n = m + (i + 1)
      <4>1. y.n = (x.n + 1) % 8
        BY <3>5, <3>7, TakeBitCounts
      <4>2. (m + i + 1) % 8 = m + (i + 1)
        BY <3>2
      <4>3. QED BY <3>5, <4>1, <4>2
    <3>11. QED BY <3>3, <3>4, <3>7, <3>9, <3>10
  <2>8. S = Nat
    <3> HIDE DEF S
    <3>1. S \in SUBSET Nat
      BY DEF S
    <3>2. QED BY <2>6, <2>7, <3>1, InductiveSet
  <2>9. PICK x : x = g[z - 1]
    OBVIOUS
  <2>10. /\ x \in Decoder /\ x.mode = "align" /\ x.k = 0 /\ x.len = 0
         /\ x.plain = p /\ x.final = f /\ x.n = 7
    <3>1. z - 1 \in S /\ m + (z - 1) = 7
      BY <2>1, <2>8
    <3>2. QED BY <2>9, <3>1
  <2>11. g[z] = TakeBit(x, 0)
    <3>1. z \in 1..z
      BY <2>1
    <3>2. QED BY <2>4, <2>5, <2>9, <3>1 DEF Run
  <2>12. Turn(x, 0) = [x EXCEPT !.mode = "len"]
    BY <2>10, Zenon DEF Turn
  <2>13. PICK y : y = g[z]
    OBVIOUS
  <2>14. Alike([x EXCEPT !.mode = "len"], y)
    BY <1>1, <2>10, <2>11, <2>12, <2>13, TookTurn
  <2>15. InLength(y, p, f, 0)
    BY <2>10, <2>14 DEF Alike, Decoder, InLength
  <2>16. QED BY <1>5, <2>1, <2>5, <2>13, <2>15
<1>11. QED BY <1>9, <1>10

\* A stored block without data.
LEMMA EmptyBlockFed ==
  ASSUME NEW r, NEW p, AtBlock(r, p), NEW f \in {0, 1}, NEW z \in 0..7,
         z = (8 - ((r.n + 3) % 8)) % 8
  PROVE  LET q == Feed(r, <<f, 0, 0>> \o (Zeros(z) \o (Zeros(16) \o Ones(16)))) IN
           IF f = 1 THEN AtEnd(q, p) ELSE AtBlock(q, p)
<1>1. r \in Decoder /\ r.n \in Nat
  BY DEF AtBlock, Decoder
<1>2. PICK m \in 0..7 : m = (r.n + 3) % 8
  BY <1>1
<1>3. PICK h, a, b : h = <<f, 0, 0>> /\ a = Zeros(z) /\ b = Zeros(16) \o Ones(16)
  OBVIOUS
<1>4. h \in Seq(Nat) /\ a \in Seq(Nat) /\ b \in Seq(Nat)
  <2>1. Zeros(16) \in Seq(Nat) /\ Ones(16) \in Seq(Nat) /\ Zeros(z) \in Seq(Nat)
    <3>1. z \in Nat /\ 16 \in Nat
      OBVIOUS
    <3>2. QED BY <3>1, ZerosOnes, Zenon
  <2>2. b \in Seq(Nat)
    BY <1>3, <2>1, Concatenated
  <2>3. h \in Seq(Nat)
    BY <1>3
  <2>4. QED BY <1>3, <2>1, <2>2, <2>3
<1>5. a \o b \in Seq(Nat)
  BY <1>4, Concatenated
<1>6. PICK s : s = Feed(r, h)
  OBVIOUS
<1>7. s \in Decoder
  BY <1>1, <1>4, <1>6, FeedType
<1>8. PICK u : u = Feed(s, a)
  OBVIOUS
<1>9. InLength(u, p, f, 0)
  BY <1>2, <1>3, <1>6, <1>8, StoredHeaderFed
<1>10. Feed(r, h \o (a \o b)) = Feed(u, b)
  <2>1. Feed(r, h \o (a \o b)) = Feed(s, a \o b)
    BY <1>1, <1>4, <1>5, <1>6, FeedConcat
  <2>2. Feed(s, a \o b) = Feed(u, b)
    BY <1>4, <1>7, <1>8, FeedConcat
  <2>3. QED BY <2>1, <2>2
<1>11. IF f = 1 THEN AtEnd(Feed(u, b), p) ELSE AtBlock(Feed(u, b), p)
  BY <1>3, <1>9, LengthFed
<1>12. QED BY <1>3, <1>10, <1>11

(***************************************************************************)
(* The bit buffer                                                          *)
(***************************************************************************)
Buffers == [out : Seq(Nat), bits : Seq(Nat)]

\* Output holds whole bytes, and the register is not overfull.
BufOK(b) == b \in Buffers /\ Len(b.out) % 8 = 0 /\ Len(b.bits) <= RegBits

\* All the bits that are not sent yet.
Stream(b) == b.out \o b.bits

LEMMA RegFacts == RegBits \in 16..64 /\ RegBits % 8 = 0
<1>1. PICK n \in 2..8 : RegBits = 8 * n
  BY RegisterAssumption
<1>2. 8 * n \in 16..64 /\ (8 * n) % 8 = 0
  BY <1>1
<1>3. QED BY <1>1, <1>2

LEMMA Assoc == \A s, t, u \in Seq(Nat) : (s \o t) \o u = s \o (t \o u)
<1>1. TAKE s, t, u \in Seq(Nat)
<1>2. QED BY <1>1, ConcatAssociative, SMTT(60)

LEMMA Join == \A s, t \in Seq(Nat) : s \o t \in Seq(Nat) /\ Len(s \o t) = Len(s) + Len(t)
BY Concatenated

\* The same facts under a name, which the provers instantiate more easily.
Joins(s, t) == s \o t \in Seq(Nat) /\ Len(s \o t) = Len(s) + Len(t)
Regroups(s, t, u) == (s \o t) \o u = s \o (t \o u)

RegroupsFive(s, h, x, y, u) ==
  (((s \o h) \o x) \o y) \o u = s \o (h \o (x \o (y \o u)))

LEMMA AllJoin == \A s, t \in Seq(Nat) : Joins(s, t)
BY Join DEF Joins

LEMMA AllRegroup == \A s, t, u \in Seq(Nat) : Regroups(s, t, u)
BY Assoc DEF Regroups

LEMMA AssocFive ==
  ASSUME NEW s \in Seq(Nat), NEW h \in Seq(Nat), NEW x \in Seq(Nat),
         NEW y \in Seq(Nat), NEW u \in Seq(Nat)
  PROVE  RegroupsFive(s, h, x, y, u)
<1>1. PICK a \in Seq(Nat), b \in Seq(Nat), c \in Seq(Nat), d \in Seq(Nat) :
        a = s \o h /\ b = a \o x /\ c = y \o u /\ d = x \o c
  <2>1. s \o h \in Seq(Nat) /\ (s \o h) \o x \in Seq(Nat) /\ y \o u \in Seq(Nat)
        /\ x \o (y \o u) \in Seq(Nat)
    BY Join
  <2>2. QED BY <2>1
<1>2. (b \o y) \o u = b \o (y \o u)
  <2>1. Regroups(b, y, u)
    BY AllRegroup, Zenon
  <2>2. QED BY <2>1, Zenon DEF Regroups
<1>3. (a \o x) \o c = a \o (x \o c)
  <2>1. Regroups(a, x, c)
    BY AllRegroup, Zenon
  <2>2. QED BY <2>1, Zenon DEF Regroups
<1>4. (s \o h) \o d = s \o (h \o d)
  <2>1. Regroups(s, h, d)
    BY AllRegroup, Zenon
  <2>2. QED BY <2>1, Zenon DEF Regroups
<1>5. QED BY <1>1, <1>2, <1>3, <1>4, Zenon DEF RegroupsFive

\* Whole bytes are taken from the front of a register.
LEMMA Split ==
  ASSUME NEW S, NEW s \in Seq(S), NEW n \in 0..Len(s)
  PROVE  /\ SubSeq(s, 1, n) \in Seq(S) /\ Len(SubSeq(s, 1, n)) = n
         /\ SubSeq(s, n + 1, Len(s)) \in Seq(S)
         /\ Len(SubSeq(s, n + 1, Len(s))) = Len(s) - n
         /\ SubSeq(s, 1, n) \o SubSeq(s, n + 1, Len(s)) = s
<1>1. SubSeq(s, 1, n) \in Seq(S) /\ Len(SubSeq(s, 1, n)) = n
  OBVIOUS
<1>2. SubSeq(s, n + 1, Len(s)) \in Seq(S) /\ Len(SubSeq(s, n + 1, Len(s))) = Len(s) - n
  OBVIOUS
<1>3. SubSeq(s, 1, n) \o SubSeq(s, n + 1, Len(s)) = SubSeq(s, 1, Len(s))
  <2>1. /\ 1 \in 1..Len(s) + 1 /\ n \in 1 - 1..Len(s) /\ Len(s) \in n..Len(s)
    OBVIOUS
  <2>2. QED BY <2>1, ConcatAdjacentSubSeq
<1>4. SubSeq(s, 1, Len(s)) = s
  BY SubSeqFull
<1>5. QED BY <1>1, <1>2, <1>3, <1>4

LEMMA StreamFacts ==
  ASSUME NEW b \in Buffers
  PROVE  /\ b.out \in Seq(Nat) /\ b.bits \in Seq(Nat) /\ Stream(b) \in Seq(Nat)
         /\ Len(b.out) \in Nat /\ Len(b.bits) \in Nat
         /\ Len(Stream(b)) = Len(b.out) + Len(b.bits)
<1>1. b.out \in Seq(Nat) /\ b.bits \in Seq(Nat)
  BY DEF Buffers
<1>2. QED BY <1>1, Concatenated DEF Stream

\* Whole registers and whole bytes are written behind whole bytes.
LEMMA EvenSum ==
  ASSUME NEW x \in Nat, NEW y \in Nat, x % 8 = 0, y % 8 = 0
  PROVE  (x + y) % 8 = 0
<1>1. ((x % 8) + y) % 8 = (x + y) % 8
  BY EightMore
<1>2. QED BY <1>1

LEMMA WriteBitFacts ==
  ASSUME NEW b, BufOK(b), NEW f \in Seq(Nat), Len(f) <= RegBits
  PROVE  /\ BufOK(WriteBit(b, f))
         /\ Stream(WriteBit(b, f)) = Stream(b) \o f
         /\ Len(WriteBit(b, f).out) <= Len(b.out) + RegBits
<1>1. /\ b \in Buffers /\ b.out \in Seq(Nat) /\ b.bits \in Seq(Nat)
      /\ Len(b.out) % 8 = 0 /\ Len(b.bits) <= RegBits
      /\ Len(b.out) \in Nat /\ Len(b.bits) \in Nat
  BY StreamFacts DEF BufOK
<1>2. PICK r : r = b.bits \o f
  OBVIOUS
<1>3. r \in Seq(Nat) /\ Len(r) = Len(b.bits) + Len(f) /\ Len(r) <= 2 * RegBits
      /\ b.out \o r = Stream(b) \o f
  <2>1. r \in Seq(Nat) /\ Len(r) = Len(b.bits) + Len(f)
    BY <1>1, <1>2, Concatenated
  <2>2. b.out \o r = Stream(b) \o f
    <3>1. b.out \o (b.bits \o f) = (b.out \o b.bits) \o f
      BY <1>1, Assoc, Zenon
    <3>2. QED BY <1>2, <3>1, Zenon DEF Stream
  <2>3. Len(r) <= 2 * RegBits
    <3>1. RegBits \in Nat /\ Len(f) \in Nat
      BY RegFacts
    <3>2. QED BY <1>1, <2>1, <3>1
  <2>4. QED BY <2>1, <2>2, <2>3
<1>4. CASE Len(r) > RegBits
  <2>1. PICK o, t : o = SubSeq(r, 1, RegBits) /\ t = SubSeq(r, RegBits + 1, Len(r))
    OBVIOUS
  <2>2. WriteBit(b, f) = [out |-> b.out \o o, bits |-> t]
    BY <1>2, <1>4, <2>1 DEF WriteBit
  <2>3. /\ o \in Seq(Nat) /\ Len(o) = RegBits /\ t \in Seq(Nat)
        /\ Len(t) = Len(r) - RegBits /\ o \o t = r
    <3>1. RegBits \in 0..Len(r)
      BY <1>3, <1>4, RegFacts
    <3>2. PICK n \in 0..Len(r) : n = RegBits
      BY <3>1
    <3>3. /\ SubSeq(r, 1, n) \in Seq(Nat) /\ Len(SubSeq(r, 1, n)) = n
          /\ SubSeq(r, n + 1, Len(r)) \in Seq(Nat)
          /\ Len(SubSeq(r, n + 1, Len(r))) = Len(r) - n
          /\ SubSeq(r, 1, n) \o SubSeq(r, n + 1, Len(r)) = r
      BY <1>3, Split
    <3>4. QED BY <2>1, <3>2, <3>3, Zenon
  <2>4. b.out \o o \in Seq(Nat) /\ Len(b.out \o o) = Len(b.out) + RegBits
    BY <1>1, <2>3, Concatenated
  <2>5. Len(b.out \o o) % 8 = 0
    <3>1. (Len(b.out) + RegBits) % 8 = 0
      <4>1. RegBits \in Nat /\ RegBits % 8 = 0
        BY RegFacts
      <4>2. QED BY <1>1, <4>1, EvenSum, Zenon
    <3>2. QED BY <2>4, <3>1, Zenon
  <2>6. Len(t) <= RegBits
    BY <1>3, <2>3, RegFacts
  <2>7. (b.out \o o) \o t = Stream(b) \o f
    <3>1. (b.out \o o) \o t = b.out \o (o \o t)
      BY <1>1, <2>3, Assoc, Zenon
    <3>2. QED BY <1>3, <2>3, <3>1
  <2>8. BufOK(WriteBit(b, f))
    BY <2>2, <2>3, <2>4, <2>5, <2>6 DEF BufOK, Buffers
  <2>9. Stream(WriteBit(b, f)) = Stream(b) \o f
    <3>1. WriteBit(b, f).out = b.out \o o /\ WriteBit(b, f).bits = t
      BY <2>2
    <3>2. QED BY <2>7, <3>1, Zenon DEF Stream
  <2>10. Len(WriteBit(b, f).out) <= Len(b.out) + RegBits
    BY <1>1, <2>2, <2>4, RegFacts
  <2>11. QED BY <2>8, <2>9, <2>10
<1>5. CASE ~(Len(r) > RegBits)
  <2>1. WriteBit(b, f) = [b EXCEPT !.bits = r]
    BY <1>2, <1>5 DEF WriteBit
  <2>2. PICK w : w = WriteBit(b, f)
    OBVIOUS
  <2>3. w \in Buffers /\ w.out = b.out /\ w.bits = r
    BY <1>1, <1>3, <2>1, <2>2 DEF Buffers
  <2>4. Len(r) <= RegBits
    BY <1>3, <1>5, RegFacts
  <2>5. BufOK(w)
    BY <1>1, <2>3, <2>4, Zenon DEF BufOK
  <2>6. Stream(w) = Stream(b) \o f
    BY <1>3, <2>3, Zenon DEF Stream
  <2>7. Len(w.out) <= Len(b.out) + RegBits
    BY <1>1, <2>3, RegFacts
  <2>8. QED BY <2>2, <2>5, <2>6, <2>7
<1>6. QED BY <1>4, <1>5

LEMMA SyncFacts ==
  ASSUME NEW b \in Buffers, Len(b.out) % 8 = 0
  PROVE  /\ BufOK(Sync(b)) /\ Len(Sync(b).bits) \in 0..7
         /\ Stream(Sync(b)) = Stream(b)
         /\ Len(Sync(b).out) <= Len(b.out) + Len(b.bits)
<1>1. /\ b.out \in Seq(Nat) /\ b.bits \in Seq(Nat)
      /\ Len(b.out) \in Nat /\ Len(b.bits) \in Nat
  BY StreamFacts
<1>2. PICK l \in Nat : l = Len(b.bits)
  BY <1>1
<1>3. PICK n \in Nat : n = (l \div 8) * 8
  OBVIOUS
<1>4. n <= l /\ l - n \in 0..7 /\ n % 8 = 0
  BY <1>3
<1>5. PICK o, t : o = SubSeq(b.bits, 1, n) /\ t = SubSeq(b.bits, n + 1, Len(b.bits))
  OBVIOUS
<1>6. Sync(b) = [out |-> b.out \o o, bits |-> t]
  BY <1>2, <1>3, <1>5 DEF Sync
<1>7. /\ o \in Seq(Nat) /\ Len(o) = n /\ t \in Seq(Nat) /\ Len(t) = l - n /\ o \o t = b.bits
  <2>1. n \in 0..Len(b.bits)
    BY <1>2, <1>4
  <2>2. QED BY <1>1, <1>2, <1>5, <2>1, Split
<1>8. b.out \o o \in Seq(Nat) /\ Len(b.out \o o) = Len(b.out) + n
  BY <1>1, <1>7, Concatenated
<1>9. Len(b.out \o o) % 8 = 0
  BY <1>1, <1>4, <1>8, EvenSum
<1>10. Len(t) \in 0..7 /\ Len(t) <= RegBits
  <2>1. PICK x \in 0..7 : x = Len(t)
    BY <1>4, <1>7
  <2>2. x <= RegBits
    BY RegFacts
  <2>3. QED BY <2>1, <2>2, Zenon
<1>11. BufOK(Sync(b)) /\ Len(Sync(b).bits) \in 0..7
  <2>1. PICK w : w = Sync(b)
    OBVIOUS
  <2>2. w \in Buffers /\ w.out = b.out \o o /\ w.bits = t
    BY <1>6, <1>7, <1>8, <2>1 DEF Buffers
  <2>3. QED BY <1>9, <1>10, <2>1, <2>2, Zenon DEF BufOK
<1>12. Stream(Sync(b)) = Stream(b)
  <2>1. (b.out \o o) \o t = b.out \o (o \o t)
    BY <1>1, <1>7, Assoc, Zenon
  <2>2. Sync(b).out = b.out \o o /\ Sync(b).bits = t
    BY <1>6
  <2>3. QED BY <1>7, <2>1, <2>2, Zenon DEF Stream
<1>13. Len(Sync(b).out) <= Len(b.out) + Len(b.bits)
  <2>1. Sync(b).out = b.out \o o
    BY <1>6
  <2>2. PICK x \in Nat : x = Len(b.out)
    BY <1>1
  <2>3. x + n <= x + l
    BY <1>4
  <2>4. QED BY <1>2, <1>8, <2>1, <2>2, <2>3, Zenon
<1>14. QED BY <1>11, <1>12, <1>13

\* How many zeros fill the last byte.
Missing(n) == (8 - (n % 8)) % 8

LEMMA MissingFacts ==
  ASSUME NEW n \in Nat
  PROVE  /\ Missing(n) \in 0..7 /\ (n + Missing(n)) % 8 = 0
         /\ (n % 8 # 0 \/ Missing(n) = 0) /\ (n % 8) + Missing(n) <= 8
<1>1. PICK m \in 0..7 : m = n % 8
  OBVIOUS
<1>2. PICK z \in 0..7 : z = (8 - m) % 8
  BY <1>1
<1>3. (m # 0 \/ z = 0) /\ m + z <= 8 /\ (m + z) % 8 = 0
  BY <1>2
<1>4. ((n % 8) + z) % 8 = (n + z) % 8
  BY EightMore
<1>5. Missing(n) = z
  BY <1>1, <1>2 DEF Missing
<1>6. QED BY <1>1, <1>3, <1>4, <1>5

\* Whole bytes in front make no difference.
LEMMA MissingShift ==
  ASSUME NEW x \in Nat, x % 8 = 0, NEW y \in Nat
  PROVE  Missing(x + y) = Missing(y)
<1>1. (x + y) % 8 = y % 8
  <2>1. ((x % 8) + y) % 8 = (x + y) % 8
    BY EightMore
  <2>2. QED BY <2>1
<1>2. QED BY <1>1, Zenon DEF Missing

LEMMA FlushLastByteFacts ==
  ASSUME NEW b \in Buffers, Len(b.out) % 8 = 0
  PROVE  LET z == Missing(Len(Stream(b))) IN
         /\ BufOK(FlushLastByte(b)) /\ FlushLastByte(b).bits = <<>>
         /\ Stream(FlushLastByte(b)) = Stream(b) \o Zeros(z)
         /\ FlushLastByte(b).out = Stream(b) \o Zeros(z)
         /\ Len(FlushLastByte(b).out) <= Len(b.out) + Len(b.bits) + 7
<1>1. /\ b.out \in Seq(Nat) /\ b.bits \in Seq(Nat) /\ Stream(b) \in Seq(Nat)
      /\ Len(b.out) \in Nat /\ Len(b.bits) \in Nat
      /\ Len(Stream(b)) = Len(b.out) + Len(b.bits)
  BY StreamFacts
<1>2. PICK z \in 0..7 : z = Missing(Len(b.bits)) /\ (Len(b.bits) + z) % 8 = 0
  BY <1>1, MissingFacts
<1>3. /\ Zeros(z) \in Seq(Nat) /\ Len(Zeros(z)) = z
  <2>1. z \in Nat
    OBVIOUS
  <2>2. QED BY <2>1, ZerosOnes, Zenon
<1>4. PICK o : o = Stream(b) \o Zeros(z)
  OBVIOUS
<1>5. o \in Seq(Nat) /\ Len(o) = Len(b.out) + Len(b.bits) + z
  <2>1. o \in Seq(Nat) /\ Len(o) = Len(Stream(b)) + Len(Zeros(z))
    BY <1>1, <1>3, <1>4, Concatenated
  <2>2. QED BY <1>1, <1>3, <2>1
<1>6. FlushLastByte(b) = [out |-> o, bits |-> <<>>]
  BY <1>2, <1>4 DEF FlushLastByte, Stream, Missing
<1>7. Len(o) % 8 = 0
  <2>1. (Len(b.out) + (Len(b.bits) + z)) % 8 = 0
    <3>1. Len(b.bits) + z \in Nat
      BY <1>1
    <3>2. QED BY <1>1, <1>2, <3>1, EvenSum
  <2>2. PICK x \in Nat, y \in Nat : x = Len(b.out) /\ y = Len(b.bits)
    BY <1>1
  <2>3. x + (y + z) = x + y + z
    OBVIOUS
  <2>4. QED BY <1>5, <2>1, <2>2, <2>3, Zenon
<1>8. <<>> \in Seq(Nat) /\ Len(<<>>) = 0 /\ 0 <= RegBits
  BY RegFacts
<1>9. BufOK(FlushLastByte(b))
  <2>1. PICK w : w = FlushLastByte(b)
    OBVIOUS
  <2>2. w \in Buffers /\ w.out = o /\ w.bits = <<>>
    BY <1>5, <1>6, <1>8, <2>1 DEF Buffers
  <2>3. QED BY <1>7, <1>8, <2>1, <2>2, Zenon DEF BufOK
<1>10. o \o <<>> = o
  BY <1>5, ConcatEmptySeq
<1>11. Len(o) <= Len(b.out) + Len(b.bits) + 7
  BY <1>1, <1>5
<1>12. FlushLastByte(b).out = o /\ FlushLastByte(b).bits = <<>>
  BY <1>6
<1>13. Stream(FlushLastByte(b)) = o
  BY <1>10, <1>12, Zenon DEF Stream
<1>14. z = Missing(Len(Stream(b)))
  <2>1. Missing(Len(b.out) + Len(b.bits)) = Missing(Len(b.bits))
    BY <1>1, MissingShift, Zenon
  <2>2. QED BY <1>1, <1>2, <2>1, Zenon
<1>15. QED BY <1>4, <1>9, <1>11, <1>12, <1>13, <1>14, Zenon

\* The bits of a stored block without data that follows n bits.
EmptyBlock(f, n) ==
  <<f, 0, 0>> \o (Zeros(Missing(n + 3)) \o (Zeros(16) \o Ones(16)))

LEMMA HeaderBits ==
  ASSUME NEW f \in {0, 1}, NEW d \in {0, 1}
  PROVE  <<f, 0, d>> \in Seq(Nat) /\ Len(<<f, 0, d>>) = 3
OBVIOUS

LEMMA EmptyBlockBits ==
  ASSUME NEW f \in {0, 1}, NEW n \in Nat
  PROVE  EmptyBlock(f, n) \in Seq(Nat)
<1>1. PICK z \in Nat : z = Missing(n + 3)
  <2>1. n + 3 \in Nat
    OBVIOUS
  <2>2. Missing(n + 3) \in 0..7
    BY <2>1, MissingFacts, Zenon
  <2>3. QED BY <2>2
<1>2. Zeros(z) \in Seq(Nat) /\ Zeros(16) \in Seq(Nat) /\ Ones(16) \in Seq(Nat)
  <2>1. 16 \in Nat
    OBVIOUS
  <2>2. QED BY <2>1, ZerosOnes, Zenon
<1>3. \A s, t \in Seq(Nat) : s \o t \in Seq(Nat)
  BY Concatenated
<1>4. <<f, 0, 0>> \in Seq(Nat)
  BY HeaderBits
<1>5. QED BY <1>1, <1>2, <1>3, <1>4, Zenon DEF EmptyBlock

LEMMA WriteEmptyBlockFacts ==
  ASSUME NEW b, BufOK(b), NEW f \in {0, 1}
  PROVE  /\ BufOK(WriteEmptyBlock(b, f)) /\ WriteEmptyBlock(b, f).bits = <<>>
         /\ Stream(WriteEmptyBlock(b, f)) = Stream(b) \o EmptyBlock(f, Len(Stream(b)))
         /\ WriteEmptyBlock(b, f).out = Stream(WriteEmptyBlock(b, f))
         /\ Len(WriteEmptyBlock(b, f).out) <= Len(b.out) + Len(b.bits) + 42
<1>1. PICK h : h = <<f, 0, 0>>
  OBVIOUS
<1>2. h \in Seq(Nat) /\ Len(h) = 3 /\ Len(h) <= RegBits
  BY <1>1, HeaderBits, RegFacts
<1>3. PICK w : w = WriteBit(b, h)
  OBVIOUS
<1>4. BufOK(w) /\ Stream(w) = Stream(b) \o h
  BY <1>2, <1>3, WriteBitFacts
<1>5. /\ w \in Buffers /\ Len(w.out) % 8 = 0
      /\ Stream(b) \in Seq(Nat) /\ Stream(w) \in Seq(Nat)
      /\ Len(Stream(w)) = Len(w.out) + Len(w.bits)
      /\ Len(w.out) \in Nat /\ Len(w.bits) \in Nat
      /\ Len(Stream(b)) = Len(b.out) + Len(b.bits)
      /\ Len(b.out) \in Nat /\ Len(b.bits) \in Nat
  <2>1. w \in Buffers /\ Len(w.out) % 8 = 0 /\ b \in Buffers
    BY <1>4 DEF BufOK
  <2>2. QED BY <2>1, StreamFacts
<1>6. Len(Stream(w)) = Len(Stream(b)) + 3
  BY <1>2, <1>4, <1>5, Join, Zenon
<1>7. PICK z \in Nat : z = Missing(Len(Stream(b)) + 3) /\ z <= 7
  <2>1. Len(Stream(b)) + 3 \in Nat
    <3>1. Len(Stream(b)) \in Nat
      BY <1>5, Zenon, LenProperties
    <3>2. QED BY <3>1
  <2>2. Missing(Len(Stream(b)) + 3) \in 0..7
    BY <2>1, MissingFacts, Zenon
  <2>3. QED BY <2>2
<1>8. PICK a : a = FlushLastByte(w)
  OBVIOUS
<1>9. BufOK(a) /\ a.bits = <<>> /\ a.out = Stream(w) \o Zeros(z)
  BY <1>5, <1>6, <1>7, <1>8, FlushLastByteFacts
<1>10. /\ Zeros(z) \in Seq(Nat) /\ Len(Zeros(z)) = z
       /\ Zeros(16) \in Seq(Nat) /\ Len(Zeros(16)) = 16
       /\ Ones(16) \in Seq(Nat) /\ Len(Ones(16)) = 16
  <2>1. 16 \in Nat
    OBVIOUS
  <2>2. QED BY <2>1, ZerosOnes, Zenon
<1>11. PICK o : o = (a.out \o Zeros(16)) \o Ones(16)
  OBVIOUS
<1>12. WriteEmptyBlock(b, f) = [a EXCEPT !.out = o]
  BY <1>1, <1>3, <1>8, <1>11 DEF WriteEmptyBlock, Ones
<1>13. a \in Buffers /\ a.out \in Seq(Nat) /\ Len(a.out) % 8 = 0 /\ Len(a.out) \in Nat
  BY <1>9, StreamFacts DEF BufOK
<1>14. o \in Seq(Nat) /\ Len(o) = Len(a.out) + 32
  <2>1. a.out \o Zeros(16) \in Seq(Nat) /\ Len(a.out \o Zeros(16)) = Len(a.out) + 16
    <3>1. Joins(a.out, Zeros(16))
      BY <1>10, <1>13, AllJoin, Zenon
    <3>2. QED BY <1>10, <3>1, Zenon DEF Joins
  <2>2. o \in Seq(Nat) /\ Len(o) = (Len(a.out) + 16) + 16
    BY <1>10, <1>11, <2>1, Join, Zenon
  <2>3. QED BY <1>13, <2>2
<1>15. Len(o) % 8 = 0
  <2>1. 32 \in Nat /\ 32 % 8 = 0
    OBVIOUS
  <2>2. QED BY <1>13, <1>14, <2>1, EvenSum, Zenon
<1>16. PICK c : c = WriteEmptyBlock(b, f)
  OBVIOUS
<1>17. c \in Buffers /\ c.out = o /\ c.bits = <<>>
  BY <1>9, <1>12, <1>13, <1>14, <1>16 DEF Buffers
<1>18. BufOK(c)
  <2>1. Len(<<>>) = 0 /\ 0 <= RegBits
    BY RegFacts
  <2>2. QED BY <1>15, <1>17, <2>1, Zenon DEF BufOK
<1>19. Stream(c) = c.out
  <2>1. o \o <<>> = o
    BY <1>14, ConcatEmptySeq
  <2>2. QED BY <1>17, <2>1, Zenon DEF Stream
<1>20. o = Stream(b) \o EmptyBlock(f, Len(Stream(b)))
  <2>1. PICK s \in Seq(Nat), x \in Seq(Nat), y \in Seq(Nat), u \in Seq(Nat) :
          s = Stream(b) /\ x = Zeros(z) /\ y = Zeros(16) /\ u = Ones(16)
    BY <1>5, <1>10
  <2>4. o = (((s \o h) \o x) \o y) \o u
    BY <1>4, <1>9, <1>11, <2>1, Zenon
  <2>5. (((s \o h) \o x) \o y) \o u = s \o (h \o (x \o (y \o u)))
    <3>1. RegroupsFive(s, h, x, y, u)
      BY <1>2, AssocFive
    <3>2. QED BY <3>1, Zenon DEF RegroupsFive
  <2>8. h \o (x \o (y \o u)) = EmptyBlock(f, Len(Stream(b)))
    BY <1>1, <1>7, <2>1, Zenon DEF EmptyBlock
  <2>9. QED BY <2>1, <2>4, <2>5, <2>8, Zenon
<1>21. Len(o) <= Len(b.out) + Len(b.bits) + 42
  <2>1. Len(a.out) = Len(Stream(w)) + z
    BY <1>5, <1>9, <1>10, Join, Zenon
  <2>2. PICK x \in Nat, y \in Nat : x = Len(b.out) /\ y = Len(b.bits)
    BY <1>5
  <2>3. Len(o) = x + y + 3 + z + 32
    BY <1>5, <1>6, <1>14, <2>1, <2>2
  <2>4. x + y + 3 + z + 32 <= x + y + 42
    BY <1>7
  <2>5. QED BY <2>2, <2>3, <2>4, Zenon
<1>22. QED BY <1>16, <1>17, <1>18, <1>19, <1>20, <1>21, Zenon

\* What the decoder makes of an empty block, and of the last byte's zeros.
LEMMA EmptyBlockRead ==
  ASSUME NEW r \in Decoder, r.n = 0, NEW s \in Seq(Nat), NEW p, AtBlock(Feed(r, s), p),
         NEW f \in {0, 1}
  PROVE  LET q == Feed(r, s \o EmptyBlock(f, Len(s))) IN
           IF f = 1 THEN AtEnd(q, p) ELSE AtBlock(q, p)
<1>1. Len(s) \in Nat
  OBVIOUS
<1>2. PICK u : u = Feed(r, s)
  OBVIOUS
<1>3. u.n = Len(s) % 8
  <2>1. u.n = (r.n + Len(s)) % 8
    BY <1>2, FeedCounts
  <2>2. r.n + Len(s) = Len(s)
    BY <1>1
  <2>3. QED BY <2>1, <2>2, Zenon
<1>4. PICK z \in 0..7 : z = Missing(Len(s) + 3) /\ z = (8 - ((u.n + 3) % 8)) % 8
  <2>1. Len(s) + 3 \in Nat
    BY <1>1
  <2>2. Missing(Len(s) + 3) \in 0..7
    BY <2>1, MissingFacts, Zenon
  <2>3. ((Len(s) % 8) + 3) % 8 = (Len(s) + 3) % 8
    BY <1>1, EightMore
  <2>4. Missing(Len(s) + 3) = (8 - ((u.n + 3) % 8)) % 8
    BY <1>3, <2>3, Zenon DEF Missing
  <2>5. QED BY <2>2, <2>4
<1>5. PICK e : e = <<f, 0, 0>> \o (Zeros(z) \o (Zeros(16) \o Ones(16)))
  OBVIOUS
<1>6. EmptyBlock(f, Len(s)) = e
  BY <1>4, <1>5, Zenon DEF EmptyBlock
<1>7. IF f = 1 THEN AtEnd(Feed(u, e), p) ELSE AtBlock(Feed(u, e), p)
  BY <1>2, <1>4, <1>5, EmptyBlockFed
<1>8. e \in Seq(Nat)
  BY <1>1, <1>6, EmptyBlockBits
<1>9. Feed(r, s \o e) = Feed(u, e)
  BY <1>2, <1>8, FeedConcat
<1>10. QED BY <1>6, <1>7, <1>9, Zenon

LEMMA PaddingRead ==
  ASSUME NEW r \in Decoder, r.n = 0, NEW s \in Seq(Nat), NEW p, AtEnd(Feed(r, s), p)
  PROVE  AtEnd(Feed(r, s \o Zeros(Missing(Len(s)))), p)
<1>1. Len(s) \in Nat
  OBVIOUS
<1>2. PICK u : u = Feed(r, s)
  OBVIOUS
<1>3. u.n = Len(s) % 8
  <2>1. u.n = (r.n + Len(s)) % 8
    BY <1>2, FeedCounts
  <2>2. r.n + Len(s) = Len(s)
    BY <1>1
  <2>3. QED BY <2>1, <2>2, Zenon
<1>4. PICK z \in Nat : /\ z = Missing(Len(s)) /\ (u.n # 0 \/ z = 0) /\ u.n + z <= 8
  <2>1. /\ Missing(Len(s)) \in 0..7 /\ (Len(s) % 8 # 0 \/ Missing(Len(s)) = 0)
        /\ (Len(s) % 8) + Missing(Len(s)) <= 8
    BY <1>1, MissingFacts, Zenon
  <2>2. QED BY <1>3, <2>1
<1>5. AtEnd(Feed(u, Zeros(z)), p)
  BY <1>2, <1>4, PadFed
<1>6. Zeros(z) \in Seq(Nat)
  BY ZerosOnes
<1>7. Feed(r, s \o Zeros(z)) = Feed(u, Zeros(z))
  BY <1>2, <1>6, FeedConcat
<1>8. QED BY <1>4, <1>5, <1>7, Zenon

(***************************************************************************)
(* What a decoder has read it does not take back                           *)
(***************************************************************************)
Extends(p, q) ==
  /\ p \in Seq(Nat) /\ q \in Seq(Nat) /\ Len(p) <= Len(q)
  /\ \A i \in 1..Len(p) : q[i] = p[i]

SoundMode(r) == r.mode \notin {"corrupt", "trailing"}

\* q comes after r: if it is sound, r was, and nothing comes behind the end.
Later(r, q) ==
  SoundMode(q) => /\ SoundMode(r) /\ Extends(r.plain, q.plain)
                  /\ r.mode = "end" => q.mode = "end" /\ q.plain = r.plain

LEMMA ExtendsSelf == \A p \in Seq(Nat) : Extends(p, p)
BY DEF Extends

LEMMA ExtendsTwice ==
  ASSUME NEW p, NEW q, NEW s, Extends(p, q), Extends(q, s)
  PROVE  Extends(p, s)
<1>1. \A i \in 1..Len(p) : i \in 1..Len(q)
  BY DEF Extends
<1>2. QED BY <1>1 DEF Extends

LEMMA HeaderBitLater ==
  ASSUME NEW r \in Decoder, NEW b \in Nat
  PROVE  HeaderBit(r, b).plain = r.plain
<1>1. \A q \in {Corrupt(r), [r EXCEPT !.k = 1, !.final = b], [r EXCEPT !.k = 2, !.type = b],
                [r EXCEPT !.mode = IF r.n = 7 THEN "len" ELSE "align", !.k = 0],
                [r EXCEPT !.mode = "codes", !.k = 0]} : q.plain = r.plain
  BY DEF Decoder, Corrupt
<1>2. HeaderBit(r, b) \in {Corrupt(r), [r EXCEPT !.k = 1, !.final = b],
                [r EXCEPT !.k = 2, !.type = b],
                [r EXCEPT !.mode = IF r.n = 7 THEN "len" ELSE "align", !.k = 0],
                [r EXCEPT !.mode = "codes", !.k = 0]}
  BY Zenon DEF HeaderBit
<1>3. QED BY <1>1, <1>2, Zenon

LEMMA LengthBitLater ==
  ASSUME NEW r \in Decoder, NEW b \in Nat
  PROVE  LengthBit(r, b).plain = r.plain
<1>1. Corrupt(r).plain = r.plain /\ AfterBlock(r).plain = r.plain
      /\ [r EXCEPT !.k = @ + 1].plain = r.plain
  BY DEF Decoder, Corrupt, AfterBlock
<1>2. LengthBit(r, b) \in {Corrupt(r), AfterBlock(r), [r EXCEPT !.k = @ + 1]}
  BY Zenon DEF LengthBit
<1>3. QED BY <1>1, <1>2, Zenon

LEMMA SymbolBitLater ==
  ASSUME NEW r \in Decoder, NEW b \in Nat
  PROVE  Extends(r.plain, SymbolBit(r, b).plain)
<1>1. r.plain \in Seq(Nat) /\ r.len \in Nat
  BY DEF Decoder
<1>2. CASE SymbolBit(r, b) \in {r, AfterBlock(r), Corrupt(r), [r EXCEPT !.len = b - LenBit(0)]}
  <2>1. \A q \in {r, AfterBlock(r), Corrupt(r), [r EXCEPT !.len = b - LenBit(0)]} :
          q.plain = r.plain
    BY DEF Decoder, Corrupt, AfterBlock
  <2>2. SymbolBit(r, b).plain = r.plain
    BY <1>2, <2>1, Zenon
  <2>3. QED BY <1>1, <2>2, ExtendsSelf, Zenon
<1>3. CASE /\ b >= LitBit(0)
           /\ SymbolBit(r, b) = [r EXCEPT !.plain = Append(@, b - LitBit(0))]
  <2>1. SymbolBit(r, b).plain = Append(r.plain, b - LitBit(0))
    BY <1>3 DEF Decoder
  <2>2. PICK c \in Nat : c = b - LitBit(0)
    BY <1>3 DEF LitBit
  <2>3. Extends(r.plain, Append(r.plain, c))
    BY <1>1, AppendProperties DEF Extends
  <2>4. QED BY <2>1, <2>2, <2>3, Zenon
<1>4. CASE /\ b > DistBit(0) /\ b - DistBit(0) <= Len(r.plain)
           /\ SymbolBit(r, b) = [r EXCEPT !.plain = Copied(@, b - DistBit(0), r.len),
                                          !.len = 0]
  <2>1. SymbolBit(r, b).plain = Copied(r.plain, b - DistBit(0), r.len)
    BY <1>4 DEF Decoder
  <2>2. PICK d \in Nat \ {0} : d = b - DistBit(0) /\ d <= Len(r.plain)
    BY <1>4 DEF DistBit
  <2>3. PICK q : q = Copied(r.plain, d, r.len)
    OBVIOUS
  <2>4. /\ q \in Seq(Nat) /\ Len(q) = Len(r.plain) + r.len
        /\ \A i \in 1..Len(r.plain) : q[i] = r.plain[i]
    <3>1. PICK p \in Seq(Nat), l \in Nat : p = r.plain /\ l = r.len
      BY <1>1
    <3>2. /\ Copied(p, d, l) \in Seq(Nat) /\ Len(Copied(p, d, l)) = Len(p) + l
          /\ \A i \in 1..Len(p) : Copied(p, d, l)[i] = p[i]
      <4>1. d <= Len(p)
        BY <2>2, <3>1, Zenon
      <4>2. QED BY <4>1, CopiedFacts
    <3>3. QED BY <2>3, <3>1, <3>2, Zenon
  <2>5. Extends(r.plain, q)
    BY <1>1, <2>4 DEF Extends
  <2>6. QED BY <2>1, <2>2, <2>3, <2>5, Zenon
<1>5. QED BY <1>2, <1>3, <1>4, Zenon DEF SymbolBit

LEMMA TakeBitLater ==
  ASSUME NEW r \in Decoder, NEW b \in Nat
  PROVE  Later(r, TakeBit(r, b))
<1>1. r.plain \in Seq(Nat) /\ r.mode \in Modes
  BY DEF Decoder
<1>2. PICK t \in Decoder : t = Turn(r, b)
  BY TurnType
<1>3. PICK q : q = TakeBit(r, b)
  OBVIOUS
<1>4. Alike(t, q)
  BY <1>2, <1>3, TookTurn
<1>5. CASE r.mode \in {"header", "align", "len", "codes", "symbols"}
  <2>1. Extends(r.plain, t.plain)
    <3>1. CASE r.mode = "header"
      BY <1>1, <1>2, <3>1, HeaderBitLater, ExtendsSelf, Zenon DEF Turn
    <3>2. CASE r.mode = "align"
      <4>1. [r EXCEPT !.mode = "len"].plain = r.plain
        BY DEF Decoder
      <4>2. t.plain = r.plain
        BY <1>2, <3>2, <4>1, Zenon DEF Turn
      <4>3. QED BY <1>1, <4>2, ExtendsSelf, Zenon
    <3>3. CASE r.mode = "len"
      BY <1>1, <1>2, <3>3, LengthBitLater, ExtendsSelf, Zenon DEF Turn
    <3>4. CASE r.mode = "codes"
      <4>1. [r EXCEPT !.mode = "symbols"].plain = r.plain /\ Corrupt(r).plain = r.plain
        BY DEF Decoder, Corrupt
      <4>2. t.plain = r.plain
        BY <1>2, <3>4, <4>1, Zenon DEF Turn
      <4>3. QED BY <1>1, <4>2, ExtendsSelf, Zenon
    <3>5. CASE r.mode = "symbols"
      BY <1>2, <3>5, SymbolBitLater, Zenon DEF Turn
    <3>6. QED BY <1>5, <3>1, <3>2, <3>3, <3>4, <3>5
  <2>2. SoundMode(r) /\ r.mode # "end"
    BY <1>5 DEF SoundMode
  <2>3. Extends(r.plain, q.plain)
    BY <1>4, <2>1, Zenon DEF Alike
  <2>4. QED BY <1>3, <2>2, <2>3, Zenon DEF Later
<1>6. CASE r.mode = "end"
  <2>1. t = r \/ t = [r EXCEPT !.mode = "trailing"]
    BY <1>2, <1>6, Zenon DEF Turn
  <2>2. CASE t = r
    <3>1. q.mode = "end" /\ q.plain = r.plain
      BY <1>4, <1>6, <2>2 DEF Alike
    <3>2. Extends(r.plain, q.plain)
      BY <1>1, <3>1, ExtendsSelf, Zenon
    <3>3. SoundMode(r)
      BY <1>6 DEF SoundMode
    <3>4. QED BY <1>3, <3>1, <3>2, <3>3, Zenon DEF Later
  <2>3. CASE t = [r EXCEPT !.mode = "trailing"]
    <3>1. t.mode = "trailing"
      BY <2>3 DEF Decoder
    <3>2. q.mode = "trailing"
      BY <1>4, <3>1, Zenon DEF Alike
    <3>3. QED BY <1>3, <3>2, Zenon DEF Later, SoundMode
  <2>4. QED BY <2>1, <2>2, <2>3
<1>7. CASE r.mode \in {"corrupt", "trailing"}
  <2>1. t = r
    BY <1>2, <1>7, Zenon DEF Turn
  <2>2. q.mode = r.mode
    BY <1>4, <2>1, Zenon DEF Alike
  <2>3. QED BY <1>3, <1>7, <2>2, Zenon DEF Later, SoundMode
<1>8. QED BY <1>1, <1>5, <1>6, <1>7 DEF Modes

LEMMA LaterTwice ==
  ASSUME NEW r, NEW q, NEW s, Later(r, q), Later(q, s)
  PROVE  Later(r, s)
<1>1. SUFFICES ASSUME SoundMode(s)
               PROVE  /\ SoundMode(r) /\ Extends(r.plain, s.plain)
                      /\ r.mode = "end" => s.mode = "end" /\ s.plain = r.plain
  BY Zenon DEF Later
<1>2. SoundMode(q) /\ Extends(q.plain, s.plain)
      /\ (q.mode = "end" => s.mode = "end" /\ s.plain = q.plain)
  BY <1>1, Zenon DEF Later
<1>3. SoundMode(r) /\ Extends(r.plain, q.plain)
      /\ (r.mode = "end" => q.mode = "end" /\ q.plain = r.plain)
  BY <1>2, Zenon DEF Later
<1>4. Extends(r.plain, s.plain)
  BY <1>2, <1>3, ExtendsTwice
<1>5. QED BY <1>2, <1>3, <1>4, Zenon

LEMMA FeedLater ==
  ASSUME NEW r \in Decoder, NEW bits \in Seq(Nat)
  PROVE  Later(r, Feed(r, bits))
<1> DEFINE I == {q \in Decoder : Later(r, q)}
<1>1. r \in I
  <2>1. r.plain \in Seq(Nat)
    BY DEF Decoder
  <2>2. QED BY <2>1, ExtendsSelf, Zenon DEF Later
<1>2. ASSUME NEW q \in I, NEW i \in 1..Len(bits) PROVE TakeBit(q, bits[i]) \in I
  <2>1. bits[i] \in Nat /\ q \in Decoder /\ Later(r, q)
    BY <1>2
  <2>2. TakeBit(q, bits[i]) \in Decoder /\ Later(q, TakeBit(q, bits[i]))
    BY <2>1, TakeBitType, TakeBitLater
  <2>3. Later(r, TakeBit(q, bits[i]))
    BY <2>1, <2>2, LaterTwice
  <2>4. QED BY <2>2, <2>3
<1>3. I \in SUBSET Decoder
  OBVIOUS
<1> HIDE DEF I
<1>4. Feed(r, bits) \in I
  BY <1>1, <1>2, <1>3, FeedKeeps
<1>5. QED BY <1>4 DEF I

\* A part of the bits: what has been read of them is a part of what is read of all.
LEMMA PartFed ==
  ASSUME NEW r \in Decoder, NEW s \in Seq(Nat), NEW t \in Seq(Nat)
  PROVE  Later(Feed(r, s), Feed(r, s \o t))
<1>1. Feed(r, s) \in Decoder /\ Feed(r, s \o t) = Feed(Feed(r, s), t)
  BY FeedType, FeedConcat
<1>2. QED BY <1>1, FeedLater

(***************************************************************************)
(* Parts of the data                                                       *)
(***************************************************************************)
LEMMA MinTwo ==
  ASSUME NEW a \in Nat, NEW b \in Nat
  PROVE  /\ Min({a, b}) \in Nat /\ Min({a, b}) <= a /\ Min({a, b}) <= b
         /\ Min({a, b}) \in {a, b}
<1>1. \E x \in {a, b} : \A y \in {a, b} : x <= y
  OBVIOUS
<1>2. Min({a, b}) \in {a, b} /\ \A y \in {a, b} : Min({a, b}) <= y
  BY <1>1, Zenon DEF Min
<1>3. QED BY <1>2

LEMMA MaxTwo ==
  ASSUME NEW a \in Int, NEW b \in Int
  PROVE  /\ Max({a, b}) \in {a, b} /\ Max({a, b}) >= a /\ Max({a, b}) >= b
         /\ Max({a, b}) \in Int
<1>1. \E x \in {a, b} : \A y \in {a, b} : x >= y
  <2>1. CASE a >= b
    <3>1. \A y \in {a, b} : a >= y
      BY <2>1
    <3>2. QED BY <3>1
  <2>2. CASE b >= a
    <3>1. \A y \in {a, b} : b >= y
      BY <2>2
    <3>2. QED BY <3>1
  <2>3. QED BY <2>1, <2>2
<1>2. Max({a, b}) \in {a, b} /\ \A y \in {a, b} : Max({a, b}) >= y
  BY <1>1, Zenon DEF Max
<1>3. QED BY <1>2

\* The greatest element of a bounded set.
LEMMA MaxOf ==
  ASSUME NEW n \in Nat, NEW S, S \subseteq 0..n, S # {}
  PROVE  Max(S) \in S /\ \A y \in S : Max(S) >= y
<1> DEFINE T == {n - x : x \in S}
<1>1. T \in SUBSET Nat /\ T # {}
  <2>1. \A x \in S : n - x \in Nat
    OBVIOUS
  <2>2. QED BY <2>1
<1>2. PICK m \in T : \A k \in T : m <= k
  BY <1>1, LeastElement
<1>3. PICK x \in S : m = n - x
  BY <1>2
<1>4. \A y \in S : x >= y
  <2>1. SUFFICES ASSUME NEW y \in S PROVE x >= y
    OBVIOUS
  <2>2. n - y \in T
    OBVIOUS
  <2>3. m <= n - y
    BY <1>2, <2>2
  <2>4. x \in 0..n /\ y \in 0..n
    OBVIOUS
  <2>5. QED BY <1>3, <2>3, <2>4
<1>5. QED BY <1>4, Zenon DEF Max

LEMMA Prefix ==
  ASSUME NEW t \in Seq(0..255), NEW k \in 0..Len(t)
  PROVE  /\ t \in Seq(Nat)
         /\ SubSeq(t, 1, k) \in Seq(Nat) /\ Len(SubSeq(t, 1, k)) = k
         /\ \A i \in 1..k : SubSeq(t, 1, k)[i] = t[i]
<1>1. t \in Seq(Nat)
  <2>1. 0..255 \subseteq Nat
    OBVIOUS
  <2>2. QED BY <2>1, SeqMonotonic
<1>2. SubSeq(t, 1, k) \in Seq(Nat) /\ Len(SubSeq(t, 1, k)) = k
  BY <1>1, Split
<1>3. \A i \in 1..k : SubSeq(t, 1, k)[i] = t[i]
  OBVIOUS
<1>4. QED BY <1>1, <1>2, <1>3

LEMMA PrefixOfPrefix ==
  ASSUME NEW t \in Seq(0..255), NEW k \in 0..Len(t), NEW p, Extends(p, SubSeq(t, 1, k))
  PROVE  p \in Seq(Nat) /\ Len(p) \in 0..k /\ p = SubSeq(t, 1, Len(p))
<1>1. /\ SubSeq(t, 1, k) \in Seq(Nat) /\ Len(SubSeq(t, 1, k)) = k
      /\ \A i \in 1..k : SubSeq(t, 1, k)[i] = t[i]
  BY Prefix
<1>2. p \in Seq(Nat) /\ Len(p) <= k /\ \A i \in 1..Len(p) : p[i] = SubSeq(t, 1, k)[i]
  BY <1>1 DEF Extends
<1>3. PICK m \in 0..k : m = Len(p)
  BY <1>2
<1>4. \A i \in 1..m : p[i] = t[i]
  BY <1>1, <1>2, <1>3
<1>5. m \in 0..Len(t)
  BY <1>3
<1>6. /\ SubSeq(t, 1, m) \in Seq(Nat) /\ Len(SubSeq(t, 1, m)) = m
      /\ \A i \in 1..m : SubSeq(t, 1, m)[i] = t[i]
  BY <1>5, Prefix
<1>7. \A i \in 1..m : p[i] = SubSeq(t, 1, m)[i]
  BY <1>4, <1>6, Zenon
<1>8. p = SubSeq(t, 1, m)
  BY <1>2, <1>3, <1>6, <1>7, SeqEqual
<1>9. QED BY <1>2, <1>3, <1>8

LEMMA NextByte ==
  ASSUME NEW t \in Seq(0..255), NEW k \in Nat, k + 1 <= Len(t)
  PROVE  Append(SubSeq(t, 1, k), t[k + 1]) = SubSeq(t, 1, k + 1)
OBVIOUS

IsPart(t, a, n) ==
  /\ SubSeq(t, a + 1, a + n) \in Seq(0..255) /\ Len(SubSeq(t, a + 1, a + n)) = n
  /\ \A i \in 1..n : SubSeq(t, a + 1, a + n)[i] = t[a + i]

LEMMA PartOf ==
  ASSUME NEW t \in Seq(0..255), NEW a \in Nat, NEW n \in Nat, a + n <= Len(t)
  PROVE  IsPart(t, a, n)
<1>1. \A i \in (a + 1)..(a + n) : t[i] \in 0..255
  <2>1. \A i \in (a + 1)..(a + n) : i \in 1..Len(t)
    OBVIOUS
  <2>2. QED BY <2>1, ElementOfSeq
<1>2. SubSeq(t, a + 1, a + n) \in Seq(0..255)
  BY <1>1, SubSeqProperties
<1>3. Len(SubSeq(t, a + 1, a + n)) = n
  OBVIOUS
<1>4. \A i \in 1..n : SubSeq(t, a + 1, a + n)[i] = t[a + i]
  OBVIOUS
<1>5. QED BY <1>2, <1>3, <1>4 DEF IsPart

Adjoin(t, a, b, c) ==
  SubSeq(t, a + 1, b) \o SubSeq(t, b + 1, c) = SubSeq(t, a + 1, c)

LEMMA Adjacent ==
  ASSUME NEW t \in Seq(0..255), NEW a \in Nat, NEW b \in Nat, NEW c \in Nat,
         a <= b, b <= c, c <= Len(t)
  PROVE  Adjoin(t, a, b, c)
<1>1. a + 1 \in 1..Len(t) + 1 /\ b \in (a + 1) - 1..Len(t) /\ c \in b..Len(t)
  OBVIOUS
<1>2. QED BY <1>1, ConcatAdjacentSubSeq DEF Adjoin

\* The sink takes the bits s: what the decoder has read then.
ReadsPart(r, s, u, t, k) ==
  SoundMode(Feed(r, s \o u)) /\ Feed(r, s \o u).plain = SubSeq(t, 1, k)

ReadsLess(r, s, u, t, k) ==
  /\ Feed(r, s) \in Decoder /\ SoundMode(Feed(r, s))
  /\ Len(Feed(r, s).plain) \in Len(r.plain)..k
  /\ Feed(r, s).plain = SubSeq(t, 1, Len(Feed(r, s).plain))
  /\ Feed(r, s).mode = "end"
       => Feed(r, s \o u).mode = "end" /\ Len(Feed(r, s).plain) = k

LEMMA Delivered ==
  ASSUME NEW r \in Decoder, NEW s \in Seq(Nat), NEW u \in Seq(Nat),
         NEW t \in Seq(0..255), NEW k \in 0..Len(t), ReadsPart(r, s, u, t, k)
  PROVE  ReadsLess(r, s, u, t, k)
<1>1. PICK a \in Decoder, q \in Decoder : a = Feed(r, s) /\ q = Feed(r, s \o u)
  <2>1. s \o u \in Seq(Nat)
    BY Join
  <2>2. QED BY <2>1, FeedType
<1>2. SoundMode(q) /\ q.plain = SubSeq(t, 1, k)
  BY <1>1 DEF ReadsPart
<1>3. /\ SoundMode(a) /\ Extends(a.plain, q.plain)
      /\ a.mode = "end" => q.mode = "end" /\ q.plain = a.plain
  BY <1>1, <1>2, PartFed, Zenon DEF Later
<1>4. Extends(r.plain, a.plain)
  BY <1>1, <1>3, FeedLater, Zenon DEF Later
<1>5. a.plain \in Seq(Nat) /\ Len(a.plain) \in 0..k /\ a.plain = SubSeq(t, 1, Len(a.plain))
  BY <1>2, <1>3, PrefixOfPrefix
<1>6. Len(a.plain) \in Len(r.plain)..k
  BY <1>4, <1>5 DEF Extends
<1>7. Len(q.plain) = k
  BY <1>2, Prefix
<1>8. QED BY <1>1, <1>3, <1>5, <1>6, <1>7, Zenon DEF ReadsLess

(***************************************************************************)
(* Bytes that leave a buffer                                               *)
(***************************************************************************)
\* Whole bytes leave the decoder between two bytes.
LEMMA WholeBytes ==
  ASSUME NEW r \in Decoder, r.n = 0, NEW s \in Seq(Nat), Len(s) % 8 = 0
  PROVE  Feed(r, s) \in Decoder /\ Feed(r, s).n = 0
<1>1. PICK l \in Nat : l = Len(s) /\ l % 8 = 0
  OBVIOUS
<1>2. Feed(r, s).n = (0 + l) % 8
  BY <1>1, FeedCounts
<1>3. (0 + l) % 8 = 0
  BY <1>1
<1>4. QED BY <1>2, <1>3, FeedType

\* A buffer whose output has been taken.
LEMMA RewoundFacts ==
  ASSUME NEW b, BufOK(b)
  PROVE  /\ BufOK(Rewound(b)) /\ Rewound(b).out = <<>> /\ Rewound(b).bits = b.bits
         /\ Stream(Rewound(b)) = b.bits
<1>1. PICK q \in Seq(Nat) : q = <<>>
  BY EmptySeq
<1>2. PICK c : c = [b EXCEPT !.out = q]
  OBVIOUS
<1>3. b \in Buffers /\ b.bits \in Seq(Nat)
  BY StreamFacts DEF BufOK
<1>4. c \in Buffers /\ c.out = q /\ c.bits = b.bits
  BY <1>2, <1>3 DEF Buffers
<1>5. Len(q) % 8 = 0
  BY <1>1
<1>6. BufOK(c)
  BY <1>4, <1>5 DEF BufOK
<1>7. q \o b.bits = b.bits
  BY <1>1, <1>3
<1>8. Rewound(b) = c
  BY <1>1, <1>2, Zenon DEF Rewound
<1>9. QED BY <1>1, <1>4, <1>6, <1>7, <1>8, Zenon DEF Stream

\* A block's header is written behind the bits that wait.
HeaderIn(b0, b, f, h) ==
  /\ BufOK(b) /\ Len(Stream(b)) = Len(Stream(b0)) + 3 + h
  /\ <<f, 0, 1>> \o Field(h, Codes) \in Seq(Nat)
  /\ Stream(b) = Stream(b0) \o (<<f, 0, 1>> \o Field(h, Codes))

LEMMA HeaderWritten ==
  ASSUME NEW b0, BufOK(b0), NEW f \in {0, 1}, NEW h \in Nat \ {0}, h <= RegBits
  PROVE  HeaderIn(b0, WriteBit(WriteBit(b0, <<f, 0, 1>>), Field(h, Codes)), f, h)
<1>1. PICK u, v : u = <<f, 0, 1>> /\ v = Field(h, Codes)
  OBVIOUS
<1>2. u \in Seq(Nat) /\ Len(u) = 3 /\ Len(u) <= RegBits
  BY <1>1, RegFacts, HeaderBits
<1>3. h \in Nat \ {0} /\ h <= RegBits
  OBVIOUS
<1>4. v \in Seq(Nat) /\ Len(v) = h /\ Len(v) <= RegBits
  <2>1. Codes \in Nat
    BY DEF Codes
  <2>2. QED BY <1>1, <1>3, <2>1, FieldSplit
<1>5. PICK c : c = WriteBit(b0, u)
  OBVIOUS
<1>6. BufOK(c) /\ Stream(c) = Stream(b0) \o u
  BY <1>2, <1>5, WriteBitFacts
<1>7. PICK b : b = WriteBit(c, v)
  OBVIOUS
<1>8. BufOK(b) /\ Stream(b) = Stream(c) \o v
  BY <1>4, <1>6, <1>7, WriteBitFacts
<1>9. PICK s \in Seq(Nat) : s = Stream(b0)
  BY StreamFacts DEF BufOK
<1>10. u \o v \in Seq(Nat) /\ Len(u \o v) = 3 + h
  BY <1>2, <1>4, Join
<1>11. Stream(b) = s \o (u \o v)
  <2>1. (s \o u) \o v = s \o (u \o v)
    BY <1>2, <1>4, Assoc
  <2>2. QED BY <1>6, <1>8, <1>9, <2>1, Zenon
<1>12. Len(Stream(b)) = Len(s) + 3 + h
  <2>1. Len(s \o (u \o v)) = Len(s) + (3 + h)
    BY <1>10, Join
  <2>2. Len(s) + (3 + h) = Len(s) + 3 + h
    BY <1>3
  <2>3. QED BY <1>11, <2>1, <2>2, Zenon
<1>13. QED BY <1>1, <1>5, <1>7, <1>8, <1>9, <1>10, <1>11, <1>12, Zenon DEF HeaderIn


\* How a buffer grows when n bits are written: at most one register leaves it.
Grows(b, c, n) ==
  \/ Len(c.out) = Len(b.out) /\ Len(c.bits) = Len(b.bits) + n
  \/ /\ Len(c.out) = Len(b.out) + RegBits
     /\ Len(c.bits) = (Len(b.bits) + n) - RegBits /\ Len(c.bits) > 0

LEMMA WriteBitGrows ==
  ASSUME NEW b, BufOK(b), NEW f \in Seq(Nat), Len(f) <= RegBits
  PROVE  Grows(b, WriteBit(b, f), Len(f))
<1>1. /\ b \in Buffers /\ b.out \in Seq(Nat) /\ b.bits \in Seq(Nat)
      /\ Len(b.out) \in Nat /\ Len(b.bits) \in Nat /\ Len(b.bits) <= RegBits
  BY StreamFacts DEF BufOK
<1>2. PICK r : r = b.bits \o f
  OBVIOUS
<1>3. r \in Seq(Nat) /\ Len(r) = Len(b.bits) + Len(f)
  BY <1>1, <1>2, Join
<1>4. CASE Len(r) > RegBits
  <2>1. RegBits \in 0..Len(r)
    BY <1>3, <1>4, RegFacts
  <2>2. /\ SubSeq(r, 1, RegBits) \in Seq(Nat) /\ Len(SubSeq(r, 1, RegBits)) = RegBits
        /\ Len(SubSeq(r, RegBits + 1, Len(r))) = Len(r) - RegBits
    BY <1>3, <2>1, Split
  <2>3. Len(b.out \o SubSeq(r, 1, RegBits)) = Len(b.out) + RegBits
    BY <1>1, <2>2, Join
  <2>4. PICK c : c = WriteBit(b, f)
    OBVIOUS
  <2>5. /\ c.out = b.out \o SubSeq(r, 1, RegBits)
        /\ c.bits = SubSeq(r, RegBits + 1, Len(r))
    BY <1>2, <1>4, <2>4 DEF WriteBit
  <2>6. Len(r) - RegBits > 0
    BY <1>3, <1>4, RegFacts
  <2>7. QED BY <1>3, <2>2, <2>3, <2>4, <2>5, <2>6, Zenon DEF Grows
<1>5. CASE ~(Len(r) > RegBits)
  <2>1. PICK c : c = WriteBit(b, f)
    OBVIOUS
  <2>2. c = [b EXCEPT !.bits = r]
    BY <1>2, <1>5, <2>1, Zenon DEF WriteBit
  <2>3. c.out = b.out /\ c.bits = r
    BY <1>1, <2>2 DEF Buffers
  <2>4. QED BY <1>3, <2>1, <2>3, Zenon DEF Grows
<1>6. QED BY <1>4, <1>5

\* Three fields that fit the register together.
LEMMA GrowsThrice ==
  ASSUME NEW a, NEW b, NEW c, NEW d, BufOK(a), BufOK(b), BufOK(c), BufOK(d),
         NEW i \in Nat, NEW j \in Nat, NEW k \in Nat, i + j + k <= RegBits,
         Grows(a, b, i), Grows(b, c, j), Grows(c, d, k)
  PROVE  Len(d.out) <= Len(a.out) + RegBits
<1>1. PICK x \in Nat, y \in Nat, z \in Nat, w \in Nat, g \in Nat :
        x = Len(a.bits) /\ y = Len(b.bits) /\ z = Len(c.bits) /\ w = Len(d.bits)
        /\ g = RegBits /\ x <= g
  BY StreamFacts, RegFacts DEF BufOK
<1>2. PICK p \in Nat, q \in Nat, r \in Nat, s \in Nat :
        p = Len(a.out) /\ q = Len(b.out) /\ r = Len(c.out) /\ s = Len(d.out)
  BY StreamFacts DEF BufOK
<1>3. /\ (q = p /\ y = x + i) \/ (q = p + g /\ y = (x + i) - g /\ y > 0)
      /\ (r = q /\ z = y + j) \/ (r = q + g /\ z = (y + j) - g /\ z > 0)
      /\ (s = r /\ w = z + k) \/ (s = r + g /\ w = (z + k) - g /\ w > 0)
  BY <1>1, <1>2, Zenon DEF Grows
<1>4. s <= p + g
  <2>1. x <= g /\ i + j + k <= g
    BY <1>1
  <2>2. QED BY <1>3, <2>1
<1>5. QED BY <1>1, <1>2, <1>4, Zenon

\* Any field.
LEMMA AnyField ==
  ASSUME NEW w \in Nat, NEW b \in Nat
  PROVE  Field(w, b) \in Seq(Nat) /\ Len(Field(w, b)) = w
BY DEF Field, Part

(***************************************************************************)
(* Matches                                                                 *)
(***************************************************************************)
\* The l bytes behind the first a are those d bytes before them.
Repeats(x, a, l, d) == \A i \in (a + 1)..(a + l) : x[i] = x[i - d]

\* A match that repeats the text gives the text.
LEMMA CopiedText ==
  ASSUME NEW x \in Seq(0..255), NEW a \in Nat, NEW l \in Nat, a + l <= Len(x),
         NEW d \in Nat \ {0}, d <= a, Repeats(x, a, l, d)
  PROVE  Copied(SubSeq(x, 1, a), d, l) = SubSeq(x, 1, a + l)
<1>1. PICK b \in Nat : b = a + l /\ b <= Len(x) /\ a <= b
  OBVIOUS
<1>2. PICK p \in Seq(Nat) : p = SubSeq(x, 1, a) /\ Len(p) = a /\ \A i \in 1..a : p[i] = x[i]
  <2>1. a \in 0..Len(x)
    BY <1>1
  <2>2. QED BY <2>1, Prefix
<1>3. PICK q \in Seq(Nat) : q = SubSeq(x, 1, b) /\ Len(q) = b /\ \A i \in 1..b : q[i] = x[i]
  <2>1. b \in 0..Len(x)
    BY <1>1
  <2>2. QED BY <2>1, Prefix
<1>4. d \in Nat \ {0} /\ d <= a
  OBVIOUS
<1>5. PICK c \in Seq(Nat) : c = Copied(p, d, l) /\ Len(c) = b
  <2>1. Copied(p, d, l) \in Seq(Nat) /\ Len(Copied(p, d, l)) = a + l
    <3>1. d <= Len(p)
      BY <1>2, <1>4
    <3>2. Copied(p, d, l) \in Seq(Nat) /\ Len(Copied(p, d, l)) = Len(p) + l
      BY <3>1, CopiedFacts
    <3>3. QED BY <1>2, <3>2, Zenon
  <2>2. QED BY <1>1, <2>1
<1>6. \A i \in 1..b : c[i] = IF i <= a THEN p[i] ELSE p[a - d + 1 + ((i - a - 1) % d)]
  <2>1. Len(p) = a /\ a + l = b
    BY <1>1, <1>2
  <2>2. QED BY <1>5, <2>1, Zenon DEF Copied
<1>7. ASSUME NEW i \in 1..b PROVE c[i] = q[i]
  <2>1. CASE i <= a
    <3>1. i \in 1..a
      BY <2>1
    <3>2. QED BY <1>2, <1>3, <1>6, <1>7, <2>1, <3>1
  <2>2. CASE ~(i <= a)
    <3>1. PICK j \in 0..(l - 1) : j = i - a - 1 /\ i = (a + 1) + j
      <4>1. i - a - 1 \in 0..(l - 1) /\ i = (a + 1) + (i - a - 1)
        BY <1>1, <2>2
      <4>2. QED BY <4>1
    <3>2. PICK r \in 0..(d - 1) : r = j % d
      <4>1. j \in Nat
        OBVIOUS
      <4>2. QED BY <1>4, <4>1, Remainder
    <3>3. a - d + 1 + r \in 1..a
      BY <1>4, <3>2
    <3>4. x[(a + 1) + j] = x[(a + 1) - d + r]
      <4>1. PICK o \in Int : o = a + 1
        OBVIOUS
      <4>2. \A k \in o..(o + l - 1) : x[k] = x[k - d]
        <5>1. a + l = o + l - 1
          BY <4>1
        <5>2. QED BY <4>1, <5>1, Zenon DEF Repeats
      <4>3. \A k \in 0..(l - 1) : x[o + k] = x[o - d + (k % d)]
        BY <4>2, Periodic
      <4>4. QED BY <3>1, <3>2, <4>1, <4>3, Zenon
    <3>5. (a + 1) - d + r = a - d + 1 + r
      BY <1>4, <3>2
    <3>6. c[i] = p[a - d + 1 + r]
      BY <1>6, <1>7, <2>2, <3>1, <3>2, Zenon
    <3>7. p[a - d + 1 + r] = x[a - d + 1 + r]
      BY <1>2, <3>3
    <3>8. q[i] = x[i]
      BY <1>3, <1>7
    <3>9. QED BY <3>1, <3>4, <3>5, <3>6, <3>7, <3>8, Zenon
  <2>3. QED BY <2>1, <2>2
<1>8. c = q
  BY <1>3, <1>5, <1>7, SeqEqual
<1>9. QED BY <1>1, <1>2, <1>3, <1>5, <1>8

\* Behind the length of a match.
InMatch(r, p, f, l) ==
  r \in Decoder /\ r.mode = "symbols" /\ r.len = l /\ r.plain = p /\ r.final = f

LEMMA LengthCodeFed ==
  ASSUME NEW r, NEW p, NEW f, InBlock(r, p, f), NEW w \in Nat \ {0}, NEW l \in 1..258
  PROVE  InMatch(Feed(r, Field(w, LenBit(l))), p, f, l)
<1>1. /\ r \in Decoder /\ r.mode = "symbols" /\ r.len = 0 /\ r.plain = p /\ r.final = f
      /\ LenBit(l) \in Nat
  BY DEF InBlock, LenBit
<1>2. PICK u \in Decoder : Alike(r, u) /\ Alike(Turn(u, LenBit(l)), Feed(r, Field(w, LenBit(l))))
  BY <1>1, FieldFed
<1>3. u.mode = "symbols" /\ u.final = f /\ u.len = 0 /\ u.plain = p
  BY <1>1, <1>2 DEF Alike
<1>4. /\ LenBit(l) # Part /\ LenBit(l) # EndOfBlock /\ ~(LenBit(l) < LenBit(0))
      /\ LenBit(l) > LenBit(0) /\ LenBit(l) < DistBit(0) /\ LenBit(l) - LenBit(0) = l
  BY DEF DistBit, LenBit, Part, EndOfBlock
<1>5. Turn(u, LenBit(l)) = [u EXCEPT !.len = l]
  BY <1>3, <1>4, Zenon DEF Turn, SymbolBit
<1>6. PICK v : v = Feed(r, Field(w, LenBit(l)))
  OBVIOUS
<1>7. Alike([u EXCEPT !.len = l], v)
  BY <1>2, <1>5, <1>6
<1>8. InMatch(v, p, f, l)
  BY <1>3, <1>7 DEF Alike, Decoder, InMatch
<1>9. QED BY <1>6, <1>8

\* Its distance, or the part of it in front of the extra bits.
LEMMA DistanceFed ==
  ASSUME NEW r, NEW p \in Seq(Nat), NEW f, NEW l \in 1..258, InMatch(r, p, f, l),
         NEW w \in Nat \ {0}, NEW d \in 1..Len(p)
  PROVE  InBlock(Feed(r, Field(w, DistBit(d))), Copied(p, d, l), f)
<1>1. /\ r \in Decoder /\ r.mode = "symbols" /\ r.len = l /\ r.plain = p /\ r.final = f
      /\ DistBit(d) \in Nat
  BY DEF InMatch, DistBit
<1>2. PICK u \in Decoder : Alike(r, u) /\ Alike(Turn(u, DistBit(d)), Feed(r, Field(w, DistBit(d))))
  BY <1>1, FieldFed
<1>3. u.mode = "symbols" /\ u.final = f /\ u.len = l /\ u.plain = p
  BY <1>1, <1>2 DEF Alike
<1>4. /\ DistBit(d) # Part /\ DistBit(d) # EndOfBlock /\ ~(DistBit(d) < LenBit(0))
      /\ ~(DistBit(d) < DistBit(0)) /\ DistBit(d) > DistBit(0)
      /\ DistBit(d) - DistBit(0) = d /\ l # 0 /\ l > 0 /\ d <= Len(p)
  BY DEF DistBit, LenBit, Part, EndOfBlock
<1>5. Turn(u, DistBit(d)) = [u EXCEPT !.plain = Copied(@, d, l), !.len = 0]
  BY <1>3, <1>4, Zenon DEF Turn, SymbolBit
<1>6. PICK v : v = Feed(r, Field(w, DistBit(d)))
  OBVIOUS
<1>7. Alike([u EXCEPT !.plain = Copied(@, d, l), !.len = 0], v)
  BY <1>2, <1>5, <1>6
<1>8. InBlock(v, Copied(p, d, l), f)
  BY <1>3, <1>7 DEF Alike, Decoder, InBlock
<1>9. QED BY <1>6, <1>8

LEMMA DistancePartFed ==
  ASSUME NEW r, NEW p, NEW f, NEW l, InMatch(r, p, f, l), NEW w \in Nat
  PROVE  InMatch(Feed(r, Field(w, Part)), p, f, l)
<1>1. r \in Decoder /\ r.mode \in {"codes", "symbols"}
  BY DEF InMatch
<1>2. Field(w, Part) = Parts(w)
  BY DEF Field, Parts
<1>3. Alike(r, Feed(r, Parts(w)))
  BY <1>1, PartsFed
<1>4. QED BY <1>2, <1>3 DEF Alike, InMatch

\* All of a match: the distance's code ends the match if there are no extra bits.
MatchFields(w1, w2, w3, d, l) ==
  (Field(w1, LenBit(l)) \o Field(w2, IF w3 = 0 THEN DistBit(d) ELSE Part))
    \o Field(w3, DistBit(d))

LEMMA MatchFed ==
  ASSUME NEW r, NEW p \in Seq(Nat), NEW f, InBlock(r, p, f), NEW l \in 1..258,
         NEW d \in 1..Len(p), NEW w1 \in Nat \ {0}, NEW w2 \in Nat \ {0}, NEW w3 \in Nat
  PROVE  InBlock(Feed(r, MatchFields(w1, w2, w3, d, l)), Copied(p, d, l), f)
<1>1. LenBit(l) \in Nat /\ DistBit(d) \in Nat /\ Part \in Nat
  BY DEF LenBit, DistBit, Part
<1>2. PICK g \in Nat : g = IF w3 = 0 THEN DistBit(d) ELSE Part
  BY <1>1
<1>3. PICK f1 \in Seq(Nat), f2 \in Seq(Nat), f3 \in Seq(Nat) :
        f1 = Field(w1, LenBit(l)) /\ f2 = Field(w2, g) /\ f3 = Field(w3, DistBit(d))
        /\ Len(f3) = w3
  BY <1>1, AnyField
<1>4. MatchFields(w1, w2, w3, d, l) = (f1 \o f2) \o f3
  BY <1>2, <1>3, Zenon DEF MatchFields
<1>5. r \in Decoder
  BY DEF InBlock
<1>6. PICK a \in Decoder : a = Feed(r, f1)
  BY <1>5, FeedType
<1>7. InMatch(a, p, f, l)
  BY <1>3, <1>6, LengthCodeFed
<1>8. PICK b \in Decoder : b = Feed(a, f2)
  BY FeedType
<1>9. Feed(r, (f1 \o f2) \o f3) = Feed(b, f3)
  <2>1. Feed(r, f1 \o f2) = b /\ f1 \o f2 \in Seq(Nat)
    BY <1>5, <1>6, <1>8, FeedConcat, Join
  <2>2. QED BY <1>5, <2>1, FeedConcat
<1>10. CASE w3 = 0
  <2>1. g = DistBit(d)
    BY <1>2, <1>10
  <2>2. InBlock(b, Copied(p, d, l), f)
    BY <1>3, <1>7, <1>8, <2>1, DistanceFed
  <2>3. f3 = <<>>
    BY <1>3, <1>10, EmptySeq
  <2>4. Feed(b, f3) = b
    BY <2>3, FeedEmpty
  <2>5. QED BY <1>4, <1>9, <2>2, <2>4
<1>11. CASE w3 # 0
  <2>1. g = Part
    BY <1>2, <1>11
  <2>2. InMatch(b, p, f, l)
    BY <1>3, <1>7, <1>8, <2>1, DistancePartFed
  <2>3. InBlock(Feed(b, f3), Copied(p, d, l), f)
    BY <1>3, <1>11, <2>2, DistanceFed
  <2>4. QED BY <1>4, <1>9, <2>3
<1>12. QED BY <1>10, <1>11
=============================================================================
