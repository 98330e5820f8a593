------------------------- MODULE DynCompressorProofs -------------------------
(***************************************************************************)
(* Proofs about DynCompressor, for every size of the window and of output, *)
(* every hash, text and build, and every Huffman code that fits the        *)
(* register.                                                               *)
(***************************************************************************)
EXTENDS DynCompressor, RemoteDecoderProofs

\* A token is a literal, the end of the block, or a match within the window.
Tokens ==
  {t \in [len : Nat, lit : 0..256, dist : Nat] :
     t.len = 0 \/ (t.len \in 1..MaxMatch /\ t.dist \in 1..WindowSize)}

Types ==
  /\ pc \in Pcs /\ call \in {"new", "write", "flush", "close"}
  /\ todo \in Nat /\ werr \in {"nil", "Fail"}
  /\ text \in Texts /\ given \in 0..Len(text) /\ todo <= given
  /\ BufOK(buf) /\ remote \in Decoder /\ remote.n = 0
  /\ window \in Seq(0..255) /\ End <= Capacity /\ idx \in 0..End /\ processed \in Nat
  /\ table \in [Slots -> 0..(PosMod - 1)]
  /\ tokens \in Seq(Tokens) /\ tk \in 0..Len(tokens) /\ build \in Builds

\* What a call has to do where it stands.
Calls ==
  /\ pc # "idle" => call # "new"
  /\ pc \notin {"idle", "failed"} => werr = "nil"
  /\ (pc \in {"idle", "done", "failed"} \/ call # "write") => todo = 0
  /\ pc = "loop" => call = "write"
  /\ pc = "done" => call # "write"
  /\ pc \notin {"tokens", "out"} => tk = 0
  /\ pc = "tokens" => tk < Len(tokens)
  /\ pc = "tokens" \/ (pc = "out" /\ tk > 0)
       => code.lit \in LitWidths /\ code.dist \in DistWidths /\ last = Last
  /\ pc = "out" /\ tk = 0 => call # "write"

\* A call is under way, or the client may call.
Live == \/ pc \notin {"idle", "failed"}
        \/ (pc = "idle" /\ ret.err = "nil" /\ ret.call # "close")

\* How much of output is in use.
OutputInv ==
  /\ pc = "tokens" => Len(buf.out) < OutBits - 2 * RegBits
  /\ pc = "out" /\ tk > 0 => Len(buf.out) <= OutBits - (IF last THEN 0 ELSE RegBits)
  /\ ~GoesOn =>
       /\ Live /\ pc \in {"idle", "loop", "compress"} => buf.out = <<>>
       /\ pc = "done" /\ call = "flush" => buf.out = <<>>
       /\ pc = "out" /\ tk = 0 => Len(buf.out) <= OutBits - RegBits

\* No failure has cut off the data of a Write.
InStep == werr = "nil" /\ ~(pc = "failed" /\ call = "write")

WindowInv ==
  /\ idx <= processed /\ (idx = processed \/ idx >= WindowSize)
  /\ InStep => /\ Taken - processed = End - idx /\ End <= Taken
               /\ window = SubSeq(text, (Taken - End) + 1, Taken)

\* As long as less than a window is processed, positions do not wrap.
TableInv == processed < WindowSize => \A s \in Slots : table[s] <= processed

CodedInv ==
  ~DirtyReset => \A i \in 1..Len(tokens) : Symbols(tokens[i]) \subseteq hist

IInv == Types /\ Calls /\ OutputInv /\ WindowInv /\ TableInv /\ CodedInv

(***************************************************************************)
(* The constants and the types                                             *)
(***************************************************************************)
LEMMA Sizes ==
  /\ WindowSize \in Nat /\ MaxMatch \in Nat /\ MinMatch \in Nat /\ Word \in Nat
  /\ Updates \in Nat /\ PosMod \in Nat /\ MaxTokens \in Nat /\ Capacity \in Nat
  /\ 1 <= MinMatch /\ MinMatch < Word /\ Word < MaxMatch /\ MaxMatch < WindowSize
  /\ MaxMatch <= 258 /\ Updates <= MinMatch /\ Updates - 1 + MinMatch <= Word
  /\ 2 * WindowSize <= PosMod /\ Capacity = 2 * WindowSize + MaxMatch
<1>1. /\ WindowSize \in Nat /\ MaxMatch \in Nat /\ MinMatch \in Nat /\ Word \in Nat
      /\ Updates \in Nat /\ PosMod \in Nat /\ MaxTokens \in Nat
  BY DynAssumption
<1>2. Capacity \in Nat /\ Capacity = 2 * WindowSize + MaxMatch
  BY <1>1 DEF Capacity
<1>3. QED BY <1>1, <1>2, DynAssumption

LEMMA OutSizes ==
  /\ OutBits \in Nat /\ OutBits % 8 = 0 /\ 5 * RegBits <= OutBits
  /\ RegBits \in 16..64 /\ RegBits \in Nat
BY WidthAssumption, RegFacts

LEMMA Widths ==
  /\ \A h \in HdrWidths : h \in Nat \ {0} /\ h <= RegBits /\ h + 4 * RegBits < OutBits
  /\ \A l \in LitWidths : l \in Nat \ {0}
  /\ \A d \in DistWidths : d \in Nat \ {0}
  /\ \A l \in LitWidths, d \in DistWidths, n \in 1..WindowSize :
       /\ l \in Nat \ {0} /\ d \in Nat \ {0} /\ DistSymbol(n).extra \in Nat
       /\ l + d + DistSymbol(n).extra <= RegBits
<1>1. /\ OutBits \in Nat /\ RegBits \in 16..64
      /\ HdrWidths \subseteq Nat \ {0} /\ LitWidths \subseteq Nat \ {0}
      /\ DistWidths \subseteq Nat \ {0}
  BY WidthAssumption, RegFacts
<1>2. ASSUME NEW h \in HdrWidths PROVE h + 4 * RegBits < OutBits
  <2>1. h \in Nat /\ h + 2 * RegBits < OutBits - 2 * RegBits
    BY <1>1, WidthAssumption
  <2>2. QED BY <1>1, <2>1
<1>3. ASSUME NEW l \in LitWidths, NEW d \in DistWidths, NEW n \in 1..WindowSize
      PROVE  /\ DistSymbol(n).extra \in Nat
             /\ l + d + DistSymbol(n).extra <= RegBits
  BY WidthAssumption
<1>4. QED BY <1>1, <1>2, <1>3, WidthAssumption

LEMMA TypeFacts ==
  ASSUME Types
  PROVE  /\ text \in Seq(0..255) /\ Len(text) \in Nat /\ given \in Nat /\ todo \in Nat
         /\ given <= Len(text) /\ todo <= given
         /\ Taken \in 0..Len(text) /\ Taken \in Nat
         /\ buf \in Buffers /\ buf.out \in Seq(Nat) /\ buf.bits \in Seq(Nat)
         /\ Len(buf.out) \in Nat /\ Len(buf.bits) \in Nat /\ Len(buf.bits) <= RegBits
         /\ Len(buf.out) % 8 = 0
         /\ End \in Nat /\ End <= Capacity /\ idx \in Nat /\ idx <= End
         /\ processed \in Nat /\ Len(tokens) \in Nat /\ tk \in Nat /\ tk <= Len(tokens)
<1>1. text \in Seq(0..255)
  BY WriterAssumption DEF Types
<1>2. /\ Len(text) \in Nat /\ given \in Nat /\ todo \in Nat /\ given <= Len(text)
      /\ todo <= given
  BY <1>1 DEF Types
<1>3. Taken \in 0..Len(text) /\ Taken \in Nat
  BY <1>2 DEF Taken
<1>4. buf \in Buffers /\ Len(buf.bits) <= RegBits /\ Len(buf.out) % 8 = 0
  BY DEF Types, BufOK
<1>5. /\ buf.out \in Seq(Nat) /\ buf.bits \in Seq(Nat)
      /\ Len(buf.out) \in Nat /\ Len(buf.bits) \in Nat
  BY <1>4, StreamFacts
<1>6. /\ End \in Nat /\ End <= Capacity
  BY DEF Types, End
<1>7. idx \in Nat /\ idx <= End /\ processed \in Nat
  BY <1>6 DEF Types
<1>8. Len(tokens) \in Nat /\ tk \in Nat /\ tk <= Len(tokens)
  BY DEF Types
<1>9. QED BY <1>1, <1>2, <1>3, <1>4, <1>5, <1>6, <1>7, <1>8

\* What the window, the table and the tokens satisfy, as long as they stay.
LEMMA WindowKept ==
  ASSUME WindowInv, TableInv, UNCHANGED <<window, idx, processed, table, text>>,
         InStep' => InStep /\ Taken' = Taken
  PROVE  WindowInv' /\ TableInv'
BY DEF WindowInv, TableInv, End

(***************************************************************************)
(* The calls                                                               *)
(***************************************************************************)
\* A new stream.
LEMMA NewBuf == BufOK(Empty) /\ Empty.out = <<>> /\ Fresh \in Decoder /\ Fresh.n = 0
<1>1. Empty \in Buffers /\ Empty.out = <<>> /\ Empty.bits = <<>>
  BY DEF Empty, Buffers
<1>2. BufOK(Empty)
  <2>1. PICK b : b = Empty
    OBVIOUS
  <2>2. b \in Buffers /\ b.out = <<>> /\ b.bits = <<>>
    BY <1>1, <2>1
  <2>3. BufOK(b)
    BY <2>2, RegFacts DEF BufOK
  <2>4. QED BY <2>1, <2>3
<1>3. QED BY <1>1, <1>2, FreshType DEF Fresh

LEMMA InitInv ==
  ASSUME Init
  PROVE  IInv
<1>1. /\ pc = "idle" /\ call = "new" /\ todo = 0 /\ werr = "nil" /\ buf = Empty
      /\ text \in Texts /\ given = 0 /\ ret = [call |-> "new", err |-> "nil"]
      /\ remote = Fresh
      /\ window = <<>> /\ idx = 0 /\ processed = 0 /\ table = [s \in Slots |-> 0]
      /\ tokens = <<>> /\ tk = 0 /\ build \in Builds
  BY DEF Init, WriterInit, InitDyn
<1>2. text \in Seq(0..255)
  BY <1>1, WriterAssumption
<1>3. Types
  <2>1. /\ BufOK(buf) /\ remote \in Decoder /\ remote.n = 0
    BY <1>1, NewBuf
  <2>2. window \in Seq(0..255) /\ End = 0 /\ Len(tokens) = 0 /\ tokens \in Seq(Tokens)
    BY <1>1 DEF End
  <2>3. 0 \in 0..(PosMod - 1)
    BY Sizes
  <2>4. table \in [Slots -> 0..(PosMod - 1)]
    BY <1>1, <2>3
  <2>5. End <= Capacity
    BY <2>2, Sizes
  <2>6. QED BY <1>1, <1>2, <2>1, <2>2, <2>4, <2>5 DEF Types, Pcs
<1>4. Calls
  BY <1>1 DEF Calls
<1>5. OutputInv
  BY <1>1, NewBuf DEF OutputInv
<1>6. WindowInv
  BY <1>1, <1>2 DEF WindowInv, End, Taken
<1>7. TableInv
  BY <1>1 DEF TableInv
<1>8. CodedInv
  BY <1>1 DEF CodedInv
<1>9. QED BY <1>3, <1>4, <1>5, <1>6, <1>7, <1>8 DEF IInv

LEMMA ResetInv ==
  ASSUME NEW t \in Texts, Reset(t), UNCHANGED build, IInv
  PROVE  IInv'
<1>1. /\ pc' = "idle" /\ call' = "new" /\ todo' = 0 /\ werr' = "nil" /\ buf' = Empty
      /\ text' \in Texts /\ given' = 0 /\ ret' = [call |-> "new", err |-> "nil"]
      /\ remote' = Fresh
      /\ window' = <<>> /\ idx' = 0 /\ processed' = 0 /\ table' = [s \in Slots |-> 0]
      /\ tokens' = tokens /\ tk' = tk /\ build' \in Builds
      /\ DirtyReset \/ tokens = <<>>
  BY DEF Reset, ResetWriter, IInv, Types
<1>2. text' \in Seq(0..255) /\ tk = 0
  BY <1>1, WriterAssumption DEF IInv, Calls, Reset, ResetWriter
<1>3. Types'
  <2>1. /\ BufOK(buf') /\ remote' \in Decoder /\ remote'.n = 0
    BY <1>1, NewBuf
  <2>2. window' \in Seq(0..255) /\ Len(window') = 0
    BY <1>1
  <2>3. 0 \in 0..(PosMod - 1)
    BY Sizes
  <2>4. table' \in [Slots -> 0..(PosMod - 1)]
    BY <1>1, <2>3
  <2>5. Len(window') <= Capacity
    BY <2>2, Sizes
  <2>6. QED BY <1>1, <1>2, <2>1, <2>2, <2>4, <2>5 DEF IInv, Types, Pcs, End
<1>4. Calls'
  BY <1>1, <1>2 DEF Calls
<1>5. OutputInv'
  BY <1>1, NewBuf DEF OutputInv
<1>6. WindowInv'
  BY <1>1, <1>2 DEF WindowInv, End, Taken
<1>7. TableInv'
  BY <1>1 DEF TableInv
<1>8. CodedInv'
  BY <1>1 DEF CodedInv
<1>9. QED BY <1>3, <1>4, <1>5, <1>6, <1>7, <1>8 DEF IInv

\* A call begins.
LEMMA CallInv ==
  ASSUME (\E n \in WriteSizes : CallWrite(n)) \/ CallFlush \/ CallClose,
         UNCHANGED dynVars, UNCHANGED build, IInv
  PROVE  IInv'
<1>1. /\ pc = "idle" /\ ret.call # "close" /\ werr = "nil" /\ (ret.err = "nil" \/ GoesOn)
      /\ werr' = werr /\ buf' = buf /\ text' = text /\ ret' = ret /\ remote' = remote
      /\ window' = window /\ idx' = idx /\ processed' = processed /\ table' = table
      /\ tokens' = tokens /\ tk' = tk /\ hist' = hist /\ last' = last /\ code' = code
      /\ build' = build
  BY DEF CallWrite, CallFlush, CallClose, Usable, dynVars
<1>2. \/ \E n \in WriteSizes : /\ given + n <= Len(text) /\ pc' = "loop"
                               /\ call' = "write" /\ todo' = n /\ given' = given + n
      \/ /\ pc' = "compress" /\ call' \in {"flush", "close"}
         /\ todo' = todo /\ given' = given
  BY DEF CallWrite, CallFlush, CallClose
<1>3. Types /\ Calls /\ OutputInv /\ WindowInv /\ TableInv /\ CodedInv
  BY DEF IInv
<1>4. /\ given \in Nat /\ Len(text) \in Nat /\ todo = 0
  BY <1>1, <1>3, TypeFacts DEF Calls
<1>5. /\ given' \in 0..Len(text) /\ todo' \in Nat /\ todo' <= given' /\ Taken' = Taken
      /\ pc' \in {"loop", "compress"} /\ call' \in {"write", "flush", "close"}
      /\ pc' = "loop" <=> call' = "write"
      /\ call' # "write" => todo' = 0
  <2>1. CASE \E n \in WriteSizes : /\ given + n <= Len(text) /\ pc' = "loop"
                                   /\ call' = "write" /\ todo' = n /\ given' = given + n
    <3>1. PICK n \in WriteSizes : /\ given + n <= Len(text) /\ pc' = "loop"
                                  /\ call' = "write" /\ todo' = n /\ given' = given + n
      BY <2>1
    <3>2. n \in Nat
      BY WriterAssumption
    <3>3. QED BY <1>4, <3>1, <3>2 DEF Taken
  <2>2. CASE /\ pc' = "compress" /\ call' \in {"flush", "close"}
             /\ todo' = todo /\ given' = given
    BY <1>3, <1>4, <2>2 DEF Taken, Types
  <2>3. QED BY <1>2, <2>1, <2>2
<1>6. Types'
  BY <1>1, <1>3, <1>5 DEF Types, Pcs, End
<1>7. Calls'
  BY <1>1, <1>3, <1>5 DEF Calls
<1>8. OutputInv'
  BY <1>1, <1>3, <1>5 DEF OutputInv, Live
<1>9. WindowInv' /\ TableInv'
  BY <1>1, <1>3, <1>5, WindowKept DEF InStep
<1>10. CodedInv'
  BY <1>1, <1>3 DEF CodedInv
<1>11. QED BY <1>6, <1>7, <1>8, <1>9, <1>10 DEF IInv

\* A call ends, or fails at once.
LEMMA ReturnInv ==
  ASSUME \/ \E c \in {"write", "flush", "close"} : CallAfterError(c)
         \/ ReturnNil \/ ReturnError,
         UNCHANGED dynVars, UNCHANGED build, IInv
  PROVE  IInv'
<1>1. /\ pc' = "idle" /\ call' = call /\ todo' = todo /\ given' = given /\ buf' = buf
      /\ text' = text /\ remote' = remote
      /\ window' = window /\ idx' = idx /\ processed' = processed /\ table' = table
      /\ tokens' = tokens /\ tk' = tk /\ hist' = hist /\ last' = last /\ code' = code
      /\ build' = build
  BY DEF CallAfterError, Usable, ReturnNil, ReturnError, Return, dynVars
<1>2. \/ /\ pc = "idle" /\ werr # "nil" /\ werr' = werr
         /\ ret'.err = werr /\ ret.call # "close"
      \/ /\ (pc = "loop" /\ todo = 0) \/ pc = "done"
         /\ werr' = werr /\ ret' = [call |-> call, err |-> "nil"]
      \/ /\ pc = "failed" /\ werr' = (IF call = "write" THEN "Fail" ELSE werr)
         /\ ret' = [call |-> call, err |-> "Fail"]
  BY DEF CallAfterError, Usable, ReturnNil, ReturnError, Return
<1>3. Types /\ Calls /\ OutputInv /\ WindowInv /\ TableInv /\ CodedInv
  BY DEF IInv
<1>4. todo = 0 /\ tk = 0
  BY <1>2, <1>3 DEF Calls
<1>5. Types'
  BY <1>1, <1>2, <1>3 DEF Types, Pcs, End
<1>6. Calls'
  BY <1>1, <1>2, <1>4 DEF Calls
<1>7. Live' => Live /\ (pc = "loop" \/ (pc = "done" /\ call = "flush"))
  BY <1>1, <1>2, <1>3 DEF Calls, Types, Live
<1>8. OutputInv'
  BY <1>1, <1>3, <1>7 DEF OutputInv
<1>9. InStep' => InStep /\ Taken' = Taken
  BY <1>1, <1>2 DEF InStep, Taken
<1>10. WindowInv' /\ TableInv'
  BY <1>1, <1>3, <1>9, WindowKept
<1>11. CodedInv'
  BY <1>1, <1>3 DEF CodedInv
<1>12. QED BY <1>5, <1>6, <1>8, <1>10, <1>11 DEF IInv

(***************************************************************************)
(* The window                                                              *)
(***************************************************************************)
PartInPart(t, a, n, s, m) ==
  SubSeq(SubSeq(t, a + 1, a + n), s + 1, s + m) = SubSeq(t, (a + s) + 1, (a + s) + m)

\* A part of a part.
LEMMA PartOfPart ==
  ASSUME NEW t \in Seq(0..255), NEW a \in Nat, NEW n \in Nat, NEW s \in Nat, NEW m \in Nat,
         a + n <= Len(t), s + m <= n
  PROVE  PartInPart(t, a, n, s, m)
<1>1. PICK c \in Nat : c = a + s /\ c + m <= Len(t)
  <2>1. (a + s) + m <= a + n
    OBVIOUS
  <2>2. QED BY <2>1
<1>2. PICK u : u = SubSeq(t, a + 1, a + n)
  OBVIOUS
<1>3. u \in Seq(0..255) /\ Len(u) = n /\ \A i \in 1..n : u[i] = t[a + i]
  <2>1. IsPart(t, a, n)
    BY PartOf
  <2>2. QED BY <1>2, <2>1, Zenon DEF IsPart
<1>4. PICK v : v = SubSeq(u, s + 1, s + m)
  OBVIOUS
<1>5. v \in Seq(0..255) /\ Len(v) = m /\ \A i \in 1..m : v[i] = u[s + i]
  <2>1. IsPart(u, s, m)
    BY <1>3, PartOf
  <2>2. QED BY <1>4, <2>1, Zenon DEF IsPart
<1>6. PICK w : w = SubSeq(t, c + 1, c + m)
  OBVIOUS
<1>7. w \in Seq(0..255) /\ Len(w) = m /\ \A i \in 1..m : w[i] = t[c + i]
  <2>1. IsPart(t, c, m)
    BY <1>1, PartOf
  <2>2. QED BY <1>6, <2>1, Zenon DEF IsPart
<1>8. v = w
  <2>1. ASSUME NEW i \in 1..m PROVE v[i] = w[i]
    <3>1. s + i \in 1..n /\ a + (s + i) = c + i
      BY <1>1
    <3>2. QED BY <1>3, <1>5, <1>7, <3>1
  <2>2. QED BY <1>5, <1>7, <2>1
<1>9. QED BY <1>1, <1>2, <1>4, <1>6, <1>8, Zenon DEF PartInPart

Cuts(t, a, s, b) ==
  /\ SubSeq(SubSeq(t, a + 1, b), s + 1, b - a) = SubSeq(t, (a + s) + 1, b)
  /\ SubSeq(t, (a + s) + 1, b) \in Seq(0..255)
  /\ Len(SubSeq(t, (a + s) + 1, b)) = (b - a) - s

\* What stays of a part when s bytes of it go.
LEMMA CutPart ==
  ASSUME NEW t \in Seq(0..255), NEW a \in Nat, NEW b \in Nat, NEW s \in Nat,
         a + s <= b, b <= Len(t)
  PROVE  Cuts(t, a, s, b)
<1>1. PICK n \in Nat, m \in Nat, c \in Nat :
        n = b - a /\ m = n - s /\ c = a + s /\ a + n = b /\ s + m = n /\ c + m = b
  OBVIOUS
<1>2. a + n <= Len(t) /\ s + m <= n /\ c + m <= Len(t)
  BY <1>1
<1>3. PartInPart(t, a, n, s, m)
  BY <1>2, PartOfPart
<1>4. IsPart(t, c, m)
  BY <1>2, PartOf
<1>5. (b - a) - s = m
  BY <1>1
<1>6. SubSeq(SubSeq(t, a + 1, b), s + 1, b - a) = SubSeq(t, (a + s) + 1, b)
  BY <1>1, <1>3, Zenon DEF PartInPart
<1>7. SubSeq(t, (a + s) + 1, b) \in Seq(0..255) /\ Len(SubSeq(t, (a + s) + 1, b)) = m
  BY <1>1, <1>4, Zenon DEF IsPart
<1>8. QED BY <1>5, <1>6, <1>7, Zenon DEF Cuts

LEMMA AccumulateInv ==
  ASSUME Accumulate, UNCHANGED build, IInv
  PROVE  IInv'
<1>1. PICK kept, n : kept = SubSeq(window, SlideBy + 1, End)
                     /\ n = Min({todo, Capacity - Len(kept)})
  OBVIOUS
<1>2. /\ pc = "loop" /\ window' = kept \o NextData(n) /\ idx' = idx - SlideBy
      /\ todo' = todo - n
      /\ pc' = (IF Len(kept) + n < Capacity THEN "loop" ELSE "compress")
      /\ call' = call /\ werr' = werr /\ buf' = buf /\ remote' = remote
      /\ text' = text /\ given' = given /\ ret' = ret
      /\ processed' = processed /\ table' = table /\ tokens' = tokens /\ tk' = tk
      /\ hist' = hist /\ last' = last /\ code' = code
  BY <1>1 DEF Accumulate, clientVars
<1>3. Types /\ Calls /\ OutputInv /\ WindowInv /\ TableInv /\ CodedInv
  BY DEF IInv
<1>4. call = "write" /\ werr = "nil" /\ tk = 0
  BY <1>2, <1>3 DEF Calls
<1>5. InStep
  BY <1>2, <1>4 DEF InStep
<1>6. PICK t \in Seq(0..255), e \in Nat, k \in Nat, c \in Nat, g \in Nat, o \in Nat,
           p \in Nat, z \in Nat, i \in Nat :
        /\ t = text /\ e = End /\ k = Taken /\ c = Capacity /\ g = given /\ o = todo
        /\ p = processed /\ z = WindowSize /\ i = idx
        /\ e <= c /\ i <= e /\ e <= k /\ g <= Len(t) /\ k = g - o /\ o <= g
        /\ k - p = e - i /\ i <= p /\ (i = p \/ i >= z)
        /\ window = SubSeq(t, (k - e) + 1, k)
  <2>1. /\ text \in Seq(0..255) /\ End \in Nat /\ Taken \in Nat /\ Capacity \in Nat
        /\ given \in Nat /\ todo \in Nat /\ processed \in Nat /\ WindowSize \in Nat
        /\ idx \in Nat /\ End <= Capacity /\ idx <= End /\ given <= Len(text)
        /\ todo <= given
    BY <1>3, TypeFacts, Sizes
  <2>2. /\ End <= Taken /\ Taken - processed = End - idx /\ idx <= processed
        /\ (idx = processed \/ idx >= WindowSize)
        /\ window = SubSeq(text, (Taken - End) + 1, Taken)
    BY <1>3, <1>5 DEF WindowInv
  <2>3. Taken = given - todo
    BY DEF Taken
  <2>4. QED BY <2>1, <2>2, <2>3
<1>7. PICK s \in Nat : s = SlideBy /\ s <= i /\ (s = 0 \/ i - s >= z)
  <2>1. SlideBy = IF i >= 2 * z THEN i - z ELSE 0
    BY <1>6 DEF SlideBy
  <2>2. CASE i >= 2 * z
    <3>1. i - z \in Nat /\ i - z <= i /\ i - (i - z) >= z
      BY <2>2
    <3>2. QED BY <2>1, <2>2, <3>1
  <2>3. QED BY <2>1, <2>2
<1>8. PICK a \in Nat : a = k - e /\ a + s <= k /\ k - a = e
  BY <1>6, <1>7
<1>9. /\ kept = SubSeq(t, (a + s) + 1, k) /\ kept \in Seq(0..255) /\ Len(kept) = e - s
  <2>1. Cuts(t, a, s, k)
    <3>1. k <= Len(t)
      BY <1>6
    <3>2. QED BY <1>8, <3>1, CutPart
  <2>2. kept = SubSeq(SubSeq(t, a + 1, k), s + 1, k - a)
    BY <1>1, <1>6, <1>7, <1>8
  <2>3. QED BY <1>8, <2>1, <2>2, Zenon DEF Cuts
<1>10. n \in Nat /\ n <= o /\ (e - s) + n <= c
  <2>1. PICK m \in Nat : m = c - (e - s)
    BY <1>6, <1>7
  <2>2. n = Min({o, m})
    BY <1>1, <1>6, <1>9, <2>1
  <2>3. n \in Nat /\ n <= o /\ n <= m
    BY <2>2, MinTwo
  <2>4. QED BY <1>6, <1>7, <2>1, <2>3
<1>11. PICK l \in Nat : l = k + n /\ l <= Len(t) /\ k <= l
  BY <1>6, <1>10
<1>12. NextData(n) = SubSeq(t, k + 1, l)
  BY <1>6, <1>10, <1>11 DEF NextData
<1>13. window' = SubSeq(t, (a + s) + 1, l)
  <2>1. a + s \in Nat
    OBVIOUS
  <2>2. Adjoin(t, a + s, k, l)
    BY <1>8, <1>11, <2>1, Adjacent
  <2>3. QED BY <1>2, <1>9, <1>12, <2>2, Zenon DEF Adjoin
<1>14. window' \in Seq(0..255) /\ Len(window') = (e - s) + n
  <2>1. PICK x \in Nat : x = a + s
    OBVIOUS
  <2>2. PICK y \in Nat : y = (e - s) + n /\ x + y = l
    BY <1>6, <1>7, <1>8, <1>10, <1>11, <2>1
  <2>3. IsPart(t, x, y)
    BY <1>11, <2>1, <2>2, PartOf
  <2>4. window' = SubSeq(t, x + 1, x + y)
    BY <1>13, <2>1, <2>2
  <2>5. QED BY <2>2, <2>3, <2>4, Zenon DEF IsPart
<1>15. PICK e2 \in Nat, i2 \in Nat, o2 \in Nat :
         /\ e2 = (e - s) + n /\ i2 = i - s /\ o2 = o - n
         /\ e2 = End' /\ i2 = idx' /\ o2 = todo' /\ i2 <= e2 /\ e2 <= c /\ o2 <= g
  <2>1. End' = (e - s) + n
    BY <1>14 DEF End
  <2>2. idx' = i - s /\ todo' = o - n
    BY <1>2, <1>6, <1>7
  <2>3. (e - s) + n \in Nat /\ i - s \in Nat /\ o - n \in Nat /\ i - s <= (e - s) + n
        /\ o - n <= g
    BY <1>6, <1>7, <1>10
  <2>4. QED BY <1>10, <2>1, <2>2, <2>3
<1>16. Taken' = l /\ InStep'
  <2>1. Taken' = g - (o - n)
    BY <1>2, <1>6, <1>15 DEF Taken
  <2>2. g - (o - n) = l
    BY <1>6, <1>10, <1>11
  <2>3. QED BY <1>2, <1>4, <2>1, <2>2 DEF InStep
<1>17. Types'
  <2>1. End' <= Capacity
    BY <1>6, <1>15, Zenon
  <2>2. idx' \in 0..End'
    <3>1. i2 \in 0..e2
      BY <1>15
    <3>2. QED BY <1>15, <3>1, Zenon
  <2>3. todo' \in Nat /\ todo' <= given'
    BY <1>2, <1>6, <1>15, Zenon
  <2>4. QED BY <1>2, <1>3, <1>14, <2>1, <2>2, <2>3 DEF Types, Pcs, Capacity
<1>18. Calls'
  BY <1>2, <1>4 DEF Calls
<1>19. OutputInv'
  BY <1>2, <1>3 DEF OutputInv, Live
<1>20. WindowInv'
  <2>1. i2 <= p /\ (i2 = p \/ i2 >= z)
    BY <1>6, <1>7, <1>15
  <2>2. l - p = e2 - i2 /\ e2 <= l /\ l - e2 = a + s
    <3>1. k - p = e - i /\ s <= i /\ a = k - e /\ a + s <= k /\ l = k + n
          /\ e2 = (e - s) + n /\ i2 = i - s
      BY <1>6, <1>7, <1>8, <1>11, <1>15, Zenon
    <3>2. QED BY <1>10, <3>1
  <2>3. window' = SubSeq(t, (l - e2) + 1, l)
    BY <1>13, <2>2
  <2>4. QED BY <1>2, <1>6, <1>15, <1>16, <2>1, <2>2, <2>3, Zenon DEF WindowInv
<1>21. TableInv'
  BY <1>2, <1>3 DEF TableInv
<1>22. CodedInv'
  BY <1>2, <1>3 DEF CodedInv
<1>23. QED BY <1>17, <1>18, <1>19, <1>20, <1>21, <1>22 DEF IInv

(***************************************************************************)
(* The table                                                               *)
(***************************************************************************)
\* A table in which no position is behind b.
UpTo(b) == {u \in [Slots -> 0..(PosMod - 1)] : \A s \in Slots : u[s] <= b}

LEMMA SmallRest ==
  ASSUME NEW v \in Nat
  PROVE  v % PosMod \in 0..(PosMod - 1) /\ v % PosMod <= v
<1>1. PosMod \in Nat \ {0}
  BY Sizes
<1>2. PICK q \in Nat, r \in 0..(PosMod - 1) :
        r = v % PosMod /\ v = PosMod * q + r
  BY <1>1, Remainder
<1>3. PosMod * q \in Nat
  BY <1>1
<1>4. r <= v
  BY <1>2, <1>3
<1>5. QED BY <1>2, <1>4

\* The table when positions have entered it.
LEMMA EnteredFacts ==
  ASSUME NEW b \in Nat, NEW tab \in UpTo(b), NEW i \in Nat, NEW n \in Nat,
         processed \in Nat, idx \in Nat, idx <= processed,
         \A j \in 1..n : Slot(i + j - 1) \in Slots,
         n = 0 \/ ((processed - idx) + i) + (n - 1) <= b \/ PosMod - 1 <= b
  PROVE  Entered(tab, i, n) \in UpTo(b)
<1> DEFINE Pos(j) == (processed - idx + i + j - 1) % PosMod
           Step(f) == [j \in 0..n |->
                         IF j = 0 THEN tab
                         ELSE [f[j - 1] EXCEPT ![Slot(i + j - 1)] =
                                 (processed - idx + i + j - 1) % PosMod]]
<1>1. ASSUME NEW j \in 1..n PROVE Pos(j) \in 0..(PosMod - 1) /\ Pos(j) <= b
  <2>1. PICK d \in Nat : d = processed - idx
    OBVIOUS
  <2>2. PICK v \in Nat : v = d + i + j - 1 /\ v <= (d + i) + (n - 1)
    OBVIOUS
  <2>3. v % PosMod \in 0..(PosMod - 1) /\ v % PosMod <= v
    BY SmallRest
  <2>4. Pos(j) = v % PosMod
    BY <2>1, <2>2
  <2>5. v % PosMod <= b
    <3>1. n # 0
      OBVIOUS
    <3>2. (d + i) + (n - 1) <= b \/ PosMod - 1 <= b
      BY <2>1, <3>1, Zenon
    <3>3. PICK m \in Nat, r \in Nat : m = PosMod /\ r = v % PosMod /\ r <= m - 1 /\ r <= v
      BY <2>3, Sizes
    <3>4. r <= b
      BY <2>2, <3>2, <3>3
    <3>5. QED BY <3>3, <3>4
  <2>6. QED BY <2>3, <2>4, <2>5, Zenon
<1>2. PICK g : g = [j \in 1..n |->
                      [u \in UpTo(b) |-> [u EXCEPT ![Slot(i + j - 1)] = Pos(j)]]]
  OBVIOUS
<1>3. g \in [1..n -> [UpTo(b) -> UpTo(b)]]
  <2>1. ASSUME NEW j \in 1..n, NEW u \in UpTo(b)
        PROVE  [u EXCEPT ![Slot(i + j - 1)] = Pos(j)] \in UpTo(b)
    <3>1. PICK p \in 0..(PosMod - 1), k \in Slots :
            p = Pos(j) /\ p <= b /\ k = Slot(i + j - 1)
      BY <1>1
    <3>2. u \in [Slots -> 0..(PosMod - 1)] /\ \A s \in Slots : u[s] <= b
      BY DEF UpTo
    <3>3. PICK w : w = [u EXCEPT ![k] = p]
      OBVIOUS
    <3>4. w \in [Slots -> 0..(PosMod - 1)]
      BY <3>2, <3>3
    <3>5. \A s \in Slots : w[s] = IF s = k THEN p ELSE u[s]
      BY <3>2, <3>3
    <3>6. \A s \in Slots : w[s] <= b
      BY <3>1, <3>2, <3>5
    <3>7. w \in UpTo(b)
      BY <3>4, <3>6 DEF UpTo
    <3>8. QED BY <3>1, <3>3, <3>7
  <2> HIDE DEF Pos
  <2>2. \A j \in 1..n : g[j] \in [UpTo(b) -> UpTo(b)]
    BY <1>2, <2>1
  <2>3. QED BY <1>2, <2>2
<1>4. PICK h \in [0..n -> UpTo(b)] : h[0] = tab /\ \A j \in 1..n : h[j] = g[j][h[j - 1]]
  <2>1. Recurses(n, UpTo(b), tab, g)
    BY <1>3, Recursion
  <2>2. QED BY <2>1 DEF Recurses
<1>5. h = Step(h)
  <2>1. \A j \in 0..n : j # 0 => j \in 1..n /\ j - 1 \in 0..n
    OBVIOUS
  <2>2. ASSUME NEW j \in 1..n
        PROVE  h[j] = [h[j - 1] EXCEPT ![Slot(i + j - 1)] = Pos(j)]
    <3>1. j - 1 \in 0..n
      OBVIOUS
    <3>2. h[j - 1] \in UpTo(b)
      BY <1>4, <3>1
    <3> HIDE DEF Pos
    <3>3. QED BY <1>2, <1>4, <3>2
  <2>3. \A j \in 0..n : h[j] = (IF j = 0 THEN tab
                                ELSE [h[j - 1] EXCEPT ![Slot(i + j - 1)] = Pos(j)])
    BY <1>4, <2>1, <2>2, Zenon
  <2>4. \A j \in 0..n : h[j] = Step(h)[j]
    BY <2>3
  <2>5. QED BY <1>4, <2>4
<1> DEFINE f == CHOOSE f : f = Step(f)
<1>6. f = Step(f) /\ Entered(tab, i, n) = f[n]
  BY <1>5 DEF Entered
<1> HIDE DEF f
<1>7. f[0] = tab
  BY <1>6
<1>8. ASSUME NEW j \in 1..n, f[j - 1] \in UpTo(b) PROVE f[j] \in UpTo(b)
  <2>1. j \in 0..n /\ j # 0
    OBVIOUS
  <2>2. f[j] = [f[j - 1] EXCEPT ![Slot(i + j - 1)] = Pos(j)]
    BY <1>6, <2>1
  <2>3. g[j][f[j - 1]] = [f[j - 1] EXCEPT ![Slot(i + j - 1)] = Pos(j)]
    <3> HIDE DEF Pos
    <3>1. QED BY <1>2, <1>8
  <2>4. g[j][f[j - 1]] \in UpTo(b)
    BY <1>3, <1>8
  <2>5. QED BY <2>2, <2>3, <2>4, Zenon
<1> DEFINE S == {j \in Nat : j <= n => f[j] \in UpTo(b)}
<1>9. 0 \in S
  BY <1>7
<1>10. ASSUME NEW j \in S PROVE j + 1 \in S
  <2>1. SUFFICES ASSUME j + 1 <= n PROVE f[j + 1] \in UpTo(b)
    BY <1>10
  <2>2. j + 1 \in 1..n /\ (j + 1) - 1 = j /\ f[j] \in UpTo(b)
    BY <1>10, <2>1
  <2>3. QED BY <1>8, <2>2
<1>11. S = Nat
  <2> HIDE DEF S
  <2>1. S \in SUBSET Nat
    BY DEF S
  <2>2. QED BY <1>9, <1>10, <2>1, InductiveSet
<1>12. n \in S
  <2> HIDE DEF S
  <2>1. QED BY <1>11
<1>13. QED BY <1>6, <1>12

\* While generate runs, the keys of the table are hashes of the data.
LEMMA KeyInSlots ==
  ASSUME Types, WindowInv, InStep, NEW j \in Nat, j + MinMatch <= End
  PROVE  Slot(j) \in Slots
<1>1. PICK t \in Seq(0..255), e \in Nat, k \in Nat, n \in Nat :
        /\ t = text /\ e = End /\ k = Taken /\ n = MinMatch
        /\ e <= k /\ k <= Len(t) /\ j + n <= e
        /\ window = SubSeq(t, (k - e) + 1, k)
  <2>1. /\ text \in Seq(0..255) /\ End \in Nat /\ Taken \in Nat /\ Taken <= Len(text)
        /\ MinMatch \in Nat
    BY TypeFacts, Sizes
  <2>2. End <= Taken /\ window = SubSeq(text, (Taken - End) + 1, Taken)
    BY DEF WindowInv
  <2>3. QED BY <2>1, <2>2
<1>2. PICK a \in Nat, i \in Nat :
        a = k - e /\ a + e = k /\ i = a + j /\ a + e <= Len(t) /\ i + n <= Len(t)
  <2>1. PICK l \in Nat : l = Len(t) /\ k <= l
    BY <1>1
  <2>2. k - e \in Nat /\ (k - e) + e = k /\ (k - e) + j \in Nat /\ (k - e) + e <= l
        /\ ((k - e) + j) + n <= l
    BY <1>1, <2>1
  <2>3. QED BY <2>1, <2>2
<1>3. PartInPart(t, a, e, j, n)
  BY <1>1, <1>2, PartOfPart
<1>4. SubSeq(window, j + 1, j + MinMatch) = SubSeq(t, i + 1, i + MinMatch)
  BY <1>1, <1>2, <1>3, Zenon DEF PartInPart
<1>5. text \in Texts /\ i \in 0..(Len(text) - MinMatch)
  <2>1. PICK l \in Nat : l = Len(t) /\ i + n <= l
    BY <1>2
  <2>2. i \in 0..(l - n)
    BY <2>1
  <2>3. QED BY <1>1, <2>1, <2>2 DEF Types
<1>6. Hash(SubSeq(text, i + 1, i + MinMatch)) \in Slots
  BY <1>5, DynAssumption
<1>7. QED BY <1>1, <1>4, <1>6 DEF Slot

(***************************************************************************)
(* Matches                                                                 *)
(***************************************************************************)
LEMMA CommonFacts ==
  ASSUME NEW p \in Nat, NEW i \in Nat, NEW n \in Nat
  PROVE  /\ Common(p, i, n) \in 0..n
         /\ \A j \in 0..(Common(p, i, n) - 1) : At(p + j) = At(i + j)
<1>1. PICK S : S = {m \in 0..n : \A j \in 0..(m - 1) : At(p + j) = At(i + j)}
  OBVIOUS
<1>2. 0 \in S /\ S \subseteq 0..n
  BY <1>1
<1>3. Max(S) \in S
  BY <1>2, MaxOf
<1>4. QED BY <1>1, <1>3 DEF Common

\* A match is either found by the first load, or ends a load in front of the end.
LEMMA MatchFacts ==
  ASSUME NEW p \in Nat, NEW i \in Nat, End \in Nat
  PROVE  /\ MatchLength(p, i) \in Nat
         /\ MatchLength(p, i) <= Word \/ MatchLength(p, i) <= (End - Word) - i
         /\ \A j \in 0..(MatchLength(p, i) - 1) : At(p + j) = At(i + j)
<1>1. PICK w \in Nat, e \in Nat : w = Word /\ e = End
  BY Sizes
<1>2. PICK c \in 0..w : c = Common(p, i, w) /\ \A j \in 0..(c - 1) : At(p + j) = At(i + j)
  <2>1. /\ Common(p, i, w) \in 0..w
        /\ \A j \in 0..(Common(p, i, w) - 1) : At(p + j) = At(i + j)
    BY CommonFacts, Zenon
  <2>2. QED BY <2>1, Zenon
<1>3. PICK r \in Int : r = e - w - i - w
  OBVIOUS
<1>4. MatchLength(p, i) = IF c < w THEN c
                          ELSE w + (IF r < w THEN 0 ELSE Common(p + w, i + w, r))
  BY <1>1, <1>2, <1>3 DEF MatchLength
<1>5. CASE c < w \/ r < w
  <2>1. MatchLength(p, i) = c /\ c <= w
    BY <1>2, <1>4, <1>5
  <2>2. QED BY <1>1, <1>2, <2>1
<1>6. CASE ~(c < w \/ r < w)
  <2>1. c = w /\ r \in Nat /\ p + w \in Nat /\ i + w \in Nat
    BY <1>6
  <2>2. PICK d \in 0..r : /\ d = Common(p + w, i + w, r)
                          /\ \A j \in 0..(d - 1) : At((p + w) + j) = At((i + w) + j)
    <3>1. /\ Common(p + w, i + w, r) \in 0..r
          /\ \A j \in 0..(Common(p + w, i + w, r) - 1) : At((p + w) + j) = At((i + w) + j)
      <4>1. PICK a \in Nat, b \in Nat, n \in Nat : a = p + w /\ b = i + w /\ n = r
        BY <2>1
      <4>2. /\ Common(a, b, n) \in 0..n
            /\ \A j \in 0..(Common(a, b, n) - 1) : At(a + j) = At(b + j)
        BY CommonFacts
      <4>3. QED BY <4>1, <4>2, Zenon
    <3>2. QED BY <3>1, Zenon
  <2>3. MatchLength(p, i) = w + d /\ w + d <= (e - w) - i
    BY <1>3, <1>4, <1>6, <2>1, <2>2
  <2>4. ASSUME NEW j \in 0..((w + d) - 1) PROVE At(p + j) = At(i + j)
    <3>1. CASE j < w
      BY <1>2, <2>1, <3>1
    <3>2. CASE j >= w
      <4>1. PICK x \in 0..(d - 1) : x = j - w
        BY <3>2
      <4>2. (p + w) + x = p + j /\ (i + w) + x = i + j
        BY <4>1
      <4>3. QED BY <2>2, <4>1, <4>2
    <3>3. QED BY <3>1, <3>2
  <2>5. QED BY <1>1, <2>3, <2>4
<1>7. QED BY <1>5, <1>6

\* A position of the table that looks near enough is in the window.
LEMMA LooksBack ==
  ASSUME Types, WindowInv, TableInv, InStep, idx < End - Word, InWindow
  PROVE  Distance \in 1..WindowSize /\ Distance <= idx /\ Slot(idx) \in Slots
<1>1. PICK i \in Nat, e \in Nat, p \in Nat, z \in Nat, w \in Nat, n \in Nat, g \in Nat :
        /\ i = idx /\ e = End /\ p = processed /\ z = WindowSize /\ w = Word
        /\ n = MinMatch /\ g = PosMod
        /\ i < e - w /\ n < w /\ z > 0 /\ 2 * z <= g /\ i <= p /\ (i = p \/ i >= z)
  <2>1. idx \in Nat /\ End \in Nat /\ processed \in Nat
    BY TypeFacts
  <2>2. /\ WindowSize \in Nat /\ Word \in Nat /\ MinMatch \in Nat /\ PosMod \in Nat
        /\ MinMatch < Word /\ WindowSize > 0 /\ 2 * WindowSize <= PosMod
    BY Sizes
  <2>3. idx <= processed /\ (idx = processed \/ idx >= WindowSize)
    BY DEF WindowInv
  <2>4. QED BY <2>1, <2>2, <2>3
<1>2. Slot(idx) \in Slots
  <2>1. i + n <= e
    BY <1>1
  <2>2. QED BY <1>1, <2>1, KeyInSlots
<1>3. PICK s \in Slots : s = Slot(idx)
  BY <1>2
<1>4. PICK x \in 0..(g - 1) : x = table[s]
  BY <1>1, <1>3 DEF Types
<1>5. PICK d \in Int : d = (p - x) % g /\ d = Distance
  BY <1>1, <1>3, <1>4 DEF Distance
<1>6. 1 <= d /\ d <= z
  BY <1>1, <1>5 DEF InWindow
<1>7. d <= i
  <2>1. CASE i >= z
    BY <1>6, <2>1
  <2>2. CASE i < z
    <3>1. p = i /\ x <= p
      BY <1>1, <1>3, <1>4, <2>2 DEF TableInv
    <3>2. p - x \in Nat /\ p - x < g
      BY <1>1, <2>2, <3>1
    <3>3. d = p - x
      BY <1>1, <1>5, <3>2
    <3>4. QED BY <1>1, <3>1, <3>3
  <2>3. QED BY <1>1, <2>1, <2>2
<1>8. QED BY <1>1, <1>2, <1>5, <1>6, <1>7

\* Longest matches leave something of a match.
LEMMA LongFacts ==
  ASSUME NEW m \in Nat, m > MaxMatch, Len(tokens) \in Nat
  PROVE  /\ LongCount(m) \in Nat \ {0} /\ LongCount(m) * MaxMatch \in Nat
         /\ LongCount(m) * MaxMatch < m
         /\ Len(tokens) + LongCount(m) > MaxTokens \/ m - LongCount(m) * MaxMatch <= MaxMatch
<1>1. PICK x \in Nat \ {0}, l \in Nat, y \in Nat :
        x = MaxMatch /\ l = Len(tokens) /\ y = MaxTokens /\ m > x
  <2>1. MaxMatch \in Nat \ {0} /\ MaxTokens \in Nat
    BY Sizes
  <2>2. QED BY <2>1
<1>2. PICK q \in Nat, r \in 0..(x - 1) : q = (m - 1) \div x /\ m - 1 = x * q + r
  <2>1. PICK n \in Nat : n = m - 1
    BY <1>1
  <2>2. n % x \in 0..(x - 1) /\ n \div x \in Nat /\ n = x * (n \div x) + (n % x)
    BY Remainder
  <2>3. QED BY <2>1, <2>2
<1>3. q # 0
  <2>1. q = 0 => m - 1 = r
    BY <1>2
  <2>2. QED BY <1>1, <2>1
<1>4. PICK a \in Nat : a \in {1, (y + 1) - l} /\ a >= 1 /\ a >= (y + 1) - l
                       /\ a = Max({1, (y + 1) - l})
  <2>1. 1 \in Int /\ (y + 1) - l \in Int
    OBVIOUS
  <2>2. PICK b : b = Max({1, (y + 1) - l})
    OBVIOUS
  <2>3. b \in {1, (y + 1) - l} /\ b >= 1 /\ b >= (y + 1) - l /\ b \in Int
    BY <2>1, <2>2, MaxTwo
  <2>4. QED BY <2>2, <2>3
<1>5. PICK k \in Nat : k = LongCount(m) /\ k <= q /\ k <= a /\ k \in {q, a}
  <2>1. LongCount(m) = Min({q, a})
    BY <1>1, <1>2, <1>4 DEF LongCount
  <2>2. QED BY <2>1, MinTwo
<1>6. k \in Nat \ {0}
  BY <1>3, <1>4, <1>5
<1>7. PICK j \in Nat : j = q - k
  BY <1>5
<1>8. k * x \in Nat /\ k * x < m
  <2>1. x * q = k * x + x * j /\ x * j \in Nat /\ k * x \in Nat
    BY <1>7
  <2>2. QED BY <1>2, <2>1
<1>9. l + k > y \/ m - k * x <= x
  <2>1. CASE k = q
    <3>1. x * q = k * x
      BY <2>1
    <3>2. QED BY <1>2, <1>8, <3>1
  <2>2. CASE k = a
    BY <1>4, <2>2
  <2>3. QED BY <1>5, <2>1, <2>2
<1>10. QED BY <1>1, <1>5, <1>6, <1>8, <1>9

\* A longest match or more, and what follows.
LongOf(k, d) == [i \in 1..k |-> Match(MaxMatch, d)]

MatchRun(k, m, d) ==
  /\ k \in Nat /\ m \in Nat /\ d \in 1..WindowSize /\ d <= idx
  /\ k * MaxMatch \in Nat /\ k * MaxMatch <= m /\ (k > 0 => MaxMatch <= k * MaxMatch)
  /\ MinMatch <= m /\ idx + m <= End
  /\ \A j \in 0..(m - 1) : At((idx - d) + j) = At(idx + j)
  /\ \/ /\ k > 0 /\ table' = Entered(table, idx, Updates)
        /\ Resolve(k * MaxMatch, LongOf(k, d))
     \/ /\ m - k * MaxMatch \in MinMatch..MaxMatch
        /\ ((idx + k * MaxMatch) + (Updates - 1)) + MinMatch <= End
        /\ table' = Entered(IF k > 0 THEN Entered(table, idx, Updates) ELSE table,
                            idx + k * MaxMatch, Updates)
        /\ Resolve(m, Append(LongOf(k, d), Match(m - k * MaxMatch, d)))
     \/ /\ k > 0 /\ k * MaxMatch < m
        /\ table' = Entered(table, idx, Updates)
        /\ Resolve(k * MaxMatch + 1, Append(LongOf(k, d), Lit(At(idx + k * MaxMatch))))

LEMMA GenMatchFacts ==
  ASSUME GenMatch, IInv
  PROVE  \E k, m, d : MatchRun(k, m, d)
<1>1. Types /\ Calls /\ WindowInv /\ TableInv
  BY DEF IInv
<1>2. /\ pc = "compress" /\ idx < End - Word /\ InWindow
      /\ MatchLength(idx - Distance, idx) >= MinMatch
      /\ Matched(MatchLength(idx - Distance, idx))
  BY DEF GenMatch, Generating
<1>3. InStep
  BY <1>1, <1>2 DEF Calls, InStep
<1>4. PICK d \in 1..WindowSize : d = Distance /\ d <= idx
  BY <1>1, <1>2, <1>3, LooksBack
<1>5. PICK i \in Nat, e \in Nat, w \in Nat, x \in Nat, n \in Nat, u \in Nat, p \in Nat :
        /\ i = idx /\ e = End /\ w = Word /\ x = MaxMatch /\ n = MinMatch /\ u = Updates
        /\ i < e - w /\ n < w /\ w < x /\ (u - 1) + n <= w /\ 1 <= n /\ p = i - d
  <2>1. idx \in Nat /\ End \in Nat
    BY <1>1, TypeFacts
  <2>2. /\ Word \in Nat /\ MaxMatch \in Nat /\ MinMatch \in Nat /\ Updates \in Nat
        /\ MinMatch < Word /\ Word < MaxMatch /\ (Updates - 1) + MinMatch <= Word
        /\ 1 <= MinMatch
    BY Sizes
  <2>3. PICK a \in Nat : a = idx - d
    BY <1>4, <2>1, Sizes
  <2>4. QED BY <1>2, <2>1, <2>2, <2>3
<1>6. PICK m \in Nat : /\ m = MatchLength(p, i) /\ (m <= w \/ m <= (e - w) - i)
                       /\ \A j \in 0..(m - 1) : At(p + j) = At(i + j)
  <2>1. End \in Nat
    BY <1>5
  <2>2. /\ MatchLength(p, i) \in Nat
        /\ MatchLength(p, i) <= Word \/ MatchLength(p, i) <= (End - Word) - i
        /\ \A j \in 0..(MatchLength(p, i) - 1) : At(p + j) = At(i + j)
    BY <2>1, MatchFacts, Zenon
  <2>3. QED BY <1>5, <2>2, Zenon
<1>7. n <= m /\ Matched(m)
  BY <1>2, <1>4, <1>5, <1>6
<1>8. i + m <= e
  BY <1>5, <1>6
<1>9. PICK k : k = IF m > MaxMatch THEN LongCount(m) ELSE 0
  OBVIOUS
<1>10. PICK kx \in Nat : /\ k \in Nat /\ kx = k * x /\ kx <= m /\ (k > 0 => kx < m)
                         /\ k > 0 => x <= kx /\ m > x
                         /\ k = 0 => kx = 0 /\ m <= x
                         /\ ~(k > 0 /\ Len(tokens) + k > MaxTokens) => m - kx <= x
  <2>1. CASE m > MaxMatch
    <3>1. k = LongCount(m) /\ Len(tokens) \in Nat
      BY <1>1, <1>9, <2>1, TypeFacts
    <3>2. /\ k \in Nat \ {0} /\ k * MaxMatch \in Nat /\ k * MaxMatch < m
          /\ Len(tokens) + k > MaxTokens \/ m - k * MaxMatch <= MaxMatch
      BY <2>1, <3>1, LongFacts
    <3>3. PICK y \in Nat : y = k * x /\ y < m
      BY <1>5, <3>2
    <3>4. x <= y
      <4>1. PICK j \in Nat : j = k - 1
        BY <3>2
      <4>2. k * x = j * x + x /\ j * x \in Nat
        BY <3>2, <4>1
      <4>3. QED BY <3>3, <4>2
    <3>5. QED BY <1>5, <2>1, <3>2, <3>3, <3>4
  <2>2. CASE ~(m > MaxMatch)
    <3>1. k = 0 /\ m <= x /\ 0 * x = 0
      BY <1>5, <1>9, <2>2
    <3>2. QED BY <3>1
  <2>3. QED BY <2>1, <2>2
<1>11. PICK full : full = (k > 0 /\ Len(tokens) + k > MaxTokens)
  OBVIOUS
<1>12. \/ /\ full
          /\ table' = Entered(table, idx, Updates)
          /\ Resolve(k * MaxMatch, LongOf(k, d))
       \/ /\ ~full /\ m - k * MaxMatch >= MinMatch
          /\ table' = Entered(IF k > 0 THEN Entered(table, idx, Updates) ELSE table,
                              idx + k * MaxMatch, Updates)
          /\ Resolve(m, Append(LongOf(k, d), Match(m - k * MaxMatch, d)))
       \/ /\ ~full /\ m - k * MaxMatch < MinMatch
          /\ table' = Entered(table, idx, Updates)
          /\ Resolve(k * MaxMatch + 1, Append(LongOf(k, d), Lit(At(idx + k * MaxMatch))))
  BY <1>4, <1>7, <1>9, <1>11, Zenon DEF Matched, LongOf
<1>13. \/ /\ k > 0
          /\ table' = Entered(table, idx, Updates)
          /\ Resolve(k * MaxMatch, LongOf(k, d))
       \/ /\ m - k * MaxMatch \in MinMatch..MaxMatch
          /\ ((idx + k * MaxMatch) + (Updates - 1)) + MinMatch <= End
          /\ table' = Entered(IF k > 0 THEN Entered(table, idx, Updates) ELSE table,
                              idx + k * MaxMatch, Updates)
          /\ Resolve(m, Append(LongOf(k, d), Match(m - k * MaxMatch, d)))
       \/ /\ k > 0 /\ k * MaxMatch < m
          /\ table' = Entered(table, idx, Updates)
          /\ Resolve(k * MaxMatch + 1, Append(LongOf(k, d), Lit(At(idx + k * MaxMatch))))
  <2>1. full => k > 0
    BY <1>11
  <2>2. ~full /\ m - k * MaxMatch >= MinMatch =>
          /\ m - k * MaxMatch \in MinMatch..MaxMatch
          /\ ((idx + k * MaxMatch) + (Updates - 1)) + MinMatch <= End
    <3>1. SUFFICES ASSUME ~full, m - kx >= n
                   PROVE  m - kx \in n..x /\ ((i + kx) + (u - 1)) + n <= e
      BY <1>5, <1>10
    <3>2. m - kx <= x
      BY <1>10, <1>11, <3>1
    <3>3. ((i + kx) + (u - 1)) + n <= e
      <4>1. CASE k = 0
        BY <1>5, <1>10, <4>1
      <4>2. CASE k # 0
        <5>1. m > x /\ k > 0
          BY <1>10, <4>2
        <5>2. m <= (e - w) - i
          BY <1>5, <1>6, <5>1
        <5>3. QED BY <1>5, <1>10, <5>2
      <4>3. QED BY <4>1, <4>2
    <3>4. QED BY <1>5, <1>10, <3>1, <3>2, <3>3
  <2>3. ~full /\ m - k * MaxMatch < MinMatch => k > 0 /\ k * MaxMatch < m
    BY <1>5, <1>7, <1>10
  <2>4. QED BY <1>12, <2>1, <2>2, <2>3, Zenon
<1>14. /\ k * MaxMatch \in Nat /\ k * MaxMatch <= m /\ (k > 0 => MaxMatch <= k * MaxMatch)
       /\ MinMatch <= m /\ idx + m <= End
  BY <1>5, <1>7, <1>8, <1>10
<1>15. \A j \in 0..(m - 1) : At((idx - d) + j) = At(idx + j)
  BY <1>5, <1>6, Zenon
<1>16. MatchRun(k, m, d)
  BY <1>4, <1>10, <1>13, <1>14, <1>15, Zenon DEF MatchRun
<1>17. QED BY <1>16, Zenon

(***************************************************************************)
(* Tokens                                                                  *)
(***************************************************************************)
LEMMA TokenTypes ==
  /\ \A c \in 0..255 : Lit(c) \in Tokens
  /\ \A l \in 1..MaxMatch, d \in 1..WindowSize : Match(l, d) \in Tokens
  /\ EobToken \in Tokens
<1>1. ASSUME NEW c \in 0..256 PROVE [len |-> 0, lit |-> c, dist |-> 0] \in Tokens
  BY DEF Tokens
<1>2. ASSUME NEW l \in 1..MaxMatch, NEW d \in 1..WindowSize
      PROVE  [len |-> l, lit |-> 0, dist |-> d] \in Tokens
  <2>1. l \in Nat /\ d \in Nat
    BY Sizes
  <2>2. [len |-> l, lit |-> 0, dist |-> d] \in [len : Nat, lit : 0..256, dist : Nat]
    BY <2>1
  <2>3. QED BY <2>2 DEF Tokens
<1>3. \A c \in 0..255 : c \in 0..256
  OBVIOUS
<1>4. QED BY <1>1, <1>2, <1>3 DEF Lit, Match, EobToken

\* generate resolves bytes.
LEMMA ResolveInv ==
  ASSUME IInv, Generating, NEW n \in Nat, NEW ts \in Seq(Tokens), Resolve(n, ts),
         idx + n <= End, table' \in [Slots -> 0..(PosMod - 1)],
         processed + n < WindowSize => \A s \in Slots : table'[s] <= processed + n,
         UNCHANGED build
  PROVE  IInv'
<1>1. Types /\ Calls /\ OutputInv /\ WindowInv /\ TableInv /\ CodedInv
  BY DEF IInv
<1>2. /\ pc = "compress" /\ idx' = idx + n /\ processed' = processed + n
      /\ tokens' = tokens \o ts
      /\ hist' = hist \cup UNION {Symbols(ts[i]) : i \in DOMAIN ts}
      /\ pc' \in {"block", "compress"}
      /\ call' = call /\ todo' = todo /\ werr' = werr /\ buf' = buf /\ remote' = remote
      /\ text' = text /\ given' = given /\ ret' = ret
      /\ window' = window /\ tk' = tk /\ last' = last /\ code' = code
  BY DEF Resolve, Generating, clientVars
<1>3. PICK i \in Nat, p \in Nat, e \in Nat :
        i = idx /\ p = processed /\ e = End /\ i + n <= e
  BY <1>1, TypeFacts
<1>4. tokens \in Seq(Tokens) /\ tk = 0
  BY <1>1, <1>2 DEF Types, Calls
<1>5. /\ tokens' \in Seq(Tokens) /\ Len(tokens') = Len(tokens) + Len(ts)
      /\ \A j \in 1..Len(tokens) : tokens'[j] = tokens[j]
      /\ \A j \in 1..Len(ts) : tokens'[Len(tokens) + j] = ts[j]
  BY <1>2, <1>4, Concatenated
<1>6. Types'
  <2>1. idx' \in 0..End' /\ End' <= Capacity' /\ processed' \in Nat
    BY <1>1, <1>2, <1>3 DEF Types, End, Capacity
  <2>2. tk' \in 0..Len(tokens')
    BY <1>2, <1>4, <1>5
  <2>3. QED BY <1>1, <1>2, <1>5, <2>1, <2>2 DEF Types, Pcs
<1>7. Calls'
  BY <1>1, <1>2, <1>4 DEF Calls
<1>8. OutputInv'
  BY <1>1, <1>2 DEF OutputInv, Live
<1>9. WindowInv'
  <2>1. InStep' => InStep
    BY <1>2 DEF InStep
  <2>2. Taken' = Taken /\ End' = End
    BY <1>2 DEF Taken, End
  <2>3. i + n <= p + n /\ (i + n = p + n \/ i + n >= WindowSize)
    BY <1>1, <1>3, Sizes DEF WindowInv
  <2>4. Taken - p = e - i => Taken - (p + n) = e - (i + n)
    <3>1. PICK k \in Nat : k = Taken
      BY <1>1, TypeFacts
    <3>2. QED BY <3>1
  <2>5. QED BY <1>1, <1>2, <1>3, <2>1, <2>2, <2>3, <2>4, Zenon DEF WindowInv
<1>10. TableInv'
  BY <1>2 DEF TableInv
<1>11. CodedInv'
  <2>1. SUFFICES ASSUME ~DirtyReset, NEW j \in 1..Len(tokens')
                 PROVE  Symbols(tokens'[j]) \subseteq hist'
    BY DEF CodedInv
  <2>2. CASE j <= Len(tokens)
    <3>1. Symbols(tokens[j]) \subseteq hist /\ tokens'[j] = tokens[j]
      BY <1>1, <1>5, <2>1, <2>2 DEF CodedInv
    <3>2. QED BY <1>2, <3>1
  <2>3. CASE j > Len(tokens)
    <3>1. PICK k \in 1..Len(ts) : j = Len(tokens) + k
      <4>1. j - Len(tokens) \in 1..Len(ts) /\ j = Len(tokens) + (j - Len(tokens))
        BY <1>4, <1>5, <2>3
      <4>2. QED BY <4>1
    <3>2. tokens'[j] = ts[k] /\ k \in DOMAIN ts
      BY <1>5, <3>1
    <3>3. Symbols(ts[k]) \subseteq hist'
      BY <1>2, <3>2
    <3>4. QED BY <3>2, <3>3
  <2>4. QED BY <1>4, <2>2, <2>3
<1>12. QED BY <1>6, <1>7, <1>8, <1>9, <1>10, <1>11 DEF IInv

\* A table that fits when q bytes are processed.
TableOK(tab, q) ==
  /\ tab \in [Slots -> 0..(PosMod - 1)]
  /\ q < WindowSize => \A s \in Slots : tab[s] <= q

LEMMA EntersOK ==
  ASSUME Types, WindowInv, InStep, NEW o \in Nat, NEW q \in Nat, o <= q, NEW tab,
         TableOK(tab, o), NEW i \in Nat, NEW n \in Nat, (i + (n - 1)) + MinMatch <= End,
         ((processed - idx) + i) + (n - 1) <= q
  PROVE  TableOK(Entered(tab, i, n), q)
<1>1. processed \in Nat /\ idx \in Nat /\ idx <= processed /\ End \in Nat
  BY TypeFacts DEF WindowInv
<1>2. \A j \in 1..n : Slot(i + j - 1) \in Slots
  <2>1. ASSUME NEW j \in 1..n PROVE Slot(i + j - 1) \in Slots
    <3>1. PICK x \in Nat : x = i + j - 1 /\ x + MinMatch <= End
      <4>1. i + j - 1 \in Nat /\ i + j - 1 <= i + (n - 1)
        OBVIOUS
      <4>2. (i + j - 1) + MinMatch <= End
        BY <1>1, <4>1, Sizes
      <4>3. QED BY <4>1, <4>2
    <3>2. Slot(x) \in Slots
      BY <3>1, KeyInSlots
    <3>3. QED BY <3>1, <3>2, Zenon
  <2>2. QED BY <2>1
<1>3. PICK g \in Nat : g = PosMod - 1 /\ g >= WindowSize
  BY Sizes
<1>4. CASE q < WindowSize
  <2>1. o < WindowSize
    BY <1>4, Sizes
  <2>2. tab \in [Slots -> 0..(PosMod - 1)] /\ \A s \in Slots : tab[s] <= o
    BY <2>1 DEF TableOK
  <2>3. tab \in UpTo(q)
    <3>1. ASSUME NEW s \in Slots PROVE tab[s] <= q
      <4>1. PICK x \in 0..(PosMod - 1) : x = tab[s] /\ x <= o
        BY <2>2
      <4>2. x <= q
        BY <4>1
      <4>3. QED BY <4>1, <4>2
    <3>2. QED BY <2>2, <3>1 DEF UpTo
  <2>4. Entered(tab, i, n) \in UpTo(q)
    BY <1>1, <1>2, <2>3, EnteredFacts
  <2>5. QED BY <2>4 DEF UpTo, TableOK
<1>5. CASE ~(q < WindowSize)
  <2>1. tab \in UpTo(g)
    <3>1. tab \in [Slots -> 0..(PosMod - 1)]
      BY DEF TableOK
    <3>2. \A s \in Slots : tab[s] <= g
      BY <1>3, <3>1
    <3>3. QED BY <3>1, <3>2 DEF UpTo
  <2>2. PosMod - 1 <= g
    BY <1>3
  <2>3. Entered(tab, i, n) \in UpTo(g)
    BY <1>1, <1>2, <2>1, <2>2, EnteredFacts
  <2>4. QED BY <1>5, <2>3 DEF UpTo, TableOK
<1>6. QED BY <1>4, <1>5

\* A byte of the window.
LEMMA WindowByte ==
  ASSUME Types, NEW i \in Nat, i < End
  PROVE  At(i) \in 0..255
<1>1. window \in Seq(0..255) /\ i + 1 \in 1..Len(window)
  <2>1. window \in Seq(0..255) /\ Len(window) \in Nat /\ i < Len(window)
    BY DEF Types, End
  <2>2. QED BY <2>1
<1>2. QED BY <1>1, ElementOfSeq DEF At

LEMMA LongTokens ==
  ASSUME NEW k \in Nat, NEW d \in 1..WindowSize
  PROVE  LongOf(k, d) \in Seq(Tokens) /\ Len(LongOf(k, d)) = k
<1>1. Match(MaxMatch, d) \in Tokens
  <2>1. MaxMatch \in 1..MaxMatch
    BY Sizes
  <2>2. QED BY <2>1, TokenTypes
<1>2. QED BY <1>1 DEF LongOf

LEMMA GenLiteralInv ==
  ASSUME GenLiteral, UNCHANGED build, IInv
  PROVE  IInv'
<1>1. /\ Generating /\ idx < End - Word /\ table' = Entered(table, idx, 1)
      /\ Resolve(1, <<Lit(At(idx))>>)
  BY DEF GenLiteral
<1>2. Types /\ Calls /\ WindowInv /\ TableInv
  BY DEF IInv
<1>3. InStep
  BY <1>1, <1>2 DEF Calls, InStep, Generating
<1>4. PICK i \in Nat, e \in Nat, p \in Nat :
        i = idx /\ e = End /\ p = processed /\ i < e /\ (i + (1 - 1)) + MinMatch <= e
        /\ ((p - i) + i) + (1 - 1) <= p + 1 /\ i + 1 <= e
  <2>1. idx \in Nat /\ End \in Nat /\ processed \in Nat
    BY <1>2, TypeFacts
  <2>2. MinMatch \in Nat /\ Word \in Nat /\ MinMatch < Word
    BY Sizes
  <2>3. QED BY <1>1, <2>1, <2>2
<1>5. TableOK(table, p)
  BY <1>2, <1>4 DEF TableOK, Types, TableInv
<1>6. TableOK(Entered(table, i, 1), p + 1)
  <2>1. p + 1 \in Nat /\ p <= p + 1 /\ 1 \in Nat
    OBVIOUS
  <2>2. (i + (1 - 1)) + MinMatch <= End /\ ((processed - idx) + i) + (1 - 1) <= p + 1
    BY <1>4
  <2>3. QED BY <1>2, <1>3, <1>5, <2>1, <2>2, EntersOK
<1>7. table' \in [Slots -> 0..(PosMod - 1)]
      /\ (processed + 1 < WindowSize => \A s \in Slots : table'[s] <= processed + 1)
  BY <1>1, <1>4, <1>6 DEF TableOK
<1>8. <<Lit(At(idx))>> \in Seq(Tokens)
  <2>1. At(idx) \in 0..255
    BY <1>2, <1>4, WindowByte
  <2>2. Lit(At(idx)) \in Tokens
    BY <2>1, TokenTypes
  <2>3. QED BY <2>2
<1>9. idx + 1 <= End
  BY <1>4
<1>10. QED BY <1>1, <1>7, <1>8, <1>9, ResolveInv

LEMMA GenTailInv ==
  ASSUME GenTail, UNCHANGED build, IInv
  PROVE  IInv'
<1>1. /\ Generating /\ idx < End /\ table' = table /\ Resolve(1, <<Lit(At(idx))>>)
  BY DEF GenTail
<1>2. Types /\ TableInv
  BY DEF IInv
<1>3. idx \in Nat /\ End \in Nat /\ processed \in Nat /\ idx + 1 <= End
  BY <1>1, <1>2, TypeFacts
<1>4. table' \in [Slots -> 0..(PosMod - 1)]
  BY <1>1, <1>2 DEF Types
<1>5. processed + 1 < WindowSize => \A s \in Slots : table'[s] <= processed + 1
  <2>1. SUFFICES ASSUME processed + 1 < WindowSize, NEW s \in Slots
                 PROVE  table'[s] <= processed + 1
    OBVIOUS
  <2>2. processed < WindowSize
    BY <1>3, <2>1, Sizes
  <2>3. table[s] <= processed /\ table[s] \in Nat
    BY <1>1, <1>2, <1>4, <2>2 DEF TableInv
  <2>4. QED BY <1>1, <1>3, <2>3
<1>6. <<Lit(At(idx))>> \in Seq(Tokens)
  <2>1. At(idx) \in 0..255
    BY <1>1, <1>2, <1>3, WindowByte
  <2>2. Lit(At(idx)) \in Tokens
    BY <2>1, TokenTypes
  <2>3. QED BY <2>2
<1>7. QED BY <1>1, <1>3, <1>4, <1>5, <1>6, ResolveInv

LEMMA GenMatchInv ==
  ASSUME GenMatch, UNCHANGED build, IInv
  PROVE  IInv'
<1>1. PICK k, m, d : MatchRun(k, m, d)
  BY GenMatchFacts
<1>2. Generating /\ idx < End - Word
  BY DEF GenMatch
<1>3. Types /\ Calls /\ WindowInv /\ TableInv
  BY DEF IInv
<1>4. InStep
  BY <1>2, <1>3 DEF Calls, InStep, Generating
<1>5. k \in Nat /\ m \in Nat /\ d \in 1..WindowSize
  BY <1>1 DEF MatchRun
<1>6. PICK x \in Nat, i \in Nat, e \in Nat, p \in Nat, n \in Nat, u \in Nat, w \in Nat :
        /\ x = k * MaxMatch /\ i = idx /\ e = End /\ p = processed
        /\ n = MinMatch /\ u = Updates /\ w = Word
        /\ x <= m /\ (k > 0 => n <= x) /\ n <= m /\ i + m <= e /\ i < e - w
        /\ u <= n /\ (u - 1) + n <= w /\ 1 <= n
  <2>1. /\ k * MaxMatch \in Nat /\ k * MaxMatch <= m /\ MinMatch <= m /\ idx + m <= End
        /\ k > 0 => MaxMatch <= k * MaxMatch
    BY <1>1 DEF MatchRun
  <2>2. idx \in Nat /\ End \in Nat /\ processed \in Nat
    BY <1>3, TypeFacts
  <2>3. /\ MinMatch \in Nat /\ Updates \in Nat /\ Word \in Nat /\ Updates <= MinMatch
        /\ (Updates - 1) + MinMatch <= Word /\ 1 <= MinMatch
    BY Sizes
  <2>4. k > 0 => MinMatch <= k * MaxMatch
    BY <2>1, Sizes
  <2>5. QED BY <1>2, <2>1, <2>2, <2>3, <2>4
<1>7. TableOK(table, p)
  BY <1>3, <1>6 DEF TableOK, Types, TableInv
<1>8. ASSUME NEW q \in Nat, p + (u - 1) <= q, p <= q
      PROVE  TableOK(Entered(table, i, u), q)
  <2>1. (i + (u - 1)) + MinMatch <= End
    BY <1>6
  <2>2. ((processed - idx) + i) + (u - 1) <= q
    BY <1>6, <1>8
  <2>3. QED BY <1>3, <1>4, <1>7, <1>8, <2>1, <2>2, EntersOK
<1>9. ASSUME NEW q \in Nat, TableOK(table', p + q)
      PROVE  /\ table' \in [Slots -> 0..(PosMod - 1)]
             /\ processed + q < WindowSize => \A s \in Slots : table'[s] <= processed + q
  BY <1>6, <1>9 DEF TableOK
<1>10. LongOf(k, d) \in Seq(Tokens)
  BY <1>5, LongTokens
<1>11. CASE /\ k > 0 /\ table' = Entered(table, idx, Updates)
            /\ Resolve(k * MaxMatch, LongOf(k, d))
  <2>1. TableOK(table', p + x)
    <3>1. p + (u - 1) <= p + x /\ p <= p + x /\ p + x \in Nat
      BY <1>6, <1>11
    <3>2. QED BY <1>6, <1>8, <1>11, <3>1
  <2>2. Resolve(x, LongOf(k, d))
    BY <1>6, <1>11, Zenon
  <2>3. idx + x <= End
    <3>1. x <= m /\ i + m <= e /\ i = idx /\ e = End
      BY <1>6, Zenon
    <3>2. QED BY <1>5, <3>1
  <2>4. QED BY <1>2, <1>9, <1>10, <2>1, <2>2, <2>3, ResolveInv
<1>12. CASE /\ m - k * MaxMatch \in MinMatch..MaxMatch
            /\ ((idx + k * MaxMatch) + (Updates - 1)) + MinMatch <= End
            /\ table' = Entered(IF k > 0 THEN Entered(table, idx, Updates) ELSE table,
                                idx + k * MaxMatch, Updates)
            /\ Resolve(m, Append(LongOf(k, d), Match(m - k * MaxMatch, d)))
  <2>1. PICK tab : tab = IF k > 0 THEN Entered(table, idx, Updates) ELSE table
    OBVIOUS
  <2>2. PICK o \in Nat : o <= p + m /\ TableOK(tab, o)
    <3>1. CASE k > 0
      <4>1. p + (u - 1) <= p + x /\ p <= p + x /\ p + x \in Nat /\ p + x <= p + m
        <5>1. x <= m /\ n <= x /\ u <= n
          BY <1>6, <3>1, Zenon
        <5>2. QED BY <1>5, <5>1
      <4>2. TableOK(Entered(table, i, u), p + x)
        BY <1>8, <4>1
      <4>3. QED BY <1>6, <2>1, <3>1, <4>1, <4>2
    <3>2. CASE ~(k > 0)
      <4>1. p <= p + m
        BY <1>5
      <4>2. QED BY <1>7, <2>1, <3>2, <4>1
    <3>3. QED BY <3>1, <3>2
  <2>3. TableOK(table', p + m)
    <3>1. PICK a \in Nat, q \in Nat : a = i + x /\ q = p + m
      BY <1>5, <1>6
    <3>2. (a + (u - 1)) + MinMatch <= End
      BY <1>6, <1>12, <3>1
    <3>3. m - x \in n..MaxMatch
      BY <1>6, <1>12
    <3>4. ((processed - idx) + a) + (u - 1) <= q
      <4>1. m - x >= n
        BY <1>5, <1>6, <3>3, Sizes
      <4>2. u <= n /\ p = processed /\ i = idx /\ a = i + x /\ q = p + m
        BY <1>6, <3>1, Zenon
      <4>3. ((p - i) + a) + (u - 1) <= q
        BY <1>5, <4>1, <4>2
      <4>4. QED BY <4>2, <4>3, Zenon
    <3>5. TableOK(Entered(tab, a, u), q)
      BY <1>3, <1>4, <2>2, <3>1, <3>2, <3>4, EntersOK
    <3>6. QED BY <1>6, <1>12, <2>1, <3>1, <3>5
  <2>4. Append(LongOf(k, d), Match(m - k * MaxMatch, d)) \in Seq(Tokens)
    <3>1. m - k * MaxMatch \in 1..MaxMatch
      BY <1>12, Sizes
    <3>2. Match(m - k * MaxMatch, d) \in Tokens
      BY <1>5, <3>1, TokenTypes
    <3>3. QED BY <1>10, <3>2
  <2>5. idx + m <= End
    BY <1>6
  <2>6. QED BY <1>2, <1>5, <1>9, <1>12, <2>3, <2>4, <2>5, ResolveInv
<1>13. CASE /\ k > 0 /\ k * MaxMatch < m
            /\ table' = Entered(table, idx, Updates)
            /\ Resolve(k * MaxMatch + 1, Append(LongOf(k, d), Lit(At(idx + k * MaxMatch))))
  <2>1. PICK y \in Nat : y = x + 1
    OBVIOUS
  <2>2. TableOK(table', p + y)
    <3>1. p + (u - 1) <= p + y /\ p <= p + y /\ p + y \in Nat
      BY <1>6, <1>13, <2>1
    <3>2. QED BY <1>6, <1>8, <1>13, <3>1
  <2>3. Append(LongOf(k, d), Lit(At(idx + k * MaxMatch))) \in Seq(Tokens)
    <3>1. PICK a \in Nat : a = idx + k * MaxMatch /\ a < End
      <4>1. x < m /\ i + m <= e /\ i = idx /\ e = End /\ x = k * MaxMatch
        BY <1>6, <1>13, Zenon
      <4>2. i + x \in Nat /\ i + x < e
        BY <1>5, <4>1
      <4>3. QED BY <4>1, <4>2, Zenon
    <3>2. At(a) \in 0..255
      BY <1>3, <3>1, WindowByte
    <3>3. Lit(At(a)) \in Tokens
      BY <3>2, TokenTypes
    <3>4. QED BY <1>10, <3>1, <3>3
  <2>4. idx + y <= End
    <3>1. x < m /\ i + m <= e /\ i = idx /\ e = End
      BY <1>6, <1>13, Zenon
    <3>2. QED BY <1>5, <2>1, <3>1
  <2>5. Resolve(y, Append(LongOf(k, d), Lit(At(idx + k * MaxMatch))))
    BY <1>6, <1>13, <2>1, Zenon
  <2>6. QED BY <1>2, <1>9, <2>2, <2>3, <2>4, <2>5, ResolveInv
<1>14. QED BY <1>1, <1>11, <1>12, <1>13, Zenon DEF MatchRun

LEMMA GeneratedInv ==
  ASSUME Generated, UNCHANGED build, IInv
  PROVE  IInv'
<1>1. /\ pc = "compress" /\ pc' \in {"loop", "block"} /\ (pc' = "loop" => ~Flushing)
      /\ call' = call /\ todo' = todo /\ werr' = werr /\ buf' = buf /\ remote' = remote
      /\ text' = text /\ given' = given /\ ret' = ret
      /\ window' = window /\ idx' = idx /\ processed' = processed /\ table' = table
      /\ tokens' = tokens /\ tk' = tk /\ hist' = hist /\ last' = last /\ code' = code
      /\ build' = build
  BY DEF Generated, Generating, clientVars, dynVars
<1>2. Types /\ Calls /\ OutputInv /\ WindowInv /\ TableInv /\ CodedInv
  BY DEF IInv
<1>3. Types'
  BY <1>1, <1>2 DEF Types, Pcs, End
<1>4. Calls'
  BY <1>1, <1>2 DEF Calls, Types, Flushing
<1>5. OutputInv'
  BY <1>1, <1>2 DEF OutputInv, Live
<1>6. WindowInv' /\ TableInv'
  BY <1>1, <1>2, WindowKept DEF InStep, Taken
<1>7. CodedInv'
  BY <1>1, <1>2 DEF CodedInv
<1>8. QED BY <1>3, <1>4, <1>5, <1>6, <1>7 DEF IInv

(***************************************************************************)
(* The blocks                                                              *)
(***************************************************************************)
LEMMA EnteringFacts ==
  ASSUME NEW b, BufOK(b)
  PROVE  /\ BufOK(Entering(b)) /\ Stream(Entering(b)) = Stream(b)
         /\ Len(Entering(b).out) \in Nat /\ Len(Entering(b).out) <= Len(Stream(b))
<1>1. /\ b \in Buffers /\ Len(b.out) % 8 = 0 /\ Len(b.out) \in Nat /\ Len(b.bits) \in Nat
      /\ Len(Stream(b)) = Len(b.out) + Len(b.bits)
  BY StreamFacts DEF BufOK
<1>2. CASE SyncFirst
  <2>1. Entering(b) = Sync(b)
    BY <1>2 DEF Entering
  <2>2. /\ BufOK(Sync(b)) /\ Stream(Sync(b)) = Stream(b)
        /\ Len(Sync(b).out) <= Len(b.out) + Len(b.bits)
    BY <1>1, SyncFacts
  <2>3. Len(Sync(b).out) \in Nat
    BY <2>2, StreamFacts DEF BufOK
  <2>4. QED BY <1>1, <2>1, <2>2, <2>3, Zenon
<1>3. CASE ~SyncFirst
  <2>1. Entering(b) = b
    BY <1>3 DEF Entering
  <2>2. Len(b.out) <= Len(Stream(b))
    <3>1. PICK x \in Nat, y \in Nat : x = Len(b.out) /\ y = Len(b.bits)
      BY <1>1
    <3>2. x <= x + y
      OBVIOUS
    <3>3. QED BY <1>1, <3>1, <3>2, Zenon
  <2>3. QED BY <1>1, <2>1, <2>2, Zenon
<1>4. QED BY <1>2, <1>3

\* What is encoded for a token: up to three fields.
LengthField(t) == CodeOf(LitSymbol(t), code.lit, LenBit(t.len))
DistField(t) ==
  CodeOf(<<"dist", DistSymbol(t.dist).sym>>, code.dist,
         IF DistSymbol(t.dist).extra = 0 THEN DistBit(t.dist) ELSE Part)
ExtraField(t) ==
  Field(DistSymbol(t.dist).extra,
        IF <<"dist", DistSymbol(t.dist).sym>> \in hist THEN DistBit(t.dist) ELSE Part)
LiteralField(t) ==
  CodeOf(LitSymbol(t), code.lit, IF t = EobToken THEN EndOfBlock ELSE LitBit(t.lit))

TokenBits(t) ==
  IF t.len = 0 THEN LiteralField(t) ELSE (LengthField(t) \o DistField(t)) \o ExtraField(t)

LEMMA CodeField ==
  ASSUME NEW s, NEW w \in Nat, NEW b \in Nat
  PROVE  CodeOf(s, w, b) \in Seq(Nat) /\ Len(CodeOf(s, w, b)) \in Nat
         /\ Len(CodeOf(s, w, b)) <= w
<1>1. CASE s \in hist
  BY <1>1, AnyField DEF CodeOf
<1>2. CASE s \notin hist
  BY <1>2 DEF CodeOf
<1>3. QED BY <1>1, <1>2

TokenIn(b, t) ==
  /\ BufOK(WriteToken(b, t)) /\ TokenBits(t) \in Seq(Nat)
  /\ Stream(WriteToken(b, t)) = Stream(b) \o TokenBits(t)
  /\ Len(WriteToken(b, t).out) <= Len(b.out) + RegBits

LEMMA TokenWritten ==
  ASSUME NEW b, BufOK(b), NEW t \in Tokens,
         code.lit \in LitWidths, code.dist \in DistWidths
  PROVE  TokenIn(b, t)
<1>1. /\ t.len \in Nat /\ t.lit \in 0..256 /\ t.dist \in Nat
      /\ t.len = 0 \/ t.dist \in 1..WindowSize
  BY DEF Tokens
<1>2. /\ EndOfBlock \in Nat /\ LitBit(t.lit) \in Nat /\ LenBit(t.len) \in Nat
      /\ DistBit(t.dist) \in Nat /\ Part \in Nat
  BY <1>1 DEF EndOfBlock, LitBit, LenBit, DistBit, Part
<1>3. PICK l \in Nat, d \in Nat, g \in Nat : l = code.lit /\ d = code.dist /\ g = RegBits
  BY Widths, OutSizes
<1>4. l <= g
  <2>1. 1 \in 1..WindowSize
    BY Sizes
  <2>2. PICK x \in Nat : l + d + x <= g
    BY <1>3, <2>1, Widths
  <2>3. QED BY <2>2
<1>5. CASE t.len = 0
  <2>1. PICK f : f = LiteralField(t)
    OBVIOUS
  <2>2. f \in Seq(Nat) /\ Len(f) \in Nat /\ Len(f) <= l
    <3>1. PICK y \in Nat : y = IF t = EobToken THEN EndOfBlock ELSE LitBit(t.lit)
      BY <1>2
    <3>2. QED BY <1>3, <2>1, <3>1, CodeField DEF LiteralField
  <2>3. Len(f) <= RegBits
    BY <1>3, <1>4, <2>2
  <2>4. WriteToken(b, t) = WriteBit(b, f) /\ TokenBits(t) = f
    BY <1>5, <2>1, Zenon DEF WriteToken, TokenBits, LiteralField
  <2>5. /\ BufOK(WriteBit(b, f)) /\ Stream(WriteBit(b, f)) = Stream(b) \o f
        /\ Len(WriteBit(b, f).out) <= Len(b.out) + RegBits
    BY <2>2, <2>3, WriteBitFacts
  <2>6. QED BY <2>2, <2>4, <2>5, Zenon DEF TokenIn
<1>6. CASE t.len # 0
  <2>1. PICK x \in Nat : x = DistSymbol(t.dist).extra /\ l + d + x <= g
    BY <1>1, <1>3, <1>6, Widths
  <2>2. PICK f1, f2, f3 : f1 = LengthField(t) /\ f2 = DistField(t) /\ f3 = ExtraField(t)
    OBVIOUS
  <2>3. f1 \in Seq(Nat) /\ Len(f1) \in Nat /\ Len(f1) <= l
    BY <1>2, <1>3, <2>2, CodeField DEF LengthField
  <2>4. f2 \in Seq(Nat) /\ Len(f2) \in Nat /\ Len(f2) <= d
    <3>1. PICK y \in Nat : y = IF DistSymbol(t.dist).extra = 0 THEN DistBit(t.dist) ELSE Part
      BY <1>2
    <3>2. QED BY <1>3, <2>2, <3>1, CodeField DEF DistField
  <2>5. f3 \in Seq(Nat) /\ Len(f3) = x
    <3>1. PICK y \in Nat : y = IF <<"dist", DistSymbol(t.dist).sym>> \in hist
                               THEN DistBit(t.dist) ELSE Part
      BY <1>2
    <3>2. QED BY <2>1, <2>2, <3>1, AnyField DEF ExtraField
  <2>6. PICK n1 \in Nat, n2 \in Nat : /\ n1 = Len(f1) /\ n2 = Len(f2) /\ n1 + n2 + x <= g
                                      /\ n1 <= g /\ n2 <= g /\ x <= g
    <3>1. Len(f1) + Len(f2) + x <= g /\ Len(f1) <= g /\ Len(f2) <= g /\ x <= g
      BY <2>1, <2>3, <2>4
    <3>2. QED BY <2>3, <2>4, <3>1
  <2>7. PICK c1 : c1 = WriteBit(b, f1)
    OBVIOUS
  <2>8. BufOK(c1) /\ Stream(c1) = Stream(b) \o f1 /\ Grows(b, c1, n1)
    BY <1>3, <2>3, <2>6, <2>7, WriteBitFacts, WriteBitGrows
  <2>9. PICK c2 : c2 = WriteBit(c1, f2)
    OBVIOUS
  <2>10. BufOK(c2) /\ Stream(c2) = Stream(c1) \o f2 /\ Grows(c1, c2, n2)
    BY <1>3, <2>4, <2>6, <2>8, <2>9, WriteBitFacts, WriteBitGrows
  <2>11. PICK c3 : c3 = WriteBit(c2, f3)
    OBVIOUS
  <2>12. BufOK(c3) /\ Stream(c3) = Stream(c2) \o f3 /\ Grows(c2, c3, x)
    BY <1>3, <2>5, <2>6, <2>10, <2>11, WriteBitFacts, WriteBitGrows
  <2>13. WriteToken(b, t) = c3
    BY <1>6, <2>2, <2>7, <2>9, <2>11, Zenon
       DEF WriteToken, LengthField, DistField, ExtraField
  <2>14. TokenBits(t) = (f1 \o f2) \o f3
    BY <1>6, <2>2, Zenon DEF TokenBits
  <2>15. Len(c3.out) <= Len(b.out) + RegBits
    <3>1. n1 + n2 + x <= RegBits
      BY <1>3, <2>6
    <3>2. QED BY <2>8, <2>10, <2>12, <3>1, GrowsThrice
  <2>16. f1 \o f2 \in Seq(Nat) /\ (f1 \o f2) \o f3 \in Seq(Nat)
    BY <2>3, <2>4, <2>5, Join
  <2>17. Stream(c3) = Stream(b) \o ((f1 \o f2) \o f3)
    <3>1. PICK s \in Seq(Nat) : s = Stream(b)
      BY StreamFacts DEF BufOK
    <3>2. (s \o f1) \o f2 = s \o (f1 \o f2)
      BY <2>3, <2>4, AllRegroup, Zenon DEF Regroups
    <3>3. (s \o (f1 \o f2)) \o f3 = s \o ((f1 \o f2) \o f3)
      BY <2>5, <2>16, AllRegroup, Zenon DEF Regroups
    <3>4. QED BY <2>8, <2>10, <2>12, <3>1, <3>2, <3>3, Zenon
  <2>18. QED BY <2>12, <2>13, <2>14, <2>15, <2>16, <2>17, Zenon DEF TokenIn
<1>7. QED BY <1>5, <1>6

LEMMA BlockHeaderInv ==
  ASSUME NEW h \in HdrWidths, NEW l \in LitWidths, NEW d \in DistWidths,
         BlockHeader(h, l, d), UNCHANGED build, IInv
  PROVE  IInv'
<1>1. PICK f \in {0, 1} : f = IF last' THEN 1 ELSE 0
  OBVIOUS
<1>2. PICK b : b = WriteBit(WriteBit(Rewound(buf), <<f, 0, 1>>), Field(h, Codes))
  OBVIOUS
<1>3. /\ pc = "block" /\ last' = Last /\ tokens' = Append(tokens, EobToken) /\ tk' = 0
      /\ hist' = hist \cup {LitSymbol(EobToken)} /\ code' = [lit |-> l, dist |-> d]
      /\ buf' = Entering(b) /\ pc' = "tokens"
      /\ call' = call /\ todo' = todo /\ werr' = werr /\ remote' = remote
      /\ text' = text /\ given' = given /\ ret' = ret
      /\ window' = window /\ idx' = idx /\ processed' = processed /\ table' = table
  BY <1>1, <1>2 DEF BlockHeader, clientVars
<1>4. Types /\ Calls /\ OutputInv /\ WindowInv /\ TableInv /\ CodedInv
  BY DEF IInv
<1>5. BufOK(buf)
  BY <1>4 DEF Types
<1>6. PICK x \in Nat : x = Len(buf.bits) /\ x <= RegBits
  BY <1>4, TypeFacts
<1>7. BufOK(Rewound(buf)) /\ Stream(Rewound(buf)) = buf.bits
  BY <1>5, RewoundFacts
<1>8. PICK n \in Nat \ {0} : n = h /\ n <= RegBits /\ n + 4 * RegBits < OutBits
  BY Widths
<1>9. BufOK(b) /\ Len(Stream(b)) = x + 3 + n
  <2>1. HeaderIn(Rewound(buf), b, f, n)
    BY <1>2, <1>7, <1>8, HeaderWritten
  <2>2. QED BY <1>6, <1>7, <2>1, Zenon DEF HeaderIn
<1>10. BufOK(buf') /\ Len(buf'.out) \in Nat /\ Len(buf'.out) <= x + 3 + n
  <2>1. /\ BufOK(Entering(b)) /\ Len(Entering(b).out) \in Nat
        /\ Len(Entering(b).out) <= Len(Stream(b))
    BY <1>9, EnteringFacts
  <2>2. QED BY <1>3, <1>9, <2>1, Zenon
<1>11. Len(buf'.out) < OutBits - 2 * RegBits
  <2>1. PICK y \in Nat, g \in Nat, o \in Nat : y = Len(buf'.out) /\ g = RegBits /\ o = OutBits
                                               /\ g >= 16
    BY <1>10, OutSizes
  <2>2. y < o - 2 * g
    BY <1>6, <1>8, <1>10, <2>1
  <2>3. QED BY <2>1, <2>2
<1>12. /\ tokens' \in Seq(Tokens) /\ Len(tokens') = Len(tokens) + 1
       /\ \A i \in 1..Len(tokens) : tokens'[i] = tokens[i]
       /\ tokens'[Len(tokens) + 1] = EobToken
  BY <1>3, <1>4, TokenTypes DEF Types
<1>13. Len(tokens) \in Nat
  BY <1>4, TypeFacts
<1>14. Types'
  <2>1. tk' \in 0..Len(tokens')
    BY <1>3, <1>12, <1>13
  <2>2. QED BY <1>3, <1>4, <1>10, <1>12, <2>1 DEF Types, Pcs, End
<1>15. Calls'
  <2>1. tk' < Len(tokens')
    BY <1>3, <1>12, <1>13
  <2>2. Last' = Last /\ code'.lit = l /\ code'.dist = d
    BY <1>3 DEF Last, Final, End
  <2>3. QED BY <1>3, <1>4, <2>1, <2>2 DEF Calls
<1>16. OutputInv'
  BY <1>3, <1>11 DEF OutputInv
<1>17. WindowInv' /\ TableInv'
  BY <1>3, <1>4, WindowKept DEF InStep, Taken
<1>18. CodedInv'
  <2>1. SUFFICES ASSUME ~DirtyReset, NEW i \in 1..Len(tokens')
                 PROVE  Symbols(tokens'[i]) \subseteq hist'
    BY DEF CodedInv
  <2>2. CASE i \in 1..Len(tokens)
    BY <1>3, <1>4, <1>12, <2>1, <2>2 DEF CodedInv
  <2>3. CASE i = Len(tokens) + 1
    <3>1. Symbols(EobToken) = {LitSymbol(EobToken)}
      BY DEF Symbols, EobToken
    <3>2. QED BY <1>3, <1>12, <2>3, <3>1
  <2>4. QED BY <1>12, <1>13, <2>2, <2>3
<1>19. QED BY <1>14, <1>15, <1>16, <1>17, <1>18 DEF IInv

\* The token that is encoded next.
LEMMA NextToken ==
  ASSUME Types, Calls, pc = "tokens"
  PROVE  tokens[tk + 1] \in Tokens /\ tk + 1 \in 1..Len(tokens)
<1>1. tk + 1 \in 1..Len(tokens)
  BY TypeFacts DEF Calls
<1>2. QED BY <1>1, ElementOfSeq DEF Types

LEMMA EncodeTokenInv ==
  ASSUME EncodeToken, UNCHANGED build, IInv
  PROVE  IInv'
<1>1. PICK b : b = WriteToken(buf, tokens[tk + 1])
  OBVIOUS
<1>2. PICK done : done = (tk + 1 = Len(tokens))
  OBVIOUS
<1>3. /\ pc = "tokens" /\ tk' = tk + 1
      /\ buf' = (IF done /\ last THEN FlushLastByte(b) ELSE b)
      /\ pc' = (IF done \/ OutputFull(b) THEN "out" ELSE "tokens")
      /\ call' = call /\ todo' = todo /\ werr' = werr /\ remote' = remote
      /\ text' = text /\ given' = given /\ ret' = ret
      /\ window' = window /\ idx' = idx /\ processed' = processed /\ table' = table
      /\ tokens' = tokens /\ hist' = hist /\ last' = last /\ code' = code
  BY <1>1, <1>2 DEF EncodeToken, clientVars
<1>4. Types /\ Calls /\ OutputInv /\ WindowInv /\ TableInv /\ CodedInv
  BY DEF IInv
<1>5. BufOK(buf) /\ tk + 1 \in 1..Len(tokens)
  BY <1>3, <1>4, NextToken DEF Types
<1>6. code.lit \in LitWidths /\ code.dist \in DistWidths
  BY <1>3, <1>4 DEF Calls
<1>7. BufOK(b) /\ Len(b.out) <= Len(buf.out) + RegBits
  <2>1. TokenIn(buf, tokens[tk + 1])
    BY <1>3, <1>4, <1>5, <1>6, NextToken, TokenWritten
  <2>2. QED BY <1>1, <2>1, Zenon DEF TokenIn
<1>8. PICK x \in Nat, y \in Nat, z \in Nat, g \in Nat, o \in Nat :
        /\ x = Len(buf.out) /\ y = Len(b.out) /\ z = Len(b.bits) /\ g = RegBits
        /\ o = OutBits /\ y <= x + g /\ z <= g /\ g >= 16 /\ o % 8 = 0
        /\ x < o - 2 * g
  <2>1. /\ b \in Buffers /\ Len(b.out) \in Nat /\ Len(b.bits) \in Nat
        /\ Len(b.bits) <= RegBits
    BY <1>7, StreamFacts DEF BufOK
  <2>2. Len(buf.out) \in Nat /\ Len(buf.out) < OutBits - 2 * RegBits
    BY <1>3, <1>4, TypeFacts DEF OutputInv
  <2>3. QED BY <1>7, <2>1, <2>2, OutSizes
<1>9. /\ BufOK(buf') /\ Len(buf'.out) <= o - (IF last THEN 0 ELSE g)
      /\ ~(done \/ OutputFull(b)) => Len(buf'.out) < o - 2 * g
  <2>1. CASE done /\ last
    <3>1. b \in Buffers /\ Len(b.out) % 8 = 0
      BY <1>7 DEF BufOK
    <3>2. BufOK(FlushLastByte(b)) /\ Len(FlushLastByte(b).out) <= y + z + 7
      BY <1>8, <3>1, FlushLastByteFacts
    <3>3. PICK w \in Nat : w = Len(buf'.out) /\ w % 8 = 0 /\ w <= y + z + 7
      BY <1>3, <2>1, <3>2, StreamFacts DEF BufOK
    <3>4. w <= o
      <4>1. PICK p \in Nat, q \in Nat : w = 8 * p /\ o = 8 * q
        <5>1. w % 8 = 0 /\ o % 8 = 0
          BY <1>8, <3>3, Zenon
        <5>2. w \div 8 \in Nat /\ w = 8 * (w \div 8) /\ o \div 8 \in Nat /\ o = 8 * (o \div 8)
          BY <5>1
        <5>3. QED BY <5>2, Zenon
      <4>2. y <= x + g /\ z <= g /\ x < o - 2 * g /\ w <= y + z + 7
        BY <1>8, <3>3, Zenon
      <4>3. 8 * p < 8 * q + 7
        BY <4>1, <4>2
      <4>4. QED BY <4>1, <4>3
    <3>5. w <= o - 0
      BY <3>4
    <3>6. QED BY <1>3, <2>1, <3>2, <3>3, <3>5, Zenon
  <2>2. CASE ~(done /\ last)
    <3>1. buf' = b
      BY <1>3, <2>2
    <3>2. y <= o - g /\ y <= o - 0
      BY <1>8
    <3>3. y <= o - (IF last THEN 0 ELSE g)
      BY <3>2
    <3>4. ~OutputFull(b) => y < o - 2 * g
      <4>1. OutputFull(b) <=> y >= o - 2 * g
        BY <1>8, Zenon DEF OutputFull
      <4>2. QED BY <4>1
    <3>5. QED BY <1>7, <1>8, <3>1, <3>3, <3>4, Zenon
  <2>3. QED BY <2>1, <2>2
<1>10. tk' \in 1..Len(tokens) /\ (tk' = Len(tokens) <=> done) /\ tk' > 0
       /\ (~done => tk' < Len(tokens))
  <2>1. PICK n \in Nat, m \in Nat : n = Len(tokens) /\ m = tk + 1 /\ m \in 1..n
    BY <1>5
  <2>2. m > 0 /\ (m # n => m < n)
    BY <2>1
  <2>3. QED BY <1>2, <1>3, <2>1, <2>2, Zenon
<1>11. Types'
  <2>1. tk' \in 0..Len(tokens')
    BY <1>3, <1>10
  <2>2. QED BY <1>3, <1>4, <1>9, <2>1 DEF Types, Pcs, End
<1>12. Calls'
  <2>1. Last' = Last /\ last' = Last'
    BY <1>3, <1>4 DEF Last, Final, End, Calls
  <2>2. pc' = "tokens" => tk' < Len(tokens')
    BY <1>3, <1>10
  <2>3. QED BY <1>3, <1>4, <1>6, <1>10, <2>1, <2>2 DEF Calls
<1>13. OutputInv'
  <2>1. pc' = "tokens" => Len(buf'.out) < OutBits - 2 * RegBits
    BY <1>3, <1>8, <1>9
  <2>2. Len(buf'.out) <= OutBits - (IF last' THEN 0 ELSE RegBits)
    BY <1>3, <1>8, <1>9, Zenon
  <2>3. QED BY <1>3, <1>10, <2>1, <2>2 DEF OutputInv
<1>14. WindowInv' /\ TableInv'
  BY <1>3, <1>4, WindowKept DEF InStep, Taken
<1>15. CodedInv'
  BY <1>3, <1>4 DEF CodedInv
<1>16. QED BY <1>11, <1>12, <1>13, <1>14, <1>15 DEF IInv

(***************************************************************************)
(* The underlying writer                                                   *)
(***************************************************************************)
LEMMA SinkTakesType ==
  ASSUME Types, SinkTakes
  PROVE  remote' \in Decoder /\ remote'.n = 0
<1>1. remote \in Decoder /\ remote.n = 0 /\ buf.out \in Seq(Nat) /\ Len(buf.out) % 8 = 0
  BY TypeFacts DEF Types
<1>2. Feed(remote, buf.out) \in Decoder /\ Feed(remote, buf.out).n = 0
  BY <1>1, WholeBytes
<1>3. QED BY <1>2 DEF SinkTakes

\* An empty block behind the bits that wait.
LEMMA EmptyBlockFits ==
  ASSUME NEW b, BufOK(b), b.out = <<>>, NEW f \in {0, 1}
  PROVE  BufOK(WriteEmptyBlock(b, f)) /\ Len(WriteEmptyBlock(b, f).out) <= OutBits - RegBits
<1>1. /\ b \in Buffers /\ Len(b.bits) \in Nat /\ Len(b.bits) <= RegBits /\ Len(b.out) = 0
  BY StreamFacts DEF BufOK
<1>2. /\ BufOK(WriteEmptyBlock(b, f))
      /\ Len(WriteEmptyBlock(b, f).out) <= Len(b.out) + Len(b.bits) + 42
  BY WriteEmptyBlockFacts
<1>3. PICK x \in Nat, y \in Nat, g \in Nat, o \in Nat :
        /\ x = Len(b.bits) /\ y = Len(WriteEmptyBlock(b, f).out) /\ g = RegBits
        /\ o = OutBits /\ x <= g /\ g >= 16 /\ 5 * g <= o
  <2>1. Len(WriteEmptyBlock(b, f).out) \in Nat
    BY <1>2, StreamFacts DEF BufOK
  <2>2. QED BY <1>1, <2>1, OutSizes
<1>4. y <= 0 + x + 42
  BY <1>1, <1>2, <1>3, Zenon
<1>5. y <= o - g
  BY <1>3, <1>4
<1>6. QED BY <1>2, <1>3, <1>5, Zenon

LEMMA BlockTakenInv ==
  ASSUME BlockTaken, UNCHANGED build, IInv
  PROVE  IInv'
<1>1. /\ pc = "out" /\ tk > 0 /\ SinkTakes
      /\ buf' = (IF tk < Len(tokens) THEN Entering(Rewound(buf))
                 ELSE IF idx = End /\ call = "flush" THEN WriteEmptyBlock(Rewound(buf), 0)
                 ELSE Rewound(buf))
      /\ IF tk < Len(tokens)
         THEN pc' = "tokens" /\ UNCHANGED <<tokens, tk, hist>>
         ELSE /\ tokens' = <<>> /\ tk' = 0 /\ hist' = {}
              /\ pc' = (IF idx < End THEN "compress"
                        ELSE [write |-> "loop", flush |-> "out", close |-> "done"][call])
      /\ call' = call /\ todo' = todo /\ werr' = werr
      /\ text' = text /\ given' = given /\ ret' = ret
      /\ window' = window /\ idx' = idx /\ processed' = processed /\ table' = table
      /\ last' = last /\ code' = code
  BY DEF BlockTaken
<1>2. Types /\ Calls /\ OutputInv /\ WindowInv /\ TableInv /\ CodedInv
  BY DEF IInv
<1>3. BufOK(buf) /\ call \in {"write", "flush", "close"}
  BY <1>1, <1>2 DEF Types, Calls
<1>4. remote' \in Decoder /\ remote'.n = 0
  BY <1>1, <1>2, SinkTakesType
<1>5. /\ BufOK(Rewound(buf)) /\ Rewound(buf).out = <<>>
      /\ Stream(Rewound(buf)) = buf.bits
  BY <1>3, RewoundFacts
<1>6. WindowInv' /\ TableInv'
  <2>1. (pc' = "failed" /\ call' = "write") \/ ~(pc' = "failed" /\ call' = "write")
    OBVIOUS
  <2>2. InStep
    BY <1>1, <1>2 DEF InStep, Calls
  <2>3. Taken' = Taken
    BY <1>1 DEF Taken
  <2>4. QED BY <1>1, <1>2, <2>2, <2>3, WindowKept
<1>7. CASE tk < Len(tokens)
  <2>1. /\ buf' = Entering(Rewound(buf)) /\ pc' = "tokens" /\ tokens' = tokens
        /\ tk' = tk /\ hist' = hist
    BY <1>1, <1>7
  <2>2. BufOK(buf') /\ Len(buf'.out) \in Nat /\ Len(buf'.out) <= Len(buf.bits)
    BY <1>5, <2>1, EnteringFacts
  <2>3. Len(buf'.out) < OutBits - 2 * RegBits
    <3>1. PICK x \in Nat, y \in Nat, g \in Nat, o \in Nat :
            /\ x = Len(buf.bits) /\ y = Len(buf'.out) /\ g = RegBits
            /\ o = OutBits /\ x <= g /\ g >= 16 /\ 5 * g <= o
      BY <1>2, <2>2, TypeFacts, OutSizes
    <3>2. y <= x
      BY <2>2, <3>1, Zenon
    <3>3. y < o - 2 * g
      BY <3>1, <3>2
    <3>4. QED BY <3>1, <3>3, Zenon
  <2>4. Types'
    BY <1>1, <1>2, <1>4, <2>1, <2>2 DEF Types, Pcs, End
  <2>5. Calls'
    <3>1. Last' = Last
      BY <1>1 DEF Last, Final, End
    <3>2. QED BY <1>1, <1>2, <1>7, <2>1, <3>1 DEF Calls
  <2>6. OutputInv'
    BY <2>1, <2>3 DEF OutputInv
  <2>7. CodedInv'
    BY <1>2, <2>1 DEF CodedInv
  <2>8. QED BY <1>6, <2>4, <2>5, <2>6, <2>7 DEF IInv
<1>8. CASE ~(tk < Len(tokens))
  <2>1. /\ buf' = (IF idx = End /\ call = "flush" THEN WriteEmptyBlock(Rewound(buf), 0)
                   ELSE Rewound(buf))
        /\ tokens' = <<>> /\ tk' = 0 /\ hist' = {}
        /\ pc' = (IF idx < End THEN "compress"
                  ELSE [write |-> "loop", flush |-> "out", close |-> "done"][call])
    BY <1>1, <1>8
  <2>2. idx < End \/ idx = End
    BY <1>2, TypeFacts
  <2>3. \/ pc' = "compress" /\ buf' = Rewound(buf)
        \/ pc' = "loop" /\ call = "write" /\ buf' = Rewound(buf)
        \/ pc' = "out" /\ call = "flush" /\ buf' = WriteEmptyBlock(Rewound(buf), 0)
        \/ pc' = "done" /\ call = "close" /\ buf' = Rewound(buf)
    <3>1. CASE idx < End
      <4>1. idx # End
        BY <1>2, <3>1, TypeFacts
      <4>2. QED BY <2>1, <3>1, <4>1
    <3>2. CASE ~(idx < End)
      <4>1. idx = End
        BY <2>2, <3>2
      <4>2. pc' = [write |-> "loop", flush |-> "out", close |-> "done"][call]
        BY <2>1, <3>2
      <4>3. call = "write" => pc' = "loop"
        BY <4>2
      <4>4. call = "flush" => pc' = "out"
        BY <4>2
      <4>5. call = "close" => pc' = "done"
        BY <4>2
      <4>6. call = "flush" => buf' = WriteEmptyBlock(Rewound(buf), 0)
        BY <2>1, <4>1
      <4>7. call # "flush" => buf' = Rewound(buf)
        BY <2>1
      <4>8. QED BY <1>3, <4>3, <4>4, <4>5, <4>6, <4>7
    <3>3. QED BY <3>1, <3>2
  <2>4. /\ BufOK(WriteEmptyBlock(Rewound(buf), 0))
        /\ Len(WriteEmptyBlock(Rewound(buf), 0).out) <= OutBits - RegBits
    BY <1>5, EmptyBlockFits
  <2>5. /\ BufOK(buf') /\ (pc' = "out" => Len(buf'.out) <= OutBits - RegBits)
        /\ pc' # "out" => buf'.out = <<>>
    BY <1>5, <2>3, <2>4
  <2>6. Types'
    <3>1. tokens' \in Seq(Tokens) /\ tk' \in 0..Len(tokens')
      BY <2>1
    <3>2. QED BY <1>1, <1>2, <1>4, <2>3, <2>5, <3>1 DEF Types, Pcs, End
  <2>7. Calls'
    BY <1>1, <1>2, <2>1, <2>3 DEF Calls
  <2>8. OutputInv'
    BY <2>1, <2>3, <2>5 DEF OutputInv
  <2>9. CodedInv'
    BY <2>1 DEF CodedInv
  <2>10. QED BY <1>6, <2>6, <2>7, <2>8, <2>9 DEF IInv
<1>9. QED BY <1>7, <1>8

LEMMA CloseEmptyInv ==
  ASSUME CloseEmpty, UNCHANGED build, IInv
  PROVE  IInv'
<1>1. /\ pc = "compress" /\ call = "close" /\ buf' = WriteEmptyBlock(buf, 1)
      /\ pc' = "out" /\ call' = call /\ todo' = todo /\ werr' = werr /\ remote' = remote
      /\ text' = text /\ given' = given /\ ret' = ret
      /\ window' = window /\ idx' = idx /\ processed' = processed /\ table' = table
      /\ tokens' = tokens /\ tk' = tk /\ hist' = hist /\ last' = last /\ code' = code
      /\ build' = build
  BY DEF CloseEmpty, Final, clientVars, dynVars
<1>2. Types /\ Calls /\ OutputInv /\ WindowInv /\ TableInv /\ CodedInv
  BY DEF IInv
<1>3. BufOK(buf) /\ tk = 0
  BY <1>1, <1>2 DEF Types, Calls
<1>4. BufOK(buf')
  BY <1>1, <1>3, WriteEmptyBlockFacts
<1>5. Types'
  BY <1>1, <1>2, <1>4 DEF Types, Pcs, End
<1>6. Calls'
  BY <1>1, <1>2, <1>3 DEF Calls
<1>7. OutputInv'
  <2>1. ~GoesOn => buf.out = <<>>
    BY <1>1, <1>2 DEF OutputInv, Live
  <2>2. ~GoesOn => Len(buf'.out) <= OutBits - RegBits
    BY <1>1, <1>3, <2>1, EmptyBlockFits
  <2>3. QED BY <1>1, <1>3, <2>2 DEF OutputInv
<1>8. WindowInv' /\ TableInv'
  BY <1>1, <1>2, WindowKept DEF InStep, Taken
<1>9. CodedInv'
  BY <1>1, <1>2 DEF CodedInv
<1>10. QED BY <1>5, <1>6, <1>7, <1>8, <1>9 DEF IInv

LEMMA EmptyBlockTakenInv ==
  ASSUME EmptyBlockTaken, UNCHANGED build, IInv
  PROVE  IInv'
<1>1. /\ pc = "out" /\ tk = 0 /\ SinkTakes
      /\ buf' = (IF call = "flush" THEN Rewound(buf) ELSE buf)
      /\ pc' = "done" /\ call' = call /\ todo' = todo /\ werr' = werr
      /\ text' = text /\ given' = given /\ ret' = ret
      /\ window' = window /\ idx' = idx /\ processed' = processed /\ table' = table
      /\ tokens' = tokens /\ tk' = tk /\ hist' = hist /\ last' = last /\ code' = code
      /\ build' = build
  BY DEF EmptyBlockTaken, dynVars
<1>2. Types /\ Calls /\ OutputInv /\ WindowInv /\ TableInv /\ CodedInv
  BY DEF IInv
<1>3. remote' \in Decoder /\ remote'.n = 0
  BY <1>1, <1>2, SinkTakesType
<1>4. BufOK(buf') /\ (call = "flush" => buf'.out = <<>>)
  BY <1>1, <1>2, RewoundFacts DEF Types
<1>5. Types'
  BY <1>1, <1>2, <1>3, <1>4 DEF Types, Pcs, End
<1>6. Calls'
  BY <1>1, <1>2 DEF Calls
<1>7. OutputInv'
  BY <1>1, <1>4 DEF OutputInv
<1>8. WindowInv' /\ TableInv'
  BY <1>1, <1>2, WindowKept DEF InStep, Taken
<1>9. CodedInv'
  BY <1>1, <1>2 DEF CodedInv
<1>10. QED BY <1>5, <1>6, <1>7, <1>8, <1>9 DEF IInv

\* What the underlying writer takes when it fails.
LEMMA FailedBytes ==
  ASSUME Types, NEW n \in {0, Len(buf.out) \div 16}, SinkFails(n)
  PROVE  /\ remote' \in Decoder /\ remote'.n = 0
         /\ 8 * n \in 0..Len(buf.out) /\ (8 * n) % 8 = 0
         /\ remote' = Feed(remote, SubSeq(buf.out, 1, 8 * n))
<1>1. PICK x \in Nat : x = Len(buf.out) /\ x % 8 = 0
  BY TypeFacts
<1>2. n \in Nat /\ 8 * n \in 0..x /\ (8 * n) % 8 = 0
  <2>1. x \div 16 \in Nat /\ 8 * (x \div 16) <= x
    OBVIOUS
  <2>2. PICK k \in Nat : k = n /\ 8 * k <= x
    <3>1. n = 0 \/ n = x \div 16
      BY <1>1, Zenon
    <3>2. 8 * 0 <= x
      OBVIOUS
    <3>3. QED BY <2>1, <3>1, <3>2
  <2>3. 8 * k \in 0..x /\ (8 * k) % 8 = 0
    BY <2>2
  <2>4. QED BY <2>2, <2>3, Zenon
<1>3. PICK m \in 0..Len(buf.out) : m = 8 * n /\ m % 8 = 0
  BY <1>1, <1>2
<1>4. buf.out \in Seq(Nat) /\ remote \in Decoder /\ remote.n = 0
  BY TypeFacts DEF Types
<1>5. SubSeq(buf.out, 1, m) \in Seq(Nat) /\ Len(SubSeq(buf.out, 1, m)) = m
  BY <1>4, Split
<1>6. /\ Feed(remote, SubSeq(buf.out, 1, m)) \in Decoder
      /\ Feed(remote, SubSeq(buf.out, 1, m)).n = 0
  BY <1>3, <1>4, <1>5, WholeBytes
<1>7. remote' = Feed(remote, SubSeq(buf.out, 1, 8 * n))
  BY DEF SinkFails
<1>8. QED BY <1>1, <1>2, <1>3, <1>6, <1>7, Zenon

LEMMA OutFailsInv ==
  ASSUME OutFails, UNCHANGED build, IInv
  PROVE  IInv'
<1>1. PICK n \in {0, Len(buf.out) \div 16} : SinkFails(n)
  BY DEF OutFails
<1>2. /\ pc = "out" /\ tk' = 0 /\ pc' = "failed" /\ todo' = 0
      /\ buf' = (IF tk = 0 /\ call = "flush" THEN Rewound(buf) ELSE buf)
      /\ call' = call /\ werr' = werr
      /\ text' = text /\ given' = given /\ ret' = ret
      /\ window' = window /\ idx' = idx /\ processed' = processed /\ table' = table
      /\ tokens' = tokens /\ hist' = hist /\ last' = last /\ code' = code
  BY <1>1 DEF OutFails, SinkFails
<1>3. Types /\ Calls /\ OutputInv /\ WindowInv /\ TableInv /\ CodedInv
  BY DEF IInv
<1>4. remote' \in Decoder /\ remote'.n = 0
  BY <1>1, <1>3, FailedBytes
<1>5. BufOK(buf')
  BY <1>2, <1>3, RewoundFacts DEF Types
<1>6. Types'
  <2>1. todo' \in Nat /\ todo' <= given' /\ tk' \in 0..Len(tokens')
    BY <1>2, <1>3, TypeFacts
  <2>2. QED BY <1>2, <1>3, <1>4, <1>5, <2>1 DEF Types, Pcs, End
<1>7. Calls'
  BY <1>2, <1>3 DEF Calls
<1>8. OutputInv'
  BY <1>2 DEF OutputInv, Live
<1>9. WindowInv' /\ TableInv'
  <2>1. SUFFICES ASSUME InStep' PROVE InStep /\ Taken' = Taken
    BY <1>2, <1>3, WindowKept
  <2>2. call # "write" /\ werr = "nil"
    BY <1>2, <2>1 DEF InStep
  <2>3. todo = 0
    BY <1>3, <2>2 DEF Calls
  <2>4. QED BY <1>2, <2>2, <2>3 DEF InStep, Taken
<1>10. CodedInv'
  BY <1>2, <1>3 DEF CodedInv
<1>11. QED BY <1>6, <1>7, <1>8, <1>9, <1>10 DEF IInv

(***************************************************************************)
(* The theorems about calls, the window and output                        *)
(***************************************************************************)
LEMMA NextInv ==
  ASSUME IInv, [Next]_vars
  PROVE  IInv'
<1>1. CASE UNCHANGED vars
  <2>1. /\ pc' = pc /\ call' = call /\ todo' = todo /\ werr' = werr /\ remote' = remote
        /\ text' = text /\ given' = given /\ ret' = ret /\ buf' = buf
        /\ window' = window /\ idx' = idx /\ processed' = processed /\ table' = table
        /\ tokens' = tokens /\ tk' = tk /\ hist' = hist /\ last' = last /\ code' = code
        /\ build' = build
    BY <1>1 DEF vars, apiVars, clientVars, dynVars
  <2>2. Types /\ Calls /\ OutputInv /\ WindowInv /\ TableInv /\ CodedInv
    BY DEF IInv
  <2>3. Types'
    BY <2>1, <2>2 DEF Types, End
  <2>4. Calls'
    <3>1. Last' = Last
      BY <2>1 DEF Last, Final, End
    <3>2. QED BY <2>1, <2>2, <3>1 DEF Calls
  <2>5. OutputInv'
    BY <2>1, <2>2 DEF OutputInv, Live
  <2>6. WindowInv' /\ TableInv'
    BY <2>1, <2>2, WindowKept DEF InStep, Taken
  <2>7. CodedInv'
    BY <2>1, <2>2 DEF CodedInv
  <2>8. QED BY <2>3, <2>4, <2>5, <2>6, <2>7 DEF IInv
<1>2. CASE Call
  <2>1. UNCHANGED build
    BY <1>2 DEF Call
  <2>2. CASE ((\E n \in WriteSizes : CallWrite(n)) \/ CallFlush \/ CallClose)
             /\ UNCHANGED dynVars
    BY <2>1, <2>2, CallInv
  <2>3. CASE (\E c \in {"write", "flush", "close"} : CallAfterError(c)) /\ UNCHANGED dynVars
    BY <2>1, <2>3, ReturnInv
  <2>4. CASE \E t \in Texts : Reset(t)
    BY <2>1, <2>4, ResetInv
  <2>5. QED BY <1>2, <2>2, <2>3, <2>4 DEF Call
<1>3. CASE Work
  <2>1. UNCHANGED build
    BY <1>3 DEF Work
  <2>2. CASE Accumulate
    BY <2>1, <2>2, AccumulateInv
  <2>3. CASE (ReturnNil \/ ReturnError) /\ UNCHANGED dynVars
    BY <2>1, <2>3, ReturnInv
  <2>4. CASE GenLiteral \/ GenMatch \/ GenTail \/ Generated
    BY <2>1, <2>4, GenLiteralInv, GenMatchInv, GenTailInv, GeneratedInv
  <2>5. CASE \E h \in HdrWidths, l \in LitWidths, d \in DistWidths : BlockHeader(h, l, d)
    BY <2>1, <2>5, BlockHeaderInv
  <2>6. CASE EncodeToken
    BY <2>1, <2>6, EncodeTokenInv
  <2>7. CASE BlockTaken \/ CloseEmpty \/ EmptyBlockTaken \/ OutFails
    BY <2>1, <2>7, BlockTakenInv, CloseEmptyInv, EmptyBlockTakenInv, OutFailsInv
  <2>8. QED BY <1>3, <2>2, <2>3, <2>4, <2>5, <2>6, <2>7 DEF Work
<1>4. QED BY <1>1, <1>2, <1>3 DEF Next

\* IInv holds, whatever the clients, the underlying writer and the codes do.
THEOREM Invariant == Spec => []IInv
<1>1. Init => IInv
  BY InitInv
<1>2. IInv /\ [Next]_vars => IInv'
  BY NextInv
<1>3. QED BY <1>1, <1>2, PTL DEF Spec

\* The fields keep to their ranges: idx to the window, the window to its
\* buffer, the entries of the table to 16 bits (dynamic.go, lz77.go).
THEOREM TypeCorrect == Spec => []TypeOK
<1>1. IInv => TypeOK
  <2>1. SUFFICES ASSUME IInv PROVE TypeOK
    OBVIOUS
  <2>2. Types
    BY <2>1 DEF IInv
  <2>3. Len(buf.bits) <= RegBits /\ Len(buf.out) % 8 = 0
    BY <2>2, TypeFacts
  <2>4. QED BY <2>2, <2>3 DEF Types, TypeOK
<1>2. QED BY <1>1, Invariant, PTL

\* The window holds the data just taken in, and WindowSize bytes in front of
\* it, after any sequence of slides and short writes (dynamic.go, Accumulate).
THEOREM WindowIsTheData == Spec => []WindowHolds
<1>1. IInv => WindowHolds
  <2>1. SUFFICES ASSUME IInv, werr = "nil", pc # "failed" PROVE
                   /\ Taken - processed = End - idx
                   /\ window = SubSeq(text, Taken - End + 1, Taken)
                   /\ idx >= Min({processed, WindowSize})
    BY DEF WindowHolds
  <2>2. Types /\ WindowInv /\ InStep
    BY <2>1 DEF IInv, InStep
  <2>3. Taken - processed = End - idx /\ window = SubSeq(text, (Taken - End) + 1, Taken)
    BY <2>2 DEF WindowInv
  <2>4. idx >= Min({processed, WindowSize})
    <3>1. PICK i \in Nat, p \in Nat, z \in Nat, x \in Nat :
            /\ i = idx /\ p = processed /\ z = WindowSize /\ x = Min({processed, WindowSize})
            /\ x <= p /\ x <= z
      <4>1. processed \in Nat /\ WindowSize \in Nat /\ idx \in Nat
        BY <2>2, TypeFacts, Sizes
      <4>2. /\ Min({processed, WindowSize}) \in Nat
            /\ Min({processed, WindowSize}) <= processed
            /\ Min({processed, WindowSize}) <= WindowSize
        BY <4>1, MinTwo
      <4>3. QED BY <4>1, <4>2, Zenon
    <3>2. i = p \/ i >= z
      BY <2>2, <3>1 DEF WindowInv
    <3>3. i >= x
      BY <3>1, <3>2
    <3>4. QED BY <3>1, <3>3, Zenon
  <2>5. QED BY <2>3, <2>4
<1>2. QED BY <1>1, Invariant, PTL

\* A match never reaches in front of the window, though positions are kept
\* modulo 2^16 and entries of the table are never removed (lz77.go).
THEOREM MatchesAreInWindow == Spec => []LooksBackInWindow
<1>1. IInv => LooksBackInWindow
  <2>1. SUFFICES ASSUME IInv, Generating, idx < End - Word, InWindow PROVE Distance <= idx
    BY DEF LooksBackInWindow
  <2>2. InStep
    BY <2>1 DEF IInv, Calls, InStep, Generating
  <2>3. QED BY <2>1, <2>2, LooksBack DEF IInv
<1>2. QED BY <1>1, Invariant, PTL

\* Every token of a block has a code, those left from an earlier call too, if
\* clients close a Writer before they Reset it (dynamic.go, genHuffCodes).
THEOREM EveryTokenCoded == ~DirtyReset => (Spec => []TokensCoded)
<1>1. ASSUME ~DirtyReset PROVE IInv => TokensCoded
  <2>1. SUFFICES ASSUME IInv, NEW i \in (tk + 1)..Len(tokens)
                 PROVE  /\ LitSymbol(tokens[i]) \in hist
                        /\ tokens[i].len > 0
                             => <<"dist", DistSymbol(tokens[i].dist).sym>> \in hist
    BY DEF TokensCoded
  <2>2. i \in 1..Len(tokens)
    BY <2>1, TypeFacts DEF IInv
  <2>3. Symbols(tokens[i]) \subseteq hist
    BY <1>1, <2>1, <2>2 DEF IInv, CodedInv
  <2>4. QED BY <2>3 DEF Symbols
<1>2. ASSUME ~DirtyReset PROVE Spec => []TokensCoded
  BY <1>1, <1>2, Invariant, PTL
<1>3. QED BY <1>2

\* encodeTokens never writes behind output and leaves room for the last byte,
\* if clients stop after a failed Flush (encode_other.go, bitbuf.go).
THEOREM OutputNeverOverruns == ~GoesOn => (Spec => []OutputFits)
<1>1. ASSUME ~GoesOn PROVE IInv => OutputFits
  <2>1. SUFFICES ASSUME IInv, pc \in {"tokens", "out"}
                 PROVE  Len(buf.out) <= OutBits - (IF last THEN 0 ELSE RegBits)
    BY DEF OutputFits
  <2>2. PICK x \in Nat, g \in Nat, o \in Nat :
          x = Len(buf.out) /\ g = RegBits /\ o = OutBits
    BY <2>1, TypeFacts, OutSizes DEF IInv
  <2>3. \/ x < o - 2 * g
        \/ x <= o - (IF last THEN 0 ELSE g)
        \/ x <= o - g
    <3>1. OutputInv
      BY <2>1 DEF IInv
    <3>2. CASE pc = "tokens"
      BY <2>2, <3>1, <3>2, Zenon DEF OutputInv
    <3>3. CASE pc = "out" /\ tk > 0
      BY <2>2, <3>1, <3>3, Zenon DEF OutputInv
    <3>4. CASE pc = "out" /\ tk = 0
      BY <1>1, <2>2, <3>1, <3>4, Zenon DEF OutputInv
    <3>5. tk = 0 \/ tk > 0
      BY <2>1, TypeFacts DEF IInv
    <3>6. QED BY <2>1, <3>2, <3>3, <3>4, <3>5
  <2>4. x <= o - (IF last THEN 0 ELSE g)
    BY <2>3
  <2>5. QED BY <2>2, <2>4, Zenon
<1>2. ASSUME ~GoesOn PROVE Spec => []OutputFits
  BY <1>1, <1>2, Invariant, PTL
<1>3. QED BY <1>2

(***************************************************************************)
(* What tokens stand for                                                   *)
(***************************************************************************)
\* A token stands for the bytes of x behind the first a, up to b.
Stands(t, x, a, b) ==
  \/ t = EobToken /\ b = a
  \/ \E k \in 0..255 : t = Lit(k) /\ b = a + 1 /\ x[b] = k
  \/ t.len > 0 /\ t.dist <= a /\ b = a + t.len /\ Repeats(x, a, t.len, t.dist)

\* The tokens cut x at the places c.
Spells(c, x, ts) ==
  /\ c \in [0..Len(ts) -> 0..Len(x)]
  /\ \A i \in 1..Len(ts) : Stands(ts[i], x, c[i - 1], c[i])

\* They stand for the bytes behind the first a, up to b.
Spelled(x, ts, a, b) == \E c : Spells(c, x, ts) /\ c[0] = a /\ c[Len(ts)] = b

LEMMA AppendToken ==
  ASSUME NEW ts \in Seq(Tokens), NEW t \in Tokens
  PROVE  /\ Append(ts, t) \in Seq(Tokens) /\ Len(Append(ts, t)) = Len(ts) + 1
         /\ Append(ts, t)[Len(ts) + 1] = t
         /\ \A i \in 1..Len(ts) : Append(ts, t)[i] = ts[i]
OBVIOUS

LEMMA SpelledNone ==
  ASSUME NEW x \in Seq(0..255), NEW a \in 0..Len(x)
  PROVE  Spelled(x, <<>>, a, a)
<1>1. PICK c : c = [i \in 0..0 |-> a]
  OBVIOUS
<1>2. c \in [0..0 -> 0..Len(x)] /\ c[0] = a
  BY <1>1
<1>3. Len(<<>>) = 0
  OBVIOUS
<1>4. Spells(c, x, <<>>)
  BY <1>2, <1>3 DEF Spells
<1>5. QED BY <1>2, <1>3, <1>4, Zenon DEF Spelled

\* One token more.
LEMMA SpelledMore ==
  ASSUME NEW x \in Seq(0..255), NEW ts \in Seq(Tokens), NEW a, NEW b, NEW e \in 0..Len(x),
         NEW t \in Tokens, Spelled(x, ts, a, b), Stands(t, x, b, e)
  PROVE  Spelled(x, Append(ts, t), a, e)
<1>1. PICK c : Spells(c, x, ts) /\ c[0] = a /\ c[Len(ts)] = b
  BY DEF Spelled
<1>2. PICK n \in Nat : n = Len(ts)
  OBVIOUS
<1>3. /\ c \in [0..n -> 0..Len(x)]
      /\ \A i \in 1..n : Stands(ts[i], x, c[i - 1], c[i])
  BY <1>1, <1>2 DEF Spells
<1>4. PICK g : g = [i \in 0..(n + 1) |-> IF i = n + 1 THEN e ELSE c[i]]
  OBVIOUS
<1>5. \A i \in 0..n : g[i] = c[i]
  BY <1>4
<1>6. g[n + 1] = e /\ g \in [0..(n + 1) -> 0..Len(x)]
  BY <1>3, <1>4
<1>7. PICK us : us = Append(ts, t)
  OBVIOUS
<1>8. /\ us \in Seq(Tokens) /\ Len(us) = n + 1 /\ us[n + 1] = t
      /\ \A i \in 1..n : us[i] = ts[i]
  <2>1. /\ Append(ts, t) \in Seq(Tokens) /\ Len(Append(ts, t)) = Len(ts) + 1
        /\ Append(ts, t)[Len(ts) + 1] = t
        /\ \A i \in 1..Len(ts) : Append(ts, t)[i] = ts[i]
    BY AppendToken
  <2>2. QED BY <1>2, <1>7, <2>1, Zenon
<1>9. ASSUME NEW i \in 1..(n + 1) PROVE Stands(us[i], x, g[i - 1], g[i])
  <2>1. CASE i = n + 1
    <3>1. (n + 1) - 1 = n /\ n \in 0..n
      OBVIOUS
    <3>2. g[i - 1] = b /\ g[i] = e /\ us[i] = t
      BY <1>1, <1>2, <1>5, <1>6, <1>8, <2>1, <3>1
    <3>3. QED BY <3>2
  <2>2. CASE i # n + 1
    <3>1. i \in 1..n /\ i \in 0..n /\ i - 1 \in 0..n
      BY <2>2
    <3>2. g[i - 1] = c[i - 1] /\ g[i] = c[i] /\ us[i] = ts[i]
      BY <1>5, <1>8, <3>1
    <3>3. QED BY <1>3, <3>1, <3>2
  <2>3. QED BY <2>1, <2>2
<1>10. Spells(g, x, us)
  BY <1>6, <1>8, <1>9 DEF Spells
<1>11. g[0] = a /\ g[Len(us)] = e
  BY <1>1, <1>5, <1>6, <1>8
<1>12. QED BY <1>7, <1>10, <1>11, Zenon DEF Spelled

\* Tokens behind tokens.
LEMMA SpelledTwice ==
  ASSUME NEW x \in Seq(0..255), NEW ts \in Seq(Tokens), NEW us \in Seq(Tokens),
         NEW a, NEW b, NEW e, Spelled(x, ts, a, b), Spelled(x, us, b, e)
  PROVE  Spelled(x, ts \o us, a, e)
<1>1. PICK c : Spells(c, x, ts) /\ c[0] = a /\ c[Len(ts)] = b
  BY DEF Spelled
<1>2. PICK d : Spells(d, x, us) /\ d[0] = b /\ d[Len(us)] = e
  BY DEF Spelled
<1>3. PICK n \in Nat, m \in Nat : n = Len(ts) /\ m = Len(us)
  OBVIOUS
<1>4. /\ c \in [0..n -> 0..Len(x)]
      /\ \A i \in 1..n : Stands(ts[i], x, c[i - 1], c[i])
  BY <1>1, <1>3 DEF Spells
<1>5. /\ d \in [0..m -> 0..Len(x)]
      /\ \A i \in 1..m : Stands(us[i], x, d[i - 1], d[i])
  BY <1>2, <1>3 DEF Spells
<1>6. PICK g : g = [i \in 0..(n + m) |-> IF i <= n THEN c[i] ELSE d[i - n]]
  OBVIOUS
<1>7. \A i \in 0..n : g[i] = c[i]
  BY <1>6
<1>8. \A i \in 0..m : g[n + i] = d[i]
  <2>1. SUFFICES ASSUME NEW i \in 0..m PROVE g[n + i] = d[i]
    OBVIOUS
  <2>2. CASE i = 0
    <3>1. n + i = n /\ n \in 0..n
      BY <2>2
    <3>2. QED BY <1>1, <1>2, <1>3, <1>7, <2>2, <3>1
  <2>3. CASE i # 0
    <3>1. n + i \in 0..(n + m) /\ ~(n + i <= n) /\ (n + i) - n = i
      BY <2>3
    <3>2. QED BY <1>6, <3>1
  <2>4. QED BY <2>2, <2>3
<1>9. g \in [0..(n + m) -> 0..Len(x)]
  <2>1. ASSUME NEW i \in 0..(n + m)
        PROVE  (IF i <= n THEN c[i] ELSE d[i - n]) \in 0..Len(x)
    <3>1. i <= n => i \in 0..n
      OBVIOUS
    <3>2. ~(i <= n) => i - n \in 0..m
      OBVIOUS
    <3>3. QED BY <1>4, <1>5, <3>1, <3>2
  <2>2. QED BY <1>6, <2>1
<1>10. PICK v : v = ts \o us
  OBVIOUS
<1>11. /\ v \in Seq(Tokens) /\ Len(v) = n + m
       /\ \A i \in 1..n : v[i] = ts[i]
       /\ \A i \in 1..m : v[n + i] = us[i]
  BY <1>3, <1>10, Concatenated
<1>12. ASSUME NEW i \in 1..(n + m) PROVE Stands(v[i], x, g[i - 1], g[i])
  <2>1. CASE i <= n
    <3>1. i \in 1..n /\ i \in 0..n /\ i - 1 \in 0..n
      BY <2>1
    <3>2. g[i - 1] = c[i - 1] /\ g[i] = c[i] /\ v[i] = ts[i]
      BY <1>7, <1>11, <3>1
    <3>3. QED BY <1>4, <3>1, <3>2
  <2>2. CASE ~(i <= n)
    <3>1. PICK j \in 1..m : i = n + j
      <4>1. i - n \in 1..m /\ i = n + (i - n)
        BY <2>2
      <4>2. QED BY <4>1
    <3>2. j \in 0..m /\ j - 1 \in 0..m /\ i - 1 = n + (j - 1)
      BY <3>1
    <3>3. g[i - 1] = d[j - 1] /\ g[i] = d[j] /\ v[i] = us[j]
      BY <1>8, <1>11, <3>1, <3>2
    <3>4. QED BY <1>5, <3>1, <3>3
  <2>3. QED BY <2>1, <2>2
<1>13. Spells(g, x, v)
  BY <1>9, <1>11, <1>12 DEF Spells
<1>14. g[0] = a /\ g[Len(v)] = e
  <2>1. 0 \in 0..n /\ m \in 0..m
    OBVIOUS
  <2>2. QED BY <1>1, <1>2, <1>3, <1>7, <1>8, <1>11, <2>1
<1>15. QED BY <1>10, <1>13, <1>14, Zenon DEF Spelled

\* One match after the other, all as long as can be.
LEMMA LongSpelled ==
  ASSUME NEW x \in Seq(0..255), NEW a \in Nat, NEW k \in Nat, NEW d \in 1..WindowSize,
         d <= a, NEW n \in Nat, n = k * MaxMatch, a + n <= Len(x), Repeats(x, a, n, d)
  PROVE  Spelled(x, LongOf(k, d), a, a + n)
<1>1. PICK m \in Nat \ {0}, l \in Nat : m = MaxMatch /\ n = k * m /\ l = Len(x)
  <2>1. PICK m \in Nat \ {0} : m = MaxMatch
    BY Sizes
  <2>2. Len(x) \in Nat
    OBVIOUS
  <2>3. QED BY <2>1, <2>2
<1>2. PICK c : c = [i \in 0..k |-> a + i * m]
  OBVIOUS
<1>3. ASSUME NEW i \in 0..k PROVE i * m \in Nat /\ i * m <= n /\ a + i * m \in 0..l
  <2>1. PICK j \in Nat : k = i + j
    <3>1. k - i \in Nat /\ k = i + (k - i)
      OBVIOUS
    <3>2. QED BY <3>1
  <2>2. i \in Nat
    OBVIOUS
  <2>3. i * m \in Nat /\ j * m \in Nat /\ k * m = i * m + j * m
    BY <2>1, <2>2
  <2>4. QED BY <1>1, <2>3
<1>4. c \in [0..k -> 0..l]
  BY <1>2, <1>3
<1>5. PICK ts \in Seq(Tokens) : ts = LongOf(k, d) /\ Len(ts) = k
  BY LongTokens
<1>6. \A i \in 1..k : ts[i] = Match(MaxMatch, d)
  BY <1>5 DEF LongOf
<1>7. ASSUME NEW i \in 1..k PROVE Stands(ts[i], x, c[i - 1], c[i])
  <2>1. i \in 0..k /\ i - 1 \in 0..k
    OBVIOUS
  <2>2. PICK p \in Nat, q \in Nat :
          /\ p = a + (i - 1) * m /\ q = a + i * m /\ a <= p /\ q = p + m /\ q <= a + n
          /\ c[i - 1] = p /\ c[i] = q
    <3>1. PICK y \in Nat, z \in Nat : y = (i - 1) * m /\ z = i * m /\ z <= n
      BY <1>3, <2>1
    <3>2. z = y + m
      BY <3>1
    <3>3. c[i - 1] = a + y /\ c[i] = a + z
      BY <1>2, <2>1, <3>1, Zenon
    <3>4. PICK p \in Nat, q \in Nat : p = a + y /\ q = a + z
      OBVIOUS
    <3>5. a <= p /\ q = p + m /\ q <= a + n
      BY <3>1, <3>2, <3>4
    <3>6. QED BY <3>1, <3>3, <3>4, <3>5, Zenon
  <2>3. Repeats(x, p, m, d)
    <3>1. ASSUME NEW j \in (p + 1)..(p + m) PROVE x[j] = x[j - d]
      <4>1. a <= p /\ p + m <= a + n
        BY <2>2, Zenon
      <4>2. j \in (a + 1)..(a + n)
        BY <4>1
      <4>3. QED BY <4>2 DEF Repeats
    <3>2. QED BY <3>1 DEF Repeats
  <2>4. ts[i].len = m /\ ts[i].dist = d
    BY <1>1, <1>6 DEF Match
  <2>5. m > 0 /\ d <= p
    <3>1. PICK y \in Nat : y = d /\ y <= a
      BY Sizes
    <3>2. a <= p
      BY <2>2, Zenon
    <3>3. y <= p /\ m > 0
      BY <3>1, <3>2
    <3>4. QED BY <3>1, <3>3, Zenon
  <2>6. QED BY <2>2, <2>3, <2>4, <2>5 DEF Stands
<1>8. Spells(c, x, ts)
  BY <1>1, <1>4, <1>5, <1>7, Zenon DEF Spells
<1>9. c[0] = a /\ c[k] = a + n
  <2>1. 0 \in 0..k /\ k \in 0..k /\ a + 0 * m = a
    BY <1>1
  <2>2. QED BY <1>1, <1>2, <2>1
<1>10. QED BY <1>5, <1>8, <1>9, Zenon DEF Spelled

\* The places do not go back.
LEMMA PlacesUpTo ==
  ASSUME NEW x \in Seq(0..255), NEW ts \in Seq(Tokens), NEW c, Spells(c, x, ts)
  PROVE  \A i \in 0..Len(ts) : c[i] <= c[Len(ts)]
<1>1. PICK n \in Nat, l \in Nat : n = Len(ts) /\ l = Len(x)
  OBVIOUS
<1>2. c \in [0..n -> 0..l] /\ \A i \in 1..n : Stands(ts[i], x, c[i - 1], c[i])
  BY <1>1 DEF Spells
<1>3. ASSUME NEW i \in 1..n PROVE c[i - 1] <= c[i]
  <2>1. PICK a \in Nat, b \in Nat, t \in Tokens :
          a = c[i - 1] /\ b = c[i] /\ t = ts[i] /\ Stands(t, x, a, b)
    <3>1. i - 1 \in 0..n /\ i \in 0..n
      OBVIOUS
    <3>2. c[i - 1] \in Nat /\ c[i] \in Nat
      BY <1>2, <3>1
    <3>3. ts[i] \in Tokens
      BY <1>1, ElementOfSeq
    <3>4. QED BY <1>2, <3>2, <3>3
  <2>2. PICK y \in Nat : y = t.len
    BY DEF Tokens
  <2>3. b = a \/ b = a + 1 \/ b = a + y
    BY <2>1, <2>2, Zenon DEF Stands
  <2>4. a <= b
    BY <2>3
  <2>5. QED BY <2>1, <2>4, Zenon
<1> DEFINE S == {j \in Nat : j <= n => c[n - j] <= c[n]}
<1>4. 0 \in S
  <2>1. PICK y \in Nat : y = c[n]
    BY <1>2
  <2>2. n - 0 = n /\ y <= y
    OBVIOUS
  <2>3. c[n - 0] <= c[n]
    BY <2>1, <2>2, Zenon
  <2>4. QED BY <2>3
<1>5. ASSUME NEW j \in S PROVE j + 1 \in S
  <2>1. SUFFICES ASSUME j + 1 <= n PROVE c[n - (j + 1)] <= c[n]
    BY <1>5
  <2>2. PICK i \in 1..n : i = n - j /\ i - 1 = n - (j + 1)
    <3>1. n - j \in 1..n /\ (n - j) - 1 = n - (j + 1)
      BY <1>5, <2>1
    <3>2. QED BY <3>1
  <2>3. c[i - 1] <= c[i] /\ c[i] <= c[n]
    <3>1. c[n - j] <= c[n]
      BY <1>5, <2>1
    <3>2. QED BY <1>3, <2>2, <3>1
  <2>4. c[i - 1] \in Nat /\ c[i] \in Nat /\ c[n] \in Nat
    <3>1. i - 1 \in 0..n /\ i \in 0..n /\ n \in 0..n
      OBVIOUS
    <3>2. QED BY <1>2, <3>1
  <2>5. QED BY <2>2, <2>3, <2>4
<1>6. S = Nat
  <2> HIDE DEF S
  <2>1. S \in SUBSET Nat
    BY DEF S
  <2>2. QED BY <1>4, <1>5, <2>1, InductiveSet
<1>7. ASSUME NEW i \in 0..n PROVE c[i] <= c[n]
  <2>1. n - i \in Nat /\ n - i <= n /\ n - (n - i) = i
    OBVIOUS
  <2>2. n - i \in S
    <3> HIDE DEF S
    <3>1. QED BY <1>6, <2>1
  <2>3. c[n - (n - i)] <= c[n]
    BY <2>1, <2>2
  <2>4. QED BY <2>1, <2>3
<1>8. QED BY <1>1, <1>7

(***************************************************************************)
(* The window and the text                                                 *)
(***************************************************************************)
\* A byte of the window is one of the text.
LEMMA WindowText ==
  ASSUME Types, WindowInv, InStep
  PROVE  /\ processed + (End - idx) <= Len(text)
         /\ \A i \in 0..(End - 1) : At(i) = text[((processed - idx) + i) + 1]
<1>1. PICK t \in Seq(0..255), e \in Nat, k \in Nat, l \in Nat, p \in Nat, i \in Nat :
        /\ t = text /\ e = End /\ k = Taken /\ l = Len(t) /\ p = processed /\ i = idx
        /\ e <= k /\ k <= l /\ k - p = e - i /\ i <= p
        /\ window = SubSeq(t, (k - e) + 1, k)
  <2>1. /\ text \in Seq(0..255) /\ End \in Nat /\ Taken \in Nat /\ Taken <= Len(text)
        /\ processed \in Nat /\ idx \in Nat /\ Len(text) \in Nat
    BY TypeFacts
  <2>2. /\ End <= Taken /\ window = SubSeq(text, (Taken - End) + 1, Taken)
        /\ Taken - processed = End - idx /\ idx <= processed
    BY DEF WindowInv
  <2>3. QED BY <2>1, <2>2
<1>2. p + (e - i) <= l
  BY <1>1
<1>3. PICK a \in Nat : a = k - e /\ a + e = k /\ a = p - i
  BY <1>1
<1>4. IsPart(t, a, e)
  BY <1>1, <1>3, PartOf
<1>5. ASSUME NEW j \in 0..(e - 1) PROVE window[j + 1] = t[((p - i) + j) + 1]
  <2>1. j + 1 \in 1..e /\ a + (j + 1) = ((p - i) + j) + 1
    BY <1>3
  <2>2. window = SubSeq(t, a + 1, a + e)
    BY <1>1, <1>3
  <2>3. window[j + 1] = t[a + (j + 1)]
    BY <1>4, <2>1, <2>2, Zenon DEF IsPart
  <2>4. QED BY <2>1, <2>3
<1>6. QED BY <1>1, <1>2, <1>5 DEF At

\* A literal stands for the byte it was made from.
LEMMA LiteralStands ==
  ASSUME Types, WindowInv, InStep, NEW n \in Nat, idx + n < End
  PROVE  /\ At(idx + n) \in 0..255
         /\ Stands(Lit(At(idx + n)), text, processed + n, (processed + n) + 1)
         /\ processed + n + 1 <= Len(text)
<1>1. PICK i \in Nat, e \in Nat, p \in Nat, l \in Nat :
        i = idx /\ e = End /\ p = processed /\ l = Len(text) /\ i <= p /\ i + n < e
  BY TypeFacts DEF WindowInv
<1>2. p + (e - i) <= l /\ \A j \in 0..(e - 1) : At(j) = text[((p - i) + j) + 1]
  BY <1>1, WindowText, Zenon
<1>3. i + n \in 0..(e - 1) /\ ((p - i) + (i + n)) + 1 = (p + n) + 1
  BY <1>1
<1>4. At(i + n) = text[(p + n) + 1]
  BY <1>2, <1>3
<1>5. At(i + n) \in 0..255
  <2>1. PICK j \in Nat : j = i + n /\ j < End
    BY <1>1
  <2>2. At(j) \in 0..255
    BY <2>1, WindowByte
  <2>3. QED BY <2>1, <2>2, Zenon
<1>6. PICK q \in Nat, s \in Nat : q = p + n /\ s = q + 1 /\ text[s] = At(i + n)
  <2>1. p + n \in Nat /\ (p + n) + 1 \in Nat
    OBVIOUS
  <2>2. QED BY <1>4, <2>1
<1>7. Stands(Lit(At(i + n)), text, q, s)
  BY <1>5, <1>6 DEF Stands
<1>8. p + n + 1 <= l
  BY <1>1, <1>2
<1>9. QED BY <1>1, <1>5, <1>6, <1>7, <1>8, Zenon

\* Where bytes of the window repeat, bytes of the text do.
LEMMA WindowRepeats ==
  ASSUME Types, WindowInv, InStep, NEW d \in 1..WindowSize, d <= idx, NEW m \in Nat,
         idx + m <= End, \A j \in 0..(m - 1) : At((idx - d) + j) = At(idx + j)
  PROVE  Repeats(text, processed, m, d) /\ d <= processed /\ processed + m <= Len(text)
<1>1. PICK i \in Nat, e \in Nat, p \in Nat, l \in Nat, y \in Nat :
        i = idx /\ e = End /\ p = processed /\ l = Len(text) /\ i <= p /\ i + m <= e
        /\ y = d /\ y <= i
  <2>1. PICK y \in Nat : y = d /\ y <= idx
    BY Sizes
  <2>2. /\ idx \in Nat /\ End \in Nat /\ processed \in Nat /\ Len(text) \in Nat
        /\ idx <= processed
    BY TypeFacts DEF WindowInv
  <2>3. QED BY <2>1, <2>2
<1>2. p + (e - i) <= l /\ \A j \in 0..(e - 1) : At(j) = text[((p - i) + j) + 1]
  BY <1>1, WindowText, Zenon
<1>3. ASSUME NEW x \in (p + 1)..(p + m) PROVE text[x] = text[x - y]
  <2>1. PICK j \in 0..(m - 1) : j = x - p - 1
    <3>1. x - p - 1 \in 0..(m - 1)
      OBVIOUS
    <3>2. QED BY <3>1
  <2>2. i + j \in 0..(e - 1) /\ ((p - i) + (i + j)) + 1 = x
    BY <1>1, <2>1
  <2>3. (i - y) + j \in 0..(e - 1) /\ ((p - i) + ((i - y) + j)) + 1 = x - y
    BY <1>1, <2>1
  <2>4. At(i + j) = text[x]
    BY <1>2, <2>2
  <2>5. At((i - y) + j) = text[x - y]
    BY <1>2, <2>3
  <2>6. At((i - y) + j) = At(i + j)
    BY <1>1, <2>1, Zenon
  <2>7. QED BY <2>4, <2>5, <2>6, Zenon
<1>4. Repeats(text, p, m, y)
  BY <1>3 DEF Repeats
<1>5. y <= p /\ p + m <= l
  BY <1>1, <1>2
<1>6. QED BY <1>1, <1>4, <1>5, Zenon

(***************************************************************************)
(* Resolved bytes                                                          *)
(***************************************************************************)
NotEob(ts) == \A i \in 1..Len(ts) : ts[i] # EobToken

LEMMA NoEob ==
  /\ \A c \in 0..255 : Lit(c) # EobToken
  /\ \A l \in 1..MaxMatch, d \in Nat : Match(l, d) # EobToken
<1>1. ASSUME NEW c \in 0..255 PROVE Lit(c) # EobToken
  <2>1. Lit(c).lit # 256 /\ EobToken.lit = 256
    BY DEF Lit, EobToken
  <2>2. QED BY <2>1
<1>2. ASSUME NEW l \in 1..MaxMatch, NEW d \in Nat PROVE Match(l, d) # EobToken
  <2>1. l # 0
    BY Sizes
  <2>2. Match(l, d).len # 0 /\ EobToken.len = 0
    BY <2>1 DEF Match, EobToken
  <2>3. QED BY <2>2
<1>3. QED BY <1>1, <1>2

\* The tokens of a step of generate stand for the bytes that it resolves.
Resolved(n, ts) ==
  /\ ts \in Seq(Tokens) /\ NotEob(ts) /\ processed + n <= Len(text)
  /\ Spelled(text, ts, processed, processed + n)

LEMMA OneLiteral ==
  ASSUME Types, WindowInv, InStep, idx < End
  PROVE  Resolved(1, <<Lit(At(idx))>>)
<1>1. PICK i \in Nat, p \in Nat, e \in Nat : i = idx /\ p = processed /\ e = End /\ i + 0 < e
  BY TypeFacts
<1>2. PICK t : t = Lit(At(i + 0))
  OBVIOUS
<1>3. Stands(t, text, p + 0, (p + 0) + 1) /\ (p + 0) + 1 <= Len(text) /\ At(i + 0) \in 0..255
  <2>1. 0 \in Nat /\ idx + 0 < End
    BY <1>1
  <2>2. QED BY <1>1, <1>2, <2>1, LiteralStands, Zenon
<1>4. t \in Tokens /\ t # EobToken
  BY <1>2, <1>3, TokenTypes, NoEob
<1>5. p + 0 = p /\ i + 0 = i
  OBVIOUS
<1>6. PICK x \in Seq(0..255), l \in Nat : x = text /\ l = Len(x)
  BY TypeFacts
<1>7. p \in 0..Len(x) /\ p + 1 \in 0..Len(x)
  BY <1>3, <1>5, <1>6
<1>8. Spelled(x, <<>>, p, p)
  BY <1>7, SpelledNone
<1>9. <<>> \in Seq(Tokens)
  OBVIOUS
<1>10. Spelled(x, Append(<<>>, t), p, p + 1)
  <2>1. Stands(t, x, p, p + 1)
    BY <1>3, <1>5, <1>6, Zenon
  <2>2. QED BY <1>4, <1>7, <1>8, <1>9, <2>1, SpelledMore
<1>11. Append(<<>>, t) = <<t>> /\ <<t>> \in Seq(Tokens) /\ Len(<<t>>) = 1 /\ <<t>>[1] = t
  BY <1>4
<1>12. NotEob(<<t>>)
  BY <1>4, <1>11 DEF NotEob
<1>13. t = Lit(At(idx))
  BY <1>1, <1>2, <1>5
<1>14. p + 1 <= Len(text)
  BY <1>6, <1>7
<1>15. QED BY <1>1, <1>6, <1>10, <1>11, <1>12, <1>13, <1>14, Zenon DEF Resolved

LEMMA LongResolved ==
  ASSUME Types, NEW k \in Nat, NEW x \in Nat, x = k * MaxMatch, NEW m \in Nat, x <= m,
         NEW d \in 1..WindowSize, d <= processed, processed + m <= Len(text),
         Repeats(text, processed, m, d)
  PROVE  Resolved(x, LongOf(k, d))
<1>1. PICK t \in Seq(0..255), l \in Nat, p \in Nat :
        t = text /\ l = Len(t) /\ p = processed /\ p + m <= l
  BY TypeFacts
<1>2. p + x <= l
  BY <1>1
<1>3. Repeats(t, p, x, d)
  <2>1. ASSUME NEW i \in (p + 1)..(p + x) PROVE t[i] = t[i - d]
    <3>1. i \in (p + 1)..(p + m)
      OBVIOUS
    <3>2. QED BY <1>1, <3>1 DEF Repeats
  <2>2. QED BY <2>1 DEF Repeats
<1>4. Spelled(t, LongOf(k, d), p, p + x)
  <2>1. d <= p /\ p + x <= Len(t)
    BY <1>1, <1>2
  <2>2. QED BY <1>3, <2>1, LongSpelled
<1>5. LongOf(k, d) \in Seq(Tokens) /\ Len(LongOf(k, d)) = k
  BY LongTokens
<1>6. NotEob(LongOf(k, d))
  <2>1. MaxMatch \in 1..MaxMatch /\ d \in Nat
    BY Sizes
  <2>2. Match(MaxMatch, d) # EobToken
    BY <2>1, NoEob
  <2>3. \A i \in 1..k : LongOf(k, d)[i] = Match(MaxMatch, d)
    BY DEF LongOf
  <2>4. QED BY <1>5, <2>2, <2>3 DEF NotEob
<1>7. QED BY <1>1, <1>2, <1>4, <1>5, <1>6, Zenon DEF Resolved

\* One token more is resolved.
LEMMA ResolvedMore ==
  ASSUME Types, NEW n \in Nat, NEW ts, Resolved(n, ts), NEW t \in Tokens, t # EobToken,
         NEW j \in Nat, processed + j <= Len(text),
         Stands(t, text, processed + n, processed + j)
  PROVE  Resolved(j, Append(ts, t))
<1>1. PICK x \in Seq(0..255), p \in Nat : x = text /\ p = processed /\ p + j <= Len(x)
  BY TypeFacts
<1>2. p + j \in 0..Len(x)
  BY <1>1
<1>3. ts \in Seq(Tokens) /\ NotEob(ts) /\ Spelled(x, ts, p, p + n)
  BY <1>1 DEF Resolved
<1>4. Stands(t, x, p + n, p + j)
  BY <1>1
<1>5. Spelled(x, Append(ts, t), p, p + j)
  BY <1>2, <1>3, <1>4, SpelledMore
<1>6. /\ Append(ts, t) \in Seq(Tokens) /\ Len(Append(ts, t)) = Len(ts) + 1
      /\ Append(ts, t)[Len(ts) + 1] = t
      /\ \A i \in 1..Len(ts) : Append(ts, t)[i] = ts[i]
  BY <1>3, AppendToken
<1>7. NotEob(Append(ts, t))
  <2>1. PICK u : u = Append(ts, t)
    OBVIOUS
  <2>2. PICK n1 \in Nat : n1 = Len(ts)
    <3>1. ts \in Seq(Tokens)
      BY <1>3, Zenon
    <3>2. QED BY <3>1
  <2>3. u = Append(ts, t) /\ n1 = Len(ts)
    BY <2>1, <2>2
  <2>4. ASSUME NEW i \in 1..(n1 + 1) PROVE u[i] # EobToken
    <3>1. i \in 1..n1 \/ i = n1 + 1
      OBVIOUS
    <3>2. QED BY <1>3, <1>6, <2>3, <3>1 DEF NotEob
  <2>5. Len(u) = n1 + 1
    BY <1>6, <2>3
  <2>6. NotEob(u)
    BY <2>4, <2>5 DEF NotEob
  <2>7. QED BY <2>3, <2>6
<1>8. QED BY <1>1, <1>5, <1>6, <1>7, Zenon DEF Resolved

LEMMA MatchResolved ==
  ASSUME Types, WindowInv, InStep, NEW k, NEW m, NEW d, MatchRun(k, m, d)
  PROVE  \E n \in Nat \ {0} : \E ts : Resolved(n, ts) /\ Resolve(n, ts)
<1>1. /\ k \in Nat /\ m \in Nat /\ d \in 1..WindowSize /\ d <= idx
      /\ k * MaxMatch \in Nat /\ k * MaxMatch <= m /\ idx + m <= End
      /\ \A j \in 0..(m - 1) : At((idx - d) + j) = At(idx + j)
  BY DEF MatchRun
<1>2. Repeats(text, processed, m, d) /\ d <= processed /\ processed + m <= Len(text)
  BY <1>1, WindowRepeats
<1>3. PICK x \in Nat : x = k * MaxMatch /\ x <= m
  BY <1>1
<1>4. Resolved(x, LongOf(k, d))
  BY <1>1, <1>2, <1>3, LongResolved
<1>5. PICK p \in Nat, i \in Nat, e \in Nat, l \in Nat, y \in Nat, a \in Nat, b \in Nat :
        /\ p = processed /\ i = idx /\ e = End /\ l = Len(text) /\ i + m <= e
        /\ p + m <= l /\ y = d /\ y <= p /\ a = p + x /\ b = p + m
  <2>1. PICK y \in Nat : y = d /\ y <= processed
    BY <1>1, <1>2, Sizes
  <2>2. processed \in Nat /\ idx \in Nat /\ End \in Nat /\ Len(text) \in Nat
    BY TypeFacts
  <2>3. processed + x \in Nat /\ processed + m \in Nat
    BY <1>1, <2>2
  <2>4. QED BY <1>1, <1>2, <2>1, <2>2, <2>3
<1>6. CASE k > 0 /\ Resolve(k * MaxMatch, LongOf(k, d))
  <2>1. MaxMatch <= x
    BY <1>3, <1>6 DEF MatchRun
  <2>2. x \in Nat \ {0}
    BY <2>1, Sizes
  <2>3. QED BY <1>3, <1>4, <1>6, <2>2
<1>7. CASE /\ m - k * MaxMatch \in MinMatch..MaxMatch
           /\ Resolve(m, Append(LongOf(k, d), Match(m - k * MaxMatch, d)))
  <2>1. PICK r \in 1..MaxMatch : r = m - x /\ r \in Nat
    <3>1. m - x \in 1..MaxMatch
      BY <1>3, <1>7, Sizes
    <3>2. m - x \in Nat
      BY <1>1, <1>3
    <3>3. QED BY <3>1, <3>2
  <2>2. Match(r, d) \in Tokens /\ Match(r, d) # EobToken
    <3>1. d \in Nat
      BY <1>5
    <3>2. QED BY <1>1, <3>1, TokenTypes, NoEob
  <2>3. a + r = b /\ y <= a /\ r > 0
    BY <1>1, <1>3, <1>5, <2>1, Sizes
  <2>4. Repeats(text, a, r, y)
    <3>1. ASSUME NEW j \in (a + 1)..(a + r) PROVE text[j] = text[j - y]
      <4>1. j \in (p + 1)..(p + m)
        BY <1>3, <1>5, <2>3
      <4>2. Repeats(text, p, m, y)
        BY <1>2, <1>5
      <4>3. QED BY <4>1, <4>2 DEF Repeats
    <3>2. QED BY <3>1 DEF Repeats
  <2>5. Stands(Match(r, d), text, a, b)
    <3>1. Match(r, d).len = r /\ Match(r, d).dist = d
      BY DEF Match
    <3>2. QED BY <1>5, <2>3, <2>4, <3>1, Zenon DEF Stands
  <2>6. Resolved(m, Append(LongOf(k, d), Match(r, d)))
    <3>1. Stands(Match(r, d), text, processed + x, processed + m)
      BY <1>5, <2>5, Zenon
    <3>2. QED BY <1>1, <1>2, <1>4, <2>2, <3>1, ResolvedMore
  <2>7. Resolve(m, Append(LongOf(k, d), Match(r, d)))
    BY <1>3, <1>7, <2>1, Zenon
  <2>8. m \in Nat \ {0}
    <3>1. MinMatch <= m
      BY DEF MatchRun
    <3>2. QED BY <1>1, <3>1, Sizes
  <2>9. QED BY <2>6, <2>7, <2>8
<1>8. CASE /\ k * MaxMatch < m
           /\ Resolve(k * MaxMatch + 1, Append(LongOf(k, d), Lit(At(idx + k * MaxMatch))))
  <2>1. x < m /\ i + x < e
    BY <1>1, <1>3, <1>5, <1>8
  <2>2. /\ At(idx + x) \in 0..255
        /\ Stands(Lit(At(idx + x)), text, processed + x, (processed + x) + 1)
        /\ processed + x + 1 <= Len(text)
    <3>1. idx + x < End
      BY <1>5, <2>1, Zenon
    <3>2. QED BY <3>1, LiteralStands
  <2>3. Lit(At(idx + x)) \in Tokens /\ Lit(At(idx + x)) # EobToken
    BY <2>2, TokenTypes, NoEob
  <2>4. PICK z \in Nat \ {0} : z = x + 1 /\ (p + x) + 1 = p + z
    <3>1. x + 1 \in Nat \ {0} /\ (p + x) + 1 = p + (x + 1)
      OBVIOUS
    <3>2. QED BY <3>1
  <2>5. Resolved(z, Append(LongOf(k, d), Lit(At(idx + x))))
    <3>1. Stands(Lit(At(idx + x)), text, processed + x, processed + z)
      BY <1>5, <2>2, <2>4, Zenon
    <3>2. processed + z <= Len(text)
      BY <1>5, <2>2, <2>4, Zenon
    <3>3. QED BY <1>4, <2>3, <3>1, <3>2, ResolvedMore
  <2>6. Resolve(z, Append(LongOf(k, d), Lit(At(idx + x))))
    BY <1>3, <1>8, <2>4, Zenon
  <2>7. QED BY <2>5, <2>6
<1>9. QED BY <1>6, <1>7, <1>8, Zenon DEF MatchRun

(***************************************************************************)
(* The stream                                                              *)
(***************************************************************************)
\* Clients stop after an error of Flush, and close a Writer before a Reset.
Orderly == ~GoesOn /\ ~DirtyReset

\* The decoder, when it has taken all that is written.
Ahead == Feed(remote, Stream(buf))
Begun(k) == SubSeq(text, 1, k)

\* The tokens stand for the data behind a block's end, up to processed.
AtRest ==
  Live /\ pc \in {"idle", "loop", "compress", "block"} =>
    /\ buf.out = <<>> /\ NotEob(tokens) /\ (processed = 0 => tokens = <<>>)
    /\ \E a : Spelled(text, tokens, a, processed) /\ AtBlock(Ahead, Begun(a))

\* Only the last token ends the block.
EobLast(ts) == \A i \in 1..Len(ts) : ts[i] = EobToken <=> i = Len(ts)

\* Those that are encoded are written.
Inside ==
  pc = "tokens" \/ (pc = "out" /\ tk > 0 /\ tk < Len(tokens)) =>
    /\ EobLast(tokens)
    /\ \E c : /\ Spells(c, text, tokens) /\ c[Len(tokens)] = processed
              /\ InBlock(Ahead, Begun(c[tk]), IF last THEN 1 ELSE 0)

Between ==
  pc = "out" /\ tk > 0 /\ tk = Len(tokens) =>
    IF last THEN AtEnd(Ahead, Begun(processed)) /\ buf.bits = <<>>
    ELSE AtBlock(Ahead, Begun(processed))

\* An empty block ends Flush, or an empty stream.
Over ==
  pc = "out" /\ tk = 0 =>
    /\ tokens = <<>> /\ processed = given /\ buf.bits = <<>>
    /\ IF call = "flush" THEN AtBlock(Ahead, Begun(given)) ELSE AtEnd(Ahead, Begun(given))

Done ==
  pc = "done" =>
    /\ tokens = <<>> /\ processed = given
    /\ IF call = "flush"
       THEN AtBlock(remote, Begun(given)) /\ buf.out = <<>> /\ buf.bits = <<>>
       ELSE AtEnd(remote, Begun(given))

NotEnded == Live /\ ~(pc = "done" /\ call = "close") => remote.mode # "end"

StreamInv ==
  OnlyGivenData /\ AtRest /\ Inside /\ Between /\ Over /\ Done /\ NotEnded

\* Nothing is written, nothing is decoded.
LEMMA NothingBegun ==
  ASSUME NEW x \in Seq(0..255)
  PROVE  /\ SubSeq(x, 1, 0) = <<>> /\ Len(<<>>) = 0
         /\ Spelled(x, <<>>, 0, 0) /\ AtBlock(Feed(Fresh, Stream(Empty)), SubSeq(x, 1, 0))
<1>1. SubSeq(x, 1, 0) = <<>> /\ Len(<<>>) = 0
  OBVIOUS
<1>2. Spelled(x, <<>>, 0, 0)
  <2>1. 0 \in 0..Len(x)
    OBVIOUS
  <2>2. QED BY <2>1, SpelledNone
<1>3. Stream(Empty) = <<>>
  BY DEF Stream, Empty
<1>4. Feed(Fresh, <<>>) = Fresh
  BY FreshType, FeedEmpty
<1>5. AtBlock(Fresh, <<>>)
  BY FreshType DEF AtBlock, Fresh
<1>6. QED BY <1>1, <1>2, <1>3, <1>4, <1>5

LEMMA InitStream ==
  ASSUME Orderly, Init
  PROVE  StreamInv
<1>1. /\ pc = "idle" /\ given = 0 /\ remote = Fresh /\ buf = Empty /\ text \in Texts
      /\ tokens = <<>> /\ processed = 0
  BY DEF Init, WriterInit, InitDyn
<1>2. text \in Seq(0..255)
  BY <1>1, WriterAssumption
<1>3. /\ SubSeq(text, 1, 0) = <<>> /\ Len(<<>>) = 0
      /\ Spelled(text, <<>>, 0, 0) /\ AtBlock(Feed(Fresh, Stream(Empty)), SubSeq(text, 1, 0))
  BY <1>2, NothingBegun
<1>4. Fresh.mode = "header" /\ Fresh.plain = <<>>
  BY DEF Fresh
<1>5. OnlyGivenData
  BY <1>1, <1>3, <1>4 DEF OnlyGivenData, Sound
<1>6. AtRest
  <2>1. buf.out = <<>>
    BY <1>1, NewBuf
  <2>2. NotEob(tokens)
    BY <1>1, <1>3 DEF NotEob
  <2>3. Spelled(text, tokens, 0, processed) /\ AtBlock(Ahead, Begun(0))
    BY <1>1, <1>3 DEF Ahead, Begun
  <2>4. QED BY <1>1, <2>1, <2>2, <2>3, Zenon DEF AtRest
<1>7. Inside /\ Between /\ Over /\ Done /\ NotEnded
  BY <1>1, <1>4 DEF Inside, Between, Over, Done, NotEnded
<1>8. QED BY <1>5, <1>6, <1>7 DEF StreamInv

LEMMA ResetStream ==
  ASSUME Orderly, StreamInv, NEW t \in Texts, Reset(t)
  PROVE  StreamInv'
<1>1. /\ pc' = "idle" /\ given' = 0 /\ remote' = Fresh /\ buf' = Empty /\ text' = t
      /\ tokens' = <<>> /\ processed' = 0
  BY DEF Reset, ResetWriter, Orderly
<1>2. t \in Seq(0..255)
  BY WriterAssumption
<1>3. /\ SubSeq(t, 1, 0) = <<>> /\ Len(<<>>) = 0
      /\ Spelled(t, <<>>, 0, 0) /\ AtBlock(Feed(Fresh, Stream(Empty)), SubSeq(t, 1, 0))
  BY <1>2, NothingBegun
<1>4. Fresh.mode = "header" /\ Fresh.plain = <<>>
  BY DEF Fresh
<1>5. OnlyGivenData'
  BY <1>1, <1>3, <1>4 DEF OnlyGivenData, Sound
<1>6. AtRest'
  <2>1. buf'.out = <<>>
    BY <1>1, NewBuf
  <2>2. NotEob(tokens')
    BY <1>1, <1>3 DEF NotEob
  <2>3. Spelled(text', tokens', 0, processed') /\ AtBlock(Ahead', SubSeq(text', 1, 0))
    BY <1>1, <1>3 DEF Ahead
  <2>4. QED BY <1>1, <2>1, <2>2, <2>3, Zenon DEF AtRest, Begun
<1>7. Inside' /\ Between' /\ Over' /\ Done' /\ NotEnded'
  BY <1>1, <1>4 DEF Inside, Between, Over, Done, NotEnded
<1>8. QED BY <1>5, <1>6, <1>7 DEF StreamInv

\* Nothing that was written or resolved changes between two blocks.
LEMMA RestStream ==
  ASSUME IInv, StreamInv, Live, pc \in {"idle", "loop", "compress", "block"},
         pc' \in {"idle", "loop", "compress", "block"}, Live',
         UNCHANGED <<buf, remote, text, tokens, processed>>,
         given' \in Nat, given <= given'
  PROVE  StreamInv'
<1>1. /\ buf' = buf /\ remote' = remote /\ text' = text /\ tokens' = tokens
      /\ processed' = processed
  OBVIOUS
<1>2. OnlyGivenData /\ AtRest /\ NotEnded
  BY DEF StreamInv
<1>3. OnlyGivenData'
  <2>1. PICK n \in Nat, g \in Nat, h \in Nat :
          n = Len(remote.plain) /\ g = given /\ h = given' /\ n <= g /\ g <= h
    <3>1. Len(remote.plain) \in Nat
      BY DEF IInv, Types, Decoder
    <3>2. given \in Nat /\ Len(remote.plain) <= given
      BY <1>2, TypeFacts DEF OnlyGivenData, IInv
    <3>3. QED BY <3>1, <3>2
  <2>2. n <= h
    BY <2>1
  <2>3. QED BY <1>1, <1>2, <2>1, <2>2 DEF OnlyGivenData, Sound
<1>4. AtRest'
  BY <1>1, <1>2 DEF AtRest, Ahead, Begun
<1>5. Inside' /\ Between' /\ Over' /\ Done'
  BY DEF Inside, Between, Over, Done
<1>6. NotEnded'
  BY <1>1, <1>2 DEF NotEnded
<1>7. QED BY <1>3, <1>4, <1>5, <1>6 DEF StreamInv

\* A call begins.
LEMMA CallStream ==
  ASSUME Orderly, IInv, StreamInv, UNCHANGED dynVars,
         (\E n \in WriteSizes : CallWrite(n)) \/ CallFlush \/ CallClose
  PROVE  StreamInv'
<1>1. tokens' = tokens /\ processed' = processed
  BY DEF dynVars
<1>2. /\ pc = "idle" /\ pc' \in {"loop", "compress"} /\ ret.call # "close" /\ ret.err = "nil"
      /\ buf' = buf /\ remote' = remote /\ text' = text
  BY DEF CallWrite, CallFlush, CallClose, Usable, Orderly
<1>3. given' \in Nat /\ given <= given'
  <2>1. given \in Nat
    BY TypeFacts DEF IInv
  <2>2. given' = given \/ \E n \in Nat : given' = given + n
    BY WriterAssumption DEF CallWrite, CallFlush, CallClose
  <2>3. QED BY <2>1, <2>2
<1>4. Live /\ Live'
  BY <1>2 DEF Live
<1>5. QED BY <1>1, <1>2, <1>3, <1>4, RestStream

\* A call ends, or fails at once.
LEMMA ReturnStream ==
  ASSUME Orderly, IInv, StreamInv, UNCHANGED dynVars,
         \/ \E c \in {"write", "flush", "close"} : CallAfterError(c)
         \/ ReturnNil \/ ReturnError
  PROVE  StreamInv'
<1>1. tokens' = tokens /\ processed' = processed /\ text' = text /\ given' = given
      /\ buf' = buf /\ remote' = remote /\ pc' = "idle"
  BY DEF dynVars, CallAfterError, ReturnNil, ReturnError, Return, Usable
<1>2. OnlyGivenData'
  BY <1>1 DEF StreamInv, OnlyGivenData, Sound
<1>3. CASE \/ \E c \in {"write", "flush", "close"} : CallAfterError(c)
           \/ ReturnError
  <2>1. ret'.err # "nil"
    BY <1>3 DEF CallAfterError, ReturnError, Return
  <2>2. ~Live'
    BY <1>1, <2>1 DEF Live
  <2>3. QED BY <1>1, <1>2, <2>2 DEF StreamInv, AtRest, Inside, Between, Over, Done, NotEnded
<1>4. CASE ReturnNil /\ pc = "loop"
  <2>1. ret'.err = "nil" /\ ret'.call = "write"
    BY <1>4 DEF ReturnNil, Return, IInv, Calls
  <2>2. Live /\ Live'
    BY <1>1, <1>4, <2>1 DEF Live
  <2>3. given' \in Nat /\ given <= given'
    <3>1. PICK g \in Nat : g = given
      BY TypeFacts DEF IInv
    <3>2. g <= g
      OBVIOUS
    <3>3. QED BY <1>1, <3>1, <3>2
  <2>4. QED BY <1>1, <1>4, <2>2, <2>3, RestStream
<1>5. CASE ReturnNil /\ pc = "done"
  <2>1. ret'.err = "nil" /\ ret'.call = call /\ call \in {"flush", "close"}
    BY <1>5 DEF ReturnNil, Return, IInv, Types, Calls
  <2>2. Inside' /\ Between' /\ Over' /\ Done'
    BY <1>1 DEF Inside, Between, Over, Done
  <2>3. CASE call = "close"
    <3>1. ~Live'
      BY <1>1, <2>1, <2>3 DEF Live
    <3>2. QED BY <1>1, <1>2, <2>2, <3>1 DEF StreamInv, AtRest, NotEnded
  <2>4. CASE call = "flush"
    <3>1. /\ tokens = <<>> /\ processed = given /\ buf.out = <<>> /\ buf.bits = <<>>
          /\ AtBlock(remote, Begun(given)) /\ remote.mode # "end"
      BY <1>5, <2>4 DEF StreamInv, Done, NotEnded, Live
    <3>2. text \in Seq(0..255) /\ given \in 0..Len(text) /\ remote \in Decoder
      BY TypeFacts DEF IInv, Types
    <3>3. Spelled(text, <<>>, given, given)
      BY <3>2, SpelledNone
    <3>4. Ahead = remote
      <4>1. Stream(buf) = <<>>
        BY <3>1 DEF Stream
      <4>2. QED BY <3>2, <4>1, FeedEmpty DEF Ahead
    <3>5. Ahead' = Ahead
      BY <1>1 DEF Ahead
    <3>6. NotEob(<<>>)
      BY DEF NotEob
    <3>7. AtRest'
      <4>1. Spelled(text', tokens', given, processed') /\ AtBlock(Ahead', SubSeq(text', 1, given))
        BY <1>1, <3>1, <3>3, <3>4, <3>5 DEF Begun
      <4>2. QED BY <1>1, <3>1, <3>6, <4>1 DEF AtRest, Begun
    <3>8. NotEnded'
      BY <1>1, <3>1 DEF NotEnded
    <3>9. QED BY <1>2, <2>2, <3>7, <3>8 DEF StreamInv
  <2>5. QED BY <2>1, <2>3, <2>4
<1>6. QED BY <1>3, <1>4, <1>5 DEF ReturnNil

LEMMA SameStream ==
  ASSUME StreamInv, UNCHANGED vars
  PROVE  StreamInv'
<1>1. /\ pc' = pc /\ call' = call /\ remote' = remote /\ text' = text /\ given' = given
      /\ ret' = ret /\ buf' = buf /\ processed' = processed /\ tokens' = tokens
      /\ tk' = tk /\ last' = last
  BY DEF vars, apiVars, clientVars, dynVars
<1>2. Ahead' = Ahead /\ Live' = Live
  BY <1>1 DEF Ahead, Live
<1>3. OnlyGivenData' /\ AtRest' /\ Done' /\ NotEnded'
  BY <1>1, <1>2 DEF StreamInv, OnlyGivenData, Sound, AtRest, Done, NotEnded, Begun
<1>4. Inside'
  BY <1>1, <1>2 DEF StreamInv, Inside, Begun
<1>5. Between' /\ Over'
  BY <1>1, <1>2 DEF StreamInv, Between, Over, Begun
<1>6. QED BY <1>3, <1>4, <1>5 DEF StreamInv

\* Data comes into the window, or generate has nothing more to do.
LEMMA WaitStream ==
  ASSUME IInv, StreamInv, Accumulate \/ Generated
  PROVE  StreamInv'
<1>1. /\ pc \in {"loop", "compress"} /\ pc' \in {"loop", "compress", "block"}
      /\ tokens' = tokens /\ processed' = processed /\ text' = text /\ given' = given
      /\ buf' = buf /\ remote' = remote
  BY DEF Accumulate, Generated, Generating, clientVars, dynVars
<1>2. Live /\ Live'
  BY <1>1 DEF Live
<1>3. PICK g \in Nat : g = given /\ g <= g
  BY TypeFacts DEF IInv
<1>4. QED BY <1>1, <1>2, <1>3, RestStream

\* generate resolves bytes.
LEMMA ResolvedStream ==
  ASSUME IInv, StreamInv, Generating, NEW n, NEW ts, Resolved(n, ts), Resolve(n, ts),
         n \in Nat \ {0}
  PROVE  StreamInv'
<1>1. /\ pc = "compress" /\ pc' \in {"compress", "block"} /\ tokens' = tokens \o ts
      /\ processed' = processed + n /\ text' = text /\ given' = given
      /\ buf' = buf /\ remote' = remote
  BY DEF Resolve, Generating, clientVars
<1>2. Live /\ Live' /\ Ahead' = Ahead
  BY <1>1 DEF Live, Ahead
<1>3. /\ OnlyGivenData /\ AtRest /\ NotEnded /\ tokens \in Seq(Tokens)
      /\ text \in Seq(0..255) /\ processed \in Nat
  BY TypeFacts DEF StreamInv, IInv, Types
<1>4. /\ ts \in Seq(Tokens) /\ NotEob(ts)
      /\ Spelled(text, ts, processed, processed + n)
  BY DEF Resolved
<1>5. PICK a : Spelled(text, tokens, a, processed) /\ AtBlock(Ahead, Begun(a))
  BY <1>1, <1>2, <1>3 DEF AtRest
<1>6. Spelled(text, tokens \o ts, a, processed + n)
  BY <1>3, <1>4, <1>5, SpelledTwice
<1>7. NotEob(tokens \o ts)
  <2>1. PICK l \in Nat, m \in Nat : l = Len(tokens) /\ m = Len(ts)
    BY <1>3, <1>4
  <2>2. /\ Len(tokens \o ts) = l + m
        /\ \A i \in 1..l : (tokens \o ts)[i] = tokens[i]
        /\ \A i \in 1..m : (tokens \o ts)[l + i] = ts[i]
    BY <1>3, <1>4, <2>1, Concatenated
  <2>3. NotEob(tokens)
    BY <1>1, <1>2, <1>3 DEF AtRest
  <2>4. PICK v : v = tokens \o ts
    OBVIOUS
  <2>5. ASSUME NEW i \in 1..(l + m) PROVE v[i] # EobToken
    <3>1. i \in 1..l \/ \E j \in 1..m : i = l + j
      <4>1. i \in 1..l \/ (i - l \in 1..m /\ i = l + (i - l))
        OBVIOUS
      <4>2. QED BY <4>1
    <3>2. QED BY <1>4, <2>1, <2>2, <2>3, <2>4, <3>1 DEF NotEob
  <2>6. QED BY <2>2, <2>4, <2>5 DEF NotEob
<1>8. processed' # 0
  BY <1>1, <1>3
<1>9. AtRest'
  <2>1. Spelled(text', tokens', a, processed') /\ AtBlock(Ahead', SubSeq(text', 1, a))
    BY <1>1, <1>2, <1>5, <1>6 DEF Begun
  <2>2. buf'.out = <<>>
    BY <1>1, <1>2, <1>3 DEF AtRest
  <2>3. QED BY <1>1, <1>7, <1>8, <2>1, <2>2, Zenon DEF AtRest, Begun
<1>10. OnlyGivenData' /\ NotEnded'
  BY <1>1, <1>2, <1>3 DEF OnlyGivenData, Sound, NotEnded
<1>11. Inside' /\ Between' /\ Over' /\ Done'
  BY <1>1 DEF Inside, Between, Over, Done
<1>12. QED BY <1>9, <1>10, <1>11 DEF StreamInv

LEMMA GenerateStream ==
  ASSUME IInv, StreamInv, GenLiteral \/ GenTail \/ GenMatch
  PROVE  StreamInv'
<1>1. Generating /\ pc = "compress"
  BY DEF GenLiteral, GenTail, GenMatch, Generating
<1>2. Types /\ WindowInv /\ InStep
  BY <1>1 DEF IInv, Calls, InStep
<1>3. CASE GenLiteral \/ GenTail
  <2>1. Resolve(1, <<Lit(At(idx))>>)
    BY <1>3 DEF GenLiteral, GenTail
  <2>2. idx < End
    <3>1. PICK i \in Nat, e \in Nat, w \in Nat : i = idx /\ e = End /\ w = Word
      BY <1>2, TypeFacts, Sizes
    <3>2. i < e - w \/ i < e
      BY <1>3, <3>1 DEF GenLiteral, GenTail
    <3>3. QED BY <3>1, <3>2
  <2>3. Resolved(1, <<Lit(At(idx))>>)
    BY <1>2, <2>2, OneLiteral
  <2>4. QED BY <1>1, <2>1, <2>3, ResolvedStream
<1>4. CASE GenMatch
  <2>1. PICK k, m, d : MatchRun(k, m, d)
    BY <1>4, GenMatchFacts
  <2>2. PICK n \in Nat \ {0} : \E ts : Resolved(n, ts) /\ Resolve(n, ts)
    BY <1>2, <2>1, MatchResolved
  <2>3. QED BY <1>1, <2>2, ResolvedStream
<1>5. QED BY <1>3, <1>4

\* What is processed is data that was given.
LEMMA ProcessedFacts ==
  ASSUME IInv, pc \notin {"idle", "failed"}
  PROVE  /\ processed \in 0..given /\ processed \in 0..Len(text) /\ processed \in Nat
         /\ given \in 0..Len(text) /\ text \in Seq(0..255)
         /\ idx = End /\ todo = 0 => processed = given
         /\ given - todo = 0 => processed = 0
<1>1. Types /\ WindowInv /\ InStep
  BY DEF IInv, Calls, InStep
<1>2. PICK p \in Nat, g \in Nat, l \in Nat, i \in Nat, e \in Nat, t \in Nat :
        /\ p = processed /\ g = given /\ l = Len(text) /\ i = idx /\ e = End /\ t = todo
        /\ g <= l /\ t <= g /\ i <= e
  BY <1>1, TypeFacts
<1>3. (g - t) - p = e - i /\ e <= g - t
  BY <1>1, <1>2 DEF WindowInv, Taken
<1>4. /\ p \in 0..g /\ p \in 0..l /\ g \in 0..l
      /\ i = e /\ t = 0 => p = g
      /\ g - t = 0 => p = 0
  BY <1>2, <1>3
<1>5. text \in Seq(0..255)
  BY <1>1, TypeFacts
<1>6. QED BY <1>2, <1>4, <1>5, Zenon

LEMMA BlockHeaderStream ==
  ASSUME NEW h \in HdrWidths, NEW l \in LitWidths, NEW d \in DistWidths,
         BlockHeader(h, l, d), IInv, StreamInv
  PROVE  StreamInv'
<1>1. PICK f \in {0, 1} : f = IF last' THEN 1 ELSE 0
  OBVIOUS
<1>2. PICK b : b = WriteBit(WriteBit(Rewound(buf), <<f, 0, 1>>), Field(h, Codes))
  OBVIOUS
<1>3. /\ pc = "block" /\ tokens' = Append(tokens, EobToken) /\ tk' = 0
      /\ buf' = Entering(b) /\ pc' = "tokens" /\ remote' = remote
      /\ text' = text /\ given' = given /\ processed' = processed
  BY <1>1, <1>2 DEF BlockHeader, clientVars
<1>4. Live /\ Live'
  BY <1>3 DEF Live
<1>5. OnlyGivenData /\ AtRest /\ NotEnded
  BY DEF StreamInv
<1>6. /\ processed \in 0..Len(text) /\ text \in Seq(0..255) /\ tokens \in Seq(Tokens)
      /\ Len(tokens) \in Nat /\ BufOK(buf) /\ remote \in Decoder
  <2>1. processed \in 0..Len(text) /\ text \in Seq(0..255)
    BY <1>3, ProcessedFacts
  <2>2. tokens \in Seq(Tokens) /\ Len(tokens) \in Nat /\ BufOK(buf) /\ remote \in Decoder
    BY TypeFacts DEF IInv, Types
  <2>3. QED BY <2>1, <2>2
<1>7. PICK a : Spelled(text, tokens, a, processed) /\ AtBlock(Ahead, Begun(a))
  BY <1>3, <1>4, <1>5 DEF AtRest
<1>8. NotEob(tokens) /\ buf.out = <<>>
  BY <1>3, <1>4, <1>5 DEF AtRest
<1>9. PICK s \in Seq(Nat), n \in Nat \ {0}, u \in Seq(Nat) :
        /\ s = Stream(buf) /\ n = h /\ u = <<f, 0, 1>> \o Field(n, Codes)
        /\ BufOK(b) /\ Stream(b) = s \o u
  <2>1. BufOK(Rewound(buf)) /\ Stream(Rewound(buf)) = buf.bits
    BY <1>6, RewoundFacts
  <2>2. Stream(buf) \in Seq(Nat) /\ Stream(buf) = buf.bits
    <3>1. Stream(buf) \in Seq(Nat) /\ buf.bits \in Seq(Nat)
      BY <1>6, StreamFacts DEF BufOK
    <3>2. QED BY <1>8, <3>1 DEF Stream
  <2>3. PICK n \in Nat \ {0} : n = h /\ n <= RegBits
    BY Widths
  <2>4. HeaderIn(Rewound(buf), b, f, n)
    BY <1>2, <2>1, <2>3, HeaderWritten
  <2>5. QED BY <2>1, <2>2, <2>3, <2>4, Zenon DEF HeaderIn
<1>10. InBlock(Ahead', Begun(a), f)
  <2>1. Stream(buf') = s \o u
    BY <1>3, <1>9, EnteringFacts
  <2>2. Feed(remote, s \o u) = Feed(Ahead, u)
    BY <1>6, <1>9, FeedConcat DEF Ahead
  <2>3. InBlock(Feed(Ahead, u), Begun(a), f)
    BY <1>7, <1>9, HeaderFed
  <2>4. QED BY <1>3, <2>1, <2>2, <2>3 DEF Ahead
<1>11. PICK v : v = Append(tokens, EobToken)
  OBVIOUS
<1>12. /\ v \in Seq(Tokens) /\ Len(v) = Len(tokens) + 1 /\ v[Len(tokens) + 1] = EobToken
       /\ \A i \in 1..Len(tokens) : v[i] = tokens[i]
  BY <1>6, <1>11, TokenTypes, AppendToken
<1>13. EobLast(v)
  <2>1. PICK m \in Nat : m = Len(tokens)
    BY <1>6
  <2>2. ASSUME NEW i \in 1..(m + 1) PROVE v[i] = EobToken <=> i = m + 1
    <3>1. i = m + 1 \/ (i \in 1..m /\ i # m + 1)
      OBVIOUS
    <3>2. QED BY <1>8, <1>12, <2>1, <3>1 DEF NotEob
  <2>3. QED BY <1>12, <2>1, <2>2 DEF EobLast
<1>14. Spelled(text, v, a, processed)
  <2>1. Stands(EobToken, text, processed, processed)
    BY DEF Stands
  <2>2. QED BY <1>6, <1>7, <1>11, <2>1, TokenTypes, SpelledMore
<1>15. PICK c : Spells(c, text, v) /\ c[0] = a /\ c[Len(v)] = processed
  BY <1>14 DEF Spelled
<1>16. Inside'
  <2>1. InBlock(Ahead', SubSeq(text, 1, c[0]), IF last' THEN 1 ELSE 0)
    BY <1>1, <1>10, <1>15 DEF Begun
  <2>2. QED BY <1>3, <1>11, <1>13, <1>15, <2>1 DEF Inside, Begun
<1>17. OnlyGivenData' /\ NotEnded'
  BY <1>3, <1>4, <1>5 DEF OnlyGivenData, Sound, NotEnded
<1>18. AtRest' /\ Between' /\ Over' /\ Done'
  BY <1>3 DEF AtRest, Between, Over, Done
<1>19. QED BY <1>16, <1>17, <1>18 DEF StreamInv

\* What a decoder makes of a token.
Reads(t, r, a, e, f) ==
  LET q == Feed(r, TokenBits(t)) IN
  IF t # EobToken THEN InBlock(q, Begun(e), f)
  ELSE IF f = 1 THEN AtEnd(q, Begun(e)) ELSE AtBlock(q, Begun(e))

LEMMA TokenRead ==
  ASSUME NEW t \in Tokens, Symbols(t) \subseteq hist, text \in Seq(0..255),
         code.lit \in LitWidths, code.dist \in DistWidths,
         NEW r, NEW a \in 0..Len(text), NEW e \in 0..Len(text), NEW f,
         InBlock(r, Begun(a), f), Stands(t, text, a, e)
  PROVE  Reads(t, r, a, e, f)
<1>1. PICK w \in Nat \ {0}, v \in Nat \ {0} : w = code.lit /\ v = code.dist
  BY Widths
<1>2. LitSymbol(t) \in hist
  BY DEF Symbols
<1>3. PICK q : q = Feed(r, TokenBits(t))
  OBVIOUS
<1>4. CASE t = EobToken /\ e = a
  <2>1. TokenBits(t) = Field(w, EndOfBlock)
    <3>1. t.len = 0
      BY <1>4 DEF EobToken
    <3>2. LiteralField(t) = CodeOf(LitSymbol(t), code.lit, EndOfBlock)
      BY <1>4 DEF LiteralField
    <3>3. QED BY <1>1, <1>2, <3>1, <3>2 DEF TokenBits, CodeOf
  <2>2. IF f = 1 THEN AtEnd(q, Begun(a)) ELSE AtBlock(q, Begun(a))
    BY <1>3, <2>1, EndFed
  <2>3. QED BY <1>3, <1>4, <2>2 DEF Reads
<1>5. CASE \E k \in 0..255 : t = Lit(k) /\ e = a + 1 /\ text[e] = k
  <2>1. PICK k \in 0..255 : t = Lit(k) /\ e = a + 1 /\ text[e] = k
    BY <1>5
  <2>2. t # EobToken /\ t.len = 0 /\ t.lit = k
    BY <2>1, NoEob DEF Lit
  <2>3. TokenBits(t) = Field(w, LitBit(k))
    <3>1. LiteralField(t) = CodeOf(LitSymbol(t), code.lit, LitBit(k))
      BY <2>2 DEF LiteralField
    <3>2. QED BY <1>1, <1>2, <2>2, <3>1 DEF TokenBits, CodeOf
  <2>4. InBlock(q, Append(Begun(a), k), f)
    BY <1>3, <2>3, LiteralFed
  <2>5. Append(Begun(a), k) = Begun(e)
    <3>1. PICK x \in Seq(0..255), l \in Nat, m \in Nat : x = text /\ l = Len(x) /\ m = a
      OBVIOUS
    <3>2. m + 1 <= l
      BY <2>1, <3>1
    <3>3. Append(SubSeq(x, 1, m), x[m + 1]) = SubSeq(x, 1, m + 1)
      BY <3>1, <3>2, NextByte
    <3>4. QED BY <2>1, <3>1, <3>3, Zenon DEF Begun
  <2>6. QED BY <1>3, <2>2, <2>4, <2>5 DEF Reads
<1>6. CASE t.len > 0 /\ t.dist <= a /\ e = a + t.len /\ Repeats(text, a, t.len, t.dist)
  <2>1. PICK l \in 1..258, d \in 1..WindowSize : l = t.len /\ d = t.dist /\ d <= a
    <3>1. t.len \in 1..MaxMatch /\ t.dist \in 1..WindowSize
      BY <1>6 DEF Tokens
    <3>2. t.len \in 1..258
      <4>1. PICK x \in Nat : x = MaxMatch /\ x <= 258
        BY Sizes
      <4>2. \A y \in 1..x : y \in 1..258
        BY <4>1
      <4>3. QED BY <3>1, <4>1, <4>2, Zenon
    <3>3. QED BY <1>6, <3>1, <3>2
  <2>2. t # EobToken /\ t.len # 0
    <3>1. l # 0
      OBVIOUS
    <3>2. EobToken.len = 0
      BY DEF EobToken
    <3>3. QED BY <2>1, <3>1, <3>2, Zenon
  <2>3. PICK n \in Nat : n = DistSymbol(d).extra
    BY Widths
  <2>4. <<"dist", DistSymbol(d).sym>> \in hist
    BY <1>6, <2>1 DEF Symbols
  <2>5. TokenBits(t) = MatchFields(w, v, n, d, l)
    <3>1. LengthField(t) = Field(w, LenBit(l))
      BY <1>1, <1>2, <2>1 DEF LengthField, CodeOf
    <3>2. DistField(t) = Field(v, IF n = 0 THEN DistBit(d) ELSE Part)
      BY <1>1, <2>1, <2>3, <2>4 DEF DistField, CodeOf
    <3>3. ExtraField(t) = Field(n, DistBit(d))
      BY <2>1, <2>3, <2>4 DEF ExtraField
    <3>4. QED BY <2>2, <3>1, <3>2, <3>3, Zenon DEF TokenBits, MatchFields
  <2>6. PICK x \in Seq(0..255), m \in Nat : x = text /\ m = a /\ m \in 0..Len(x)
    OBVIOUS
  <2>7. PICK p \in Seq(Nat) : p = SubSeq(x, 1, m) /\ Len(p) = m
    BY <2>6, Prefix
  <2>8. d \in 1..Len(p) /\ d \in Nat \ {0}
    <3>1. d \in Nat /\ d >= 1
      BY Sizes
    <3>2. QED BY <2>1, <2>6, <2>7, <3>1
  <2>9. InBlock(q, Copied(p, d, l), f)
    <3>1. InBlock(r, p, f)
      BY <2>6, <2>7 DEF Begun
    <3>2. QED BY <1>3, <2>5, <2>8, <3>1, MatchFed
  <2>10. Copied(p, d, l) = SubSeq(x, 1, m + l)
    <3>1. m + l <= Len(x)
      BY <1>6, <2>1, <2>6
    <3>2. Repeats(x, m, l, d) /\ d <= m
      BY <1>6, <2>1, <2>6
    <3>3. l \in Nat
      OBVIOUS
    <3>4. QED BY <2>7, <2>8, <3>1, <3>2, <3>3, CopiedText
  <2>11. m + l = e
    BY <1>6, <2>1, <2>6
  <2>12. QED BY <1>3, <2>2, <2>6, <2>9, <2>10, <2>11 DEF Reads, Begun
<1>7. QED BY <1>4, <1>5, <1>6, Zenon DEF Stands

LEMMA EncodeTokenStream ==
  ASSUME Orderly, EncodeToken, IInv, StreamInv
  PROVE  StreamInv'
<1>1. PICK t : t = tokens[tk + 1]
  OBVIOUS
<1>2. PICK b : b = WriteToken(buf, t)
  OBVIOUS
<1>3. PICK done : done = (tk + 1 = Len(tokens))
  OBVIOUS
<1>4. /\ pc = "tokens" /\ tk' = tk + 1
      /\ buf' = (IF done /\ last THEN FlushLastByte(b) ELSE b)
      /\ pc' \in {"out", "tokens"} /\ (done => pc' = "out") /\ remote' = remote
      /\ text' = text /\ given' = given /\ processed' = processed
      /\ tokens' = tokens /\ last' = last
  BY <1>1, <1>2, <1>3 DEF EncodeToken, clientVars
<1>5. PICK f \in {0, 1} : f = IF last THEN 1 ELSE 0
  OBVIOUS
<1>6. /\ Types /\ Calls /\ BufOK(buf) /\ remote \in Decoder /\ remote.n = 0
      /\ text \in Seq(0..255) /\ tokens \in Seq(Tokens)
      /\ code.lit \in LitWidths /\ code.dist \in DistWidths
  BY <1>4, TypeFacts DEF IInv, Types, Calls
<1>7. PICK n \in Nat, k \in Nat : n = Len(tokens) /\ k = tk /\ k + 1 \in 1..n /\ t \in Tokens
  BY <1>1, <1>4, <1>6, NextToken, TypeFacts
<1>8. PICK c : /\ Spells(c, text, tokens) /\ c[n] = processed
               /\ InBlock(Ahead, Begun(c[k]), f) /\ EobLast(tokens)
  BY <1>4, <1>5, <1>7 DEF StreamInv, Inside
<1>9. Stands(t, text, c[k], c[k + 1]) /\ c[k] \in 0..Len(text) /\ c[k + 1] \in 0..Len(text)
  <2>1. (k + 1) - 1 = k /\ k \in 0..n /\ k + 1 \in 0..n
    BY <1>7
  <2>2. QED BY <1>1, <1>7, <1>8, <2>1 DEF Spells
<1>10. Symbols(t) \subseteq hist
  BY <1>1, <1>7 DEF IInv, CodedInv, Orderly
<1>11. Reads(t, Ahead, c[k], c[k + 1], f)
  BY <1>6, <1>7, <1>8, <1>9, <1>10, TokenRead
<1>12. t = EobToken <=> done
  BY <1>1, <1>3, <1>7, <1>8 DEF EobLast
<1>13. PICK a : a = Feed(remote, Stream(b))
  OBVIOUS
<1>14. BufOK(b) /\ Stream(b) \in Seq(Nat) /\ a = Feed(Ahead, TokenBits(t))
  <2>1. TokenIn(buf, t)
    BY <1>6, <1>7, TokenWritten
  <2>2. PICK s \in Seq(Nat), u \in Seq(Nat) :
          s = Stream(buf) /\ u = TokenBits(t) /\ Stream(b) = s \o u /\ BufOK(b)
    <3>1. Stream(buf) \in Seq(Nat)
      BY <1>6, StreamFacts DEF BufOK
    <3>2. QED BY <1>2, <2>1, <3>1, Zenon DEF TokenIn
  <2>3. Feed(remote, s \o u) = Feed(Feed(remote, s), u)
    BY <1>6, FeedConcat
  <2>4. s \o u \in Seq(Nat)
    BY Join
  <2>5. QED BY <1>13, <2>2, <2>3, <2>4 DEF Ahead
<1>15. tk' # 0 /\ (tk' = Len(tokens') <=> done) /\ (~done => tk' < Len(tokens') /\ tk' > 0)
  <2>1. k + 1 # 0 /\ (k + 1 # n => k + 1 < n /\ k + 1 > 0)
    BY <1>7
  <2>2. QED BY <1>3, <1>4, <1>7, <2>1, Zenon
<1>16. Inside'
  <2>1. SUFFICES ASSUME ~done
                 PROVE  \E y : /\ Spells(y, text', tokens') /\ y[Len(tokens')] = processed'
                               /\ InBlock(Ahead', SubSeq(text', 1, y[tk']), IF last' THEN 1 ELSE 0)
    <3>1. done => ~(pc' = "tokens" \/ (pc' = "out" /\ tk' > 0 /\ tk' < Len(tokens')))
      <4>1. done => ~(tk' < Len(tokens'))
        <5>1. ~(k + 1 < k + 1)
          OBVIOUS
        <5>2. QED BY <1>3, <1>4, <1>7, <5>1, Zenon
      <4>2. QED BY <1>4, <4>1
    <3>2. EobLast(tokens')
      BY <1>4, <1>8
    <3>3. QED BY <2>1, <3>1, <3>2, Zenon DEF Inside, Begun
  <2>2. InBlock(a, Begun(c[k + 1]), f)
    BY <1>11, <1>12, <1>14, <2>1 DEF Reads
  <2>3. Ahead' = a
    BY <1>4, <1>13, <2>1 DEF Ahead
  <2>4. InBlock(Ahead', SubSeq(text', 1, c[tk']), IF last' THEN 1 ELSE 0)
    BY <1>4, <1>5, <1>7, <2>2, <2>3 DEF Begun
  <2>5. QED BY <1>4, <1>7, <1>8, <2>4, Zenon
<1>17. Between'
  <2>1. SUFFICES ASSUME done
                 PROVE  IF last' THEN AtEnd(Ahead', SubSeq(text', 1, processed')) /\ buf'.bits = <<>>
                        ELSE AtBlock(Ahead', SubSeq(text', 1, processed'))
    BY <1>15, <2>1, Zenon DEF Between, Begun
  <2>2. c[k + 1] = processed
    BY <1>3, <1>7, <1>8, <2>1
  <2>3. IF f = 1 THEN AtEnd(a, Begun(processed)) ELSE AtBlock(a, Begun(processed))
    BY <1>11, <1>12, <1>14, <2>1, <2>2 DEF Reads
  <2>4. CASE last
    <3>1. AtEnd(a, Begun(processed)) /\ buf' = FlushLastByte(b)
      BY <1>4, <1>5, <2>1, <2>3, <2>4
    <3>2. b \in Buffers /\ Len(b.out) % 8 = 0
      BY <1>14 DEF BufOK
    <3>3. /\ buf'.bits = <<>>
          /\ Stream(buf') = Stream(b) \o Zeros(Missing(Len(Stream(b))))
      BY <3>1, <3>2, FlushLastByteFacts
    <3>4. AtEnd(Feed(remote, Stream(b) \o Zeros(Missing(Len(Stream(b))))), Begun(processed))
      BY <1>6, <1>13, <1>14, <3>1, PaddingRead
    <3>5. AtEnd(Ahead', Begun(processed))
      BY <1>4, <3>3, <3>4 DEF Ahead
    <3>6. QED BY <1>4, <2>4, <3>3, <3>5 DEF Begun
  <2>5. CASE ~last
    <3>1. AtBlock(a, Begun(processed)) /\ Ahead' = a
      BY <1>4, <1>5, <1>13, <2>3, <2>5 DEF Ahead
    <3>2. QED BY <1>4, <2>5, <3>1 DEF Begun
  <2>6. QED BY <2>4, <2>5
<1>18. OnlyGivenData' /\ NotEnded'
  BY <1>4 DEF StreamInv, OnlyGivenData, Sound, NotEnded, Live
<1>19. AtRest' /\ Over' /\ Done'
  BY <1>4, <1>15 DEF AtRest, Over, Done
<1>20. QED BY <1>16, <1>17, <1>18, <1>19 DEF StreamInv

\* What the decoder will have read when all is sent.
LEMMA OutAhead ==
  ASSUME IInv, StreamInv, pc = "out"
  PROVE  \E k \in 0..given :
           /\ SoundMode(Ahead) /\ Ahead.plain = Begun(k)
           /\ Ahead.mode = "end" => k = given /\ (tk = 0 \/ tk = Len(tokens)) /\ (tk > 0 => last)
<1>1. /\ Inside /\ Between /\ Over /\ processed \in 0..given
      /\ given \in Nat /\ tk \in Nat /\ Len(tokens) \in Nat /\ tk <= Len(tokens)
      /\ text \in Seq(0..255) /\ tokens \in Seq(Tokens)
  <2>1. given \in Nat /\ tk \in Nat /\ Len(tokens) \in Nat /\ tk <= Len(tokens)
    BY TypeFacts DEF IInv
  <2>2. processed \in 0..given /\ text \in Seq(0..255)
    BY ProcessedFacts
  <2>3. QED BY <2>1, <2>2 DEF StreamInv, IInv, Types
<1>2. CASE tk > 0 /\ tk < Len(tokens)
  <2>1. PICK c : /\ Spells(c, text, tokens) /\ c[Len(tokens)] = processed
                 /\ InBlock(Ahead, Begun(c[tk]), IF last THEN 1 ELSE 0)
    BY <1>1, <1>2 DEF Inside
  <2>2. c[tk] \in 0..given
    <3>1. tk \in 0..Len(tokens)
      BY <1>1
    <3>2. c[tk] <= processed
      BY <1>1, <2>1, <3>1, PlacesUpTo
    <3>3. c[tk] \in Nat
      BY <1>1, <2>1, <3>1 DEF Spells
    <3>4. PICK x \in Nat, p \in Nat, g \in Nat : x = c[tk] /\ p = processed /\ g = given /\ p <= g
      BY <1>1, <3>3
    <3>5. QED BY <3>2, <3>4
  <2>3. SoundMode(Ahead) /\ Ahead.plain = Begun(c[tk]) /\ Ahead.mode # "end"
    BY <2>1 DEF InBlock, SoundMode
  <2>4. QED BY <2>2, <2>3
<1>3. CASE tk > 0 /\ tk = Len(tokens)
  <2>1. IF last THEN AtEnd(Ahead, Begun(processed)) ELSE AtBlock(Ahead, Begun(processed))
    BY <1>1, <1>3 DEF Between
  <2>2. /\ SoundMode(Ahead) /\ Ahead.plain = Begun(processed)
        /\ (Ahead.mode = "end" => last)
    BY <2>1 DEF AtBlock, AtEnd, SoundMode
  <2>3. last => processed = given
    BY <1>3, ProcessedFacts DEF IInv, Calls, Last, Final
  <2>4. QED BY <1>1, <1>3, <2>2, <2>3
<1>4. CASE tk = 0
  <2>1. AtBlock(Ahead, Begun(given)) \/ AtEnd(Ahead, Begun(given))
    BY <1>1, <1>4 DEF Over
  <2>2. SoundMode(Ahead) /\ Ahead.plain = Begun(given)
    BY <2>1 DEF AtBlock, AtEnd, SoundMode
  <2>3. given \in 0..given /\ ~(tk > 0)
    BY <1>1, <1>4
  <2>4. QED BY <1>4, <2>2, <2>3
<1>5. QED BY <1>1, <1>2, <1>3, <1>4

\* The underlying writer takes s.
SentPart(a) ==
  /\ SoundMode(a) /\ Len(a.plain) \in Len(remote.plain)..given
  /\ a.plain = Begun(Len(a.plain))
  /\ a.mode = "end" => /\ Len(a.plain) = given
                       /\ Ahead.mode = "end" /\ (tk = 0 \/ tk = Len(tokens)) /\ (tk > 0 => last)

LEMMA SinkStep ==
  ASSUME IInv, StreamInv, pc = "out",
         NEW s \in Seq(Nat), NEW u \in Seq(Nat), s \o u = Stream(buf),
         NEW a, a = Feed(remote, s)
  PROVE  SentPart(a)
<1>1. PICK k \in 0..given :
        /\ SoundMode(Ahead) /\ Ahead.plain = Begun(k)
        /\ Ahead.mode = "end" => k = given /\ (tk = 0 \/ tk = Len(tokens)) /\ (tk > 0 => last)
  BY OutAhead
<1>2. PICK t \in Seq(0..255), r \in Decoder, g \in Nat :
        t = text /\ r = remote /\ g = given /\ g <= Len(t)
  <2>1. text \in Seq(0..255) /\ given \in Nat
    BY TypeFacts DEF IInv
  <2>2. remote \in Decoder /\ given <= Len(text)
    BY <2>1 DEF IInv, Types
  <2>3. QED BY <2>1, <2>2
<1>3. k \in 0..Len(t)
  BY <1>2
<1>4. Ahead = Feed(r, s \o u)
  BY <1>2 DEF Ahead
<1>5. ReadsPart(r, s, u, t, k)
  BY <1>1, <1>2, <1>4, Zenon DEF ReadsPart, Begun
<1>6. /\ SoundMode(Feed(r, s)) /\ Len(Feed(r, s).plain) \in Len(r.plain)..k
      /\ Feed(r, s).plain = SubSeq(t, 1, Len(Feed(r, s).plain))
      /\ Feed(r, s).mode = "end"
           => Feed(r, s \o u).mode = "end" /\ Len(Feed(r, s).plain) = k
  <2>1. ReadsLess(r, s, u, t, k)
    BY <1>3, <1>5, Delivered, Zenon
  <2>2. QED BY <2>1, Zenon DEF ReadsLess
<1>7. a = Feed(r, s)
  BY <1>2
<1>8. Len(a.plain) \in Len(remote.plain)..given
  <2>1. PICK x \in Int, y \in Int : x = Len(a.plain) /\ y = Len(r.plain) /\ x \in y..k
    BY <1>2, <1>6, <1>7 DEF Decoder
  <2>2. x \in y..g
    BY <1>2, <2>1
  <2>3. QED BY <1>2, <2>1, <2>2
<1>9. QED BY <1>1, <1>2, <1>4, <1>6, <1>7, <1>8, Zenon DEF SentPart, Begun

\* It takes all of output.
LEMMA OutTaken ==
  ASSUME IInv, StreamInv, pc = "out", NEW a, a = Feed(remote, buf.out)
  PROVE  /\ a \in Decoder /\ a.n = 0 /\ Feed(a, buf.bits) = Ahead
         /\ buf.bits = <<>> => a = Ahead
         /\ SentPart(a)
<1>1. PICK o \in Seq(Nat), u \in Seq(Nat), r \in Decoder :
        /\ o = buf.out /\ u = buf.bits /\ r = remote /\ r.n = 0 /\ Len(o) % 8 = 0
  <2>1. buf.out \in Seq(Nat) /\ buf.bits \in Seq(Nat)
    BY TypeFacts DEF IInv
  <2>2. remote \in Decoder /\ remote.n = 0 /\ Len(buf.out) % 8 = 0
    BY DEF IInv, Types, BufOK
  <2>3. QED BY <2>1, <2>2
<1>2. a = Feed(r, o) /\ a \in Decoder /\ a.n = 0
  BY <1>1, WholeBytes
<1>3. Feed(r, o \o u) = Feed(a, u)
  BY <1>2, FeedConcat
<1>4. Feed(a, u) = Ahead
  BY <1>1, <1>3 DEF Ahead, Stream
<1>5. u = <<>> => a = Ahead
  BY <1>2, <1>4, FeedEmpty
<1>6. SentPart(a)
  <2>1. o \o u = Stream(buf)
    BY <1>1 DEF Stream
  <2>2. a = Feed(remote, o)
    BY <1>1
  <2>3. QED BY <2>1, <2>2, SinkStep
<1>7. QED BY <1>1, <1>2, <1>4, <1>5, <1>6, Zenon

\* It takes a part of output, or nothing, and fails.
LEMMA PartSent ==
  ASSUME OutFails, IInv, StreamInv
  PROVE  SentPart(remote')
<1>1. pc = "out" /\ Types
  BY DEF OutFails, IInv
<1>2. PICK n \in {0, Len(buf.out) \div 16} : SinkFails(n)
  BY DEF OutFails
<1>3. 8 * n \in 0..Len(buf.out) /\ remote' = Feed(remote, SubSeq(buf.out, 1, 8 * n))
  BY <1>1, <1>2, FailedBytes
<1>4. PICK o \in Seq(Nat), u \in Seq(Nat) : o = buf.out /\ u = buf.bits
  BY <1>1, TypeFacts
<1>5. PICK j \in 0..Len(o) : j = 8 * n
  BY <1>3, <1>4
<1>6. o = buf.out /\ u = buf.bits /\ j = 8 * n
  BY <1>4, <1>5
<1>7. PICK s \in Seq(Nat), v \in Seq(Nat) : s = SubSeq(o, 1, j) /\ s \o v = o
  <2>1. /\ SubSeq(o, 1, j) \in Seq(Nat) /\ SubSeq(o, j + 1, Len(o)) \in Seq(Nat)
        /\ SubSeq(o, 1, j) \o SubSeq(o, j + 1, Len(o)) = o
    BY Split
  <2>2. QED BY <2>1, Zenon
<1>8. PICK a : a = Feed(remote, s) /\ remote' = a
  BY <1>3, <1>6, <1>7
<1>9. PICK w \in Seq(Nat) : w = v \o u
  BY Join
<1>10. s \o w = Stream(buf)
  <2>1. (s \o v) \o u = s \o (v \o u)
    BY Assoc
  <2>2. QED BY <1>6, <1>7, <1>9, <2>1 DEF Stream
<1>11. SentPart(a)
  BY <1>1, <1>8, <1>10, SinkStep
<1>12. QED BY <1>8, <1>11, Zenon

\* What has been sent stays data that was given.
LEMMA SentData ==
  ASSUME NEW a, SentPart(a), remote' = a, text' = text, given' = given
  PROVE  OnlyGivenData'
BY DEF SentPart, OnlyGivenData, Sound, SoundMode, Begun

\* A part of a block has been taken, and the block goes on.
LEMMA PartTakenStream ==
  ASSUME BlockTaken, IInv, StreamInv, tk < Len(tokens)
  PROVE  StreamInv'
<1>1. /\ pc = "out" /\ tk > 0 /\ remote' = Feed(remote, buf.out)
      /\ buf' = Entering(Rewound(buf)) /\ pc' = "tokens" /\ tokens' = tokens /\ tk' = tk
      /\ text' = text /\ given' = given /\ processed' = processed /\ last' = last
  BY DEF BlockTaken, SinkTakes
<1>2. PICK a : a = Feed(remote, buf.out)
  OBVIOUS
<1>3. /\ a \in Decoder /\ Feed(a, buf.bits) = Ahead /\ SentPart(a)
  BY <1>1, <1>2, OutTaken
<1>4. Stream(buf') = buf.bits
  <2>1. BufOK(Rewound(buf)) /\ Stream(Rewound(buf)) = buf.bits
    BY RewoundFacts DEF IInv, Types
  <2>2. QED BY <1>1, <2>1, EnteringFacts
<1>5. Ahead' = Ahead
  BY <1>1, <1>2, <1>3, <1>4, Zenon DEF Ahead
<1>6. Inside'
  <2>1. Inside
    BY DEF StreamInv
  <2>2. QED BY <1>1, <1>5, <2>1 DEF Inside, Begun
<1>7. OnlyGivenData'
  BY <1>1, <1>2, <1>3, SentData
<1>8. NotEnded'
  <2>1. tk \in Nat /\ Len(tokens) \in Nat
    BY TypeFacts DEF IInv
  <2>2. tk # 0 /\ tk # Len(tokens)
    BY <1>1, <2>1
  <2>3. a.mode # "end"
    BY <1>3, <2>2 DEF SentPart
  <2>4. QED BY <1>1, <1>2, <2>3 DEF NotEnded
<1>9. AtRest' /\ Between' /\ Over' /\ Done'
  BY <1>1 DEF AtRest, Between, Over, Done
<1>10. QED BY <1>6, <1>7, <1>8, <1>9 DEF StreamInv

\* Behind a block.
LEMMA BlockEnds ==
  ASSUME BlockTaken, IInv, StreamInv, ~(tk < Len(tokens))
  PROVE  /\ pc = "out" /\ tk > 0 /\ tk = Len(tokens) /\ remote' = Feed(remote, buf.out)
         /\ tokens' = <<>> /\ tk' = 0 /\ text' = text /\ given' = given
         /\ processed' = processed /\ call' = call
         /\ \/ /\ ~last /\ pc' \in {"compress", "loop"} /\ buf' = Rewound(buf)
            \/ /\ ~last /\ pc' = "out" /\ call = "flush" /\ processed = given
               /\ buf' = WriteEmptyBlock(Rewound(buf), 0)
            \/ /\ last /\ pc' = "done" /\ call = "close" /\ processed = given
               /\ buf' = Rewound(buf)
<1>1. /\ pc = "out" /\ tk > 0 /\ remote' = Feed(remote, buf.out)
      /\ tokens' = <<>> /\ tk' = 0 /\ text' = text /\ given' = given
      /\ processed' = processed /\ call' = call
      /\ buf' = (IF idx = End /\ call = "flush" THEN WriteEmptyBlock(Rewound(buf), 0)
                 ELSE Rewound(buf))
      /\ pc' = (IF idx < End THEN "compress"
                ELSE [write |-> "loop", flush |-> "out", close |-> "done"][call])
  BY DEF BlockTaken, SinkTakes
<1>2. /\ last = Last /\ call \in {"write", "flush", "close"} /\ (call # "write" => todo = 0)
  BY <1>1 DEF IInv, Calls, Types
<1>3. tk = Len(tokens) /\ (idx < End \/ idx = End) /\ (idx < End => idx # End)
  BY <1>1, TypeFacts DEF IInv
<1>4. /\ [write |-> "loop", flush |-> "out", close |-> "done"]["write"] = "loop"
      /\ [write |-> "loop", flush |-> "out", close |-> "done"]["flush"] = "out"
      /\ [write |-> "loop", flush |-> "out", close |-> "done"]["close"] = "done"
  OBVIOUS
<1>5. CASE idx < End
  <2>1. ~last /\ pc' = "compress" /\ buf' = Rewound(buf)
    BY <1>1, <1>2, <1>3, <1>5 DEF Last
  <2>2. QED BY <1>1, <1>3, <2>1
<1>6. CASE ~(idx < End)
  <2>1. idx = End /\ pc' = [write |-> "loop", flush |-> "out", close |-> "done"][call]
    BY <1>1, <1>3, <1>6
  <2>2. CASE call = "write"
    <3>1. ~last /\ pc' = "loop" /\ buf' = Rewound(buf)
      BY <1>1, <1>2, <1>4, <2>1, <2>2 DEF Last, Final
    <3>2. QED BY <1>1, <1>3, <3>1
  <2>3. CASE call = "flush"
    <3>1. ~last /\ pc' = "out" /\ buf' = WriteEmptyBlock(Rewound(buf), 0)
      BY <1>1, <1>2, <1>4, <2>1, <2>3 DEF Last, Final
    <3>2. processed = given
      BY <1>1, <1>2, <2>1, <2>3, ProcessedFacts
    <3>3. QED BY <1>1, <1>3, <2>3, <3>1, <3>2
  <2>4. CASE call = "close"
    <3>1. last /\ pc' = "done" /\ buf' = Rewound(buf)
      BY <1>1, <1>2, <1>4, <2>1, <2>4 DEF Last, Final
    <3>2. processed = given
      BY <1>1, <1>2, <2>1, <2>4, ProcessedFacts
    <3>3. QED BY <1>1, <1>3, <2>4, <3>1, <3>2
  <2>5. QED BY <1>2, <2>2, <2>3, <2>4
<1>7. QED BY <1>5, <1>6

LEMMA RestTakenStream ==
  ASSUME BlockTaken, IInv, StreamInv, ~(tk < Len(tokens))
  PROVE  StreamInv'
<1>1. /\ pc = "out" /\ tk > 0 /\ tk = Len(tokens) /\ remote' = Feed(remote, buf.out)
      /\ tokens' = <<>> /\ tk' = 0 /\ text' = text /\ given' = given
      /\ processed' = processed /\ call' = call
  BY BlockEnds
<1>2. PICK a : a = Feed(remote, buf.out)
  OBVIOUS
<1>3. /\ a \in Decoder /\ a.n = 0 /\ Feed(a, buf.bits) = Ahead
      /\ (buf.bits = <<>> => a = Ahead) /\ SentPart(a)
  BY <1>1, <1>2, OutTaken
<1>4. PICK b : b = Rewound(buf)
  OBVIOUS
<1>5. BufOK(b) /\ b.out = <<>> /\ Stream(b) = buf.bits
  BY <1>4, RewoundFacts DEF IInv, Types
<1>6. OnlyGivenData'
  BY <1>1, <1>2, <1>3, SentData
<1>7. IF last THEN AtEnd(Ahead, Begun(processed)) /\ buf.bits = <<>>
      ELSE AtBlock(Ahead, Begun(processed))
  BY <1>1 DEF StreamInv, Between
<1>8. ~last => a.mode # "end"
  BY <1>1, <1>3 DEF SentPart
<1>9. CASE ~last /\ pc' \in {"compress", "loop"} /\ buf' = Rewound(buf)
  <2>1. /\ text \in Seq(0..255) /\ processed \in 0..Len(text)
    BY <1>1, ProcessedFacts
  <2>2. Spelled(text, <<>>, processed, processed)
    BY <2>1, SpelledNone
  <2>3. Ahead' = Ahead
    BY <1>1, <1>2, <1>3, <1>4, <1>5, <1>9, Zenon DEF Ahead
  <2>4. NotEob(<<>>)
    BY DEF NotEob
  <2>5. AtRest'
    <3>1. /\ Spelled(text', tokens', processed, processed')
          /\ AtBlock(Ahead', SubSeq(text', 1, processed))
      BY <1>1, <1>7, <1>9, <2>2, <2>3 DEF Begun
    <3>2. QED BY <1>1, <1>4, <1>5, <1>9, <2>4, <3>1 DEF AtRest, Begun
  <2>6. Inside' /\ Between' /\ Over' /\ Done' /\ NotEnded'
    BY <1>1, <1>2, <1>8, <1>9 DEF Inside, Between, Over, Done, NotEnded
  <2>7. QED BY <1>6, <2>5, <2>6 DEF StreamInv
<1>10. CASE /\ ~last /\ pc' = "out" /\ call = "flush" /\ processed = given
            /\ buf' = WriteEmptyBlock(Rewound(buf), 0)
  <2>1. PICK s \in Seq(Nat) : s = buf.bits
    BY TypeFacts DEF IInv
  <2>2. /\ buf'.bits = <<>> /\ Stream(buf') = s \o EmptyBlock(0, Len(s))
    BY <1>4, <1>5, <1>10, <2>1, WriteEmptyBlockFacts
  <2>3. AtBlock(Feed(a, s), Begun(processed))
    BY <1>3, <1>7, <1>10, <2>1
  <2>4. AtBlock(Feed(a, s \o EmptyBlock(0, Len(s))), Begun(processed))
    <3>1. PICK f \in {0, 1} : f = 0
      OBVIOUS
    <3>2. AtBlock(Feed(a, s \o EmptyBlock(f, Len(s))), Begun(processed))
      BY <1>3, <2>3, <3>1, EmptyBlockRead
    <3>3. QED BY <3>1, <3>2
  <2>5. AtBlock(Ahead', Begun(given))
    BY <1>1, <1>2, <1>10, <2>2, <2>4 DEF Ahead
  <2>6. Over'
    BY <1>1, <1>10, <2>2, <2>5 DEF Over, Begun
  <2>7. AtRest' /\ Inside' /\ Between' /\ Done' /\ NotEnded'
    BY <1>1, <1>2, <1>8, <1>10 DEF AtRest, Inside, Between, Done, NotEnded
  <2>8. QED BY <1>6, <2>6, <2>7 DEF StreamInv
<1>11. CASE last /\ pc' = "done" /\ call = "close" /\ processed = given
  <2>1. AtEnd(remote', Begun(given))
    BY <1>1, <1>2, <1>3, <1>7, <1>11
  <2>2. Done'
    BY <1>1, <1>11, <2>1 DEF Done, Begun
  <2>3. AtRest' /\ Inside' /\ Between' /\ Over' /\ NotEnded'
    BY <1>1, <1>11 DEF AtRest, Inside, Between, Over, NotEnded
  <2>4. QED BY <1>6, <2>2, <2>3 DEF StreamInv
<1>12. QED BY <1>9, <1>10, <1>11, BlockEnds

LEMMA CloseEmptyStream ==
  ASSUME CloseEmpty, IInv, StreamInv
  PROVE  StreamInv'
<1>1. /\ pc = "compress" /\ call = "close" /\ End = 0 /\ buf' = WriteEmptyBlock(buf, 1)
      /\ pc' = "out" /\ call' = call /\ remote' = remote
      /\ text' = text /\ given' = given /\ processed' = processed
      /\ tokens' = tokens /\ tk' = tk
  BY DEF CloseEmpty, Final, clientVars, dynVars
<1>2. Live /\ Live' /\ tk = 0 /\ todo = 0 /\ BufOK(buf) /\ remote \in Decoder /\ remote.n = 0
  BY <1>1 DEF Live, IInv, Calls, Types
<1>3. OnlyGivenData /\ AtRest /\ NotEnded
  BY DEF StreamInv
<1>4. processed = 0 /\ given = 0
  <2>1. /\ processed = given \/ idx # End
        /\ given - todo = 0 => processed = 0
    BY <1>1, <1>2, ProcessedFacts
  <2>2. PICK t \in Nat, i \in Nat, p \in Nat, g \in Nat, z \in Nat :
          /\ t = Taken /\ i = idx /\ p = processed /\ g = given /\ z = WindowSize /\ i <= 0
          /\ t = g - 0
    <3>1. Taken \in Nat /\ idx \in Nat /\ processed \in Nat /\ given \in Nat /\ idx <= End
      BY TypeFacts DEF IInv
    <3>2. QED BY <1>1, <1>2, <3>1, Sizes DEF Taken
  <2>3. z > 0
    BY <2>2, Sizes
  <2>4. i = p \/ i >= z
    BY <2>2 DEF IInv, WindowInv
  <2>5. p = 0
    BY <2>2, <2>3, <2>4
  <2>6. idx = End
    <3>1. i = 0
      BY <2>2
    <3>2. QED BY <1>1, <2>2, <3>1
  <2>7. QED BY <2>1, <2>2, <2>5, <2>6
<1>5. PICK a : Spelled(text, tokens, a, processed) /\ AtBlock(Ahead, Begun(a))
  BY <1>1, <1>2, <1>3 DEF AtRest
<1>6. tokens = <<>> /\ a = 0
  <2>1. tokens = <<>>
    BY <1>1, <1>2, <1>3, <1>4 DEF AtRest
  <2>2. Len(tokens) = 0
    BY <2>1
  <2>3. QED BY <1>4, <1>5, <2>1, <2>2 DEF Spelled
<1>7. PICK s \in Seq(Nat) : s = Stream(buf)
  BY <1>2, StreamFacts DEF BufOK
<1>8. buf'.bits = <<>> /\ Stream(buf') = s \o EmptyBlock(1, Len(s))
  BY <1>1, <1>2, <1>7, WriteEmptyBlockFacts
<1>9. AtEnd(Feed(remote, s \o EmptyBlock(1, Len(s))), Begun(0))
  <2>1. PICK f \in {0, 1} : f = 1
    OBVIOUS
  <2>2. AtBlock(Feed(remote, s), Begun(0))
    BY <1>5, <1>6, <1>7 DEF Ahead
  <2>3. AtEnd(Feed(remote, s \o EmptyBlock(f, Len(s))), Begun(0))
    BY <1>2, <2>1, <2>2, EmptyBlockRead
  <2>4. QED BY <2>1, <2>3
<1>10. AtEnd(Ahead', Begun(0))
  BY <1>1, <1>8, <1>9 DEF Ahead
<1>11. Over'
  BY <1>1, <1>4, <1>6, <1>8, <1>10 DEF Over, Begun
<1>12. OnlyGivenData' /\ NotEnded'
  BY <1>1, <1>2, <1>3 DEF OnlyGivenData, Sound, NotEnded
<1>13. AtRest' /\ Inside' /\ Between' /\ Done'
  BY <1>1, <1>2 DEF AtRest, Inside, Between, Done
<1>14. QED BY <1>11, <1>12, <1>13 DEF StreamInv

LEMMA EmptyBlockTakenStream ==
  ASSUME EmptyBlockTaken, IInv, StreamInv
  PROVE  StreamInv'
<1>1. /\ pc = "out" /\ tk = 0 /\ remote' = Feed(remote, buf.out)
      /\ buf' = (IF call = "flush" THEN Rewound(buf) ELSE buf)
      /\ pc' = "done" /\ call' = call /\ text' = text /\ given' = given
      /\ processed' = processed /\ tokens' = tokens
  BY DEF EmptyBlockTaken, SinkTakes, dynVars
<1>2. call \in {"flush", "close"}
  BY <1>1 DEF IInv, Calls, Types
<1>3. PICK a : a = Feed(remote, buf.out)
  OBVIOUS
<1>4. (buf.bits = <<>> => a = Ahead) /\ SentPart(a)
  BY <1>1, <1>3, OutTaken
<1>5. /\ tokens = <<>> /\ processed = given /\ buf.bits = <<>>
      /\ IF call = "flush" THEN AtBlock(Ahead, Begun(given)) ELSE AtEnd(Ahead, Begun(given))
  BY <1>1 DEF StreamInv, Over
<1>6. OnlyGivenData'
  BY <1>1, <1>3, <1>4, SentData
<1>7. call = "flush" => buf'.out = <<>> /\ buf'.bits = <<>>
  <2>1. Rewound(buf).out = <<>> /\ Rewound(buf).bits = buf.bits
    BY RewoundFacts DEF IInv, Types
  <2>2. QED BY <1>1, <1>5, <2>1
<1>8. Done'
  BY <1>1, <1>2, <1>3, <1>4, <1>5, <1>7 DEF Done, Begun
<1>9. NotEnded'
  <2>1. call = "flush" => remote'.mode # "end"
    BY <1>1, <1>3, <1>4, <1>5 DEF AtBlock
  <2>2. QED BY <1>1, <1>2, <2>1 DEF NotEnded
<1>10. AtRest' /\ Inside' /\ Between' /\ Over'
  BY <1>1 DEF AtRest, Inside, Between, Over
<1>11. QED BY <1>6, <1>8, <1>9, <1>10 DEF StreamInv

LEMMA OutFailsStream ==
  ASSUME OutFails, IInv, StreamInv
  PROVE  StreamInv'
<1>1. pc' = "failed" /\ text' = text /\ given' = given
  BY DEF OutFails, SinkFails
<1>2. OnlyGivenData'
  BY <1>1, PartSent, SentData
<1>3. AtRest' /\ Inside' /\ Between' /\ Over' /\ Done' /\ NotEnded'
  BY <1>1 DEF AtRest, Inside, Between, Over, Done, NotEnded, Live
<1>4. QED BY <1>2, <1>3 DEF StreamInv

LEMMA NextStream ==
  ASSUME Orderly, IInv, StreamInv, [Next]_vars
  PROVE  StreamInv'
<1>1. CASE UNCHANGED vars
  BY <1>1, SameStream
<1>2. CASE Call
  <2>1. CASE ((\E n \in WriteSizes : CallWrite(n)) \/ CallFlush \/ CallClose)
             /\ UNCHANGED dynVars
    BY <2>1, CallStream
  <2>2. CASE (\E c \in {"write", "flush", "close"} : CallAfterError(c)) /\ UNCHANGED dynVars
    BY <2>2, ReturnStream
  <2>3. CASE \E t \in Texts : Reset(t)
    BY <2>3, ResetStream
  <2>4. QED BY <1>2, <2>1, <2>2, <2>3 DEF Call
<1>3. CASE Work
  <2>1. CASE Accumulate \/ Generated
    BY <2>1, WaitStream
  <2>2. CASE (ReturnNil \/ ReturnError) /\ UNCHANGED dynVars
    BY <2>2, ReturnStream
  <2>3. CASE GenLiteral \/ GenMatch \/ GenTail
    BY <2>3, GenerateStream
  <2>4. CASE \E h \in HdrWidths, l \in LitWidths, d \in DistWidths : BlockHeader(h, l, d)
    BY <2>4, BlockHeaderStream
  <2>5. CASE EncodeToken
    BY <2>5, EncodeTokenStream
  <2>6. CASE BlockTaken
    BY <2>6, PartTakenStream, RestTakenStream
  <2>7. CASE CloseEmpty \/ EmptyBlockTaken \/ OutFails
    BY <2>7, CloseEmptyStream, EmptyBlockTakenStream, OutFailsStream
  <2>8. QED BY <1>3, <2>1, <2>2, <2>3, <2>4, <2>5, <2>6, <2>7 DEF Work
<1>4. QED BY <1>1, <1>2, <1>3 DEF Next

(***************************************************************************)
(* Tokens and what they expand to                                          *)
(***************************************************************************)
Expansion(t, p) ==
  IF t.len = 0 THEN Append(p, t.lit) ELSE Copied(p, t.dist, t.len)

LEMMA OneExpanded ==
  ASSUME NEW x \in Seq(0..255), NEW a \in 0..Len(x), NEW e \in 0..Len(x),
         NEW t \in Tokens, t # EobToken, Stands(t, x, a, e)
  PROVE  Expansion(t, SubSeq(x, 1, a)) = SubSeq(x, 1, e)
<1>1. PICK m \in Nat : m = a /\ m \in 0..Len(x)
  OBVIOUS
<1>2. PICK p \in Seq(Nat) : p = SubSeq(x, 1, m) /\ Len(p) = m
  BY <1>1, Prefix
<1>3. CASE \E k \in 0..255 : t = Lit(k) /\ e = a + 1 /\ x[e] = k
  <2>1. t.len = 0 /\ e = m + 1 /\ x[m + 1] = t.lit /\ m + 1 <= Len(x)
    BY <1>1, <1>3 DEF Lit
  <2>2. Append(p, x[m + 1]) = SubSeq(x, 1, m + 1)
    BY <1>2, <2>1, NextByte
  <2>3. QED BY <1>1, <1>2, <2>1, <2>2, Zenon DEF Expansion
<1>4. CASE t.len > 0 /\ t.dist <= a /\ e = a + t.len /\ Repeats(x, a, t.len, t.dist)
  <2>1. PICK l \in Nat \ {0}, d \in Nat \ {0} : l = t.len /\ d = t.dist
    <3>1. t.len \in Nat \ {0}
      BY <1>4 DEF Tokens
    <3>2. t.dist \in 1..WindowSize
      BY <1>4 DEF Tokens
    <3>3. t.dist \in Nat \ {0}
      BY <3>2, Sizes
    <3>4. QED BY <3>1, <3>3
  <2>2. m + l <= Len(x) /\ d <= m /\ Repeats(x, m, l, d) /\ e = m + l
    BY <1>1, <1>4, <2>1
  <2>3. Copied(p, d, l) = SubSeq(x, 1, m + l)
    BY <1>2, <2>2, CopiedText
  <2>4. l # 0
    OBVIOUS
  <2>5. QED BY <1>1, <1>2, <2>1, <2>2, <2>3, <2>4, Zenon DEF Expansion
<1>5. QED BY <1>3, <1>4, Zenon DEF Stands

LEMMA ExpandedText ==
  ASSUME NEW x \in Seq(0..255), NEW ts \in Seq(Tokens), NotEob(ts), NEW a, NEW e,
         Spelled(x, ts, a, e)
  PROVE  Expanded(SubSeq(x, 1, a), ts) = SubSeq(x, 1, e)
<1>1. PICK c : Spells(c, x, ts) /\ c[0] = a /\ c[Len(ts)] = e
  BY DEF Spelled
<1>2. PICK n \in Nat : n = Len(ts)
  OBVIOUS
<1>3. PICK p : p = SubSeq(x, 1, a)
  OBVIOUS
<1> DEFINE Step(f) == [i \in 0..Len(ts) |->
                         IF i = 0 THEN p
                         ELSE IF ts[i].len = 0 THEN Append(f[i - 1], ts[i].lit)
                         ELSE Copied(f[i - 1], ts[i].dist, ts[i].len)]
<1>4. ASSUME NEW i \in 1..n
      PROVE  Expansion(ts[i], SubSeq(x, 1, c[i - 1])) = SubSeq(x, 1, c[i])
  <2>1. c[i - 1] \in 0..Len(x) /\ c[i] \in 0..Len(x)
    <3>1. i - 1 \in 0..n /\ i \in 0..n
      OBVIOUS
    <3>2. QED BY <1>1, <1>2, <3>1 DEF Spells
  <2>2. ts[i] \in Tokens /\ ts[i] # EobToken /\ Stands(ts[i], x, c[i - 1], c[i])
    BY <1>1, <1>2, ElementOfSeq DEF Spells, NotEob
  <2>3. QED BY <2>1, <2>2, OneExpanded
<1>5. PICK g : g = [i \in 0..n |-> SubSeq(x, 1, c[i])]
  OBVIOUS
<1>6. g = Step(g)
  <2>1. ASSUME NEW i \in 0..n
        PROVE  g[i] = IF i = 0 THEN p
                      ELSE IF ts[i].len = 0 THEN Append(g[i - 1], ts[i].lit)
                      ELSE Copied(g[i - 1], ts[i].dist, ts[i].len)
    <3>1. CASE i = 0
      BY <1>1, <1>3, <1>5, <3>1
    <3>2. CASE i # 0
      <4>1. i \in 1..n /\ i - 1 \in 0..n
        BY <3>2
      <4>2. g[i] = SubSeq(x, 1, c[i]) /\ g[i - 1] = SubSeq(x, 1, c[i - 1])
        BY <1>5, <4>1
      <4>3. g[i] = Expansion(ts[i], g[i - 1])
        BY <1>4, <4>1, <4>2
      <4>4. QED BY <3>2, <4>3 DEF Expansion
    <3>3. QED BY <3>1, <3>2
  <2>2. QED BY <1>2, <1>5, <2>1
<1> DEFINE f == CHOOSE f : f = Step(f)
<1>7. f = Step(f) /\ Expanded(p, ts) = f[Len(ts)]
  BY <1>6 DEF Expanded
<1> HIDE DEF f
<1>8. f[0] = p
  BY <1>2, <1>7
<1>9. ASSUME NEW i \in 1..n, f[i - 1] = SubSeq(x, 1, c[i - 1]) PROVE f[i] = SubSeq(x, 1, c[i])
  <2>1. i \in 0..n /\ i # 0
    OBVIOUS
  <2>2. f[i] = Expansion(ts[i], f[i - 1])
    BY <1>2, <1>7, <2>1 DEF Expansion
  <2>3. QED BY <1>4, <1>9, <2>2, Zenon
<1> DEFINE S == {j \in Nat : j <= n => f[j] = SubSeq(x, 1, c[j])}
<1>10. 0 \in S
  BY <1>1, <1>3, <1>8
<1>11. ASSUME NEW j \in S PROVE j + 1 \in S
  <2>1. SUFFICES ASSUME j + 1 <= n PROVE f[j + 1] = SubSeq(x, 1, c[j + 1])
    BY <1>11
  <2>2. j + 1 \in 1..n /\ (j + 1) - 1 = j /\ f[j] = SubSeq(x, 1, c[j])
    BY <1>11, <2>1
  <2>3. QED BY <1>9, <2>2
<1>12. S = Nat
  <2> HIDE DEF S
  <2>1. S \in SUBSET Nat
    BY DEF S
  <2>2. QED BY <1>10, <1>11, <2>1, InductiveSet
<1>13. n \in S
  <2> HIDE DEF S
  <2>1. QED BY <1>12
<1>14. f[n] = SubSeq(x, 1, e)
  BY <1>1, <1>2, <1>13
<1>15. QED BY <1>2, <1>3, <1>7, <1>14

(***************************************************************************)
(* The steps of PlainWriter                                                *)
(***************************************************************************)
LEMMA TakesMore ==
  ASSUME IInv, StreamInv, StreamInv', BlockTaken \/ EmptyBlockTaken \/ OutFails
  PROVE  Promise!Next
<1>1. PICK m, e : m = Len(remote'.plain) /\ e = (remote'.mode = "end")
  OBVIOUS
<1>2. /\ pc = "out" /\ text' = text /\ given' = given /\ ret' = ret
      /\ BlockTaken \/ EmptyBlockTaken => remote' = Feed(remote, buf.out)
  BY DEF BlockTaken, EmptyBlockTaken, OutFails, SinkTakes, SinkFails
<1>3. SentPart(remote')
  BY <1>2, OutTaken, PartSent
<1>4. /\ m \in Len(remote.plain)..given
      /\ remote'.plain = SubSeq(text, 1, m) /\ (e => m = given)
  BY <1>1, <1>3 DEF SentPart, Begun
<1>5. e \in BOOLEAN /\ Sound /\ Sound' /\ remote.mode # "end"
  BY <1>1, <1>2 DEF StreamInv, OnlyGivenData, NotEnded, Live
<1>6. Promise!Deliver(m, e)
  BY <1>1, <1>2, <1>4, <1>5 DEF Promise!Deliver
<1>7. QED BY <1>4, <1>5, <1>6, Zenon DEF Promise!Next

LEMMA StepPromised ==
  ASSUME IInv, StreamInv, StreamInv', Next
  PROVE  Promise!Next \/ UNCHANGED Promise!vars
<1>1. Sound /\ Sound'
  BY DEF StreamInv, OnlyGivenData
<1>2. CASE \E n \in WriteSizes : CallWrite(n) /\ UNCHANGED dynVars
  <2>1. PICK n \in WriteSizes : CallWrite(n)
    BY <1>2
  <2>2. n \in 0..(Len(text) - given)
    <3>1. n \in Nat /\ given \in Nat /\ Len(text) \in Nat /\ given + n <= Len(text)
      BY <2>1, WriterAssumption, TypeFacts DEF CallWrite, IInv
    <3>2. QED BY <3>1
  <2>3. Promise!Give(n)
    BY <2>1 DEF CallWrite, Promise!Give, Sound
  <2>4. QED BY <2>2, <2>3, Zenon DEF Promise!Next
<1>3. CASE \E c \in {"write", "flush", "close"} : CallAfterError(c)
  <2>1. PICK c \in {"write", "flush", "close"} : CallAfterError(c)
    BY <1>3
  <2>2. werr = "Fail"
    BY <2>1 DEF CallAfterError, IInv, Types
  <2>3. Promise!Return(c, "Fail")
    BY <2>1, <2>2 DEF CallAfterError, Promise!Return, Sound
  <2>4. QED BY <2>3, Zenon DEF Promise!Next
<1>4. CASE ReturnNil
  <2>1. /\ ret' = [call |-> call, err |-> "nil"] /\ text' = text /\ given' = given
        /\ remote' = remote /\ (pc = "loop" \/ pc = "done")
    BY <1>4 DEF ReturnNil, Return
  <2>2. call = "write" \/ (pc = "done" /\ call \in {"flush", "close"})
    BY <2>1 DEF IInv, Types, Calls
  <2>3. ASSUME pc = "done"
        PROVE  Len(remote.plain) = given /\ (call = "close" => remote.mode = "end")
    <3>1. AtEnd(remote, Begun(given)) \/ (call = "flush" /\ AtBlock(remote, Begun(given)))
      BY <2>3 DEF StreamInv, Done
    <3>2. text \in Seq(0..255) /\ given \in 0..Len(text)
      BY TypeFacts DEF IInv, Types
    <3>3. Len(SubSeq(text, 1, given)) = given
      BY <3>2, Prefix
    <3>4. QED BY <3>1, <3>3 DEF AtEnd, AtBlock, Begun
  <2>4. Promise!Return(call, "nil")
    BY <2>1, <2>2, <2>3 DEF Promise!Return, Sound
  <2>5. QED BY <2>2, <2>4, Zenon DEF Promise!Next
<1>5. CASE ReturnError
  <2>1. /\ ret' = [call |-> call, err |-> "Fail"] /\ text' = text /\ given' = given
        /\ remote' = remote /\ pc = "failed"
    BY <1>5 DEF ReturnError, Return
  <2>2. call \in {"write", "flush", "close"}
    BY <2>1 DEF IInv, Types, Calls
  <2>3. Promise!Return(call, "Fail")
    BY <2>1 DEF Promise!Return, Sound
  <2>4. QED BY <2>2, <2>3, Zenon DEF Promise!Next
<1>6. CASE \E t \in Texts : Reset(t)
  <2>1. PICK t \in Texts : Reset(t)
    BY <1>6
  <2>2. Promise!Reset(t)
    BY <1>1, <2>1 DEF Reset, ResetWriter, Promise!Reset, Fresh
  <2>3. QED BY <2>2, Zenon DEF Promise!Next
<1>7. CASE BlockTaken \/ EmptyBlockTaken \/ OutFails
  BY <1>7, TakesMore
<1>8. CASE \/ CallFlush \/ CallClose
           \/ Accumulate \/ Generated \/ EncodeToken \/ CloseEmpty
           \/ \E h \in HdrWidths, l \in LitWidths, d \in DistWidths : BlockHeader(h, l, d)
  <2>1. text' = text /\ given' = given /\ remote' = remote /\ ret' = ret
    BY <1>8 DEF CallFlush, CallClose, Accumulate, Generated, EncodeToken, CloseEmpty,
                BlockHeader, clientVars
  <2>2. QED BY <2>1 DEF Promise!vars, Sound
<1>9. CASE GenLiteral \/ GenTail \/ GenMatch
  <2>1. \E n, ts : Resolve(n, ts)
    BY <1>9 DEF GenLiteral, GenTail, GenMatch, Matched
  <2>2. text' = text /\ given' = given /\ remote' = remote /\ ret' = ret
    BY <2>1 DEF Resolve, clientVars
  <2>3. QED BY <2>2 DEF Promise!vars, Sound
<1>10. QED
  BY <1>2, <1>3, <1>4, <1>5, <1>6, <1>7, <1>8, <1>9, Zenon DEF Next, Call, Work

(***************************************************************************)
(* The theorems about the stream                                           *)
(***************************************************************************)
\* Where a decoder that had all bits written so far would stand, at each point
\* of a call, and what the tokens that wait stand for; the invariant behind the
\* three theorems that follow (dynamic.go, encode_other.go, lz77.go).
THEOREM StreamCorrect == Orderly => (Spec => [](IInv /\ StreamInv))
<1>1. ASSUME Orderly PROVE Init => IInv /\ StreamInv
  BY <1>1, InitInv, InitStream
<1>2. ASSUME Orderly PROVE IInv /\ StreamInv /\ [Next]_vars => IInv' /\ StreamInv'
  BY <1>2, NextInv, NextStream
<1>3. ASSUME Orderly PROVE Spec => [](IInv /\ StreamInv)
  BY <1>1, <1>2, <1>3, PTL DEF Spec
<1>4. QED BY <1>3

\* Nothing is lost or sent twice: what is sent, what waits in the register and
\* what the tokens stand for, is the data resolved so far, wherever blocks end
\* (dynamic.go, compressBlock; lz77.go, generate).
THEOREM NothingIsLost == Orderly => (Spec => []NothingLost)
<1>1. IInv /\ StreamInv => NothingLost
  <2>1. SUFFICES ASSUME IInv, StreamInv, pc \in {"loop", "compress", "block"}
                 PROVE  Expanded(Feed(remote, buf.bits).plain, tokens)
                          = SubSeq(text, 1, processed)
    BY DEF NothingLost
  <2>2. Live
    BY <2>1 DEF Live
  <2>3. /\ buf.out = <<>> /\ NotEob(tokens)
        /\ \E a : Spelled(text, tokens, a, processed) /\ AtBlock(Ahead, Begun(a))
    BY <2>1, <2>2 DEF StreamInv, AtRest
  <2>4. PICK a : Spelled(text, tokens, a, processed) /\ AtBlock(Ahead, Begun(a))
    BY <2>3
  <2>5. text \in Seq(0..255) /\ tokens \in Seq(Tokens) /\ buf.bits \in Seq(Nat)
    BY <2>1, TypeFacts DEF IInv, Types
  <2>6. Stream(buf) = buf.bits
    BY <2>3, <2>5 DEF Stream
  <2>7. Feed(remote, buf.bits).plain = SubSeq(text, 1, a)
    BY <2>4, <2>6 DEF Ahead, AtBlock, Begun
  <2>8. QED BY <2>3, <2>4, <2>5, <2>7, ExpandedText
<1>2. ASSUME Orderly PROVE Spec => []NothingLost
  BY <1>1, <1>2, StreamCorrect, PTL
<1>3. QED BY <1>2

\* A decoder sees DEFLATE that stops at its end, and nothing but data given
\* since the last Reset, in order (dynamic.go, Reset).
THEOREM OnlyGivenDataSeen == Orderly => (Spec => []OnlyGivenData)
<1>1. StreamInv => OnlyGivenData
  BY DEF StreamInv
<1>2. ASSUME Orderly PROVE Spec => []OnlyGivenData
  BY <1>1, <1>2, StreamCorrect, PTL
<1>3. QED BY <1>2

\* Levels 1 and 2 implement PlainWriter: every step adds to what a decoder
\* sees, returns what it may return, or is not visible; Flush has delivered all
\* that was given and Close the end of the stream (writer.go, dynamic.go).
THEOREM KeepsPromise == Orderly => (Spec => PlainWriterSpec)
<1>1. Init => Promise!Init
  <2>1. SUFFICES ASSUME Init PROVE Promise!Init
    OBVIOUS
  <2>2. /\ text \in Texts /\ given = 0 /\ ret = [call |-> "new", err |-> "nil"]
        /\ remote = Fresh
    BY <2>1 DEF Init, WriterInit
  <2>3. remote.plain = <<>> /\ remote.mode = "header" /\ Sound
    BY <2>2 DEF Fresh, Sound
  <2>4. QED BY <2>2, <2>3 DEF Promise!Init
<1>2. ASSUME IInv, StreamInv, StreamInv', [Next]_vars
      PROVE  [Promise!Next]_(Promise!vars)
  <2>1. CASE UNCHANGED vars
    BY <2>1 DEF vars, apiVars, clientVars, Promise!vars, Sound
  <2>2. CASE Next
    BY <1>2, <2>2, StepPromised
  <2>3. QED BY <1>2, <2>1, <2>2
<1>3. ASSUME Orderly PROVE Spec => PlainWriterSpec
  BY <1>1, <1>2, <1>3, StreamCorrect, PTL DEF Spec, PlainWriterSpec, Promise!Spec
<1>4. QED BY <1>3
=============================================================================
