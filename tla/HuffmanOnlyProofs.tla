-------------------------- MODULE HuffmanOnlyProofs --------------------------
(***************************************************************************)
(* Proofs about HuffmanOnly, for every size of the buffer and of output,   *)
(* every text, and every Huffman code that fits the register.              *)
(*                                                                         *)
(* The invariant looks at the decoder at the other end as if it had been   *)
(* given what waits in output and in the register too: between two blocks  *)
(* it is then behind a block, inside one behind the last byte encoded.     *)
(***************************************************************************)
EXTENDS HuffmanOnly, RemoteDecoderProofs

Taken == given - todo
Start == Taken - Len(buffer)         \* where in the data the buffer begins
Ahead == Feed(remote, Stream(buf))   \* the decoder, if all bits were sent
Last == IF call = "close" THEN 1 ELSE 0

\* A call is under way, or the client may call.
Live == \/ pc \notin {"idle", "failed"}
        \/ (pc = "idle" /\ ret.err = "nil" /\ ret.call # "close")

Types ==
  /\ pc \in {"idle", "loop", "compress", "bytes", "out", "done", "failed"}
  /\ call \in {"new", "write", "flush", "close"}
  /\ todo \in Nat /\ werr \in {"nil", "Fail"} /\ flushes \in Nat
  /\ text \in Texts /\ given \in 0..Len(text) /\ todo <= given
  /\ BufOK(buf) /\ remote \in Decoder /\ remote.n = 0
  /\ buffer \in Seq(0..255) /\ Len(buffer) <= Size /\ num \in 0..Len(buffer)

\* What a call has to do where it stands.
Calls ==
  /\ pc # "idle" => call # "new"
  /\ (pc \in {"idle", "done", "failed"} \/ call # "write") => todo = 0
  /\ pc = "loop" => call = "write"
  /\ pc = "done" => call # "write"
  /\ pc \in {"compress", "out"} /\ call = "write" => buffer # <<>>
  /\ pc = "bytes" \/ (pc = "out" /\ buffer # <<>>)
       => code.lit \in LitWidths /\ code.eob \in EobWidths
  /\ pc \notin {"bytes", "out"} => num = 0
  /\ pc = "bytes" => num < Len(buffer)
  /\ pc = "bytes" \/ (pc = "out" /\ num < Len(buffer)) => Len(buf.bits) \in 0..7

\* Output is empty when a block begins.
OutputInv ==
  ~GoesOn \/ Unflushed =>
    /\ Live /\ pc \in {"idle", "loop", "compress"} => buf.out = <<>>
    /\ pc = "done" /\ call = "flush" => buf.out = <<>>
    /\ pc = "bytes" => Len(buf.out) < OutBits - 2 * RegBits
    /\ pc = "out" => Len(buf.out) <= OutBits

Buffered == Live => Len(buffer) <= Taken /\ buffer = SubSeq(text, Start + 1, Taken)

\* What the decoder would have read.
AtRest == Live /\ pc \in {"idle", "loop", "compress"} =>
  AtBlock(Ahead, SubSeq(text, 1, Start))
Inside == pc = "bytes" \/ (pc = "out" /\ num < Len(buffer)) =>
  InBlock(Ahead, SubSeq(text, 1, Start + num), Last)
Between == pc = "out" /\ num = Len(buffer) /\ call = "write" =>
  AtBlock(Ahead, SubSeq(text, 1, Taken))
Over == pc = "out" /\ num = Len(buffer) /\ call = "close" =>
  AtEnd(Ahead, SubSeq(text, 1, Taken)) /\ buf.bits = <<>>
Closed == pc = "done" => AtEnd(remote, SubSeq(text, 1, Taken))
NotEnded == Live /\ pc # "done" => remote.mode # "end"

\* A failed call leaves the Writer with an error, or closed.
ErrorKept ==
  pc = "idle" /\ ret.err # "nil" => werr # "nil" \/ ret.call = "close"

StreamInv ==
  Unflushed => /\ call # "flush" /\ ErrorKept /\ OnlyGivenData /\ Buffered
               /\ AtRest /\ Inside /\ Between /\ Over /\ Closed /\ NotEnded

IInv == Types /\ Calls /\ OutputInv /\ StreamInv

(***************************************************************************)
(* The codes of some bytes                                                 *)
(***************************************************************************)
\* g[i] is the register after i bytes, those of x from j + 1 on.
Coded(n, g, w, x, j) ==
  /\ g \in [0..n -> Seq(Nat)]
  /\ \A i \in 1..n : g[i] = g[i - 1] \o Field(w, LitBit(x[j + i]))

\* A byte of a part of x.
LEMMA ByteOf ==
  ASSUME NEW x \in Seq(0..255), NEW j \in Nat, NEW i \in Nat \ {0}, j + i <= Len(x)
  PROVE  x[j + i] \in 0..255
<1>1. j + i \in 1..Len(x)
  OBVIOUS
<1>2. QED BY <1>1, ElementOfSeq

LEMMA LitField ==
  ASSUME NEW w \in Nat \ {0}, NEW c \in 0..255
  PROVE  Field(w, LitBit(c)) \in Seq(Nat) /\ Len(Field(w, LitBit(c))) = w
<1>1. LitBit(c) \in Nat
  BY DEF LitBit
<1>2. QED BY <1>1, FieldSplit

HasCodes(n, w, x, j, b) == \E h : Coded(n, h, w, x, j) /\ h[0] = b

LEMMA CodesExist ==
  ASSUME NEW n \in Nat, NEW w \in Nat \ {0}, NEW x \in Seq(0..255), NEW j \in Nat,
         j + n <= Len(x), NEW b \in Seq(Nat)
  PROVE  HasCodes(n, w, x, j, b)
<1>1. ASSUME NEW i \in 1..n PROVE x[j + i] \in 0..255 /\ i - 1 \in 0..n
  <2>1. i \in Nat \ {0} /\ j + i <= Len(x) /\ i - 1 \in 0..n
    OBVIOUS
  <2>2. QED BY <2>1, ByteOf
<1>2. PICK c : c = [i \in 1..n |-> Field(w, LitBit(x[j + i]))]
  OBVIOUS
<1>3. \A i \in 1..n : c[i] \in Seq(Nat) /\ c[i] = Field(w, LitBit(x[j + i]))
  BY <1>1, <1>2, LitField
<1>4. PICK g : g = [i \in 1..n |-> [s \in Seq(Nat) |-> s \o c[i]]]
  OBVIOUS
<1>5. g \in [1..n -> [Seq(Nat) -> Seq(Nat)]]
  BY <1>3, <1>4, Join
<1>6. PICK h \in [0..n -> Seq(Nat)] : h[0] = b /\ \A i \in 1..n : h[i] = g[i][h[i - 1]]
  <2>1. Recurses(n, Seq(Nat), b, g)
    BY <1>5, Recursion
  <2>2. QED BY <2>1 DEF Recurses
<1>7. \A i \in 1..n : h[i - 1] \in Seq(Nat)
  BY <1>1
<1>8. \A i \in 1..n : g[i][h[i - 1]] = h[i - 1] \o c[i]
  BY <1>4, <1>7
<1>9. QED BY <1>3, <1>6, <1>8, Zenon DEF Coded, HasCodes

LEMMA BytesCoded ==
  ASSUME NEW n \in Nat, num \in Nat, buffer \in Seq(0..255), num + n <= Len(buffer),
         buf.bits \in Seq(Nat), code.lit \in Nat \ {0}
  PROVE  \E g : /\ Coded(n, g, code.lit, buffer, num) /\ g[0] = buf.bits
                /\ WithBytes(n) = Sync([buf EXCEPT !.bits = g[n]])
<1> DEFINE Step(f) == [i \in 0..n |->
                         IF i = 0 THEN buf.bits
                         ELSE f[i - 1] \o Field(code.lit, LitBit(buffer[num + i]))]
<1>1. PICK h : Coded(n, h, code.lit, buffer, num) /\ h[0] = buf.bits
  <2>1. PICK w \in Nat \ {0}, x \in Seq(0..255), j \in Nat, b \in Seq(Nat) :
          w = code.lit /\ x = buffer /\ j = num /\ b = buf.bits
    OBVIOUS
  <2>2. j + n <= Len(x)
    BY <2>1
  <2>3. HasCodes(n, w, x, j, b)
    BY <2>2, CodesExist
  <2>4. QED BY <2>1, <2>3, Zenon DEF HasCodes
<1>2. h = Step(h)
  <2>1. \A i \in 0..n : i # 0 => i \in 1..n
    OBVIOUS
  <2>2. h \in [0..n -> Seq(Nat)]
    BY <1>1 DEF Coded
  <2>3. \A i \in 0..n : h[i] = (IF i = 0 THEN buf.bits
                                ELSE h[i - 1] \o Field(code.lit, LitBit(buffer[num + i])))
    BY <1>1, <2>1, Zenon DEF Coded
  <2>4. \A i \in 0..n : h[i] = Step(h)[i]
    BY <2>3
  <2>5. QED BY <2>2, <2>4
<1> DEFINE f == CHOOSE f : f = Step(f)
<1>3. f = Step(f) /\ WithBytes(n) = Sync([buf EXCEPT !.bits = f[n]])
  BY <1>2 DEF WithBytes
<1> HIDE DEF f
<1>4. f[0] = buf.bits
  BY <1>3
<1>5. \A i \in 1..n : f[i] = f[i - 1] \o Field(code.lit, LitBit(buffer[num + i]))
  <2>1. \A i \in 1..n : i \in 0..n /\ i # 0
    OBVIOUS
  <2>2. \A i \in 1..n : Step(f)[i] = f[i - 1] \o Field(code.lit, LitBit(buffer[num + i]))
    BY <2>1
  <2>3. QED BY <1>3, <2>2, Zenon
<1>6. \A i \in 0..n : f[i] \in Seq(Nat)
  <2> DEFINE S == {i \in Nat : i <= n => f[i] \in Seq(Nat)}
  <2>1. 0 \in S
    BY <1>4
  <2>2. ASSUME NEW i \in S PROVE i + 1 \in S
    <3>1. SUFFICES ASSUME i + 1 <= n PROVE f[i + 1] \in Seq(Nat)
      BY <2>2
    <3>2. i + 1 \in 1..n /\ (i + 1) - 1 = i /\ f[i] \in Seq(Nat)
      BY <2>2, <3>1
    <3>3. buffer[num + (i + 1)] \in 0..255
      <4>1. PICK x \in Seq(0..255), j \in Nat, l \in Nat \ {0} :
              x = buffer /\ j = num /\ l = i + 1 /\ j + l <= Len(x)
        BY <3>1, <3>2
      <4>2. QED BY <4>1, ByteOf, Zenon
    <3>4. PICK t : t = Field(code.lit, LitBit(buffer[num + (i + 1)]))
      OBVIOUS
    <3>5. t \in Seq(Nat)
      BY <3>3, <3>4, LitField
    <3>6. f[i + 1] = f[i] \o t
      BY <1>5, <3>2, <3>4
    <3>7. QED BY <3>2, <3>5, <3>6
  <2>3. S = Nat
    <3> HIDE DEF S
    <3>1. S \in SUBSET Nat
      BY DEF S
    <3>2. QED BY <2>1, <2>2, <3>1, InductiveSet
  <2>4. QED BY <2>3
<1>7. f \in [0..n -> Seq(Nat)]
  <2>1. f = [i \in 0..n |-> f[i]]
    BY <1>3
  <2>2. QED BY <1>6, <2>1
<1>8. QED BY <1>3, <1>4, <1>5, <1>7, Zenon DEF Coded

\* Their length.
LEMMA CodedLength ==
  ASSUME NEW n \in 0..3, NEW g, NEW w \in Nat \ {0}, NEW x \in Seq(0..255), NEW j \in Nat,
         j + n <= Len(x), Coded(n, g, w, x, j)
  PROVE  g[n] \in Seq(Nat) /\ Len(g[n]) <= Len(g[0]) + 3 * w
<1>1. \A i \in 0..n : g[i] \in Seq(Nat) /\ Len(g[i]) \in Nat
  BY DEF Coded
<1>2. ASSUME NEW i \in 1..n PROVE Len(g[i]) = Len(g[i - 1]) + w
  <2>1. x[j + i] \in 0..255 /\ i - 1 \in 0..n /\ i \in 0..n
    <3>1. i \in Nat \ {0} /\ j + i <= Len(x) /\ i - 1 \in 0..n /\ i \in 0..n
      OBVIOUS
    <3>2. QED BY <3>1, ByteOf
  <2>2. PICK t : t = Field(w, LitBit(x[j + i]))
    OBVIOUS
  <2>3. t \in Seq(Nat) /\ Len(t) = w
    BY <2>1, <2>2, LitField
  <2>4. g[i] = g[i - 1] \o t
    BY <2>2 DEF Coded
  <2>5. QED BY <1>1, <2>1, <2>3, <2>4, Join
<1>3. PICK l \in [0..n -> Nat] : \A i \in 0..n : l[i] = Len(g[i])
  <2>1. [i \in 0..n |-> Len(g[i])] \in [0..n -> Nat]
    BY <1>1
  <2>2. QED BY <2>1
<1>4. \A i \in 1..n : l[i] = l[i - 1] + w
  <2>1. \A i \in 1..n : i \in 0..n /\ i - 1 \in 0..n
    OBVIOUS
  <2>2. QED BY <1>2, <1>3, <2>1, Zenon
<1>5. n \in {0, 1, 2, 3}
  OBVIOUS
<1>6. l[n] <= l[0] + 3 * w
  <2>1. CASE n = 0
    BY <2>1
  <2>2. CASE n = 1
    BY <1>4, <2>2
  <2>3. CASE n = 2
    <3>1. l[2] = l[1] + w /\ l[1] = l[0] + w /\ l[0] \in Nat
      BY <1>4, <2>3
    <3>2. QED BY <2>3, <3>1
  <2>4. CASE n = 3
    <3>1. l[3] = l[2] + w /\ l[2] = l[1] + w /\ l[1] = l[0] + w /\ l[0] \in Nat
      BY <1>4, <2>4
    <3>2. QED BY <2>4, <3>1
  <2>5. QED BY <1>5, <2>1, <2>2, <2>3, <2>4
<1>7. 0 \in 0..n /\ n \in 0..n
  OBVIOUS
<1>8. Len(g[n]) <= Len(g[0]) + 3 * w
  BY <1>3, <1>6, <1>7, Zenon
<1>9. QED BY <1>1, <1>7, <1>8, Zenon

\* What the decoder makes of them: behind o it has read k bytes of t, and
\* behind the codes of n bytes of x it has read k + n.
ReadOn(n, g, w, x, j, r, o, t, k, f) ==
  InBlock(Feed(r, o \o g[n]), SubSeq(t, 1, k + n), f)
SameBytes(n, x, j, t, k) == \A i \in 1..n : x[j + i] = t[k + i]

LEMMA CodedFed ==
  ASSUME NEW n \in Nat, NEW g, NEW w \in Nat \ {0}, NEW x \in Seq(0..255), NEW j \in Nat,
         j + n <= Len(x), Coded(n, g, w, x, j),
         NEW r \in Decoder, NEW o \in Seq(Nat), NEW t \in Seq(0..255), NEW k \in Nat,
         k + n <= Len(t), SameBytes(n, x, j, t, k),
         NEW f, InBlock(Feed(r, o \o g[0]), SubSeq(t, 1, k), f)
  PROVE  ReadOn(n, g, w, x, j, r, o, t, k, f)
<1>1. \A i \in 0..n : g[i] \in Seq(Nat)
  BY DEF Coded
<1> DEFINE In(i) == InBlock(Feed(r, o \o g[i]), SubSeq(t, 1, k + i), f)
           S == {i \in Nat : i <= n => In(i)}
<1>2. 0 \in S
  OBVIOUS
<1>3. ASSUME NEW i \in S PROVE i + 1 \in S
  <2>1. SUFFICES ASSUME i + 1 <= n PROVE In(i + 1)
    BY <1>3
  <2>2. /\ i + 1 \in 1..n /\ (i + 1) - 1 = i /\ i \in 0..n /\ i + 1 \in 0..n
        /\ i \in Nat /\ k + i \in Nat /\ k + (i + 1) = (k + i) + 1 /\ (k + i) + 1 <= Len(t)
    BY <1>3, <2>1
  <2>3. InBlock(Feed(r, o \o g[i]), SubSeq(t, 1, k + i), f)
    BY <1>3, <2>2
  <2>4. PICK c \in 0..255 : c = x[j + (i + 1)] /\ c = t[(k + i) + 1]
    <3>1. x[j + (i + 1)] \in 0..255
      <4>1. i + 1 \in Nat \ {0} /\ j + (i + 1) <= Len(x)
        BY <2>2
      <4>2. QED BY <4>1, ByteOf
    <3>2. x[j + (i + 1)] = t[(k + i) + 1]
      BY <2>2 DEF SameBytes
    <3>3. QED BY <3>1, <3>2
  <2>5. PICK u : u = Field(w, LitBit(c))
    OBVIOUS
  <2>6. u \in Seq(Nat) /\ g[i + 1] = g[i] \o u
    <3>1. u \in Seq(Nat)
      BY <2>5, LitField
    <3>2. g[i + 1] = g[i] \o u
      BY <2>2, <2>4, <2>5 DEF Coded
    <3>3. QED BY <3>1, <3>2
  <2>7. PICK a \in Seq(Nat) : a = o \o g[i]
    BY <1>1, <2>2, Join
  <2>8. o \o g[i + 1] = a \o u
    <3>1. (o \o g[i]) \o u = o \o (g[i] \o u)
      BY <1>1, <2>2, <2>6, Assoc
    <3>2. QED BY <2>6, <2>7, <3>1, Zenon
  <2>9. Feed(r, a \o u) = Feed(Feed(r, a), u)
    BY <2>6, <2>7, FeedConcat
  <2>10. InBlock(Feed(Feed(r, a), u), Append(SubSeq(t, 1, k + i), c), f)
    <3>1. InBlock(Feed(r, a), SubSeq(t, 1, k + i), f)
      BY <2>3, <2>7, Zenon
    <3>2. QED BY <2>5, <3>1, LiteralFed
  <2>11. Append(SubSeq(t, 1, k + i), c) = SubSeq(t, 1, k + (i + 1))
    BY <2>2, <2>4, NextByte
  <2>12. QED BY <2>8, <2>9, <2>10, <2>11, Zenon
<1>4. S = Nat
  <2> HIDE DEF S
  <2>1. S \in SUBSET Nat
    BY DEF S
  <2>2. QED BY <1>2, <1>3, <2>1, InductiveSet
<1>5. n \in S /\ n <= n
  <2> HIDE DEF S
  <2>1. QED BY <1>4
<1>6. QED BY <1>5 DEF ReadOn

(***************************************************************************)
(* The constants, and the types                                            *)
(***************************************************************************)
LEMMA Sizes ==
  /\ RegBits \in 16..64 /\ OutBits \in Nat /\ 4 * RegBits <= OutBits /\ Size \in Nat \ {0}
BY HuffmanAssumption, RegFacts

LEMMA Widths ==
  /\ \A h \in HdrWidths : h \in Nat \ {0} /\ h <= RegBits /\ h + 4 * RegBits < OutBits
  /\ \A l \in LitWidths \cup EobWidths : l \in Nat \ {0} /\ 7 + 3 * l <= RegBits
<1>1. ASSUME NEW h \in HdrWidths
      PROVE  h \in Nat \ {0} /\ h <= RegBits /\ h + 4 * RegBits < OutBits
  <2>1. h \in Nat \ {0} /\ h <= RegBits /\ h + 2 * RegBits < OutBits - 2 * RegBits
    BY HuffmanAssumption
  <2>2. QED BY <2>1, Sizes
<1>2. ASSUME NEW l \in LitWidths \cup EobWidths PROVE l \in Nat \ {0} /\ 7 + 3 * l <= RegBits
  BY HuffmanAssumption
<1>3. QED BY <1>1, <1>2

LEMMA TypeFacts ==
  ASSUME Types
  PROVE  /\ text \in Seq(0..255) /\ Len(text) \in Nat /\ given \in Nat /\ todo \in Nat
         /\ Taken \in 0..Len(text) /\ Taken \in Nat
         /\ buf \in Buffers /\ Stream(buf) \in Seq(Nat) /\ buf.out \in Seq(Nat)
         /\ buf.bits \in Seq(Nat) /\ Len(buf.out) \in Nat /\ Len(buf.bits) \in Nat
         /\ Len(Stream(buf)) = Len(buf.out) + Len(buf.bits)
         /\ Len(buffer) \in Nat /\ num \in Nat /\ Ahead \in Decoder
<1>1. text \in Seq(0..255)
  BY WriterAssumption DEF Types
<1>2. Len(text) \in Nat /\ given \in Nat /\ todo \in Nat /\ Taken \in 0..Len(text)
      /\ Taken \in Nat
  BY <1>1 DEF Types, Taken
<1>3. buf \in Buffers /\ remote \in Decoder
  BY DEF Types, BufOK
<1>4. /\ buf.out \in Seq(Nat) /\ buf.bits \in Seq(Nat) /\ Stream(buf) \in Seq(Nat)
      /\ Len(buf.out) \in Nat /\ Len(buf.bits) \in Nat
      /\ Len(Stream(buf)) = Len(buf.out) + Len(buf.bits)
  BY <1>3, StreamFacts
<1>5. Ahead \in Decoder
  BY <1>3, <1>4, FeedType DEF Ahead
<1>6. Len(buffer) \in Nat /\ num \in Nat
  BY DEF Types
<1>7. QED BY <1>1, <1>2, <1>3, <1>4, <1>5, <1>6

(***************************************************************************)
(* The calls                                                               *)
(***************************************************************************)
\* A new stream.
LEMMA NewStream ==
  ASSUME buf = Empty, remote = Fresh, text \in Texts, given = 0
  PROVE  /\ BufOK(buf) /\ remote \in Decoder /\ remote.n = 0 /\ remote.mode = "header"
         /\ remote.plain = <<>> /\ buf.out = <<>>
         /\ AtBlock(Ahead, SubSeq(text, 1, 0)) /\ OnlyGivenData
<1>1. buf \in Buffers /\ buf.out = <<>> /\ buf.bits = <<>>
  BY DEF Empty, Buffers
<1>2. BufOK(buf)
  BY <1>1, RegFacts DEF BufOK
<1>3. remote \in Decoder /\ remote.n = 0 /\ remote.mode = "header" /\ remote.plain = <<>>
      /\ remote.k = 0 /\ remote.len = 0
  BY FreshType DEF Fresh
<1>4. Ahead = remote
  BY <1>1, <1>3, FeedEmpty DEF Ahead, Stream
<1>5. text \in Seq(0..255)
  BY WriterAssumption
<1>6. SubSeq(text, 1, 0) = <<>>
  BY <1>5
<1>7. AtBlock(Ahead, SubSeq(text, 1, 0))
  BY <1>3, <1>4, <1>6 DEF AtBlock
<1>8. OnlyGivenData
  BY <1>3, <1>6 DEF OnlyGivenData, Sound
<1>9. QED BY <1>1, <1>2, <1>3, <1>7, <1>8

LEMMA InitInv ==
  ASSUME Init
  PROVE  IInv
<1>1. /\ pc = "idle" /\ call = "new" /\ todo = 0 /\ werr = "nil" /\ buf = Empty
      /\ text \in Texts /\ given = 0 /\ ret = [call |-> "new", err |-> "nil"]
      /\ remote = Fresh /\ flushes = 0 /\ buffer = <<>> /\ num = 0
  BY DEF Init, WriterInit, InitHuff
<1>2. /\ BufOK(buf) /\ remote \in Decoder /\ remote.n = 0 /\ remote.mode = "header"
      /\ buf.out = <<>> /\ AtBlock(Ahead, SubSeq(text, 1, 0)) /\ OnlyGivenData
  BY <1>1, NewStream
<1>3. text \in Seq(0..255)
  BY <1>1, WriterAssumption
<1>4. Types
  BY <1>1, <1>2, <1>3, Sizes DEF Types
<1>5. Calls
  BY <1>1 DEF Calls
<1>6. OutputInv
  BY <1>1, <1>2 DEF OutputInv
<1>7. Taken = 0 /\ Start = 0
  <2>1. Len(buffer) = 0
    BY <1>1
  <2>2. Taken = 0 - 0 /\ Start = (0 - 0) - 0
    BY <1>1, <2>1, Zenon DEF Taken, Start
  <2>3. QED BY <2>2
<1>8. Buffered
  BY <1>1, <1>3, <1>7 DEF Buffered
<1>9. AtRest /\ Inside /\ Between /\ Over /\ Closed /\ NotEnded /\ ErrorKept
  BY <1>1, <1>2, <1>7
     DEF AtRest, Inside, Between, Over, Closed, NotEnded, ErrorKept
<1>10. QED BY <1>1, <1>2, <1>4, <1>5, <1>6, <1>8, <1>9 DEF IInv, StreamInv

LEMMA ResetInv ==
  ASSUME NEW t \in Texts, Reset(t), IInv
  PROVE  IInv'
<1>1. /\ pc' = "idle" /\ call' = "new" /\ todo' = 0 /\ werr' = "nil" /\ buf' = Empty
      /\ text' \in Texts /\ given' = 0 /\ ret' = [call |-> "new", err |-> "nil"]
      /\ remote' = Fresh /\ flushes' = 0 /\ buffer' = <<>> /\ num' = 0
  BY DEF Reset, ResetWriter, IInv, Calls
<1>2. /\ BufOK(buf') /\ remote' \in Decoder /\ remote'.n = 0 /\ remote'.mode = "header"
      /\ buf'.out = <<>> /\ AtBlock(Ahead', SubSeq(text', 1, 0)) /\ OnlyGivenData'
  <2>1. /\ buf' \in Buffers /\ buf'.out = <<>> /\ buf'.bits = <<>>
    BY <1>1 DEF Empty, Buffers
  <2>2. BufOK(buf')
    BY <2>1, RegFacts DEF BufOK
  <2>3. remote' \in Decoder /\ remote'.n = 0 /\ remote'.mode = "header"
        /\ remote'.plain = <<>> /\ remote'.k = 0 /\ remote'.len = 0
    BY <1>1, FreshType DEF Fresh
  <2>4. Ahead' = remote'
    BY <2>1, <2>3, FeedEmpty DEF Ahead, Stream
  <2>5. SubSeq(text', 1, 0) = <<>>
    BY <1>1, WriterAssumption
  <2>6. AtBlock(Ahead', SubSeq(text', 1, 0))
    BY <2>3, <2>4, <2>5 DEF AtBlock
  <2>7. OnlyGivenData'
    BY <1>1, <2>3, <2>5 DEF OnlyGivenData, Sound
  <2>8. QED BY <2>1, <2>2, <2>3, <2>6, <2>7
<1>3. text' \in Seq(0..255)
  BY <1>1, WriterAssumption
<1>4. Types'
  BY <1>1, <1>2, <1>3, Sizes DEF Types
<1>5. Calls'
  BY <1>1 DEF Calls
<1>6. OutputInv'
  BY <1>1, <1>2 DEF OutputInv
<1>7. Taken' = 0 /\ Start' = 0
  <2>1. Len(buffer') = 0
    BY <1>1
  <2>2. Taken' = 0 - 0 /\ Start' = (0 - 0) - 0
    BY <1>1, <2>1, Zenon DEF Taken, Start
  <2>3. QED BY <2>2
<1>8. Buffered'
  BY <1>1, <1>3, <1>7 DEF Buffered
<1>9. AtRest' /\ Inside' /\ Between' /\ Over' /\ Closed' /\ NotEnded' /\ ErrorKept'
  BY <1>1, <1>2, <1>7
     DEF AtRest, Inside, Between, Over, Closed, NotEnded, ErrorKept
<1>10. QED BY <1>1, <1>2, <1>4, <1>5, <1>6, <1>8, <1>9 DEF IInv, StreamInv

\* A call begins.
LEMMA CallWriteInv ==
  ASSUME NEW n \in WriteSizes, CallWrite(n), UNCHANGED huffVars, IInv
  PROVE  IInv'
<1>1. /\ pc = "idle" /\ ret.call # "close" /\ werr = "nil" /\ (ret.err = "nil" \/ GoesOn)
      /\ given + n <= Len(text) /\ pc' = "loop" /\ call' = "write" /\ todo' = n
      /\ given' = given + n /\ werr' = werr /\ buf' = buf /\ text' = text /\ ret' = ret
      /\ remote' = remote /\ flushes' = flushes
      /\ buffer' = buffer /\ num' = num /\ code' = code
  BY DEF CallWrite, Usable, huffVars
<1>2. n \in Nat /\ todo = 0
  BY <1>1, WriterAssumption DEF IInv, Calls
<1>3. /\ text \in Seq(0..255) /\ Len(text) \in Nat /\ given \in Nat
      /\ Taken \in Nat /\ Len(buffer) \in Nat
  BY TypeFacts DEF IInv
<1>4. Taken' = Taken /\ Start' = Start /\ Ahead' = Ahead
  <2>1. Taken' = Taken
    BY <1>1, <1>2, <1>3 DEF Taken
  <2>2. QED BY <1>1, <2>1 DEF Start, Ahead
<1>5. Types'
  BY <1>1, <1>2, <1>3 DEF IInv, Types
<1>6. Calls'
  BY <1>1, <1>2 DEF IInv, Calls
<1>7. ~GoesOn \/ Unflushed => Live
  BY <1>1 DEF IInv, StreamInv, ErrorKept, Live
<1>8. OutputInv'
  BY <1>1, <1>7 DEF IInv, OutputInv, Unflushed
<1>9. StreamInv'
  <2>1. SUFFICES ASSUME Unflushed
                 PROVE  /\ call' # "flush" /\ ErrorKept' /\ OnlyGivenData' /\ Buffered'
                        /\ AtRest' /\ Inside' /\ Between' /\ Over' /\ Closed' /\ NotEnded'
    BY <1>1, Zenon DEF StreamInv, Unflushed
  <2>2. Live /\ OnlyGivenData /\ Buffered /\ AtRest /\ NotEnded
    BY <1>7, <2>1 DEF IInv, StreamInv
  <2>3. OnlyGivenData'
    BY <1>1, <1>2, <1>3, <2>2 DEF OnlyGivenData, Sound
  <2>4. Buffered'
    BY <1>1, <1>4, <2>2 DEF Buffered
  <2>5. AtRest'
    BY <1>1, <1>4, <2>2 DEF AtRest
  <2>6. Inside' /\ Between' /\ Over' /\ Closed' /\ NotEnded' /\ ErrorKept' /\ call' # "flush"
    BY <1>1, <2>2 DEF Inside, Between, Over, Closed, NotEnded, ErrorKept
  <2>7. QED BY <2>3, <2>4, <2>5, <2>6
<1>10. QED BY <1>5, <1>6, <1>8, <1>9 DEF IInv

LEMMA CallFlushInv ==
  ASSUME CallFlush, UNCHANGED huffVars, IInv
  PROVE  IInv'
<1>1. /\ pc = "idle" /\ ret.call # "close" /\ werr = "nil" /\ (ret.err = "nil" \/ GoesOn)
      /\ pc' = "compress" /\ call' = "flush" /\ flushes' = flushes + 1
      /\ todo' = todo /\ given' = given /\ werr' = werr /\ buf' = buf /\ text' = text
      /\ ret' = ret /\ remote' = remote /\ buffer' = buffer /\ num' = num /\ code' = code
  BY DEF CallFlush, Usable, huffVars
<1>2. flushes' \in Nat \ {0} /\ todo = 0
  BY <1>1 DEF IInv, Types, Calls
<1>3. Types'
  BY <1>1, <1>2 DEF IInv, Types
<1>4. Calls'
  BY <1>1, <1>2 DEF IInv, Calls
<1>5. OutputInv'
  BY <1>1, <1>2 DEF IInv, OutputInv, Unflushed, Live
<1>6. StreamInv'
  BY <1>2 DEF StreamInv, Unflushed
<1>7. QED BY <1>3, <1>4, <1>5, <1>6 DEF IInv

LEMMA CallCloseInv ==
  ASSUME CallClose, UNCHANGED huffVars, IInv
  PROVE  IInv'
<1>1. /\ pc = "idle" /\ ret.call # "close" /\ werr = "nil" /\ (ret.err = "nil" \/ GoesOn)
      /\ pc' = "compress" /\ call' = "close" /\ flushes' = flushes
      /\ todo' = todo /\ given' = given /\ werr' = werr /\ buf' = buf /\ text' = text
      /\ ret' = ret /\ remote' = remote /\ buffer' = buffer /\ num' = num /\ code' = code
  BY DEF CallClose, Usable, huffVars
<1>2. todo = 0
  BY <1>1 DEF IInv, Calls
<1>3. Taken' = Taken /\ Start' = Start /\ Ahead' = Ahead
  BY <1>1 DEF Taken, Start, Ahead
<1>4. Types'
  BY <1>1, <1>2 DEF IInv, Types
<1>5. Calls'
  BY <1>1, <1>2 DEF IInv, Calls
<1>6. ~GoesOn \/ Unflushed => Live
  BY <1>1 DEF IInv, StreamInv, ErrorKept, Live
<1>7. OutputInv'
  BY <1>1, <1>6 DEF IInv, OutputInv, Unflushed
<1>8. StreamInv'
  <2>1. SUFFICES ASSUME Unflushed
                 PROVE  /\ call' # "flush" /\ ErrorKept' /\ OnlyGivenData' /\ Buffered'
                        /\ AtRest' /\ Inside' /\ Between' /\ Over' /\ Closed' /\ NotEnded'
    BY <1>1, Zenon DEF StreamInv, Unflushed
  <2>2. Live /\ OnlyGivenData /\ Buffered /\ AtRest /\ NotEnded
    BY <1>6, <2>1 DEF IInv, StreamInv
  <2>3. OnlyGivenData'
    BY <1>1, <2>2 DEF OnlyGivenData, Sound
  <2>4. Buffered'
    BY <1>1, <1>3, <2>2 DEF Buffered
  <2>5. AtRest'
    BY <1>1, <1>3, <2>2 DEF AtRest
  <2>6. Inside' /\ Between' /\ Over' /\ Closed' /\ NotEnded' /\ ErrorKept' /\ call' # "flush"
    BY <1>1, <2>2 DEF Inside, Between, Over, Closed, NotEnded, ErrorKept
  <2>7. QED BY <2>3, <2>4, <2>5, <2>6
<1>9. QED BY <1>4, <1>5, <1>7, <1>8 DEF IInv

\* A call ends, or fails at once.
LEMMA ReturnInv ==
  ASSUME \/ \E c \in {"write", "flush", "close"} : CallAfterError(c)
         \/ ReturnNil \/ ReturnError,
         UNCHANGED huffVars, IInv
  PROVE  IInv'
<1>1. /\ pc' = "idle" /\ flushes' = flushes /\ call' = call
      /\ todo' = todo /\ given' = given /\ buf' = buf /\ text' = text
      /\ remote' = remote /\ buffer' = buffer /\ num' = num /\ code' = code
  BY DEF CallAfterError, Usable, ReturnNil, ReturnError, Return, huffVars
<1>2. \/ /\ pc = "idle" /\ werr # "nil" /\ werr' = werr
         /\ ret'.err = werr /\ ret.call # "close"
      \/ /\ (pc = "loop" /\ todo = 0) \/ pc = "done"
         /\ werr' = werr /\ ret' = [call |-> call, err |-> "nil"]
      \/ /\ pc = "failed" /\ werr' = (IF call = "write" THEN "Fail" ELSE werr)
         /\ ret' = [call |-> call, err |-> "Fail"]
  BY DEF CallAfterError, Usable, ReturnNil, ReturnError, Return
<1>3. todo = 0 /\ num = 0
  BY <1>2 DEF IInv, Calls
<1>4. Taken' = Taken /\ Start' = Start /\ Ahead' = Ahead
  BY <1>1 DEF Taken, Start, Ahead
<1>5. Types'
  BY <1>1, <1>2, <1>3 DEF IInv, Types
<1>6. Calls'
  BY <1>1, <1>2, <1>3 DEF IInv, Calls
<1>7. Live' => pc = "loop" \/ (pc = "done" /\ call # "close")
  BY <1>1, <1>2 DEF IInv, Calls, Types, Live
<1>8. OutputInv'
  <2>1. Live' => pc = "loop" \/ (pc = "done" /\ call = "flush")
    BY <1>7 DEF IInv, Calls, Types
  <2>2. QED BY <1>1, <2>1 DEF IInv, OutputInv, Unflushed, Live
<1>9. StreamInv'
  <2>1. SUFFICES ASSUME Unflushed
                 PROVE  /\ call' # "flush" /\ ErrorKept' /\ OnlyGivenData' /\ Buffered'
                        /\ AtRest' /\ Inside' /\ Between' /\ Over' /\ Closed' /\ NotEnded'
    BY <1>1, Zenon DEF StreamInv, Unflushed
  <2>2. /\ OnlyGivenData /\ Buffered /\ AtRest /\ NotEnded /\ call # "flush"
        /\ pc = "done" => call = "close"
    BY <2>1 DEF IInv, StreamInv, Calls, Types
  <2>3. OnlyGivenData'
    BY <1>1, <2>2 DEF OnlyGivenData, Sound
  <2>4. Live' => Live /\ pc = "loop"
    BY <1>7, <2>2 DEF Live
  <2>5. Buffered' /\ AtRest' /\ NotEnded'
    BY <1>1, <1>4, <2>2, <2>4 DEF Buffered, AtRest, NotEnded
  <2>6. ErrorKept'
    BY <1>1, <1>2, <2>2 DEF IInv, Calls, Types, ErrorKept
  <2>7. Inside' /\ Between' /\ Over' /\ Closed' /\ call' # "flush"
    BY <1>1, <2>2 DEF Inside, Between, Over, Closed
  <2>8. QED BY <2>3, <2>5, <2>6, <2>7
<1>10. QED BY <1>5, <1>6, <1>8, <1>9 DEF IInv

(***************************************************************************)
(* The work of a call                                                      *)
(***************************************************************************)
LEMMA AccumulateInv ==
  ASSUME Accumulate, IInv
  PROVE  IInv'
<1>1. PICK n : n = Min({todo, Room})
  OBVIOUS
<1>2. /\ pc = "loop" /\ buffer' = buffer \o NextData(n) /\ todo' = todo - n
      /\ pc' = (IF Full(buffer') THEN "compress" ELSE "loop")
      /\ call' = call /\ werr' = werr /\ buf' = buf /\ remote' = remote
      /\ text' = text /\ given' = given /\ ret' = ret /\ flushes' = flushes
      /\ num' = num /\ code' = code
  BY <1>1 DEF Accumulate, clientVars
<1>3. /\ text \in Seq(0..255) /\ Len(text) \in Nat /\ given \in Nat /\ todo \in Nat
      /\ Taken \in 0..Len(text) /\ Taken \in Nat /\ Len(buffer) \in Nat
      /\ buffer \in Seq(0..255) /\ Len(buffer) <= Size /\ given <= Len(text)
  <2>1. Types
    BY DEF IInv
  <2>2. buffer \in Seq(0..255) /\ Len(buffer) <= Size
    BY <2>1 DEF Types
  <2>3. given <= Len(text)
    BY <2>1, TypeFacts DEF Types
  <2>4. QED BY <2>1, <2>2, <2>3, TypeFacts
<1>4. n \in Nat /\ n <= todo /\ n <= Size - Len(buffer)
  <2>1. PICK m \in Nat : m = Size - Len(buffer)
    <3>1. PICK x \in Nat, y \in Nat : x = Size /\ y = Len(buffer) /\ y <= x
      BY <1>3, Sizes
    <3>2. x - y \in Nat
      BY <3>1
    <3>3. QED BY <3>1, <3>2
  <2>2. Room = m
    BY <2>1 DEF Room
  <2>3. QED BY <1>1, <1>3, <2>1, <2>2, MinTwo
<1>5. PICK d : d = NextData(n)
  OBVIOUS
<1>6. d = SubSeq(text, Taken + 1, Taken + n) /\ Taken + n <= Len(text)
  BY <1>3, <1>4, <1>5 DEF NextData, Taken
<1>7. d \in Seq(0..255) /\ Len(d) = n
  <2>1. PICK t \in Seq(0..255), a \in Nat : t = text /\ a = Taken /\ a + n <= Len(t)
    BY <1>3, <1>6
  <2>2. SubSeq(t, a + 1, a + n) \in Seq(0..255) /\ Len(SubSeq(t, a + 1, a + n)) = n
    <3>1. IsPart(t, a, n)
      BY <1>4, <2>1, PartOf, Zenon
    <3>2. QED BY <3>1, Zenon DEF IsPart
  <2>3. QED BY <1>6, <2>1, <2>2
<1>8. buffer' \in Seq(0..255) /\ Len(buffer') = Len(buffer) + n
  BY <1>2, <1>3, <1>5, <1>7, Concatenated
<1>9. Taken' = Taken + n /\ Start' = Start
  <2>1. Taken' = Taken + n
    BY <1>2, <1>3, <1>4 DEF Taken
  <2>2. QED BY <1>3, <1>4, <1>8, <2>1 DEF Start
<1>10. Ahead' = Ahead /\ call = "write"
  BY <1>2 DEF Ahead, IInv, Calls
<1>11. num = 0
  BY <1>2 DEF IInv, Calls
<1>12. Types'
  <2>1. Len(buffer') <= Size /\ num' \in 0..Len(buffer')
    BY <1>2, <1>3, <1>4, <1>8, <1>11, Sizes
  <2>2. todo' \in Nat /\ todo' <= given'
    BY <1>2, <1>3, <1>4 DEF IInv, Types
  <2>3. QED BY <1>2, <1>8, <2>1, <2>2 DEF IInv, Types
<1>13. pc' = "compress" => buffer' # <<>>
  <2>1. pc' = "compress" => Len(buffer') = Size
    BY <1>2 DEF Full
  <2>2. QED BY <1>8, <2>1, Sizes
<1>14. Calls'
  BY <1>2, <1>10, <1>11, <1>13 DEF Calls
<1>15. Live /\ Live'
  BY <1>2 DEF Live
<1>16. OutputInv'
  BY <1>2, <1>15 DEF IInv, OutputInv, Unflushed
<1>17. StreamInv'
  <2>1. SUFFICES ASSUME Unflushed
                 PROVE  /\ call' # "flush" /\ ErrorKept' /\ OnlyGivenData' /\ Buffered'
                        /\ AtRest' /\ Inside' /\ Between' /\ Over' /\ Closed' /\ NotEnded'
    BY <1>2, Zenon DEF StreamInv, Unflushed
  <2>2. OnlyGivenData /\ Buffered /\ AtRest /\ NotEnded
    BY <2>1 DEF IInv, StreamInv
  <2>3. OnlyGivenData'
    BY <1>2, <2>2 DEF OnlyGivenData, Sound
  <2>4. Buffered'
    <3>1. PICK a \in Nat, b \in Nat, c \in Nat : /\ a = Start /\ b = Taken /\ c = Taken + n
                                                 /\ a <= b /\ b <= c /\ c <= Len(text)
      <4>1. PICK b \in Nat, l \in Nat : b = Taken /\ l = Len(buffer) /\ l <= b
        BY <1>3, <1>15, <2>2 DEF Buffered
      <4>2. b - l \in Nat /\ b - l <= b /\ b <= b + n /\ b + n \in Nat
        BY <1>4, <4>1
      <4>3. Start = b - l
        BY <4>1 DEF Start
      <4>4. b + n <= Len(text)
        BY <1>6, <4>1
      <4>5. QED BY <4>1, <4>2, <4>3, <4>4
    <3>2. buffer = SubSeq(text, a + 1, b) /\ d = SubSeq(text, b + 1, c)
      BY <1>6, <1>15, <2>2, <3>1 DEF Buffered
    <3>3. buffer' = SubSeq(text, a + 1, c)
      <4>1. SubSeq(text, a + 1, b) \o SubSeq(text, b + 1, c) = SubSeq(text, a + 1, c)
        <5>1. PICK t \in Seq(0..255) : t = text
          BY <1>3
        <5>2. c <= Len(t)
          BY <3>1, <5>1
        <5>3. Adjoin(t, a, b, c)
          BY <3>1, <5>2, Adjacent
        <5>4. QED BY <5>1, <5>3, Zenon DEF Adjoin
      <4>2. QED BY <1>2, <1>5, <3>2, <4>1, Zenon
    <3>4. Len(buffer') <= Taken'
      BY <1>3, <1>4, <1>8, <1>9, <1>15, <2>2 DEF Buffered
    <3>5. text' = text
      BY <1>2
    <3>6. QED BY <1>9, <3>1, <3>3, <3>4, <3>5, Zenon DEF Buffered
  <2>5. AtRest'
    BY <1>2, <1>9, <1>10, <1>15, <2>2 DEF AtRest
  <2>6. Inside' /\ Between' /\ Over' /\ Closed' /\ ErrorKept' /\ call' # "flush"
    BY <1>2, <1>10 DEF Inside, Between, Over, Closed, ErrorKept
  <2>7. NotEnded'
    BY <1>2, <1>15, <2>2 DEF NotEnded
  <2>8. QED BY <2>3, <2>4, <2>5, <2>6, <2>7
<1>18. QED BY <1>12, <1>14, <1>16, <1>17 DEF IInv

LEMMA CloseEmptyInv ==
  ASSUME CloseEmpty, IInv
  PROVE  IInv'
<1>1. /\ pc = "compress" /\ call = "close" /\ buffer = <<>> /\ pc' = "out"
      /\ buf' = WriteEmptyBlock(buf, 1)
      /\ call' = call /\ todo' = todo /\ werr' = werr /\ remote' = remote
      /\ text' = text /\ given' = given /\ ret' = ret /\ flushes' = flushes
      /\ buffer' = buffer /\ num' = num /\ code' = code
  BY DEF CloseEmpty, clientVars, huffVars
<1>2. BufOK(buf) /\ remote \in Decoder /\ remote.n = 0
  BY DEF IInv, Types
<1>3. /\ text \in Seq(0..255) /\ Taken \in Nat /\ Stream(buf) \in Seq(Nat)
      /\ Len(buf.bits) \in Nat /\ Len(buf.out) \in Nat
  BY TypeFacts DEF IInv
<1>4. /\ BufOK(buf') /\ buf'.bits = <<>>
      /\ Stream(buf') = Stream(buf) \o EmptyBlock(1, Len(Stream(buf)))
      /\ Len(buf'.out) <= Len(buf.out) + Len(buf.bits) + 42
  BY <1>1, <1>2, WriteEmptyBlockFacts
<1>5. Len(buffer) = 0 /\ num = 0 /\ todo = 0
  BY <1>1 DEF IInv, Calls
<1>6. Taken' = Taken /\ Start' = Taken /\ Start = Taken
  BY <1>1, <1>3, <1>5 DEF Taken, Start
<1>7. Types'
  BY <1>1, <1>4 DEF IInv, Types
<1>8. Calls'
  BY <1>1, <1>5 DEF Calls
<1>9. Live /\ Live'
  BY <1>1 DEF Live
<1>10. OutputInv'
  <2>1. buf.out = <<>> => Len(buf'.out) <= OutBits
    <3>1. Len(buf.bits) <= RegBits
      BY <1>2 DEF BufOK
    <3>2. PICK x \in Nat : x = Len(buf.bits) /\ x <= RegBits
      BY <1>3, <3>1
    <3>3. 0 + x + 42 <= OutBits
      BY <3>2, Sizes
    <3>4. BufOK(buf') => Len(buf'.out) \in Nat
      BY StreamFacts DEF BufOK
    <3>5. Len(<<>>) = 0
      OBVIOUS
    <3>6. buf.out = <<>> => Len(buf'.out) <= 0 + x + 42
      BY <1>4, <3>2, <3>5
    <3>7. QED BY <1>4, <3>2, <3>3, <3>4, <3>6, Sizes
  <2>2. QED BY <1>1, <1>9, <2>1 DEF IInv, OutputInv, Unflushed
<1>11. StreamInv'
  <2>1. SUFFICES ASSUME Unflushed
                 PROVE  /\ call' # "flush" /\ ErrorKept' /\ OnlyGivenData' /\ Buffered'
                        /\ AtRest' /\ Inside' /\ Between' /\ Over' /\ Closed' /\ NotEnded'
    BY <1>1, Zenon DEF StreamInv, Unflushed
  <2>2. OnlyGivenData /\ Buffered /\ AtRest /\ NotEnded
    BY <2>1 DEF IInv, StreamInv
  <2>3. OnlyGivenData'
    BY <1>1, <2>2 DEF OnlyGivenData, Sound
  <2>4. Buffered'
    BY <1>1, <1>6, <1>9, <2>2 DEF Buffered
  <2>5. AtEnd(Ahead', SubSeq(text, 1, Taken))
    <3>1. AtBlock(Feed(remote, Stream(buf)), SubSeq(text, 1, Taken))
      BY <1>1, <1>6, <1>9, <2>2 DEF AtRest, Ahead
    <3>2. 1 \in {0, 1}
      OBVIOUS
    <3>3. AtEnd(Feed(remote, Stream(buf) \o EmptyBlock(1, Len(Stream(buf)))),
                SubSeq(text, 1, Taken))
      BY <1>2, <1>3, <3>1, <3>2, EmptyBlockRead
    <3>4. QED BY <1>1, <1>4, <3>3 DEF Ahead
  <2>6. Over'
    BY <1>1, <1>4, <1>6, <2>5 DEF Over
  <2>7. AtRest' /\ Inside' /\ Between' /\ Closed' /\ ErrorKept' /\ call' # "flush"
    BY <1>1, <1>5 DEF AtRest, Inside, Between, Closed, ErrorKept
  <2>8. NotEnded'
    BY <1>1, <1>9, <2>2 DEF NotEnded
  <2>9. QED BY <2>3, <2>4, <2>6, <2>7, <2>8
<1>12. QED BY <1>7, <1>8, <1>10, <1>11 DEF IInv

LEMMA BlockHeaderInv ==
  ASSUME NEW h \in HdrWidths, NEW l \in LitWidths, NEW e \in EobWidths,
         BlockHeader(h, l, e), IInv
  PROVE  IInv'
<1>1. PICK b : b = WriteBit(WriteBit(buf, <<Last, 0, 1>>), Field(h, Codes))
  OBVIOUS
<1>2. /\ pc = "compress" /\ ~(call = "close" /\ buffer = <<>>)
      /\ code' = [lit |-> l, eob |-> e] /\ num' = 0
      /\ IF buffer = <<>> THEN buf' = WriteEmptyBlock(b, 0) /\ pc' = "out"
                          ELSE buf' = Sync(b) /\ pc' = "bytes"
      /\ call' = call /\ todo' = todo /\ werr' = werr /\ remote' = remote
      /\ text' = text /\ given' = given /\ ret' = ret /\ flushes' = flushes
      /\ buffer' = buffer
  BY <1>1 DEF BlockHeader, clientVars, Last
<1>3. BufOK(buf) /\ remote \in Decoder /\ remote.n = 0 /\ Last \in {0, 1}
  BY DEF IInv, Types, Last
<1>4. PICK v \in Seq(Nat) : v = <<Last, 0, 1>> \o Field(h, Codes)
  <2>1. h \in Nat /\ Codes \in Nat
    BY Widths DEF Codes
  <2>2. <<Last, 0, 1>> \in Seq(Nat) /\ Field(h, Codes) \in Seq(Nat)
    BY <1>3, <2>1, AnyField
  <2>3. QED BY <2>2, Join
<1>5. /\ BufOK(b) /\ Stream(b) = Stream(buf) \o v
      /\ Len(Stream(b)) = Len(Stream(buf)) + 3 + h
  <2>1. PICK n \in Nat \ {0}, f \in {0, 1} : n = h /\ n <= RegBits /\ f = Last
    BY <1>3, Widths
  <2>2. HeaderIn(buf, WriteBit(WriteBit(buf, <<f, 0, 1>>), Field(n, Codes)), f, n)
    BY <1>3, <2>1, HeaderWritten, Zenon
  <2>3. HeaderIn(buf, b, Last, h)
    BY <1>1, <2>1, <2>2, Zenon
  <2>4. QED BY <1>4, <2>3, Zenon DEF HeaderIn
<1>6. /\ b \in Buffers /\ Len(b.out) % 8 = 0 /\ Len(b.out) \in Nat /\ Len(b.bits) \in Nat
      /\ Len(Stream(b)) = Len(b.out) + Len(b.bits)
  BY <1>5, StreamFacts DEF BufOK
<1>7. /\ Stream(buf) \in Seq(Nat) /\ Len(buf.bits) \in Nat /\ Len(buf.out) \in Nat
      /\ Len(Stream(buf)) = Len(buf.out) + Len(buf.bits)
      /\ Len(buf.bits) <= RegBits
  <2>1. Types
    BY DEF IInv
  <2>2. Len(buf.bits) <= RegBits
    BY <1>3 DEF BufOK
  <2>3. QED BY <2>1, <2>2, TypeFacts
<1>8. Live /\ Live'
  BY <1>2 DEF Live
<1>9. buf.out = <<>> => Len(b.out) + Len(b.bits) <= RegBits + 3 + h
  <2>1. SUFFICES ASSUME buf.out = <<>> PROVE Len(b.out) + Len(b.bits) <= RegBits + 3 + h
    OBVIOUS
  <2>2. PICK x \in Nat : x = Len(buf.bits) /\ x <= RegBits
    BY <1>7
  <2>3. Len(buf.out) = 0
    BY <2>1
  <2>4. Len(b.out) + Len(b.bits) = (0 + x) + 3 + h
    BY <1>5, <1>6, <1>7, <2>2, <2>3, Zenon
  <2>5. h \in Nat /\ RegBits \in Nat
    BY Widths, Sizes
  <2>6. (0 + x) + 3 + h <= RegBits + 3 + h
    BY <2>2, <2>5
  <2>7. QED BY <2>4, <2>6, Zenon
<1>10. num = 0
  BY <1>2 DEF IInv, Calls
<1>11. h \in Nat /\ h + 4 * RegBits < OutBits /\ RegBits \in 16..64 /\ OutBits \in Nat
  BY Widths, Sizes
<1>12. CASE buffer = <<>>
  <2>1. call = "flush"
    BY <1>2, <1>12 DEF IInv, Calls, Types
  <2>2. 0 \in {0, 1}
    OBVIOUS
  <2>3. BufOK(buf') /\ Len(buf'.out) <= Len(b.out) + Len(b.bits) + 42
    BY <1>2, <1>5, <1>12, <2>2, WriteEmptyBlockFacts
  <2>4. Len(buffer) = 0
    BY <1>12
  <2>5. Types'
    BY <1>2, <2>3, <2>4 DEF IInv, Types
  <2>6. Calls'
    BY <1>2, <1>12, <2>1, <2>4 DEF IInv, Calls
  <2>7. buf.out = <<>> => Len(buf'.out) <= OutBits
    <3>1. PICK x \in Nat, y \in Nat : x = Len(b.out) + Len(b.bits) /\ y = Len(buf'.out)
      <4>1. Len(buf'.out) \in Nat
        BY <2>3, StreamFacts DEF BufOK
      <4>2. PICK z \in Nat, u \in Nat : z = Len(b.out) /\ u = Len(b.bits)
        BY <1>6
      <4>3. z + u \in Nat
        OBVIOUS
      <4>4. QED BY <4>1, <4>2, <4>3, Zenon
    <3>2. x <= RegBits + 3 + h /\ y <= x + 42 => y <= OutBits
      BY <1>11
    <3>3. QED BY <1>9, <2>3, <3>1, <3>2, Zenon
  <2>8. OutputInv'
    BY <1>2, <1>8, <1>12, <2>7 DEF IInv, OutputInv, Unflushed
  <2>9. ~Unflushed
    BY <2>1 DEF IInv, StreamInv
  <2>10. StreamInv'
    BY <1>2, <2>9, Zenon DEF StreamInv, Unflushed
  <2>11. QED BY <2>5, <2>6, <2>8, <2>10 DEF IInv
<1>13. CASE buffer # <<>>
  <2>1. /\ BufOK(buf') /\ Len(buf'.bits) \in 0..7 /\ Stream(buf') = Stream(b)
        /\ Len(buf'.out) <= Len(b.out) + Len(b.bits)
    BY <1>2, <1>6, <1>13, SyncFacts
  <2>2. Len(buffer) \in Nat \ {0}
    BY <1>13, EmptySeq DEF IInv, Types
  <2>3. Types'
    BY <1>2, <1>13, <2>1, <2>2 DEF IInv, Types
  <2>4. Calls'
    BY <1>2, <1>13, <2>1, <2>2 DEF IInv, Calls
  <2>5. buf.out = <<>> => Len(buf'.out) < OutBits - 2 * RegBits
    <3>1. PICK x \in Nat, y \in Nat : x = Len(b.out) + Len(b.bits) /\ y = Len(buf'.out)
      <4>1. Len(buf'.out) \in Nat
        BY <2>1, StreamFacts DEF BufOK
      <4>2. PICK z \in Nat, u \in Nat : z = Len(b.out) /\ u = Len(b.bits)
        BY <1>6
      <4>3. z + u \in Nat
        OBVIOUS
      <4>4. QED BY <4>1, <4>2, <4>3, Zenon
    <3>2. x <= RegBits + 3 + h /\ y <= x => y < OutBits - 2 * RegBits
      BY <1>11
    <3>3. QED BY <1>9, <2>1, <3>1, <3>2, Zenon
  <2>6. OutputInv'
    BY <1>2, <1>8, <1>13, <2>5 DEF IInv, OutputInv, Unflushed
  <2>7. Taken' = Taken /\ Start' = Start /\ Start + num' = Start
    <3>1. Taken' = Taken /\ Start' = Start
      BY <1>2 DEF Taken, Start
    <3>2. Start \in Int
      BY <2>2, TypeFacts DEF IInv, Start
    <3>3. QED BY <1>2, <3>1, <3>2
  <2>8. StreamInv'
    <3>1. SUFFICES ASSUME Unflushed
                   PROVE  /\ call' # "flush" /\ ErrorKept' /\ OnlyGivenData' /\ Buffered'
                          /\ AtRest' /\ Inside' /\ Between' /\ Over' /\ Closed' /\ NotEnded'
      BY <1>2, Zenon DEF StreamInv, Unflushed
    <3>2. OnlyGivenData /\ Buffered /\ AtRest /\ NotEnded /\ call # "flush"
      BY <3>1 DEF IInv, StreamInv
    <3>3. OnlyGivenData'
      BY <1>2, <3>2 DEF OnlyGivenData, Sound
    <3>4. Buffered'
      BY <1>2, <1>8, <2>7, <3>2 DEF Buffered
    <3>5. InBlock(Ahead', SubSeq(text, 1, Start), Last)
      <4>1. AtBlock(Feed(remote, Stream(buf)), SubSeq(text, 1, Start))
        BY <1>2, <1>8, <3>2 DEF AtRest, Ahead
      <4>2. InBlock(Feed(Feed(remote, Stream(buf)), v), SubSeq(text, 1, Start), Last)
        BY <1>3, <1>4, <4>1, HeaderFed, Widths
      <4>3. Feed(remote, Stream(buf) \o v) = Feed(Feed(remote, Stream(buf)), v)
        BY <1>3, <1>7, FeedConcat
      <4>4. Ahead' = Feed(remote, Stream(buf) \o v)
        BY <1>2, <1>5, <2>1, Zenon DEF Ahead
      <4>5. QED BY <4>2, <4>3, <4>4, Zenon
    <3>6. Last' = Last
      BY <1>2 DEF Last
    <3>7. Inside'
      BY <1>2, <2>7, <3>5, <3>6 DEF Inside
    <3>8. AtRest' /\ Between' /\ Over' /\ Closed' /\ ErrorKept' /\ call' # "flush"
      BY <1>2, <1>13, <3>2 DEF AtRest, Between, Over, Closed, ErrorKept
    <3>9. NotEnded'
      BY <1>2, <1>8, <1>13, <3>2 DEF NotEnded
    <3>10. QED BY <3>3, <3>4, <3>7, <3>8, <3>9
  <2>9. QED BY <2>3, <2>4, <2>6, <2>8 DEF IInv
<1>14. QED BY <1>12, <1>13

\* The codes of up to three bytes go through the register.
LEMMA BytesWritten ==
  ASSUME IInv, pc = "bytes", NEW n \in 0..3, num + n <= Len(buffer),
         NEW b, b = WithBytes(n)
  PROVE  /\ BufOK(b) /\ Len(b.bits) \in 0..7 /\ Len(b.out) \in Nat
         /\ Len(b.out) <= Len(buf.out) + RegBits
         /\ Unflushed =>
              InBlock(Feed(remote, Stream(b)), SubSeq(text, 1, (Start + num) + n), Last)
<1>1. /\ BufOK(buf) /\ remote \in Decoder /\ buffer \in Seq(0..255)
      /\ code.lit \in LitWidths /\ Len(buf.bits) \in 0..7
  BY DEF IInv, Types, Calls
<1>2. /\ text \in Seq(0..255) /\ Taken \in 0..Len(text) /\ buf \in Buffers
      /\ buf.out \in Seq(Nat) /\ buf.bits \in Seq(Nat) /\ Len(buf.out) \in Nat
      /\ Len(buffer) \in Nat /\ num \in Nat
  BY TypeFacts DEF IInv
<1>3. PICK w \in Nat \ {0} : w = code.lit /\ 7 + 3 * w <= RegBits
  BY <1>1, Widths
<1>4. n \in Nat
  OBVIOUS
<1>5. PICK g : /\ Coded(n, g, w, buffer, num) /\ g[0] = buf.bits
               /\ b = Sync([buf EXCEPT !.bits = g[n]])
  BY <1>1, <1>2, <1>3, <1>4, BytesCoded, Zenon
<1>6. g[n] \in Seq(Nat) /\ Len(g[n]) <= Len(g[0]) + 3 * w
  <2>1. PICK x \in Seq(0..255), j \in Nat : x = buffer /\ j = num /\ j + n <= Len(x)
    BY <1>1, <1>2
  <2>2. Coded(n, g, w, x, j)
    BY <1>5, <2>1, Zenon
  <2>3. QED BY <2>1, <2>2, CodedLength
<1>7. PICK a \in Buffers : /\ a = [buf EXCEPT !.bits = g[n]]
                           /\ a.out = buf.out /\ a.bits = g[n]
  <2>1. PICK q \in Seq(Nat) : q = g[n]
    BY <1>6
  <2>2. PICK a : a = [buf EXCEPT !.bits = q]
    OBVIOUS
  <2>3. a \in Buffers /\ a.out = buf.out /\ a.bits = q
    BY <1>2, <2>2 DEF Buffers
  <2>4. QED BY <2>1, <2>2, <2>3, Zenon
<1>8. Len(a.out) % 8 = 0
  BY <1>1, <1>7 DEF BufOK
<1>9. /\ BufOK(b) /\ Len(b.bits) \in 0..7 /\ Stream(b) = Stream(a)
      /\ Len(b.out) <= Len(a.out) + Len(a.bits)
  BY <1>5, <1>7, <1>8, SyncFacts
<1>10. Len(b.out) \in Nat
  BY <1>9, StreamFacts DEF BufOK
<1>11. Len(b.out) <= Len(buf.out) + RegBits
  <2>1. PICK x \in Nat, y \in 0..7, z \in Nat :
          x = Len(buf.out) /\ y = Len(g[0]) /\ z = Len(a.bits)
    <3>1. Len(g[0]) \in 0..7 /\ Len(a.bits) \in Nat
      BY <1>1, <1>5, <1>7, StreamFacts
    <3>2. QED BY <1>2, <3>1
  <2>2. PICK o \in Nat : o = Len(b.out)
    BY <1>10
  <2>3. o <= x + z /\ z <= y + 3 * w
    BY <1>6, <1>7, <1>9, <2>1, <2>2, Zenon
  <2>4. PICK R \in Nat : R = RegBits /\ 7 + 3 * w <= R
    BY <1>3, Sizes
  <2>5. o <= x + R
    BY <2>3, <2>4
  <2>6. QED BY <2>1, <2>2, <2>4, <2>5, Zenon
<1>12. ASSUME Unflushed
       PROVE  InBlock(Feed(remote, Stream(b)), SubSeq(text, 1, (Start + num) + n), Last)
  <2>1. /\ InBlock(Ahead, SubSeq(text, 1, Start + num), Last)
        /\ Len(buffer) <= Taken /\ buffer = SubSeq(text, Start + 1, Taken)
    BY <1>12 DEF IInv, StreamInv, Inside, Buffered, Live
  <2>2. PICK t \in Seq(0..255), x \in Seq(0..255), j \in Nat, s \in Nat, y \in Nat :
          /\ t = text /\ x = buffer /\ j = num /\ s = Start /\ y = Taken
          /\ x = SubSeq(t, s + 1, y) /\ y <= Len(t) /\ Len(x) = y - s /\ j + n <= Len(x)
    <3>1. PICK y \in Nat, l \in Nat, m \in Nat :
            y = Taken /\ l = Len(buffer) /\ l <= y /\ m = Len(text) /\ y <= m
      <4>1. Taken \in Nat /\ Len(text) \in Nat /\ Taken <= Len(text)
        BY <1>2, TypeFacts DEF IInv
      <4>2. QED BY <1>2, <2>1, <4>1, Zenon
    <3>2. y - l \in Nat /\ y - (y - l) = l
      BY <3>1
    <3>3. PICK s \in Nat : s = Start /\ s = y - l
      BY <3>1, <3>2 DEF Start
    <3>4. l = y - s
      BY <3>2, <3>3
    <3>5. PICK t \in Seq(0..255), x \in Seq(0..255), j \in Nat :
            t = text /\ x = buffer /\ j = num /\ Len(t) = m /\ Len(x) = l
      BY <1>1, <1>2, <3>1
    <3>6. x = SubSeq(t, s + 1, y) /\ j + n <= Len(x)
      BY <2>1, <3>1, <3>3, <3>5
    <3>7. y <= Len(t) /\ Len(x) = y - s
      BY <3>1, <3>4, <3>5
    <3>8. QED BY <3>1, <3>3, <3>5, <3>6, <3>7, Zenon
  <2>3. PICK k \in Nat : k = s + j /\ k + n <= Len(t)
    BY <2>2
  <2>4. \A i \in 1..n : x[j + i] = t[k + i]
    <3>1. SUFFICES ASSUME NEW i \in 1..n PROVE x[j + i] = t[k + i]
      OBVIOUS
    <3>2. PICK p \in Nat : p = j + i /\ p \in 1..Len(x) /\ s + p = k + i
      BY <2>2, <2>3
    <3>3. x[p] = t[s + p]
      BY <2>2, <3>2
    <3>4. QED BY <3>2, <3>3
  <2>5. PICK o \in Seq(Nat) : o = buf.out
    BY <1>2
  <2>6. InBlock(Feed(remote, o \o g[0]), SubSeq(t, 1, k), Last)
    <3>1. o \o g[0] = Stream(buf)
      BY <1>5, <2>5 DEF Stream
    <3>2. QED BY <2>1, <2>2, <2>3, <3>1 DEF Ahead
  <2>7. Coded(n, g, w, x, j)
    BY <1>5, <2>2, Zenon
  <2>8. InBlock(Feed(remote, o \o g[n]), SubSeq(t, 1, k + n), Last)
    <3>1. j + n <= Len(x) /\ k + n <= Len(t)
      BY <2>2, <2>3
    <3>2. SameBytes(n, x, j, t, k)
      BY <2>4 DEF SameBytes
    <3>3. PICK r \in Decoder : r = remote
      BY <1>1
    <3>4. InBlock(Feed(r, o \o g[0]), SubSeq(t, 1, k), Last)
      BY <2>6, <3>3
    <3>5. ReadOn(n, g, w, x, j, r, o, t, k, Last)
      BY <1>4, <2>7, <3>1, <3>2, <3>4, CodedFed, Zenon
    <3>6. QED BY <3>3, <3>5, Zenon DEF ReadOn
  <2>9. Stream(b) = o \o g[n]
    BY <1>7, <1>9, <2>5 DEF Stream
  <2>10. QED BY <2>2, <2>3, <2>8, <2>9
<1>13. QED BY <1>9, <1>10, <1>11, <1>12

LEMMA EncodeThreeInv ==
  ASSUME EncodeThree, IInv
  PROVE  IInv'
<1>1. /\ pc = "bytes" /\ num < Len(buffer) - 3 /\ buf' = WithBytes(3) /\ num' = num + 3
      /\ pc' = (IF OutputFull(buf') THEN "out" ELSE "bytes")
      /\ call' = call /\ todo' = todo /\ werr' = werr /\ remote' = remote
      /\ text' = text /\ given' = given /\ ret' = ret /\ flushes' = flushes
      /\ buffer' = buffer /\ code' = code
  BY DEF EncodeThree, ThreeLeft, clientVars
<1>2. /\ Len(buffer) \in Nat /\ num \in Nat /\ Taken \in Nat /\ Len(buf.out) \in Nat
  BY TypeFacts DEF IInv
<1>3. num + 3 < Len(buffer) /\ num' \in Nat /\ num' < Len(buffer) /\ buffer # <<>>
  <2>1. PICK x \in Nat, y \in Nat : x = num /\ y = Len(buffer) /\ x < y - 3
    BY <1>1, <1>2
  <2>2. x + 3 < y /\ x + 3 \in Nat /\ y # 0
    BY <2>1
  <2>3. QED BY <1>1, <2>1, <2>2
<1>4. PICK b : b = buf'
  OBVIOUS
<1>5. /\ BufOK(b) /\ Len(b.bits) \in 0..7 /\ Len(b.out) \in Nat
      /\ Len(b.out) <= Len(buf.out) + RegBits
      /\ Unflushed =>
           InBlock(Feed(remote, Stream(b)), SubSeq(text, 1, (Start + num) + 3), Last)
  <2>1. 3 \in 0..3 /\ num + 3 <= Len(buffer)
    BY <1>2, <1>3
  <2>2. QED BY <1>1, <1>4, <2>1, BytesWritten
<1>6. Taken' = Taken /\ Start' = Start /\ Last' = Last
  BY <1>1 DEF Taken, Start, Last
<1>7. Types'
  <2>1. num' \in 0..Len(buffer')
    BY <1>1, <1>2, <1>3
  <2>2. QED BY <1>1, <1>4, <1>5, <2>1 DEF IInv, Types
<1>8. Calls'
  BY <1>1, <1>3, <1>4, <1>5 DEF IInv, Calls
<1>9. OutputInv'
  <2>1. SUFFICES ASSUME ~GoesOn \/ Unflushed
                 PROVE  /\ pc' = "bytes" => Len(b.out) < OutBits - 2 * RegBits
                        /\ pc' = "out" => Len(b.out) <= OutBits
    BY <1>1, <1>4 DEF OutputInv, Unflushed
  <2>2. Len(buf.out) < OutBits - 2 * RegBits
    BY <1>1, <2>1 DEF IInv, OutputInv
  <2>3. PICK x \in Nat, y \in Nat : x = Len(b.out) /\ y = Len(buf.out)
    BY <1>2, <1>5
  <2>4. x <= OutBits
    BY <1>5, <2>2, <2>3, Sizes
  <2>5. pc' = "bytes" => x < OutBits - 2 * RegBits
    <3>1. OutBits \in Nat /\ RegBits \in Nat
      BY Sizes
    <3>2. pc' = "bytes" => ~(x >= OutBits - 2 * RegBits)
      <4>1. pc' = "bytes" => ~OutputFull(b)
        BY <1>1, <1>4
      <4>2. QED BY <2>3, <4>1, Zenon DEF OutputFull
    <3>3. QED BY <3>1, <3>2
  <2>6. QED BY <2>3, <2>4, <2>5
<1>10. StreamInv'
  <2>1. SUFFICES ASSUME Unflushed
                 PROVE  /\ call' # "flush" /\ ErrorKept' /\ OnlyGivenData' /\ Buffered'
                        /\ AtRest' /\ Inside' /\ Between' /\ Over' /\ Closed' /\ NotEnded'
    BY <1>1, Zenon DEF StreamInv, Unflushed
  <2>2. OnlyGivenData /\ Buffered /\ NotEnded /\ call # "flush" /\ Live
    BY <1>1, <2>1 DEF IInv, StreamInv, Live
  <2>3. OnlyGivenData'
    BY <1>1, <2>2 DEF OnlyGivenData, Sound
  <2>4. Buffered'
    BY <1>1, <1>6, <2>2 DEF Buffered
  <2>5. Inside'
    <3>1. (Start + num) + 3 = Start + num'
      <4>1. PICK x \in Int, y \in Nat : x = Start /\ y = num
        BY <1>2 DEF Start
      <4>2. (x + y) + 3 = x + (y + 3)
        OBVIOUS
      <4>3. QED BY <1>1, <4>1, <4>2
    <3>2. Ahead' = Feed(remote, Stream(b))
      BY <1>1, <1>4 DEF Ahead
    <3>3. InBlock(Ahead', SubSeq(text', 1, Start' + num'), Last')
      BY <1>1, <1>5, <1>6, <2>1, <3>1, <3>2
    <3>4. QED BY <3>3 DEF Inside
  <2>6. AtRest' /\ Between' /\ Over' /\ Closed' /\ ErrorKept' /\ call' # "flush"
    BY <1>1, <1>3, <2>2 DEF AtRest, Between, Over, Closed, ErrorKept
  <2>7. NotEnded'
    BY <1>1, <2>2 DEF NotEnded
  <2>8. QED BY <2>3, <2>4, <2>5, <2>6, <2>7
<1>11. QED BY <1>7, <1>8, <1>9, <1>10 DEF IInv

\* The end-of-block code fits the register.
LEMMA EndedFacts ==
  ASSUME NEW b, BufOK(b), Len(b.bits) \in 0..7, code.eob \in EobWidths
  PROVE  \E a : /\ BufOK(a) /\ a.out = b.out /\ Len(a.bits) <= 7 + code.eob
                /\ Stream(a) = Stream(b) \o Field(code.eob, EndOfBlock)
                /\ Ended(b) = (IF call = "write" THEN a ELSE FlushLastByte(a))
<1>1. PICK e \in Nat \ {0} : e = code.eob /\ 7 + 3 * e <= RegBits
  BY Widths
<1>2. PICK u : u = Field(e, EndOfBlock)
  OBVIOUS
<1>3. u \in Seq(Nat) /\ Len(u) = e
  <2>1. EndOfBlock \in Nat
    BY DEF EndOfBlock
  <2>2. QED BY <1>2, <2>1, FieldSplit
<1>4. b \in Buffers /\ b.out \in Seq(Nat) /\ b.bits \in Seq(Nat) /\ Len(b.out) % 8 = 0
  BY StreamFacts DEF BufOK
<1>5. PICK v \in Seq(Nat) : v = b.bits \o u /\ Len(v) = Len(b.bits) + e
  BY <1>3, <1>4, Join
<1>6. PICK a : a = [b EXCEPT !.bits = v]
  OBVIOUS
<1>7. a \in Buffers /\ a.out = b.out /\ a.bits = v
  BY <1>4, <1>6 DEF Buffers
<1>8. Len(v) <= 7 + e /\ Len(v) <= RegBits
  <2>1. PICK x \in 0..7 : x = Len(b.bits)
    OBVIOUS
  <2>2. PICK R \in Nat : R = RegBits /\ 7 + 3 * e <= R
    BY <1>1, Sizes
  <2>3. x + e <= 7 + e /\ x + e <= R
    BY <2>2
  <2>4. QED BY <1>5, <2>1, <2>2, <2>3, Zenon
<1>9. BufOK(a)
  BY <1>4, <1>7, <1>8 DEF BufOK
<1>10. Stream(a) = Stream(b) \o u
  <2>1. (b.out \o b.bits) \o u = b.out \o (b.bits \o u)
    BY <1>3, <1>4, Assoc
  <2>2. QED BY <1>5, <1>7, <2>1 DEF Stream
<1>11. Ended(b) = (IF call = "write" THEN a ELSE FlushLastByte(a))
  BY <1>1, <1>2, <1>5, <1>6, Zenon DEF Ended
<1>12. QED BY <1>1, <1>2, <1>7, <1>8, <1>9, <1>10, <1>11, Zenon

LEMMA EncodeRestInv ==
  ASSUME EncodeRest, IInv
  PROVE  IInv'
<1>1. PICK n : n = Len(buffer) - num
  OBVIOUS
<1>2. PICK b : b = WithBytes(n)
  OBVIOUS
<1>3. /\ pc = "bytes" /\ ~(num < Len(buffer) - 3) /\ buf' = Ended(b)
      /\ num' = Len(buffer) /\ pc' = "out"
      /\ call' = call /\ todo' = todo /\ werr' = werr /\ remote' = remote
      /\ text' = text /\ given' = given /\ ret' = ret /\ flushes' = flushes
      /\ buffer' = buffer /\ code' = code
  BY <1>1, <1>2 DEF EncodeRest, ThreeLeft, clientVars
<1>4. /\ Len(buffer) \in Nat /\ num \in Nat /\ Taken \in Nat /\ Len(buf.out) \in Nat
      /\ num < Len(buffer) /\ code.eob \in EobWidths /\ remote \in Decoder /\ remote.n = 0
  <2>1. num < Len(buffer) /\ code.eob \in EobWidths /\ remote \in Decoder /\ remote.n = 0
    BY <1>3 DEF IInv, Calls, Types
  <2>2. QED BY <2>1, TypeFacts DEF IInv
<1>5. n \in 0..3 /\ num + n = Len(buffer) /\ buffer # <<>>
  <2>1. PICK x \in Nat, y \in Nat : x = num /\ y = Len(buffer) /\ x < y /\ ~(x < y - 3)
    BY <1>3, <1>4
  <2>2. y - x \in 0..3 /\ x + (y - x) = y /\ y # 0
    BY <2>1
  <2>3. QED BY <1>1, <2>1, <2>2
<1>6. /\ BufOK(b) /\ Len(b.bits) \in 0..7 /\ Len(b.out) \in Nat
      /\ Len(b.out) <= Len(buf.out) + RegBits
      /\ Unflushed =>
           InBlock(Feed(remote, Stream(b)), SubSeq(text, 1, (Start + num) + n), Last)
  <2>1. num + n <= Len(buffer)
    BY <1>4, <1>5
  <2>2. QED BY <1>2, <1>3, <1>5, <2>1, BytesWritten
<1>7. PICK a : /\ BufOK(a) /\ a.out = b.out /\ Len(a.bits) <= 7 + code.eob
               /\ Stream(a) = Stream(b) \o Field(code.eob, EndOfBlock)
               /\ buf' = (IF call = "write" THEN a ELSE FlushLastByte(a))
  BY <1>3, <1>4, <1>6, EndedFacts, Zenon
<1>8. /\ a \in Buffers /\ Len(a.out) % 8 = 0 /\ Len(a.bits) \in Nat
      /\ Stream(a) \in Seq(Nat)
  BY <1>7, StreamFacts DEF BufOK
<1>9. /\ BufOK(FlushLastByte(a)) /\ FlushLastByte(a).bits = <<>>
      /\ Stream(FlushLastByte(a)) = Stream(a) \o Zeros(Missing(Len(Stream(a))))
      /\ Len(FlushLastByte(a).out) <= Len(a.out) + Len(a.bits) + 7
  BY <1>8, FlushLastByteFacts
<1>10. Taken' = Taken /\ Start' = Start /\ Last' = Last
  BY <1>3 DEF Taken, Start, Last
<1>11. BufOK(buf')
  BY <1>7, <1>9
<1>12. Types'
  BY <1>3, <1>4, <1>11 DEF IInv, Types
<1>13. Calls'
  BY <1>3, <1>5 DEF IInv, Calls
<1>14. OutputInv'
  <2>1. SUFFICES ASSUME ~GoesOn \/ Unflushed PROVE Len(buf'.out) <= OutBits
    BY <1>3 DEF OutputInv, Unflushed
  <2>2. Len(buf.out) < OutBits - 2 * RegBits
    BY <1>3, <2>1 DEF IInv, OutputInv
  <2>3. PICK x \in Nat, y \in Nat, z \in Nat, w \in Nat :
          x = Len(b.out) /\ y = Len(buf.out) /\ z = Len(a.bits) /\ w = Len(buf'.out)
    <3>1. Len(buf'.out) \in Nat
      BY <1>11, StreamFacts DEF BufOK
    <3>2. QED BY <1>4, <1>6, <1>8, <3>1, Zenon
  <2>4. PICK R \in Nat, e \in Nat \ {0}, m \in Nat :
          R = RegBits /\ e = code.eob /\ m = OutBits /\ 7 + 3 * e <= R /\ 16 <= R
    <3>1. code.eob \in Nat \ {0} /\ 7 + 3 * code.eob <= RegBits
      BY <1>4, Widths
    <3>2. RegBits \in Nat /\ OutBits \in Nat /\ 16 <= RegBits
      BY Sizes
    <3>3. QED BY <3>1, <3>2
  <2>5. x <= y + R /\ y < m - 2 * R /\ z <= 7 + e
    BY <1>6, <1>7, <2>2, <2>3, <2>4
  <2>6. w <= x \/ w <= x + z + 7
    <3>1. CASE call = "write"
      <4>1. w = x
        BY <1>7, <2>3, <3>1
      <4>2. QED BY <4>1
    <3>2. CASE call # "write"
      BY <1>7, <1>9, <2>3, <3>2, Zenon
    <3>3. QED BY <3>1, <3>2
  <2>7. w <= m
    BY <2>4, <2>5, <2>6
  <2>8. QED BY <2>3, <2>4, <2>7, Zenon
<1>15. StreamInv'
  <2>1. SUFFICES ASSUME Unflushed
                 PROVE  /\ call' # "flush" /\ ErrorKept' /\ OnlyGivenData' /\ Buffered'
                        /\ AtRest' /\ Inside' /\ Between' /\ Over' /\ Closed' /\ NotEnded'
    BY <1>3, Zenon DEF StreamInv, Unflushed
  <2>2. /\ OnlyGivenData /\ Buffered /\ NotEnded /\ Live
        /\ call \in {"write", "close"}
    BY <1>3, <2>1 DEF IInv, Types, Calls, StreamInv, Live
  <2>3. OnlyGivenData'
    BY <1>3, <2>2 DEF OnlyGivenData, Sound
  <2>4. Buffered'
    BY <1>3, <1>10, <2>2 DEF Buffered
  <2>5. (Start + num) + n = Taken
    <3>1. PICK x \in Nat, y \in Nat, z \in Nat : x = Taken /\ y = num /\ z = Len(buffer)
      BY <1>4
    <3>2. ((x - z) + y) + (z - y) = x
      OBVIOUS
    <3>3. QED BY <1>1, <3>1, <3>2 DEF Start
  <2>6. PICK p : p = SubSeq(text, 1, Taken)
    OBVIOUS
  <2>7. InBlock(Feed(remote, Stream(b)), p, Last)
    BY <1>6, <2>1, <2>5, <2>6
  <2>8. PICK e \in Nat \ {0}, u \in Seq(Nat) : e = code.eob /\ u = Field(e, EndOfBlock)
    <3>1. code.eob \in Nat \ {0}
      BY <1>4, Widths
    <3>2. EndOfBlock \in Nat
      BY DEF EndOfBlock
    <3>3. QED BY <3>1, <3>2, FieldSplit
  <2>9. IF Last = 1 THEN AtEnd(Feed(Feed(remote, Stream(b)), u), p)
                    ELSE AtBlock(Feed(Feed(remote, Stream(b)), u), p)
    BY <2>7, <2>8, EndFed
  <2>10. Feed(remote, Stream(a)) = Feed(Feed(remote, Stream(b)), u)
    <3>1. Stream(b) \in Seq(Nat)
      BY <1>6, StreamFacts DEF BufOK
    <3>2. Feed(remote, Stream(b) \o u) = Feed(Feed(remote, Stream(b)), u)
      BY <1>4, <2>8, <3>1, FeedConcat
    <3>3. QED BY <1>7, <2>8, <3>2, Zenon
  <2>11. Between'
    <3>1. CASE call = "write"
      <4>1. Last = 0 /\ Ahead' = Feed(remote, Stream(a))
        BY <1>3, <1>7, <3>1 DEF Last, Ahead
      <4>2. AtBlock(Ahead', p)
        BY <2>9, <2>10, <4>1
      <4>3. AtBlock(Ahead', SubSeq(text', 1, Taken'))
        BY <1>3, <1>10, <2>6, <4>2
      <4>4. QED BY <4>3 DEF Between
    <3>2. CASE call # "write"
      BY <1>3, <3>2 DEF Between
    <3>3. QED BY <3>1, <3>2
  <2>12. Over'
    <3>1. CASE call = "close"
      <4>1. Last = 1 /\ Ahead' = Feed(remote, Stream(FlushLastByte(a)))
        BY <1>3, <1>7, <3>1 DEF Last, Ahead
      <4>2. AtEnd(Feed(remote, Stream(a)), p)
        BY <2>9, <2>10, <4>1
      <4>3. AtEnd(Feed(remote, Stream(a) \o Zeros(Missing(Len(Stream(a))))), p)
        BY <1>4, <1>8, <4>2, PaddingRead
      <4>4. AtEnd(Ahead', SubSeq(text', 1, Taken'))
        BY <1>3, <1>9, <1>10, <2>6, <4>1, <4>3
      <4>5. buf'.bits = <<>>
        BY <1>7, <1>9, <3>1
      <4>6. QED BY <4>4, <4>5 DEF Over
    <3>2. CASE call # "close"
      BY <1>3, <3>2 DEF Over
    <3>3. QED BY <3>1, <3>2
  <2>13. Inside'
    BY <1>3, <1>4 DEF Inside
  <2>14. AtRest' /\ Closed' /\ ErrorKept' /\ call' # "flush"
    BY <1>3, <2>2 DEF AtRest, Closed, ErrorKept
  <2>15. NotEnded'
    BY <1>3, <2>2 DEF NotEnded
  <2>16. QED BY <2>3, <2>4, <2>11, <2>12, <2>13, <2>14, <2>15
<1>16. QED BY <1>12, <1>13, <1>14, <1>15 DEF IInv

(***************************************************************************)
(* The underlying writer                                                   *)
(***************************************************************************)
\* What the decoder will have read when all is sent.
LEMMA OutAhead ==
  ASSUME IInv, Unflushed, pc = "out"
  PROVE  \E k \in 0..given :
           /\ SoundMode(Ahead) /\ Ahead.plain = SubSeq(text, 1, k)
           /\ Ahead.mode = "end" => k = given /\ num = Len(buffer) /\ call = "close"
<1>1. /\ Inside /\ Between /\ Over /\ Buffered
      /\ call \in {"write", "close"} /\ num <= Len(buffer) /\ Live
      /\ call = "close" => todo = 0
  BY DEF IInv, StreamInv, Types, Calls, Live
<1>2. PICK x \in Nat, l \in Nat, m \in Nat, g \in Nat :
        /\ x = Taken /\ l = Len(buffer) /\ m = num /\ g = given
        /\ m <= l /\ l <= x /\ x <= g
  <2>1. /\ Taken \in Nat /\ Len(buffer) \in Nat /\ num \in Nat /\ given \in Nat
        /\ todo \in Nat
    BY TypeFacts DEF IInv
  <2>2. Taken <= given
    BY <2>1 DEF Taken
  <2>3. QED BY <1>1, <2>1, <2>2 DEF Buffered
<1>3. CASE m < l
  <2>1. InBlock(Ahead, SubSeq(text, 1, Start + num), Last)
    BY <1>1, <1>2, <1>3 DEF Inside
  <2>2. PICK k \in 0..g : k = Start + num
    <3>1. (x - l) + m \in 0..g
      BY <1>2
    <3>2. QED BY <1>2, <3>1 DEF Start
  <2>3. SoundMode(Ahead) /\ Ahead.plain = SubSeq(text, 1, k) /\ Ahead.mode # "end"
    BY <2>1, <2>2 DEF InBlock, SoundMode
  <2>4. QED BY <1>2, <2>3
<1>4. CASE m = l
  <2>1. AtBlock(Ahead, SubSeq(text, 1, x)) \/ (call = "close" /\ AtEnd(Ahead, SubSeq(text, 1, x)))
    BY <1>1, <1>2, <1>4 DEF Between, Over
  <2>2. SoundMode(Ahead) /\ Ahead.plain = SubSeq(text, 1, x)
        /\ (Ahead.mode = "end" => call = "close")
    BY <2>1 DEF AtBlock, AtEnd, SoundMode
  <2>3. call = "close" => x = g
    BY <1>1, <1>2 DEF Taken
  <2>4. x \in 0..g
    BY <1>2
  <2>5. QED BY <1>2, <1>4, <2>2, <2>3, <2>4
<1>5. QED BY <1>2, <1>3, <1>4

\* The underlying writer takes s.
LEMMA SinkStep ==
  ASSUME IInv, Unflushed, pc = "out",
         NEW s \in Seq(Nat), NEW u \in Seq(Nat), s \o u = Stream(buf),
         NEW a, a = Feed(remote, s)
  PROVE  /\ SoundMode(a) /\ Len(a.plain) \in Len(remote.plain)..given
         /\ a.plain = SubSeq(text, 1, Len(a.plain))
         /\ a.mode = "end" => Len(a.plain) = given /\ num = Len(buffer) /\ call = "close"
<1>1. PICK k \in 0..given :
        /\ SoundMode(Ahead) /\ Ahead.plain = SubSeq(text, 1, k)
        /\ Ahead.mode = "end" => k = given /\ num = Len(buffer) /\ call = "close"
  BY OutAhead
<1>2. PICK t \in Seq(0..255), r \in Decoder, g \in Nat :
        t = text /\ r = remote /\ g = given /\ g <= Len(t)
  <2>1. text \in Seq(0..255) /\ given \in Nat
    BY TypeFacts DEF IInv
  <2>2. remote \in Decoder /\ given <= Len(text)
    BY <2>1 DEF IInv, Types
  <2>3. QED BY <2>1, <2>2
<1>3. k \in 0..Len(t)
  BY <1>2
<1>4. Ahead = Feed(r, s \o u)
  BY <1>2 DEF Ahead
<1>5. ReadsPart(r, s, u, t, k)
  BY <1>1, <1>2, <1>4, Zenon DEF ReadsPart
<1>6. /\ SoundMode(Feed(r, s)) /\ Len(Feed(r, s).plain) \in Len(r.plain)..k
      /\ Feed(r, s).plain = SubSeq(t, 1, Len(Feed(r, s).plain))
      /\ Feed(r, s).mode = "end"
           => Feed(r, s \o u).mode = "end" /\ Len(Feed(r, s).plain) = k
  <2>1. ReadsLess(r, s, u, t, k)
    BY <1>3, <1>5, Delivered, Zenon
  <2>2. QED BY <2>1, Zenon DEF ReadsLess
<1>7. a = Feed(r, s)
  BY <1>2
<1>8. Len(a.plain) \in Len(remote.plain)..given
  <2>1. PICK x \in Int, y \in Int : x = Len(a.plain) /\ y = Len(r.plain) /\ x \in y..k
    BY <1>2, <1>6, <1>7 DEF Decoder
  <2>2. x \in y..g
    BY <1>2, <2>1
  <2>3. QED BY <1>2, <2>1, <2>2
<1>9. QED BY <1>1, <1>2, <1>4, <1>6, <1>7, <1>8, Zenon

\* It takes all of output.
LEMMA OutTaken ==
  ASSUME IInv, pc = "out", NEW a, a = Feed(remote, buf.out)
  PROVE  /\ a \in Decoder /\ a.n = 0 /\ Feed(a, buf.bits) = Ahead
         /\ buf.bits = <<>> => a = Ahead
         /\ Unflushed =>
              /\ SoundMode(a) /\ Len(a.plain) \in Len(remote.plain)..given
              /\ a.plain = SubSeq(text, 1, Len(a.plain))
              /\ a.mode = "end"
                   => Len(a.plain) = given /\ num = Len(buffer) /\ call = "close"
<1>1. PICK o \in Seq(Nat), u \in Seq(Nat), r \in Decoder :
        /\ o = buf.out /\ u = buf.bits /\ r = remote /\ r.n = 0 /\ Len(o) % 8 = 0
  <2>1. buf.out \in Seq(Nat) /\ buf.bits \in Seq(Nat)
    BY TypeFacts DEF IInv
  <2>2. remote \in Decoder /\ remote.n = 0 /\ Len(buf.out) % 8 = 0
    BY DEF IInv, Types, BufOK
  <2>3. QED BY <2>1, <2>2
<1>2. a = Feed(r, o) /\ a \in Decoder /\ a.n = 0
  BY <1>1, WholeBytes
<1>3. Feed(r, o \o u) = Feed(a, u)
  BY <1>2, FeedConcat
<1>4. Feed(a, u) = Ahead
  BY <1>1, <1>3 DEF Ahead, Stream
<1>5. u = <<>> => a = Ahead
  BY <1>2, <1>4, FeedEmpty
<1>6. ASSUME Unflushed
      PROVE  /\ SoundMode(a) /\ Len(a.plain) \in Len(remote.plain)..given
             /\ a.plain = SubSeq(text, 1, Len(a.plain))
             /\ a.mode = "end"
                  => Len(a.plain) = given /\ num = Len(buffer) /\ call = "close"
  <2>1. o \o u = Stream(buf)
    BY <1>1 DEF Stream
  <2>2. a = Feed(remote, o)
    BY <1>1
  <2>3. QED BY <1>6, <2>1, <2>2, SinkStep
<1>7. QED BY <1>1, <1>2, <1>4, <1>5, <1>6, Zenon

\* A part of a block has been taken, and the block goes on.
LEMMA PartTakenInv ==
  ASSUME BlockTaken, IInv, num < Len(buffer)
  PROVE  IInv'
<1>1. /\ pc = "out" /\ buffer # <<>> /\ remote' = Feed(remote, buf.out)
      /\ buf' = Rewound(buf) /\ pc' = "bytes" /\ num' = num
      /\ call' = call /\ todo' = todo /\ werr' = werr
      /\ text' = text /\ given' = given /\ ret' = ret /\ flushes' = flushes
      /\ buffer' = buffer /\ code' = code
  <2>1. Len(buffer) \in Nat /\ num \in Nat
    BY TypeFacts DEF IInv
  <2>2. num # Len(buffer)
    BY <2>1
  <2>3. QED BY <2>2 DEF BlockTaken, SinkTakes
<1>2. PICK a : a = Feed(remote, buf.out)
  OBVIOUS
<1>3. /\ a \in Decoder /\ a.n = 0 /\ Feed(a, buf.bits) = Ahead
      /\ Unflushed =>
           /\ SoundMode(a) /\ Len(a.plain) \in Len(remote.plain)..given
           /\ a.plain = SubSeq(text, 1, Len(a.plain))
           /\ a.mode = "end" => num = Len(buffer)
  BY <1>1, <1>2, OutTaken
<1>4. /\ BufOK(buf') /\ buf'.out = <<>> /\ buf'.bits = buf.bits /\ Stream(buf') = buf.bits
  <2>1. BufOK(buf)
    BY DEF IInv, Types
  <2>2. QED BY <1>1, <2>1, RewoundFacts
<1>5. Taken' = Taken /\ Start' = Start /\ Last' = Last
  BY <1>1 DEF Taken, Start, Last
<1>6. Ahead' = Ahead
  BY <1>1, <1>2, <1>3, <1>4, Zenon DEF Ahead
<1>7. Types'
  BY <1>1, <1>2, <1>3, <1>4 DEF IInv, Types
<1>8. Calls'
  BY <1>1, <1>4 DEF IInv, Calls
<1>9. OutputInv'
  <2>1. Len(buf'.out) = 0
    BY <1>4
  <2>2. 0 < OutBits - 2 * RegBits
    BY Sizes
  <2>3. QED BY <1>1, <2>1, <2>2 DEF OutputInv
<1>10. StreamInv'
  <2>1. SUFFICES ASSUME Unflushed
                 PROVE  /\ call' # "flush" /\ ErrorKept' /\ OnlyGivenData' /\ Buffered'
                        /\ AtRest' /\ Inside' /\ Between' /\ Over' /\ Closed' /\ NotEnded'
    BY <1>1, Zenon DEF StreamInv, Unflushed
  <2>2. Buffered /\ Inside /\ call # "flush" /\ Live
    BY <1>1, <2>1 DEF IInv, StreamInv, Live
  <2>3. OnlyGivenData'
    BY <1>1, <1>2, <1>3, <2>1 DEF OnlyGivenData, Sound, SoundMode
  <2>4. Buffered'
    BY <1>1, <1>5, <2>2 DEF Buffered
  <2>5. Inside'
    BY <1>1, <1>5, <1>6, <2>2 DEF Inside
  <2>6. AtRest' /\ Between' /\ Over' /\ Closed' /\ ErrorKept' /\ call' # "flush"
    BY <1>1, <2>2 DEF AtRest, Between, Over, Closed, ErrorKept
  <2>7. NotEnded'
    <3>1. Len(buffer) \in Nat /\ num \in Nat
      BY TypeFacts DEF IInv
    <3>2. a.mode # "end"
      BY <1>3, <2>1, <3>1
    <3>3. QED BY <1>1, <1>2, <3>2 DEF NotEnded
  <2>8. QED BY <2>3, <2>4, <2>5, <2>6, <2>7
<1>11. QED BY <1>7, <1>8, <1>9, <1>10 DEF IInv

\* The rest of a block has been taken.
LEMMA RestTakenInv ==
  ASSUME BlockTaken, IInv, ~(num < Len(buffer))
  PROVE  IInv'
<1>1. num = Len(buffer)
  <2>1. num \in 0..Len(buffer)
    BY DEF IInv, Types
  <2>2. Len(buffer) \in Nat
    BY TypeFacts DEF IInv
  <2>3. QED BY <2>1, <2>2
<1>2. /\ pc = "out" /\ buffer # <<>> /\ remote' = Feed(remote, buf.out)
      /\ buf' = (IF call = "flush" THEN WriteEmptyBlock(Rewound(buf), 0) ELSE Rewound(buf))
      /\ pc' = [write |-> "loop", flush |-> "out", close |-> "done"][call]
      /\ buffer' = <<>> /\ num' = 0
      /\ call' = call /\ todo' = todo /\ werr' = werr
      /\ text' = text /\ given' = given /\ ret' = ret /\ flushes' = flushes
      /\ code' = code
  BY <1>1 DEF BlockTaken, SinkTakes
<1>3. \/ call = "write" /\ pc' = "loop"
      \/ call = "flush" /\ pc' = "out" /\ todo = 0
      \/ call = "close" /\ pc' = "done" /\ todo = 0
  <2>1. call \in {"write", "flush", "close"} /\ (call # "write" => todo = 0)
    BY <1>2 DEF IInv, Types, Calls
  <2>2. /\ [write |-> "loop", flush |-> "out", close |-> "done"]["write"] = "loop"
        /\ [write |-> "loop", flush |-> "out", close |-> "done"]["flush"] = "out"
        /\ [write |-> "loop", flush |-> "out", close |-> "done"]["close"] = "done"
    OBVIOUS
  <2>3. pc' = [write |-> "loop", flush |-> "out", close |-> "done"][call]
    BY <1>2
  <2>4. /\ call = "write" => pc' = "loop"
        /\ call = "flush" => pc' = "out"
        /\ call = "close" => pc' = "done"
    BY <2>2, <2>3, Zenon
  <2>5. QED BY <2>1, <2>4
<1>4. PICK a : a = Feed(remote, buf.out)
  OBVIOUS
<1>5. /\ a \in Decoder /\ a.n = 0 /\ Feed(a, buf.bits) = Ahead
      /\ buf.bits = <<>> => a = Ahead
      /\ Unflushed =>
           /\ SoundMode(a) /\ Len(a.plain) \in Len(remote.plain)..given
           /\ a.plain = SubSeq(text, 1, Len(a.plain))
           /\ a.mode = "end" => call = "close"
  BY <1>2, <1>4, OutTaken
<1>6. PICK b : b = Rewound(buf)
  OBVIOUS
<1>7. BufOK(b) /\ b.out = <<>> /\ b.bits = buf.bits /\ Stream(b) = buf.bits
  <2>1. BufOK(buf)
    BY DEF IInv, Types
  <2>2. QED BY <1>6, <2>1, RewoundFacts
<1>8. BufOK(buf') /\ (call = "flush" => Len(buf'.out) <= OutBits)
  <2>1. CASE call # "flush"
    BY <1>2, <1>6, <1>7, <2>1
  <2>2. CASE call = "flush"
    <3>1. /\ BufOK(WriteEmptyBlock(b, 0))
          /\ Len(WriteEmptyBlock(b, 0).out) <= Len(b.out) + Len(b.bits) + 42
      BY <1>7, WriteEmptyBlockFacts
    <3>2. PICK x \in Nat, y \in Nat : x = Len(b.bits) /\ y = Len(WriteEmptyBlock(b, 0).out)
      BY <1>7, <3>1, StreamFacts DEF BufOK
    <3>3. Len(b.out) = 0
      BY <1>7
    <3>4. x <= RegBits /\ y <= 0 + x + 42
      BY <1>7, <3>1, <3>2, <3>3 DEF BufOK
    <3>5. y <= OutBits
      BY <3>4, Sizes
    <3>6. QED BY <1>2, <1>6, <2>2, <3>1, <3>2, <3>5
  <2>3. QED BY <2>1, <2>2
<1>9. Len(buffer') = 0 /\ buffer' \in Seq(0..255) /\ Size \in Nat
  BY <1>2, Sizes
<1>10. Taken \in Nat /\ text \in Seq(0..255) /\ Taken' = Taken /\ Start' = Taken
  <2>1. PICK x \in Nat : x = Taken
    BY TypeFacts DEF IInv
  <2>2. Taken' = Taken
    BY <1>2 DEF Taken
  <2>3. x - 0 = x
    OBVIOUS
  <2>4. Start' = Taken
    BY <1>9, <2>1, <2>2, <2>3, Zenon DEF Start
  <2>5. text \in Seq(0..255)
    BY TypeFacts DEF IInv
  <2>6. QED BY <2>1, <2>2, <2>4, <2>5
<1>11. Types'
  BY <1>2, <1>3, <1>4, <1>5, <1>8, <1>9 DEF IInv, Types
<1>12. Calls'
  BY <1>2, <1>3, <1>9 DEF Calls
<1>13. OutputInv'
  BY <1>2, <1>3, <1>6, <1>7, <1>8 DEF OutputInv
<1>14. StreamInv'
  <2>1. SUFFICES ASSUME Unflushed
                 PROVE  /\ call' # "flush" /\ ErrorKept' /\ OnlyGivenData' /\ Buffered'
                        /\ AtRest' /\ Inside' /\ Between' /\ Over' /\ Closed' /\ NotEnded'
    BY <1>2, Zenon DEF StreamInv, Unflushed
  <2>2. Between /\ Over /\ call # "flush" /\ buf' = b
    BY <1>2, <1>6, <2>1 DEF IInv, StreamInv
  <2>3. OnlyGivenData'
    BY <1>2, <1>4, <1>5, <2>1 DEF OnlyGivenData, Sound, SoundMode
  <2>4. Buffered'
    <3>1. PICK x \in Nat, t \in Seq(0..255) : x = Taken /\ t = text
      BY <1>10
    <3>2. SubSeq(t, x + 1, x) = <<>> /\ 0 <= x
      OBVIOUS
    <3>3. Len(buffer') <= Taken' /\ buffer' = SubSeq(text', Start' + 1, Taken')
      BY <1>2, <1>9, <1>10, <3>1, <3>2
    <3>4. QED BY <3>3 DEF Buffered
  <2>5. AtRest'
    <3>1. CASE call = "write"
      <4>1. AtBlock(Ahead, SubSeq(text, 1, Taken))
        BY <1>1, <1>2, <2>2, <3>1 DEF Between
      <4>2. Ahead' = Ahead
        BY <1>2, <1>4, <1>5, <1>7, <2>2, Zenon DEF Ahead
      <4>3. AtBlock(Ahead', SubSeq(text', 1, Start'))
        BY <1>2, <1>10, <4>1, <4>2
      <4>4. QED BY <4>3 DEF AtRest
    <3>2. CASE call # "write"
      BY <1>3, <2>2, <3>2 DEF AtRest
    <3>3. QED BY <3>1, <3>2
  <2>6. Closed'
    <3>1. CASE call = "close"
      <4>1. AtEnd(Ahead, SubSeq(text, 1, Taken)) /\ buf.bits = <<>>
        BY <1>1, <1>2, <2>2, <3>1 DEF Over
      <4>2. AtEnd(remote', SubSeq(text', 1, Taken'))
        BY <1>2, <1>4, <1>5, <1>10, <4>1
      <4>3. QED BY <4>2 DEF Closed
    <3>2. CASE call # "close"
      BY <1>3, <2>2, <3>2 DEF Closed
    <3>3. QED BY <3>1, <3>2
  <2>7. Inside' /\ Between' /\ Over' /\ ErrorKept' /\ call' # "flush"
    BY <1>2, <1>3, <2>2 DEF Inside, Between, Over, ErrorKept
  <2>8. NotEnded'
    BY <1>2, <1>3, <1>4, <1>5, <2>1 DEF NotEnded
  <2>9. QED BY <2>3, <2>4, <2>5, <2>6, <2>7, <2>8
<1>15. QED BY <1>11, <1>12, <1>13, <1>14 DEF IInv

LEMMA EmptyBlockTakenInv ==
  ASSUME EmptyBlockTaken, IInv
  PROVE  IInv'
<1>1. /\ pc = "out" /\ buffer = <<>> /\ remote' = Feed(remote, buf.out)
      /\ buf' = (IF call = "flush" THEN Rewound(buf) ELSE buf) /\ pc' = "done"
      /\ call' = call /\ todo' = todo /\ werr' = werr
      /\ text' = text /\ given' = given /\ ret' = ret /\ flushes' = flushes
      /\ buffer' = buffer /\ num' = num /\ code' = code
  BY DEF EmptyBlockTaken, SinkTakes, huffVars
<1>2. call \in {"flush", "close"} /\ todo = 0 /\ Len(buffer) = 0 /\ num = 0
  BY <1>1 DEF IInv, Calls, Types
<1>3. PICK a : a = Feed(remote, buf.out)
  OBVIOUS
<1>4. /\ a \in Decoder /\ a.n = 0
      /\ buf.bits = <<>> => a = Ahead
      /\ Unflushed =>
           /\ SoundMode(a) /\ Len(a.plain) \in Len(remote.plain)..given
           /\ a.plain = SubSeq(text, 1, Len(a.plain))
  BY <1>1, <1>3, OutTaken
<1>5. BufOK(buf') /\ (call = "flush" => buf'.out = <<>>)
  <2>1. BufOK(buf)
    BY DEF IInv, Types
  <2>2. QED BY <1>1, <2>1, RewoundFacts
<1>6. Taken' = Taken /\ Start' = Start
  BY <1>1 DEF Taken, Start
<1>7. Types'
  BY <1>1, <1>3, <1>4, <1>5 DEF IInv, Types
<1>8. Calls'
  BY <1>1, <1>2 DEF Calls
<1>9. OutputInv'
  BY <1>1, <1>5 DEF OutputInv
<1>10. StreamInv'
  <2>1. SUFFICES ASSUME Unflushed
                 PROVE  /\ call' # "flush" /\ ErrorKept' /\ OnlyGivenData' /\ Buffered'
                        /\ AtRest' /\ Inside' /\ Between' /\ Over' /\ Closed' /\ NotEnded'
    BY <1>1, Zenon DEF StreamInv, Unflushed
  <2>2. Over /\ Buffered /\ call = "close" /\ Live
    BY <1>1, <1>2, <2>1 DEF IInv, StreamInv, Live
  <2>3. OnlyGivenData'
    BY <1>1, <1>3, <1>4, <2>1 DEF OnlyGivenData, Sound, SoundMode
  <2>4. Buffered'
    BY <1>1, <1>6, <2>2 DEF Buffered
  <2>5. Closed'
    <3>1. AtEnd(Ahead, SubSeq(text, 1, Taken)) /\ buf.bits = <<>>
      BY <1>1, <1>2, <2>2 DEF Over
    <3>2. AtEnd(remote', SubSeq(text', 1, Taken'))
      BY <1>1, <1>3, <1>4, <1>6, <3>1
    <3>3. QED BY <3>2 DEF Closed
  <2>6. /\ AtRest' /\ Inside' /\ Between' /\ Over' /\ ErrorKept' /\ NotEnded'
        /\ call' # "flush"
    BY <1>1, <2>2 DEF AtRest, Inside, Between, Over, ErrorKept, NotEnded
  <2>7. QED BY <2>3, <2>4, <2>5, <2>6
<1>11. QED BY <1>7, <1>8, <1>9, <1>10 DEF IInv

\* The underlying writer takes a part of output, or nothing, and fails.
LEMMA PartSent ==
  ASSUME OutFails, IInv
  PROVE  /\ remote' \in Decoder /\ remote'.n = 0
         /\ Unflushed =>
              /\ SoundMode(remote') /\ Len(remote'.plain) \in Len(remote.plain)..given
              /\ remote'.plain = SubSeq(text, 1, Len(remote'.plain))
              /\ remote'.mode = "end" => Len(remote'.plain) = given
<1>1. pc = "out"
  BY DEF OutFails
<1>2. PICK n \in {0, Len(buf.out) \div 16} :
        remote' = Feed(remote, SubSeq(buf.out, 1, 8 * n))
  BY DEF OutFails, SinkFails
<1>3. PICK o \in Seq(Nat), u \in Seq(Nat), m \in Nat :
        o = buf.out /\ u = buf.bits /\ m = Len(o)
  BY TypeFacts DEF IInv
<1>4. n \in Nat /\ 8 * n \in 0..m /\ (8 * n) % 8 = 0
  <2>1. m \div 16 \in Nat /\ 8 * (m \div 16) <= m
    OBVIOUS
  <2>2. n = 0 \/ n = m \div 16
    BY <1>3
  <2>3. n \in Nat /\ 8 * n \in 0..m
    BY <2>1, <2>2
  <2>4. QED BY <2>3
<1>5. PICK s \in Seq(Nat), v \in Seq(Nat) :
        s = SubSeq(o, 1, 8 * n) /\ Len(s) = 8 * n /\ s \o v = o
  <2>1. PICK j \in 0..Len(o) : j = 8 * n
    BY <1>3, <1>4
  <2>2. /\ SubSeq(o, 1, j) \in Seq(Nat) /\ Len(SubSeq(o, 1, j)) = j
        /\ SubSeq(o, j + 1, Len(o)) \in Seq(Nat)
        /\ SubSeq(o, 1, j) \o SubSeq(o, j + 1, Len(o)) = o
    BY Split
  <2>3. QED BY <2>1, <2>2, Zenon
<1>6. PICK a : a = Feed(remote, s) /\ remote' = a
  BY <1>2, <1>3, <1>5
<1>7. a \in Decoder /\ a.n = 0
  <2>1. remote \in Decoder /\ remote.n = 0
    BY DEF IInv, Types
  <2>2. Len(s) % 8 = 0
    BY <1>4, <1>5
  <2>3. QED BY <1>6, <2>1, <2>2, WholeBytes
<1>8. ASSUME Unflushed
      PROVE  /\ SoundMode(a) /\ Len(a.plain) \in Len(remote.plain)..given
             /\ a.plain = SubSeq(text, 1, Len(a.plain))
             /\ a.mode = "end" => Len(a.plain) = given
  <2>1. PICK w \in Seq(Nat) : w = v \o u
    BY Join
  <2>2. s \o w = Stream(buf)
    <3>1. (s \o v) \o u = s \o (v \o u)
      BY Assoc
    <3>2. QED BY <1>3, <1>5, <2>1, <3>1 DEF Stream
  <2>3. QED BY <1>1, <1>6, <1>8, <2>2, SinkStep
<1>9. QED BY <1>6, <1>7, <1>8, Zenon

LEMMA OutFailsInv ==
  ASSUME OutFails, IInv
  PROVE  IInv'
<1>1. /\ pc = "out" /\ pc' = "failed" /\ todo' = 0 /\ num' = 0
      /\ buf' = (IF buffer = <<>> /\ call = "flush" THEN Rewound(buf) ELSE buf)
      /\ call' = call /\ werr' = werr
      /\ text' = text /\ given' = given /\ flushes' = flushes
      /\ buffer' = buffer /\ code' = code
  BY DEF OutFails, SinkFails
<1>2. BufOK(buf')
  <2>1. BufOK(buf)
    BY DEF IInv, Types
  <2>2. QED BY <1>1, <2>1, RewoundFacts
<1>3. Types'
  <2>1. given' \in Nat /\ Len(buffer') \in Nat
    BY <1>1, TypeFacts DEF IInv
  <2>2. QED BY <1>1, <1>2, <2>1, PartSent DEF IInv, Types
<1>4. Calls'
  BY <1>1 DEF IInv, Calls
<1>5. OutputInv'
  BY <1>1 DEF OutputInv, Live
<1>6. StreamInv'
  <2>1. SUFFICES ASSUME Unflushed
                 PROVE  /\ call' # "flush" /\ ErrorKept' /\ OnlyGivenData' /\ Buffered'
                        /\ AtRest' /\ Inside' /\ Between' /\ Over' /\ Closed' /\ NotEnded'
    BY <1>1, Zenon DEF StreamInv, Unflushed
  <2>2. call # "flush"
    BY <2>1 DEF IInv, StreamInv
  <2>3. OnlyGivenData'
    BY <1>1, <2>1, PartSent DEF OnlyGivenData, Sound, SoundMode
  <2>4. /\ Buffered' /\ AtRest' /\ Inside' /\ Between' /\ Over' /\ Closed' /\ NotEnded'
        /\ ErrorKept' /\ call' # "flush"
    BY <1>1, <2>2
       DEF Buffered, AtRest, Inside, Between, Over, Closed, NotEnded, ErrorKept, Live
  <2>5. QED BY <2>3, <2>4
<1>7. QED BY <1>3, <1>4, <1>5, <1>6 DEF IInv

(***************************************************************************)
(* Every step                                                              *)
(***************************************************************************)
LEMMA NextInv ==
  ASSUME IInv, [Next]_vars
  PROVE  IInv'
<1>1. CASE \E n \in WriteSizes : CallWrite(n) /\ UNCHANGED huffVars
  BY <1>1, CallWriteInv
<1>2. CASE CallFlush /\ UNCHANGED huffVars
  BY <1>2, CallFlushInv
<1>3. CASE CallClose /\ UNCHANGED huffVars
  BY <1>3, CallCloseInv
<1>4. CASE /\ \/ \E c \in {"write", "flush", "close"} : CallAfterError(c)
              \/ ReturnNil \/ ReturnError
           /\ UNCHANGED huffVars
  BY <1>4, ReturnInv
<1>5. CASE \E t \in Texts : Reset(t)
  BY <1>5, ResetInv
<1>6. CASE Accumulate
  BY <1>6, AccumulateInv
<1>7. CASE \E h \in HdrWidths, l \in LitWidths, e \in EobWidths : BlockHeader(h, l, e)
  BY <1>7, BlockHeaderInv
<1>8. CASE EncodeThree
  BY <1>8, EncodeThreeInv
<1>9. CASE EncodeRest
  BY <1>9, EncodeRestInv
<1>10. CASE BlockTaken
  BY <1>10, PartTakenInv, RestTakenInv
<1>11. CASE CloseEmpty
  BY <1>11, CloseEmptyInv
<1>12. CASE EmptyBlockTaken
  BY <1>12, EmptyBlockTakenInv
<1>13. CASE OutFails
  BY <1>13, OutFailsInv
<1>14. CASE UNCHANGED vars
  <2>1. /\ pc' = pc /\ call' = call /\ todo' = todo /\ werr' = werr /\ remote' = remote
        /\ text' = text /\ given' = given /\ ret' = ret /\ flushes' = flushes
        /\ buf' = buf /\ buffer' = buffer /\ num' = num /\ code' = code
    BY <1>14 DEF vars, apiVars, clientVars, huffVars
  <2>2. Taken' = Taken /\ Start' = Start /\ Last' = Last /\ Ahead' = Ahead /\ Live' = Live
    BY <2>1 DEF Taken, Start, Last, Ahead, Live
  <2>3. Types' /\ Calls' /\ OutputInv'
    BY <2>1, <2>2 DEF IInv, Types, Calls, OutputInv, Unflushed
  <2>4. StreamInv'
    BY <2>1, <2>2
       DEF IInv, StreamInv, Unflushed, OnlyGivenData, Sound, Buffered, AtRest, Inside,
           Between, Over, Closed, NotEnded, ErrorKept
  <2>5. QED BY <2>3, <2>4 DEF IInv
<1>15. QED
  BY <1>1, <1>2, <1>3, <1>4, <1>5, <1>6, <1>7, <1>8, <1>9, <1>10, <1>11, <1>12, <1>13,
     <1>14, Zenon DEF Next, Call, Work

(***************************************************************************)
(* The steps of PlainWriter                                                *)
(***************************************************************************)
LEMMA TakesMore ==
  ASSUME IInv, IInv', Unflushed, Unflushed', BlockTaken \/ EmptyBlockTaken \/ OutFails
  PROVE  Promise!Next
<1>1. PICK m, e : m = Len(remote'.plain) /\ e = (remote'.mode = "end")
  OBVIOUS
<1>2. /\ pc = "out" /\ text' = text /\ given' = given /\ ret' = ret
      /\ BlockTaken \/ EmptyBlockTaken => remote' = Feed(remote, buf.out)
  BY DEF BlockTaken, EmptyBlockTaken, OutFails, SinkTakes, SinkFails
<1>3. /\ SoundMode(remote') /\ m \in Len(remote.plain)..given
      /\ remote'.plain = SubSeq(text, 1, m) /\ (e => m = given)
  BY <1>1, <1>2, OutTaken, PartSent
<1>4. e \in BOOLEAN /\ Sound /\ Sound' /\ remote.mode # "end"
  BY <1>1, <1>2 DEF IInv, StreamInv, OnlyGivenData, NotEnded, Live
<1>5. Promise!Deliver(m, e)
  BY <1>1, <1>2, <1>3, <1>4 DEF Promise!Deliver
<1>6. QED BY <1>3, <1>4, <1>5, Zenon DEF Promise!Next

LEMMA StepPromised ==
  ASSUME IInv, IInv', Next, Unflushed, Unflushed'
  PROVE  Promise!Next \/ UNCHANGED Promise!vars
<1>1. CASE \E n \in WriteSizes : CallWrite(n) /\ UNCHANGED huffVars
  <2>1. PICK n \in WriteSizes : CallWrite(n)
    BY <1>1
  <2>2. n \in 0..(Len(text) - given)
    <3>1. n \in Nat /\ given \in Nat /\ Len(text) \in Nat /\ given + n <= Len(text)
      BY <2>1, WriterAssumption, TypeFacts DEF CallWrite, IInv
    <3>2. QED BY <3>1
  <2>3. Promise!Give(n)
    BY <2>1 DEF CallWrite, Promise!Give, Sound
  <2>4. QED BY <2>2, <2>3, Zenon DEF Promise!Next
<1>2. CASE CallFlush /\ UNCHANGED huffVars
  <2>1. flushes \in Nat /\ flushes' = flushes + 1
    BY <1>2 DEF CallFlush, IInv, Types
  <2>2. QED BY <2>1 DEF Unflushed
<1>3. CASE \E c \in {"write", "flush", "close"} : CallAfterError(c) /\ UNCHANGED huffVars
  <2>1. PICK c \in {"write", "flush", "close"} : CallAfterError(c)
    BY <1>3
  <2>2. werr = "Fail"
    BY <2>1 DEF CallAfterError, IInv, Types
  <2>3. Promise!Return(c, "Fail")
    BY <2>1, <2>2 DEF CallAfterError, Promise!Return, Sound
  <2>4. QED BY <2>3, Zenon DEF Promise!Next
<1>4. CASE ReturnNil /\ UNCHANGED huffVars
  <2>1. /\ ret' = [call |-> call, err |-> "nil"] /\ text' = text /\ given' = given
        /\ remote' = remote /\ (pc = "loop" \/ pc = "done")
    BY <1>4 DEF ReturnNil, Return
  <2>2. call = "write" \/ (call = "close" /\ pc = "done" /\ todo = 0)
    BY <2>1 DEF IInv, StreamInv, Types, Calls
  <2>3. ASSUME call = "close" PROVE Len(remote.plain) = given /\ remote.mode = "end"
    <3>1. AtEnd(remote, SubSeq(text, 1, Taken)) /\ Taken = given
      <4>1. given \in Nat
        BY TypeFacts DEF IInv
      <4>2. QED BY <2>2, <2>3, <4>1 DEF IInv, StreamInv, Closed, Taken
    <3>2. text \in Seq(0..255) /\ given \in 0..Len(text)
      BY TypeFacts DEF IInv, Types
    <3>3. Len(SubSeq(text, 1, given)) = given
      BY <3>2, Prefix
    <3>4. QED BY <3>1, <3>3 DEF AtEnd
  <2>4. Promise!Return(call, "nil")
    BY <2>1, <2>2, <2>3 DEF Promise!Return, Sound
  <2>5. QED BY <2>2, <2>4, Zenon DEF Promise!Next
<1>5. CASE ReturnError /\ UNCHANGED huffVars
  <2>1. /\ ret' = [call |-> call, err |-> "Fail"] /\ text' = text /\ given' = given
        /\ remote' = remote /\ pc = "failed"
    BY <1>5 DEF ReturnError, Return
  <2>2. call \in {"write", "flush", "close"}
    BY <2>1 DEF IInv, Types, Calls
  <2>3. Promise!Return(call, "Fail")
    BY <2>1 DEF Promise!Return, Sound
  <2>4. QED BY <2>2, <2>3, Zenon DEF Promise!Next
<1>6. CASE \E t \in Texts : Reset(t)
  <2>1. PICK t \in Texts : Reset(t)
    BY <1>6
  <2>2. Sound /\ Sound'
    BY DEF IInv, StreamInv, OnlyGivenData
  <2>3. Promise!Reset(t)
    BY <2>1, <2>2 DEF Reset, ResetWriter, Promise!Reset, Fresh
  <2>4. QED BY <2>3, Zenon DEF Promise!Next
<1>7. CASE BlockTaken \/ EmptyBlockTaken \/ OutFails
  BY <1>7, TakesMore
<1>8. CASE \/ CallClose /\ UNCHANGED huffVars
           \/ Accumulate \/ EncodeThree \/ EncodeRest \/ CloseEmpty
           \/ \E h \in HdrWidths, l \in LitWidths, e \in EobWidths : BlockHeader(h, l, e)
  <2>1. text' = text /\ given' = given /\ remote' = remote /\ ret' = ret
    BY <1>8 DEF CallClose, Accumulate, EncodeThree, EncodeRest, CloseEmpty, BlockHeader,
                clientVars
  <2>2. QED BY <2>1 DEF Promise!vars, Sound
<1>9. QED
  BY <1>1, <1>2, <1>3, <1>4, <1>5, <1>6, <1>7, <1>8, Zenon DEF Next, Call, Work

(***************************************************************************)
(* Theorems                                                                *)
(***************************************************************************)
\* The inductive invariant: where a decoder that had all bits written so far
\* would stand, at each point of a call of the compressor (huffmanonly.go).
THEOREM Invariant == Spec => []IInv
<1>1. Init => IInv
  BY InitInv
<1>2. IInv /\ [Next]_vars => IInv'
  BY NextInv
<1>3. QED BY <1>1, <1>2, PTL DEF Spec

\* The fields of huffmanOnlyCompressor and bufWriter keep to their ranges
\* (huffmanonly.go, bufWriter).
THEOREM TypeCorrect == Spec => []TypeOK
<1>1. IInv => TypeOK
  <2>1. SUFFICES ASSUME IInv PROVE TypeOK
    OBVIOUS
  <2>2. Types /\ given \in Nat /\ Len(text) \in Nat
    BY <2>1, TypeFacts DEF IInv
  <2>3. QED BY <2>2 DEF Types, TypeOK, BufOK
<1>2. QED BY <1>1, Invariant, PTL

\* Output is never written behind its end, though encodeBytes looks only after
\* three codes and Flush and Close fill the last byte without looking, if
\* clients stop at an error of Flush or Close (huffmanonly_other.go).
THEOREM OutputNeverOverruns == ~GoesOn => (Spec => []OutputFits)
<1>1. ASSUME ~GoesOn PROVE IInv => OutputFits
  <2>1. SUFFICES ASSUME IInv PROVE OutputFits
    OBVIOUS
  <2>2. SUFFICES ASSUME pc = "bytes" \/ pc = "out" PROVE Len(buf.out) <= OutBits
    BY DEF OutputFits
  <2>3. /\ pc = "bytes" => Len(buf.out) < OutBits - 2 * RegBits
        /\ pc = "out" => Len(buf.out) <= OutBits
    BY <1>1, <2>1 DEF IInv, OutputInv
  <2>4. Len(buf.out) \in Nat
    BY <2>1, TypeFacts DEF IInv
  <2>5. QED BY <2>2, <2>3, <2>4, Sizes
<1>2. ASSUME ~GoesOn PROVE Spec => []OutputFits
  BY <1>1, <1>2, Invariant, PTL
<1>3. QED BY <1>2

\* Nor is it in a stream that was never flushed, whatever clients do after an
\* error (huffmanonly_other.go).
THEOREM OutputFitsUnflushed == Spec => [](Unflushed => OutputFits)
<1>1. IInv => (Unflushed => OutputFits)
  <2>1. SUFFICES ASSUME IInv, Unflushed, pc = "bytes" \/ pc = "out"
                 PROVE  Len(buf.out) <= OutBits
    BY DEF OutputFits
  <2>2. /\ pc = "bytes" => Len(buf.out) < OutBits - 2 * RegBits
        /\ pc = "out" => Len(buf.out) <= OutBits
    BY <2>1 DEF IInv, OutputInv
  <2>3. Len(buf.out) \in Nat
    BY <2>1, TypeFacts DEF IInv
  <2>4. QED BY <2>1, <2>2, <2>3, Sizes
<1>2. QED BY <1>1, Invariant, PTL

\* A block goes on where the last part of output stopped: the bytes of the
\* buffer that are encoded, and no others, follow what was sent before
\* (huffmanonly_other.go, encodeBytes).
THEOREM NothingIsLost == Spec => []NothingLost
<1>1. IInv => NothingLost
  <2>1. SUFFICES ASSUME IInv, pc = "bytes", Unflushed
                 PROVE  /\ num < Len(buffer)
                        /\ Feed(remote, buf.out \o buf.bits).plain
                             = SubSeq(text, 1, given - todo - Len(buffer) + num)
    BY DEF NothingLost
  <2>2. num < Len(buffer)
    BY <2>1 DEF IInv, Calls
  <2>3. InBlock(Ahead, SubSeq(text, 1, Start + num), Last)
    BY <2>1 DEF IInv, StreamInv, Inside
  <2>4. Ahead.plain = SubSeq(text, 1, Start + num)
    BY <2>3 DEF InBlock
  <2>5. QED BY <2>2, <2>4 DEF Ahead, Stream, Start, Taken
<1>2. QED BY <1>1, Invariant, PTL

\* A decoder sees nothing but data given since the last Reset, in order, in
\* every stream that was not flushed, whatever was flushed, closed or failed
\* before the Reset (huffmanonly.go, Reset).
THEOREM OnlyNewDataSeen == Spec => []OnlyNewData
<1>1. IInv => OnlyNewData
  BY DEF IInv, StreamInv, OnlyNewData
<1>2. QED BY <1>1, Invariant, PTL

\* Without Flush the compressor is a PlainWriter, step by step: every step adds
\* to what a decoder sees, returns what it may return, or is not visible
\* (writer.go, huffmanonly.go).
THEOREM KeepsPromise == Spec => PlainWriterSteps
<1>1. Init => Promise!Init
  <2>1. SUFFICES ASSUME Init PROVE Promise!Init
    OBVIOUS
  <2>2. /\ text \in Texts /\ given = 0 /\ ret = [call |-> "new", err |-> "nil"]
        /\ remote = Fresh
    BY <2>1 DEF Init, WriterInit
  <2>3. remote.plain = <<>> /\ remote.mode = "header" /\ Sound
    BY <2>2 DEF Fresh, Sound
  <2>4. QED BY <2>2, <2>3 DEF Promise!Init
<1>2. ASSUME IInv, IInv', [Next]_vars
      PROVE  [Unflushed /\ Unflushed' => Promise!Next]_(Promise!vars)
  <2>1. CASE UNCHANGED vars
    BY <2>1 DEF vars, apiVars, clientVars, Promise!vars, Sound
  <2>2. CASE Next
    BY <1>2, <2>2, StepPromised
  <2>3. QED BY <1>2, <2>1, <2>2
<1>3. QED BY <1>1, <1>2, Invariant, PTL DEF Spec, PlainWriterSteps
=============================================================================
