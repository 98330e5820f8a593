--------------------------- MODULE InflateProofs ---------------------------
(***************************************************************************)
(* Proofs about Inflate, for every size of window, register, header buffer *)
(* and bufio.Reader, every set of well-formed streams (complete, truncated *)
(* or faulty), and every way the underlying reader, the client's Reads and *)
(* its Resets fall.                                                        *)
(*                                                                         *)
(* First, the position in the stream that its fields stand for; then, that *)
(* it decodes the stream it was given: that it is always at the element    *)
(* its phase says (OnTrack), that it ends where the stream ends            *)
(* (LeftBehindStream), that history buffer, overflows and output hold the  *)
(* plain text (WindowIntact, PlainPrefix), and that it keeps the promise   *)
(* of PlainReader: Read hands out the text of the stream in order, and     *)
(* then the one error that the stream calls for.                           *)
(***************************************************************************)
EXTENDS Inflate, ArithmeticFacts, SequenceTheorems, TLAPS

(***************************************************************************)
(* The register.                                                           *)
(***************************************************************************)

\* A load moves whole bytes from the input into the register, never more than
\* fit or are there, and leaves it a byte short of full only when there is no
\* input left.
IsLoad(r, l, n, t) ==
  /\ r \in [l : Int, n : 0..n]
  /\ r.l + 8 * r.n = l + 8 * n
  /\ l <= r.l /\ r.l <= RegBytes * 8
  /\ l < t => r.n = 0 \/ r.l > (RegBytes - 1) * 8

LEMMA LoadFacts ==
  ASSUME NEW l \in Int, NEW n \in Nat, NEW t \in Int, l <= RegBytes * 8
  PROVE  IsLoad(LoadBits([l |-> l, n |-> n], t), l, n, t)
<1> USE SizesOK DEF ByteBits
<1>1. CASE ~(l < t)
  BY <1>1 DEF LoadBits, IsLoad
<1>2. CASE l < t
  <2> DEFINE k == Loaded(l, n)
  <2>1. k \in 0..n /\ l + k * 8 <= RegBytes * 8
        /\ (k = n \/ l + k * 8 > (RegBytes - 1) * 8)
    BY DEF Loaded, MinOf, CeilDiv
  <2>2. LoadBits([l |-> l, n |-> n], t) = [l |-> l + k * 8, n |-> n - k]
    BY <1>2 DEF LoadBits
  <2> HIDE DEF k
  <2>3. QED BY <1>2, <2>1, <2>2 DEF IsLoad
<1>3. QED BY <1>1, <1>2

\* An entry is taken whole from register and input, or not at all; and when it
\* is not there whole, the input is used up.
EntryElement(e) ==
  /\ e.kind = "entry"
  /\ ElementOK(e, MaxHdrSize, MaxSyms, HistorySize, MaxMatch,
               (RegBytes - 1) * ByteBits + 1)

LEMMA EntryFacts ==
  ASSUME bitsLen \in 0..(RegBytes * ByteBits), inputLen \in Nat,
         NEW e, EntryElement(e)
  PROVE  /\ Reg1 \in [l : Nat, n : 0..inputLen]
         /\ Reg1.l + 8 * Reg1.n = bitsLen + 8 * inputLen
         /\ Reg1.l <= RegBytes * 8
         /\ ~Short(e) => /\ Reg2(e) \in [l : Nat, n : 0..inputLen]
                         /\ Reg2(e).l <= RegBytes * 8
                         /\ Reg2(e).l + 8 * Reg2(e).n = bitsLen + 8 * inputLen - e.w
         /\ ~Short(e) /\ HasDist(e) =>
              /\ Reg4(e) \in [l : Nat, n : 0..inputLen]
              /\ Reg4(e).l <= RegBytes * 8
              /\ Reg4(e).l + 8 * Reg4(e).n
                   = bitsLen + 8 * inputLen - (e.w + e.dw + e.xw)
         /\ Short(e) => Reg1.n = 0
<1> USE SizesOK DEF ByteBits
<1>1. /\ e.w \in Nat /\ e.dw \in Nat /\ e.xw \in Nat
      /\ e.w + e.dw + e.xw <= (RegBytes - 1) * 8 + 1
  BY DEF EntryElement, ElementOK, Width
<1>2. /\ Reg1 \in [l : Int, n : 0..inputLen]
      /\ Reg1.l + 8 * Reg1.n = bitsLen + 8 * inputLen
      /\ bitsLen <= Reg1.l /\ Reg1.l <= RegBytes * 8
      /\ Reg1.n = 0 \/ Reg1.l > (RegBytes - 1) * 8
  <2>1. bitsLen <= RegBytes * 8 /\ (RegBytes - 1) * 8 + 1 \in Int
    OBVIOUS
  <2>2. IsLoad(Reg1, bitsLen, inputLen, (RegBytes - 1) * 8 + 1)
    <3>1. bitsLen \in Int
      OBVIOUS
    <3>2. QED BY <2>1, <3>1, LoadFacts DEF Reg1, Refill
  <2>3. QED BY <2>1, <2>2 DEF IsLoad
<1> HIDE DEF Reg1
<1>3. Reg2(e) = [l |-> Reg1.l - e.w, n |-> Reg1.n]
  BY <1>2 DEF Reg2, Take
<1> DEFINE r3 == LoadBits(Reg2(e), MaxCodeLen + 1)
<1>4. /\ r3 \in [l : Int, n : 0..inputLen]
      /\ r3.l + 8 * r3.n = Reg1.l - e.w + 8 * Reg1.n
      /\ Reg1.l - e.w <= r3.l /\ r3.l <= RegBytes * 8
  <2>1. /\ Reg1.l - e.w \in Int /\ Reg1.n \in Nat /\ MaxCodeLen + 1 \in Int
        /\ Reg1.l - e.w <= RegBytes * 8 /\ Reg1.n <= inputLen
    BY <1>1, <1>2
  <2>2. IsLoad(r3, Reg1.l - e.w, Reg1.n, MaxCodeLen + 1)
    BY <2>1, <1>3, LoadFacts
  <2>3. QED BY <2>1, <2>2 DEF IsLoad
<1> HIDE DEF r3
<1>5. Reg3(e) = [l |-> r3.l - e.dw, n |-> r3.n]
  BY <1>4 DEF Reg3, Take, r3
<1> DEFINE r4 == Refill(Reg3(e))
<1>6. /\ r4 \in [l : Int, n : 0..inputLen]
      /\ r4.l + 8 * r4.n = r3.l - e.dw + 8 * r3.n
      /\ r3.l - e.dw <= r4.l /\ r4.l <= RegBytes * 8
  <2>1. /\ r3.l - e.dw \in Int /\ r3.n \in Nat /\ (RegBytes - 1) * 8 + 1 \in Int
        /\ r3.l - e.dw <= RegBytes * 8 /\ r3.n <= inputLen
    BY <1>1, <1>4
  <2>2. IsLoad(r4, r3.l - e.dw, r3.n, (RegBytes - 1) * 8 + 1)
    BY <2>1, <1>5, LoadFacts DEF Refill
  <2>3. QED BY <2>1, <2>2 DEF IsLoad
<1> HIDE DEF r4
<1>7. Reg4(e) = [l |-> r4.l - e.xw, n |-> r4.n]
  BY <1>6 DEF Reg4, Take, r4
<1>8. Short(e) => Reg1.n = 0
  BY <1>1, <1>2, <1>3, <1>4, <1>5, <1>6, <1>7 DEF Short
<1>9. ASSUME Reg2(e).l >= 0
      PROVE  /\ Reg2(e) \in [l : Nat, n : 0..inputLen]
             /\ Reg2(e).l <= RegBytes * 8
             /\ Reg2(e).l + 8 * Reg2(e).n = bitsLen + 8 * inputLen - e.w
  BY <1>1, <1>2, <1>3, <1>9
<1>10. /\ Reg2(e).l \in Int /\ Reg3(e).l \in Int /\ Reg4(e).l \in Int
       /\ Reg4(e) \in [l : Int, n : 0..inputLen]
       /\ Reg4(e).l <= RegBytes * 8
       /\ Reg4(e).l + 8 * Reg4(e).n
            = bitsLen + 8 * inputLen - (e.w + e.dw + e.xw)
  <2>1. Reg4(e).l = r4.l - e.xw /\ Reg4(e).n = r4.n
    BY <1>7
  <2>2. r4.l - e.xw \in Int /\ r4.n \in 0..inputLen
    BY <1>1, <1>4, <1>6
  <2>3. Reg4(e) \in [l : Int, n : 0..inputLen]
    BY <1>7, <2>2
  <2>4. Reg2(e).l \in Int
    BY <1>1, <1>2, <1>3
  <2>5. Reg3(e).l \in Int
    BY <1>1, <1>4, <1>5
  <2>6. /\ r3.l \in Int /\ r3.n \in Nat /\ r4.l \in Int /\ r4.n \in Nat
        /\ Reg1.l \in Int /\ Reg1.n \in Nat
    BY <1>2, <1>4, <1>6
  <2>7. r4.l + 8 * r4.n = bitsLen + 8 * inputLen - e.w - e.dw
    BY <1>1, <1>2, <1>4, <1>6, <2>6
  <2>8. QED BY <1>1, <1>6, <2>1, <2>2, <2>3, <2>4, <2>5, <2>6, <2>7
<1>11. ~Short(e) => Reg2(e).l >= 0 /\ (HasDist(e) => Reg4(e).l >= 0)
  <2>1. ~Short(e) => ~(Reg2(e).l < 0) /\ (HasDist(e) => ~(Reg4(e).l < 0))
    BY DEF Short
  <2>2. QED BY <1>10, <2>1
<1>12. Reg1 \in [l : Nat, n : 0..inputLen]
  BY <1>2
<1>13. Reg4(e).l >= 0 => Reg4(e) \in [l : Nat, n : 0..inputLen]
  BY <1>10
<1>14. QED BY <1>2, <1>8, <1>9, <1>10, <1>11, <1>12, <1>13

(***************************************************************************)
(* Positions.                                                              *)
(***************************************************************************)

\* Where the next bit is, by the input that is left.
LEMMA PosEq ==
  ASSUME TypeOK, Contiguous, err # "Fail"
  PROVE  Pos = (NextByte - headerBuffered) * 8 - bitsLen
BY SizesOK DEF TypeOK, Contiguous, Pos, NextByte, Held, ByteBits

\* The sizes of the elements of the stream at hand.
LEMMA StreamElement ==
  ASSUME src \in Source, NEW p \in DOMAIN src.elem
  PROVE  /\ p \in Nat
         /\ ElementOK(src.elem[p], MaxHdrSize, MaxSyms, HistorySize, MaxMatch,
                      (RegBytes - 1) * ByteBits + 1)
         /\ src.elem[p].kind = "byte" => src.elem[p].o < src.total
         /\ src.elem[p].kind = "entry" =>
              src.elem[p].o + src.elem[p].lits <= src.total
         /\ src.elem[p].kind = "hdr" /\ src.elem[p].form = "stored" =>
              (p + src.elem[p].w) % ByteBits = 0 /\ src.elem[p].len \in Nat
BY StreamsOK DEF WellFormed

\* The sequences of the specification.
LEMMA SeqFacts ==
  ASSUME NEW S
  PROVE  /\ <<>> \in Seq(S) /\ Len(<<>>) = 0
         /\ \A n \in Nat : \A f \in [1..n -> S] : f \in Seq(S) /\ Len(f) = n
         /\ \A s, t \in Seq(S) : s \o t \in Seq(S)
<1>1. <<>> \in Seq(S) /\ Len(<<>>) = 0
  OBVIOUS
<1>2. ASSUME NEW n \in Nat, NEW f \in [1..n -> S]
      PROVE  f \in Seq(S) /\ Len(f) = n
  BY <1>2
<1>3. \A s, t \in Seq(S) : s \o t \in Seq(S)
  OBVIOUS
<1>4. QED BY <1>1, <1>2, <1>3

LEMMA InitInv == Init => PositionInv
<1> SUFFICES ASSUME Init PROVE PositionInv
  OBVIOUS
<1> USE SizesOK DEF ByteBits
<1>1. TypeOK
  <2>1. writeOverflow \in Seq(Byte) /\ Len(writeOverflow) <= MaxSyms
        /\ out \in Seq(Byte)
    BY SeqFacts DEF Init
  <2>2. hist \in [HistIndex -> Byte]
    BY DEF Init
  <2>3. ret \in [n : Nat, err : {"nil", "EOF", "UnexpectedEOF", "Corrupt", "Fail"}]
    BY DEF Init
  <2>4. HistSize \in Nat
    BY DEF HistSize
  <2>5. /\ src \in Source /\ phase = "NewBlock" /\ bits = 0 /\ bitsLen = 0
        /\ headerBuffered = 0 /\ litBlockLength = 0 /\ bfinal = FALSE
        /\ copyOverflowLength = 0 /\ copyOverflowDistance = 0 /\ roffset = 0
        /\ inputNil = TRUE /\ inputLen = 0 /\ writePos = 0 /\ readPos = 0
        /\ err = "nil" /\ peekSize = 0 /\ eof = FALSE
        /\ base = 0 /\ got = 0 /\ uerr = "nil"
        /\ pc = "idle" /\ want = 0 /\ derr = "nil" /\ startBits = 0
        /\ stale = 0 /\ resets = 0
    BY DEF Init
  <2>6. /\ src \in Source
        /\ phase \in Phases
        /\ bits \in Nat
        /\ bitsLen \in 0..(RegBytes * ByteBits)
        /\ headerBuffered \in 0..MaxHdrSize
        /\ litBlockLength \in Nat
        /\ copyOverflowLength \in 0..MaxMatch
        /\ copyOverflowDistance \in 0..HistorySize
        /\ roffset \in Nat
        /\ inputLen \in 0..BufSize
    BY <2>5 DEF Phases
  <2>7. /\ readPos \in 0..writePos
        /\ writePos \in 0..HistSize
        /\ err \in {"nil", "EOF", "UnexpectedEOF", "Corrupt", "Fail"}
        /\ peekSize \in 0..BufSize
        /\ base \in Nat
        /\ got \in base..(base + BufSize)
        /\ uerr \in {"nil", "EOF", "Fail"}
    BY <2>4, <2>5
  <2>8. /\ pc \in {"idle", "read", "peek", "decode", "tail"}
        /\ want \in Nat
        /\ startBits \in Nat
        /\ derr \in Fatal \cup {"nil", "EndInput", "OutputOverflow"}
        /\ stale \in Nat /\ resets \in 0..MaxResets
    BY <2>5
  <2>9. bfinal \in BOOLEAN /\ inputNil \in BOOLEAN /\ eof \in BOOLEAN
    BY <2>5
  <2>10. QED BY <2>1, <2>2, <2>3, <2>6, <2>7, <2>8, <2>9 DEF TypeOK
<1>2. Control
  BY SeqFacts DEF Control, AskedWhenEmpty, Limit, HistSize, Init
<1>3. Contiguous /\ Retained /\ HeaderKept
  BY DEF Contiguous, Retained, Held, NextByte, HeaderKept, Init
<1>4. QED BY <1>1, <1>2, <1>3 DEF PositionInv

\* What has no hand in the position in the stream cannot disturb it.
Quiet == UNCHANGED <<phase, bits, bitsLen, headerBuffered, inputNil, inputLen,
                     peekSize, base, got, src>>

LEMMA QuietPosition ==
  ASSUME PositionInv, Quiet, err' # "Fail" => err # "Fail", Sound' => Sound
  PROVE  Contiguous' /\ Retained' /\ HeaderKept'
<1> USE DEF PositionInv, Quiet
<1>1. UNCHANGED <<Pos, NextByte, Held>>
  BY DEF Pos, NextByte, Held
<1>3. QED BY <1>1 DEF Contiguous, Retained, HeaderKept

LEMMA CallReadPosition ==
  ASSUME PositionInv, NEW n \in ReadSizes, CallRead(n)
  PROVE  PositionInv'
<1> USE SizesOK DEF CallRead, inflateVars, windowVars, bufVars
<1>1. TypeOK'
  BY DEF PositionInv, TypeOK
<1>2. Control'
  BY DEF PositionInv, Control, AskedWhenEmpty
<1>3. Contiguous' /\ Retained' /\ HeaderKept'
  BY QuietPosition DEF Quiet, Sound
<1>4. QED BY <1>1, <1>2, <1>3 DEF PositionInv

LEMMA ResetPosition ==
  ASSUME PositionInv, NEW s \in Source, Reset(s)
  PROVE  PositionInv'
<1> USE SizesOK DEF ByteBits
<1>1. TypeOK'
  <2>1. (writeOverflow \in Seq(Byte))' /\ (Len(writeOverflow) <= MaxSyms)'
        /\ (out \in Seq(Byte))'
    BY SeqFacts DEF Reset, ResetInflate
  <2>2. (ret \in [n : Nat, err : {"nil", "EOF", "UnexpectedEOF", "Corrupt", "Fail"}])'
    BY DEF Reset
  <2>3. (stale \in Nat)' /\ (resets \in 0..MaxResets)'
    BY DEF Reset, PositionInv, TypeOK, HistSize
  <2>4. /\ src' \in Source /\ phase' = "NewBlock" /\ bits' = 0 /\ bitsLen' = 0
        /\ headerBuffered' = 0 /\ litBlockLength' = 0 /\ bfinal' = FALSE
        /\ copyOverflowLength' = 0 /\ copyOverflowDistance' = 0 /\ roffset' = 0
        /\ inputNil' = TRUE /\ inputLen' = 0 /\ err' = "nil"
        /\ peekSize' = 0 /\ eof' = FALSE /\ base' = 0 /\ got' = 0
        /\ uerr' = "nil"
        /\ UNCHANGED <<hist, writePos, readPos, pc, want, derr, startBits>>
    BY DEF Reset, ResetInflate, windowVars
  <2>5. /\ (src \in Source)'
        /\ (phase \in Phases)'
        /\ (bits \in Nat)'
        /\ (bitsLen \in 0..(RegBytes * ByteBits))'
        /\ (headerBuffered \in 0..MaxHdrSize)'
        /\ (litBlockLength \in Nat)'
        /\ (copyOverflowLength \in 0..MaxMatch)'
        /\ (copyOverflowDistance \in 0..HistorySize)'
        /\ (roffset \in Nat)'
        /\ (inputLen \in 0..BufSize)'
    BY <2>4 DEF Phases
  <2>6. /\ (hist \in [HistIndex -> Byte])'
        /\ (readPos \in 0..writePos)'
        /\ (writePos \in 0..HistSize)'
        /\ (err \in {"nil", "EOF", "UnexpectedEOF", "Corrupt", "Fail"})'
        /\ (peekSize \in 0..BufSize)'
        /\ (base \in Nat)'
        /\ (got \in base..(base + BufSize))'
        /\ (uerr \in {"nil", "EOF", "Fail"})'
    BY <2>4 DEF PositionInv, TypeOK
  <2>7. /\ (pc \in {"idle", "read", "peek", "decode", "tail"})'
        /\ (want \in Nat)'
        /\ (startBits \in Nat)'
        /\ (derr \in Fatal \cup {"nil", "EndInput", "OutputOverflow"})'
    BY <2>4 DEF PositionInv, TypeOK
  <2>8. (bfinal \in BOOLEAN)' /\ (inputNil \in BOOLEAN)' /\ (eof \in BOOLEAN)'
    BY <2>4
  <2>9. QED BY <2>1, <2>2, <2>3, <2>5, <2>6, <2>7, <2>8 DEF TypeOK
<1>2. Control'
  BY SeqFacts DEF Reset, ResetInflate, PositionInv, Control, AskedWhenEmpty
<1>3. Contiguous' /\ Retained' /\ HeaderKept'
  BY DEF Reset, ResetInflate, Contiguous, Retained, Held, NextByte, HeaderKept
<1>4. QED BY <1>1, <1>2, <1>3 DEF PositionInv

LEMMA ReadDeliverPosition ==
  ASSUME PositionInv, ReadDeliver
  PROVE  PositionInv'
<1> USE SizesOK DEF ReadDeliver, inflateVars, bufVars
<1> DEFINE num == MinOf(want, writePos - readPos)
<1>1. num \in Nat /\ num <= writePos - readPos /\ readPos + num <= writePos
      /\ readPos \in Nat /\ writePos \in Nat /\ writePos <= HistSize
  BY DEF PositionInv, TypeOK, MinOf, HistSize
<1>2. TypeOK'
  <2>1. [j \in 1..num |-> hist[readPos + j - 1]] \in [1..num -> Byte]
    <3>1. hist \in [HistIndex -> Byte] /\ HistSize \in Nat
      BY DEF PositionInv, TypeOK, HistSize
    <3>2. \A j \in 1..num : readPos + j - 1 \in HistIndex
      BY <1>1, <3>1 DEF HistIndex
    <3> HIDE DEF num
    <3>3. QED BY <3>1, <3>2
  <2>2. (out \in Seq(Byte))'
    BY <1>1, <2>1, SeqFacts DEF PositionInv, TypeOK
  <2>3. (ret \in [n : Nat, err : {"nil", "EOF", "UnexpectedEOF", "Corrupt", "Fail"}])'
    BY <1>1 DEF PositionInv, TypeOK
  <2>4. (readPos \in 0..writePos)'
    BY <1>1
  <2>5. QED BY <2>2, <2>3, <2>4 DEF PositionInv, TypeOK
<1>3. Control'
  BY DEF PositionInv, Control, AskedWhenEmpty
<1>4. Contiguous' /\ Retained' /\ HeaderKept'
  BY QuietPosition DEF Quiet, Sound
<1>5. QED BY <1>2, <1>3, <1>4 DEF PositionInv

LEMMA ReadErrorPosition ==
  ASSUME PositionInv, ReadError
  PROVE  PositionInv'
<1> USE DEF ReadError, inflateVars, windowVars, bufVars
<1>1. TypeOK'
  <2>1. (ret \in [n : Nat, err : {"nil", "EOF", "UnexpectedEOF", "Corrupt", "Fail"}])'
    BY DEF PositionInv, TypeOK
  <2>2. QED BY <2>1 DEF PositionInv, TypeOK
<1>2. Control'
  BY DEF PositionInv, Control, AskedWhenEmpty
<1>3. Contiguous' /\ Retained' /\ HeaderKept'
  BY QuietPosition DEF Quiet, Sound
<1>4. QED BY <1>1, <1>2, <1>3 DEF PositionInv

LEMMA StepPeekPosition ==
  ASSUME PositionInv, StepPeek
  PROVE  PositionInv'
<1> USE DEF StepPeek, StepCalled, inflateVars, windowVars, bufVars, clientVars
<1>1. TypeOK'
  BY DEF PositionInv, TypeOK
<1>2. Control'
  BY DEF PositionInv, Control, AskedWhenEmpty
<1>3. Contiguous' /\ Retained' /\ HeaderKept'
  BY QuietPosition DEF Quiet, Sound
<1>4. QED BY <1>1, <1>2, <1>3 DEF PositionInv

LEMMA PeekFillPosition ==
  ASSUME PositionInv, NEW k \in 0..BufSize, NEW e \in {"nil", "EOF", "Fail"},
         PeekFill(k, e)
  PROVE  PositionInv'
<1> USE DEF PeekFill, inflateVars, windowVars, clientVars
<1>1. k <= BufSize - (got - base)
  BY SizesOK, StreamsOK DEF PositionInv, TypeOK, MinOf
<1>2. TypeOK'
  BY <1>1, SizesOK DEF PositionInv, TypeOK
<1>3. Control'
  BY SizesOK DEF PositionInv, Control, AskedWhenEmpty, TypeOK
<1>4. Contiguous' /\ Retained' /\ HeaderKept'
  <2>1. UNCHANGED <<Pos, NextByte, Held>> /\ UNCHANGED <<phase, bitsLen, bits,
                    headerBuffered, err, derr, src>>
    BY DEF Pos, NextByte, Held
  <2>2. Contiguous' /\ HeaderKept'
    BY <2>1 DEF PositionInv, Contiguous, HeaderKept, Sound
  <2>3. NextByte \in Int /\ got \in Nat /\ got' \in Nat /\ got <= got'
    BY SizesOK DEF PositionInv, TypeOK, NextByte, Held, ByteBits
  <2>4. Retained'
    BY <2>1, <2>3 DEF PositionInv, Retained
  <2>5. QED BY <2>2, <2>4
<1>5. QED BY <1>2, <1>3, <1>4 DEF PositionInv

(***************************************************************************)
(* Into decomperss.                                                        *)
(***************************************************************************)

\* The slide and the count of input bits that every call of decomperss starts
\* from.
LEMMA Entered ==
  ASSUME PositionInv, NEW n \in Nat, EnterDecomperss(n), StepCalled \/ pc = "peek"
  PROVE  /\ (hist \in [HistIndex -> Byte])'
         /\ (readPos \in 0..writePos)' /\ (writePos \in 0..HistSize)'
         /\ (writePos <= Limit)' /\ (startBits \in Nat)'
         /\ startBits' = n * 8 + bitsLen
         /\ derr' = "nil" /\ pc' = "decode"
<1> USE SizesOK DEF EnterDecomperss, ByteBits
<1>1. writePos = readPos /\ writePos \in 0..HistSize
  BY DEF PositionInv, Control, TypeOK, StepCalled
<1>2. startBits' = n * 8 + bitsLen /\ startBits' \in Nat
      /\ derr' = "nil" /\ pc' = "decode"
  BY DEF PositionInv, TypeOK
<1>3. CASE writePos >= 2 * HistorySize
  <2>1. hist' \in [HistIndex -> Byte]
    <3>1. \A i \in HistIndex : i < HistorySize => SlideFrom + i \in HistIndex
      BY <1>1, <1>3 DEF SlideFrom, HistIndex, HistSize
    <3>2. QED BY <1>3, <3>1 DEF PositionInv, TypeOK
  <2>2. QED BY <1>2, <1>3, <2>1 DEF HistSize, Limit
<1>4. CASE ~(writePos >= 2 * HistorySize)
  BY <1>1, <1>2, <1>4 DEF windowVars, PositionInv, TypeOK, HistSize, Limit
<1>5. QED BY <1>3, <1>4

LEMMA StepInputPosition ==
  ASSUME PositionInv, StepInput
  PROVE  PositionInv'
<1> USE DEF StepInput, inflateVars, bufVars, clientVars
<1>1. inputLen \in Nat
  BY SizesOK DEF PositionInv, TypeOK
<1>2. /\ (hist \in [HistIndex -> Byte])'
      /\ (readPos \in 0..writePos)' /\ (writePos \in 0..HistSize)'
      /\ (writePos <= Limit)' /\ (startBits \in Nat)'
      /\ startBits' = inputLen * 8 + bitsLen
      /\ derr' = "nil" /\ pc' = "decode"
  BY <1>1, Entered
<1>3. TypeOK'
  BY <1>2 DEF PositionInv, TypeOK
<1>4. Control'
  BY <1>2, SizesOK DEF PositionInv, TypeOK, Control, AskedWhenEmpty, StepCalled,
                       ByteBits
<1>5. Contiguous' /\ Retained' /\ HeaderKept'
  BY <1>2, QuietPosition DEF Quiet, Sound, StepCalled, PositionInv, Control
<1>6. QED BY <1>3, <1>4, <1>5 DEF PositionInv

LEMMA PeekReturnPosition ==
  ASSUME PositionInv, PeekReturn
  PROVE  PositionInv'
<1> USE SizesOK DEF ByteBits
<1>1. /\ pc = "peek" /\ err = "nil" /\ inputNil /\ phase # "Finish"
      /\ bitsLen \in Nat /\ got - base \in 0..BufSize /\ base \in Nat /\ got \in Nat
      /\ Held \in Nat /\ base + Held <= got /\ derr = "nil"
  BY DEF PeekReturn, PositionInv, TypeOK, Control, Retained, NextByte, Held
<1>2. /\ UNCHANGED <<phase, bits, bitsLen, headerBuffered, litBlockLength, bfinal,
                    writeOverflow, copyOverflowLength, copyOverflowDistance,
                    roffset, base, got, clientVars>>
      /\ uerr' = uerr \/ uerr' = "nil"
      /\ inputNil' = FALSE /\ peekSize' = got - base
  BY DEF PeekReturn
<1>3. CASE err' = "Fail"
  <2>1. /\ pc' = "read" /\ inputLen' = got - base
        /\ UNCHANGED <<windowVars, startBits, derr, eof>>
    BY <1>1, <1>3 DEF PeekReturn
  <2>2. TypeOK'
    BY <1>1, <1>2, <1>3, <2>1 DEF PositionInv, TypeOK, clientVars, windowVars
  <2>3. Control'
    BY <1>1, <1>2, <1>3, <2>1 DEF PositionInv, Control, AskedWhenEmpty
  <2>4. QED BY <1>3, <2>2, <2>3 DEF PositionInv, Contiguous, Retained, HeaderKept,
                                    Sound
<1>4. CASE err' # "Fail"
  <2>1. /\ err' = err /\ eof' \in BOOLEAN /\ inputLen' = got - base - Held
        /\ EnterDecomperss(got - base - Held)
    BY <1>4 DEF PeekReturn
  <2>2. got - base - Held \in Nat
    BY <1>1
  <2>3. /\ (hist \in [HistIndex -> Byte])'
        /\ (readPos \in 0..writePos)' /\ (writePos \in 0..HistSize)'
        /\ (writePos <= Limit)' /\ (startBits \in Nat)'
        /\ startBits' = (got - base - Held) * 8 + bitsLen
        /\ derr' = "nil" /\ pc' = "decode"
    <3> DEFINE m == got - base - Held
    <3>1. pc = "peek" /\ EnterDecomperss(m) /\ m \in Nat
      BY <1>1, <2>1, <2>2
    <3> HIDE DEF m
    <3>2. /\ (hist \in [HistIndex -> Byte])'
          /\ (readPos \in 0..writePos)' /\ (writePos \in 0..HistSize)'
          /\ (writePos <= Limit)' /\ (startBits \in Nat)'
          /\ startBits' = m * 8 + bitsLen
          /\ derr' = "nil" /\ pc' = "decode"
      BY <3>1, Entered
    <3>3. QED BY <3>2 DEF m
  <2>4. TypeOK'
    <3>1. (uerr \in {"nil", "EOF", "Fail"})' /\ (inputNil \in BOOLEAN)'
      BY <1>2 DEF PositionInv, TypeOK
    <3>2. (inputLen \in 0..BufSize)' /\ (peekSize \in 0..BufSize)'
      BY <1>1, <1>2, <2>1
    <3>3. QED BY <1>1, <1>2, <2>1, <2>3, <3>1, <3>2
              DEF PositionInv, TypeOK, clientVars
  <2>5. Control'
    BY <1>1, <1>2, <2>1, <2>2, <2>3 DEF PositionInv, Control, AskedWhenEmpty
  <2>6. NextByte' = NextByte /\ Held' = Held
    BY <1>1, <1>2, <2>1 DEF NextByte, Held
  <2>7. Contiguous' /\ Retained'
    BY <1>1, <1>2, <2>1, <2>6 DEF PositionInv, Contiguous, Retained, NextByte
  <2>8. HeaderKept'
    BY <1>1, <1>2, <2>1, <2>3, <2>6 DEF PositionInv, HeaderKept, Sound, Pos,
                                         clientVars
  <2>9. QED BY <2>4, <2>5, <2>7, <2>8 DEF PositionInv
<1>5. QED BY <1>3, <1>4

(***************************************************************************)
(* Inside decomperss.                                                      *)
(***************************************************************************)

LEMMA DecodeDonePosition ==
  ASSUME PositionInv, DecodeDone
  PROVE  PositionInv'
<1> USE DEF DecodeDone, inflateVars, windowVars, bufVars, clientVars
<1>1. TypeOK'
  BY DEF PositionInv, TypeOK
<1>2. Control'
  BY DEF PositionInv, Control, AskedWhenEmpty
<1>3. Contiguous' /\ Retained' /\ HeaderKept'
  BY SizesOK, QuietPosition DEF Quiet, Sound, PositionInv, TypeOK
<1>4. QED BY <1>1, <1>2, <1>3 DEF PositionInv

LEMMA WholeBytes ==
  ASSUME NEW b \in Nat
  PROVE  b \div 8 \in Nat /\ (b \div 8) * 8 <= b /\ b < (b \div 8) * 8 + 8
OBVIOUS

LEMMA WholeBytesMoved ==
  ASSUME NEW b \in Nat, NEW c \in Nat, NEW i \in Nat, NEW j \in Nat,
         NEW h \in Nat, NEW k \in Nat, NEW x \in Nat, NEW p \in Nat,
         NEW g \in Nat,
         c + 8 * j <= b + 8 * i, j <= i, x + p <= g,
         b < h * 8 + 8, k * 8 <= c, x + h <= x + p - i
  PROVE  x + k <= x + p - j /\ x + p - j <= g
OBVIOUS

\* A turn of the loop takes w bits: there is less input, and the position is
\* one that register and input agree on.
Took(w) ==
  /\ bitsLen' \in Nat /\ inputLen' \in Nat
  /\ bitsLen' <= RegBytes * 8 /\ inputLen' <= inputLen
  /\ bitsLen' = bitsLen + 8 * (inputLen + headerBuffered) - w - 8 * inputLen'
  /\ bits' = Pos + w
  /\ headerBuffered' = 0 /\ 8 * headerBuffered <= w

LEMMA TookArith ==
  ASSUME NEW b \in Nat, NEW i \in Nat, NEW h \in Nat, NEW c \in Nat, NEW j \in Nat,
         NEW w \in Nat, c = b + 8 * (i + h) - w - 8 * j, 8 * h <= w
  PROVE  c + 8 * j <= b + 8 * i
OBVIOUS

LEMMA StartArith ==
  ASSUME NEW b \in Nat, NEW i \in Nat, NEW c \in Nat, NEW j \in Nat, NEW s \in Nat,
         c + 8 * j <= b + 8 * i, s >= i * 8 + b
  PROVE  s >= j * 8 + c
OBVIOUS

LEMMA TookFacts ==
  ASSUME PositionInv, pc = "decode", NEW w \in Nat, Took(w)
  PROVE  /\ bitsLen' + 8 * inputLen' <= bitsLen + 8 * inputLen
         /\ (bitsLen \in 0..(RegBytes * ByteBits))' /\ (inputLen \in 0..BufSize)'
         /\ inputLen' <= peekSize
         /\ startBits >= inputLen' * 8 + bitsLen'
<1>1. /\ bitsLen \in Nat /\ inputLen \in Nat /\ headerBuffered \in Nat
      /\ peekSize \in Nat /\ startBits \in Nat /\ inputLen <= BufSize
      /\ BufSize \in Nat /\ RegBytes \in Nat
  BY SizesOK DEF PositionInv, TypeOK, ByteBits
<1>2. inputLen <= peekSize /\ startBits >= inputLen * 8 + bitsLen
  BY DEF PositionInv, Control, ByteBits
<1>3. /\ bitsLen' \in Nat /\ inputLen' \in Nat /\ inputLen' <= inputLen
      /\ bitsLen' <= RegBytes * 8 /\ 8 * headerBuffered <= w
      /\ bitsLen' = bitsLen + 8 * (inputLen + headerBuffered) - w - 8 * inputLen'
  BY DEF Took
<1>4. bitsLen' + 8 * inputLen' <= bitsLen + 8 * inputLen
  BY <1>1, <1>3, TookArith
<1>5. (bitsLen \in 0..(RegBytes * ByteBits))' /\ (inputLen \in 0..BufSize)'
      /\ inputLen' <= peekSize
  <2>1. PICK c \in Nat, j \in Nat : /\ c = bitsLen' /\ j = inputLen' /\ j <= inputLen
                                  /\ c <= RegBytes * 8
    BY <1>3
  <2>2. c \in 0..(RegBytes * 8) /\ j \in 0..BufSize /\ j <= peekSize
    BY <1>1, <1>2, <2>1
  <2>3. QED BY <2>1, <2>2 DEF ByteBits
<1>6. startBits >= inputLen' * 8 + bitsLen'
  <2>1. /\ bitsLen \in Nat /\ inputLen \in Nat /\ startBits \in Nat
        /\ bitsLen' \in Nat /\ inputLen' \in Nat
        /\ startBits >= inputLen * 8 + bitsLen
    BY <1>1, <1>2, <1>3
  <2>2. QED BY <1>4, <2>1, StartArith
<1>7. QED BY <1>4, <1>5, <1>6

LEMMA TurnPosition ==
  ASSUME PositionInv, pc = "decode", NEW w \in Nat, Took(w),
         UNCHANGED <<inputNil, base, peekSize, got, err, src>>,
         phase' # "DecodingHeader" \/ derr' \in Fatal
  PROVE  Contiguous' /\ Retained' /\ HeaderKept'
<1>1. /\ bitsLen \in Nat /\ inputLen \in Nat /\ base \in Nat /\ peekSize \in Nat
      /\ headerBuffered \in Nat
  BY SizesOK DEF PositionInv, TypeOK, ByteBits
<1>2. ~inputNil /\ err = "nil" /\ base + peekSize <= got
  BY DEF PositionInv, Control
<1>3. /\ NextByte = base + peekSize - inputLen
      /\ NextByte' = base + peekSize - inputLen'
  BY <1>2 DEF NextByte
<1>4. Pos = (NextByte - headerBuffered) * 8 - bitsLen
  <2>1. err # "Fail"
    BY <1>2
  <2>2. QED BY <2>1, PosEq DEF PositionInv
<1>5. /\ bitsLen' \in Nat /\ inputLen' \in Nat /\ inputLen' <= inputLen
      /\ headerBuffered' = 0 /\ bits' = Pos + w
      /\ bitsLen' = bitsLen + 8 * (inputLen + headerBuffered) - w - 8 * inputLen'
  BY DEF Took
<1>6. Contiguous'
  <2>1. bits' + bitsLen' = (NextByte' - headerBuffered') * 8
    BY <1>1, <1>3, <1>4, <1>5
  <2>2. QED BY <2>1 DEF Contiguous, ByteBits
<1>7. Retained'
  <2>1. bitsLen' + 8 * inputLen' <= bitsLen + 8 * inputLen
    BY TookFacts
  <2>2. /\ bitsLen' \in Nat /\ inputLen' \in Nat /\ inputLen' <= inputLen
    BY <1>5
  <2>3. /\ Held \in Nat /\ bitsLen < Held * 8 + 8
        /\ Held' \in Nat /\ Held' * 8 <= bitsLen'
    BY <1>1, <2>2, WholeBytes DEF Held, ByteBits
  <2>4. base + Held <= NextByte /\ base + peekSize <= got
    BY <1>2 DEF PositionInv, Retained
  <2>5. base + Held <= base + peekSize - inputLen
    BY <1>3, <2>4
  <2>6. got \in Nat
    BY SizesOK DEF PositionInv, TypeOK
  <2>7. /\ base + Held' <= base + peekSize - inputLen'
        /\ base + peekSize - inputLen' <= got
    BY <1>1, <2>1, <2>2, <2>3, <2>4, <2>5, <2>6, WholeBytesMoved
  <2>8. base' + Held' <= NextByte' /\ NextByte' <= got'
    BY <1>3, <2>7
  <2>9. QED BY <2>8 DEF Retained
<1>8. QED BY <1>6, <1>7 DEF HeaderKept, Sound

LEMMA ShortArith ==
  ASSUME NEW i \in Nat, NEW h \in Nat, NEW m \in Nat, NEW w \in Nat, NEW b \in Nat,
         h <= m, w <= m * 8, b + (h + MinOf(m - h, i)) * 8 < w
  PROVE  MinOf(m - h, i) = i /\ h + i <= m /\ b + (h + i) * 8 < w
BY DEF MinOf

LEMMA HeaderShortPosition ==
  ASSUME PositionInv, HeaderShort
  PROVE  PositionInv'
<1> DEFINE e == src.elem[Pos]
<1>1. /\ bitsLen \in Nat /\ inputLen \in Nat /\ base \in Nat /\ peekSize \in Nat
      /\ headerBuffered \in Nat /\ headerBuffered <= MaxHdrSize
      /\ MaxHdrSize \in Nat /\ startBits \in Nat /\ BufSize \in Nat
      /\ RegBytes \in Nat
  BY SizesOK DEF PositionInv, TypeOK, ByteBits
<1>2. ~inputNil /\ err = "nil" /\ base + peekSize <= got
  BY DEF PositionInv, Control, HeaderShort, Decoding
<1>3. e.w \in Nat /\ e.w <= MaxHdrSize * 8
  <2>1. e.kind = "hdr" /\ Pos \in DOMAIN src.elem /\ src \in Source
    BY DEF HeaderShort, Decoding, PositionInv, TypeOK
  <2>2. e.w \in 1..(MaxHdrSize * 8)
    <3>1. ElementOK(e, MaxHdrSize, MaxSyms, HistorySize, MaxMatch,
                    (RegBytes - 1) * ByteBits + 1)
      BY <2>1, StreamElement
    <3> HIDE DEF e
    <3>2. QED BY <2>1, <3>1 DEF ElementOK, ByteBits
  <2>3. QED BY <1>1, <2>2
<1>4. HeaderInput = headerBuffered + MinOf(MaxHdrSize - headerBuffered, inputLen)
      \/ (HeaderInput = inputLen /\ headerBuffered = 0)
  <2>1. phase # "DecodingHeader" => headerBuffered = 0
    BY DEF PositionInv, Control
  <2>2. QED BY <2>1 DEF HeaderInput
<1> HIDE DEF e
<1>5. bitsLen + HeaderInput * 8 < e.w
  BY DEF HeaderShort, ByteBits, e
<1>6. bitsLen + (headerBuffered + MinOf(MaxHdrSize - headerBuffered, inputLen)) * 8 < e.w
  <2>1. CASE HeaderInput = headerBuffered + MinOf(MaxHdrSize - headerBuffered, inputLen)
    BY <1>5, <2>1
  <2>2. CASE HeaderInput = inputLen /\ headerBuffered = 0
    BY <1>1, <1>3, <1>5, <2>2 DEF MinOf
  <2>3. QED BY <1>4, <2>1, <2>2
<1>7. /\ MinOf(MaxHdrSize - headerBuffered, inputLen) = inputLen
      /\ headerBuffered + inputLen <= MaxHdrSize
      /\ bitsLen + (headerBuffered + inputLen) * 8 < e.w
  BY <1>1, <1>3, <1>6, ShortArith
<1>8. /\ headerBuffered' = headerBuffered + inputLen /\ inputLen' = 0
      /\ phase' = "DecodingHeader" /\ derr' = "EndInput" /\ pc' = "tail"
      /\ bfinal' \in BOOLEAN
      /\ UNCHANGED <<bits, bitsLen, litBlockLength, writeOverflow, copyOverflowLength,
                    copyOverflowDistance, roffset, inputNil, windowVars, err, peekSize,
                    eof, bufVars, startBits, clientVars>>
  <2>1. bfinal' \in BOOLEAN
    BY StreamElement DEF HeaderShort, Decoding, ElementOK, PositionInv, TypeOK
  <2>2. QED BY <1>7, <2>1 DEF HeaderShort, Leave
<1>9. TypeOK'
  <2>1. (headerBuffered \in 0..MaxHdrSize)' /\ (inputLen \in 0..BufSize)'
    BY <1>1, <1>7, <1>8
  <2>2. (phase \in Phases)' /\ (derr \in Fatal \cup {"nil", "EndInput", "OutputOverflow"})'
        /\ (pc \in {"idle", "read", "peek", "decode", "tail"})'
    BY <1>8 DEF Phases
  <2>3. QED BY <1>8, <2>1, <2>2 DEF PositionInv, TypeOK, windowVars, bufVars, clientVars
<1>10. Control'
  <2>1. (startBits >= inputLen * ByteBits + bitsLen)'
    <3>1. startBits >= inputLen * 8 + bitsLen
      BY DEF PositionInv, Control, HeaderShort, Decoding, ByteBits
    <3>2. QED BY <1>1, <1>8, <3>1 DEF ByteBits
  <2>2. (inputLen <= peekSize)' /\ (writePos <= Limit)'
    BY <1>1, <1>8 DEF PositionInv, Control, HeaderShort, Decoding, windowVars
  <2>3. QED BY <1>2, <1>8, <2>1, <2>2
            DEF PositionInv, Control, AskedWhenEmpty, HeaderShort, Decoding, windowVars, bufVars
<1>11. /\ NextByte = base + peekSize - inputLen
       /\ NextByte' = base + peekSize
       /\ Held' = Held
  BY <1>1, <1>2, <1>8 DEF NextByte, Held, bufVars
<1>12. NextByte' - headerBuffered' = NextByte - headerBuffered
  BY <1>1, <1>8, <1>11
<1>13. Contiguous'
  BY <1>2, <1>8, <1>12 DEF Contiguous, PositionInv
<1>14. Retained'
  <2>1. base + Held <= NextByte /\ Held \in Nat
    BY <1>1, <1>2, WholeBytes DEF PositionInv, Retained, Held, ByteBits
  <2>2. base + Held <= base + peekSize
    BY <1>1, <1>11, <2>1
  <2>3. QED BY <1>2, <1>8, <1>11, <2>2 DEF Retained, bufVars
<1>15. HeaderKept'
  <2>1. Pos' = Pos
    BY <1>8, <1>12 DEF Pos
  <2>2. QED BY <1>7, <1>8, <2>1 DEF HeaderKept, ByteBits, clientVars, e
<1>16. QED BY <1>9, <1>10, <1>13, <1>14, <1>15 DEF PositionInv

LEMMA ModCancel ==
  ASSUME NEW a \in Nat, NEW l \in Nat, a % 8 = 0, (a + l) % 8 = 0
  PROVE  l % 8 = 0
OBVIOUS

LEMMA ReadArith ==
  ASSUME NEW b \in Nat, NEW i \in Nat, NEW h \in Nat, NEW w \in Nat, NEW l \in Nat,
         NEW n \in Int, NEW pos \in Nat, NEW j, pos = (n - h) * 8 - b,
         (pos + w + l) % 8 = 0, b <= w + l, w + l <= b + (h + i) * 8,
         h = 0 \/ b + h * 8 <= w, j = i - ((w + l - b) \div 8 - h)
  PROVE  /\ j \in 0..i
         /\ l + 8 * j <= b + 8 * i
         /\ l = b + 8 * (i + h) - w - 8 * j
         /\ 8 * h <= w
<1> DEFINE d == w + l - b
<1>1. d \in Nat /\ d = ((pos + w + l) - 8 * (n - h))
  OBVIOUS
<1>2. d % 8 = 0
  BY <1>1
<1>3. PICK q \in Nat : d \div 8 = q /\ d = 8 * q
  BY <1>1, <1>2
<1>4. j = i - q + h /\ q >= h /\ q <= i + h /\ w + l - b = 8 * q
  BY <1>3
<1>5. QED BY <1>4

\* A header is taken whole, and a stored block starts at a whole byte.
LEMMA HeaderReadTook ==
  ASSUME PositionInv, NEW l \in 0..(RegBytes * ByteBits), HeaderRead(l)
  PROVE  /\ Took(src.elem[Pos].w) /\ src.elem[Pos].w \in Nat
         /\ src.elem[Pos].form = "stored" => bitsLen' % 8 = 0
<1> DEFINE e == src.elem[Pos]
           j == inputLen - ((e.w + l - bitsLen) \div 8 - headerBuffered)
<1>1. /\ bitsLen \in Nat /\ inputLen \in Nat /\ headerBuffered \in Nat
      /\ base \in Nat /\ peekSize \in Nat /\ startBits \in Nat /\ l \in Nat
      /\ inputLen <= BufSize /\ BufSize \in Nat
  BY SizesOK DEF PositionInv, TypeOK, ByteBits
<1>2. ~inputNil /\ err = "nil" /\ pc = "decode" /\ phase # "Finish"
      /\ phase \in {"NewBlock", "DecodingHeader"} /\ inputLen <= peekSize
      /\ (phase # "DecodingHeader" => headerBuffered = 0)
      /\ startBits >= inputLen * 8 + bitsLen
  BY DEF PositionInv, Control, HeaderRead, Decoding, ByteBits
<1>3. /\ Pos \in DOMAIN src.elem /\ e.kind = "hdr" /\ src \in Source
      /\ ElementOK(e, MaxHdrSize, MaxSyms, HistorySize, MaxMatch,
                   (RegBytes - 1) * ByteBits + 1)
      /\ e.form = "stored" => (Pos + e.w) % 8 = 0 /\ e.len \in Nat
  BY StreamElement DEF HeaderRead, Decoding, PositionInv, TypeOK, ByteBits
<1>4. Pos \in Nat
  BY <1>3, StreamElement
<1>5. NextByte \in Int /\ Pos = (NextByte - headerBuffered) * 8 - bitsLen
  BY <1>1, <1>2, PosEq DEF PositionInv, NextByte
<1>6. /\ bitsLen + HeaderInput * 8 >= e.w + l /\ bitsLen <= e.w + l
      /\ (Pos + e.w + l) % 8 = 0
      /\ bits' = Pos + e.w /\ bitsLen' = l /\ inputLen' = j
      /\ headerBuffered' = 0 /\ bfinal' = e.final
      /\ \/ e.form = "stored" /\ Leave("nil")
            /\ phase' = "LitBlock" /\ litBlockLength' = e.len
         \/ e.form = "huff" /\ Leave("nil")
            /\ phase' = "HeaderDecoded" /\ UNCHANGED litBlockLength
         \/ e.form = "bad" /\ Leave("InvalidBlock")
            /\ UNCHANGED <<phase, litBlockLength>>
      /\ UNCHANGED <<writeOverflow, copyOverflowLength, copyOverflowDistance,
                    roffset, inputNil, windowVars, err, peekSize, eof, bufVars,
                    startBits, clientVars>>
  BY DEF HeaderRead, ByteBits
<1> HIDE DEF e, j
<1>7. e.w \in Nat /\ e.final \in BOOLEAN
  BY <1>3 DEF ElementOK
<1>8. e.w + l <= bitsLen + (headerBuffered + inputLen) * 8
      /\ (headerBuffered = 0 \/ bitsLen + headerBuffered * 8 <= e.w)
  <2>1. CASE phase = "DecodingHeader"
    <3>1. HeaderInput <= headerBuffered + inputLen /\ HeaderInput \in Int
      BY <1>1, <2>1, SizesOK DEF HeaderInput, MinOf
    <3>2. bitsLen + headerBuffered * 8 < e.w
      <4>1. Sound
        BY <1>2 DEF PositionInv, Sound, Control, Fatal
      <4>2. QED BY <2>1, <4>1 DEF PositionInv, HeaderKept, ByteBits, e
    <3>3. QED BY <1>1, <1>6, <1>7, <3>1, <3>2
  <2>2. CASE phase # "DecodingHeader"
    <3>1. HeaderInput = inputLen /\ headerBuffered = 0
      BY <1>2, <2>2 DEF HeaderInput
    <3>2. QED BY <1>1, <1>6, <1>7, <3>1
  <2>3. QED BY <2>1, <2>2
<1>9. /\ j \in 0..inputLen /\ l + 8 * j <= bitsLen + 8 * inputLen
      /\ l = bitsLen + 8 * (inputLen + headerBuffered) - e.w - 8 * j
      /\ 8 * headerBuffered <= e.w
  <2>1. /\ (Pos + e.w + l) % 8 = 0 /\ bitsLen <= e.w + l
        /\ Pos = (NextByte - headerBuffered) * 8 - bitsLen
        /\ j = inputLen - ((e.w + l - bitsLen) \div 8 - headerBuffered)
    BY <1>5, <1>6 DEF j
  <2>2. QED BY <1>1, <1>4, <1>5, <1>7, <1>8, <2>1, ReadArith
<1>10. Took(e.w)
  <2>1. /\ inputLen' \in Nat /\ inputLen' <= inputLen
        /\ bitsLen' \in Nat /\ bitsLen' <= RegBytes * 8
    BY <1>1, <1>6, <1>9 DEF ByteBits
  <2>2. QED BY <1>6, <1>9, <2>1 DEF Took
<1>11. e.form = "stored" => bitsLen' % 8 = 0
  <2> SUFFICES ASSUME e.form = "stored" PROVE bitsLen' % 8 = 0
    OBVIOUS
  <2>1. (Pos + e.w) % 8 = 0
    BY <1>3 DEF e
  <2>2. l % 8 = 0
    <3>1. Pos + e.w \in Nat /\ (Pos + e.w + l) % 8 = 0
      BY <1>4, <1>6, <1>7
    <3>2. QED BY <1>1, <2>1, <3>1, ModCancel
  <2>3. QED BY <1>6, <2>2
<1>12. QED BY <1>7, <1>10, <1>11 DEF e

LEMMA HeaderReadPosition ==
  ASSUME PositionInv, NEW l \in 0..(RegBytes * ByteBits), HeaderRead(l)
  PROVE  PositionInv'
<1> DEFINE e == src.elem[Pos]
<1>1. /\ ~inputNil /\ err = "nil" /\ pc = "decode"
      /\ phase \in {"NewBlock", "DecodingHeader"} /\ base + peekSize <= got
  BY DEF PositionInv, Control, HeaderRead, Decoding
<1>2. /\ e.kind = "hdr" /\ Pos \in Nat
      /\ ElementOK(e, MaxHdrSize, MaxSyms, HistorySize, MaxMatch,
                   (RegBytes - 1) * ByteBits + 1)
      /\ e.form = "stored" => e.len \in Nat
  BY StreamElement DEF HeaderRead, Decoding, PositionInv, TypeOK
<1>3. /\ headerBuffered' = 0 /\ bfinal' = e.final
      /\ \/ e.form = "stored" /\ Leave("nil")
            /\ phase' = "LitBlock" /\ litBlockLength' = e.len
         \/ e.form = "huff" /\ Leave("nil")
            /\ phase' = "HeaderDecoded" /\ UNCHANGED litBlockLength
         \/ e.form = "bad" /\ Leave("InvalidBlock")
            /\ UNCHANGED <<phase, litBlockLength>>
      /\ UNCHANGED <<writeOverflow, copyOverflowLength, copyOverflowDistance,
                    roffset, inputNil, windowVars, err, peekSize, eof, bufVars,
                    startBits, clientVars>>
  BY DEF HeaderRead
<1>4. Took(e.w) /\ e.w \in Nat /\ (e.form = "stored" => bitsLen' % 8 = 0)
  BY HeaderReadTook
<1> HIDE DEF e
<1>5. e.final \in BOOLEAN
  BY <1>2 DEF ElementOK
<1>6. /\ (bitsLen \in 0..(RegBytes * ByteBits))' /\ (inputLen \in 0..BufSize)'
      /\ inputLen' <= peekSize /\ startBits >= inputLen' * 8 + bitsLen'
  BY <1>1, <1>4, TookFacts
<1>7. TypeOK'
  <2>1. (bits \in Nat)' /\ (headerBuffered \in 0..MaxHdrSize)'
    BY <1>2, <1>4, SizesOK DEF Took
  <2>2. /\ (phase \in Phases)' /\ (litBlockLength \in Nat)'
        /\ (derr \in Fatal \cup {"nil", "EndInput", "OutputOverflow"})'
        /\ (pc \in {"idle", "read", "peek", "decode", "tail"})'
    BY <1>2, <1>3 DEF PositionInv, TypeOK, Phases, Leave, Fatal
  <2>3. (bfinal \in BOOLEAN)'
    BY <1>3, <1>5
  <2>4. QED BY <1>3, <1>6, <2>1, <2>2, <2>3
            DEF PositionInv, TypeOK, windowVars, bufVars, clientVars
<1>8. Control'
  <2>1. (inputLen <= peekSize)' /\ (startBits >= inputLen * ByteBits + bitsLen)'
    BY <1>3, <1>6 DEF ByteBits
  <2>2. (phase = "LitBlock" => bitsLen % ByteBits = 0)'
    BY <1>1, <1>3, <1>4 DEF ByteBits
  <2>3. /\ phase' # "Finish" /\ pc' \in {"decode", "tail"} /\ derr' # "EndInput"
        /\ (pc' # "tail" => derr' = "nil")
    BY <1>1, <1>3 DEF Leave
  <2>4. QED BY <1>1, <1>3, <2>1, <2>2, <2>3
            DEF PositionInv, Control, AskedWhenEmpty, windowVars, bufVars
<1>9. Contiguous' /\ Retained' /\ HeaderKept'
  <2>1. phase' # "DecodingHeader" \/ derr' \in Fatal
    BY <1>1, <1>3 DEF Leave, Fatal
  <2>2. UNCHANGED <<inputNil, base, peekSize, got, err, src>>
    BY <1>3 DEF bufVars, clientVars
  <2>3. QED BY <1>1, <1>4, <2>1, <2>2, TurnPosition
<1>10. QED BY <1>7, <1>8, <1>9 DEF PositionInv

\* What is stored in the history buffer are bytes.
LEMMA StoredType ==
  ASSUME NEW h \in [HistIndex -> Byte], NEW w \in Nat, NEW n \in Nat,
         NEW val \in [0..(n - 1) -> Byte]
  PROVE  Stored(h, w, n, val) \in [HistIndex -> Byte]
<1>1. HistIndex \subseteq Nat
  BY DEF HistIndex
<1>2. \A i \in HistIndex : i \in w..(w + n - 1) => val[i - w] \in Byte
  BY <1>1
<1>3. QED BY <1>2 DEF Stored

LEMMA ByteCopyType ==
  ASSUME NEW h \in [HistIndex -> Byte], NEW w \in Nat, NEW n \in Nat, NEW dist \in Nat,
         w <= HistSize, n = 0 \/ (dist > 0 /\ dist <= w)
  PROVE  ByteCopy(h, w, dist, n) \in [HistIndex -> Byte]
<1>1. HistIndex \subseteq Nat /\ HistSize \in Nat
  BY SizesOK DEF HistIndex, HistSize
<1>2. CASE n = 0
  BY <1>1, <1>2 DEF ByteCopy
<1>3. CASE dist > 0 /\ dist <= w
  <2>1. ASSUME NEW i \in HistIndex, i \in w..(w + n - 1)
        PROVE  h[w - dist + ((i - w) % dist)] \in Byte
    <3>1. PICK m \in Nat : m = i - w
      BY <1>1, <2>1
    <3>2. m % dist \in 0..(dist - 1)
      BY <1>3, <3>1
    <3>3. w - dist + (m % dist) \in HistIndex
      BY <1>1, <1>3, <3>2 DEF HistIndex
    <3>4. QED BY <3>1, <3>3
  <2>2. QED BY <2>1 DEF ByteCopy
<1>4. QED BY <1>2, <1>3

LEMMA LiteralArith ==
  ASSUME NEW len \in Nat, NEW rest \in Nat, NEW avail \in Nat
  PROVE  LET room == MinOf(len, rest)
             n == IF room = 0 THEN 0 ELSE MinOf(room, avail)
         IN /\ n \in Nat /\ n <= len /\ n <= rest /\ n <= avail
            /\ room > 0 /\ room > avail => n = avail
BY DEF MinOf

\* How many bytes decodeLiteralBlock moves, and which.
LitRoom == MinOf(litBlockLength, Limit - writePos)
LitCount == IF LitRoom = 0 THEN 0 ELSE MinOf(LitRoom, Held + inputLen)
LitBytes == [j \in 0..(LitCount - 1) |-> src.plain[src.elem[Pos + j * ByteBits].o]]

LEMMA LiteralBlockTook ==
  ASSUME PositionInv, DecodeLiteralBlock
  PROVE  /\ LitCount \in Nat /\ LitCount <= litBlockLength
         /\ writePos + LitCount <= Limit
         /\ LitBytes \in [0..(LitCount - 1) -> Byte]
         /\ Pos \in Nat /\ Took(8 * LitCount) /\ 8 * LitCount \in Nat
         /\ bitsLen' % 8 = 0
         /\ LitRoom > 0 /\ LitRoom > Held + inputLen => inputLen' = 0 /\ bitsLen' = 0
<1> DEFINE n == LitCount
           avail == Held + inputLen
           reg == MinOf(n, Held)
           rest == Limit - writePos
<1>1. /\ bitsLen \in Nat /\ inputLen \in Nat /\ litBlockLength \in Nat
      /\ startBits \in Nat /\ inputLen <= BufSize /\ BufSize \in Nat
      /\ writePos \in Nat /\ bitsLen <= RegBytes * 8 /\ RegBytes \in Nat
      /\ base \in Nat /\ peekSize \in Nat
  BY SizesOK DEF PositionInv, TypeOK, ByteBits
<1>2. /\ ~inputNil /\ err = "nil" /\ pc = "decode" /\ phase = "LitBlock"
      /\ inputLen <= peekSize /\ headerBuffered = 0 /\ bitsLen % 8 = 0
      /\ startBits >= inputLen * 8 + bitsLen /\ writePos <= Limit
  BY DEF PositionInv, Control, DecodeLiteralBlock, ByteBits
<1>3. Held \in Nat /\ rest \in Nat /\ Limit \in Nat /\ Limit <= HistSize
      /\ HistSize \in Nat
  BY <1>1, <1>2, SizesOK, WholeBytes DEF Held, Limit, HistSize, ByteBits
<1>4. /\ \A j \in 0..(n - 1) : Pos + j * ByteBits \in DOMAIN src.elem
                            /\ src.elem[Pos + j * ByteBits].kind = "byte"
      /\ bits' = Pos + n * ByteBits
      /\ bitsLen' = bitsLen - reg * ByteBits
      /\ inputLen' = inputLen - (n - reg)
      /\ headerBuffered' = headerBuffered
  BY DEF DecodeLiteralBlock, LitCount, LitRoom
<1> HIDE DEF rest
<1>5. n \in Nat /\ n <= litBlockLength /\ n <= rest /\ n <= avail
      /\ (LitRoom > 0 /\ LitRoom > avail => n = avail)
  <2>1. avail \in Nat
    BY <1>1, <1>3
  <2>2. n = (IF MinOf(litBlockLength, rest) = 0 THEN 0
             ELSE MinOf(MinOf(litBlockLength, rest), avail))
        /\ LitRoom = MinOf(litBlockLength, rest)
    BY DEF LitCount, LitRoom, rest
  <2> HIDE DEF n, avail
  <2>3. QED BY <1>1, <1>3, <2>1, <2>2, LiteralArith
<1> DEFINE val == LitBytes
<1>6. val \in [0..(n - 1) -> Byte]
  <2>1. ASSUME NEW j \in 0..(n - 1)
        PROVE  src.plain[src.elem[Pos + j * ByteBits].o] \in Byte
    <3>1. Pos + j * ByteBits \in DOMAIN src.elem /\ src \in Source
          /\ src.elem[Pos + j * ByteBits].kind = "byte"
      BY <1>4, <2>1 DEF PositionInv, TypeOK
    <3> DEFINE p == Pos + j * ByteBits
    <3> HIDE DEF p
    <3>2. p \in DOMAIN src.elem /\ src \in Source /\ src.elem[p].kind = "byte"
      BY <3>1 DEF p
    <3>3. src.elem[p].o < src.total /\ src.elem[p].o \in Nat /\ src.total \in Nat
          /\ src.plain \in [0..(src.total - 1) -> Byte]
      BY <3>2, StreamElement, StreamsOK DEF ElementOK
    <3>4. src.plain[src.elem[p].o] \in Byte
      BY <3>3
    <3>5. QED BY <3>4 DEF p
  <2>2. QED BY <2>1 DEF LitBytes
<1> HIDE DEF n, avail, val
<1>7. /\ bitsLen' \in 0..bitsLen /\ inputLen' \in 0..inputLen
      /\ bitsLen' = bitsLen + 8 * inputLen - 8 * n - 8 * inputLen'
      /\ bitsLen' % 8 = 0
      /\ n = avail => inputLen' = 0 /\ bitsLen' = 0
  <2>1. Held = bitsLen \div 8 /\ n <= Held + inputLen
    BY <1>5 DEF Held, ByteBits, avail
  <2>2. bitsLen' = bitsLen - reg * 8 /\ inputLen' = inputLen - (n - reg)
    BY <1>4 DEF ByteBits
  <2>3. bitsLen \in Nat /\ inputLen \in Nat /\ n \in Nat /\ Held \in Nat
    BY <1>1, <1>3, <1>5
  <2>4. /\ bitsLen - reg * 8 \in 0..bitsLen /\ inputLen - (n - reg) \in 0..inputLen
        /\ bitsLen - reg * 8
             = bitsLen + 8 * inputLen - 8 * n - 8 * (inputLen - (n - reg))
        /\ bitsLen % 8 = 0 => (bitsLen - reg * 8) % 8 = 0
        /\ n = Held + inputLen =>
             inputLen - (n - reg) = 0 /\ (bitsLen % 8 = 0 => bitsLen - reg * 8 = 0)
    BY <2>1, <2>3 DEF MinOf
  <2> HIDE DEF reg
  <2>5. QED BY <1>2, <2>2, <2>4 DEF avail
<1> HIDE DEF reg
<1>8. Pos \in Nat
  <2>1. NextByte = base + peekSize - inputLen
    BY <1>2 DEF NextByte
  <2>2. bits \in Nat /\ inputLen <= peekSize /\ headerBuffered = 0
    BY <1>2 DEF PositionInv, TypeOK
  <2>3. CASE bitsLen > 0
    BY <2>2, <2>3 DEF Pos
  <2>4. CASE ~(bitsLen > 0)
    <3>1. Pos = (NextByte - headerBuffered) * 8
      BY <2>4 DEF Pos, ByteBits
    <3>2. NextByte - headerBuffered \in Nat
      BY <1>1, <2>1, <2>2
    <3>3. QED BY <3>1, <3>2
  <2>5. QED BY <2>3, <2>4
<1>9. Took(8 * n) /\ 8 * n \in Nat
  <2>1. /\ inputLen' \in Nat /\ inputLen' <= inputLen
        /\ bitsLen' \in Nat /\ bitsLen' <= RegBytes * 8 /\ 8 * n \in Nat
    <3>1. PICK c \in 0..bitsLen, j \in 0..inputLen : c = bitsLen' /\ j = inputLen'
      BY <1>7
    <3>2. c \in Nat /\ j \in Nat /\ c <= RegBytes * 8 /\ j <= inputLen
      BY <1>1, <3>1
    <3>3. QED BY <1>5, <3>1, <3>2
  <2>2. /\ bitsLen' = bitsLen + 8 * (inputLen + headerBuffered) - 8 * n - 8 * inputLen'
        /\ 8 * headerBuffered <= 8 * n
    BY <1>1, <1>2, <1>5, <1>7
  <2>3. bits' = Pos + 8 * n
    BY <1>4, <1>5, <1>8 DEF ByteBits
  <2>4. QED BY <1>2, <1>4, <2>1, <2>2, <2>3 DEF Took
<1>10. writePos + n <= Limit
  BY <1>1, <1>3, <1>5 DEF rest
<1>11. QED BY <1>5, <1>6, <1>7, <1>8, <1>9, <1>10 DEF n, avail, val

LEMMA DecodeLiteralBlockPosition ==
  ASSUME PositionInv, DecodeLiteralBlock
  PROVE  PositionInv'
<1> DEFINE n == LitCount
<1>1. /\ litBlockLength \in Nat /\ writePos \in Nat /\ Limit \in Nat
      /\ HistSize \in Nat /\ Limit <= HistSize
  BY SizesOK DEF PositionInv, TypeOK, Limit, HistSize
<1>2. /\ ~inputNil /\ err = "nil" /\ pc = "decode" /\ base + peekSize <= got
  BY DEF PositionInv, Control, DecodeLiteralBlock
<1>3. /\ phase' = (IF n = litBlockLength THEN BlockDone(bfinal) ELSE "LitBlock")
      /\ Leave(IF LitRoom > 0 /\ LitRoom > Held + inputLen THEN "EndInput"
               ELSE IF litBlockLength > Limit - writePos THEN "OutputOverflow"
               ELSE "nil")
      /\ litBlockLength' = litBlockLength - n
      /\ hist' = Stored(hist, writePos, n, LitBytes)
      /\ writePos' = writePos + n
      /\ UNCHANGED <<headerBuffered, bfinal, writeOverflow, copyOverflowLength,
                    copyOverflowDistance, roffset, inputNil, readPos, err,
                    peekSize, eof, bufVars, startBits, clientVars>>
  BY DEF DecodeLiteralBlock, LitCount, LitRoom, LitBytes
<1>4. /\ n \in Nat /\ n <= litBlockLength /\ writePos + n <= Limit
      /\ LitBytes \in [0..(n - 1) -> Byte]
      /\ Pos \in Nat /\ Took(8 * n) /\ 8 * n \in Nat /\ bitsLen' % 8 = 0
      /\ (LitRoom > 0 /\ LitRoom > Held + inputLen => inputLen' = 0)
  BY LiteralBlockTook
<1> HIDE DEF n
<1>5. /\ (bitsLen \in 0..(RegBytes * ByteBits))' /\ (inputLen \in 0..BufSize)'
      /\ inputLen' <= peekSize /\ startBits >= inputLen' * 8 + bitsLen'
  BY <1>2, <1>4, TookFacts
<1>6. TypeOK'
  <2>1. (hist \in [HistIndex -> Byte])'
    BY <1>1, <1>3, <1>4, StoredType DEF PositionInv, TypeOK
  <2>2. (readPos \in 0..writePos)' /\ (writePos \in 0..HistSize)'
    <3>1. readPos \in 0..writePos
      BY DEF PositionInv, TypeOK
    <3>2. QED BY <1>1, <1>3, <1>4, <3>1
  <2>3. /\ (phase \in Phases)'
        /\ (derr \in Fatal \cup {"nil", "EndInput", "OutputOverflow"})'
        /\ (pc \in {"idle", "read", "peek", "decode", "tail"})'
    BY <1>3 DEF BlockDone, Leave, Phases
  <2>4. (litBlockLength \in Nat)' /\ (bits \in Nat)'
    BY <1>1, <1>3, <1>4 DEF Took
  <2>5. QED BY <1>3, <1>5, <2>1, <2>2, <2>3, <2>4
            DEF PositionInv, TypeOK, bufVars, clientVars
<1>7. Control'
  <2>1. (inputLen <= peekSize)' /\ (startBits >= inputLen * ByteBits + bitsLen)'
        /\ (writePos <= Limit)'
    BY <1>3, <1>4, <1>5 DEF ByteBits, bufVars
  <2>2. derr' = "EndInput" => inputLen' = 0
    BY <1>3, <1>4 DEF Leave
  <2>3. /\ phase' # "Finish" /\ pc' \in {"decode", "tail"}
        /\ (pc' # "tail" => derr' = "nil") /\ phase' # "DecodingHeader"
    BY <1>3 DEF Leave, BlockDone
  <2>4. /\ inputNil' = FALSE /\ err' = "nil" /\ base' + peekSize' <= got'
        /\ writeOverflow' = <<>> /\ copyOverflowLength' = 0
    BY <1>2, <1>3 DEF PositionInv, Control, bufVars
  <2>5. (Len(writeOverflow) + copyOverflowLength <= LookAhead)'
        /\ ~(copyOverflowLength > 0)'
    BY <1>2, <1>3, <2>4, SizesOK DEF PositionInv, Control
  <2>6. (bitsLen % ByteBits = 0)' /\ (headerBuffered = 0)'
    BY <1>4 DEF ByteBits, Took
  <2>7. QED BY <2>1, <2>2, <2>3, <2>4, <2>5, <2>6 DEF Control, AskedWhenEmpty
<1>8. Contiguous' /\ Retained' /\ HeaderKept'
  <2>1. phase' # "DecodingHeader"
    BY <1>3 DEF BlockDone
  <2>2. UNCHANGED <<inputNil, base, peekSize, got, err, src>>
    BY <1>3 DEF bufVars, clientVars
  <2>3. QED BY <1>2, <1>4, <2>1, <2>2, TurnPosition
<1>9. QED BY <1>6, <1>7, <1>8 DEF PositionInv

(***************************************************************************)
(* Entries of a Huffman block.                                             *)
(***************************************************************************)

\* Where every turn of the Huffman loop starts from.
LEMMA EntryContext ==
  ASSUME PositionInv, Decoding({"HeaderDecoded"}, "entry")
  PROVE  /\ EntryElement(src.elem[Pos]) /\ Pos \in Nat /\ src \in Source
         /\ src.elem[Pos].o + src.elem[Pos].lits <= src.total
         /\ bitsLen \in 0..(RegBytes * ByteBits) /\ inputLen \in Nat
         /\ headerBuffered = 0 /\ phase = "HeaderDecoded" /\ pc = "decode"
         /\ writePos \in Nat /\ writePos <= Limit
         /\ writeOverflow = <<>> /\ copyOverflowLength = 0
<1>1. /\ phase = "HeaderDecoded" /\ pc = "decode" /\ Pos \in DOMAIN src.elem
      /\ src.elem[Pos].kind = "entry"
  BY DEF Decoding
<1>2. src \in Source
  BY DEF PositionInv, TypeOK
<1>3. EntryElement(src.elem[Pos]) /\ Pos \in Nat
      /\ src.elem[Pos].o + src.elem[Pos].lits <= src.total
  BY <1>1, <1>2, StreamElement DEF EntryElement
<1>4. /\ headerBuffered = 0 /\ writePos <= Limit /\ writeOverflow = <<>>
      /\ copyOverflowLength = 0
  BY <1>1 DEF PositionInv, Control
<1>5. /\ bitsLen \in 0..(RegBytes * ByteBits) /\ inputLen \in Nat
      /\ writePos \in Nat
  BY SizesOK DEF PositionInv, TypeOK, HistSize
<1>6. QED BY <1>1, <1>2, <1>3, <1>4, <1>5

\* It writes bytes, up to the limit of the output, and keeps what does not fit.
Wrote ==
  /\ hist' \in [HistIndex -> Byte]
  /\ writePos' \in Nat /\ writePos <= writePos' /\ writePos' <= Limit
  /\ writeOverflow' \in Seq(Byte) /\ Len(writeOverflow') <= MaxSyms
  /\ copyOverflowLength' \in 0..MaxMatch
  /\ copyOverflowDistance' \in 0..HistorySize
  /\ Len(writeOverflow') + copyOverflowLength' <= LookAhead
  /\ copyOverflowLength' > 0 => copyOverflowDistance' > 0 /\ writePos' = Limit

LEMMA EntryTurn ==
  ASSUME PositionInv, Decoding({"HeaderDecoded"}, "entry"),
         NEW w \in Nat, Took(w), Wrote,
         NEW d \in Fatal \cup {"nil", "EndInput", "OutputOverflow"}, Leave(d),
         phase' \in {"NewBlock", "HeaderDecoded", "StreamEnd"},
         d = "EndInput" => inputLen' = 0,
         d = "nil" => writeOverflow' = <<>> /\ copyOverflowLength' = 0,
         UNCHANGED <<litBlockLength, bfinal, roffset, inputNil,
                     readPos, err, peekSize, eof, bufVars, startBits, clientVars>>
  PROVE  PositionInv'
<1>1. Pos \in Nat /\ pc = "decode" /\ writePos \in Nat
  BY EntryContext
<1>2. Limit \in Nat /\ HistSize \in Nat /\ Limit <= HistSize
  BY SizesOK DEF Limit, HistSize
<1>3. ~inputNil /\ err = "nil" /\ base + peekSize <= got
  BY <1>1 DEF PositionInv, Control
<1>4. /\ (bitsLen \in 0..(RegBytes * ByteBits))' /\ (inputLen \in 0..BufSize)'
      /\ inputLen' <= peekSize
      /\ startBits >= inputLen' * 8 + bitsLen'
  BY <1>1, TookFacts
<1>5. pc' \in {"decode", "tail"} /\ derr' = d /\ (pc' = "decode" => d = "nil")
  BY DEF Leave
<1>6. bits' = Pos + w /\ headerBuffered' = 0
  BY DEF Took
<1>7. TypeOK'
  <2>1. (bits \in Nat)' /\ (headerBuffered \in 0..MaxHdrSize)'
    BY <1>1, <1>6, SizesOK
  <2>2. (readPos \in 0..writePos)' /\ (writePos \in 0..HistSize)'
    <3>1. readPos \in 0..writePos
      BY DEF PositionInv, TypeOK
    <3>2. QED BY <1>1, <1>2, <3>1 DEF Wrote
  <2>3. (phase \in Phases)' /\ (pc \in {"idle", "read", "peek", "decode", "tail"})'
        /\ (derr \in Fatal \cup {"nil", "EndInput", "OutputOverflow"})'
    BY <1>5 DEF Phases
  <2>4. /\ (hist \in [HistIndex -> Byte])' /\ (writeOverflow \in Seq(Byte))'
        /\ (Len(writeOverflow) <= MaxSyms)' /\ (copyOverflowLength \in 0..MaxMatch)'
        /\ (copyOverflowDistance \in 0..HistorySize)'
    BY DEF Wrote
  <2>5. QED BY <1>4, <2>1, <2>2, <2>3, <2>4
            DEF PositionInv, TypeOK, bufVars, clientVars
<1>8. Control'
  <2>1. (startBits >= inputLen * ByteBits + bitsLen)'
    BY <1>4 DEF ByteBits
  <2>2. /\ inputNil' = FALSE /\ err' = "nil" /\ (base + peekSize <= got)'
        /\ (inputLen <= peekSize)'
    BY <1>3, <1>4 DEF bufVars
  <2>3. phase' # "Finish" /\ phase' # "LitBlock"
    OBVIOUS
  <2>4. /\ (pc # "tail" => derr = "nil" /\ writeOverflow = <<>> /\ copyOverflowLength = 0)'
        /\ (derr = "EndInput" => inputLen = 0)'
    BY <1>5
  <2>5. /\ (writePos <= Limit)' /\ (Len(writeOverflow) + copyOverflowLength <= LookAhead)'
        /\ (copyOverflowLength > 0 => copyOverflowDistance > 0 /\ writePos = Limit)'
    BY DEF Wrote
  <2>6. QED BY <1>5, <1>6, <2>1, <2>2, <2>3, <2>4, <2>5 DEF Control, AskedWhenEmpty
<1>9. Contiguous' /\ Retained' /\ HeaderKept'
  <2>1. UNCHANGED <<inputNil, base, peekSize, got, err, src>>
        /\ phase' # "DecodingHeader"
    BY DEF bufVars, clientVars
  <2>2. QED BY <1>1, <2>1, TurnPosition
<1>10. QED BY <1>7, <1>8, <1>9 DEF PositionInv

\* A turn that writes nothing.
Idle == UNCHANGED <<phase, writeOverflow, copyOverflowLength, copyOverflowDistance,
                    windowVars>>

LEMMA EntryIdle ==
  ASSUME PositionInv, Decoding({"HeaderDecoded"}, "entry"), Idle, Took(0),
         NEW d \in Fatal \cup {"EndInput"}, Leave(d), d = "EndInput" => inputLen' = 0,
         UNCHANGED <<litBlockLength, bfinal, roffset, inputNil,
                     readPos, err, peekSize, eof, bufVars, startBits, clientVars>>
  PROVE  PositionInv'
<1>1. /\ phase = "HeaderDecoded" /\ writePos \in Nat
      /\ writePos <= Limit /\ writeOverflow = <<>> /\ copyOverflowLength = 0
  BY EntryContext
<1>2. /\ d \in Fatal \cup {"nil", "EndInput", "OutputOverflow"}
      /\ phase' \in {"NewBlock", "HeaderDecoded", "StreamEnd"}
      /\ d = "nil" => writeOverflow' = <<>> /\ copyOverflowLength' = 0
  BY <1>1 DEF Idle
<1>3. Wrote
  <2>1. /\ hist' \in [HistIndex -> Byte] /\ copyOverflowDistance' \in 0..HistorySize
        /\ copyOverflowLength' \in 0..MaxMatch
        /\ writeOverflow' \in Seq(Byte) /\ Len(writeOverflow') <= MaxSyms
    BY DEF PositionInv, TypeOK, Idle, windowVars
  <2>2. /\ writePos' \in Nat /\ writePos <= writePos' /\ writePos' <= Limit
        /\ Len(writeOverflow') + copyOverflowLength' <= LookAhead
        /\ ~(copyOverflowLength' > 0)
    BY <1>1, SizesOK DEF Idle, windowVars, PositionInv, Control
  <2>3. QED BY <2>1, <2>2 DEF Wrote
<1>4. QED BY <1>2, <1>3, EntryTurn

\* Register and input r after w bits of an entry.
LEMMA RegTook ==
  ASSUME PositionInv, Decoding({"HeaderDecoded"}, "entry"),
         NEW r, r \in [l : Nat, n : 0..inputLen], r.l <= RegBytes * 8, NEW w \in Nat,
         r.l + 8 * r.n = bitsLen + 8 * inputLen - w,
         bits' = Pos + w, bitsLen' = r.l, inputLen' = r.n, UNCHANGED headerBuffered
  PROVE  Took(w)
<1>1. /\ bitsLen \in 0..(RegBytes * ByteBits) /\ inputLen \in Nat /\ headerBuffered = 0
  BY EntryContext
<1>2. PICK b \in Nat, i \in Nat : b = bitsLen /\ i = inputLen
  BY <1>1, SizesOK DEF ByteBits
<1>3. PICK l \in Nat, n \in Nat : /\ l = bitsLen' /\ n = inputLen' /\ n <= i
                                /\ l + 8 * n = b + 8 * i - w
                                /\ l <= RegBytes * 8
  BY <1>2
<1>4. l = b + 8 * (i + 0) - w - 8 * n /\ 8 * 0 <= w
  BY <1>3
<1>5. l = bitsLen + 8 * (inputLen + headerBuffered) - w - 8 * n /\ 8 * headerBuffered <= w
  BY <1>1, <1>2, <1>4
<1>6. bitsLen' \in Nat /\ inputLen' \in Nat /\ bitsLen' <= RegBytes * 8
      /\ inputLen' <= inputLen
  BY <1>2, <1>3
<1>7. QED BY <1>1, <1>3, <1>5, <1>6 DEF Took

LEMMA ReloadTook ==
  ASSUME PositionInv, Decoding({"HeaderDecoded"}, "entry"),
         bits' = Pos, bitsLen' = Reg1.l, inputLen' = Reg1.n, UNCHANGED headerBuffered
  PROVE  Took(0)
<1>1. /\ EntryElement(src.elem[Pos]) /\ Pos \in Nat
      /\ bitsLen \in 0..(RegBytes * ByteBits) /\ inputLen \in Nat
  BY EntryContext
<1>2. /\ Reg1 \in [l : Nat, n : 0..inputLen]
      /\ Reg1.l + 8 * Reg1.n = bitsLen + 8 * inputLen
      /\ Reg1.l <= RegBytes * 8
  BY <1>1, EntryFacts
<1>3. bitsLen + 8 * inputLen = bitsLen + 8 * inputLen - 0 /\ Pos = Pos + 0
  BY <1>1, SizesOK DEF ByteBits
<1>4. QED BY <1>2, <1>3, RegTook

\* The literals of an entry: those that fit the output, and the rest.
LEMMA LiteralFacts ==
  ASSUME PositionInv, Decoding({"HeaderDecoded"}, "entry"), NEW e, e = src.elem[Pos]
  PROVE  /\ e.lits \in Nat /\ e.lits <= MaxSyms
         /\ Fit(e) \in Nat /\ Fit(e) <= e.lits /\ writePos + Fit(e) <= Limit
         /\ writePos + Fit(e) \in Nat
         /\ WithLiterals(e) \in [HistIndex -> Byte]
         /\ Spill(e) \in Seq(Byte) /\ Len(Spill(e)) = e.lits - Fit(e)
         /\ Fit(e) < e.lits => writePos + Fit(e) = Limit
         /\ ~(Fit(e) < e.lits) => Spill(e) = <<>>
<1>1. /\ EntryElement(e) /\ src \in Source /\ e.o + e.lits <= src.total
      /\ writePos \in Nat /\ writePos <= Limit
  BY EntryContext
<1>2. e.lits \in 0..MaxSyms /\ e.o \in Nat
  BY <1>1 DEF EntryElement, ElementOK
<1>3. Limit \in Nat
  BY SizesOK DEF Limit, HistSize
<1>4. /\ e.lits \in Nat /\ e.lits <= MaxSyms /\ Fit(e) \in Nat /\ Fit(e) <= e.lits
      /\ writePos + Fit(e) <= Limit
      /\ Fit(e) < e.lits => writePos + Fit(e) = Limit
  BY <1>1, <1>2, <1>3, SizesOK DEF Fit, MinOf
<1> DEFINE fit == Fit(e)
           lits == e.lits
           o == e.o
<1>5. src.plain \in [0..(src.total - 1) -> Byte] /\ src.total \in Nat
  BY <1>1, StreamsOK
<1>6. /\ fit \in Nat /\ lits \in Nat /\ o \in Nat /\ fit <= lits /\ o + lits <= src.total
  BY <1>1, <1>2, <1>4
<1> HIDE DEF fit, lits, o
<1>7. [j \in 0..(fit - 1) |-> src.plain[o + j]] \in [0..(fit - 1) -> Byte]
  <2>1. \A j \in 0..(fit - 1) : o + j \in 0..(src.total - 1)
    BY <1>5, <1>6
  <2>2. QED BY <1>5, <2>1
<1>8. [j \in 1..(lits - fit) |-> src.plain[o + fit + j - 1]] \in [1..(lits - fit) -> Byte]
  <2>1. \A j \in 1..(lits - fit) : o + fit + j - 1 \in 0..(src.total - 1)
    BY <1>5, <1>6
  <2>2. QED BY <1>5, <2>1
<1>9. lits - fit \in Nat
  BY <1>6
<1>10. Spill(e) \in Seq(Byte) /\ Len(Spill(e)) = lits - fit
  BY <1>8, <1>9, SeqFacts DEF Spill, fit, lits, o
<1>11. WithLiterals(e) \in [HistIndex -> Byte]
  <2>1. hist \in [HistIndex -> Byte]
    BY DEF PositionInv, TypeOK
  <2>2. QED BY <1>1, <1>6, <1>7, <2>1, StoredType DEF WithLiterals, fit, o
<1>12. ~(Fit(e) < e.lits) => Spill(e) = <<>>
  <2>1. lits = fit => Len(Spill(e)) = 0
    BY <1>6, <1>10
  <2>2. lits = fit => Spill(e) = <<>>
    BY <1>10, <2>1
  <2>3. QED BY <1>6, <2>2 DEF fit, lits
<1>13. QED BY <1>1, <1>4, <1>10, <1>11, <1>12 DEF fit, lits

LEMMA EntryShortPosition ==
  ASSUME PositionInv, EntryShort
  PROVE  PositionInv'
<1>1. Decoding({"HeaderDecoded"}, "entry") /\ Short(src.elem[Pos])
  BY DEF EntryShort
<1>2. Took(0)
  BY <1>1, ReloadTook DEF EntryShort
<1>3. inputLen' = 0
  <2>1. Reg1.n = 0
    BY <1>1, EntryContext, EntryFacts
  <2>2. QED BY <2>1 DEF EntryShort
<1>4. Idle /\ Leave("EndInput")
  BY DEF Idle, EntryShort
<1>5. UNCHANGED <<litBlockLength, bfinal, roffset, inputNil,
                  readPos, err, peekSize, eof, bufVars, startBits, clientVars>>
  BY DEF EntryShort, windowVars
<1>6. QED BY <1>1, <1>2, <1>3, <1>4, <1>5, EntryIdle

LEMMA EntryBadSymbolPosition ==
  ASSUME PositionInv, EntryBadSymbol
  PROVE  PositionInv'
<1>1. Decoding({"HeaderDecoded"}, "entry")
  BY DEF EntryBadSymbol
<1>2. Took(0)
  BY <1>1, ReloadTook DEF EntryBadSymbol
<1>3. Idle /\ Leave("InvalidSymbol") /\ "InvalidSymbol" \in Fatal
  BY DEF Idle, EntryBadSymbol, Fatal
<1>4. UNCHANGED <<litBlockLength, bfinal, roffset, inputNil,
                  readPos, err, peekSize, eof, bufVars, startBits, clientVars>>
  BY DEF EntryBadSymbol, windowVars
<1>5. QED BY <1>1, <1>2, <1>3, <1>4, EntryIdle

LEMMA EntryLiteralsTook ==
  ASSUME PositionInv, EntryLiterals
  PROVE  Took(src.elem[Pos].w) /\ src.elem[Pos].w \in Nat
<1> DEFINE e == src.elem[Pos]
<1>1. /\ Decoding({"HeaderDecoded"}, "entry")
      /\ ~Short(e) /\ bits' = Pos + e.w /\ bitsLen' = Reg2(e).l /\ inputLen' = Reg2(e).n
      /\ UNCHANGED headerBuffered
  BY DEF EntryLiterals
<1>2. EntryElement(e) /\ bitsLen \in 0..(RegBytes * ByteBits) /\ inputLen \in Nat
  BY <1>1, EntryContext
<1>3. /\ Reg2(e) \in [l : Nat, n : 0..inputLen]
      /\ Reg2(e).l <= RegBytes * 8
      /\ Reg2(e).l + 8 * Reg2(e).n = bitsLen + 8 * inputLen - e.w
  BY <1>1, <1>2, EntryFacts
<1>4. e.w \in Nat
  BY <1>2 DEF EntryElement, ElementOK
<1>5. QED BY <1>1, <1>3, <1>4, RegTook

LEMMA EntryMatchTook ==
  ASSUME PositionInv, EntryMatch
  PROVE  Took(Width(src.elem[Pos])) /\ Width(src.elem[Pos]) \in Nat
<1> DEFINE e == src.elem[Pos]
<1>1. /\ Decoding({"HeaderDecoded"}, "entry") /\ HasDist(e) /\ ~Short(e)
      /\ bits' = Pos + Width(e) /\ bitsLen' = Reg4(e).l /\ inputLen' = Reg4(e).n
      /\ UNCHANGED headerBuffered
  BY DEF EntryMatch
<1>2. EntryElement(e) /\ bitsLen \in 0..(RegBytes * ByteBits) /\ inputLen \in Nat
  BY <1>1, EntryContext
<1>3. /\ Reg4(e) \in [l : Nat, n : 0..inputLen]
      /\ Reg4(e).l <= RegBytes * 8
      /\ Reg4(e).l + 8 * Reg4(e).n = bitsLen + 8 * inputLen - Width(e)
  BY <1>1, <1>2, EntryFacts DEF Width
<1>4. Width(e) \in Nat
  BY <1>2 DEF EntryElement, ElementOK, Width
<1>5. QED BY <1>1, <1>3, <1>4, RegTook

LEMMA EntryLiteralsPosition ==
  ASSUME PositionInv, EntryLiterals
  PROVE  PositionInv'
<1> DEFINE e == src.elem[Pos]
<1>1. Decoding({"HeaderDecoded"}, "entry")
  BY DEF EntryLiterals
<1>2. /\ ~Short(e) /\ bits' = Pos + e.w /\ bitsLen' = Reg2(e).l /\ inputLen' = Reg2(e).n
      /\ phase' = (IF e.tail = "eob" THEN BlockDone(bfinal) ELSE phase)
      /\ hist' = WithLiterals(e) /\ writePos' = writePos + Fit(e)
      /\ writeOverflow' = Spill(e)
      /\ Leave(IF Fit(e) < e.lits THEN "OutputOverflow" ELSE "nil")
      /\ UNCHANGED <<headerBuffered, litBlockLength, bfinal, copyOverflowLength,
                    copyOverflowDistance, roffset, inputNil, readPos, err,
                    peekSize, eof, bufVars, startBits, clientVars>>
  BY DEF EntryLiterals
<1>3. /\ EntryElement(e) /\ bitsLen \in 0..(RegBytes * ByteBits) /\ inputLen \in Nat
      /\ phase = "HeaderDecoded" /\ copyOverflowLength = 0 /\ writePos \in Nat
  BY <1>1, EntryContext
<1>4. Took(e.w) /\ e.w \in Nat
  BY EntryLiteralsTook
<1> HIDE DEF e
<1>5. /\ e.lits \in Nat /\ e.lits <= MaxSyms
      /\ Fit(e) \in Nat /\ Fit(e) <= e.lits /\ writePos + Fit(e) <= Limit
      /\ writePos + Fit(e) \in Nat
      /\ WithLiterals(e) \in [HistIndex -> Byte]
      /\ Spill(e) \in Seq(Byte) /\ Len(Spill(e)) = e.lits - Fit(e)
      /\ ~(Fit(e) < e.lits) => Spill(e) = <<>>
  BY <1>1, LiteralFacts DEF e
<1>6. Wrote
  <2>1. /\ Len(Spill(e)) <= MaxSyms /\ Len(Spill(e)) + 0 <= LookAhead
        /\ writePos <= writePos + Fit(e) /\ ~(0 > 0)
    BY <1>3, <1>5, SizesOK
  <2>2. copyOverflowLength' = 0 /\ copyOverflowDistance' \in 0..HistorySize
        /\ 0 \in 0..MaxMatch
    BY <1>2, <1>3, SizesOK DEF PositionInv, TypeOK
  <2>3. QED BY <1>2, <1>5, <2>1, <2>2 DEF Wrote
<1> DEFINE d == IF Fit(e) < e.lits THEN "OutputOverflow" ELSE "nil"
<1>7. /\ d \in Fatal \cup {"nil", "EndInput", "OutputOverflow"} /\ Leave(d)
      /\ d # "EndInput"
      /\ d = "nil" => writeOverflow' = <<>> /\ copyOverflowLength' = 0
  BY <1>2, <1>3, <1>5
<1>8. phase' \in {"NewBlock", "HeaderDecoded", "StreamEnd"}
  BY <1>2, <1>3 DEF BlockDone
<1> HIDE DEF d
<1>9. UNCHANGED <<litBlockLength, bfinal, roffset, inputNil,
                  readPos, err, peekSize, eof, bufVars, startBits, clientVars>>
  BY <1>2
<1>10. QED BY <1>1, <1>4, <1>6, <1>7, <1>8, <1>9, EntryTurn

LEMMA EntryMatchPosition ==
  ASSUME PositionInv, EntryMatch
  PROVE  PositionInv'
<1> DEFINE e == src.elem[Pos]
           w == writePos + Fit(e)
           now == MinOf(e.len, Limit - w)
           bad == e.tail = "baddist" \/ w < e.dist
<1>1. Decoding({"HeaderDecoded"}, "entry")
  BY DEF EntryMatch
<1>2. /\ HasDist(e) /\ ~Short(e)
      /\ bits' = Pos + Width(e) /\ bitsLen' = Reg4(e).l /\ inputLen' = Reg4(e).n
      /\ writeOverflow' = Spill(e)
      /\ IF bad
         THEN /\ Leave(IF e.tail = "baddist" THEN "InvalidSymbol" ELSE "InvalidLookBack")
              /\ hist' = WithLiterals(e) /\ writePos' = w
              /\ UNCHANGED <<copyOverflowLength, copyOverflowDistance>>
         ELSE /\ hist' = ByteCopy(WithLiterals(e), w, e.dist, now)
              /\ writePos' = w + now
              /\ copyOverflowLength' = e.len - now
              /\ copyOverflowDistance' = IF now < e.len THEN e.dist ELSE 0
              /\ Leave(IF now < e.len THEN "OutputOverflow" ELSE "nil")
      /\ UNCHANGED <<phase, headerBuffered, litBlockLength, bfinal, roffset,
                    inputNil, readPos, err, peekSize, eof, bufVars, startBits,
                    clientVars>>
  BY DEF EntryMatch
<1>3. /\ EntryElement(e) /\ bitsLen \in 0..(RegBytes * ByteBits) /\ inputLen \in Nat
      /\ phase = "HeaderDecoded" /\ copyOverflowLength = 0 /\ writePos \in Nat
  BY <1>1, EntryContext
<1>4. Took(Width(e)) /\ Width(e) \in Nat
  BY EntryMatchTook
<1>5. /\ e.tail \in {"match", "baddist"} /\ e.lits < MaxSyms
      /\ e.tail = "match" => e.dist \in 1..HistorySize /\ e.len \in 1..MaxMatch
  BY <1>2, <1>3 DEF HasDist, EntryElement, ElementOK
<1> HIDE DEF e
<1>6. /\ e.lits \in Nat
      /\ Fit(e) \in Nat /\ Fit(e) <= e.lits /\ w <= Limit /\ w \in Nat
      /\ WithLiterals(e) \in [HistIndex -> Byte]
      /\ Spill(e) \in Seq(Byte) /\ Len(Spill(e)) = e.lits - Fit(e)
      /\ Fit(e) < e.lits => w = Limit
      /\ ~(Fit(e) < e.lits) => Spill(e) = <<>>
  BY <1>1, LiteralFacts DEF e
<1>7. /\ Len(Spill(e)) <= MaxSyms - 1 /\ Len(Spill(e)) \in Nat /\ writePos <= w
      /\ Limit \in Nat /\ Limit <= HistSize
  BY <1>3, <1>5, <1>6, SizesOK DEF Limit, HistSize
<1> HIDE DEF w
<1>8. CASE bad
  <2> DEFINE d == IF e.tail = "baddist" THEN "InvalidSymbol" ELSE "InvalidLookBack"
  <2>1. Wrote
    <3>1. /\ Len(Spill(e)) <= MaxSyms /\ Len(Spill(e)) + 0 <= LookAhead /\ ~(0 > 0)
      BY <1>7, SizesOK
    <3>2. copyOverflowLength' = 0 /\ copyOverflowDistance' \in 0..HistorySize
          /\ 0 \in 0..MaxMatch
      BY <1>2, <1>3, <1>8, SizesOK DEF PositionInv, TypeOK
    <3>3. QED BY <1>2, <1>6, <1>7, <1>8, <3>1, <3>2 DEF Wrote
  <2>2. d \in Fatal /\ Leave(d) /\ d # "EndInput" /\ d # "nil"
    BY <1>2, <1>8 DEF Fatal
  <2> HIDE DEF d
  <2>3. phase' \in {"NewBlock", "HeaderDecoded", "StreamEnd"}
    BY <1>2, <1>3
  <2>4. UNCHANGED <<litBlockLength, bfinal, roffset, inputNil,
                    readPos, err, peekSize, eof, bufVars, startBits, clientVars>>
    BY <1>2
  <2>5. QED BY <1>1, <1>4, <2>1, <2>2, <2>3, <2>4, EntryTurn
<1>9. CASE ~bad
  <2> DEFINE d == IF now < e.len THEN "OutputOverflow" ELSE "nil"
  <2>1. /\ e.dist \in Nat /\ e.dist > 0 /\ e.dist <= HistorySize /\ e.dist <= w
        /\ e.len \in Nat /\ e.len <= MaxMatch /\ MaxMatch \in Nat
    BY <1>5, <1>6, <1>9, SizesOK
  <2>2. /\ now \in Nat /\ now <= e.len /\ w + now <= Limit /\ w + now \in Nat
        /\ now < e.len => w + now = Limit
    BY <1>6, <1>7, <2>1 DEF MinOf
  <2>3. ByteCopy(WithLiterals(e), w, e.dist, now) \in [HistIndex -> Byte]
    <3>1. w <= HistSize /\ HistSize \in Nat
      BY <1>6, <1>7, SizesOK DEF HistSize
    <3>2. now = 0 \/ (e.dist > 0 /\ e.dist <= w)
      BY <2>1
    <3> HIDE DEF now
    <3>3. QED BY <1>6, <2>1, <2>2, <3>1, <3>2, ByteCopyType
  <2> HIDE DEF now
  <2>4. /\ hist' = ByteCopy(WithLiterals(e), w, e.dist, now)
        /\ writePos' = w + now /\ copyOverflowLength' = e.len - now
        /\ copyOverflowDistance' = (IF now < e.len THEN e.dist ELSE 0)
        /\ Leave(d) /\ writeOverflow' = Spill(e)
    BY <1>2, <1>9 DEF now
  <2>5. Wrote
    <3>1. /\ e.len - now \in 0..MaxMatch /\ e.len - now \in Nat
          /\ Len(Spill(e)) + (e.len - now) <= LookAhead
          /\ Len(Spill(e)) <= MaxSyms /\ writePos <= w + now
          /\ e.len - now > 0 => now < e.len
      <4>1. PICK spill \in Nat, left \in Nat, mm \in Nat, ms \in Nat, la \in Nat :
              /\ spill = Len(Spill(e)) /\ left = e.len - now /\ mm = MaxMatch
              /\ ms = MaxSyms /\ la = LookAhead
        BY <1>7, <2>1, <2>2, SizesOK
      <4>2. left <= mm /\ spill <= ms - 1 /\ la >= mm + ms - 1
        BY <1>7, <2>1, <2>2, <4>1, SizesOK
      <4>3. left \in 0..mm /\ spill + left <= la /\ spill <= ms
        BY <4>2
      <4>4. writePos <= w + now /\ (e.len - now > 0 => now < e.len)
        BY <1>3, <1>6, <1>7, <2>1, <2>2
      <4>5. QED BY <4>1, <4>3, <4>4
    <3>2. /\ copyOverflowDistance' \in 0..HistorySize
          /\ now < e.len => copyOverflowDistance' > 0
      BY <2>1, <2>4, SizesOK
    <3>3. QED BY <1>6, <2>2, <2>3, <2>4, <3>1, <3>2 DEF Wrote
  <2>6. /\ d \in Fatal \cup {"nil", "EndInput", "OutputOverflow"} /\ d # "EndInput"
        /\ d = "nil" => writeOverflow' = <<>> /\ copyOverflowLength' = 0
    <3>1. ~(now < e.len) => e.len - now = 0 /\ ~(Fit(e) < e.lits)
      <4>1. ~(now < e.len) => w < Limit
        BY <1>5, <1>6, <1>7, <2>1, <2>2, <1>9
      <4>2. QED BY <1>6, <2>1, <2>2, <4>1
    <3>2. QED BY <1>6, <2>4, <3>1
  <2> HIDE DEF d
  <2>7. phase' \in {"NewBlock", "HeaderDecoded", "StreamEnd"}
    BY <1>2, <1>3
  <2>8. UNCHANGED <<litBlockLength, bfinal, roffset, inputNil,
                    readPos, err, peekSize, eof, bufVars, startBits, clientVars>>
    BY <1>2
  <2>9. QED BY <1>1, <1>4, <2>4, <2>5, <2>6, <2>7, <2>8, EntryTurn
<1>10. QED BY <1>8, <1>9

(***************************************************************************)
(* The end of a step.                                                      *)
(***************************************************************************)

LEMMA StepTailPosition ==
  ASSUME PositionInv, StepTail
  PROVE  PositionInv'
<1> DEFINE n == Len(writeOverflow)
           w == writePos + n
           lits == [j \in 0..(n - 1) |-> writeOverflow[j + 1]]
           done == ~Fails(derr) /\ phase = "StreamEnd" /\ w + copyOverflowLength = readPos
           drop == GivesUpInput(done)
<1>1. /\ pc = "tail" /\ pc' = "read" /\ derr' = "nil" /\ startBits' = 0
      /\ hist' = ByteCopy(Stored(hist, writePos, n, lits), w,
                          copyOverflowDistance, copyOverflowLength)
      /\ writePos' = w + copyOverflowLength
      /\ writeOverflow' = <<>> /\ copyOverflowLength' = 0 /\ copyOverflowDistance' = 0
      /\ roffset' = roffset + (startBits - (inputLen * ByteBits + bitsLen)) \div ByteBits
      /\ base' = (IF drop /\ DiscardSize > 0 THEN base + DiscardSize ELSE base)
      /\ inputNil' = drop
      /\ inputLen' = (IF drop THEN 0 ELSE inputLen)
      /\ phase' = (IF done THEN "Finish" ELSE phase)
      /\ err' = (IF derr \in Fatal THEN "Corrupt"
                 ELSE IF Fails(derr) THEN "UnexpectedEOF"
                 ELSE IF done THEN "EOF" ELSE "nil")
      /\ UNCHANGED <<bits, bitsLen, headerBuffered, litBlockLength, bfinal,
                    readPos, peekSize, eof, got, uerr, clientVars>>
  BY DEF StepTail
<1>2. /\ err = "nil" /\ ~inputNil /\ phase # "Finish" /\ inputLen <= peekSize
      /\ base + peekSize <= got /\ writePos <= Limit
      /\ startBits >= inputLen * 8 + bitsLen
      /\ n + copyOverflowLength <= LookAhead
      /\ copyOverflowLength > 0 => copyOverflowDistance > 0 /\ writePos = Limit
  BY <1>1 DEF PositionInv, Control, ByteBits
<1>3. /\ bitsLen \in Nat /\ inputLen \in Nat /\ base \in Nat /\ peekSize \in Nat
      /\ got \in Nat /\ got <= base + BufSize /\ BufSize \in Nat /\ writePos \in Nat
      /\ copyOverflowLength \in Nat /\ copyOverflowDistance \in Nat
      /\ copyOverflowDistance <= HistorySize /\ startBits \in Nat /\ roffset \in Nat
      /\ peekSize <= BufSize /\ readPos \in 0..writePos
  BY SizesOK DEF PositionInv, TypeOK, ByteBits, HistSize
<1>4. /\ writeOverflow \in Seq(Byte) /\ n \in Nat /\ hist \in [HistIndex -> Byte]
  BY DEF PositionInv, TypeOK
<1>5. /\ Limit \in Nat /\ HistSize = Limit + LookAhead /\ LookAhead \in Nat
      /\ Limit = 2 * HistorySize /\ HistorySize \in Nat
  BY SizesOK DEF Limit, HistSize
<1> HIDE DEF n
<1>6. w \in Nat /\ w + copyOverflowLength \in 0..HistSize /\ w <= HistSize
      /\ writePos <= w + copyOverflowLength
  BY <1>2, <1>3, <1>4, <1>5
<1>7. hist' \in [HistIndex -> Byte]
  <2>1. lits \in [0..(n - 1) -> Byte]
    <3>1. \A j \in 0..(n - 1) : j + 1 \in 1..n
      BY <1>4
    <3>2. \A j \in 1..n : writeOverflow[j] \in Byte
      BY <1>4 DEF n
    <3>3. QED BY <3>1, <3>2
  <2> HIDE DEF lits
  <2>2. Stored(hist, writePos, n, lits) \in [HistIndex -> Byte]
    BY <1>3, <1>4, <2>1, StoredType
  <2>3. copyOverflowLength = 0 \/ (copyOverflowDistance > 0 /\ copyOverflowDistance <= w)
    BY <1>2, <1>3, <1>4, <1>5
  <2> HIDE DEF w
  <2>4. QED BY <1>1, <1>3, <1>6, <2>2, <2>3, ByteCopyType DEF w
<1>8. (roffset \in Nat)'
  <2>1. PICK k \in Nat : k = startBits - (inputLen * 8 + bitsLen)
    BY <1>2, <1>3
  <2>2. k \div 8 \in Nat
    BY <2>1
  <2>3. QED BY <1>1, <1>3, <2>1, <2>2 DEF ByteBits
<1> HIDE DEF w, lits, done, drop
<1>9. NextByte = base + peekSize - inputLen /\ base + Held <= NextByte /\ Held \in Nat
  BY <1>2, <1>3, WholeBytes DEF NextByte, PositionInv, Retained, Held, ByteBits
<1>10. DiscardSize \in Nat /\ base + DiscardSize + Held = NextByte
  BY <1>3, <1>9 DEF DiscardSize
<1>11. /\ base' \in Nat /\ got \in base'..(base' + BufSize)
       /\ NextByte' = NextByte /\ NextByte <= got /\ base' + Held <= NextByte
  <2>1. NextByte <= got
    BY <1>2, <1>3, <1>9
  <2>2. CASE drop
    <3>1. base' = base + DiscardSize
      BY <1>1, <1>3, <1>10, <2>2
    <3>2. NextByte' = base' + Held
      BY <1>1, <2>2 DEF NextByte, Held
    <3>3. QED BY <1>3, <1>9, <1>10, <2>1, <3>1, <3>2
  <2>3. CASE ~drop
    <3>1. base' = base
      BY <1>1, <2>3
    <3>2. NextByte' = base + peekSize - inputLen
      BY <1>1, <2>3, <3>1 DEF NextByte
    <3>3. QED BY <1>3, <1>9, <2>1, <3>1, <3>2, SizesOK DEF PositionInv, TypeOK
  <2>4. QED BY <2>2, <2>3
<1>12. TypeOK'
  <2>1. /\ (hist \in [HistIndex -> Byte])' /\ (writePos \in 0..HistSize)'
        /\ (readPos \in 0..writePos)'
    BY <1>1, <1>3, <1>6, <1>7 DEF w
  <2>2. (writeOverflow \in Seq(Byte))' /\ (Len(writeOverflow) <= MaxSyms)'
    BY <1>1, SeqFacts, SizesOK
  <2>3. /\ (copyOverflowLength \in 0..MaxMatch)' /\ (copyOverflowDistance \in 0..HistorySize)'
        /\ (startBits \in Nat)' /\ (inputLen \in 0..BufSize)'
    BY <1>1, <1>2, <1>3, SizesOK
  <2>4. /\ (phase \in Phases)' /\ (pc \in {"idle", "read", "peek", "decode", "tail"})'
        /\ (derr \in Fatal \cup {"nil", "EndInput", "OutputOverflow"})'
        /\ (err \in {"nil", "EOF", "UnexpectedEOF", "Corrupt", "Fail"})'
    BY <1>1 DEF Phases, PositionInv, TypeOK
  <2>5. drop \in BOOLEAN
    BY DEF drop, GivesUpInput
  <2>6. (inputNil \in BOOLEAN)'
    BY <1>1, <2>5
  <2>7. (base \in Nat)' /\ (got \in base..(base + BufSize))'
    BY <1>1, <1>11
  <2>8. QED BY <1>1, <1>8, <2>1, <2>2, <2>3, <2>4, <2>6, <2>7
            DEF PositionInv, TypeOK, clientVars
<1>13. Control'
  <2>1. (inputNil => inputLen = 0)'
    BY <1>1
  <2>2. (~inputNil => inputLen <= peekSize /\ base + peekSize <= got)'
    BY <1>1, <1>2
  <2>3. (Len(writeOverflow) + copyOverflowLength <= LookAhead)' /\ ~(copyOverflowLength > 0)'
    BY <1>1, <1>5, SeqFacts
  <2>4. (phase # "DecodingHeader" => headerBuffered = 0)'
    BY <1>1 DEF PositionInv, Control, done
  <2>5. (phase = "LitBlock" => bitsLen % ByteBits = 0)'
    BY <1>1 DEF PositionInv, Control
  <2>6. QED BY <1>1, <2>1, <2>2, <2>3, <2>4, <2>5 DEF Control, AskedWhenEmpty
<1>14. Contiguous'
  BY <1>1, <1>2, <1>11 DEF PositionInv, Contiguous
<1>15. Retained'
  BY <1>1, <1>11 DEF Retained, Held
<1>16. HeaderKept'
  <2>1. Pos' = Pos
    BY <1>1, <1>11 DEF Pos
  <2>2. Sound' => Sound
    BY <1>1, <1>2 DEF Sound
  <2>3. phase' = "DecodingHeader" => phase = "DecodingHeader"
    BY <1>1
  <2>4. QED BY <1>1, <2>1, <2>2, <2>3 DEF PositionInv, HeaderKept, clientVars
<1>17. QED BY <1>12, <1>13, <1>14, <1>15, <1>16 DEF PositionInv

(***************************************************************************)
(* The theorems.                                                           *)
(***************************************************************************)

LEMMA NextPosition ==
  ASSUME PositionInv, [Next]_vars
  PROVE  PositionInv'
<1>1. CASE UNCHANGED vars
  <2>1. UNCHANGED <<inflateVars, windowVars, err, peekSize, eof, bufVars, pc, derr,
                    startBits, clientVars>>
    BY <1>1 DEF vars
  <2>2. Quiet /\ UNCHANGED <<err, derr>>
    BY <2>1 DEF Quiet, inflateVars, bufVars, clientVars
  <2>3. TypeOK'
    BY <2>1 DEF PositionInv, TypeOK, inflateVars, windowVars, bufVars, clientVars
  <2>4. Control'
    BY <2>1 DEF PositionInv, Control, AskedWhenEmpty, inflateVars, windowVars, bufVars
  <2>5. QED BY <2>2, <2>3, <2>4, QuietPosition DEF PositionInv, Sound
<1>2. CASE Client
  BY <1>2, CallReadPosition, ResetPosition DEF Client
<1>3. CASE Underlying
  BY <1>3, PeekFillPosition DEF Underlying
<1>4. CASE ReadLoop
  BY <1>4, ReadDeliverPosition, ReadErrorPosition, StepInputPosition,
     StepPeekPosition, PeekReturnPosition, StepTailPosition
     DEF ReadLoop
<1>5. CASE Decode
  BY <1>5, DecodeDonePosition, HeaderShortPosition, HeaderReadPosition,
     DecodeLiteralBlockPosition, EntryShortPosition, EntryBadSymbolPosition,
     EntryLiteralsPosition, EntryMatchPosition
     DEF Decode
<1>6. QED BY <1>1, <1>2, <1>3, <1>4, <1>5 DEF Next

\* The positions of the decompressor are right in every behaviour.
THEOREM PositionCorrect == Spec => []PositionInv
<1>1. Init => PositionInv
  BY InitInv
<1>2. PositionInv /\ [Next]_vars => PositionInv'
  BY NextPosition
<1>3. QED BY <1>1, <1>2, PTL DEF Spec

\* Every variable of the decompressor keeps its type: the register never holds
\* more than its 8 bytes, the header buffer never more than maxHdrSize, the
\* history buffer only bytes, and no length or position is ever negative.
THEOREM TypeCorrect == Spec => []TypeOK
<1>1. PositionInv => TypeOK
  BY DEF PositionInv
<1>2. QED BY <1>1, PositionCorrect, PTL

\* Register, header buffer and input always hold consecutive bytes of the
\* stream (reader.go:140-180, inflate.go:279-290): no byte is lost or read
\* twice between Peek, loadBits, the header parser's rollback and Discard.
THEOREM PositionsContiguous == Spec => []Contiguous
<1>1. PositionInv => Contiguous
  BY DEF PositionInv
<1>2. QED BY <1>1, PositionCorrect, PTL

\* What a table lookup leaves over when the output is full always fits the
\* lookAhead zone behind it (reader.go:217-230), so the two copies there can
\* not run over the history buffer.
THEOREM SpillAlwaysFits == Spec => []SpillFits
<1>1. PositionInv => SpillFits
  <2> SUFFICES ASSUME PositionInv PROVE SpillFits
    OBVIOUS
  <2>1. /\ writePos \in Nat /\ copyOverflowLength \in Nat
        /\ Len(writeOverflow) \in Nat /\ LookAhead \in Nat
    BY SizesOK DEF PositionInv, TypeOK, HistSize
  <2>2. HistSize = Limit + LookAhead /\ Limit \in Nat
    BY SizesOK DEF Limit, HistSize
  <2>3. CASE pc = "tail"
    <3>1. writePos <= Limit /\ Len(writeOverflow) + copyOverflowLength <= LookAhead
      BY <2>3 DEF PositionInv, Control
    <3>2. QED BY <2>1, <2>2, <3>1 DEF SpillFits
  <2>4. CASE pc # "tail"
    <3>1. writeOverflow = <<>> /\ copyOverflowLength = 0
      BY <2>4 DEF PositionInv, Control
    <3>2. writePos <= HistSize
      BY <2>1, <2>2 DEF PositionInv, TypeOK
    <3>3. QED BY <2>1, <3>1, <3>2, SeqFacts DEF SpillFits
  <2>5. QED BY <2>3, <2>4
<1>2. QED BY <1>1, PositionCorrect, PTL

\* Whenever decomperss gives up for want of input it has used all of it, so
\* step drops the slice and Peeks for more instead of spinning
\* (reader.go:176, decode.go:196-202 and 335-344).
THEOREM AsksWhenEmpty == Spec => []AskedWhenEmpty
<1>1. PositionInv => AskedWhenEmpty
  BY DEF PositionInv, Control
<1>2. QED BY <1>1, PositionCorrect, PTL

\* A header that the input at hand does not hold in full is kept whole, however
\* many pieces it comes in (inflate.go:279-290).
THEOREM HeaderAlwaysKept == Spec => []HeaderKept
<1>1. PositionInv => HeaderKept
  BY DEF PositionInv
<1>2. QED BY <1>1, PositionCorrect, PTL
-----------------------------------------------------------------------------
(***************************************************************************)
(* Where in the stream the decompressor stands.                            *)
(***************************************************************************)
\* A turn of a decoding loop moves the position by the bits it takes.
LEMMA TookPos ==
  ASSUME PositionInv, pc = "decode", NEW w \in Nat, Took(w),
         UNCHANGED <<inputNil, base, peekSize>>
  PROVE  Pos' = Pos + w
<1>1. /\ bitsLen \in Nat /\ inputLen \in Nat /\ base \in Nat /\ peekSize \in Nat
      /\ headerBuffered \in Nat
  BY SizesOK DEF PositionInv, TypeOK, ByteBits
<1>2. ~inputNil /\ err = "nil"
  BY DEF PositionInv, Control
<1>3. Pos = (base + peekSize - inputLen - headerBuffered) * 8 - bitsLen
  <2>1. err # "Fail" /\ NextByte = base + peekSize - inputLen
    BY <1>2 DEF NextByte
  <2>2. Pos = (NextByte - headerBuffered) * 8 - bitsLen
    BY <1>2, PosEq DEF PositionInv
  <2>3. QED BY <1>1, <2>1, <2>2
<1>4. /\ bitsLen' \in Nat /\ inputLen' \in Nat /\ headerBuffered' = 0
      /\ bits' = Pos + w
      /\ bitsLen' = bitsLen + 8 * (inputLen + headerBuffered) - w - 8 * inputLen'
  BY DEF Took
<1>5. CASE bitsLen' > 0
  BY <1>4, <1>5 DEF Pos
<1>6. CASE ~(bitsLen' > 0)
  <2>1. Pos' = (base + peekSize - inputLen') * 8
    BY <1>1, <1>2, <1>4, <1>6 DEF Pos, NextByte, ByteBits
  <2>2. 0 = bitsLen + 8 * (inputLen + headerBuffered) - w - 8 * inputLen'
    BY <1>4, <1>6
  <2>3. PICK b \in Nat, i \in Nat, h \in Nat, j \in Nat, a \in Nat, z \in Nat :
          b = bitsLen /\ i = inputLen /\ h = headerBuffered /\ j = inputLen'
          /\ a = base /\ z = peekSize
    BY <1>1, <1>4
  <2>4. (a + z - j) * 8 = (a + z - i - h) * 8 - b + w
    <3>1. 0 = b + 8 * (i + h) - w - 8 * j
      BY <2>2, <2>3
    <3>2. QED BY <3>1
  <2>5. QED BY <1>3, <2>1, <2>3, <2>4
<1>7. QED BY <1>5, <1>6

\* The stream behind an element.
LEMMA NextElement ==
  ASSUME src \in Source, NEW p \in DOMAIN src.elem, NEW e, e = src.elem[p]
  PROVE  /\ e.kind = "hdr" /\ e.form = "stored" =>
              StoredRun(src, p + e.w, e.len, e.o, e.final)
         /\ e.kind = "hdr" /\ e.form = "huff" => EntryAt(src, p + e.w, e.o, e.final)
         /\ e.kind = "entry" /\ e.tail \in {"none", "match"} =>
              EntryAt(src, p + Width(e), e.o + Produces(e), e.final)
         /\ e.kind = "entry" /\ e.tail = "eob" =>
              AfterBlock(src, p + Width(e), e.o + e.lits, e.final)
BY StreamsOK DEF WellFormed

\* What is left of a stored block when n bytes of it are taken.
LEMMA RunTail ==
  ASSUME NEW S, NEW q \in Nat, NEW len \in Nat, NEW o \in Int, NEW fin,
         NEW n \in 0..len, StoredRun(S, q, len, o, fin)
  PROVE  /\ StoredRun(S, q + 8 * n, len - n, o + n, fin)
         /\ n = len => AfterBlock(S, q + 8 * n, o + n, fin)
<1>1. AfterBlock(S, q + len * 8, o + len, fin)
  BY DEF StoredRun, ByteBits
<1>2. /\ q + len * 8 = (q + 8 * n) + (len - n) * 8
      /\ o + len = (o + n) + (len - n)
  OBVIOUS
<1>3. ASSUME NEW j \in 0..(len - n - 1)
      PROVE  /\ (q + 8 * n) + j * 8 \in DOMAIN S.elem
             /\ S.elem[(q + 8 * n) + j * 8].kind = "byte"
             /\ S.elem[(q + 8 * n) + j * 8].o = (o + n) + j
  <2>1. n + j \in 0..(len - 1) /\ q + (n + j) * 8 = (q + 8 * n) + j * 8
        /\ o + (n + j) = (o + n) + j
    OBVIOUS
  <2>2. /\ q + (n + j) * 8 \in DOMAIN S.elem
        /\ S.elem[q + (n + j) * 8].kind = "byte"
        /\ S.elem[q + (n + j) * 8].o = o + (n + j)
    BY <2>1 DEF StoredRun, ByteBits
  <2>3. QED BY <2>1, <2>2
<1>4. StoredRun(S, q + 8 * n, len - n, o + n, fin)
  BY <1>1, <1>2, <1>3 DEF StoredRun, ByteBits
<1>5. n = len => AfterBlock(S, q + 8 * n, o + n, fin)
  BY <1>1
<1>6. QED BY <1>4, <1>5

(***************************************************************************)
(* OnTrack and Left.                                                       *)
(***************************************************************************)

LEMMA InitTrack == Init => TrackInv
<1> SUFFICES ASSUME Init PROVE TrackInv
  OBVIOUS
<1>1. src \in Source /\ phase = "NewBlock" /\ err = "nil"
  BY DEF Init
<1>2. Pos = 0
  BY DEF Init, Pos, NextByte, Held, ByteBits
<1>3. Produced = 0
  BY SeqFacts DEF Init, Produced
<1>4. AfterBlock(src, 0, 0, FALSE)
  BY <1>1, StreamsOK DEF WellFormed, AfterBlock
<1>5. QED BY <1>1, <1>2, <1>3, <1>4 DEF TrackInv, OnTrack, Left

\* Nothing but a turn of a decoding loop moves the decoder along its track.
Still == /\ UNCHANGED <<phase, litBlockLength, bfinal, src, base>>
         /\ Pos' = Pos /\ Produced' = Produced

LEMMA StillTrack ==
  ASSUME TrackInv, Still, Sound' => Sound, err' = "EOF" => err = "EOF"
  PROVE  TrackInv'
<1>1. OnTrack'
  BY DEF TrackInv, Still, OnTrack
<1>2. Left'
  BY DEF TrackInv, Still, Left
<1>3. QED BY <1>1, <1>2 DEF TrackInv

\* The lengths of the specification are integers.
LEMMA LengthFacts ==
  ASSUME PositionInv
  PROVE  /\ Len(out) \in Nat /\ stale \in Nat /\ writePos \in Nat /\ readPos \in Nat
         /\ readPos <= writePos /\ copyOverflowLength \in Nat
         /\ Len(writeOverflow) \in Nat /\ Produced \in Int
<1>1. /\ Len(out) \in Nat /\ stale \in Nat /\ writePos \in Nat /\ readPos \in Nat
      /\ readPos <= writePos /\ copyOverflowLength \in Nat
      /\ Len(writeOverflow) \in Nat
  BY SizesOK DEF PositionInv, TypeOK, HistSize
<1>2. QED BY <1>1 DEF Produced

LEMMA ProducedGrows ==
  ASSUME PositionInv, NEW n \in Nat, UNCHANGED <<out, stale, readPos>>,
         writePos' \in Nat, Len(writeOverflow') \in Nat, copyOverflowLength' \in Nat,
         writePos' + Len(writeOverflow') + copyOverflowLength'
           = writePos + Len(writeOverflow) + copyOverflowLength + n
  PROVE  Produced' = Produced + n
<1>1. PICK w \in Nat, v \in Nat, c \in Nat :
        w = writePos' /\ v = Len(writeOverflow') /\ c = copyOverflowLength'
  OBVIOUS
<1>2. PICK w0 \in Nat, v0 \in Nat, c0 \in Nat, o \in Nat, t \in Nat, r \in Nat :
        /\ w0 = writePos /\ v0 = Len(writeOverflow) /\ c0 = copyOverflowLength
        /\ o = Len(out) /\ t = stale /\ r = readPos
  BY LengthFacts
<1>3. Produced' = o - t + (w - r) + v + c /\ Produced = o - t + (w0 - r) + v0 + c0
  BY <1>1, <1>2 DEF Produced
<1>4. w + v + c = w0 + v0 + c0 + n
  BY <1>1, <1>2
<1>5. QED BY <1>3, <1>4

LEMMA ResetTrack ==
  ASSUME PositionInv, TrackInv, NEW s \in Source, Reset(s)
  PROVE  TrackInv'
<1>1. /\ src' = s /\ phase' = "NewBlock" /\ err' = "nil" /\ out' = <<>>
      /\ stale' = writePos - readPos /\ writeOverflow' = <<>>
      /\ copyOverflowLength' = 0 /\ bitsLen' = 0 /\ inputNil' = TRUE /\ base' = 0
      /\ headerBuffered' = 0 /\ UNCHANGED <<writePos, readPos>>
  BY DEF Reset, ResetInflate, windowVars
<1>2. Pos' = 0
  BY <1>1 DEF Pos, NextByte, Held, ByteBits
<1>3. Produced' = 0
  BY <1>1, LengthFacts, SeqFacts DEF Produced
<1>4. AfterBlock(s, 0, 0, FALSE)
  BY StreamsOK DEF WellFormed, AfterBlock
<1>5. OnTrack'
  BY <1>1, <1>2, <1>3, <1>4 DEF OnTrack
<1>6. QED BY <1>1, <1>5 DEF TrackInv, Left

LEMMA CallReadTrack ==
  ASSUME TrackInv, NEW n \in ReadSizes, CallRead(n)
  PROVE  TrackInv'
<1>1. UNCHANGED <<inflateVars, windowVars, err, peekSize, eof, bufVars, derr, src, out,
                 stale>>
  BY DEF CallRead
<1>2. Still
  BY <1>1 DEF Still, Pos, NextByte, Held, Produced, inflateVars, windowVars, bufVars
<1>3. QED BY <1>1, <1>2, StillTrack DEF Sound

\* What Read hands out are bytes of the history buffer.
LEMMA Pending ==
  ASSUME PositionInv, NEW num \in Nat, num <= writePos - readPos
  PROVE  /\ [j \in 1..num |-> hist[readPos + j - 1]] \in Seq(Byte)
         /\ Len([j \in 1..num |-> hist[readPos + j - 1]]) = num
         /\ \A j \in 1..num : [i \in 1..num |-> hist[readPos + i - 1]][j]
                              = hist[readPos + j - 1]
<1>1. /\ hist \in [HistIndex -> Byte] /\ HistSize \in Nat
      /\ readPos \in Nat /\ writePos \in Nat /\ writePos <= HistSize
  BY SizesOK DEF PositionInv, TypeOK, HistSize
<1>2. \A j \in 1..num : readPos + j - 1 \in HistIndex
  BY <1>1 DEF HistIndex
<1>3. [j \in 1..num |-> hist[readPos + j - 1]] \in [1..num -> Byte]
  BY <1>1, <1>2
<1>4. QED BY <1>3, SeqFacts

LEMMA ReadDeliverStill ==
  ASSUME PositionInv, ReadDeliver
  PROVE  Still
<1> DEFINE num == MinOf(want, writePos - readPos)
<1>1. UNCHANGED <<inflateVars, err, peekSize, eof, bufVars, derr, src, stale, writePos>>
  BY DEF ReadDeliver
<1>2. num \in Nat /\ num <= writePos - readPos
  BY LengthFacts DEF MinOf, PositionInv, TypeOK
<1>3. out' = out \o [j \in 1..num |-> hist[readPos + j - 1]] /\ readPos' = readPos + num
  BY DEF ReadDeliver
<1> HIDE DEF num
<1>4. Len(out') = Len(out) + num
  <2> DEFINE s == [j \in 1..num |-> hist[readPos + j - 1]]
  <2>1. s \in Seq(Byte) /\ Len(s) = num
    BY <1>2, Pending
  <2>2. out \in Seq(Byte) /\ out' = out \o s
    BY <1>3 DEF PositionInv, TypeOK
  <2> HIDE DEF s
  <2>3. QED BY <2>1, <2>2
<1>5. Produced' = Produced
  BY <1>1, <1>2, <1>3, <1>4, LengthFacts DEF Produced, inflateVars
<1>6. QED BY <1>1, <1>5 DEF Still, Pos, NextByte, Held, inflateVars, bufVars

LEMMA ReadDeliverTrack ==
  ASSUME PositionInv, TrackInv, ReadDeliver
  PROVE  TrackInv'
<1>1. UNCHANGED <<err, derr>>
  BY DEF ReadDeliver
<1>2. QED BY <1>1, ReadDeliverStill, StillTrack DEF Sound

LEMMA ReadErrorTrack ==
  ASSUME TrackInv, ReadError
  PROVE  TrackInv'
<1>1. UNCHANGED <<inflateVars, windowVars, err, peekSize, eof, bufVars, derr, src, out,
                 stale>>
  BY DEF ReadError
<1>2. Still
  BY <1>1 DEF Still, Pos, NextByte, Held, Produced, inflateVars, windowVars, bufVars
<1>3. QED BY <1>1, <1>2, StillTrack DEF Sound

LEMMA StepPeekTrack ==
  ASSUME TrackInv, StepPeek
  PROVE  TrackInv'
<1>1. UNCHANGED <<inflateVars, windowVars, err, peekSize, eof, bufVars, derr, src, out,
                 stale>>
  BY DEF StepPeek, clientVars
<1>2. Still
  BY <1>1 DEF Still, Pos, NextByte, Held, Produced, inflateVars, windowVars, bufVars
<1>3. QED BY <1>1, <1>2, StillTrack DEF Sound

LEMMA PeekFillTrack ==
  ASSUME PositionInv, TrackInv, NEW k, NEW e, PeekFill(k, e)
  PROVE  TrackInv'
<1>1. UNCHANGED <<inflateVars, windowVars, err, peekSize, eof, base, derr, src, out,
                 stale>>
  BY DEF PeekFill, clientVars
<1>2. Still
  BY <1>1 DEF Still, Pos, NextByte, Held, Produced, inflateVars, windowVars
<1>3. QED BY <1>1, <1>2, StillTrack DEF Sound

LEMMA DecodeDoneTrack ==
  ASSUME TrackInv, DecodeDone
  PROVE  TrackInv'
<1>1. UNCHANGED <<inflateVars, windowVars, err, peekSize, eof, bufVars, derr, src, out,
                 stale>>
  BY DEF DecodeDone, clientVars
<1>2. Still
  BY <1>1 DEF Still, Pos, NextByte, Held, Produced, inflateVars, windowVars, bufVars
<1>3. QED BY <1>1, <1>2, StillTrack DEF Sound

\* Sliding the window moves nothing in or out of it.
LEMMA StepInputTrack ==
  ASSUME PositionInv, TrackInv, StepInput
  PROVE  TrackInv'
<1>1. /\ UNCHANGED <<inflateVars, err, peekSize, eof, bufVars, src, out, stale>>
      /\ derr' = "nil" /\ writePos = readPos
      /\ writePos' - readPos' = writePos - readPos
  BY LengthFacts, SizesOK DEF StepInput, StepCalled, EnterDecomperss, clientVars, windowVars
<1>2. Still
  BY <1>1 DEF Still, Pos, NextByte, Held, Produced, inflateVars, bufVars
<1>3. Sound' => Sound
  BY <1>1 DEF Sound, StepInput, StepCalled, PositionInv, Control, Fatal
<1>4. QED BY <1>1, <1>2, <1>3, StillTrack

LEMMA PeekReturnStill ==
  ASSUME PositionInv, PeekReturn
  PROVE  /\ Produced' = Produced
         /\ err' # "Fail" => Still
<1>1. /\ UNCHANGED <<phase, bits, bitsLen, headerBuffered, litBlockLength, bfinal,
                    writeOverflow, copyOverflowLength, base, got, src, out, stale>>
      /\ inputNil' = FALSE /\ peekSize' = got - base
  BY DEF PeekReturn, clientVars
<1>2. inputNil /\ writePos = readPos /\ err = "nil"
  BY DEF PeekReturn, PositionInv, Control
<1>3. writePos' - readPos' = writePos - readPos
  <2>1. UNCHANGED windowVars \/ \E n : EnterDecomperss(n)
    BY DEF PeekReturn
  <2>2. CASE UNCHANGED windowVars
    BY <2>2 DEF windowVars
  <2>3. CASE \E n : EnterDecomperss(n)
    BY <1>2, <2>3, LengthFacts, SizesOK DEF EnterDecomperss, windowVars
  <2>4. QED BY <2>1, <2>2, <2>3
<1>4. Produced' = Produced
  BY <1>1, <1>3 DEF Produced
<1>5. ASSUME err' # "Fail" PROVE Pos' = Pos
  <2>1. inputLen' = got - base - Held
    BY <1>5 DEF PeekReturn
  <2>2. NextByte' = NextByte
    <3>1. got \in Int /\ base \in Int /\ Held \in Int
      BY SizesOK DEF PositionInv, TypeOK, Held, ByteBits
    <3>2. QED BY <1>1, <1>2, <2>1, <3>1 DEF NextByte
  <2>3. QED BY <1>1, <2>2 DEF Pos
<1>6. QED BY <1>1, <1>4, <1>5 DEF Still

LEMMA PeekReturnTrack ==
  ASSUME PositionInv, TrackInv, PeekReturn
  PROVE  TrackInv'
<1>1. phase' = phase /\ base' = base /\ src' = src
  BY DEF PeekReturn, clientVars
<1>2. Sound
  BY DEF PeekReturn, PositionInv, Control, Sound, Fatal
<1>3. CASE err' = "Fail"
  <2>1. ~Sound'
    BY <1>3 DEF Sound
  <2>2. OnTrack'
    BY <2>1 DEF OnTrack
  <2>3. Left'
    BY <1>1, <1>3 DEF TrackInv, Left
  <2>4. QED BY <2>2, <2>3 DEF TrackInv
<1>4. CASE err' # "Fail"
  <2>1. err' = err
    BY <1>4 DEF PeekReturn
  <2>2. QED BY <1>2, <1>4, <2>1, PeekReturnStill, StillTrack
<1>5. QED BY <1>3, <1>4

\* Where the decoding loops stand, and what they leave alone.
LEMMA DecodeTrack ==
  ASSUME PositionInv, TrackInv, pc = "decode",
         UNCHANGED <<base, err, src>>, phase' # "Finish", OnTrack'
  PROVE  TrackInv'
<1>1. err = "nil"
  BY DEF PositionInv, Control
<1>2. QED BY <1>1 DEF TrackInv, Left

LEMMA DecodeOnTrack ==
  ASSUME PositionInv, TrackInv, pc = "decode"
  PROVE  /\ phase \in {"NewBlock", "DecodingHeader"} =>
              AfterBlock(src, Pos, Produced, FALSE)
         /\ phase = "LitBlock" =>
              StoredRun(src, Pos, litBlockLength, Produced, bfinal)
         /\ phase = "HeaderDecoded" => EntryAt(src, Pos, Produced, bfinal)
         /\ src \in Source
<1>1. Sound
  BY DEF PositionInv, Control, Sound, Fatal
<1>2. QED BY <1>1 DEF TrackInv, OnTrack, PositionInv, TypeOK

LEMMA HeaderShortStill ==
  ASSUME PositionInv, HeaderShort
  PROVE  /\ headerBuffered' = headerBuffered + inputLen /\ inputLen' = 0
         /\ HeaderInput = headerBuffered + inputLen
         /\ Pos' = Pos /\ Produced' = Produced
<1>1. /\ pc = "decode" /\ phase \in {"NewBlock", "DecodingHeader"}
      /\ phase' = "DecodingHeader" /\ derr' = "EndInput"
      /\ UNCHANGED <<bits, bitsLen, writeOverflow, copyOverflowLength, inputNil,
                     windowVars, err, peekSize, base, src, out, stale>>
      /\ inputLen' = 0
  BY DEF HeaderShort, Decoding, Leave, bufVars, clientVars
<1>2. err = "nil" /\ derr = "nil" /\ ~inputNil
  BY <1>1 DEF PositionInv, Control
<1>3. headerBuffered' = headerBuffered + inputLen /\ HeaderInput = headerBuffered + inputLen
  <2>1. /\ Pos \in DOMAIN src.elem /\ src \in Source /\ src.elem[Pos].kind = "hdr"
        /\ bitsLen + HeaderInput * 8 < src.elem[Pos].w
    BY DEF HeaderShort, Decoding, PositionInv, TypeOK, ByteBits
  <2>2. src.elem[Pos].w \in 1..(MaxHdrSize * 8)
    BY <2>1, StreamElement DEF ElementOK, ByteBits
  <2>3. /\ bitsLen \in Nat /\ inputLen \in Nat /\ headerBuffered \in Nat
        /\ headerBuffered <= MaxHdrSize /\ MaxHdrSize \in Nat
    BY SizesOK DEF PositionInv, TypeOK, ByteBits
  <2>4. phase = "NewBlock" => headerBuffered = 0
    BY DEF PositionInv, Control
  <2>5. MinOf(MaxHdrSize - headerBuffered, inputLen) = inputLen
    BY <1>1, <2>1, <2>2, <2>3, <2>4 DEF HeaderInput, MinOf
  <2>6. HeaderInput = headerBuffered + inputLen
    BY <1>1, <2>3, <2>4, <2>5 DEF HeaderInput
  <2>7. QED BY <2>5, <2>6 DEF HeaderShort
<1>4. Pos' = Pos
  <2>1. /\ base \in Nat /\ peekSize \in Nat /\ inputLen \in Nat
        /\ headerBuffered \in Nat
    BY SizesOK DEF PositionInv, TypeOK
  <2>2. NextByte' - headerBuffered' = NextByte - headerBuffered
    BY <1>1, <1>2, <1>3, <2>1 DEF NextByte
  <2>3. QED BY <1>1, <2>2 DEF Pos
<1>5. Produced' = Produced
  BY <1>1 DEF Produced, windowVars
<1>6. QED BY <1>1, <1>3, <1>4, <1>5

LEMMA HeaderShortTrack ==
  ASSUME PositionInv, TrackInv, HeaderShort
  PROVE  TrackInv'
<1>1. /\ pc = "decode" /\ phase \in {"NewBlock", "DecodingHeader"}
      /\ phase' = "DecodingHeader"
      /\ UNCHANGED <<err, base, src>>
  BY DEF HeaderShort, Decoding, bufVars, clientVars
<1>2. AfterBlock(src, Pos, Produced, FALSE)
  BY <1>1, DecodeOnTrack
<1>3. OnTrack'
  BY <1>1, <1>2, HeaderShortStill DEF OnTrack
<1>4. QED BY <1>1, <1>3, DecodeTrack

LEMMA HeaderReadTrack ==
  ASSUME PositionInv, TrackInv, NEW l \in 0..(RegBytes * ByteBits), HeaderRead(l)
  PROVE  TrackInv'
<1> DEFINE e == src.elem[Pos]
<1>1. /\ pc = "decode" /\ phase \in {"NewBlock", "DecodingHeader"}
      /\ Pos \in DOMAIN src.elem /\ e.kind = "hdr" /\ bfinal' = e.final
      /\ \/ e.form = "stored" /\ Leave("nil")
            /\ phase' = "LitBlock" /\ litBlockLength' = e.len
         \/ e.form = "huff" /\ Leave("nil")
            /\ phase' = "HeaderDecoded" /\ UNCHANGED litBlockLength
         \/ e.form = "bad" /\ Leave("InvalidBlock")
            /\ UNCHANGED <<phase, litBlockLength>>
      /\ UNCHANGED <<writeOverflow, copyOverflowLength, inputNil, windowVars, err,
                     peekSize, base, src, out, stale>>
  BY DEF HeaderRead, Decoding, bufVars, clientVars
<1>2. AfterBlock(src, Pos, Produced, FALSE) /\ src \in Source
  BY <1>1, DecodeOnTrack
<1>3. Pos' = Pos + e.w
  BY <1>1, HeaderReadTook, TookPos
<1>4. Produced' = Produced /\ e.o = Produced
  BY <1>1, <1>2 DEF Produced, windowVars, AfterBlock
<1>5. /\ e.form = "stored" => StoredRun(src, Pos + e.w, e.len, e.o, e.final)
      /\ e.form = "huff" => EntryAt(src, Pos + e.w, e.o, e.final)
  BY <1>1, <1>2, NextElement
<1> HIDE DEF e
<1>6. OnTrack' /\ phase' # "Finish"
  <2>1. CASE e.form = "stored" /\ phase' = "LitBlock" /\ litBlockLength' = e.len
    BY <1>1, <1>3, <1>4, <1>5, <2>1 DEF OnTrack
  <2>2. CASE e.form = "huff" /\ phase' = "HeaderDecoded"
    BY <1>1, <1>3, <1>4, <1>5, <2>2 DEF OnTrack
  <2>3. CASE e.form = "bad" /\ Leave("InvalidBlock") /\ UNCHANGED phase
    BY <1>1, <2>3 DEF OnTrack, Sound, Leave, Fatal
  <2>4. QED BY <1>1, <2>1, <2>2, <2>3
<1>7. QED BY <1>1, <1>6, DecodeTrack

\* The end of a block, by its final flag.
LEMMA BlockEnd ==
  ASSUME PositionInv, NEW q, NEW o, AfterBlock(src, q, o, bfinal)
  PROVE  /\ BlockDone(bfinal) = "NewBlock" => AfterBlock(src, q, o, FALSE)
         /\ BlockDone(bfinal) = "StreamEnd" => AfterBlock(src, q, o, TRUE)
         /\ BlockDone(bfinal) \in {"NewBlock", "StreamEnd"}
<1>1. bfinal \in BOOLEAN
  BY DEF PositionInv, TypeOK
<1>2. CASE bfinal
  BY <1>1, <1>2 DEF BlockDone, AfterBlock
<1>3. CASE ~bfinal
  BY <1>1, <1>3 DEF BlockDone, AfterBlock
<1>4. QED BY <1>2, <1>3

LEMMA DecodeLiteralBlockTrack ==
  ASSUME PositionInv, TrackInv, DecodeLiteralBlock
  PROVE  TrackInv'
<1> DEFINE n == LitCount
<1>1. /\ pc = "decode" /\ phase = "LitBlock"
      /\ phase' = (IF n = litBlockLength THEN BlockDone(bfinal) ELSE "LitBlock")
      /\ litBlockLength' = litBlockLength - n
      /\ writePos' = writePos + n
      /\ UNCHANGED <<bfinal, writeOverflow, copyOverflowLength, inputNil, readPos, err,
                     peekSize, base, src, out, stale>>
  BY DEF DecodeLiteralBlock, LitCount, LitRoom, bufVars, clientVars
<1>2. n \in Nat /\ n <= litBlockLength /\ Pos \in Nat /\ Took(8 * n) /\ 8 * n \in Nat
  BY LiteralBlockTook
<1>3. Pos' = Pos + 8 * n
  BY <1>1, <1>2, TookPos
<1>4. StoredRun(src, Pos, litBlockLength, Produced, bfinal) /\ src \in Source
  BY <1>1, DecodeOnTrack
<1>5. litBlockLength \in Nat /\ n \in 0..litBlockLength /\ Produced \in Int
  BY <1>2, LengthFacts DEF PositionInv, TypeOK
<1>6. /\ StoredRun(src, Pos + 8 * n, litBlockLength - n, Produced + n, bfinal)
      /\ n = litBlockLength => AfterBlock(src, Pos + 8 * n, Produced + n, bfinal)
  BY <1>2, <1>4, <1>5, RunTail
<1>7. Produced' = Produced + n
  BY <1>1, <1>2, LengthFacts, ProducedGrows
<1> HIDE DEF n
<1>8. CASE n = litBlockLength
  <2>1. phase' = BlockDone(bfinal)
    BY <1>1, <1>8
  <2>2. AfterBlock(src, Pos', Produced', bfinal)
    BY <1>3, <1>6, <1>7, <1>8
  <2>3. /\ BlockDone(bfinal) = "NewBlock" => AfterBlock(src, Pos', Produced', FALSE)
        /\ BlockDone(bfinal) = "StreamEnd" => AfterBlock(src, Pos', Produced', TRUE)
        /\ BlockDone(bfinal) \in {"NewBlock", "StreamEnd"}
    BY <2>2, BlockEnd
  <2>4. OnTrack' /\ phase' # "Finish"
    BY <1>1, <2>1, <2>3 DEF OnTrack
  <2>5. QED BY <1>1, <2>4, DecodeTrack
<1>9. CASE n # litBlockLength
  <2>1. phase' = "LitBlock"
    BY <1>1, <1>9
  <2>2. StoredRun(src, Pos', litBlockLength', Produced', bfinal)
    BY <1>1, <1>3, <1>6, <1>7
  <2>3. OnTrack'
    BY <1>1, <2>1, <2>2 DEF OnTrack
  <2>4. QED BY <1>1, <2>1, <2>3, DecodeTrack
<1>10. QED BY <1>8, <1>9

\* An entry that is not taken.
LEMMA EntryIdleTrack ==
  ASSUME PositionInv, TrackInv, Decoding({"HeaderDecoded"}, "entry"), Idle, Took(0),
         UNCHANGED <<bfinal, inputNil, err, peekSize, base, src, out, stale>>
  PROVE  TrackInv'
<1>1. pc = "decode" /\ phase = "HeaderDecoded" /\ Pos \in Nat
  BY EntryContext
<1>2. Pos' = Pos
  <2>1. Pos' = Pos + 0
    BY <1>1, TookPos
  <2>2. QED BY <1>1, <2>1
<1>3. Produced' = Produced
  BY DEF Idle, Produced, windowVars
<1>4. EntryAt(src, Pos, Produced, bfinal)
  BY <1>1, DecodeOnTrack
<1>5. OnTrack' /\ phase' # "Finish"
  BY <1>1, <1>2, <1>3, <1>4 DEF OnTrack, Idle
<1>6. QED BY <1>1, <1>5, DecodeTrack

LEMMA EntryShortTrack ==
  ASSUME PositionInv, TrackInv, EntryShort
  PROVE  TrackInv'
<1>1. Decoding({"HeaderDecoded"}, "entry") /\ Idle
      /\ UNCHANGED <<bfinal, inputNil, err, peekSize, base, src, out, stale>>
  BY DEF EntryShort, Idle, bufVars, clientVars
<1>2. Took(0)
  BY <1>1, ReloadTook DEF EntryShort
<1>3. QED BY <1>1, <1>2, EntryIdleTrack

LEMMA EntryBadSymbolTrack ==
  ASSUME PositionInv, TrackInv, EntryBadSymbol
  PROVE  TrackInv'
<1>1. Decoding({"HeaderDecoded"}, "entry") /\ Idle
      /\ UNCHANGED <<bfinal, inputNil, err, peekSize, base, src, out, stale>>
  BY DEF EntryBadSymbol, Idle, bufVars, clientVars
<1>2. Took(0)
  BY <1>1, ReloadTook DEF EntryBadSymbol
<1>3. QED BY <1>1, <1>2, EntryIdleTrack

LEMMA EntryLiteralsTrack ==
  ASSUME PositionInv, TrackInv, EntryLiterals
  PROVE  TrackInv'
<1> DEFINE e == src.elem[Pos]
<1>1. /\ Decoding({"HeaderDecoded"}, "entry") /\ e.tail \in {"none", "eob"}
      /\ phase' = (IF e.tail = "eob" THEN BlockDone(bfinal) ELSE phase)
      /\ writePos' = writePos + Fit(e) /\ writeOverflow' = Spill(e)
      /\ UNCHANGED <<bfinal, copyOverflowLength, inputNil, readPos, err, peekSize, base,
                     src, out, stale>>
  BY DEF EntryLiterals, bufVars, clientVars
<1>2. /\ pc = "decode" /\ phase = "HeaderDecoded" /\ writeOverflow = <<>>
      /\ Pos \in DOMAIN src.elem /\ e.kind = "entry" /\ EntryElement(e)
  BY <1>1, EntryContext DEF Decoding
<1>3. EntryAt(src, Pos, Produced, bfinal) /\ src \in Source
  BY <1>2, DecodeOnTrack
<1>4. Pos' = Pos + e.w
  BY <1>1, <1>2, EntryLiteralsTook, TookPos
<1>5. e.o = Produced /\ e.final = bfinal
  BY <1>3 DEF EntryAt
<1>6. /\ e.tail = "none" => EntryAt(src, Pos + Width(e), e.o + Produces(e), e.final)
      /\ e.tail = "eob" => AfterBlock(src, Pos + Width(e), e.o + e.lits, e.final)
  BY <1>2, <1>3, NextElement
<1>7. /\ e.lits \in Nat /\ Fit(e) \in Nat /\ Fit(e) <= e.lits
      /\ Len(Spill(e)) = e.lits - Fit(e)
  BY <1>1, LiteralFacts
<1> HIDE DEF e
<1>8. Produced' = Produced + e.lits
  <2>1. Len(writeOverflow) = 0
    BY <1>2, SeqFacts
  <2>2. PICK f \in Nat, n \in Nat, w \in Nat, c \in Nat :
          /\ f = Fit(e) /\ n = e.lits /\ w = writePos /\ c = copyOverflowLength
    BY <1>7, LengthFacts
  <2>3. /\ writePos' = w + f /\ Len(writeOverflow') = n - f /\ copyOverflowLength' = c
        /\ f <= n
    BY <1>1, <1>7, <2>2
  <2>4. /\ w + f \in Nat /\ n - f \in Nat /\ (w + f) + (n - f) + c = w + 0 + c + n
    BY <2>3
  <2>5. Produced' = Produced + n
    BY <1>1, <2>1, <2>2, <2>3, <2>4, ProducedGrows
  <2>6. QED BY <2>2, <2>5
<1>9. Width(e) = e.w /\ (e.tail = "none" => Produces(e) = e.lits)
  BY <1>1, <1>2, <1>7 DEF Width, EntryElement, ElementOK, Produces
<1>10. CASE e.tail = "none"
  <2>1. EntryAt(src, Pos', Produced', bfinal) /\ phase' = "HeaderDecoded"
    BY <1>1, <1>2, <1>4, <1>5, <1>6, <1>8, <1>9, <1>10
  <2>2. OnTrack'
    BY <1>1, <2>1 DEF OnTrack
  <2>3. QED BY <1>1, <1>2, <2>1, <2>2, DecodeTrack
<1>11. CASE e.tail = "eob"
  <2>1. AfterBlock(src, Pos', Produced', bfinal) /\ phase' = BlockDone(bfinal)
    BY <1>1, <1>4, <1>5, <1>6, <1>8, <1>9, <1>11
  <2>2. /\ BlockDone(bfinal) = "NewBlock" => AfterBlock(src, Pos', Produced', FALSE)
        /\ BlockDone(bfinal) = "StreamEnd" => AfterBlock(src, Pos', Produced', TRUE)
        /\ BlockDone(bfinal) \in {"NewBlock", "StreamEnd"}
    BY <2>1, BlockEnd
  <2>3. OnTrack' /\ phase' # "Finish"
    BY <1>1, <2>1, <2>2 DEF OnTrack
  <2>4. QED BY <1>1, <1>2, <2>3, DecodeTrack
<1>12. QED BY <1>1, <1>10, <1>11

LEMMA EntryMatchTrack ==
  ASSUME PositionInv, TrackInv, EntryMatch
  PROVE  TrackInv'
<1> DEFINE e == src.elem[Pos]
           w == writePos + Fit(e)
           now == MinOf(e.len, Limit - w)
           bad == e.tail = "baddist" \/ w < e.dist
<1>1. /\ Decoding({"HeaderDecoded"}, "entry") /\ HasDist(e)
      /\ writeOverflow' = Spill(e)
      /\ UNCHANGED <<phase, bfinal, inputNil, readPos, err, peekSize, base, src, out,
                     stale>>
      /\ bad => Leave(IF e.tail = "baddist" THEN "InvalidSymbol" ELSE "InvalidLookBack")
      /\ ~bad => writePos' = w + now /\ copyOverflowLength' = e.len - now
  BY DEF EntryMatch, bufVars, clientVars
<1>2. /\ pc = "decode" /\ phase = "HeaderDecoded" /\ writeOverflow = <<>>
      /\ copyOverflowLength = 0
      /\ Pos \in DOMAIN src.elem /\ e.kind = "entry" /\ EntryElement(e)
  BY <1>1, EntryContext DEF Decoding
<1>3. EntryAt(src, Pos, Produced, bfinal) /\ src \in Source
  BY <1>2, DecodeOnTrack
<1>4. Pos' = Pos + Width(e)
  BY <1>1, <1>2, EntryMatchTook, TookPos
<1>5. e.o = Produced /\ e.final = bfinal
  BY <1>3 DEF EntryAt
<1>6. e.tail = "match" => EntryAt(src, Pos + Width(e), e.o + Produces(e), e.final)
  BY <1>2, <1>3, NextElement
<1>7. /\ e.lits \in Nat /\ Fit(e) \in Nat /\ Fit(e) <= e.lits
      /\ Len(Spill(e)) = e.lits - Fit(e) /\ w \in Nat /\ w <= Limit
  BY <1>1, LiteralFacts
<1> HIDE DEF e
<1>8. CASE bad
  <2>1. derr' \in Fatal
    BY <1>1, <1>8 DEF Leave, Fatal
  <2>2. OnTrack'
    BY <2>1 DEF OnTrack, Sound
  <2>3. QED BY <1>1, <1>2, <2>2, DecodeTrack
<1>9. CASE ~bad
  <2>1. e.tail = "match" /\ e.len \in Nat /\ Produces(e) = e.lits + e.len
    BY <1>1, <1>2, <1>9, SizesOK DEF HasDist, EntryElement, ElementOK, Produces
  <2>2. now \in Nat /\ now <= e.len /\ Limit \in Nat
    BY <1>7, <2>1, SizesOK DEF MinOf, Limit, HistSize
  <2>3. writePos' = w + now /\ copyOverflowLength' = e.len - now
    BY <1>1, <1>9
  <2> HIDE DEF now, bad
  <2>4. Len(writeOverflow) = 0 /\ Len(writeOverflow') = e.lits - Fit(e)
    BY <1>1, <1>2, <1>7, SeqFacts
  <2>5. PICK f \in Nat, n \in Nat, p \in Nat, k \in Nat, m \in Nat :
          /\ f = Fit(e) /\ n = e.lits /\ p = writePos /\ k = now /\ m = e.len
    BY <1>7, <2>1, <2>2, LengthFacts
  <2>6. /\ writePos' = p + f + k /\ Len(writeOverflow') = n - f
        /\ copyOverflowLength' = m - k /\ f <= n /\ k <= m
    BY <1>7, <2>2, <2>3, <2>4, <2>5
  <2>7. /\ p + f + k \in Nat /\ n - f \in Nat /\ m - k \in Nat /\ n + m \in Nat
        /\ (p + f + k) + (n - f) + (m - k) = p + 0 + 0 + (n + m)
    BY <2>6
  <2>8. Produced' = Produced + (n + m)
    BY <1>1, <1>2, <2>4, <2>5, <2>6, <2>7, ProducedGrows
  <2>9. EntryAt(src, Pos', Produced', bfinal)
    BY <1>4, <1>5, <1>6, <2>1, <2>5, <2>8
  <2>10. OnTrack'
    BY <1>1, <1>2, <2>9 DEF OnTrack
  <2>11. QED BY <1>1, <1>2, <2>10, DecodeTrack
<1>10. QED BY <1>8, <1>9

\* The reader ends with exactly the bytes of the stream taken: what is in the
\* register behind the last element is less than a byte, or stays in rBuf.
LEMMA EndArith ==
  ASSUME NEW b \in Nat, NEW p \in Int, NEW q \in Int, p = (q + b \div 8) * 8 - b
  PROVE  CeilDiv(p, 8) = q
BY DEF CeilDiv

LEMMA StepTailStill ==
  ASSUME PositionInv, StepTail
  PROVE  Pos' = Pos /\ Produced' = Produced
<1> DEFINE w == writePos + Len(writeOverflow)
           done == ~Fails(derr) /\ phase = "StreamEnd" /\ w + copyOverflowLength = readPos
           drop == GivesUpInput(done)
<1>1. /\ pc = "tail" /\ derr' = "nil"
      /\ writePos' = w + copyOverflowLength
      /\ writeOverflow' = <<>> /\ copyOverflowLength' = 0
      /\ base' = (IF drop /\ DiscardSize > 0 THEN base + DiscardSize ELSE base)
      /\ inputNil' = drop
      /\ inputLen' = (IF drop THEN 0 ELSE inputLen)
      /\ phase' = (IF done THEN "Finish" ELSE phase)
      /\ err' = (IF derr \in Fatal THEN "Corrupt"
                 ELSE IF Fails(derr) THEN "UnexpectedEOF"
                 ELSE IF done THEN "EOF" ELSE "nil")
      /\ UNCHANGED <<bits, bitsLen, headerBuffered, litBlockLength, bfinal, readPos,
                     peekSize, src, out, stale>>
  BY DEF StepTail, clientVars
<1>2. err = "nil" /\ ~inputNil /\ phase # "Finish"
  BY <1>1 DEF PositionInv, Control
<1>3. /\ bitsLen \in Nat /\ inputLen \in Nat /\ base \in Nat /\ peekSize \in Nat
      /\ headerBuffered \in Nat
  BY SizesOK DEF PositionInv, TypeOK, ByteBits
<1> HIDE DEF w, done, drop
<1>4. NextByte = base + peekSize - inputLen /\ base + Held <= NextByte /\ Held \in Nat
  BY <1>2, <1>3, WholeBytes DEF NextByte, PositionInv, Retained, Held, ByteBits
<1>5. DiscardSize \in Nat /\ base + DiscardSize + Held = NextByte
  BY <1>3, <1>4 DEF DiscardSize
<1>6. /\ NextByte' = NextByte /\ base' \in Nat
      /\ drop => base' + Held = NextByte
  <2>1. CASE drop
    <3>1. base' = base + DiscardSize
      BY <1>1, <1>3, <1>5, <2>1
    <3>2. NextByte' = base' + Held
      BY <1>1, <2>1 DEF NextByte, Held
    <3>3. QED BY <1>3, <1>5, <3>1, <3>2
  <2>2. CASE ~drop
    BY <1>1, <1>3, <1>4, <2>2 DEF NextByte
  <2>3. QED BY <2>1, <2>2
<1>7. Pos' = Pos
  BY <1>1, <1>6 DEF Pos
<1>8. Produced' = Produced
  <2>1. w \in Nat /\ w + copyOverflowLength \in Nat /\ Len(writeOverflow') = 0
    BY <1>1, LengthFacts, SeqFacts DEF w
  <2>2. /\ writePos' + Len(writeOverflow') + copyOverflowLength'
             = writePos + Len(writeOverflow) + copyOverflowLength + 0
        /\ writePos' \in Nat /\ Len(writeOverflow') \in Nat /\ copyOverflowLength' \in Nat
    <3>1. PICK p \in Nat, v \in Nat, c \in Nat :
            p = writePos /\ v = Len(writeOverflow) /\ c = copyOverflowLength
      BY LengthFacts
    <3>2. writePos' = p + v + c
      BY <1>1, <3>1 DEF w
    <3>3. p + v + c \in Nat /\ (p + v + c) + 0 + 0 = p + v + c + 0
      BY <3>1
    <3>4. QED BY <1>1, <2>1, <3>1, <3>2, <3>3
  <2>3. Produced' = Produced + 0
    BY <1>1, <2>2, ProducedGrows
  <2>4. QED BY <2>3, LengthFacts
<1>9. QED BY <1>7, <1>8

LEMMA StepTailTrack ==
  ASSUME PositionInv, TrackInv, StepTail
  PROVE  TrackInv'
<1> DEFINE w == writePos + Len(writeOverflow)
           done == ~Fails(derr) /\ phase = "StreamEnd" /\ w + copyOverflowLength = readPos
           drop == GivesUpInput(done)
<1>1. /\ pc = "tail" /\ derr' = "nil"
      /\ writePos' = w + copyOverflowLength
      /\ writeOverflow' = <<>> /\ copyOverflowLength' = 0
      /\ base' = (IF drop /\ DiscardSize > 0 THEN base + DiscardSize ELSE base)
      /\ inputNil' = drop
      /\ inputLen' = (IF drop THEN 0 ELSE inputLen)
      /\ phase' = (IF done THEN "Finish" ELSE phase)
      /\ err' = (IF derr \in Fatal THEN "Corrupt"
                 ELSE IF Fails(derr) THEN "UnexpectedEOF"
                 ELSE IF done THEN "EOF" ELSE "nil")
      /\ UNCHANGED <<bits, bitsLen, headerBuffered, litBlockLength, bfinal, readPos,
                     peekSize, src, out, stale>>
  BY DEF StepTail, clientVars
<1>2. err = "nil" /\ ~inputNil /\ phase # "Finish"
  BY <1>1 DEF PositionInv, Control
<1>3. /\ bitsLen \in Nat /\ inputLen \in Nat /\ base \in Nat /\ peekSize \in Nat
      /\ headerBuffered \in Nat
  BY SizesOK DEF PositionInv, TypeOK, ByteBits
<1> HIDE DEF w, done, drop
<1>4. NextByte = base + peekSize - inputLen /\ base + Held <= NextByte /\ Held \in Nat
  BY <1>2, <1>3, WholeBytes DEF NextByte, PositionInv, Retained, Held, ByteBits
<1>5. DiscardSize \in Nat /\ base + DiscardSize + Held = NextByte
  BY <1>3, <1>4 DEF DiscardSize
<1>6. /\ NextByte' = NextByte /\ base' \in Nat
      /\ drop => base' + Held = NextByte
  <2>1. CASE drop
    <3>1. base' = base + DiscardSize
      BY <1>1, <1>3, <1>5, <2>1
    <3>2. NextByte' = base' + Held
      BY <1>1, <2>1 DEF NextByte, Held
    <3>3. QED BY <1>3, <1>5, <3>1, <3>2
  <2>2. CASE ~drop
    BY <1>1, <1>3, <1>4, <2>2 DEF NextByte
  <2>3. QED BY <2>1, <2>2
<1>7. Pos' = Pos
  BY StepTailStill
<1>8. Produced' = Produced
  BY StepTailStill
<1>9. Sound' => Sound
  BY <1>1, <1>2 DEF Sound
<1>10. OnTrack'
  <2> SUFFICES ASSUME Sound' PROVE OnTrack'
    BY DEF OnTrack
  <2>1. /\ phase \in {"NewBlock", "DecodingHeader"} =>
             AfterBlock(src, Pos, Produced, FALSE)
        /\ phase = "LitBlock" => StoredRun(src, Pos, litBlockLength, Produced, bfinal)
        /\ phase = "HeaderDecoded" => EntryAt(src, Pos, Produced, bfinal)
        /\ phase = "StreamEnd" => AfterBlock(src, Pos, Produced, TRUE)
    BY <1>9 DEF TrackInv, OnTrack
  <2>2. phase' = phase \/ (phase = "StreamEnd" /\ phase' = "Finish")
    BY <1>1 DEF done
  <2>3. QED BY <1>1, <1>2, <1>7, <1>8, <2>1, <2>2 DEF OnTrack
<1>11. Left'
  <2>1. phase' = "Finish" \/ err' = "EOF" => done
    BY <1>1, <1>2
  <2>2. ASSUME done PROVE base' = CeilDiv(src.end, 8)
    <3>1. phase = "StreamEnd" /\ derr \notin Fatal /\ drop
      BY <2>2 DEF done, Fails, drop, GivesUpInput
    <3>2. Pos = src.end
      BY <1>2, <3>1 DEF TrackInv, OnTrack, Sound, AfterBlock
    <3>3. headerBuffered = 0
      BY <3>1 DEF PositionInv, Control
    <3>4. Pos = (NextByte - 0) * 8 - bitsLen
      BY <1>2, <3>3, PosEq DEF PositionInv
    <3>5. base' + Held = NextByte
      BY <1>6, <3>1
    <3>6. src.end = (base' + bitsLen \div 8) * 8 - bitsLen
      <4>1. NextByte - 0 = NextByte
        BY <1>3, <1>4
      <4>2. QED BY <3>2, <3>4, <3>5, <4>1 DEF Held, ByteBits
    <3>7. src.end \in Int /\ base' \in Int
      BY <1>6, StreamsOK DEF PositionInv, TypeOK
    <3>8. CeilDiv(src.end, 8) = base'
      BY <1>3, <3>6, <3>7, EndArith
    <3>9. QED BY <3>8
  <2>3. QED BY <1>1, <2>1, <2>2 DEF Left, ByteBits
<1>12. QED BY <1>10, <1>11 DEF TrackInv

LEMMA NextTrack ==
  ASSUME PositionInv, TrackInv, [Next]_vars
  PROVE  TrackInv'
<1>1. CASE UNCHANGED vars
  <2>1. UNCHANGED <<inflateVars, windowVars, err, peekSize, eof, bufVars, derr, src, out,
                   stale>>
    BY <1>1 DEF vars, clientVars
  <2>2. Still
    BY <2>1 DEF Still, Pos, NextByte, Held, Produced, inflateVars, windowVars, bufVars
  <2>3. QED BY <2>1, <2>2, StillTrack DEF Sound
<1>2. CASE Client
  BY <1>2, CallReadTrack, ResetTrack DEF Client
<1>3. CASE Underlying
  BY <1>3, PeekFillTrack DEF Underlying
<1>4. CASE ReadLoop
  BY <1>4, ReadDeliverTrack, ReadErrorTrack, StepInputTrack, StepPeekTrack,
     PeekReturnTrack, StepTailTrack
     DEF ReadLoop
<1>5. CASE Decode
  BY <1>5, DecodeDoneTrack, HeaderShortTrack, HeaderReadTrack, DecodeLiteralBlockTrack,
     EntryShortTrack, EntryBadSymbolTrack, EntryLiteralsTrack, EntryMatchTrack
     DEF Decode
<1>6. QED BY <1>1, <1>2, <1>3, <1>4, <1>5 DEF Next

\* Positions and track are right in every behaviour.
THEOREM TrackCorrect == Spec => []IInv
<1>1. Init => IInv
  BY InitInv, InitTrack DEF IInv
<1>2. IInv /\ [Next]_vars => IInv'
  BY NextPosition, NextTrack DEF IInv
<1>3. QED BY <1>1, <1>2, PTL DEF Spec

\* Until it meets an error of the stream, the decoder stands at the element of
\* the stream that its phase names, and has produced exactly the bytes that
\* come before that element: whatever pieces the input comes in, wherever the
\* output fills up, and however often a header is tried again
\* (reader.go:150-230, inflate.go:265-290, decode.go).
THEOREM AlwaysOnTrack == Spec => []OnTrack
<1>1. IInv => OnTrack
  BY DEF IInv, TrackInv
<1>2. QED BY <1>1, TrackCorrect, PTL

\* When Read reports io.EOF, the bufio.Reader stands behind the last byte of the
\* stream, where gzip and zlib go on with the trailer (reader.go:176-190).
THEOREM AlwaysLeftBehind == Spec => []LeftBehindStream
<1>1. IInv => LeftBehindStream
  BY DEF IInv, TrackInv, Left, LeftBehindStream
<1>2. QED BY <1>1, TrackCorrect, PTL

(***************************************************************************)
(* What history buffer, overflows and output hold.                         *)
(***************************************************************************)

\* Bytes of the plain text stored at index w continue it.
LEMMA HoldsStored ==
  ASSUME NEW h, NEW w \in Nat, NEW o \in Nat, NEW n \in Nat, NEW val,
         w + n <= HistSize, Holds(h, w, o),
         \A j \in 0..(n - 1) : val[j] = src.plain[o + j]
  PROVE  Holds(Stored(h, w, n, val), w + n, o + n)
<1> DEFINE g == Stored(h, w, n, val)
<1>1. SUFFICES ASSUME NEW k \in 1..MinOf(o + n, w + n)
               PROVE  g[w + n - k] = src.plain[o + n - k]
  BY DEF Holds
<1>2. k \in Nat /\ 1 <= k /\ k <= o + n /\ k <= w + n
  BY DEF MinOf
<1>3. PICK i \in Nat : i = w + n - k
  BY <1>2
<1>4. i \in HistIndex
  BY <1>2, <1>3, SizesOK DEF HistIndex, HistSize
<1>5. g[i] = IF i \in w..(w + n - 1) THEN val[i - w] ELSE h[i]
  BY <1>4 DEF Stored
<1> HIDE DEF g
<1>6. CASE k <= n
  <2>1. i \in w..(w + n - 1) /\ i - w \in 0..(n - 1) /\ o + (i - w) = o + n - k
    BY <1>2, <1>3, <1>6
  <2>2. val[i - w] = src.plain[o + (i - w)]
    BY <2>1
  <2>3. QED BY <1>3, <1>5, <2>1, <2>2
<1>7. CASE k > n
  <2>1. PICK m \in Nat : m = k - n
    BY <1>2, <1>7
  <2>2. /\ i \notin w..(w + n - 1) /\ m \in 1..MinOf(o, w)
        /\ i = w - m /\ o + n - k = o - m
    BY <1>2, <1>3, <1>7, <2>1 DEF MinOf
  <2>3. h[w - m] = src.plain[o - m]
    BY <2>2 DEF Holds
  <2>4. QED BY <1>3, <1>5, <2>2, <2>3
<1>8. QED BY <1>2, <1>6, <1>7

\* So does a copy of the bytes dist before, where the text repeats them.
LEMMA HoldsCopied ==
  ASSUME NEW h, NEW w \in Nat, NEW o \in Nat, NEW n \in Nat, NEW dist \in Nat,
         w + n <= HistSize, Holds(h, w, o),
         n > 0 => /\ dist > 0 /\ dist <= w /\ dist <= o
                  /\ \A x \in o..(o + n - 1) : src.plain[x] = src.plain[x - dist]
  PROVE  Holds(ByteCopy(h, w, dist, n), w + n, o + n)
<1> DEFINE g == ByteCopy(h, w, dist, n)
<1>1. SUFFICES ASSUME NEW k \in 1..MinOf(o + n, w + n)
               PROVE  g[w + n - k] = src.plain[o + n - k]
  BY DEF Holds
<1>2. k \in Nat /\ 1 <= k /\ k <= o + n /\ k <= w + n
  BY DEF MinOf
<1>3. PICK i \in Nat : i = w + n - k
  BY <1>2
<1>4. i \in HistIndex
  BY <1>2, <1>3, SizesOK DEF HistIndex, HistSize
<1>5. g[i] = IF i \in w..(w + n - 1) THEN h[w - dist + ((i - w) % dist)] ELSE h[i]
  BY <1>4 DEF ByteCopy
<1> HIDE DEF g
<1>6. CASE k <= n
  <2>1. /\ i \in w..(w + n - 1) /\ n > 0
        /\ dist \in Nat \ {0} /\ dist <= w /\ dist <= o
    BY <1>2, <1>3, <1>6
  <2>2. PICK j \in 0..(n - 1) : j = i - w /\ o + j = o + n - k
    BY <1>2, <1>3, <2>1
  <2>3. PICK r \in 0..(dist - 1) : r = j % dist
    <3>1. j % dist \in 0..(dist - 1)
      BY <2>1, <2>2, Remainder
    <3>2. QED BY <3>1
  <2>4. src.plain[o + j] = src.plain[o - dist + r]
    <3>1. \A q \in 0..(n - 1) : src.plain[o + q] = src.plain[o - dist + (q % dist)]
      <4>1. \A x \in o..(o + n - 1) : src.plain[x] = src.plain[x - dist]
        BY <2>1
      <4>2. dist \in Nat \ {0} /\ o \in Int
        BY <2>1
      <4>3. QED BY <4>1, <4>2, Periodic
    <3>2. QED BY <2>2, <2>3, <3>1
  <2>5. PICK m \in Nat : m = dist - r
    BY <2>1, <2>3
  <2>6. m \in 1..MinOf(o, w) /\ w - dist + r = w - m /\ o - dist + r = o - m
    BY <2>1, <2>3, <2>5 DEF MinOf
  <2>7. h[w - m] = src.plain[o - m]
    BY <2>6 DEF Holds
  <2>8. g[i] = h[w - dist + r]
    BY <1>5, <2>1, <2>2, <2>3
  <2>9. g[i] = src.plain[o + j]
    BY <2>4, <2>6, <2>7, <2>8
  <2>10. QED BY <1>3, <2>2, <2>9
<1>7. CASE k > n
  <2>1. PICK m \in Nat : m = k - n
    BY <1>2, <1>7
  <2>2. /\ i \notin w..(w + n - 1) /\ m \in 1..MinOf(o, w)
        /\ i = w - m /\ o + n - k = o - m
    BY <1>2, <1>3, <1>7, <2>1 DEF MinOf
  <2>3. h[w - m] = src.plain[o - m]
    BY <2>2 DEF Holds
  <2>4. QED BY <1>3, <1>5, <2>2, <2>3
<1>8. QED BY <1>2, <1>6, <1>7

LEMMA InitText == Init => TextInv
<1> SUFFICES ASSUME Init PROVE TextInv
  OBVIOUS
<1>1. /\ out = <<>> /\ stale = 0 /\ writePos = 0 /\ readPos = 0 /\ resets = 0
      /\ writeOverflow = <<>> /\ copyOverflowLength = 0
  BY DEF Init
<1>2. Len(out) = 0 /\ Len(writeOverflow) = 0
  BY <1>1, SeqFacts
<1>3. Written = 0
  BY <1>1, <1>2 DEF Written
<1>4. WindowReach /\ StaleFirst
  BY <1>1, <1>2, <1>3, SizesOK DEF WindowReach, StaleFirst, MinOf
<1>5. WindowText /\ PlainPrefix
  <2>1. Holds(hist, writePos, Written)
    BY <1>1, <1>3 DEF Holds, MinOf
  <2>2. 1..Len(writeOverflow) = {} /\ (stale + 1)..Len(out) = {}
        /\ ~(copyOverflowLength > 0)
    BY <1>1, <1>2
  <2>3. QED BY <2>1, <2>2 DEF WindowText, PlainPrefix
<1>6. QED BY <1>4, <1>5 DEF TextInv

\* Pending bytes of the stream before are handed out before anything is done.
LEMMA NotStale ==
  ASSUME PositionInv, TextInv, pc \notin {"idle", "read"} \/ writePos = readPos
  PROVE  ~(Len(out) < stale)
<1>1. SUFFICES ASSUME Len(out) < stale PROVE FALSE
  OBVIOUS
<1>2. writePos - readPos = stale - Len(out) /\ pc \in {"idle", "read"}
  BY <1>1 DEF TextInv, StaleFirst
<1>3. QED BY <1>1, <1>2, LengthFacts

\* What leaves buffer, overflows and output alone.
LEMMA QuietText ==
  ASSUME TextInv, StaleFirst',
         UNCHANGED <<windowVars, writeOverflow, copyOverflowLength,
                     copyOverflowDistance, src, out, stale, resets>>
  PROVE  TextInv'
<1>1. UNCHANGED <<hist, writePos, readPos>>
  BY DEF windowVars
<1>2. Written' = Written /\ (Trusted' => Trusted)
  BY <1>1 DEF Written, Trusted
<1>3. WindowReach'
  BY <1>1, <1>2 DEF TextInv, WindowReach
<1>4. ASSUME Trusted' PROVE WindowText' /\ PlainPrefix'
  <2>1. WindowText /\ PlainPrefix
    BY <1>2, <1>4 DEF TextInv
  <2>2. Holds(hist, writePos, Written)'
    BY <1>1, <1>2, <2>1 DEF WindowText, Holds
  <2>3. WindowText'
    BY <1>1, <1>2, <2>1, <2>2 DEF WindowText
  <2>4. PlainPrefix'
    BY <2>1 DEF PlainPrefix
  <2>5. QED BY <2>3, <2>4
<1>5. QED BY <1>3, <1>4 DEF TextInv

LEMMA QuietStepText ==
  ASSUME PositionInv, TextInv, pc \notin {"idle", "read"} \/ writePos = readPos,
         UNCHANGED <<windowVars, writeOverflow, copyOverflowLength,
                     copyOverflowDistance, src, out, stale, resets>>
  PROVE  TextInv'
<1>1. StaleFirst'
  BY NotStale DEF StaleFirst
<1>2. QED BY <1>1, QuietText

LEMMA CallReadText ==
  ASSUME PositionInv, TextInv, NEW n \in ReadSizes, CallRead(n)
  PROVE  TextInv'
<1>1. UNCHANGED <<windowVars, writeOverflow, copyOverflowLength, copyOverflowDistance,
                 src, out, stale, resets, err, ret>> /\ pc' = "read"
  BY DEF CallRead, inflateVars
<1>2. StaleFirst'
  BY <1>1 DEF TextInv, StaleFirst, windowVars
<1>3. QED BY <1>1, <1>2, QuietText

LEMMA ResetText ==
  ASSUME PositionInv, TextInv, NEW s \in Source, Reset(s)
  PROVE  TextInv'
<1>1. /\ out' = <<>> /\ stale' = writePos - readPos /\ writeOverflow' = <<>>
      /\ copyOverflowLength' = 0 /\ resets' = resets + 1 /\ err' = "nil"
      /\ ret' = [n |-> 0, err |-> "nil"] /\ pc' = "idle"
      /\ UNCHANGED <<hist, writePos, readPos>>
  BY DEF Reset, ResetInflate, windowVars
<1>2. Len(out') = 0 /\ Len(writeOverflow') = 0 /\ stale' \in Nat /\ resets \in Nat
  BY <1>1, LengthFacts, SeqFacts, SizesOK DEF PositionInv, TypeOK
<1>3. Written' = 0
  BY <1>1, <1>2, LengthFacts DEF Written
<1>4. WindowReach'
  BY <1>1, <1>2, <1>3, LengthFacts, SizesOK DEF WindowReach, MinOf
<1>5. StaleFirst'
  BY <1>1, <1>2 DEF StaleFirst
<1>6. WindowText' /\ PlainPrefix'
  <2>1. Holds(hist, writePos, Written)'
    BY <1>1, <1>3, LengthFacts DEF Holds, MinOf
  <2>2. (1..Len(writeOverflow) = {})' /\ ((stale + 1)..Len(out) = {})'
        /\ ~(copyOverflowLength > 0)'
    BY <1>1, <1>2
  <2>3. QED BY <2>1, <2>2 DEF WindowText, PlainPrefix
<1>7. QED BY <1>4, <1>5, <1>6 DEF TextInv

LEMMA ReadDeliverText ==
  ASSUME PositionInv, TextInv, ReadDeliver
  PROVE  TextInv'
<1> DEFINE num == MinOf(want, writePos - readPos)
           more == [j \in 1..num |-> hist[readPos + j - 1]]
<1>1. /\ pc = "read" /\ pc' = "idle" /\ out' = out \o more /\ readPos' = readPos + num
      /\ ret' = [n |-> num, err |-> IF readPos + num = writePos THEN err ELSE "nil"]
      /\ UNCHANGED <<hist, writePos, writeOverflow, copyOverflowLength,
                     copyOverflowDistance, src, stale, resets, err>>
  BY DEF ReadDeliver, inflateVars
<1>2. num \in Nat /\ num <= writePos - readPos
  BY LengthFacts DEF MinOf, PositionInv, TypeOK
<1>3. /\ more \in Seq(Byte) /\ Len(more) = num
      /\ \A j \in 1..num : more[j] = hist[readPos + j - 1]
  BY <1>2, Pending
<1>4. out \in Seq(Byte)
  BY DEF PositionInv, TypeOK
<1> HIDE DEF num, more
<1>5. Len(out') = Len(out) + num
  <2>1. out' = out \o more
    BY <1>1
  <2>2. more \in Seq(Byte) /\ Len(more) = num
    BY <1>3
  <2>3. QED BY <1>4, <2>1, <2>2, Concatenated
<1>6. Written' = Written
  BY <1>1, <1>2, <1>5, LengthFacts DEF Written
<1>7. WindowReach'
  BY <1>1, <1>6 DEF TextInv, WindowReach
<1>8. StaleFirst'
  <2>1. SUFFICES ASSUME Len(out') < stale'
                 PROVE  /\ writePos' - readPos' = stale' - Len(out')
                        /\ err = "nil" /\ ret'.err = "nil"
    BY <1>1 DEF StaleFirst
  <2>2. Len(out) < stale
    BY <1>1, <1>2, <1>5, <2>1, LengthFacts
  <2>3. writePos - readPos = stale - Len(out) /\ err = "nil"
    BY <2>2 DEF TextInv, StaleFirst
  <2>4. QED BY <1>1, <1>2, <1>5, <2>3, LengthFacts
<1>9. ASSUME Trusted' PROVE WindowText' /\ PlainPrefix'
  <2>1. WindowText /\ PlainPrefix
    BY <1>1, <1>9 DEF TextInv, Trusted
  <2>2. Holds(hist, writePos, Written)'
    BY <1>1, <1>6, <2>1 DEF WindowText, Holds
  <2>3. WindowText'
    BY <1>1, <1>6, <2>1, <2>2 DEF WindowText
  <2>4. ASSUME NEW j \in (stale + 1)..Len(out')
        PROVE  out'[j] = src.plain[j - stale - 1]
    <3>1. j \in Nat /\ stale + 1 <= j /\ j <= Len(out) + num
      BY <1>5, <2>4, LengthFacts
    <3>2. CASE j <= Len(out)
      <4>1. out'[j] = out[j]
        BY <1>1, <1>3, <1>4, <3>1, <3>2, LengthFacts
      <4>2. j \in (stale + 1)..Len(out)
        BY <3>1, <3>2, LengthFacts
      <4>3. QED BY <2>1, <4>1, <4>2 DEF PlainPrefix
    <3>3. CASE j > Len(out)
      <4>1. PICK i \in Nat : i = j - Len(out)
        BY <3>1, <3>3, LengthFacts
      <4>2. i \in 1..num
        BY <1>2, <3>1, <3>3, <4>1, LengthFacts
      <4>3. out'[j] = more[i]
        BY <1>1, <1>3, <1>4, <3>1, <3>3, <4>1, <4>2, LengthFacts
      <4>4. ~(Len(out) < stale)
        <5>1. SUFFICES ASSUME Len(out) < stale PROVE FALSE
          OBVIOUS
        <5>2. writePos - readPos = stale - Len(out)
          BY <5>1 DEF TextInv, StaleFirst
        <5>3. QED BY <1>2, <3>1, <5>2, LengthFacts
      <4>5. PICK k \in Nat : k = writePos - (readPos + i - 1)
        BY <1>2, <4>2, LengthFacts
      <4>6. /\ k \in 1..MinOf(Written, writePos) /\ Written - k = j - stale - 1
            /\ readPos + i - 1 = writePos - k
        <5>1. PICK l \in Nat, t \in Nat, w \in Nat, r \in Nat :
                l = Len(out) /\ t = stale /\ w = writePos /\ r = readPos
          BY LengthFacts
        <5>2. Written = l - t + (w - r)
          BY <5>1 DEF Written
        <5>3. /\ i = j - l /\ k = w - (r + i - 1) /\ 1 <= i /\ i <= num /\ num <= w - r
              /\ ~(l < t)
          BY <1>2, <4>1, <4>2, <4>4, <4>5, <5>1
        <5>4. /\ Written - k = j - t - 1 /\ r + i - 1 = w - k
              /\ 1 <= k /\ k <= Written /\ k <= w /\ Written \in Nat
          BY <1>2, <3>1, <5>2, <5>3
        <5>5. QED BY <5>1, <5>4 DEF MinOf
      <4>7. hist[writePos - k] = src.plain[Written - k]
        BY <2>1, <4>6 DEF WindowText, Holds
      <4>8. more[i] = hist[readPos + i - 1]
        BY <1>3, <4>2
      <4>9. QED BY <4>3, <4>6, <4>7, <4>8
    <3>4. QED BY <3>1, <3>2, <3>3, LengthFacts
  <2>5. PlainPrefix'
    BY <1>1, <2>4 DEF PlainPrefix
  <2>6. QED BY <2>3, <2>5
<1>10. QED BY <1>7, <1>8, <1>9 DEF TextInv

LEMMA ReadErrorText ==
  ASSUME PositionInv, TextInv, ReadError
  PROVE  TextInv'
BY QuietStepText DEF ReadError, inflateVars

LEMMA StepPeekText ==
  ASSUME PositionInv, TextInv, StepPeek
  PROVE  TextInv'
BY QuietStepText DEF StepPeek, StepCalled, inflateVars, clientVars

LEMMA PeekFillText ==
  ASSUME PositionInv, TextInv, NEW k, NEW e, PeekFill(k, e)
  PROVE  TextInv'
BY QuietStepText DEF PeekFill, inflateVars, clientVars

LEMMA DecodeDoneText ==
  ASSUME PositionInv, TextInv, DecodeDone
  PROVE  TextInv'
BY QuietStepText DEF DecodeDone, inflateVars, clientVars

LEMMA HeaderShortText ==
  ASSUME PositionInv, TextInv, HeaderShort
  PROVE  TextInv'
BY QuietStepText DEF HeaderShort, Decoding, clientVars

LEMMA HeaderReadText ==
  ASSUME PositionInv, TextInv, NEW l \in 0..(RegBytes * ByteBits), HeaderRead(l)
  PROVE  TextInv'
BY QuietStepText DEF HeaderRead, Decoding, clientVars

LEMMA EntryShortText ==
  ASSUME PositionInv, TextInv, EntryShort
  PROVE  TextInv'
BY QuietStepText DEF EntryShort, Decoding, clientVars

LEMMA EntryBadSymbolText ==
  ASSUME PositionInv, TextInv, EntryBadSymbol
  PROVE  TextInv'
BY QuietStepText DEF EntryBadSymbol, Decoding, clientVars

\* Entering decomperss: the last HistorySize bytes stay in front of writePos.
LEMMA EnterText ==
  ASSUME PositionInv, TextInv, NEW m, EnterDecomperss(m), writePos = readPos,
         UNCHANGED <<writeOverflow, copyOverflowLength, copyOverflowDistance, src, out,
                     stale, resets>>
  PROVE  TextInv'
<1>1. ~(Len(out) < stale) /\ Written \in Nat /\ HistorySize \in Nat
  BY NotStale, SizesOK DEF TextInv, WindowReach
<1>2. StaleFirst'
  BY <1>1 DEF StaleFirst
<1>3. CASE writePos >= 2 * HistorySize
  <2>1. /\ hist' = [i \in HistIndex |-> IF i < HistorySize
                                        THEN hist[SlideFrom + i] ELSE hist[i]]
        /\ writePos' = HistorySize /\ readPos' = HistorySize
    BY <1>3 DEF EnterDecomperss
  <2>2. Written' = Written
    BY <1>1, <2>1, LengthFacts DEF Written
  <2>3. writePos \in Nat /\ writePos >= 2 * HistorySize /\ HistorySize > 0
    BY <1>3, LengthFacts, SizesOK
  <2>4. WindowReach'
    <3>1. writePos' >= MinOf(Written', HistorySize)
      BY <1>1, <2>1, <2>2 DEF MinOf
    <3>2. resets = 0 => stale = 0 /\ ~(Written < HistorySize)
      BY <1>1, <2>3 DEF TextInv, WindowReach
    <3>3. QED BY <1>1, <2>2, <3>1, <3>2 DEF WindowReach
  <2>5. ASSUME Trusted' PROVE WindowText' /\ PlainPrefix'
    <3>1. WindowText /\ PlainPrefix
      BY <2>5 DEF TextInv, Trusted
    <3>2. ASSUME NEW k \in 1..MinOf(Written, HistorySize)
          PROVE  hist'[HistorySize - k] = src.plain[Written - k]
      <4>1. /\ k \in Nat /\ 1 <= k /\ k <= Written /\ k <= HistorySize
            /\ k \in 1..MinOf(Written, writePos)
        BY <1>1, <2>3, <3>2 DEF MinOf
      <4>2. PICK i \in Nat : i = HistorySize - k
        BY <1>1, <4>1
      <4>3. i < HistorySize /\ SlideFrom + i = writePos - k
        BY <1>1, <2>3, <4>1, <4>2 DEF SlideFrom
      <4>4. i \in HistIndex
        BY <1>1, <4>2, <4>3, SizesOK DEF HistIndex, HistSize
      <4>5. hist'[i] = hist[writePos - k]
        BY <2>1, <4>3, <4>4
      <4>6. hist[writePos - k] = src.plain[Written - k]
        BY <3>1, <4>1 DEF WindowText, Holds
      <4>7. QED BY <4>2, <4>5, <4>6
    <3>3. Holds(hist, writePos, Written)'
      BY <2>1, <2>2, <3>2 DEF Holds
    <3>4. WindowText'
      BY <2>2, <3>1, <3>3 DEF WindowText
    <3>5. PlainPrefix'
      BY <3>1 DEF PlainPrefix
    <3>6. QED BY <3>4, <3>5
  <2>6. QED BY <1>2, <2>4, <2>5 DEF TextInv
<1>4. CASE ~(writePos >= 2 * HistorySize)
  <2>1. UNCHANGED windowVars
    BY <1>4 DEF EnterDecomperss
  <2>2. QED BY <1>2, <2>1, QuietText
<1>5. QED BY <1>3, <1>4

LEMMA StepInputText ==
  ASSUME PositionInv, TextInv, StepInput
  PROVE  TextInv'
BY EnterText DEF StepInput, StepCalled, inflateVars, clientVars

LEMMA PeekReturnText ==
  ASSUME PositionInv, TextInv, PeekReturn
  PROVE  TextInv'
<1>1. pc = "peek" /\ writePos = readPos
  BY DEF PeekReturn, PositionInv, Control
<1>2. UNCHANGED <<writeOverflow, copyOverflowLength, copyOverflowDistance, src, out,
                 stale, resets>>
  BY DEF PeekReturn, clientVars
<1>3. UNCHANGED windowVars \/ EnterDecomperss(got - base - Held)
  BY DEF PeekReturn
<1>4. QED BY <1>1, <1>2, <1>3, QuietStepText, EnterText

(***************************************************************************)
(* Writing.                                                                *)
(***************************************************************************)

\* Where every turn of a decoding loop writes.
LEMMA WriteContext ==
  ASSUME PositionInv, TrackInv, TextInv, pc = "decode"
  PROVE  /\ writeOverflow = <<>> /\ Len(writeOverflow) = 0 /\ copyOverflowLength = 0
         /\ Produced = Written /\ Written \in Nat /\ writePos \in Nat
         /\ writePos <= Limit /\ Limit \in Nat /\ HistSize \in Nat /\ Limit <= HistSize
         /\ HistorySize \in Nat /\ HistorySize <= Limit
         /\ ~(Len(out) < stale)
         /\ Trusted => Holds(hist, writePos, Written) /\ PlainPrefix
<1>1. writeOverflow = <<>> /\ copyOverflowLength = 0 /\ writePos <= Limit
  BY DEF PositionInv, Control
<1>2. Len(writeOverflow) = 0
  BY <1>1, SeqFacts
<1>3. Written \in Nat
  BY DEF TextInv, WindowReach
<1>4. Produced = Written
  BY <1>1, <1>2, <1>3, LengthFacts DEF Produced, Written
<1>5. /\ Limit \in Nat /\ HistSize \in Nat /\ Limit <= HistSize
      /\ HistorySize \in Nat /\ HistorySize <= Limit
  BY SizesOK DEF Limit, HistSize
<1>6. ~(Len(out) < stale)
  BY NotStale
<1>7. Trusted => Holds(hist, writePos, Written) /\ PlainPrefix
  BY DEF TextInv, WindowText
<1>8. QED BY <1>1, <1>2, <1>3, <1>4, <1>5, <1>6, <1>7, LengthFacts

\* n bytes more in the history buffer.
LEMMA WroteText ==
  ASSUME PositionInv, TextInv, ~(Len(out) < stale), NEW n \in Nat,
         writePos' = writePos + n, UNCHANGED <<readPos, src, out, stale, resets>>
  PROVE  /\ Written' = Written + n /\ (Trusted' <=> Trusted)
         /\ (Trusted /\ PlainPrefix => PlainPrefix')
         /\ (Trusted => WindowText' /\ PlainPrefix) => TextInv'
<1>1. Written' = Written + n /\ Written \in Nat
  BY LengthFacts DEF Written, TextInv, WindowReach
<1>2. Trusted' <=> Trusted
  BY DEF Trusted
<1>3. StaleFirst'
  BY DEF StaleFirst
<1>4. PlainPrefix => PlainPrefix'
  BY DEF PlainPrefix
<1>5. WindowReach'
  <2>1. /\ writePos >= MinOf(Written, HistorySize)
        /\ resets = 0 => stale = 0 /\ (Written < HistorySize => writePos = Written)
    BY DEF TextInv, WindowReach
  <2>2. PICK w \in Nat, v \in Nat, h \in Nat :
          w = writePos /\ v = Written /\ h = HistorySize
    BY <1>1, LengthFacts, SizesOK
  <2>3. w + n >= MinOf(v + n, h) /\ v + n \in Nat
        /\ ((v < h => w = v) => (v + n < h => w + n = v + n))
    BY <2>1, <2>2 DEF MinOf
  <2>4. QED BY <1>1, <2>1, <2>2, <2>3 DEF WindowReach
<1>6. QED BY <1>1, <1>2, <1>3, <1>4, <1>5 DEF TextInv

LEMMA DecodeLiteralBlockText ==
  ASSUME PositionInv, TrackInv, TextInv, DecodeLiteralBlock
  PROVE  TextInv'
<1> DEFINE n == LitCount
<1>1. /\ pc = "decode" /\ phase = "LitBlock" /\ hist' = Stored(hist, writePos, n, LitBytes)
      /\ writePos' = writePos + n
      /\ UNCHANGED <<writeOverflow, copyOverflowLength, copyOverflowDistance, readPos,
                     src, out, stale, resets>>
  BY DEF DecodeLiteralBlock, LitCount, LitRoom, LitBytes, clientVars
<1>2. n \in Nat /\ n <= litBlockLength /\ writePos + n <= Limit
  BY LiteralBlockTook
<1>3. /\ Len(writeOverflow) = 0 /\ copyOverflowLength = 0
      /\ Produced = Written /\ Written \in Nat /\ writePos \in Nat
      /\ HistSize \in Nat /\ Limit <= HistSize /\ Limit \in Nat
      /\ ~(Len(out) < stale) /\ (Trusted => Holds(hist, writePos, Written) /\ PlainPrefix)
  BY <1>1, WriteContext
<1>4. \A j \in 0..(n - 1) : LitBytes[j] = src.plain[Written + j]
  <2>1. StoredRun(src, Pos, litBlockLength, Produced, bfinal)
    BY <1>1, DecodeOnTrack
  <2>2. ASSUME NEW j \in 0..(n - 1)
        PROVE  src.elem[Pos + j * ByteBits].o = Written + j
    <3>1. j \in 0..(litBlockLength - 1)
      BY <1>2 DEF PositionInv, TypeOK
    <3>2. QED BY <1>3, <2>1, <3>1 DEF StoredRun
  <2>3. QED BY <2>2 DEF LitBytes
<1> HIDE DEF n
<1>5. /\ Written' = Written + n
      /\ (Trusted => WindowText' /\ PlainPrefix) => TextInv'
  BY <1>1, <1>2, <1>3, WroteText
<1>6. ASSUME Trusted PROVE WindowText'
  <2>1. Holds(Stored(hist, writePos, n, LitBytes), writePos + n, Written + n)
    <3>1. writePos + n <= HistSize
      BY <1>2, <1>3
    <3>2. QED BY <1>2, <1>3, <1>4, <1>6, <3>1, HoldsStored
  <2>2. Holds(hist, writePos, Written)'
    BY <1>1, <1>5, <2>1 DEF Holds
  <2>3. 1..Len(writeOverflow) = {} /\ ~(copyOverflowLength > 0)
    BY <1>3
  <2>4. QED BY <1>1, <2>2, <2>3 DEF WindowText
<1>7. QED BY <1>3, <1>5, <1>6

\* The element an entry's action decodes, and where its text goes.
LEMMA EntryTextContext ==
  ASSUME PositionInv, TrackInv, TextInv, Decoding({"HeaderDecoded"}, "entry"),
         NEW e, e = src.elem[Pos]
  PROVE  /\ e.o = Written /\ EntryElement(e) /\ e.o \in Nat
         /\ Trusted => /\ Holds(WithLiterals(e), writePos + Fit(e), Written + Fit(e))
                       /\ PlainPrefix
<1>1. pc = "decode" /\ phase = "HeaderDecoded" /\ EntryElement(e)
  BY EntryContext
<1>2. EntryAt(src, Pos, Produced, bfinal)
  BY <1>1, DecodeOnTrack
<1>3. /\ Produced = Written /\ Written \in Nat /\ writePos \in Nat
      /\ Limit <= HistSize /\ Limit \in Nat /\ HistSize \in Nat
      /\ Trusted => Holds(hist, writePos, Written) /\ PlainPrefix
  BY <1>1, WriteContext
<1>4. e.o = Written
  BY <1>2, <1>3 DEF EntryAt
<1>5. Fit(e) \in Nat /\ writePos + Fit(e) <= Limit
  BY LiteralFacts
<1>6. ASSUME Trusted
      PROVE  Holds(WithLiterals(e), writePos + Fit(e), Written + Fit(e))
  <2> DEFINE n == Fit(e)
             val == [j \in 0..(n - 1) |-> src.plain[e.o + j]]
  <2>1. \A j \in 0..(n - 1) : val[j] = src.plain[Written + j]
    BY <1>4
  <2>2. WithLiterals(e) = Stored(hist, writePos, n, val)
    BY DEF WithLiterals
  <2>3. n \in Nat /\ writePos + n <= HistSize
    BY <1>3, <1>5
  <2> HIDE DEF n, val
  <2>4. Holds(Stored(hist, writePos, n, val), writePos + n, Written + n)
    BY <1>3, <1>6, <2>1, <2>3, HoldsStored
  <2>5. QED BY <2>2, <2>4 DEF n
<1>7. QED BY <1>1, <1>3, <1>4, <1>6

\* The literals that do not fit, and where they belong.
LEMMA SpillText ==
  ASSUME PositionInv, Decoding({"HeaderDecoded"}, "entry"), NEW e, e = src.elem[Pos],
         NEW o \in Nat, e.o = o
  PROVE  \A j \in 1..Len(Spill(e)) : Spill(e)[j] = src.plain[o + Fit(e) + j - 1]
<1>1. /\ Len(Spill(e)) = e.lits - Fit(e)
  BY LiteralFacts
<1>2. QED BY <1>1 DEF Spill

LEMMA EntryLiteralsText ==
  ASSUME PositionInv, TrackInv, TextInv, EntryLiterals
  PROVE  TextInv'
<1> DEFINE e == src.elem[Pos]
<1>1. /\ Decoding({"HeaderDecoded"}, "entry") /\ pc = "decode"
      /\ hist' = WithLiterals(e) /\ writePos' = writePos + Fit(e)
      /\ writeOverflow' = Spill(e)
      /\ UNCHANGED <<copyOverflowLength, copyOverflowDistance, readPos, src, out, stale,
                     resets>>
  BY DEF EntryLiterals, Decoding, clientVars
<1>2. /\ e.o = Written /\ e.o \in Nat
      /\ Trusted => Holds(WithLiterals(e), writePos + Fit(e), Written + Fit(e))
                    /\ PlainPrefix
  BY <1>1, EntryTextContext
<1>3. Fit(e) \in Nat
  BY <1>1, LiteralFacts
<1>4. \A j \in 1..Len(Spill(e)) : Spill(e)[j] = src.plain[Written + Fit(e) + j - 1]
  BY <1>1, <1>2, SpillText
<1>5. ~(Len(out) < stale) /\ copyOverflowLength = 0
  BY <1>1, WriteContext
<1> HIDE DEF e
<1>6. /\ Written' = Written + Fit(e)
      /\ (Trusted => WindowText' /\ PlainPrefix) => TextInv'
  BY <1>1, <1>3, <1>5, WroteText
<1>7. ASSUME Trusted PROVE WindowText'
  <2>1. Holds(hist, writePos, Written)'
    BY <1>1, <1>2, <1>6, <1>7 DEF Holds
  <2>2. (\A j \in 1..Len(writeOverflow) :
            writeOverflow[j] = src.plain[Written + j - 1])'
    BY <1>1, <1>4, <1>6
  <2>3. ~(copyOverflowLength' > 0)
    BY <1>1, <1>5
  <2>4. QED BY <2>1, <2>2, <2>3 DEF WindowText
<1>8. QED BY <1>2, <1>6, <1>7

\* A match the decoder takes repeats text of its own stream, when a distance that
\* is too far back can be told.
LEMMA MatchRepeats ==
  ASSUME PositionInv, TrackInv, TextInv, Trusted, Decoding({"HeaderDecoded"}, "entry"),
         NEW e, e = src.elem[Pos], e.tail = "match", ~(writePos + Fit(e) < e.dist)
  PROVE  /\ e.dist <= Written + e.lits
         /\ \A x \in (Written + e.lits)..(Written + e.lits + e.len - 1) :
              src.plain[x] = src.plain[x - e.dist]
<1>1. /\ e.o = Written /\ e.o \in Nat /\ e.lits \in Nat /\ e.dist \in Nat
      /\ e.dist <= HistorySize /\ HistorySize \in Nat /\ e.kind = "entry"
      /\ Pos \in DOMAIN src.elem /\ src \in Source
  <2>1. e.o = Written /\ EntryElement(e) /\ e.o \in Nat
    BY EntryTextContext
  <2>2. e.lits \in Nat /\ e.dist \in Nat /\ e.dist <= HistorySize /\ HistorySize \in Nat
    BY <2>1, SizesOK DEF EntryElement, ElementOK
  <2>3. QED BY <2>1, <2>2 DEF Decoding, PositionInv, TypeOK
<1>2. Fit(e) \in Nat /\ Fit(e) <= e.lits /\ writePos \in Nat
  BY LiteralFacts, LengthFacts
<1>3. e.dist <= e.o + e.lits
  <2>1. CASE resets = 0
    <3>1. Written < HistorySize => writePos = Written
      BY <2>1 DEF TextInv, WindowReach
    <3>2. PICK o \in Nat, n \in Nat, f \in Nat, w \in Nat, d \in Nat, h \in Nat :
            /\ o = e.o /\ n = e.lits /\ f = Fit(e) /\ w = writePos /\ d = e.dist
            /\ h = HistorySize
      BY <1>1, <1>2
    <3>3. (o < h => w = o) /\ f <= n /\ ~(w + f < d) /\ d <= h
      BY <1>1, <1>2, <3>1, <3>2
    <3>4. d <= o + n
      BY <3>3
    <3>5. QED BY <3>2, <3>4
  <2>2. CASE resets # 0
    <3>1. ~TooFarBack(e)
      BY <1>1, <2>2 DEF Trusted
    <3>2. QED BY <1>1, <3>1 DEF TooFarBack
  <2>3. QED BY <2>1, <2>2
<1>4. ~TooFarBack(e)
  BY <1>1, <1>3 DEF TooFarBack
<1>5. Repeats(src)
  BY <1>1, StreamsOK
<1>6. \A x \in (e.o + e.lits)..(e.o + e.lits + e.len - 1) :
        src.plain[x] = src.plain[x - e.dist]
  BY <1>1, <1>4, <1>5 DEF Repeats
<1>7. QED BY <1>1, <1>3, <1>6

LEMMA EntryMatchText ==
  ASSUME PositionInv, TrackInv, TextInv, EntryMatch
  PROVE  TextInv'
<1> DEFINE e == src.elem[Pos]
           w == writePos + Fit(e)
           now == MinOf(e.len, Limit - w)
           bad == e.tail = "baddist" \/ w < e.dist
<1>1. /\ Decoding({"HeaderDecoded"}, "entry") /\ pc = "decode" /\ HasDist(e)
      /\ writeOverflow' = Spill(e)
      /\ UNCHANGED <<readPos, src, out, stale, resets>>
      /\ bad => /\ hist' = WithLiterals(e) /\ writePos' = w
                /\ UNCHANGED <<copyOverflowLength, copyOverflowDistance>>
      /\ ~bad => /\ hist' = ByteCopy(WithLiterals(e), w, e.dist, now)
                 /\ writePos' = w + now /\ copyOverflowLength' = e.len - now
                 /\ copyOverflowDistance' = (IF now < e.len THEN e.dist ELSE 0)
  BY DEF EntryMatch, Decoding, clientVars
<1>2. /\ e.o = Written /\ e.o \in Nat /\ EntryElement(e)
      /\ Trusted => Holds(WithLiterals(e), w, Written + Fit(e)) /\ PlainPrefix
  BY <1>1, EntryTextContext
<1>3. /\ Fit(e) \in Nat /\ e.lits \in Nat /\ Fit(e) <= e.lits /\ w \in Nat /\ w <= Limit
      /\ Len(Spill(e)) = e.lits - Fit(e) /\ (Fit(e) < e.lits => w = Limit)
  BY <1>1, LiteralFacts
<1>4. \A j \in 1..Len(Spill(e)) : Spill(e)[j] = src.plain[Written + Fit(e) + j - 1]
  BY <1>1, <1>2, SpillText
<1>5. /\ ~(Len(out) < stale) /\ copyOverflowLength = 0
      /\ Limit \in Nat /\ HistSize \in Nat /\ Limit <= HistSize
  BY <1>1, WriteContext
<1>6. ASSUME ~bad, Trusted
      PROVE  /\ e.dist <= Written + e.lits
             /\ \A x \in (Written + e.lits)..(Written + e.lits + e.len - 1) :
                  src.plain[x] = src.plain[x - e.dist]
  <2>1. e.tail = "match" /\ ~(w < e.dist)
    BY <1>1, <1>6 DEF HasDist
  <2>2. QED BY <1>1, <1>6, <2>1, MatchRepeats
<1> HIDE DEF e
<1>7. ~bad => e.len \in Nat /\ e.dist \in Nat \ {0} /\ e.dist <= w
  <2>1. SUFFICES ASSUME ~bad PROVE e.len \in Nat /\ e.dist \in Nat \ {0} /\ e.dist <= w
    OBVIOUS
  <2>2. e.tail = "match" /\ ~(w < e.dist)
    BY <1>1, <2>1 DEF HasDist
  <2>3. e.len \in 1..MaxMatch /\ e.dist \in 1..HistorySize
    BY <1>2, <2>2 DEF EntryElement, ElementOK
  <2>4. e.len \in Nat /\ e.dist \in Nat \ {0}
    BY <2>3, SizesOK
  <2> HIDE DEF w
  <2>5. e.dist <= w
    BY <1>3, <2>2, <2>4
  <2>6. QED BY <2>4, <2>5
<1>8. CASE bad
  <2>1. /\ Written' = Written + Fit(e)
        /\ (Trusted => WindowText' /\ PlainPrefix) => TextInv'
    BY <1>1, <1>3, <1>5, <1>8, WroteText
  <2>2. ASSUME Trusted PROVE WindowText'
    <3>1. Holds(hist, writePos, Written)'
      BY <1>1, <1>2, <1>8, <2>1, <2>2 DEF Holds
    <3>2. (\A j \in 1..Len(writeOverflow) :
              writeOverflow[j] = src.plain[Written + j - 1])'
      BY <1>1, <1>4, <2>1
    <3>3. ~(copyOverflowLength' > 0)
      BY <1>1, <1>5, <1>8
    <3>4. QED BY <3>1, <3>2, <3>3 DEF WindowText
  <2>3. QED BY <1>2, <2>1, <2>2
<1>9. CASE ~bad
  <2>1. /\ now \in Nat /\ now <= e.len /\ w + now <= Limit
        /\ (now > 0 => Fit(e) = e.lits)
    <3>1. PICK l \in Nat, m \in Nat, v \in Nat, f \in Nat, n \in Nat :
            l = Limit /\ m = e.len /\ v = w /\ f = Fit(e) /\ n = e.lits
      BY <1>3, <1>5, <1>7, <1>9
    <3>2. v <= l /\ f <= n /\ (f < n => v = l) /\ now = MinOf(m, l - v)
      BY <1>3, <3>1
    <3> HIDE DEF now
    <3>3. now \in Nat /\ now <= m /\ v + now <= l /\ (now > 0 => f = n)
      BY <3>2 DEF MinOf
    <3>4. QED BY <3>1, <3>3
  <2>2. /\ hist' = ByteCopy(WithLiterals(e), w, e.dist, now)
        /\ writePos' = w + now /\ copyOverflowLength' = e.len - now
        /\ copyOverflowDistance' = (IF now < e.len THEN e.dist ELSE 0)
        /\ e.len \in Nat /\ e.dist \in Nat \ {0} /\ e.dist <= w
    BY <1>1, <1>7, <1>9
  <2>3. ASSUME Trusted
        PROVE  /\ e.dist <= Written + e.lits
               /\ \A x \in (Written + e.lits)..(Written + e.lits + e.len - 1) :
                    src.plain[x] = src.plain[x - e.dist]
    BY <1>6, <1>9, <2>3
  <2> HIDE DEF now, bad
  <2>4. PICK f \in Nat, n \in Nat, p \in Nat, k \in Nat, m \in Nat, d \in Nat \ {0},
             o \in Nat :
          /\ f = Fit(e) /\ n = e.lits /\ p = writePos /\ k = now /\ m = e.len
          /\ d = e.dist /\ o = Written
    BY <1>2, <1>3, <2>1, <2>2, LengthFacts
  <2>5. /\ f <= n /\ k <= m /\ (k > 0 => f = n) /\ d <= p + f /\ w = p + f
        /\ p + f + k <= HistSize
    BY <1>3, <1>5, <2>1, <2>2, <2>4
  <2>6. f + k \in Nat /\ writePos' = writePos + (f + k)
    <3>1. p + f + k = p + (f + k) /\ f + k \in Nat
      OBVIOUS
    <3>2. QED BY <2>2, <2>4, <2>5, <3>1
  <2>7. /\ Written' = Written + (f + k)
        /\ (Trusted => WindowText' /\ PlainPrefix) => TextInv'
    BY <1>1, <1>5, <2>6, WroteText
  <2>8. ASSUME Trusted PROVE WindowText'
    <3> DEFINE h == WithLiterals(e)
    <3>1. Holds(h, w, o + f)
      BY <1>2, <2>4, <2>8
    <3>2. d <= o + n /\ \A x \in (o + n)..(o + n + m - 1) :
                          src.plain[x] = src.plain[x - d]
      BY <2>3, <2>4, <2>8
    <3>3. k > 0 => /\ d > 0 /\ d <= p + f /\ d <= o + f
                   /\ \A x \in (o + f)..(o + f + k - 1) : src.plain[x] = src.plain[x - d]
      BY <2>5, <3>2
    <3> HIDE DEF h
    <3>4. Holds(ByteCopy(h, p + f, d, k), p + f + k, o + f + k)
      <4>1. p + f \in Nat /\ o + f \in Nat
        OBVIOUS
      <4>2. Holds(h, p + f, o + f)
        BY <2>5, <3>1
      <4>3. QED BY <2>5, <3>3, <4>1, <4>2, HoldsCopied
    <3>5. Holds(hist, writePos, Written)'
      <4>1. hist' = ByteCopy(h, p + f, d, k) /\ writePos' = p + f + k
        BY <2>2, <2>4, <2>5 DEF h
      <4>2. Written' = o + f + k
        <5>1. o + (f + k) = o + f + k
          OBVIOUS
        <5>2. QED BY <2>4, <2>7, <5>1
      <4>3. QED BY <1>1, <3>4, <4>1, <4>2 DEF Holds
    <3>6. \A j \in 1..Len(writeOverflow') :
             writeOverflow'[j] = src'.plain[Written' + j - 1]
      <4>1. ASSUME NEW j \in 1..Len(writeOverflow')
            PROVE  writeOverflow'[j] = src'.plain[Written' + j - 1]
        <5>1. writeOverflow'[j] = src.plain[o + f + j - 1]
          BY <1>1, <1>4, <2>4, <4>1
        <5>2. Len(writeOverflow') = n - f
          BY <1>1, <1>3, <2>4
        <5>3. k = 0
          BY <2>5, <5>2, <4>1
        <5>4. Written' = o + f
          <6>1. o + (f + 0) = o + f
            OBVIOUS
          <6>2. QED BY <2>4, <2>7, <5>3, <6>1
        <5>5. QED BY <1>1, <5>1, <5>4
      <4>2. QED BY <4>1
    <3>7. LET v == Written' + Len(writeOverflow') IN
            copyOverflowLength' > 0 =>
              /\ copyOverflowDistance' <= v
              /\ \A x \in v..(v + copyOverflowLength' - 1) :
                   src'.plain[x] = src'.plain[x - copyOverflowDistance']
      <4>1. SUFFICES ASSUME copyOverflowLength' > 0
                     PROVE  LET v == Written' + Len(writeOverflow') IN
                              /\ copyOverflowDistance' <= v
                              /\ \A x \in v..(v + copyOverflowLength' - 1) :
                                   src'.plain[x] = src'.plain[x - copyOverflowDistance']
        OBVIOUS
      <4>2. copyOverflowLength' = m - k /\ copyOverflowDistance' = d
        BY <2>2, <2>4, <4>1
      <4>3. Written' + Len(writeOverflow') = o + n + k
        <5>1. Len(writeOverflow') = n - f
          BY <1>1, <1>3, <2>4
        <5>2. o + (f + k) + (n - f) = o + n + k
          OBVIOUS
        <5>3. QED BY <2>4, <2>7, <5>1, <5>2
      <4>4. /\ d <= o + n + k
            /\ \A x \in (o + n + k)..(o + n + k + (m - k) - 1) :
                 src.plain[x] = src.plain[x - d]
        BY <2>5, <3>2
      <4>5. QED BY <1>1, <4>2, <4>3, <4>4
    <3>8. QED BY <3>5, <3>6, <3>7 DEF WindowText
  <2>9. QED BY <1>2, <2>7, <2>8
<1>10. QED BY <1>8, <1>9

\* The tail of decomperss writes out the two overflows, literals first.
LEMMA StepTailText ==
  ASSUME PositionInv, TrackInv, TextInv, StepTail
  PROVE  TextInv'
<1> DEFINE v == Len(writeOverflow)
           c == copyOverflowLength
           d == copyOverflowDistance
           lits == [j \in 0..(v - 1) |-> writeOverflow[j + 1]]
           h == Stored(hist, writePos, v, lits)
<1>1. /\ pc = "tail"
      /\ hist' = ByteCopy(h, writePos + v, d, c) /\ writePos' = writePos + v + c
      /\ writeOverflow' = <<>> /\ copyOverflowLength' = 0
      /\ UNCHANGED <<readPos, src, out, stale, resets>>
  BY DEF StepTail, clientVars
<1>2. /\ v \in Nat /\ c \in Nat /\ writePos \in Nat /\ d \in Nat /\ d <= HistorySize
      /\ HistorySize \in Nat /\ HistSize \in Nat /\ HistorySize <= Limit
      /\ Limit + LookAhead = HistSize /\ LookAhead \in Nat /\ Limit \in Nat
  BY LengthFacts, SizesOK DEF PositionInv, TypeOK, HistSize, Limit
<1>3. /\ writePos <= Limit /\ v + c <= LookAhead /\ (c > 0 => d > 0 /\ writePos = Limit)
  BY <1>1 DEF PositionInv, Control
<1>4. ~(Len(out) < stale) /\ Written \in Nat
  BY <1>1, NotStale DEF TextInv, WindowReach
<1>5. ASSUME Trusted
      PROVE  /\ Holds(hist, writePos, Written)
             /\ \A j \in 0..(v - 1) : lits[j] = src.plain[Written + j]
             /\ c > 0 => /\ d <= Written + v
                         /\ \A x \in (Written + v)..(Written + v + c - 1) :
                              src.plain[x] = src.plain[x - d]
  <2>1. WindowText
    BY <1>5 DEF TextInv
  <2>2. Holds(hist, writePos, Written)
    BY <2>1 DEF WindowText
  <2>3. ASSUME NEW j \in 0..(v - 1) PROVE lits[j] = src.plain[Written + j]
    <3>1. j + 1 \in 1..v /\ Written + (j + 1) - 1 = Written + j
      BY <1>2, <1>4, <2>3
    <3>2. writeOverflow[j + 1] = src.plain[Written + (j + 1) - 1]
      BY <2>1, <3>1 DEF WindowText
    <3>3. QED BY <3>1, <3>2
  <2>4. c > 0 => /\ d <= Written + v
                 /\ \A x \in (Written + v)..(Written + v + c - 1) :
                      src.plain[x] = src.plain[x - d]
    BY <2>1 DEF WindowText
  <2>5. QED BY <2>2, <2>3, <2>4
<1>6. PlainPrefix \/ ~Trusted
  BY DEF TextInv
<1> HIDE DEF v, c, d, lits
<1>7. v + c \in Nat /\ writePos' = writePos + (v + c)
  BY <1>1, <1>2
<1>8. /\ Written' = Written + (v + c)
      /\ (Trusted => WindowText' /\ PlainPrefix) => TextInv'
  BY <1>1, <1>4, <1>7, WroteText
<1>9. ASSUME Trusted PROVE WindowText'
  <2>1. PICK w \in Nat, o \in Nat : w = writePos /\ o = Written
    BY <1>2, <1>4
  <2>2. w + v + c <= HistSize /\ w + v <= HistSize /\ w + v \in Nat /\ o + v \in Nat
    BY <1>2, <1>3, <2>1
  <2>3. Holds(h, w + v, o + v)
    BY <1>2, <1>5, <1>9, <2>1, <2>2, HoldsStored
  <2>4. c > 0 => /\ d > 0 /\ d <= w + v /\ d <= o + v
                 /\ \A x \in (o + v)..(o + v + c - 1) : src.plain[x] = src.plain[x - d]
    BY <1>2, <1>3, <1>5, <1>9, <2>1
  <2> HIDE DEF h
  <2>5. Holds(ByteCopy(h, w + v, d, c), w + v + c, o + v + c)
    BY <1>2, <2>2, <2>3, <2>4, HoldsCopied
  <2>6. Holds(hist, writePos, Written)'
    <3>1. Written' = o + v + c
      BY <1>2, <1>8, <2>1
    <3>2. QED BY <1>1, <2>1, <2>5, <3>1 DEF Holds
  <2>7. 1..Len(writeOverflow') = {} /\ ~(copyOverflowLength' > 0)
    <3>1. Len(writeOverflow') = 0
      BY <1>1, SeqFacts
    <3>2. QED BY <1>1, <3>1
  <2>8. QED BY <2>6, <2>7 DEF WindowText
<1>10. QED BY <1>6, <1>8, <1>9

LEMMA NextText ==
  ASSUME PositionInv, TrackInv, TextInv, [Next]_vars
  PROVE  TextInv'
<1>1. CASE UNCHANGED vars
  <2>1. UNCHANGED <<windowVars, writeOverflow, copyOverflowLength, copyOverflowDistance,
                   src, out, stale, resets, pc, err, ret>>
    BY <1>1 DEF vars, clientVars, inflateVars
  <2>2. StaleFirst'
    BY <2>1 DEF TextInv, StaleFirst, windowVars
  <2>3. QED BY <2>1, <2>2, QuietText
<1>2. CASE Client
  BY <1>2, CallReadText, ResetText DEF Client
<1>3. CASE Underlying
  BY <1>3, PeekFillText DEF Underlying
<1>4. CASE ReadLoop
  BY <1>4, ReadDeliverText, ReadErrorText, StepInputText, StepPeekText,
     PeekReturnText, StepTailText
     DEF ReadLoop
<1>5. CASE Decode
  BY <1>5, DecodeDoneText, HeaderShortText, HeaderReadText, DecodeLiteralBlockText,
     EntryShortText, EntryBadSymbolText, EntryLiteralsText, EntryMatchText
     DEF Decode
<1>6. QED BY <1>1, <1>2, <1>3, <1>4, <1>5 DEF Next

\* Positions, track and text are right in every behaviour.
THEOREM TextCorrect == Spec => [](IInv /\ TextInv)
<1>1. Init => IInv /\ TextInv
  BY InitInv, InitTrack, InitText DEF IInv
<1>2. IInv /\ TextInv /\ [Next]_vars => IInv' /\ TextInv'
  BY NextPosition, NextTrack, NextText DEF IInv
<1>3. QED BY <1>1, <1>2, PTL DEF Spec

\* The last HistorySize bytes of the text, the ones a match may refer to, are in
\* front of writePos: through the slide to the front, the overflows, reads that
\* leave bytes pending and Resets that keep the buffer (reader.go:136-205).
\* Behind a Reset this holds for streams whose matches stay in their own text;
\* one that reaches back too far finds bytes of the stream before.
THEOREM WindowAlwaysIntact == Spec => [](Trusted => WindowIntact)
<1>1. IInv /\ TextInv => (Trusted => WindowIntact)
  <2>1. SUFFICES ASSUME PositionInv, TextInv, Trusted PROVE WindowIntact
    BY DEF IInv
  <2>2. Written \in Nat /\ writePos \in Nat /\ HistorySize \in Nat
    BY <2>1, LengthFacts, SizesOK DEF TextInv, WindowReach
  <2>3. Written = Len(out) - stale + writePos - readPos
    BY <2>1, LengthFacts DEF Written
  <2>4. writePos >= MinOf(Written, HistorySize)
    BY <2>1 DEF TextInv, WindowReach
  <2>5. Written < HistorySize => writePos >= Written
    BY <2>2, <2>4 DEF MinOf
  <2>6. ASSUME NEW k \in 1..MinOf(Written, HistorySize)
        PROVE  hist[writePos - k] = src.plain[Written - k]
    <3>1. k \in 1..MinOf(Written, writePos)
      BY <2>2, <2>4, <2>6 DEF MinOf
    <3>2. QED BY <2>1, <3>1 DEF TextInv, WindowText, Holds
  <2>7. QED BY <2>3, <2>5, <2>6 DEF WindowIntact
<1>2. QED BY <1>1, TextCorrect, PTL

\* What Read has handed out of the stream is a prefix of its text, byte for byte,
\* whatever the sizes of the reads and of the pieces of input (reader.go:107-130).
THEOREM OutputIsPlain == Spec => [](Trusted => PlainPrefix)
<1>1. IInv /\ TextInv => (Trusted => PlainPrefix)
  BY DEF TextInv
<1>2. QED BY <1>1, TextCorrect, PTL

-----------------------------------------------------------------------------
(***************************************************************************)
(* The reference.  Outcome is a recursive function on the positions of the *)
(* stream; these lemmas say what it is at each of them.                    *)
(***************************************************************************)
Outcomes == [n : Nat, err : {"EOF", "UnexpectedEOF", "Corrupt"}]
Stops(S) == DOMAIN S.elem \cup {S.end}

\* Where the text stands at a position.
Offset(S, p) == IF p = S.end THEN S.total ELSE S.elem[p].o

\* A reader goes on behind the element at p.
Passes(S, p) ==
  /\ p + Width(S.elem[p]) <= S.bytes * 8
  /\ ~Malformed(S.elem[p]) /\ ~TooFarBack(S.elem[p])

\* The outcome from p on, when h has those from later positions.
OutcomeEntry(S, h, p) ==
  IF p = S.end THEN [n |-> S.total, err |-> "EOF"]
  ELSE IF p + Width(S.elem[p]) > S.bytes * 8
         THEN [n |-> S.elem[p].o, err |-> "UnexpectedEOF"]
  ELSE IF Malformed(S.elem[p]) \/ TooFarBack(S.elem[p])
         THEN [n |-> S.elem[p].o + S.elem[p].lits, err |-> "Corrupt"]
  ELSE h[p + Width(S.elem[p])]

Filled(S, h) == [p \in Stops(S) |-> OutcomeEntry(S, h, p)]

\* What the assumptions say of an element.
LEMMA ElementFacts ==
  ASSUME NEW S \in Source, NEW p \in DOMAIN S.elem, NEW e, e = S.elem[p]
  PROVE  /\ p \in Nat /\ S.bytes \in Nat /\ S.end \in Nat /\ S.total \in Nat /\ p # S.end
         /\ e.o \in Nat /\ Width(e) \in Nat \ {0}
         /\ e.kind \in {"hdr", "byte", "entry"}
         /\ e.kind = "hdr" => e.form \in {"stored", "huff", "bad"} /\ e.lits = 0
                              /\ Width(e) = e.w
         /\ e.kind = "byte" => Width(e) = 8
         /\ e.kind = "entry" =>
              /\ e.tail \in {"none", "eob", "match", "badsym", "baddist"}
              /\ e.lits \in Nat /\ (e.tail = "badsym" => e.lits = 0)
              /\ (e.tail = "match" => e.len \in Nat)
<1>1. /\ p \in Nat /\ S.bytes \in Nat /\ S.end \in Nat /\ S.total \in Nat /\ p # S.end
      /\ ElementOK(e, MaxHdrSize, MaxSyms, HistorySize, MaxMatch,
                   (RegBytes - 1) * ByteBits + 1)
  BY StreamsOK DEF WellFormed
<1>2. /\ e.o \in Nat /\ e.w \in Nat /\ e.dw \in Nat /\ e.xw \in Nat
      /\ e.dw + e.xw > 0 => e.kind = "entry"
  BY <1>1 DEF ElementOK
<1>3. Width(e) \in Nat /\ (e.kind # "entry" => Width(e) = e.w)
  BY <1>2 DEF Width
<1>4. CASE e.kind = "hdr"
  BY <1>1, <1>2, <1>3, <1>4, SizesOK DEF ElementOK, ByteBits
<1>5. CASE e.kind = "byte"
  BY <1>1, <1>2, <1>3, <1>5 DEF ElementOK, ByteBits
<1>6. CASE e.kind = "entry"
  BY <1>1, <1>2, <1>3, <1>6, SizesOK DEF ElementOK, ByteBits
<1>7. e.kind \in {"hdr", "byte", "entry"}
  BY <1>1 DEF ElementOK
<1>8. QED BY <1>4, <1>5, <1>6, <1>7

\* Behind an element that a reader passes the stream goes on, and so does the text.
LEMMA PassesOn ==
  ASSUME NEW S \in Source, NEW p \in DOMAIN S.elem, Passes(S, p)
  PROVE  /\ p + Width(S.elem[p]) \in Stops(S)
         /\ Offset(S, p + Width(S.elem[p])) >= Offset(S, p)
<1> DEFINE e == S.elem[p]
           q == p + Width(S.elem[p])
<1>1. /\ p # S.end /\ e.o \in Nat
      /\ e.kind \in {"hdr", "byte", "entry"}
      /\ e.kind = "hdr" => e.form \in {"stored", "huff", "bad"} /\ Width(e) = e.w
      /\ e.kind = "byte" => Width(e) = 8
      /\ e.kind = "entry" =>
           /\ e.tail \in {"none", "eob", "match", "badsym", "baddist"}
           /\ e.lits \in Nat /\ (e.tail = "match" => e.len \in Nat)
  BY ElementFacts
<1>2. S.end \notin DOMAIN S.elem /\ ~Malformed(e)
  BY StreamsOK DEF WellFormed, Passes
<1>3. /\ e.kind = "hdr" /\ e.form = "stored" =>
              e.len \in Nat /\ StoredRun(S, p + e.w, e.len, e.o, e.final)
      /\ e.kind = "hdr" /\ e.form = "huff" => EntryAt(S, p + e.w, e.o, e.final)
      /\ e.kind = "entry" /\ e.tail \in {"none", "match"} =>
              EntryAt(S, p + Width(e), e.o + Produces(e), e.final)
      /\ e.kind = "entry" /\ e.tail = "eob" =>
              AfterBlock(S, p + Width(e), e.o + e.lits, e.final)
      /\ e.kind = "byte" => GoesOnAt(S, p + Width(e), e.o + 1)
  BY StreamsOK DEF WellFormed
<1> DEFINE Good(o) == q \in Stops(S) /\ Offset(S, q) = o
<1>4. \A o : EntryAt(S, q, o, e.final) => Good(o)
  BY <1>2 DEF EntryAt, Stops, Offset
<1>5. \A o : AfterBlock(S, q, o, e.final) => Good(o)
  BY <1>2 DEF AfterBlock, Stops, Offset
<1>6. \A o : GoesOnAt(S, q, o) => Good(o)
  BY <1>2 DEF GoesOnAt, Stops, Offset
<1>7. Offset(S, p) = e.o
  BY <1>1 DEF Offset
<1>8. SUFFICES \E o \in Nat : Good(o) /\ o >= e.o
  BY <1>7
<1> HIDE DEF Good
<1>9. CASE e.kind = "hdr" /\ e.form = "huff"
  BY <1>1, <1>3, <1>4, <1>9
<1>10. CASE e.kind = "hdr" /\ e.form = "stored"
  <2>1. e.len \in Nat /\ StoredRun(S, q, e.len, e.o, e.final)
    BY <1>1, <1>3, <1>10
  <2>2. CASE e.len = 0
    <3>1. AfterBlock(S, q + 0 * 8, e.o + 0, e.final)
      BY <2>1, <2>2 DEF StoredRun, ByteBits
    <3>2. q + 0 * 8 = q /\ e.o + 0 = e.o
      BY <1>1, ElementFacts
    <3>3. Good(e.o)
      BY <1>5, <3>1, <3>2
    <3>4. QED BY <1>1, <3>3
  <2>3. CASE e.len # 0
    <3>1. 0 \in 0..(e.len - 1)
      BY <2>1, <2>3
    <3>2. q + 0 * 8 \in DOMAIN S.elem /\ S.elem[q + 0 * 8].o = e.o + 0
      BY <2>1, <3>1 DEF StoredRun, ByteBits
    <3>3. q + 0 * 8 = q /\ e.o + 0 = e.o
      BY <1>1, ElementFacts
    <3>4. Good(e.o)
      BY <1>2, <3>2, <3>3 DEF Good, Stops, Offset
    <3>5. QED BY <1>1, <3>4
  <2>4. QED BY <2>2, <2>3
<1>11. CASE e.kind = "byte"
  <2>1. e.o + 1 \in Nat /\ e.o + 1 >= e.o
    BY <1>1
  <2>2. QED BY <1>3, <1>6, <1>11, <2>1
<1>12. CASE e.kind = "entry" /\ e.tail \in {"none", "match"}
  <2>1. Produces(e) \in Nat
    BY <1>1, <1>12 DEF Produces
  <2>2. e.o + Produces(e) \in Nat /\ e.o + Produces(e) >= e.o
    BY <1>1, <2>1
  <2>3. QED BY <1>3, <1>4, <1>12, <2>2
<1>13. CASE e.kind = "entry" /\ e.tail = "eob"
  <2>1. e.o + e.lits \in Nat /\ e.o + e.lits >= e.o
    BY <1>1, <1>13
  <2>2. QED BY <1>3, <1>5, <1>13, <2>1
<1>14. QED BY <1>1, <1>2, <1>9, <1>10, <1>11, <1>12, <1>13 DEF Malformed

LEMMA FilledType ==
  ASSUME NEW S \in Source, NEW h \in [Stops(S) -> Outcomes]
  PROVE  Filled(S, h) \in [Stops(S) -> Outcomes]
<1>1. SUFFICES ASSUME NEW p \in Stops(S) PROVE OutcomeEntry(S, h, p) \in Outcomes
  BY DEF Filled
<1>2. CASE p = S.end
  <2>1. S.total \in Nat
    BY StreamsOK
  <2>2. QED BY <1>2, <2>1 DEF OutcomeEntry, Outcomes
<1>3. CASE p # S.end
  <2>1. p \in DOMAIN S.elem
    BY <1>1, <1>3 DEF Stops
  <2>2. S.elem[p].o \in Nat
    BY <2>1, ElementFacts
  <2>3. CASE p + Width(S.elem[p]) > S.bytes * 8
    BY <1>3, <2>2, <2>3 DEF OutcomeEntry, Outcomes
  <2>4. CASE /\ ~(p + Width(S.elem[p]) > S.bytes * 8)
             /\ Malformed(S.elem[p]) \/ TooFarBack(S.elem[p])
    <3>1. S.elem[p].lits \in Nat
      BY <2>1, <2>4, ElementFacts DEF Malformed, TooFarBack
    <3>2. S.elem[p].o + S.elem[p].lits \in Nat
      BY <2>2, <3>1
    <3>3. QED BY <1>3, <2>4, <3>2 DEF OutcomeEntry, Outcomes
  <2>5. CASE /\ ~(p + Width(S.elem[p]) > S.bytes * 8)
             /\ ~(Malformed(S.elem[p]) \/ TooFarBack(S.elem[p]))
    <3>1. Passes(S, p)
      BY <2>1, <2>5, ElementFacts DEF Passes
    <3>2. p + Width(S.elem[p]) \in Stops(S)
      BY <2>1, <3>1, PassesOn
    <3>3. QED BY <1>3, <2>5, <3>2 DEF OutcomeEntry
  <2>6. QED BY <2>3, <2>4, <2>5
<1>4. QED BY <1>2, <1>3

\* What a table says of p depends on later positions only.
LEMMA LaterOnly ==
  ASSUME NEW S \in Source, NEW p \in Stops(S), NEW h, NEW g,
         \A q \in Stops(S) : q > p /\ q <= S.bytes * 8 => h[q] = g[q]
  PROVE  OutcomeEntry(S, h, p) = OutcomeEntry(S, g, p)
<1>1. SUFFICES ASSUME p # S.end, p \in DOMAIN S.elem, Passes(S, p)
               PROVE  h[p + Width(S.elem[p])] = g[p + Width(S.elem[p])]
  <2>1. p = S.end => OutcomeEntry(S, h, p) = OutcomeEntry(S, g, p)
    BY DEF OutcomeEntry
  <2>2. p # S.end => p \in DOMAIN S.elem
    BY DEF Stops
  <2>3. ASSUME p # S.end, ~Passes(S, p)
        PROVE  OutcomeEntry(S, h, p) = OutcomeEntry(S, g, p)
    <3>1. \/ p + Width(S.elem[p]) > S.bytes * 8
          \/ Malformed(S.elem[p]) \/ TooFarBack(S.elem[p])
      BY <2>2, <2>3, ElementFacts DEF Passes
    <3>2. QED BY <2>3, <3>1 DEF OutcomeEntry
  <2>4. ASSUME p # S.end, Passes(S, p)
        PROVE  OutcomeEntry(S, h, p) = OutcomeEntry(S, g, p)
    <3>1. h[p + Width(S.elem[p])] = g[p + Width(S.elem[p])]
      BY <1>1, <2>2, <2>4
    <3>2. QED BY <2>4, <3>1 DEF OutcomeEntry
  <2>5. QED BY <2>1, <2>3, <2>4
<1>2. p \in Nat /\ Width(S.elem[p]) \in Nat \ {0}
  BY <1>1, ElementFacts
<1>3. PICK q \in Nat : q = p + Width(S.elem[p])
  BY <1>2
<1>4. q > p /\ q <= S.bytes * 8 /\ q \in Stops(S)
  BY <1>1, <1>2, <1>3, PassesOn DEF Passes
<1>5. QED BY <1>3, <1>4

\* There is a table of outcomes: fill one from behind.
LEMMA TableExists ==
  ASSUME NEW S \in Source
  PROVE  \E h \in [Stops(S) -> Outcomes] : h = Filled(S, h)
<1> DEFINE X == [Stops(S) -> Outcomes]
           x == [p \in Stops(S) |-> [n |-> 0, err |-> "EOF"]]
           n == S.bytes * 8 + 2
           g == [i \in 1..n |-> [h \in X |-> Filled(S, h)]]
<1>1. S.bytes \in Nat /\ S.end \in Nat /\ \A p \in Stops(S) : p \in Nat
  BY StreamsOK DEF Stops
<1>2. n \in Nat
  BY <1>1
<1>3. x \in X
  BY DEF Outcomes
<1>4. \A h \in X : Filled(S, h) \in X
  BY FilledType
<1>5. g \in [1..n -> [X -> X]]
  BY <1>4
<1>6. \A i \in 1..n, h \in X : g[i][h] = Filled(S, h)
  OBVIOUS
<1> HIDE DEF g, x, X, n
<1>7. PICK f \in [0..n -> X] : f[0] = x /\ \A i \in 1..n : f[i] = g[i][f[i - 1]]
  <2>1. Recurses(n, X, x, g)
    BY <1>2, <1>3, <1>5, Recursion
  <2>2. QED BY <2>1 DEF Recurses
<1>8. \A i \in 1..n : f[i - 1] \in X /\ f[i] = Filled(S, f[i - 1])
  <2>1. SUFFICES ASSUME NEW i \in 1..n PROVE f[i - 1] \in X /\ f[i] = Filled(S, f[i - 1])
    OBVIOUS
  <2>2. i - 1 \in 0..n
    BY <1>2
  <2>3. QED BY <1>6, <1>7, <2>2
<1> DEFINE Settled(i) == \A p \in Stops(S) : p > S.bytes * 8 - i => f[i + 1][p] = f[i][p]
           I == {i \in Nat : i <= n - 1 /\ i >= 1 => Settled(i)}
<1>9. \A i \in 1..n : \A p \in Stops(S) : f[i][p] = OutcomeEntry(S, f[i - 1], p)
  BY <1>8 DEF Filled
<1>10. 0 \in I
  OBVIOUS
<1>11. ASSUME NEW i \in I PROVE i + 1 \in I
  <2>1. SUFFICES ASSUME i + 1 <= n - 1, NEW p \in Stops(S), p > S.bytes * 8 - (i + 1)
                 PROVE  f[(i + 1) + 1][p] = f[i + 1][p]
    BY <1>2
  <2>2. i + 2 \in 1..n /\ i + 1 \in 1..n /\ (i + 1) + 1 = i + 2 /\ (i + 2) - 1 = i + 1
        /\ (i + 1) - 1 = i /\ i \in Nat
    BY <1>2, <1>11, <2>1
  <2>3. /\ f[i + 2][p] = OutcomeEntry(S, f[i + 1], p)
        /\ f[i + 1][p] = OutcomeEntry(S, f[i], p)
    <3>1. \A j \in 1..n : f[j][p] = OutcomeEntry(S, f[j - 1], p)
      BY <1>9, <2>1
    <3>2. QED BY <2>2, <3>1
  <2>4. ASSUME NEW q \in Stops(S), q > p, q <= S.bytes * 8 PROVE f[i + 1][q] = f[i][q]
    <3>1. q \in Nat /\ p \in Nat /\ S.bytes * 8 \in Nat
      BY <1>1
    <3>2. i # 0 /\ q > S.bytes * 8 - i
      BY <2>1, <2>2, <2>4, <3>1
    <3>3. i >= 1 /\ i <= n - 1
      BY <1>2, <2>1, <2>2, <3>2
    <3>4. QED BY <1>11, <3>2, <3>3
  <2>5. OutcomeEntry(S, f[i + 1], p) = OutcomeEntry(S, f[i], p)
    BY <2>4, LaterOnly
  <2>6. QED BY <2>2, <2>3, <2>5
<1>12. I = Nat
  <2> HIDE DEF I
  <2>1. I \in SUBSET Nat
    BY DEF I
  <2>2. QED BY <1>10, <1>11, <2>1, InductiveSet
<1>13. PICK m \in Nat : m = S.bytes * 8 + 1
  BY <1>1
<1>14. m >= 1 /\ m <= n - 1 /\ m + 1 \in 1..n /\ m \in 0..n /\ (m + 1) - 1 = m
  BY <1>1, <1>13 DEF n
<1>15. \A p \in Stops(S) : f[m + 1][p] = f[m][p]
  <2>1. m \in I
    BY <1>12
  <2>2. \A p \in Stops(S) : p > S.bytes * 8 - m => f[m + 1][p] = f[m][p]
    BY <1>14, <2>1
  <2>3. \A p \in Stops(S) : p > S.bytes * 8 - m
    BY <1>1, <1>13
  <2>4. QED BY <2>2, <2>3
<1>16. f[m] \in [Stops(S) -> Outcomes] /\ f[m + 1] = Filled(S, f[m])
  BY <1>7, <1>8, <1>14 DEF X
<1>17. f[m] = Filled(S, f[m])
  <2>1. Filled(S, f[m]) \in [Stops(S) -> Outcomes]
    BY <1>16, FilledType
  <2>2. \A p \in Stops(S) : Filled(S, f[m])[p] = f[m][p]
    BY <1>15, <1>16
  <2>3. QED BY <1>16, <2>1, <2>2
<1>18. QED BY <1>16, <1>17

\* OutcomeFrom is such a table.
LEMMA OutcomeTable ==
  ASSUME NEW S \in Source
  PROVE  \E f : f = Filled(S, f) /\ \A q : OutcomeFrom(S, q) = f[q]
<1> DEFINE f == CHOOSE f : f = Filled(S, f)
<1>1. f = Filled(S, f)
  BY TableExists
<1>2. \A q : OutcomeFrom(S, q) = f[q]
  BY DEF OutcomeFrom, Filled, OutcomeEntry, Stops, ByteBits
<1>3. QED BY <1>1, <1>2

\* The outcome from an element, and from the end.
LEMMA OutcomeAt ==
  ASSUME NEW S \in Source
  PROVE  /\ OutcomeFrom(S, S.end) = [n |-> S.total, err |-> "EOF"]
         /\ \A p \in DOMAIN S.elem :
              /\ p + Width(S.elem[p]) > S.bytes * 8
                   => OutcomeFrom(S, p) = [n |-> S.elem[p].o, err |-> "UnexpectedEOF"]
              /\ p + Width(S.elem[p]) <= S.bytes * 8
                 /\ (Malformed(S.elem[p]) \/ TooFarBack(S.elem[p]))
                   => OutcomeFrom(S, p)
                        = [n |-> S.elem[p].o + S.elem[p].lits, err |-> "Corrupt"]
              /\ Passes(S, p) => OutcomeFrom(S, p) = OutcomeFrom(S, p + Width(S.elem[p]))
<1>1. PICK f : f = Filled(S, f) /\ \A q : OutcomeFrom(S, q) = f[q]
  BY OutcomeTable
<1>2. \A p \in Stops(S) : f[p] = OutcomeEntry(S, f, p)
  <2>1. \A p \in Stops(S) : Filled(S, f)[p] = OutcomeEntry(S, f, p)
    BY DEF Filled
  <2>2. QED BY <1>1, <2>1
<1>3. OutcomeFrom(S, S.end) = [n |-> S.total, err |-> "EOF"]
  <2>1. S.end \in Stops(S)
    BY DEF Stops
  <2>2. f[S.end] = OutcomeEntry(S, f, S.end)
    BY <1>2, <2>1
  <2>3. QED BY <1>1, <2>2 DEF OutcomeEntry
<1>4. ASSUME NEW p \in DOMAIN S.elem
      PROVE  /\ p + Width(S.elem[p]) > S.bytes * 8
                  => OutcomeFrom(S, p) = [n |-> S.elem[p].o, err |-> "UnexpectedEOF"]
             /\ p + Width(S.elem[p]) <= S.bytes * 8
                /\ (Malformed(S.elem[p]) \/ TooFarBack(S.elem[p]))
                  => OutcomeFrom(S, p)
                       = [n |-> S.elem[p].o + S.elem[p].lits, err |-> "Corrupt"]
             /\ Passes(S, p) => OutcomeFrom(S, p) = OutcomeFrom(S, p + Width(S.elem[p]))
  <2>1. p \in Stops(S) /\ p # S.end /\ p \in Nat /\ S.bytes \in Nat
        /\ Width(S.elem[p]) \in Nat
    BY ElementFacts DEF Stops
  <2>2. OutcomeFrom(S, p) = OutcomeEntry(S, f, p)
    BY <1>1, <1>2, <2>1
  <2>3. CASE p + Width(S.elem[p]) > S.bytes * 8
    <3>1. ~(p + Width(S.elem[p]) <= S.bytes * 8)
      BY <2>1, <2>3
    <3>2. ~Passes(S, p)
      BY <3>1 DEF Passes
    <3>3. OutcomeFrom(S, p) = [n |-> S.elem[p].o, err |-> "UnexpectedEOF"]
      BY <2>1, <2>2, <2>3 DEF OutcomeEntry
    <3>4. QED BY <3>1, <3>2, <3>3, Zenon
  <2>4. CASE p + Width(S.elem[p]) <= S.bytes * 8
    <3>1. ~(p + Width(S.elem[p]) > S.bytes * 8)
      BY <2>1, <2>4
    <3>2. QED BY <1>1, <2>1, <2>2, <2>4, <3>1 DEF OutcomeEntry, Passes
  <2>5. QED BY <2>1, <2>3, <2>4
<1>5. QED BY <1>3, <1>4

\* The outcome is not behind the text that has been read.
LEMMA OutcomeReaches ==
  ASSUME NEW S \in Source, NEW p \in Stops(S)
  PROVE  OutcomeFrom(S, p) \in Outcomes /\ OutcomeFrom(S, p).n >= Offset(S, p)
<1> DEFINE Reaches(q) == OutcomeFrom(S, q) \in Outcomes /\ OutcomeFrom(S, q).n >= Offset(S, q)
           I == {i \in Nat : \A q \in Stops(S) : q + i >= S.bytes * 8 => Reaches(q)}
<1>1. S.bytes \in Nat /\ S.end \in Nat /\ S.total \in Nat
      /\ \A q \in Stops(S) : q \in Nat
  BY StreamsOK DEF Stops
<1>2. Reaches(S.end)
  <2>1. OutcomeFrom(S, S.end) = [n |-> S.total, err |-> "EOF"]
    BY OutcomeAt
  <2>2. QED BY <1>1, <2>1 DEF Outcomes, Offset
<1>3. ASSUME NEW q \in DOMAIN S.elem, ~Passes(S, q) PROVE Reaches(q)
  <2>1. /\ q \in Nat /\ q # S.end /\ S.elem[q].o \in Nat /\ Width(S.elem[q]) \in Nat
    BY ElementFacts
  <2>2. Offset(S, q) = S.elem[q].o
    BY <2>1 DEF Offset
  <2>3. CASE q + Width(S.elem[q]) > S.bytes * 8
    <3>1. OutcomeFrom(S, q) = [n |-> S.elem[q].o, err |-> "UnexpectedEOF"]
      BY <2>3, OutcomeAt
    <3>2. QED BY <2>1, <2>2, <3>1 DEF Outcomes
  <2>4. CASE q + Width(S.elem[q]) <= S.bytes * 8
    <3>1. Malformed(S.elem[q]) \/ TooFarBack(S.elem[q])
      BY <1>3, <2>4 DEF Passes
    <3>2. OutcomeFrom(S, q) = [n |-> S.elem[q].o + S.elem[q].lits, err |-> "Corrupt"]
      BY <2>4, <3>1, OutcomeAt
    <3>3. S.elem[q].lits \in Nat
      BY <3>1, ElementFacts DEF Malformed, TooFarBack
    <3>4. S.elem[q].o + S.elem[q].lits \in Nat
          /\ S.elem[q].o + S.elem[q].lits >= S.elem[q].o
      BY <2>1, <3>3
    <3>5. QED BY <2>2, <3>2, <3>4 DEF Outcomes
  <2>5. QED BY <1>1, <2>1, <2>3, <2>4
<1>4. ASSUME NEW q \in DOMAIN S.elem, Passes(S, q), Reaches(q + Width(S.elem[q]))
      PROVE  Reaches(q)
  <2>1. /\ OutcomeFrom(S, q) = OutcomeFrom(S, q + Width(S.elem[q]))
        /\ Offset(S, q + Width(S.elem[q])) >= Offset(S, q)
        /\ q + Width(S.elem[q]) \in Stops(S) /\ q \in Stops(S)
    BY <1>4, OutcomeAt, PassesOn DEF Stops
  <2>2. \A s \in Stops(S) : Offset(S, s) \in Nat
    BY <1>1, ElementFacts DEF Stops, Offset
  <2>3. PICK a \in Nat, b \in Nat, n \in Nat :
          /\ a = Offset(S, q) /\ b = Offset(S, q + Width(S.elem[q]))
          /\ n = OutcomeFrom(S, q + Width(S.elem[q])).n
    BY <1>4, <2>1, <2>2 DEF Outcomes
  <2>4. n >= b /\ b >= a
    BY <1>4, <2>1, <2>3
  <2>5. n >= a
    BY <2>4
  <2>6. QED BY <1>4, <2>1, <2>3, <2>5
<1> HIDE DEF Reaches
<1>5. 0 \in I
  <2>1. ASSUME NEW q \in Stops(S), q >= S.bytes * 8 PROVE Reaches(q)
    <3>1. CASE q = S.end
      BY <1>2, <3>1
    <3>2. CASE q \in DOMAIN S.elem
      <4>1. Width(S.elem[q]) \in Nat \ {0} /\ q \in Nat
        BY <3>2, ElementFacts
      <4>2. ~(q + Width(S.elem[q]) <= S.bytes * 8)
        BY <1>1, <2>1, <4>1
      <4>3. QED BY <1>3, <3>2, <4>2 DEF Passes
    <3>3. QED BY <3>1, <3>2 DEF Stops
  <2>2. QED BY <1>1, <2>1
<1>6. ASSUME NEW i \in I PROVE i + 1 \in I
  <2>1. SUFFICES ASSUME NEW q \in Stops(S), q + (i + 1) >= S.bytes * 8 PROVE Reaches(q)
    OBVIOUS
  <2>2. CASE q = S.end
    BY <1>2, <2>2
  <2>3. CASE q \in DOMAIN S.elem /\ ~Passes(S, q)
    BY <1>3, <2>3
  <2>4. CASE q \in DOMAIN S.elem /\ Passes(S, q)
    <3>1. Width(S.elem[q]) \in Nat \ {0} /\ q \in Nat
      BY <2>4, ElementFacts
    <3>2. PICK r \in Nat : r = q + Width(S.elem[q])
      BY <3>1
    <3>3. r \in Stops(S) /\ r + i >= S.bytes * 8
      BY <1>1, <2>1, <2>4, <3>1, <3>2, PassesOn
    <3>4. Reaches(r)
      BY <1>6, <3>3
    <3>5. QED BY <1>4, <2>4, <3>2, <3>4
  <2>5. QED BY <2>1, <2>2, <2>3, <2>4 DEF Stops
<1>7. I = Nat
  <2> HIDE DEF I
  <2>1. I \in SUBSET Nat
    BY DEF I
  <2>2. QED BY <1>5, <1>6, <2>1, InductiveSet
<1>8. S.bytes * 8 \in I /\ p + S.bytes * 8 >= S.bytes * 8
  <2>1. PICK b \in Nat : b = S.bytes * 8
    BY <1>1
  <2>2. p \in Nat
    BY <1>1
  <2>3. p + b >= b
    BY <2>1, <2>2
  <2>4. QED BY <1>7, <2>1, <2>3
<1>9. Reaches(p)
  BY <1>8
<1>10. QED BY <1>9 DEF Reaches

\* A reader takes the bytes of a stored block one behind the other.
LEMMA RunOutcome ==
  ASSUME NEW S \in Source, NEW q \in Nat, NEW len \in Nat, NEW o \in Int, NEW fin,
         NEW n \in Nat, n <= len, StoredRun(S, q, len, o, fin), q + 8 * n <= S.bytes * 8
  PROVE  OutcomeFrom(S, q) = OutcomeFrom(S, q + 8 * n)
<1> DEFINE Same(i) == i <= n => OutcomeFrom(S, q) = OutcomeFrom(S, q + 8 * i)
           I == {i \in Nat : Same(i)}
<1>1. 0 \in I
  <2>1. q + 8 * 0 = q
    OBVIOUS
  <2>2. Same(0)
    BY <2>1
  <2>3. QED BY <2>2
<1>2. ASSUME NEW i \in I PROVE i + 1 \in I
  <2>1. SUFFICES ASSUME i + 1 <= n
                 PROVE  OutcomeFrom(S, q) = OutcomeFrom(S, q + 8 * (i + 1))
    OBVIOUS
  <2>2. i \in 0..(len - 1) /\ i <= n /\ i \in Nat
    BY <1>2, <2>1
  <2>3. PICK p \in Nat, b \in Nat : p = q + 8 * i /\ b = S.bytes * 8
    BY <2>2, StreamsOK
  <2>4. p = q + i * 8 /\ p + 8 = q + 8 * (i + 1) /\ p + 8 <= b
    BY <2>1, <2>2, <2>3
  <2>5. p \in DOMAIN S.elem /\ S.elem[p].kind = "byte"
    BY <2>2, <2>4 DEF StoredRun, ByteBits
  <2>6. Width(S.elem[p]) = 8
    BY <2>5, ElementFacts
  <2>7. Passes(S, p)
    BY <2>3, <2>4, <2>5, <2>6 DEF Passes, Malformed, TooFarBack
  <2>8. OutcomeFrom(S, p) = OutcomeFrom(S, p + 8)
    BY <2>5, <2>6, <2>7, OutcomeAt
  <2>9. OutcomeFrom(S, q) = OutcomeFrom(S, p)
    BY <1>2, <2>2, <2>3
  <2>10. QED BY <2>4, <2>8, <2>9
<1>3. I = Nat
  <2> HIDE DEF I
  <2>1. I \in SUBSET Nat
    BY DEF I
  <2>2. QED BY <1>1, <1>2, <2>1, InductiveSet
<1>4. Same(n)
  BY <1>3
<1>5. QED BY <1>4

\* On its track the decoder stands where the stream goes on, with the text it
\* has produced behind it.
OnTrackAt(S, q, o) ==
  \/ AfterBlock(S, q, o, FALSE) \/ AfterBlock(S, q, o, TRUE)
  \/ \E len \in Nat, fin \in BOOLEAN : StoredRun(S, q, len, o, fin)
  \/ \E fin \in BOOLEAN : EntryAt(S, q, o, fin)

LEMMA PlaceOf ==
  ASSUME NEW S \in Source, NEW q \in Int, NEW o \in Int, OnTrackAt(S, q, o)
  PROVE  q \in Stops(S) /\ Offset(S, q) = o
<1>1. S.end \notin DOMAIN S.elem
  BY StreamsOK DEF WellFormed
<1>2. ASSUME NEW fin \in BOOLEAN, AfterBlock(S, q, o, fin) PROVE q \in Stops(S) /\ Offset(S, q) = o
  BY <1>1, <1>2 DEF AfterBlock, Stops, Offset
<1>3. ASSUME NEW fin \in BOOLEAN, EntryAt(S, q, o, fin) PROVE q \in Stops(S) /\ Offset(S, q) = o
  BY <1>1, <1>3 DEF EntryAt, Stops, Offset
<1>4. ASSUME NEW len \in Nat, NEW fin \in BOOLEAN, StoredRun(S, q, len, o, fin)
      PROVE  q \in Stops(S) /\ Offset(S, q) = o
  <2>1. CASE len = 0
    <3>1. AfterBlock(S, q + 0 * 8, o + 0, fin)
      BY <1>4, <2>1 DEF StoredRun, ByteBits
    <3>2. q + 0 * 8 = q /\ o + 0 = o
      OBVIOUS
    <3>3. AfterBlock(S, q, o, fin)
      BY <3>1, <3>2
    <3>4. QED BY <1>2, <3>3
  <2>2. CASE len # 0
    <3>1. 0 \in 0..(len - 1)
      BY <1>4, <2>2
    <3>2. q + 0 * 8 \in DOMAIN S.elem /\ S.elem[q + 0 * 8].o = o + 0
      BY <1>4, <3>1 DEF StoredRun, ByteBits
    <3>3. q + 0 * 8 = q /\ o + 0 = o
      OBVIOUS
    <3>4. QED BY <1>1, <3>2, <3>3 DEF Stops, Offset
  <2>3. QED BY <2>1, <2>2
<1>5. QED BY <1>2, <1>3, <1>4 DEF OnTrackAt

(***************************************************************************)
(* ReaderInv: where the decoder stands on the path through the stream, and *)
(* what its errors say.                                                    *)
(***************************************************************************)

LEMMA PathKept ==
  ASSUME ReaderInv, Pos' = Pos, Produced' = Produced, src' = src, Sound' => Sound
  PROVE  OnPath' /\ (Produced <= Outcome(src).n)'
<1>1. OnPath'
  BY DEF ReaderInv, OnPath
<1>2. Produced <= Outcome(src).n
  BY DEF ReaderInv, EndsRight
<1>3. QED BY <1>1, <1>2

LEMMA PathGoesOn ==
  ASSUME PositionInv', TrackInv', Sound', src' = src, OutcomeFrom(src, Pos') = Outcome(src)
  PROVE  OnPath' /\ (Produced <= Outcome(src).n)'
<1>1. /\ src' \in Source /\ phase' \in Phases /\ litBlockLength' \in Nat
      /\ bfinal' \in BOOLEAN
  BY DEF PositionInv, TypeOK
<1>2. Pos' \in Int /\ Produced' \in Int
  <2>1. /\ base' \in Int /\ peekSize' \in Int /\ inputLen' \in Int
        /\ headerBuffered' \in Int /\ bitsLen' \in Int /\ bits' \in Int
    BY SizesOK DEF PositionInv, TypeOK, ByteBits
  <2>2. Pos' \in Int
    BY <2>1 DEF Pos, NextByte, Held, ByteBits
  <2>3. /\ out' \in Seq(Byte) /\ writeOverflow' \in Seq(Byte) /\ stale' \in Nat
        /\ writePos' \in 0..HistSize /\ readPos' \in 0..writePos'
        /\ copyOverflowLength' \in 0..MaxMatch
    BY DEF PositionInv, TypeOK
  <2>4. /\ Len(out') \in Nat /\ writePos' \in Nat /\ readPos' \in Nat
        /\ copyOverflowLength' \in Nat /\ Len(writeOverflow') \in Nat /\ stale' \in Nat
    BY <2>3, SizesOK DEF HistSize
  <2>5. PICK o \in Nat, w \in Nat, r \in Nat, c \in Nat, v \in Nat, t \in Nat :
          /\ o = Len(out') /\ w = writePos' /\ r = readPos' /\ c = copyOverflowLength'
          /\ v = Len(writeOverflow') /\ t = stale'
    BY <2>4
  <2>6. Produced' = o - t + (w - r) + v + c
    BY <2>5 DEF Produced
  <2>7. Produced' \in Int
    BY <2>6
  <2>8. QED BY <2>2, <2>7
<1>3. OnTrackAt(src', Pos', Produced')
  <2>1. /\ phase' \in {"NewBlock", "DecodingHeader"} =>
             AfterBlock(src', Pos', Produced', FALSE)
        /\ phase' = "LitBlock" =>
             StoredRun(src', Pos', litBlockLength', Produced', bfinal')
        /\ phase' = "HeaderDecoded" => EntryAt(src', Pos', Produced', bfinal')
        /\ phase' \in {"StreamEnd", "Finish"} => AfterBlock(src', Pos', Produced', TRUE)
    BY DEF TrackInv, OnTrack
  <2>2. QED BY <1>1, <2>1 DEF OnTrackAt, Phases
<1>4. Pos' \in Stops(src') /\ Offset(src', Pos') = Produced'
  BY <1>1, <1>2, <1>3, PlaceOf
<1>5. OutcomeFrom(src', Pos').n >= Produced'
  <2>1. OutcomeFrom(src', Pos').n >= Offset(src', Pos')
    BY <1>1, <1>4, OutcomeReaches
  <2>2. QED BY <1>4, <2>1
<1>6. Outcome(src').n \in Int
  <2>1. OutcomeFrom(src', Pos') \in Outcomes
    BY <1>1, <1>4, OutcomeReaches
  <2>2. QED BY <2>1 DEF Outcomes
<1>7. Produced' <= Outcome(src').n
  BY <1>2, <1>5, <1>6
<1>8. QED BY <1>7 DEF OnPath

\* What the decoder has left of the input, and that it takes no more.
LEMMA Supply ==
  ASSUME PositionInv, InputEnds, pc = "decode"
  PROVE  /\ Pos + bitsLen + 8 * (inputLen + headerBuffered) = 8 * got
         /\ got \in Nat /\ src.bytes \in Nat /\ got <= src.bytes
         /\ (eof => got = src.bytes)
         /\ Pos \in Int /\ bitsLen \in Nat /\ inputLen \in Nat /\ headerBuffered \in Nat
<1>1. ~inputNil /\ err = "nil"
  BY DEF PositionInv, Control
<1>2. Pos = (NextByte - headerBuffered) * 8 - bitsLen
  BY <1>1, PosEq DEF PositionInv
<1>3. /\ bitsLen \in Nat /\ inputLen \in Nat /\ headerBuffered \in Nat /\ base \in Nat
      /\ peekSize \in Nat /\ got \in Nat /\ src.bytes \in Nat
  BY SizesOK, StreamsOK DEF PositionInv, TypeOK, ByteBits
<1>4. NextByte = got - inputLen
  BY <1>1, <1>3 DEF NextByte, InputEnds
<1>5. Pos \in Int /\ Pos + bitsLen + 8 * (inputLen + headerBuffered) = 8 * got
  BY <1>2, <1>3, <1>4
<1>6. QED BY <1>3, <1>5 DEF InputEnds

LEMMA TookFits ==
  ASSUME PositionInv, InputEnds, pc = "decode", NEW w \in Nat, Took(w)
  PROVE  Pos + w <= src.bytes * 8
<1>1. PICK p \in Int, b \in Nat, i \in Nat, h \in Nat, g \in Nat, s \in Nat :
        /\ p = Pos /\ b = bitsLen /\ i = inputLen /\ h = headerBuffered /\ g = got
        /\ s = src.bytes
  BY Supply
<1>2. p + b + 8 * (i + h) = 8 * g /\ g <= s
  BY <1>1, Supply
<1>3. PICK c \in Nat, j \in Nat : c = b + 8 * (i + h) - w - 8 * j
  BY <1>1 DEF Took
<1>4. p + w <= s * 8
  BY <1>2, <1>3
<1>5. QED BY <1>1, <1>4

\* A turn of the decoding loop.
LEMMA TurnReader ==
  ASSUME PositionInv, ReaderInv, pc = "decode",
         UNCHANGED <<err, peekSize, eof, bufVars, ret, src, inputNil>>,
         OnPath', (Produced <= Outcome(src).n)',
         derr' \in Fatal => Ends("Corrupt")',
         derr' = "EndInput" /\ eof => Ends("UnexpectedEOF")'
  PROVE  ReaderInv'
<1>1. err = "nil" /\ err' = "nil"
  BY DEF PositionInv, Control
<1>2. EndsRight'
  <2>1. uerr' = "Fail" => CanFail
    BY DEF ReaderInv, EndsRight, bufVars
  <2>2. QED BY <1>1, <2>1 DEF EndsRight
<1>3. InputEnds'
  BY DEF ReaderInv, InputEnds, bufVars
<1>4. ErrorStays'
  BY <1>1 DEF ReaderInv, ErrorStays
<1>5. QED BY <1>2, <1>3, <1>4 DEF ReaderInv

\* A turn that goes on behind the element at Pos.
LEMMA TurnPasses ==
  ASSUME PositionInv, ReaderInv, pc = "decode", PositionInv', TrackInv',
         UNCHANGED <<err, peekSize, eof, bufVars, ret, src, inputNil>>,
         derr' \in {"nil", "OutputOverflow"},
         Pos \in DOMAIN src.elem, Passes(src, Pos), Pos' = Pos + Width(src.elem[Pos])
  PROVE  ReaderInv'
<1>1. Sound /\ Sound'
  BY DEF PositionInv, Control, Sound, Fatal
<1>2. src \in Source
  BY DEF PositionInv, TypeOK
<1>3. OutcomeFrom(src, Pos') = Outcome(src)
  <2>1. OutcomeFrom(src, Pos) = OutcomeFrom(src, Pos')
    BY <1>2, OutcomeAt
  <2>2. OutcomeFrom(src, Pos) = Outcome(src)
    BY <1>1 DEF ReaderInv, OnPath
  <2>3. QED BY <2>1, <2>2
<1>4. OnPath' /\ (Produced <= Outcome(src).n)'
  BY <1>1, <1>3, PathGoesOn
<1>5. derr' \notin Fatal /\ derr' # "EndInput"
  BY DEF Fatal
<1>6. QED BY <1>4, <1>5, TurnReader

\* A turn that refuses the element at Pos.
LEMMA TurnRefuses ==
  ASSUME PositionInv, ReaderInv, pc = "decode",
         UNCHANGED <<err, peekSize, eof, bufVars, ret, src, inputNil>>,
         derr' \in Fatal,
         Pos \in DOMAIN src.elem, Pos + Width(src.elem[Pos]) <= src.bytes * 8,
         Malformed(src.elem[Pos]) \/ TooFarBack(src.elem[Pos]),
         Produced' \in Int, Produced' = src.elem[Pos].o + src.elem[Pos].lits
  PROVE  ReaderInv'
<1>1. Sound /\ ~Sound'
  BY DEF PositionInv, Control, Sound, Fatal
<1>2. src \in Source
  BY DEF PositionInv, TypeOK
<1>3. Outcome(src) = [n |-> Produced', err |-> "Corrupt"]
  <2>1. OutcomeFrom(src, Pos)
          = [n |-> src.elem[Pos].o + src.elem[Pos].lits, err |-> "Corrupt"]
    BY <1>2, OutcomeAt
  <2>2. OutcomeFrom(src, Pos) = Outcome(src)
    BY <1>1 DEF ReaderInv, OnPath
  <2>3. QED BY <2>1, <2>2
<1>4. Ends("Corrupt")' /\ (Produced <= Outcome(src).n)'
  BY <1>3 DEF Ends
<1>5. OnPath'
  BY <1>1 DEF OnPath
<1>6. derr' # "EndInput"
  BY DEF Fatal
<1>7. QED BY <1>4, <1>5, <1>6, TurnReader

\* A turn that lacks bits of the element at the new position.
LEMMA TurnLacks ==
  ASSUME PositionInv, ReaderInv, pc = "decode", PositionInv', TrackInv',
         UNCHANGED <<err, peekSize, eof, bufVars, ret, src, inputNil>>,
         derr' = "EndInput", OutcomeFrom(src, Pos') = Outcome(src),
         Pos' \in DOMAIN src.elem, src.elem[Pos'].o = Produced',
         eof => Pos' + Width(src.elem[Pos']) > src.bytes * 8
  PROVE  ReaderInv'
<1>1. Sound' /\ derr' \notin Fatal
  BY DEF PositionInv, Control, Sound, Fatal
<1>2. src \in Source
  BY DEF PositionInv, TypeOK
<1>3. ASSUME eof PROVE Ends("UnexpectedEOF")'
  <2>1. OutcomeFrom(src, Pos') = [n |-> src.elem[Pos'].o, err |-> "UnexpectedEOF"]
    BY <1>2, <1>3, OutcomeAt
  <2>2. QED BY <2>1 DEF Ends
<1>4. OnPath' /\ (Produced <= Outcome(src).n)'
  BY <1>1, PathGoesOn
<1>5. QED BY <1>1, <1>3, <1>4, TurnReader

LEMMA HeaderShortReader ==
  ASSUME PositionInv, TrackInv, ReaderInv, PositionInv', TrackInv', HeaderShort
  PROVE  ReaderInv'
<1> DEFINE e == src.elem[Pos]
<1>1. /\ pc = "decode" /\ phase \in {"NewBlock", "DecodingHeader"}
      /\ Pos \in DOMAIN src.elem /\ e.kind = "hdr" /\ bitsLen + HeaderInput * 8 < e.w
      /\ derr' = "EndInput"
      /\ UNCHANGED <<err, peekSize, eof, bufVars, ret, src, inputNil>>
  BY DEF HeaderShort, Decoding, Leave, clientVars, ByteBits
<1>2. Sound /\ src \in Source
  BY <1>1 DEF PositionInv, Control, Sound, Fatal, TypeOK
<1>3. OutcomeFrom(src, Pos) = Outcome(src)
  BY <1>2 DEF ReaderInv, OnPath
<1>4. Pos' = Pos /\ Produced' = Produced /\ HeaderInput = headerBuffered + inputLen
  BY HeaderShortStill
<1>5. e.o = Produced
  BY <1>1, DecodeOnTrack DEF AfterBlock
<1>6. Width(e) = e.w /\ Width(e) \in Nat
  BY <1>1, <1>2, ElementFacts
<1> HIDE DEF e
<1>7. ASSUME eof PROVE Pos + Width(e) > src.bytes * 8
  <2>1. PICK p \in Int, b \in Nat, i \in Nat, h \in Nat, g \in Nat, w \in Nat :
          /\ p = Pos /\ b = bitsLen /\ i = inputLen /\ h = headerBuffered /\ g = got
          /\ w = e.w
    BY <1>1, <1>6, Supply DEF ReaderInv
  <2>2. p + b + 8 * (i + h) = 8 * g /\ src.bytes = g
    BY <1>1, <1>7, <2>1, Supply DEF ReaderInv
  <2>3. b + (h + i) * 8 < w
    BY <1>1, <1>4, <2>1
  <2>4. p + w > g * 8
    BY <2>2, <2>3
  <2>5. QED BY <1>6, <2>1, <2>2, <2>4
<1>8. QED BY <1>1, <1>3, <1>4, <1>5, <1>7, TurnLacks DEF e

LEMMA HeaderReadReader ==
  ASSUME PositionInv, TrackInv, ReaderInv, PositionInv', TrackInv',
         NEW l \in 0..(RegBytes * ByteBits), HeaderRead(l)
  PROVE  ReaderInv'
<1> DEFINE e == src.elem[Pos]
<1>1. /\ pc = "decode" /\ phase \in {"NewBlock", "DecodingHeader"}
      /\ Pos \in DOMAIN src.elem /\ e.kind = "hdr"
      /\ \/ e.form \in {"stored", "huff"} /\ derr' = "nil"
         \/ e.form = "bad" /\ derr' = "InvalidBlock"
      /\ UNCHANGED <<writeOverflow, copyOverflowLength, windowVars, out, stale>>
      /\ UNCHANGED <<err, peekSize, eof, bufVars, ret, src, inputNil>>
  BY DEF HeaderRead, Decoding, Leave, clientVars
<1>2. src \in Source /\ UNCHANGED <<base, peekSize, inputNil>>
  BY <1>1 DEF PositionInv, TypeOK, bufVars
<1>3. e.o = Produced /\ Produced' = Produced
  BY <1>1, DecodeOnTrack DEF AfterBlock, Produced, windowVars
<1>4. Width(e) = e.w /\ e.w \in Nat /\ e.lits = 0 /\ e.o \in Nat
  BY <1>1, <1>2, ElementFacts
<1>5. Took(e.w)
  BY HeaderReadTook
<1>6. Pos + Width(e) <= src.bytes * 8 /\ Pos' = Pos + Width(e)
  BY <1>1, <1>2, <1>4, <1>5, TookFits, TookPos DEF ReaderInv
<1>7. CASE e.form = "bad"
  <2>1. derr' \in Fatal
    BY <1>1, <1>7 DEF Fatal
  <2>2. Produced' \in Int /\ Produced' = e.o + e.lits
    BY <1>3, <1>4
  <2>3. Malformed(e)
    BY <1>1, <1>7 DEF Malformed
  <2>4. QED BY <1>1, <1>6, <2>1, <2>2, <2>3, TurnRefuses
<1>8. CASE e.form # "bad"
  <2>1. Passes(src, Pos)
    BY <1>1, <1>6, <1>8 DEF Passes, Malformed, TooFarBack
  <2>2. derr' = "nil"
    BY <1>1, <1>8
  <2>3. QED BY <1>1, <1>6, <2>1, <2>2, TurnPasses
<1>9. QED BY <1>7, <1>8

LEMMA DecodeLiteralBlockReader ==
  ASSUME PositionInv, TrackInv, ReaderInv, PositionInv', TrackInv', DecodeLiteralBlock
  PROVE  ReaderInv'
<1> DEFINE n == LitCount
<1>1. /\ pc = "decode" /\ phase = "LitBlock"
      /\ writePos' = writePos + n
      /\ derr' = (IF LitRoom > 0 /\ LitRoom > Held + inputLen THEN "EndInput"
                  ELSE IF litBlockLength > Limit - writePos THEN "OutputOverflow"
                  ELSE "nil")
      /\ UNCHANGED <<writeOverflow, copyOverflowLength, readPos, out, stale>>
      /\ UNCHANGED <<err, peekSize, eof, bufVars, ret, src, inputNil>>
  BY DEF DecodeLiteralBlock, LitCount, LitRoom, Leave, clientVars
<1>2. /\ n \in Nat /\ n <= litBlockLength /\ Pos \in Nat /\ Took(8 * n) /\ 8 * n \in Nat
      /\ LitRoom > 0 /\ LitRoom > Held + inputLen => inputLen' = 0 /\ bitsLen' = 0
  BY LiteralBlockTook
<1>3. StoredRun(src, Pos, litBlockLength, Produced, bfinal) /\ src \in Source
  BY <1>1, DecodeOnTrack
<1> HIDE DEF n
<1>4. litBlockLength \in Nat /\ Produced \in Int /\ Sound
  BY <1>1, LengthFacts DEF PositionInv, Control, Sound, Fatal, TypeOK
<1>5. Pos' = Pos + 8 * n /\ Pos + 8 * n <= src.bytes * 8
  BY <1>1, <1>2, TookPos, TookFits DEF ReaderInv, bufVars
<1>6. OutcomeFrom(src, Pos') = Outcome(src)
  <2>1. OutcomeFrom(src, Pos) = OutcomeFrom(src, Pos + 8 * n)
    <3>1. PICK q \in Nat, k \in Nat, len \in Nat, o \in Int :
            q = Pos /\ k = n /\ len = litBlockLength /\ o = Produced
      BY <1>2, <1>4
    <3>2. StoredRun(src, q, len, o, bfinal) /\ k <= len /\ q + 8 * k <= src.bytes * 8
      BY <1>2, <1>3, <1>5, <3>1
    <3>3. OutcomeFrom(src, q) = OutcomeFrom(src, q + 8 * k)
      BY <1>3, <3>2, RunOutcome
    <3>4. QED BY <3>1, <3>3
  <2>2. QED BY <1>4, <1>5, <2>1 DEF ReaderInv, OnPath
<1>7. CASE LitRoom > 0 /\ LitRoom > Held + inputLen
  <2>1. derr' = "EndInput" /\ inputLen' = 0 /\ bitsLen' = 0
    BY <1>1, <1>2, <1>7
  <2>2. n < litBlockLength
    <3>1. Held \in Nat /\ inputLen \in Nat /\ LitRoom <= litBlockLength
      BY <1>4, SizesOK, WholeBytes, LengthFacts
         DEF PositionInv, TypeOK, Held, ByteBits, LitRoom, MinOf, Limit, HistSize
    <3>2. LitRoom \in Int
      BY <1>4, SizesOK, LengthFacts DEF LitRoom, MinOf, Limit, HistSize
    <3>3. n = Held + inputLen
      BY <1>7, <3>1, <3>2 DEF n, LitCount, MinOf
    <3>4. QED BY <1>4, <1>7, <3>1, <3>2, <3>3
  <2>3. Produced' = Produced + n
    <3>1. PICK k \in Nat, w \in Nat, v \in Nat, c \in Nat :
            k = n /\ w = writePos /\ v = Len(writeOverflow) /\ c = copyOverflowLength
      BY <1>2, LengthFacts
    <3>2. /\ writePos' = w + k /\ Len(writeOverflow') = v /\ copyOverflowLength' = c
          /\ w + k \in Nat /\ (w + k) + v + c = w + v + c + k
      BY <1>1, <3>1
    <3>3. QED BY <1>1, <3>1, <3>2, ProducedGrows
  <2>4. n \in 0..(litBlockLength - 1) /\ Pos + n * 8 = Pos + 8 * n
    BY <1>2, <1>4, <2>2
  <2>5. /\ Pos' \in DOMAIN src.elem /\ src.elem[Pos'].kind = "byte"
        /\ src.elem[Pos'].o = Produced'
    BY <1>3, <1>5, <2>3, <2>4 DEF StoredRun, ByteBits
  <2>6. Width(src.elem[Pos']) = 8
    BY <1>3, <2>5, ElementFacts
  <2>7. ASSUME eof PROVE Pos' + 8 > src.bytes * 8
    <3>1. PICK p \in Int, b \in Nat, i \in Nat, h \in Nat, g \in Nat, k \in Nat :
            /\ p = Pos /\ b = bitsLen /\ i = inputLen /\ h = headerBuffered /\ g = got
            /\ k = n
      BY <1>1, <1>2, Supply DEF ReaderInv
    <3>2. p + b + 8 * (i + h) = 8 * g /\ src.bytes = g
      BY <1>1, <2>7, <3>1, Supply DEF ReaderInv
    <3>3. 0 = b + 8 * (i + h) - 8 * k - 8 * 0
      BY <1>2, <2>1, <3>1 DEF Took
    <3>4. p + 8 * k + 8 > g * 8
      BY <3>2, <3>3
    <3>5. QED BY <1>5, <3>1, <3>2, <3>4
  <2>8. QED BY <1>1, <1>6, <2>1, <2>5, <2>6, <2>7, TurnLacks
<1>8. CASE ~(LitRoom > 0 /\ LitRoom > Held + inputLen)
  <2>1. derr' \in {"nil", "OutputOverflow"}
    BY <1>1, <1>8
  <2>2. Sound' /\ derr' \notin Fatal /\ derr' # "EndInput"
    BY <1>1, <1>4, <2>1 DEF Sound, Fatal
  <2>3. OnPath' /\ (Produced <= Outcome(src).n)'
    BY <1>1, <1>6, <2>2, PathGoesOn
  <2>4. QED BY <1>1, <2>2, <2>3, TurnReader
<1>9. QED BY <1>7, <1>8

\* An entry that is short lacks bits of the input.
LEMMA ShortLacks ==
  ASSUME bitsLen \in 0..(RegBytes * ByteBits), inputLen \in Nat,
         NEW e, EntryElement(e), Short(e)
  PROVE  Width(e) > bitsLen + 8 * inputLen
<1>1. /\ Reg1 \in [l : Nat, n : 0..inputLen] /\ Reg1.l + 8 * Reg1.n = bitsLen + 8 * inputLen
      /\ Reg1.l <= RegBytes * 8 /\ Reg1.n = 0
  BY EntryFacts
<1>2. /\ e.w \in Nat /\ e.dw \in Nat /\ e.xw \in Nat
  BY DEF EntryElement, ElementOK
<1>3. PICK a \in Nat, w \in Nat, d \in Nat, x \in Nat, r \in Nat :
        a = Reg1.l /\ w = e.w /\ d = e.dw /\ x = e.xw /\ r = RegBytes
  BY <1>1, <1>2, SizesOK
<1>4. Reg1 = [l |-> a, n |-> 0] /\ a = bitsLen + 8 * inputLen /\ a <= r * 8
  BY <1>1, <1>3
<1>5. ASSUME NEW b \in Int, NEW t \in Int, b <= a PROVE LoadBits([l |-> b, n |-> 0], t) = [l |-> b, n |-> 0]
  <2>1. b <= r * 8
    BY <1>4, <1>5
  <2>2. IsLoad(LoadBits([l |-> b, n |-> 0], t), b, 0, t)
    BY <1>3, <2>1, LoadFacts
  <2>3. PICK q : q = LoadBits([l |-> b, n |-> 0], t)
    OBVIOUS
  <2>4. q \in [l : Int, n : 0..0] /\ q.l + 8 * q.n = b + 8 * 0
    BY <2>2, <2>3 DEF IsLoad
  <2>5. q.n = 0 /\ q.l \in Int
    BY <2>4
  <2>6. q.l = b
    BY <2>4, <2>5
  <2>7. q = [l |-> b, n |-> 0]
    BY <2>4, <2>5, <2>6
  <2>8. QED BY <2>3, <2>7
<1>6. Reg2(e) = [l |-> a - w, n |-> 0]
  BY <1>3, <1>4 DEF Reg2, Take
<1>7. Reg3(e) = [l |-> a - w - d, n |-> 0]
  <2>1. MaxCodeLen + 1 \in Int /\ a - w \in Int /\ a - w <= a
    BY SizesOK
  <2>2. LoadBits(Reg2(e), MaxCodeLen + 1) = [l |-> a - w, n |-> 0]
    BY <1>5, <1>6, <2>1
  <2>3. QED BY <1>3, <2>2 DEF Reg3, Take
<1>8. Reg4(e) = [l |-> a - w - d - x, n |-> 0]
  <2>1. (RegBytes - 1) * ByteBits + 1 \in Int /\ a - w - d \in Int /\ a - w - d <= a
    BY SizesOK DEF ByteBits
  <2>2. Refill(Reg3(e)) = [l |-> a - w - d, n |-> 0]
    BY <1>5, <1>7, <2>1 DEF Refill
  <2>3. QED BY <1>3, <2>2 DEF Reg4, Take
<1>9. a - w < 0 \/ a - w - d < 0 \/ a - w - d - x < 0
  BY <1>6, <1>7, <1>8 DEF Short
<1>10. Width(e) = w + d + x
  BY <1>3 DEF Width
<1>11. w + d + x > a
  BY <1>9
<1>12. QED BY <1>4, <1>10, <1>11

\* Where an entry starts.
LEMMA EntryPlace ==
  ASSUME PositionInv, TrackInv, ReaderInv, Decoding({"HeaderDecoded"}, "entry"),
         NEW e, e = src.elem[Pos]
  PROVE  /\ pc = "decode" /\ src \in Source /\ Pos \in DOMAIN src.elem /\ Sound
         /\ OutcomeFrom(src, Pos) = Outcome(src)
         /\ e.kind = "entry" /\ e.o = Produced /\ e.o \in Nat /\ e.lits \in Nat
         /\ EntryElement(e) /\ Width(e) \in Nat
         /\ e.tail \in {"none", "eob", "match", "badsym", "baddist"}
         /\ bitsLen \in 0..(RegBytes * ByteBits) /\ inputLen \in Nat
         /\ Pos + bitsLen + 8 * inputLen = 8 * got
<1>1. pc = "decode" /\ phase = "HeaderDecoded" /\ Pos \in DOMAIN src.elem /\ e.kind = "entry"
  BY DEF Decoding
<1>2. EntryAt(src, Pos, Produced, bfinal) /\ src \in Source
  BY <1>1, DecodeOnTrack
<1>3. Sound
  BY <1>1 DEF PositionInv, Control, Sound, Fatal
<1>4. /\ e.o \in Nat /\ e.lits \in Nat /\ Width(e) \in Nat
      /\ e.tail \in {"none", "eob", "match", "badsym", "baddist"}
  BY <1>1, <1>2, ElementFacts
<1>5. /\ EntryElement(e) /\ bitsLen \in 0..(RegBytes * ByteBits) /\ inputLen \in Nat
      /\ headerBuffered = 0
  BY EntryContext
<1>6. Pos + bitsLen + 8 * (inputLen + headerBuffered) = 8 * got
  BY <1>1, Supply DEF ReaderInv
<1>7. Pos + bitsLen + 8 * inputLen = 8 * got
  BY <1>5, <1>6
<1>8. QED BY <1>1, <1>2, <1>3, <1>4, <1>5, <1>7 DEF EntryAt, ReaderInv, OnPath

LEMMA EntryShortReader ==
  ASSUME PositionInv, TrackInv, ReaderInv, PositionInv', TrackInv', EntryShort
  PROVE  ReaderInv'
<1> DEFINE e == src.elem[Pos]
<1>1. /\ Decoding({"HeaderDecoded"}, "entry") /\ Short(e) /\ derr' = "EndInput" /\ Idle
      /\ UNCHANGED <<out, stale>>
      /\ UNCHANGED <<err, peekSize, eof, bufVars, ret, src, inputNil>>
  BY DEF EntryShort, Leave, clientVars, Idle
<1>2. /\ pc = "decode" /\ src \in Source /\ Pos \in DOMAIN src.elem
      /\ OutcomeFrom(src, Pos) = Outcome(src)
      /\ e.o = Produced /\ EntryElement(e) /\ Width(e) \in Nat
      /\ bitsLen \in 0..(RegBytes * ByteBits) /\ inputLen \in Nat
      /\ Pos + bitsLen + 8 * inputLen = 8 * got
  BY <1>1, EntryPlace
<1>3. Produced' = Produced
  BY <1>1 DEF Idle, Produced, windowVars
<1>4. Pos' = Pos /\ Pos \in Int
  <2>1. Took(0)
    BY <1>1, ReloadTook DEF EntryShort
  <2>2. Pos' = Pos + 0 /\ Pos \in Int
    BY <1>1, <1>2, <2>1, TookPos, EntryContext DEF bufVars
  <2>3. QED BY <2>2
<1>5. Width(e) > bitsLen + 8 * inputLen
  BY <1>1, <1>2, ShortLacks
<1> HIDE DEF e
<1>6. ASSUME eof PROVE Pos + Width(e) > src.bytes * 8
  <2>1. got \in Nat /\ src.bytes = got /\ bitsLen \in Nat
    BY <1>2, <1>6, Supply DEF ReaderInv
  <2>2. PICK p \in Int, b \in Nat, i \in Nat, g \in Nat, w \in Nat :
          p = Pos /\ b = bitsLen /\ i = inputLen /\ g = got /\ w = Width(e)
    BY <1>2, <1>4, <2>1
  <2>3. p + b + 8 * i = 8 * g /\ w > b + 8 * i
    BY <1>2, <1>5, <2>2
  <2>4. p + w > g * 8
    BY <2>3
  <2>5. QED BY <2>1, <2>2, <2>4
<1>7. QED BY <1>1, <1>2, <1>3, <1>4, <1>6, TurnLacks DEF e

LEMMA EntryBadSymbolReader ==
  ASSUME PositionInv, TrackInv, ReaderInv, PositionInv', TrackInv', EntryBadSymbol
  PROVE  ReaderInv'
<1> DEFINE e == src.elem[Pos]
<1>1. /\ Decoding({"HeaderDecoded"}, "entry") /\ e.tail = "badsym" /\ ~Short(e)
      /\ derr' = "InvalidSymbol" /\ Idle /\ UNCHANGED <<out, stale>>
      /\ UNCHANGED <<err, peekSize, eof, bufVars, ret, src, inputNil>>
  BY DEF EntryBadSymbol, Leave, clientVars, Idle
<1>2. /\ pc = "decode" /\ src \in Source /\ Pos \in DOMAIN src.elem /\ e.kind = "entry"
      /\ e.o = Produced /\ e.o \in Nat /\ EntryElement(e) /\ Width(e) \in Nat
      /\ bitsLen \in 0..(RegBytes * ByteBits) /\ inputLen \in Nat
      /\ Pos + bitsLen + 8 * inputLen = 8 * got
  BY <1>1, EntryPlace
<1>3. Produced' = Produced
  BY <1>1 DEF Idle, Produced, windowVars
<1>4. e.lits = 0 /\ Width(e) = e.w
  BY <1>1, <1>2 DEF EntryElement, ElementOK, Width
<1>5. Width(e) <= bitsLen + 8 * inputLen
  <2>1. /\ Reg2(e) \in [l : Nat, n : 0..inputLen]
        /\ Reg2(e).l + 8 * Reg2(e).n = bitsLen + 8 * inputLen - e.w
    BY <1>1, <1>2, EntryFacts
  <2>2. PICK l \in Nat, n \in Nat, b \in Nat, i \in Nat, w \in Nat :
          l = Reg2(e).l /\ n = Reg2(e).n /\ b = bitsLen /\ i = inputLen /\ w = e.w
    BY <1>2, <1>4, <2>1, SizesOK DEF ByteBits
  <2>3. l + 8 * n = b + 8 * i - w
    BY <2>1, <2>2
  <2>4. w <= b + 8 * i
    BY <2>3
  <2>5. QED BY <1>4, <2>2, <2>4
<1> HIDE DEF e
<1>6. Pos + Width(e) <= src.bytes * 8
  <2>1. got \in Nat /\ src.bytes \in Nat /\ got <= src.bytes /\ bitsLen \in Nat /\ Pos \in Int
    BY <1>2, Supply DEF ReaderInv
  <2>2. PICK p \in Int, b \in Nat, i \in Nat, g \in Nat, w \in Nat, s \in Nat :
          /\ p = Pos /\ b = bitsLen /\ i = inputLen /\ g = got /\ w = Width(e)
          /\ s = src.bytes
    BY <1>2, <2>1
  <2>3. p + b + 8 * i = 8 * g /\ w <= b + 8 * i /\ g <= s
    BY <1>2, <1>5, <2>1, <2>2
  <2>4. p + w <= s * 8
    BY <2>3
  <2>5. QED BY <2>2, <2>4
<1>7. Produced' \in Int /\ Produced' = e.o + e.lits
  BY <1>2, <1>3, <1>4
<1>8. Malformed(e) /\ derr' \in Fatal
  BY <1>1, <1>2 DEF Malformed, Fatal
<1>9. QED BY <1>1, <1>2, <1>6, <1>7, <1>8, TurnRefuses DEF e

LEMMA EntryLiteralsReader ==
  ASSUME PositionInv, TrackInv, ReaderInv, PositionInv', TrackInv', EntryLiterals
  PROVE  ReaderInv'
<1> DEFINE e == src.elem[Pos]
<1>1. /\ Decoding({"HeaderDecoded"}, "entry") /\ e.tail \in {"none", "eob"}
      /\ derr' \in {"nil", "OutputOverflow"}
      /\ UNCHANGED <<err, peekSize, eof, bufVars, ret, src, inputNil>>
  BY DEF EntryLiterals, Leave, clientVars
<1>2. /\ pc = "decode" /\ src \in Source /\ Pos \in DOMAIN src.elem /\ e.kind = "entry"
      /\ EntryElement(e)
  BY <1>1, EntryPlace
<1>3. Width(e) = e.w
  BY <1>1, <1>2 DEF EntryElement, ElementOK, Width
<1>4. Took(e.w) /\ e.w \in Nat
  BY EntryLiteralsTook
<1>5. Pos + Width(e) <= src.bytes * 8 /\ Pos' = Pos + Width(e)
  BY <1>1, <1>2, <1>3, <1>4, TookFits, TookPos DEF ReaderInv, bufVars
<1>6. Passes(src, Pos)
  BY <1>1, <1>2, <1>5 DEF Passes, Malformed, TooFarBack
<1>7. QED BY <1>1, <1>2, <1>5, <1>6, TurnPasses

\* A match is refused when it reaches back before its text, and only then.
LEMMA RefusedMatch ==
  ASSUME PositionInv, TrackInv, TextInv, Trusted, Decoding({"HeaderDecoded"}, "entry"),
         NEW e, e = src.elem[Pos], e.tail = "match"
  PROVE  TooFarBack(e) <=> writePos + Fit(e) < e.dist
<1>1. ASSUME ~(writePos + Fit(e) < e.dist) PROVE ~TooFarBack(e)
  <2>1. e.dist <= Written + e.lits
    BY <1>1, MatchRepeats
  <2>2. e.o = Written /\ e.o \in Nat /\ EntryElement(e)
    BY EntryTextContext
  <2>3. e.lits \in Nat /\ e.dist \in Nat
    BY <2>2, SizesOK DEF EntryElement, ElementOK
  <2>4. ~(e.dist > e.o + e.lits)
    BY <2>1, <2>2, <2>3
  <2>5. QED BY <2>4 DEF TooFarBack
<1>2. ASSUME writePos + Fit(e) < e.dist PROVE TooFarBack(e)
  <2>1. e.o = Written /\ e.o \in Nat /\ EntryElement(e)
    BY EntryTextContext
  <2>2. e.kind = "entry" /\ e.lits \in Nat /\ e.dist \in Nat /\ e.dist <= HistorySize
    BY <2>1, SizesOK DEF EntryElement, ElementOK
  <2>3. writePos >= MinOf(Written, HistorySize)
    BY DEF TextInv, WindowReach
  <2>4. /\ Fit(e) \in Nat /\ Fit(e) <= e.lits /\ writePos \in Nat
        /\ (Fit(e) < e.lits => writePos + Fit(e) = Limit)
    BY LiteralFacts, LengthFacts
  <2>5. HistorySize \in Nat /\ Limit \in Nat /\ HistorySize <= Limit
    BY SizesOK DEF Limit, HistSize
  <2>6. PICK o \in Nat, n \in Nat, f \in Nat, w \in Nat, d \in Nat, h \in Nat :
          /\ o = e.o /\ n = e.lits /\ f = Fit(e) /\ w = writePos /\ d = e.dist
          /\ h = HistorySize
    BY <2>1, <2>2, <2>4, <2>5
  <2>7. w >= MinOf(o, h) /\ f <= n /\ w + f < d /\ d <= h
    BY <1>2, <2>1, <2>2, <2>3, <2>4, <2>6
  <2>8. f = n
    BY <2>4, <2>5, <2>6, <2>7
  <2>9. d > o + n
    BY <2>7, <2>8 DEF MinOf
  <2>10. QED BY <2>2, <2>6, <2>9 DEF TooFarBack
<1>3. QED BY <1>1, <1>2

LEMMA EntryMatchReader ==
  ASSUME PositionInv, TrackInv, TextInv, Trusted, ReaderInv, PositionInv', TrackInv',
         EntryMatch
  PROVE  ReaderInv'
<1> DEFINE e == src.elem[Pos]
           bad == e.tail = "baddist" \/ writePos + Fit(e) < e.dist
<1>1. /\ Decoding({"HeaderDecoded"}, "entry") /\ HasDist(e)
      /\ bad => /\ derr' \in {"InvalidSymbol", "InvalidLookBack"}
                /\ writeOverflow' = Spill(e) /\ writePos' = writePos + Fit(e)
                /\ copyOverflowLength' = copyOverflowLength
      /\ ~bad => derr' \in {"nil", "OutputOverflow"}
      /\ UNCHANGED <<readPos, out, stale>>
      /\ UNCHANGED <<err, peekSize, eof, bufVars, ret, src, inputNil>>
  BY DEF EntryMatch, Leave, clientVars
<1>2. /\ pc = "decode" /\ src \in Source /\ Pos \in DOMAIN src.elem /\ e.kind = "entry"
      /\ e.o = Produced /\ e.o \in Nat /\ e.lits \in Nat
  BY <1>1, EntryPlace
<1>3. Took(Width(e)) /\ Width(e) \in Nat
  BY EntryMatchTook
<1>4. Pos + Width(e) <= src.bytes * 8 /\ Pos' = Pos + Width(e)
  BY <1>1, <1>2, <1>3, TookFits, TookPos DEF ReaderInv, bufVars
<1>5. e.tail = "match" => (TooFarBack(e) <=> writePos + Fit(e) < e.dist)
  BY <1>1, RefusedMatch
<1>6. CASE bad
  <2>1. Produced' = Produced + e.lits
    <3>1. /\ Fit(e) \in Nat /\ Fit(e) <= e.lits /\ Len(Spill(e)) = e.lits - Fit(e)
          /\ Len(writeOverflow) = 0 /\ copyOverflowLength = 0
      BY <1>1, LiteralFacts, EntryContext, SeqFacts
    <3>2. PICK f \in Nat, n \in Nat, w \in Nat : f = Fit(e) /\ n = e.lits /\ w = writePos
      BY <1>2, <3>1, LengthFacts
    <3>3. /\ writePos' = w + f /\ Len(writeOverflow') = n - f /\ copyOverflowLength' = 0
          /\ f <= n
      BY <1>1, <1>6, <3>1, <3>2
    <3>4. /\ w + f \in Nat /\ n - f \in Nat /\ (w + f) + (n - f) + 0 = w + 0 + 0 + n
      BY <3>3
    <3>5. Produced' = Produced + n
      BY <1>1, <3>1, <3>2, <3>3, <3>4, ProducedGrows
    <3>6. QED BY <3>2, <3>5
  <2>2. Produced' \in Int /\ Produced' = e.o + e.lits
    BY <1>2, <2>1
  <2>3. Malformed(e) \/ TooFarBack(e)
    BY <1>1, <1>2, <1>5, <1>6 DEF Malformed, HasDist
  <2>4. derr' \in Fatal
    BY <1>1, <1>6 DEF Fatal
  <2>5. QED BY <1>1, <1>2, <1>4, <2>2, <2>3, <2>4, TurnRefuses
<1>7. CASE ~bad
  <2>1. e.tail = "match" /\ ~TooFarBack(e)
    BY <1>1, <1>5, <1>7 DEF HasDist
  <2>2. Passes(src, Pos)
    BY <1>2, <1>4, <2>1 DEF Passes, Malformed
  <2>3. derr' \in {"nil", "OutputOverflow"}
    BY <1>1, <1>7
  <2>4. QED BY <1>1, <1>2, <1>4, <2>2, <2>3, TurnPasses
<1>8. QED BY <1>6, <1>7

\* Where no decoding loop turns.
LEMMA QuietReader ==
  ASSUME ReaderInv, Pos' = Pos, Produced' = Produced, src' = src,
         err' = err, derr' = derr, eof' = eof, phase' = phase,
         uerr' = "Fail" => CanFail, InputEnds', ErrorStays'
  PROVE  ReaderInv'
<1>1. OnPath' /\ (Produced <= Outcome(src).n)'
  BY PathKept DEF Sound
<1>2. EndsRight'
  BY <1>1 DEF ReaderInv, EndsRight, Ends
<1>3. QED BY <1>1, <1>2 DEF ReaderInv

LEMMA CallReadReader ==
  ASSUME ReaderInv, NEW n \in ReadSizes, CallRead(n)
  PROVE  ReaderInv'
<1>1. UNCHANGED <<inflateVars, windowVars, err, peekSize, eof, bufVars, derr, ret, src, out,
                 stale>>
  BY DEF CallRead
<1>2. Pos' = Pos /\ Produced' = Produced /\ phase' = phase
  BY <1>1 DEF Pos, NextByte, Held, Produced, inflateVars, windowVars, bufVars
<1>3. InputEnds' /\ ErrorStays'
  BY <1>1 DEF ReaderInv, InputEnds, ErrorStays, bufVars, inflateVars, windowVars
<1>4. uerr' = "Fail" => CanFail
  BY <1>1 DEF ReaderInv, EndsRight, bufVars
<1>5. QED BY <1>1, <1>2, <1>3, <1>4, QuietReader

LEMMA ReadDeliverReader ==
  ASSUME PositionInv, ReaderInv, ReadDeliver
  PROVE  ReaderInv'
<1>1. /\ UNCHANGED <<err, derr, eof, phase, src, peekSize, bufVars, inputNil, writePos>>
      /\ writePos > readPos
      /\ \E num : /\ readPos' = readPos + num
                  /\ ret'.err = IF readPos + num = writePos THEN err ELSE "nil"
  BY DEF ReadDeliver, inflateVars
<1>2. Pos' = Pos /\ Produced' = Produced
  BY ReadDeliverStill DEF Still
<1>3. InputEnds'
  BY <1>1 DEF ReaderInv, InputEnds, bufVars
<1>4. ErrorStays'
  BY <1>1 DEF ErrorStays
<1>5. uerr' = "Fail" => CanFail
  BY <1>1 DEF ReaderInv, EndsRight, bufVars
<1>6. QED BY <1>1, <1>2, <1>3, <1>4, <1>5, QuietReader

LEMMA ReadErrorReader ==
  ASSUME ReaderInv, ReadError
  PROVE  ReaderInv'
<1>1. /\ UNCHANGED <<inflateVars, windowVars, err, peekSize, eof, bufVars, derr, src, out,
                    stale>>
      /\ writePos = readPos /\ ret'.err = err
  BY DEF ReadError
<1>2. Pos' = Pos /\ Produced' = Produced /\ phase' = phase
  BY <1>1 DEF Pos, NextByte, Held, Produced, inflateVars, windowVars, bufVars
<1>3. InputEnds' /\ ErrorStays'
  BY <1>1 DEF ReaderInv, InputEnds, ErrorStays, bufVars, inflateVars, windowVars
<1>4. uerr' = "Fail" => CanFail
  BY <1>1 DEF ReaderInv, EndsRight, bufVars
<1>5. QED BY <1>1, <1>2, <1>3, <1>4, QuietReader

LEMMA StepPeekReader ==
  ASSUME ReaderInv, StepPeek
  PROVE  ReaderInv'
<1>1. UNCHANGED <<inflateVars, windowVars, err, peekSize, eof, bufVars, derr, ret, src, out,
                 stale>>
  BY DEF StepPeek, clientVars
<1>2. Pos' = Pos /\ Produced' = Produced /\ phase' = phase
  BY <1>1 DEF Pos, NextByte, Held, Produced, inflateVars, windowVars, bufVars
<1>3. InputEnds' /\ ErrorStays'
  BY <1>1 DEF ReaderInv, InputEnds, ErrorStays, bufVars, inflateVars, windowVars
<1>4. uerr' = "Fail" => CanFail
  BY <1>1 DEF ReaderInv, EndsRight, bufVars
<1>5. QED BY <1>1, <1>2, <1>3, <1>4, QuietReader

LEMMA DecodeDoneReader ==
  ASSUME ReaderInv, DecodeDone
  PROVE  ReaderInv'
<1>1. UNCHANGED <<inflateVars, windowVars, err, peekSize, eof, bufVars, derr, ret, src, out,
                 stale>>
  BY DEF DecodeDone, clientVars
<1>2. Pos' = Pos /\ Produced' = Produced /\ phase' = phase
  BY <1>1 DEF Pos, NextByte, Held, Produced, inflateVars, windowVars, bufVars
<1>3. InputEnds' /\ ErrorStays'
  BY <1>1 DEF ReaderInv, InputEnds, ErrorStays, bufVars, inflateVars, windowVars
<1>4. uerr' = "Fail" => CanFail
  BY <1>1 DEF ReaderInv, EndsRight, bufVars
<1>5. QED BY <1>1, <1>2, <1>3, <1>4, QuietReader

LEMMA PeekFillReader ==
  ASSUME PositionInv, ReaderInv, NEW k \in 0..BufSize, NEW e, PeekFill(k, e)
  PROVE  ReaderInv'
<1>1. /\ UNCHANGED <<inflateVars, windowVars, err, peekSize, eof, base, derr, ret, src, out,
                    stale>>
      /\ pc = "peek" /\ k \in 0..MinOf(BufSize - (got - base), src.bytes - got)
      /\ got - base < BufSize
      /\ got' = got + k /\ uerr' = e /\ (e = "EOF" => got + k = src.bytes)
      /\ e \in {"nil", "EOF"} \cup (IF CanFail THEN {"Fail"} ELSE {})
  BY DEF PeekFill, clientVars
<1>2. inputNil
  BY <1>1 DEF PositionInv, Control
<1>3. Pos' = Pos /\ Produced' = Produced /\ phase' = phase
  BY <1>1 DEF Pos, NextByte, Held, Produced, inflateVars, windowVars
<1>4. uerr' = "Fail" => CanFail
  BY <1>1
<1>5. InputEnds'
  <2>1. got \in Nat /\ src.bytes \in Nat /\ base \in Nat /\ BufSize \in Nat /\ got <= src.bytes
    BY StreamsOK, SizesOK DEF PositionInv, TypeOK, ReaderInv, InputEnds
  <2>2. got + k <= src.bytes
    BY <1>1, <2>1 DEF MinOf
  <2>3. eof => got + k = src.bytes
    BY <2>1, <2>2 DEF ReaderInv, InputEnds
  <2>4. QED BY <1>1, <1>2, <2>2, <2>3 DEF InputEnds, inflateVars
<1>6. ErrorStays'
  BY <1>1 DEF ReaderInv, ErrorStays, windowVars
<1>7. QED BY <1>1, <1>3, <1>4, <1>5, <1>6, QuietReader

LEMMA StepInputReader ==
  ASSUME PositionInv, ReaderInv, StepInput
  PROVE  ReaderInv'
<1>1. /\ UNCHANGED <<inflateVars, err, peekSize, eof, bufVars, ret, src, out, stale>>
      /\ derr' = "nil" /\ pc = "read" /\ err = "nil" /\ writePos = readPos
      /\ EnterDecomperss(inputLen)
  BY DEF StepInput, StepCalled, EnterDecomperss, clientVars
<1>2. derr = "nil"
  BY <1>1 DEF PositionInv, Control
<1>3. writePos' - readPos' = writePos - readPos
  BY <1>1, LengthFacts, SizesOK DEF EnterDecomperss, windowVars
<1>4. Pos' = Pos /\ Produced' = Produced /\ phase' = phase
  BY <1>1, <1>3 DEF Pos, NextByte, Held, Produced, inflateVars, bufVars
<1>5. uerr' = "Fail" => CanFail
  BY <1>1 DEF ReaderInv, EndsRight, bufVars
<1>6. InputEnds'
  BY <1>1 DEF ReaderInv, InputEnds, bufVars, inflateVars
<1>7. ErrorStays'
  BY <1>1 DEF ReaderInv, ErrorStays
<1>8. QED BY <1>1, <1>2, <1>4, <1>5, <1>6, <1>7, QuietReader

LEMMA PeekReturnReader ==
  ASSUME PositionInv, ReaderInv, PeekReturn
  PROVE  ReaderInv'
<1> DEFINE perr == IF got - base >= BufSize THEN "nil" ELSE uerr
<1>1. /\ inputNil' = FALSE /\ peekSize' = got - base
      /\ UNCHANGED <<phase, base, got, ret, src>>
      /\ uerr' = (IF got - base >= BufSize THEN uerr ELSE "nil")
      /\ perr = "Fail" => err' = "Fail" /\ UNCHANGED <<derr, eof>>
      /\ perr # "Fail" => eof' = (perr = "EOF") /\ UNCHANGED err /\ derr' = "nil"
  BY DEF PeekReturn, EnterDecomperss, clientVars
<1>2. err = "nil" /\ derr = "nil" /\ Sound
  BY DEF PeekReturn, PositionInv, Control, Sound, Fatal
<1>3. got \in Int /\ base \in Int
  BY DEF PositionInv, TypeOK
<1>4. InputEnds'
  <2>1. base' + peekSize' = got'
    BY <1>1, <1>3
  <2>2. eof' => got = src.bytes
    BY <1>1 DEF ReaderInv, InputEnds
  <2>3. uerr' = "EOF" => got = src.bytes
    BY <1>1 DEF ReaderInv, InputEnds
  <2>4. QED BY <1>1, <2>1, <2>2, <2>3 DEF ReaderInv, InputEnds
<1>5. ErrorStays'
  BY <1>1, <1>2 DEF ReaderInv, ErrorStays
<1>6. uerr' = "Fail" => CanFail
  BY <1>1 DEF ReaderInv, EndsRight
<1>7. Produced' = Produced
  BY PeekReturnStill
<1>8. derr' = "nil"
  BY <1>1, <1>2
<1>9. CASE err' = "Fail"
  <2>1. CanFail
    BY <1>1, <1>2, <1>9 DEF ReaderInv, EndsRight
  <2>2. OnPath'
    BY <1>9 DEF OnPath, Sound
  <2>3. EndsRight'
    BY <1>1, <1>7, <1>8, <1>9, <2>1 DEF ReaderInv, EndsRight, Fatal
  <2>4. QED BY <1>4, <1>5, <2>2, <2>3 DEF ReaderInv
<1>10. CASE err' # "Fail"
  <2>1. err' = err /\ Pos' = Pos
    BY <1>1, <1>10, PeekReturnStill DEF Still
  <2>2. OnPath' /\ (Produced <= Outcome(src).n)'
    BY <1>1, <1>2, <1>7, <2>1, PathKept
  <2>3. EndsRight'
    BY <1>2, <1>6, <1>8, <2>1, <2>2 DEF EndsRight, Fatal
  <2>4. QED BY <1>4, <1>5, <2>2, <2>3 DEF ReaderInv
<1>11. QED BY <1>9, <1>10

LEMMA StepTailReader ==
  ASSUME PositionInv, ReaderInv, StepTail
  PROVE  ReaderInv'
<1>1. PICK done, drop :
        /\ inputNil' = drop /\ (~drop => base' = base)
        /\ phase' = (IF done THEN "Finish" ELSE phase)
        /\ err' = (IF derr \in Fatal THEN "Corrupt"
                   ELSE IF Fails(derr) THEN "UnexpectedEOF"
                   ELSE IF done THEN "EOF" ELSE "nil")
        /\ pc = "tail" /\ derr' = "nil"
        /\ UNCHANGED <<peekSize, eof, got, uerr, ret, src>>
  BY DEF StepTail, clientVars
<1>2. err = "nil" /\ ~inputNil
  BY <1>1 DEF PositionInv, Control
<1>3. Pos' = Pos /\ Produced' = Produced
  BY StepTailStill
<1>4. Sound' => Sound
  BY <1>1, <1>2 DEF Sound
<1>5. OnPath' /\ (Produced <= Outcome(src).n)'
  BY <1>1, <1>3, <1>4, PathKept
<1>6. derr' \notin Fatal /\ derr' # "EndInput"
  BY <1>1 DEF Fatal
<1>7. EndsRight'
  <2>1. err' = "Corrupt" => Ends("Corrupt")'
    BY <1>1, <1>3 DEF ReaderInv, EndsRight, Ends
  <2>2. err' = "UnexpectedEOF" => Ends("UnexpectedEOF")'
    <3>1. err' = "UnexpectedEOF" => derr = "EndInput" /\ eof
      BY <1>1 DEF Fails
    <3>2. QED BY <1>1, <1>3, <3>1 DEF ReaderInv, EndsRight, Ends
  <2>3. err' = "EOF" => phase' = "Finish"
    BY <1>1
  <2>4. err' # "Fail" /\ (uerr' = "Fail" => CanFail)
    BY <1>1 DEF ReaderInv, EndsRight
  <2>5. QED BY <1>5, <1>6, <2>1, <2>2, <2>3, <2>4 DEF EndsRight
<1>8. InputEnds'
  BY <1>1, <1>2 DEF ReaderInv, InputEnds
<1>9. ErrorStays'
  BY <1>1, <1>2 DEF ReaderInv, ErrorStays
<1>10. QED BY <1>5, <1>7, <1>8, <1>9 DEF ReaderInv

\* The outcome of a stream is not before its start.
LEMMA OutcomeType ==
  ASSUME NEW S \in Source
  PROVE  Outcome(S) \in Outcomes
<1>1. 0 \in Stops(S)
  BY StreamsOK DEF WellFormed, Stops
<1>2. QED BY <1>1, OutcomeReaches DEF Outcome

LEMMA ResetReader ==
  ASSUME PositionInv, NEW s \in Source, Reset(s)
  PROVE  ReaderInv'
<1>1. /\ src' = s /\ err' = "nil" /\ derr' = derr /\ pc = "idle" /\ eof' = FALSE
      /\ uerr' = "nil" /\ got' = 0 /\ out' = <<>>
      /\ stale' = writePos - readPos /\ writeOverflow' = <<>>
      /\ copyOverflowLength' = 0 /\ bitsLen' = 0 /\ inputNil' = TRUE /\ base' = 0
      /\ headerBuffered' = 0 /\ UNCHANGED <<writePos, readPos>>
      /\ ret' = [n |-> 0, err |-> "nil"]
  BY DEF Reset, ResetInflate, windowVars
<1>2. derr = "nil"
  BY <1>1 DEF PositionInv, Control
<1>3. Pos' = 0
  BY <1>1 DEF Pos, NextByte, Held, ByteBits
<1>4. Produced' = 0
  BY <1>1, LengthFacts, SeqFacts DEF Produced
<1>5. Outcome(s).n \in Nat /\ s.bytes \in Nat
  BY OutcomeType, StreamsOK DEF Outcomes
<1>6. OnPath'
  BY <1>1, <1>3 DEF OnPath, Outcome
<1>7. EndsRight'
  BY <1>1, <1>2, <1>4, <1>5 DEF EndsRight, Fatal
<1>8. InputEnds' /\ ErrorStays'
  BY <1>1, <1>5 DEF InputEnds, ErrorStays
<1>9. QED BY <1>6, <1>7, <1>8 DEF ReaderInv

LEMMA InitReader == Init => ReaderInv
<1> SUFFICES ASSUME Init PROVE ReaderInv
  OBVIOUS
<1>1. /\ src \in Source /\ err = "nil" /\ derr = "nil" /\ eof = FALSE /\ uerr = "nil"
      /\ got = 0 /\ inputNil = TRUE /\ ret.err = "nil"
  BY DEF Init
<1>2. Pos = 0
  BY DEF Init, Pos, NextByte, Held, ByteBits
<1>3. Produced = 0
  BY SeqFacts DEF Init, Produced
<1>4. Outcome(src).n \in Nat /\ src.bytes \in Nat
  BY <1>1, OutcomeType, StreamsOK DEF Outcomes
<1>5. OnPath
  BY <1>2 DEF OnPath, Outcome
<1>6. EndsRight
  BY <1>1, <1>3, <1>4 DEF EndsRight, Fatal
<1>7. InputEnds /\ ErrorStays
  BY <1>1, <1>4 DEF InputEnds, ErrorStays
<1>8. QED BY <1>5, <1>6, <1>7 DEF ReaderInv

LEMMA NextReader ==
  ASSUME PositionInv, TrackInv, TextInv, Trusted => ReaderInv, [Next]_vars
  PROVE  Trusted' => ReaderInv'
<1>1. PositionInv' /\ TrackInv'
  BY NextPosition, NextTrack
<1>2. CASE \E s \in Source : Reset(s)
  BY <1>2, ResetReader
<1>3. CASE ~(\E s \in Source : Reset(s))
  <2>1. UNCHANGED <<src, resets>>
    BY <1>3 DEF Next, Client, Underlying, ReadLoop, Decode, CallRead, PeekFill, ReadDeliver,
                ReadError, StepInput, StepPeek, PeekReturn, StepTail, DecodeDone, HeaderShort,
                HeaderRead, DecodeLiteralBlock, EntryShort, EntryBadSymbol, EntryLiterals,
                EntryMatch, clientVars, vars
  <2>2. SUFFICES ASSUME Trusted, ReaderInv PROVE ReaderInv'
    BY <2>1 DEF Trusted
  <2>3. CASE UNCHANGED vars
    <3>1. UNCHANGED <<inflateVars, windowVars, err, peekSize, eof, bufVars, derr, ret, src,
                     out, stale>>
      BY <2>3 DEF vars, clientVars
    <3>2. Pos' = Pos /\ Produced' = Produced /\ phase' = phase
      BY <3>1 DEF Pos, NextByte, Held, Produced, inflateVars, windowVars, bufVars
    <3>3. InputEnds' /\ ErrorStays'
      BY <2>2, <3>1 DEF ReaderInv, InputEnds, ErrorStays, bufVars, inflateVars, windowVars
    <3>4. uerr' = "Fail" => CanFail
      BY <2>2, <3>1 DEF ReaderInv, EndsRight, bufVars
    <3>5. QED BY <2>2, <3>1, <3>2, <3>3, <3>4, QuietReader
  <2>4. CASE Client
    BY <1>3, <2>2, <2>4, CallReadReader DEF Client
  <2>5. CASE Underlying
    BY <2>2, <2>5, PeekFillReader DEF Underlying
  <2>6. CASE ReadLoop
    BY <2>2, <2>6, ReadDeliverReader, ReadErrorReader, StepInputReader, StepPeekReader,
       PeekReturnReader, StepTailReader DEF ReadLoop
  <2>7. CASE Decode
    BY <1>1, <2>2, <2>7, DecodeDoneReader, HeaderShortReader, HeaderReadReader,
       DecodeLiteralBlockReader, EntryShortReader, EntryBadSymbolReader,
       EntryLiteralsReader, EntryMatchReader DEF Decode
  <2>8. QED BY <2>3, <2>4, <2>5, <2>6, <2>7 DEF Next
<1>4. QED BY <1>2, <1>3

\* While a match can be told from its own text, the decoder stands on the path
\* that the stream leads from its first bit, and every error it sets is the one
\* the stream ends with: input that comes in pieces, a header tried again, an
\* entry that is short, output that fills up, change nothing (reader.go:107-230).
THEOREM ReaderCorrect == Spec => [](IInv /\ TextInv /\ (Trusted => ReaderInv))
<1>1. Init => IInv /\ TextInv /\ (Trusted => ReaderInv)
  BY InitInv, InitTrack, InitText, InitReader DEF IInv
<1>2. IInv /\ TextInv /\ (Trusted => ReaderInv) /\ [Next]_vars
        => IInv' /\ TextInv' /\ (Trusted' => ReaderInv')
  BY NextPosition, NextTrack, NextText, NextReader DEF IInv
<1>3. QED BY <1>1, <1>2, PTL DEF Spec

(***************************************************************************)
(* The promise: every step of the decompressor is a step of PlainReader,   *)
(* or none, for the client.                                                *)
(***************************************************************************)

\* What has been handed out since the last Reset, without the bytes that were
\* pending then.
Handed(o, s) == SubSeq(o, s + 1, Len(o))

LEMMA HandedFacts ==
  ASSUME NEW S, NEW o \in Seq(S), NEW s \in Nat
  PROVE  /\ Handed(o, s) \in Seq(S)
         /\ s <= Len(o) => Len(Handed(o, s)) = Len(o) - s
         /\ Len(o) <= s => Handed(o, s) = <<>>
         /\ \A i \in 1..(Len(o) - s) : Handed(o, s)[i] = o[s + i]
<1>1. PICK n \in Nat : n = Len(o)
  OBVIOUS
<1>2. PICK t : t = SubSeq(o, s + 1, n)
  OBVIOUS
<1>3. \A i \in (s + 1)..n : o[i] \in S
  BY <1>1
<1>4. /\ t \in Seq(S) /\ Len(t) = (IF s + 1 <= n THEN n - (s + 1) + 1 ELSE 0)
      /\ \A i \in 1..(n - (s + 1) + 1) : t[i] = o[(s + 1) + i - 1]
  BY <1>2, <1>3, SubSeqProperties
<1>5. n < s + 1 => t = <<>>
  BY <1>2, SubSeqEmpty
<1>6. \A i \in 1..(n - s) : t[i] = o[s + i]
  <2>1. SUFFICES ASSUME NEW i \in 1..(n - s) PROVE t[i] = o[s + i]
    OBVIOUS
  <2>2. i \in 1..(n - (s + 1) + 1) /\ (s + 1) + i - 1 = s + i
    OBVIOUS
  <2>3. QED BY <1>4, <2>2
<1>7. s <= n => Len(t) = n - s
  BY <1>4
<1>8. n <= s => t = <<>>
  BY <1>5
<1>9. Handed(o, s) = t
  BY <1>1, <1>2 DEF Handed
<1>10. QED BY <1>1, <1>4, <1>6, <1>7, <1>8, <1>9

LEMMA HandedMore ==
  ASSUME NEW S, NEW o \in Seq(S), NEW t \in Seq(S), NEW s \in Nat, s <= Len(o)
  PROVE  Handed(o \o t, s) = Handed(o, s) \o t
<1>1. PICK u \in Seq(S) : u = o \o t
  BY Concatenated
<1>2. /\ Len(u) = Len(o) + Len(t) /\ \A i \in 1..Len(o) : u[i] = o[i]
      /\ \A i \in 1..Len(t) : u[Len(o) + i] = t[i]
  BY <1>1, Concatenated
<1>3. PICK h \in Seq(S), g \in Seq(S) : h = Handed(o, s) /\ g = Handed(u, s)
  BY HandedFacts
<1>4. PICK n \in Nat, m \in Nat : n = Len(o) /\ m = Len(t)
  OBVIOUS
<1>5. /\ Len(h) = n - s /\ \A i \in 1..(n - s) : h[i] = o[s + i]
  BY <1>3, <1>4, HandedFacts
<1>6. /\ Len(g) = n + m - s /\ \A i \in 1..(n + m - s) : g[i] = u[s + i]
  <2>1. s <= Len(u) /\ Len(u) = n + m
    BY <1>2, <1>4
  <2>2. Len(g) = Len(u) - s /\ \A i \in 1..(Len(u) - s) : g[i] = u[s + i]
    BY <1>3, <2>1, HandedFacts
  <2>3. QED BY <2>1, <2>2
<1>7. PICK v \in Seq(S) : v = h \o t
  BY Concatenated
<1>8. /\ Len(v) = Len(h) + Len(t) /\ \A i \in 1..Len(h) : v[i] = h[i]
      /\ \A i \in 1..Len(t) : v[Len(h) + i] = t[i]
  BY <1>7, Concatenated
<1>9. Len(v) = Len(g)
  BY <1>4, <1>5, <1>6, <1>8
<1>10. ASSUME NEW i \in 1..Len(g) PROVE g[i] = v[i]
  <2>1. i \in Nat /\ i >= 1 /\ i <= n + m - s /\ g[i] = u[s + i]
    BY <1>6, <1>10
  <2>2. CASE i <= n - s
    <3>1. i \in 1..Len(h) /\ i \in 1..(n - s) /\ s + i \in 1..Len(o)
      BY <1>4, <1>5, <2>1, <2>2
    <3>2. QED BY <1>2, <1>5, <1>8, <2>1, <3>1
  <2>3. CASE ~(i <= n - s)
    <3>1. PICK j \in 1..Len(t) : i = (n - s) + j
      <4>1. i - (n - s) \in 1..Len(t) /\ i = (n - s) + (i - (n - s))
        BY <1>4, <2>1, <2>3
      <4>2. QED BY <4>1
    <3>2. s + i = Len(o) + j /\ i = Len(h) + j
      BY <1>4, <1>5, <3>1
    <3>3. QED BY <1>2, <1>8, <2>1, <3>2
  <2>4. QED BY <2>2, <2>3
<1>11. g = v
  BY <1>9, <1>10, SeqEqual
<1>12. QED BY <1>1, <1>3, <1>7, <1>11

\* The reference is the same one.
LEMMA SameOutcome ==
  ASSUME NEW S
  PROVE  Promise!Outcome(S) = Outcome(S)
BY DEF Promise!Outcome, Promise!OutcomeFrom, Promise!Width, Promise!Malformed,
       Promise!TooFarBack, Promise!ByteBits, Outcome, OutcomeFrom, Width, Malformed,
       TooFarBack, ByteBits

\* A promise about all streams and Resets, to be kept, asks that no match of a
\* stream that comes behind a Reset reaches back before its own text.
MatchesInText ==
  MaxResets = 0 \/ \A s \in Source : \A p \in DOMAIN s.elem : ~TooFarBack(s.elem[p])

\* How the reader looks to PlainReader.
MappedOut == SubSeq(out, stale + 1, Len(out))
MappedRet == [ret EXCEPT !.n = IF Len(out) > stale THEN @ ELSE 0]

LEMMA AlwaysTrusted ==
  ASSUME MatchesInText, TypeOK
  PROVE  Trusted
<1>1. src \in Source /\ resets \in 0..MaxResets /\ MaxResets \in Nat
  BY SizesOK DEF TypeOK
<1>2. CASE MaxResets = 0
  BY <1>1, <1>2 DEF Trusted
<1>3. CASE MaxResets # 0
  BY <1>1, <1>3 DEF MatchesInText, Trusted
<1>4. QED BY <1>2, <1>3

\* An error that the reader has met is the one that the stream ends with.
LEMMA ErrorEnds ==
  ASSUME PositionInv, TrackInv, ReaderInv, err \in {"EOF", "UnexpectedEOF", "Corrupt"}
  PROVE  Outcome(src) = [n |-> Produced, err |-> err]
<1>1. CASE err = "Corrupt"
  BY <1>1 DEF ReaderInv, EndsRight, Ends
<1>2. CASE err = "UnexpectedEOF"
  BY <1>2 DEF ReaderInv, EndsRight, Ends
<1>3. CASE err = "EOF"
  <2>1. phase = "Finish" /\ src \in Source
    BY <1>3 DEF ReaderInv, EndsRight, PositionInv, TypeOK
  <2>2. pc # "tail"
    BY <2>1 DEF PositionInv, Control
  <2>3. Sound
    BY <1>3, <2>2 DEF PositionInv, Control, Sound, Fatal
  <2>4. Pos = src.end /\ Produced = src.total
    BY <2>1, <2>3 DEF TrackInv, OnTrack, AfterBlock
  <2>5. OutcomeFrom(src, Pos) = Outcome(src)
    BY <2>3 DEF ReaderInv, OnPath
  <2>6. QED BY <1>3, <2>1, <2>4, <2>5, OutcomeAt
<1>4. QED BY <1>1, <1>2, <1>3

\* What Read may return as the error, with n bytes handed out altogether.
Reports(n, e) ==
  \/ e = "nil"
  \/ CanFail /\ e = "Fail"
  \/ n = Outcome(src).n /\ e = Outcome(src).err

\* A step of the promise that hands out bytes.
LEMMA HandStep ==
  ASSUME PositionInv, NEW k \in Nat, NEW e, ret.err = "nil", src' = src,
         Len(MappedOut) \in Nat, Len(MappedOut) + k <= Outcome(src).n,
         Reports(Len(MappedOut) + k, e),
         MappedRet' = [n |-> k, err |-> e],
         MappedOut' = MappedOut \o [j \in 1..k |-> src.plain[Len(MappedOut) + j - 1]]
  PROVE  Promise!Next
<1>1. src \in Source
  BY DEF PositionInv, TypeOK
<1>2. PICK o \in Outcomes : o = Outcome(src)
  BY <1>1, OutcomeType
<1>3. Promise!Outcome(src) = o
  BY <1>2, SameOutcome
<1>4. PICK h \in Nat, m \in Nat : h = Len(MappedOut) /\ m = o.n
  BY <1>2 DEF Outcomes
<1>5. h + k <= m
  BY <1>2, <1>4
<1>6. k \in 0..(m - h)
  BY <1>5
<1>7. k \in 0..(Promise!Outcome(src).n - Len(MappedOut))
  BY <1>3, <1>4, <1>6
<1>8. e \in {"nil", "EOF", "UnexpectedEOF", "Corrupt", "Fail"}
  BY <1>2 DEF Reports, Outcomes
<1>9. MappedRet.err = "nil"
  <2>1. ret \in [n : Nat, err : {"nil", "EOF", "UnexpectedEOF", "Corrupt", "Fail"}]
    BY DEF PositionInv, TypeOK
  <2>2. QED BY <2>1 DEF MappedRet
<1>10. e \in {"nil"} \cup (IF CanFail THEN {"Fail"} ELSE {})
                    \cup (IF Len(MappedOut) + k = Promise!Outcome(src).n
                          THEN {Promise!Outcome(src).err} ELSE {})
  BY <1>2, <1>3 DEF Reports
<1>11. Len(MappedOut) + k <= Promise!Outcome(src).n
  BY <1>2, <1>3
<1>12. Promise!Hand(k, e)
  BY <1>9, <1>10, <1>11 DEF Promise!Hand, MappedOut, MappedRet
<1>13. \E n \in 0..(Promise!Outcome(src).n - Len(MappedOut)),
          f \in {"nil", "EOF", "UnexpectedEOF", "Corrupt", "Fail"} : Promise!Hand(n, f)
  BY <1>7, <1>8, <1>12
<1>14. QED BY <1>13 DEF Promise!Next, MappedOut

LEMMA ReadErrorPromised ==
  ASSUME PositionInv, TrackInv, TextInv, ReaderInv, ReadError
  PROVE  Promise!Next
<1>1. /\ writePos = readPos /\ err # "nil" /\ ret' = [n |-> 0, err |-> err]
      /\ UNCHANGED <<src, out, stale>> /\ pc = "read"
  BY DEF ReadError
<1>2. ret \in [n : Nat, err : {"nil", "EOF", "UnexpectedEOF", "Corrupt", "Fail"}]
      /\ out \in Seq(Byte) /\ stale \in Nat
  BY DEF PositionInv, TypeOK
<1>3. MappedOut' = MappedOut /\ MappedRet' = [n |-> 0, err |-> err]
  BY <1>1 DEF MappedOut, MappedRet
<1>4. CASE ret.err # "nil"
  <2>1. ret.err = err
    BY <1>4 DEF ReaderInv, ErrorStays
  <2>2. MappedRet.err = err /\ MappedRet' = [MappedRet EXCEPT !.n = 0]
    BY <1>2, <1>3, <2>1 DEF MappedRet
  <2>3. Promise!Again
    BY <1>1, <1>3, <2>2 DEF Promise!Again, MappedOut, MappedRet
  <2>4. QED BY <2>3, Zenon DEF Promise!Next
<1>5. CASE ret.err = "nil"
  <2>1. ~(Len(out) < stale) /\ Len(out) \in Nat
    BY <1>1, <1>2, NotStale
  <2>2. MappedOut \in Seq(Byte) /\ Len(MappedOut) = Len(out) - stale
    BY <1>2, <2>1, HandedFacts DEF MappedOut, Handed
  <2>3. Len(MappedOut) = Produced /\ Produced \in Nat
    <3>1. Len(writeOverflow) = 0 /\ copyOverflowLength = 0
      BY <1>1, SeqFacts DEF PositionInv, Control
    <3>2. Produced = Len(out) - stale
      BY <1>1, <1>2, <2>1, <3>1, LengthFacts DEF Produced
    <3>3. QED BY <1>2, <2>1, <2>2, <3>2
  <2>4. Produced <= Outcome(src).n
    BY DEF ReaderInv, EndsRight
  <2>5. Reports(Len(MappedOut) + 0, err)
    <3>1. err \in {"nil", "EOF", "UnexpectedEOF", "Corrupt", "Fail"}
      BY DEF PositionInv, TypeOK
    <3>2. CASE err = "Fail"
      BY <3>2 DEF ReaderInv, EndsRight, Reports
    <3>3. CASE err \in {"EOF", "UnexpectedEOF", "Corrupt"}
      <4>1. Outcome(src) = [n |-> Produced, err |-> err]
        BY <3>3, ErrorEnds
      <4>2. QED BY <2>3, <4>1 DEF Reports
    <3>4. QED BY <1>1, <3>1, <3>2, <3>3
  <2>6. MappedOut' = MappedOut \o [j \in 1..0 |-> src.plain[Len(MappedOut) + j - 1]]
    <3>1. [j \in 1..0 |-> src.plain[Len(MappedOut) + j - 1]] = <<>>
      OBVIOUS
    <3>2. MappedOut \o <<>> = MappedOut
      BY <2>2
    <3>3. QED BY <1>3, <3>1, <3>2
  <2>7. Len(MappedOut) + 0 <= Outcome(src).n
    BY <2>3, <2>4
  <2>8. QED BY <1>1, <1>3, <1>5, <2>3, <2>5, <2>6, <2>7, HandStep
<1>6. QED BY <1>4, <1>5

\* What ReadDeliver hands out is the text.
LEMMA DeliversText ==
  ASSUME PositionInv, ReadDeliver, ~(Len(out) < stale), PlainPrefix',
         NEW num \in Nat, num <= writePos - readPos,
         out' = out \o [j \in 1..num |-> hist[readPos + j - 1]]
  PROVE  /\ Len(MappedOut) = Len(out) - stale /\ Len(out') = Len(out) + num
         /\ MappedOut' = MappedOut \o [j \in 1..num |-> src.plain[Len(MappedOut) + j - 1]]
<1>1. out \in Seq(Byte) /\ stale \in Nat /\ stale' = stale /\ src' = src
  BY DEF PositionInv, TypeOK, ReadDeliver
<1>2. PICK t \in Seq(Byte) : t = [j \in 1..num |-> hist[readPos + j - 1]] /\ Len(t) = num
  BY Pending
<1>3. out' = out \o t
  BY <1>2
<1>4. PICK n \in Nat, s \in Nat : n = Len(out) /\ s = stale
  BY <1>1
<1>5. s <= n
  BY <1>4
<1>6. MappedOut' = MappedOut \o t
  BY <1>1, <1>3, <1>4, <1>5, HandedMore DEF MappedOut, Handed
<1>7. Len(MappedOut) = n - s
  BY <1>1, <1>4, <1>5, HandedFacts DEF MappedOut, Handed
<1>8. Len(out') = n + num /\ \A j \in 1..num : out'[n + j] = t[j]
  BY <1>1, <1>2, <1>3, <1>4, Concatenated
<1>9. ASSUME NEW j \in 1..num PROVE t[j] = src.plain[Len(MappedOut) + j - 1]
  <2>1. n + j \in (s + 1)..(n + num)
    BY <1>5
  <2>2. out'[n + j] = src.plain[(n + j) - s - 1]
    BY <1>1, <1>4, <1>8, <2>1 DEF PlainPrefix
  <2>3. (n + j) - s - 1 = (n - s) + j - 1
    OBVIOUS
  <2>4. QED BY <1>7, <1>8, <2>2, <2>3
<1>10. t = [j \in 1..num |-> src.plain[Len(MappedOut) + j - 1]]
  <2>1. t = [j \in 1..num |-> t[j]]
    BY <1>2
  <2>2. QED BY <1>9, <2>1
<1>11. QED BY <1>4, <1>6, <1>7, <1>8, <1>10

LEMMA ReadDeliverPromised ==
  ASSUME PositionInv, TrackInv, TextInv, ReaderInv, ReadDeliver, PlainPrefix'
  PROVE  Promise!Next \/ UNCHANGED Promise!vars
<1> DEFINE num == MinOf(want, writePos - readPos)
           e == IF readPos + num = writePos THEN err ELSE "nil"
<1>1. /\ writePos > readPos /\ pc = "read" /\ UNCHANGED <<src, stale>>
      /\ out' = out \o [j \in 1..num |-> hist[readPos + j - 1]]
      /\ ret' = [n |-> num, err |-> e]
  BY DEF ReadDeliver
<1>2. num \in Nat /\ num <= writePos - readPos
  BY LengthFacts DEF MinOf, PositionInv, TypeOK
<1>3. /\ ret \in [n : Nat, err : {"nil", "EOF", "UnexpectedEOF", "Corrupt", "Fail"}]
      /\ out \in Seq(Byte) /\ stale \in Nat /\ Len(out) \in Nat
      /\ writePos \in Nat /\ readPos \in Nat
      /\ err \in {"nil", "EOF", "UnexpectedEOF", "Corrupt", "Fail"}
  BY LengthFacts DEF PositionInv, TypeOK
<1>4. ret.err = "nil"
  BY <1>1, <1>3 DEF ReaderInv, ErrorStays
<1>5. Len(out') = Len(out) + num
  <2>1. PICK t \in Seq(Byte) : t = [j \in 1..num |-> hist[readPos + j - 1]] /\ Len(t) = num
    BY <1>2, Pending
  <2>2. out' = out \o t
    BY <1>1, <2>1
  <2> HIDE DEF num
  <2>3. Len(out \o t) = Len(out) + Len(t)
    <3>1. PICK o \in Seq(Byte) : o = out
      BY <1>3
    <3>2. Len(o \o t) = Len(o) + Len(t)
      BY Concatenated
    <3>3. QED BY <3>1, <3>2
  <2>4. QED BY <2>1, <2>2, <2>3
<1> HIDE DEF num
<1>6. CASE Len(out) < stale
  <2>1. writePos - readPos = stale - Len(out) /\ err = "nil"
    BY <1>6 DEF TextInv, StaleFirst
  <2>2. Len(out') <= stale
    BY <1>2, <1>3, <1>5, <2>1
  <2>3. MappedOut = <<>>
    BY <1>3, <1>6, HandedFacts DEF MappedOut, Handed
  <2>4. MappedOut' = <<>>
    <3>1. out' \in Seq(Byte) \/ ~(out' \in Seq(Byte))
      OBVIOUS
    <3>2. Len(out') < stale + 1 /\ stale + 1 \in Int /\ Len(out') \in Int
      BY <1>2, <1>3, <1>5, <2>2
    <3>3. QED BY <1>1, <3>2, SubSeqEmpty DEF MappedOut
  <2>5. MappedRet = [n |-> 0, err |-> "nil"]
    BY <1>3, <1>4, <1>6 DEF MappedRet
  <2>6. MappedRet' = [n |-> 0, err |-> "nil"]
    <3>1. ~(Len(out') > stale)
      BY <1>2, <1>3, <1>5, <2>2
    <3>2. e = "nil"
      BY <2>1
    <3>3. ret' = [n |-> num, err |-> "nil"]
      BY <1>1, <3>2
    <3>4. stale' = stale
      BY <1>1
    <3>5. QED BY <3>1, <3>3, <3>4 DEF MappedRet
  <2>7. QED BY <1>1, <2>3, <2>4, <2>5, <2>6 DEF Promise!vars, MappedOut, MappedRet
<1>7. CASE ~(Len(out) < stale)
  <2>1. /\ Len(MappedOut) = Len(out) - stale
        /\ MappedOut' = MappedOut \o [j \in 1..num |-> src.plain[Len(MappedOut) + j - 1]]
    BY <1>1, <1>2, <1>7, DeliversText
  <2>2. MappedRet' = [n |-> num, err |-> e]
    <3>1. CASE num = 0
      BY <1>1, <3>1 DEF MappedRet
    <3>2. CASE num # 0
      <4>1. Len(out') > stale
        BY <1>2, <1>3, <1>5, <1>7, <3>2
      <4>2. QED BY <1>1, <4>1 DEF MappedRet
    <3>3. QED BY <3>1, <3>2
  <2>3. Produced \in Int /\ Produced = Len(MappedOut) + (writePos - readPos)
    <3>1. Len(writeOverflow) = 0 /\ copyOverflowLength = 0
      BY <1>1, SeqFacts DEF PositionInv, Control
    <3>2. QED BY <1>3, <2>1, <3>1 DEF Produced
  <2>4. Len(MappedOut) \in Nat
    BY <1>3, <1>7, <2>1
  <2>5. Produced <= Outcome(src).n /\ Outcome(src).n \in Nat
    BY OutcomeType DEF ReaderInv, EndsRight, PositionInv, TypeOK, Outcomes
  <2>6. Len(MappedOut) + num <= Outcome(src).n
    BY <1>2, <1>3, <2>3, <2>4, <2>5
  <2>7. Reports(Len(MappedOut) + num, e)
    <3>1. CASE readPos + num = writePos
      <4>1. Len(MappedOut) + num = Produced /\ e = err
        BY <1>2, <1>3, <2>3, <2>4, <3>1
      <4>2. CASE err = "Fail"
        BY <4>1, <4>2 DEF ReaderInv, EndsRight, Reports
      <4>3. CASE err \in {"EOF", "UnexpectedEOF", "Corrupt"}
        <5>1. Outcome(src) = [n |-> Produced, err |-> err]
          BY <4>3, ErrorEnds
        <5>2. QED BY <4>1, <5>1 DEF Reports
      <4>4. CASE err = "nil"
        BY <4>1, <4>4 DEF Reports
      <4>5. QED BY <1>3, <4>2, <4>3, <4>4
    <3>2. CASE readPos + num # writePos
      BY <3>2 DEF Reports
    <3>3. QED BY <3>1, <3>2
  <2> HIDE DEF e
  <2>8. QED BY <1>1, <1>2, <1>4, <2>1, <2>2, <2>4, <2>6, <2>7, HandStep
<1>8. QED BY <1>6, <1>7

LEMMA ResetPromised ==
  ASSUME PositionInv, NEW s \in Source, Reset(s)
  PROVE  Promise!Next
<1>1. /\ src' = s /\ out' = <<>> /\ stale' = writePos - readPos
      /\ ret' = [n |-> 0, err |-> "nil"]
  BY DEF Reset
<1>2. stale' \in Nat /\ Len(out') = 0
  BY <1>1, LengthFacts, SeqFacts
<1>3. MappedOut' = <<>>
  BY <1>1, <1>2, SubSeqEmpty DEF MappedOut
<1>4. MappedRet' = [n |-> 0, err |-> "nil"]
  BY <1>1, <1>2 DEF MappedRet
<1>5. Promise!Reset(s)
  BY <1>1, <1>3, <1>4 DEF Promise!Reset, MappedOut, MappedRet
<1>6. QED BY <1>5, Zenon DEF Promise!Next

LEMMA StepPromised ==
  ASSUME PositionInv, TrackInv, TextInv, ReaderInv, PlainPrefix', [Next]_vars
  PROVE  Promise!Next \/ UNCHANGED Promise!vars
<1>1. CASE \E s \in Source : Reset(s)
  BY <1>1, ResetPromised
<1>2. CASE ReadDeliver
  BY <1>2, ReadDeliverPromised
<1>3. CASE ReadError
  BY <1>3, ReadErrorPromised
<1>4. CASE ~(\E s \in Source : Reset(s)) /\ ~ReadDeliver /\ ~ReadError
  <2>1. UNCHANGED <<src, out, stale, ret>>
    BY <1>4 DEF Next, Client, Underlying, ReadLoop, Decode, CallRead, PeekFill,
                StepInput, StepPeek, PeekReturn, StepTail, DecodeDone, HeaderShort,
                HeaderRead, DecodeLiteralBlock, EntryShort, EntryBadSymbol, EntryLiterals,
                EntryMatch, clientVars, vars
  <2>2. MappedOut' = MappedOut /\ MappedRet' = MappedRet
    BY <2>1 DEF MappedOut, MappedRet
  <2>3. QED BY <2>1, <2>2 DEF Promise!vars, MappedOut, MappedRet
<1>5. QED BY <1>1, <1>2, <1>3, <1>4

\* What is in front of writePos is the text, whenever no match of a stream behind
\* a Reset reaches back before its own start.
THEOREM WindowHoldsText == MatchesInText => (Spec => []WindowIntact)
<1>1. ASSUME MatchesInText PROVE Spec => []WindowIntact
  <2>1. IInv => Trusted
    BY <1>1, AlwaysTrusted DEF IInv, PositionInv
  <2>2. QED BY <2>1, TrackCorrect, WindowAlwaysIntact, PTL
<1>2. QED BY <1>1

\* The decompressor keeps the promise of PlainReader: every Read hands out the
\* next bytes of the text and no other, the error it returns is the one that the
\* stream ends with, behind the last byte in front of it, and nothing comes after
\* (reader.go:107-230).
THEOREM KeepsReaderPromise == MatchesInText => (Spec => PlainReaderSpec)
<1>1. ASSUME MatchesInText PROVE Spec => PlainReaderSpec
  <2>1. Init => Promise!Init
    <3>1. SUFFICES ASSUME Init PROVE Promise!Init
      OBVIOUS
    <3>2. src \in Source /\ out = <<>> /\ stale = 0 /\ ret = [n |-> 0, err |-> "nil"]
      BY <3>1 DEF Init
    <3>3. Len(out) = 0 /\ stale + 1 \in Int /\ 0 \in Int /\ 0 < stale + 1
      BY <3>2, SeqFacts
    <3>4. MappedOut = <<>> /\ MappedRet = [n |-> 0, err |-> "nil"]
      BY <3>2, <3>3, SubSeqEmpty DEF MappedOut, MappedRet
    <3>5. QED BY <3>2, <3>4 DEF Promise!Init, MappedOut, MappedRet
  <2> DEFINE Inv == IInv /\ TextInv /\ ReaderInv /\ PlainPrefix
  <2>2. IInv /\ TextInv /\ (Trusted => ReaderInv) => Inv
    BY <1>1, AlwaysTrusted DEF IInv, PositionInv, TextInv
  <2>3. Inv /\ Inv' /\ [Next]_vars => [Promise!Next]_(Promise!vars)
    BY StepPromised DEF IInv
  <2>4. QED BY <2>1, <2>2, <2>3, ReaderCorrect, PTL DEF Spec, PlainReaderSpec, Promise!Spec
<1>2. QED BY <1>1
=============================================================================
