------------------------------ MODULE Inflate ------------------------------
(***************************************************************************)
(* The streaming decompressor of compress/flate: Read, step, decomperss,   *)
(* Reset (reader.go), readHeader and the bit register (inflate.go), and    *)
(* the decoding loops (decode.go), over a bufio.Reader and an underlying   *)
(* reader that delivers its bytes in pieces of any size.                   *)
(*                                                                         *)
(* What a compressed bit means is abstracted to the element of the stream  *)
(* that starts at its position (DeflateStream).  The 64-bit register is    *)
(* kept as the position of its first bit (bits) and its length (bitsLen);  *)
(* the input slice and the header buffer hold consecutive bytes, so they   *)
(* are kept as their lengths.  That register, header buffer and input hold *)
(* consecutive pieces of the stream is what Contiguous says.               *)
(***************************************************************************)
EXTENDS DeflateStream, FiniteSets

CONSTANTS
  RegBytes,      \* bytes of the register `bits`: 8
  HistorySize,   \* historySize: 32768
  LookAhead,     \* lookAhead: 288
  MaxHdrSize,    \* maxHdrSize: 328
  MaxCodeLen,    \* maxCodeLen: 15
  MaxMatch,      \* maxMatch: 258
  MaxSyms,       \* symbols packed into one table entry: 3
  BufSize,       \* rBuf.Size(): 4096 unless the client passed its own bufio.Reader
  Byte,          \* the values of a byte
  Source,        \* the streams a reader may be given
  ReadSizes,     \* len(b) of the client's Read calls
  MaxResets,     \* bound on the client's Reset calls
  DirtyReset,    \* may the client Reset while decompressed bytes are pending?
  CanFail        \* may the underlying reader fail?

ASSUME SizesOK ==
  /\ RegBytes \in Nat /\ MaxCodeLen \in Nat /\ MaxHdrSize \in Nat
  /\ HistorySize \in Nat \ {0} /\ MaxMatch \in Nat \ {0} /\ MaxSyms \in Nat \ {0}
  /\ LookAhead \in Nat /\ LookAhead >= MaxMatch + MaxSyms - 1
  /\ BufSize \in Nat /\ BufSize > RegBytes
  /\ ReadSizes \subseteq Nat /\ MaxResets \in Nat /\ 0 \in Byte
  /\ DirtyReset \in BOOLEAN /\ CanFail \in BOOLEAN

\* An entry fits what the register holds after a load.
ASSUME StreamsOK ==
  \A s \in Source :
    /\ WellFormed(s) /\ Repeats(s)
    /\ s.bytes \in Nat /\ s.end \in Nat /\ s.total \in Nat
    /\ DOMAIN s.elem \subseteq Nat /\ s.plain \in [0..(s.total - 1) -> Byte]
    /\ \A p \in DOMAIN s.elem :
         /\ ElementOK(s.elem[p], MaxHdrSize, MaxSyms, HistorySize, MaxMatch,
                      (RegBytes - 1) * ByteBits + 1)
         /\ s.elem[p].kind = "byte" => s.elem[p].o < s.total
         /\ s.elem[p].kind = "entry" => s.elem[p].o + s.elem[p].lits <= s.total

VARIABLES
  phase, bits, bitsLen, headerBuffered, litBlockLength, bfinal,
  writeOverflow, copyOverflowLength, copyOverflowDistance, roffset,
  inputNil, inputLen,                                   \* inflate
  hist, writePos, readPos, err, peekSize, eof,          \* decompressor
  base, got, uerr,                                      \* rBuf and its reader
  pc, want, derr, startBits, ret,                       \* the call in progress
  src, out, stale, resets                               \* history

inflateVars == <<phase, bits, bitsLen, headerBuffered, litBlockLength, bfinal,
                 writeOverflow, copyOverflowLength, copyOverflowDistance,
                 roffset, inputNil, inputLen>>
windowVars  == <<hist, writePos, readPos>>
bufVars     == <<base, got, uerr>>
clientVars  == <<want, ret, src, out, stale, resets>>
vars == <<inflateVars, windowVars, err, peekSize, eof, bufVars, pc, derr,
          startBits, clientVars>>

HistSize == 2 * HistorySize + LookAhead     \* len(historyBuffer)
HistIndex == 0..(HistSize - 1)

\* (A faulty Limit: the lookAhead zone counts as room.)
LimitWithZone == HistSize
\* len(output) in decomperss: historyBuffer without its lookAhead zone.
Limit == HistSize - LookAhead

Phases == {"NewBlock", "DecodingHeader", "LitBlock", "HeaderDecoded",
           "StreamEnd", "Finish"}

\* (A faulty Fatal: a distance that is too far is not among them.)
FatalInBlocks == {"InvalidBlock", "InvalidSymbol"}
\* isError: the errors of the stream itself.
Fatal == {"InvalidBlock", "InvalidSymbol", "InvalidLookBack"}

MinOf(a, b) == IF a < b THEN a ELSE b
CeilDiv(a, b) == (a + b - 1) \div b

-----------------------------------------------------------------------------
(* Positions in the stream.                                                *)

\* Whole bytes in the register.  rBuf keeps them until they are used up.
Held == bitsLen \div ByteBits

\* Offset in the stream of the next byte that goes into input.  A nil input
\* is refilled by Peek, from behind the bytes the register still holds.
NextByte == IF inputNil THEN base + Held
            ELSE base + peekSize - inputLen

\* Bit position of the next bit to decode.
Pos == IF bitsLen > 0 THEN bits ELSE (NextByte - headerBuffered) * ByteBits

\* Bytes of the plain text that have reached historyBuffer or its overflow.
Produced == Len(out) - stale + (writePos - readPos)
            + Len(writeOverflow) + copyOverflowLength

\* (A faulty HeaderInput: the buffered part of the header is forgotten.)
HeaderInputNew == MinOf(MaxHdrSize - headerBuffered, inputLen)
\* The input that readHeader lets tryDecodeHeader see, in bytes.
HeaderInput ==
  IF phase = "DecodingHeader"
  THEN headerBuffered + MinOf(MaxHdrSize - headerBuffered, inputLen)
  ELSE inputLen

\* (A faulty Loaded: it does not look how much input is left.)
LoadedAll(l, n) == RegBytes - CeilDiv(l, ByteBits)
\* How many bytes loadBits moves from n bytes of input into a register of
\* l bits.
Loaded(l, n) == MinOf(RegBytes - CeilDiv(l, ByteBits), n)

\* Register and input after loadBits; below the threshold it does nothing.
\* reg is a record [l |-> bits in the register, n |-> bytes of input].
LoadBits(reg, threshold) ==
  IF reg.l < threshold
  THEN [l |-> reg.l + Loaded(reg.l, reg.n) * ByteBits,
        n |-> reg.n - Loaded(reg.l, reg.n)]
  ELSE reg

Take(reg, b) == [l |-> reg.l - b, n |-> reg.n]

\* One byte short of a full register: 57 bits.
Refill(reg) == LoadBits(reg, (RegBytes - 1) * ByteBits + 1)

-----------------------------------------------------------------------------
(* The history buffer.                                                     *)

\* historyBuffer after the bytes val[0..n-1] are stored at index w.
Stored(h, w, n, val) ==
  [i \in HistIndex |-> IF i \in w..(w + n - 1) THEN val[i - w] ELSE h[i]]

\* byteCopy: n bytes at index w repeat the dist bytes before w.
ByteCopy(h, w, dist, n) ==
  [i \in HistIndex |->
     IF i \in w..(w + n - 1) THEN h[w - dist + ((i - w) % dist)] ELSE h[i]]

-----------------------------------------------------------------------------
Init ==
  /\ src \in Source
  /\ phase = "NewBlock" /\ bits = 0 /\ bitsLen = 0 /\ headerBuffered = 0
  /\ litBlockLength = 0 /\ bfinal = FALSE /\ writeOverflow = <<>>
  /\ copyOverflowLength = 0 /\ copyOverflowDistance = 0 /\ roffset = 0
  /\ inputNil = TRUE /\ inputLen = 0
  /\ hist = [i \in HistIndex |-> 0] /\ writePos = 0 /\ readPos = 0
  /\ err = "nil" /\ peekSize = 0 /\ eof = FALSE
  /\ base = 0 /\ got = 0 /\ uerr = "nil"
  /\ pc = "idle" /\ want = 0 /\ derr = "nil" /\ startBits = 0
  /\ ret = [n |-> 0, err |-> "nil"]
  /\ out = <<>> /\ stale = 0 /\ resets = 0

-----------------------------------------------------------------------------
(* The client.                                                             *)

CallRead(n) ==
  /\ pc = "idle"
  /\ pc' = "read" /\ want' = n
  /\ UNCHANGED <<inflateVars, windowVars, err, peekSize, eof, bufVars, derr,
                 startBits, ret, src, out, stale, resets>>

\* inflate.reset
ResetInflate ==
  /\ inputNil' = TRUE /\ inputLen' = 0 /\ bits' = 0 /\ bitsLen' = 0
  /\ phase' = "NewBlock" /\ bfinal' = FALSE /\ litBlockLength' = 0
  /\ writeOverflow' = <<>> /\ copyOverflowLength' = 0
  /\ copyOverflowDistance' = 0 /\ headerBuffered' = 0 /\ roffset' = 0

\* decompressor.Reset: everything but the history buffer and its two positions
\* starts anew.
Reset(s) ==
  /\ pc = "idle" /\ resets < MaxResets
  /\ DirtyReset \/ writePos = readPos
  /\ src' = s
  /\ base' = 0 /\ got' = 0 /\ uerr' = "nil"
  /\ peekSize' = 0 /\ eof' = FALSE /\ err' = "nil"
  /\ ResetInflate
  /\ out' = <<>> /\ stale' = writePos - readPos /\ resets' = resets + 1
  /\ ret' = [n |-> 0, err |-> "nil"]
  /\ UNCHANGED <<windowVars, pc, want, derr, startBits>>

-----------------------------------------------------------------------------
(* Read: hand out what is pending, else the error, else take a step.       *)

ReadDeliver ==
  /\ pc = "read" /\ writePos > readPos
  /\ LET num == MinOf(want, writePos - readPos) IN
       /\ readPos' = readPos + num
       /\ out' = out \o [j \in 1..num |-> hist[readPos + j - 1]]
       /\ ret' = [n |-> num,
                  err |-> IF readPos + num = writePos THEN err ELSE "nil"]
  /\ pc' = "idle"
  /\ UNCHANGED <<inflateVars, hist, writePos, err, peekSize, eof, bufVars,
                 want, derr, startBits, src, stale, resets>>

ReadError ==
  /\ pc = "read" /\ writePos = readPos /\ err # "nil"
  /\ ret' = [n |-> 0, err |-> err]
  /\ pc' = "idle"
  /\ UNCHANGED <<inflateVars, windowVars, err, peekSize, eof, bufVars, want,
                 derr, startBits, src, out, stale, resets>>

\* Where Read calls step.  The early return of step for phaseFinish is never
\* taken: the step that sets the phase also sets err.
StepCalled == pc = "read" /\ writePos = readPos /\ err = "nil"

\* (A faulty SlideFrom: as if the buffer were always filled to its limit.)
SlideFromLimit == HistorySize
\* Where the last HistorySize bytes of the output start.
SlideFrom == writePos - HistorySize

\* Slide the last HistorySize bytes to the front once the buffer is full,
\* note the start for rOffset, and enter decomperss.
EnterDecomperss(n) ==
  /\ IF writePos >= 2 * HistorySize
     THEN /\ hist' = [i \in HistIndex |->
                        IF i < HistorySize THEN hist[SlideFrom + i]
                        ELSE hist[i]]
          /\ writePos' = HistorySize /\ readPos' = HistorySize
     ELSE UNCHANGED windowVars      \* readPos = writePos already
  /\ startBits' = n * ByteBits + bitsLen
  /\ derr' = "nil"
  /\ pc' = "decode"

StepInput ==
  /\ StepCalled /\ phase # "Finish" /\ ~inputNil
  /\ EnterDecomperss(inputLen)
  /\ UNCHANGED <<inflateVars, err, peekSize, eof, bufVars, clientVars>>

StepPeek ==
  /\ StepCalled /\ phase # "Finish" /\ inputNil
  /\ pc' = "peek"
  /\ UNCHANGED <<inflateVars, windowVars, err, peekSize, eof, bufVars, derr,
                 startBits, clientVars>>

\* bufio.Reader.Peek(rBuf.Size()) reads on until the buffer is full or the
\* underlying reader reports something.
PeekFill(k, e) ==
  /\ pc = "peek" /\ got - base < BufSize /\ uerr = "nil"
  /\ k \in 0..MinOf(BufSize - (got - base), src.bytes - got)
  /\ e \in {"nil", "EOF"} \cup (IF CanFail THEN {"Fail"} ELSE {})
  /\ e = "EOF" => got + k = src.bytes
  /\ e = "nil" => k > 0
  /\ got' = got + k /\ uerr' = e
  /\ UNCHANGED <<inflateVars, windowVars, err, peekSize, eof, base, pc, derr,
                 startBits, clientVars>>

\* A short Peek takes the error of the underlying reader with it.
PeekReturn ==
  /\ pc = "peek"
  /\ got - base >= BufSize \/ uerr # "nil"
  /\ LET perr == IF got - base >= BufSize THEN "nil" ELSE uerr IN
       /\ uerr' = IF got - base >= BufSize THEN uerr ELSE "nil"
       /\ inputNil' = FALSE /\ peekSize' = got - base
       /\ IF perr = "Fail"
          THEN /\ err' = "Fail" /\ pc' = "read"
               /\ inputLen' = got - base
               /\ UNCHANGED <<windowVars, startBits, derr, eof>>
          ELSE /\ eof' = (perr = "EOF")
               /\ inputLen' = got - base - Held
               /\ EnterDecomperss(got - base - Held)
               /\ UNCHANGED err
  /\ UNCHANGED <<phase, bits, bitsLen, headerBuffered, litBlockLength, bfinal,
                 writeOverflow, copyOverflowLength, copyOverflowDistance,
                 roffset, base, got, clientVars>>

-----------------------------------------------------------------------------
(* decomperss, one turn of its loop per action.  What decodes next is the  *)
(* element that starts at Pos.                                             *)

Decoding(ph, kind) ==
  /\ pc = "decode" /\ phase \in ph
  /\ Pos \in DOMAIN src.elem /\ src.elem[Pos].kind = kind

\* The phase behind the last symbol of a block.
BlockDone(fin) == IF fin THEN "StreamEnd" ELSE "NewBlock"

\* decomperss leaves its loop on any error.
Leave(e) == derr' = e /\ pc' = IF e = "nil" THEN "decode" ELSE "tail"

DecodeDone ==
  /\ pc = "decode" /\ phase = "StreamEnd"
  /\ pc' = "tail"
  /\ UNCHANGED <<inflateVars, windowVars, err, peekSize, eof, bufVars, derr,
                 startBits, clientVars>>

\* readHeader without all the bits of the header: register back as it was,
\* input moved to headerBuffer.  BFINAL is read, and read again next time.
HeaderShort ==
  /\ Decoding({"NewBlock", "DecodingHeader"}, "hdr")
  /\ bitsLen + HeaderInput * ByteBits < src.elem[Pos].w
  /\ bfinal' = (bitsLen + HeaderInput * ByteBits > 0 /\ src.elem[Pos].final)
  /\ headerBuffered' = headerBuffered
                        + MinOf(MaxHdrSize - headerBuffered, inputLen)
  /\ inputLen' = 0
  /\ phase' = "DecodingHeader"
  /\ Leave("EndInput")
  /\ UNCHANGED <<bits, bitsLen, litBlockLength, writeOverflow,
                 copyOverflowLength, copyOverflowDistance, roffset, inputNil,
                 windowVars, err, peekSize, eof, bufVars, startBits, clientVars>>

\* readHeader with all of it.  The many loads of the header parser are one
\* choice: it leaves l bits in the register.
HeaderRead(l) ==
  /\ Decoding({"NewBlock", "DecodingHeader"}, "hdr")
  /\ LET e     == src.elem[Pos]
         avail == bitsLen + HeaderInput * ByteBits
     IN  /\ e.w <= avail
         /\ (Pos + e.w + l) % ByteBits = 0
         /\ bitsLen <= e.w + l /\ e.w + l <= avail
         /\ bits' = Pos + e.w /\ bitsLen' = l
         /\ inputLen' = inputLen
                        - ((e.w + l - bitsLen) \div ByteBits - headerBuffered)
         /\ headerBuffered' = 0
         /\ bfinal' = e.final
         /\ \/ /\ e.form = "stored" /\ Leave("nil")
               /\ phase' = "LitBlock" /\ litBlockLength' = e.len
            \/ /\ e.form = "huff" /\ Leave("nil")
               /\ phase' = "HeaderDecoded" /\ UNCHANGED litBlockLength
            \/ /\ e.form = "bad" /\ Leave("InvalidBlock")
               /\ UNCHANGED <<phase, litBlockLength>>
  /\ UNCHANGED <<writeOverflow, copyOverflowLength, copyOverflowDistance,
                 roffset, inputNil, windowVars, err, peekSize, eof, bufVars,
                 startBits, clientVars>>

\* decodeLiteralBlock: as many bytes as are left in the block, fit in the
\* output and are there, from the register first.
DecodeLiteralBlock ==
  /\ pc = "decode" /\ phase = "LitBlock"
  /\ LET rest  == Limit - writePos
         avail == Held + inputLen
         room  == MinOf(litBlockLength, rest)
         n     == IF room = 0 THEN 0 ELSE MinOf(room, avail)
         reg   == MinOf(n, Held)
     IN  /\ \A j \in 0..(n - 1) :
              /\ Pos + j * ByteBits \in DOMAIN src.elem
              /\ src.elem[Pos + j * ByteBits].kind = "byte"
         /\ phase' = IF n = litBlockLength THEN BlockDone(bfinal) ELSE "LitBlock"
         /\ Leave(IF room > 0 /\ room > avail THEN "EndInput"
                  ELSE IF litBlockLength > rest THEN "OutputOverflow" ELSE "nil")
         /\ litBlockLength' = litBlockLength - n
         /\ hist' = Stored(hist, writePos, n,
                           [j \in 0..(n - 1) |->
                              src.plain[src.elem[Pos + j * ByteBits].o]])
         /\ writePos' = writePos + n
         /\ bits' = Pos + n * ByteBits
         /\ bitsLen' = bitsLen - reg * ByteBits
         /\ inputLen' = inputLen - (n - reg)
  /\ UNCHANGED <<headerBuffered, bfinal, writeOverflow, copyOverflowLength,
                 copyOverflowDistance, roffset, inputNil, readPos, err,
                 peekSize, eof, bufVars, startBits, clientVars>>

-----------------------------------------------------------------------------
(* decodeHuffmanLargeLoop, one table entry per action.                     *)

\* The register at the top of the loop, after the literal/length code, after
\* the distance code and after the extra bits of the distance.
Reg1 == Refill([l |-> bitsLen, n |-> inputLen])
Reg2(e) == Take(Reg1, e.w)
Reg3(e) == Take(LoadBits(Reg2(e), MaxCodeLen + 1), e.dw)
Reg4(e) == Take(Refill(Reg3(e)), e.xw)

HasDist(e) == e.tail \in {"match", "baddist"}
Short(e) == Reg2(e).l < 0 \/ (HasDist(e) /\ (Reg3(e).l < 0 \/ Reg4(e).l < 0))

\* Literals of an entry that fit.
Fit(e) == MinOf(e.lits, Limit - writePos)
\* (A faulty Spill: the last literal that does not fit is lost.)
SpillOneLess(e) ==
  [j \in 1..(e.lits - Fit(e) - 1) |-> src.plain[e.o + Fit(e) + j - 1]]
\* The literals that do not fit, for writeOverflowLits.
Spill(e) == [j \in 1..(e.lits - Fit(e)) |-> src.plain[e.o + Fit(e) + j - 1]]
WithLiterals(e) ==
  Stored(hist, writePos, Fit(e), [j \in 0..(Fit(e) - 1) |-> src.plain[e.o + j]])

\* The bits of the entry are not all there: back to the top of the loop.
EntryShort ==
  /\ Decoding({"HeaderDecoded"}, "entry")
  /\ Short(src.elem[Pos])
  /\ bits' = Pos /\ bitsLen' = Reg1.l /\ inputLen' = Reg1.n
  /\ Leave("EndInput")
  /\ UNCHANGED <<phase, headerBuffered, litBlockLength, bfinal, writeOverflow,
                 copyOverflowLength, copyOverflowDistance, roffset, inputNil,
                 windowVars, err, peekSize, eof, bufVars, startBits, clientVars>>

\* No symbol has this code: nothing is taken.
EntryBadSymbol ==
  /\ Decoding({"HeaderDecoded"}, "entry")
  /\ src.elem[Pos].tail = "badsym" /\ ~Short(src.elem[Pos])
  /\ bits' = Pos /\ bitsLen' = Reg1.l /\ inputLen' = Reg1.n
  /\ Leave("InvalidSymbol")
  /\ UNCHANGED <<phase, headerBuffered, litBlockLength, bfinal, writeOverflow,
                 copyOverflowLength, copyOverflowDistance, roffset, inputNil,
                 windowVars, err, peekSize, eof, bufVars, startBits, clientVars>>

\* Literals, perhaps with the end of the block behind them.
EntryLiterals ==
  /\ Decoding({"HeaderDecoded"}, "entry")
  /\ LET e == src.elem[Pos] IN
       /\ e.tail \in {"none", "eob"} /\ ~Short(e)
       /\ bits' = Pos + e.w /\ bitsLen' = Reg2(e).l /\ inputLen' = Reg2(e).n
       /\ phase' = IF e.tail = "eob" THEN BlockDone(bfinal) ELSE phase
       /\ hist' = WithLiterals(e)
       /\ writePos' = writePos + Fit(e)
       /\ writeOverflow' = Spill(e)
       /\ Leave(IF Fit(e) < e.lits THEN "OutputOverflow" ELSE "nil")
  /\ UNCHANGED <<headerBuffered, litBlockLength, bfinal, copyOverflowLength,
                 copyOverflowDistance, roffset, inputNil, readPos, err,
                 peekSize, eof, bufVars, startBits, clientVars>>

\* Literals and a match behind them.
EntryMatch ==
  /\ Decoding({"HeaderDecoded"}, "entry")
  /\ LET e   == src.elem[Pos]
         w   == writePos + Fit(e)
         now == MinOf(e.len, Limit - w)
         bad == e.tail = "baddist" \/ w < e.dist
     IN  /\ HasDist(e) /\ ~Short(e)
         /\ bits' = Pos + Width(e)
         /\ bitsLen' = Reg4(e).l /\ inputLen' = Reg4(e).n
         /\ writeOverflow' = Spill(e)
         /\ IF bad
            THEN /\ Leave(IF e.tail = "baddist" THEN "InvalidSymbol"
                          ELSE "InvalidLookBack")
                 /\ hist' = WithLiterals(e) /\ writePos' = w
                 /\ UNCHANGED <<copyOverflowLength, copyOverflowDistance>>
            ELSE /\ hist' = ByteCopy(WithLiterals(e), w, e.dist, now)
                 /\ writePos' = w + now
                 /\ copyOverflowLength' = e.len - now
                 /\ copyOverflowDistance' = IF now < e.len THEN e.dist ELSE 0
                 /\ Leave(IF now < e.len THEN "OutputOverflow" ELSE "nil")
  /\ UNCHANGED <<phase, headerBuffered, litBlockLength, bfinal, roffset,
                 inputNil, readPos, err, peekSize, eof, bufVars, startBits,
                 clientVars>>

-----------------------------------------------------------------------------
(* The end of decomperss and of step.                                      *)

\* (A faulty Fails: the end of the file is waited out.)
FailsOnFatal(d) == d \in Fatal
\* The error d of decomperss ends the stream.
Fails(d) == d \in Fatal \/ (d = "EndInput" /\ eof)

\* (A faulty DiscardSize: the bytes in the register are discarded too.)
DiscardHeld == peekSize - inputLen
\* (A faulty DiscardSize: the byte that is partly used is kept.)
DiscardKeepsPart == peekSize - inputLen - CeilDiv(bitsLen, ByteBits)
\* discardSize: what is neither in input nor a whole byte of the register.
DiscardSize == peekSize - inputLen - Held

\* (A faulty GivesUpInput: an empty slice is kept.)
GivesUp(done) == Fails(derr) \/ done
\* The input slice is given up: at the end, or when it is used up.
GivesUpInput(done) == Fails(derr) \/ done \/ inputLen = 0

StepTail ==
  /\ pc = "tail"
  /\ LET w       == writePos + Len(writeOverflow)
         lits    == [j \in 0..(Len(writeOverflow) - 1) |-> writeOverflow[j + 1]]
         done    == ~Fails(derr) /\ phase = "StreamEnd"
                    /\ w + copyOverflowLength = readPos
         drop    == GivesUpInput(done)
     IN  /\ hist' = ByteCopy(Stored(hist, writePos, Len(writeOverflow), lits),
                             w, copyOverflowDistance, copyOverflowLength)
         /\ writePos' = w + copyOverflowLength
         /\ writeOverflow' = <<>> /\ copyOverflowLength' = 0
         /\ copyOverflowDistance' = 0
         /\ roffset' = roffset + (startBits - (inputLen * ByteBits + bitsLen))
                                  \div ByteBits
         /\ base' = IF drop /\ DiscardSize > 0 THEN base + DiscardSize ELSE base
         /\ inputNil' = drop
         /\ inputLen' = IF drop THEN 0 ELSE inputLen
         /\ phase' = IF done THEN "Finish" ELSE phase
         /\ err' = IF derr \in Fatal THEN "Corrupt"
                   ELSE IF Fails(derr) THEN "UnexpectedEOF"
                   ELSE IF done THEN "EOF" ELSE "nil"
  /\ pc' = "read" /\ derr' = "nil" /\ startBits' = 0
  /\ UNCHANGED <<bits, bitsLen, headerBuffered, litBlockLength, bfinal,
                 readPos, peekSize, eof, got, uerr, clientVars>>

-----------------------------------------------------------------------------
Client == (\E n \in ReadSizes : CallRead(n)) \/ (\E s \in Source : Reset(s))

Underlying == \E k \in 0..BufSize, e \in {"nil", "EOF", "Fail"} : PeekFill(k, e)

ReadLoop == ReadDeliver \/ ReadError \/ StepInput \/ StepPeek
            \/ PeekReturn \/ StepTail

Decode == DecodeDone \/ HeaderShort
          \/ (\E l \in 0..(RegBytes * ByteBits) : HeaderRead(l))
          \/ DecodeLiteralBlock
          \/ EntryShort \/ EntryBadSymbol \/ EntryLiterals \/ EntryMatch

Next == Client \/ Underlying \/ ReadLoop \/ Decode

Spec == Init /\ [][Next]_vars

\* A call runs on by itself; the underlying reader answers every call.
Runs == WF_vars(ReadLoop \/ Decode) /\ WF_vars(Underlying)

\* The client also reads on, if only now and then into a buffer with room.
KeepsReading == SF_vars(\E n \in ReadSizes \ {0} : CallRead(n))

RunSpec == Spec /\ Runs
FairSpec == Spec /\ Runs /\ KeepsReading

-----------------------------------------------------------------------------
(* Properties.                                                             *)

\* The fields of decompressor keep to their ranges, the offset of input
\* inside what Peek returned and the window inside historyBuffer.
TypeOK ==
  /\ src \in Source
  /\ phase \in Phases
  /\ bits \in Nat /\ bitsLen \in 0..(RegBytes * ByteBits)
  /\ headerBuffered \in 0..MaxHdrSize
  /\ litBlockLength \in Nat /\ bfinal \in BOOLEAN
  /\ writeOverflow \in Seq(Byte) /\ Len(writeOverflow) <= MaxSyms
  /\ copyOverflowLength \in 0..MaxMatch
  /\ copyOverflowDistance \in 0..HistorySize /\ roffset \in Nat
  /\ inputNil \in BOOLEAN /\ inputLen \in 0..BufSize
  /\ hist \in [HistIndex -> Byte]
  /\ readPos \in 0..writePos /\ writePos \in 0..HistSize
  /\ err \in {"nil", "EOF", "UnexpectedEOF", "Corrupt", "Fail"}
  /\ peekSize \in 0..BufSize /\ eof \in BOOLEAN
  /\ base \in Nat /\ got \in base..(base + BufSize)
  /\ uerr \in {"nil", "EOF", "Fail"}
  /\ pc \in {"idle", "read", "peek", "decode", "tail"}
  /\ want \in Nat /\ startBits \in Nat
  /\ derr \in Fatal \cup {"nil", "EndInput", "OutputOverflow"}
  /\ ret \in [n : Nat, err : {"nil", "EOF", "UnexpectedEOF", "Corrupt", "Fail"}]
  /\ out \in Seq(Byte)
  /\ stale \in Nat /\ resets \in 0..MaxResets

\* No stream error has been met: positions mean something.
Sound == err \in {"nil", "EOF", "UnexpectedEOF"} /\ derr \notin Fatal

\* Register, header buffer and input hold consecutive bytes of the stream,
\* through refills, the header parser's rollback, Discard and the next Peek
\* (the arithmetic of reader.go:140, 160 and 180, inflate.go:279-290).
Contiguous ==
  err # "Fail" /\ bitsLen > 0 =>
    bits + bitsLen = (NextByte - headerBuffered) * ByteBits

\* The decoder is where its phase says it is in the stream, and the bytes
\* produced so far are exactly those that come before that point.
OnTrack ==
  Sound =>
    /\ phase \in {"NewBlock", "DecodingHeader"} =>
         AfterBlock(src, Pos, Produced, FALSE)
    /\ phase = "LitBlock" =>
         StoredRun(src, Pos, litBlockLength, Produced, bfinal)
    /\ phase = "HeaderDecoded" => EntryAt(src, Pos, Produced, bfinal)
    /\ phase \in {"StreamEnd", "Finish"} => AfterBlock(src, Pos, Produced, TRUE)

\* The last HistorySize bytes of the output, the ones a match may refer to,
\* are still in the history buffer in front of writePos.
WindowIntact ==
  LET produced == Len(out) - stale + writePos - readPos IN
    /\ produced < HistorySize => writePos >= produced
    /\ \A k \in 1..MinOf(produced, HistorySize) :
         hist[writePos - k] = src.plain[produced - k]

\* What a lookup finds when the output is full fits behind the output limit,
\* in the lookAhead zone where decomperss puts it.
SpillFits ==
  writePos + Len(writeOverflow) + copyOverflowLength <= HistSize

\* decomperss asks for more input only with all of it used, so that step
\* drops the slice and Peeks again: otherwise Read would spin.
AskedWhenEmpty == derr = "EndInput" => inputLen = 0

\* A header that is not complete is kept whole.
HeaderKept == phase = "DecodingHeader" /\ Sound =>
  bitsLen + headerBuffered * ByteBits < src.elem[Pos].w

\* After the last byte the reader has taken from its bufio.Reader exactly the
\* bytes of the stream, so gzip and zlib find their trailer there.
LeftBehindStream == err = "EOF" => base = CeilDiv(src.end, ByteBits)

\* The decompressor is a plain reader: the plain text in order, then the one
\* right error, and nothing after it.  What was pending when the client called
\* Reset, `stale' bytes, is left out: FreshAfterReset is about that.
Promise == INSTANCE PlainReader
             WITH out <- SubSeq(out, stale + 1, Len(out)),
                  ret <- [ret EXCEPT !.n = IF Len(out) > stale THEN @ ELSE 0]
PlainReaderSpec == Promise!Spec

\* After Reset only bytes of the new stream are handed out, as zlib's Resetter
\* says (zlib/reader.go:67).  See the run inflate_reset_stale.
FreshAfterReset ==
  \A j \in 1..Len(out) : j <= src.total /\ out[j] = src.plain[j - 1]

\* What the calls in progress leave to each other.
Control ==
  /\ pc \in {"peek", "decode", "tail"} => err = "nil"
  /\ pc \in {"decode", "tail"} =>
       /\ ~inputNil /\ phase # "Finish" /\ writePos <= Limit
       /\ startBits >= inputLen * ByteBits + bitsLen
  /\ pc = "peek" => inputNil /\ phase # "Finish" /\ writePos = readPos
  /\ pc # "tail" =>
       derr = "nil" /\ writeOverflow = <<>> /\ copyOverflowLength = 0
  /\ Len(writeOverflow) + copyOverflowLength <= LookAhead
  /\ copyOverflowLength > 0 => copyOverflowDistance > 0 /\ writePos = Limit
  /\ inputNil => inputLen = 0
  /\ ~inputNil => inputLen <= peekSize /\ base + peekSize <= got
  /\ phase # "DecodingHeader" => headerBuffered = 0
  /\ phase = "LitBlock" => bitsLen % ByteBits = 0
  /\ AskedWhenEmpty

\* rBuf still holds every byte whose bits are in the register, and all that
\* is in input.
Retained == err # "Fail" => base + Held <= NextByte /\ NextByte <= got

\* Where the reader is once the stream has ended.
Left == phase = "Finish" \/ err = "EOF" => base = CeilDiv(src.end, ByteBits)

\* PositionInv is the inductive invariant of the proofs; IInv is what is needed to
\* follow the decoder's track as well.
PositionInv == TypeOK /\ Control /\ Contiguous /\ Retained /\ HeaderKept
TrackInv == OnTrack /\ Left
IInv == PositionInv /\ TrackInv

\* Bytes of the plain text that have reached historyBuffer.
Written == Len(out) - stale + (writePos - readPos)

\* In front of index w the buffer h holds the plain text up to offset o, as far
\* back as its start.
Holds(h, w, o) == \A k \in 1..MinOf(o, w) : h[w - k] = src.plain[o - k]

\* A match that reaches back too far is told from the first byte of the history
\* buffer, which a Reset leaves as it is: behind one it goes unnoticed, and
\* repeats bytes of the stream before.
Trusted == resets = 0 \/ \A p \in DOMAIN src.elem : ~TooFarBack(src.elem[p])

\* What WindowIntact rests on: how far the window reaches back, and what is in
\* the buffer, in the two overflows and in the hands of the client.
WindowReach ==
  /\ Written \in Nat
  /\ writePos >= MinOf(Written, HistorySize)
  /\ resets = 0 => stale = 0 /\ (Written < HistorySize => writePos = Written)
WindowText ==
  /\ Holds(hist, writePos, Written)
  /\ \A j \in 1..Len(writeOverflow) : writeOverflow[j] = src.plain[Written + j - 1]
  /\ LET m == Written + Len(writeOverflow) IN
       copyOverflowLength > 0 =>
         /\ copyOverflowDistance <= m
         /\ \A x \in m..(m + copyOverflowLength - 1) :
              src.plain[x] = src.plain[x - copyOverflowDistance]

\* Pending bytes of the stream before come first, and come alone.
StaleFirst ==
  Len(out) < stale => /\ writePos - readPos = stale - Len(out)
                      /\ pc \in {"idle", "read"} /\ err = "nil" /\ ret.err = "nil"

\* What the client has got of this stream is the plain text, in order.
PlainPrefix == \A j \in (stale + 1)..Len(out) : out[j] = src.plain[j - stale - 1]

TextInv == WindowReach /\ StaleFirst /\ (Trusted => WindowText /\ PlainPrefix)

\* What the promise of PlainReader rests on: reading on from here has the outcome
\* of the whole stream, an error is its outcome, and the client keeps the error.
OnPath == Sound => OutcomeFrom(src, Pos) = Outcome(src)
Ends(e) == Outcome(src) = [n |-> Produced, err |-> e]
EndsRight ==
  /\ Produced <= Outcome(src).n
  /\ derr \in Fatal \/ err = "Corrupt" => Ends("Corrupt")
  /\ (derr = "EndInput" /\ eof) \/ err = "UnexpectedEOF" => Ends("UnexpectedEOF")
  /\ err = "EOF" => phase = "Finish"
  /\ err = "Fail" \/ uerr = "Fail" => CanFail
InputEnds ==
  /\ got <= src.bytes
  /\ eof \/ uerr = "EOF" => got = src.bytes
  /\ ~inputNil => base + peekSize = got
ErrorStays == ret.err # "nil" => ret.err = err /\ writePos = readPos

ReaderInv == OnPath /\ EndsRight /\ InputEnds /\ ErrorStays

\* Read returns.
ReadReturns == pc # "idle" ~> pc = "idle"

\* A client that keeps reading gets to the end of every stream.
StreamEnds == <>(ret.err # "nil")
=============================================================================
