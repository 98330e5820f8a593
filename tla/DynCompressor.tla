--------------------------- MODULE DynCompressor ---------------------------
(***************************************************************************)
(* The compressor of levels 1 and 2: a sliding window, LZ77 with a hash    *)
(* table of 16-bit positions, and dynamic Huffman blocks of a bounded      *)
(* number of tokens.                                                       *)
(*                                                                         *)
(* The window is [history][resolved][unresolved]: idx counts the bytes for *)
(* which there are tokens.  Which code lengths the Huffman code gives to   *)
(* the symbols of a block is left open (their widths are inputs); whether  *)
(* a symbol has a code at all is not: it has one when the histogram counts *)
(* it.                                                                     *)
(***************************************************************************)
EXTENDS DeflateWriter, FiniteSetsExt

CONSTANTS
  WindowSize,          \* 4096 or 32768
  MaxMatch, MinMatch,  \* 258 and 4
  Word,                \* bytes that a load of 64 bits takes (8)
  Updates,             \* positions of a match that enter the table (3)
  PosMod,              \* table entries are uint16 (65536)
  MaxTokens,           \* maxTokenSize, 32767
  OutBits,             \* 8 times the size of output
  Hash(_),             \* hash4, masked, of the MinMatch bytes at a position
  Slots,               \* its values
  HdrWidths, LitWidths, DistWidths, \* widths of block headers and codes
  Builds,              \* the code that differs between builds: see build
  DirtyReset           \* do clients Reset a Writer they have not closed?

VARIABLES
  window,              \* buffer[:end]
  idx, processed,      \* resolved bytes: in the window, and of the stream
  table,               \* hash -> position mod PosMod
  tokens, tk,          \* tokens of the block; how many are encoded
  hist,                \* the symbols that the histogram counts
  last,                \* is the block under way the last?
  code,                \* the widths of its codes
  build                \* which build this is

dynVars == <<window, idx, processed, table, tokens, tk, hist, last, code>>
vars == <<apiVars, buf, dynVars, build>>

\* Does generate always resolve the last Word bytes?  (Level 2 on amd64.)
EagerTail == build = "amd64"
\* Does each call of the token encoder begin with Sync?  (amd64.)
SyncFirst == build = "amd64"

\* (A faulty Capacity, with the length of the shortest match.)
CapacityShort == 2 * WindowSize + MinMatch
Capacity == 2 * WindowSize + MaxMatch
End == Len(window)
Flushing == call \in {"flush", "close"}
Final == call = "close"

InitDyn ==
  /\ window = <<>> /\ idx = 0 /\ processed = 0
  /\ table = [s \in Slots |-> 0]
  /\ tokens = <<>> /\ tk = 0 /\ hist = {} /\ last = FALSE
  /\ code = [lit |-> 0, dist |-> 0]
  /\ build \in Builds

Init == WriterInit /\ InitDyn

(***************************************************************************)
(* Tokens and symbols                                                      *)
(***************************************************************************)
Lit(c) == [len |-> 0, lit |-> c, dist |-> 0]
Match(l, d) == [len |-> l, lit |-> 0, dist |-> d]
EobToken == [len |-> 0, lit |-> 256, dist |-> 0]

\* getDistSymbol: the symbol, and how many extra bits come with it.
DistSymbol(d) ==
  IF d <= 2 THEN [sym |-> d - 1, extra |-> 0]
  ELSE LET x == CHOOSE n \in 0..13 : 2 ^ (n + 1) <= d - 1 /\ d - 1 < 2 ^ (n + 2)
       IN  [sym |-> ((d - 1) \div 2 ^ x) + 2 * x, extra |-> x]

LitSymbol(t) == <<"lit", IF t.len > 0 THEN t.len + 254 ELSE t.lit>>
\* (A faulty Symbols: distances are not counted.)
SymbolsOfLengths(t) == {LitSymbol(t)}
Symbols(t) ==
  {LitSymbol(t)} \cup (IF t.len > 0 THEN {<<"dist", DistSymbol(t.dist).sym>>} ELSE {})

\* The keys of the hash table are the MinMatch bytes at any place of the data.
ASSUME DynAssumption ==
  /\ {WindowSize, MaxMatch, MinMatch, Word, Updates, PosMod, MaxTokens} \subseteq Nat
  /\ 1 <= MinMatch /\ MinMatch < Word /\ Word < MaxMatch /\ MaxMatch < WindowSize
  /\ MaxMatch <= 258
  /\ Updates <= MinMatch /\ Updates - 1 + MinMatch <= Word
  /\ 2 * WindowSize <= PosMod
  /\ \A t \in Texts : \A i \in 0..(Len(t) - MinMatch) :
       Hash(SubSeq(t, i + 1, i + MinMatch)) \in Slots
  /\ DirtyReset \in BOOLEAN

\* The codes of a token fit in the register, and a header leaves room in output.
ASSUME WidthAssumption ==
  /\ OutBits \in Nat /\ OutBits % 8 = 0 /\ 5 * RegBits <= OutBits
  /\ HdrWidths \cup LitWidths \cup DistWidths \subseteq Nat \ {0}
  /\ \A w \in HdrWidths : w <= RegBits /\ w + 2 * RegBits < OutBits - 2 * RegBits
  /\ \A l \in LitWidths, d \in DistWidths, n \in 1..WindowSize :
       DistSymbol(n).extra \in Nat /\ l + d + DistSymbol(n).extra <= RegBits

(***************************************************************************)
(* Accumulate                                                              *)
(***************************************************************************)
\* (A faulty SlideBy, which keeps a byte less.)
SlideByMore == IF idx >= 2 * WindowSize THEN idx - WindowSize + 1 ELSE 0

\* The last WindowSize resolved bytes stay when the window is full.
SlideBy == IF idx >= 2 * WindowSize THEN idx - WindowSize ELSE 0

Accumulate ==
  LET kept == SubSeq(window, SlideBy + 1, End)
      n    == Min({todo, Capacity - Len(kept)})
  IN
  /\ pc = "loop" /\ todo > 0
  /\ window' = kept \o NextData(n)
  /\ idx' = idx - SlideBy
  /\ todo' = todo - n
  /\ pc' = IF Len(kept) + n < Capacity THEN "loop" ELSE "compress"
  /\ UNCHANGED <<call, werr, buf, remote, clientVars>>
  /\ UNCHANGED <<processed, table, tokens, tk, hist, last, code>>

(***************************************************************************)
(* compressBlock and generate                                              *)
(***************************************************************************)
\* The byte at an offset of the window, and the bytes from it on.
At(i) == window[i + 1]
Slot(i) == Hash(SubSeq(window, i + 1, i + MinMatch))

\* Positions i, i + 1, ... enter the table.
Entered(tab, i, n) ==
  LET f[j \in 0..n] ==
        IF j = 0 THEN tab
        ELSE [f[j - 1] EXCEPT ![Slot(i + j - 1)] =
                (processed - idx + i + j - 1) % PosMod]
  IN f[n]

\* Length of the common prefix of the bytes at offsets p and i, at most n.
Common(p, i, n) ==
  Max({m \in 0..n : \A j \in 0..(m - 1) : At(p + j) = At(i + j)})

\* (A faulty MatchLength: compare() does not look at the bytes.)
MatchLengthUnseen(p, i) ==
  LET rest == End - Word - i - Word IN
  IF Common(p, i, Word) < Word THEN Common(p, i, Word)
  ELSE Word + (IF rest < Word THEN 0 ELSE rest)

\* One load compares Word bytes; compare() goes on in front of the last Word,
\* if another load fits there.
MatchLength(p, i) ==
  LET rest == End - Word - i - Word IN
  IF Common(p, i, Word) < Word THEN Common(p, i, Word)
  ELSE Word + (IF rest < Word THEN 0 ELSE Common(p + Word, i + Word, rest))

Distance == (processed - table[Slot(idx)]) % PosMod
\* (A faulty InWindow, without the bound of the window.)
InTable == Distance >= 1
InWindow == Distance >= 1 /\ Distance <= WindowSize

Generating == pc = "compress" /\ ~(Final /\ End = 0)

\* n bytes more are resolved, by tokens that end with t.
Resolve(n, ts) ==
  /\ idx' = idx + n /\ processed' = processed + n
  /\ tokens' = tokens \o ts
  /\ hist' = hist \cup UNION {Symbols(ts[i]) : i \in DOMAIN ts}
  /\ pc' = IF Len(tokens') > MaxTokens THEN "block" ELSE pc
  /\ UNCHANGED <<call, todo, werr, buf, remote, clientVars, window, tk, last, code>>

\* No match: a literal.
GenLiteral ==
  /\ Generating /\ idx < End - Word
  /\ ~(InWindow /\ MatchLength(idx - Distance, idx) >= MinMatch)
  /\ table' = Entered(table, idx, 1)
  /\ Resolve(1, <<Lit(At(idx))>>)

\* Longest matches, as long as more than one's worth is left and there is room,
\* which is looked at behind each.
LongCount(m) ==
  Min({(m - 1) \div MaxMatch, Max({1, MaxTokens + 1 - Len(tokens)})})

\* A match of length m.  What is left of it after longest matches is shorter; a
\* rest of less than MinMatch ends in a literal.
Matched(m) ==
  LET k    == IF m > MaxMatch THEN LongCount(m) ELSE 0
      rest == m - k * MaxMatch
      long == [i \in 1..k |-> Match(MaxMatch, Distance)]
      full == k > 0 /\ Len(tokens) + k > MaxTokens
      at   == idx + k * MaxMatch
  IN
  \/ /\ full
     /\ table' = Entered(table, idx, Updates)
     /\ Resolve(k * MaxMatch, long)
  \/ /\ ~full /\ rest >= MinMatch
     /\ table' = Entered(IF k > 0 THEN Entered(table, idx, Updates) ELSE table,
                         at, Updates)
     /\ Resolve(m, Append(long, Match(rest, Distance)))
  \/ /\ ~full /\ rest < MinMatch
     /\ table' = Entered(table, idx, Updates)
     /\ Resolve(k * MaxMatch + 1, Append(long, Lit(At(at))))

\* (m ranges over one length, so that TLC computes it once.)
GenMatch ==
  /\ Generating /\ idx < End - Word /\ InWindow
  /\ \E m \in {MatchLength(idx - Distance, idx)} : m >= MinMatch /\ Matched(m)

\* The last Word bytes, when they have to be resolved too.
GenTail ==
  /\ Generating /\ idx >= End - Word /\ idx < End
  /\ Flushing \/ EagerTail
  /\ Resolve(1, <<Lit(At(idx))>>)
  /\ UNCHANGED table

\* generate has resolved what it can.
Generated ==
  /\ Generating /\ idx >= End - Word
  /\ idx = End \/ ~(Flushing \/ EagerTail)
  /\ pc' = IF Len(tokens) < MaxTokens /\ ~Flushing THEN "loop" ELSE "block"
  /\ UNCHANGED <<call, todo, werr, buf, remote, clientVars, dynVars>>

(***************************************************************************)
(* encodeBlock                                                             *)
(***************************************************************************)
\* (A faulty Last: every block of Close is the last.)
LastOfClose == Final
Last == Final /\ idx = End

\* What a call of the token encoder starts from.
Entering(b) == IF SyncFirst THEN Sync(b) ELSE b

\* The codes of the block: the histogram becomes the code table.
BlockHeader(h, l, d) ==
  /\ pc = "block"
  /\ last' = Last
  /\ tokens' = Append(tokens, EobToken) /\ tk' = 0
  /\ hist' = hist \cup {LitSymbol(EobToken)}
  /\ code' = [lit |-> l, dist |-> d]
  /\ buf' = Entering(WriteBit(WriteBit(Rewound(buf),
                                       <<IF last' THEN 1 ELSE 0, 0, 1>>),
                              Field(h, Codes)))
  /\ pc' = "tokens"
  /\ UNCHANGED <<call, todo, werr, remote, clientVars, window, idx, processed, table>>

\* A symbol without a code has no bits.
CodeOf(sym, width, bit) == IF sym \in hist THEN Field(width, bit) ELSE <<>>

WriteToken(b, t) ==
  IF t.len = 0
  THEN WriteBit(b, CodeOf(LitSymbol(t), code.lit,
                          IF t = EobToken THEN EndOfBlock ELSE LitBit(t.lit)))
  ELSE LET d == DistSymbol(t.dist)
           sym == <<"dist", d.sym>>
           bit == DistBit(t.dist)
       IN WriteBit(WriteBit(WriteBit(b, CodeOf(LitSymbol(t), code.lit, LenBit(t.len))),
                            CodeOf(sym, code.dist, IF d.extra = 0 THEN bit ELSE Part)),
                   Field(d.extra, IF sym \in hist THEN bit ELSE Part))

\* (A faulty OutputFull, which leaves one register.)
OutputFullLate(b) == Len(b.out) >= OutBits - RegBits
OutputFull(b) == Len(b.out) >= OutBits - 2 * RegBits

\* One round of encodeTokens; it stops when output is full up to two registers.
EncodeToken ==
  LET b == WriteToken(buf, tokens[tk + 1])
      done == tk + 1 = Len(tokens)
  IN
  /\ pc = "tokens"
  /\ tk' = tk + 1
  /\ buf' = IF done /\ last THEN FlushLastByte(b) ELSE b
  /\ pc' = IF done \/ OutputFull(b) THEN "out" ELSE "tokens"
  /\ UNCHANGED <<call, todo, werr, remote, clientVars>>
  /\ UNCHANGED <<window, idx, processed, table, tokens, hist, last, code>>

\* A part of a block, or the whole, has been taken.
BlockTaken ==
  /\ pc = "out" /\ tk > 0
  /\ SinkTakes
  /\ buf' = IF tk < Len(tokens) THEN Entering(Rewound(buf))
            ELSE IF idx = End /\ call = "flush" THEN WriteEmptyBlock(Rewound(buf), 0)
            ELSE Rewound(buf)
  /\ IF tk < Len(tokens)
     THEN pc' = "tokens" /\ UNCHANGED <<tokens, tk, hist>>
     ELSE /\ tokens' = <<>> /\ tk' = 0 /\ hist' = {}
          /\ pc' = IF idx < End THEN "compress"
                   ELSE [write |-> "loop", flush |-> "out", close |-> "done"][call]
  /\ UNCHANGED <<call, todo, werr, text, given, ret, resets, flushes>>
  /\ UNCHANGED <<window, idx, processed, table, last, code>>

\* Close of a compressor that was given nothing.
CloseEmpty ==
  /\ pc = "compress" /\ Final /\ End = 0
  /\ buf' = WriteEmptyBlock(buf, 1)
  /\ pc' = "out"
  /\ UNCHANGED <<call, todo, werr, remote, clientVars, dynVars>>

\* The empty block that ends Flush, or an empty stream, has been taken.
EmptyBlockTaken ==
  /\ pc = "out" /\ tk = 0
  /\ SinkTakes
  /\ buf' = IF call = "flush" THEN Rewound(buf) ELSE buf
  /\ pc' = "done"
  /\ UNCHANGED <<call, todo, werr, text, given, ret, resets, flushes, dynVars>>

\* The underlying writer fails; the tokens stay.
OutFails ==
  /\ pc = "out"
  /\ \E n \in {0, Len(buf.out) \div 16} : SinkFails(n)
  /\ buf' = IF tk = 0 /\ call = "flush" THEN Rewound(buf) ELSE buf
  /\ tk' = 0
  /\ UNCHANGED <<window, idx, processed, table, tokens, hist, last, code>>

(***************************************************************************)
(* Reset: the tokens stay.                                                 *)
(***************************************************************************)
Reset(t) ==
  /\ DirtyReset \/ tokens = <<>>
  /\ ResetWriter(t)
  /\ window' = <<>> /\ idx' = 0 /\ processed' = 0
  /\ table' = [s \in Slots |-> 0] /\ hist' = {}
  /\ UNCHANGED <<tokens, tk, last, code>>

Call ==
  /\ UNCHANGED build
  /\ \/ \E n \in WriteSizes : CallWrite(n) /\ UNCHANGED dynVars
     \/ CallFlush /\ UNCHANGED dynVars
     \/ CallClose /\ UNCHANGED dynVars
     \/ \E c \in {"write", "flush", "close"} : CallAfterError(c) /\ UNCHANGED dynVars
     \/ \E t \in Texts : Reset(t)

Work ==
  /\ UNCHANGED build
  /\ \/ Accumulate
     \/ (ReturnNil \/ ReturnError) /\ UNCHANGED dynVars
     \/ GenLiteral \/ GenMatch \/ GenTail \/ Generated
     \/ \E h \in HdrWidths, l \in LitWidths, d \in DistWidths : BlockHeader(h, l, d)
     \/ EncodeToken
     \/ BlockTaken \/ CloseEmpty \/ EmptyBlockTaken \/ OutFails

Next == Call \/ Work

Spec == Init /\ [][Next]_vars
FairSpec == Spec /\ WF_vars(Work)

(***************************************************************************)
(* Properties                                                              *)
(***************************************************************************)
Pcs == {"idle", "loop", "compress", "block", "tokens", "out", "done", "failed"}

\* The fields of dynCompressor and bufWriter keep to their ranges.
TypeOK ==
  /\ pc \in Pcs /\ call \in {"new", "write", "flush", "close"}
  /\ todo \in Nat /\ werr \in {"nil", "Fail"}
  /\ text \in Texts /\ given \in 0..Len(text)
  /\ Len(buf.bits) <= RegBits /\ Len(buf.out) % 8 = 0
  /\ End <= Capacity /\ idx \in 0..End /\ processed \in Nat
  /\ table \in [Slots -> 0..(PosMod - 1)]
  /\ tk \in 0..Len(tokens) /\ build \in Builds

\* How many bytes of the data the window has taken in.
Taken == given - todo

\* The window holds the data just taken in, the resolved part with the
\* WindowSize bytes in front of it, as slides and short writes come in any
\* order (dynamic.go, Accumulate).
WindowHolds ==
  werr = "nil" /\ ret.err = "nil" /\ pc # "failed" =>
    /\ Taken - processed = End - idx
    /\ window = SubSeq(text, Taken - End + 1, Taken)
    /\ idx >= Min({processed, WindowSize})

\* A position of the table that looks near enough is in the window, although
\* positions are kept modulo 2^16 and entries are never removed (lz77.go).
LooksBackInWindow ==
  Generating /\ idx < End - Word /\ InWindow => Distance <= idx

\* Each token of a block has codes, those left from an earlier call of
\* Compress too (dynamic.go, genHuffCodes; lz77.go, the histogram).
TokensCoded ==
  pc = "tokens" =>
    \A i \in (tk + 1)..Len(tokens) :
      /\ LitSymbol(tokens[i]) \in hist
      /\ tokens[i].len > 0 => <<"dist", DistSymbol(tokens[i].dist).sym>> \in hist

\* The data for which there are tokens can be decoded from what was sent, what
\* waits in the bit buffer, and the tokens: nothing is lost or sent twice when
\* a block ends in the middle of a match, or a register between two blocks.
Expanded(plain, ts) ==
  LET f[i \in 0..Len(ts)] ==
        IF i = 0 THEN plain
        ELSE IF ts[i].len = 0 THEN Append(f[i - 1], ts[i].lit)
        ELSE Copied(f[i - 1], ts[i].dist, ts[i].len)
  IN f[Len(ts)]

NothingLost ==
  pc \in {"loop", "compress", "block"} =>
    Expanded(Feed(remote, buf.bits).plain, tokens) = SubSeq(text, 1, processed)

\* encodeTokens leaves room for the last byte and never writes behind output,
\* though a token is checked only after it is written (encode_other.go).
OutputFits ==
  pc \in {"tokens", "out"} =>
    Len(buf.out) <= OutBits - (IF last THEN 0 ELSE RegBits)
=============================================================================
