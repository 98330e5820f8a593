---------------------------- MODULE HuffmanOnly ----------------------------
(***************************************************************************)
(* The compressor of level HuffmanOnly: a buffer of input, and a dynamic   *)
(* Huffman block of literals whenever it is full.  Which code lengths the  *)
(* Huffman code gives to the bytes of a block is left open.                *)
(***************************************************************************)
EXTENDS DeflateWriter, FiniteSetsExt

CONSTANTS
  Size,                \* max, the size of the buffer (65536)
  OutBits,             \* 8 times the size of output
  HdrWidths, LitWidths, EobWidths  \* widths of block headers and codes

\* Three codes fit in the register next to a started byte, and a header leaves
\* room in output.
ASSUME HuffmanAssumption ==
  /\ Size \in Nat \ {0}
  /\ OutBits \in Nat /\ 4 * RegBits <= OutBits
  /\ HdrWidths \cup LitWidths \cup EobWidths \subseteq Nat \ {0}
  /\ \A w \in HdrWidths : w <= RegBits /\ w + 2 * RegBits < OutBits - 2 * RegBits
  /\ \A l \in LitWidths \cup EobWidths : 7 + 3 * l <= RegBits

VARIABLES
  buffer,              \* buffer[:offset]
  num,                 \* bytes of it that are encoded
  code                 \* the widths of the block's codes

huffVars == <<buffer, num, code>>
vars == <<apiVars, buf, huffVars>>

InitHuff == buffer = <<>> /\ num = 0 /\ code = [lit |-> 0, eob |-> 0]

Init == WriterInit /\ InitHuff

\* (A faulty Room, and a faulty Full.)
RoomOfBuffer == Size
FullWhenOver(b) == Len(b) > Size

Room == Size - Len(buffer)
Full(b) == Len(b) = Size

Accumulate ==
  LET n == Min({todo, Room}) IN
  /\ pc = "loop" /\ todo > 0
  /\ buffer' = buffer \o NextData(n)
  /\ todo' = todo - n
  /\ pc' = IF Full(buffer') THEN "compress" ELSE "loop"
  /\ UNCHANGED <<call, werr, buf, remote, clientVars, num, code>>

(***************************************************************************)
(* encodeBlock                                                             *)
(***************************************************************************)
CloseEmpty ==
  /\ pc = "compress" /\ call = "close" /\ buffer = <<>>
  /\ buf' = WriteEmptyBlock(buf, 1)
  /\ pc' = "out"
  /\ UNCHANGED <<call, todo, werr, remote, clientVars, huffVars>>

\* A block of no bytes is its header.
BlockHeader(h, l, e) ==
  LET b == WriteBit(WriteBit(buf, <<IF call = "close" THEN 1 ELSE 0, 0, 1>>),
                    Field(h, Codes))
  IN
  /\ pc = "compress" /\ ~(call = "close" /\ buffer = <<>>)
  /\ code' = [lit |-> l, eob |-> e]
  /\ num' = 0
  /\ IF buffer = <<>>
     THEN buf' = WriteEmptyBlock(b, 0) /\ pc' = "out"
     ELSE buf' = Sync(b) /\ pc' = "bytes"
  /\ UNCHANGED <<call, todo, werr, remote, clientVars, buffer>>

\* The register after n bytes more.
WithBytes(n) ==
  LET f[i \in 0..n] == IF i = 0 THEN buf.bits
        ELSE f[i - 1] \o Field(code.lit, LitBit(buffer[num + i]))
  IN Sync([buf EXCEPT !.bits = f[n]])

\* (A faulty OutputFull, which waits until nothing fits any more.)
OutputFullLate(b) == Len(b.out) >= OutBits
OutputFull(b) == Len(b.out) >= OutBits - 2 * RegBits

\* (A faulty ThreeLeft: the rest can be empty, and the block without its end.)
ThreeOrMoreLeft == num <= Len(buffer) - 3
ThreeLeft == num < Len(buffer) - 3

\* encodeBytes takes bytes by threes, and stops when output is full.
EncodeThree ==
  /\ pc = "bytes" /\ ThreeLeft
  /\ buf' = WithBytes(3) /\ num' = num + 3
  /\ pc' = IF OutputFull(buf') THEN "out" ELSE "bytes"
  /\ UNCHANGED <<call, todo, werr, remote, clientVars, buffer, code>>

\* (A faulty Ended, which leaves the last byte of a stream in the register.)
EndedInRegister(b) == [b EXCEPT !.bits = @ \o Field(code.eob, EndOfBlock)]

\* The end-of-block code; Flush and Close fill the last byte behind it.
Ended(b) ==
  LET a == [b EXCEPT !.bits = @ \o Field(code.eob, EndOfBlock)] IN
  IF call = "write" THEN a ELSE FlushLastByte(a)

\* The last bytes, at most three, end the block.
EncodeRest ==
  /\ pc = "bytes" /\ ~ThreeLeft
  /\ buf' = Ended(WithBytes(Len(buffer) - num))
  /\ num' = Len(buffer)
  /\ pc' = "out"
  /\ UNCHANGED <<call, todo, werr, remote, clientVars, buffer, code>>

\* A part of a block, or the whole, has been taken.  Sync, which starts the
\* next part, finds no whole byte in the register.
BlockTaken ==
  /\ pc = "out" /\ buffer # <<>>
  /\ SinkTakes
  /\ buf' = IF num = Len(buffer) /\ call = "flush"
            THEN WriteEmptyBlock(Rewound(buf), 0) ELSE Rewound(buf)
  /\ IF num < Len(buffer)
     THEN pc' = "bytes" /\ UNCHANGED <<buffer, num>>
     ELSE /\ buffer' = <<>> /\ num' = 0
          /\ pc' = [write |-> "loop", flush |-> "out", close |-> "done"][call]
  /\ UNCHANGED <<call, todo, werr, text, given, ret, resets, flushes, code>>

\* The empty block that ends Flush, or an empty stream, has been taken.
EmptyBlockTaken ==
  /\ pc = "out" /\ buffer = <<>>
  /\ SinkTakes
  /\ buf' = IF call = "flush" THEN Rewound(buf) ELSE buf
  /\ pc' = "done"
  /\ UNCHANGED <<call, todo, werr, text, given, ret, resets, flushes, huffVars>>

\* The underlying writer fails; what the buffer and output hold stays.
OutFails ==
  /\ pc = "out"
  /\ \E n \in {0, Len(buf.out) \div 16} : SinkFails(n)
  /\ buf' = IF buffer = <<>> /\ call = "flush" THEN Rewound(buf) ELSE buf
  /\ num' = 0
  /\ UNCHANGED <<buffer, code>>

Reset(t) == ResetWriter(t) /\ buffer' = <<>> /\ UNCHANGED <<num, code>>

Call ==
  \/ \E n \in WriteSizes : CallWrite(n) /\ UNCHANGED huffVars
  \/ CallFlush /\ UNCHANGED huffVars
  \/ CallClose /\ UNCHANGED huffVars
  \/ \E c \in {"write", "flush", "close"} : CallAfterError(c) /\ UNCHANGED huffVars
  \/ \E t \in Texts : Reset(t)

Work ==
  \/ Accumulate
  \/ (ReturnNil \/ ReturnError) /\ UNCHANGED huffVars
  \/ \E h \in HdrWidths, l \in LitWidths, e \in EobWidths : BlockHeader(h, l, e)
  \/ EncodeThree \/ EncodeRest
  \/ BlockTaken \/ CloseEmpty \/ EmptyBlockTaken \/ OutFails

Next == Call \/ Work

Spec == Init /\ [][Next]_vars
FairSpec == Spec /\ WF_vars(Work)

(***************************************************************************)
(* Properties                                                              *)
(***************************************************************************)
\* The fields of huffmanOnlyCompressor and bufWriter keep to their ranges.
TypeOK ==
  /\ pc \in {"idle", "loop", "compress", "bytes", "out", "done", "failed"}
  /\ todo \in Nat /\ werr \in {"nil", "Fail"}
  /\ text \in Texts /\ given \in 0..Len(text)
  /\ Len(buf.bits) <= RegBits /\ Len(buf.out) % 8 = 0
  /\ Len(buffer) <= Size /\ num \in 0..Len(buffer)

\* Output is never written behind its end, although encodeBytes checks only
\* after each three codes and Flush adds the last byte (huffmanonly_other.go).
OutputFits == pc \in {"bytes", "out"} => Len(buf.out) <= OutBits

\* Flush breaks the stream (FlushOfData).  What follows is about streams that
\* were not flushed.
Unflushed == flushes = 0

\* The bytes of the buffer that are encoded, and no others, follow what was
\* sent before: a block goes on where the last part of output stopped
\* (huffmanonly_other.go, encodeBytes).
NothingLost ==
  pc = "bytes" /\ Unflushed =>
    /\ num < Len(buffer)
    /\ Feed(remote, buf.out \o buf.bits).plain
         = SubSeq(text, 1, given - todo - Len(buffer) + num)

\* A decoder sees nothing but data given since the last Reset, whatever call
\* or failure came before the Reset, a Flush too (huffmanonly.go, Reset).
OnlyNewData == Unflushed => OnlyGivenData

\* The promise of PlainWriter, step by step: blocks in several parts of output
\* and blocks that share a byte make up a stream that decodes to the data.
PlainWriterSteps ==
  Promise!Init /\ [][Unflushed /\ Unflushed' => Promise!Next]_(Promise!vars)
=============================================================================
