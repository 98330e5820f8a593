------------------------------- MODULE BitBuf -------------------------------
(***************************************************************************)
(* The bit buffer of the compressor.  A BitBuf is a record                 *)
(*   out  : the bits of output[:idx], whole bytes                          *)
(*   bits : the bitLen bits that wait in the 64-bit register               *)
(* with the bits in the order in which they are sent.                      *)
(*                                                                         *)
(* Bits that are read as numbers (block headers and padding) are 0 and 1.  *)
(* The code of a symbol is a field of its width whose last bit stands for  *)
(* the symbol: a decoder cannot know it before it has all the bits.        *)
(***************************************************************************)
EXTENDS Integers, Sequences

CONSTANTS RegBits      \* width of the register (64)

ASSUME RegisterAssumption == RegBits \in {8 * n : n \in 2..8}

Part == 2              \* a bit of a code that is not its last
EndOfBlock == 3        \* last bit of the end-of-block code
Codes == 4             \* last bit of the code lengths of a dynamic header
LitBit(c) == 10 + c    \* last bit of the code of literal c
LenBit(l) == 1000 + l  \* last bit of the code of match length l
DistBit(d) == 2000 + d \* last bit of the code and extra bits of distance d

Zeros(n) == [i \in 1..n |-> 0]
Field(width, last) == [i \in 1..width |-> IF i = width THEN last ELSE Part]

Empty == [out |-> <<>>, bits |-> <<>>]      \* after reset()
Rewound(b) == [b EXCEPT !.out = <<>>]       \* idx = 0

\* (A faulty WriteBit, which never writes the register out.)
WriteBitNever(b, f) == [b EXCEPT !.bits = @ \o f]

\* The register is written out when it would overflow.
WriteBit(b, f) ==
  LET r == b.bits \o f IN
  IF Len(r) > RegBits
  THEN [out  |-> b.out \o SubSeq(r, 1, RegBits),
        bits |-> SubSeq(r, RegBits + 1, Len(r))]
  ELSE [b EXCEPT !.bits = r]

\* Whole bytes leave the register.
Sync(b) ==
  LET n == (Len(b.bits) \div 8) * 8 IN
  [out  |-> b.out \o SubSeq(b.bits, 1, n),
   bits |-> SubSeq(b.bits, n + 1, Len(b.bits))]

\* The last byte is filled with zeros.
FlushLastByte(b) ==
  [out  |-> b.out \o b.bits \o Zeros((8 - (Len(b.bits) % 8)) % 8),
   bits |-> <<>>]

\* A stored block without data: its header, then LEN = 0 and NLEN = 0xffff.
WriteEmptyBlock(b, final) ==
  LET a == FlushLastByte(WriteBit(b, <<final, 0, 0>>)) IN
  [a EXCEPT !.out = @ \o Zeros(16) \o [i \in 1..16 |-> 1]]
=============================================================================
