--------------------------- MODULE RemoteDecoder ---------------------------
(***************************************************************************)
(* A decoder at the other end of the wire: what RFC 1951 makes of the bits *)
(* that a compressor has handed to its underlying writer so far.  It is    *)
(* the reference that the compressors are checked against, written as an   *)
(* automaton that takes one bit at a time; it is no part of the program.   *)
(*   mode  : what the next bit belongs to                                  *)
(*   n     : bits taken, modulo 8                                          *)
(*   k     : bits of the block header, or of LEN and NLEN, taken           *)
(*   final : BFINAL of the block                                           *)
(*   type  : first bit of BTYPE                                            *)
(*   len   : length of the match whose distance comes next (0: none)       *)
(*   plain : the data decoded so far                                       *)
(***************************************************************************)
EXTENDS BitBuf

Fresh == [mode |-> "header", n |-> 0, k |-> 0, final |-> 0, type |-> 0,
          len |-> 0, plain |-> <<>>]

Corrupt(r) == [r EXCEPT !.mode = "corrupt"]
AfterBlock(r) ==
  [r EXCEPT !.mode = IF r.final = 1 THEN "end" ELSE "header", !.k = 0]

\* The three bits of a block header.  The third decides: stored blocks go on
\* at the next byte, and the compressors never choose fixed codes.
HeaderBit(r, b) ==
  IF b \notin {0, 1} THEN Corrupt(r)
  ELSE IF r.k = 0 THEN [r EXCEPT !.k = 1, !.final = b]
  ELSE IF r.k = 1 THEN [r EXCEPT !.k = 2, !.type = b]
  ELSE IF <<r.type, b>> = <<0, 0>>
         THEN [r EXCEPT !.mode = IF r.n = 7 THEN "len" ELSE "align", !.k = 0]
  ELSE IF <<r.type, b>> = <<0, 1>> THEN [r EXCEPT !.mode = "codes", !.k = 0]
  ELSE Corrupt(r)

\* The compressors store no data: LEN has to be 0, and NLEN its complement.
LengthBit(r, b) ==
  IF b # (IF r.k < 16 THEN 0 ELSE 1) THEN Corrupt(r)
  ELSE IF r.k = 31 THEN AfterBlock(r)
  ELSE [r EXCEPT !.k = @ + 1]

Copied(plain, dist, len) ==
  LET m == Len(plain) IN
  [i \in 1..(m + len) |->
     IF i <= m THEN plain[i] ELSE plain[m - dist + 1 + ((i - m - 1) % dist)]]

SymbolBit(r, b) ==
  IF b = Part THEN r
  ELSE IF b = EndOfBlock /\ r.len = 0 THEN AfterBlock(r)
  ELSE IF b >= LitBit(0) /\ b < LenBit(0) /\ r.len = 0
         THEN [r EXCEPT !.plain = Append(@, b - LitBit(0))]
  ELSE IF b > LenBit(0) /\ b < DistBit(0) /\ r.len = 0
         THEN [r EXCEPT !.len = b - LenBit(0)]
  ELSE IF b > DistBit(0) /\ r.len > 0 /\ b - DistBit(0) <= Len(r.plain)
         THEN [r EXCEPT !.plain = Copied(@, b - DistBit(0), r.len), !.len = 0]
  ELSE Corrupt(r)

\* What a bit makes of the state, but for the count of bits.
Turn(r, b) ==
  CASE r.mode = "header"  -> HeaderBit(r, b)
    [] r.mode = "align"   -> IF r.n = 7 THEN [r EXCEPT !.mode = "len"] ELSE r
    [] r.mode = "len"     -> LengthBit(r, b)
    [] r.mode = "codes"   -> IF b = Part THEN r
                             ELSE IF b = Codes THEN [r EXCEPT !.mode = "symbols"]
                             ELSE Corrupt(r)
    [] r.mode = "symbols" -> SymbolBit(r, b)
    \* what follows the last block, other than padding, is not the stream's
    [] r.mode = "end"     -> IF b = 0 /\ r.n # 0 THEN r
                             ELSE [r EXCEPT !.mode = "trailing"]
    [] OTHER              -> r

TakeBit(r, b) == [Turn(r, b) EXCEPT !.n = (r.n + 1) % 8]

\* The state after all the bits.  (q ranges over one state, the one before bit
\* i, so that TLC computes it once.)
Feed(r, bits) ==
  LET f[i \in 0..Len(bits)] ==
        IF i = 0 THEN r
        ELSE CHOOSE s \in {TakeBit(q, bits[i]) : q \in {f[i - 1]}} : TRUE
  IN f[Len(bits)]
=============================================================================
