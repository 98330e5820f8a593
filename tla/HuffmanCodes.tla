---------------------------- MODULE HuffmanCodes ----------------------------
(***************************************************************************)
(* Canonical Huffman codes, as the compressors make them from the lengths  *)
(* of the codes (huffman/code.go) and the decompressor from the lengths it *)
(* has read (inflate.go), and what RFC 1951 says of them.                  *)
(*                                                                         *)
(* A code is the sequence of its bits in the order in which they are sent. *)
(* The program keeps that sequence as a number whose lowest bit is sent    *)
(* first, which is what the reversal of the bits is for.  The lengths are  *)
(* a function from symbols 0 .. n - 1; a symbol of length 0 has no code.   *)
(***************************************************************************)
EXTENDS Naturals, Sequences, FiniteSets, FiniteSetsExt

CONSTANTS
  MaxDepth,     \* the length of the longest code: 15
  CountMod      \* 2^16: a count is kept in a uint16

ASSUME WidthsOK == MaxDepth \in Nat \ {0} /\ CountMod \in Nat \ {0}

Coded(lens) == {s \in DOMAIN lens : lens[s] > 0}
OfLength(lens, l) == {s \in DOMAIN lens : lens[s] = l}
Longest(lens) == Max({lens[s] : s \in DOMAIN lens} \cup {0})

\* 1 << k.
PowerOf2[k \in Nat] == IF k = 0 THEN 1 ELSE 2 * PowerOf2[k - 1]

\* The highest n bits of a code are sent first.
BitsOf(code, n) == [k \in 1..n |-> (code \div PowerOf2[n - k]) % 2]

-----------------------------------------------------------------------------
\* The first code of each length, from the number of codes of each length.
NextCodes(blCount, maxBits) ==
  LET code[bits \in 0..maxBits] ==
        IF bits = 0 THEN 0 ELSE 2 * (code[bits - 1] + blCount[bits - 1])
  IN  code

\* Symbols of one length get consecutive codes, in their order.
Numbered(lens, first) ==
  [s \in DOMAIN lens |->
     IF lens[s] = 0 THEN <<>>
     ELSE BitsOf(first[lens[s]]
                   + Cardinality({t \in OfLength(lens, lens[s]) : t < s}), lens[s])]

Counts(lens) == [l \in 0..MaxDepth |-> Cardinality(OfLength(lens, l))]

\* The codes of the compressors.
GenerateCode(lens) ==
  LET blCount == [Counts(lens) EXCEPT ![0] = 0]
  IN  Numbered(lens, NextCodes(blCount, Longest(lens)))

\* The decompressor has counted the lengths while it read them.  It refuses
\* those for which there are not enough codes; entry 0 of count is not used.
CodesEnd(count) ==
  NextCodes([count EXCEPT ![0] = 0], MaxDepth)[MaxDepth] + count[MaxDepth]
Oversubscribed(count) == CodesEnd(count) > PowerOf2[MaxDepth]

SetCodes(lens, count) ==
  Numbered(lens, NextCodes([count EXCEPT ![0] = 0], MaxDepth))

-----------------------------------------------------------------------------
(***************************************************************************)
(* Reference definitions: section 3.2.2 of RFC 1951, and Kraft's sum in    *)
(* units of 2^-MaxDepth.                                                   *)
(***************************************************************************)
Kraft(lens) == MapThenSumSet(LAMBDA s : PowerOf2[MaxDepth - lens[s]], Coded(lens))

Complete(lens) == Kraft(lens) = PowerOf2[MaxDepth]

\* The one code that may be incomplete: a single code of one bit.
Single(lens) == \E s \in DOMAIN lens : Coded(lens) = {s} /\ lens[s] = 1

IsPrefixOf(a, b) == Len(a) <= Len(b) /\ \A k \in 1..Len(a) : a[k] = b[k]
Below(a, b) == \E k \in DOMAIN a \cap DOMAIN b :
                  a[k] < b[k] /\ \A i \in 1..(k - 1) : a[i] = b[i]

\* No code begins with another; of two codes the shorter one, and of two codes
\* of one length that of the smaller symbol, comes first.
Canonical(lens, codes) ==
  /\ \A s \in DOMAIN lens : Len(codes[s]) = lens[s]
  /\ \A s, t \in Coded(lens) : s # t =>
       /\ ~IsPrefixOf(codes[s], codes[t])
       /\ (lens[s] < lens[t] \/ (lens[s] = lens[t] /\ s < t))
            => Below(codes[s], codes[t])

\* What a compressor may expect of the lengths for a histogram: each symbol
\* that occurs has a code, no other has, none is too long, all bit strings are
\* used; one symbol alone has a code of one bit.
CodesFor(hist, lens, limit) ==
  /\ Coded(lens) = {s \in DOMAIN hist : hist[s] > 0}
  /\ \A s \in DOMAIN lens : lens[s] <= limit
  /\ Coded(lens) = {} \/ Single(lens) \/ Complete(lens)
=============================================================================
