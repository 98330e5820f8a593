---------------------------- MODULE HeaderFormat ----------------------------
(***************************************************************************)
(* The header of a block with dynamic Huffman codes (RFC 1951, 3.2.7): its *)
(* alphabets, and what a sequence of code length symbols says.             *)
(***************************************************************************)
EXTENDS HuffmanCodes, Integers, SequencesExt

CONSTANTS
  LitSyms,      \* literals, and then the end of the block: 257
  LenExtra,     \* extra bits of the length symbols, from the first: 29 of them
  DistSyms,     \* distance symbols: 30
  RepeatBits,   \* extra bits of "repeat the last length": 2
  FewBits,      \* of "a few zeros": 3
  ManyBits,     \* of "many zeros": 7
  ClcOrder,     \* hclenOrder
  ClcLimit      \* the longest code of a code length symbol: 7

NumLens    == Cardinality(DOMAIN LenExtra)
EndOfBlock == LitSyms - 1
LitLen     == LitSyms + NumLens

\* Code length symbols: the lengths themselves, and three for repetitions.
Repeat    == MaxDepth + 1
FewZeros  == MaxDepth + 2
ManyZeros == MaxDepth + 3
ClcSyms   == 0..ManyZeros

ExtraOf(sym) == CASE sym = Repeat -> RepeatBits
                  [] sym = FewZeros -> FewBits
                  [] sym = ManyZeros -> ManyBits
                  [] OTHER -> 0

\* A header has the lengths of at least so many code length codes.
MinClc == 4

\* The fewest and the most repetitions that each can say.
RepeatMin == 3
RepeatMax == RepeatMin + PowerOf2[RepeatBits] - 1
FewMin    == 3
FewMax    == FewMin + PowerOf2[FewBits] - 1
ManyMin   == FewMax + 1
ManyMax   == ManyMin + PowerOf2[ManyBits] - 1

ASSUME FormatOK ==
  /\ LitSyms \in Nat \ {0} /\ DistSyms \in Nat \ {0}
  /\ NumLens \in Nat \ {0} /\ DOMAIN LenExtra = 0..(NumLens - 1)
  /\ \A s \in DOMAIN LenExtra : LenExtra[s] \in Nat
  /\ LenExtra[NumLens - 1] = 0
  /\ RepeatBits \in Nat /\ FewBits \in Nat /\ ManyBits \in Nat
  /\ IsInjective(ClcOrder) /\ Range(ClcOrder) = ClcSyms
  /\ ClcLimit \in 1..MaxDepth

-----------------------------------------------------------------------------
(***************************************************************************)
(* Literals and lengths of matches in one numbering: s is the literal s,   *)
(* or the end of the block, and behind them there is one number for each   *)
(* value of the extra bits of each length symbol.  The last length has two *)
(* numbers: the symbol before the last can say it with its extra bits, and *)
(* the last one, which has none, is for it alone.  Compressors count it    *)
(* under the first of the two, and say it by the second.                   *)
(***************************************************************************)
LenBase(s) == LitSyms + MapThenSumSet(LAMBDA t : PowerOf2[LenExtra[t]], 0..(s - 1))
MaxLitLenSym == LenBase(NumLens - 1) - 1    \* 512
Indexes == 0..(MaxLitLenSym + 1)
Tokens == 0..MaxLitLenSym

\* The symbol that says number x, the value of its extra bits, and how many
\* extra bits a symbol has.
SymbolOf(x) ==
  IF x < LitSyms THEN x
  ELSE LitSyms + Max({s \in DOMAIN LenExtra : LenBase(s) <= x})
ValueOf(x) == IF x < LitSyms THEN 0 ELSE x - LenBase(SymbolOf(x) - LitSyms)
SymbolExtra(s) == IF s < LitSyms THEN 0 ELSE LenExtra[s - LitSyms]

\* Extra bits are sent from the lowest on.
ExtraCode(v, bits) == [k \in 1..bits |-> (v \div PowerOf2[k - 1]) % 2]
ValueOfBits(b) == MapThenSumSet(LAMBDA k : b[k] * PowerOf2[k - 1], DOMAIN b)

-----------------------------------------------------------------------------
(***************************************************************************)
(* Reference: the lengths that a sequence of code length symbols, each     *)
(* with the value of its extra bits, says; NoMeaning if it repeats a       *)
(* length where there is none.                                             *)
(***************************************************************************)
NoMeaning == <<-1>>

Meaning(lens, sym, extra) ==
  CASE lens = NoMeaning -> NoMeaning
    [] sym <= MaxDepth -> Append(lens, sym)
    [] sym = Repeat /\ lens = <<>> -> NoMeaning
    [] sym = Repeat /\ lens # <<>> ->
         lens \o [k \in 1..(RepeatMin + extra) |-> Last(lens)]
    [] sym = FewZeros -> lens \o [k \in 1..(FewMin + extra) |-> 0]
    [] sym = ManyZeros -> lens \o [k \in 1..(ManyMin + extra) |-> 0]

=============================================================================
