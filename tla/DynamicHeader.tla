--------------------------- MODULE DynamicHeader ---------------------------
(***************************************************************************)
(* The way of a code: the compressor chooses code lengths for a block's    *)
(* literals, lengths and distances (genHuffCodes in dynamic.go, the same   *)
(* without distances in huffmanonly.go), says them in the block's header,  *)
(* and the decompressor reads the header and makes its tables.  The        *)
(* decompressor also reads headers from elsewhere.                         *)
(*                                                                         *)
(* The compressor has one generator for distances, one for literals and    *)
(* lengths, and one for code length symbols; each call begins with cleared *)
(* arrays, so that one copy of its variables stands for all three.         *)
(***************************************************************************)
EXTENDS HuffmanTree, HeaderWriter, HeaderReader

CONSTANTS
  Blocks,       \* counts of the tokens and distances of a block
  Foreign,      \* headers that some other program has made
  LeftOvers     \* entries that tables of earlier blocks have left

ASSUME BlocksOK ==
  \A b \in Blocks : /\ b.tokens \in [Tokens -> Nat]
                    /\ b.dists \in [0..(DistSyms - 1) -> Nat]

VARIABLES
  stage,        \* which codes are being made
  block,        \* the block that is written; for foreign headers, NoBlock
  litLens, distLens, items      \* what its header says, and by which items

writerVars == <<stage, block, litLens, distLens, items>>
vars == <<treeVars, readerVars, writerVars>>

NoBlock == [tokens |-> <<>>, dists |-> <<>>]

Init ==
  /\ TreeInit /\ ReaderInit
  /\ stage = "idle" /\ block \in Blocks \cup {NoBlock}
  /\ litLens = <<>> /\ distLens = <<>> /\ items = <<>>

-----------------------------------------------------------------------------
Generating ==
  /\ TreeNext
  /\ UNCHANGED <<readerVars, writerVars>>

\* genHuffCodes.
GenDistances ==
  /\ stage = "idle" /\ block # NoBlock
  /\ Generate(block.dists, MaxDepth)
  /\ stage' = "distances"
  /\ UNCHANGED <<readerVars, block, litLens, distLens, items>>

GenLiterals ==
  /\ stage = "distances"
  /\ Generate(LitHist(block.tokens), MaxDepth)
  /\ stage' = "literals" /\ distLens' = lens
  /\ UNCHANGED <<readerVars, block, litLens, items>>

\* writeTo, up to the call of Generate and from there on.
PrepareAlphabets ==
  /\ stage = "literals"
  /\ LET its == Alphabets(lens, distLens)
     IN  Generate(Frequency(its), ClcLimit) /\ items' = its
  /\ stage' = "code lengths" /\ litLens' = lens
  /\ UNCHANGED <<readerVars, block, distLens>>

WriteHeader ==
  /\ stage = "code lengths" /\ pc = "done"
  /\ \E e \in LeftOvers : Arrives(Header(litLens, distLens, items, lens), e)
  /\ stage' = "written"
  /\ UNCHANGED <<treeVars, block, litLens, distLens, items>>

ForeignHeader ==
  /\ block = NoBlock /\ step = "idle"
  /\ \E h \in Foreign, e \in LeftOvers : Arrives(h, e)
  /\ UNCHANGED <<treeVars, writerVars>>

SettingUp ==
  /\ SetUp
  /\ UNCHANGED <<treeVars, writerVars>>

Reads ==
  /\ ReadLitDistLens
  /\ UNCHANGED <<treeVars, writerVars>>

Next ==
  \/ Generating \/ GenDistances \/ GenLiterals \/ PrepareAlphabets
  \/ WriteHeader \/ ForeignHeader \/ SettingUp \/ Reads

Spec == Init /\ [][Next]_vars

\* The loops of Generate wait for nothing.
FairSpec == Spec /\ WF_treeVars(Generating)

-----------------------------------------------------------------------------
(***************************************************************************)
(* Reference: what RFC 1951 says of the header that is read.  It is good,  *)
(* or not; it is short if more input could make it good, and then lens are *)
(* the lengths that it says so far.                                        *)
(***************************************************************************)
Verdict(v, l) == [verdict |-> v, lens |-> l]

RECURSIVE RfcLengths(_, _)
RfcLengths(rest, l) ==
  LET codes == ClcCodes
      announced == Boundary + input.hdist + 1
      s == CHOOSE t \in First(codes, rest) : TRUE
      q == SubSeq(rest, Len(codes[s]) + 1, Len(rest))
      extra == SubSeq(q, 1, ExtraOf(s))
  IN  IF l = NoMeaning \/ Len(l) > announced THEN Verdict("invalid", l)
      ELSE IF Len(l) = announced THEN Verdict("good", l)
      ELSE IF First(codes, rest) = {}
      THEN Verdict(IF \E t \in Used(codes) : IsPrefixOf(rest, codes[t])
                   THEN "short" ELSE "invalid", l)
      ELSE IF Len(q) < ExtraOf(s) THEN Verdict("short", Meaning(l, s, 0))
      ELSE RfcLengths(SubSeq(q, ExtraOf(s) + 1, Len(q)),
                      Meaning(l, s, ValueOfBits(extra)))

FitsIn(l, first, last) ==
  Kraft([k \in first..Min({last, Len(l)}) |-> l[k]]) <= PowerOf2[MaxDepth]

RfcVerdict ==
  LET r == RfcLengths(input.bits, <<>>)
      wrong == \/ r.lens = NoMeaning
               \/ Len(r.lens) > Boundary + input.hdist + 1
               \/ Len(r.lens) >= LitSyms /\ r.lens[LitSyms] = 0
               \/ ~FitsIn(r.lens, 1, Boundary)
               \/ ~FitsIn(r.lens, Boundary + 1, Len(r.lens))
  IN  IF input.hlit > NumLens \/ input.hdist >= DistSyms THEN {"invalid"}
      ELSE IF Len(input.clc) < input.hclen + MinClc THEN {"short"}
      ELSE IF Kraft(ClcLens) > PowerOf2[MaxDepth] THEN {"invalid"}
      ELSE CASE r.verdict = "invalid" -> {"invalid"}
             [] r.verdict = "good" -> IF wrong THEN {"invalid"} ELSE {"ok"}
             [] r.verdict = "short" -> IF wrong THEN {"short", "invalid"} ELSE {"short"}

-----------------------------------------------------------------------------
(***************************************************************************)
(* Properties.                                                             *)
(***************************************************************************)
Padded(l, size) == [s \in 0..(size - 1) |-> IF s < Len(l) THEN l[s + 1] ELSE 0]
ByWriter == block # NoBlock

\* The reader's answer is that of the RFC, wherever the input ends, for headers
\* whose code length code leaves no gap; and a header for which there is no
\* answer because a repetition runs out of the table is not a good one.
AnswersAsRfc ==
  (Answered \/ step = "panic") /\ Complete(ClcLens) =>
    (IF step = "panic" THEN "invalid" ELSE step) \in RfcVerdict

\* A header that the compressor writes is read, as the lengths it was written
\* for; and each token and distance of the block is found under the code that
\* the compressor gives it.
WithZeros(code, len) == [k \in 1..len |-> IF k <= Len(code) THEN code[k] ELSE 0]

ReadsWhatIsWritten ==
  ByWriter =>
    /\ step \notin {"invalid", "short", "panic"}
    /\ step = "ok" =>
         /\ LitLens = litLens
         /\ DistLens = Padded(DistPart(distLens), DistSyms)
         /\ \A x \in Tokens : block.tokens[x] > 0 \/ x = EndOfBlock =>
              LET code == TokenCode(x, GenerateCode(litLens))
                  e == LookUp(litTable, LitBits, WithZeros(code, MaxTokenLen))
              IN  code # <<>> /\ Head(e.syms) = x
                    /\ (Len(e.syms) = 1 => e.len = Len(code))
         /\ \A d \in DOMAIN distLens : block.dists[d] > 0 =>
              LookUp(distTable, DistBits, WithZeros(GenerateCode(distLens)[d], MaxDepth))
                = Direct(<<d>>, distLens[d])

\* Generate returns for any histogram: no loop of sorting, pairing or limiting
\* stands still.
Returns == pc # "done" ~> pc = "done"

\* What reader.go:27 says of errInvalidBlock: it is the answer to a block whose
\* structure is invalid.
InvalidIsAnswered == step # "panic"
=============================================================================
