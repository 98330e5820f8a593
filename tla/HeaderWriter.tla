---------------------------- MODULE HeaderWriter ----------------------------
(***************************************************************************)
(* How the compressors say the lengths of their codes (deflate/header.go), *)
(* and the codes they give to literals, lengths and distances              *)
(* (deflate/huffcodes.go).                                                 *)
(*                                                                         *)
(* The program keeps counts, lengths and codes in one array, one after the *)
(* other; here each is a function of its own.                              *)
(***************************************************************************)
EXTENDS HeaderFormat

\* reduceCounts adds up the counts of the lengths that share a symbol; the last
\* length has its own symbol, and is counted with the one before it as well.
\* Every block ends once.
LitHist(tokens) ==
  [s \in 0..(LitLen - 1) |->
     CASE s = EndOfBlock -> 1
       [] s = LitLen - 1 -> tokens[MaxLitLenSym]
       [] OTHER -> MapThenSumSet(LAMBDA x : tokens[x], {x \in Tokens : SymbolOf(x) = s})]

\* expandCodes: the code of a literal or a length, with its extra bits.
TokenCode(x, codes) ==
  IF x = MaxLitLenSym THEN codes[LitLen - 1]
  ELSE codes[SymbolOf(x)] \o ExtraCode(ValueOf(x), SymbolExtra(SymbolOf(x)))

-----------------------------------------------------------------------------
\* prepare: lengths up to that of the last symbol that has a code.  A block
\* without distances says that the first one has a code of one bit.
UpToLast(lens) ==
  [k \in 1..Max({s + 1 : s \in Coded(lens)} \cup {0}) |-> lens[k - 1]]

LitPart(litLens) == UpToLast(litLens)
DistPart(distLens) ==
  IF Coded(distLens) = {} THEN <<1>> ELSE UpToLast(distLens)

\* alphabet: the runs of equal lengths of a part, as <<length, repeated>>.
Runs(part) ==
  FoldLeft(LAMBDA runs, len :
             IF runs # <<>> /\ Last(runs)[1] = len
             THEN [runs EXCEPT ![Len(runs)][2] = @ + 1]
             ELSE Append(runs, <<len, 1>>),
           <<>>, part)

Plain(num, repeated) == [k \in 1..repeated |-> <<num, 0>>]

NumRepeat(num, repeated) ==
  LET items[r \in 0..repeated] ==
        IF r <= RepeatMin THEN Plain(num, r)
        ELSE LET times == Min({r - 1, RepeatMax})
             IN  <<<<num, 0>>, <<Repeat, times - RepeatMin>>>> \o items[r - 1 - times]
  IN  items[repeated]

ZeroRepeat(repeated) ==
  LET items[r \in 0..repeated] ==
        IF r < FewMin THEN Plain(0, r)
        ELSE IF r <= FewMax THEN <<<<FewZeros, r - FewMin>>>>
        ELSE LET times == Min({r, ManyMax})
             IN  <<<<ManyZeros, times - ManyMin>>>> \o items[r - times]
  IN  items[repeated]

ItemsOf(part) ==
  FlattenSeq([k \in DOMAIN Runs(part) |->
    LET run == Runs(part)[k]
    IN  IF run[1] = 0 THEN ZeroRepeat(run[2]) ELSE NumRepeat(run[1], run[2])])

\* prepareAlphabets: no run goes on from the literals to the distances.
Alphabets(litLens, distLens) ==
  ItemsOf(LitPart(litLens)) \o ItemsOf(DistPart(distLens))

\* How often each code length symbol is written.
Frequency(items) ==
  [s \in ClcSyms |-> Cardinality({k \in DOMAIN items : items[k][1] = s})]

-----------------------------------------------------------------------------
\* (A faulty codeSize: the symbols are taken in their own order.)
CodeSizeUnordered(freq) ==
  Max({MinClc} \cup {k \in DOMAIN ClcOrder : freq[k - 1] # 0})

\* codeSize: lengths of code length codes up to the last one that is used.
CodeSize(freq) ==
  Max({MinClc} \cup {k \in DOMAIN ClcOrder : freq[ClcOrder[k]] # 0})

Coding(items, codes) ==
  FlattenSeq([k \in DOMAIN items |->
    codes[items[k][1]] \o ExtraCode(items[k][2], ExtraOf(items[k][1]))])

\* writeTo: a header has its three numbers, the lengths of the code length
\* codes, and the bits of the items.
Header(litLens, distLens, items, clcLens) ==
  LET codeSize == CodeSize(Frequency(items))
  IN  [hlit  |-> Len(LitPart(litLens)) - LitSyms,
       hdist |-> Len(DistPart(distLens)) - 1,
       hclen |-> codeSize - MinClc,
       clc   |-> [k \in 1..codeSize |-> clcLens[ClcOrder[k]]],
       bits  |-> Coding(items, GenerateCode(clcLens))]
=============================================================================
