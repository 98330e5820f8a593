---------------------------- MODULE HeaderReader ----------------------------
(***************************************************************************)
(* How the decompressor reads the header of a block with dynamic codes     *)
(* (flate/header.go): one call of setupDynamicHeader, on input that may    *)
(* end anywhere behind the three numbers the header begins with.           *)
(*                                                                         *)
(* The lengths are kept in one table: those of literals and lengths from   *)
(* 0 on, those of distances from LitLen on, whatever number of the former  *)
(* the header announces.                                                   *)
(***************************************************************************)
EXTENDS LookupTables

VARIABLES
  step,         \* what is read next, or how the call has ended
  input,        \* the header, as HeaderWriter!Header makes it
  left,         \* what the tables of earlier blocks have left in their memory
  pos,          \* bits of the items that have been read
  curr,         \* the place in the table of the next length
  huffs,        \* litAndDistHuff: lengths
  litCount, litExpand, distCount,       \* numbers of codes of each length
  distCodes, litCodes,  \* codes, the latter with those for all extra bits
  clcTable, distTable, litTable

\* All symbols may have codes of one length.  A code length symbol is found in
\* the table itself, not in a part for long codes; no table is for more bits than
\* the longest code has.  There are no more distance symbols than literals.
ASSUME ReaderOK ==
  /\ DistSyms < CountMod /\ LitLen < CountMod
  /\ ClcLimit <= DistBits /\ DistBits <= MaxDepth /\ LitBits <= MaxDepth
  /\ DistSyms <= LitSyms

countVars  == <<litCount, litExpand, distCount>>
codeVars   == <<distCodes, litCodes>>
tableVars  == <<clcTable, distTable, litTable>>
readerVars == <<step, input, left, pos, curr, huffs, countVars, codeVars, tableVars>>

MaxExtra == Max(Range(LenExtra))
MaxTokenLen == MaxDepth + MaxExtra

Boundary == LitSyms + input.hlit        \* lengths of literals and lengths
End == LitLen + input.hdist + 1
Gap == LitLen - Boundary

NoCounts(max) == [l \in 0..max |-> 0]
NoInput == [hlit |-> 0, hdist |-> 0, hclen |-> 0, clc |-> <<>>, bits |-> <<>>]

ReaderInit ==
  /\ step = "idle" /\ input = NoInput /\ left = NoCode
  /\ pos = 0 /\ curr = 0
  /\ huffs = [p \in 0..(LitLen + DistSyms - 1) |-> 0]
  /\ litCount = NoCounts(MaxDepth) /\ distCount = NoCounts(MaxDepth)
  /\ litExpand = NoCounts(MaxTokenLen)
  /\ distCodes = <<>> /\ litCodes = <<>>
  /\ clcTable = Sized(DistBits, NoCode) /\ distTable = Sized(DistBits, NoCode)
  /\ litTable = Sized(LitBits, NoCode)

\* setupDynamicHeader is called for the header h.  Before the first block the
\* memory of the tables is empty; later it holds entries of earlier blocks.
Arrives(h, leftOver) ==
  /\ step = "idle"
  /\ input' = h /\ left' = leftOver
  /\ clcTable' = Sized(DistBits, leftOver) /\ distTable' = Sized(DistBits, leftOver)
  /\ litTable' = Sized(LitBits, leftOver)
  /\ step' = "numbers"
  /\ UNCHANGED <<pos, curr, huffs, countVars, codeVars>>

-----------------------------------------------------------------------------
lensUnchanged == UNCHANGED <<input, left, pos, curr, huffs, countVars>>

ReadNumbers ==
  /\ step = "numbers"
  /\ step' = IF input.hlit > NumLens \/ input.hdist >= DistSyms
             THEN "invalid" ELSE "codes"
  /\ UNCHANGED <<codeVars, tableVars>> /\ lensUnchanged

\* codeLenCodes.  Bits behind the end of the input are read as zeros.
ClcLens ==
  [s \in ClcSyms |->
     IF \E k \in DOMAIN input.clc : ClcOrder[k] = s
     THEN input.clc[CHOOSE k \in DOMAIN input.clc : ClcOrder[k] = s] ELSE 0]

ClcCodes == SetCodes(ClcLens, Counts(ClcLens))

CodeLenCodes ==
  /\ step = "codes"
  /\ IF Len(input.clc) < input.hclen + MinClc
     THEN step' = "short" /\ UNCHANGED clcTable
     ELSE IF Oversubscribed(Counts(ClcLens))
     THEN step' = "invalid" /\ UNCHANGED clcTable
     ELSE step' = "lens" /\ clcTable' = SmallTable(clcTable, ClcCodes)
  /\ UNCHANGED <<codeVars, distTable, litTable>> /\ lensUnchanged

-----------------------------------------------------------------------------
(***************************************************************************)
(* readLitDistLens: one action is one turn of its loop.                    *)
(***************************************************************************)
\* The next bits of the items, and what they say; none if there is no code.
BitAt(p) == IF p <= Len(input.bits) THEN input.bits[p] ELSE 0
Item == LookUp(clcTable, DistBits, [k \in 1..DistBits |-> BitAt(pos + k)])
Sym == IF Item.len = 0 THEN ManyZeros + 1 ELSE Head(Item.syms)

Reading == step = "lens" /\ curr < End
InInput == pos + Item.len <= Len(input.bits)

\* The value of the extra bits of a repetition, and where they end.
ItemEnd == pos + Item.len + ExtraOf(Sym)
Extra == ValueOfBits([k \in 1..ExtraOf(Sym) |-> BitAt(pos + Item.len + k)])

\* The place of what comes by lengths after curr: behind the last announced
\* length of literals and lengths it goes on with the first of distances.
Place(p) == IF curr <= Boundary /\ p >= Boundary THEN p + Gap ELSE p

\* Length len goes to each of places.  The length of a match with extra bits
\* is not one code of len bits but some longer ones.
MatchLens(places) == {p \in places : LitSyms <= p /\ p < Boundary}
ExtraAt(p) == LenExtra[p - LitSyms]

\* (A faulty Expanded: the code without its extra bits is counted as well.)
ExpandedToo(places, len) ==
  IF len = 0 THEN litExpand
  ELSE [l \in DOMAIN litExpand |->
          (litExpand[l] + MapThenSumSet(LAMBDA p : IF len + ExtraAt(p) = l
                                                   THEN PowerOf2[ExtraAt(p)] ELSE 0,
                                        MatchLens(places))) % CountMod]

Expanded(places, len) ==
  IF len = 0 THEN litExpand
  ELSE [l \in DOMAIN litExpand |->
          (litExpand[l] + MapThenSumSet(LAMBDA p : IF len + ExtraAt(p) = l
                                                   THEN PowerOf2[ExtraAt(p)] ELSE 0,
                                        MatchLens(places))
             - (IF l = len THEN Cardinality(MatchLens(places)) ELSE 0)) % CountMod]

Put(places, len) ==
  LET lits == {p \in places : p < Boundary}
  IN  /\ huffs' = [p \in DOMAIN huffs |-> IF p \in places THEN len ELSE huffs[p]]
      /\ litCount' = [litCount EXCEPT ![len] = (@ + Cardinality(lits)) % CountMod]
      /\ distCount' = [distCount EXCEPT ![len] =
                         (@ + Cardinality(places \ lits)) % CountMod]
      /\ litExpand' = Expanded(places, len)

\* The code of an item is not all there.
Missing ==
  /\ Reading /\ ~InInput
  /\ step' = IF curr >= LitSyms /\ huffs[EndOfBlock] = 0 THEN "invalid" ELSE "short"
  /\ pos' = pos + Item.len
  /\ UNCHANGED <<input, left, curr, huffs, countVars, codeVars, tableVars>>

ReadLength ==
  /\ Reading /\ InInput /\ Sym <= MaxDepth
  /\ Put({Place(curr)}, Sym)
  /\ pos' = ItemEnd /\ curr' = Place(curr) + 1
  /\ UNCHANGED <<step, input, left, codeVars, tableVars>>

\* A length is repeated only if there is one, and not past the end.  The places
\* that are skipped at the boundary are not seen here.
RepeatsTooMuch(times) == curr + times > End \/ curr = 0

Places(times) == {Place(curr + k) : k \in 0..(times - 1)}

ReadRepeat ==
  /\ Reading /\ InInput /\ Sym = Repeat /\ ~RepeatsTooMuch(RepeatMin + Extra)
  /\ LET places == Places(RepeatMin + Extra)
     IN  IF \E p \in places : p >= End
         THEN /\ step' = "panic"
              /\ UNCHANGED <<curr, huffs, countVars>>
         ELSE /\ Put(places, huffs[curr - 1])
              /\ curr' = Max(places) + 1
              /\ UNCHANGED step
  /\ pos' = ItemEnd
  /\ UNCHANGED <<input, left, codeVars, tableVars>>

RefuseRepeat ==
  /\ Reading /\ InInput /\ Sym = Repeat /\ RepeatsTooMuch(RepeatMin + Extra)
  /\ step' = "invalid" /\ pos' = ItemEnd
  /\ UNCHANGED <<input, left, curr, huffs, countVars, codeVars, tableVars>>

\* (A faulty AfterZeros: the boundary is not skipped.)
AfterZerosNoSkip(times) == curr + times

\* Zeros are neither stored nor counted.  The boundary is skipped when they go
\* beyond it.
AfterZeros(times) == Place(curr + times - 1) + 1

ReadZeros ==
  /\ Reading /\ InInput /\ Sym \in {FewZeros, ManyZeros}
  /\ curr' = AfterZeros((IF Sym = FewZeros THEN FewMin ELSE ManyMin) + Extra)
  /\ pos' = ItemEnd
  /\ UNCHANGED <<step, input, left, huffs, countVars, codeVars, tableVars>>

ReadNothing ==
  /\ Reading /\ InInput /\ Sym > ManyZeros
  /\ step' = "invalid" /\ pos' = pos + Item.len
  /\ UNCHANGED <<input, left, curr, huffs, countVars, codeVars, tableVars>>

Finish ==
  /\ step = "lens" /\ curr >= End
  /\ step' = CASE curr > End \/ huffs[EndOfBlock] = 0 -> "invalid"
               [] pos > Len(input.bits) -> "short"
               [] OTHER -> "distances"
  /\ UNCHANGED <<codeVars, tableVars>> /\ lensUnchanged

ReadLitDistLens ==
  \/ Missing \/ ReadLength \/ ReadRepeat \/ RefuseRepeat \/ ReadZeros \/ ReadNothing
  \/ Finish

-----------------------------------------------------------------------------
(***************************************************************************)
(* The codes and their tables.                                             *)
(***************************************************************************)
LitLens == [s \in 0..(LitLen - 1) |-> huffs[s]]
DistLens == [s \in 0..(DistSyms - 1) |-> huffs[LitLen + s]]

SetDistCodes ==
  /\ step = "distances"
  /\ IF Oversubscribed(distCount)
     THEN step' = "invalid" /\ UNCHANGED distCodes
     ELSE step' = "dist table" /\ distCodes' = SetCodes(DistLens, distCount)
  /\ UNCHANGED <<litCodes, tableVars>> /\ lensUnchanged

GenForDists ==
  /\ step = "dist table"
  /\ distTable' = SmallTable(distTable, distCodes)
  /\ step' = "literals"
  /\ UNCHANGED <<codeVars, clcTable, litTable>> /\ lensUnchanged

\* setAndExpandLitLenHuffCode: where the codes of each length begin in the
\* list of all codes, those for all extra bits included; and the codes.
Starts ==
  LET start[l \in 0..(MaxTokenLen + 1)] ==
        IF l <= 1 THEN 0
        ELSE start[l - 1] + litExpand[l - 1]
               + (IF l - 1 <= MaxDepth THEN litCount[l - 1] ELSE 0)
  IN  [l \in DOMAIN start |-> start[l] % CountMod]

WithExtra(codes) ==
  [x \in Indexes |->
     IF codes[SymbolOf(x)] = <<>> THEN <<>>
     ELSE codes[SymbolOf(x)] \o ExtraCode(ValueOf(x), SymbolExtra(SymbolOf(x)))]

SetLitCodes ==
  /\ step = "literals"
  /\ IF Oversubscribed(litCount)
     THEN step' = "invalid" /\ UNCHANGED litCodes
     ELSE step' = "lit table" /\ litCodes' = WithExtra(SetCodes(LitLens, litCount))
  /\ UNCHANGED <<distCodes, tableVars>> /\ lensUnchanged

\* The last block of little input gets entries of one or two symbols.
GenForLitLen ==
  /\ step = "lit table"
  /\ \E multisym \in 1..3 : litTable' = LitTable(litCodes, multisym, left)
  /\ step' = "ok"
  /\ UNCHANGED <<codeVars, clcTable, distTable>> /\ lensUnchanged

\* The calls that setupDynamicHeader makes before and after.
SetUp ==
  \/ ReadNumbers \/ CodeLenCodes
  \/ SetDistCodes \/ GenForDists \/ SetLitCodes \/ GenForLitLen

Answered == step \in {"ok", "invalid", "short"}

-----------------------------------------------------------------------------
(***************************************************************************)
(* One call for any header, in the memory of any earlier blocks: numbers,  *)
(* lengths of 3 bits that are no more than there is place for, any bits.   *)
(***************************************************************************)
AnyHeader ==
  {h \in [hlit: Nat, hdist: Nat, hclen: Nat, clc: Seq(0..ClcLimit), bits: Seq({0, 1})] :
     Len(h.clc) <= Len(ClcOrder)}

LeftOver == {NoCode} \cup {Direct(syms, len) : syms \in Seq(Nat) \ {<<>>}, len \in Nat}

ReaderCall == \E h \in AnyHeader, e \in LeftOver : Arrives(h, e)
ReaderSpec == ReaderInit /\ [][ReaderCall \/ SetUp \/ ReadLitDistLens]_readerVars

-----------------------------------------------------------------------------
(***************************************************************************)
(* Properties.                                                             *)
(***************************************************************************)
\* What the reader has counted while it read agrees with the codes that it then
\* gives out: there are as many places for codes of each length, extra bits
\* included, in the list of codes as there are codes of this length.
CountsMatch ==
  step \in {"lit table", "ok"} =>
    /\ \A l \in 1..MaxTokenLen :
         (Starts[l + 1] - Starts[l]) % CountMod
           = Cardinality({x \in Indexes : Len(litCodes[x]) = l}) % CountMod
    /\ \A l \in 1..MaxDepth : distCount[l] = Cardinality(OfLength(DistLens, l))

\* What the tables say of any bits is what the codes say, be it one, two or
\* three symbols, short codes or long ones; and in a decompressor that has read
\* no other block, bits that begin with no code are found not to.
Agrees(table, k, codes, len) ==
  \A b \in Bits(len) :
    LET e == LookUp(table, k, b)
    IN  IF First(codes, b) # {} THEN IsDecode(codes, b, e)
        ELSE left = NoCode => e = NoCode

LookupIsDecode ==
  step = "ok" => /\ Agrees(litTable, LitBits, litCodes, MaxTokenLen)
                 /\ Agrees(distTable, DistBits, distCodes, MaxDepth)
=============================================================================
