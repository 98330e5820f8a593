---------------------------- MODULE LookupTables ----------------------------
(***************************************************************************)
(* The tables in which the decompressor looks up codes (huffcode.go,       *)
(* genForDists in header.go).  A table has an entry for each value of its  *)
(* first bits; codes that are longer have their entries in a part for the  *)
(* values of the bits that follow.  An entry of the table for literals and *)
(* lengths may stand for two or three symbols at once.                     *)
(*                                                                         *)
(* A table is a function on bit sequences, in the order in which the bits  *)
(* arrive.  A table is made in the memory of that of an earlier block; the *)
(* entries found there are those of the argument old.  Entries of old that *)
(* lead to long codes are not modelled, nor is where a part for long codes *)
(* lies in the array that holds all of them.                               *)
(***************************************************************************)
EXTENDS HeaderFormat

CONSTANTS
  LitBits,      \* litLenLookupBits: 12
  DistBits      \* distLookupBits: 10, for code length symbols too

ASSUME BitsOK == LitBits \in Nat \ {0} /\ DistBits \in Nat \ {0}

Bits(k) == [1..k -> {0, 1}]

\* An entry stands for its symbols, and takes len bits; one of no bits is what
\* the decoder takes as the sign that there is no such code.
Direct(syms, len) == [kind |-> "code", len |-> len, syms |-> syms]
Longer(len, part) == [kind |-> "long", len |-> len, part |-> part]
NoCode == Direct(<<>>, 0)

Sized(k, entry) == [b \in Bits(k) |-> entry]

\* The table of k bits grows from one that is as small as the shortest code has
\* bits: it is doubled for each more bit, and the codes of this length are put
\* in.  So an entry is the one for the most bits that has been put in, or has
\* been in old, where the smallest table was.
Doubled(old, k, first, direct) ==
  LET Filled(b) == {m \in first..k : SubSeq(b, 1, m) \in DOMAIN direct}
      Smallest(b) == [i \in 1..k |-> IF i < first THEN b[i] ELSE 0]
  IN  [b \in Bits(k) |-> IF Filled(b) = {} THEN old[Smallest(b)]
                         ELSE direct[SubSeq(b, 1, Max(Filled(b)))]]

\* The codes that begin with the k bits b and go on, and how far they go.
LongOnes(codes, k, b) ==
  {s \in DOMAIN codes : Len(codes[s]) > k /\ IsPrefixOf(b, codes[s])}
LongestOf(codes, s) == Max({Len(codes[x]) : x \in s})

\* The part for these; entry[s] is that of a code, old what was there.
LongPart(codes, entry, k, b, old) ==
  LET s == LongOnes(codes, k, b)
      len == LongestOf(codes, s)
      Which(c) == {x \in s : IsPrefixOf(codes[x], b \o c)}
  IN  Longer(len, [c \in Bits(len - k) |->
                     IF Which(c) = {} THEN old ELSE entry[Min(Which(c))]])

Used(codes) == {s \in DOMAIN codes : codes[s] # <<>>}

\* Codes of up to k bits, each as the pair of itself and its entry.
WithLong(table, codes, entry, k, old) ==
  [b \in Bits(k) |-> IF LongOnes(codes, k, b) = {} THEN table[b]
                     ELSE LongPart(codes, entry, k, b, old)]

Shortest(codes) == Min({Len(codes[s]) : s \in Used(codes)})

-----------------------------------------------------------------------------
\* GenerateForHeader and genForDists.  Without any code, the table stays as it
\* was; parts for long codes are cleared.
SmallTable(old, codes) ==
  LET entry == [s \in DOMAIN codes |-> Direct(<<s>>, Len(codes[s]))]
      short == {s \in Used(codes) : Len(codes[s]) <= DistBits}
      direct == [b \in {codes[s] : s \in short} |->
                   entry[CHOOSE s \in short : codes[s] = b]]
  IN  IF Used(codes) = {} THEN old
      ELSE WithLong(Doubled(old, DistBits, Shortest(codes), direct),
                    codes, entry, DistBits, NoCode)

-----------------------------------------------------------------------------
(***************************************************************************)
(* genForLitLen.  The codes are those of all numbers for literals and      *)
(* lengths, extra bits included.                                           *)
(***************************************************************************)
\* indexToSym: the last length has two numbers, and is one symbol.
IndexToSym(index) == IF index = MaxLitLenSym + 1 THEN MaxLitLenSym ELSE index

\* An entry has 25 bits for symbols, of which a third one gets the last 9.
ThirdSym(sym) == sym % MaxLitLenSym

Singles(codes) == {<<x>> : x \in {y \in Used(codes) : Len(codes[y]) <= LitBits}}

\* Only a literal has another symbol after it in its entry.
Pairs(codes) ==
  {xs \in Used(codes) \X Used(codes) :
     xs[1] < EndOfBlock /\ Len(codes[xs[1]]) + Len(codes[xs[2]]) <= LitBits}

\* (A faulty encodeTriples: the last length may come third.)
TriplesWithLast(codes) ==
  {xs \in Used(codes) \X Used(codes) \X Used(codes) :
     /\ xs[1] < EndOfBlock /\ xs[2] < EndOfBlock
     /\ Len(codes[xs[1]]) + Len(codes[xs[2]]) + Len(codes[xs[3]]) <= LitBits}

\* The last length does not fit in what an entry has for a third symbol.
Triples(codes) ==
  {xs \in Used(codes) \X Used(codes) \X Used(codes) :
     /\ xs[1] < EndOfBlock /\ xs[2] < EndOfBlock
     /\ IndexToSym(xs[3]) < MaxLitLenSym
     /\ Len(codes[xs[1]]) + Len(codes[xs[2]]) + Len(codes[xs[3]]) <= LitBits}

Joined(codes, xs) == FlattenSeq([k \in DOMAIN xs |-> codes[xs[k]]])

EntryOf(codes, xs) ==
  Direct([k \in DOMAIN xs |-> IF k = 3 THEN ThirdSym(IndexToSym(xs[k]))
                              ELSE IndexToSym(xs[k])],
         Len(Joined(codes, xs)))

\* How many symbols an entry has depends on multisym, the most it may have.
LitTable(codes, multisym, old) ==
  LET lists == Singles(codes)
                 \cup (IF multisym >= 2 THEN Pairs(codes) ELSE {})
                 \cup (IF multisym >= 3 THEN Triples(codes) ELSE {})
      direct == [b \in {Joined(codes, xs) : xs \in lists} |->
                   EntryOf(codes, CHOOSE xs \in lists : Joined(codes, xs) = b)]
      entry == [x \in DOMAIN codes |-> Direct(<<IndexToSym(x)>>, Len(codes[x]))]
  IN  IF Used(codes) = {} THEN Sized(LitBits, NoCode)
      ELSE WithLong(Doubled(Sized(LitBits, NoCode), LitBits, Shortest(codes), direct),
                    codes, entry, LitBits, old)

-----------------------------------------------------------------------------
\* What the decoder finds for the bits b, of a table of k bits.
LookUp(table, k, b) ==
  LET e == table[SubSeq(b, 1, k)]
  IN  IF e.kind = "long" THEN e.part[SubSeq(b, k + 1, e.len)] ELSE e

-----------------------------------------------------------------------------
(***************************************************************************)
(* Reference: symbols are read one at a time, each by the one code that    *)
(* the bits begin with.                                                    *)
(***************************************************************************)
First(codes, b) == {s \in Used(codes) : IsPrefixOf(codes[s], b)}

\* e says of bits b what their codes say, up to the end of the block or to a
\* match, behind which come other codes.
IsDecode(codes, b, e) ==
  LET read == FoldLeft(
        LAMBDA r, sym :
          IF \E s \in First(codes, r.rest) : r.ok /\ IndexToSym(s) = sym
          THEN [r EXCEPT !.rest =
                  SubSeq(@, Len(codes[CHOOSE s \in First(codes, @) : TRUE]) + 1, Len(@))]
          ELSE [r EXCEPT !.ok = FALSE],
        [ok |-> TRUE, rest |-> b], e.syms)
  IN  /\ read.ok /\ Len(b) - Len(read.rest) = e.len
      /\ e.syms # <<>> /\ \A k \in 1..(Len(e.syms) - 1) : e.syms[k] < EndOfBlock
=============================================================================
