--------------------------- MODULE DeflateStream ---------------------------
(***************************************************************************)
(* The compressed input of the decompressor, as the decompressor sees it:  *)
(* a string of bytes in which the elements that the decoder takes in one   *)
(* go (a block header, a byte of a stored block, an entry of the           *)
(* literal/length table) start at known bit positions.                     *)
(*                                                                         *)
(* A stream is a record                                                    *)
(*   elem  : bit position -> element that starts there                     *)
(*   end   : bit position behind the last element of a complete stream     *)
(*   plain : output offset (from 0) -> byte of the uncompressed data       *)
(*   total : how many bytes the uncompressed data has                      *)
(*   bytes : how many bytes the underlying reader holds.  It is smaller    *)
(*           than the stream for a truncated one, and larger when data of  *)
(*           somebody else (a gzip trailer) follows                        *)
(*                                                                         *)
(* and an element is a record                                              *)
(*   kind  : "hdr", "byte" or "entry"                                      *)
(*   o     : output offset at which its first output byte belongs          *)
(*   w     : bits of a header with its padding, of a byte, or of the       *)
(*           literal/length code of an entry                               *)
(*   final : the BFINAL flag of the block                                  *)
(*   form  : "stored", "huff" or "bad" for a header                        *)
(*   len   : bytes of a stored block, or of the match of an entry          *)
(*   lits  : literals of an entry (the decoder packs up to three symbols   *)
(*           that one table lookup finds into an entry)                    *)
(*   tail  : what ends an entry: "none", "eob", "match", "badsym" (a code  *)
(*           that stands for nothing) or "baddist"                         *)
(*   dw, xw, dist : bits of the distance code, of its extra bits, and the  *)
(*           distance                                                      *)
(***************************************************************************)
EXTENDS Integers, Sequences

ByteBits == 8

\* Bits of the whole element.
Width(e) == e.w + e.dw + e.xw

\* Output bytes of the whole element.
Produces(e) ==
  CASE e.kind = "hdr"   -> 0
    [] e.kind = "byte"  -> 1
    [] e.kind = "entry" -> e.lits + (IF e.tail = "match" THEN e.len ELSE 0)

\* An element the decoder has to refuse, whatever comes before it.
Malformed(e) ==
  \/ e.kind = "hdr" /\ e.form = "bad"
  \/ e.kind = "entry" /\ e.tail \in {"badsym", "baddist"}

\* A match that reaches back before the first byte of its own stream.
TooFarBack(e) ==
  e.kind = "entry" /\ e.tail = "match" /\ e.dist > e.o + e.lits

\* Position q is where the stream goes on after a block: at the next block
\* header, or at the end after the last block.
AfterBlock(S, q, o, fin) ==
  IF fin THEN q = S.end /\ o = S.total
  ELSE q \in DOMAIN S.elem /\ S.elem[q].kind = "hdr" /\ S.elem[q].o = o

\* From position q on the stream holds the last n bytes of a stored block.
StoredRun(S, q, n, o, fin) ==
  /\ \A j \in 0..n-1 :
       /\ q + j * ByteBits \in DOMAIN S.elem
       /\ S.elem[q + j * ByteBits].kind = "byte"
       /\ S.elem[q + j * ByteBits].o = o + j
  /\ AfterBlock(S, q + n * ByteBits, o + n, fin)

\* At position q the stream holds an entry of a Huffman block.
EntryAt(S, q, o, fin) ==
  /\ q \in DOMAIN S.elem
  /\ S.elem[q].kind = "entry"
  /\ S.elem[q].o = o
  /\ S.elem[q].final = fin

\* Position q is where the stream goes on, with the byte of the text at o.
GoesOnAt(S, q, o) ==
  IF q = S.end THEN o = S.total ELSE q \in DOMAIN S.elem /\ S.elem[q].o = o

\* What follows each element that the decoder accepts.
WellFormed(S) ==
  /\ 0 \in DOMAIN S.elem /\ S.end \notin DOMAIN S.elem
  /\ S.elem[0].kind = "hdr" /\ S.elem[0].o = 0
  /\ \A p \in DOMAIN S.elem :
       LET e == S.elem[p] IN
         /\ e.kind = "hdr" /\ e.form = "stored" =>
              /\ (p + e.w) % ByteBits = 0 /\ e.len \in Nat
              /\ StoredRun(S, p + e.w, e.len, e.o, e.final)
         /\ e.kind = "hdr" /\ e.form = "huff" => EntryAt(S, p + e.w, e.o, e.final)
         /\ e.kind = "entry" /\ e.tail \in {"none", "match"} =>
              EntryAt(S, p + Width(e), e.o + Produces(e), e.final)
         /\ e.kind = "entry" /\ e.tail = "eob" =>
              AfterBlock(S, p + Width(e), e.o + e.lits, e.final)
         /\ e.kind = "byte" => GoesOnAt(S, p + Width(e), e.o + 1)

\* A match repeats the text: every byte of it is the one dist bytes before.
Repeats(S) ==
  \A p \in DOMAIN S.elem :
    LET e == S.elem[p]
        m == e.o + e.lits
    IN  e.kind = "entry" /\ e.tail = "match" /\ ~TooFarBack(e) =>
          \A x \in m..(m + e.len - 1) : S.plain[x] = S.plain[x - e.dist]

\* The sizes an element can have.
ElementOK(e, maxHdr, maxSyms, maxDist, maxMatch, maxBits) ==
  /\ e.o \in Nat /\ e.final \in BOOLEAN
  /\ e.w \in Nat /\ e.dw \in Nat /\ e.xw \in Nat
  /\ e.dw + e.xw > 0 => e.kind = "entry" /\ e.tail \in {"match", "baddist"}
  /\ \/ /\ e.kind = "hdr" /\ e.form \in {"stored", "huff", "bad"}
        /\ e.w \in 1..(maxHdr * ByteBits) /\ e.lits = 0
     \/ e.kind = "byte" /\ e.w = ByteBits
     \/ /\ e.kind = "entry" /\ Width(e) \in 1..maxBits
        /\ e.tail \in {"none", "eob", "match", "badsym", "baddist"}
        /\ e.lits \in 0..maxSyms
        /\ e.tail \in {"match", "baddist"} => e.lits < maxSyms
        /\ e.tail = "badsym" => e.lits = 0
        /\ e.tail = "match" => e.dist \in 1..maxDist /\ e.len \in 1..maxMatch

(***************************************************************************)
(* The reference: how many bytes a reader has to hand out for the stream,  *)
(* and how it has to end, if it is read from position q on.  An element    *)
(* counts when all its bits are there.                                     *)
(***************************************************************************)
OutcomeFrom(S, q) ==
  LET from[p \in DOMAIN S.elem \cup {S.end}] ==
        IF p = S.end THEN [n |-> S.total, err |-> "EOF"]
        ELSE LET e == S.elem[p] IN
             IF p + Width(e) > S.bytes * ByteBits
               THEN [n |-> e.o, err |-> "UnexpectedEOF"]
             ELSE IF Malformed(e) \/ TooFarBack(e)
               THEN [n |-> e.o + e.lits, err |-> "Corrupt"]
             ELSE from[p + Width(e)]
  IN from[q]

Outcome(S) == OutcomeFrom(S, 0)
=============================================================================
