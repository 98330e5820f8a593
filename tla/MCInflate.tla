----------------------------- MODULE MCInflate -----------------------------
(***************************************************************************)
(* Small instances of Inflate.  Bits, bytes, the register and the widths   *)
(* of codes are those of the code; the window, the header buffer and the   *)
(* bufio.Reader are a few bytes, so that headers span several Peeks, the   *)
(* window slides, and literals and matches overflow it.                    *)
(***************************************************************************)
EXTENDS Inflate, TLC

(***************************************************************************)
(* Streams are written as lists of items and laid out bit by bit.          *)
(***************************************************************************)
HdrBits == 3           \* BFINAL and BTYPE
LenBytes == 4          \* LEN and NLEN

Blank == [kind |-> "entry", o |-> 0, w |-> 0, final |-> FALSE, form |-> "",
          len |-> 0, lits |-> 0, tail |-> "none", dw |-> 0, xw |-> 0,
          dist |-> 0]

Huff(fin, w)    == [Blank EXCEPT !.kind = "hdr", !.form = "huff",
                                 !.final = fin, !.w = w]
StoredHdr(fin, n) == [Blank EXCEPT !.kind = "hdr", !.form = "stored",
                                   !.final = fin, !.len = n]
BadHdr          == [Blank EXCEPT !.kind = "hdr", !.form = "bad", !.w = HdrBits]
Lits(w, n)      == [Blank EXCEPT !.w = w, !.lits = n]
Eob(w, n)       == [Blank EXCEPT !.w = w, !.lits = n, !.tail = "eob"]
Match(w, n, dw, xw, dist, len) ==
  [Blank EXCEPT !.w = w, !.lits = n, !.tail = "match", !.dw = dw, !.xw = xw,
                !.dist = dist, !.len = len]
BadSym(w)       == [Blank EXCEPT !.w = w, !.tail = "badsym"]
BadDist(w, n, dw) == [Blank EXCEPT !.w = w, !.lits = n, !.tail = "baddist",
                                   !.dw = dw]

Extend(f, lo, n, val(_)) == f @@ [i \in lo..(lo + n - 1) |-> val(i)]

\* Bits of the header of a stored block that starts at bit p.
StoredWidth(p) ==
  HdrBits + ((ByteBits - ((p + HdrBits) % ByteBits)) % ByteBits)
          + LenBytes * ByteBits

\* One item more.  Byte o of the text of stream number id is 100 * id + o,
\* unless a match puts an earlier byte there.
Lay(id, acc, item) ==
  LET w   == IF item.form = "stored" THEN StoredWidth(acc.p) ELSE item.w
      fin == IF item.kind = "hdr" THEN item.final ELSE acc.final
      e   == [item EXCEPT !.o = acc.o, !.w = w, !.final = fin]
      q   == acc.p + Width(e)
      n   == IF item.form = "stored" THEN item.len ELSE 0
      byte(j) == [Blank EXCEPT !.kind = "byte", !.o = acc.o + j, !.w = ByteBits,
                               !.final = fin]
      elem == acc.elem @@ (acc.p :> e)
                @@ [r \in {q + j * ByteBits : j \in 0..(n - 1)} |->
                      byte((r - q) \div ByteBits)]
      made  == IF e.kind = "hdr" THEN n ELSE Produces(e)
      plain1 == Extend(acc.plain, acc.o, IF e.kind = "hdr" THEN n ELSE e.lits,
                       LAMBDA i : 100 * id + i)
      m == acc.o + e.lits
      plain2 == IF e.tail = "match"
                THEN Extend(plain1, m, e.len,
                       LAMBDA i : IF e.dist > m THEN 0
                                  ELSE plain1[m - e.dist + ((i - m) % e.dist)])
                ELSE plain1
  IN  [p |-> q + n * ByteBits, o |-> acc.o + made, final |-> fin,
       elem |-> elem, plain |-> plain2]

\* The stream with d bytes more (or, if d < 0, fewer) than it needs.
Stream(id, items, d) ==
  LET laid[i \in 0..Len(items)] ==
        IF i = 0 THEN [p |-> 0, o |-> 0, final |-> FALSE, elem |-> <<>>,
                       plain |-> <<>>]
        ELSE Lay(id, laid[i - 1], items[i])
      acc == laid[Len(items)]
  IN  [elem |-> acc.elem, end |-> acc.p, total |-> acc.o, plain |-> acc.plain,
       bytes |-> CeilDiv(acc.p, ByteBits) + d]

\* Literals, a match that runs over its own output, and a stored block that
\* overflows the window.
Mixed == << Huff(FALSE, 131), Lits(12, 3), Match(9, 1, 5, 2, 2, 3), Eob(10, 1),
            StoredHdr(TRUE, 3) >>
\* A match and a literal run across the output limit.
Spills == << Huff(TRUE, 40), Lits(12, 3), Match(20, 0, 15, 13, 1, 4),
             Match(12, 2, 14, 1, 4, 4), Lits(11, 2), Eob(7, 0) >>
SpillLits == << Huff(FALSE, 3), Lits(12, 3), Lits(12, 3), Eob(12, 3),
                StoredHdr(TRUE, 0) >>
\* One step makes more output than the window holds.
Dense == << Huff(TRUE, 3), Lits(1, 1) >> \o [i \in 1..5 |-> Match(1, 0, 1, 0, 1, 4)]
         \o << Eob(1, 0) >>
Empty == << StoredHdr(FALSE, 0), Huff(TRUE, 3), Eob(7, 0) >>
StoredLong == << StoredHdr(FALSE, 9), StoredHdr(TRUE, 2) >>
BadBlock == << StoredHdr(FALSE, 2), BadHdr >>
BadSymbol == << Huff(TRUE, 70), Lits(9, 2), BadSym(15) >>
BadDistance == << Huff(TRUE, 3), Lits(12, 3), Match(8, 0, 15, 0, 3, 4),
                  BadDist(10, 2, 15) >>
BackTooFar == << Huff(TRUE, 75), Lits(2, 2), Match(10, 1, 4, 1, 4, 3), Eob(10, 0) >>

GoodLists == <<Mixed, Spills, SpillLits, Dense, Empty, StoredLong>>
BadLists  == <<BadBlock, BadSymbol, BadDistance>>

\* Each of the lists laid out, with d bytes more than needed.
Streams(lists, d) == {Stream(i, lists[i], d) : i \in DOMAIN lists}

\* For clients that Reset: a few streams that differ in every byte.
FewStreams == {Stream(1, Mixed, -1), Stream(2, Spills, 1), Stream(4, BadSymbol, 0)}
\* Complete streams, with and without other data behind them, faulty ones, and
\* every truncation of one with all kinds of blocks: d bytes are missing.
AllStreams == FewStreams
              \cup Streams(GoodLists \o BadLists \o <<BackTooFar>>, 0)
              \cup Streams(GoodLists, 2)
              \cup {s \in UNION {Streams(<<Mixed>>, -d) : d \in 1..36} : s.bytes >= 0}

\* (TLC evaluates the definitions above once, and what a .cfg puts in the place
\* of a constant whenever it meets the constant.)
MCSource == AllStreams
MCReset == FewStreams

\* Bounds the readers that are Reset, and what they are Reset to.  BackTooFar is
\* not among them: see FreshAfterReset.
ResetAmongFew == resets' # resets => {src, src'} \subseteq FewStreams

MCByte == 0..1200
=============================================================================
