----------------------------- MODULE Container -----------------------------
(***************************************************************************)
(* What gzip and zlib share: the file that their writers write and their   *)
(* readers read, and the compressor and the decompressor below them, each  *)
(* by its promise (PlainWriter, PlainReader).                              *)
(*                                                                         *)
(* A file is a sequence of units [k, v]: k says what the unit is, v what   *)
(* it holds.  A unit of data is what one byte of the plain text, number b  *)
(* of all that the client writes, compresses to with a dictionary:         *)
(* [text |-> b, dict |-> d].  A checksum is the sequence of the bytes that *)
(* it covers, so equal checksums mean equal data.                          *)
(***************************************************************************)
EXTENDS Integers, Sequences, SequencesExt, FiniteSets

CONSTANTS
  MaxText,             \* bytes that the client writes in all
  MaxMembers,          \* bounds: members of a file, faults (Writes below the
  MaxFaults, MaxResets, \* writer that fail, streams that go wrong, damage on
                       \* the way), Resets of the reader
  WriteSizes, ReadSizes,
  SizeMod,             \* 2^32 in gzip's trailer
  Headers,             \* what gzip's client sets in Writer.Header
  Dicts, None,         \* zlib's dictionaries; None is nil
  Levels,              \* the Writer's compressors: "dyn", "huffman", or "std"
  Readers              \* what the client reads from: "bufio", or "small" for
                       \* a bufio.Reader with less than 4096 bytes

ASSUME SizesOK ==
  SizeMod \in Nat \ {0} /\ WriteSizes \subseteq Nat /\ ReadSizes \subseteq Nat
ASSUME LevelsOK == Levels \subseteq {"dyn", "huffman", "std"}

VARIABLES
  format, stage,       \* "gzip" or "zlib"; the client's "write", then "read"
  file,                \* what the underlying writer has taken
  from, used,          \* the member has bytes from + 1 to used of the text
  texts,               \* the data of the members closed so far
  level,
  sound,               \* does what the compressor sends spell the data?
  intact,              \* has the file reached the reader whole, as it was?
  faults, resets,
  werr, wroteHeader, closed, head, wsum,    \* fields of Writer
  pend,                                     \* data its compressor holds
  rerr, rsum, multistream, dec,             \* fields of Reader
  pos,                 \* where z.r stands
  nested,              \* does the decompressor read z.r through a buffer of
                       \* its own?
  stale,               \* what the decompressor holds of an earlier stream
  filled,              \* did the last Read fill p?
  clean,               \* was nothing of an earlier stream left at the Reset?
  busy,                \* len(p) while Read runs, or -1
  first, out, ret      \* where Reset began, what Read put into p, its result

writerVars == <<werr, wroteHeader, closed, head, wsum, pend>>
readerVars == <<rerr, rsum, multistream, dec, pos, nested, stale, filled, clean,
                busy, first, out, ret, resets>>
clientVars == <<format, stage, from, used, texts, level, sound, intact>>
vars == <<file, faults, writerVars, readerVars, clientVars>>

Unit(k, v) == [k |-> k, v |-> v]
Start(flags) == <<Unit("head", flags), Unit("head", flags)>>
TooLong(u) == u.k \in {"name", "comment"} /\ u.v = "long"

\* CRC-32 or Adler-32, and the size modulo 2^32.
Zero == [crc |-> <<>>, size |-> 0]
Summed(sum, bytes) == [crc  |-> sum.crc \o bytes,
                       size |-> (sum.size + Len(bytes)) % SizeMod]

(***************************************************************************)
(* Writing                                                                 *)
(***************************************************************************)
Piece(n) == [i \in 1..n |-> used + i]
Dict == IF format = "zlib" THEN head ELSE None
Data(bytes) == [i \in DOMAIN bytes |-> Unit("data", [text |-> bytes[i], dict |-> Dict])]

\* The underlying writer takes all of the units, or fails behind some: in the
\* header, in what the compressor sends, or in the trailer.  A compressor that
\* has lost count of the stream may send something wrong where the next byte, or
\* the end of the stream, should come.
Wrong == {Unit("data", [text |-> 0, dict |-> Dict]), Unit("end", 0), Unit("bad", 0)}
Sends(start, bytes, rest) ==
  LET Units(body) == start \o body \o rest
      units == Units(Data(bytes))
  IN  \/ file' = file \o units /\ werr' = "nil" /\ UNCHANGED faults
      \/ /\ faults < MaxFaults /\ faults' = faults + 1
         /\ \E c \in 0..(Len(units) - 1) :
              /\ file' = file \o SubSeq(units, 1, c)
              /\ werr' = IF c < Len(start) THEN "Header"
                         ELSE IF c <= Len(start) + Len(bytes) THEN "Data" ELSE "Trailer"
      \/ /\ ~sound /\ faults < MaxFaults /\ faults' = faults + 1 /\ werr' = "nil"
         /\ \E c \in 0..Len(bytes), u \in Wrong :
              /\ c < Len(bytes) \/ rest # <<>>
              /\ file' = file \o Units(Data(SubSeq(bytes, 1, c)) \o <<u>>)

\* A call with n bytes sends start, the header unless that was sent before; then
\* the compressor sends k of the bytes that it holds; then comes rest.  A
\* compressor that fails still holds them all.  A call with Writer.err set does
\* nothing, and clients do not Write behind Close.
Call(n, k, start, rest) ==
  LET held == pend \o Piece(n)
  IN  /\ stage = "write" /\ werr = "nil" /\ ~closed
      /\ used + n <= MaxText /\ k <= Len(held)
      /\ used' = used + n /\ wroteHeader' = TRUE
      /\ wsum' = Summed(wsum, Piece(n))
      /\ Sends(IF wroteHeader THEN <<>> ELSE start, SubSeq(held, 1, k), rest)
      /\ pend' = IF werr' = "Header" THEN pend
                 ELSE IF werr' = "Data" THEN held
                 ELSE SubSeq(held, k + 1, Len(held))
      /\ UNCHANGED <<format, stage, from, level, intact, head, readerVars>>

Grows == UNCHANGED <<closed, texts, sound>>

\* Behind the block with which HuffmanOnly's Flush ends a reader may lose the
\* stream (huffmanonly.go:103).
Flushes == sound' = (sound /\ level # "huffman") /\ UNCHANGED <<closed, texts>>

\* What is sent at Close: all, but without data for this stream a dynCompressor
\* sends the last block and no more.
Closing == IF level = "dyn" /\ used = from THEN 0 ELSE Len(pend)
Closes ==
  /\ closed' = TRUE
  /\ texts' = IF werr' = "nil" THEN Append(texts, [i \in 1..(used - from) |-> from + i])
              ELSE texts
  /\ UNCHANGED sound

\* (A faulty Fresh: the checksum goes on.)
FreshButSum ==
  werr' = "nil" /\ wroteHeader' = FALSE /\ closed' = FALSE /\ UNCHANGED wsum
\* The fields of a Writer behind Reset.
Fresh ==
  werr' = "nil" /\ wroteHeader' = FALSE /\ closed' = FALSE /\ wsum' = Zero

\* Reset of a compressor.  A dynCompressor drops its window and its bits, and
\* keeps its tokens (dynamic.go:176), those of a block that failed and those it
\* has kept before too.
ResetCompressor ==
  pend' \in IF level = "dyn"
            THEN {SubSeq(pend, j, k) : j \in 1..(Len(pend) + 1), k \in 0..Len(pend)}
            ELSE {<<>>}
Forgets == pend' = <<>> /\ ~(level = "dyn" /\ (werr = "Data" \/ ~sound))

\* The client goes on with another member of the file, or with another file
\* when this member is not closed.
NextMember(heads) ==
  /\ stage = "write" /\ wroteHeader
  /\ from' = used /\ head' \in heads /\ Fresh /\ ResetCompressor
  /\ IF closed /\ werr = "nil"
     THEN /\ Len(texts) < MaxMembers /\ UNCHANGED <<file, texts>>
          /\ sound' = (sound /\ Forgets)
     ELSE file' = <<>> /\ texts' = <<>> /\ sound' = Forgets
  /\ UNCHANGED <<format, stage, used, level, intact, faults, readerVars>>

\* The file gets to the reader: as it is, cut, or with one unit changed.  Nothing
\* else of the writer matters any more.
Changed(u) ==
  CASE u.k = "data"  -> [u EXCEPT !.v.text = 0]
    [] u.k = "crc"   -> [u EXCEPT !.v = <<-1>>]
    [] u.k = "size"  -> [u EXCEPT !.v = (@ + 1) % SizeMod]
    [] u.k \in {"head", "end", "bad"} -> [u EXCEPT !.k = "bad"]
    [] u.k = "hcrc"  -> [u EXCEPT !.v = <<>>]
    [] OTHER         -> [u EXCEPT !.v = "changed"]

Damaged ==
  \/ \E c \in 0..(Len(file) - 1) : file' = SubSeq(file, 1, c)
  \/ \E i \in DOMAIN file : file' = [file EXCEPT ![i] = Changed(@)]

Transmit ==
  /\ stage = "write" /\ file # <<>> /\ stage' = "read"
  /\ \/ UNCHANGED file /\ intact' = (closed /\ werr = "nil" /\ sound)
     \/ faults < MaxFaults /\ Damaged /\ intact' = FALSE
  /\ Fresh /\ pend' = <<>> /\ from' = 0 /\ used' = 0 /\ faults' = 0
  /\ UNCHANGED <<format, texts, level, sound, head, readerVars>>

(***************************************************************************)
(* Reading                                                                 *)
(***************************************************************************)
Left(p) == IF p < Len(file) THEN Len(file) - p ELSE 0
IsUnit(i, u) == file[i].k = u.k /\ file[i].v = u.v

\* What the decompressor makes of the file from pos on: the plain bytes up to
\* what it cannot decode, and the error there.
NoDecompressor == [kind |-> "nil", dict |-> None]
Decodes(u) == u.k = "data"
              /\ (u.v.dict = None \/ (dec.kind = "std" /\ dec.dict = u.v.dict))
Plain ==
  LET stop == CHOOSE q \in pos..Len(file) :
                /\ \A i \in (pos + 1)..q : Decodes(file[i])
                /\ q < Len(file) => ~Decodes(file[q + 1])
  IN  [i \in 1..(stop - pos) |-> file[pos + i].v.text]
PlainErr ==
  LET p == pos + Len(Plain)
  IN  IF Left(p) = 0 THEN "UnexpectedEOF"
      ELSE IF file[p + 1].k = "end" THEN "EOF" ELSE "Corrupt"

\* The results of decompressor.Read into a buffer of `size` bytes.
Inflated(size) ==
  LET m == Len(Plain)
  IN  {[n |-> n, err |-> "nil"] : n \in {i \in 0..m : i <= size /\ (i > 0 <=> size > 0)
                                                     /\ m > 0}}
      \cup {[n |-> n, err |-> PlainErr] : n \in {m} \cap 0..size}

\* Where z.r stands behind a stream: behind it, unless there is a buffer between
\* z.r and the decompressor.
Behind(r) == IF nested THEN (pos + r.n + 1)..Len(file) ELSE {pos + r.n + 1}

\* (Clients do not Read behind io.EOF, be it that Close has cleared it.)
CallRead(size) ==
  /\ stage = "read" /\ dec.kind # "nil" /\ busy = -1 /\ rerr = "nil" /\ ret.err # "EOF"
  /\ busy' = size
  /\ UNCHANGED <<file, faults, resets, writerVars, clientVars, rerr, rsum, multistream,
                 dec, pos, nested, stale, filled, clean, first, out, ret>>

\* decompressor.Read begins with what a Reset has left in the history buffer.
ReadStale ==
  /\ busy # -1 /\ stale # <<>>
  /\ LET n == Min({busy, Len(stale)})
     IN  /\ out' = out \o SubSeq(stale, 1, n)
         /\ rsum' = Summed(rsum, SubSeq(stale, 1, n))
         /\ stale' = SubSeq(stale, n + 1, Len(stale))
         /\ ret' = [n |-> n, put |-> n, err |-> "nil"]
  /\ busy' = -1 /\ filled' = FALSE
  /\ UNCHANGED <<file, faults, resets, writerVars, clientVars, rerr, multistream, dec,
                 pos, nested, clean, first>>

\* (A faulty Got: bytes that come with an error are dropped.)
GotWithoutError(r) == IF r.err = "nil" THEN SubSeq(Plain, 1, r.n) ELSE <<>>
\* The bytes that decompressor.Read has put into p.
Got(r) == SubSeq(Plain, 1, r.n)

\* Read has put r.n bytes into p, has z.r at q, and returns n and err.
Returns(r, q, sum, n, err) ==
  /\ out' = out \o Got(r)
  /\ pos' = q /\ rsum' = sum /\ rerr' = err /\ busy' = -1
  /\ ret' = [n |-> n, put |-> r.n, err |-> err]
  /\ filled' = (r.n = busy /\ err = "nil")
  /\ UNCHANGED <<file, faults, resets, writerVars, clientVars, multistream, dec, nested,
                 stale, clean, first>>

\* (A faulty GoesOut: Read waits for data although p is empty.)
GoesOutWithData(r) == r.err \notin {"EOF", "nil"} \/ (r.err = "nil" /\ r.n > 0)
\* Read returns at once: no end of the stream has been met.
GoesOut(r) == r.err # "EOF"

\* The data, or the error of the decompressor.
ReadData ==
  /\ busy # -1 /\ stale = <<>>
  /\ \E r \in Inflated(busy) :
       /\ GoesOut(r)
       /\ Returns(r, pos + r.n, Summed(rsum, Got(r)), r.n, r.err)

\* What the fast decompressor has decoded and Read has not taken.  Its Reset
\* keeps readPos and writePos (reader.go:77).
Ahead ==
  IF stale # <<>> THEN {stale}
  ELSE IF filled /\ dec.kind = "fast" THEN {SubSeq(Plain, 1, k) : k \in 0..Len(Plain)}
  ELSE {<<>>}

\* The client resets its Reader to what follows the stream it has read, or to the
\* start of the file; open[p] is what the format makes of the header there.
ResetReader(open) ==
  /\ stage = "read" /\ busy = -1 /\ resets < MaxResets /\ resets' = resets + 1
  /\ \E p \in {0} \cup (IF ret.err = "EOF" /\ ~multistream THEN {pos} ELSE {}) :
       LET h == open[p]
       IN  /\ first' = p /\ out' = <<>> /\ rsum' = Zero
           /\ rerr' = h.err /\ ret' = [n |-> 0, put |-> 0, err |-> h.err]
           /\ IF h.err = "nil" THEN pos' = h.to ELSE pos' = p
  /\ stale' \in Ahead /\ clean' = (stale' = <<>>) /\ filled' = FALSE
  /\ UNCHANGED <<file, faults, writerVars, clientVars, busy>>

(***************************************************************************)
(* Properties                                                              *)
(***************************************************************************)
MembersAt(p) == Cardinality({i \in 1..p : file[i].k = "crc"})

\* Read returns io.EOF only behind the trailer of a member (of the last one if it
\* goes on from member to member), with exactly the data that the writer was
\* given for the members it passed, whatever has happened to the file
\* (ungzip.go:78, zlib/reader.go:110).
EofMeansAll ==
  ret.err = "EOF" =>
    /\ out = FlattenSeq(SubSeq(texts, MembersAt(first) + 1, MembersAt(pos)))
    /\ IF multistream THEN pos = Len(file)
       ELSE pos = first \/ file[pos].k \in {"crc", "size"}

\* A file that was closed and has not changed on its way reads without an error,
\* with any header but a string that does not fit the Reader's buffer, and
\* any dictionary but another one.  Not so when the compressor kept data of an
\* earlier stream at a Reset or HuffmanOnly was flushed (the runs dyn_reset_stale
\* and huffman_flush), or when the Reader was Reset with data still to be taken
\* (inflate_reset_stale).
IntactReads ==
  intact /\ clean /\ first < Len(file) =>
    \/ ret.err \in {"nil", "EOF", "Dictionary"}
    \/ ret.err = "Header" /\ \E i \in DOMAIN file : TooLong(file[i])

\* The error for a file that ends early comes behind all the data that has
\* arrived (so what was flushed can be read), and is no other error; with the
\* exceptions of IntactReads.
Arrived ==
  LET text[i \in 0..Len(file)] ==
        IF i <= first THEN <<>>
        ELSE IF file[i].k = "data" THEN Append(text[i - 1], file[i].v.text)
        ELSE text[i - 1]
  IN  text[Len(file)]

ArrivedIsRead == sound /\ clean /\ ret.err = "UnexpectedEOF" => out = Arrived

\* Read returns the number of bytes that it has put into p: "Read implements
\* io.Reader, reading uncompressed bytes" (ungzip.go:256).
CountsBytes == ret.n = ret.put
=============================================================================
