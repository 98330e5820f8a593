-------------------------------- MODULE Gzip --------------------------------
(***************************************************************************)
(* compress/gzip: Writer (gzip.go) and Reader (ungzip.go).                 *)
(***************************************************************************)
EXTENDS Container

\* A header says of each field "none", "ok", "refused" (the Writer cannot write
\* it) or "long" (a string of 512 bytes or more, which the Reader cannot read).
\* The Writer has no "hcrc"; a header with one stands for another program's.
Fields == {"extra", "name", "comment", "hcrc"}

ASSUME HeadersOK == Headers \subseteq [Fields -> {"none", "ok", "refused", "long"}]

FieldsOf(h) ==
  LET Present(f) == IF h[f] # "none" THEN <<f>> ELSE <<>>
  IN  Present("extra") \o Present("name") \o Present("comment") \o Present("hcrc")

\* The header that is written for h, up to the first field that is refused.
HeadUnits(h) ==
  LET fs    == FieldsOf(h)
      start == Start(fs)
      units == start \o [i \in DOMAIN fs |-> Unit(fs[i], h[fs[i]])]
      bad   == SelectInSeq(fs, LAMBDA f : h[f] = "refused")
  IN  IF bad # 0 THEN SubSeq(units, 1, 1 + bad)
      ELSE IF h.hcrc # "none" THEN [units EXCEPT ![Len(units)].v = Front(units)]
      ELSE units
Refused(h) == \E f \in Fields : h[f] = "refused"

Trailer(sum) == <<Unit("crc", sum.crc), Unit("size", sum.size)>>

(***************************************************************************)
(* Writer                                                                  *)
(***************************************************************************)
GzipCall(n, k, rest) ==
  /\ format = "gzip" /\ (wroteHeader \/ ~Refused(head))
  /\ Call(n, k, HeadUnits(head), rest)

Write(n) == /\ \E k \in 0..(Len(pend) + n) : GzipCall(n, k, <<>>)
            /\ Grows
Flush == GzipCall(0, Len(pend), <<>>) /\ Flushes
Close == GzipCall(0, Closing, <<Unit("end", 0)>> \o Trailer(wsum)) /\ Closes

\* The first call with a header that cannot be written.
RefuseHeader ==
  /\ format = "gzip" /\ stage = "write" /\ werr = "nil" /\ ~wroteHeader /\ Refused(head)
  /\ wroteHeader' = TRUE /\ closed' \in BOOLEAN
  /\ \/ file' = file \o HeadUnits(head) /\ werr' = "Refused" /\ UNCHANGED faults
     \/ Sends(HeadUnits(head), <<>>, <<>>) /\ werr' = "Header"
  /\ UNCHANGED <<head, wsum, pend, clientVars, readerVars>>

GzipReset == format = "gzip" /\ NextMember(Headers)

(***************************************************************************)
(* Reader                                                                  *)
(***************************************************************************)
\* readHeader from position p: where it ends, or the error.
ReadHeader(p) ==
  LET fs    == file[p + 1].v
      end   == p + 2 + Len(fs)
      there == SubSeq(file, p + 1, Min({end, Len(file)}))
      Err(e) == [to |-> p, err |-> e]
  IN  IF Left(p) = 0 THEN Err("EOF")
      ELSE IF Left(p) = 1 THEN Err("UnexpectedEOF")
      ELSE IF \E i \in {1, 2} : there[i].k # "head" THEN Err("Header")
      ELSE IF \E i \in 3..Len(there) : TooLong(there[i]) THEN Err("Header")
      ELSE IF Len(there) < 2 + Len(fs) THEN Err("UnexpectedEOF")
      ELSE IF fs # <<>> /\ Last(fs) = "hcrc" /\ Last(there).v # Front(there)
        THEN Err("Header")
      ELSE [to |-> end, err |-> "nil"]

\* readHeader gives the rest to the decompressor: to a new one, which wraps a
\* small bufio.Reader once more, or to the old one, which does not.
Opened(ok, r) ==
  IF ok /\ dec.kind = "nil"
  THEN dec' = [kind |-> "fast", dict |-> None] /\ nested' = (r = "small")
  ELSE UNCHANGED dec /\ nested' = (nested /\ ~ok)

ResetGzipReader ==
  /\ format = "gzip" /\ multistream' = TRUE
  /\ ResetReader([p \in {0, pos} |-> ReadHeader(p)])
  /\ \E r \in Readers : Opened(rerr' = "nil", r)

Multistream(ok) ==
  /\ format = "gzip" /\ stage = "read" /\ busy = -1 /\ dec.kind # "nil" /\ rerr = "nil"
  /\ multistream' = ok
  /\ UNCHANGED <<file, faults, resets, writerVars, clientVars, rerr, rsum, dec, pos, nested,
                 stale, filled, clean, busy, first, out, ret>>

\* Read has come to the end of a stream, with z.r at q; sum covers the stream.
AtTrailer(r, q, sum) ==
  /\ format = "gzip" /\ busy # -1 /\ stale = <<>> /\ r.err = "EOF" /\ q \in Behind(r)
  /\ sum = Summed(rsum, Got(r))

\* (A faulty Matches: only the size is compared.)
MatchesSize(q, sum) == IsUnit(q + 2, Trailer(sum)[2])
Matches(q, sum) == \A i \in {1, 2} : IsUnit(q + i, Trailer(sum)[i])

\* A trailer cut short: the n that is returned is that of io.ReadFull.
TrailerShort(r, q, sum) ==
  /\ AtTrailer(r, q, sum) /\ Left(q) < 2
  /\ Returns(r, Len(file), sum, Left(q), "UnexpectedEOF")

TrailerWrong(r, q, sum) ==
  /\ AtTrailer(r, q, sum) /\ Left(q) >= 2 /\ ~Matches(q, sum)
  /\ Returns(r, q + 2, sum, r.n, "Checksum")

LastMember(r, q, sum) ==
  /\ AtTrailer(r, q, sum) /\ Left(q) >= 2 /\ Matches(q, sum) /\ ~multistream
  /\ Returns(r, q + 2, Zero, r.n, "EOF")

\* The header of the next member.  Read goes on with its data if it has none yet.
NextHeader(r, q, sum) ==
  /\ AtTrailer(r, q, sum) /\ Left(q) >= 2 /\ Matches(q, sum) /\ multistream
  /\ LET h == ReadHeader(q + 2)
     IN  /\ rsum' = Zero
         /\ rerr' = h.err /\ pos' = h.to
         /\ out' = out \o Got(r)
         /\ IF r.n = 0 /\ h.err = "nil" THEN UNCHANGED <<busy, ret>>
            ELSE busy' = -1 /\ ret' = [n |-> r.n, put |-> r.n, err |-> h.err]
         /\ Opened(h.err = "nil", "bufio")
  /\ filled' = FALSE
  /\ UNCHANGED <<file, faults, resets, writerVars, clientVars, multistream, stale, clean,
                 first>>

GzipRead ==
  busy # -1 /\ \E r \in Inflated(busy) : \E q \in Behind(r) :
    LET sum == Summed(rsum, Got(r))
    IN  \/ TrailerShort(r, q, sum)
        \/ TrailerWrong(r, q, sum)
        \/ LastMember(r, q, sum)
        \/ NextHeader(r, q, sum)

GzipNext ==
  \/ \E n \in WriteSizes : Write(n)
  \/ Flush \/ Close \/ RefuseHeader \/ GzipReset
  \/ ResetGzipReader \/ (\E ok \in BOOLEAN : Multistream(ok)) \/ GzipRead
=============================================================================
