----------------------------- MODULE Containers -----------------------------
(***************************************************************************)
(* compress/zlib, and both formats in one specification: a client writes a *)
(* file with gzip.Writer or zlib.Writer, and reads what arrives of it.     *)
(***************************************************************************)
EXTENDS Gzip

(***************************************************************************)
(* zlib.Writer.  `head` is its dictionary.                                 *)
(***************************************************************************)
ZlibHead == IF head = None THEN Start(<<>>)
            ELSE Start(<<"dict">>) \o <<Unit("dict", head)>>

ZlibCall(n, k, rest) == format = "zlib" /\ Call(n, k, ZlibHead, rest)

\* Without data the compressor is not called.
ZlibWrite(n) ==
  /\ \E k \in 0..(IF n = 0 THEN 0 ELSE Len(pend) + n) : ZlibCall(n, k, <<>>)
  /\ Grows
ZlibFlush == ZlibCall(0, Len(pend), <<>>) /\ Flushes
ZlibClose ==
  ZlibCall(0, Closing, <<Unit("end", 0), Unit("crc", wsum.crc)>>) /\ Closes

\* Reset keeps the dictionary.
ZlibReset == format = "zlib" /\ NextMember({head})

(***************************************************************************)
(* zlib's reader                                                           *)
(***************************************************************************)
\* The header at position p, for a client with dictionary d.
ZlibHeader(p, d) ==
  LET Err(e) == [to |-> p, err |-> e]
  IN  IF Left(p) < 2 THEN Err("UnexpectedEOF")
      ELSE IF \E i \in {1, 2} : file[p + i].k # "head" THEN Err("Header")
      ELSE IF file[p + 1].v = <<>> THEN [to |-> p + 2, err |-> "nil"]
      ELSE IF Left(p) = 2 THEN Err("UnexpectedEOF")
      ELSE IF file[p + 3].v # d THEN Err("Dictionary")
      ELSE [to |-> p + 3, err |-> "nil"]

\* The decompressor is made for the first stream: by flate.NewReader, or, when
\* the stream needs a dictionary, by the library's NewReaderDict.  Later ones are
\* Reset with the dictionary, which flate.NewReader's ignores.
ZlibOpened(needsDict, d, r) ==
  IF dec.kind = "nil"
  THEN dec' = (IF needsDict THEN [kind |-> "std", dict |-> d]
                            ELSE [kind |-> "fast", dict |-> None])
       /\ nested' = (~needsDict /\ r = "small")
  ELSE dec' = [dec EXCEPT !.dict = IF dec.kind = "std" THEN d ELSE None]
       /\ nested' = FALSE

ResetZlibReader(d) ==
  /\ format = "zlib"
  /\ ResetReader([p \in {0, pos} |-> ZlibHeader(p, d)])
  /\ IF rerr' = "nil"
     THEN \E r \in Readers : ZlibOpened(file[first' + 1].v = <<"dict">>, d, r)
     ELSE UNCHANGED <<dec, nested>>
  /\ UNCHANGED multistream

\* The end of the stream: its checksum.
ZlibTrailer ==
  /\ format = "zlib" /\ busy # -1 /\ stale = <<>>
  /\ \E r \in Inflated(busy) : \E q \in Behind(r) :
       LET sum == Summed(rsum, Got(r))
       IN  /\ r.err = "EOF"
           /\ IF Left(q) = 0 THEN Returns(r, q, sum, r.n, "UnexpectedEOF")
              ELSE Returns(r, q + 1, sum, r.n,
                           IF IsUnit(q + 1, Unit("crc", sum.crc)) THEN "EOF" ELSE "Checksum")

\* Close passes an error on and takes io.EOF away, for Close of the decompressor
\* returns none.
ZlibCloseReader ==
  /\ format = "zlib" /\ stage = "read" /\ busy = -1 /\ dec.kind # "nil"
  /\ rerr \in {"nil", "EOF"} /\ rerr' = "nil"
  /\ UNCHANGED <<file, faults, resets, writerVars, clientVars, rsum, multistream, dec,
                 pos, nested, stale, filled, clean, busy, first, out, ret>>

ZlibNext ==
  \/ \E n \in WriteSizes : ZlibWrite(n)
  \/ ZlibFlush \/ ZlibClose \/ ZlibReset
  \/ (\E d \in Dicts : ResetZlibReader(d)) \/ ZlibTrailer \/ ZlibCloseReader

-----------------------------------------------------------------------------
Init ==
  /\ format \in {"gzip", "zlib"} /\ stage = "write" /\ file = <<>>
  /\ from = 0 /\ used = 0 /\ texts = <<>> /\ intact = FALSE /\ faults = 0 /\ resets = 0
  /\ werr = "nil" /\ wroteHeader = FALSE /\ closed = FALSE /\ wsum = Zero /\ pend = <<>>
  /\ head \in IF format = "gzip" THEN Headers ELSE Dicts
  /\ level \in IF format = "zlib" /\ head # None THEN {"std"} ELSE Levels
  /\ sound = TRUE
  /\ rerr = "nil" /\ rsum = Zero /\ multistream = FALSE /\ dec = NoDecompressor
  /\ pos = 0 /\ nested = FALSE /\ busy = -1 /\ first = 0 /\ out = <<>>
  /\ stale = <<>> /\ filled = FALSE /\ clean = TRUE
  /\ ret = [n |-> 0, put |-> 0, err |-> "nil"]

Next ==
  \/ Transmit
  \/ \E n \in ReadSizes : CallRead(n)
  \/ ReadStale \/ ReadData
  \/ GzipNext
  \/ ZlibNext

Spec == Init /\ [][Next]_vars

\* A Read runs on until it returns.
FairSpec == Spec /\ WF_vars(ReadStale \/ ReadData \/ GzipRead \/ ZlibTrailer)

\* Every Read returns, also when it goes through members without data or gets an
\* empty p (the loop of ungzip.go:262).
ReadReturns == busy # -1 ~> busy = -1
=============================================================================
