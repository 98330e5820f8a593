--------------------------- MODULE DeflateWriter ---------------------------
(***************************************************************************)
(* deflate.Writer: it hands the caller's data to a LevelCompressor piece   *)
(* by piece, and keeps the error of Compress.  The compressors, whose own  *)
(* modules extend this one, take over where pc says so:                    *)
(*   "loop"     Write has data for Accumulate (or is done)                 *)
(*   "compress" Compress, Flush or Close of the compressor has been called *)
(*   "out"      the compressor calls Write of the underlying writer        *)
(*   "done", "failed"  the compressor has returned                         *)
(* The underlying writer is external: it takes all bytes, or fails after   *)
(* some of them.  A remote decoder reads what it takes.                    *)
(***************************************************************************)
EXTENDS RemoteDecoder

CONSTANTS Texts,       \* the data clients compress
          WriteSizes,  \* sizes of the pieces they write
          MaxFails,    \* bound on the failures of the underlying writer
          MaxResets,   \* bound on Reset
          MaxFlushes,  \* bound on Flush, for each stream
          GoesOn       \* do clients go on after an error of Flush?

\* Texts are bytes.
ASSUME WriterAssumption ==
  /\ \A t \in Texts : t \in Seq(0..255)
  /\ WriteSizes \subseteq Nat
  /\ MaxFails \in Nat /\ MaxResets \in Nat /\ MaxFlushes \in Nat
  /\ GoesOn \in BOOLEAN

VARIABLES
  pc,                  \* "idle", or what the call does next
  call,                \* the call under way
  todo,                \* Write: bytes of its data not accumulated yet
  werr,                \* Writer.err
  buf,                 \* the compressor's BitBuf
  text, given,         \* the client's data, and how much of it Write was given
  ret,                 \* the last result
  remote,              \* the decoder at the other end
  fails, resets,       \* how often, for the bounds
  flushes              \* calls of Flush for this stream

clientVars == <<text, given, ret, fails, resets, flushes>>
apiVars == <<pc, call, todo, werr, remote, clientVars>>

Finals == {0, 1}       \* BFINAL

WriterInit ==
  /\ pc = "idle" /\ call = "new" /\ todo = 0 /\ werr = "nil" /\ buf = Empty
  /\ text \in Texts /\ given = 0 /\ ret = [call |-> "new", err |-> "nil"]
  /\ remote = Fresh /\ fails = 0 /\ resets = 0 /\ flushes = 0

\* The compressor's next data: the n bytes after those it has accumulated.
NextData(n) == SubSeq(text, given - todo + 1, given - todo + n)

\* A client may call.  It does not use a closed Writer before a Reset.  After
\* an error that the Writer has not kept it stops, unless it GoesOn.
Usable ==
  /\ pc = "idle" /\ ret.call # "close"
  /\ ret.err = "nil" \/ werr # "nil" \/ GoesOn

Return(e) ==
  /\ pc' = "idle"
  /\ ret' = [call |-> call, err |-> e]

CallWrite(n) ==
  /\ Usable /\ werr = "nil"
  /\ given + n <= Len(text)
  /\ pc' = "loop" /\ call' = "write"
  /\ todo' = n /\ given' = given + n
  /\ UNCHANGED <<werr, buf, text, ret, remote, fails, resets, flushes>>

CallFlush ==
  /\ Usable /\ werr = "nil" /\ flushes < MaxFlushes
  /\ pc' = "compress" /\ call' = "flush"
  /\ flushes' = flushes + 1
  /\ UNCHANGED <<todo, werr, buf, text, given, ret, remote, fails, resets>>

CallClose ==
  /\ Usable /\ werr = "nil"
  /\ pc' = "compress" /\ call' = "close"
  /\ UNCHANGED <<todo, werr, buf, text, given, ret, remote, fails, resets, flushes>>

\* Every call returns the error that Compress has left.
CallAfterError(c) ==
  /\ Usable /\ werr # "nil"
  /\ ret' = [call |-> c, err |-> werr]
  /\ UNCHANGED <<pc, call, todo, werr, buf, text, given, remote, fails, resets,
                 flushes>>

\* Write has accumulated everything, or the compressor has done what it was
\* called for.
ReturnNil ==
  /\ (pc = "loop" /\ todo = 0) \/ pc = "done"
  /\ Return("nil")
  /\ UNCHANGED <<call, todo, werr, buf, text, given, remote, fails, resets, flushes>>

\* The compressor has returned an error.  That of Compress stays in the Writer,
\* that of Flush and Close does not.
ReturnError ==
  /\ pc = "failed"
  /\ Return("Fail")
  /\ werr' = IF call = "write" THEN "Fail" ELSE werr
  /\ UNCHANGED <<call, todo, buf, text, given, remote, fails, resets, flushes>>

\* (A faulty ResetWriter, which leaves bits of the old stream in the register.)
ResetWriterKeepsBits(t) ==
  /\ pc = "idle" /\ resets < MaxResets
  /\ text' = t /\ given' = 0 /\ ret' = [call |-> "new", err |-> "nil"]
  /\ call' = "new" /\ todo' = 0 /\ werr' = "nil" /\ buf' = Rewound(buf)
  /\ remote' = Fresh /\ resets' = resets + 1 /\ flushes' = 0
  /\ UNCHANGED <<pc, fails>>

\* What a Reset of the Writer changes here; the compressors add their part.
ResetWriter(t) ==
  /\ pc = "idle" /\ resets < MaxResets
  /\ text' = t /\ given' = 0 /\ ret' = [call |-> "new", err |-> "nil"]
  /\ call' = "new" /\ todo' = 0 /\ werr' = "nil" /\ buf' = Empty
  /\ remote' = Fresh /\ resets' = resets + 1 /\ flushes' = 0
  /\ UNCHANGED <<pc, fails>>

\* The underlying writer takes output[:idx].
SinkTakes == remote' = Feed(remote, buf.out) /\ UNCHANGED fails

\* It fails after n bytes.
SinkFails(n) ==
  /\ fails < MaxFails /\ fails' = fails + 1
  /\ n < Len(buf.out) \div 8
  /\ remote' = Feed(remote, SubSeq(buf.out, 1, 8 * n))
  /\ pc' = "failed" /\ todo' = 0
  /\ UNCHANGED <<call, werr, text, given, ret, resets, flushes>>

(***************************************************************************)
(* Properties of every compressor of this Writer                           *)
(***************************************************************************)
\* What has reached the underlying writer is DEFLATE, and stops at its end.
Sound == remote.mode \notin {"corrupt", "trailing"}

Promise == INSTANCE PlainWriter WITH
  seen <- remote.plain, ended <- remote.mode = "end", sound <- Sound

\* The Writer keeps the promise of PlainWriter: blocks that share bytes, output
\* written in parts, and Flush and Close at any point of the data, still make
\* up a stream that a decoder reads back (writer.go, dynamic.go, huffmanonly.go).
PlainWriterSpec == Promise!Spec

\* Flush behind data leaves the other end with something it can decode
\* (huffmanonly.go, Flush).
FlushOfData == given > 0 => Sound

\* A decoder sees nothing but data given since the last Reset (dynamic.go, Reset).
OnlyGivenData ==
  /\ Sound
  /\ Len(remote.plain) <= given
  /\ remote.plain = SubSeq(text, 1, Len(remote.plain))

\* Once a call has failed, every call fails until Reset (writer.go, Writer.err).
ErrorsStay ==
  [][ret.err # "nil" /\ ret' # ret => ret'.err # "nil" \/ ret'.call = "new"]_ret

\* Every call returns: the loop of Write and the rounds of Compress get on with
\* the data (writer.go, Write; dynamic.go, compressBlock).
CallsReturn == pc # "idle" ~> pc = "idle"
=============================================================================
