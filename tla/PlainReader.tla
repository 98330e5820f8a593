---------------------------- MODULE PlainReader ----------------------------
(***************************************************************************)
(* What a decompressing reader promises its client, with nothing of how it *)
(* works: Read hands out the plain text of the stream in order, in pieces  *)
(* of its own choosing, and ends with the one error the stream calls for,  *)
(* after the last byte that comes before it.  compress/flate.Reader, and   *)
(* the readers of gzip and zlib on top of it, are used through this.       *)
(***************************************************************************)
EXTENDS DeflateStream

CONSTANTS Source,       \* the streams
          CanFail       \* may the underlying reader fail?

VARIABLES src, out, ret \* the stream, the bytes handed out, the last result

vars == <<src, out, ret>>

Init == src \in Source /\ out = <<>> /\ ret = [n |-> 0, err |-> "nil"]

\* Read returns n bytes, perhaps with the error that ends the stream.
Hand(n, e) ==
  /\ ret.err = "nil"
  /\ ret' = [n |-> n, err |-> e]
  /\ Len(out) + n <= Outcome(src).n
  /\ e \in {"nil"} \cup (IF CanFail THEN {"Fail"} ELSE {})
                   \cup (IF Len(out) + n = Outcome(src).n
                         THEN {Outcome(src).err} ELSE {})
  /\ out' = out \o [j \in 1..n |-> src.plain[Len(out) + j - 1]]
  /\ UNCHANGED src

\* Nothing comes after an error.
Again ==
  /\ ret.err # "nil"
  /\ ret' = [ret EXCEPT !.n = 0]
  /\ UNCHANGED <<src, out>>

Reset(s) == ret' = [n |-> 0, err |-> "nil"] /\ out' = <<>> /\ src' = s

Next ==
  \/ \E n \in 0..(Outcome(src).n - Len(out)),
        e \in {"nil", "EOF", "UnexpectedEOF", "Corrupt", "Fail"} : Hand(n, e)
  \/ Again
  \/ \E s \in Source : Reset(s)

Spec == Init /\ [][Next]_vars
=============================================================================
