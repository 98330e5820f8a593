---------------------------- MODULE PlainWriter ----------------------------
(***************************************************************************)
(* What a compressing writer promises its client, with nothing of how it   *)
(* works: a decoder that reads what has reached the underlying writer sees *)
(* the data given to Write, in order and never anything else; all of it    *)
(* once Flush has returned, and the end of the stream once Close has.      *)
(***************************************************************************)
EXTENDS Integers, Sequences

CONSTANTS Texts        \* the data that clients compress

VARIABLES text, given, \* the client's data, and how much of it Write was given
          seen, ended, \* the data a decoder sees, and whether it sees the end
          sound,       \* it sees nothing that is not DEFLATE
          ret          \* the last result: the call and its error

vars == <<text, given, seen, ended, sound, ret>>

Init ==
  /\ text \in Texts
  /\ given = 0 /\ seen = <<>> /\ ended = FALSE /\ sound = TRUE
  /\ ret = [call |-> "new", err |-> "nil"]

Give(n) ==
  /\ given + n <= Len(text)
  /\ given' = given + n
  /\ UNCHANGED <<text, seen, ended, sound, ret>>

\* More of what was given becomes readable.
Deliver(n, e) ==
  /\ ~ended /\ n \in Len(seen)..given
  /\ seen' = SubSeq(text, 1, n)
  /\ ended' = e
  /\ e => n = given
  /\ UNCHANGED <<text, given, sound, ret>>

Return(call, err) ==
  /\ call = "flush" /\ err = "nil" => Len(seen) = given
  /\ call = "close" /\ err = "nil" => Len(seen) = given /\ ended
  /\ ret' = [call |-> call, err |-> err]
  /\ UNCHANGED <<text, given, seen, ended, sound>>

Reset(t) ==
  /\ text' = t /\ given' = 0 /\ seen' = <<>> /\ ended' = FALSE
  /\ UNCHANGED sound
  /\ ret' = [call |-> "new", err |-> "nil"]

Next ==
  \/ \E n \in 0..(Len(text) - given) : Give(n)
  \/ \E n \in Len(seen)..given, e \in BOOLEAN : Deliver(n, e)
  \/ \E c \in {"write", "flush", "close"}, e \in {"nil", "Fail"} : Return(c, e)
  \/ \E t \in Texts : Reset(t)

Spec == Init /\ [][Next]_vars
=============================================================================
