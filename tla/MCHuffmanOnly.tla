--------------------------- MODULE MCHuffmanOnly ---------------------------
(***************************************************************************)
(* Small instances of HuffmanOnly: a buffer of some thirty bytes, and an   *)
(* output that takes only a part of their codes.                           *)
(***************************************************************************)
EXTENDS HuffmanOnly, TLC

\* Two full buffers and a rest, and a shorter text to go on with after a Reset.
\* No two bytes that are near each other are equal.
MCTexts == {[i \in 1..64 |-> 1 + (i % 41)], [i \in 1..33 |-> 100 - i]}
=============================================================================
