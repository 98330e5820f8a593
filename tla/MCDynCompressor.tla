-------------------------- MODULE MCDynCompressor --------------------------
(***************************************************************************)
(* Small instances of DynCompressor: a window of eight bytes, so that a    *)
(* text slides it several times and the positions wrap.                    *)
(***************************************************************************)
EXTENDS DynCompressor, TLC

\* Two of the keys of the hash table meet in a slot.
MCHash(s) == (s[1] + 2 * s[2] + 4 * s[3]) % 5
MCSlots == 0..4

\* Long runs, a period just within the window, and one just behind it.
Runs     == [i \in 1..44 |-> IF i \in {12, 33} THEN 2 ELSE 1]
Period(n, len) == [i \in 1..len |-> 1 + (i % n)]
LongTexts == {Runs, Period(8, 40), Period(9, 36)}
ShortTexts == {Period(3, 24), Runs}
MCTexts == LongTexts
MCShort == ShortTexts
=============================================================================
