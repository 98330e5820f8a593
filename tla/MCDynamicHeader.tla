-------------------------- MODULE MCDynamicHeader --------------------------
(***************************************************************************)
(* An alphabet of six literals, the end of the block, and four lengths of  *)
(* matches, of which one has an extra bit; five distances.                 *)
(***************************************************************************)
EXTENDS DynamicHeader

MCLenExtra == (0 :> 0) @@ (1 :> 0) @@ (2 :> 1) @@ (3 :> 0)

\* Codes of up to 5 bits; repetitions are 6, 7 and 8, as 16, 17 and 18.
MCClcOrder == <<6, 7, 8, 0, 4, 3, 5, 2, 1>>

\* Lengths and distances that occur, as often as each other.
Matches ==
  {[lens |-> <<0, 0, 0, 0>>, dists |-> <<0, 0, 0, 0, 0>>],
   [lens |-> <<0, 0, 1, 0>>, dists |-> <<1, 0, 0, 0, 0>>],
   [lens |-> <<0, 0, 0, 2>>, dists |-> <<0, 1, 0, 0, 1>>],
   [lens |-> <<1, 1, 0, 1>>, dists |-> <<1, 1, 1, 0, 0>>]}

BlockOf(literals, matches, dists) ==
  [tokens |-> [x \in Tokens |-> IF x < EndOfBlock THEN literals[x]
                                ELSE IF x = EndOfBlock THEN 0
                                ELSE matches[x - EndOfBlock]],
   dists |-> [d \in 0..(DistSyms - 1) |-> dists[d + 1]]]

MCLeftOvers == {NoCode, Direct(<<0>>, 1)}

Literals == 0..(EndOfBlock - 1)
Weights == {f \in [Literals -> {1, 2, 4, 8, 16, 32}] :
              IsInjective(f) /\ f[5] = 32}
DistWeights == {f \in [1..5 -> {1, 2, 4, 8, 16}] : IsInjective(f) /\ f[1] \in {1, 16}}

MCBlocks ==
  {BlockOf(f, m.lens, m.dists) : f \in [Literals -> {0, 1}], m \in Matches}
    \cup {BlockOf(f, <<0, 0, 0, 1>>, <<1, 0, 0, 0, 0>>) : f \in Weights}
    \cup {BlockOf([l \in Literals |-> l % 3], <<15, 0, 16, 0>>, d) : d \in DistWeights}
    \cup {BlockOf([l \in Literals |-> IF l = 1 THEN 8 ELSE 0], m, <<2, 0, 0, 0, 0>>) :
            m \in {<<2, 0, 0, 0>>, <<0, 0, 0, 2>>}}
    \cup {BlockOf((0 :> CountMod) @@ [l \in Literals |-> l % 2], <<0, 0, 0, 0>>,
                  <<0, 0, 0, 0, 0>>)}

-----------------------------------------------------------------------------
\* Headers of other programs: eight code length symbols of three bits each, in
\* any order, all that the header announces or less, or the last bit missing.
ForeignClc == <<3, 3, 3, 3, 3, 3, 0, 3, 3>>
ForeignItems == {<<0, 0>>, <<1, 0>>, <<2, 0>>, <<6, 0>>, <<6, 1>>, <<7, 0>>, <<8, 1>>}
ForeignCodes ==
  GenerateCode([s \in ClcSyms |-> ForeignClc[CHOOSE k \in 1..9 : MCClcOrder[k] = s]])

ForeignOf(numbers, its, cut) ==
  LET bits == Coding(its, ForeignCodes)
  IN  [hlit |-> numbers[1], hdist |-> numbers[2], hclen |-> 5, clc |-> ForeignClc,
       bits |-> SubSeq(bits, 1, Len(bits) - cut)]

\* Six zeros, the end of the block, and one distance.
SmallHeader == ForeignOf(<<0, 0>>, <<<<8, 1>>, <<1, 0>>, <<1, 0>>>>, 0)

MCForeign ==
  {ForeignOf(numbers, its, cut) : numbers \in {<<0, 0>>, <<1, 2>>},
                                  its \in [1..4 -> ForeignItems], cut \in 0..1}
    \cup {[SmallHeader EXCEPT !.hlit = NumLens + 1], [SmallHeader EXCEPT !.hdist = DistSyms],
          [SmallHeader EXCEPT !.hlit = NumLens],
          [SmallHeader EXCEPT !.clc = SubSeq(@, 1, 6)],
          [SmallHeader EXCEPT !.clc = [k \in DOMAIN @ |-> 2]],
          [SmallHeader EXCEPT !.clc = [k \in DOMAIN @ |-> 0]],
          [SmallHeader EXCEPT !.clc = [k \in DOMAIN @ |-> IF k < 4 THEN 3 ELSE 0]]}
=============================================================================
