-------------------------- MODULE ContainersProofs --------------------------
(***************************************************************************)
(* Proofs about Containers, for every text, every number of members,       *)
(* failures and resets, every header and dictionary, and every size of a   *)
(* Write or a Read: what io.EOF of a gzip or zlib reader means, what a     *)
(* reader makes of a file that is whole, and of one that ends early.       *)
(*                                                                         *)
(* FileInv is what the writers have put into the file, and what of that    *)
(* the reader can rely on after one unit of it has changed; ReadInv is     *)
(* where the reader may be, and what it has read; IntactInv what it finds  *)
(* in a file that has not changed.                                         *)
(*                                                                         *)
(* A compressor that kept tokens at a Reset, or was flushed with           *)
(* HuffmanOnly, may have sent anything in its part of the file (~sound),   *)
(* and what a decompressor kept at a Reset comes before the data           *)
(* (~clean).  What the trailers prove of the text holds all the same; what *)
(* the layout and the order of the text prove takes sound and clean.       *)
(***************************************************************************)
EXTENDS Containers, ArithmeticFacts, FiniteSetTheorems, SequenceTheorems, TLAPS

(***************************************************************************)
(* Sequences whose elements are of any kind, and how many are checksums.   *)
(***************************************************************************)
IsSeq(s) == \E S : s \in Seq(S)

\* The first c elements of s.
IsFront(s, c, r) ==
  IsSeq(r) /\ Len(r) = c /\ c \in 0..Len(s) /\ \A i \in 1..c : r[i] = s[i]

LEMMA SeqFacts ==
  ASSUME NEW s, IsSeq(s)
  PROVE  Len(s) \in Nat /\ DOMAIN s = 1..Len(s)
<1>1. PICK S : s \in Seq(S)
  BY DEF IsSeq
<1>2. QED BY <1>1

\* Sequences of any two kinds are the same if their elements are.
LEMMA SameSeq ==
  ASSUME NEW s, NEW t, IsSeq(s), IsSeq(t), Len(s) = Len(t), \A i \in 1..Len(s) : s[i] = t[i]
  PROVE  s = t
<1>1. PICK S : s \in Seq(S)
  BY DEF IsSeq
<1>2. PICK T : t \in Seq(T)
  BY DEF IsSeq
<1>3. s \in Seq(S \cup T) /\ t \in Seq(S \cup T)
  BY <1>1, <1>2
<1>4. QED BY <1>3, SeqEqual

\* SubSeq from 1 on.
LEMMA Fronts ==
  ASSUME NEW s, IsSeq(s), NEW c \in 0..Len(s)
  PROVE  IsFront(s, c, SubSeq(s, 1, c))
<1>1. PICK S : s \in Seq(S)
  BY DEF IsSeq
<1>2. Len(s) \in Nat
  BY <1>1
<1>3. SubSeq(s, 1, c) \in Seq(S) /\ Len(SubSeq(s, 1, c)) = c
  BY <1>1, <1>2
<1>4. \A i \in 1..c : SubSeq(s, 1, c)[i] = s[i]
  BY <1>1, <1>2
<1>5. QED BY <1>3, <1>4 DEF IsFront, IsSeq

\* Concatenation of sequences of any two kinds.
LEMMA Catenated ==
  ASSUME NEW s, NEW t, IsSeq(s), IsSeq(t)
  PROVE  /\ IsSeq(s \o t) /\ Len(s \o t) = Len(s) + Len(t)
         /\ \A i \in 1..Len(s) : (s \o t)[i] = s[i]
         /\ \A i \in 1..Len(t) : (s \o t)[Len(s) + i] = t[i]
<1>1. PICK S : s \in Seq(S)
  BY DEF IsSeq
<1>2. PICK T : t \in Seq(T)
  BY DEF IsSeq
<1>3. PICK V : V = S \cup T
  OBVIOUS
<1>4. s \in Seq(V) /\ t \in Seq(V)
  BY <1>1, <1>2, <1>3
<1>5. QED BY <1>4, Concatenated DEF IsSeq

LEMMA FromFunction ==
  ASSUME NEW n \in Nat, NEW f, f = [i \in 1..n |-> f[i]]
  PROVE  IsSeq(f) /\ Len(f) = n
<1>1. PICK S : S = {f[i] : i \in 1..n}
  OBVIOUS
<1>2. f \in [1..n -> S]
  BY <1>1
<1>3. f \in Seq(S) /\ Len(f) = n
  BY <1>2
<1>4. QED BY <1>3 DEF IsSeq

\* What a failing call leaves: the file, and some of the units.
LEMMA CutBehind ==
  ASSUME NEW o, NEW u, IsSeq(o), IsSeq(u), NEW c \in 0..Len(u),
         NEW g, g = o \o SubSeq(u, 1, c)
  PROVE  IsFront(o \o u, Len(o) + c, g)
<1>1. IsFront(u, c, SubSeq(u, 1, c))
  BY Fronts
<1>2. PICK v : v = SubSeq(u, 1, c)
  OBVIOUS
<1>3. IsSeq(v) /\ Len(v) = c /\ \A i \in 1..c : v[i] = u[i]
  BY <1>1, <1>2 DEF IsFront
<1>4. /\ IsSeq(g) /\ Len(g) = Len(o) + c
      /\ \A i \in 1..Len(o) : g[i] = o[i]
      /\ \A i \in 1..c : g[Len(o) + i] = v[i]
  BY <1>2, <1>3, Catenated
<1>5. PICK w : w = o \o u
  OBVIOUS
<1>6. /\ IsSeq(w) /\ Len(w) = Len(o) + Len(u)
      /\ \A i \in 1..Len(o) : w[i] = o[i]
      /\ \A i \in 1..Len(u) : w[Len(o) + i] = u[i]
  BY <1>5, Catenated
<1>7. PICK m \in Nat, n \in Nat : m = Len(o) /\ n = Len(u)
  BY SeqFacts
<1>8. c \in 0..n
  BY <1>7
<1>9. ASSUME NEW i \in 1..(m + c) PROVE g[i] = w[i]
  <2>1. CASE i \in 1..m
    BY <1>4, <1>6, <1>7, <2>1
  <2>2. CASE i \notin 1..m
    <3>1. PICK k \in 1..c : i = m + k
      <4>1. i - m \in 1..c /\ i = m + (i - m)
        BY <2>2, <1>9, <1>8
      <4>2. QED BY <4>1
    <3>2. k \in 1..n
      BY <1>8
    <3>3. g[m + k] = v[k] /\ w[m + k] = u[k] /\ v[k] = u[k]
      BY <1>3, <1>4, <1>6, <1>7, <3>2
    <3>4. QED BY <3>1, <3>3
  <2>3. QED BY <2>1, <2>2
<1>10. m + c \in 0..Len(w)
  BY <1>6, <1>7, <1>8
<1>11. QED BY <1>4, <1>5, <1>7, <1>9, <1>10 DEF IsFront

-----------------------------------------------------------------------------
Crcs(o, p) == Cardinality({k \in 1..p : o[k].k = "crc"})

LEMMA CrcsFacts ==
  ASSUME NEW o, NEW p \in Nat
  PROVE  Crcs(o, p) \in Nat /\ IsFiniteSet({k \in 1..p : o[k].k = "crc"})
<1>1. IsFiniteSet(1..p)
  BY FS_Interval
<1>2. {k \in 1..p : o[k].k = "crc"} \subseteq 1..p
  OBVIOUS
<1>3. IsFiniteSet({k \in 1..p : o[k].k = "crc"})
  BY <1>1, <1>2, FS_Subset
<1>4. QED BY <1>3, FS_CardinalityType DEF Crcs

LEMMA CrcsZero ==
  ASSUME NEW o
  PROVE  Crcs(o, 0) = 0
<1>1. {k \in 1..0 : o[k].k = "crc"} = {}
  OBVIOUS
<1>2. QED BY <1>1, FS_EmptySet DEF Crcs

\* The number of checksums grows along the file,
LEMMA CrcsGrow ==
  ASSUME NEW o, NEW p \in Nat, NEW q \in Nat, p <= q
  PROVE  Crcs(o, p) <= Crcs(o, q)
<1>1. {k \in 1..p : o[k].k = "crc"} \subseteq {k \in 1..q : o[k].k = "crc"}
  OBVIOUS
<1>2. QED BY <1>1, CrcsFacts, FS_Subset DEF Crcs

\* depends on nothing else,
LEMMA CrcsSame ==
  ASSUME NEW o, NEW g, NEW p \in Nat, \A k \in 1..p : o[k].k = "crc" <=> g[k].k = "crc"
  PROVE  Crcs(o, p) = Crcs(g, p)
<1>1. {k \in 1..p : o[k].k = "crc"} = {k \in 1..p : g[k].k = "crc"}
  OBVIOUS
<1>2. QED BY <1>1 DEF Crcs

\* and is one more behind a member.
OneCrc(o, p, q, m) == \A k \in (p + 1)..q : o[k].k = "crc" <=> k = m
LEMMA CrcsOneMore ==
  ASSUME NEW o, NEW p \in Nat, NEW q \in Nat, NEW m \in (p + 1)..q, OneCrc(o, p, q, m)
  PROVE  Crcs(o, q) = Crcs(o, p) + 1
<1> DEFINE C == {k \in 1..p : o[k].k = "crc"}
<1>1. {k \in 1..q : o[k].k = "crc"} = C \cup {m}
  <2>1. ASSUME NEW k \in 1..q PROVE o[k].k = "crc" <=> k \in C \/ k = m
    <3>1. CASE k \in 1..p
      BY <3>1
    <3>2. CASE k \in (p + 1)..q
      BY <3>2 DEF OneCrc
    <3>3. QED BY <3>1, <3>2
  <2>2. m \in 1..q /\ C \subseteq 1..q
    OBVIOUS
  <2>3. QED BY <2>1, <2>2
<1>2. m \notin C
  OBVIOUS
<1>3. IsFiniteSet(C)
  BY CrcsFacts
<1>4. QED BY <1>1, <1>2, <1>3, FS_AddElement DEF Crcs

-----------------------------------------------------------------------------
(***************************************************************************)
(* What the writers write: members, each with a header, data, and an end.  *)
(***************************************************************************)
\* The header for h, if none of its fields is refused.
FullHead(h) ==
  LET fs    == FieldsOf(h)
      units == Start(fs) \o [i \in DOMAIN fs |-> Unit(fs[i], h[fs[i]])]
  IN  IF h.hcrc # "none" THEN [units EXCEPT ![Len(units)].v = Front(units)] ELSE units

DictHead(d) == IF d = None THEN Start(<<>>) ELSE Start(<<"dict">>) \o <<Unit("dict", d)>>
Heads(f, d) == IF f = "gzip" THEN {FullHead(h) : h \in Headers} ELSE {DictHead(d)}

\* How long a header is that begins with the flags v.
HeadLen(f, v) == 2 + (IF f = "gzip" THEN Len(v) ELSE IF v = <<>> THEN 0 ELSE 1)
FieldKinds == Fields \cup {"dict"}

\* A sequence of units.
Texted(u) == u.k = "data" => \E b, e : b \in Nat /\ u.v = [text |-> b, dict |-> e]
Proper(u) == u = [k |-> u.k, v |-> u.v] /\ Texted(u)
IsFile(o) == IsSeq(o) /\ \A i \in 1..Len(o) : Proper(o[i])

GoodHead(f, d, hs) ==
  /\ IsFile(hs) /\ Len(hs) >= 2 /\ Len(hs) = HeadLen(f, hs[1].v)
  /\ hs[1].k = "head" /\ hs[2].k = "head" /\ (f = "gzip" => IsSeq(hs[1].v))
  /\ \A k \in 3..Len(hs) : hs[k].k \in FieldKinds
  /\ f = "gzip" /\ hs[1].v # <<>> /\ Last(hs[1].v) = "hcrc" => hs[Len(hs)].v = Front(hs)
  /\ f = "zlib" => (d = None /\ hs[1].v = <<>>) \/ (d # None /\ hs[1].v = <<"dict">> /\ hs[3].v = d)

\* Where a member may begin: at the start, and behind a trailer.
EndKind(f) == IF f = "gzip" THEN "size" ELSE "crc"
Bounds(f, o) == {p \in 0..Len(o) : p = 0 \/ o[p].k = EndKind(f)}
Trail(f) == IF f = "gzip" THEN 2 ELSE 1
EndOf(f, p, c, n) == p + c + n + 1 + Trail(f)
Bytes == Nat \ {0}
DataUnit(b, d) == Unit("data", [text |-> b, dict |-> d])

\* What a compressor has sent: y, for the data x, which it spells if z.
BodyKinds == {"data", "bad", "end"}
IsBody(y) == IsFile(y) /\ \A i \in 1..Len(y) : y[i].k \in BodyKinds
DataOf(x, d) == [i \in DOMAIN x |-> DataUnit(x[i], d)]
Spells(z, d, y, x) == IsBody(y) /\ (z => y = DataOf(x, d))

\* From p on o is the beginning of the member with header hs, y for the data x, and
\* its end.
Shape(f, o, p, hs, y, x) ==
  \A k \in (p + 1)..Len(o) :
    /\ k <= p + Len(hs) => o[k] = hs[k - p]
    /\ p + Len(hs) < k /\ k <= p + Len(hs) + Len(y) => o[k] = y[k - p - Len(hs)]
    /\ k = p + Len(hs) + Len(y) + 1 => o[k] = Unit("end", 0)
    /\ k = p + Len(hs) + Len(y) + 2 => o[k] = Unit("crc", x)
    /\ f = "gzip" /\ k = p + Len(hs) + Len(y) + 3 => o[k] = Unit("size", Len(x) % SizeMod)

\* A member that is there to its end has the text that the writer was given for it.
Given(f, o, t, p, c, n, x) ==
  EndOf(f, p, c, n) <= Len(o) => Crcs(o, p) < Len(t) /\ t[Crcs(o, p) + 1] = x

MemberAt(z, f, d, o, t, p) ==
  \E hs, y, x :
    /\ hs \in Heads(f, d) /\ x \in Seq(Bytes) /\ Spells(z, d, y, x)
    /\ Shape(f, o, p, hs, y, x) /\ Given(f, o, t, p, Len(hs), Len(y), x)
Layout(z, f, d, o, t) == \A p \in Bounds(f, o) : p < Len(o) => MemberAt(z, f, d, o, t, p)

\* fs lists the fields of A that h has.
Lists(h, fs, A) ==
  /\ IsSeq(fs) /\ \A i \in 1..Len(fs) : fs[i] \in A /\ h[fs[i]] # "none"
  /\ \A f \in A : h[f] # "none" => \E i \in 1..Len(fs) : fs[i] = f

LEMMA Singles ==
  ASSUME NEW a
  PROVE  IsSeq(<<a>>) /\ Len(<<a>>) = 1 /\ <<a>>[1] = a
<1>1. <<a>> \in Seq({a})
  OBVIOUS
<1>2. QED BY <1>1 DEF IsSeq

LEMMA Empty ==
  IsSeq(<<>>) /\ Len(<<>>) = 0 /\ \A s : IsSeq(s) /\ s # <<>> => Len(s) \in Nat \ {0}
<1>1. <<>> \in Seq({}) /\ Len(<<>>) = 0
  BY EmptySeq
<1>2. ASSUME NEW s, IsSeq(s), s # <<>> PROVE Len(s) \in Nat \ {0}
  <2>1. PICK S : s \in Seq(S)
    BY <1>2 DEF IsSeq
  <2>2. QED BY <1>2, <2>1, EmptySeq
<1>3. QED BY <1>1, <1>2 DEF IsSeq

EndsWith(s, a) == s # <<>> /\ Last(s) = a

\* One more field is listed, if the header has it.
LEMMA ListsOne ==
  ASSUME NEW h, NEW fs, NEW A, Lists(h, fs, A), NEW f, NEW p,
         p = IF h[f] # "none" THEN <<f>> ELSE <<>>, NEW g, g = fs \o p
  PROVE  /\ Lists(h, g, A \cup {f})
         /\ h[f] # "none" => EndsWith(g, f)
         /\ h[f] = "none" => g = fs
<1>1. IsSeq(fs) /\ Len(fs) \in Nat
  BY SeqFacts DEF Lists
<1>2. CASE h[f] # "none"
  <2>1. p = <<f>>
    BY <1>2
  <2>2. IsSeq(p) /\ Len(p) = 1 /\ p[1] = f
    BY <2>1, Singles
  <2>3. PICK n \in Nat : n = Len(fs)
    BY <1>1
  <2>4. /\ IsSeq(g) /\ Len(g) = n + 1 /\ \A i \in 1..n : g[i] = fs[i]
        /\ g[n + 1] = f
    <3>1. /\ IsSeq(g) /\ Len(g) = n + 1 /\ \A i \in 1..n : g[i] = fs[i]
          /\ \A i \in 1..1 : g[n + i] = p[i]
      BY <1>1, <2>2, <2>3, Catenated
    <3>2. QED BY <2>2, <3>1
  <2>5. ASSUME NEW i \in 1..(n + 1) PROVE g[i] \in A \cup {f} /\ h[g[i]] # "none"
    <3>1. CASE i = n + 1
      BY <1>2, <2>4, <3>1
    <3>2. CASE i \in 1..n
      <4>1. fs[i] \in A /\ h[fs[i]] # "none"
        BY <2>3, <3>2 DEF Lists
      <4>2. QED BY <2>4, <3>2, <4>1
    <3>3. i = n + 1 \/ i \in 1..n
      BY <2>5
    <3>4. QED BY <3>1, <3>2, <3>3
  <2>6. ASSUME NEW e \in A \cup {f}, h[e] # "none" PROVE \E i \in 1..(n + 1) : g[i] = e
    <3>1. CASE e = f
      BY <2>4, <3>1
    <3>2. CASE e \in A
      <4>1. PICK i \in 1..n : fs[i] = e
        BY <2>3, <2>6, <3>2 DEF Lists
      <4>2. i \in 1..(n + 1) /\ g[i] = e
        BY <2>4, <4>1
      <4>3. QED BY <4>2
    <3>3. QED BY <2>6, <3>1, <3>2
  <2>7. Lists(h, g, A \cup {f})
    BY <2>4, <2>5, <2>6 DEF Lists
  <2>8. g # <<>> /\ Last(g) = f
    BY <2>4 DEF Last
  <2>9. QED BY <1>2, <2>7, <2>8 DEF EndsWith
<1>3. CASE h[f] = "none"
  <2>1. p = <<>>
    BY <1>3
  <2>2. g = fs
    <3>1. PICK S : fs \in Seq(S)
      BY <1>1 DEF IsSeq
    <3>2. QED BY <2>1, <3>1
  <2>3. Lists(h, g, A \cup {f})
    BY <1>3, <2>2 DEF Lists
  <2>4. QED BY <1>3, <2>2, <2>3
<1>4. QED BY <1>2, <1>3

\* FieldsOf lists the fields that h has, the header's checksum last.
LEMMA FieldsListed ==
  ASSUME NEW h, NEW fs, fs = FieldsOf(h)
  PROVE  /\ Lists(h, fs, Fields)
         /\ fs # <<>> => (Last(fs) = "hcrc" <=> h["hcrc"] # "none")
         /\ h["hcrc"] # "none" => fs # <<>>
<1> DEFINE P(f) == IF h[f] # "none" THEN <<f>> ELSE <<>>
<1>1. PICK a, b, c, e : /\ a = <<>> \o P("extra") /\ b = a \o P("name")
                        /\ c = b \o P("comment") /\ e = c \o P("hcrc")
  OBVIOUS
<1>2. <<>> \o P("extra") = P("extra")
  <2>1. <<"extra">> \in Seq({"extra"}) /\ <<>> \in Seq({"extra"})
    OBVIOUS
  <2>2. P("extra") \in Seq({"extra"})
    BY <2>1
  <2>3. QED BY <2>2, ConcatEmptySeq
<1>3. fs = e
  BY <1>1, <1>2 DEF FieldsOf
<1>4. Lists(h, <<>>, {})
  BY Empty DEF Lists
<1>5. Lists(h, a, {"extra"})
  <2>1. Lists(h, a, {} \cup {"extra"})
    BY <1>1, <1>4, ListsOne
  <2>2. QED BY <2>1
<1>6. Lists(h, b, {"extra"} \cup {"name"})
  <2>1. PICK p : p = P("name")
    OBVIOUS
  <2>2. p = IF h["name"] # "none" THEN <<"name">> ELSE <<>>
    BY <2>1
  <2>3. b = a \o p
    BY <1>1, <2>1
  <2>4. QED BY ONLY <1>5, <2>2, <2>3, ListsOne
<1>7. Lists(h, c, {"extra"} \cup {"name"} \cup {"comment"})
  <2>1. PICK p : p = P("comment")
    OBVIOUS
  <2>2. p = IF h["comment"] # "none" THEN <<"comment">> ELSE <<>>
    BY <2>1
  <2>3. c = b \o p
    BY <1>1, <2>1
  <2>4. PICK A : A = {"extra"} \cup {"name"}
    OBVIOUS
  <2>5. Lists(h, b, A)
    BY <1>6, <2>4
  <2>6. /\ Lists(h, c, A \cup {"comment"})
    BY ONLY <2>2, <2>3, <2>5, ListsOne
  <2>7. QED BY <2>4, <2>6
<1>8. /\ Lists(h, e, {"extra"} \cup {"name"} \cup {"comment"} \cup {"hcrc"})
      /\ h["hcrc"] # "none" => EndsWith(e, "hcrc")
      /\ h["hcrc"] = "none" => e = c
  <2>1. PICK f : f = "hcrc"
    OBVIOUS
  <2>2. PICK p : p = P(f)
    OBVIOUS
  <2>3. p = IF h[f] # "none" THEN <<f>> ELSE <<>>
    BY <2>2
  <2>4. e = c \o p
    BY <1>1, <2>1, <2>2
  <2>5. PICK A : A = {"extra"} \cup {"name"} \cup {"comment"}
    OBVIOUS
  <2>6. Lists(h, c, A)
    BY <1>7, <2>5
  <2>7. /\ Lists(h, e, A \cup {f})
        /\ h[f] # "none" => EndsWith(e, f)
        /\ h[f] = "none" => e = c
    <3>1. Lists(h, e, A \cup {f})
      BY ONLY <2>3, <2>4, <2>6, ListsOne
    <3>2. h[f] # "none" => EndsWith(e, f)
      BY ONLY <2>3, <2>4, <2>6, ListsOne
    <3>3. h[f] = "none" => e = c
      BY ONLY <2>3, <2>4, <2>6, ListsOne
    <3>4. QED BY <3>1, <3>2, <3>3
  <2>8. QED BY <2>1, <2>5, <2>7
<1>9. {"extra"} \cup {"name"} \cup {"comment"} \cup {"hcrc"} = Fields
  BY DEF Fields
<1>10. h["hcrc"] = "none" /\ e # <<>> => Last(e) # "hcrc"
  <2>1. SUFFICES ASSUME h["hcrc"] = "none", e # <<>> PROVE Last(e) # "hcrc"
    OBVIOUS
  <2>2. e = c /\ IsSeq(c)
    BY <1>7, <1>8, <2>1 DEF Lists
  <2>3. Len(c) \in Nat /\ Len(c) # 0
    <3>1. PICK S : c \in Seq(S)
      BY <2>2 DEF IsSeq
    <3>2. QED BY <2>1, <2>2, <3>1
  <2>4. Len(c) \in 1..Len(c)
    BY <2>3
  <2>5. c[Len(c)] \in {"extra"} \cup {"name"} \cup {"comment"}
    BY <1>7, <2>4 DEF Lists
  <2>6. QED BY <2>2, <2>5 DEF Last
<1>11. QED BY <1>3, <1>8, <1>9, <1>10 DEF EndsWith

Pairs(h, fs) == Start(fs) \o [i \in DOMAIN fs |-> Unit(fs[i], h[fs[i]])]

LEMMA Couples ==
  ASSUME NEW a, NEW b
  PROVE  IsSeq(<<a, b>>) /\ Len(<<a, b>>) = 2 /\ <<a, b>>[1] = a /\ <<a, b>>[2] = b
<1>1. <<a, b>> \in Seq({a, b})
  OBVIOUS
<1>2. QED BY <1>1 DEF IsSeq

\* The units of a header: two of its start, then one for each field.
LEMMA PairsAre ==
  ASSUME NEW h, NEW fs, IsSeq(fs), NEW u, u = Pairs(h, fs)
  PROVE  /\ IsSeq(u) /\ Len(u) = 2 + Len(fs) /\ Len(fs) \in Nat
         /\ u[1] = Unit("head", fs) /\ u[2] = Unit("head", fs)
         /\ \A i \in 1..Len(fs) : u[2 + i] = Unit(fs[i], h[fs[i]])
<1>1. PICK s : s = Start(fs)
  OBVIOUS
<1>2. IsSeq(s) /\ Len(s) = 2 /\ s[1] = Unit("head", fs) /\ s[2] = Unit("head", fs)
  BY <1>1, Couples DEF Start
<1>3. PICK t : t = [i \in DOMAIN fs |-> Unit(fs[i], h[fs[i]])]
  OBVIOUS
<1>4. PICK n \in Nat : n = Len(fs) /\ DOMAIN fs = 1..n
  BY SeqFacts
<1>5. t = [i \in 1..n |-> t[i]] /\ \A i \in 1..n : t[i] = Unit(fs[i], h[fs[i]])
  BY <1>3, <1>4
<1>6. IsSeq(t) /\ Len(t) = n
  BY <1>5, FromFunction
<1>7. u = s \o t
  BY <1>1, <1>3 DEF Pairs
<1>8. /\ IsSeq(u) /\ Len(u) = 2 + n
      /\ \A i \in 1..2 : u[i] = s[i]
      /\ \A i \in 1..n : u[2 + i] = t[i]
  <2>1. /\ IsSeq(u) /\ Len(u) = Len(s) + Len(t)
        /\ \A i \in 1..Len(s) : u[i] = s[i]
        /\ \A i \in 1..Len(t) : u[Len(s) + i] = t[i]
    <3>1. IsSeq(s) /\ IsSeq(t)
      BY <1>2, <1>6
    <3>2. QED BY ONLY <3>1, <1>7, Catenated
  <2>2. QED BY <1>2, <1>6, <2>1
<1>9. u[1] = s[1] /\ u[2] = s[2]
  BY <1>8
<1>10. QED BY <1>2, <1>4, <1>5, <1>8, <1>9

\* The last unit of a header that has a checksum is that of all before it.
ChecksAll(u, w, n) ==
  /\ IsSeq(w) /\ Len(w) = n
  /\ \A i \in 1..(n - 1) : w[i] = u[i]
  /\ w[n].k = u[n].k /\ w[n].v = Front(w) /\ Proper(w[n])

\* Its last unit, when it is the checksum of the header.
LEMMA Checked ==
  ASSUME NEW u, IsSeq(u), NEW n, n = Len(u), n >= 2, NEW f, f = Front(u),
         NEW e, e = [u[n] EXCEPT !.v = f], NEW w, w = [u EXCEPT ![n] = e],
         u[n] = [k |-> u[n].k, v |-> u[n].v], u[n].k # "data"
  PROVE  ChecksAll(u, w, n)
<1>1. n \in Nat /\ n = Len(u) /\ n >= 2 /\ DOMAIN u = 1..n
  BY SeqFacts
<1>2. DOMAIN w = 1..n /\ w = [i \in 1..n |-> w[i]] /\ \A i \in 1..(n - 1) : w[i] = u[i]
  <2>1. w = [i \in 1..n |-> IF i = n THEN e ELSE u[i]]
    BY <1>1
  <2>2. DOMAIN w = 1..n
    BY <2>1
  <2>3. w = [i \in 1..n |-> w[i]]
    BY <2>1
  <2>4. \A i \in 1..(n - 1) : w[i] = u[i]
    BY <1>1, <2>1
  <2>5. QED BY <2>2, <2>3, <2>4
<1>3. w[n].k = u[n].k /\ w[n].v = f
  <2>1. w[n] = e
    BY <1>1
  <2>2. e.k = u[n].k /\ e.v = f
    OBVIOUS
  <2>3. QED BY <2>1, <2>2
<1>4. IsSeq(w) /\ Len(w) = n
  <2>1. w = [i \in 1..n |-> w[i]]
    BY <1>2
  <2>2. QED BY ONLY <2>1, n \in Nat, FromFunction
<1>5. Front(w) = Front(u)
  <2>1. n - 1 \in 0..n
    BY <1>1
  <2>2. PICK a, b : a = SubSeq(w, 1, n - 1) /\ b = SubSeq(u, 1, n - 1)
    OBVIOUS
  <2>3. IsFront(w, n - 1, a) /\ IsFront(u, n - 1, b)
    BY <1>1, <1>4, <2>1, <2>2, Fronts
  <2>4. /\ IsSeq(a) /\ Len(a) = n - 1 /\ \A i \in 1..(n - 1) : a[i] = w[i]
        /\ IsSeq(b) /\ Len(b) = n - 1 /\ \A i \in 1..(n - 1) : b[i] = u[i]
    BY <2>3 DEF IsFront
  <2>5. a = b
    BY <1>2, <2>4, SameSeq
  <2>6. QED BY <1>1, <1>4, <2>2, <2>5 DEF Front
<1>6. Proper(w[n])
  <2>1. w[n] = e
    BY <1>1
  <2>2. e = [k |-> u[n].k, v |-> f]
    OBVIOUS
  <2>3. w[n] = [k |-> w[n].k, v |-> w[n].v]
    BY ONLY <2>1, <2>2
  <2>4. w[n].k # "data"
    BY <1>3
  <2>5. QED BY <2>3, <2>4 DEF Proper, Texted
<1>7. QED BY <1>1, <1>2, <1>3, <1>4, <1>5, <1>6 DEF ChecksAll

LEMMA UnitFields ==
  ASSUME NEW a, NEW b, NEW u, u = Unit(a, b)
  PROVE  u.k = a /\ u.v = b /\ u = [k |-> u.k, v |-> u.v]
BY DEF Unit

\* What fs, the units u and the header hs have to do with each other.
IsFullHead(h, fs, u, hs) ==
  /\ IsSeq(fs) /\ IsSeq(u) /\ IsSeq(hs) /\ Len(hs) = 2 + Len(fs) /\ Len(fs) \in Nat
  /\ Len(u) = Len(hs)
  /\ hs[1] = Unit("head", fs) /\ hs[2].k = "head"
  /\ \A k \in 3..Len(hs) : hs[k].k \in Fields
  /\ \A i \in 1..(Len(hs) - 1) : hs[i] = u[i]
  /\ h["hcrc"] = "none" => hs = u
  /\ fs # <<>> /\ Last(fs) = "hcrc" => hs[Len(hs)].v = Front(hs)
  /\ \A k \in 1..Len(hs) : Proper(hs[k])

\* The header that is written for h, from its fields.
LEMMA FullHeadIs ==
  ASSUME NEW h, NEW fs, fs = FieldsOf(h), NEW u, u = Pairs(h, fs), NEW hs, hs = FullHead(h)
  PROVE  IsFullHead(h, fs, u, hs)
<1>1. /\ Lists(h, fs, Fields)
      /\ fs # <<>> => (Last(fs) = "hcrc" <=> h["hcrc"] # "none")
      /\ h["hcrc"] # "none" => fs # <<>>
  BY FieldsListed
<1>2. IsSeq(fs)
  BY <1>1 DEF Lists
<1>3. PICK n \in Nat : n = Len(fs)
  BY <1>2, SeqFacts
<1>4. /\ IsSeq(u) /\ Len(u) = 2 + n
      /\ u[1] = Unit("head", fs) /\ u[2] = Unit("head", fs)
      /\ \A i \in 1..n : u[2 + i] = Unit(fs[i], h[fs[i]])
  BY <1>2, <1>3, PairsAre
<1>5. \A k \in 3..(2 + n) : u[k].k \in Fields /\ u[k] = [k |-> u[k].k, v |-> u[k].v]
  <2>1. TAKE k \in 3..(2 + n)
  <2>2. PICK i \in 1..n : k = 2 + i
    <3>1. k - 2 \in 1..n /\ k = 2 + (k - 2)
      OBVIOUS
    <3>2. QED BY <3>1
  <2>3. u[k] = Unit(fs[i], h[fs[i]])
    BY <1>4, <2>2
  <2>4. fs[i] \in Fields
    BY <1>1, <1>3 DEF Lists
  <2>5. u[k].k = fs[i]
    BY <2>3, UnitFields
  <2>6. QED BY <2>3, <2>4, <2>5, UnitFields
<1>6. u[1].k = "head" /\ u[2].k = "head"
  BY <1>4, UnitFields
<1>7. \A k \in 1..(2 + n) : Proper(u[k])
  <2>1. TAKE k \in 1..(2 + n)
  <2>2. Proper(u[1]) /\ Proper(u[2])
    BY <1>4, UnitFields DEF Proper, Texted
  <2>3. k = 1 \/ k = 2 \/ k \in 3..(2 + n)
    OBVIOUS
  <2>4. ASSUME k \in 3..(2 + n) PROVE Proper(u[k])
    <3>1. u[k].k \in Fields /\ u[k] = [k |-> u[k].k, v |-> u[k].v]
      BY <1>5, <2>4
    <3>2. u[k].k # "data"
      BY <3>1 DEF Fields
    <3>3. QED BY <3>1, <3>2 DEF Proper, Texted
  <2>5. QED BY <2>2, <2>3, <2>4
<1>8. hs = IF h["hcrc"] # "none" THEN [u EXCEPT ![Len(u)].v = Front(u)] ELSE u
  BY DEF FullHead, Pairs
<1>9. CASE h["hcrc"] = "none"
  <2>1. hs = u
    BY <1>8, <1>9
  <2>2. ~(fs # <<>> /\ Last(fs) = "hcrc")
    BY <1>1, <1>9
  <2>3. QED BY <1>2, <1>3, <1>4, <1>5, <1>6, <1>7, <2>1, <2>2 DEF IsFullHead
<1>10. CASE h["hcrc"] # "none"
  <2>1. n >= 1
    <3>1. Len(fs) \in Nat \ {0}
      BY <1>1, <1>2, <1>10, Empty
    <3>2. QED BY <1>3, <3>1
  <2>2. PICK m \in Nat : m = n + 2
    OBVIOUS
  <2>3. Len(u) = m /\ m \in 3..(2 + n) /\ m >= 3
    BY <1>4, <2>1, <2>2
  <2>4. hs = [u EXCEPT ![Len(u)].v = Front(u)]
    BY <1>8, <1>10
  <2>5. u[Len(u)] = [k |-> u[Len(u)].k, v |-> u[Len(u)].v]
    BY <1>5, <2>3
  <2>6. Len(u) >= 2
    BY <2>3
  <2>7. /\ IsSeq(hs) /\ Len(hs) = m
        /\ \A i \in 1..(m - 1) : hs[i] = u[i]
        /\ hs[m].k = u[m].k /\ hs[m].v = Front(hs) /\ Proper(hs[m])
    <3>1. PICK f : f = Front(u)
      OBVIOUS
    <3>2. PICK e : e = [u[m] EXCEPT !.v = f]
      OBVIOUS
    <3>3. hs = [u EXCEPT ![m] = e]
      BY <2>3, <2>4, <3>1, <3>2
    <3>4. IsSeq(u) /\ m = Len(u) /\ m >= 2 /\ u[m] = [k |-> u[m].k, v |-> u[m].v]
          /\ u[m].k # "data"
      <4>1. u[m].k \in Fields
        BY <1>5, <2>3
      <4>2. QED BY <1>4, <2>3, <2>5, <4>1 DEF Fields
    <3>5. ChecksAll(u, hs, m)
      BY ONLY <3>1, <3>2, <3>3, <3>4, Checked
    <3>6. QED BY <3>5 DEF ChecksAll
  <2>8. hs[1] = u[1] /\ hs[2] = u[2]
    <3>1. 1 \in 1..(m - 1) /\ 2 \in 1..(m - 1)
      BY <2>3
    <3>2. QED BY <2>7, <3>1
  <2>9. \A k \in 3..m : hs[k].k \in Fields
    <3>1. TAKE k \in 3..m
    <3>2. k = m \/ k \in 1..(m - 1)
      BY <2>3
    <3>3. hs[k].k = u[k].k
      BY <2>7, <3>2
    <3>4. k \in 3..(2 + n)
      BY <2>2
    <3>5. QED BY <1>5, <3>3, <3>4
  <2>10. h["hcrc"] # "none" /\ Len(u) = Len(hs) /\ Len(hs) = 2 + n
    BY <1>10, <2>2, <2>3, <2>7
  <2>11. \A k \in 1..m : Proper(hs[k])
    <3>1. TAKE k \in 1..m
    <3>2. CASE k = m
      BY <2>7, <3>2
    <3>3. CASE k \in 1..(m - 1)
      <4>1. hs[k] = u[k] /\ k \in 1..(2 + n)
        BY <2>2, <2>7, <3>3
      <4>2. QED BY <1>7, <4>1
    <3>4. k = m \/ k \in 1..(m - 1)
      BY <2>2
    <3>5. QED BY <3>2, <3>3, <3>4
  <2>12. QED BY <1>2, <1>3, <1>4, <1>6, <2>2, <2>7, <2>8, <2>9, <2>10, <2>11 DEF IsFullHead
<1>11. QED BY <1>9, <1>10

\* The writer sends the whole header, or what comes up to the field that is refused.
LEMMA HeadUnitsAre ==
  ASSUME NEW h, NEW hs, hs = FullHead(h), NEW g, g = HeadUnits(h)
  PROVE  /\ ~Refused(h) => g = hs
         /\ Refused(h) => \E c \in 1..(Len(hs) - 1) : IsFront(hs, c, g)
<1>1. PICK fs : fs = FieldsOf(h)
  OBVIOUS
<1>2. PICK u : u = Pairs(h, fs)
  OBVIOUS
<1>3. /\ IsSeq(fs) /\ IsSeq(u) /\ IsSeq(hs) /\ Len(hs) = 2 + Len(fs) /\ Len(fs) \in Nat
      /\ Len(u) = Len(hs)
      /\ \A i \in 1..(Len(hs) - 1) : hs[i] = u[i]
  <2>1. IsFullHead(h, fs, u, hs)
    BY <1>1, <1>2, FullHeadIs
  <2>2. QED BY <2>1 DEF IsFullHead
<1>4. PICK n \in Nat : n = Len(fs)
  BY <1>3
<1>5. Lists(h, fs, Fields)
  BY <1>1, FieldsListed
<1>6. PICK I : I = {i \in 1..n : h[fs[i]] = "refused"}
  OBVIOUS
<1>7. g = LET bad == IF I # {} THEN Min(I) ELSE 0
          IN  IF bad # 0 THEN SubSeq(u, 1, 1 + bad)
              ELSE IF h["hcrc"] # "none" THEN [u EXCEPT ![Len(u)].v = Front(u)] ELSE u
  <2>1. I = {i \in 1..Len(fs) : h[fs[i]] = "refused"}
    BY <1>4, <1>6
  <2>2. u = Start(fs) \o [i \in DOMAIN fs |-> Unit(fs[i], h[fs[i]])]
    BY <1>2 DEF Pairs
  <2>3. h.hcrc = h["hcrc"]
    OBVIOUS
  <2>4. g = LET bad == SelectInSeq(fs, LAMBDA f : h[f] = "refused")
            IN  IF bad # 0 THEN SubSeq(u, 1, 1 + bad)
                ELSE IF h["hcrc"] # "none" THEN [u EXCEPT ![Len(u)].v = Front(u)] ELSE u
    BY <1>1, <2>2, <2>3, Zenon DEF HeadUnits
  <2>5. SelectInSeq(fs, LAMBDA f : h[f] = "refused") = IF I # {} THEN Min(I) ELSE 0
    BY <2>1, Zenon DEF SelectInSeq
  <2>6. QED BY <2>4, <2>5, Zenon
<1>8. hs = IF h["hcrc"] # "none" THEN [u EXCEPT ![Len(u)].v = Front(u)] ELSE u
  BY <1>1, <1>2 DEF FullHead, Pairs
<1>9. Refused(h) <=> I # {}
  <2>1. ASSUME NEW i \in I PROVE Refused(h)
    <3>1. fs[i] \in Fields /\ h[fs[i]] = "refused"
      BY <1>4, <1>5, <1>6, <2>1 DEF Lists
    <3>2. QED BY <3>1 DEF Refused
  <2>2. ASSUME Refused(h) PROVE I # {}
    <3>1. PICK f \in Fields : h[f] = "refused"
      BY <2>2 DEF Refused
    <3>2. PICK i \in 1..n : fs[i] = f
      BY <1>4, <1>5, <3>1 DEF Lists
    <3>3. i \in I
      BY <1>6, <3>1, <3>2
    <3>4. QED BY <3>3
  <2>3. QED BY <2>1, <2>2
<1>10. CASE I = {}
  <2>1. g = hs
    BY <1>7, <1>8, <1>10
  <2>2. QED BY <1>9, <1>10, <2>1
<1>11. CASE I # {}
  <2>1. PICK j \in I : j = Min(I)
    <3>1. I \in SUBSET Nat
      BY <1>6
    <3>2. \E m \in I : \A k \in I : m <= k
      BY <1>11, <3>1, LeastElement
    <3>3. Min(I) \in I
      BY <3>2 DEF Min
    <3>4. QED BY <3>3
  <2>2. j \in 1..n
    BY <1>6
  <2>3. g = SubSeq(u, 1, 1 + j)
    BY <1>7, <1>11, <2>1, <2>2
  <2>4. Len(u) = 2 + n /\ Len(hs) = 2 + n
    BY <1>3, <1>4
  <2>5. PICK c \in Nat : c = 1 + j
    BY <2>2
  <2>6. c \in 0..Len(u) /\ c \in 1..(Len(hs) - 1)
    BY <2>2, <2>4, <2>5
  <2>7. IsFront(u, c, g)
    BY <1>3, <2>3, <2>5, <2>6, Fronts
  <2>8. IsFront(hs, c, g)
    <3>1. \A i \in 1..c : g[i] = hs[i]
      <4>1. TAKE i \in 1..c
      <4>2. g[i] = u[i]
        BY <2>7 DEF IsFront
      <4>3. i \in 1..(Len(hs) - 1)
        BY <2>6
      <4>4. QED BY <1>3, <4>2, <4>3
    <3>2. QED BY <2>4, <2>6, <2>7, <3>1 DEF IsFront
  <2>9. QED BY <1>9, <1>11, <2>6, <2>8
<1>12. QED BY <1>10, <1>11

\* The header of a zlib stream.
LEMMA DictHeadIs ==
  ASSUME NEW d, NEW hs, hs = DictHead(d)
  PROVE  GoodHead("zlib", d, hs)
<1>1. CASE d = None
  <2>1. PICK v : v = <<>>
    OBVIOUS
  <2>2. hs = <<Unit("head", v), Unit("head", v)>>
    BY <1>1, <2>1 DEF DictHead, Start
  <2>3. IsSeq(hs) /\ Len(hs) = 2 /\ hs[1] = Unit("head", v) /\ hs[2] = Unit("head", v)
    BY <2>2, Couples
  <2>4. hs[1].k = "head" /\ hs[2].k = "head" /\ hs[1].v = <<>>
    BY <2>1, <2>3, UnitFields
  <2>5. 3..Len(hs) = {}
    BY <2>3
  <2>6. Len(hs) = HeadLen("zlib", hs[1].v)
    BY <2>3, <2>4 DEF HeadLen
  <2>7. IsFile(hs)
    <3>1. \A i \in 1..Len(hs) : i = 1 \/ i = 2
      BY <2>3
    <3>2. Proper(hs[1]) /\ Proper(hs[2])
      BY <2>3, UnitFields DEF Proper, Texted
    <3>3. QED BY <2>3, <3>1, <3>2 DEF IsFile
  <2>8. Len(hs) >= 2 /\ \A k \in 3..Len(hs) : hs[k].k \in FieldKinds
    BY <2>3, <2>5
  <2>9. QED BY <1>1, <2>4, <2>6, <2>7, <2>8 DEF GoodHead
<1>2. CASE d # None
  <2>1. PICK v : v = <<"dict">>
    OBVIOUS
  <2>2. PICK s, t : s = <<Unit("head", v), Unit("head", v)>> /\ t = <<Unit("dict", d)>>
    OBVIOUS
  <2>3. hs = s \o t
    BY <1>2, <2>1, <2>2 DEF DictHead, Start
  <2>4. IsSeq(s) /\ Len(s) = 2 /\ s[1] = Unit("head", v) /\ s[2] = Unit("head", v)
    BY <2>2, Couples
  <2>5. IsSeq(t) /\ Len(t) = 1 /\ t[1] = Unit("dict", d)
    BY <2>2, Singles
  <2>6. /\ IsSeq(hs) /\ Len(hs) = Len(s) + Len(t)
        /\ \A i \in 1..Len(s) : hs[i] = s[i]
        /\ \A i \in 1..Len(t) : hs[Len(s) + i] = t[i]
    <3>1. IsSeq(s) /\ IsSeq(t)
      BY <2>4, <2>5
    <3>2. QED BY ONLY <2>3, <3>1, Catenated
  <2>7. Len(hs) = 3 /\ hs[1] = s[1] /\ hs[2] = s[2] /\ hs[3] = t[1]
    BY <2>4, <2>5, <2>6
  <2>8. hs[1].k = "head" /\ hs[2].k = "head" /\ hs[1].v = v /\ hs[3].k = "dict" /\ hs[3].v = d
    BY <2>4, <2>5, <2>7, UnitFields
  <2>9. \A k \in 3..Len(hs) : hs[k].k \in FieldKinds
    <3>1. \A k \in 3..Len(hs) : k = 3
      BY <2>7
    <3>2. "dict" \in FieldKinds
      BY DEF FieldKinds
    <3>3. QED BY <2>8, <3>1, <3>2
  <2>10. v # <<>>
    <3>1. Len(v) = 1
      BY <2>1, Singles
    <3>2. QED BY <3>1, Empty
  <2>11. Len(hs) = HeadLen("zlib", hs[1].v)
    BY <2>7, <2>8, <2>10 DEF HeadLen
  <2>12. IsFile(hs)
    <3>1. \A i \in 1..Len(hs) : i = 1 \/ i = 2 \/ i = 3
      BY <2>7
    <3>2. Proper(hs[1]) /\ Proper(hs[2]) /\ Proper(hs[3])
      BY <2>4, <2>5, <2>7, UnitFields DEF Proper, Texted
    <3>3. QED BY <2>6, <3>1, <3>2 DEF IsFile
  <2>13. Len(hs) >= 2 /\ d # None /\ hs[1].v = <<"dict">> /\ hs[3].v = d
    BY <1>2, <2>1, <2>7, <2>8
  <2>14. hs[1].k = "head" /\ hs[2].k = "head"
    BY <2>8
  <2>15. QED BY ONLY <2>9, <2>11, <2>12, <2>13, <2>14 DEF GoodHead
<1>3. QED BY <1>1, <1>2

\* Every header says in its start which units it has.
LEMMA GoodHeads ==
  ASSUME NEW f \in {"gzip", "zlib"}, NEW d, NEW hs \in Heads(f, d)
  PROVE  GoodHead(f, d, hs)
<1>1. CASE f = "zlib"
  <2>1. hs = DictHead(d)
    BY <1>1 DEF Heads
  <2>2. QED BY <1>1, <2>1, DictHeadIs
<1>2. CASE f = "gzip"
  <2>1. PICK h \in Headers : hs = FullHead(h)
    BY <1>2 DEF Heads
  <2>2. PICK fs, u : fs = FieldsOf(h) /\ u = Pairs(h, fs)
    OBVIOUS
  <2>3. /\ IsSeq(fs) /\ IsSeq(hs) /\ Len(hs) = 2 + Len(fs) /\ Len(fs) \in Nat
        /\ hs[1] = Unit("head", fs) /\ hs[2].k = "head"
        /\ \A k \in 3..Len(hs) : hs[k].k \in Fields
        /\ fs # <<>> /\ Last(fs) = "hcrc" => hs[Len(hs)].v = Front(hs)
        /\ \A k \in 1..Len(hs) : Proper(hs[k])
    <3>1. IsFullHead(h, fs, u, hs)
      BY <2>1, <2>2, FullHeadIs
    <3>2. QED BY <3>1 DEF IsFullHead
  <2>4. hs[1].k = "head" /\ hs[1].v = fs
    BY <2>3, UnitFields
  <2>5. Len(hs) = HeadLen("gzip", hs[1].v)
    BY <2>3, <2>4 DEF HeadLen
  <2>6. \A k \in 3..Len(hs) : hs[k].k \in FieldKinds
    BY <2>3 DEF FieldKinds
  <2>7. Len(hs) >= 2
    BY <2>3
  <2>8. QED BY <1>2, <2>3, <2>4, <2>5, <2>6, <2>7 DEF GoodHead, IsFile
<1>3. QED BY <1>1, <1>2

-----------------------------------------------------------------------------
(***************************************************************************)
(* What is in the file from a place where a member may begin.              *)
(***************************************************************************)
\* What the units from p on are, behind a header of c units and n of data, also
\* when one of them is changed.
Kinds(f, g, p, c, n) ==
  \A k \in (p + 1)..Len(g) :
    /\ k <= p + 2 => g[k].k \in {"head", "bad"}
    /\ p + 2 < k /\ k <= p + c => g[k].k \in FieldKinds
    /\ p + c < k /\ k <= p + c + n => g[k].k \in BodyKinds
    /\ k = p + c + n + 1 => g[k].k \in {"end", "bad"}
    /\ k = p + c + n + 2 => g[k].k = "crc"
    /\ f = "gzip" /\ k = p + c + n + 3 => g[k].k = "size"
AllData(g, p, c, n) ==
  \A k \in (p + 1)..Len(g) : p + c < k /\ k <= p + c + n => g[k].k = "data"

\* No member begins within another,
LEMMA NextBound ==
  ASSUME NEW f \in {"gzip", "zlib"}, NEW g, NEW p \in Nat, NEW c \in Nat, c >= 2, NEW n \in Nat,
         Len(g) \in Nat, Kinds(f, g, p, c, n), NEW q \in Bounds(f, g), p < q
  PROVE  EndOf(f, p, c, n) <= q
<1>1. q \in (p + 1)..Len(g) /\ g[q].k = EndKind(f)
  BY DEF Bounds
<1>2. SUFFICES ASSUME q < EndOf(f, p, c, n) PROVE FALSE
  BY <1>1 DEF EndOf, Trail
<1>3. EndKind(f) \notin {"head", "bad"} \cup FieldKinds \cup BodyKinds \cup {"end", "bad"}
  BY DEF EndKind, FieldKinds, Fields, BodyKinds
<1>4. ~(q <= p + 2) /\ ~(p + 2 < q /\ q <= p + c) /\ ~(p + c < q /\ q <= p + c + n)
      /\ q # p + c + n + 1
  BY <1>1, <1>3 DEF Kinds
<1>5. q = p + c + n + 2 /\ f = "gzip"
  BY <1>1, <1>2, <1>4 DEF EndOf, Trail
<1>6. g[q].k = "crc"
  BY <1>1, <1>5 DEF Kinds
<1>7. QED BY <1>1, <1>5, <1>6 DEF EndKind

\* one may begin behind its end, and has one more checksum before it.
LEMMA MemberEnd ==
  ASSUME NEW f \in {"gzip", "zlib"}, NEW g, NEW p \in Nat, NEW c \in Nat, c >= 2, NEW n \in Nat,
         Len(g) \in Nat, Kinds(f, g, p, c, n), NEW q, q = EndOf(f, p, c, n), q <= Len(g)
  PROVE  q \in Bounds(f, g) /\ p < q /\ Crcs(g, q) = Crcs(g, p) + 1
<1>1. q \in (p + 1)..Len(g) /\ q \in Nat
  BY DEF EndOf, Trail
<1>2. PICK m \in Nat : m = p + c + n + 2
  OBVIOUS
<1>3. m \in (p + 1)..q /\ q <= m + 1 /\ (f = "zlib" => q = m) /\ (f = "gzip" => q = m + 1)
  BY <1>2 DEF EndOf, Trail
<1>4. ASSUME NEW k \in (p + 1)..q PROVE g[k].k = "crc" <=> k = m
  <2>1. k \in (p + 1)..Len(g)
    BY <1>1
  <2>2. "crc" \notin {"head", "bad"} \cup FieldKinds \cup BodyKinds \cup {"end", "bad"}
                     \cup {"size"}
    BY DEF FieldKinds, Fields, BodyKinds
  <2>3. CASE k <= p + 2
    BY <1>2, <2>1, <2>2, <2>3 DEF Kinds
  <2>4. CASE p + 2 < k /\ k <= p + c
    BY <1>2, <2>1, <2>2, <2>4 DEF Kinds
  <2>5. CASE p + c < k /\ k <= p + c + n
    BY <1>2, <2>1, <2>2, <2>5 DEF Kinds
  <2>6. CASE k = p + c + n + 1
    BY <1>2, <2>1, <2>2, <2>6 DEF Kinds
  <2>7. CASE k = m
    BY <1>2, <2>1, <2>7 DEF Kinds
  <2>8. CASE k = m + 1
    <3>1. f = "gzip" /\ k = p + c + n + 3
      BY <1>2, <1>3, <2>8
    <3>2. g[k].k = "size"
      BY <2>1, <3>1 DEF Kinds
    <3>3. QED BY <2>8, <3>2
  <2>9. k <= m + 1
    BY <1>1, <1>3, <1>4
  <2>10. QED BY <1>2, <1>4, <2>3, <2>4, <2>5, <2>6, <2>7, <2>8, <2>9
<1>5. Crcs(g, q) = Crcs(g, p) + 1
  <2>1. OneCrc(g, p, q, m)
    BY <1>4 DEF OneCrc
  <2>2. p \in Nat /\ q \in Nat /\ m \in (p + 1)..q
    BY <1>1, <1>3
  <2>3. QED BY ONLY <2>1, <2>2, CrcsOneMore
<1>6. g[q].k = EndKind(f)
  <2>1. CASE f = "gzip"
    <3>1. q = p + c + n + 3
      BY <1>2, <1>3, <2>1
    <3>2. QED BY <1>1, <2>1, <3>1 DEF Kinds, EndKind
  <2>2. CASE f = "zlib"
    <3>1. q = p + c + n + 2
      BY <1>2, <1>3, <2>2
    <3>2. QED BY <1>1, <2>2, <3>1 DEF Kinds, EndKind
  <2>3. QED BY <2>1, <2>2
<1>7. QED BY <1>1, <1>5, <1>6 DEF Bounds

\* What is known of a member as it was written.
LEMMA ShapeKinds ==
  ASSUME NEW f \in {"gzip", "zlib"}, NEW d, NEW o, NEW p \in Nat, NEW hs, GoodHead(f, d, hs),
         NEW y, IsBody(y), NEW x, Shape(f, o, p, hs, y, x)
  PROVE  /\ Len(hs) \in Nat /\ Len(hs) >= 2 /\ Len(y) \in Nat
         /\ Kinds(f, o, p, Len(hs), Len(y))
<1>1. PICK c \in Nat : c = Len(hs) /\ c >= 2
  BY SeqFacts DEF GoodHead, IsFile
<1>2. PICK n \in Nat : n = Len(y)
  BY SeqFacts DEF IsBody, IsFile
<1>3. ASSUME NEW k \in (p + 1)..Len(o)
      PROVE  /\ k <= p + 2 => o[k].k \in {"head", "bad"}
             /\ p + 2 < k /\ k <= p + c => o[k].k \in FieldKinds
             /\ p + c < k /\ k <= p + c + n => o[k].k \in BodyKinds
             /\ k = p + c + n + 1 => o[k].k \in {"end", "bad"}
             /\ k = p + c + n + 2 => o[k].k = "crc"
             /\ f = "gzip" /\ k = p + c + n + 3 => o[k].k = "size"
  <2>1. /\ k <= p + c => o[k] = hs[k - p]
        /\ p + c < k /\ k <= p + c + n => o[k] = y[k - p - c]
        /\ k = p + c + n + 1 => o[k] = Unit("end", 0)
        /\ k = p + c + n + 2 => o[k] = Unit("crc", x)
        /\ f = "gzip" /\ k = p + c + n + 3 => o[k] = Unit("size", Len(x) % SizeMod)
    BY <1>1, <1>2 DEF Shape
  <2>2. k <= p + 2 => o[k].k \in {"head", "bad"}
    <3>1. ASSUME k <= p + 2 PROVE o[k].k = "head"
      <4>1. k - p = 1 \/ k - p = 2
        BY <1>3, <3>1
      <4>2. o[k] = hs[k - p]
        BY <1>1, <2>1, <3>1
      <4>3. hs[1].k = "head" /\ hs[2].k = "head"
        BY DEF GoodHead
      <4>4. QED BY <4>1, <4>2, <4>3
    <3>2. QED BY <3>1
  <2>3. p + 2 < k /\ k <= p + c => o[k].k \in FieldKinds
    <3>1. SUFFICES ASSUME p + 2 < k, k <= p + c PROVE o[k].k \in FieldKinds
      OBVIOUS
    <3>2. PICK i \in 3..c : i = k - p
      BY <1>3, <3>1
    <3>3. hs[i].k \in FieldKinds
      BY <1>1 DEF GoodHead
    <3>4. QED BY <2>1, <3>1, <3>2, <3>3
  <2>4. p + c < k /\ k <= p + c + n => o[k].k \in BodyKinds
    <3>1. SUFFICES ASSUME p + c < k, k <= p + c + n PROVE o[k].k \in BodyKinds
      OBVIOUS
    <3>2. PICK i \in 1..n : i = k - p - c
      BY <1>3, <3>1
    <3>3. y[i].k \in BodyKinds
      BY <1>2 DEF IsBody
    <3>4. QED BY <2>1, <3>1, <3>2, <3>3
  <2>5. k = p + c + n + 1 => o[k].k \in {"end", "bad"}
    BY <2>1, UnitFields
  <2>6. k = p + c + n + 2 => o[k].k = "crc"
    BY <2>1, UnitFields
  <2>7. f = "gzip" /\ k = p + c + n + 3 => o[k].k = "size"
    BY <2>1, UnitFields
  <2>8. QED BY <2>2, <2>3, <2>4, <2>5, <2>6, <2>7
<1>4. Kinds(f, o, p, c, n)
  BY <1>3 DEF Kinds
<1>5. QED BY <1>1, <1>2, <1>4

\* A part of the file, from its beginning.
LEMMA ShapeFront ==
  ASSUME NEW f, NEW o, NEW p \in Nat, NEW hs, NEW y, NEW x, Shape(f, o, p, hs, y, x),
         IsSeq(o), NEW m, NEW g, IsFront(o, m, g)
  PROVE  Shape(f, g, p, hs, y, x)
<1>1. PICK l \in Nat : l = Len(o)
  BY SeqFacts
<1>2. Len(g) = m /\ m \in 0..l /\ \A i \in 1..m : g[i] = o[i]
  BY <1>1 DEF IsFront
<1>3. ASSUME NEW k \in (p + 1)..m PROVE k \in (p + 1)..l /\ g[k] = o[k]
  <2>1. k \in 1..m
    BY <1>3
  <2>2. QED BY <1>2, <2>1
<1>4. QED BY <1>1, <1>2, <1>3 DEF Shape

LEMMA FrontFacts ==
  ASSUME NEW o, IsSeq(o), NEW m, NEW g, IsFront(o, m, g)
  PROVE  /\ Len(o) \in Nat /\ m \in Nat /\ Len(g) = m /\ m <= Len(o) /\ IsSeq(g)
         /\ \A k \in 1..m : g[k] = o[k]
         /\ IsFile(o) => IsFile(g)
<1>1. PICK l \in Nat : l = Len(o)
  BY SeqFacts
<1>2. IsSeq(g) /\ Len(g) = m /\ m \in 0..l /\ \A k \in 1..m : g[k] = o[k]
  BY <1>1 DEF IsFront
<1>3. IsFile(o) => IsFile(g)
  <2>1. ASSUME IsFile(o), NEW k \in 1..m PROVE Proper(g[k])
    <3>1. k \in 1..l
      BY <1>2
    <3>2. Proper(o[k])
      BY <1>1, <2>1, <3>1 DEF IsFile
    <3>3. QED BY <1>2, <3>2
  <2>2. QED BY <1>2, <2>1 DEF IsFile
<1>4. QED BY <1>1, <1>2, <1>3

\* A front of the file has the places and the checksums of the file,
LEMMA BoundsFront ==
  ASSUME NEW f, NEW o, IsSeq(o), NEW m, NEW g, IsFront(o, m, g), NEW p \in 0..m
  PROVE  /\ p \in Bounds(f, g) <=> p \in Bounds(f, o)
         /\ Crcs(g, p) = Crcs(o, p)
<1>1. PICK l \in Nat : l = Len(o)
  BY SeqFacts
<1>2. m \in Nat /\ Len(g) = m /\ m <= l /\ \A k \in 1..m : g[k] = o[k]
  BY <1>1, FrontFacts
<1>3. p # 0 => g[p] = o[p]
  BY <1>2
<1>4. p \in Bounds(f, g) <=> p \in Bounds(f, o)
  BY <1>1, <1>2, <1>3 DEF Bounds
<1>5. p \in Nat /\ \A k \in 1..p : g[k].k = "crc" <=> o[k].k = "crc"
  BY <1>2
<1>6. QED BY <1>4, <1>5, CrcsSame

\* and is laid out like it.
LEMMA LayoutFront ==
  ASSUME NEW z, NEW f, NEW d, NEW o, NEW t, Layout(z, f, d, o, t), IsSeq(o), NEW m, NEW g,
         IsFront(o, m, g), f \in {"gzip", "zlib"}
  PROVE  Layout(z, f, d, g, t)
<1>1. PICK l \in Nat : l = Len(o)
  BY SeqFacts
<1>2. m \in Nat /\ Len(g) = m /\ m <= l
  BY <1>1, FrontFacts
<1>3. ASSUME NEW p \in Bounds(f, g), p < Len(g) PROVE MemberAt(z, f, d, g, t, p)
  <2>1. p \in 0..m /\ p \in Nat /\ p < l
    BY <1>2, <1>3 DEF Bounds
  <2>2. p \in Bounds(f, o) /\ Crcs(g, p) = Crcs(o, p)
    BY <1>3, <2>1, BoundsFront
  <2>3. MemberAt(z, f, d, o, t, p)
    BY <1>1, <2>1, <2>2 DEF Layout
  <2>4. PICK hs, y, x :
          /\ hs \in Heads(f, d) /\ x \in Seq(Bytes) /\ Spells(z, d, y, x)
          /\ Shape(f, o, p, hs, y, x) /\ Given(f, o, t, p, Len(hs), Len(y), x)
    BY <2>3 DEF MemberAt
  <2>5. Shape(f, g, p, hs, y, x)
    BY <2>1, <2>4, ShapeFront
  <2>6. Given(f, g, t, p, Len(hs), Len(y), x)
    <3>1. PICK e \in Nat : e = EndOf(f, p, Len(hs), Len(y))
      <4>1. GoodHead(f, d, hs)
        BY <2>4, GoodHeads
      <4>2. Len(hs) \in Nat /\ Len(y) \in Nat
        BY <2>4, <4>1, SeqFacts DEF GoodHead, Spells, IsBody, IsFile
      <4>3. QED BY <2>1, <4>2 DEF EndOf, Trail
    <3>2. e <= l => Crcs(o, p) < Len(t) /\ t[Crcs(o, p) + 1] = x
      BY <1>1, <2>4, <3>1 DEF Given
    <3>3. e <= m => e <= l
      BY <1>2
    <3>4. QED BY <1>2, <2>2, <3>1, <3>2, <3>3 DEF Given
  <2>7. QED BY <2>4, <2>5, <2>6 DEF MemberAt
<1>4. QED BY <1>3 DEF Layout

\* A file that has grown by units of the member that begins at p.
LEMMA LayoutMore ==
  ASSUME NEW z, NEW f \in {"gzip", "zlib"}, NEW d, NEW o, NEW t, Layout(z, f, d, o, t), IsSeq(o),
         NEW w, IsSeq(w), IsFront(w, Len(o), o),
         NEW p \in Bounds(f, o), NEW hs \in Heads(f, d), NEW y, NEW x \in Seq(Bytes),
         Spells(z, d, y, x), Shape(f, w, p, hs, y, x), Len(w) <= EndOf(f, p, Len(hs), Len(y)),
         NEW u, Len(t) \in Nat, Len(u) \in Nat, Len(t) <= Len(u),
         \A i \in 1..Len(t) : u[i] = t[i], Given(f, w, u, p, Len(hs), Len(y), x)
  PROVE  Layout(z, f, d, w, u)
<1>1. PICK l \in Nat, n \in Nat : l = Len(o) /\ n = Len(w) /\ l <= n
  BY SeqFacts, FrontFacts
<1>2. \A k \in 1..l : o[k] = w[k]
  BY <1>1, FrontFacts
<1>3. p \in 0..l
  BY <1>1 DEF Bounds
<1>4. PICK e \in Nat : e = EndOf(f, p, Len(hs), Len(y))
  <2>1. GoodHead(f, d, hs)
    BY GoodHeads
  <2>2. Len(hs) \in Nat /\ Len(y) \in Nat
    BY <2>1, SeqFacts DEF GoodHead, Spells, IsBody, IsFile
  <2>3. QED BY <1>3, <2>2 DEF EndOf, Trail
<1>5. ASSUME NEW q \in Bounds(f, w), q < n PROVE MemberAt(z, f, d, w, u, q)
  <2>1. q \in Nat
    BY DEF Bounds
  <2>2. CASE q = p
    BY <2>2 DEF MemberAt
  <2>3. CASE q > p
    <3>1. GoodHead(f, d, hs)
      BY GoodHeads
    <3>2. Len(hs) \in Nat /\ Len(hs) >= 2 /\ Len(y) \in Nat /\ Kinds(f, w, p, Len(hs), Len(y))
      BY <1>3, <3>1, ShapeKinds DEF Spells
    <3>3. e <= q
      <4>1. p \in Nat /\ Len(w) \in Nat /\ p < q
        BY <1>1, <1>3, <2>3
      <4>2. QED BY <1>4, <3>2, <4>1, NextBound
    <3>4. QED BY <1>1, <1>4, <1>5, <2>1, <3>3
  <2>4. CASE q < p
    <3>1. q \in 0..l /\ q < l
      BY <1>3, <2>1, <2>4
    <3>2. q \in Bounds(f, o) /\ Crcs(w, q) = Crcs(o, q)
      BY <1>1, <1>5, <3>1, BoundsFront
    <3>3. PICK hq, v, xq :
            /\ hq \in Heads(f, d) /\ xq \in Seq(Bytes) /\ Spells(z, d, v, xq)
            /\ Shape(f, o, q, hq, v, xq) /\ Given(f, o, t, q, Len(hq), Len(v), xq)
      BY <1>1, <3>1, <3>2 DEF Layout, MemberAt
    <3>4. GoodHead(f, d, hq)
      BY <3>3, GoodHeads
    <3>5. Len(hq) >= 2 /\ Len(hq) \in Nat /\ Len(v) \in Nat /\ Kinds(f, o, q, Len(hq), Len(v))
      BY <2>1, <3>3, <3>4, ShapeKinds DEF Spells
    <3>6. PICK c \in Nat, m \in Nat : c = Len(hq) /\ m = Len(v)
      BY <3>5
    <3>7. EndOf(f, q, c, m) <= p
      <4>1. Len(o) \in Nat /\ q < p /\ c >= 2 /\ Kinds(f, o, q, c, m)
        BY <1>1, <2>4, <3>5, <3>6
      <4>2. QED BY <2>1, <4>1, NextBound
    <3>8. q + c + m + 2 <= l /\ (f = "gzip" => q + c + m + 3 <= l)
      BY <1>3, <3>7 DEF EndOf, Trail
    <3>9. Shape(f, w, q, hq, v, xq)
      <4>1. ASSUME NEW k \in (q + 1)..n
            PROVE  /\ k <= q + c => w[k] = hq[k - q]
                   /\ q + c < k /\ k <= q + c + m => w[k] = v[k - q - c]
                   /\ k = q + c + m + 1 => w[k] = Unit("end", 0)
                   /\ k = q + c + m + 2 => w[k] = Unit("crc", xq)
                   /\ f = "gzip" /\ k = q + c + m + 3 => w[k] = Unit("size", Len(xq) % SizeMod)
        <5>1. CASE k <= l
          <6>1. k \in (q + 1)..l /\ k \in 1..l
            BY <2>1, <5>1
          <6>2. /\ k <= q + c => o[k] = hq[k - q]
                /\ q + c < k /\ k <= q + c + m => o[k] = v[k - q - c]
                /\ k = q + c + m + 1 => o[k] = Unit("end", 0)
                /\ k = q + c + m + 2 => o[k] = Unit("crc", xq)
                /\ f = "gzip" /\ k = q + c + m + 3 => o[k] = Unit("size", Len(xq) % SizeMod)
            BY <1>1, <3>3, <3>6, <6>1 DEF Shape
          <6>3. o[k] = w[k]
            BY <1>2, <6>1
          <6>4. QED BY <6>2, <6>3
        <5>2. CASE k > l
          <6>1. ~(k <= q + c) /\ ~(k <= q + c + m) /\ k # q + c + m + 1 /\ k # q + c + m + 2
                /\ ~(f = "gzip" /\ k = q + c + m + 3)
            BY <2>1, <3>8, <5>2
          <6>2. QED BY <6>1
        <5>3. QED BY <5>1, <5>2
      <4>2. QED BY <1>1, <3>6, <4>1 DEF Shape
    <3>10. Given(f, w, u, q, Len(hq), Len(v), xq)
      <4>1. EndOf(f, q, c, m) <= l
        BY <2>1, <3>8 DEF EndOf, Trail
      <4>2. PICK a : a = Crcs(o, q)
        OBVIOUS
      <4>3. a \in Nat /\ a < Len(t) /\ t[a + 1] = xq
        BY <1>1, <2>1, <3>3, <3>6, <4>1, <4>2, CrcsFacts DEF Given
      <4>4. a < Len(u) /\ u[a + 1] = xq
        <5>1. a + 1 \in 1..Len(t)
          BY <4>3
        <5>2. u[a + 1] = t[a + 1]
          BY <5>1
        <5>3. QED BY <4>3, <5>2
      <4>5. QED BY <3>2, <3>6, <4>2, <4>4 DEF Given
    <3>11. QED BY <3>3, <3>9, <3>10 DEF MemberAt
  <2>5. QED BY <1>3, <2>1, <2>2, <2>3, <2>4
<1>6. QED BY <1>1, <1>5 DEF Layout

\* What the reader can know of the member at p, with n units for x.
Member(z, f, g, t, p, c, n, x) ==
  /\ c = HeadLen(f, g[p + 1].v) /\ Kinds(f, g, p, c, n) /\ (z => AllData(g, p, c, n))
  /\ f = "gzip" => IsSeq(g[p + 1].v)
  /\ EndOf(f, p, c, n) <= Len(g) =>
       /\ Crcs(g, p) < Len(t) /\ t[Crcs(g, p) + 1] = x
       /\ g[p + c + n + 2].v \in Seq(Nat) => g[p + c + n + 2].v = x
Known(z, f, g, t) ==
  \A p \in Bounds(f, g) : p < Len(g) =>
    \E c \in Nat, n \in Nat, x \in Seq(Bytes) : c >= 2 /\ Member(z, f, g, t, p, c, n, x)

LEMMA AllSpelled ==
  ASSUME NEW f, NEW d, NEW o, NEW p \in Nat, NEW hs, Len(hs) \in Nat, NEW y,
         NEW x \in Seq(Bytes), y = DataOf(x, d), Shape(f, o, p, hs, y, x)
  PROVE  AllData(o, p, Len(hs), Len(y))
<1>1. PICK c \in Nat, n \in Nat : c = Len(hs) /\ n = Len(x)
  OBVIOUS
<1>2. y = [i \in 1..n |-> DataUnit(x[i], d)]
  BY <1>1 DEF DataOf
<1>3. y = [i \in 1..n |-> y[i]] /\ \A i \in 1..n : y[i] = DataUnit(x[i], d)
  BY <1>2
<1>4. Len(y) = n
  BY <1>3, FromFunction
<1>5. ASSUME NEW k \in (p + 1)..Len(o), p + c < k, k <= p + c + n PROVE o[k].k = "data"
  <2>1. o[k] = y[k - p - c]
    BY <1>1, <1>4, <1>5 DEF Shape
  <2>2. PICK i \in 1..n : i = k - p - c
    BY <1>5
  <2>3. o[k] = DataUnit(x[i], d)
    BY <1>3, <2>1, <2>2
  <2>4. QED BY <2>3, UnitFields DEF DataUnit
<1>6. QED BY <1>1, <1>4, <1>5 DEF AllData

\* The reader can rely on Known if nothing has changed.
LEMMA LayoutKnown ==
  ASSUME NEW z, NEW f \in {"gzip", "zlib"}, NEW d, NEW o, NEW t, IsSeq(o), Layout(z, f, d, o, t)
  PROVE  Known(z, f, o, t)
<1>1. PICK l \in Nat : l = Len(o)
  BY SeqFacts
<1>2. ASSUME NEW p \in Bounds(f, o), p < l
      PROVE  \E c \in Nat, n \in Nat, x \in Seq(Bytes) : c >= 2 /\ Member(z, f, o, t, p, c, n, x)
  <2>1. p \in Nat
    BY DEF Bounds
  <2>2. PICK hs, y, x :
          /\ hs \in Heads(f, d) /\ x \in Seq(Bytes) /\ Spells(z, d, y, x)
          /\ Shape(f, o, p, hs, y, x) /\ Given(f, o, t, p, Len(hs), Len(y), x)
    BY <1>1, <1>2 DEF Layout, MemberAt
  <2>3. GoodHead(f, d, hs)
    BY <2>2, GoodHeads
  <2>4. PICK c \in Nat, n \in Nat : c = Len(hs) /\ n = Len(y) /\ c >= 2 /\ Kinds(f, o, p, c, n)
    BY <2>1, <2>2, <2>3, ShapeKinds DEF Spells
  <2>5. c = HeadLen(f, o[p + 1].v) /\ (f = "gzip" => IsSeq(o[p + 1].v))
    <3>1. PICK k \in (p + 1)..l : k = p + 1
      BY <1>2, <2>1
    <3>2. o[p + 1] = hs[1]
      <4>1. k <= p + c /\ k - p = 1
        BY <2>1, <2>4, <3>1
      <4>2. o[k] = hs[k - p]
        BY <1>1, <2>2, <2>4, <4>1 DEF Shape
      <4>3. QED BY <3>1, <4>1, <4>2
    <3>3. QED BY <2>3, <2>4, <3>2 DEF GoodHead
  <2>6. EndOf(f, p, c, n) <= l =>
          /\ Crcs(o, p) < Len(t) /\ t[Crcs(o, p) + 1] = x
          /\ o[p + c + n + 2].v = x
    <3>1. SUFFICES ASSUME EndOf(f, p, c, n) <= l
                   PROVE  /\ Crcs(o, p) < Len(t) /\ t[Crcs(o, p) + 1] = x
                          /\ o[p + c + n + 2].v = x
      OBVIOUS
    <3>2. PICK m \in Nat : m = p + c + n + 2
      BY <2>1
    <3>3. m \in (p + 1)..l
      BY <2>1, <3>1, <3>2 DEF EndOf, Trail
    <3>4. o[m] = Unit("crc", x)
      BY <1>1, <2>2, <2>4, <3>2, <3>3 DEF Shape
    <3>5. QED BY <1>1, <2>2, <2>4, <3>1, <3>2, <3>4, UnitFields DEF Given
  <2>7. z => AllData(o, p, c, n)
    BY <2>1, <2>2, <2>4, AllSpelled DEF Spells
  <2>8. Member(z, f, o, t, p, c, n, x)
    BY <1>1, <2>4, <2>5, <2>6, <2>7 DEF Member
  <2>9. QED BY <2>2, <2>4, <2>8
<1>3. QED BY <1>1, <1>2 DEF Known

\* A unit that changes keeps its kind, or is one that no format has.
Broken == {"head", "end", "bad"}
LEMMA ChangedUnit ==
  ASSUME NEW u, Proper(u), NEW w, w = Changed(u)
  PROVE  /\ u.k \notin Broken => w.k = u.k
         /\ u.k \in Broken => w.k = "bad" /\ w.v = u.v
         /\ u.k = "crc" => w.v = <<-1>>
         /\ Texted(w)
<1>1. PICK a, b : u = [k |-> a, v |-> b] /\ a = u.k /\ b = u.v
  BY DEF Proper
<1>2. CASE a = "data"
  <2>1. PICK n, e : n \in Nat /\ b = [text |-> n, dict |-> e]
    BY <1>1, <1>2 DEF Proper, Texted
  <2>2. w = [u EXCEPT !.v.text = 0]
    BY <1>1, <1>2 DEF Changed
  <2>3. w.k = a /\ w.v = [text |-> 0, dict |-> e]
    BY <1>1, <2>1, <2>2
  <2>4. QED BY <1>1, <1>2, <2>3 DEF Broken, Texted
<1>3. CASE a = "crc"
  <2>1. w = [u EXCEPT !.v = <<-1>>]
    BY <1>1, <1>3 DEF Changed
  <2>2. QED BY <1>1, <1>3, <2>1 DEF Broken, Texted
<1>4. CASE a = "size"
  <2>1. w = [u EXCEPT !.v = (@ + 1) % SizeMod]
    BY <1>1, <1>4 DEF Changed
  <2>2. QED BY <1>1, <1>4, <2>1 DEF Broken, Texted
<1>5. CASE a \in Broken
  <2>1. w = [u EXCEPT !.k = "bad"]
    BY <1>1, <1>5 DEF Changed, Broken
  <2>2. QED BY <1>1, <1>5, <2>1 DEF Broken, Texted
<1>6. CASE a = "hcrc"
  <2>1. w = [u EXCEPT !.v = <<>>]
    BY <1>1, <1>6 DEF Changed
  <2>2. QED BY <1>1, <1>6, <2>1 DEF Broken, Texted
<1>7. CASE a \notin {"data", "crc", "size", "head", "end", "bad", "hcrc"}
  <2>1. w = [u EXCEPT !.v = "changed"]
    BY <1>1, <1>7 DEF Changed
  <2>2. QED BY <1>1, <1>7, <2>1 DEF Broken, Texted
<1>8. QED BY <1>2, <1>3, <1>4, <1>5, <1>6, <1>7 DEF Broken

IsChanged(o, i, g) ==
  /\ IsSeq(g) /\ Len(g) = Len(o)
  /\ \A k \in 1..Len(o) :
       /\ o[k].k \notin Broken => g[k].k = o[k].k
       /\ o[k].k \in Broken => g[k].k \in {"bad", o[k].k} /\ g[k].v = o[k].v
       /\ o[k].k = "crc" /\ k = i => g[k].v = <<-1>>
       /\ k # i => g[k] = o[k]
       /\ Texted(g[k])

LEMMA ChangedFile ==
  ASSUME NEW o, IsFile(o), NEW i \in 1..Len(o), NEW g, g = [o EXCEPT ![i] = Changed(@)]
  PROVE  IsChanged(o, i, g)
<1>1. PICK l \in Nat : l = Len(o) /\ DOMAIN o = 1..l
  BY SeqFacts DEF IsFile
<1>2. PICK w : w = Changed(o[i])
  OBVIOUS
<1>3. g = [k \in 1..l |-> IF k = i THEN w ELSE o[k]]
  BY <1>1, <1>2
<1>4. g = [k \in 1..l |-> g[k]] /\ g[i] = w /\ \A k \in 1..l : k # i => g[k] = o[k]
  BY <1>1, <1>3
<1>5. IsSeq(g) /\ Len(g) = l
  BY <1>4, FromFunction
<1>6. ASSUME NEW k \in 1..l
      PROVE  /\ o[k].k \notin Broken => g[k].k = o[k].k
             /\ o[k].k \in Broken => g[k].k \in {"bad", o[k].k} /\ g[k].v = o[k].v
             /\ o[k].k = "crc" /\ k = i => g[k].v = <<-1>>
             /\ k # i => g[k] = o[k]
             /\ Texted(g[k])
  <2>1. Proper(o[k])
    BY <1>1 DEF IsFile
  <2>2. CASE k # i
    BY <1>4, <2>1, <2>2 DEF Proper
  <2>3. CASE k = i
    <3>1. g[k] = Changed(o[k])
      BY <1>2, <1>4, <2>3
    <3>2. QED BY <2>1, <2>3, <3>1, ChangedUnit
  <2>4. QED BY <2>2, <2>3
<1>7. QED BY <1>1, <1>5, <1>6 DEF IsChanged

\* One unit may change: what the reader knows then is the same.
AllTexted(g) == \A k \in 1..Len(g) : Texted(g[k])
LEMMA ChangedKnown ==
  ASSUME NEW z, NEW f \in {"gzip", "zlib"}, NEW o, NEW t, IsFile(o), Known(z, f, o, t),
         NEW i \in 1..Len(o), NEW g, g = [o EXCEPT ![i] = Changed(@)]
  PROVE  Known(z, f, g, t) /\ IsSeq(g) /\ AllTexted(g)
<1>1. PICK l \in Nat : l = Len(o)
  BY SeqFacts DEF IsFile
<1>2. /\ IsSeq(g) /\ Len(g) = l
      /\ \A k \in 1..l :
           /\ o[k].k \notin Broken => g[k].k = o[k].k
           /\ o[k].k \in Broken => g[k].k \in {"bad", o[k].k} /\ g[k].v = o[k].v
           /\ o[k].k = "crc" /\ k = i => g[k].v = <<-1>>
           /\ k # i => g[k] = o[k]
           /\ Texted(g[k])
  <2>1. IsChanged(o, i, g)
    BY ChangedFile
  <2>2. QED BY <1>1, <2>1 DEF IsChanged
<1>3. ASSUME NEW p \in Bounds(f, g), p < l
      PROVE  \E c \in Nat, n \in Nat, x \in Seq(Bytes) : c >= 2 /\ Member(z, f, g, t, p, c, n, x)
  <2>1. p \in Nat /\ (p = 0 \/ (p \in 1..l /\ g[p].k = EndKind(f)))
    BY <1>2 DEF Bounds
  <2>2. p \in Bounds(f, o)
    <3>1. EndKind(f) \notin Broken
      BY DEF EndKind, Broken
    <3>2. p # 0 => o[p].k = EndKind(f)
      <4>1. SUFFICES ASSUME p # 0 PROVE o[p].k = EndKind(f)
        OBVIOUS
      <4>2. p \in 1..l /\ g[p].k = EndKind(f)
        BY <2>1, <4>1
      <4>3. /\ o[p].k \notin Broken => g[p].k = o[p].k
            /\ o[p].k \in Broken => g[p].k \in {"bad", o[p].k}
        BY <1>2, <4>2
      <4>4. "bad" \in Broken
        BY DEF Broken
      <4>5. QED BY <3>1, <4>2, <4>3, <4>4
    <3>3. QED BY <1>1, <2>1, <3>2 DEF Bounds
  <2>3. Crcs(g, p) = Crcs(o, p)
    <3>1. ASSUME NEW k \in 1..p PROVE g[k].k = "crc" <=> o[k].k = "crc"
      <4>1. k \in 1..l
        BY <1>3, <2>1
      <4>2. /\ o[k].k \notin Broken => g[k].k = o[k].k
            /\ o[k].k \in Broken => g[k].k \in {"bad", o[k].k}
        BY <1>2, <4>1
      <4>3. QED BY <4>2 DEF Broken
    <3>2. QED BY <2>1, <3>1, CrcsSame
  <2>4. PICK c \in Nat, n \in Nat, x \in Seq(Bytes) : c >= 2 /\ Member(z, f, o, t, p, c, n, x)
    BY <1>1, <1>3, <2>2 DEF Known
  <2>5. PICK j \in (p + 1)..l : j = p + 1
    BY <1>3, <2>1
  <2>6. /\ c = HeadLen(f, o[j].v) /\ Kinds(f, o, p, c, n) /\ (z => AllData(o, p, c, n))
        /\ f = "gzip" => IsSeq(o[j].v)
    BY <2>4, <2>5 DEF Member
  <2>7. g[j].v = o[j].v
    <3>1. j \in 1..l /\ j \in (p + 1)..l /\ j <= p + 2
      BY <2>1, <2>5
    <3>2. o[j].k \in {"head", "bad"}
      BY <1>1, <2>6, <3>1 DEF Kinds
    <3>3. o[j].k \in Broken
      BY <3>2 DEF Broken
    <3>4. QED BY <1>2, <3>1, <3>3
  <2>8. Kinds(f, g, p, c, n)
    <3>1. ASSUME NEW k \in (p + 1)..l
          PROVE  /\ k <= p + 2 => g[k].k \in {"head", "bad"}
                 /\ p + 2 < k /\ k <= p + c => g[k].k \in FieldKinds
                 /\ p + c < k /\ k <= p + c + n => g[k].k \in BodyKinds
                 /\ k = p + c + n + 1 => g[k].k \in {"end", "bad"}
                 /\ k = p + c + n + 2 => g[k].k = "crc"
                 /\ f = "gzip" /\ k = p + c + n + 3 => g[k].k = "size"
      <4>1. /\ k <= p + 2 => o[k].k \in {"head", "bad"}
            /\ p + 2 < k /\ k <= p + c => o[k].k \in FieldKinds
            /\ p + c < k /\ k <= p + c + n => o[k].k \in BodyKinds
            /\ k = p + c + n + 1 => o[k].k \in {"end", "bad"}
            /\ k = p + c + n + 2 => o[k].k = "crc"
            /\ f = "gzip" /\ k = p + c + n + 3 => o[k].k = "size"
        BY <1>1, <2>6 DEF Kinds
      <4>2. k \in 1..l
        BY <2>1
      <4>3. /\ o[k].k \notin Broken => g[k].k = o[k].k
            /\ o[k].k \in Broken => g[k].k \in {"bad", o[k].k}
        BY <1>2, <4>2
      <4>4. /\ \A e \in FieldKinds : e \notin Broken
            /\ "bad" \in BodyKinds /\ "crc" \notin Broken /\ "size" \notin Broken
        BY DEF FieldKinds, Fields, Broken, BodyKinds
      <4>5. QED BY <4>1, <4>3, <4>4
    <3>2. QED BY <1>2, <3>1 DEF Kinds
  <2>9. z => AllData(g, p, c, n)
    <3>1. SUFFICES ASSUME z PROVE AllData(g, p, c, n)
      OBVIOUS
    <3>2. ASSUME NEW k \in (p + 1)..l, p + c < k, k <= p + c + n PROVE g[k].k = "data"
      <4>1. o[k].k = "data"
        BY <1>1, <2>6, <3>1, <3>2 DEF AllData
      <4>2. k \in 1..l
        BY <2>1
      <4>3. QED BY <1>2, <4>1, <4>2 DEF Broken
    <3>3. QED BY <1>2, <3>2 DEF AllData
  <2>10. EndOf(f, p, c, n) <= l =>
           /\ Crcs(g, p) < Len(t) /\ t[Crcs(g, p) + 1] = x
           /\ g[p + c + n + 2].v \in Seq(Nat) => g[p + c + n + 2].v = x
    <3>1. SUFFICES ASSUME EndOf(f, p, c, n) <= l
                   PROVE  /\ Crcs(g, p) < Len(t) /\ t[Crcs(g, p) + 1] = x
                          /\ g[p + c + n + 2].v \in Seq(Nat) => g[p + c + n + 2].v = x
      OBVIOUS
    <3>2. PICK m \in Nat : m = p + c + n + 2
      BY <2>1
    <3>3. /\ Crcs(o, p) < Len(t) /\ t[Crcs(o, p) + 1] = x
          /\ o[m].v \in Seq(Nat) => o[m].v = x
      BY <1>1, <2>4, <3>1, <3>2 DEF Member
    <3>4. m \in 1..l /\ m \in (p + 1)..l
      BY <2>1, <3>1, <3>2 DEF EndOf, Trail
    <3>5. CASE m # i
      <4>1. g[m] = o[m]
        BY <1>2, <3>4, <3>5
      <4>2. QED BY <2>3, <3>2, <3>3, <4>1
    <3>6. CASE m = i
      <4>1. o[m].k = "crc"
        BY <1>1, <2>6, <3>2, <3>4 DEF Kinds
      <4>2. g[m].v = <<-1>>
        BY <1>2, <3>4, <3>6, <4>1
      <4>3. <<-1>> \notin Seq(Nat)
        OBVIOUS
      <4>4. QED BY <2>3, <3>2, <3>3, <4>2, <4>3
    <3>7. QED BY <3>5, <3>6
  <2>11. Member(z, f, g, t, p, c, n, x)
    BY <1>2, <2>5, <2>6, <2>7, <2>8, <2>9, <2>10 DEF Member
  <2>12. QED BY <2>4, <2>11
<1>4. Known(z, f, g, t)
  BY <1>2, <1>3 DEF Known
<1>5. QED BY <1>2, <1>4 DEF AllTexted

-----------------------------------------------------------------------------
(***************************************************************************)
(* What a call of a writer adds to the file.                               *)
(***************************************************************************)
\* The units for the end of a member.
Ending(f, x) ==
  IF f = "gzip" THEN <<Unit("end", 0)>> \o <<Unit("crc", x), Unit("size", Len(x) % SizeMod)>>
  ELSE <<Unit("end", 0), Unit("crc", x)>>

\* a is r and s, and b is s and t, so both of these are all three.
Associate(r, s, t, a, b) == a \o t = r \o b

LEMMA Associative ==
  ASSUME NEW r, NEW s, NEW t, IsSeq(r), IsSeq(s), IsSeq(t), NEW a, a = r \o s,
         NEW b, b = s \o t
  PROVE  Associate(r, s, t, a, b)
<1>1. PICK R : r \in Seq(R)
  BY DEF IsSeq
<1>2. PICK S : s \in Seq(S)
  BY DEF IsSeq
<1>3. PICK T : t \in Seq(T)
  BY DEF IsSeq
<1>4. PICK V : V = R \cup S \cup T
  OBVIOUS
<1>5. r \in Seq(V) /\ s \in Seq(V) /\ t \in Seq(V)
  BY <1>1, <1>2, <1>3, <1>4
<1>6. (r \o s) \o t = r \o (s \o t)
  BY <1>5, ConcatAssociative
<1>7. QED BY <1>6 DEF Associate

LEMMA WithEmpty ==
  ASSUME NEW s, IsSeq(s)
  PROVE  s \o <<>> = s /\ <<>> \o s = s
<1>1. PICK S : s \in Seq(S)
  BY DEF IsSeq
<1>2. QED BY <1>1, ConcatEmptySeq

LEMMA UnitsBehind ==
  ASSUME NEW o, NEW u, IsFile(o), IsFile(u), NEW w, w = o \o u
  PROVE  IsFile(w) /\ Len(w) = Len(o) + Len(u) /\ IsFront(w, Len(o), o)
<1>1. PICK l \in Nat, n \in Nat : l = Len(o) /\ n = Len(u)
  BY SeqFacts DEF IsFile
<1>2. /\ IsSeq(w) /\ Len(w) = l + n
      /\ \A i \in 1..l : w[i] = o[i]
      /\ \A i \in 1..n : w[l + i] = u[i]
  <2>1. IsSeq(o) /\ IsSeq(u)
    BY DEF IsFile
  <2>2. /\ IsSeq(w) /\ Len(w) = Len(o) + Len(u)
        /\ \A i \in 1..Len(o) : w[i] = o[i]
        /\ \A i \in 1..Len(u) : w[Len(o) + i] = u[i]
    BY <2>1, Catenated
  <2>3. QED BY <1>1, <2>2
<1>3. ASSUME NEW k \in 1..(l + n) PROVE Proper(w[k])
  <2>1. CASE k \in 1..l
    BY <1>1, <1>2, <2>1 DEF IsFile
  <2>2. CASE k \notin 1..l
    <3>1. PICK i \in 1..n : k = l + i
      <4>1. k - l \in 1..n /\ k = l + (k - l)
        BY <2>2
      <4>2. QED BY <4>1
    <3>2. Proper(u[i])
      BY <1>1 DEF IsFile
    <3>3. QED BY <1>2, <3>1, <3>2
  <2>3. QED BY <2>1, <2>2
<1>4. l \in 0..(l + n) /\ IsSeq(o)
  BY DEF IsFile
<1>5. QED BY <1>1, <1>2, <1>3, <1>4 DEF IsFile, IsFront

\* What is sent for data is a body, as is one with more behind it.
LEMMA DataOfIs ==
  ASSUME NEW y \in Seq(Bytes), NEW d, NEW u, u = DataOf(y, d)
  PROVE  IsBody(u) /\ Len(u) = Len(y) /\ \A i \in 1..Len(y) : u[i] = DataUnit(y[i], d)
<1>1. PICK n \in Nat : n = Len(y) /\ DOMAIN y = 1..n
  OBVIOUS
<1>2. u = [i \in 1..n |-> DataUnit(y[i], d)]
  BY <1>1 DEF DataOf
<1>3. u = [i \in 1..n |-> u[i]] /\ \A i \in 1..n : u[i] = DataUnit(y[i], d)
  BY <1>2
<1>4. IsSeq(u) /\ Len(u) = n
  BY <1>3, FromFunction
<1>5. ASSUME NEW i \in 1..n PROVE Proper(u[i]) /\ u[i].k \in BodyKinds
  <2>1. PICK v : v = [text |-> y[i], dict |-> d]
    OBVIOUS
  <2>2. u[i] = Unit("data", v)
    BY <1>3, <2>1 DEF DataUnit
  <2>3. u[i].k = "data" /\ u[i].v = v /\ u[i] = [k |-> u[i].k, v |-> u[i].v]
    BY <2>2, UnitFields
  <2>4. y[i] \in Nat
    BY <1>1, ElementOfSeq DEF Bytes
  <2>5. QED BY <2>1, <2>3, <2>4 DEF Proper, Texted, BodyKinds
<1>6. QED BY <1>1, <1>3, <1>4, <1>5 DEF IsFile, IsBody

AreBoth(z, y, v) ==
  /\ IsBody(z) /\ Len(z) = Len(y) + Len(v) /\ Len(y) \in Nat /\ Len(v) \in Nat
  /\ \A i \in 1..Len(y) : z[i] = y[i]
  /\ \A i \in 1..Len(v) : z[Len(y) + i] = v[i]

LEMMA BodiesMeet ==
  ASSUME NEW y, NEW v, IsBody(y), IsBody(v), NEW z, z = y \o v
  PROVE  AreBoth(z, y, v)
<1>1. IsFile(y) /\ IsFile(v) /\ IsSeq(y) /\ IsSeq(v)
  BY DEF IsBody, IsFile
<1>2. PICK l \in Nat, n \in Nat : l = Len(y) /\ n = Len(v)
  BY <1>1, SeqFacts
<1>3. IsFile(z)
  BY <1>1, UnitsBehind
<1>4. /\ Len(z) = Len(y) + Len(v)
      /\ \A i \in 1..Len(y) : z[i] = y[i]
      /\ \A i \in 1..Len(v) : z[Len(y) + i] = v[i]
  BY <1>1, Catenated
<1>5. ASSUME NEW k \in 1..(l + n) PROVE z[k].k \in BodyKinds
  <2>1. CASE k \in 1..l
    <3>1. z[k] = y[k]
      BY <1>2, <1>4, <2>1
    <3>2. y[k].k \in BodyKinds
      BY <1>2, <2>1 DEF IsBody
    <3>3. QED BY <3>1, <3>2
  <2>2. CASE k \notin 1..l
    <3>1. PICK i \in 1..n : k = l + i
      <4>1. k - l \in 1..n /\ k = l + (k - l)
        BY <2>2
      <4>2. QED BY <4>1
    <3>2. v[i].k \in BodyKinds
      BY <1>2, <3>1 DEF IsBody
    <3>3. z[l + i] = v[i]
      BY <1>2, <1>4
    <3>4. QED BY <3>1, <3>2, <3>3
  <2>3. QED BY <2>1, <2>2
<1>6. IsBody(z)
  BY <1>2, <1>3, <1>4, <1>5 DEF IsBody
<1>7. Len(y) \in Nat /\ Len(v) \in Nat
  BY <1>2
<1>8. QED BY <1>4, <1>6, <1>7 DEF AreBoth

LEMMA DataMeets ==
  ASSUME NEW x \in Seq(Bytes), NEW y \in Seq(Bytes), NEW d
  PROVE  DataOf(x, d) \o DataOf(y, d) = DataOf(x \o y, d)
<1>1. PICK u, v, w, z : u = DataOf(x, d) /\ v = DataOf(y, d) /\ z = x \o y /\ w = DataOf(z, d)
  OBVIOUS
<1>2. PICK n \in Nat, m \in Nat : n = Len(x) /\ m = Len(y)
  OBVIOUS
<1>3. z \in Seq(Bytes) /\ Len(z) = n + m /\ (\A i \in 1..n : z[i] = x[i])
      /\ \A i \in 1..m : z[n + i] = y[i]
  BY <1>1, <1>2, Concatenated
<1>4. /\ IsBody(u) /\ Len(u) = n /\ \A i \in 1..n : u[i] = DataUnit(x[i], d)
      /\ IsBody(v) /\ Len(v) = m /\ \A i \in 1..m : v[i] = DataUnit(y[i], d)
      /\ IsBody(w) /\ Len(w) = n + m /\ \A i \in 1..(n + m) : w[i] = DataUnit(z[i], d)
  <2>1. x \in Seq(Bytes) /\ y \in Seq(Bytes) /\ z \in Seq(Bytes)
    BY <1>3
  <2>2. u = DataOf(x, d) /\ v = DataOf(y, d) /\ w = DataOf(z, d)
    BY <1>1
  <2>3. IsBody(u) /\ Len(u) = Len(x) /\ \A i \in 1..Len(x) : u[i] = DataUnit(x[i], d)
    BY ONLY <2>1, <2>2, DataOfIs
  <2>4. IsBody(v) /\ Len(v) = Len(y) /\ \A i \in 1..Len(y) : v[i] = DataUnit(y[i], d)
    BY ONLY <2>1, <2>2, DataOfIs
  <2>5. IsBody(w) /\ Len(w) = Len(z) /\ \A i \in 1..Len(z) : w[i] = DataUnit(z[i], d)
    BY ONLY <2>1, <2>2, DataOfIs
  <2>6. QED BY <1>2, <1>3, <2>3, <2>4, <2>5
<1>5. PICK b : b = u \o v
  OBVIOUS
<1>6. /\ IsBody(b) /\ Len(b) = n + m
      /\ \A i \in 1..n : b[i] = u[i]
      /\ \A i \in 1..m : b[n + i] = v[i]
  <2>1. IsBody(u) /\ IsBody(v) /\ b = u \o v
    BY <1>4, <1>5
  <2>2. /\ IsBody(b) /\ Len(b) = Len(u) + Len(v)
        /\ \A i \in 1..Len(u) : b[i] = u[i]
        /\ \A i \in 1..Len(v) : b[Len(u) + i] = v[i]
    <3>1. AreBoth(b, u, v)
      BY ONLY <2>1, BodiesMeet
    <3>2. QED BY ONLY <3>1 DEF AreBoth
  <2>3. QED BY <1>4, <2>2
<1>7. ASSUME NEW k \in 1..(n + m) PROVE b[k] = w[k]
  <2>1. w[k] = DataUnit(z[k], d)
    BY <1>4
  <2>2. CASE k \in 1..n
    BY <1>3, <1>4, <1>6, <2>1, <2>2
  <2>3. CASE k \notin 1..n
    <3>1. PICK i \in 1..m : k = n + i
      <4>1. k - n \in 1..m /\ k = n + (k - n)
        BY <2>3
      <4>2. QED BY <4>1
    <3>2. b[k] = DataUnit(y[i], d) /\ z[k] = y[i]
      BY <1>3, <1>4, <1>6, <3>1
    <3>3. QED BY <2>1, <3>2
  <2>4. QED BY <2>2, <2>3
<1>8. b = w
  <2>1. IsSeq(b) /\ IsSeq(w)
    BY <1>4, <1>6 DEF IsBody, IsFile
  <2>2. QED BY <1>4, <1>6, <1>7, <2>1, SameSeq
<1>9. QED BY <1>1, <1>5, <1>8

LEMMA EndingIs ==
  ASSUME NEW f \in {"gzip", "zlib"}, NEW x \in Seq(Bytes), NEW u, u = Ending(f, x)
  PROVE  /\ IsFile(u) /\ Len(u) = 1 + Trail(f)
         /\ u[1] = Unit("end", 0) /\ u[2] = Unit("crc", x)
         /\ f = "gzip" => u[3] = Unit("size", Len(x) % SizeMod)
<1>1. CASE f = "zlib"
  <2>1. u = <<Unit("end", 0), Unit("crc", x)>>
    BY <1>1 DEF Ending
  <2>2. IsSeq(u) /\ Len(u) = 2 /\ u[1] = Unit("end", 0) /\ u[2] = Unit("crc", x)
    BY <2>1, Couples
  <2>3. \A i \in 1..2 : i = 1 \/ i = 2
    OBVIOUS
  <2>4. Proper(u[1]) /\ Proper(u[2])
    BY <2>2, UnitFields DEF Proper, Texted
  <2>5. Len(u) = 1 + Trail(f)
    BY <1>1, <2>2 DEF Trail
  <2>6. QED BY <1>1, <2>2, <2>3, <2>4, <2>5 DEF IsFile
<1>2. CASE f = "gzip"
  <2>1. PICK a, b : a = <<Unit("end", 0)>> /\ b = <<Unit("crc", x), Unit("size", Len(x) % SizeMod)>>
    OBVIOUS
  <2>2. u = a \o b
    BY <1>2, <2>1 DEF Ending
  <2>3. IsSeq(a) /\ Len(a) = 1 /\ a[1] = Unit("end", 0)
    BY <2>1, Singles
  <2>4. IsSeq(b) /\ Len(b) = 2 /\ b[1] = Unit("crc", x) /\ b[2] = Unit("size", Len(x) % SizeMod)
    BY <2>1, Couples
  <2>5. /\ IsSeq(u) /\ Len(u) = Len(a) + Len(b)
        /\ \A i \in 1..Len(a) : u[i] = a[i]
        /\ \A i \in 1..Len(b) : u[Len(a) + i] = b[i]
    <3>1. IsSeq(a) /\ IsSeq(b)
      BY <2>3, <2>4
    <3>2. QED BY ONLY <2>2, <3>1, Catenated
  <2>6. Len(u) = 3 /\ u[1] = a[1] /\ u[2] = b[1] /\ u[3] = b[2]
    BY <2>3, <2>4, <2>5
  <2>7. \A i \in 1..3 : i = 1 \/ i = 2 \/ i = 3
    OBVIOUS
  <2>8. Proper(u[1]) /\ Proper(u[2]) /\ Proper(u[3])
    BY <2>3, <2>4, <2>6, UnitFields DEF Proper, Texted
  <2>9. Len(u) = 1 + Trail(f)
    BY <1>2, <2>6 DEF Trail
  <2>10. IsFile(u)
    BY <2>5, <2>6, <2>7, <2>8 DEF IsFile
  <2>11. QED BY <2>3, <2>4, <2>6, <2>9, <2>10
<1>3. QED BY <1>1, <1>2

\* The member at p is open, and has y behind its header; or it has its end.
Open(b, p, hs, y) ==
  /\ IsFile(b) /\ IsSeq(hs) /\ p \in Nat /\ IsBody(y) /\ Len(b) = p + Len(hs) + Len(y)
  /\ \A k \in 1..Len(hs) : b[p + k] = hs[k]
  /\ \A k \in 1..Len(y) : b[p + Len(hs) + k] = y[k]
Ended(f, b, p, hs, y, x) ==
  IsFile(b) /\ Shape(f, b, p, hs, y, x) /\ Len(b) = EndOf(f, p, Len(hs), Len(y))

LEMMA OpenShape ==
  ASSUME NEW f, NEW b, NEW p, NEW hs, NEW y, Open(b, p, hs, y), NEW x
  PROVE  Shape(f, b, p, hs, y, x) /\ Len(hs) \in Nat /\ Len(y) \in Nat
<1>1. p \in Nat /\ Len(b) = p + Len(hs) + Len(y) /\ IsSeq(hs) /\ IsSeq(y)
  BY DEF Open, IsBody, IsFile
<1>2. PICK c \in Nat, n \in Nat : c = Len(hs) /\ n = Len(y)
  BY <1>1, SeqFacts
<1>3. (\A i \in 1..c : b[p + i] = hs[i]) /\ \A i \in 1..n : b[p + c + i] = y[i]
  BY <1>2 DEF Open
<1>4. ASSUME NEW k \in (p + 1)..(p + c + n)
      PROVE  /\ k <= p + c => b[k] = hs[k - p]
             /\ p + c < k => b[k] = y[k - p - c]
             /\ k # p + c + n + 1 /\ k # p + c + n + 2 /\ k # p + c + n + 3
  <2>1. ASSUME k <= p + c PROVE b[k] = hs[k - p]
    <3>1. PICK i \in 1..c : i = k - p /\ k = p + i
      BY <1>1, <2>1
    <3>2. QED BY <1>3, <3>1
  <2>2. ASSUME p + c < k PROVE b[k] = y[k - p - c]
    <3>1. PICK i \in 1..n : i = k - p - c /\ k = p + c + i
      BY <1>1, <2>2
    <3>2. QED BY <1>3, <3>1
  <2>3. k # p + c + n + 1 /\ k # p + c + n + 2 /\ k # p + c + n + 3
    BY <1>1
  <2>4. QED BY <2>1, <2>2, <2>3
<1>5. Len(b) = p + c + n
  BY <1>1, <1>2
<1>6. QED BY <1>2, <1>4, <1>5 DEF Shape

\* A header opens a member.
LEMMA HeadOpens ==
  ASSUME NEW o, IsFile(o), NEW hs, IsFile(hs), NEW w, w = o \o hs, NEW y, y = <<>>
  PROVE  Open(w, Len(o), hs, y)
<1>1. PICK l \in Nat, c \in Nat : l = Len(o) /\ c = Len(hs)
  BY SeqFacts DEF IsFile
<1>2. Len(w) = l + c /\ \A i \in 1..c : w[l + i] = hs[i]
  <2>1. IsSeq(o) /\ IsSeq(hs)
    BY DEF IsFile
  <2>2. QED BY <1>1, <2>1, Catenated
<1>3. IsFile(w)
  BY UnitsBehind
<1>4. Len(y) = 0 /\ IsBody(y)
  <2>1. IsSeq(y) /\ Len(y) = 0
    BY Empty
  <2>2. QED BY <2>1 DEF IsBody, IsFile
<1>5. QED BY <1>1, <1>2, <1>3, <1>4 DEF Open, IsFile

\* Data adds to it.
LEMMA DataOpens ==
  ASSUME NEW b, NEW p, NEW hs, NEW y, Open(b, p, hs, y), NEW v, IsBody(v),
         NEW w, w = b \o v, NEW z, z = y \o v
  PROVE  Open(w, p, hs, z)
<1>1. /\ IsFile(b) /\ IsSeq(hs) /\ p \in Nat /\ IsBody(y) /\ Len(b) = p + Len(hs) + Len(y)
      /\ IsFile(v)
  BY DEF Open, IsBody
<1>2. PICK c \in Nat, n \in Nat, m \in Nat : c = Len(hs) /\ n = Len(y) /\ m = Len(v)
  BY <1>1, SeqFacts DEF IsBody, IsFile
<1>3. (\A i \in 1..c : b[p + i] = hs[i]) /\ \A i \in 1..n : b[p + c + i] = y[i]
  BY <1>2 DEF Open
<1>4. PICK e \in Nat : e = p + c + n /\ Len(b) = e
  BY <1>1, <1>2
<1>5. /\ IsBody(z) /\ Len(z) = n + m /\ (\A i \in 1..n : z[i] = y[i])
      /\ \A i \in 1..m : z[n + i] = v[i]
  <2>1. IsBody(y) /\ IsBody(v) /\ z = y \o v
    BY <1>1
  <2>2. /\ IsBody(z) /\ Len(z) = Len(y) + Len(v)
        /\ \A i \in 1..Len(y) : z[i] = y[i]
        /\ \A i \in 1..Len(v) : z[Len(y) + i] = v[i]
    <3>1. AreBoth(z, y, v)
      BY ONLY <2>1, BodiesMeet
    <3>2. QED BY ONLY <3>1 DEF AreBoth
  <2>3. QED BY <1>2, <2>2
<1>6. IsFile(w) /\ Len(w) = e + m /\ (\A i \in 1..e : w[i] = b[i])
      /\ \A i \in 1..m : w[e + i] = v[i]
  <2>1. IsFile(w)
    BY <1>1, UnitsBehind
  <2>2. IsSeq(b) /\ IsSeq(v)
    BY <1>1 DEF IsFile
  <2>3. /\ Len(w) = Len(b) + Len(v)
        /\ \A i \in 1..Len(b) : w[i] = b[i]
        /\ \A i \in 1..Len(v) : w[Len(b) + i] = v[i]
    BY <2>2, Catenated
  <2>4. QED BY <1>2, <1>4, <2>1, <2>3
<1>7. ASSUME NEW i \in 1..c PROVE w[p + i] = hs[i]
  <2>1. p + i \in 1..e
    BY <1>1, <1>4
  <2>2. QED BY <1>3, <1>6, <2>1
<1>8. ASSUME NEW k \in 1..(n + m) PROVE w[p + c + k] = z[k]
  <2>1. CASE k \in 1..n
    <3>1. p + c + k \in 1..e
      BY <1>1, <1>4, <2>1
    <3>2. QED BY <1>3, <1>5, <1>6, <2>1, <3>1
  <2>2. CASE k \notin 1..n
    <3>1. PICK i \in 1..m : k = n + i
      <4>1. k - n \in 1..m /\ k = n + (k - n)
        BY <2>2
      <4>2. QED BY <4>1
    <3>2. p + c + k = e + i
      BY <1>1, <1>4, <3>1
    <3>3. QED BY <1>5, <1>6, <3>1, <3>2
  <2>3. QED BY <2>1, <2>2
<1>9. Len(w) = p + c + Len(z)
  BY <1>1, <1>4, <1>5, <1>6
<1>10. QED BY <1>1, <1>2, <1>5, <1>6, <1>7, <1>8, <1>9 DEF Open

\* The end closes it.
LEMMA EndShape ==
  ASSUME NEW f \in {"gzip", "zlib"}, NEW b, NEW p, NEW hs, NEW y, Open(b, p, hs, y),
         NEW x \in Seq(Bytes), NEW w, w = b \o Ending(f, x)
  PROVE  Ended(f, w, p, hs, y, x)
<1>1. /\ IsFile(b) /\ IsSeq(hs) /\ p \in Nat /\ IsBody(y) /\ Len(b) = p + Len(hs) + Len(y)
      /\ Shape(f, b, p, hs, y, x)
  BY OpenShape DEF Open
<1>2. PICK c \in Nat, n \in Nat : c = Len(hs) /\ n = Len(y)
  BY OpenShape
<1>3. PICK e \in Nat, r \in Nat : e = p + c + n /\ r = 1 + Trail(f)
  BY <1>1 DEF Trail
<1>4. PICK u : u = Ending(f, x)
  OBVIOUS
<1>5. /\ IsFile(u) /\ Len(u) = r
      /\ u[1] = Unit("end", 0) /\ u[2] = Unit("crc", x)
      /\ f = "gzip" => u[3] = Unit("size", Len(x) % SizeMod)
  BY <1>3, <1>4, EndingIs
<1>6. r \in 2..3 /\ (f = "gzip" => r = 3)
  BY <1>3 DEF Trail
<1>7. IsFile(w) /\ Len(w) = e + r /\ (\A i \in 1..e : w[i] = b[i])
      /\ \A i \in 1..r : w[e + i] = u[i]
  <2>1. IsFile(w)
    BY <1>1, <1>4, <1>5, UnitsBehind
  <2>2. IsSeq(b) /\ IsSeq(u)
    BY <1>1, <1>5 DEF IsFile
  <2>3. w = b \o u
    BY <1>4
  <2>4. /\ Len(w) = Len(b) + Len(u)
        /\ \A i \in 1..Len(b) : w[i] = b[i]
        /\ \A i \in 1..Len(u) : w[Len(b) + i] = u[i]
    BY ONLY <2>2, <2>3, Catenated
  <2>5. Len(b) = e
    BY <1>1, <1>2, <1>3
  <2>6. QED BY <1>5, <2>1, <2>4, <2>5
<1>8. w[e + 1] = Unit("end", 0) /\ w[e + 2] = Unit("crc", x)
      /\ (f = "gzip" => w[e + 3] = Unit("size", Len(x) % SizeMod))
  <2>1. 1 \in 1..r /\ 2 \in 1..r /\ (f = "gzip" => 3 \in 1..r)
    BY <1>6
  <2>2. w[e + 1] = u[1] /\ w[e + 2] = u[2] /\ (f = "gzip" => w[e + 3] = u[3])
    BY <1>7, <2>1
  <2>3. QED BY <1>5, <2>2
<1>9. ASSUME NEW k \in (p + 1)..(e + r)
      PROVE  /\ k <= p + c => w[k] = hs[k - p]
             /\ p + c < k /\ k <= p + c + n => w[k] = y[k - p - c]
             /\ k = p + c + n + 1 => w[k] = Unit("end", 0)
             /\ k = p + c + n + 2 => w[k] = Unit("crc", x)
             /\ f = "gzip" /\ k = p + c + n + 3 => w[k] = Unit("size", Len(x) % SizeMod)
  <2>1. CASE k <= e
    <3>1. k \in 1..e /\ k \in (p + 1)..e
      BY <1>1, <2>1
    <3>2. w[k] = b[k]
      BY <1>7, <3>1
    <3>3. /\ k <= p + c => b[k] = hs[k - p]
          /\ p + c < k /\ k <= p + c + n => b[k] = y[k - p - c]
      BY <1>1, <1>2, <1>3, <3>1 DEF Shape
    <3>4. p + c + n = e
      BY <1>3
    <3>5. k # e + 1 /\ k # e + 2 /\ k # e + 3
      BY <2>1
    <3>6. QED BY <3>2, <3>3, <3>4, <3>5, Zenon
  <2>2. CASE k > e
    <3>1. ~(k <= p + c) /\ ~(k <= p + c + n) /\ p + c + n = e
      BY <1>1, <1>3, <2>2
    <3>2. QED BY <1>8, <3>1
  <2>3. k <= e \/ k > e
    BY <1>1, <1>3
  <2>4. QED BY <2>1, <2>2, <2>3, Zenon
<1>10. Shape(f, w, p, hs, y, x)
  BY <1>2, <1>7, <1>9 DEF Shape
<1>11. Len(w) = EndOf(f, p, Len(hs), Len(y))
  <2>1. PICK tr \in Nat : tr = Trail(f)
    BY DEF Trail
  <2>2. e + r = p + c + n + 1 + tr
    BY <1>1, <1>3, <2>1
  <2>3. QED BY <1>2, <1>7, <2>1, <2>2 DEF EndOf
<1>12. QED BY <1>7, <1>10, <1>11 DEF Ended

\* What a call sends: a header or none, a body, and the end or none.
Continues(f, u, w, p, hs, z, r, x) ==
  /\ IsFile(u) /\ IsFile(w)
  /\ r = <<>> => Open(w, p, hs, z)
  /\ r = Ending(f, x) => Ended(f, w, p, hs, z, x)

\* A call goes on with the member that is open.
LEMMA Sent ==
  ASSUME NEW f \in {"gzip", "zlib"}, NEW o, IsFile(o), NEW s, IsFile(s),
         NEW b, b = o \o s, NEW p, NEW hs, NEW y, Open(b, p, hs, y),
         NEW v, IsBody(v), NEW z, z = y \o v, NEW x \in Seq(Bytes),
         NEW r, r = <<>> \/ r = Ending(f, x),
         NEW u, u = (s \o v) \o r, NEW w, w = o \o u
  PROVE  Continues(f, u, w, p, hs, z, r, x)
<1>1. IsFile(v) /\ IsFile(b)
  BY UnitsBehind DEF IsBody
<1>2. PICK a : a = b \o v
  OBVIOUS
<1>3. Open(a, p, hs, z)
  BY <1>2, DataOpens
<1>4. IsFile(a)
  BY <1>3 DEF Open
<1>5. IsFile(r)
  <2>1. IsFile(<<>>)
    BY Empty DEF IsFile
  <2>2. IsFile(Ending(f, x))
    BY EndingIs
  <2>3. QED BY <2>1, <2>2
<1>6. PICK j : j = s \o v
  OBVIOUS
<1>7. IsFile(j)
  BY <1>1, <1>6, UnitsBehind
<1>8. u = j \o r
  BY <1>6
<1>9. IsFile(u)
  BY <1>5, <1>7, <1>8, UnitsBehind
<1>10. IsSeq(o) /\ IsSeq(s) /\ IsSeq(v) /\ IsSeq(r) /\ IsSeq(a) /\ IsSeq(j)
  BY <1>1, <1>4, <1>5, <1>7 DEF IsFile
<1>11. a = o \o j
  <2>1. b \o v = o \o j
    <3>1. IsSeq(o) /\ IsSeq(s) /\ IsSeq(v)
      BY <1>10
    <3>2. Associate(o, s, v, b, j)
      BY <1>6, <3>1, Associative
    <3>3. QED BY <3>2 DEF Associate
  <2>2. QED BY <1>2, <2>1
<1>12. w = a \o r
  <2>1. Associate(o, j, r, a, u)
    BY <1>8, <1>10, <1>11, Associative
  <2>2. QED BY <2>1 DEF Associate
<1>13. IsFile(w)
  BY <1>9, UnitsBehind
<1>14. r = <<>> => Open(w, p, hs, z)
  <2>1. SUFFICES ASSUME r = <<>> PROVE w = a
    BY <1>3
  <2>2. QED BY <1>10, <1>12, <2>1, WithEmpty
<1>15. r = Ending(f, x) => Ended(f, w, p, hs, z, x)
  BY <1>3, <1>12, EndShape
<1>16. QED BY <1>9, <1>13, <1>14, <1>15 DEF Continues

\* What the underlying writer has taken of it.
IsTaken(q, f, d, g, v) == Layout(q, f, d, g, v) /\ IsFile(g) /\ v \in Seq(Seq(Bytes))

\* What the underlying writer has taken of a call, be it all or not.
Takes(q, f, d, o, t, p, hs, y, z, w, m, g, v) ==
  /\ f \in {"gzip", "zlib"} /\ IsTaken(q, f, d, o, t)
  /\ p \in Bounds(f, o) /\ Crcs(o, p) = Len(t) /\ hs \in Heads(f, d)
  /\ z \in Seq(Bytes) /\ Spells(q, d, y, z)
  /\ IsFile(w) /\ Shape(f, w, p, hs, y, z) /\ Len(w) <= EndOf(f, p, Len(hs), Len(y))
  /\ IsFront(w, Len(o), o) /\ IsFront(w, m, g) /\ Len(o) <= m
  /\ v = t \/ v = Append(t, z)
  /\ m = EndOf(f, p, Len(hs), Len(y)) => v = Append(t, z)

LEMMA Taken ==
  ASSUME NEW q, NEW f, NEW d, NEW o, NEW t, NEW p, NEW hs, NEW y, NEW z, NEW w, NEW m, NEW g,
         NEW v, Takes(q, f, d, o, t, p, hs, y, z, w, m, g, v)
  PROVE  IsTaken(q, f, d, g, v)
<1>1. /\ f \in {"gzip", "zlib"} /\ Layout(q, f, d, o, t) /\ IsFile(o) /\ t \in Seq(Seq(Bytes))
      /\ p \in Bounds(f, o) /\ Crcs(o, p) = Len(t) /\ hs \in Heads(f, d)
      /\ z \in Seq(Bytes) /\ Spells(q, d, y, z)
      /\ IsFile(w) /\ Shape(f, w, p, hs, y, z) /\ Len(w) <= EndOf(f, p, Len(hs), Len(y))
      /\ IsFront(w, Len(o), o) /\ IsFront(w, m, g) /\ Len(o) <= m
      /\ v = t \/ v = Append(t, z)
      /\ m = EndOf(f, p, Len(hs), Len(y)) => v = Append(t, z)
  BY DEF Takes, IsTaken
<1>2. PICK l \in Nat, n \in Nat : l = Len(o) /\ n = Len(w)
  BY <1>1, SeqFacts DEF IsFile
<1>3. m \in Nat /\ l <= m /\ m <= n /\ Len(g) = m /\ IsSeq(g) /\ IsFile(g)
      /\ \A k \in 1..m : g[k] = w[k]
  <2>1. IsSeq(w)
    BY <1>1 DEF IsFile
  <2>2. /\ Len(w) \in Nat /\ m \in Nat /\ Len(g) = m /\ m <= Len(w) /\ IsSeq(g)
        /\ (\A k \in 1..m : g[k] = w[k]) /\ (IsFile(w) => IsFile(g))
    BY ONLY <1>1, <2>1, FrontFacts
  <2>3. QED BY <1>1, <1>2, <2>2
<1>4. IsSeq(o) /\ IsSeq(w) /\ \A k \in 1..l : o[k] = w[k]
  <2>1. IsSeq(w) /\ IsSeq(o)
    BY <1>1 DEF IsFile
  <2>2. \A k \in 1..Len(o) : o[k] = w[k]
    BY ONLY <1>1, <2>1, FrontFacts
  <2>3. QED BY <1>2, <2>1, <2>2
<1>5. IsFront(g, l, o)
  <2>1. \A k \in 1..l : o[k] = g[k]
    <3>1. TAKE k \in 1..l
    <3>2. k \in 1..m
      BY <1>3
    <3>3. QED BY <1>3, <1>4, <3>2
  <2>2. l \in 0..m
    BY <1>3
  <2>3. QED BY <1>2, <1>3, <1>4, <2>1, <2>2 DEF IsFront
<1>6. p \in Nat /\ p \in 0..l
  BY <1>1, <1>2 DEF Bounds
<1>7. Shape(f, g, p, hs, y, z)
  BY <1>1, <1>4, <1>6, ShapeFront
<1>8. PICK e \in Nat : e = EndOf(f, p, Len(hs), Len(y)) /\ n <= e
  <2>1. GoodHead(f, d, hs)
    BY <1>1, GoodHeads
  <2>2. Len(hs) \in Nat /\ Len(y) \in Nat
    BY <1>1, <2>1, SeqFacts DEF GoodHead, Spells, IsBody, IsFile
  <2>3. QED BY <1>1, <1>2, <1>6, <2>2 DEF EndOf, Trail
<1>9. PICK a \in Nat : a = Len(t)
  BY <1>1
<1>10. /\ Append(t, z) \in Seq(Seq(Bytes)) /\ Len(Append(t, z)) = a + 1
      /\ Append(t, z)[a + 1] = z /\ \A i \in 1..a : Append(t, z)[i] = t[i]
  BY <1>1, <1>9, AppendProperties
<1>11. v \in Seq(Seq(Bytes)) /\ Len(v) \in Nat /\ a <= Len(v) /\ \A i \in 1..a : v[i] = t[i]
  <2>1. CASE v = t
    BY <1>1, <1>9, <2>1
  <2>2. CASE v = Append(t, z)
    BY <1>10, <2>2
  <2>3. QED BY <1>1, <2>1, <2>2
<1>12. Given(f, g, v, p, Len(hs), Len(y), z)
  <2>1. SUFFICES ASSUME e <= m PROVE Crcs(g, p) < Len(v) /\ v[Crcs(g, p) + 1] = z
    BY <1>3, <1>8 DEF Given
  <2>2. m = e
    <3>1. m \in Nat /\ e \in Nat /\ n \in Nat /\ m <= n /\ n <= e
      BY <1>3, <1>8
    <3>2. QED BY ONLY <2>1, <3>1
  <2>3. v = Append(t, z)
    BY <1>1, <1>8, <2>2
  <2>4. Crcs(g, p) = a
    <3>1. Crcs(o, p) = Crcs(g, p)
      <4>1. IsSeq(g)
        BY <1>3
      <4>2. QED BY ONLY <4>1, <1>5, <1>6, BoundsFront
    <3>2. QED BY <1>1, <1>9, <3>1
  <2>5. QED BY <1>10, <2>3, <2>4
<1>13. Layout(q, f, d, g, v)
  <2>1. Len(g) <= e
    BY <1>3, <1>8
  <2>2. IsFront(g, Len(o), o)
    BY <1>2, <1>5
  <2>3. QED BY <1>1, <1>2, <1>3, <1>4, <1>7, <1>8, <1>9, <1>11, <1>12, <2>1, <2>2, LayoutMore
<1>14. QED BY <1>3, <1>11, <1>13 DEF IsTaken

-----------------------------------------------------------------------------
LEMMA LayoutWeaker ==
  ASSUME NEW z, NEW q, q => z, NEW f, NEW d, NEW o, NEW t, Layout(z, f, d, o, t)
  PROVE  Layout(q, f, d, o, t)
BY DEF Layout, MemberAt, Spells

\* The bytes of the text from a + 1 to b.
Interval(a, b) == [k \in 1..(b - a) |-> a + k]

IsInterval(s, a, n) == s \in Seq(Bytes) /\ Len(s) = n /\ \A k \in 1..n : s[k] = a + k

LEMMA Intervals ==
  ASSUME NEW a \in Nat, NEW b \in Nat, a <= b, NEW n, n = b - a, NEW s, s = Interval(a, b)
  PROVE  IsInterval(s, a, n)
<1>1. n \in Nat
  OBVIOUS
<1>2. s = [k \in 1..n |-> a + k]
  BY DEF Interval
<1>3. s \in [1..n -> Bytes] /\ \A k \in 1..n : s[k] = a + k
  <2>1. \A k \in 1..n : a + k \in Bytes
    BY DEF Bytes
  <2>2. QED BY <1>2, <2>1
<1>4. s \in Seq(Bytes) /\ Len(s) = n
  BY <1>1, <1>3
<1>5. QED BY <1>3, <1>4 DEF IsInterval

Meet(a, b, c, s, t, u) == s \o t = u

\* The text of two calls is the text of both.
LEMMA IntervalsMeet ==
  ASSUME NEW a \in Nat, NEW b \in Nat, a <= b, NEW c \in Nat, b <= c,
         NEW s, s = Interval(a, b), NEW t, t = Interval(b, c), NEW u, u = Interval(a, c)
  PROVE  Meet(a, b, c, s, t, u)
<1>1. PICK n \in Nat : n = c - b
  OBVIOUS
<1>2. PICK m \in Nat, l \in Nat : m = b - a /\ l = m + n
  OBVIOUS
<1>3. a <= c /\ l = c - a /\ c = b + n
  BY <1>2, <1>1
<1>4. s \in Seq(Bytes) /\ Len(s) = m /\ (\A k \in 1..m : s[k] = a + k)
  <2>1. IsInterval(s, a, m)
    BY <1>2, <1>1, Intervals
  <2>2. QED BY <2>1 DEF IsInterval
<1>5. t \in Seq(Bytes) /\ Len(t) = n /\ (\A k \in 1..n : t[k] = b + k)
  <2>1. IsInterval(t, b, n)
    BY <1>1, <1>3, Intervals
  <2>2. QED BY <2>1 DEF IsInterval
<1>6. u \in Seq(Bytes) /\ Len(u) = l /\ (\A k \in 1..l : u[k] = a + k)
  <2>1. IsInterval(u, a, l)
    BY <1>1, <1>3, Intervals
  <2>2. QED BY <2>1 DEF IsInterval
<1>7. PICK v : v = s \o t
  OBVIOUS
<1>8. v \in Seq(Bytes) /\ Len(v) = l /\ (\A i \in 1..m : v[i] = s[i])
      /\ \A i \in 1..n : v[m + i] = t[i]
  <2>1. s \in Seq(Bytes) /\ t \in Seq(Bytes)
    BY <1>4, <1>5
  <2>2. /\ s \o t \in Seq(Bytes) /\ Len(s \o t) = Len(s) + Len(t)
        /\ \A i \in 1..Len(s) : (s \o t)[i] = s[i]
        /\ \A i \in 1..Len(t) : (s \o t)[Len(s) + i] = t[i]
    BY ONLY <2>1, Concatenated
  <2>3. QED BY <1>2, <1>4, <1>5, <1>7, <2>2
<1>9. ASSUME NEW k \in 1..l PROVE v[k] = u[k]
  <2>1. CASE k \in 1..m
    BY <1>4, <1>6, <1>8, <2>1
  <2>2. CASE k \notin 1..m
    <3>1. PICK i \in 1..n : k = m + i
      <4>1. k - m \in 1..n /\ k = m + (k - m)
        BY <1>2, <2>2
      <4>2. QED BY <4>1
    <3>2. v[k] = b + i
      BY <1>5, <1>8, <3>1
    <3>3. u[k] = a + k /\ a + k = b + i
      BY <1>2, <1>6, <3>1
    <3>4. QED BY <3>2, <3>3
  <2>3. QED BY <2>1, <2>2
<1>10. v = u
  BY <1>6, <1>8, <1>9, SeqEqual
<1>11. QED BY <1>7, <1>10 DEF Meet

\* Sums modulo m.
LEMMA Modular ==
  ASSUME NEW m \in Nat \ {0}, NEW i \in Nat, NEW j \in Nat
  PROVE  ((i % m) + j) % m = (i + j) % m
<1>1. PICK q \in Nat, r \in Nat : q = i \div m /\ r = i % m /\ r \in 0..(m - 1) /\ i = m * q + r
  BY Remainder
<1>2. PICK b \in Nat, c \in Nat : b = (r + j) \div m /\ c = (r + j) % m /\ c \in 0..(m - 1)
                                  /\ r + j = m * b + c
  <2>1. r + j \in Nat
    OBVIOUS
  <2>2. QED BY <2>1, Remainder
<1>3. PICK e \in Nat, h \in Nat : e = (i + j) \div m /\ h = (i + j) % m /\ h \in 0..(m - 1)
                                  /\ i + j = m * e + h
  <2>1. i + j \in Nat
    OBVIOUS
  <2>2. QED BY <2>1, Remainder
<1>4. PICK o \in Nat : o = q + b
  OBVIOUS
<1>5. m * o + c = m * e + h
  <2>1. m * o = m * q + m * b
    BY <1>4
  <2>2. PICK x \in Int, y \in Int, z \in Int, g \in Int :
          x = m * q /\ y = m * b /\ z = m * e /\ g = m * o
    OBVIOUS
  <2>3. g = x + y /\ i = x + r /\ r + j = y + c /\ i + j = z + h
    BY <1>1, <1>2, <1>3, <2>1, <2>2
  <2>4. g + c = z + h
    BY <2>3
  <2>5. QED BY <2>2, <2>4
<1>6. c = h
  <2>1. o \in Int /\ e \in Int /\ c \in 0..(m - 1) /\ h \in 0..(m - 1)
    BY <1>2, <1>3
  <2>2. QED BY <2>1, <1>5, OneQuotient
<1>7. QED BY <1>1, <1>2, <1>3, <1>6

-----------------------------------------------------------------------------
(***************************************************************************)
(* The writers: FileWritten and MemberWritten hold until one fails.        *)
(***************************************************************************)
Types ==
  /\ format \in {"gzip", "zlib"} /\ stage \in {"write", "read"}
  /\ texts \in Seq(Seq(Bytes)) /\ sound \in BOOLEAN
  /\ format = "gzip" => head \in Headers

\* The member that is being written: it begins at p, with header hs, and has y.  As
\* long as the compressor is sound this is the data x, and the rest is pending.
Holds(y, x) == y = DataOf(x, Dict) /\ x \o pend = Interval(from, used)
Opening(p, hs, y, x) ==
  /\ p \in Bounds(format, file) /\ Crcs(file, p) = Len(texts)
  /\ hs \in Heads(format, Dict) /\ Open(file, p, hs, y)
  /\ x \in Seq(Bytes) /\ (sound => Holds(y, x))

\* The file ends with a member, or is empty.
AtBound == Len(file) \in Bounds(format, file) /\ Crcs(file, Len(file)) = Len(texts)

FileWritten == IsFile(file) /\ Layout(sound, format, Dict, file, texts)

MemberWritten ==
  /\ wsum.crc = Interval(from, used) /\ wsum.size = (used - from) % SizeMod
  /\ ~wroteHeader => AtBound /\ (sound => pend = <<>>) /\ from = used /\ ~closed
  /\ wroteHeader /\ closed => AtBound
  /\ wroteHeader /\ ~closed => \E p, hs, y, x : Opening(p, hs, y, x)

WriteInv ==
  stage = "write" =>
    /\ FileWritten /\ pend \in Seq(Bytes)
    /\ from \in Nat /\ used \in Nat /\ from <= used
    /\ wroteHeader \in BOOLEAN /\ closed \in BOOLEAN
    /\ werr = "nil" => MemberWritten

\* The member that a call writes to, when it has sent s.
OpenAt(s, p, hs, y, x) ==
  /\ p \in Bounds(format, file) /\ Crcs(file, p) = Len(texts)
  /\ hs \in Heads(format, Dict) /\ Open(file \o s, p, hs, y)
  /\ x \in Seq(Bytes) /\ (sound => Holds(y, x))

LEMMA OpenNow ==
  ASSUME Types, WriteInv, stage = "write", werr = "nil", ~closed,
         NEW start, ~wroteHeader => start \in Heads(format, Dict),
         NEW s, s = IF wroteHeader THEN <<>> ELSE start
  PROVE  IsFile(s) /\ \E p, hs, y, x : OpenAt(s, p, hs, y, x)
<1>1. FileWritten /\ MemberWritten /\ wroteHeader \in BOOLEAN
  BY DEF WriteInv
<1>2. IsFile(file) /\ IsSeq(file)
  BY <1>1 DEF FileWritten, IsFile
<1>3. CASE wroteHeader
  <2>1. PICK p, hs, y, x : Opening(p, hs, y, x)
    BY <1>1, <1>3 DEF MemberWritten
  <2>2. s = <<>> /\ IsFile(s)
    BY <1>3, Empty DEF IsFile
  <2>3. file \o s = file
    BY <1>2, <2>2, WithEmpty
  <2>4. OpenAt(s, p, hs, y, x)
    BY <2>1, <2>3 DEF Opening, OpenAt
  <2>5. QED BY <2>2, <2>4
<1>4. CASE ~wroteHeader
  <2>1. s = start /\ start \in Heads(format, Dict)
    BY <1>4
  <2>2. GoodHead(format, Dict, s)
    BY <2>1, GoodHeads DEF Types
  <2>3. IsFile(s)
    BY <2>2 DEF GoodHead
  <2>4. AtBound /\ (sound => pend = <<>>) /\ from = used
    BY <1>1, <1>4 DEF MemberWritten
  <2>5. PICK l : l = Len(file)
    OBVIOUS
  <2>6. PICK x : x = <<>>
    OBVIOUS
  <2>7. PICK w : w = file \o s
    OBVIOUS
  <2>8. Open(w, l, s, x)
    BY <1>2, <2>3, <2>5, <2>6, <2>7, HeadOpens
  <2>9. x \in Seq(Bytes)
    BY <2>6, EmptySeq
  <2>10. x = DataOf(x, Dict)
    <3>1. PICK v : v = DataOf(x, Dict)
      OBVIOUS
    <3>2. IsBody(v) /\ Len(v) = Len(x)
      BY <2>9, <3>1, DataOfIs
    <3>3. IsSeq(v) /\ Len(v) = 0
      BY <2>6, <3>2, Empty DEF IsBody, IsFile
    <3>4. v = <<>>
      BY <3>3, Empty
    <3>5. QED BY <2>6, <3>1, <3>4
  <2>11. sound => x \o pend = Interval(from, used)
    <3>1. SUFFICES ASSUME sound PROVE x \o pend = Interval(from, used)
      OBVIOUS
    <3>2. from \in Nat /\ used \in Nat /\ from <= used
      BY DEF WriteInv
    <3>3. PICK t : t = Interval(from, used)
      OBVIOUS
    <3>4. IsInterval(t, from, 0)
      <4>1. 0 = used - from
        BY <2>4, <3>2
      <4>2. QED BY <3>2, <3>3, <4>1, Intervals
    <3>5. t = <<>>
      BY <3>4, EmptySeq DEF IsInterval
    <3>6. x \o pend = <<>>
      BY <2>4, <2>6, <3>1, WithEmpty, Empty
    <3>7. QED BY <3>3, <3>5, <3>6
  <2>12. l \in Bounds(format, file) /\ Crcs(file, l) = Len(texts)
    BY <2>4, <2>5 DEF AtBound
  <2>13. OpenAt(s, l, s, x, x)
    BY <2>1, <2>7, <2>8, <2>9, <2>10, <2>11, <2>12 DEF OpenAt, Holds
  <2>14. QED BY <2>3, <2>13
<1>5. QED BY <1>1, <1>3, <1>4

\* What the underlying writer takes of the units u: g is the file then, e the error.
Took(o, u, g, e, m) ==
  /\ m \in Nat /\ IsFront(o \o u, m, g) /\ Len(o) <= m /\ m <= Len(o \o u)
  /\ (e = "nil" /\ m = Len(o \o u) /\ g = o \o u) \/ (e # "nil" /\ m < Len(o \o u))

LEMMA TookAll ==
  ASSUME NEW o, IsFile(o), NEW u, IsFile(u), NEW g, g = o \o u, NEW e, e = "nil"
  PROVE  \E m : Took(o, u, g, e, m)
<1>1. PICK l \in Nat, n \in Nat : l = Len(o) /\ n = Len(u)
  BY SeqFacts DEF IsFile
<1>2. IsSeq(g) /\ Len(g) = l + n
  BY <1>1, UnitsBehind DEF IsFile
<1>3. PICK m \in Nat : m = l + n
  OBVIOUS
<1>4. IsFront(g, m, g) /\ l <= m
  BY <1>2, <1>3 DEF IsFront
<1>5. Took(o, u, g, e, m)
  BY <1>1, <1>2, <1>3, <1>4 DEF Took
<1>6. QED BY <1>5

LEMMA TookSome ==
  ASSUME NEW o, IsFile(o), NEW u, IsFile(u), NEW c \in 0..(Len(u) - 1),
         NEW g, g = o \o SubSeq(u, 1, c), NEW e, e # "nil"
  PROVE  \E m : Took(o, u, g, e, m)
<1>1. PICK l \in Nat, n \in Nat : l = Len(o) /\ n = Len(u)
  BY SeqFacts DEF IsFile
<1>2. IsSeq(o) /\ IsSeq(u) /\ Len(o \o u) = l + n
  <2>1. PICK w : w = o \o u
    OBVIOUS
  <2>2. Len(w) = l + n
    BY <1>1, <2>1, UnitsBehind
  <2>3. QED BY <2>1, <2>2 DEF IsFile
<1>3. PICK m \in Nat : m = l + c /\ l <= m /\ m < l + n
  BY <1>1
<1>4. IsFront(o \o u, m, g)
  <2>1. c \in 0..Len(u)
    BY <1>1
  <2>2. IsFront(o \o u, Len(o) + c, g)
    BY <1>2, <2>1, CutBehind
  <2>3. QED BY <1>1, <1>3, <2>2
<1>5. Took(o, u, g, e, m)
  BY <1>1, <1>2, <1>3, <1>4 DEF Took
<1>6. QED BY <1>5

\* A compressor sends its data, or when it is no longer sound another body.
LEMMA SendsBody ==
  ASSUME IsFile(file), NEW start, IsFile(start), NEW bytes \in Seq(Bytes),
         NEW rest, IsFile(rest), Sends(start, bytes, rest)
  PROVE  \E v, m : /\ IsBody(v) /\ (sound => v = DataOf(bytes, Dict))
                   /\ Took(file, (start \o v) \o rest, file', werr', m)
<1>1. PICK v : v = DataOf(bytes, Dict)
  OBVIOUS
<1>2. IsBody(v) /\ Data(bytes) = v
  <2>1. Data(bytes) = v
    BY <1>1 DEF Data, DataOf, DataUnit
  <2>2. QED BY <1>1, <2>1, DataOfIs
<1>3. ASSUME NEW b, IsBody(b) PROVE IsFile((start \o b) \o rest)
  <2>1. PICK j : j = start \o b
    OBVIOUS
  <2>2. IsFile(j)
    BY <1>3, <2>1, UnitsBehind DEF IsBody
  <2>3. PICK u : u = j \o rest
    OBVIOUS
  <2>4. IsFile(u)
    BY <2>2, <2>3, UnitsBehind
  <2>5. QED BY <2>1, <2>3, <2>4
<1>4. PICK u : u = (start \o v) \o rest
  OBVIOUS
<1>5. IsFile(u)
  BY <1>2, <1>3, <1>4
<1>6. CASE file' = file \o u /\ werr' = "nil"
  <2>1. PICK g, e : g = file' /\ e = werr'
    OBVIOUS
  <2>2. PICK m : Took(file, u, g, e, m)
    BY <1>5, <1>6, <2>1, TookAll
  <2>3. QED BY <1>1, <1>2, <1>4, <2>1, <2>2
<1>7. CASE werr' # "nil" /\ \E c \in 0..(Len(u) - 1) : file' = file \o SubSeq(u, 1, c)
  <2>1. PICK g, e : g = file' /\ e = werr'
    OBVIOUS
  <2>2. PICK m : Took(file, u, g, e, m)
    BY <1>5, <1>7, <2>1, TookSome
  <2>3. QED BY <1>1, <1>2, <1>4, <2>1, <2>2
<1>8. CASE /\ ~sound /\ werr' = "nil"
           /\ \E c \in 0..Len(bytes), a \in Wrong :
                file' = file \o ((start \o (Data(SubSeq(bytes, 1, c)) \o <<a>>)) \o rest)
  <2>1. PICK c \in 0..Len(bytes), a \in Wrong :
          file' = file \o ((start \o (Data(SubSeq(bytes, 1, c)) \o <<a>>)) \o rest)
    BY <1>8
  <2>2. PICK x, b, z, n : x = SubSeq(bytes, 1, c) /\ b = DataOf(x, Dict) /\ n = <<a>> /\ z = b \o n
    OBVIOUS
  <2>3. x \in Seq(Bytes)
    BY <2>2
  <2>4. IsBody(b) /\ Data(x) = b
    <3>1. Data(x) = b
      BY <2>2 DEF Data, DataOf, DataUnit
    <3>2. QED BY <2>2, <2>3, <3>1, DataOfIs
  <2>5. IsBody(n)
    <3>1. IsSeq(n) /\ Len(n) = 1 /\ n[1] = a
      BY <2>2, Singles
    <3>2. Proper(a) /\ a.k \in BodyKinds
      <4>1. CASE a = Unit("end", 0)
        BY <4>1, UnitFields DEF Proper, Texted, BodyKinds
      <4>2. CASE a = Unit("bad", 0)
        BY <4>2, UnitFields DEF Proper, Texted, BodyKinds
      <4>3. CASE a = Unit("data", [text |-> 0, dict |-> Dict])
        <5>1. PICK r : r = [text |-> 0, dict |-> Dict]
          OBVIOUS
        <5>2. a.k = "data" /\ a.v = r /\ a = [k |-> a.k, v |-> a.v]
          BY <4>3, <5>1, UnitFields
        <5>3. QED BY <5>1, <5>2 DEF Proper, Texted, BodyKinds
      <4>4. QED BY <4>1, <4>2, <4>3 DEF Wrong
    <3>3. QED BY <3>1, <3>2 DEF IsBody, IsFile
  <2>6. IsBody(z)
    <3>1. AreBoth(z, b, n)
      BY <2>2, <2>4, <2>5, BodiesMeet
    <3>2. QED BY <3>1 DEF AreBoth
  <2>7. PICK w : w = (start \o z) \o rest
    OBVIOUS
  <2>8. IsFile(w)
    BY <1>3, <2>6, <2>7
  <2>9. file' = file \o w
    BY <2>1, <2>2, <2>4, <2>7
  <2>10. PICK g, e : g = file' /\ e = werr'
    OBVIOUS
  <2>11. PICK m : Took(file, w, g, e, m)
    BY <1>8, <2>8, <2>9, <2>10, TookAll
  <2>12. QED BY <1>8, <2>6, <2>7, <2>10, <2>11
<1>9. QED BY <1>2, <1>4, <1>6, <1>7, <1>8 DEF Sends

\* A Write and a Flush add to the member, and Close ends it.
Adds(rest) == rest = <<>> /\ UNCHANGED <<closed, texts>> /\ sound' \in BOOLEAN /\ (sound' => sound)
Ends(n, k, rest) ==
  n = 0 /\ k = Closing /\ rest = Ending(format, Interval(from, used)) /\ Closes

\* The data of a Write.
LEMMA PieceIs ==
  ASSUME NEW n \in Nat, used \in Nat
  PROVE  Piece(n) = Interval(used, used + n)
<1>1. used + n - used = n
  OBVIOUS
<1>2. Interval(used, used + n) = [k \in 1..n |-> used + k]
  BY <1>1 DEF Interval
<1>3. QED BY <1>2 DEF Piece

\* What a call sends, y, and what it leaves pending, q.
IsSplit(b, held, y, q, x, u) ==
  /\ held \in Seq(Bytes) /\ y \in Seq(Bytes) /\ q \in Seq(Bytes)
  /\ b => (x \o y) \o q = Interval(from, u)

LEMMA CallData ==
  ASSUME NEW b, pend \in Seq(Bytes), from \in Nat, used \in Nat, from <= used, NEW n \in Nat,
         NEW held, held = pend \o Piece(n), NEW k \in Nat, k <= Len(held),
         NEW x \in Seq(Bytes), b => x \o pend = Interval(from, used),
         NEW y, y = SubSeq(held, 1, k), NEW q, q = SubSeq(held, k + 1, Len(held)),
         NEW u \in Nat, u = used + n
  PROVE  IsSplit(b, held, y, q, x, u)
<1>1. used <= u /\ from <= u
  OBVIOUS
<1>2. PICK t : t = Interval(used, u) /\ held = pend \o t
  <2>1. Piece(n) = Interval(used, u)
    BY PieceIs
  <2>2. QED BY <2>1
<1>3. t \in Seq(Bytes)
  <2>1. IsInterval(t, used, n)
    BY <1>1, <1>2, Intervals
  <2>2. QED BY <2>1 DEF IsInterval
<1>4. held \in Seq(Bytes)
  BY <1>2, <1>3
<1>5. PICK hl \in Nat : hl = Len(held) /\ k <= hl
  BY <1>4
<1>6. y \in Seq(Bytes) /\ q \in Seq(Bytes) /\ y \o q = held
  <2>1. y \in Seq(Bytes) /\ q \in Seq(Bytes)
    <3>1. y = SubSeq(held, 1, k) /\ q = SubSeq(held, k + 1, hl)
      BY <1>5
    <3>2. k \in Nat
      OBVIOUS
    <3>3. QED BY ONLY <1>4, <1>5, <3>1, <3>2
  <2>2. k \in 1..hl \/ k = 0
    BY <1>5
  <2>3. CASE k \in 1..hl
    <3>1. SubSeq(held, 1, hl) = held
      BY <1>4, <1>5, SubSeqFull
    <3>2. SubSeq(held, 1, k) \o SubSeq(held, k + 1, hl) = SubSeq(held, 1, hl)
      BY <1>4, <1>5, <2>3, ConcatAdjacentSubSeq
    <3>3. y \o q = SubSeq(held, 1, k) \o SubSeq(held, k + 1, hl)
      BY <1>5
    <3>4. QED BY <2>1, <3>1, <3>2, <3>3
  <2>4. CASE k = 0
    <3>1. y = <<>>
      BY <1>4, <2>4
    <3>2. q = held
      BY <1>4, <1>5, <2>4, SubSeqFull
    <3>3. IsSeq(held)
      BY <1>4 DEF IsSeq
    <3>4. <<>> \o held = held
      BY <3>3, WithEmpty
    <3>5. y \o q = <<>> \o held
      BY <3>1, <3>2
    <3>6. QED BY <2>1, <3>4, <3>5
  <2>5. QED BY <2>1, <2>2, <2>3, <2>4
<1>7. b => (x \o y) \o q = Interval(from, u)
  <2>1. SUFFICES ASSUME b PROVE (x \o y) \o q = Interval(from, u)
    OBVIOUS
  <2>2. (x \o y) \o q = x \o (y \o q)
    <3>1. x \in Seq(Bytes) /\ y \in Seq(Bytes) /\ q \in Seq(Bytes)
      BY <1>6
    <3>2. QED BY ONLY <3>1, ConcatAssociative
  <2>3. x \o (pend \o t) = (x \o pend) \o t
    <3>1. x \in Seq(Bytes) /\ pend \in Seq(Bytes) /\ t \in Seq(Bytes)
      BY <1>3
    <3>2. QED BY ONLY <3>1, ConcatAssociative
  <2>4. Interval(from, used) \o t = Interval(from, u)
    <3>1. from \in Nat /\ used \in Nat /\ from <= used /\ used <= u
      BY <1>1
    <3>2. PICK v, v2 : v = Interval(from, used) /\ v2 = Interval(from, u)
      OBVIOUS
    <3>3. Meet(from, used, u, v, t, v2)
      BY <1>2, <3>1, <3>2, IntervalsMeet
    <3>4. v \o t = v2
      BY <3>3 DEF Meet
    <3>5. QED BY <3>2, <3>4
  <2>5. QED BY <1>2, <1>6, <2>1, <2>2, <2>3, <2>4
<1>8. QED BY <1>4, <1>6, <1>7 DEF IsSplit

\* At Close all the data that is pending is sent, if the compressor is sound.
LEMMA ClosingSendsAll ==
  ASSUME pend \in Seq(Bytes), from \in Nat, used \in Nat, from <= used,
         NEW x \in Seq(Bytes), x \o pend = Interval(from, used)
  PROVE  Closing = Len(pend)
<1>1. CASE used = from
  <2>1. PICK t : t = Interval(from, used)
    OBVIOUS
  <2>2. PICK n \in Nat : n = used - from /\ n = 0
    BY <1>1
  <2>3. IsInterval(t, from, n)
    BY <2>1, <2>2, Intervals
  <2>4. Len(t) = 0
    BY <2>2, <2>3 DEF IsInterval
  <2>5. Len(x \o pend) = Len(x) + Len(pend)
    BY ONLY x \in Seq(Bytes), pend \in Seq(Bytes), Concatenated
  <2>6. Len(x) \in Nat /\ Len(pend) \in Nat
    OBVIOUS
  <2>7. Len(pend) = 0
    BY <2>1, <2>4, <2>5, <2>6
  <2>8. QED BY <2>7 DEF Closing
<1>2. CASE used # from
  BY <1>2 DEF Closing
<1>3. QED BY <1>1, <1>2

\* A call that sends data, and perhaps a header before it or the end behind it.
LEMMA CallKeeps ==
  ASSUME Types, WriteInv, NEW n \in Nat, NEW k \in Nat, NEW start, NEW rest,
         ~wroteHeader => start \in Heads(format, Dict), Call(n, k, start, rest),
         Adds(rest) \/ Ends(n, k, rest)
  PROVE  Types' /\ WriteInv'
<1>1. /\ stage = "write" /\ werr = "nil" /\ ~closed /\ k <= Len(pend \o Piece(n))
      /\ used' = used + n /\ wroteHeader' = TRUE /\ wsum' = Summed(wsum, Piece(n))
      /\ format' = format /\ stage' = stage /\ from' = from /\ head' = head
  BY DEF Call, readerVars
<1>2. PICK s : s = IF wroteHeader THEN <<>> ELSE start
  OBVIOUS
<1>3. PICK held : held = pend \o Piece(n)
  OBVIOUS
<1>4. PICK y, q : y = SubSeq(held, 1, k) /\ q = SubSeq(held, k + 1, Len(held))
  OBVIOUS
<1>5. Sends(s, y, rest) /\ (pend' = pend \/ pend' = held \/ pend' = q)
      /\ (werr' = "nil" => pend' = q)
  BY <1>2, <1>3, <1>4 DEF Call
<1>6. FileWritten /\ MemberWritten /\ from \in Nat /\ used \in Nat /\ from <= used
      /\ pend \in Seq(Bytes) /\ IsFile(file)
  BY <1>1 DEF WriteInv, FileWritten
<1>7. IsFile(s) /\ \E p, hs, y0, x : OpenAt(s, p, hs, y0, x)
  BY <1>1, <1>2, OpenNow
<1>8. PICK p, hs, y0, x : OpenAt(s, p, hs, y0, x)
  BY <1>7
<1>9. PICK d, f : d = Dict /\ f = format
  OBVIOUS
<1>10. f \in {"gzip", "zlib"} /\ texts \in Seq(Seq(Bytes))
  BY <1>9 DEF Types
<1>11. /\ p \in Bounds(f, file) /\ Crcs(file, p) = Len(texts)
       /\ hs \in Heads(f, d) /\ Open(file \o s, p, hs, y0) /\ x \in Seq(Bytes)
       /\ sound => y0 = DataOf(x, d) /\ x \o pend = Interval(from, used)
  BY <1>8, <1>9 DEF OpenAt, Holds
<1>12. PICK u2 \in Nat : u2 = used + n /\ used <= u2 /\ from <= u2
  BY <1>6
<1>13. IsSplit(sound, held, y, q, x, u2)
  <2>1. PICK b : b = sound
    OBVIOUS
  <2>2. b => x \o pend = Interval(from, used)
    BY <1>11, <2>1
  <2>3. k <= Len(held) /\ x \in Seq(Bytes)
    BY <1>1, <1>3, <1>11
  <2>4. IsSplit(b, held, y, q, x, u2)
    BY <1>3, <1>4, <1>6, <1>12, <2>2, <2>3, CallData
  <2>5. QED BY <2>1, <2>4
<1>14. held \in Seq(Bytes) /\ y \in Seq(Bytes) /\ q \in Seq(Bytes)
  BY <1>13 DEF IsSplit
<1>15. PICK xy : xy = x \o y
  OBVIOUS
<1>16. xy \in Seq(Bytes) /\ (sound => xy \o q = Interval(from, u2))
  <2>1. xy \in Seq(Bytes)
    BY <1>11, <1>14, <1>15
  <2>2. sound => (x \o y) \o q = Interval(from, u2)
    BY <1>13 DEF IsSplit
  <2>3. QED BY <1>15, <2>1, <2>2
<1>17. ASSUME Ends(n, k, rest), sound PROVE xy = Interval(from, used)
  <2>1. n = 0 /\ u2 = used /\ k = Len(pend)
    <3>1. n = 0 /\ k = Closing
      BY <1>17 DEF Ends
    <3>2. Closing = Len(pend)
      BY <1>6, <1>11, <1>17, ClosingSendsAll
    <3>3. QED BY <1>6, <1>12, <3>1, <3>2
  <2>2. Piece(n) = <<>>
    BY <2>1 DEF Piece
  <2>3. held = pend
    <3>1. IsSeq(pend)
      BY <1>6 DEF IsSeq
    <3>2. QED BY <1>3, <2>2, <3>1, WithEmpty
  <2>4. q = <<>>
    BY <1>4, <1>14, <2>1, <2>3
  <2>5. xy \o <<>> = xy
    BY <1>16 DEF IsSeq
  <2>6. QED BY <1>16, <1>17, <2>1, <2>4, <2>5
<1>18. PICK z : z = IF rest = <<>> THEN xy ELSE Interval(from, used)
  OBVIOUS
<1>19. z \in Seq(Bytes)
  <2>1. PICK i \in Nat, t \in {Interval(from, used)} : i = used - from
    BY <1>6
  <2>2. IsInterval(t, from, i)
    BY <1>6, <2>1, Intervals
  <2>3. t \in Seq(Bytes)
    BY <2>2 DEF IsInterval
  <2>4. QED BY <1>16, <1>18, <2>1, <2>3
<1>20. /\ rest = <<>> => Adds(rest) /\ z = xy
       /\ rest # <<>> => /\ Ends(n, k, rest) /\ rest = Ending(f, z)
                         /\ z = Interval(from, used) /\ (sound => z = xy)
  <2>1. ASSUME Ends(n, k, rest) PROVE rest # <<>>
    <3>1. PICK i \in Nat, t \in {Interval(from, used)} : i = used - from
      BY <1>6
    <3>2. IsInterval(t, from, i)
      BY <1>6, <3>1, Intervals
    <3>3. t \in Seq(Bytes)
      BY <3>2 DEF IsInterval
    <3>4. rest = Ending(f, t)
      BY <1>9, <2>1, <3>1 DEF Ends
    <3>5. Len(rest) = 1 + Trail(f)
      BY <1>10, <3>3, <3>4, EndingIs
    <3>6. 1 + Trail(f) # 0
      BY DEF Trail
    <3>7. Len(<<>>) = 0
      BY Empty
    <3>8. QED BY <3>5, <3>6, <3>7
  <2>2. Ends(n, k, rest) => rest = Ending(f, Interval(from, used))
    BY <1>9 DEF Ends
  <2>3. Adds(rest) => rest = <<>>
    BY DEF Adds
  <2>4. QED BY <1>17, <1>18, <2>1, <2>2, <2>3
<1>21. IsFile(rest)
  <2>1. IsFile(<<>>)
    BY Empty DEF IsFile
  <2>2. IsFile(Ending(f, z))
    BY <1>10, <1>19, EndingIs
  <2>3. QED BY <1>20, <2>1, <2>2
<1>22. PICK v, m :
         /\ IsBody(v) /\ (sound => v = DataOf(y, d))
         /\ Took(file, (s \o v) \o rest, file', werr', m)
  <2>1. IsFile(file) /\ IsFile(s)
    BY <1>6, <1>7
  <2>2. \E v, m : /\ IsBody(v) /\ (sound => v = DataOf(y, Dict))
                  /\ Took(file, (s \o v) \o rest, file', werr', m)
    BY <1>5, <1>14, <1>21, <2>1, SendsBody
  <2>3. QED BY <1>9, <2>2
<1>23. PICK yz : yz = y0 \o v
  OBVIOUS
<1>24. Spells(sound, d, yz, z)
  <2>1. IsBody(y0)
    BY <1>11 DEF Open
  <2>2. IsBody(yz)
    <3>1. AreBoth(yz, y0, v)
      BY <1>22, <1>23, <2>1, BodiesMeet
    <3>2. QED BY <3>1 DEF AreBoth
  <2>3. ASSUME sound PROVE yz = DataOf(z, d)
    <3>1. DataOf(x, d) \o DataOf(y, d) = DataOf(x \o y, d)
      BY <1>11, <1>14, DataMeets
    <3>2. z = x \o y
      BY <1>15, <1>20, <2>3
    <3>3. yz = DataOf(x, d) \o DataOf(y, d)
      BY <1>11, <1>22, <1>23, <2>3
    <3>4. QED BY <3>1, <3>2, <3>3
  <2>4. QED BY <2>2, <2>3 DEF Spells
<1>25. PICK units : units = (s \o v) \o rest
  OBVIOUS
<1>26. PICK w : w = file \o units
  OBVIOUS
<1>27. Continues(f, units, w, p, hs, yz, rest, z)
  <2>1. IsFile(file) /\ IsFile(s)
    BY <1>6, <1>7
  <2>2. PICK b : b = file \o s
    OBVIOUS
  <2>3. Open(b, p, hs, y0)
    BY <1>11, <2>2
  <2>4. rest = <<>> \/ rest = Ending(f, z)
    BY <1>20
  <2>5. IsBody(v)
    BY <1>22
  <2>6. QED BY ONLY <1>10, <1>19, <1>23, <1>25, <1>26, <2>1, <2>2, <2>3, <2>4, <2>5, Sent
<1>28. /\ m \in Nat /\ IsFront(w, m, file') /\ Len(file) <= m /\ m <= Len(w)
       /\ (werr' = "nil" /\ m = Len(w) /\ file' = w) \/ (werr' # "nil" /\ m < Len(w))
  BY <1>22, <1>25, <1>26 DEF Took
<1>29. PICK c \in Nat, l \in Nat, e \in Nat :
         c = Len(hs) /\ c >= 2 /\ l = Len(yz) /\ e = EndOf(f, p, c, l) /\ p \in Nat
  <2>1. GoodHead(f, d, hs)
    BY <1>10, <1>11, GoodHeads
  <2>2. Len(hs) \in Nat /\ Len(hs) >= 2
    BY <2>1, SeqFacts DEF GoodHead, IsFile
  <2>3. p \in Nat /\ Len(yz) \in Nat
    BY <1>11, <1>24, SeqFacts DEF Bounds, Spells, IsBody, IsFile
  <2>4. QED BY <2>2, <2>3 DEF EndOf, Trail
<1>30. /\ Shape(f, w, p, hs, yz, z) /\ IsFile(w)
       /\ rest = <<>> => Len(w) = p + c + l /\ Open(w, p, hs, yz)
       /\ rest # <<>> => Len(w) = e
  <2>1. CASE rest = <<>>
    <3>1. Open(w, p, hs, yz)
      BY <1>27, <2>1 DEF Continues
    <3>2. IsFile(w) /\ Len(w) = p + Len(hs) + Len(yz)
      BY <3>1 DEF Open
    <3>3. Shape(f, w, p, hs, yz, z)
      BY <3>1, OpenShape
    <3>4. Len(w) = p + c + l
      BY <1>29, <3>2
    <3>5. QED BY <2>1, <3>1, <3>2, <3>3, <3>4
  <2>2. CASE rest # <<>>
    BY <1>20, <1>27, <1>29, <2>2 DEF Continues, Ended
  <2>3. QED BY <2>1, <2>2
<1>31. Len(w) <= e /\ (rest = <<>> => Len(w) < e)
  <2>1. p + c + l < e
    BY <1>29 DEF EndOf, Trail
  <2>2. CASE rest = <<>>
    <3>1. Len(w) = p + c + l
      BY <1>30, <2>2
    <3>2. p + c + l \in Nat /\ e \in Nat
      BY <1>29
    <3>3. QED BY ONLY <2>1, <3>1, <3>2
  <2>3. CASE rest # <<>>
    BY <1>29, <1>30, <2>3
  <2>4. QED BY <2>2, <2>3
<1>32. rest = <<>> => texts' = texts /\ closed' = closed
  BY <1>20 DEF Adds
<1>33. rest # <<>> => /\ closed' = TRUE
                     /\ texts' = IF werr' = "nil" THEN Append(texts, z) ELSE texts
  <2>1. SUFFICES ASSUME rest # <<>>
                 PROVE  closed' = TRUE /\ texts' = IF werr' = "nil" THEN Append(texts, z) ELSE texts
    OBVIOUS
  <2>2. Ends(n, k, rest)
    BY <1>20, <2>1
  <2>3. z = [i \in 1..(used - from) |-> from + i]
    BY <1>20, <2>1 DEF Interval
  <2>4. QED BY <2>2, <2>3 DEF Ends, Closes
<1>34. texts' = texts \/ texts' = Append(texts, z)
  BY <1>32, <1>33
<1>35. m = e => texts' = Append(texts, z)
  <2>1. SUFFICES ASSUME m = e PROVE texts' = Append(texts, z)
    OBVIOUS
  <2>2. PICK lw \in Nat : lw = Len(w)
    BY <1>30, SeqFacts DEF IsFile
  <2>3. m <= lw /\ lw <= e /\ (rest = <<>> => lw < e)
    BY <1>28, <1>31, <2>2
  <2>4. rest # <<>> /\ m = lw
    BY <1>28, <2>1, <2>3
  <2>5. werr' = "nil"
    BY <1>28, <2>2, <2>4
  <2>6. QED BY <1>33, <2>4, <2>5
<1>36. IsFront(w, Len(file), file)
  <2>1. IsFile(file) /\ IsFile(units)
    BY <1>6, <1>27 DEF Continues
  <2>2. QED BY <1>26, <2>1, UnitsBehind
<1>37. PICK g, t2, b : g = file' /\ t2 = texts' /\ b = sound
  OBVIOUS
<1>38. IsTaken(b, f, d, g, t2)
  <2>1. Layout(b, f, d, file, texts) /\ IsFile(file)
    BY <1>6, <1>9, <1>37 DEF FileWritten
  <2>2. p \in Bounds(f, file) /\ Crcs(file, p) = Len(texts) /\ hs \in Heads(f, d)
    BY <1>11
  <2>3. Spells(b, d, yz, z)
    BY <1>24, <1>37
  <2>4. IsFile(w) /\ Shape(f, w, p, hs, yz, z)
    BY <1>30
  <2>5. Len(w) <= EndOf(f, p, Len(hs), Len(yz))
    BY <1>29, <1>31
  <2>6. IsFront(w, m, g) /\ Len(file) <= m
    BY <1>28, <1>37
  <2>7. t2 = texts \/ t2 = Append(texts, z)
    BY <1>34, <1>37
  <2>8. m = EndOf(f, p, Len(hs), Len(yz)) => t2 = Append(texts, z)
    BY <1>29, <1>35, <1>37
  <2>9. Takes(b, f, d, file, texts, p, hs, yz, z, w, m, g, t2)
    BY <1>10, <1>19, <1>36, <2>1, <2>2, <2>3, <2>4, <2>5, <2>6, <2>7, <2>8 DEF Takes, IsTaken
  <2>10. QED BY ONLY <2>9, Taken
<1>39. sound' \in BOOLEAN /\ (sound' => sound)
  BY <1>20 DEF Adds, Ends, Closes, Types
<1>40. Dict' = Dict
  BY <1>1 DEF Dict
<1>41. FileWritten' /\ texts' \in Seq(Seq(Bytes))
  <2>1. IsFile(g) /\ Layout(b, f, d, g, t2) /\ t2 \in Seq(Seq(Bytes))
    BY <1>38 DEF IsTaken
  <2>2. PICK b2 : b2 = sound'
    OBVIOUS
  <2>3. b2 => b
    BY <1>37, <1>39, <2>2
  <2>4. Layout(b2, f, d, g, t2)
    BY ONLY <2>1, <2>3, LayoutWeaker
  <2>5. Layout(sound', format', Dict', file', texts')
    BY <1>1, <1>9, <1>37, <1>40, <2>2, <2>4
  <2>6. QED BY <1>37, <2>1, <2>5 DEF FileWritten
<1>42. Types'
  BY <1>1, <1>39, <1>41 DEF Types
<1>43. wsum'.crc = Interval(from, u2) /\ wsum'.size = (u2 - from) % SizeMod
  <2>1. wsum' = [crc |-> wsum.crc \o Piece(n), size |-> (wsum.size + Len(Piece(n))) % SizeMod]
    BY <1>1 DEF Summed
  <2>2. PICK t : t = Interval(used, u2)
    OBVIOUS
  <2>3. Piece(n) = t
    BY <1>6, <1>12, <2>2, PieceIs
  <2>4. Len(t) = n
    <3>1. n = u2 - used
      BY <1>6, <1>12
    <3>2. IsInterval(t, used, n)
      BY <1>6, <1>12, <2>2, <3>1, Intervals
    <3>3. QED BY <3>2 DEF IsInterval
  <2>5. wsum'.crc = wsum.crc \o t /\ wsum'.size = (wsum.size + n) % SizeMod
    BY <2>1, <2>3, <2>4
  <2>6. wsum.crc = Interval(from, used) /\ wsum.size = (used - from) % SizeMod
    BY <1>6 DEF MemberWritten
  <2>7. Interval(from, used) \o t = Interval(from, u2)
    <3>1. PICK v1, v2 : v1 = Interval(from, used) /\ v2 = Interval(from, u2)
      OBVIOUS
    <3>2. Meet(from, used, u2, v1, t, v2)
      BY <1>6, <1>12, <2>2, <3>1, IntervalsMeet
    <3>3. QED BY <3>1, <3>2 DEF Meet
  <2>8. PICK i \in Nat : i = used - from
    BY <1>6
  <2>9. ((i % SizeMod) + n) % SizeMod = (i + n) % SizeMod
    BY Modular, SizesOK
  <2>10. i + n = u2 - from
    BY <1>6, <1>12, <2>8
  <2>11. QED BY <2>5, <2>6, <2>7, <2>8, <2>9, <2>10
<1>44. p \in Bounds(f, w) /\ Crcs(w, p) = Len(texts)
  <2>1. IsSeq(w) /\ p \in 0..Len(file)
    BY <1>11, <1>30 DEF IsFile, Bounds
  <2>2. (p \in Bounds(f, file) <=> p \in Bounds(f, w)) /\ Crcs(file, p) = Crcs(w, p)
    BY <1>36, <2>1, BoundsFront
  <2>3. QED BY <1>11, <2>2
<1>45. /\ pend' \in Seq(Bytes) /\ from' = from /\ used' = u2 /\ from \in Nat /\ u2 \in Nat
       /\ from <= u2 /\ wroteHeader' = TRUE /\ closed' \in BOOLEAN
  <2>1. pend' \in Seq(Bytes)
    BY <1>5, <1>6, <1>14
  <2>2. closed' \in BOOLEAN
    BY <1>1, <1>32, <1>33 DEF WriteInv
  <2>3. QED BY <1>1, <1>6, <1>12, <2>1, <2>2
<1>46. werr' = "nil" => MemberWritten'
  <2>1. CASE werr' = "nil" /\ rest = <<>>
    <3>1. file' = w /\ closed' = closed /\ texts' = texts /\ pend' = q
      BY <1>5, <1>28, <1>32, <2>1
    <3>2. Open(w, p, hs, yz)
      BY <1>30, <2>1
    <3>3. sound' => yz = DataOf(z, Dict') /\ z \o pend' = Interval(from', used')
      <4>1. SUFFICES ASSUME sound
                     PROVE  yz = DataOf(z, Dict') /\ z \o pend' = Interval(from', used')
        BY <1>39
      <4>2. yz = DataOf(z, d)
        BY <1>24, <4>1 DEF Spells
      <4>3. z \o q = Interval(from, u2)
        BY <1>16, <1>20, <2>1, <4>1
      <4>4. QED BY <1>9, <1>40, <1>45, <3>1, <4>2, <4>3
    <3>4. /\ p \in Bounds(format', file') /\ Crcs(file', p) = Len(texts')
          /\ hs \in Heads(format', Dict') /\ Open(file', p, hs, yz) /\ z \in Seq(Bytes)
      BY <1>1, <1>9, <1>11, <1>19, <1>40, <1>44, <3>1, <3>2
    <3>5. Opening(p, hs, yz, z)'
      BY <3>3, <3>4 DEF Opening, Holds
    <3>6. ~closed'
      BY <1>1, <3>1
    <3>7. QED BY <1>43, <1>45, <3>5, <3>6 DEF MemberWritten
  <2>2. CASE werr' = "nil" /\ rest # <<>>
    <3>1. file' = w /\ closed' = TRUE /\ texts' = Append(texts, z) /\ Len(w) = e
      BY <1>28, <1>30, <1>33, <2>2
    <3>2. Kinds(f, w, p, c, l)
      <4>1. GoodHead(f, d, hs)
        BY <1>10, <1>11, GoodHeads
      <4>2. p \in Nat /\ IsBody(yz) /\ Shape(f, w, p, hs, yz, z)
        BY <1>24, <1>29, <1>30 DEF Spells
      <4>3. Kinds(f, w, p, Len(hs), Len(yz))
        BY ONLY <1>10, <4>1, <4>2, ShapeKinds
      <4>4. QED BY <1>29, <4>3
    <3>3. e \in Bounds(f, w) /\ Crcs(w, e) = Crcs(w, p) + 1
      <4>1. Len(w) \in Nat /\ e <= Len(w)
        BY <1>29, <3>1
      <4>2. QED BY <1>10, <1>29, <3>2, <4>1, MemberEnd
    <3>4. Len(texts') = Len(texts) + 1
      BY <1>10, <3>1
    <3>5. AtBound'
      BY <1>1, <1>9, <1>44, <3>1, <3>3, <3>4 DEF AtBound
    <3>6. QED BY <1>43, <1>45, <3>1, <3>5 DEF MemberWritten
  <2>3. QED BY <2>1, <2>2
<1>47. QED BY <1>41, <1>42, <1>45, <1>46 DEF WriteInv

\* The header that a call sends.
LEMMA Starts ==
  ASSUME Types
  PROVE  /\ format = "gzip" /\ ~Refused(head) => HeadUnits(head) \in Heads(format, Dict)
         /\ format = "zlib" => ZlibHead \in Heads(format, Dict)
<1>1. ASSUME format = "gzip", ~Refused(head) PROVE HeadUnits(head) \in Heads(format, Dict)
  <2>1. PICK h : h = head
    OBVIOUS
  <2>2. h \in Headers /\ ~Refused(h)
    BY <1>1, <2>1 DEF Types
  <2>3. PICK hs, g : hs = FullHead(h) /\ g = HeadUnits(h)
    OBVIOUS
  <2>4. g = hs
    BY <2>2, <2>3, HeadUnitsAre
  <2>5. QED BY <1>1, <2>1, <2>2, <2>3, <2>4 DEF Heads
<1>2. ASSUME format = "zlib" PROVE ZlibHead \in Heads(format, Dict)
  BY <1>2 DEF ZlibHead, Heads, DictHead, Dict
<1>3. QED BY <1>1, <1>2

\* What Close sends behind the data.
LEMMA Finishes ==
  ASSUME Types, WriteInv, stage = "write", werr = "nil"
  PROVE  /\ format = "gzip" =>
              <<Unit("end", 0)>> \o Trailer(wsum) = Ending(format, Interval(from, used))
         /\ format = "zlib" =>
              <<Unit("end", 0), Unit("crc", wsum.crc)>> = Ending(format, Interval(from, used))
<1>1. wsum.crc = Interval(from, used) /\ wsum.size = (used - from) % SizeMod
      /\ from \in Nat /\ used \in Nat /\ from <= used
  BY DEF WriteInv, MemberWritten
<1>2. PICK n \in Nat : n = used - from
  BY <1>1
<1>3. PICK x : x = Interval(from, used)
  OBVIOUS
<1>4. Len(x) = n
  <2>1. IsInterval(x, from, n)
    BY <1>1, <1>2, <1>3, Intervals
  <2>2. QED BY <2>1 DEF IsInterval
<1>5. wsum.crc = x /\ wsum.size = Len(x) % SizeMod
  BY <1>1, <1>2, <1>3, <1>4
<1>6. format = "gzip" => <<Unit("end", 0)>> \o Trailer(wsum) = Ending(format, x)
  BY <1>5 DEF Trailer, Ending
<1>7. format = "zlib" => <<Unit("end", 0), Unit("crc", wsum.crc)>> = Ending(format, x)
  BY <1>5 DEF Ending
<1>8. QED BY <1>3, <1>6, <1>7

LEMMA GzipCalls ==
  ASSUME Types, WriteInv, NEW n \in Nat, NEW k \in Nat, NEW rest, GzipCall(n, k, rest),
         Adds(rest) \/ Ends(n, k, rest)
  PROVE  Types' /\ WriteInv'
<1>1. Call(n, k, HeadUnits(head), rest)
  BY DEF GzipCall
<1>2. ~wroteHeader => HeadUnits(head) \in Heads(format, Dict)
  BY Starts DEF GzipCall
<1>3. PICK start : start = HeadUnits(head)
  OBVIOUS
<1>4. QED BY <1>1, <1>2, <1>3, CallKeeps

LEMMA ZlibCalls ==
  ASSUME Types, WriteInv, NEW n \in Nat, NEW k \in Nat, NEW rest, ZlibCall(n, k, rest),
         Adds(rest) \/ Ends(n, k, rest)
  PROVE  Types' /\ WriteInv'
<1>1. Call(n, k, ZlibHead, rest)
  BY DEF ZlibCall
<1>2. ~wroteHeader => ZlibHead \in Heads(format, Dict)
  BY Starts DEF ZlibCall
<1>3. PICK start : start = ZlibHead
  OBVIOUS
<1>4. QED BY <1>1, <1>2, <1>3, CallKeeps

LEMMA PendLength ==
  ASSUME WriteInv, stage = "write", werr = "nil"
  PROVE  Len(pend) \in Nat
<1>1. pend \in Seq(Bytes)
  BY DEF WriteInv
<1>2. QED BY <1>1

\* The calls of the writers.
LEMMA WriteKeeps ==
  ASSUME Types, WriteInv, NEW n \in WriteSizes, Write(n) \/ ZlibWrite(n)
  PROVE  Types' /\ WriteInv'
<1>1. n \in Nat
  BY SizesOK
<1>2. PICK r : r = <<>>
  OBVIOUS
<1>3. CASE Write(n)
  <2>1. PICK k \in 0..(Len(pend) + n) : GzipCall(n, k, <<>>)
    BY <1>3 DEF Write
  <2>2. k \in Nat
    OBVIOUS
  <2>3. Adds(r)
    BY <1>2, <1>3 DEF Write, Grows, Adds, Types
  <2>4. GzipCall(n, k, r)
    BY <1>2, <2>1
  <2>5. QED BY <1>1, <2>2, <2>3, <2>4, GzipCalls
<1>4. CASE ZlibWrite(n)
  <2>1. PICK k \in 0..(IF n = 0 THEN 0 ELSE Len(pend) + n) : ZlibCall(n, k, <<>>)
    BY <1>4 DEF ZlibWrite
  <2>2. k \in Nat
    OBVIOUS
  <2>3. Adds(r)
    BY <1>2, <1>4 DEF ZlibWrite, Grows, Adds, Types
  <2>4. ZlibCall(n, k, r)
    BY <1>2, <2>1
  <2>5. QED BY <1>1, <2>2, <2>3, <2>4, ZlibCalls
<1>5. QED BY <1>3, <1>4

LEMMA FlushKeeps ==
  ASSUME Types, WriteInv, Flush \/ ZlibFlush
  PROVE  Types' /\ WriteInv'
<1>1. PICK r : r = <<>>
  OBVIOUS
<1>2. stage = "write" /\ werr = "nil"
  BY DEF Flush, ZlibFlush, GzipCall, ZlibCall, Call
<1>3. PICK k \in Nat : k = Len(pend)
  BY <1>2, PendLength
<1>4. PICK n \in Nat : n = 0
  OBVIOUS
<1>5. Adds(r)
  <2>1. Flushes
    BY DEF Flush, ZlibFlush
  <2>2. UNCHANGED <<closed, texts>> /\ sound' = (sound /\ level # "huffman")
    BY <2>1 DEF Flushes
  <2>3. sound \in BOOLEAN
    BY DEF Types
  <2>4. QED BY <1>1, <2>2, <2>3 DEF Adds
<1>6. CASE Flush
  <2>1. GzipCall(n, k, r)
    BY <1>1, <1>3, <1>4, <1>6 DEF Flush
  <2>2. QED BY <1>5, <2>1, GzipCalls
<1>7. CASE ZlibFlush
  <2>1. ZlibCall(n, k, r)
    BY <1>1, <1>3, <1>4, <1>7 DEF ZlibFlush
  <2>2. QED BY <1>5, <2>1, ZlibCalls
<1>8. QED BY <1>6, <1>7

LEMMA CloseKeeps ==
  ASSUME Types, WriteInv, Close \/ ZlibClose
  PROVE  Types' /\ WriteInv'
<1>1. stage = "write" /\ werr = "nil"
  BY DEF Close, ZlibClose, GzipCall, ZlibCall, Call
<1>2. PICK k \in Nat : k = Closing
  BY <1>1, PendLength DEF Closing
<1>3. PICK n \in Nat : n = 0
  OBVIOUS
<1>4. CASE Close
  <2>1. PICK r : r = <<Unit("end", 0)>> \o Trailer(wsum)
    OBVIOUS
  <2>2. GzipCall(n, k, r) /\ Closes
    BY <1>2, <1>3, <1>4, <2>1 DEF Close
  <2>3. format = "gzip"
    BY <2>2 DEF GzipCall
  <2>4. r = Ending(format, Interval(from, used))
    BY <1>1, <2>1, <2>3, Finishes
  <2>5. Ends(n, k, r)
    BY <1>2, <1>3, <2>2, <2>4 DEF Ends
  <2>6. QED BY <2>2, <2>5, GzipCalls
<1>5. CASE ZlibClose
  <2>1. PICK r : r = <<Unit("end", 0), Unit("crc", wsum.crc)>>
    OBVIOUS
  <2>2. ZlibCall(n, k, r) /\ Closes
    BY <1>2, <1>3, <1>5, <2>1 DEF ZlibClose
  <2>3. format = "zlib"
    BY <2>2 DEF ZlibCall
  <2>4. r = Ending(format, Interval(from, used))
    BY <1>1, <2>1, <2>3, Finishes
  <2>5. Ends(n, k, r)
    BY <1>2, <1>3, <2>2, <2>4 DEF Ends
  <2>6. QED BY <2>2, <2>5, ZlibCalls
<1>6. QED BY <1>4, <1>5

\* An empty file.
LEMMA EmptyFile ==
  ASSUME NEW z, NEW f, NEW d, NEW t, NEW o, o = <<>>
  PROVE  IsFile(o) /\ Layout(z, f, d, o, t) /\ Len(o) \in Bounds(f, o) /\ Crcs(o, Len(o)) = 0
<1>1. IsSeq(o) /\ Len(o) = 0
  BY Empty
<1>2. IsFile(o)
  BY <1>1 DEF IsFile
<1>3. Bounds(f, o) = {0}
  BY <1>1 DEF Bounds
<1>4. Layout(z, f, d, o, t)
  BY <1>1, <1>3 DEF Layout
<1>5. Crcs(o, Len(o)) = 0
  BY <1>1, CrcsZero
<1>6. QED BY <1>1, <1>2, <1>3, <1>4, <1>5

\* The data of a member that has none yet.
LEMMA NoData ==
  ASSUME NEW a \in Nat, NEW b, b = a
  PROVE  /\ Zero.crc = Interval(a, b) /\ Zero.size = (b - a) % SizeMod
         /\ <<>> \in Seq(Bytes) /\ a <= b
<1>1. PICK n, x : n = b - a /\ x = Interval(a, b)
  OBVIOUS
<1>2. n = 0 /\ a <= b /\ b \in Nat
  BY <1>1
<1>3. IsInterval(x, a, n)
  BY <1>1, <1>2, Intervals
<1>4. x = <<>>
  BY <1>2, <1>3, EmptySeq DEF IsInterval
<1>5. 0 % SizeMod = 0
  BY SizesOK, Remainder
<1>6. <<>> \in Seq(Bytes)
  BY EmptySeq
<1>7. QED BY <1>1, <1>2, <1>4, <1>5, <1>6 DEF Zero

LEMMA NextMemberKeeps ==
  ASSUME Types, WriteInv, GzipReset \/ ZlibReset
  PROVE  Types' /\ WriteInv'
<1>1. /\ stage = "write" /\ wroteHeader /\ from' = used /\ Fresh
      /\ format' = format /\ stage' = stage /\ used' = used /\ ResetCompressor
  BY DEF GzipReset, ZlibReset, NextMember
<1>2. \/ closed /\ werr = "nil" /\ file' = file /\ texts' = texts /\ sound' = (sound /\ Forgets)
      \/ file' = <<>> /\ texts' = <<>> /\ sound' = Forgets
  BY DEF GzipReset, ZlibReset, NextMember
<1>3. sound' \in BOOLEAN /\ (sound' => pend' = <<>>)
  BY <1>2 DEF Forgets, Types
<1>4. pend' \in Seq(Bytes)
  <2>1. pend \in Seq(Bytes)
    BY <1>1 DEF WriteInv
  <2>2. CASE level # "dyn"
    BY <1>1, <2>2, EmptySeq DEF ResetCompressor
  <2>3. CASE level = "dyn"
    <3>1. PICK l \in Nat : l = Len(pend)
      BY <2>1
    <3>2. PICK j \in 1..(l + 1), k \in 0..l : pend' = SubSeq(pend, j, k)
      BY <1>1, <2>3, <3>1 DEF ResetCompressor
    <3>3. QED BY <2>1, <3>1, <3>2
  <2>4. QED BY <2>2, <2>3
<1>5. Types' /\ Dict' = Dict
  <2>1. texts' \in Seq(Seq(Bytes))
    BY <1>2, EmptySeq DEF Types
  <2>2. CASE GzipReset
    <3>1. format = "gzip" /\ head' \in Headers
      BY <2>2 DEF GzipReset, NextMember
    <3>2. QED BY <1>1, <1>3, <2>1, <3>1 DEF Types, Dict
  <2>3. CASE ZlibReset
    <3>1. format = "zlib" /\ head' = head
      BY <2>3 DEF ZlibReset, NextMember
    <3>2. QED BY <1>1, <1>3, <2>1, <3>1 DEF Types, Dict
  <2>4. QED BY <2>2, <2>3
<1>6. FileWritten' /\ AtBound'
  <2>1. CASE /\ closed /\ werr = "nil" /\ file' = file /\ texts' = texts
             /\ sound' = (sound /\ Forgets)
    <3>1. FileWritten /\ AtBound
      BY <1>1, <2>1 DEF WriteInv, MemberWritten
    <3>2. sound' => sound
      <4>1. sound' = (sound /\ Forgets)
        BY <2>1
      <4>2. QED BY ONLY <4>1, Zenon
    <3>3. PICK z, q, f, d, o, t :
            /\ z = sound /\ q = sound' /\ f = format /\ d = Dict /\ o = file /\ t = texts
      OBVIOUS
    <3>4. Layout(q, f, d, o, t)
      <4>1. Layout(z, f, d, o, t) /\ (q => z)
        BY <3>1, <3>2, <3>3 DEF FileWritten
      <4>2. QED BY ONLY <4>1, LayoutWeaker
    <3>5. QED BY <1>1, <1>5, <2>1, <3>1, <3>3, <3>4 DEF FileWritten, AtBound
  <2>2. CASE file' = <<>> /\ texts' = <<>>
    <3>1. PICK o : o = file'
      OBVIOUS
    <3>2. PICK z, f, d, t : z = sound' /\ f = format' /\ d = Dict' /\ t = texts'
      OBVIOUS
    <3>3. IsFile(o) /\ Layout(z, f, d, o, t) /\ Len(o) \in Bounds(f, o) /\ Crcs(o, Len(o)) = 0
      BY <2>2, <3>1, EmptyFile
    <3>4. Len(t) = 0
      BY <2>2, <3>2, EmptySeq
    <3>5. FileWritten'
      BY <3>1, <3>2, <3>3 DEF FileWritten
    <3>6. AtBound'
      BY <3>1, <3>2, <3>3, <3>4 DEF AtBound
    <3>7. QED BY <3>5, <3>6
  <2>3. QED BY <1>2, <2>1, <2>2
<1>7. from' = used' /\ used' \in Nat
  BY <1>1 DEF WriteInv
<1>8. wsum' = Zero /\ wroteHeader' = FALSE /\ closed' = FALSE
  BY <1>1 DEF Fresh
<1>9. MemberWritten'
  <2>1. /\ Zero.crc = Interval(from', used') /\ Zero.size = (used' - from') % SizeMod
        /\ <<>> \in Seq(Bytes)
    <3>1. PICK a, b : a \in Nat /\ a = used' /\ b = used' /\ b = a /\ from' = a
      BY <1>7
    <3>2. Zero.crc = Interval(a, b) /\ Zero.size = (b - a) % SizeMod /\ <<>> \in Seq(Bytes)
      BY <3>1, NoData
    <3>3. QED BY <3>1, <3>2
  <2>2. QED BY <1>6, <1>7, <1>8, <1>3, <2>1 DEF MemberWritten
<1>10. from' <= used' /\ from' \in Nat
  BY <1>7
<1>11. QED BY <1>5, <1>6, <1>7, <1>8, <1>9, <1>10, <1>4 DEF WriteInv

\* A header that is refused leaves a part of it.
LEMMA RefuseKeeps ==
  ASSUME Types, WriteInv, RefuseHeader
  PROVE  Types' /\ WriteInv'
<1>1. /\ format = "gzip" /\ stage = "write" /\ werr = "nil" /\ ~wroteHeader /\ Refused(head)
      /\ wroteHeader' = TRUE /\ closed' \in BOOLEAN /\ werr' # "nil"
      /\ format' = format /\ stage' = stage /\ from' = from /\ used' = used
      /\ texts' = texts /\ head' = head /\ sound' = sound /\ pend' = pend
  BY DEF RefuseHeader, clientVars
<1>2. FileWritten /\ MemberWritten /\ AtBound
  BY <1>1 DEF WriteInv, MemberWritten
<1>3. Types' /\ Dict' = Dict
  BY <1>1 DEF Types, Dict
<1>4. PICK h, hs, g : h = head /\ hs = FullHead(h) /\ g = HeadUnits(h)
  OBVIOUS
<1>5. PICK c \in 1..(Len(hs) - 1) : IsFront(hs, c, g)
  <2>1. Refused(h)
    BY <1>1, <1>4
  <2>2. QED BY <1>4, <2>1, HeadUnitsAre
<1>6. PICK d : d = Dict
  OBVIOUS
<1>7. hs \in Heads(format, d)
  BY <1>1, <1>4 DEF Types, Heads
<1>8. GoodHead(format, d, hs)
  BY <1>7, GoodHeads DEF Types
<1>9. IsFile(hs) /\ IsFile(file) /\ IsSeq(hs) /\ IsSeq(file)
  BY <1>2, <1>8 DEF GoodHead, FileWritten, IsFile
<1>10. PICK n \in Nat, l \in Nat : n = Len(hs) /\ l = Len(file)
  BY <1>9, SeqFacts
<1>11. PICK w : w = file \o hs
  OBVIOUS
<1>12. IsFile(w) /\ Len(w) = l + n /\ IsFront(w, l, file)
  BY <1>9, <1>10, <1>11, UnitsBehind
<1>13. PICK x : x = <<>>
  OBVIOUS
<1>14. x \in Seq(Bytes) /\ Len(x) = 0
  BY <1>13, EmptySeq
<1>15. Data(x) = x /\ Spells(sound, d, x, x)
  <2>1. PICK v : v = DataOf(x, d)
    OBVIOUS
  <2>2. IsBody(v) /\ Len(v) = Len(x)
    BY <1>14, <2>1, DataOfIs
  <2>3. v = x
    BY <1>13, <1>14, <2>2, Empty DEF IsBody, IsFile
  <2>4. Data(x) = v
    BY <1>6, <2>1 DEF Data, DataOf, DataUnit
  <2>5. QED BY <2>1, <2>2, <2>3, <2>4 DEF Spells
<1>16. Shape(format, w, l, hs, x, x)
  <2>1. Open(w, l, hs, x)
    BY <1>9, <1>10, <1>11, <1>13, HeadOpens
  <2>2. QED BY <2>1, OpenShape
<1>17. IsSeq(g) /\ Len(g) = c /\ \A i \in 1..c : g[i] = hs[i]
  BY <1>5 DEF IsFront
<1>18. PICK a \in 0..c : file' = file \o SubSeq(g, 1, a)
  <2>1. g = HeadUnits(head)
    BY <1>4
  <2>2. CASE file' = file \o HeadUnits(head)
    <3>1. SubSeq(g, 1, c) = g
      <4>1. PICK S : g \in Seq(S)
        BY <1>17 DEF IsSeq
      <4>2. QED BY <1>17, <4>1, SubSeqFull
    <3>2. file' = file \o SubSeq(g, 1, c)
      BY <2>1, <2>2, <3>1
    <3>3. c \in 0..c
      OBVIOUS
    <3>4. QED BY <3>2, <3>3
  <2>3. CASE Sends(g, x, x) /\ werr' = "Header"
    <3>1. (g \o Data(x)) \o x = g
      BY <1>13, <1>17, <1>15, WithEmpty
    <3>2. PICK a \in 0..(Len(g) - 1) : file' = file \o SubSeq(g, 1, a)
      BY <2>3, <3>1 DEF Sends
    <3>3. a \in 0..c
      BY <1>17, <3>2
    <3>4. QED BY <3>2, <3>3
  <2>4. QED BY <1>13, <2>1, <2>2, <2>3 DEF RefuseHeader
<1>19. SubSeq(g, 1, a) = SubSeq(hs, 1, a)
  <2>1. PICK s, t : s = SubSeq(g, 1, a) /\ t = SubSeq(hs, 1, a)
    OBVIOUS
  <2>2. a \in 0..Len(g) /\ a \in 0..Len(hs)
    BY <1>10, <1>17
  <2>3. IsFront(g, a, s) /\ IsFront(hs, a, t)
    BY <1>9, <1>17, <2>1, <2>2, Fronts
  <2>4. IsSeq(s) /\ IsSeq(t) /\ Len(s) = a /\ Len(t) = a
        /\ (\A i \in 1..a : s[i] = g[i]) /\ (\A i \in 1..a : t[i] = hs[i])
    BY <2>3 DEF IsFront
  <2>5. \A i \in 1..a : s[i] = t[i]
    <3>1. TAKE i \in 1..a
    <3>2. i \in 1..c
      BY <1>10
    <3>3. QED BY <1>17, <2>4, <3>2
  <2>6. QED BY <2>1, <2>4, <2>5, SameSeq
<1>20. PICK m \in Nat : m = l + a /\ l <= m /\ m < l + n
  BY <1>10
<1>21. PICK o : o = file'
  OBVIOUS
<1>22. IsFront(w, m, o)
  <2>1. o = file \o SubSeq(hs, 1, a)
    BY <1>18, <1>19, <1>21
  <2>2. a \in 0..Len(hs)
    BY <1>10
  <2>3. IsFront(file \o hs, Len(file) + a, o)
    BY <1>9, <2>1, <2>2, CutBehind
  <2>4. QED BY <1>10, <1>11, <1>20, <2>3
<1>23. PICK e \in Nat : e = EndOf(format, l, Len(hs), Len(x)) /\ l + n < e
  BY <1>10, <1>14 DEF EndOf, Trail
<1>24. IsTaken(sound, format, d, o, texts)
  <2>1. format \in {"gzip", "zlib"} /\ IsTaken(sound, format, d, file, texts)
    BY <1>2, <1>6 DEF Types, FileWritten, IsTaken
  <2>2. Crcs(file, l) = Len(texts) /\ l \in Bounds(format, file)
    BY <1>2, <1>10 DEF AtBound
  <2>3. Len(w) <= EndOf(format, l, Len(hs), Len(x))
    BY <1>12, <1>23
  <2>4. IsFront(w, Len(file), file) /\ Len(file) <= m
    BY <1>10, <1>12, <1>20
  <2>5. m # EndOf(format, l, Len(hs), Len(x))
    BY <1>20, <1>23
  <2>6. Takes(sound, format, d, file, texts, l, hs, x, x, w, m, o, texts)
    BY <1>7, <1>12, <1>14, <1>16, <1>22, <1>15, <2>1, <2>2, <2>3, <2>4, <2>5 DEF Takes
  <2>7. QED BY ONLY <2>6, Taken
<1>25. FileWritten'
  <2>1. Layout(sound, format, d, o, texts) /\ IsFile(o)
    BY <1>24 DEF IsTaken
  <2>2. QED BY <1>1, <1>3, <1>6, <1>21, <2>1 DEF FileWritten
<1>26. from' \in Nat /\ used' \in Nat /\ from' <= used' /\ pend' \in Seq(Bytes)
  BY <1>1 DEF WriteInv
<1>27. QED BY <1>1, <1>3, <1>25, <1>26 DEF WriteInv

-----------------------------------------------------------------------------
(***************************************************************************)
(* The file, while it is written and behind it.                            *)
(***************************************************************************)
\* The reader while the file is written.
Idle ==
  /\ ~intact /\ rerr = "nil" /\ multistream = FALSE /\ dec = NoDecompressor /\ pos = 0
  /\ nested = FALSE /\ stale = <<>> /\ filled = FALSE /\ clean = TRUE
  /\ busy = -1 /\ first = 0 /\ out = <<>>
  /\ ret = [n |-> 0, put |-> 0, err |-> "nil"]

\* The file that the reader gets.
ReadFile ==
  /\ IsSeq(file) /\ AllTexted(file) /\ Known(sound, format, file, texts)
  /\ intact => /\ sound /\ Layout(sound, format, Dict, file, texts)
               /\ Len(file) \in Bounds(format, file)

FileInv ==
  /\ Types /\ WriteInv
  /\ stage = "write" => Idle
  /\ stage = "read" => ReadFile

\* FileInv is inductive.
LEMMA FileInit ==
  ASSUME Init
  PROVE  FileInv
<1>1. /\ format \in {"gzip", "zlib"} /\ stage = "write" /\ file = <<>>
      /\ from = 0 /\ used = 0 /\ texts = <<>>
      /\ wroteHeader = FALSE /\ closed = FALSE /\ wsum = Zero /\ pend = <<>>
      /\ sound = TRUE
  BY DEF Init
<1>2. Types
  <2>1. texts \in Seq(Seq(Bytes))
    BY <1>1, EmptySeq
  <2>2. format = "gzip" => head \in Headers
    BY DEF Init
  <2>3. QED BY <1>1, <2>1, <2>2 DEF Types
<1>3. IsFile(file) /\ Layout(sound, format, Dict, file, texts) /\ Len(file) \in Bounds(format, file)
      /\ Crcs(file, Len(file)) = 0
  BY <1>1, EmptyFile
<1>4. FileWritten /\ AtBound
  <2>1. Len(texts) = 0
    BY <1>1, EmptySeq
  <2>2. QED BY <1>3, <2>1 DEF FileWritten, AtBound
<1>5. MemberWritten
  <2>1. /\ Zero.crc = Interval(from, used) /\ Zero.size = (used - from) % SizeMod
        /\ <<>> \in Seq(Bytes)
    BY <1>1, NoData
  <2>2. QED BY <1>1, <1>4, <2>1 DEF MemberWritten
<1>6. WriteInv
  <2>1. from \in Nat /\ used \in Nat /\ from <= used /\ wroteHeader \in BOOLEAN
        /\ closed \in BOOLEAN
    <3>1. from \in Nat /\ used \in Nat /\ from <= used
      BY <1>1
    <3>2. wroteHeader \in BOOLEAN /\ closed \in BOOLEAN
      BY <1>1, Zenon
    <3>3. QED BY <3>1, <3>2
  <2>2. pend \in Seq(Bytes)
    BY <1>1, EmptySeq
  <2>3. QED BY <1>4, <1>5, <2>1, <2>2 DEF WriteInv
<1>7. Idle
  BY DEF Init, Idle
<1>8. QED BY <1>1, <1>2, <1>6, <1>7 DEF FileInv

LEMMA TransmitKeeps ==
  ASSUME FileInv, Transmit
  PROVE  FileInv'
<1>1. /\ stage = "write" /\ stage' = "read" /\ format' = format /\ texts' = texts
      /\ head' = head /\ sound' = sound
  BY DEF Transmit
<1>2. Types' /\ Dict' = Dict
  BY <1>1 DEF FileInv, Types, Dict
<1>3. PICK z, f, d, o, t : z = sound /\ f = format /\ d = Dict /\ o = file /\ t = texts
  OBVIOUS
<1>4. f \in {"gzip", "zlib"} /\ IsFile(o) /\ IsSeq(o) /\ Layout(z, f, d, o, t) /\ Known(z, f, o, t)
  <2>1. f \in {"gzip", "zlib"} /\ IsFile(o) /\ IsSeq(o) /\ Layout(z, f, d, o, t)
    BY <1>1, <1>3 DEF FileInv, Types, WriteInv, FileWritten, IsFile
  <2>2. Known(z, f, o, t)
    BY ONLY <2>1, LayoutKnown
  <2>3. QED BY <2>1, <2>2
<1>5. PICK g : g = file'
  OBVIOUS
<1>6. ASSUME IsFile(g) PROVE AllTexted(g)
  BY <1>6 DEF IsFile, Proper, AllTexted
<1>7. /\ IsSeq(g) /\ AllTexted(g) /\ Known(z, f, g, t)
      /\ intact' => z /\ Layout(z, f, d, g, t) /\ Len(g) \in Bounds(f, g)
  <2>1. CASE file' = file /\ intact' = (closed /\ werr = "nil" /\ sound)
    <3>1. g = o
      BY <1>3, <1>5, <2>1
    <3>2. ASSUME intact' PROVE sound /\ Len(o) \in Bounds(f, o)
      <4>1. MemberWritten /\ closed /\ sound /\ wroteHeader \in BOOLEAN
        BY <1>1, <2>1, <3>2 DEF FileInv, WriteInv
      <4>2. AtBound
        BY <4>1 DEF MemberWritten
      <4>3. QED BY <1>3, <4>1, <4>2 DEF AtBound
    <3>3. QED BY <1>3, <1>4, <1>6, <3>1, <3>2
  <2>2. CASE \E c \in 0..(Len(file) - 1) : file' = SubSeq(file, 1, c) /\ intact' = FALSE
    <3>1. PICK c \in 0..(Len(o) - 1) : g = SubSeq(o, 1, c) /\ intact' = FALSE
      BY <1>3, <1>5, <2>2
    <3>2. c \in 0..Len(o)
      BY <1>4, SeqFacts
    <3>3. IsFront(o, c, g)
      BY <1>4, <3>1, <3>2, Fronts
    <3>4. Layout(z, f, d, g, t)
      BY <1>4, <3>3, LayoutFront
    <3>5. IsSeq(g) /\ IsFile(g)
      BY <1>4, <3>3, FrontFacts
    <3>6. Known(z, f, g, t)
      BY <1>4, <3>4, <3>5, LayoutKnown
    <3>7. QED BY <1>6, <3>1, <3>5, <3>6
  <2>3. CASE \E i \in DOMAIN file : file' = [file EXCEPT ![i] = Changed(@)] /\ intact' = FALSE
    <3>1. PICK i \in DOMAIN o : g = [o EXCEPT ![i] = Changed(@)] /\ intact' = FALSE
      BY <1>3, <1>5, <2>3
    <3>2. i \in 1..Len(o)
      BY <1>4, SeqFacts
    <3>3. Known(z, f, g, t) /\ IsSeq(g) /\ AllTexted(g)
      BY <1>4, <3>1, <3>2, ChangedKnown
    <3>4. QED BY <3>1, <3>3
  <2>4. QED BY <2>1, <2>2, <2>3 DEF Transmit, Damaged
<1>8. ReadFile'
  <2>1. intact' => /\ sound' /\ Layout(sound', format', Dict', file', texts')
                   /\ Len(file') \in Bounds(format', file')
    BY <1>1, <1>2, <1>3, <1>5, <1>7
  <2>2. IsSeq(file') /\ AllTexted(file') /\ Known(sound', format', file', texts')
    BY <1>1, <1>3, <1>5, <1>7
  <2>3. QED BY <2>1, <2>2 DEF ReadFile
<1>9. QED BY <1>1, <1>2, <1>8 DEF FileInv, WriteInv

\* The steps of the writers, and those of the readers.
Writes ==
  \/ \E n \in WriteSizes : Write(n) \/ ZlibWrite(n)
  \/ Flush \/ ZlibFlush \/ Close \/ ZlibClose \/ RefuseHeader \/ GzipReset \/ ZlibReset
Reads ==
  \/ \E n \in ReadSizes : CallRead(n)
  \/ ReadStale \/ ReadData \/ GzipRead \/ ZlibTrailer
  \/ ResetGzipReader \/ (\E d \in Dicts : ResetZlibReader(d))
  \/ (\E ok \in BOOLEAN : Multistream(ok)) \/ ZlibCloseReader

LEMMA Steps ==
  ASSUME Next
  PROVE  Transmit \/ Writes \/ Reads
BY DEF Next, GzipNext, ZlibNext, Writes, Reads

LEMMA WritesKeep ==
  ASSUME FileInv, Writes
  PROVE  FileInv'
<1>1. Types /\ WriteInv
  BY DEF FileInv
<1>2. Types' /\ WriteInv'
  <2>1. CASE \E n \in WriteSizes : Write(n) \/ ZlibWrite(n)
    BY <1>1, <2>1, WriteKeeps
  <2>2. CASE Flush \/ ZlibFlush
    BY <1>1, <2>2, FlushKeeps
  <2>3. CASE Close \/ ZlibClose
    BY <1>1, <2>3, CloseKeeps
  <2>4. CASE RefuseHeader
    BY <1>1, <2>4, RefuseKeeps
  <2>5. CASE GzipReset \/ ZlibReset
    BY <1>1, <2>5, NextMemberKeeps
  <2>6. QED BY <2>1, <2>2, <2>3, <2>4, <2>5 DEF Writes
<1>3. stage = "write" /\ stage' = "write" /\ UNCHANGED <<intact, readerVars>>
  <2>1. CASE \E n \in WriteSizes : Write(n) \/ ZlibWrite(n)
    BY <2>1 DEF Write, ZlibWrite, GzipCall, ZlibCall, Call
  <2>2. CASE Flush \/ ZlibFlush \/ Close \/ ZlibClose
    BY <2>2 DEF Flush, ZlibFlush, Close, ZlibClose, GzipCall, ZlibCall, Call
  <2>3. CASE RefuseHeader
    BY <2>3 DEF RefuseHeader, clientVars
  <2>4. CASE GzipReset \/ ZlibReset
    BY <2>4 DEF GzipReset, ZlibReset, NextMember
  <2>5. QED BY <2>1, <2>2, <2>3, <2>4 DEF Writes
<1>4. Idle'
  BY <1>3 DEF FileInv, Idle, readerVars
<1>5. QED BY <1>2, <1>3, <1>4 DEF FileInv

LEMMA ReadsLeave ==
  ASSUME FileInv, Reads
  PROVE  stage = "read" /\ UNCHANGED <<file, stage, format, texts, sound, intact, head>>
<1>1. Types /\ (stage = "write" => Idle)
  BY DEF FileInv
<1>2. stage \in {"write", "read"}
  BY <1>1 DEF Types
<1>3. Idle => busy = -1 /\ dec.kind = "nil"
  BY DEF Idle, NoDecompressor
<1>4. CASE \E n \in ReadSizes : CallRead(n)
  BY <1>4 DEF CallRead, clientVars, writerVars
<1>5. CASE ReadData
  BY <1>1, <1>2, <1>3, <1>5 DEF ReadData, Returns, clientVars, writerVars
<1>6. CASE GzipRead
  <2>1. busy # -1
    BY <1>6 DEF GzipRead
  <2>2. UNCHANGED <<file, stage, format, texts, sound, intact, head>>
    BY <1>6 DEF GzipRead, TrailerShort, TrailerWrong, LastMember, NextHeader, Returns,
                clientVars, writerVars
  <2>3. QED BY <1>1, <1>2, <1>3, <2>1, <2>2
<1>7. CASE ZlibTrailer
  BY <1>1, <1>2, <1>3, <1>7 DEF ZlibTrailer, Returns, clientVars, writerVars
<1>8. CASE ResetGzipReader
  BY <1>8 DEF ResetGzipReader, ResetReader, clientVars, writerVars
<1>9. CASE \E d \in Dicts : ResetZlibReader(d)
  BY <1>9 DEF ResetZlibReader, ResetReader, clientVars, writerVars
<1>10. CASE \E ok \in BOOLEAN : Multistream(ok)
  BY <1>10 DEF Multistream, clientVars, writerVars
<1>11. CASE ZlibCloseReader
  BY <1>11 DEF ZlibCloseReader, clientVars, writerVars
<1>12. CASE ReadStale
  BY <1>1, <1>2, <1>3, <1>12 DEF ReadStale, clientVars, writerVars
<1>13. QED BY <1>4, <1>5, <1>6, <1>7, <1>8, <1>9, <1>10, <1>11, <1>12 DEF Reads

LEMMA FileKept ==
  ASSUME FileInv, [Next]_vars
  PROVE  FileInv'
<1>1. CASE UNCHANGED vars
  <2>1. UNCHANGED <<format, stage, file, from, used, texts, intact, head, wsum, pend, werr,
                    wroteHeader, closed, sound, rerr, multistream, dec, pos, nested, stale,
                    filled, clean, busy, first, out, ret>>
    BY <1>1 DEF vars, writerVars, readerVars, clientVars
  <2>2. Types' /\ Dict' = Dict
    BY <2>1 DEF FileInv, Types, Dict
  <2>3. WriteInv'
    BY <2>1, <2>2 DEF FileInv, WriteInv, FileWritten, MemberWritten, AtBound, Opening,
                          Holds
  <2>4. Idle' <=> Idle
    BY <2>1 DEF Idle
  <2>5. ReadFile' <=> ReadFile
    BY <2>1, <2>2 DEF ReadFile
  <2>6. QED BY <2>1, <2>2, <2>3, <2>4, <2>5 DEF FileInv
<1>2. CASE Transmit
  BY <1>2, TransmitKeeps
<1>3. CASE Writes
  BY <1>3, WritesKeep
<1>4. CASE Reads
  <2>1. stage = "read" /\ UNCHANGED <<file, stage, format, texts, sound, intact, head>>
    BY <1>4, ReadsLeave
  <2>2. Types' /\ Dict' = Dict
    BY <2>1 DEF FileInv, Types, Dict
  <2>3. WriteInv'
    BY <2>1 DEF WriteInv
  <2>4. ReadFile'
    BY <2>1, <2>2 DEF FileInv, ReadFile
  <2>5. QED BY <2>1, <2>2, <2>3, <2>4 DEF FileInv
<1>5. QED BY <1>1, <1>2, <1>3, <1>4, Steps

-----------------------------------------------------------------------------
(***************************************************************************)
(* Texts: of a part of the file, of several members, and what has arrived. *)
(***************************************************************************)
Text(g, a, b) == [k \in 1..(b - a) |-> g[a + k].v.text]

IsText(x, g, a, n) == IsSeq(x) /\ Len(x) = n /\ \A k \in 1..n : x[k] = g[a + k].v.text

LEMMA Texts ==
  ASSUME NEW g, NEW a \in Nat, NEW b \in Nat, a <= b, NEW n, n = b - a, NEW x, x = Text(g, a, b)
  PROVE  IsText(x, g, a, n)
<1>1. n \in Nat /\ x = [k \in 1..n |-> g[a + k].v.text]
  BY DEF Text
<1>2. x = [k \in 1..n |-> x[k]] /\ \A k \in 1..n : x[k] = g[a + k].v.text
  BY <1>1
<1>3. IsSeq(x) /\ Len(x) = n
  BY <1>1, <1>2, FromFunction
<1>4. QED BY <1>2, <1>3 DEF IsText

\* The text of two neighbouring parts of the file.
LEMMA TextsMeet ==
  ASSUME NEW g, NEW a \in Nat, NEW b \in Nat, NEW c \in Nat, a <= b, b <= c,
         NEW s, s = Text(g, a, b), NEW t, t = Text(g, b, c), NEW u, u = Text(g, a, c)
  PROVE  Meet(a, b, c, s, t, u)
<1>1. PICK n \in Nat, m \in Nat, l \in Nat : n = c - b /\ m = b - a /\ l = c - a /\ l = m + n
  OBVIOUS
<1>2. a <= c
  OBVIOUS
<1>3. IsText(s, g, a, m) /\ IsText(t, g, b, n) /\ IsText(u, g, a, l)
  BY <1>1, <1>2, Texts
<1>4. /\ IsSeq(s) /\ Len(s) = m /\ \A k \in 1..m : s[k] = g[a + k].v.text
      /\ IsSeq(t) /\ Len(t) = n /\ \A k \in 1..n : t[k] = g[b + k].v.text
      /\ IsSeq(u) /\ Len(u) = l /\ \A k \in 1..l : u[k] = g[a + k].v.text
  BY <1>3 DEF IsText
<1>5. PICK v : v = s \o t
  OBVIOUS
<1>6. /\ IsSeq(v) /\ Len(v) = l /\ \A i \in 1..m : v[i] = s[i]
      /\ \A i \in 1..n : v[m + i] = t[i]
  <2>1. IsSeq(s) /\ IsSeq(t)
    BY <1>4
  <2>2. /\ IsSeq(v) /\ Len(v) = Len(s) + Len(t)
        /\ \A i \in 1..Len(s) : v[i] = s[i]
        /\ \A i \in 1..Len(t) : v[Len(s) + i] = t[i]
    BY ONLY <1>5, <2>1, Catenated
  <2>3. QED BY <1>1, <1>4, <2>2
<1>7. ASSUME NEW k \in 1..l PROVE v[k] = u[k]
  <2>1. CASE k \in 1..m
    BY <1>4, <1>6, <2>1
  <2>2. CASE k \notin 1..m
    <3>1. PICK i \in 1..n : k = m + i
      <4>1. k - m \in 1..n /\ k = m + (k - m)
        BY <1>1, <2>2
      <4>2. QED BY <4>1
    <3>2. v[k] = g[b + i].v.text
      BY <1>4, <1>6, <3>1
    <3>3. a + k = b + i
      BY <1>1, <3>1
    <3>4. u[k] = g[a + k].v.text
      BY <1>4
    <3>5. QED BY <3>2, <3>3, <3>4
  <2>3. QED BY <2>1, <2>2
<1>8. v = u
  BY <1>4, <1>6, <1>7, SameSeq
<1>9. QED BY <1>5, <1>8 DEF Meet

\* Two recursive functions that do the same are the same.
Agree(n, f, h) == \A i \in 0..n : f[i] = h[i]

LEMMA Unique ==
  ASSUME NEW n \in Nat, NEW f, NEW h, f[0] = h[0],
         \A i \in 1..n : f[i - 1] = h[i - 1] => f[i] = h[i]
  PROVE  Agree(n, f, h)
<1> DEFINE S == {i \in Nat : i <= n => f[i] = h[i]}
<1>1. 0 \in S
  OBVIOUS
<1>2. ASSUME NEW i \in S PROVE i + 1 \in S
  <2>1. SUFFICES ASSUME i + 1 <= n PROVE f[i + 1] = h[i + 1]
    BY <1>2
  <2>2. i + 1 \in 1..n /\ (i + 1) - 1 = i /\ f[i] = h[i]
    BY <1>2, <2>1
  <2>3. QED BY <2>2
<1>3. S = Nat
  <2> HIDE DEF S
  <2>1. S \in SUBSET Nat
    BY DEF S
  <2>2. QED BY <1>1, <1>2, <2>1, InductiveSet
<1>4. QED BY <1>3 DEF Agree

\* The sequences of s, one behind the other.
Flattened(s, f) ==
  /\ f \in [0..Len(s) -> Seq(Bytes)] /\ f[0] = <<>>
  /\ \A i \in 1..Len(s) : f[i] = f[i - 1] \o s[i]
  /\ FlattenSeq(s) = f[Len(s)]

\* FlattenSeq of one sequence more.
LEMMA Flattens ==
  ASSUME NEW s \in Seq(Seq(Bytes))
  PROVE  \E f : Flattened(s, f)
<1>1. PICK n \in Nat : n = Len(s)
  OBVIOUS
<1>2. PICK X : X = Seq(Bytes)
  OBVIOUS
<1>3. \A i \in 1..n : s[i] \in X
  BY <1>1, <1>2
<1>4. PICK g : g = [i \in 1..n |-> [u \in X |-> u \o s[i]]]
  OBVIOUS
<1>5. g \in [1..n -> [X -> X]]
  <2>1. ASSUME NEW i \in 1..n, NEW u \in X PROVE u \o s[i] \in X
    <3>1. s[i] \in Seq(Bytes) /\ u \in Seq(Bytes)
      BY <1>2, <1>3, <2>1
    <3>2. QED BY <1>2, <3>1
  <2>2. QED BY <1>4, <2>1
<1>6. Recurses(n, X, <<>>, g)
  <2>1. <<>> \in X
    BY <1>2, EmptySeq
  <2>2. QED BY <1>5, <2>1, Recursion, Zenon
<1>7. PICK f \in [0..n -> X] : f[0] = <<>> /\ \A i \in 1..n : f[i] = g[i][f[i - 1]]
  BY <1>6 DEF Recurses
<1>8. ASSUME NEW i \in 1..n PROVE f[i] = f[i - 1] \o s[i]
  <2>1. i - 1 \in 0..n
    OBVIOUS
  <2>2. f[i - 1] \in X /\ f[i] = g[i][f[i - 1]]
    BY <1>7, <2>1
  <2>3. QED BY <1>4, <2>2
<1>9. FlattenSeq(s) = f[n]
  <2>1. CASE n = 0
    <3>1. FlattenSeq(s) = s
      BY <1>1, <2>1 DEF FlattenSeq
    <3>2. s = <<>>
      BY <1>1, <2>1, EmptySeq
    <3>3. QED BY <1>7, <2>1, <3>1, <3>2
  <2>2. CASE n # 0
    <3> DEFINE Step(h) == [i \in 1..n |-> IF i = 1 THEN s[i] ELSE h[i - 1] \o s[i]]
    <3>1. PICK h : h = [i \in 1..n |-> f[i]]
      OBVIOUS
    <3>2. h = Step(h)
      <4>1. ASSUME NEW i \in 1..n
            PROVE  f[i] = IF i = 1 THEN s[i] ELSE h[i - 1] \o s[i]
        <5>1. CASE i = 1
          <6>1. i - 1 = 0
            BY <5>1
          <6>2. f[i] = f[i - 1] \o s[i]
            BY <1>8
          <6>3. f[i] = <<>> \o s[i]
            BY <1>7, <6>1, <6>2
          <6>4. s[i] \in Seq(Bytes)
            BY <1>2, <1>3
          <6>5. <<>> \o s[i] = s[i]
            BY <6>4, ConcatEmptySeq
          <6>6. QED BY <5>1, <6>3, <6>5
        <5>2. CASE i # 1
          <6>1. i - 1 \in 1..n
            BY <5>2
          <6>2. h[i - 1] = f[i - 1]
            BY <3>1, <6>1
          <6>3. f[i] = f[i - 1] \o s[i]
            BY <1>8
          <6>4. QED BY <5>2, <6>2, <6>3
        <5>3. QED BY <5>1, <5>2
      <4>2. [i \in 1..n |-> f[i]] = Step(h)
        BY <4>1
      <4>3. QED BY <3>1, <4>2
    <3> DEFINE e == CHOOSE x : x = Step(x)
    <3>3. e = Step(e) /\ FlattenSeq(s) = e[n]
      BY <1>1, <2>2, <3>2 DEF FlattenSeq
    <3> HIDE DEF e
    <3>4. PICK k : k = [i \in 0..n |-> IF i = 0 THEN <<>> ELSE e[i]]
      OBVIOUS
    <3>5. k[0] = f[0]
      BY <1>7, <3>4
    <3>6. ASSUME NEW i \in 1..n, k[i - 1] = f[i - 1] PROVE k[i] = f[i]
      <4>1. k[i] = e[i]
        BY <3>4
      <4>2. e[i] = IF i = 1 THEN s[i] ELSE e[i - 1] \o s[i]
        BY <3>3
      <4>3. CASE i = 1
        <5>1. i - 1 = 0
          BY <4>3
        <5>2. f[i] = f[i - 1] \o s[i]
          BY <1>8
        <5>3. f[i] = <<>> \o s[i]
          BY <1>7, <5>1, <5>2
        <5>4. s[i] \in Seq(Bytes)
          BY <1>2, <1>3
        <5>5. <<>> \o s[i] = s[i]
          BY <5>4, ConcatEmptySeq
        <5>6. QED BY <4>1, <4>2, <4>3, <5>3, <5>5
      <4>4. CASE i # 1
        <5>1. i - 1 \in 0..n /\ i - 1 # 0
          BY <4>4
        <5>2. e[i - 1] = k[i - 1]
          BY <3>4, <5>1
        <5>3. f[i] = f[i - 1] \o s[i]
          BY <1>8
        <5>4. QED BY <3>6, <4>1, <4>2, <4>4, <5>2, <5>3
      <4>5. QED BY <4>3, <4>4
    <3> HIDE DEF Step
    <3>7. Agree(n, k, f)
      BY <3>5, <3>6, Unique
    <3>8. k[n] = f[n] /\ k[n] = e[n]
      <4>1. n \in 0..n
        OBVIOUS
      <4>2. QED BY <2>2, <3>4, <3>7, <4>1 DEF Agree
    <3>9. QED BY <3>3, <3>8
  <2>3. QED BY <2>1, <2>2
<1>10. QED BY <1>1, <1>2, <1>7, <1>8, <1>9 DEF Flattened

LEMMA FlattenMore ==
  ASSUME NEW s \in Seq(Seq(Bytes)), NEW x \in Seq(Bytes), NEW t, t = Append(s, x)
  PROVE  FlattenSeq(s) \in Seq(Bytes) /\ FlattenSeq(t) = FlattenSeq(s) \o x
<1>1. PICK n \in Nat : n = Len(s)
  OBVIOUS
<1>2. t \in Seq(Seq(Bytes)) /\ Len(t) = n + 1 /\ t[n + 1] = x /\ \A i \in 1..n : t[i] = s[i]
  BY <1>1, AppendProperties
<1>3. PICK f : Flattened(s, f)
  BY Flattens
<1>4. PICK h : Flattened(t, h)
  BY <1>2, Flattens
<1>5. f \in [0..n -> Seq(Bytes)] /\ f[0] = <<>> /\ (\A i \in 1..n : f[i] = f[i - 1] \o s[i])
      /\ FlattenSeq(s) = f[n]
  BY <1>1, <1>3 DEF Flattened
<1>6. h[0] = <<>> /\ (\A i \in 1..(n + 1) : h[i] = h[i - 1] \o t[i]) /\ FlattenSeq(t) = h[n + 1]
  BY <1>2, <1>4 DEF Flattened
<1>7. ASSUME NEW i \in 1..n, f[i - 1] = h[i - 1] PROVE f[i] = h[i]
  <2>1. i \in 1..(n + 1)
    OBVIOUS
  <2>2. QED BY <1>2, <1>5, <1>6, <1>7, <2>1
<1>8. Agree(n, f, h)
  BY <1>5, <1>6, <1>7, Unique
<1>9. f[n] = h[n] /\ f[n] \in Seq(Bytes)
  <2>1. n \in 0..n
    OBVIOUS
  <2>2. QED BY <1>5, <1>8, <2>1 DEF Agree
<1>10. h[n + 1] = h[n] \o t[n + 1]
  <2>1. n + 1 \in 1..(n + 1) /\ (n + 1) - 1 = n
    OBVIOUS
  <2>2. QED BY <1>6, <2>1
<1>11. QED BY <1>2, <1>5, <1>6, <1>9, <1>10

\* The elements of s from a + 1 to b.
IsPart(s, a, n, r) == Len(r) = n /\ \A i \in 1..n : r[i] = s[a + i]

LEMMA Parts ==
  ASSUME NEW S, NEW s \in Seq(S), NEW a \in Nat, NEW b \in Nat, a <= b, b <= Len(s),
         NEW n, n = b - a, NEW r, r = SubSeq(s, a + 1, b)
  PROVE  r \in Seq(S) /\ IsPart(s, a, n, r)
<1>1. n \in Nat
  OBVIOUS
<1>2. a + 1 \in 1..(Len(s) + 1) /\ b \in 0..Len(s) /\ Len(s) \in Nat
  OBVIOUS
<1>3. \A i \in (a + 1)..b : s[i] \in S
  <2>1. TAKE i \in (a + 1)..b
  <2>2. i \in 1..Len(s)
    OBVIOUS
  <2>3. QED BY <2>2, ElementOfSeq
<1>4. /\ r \in Seq(S) /\ Len(r) = IF a + 1 <= b THEN b - (a + 1) + 1 ELSE 0
      /\ \A i \in 1..(b - (a + 1) + 1) : r[i] = s[(a + 1) + i - 1]
  BY <1>2, <1>3, SubSeqProperties
<1>5. Len(r) = n
  BY <1>1, <1>4
<1>6. ASSUME NEW i \in 1..n PROVE r[i] = s[a + i]
  <2>1. i \in 1..(b - (a + 1) + 1) /\ (a + 1) + i - 1 = a + i
    BY <1>1
  <2>2. QED BY <1>4, <2>1
<1>7. QED BY <1>4, <1>5, <1>6 DEF IsPart

\* The text of the members from a on that end at p or before.
PassedIn(g, t, a, p) == FlattenSeq(SubSeq(t, Crcs(g, a) + 1, Crcs(g, p)))

LEMMA PassedNone ==
  ASSUME NEW g, NEW t \in Seq(Seq(Bytes)), NEW a \in Nat
  PROVE  PassedIn(g, t, a, a) = <<>>
<1>1. PICK n \in Nat : n = Crcs(g, a)
  BY CrcsFacts
<1>2. SubSeq(t, n + 1, n) = <<>>
  OBVIOUS
<1>3. FlattenSeq(<<>>) = <<>>
  BY EmptySeq DEF FlattenSeq
<1>4. QED BY <1>1, <1>2, <1>3 DEF PassedIn

PassedMore(g, t, a, p, q, x) == PassedIn(g, t, a, q) = PassedIn(g, t, a, p) \o x

\* One member more is passed.
LEMMA PassesMore ==
  ASSUME NEW g, NEW t \in Seq(Seq(Bytes)), NEW a \in Nat, NEW p \in Nat, NEW q \in Nat,
         a <= p, Crcs(g, q) = Crcs(g, p) + 1, Crcs(g, p) < Len(t), NEW x, x = t[Crcs(g, p) + 1]
  PROVE  PassedMore(g, t, a, p, q, x) /\ PassedIn(g, t, a, p) \in Seq(Bytes)
<1>1. PICK n \in Nat, m \in Nat, l \in Nat : n = Crcs(g, a) /\ m = Crcs(g, p) /\ l = Len(t)
                                            /\ n <= m /\ m < l
  <2>1. Crcs(g, a) \in Nat /\ Crcs(g, p) \in Nat
    BY CrcsFacts
  <2>2. Len(t) \in Nat
    OBVIOUS
  <2>3. Crcs(g, a) <= Crcs(g, p)
    BY CrcsGrow
  <2>4. QED BY <2>1, <2>3, <2>2
<1>2. PICK s, u : s = SubSeq(t, n + 1, m) /\ u = SubSeq(t, n + 1, m + 1)
  OBVIOUS
<1>3. PICK k \in Nat, m1 \in Nat : k = m - n /\ m1 = m + 1 /\ m <= l /\ n <= m1 /\ m1 <= l
                                  /\ k + 1 = m1 - n
  <2>1. PICK k \in Nat : k = m - n
    BY <1>1
  <2>2. PICK m1 \in Nat : m1 = m + 1
    OBVIOUS
  <2>3. m <= l /\ n <= m1 /\ m1 <= l /\ k + 1 = m1 - n
    <3>1. n <= m /\ m < l
      BY <1>1
    <3>2. QED BY <2>1, <2>2, <3>1
  <2>4. QED BY <2>1, <2>2, <2>3
<1>4. s \in Seq(Seq(Bytes)) /\ Len(s) = k /\ \A i \in 1..k : s[i] = t[n + i]
  <2>1. IsPart(t, n, k, s) /\ s \in Seq(Seq(Bytes))
    BY <1>1, <1>2, <1>3, Parts
  <2>2. QED BY <2>1 DEF IsPart
<1>5. u \in Seq(Seq(Bytes)) /\ Len(u) = k + 1 /\ \A i \in 1..(k + 1) : u[i] = t[n + i]
  <2>1. u = SubSeq(t, n + 1, m1)
    BY <1>2, <1>3
  <2>2. IsPart(t, n, k + 1, u) /\ u \in Seq(Seq(Bytes))
    BY <1>1, <1>3, <2>1, Parts
  <2>3. QED BY <2>2 DEF IsPart
<1>6. x \in Seq(Bytes) /\ x = t[m + 1]
  <2>1. m + 1 \in 1..l
    BY <1>1
  <2>2. QED BY <1>1, <2>1
<1>7. PICK w : w = Append(s, x)
  OBVIOUS
<1>8. w \in Seq(Seq(Bytes)) /\ Len(w) = k + 1 /\ w[k + 1] = x /\ \A i \in 1..k : w[i] = s[i]
  <2>1. s \in Seq(Seq(Bytes)) /\ x \in Seq(Bytes)
    BY <1>4, <1>6
  <2>2. /\ w \in Seq(Seq(Bytes)) /\ Len(w) = Len(s) + 1 /\ w[Len(s) + 1] = x
        /\ \A i \in 1..Len(s) : w[i] = s[i]
    BY <1>7, <2>1, AppendProperties
  <2>3. QED BY <1>4, <2>2
<1>9. ASSUME NEW i \in 1..(k + 1) PROVE w[i] = u[i]
  <2>1. CASE i \in 1..k
    BY <1>4, <1>5, <1>8, <1>9, <2>1
  <2>2. CASE i = k + 1
    <3>1. n + i = m + 1
      BY <1>1, <1>3, <2>2
    <3>2. QED BY <1>5, <1>6, <1>8, <1>9, <2>2, <3>1
  <2>3. i \in 1..k \/ i = k + 1
    OBVIOUS
  <2>4. QED BY <2>1, <2>2, <2>3
<1>10. w = u
  BY <1>5, <1>8, <1>9, SeqEqual
<1>11. FlattenSeq(s) \in Seq(Bytes) /\ FlattenSeq(w) = FlattenSeq(s) \o x
  BY <1>4, <1>6, <1>7, FlattenMore
<1>12. PassedIn(g, t, a, p) = FlattenSeq(s) /\ PassedIn(g, t, a, q) = FlattenSeq(u)
  BY <1>1, <1>2 DEF PassedIn
<1>13. QED BY <1>10, <1>11, <1>12 DEF PassedMore

\* The data of g from a on, up to each unit.
ArrivedUpTo(g, a, f) ==
  /\ f[0] = <<>>
  /\ \A i \in 1..Len(g) :
       f[i] = IF i <= a THEN <<>>
              ELSE IF g[i].k = "data" THEN Append(f[i - 1], g[i].v.text) ELSE f[i - 1]
  /\ \A i \in 0..Len(g) : IsSeq(f[i])

ArrivedIn(g, a, p) ==
  LET text[i \in 0..Len(g)] ==
        IF i <= a THEN <<>>
        ELSE IF g[i].k = "data" THEN Append(text[i - 1], g[i].v.text) ELSE text[i - 1]
  IN  text[p]

LEMMA Arrives ==
  ASSUME NEW g, Len(g) \in Nat, NEW a \in Nat
  PROVE  \E f : ArrivedUpTo(g, a, f) /\ \A p : ArrivedIn(g, a, p) = f[p]
<1>1. PICK n \in Nat : n = Len(g)
  OBVIOUS
<1>2. PICK T : T = {g[i].v.text : i \in 1..n}
  OBVIOUS
<1>3. PICK X : X = Seq(T)
  OBVIOUS
<1>4. PICK h : h = [i \in 1..n |-> [u \in X |->
                      IF i <= a THEN <<>>
                      ELSE IF g[i].k = "data" THEN Append(u, g[i].v.text) ELSE u]]
  OBVIOUS
<1>5. <<>> \in X
  BY <1>3, EmptySeq
<1>6. h \in [1..n -> [X -> X]]
  <2>1. ASSUME NEW i \in 1..n, NEW u \in X
        PROVE  (IF i <= a THEN <<>>
                ELSE IF g[i].k = "data" THEN Append(u, g[i].v.text) ELSE u) \in X
    <3>1. u \in Seq(T) /\ g[i].v.text \in T
      BY <1>2, <1>3, <2>1
    <3>2. Append(u, g[i].v.text) \in Seq(T)
      BY <3>1, AppendProperties
    <3>3. QED BY <1>3, <1>5, <2>1, <3>2
  <2>2. QED BY <1>4, <2>1
<1>7. Recurses(n, X, <<>>, h)
  BY <1>5, <1>6, Recursion, Zenon
<1>8. PICK f \in [0..n -> X] : f[0] = <<>> /\ \A i \in 1..n : f[i] = h[i][f[i - 1]]
  BY <1>7 DEF Recurses
<1>9. ASSUME NEW i \in 1..n
      PROVE  f[i] = IF i <= a THEN <<>>
                    ELSE IF g[i].k = "data" THEN Append(f[i - 1], g[i].v.text) ELSE f[i - 1]
  <2>1. i - 1 \in 0..n
    OBVIOUS
  <2>2. f[i - 1] \in X /\ f[i] = h[i][f[i - 1]]
    BY <1>8, <2>1
  <2>3. QED BY <1>4, <2>2
<1> DEFINE Step(e) == [i \in 0..n |->
                         IF i <= a THEN <<>>
                         ELSE IF g[i].k = "data" THEN Append(e[i - 1], g[i].v.text) ELSE e[i - 1]]
<1>10. f = Step(f)
  <2>1. ASSUME NEW i \in 0..n
        PROVE  f[i] = IF i <= a THEN <<>>
                      ELSE IF g[i].k = "data" THEN Append(f[i - 1], g[i].v.text) ELSE f[i - 1]
    <3>1. CASE i = 0
      BY <1>8, <3>1
    <3>2. CASE i \in 1..n
      BY <1>9, <3>2
    <3>3. QED BY <3>1, <3>2
  <2>2. f = [i \in 0..n |-> f[i]]
    BY <1>8
  <2>3. [i \in 0..n |-> f[i]] = Step(f)
    BY <2>1
  <2>4. QED BY <2>2, <2>3
<1> DEFINE e == CHOOSE x : x = Step(x)
<1>11. e = Step(e) /\ \A p : ArrivedIn(g, a, p) = e[p]
  BY <1>1, <1>10 DEF ArrivedIn
<1> HIDE DEF e
<1>12. \A i \in 0..n : e[i] = IF i <= a THEN <<>>
                              ELSE IF g[i].k = "data" THEN Append(e[i - 1], g[i].v.text)
                              ELSE e[i - 1]
  BY <1>11
<1> HIDE DEF Step
<1>13. e[0] = <<>>
  BY <1>12
<1>14. ASSUME NEW i \in 1..n, e[i - 1] = f[i - 1] PROVE e[i] = f[i]
  <2>1. i \in 0..n
    OBVIOUS
  <2>2. QED BY <1>9, <1>12, <1>14, <2>1
<1>15. Agree(n, e, f)
  BY <1>8, <1>13, <1>14, Unique
<1>16. \A i \in 0..n : IsSeq(e[i])
  <2>1. TAKE i \in 0..n
  <2>2. e[i] = f[i] /\ f[i] \in Seq(T)
    BY <1>3, <1>8, <1>15 DEF Agree
  <2>3. QED BY <2>2 DEF IsSeq
<1>17. ArrivedUpTo(g, a, e)
  <2>1. \A i \in 1..n : e[i] = IF i <= a THEN <<>>
                               ELSE IF g[i].k = "data" THEN Append(e[i - 1], g[i].v.text)
                               ELSE e[i - 1]
    BY <1>12
  <2>2. QED BY <1>1, <1>13, <1>16, <2>1 DEF ArrivedUpTo
<1>18. QED BY <1>11, <1>17

\* Nothing has arrived up to a.
LEMMA ArrivedNone ==
  ASSUME NEW g, Len(g) \in Nat, NEW a \in 0..Len(g)
  PROVE  ArrivedIn(g, a, a) = <<>>
<1>1. a \in Nat
  OBVIOUS
<1>2. PICK f : ArrivedUpTo(g, a, f) /\ \A p : ArrivedIn(g, a, p) = f[p]
  BY <1>1, Arrives
<1>3. f[a] = <<>>
  <2>1. a = 0 \/ a \in 1..Len(g)
    OBVIOUS
  <2>2. a <= a
    OBVIOUS
  <2>3. QED BY <1>2, <2>1, <2>2 DEF ArrivedUpTo
<1>4. QED BY <1>2, <1>3

\* Units from i + 1 to j that are not data; and data.
NoDataIn(g, i, j) == \A k \in (i + 1)..j : g[k].k # "data"
DataIn(g, i, j) == \A k \in (i + 1)..j : g[k].k = "data"

\* Nothing more arrives with units that are not data,
LEMMA ArrivedSame ==
  ASSUME NEW g, Len(g) \in Nat, NEW a \in Nat, NEW i \in Nat, NEW j \in Nat,
         i <= j, j <= Len(g), NoDataIn(g, i, j), a <= i
  PROVE  ArrivedIn(g, a, j) = ArrivedIn(g, a, i)
<1>1. PICK f : ArrivedUpTo(g, a, f) /\ \A p : ArrivedIn(g, a, p) = f[p]
  BY Arrives
<1> DEFINE S == {m \in Nat : i + m <= j => f[i + m] = f[i]}
<1>2. 0 \in S
  OBVIOUS
<1>3. ASSUME NEW m \in S PROVE m + 1 \in S
  <2>1. SUFFICES ASSUME i + (m + 1) <= j PROVE f[i + (m + 1)] = f[i]
    BY <1>3
  <2>2. PICK k \in 1..Len(g) : k = i + (m + 1) /\ k \in (i + 1)..j /\ ~(k <= a) /\ k - 1 = i + m
    BY <1>3, <2>1
  <2>3. f[k] = f[k - 1]
    <3>1. g[k].k # "data"
      BY <2>2 DEF NoDataIn
    <3>2. QED BY <1>1, <2>2, <3>1 DEF ArrivedUpTo
  <2>4. f[i + m] = f[i]
    BY <1>3, <2>1
  <2>5. QED BY <2>2, <2>3, <2>4
<1>4. S = Nat
  <2> HIDE DEF S
  <2>1. S \in SUBSET Nat
    BY DEF S
  <2>2. QED BY <1>2, <1>3, <2>1, InductiveSet
<1>5. PICK m \in Nat : i + m = j
  <2>1. j - i \in Nat /\ i + (j - i) = j
    OBVIOUS
  <2>2. QED BY <2>1
<1>6. f[j] = f[i]
  <2>1. m \in S
    BY <1>4
  <2>2. QED BY <1>5, <2>1
<1>7. QED BY <1>1, <1>6

ArrivesMore(g, a, i, j, x) == ArrivedIn(g, a, j) = ArrivedIn(g, a, i) \o x

\* but the text of those that are.
LEMMA ArrivedMore ==
  ASSUME NEW g, Len(g) \in Nat, NEW a \in Nat, NEW i \in Nat, NEW j \in Nat,
         i <= j, j <= Len(g), DataIn(g, i, j), a <= i, NEW x, x = Text(g, i, j)
  PROVE  ArrivesMore(g, a, i, j, x)
<1>1. PICK f : ArrivedUpTo(g, a, f) /\ \A p : ArrivedIn(g, a, p) = f[p]
  BY Arrives
<1> DEFINE S == {m \in Nat : i + m <= j => f[i + m] = f[i] \o Text(g, i, i + m)}
<1>2. 0 \in S
  <2>1. PICK y : y = Text(g, i, i + 0)
    OBVIOUS
  <2>2. y = <<>>
    <3>1. IsText(y, g, i, 0)
      <4>1. i + 0 \in Nat /\ i <= i + 0 /\ 0 = (i + 0) - i
        OBVIOUS
      <4>2. QED BY <2>1, <4>1, Texts
    <3>2. IsSeq(y) /\ Len(y) = 0
      BY <3>1 DEF IsText
    <3>3. QED BY <3>2, Empty
  <2>3. IsSeq(f[i])
    <3>1. i \in 0..Len(g)
      OBVIOUS
    <3>2. QED BY <1>1, <3>1 DEF ArrivedUpTo
  <2>4. f[i] \o <<>> = f[i]
    BY <2>3, WithEmpty
  <2>5. i + 0 = i
    OBVIOUS
  <2>6. f[i + 0] = f[i] \o Text(g, i, i + 0)
    BY <2>1, <2>2, <2>4, <2>5
  <2>7. QED BY <2>6
<1>3. ASSUME NEW m \in S PROVE m + 1 \in S
  <2>1. m \in Nat /\ (i + m <= j => f[i + m] = f[i] \o Text(g, i, i + m))
    BY <1>3
  <2> HIDE DEF S
  <2>2. SUFFICES ASSUME i + (m + 1) <= j
                 PROVE  f[i + (m + 1)] = f[i] \o Text(g, i, i + (m + 1))
    <3>1. m + 1 \in Nat
      BY <2>1
    <3>2. QED BY <3>1 DEF S
  <2>3. PICK k \in 1..Len(g) : k = i + (m + 1) /\ k \in (i + 1)..j /\ ~(k <= a) /\ k - 1 = i + m
    <3>1. i + (m + 1) \in 1..Len(g) /\ i + (m + 1) \in (i + 1)..j /\ ~(i + (m + 1) <= a)
          /\ (i + (m + 1)) - 1 = i + m
      BY <2>1, <2>2
    <3>2. QED BY <3>1
  <2>4. f[k] = Append(f[k - 1], g[k].v.text)
    <3>1. g[k].k = "data"
      BY <2>3 DEF DataIn
    <3>2. QED BY <1>1, <2>3, <3>1 DEF ArrivedUpTo
  <2>5. f[i + m] = f[i] \o Text(g, i, i + m)
    <3>1. i + m <= j
      BY <2>1, <2>2
    <3>2. QED BY <2>1, <3>1
  <2>6. PICK b \in Nat : b = i + m /\ k = b + 1 /\ i <= b /\ b <= k /\ b \in 0..Len(g)
                         /\ k - 1 = b
    BY <2>1, <2>3
  <2>7. PICK r, s, t, u : r = f[i] /\ s = Text(g, i, b) /\ t = Text(g, b, k) /\ u = Text(g, i, k)
    OBVIOUS
  <2>8. s \o t = u
    <3>1. i <= b /\ b <= k /\ k \in Nat
      BY <2>6
    <3>2. Meet(i, b, k, s, t, u)
      BY <2>6, <2>7, <3>1, TextsMeet
    <3>3. QED BY <3>2 DEF Meet
  <2>9. IsSeq(r)
    <3>1. i \in 0..Len(g)
      OBVIOUS
    <3>2. QED BY <1>1, <2>7, <3>1 DEF ArrivedUpTo
  <2>10. IsSeq(s) /\ IsText(t, g, b, 1)
    <3>1. 1 = k - b /\ k \in Nat
      BY <2>6
    <3>2. IsText(t, g, b, 1)
      BY <2>6, <2>7, <3>1, Texts
    <3>3. PICK l : l = b - i
      OBVIOUS
    <3>4. IsText(s, g, i, l)
      BY <2>6, <2>7, <3>3, Texts
    <3>5. QED BY <3>2, <3>4 DEF IsText
  <2>11. IsSeq(t) /\ Len(t) = 1 /\ t[1] = g[k].v.text
    <3>1. 1 \in 1..1
      OBVIOUS
    <3>2. QED BY <2>6, <2>10, <3>1 DEF IsText
  <2>12. PICK y : y = g[k].v.text
    OBVIOUS
  <2>13. t = <<y>>
    <3>1. IsSeq(<<y>>) /\ Len(<<y>>) = 1 /\ <<y>>[1] = y
      BY Singles
    <3>2. \A q \in 1..1 : t[q] = <<y>>[q]
      BY <2>11, <2>12, <3>1
    <3>3. QED BY <2>11, <3>1, <3>2, SameSeq
  <2>14. PICK v : v = f[b]
    OBVIOUS
  <2>15. v = r \o s /\ IsSeq(v)
    <3>1. v = r \o s
      BY <2>5, <2>6, <2>7, <2>14
    <3>2. IsSeq(v)
      BY <1>1, <2>6, <2>14 DEF ArrivedUpTo
    <3>3. QED BY <3>1, <3>2
  <2>16. Append(v, y) = v \o t
    <3>1. PICK Y : v \in Seq(Y)
      BY <2>15 DEF IsSeq
    <3>2. v \in Seq(Y \cup {y}) /\ y \in Y \cup {y}
      BY <3>1
    <3>3. Append(v, y) = v \o <<y>>
      BY <3>2, AppendIsConcat
    <3>4. QED BY <2>13, <3>3
  <2>17. v \o t = r \o u
    <3>1. IsSeq(s) /\ IsSeq(t)
      BY <2>10, <2>11
    <3>2. v = r \o s /\ u = s \o t
      BY <2>8, <2>15
    <3>3. Associate(r, s, t, v, u)
      BY <2>9, <3>1, <3>2, Associative
    <3>4. QED BY <3>3 DEF Associate
  <2>18. f[k] = r \o u
    BY <2>4, <2>6, <2>12, <2>14, <2>16, <2>17
  <2>19. QED BY <2>3, <2>7, <2>18
<1>4. S = Nat
  <2> HIDE DEF S
  <2>1. S \in SUBSET Nat
    BY DEF S
  <2>2. QED BY <1>2, <1>3, <2>1, InductiveSet
<1>5. PICK m \in Nat : i + m = j
  <2>1. j - i \in Nat /\ i + (j - i) = j
    OBVIOUS
  <2>2. QED BY <2>1
<1>6. f[j] = f[i] \o x
  <2>1. m \in S
    BY <1>4
  <2>2. i + m <= j => f[i + m] = f[i] \o Text(g, i, i + m)
    BY <2>1
  <2> HIDE DEF S
  <2>3. i + m = j /\ j <= j
    BY <1>5
  <2>4. f[j] = f[i] \o Text(g, i, j)
    BY <2>2, <2>3
  <2>5. QED BY <2>4
<1>7. QED BY <1>1, <1>6 DEF ArrivesMore

-----------------------------------------------------------------------------
(***************************************************************************)
(* The decompressor: it has the data from pos on up to stop, of which Read *)
(* gives i units.                                                          *)
(***************************************************************************)
ErrAt(g, q) ==
  IF q = Len(g) THEN "UnexpectedEOF" ELSE IF g[q + 1].k = "end" THEN "EOF" ELSE "Corrupt"

Stops(g, p, q) ==
  /\ p <= q /\ q <= Len(g) /\ DataIn(g, p, q)
  /\ q < Len(g) => ~Decodes(g[q + 1])
  /\ IsText(Plain, g, p, q - p) /\ PlainErr = ErrAt(g, q)

\* Plain is the data up to the next unit that is none.
LEMMA PlainStops ==
  ASSUME NEW g, g = file, NEW p \in Nat, p = pos, NEW n \in Nat, n = Len(g), p <= n
  PROVE  \E q \in Nat : Stops(g, p, q)
<1> DEFINE P(q) == /\ \A i \in (p + 1)..q : Decodes(g[i])
                   /\ q < n => ~Decodes(g[q + 1])
<1>1. \E q \in p..n : P(q)
  <2> DEFINE T == {q \in p..n : q < n => ~Decodes(g[q + 1])}
  <2>1. n \in T /\ T \in SUBSET Nat
    OBVIOUS
  <2>2. PICK q \in T : \A k \in T : q <= k
    BY <2>1, LeastElement
  <2>3. \A i \in (p + 1)..q : Decodes(g[i])
    <3>1. TAKE i \in (p + 1)..q
    <3>2. PICK j \in p..n : j = i - 1 /\ j + 1 = i /\ ~(q <= j) /\ j < n
      <4>1. i - 1 \in p..n /\ (i - 1) + 1 = i /\ ~(q <= i - 1) /\ i - 1 < n
        OBVIOUS
      <4>2. QED BY <4>1
    <3>3. j \notin T
      BY <2>2, <3>2
    <3>4. QED BY <3>2, <3>3
  <2>4. QED BY <2>3
<1>2. PICK q : q = CHOOSE e \in p..n : P(e)
  OBVIOUS
<1>3. q \in p..n /\ P(q)
  BY <1>1, <1>2
<1>4. q \in Nat /\ p <= q /\ q <= n
  BY <1>3
<1>5. q = CHOOSE e \in pos..Len(file) : /\ \A i \in (pos + 1)..e : Decodes(file[i])
                                        /\ e < Len(file) => ~Decodes(file[e + 1])
  BY <1>2
<1>6. PICK x : x = Plain
  OBVIOUS
<1>7. x = Text(g, p, q)
  BY <1>5, <1>6 DEF Plain, Text
<1> HIDE DEF P
<1>8. PICK m \in Nat : m = q - p
  BY <1>4
<1>9. IsText(x, g, p, m)
  BY <1>4, <1>7, <1>8, Texts
<1>10. PlainErr = ErrAt(g, q)
  <2>1. Len(x) = m /\ p + m = q
    BY <1>4, <1>8, <1>9 DEF IsText
  <2>2. PlainErr = IF Left(q) = 0 THEN "UnexpectedEOF"
                   ELSE IF file[q + 1].k = "end" THEN "EOF" ELSE "Corrupt"
    BY <1>6, <2>1 DEF PlainErr
  <2>3. Left(q) = 0 <=> q = n
    BY <1>4 DEF Left
  <2>4. QED BY <2>2, <2>3 DEF ErrAt
<1>11. \A i \in (p + 1)..q : Decodes(g[i])
  BY <1>3 DEF P
<1>12. q < n => ~Decodes(g[q + 1])
  BY <1>3 DEF P
<1>13. DataIn(g, p, q)
  BY <1>11 DEF DataIn, Decodes
<1>14. QED BY <1>4, <1>6, <1>8, <1>9, <1>10, <1>12, <1>13 DEF Stops

\* A result of the decompressor.
Gives(g, p, q, r, i) ==
  /\ r.n = i /\ p + i <= q /\ Got(r) = Text(g, p, p + i) /\ DataIn(g, p, p + i)
  /\ r.err = "nil" \/ (r.err = ErrAt(g, q) /\ p + i = q)

LEMMA InflatedGives ==
  ASSUME NEW g, NEW p \in Nat, NEW q \in Nat, Stops(g, p, q), NEW size \in Nat,
         NEW r \in Inflated(size)
  PROVE  \E i \in Nat : Gives(g, p, q, r, i)
<1>1. PICK x : x = Plain
  OBVIOUS
<1>2. PICK m \in Nat : m = q - p /\ p + m = q
  <2>1. p <= q
    BY DEF Stops
  <2>2. q - p \in Nat /\ p + (q - p) = q
    BY <2>1
  <2>3. QED BY <2>2
<1>3. IsText(x, g, p, m)
  BY <1>1, <1>2 DEF Stops
<1>4. IsSeq(x) /\ Len(x) = m /\ \A k \in 1..m : x[k] = g[p + k].v.text
  BY <1>3 DEF IsText
<1>5. PICK i \in 0..m : r.n = i /\ (r.err = "nil" \/ (r.err = PlainErr /\ i = m))
  BY <1>1, <1>4 DEF Inflated
<1>6. IsFront(x, i, SubSeq(x, 1, i))
  <2>1. i \in 0..Len(x)
    BY <1>4
  <2>2. QED BY <1>4, <2>1, Fronts
<1>7. PICK y : y = SubSeq(x, 1, i) /\ y = Got(r)
  BY <1>1, <1>5 DEF Got
<1>8. IsSeq(y) /\ Len(y) = i /\ \A k \in 1..i : y[k] = x[k]
  BY <1>6, <1>7 DEF IsFront
<1>9. PICK b \in Nat : b = p + i /\ p <= b /\ i = b - p /\ b <= q
  BY <1>2
<1>10. PICK z : z = Text(g, p, b)
  OBVIOUS
<1>11. IsText(z, g, p, i)
  BY <1>9, <1>10, Texts
<1>12. y = z
  <2>1. IsSeq(z) /\ Len(z) = i /\ \A k \in 1..i : z[k] = g[p + k].v.text
    BY <1>11 DEF IsText
  <2>2. \A k \in 1..i : y[k] = z[k]
    <3>1. TAKE k \in 1..i
    <3>2. k \in 1..m
      BY <1>5
    <3>3. QED BY <1>4, <1>8, <2>1, <3>2
  <2>3. QED BY <1>8, <2>1, <2>2, SameSeq
<1>13. DataIn(g, p, b)
  <2>1. DataIn(g, p, q)
    BY DEF Stops
  <2>2. QED BY <1>9, <2>1 DEF DataIn
<1>14. r.err = "nil" \/ (r.err = ErrAt(g, q) /\ p + i = q)
  BY <1>2, <1>5 DEF Stops
<1>15. i \in Nat /\ p + i <= q
  BY <1>9
<1>16. Got(r) = Text(g, p, p + i) /\ DataIn(g, p, p + i)
  BY <1>7, <1>9, <1>10, <1>12, <1>13
<1>17. QED BY <1>5, <1>14, <1>15, <1>16 DEF Gives

-----------------------------------------------------------------------------
(***************************************************************************)
(* What the readers make of the header at p: h.                            *)
(***************************************************************************)
HeaderIs(f, g, p, h) ==
  /\ h.err \in {"nil", "EOF", "UnexpectedEOF", "Header", "Dictionary"}
  /\ h.err # "nil" => h.to = p
  /\ h.err = "nil" => p < Len(g) /\ h.to = p + HeadLen(f, g[p + 1].v) /\ h.to <= Len(g)
  /\ h.err = "EOF" => p = Len(g)
  /\ h.err = "UnexpectedEOF" => NoDataIn(g, p, Len(g))

\* The units of the header at p, as far as they are there.
There(g, p, l, th) ==
  /\ IsSeq(th) /\ Len(th) = IF p + 2 + l <= Len(g) THEN 2 + l ELSE Len(g) - p
  /\ \A i \in 1..Len(th) : th[i] = g[p + i]

LEMMA TheresIs ==
  ASSUME NEW g, IsSeq(g), NEW p \in Nat, p < Len(g), NEW l \in Nat,
         NEW th, th = SubSeq(g, p + 1, Min({p + 2 + l, Len(g)}))
  PROVE  There(g, p, l, th)
<1>1. PICK n \in Nat : n = Len(g) /\ p < n
  BY SeqFacts
<1>2. PICK e \in Nat : e = p + 2 + l
  OBVIOUS
<1>3. PICK m \in Nat : m = (IF e <= n THEN e ELSE n) /\ m <= n /\ p + 1 <= m
  <2>1. (IF e <= n THEN e ELSE n) \in Nat /\ (IF e <= n THEN e ELSE n) <= n
        /\ p + 1 <= (IF e <= n THEN e ELSE n)
    BY <1>1, <1>2
  <2>2. QED BY <2>1
<1>4. Min({e, n}) = m
  BY <1>3 DEF Min
<1>5. PICK S : g \in Seq(S)
  BY DEF IsSeq
<1>6. th = SubSeq(g, p + 1, m)
  BY <1>1, <1>2, <1>4
<1>7. PICK k \in Nat : k = m - p /\ p <= m
  <2>1. m - p \in Nat /\ p <= m
    BY <1>3
  <2>2. QED BY <2>1
<1>8. th \in Seq(S) /\ IsPart(g, p, k, th)
  <2>1. m <= Len(g)
    BY <1>1, <1>3
  <2>2. QED BY <1>5, <1>6, <1>7, <2>1, Parts
<1>9. IsSeq(th) /\ Len(th) = k /\ \A i \in 1..k : th[i] = g[p + i]
  BY <1>8 DEF IsPart, IsSeq
<1>10. k = IF p + 2 + l <= Len(g) THEN 2 + l ELSE Len(g) - p
  BY <1>1, <1>2, <1>3, <1>7
<1>11. QED BY <1>9, <1>10 DEF There

\* Neither a header nor the beginning of one has data.
LEMMA NoDataThere ==
  ASSUME NEW f, NEW g, NEW p \in Nat, NEW c \in Nat, NEW n, Kinds(f, g, p, c, n), c >= 2,
         NEW e \in Nat, e = Len(g), NEW m \in Nat, m <= e, m <= p + c
  PROVE  NoDataIn(g, p, m)
<1>1. SUFFICES ASSUME NEW k \in (p + 1)..m PROVE g[k].k # "data"
  BY DEF NoDataIn
<1>2. k \in (p + 1)..Len(g) /\ k <= p + c /\ (k <= p + 2 \/ p + 2 < k)
  OBVIOUS
<1>3. g[k].k \in {"head", "bad"} \/ g[k].k \in FieldKinds
  BY <1>2 DEF Kinds
<1>4. QED BY <1>3 DEF FieldKinds, Fields

\* readHeader of gzip (ungzip.go:145), and Reset of zlib (zlib/reader.go:134).
LEMMA ReadHeaderIs ==
  ASSUME NEW g, g = file, IsSeq(g), NEW p \in 0..Len(g), NEW n,
         p < Len(g) => /\ IsSeq(g[p + 1].v)
                       /\ Kinds("gzip", g, p, HeadLen("gzip", g[p + 1].v), n),
         NEW h, h = ReadHeader(p)
  PROVE  HeaderIs("gzip", g, p, h)
<1>1. PICK m \in Nat : m = Len(g)
  BY SeqFacts
<1>2. p \in Nat /\ p <= m
  BY <1>1
<1>3. PICK v : v = g[p + 1].v
  OBVIOUS
<1>4. PICK th : th = SubSeq(g, p + 1, Min({p + 2 + Len(v), m}))
  OBVIOUS
<1>5. PICK k \in Nat : k = Left(p) /\ (k = 0 <=> p = m) /\ (k = 1 <=> m = p + 1)
  <2>1. Left(p) = m - p
    BY <1>1, <1>2 DEF Left
  <2>2. m - p \in Nat /\ (m - p = 0 <=> p = m) /\ (m - p = 1 <=> m = p + 1)
    BY <1>2
  <2>3. QED BY <2>1, <2>2
<1>6. PICK t, w : t = Len(th) /\ w = Len(v)
  OBVIOUS
<1>7. \/ k = 0 /\ h = [to |-> p, err |-> "EOF"]
      \/ k = 1 /\ h = [to |-> p, err |-> "UnexpectedEOF"]
      \/ k # 0 /\ h = [to |-> p, err |-> "Header"]
      \/ k # 0 /\ t < 2 + w /\ h = [to |-> p, err |-> "UnexpectedEOF"]
      \/ k # 0 /\ ~(t < 2 + w) /\ h = [to |-> p + 2 + w, err |-> "nil"]
  BY <1>1, <1>3, <1>4, <1>5, <1>6 DEF ReadHeader
<1>8. CASE p = m
  <2>1. k = 0 /\ 0 # 1
    BY <1>5, <1>8
  <2>2. h = [to |-> p, err |-> "EOF"]
    BY <1>7, <2>1
  <2>3. h.to = p /\ h.err = "EOF"
    BY <2>2
  <2>4. QED BY <1>1, <1>8, <2>3 DEF HeaderIs
<1>9. CASE p < m
  <2>1. IsSeq(v) /\ Kinds("gzip", g, p, HeadLen("gzip", v), n)
    BY <1>1, <1>3, <1>9
  <2>2. PICK l \in Nat : l = w
    BY <1>6, <2>1, SeqFacts
  <2>3. HeadLen("gzip", v) = 2 + l
    BY <1>6, <2>2 DEF HeadLen
  <2>4. There(g, p, l, th)
    BY <1>1, <1>2, <1>4, <1>6, <1>9, <2>2, TheresIs
  <2>5. t = IF p + 2 + l <= m THEN 2 + l ELSE m - p
    BY <1>1, <1>6, <2>4 DEF There
  <2>6. k # 0
    BY <1>2, <1>5, <1>9
  <2>7. PICK r \in Nat : r = t
    <3>1. (IF p + 2 + l <= m THEN 2 + l ELSE m - p) \in Nat
      BY <1>2
    <3>2. QED BY <2>5, <3>1
  <2>8. (r < 2 + l => m <= p + (2 + l)) /\ (~(r < 2 + l) => p + (2 + l) <= m)
        /\ (k = 1 => m <= p + (2 + l))
    <3>1. r = IF p + 2 + l <= m THEN 2 + l ELSE m - p
      BY <2>5, <2>7
    <3>2. QED BY <1>2, <1>5, <3>1
  <2>9. \/ h.to = p /\ h.err = "UnexpectedEOF" /\ (k = 1 \/ r < 2 + l)
        \/ h.to = p /\ h.err = "Header"
        \/ h.to = p + 2 + l /\ h.err = "nil" /\ ~(r < 2 + l)
    BY <1>7, <2>2, <2>6, <2>7
  <2>10. k = 1 \/ r < 2 + l => NoDataIn(g, p, m)
    <3>1. SUFFICES ASSUME k = 1 \/ r < 2 + l PROVE NoDataIn(g, p, m)
      OBVIOUS
    <3>2. m <= p + (2 + l)
      BY <2>8, <3>1
    <3>3. 2 + l \in Nat /\ 2 + l >= 2
      OBVIOUS
    <3>4. Kinds("gzip", g, p, 2 + l, n)
      BY <2>1, <2>3
    <3>5. m <= m
      OBVIOUS
    <3>6. QED BY <1>1, <1>2, <3>2, <3>3, <3>4, <3>5, NoDataThere
  <2>11. p + 2 + l = p + HeadLen("gzip", g[p + 1].v)
    BY <1>2, <1>3, <2>3
  <2>12. CASE h.to = p /\ h.err = "UnexpectedEOF" /\ (k = 1 \/ r < 2 + l)
    BY <1>1, <2>10, <2>12 DEF HeaderIs
  <2>13. CASE h.to = p /\ h.err = "Header"
    BY <2>13 DEF HeaderIs
  <2>14. CASE h.to = p + 2 + l /\ h.err = "nil" /\ ~(r < 2 + l)
    <3>1. p + 2 + l <= m
      BY <1>2, <2>8, <2>14
    <3>2. QED BY <1>1, <1>9, <2>11, <2>14, <3>1 DEF HeaderIs
  <2>15. QED BY <2>9, <2>12, <2>13, <2>14
<1>10. QED BY <1>1, <1>2, <1>8, <1>9

LEMMA ZlibHeaderIs ==
  ASSUME NEW g, g = file, IsSeq(g), NEW p \in 0..Len(g), NEW n, NEW d,
         p < Len(g) => Kinds("zlib", g, p, HeadLen("zlib", g[p + 1].v), n),
         NEW h, h = ZlibHeader(p, d)
  PROVE  /\ HeaderIs("zlib", g, p, h) /\ h.err # "EOF"
         /\ h.err = "nil" => g[p + 1].v = <<>> \/ g[p + 3].v = d
<1>1. PICK m \in Nat : m = Len(g)
  BY SeqFacts
<1>2. p \in Nat /\ p <= m
  BY <1>1
<1>3. PICK v : v = g[p + 1].v
  OBVIOUS
<1>4. PICK k \in Nat : k = Left(p) /\ k = m - p
  <2>1. Left(p) = m - p
    BY <1>1, <1>2 DEF Left
  <2>2. m - p \in Nat
    BY <1>2
  <2>3. QED BY <2>1, <2>2
<1>5. \/ k < 2 /\ h = [to |-> p, err |-> "UnexpectedEOF"]
      \/ h = [to |-> p, err |-> "Header"]
      \/ ~(k < 2) /\ v = <<>> /\ h = [to |-> p + 2, err |-> "nil"]
      \/ k = 2 /\ v # <<>> /\ h = [to |-> p, err |-> "UnexpectedEOF"]
      \/ h = [to |-> p, err |-> "Dictionary"]
      \/ ~(k < 2) /\ k # 2 /\ v # <<>> /\ g[p + 3].v = d /\ h = [to |-> p + 3, err |-> "nil"]
  BY <1>3, <1>4 DEF ZlibHeader
<1>6. HeadLen("zlib", v) = IF v = <<>> THEN 2 ELSE 3
  <2>1. "zlib" # "gzip"
    OBVIOUS
  <2>2. HeadLen("zlib", v) = 2 + (IF v = <<>> THEN 0 ELSE 1)
    BY <2>1 DEF HeadLen
  <2>3. CASE v = <<>>
    BY <2>2, <2>3
  <2>4. CASE v # <<>>
    BY <2>2, <2>4
  <2>5. QED BY <2>3, <2>4
<1>7. PICK l \in {2, 3} : l = HeadLen("zlib", v) /\ (l = 2 <=> v = <<>>)
  BY <1>6
<1>8. m <= p + l => NoDataIn(g, p, m)
  <2>1. SUFFICES ASSUME m <= p + l PROVE NoDataIn(g, p, m)
    OBVIOUS
  <2>2. CASE p = m
    BY <1>2, <2>2 DEF NoDataIn
  <2>3. CASE p < m
    <3>1. l \in Nat /\ l >= 2
      OBVIOUS
    <3>2. Kinds("zlib", g, p, l, n)
      BY <1>1, <1>3, <1>7, <2>3
    <3>3. m <= m
      OBVIOUS
    <3>4. QED BY <1>1, <1>2, <2>1, <3>1, <3>2, <3>3, NoDataThere
  <2>4. QED BY <1>2, <2>2, <2>3
<1>9. (k < 2 => m <= p + l) /\ (k = 2 => m <= p + l) /\ (~(k < 2) => p + 2 <= m)
      /\ (~(k < 2) /\ k # 2 => p + 3 <= m)
  BY <1>2, <1>4
<1>10. CASE h = [to |-> p, err |-> "UnexpectedEOF"] /\ (k < 2 \/ k = 2)
  <2>1. h.to = p /\ h.err = "UnexpectedEOF"
    BY <1>10
  <2>2. NoDataIn(g, p, m)
    BY <1>8, <1>9, <1>10
  <2>3. QED BY <1>1, <2>1, <2>2 DEF HeaderIs
<1>11. CASE h = [to |-> p, err |-> "Header"] \/ h = [to |-> p, err |-> "Dictionary"]
  <2>1. h.to = p /\ h.err \in {"Header", "Dictionary"}
    BY <1>11
  <2>2. QED BY <2>1 DEF HeaderIs
<1>12. CASE ~(k < 2) /\ v = <<>> /\ h = [to |-> p + 2, err |-> "nil"]
  <2>1. p + 2 <= m /\ p < m
    BY <1>2, <1>9, <1>12
  <2>2. p + HeadLen("zlib", g[p + 1].v) = p + 2
    BY <1>3, <1>6, <1>12
  <2>3. h.to = p + 2 /\ h.err = "nil"
    BY <1>12
  <2>4. QED BY <1>1, <1>3, <1>12, <2>1, <2>2, <2>3 DEF HeaderIs
<1>13. CASE ~(k < 2) /\ k # 2 /\ v # <<>> /\ g[p + 3].v = d /\ h = [to |-> p + 3, err |-> "nil"]
  <2>1. p + 3 <= m /\ p < m
    BY <1>2, <1>9, <1>13
  <2>2. p + HeadLen("zlib", g[p + 1].v) = p + 3
    BY <1>3, <1>6, <1>13
  <2>3. h.to = p + 3 /\ h.err = "nil"
    BY <1>13
  <2>4. QED BY <1>1, <1>13, <2>1, <2>2, <2>3 DEF HeaderIs
<1>14. QED BY <1>5, <1>10, <1>11, <1>12, <1>13

-----------------------------------------------------------------------------
(***************************************************************************)
(* Where a reader that began at a may stand, and what it has read there.   *)
(***************************************************************************)
\* z is for a stream that spells the data, read from its start with nothing left
\* of an earlier one.
\* Between two members: all of the text of those before p, and no other.
Between(z, f, g, t, a, p, o) ==
  /\ p \in Bounds(f, g) /\ a \in Nat /\ a <= p
  /\ IsSeq(o) /\ o = PassedIn(g, t, a, p) /\ (z => o = ArrivedIn(g, a, p))

\* In the data, at i, of the member whose header ends at b; s is the checksum.
Spelled(g, a, b, i, s, o) ==
  s.crc = Text(g, b, i) /\ s.size = (i - b) % SizeMod /\ o = ArrivedIn(g, a, i)
InData(z, g, t, a, p, b, i, s, o) ==
  /\ IsSeq(PassedIn(g, t, a, p))
  /\ b <= i /\ i <= Len(g) /\ DataIn(g, b, i)
  /\ s.crc \in Seq(Nat) /\ o = PassedIn(g, t, a, p) \o s.crc
  /\ z => Spelled(g, a, b, i, s, o)
Within(z, f, g, t, a, p, b, i, s, o) ==
  /\ p \in Bounds(f, g) /\ a \in Nat /\ a <= p /\ p < Len(g)
  /\ b = p + HeadLen(f, g[p + 1].v) /\ p + 2 <= b /\ InData(z, g, t, a, p, b, i, s, o)

LEMMA TextIsNat ==
  ASSUME NEW g, AllTexted(g), NEW b \in Nat, NEW j \in Nat, b <= j, Len(g) \in Nat, j <= Len(g),
         DataIn(g, b, j)
  PROVE  Text(g, b, j) \in Seq(Nat)
<1>1. PICK n \in Nat : n = j - b
  <2>1. j - b \in Nat
    OBVIOUS
  <2>2. QED BY <2>1
<1>2. ASSUME NEW k \in 1..n PROVE g[b + k].v.text \in Nat
  <2>1. b + k \in 1..Len(g) /\ b + k \in (b + 1)..j
    BY <1>1
  <2>2. g[b + k].k = "data" /\ Texted(g[b + k])
    BY <2>1 DEF DataIn, AllTexted
  <2>3. PICK x, e : x \in Nat /\ g[b + k].v = [text |-> x, dict |-> e]
    BY <2>2 DEF Texted
  <2>4. QED BY <2>3
<1>3. Text(g, b, j) = [k \in 1..n |-> g[b + k].v.text]
  BY <1>1 DEF Text
<1>4. [k \in 1..n |-> g[b + k].v.text] \in Seq(Nat)
  BY <1>1, <1>2
<1>5. QED BY <1>3, <1>4

LEMMA NoText ==
  ASSUME NEW g, NEW b \in Nat
  PROVE  Text(g, b, b) = <<>>
<1>1. PICK x : x = Text(g, b, b)
  OBVIOUS
<1>2. b <= b /\ 0 = b - b
  OBVIOUS
<1>3. IsText(x, g, b, 0)
  BY <1>1, <1>2, Texts
<1>4. IsSeq(x) /\ Len(x) = 0
  BY <1>3 DEF IsText
<1>5. QED BY <1>1, <1>4, Empty

\* Behind a header.
LEMMA Begins ==
  ASSUME NEW z, NEW f, NEW g, NEW t, NEW a, NEW p \in Nat, NEW o, Between(z, f, g, t, a, p, o),
         NEW m \in Nat, m = Len(g), p < m, NEW c \in Nat, c = HeadLen(f, g[p + 1].v), c >= 2,
         NEW n, Kinds(f, g, p, c, n), NEW b \in Nat, b = p + c, b <= m
  PROVE  Within(z, f, g, t, a, p, b, b, Zero, o)
<1>1. /\ a \in Nat /\ a <= p /\ p \in Bounds(f, g) /\ o = PassedIn(g, t, a, p) /\ IsSeq(o)
      /\ z => o = ArrivedIn(g, a, p)
  BY DEF Between
<1>2. NoDataIn(g, p, b)
  <2>1. b <= p + c
    OBVIOUS
  <2>2. QED BY <2>1, NoDataThere
<1>3. ASSUME z PROVE ArrivedIn(g, a, b) = o
  <2>1. p <= b
    OBVIOUS
  <2>2. QED BY <1>1, <1>2, <1>3, <2>1, ArrivedSame
<1>4. IsSeq(o)
  BY <1>1
<1>5. Text(g, b, b) = <<>> /\ o \o <<>> = o
  BY <1>4, NoText, WithEmpty
<1>6. Zero.crc = <<>> /\ Zero.size = (b - b) % SizeMod
  <2>1. 0 % SizeMod = 0 /\ b - b = 0
    <3>1. PICK d \in Nat \ {0} : d = SizeMod
      BY SizesOK
    <3>2. 0 \in Nat /\ 0 < d
      OBVIOUS
    <3>3. 0 % d = 0
      BY <3>2, Remainder
    <3>4. QED BY <3>1, <3>3
  <2>2. QED BY <2>1 DEF Zero
<1>7. DataIn(g, b, b)
  BY DEF DataIn
<1>8. InData(z, g, t, a, p, b, b, Zero, o)
  <2>1. b <= b /\ b <= Len(g)
    OBVIOUS
  <2>2. Zero.crc \in Seq(Nat) /\ o = PassedIn(g, t, a, p) \o Zero.crc
    BY <1>1, <1>5, <1>6, EmptySeq
  <2>3. z => Spelled(g, a, b, b, Zero, o)
    BY <1>3, <1>5, <1>6 DEF Spelled
  <2>4. IsSeq(PassedIn(g, t, a, p))
    BY <1>1, <1>4
  <2>5. QED BY <1>7, <2>1, <2>2, <2>3, <2>4 DEF InData
<1>9. b = p + HeadLen(f, g[p + 1].v) /\ p + 2 <= b
  OBVIOUS
<1>10. QED BY <1>1, <1>8, <1>9 DEF Within

\* Data is read.
LEMMA ReadsOn ==
  ASSUME NEW z, NEW f, NEW g, AllTexted(g), NEW t, NEW a, NEW p, NEW b \in Nat, NEW i \in Nat,
         NEW s, NEW o,
         Within(z, f, g, t, a, p, b, i, s, o), NEW m \in Nat, m = Len(g),
         NEW j \in Nat, i <= j, j <= m, DataIn(g, i, j), NEW x, x = Text(g, i, j),
         NEW r, r = Summed(s, x), NEW w, w = o \o x
  PROVE  Within(z, f, g, t, a, p, b, j, r, w)
<1>1. /\ b <= i /\ DataIn(g, b, i) /\ s.crc \in Seq(Nat) /\ o = PassedIn(g, t, a, p) \o s.crc
      /\ IsSeq(PassedIn(g, t, a, p))
      /\ z => Spelled(g, a, b, i, s, o)
  BY DEF Within, InData
<1>2. a \in Nat /\ a <= i
  <2>1. a \in Nat /\ p \in Bounds(f, g) /\ a <= p /\ p + 2 <= b
    BY DEF Within
  <2>2. p \in 0..Len(g)
    BY <2>1 DEF Bounds
  <2>3. p \in Nat
    BY <2>2
  <2>4. QED BY <1>1, <2>1, <2>3
<1>3. PICK l \in Nat : l = j - i /\ IsText(x, g, i, l)
  <2>1. j - i \in Nat
    OBVIOUS
  <2>2. PICK l \in Nat : l = j - i
    BY <2>1
  <2>3. IsText(x, g, i, l)
    BY <2>2, Texts
  <2>4. QED BY <2>2, <2>3
<1>4. Len(x) = l /\ x \in Seq(Nat)
  <2>1. Len(x) = l
    BY <1>3 DEF IsText
  <2>2. x \in Seq(Nat)
    BY TextIsNat
  <2>3. QED BY <2>1, <2>2
<1>5. r.crc = s.crc \o x /\ r.size = (s.size + l) % SizeMod
  BY <1>4 DEF Summed
<1>6. r.crc \in Seq(Nat)
  BY <1>1, <1>4, <1>5
<1>7. PICK y, u : y = PassedIn(g, t, a, p) /\ u = s.crc
  OBVIOUS
<1>8. w = y \o r.crc
  <2>1. o = y \o u
    BY <1>1, <1>7
  <2>2. IsSeq(y) /\ IsSeq(u) /\ IsSeq(x)
    BY <1>1, <1>4, <1>7 DEF IsSeq
  <2>3. PICK v : v = u \o x
    OBVIOUS
  <2>4. Associate(y, u, x, o, v)
    BY <2>1, <2>2, <2>3, Associative
  <2>5. QED BY <1>5, <1>7, <2>3, <2>4 DEF Associate
<1>9. ASSUME z PROVE Spelled(g, a, b, j, r, w)
  <2>1. s.crc = Text(g, b, i) /\ s.size = (i - b) % SizeMod /\ o = ArrivedIn(g, a, i)
    BY <1>1, <1>9 DEF Spelled
  <2>2. ArrivedIn(g, a, j) = w
    <3>1. Len(g) \in Nat /\ j <= Len(g)
      OBVIOUS
    <3>2. ArrivesMore(g, a, i, j, x)
      BY <1>2, <3>1, ArrivedMore
    <3>3. QED BY <2>1, <3>2 DEF ArrivesMore
  <2>3. r.crc = Text(g, b, j)
    <3>1. PICK v : v = Text(g, b, j)
      OBVIOUS
    <3>2. Meet(b, i, j, u, x, v)
      BY <1>1, <1>7, <2>1, <3>1, TextsMeet
    <3>3. QED BY <1>5, <1>7, <3>1, <3>2 DEF Meet
  <2>4. r.size = (j - b) % SizeMod
    <3>1. PICK k \in Nat : k = i - b /\ k + l = j - b
      <4>1. i - b \in Nat /\ (i - b) + (j - i) = j - b
        BY <1>1
      <4>2. QED BY <1>3, <4>1
    <3>2. PICK d \in Nat \ {0} : d = SizeMod
      BY SizesOK
    <3>3. ((k % d) + l) % d = (k + l) % d
      BY Modular
    <3>4. QED BY <1>5, <2>1, <3>1, <3>2, <3>3
  <2>5. QED BY <2>2, <2>3, <2>4 DEF Spelled
<1>10. b <= j /\ j <= Len(g)
  BY <1>1
<1>11. DataIn(g, b, j)
  <2>1. SUFFICES ASSUME NEW e \in (b + 1)..j PROVE g[e].k = "data"
    BY DEF DataIn
  <2>2. e \in (b + 1)..i \/ e \in (i + 1)..j
    BY <1>1
  <2>3. QED BY <1>1, <2>2 DEF DataIn
<1>12. InData(z, g, t, a, p, b, j, r, w)
  BY <1>1, <1>6, <1>7, <1>8, <1>9, <1>10, <1>11 DEF InData
<1>13. QED BY <1>12 DEF Within

\* The end of a stream: the checksum that the file gives is that of the member's
\* data, and where the stream spells the data all of it is read.
EndRead(z, f, g, t, a, q, s, o, e) ==
  /\ e <= Len(g) /\ g[q + 2].k = "crc" /\ g[q + 2].v = s.crc => Between(z, f, g, t, a, e, o)
  /\ z /\ e > Len(g) => ArrivedIn(g, a, Len(g)) = o

\* Behind the data the trailer is right, and the text is the member's, or it is not.
LEMMA EndsAt ==
  ASSUME NEW z, NEW f \in {"gzip", "zlib"}, NEW g, NEW t \in Seq(Seq(Bytes)),
         Known(z, f, g, t), NEW a,
         NEW p, NEW b \in Nat, NEW q \in Nat, NEW s, NEW o,
         Within(z, f, g, t, a, p, b, q, s, o), NEW m \in Nat, m = Len(g), q < m,
         g[q + 1].k = "end", NEW e \in Nat, e = q + 1 + Trail(f)
  PROVE  EndRead(z, f, g, t, a, q, s, o, e)
<1>1. /\ p \in Bounds(f, g) /\ a \in Nat /\ a <= p /\ p < m
      /\ b = p + HeadLen(f, g[p + 1].v) /\ p + 2 <= b
      /\ b <= q /\ DataIn(g, b, q) /\ s.crc \in Seq(Nat)
      /\ o = PassedIn(g, t, a, p) \o s.crc
      /\ z => o = ArrivedIn(g, a, q)
  BY DEF Within, InData, Spelled
<1>2. p \in Nat
  <2>1. p \in 0..Len(g)
    BY <1>1 DEF Bounds
  <2>2. QED BY <2>1
<1>3. PICK c \in Nat, n \in Nat, x \in Seq(Bytes) : c >= 2 /\ Member(z, f, g, t, p, c, n, x)
  BY <1>1 DEF Known
<1>4. c = HeadLen(f, g[p + 1].v) /\ Kinds(f, g, p, c, n) /\ (z => AllData(g, p, c, n))
  BY <1>3 DEF Member
<1>5. b = p + c /\ b <= q /\ p + c <= q /\ a <= p /\ a \in Nat
  BY <1>1, <1>4
<1>6. PICK w \in 1..2 : w = Trail(f) /\ e = q + 1 + w
  <2>1. Trail(f) \in 1..2
    BY DEF Trail
  <2>2. PICK w \in 1..2 : w = Trail(f)
    BY <2>1
  <2>3. QED BY <2>2
<1>7. /\ p \in Nat /\ c \in Nat /\ n \in Nat /\ q \in Nat /\ m \in Nat /\ e \in Nat /\ b \in Nat
      /\ w \in 1..2 /\ q < m
  BY <1>2
<1>8. q <= p + c + n
  <2>1. SUFFICES ASSUME p + c + n < q PROVE FALSE
    BY <1>2
  <2>2. PICK k \in (p + 1)..Len(g) : k = p + c + n + 1 /\ k \in (b + 1)..q
    <3>1. p + c + n + 1 \in (p + 1)..m /\ p + c + n + 1 \in (b + 1)..q
      BY <1>2, <1>5, <2>1
    <3>2. QED BY <3>1
  <2>3. g[k].k = "data"
    BY <1>1, <2>2 DEF DataIn
  <2>4. g[k].k \in {"end", "bad"}
    BY <1>4, <2>2 DEF Kinds
  <2>5. QED BY <2>3, <2>4
\* The end may come too early where the stream does not spell the data, but then
\* no checksum is behind it.
<1>9. ASSUME z \/ (e <= m /\ g[q + 2].k = "crc") PROVE q = p + c + n
  <2>1. SUFFICES ASSUME q < p + c + n PROVE FALSE
    BY <1>2, <1>8
  <2>2. CASE z
    <3>1. q + 1 \in (p + 1)..m /\ p + c < q + 1 /\ q + 1 <= p + c + n
      BY <1>2, <1>5, <2>1
    <3>2. g[q + 1].k = "data"
      BY <1>4, <2>2, <3>1 DEF AllData
    <3>3. QED BY <3>2
  <2>3. CASE e <= m /\ g[q + 2].k = "crc"
    <3>1. PICK k \in (p + 1)..Len(g) : k = q + 2
      <4>1. q + 2 \in (p + 1)..m
        BY ONLY <1>5, <1>6, <1>7, <2>3
      <4>2. QED BY <4>1
    <3>2. p + c < k /\ k <= p + c + n + 1
      BY ONLY <1>5, <1>7, <2>1, <3>1
    <3>3. CASE k <= p + c + n
      <4>1. g[k].k \in BodyKinds
        BY <1>4, <3>2, <3>3 DEF Kinds
      <4>2. QED BY <2>3, <3>1, <4>1 DEF BodyKinds
    <3>4. CASE k = p + c + n + 1
      <4>1. g[k].k \in {"end", "bad"}
        BY <1>4, <3>4 DEF Kinds
      <4>2. QED BY <2>3, <3>1, <4>1
    <3>5. k <= p + c + n \/ k = p + c + n + 1
      BY ONLY <1>7, <3>1, <3>2
    <3>6. QED BY <3>3, <3>4, <3>5
  <2>4. QED BY <1>9, <2>2, <2>3
<1>10. Trail(f) \in 1..2 /\ (Trail(f) = 2 => f = "gzip")
  BY DEF Trail
<1>11. ASSUME q = p + c + n PROVE e = EndOf(f, p, c, n)
  <2>1. EndOf(f, p, c, n) = p + c + n + 1 + w
    BY <1>6 DEF EndOf
  <2>2. QED BY <1>11, <1>6, <2>1
\* Behind q there is no data of this member.
<1>12. ASSUME z, NEW j \in Nat, j <= m, q <= j, j <= e PROVE ArrivedIn(g, a, j) = o
  <2>1. NoDataIn(g, q, j)
    <3>1. SUFFICES ASSUME NEW k \in (q + 1)..j PROVE g[k].k # "data"
      BY DEF NoDataIn
    <3>2. k \in (p + 1)..m
      BY <1>2, <1>5, <1>12
    <3>3. k = p + c + n + 1 \/ k = p + c + n + 2 \/ (w = 2 /\ k = p + c + n + 3)
      <4>1. q = p + c + n
        BY <1>9, <1>12
      <4>2. k <= q + 1 + w /\ q + 1 <= k
        BY <1>12, <1>6
      <4>3. k \in Int
        BY <1>7
      <4>4. QED BY ONLY <1>7, <4>1, <4>2, <4>3
    <3>4. g[k].k \in {"end", "bad", "crc", "size"}
      BY <1>4, <1>10, <1>6, <3>2, <3>3 DEF Kinds
    <3>5. QED BY <3>4
  <2>2. a <= q
    BY ONLY <1>5, <1>7
  <2>3. ArrivedIn(g, a, j) = ArrivedIn(g, a, q)
    <3>1. Len(g) \in Nat /\ j <= Len(g) /\ a \in Nat
      BY <1>12, <1>1
    <3>2. QED BY <1>12, <2>1, <2>2, <3>1, ArrivedSame
  <2>4. QED BY <1>1, <1>12, <2>3
<1>13. ASSUME z, e > m PROVE ArrivedIn(g, a, m) = o
  <2>1. m <= m /\ q <= m /\ m <= e
    BY <1>13
  <2>2. QED BY <1>12, <1>13, <2>1
<1>14. ASSUME e <= m, g[q + 2].k = "crc", g[q + 2].v = s.crc PROVE Between(z, f, g, t, a, e, o)
  <2>1. q = p + c + n /\ e = EndOf(f, p, c, n)
    BY <1>9, <1>11, <1>14
  <2>2. Crcs(g, p) < Len(t) /\ t[Crcs(g, p) + 1] = x
        /\ (g[p + c + n + 2].v \in Seq(Nat) => g[p + c + n + 2].v = x)
    BY <1>3, <1>14, <2>1 DEF Member
  <2>3. s.crc = x
    <3>1. g[p + c + n + 2].v = s.crc
      BY <1>14, <2>1
    <3>2. QED BY <1>1, <2>2, <3>1
  <2>4. e \in Bounds(f, g) /\ p < e /\ Crcs(g, e) = Crcs(g, p) + 1
    <3>1. e <= Len(g) /\ Len(g) \in Nat
      BY <1>14
    <3>2. QED BY ONLY <1>7, <1>3, <1>4, <2>1, <3>1, f \in {"gzip", "zlib"}, MemberEnd
  <2>5. PassedMore(g, t, a, p, e, x) /\ PassedIn(g, t, a, p) \in Seq(Bytes)
    BY <1>1, <1>2, <2>2, <2>4, PassesMore
  <2>6. PassedIn(g, t, a, e) = o
    BY <1>1, <2>3, <2>5 DEF PassedMore
  <2>7. IsSeq(o)
    <3>1. PICK y \in Seq(Bytes) : o = y \o x
      BY <1>1, <2>3, <2>5
    <3>2. o \in Seq(Bytes)
      BY <3>1
    <3>3. QED BY <3>2 DEF IsSeq
  <2>8. ASSUME z PROVE ArrivedIn(g, a, e) = o
    <3>1. e <= m /\ q <= e /\ e <= e
      BY ONLY <1>14, <1>6, <1>7
    <3>2. QED BY <1>12, <2>8, <3>1
  <2>9. a <= e
    BY ONLY <1>5, <1>7, <1>6
  <2>10. QED BY <1>1, <2>4, <2>6, <2>7, <2>8, <2>9 DEF Between
<1>15. QED BY <1>13, <1>14 DEF EndRead

-----------------------------------------------------------------------------
(***************************************************************************)
(* Where a reader is behind a header, and behind a Read.                   *)
(***************************************************************************)
\* Where a reader is behind the header h at p.
After(z, f, g, t, a, p, h, o) ==
  /\ h.err = "nil" => \E b \in Nat : b = h.to /\ Within(z, f, g, t, a, p, b, b, Zero, o)
  /\ h.err = "EOF" => h.to = p /\ p = Len(g) /\ Between(z, f, g, t, a, p, o)
  /\ z /\ h.err = "UnexpectedEOF" => o = ArrivedIn(g, a, Len(g))
  /\ h.err # "nil" => h.to = p

\* The reader goes into the data, ends between two members, or fails.
LEMMA BehindHeader ==
  ASSUME NEW z, NEW f, NEW g, IsSeq(g), NEW t, Known(z, f, g, t), NEW a, NEW p, NEW o,
         Between(z, f, g, t, a, p, o), NEW h, HeaderIs(f, g, p, h)
  PROVE  After(z, f, g, t, a, p, h, o)
<1>1. PICK m \in Nat : m = Len(g)
  BY SeqFacts
<1>2. p \in Bounds(f, g) /\ a \in Nat /\ a <= p /\ (z => o = ArrivedIn(g, a, p))
  BY DEF Between
<1>3. p \in Nat /\ p <= m
  <2>1. p \in 0..m
    BY <1>1, <1>2 DEF Bounds
  <2>2. QED BY <2>1
<1>4. ASSUME h.err = "nil"
      PROVE  \E b \in Nat : b = h.to /\ Within(z, f, g, t, a, p, b, b, Zero, o)
  <2>1. p < m /\ h.to = p + HeadLen(f, g[p + 1].v) /\ h.to <= m
    BY <1>1, <1>4 DEF HeaderIs
  <2>2. PICK c \in Nat, n \in Nat, x \in Seq(Bytes) : c >= 2 /\ Member(z, f, g, t, p, c, n, x)
    BY <1>1, <1>2, <2>1 DEF Known
  <2>3. c = HeadLen(f, g[p + 1].v) /\ Kinds(f, g, p, c, n)
    BY <2>2 DEF Member
  <2>4. PICK b \in Nat : b = p + c /\ b = h.to /\ b <= m
    BY <1>3, <2>1, <2>3
  <2>5. Within(z, f, g, t, a, p, b, b, Zero, o)
    BY <1>1, <1>3, <2>1, <2>2, <2>3, <2>4, Begins
  <2>6. QED BY <2>4, <2>5
<1>5. ASSUME z, h.err = "UnexpectedEOF" PROVE o = ArrivedIn(g, a, m)
  <2>1. NoDataIn(g, p, m)
    BY <1>1, <1>5 DEF HeaderIs
  <2>2. ArrivedIn(g, a, m) = ArrivedIn(g, a, p)
    <3>1. m <= Len(g) /\ Len(g) \in Nat
      BY <1>1
    <3>2. QED BY <1>2, <1>3, <2>1, <3>1, ArrivedSame
  <2>3. QED BY <1>2, <1>5, <2>2
<1>6. h.err = "EOF" => h.to = p /\ p = m
  BY <1>1 DEF HeaderIs
<1>7. h.err # "nil" => h.to = p
  BY DEF HeaderIs
<1>8. QED BY <1>1, <1>4, <1>5, <1>6, <1>7 DEF After

\* The reader begins at a.
LEMMA Start0 ==
  ASSUME NEW z, NEW f, NEW g, IsSeq(g), NEW t \in Seq(Seq(Bytes)), NEW a \in Bounds(f, g)
  PROVE  Between(z, f, g, t, a, a, <<>>)
<1>1. Len(g) \in Nat /\ a \in 0..Len(g)
  BY SeqFacts DEF Bounds
<1>2. a \in Nat /\ a <= a
  BY <1>1
<1>3. PassedIn(g, t, a, a) = <<>>
  BY <1>2, PassedNone
<1>4. ArrivedIn(g, a, a) = <<>>
  BY <1>1, ArrivedNone
<1>5. IsSeq(<<>>)
  BY EmptySeq DEF IsSeq
<1>6. QED BY <1>2, <1>3, <1>4, <1>5 DEF Between

\* The headers that the readers come to.
LEMMA GzipHeaderAt ==
  ASSUME NEW g, g = file, IsSeq(g), NEW z, NEW t, Known(z, "gzip", g, t),
         NEW p \in Bounds("gzip", g), NEW h, h = ReadHeader(p)
  PROVE  HeaderIs("gzip", g, p, h)
<1>1. p \in 0..Len(g)
  BY DEF Bounds
<1>2. PICK m \in Nat : m = Len(g)
  BY SeqFacts
<1>3. CASE p < m
  <2>1. PICK c \in Nat, n \in Nat, x \in Seq(Bytes) : c >= 2 /\ Member(z, "gzip", g, t, p, c, n, x)
    BY <1>2, <1>3 DEF Known
  <2>2. /\ c = HeadLen("gzip", g[p + 1].v) /\ Kinds("gzip", g, p, c, n)
        /\ IsSeq(g[p + 1].v)
    BY <2>1 DEF Member
  <2>3. IsSeq(g[p + 1].v) /\ Kinds("gzip", g, p, HeadLen("gzip", g[p + 1].v), n)
    BY <2>2
  <2>4. QED BY <1>1, <2>3, ReadHeaderIs
<1>4. CASE ~(p < m)
  BY <1>1, <1>2, <1>4, ReadHeaderIs
<1>5. QED BY <1>3, <1>4

LEMMA ZlibHeaderAt ==
  ASSUME NEW g, g = file, IsSeq(g), NEW z, NEW t, Known(z, "zlib", g, t),
         NEW p \in Bounds("zlib", g), NEW d, NEW h, h = ZlibHeader(p, d)
  PROVE  /\ HeaderIs("zlib", g, p, h) /\ h.err # "EOF"
         /\ h.err = "nil" => g[p + 1].v = <<>> \/ g[p + 3].v = d
<1>1. p \in 0..Len(g)
  BY DEF Bounds
<1>2. PICK m \in Nat : m = Len(g)
  BY SeqFacts
<1>3. \E n : p < m => Kinds("zlib", g, p, HeadLen("zlib", g[p + 1].v), n)
  <2>1. CASE p < m
    <3>1. PICK c \in Nat, n \in Nat, x \in Seq(Bytes) :
            c >= 2 /\ Member(z, "zlib", g, t, p, c, n, x)
      BY <1>2, <2>1 DEF Known
    <3>2. Kinds("zlib", g, p, HeadLen("zlib", g[p + 1].v), n)
      BY <3>1 DEF Member
    <3>3. QED BY <3>2
  <2>2. QED BY <2>1
<1>4. PICK n : p < m => Kinds("zlib", g, p, HeadLen("zlib", g[p + 1].v), n)
  BY <1>3
<1>5. HeaderIs("zlib", g, p, h) /\ h.err # "EOF"
  BY <1>1, <1>2, <1>4, ZlibHeaderIs
<1>6. h.err = "nil" => g[p + 1].v = <<>> \/ g[p + 3].v = d
  BY <1>1, <1>2, <1>4, ZlibHeaderIs
<1>7. QED BY <1>5, <1>6

(***************************************************************************)
(* The reader.                                                             *)
(***************************************************************************)
Exact == clean /\ sound
Reading ==
  /\ pos \in Nat
  /\ \E p \in Nat, b \in Nat : Within(Exact, format, file, texts, first, p, b, pos, rsum, out)
\* What a Reset leaves of an earlier stream.
Remains ==
  /\ stale \in Seq(Nat) /\ (clean => stale = <<>>)
  /\ filled => rerr = "nil" /\ ret.err = "nil" /\ dec.kind # "nil"
Sane ==
  /\ first \in Bounds(format, file) /\ nested = FALSE
  /\ format = "zlib" => multistream = FALSE
  /\ rerr = ret.err \/ (format = "zlib" /\ rerr = "nil" /\ ret.err = "EOF")
  /\ busy # -1 => busy \in Nat /\ rerr = "nil" /\ ret.err # "EOF" /\ dec.kind # "nil"
ReadInv ==
  stage = "read" =>
    /\ Sane /\ Remains
    /\ rerr = "nil" /\ ret.err # "EOF" /\ dec.kind # "nil" => Reading
    /\ ret.err = "EOF" => Between(Exact, format, file, texts, first, pos, out)
                          /\ (multistream => pos = Len(file))
    /\ Exact /\ ret.err = "UnexpectedEOF" => out = ArrivedIn(file, first, Len(file))

\* ReadInv holds as long as the file is written.
LEMMA ReadInit ==
  ASSUME Init
  PROVE  ReadInv
BY DEF Init, ReadInv

\* The file gets to the reader.
LEMMA TransmitReads ==
  ASSUME FileInv, Transmit
  PROVE  ReadInv'
<1>1. Idle /\ stage = "write" /\ UNCHANGED readerVars
  BY DEF Transmit, FileInv
<1>2. /\ rerr' = "nil" /\ multistream' = FALSE /\ dec' = NoDecompressor /\ pos' = 0
      /\ nested' = FALSE /\ busy' = -1 /\ first' = 0 /\ out' = <<>>
      /\ stale' = <<>> /\ filled' = FALSE
      /\ ret' = [n |-> 0, put |-> 0, err |-> "nil"]
  BY <1>1 DEF Idle, readerVars
<1>3. dec'.kind = "nil" /\ ret'.err = "nil"
  BY <1>2 DEF NoDecompressor
<1>4. FileInv' /\ stage' = "read"
  BY TransmitKeeps DEF Transmit
<1>5. IsSeq(file')
  BY <1>4 DEF FileInv, ReadFile
<1>6. PICK g, f : g = file' /\ f = format'
  OBVIOUS
<1>7. 0 \in Bounds(f, g)
  <2>1. Len(g) \in Nat
    BY <1>5, <1>6, SeqFacts
  <2>2. QED BY <2>1 DEF Bounds
<1>8. Sane'
  BY <1>2, <1>3, <1>6, <1>7 DEF Sane
<1>9. Remains'
  <2>1. stale' \in Seq(Nat)
    BY <1>2, EmptySeq
  <2>2. QED BY <1>2, <2>1 DEF Remains
<1>10. QED BY <1>3, <1>8, <1>9 DEF ReadInv

LEMMA KnownNow ==
  ASSUME FileInv, stage = "read"
  PROVE  Known(Exact, format, file, texts)
<1>1. PICK y, z, f, g, t : /\ y = sound /\ z = Exact /\ f = format /\ g = file /\ t = texts
                           /\ Known(y, f, g, t) /\ (z => y)
  BY DEF FileInv, ReadFile, Exact
<1>2. Known(z, f, g, t)
  BY ONLY <1>1 DEF Known, Member
<1>3. QED BY <1>1, <1>2

\* Where the decompressor has got to, j, with its result r.
Now(z, f, g, t, a, j, s, o, r) ==
  /\ j <= Len(g) /\ \E p \in Nat, b \in Nat : Within(z, f, g, t, a, p, b, j, s, o)
  /\ r.err \in {"nil", "EOF", "UnexpectedEOF", "Corrupt"}
  /\ r.err # "nil" => r.err = ErrAt(g, j) /\ (j < Len(g) => ~Decodes(g[j + 1]))
  /\ r.err = "EOF" => /\ j < Len(g) /\ g[j + 1].k = "end"
                      /\ EndRead(z, f, g, t, a, j, s, o, j + 1 + Trail(f))
  /\ z /\ r.err = "UnexpectedEOF" => o = ArrivedIn(g, a, Len(g))

\* Every result of the decompressor leaves the reader within the member.
LEMMA ReadNow ==
  ASSUME FileInv, ReadInv, stage = "read", busy # -1, NEW r \in Inflated(busy),
         NEW z, z = Exact, NEW f, f = format, NEW g, g = file, NEW t, t = texts, NEW a, a = first,
         NEW s, s = Summed(rsum, Got(r)), NEW o, o = out \o Got(r)
  PROVE  \E j \in Nat : pos \in Nat /\ j = pos + r.n /\ Now(z, f, g, t, a, j, s, o, r)
<1>1. Sane /\ Reading /\ busy \in Nat
  BY DEF ReadInv, Sane
<1>2. /\ f \in {"gzip", "zlib"} /\ t \in Seq(Seq(Bytes)) /\ IsSeq(g) /\ AllTexted(g)
      /\ Known(z, f, g, t)
  BY KnownNow DEF FileInv, Types, ReadFile
<1>3. PICK m \in Nat : m = Len(g)
  BY <1>2, SeqFacts
<1>4. PICK i \in Nat, p \in Nat, b \in Nat : i = pos /\ Within(z, f, g, t, a, p, b, i, rsum, out)
  BY <1>1 DEF Reading
<1>5. i <= m
  BY <1>3, <1>4 DEF Within, InData
<1>6. PICK q \in Nat : Stops(g, i, q)
  BY <1>3, <1>4, <1>5, PlainStops
<1>7. PICK n \in Nat : Gives(g, i, q, r, n)
  BY <1>1, <1>6, InflatedGives
<1>8. PICK j \in Nat : j = i + n /\ i <= j /\ r.n = n /\ j <= q
  <2>1. i + n \in Nat /\ i <= i + n
    OBVIOUS
  <2>2. i + n <= q /\ r.n = n
    BY <1>7 DEF Gives
  <2>3. QED BY <2>1, <2>2
<1>9. q <= m
  BY <1>3, <1>6 DEF Stops
<1>10. PICK x : x = Got(r) /\ x = Text(g, i, j) /\ DataIn(g, i, j)
  BY <1>7, <1>8 DEF Gives
<1>11. r.err = "nil" \/ (r.err = ErrAt(g, q) /\ j = q)
  BY <1>7, <1>8 DEF Gives
<1>12. Within(z, f, g, t, a, p, b, j, s, o)
  <2>1. j <= m
    BY <1>8, <1>9
  <2>2. s = Summed(rsum, x) /\ o = out \o x
    BY <1>10
  <2>3. QED BY <1>2, <1>3, <1>4, <1>8, <1>10, <2>1, <2>2, ReadsOn
<1>13. r.err \in {"nil", "EOF", "UnexpectedEOF", "Corrupt"}
  BY <1>11 DEF ErrAt
<1>14. ASSUME r.err = "EOF"
       PROVE  j < m /\ g[j + 1].k = "end" /\ EndRead(z, f, g, t, a, j, s, o, j + 1 + Trail(f))
  <2>1. j = q /\ q # m /\ g[q + 1].k = "end"
    BY <1>3, <1>11, <1>14 DEF ErrAt
  <2>2. j < m
    BY <1>9, <2>1
  <2>3. PICK e \in Nat : e = j + 1 + Trail(f)
    <3>1. Trail(f) \in {1, 2}
      BY DEF Trail
    <3>2. j + 1 + Trail(f) \in Nat
      BY <3>1
    <3>3. QED BY <3>2
  <2>4. g[j + 1].k = "end"
    BY <2>1
  <2>5. EndRead(z, f, g, t, a, j, s, o, e)
    BY <1>2, <1>3, <1>12, <2>2, <2>3, <2>4, EndsAt
  <2>6. QED BY <2>2, <2>3, <2>4, <2>5
<1>15. ASSUME z, r.err = "UnexpectedEOF" PROVE o = ArrivedIn(g, a, m)
  <2>1. j = q /\ q = m
    BY <1>3, <1>11, <1>15 DEF ErrAt
  <2>2. QED BY <1>12, <1>15, <2>1 DEF Within, InData, Spelled
<1>16. Now(z, f, g, t, a, j, s, o, r)
  <2>1. j <= m
    BY <1>8, <1>9
  <2>2. r.err # "nil" => r.err = ErrAt(g, j) /\ (j < Len(g) => ~Decodes(g[j + 1]))
    BY <1>6, <1>11 DEF Stops
  <2>3. QED BY <1>3, <1>12, <1>13, <1>14, <1>15, <2>1, <2>2 DEF Now
<1>17. j = pos + r.n /\ pos \in Nat
  BY <1>4, <1>8
<1>18. QED BY <1>16, <1>17

\* Where a Read that returns the error e leaves the reader, at q.
Returned(z, f, g, t, a, q, s, o, e) ==
  /\ e = "nil" => q \in Nat /\ \E p \in Nat, b \in Nat : Within(z, f, g, t, a, p, b, q, s, o)
  /\ e = "EOF" => Between(z, f, g, t, a, q, o) /\ (multistream => q = Len(g))
  /\ z /\ e = "UnexpectedEOF" => o = ArrivedIn(g, a, Len(g))

\* What Reads keeps (ReadsLeave), for those of them that come from Returns.
LEMMA ReturnsKeep ==
  ASSUME FileInv, ReadInv, Reads, stage = "read", busy # -1, NEW r, NEW q, NEW sum, NEW n, NEW e,
         Returns(r, q, sum, n, e),
         NEW z, z = Exact,
         NEW f, f = format, NEW g, g = file, NEW t, t = texts, NEW a, a = first,
         NEW o, o = out \o Got(r),
         Returned(z, f, g, t, a, q, sum, o, e)
  PROVE  ReadInv'
<1>1. /\ file' = g /\ format' = f /\ texts' = t /\ first' = a /\ out' = o /\ pos' = q
      /\ rsum' = sum /\ rerr' = e /\ ret'.err = e /\ busy' = -1 /\ multistream' = multistream
      /\ nested' = nested /\ dec' = dec /\ stale' = stale /\ clean' = clean /\ sound' = sound
      /\ filled' => e = "nil"
  BY ReadsLeave DEF Returns
<1>2. Sane /\ Remains
  BY DEF ReadInv
<1>3. Sane'
  BY <1>1, <1>2 DEF Sane
<1>4. Exact' = z
  BY <1>1 DEF Exact
<1>5. Remains'
  <2>1. dec.kind # "nil"
    BY <1>2 DEF Sane
  <2>2. QED BY <1>1, <1>2, <2>1 DEF Remains
<1>6. e = "nil" => Reading'
  BY <1>1, <1>4 DEF Reading, Returned
<1>7. QED BY <1>1, <1>3, <1>4, <1>5, <1>6 DEF ReadInv, Returned

LEMMA ReadDataKeeps ==
  ASSUME FileInv, ReadInv, stage = "read", ReadData
  PROVE  ReadInv'
<1>1. PICK r \in Inflated(busy) : GoesOut(r)
                                  /\ Returns(r, pos + r.n, Summed(rsum, Got(r)), r.n, r.err)
  BY DEF ReadData
<1>2. busy # -1 /\ Reads
  BY DEF ReadData, Reads
<1>3. PICK z, f, g, t, a, s, o : /\ z = Exact /\ f = format /\ g = file /\ t = texts
                                 /\ a = first
                                 /\ s = Summed(rsum, Got(r)) /\ o = out \o Got(r)
  OBVIOUS
<1>4. PICK j \in Nat : j = pos + r.n /\ Now(z, f, g, t, a, j, s, o, r)
  BY <1>2, <1>3, ReadNow
<1>5. \E p \in Nat, b \in Nat : Within(z, f, g, t, a, p, b, j, s, o)
  BY <1>4 DEF Now
<1>6. z /\ r.err = "UnexpectedEOF" => o = ArrivedIn(g, a, Len(g))
  BY <1>4 DEF Now
<1>7. r.err # "EOF"
  BY <1>1 DEF GoesOut
<1>8. Returns(r, j, s, r.n, r.err)
  BY <1>1, <1>3, <1>4
<1>9. Returned(z, f, g, t, a, j, s, o, r.err)
  BY <1>5, <1>6, <1>7 DEF Returned
<1>10. QED BY <1>2, <1>3, <1>8, <1>9, ReturnsKeep

\* Without a buffer between them the decompressor leaves z.r behind the stream.
LEMMA NotNested ==
  ASSUME ReadInv, stage = "read", NEW r, NEW q \in Behind(r)
  PROVE  q = pos + r.n + 1
<1>1. nested = FALSE
  BY DEF ReadInv, Sane
<1>2. Behind(r) = {pos + r.n + 1}
  BY <1>1 DEF Behind
<1>3. QED BY <1>2

LEMMA ZlibTrailerKeeps ==
  ASSUME FileInv, ReadInv, stage = "read", ZlibTrailer
  PROVE  ReadInv'
<1>1. PICK r, q, s :
        /\ r \in Inflated(busy) /\ q \in Behind(r) /\ s = Summed(rsum, Got(r)) /\ r.err = "EOF"
        /\ IF Left(q) = 0 THEN Returns(r, q, s, r.n, "UnexpectedEOF")
           ELSE Returns(r, q + 1, s, r.n,
                        IF IsUnit(q + 1, Unit("crc", s.crc)) THEN "EOF" ELSE "Checksum")
  BY DEF ZlibTrailer
<1>2. busy # -1 /\ Reads /\ format = "zlib"
  BY DEF ZlibTrailer, Reads
<1>3. PICK z, f, g, t, a, o : /\ z = Exact /\ f = format /\ g = file /\ t = texts /\ a = first
                              /\ o = out \o Got(r)
  OBVIOUS
<1>4. PICK j \in Nat : j = pos + r.n /\ Now(z, f, g, t, a, j, s, o, r)
  BY <1>1, <1>2, <1>3, ReadNow
<1>5. q = j + 1
  BY <1>1, <1>4, NotNested
<1>6. IsSeq(g) /\ multistream = FALSE
  BY <1>2, <1>3 DEF FileInv, ReadFile, ReadInv, Sane
<1>7. PICK m \in Nat : m = Len(g)
  BY <1>6, SeqFacts
<1>8. PICK e \in Nat : e = j + 2 /\ q \in Nat /\ e = q + 1
  BY <1>5
<1>9. EndRead(z, f, g, t, a, j, s, o, e)
  <2>1. j + 1 + Trail(f) = e
    <3>1. f # "gzip"
      BY <1>2, <1>3
    <3>2. QED BY <1>8, <3>1 DEF Trail
  <2>2. QED BY <1>1, <1>4, <2>1 DEF Now
<1>10. CASE Left(q) = 0
  <2>1. e > m
    BY <1>3, <1>7, <1>8, <1>10 DEF Left
  <2>2. z => ArrivedIn(g, a, Len(g)) = o
    BY <1>7, <1>9, <2>1 DEF EndRead
  <2>3. Returns(r, q, s, r.n, "UnexpectedEOF")
    BY <1>1, <1>10
  <2>4. Returned(z, f, g, t, a, q, s, o, "UnexpectedEOF")
    BY <2>2 DEF Returned
  <2>5. QED BY <1>2, <1>3, <2>3, <2>4, ReturnsKeep
<1>11. CASE Left(q) # 0
  <2>1. e <= m
    BY <1>3, <1>7, <1>8, <1>11 DEF Left
  <2>2. CASE IsUnit(q + 1, Unit("crc", s.crc))
    <3>1. g[j + 2].k = "crc" /\ g[j + 2].v = s.crc
      BY <1>3, <1>8, <2>2 DEF IsUnit, Unit
    <3>2. Between(z, f, g, t, a, e, o)
      BY <1>7, <1>9, <2>1, <3>1 DEF EndRead
    <3>3. Returns(r, e, s, r.n, "EOF")
      BY <1>1, <1>8, <1>11, <2>2
    <3>4. Returned(z, f, g, t, a, e, s, o, "EOF")
      BY <1>6, <3>2 DEF Returned
    <3>5. QED BY <1>2, <1>3, <3>3, <3>4, ReturnsKeep
  <2>3. CASE ~IsUnit(q + 1, Unit("crc", s.crc))
    <3>1. Returns(r, e, s, r.n, "Checksum")
      BY <1>1, <1>8, <1>11, <2>3
    <3>2. Returned(z, f, g, t, a, e, s, o, "Checksum")
      BY DEF Returned
    <3>3. QED BY <1>2, <1>3, <3>1, <3>2, ReturnsKeep
  <2>4. QED BY <2>2, <2>3
<1>12. QED BY <1>10, <1>11

\* Read goes on from member to member (ungzip.go:262).
LEMMA GzipReadKeeps ==
  ASSUME FileInv, ReadInv, stage = "read", GzipRead
  PROVE  ReadInv'
<1>1. PICK r, q, s :
        /\ r \in Inflated(busy) /\ q \in Behind(r) /\ s = Summed(rsum, Got(r))
        /\ TrailerShort(r, q, s) \/ TrailerWrong(r, q, s) \/ LastMember(r, q, s)
           \/ NextHeader(r, q, s)
  BY DEF GzipRead
<1>2. busy # -1 /\ Reads
  BY DEF GzipRead, Reads
<1>3. PICK z, f, g, t, a, o : /\ z = Exact /\ f = format /\ g = file /\ t = texts /\ a = first
                              /\ o = out \o Got(r)
  OBVIOUS
<1>4. f = "gzip" /\ r.err = "EOF"
  BY <1>1, <1>3 DEF TrailerShort, TrailerWrong, LastMember, NextHeader, AtTrailer
<1>5. PICK j \in Nat : j = pos + r.n /\ Now(z, f, g, t, a, j, s, o, r)
  BY <1>1, <1>2, <1>3, ReadNow
<1>6. q = j + 1
  BY <1>1, <1>5, NotNested
<1>7. IsSeq(g) /\ Known(z, f, g, t)
  BY <1>3, KnownNow DEF FileInv, ReadFile
<1>8. PICK m \in Nat : m = Len(g)
  BY <1>7, SeqFacts
<1>9. PICK e \in Nat : e = j + 3 /\ q \in Nat /\ e = q + 2
  BY <1>6
<1>10. EndRead(z, f, g, t, a, j, s, o, e)
  <2>1. j + 1 + Trail(f) = e
    BY <1>4, <1>9 DEF Trail
  <2>2. QED BY <1>4, <1>5, <2>1 DEF Now
<1>11. CASE TrailerShort(r, q, s)
  <2>1. Left(q) < 2 /\ Returns(r, m, s, Left(q), "UnexpectedEOF")
    BY <1>3, <1>8, <1>11 DEF TrailerShort
  <2>2. e > m
    BY <1>3, <1>8, <1>9, <2>1 DEF Left
  <2>3. z => ArrivedIn(g, a, Len(g)) = o
    BY <1>8, <1>10, <2>2 DEF EndRead
  <2>4. Returned(z, f, g, t, a, m, s, o, "UnexpectedEOF")
    BY <2>3 DEF Returned
  <2>5. QED BY <1>2, <1>3, <2>1, <2>4, ReturnsKeep
<1>12. CASE TrailerWrong(r, q, s)
  <2>1. Returns(r, q + 2, s, r.n, "Checksum")
    BY <1>12 DEF TrailerWrong
  <2>2. Returned(z, f, g, t, a, q + 2, s, o, "Checksum")
    BY DEF Returned
  <2>3. QED BY <1>2, <1>3, <2>1, <2>2, ReturnsKeep
<1>13. ASSUME Left(q) >= 2, Matches(q, s) PROVE Between(z, f, g, t, a, e, o)
  <2>1. e <= m
    BY <1>3, <1>8, <1>9, <1>13 DEF Left
  <2>2. g[j + 2].k = "crc" /\ g[j + 2].v = s.crc
    <3>1. IsUnit(q + 1, Trailer(s)[1])
      BY <1>13 DEF Matches
    <3>2. Trailer(s)[1] = Unit("crc", s.crc)
      BY DEF Trailer
    <3>3. file[q + 1].k = "crc" /\ file[q + 1].v = s.crc
      BY <3>1, <3>2 DEF IsUnit, Unit
    <3>4. q + 1 = j + 2
      BY <1>6
    <3>5. QED BY <1>3, <3>3, <3>4
  <2>3. QED BY <1>8, <1>10, <2>1, <2>2 DEF EndRead
<1>14. CASE LastMember(r, q, s)
  <2>1. Left(q) >= 2 /\ Matches(q, s) /\ ~multistream /\ Returns(r, e, Zero, r.n, "EOF")
    BY <1>9, <1>14 DEF LastMember
  <2>2. Between(z, f, g, t, a, e, o)
    BY <1>13, <2>1
  <2>3. Returned(z, f, g, t, a, e, Zero, o, "EOF")
    BY <2>1, <2>2 DEF Returned
  <2>4. QED BY <1>2, <1>3, <2>1, <2>3, ReturnsKeep
<1>15. CASE NextHeader(r, q, s)
  <2>1. PICK h : h = ReadHeader(e)
    OBVIOUS
  <2>2. /\ Left(q) >= 2 /\ Matches(q, s) /\ multistream
        /\ rsum' = Zero /\ rerr' = h.err /\ pos' = h.to /\ out' = o
        /\ IF r.n = 0 /\ h.err = "nil" THEN UNCHANGED <<busy, ret>>
           ELSE busy' = -1 /\ ret' = [n |-> r.n, put |-> r.n, err |-> h.err]
        /\ Opened(h.err = "nil", "bufio")
        /\ UNCHANGED <<multistream, first, stale, clean>> /\ filled' = FALSE
    BY <1>3, <1>9, <1>15, <2>1 DEF NextHeader
  <2>3. Between(z, f, g, t, a, e, o)
    BY <1>13, <2>2
  <2>4. HeaderIs(f, g, e, h)
    <3>1. e \in Bounds(f, g)
      BY <2>3 DEF Between
    <3>2. QED BY <1>3, <1>4, <1>7, <2>1, <3>1, GzipHeaderAt
  <2>5. After(z, f, g, t, a, e, h, o)
    BY <1>7, <2>3, <2>4, BehindHeader
  <2>6. Sane /\ rerr = "nil" /\ ret.err # "EOF" /\ dec.kind # "nil" /\ nested = FALSE
        /\ ret.err = "nil"
    BY <1>2, <1>3, <1>4 DEF ReadInv, Sane
  <2>7. dec' = dec /\ nested' = FALSE
    BY <2>2, <2>6 DEF Opened
  <2>8. /\ file' = g /\ format' = f /\ texts' = t /\ first' = a /\ multistream' = multistream
        /\ sound' = sound
    BY <1>2, <1>3, <2>2, ReadsLeave
  <2>9. Exact' = z /\ Remains'
    <3>1. Remains
      BY DEF ReadInv
    <3>2. Remains'
      BY <2>2, <3>1 DEF Remains
    <3>3. QED BY <1>3, <2>2, <2>8, <3>2 DEF Exact
  <2>10. ret'.err = h.err
    <3>1. CASE r.n = 0 /\ h.err = "nil"
      BY <2>2, <2>6, <3>1
    <3>2. CASE ~(r.n = 0 /\ h.err = "nil")
      BY <2>2, <3>2
    <3>3. QED BY <3>1, <3>2
  <2>11. busy' # -1 => busy' \in Nat /\ h.err = "nil"
    <3>1. CASE r.n = 0 /\ h.err = "nil"
      BY <1>2, <2>2, <2>6, <3>1 DEF Sane
    <3>2. CASE ~(r.n = 0 /\ h.err = "nil")
      BY <2>2, <3>2
    <3>3. QED BY <3>1, <3>2
  <2>12. Sane'
    <3>1. a \in Bounds(f, g)
      BY <1>3, <2>6 DEF Sane
    <3>2. f # "zlib"
      BY <1>4
    <3>3. QED BY <2>2, <2>6, <2>7, <2>8, <2>10, <2>11, <3>1, <3>2 DEF Sane
  <2>13. rerr' = "nil" => Reading'
    <3>1. SUFFICES ASSUME rerr' = "nil" PROVE Reading'
      OBVIOUS
    <3>2. PICK b \in Nat : b = h.to /\ Within(z, f, g, t, a, e, b, b, Zero, o)
      BY <2>2, <2>5, <3>1 DEF After
    <3>3. QED BY <2>2, <2>8, <2>9, <3>2 DEF Reading
  <2>14. ret'.err = "EOF" => Between(z, f, g, t, a, pos', o) /\ pos' = Len(g)
    BY <2>2, <2>3, <2>5, <2>10 DEF After
  <2>15. z /\ ret'.err = "UnexpectedEOF" => o = ArrivedIn(g, a, Len(g))
    BY <2>5, <2>10 DEF After
  <2>16. QED BY <2>2, <2>8, <2>12, <2>13, <2>14, <2>15, <2>9 DEF ReadInv
<1>16. QED BY <1>1, <1>11, <1>12, <1>14, <1>15

\* What an earlier stream has left comes before any data.
LEMMA ReadStaleKeeps ==
  ASSUME FileInv, ReadInv, stage = "read", ReadStale
  PROVE  ReadInv'
<1>1. busy # -1 /\ Reads /\ stale # <<>>
  BY DEF ReadStale, Reads
<1>2. Sane /\ Remains /\ busy \in Nat
  BY <1>1 DEF ReadInv, Sane
<1>3. Reading /\ ret.err = "nil" /\ rerr = "nil"
  BY <1>1, <1>2 DEF ReadInv, Sane
<1>4. clean # TRUE /\ stale \in Seq(Nat) /\ ~Exact
  BY <1>1, <1>2 DEF Remains, Exact
<1>5. PICK l \in Nat, k \in Nat : l = Len(stale) /\ k = busy
  BY <1>2, <1>4
<1>6. PICK n \in 0..l : n = Min({busy, Len(stale)})
  <2>1. \E e \in {k, l} : \A d \in {k, l} : e <= d
    <3>1. k <= l \/ l <= k
      OBVIOUS
    <3>2. QED BY <3>1
  <2>2. Min({k, l}) \in {k, l} /\ \A d \in {k, l} : Min({k, l}) <= d
    BY <2>1 DEF Min
  <2>3. Min({k, l}) \in 0..l
    BY <2>2
  <2>4. QED BY <1>5, <2>3
<1>7. PICK x : x = SubSeq(stale, 1, n)
  OBVIOUS
<1>8. x \in Seq(Nat) /\ SubSeq(stale, n + 1, Len(stale)) \in Seq(Nat)
  BY <1>4, <1>5, <1>7
<1>9. PICK f, g, t, a, i, s, o :
        /\ f = format /\ g = file /\ t = texts /\ a = first /\ i = pos /\ s = rsum /\ o = out
  OBVIOUS
<1>10. PICK p \in Nat, b \in Nat : i \in Nat /\ Within(FALSE, f, g, t, a, p, b, i, s, o)
  BY <1>3, <1>4, <1>9 DEF Reading, Within, InData
<1>11. /\ rsum' = Summed(s, x) /\ out' = o \o x /\ busy' = -1 /\ filled' = FALSE
       /\ stale' = SubSeq(stale, n + 1, Len(stale)) /\ ret'.err = "nil"
       /\ UNCHANGED <<rerr, multistream, dec, pos, nested, clean, first>>
  BY <1>6, <1>7, <1>9 DEF ReadStale
<1>12. file' = g /\ format' = f /\ texts' = t /\ sound' = sound
  BY <1>1, <1>9, ReadsLeave
<1>13. ~Exact'
  BY <1>4, <1>11, <1>12 DEF Exact
<1>14. Within(FALSE, f, g, t, a, p, b, i, Summed(s, x), o \o x)
  <2>1. PICK y, u, v, w :
          y = PassedIn(g, t, a, p) /\ u = s.crc /\ v = u \o x /\ w = o \o x
    OBVIOUS
  <2>2. IsSeq(y) /\ u \in Seq(Nat) /\ o = y \o u
    BY <1>10, <2>1 DEF Within, InData
  <2>3. IsSeq(u) /\ IsSeq(x) /\ v \in Seq(Nat)
    BY <1>8, <2>1, <2>2 DEF IsSeq
  <2>4. Associate(y, u, x, o, v)
    BY <2>1, <2>2, <2>3, Associative
  <2>5. w = y \o v
    BY <2>1, <2>4 DEF Associate
  <2>6. Summed(s, x).crc = v
    BY <2>1 DEF Summed
  <2>7. InData(FALSE, g, t, a, p, b, i, Summed(s, x), w)
    BY <1>10, <2>1, <2>2, <2>3, <2>5, <2>6 DEF Within, InData
  <2>8. QED BY <1>10, <2>1, <2>7 DEF Within
<1>15. Reading'
  <2>1. \E e \in Nat, c \in Nat : Within(Exact', f, g, t, a, e, c, i, Summed(s, x), o \o x)
    BY <1>13, <1>14 DEF Within, InData
  <2>2. QED BY <1>9, <1>10, <1>11, <1>12, <2>1 DEF Reading
<1>16. Sane'
  BY <1>2, <1>3, <1>9, <1>11, <1>12 DEF Sane
<1>17. Remains'
  BY <1>4, <1>8, <1>11 DEF Remains
<1>18. QED BY <1>11, <1>15, <1>16, <1>17 DEF ReadInv

\* What a Reset leaves.
LEMMA PlainIsNat ==
  ASSUME FileInv, ReadInv, stage = "read", Reading
  PROVE  Plain \in Seq(Nat)
<1>1. PICK g : g = file /\ IsSeq(g) /\ AllTexted(g)
  BY DEF FileInv, ReadFile
<1>2. PICK m \in Nat : m = Len(g)
  BY <1>1, SeqFacts
<1>3. PICK i \in Nat : i = pos /\ i <= m
  BY <1>1, <1>2 DEF Reading, Within, InData
<1>4. PICK q \in Nat : Stops(g, i, q)
  BY <1>1, <1>2, <1>3, PlainStops
<1>5. PICK x : x = Plain
  OBVIOUS
<1>6. i <= q /\ q <= m /\ DataIn(g, i, q) /\ IsText(x, g, i, q - i)
  BY <1>2, <1>4, <1>5 DEF Stops
<1>7. PICK n \in Nat : n = q - i
  BY <1>6
<1>8. PICK y : y = Text(g, i, q)
  OBVIOUS
<1>9. IsText(y, g, i, n) /\ IsText(x, g, i, n)
  BY <1>6, <1>7, <1>8, Texts
<1>10. x = y
  BY <1>9, SameSeq DEF IsText
<1>11. y \in Seq(Nat)
  BY <1>1, <1>2, <1>6, <1>8, TextIsNat
<1>12. QED BY <1>5, <1>10, <1>11

LEMMA ResetLeaves ==
  ASSUME FileInv, ReadInv, stage = "read", stale' \in Ahead
  PROVE  stale' \in Seq(Nat)
<1>1. Remains
  BY DEF ReadInv
<1>2. CASE stale # <<>>
  BY <1>1, <1>2 DEF Ahead, Remains
<1>3. CASE stale = <<>> /\ filled /\ dec.kind = "fast"
  <2>1. Reading
    BY <1>1, <1>3 DEF ReadInv, Remains
  <2>2. PICK x \in Seq(Nat) : x = Plain
    BY <2>1, PlainIsNat
  <2>3. PICK k \in 0..Len(x) : stale' = SubSeq(x, 1, k)
    BY <1>3, <2>2 DEF Ahead
  <2>4. QED BY <2>3
<1>4. CASE stale = <<>> /\ ~(filled /\ dec.kind = "fast")
  <2>1. stale' = <<>>
    BY <1>4 DEF Ahead
  <2>2. QED BY <2>1, EmptySeq
<1>5. QED BY <1>2, <1>3, <1>4

\* A Reset of a Reader: what the header at p makes of it.
LEMMA ResetFinds ==
  ASSUME FileInv, ReadInv, stage = "read", Reads, NEW open, ResetReader(open),
         NEW f, f = format, NEW g, g = file, NEW t, t = texts,
         \A p \in {0, pos} : p \in Bounds(f, g) => HeaderIs(f, g, p, open[p]),
         f = "zlib" => \A p \in {0, pos} : p \in Bounds(f, g) => open[p].err # "EOF",
         nested' = FALSE, f = "zlib" => multistream' = FALSE
  PROVE  ReadInv' /\ first' \in Bounds(f, g) /\ rerr' = open[first'].err /\ first' \in {0, pos}
<1>1. PICK y, z : y = Exact /\ z = (Exact)'
  OBVIOUS
<1>2. IsSeq(g) /\ Known(y, f, g, t) /\ t \in Seq(Seq(Bytes))
  BY <1>1, KnownNow DEF FileInv, ReadFile, Types
<1>3. PICK p : /\ p \in {0} \cup (IF ret.err = "EOF" /\ ~multistream THEN {pos} ELSE {})
               /\ first' = p /\ out' = <<>> /\ rsum' = Zero
               /\ rerr' = open[p].err /\ ret' = [n |-> 0, put |-> 0, err |-> open[p].err]
               /\ IF open[p].err = "nil" THEN pos' = open[p].to ELSE pos' = p
  BY DEF ResetReader
<1>4. busy' = -1
  BY DEF ResetReader
<1>5. p \in Bounds(f, g)
  <2>1. CASE p = 0
    <3>1. Len(g) \in Nat
      BY <1>2, SeqFacts
    <3>2. QED BY <2>1, <3>1 DEF Bounds
  <2>2. CASE ret.err = "EOF" /\ p = pos
    <3>1. Between(y, f, g, t, first, pos, out)
      BY <1>1, <2>2 DEF ReadInv
    <3>2. QED BY <2>2, <3>1 DEF Between
  <2>3. QED BY <1>3, <2>1, <2>2
<1>6. p \in {0, pos}
  BY <1>3
<1>7. PICK h : h = open[p]
  OBVIOUS
<1>8. HeaderIs(f, g, p, h) /\ (f = "zlib" => h.err # "EOF")
  BY <1>5, <1>6, <1>7
<1>9. Between(z, f, g, t, p, p, <<>>)
  BY <1>2, <1>5, Start0
<1>10. Known(z, f, g, t)
  <2>1. sound' = sound /\ Known(sound, f, g, t)
    BY ReadsLeave DEF FileInv, ReadFile
  <2>2. PICK w : w = sound /\ Known(w, f, g, t) /\ (z => w)
    BY <1>1, <2>1 DEF Exact
  <2>3. QED BY ONLY <2>2 DEF Known, Member
<1>11. After(z, f, g, t, p, p, h, <<>>)
  BY <1>2, <1>8, <1>9, <1>10, BehindHeader
<1>12. pos' = h.to
  <2>1. h.err # "nil" => h.to = p
    BY <1>11 DEF After
  <2>2. QED BY <1>3, <1>7, <2>1
<1>13. file' = g /\ format' = f /\ texts' = t /\ rerr' = h.err /\ ret'.err = h.err
  BY <1>3, <1>7, ReadsLeave
<1>14. Sane'
  BY <1>3, <1>4, <1>5, <1>13 DEF Sane
<1>15. rerr' = "nil" => Reading'
  <2>1. SUFFICES ASSUME rerr' = "nil" PROVE Reading'
    OBVIOUS
  <2>2. PICK b \in Nat : b = h.to /\ Within(z, f, g, t, p, p, b, b, Zero, <<>>)
    BY <1>11, <1>13, <2>1 DEF After
  <2>3. p \in Nat
    <3>1. p \in 0..Len(g)
      BY <1>5 DEF Bounds
    <3>2. QED BY <3>1
  <2>4. QED BY <1>3, <1>12, <1>13, <1>1, <2>2, <2>3 DEF Reading
<1>16. ret'.err = "EOF" => Between(z, f, g, t, p, pos', <<>>) /\ pos' = Len(g)
  BY <1>11, <1>12, <1>13 DEF After
<1>17. z /\ ret'.err = "UnexpectedEOF" => <<>> = ArrivedIn(g, p, Len(g))
  BY <1>11, <1>13 DEF After
<1>18. Remains'
  <2>1. stale' \in Ahead /\ clean' = (stale' = <<>>) /\ filled' = FALSE
    BY DEF ResetReader
  <2>2. stale' \in Seq(Nat)
    BY <2>1, ResetLeaves
  <2>3. QED BY <2>1, <2>2 DEF Remains
<1>19. ReadInv'
  BY <1>3, <1>13, <1>14, <1>15, <1>16, <1>17, <1>1, <1>18 DEF ReadInv
<1>20. QED BY <1>3, <1>5, <1>6, <1>19

\* The client reads with a buffer of 4096 bytes or more.
LargeBuffer == "small" \notin Readers

LEMMA GzipResetFinds ==
  ASSUME LargeBuffer, FileInv, ReadInv, stage = "read", ResetGzipReader
  PROVE  /\ ReadInv' /\ first' \in Bounds(format, file) /\ rerr' = ReadHeader(first').err
         /\ \E r \in Readers : Opened(rerr' = "nil", r)
<1>1. PICK open : open = [p \in {0, pos} |-> ReadHeader(p)]
  OBVIOUS
<1>2. Reads /\ format = "gzip" /\ ResetReader(open)
  BY <1>1 DEF Reads, ResetGzipReader
<1>3. PICK g, t : g = file /\ t = texts
  OBVIOUS
<1>4. PICK z : IsSeq(g) /\ Known(z, "gzip", g, t)
  BY <1>2, <1>3, KnownNow DEF FileInv, ReadFile
<1>5. ASSUME NEW p \in {0, pos}, p \in Bounds("gzip", g) PROVE HeaderIs("gzip", g, p, open[p])
  <2>1. PICK h : h = ReadHeader(p) /\ open[p] = h
    BY <1>1
  <2>2. HeaderIs("gzip", g, p, h)
    BY <1>3, <1>4, <1>5, <2>1, GzipHeaderAt
  <2>3. QED BY <2>1, <2>2
<1>6. PICK r \in Readers : Opened(rerr' = "nil", r)
  BY DEF ResetGzipReader
<1>7. nested' = FALSE
  <2>1. r # "small"
    BY DEF LargeBuffer
  <2>2. nested = FALSE
    BY DEF ReadInv, Sane
  <2>3. QED BY <1>6, <2>1, <2>2 DEF Opened
<1>8. "gzip" # "zlib"
  OBVIOUS
<1>9. /\ ReadInv' /\ first' \in Bounds("gzip", g) /\ rerr' = open[first'].err
      /\ first' \in {0, pos}
  BY <1>2, <1>3, <1>5, <1>7, <1>8, ResetFinds
<1>10. QED BY <1>1, <1>2, <1>3, <1>6, <1>9

LEMMA ZlibResetFinds ==
  ASSUME LargeBuffer, FileInv, ReadInv, stage = "read", NEW d, ResetZlibReader(d), d \in Dicts
  PROVE  ReadInv' /\ first' \in Bounds(format, file) /\ rerr' = ZlibHeader(first', d).err
<1>1. PICK open : open = [p \in {0, pos} |-> ZlibHeader(p, d)]
  OBVIOUS
<1>2. Reads /\ format = "zlib" /\ ResetReader(open) /\ multistream' = multistream
  BY <1>1 DEF Reads, ResetZlibReader
<1>3. PICK g, t : g = file /\ t = texts
  OBVIOUS
<1>4. PICK z : IsSeq(g) /\ Known(z, "zlib", g, t) /\ nested = FALSE /\ multistream = FALSE
  BY <1>2, <1>3, KnownNow DEF FileInv, ReadFile, ReadInv, Sane
<1>5. ASSUME NEW p \in {0, pos}, p \in Bounds("zlib", g)
      PROVE  HeaderIs("zlib", g, p, open[p]) /\ open[p].err # "EOF"
  <2>1. PICK h : h = ZlibHeader(p, d) /\ open[p] = h
    BY <1>1
  <2>2. HeaderIs("zlib", g, p, h) /\ h.err # "EOF"
    BY <1>3, <1>4, <1>5, <2>1, ZlibHeaderAt
  <2>3. QED BY <2>1, <2>2
<1>6. nested' = FALSE
  <2>1. CASE rerr' = "nil"
    <3>1. PICK r \in Readers : ZlibOpened(file[first' + 1].v = <<"dict">>, d, r)
      BY <2>1 DEF ResetZlibReader
    <3>2. r # "small"
      BY DEF LargeBuffer
    <3>3. QED BY <3>1, <3>2 DEF ZlibOpened
  <2>2. CASE rerr' # "nil"
    BY <1>4, <2>2 DEF ResetZlibReader
  <2>3. QED BY <2>1, <2>2
<1>7. /\ ReadInv' /\ first' \in Bounds("zlib", g) /\ rerr' = open[first'].err
      /\ first' \in {0, pos}
  BY <1>2, <1>3, <1>4, <1>5, <1>6, ResetFinds
<1>8. QED BY <1>1, <1>2, <1>3, <1>7

\* ReadInv is inductive, with FileInv.
LEMMA ReadKept ==
  ASSUME LargeBuffer, FileInv, ReadInv, [Next]_vars
  PROVE  ReadInv'
<1>1. CASE UNCHANGED vars
  <2>1. UNCHANGED <<stage, format, file, texts, sound, rerr, rsum, multistream, dec, pos, nested,
                    stale, filled, clean, busy, first, out, ret>>
    BY <1>1 DEF vars, readerVars, clientVars
  <2>2. (Reading' <=> Reading) /\ (Sane' <=> Sane) /\ (Remains' <=> Remains) /\ Exact' = Exact
    BY <2>1 DEF Reading, Sane, Remains, Exact
  <2>3. QED BY <2>1, <2>2 DEF ReadInv
<1>2. CASE Transmit
  BY <1>2, TransmitReads
<1>3. CASE Writes
  <2>1. stage' = "write"
    <3>1. CASE \E n \in WriteSizes : Write(n) \/ ZlibWrite(n)
      BY <3>1 DEF Write, ZlibWrite, GzipCall, ZlibCall, Call
    <3>2. CASE Flush \/ ZlibFlush \/ Close \/ ZlibClose
      BY <3>2 DEF Flush, ZlibFlush, Close, ZlibClose, GzipCall, ZlibCall, Call
    <3>3. CASE RefuseHeader
      BY <3>3 DEF RefuseHeader, clientVars
    <3>4. CASE GzipReset \/ ZlibReset
      BY <3>4 DEF GzipReset, ZlibReset, NextMember
    <3>5. QED BY <1>3, <3>1, <3>2, <3>3, <3>4 DEF Writes
  <2>2. QED BY <2>1 DEF ReadInv
<1>4. CASE Reads
  <2>1. stage = "read" /\ UNCHANGED <<file, stage, format, texts, sound>>
    BY <1>4, ReadsLeave
  <2>2. Sane /\ Remains
    BY <2>1 DEF ReadInv
  <2>3. CASE \E n \in ReadSizes : CallRead(n)
    <3>1. PICK n \in ReadSizes : CallRead(n)
      BY <2>3
    <3>2. n \in Nat
      BY SizesOK
    <3>3. /\ dec.kind # "nil" /\ rerr = "nil" /\ ret.err # "EOF" /\ busy' = n
          /\ UNCHANGED <<rerr, rsum, multistream, dec, pos, nested, stale, filled, clean, first,
                         out, ret>>
      BY <3>1 DEF CallRead
    <3>4. Sane' /\ (Reading' <=> Reading) /\ Remains' /\ Exact' = Exact
      BY <2>1, <2>2, <3>2, <3>3 DEF Sane, Reading, Remains, Exact
    <3>5. QED BY <2>1, <3>3, <3>4 DEF ReadInv
  <2>4. CASE ReadData
    BY <2>1, <2>4, ReadDataKeeps
  <2>5. CASE GzipRead
    BY <2>1, <2>5, GzipReadKeeps
  <2>6. CASE ZlibTrailer
    BY <2>1, <2>6, ZlibTrailerKeeps
  <2>7. CASE ResetGzipReader
    BY <2>1, <2>7, GzipResetFinds
  <2>8. CASE \E d \in Dicts : ResetZlibReader(d)
    BY <2>1, <2>8, ZlibResetFinds
  <2>9. CASE \E ok \in BOOLEAN : Multistream(ok)
    <3>1. /\ format = "gzip" /\ rerr = "nil"
          /\ UNCHANGED <<rerr, rsum, dec, pos, nested, stale, filled, clean, busy, first, out,
                         ret>>
      BY <2>9 DEF Multistream
    <3>2. ret.err = "nil"
      BY <2>2, <3>1 DEF Sane
    <3>3. Sane' /\ (Reading' <=> Reading) /\ Remains' /\ Exact' = Exact
      BY <2>1, <2>2, <3>1 DEF Sane, Reading, Remains, Exact
    <3>4. QED BY <2>1, <3>1, <3>2, <3>3 DEF ReadInv
  <2>10. CASE ZlibCloseReader
    <3>1. /\ format = "zlib" /\ busy = -1 /\ rerr \in {"nil", "EOF"} /\ rerr' = "nil"
          /\ UNCHANGED <<rsum, multistream, dec, pos, nested, stale, filled, clean, busy, first,
                         out, ret>>
      BY <2>10 DEF ZlibCloseReader
    <3>2. Sane' /\ (Reading' <=> Reading) /\ Remains' /\ Exact' = Exact
      BY <2>1, <2>2, <3>1 DEF Sane, Reading, Remains, Exact
    <3>3. ret.err # "EOF" => rerr = "nil"
      BY <2>2, <3>1 DEF Sane
    <3>4. QED BY <2>1, <3>1, <3>2, <3>3 DEF ReadInv
  <2>11. CASE ReadStale
    BY <2>1, <2>11, ReadStaleKeeps
  <2>12. QED BY <1>4, <2>3, <2>4, <2>5, <2>6, <2>7, <2>8, <2>9, <2>10, <2>11 DEF Reads
<1>5. QED BY <1>1, <1>2, <1>3, <1>4, Steps

\* io.EOF means all.
LEMMA EofMeansIt ==
  ASSUME FileInv, ReadInv
  PROVE  EofMeansAll
<1>1. SUFFICES ASSUME ret.err = "EOF" PROVE EofMeansAll
  BY DEF EofMeansAll
<1>2. stage = "read"
  <2>1. stage = "write" => ret.err = "nil"
    BY DEF FileInv, Idle
  <2>2. QED BY <1>1, <2>1 DEF FileInv, Types
<1>3. Between(Exact, format, file, texts, first, pos, out) /\ (multistream => pos = Len(file))
  BY <1>1, <1>2 DEF ReadInv
<1>4. out = FlattenSeq(SubSeq(texts, MembersAt(first) + 1, MembersAt(pos)))
  BY <1>3 DEF Between, PassedIn, MembersAt, Crcs
<1>5. pos = first \/ file[pos].k \in {"crc", "size"}
  <2>1. pos \in Bounds(format, file) /\ first \in Nat /\ first <= pos
    BY <1>3 DEF Between
  <2>2. CASE pos = 0
    BY <2>1, <2>2
  <2>3. CASE file[pos].k = EndKind(format)
    BY <2>3 DEF EndKind
  <2>4. QED BY <2>1, <2>2, <2>3 DEF Bounds
<1>6. QED BY <1>3, <1>4, <1>5 DEF EofMeansAll

LEMMA ArrivedIsReadNow ==
  ASSUME FileInv, ReadInv
  PROVE  ArrivedIsRead
<1>1. SUFFICES ASSUME sound, clean, ret.err = "UnexpectedEOF" PROVE out = Arrived
  BY DEF ArrivedIsRead
<1>2. stage = "read"
  <2>1. stage = "write" => ret.err = "nil"
    BY DEF FileInv, Idle
  <2>2. QED BY <1>1, <2>1 DEF FileInv, Types
<1>3. out = ArrivedIn(file, first, Len(file))
  BY <1>1, <1>2 DEF ReadInv, Exact
<1>4. QED BY <1>3 DEF Arrived, ArrivedIn

-----------------------------------------------------------------------------
(***************************************************************************)
(* A file that was closed and has not changed.                             *)
(***************************************************************************)
\* The member at p is there to its end.
Whole(f, d, g, p, hs, x) ==
  /\ GoodHead(f, d, hs) /\ Shape(f, g, p, hs, DataOf(x, d), x)
  /\ EndOf(f, p, Len(hs), Len(x)) <= Len(g)

\* Every member of it is there to its end.
LEMMA WholeMember ==
  ASSUME NEW z, z, NEW f \in {"gzip", "zlib"}, NEW d, NEW g, NEW t, Layout(z, f, d, g, t), IsSeq(g),
         Len(g) \in Bounds(f, g), NEW p \in Bounds(f, g), p < Len(g)
  PROVE  \E hs : \E x \in Seq(Bytes) : Whole(f, d, g, p, hs, x)
<1>1. PICK hs, y, x :
         /\ hs \in Heads(f, d) /\ x \in Seq(Bytes) /\ Spells(z, d, y, x) /\ Shape(f, g, p, hs, y, x)
  BY DEF Layout, MemberAt
<1>2. y = DataOf(x, d) /\ Shape(f, g, p, hs, y, x) /\ IsBody(y) /\ Len(y) = Len(x)
  BY <1>1, DataOfIs DEF Spells
<1>3. GoodHead(f, d, hs)
  BY <1>1, GoodHeads
<1>4. PICK m \in Nat : m = Len(g)
  BY SeqFacts
<1>5. p \in Nat
  <2>1. p \in 0..m
    BY <1>4 DEF Bounds
  <2>2. QED BY <2>1
<1>6. /\ Len(hs) \in Nat /\ Len(hs) >= 2 /\ Len(y) \in Nat
      /\ Kinds(f, g, p, Len(hs), Len(y))
  BY <1>2, <1>3, <1>5, <1>1, ShapeKinds
<1>7. PICK c \in Nat, n \in Nat : c = Len(hs) /\ n = Len(x) /\ c >= 2 /\ Kinds(f, g, p, c, n)
  BY <1>2, <1>6
<1>8. EndOf(f, p, c, n) <= m
  <2>1. m \in Bounds(f, g) /\ p < m
    BY <1>4
  <2>2. QED BY <1>4, <1>5, <1>7, <2>1, NextBound
<1>9. Whole(f, d, g, p, hs, x)
  BY <1>2, <1>3, <1>4, <1>7, <1>8 DEF Whole
<1>10. QED BY <1>9, <1>1

\* Its units.
IsWhole(f, d, g, p, c, n, hs, x) ==
  /\ \A k \in 1..c : g[p + k] = hs[k]
  /\ \A k \in 1..n : g[p + c + k] = DataUnit(x[k], d)
  /\ g[p + c + n + 1] = Unit("end", 0) /\ g[p + c + n + 2] = Unit("crc", x)
  /\ f = "gzip" => g[p + c + n + 3] = Unit("size", n % SizeMod)

\* Its header, its data and its trailer are what the writer wrote.
LEMMA WholeUnits ==
  ASSUME NEW f \in {"gzip", "zlib"}, NEW d, NEW g, NEW m \in Nat, m = Len(g), NEW p \in Nat,
         NEW hs, NEW x \in Seq(Bytes), Whole(f, d, g, p, hs, x), NEW c \in Nat, c = Len(hs),
         NEW n \in Nat, n = Len(x)
  PROVE  /\ IsWhole(f, d, g, p, c, n, hs, x)
         /\ p + c + n + 2 <= m /\ (f = "gzip" => p + c + n + 3 <= m)
<1>1. p + c + n + 2 <= m /\ (f = "gzip" => p + c + n + 3 <= m)
  <2>1. EndOf(f, p, c, n) <= m
    BY DEF Whole
  <2>2. PICK w \in {1, 2} : w = Trail(f) /\ (f = "gzip" => w = 2)
    BY DEF Trail
  <2>3. p + c + n + 1 + w <= m
    BY <2>1, <2>2 DEF EndOf
  <2>4. QED BY <2>2, <2>3
<1>2. ASSUME NEW k \in (p + 1)..m
      PROVE  /\ k <= p + c => g[k] = hs[k - p]
             /\ p + c < k /\ k <= p + c + n => g[k] = DataUnit(x[k - p - c], d)
             /\ k = p + c + n + 1 => g[k] = Unit("end", 0)
             /\ k = p + c + n + 2 => g[k] = Unit("crc", x)
             /\ f = "gzip" /\ k = p + c + n + 3 => g[k] = Unit("size", n % SizeMod)
  <2>1. PICK y : /\ y = DataOf(x, d) /\ Shape(f, g, p, hs, y, x) /\ Len(y) = n
                 /\ \A i \in 1..n : y[i] = DataUnit(x[i], d)
    BY DataOfIs DEF Whole
  <2>2. /\ k <= p + c => g[k] = hs[k - p]
        /\ p + c < k /\ k <= p + c + n => g[k] = y[k - p - c]
        /\ k = p + c + n + 1 => g[k] = Unit("end", 0)
        /\ k = p + c + n + 2 => g[k] = Unit("crc", x)
        /\ f = "gzip" /\ k = p + c + n + 3 => g[k] = Unit("size", n % SizeMod)
    BY <2>1 DEF Shape
  <2>3. ASSUME p + c < k, k <= p + c + n PROVE g[k] = DataUnit(x[k - p - c], d)
    <3>1. k \in Nat /\ p \in Nat /\ c \in Nat /\ n \in Nat
      OBVIOUS
    <3>2. k - p - c \in 1..n
      BY ONLY <2>3, <3>1
    <3>3. y[k - p - c] = DataUnit(x[k - p - c], d)
      BY <2>1, <3>2
    <3>4. QED BY <2>2, <2>3, <3>3
  <2>4. QED BY <2>2, <2>3
<1>3. ASSUME NEW i \in 1..c PROVE g[p + i] = hs[i]
  <2>1. PICK k \in (p + 1)..m : k = p + i /\ k <= p + c /\ k - p = i
    <3>1. p + i \in (p + 1)..m /\ p + i <= p + c /\ (p + i) - p = i
      BY <1>1
    <3>2. QED BY <3>1
  <2>2. QED BY <1>2, <2>1
<1>4. ASSUME NEW i \in 1..n PROVE g[p + c + i] = DataUnit(x[i], d)
  <2>1. PICK k \in (p + 1)..m : k = p + c + i /\ p + c < k /\ k <= p + c + n /\ k - p - c = i
    <3>1. /\ p + c + i \in (p + 1)..m /\ p + c < p + c + i /\ p + c + i <= p + c + n
          /\ (p + c + i) - p - c = i
      BY <1>1
    <3>2. QED BY <3>1
  <2>2. QED BY <1>2, <2>1
<1>5. g[p + c + n + 1] = Unit("end", 0) /\ g[p + c + n + 2] = Unit("crc", x)
  <2>1. p + c + n + 1 \in (p + 1)..m /\ p + c + n + 2 \in (p + 1)..m
    BY <1>1
  <2>2. QED BY <1>2, <2>1
<1>6. f = "gzip" => g[p + c + n + 3] = Unit("size", n % SizeMod)
  <2>1. SUFFICES ASSUME f = "gzip" PROVE g[p + c + n + 3] = Unit("size", n % SizeMod)
    OBVIOUS
  <2>2. p + c + n + 3 \in (p + 1)..m
    BY <1>1, <2>1
  <2>3. QED BY <1>2, <2>1, <2>2
<1>7. IsWhole(f, d, g, p, c, n, hs, x)
  BY <1>3, <1>4, <1>5, <1>6 DEF IsWhole
<1>8. QED BY <1>1, <1>7

\* Only a string that is too long keeps gzip's reader from reading a header.
LEMMA IntactGzipHeader ==
  ASSUME NEW d, NEW g, g = file, IsSeq(g), NEW p \in Nat, NEW hs, NEW x \in Seq(Bytes),
         Whole("gzip", d, g, p, hs, x), NEW h, h = ReadHeader(p)
  PROVE  h.err = "nil" \/ (h.err = "Header" /\ \E i \in DOMAIN file : TooLong(file[i]))
<1>1. PICK m \in Nat : m = Len(g) /\ DOMAIN g = 1..m
  BY SeqFacts
<1>2. GoodHead("gzip", d, hs)
  BY DEF Whole
<1>3. PICK c \in Nat : c = Len(hs) /\ c >= 2
  <2>1. IsSeq(hs) /\ Len(hs) >= 2
    BY <1>2 DEF GoodHead, IsFile
  <2>2. QED BY <2>1, SeqFacts
<1>4. PICK v : v = hs[1].v
  OBVIOUS
<1>5. /\ IsSeq(v) /\ hs[1].k = "head" /\ hs[2].k = "head" /\ c = HeadLen("gzip", v)
      /\ (v # <<>> /\ Last(v) = "hcrc" => hs[c].v = Front(hs)) /\ IsSeq(hs)
  BY <1>2, <1>3, <1>4 DEF GoodHead, IsFile
<1>6. PICK l \in Nat : l = Len(v) /\ c = 2 + l
  <2>1. PICK l \in Nat : l = Len(v)
    BY <1>5, SeqFacts
  <2>2. c = 2 + l
    BY <1>5, <2>1 DEF HeadLen
  <2>3. QED BY <2>1, <2>2
<1>7. PICK n \in Nat : n = Len(x)
  OBVIOUS
<1>8. IsWhole("gzip", d, g, p, c, n, hs, x) /\ p + c + n + 3 <= m
  BY <1>1, <1>3, <1>7, WholeUnits
<1>9. \A k \in 1..c : g[p + k] = hs[k]
  BY <1>8 DEF IsWhole
<1>10. g[p + 1].v = v
  <2>1. 1 \in 1..c
    BY <1>3
  <2>2. QED BY <1>4, <1>9, <2>1
<1>11. PICK th : th = SubSeq(g, p + 1, Min({p + 2 + l, m}))
  OBVIOUS
<1>12. There(g, p, l, th)
  <2>1. p < Len(g)
    BY <1>1, <1>3, <1>8
  <2>2. QED BY <1>1, <1>11, <2>1, TheresIs
<1>13. th = hs
  <2>1. p + 2 + l <= m
    BY <1>6, <1>8
  <2>2. IsSeq(th) /\ Len(th) = c /\ \A i \in 1..c : th[i] = g[p + i]
    BY <1>1, <1>6, <1>12, <2>1 DEF There
  <2>3. \A i \in 1..c : th[i] = hs[i]
    BY <1>9, <2>2
  <2>4. QED BY <1>3, <1>5, <2>2, <2>3, SameSeq
<1>14. Left(p) # 0 /\ Left(p) # 1
  BY <1>1, <1>3, <1>8 DEF Left
<1>15. ~(\E i \in {1, 2} : th[i].k # "head")
  BY <1>5, <1>13
<1>16. ~(Len(th) < 2 + Len(v))
  <2>1. Len(th) = c
    BY <1>3, <1>13
  <2>2. ~(c < 2 + l)
    BY <1>6
  <2>3. QED BY <1>6, <2>1, <2>2
<1>17. v # <<>> /\ Last(v) = "hcrc" => Last(th).v = Front(th)
  <2>1. Last(hs) = hs[c]
    BY <1>3 DEF Last
  <2>2. QED BY <1>5, <1>13, <2>1
<1>18. (\E i \in 3..Len(th) : TooLong(th[i])) => \E i \in DOMAIN file : TooLong(file[i])
  <2>1. ASSUME NEW i \in 3..c, TooLong(hs[i]) PROVE \E j \in 1..m : TooLong(g[j])
    <3>1. i \in 1..c /\ p + i \in 1..m
      BY <1>8, <2>1
    <3>2. g[p + i] = hs[i]
      BY <1>9, <3>1
    <3>3. TooLong(g[p + i])
      BY <2>1, <3>2
    <3>4. QED BY <3>1, <3>3
  <2>2. QED BY <1>1, <1>3, <1>13, <2>1
<1>19. \/ h.err = "nil"
       \/ h.err = "Header" /\ \E i \in 3..Len(th) : TooLong(th[i])
  BY <1>1, <1>6, <1>10, <1>11, <1>14, <1>15, <1>16, <1>17 DEF ReadHeader
<1>20. QED BY <1>18, <1>19

\* And only another dictionary keeps zlib's from it.
DictFits(d, w, g, p, h) == h.err = "nil" => d = None \/ (d = w /\ g[p + 1].v = <<"dict">>)

LEMMA IntactZlibHeader ==
  ASSUME NEW d, NEW g, g = file, IsSeq(g), NEW p \in Nat, NEW hs, NEW x \in Seq(Bytes),
         Whole("zlib", d, g, p, hs, x), NEW w, NEW h, h = ZlibHeader(p, w)
  PROVE  /\ h.err \in {"nil", "Dictionary"}
         /\ DictFits(d, w, g, p, h)
<1>1. PICK m \in Nat : m = Len(g)
  BY SeqFacts
<1>2. GoodHead("zlib", d, hs)
  BY DEF Whole
<1>3. PICK c \in Nat : c = Len(hs) /\ c >= 2
  <2>1. IsSeq(hs) /\ Len(hs) >= 2
    BY <1>2 DEF GoodHead, IsFile
  <2>2. QED BY <2>1, SeqFacts
<1>4. PICK v : v = hs[1].v
  OBVIOUS
<1>5. /\ hs[1].k = "head" /\ hs[2].k = "head" /\ c = HeadLen("zlib", v)
      /\ (d = None /\ v = <<>>) \/ (d # None /\ v = <<"dict">> /\ hs[3].v = d)
  BY <1>2, <1>3, <1>4 DEF GoodHead
<1>6. PICK n \in Nat : n = Len(x)
  OBVIOUS
<1>7. IsWhole("zlib", d, g, p, c, n, hs, x) /\ p + c + n + 2 <= m
  BY <1>1, <1>3, <1>6, WholeUnits
<1>8. \A k \in 1..c : g[p + k] = hs[k]
  BY <1>7 DEF IsWhole
<1>9. g[p + 1] = hs[1] /\ g[p + 2] = hs[2]
  <2>1. 1 \in 1..c /\ 2 \in 1..c
    BY <1>3
  <2>2. QED BY <1>8, <2>1
<1>10. Left(p) >= 4 /\ Left(p) # 2 /\ ~(Left(p) < 2)
  <2>1. Left(p) = m - p
    BY <1>1, <1>3, <1>7 DEF Left
  <2>2. m - p >= 4
    BY <1>3, <1>7
  <2>3. QED BY <2>1, <2>2
<1>11. ~(\E i \in {1, 2} : g[p + i].k # "head") /\ g[p + 1].v = v
  BY <1>4, <1>5, <1>9
<1>12. \/ v = <<>> /\ h = [to |-> p + 2, err |-> "nil"]
       \/ v # <<>> /\ h = [to |-> p, err |-> "Dictionary"]
       \/ v # <<>> /\ g[p + 3].v = w /\ h = [to |-> p + 3, err |-> "nil"]
  BY <1>10, <1>11 DEF ZlibHeader
<1>13. <<"dict">> # <<>>
  OBVIOUS
<1>14. d # None => g[p + 3].v = d
  <2>1. SUFFICES ASSUME d # None PROVE g[p + 3].v = d
    OBVIOUS
  <2>2. v = <<"dict">> /\ hs[3].v = d
    BY <1>5, <2>1
  <2>3. c = 3
    <3>1. "zlib" # "gzip"
      OBVIOUS
    <3>2. QED BY <1>5, <1>13, <2>2, <3>1 DEF HeadLen
  <2>4. 3 \in 1..c
    BY <2>3
  <2>5. QED BY <1>8, <2>2, <2>4
<1>15. h.err \in {"nil", "Dictionary"}
  BY <1>12
<1>16. h.err = "nil" => (d = None \/ (d = w /\ g[p + 1].v = <<"dict">>))
  <2>1. SUFFICES ASSUME h.err = "nil", d # None PROVE d = w /\ g[p + 1].v = <<"dict">>
    OBVIOUS
  <2>2. v = <<"dict">> /\ v # <<>>
    BY <1>5, <1>13, <2>1
  <2>3. g[p + 3].v = w
    BY <1>12, <2>1, <2>2
  <2>4. QED BY <1>11, <1>14, <2>1, <2>2, <2>3
<1>17. QED BY <1>15, <1>16 DEF DictFits

\* The errors that there may be, and the dictionary.
Allowed(g, e) ==
  e \in {"nil", "EOF", "Dictionary"} \/ (e = "Header" /\ \E i \in DOMAIN g : TooLong(g[i]))
IntactInv ==
  stage = "read" /\ intact =>
    /\ clean /\ first < Len(file) => Allowed(file, ret.err)
    /\ dec = [kind |-> dec.kind, dict |-> dec.dict]
    /\ dec.kind # "nil" /\ Dict # None => dec.kind = "std"
    /\ rerr = "nil" /\ ret.err # "EOF" /\ dec.kind # "nil" /\ Dict # None => dec.dict = Dict

\* The decompressor fails nowhere, and the trailer is there, and right.
IntactEnd(f, g, j, s, e) ==
  /\ e \in {"nil", "EOF"}
  /\ e = "EOF" => /\ j + 2 <= Len(g) /\ g[j + 2] = Unit("crc", s.crc)
                  /\ f = "gzip" => j + 3 <= Len(g) /\ g[j + 3] = Unit("size", s.size)

\* The decompressor fails nowhere in a whole file.
LEMMA IntactNow ==
  ASSUME FileInv, ReadInv, IntactInv, stage = "read", intact, clean, busy # -1,
         NEW z, z = Exact,
         NEW f, f = format, NEW g, g = file, NEW t, NEW a, NEW j \in Nat, NEW s, NEW o, NEW r,
         Now(z, f, g, t, a, j, s, o, r), NEW e, e = r.err
  PROVE  IntactEnd(f, g, j, s, e)
<1>1. PICK d : d = Dict
  OBVIOUS
<1>2. /\ f \in {"gzip", "zlib"} /\ Layout(sound, f, d, g, texts) /\ Len(g) \in Bounds(f, g)
      /\ IsSeq(g) /\ sound /\ z
  BY <1>1 DEF FileInv, Types, ReadFile, Exact
<1>3. PICK m \in Nat : m = Len(g)
  BY <1>2, SeqFacts
<1>4. PICK p \in Nat, b \in Nat : Within(z, f, g, t, a, p, b, j, s, o)
  BY DEF Now
<1>5. /\ p \in Bounds(f, g) /\ p < m /\ b = p + HeadLen(f, g[p + 1].v)
      /\ b <= j /\ j <= m /\ DataIn(g, b, j) /\ s.crc = Text(g, b, j) /\ s.size = (j - b) % SizeMod
  BY <1>2, <1>3, <1>4 DEF Within, InData, Spelled
<1>6. PICK hs : \E x \in Seq(Bytes) : Whole(f, d, g, p, hs, x)
  BY <1>2, <1>3, <1>5, WholeMember
<1>7. PICK x \in Seq(Bytes) : Whole(f, d, g, p, hs, x)
  BY <1>6
<1>8. GoodHead(f, d, hs)
  BY <1>7 DEF Whole
<1>9. PICK c \in Nat, n \in Nat : c = Len(hs) /\ n = Len(x) /\ c >= 2 /\ c = HeadLen(f, hs[1].v)
  <2>1. IsSeq(hs) /\ Len(hs) >= 2 /\ Len(hs) = HeadLen(f, hs[1].v)
    BY <1>8 DEF GoodHead, IsFile
  <2>2. Len(hs) \in Nat /\ Len(x) \in Nat
    BY <2>1, SeqFacts
  <2>3. QED BY <2>1, <2>2
<1>10. IsWhole(f, d, g, p, c, n, hs, x) /\ p + c + n + 2 <= m /\ (f = "gzip" => p + c + n + 3 <= m)
  BY <1>2, <1>3, <1>7, <1>9, WholeUnits
<1>11. /\ \A k \in 1..c : g[p + k] = hs[k]
       /\ \A k \in 1..n : g[p + c + k] = DataUnit(x[k], d)
       /\ g[p + c + n + 1] = Unit("end", 0) /\ g[p + c + n + 2] = Unit("crc", x)
       /\ f = "gzip" => g[p + c + n + 3] = Unit("size", n % SizeMod)
  BY <1>10 DEF IsWhole
<1>12. b = p + c
  <2>1. 1 \in 1..c
    BY <1>9
  <2>2. g[p + 1] = hs[1]
    BY <1>11, <2>1
  <2>3. QED BY <1>5, <1>9, <2>2
<1>13. PICK l \in Nat : l = p + c + n /\ b <= l
  <2>1. p + c + n \in Nat /\ b <= p + c + n
    BY <1>12
  <2>2. QED BY <2>1
<1>14. g[l + 1] = Unit("end", 0) /\ g[l + 2] = Unit("crc", x)
       /\ (f = "gzip" => g[l + 3] = Unit("size", n % SizeMod))
       /\ l + 2 <= m /\ (f = "gzip" => l + 3 <= m)
  BY <1>10, <1>11, <1>13
<1>15. j <= l
  <2>1. SUFFICES ASSUME l < j PROVE FALSE
    OBVIOUS
  <2>2. l + 1 \in (b + 1)..j
    BY <1>13, <2>1
  <2>3. g[l + 1].k = "data"
    BY <1>5, <2>2 DEF DataIn
  <2>4. QED BY <1>14, <2>3 DEF Unit
<1>16. ASSUME e # "nil" PROVE j = l /\ e = "EOF"
  <2>1. e = ErrAt(g, j) /\ (j < m => ~Decodes(g[j + 1]))
    BY <1>3, <1>16 DEF Now
  <2>2. CASE j < l
    <3>1. PICK k \in 1..n : p + c + k = j + 1
      <4>1. b \in Nat /\ j \in Nat /\ p \in Nat /\ c \in Nat /\ n \in Nat /\ l \in Nat /\ b <= j
        BY <1>5
      <4>2. (j + 1) - b \in 1..n /\ p + c + ((j + 1) - b) = j + 1
        BY ONLY <1>12, <1>13, <2>2, <4>1
      <4>3. QED BY <4>2
    <3>2. g[j + 1] = DataUnit(x[k], d)
      BY <1>11, <3>1
    <3>3. d = None \/ (dec.kind = "std" /\ dec.dict = d)
      <4>1. rerr = "nil" /\ ret.err # "EOF" /\ dec.kind # "nil"
        BY DEF ReadInv, Sane
      <4>2. QED BY <1>1, <4>1 DEF IntactInv
    <3>4. Decodes(g[j + 1])
      BY <3>2, <3>3 DEF Decodes, DataUnit, Unit
    <3>5. j < m
      BY <1>14, <2>2
    <3>6. QED BY <2>1, <3>4, <3>5
  <2>3. CASE j = l
    <3>1. j # m
      BY <1>14, <2>3
    <3>2. g[j + 1].k = "end"
      BY <1>14, <2>3 DEF Unit
    <3>3. QED BY <1>3, <2>1, <2>3, <3>1, <3>2 DEF ErrAt
  <2>4. j < l \/ j = l
    BY <1>15
  <2>5. QED BY <2>2, <2>3, <2>4
<1>17. ASSUME j = l PROVE s.crc = x /\ s.size = n % SizeMod
  <2>1. j - b = n
    BY <1>12, <1>13, <1>17
  <2>2. PICK y : y = Text(g, b, j)
    OBVIOUS
  <2>3. IsText(y, g, b, n)
    BY <1>5, <2>1, <2>2, Texts
  <2>4. IsSeq(y) /\ Len(y) = n /\ \A k \in 1..n : y[k] = g[b + k].v.text
    BY <2>3 DEF IsText
  <2>5. \A k \in 1..n : y[k] = x[k]
    <3>1. TAKE k \in 1..n
    <3>2. g[b + k] = DataUnit(x[k], d)
      BY <1>11, <1>12
    <3>3. g[b + k].v.text = x[k]
      BY <3>2 DEF DataUnit, Unit
    <3>4. QED BY <2>4, <3>3
  <2>6. IsSeq(x)
    BY DEF IsSeq
  <2>7. y = x
    BY <1>9, <2>4, <2>5, <2>6, SameSeq
  <2>8. QED BY <1>5, <2>1, <2>2, <2>7
<1>18. e \in {"nil", "EOF"}
  BY <1>16
<1>19. e = "EOF" => /\ j + 2 <= m /\ g[j + 2] = Unit("crc", s.crc)
                    /\ f = "gzip" => j + 3 <= m /\ g[j + 3] = Unit("size", s.size)
  <2>1. SUFFICES ASSUME e = "EOF"
                 PROVE  /\ j + 2 <= m /\ g[j + 2] = Unit("crc", s.crc)
                        /\ f = "gzip" => j + 3 <= m /\ g[j + 3] = Unit("size", s.size)
    OBVIOUS
  <2>2. e # "nil"
    BY <2>1
  <2>3. j = l
    BY <1>16, <2>2
  <2>4. QED BY <1>14, <1>17, <2>3
<1>20. QED BY <1>3, <1>18, <1>19 DEF IntactEnd

\* Where the file is whole, so is what is known of the header at p.
LEMMA IntactHeader ==
  ASSUME FileInv, stage = "read", intact, NEW f, f = format, NEW g, g = file,
         NEW p \in Bounds(f, g), p < Len(g)
  PROVE  \E hs : \E x \in Seq(Bytes) : p \in Nat /\ Whole(f, Dict, g, p, hs, x)
<1>1. /\ f \in {"gzip", "zlib"} /\ Layout(sound, f, Dict, g, texts) /\ Len(g) \in Bounds(f, g)
      /\ IsSeq(g) /\ sound
  BY DEF FileInv, Types, ReadFile
<1>2. PICK d : d = Dict
  OBVIOUS
<1>3. \E hs : \E x \in Seq(Bytes) : Whole(f, d, g, p, hs, x)
  BY <1>1, <1>2, WholeMember
<1>4. p \in Nat
  <2>1. p \in 0..Len(g) /\ Len(g) \in Nat
    BY <1>1, SeqFacts DEF Bounds
  <2>2. QED BY <2>1
<1>5. QED BY <1>2, <1>3, <1>4

\* No other error comes from the header.
LEMMA AllowedGzip ==
  ASSUME FileInv, stage = "read", intact, format = "gzip", NEW p \in Bounds("gzip", file),
         NEW e, e = ReadHeader(p).err
  PROVE  p < Len(file) => Allowed(file, e)
<1>1. SUFFICES ASSUME p < Len(file) PROVE Allowed(file, e)
  OBVIOUS
<1>2. PICK g, d : g = file /\ d = Dict
  OBVIOUS
<1>3. \E hs : \E x \in Seq(Bytes) : p \in Nat /\ Whole("gzip", d, g, p, hs, x)
  BY <1>1, <1>2, IntactHeader
<1>4. PICK hs : \E x \in Seq(Bytes) : p \in Nat /\ Whole("gzip", d, g, p, hs, x)
  BY <1>3
<1>5. PICK x \in Seq(Bytes) : p \in Nat /\ Whole("gzip", d, g, p, hs, x)
  BY <1>4
<1>6. IsSeq(g)
  BY <1>2 DEF FileInv, ReadFile
<1>7. PICK h : h = ReadHeader(p)
  OBVIOUS
<1>8. h.err = "nil" \/ (h.err = "Header" /\ \E i \in DOMAIN file : TooLong(file[i]))
  BY <1>2, <1>5, <1>6, <1>7, IntactGzipHeader
<1>9. QED BY <1>7, <1>8 DEF Allowed

LEMMA AllowedZlib ==
  ASSUME FileInv, stage = "read", intact, format = "zlib", NEW p \in Bounds("zlib", file),
         NEW w, NEW e, e = ZlibHeader(p, w).err, p < Len(file)
  PROVE  /\ Allowed(file, e)
         /\ e = "nil" /\ Dict # None => w = Dict /\ file[p + 1].v = <<"dict">>
<1>1. PICK g, d : g = file /\ d = Dict
  OBVIOUS
<1>2. \E hs : \E x \in Seq(Bytes) : p \in Nat /\ Whole("zlib", d, g, p, hs, x)
  BY <1>1, IntactHeader
<1>3. PICK hs : \E x \in Seq(Bytes) : p \in Nat /\ Whole("zlib", d, g, p, hs, x)
  BY <1>2
<1>4. PICK x \in Seq(Bytes) : p \in Nat /\ Whole("zlib", d, g, p, hs, x)
  BY <1>3
<1>5. IsSeq(g)
  BY <1>1 DEF FileInv, ReadFile
<1>6. PICK h : h = ZlibHeader(p, w)
  OBVIOUS
<1>7. /\ h.err \in {"nil", "Dictionary"}
      /\ h.err = "nil" => (d = None \/ (d = w /\ g[p + 1].v = <<"dict">>))
  <2>1. h.err \in {"nil", "Dictionary"}
    BY <1>1, <1>4, <1>5, <1>6, IntactZlibHeader
  <2>2. DictFits(d, w, g, p, h)
    BY <1>1, <1>4, <1>5, <1>6, IntactZlibHeader
  <2>3. QED BY <2>1, <2>2 DEF DictFits
<1>8. QED BY <1>1, <1>6, <1>7 DEF Allowed

\* Reads that neither begin anew nor make a decompressor.
LEMMA GoesOnIntact ==
  ASSUME FileInv, IntactInv, Reads, stage = "read", first' = first, dec' = dec,
         clean' = clean, intact /\ clean => Allowed(file, ret'.err) \/ ret'.err = ret.err,
         rerr' = "nil" /\ ret'.err # "EOF" => rerr = "nil" /\ ret.err # "EOF"
  PROVE  IntactInv'
<1>1. UNCHANGED <<file, stage, format, intact, head>>
  BY ReadsLeave
<1>2. Dict' = Dict
  BY <1>1 DEF Dict
<1>3. intact /\ clean /\ first < Len(file) => Allowed(file, ret'.err)
  BY DEF IntactInv
<1>4. intact => /\ dec = [kind |-> dec.kind, dict |-> dec.dict]
                /\ dec.kind # "nil" /\ Dict # None => dec.kind = "std"
                /\ rerr = "nil" /\ ret.err # "EOF" /\ dec.kind # "nil" /\ Dict # None
                     => dec.dict = Dict
  BY DEF IntactInv
<1>5. QED BY <1>1, <1>2, <1>3, <1>4 DEF IntactInv

\* IntactInv is inductive, with FileInv and ReadInv.
LEMMA ReadDataIntact ==
  ASSUME FileInv, ReadInv, IntactInv, stage = "read", ReadData
  PROVE  IntactInv'
<1>1. PICK r \in Inflated(busy) : GoesOut(r)
                                  /\ Returns(r, pos + r.n, Summed(rsum, Got(r)), r.n, r.err)
  BY DEF ReadData
<1>2. busy # -1 /\ Reads
  BY DEF ReadData, Reads
<1>3. first' = first /\ dec' = dec /\ clean' = clean /\ ret'.err = r.err
  BY <1>1 DEF Returns
<1>4. rerr = "nil" /\ ret.err # "EOF"
  BY <1>2 DEF ReadInv, Sane
<1>5. ASSUME intact, clean PROVE Allowed(file, ret'.err)
  <2>1. PICK z, f, g, t, a, s, o, e :
          /\ z = Exact /\ f = format /\ g = file /\ t = texts /\ a = first
          /\ s = Summed(rsum, Got(r)) /\ o = out \o Got(r) /\ e = r.err
    OBVIOUS
  <2>2. PICK j \in Nat : Now(z, f, g, t, a, j, s, o, r)
    BY <1>2, <2>1, ReadNow
  <2>3. IntactEnd(f, g, j, s, e)
    BY <1>2, <1>5, <2>1, <2>2, IntactNow
  <2>4. QED BY <1>3, <2>1, <2>3 DEF IntactEnd, Allowed
<1>6. QED BY <1>2, <1>3, <1>4, <1>5, GoesOnIntact

LEMMA ZlibTrailerIntact ==
  ASSUME FileInv, ReadInv, IntactInv, stage = "read", ZlibTrailer
  PROVE  IntactInv'
<1>1. PICK r, q, s :
        /\ r \in Inflated(busy) /\ q \in Behind(r) /\ s = Summed(rsum, Got(r)) /\ r.err = "EOF"
        /\ IF Left(q) = 0 THEN Returns(r, q, s, r.n, "UnexpectedEOF")
           ELSE Returns(r, q + 1, s, r.n,
                        IF IsUnit(q + 1, Unit("crc", s.crc)) THEN "EOF" ELSE "Checksum")
  BY DEF ZlibTrailer
<1>2. busy # -1 /\ Reads
  BY DEF ZlibTrailer, Reads
<1>3. first' = first /\ dec' = dec /\ clean' = clean
  BY <1>1 DEF Returns
<1>4. rerr = "nil" /\ ret.err # "EOF"
  BY <1>2 DEF ReadInv, Sane
<1>5. ASSUME intact, clean PROVE Allowed(file, ret'.err)
  <2>1. PICK z, f, g, t, a, o, e :
          /\ z = Exact /\ f = format /\ g = file /\ t = texts /\ a = first
          /\ o = out \o Got(r) /\ e = r.err
    OBVIOUS
  <2>2. PICK j \in Nat : j = pos + r.n /\ Now(z, f, g, t, a, j, s, o, r)
    BY <1>1, <1>2, <2>1, ReadNow
  <2>3. IntactEnd(f, g, j, s, e)
    BY <1>2, <1>5, <2>1, <2>2, IntactNow
  <2>4. q = j + 1
    BY <1>1, <2>2, NotNested
  <2>5. j + 2 <= Len(g) /\ g[j + 2] = Unit("crc", s.crc)
    BY <1>1, <2>1, <2>3 DEF IntactEnd
  <2>6. PICK m \in Nat : m = Len(g)
    <3>1. IsSeq(g)
      BY <2>1 DEF FileInv, ReadFile
    <3>2. QED BY <3>1, SeqFacts
  <2>7. Left(q) # 0 /\ q + 1 = j + 2
    BY <2>1, <2>4, <2>5, <2>6 DEF Left
  <2>8. IsUnit(q + 1, Unit("crc", s.crc))
    BY <2>1, <2>5, <2>7 DEF IsUnit
  <2>9. Returns(r, q + 1, s, r.n, "EOF")
    BY <1>1, <2>7, <2>8
  <2>10. ret'.err = "EOF"
    BY <2>9 DEF Returns
  <2>11. QED BY <2>10 DEF Allowed
<1>6. QED BY <1>2, <1>3, <1>4, <1>5, GoesOnIntact

LEMMA GzipReadIntact ==
  ASSUME FileInv, ReadInv, IntactInv, stage = "read", GzipRead
  PROVE  IntactInv'
<1>1. PICK r, q, s :
        /\ r \in Inflated(busy) /\ q \in Behind(r) /\ s = Summed(rsum, Got(r))
        /\ TrailerShort(r, q, s) \/ TrailerWrong(r, q, s) \/ LastMember(r, q, s)
           \/ NextHeader(r, q, s)
  BY DEF GzipRead
<1>2. busy # -1 /\ Reads
  BY DEF GzipRead, Reads
<1>3. r.err = "EOF" /\ format = "gzip"
  BY <1>1 DEF TrailerShort, TrailerWrong, LastMember, NextHeader, AtTrailer
<1>4. rerr = "nil" /\ ret.err # "EOF" /\ dec.kind # "nil"
  BY <1>2 DEF ReadInv, Sane
<1>5. first' = first /\ dec' = dec /\ clean' = clean
  <2>1. CASE NextHeader(r, q, s)
    BY <1>4, <2>1 DEF NextHeader, Opened
  <2>2. CASE TrailerShort(r, q, s) \/ TrailerWrong(r, q, s) \/ LastMember(r, q, s)
    BY <2>2 DEF TrailerShort, TrailerWrong, LastMember, Returns
  <2>3. QED BY <1>1, <2>1, <2>2
<1>6. ASSUME intact, clean PROVE Allowed(file, ret'.err) \/ ret'.err = ret.err
  <2>1. PICK z, f, g, t, a, o, e :
          /\ z = Exact /\ f = format /\ g = file /\ t = texts /\ a = first
          /\ o = out \o Got(r) /\ e = r.err
    OBVIOUS
  <2>2. PICK j \in Nat : j = pos + r.n /\ Now(z, f, g, t, a, j, s, o, r)
    BY <1>1, <1>2, <2>1, ReadNow
  <2>3. IntactEnd(f, g, j, s, e)
    BY <1>2, <1>6, <2>1, <2>2, IntactNow
  <2>4. q = j + 1
    BY <1>1, <2>2, NotNested
  <2>5. /\ j + 3 <= Len(g) /\ g[j + 2] = Unit("crc", s.crc)
        /\ g[j + 3] = Unit("size", s.size)
    BY <1>3, <2>1, <2>3 DEF IntactEnd
  <2>6. IsSeq(g)
    BY <2>1 DEF FileInv, ReadFile
  <2>7. PICK m \in Nat : m = Len(g)
    BY <2>6, SeqFacts
  <2>8. ~(Left(q) < 2) /\ q + 1 = j + 2 /\ q + 2 = j + 3
    <3>1. q \in Nat /\ j \in Nat /\ m \in Nat /\ j + 3 <= m /\ q = j + 1
      BY <2>4, <2>5, <2>7
    <3>2. Left(q) = IF q < m THEN m - q ELSE 0
      BY <2>1, <2>7 DEF Left
    <3>3. QED BY ONLY <3>1, <3>2
  <2>9. Matches(q, s)
    <3>1. IsUnit(q + 1, Trailer(s)[1]) /\ IsUnit(q + 2, Trailer(s)[2])
      BY <2>1, <2>5, <2>8 DEF IsUnit, Trailer
    <3>2. QED BY <3>1 DEF Matches
  <2>10. LastMember(r, q, s) \/ NextHeader(r, q, s)
    BY <1>1, <2>8, <2>9 DEF TrailerShort, TrailerWrong
  <2>11. CASE LastMember(r, q, s)
    <3>1. ret'.err = "EOF"
      BY <2>11 DEF LastMember, Returns
    <3>2. QED BY <3>1 DEF Allowed
  <2>12. CASE NextHeader(r, q, s)
    <3>1. PICK k, h : k \in Nat /\ k = j + 3 /\ h = ReadHeader(k)
      OBVIOUS
    <3>2. ret'.err = h.err \/ ret'.err = ret.err
      BY <2>8, <2>12, <3>1 DEF NextHeader
    <3>3. k \in Bounds(f, g)
      <4>1. j + 1 + Trail(f) = k
        BY <1>3, <2>1, <3>1 DEF Trail
      <4>2. EndRead(z, f, g, t, a, j, s, o, k)
        BY <1>3, <2>2, <4>1 DEF Now
      <4>3. k <= Len(g) /\ g[j + 2].k = "crc" /\ g[j + 2].v = s.crc
        BY <2>5, <2>7, <3>1 DEF Unit
      <4>4. Between(z, f, g, t, a, k, o)
        BY <4>2, <4>3 DEF EndRead
      <4>5. QED BY <4>4 DEF Between
    <3>4. Allowed(file, h.err)
      <4>1. CASE k < m
        <5>1. PICK x : x = ReadHeader(k).err
          OBVIOUS
        <5>2. Allowed(file, x)
          BY <1>3, <1>6, <2>1, <2>7, <3>3, <4>1, <5>1, AllowedGzip
        <5>3. QED BY <3>1, <5>1, <5>2
      <4>2. CASE ~(k < m)
        <5>1. Left(k) = 0
          BY <2>1, <2>7, <4>2 DEF Left
        <5>2. h.err = "EOF"
          BY <3>1, <5>1 DEF ReadHeader
        <5>3. QED BY <5>2 DEF Allowed
      <4>3. QED BY <4>1, <4>2
    <3>5. QED BY <3>2, <3>4
  <2>13. QED BY <2>10, <2>11, <2>12
<1>7. QED BY <1>2, <1>4, <1>5, <1>6, GoesOnIntact

LEMMA GzipResetIntact ==
  ASSUME LargeBuffer, FileInv, ReadInv, IntactInv, stage = "read", ResetGzipReader
  PROVE  IntactInv'
<1>1. /\ ReadInv' /\ first' \in Bounds(format, file) /\ rerr' = ReadHeader(first').err
      /\ \E r \in Readers : Opened(rerr' = "nil", r)
  BY GzipResetFinds
<1>2. Reads /\ format = "gzip"
  BY DEF Reads, ResetGzipReader
<1>3. UNCHANGED <<file, stage, format, intact, head>>
  BY <1>2, ReadsLeave
<1>4. ret'.err = rerr'
  <2>1. Sane' /\ format' # "zlib"
    BY <1>1, <1>2, <1>3 DEF ReadInv
  <2>2. QED BY <2>1 DEF Sane
<1>5. Dict' = None
  BY <1>2, <1>3 DEF Dict
<1>6. SUFFICES ASSUME intact
               PROVE  /\ first' < Len(file') => Allowed(file', ret'.err)
                      /\ dec' = [kind |-> dec'.kind, dict |-> dec'.dict]
  BY <1>3, <1>5 DEF IntactInv
<1>7. first' < Len(file) => Allowed(file, ret'.err)
  <2>1. PICK p, e : p = first' /\ e = ReadHeader(p).err /\ e = ret'.err
    BY <1>1, <1>4
  <2>2. p < Len(file) => Allowed(file, e)
    BY <1>1, <1>2, <1>6, <2>1, AllowedGzip
  <2>3. QED BY <2>1, <2>2
<1>8. dec' = [kind |-> dec'.kind, dict |-> dec'.dict]
  <2>1. dec' = dec \/ dec' = [kind |-> "fast", dict |-> None]
    BY <1>1 DEF Opened
  <2>2. dec = [kind |-> dec.kind, dict |-> dec.dict]
    BY <1>6 DEF IntactInv
  <2>3. QED BY <2>1, <2>2
<1>9. QED BY <1>3, <1>7, <1>8

LEMMA ZlibResetIntact ==
  ASSUME LargeBuffer, FileInv, ReadInv, IntactInv, stage = "read", NEW d \in Dicts,
         ResetZlibReader(d)
  PROVE  IntactInv'
<1>1. ReadInv' /\ first' \in Bounds(format, file) /\ rerr' = ZlibHeader(first', d).err
  BY ZlibResetFinds
<1>2. Reads /\ format = "zlib"
  BY DEF Reads, ResetZlibReader
<1>3. UNCHANGED <<file, stage, format, intact, head>>
  BY <1>2, ReadsLeave
<1>4. ret'.err = rerr' \/ ret'.err = "EOF"
  BY <1>1, <1>3 DEF ReadInv, Sane
<1>5. Dict' = Dict
  BY <1>3 DEF Dict
<1>6. SUFFICES ASSUME intact
               PROVE  /\ first' < Len(file) => Allowed(file, ret'.err)
                      /\ dec' = [kind |-> dec'.kind, dict |-> dec'.dict]
                      /\ dec'.kind # "nil" /\ Dict # None => dec'.kind = "std"
                      /\ rerr' = "nil" /\ dec'.kind # "nil" /\ Dict # None => dec'.dict = Dict
  BY <1>3, <1>5 DEF IntactInv
<1>7. /\ dec = [kind |-> dec.kind, dict |-> dec.dict]
      /\ dec.kind # "nil" /\ Dict # None => dec.kind = "std"
  BY <1>6 DEF IntactInv
<1>8. PICK p, e : p = first' /\ e = ZlibHeader(p, d).err /\ e = rerr'
  BY <1>1
<1>9. ASSUME p < Len(file)
      PROVE  /\ Allowed(file, e)
             /\ e = "nil" /\ Dict # None => d = Dict /\ file[p + 1].v = <<"dict">>
  BY <1>1, <1>2, <1>6, <1>8, <1>9, AllowedZlib
<1>10. first' < Len(file) => Allowed(file, ret'.err)
  BY <1>4, <1>8, <1>9 DEF Allowed
<1>11. CASE rerr' = "nil"
  <2>1. p < Len(file)
    <3>1. PICK h : h = ZlibHeader(p, d)
      OBVIOUS
    <3>2. PICK g, t : g = file /\ t = texts
      OBVIOUS
    <3>3. PICK z : IsSeq(g) /\ Known(z, "zlib", g, t)
      BY <1>2, <3>2, KnownNow DEF FileInv, ReadFile
    <3>4. HeaderIs("zlib", g, p, h)
      BY <1>1, <1>2, <1>8, <3>1, <3>2, <3>3, ZlibHeaderAt
    <3>5. QED BY <1>8, <1>11, <3>1, <3>2, <3>4 DEF HeaderIs
  <2>2. Dict # None => d = Dict /\ file[p + 1].v = <<"dict">>
    BY <1>8, <1>9, <1>11, <2>1
  <2>3. PICK r \in Readers : ZlibOpened(file[p + 1].v = <<"dict">>, d, r)
    BY <1>8, <1>11 DEF ResetZlibReader
  <2>4. CASE dec.kind = "nil"
    <3>1. CASE file[p + 1].v = <<"dict">>
      <4>1. dec' = [kind |-> "std", dict |-> d]
        BY <2>3, <2>4, <3>1 DEF ZlibOpened
      <4>2. QED BY <1>10, <2>2, <4>1
    <3>2. CASE file[p + 1].v # <<"dict">>
      <4>1. dec' = [kind |-> "fast", dict |-> None]
        BY <2>3, <2>4, <3>2 DEF ZlibOpened
      <4>2. QED BY <1>10, <2>2, <3>2, <4>1
    <3>3. QED BY <3>1, <3>2
  <2>5. CASE dec.kind # "nil"
    <3>1. dec' = [dec EXCEPT !.dict = IF dec.kind = "std" THEN d ELSE None]
      BY <2>3, <2>5 DEF ZlibOpened
    <3>2. dec' = [kind |-> dec.kind, dict |-> IF dec.kind = "std" THEN d ELSE None]
      BY <1>7, <3>1
    <3>3. QED BY <1>7, <1>10, <2>2, <2>5, <3>2
  <2>6. QED BY <2>4, <2>5
<1>12. CASE rerr' # "nil"
  <2>1. dec' = dec
    BY <1>12 DEF ResetZlibReader
  <2>2. QED BY <1>7, <1>10, <1>12, <2>1
<1>13. QED BY <1>11, <1>12

LEMMA IntactInit ==
  ASSUME Init
  PROVE  IntactInv
BY DEF Init, IntactInv

LEMMA IntactKept ==
  ASSUME LargeBuffer, FileInv, ReadInv, IntactInv, [Next]_vars
  PROVE  IntactInv'
<1>1. CASE UNCHANGED vars
  <2>1. UNCHANGED <<stage, format, file, intact, head, rerr, dec, clean, first, ret>>
    BY <1>1 DEF vars, readerVars, clientVars, writerVars
  <2>2. Dict' = Dict
    BY <2>1 DEF Dict
  <2>3. QED BY <2>1, <2>2 DEF IntactInv
<1>2. CASE Transmit
  <2>1. Idle /\ UNCHANGED readerVars
    BY <1>2 DEF Transmit, FileInv
  <2>2. dec' = NoDecompressor /\ ret' = [n |-> 0, put |-> 0, err |-> "nil"]
    BY <2>1 DEF Idle, readerVars
  <2>3. /\ dec' = [kind |-> dec'.kind, dict |-> dec'.dict] /\ dec'.kind = "nil"
        /\ ret'.err = "nil"
    BY <2>2 DEF NoDecompressor
  <2>4. QED BY <2>3 DEF IntactInv, Allowed
<1>3. CASE Writes
  <2>1. stage' = "write"
    <3>1. CASE \E n \in WriteSizes : Write(n) \/ ZlibWrite(n)
      BY <3>1 DEF Write, ZlibWrite, GzipCall, ZlibCall, Call
    <3>2. CASE Flush \/ ZlibFlush \/ Close \/ ZlibClose
      BY <3>2 DEF Flush, ZlibFlush, Close, ZlibClose, GzipCall, ZlibCall, Call
    <3>3. CASE RefuseHeader
      BY <3>3 DEF RefuseHeader, clientVars
    <3>4. CASE GzipReset \/ ZlibReset
      BY <3>4 DEF GzipReset, ZlibReset, NextMember
    <3>5. QED BY <1>3, <3>1, <3>2, <3>3, <3>4 DEF Writes
  <2>2. QED BY <2>1 DEF IntactInv
<1>4. CASE Reads
  <2>1. stage = "read"
    BY <1>4, ReadsLeave
  <2>2. CASE \E n \in ReadSizes : CallRead(n)
    <3>1. UNCHANGED <<rerr, dec, clean, first, ret>>
      BY <2>2 DEF CallRead
    <3>2. QED BY <1>4, <2>1, <3>1, GoesOnIntact
  <2>3. CASE ReadData
    BY <2>1, <2>3, ReadDataIntact
  <2>4. CASE GzipRead
    BY <2>1, <2>4, GzipReadIntact
  <2>5. CASE ZlibTrailer
    BY <2>1, <2>5, ZlibTrailerIntact
  <2>6. CASE ResetGzipReader
    BY <2>1, <2>6, GzipResetIntact
  <2>7. CASE \E d \in Dicts : ResetZlibReader(d)
    BY <2>1, <2>7, ZlibResetIntact
  <2>8. CASE \E ok \in BOOLEAN : Multistream(ok)
    <3>1. UNCHANGED <<rerr, dec, clean, first, ret>>
      BY <2>8 DEF Multistream
    <3>2. QED BY <1>4, <2>1, <3>1, GoesOnIntact
  <2>9. CASE ZlibCloseReader
    <3>1. UNCHANGED <<dec, clean, first, ret>> /\ format = "zlib" /\ rerr \in {"nil", "EOF"}
      BY <2>9 DEF ZlibCloseReader
    <3>2. ret'.err # "EOF" => rerr = "nil"
      BY <2>1, <3>1 DEF ReadInv, Sane
    <3>3. QED BY <1>4, <2>1, <3>1, <3>2, GoesOnIntact
  <2>10. CASE ReadStale
    <3>1. UNCHANGED <<rerr, dec, clean, first>> /\ ret'.err = "nil" /\ busy # -1 /\ stale # <<>>
      BY <2>10 DEF ReadStale
    <3>2. rerr = "nil" /\ ret.err # "EOF" /\ ~clean
      BY <2>1, <3>1 DEF ReadInv, Sane, Remains
    <3>3. QED BY <1>4, <2>1, <3>1, <3>2, GoesOnIntact
  <2>11. QED BY <1>4, <2>2, <2>3, <2>4, <2>5, <2>6, <2>7, <2>8, <2>9, <2>10 DEF Reads
<1>5. QED BY <1>1, <1>2, <1>3, <1>4, Steps

LEMMA IntactReadsNow ==
  ASSUME FileInv, ReadInv, IntactInv
  PROVE  IntactReads
<1>1. CASE stage = "read"
  BY <1>1 DEF IntactInv, IntactReads, Allowed
<1>2. CASE stage = "write"
  BY <1>2 DEF FileInv, Idle, IntactReads
<1>3. QED BY <1>1, <1>2 DEF FileInv, Types

\* The inductive invariant.
ContainersInv == FileInv /\ ReadInv /\ IntactInv

LEMMA Invariant ==
  ASSUME "small" \notin Readers
  PROVE  Spec => []ContainersInv
<1>1. Init => ContainersInv
  BY FileInit, ReadInit, IntactInit DEF ContainersInv
<1>2. ContainersInv /\ [Next]_vars => ContainersInv'
  <2>1. LargeBuffer
    BY DEF LargeBuffer
  <2>2. QED BY <2>1, FileKept, ReadKept, IntactKept DEF ContainersInv
<1>3. QED BY <1>1, <1>2, PTL DEF Spec

\* Read returns io.EOF only behind the trailer of a member, the last one if it goes
\* on from member to member, with all of the text that the writer was given for the
\* members it has passed and no other, whatever has failed or changed on the way,
\* and whatever the compressor or the decompressor has kept at a Reset: what they
\* kept fails the checksum (ungzip.go:78, zlib/reader.go:110).  The client's
\* bufio.Reader has 4096 bytes or more.
THEOREM EofMeans ==
  ASSUME "small" \notin Readers
  PROVE  Spec => []EofMeansAll
<1>1. ContainersInv => EofMeansAll
  BY EofMeansIt DEF ContainersInv
<1>2. QED BY <1>1, Invariant, PTL

\* A file that was closed and has not changed is read without an error, whatever its
\* headers and the sizes of the Writes and the Reads: but a string of 512 bytes or
\* more, and another dictionary (ungzip.go:145, zlib/reader.go:134).  IntactReads is
\* said of a file for which no dynCompressor was Reset with data that was not
\* closed, and no HuffmanOnly compressor flushed (intact is FALSE for those), and of
\* a Reader that was Reset with nothing left to take (clean): the code breaks it
\* for the other clients, as the runs dyn_reset_stale, huffman_flush and
\* inflate_reset_stale show of the layer below.  A small bufio.Reader loses what the
\* decompressor's own has read ahead (the run small_buffer): hence the hypothesis.
THEOREM IntactIsRead ==
  ASSUME "small" \notin Readers
  PROVE  Spec => []IntactReads
<1>1. ContainersInv => IntactReads
  BY IntactReadsNow DEF ContainersInv
<1>2. QED BY <1>1, Invariant, PTL

\* io.ErrUnexpectedEOF of a gzip or zlib reader comes behind all of the data that has
\* arrived and nothing else, be the member's end missing, its trailer or a header
\* (ungzip.go:271, zlib/reader.go:113), for a stream that spells the data and a
\* Reader that was Reset with nothing left to take: sound and clean, as in
\* IntactIsRead.
THEOREM ArrivedRead ==
  ASSUME "small" \notin Readers
  PROVE  Spec => []ArrivedIsRead
<1>1. ContainersInv => ArrivedIsRead
  BY ArrivedIsReadNow DEF ContainersInv
<1>2. QED BY <1>1, Invariant, PTL
=============================================================================
