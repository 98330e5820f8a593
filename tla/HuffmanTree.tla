----------------------------- MODULE HuffmanTree -----------------------------
(***************************************************************************)
(* How the compressors choose the lengths of codes (huffman/len_limited.go,*)
(* moffat.go, sort.go): the symbols of a histogram are sorted by count,    *)
(* Moffat and Katajainen's algorithm turns the counts into lengths in the  *)
(* array that holds them, and lengths over the limit are moved to it.      *)
(* One action is one turn of one of the loops.                             *)
(*                                                                         *)
(* Arrays have the code's indexes, from 0.                                 *)
(***************************************************************************)
EXTENDS HuffmanCodes, Integers

CONSTANT Cutoff         \* 16: a shorter interval is sorted by insertion

ASSUME CutoffOK == Cutoff \in Nat \ {0}

VARIABLES
  pc,           \* which loop is running
  hist, limit,  \* the histogram, and limitedLen
  lits,         \* counts[i].lit for each i
  todo,         \* intervals to sort: calls of quickSortReverse still to come
  i, j,         \* the indexes of the running sort
  w,            \* counts, then parents, then depths
  leaf, root, next,         \* as in codeLens
  avail, used, depth,
  lenCounts, total,         \* as in enforceMaxLen
  lens          \* codeLens

sortVars  == <<lits, todo, i, j>>
pairVars  == <<leaf, root, next>>
levelVars == <<avail, used, depth>>
limitVars == <<lenCounts, total>>
treeVars  == <<pc, hist, limit, sortVars, w, pairVars, levelVars, limitVars, lens>>

Syms == DOMAIN hist
n == Len(lits)
Lit(k) == lits[k + 1]

\* A litCount is compared as one uint32, with the count in its upper half.
Count(s) == hist[s] % CountMod
Above(s, t) == Count(s) > Count(t) \/ (Count(s) = Count(t) /\ s > t)

Swapped(a, b) == [k \in 1..n |-> IF k = a + 1 THEN lits[b + 1]
                                 ELSE IF k = b + 1 THEN lits[a + 1]
                                 ELSE lits[k]]

TreeInit ==
  /\ pc = "done" /\ hist = <<>> /\ limit = 0
  /\ lits = <<>> /\ todo = <<>> /\ i = 0 /\ j = 0
  /\ w = <<>> /\ leaf = 0 /\ root = 0 /\ next = 0
  /\ avail = 0 /\ used = 0 /\ depth = 0
  /\ lenCounts = <<>> /\ total = 0
  /\ lens = <<>>

\* Generate is called for the counts h of symbols 0 .. and lengths up to l.
Generate(h, l) ==
  /\ pc = "done"
  /\ pc' = "collect" /\ hist' = h /\ limit' = l
  /\ lits' = <<>> /\ todo' = <<>> /\ i' = 0 /\ j' = 0
  /\ w' = <<>> /\ lens' = [s \in DOMAIN h |-> 0]
  /\ UNCHANGED <<pairVars, levelVars, limitVars>>

-----------------------------------------------------------------------------
(***************************************************************************)
(* Collecting and sorting.  todo is the stack of the recursion: of the two *)
(* parts of an interval the smaller is sorted by a call, the other by the  *)
(* next turn of the loop.                                                  *)
(***************************************************************************)
\* (A faulty Collect: symbols are numbered from one.)
CollectFromOne ==
  /\ pc = "collect" /\ i \in Syms
  /\ lits' = IF hist[i] # 0 THEN Append(lits, i + 1) ELSE lits
  /\ i' = i + 1
  /\ UNCHANGED <<pc, hist, limit, todo, j, w, pairVars, levelVars, limitVars, lens>>

Collect ==
  /\ pc = "collect" /\ i \in Syms
  /\ lits' = IF hist[i] # 0 THEN Append(lits, i) ELSE lits
  /\ i' = i + 1
  /\ UNCHANGED <<pc, hist, limit, todo, j, w, pairVars, levelVars, limitVars, lens>>

Collected ==
  /\ pc = "collect" /\ i \notin Syms
  /\ pc' = "sort" /\ todo' = <<<<0, n - 1>>>>
  /\ UNCHANGED <<hist, limit, lits, i, j, w, pairVars, levelVars, limitVars, lens>>

Left  == Head(todo)[1]
Right == Head(todo)[2]

\* insertReverseSort sinks the element at i to its place.
StartInsert ==
  /\ pc = "sort" /\ todo # <<>> /\ Right - Left < Cutoff
  /\ pc' = "insert" /\ i' = Left + 1 /\ j' = Left + 1
  /\ UNCHANGED <<hist, limit, lits, todo, w, pairVars, levelVars, limitVars, lens>>

Sinks == j > Left /\ Above(Lit(j), Lit(j - 1))

Sink ==
  /\ pc = "insert" /\ i <= Right /\ Sinks
  /\ lits' = Swapped(j - 1, j) /\ j' = j - 1
  /\ UNCHANGED <<pc, hist, limit, todo, i, w, pairVars, levelVars, limitVars, lens>>

NextInsert ==
  /\ pc = "insert" /\ i <= Right /\ ~Sinks
  /\ i' = i + 1 /\ j' = i + 1
  /\ UNCHANGED <<pc, hist, limit, lits, todo, w, pairVars, levelVars, limitVars, lens>>

Inserted ==
  /\ pc = "insert" /\ i > Right
  /\ pc' = "sort" /\ todo' = Tail(todo)
  /\ UNCHANGED <<hist, limit, lits, i, j, w, pairVars, levelVars, limitVars, lens>>

StartScan ==
  /\ pc = "sort" /\ todo # <<>> /\ Right - Left >= Cutoff
  /\ pc' = "scan" /\ i' = Left + 1 /\ j' = Right
  /\ UNCHANGED <<hist, limit, lits, todo, w, pairVars, levelVars, limitVars, lens>>

\* (A faulty Scan: elements on the wrong sides do not change places.)
ScanNoSwap ==
  /\ pc = "scan" /\ i <= j
  /\ i' = IF Above(Lit(Left), Lit(i)) THEN i ELSE i + 1
  /\ j' = IF Above(Lit(j), Lit(Left)) THEN j ELSE j - 1
  /\ UNCHANGED <<pc, hist, limit, lits, todo, w, pairVars, levelVars, limitVars, lens>>

\* An element that is below the pivot and one above it change places, then
\* both ends go past what is on their side.
Scan ==
  /\ pc = "scan" /\ i <= j
  /\ LET pivot == Lit(Left)
         s == IF Above(pivot, Lit(i)) /\ Above(Lit(j), pivot)
              THEN Swapped(i, j) ELSE lits
     IN  /\ lits' = s
         /\ i' = IF Above(pivot, s[i + 1]) THEN i ELSE i + 1
         /\ j' = IF Above(s[j + 1], pivot) THEN j ELSE j - 1
  /\ UNCHANGED <<pc, hist, limit, todo, w, pairVars, levelVars, limitVars, lens>>

\* (A faulty Scanned: the pivot stays where it was.)
ScannedNoSwap ==
  /\ pc = "scan" /\ i > j
  /\ todo' = <<<<Left, j - 1>>, <<j + 1, Right>>>> \o Tail(todo)
  /\ pc' = "sort"
  /\ UNCHANGED <<hist, limit, lits, i, j, w, pairVars, levelVars, limitVars, lens>>

Scanned ==
  /\ pc = "scan" /\ i > j
  /\ lits' = Swapped(Left, j)
  /\ LET low == <<Left, j - 1>>  high == <<j + 1, Right>>
     IN  todo' = (IF j - Left < Right - j THEN <<low, high>> ELSE <<high, low>>)
                   \o Tail(todo)
  /\ pc' = "sort"
  /\ UNCHANGED <<hist, limit, i, j, w, pairVars, levelVars, limitVars, lens>>

Sorted ==
  /\ pc = "sort" /\ todo = <<>>
  /\ w' = [k \in 0..(n - 1) |-> IF n = 1 THEN 1 ELSE Count(Lit(k))]
  /\ leaf' = n - 1 /\ root' = n - 1 /\ next' = n - 1
  /\ pc' = IF n <= 1 THEN "measured" ELSE "first"
  /\ UNCHANGED <<hist, limit, sortVars, levelVars, limitVars, lens>>

-----------------------------------------------------------------------------
(***************************************************************************)
(* codeLens, phase 1: the two lightest of the leaves 0..leaf and the inner *)
(* nodes next+1..root become the children of a new inner node, next.  An   *)
(* inner node that has become a child keeps its parent in w.               *)
(***************************************************************************)
\* (A faulty TakesInner: the heavier node is taken.)
TakesInnerHeavier == leaf >= 0 => root > next /\ w[root] > w[leaf]

TakesInner == leaf >= 0 => root > next /\ w[root] < w[leaf]

pairsRunning == next >= 1
pairUnchanged == UNCHANGED <<hist, limit, sortVars, levelVars, limitVars, lens>>

FirstInner ==
  /\ pc = "first" /\ pairsRunning /\ TakesInner
  /\ w' = [w EXCEPT ![next] = w[root], ![root] = next]
  /\ root' = root - 1 /\ pc' = "second"
  /\ UNCHANGED <<leaf, next>> /\ pairUnchanged

FirstLeaf ==
  /\ pc = "first" /\ pairsRunning /\ ~TakesInner
  /\ w' = [w EXCEPT ![next] = w[leaf]]
  /\ leaf' = leaf - 1 /\ pc' = "second"
  /\ UNCHANGED <<root, next>> /\ pairUnchanged

SecondInner ==
  /\ pc = "second" /\ TakesInner
  /\ w' = [w EXCEPT ![next] = w[next] + w[root], ![root] = next]
  /\ root' = root - 1 /\ next' = next - 1 /\ pc' = "first"
  /\ UNCHANGED leaf /\ pairUnchanged

SecondLeaf ==
  /\ pc = "second" /\ ~TakesInner
  /\ w' = [w EXCEPT ![next] = w[next] + w[leaf]]
  /\ leaf' = leaf - 1 /\ next' = next - 1 /\ pc' = "first"
  /\ UNCHANGED root /\ pairUnchanged

\* Phase 2: parents become depths, from the root of the tree on.
Paired ==
  /\ pc = "first" /\ ~pairsRunning
  /\ w' = [w EXCEPT ![1] = 0]
  /\ next' = 2 /\ pc' = "depth"
  /\ UNCHANGED <<leaf, root>> /\ pairUnchanged

Deepen ==
  /\ pc = "depth" /\ next <= n - 1
  /\ w' = [w EXCEPT ![next] = w[w[next]] + 1]
  /\ next' = next + 1
  /\ UNCHANGED <<pc, leaf, root>> /\ pairUnchanged

\* Phase 3: the nodes of each depth that are not inner nodes are leaves.
Deepened ==
  /\ pc = "depth" /\ next > n - 1
  /\ avail' = 1 /\ used' = 0 /\ depth' = 0
  /\ root' = 1 /\ next' = 0 /\ pc' = "level"
  /\ UNCHANGED <<hist, limit, sortVars, w, leaf, limitVars, lens>>

IsInner == root < n /\ w[root] = depth

CountInner ==
  /\ pc = "level" /\ IsInner
  /\ root' = root + 1 /\ used' = used + 1
  /\ UNCHANGED <<pc, hist, limit, sortVars, w, leaf, next, avail, depth, limitVars, lens>>

LeavesHere == next..(next + avail - used - 1)

\* (A faulty AssignLeaves: nodes below leaves are available, too.)
AssignLeavesBelowLeaves ==
  /\ pc = "level" /\ ~IsInner
  /\ w' = [k \in DOMAIN w |-> IF k \in LeavesHere THEN depth ELSE w[k]]
  /\ next' = IF avail > used THEN next + avail - used ELSE next
  /\ avail' = 2 * avail /\ depth' = depth + 1 /\ used' = 0
  /\ pc' = IF used > 0 THEN "level" ELSE "measured"
  /\ UNCHANGED <<hist, limit, sortVars, leaf, root, limitVars, lens>>

AssignLeaves ==
  /\ pc = "level" /\ ~IsInner
  /\ w' = [k \in DOMAIN w |-> IF k \in LeavesHere THEN depth ELSE w[k]]
  /\ next' = IF avail > used THEN next + avail - used ELSE next
  /\ avail' = 2 * used /\ depth' = depth + 1 /\ used' = 0
  /\ pc' = IF used > 0 THEN "level" ELSE "measured"
  /\ UNCHANGED <<hist, limit, sortVars, leaf, root, limitVars, lens>>

-----------------------------------------------------------------------------
(***************************************************************************)
(* Lengths.  maxLen is what codeLens returns.                              *)
(***************************************************************************)
maxLen == IF n = 0 THEN 0 ELSE w[n - 1]

\* (A faulty WithLengths: lengths go to the positions in the sorted array.)
WithLengthsUnsorted(f) == [s \in Syms |-> IF s < n THEN f[s] ELSE 0]

\* The lengths of the symbols when the one at k in the sorted array has f[k].
WithLengths(f) ==
  [s \in Syms |-> IF \E k \in 0..(n - 1) : Lit(k) = s
                  THEN f[CHOOSE k \in 0..(n - 1) : Lit(k) = s] ELSE 0]

treeUnchanged == UNCHANGED <<hist, limit, sortVars, w, pairVars, levelVars>>

LengthsFit ==
  /\ pc = "measured" /\ maxLen <= limit
  /\ lens' = WithLengths(w)
  /\ pc' = "done"
  /\ UNCHANGED limitVars /\ treeUnchanged

\* enforceMaxLen counts longer codes as codes of the limit, which makes the
\* sum too large ...
TooLong ==
  /\ pc = "measured" /\ maxLen > limit
  /\ lenCounts' = [l \in 1..limit |->
       Cardinality({k \in 0..(n - 1) : IF l < limit THEN w[k] = l ELSE w[k] >= l})]
  /\ total' = MapThenSumSet(LAMBDA l : lenCounts'[l] * PowerOf2[limit - l], 1..limit)
  /\ pc' = "limit"
  /\ UNCHANGED lens /\ treeUnchanged

Shorter == {l \in 1..(limit - 1) : lenCounts[l] # 0}

\* (A faulty MoveLongest: the new pair of codes is not made at the cost of a
\* code that is a bit shorter.)
MoveLongestKeepsParent ==
  /\ pc = "limit" /\ total # PowerOf2[limit]
  /\ lenCounts' =
       LET fewer == [lenCounts EXCEPT ![limit] = @ - 1] IN
       IF Shorter = {} THEN fewer
       ELSE [fewer EXCEPT ![Max(Shorter) + 1] = @ + 2]
  /\ total' = total - 1
  /\ UNCHANGED <<pc, lens>> /\ treeUnchanged

\* ... and makes room: one of the longest codes goes to where the longest of
\* the shorter ones was, which gets one bit more.
MoveLongest ==
  /\ pc = "limit" /\ total # PowerOf2[limit]
  /\ lenCounts' =
       LET fewer == [lenCounts EXCEPT ![limit] = @ - 1] IN
       IF Shorter = {} THEN fewer
       ELSE [fewer EXCEPT ![Max(Shorter)] = @ - 1, ![Max(Shorter) + 1] = @ + 2]
  /\ total' = total - 1
  /\ UNCHANGED <<pc, lens>> /\ treeUnchanged

\* The shortest codes are for the most frequent symbols.
UpTo(l) == MapThenSumSet(LAMBDA m : lenCounts[m], 1..l)

AssignLimited ==
  /\ pc = "limit" /\ total = PowerOf2[limit]
  /\ lens' = WithLengths([k \in 0..(n - 1) |->
       IF k < UpTo(limit) THEN Min({l \in 1..limit : k < UpTo(l)}) ELSE w[k]])
  /\ pc' = "done"
  /\ UNCHANGED limitVars /\ treeUnchanged

Sorting  == \/ Collect \/ Collected \/ StartInsert \/ Sink \/ NextInsert \/ Inserted
            \/ StartScan \/ Scan \/ Scanned \/ Sorted
Pairing  == FirstInner \/ FirstLeaf \/ SecondInner \/ SecondLeaf \/ Paired
Measuring == Deepen \/ Deepened \/ CountInner \/ AssignLeaves
Limiting == LengthsFit \/ TooLong \/ MoveLongest \/ AssignLimited

TreeNext == Sorting \/ Pairing \/ Measuring \/ Limiting

\* Any call after any other, with a limit that leaves a code for each symbol
\* that occurs, as those of the program do: 7 for 19, 15 for 30 or 286.
TreeCall ==
  \E m \in Nat, l \in 1..MaxDepth :
    \E h \in [0..m -> Nat] :
      /\ Cardinality({s \in 0..m : h[s] > 0}) <= PowerOf2[l]
      /\ Generate(h, l)

TreeSpec == TreeInit /\ [][TreeNext \/ TreeCall]_treeVars

-----------------------------------------------------------------------------
(***************************************************************************)
(* Properties.                                                             *)
(***************************************************************************)
TreeTypeOK ==
  /\ pc \in {"collect", "sort", "insert", "scan", "first", "second", "depth",
             "level", "measured", "limit", "done"}
  /\ Syms \subseteq Nat /\ hist \in [Syms -> Nat] /\ limit \in Nat
  /\ lits \in Seq(Syms)
  /\ w \in [0..(n - 1) -> Nat] \/ pc \in {"collect", "sort", "insert", "scan"}
  /\ {i, j, leaf, root, next, avail, used, depth, total} \subseteq Int
  /\ todo \in Seq(Int \X Int)
  /\ lens \in [Syms -> Nat]

\* The elements of the arrays that the next step reads or writes.
Touched ==
  CASE pc = "insert" /\ i <= Right -> IF j > Left THEN {j - 1, j} ELSE {}
    [] pc = "scan" -> IF i <= j THEN {Left, i, j} ELSE {Left, j}
    [] pc \in {"first", "second"} /\ pairsRunning ->
         {next} \cup (IF TakesInner THEN {root} ELSE {leaf})
                \cup (IF leaf >= 0 THEN {leaf} ELSE {})
    [] pc = "first" /\ ~pairsRunning -> {1}
    [] pc = "depth" /\ next <= n - 1 -> {next, w[next]}
    [] pc = "level" -> IF IsInner THEN {root} ELSE LeavesHere
    [] pc = "measured" /\ n > 0 -> {n - 1}
    [] OTHER -> {}

\* No loop of quickSortReverse or codeLens leaves its array: there are always
\* two nodes left to pair, parents are inner nodes that have their depth
\* already, and there are no more leaves than places for them.  Phase 3 writes
\* the depths of leaves over those of inner nodes that it has counted already.
InRange ==
  /\ Touched \subseteq 0..(n - 1)
  /\ pc = "level" => next <= root /\ \A k \in LeavesHere : IsInner \/ k < root

\* While intervals are left to sort, two elements are in order unless they are
\* in the same interval; when none is left, the array is sorted and holds each
\* symbol that occurs once.
SortsByCount ==
  /\ pc \notin {"collect", "scan", "insert"} =>
       \A a, b \in 0..(n - 1) :
         \/ a >= b
         \/ Above(Lit(a), Lit(b))
         \/ \E t \in DOMAIN todo : {a, b} \subseteq todo[t][1]..todo[t][2]
  /\ pc # "collect" =>
       /\ {Lit(k) : k \in 0..(n - 1)} = {s \in Syms : hist[s] > 0}
       /\ n = Cardinality({s \in Syms : hist[s] > 0})

\* Limited or not, the lengths are those of a code for the symbols that occur,
\* which uses all bit strings; a symbol that is counted more often has no longer
\* code; and the codes that are made of them can be told from each other, and are
\* those that a decompressor makes of them.
MakesCode ==
  pc = "done" =>
    /\ CodesFor(hist, lens, limit)
    /\ \A s, t \in Coded(lens) : Count(s) > Count(t) => lens[s] <= lens[t]
    /\ Canonical(lens, GenerateCode(lens))

\* No step of the limiting loop loses a symbol, takes a code away that is not
\* there, or gets the sum wrong.
LimitKeepsCodes ==
  pc = "limit" =>
    /\ \A l \in 1..limit : lenCounts[l] >= 0
    /\ UpTo(limit) = n
    /\ total = MapThenSumSet(LAMBDA l : lenCounts[l] * PowerOf2[limit - l], 1..limit)
    /\ total >= PowerOf2[limit]

\* The bits that lengths f take for the counted symbols, and what Huffman's
\* algorithm would take, which makes the two lightest nodes children of a new
\* one until there is one left.
Cost(f) == MapThenSumSet(LAMBDA k : Count(Lit(k)) * f[k], 0..(n - 1))

HuffmanCost ==
  LET Lightest(nodes) ==
        CHOOSE a \in nodes : \A b \in nodes : a[1] < b[1] \/ (a[1] = b[1] /\ a[2] <= b[2])
      merged[k \in 0..(n - 1)] ==
        IF k = 0 THEN [cost |-> 0, nodes |-> {<<Count(s), s>> : s \in Range(lits)}]
        ELSE LET nodes == merged[k - 1].nodes
                 a == Lightest(nodes)
                 b == Lightest(nodes \ {a})
             IN  [cost |-> merged[k - 1].cost + a[1] + b[1],
                  nodes |-> (nodes \ {a, b}) \cup {<<a[1] + b[1], -k>>}]
  IN  merged[n - 1].cost

\* As long as no length is over the limit, no code codes the counted symbols in
\* fewer bits.
CodeIsCheapest == pc = "measured" /\ n > 1 => Cost(w) = HuffmanCost
=============================================================================
