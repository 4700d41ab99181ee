------------------------------- MODULE BTree -------------------------------
(***************************************************************************)
(* The B+ tree behind an index (btree.rs): insertion with its splits,      *)
(* deletion without merging, and every way of reading it.  A key is a      *)
(* number with a size; a composite key's leading column is its value       *)
(* halved.  A cell is <<key, locator>> in a leaf and <<separator, child>>  *)
(* in an internal node.                                                    *)
(***************************************************************************)
EXTENDS Integers, Sequences, FiniteSets, TLC, SequencesExt, FiniteSetsExt

CONSTANTS Keys,     \* the keys inserted
          Weight,   \* the bytes a key's cell takes
          Room,     \* bytes of a page after the node header
          Uniques,  \* whether the indexes explored are unique
          MaxOps

VARIABLES nodes,   \* node pages by id
          root,    \* BTree::root
          unique,  \* the index is unique
          entries, \* the <<key, locator>> pairs inserted and not deleted
          skewed,  \* a separator went past an equal one (see LookupsExact)
          ops

vars == <<nodes, root, unique, entries, skewed, ops>>

Leaf(cells) == [leaf |-> TRUE, left |-> 0, cells |-> cells]
Internal(left, cells) == [leaf |-> FALSE, left |-> left, cells |-> cells]
Fresh(N) == Cardinality(DOMAIN N) + 1
Put(N, id, node) == [i \in DOMAIN N \cup {id} |-> IF i = id THEN node ELSE N[i]]

\* partition_point: how many leading cells are not greater, or less
NotGreater(cells, k) == Cardinality({i \in DOMAIN cells : cells[i][1] <= k})
Less(cells, k) == Cardinality({i \in DOMAIN cells : cells[i][1] < k})
Bytes(cells, n) == FoldLeft(LAMBDA b, c : b + Weight[c[1]], 0, SubSeq(cells, 1, n))

\* child 0 is the leftmost one; child j > 0 lies right of separator j
Child(n, j) == IF j = 0 THEN n.left ELSE n.cells[j][2]
Descend(n, k) == NotGreater(n.cells, k)

(***************************************************************************)
(* split_at_for_insert: how many cells stay left when the cell inserted    *)
(* behind `at` others makes the node overflow.                             *)
(***************************************************************************)
SplitWithin(cells, at, boundary) ==
  Min({Len(cells) - 1} \cup
      {m \in Max({Min({boundary, at}), 1})..boundary : m = boundary \/ Bytes(cells, Len(cells)) - Bytes(cells, m) <= Room})
SplitAt(cells, at) == SplitWithin(cells, at, Min({i \in 1..Len(cells) : Bytes(cells, i) > Room}))

(***************************************************************************)
(* insert_rec: the new nodes, and the separator and page a split hands up. *)
(***************************************************************************)
Unchanged(N) == [ok |-> TRUE, nodes |-> N, up |-> <<>>, skew |-> FALSE]

Split(N, id, node, cells, m) ==
  LET right == SubSeq(cells, m + 1, Len(cells))
      high == IF node.leaf THEN Leaf(right) ELSE Internal(cells[m + 1][2], SubSeq(cells, m + 2, Len(cells)))
  IN [ok |-> TRUE, nodes |-> Put(Put(N, id, [node EXCEPT !.cells = SubSeq(cells, 1, m)]), Fresh(N), high),
      up |-> <<<<cells[m + 1][1], Fresh(N)>>>>, skew |-> FALSE]

Place(N, id, node, cells, at) ==
  IF Bytes(cells, Len(cells)) <= Room THEN Unchanged(Put(N, id, [node EXCEPT !.cells = cells]))
  ELSE Split(N, id, node, cells, SplitAt(cells, at))

DuplicateAhead(cells, at, k) == unique /\ at < Len(cells) /\ cells[at + 1][1] = k
Duplicate(cells, at, k) == unique /\ at > 0 /\ cells[at][1] = k

\* what the child handed up is filed behind the separators not greater than it
HandedUp(id, n, j, r) ==
  LET at == NotGreater(n.cells, r.up[1][1])
  IN IF ~r.ok \/ r.up = <<>> THEN r
     ELSE [Place(r.nodes, id, n, InsertAt(n.cells, at + 1, r.up[1]), at) EXCEPT !.skew = r.skew \/ at # j]

InsertLeaf(id, n, at, k, loc) ==
  IF Duplicate(n.cells, at, k) \/ 2 * Weight[k] > Room THEN [Unchanged(nodes) EXCEPT !.ok = FALSE]
  ELSE Place(nodes, id, n, InsertAt(n.cells, at + 1, <<k, loc>>), at)

InsertRec(k, loc) ==
  LET below[id \in DOMAIN nodes] ==
        LET n == nodes[id]
            j == Descend(n, k)
        IN IF n.leaf THEN InsertLeaf(id, n, j, k, loc) ELSE HandedUp(id, n, j, below[Child(n, j)])
  IN below[root]

\* insert: a root that split gets a parent
Inserted(k, loc, r) ==
  /\ IF r.up = <<>> THEN nodes' = r.nodes /\ root' = root
     ELSE nodes' = Put(r.nodes, Fresh(r.nodes), Internal(root, r.up)) /\ root' = Fresh(r.nodes)
  /\ entries' = IF r.ok THEN entries \cup {<<k, loc>>} ELSE entries
  /\ skewed' = (skewed \/ r.skew)
  /\ UNCHANGED unique
Insert(k) == Inserted(k, ops + 1, InsertRec(k, ops + 1))

(***************************************************************************)
(* delete_entry and delete: the first matching cell of the children whose  *)
(* range brackets the key, the one descended to first.                     *)
(***************************************************************************)
PrimaryOnly(n, k) == <<Descend(n, k)>>

CandidateChildren(n, k) ==
  LET d == Descend(n, k)
      last == Len(n.cells)
      brackets(j) == (j > 0 => n.cells[j][1] <= k) /\ (j < last => n.cells[j + 1][1] >= k)
  IN <<d>> \o SelectSeq([i \in 1..(last + 1) |-> i - 1], LAMBDA j : j # d /\ brackets(j))

\* the leaf the search ends in: the first with a cell it takes, 0 if there is none
DeleteRec(k, locs) ==
  LET below[id \in DOMAIN nodes] ==
        LET n == nodes[id]
            Try(leaf, j) == IF leaf # 0 THEN leaf ELSE below[Child(n, j)]
        IN IF ~n.leaf THEN FoldLeft(Try, 0, CandidateChildren(n, k))
           ELSE IF \E i \in DOMAIN n.cells : n.cells[i][1] = k /\ n.cells[i][2] \in locs THEN id ELSE 0
  IN below[root]

RemoveCell(id, i) == nodes' = Put(nodes, id, Leaf(RemoveAt(nodes[id].cells, i)))

DeleteEntry(e) ==
  LET id == DeleteRec(e[1], {e[2]})
  IN /\ IF id = 0 THEN UNCHANGED nodes ELSE RemoveCell(id, Min({i \in DOMAIN nodes[id].cells : nodes[id].cells[i] = e}))
     /\ entries' = entries \ {e}
     /\ UNCHANGED <<root, unique, skewed>>

\* delete takes whichever of the leaf's equal cells the binary search hits
Delete(k) ==
  LET id == DeleteRec(k, 1..MaxOps)
  IN /\ IF id = 0 THEN UNCHANGED <<nodes, entries>>
        ELSE \E i \in DOMAIN nodes[id].cells :
               /\ nodes[id].cells[i][1] = k
               /\ RemoveCell(id, i)
               /\ entries' = entries \ {nodes[id].cells[i]}
     /\ UNCHANGED <<root, unique, skewed>>

(***************************************************************************)
(* get: the leftmost cell of the child descended to, and failing that of   *)
(* the children between the first separator not less and that one.         *)
(***************************************************************************)
GetChildren(n, k) ==
  LET s == Less(n.cells, k)
      g == NotGreater(n.cells, k)
      between == [i \in 1..(Max({g - 1, 0}) - Max({s - 1, 0})) |-> Max({s - 1, 0}) + i]
  IN <<g>> \o (IF s = 0 /\ g # 0 THEN <<0>> ELSE <<>>) \o between

Get(k) ==
  LET below[id \in DOMAIN nodes] ==
        LET n == nodes[id]
            i == Less(n.cells, k) + 1
            Try(found, j) == IF found # <<>> THEN found ELSE below[Child(n, j)]
        IN IF ~n.leaf THEN FoldLeft(Try, <<>>, GetChildren(n, k))
           ELSE IF i <= Len(n.cells) /\ n.cells[i][1] = k THEN <<n.cells[i][2]>> ELSE <<>>
  IN below[root]

(***************************************************************************)
(* The scans.  `max` ends each of them; `out` is what it has collected.    *)
(***************************************************************************)
Cells == Seq(Keys \X Nat)
Children(n) == [i \in 1..(Len(n.cells) + 1) |-> i - 1]

ScanRec(max) ==
  LET below[id \in DOMAIN nodes, out \in Cells] ==
        LET n == nodes[id]
            Step(o, j) == IF Len(o) >= max THEN o ELSE below[Child(n, j), o]
        IN IF Len(out) >= max THEN out
           ELSE IF n.leaf THEN out \o SubSeq(n.cells, 1, Min({max - Len(out), Len(n.cells)}))
           ELSE FoldLeft(Step, out, Children(n))
  IN below[root, <<>>]

ScanRevRec(max) ==
  LET below[id \in DOMAIN nodes, out \in Cells] ==
        LET n == nodes[id]
            Step(o, j) == IF Len(o) >= max THEN o ELSE below[Child(n, j), o]
        IN IF Len(out) >= max THEN out
           ELSE IF n.leaf THEN out \o SubSeq(Reverse(n.cells), 1, Min({max - Len(out), Len(n.cells)}))
           ELSE FoldLeft(Step, out, Reverse(Children(n)))
  IN below[root, <<>>]

\* a bound is <<>>, or <<key, inclusive>>
BeyondHi(k, hi) == hi # <<>> /\ (k > hi[1] \/ (k = hi[1] /\ ~hi[2]))
BelowLo(k, lo) == lo # <<>> /\ (k < lo[1] \/ (k = lo[1] /\ ~lo[2]))
HasPrefix(k, prefix) == k \div 2 = prefix

(***************************************************************************)
(* range_bounded_rec: the walk stops at `max` and, for a prefix, at the    *)
(* first key past it; a leaf ends early at its first key beyond the upper  *)
(* bound, and the walk then goes on with the next child.                   *)
(***************************************************************************)
LeafRange(cells, q, out) ==
  LET ahead == SelectSeq(cells, LAMBDA c : ~BelowLo(c[1], q.lo) /\ ~BeyondHi(c[1], q.hi))
      foreign == {i \in DOMAIN ahead : q.prefix # <<>> /\ ~HasPrefix(ahead[i][1], q.prefix[1])}
      mine == IF foreign = {} THEN Len(ahead) ELSE Min(foreign) - 1
      room == q.max - Len(out)
  IN [out |-> out \o SubSeq(ahead, 1, Min({mine, room})), more |-> foreign = {} /\ mine < room]

RangeRec(q) ==
  LET below[id \in DOMAIN nodes, out \in Cells] ==
        LET n == nodes[id]
            Reaches(j) == /\ j > 0 => ~BeyondHi(n.cells[j][1], q.hi)
                          /\ j < Len(n.cells) => n.cells[j + 1][1] >= q.lo[1]
            Step(r, j) == IF r.more /\ Reaches(j) THEN below[Child(n, j), r.out] ELSE r
        IN IF Len(out) >= q.max THEN [out |-> out, more |-> FALSE]
           ELSE IF n.leaf THEN LeafRange(n.cells, q, out)
           ELSE FoldLeft(Step, [out |-> out, more |-> TRUE], Children(n))
  IN below[root, <<>>].out

RangeBounded(lo, hi, max) == RangeRec([lo |-> lo, hi |-> hi, prefix |-> <<>>, max |-> max])
PrefixRange(p, max) == RangeRec([lo |-> <<2 * p, TRUE>>, hi |-> <<>>, prefix |-> <<p>>, max |-> max])
PrefixRangeRev(p, max) == LET all == Reverse(PrefixRange(p, MaxOps + 1)) IN SubSeq(all, 1, Min({max, Len(all)}))

(***************************************************************************)
(* range_rev_rec: from the last child not beyond the upper bound down to   *)
(* the first whose upper separator is below the lower one.                 *)
(***************************************************************************)
RangeRev(lo, hi, max) ==
  LET below[id \in DOMAIN nodes, out \in Cells] ==
        LET n == nodes[id]
            within == SelectSeq(Reverse(n.cells), LAMBDA c : ~BeyondHi(c[1], hi) /\ ~BelowLo(c[1], lo))
            last == Max({0} \cup {j \in DOMAIN n.cells : ~BeyondHi(n.cells[j][1], hi)})
            Under(j) == j < Len(n.cells) /\ BelowLo(n.cells[j + 1][1], lo)
            Step(r, j) == IF ~r.more \/ Len(r.out) >= max \/ Under(j) THEN [r EXCEPT !.more = FALSE]
                          ELSE [r EXCEPT !.out = below[Child(n, j), r.out]]
        IN IF Len(out) >= max THEN out
           ELSE IF n.leaf THEN out \o SubSeq(within, 1, Min({max - Len(out), Len(within)}))
           ELSE FoldLeft(Step, [out |-> out, more |-> TRUE], Reverse([i \in 1..(last + 1) |-> i - 1])).out
  IN below[root, <<>>]

\* collect_rec, the pages reachable from the root in the order it lists them
CollectRec ==
  LET below[id \in DOMAIN nodes, out \in Seq(DOMAIN nodes)] ==
        LET n == nodes[id]
            Step(o, j) == below[Child(n, j), o]
        IN IF Contains(out, id) THEN out
           ELSE IF n.leaf THEN Append(out, id)
           ELSE FoldLeft(Step, Append(out, id), Children(n))
  IN below[root, <<>>]

-----------------------------------------------------------------------------
Init ==
  /\ nodes = 1 :> Leaf(<<>>) /\ root = 1
  /\ unique \in Uniques
  /\ entries = {} /\ skewed = FALSE /\ ops = 0

Next ==
  /\ ops < MaxOps
  /\ ops' = ops + 1
  /\ \/ \E k \in Keys : Insert(k)
     \/ \E k \in Keys : Delete(k)
     \/ \E e \in entries : DeleteEntry(e)

Spec == Init /\ [][Next]_vars

-----------------------------------------------------------------------------
All == MaxOps + 1

\* every read agrees with the pairs the tree should hold: the full scans list
\* them in key order, a lookup finds a locator of its key when there is one,
\* and bounded, exclusive, prefix and descending scans are the filtered scan,
\* cut off at their limit
ReadsExact ==
  LET scan == ScanRec(All)
      Cut(s, max) == SubSeq(s, 1, Min({max, Len(s)}))
      bounds == {<<>>} \cup (Keys \X BOOLEAN)
      Kept(lo, hi) == SelectSeq(scan, LAMBDA c : ~BelowLo(c[1], lo) /\ ~BeyondHi(c[1], hi))
      Same(k) == SelectSeq(scan, LAMBDA c : HasPrefix(c[1], k \div 2))
  IN /\ \A i \in 1..(Len(scan) - 1) : scan[i][1] <= scan[i + 1][1]
     /\ Len(scan) = Cardinality(entries) /\ ToSet(scan) = entries
     /\ \A max \in {1, All} : /\ ScanRec(max) = Cut(scan, max)
                              /\ ScanRevRec(max) = Cut(Reverse(scan), max)
     /\ \A k \in Keys : LET g == Get(k)
                        IN IF g = <<>> THEN \A e \in entries : e[1] # k ELSE <<k, g[1]>> \in entries
     /\ \A lo, hi \in bounds : \A max \in IF hi = <<>> THEN {2, All} ELSE {All} :
          /\ lo # <<>> => RangeBounded(lo, hi, max) = Cut(Kept(lo, hi), max)
          /\ RangeRev(lo, hi, max) = Cut(Reverse(Kept(lo, hi)), max)
     /\ \A k \in Keys, max \in {1, All} :
          /\ PrefixRange(k \div 2, max) = Cut(Same(k), max)
          /\ PrefixRangeRev(k \div 2, max) = Cut(Reverse(Same(k)), max)

(***************************************************************************)
(* However inserts split the pages and deletes thin them out, every read   *)
(* of the tree agrees with its contents - as long as no split's separator  *)
(* was filed behind an equal one.                                          *)
(***************************************************************************)
LookupsExact == ~skewed => ReadsExact

(***************************************************************************)
(* A unique index never holds a key twice, whichever leaf the split left   *)
(* the first one in; no split leaves a node its page cannot hold; and      *)
(* dropping the index frees every page the tree ever took, each once       *)
(* (collect_pages).                                                        *)
(***************************************************************************)
NothingLeaked ==
  LET pages == CollectRec
  IN /\ Len(pages) = Cardinality(DOMAIN nodes) /\ ToSet(pages) = DOMAIN nodes
     /\ \A id \in DOMAIN nodes : Bytes(nodes[id].cells, Len(nodes[id].cells)) <= Room
     /\ unique => \A e, f \in entries : e[1] = f[1] => e = f
=============================================================================
