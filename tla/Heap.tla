-------------------------------- MODULE Heap --------------------------------
(***************************************************************************)
(* A table's slotted heap pages (heap.rs) and the index that points into   *)
(* them, as the statements of dml.rs, insert.rs and catalog.rs drive both. *)
(* Rows move: a page is repacked when a row leaves it, a row that outgrew  *)
(* its page goes to the last one or a new one, an oversized row spills     *)
(* into a chain of overflow pages.  A statement is one pager transaction,  *)
(* so it is one step here; a refused one leaves nothing behind.            *)
(***************************************************************************)
EXTENDS Integers, Sequences, FiniteSets, TLC, SequencesExt, FiniteSetsExt

CONSTANTS Rows,       \* the documents' identities
          Keys,       \* values of the indexed column
          Sizes,      \* encoded sizes of a document
          Room,       \* bytes of a page behind its fixed header
          ChunkRoom,  \* bytes an overflow page carries
          Uniques,    \* whether the index explored is unique
          MaxOps

VARIABLES heap,    \* Heap, the disk pages behind it and the free pages
          index,   \* the index entries <<key, locator>>
          unique,  \* the index is unique
          rows,    \* what the statements ask for: row -> document
          ops

vars == <<heap, index, unique, rows, ops>>

Docs == [row : Rows, key : Keys, size : Sizes]
SlotSize == 1
OverflowHeader == 1
MaxPages == 99

\* a slot holds a whole document, or its first bytes and the head of its chain
Slot(doc, inline, head) == [doc |-> doc, inline |-> inline, head |-> head]
Spilled(s) == s.inline < s.doc.size
SlotBytes(s) == SlotSize + s.inline + IF Spilled(s) THEN OverflowHeader ELSE 0
Used(slots) == FoldLeft(LAMBDA n, s : n + SlotBytes(s), 0, slots)
FreeSpace(slots) == Room - Used(slots)
Page(slots) == [kind |-> "heap", slots |-> slots]
Chain(doc, len, next) == [kind |-> "chain", doc |-> doc, len |-> len, next |-> next]

SlotsOf(h, p) == h.disk[p].slots
Write(h, p, page) == [h EXCEPT !.disk = [i \in DOMAIN h.disk \cup {p} |-> IF i = p THEN page ELSE h.disk[i]]]

\* Pager::allocate_page: a freed page before a new one
Allocated(h) == LET p == IF h.free # {} THEN Min(h.free) ELSE h.next
                IN [h EXCEPT !.free = @ \ {p}, !.next = IF h.free # {} THEN @ ELSE @ + 1]
NewPage(h) == IF h.free # {} THEN Min(h.free) ELSE h.next

PutLast(h, slot) ==
  LET p == Last(h.pages)
      slots == Append(SlotsOf(h, p), slot)
  IN [heap |-> Write(h, p, Page(slots)), loc |-> <<p, Len(slots)>>]

PutNew(h, slot) ==
  LET p == NewPage(h)
  IN [heap |-> Write([Allocated(h) EXCEPT !.pages = Append(@, p)], p, Page(<<slot>>)), loc |-> <<p, 1>>]

\* the chain pages, recycled ones first; written front to back, each naming the next
TakeChain(h, n) ==
  LET take[i \in 0..n] ==
        IF i = 0 THEN [heap |-> h, ids |-> <<>>]
        ELSE LET t == take[i - 1]
             IN IF t.heap.overflow # <<>>
                THEN [heap |-> [t.heap EXCEPT !.overflow = Front(@)], ids |-> Append(t.ids, Last(t.heap.overflow))]
                ELSE [heap |-> Allocated(t.heap), ids |-> Append(t.ids, NewPage(t.heap))]
  IN take[n]

\* the chain of a document's last bytes: n pages, the last one short
Linked(doc, rest, n, taken) ==
  LET Link(g, i) == Write(g, taken.ids[i], Chain(doc, Min({ChunkRoom, rest - (i - 1) * ChunkRoom}),
                                                 IF i < n THEN taken.ids[i + 1] ELSE 0))
  IN [heap |-> FoldLeft(Link, taken.heap, [i \in 1..n |-> i]), head |-> IF n = 0 THEN 0 ELSE taken.ids[1]]

ChainLen(rest) == (rest + ChunkRoom - 1) \div ChunkRoom
Spill(h, doc, rest) == Linked(doc, rest, ChainLen(rest), TakeChain(h, ChainLen(rest)))

\* what the page has room for stays in the slot
InsertInline(h, doc, useLast, inline) ==
  LET chain == Spill(h, doc, doc.size - inline)
  IN IF useLast THEN PutLast(chain.heap, Slot(doc, inline, chain.head))
     ELSE PutNew(chain.heap, Slot(doc, inline, chain.head))
InsertOverflow(h, doc) ==
  LET need == SlotSize + OverflowHeader
      lastFree == FreeSpace(SlotsOf(h, Last(h.pages)))
  IN IF h.pages # <<>> /\ lastFree >= need THEN InsertInline(h, doc, TRUE, Min({doc.size, lastFree - need}))
     ELSE InsertInline(h, doc, FALSE, Min({doc.size, Room - need}))

HeapInsert(h, doc) ==
  IF doc.size + SlotSize > Room THEN InsertOverflow(h, doc)
  ELSE IF h.pages # <<>> /\ FreeSpace(SlotsOf(h, Last(h.pages))) >= doc.size + SlotSize
       THEN PutLast(h, Slot(doc, doc.size, 0))
       ELSE PutNew(h, Slot(doc, doc.size, 0))

\* the pages of a chain, in order
ChainPages(h, head) ==
  LET walk[i \in 0..MaxPages] ==
        IF i = 0 THEN (IF head = 0 THEN <<>> ELSE <<head>>)
        ELSE LET w == walk[i - 1]
             IN IF w = <<>> \/ Len(w) < i \/ h.disk[Last(w)].next = 0 THEN w
                ELSE Append(w, h.disk[Last(w)].next)
  IN walk[Cardinality(DOMAIN h.disk)]

RecycleForgets(h, slot) == h
RecycleChain(h, slot) ==
  LET ids == ChainPages(h, slot.head)
      Clear(g, p) == [Write(g, p, Page(<<>>)) EXCEPT !.overflow = Append(@, p)]
  IN FoldLeft(Clear, h, ids)

\* repack: the slots that stay close up, in order; <<old, new>> for each of them
RepackMoves(p, slots, gone) ==
  LET stay == SelectSeq([i \in DOMAIN slots |-> i], LAMBDA i : i \notin gone)
  IN [i \in DOMAIN stay |-> <<<<p, stay[i]>>, <<p, i>>>>]
Repacked(slots, gone) ==
  LET stay == SelectSeq([i \in DOMAIN slots |-> i], LAMBDA i : i \notin gone)
  IN [i \in DOMAIN stay |-> slots[stay[i]]]

DropIfEmpty(h, p) ==
  IF SlotsOf(h, p) # <<>> THEN h
  ELSE [h EXCEPT !.pages = SelectSeq(@, LAMBDA q : q # p), !.dropped = Append(@, p)]

(***************************************************************************)
(* Heap::replace: the new image in place when the page holds it, otherwise *)
(* the page closes up and the row is inserted again.                       *)
(***************************************************************************)
Moved(put, moves) == [heap |-> put.heap, placed |-> put.loc, moved |-> moves]

HeapReplace(h, loc, doc) ==
  LET p == loc[1]
      slots == SlotsOf(h, p)
      recycled == RecycleChain(h, slots[loc[2]])
      others == Repacked(slots, {loc[2]})
  IN IF Used(others) + SlotSize + doc.size <= Room
     THEN [heap |-> Write(recycled, p, Page([slots EXCEPT ![loc[2]] = Slot(doc, doc.size, 0)])),
           placed |-> loc, moved |-> <<>>]
     ELSE Moved(HeapInsert(DropIfEmpty(Write(recycled, p, Page(others)), p), doc), RepackMoves(p, slots, {loc[2]}))

\* Heap::remove_many, page by page in page order
RemoveMany(h, locs) ==
  LET touched == SetToSortSeq({l[1] : l \in locs}, LAMBDA a, b : a < b)
      Clear(r, p) ==
        LET gone == {l[2] : l \in {x \in locs : x[1] = p}}
            slots == SlotsOf(r.heap, p)
            freed == FoldLeft(LAMBDA g, i : RecycleChain(g, slots[i]), r.heap, SetToSortSeq(gone, LAMBDA a, b : a < b))
        IN [heap |-> DropIfEmpty(Write(freed, p, Page(Repacked(slots, gone))), p),
            moved |-> r.moved \o RepackMoves(p, slots, gone)]
  IN FoldLeft(Clear, [heap |-> h, moved |-> <<>>], touched)

\* the pages a statement emptied go back to the pager at its end
FreeDropped(h) == [h EXCEPT !.free = @ \cup ToSet(h.dropped), !.dropped = <<>>]

PageLocs(h, p) == {<<p, i>> : i \in DOMAIN SlotsOf(h, p)}
AllLocs(h) == UNION {PageLocs(h, p) : p \in ToSet(h.pages)}
DocAt(h, loc) == SlotsOf(h, loc[1])[loc[2]].doc

-----------------------------------------------------------------------------
\* reindex_insert; a unique tree refuses the key
ReindexInsert(x, doc, loc) ==
  IF unique /\ \E e \in x.idx : e[1] = doc.key THEN [x EXCEPT !.ok = FALSE]
  ELSE [x EXCEPT !.idx = @ \cup {<<doc.key, loc>>}]
ReindexRemove(idx, doc, loc) == idx \ {<<doc.key, loc>>}

\* reindex_repoint: the entry of a document that moved, if it was there
Repoint(idx, before, move) ==
  LET key == DocAt(before, move[1]).key
  IN IF <<key, move[1]>> \in idx THEN (idx \ {<<key, move[1]>>}) \cup {<<key, move[2]>>} ELSE idx

Indexed(x, doc, put) == ReindexInsert([x EXCEPT !.heap = put.heap], doc, put.loc)
InsertRow(x, doc) == IF ~x.ok THEN x ELSE Indexed(x, doc, HeapInsert(x.heap, doc))

(***************************************************************************)
(* The update loop: the targets' entries are all removed first; each       *)
(* replacement then moves the locators of the rows still to come, repoints *)
(* the page's other rows and indexes the new image.                        *)
(***************************************************************************)
Repoints(move, loc, pending) == move[1] # loc /\ move[1] \notin pending

MovedToStale(moved, loc) == loc
MovedTo(moved, loc) ==
  LET hits == {i \in DOMAIN moved : moved[i][1] = loc}
  IN IF hits = {} THEN loc ELSE moved[Min(hits)][2]

\* the entries and the locators still to come follow what the replacement moved
FollowMoves(x, u, pending, out) ==
  LET others == SelectSeq(out.moved, LAMBDA m : Repoints(m, u.loc, pending))
      fixed == FoldLeft(LAMBDA idx, m : Repoint(idx, x.heap, m), x.idx, others)
  IN [ReindexInsert([x EXCEPT !.heap = out.heap, !.idx = fixed], u.doc, out.placed)
        EXCEPT !.todo = [i \in DOMAIN x.todo |-> [x.todo[i] EXCEPT !.loc = MovedTo(out.moved, @)]]]
UpdateOne(x, u, pending) == FollowMoves(x, u, pending, HeapReplace(x.heap, u.loc, u.doc))

UpdateRows(x0) ==
  LET n == Len(x0.todo)
      run[i \in 0..n] ==
        IF i = 0 THEN [x0 EXCEPT !.idx = @ \ {<<DocAt(x0.heap, x0.todo[j].loc).key, x0.todo[j].loc>> : j \in 1..n}]
        ELSE LET x == run[i - 1]
             IN IF ~x.ok THEN x
                ELSE UpdateOne(x, x.todo[i], {x.todo[j].loc : j \in (i + 1)..n})
  IN run[n]

Followed(x, idx, out) ==
  [x EXCEPT !.heap = out.heap, !.idx = FoldLeft(LAMBDA i, m : Repoint(i, x.heap, m), idx, out.moved)]
Removed(x, locs) ==
  Followed(x, x.idx \ {<<DocAt(x.heap, l).key, l>> : l \in locs}, RemoveMany(x.heap, locs))

-----------------------------------------------------------------------------
Start == [heap |-> heap, idx |-> index, ok |-> TRUE, todo |-> <<>>]

\* a statement that failed is aborted whole
Commit(x, after) ==
  IF x.ok THEN heap' = FreeDropped(x.heap) /\ index' = x.idx /\ rows' = after
  ELSE UNCHANGED <<heap, index, rows>>

With(f, docs) == [r \in DOMAIN f \cup {d.row : d \in docs} |->
                    IF \E d \in docs : d.row = r THEN CHOOSE d \in docs : d.row = r ELSE f[r]]
Without(f, gone) == [r \in DOMAIN f \ gone |-> f[r]]
Clashing(docs) == {l \in AllLocs(heap) : \E d \in docs : DocAt(heap, l).key = d.key}

\* a row's identity is no more than a name: new rows take the lowest unused ones
FreshRows(docs) == LET unused == Rows \ DOMAIN rows
                   IN \A d \in docs : d.row \in unused /\ \A r \in unused : r < d.row => \E e \in docs : e.row = r

\* INSERT of one or two rows
Insert(docs) ==
  /\ FreshRows(ToSet(docs))
  /\ Commit(FoldLeft(InsertRow, Start, docs), With(rows, ToSet(docs)))

\* REPLACE: the rows the unique key displaces go first
Replace(d) ==
  /\ unique /\ FreshRows({d})
  /\ LET gone == Clashing({d})
     IN Commit(InsertRow(Removed(Start, gone), d), With(Without(rows, {DocAt(heap, l).row : l \in gone}), {d}))

\* ON CONFLICT DO UPDATE of the row that holds the key
Upsert(key, doc) ==
  /\ unique
  /\ \E l \in Clashing({[key |-> key]}) :
       /\ DocAt(heap, l).row = doc.row
       /\ Commit(UpdateRows([Start EXCEPT !.todo = <<[loc |-> l, doc |-> doc]>>]), With(rows, {doc}))

\* UPDATE and MERGE: the targets in the order the scan or the probe found them
Update(targets) ==
  Commit(UpdateRows([Start EXCEPT !.todo = targets]), With(rows, {targets[i].doc : i \in DOMAIN targets}))

Delete(locs) == Commit(Removed(Start, locs), Without(rows, {DocAt(heap, l).row : l \in locs}))

(***************************************************************************)
(* rewrite_table_tx, the path of ALTER TABLE and of a referential rewrite: *)
(* chains and pages are freed before the rows are inserted again, so the   *)
(* new pages may be the old ones.                                          *)
(***************************************************************************)
ChainsOf(h) == UNION {ToSet(ChainPages(h, SlotsOf(h, l[1])[l[2]].head)) : l \in AllLocs(h)}
ScanDocs(h) == FoldLeft(LAMBDA s, p : s \o [i \in DOMAIN SlotsOf(h, p) |-> SlotsOf(h, p)[i].doc], <<>>, h.pages)

FreedTable(h) == [h EXCEPT !.free = @ \cup ToSet(h.pages) \cup ChainsOf(h), !.pages = <<>>]

Rewrite == Commit(FoldLeft(InsertRow, [Start EXCEPT !.heap = FreedTable(heap), !.idx = {}], ScanDocs(heap)), rows)

\* free_table_storage: everything goes back to the pager
Drop ==
  LET h == FreedTable(heap)
  IN Commit([Start EXCEPT !.heap = [h EXCEPT !.free = @ \cup ToSet(h.overflow), !.overflow = <<>>], !.idx = {}], <<>>)

-----------------------------------------------------------------------------
Init ==
  /\ heap = [pages |-> <<>>, overflow |-> <<>>, dropped |-> <<>>, disk |-> <<>>, free |-> {}, next |-> 1]
  /\ index = {} /\ rows = <<>> /\ ops = 0
  /\ unique \in Uniques

\* the new image of the row at a locator
Images(l) == {d \in Docs : d.row = DocAt(heap, l).row}
Changes == {[loc |-> l, doc |-> d] : l \in AllLocs(heap), d \in Docs}

Next ==
  /\ ops < MaxOps
  /\ ops' = ops + 1 /\ UNCHANGED unique
  /\ \/ \E d \in Docs : Insert(<<d>>)
     \/ \E d, e \in Docs : d.row < e.row /\ Insert(<<d, e>>)
     \/ \E d \in Docs : Replace(d)
     \/ \E k \in Keys, d \in Docs : Upsert(k, d)
     \/ \E l \in AllLocs(heap) : \E d \in Images(l) : Update(<<[loc |-> l, doc |-> d]>>)
     \/ \E l, m \in AllLocs(heap) : l # m /\ \E d \in Images(l), e \in Images(m) :
          Update(<<[loc |-> l, doc |-> d], [loc |-> m, doc |-> e]>>)
     \/ \E locs \in SUBSET AllLocs(heap) : locs # {} /\ Delete(locs)
     \/ Rewrite
     \/ Drop

Spec == Init /\ [][Next]_vars

-----------------------------------------------------------------------------
\* the document a slot reads back as: every link of its chain is its own and they add up
Readable(h, s) ==
  LET ids == ChainPages(h, s.head)
  IN /\ \A i \in DOMAIN ids : h.disk[ids[i]].kind = "chain" /\ h.disk[ids[i]].doc = s.doc
     /\ s.inline + FoldLeft(LAMBDA n, p : n + h.disk[p].len, 0, ids) = s.doc.size

(***************************************************************************)
(* However statements move rows about, the table holds exactly the rows    *)
(* they asked for, each whole, and the index names each of them once, at   *)
(* the place it now is.                                                    *)
(***************************************************************************)
IndexMirrorsHeap ==
  /\ {DocAt(heap, l) : l \in AllLocs(heap)} = {rows[r] : r \in DOMAIN rows}
  /\ Cardinality(AllLocs(heap)) = Cardinality(DOMAIN rows)
  /\ \A l \in AllLocs(heap) : Readable(heap, SlotsOf(heap, l[1])[l[2]])
  /\ index = {<<DocAt(heap, l).key, l>> : l \in AllLocs(heap)}

(***************************************************************************)
(* Every page ever allocated is exactly one of: a heap page, a link of one *)
(* row's chain, on the overflow free list, or back with the pager.         *)
(***************************************************************************)
HeapPagesOwned ==
  LET links == FoldSet(LAMBDA l, s : s \o ChainPages(heap, SlotsOf(heap, l[1])[l[2]].head), <<>>, AllLocs(heap))
      owned == heap.pages \o links \o heap.overflow
  IN /\ IsInjective(owned)
     /\ ToSet(owned) \cap heap.free = {}
     /\ ToSet(owned) \cup heap.free = 1..(heap.next - 1)
     /\ \A p \in ToSet(heap.pages) : Used(SlotsOf(heap, p)) <= Room
=============================================================================
