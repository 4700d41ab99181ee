----------------------------- MODULE MCStorage -----------------------------
(***************************************************************************)
(* What is kept on disk, one component at a time: part says which one a    *)
(* behaviour runs; the others' variables stay Idle, Pitr's as they began.  *)
(* Snapshot readers beside a writer; page allocation under undo; a B-tree  *)
(* of three keys in pages of two or three cells; three rows in heap pages  *)
(* where small rows share a page, a middling one outgrows it and a large   *)
(* one spills over two chain pages; backups, incremental exports and       *)
(* point-in-time restores with one base kept and a remote copy.            *)
(***************************************************************************)
EXTENDS Pitr

VARIABLES part,
          wal, walEp, walEpoch, pageLsn, pool, pending, file, snaps, wpc, wset, rd, poolBy,
          stamp, mixed, seen,                                         \* SnapshotRead
          num, order, free, img, owned, undo, tx, base, lost,         \* PageAlloc
          nodes, root, entries, skewed,                               \* BTree
          heap, index, rows,                                          \* Heap
          unique, ops                                                 \* shared by name

snapVars == <<wal, walEp, walEpoch, pageLsn, pool, pending, file, snaps, wpc, wset, rd, poolBy,
              stamp, mixed, seen>>
allocVars == <<num, order, free, img, owned, undo, tx, base, lost>>
treeVars == <<nodes, root, entries, skewed>>
heapVars == <<heap, index, rows>>
diskVars == <<part, vars, snapVars, allocVars, treeVars, heapVars, unique, ops>>

Snap == INSTANCE SnapshotRead
          WITH Pages <- {1, 2}, Readers <- {11}, MaxPool <- 1, MaxSpin <- 2, MaxCommits <- 2, MaxEpoch <- 1,
               epoch <- walEpoch
Alloc == INSTANCE PageAlloc WITH MaxPages <- 3, MaxOps <- 11, MaxSavepoints <- 1
Weight == [k \in 1..3 |-> IF k = 3 THEN 1 ELSE 2]
Tree == INSTANCE BTree WITH Keys <- 1..3, Room <- 4, Uniques <- BOOLEAN, MaxOps <- 6
Rows == INSTANCE Heap
          WITH Rows <- 1..3, Keys <- {1, 2}, Sizes <- {1, 4, 11}, Room <- 7, ChunkRoom <- 4,
               Uniques <- BOOLEAN, MaxOps <- 3

Idle == 0
SnapIdle ==
  /\ wal = Idle /\ walEp = Idle /\ walEpoch = Idle /\ pageLsn = Idle /\ pool = Idle
  /\ pending = Idle /\ file = Idle /\ snaps = Idle /\ wpc = Idle /\ wset = Idle
  /\ rd = Idle /\ poolBy = Idle /\ stamp = Idle /\ mixed = Idle /\ seen = Idle
AllocIdle ==
  /\ num = Idle /\ order = Idle /\ free = Idle /\ img = Idle /\ owned = Idle
  /\ undo = Idle /\ tx = Idle /\ base = Idle /\ lost = Idle
TreeIdle == nodes = Idle /\ root = Idle /\ entries = Idle /\ skewed = Idle
HeapIdle == heap = Idle /\ index = Idle /\ rows = Idle

DiskInit ==
  /\ Init
  /\ \/ part = "snapshots" /\ Snap!Init /\ AllocIdle /\ TreeIdle /\ HeapIdle /\ unique = Idle /\ ops = Idle
     \/ part = "pages" /\ Alloc!Init /\ SnapIdle /\ TreeIdle /\ HeapIdle /\ unique = Idle
     \/ part = "btree" /\ Tree!Init /\ SnapIdle /\ AllocIdle /\ HeapIdle
     \/ part = "heap" /\ Rows!Init /\ SnapIdle /\ AllocIdle /\ TreeIdle
     \/ part = "backups" /\ SnapIdle /\ AllocIdle /\ TreeIdle /\ HeapIdle /\ unique = Idle /\ ops = Idle

SnapStep ==
  part = "snapshots" /\ Snap!Next /\ UNCHANGED <<part, vars, allocVars, treeVars, heapVars, unique, ops>>
AllocStep == part = "pages" /\ Alloc!Next /\ UNCHANGED <<part, vars, snapVars, treeVars, heapVars, unique>>
TreeStep == part = "btree" /\ Tree!Next /\ UNCHANGED <<part, vars, snapVars, allocVars, heapVars>>
HeapStep == part = "heap" /\ Rows!Next /\ UNCHANGED <<part, vars, snapVars, allocVars, treeVars>>
BackupStep ==
  part = "backups" /\ Next /\ UNCHANGED <<part, snapVars, allocVars, treeVars, heapVars, unique, ops>>

DiskSpec == DiskInit /\ [][SnapStep \/ AllocStep \/ TreeStep \/ HeapStep \/ BackupStep]_diskVars

-----------------------------------------------------------------------------
\* A snapshot read returns its page as of the snapshot's begin or is refused
\* after a truncation only, and no reader pins a superseded image in the page
\* pool, whatever commits, flushes, evictions and truncations run beside it
\* (read_page_at, read_page_shared, page_version).
SnapshotsHold == part = "snapshots" => Snap!AsOf /\ Snap!HistoryKept /\ Snap!PoolFresh

\* Every page has one owner and comes back with its image: after any rollback,
\* to BEGIN or to a savepoint, whatever was freed and reallocated in between
\* (PageAlloc); a heap's pages and overflow chains are disjoint from the free list
\* and none is lost (Heap); a B-tree leaks and overfills no node (BTree).
PagesOwned ==
  /\ part = "pages" => Alloc!UndoRestoresPages /\ Alloc!EveryPageHasOneOwner
  /\ part = "heap" => Rows!HeapPagesOwned
  /\ part = "btree" => Tree!NothingLeaked

\* An index agrees with what it indexes: lookups and scans of a B-tree return
\* exactly the inserted pairs through splits, duplicates and deletes (BTree), and
\* the entries of a table's index point at the rows that carry their keys, however
\* rows moved between slots, pages and overflow chains (Heap).
IndexesExact ==
  /\ part = "btree" => Tree!LookupsExact
  /\ part = "heap" => Rows!IndexMirrorsHeap

\* Every remote body has its checksum beside it whatever failed half-way, but for
\* voided segments and one whose upload met a sweep of the remote chain; and, short
\* of a crash or of files fetched back, no local segment keeps the text of entries
\* an adoption has voided (reconcile_remote, invalidate_incremental_exports).
ArchiveSound == RemoteChecksummed /\ VoidedGone
=============================================================================
