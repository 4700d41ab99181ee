---------------------------- MODULE SnapshotRead ----------------------------
(***************************************************************************)
(* Reads as of a snapshot against commits, flushes and WAL truncation      *)
(* (pager.rs).  Readers hold no database lock: read_page_as_of,            *)
(* read_page_shared and materialize_snapshot are split at every lock they  *)
(* take and release.  One writer commits page images (the WAL lock is held *)
(* from the append to the publication of the images), flushes them to the  *)
(* data file and truncates the WAL, under a snapshot only past the hard    *)
(* limit.  An image is the number of the commit that wrote it.             *)
(***************************************************************************)
EXTENDS Integers, Sequences, FiniteSets

CONSTANTS Pages, Readers,
          MaxPool,    \* capacity of the page pool
          MaxSpin,    \* attempts of read_page_shared (64)
          MaxCommits, MaxEpoch

None == -1

VARIABLES wal,     \* the commits in the log: [lsn, writes]
          walEp,   \* Wal::epoch
          epoch,   \* Pager::epoch, published after the truncation
          pageLsn, \* Pager::page_lsn
          pool,    \* Pager::pool
          pending, \* Pager::pending_writes
          file,    \* the data file
          snaps,   \* SnapState::active: what each reader has registered
          wpc,     \* where the writer is
          wset,    \* the pages it is committing or flushing
          rd,      \* the read each reader is in
          poolBy,  \* the reader holding the pool lock, or None
          stamp,   \* commits made so far
          mixed,   \* a version was sampled across a truncation (see PoolFresh)
          seen     \* each page's image when the reader's snapshot began

vars == <<wal, walEp, epoch, pageLsn, pool, pending, file, snaps, wpc, wset, rd, poolBy, stamp, mixed, seen>>
logVars == <<wal, walEp, epoch, pageLsn>>
imgVars == <<pool, pending, file>>
writer == <<wpc, wset, stamp>>

Blank == [p \in Pages |-> None]
NoRead == [pc |-> "idle", page |-> None, v0 |-> None, ep0 |-> None, lsn |-> None, img |-> None,
           got |-> Blank, tries |-> 0, out |-> "none"]
NoSnap == [on |-> FALSE, epoch |-> 0, lsn |-> 0, cache |-> Blank, mat |-> FALSE]

LastLsn(l) == IF l = <<>> THEN 0 ELSE l[Len(l)].lsn
Within(lsn, snap) == lsn <= snap.lsn   \* None is below every LSN
WalFree == wpc \in {"idle", "flush", "retire", "repool"}
PoolFree == poolBy = None
Latest(p) == IF pending[p] # None THEN pending[p] ELSE file[p]
Goto(r, pc) == rd' = [rd EXCEPT ![r].pc = pc]

(***************************************************************************)
(* The snapshot registry.                                                  *)
(***************************************************************************)
BeginSnapshot(r) ==
  /\ rd[r].pc = "idle" /\ ~snaps[r].on /\ WalFree
  /\ snaps' = [snaps EXCEPT ![r] = [NoSnap EXCEPT !.on = TRUE, !.epoch = walEp, !.lsn = LastLsn(wal)]]
  /\ seen' = [seen EXCEPT ![r] = [p \in Pages |-> Latest(p)]]
  /\ UNCHANGED <<logVars, imgVars, writer, rd, poolBy, mixed>>

EndSnapshot(r) ==
  /\ rd[r].pc = "idle" /\ snaps[r].on
  /\ snaps' = [snaps EXCEPT ![r] = NoSnap]
  /\ rd' = [rd EXCEPT ![r] = NoRead]
  /\ UNCHANGED <<logVars, imgVars, writer, poolBy, seen, mixed>>

(***************************************************************************)
(* read_page_as_of.                                                        *)
(***************************************************************************)
StartRead(r, p) ==
  /\ rd[r].pc = "idle" /\ snaps[r].on
  /\ rd' = [rd EXCEPT ![r] = [NoRead EXCEPT !.page = p,
                                !.pc = IF epoch # snaps[r].epoch THEN "idle" ELSE "dirty",
                                !.out = IF epoch # snaps[r].epoch THEN "old" ELSE "none"]]
  /\ UNCHANGED <<logVars, imgVars, writer, snaps, poolBy, seen, mixed>>

DirtyAt(r) ==
  /\ rd[r].pc = "dirty"
  /\ Goto(r, IF Within(pageLsn[rd[r].page], snaps[r]) THEN "touch" ELSE "scan")
  /\ UNCHANGED <<logVars, imgVars, writer, snaps, poolBy, seen, mixed>>

(***************************************************************************)
(* read_page_shared: pool, pending writes, data file; the image read from  *)
(* the file enters the pool only if the page's version has not moved.      *)
(***************************************************************************)
Got(r, img) == rd' = [rd EXCEPT ![r].img = img, ![r].pc = "verify"]

PoolTouch(r) ==
  /\ rd[r].pc = "touch" /\ PoolFree
  /\ IF pool[rd[r].page] # None THEN Got(r, pool[rd[r].page]) ELSE Goto(r, "lsn0")
  /\ UNCHANGED <<logVars, imgVars, writer, snaps, poolBy, seen, mixed>>

\* page_version samples page_lsn before the epoch.  LsnEpoch is the epoch
\* the LSNs belong to: the published one until they are to be cleared.
LsnEpoch == IF wpc = "clear" THEN epoch - 1 ELSE epoch

VersionLsn(r) ==
  /\ rd[r].pc = "lsn0"
  /\ rd' = [rd EXCEPT ![r].v0 = pageLsn[rd[r].page], ![r].ep0 = LsnEpoch, ![r].pc = "ep0"]
  /\ UNCHANGED <<logVars, imgVars, writer, snaps, poolBy, seen, mixed>>

VersionEpoch(r) ==
  /\ rd[r].pc = "ep0"
  /\ rd' = [rd EXCEPT ![r].ep0 = epoch, ![r].pc = "pending"]
  /\ mixed' = (mixed \/ epoch # rd[r].ep0)
  /\ UNCHANGED <<logVars, imgVars, writer, snaps, poolBy, seen>>

PendingGet(r) ==
  /\ rd[r].pc = "pending"
  /\ IF pending[rd[r].page] # None THEN Got(r, pending[rd[r].page]) ELSE Goto(r, "file")
  /\ UNCHANGED <<logVars, imgVars, writer, snaps, poolBy, seen, mixed>>

FileRead(r) ==
  /\ rd[r].pc = "file"
  /\ rd' = [rd EXCEPT ![r].img = file[rd[r].page], ![r].pc = "lock"]
  /\ UNCHANGED <<logVars, imgVars, writer, snaps, poolBy, seen, mixed>>

Full == Cardinality({p \in Pages : pool[p] # None}) >= MaxPool

Insert(p, img) ==
  IF Full THEN \E q \in Pages : pool[q] # None /\ pool' = [pool EXCEPT ![q] = None, ![p] = img]
  ELSE pool' = [pool EXCEPT ![p] = img]

LockPool(r) ==
  /\ rd[r].pc = "lock" /\ PoolFree
  /\ LET p == rd[r].page
     IN \/ /\ pool[p] # None
           /\ Got(r, pool[p])
           /\ UNCHANGED <<pool, poolBy>>
        \/ /\ pool[p] = None /\ pending[p] # None
           /\ Insert(p, pending[p])
           /\ Got(r, pending[p])
           /\ UNCHANGED poolBy
        \/ /\ pool[p] = None /\ pending[p] = None
           /\ rd' = [rd EXCEPT ![r].lsn = pageLsn[p], ![r].pc = "recheck"]
           /\ poolBy' = r
           /\ UNCHANGED pool
  /\ UNCHANGED <<logVars, pending, file, writer, snaps, seen, mixed>>

UnmovedByEpoch(r) == epoch = rd[r].ep0
Unmoved(r) == rd[r].lsn = rd[r].v0 /\ epoch = rd[r].ep0

Recheck(r) ==
  /\ rd[r].pc = "recheck"
  /\ poolBy' = None
  /\ IF Unmoved(r)
     THEN Insert(rd[r].page, rd[r].img) /\ Goto(r, "verify")
     ELSE /\ UNCHANGED pool
          /\ rd' = [rd EXCEPT ![r].tries = @ + 1,
                              ![r].out = IF rd[r].tries + 1 = MaxSpin THEN "spun" ELSE "none",
                              ![r].pc = IF rd[r].tries + 1 = MaxSpin THEN "idle" ELSE "lsn0"]
  /\ UNCHANGED <<logVars, pending, file, writer, snaps, seen, mixed>>

(***************************************************************************)
(* The second half of the double check: LSN, then epoch.                   *)
(***************************************************************************)
VerifyLsn(r) ==
  /\ rd[r].pc = "verify"
  /\ rd' = [rd EXCEPT ![r].lsn = pageLsn[rd[r].page], ![r].pc = "verifyEpoch"]
  /\ UNCHANGED <<logVars, imgVars, writer, snaps, poolBy, seen, mixed>>

StillCurrentByLsn(r) == Within(rd[r].lsn, snaps[r])
StillCurrent(r) == epoch = snaps[r].epoch /\ Within(rd[r].lsn, snaps[r])

VerifyEpoch(r) ==
  /\ rd[r].pc = "verifyEpoch"
  /\ rd' = [rd EXCEPT ![r].pc = IF StillCurrent(r) THEN "idle" ELSE "scan",
                      ![r].out = IF StillCurrent(r) THEN "ok" ELSE "none"]
  /\ UNCHANGED <<logVars, imgVars, writer, snaps, poolBy, seen, mixed>>

(***************************************************************************)
(* materialize_snapshot reads the log without its lock and installs what   *)
(* it found only if the epoch is still the snapshot's.                     *)
(***************************************************************************)
Newest(p, s) ==
  LET hits == {i \in 1..Len(wal) : wal[i].lsn <= s.lsn /\ p \in wal[i].pages}
  IN IF hits = {} THEN None ELSE wal[CHOOSE i \in hits : \A j \in hits : j <= i].stamp

Scan(r) ==
  /\ rd[r].pc = "scan"
  /\ rd' = [rd EXCEPT ![r].got = [p \in Pages |-> IF snaps[r].mat THEN None ELSE Newest(p, snaps[r])],
                      ![r].pc = IF snaps[r].mat THEN "cached" ELSE "install"]
  /\ UNCHANGED <<logVars, imgVars, writer, snaps, poolBy, seen, mixed>>

MergedReplaces(cache, got) == got
Merged(cache, got) == [p \in Pages |-> IF got[p] # None THEN got[p] ELSE cache[p]]

Install(r) ==
  /\ rd[r].pc = "install" /\ WalFree
  /\ IF walEp # snaps[r].epoch
     THEN /\ rd' = [rd EXCEPT ![r].pc = "idle", ![r].out = "old"]
          /\ UNCHANGED snaps
     ELSE /\ snaps' = [snaps EXCEPT ![r].cache = Merged(@, rd[r].got), ![r].mat = TRUE]
          /\ Goto(r, "cached")
  /\ UNCHANGED <<logVars, imgVars, writer, poolBy, seen, mixed>>

CacheGet(r) ==
  /\ rd[r].pc = "cached"
  /\ LET img == snaps[r].cache[rd[r].page]
     IN rd' = [rd EXCEPT ![r].img = img, ![r].pc = "idle", ![r].out = IF img = None THEN "lost" ELSE "ok"]
  /\ UNCHANGED <<logVars, imgVars, writer, snaps, poolBy, seen, mixed>>

(***************************************************************************)
(* commit_tx_inner, under the WAL lock: the log, then the images that the  *)
(* snapshots of this epoch may still need, then pool, pending and LSN at   *)
(* once.                                                                   *)
(***************************************************************************)
AppendCommit(ps) ==
  /\ wpc = "idle" /\ stamp < MaxCommits
  /\ stamp' = stamp + 1
  /\ wal' = wal \o <<[lsn |-> LastLsn(wal) + 1, pages |-> ps, stamp |-> stamp + 1]>>
  /\ wset' = ps /\ wpc' = "preserve"
  /\ UNCHANGED <<walEp, epoch, pageLsn, imgVars, snaps, rd, poolBy, seen, mixed>>

Before(p) == IF pool[p] # None THEN pool[p] ELSE Latest(p)

PreservedNever(s) == s

Preserved(s) ==
  [s EXCEPT !.cache = [p \in Pages |-> IF p \in wset /\ pageLsn[p] = None THEN Before(p) ELSE @[p]]]

Preserve ==
  /\ wpc = "preserve" /\ PoolFree
  /\ snaps' = [r \in Readers |-> IF snaps[r].on /\ snaps[r].epoch = walEp THEN Preserved(snaps[r]) ELSE snaps[r]]
  /\ wpc' = "apply"
  /\ UNCHANGED <<logVars, imgVars, wset, stamp, rd, poolBy, seen, mixed>>

Apply ==
  /\ wpc = "apply" /\ PoolFree
  /\ pool' = [p \in Pages |-> IF p \in wset /\ pool[p] # None THEN stamp ELSE pool[p]]
  /\ pending' = [p \in Pages |-> IF p \in wset THEN stamp ELSE pending[p]]
  /\ pageLsn' = [p \in Pages |-> IF p \in wset THEN LastLsn(wal) ELSE pageLsn[p]]
  /\ wpc' = "flush" /\ wset' = {}
  /\ UNCHANGED <<wal, walEp, epoch, file, snaps, rd, poolBy, stamp, seen, mixed>>

(***************************************************************************)
(* flush_pending, page by page: file, pending, pool.  A deferred commit    *)
(* leaves its images pending.                                              *)
(***************************************************************************)
FlushPage(p) ==
  /\ wpc = "flush" /\ pending[p] # None
  /\ file' = [file EXCEPT ![p] = pending[p]]
  /\ wpc' = "retire" /\ wset' = {p}
  /\ UNCHANGED <<logVars, pool, pending, snaps, rd, poolBy, stamp, seen, mixed>>

Retire ==
  /\ wpc = "retire"
  /\ pending' = [p \in Pages |-> IF p \in wset THEN None ELSE pending[p]]
  /\ wpc' = "repool"
  /\ UNCHANGED <<logVars, pool, file, wset, snaps, rd, poolBy, stamp, seen, mixed>>

Repool ==
  /\ wpc = "repool" /\ PoolFree
  /\ pool' = [p \in Pages |-> IF p \in wset /\ pool[p] # None THEN file[p] ELSE pool[p]]
  /\ wpc' = "flush" /\ wset' = {}
  /\ UNCHANGED <<logVars, pending, file, snaps, rd, poolBy, stamp, seen, mixed>>

FlushEnd ==
  /\ wpc = "flush"
  /\ wpc' = "idle"
  /\ UNCHANGED <<logVars, imgVars, wset, stamp, snaps, rd, poolBy, seen, mixed>>

(***************************************************************************)
(* truncate_wal_locked: the log, the published epoch, the LSNs.            *)
(***************************************************************************)
Truncate(respect) ==
  /\ wpc = "idle" /\ pending = Blank /\ wal # <<>> /\ walEp < MaxEpoch
  /\ respect => \A r \in Readers : ~snaps[r].on
  /\ wal' = <<>> /\ walEp' = walEp + 1
  /\ wpc' = "publish"
  /\ UNCHANGED <<epoch, pageLsn, imgVars, wset, stamp, snaps, rd, poolBy, seen, mixed>>

PublishEpoch ==
  /\ wpc = "publish"
  /\ epoch' = walEp /\ wpc' = "clear"
  /\ UNCHANGED <<wal, walEp, pageLsn, imgVars, wset, stamp, snaps, rd, poolBy, seen, mixed>>

ClearLsn ==
  /\ wpc = "clear"
  /\ pageLsn' = Blank /\ wpc' = "idle"
  /\ UNCHANGED <<wal, walEp, epoch, imgVars, wset, stamp, snaps, rd, poolBy, seen, mixed>>

Init ==
  /\ wal = <<>> /\ walEp = 0 /\ epoch = 0 /\ pageLsn = Blank
  /\ pool = Blank /\ pending = Blank /\ file = [p \in Pages |-> 0]
  /\ snaps = [r \in Readers |-> NoSnap] /\ rd = [r \in Readers |-> NoRead]
  /\ wpc = "idle" /\ wset = {} /\ poolBy = None /\ stamp = 0 /\ mixed = FALSE
  /\ seen = [r \in Readers |-> Blank]

Reader(r) ==
  \/ BeginSnapshot(r) \/ EndSnapshot(r)
  \/ \E p \in Pages : StartRead(r, p)
  \/ DirtyAt(r) \/ PoolTouch(r) \/ VersionLsn(r) \/ VersionEpoch(r) \/ PendingGet(r) \/ FileRead(r)
  \/ LockPool(r) \/ Recheck(r) \/ VerifyLsn(r) \/ VerifyEpoch(r)
  \/ Scan(r) \/ Install(r) \/ CacheGet(r)

Writer ==
  \/ \E ps \in SUBSET Pages \ {{}} : AppendCommit(ps)
  \/ Preserve \/ Apply \/ Retire \/ Repool \/ FlushEnd
  \/ \E p \in Pages : FlushPage(p)
  \/ \E respect \in BOOLEAN : Truncate(respect)
  \/ PublishEpoch \/ ClearLsn

Next == Writer \/ \E r \in Readers : Reader(r)

Spec == Init /\ [][Next]_vars

(***************************************************************************)
(* A snapshot read returns the page as it was when the snapshot began,     *)
(* whatever commits, flushes, evictions and truncations ran meanwhile.     *)
(***************************************************************************)
AsOf == ~mixed => \A r \in Readers : rd[r].out = "ok" => rd[r].img = seen[r][rd[r].page]

(***************************************************************************)
(* A snapshot read is refused only after a truncation under it, or when    *)
(* the page kept changing: the history a snapshot needs is in the log or   *)
(* in its cache for as long as its epoch lasts.                            *)
(***************************************************************************)
Refused(r) == rd[r].out \in {"old", "lost"}
HistoryKept == \A r \in Readers : Refused(r) => walEp # snaps[r].epoch

(***************************************************************************)
(* The pool never holds an image older than the last commit applied: a     *)
(* reader that read the file before a commit does not pin what it read.    *)
(* Exempt is a version of which a truncation separated the two samples:    *)
(* LSNs start again in the new epoch, so (old LSN, new epoch) can come     *)
(* back.                                                                   *)
(***************************************************************************)
Fresh == \A p \in Pages : pool[p] # None => pool[p] = Latest(p)
PoolFresh == ~mixed => Fresh
=============================================================================
