------------------------------ MODULE TxStore ------------------------------
(***************************************************************************)
(* Transactions of the engine over the pager and the write-ahead log:      *)
(* autocommit statements, explicit transactions with savepoints, guarded   *)
(* statements (triggers and referential actions), fused write units and    *)
(* async commit, with ROLLBACK by undo journal, power failure and recovery.*)
(*                                                                         *)
(* A page image is the number of the pager transaction that produced it.   *)
(* A log entry stands for the BEGIN and WRITE frames of a pager            *)
(* transaction with the frame that closes it, for a FENCE or for an ABORT: *)
(* a torn entry fails its CRC and counts as absent.  The engine is single  *)
(* writer (the server holds its write lock), so only a crash interleaves   *)
(* with a call; `pc' marks the points inside sync_wal where that matters.  *)
(* The background data-file fsync is Checkpoint's subject: here a          *)
(* truncation is one step.                                                 *)
(***************************************************************************)
EXTENDS Naturals, Sequences

CONSTANTS
    Page,          \* the pages statements write
    Torn,          \* what a half-written page reads as
    Setups         \* commit modes with the statements and failures explored

Feature == {"tx", "rollback", "save", "guard", "txGuard", "unit", "guardInUnit",
            "abortFail", "restoreFail", "txGuardFail", "fsyncFail"}

ASSUME TxStoreAssumption ==
    /\ Torn \notin Nat
    /\ Setups \subseteq [async : BOOLEAN, features : SUBSET Feature, maxTx : Nat,
                         maxSaves : Nat, maxUndo : Nat, maxFail : Nat]

VARIABLES
    log, synced,   \* the WAL and the length of its fsynced prefix
    dtx,           \* deferred_txids: unfenced deferred commits
    poisoned, broken,  \* Wal::poisoned; an fsync has failed since the last truncation
    db,            \* the images every read surface shows
    queue,         \* keys of pending_writes (their images are db's)
    surv,          \* what each page of the data file may hold after a power failure
    undo, undoOn,  \* UndoState
    inTx, base,    \* tx_snapshot.is_some(), and the images it restores
    saves,         \* savepoints: journal mark and images to restore
    guard,         \* run_with_trigger_guard: "none", "tx" or "auto"
    gsave,         \* the guard's own savepoint
    unit, pendingSync,
    pc, then, staged,  \* progress inside sync_wal / commit_tx_inner
    tick, fails,   \* last txid, WAL I/O failures so far
    setup,         \* the member of Setups this database runs with
    (* specification only *)
    legal,         \* images a power failure may leave
    since, dead    \* last txid before the transaction; txids rolled back

walv == <<log, synced, dtx, poisoned, broken>>
pagev == <<db, queue, surv>>
undov == <<undo, undoOn>>
txv == <<inTx, base, saves>>
guardv == <<guard, gsave>>
unitv == <<unit, pendingSync>>
callv == <<pc, then, staged>>
fates == <<since, dead>>
runv == <<fails, setup>>
vars == <<walv, pagev, undov, txv, guardv, unitv, callv, tick, runv, legal, fates>>

AsyncCommit == setup.async       \* Database::async_commit
Features == setup.features
MaxTx == setup.maxTx         \* bound on pager transactions, full rollbacks aside
MaxSaves == setup.maxSaves   \* bound on the savepoint stack (MAX_SAVEPOINTS = 64)
MaxUndo == setup.maxUndo     \* bound on the undo journal when a savepoint or a guard opens
MaxFail == setup.maxFail     \* bound on WAL I/O failures

NoImages == [p \in {} |-> 0]
Override(f, img) == [p \in Page |-> IF p \in DOMAIN img THEN img[p] ELSE f[p]]
Zero == [p \in Page |-> 0]
NoSave == [mark |-> 0, base |-> Zero]

Init ==
    /\ log = <<>> /\ synced = 0 /\ dtx = <<>> /\ poisoned = FALSE /\ broken = FALSE
    /\ db = Zero /\ queue = {} /\ surv = [p \in Page |-> {0}]
    /\ undo = <<>> /\ undoOn = FALSE
    /\ inTx = FALSE /\ base = Zero /\ saves = <<>>
    /\ guard = "none" /\ gsave = NoSave
    /\ unit = 0 /\ pendingSync = FALSE
    /\ pc = "idle" /\ then = "none" /\ staged = NoImages
    /\ tick = 0 /\ fails = 0 /\ setup \in Setups /\ legal = {Zero} /\ since = 0 /\ dead = {}

-----------------------------------------------------------------------------
(* The log and the undo journal                                            *)

Commit(t, img) == [kind |-> "commit", tx |-> t, img |-> img]
Deferred(t, img) == [kind |-> "deferred", tx |-> t, img |-> img]
Abort(t) == [kind |-> "abort", tx |-> t, img |-> NoImages]
Fence == [kind |-> "fence", tx |-> 0, img |-> NoImages]

\* Wal::fence: nothing to write when no deferred commit is outstanding.
FenceOf(ts) == IF ts = <<>> THEN <<>> ELSE <<Fence>>

\* Wal::abort_deferred: one ABORT per outstanding deferred commit.
AbortsOf(ts) == [i \in DOMAIN ts |-> Abort(ts[i])]

\* Whether recovery replays entry i of log l: a commit always, a deferred
\* commit only when fenced later and never aborted later (DeferredSet).
Replayed(l, i) ==
    \/ l[i].kind = "commit"
    \/ /\ l[i].kind = "deferred"
       /\ \E j \in i + 1 .. Len(l) : l[j].kind = "fence"
       /\ \A j \in i + 1 .. Len(l) : ~(l[j].kind = "abort" /\ l[j].tx = l[i].tx)

\* Pager::recover: replayed images in log order over what the disk holds.
RecoverFrom(l, disk) ==
    [p \in Page |->
        LET hits == {i \in 1 .. Len(l) : p \in DOMAIN l[i].img /\ Replayed(l, i)}
        IN  IF hits = {} THEN disk[p]
            ELSE l[CHOOSE i \in hits : \A j \in hits : j <= i].img[p]]

DiskStates == {d \in [Page -> UNION {surv[p] : p \in Page}] : \A p \in Page : d[p] \in surv[p]}

\* Everything a power failure now may lead to: any log prefix that keeps the
\* fsynced part, any mix of what each page of the file may hold.
Outcomes == {RecoverFrom(SubSeq(log, 1, k), d) : k \in synced .. Len(log), d \in DiskStates}

Recorded(ops) == UNION {DOMAIN ops[i] : i \in DOMAIN ops}

\* restore_transaction's reverse replay of journal ops: the oldest image of
\* a page is written last.
Undone(ops) ==
    [p \in Recorded(ops) |->
        ops[CHOOSE i \in DOMAIN ops :
                /\ p \in DOMAIN ops[i]
                /\ \A j \in DOMAIN ops : p \in DOMAIN ops[j] => i <= j][p]]

UndoTail(mark) == SubSeq(undo, mark + 1, Len(undo))

\* write_page's first-touch recording of ps.
Record(ps) ==
    LET fresh == ps \ Recorded(undo)
    IN  IF undoOn /\ fresh # {} THEN Append(undo, [p \in fresh |-> db[p]]) ELSE undo

\* undo_savepoint: baseline images of every page touched so far.
Baseline ==
    LET touched == Recorded(undo)
    IN  IF touched = {} THEN undo ELSE Append(undo, [p \in touched |-> db[p]])

\* The restore transaction of a rollback, as log entries and as txids; a
\* transaction with nothing staged logs nothing.
RestoreLog(img) == IF DOMAIN img = {} THEN <<>> ELSE <<Deferred(tick + 1, img)>>
RestoreTx(img) == IF DOMAIN img = {} THEN <<>> ELSE <<tick + 1>>

\* The images of a committed pager transaction reach the read surfaces.
Apply(img) ==
    /\ db' = Override(db, img) /\ queue' = queue \cup DOMAIN img
    /\ tick' = IF DOMAIN img = {} THEN tick ELSE tick + 1

\* Transaction state after SQL COMMIT or ROLLBACK.
EndTx == inTx' = FALSE /\ saves' = <<>> /\ base' = Zero
RolledBack == dead' = dead \cup (since + 1 .. tick) /\ UNCHANGED since
GuardClosed == guard' = "none" /\ gsave' = NoSave
EndUndo == undo' = <<>> /\ undoOn' = FALSE

Idle == pc = "idle"
Room == tick < MaxTx
Defers == AsyncCommit \/ inTx \/ unit > 0
MayFail(f) == f \in Features /\ fails < MaxFail /\ fails' = fails + 1 /\ UNCHANGED setup
Sync(cont) == pc' = "fsync" /\ then' = cont
CanFence == dtx = <<>> \/ ~poisoned

-----------------------------------------------------------------------------
(* Statements                                                              *)

\* A pager transaction that commits deferred: in a transaction, in a write
\* unit or a guard, or in async-commit mode.
StmtDeferred(ps) ==
    /\ Idle /\ ps # {} /\ Room /\ Defers /\ ~poisoned
    /\ LET img == [p \in ps |-> tick + 1]
       IN  /\ log' = Append(log, Deferred(tick + 1, img)) /\ Apply(img)
           /\ dtx' = Append(dtx, tick + 1)
    /\ undo' = Record(ps) /\ pendingSync' = TRUE
    /\ legal' = IF inTx \/ unit > 0 THEN legal ELSE legal \cup {db'}
    /\ UNCHANGED <<synced, poisoned, broken, surv, undoOn, txv, guardv, unit, callv, runv, fates>>

\* A synchronous autocommit statement up to its fsync: Wal::commit fences
\* the outstanding deferred commits first.
StmtSync(ps) ==
    /\ Idle /\ ps # {} /\ Room /\ ~Defers /\ ~poisoned
    /\ staged' = [p \in ps |-> tick + 1] /\ tick' = tick + 1
    /\ log' = (log \o FenceOf(dtx)) \o <<Commit(tick + 1, staged')>> /\ dtx' = <<>>
    /\ undo' = Record(ps) /\ Sync("auto")
    /\ legal' = legal \cup {Override(db, staged')}
    /\ UNCHANGED <<synced, poisoned, broken, pagev, undoOn, txv, guardv, unitv, runv, fates>>

Begin ==
    /\ Idle /\ "tx" \in Features /\ ~inTx /\ guard = "none" /\ unit = 0
    /\ inTx' = TRUE /\ base' = db /\ undo' = <<>> /\ undoOn' = TRUE
    /\ since' = tick
    /\ UNCHANGED <<walv, pagev, saves, guardv, unitv, callv, tick, runv, legal, dead>>

\* COMMIT: durability first, teardown after (see FlushDone); in async mode
\* the flusher owns durability.
CommitTx ==
    /\ Idle /\ inTx /\ guard = "none"
    /\ legal' = legal \cup {db}
    /\ IF AsyncCommit
       THEN EndTx /\ EndUndo /\ UNCHANGED <<log, dtx, pc, then>>
       ELSE /\ CanFence /\ log' = log \o FenceOf(dtx) /\ dtx' = <<>> /\ Sync("commit")
            /\ UNCHANGED <<txv, undov>>
    /\ UNCHANGED <<synced, poisoned, broken, pagev, guardv, unitv, staged, tick, runv, fates>>

\* Mutant: ROLLBACK fences the deferred commits instead of voiding them.
RollbackFencesFirst ==
    /\ Idle /\ "rollback" \in Features /\ inTx /\ guard = "none"
    /\ LET img == Undone(undo)
       IN  /\ ~poisoned \/ (dtx = <<>> /\ DOMAIN img = {})
           /\ log' = ((log \o FenceOf(dtx)) \o RestoreLog(img)) \o FenceOf(RestoreTx(img))
           /\ Apply(img)
    /\ dtx' = <<>> /\ EndUndo /\ EndTx /\ Sync("rollback") /\ RolledBack
    /\ UNCHANGED <<synced, poisoned, broken, surv, guardv, unitv, staged, runv, legal>>

\* ROLLBACK: void the deferred commits, write the undo images back as a
\* deferred commit, close the transaction, fence and fsync.
Rollback ==
    /\ Idle /\ "rollback" \in Features /\ inTx /\ guard = "none"
    /\ LET img == Undone(undo)
       IN  /\ ~poisoned \/ (dtx = <<>> /\ DOMAIN img = {})
           /\ log' = ((log \o AbortsOf(dtx)) \o RestoreLog(img)) \o FenceOf(RestoreTx(img))
           /\ Apply(img)
    /\ dtx' = <<>> /\ EndUndo /\ EndTx /\ Sync("rollback") /\ RolledBack
    /\ UNCHANGED <<synced, poisoned, broken, surv, guardv, unitv, staged, runv, legal>>

\* An ABORT frame of the transaction or of a guarded statement cannot be
\* appended: the log is poisoned and the error surfaces with everything else
\* left as it is (the guard's write unit is dropped).
AbortFails ==
    /\ Idle /\ MayFail("abortFail") /\ ~poisoned /\ dtx # <<>>
    /\ \/ inTx /\ guard = "none" /\ UNCHANGED <<guardv, unit>>
       \/ guard = "auto" /\ GuardClosed /\ unit' = unit - 1
    /\ \E k \in 0 .. Len(dtx) - 1 : log' = log \o AbortsOf(SubSeq(dtx, 1, k))
    /\ poisoned' = TRUE
    /\ UNCHANGED <<synced, dtx, broken, pagev, undov, txv, pendingSync, callv, tick, legal, fates>>

\* The restore transaction cannot be appended.  After ROLLBACK, its ABORT
\* frames logged, the transaction stays open with its journal; a guard's part
\* of the journal is gone.
RestoreFails ==
    /\ Idle /\ ~poisoned
    /\ \/ /\ MayFail("restoreFail") /\ inTx /\ guard = "none" /\ Recorded(undo) # {}
          /\ log' = log \o AbortsOf(dtx) /\ dtx' = <<>>
          /\ UNCHANGED <<guardv, unit, undov>>
       \/ /\ MayFail("restoreFail") /\ guard = "auto" /\ Recorded(undo) # {}
          /\ log' = log \o AbortsOf(dtx) /\ dtx' = <<>>
          /\ GuardClosed /\ unit' = unit - 1 /\ EndUndo
       \/ /\ MayFail("txGuardFail") /\ guard = "tx" /\ Recorded(UndoTail(gsave.mark)) # {}
          /\ GuardClosed /\ undo' = SubSeq(undo, 1, gsave.mark)
          /\ UNCHANGED <<log, dtx, undoOn, unit>>
    /\ UNCHANGED <<synced, poisoned, broken, pagev, txv, pendingSync, callv, tick, legal, fates>>

-----------------------------------------------------------------------------
(* Savepoints                                                              *)

\* Mutant: SAVEPOINT marks the journal without recording baseline images.
SavepointMarkOnly ==
    /\ Idle /\ "save" \in Features /\ inTx /\ guard = "none" /\ Len(saves) < MaxSaves
    /\ Len(undo) < MaxUndo
    /\ saves' = Append(saves, [mark |-> Len(undo), base |-> db])
    /\ UNCHANGED <<walv, pagev, undov, inTx, base, guardv, unitv, callv, tick, runv, legal, fates>>

\* Mutant: the savepoint stack has no cap.
SavepointUncapped ==
    /\ Idle /\ "save" \in Features /\ inTx /\ guard = "none"
    /\ Len(undo) < MaxUndo
    /\ saves' = Append(saves, [mark |-> Len(undo), base |-> db])
    /\ undo' = Baseline
    /\ UNCHANGED <<walv, pagev, undoOn, inTx, base, guardv, unitv, callv, tick, runv, legal, fates>>

Savepoint ==
    /\ Idle /\ "save" \in Features /\ inTx /\ guard = "none" /\ Len(saves) < MaxSaves
    /\ Len(undo) < MaxUndo
    /\ saves' = Append(saves, [mark |-> Len(undo), base |-> db])
    /\ undo' = Baseline
    /\ UNCHANGED <<walv, pagev, undoOn, inTx, base, guardv, unitv, callv, tick, runv, legal, fates>>

ReleaseSavepoint(i) ==
    /\ Idle /\ inTx /\ guard = "none"
    /\ saves' = SubSeq(saves, 1, i - 1)
    /\ UNCHANGED <<walv, pagev, undov, inTx, base, guardv, unitv, callv, tick, runv, legal, fates>>

\* Write the journal tail from mark back as a deferred commit; the tail is
\* dropped and the recording sets are rebuilt from what remains.
RestoreTo(mark) ==
    LET img == Undone(UndoTail(mark))
    IN  /\ ~poisoned \/ DOMAIN img = {}
        /\ log' = log \o RestoreLog(img) /\ dtx' = dtx \o RestoreTx(img) /\ Apply(img)
        /\ pendingSync' = TRUE
        /\ undo' = SubSeq(undo, 1, mark)

RollbackTo(i) ==
    /\ Idle /\ inTx /\ guard = "none" /\ Room
    /\ RestoreTo(saves[i].mark) /\ saves' = SubSeq(saves, 1, i - 1)
    /\ UNCHANGED <<synced, poisoned, broken, surv, undoOn, inTx, base, guardv, unit, callv,
                   runv, legal, fates>>

-----------------------------------------------------------------------------
(* Guarded statements and write units                                      *)

\* run_with_trigger_guard opens: a savepoint inside a transaction, else an
\* undo journal and a write unit of its own.
GuardBegin ==
    /\ Idle /\ guard = "none" /\ (IF inTx THEN "txGuard" ELSE "guard") \in Features
    /\ unit = 0 \/ ("guardInUnit" \in Features /\ dtx = <<>>)
    /\ inTx => Len(undo) < MaxUndo
    /\ IF inTx
       THEN /\ guard' = "tx" /\ gsave' = [mark |-> Len(undo), base |-> db]
            /\ undo' = Baseline /\ UNCHANGED <<undoOn, unit, since>>
       ELSE /\ guard' = "auto" /\ gsave' = [mark |-> 0, base |-> db]
            /\ undo' = <<>> /\ undoOn' = TRUE /\ unit' = unit + 1 /\ since' = tick
    /\ UNCHANGED <<walv, pagev, txv, pendingSync, callv, tick, runv, legal, dead>>

\* WriteUnit::end after the entries `pre', with deferred commits ts
\* outstanding and the pages at images `now'.
UnitSync(pre, ts, now, cont) ==
    /\ unit' = unit - 1
    /\ IF AsyncCommit \/ ~pendingSync
       THEN log' = log \o pre /\ dtx' = ts /\ UNCHANGED <<pc, then>>
       ELSE log' = (log \o pre) \o FenceOf(ts) /\ dtx' = <<>> /\ Sync(cont)
    /\ legal' = IF unit' = 0 THEN legal \cup {now} ELSE legal

GuardOk ==
    /\ Idle /\ GuardClosed
    /\ \/ guard = "tx" /\ UNCHANGED <<log, dtx, undov, unit, pc, then, legal>>
       \/ /\ guard = "auto" /\ CanFence /\ UnitSync(<<>>, dtx, db, "guard")
          /\ IF pc' = "idle" THEN EndUndo ELSE UNCHANGED undov
    /\ UNCHANGED <<synced, poisoned, broken, pagev, txv, pendingSync, staged, tick, runv, fates>>

\* The statement or a trigger failed: put every page back.
GuardFails ==
    /\ Idle /\ GuardClosed
    /\ \/ /\ guard = "tx" /\ Room /\ RestoreTo(gsave.mark)
          /\ UNCHANGED <<undoOn, unit, pc, then, legal, fates>>
       \/ /\ guard = "auto" /\ EndUndo /\ RolledBack
          /\ LET img == Undone(undo)
             IN  /\ ~poisoned \/ (dtx = <<>> /\ DOMAIN img = {})
                 /\ Apply(img)
                 /\ UnitSync(AbortsOf(dtx) \o RestoreLog(img), RestoreTx(img), db', "guardFails")
          /\ UNCHANGED pendingSync
    /\ UNCHANGED <<synced, poisoned, broken, surv, txv, staged, runv>>

\* The server fuses a write and its journal entry into one unit.
UnitBegin ==
    /\ Idle /\ "unit" \in Features /\ ~inTx /\ guard = "none" /\ unit = 0
    /\ unit' = 1
    /\ UNCHANGED <<walv, pagev, undov, txv, guardv, pendingSync, callv, tick, runv, legal, fates>>

UnitEnd ==
    /\ Idle /\ guard = "none" /\ unit > 0 /\ CanFence
    /\ UnitSync(<<>>, dtx, db, "unit")
    /\ UNCHANGED <<synced, poisoned, broken, pagev, undov, txv, guardv, pendingSync, staged,
                   tick, runv, fates>>

\* The background flusher of async-commit mode; a no-op while a transaction
\* is open.
SyncPending ==
    /\ Idle /\ AsyncCommit /\ pendingSync /\ ~inTx /\ guard = "none" /\ unit = 0 /\ CanFence
    /\ log' = log \o FenceOf(dtx) /\ dtx' = <<>> /\ Sync("pending")
    /\ UNCHANGED <<synced, poisoned, broken, pagev, undov, txv, guardv, unitv, staged, tick,
                   runv, legal, fates>>

-----------------------------------------------------------------------------
(* The end of sync_wal and of a synchronous commit                         *)

\* Whether the fsync settles what survives: not inside an outer unit, not
\* when nothing was waiting for it, and in async mode not a ROLLBACK's.
Acknowledges ==
    /\ unit = 0
    /\ then = "auto" \/ pendingSync
    /\ then = "rollback" => ~AsyncCommit

\* fdatasync succeeds.  Once one has failed, the kernel may have dropped the
\* dirty pages of the log: a later success then vouches for nothing.
FsyncOk ==
    /\ pc = "fsync" /\ pc' = "flush" /\ staged' = NoImages
    /\ synced' \in IF broken THEN {synced, Len(log)} ELSE {Len(log)}
    /\ db' = Override(db, staged) /\ queue' = queue \cup DOMAIN staged
    /\ pendingSync' = (pendingSync /\ then = "rollback")
    /\ legal' = IF Acknowledges THEN {db'} ELSE legal
    /\ UNCHANGED <<log, dtx, poisoned, broken, surv, undov, txv, guardv, unit, then, tick, runv, fates>>

\* fdatasync fails: the log is poisoned and the caller gets the error.
FsyncFails ==
    /\ pc = "fsync" /\ MayFail("fsyncFail")
    /\ poisoned' = TRUE /\ broken' = TRUE
    /\ pc' = "idle" /\ then' = "none" /\ staged' = NoImages
    /\ UNCHANGED <<log, synced, dtx, pagev, undov, txv, guardv, unitv, tick, legal, fates>>

\* What may survive of a page after image v is written over the images s:
\* rewriting the bytes that are there cannot tear.
Written(s, v) == s \cup {v} \cup (IF s = {v} THEN {} ELSE {Torn})

\* Mutant: deferred images are written to the data file before the fence.
FlushPageEarly(p) ==
    /\ p \in queue
    /\ queue' = queue \ {p} /\ surv' = [surv EXCEPT ![p] = Written(@, db[p])]
    /\ UNCHANGED <<walv, db, undov, txv, guardv, unitv, callv, tick, runv, legal, fates>>

\* flush_pending writes one page; until the file is fsynced the old image,
\* the new one or a torn mix may survive.
FlushPage(p) ==
    /\ pc = "flush" /\ p \in queue
    /\ queue' = queue \ {p} /\ surv' = [surv EXCEPT ![p] = Written(@, db[p])]
    /\ UNCHANGED <<walv, db, undov, txv, guardv, unitv, callv, tick, runv, legal, fates>>

\* The call returns; pages whose write failed stay queued.
FlushDone ==
    /\ pc = "flush" /\ pc' = "idle" /\ then' = "none"
    /\ IF then = "commit" THEN EndTx ELSE UNCHANGED txv
    /\ IF then \in {"commit", "guard"} THEN EndUndo ELSE UNCHANGED undov
    /\ UNCHANGED <<walv, pagev, guardv, unitv, staged, tick, runv, legal, fates>>

\* Mutant: the log is dropped while images are still queued.
TruncateEarly ==
    /\ Idle /\ log # <<>>
    /\ surv' = [p \in Page |-> IF p \in queue THEN surv[p] ELSE {db[p]}]
    /\ log' = <<>> /\ synced' = 0 /\ dtx' = <<>> /\ poisoned' = FALSE /\ broken' = FALSE
    /\ UNCHANGED <<db, queue, undov, txv, guardv, unitv, callv, tick, runv, legal, fates>>

\* Data-file fsync and truncation of a log whose images are all in the file.
Truncate ==
    /\ Idle /\ log # <<>> /\ queue = {}
    /\ surv' = [p \in Page |-> {db[p]}]
    /\ log' = <<>> /\ synced' = 0 /\ dtx' = <<>> /\ poisoned' = FALSE /\ broken' = FALSE
    /\ UNCHANGED <<db, queue, undov, txv, guardv, unitv, callv, tick, runv, legal, fates>>

\* Power failure, then Wal::open and Pager::open.
CrashRecover ==
    /\ \E s \in Outcomes :
          /\ db' = s /\ surv' = [p \in Page |-> {s[p]}] /\ legal' = {s}
    /\ queue' = {} /\ log' = <<>> /\ synced' = 0 /\ dtx' = <<>>
    /\ poisoned' = FALSE /\ broken' = FALSE
    /\ undo' = <<>> /\ undoOn' = FALSE /\ inTx' = FALSE /\ base' = Zero /\ saves' = <<>>
    /\ guard' = "none" /\ gsave' = NoSave /\ unit' = 0 /\ pendingSync' = FALSE
    /\ pc' = "idle" /\ then' = "none" /\ staged' = NoImages
    /\ UNCHANGED <<tick, runv, fates>>

Next ==
    \/ \E ps \in SUBSET Page : StmtDeferred(ps) \/ StmtSync(ps)
    \/ Begin \/ CommitTx \/ Rollback \/ AbortFails \/ RestoreFails
    \/ Savepoint \/ \E i \in DOMAIN saves : ReleaseSavepoint(i) \/ RollbackTo(i)
    \/ GuardBegin \/ GuardOk \/ GuardFails \/ UnitBegin \/ UnitEnd \/ SyncPending
    \/ FsyncOk \/ FsyncFails \/ \E p \in Page : FlushPage(p)
    \/ FlushDone \/ Truncate \/ CrashRecover

Spec == Init /\ [][Next]_vars

-----------------------------------------------------------------------------
(* Properties                                                              *)

\* Types of the engine's, the pager's and the log's state.
TypeOK ==
    /\ synced \in 0 .. Len(log) /\ tick \in 0 .. 2 * MaxTx /\ fails \in 0 .. MaxFail
    /\ \A i \in DOMAIN dtx : dtx[i] \in 1 .. tick
    /\ \A i \in DOMAIN log : log[i].kind \in {"commit", "deferred", "abort", "fence"}
    /\ db \in [Page -> Nat \cup {Torn}] /\ base \in [Page -> Nat \cup {Torn}]
    /\ queue \subseteq Page /\ surv \in [Page -> SUBSET (Nat \cup {Torn})]
    /\ undoOn \in BOOLEAN /\ inTx \in BOOLEAN /\ pendingSync \in BOOLEAN
    /\ Len(saves) <= MaxSaves /\ unit \in 0 .. 2
    /\ guard \in {"none", "tx", "auto"} /\ pc \in {"idle", "fsync", "flush"}

\* No fsync or restore fails, nothing voids deferred commits under async
\* commit, and no statement is guarded inside a write unit.
Regular ==
    /\ Features \cap {"fsyncFail", "restoreFail", "txGuardFail", "guardInUnit"} = {}
    /\ AsyncCommit => Features \cap {"rollback", "guard"} = {}

\* Atomicity and durability, short of failing fsyncs and restores: whatever
\* prefix of the log and whatever mix of data pages a power failure leaves,
\* recovery yields a state of the committed history that is no older than the
\* last acknowledged one: never part of a transaction, a guarded statement or a write unit, never a torn
\* page, never a change that was rolled back (Pager::recover, DeferredSet).
Recoverable == Regular => Outcomes \subseteq legal

\* Unless the restore of a guarded statement fails in a transaction, at any
\* moment the undo journal would take every page back to BEGIN, to each
\* savepoint, and to the start of a guarded statement, however savepoints,
\* rollbacks to them and guards were nested and whatever else fails
\* (undo_savepoint, take_undo_to, restore_transaction).
UndoRestores ==
    "txGuardFail" \notin Features =>
    /\ inTx => Override(db, Undone(undo)) = base
    /\ \A i \in DOMAIN saves : Override(db, Undone(UndoTail(saves[i].mark))) = saves[i].base
    /\ guard # "none" => Override(db, Undone(UndoTail(gsave.mark))) = gsave.base

\* The data file never holds an image of an unfenced deferred commit, which
\* a ROLLBACK or a power failure may still take away (commit_tx_inner).
UnfencedOffDisk == \A j \in DOMAIN dtx : \A p \in Page : dtx[j] \notin surv[p]

\* A transaction or guarded statement whose rollback succeeded never comes
\* back, whatever failed before or fails later (Wal::abort_deferred,
\* DeferredSet::abort).
NoResurrection == \A s \in Outcomes : \A p \in Page : s[p] \notin dead
=============================================================================
