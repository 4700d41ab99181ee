----------------------------- MODULE Checkpoint -----------------------------
(***************************************************************************)
(* The pager's checkpoint protocol: one writer thread that logs, flushes   *)
(* and truncates, one background thread that fsyncs the data file, and     *)
(* read snapshots that keep the log from being truncated early.            *)
(*                                                                         *)
(* Page images are abstracted to version numbers.  Every frame group that  *)
(* is appended to the WAL (a commit, a fence, an ABORT) takes one unit of  *)
(* log length and the next value of `head'; the WAL holds the units        *)
(* trunc+1 .. head, so that its length in bytes, the code's `appended', is *)
(* head - trunc.  A page's version is the unit that logged the image.      *)
(* The units fsynced and covered by a commit or a fence are 1 .. fenced.   *)
(***************************************************************************)
EXTENDS Naturals

CONSTANTS
    Page,        \* the data pages
    Reader,      \* clients that may hold a read snapshot
    Soft,        \* ckpt_soft: log length that requests a data-file fsync
    Hard,        \* ckpt_hard: log length at which the writer stalls
    MaxHead,     \* bound on appended frame groups and on commit attempts
    MaxSyncs     \* data-file fsyncs after which no further fence is asked for

ASSUME CkptAssumption ==
    /\ Soft \in Nat \ {0} /\ Hard \in Nat /\ Soft <= Hard
    /\ MaxHead \in Nat /\ MaxSyncs \in Nat

VARIABLES
    (* WAL *)
    head, trunc, fenced,
    deferred,    \* deferred commits outstanding (deferred_since_fence > 0)
    epoch,       \* Wal::epoch, bumped by every completed truncation
    poisoned,    \* a truncation could not rewrite the log header
    (* data file *)
    last,        \* newest committed version of every page (read surfaces)
    durable,     \* newest version of every page that a crash must keep
    pending,     \* pending_writes: version queued for the file, 0 = none
    file,        \* version the data file holds in the OS cache
    disk,        \* version the data file is known to hold durably
    (* writer *)
    wpc, staged, sync, keys, len, baseline, ret,
    (* CkptState, shared under its mutex *)
    requested, pendingLen, started, completed, coveredLen, lastOk,
    (* background thread *)
    bpc, bcov, blast, bsnap,
    appends,     \* CkptShared::appends
    snaps        \* readers holding a registered snapshot

wal == <<head, trunc, fenced, deferred, epoch, poisoned>>
data == <<last, durable, pending, file, disk>>
writer == <<wpc, staged, sync, keys, len, baseline, ret>>
ckpt == <<requested, pendingLen, started, completed, coveredLen, lastOk>>
thread == <<bpc, bcov, blast, bsnap>>
vars == <<wal, data, writer, ckpt, thread, appends, snaps>>

Queued == {p \in Page : pending[p] # 0}
FileLen == head - trunc

Init ==
    /\ head = 0 /\ trunc = 0 /\ fenced = 0 /\ deferred = FALSE
    /\ epoch = 0 /\ poisoned = FALSE
    /\ last = [p \in Page |-> 0] /\ durable = last /\ pending = last
    /\ file = last /\ disk = last
    /\ wpc = "idle" /\ staged = {} /\ sync = FALSE /\ keys = {}
    /\ len = 0 /\ baseline = 0 /\ ret = "idle"
    /\ requested = FALSE /\ pendingLen = 0 /\ started = 0 /\ completed = 0
    /\ coveredLen = 0 /\ lastOk = FALSE
    /\ bpc = "wait" /\ bcov = 0 /\ blast = 0 /\ bsnap = last
    /\ appends = 0 /\ snaps = {}

-----------------------------------------------------------------------------
(* The writer                                                              *)

Goto(pc) == wpc' = pc

\* A caller hands a transaction with staged pages to commit_tx (fsync) or
\* commit_tx_deferred.
StartCommit(ps, fsync) ==
    /\ wpc = "idle" /\ ps # {} /\ head < MaxHead /\ appends < MaxHead
    /\ staged' = ps /\ sync' = fsync /\ Goto("tryFree")
    /\ UNCHANGED <<wal, data, keys, len, baseline, ret, ckpt, thread, appends, snaps>>

\* Mutant: a queued or in-flight sync does not hold a truncation back.
CoveredDespiteInFlight(n) == lastOk /\ coveredLen >= n

\* The test under CkptState's mutex that licenses a truncation without
\* another fsync: a completed sync covers the log and none is queued.
Covered(n) == lastOk /\ completed = started /\ ~requested /\ coveredLen >= n

\* try_free_truncate, up to the verdict of free_truncate_if_covered.
TryFreeTruncate ==
    /\ wpc = "tryFree"
    /\ IF Queued = {} /\ FileLen >= Soft /\ Covered(FileLen)
       THEN Goto("truncSoft") /\ ret' = "append"
       ELSE Goto("append") /\ UNCHANGED ret
    /\ UNCHANGED <<wal, data, staged, sync, keys, len, baseline, ckpt, thread, appends, snaps>>

\* Where the writer goes when a soft truncation yields to a snapshot.
NotTruncated == IF ret = "append" THEN "append" ELSE "request"

\* Mutant: the new log starts one unit late.
DropLogOffByOne ==
    /\ trunc' = head + 1 /\ epoch' = epoch + 1 /\ poisoned' = FALSE
    /\ deferred' = FALSE
    /\ Goto("reset")
    /\ UNCHANGED <<head, fenced>>

\* Wal::checkpoint under the WAL lock: drop the log, reset the LSNs, publish
\* the new epoch.
DropLog ==
    /\ trunc' = head /\ epoch' = epoch + 1 /\ poisoned' = FALSE
    /\ deferred' = FALSE
    /\ Goto("reset")
    /\ UNCHANGED <<head, fenced>>

\* set_len(0) fails and nothing happens, or it succeeds and the header cannot
\* be rewritten: the log is gone from disk and every later append is refused
\* until a retry succeeds.
\* A commit that was about to append fails with the error; after a commit,
\* a fence or an abort the error is only logged.
DropLogFails ==
    /\ poisoned' = TRUE \/ UNCHANGED poisoned
    /\ Goto("idle")
    /\ UNCHANGED <<head, trunc, fenced, deferred, epoch>>

\* Mutant: the soft path does not look at the snapshot registry.
TruncateSoftBlind ==
    /\ wpc = "truncSoft" /\ (DropLog \/ DropLogFails)
    /\ UNCHANGED <<data, staged, sync, keys, len, baseline, ret, ckpt, thread, appends, snaps>>

\* truncate_wal_locked(true): yields to active snapshots.
TruncateSoft ==
    /\ wpc = "truncSoft"
    /\ \/ snaps # {} /\ Goto(NotTruncated) /\ UNCHANGED wal
       \/ snaps = {} /\ (DropLog \/ DropLogFails)
    /\ UNCHANGED <<data, staged, sync, keys, len, baseline, ret, ckpt, thread, appends, snaps>>

\* truncate_wal_locked(false): flow control wins over snapshots.
TruncateHard ==
    /\ wpc = "truncHard" /\ (DropLog \/ DropLogFails)
    /\ UNCHANGED <<data, staged, sync, keys, len, baseline, ret, ckpt, thread, appends, snaps>>

\* covered_len = 0 after a truncation, in a lock section of its own.
ResetCovered ==
    /\ wpc = "reset"
    /\ coveredLen' = 0 /\ Goto(ret)
    /\ UNCHANGED <<wal, data, staged, sync, keys, len, baseline, ret, requested, pendingLen,
                   started, completed, lastOk, thread, appends, snaps>>

\* Mutant: a deferred commit flushes its images like a synchronous one.
AppendCommitEagerFlush ==
    /\ wpc = "append" /\ ~poisoned
    /\ head' = head + 1 /\ appends' = appends + 1
    /\ last' = [p \in Page |-> IF p \in staged THEN head + 1 ELSE last[p]]
    /\ pending' = [p \in Page |-> IF p \in staged THEN head + 1 ELSE pending[p]]
    /\ keys' = {p \in Page : pending'[p] # 0} /\ Goto("flush")
    /\ IF sync
       THEN fenced' = head + 1 /\ deferred' = FALSE /\ durable' = last'
       ELSE deferred' = TRUE /\ UNCHANGED <<fenced, durable>>
    /\ UNCHANGED <<trunc, epoch, poisoned, file, disk, staged, sync, len, baseline, ret,
                   ckpt, thread, snaps>>

\* commit_tx_inner's WAL section: log the images, the commit record and (when
\* fsync) the fence and the fsync, then publish the images as pending.
AppendCommit ==
    /\ wpc = "append" /\ ~poisoned
    /\ head' = head + 1 /\ appends' = appends + 1
    /\ last' = [p \in Page |-> IF p \in staged THEN head + 1 ELSE last[p]]
    /\ pending' = [p \in Page |-> IF p \in staged THEN head + 1 ELSE pending[p]]
    /\ IF sync
       THEN /\ fenced' = head + 1 /\ deferred' = FALSE /\ durable' = last'
            /\ keys' = {p \in Page : pending'[p] # 0} /\ Goto("flush")
       ELSE /\ deferred' = TRUE /\ Goto("idle")
            /\ UNCHANGED <<fenced, durable, keys>>
    /\ UNCHANGED <<trunc, epoch, poisoned, file, disk, staged, sync, len, baseline, ret,
                   ckpt, thread, snaps>>

\* A poisoned log refuses the append and the commit fails.
AppendRefused ==
    /\ wpc = "append" /\ poisoned
    /\ appends' = appends + 1 /\ Goto("idle")
    /\ UNCHANGED <<wal, data, staged, sync, keys, len, baseline, ret, ckpt, thread, snaps>>

\* sync_wal: fence the outstanding deferred commits, fsync, then flush.
SyncWal ==
    /\ wpc = "idle" /\ (deferred => ~poisoned /\ head < MaxHead)
    /\ started < MaxSyncs
    /\ head' = IF deferred THEN head + 1 ELSE head
    /\ fenced' = head' /\ deferred' = FALSE /\ durable' = last
    /\ keys' = Queued /\ Goto("flush")
    /\ UNCHANGED <<trunc, epoch, poisoned, last, pending, file, disk, staged, sync, len,
                   baseline, ret, ckpt, thread, appends, snaps>>

\* abort_tx of a transaction with staged pages: an ABORT frame, then the
\* log bound is enforced.
AbortTx ==
    /\ wpc = "idle" /\ ~poisoned /\ head < MaxHead
    /\ head' = head + 1 /\ appends' = appends + 1 /\ Goto("maybe")
    /\ UNCHANGED <<trunc, fenced, deferred, epoch, poisoned, data, staged, sync, keys, len,
                   baseline, ret, ckpt, thread, snaps>>

\* flush_pending, one page per step: the image is written and retired, or
\* the write fails and the page stays queued.
FlushPage(p) ==
    /\ wpc = "flush" /\ p \in keys
    /\ keys' = keys \ {p}
    /\ \/ file' = [file EXCEPT ![p] = pending[p]] /\ pending' = [pending EXCEPT ![p] = 0]
       \/ UNCHANGED <<file, pending>>
    /\ UNCHANGED <<wal, last, durable, disk, wpc, staged, sync, len, baseline, ret, ckpt,
                   thread, appends, snaps>>

FlushDone ==
    /\ wpc = "flush" /\ keys = {} /\ Goto("maybe")
    /\ UNCHANGED <<wal, data, staged, sync, keys, len, baseline, ret, ckpt, thread, appends, snaps>>

\* maybe_checkpoint, up to the verdict of free_truncate_if_covered.
MaybeCheckpoint ==
    /\ wpc = "maybe"
    /\ len' = FileLen /\ ret' = "idle"
    /\ Goto(IF Queued # {} \/ FileLen < Soft THEN "idle"
            ELSE IF Covered(FileLen) THEN "truncSoft" ELSE "request")
    /\ UNCHANGED <<wal, data, staged, sync, keys, baseline, ckpt, thread, appends, snaps>>

\* Record a request unless one is queued or in flight; stall at the hard limit.
RequestSync ==
    /\ wpc = "request"
    /\ IF ~requested /\ completed = started
       THEN requested' = TRUE /\ pendingLen' = len
       ELSE UNCHANGED <<requested, pendingLen>>
    /\ Goto(IF len < Hard THEN "idle" ELSE "stall")
    /\ UNCHANGED <<wal, data, staged, sync, keys, len, baseline, ret, started, completed,
                   coveredLen, lastOk, thread, appends, snaps>>

\* Mutant: the writer waits for one sync more than it asked for.
StallDecideOffByOne ==
    /\ wpc = "stall" /\ ~requested /\ completed = started
    /\ IF lastOk /\ coveredLen >= len
       THEN Goto("truncHard") /\ UNCHANGED <<requested, pendingLen, baseline>>
       ELSE /\ requested' = TRUE /\ pendingLen' = len /\ baseline' = started + 1
            /\ Goto("stallSync")
    /\ UNCHANGED <<wal, data, staged, sync, keys, len, ret, started, completed, coveredLen,
                   lastOk, thread, appends, snaps>>

\* The flow-control loop: wait while a sync is queued or in flight, then
\* truncate if the log is covered, else ask for another sync.
StallDecide ==
    /\ wpc = "stall" /\ ~requested /\ completed = started
    /\ IF lastOk /\ coveredLen >= len
       THEN Goto("truncHard") /\ UNCHANGED <<requested, pendingLen, baseline>>
       ELSE /\ requested' = TRUE /\ pendingLen' = len /\ baseline' = started
            /\ Goto("stallSync")
    /\ UNCHANGED <<wal, data, staged, sync, keys, len, ret, started, completed, coveredLen,
                   lastOk, thread, appends, snaps>>

\* The requested sync completed: re-decide, or give up with its error.
StallWake ==
    /\ wpc = "stallSync" /\ completed > baseline
    /\ Goto(IF lastOk THEN "stall" ELSE "idle")
    /\ UNCHANGED <<wal, data, staged, sync, keys, len, baseline, ret, ckpt, thread, appends, snaps>>

-----------------------------------------------------------------------------
(* The background checkpoint thread                                        *)

\* Take the request and sample the length it will vouch for.
PickRequest ==
    /\ bpc = "wait" /\ requested
    /\ requested' = FALSE /\ started' = started + 1
    /\ bcov' = pendingLen /\ blast' = appends /\ bpc' = "gate"
    /\ UNCHANGED <<wal, data, writer, pendingLen, completed, coveredLen, lastOk, bsnap,
                   appends, snaps>>

\* The idle gate polls until no commit landed for one period.
GateBusy ==
    /\ bpc = "gate" /\ appends # blast /\ blast' = appends
    /\ UNCHANGED <<wal, data, writer, ckpt, bpc, bcov, bsnap, appends, snaps>>

\* sync_all starts: it will make durable at least what the file holds now.
SyncStart ==
    /\ bpc = "gate" /\ appends = blast
    /\ bsnap' = file /\ bpc' = "sync"
    /\ UNCHANGED <<wal, data, writer, ckpt, bcov, blast, appends, snaps>>

SyncEnd ==
    /\ bpc = "sync"
    /\ completed' = completed + 1 /\ bpc' = "wait"
    /\ \/ lastOk' = TRUE /\ coveredLen' = bcov /\ disk' = bsnap
       \/ lastOk' = FALSE /\ UNCHANGED <<coveredLen, disk>>
    /\ UNCHANGED <<wal, last, durable, pending, file, writer, requested, pendingLen, started,
                   bcov, blast, bsnap, appends, snaps>>

-----------------------------------------------------------------------------
(* Snapshots and crashes                                                   *)

BeginSnapshot(r) ==
    /\ r \notin snaps /\ snaps' = snaps \cup {r}
    /\ UNCHANGED <<wal, data, writer, ckpt, thread, appends>>

EndSnapshot(r) ==
    /\ r \in snaps /\ snaps' = snaps \ {r}
    /\ UNCHANGED <<wal, data, writer, ckpt, thread, appends>>

\* What replaying the surviving log over page p's durable image yields: the
\* newest fenced image the log still holds, else what the disk has.  A log
\* whose truncation failed half-way is already empty on disk.
Recovered(p) ==
    IF durable[p] > trunc /\ ~poisoned THEN durable[p] ELSE disk[p]

\* Power failure, then Pager::open: replay, fsync, truncate, fresh thread.
CrashRecover ==
    /\ disk' = [p \in Page |-> Recovered(p)]
    /\ file' = disk' /\ last' = disk' /\ durable' = disk'
    /\ pending' = [p \in Page |-> 0]
    /\ trunc' = head /\ fenced' = head /\ deferred' = FALSE /\ epoch' = 0
    /\ poisoned' = FALSE /\ UNCHANGED head
    /\ wpc' = "idle" /\ staged' = {} /\ sync' = FALSE /\ keys' = {}
    /\ len' = 0 /\ baseline' = 0 /\ ret' = "idle"
    /\ requested' = FALSE /\ pendingLen' = 0 /\ started' = 0 /\ completed' = 0
    /\ coveredLen' = 0 /\ lastOk' = FALSE
    /\ bpc' = "wait" /\ bcov' = 0 /\ blast' = 0 /\ bsnap' = disk'
    /\ appends' = 0 /\ snaps' = {}

Writer ==
    \/ \E ps \in SUBSET Page, fsync \in BOOLEAN : StartCommit(ps, fsync)
    \/ TryFreeTruncate \/ TruncateSoft \/ TruncateHard \/ ResetCovered
    \/ AppendCommit \/ AppendRefused \/ SyncWal \/ AbortTx
    \/ \E p \in Page : FlushPage(p)
    \/ FlushDone \/ MaybeCheckpoint \/ RequestSync \/ StallDecide \/ StallWake

Thread == PickRequest \/ GateBusy \/ SyncStart \/ SyncEnd

Next ==
    \/ Writer \/ Thread \/ CrashRecover
    \/ \E r \in Reader : BeginSnapshot(r) \/ EndSnapshot(r)

Spec == Init /\ [][Next]_vars

\* The checkpoint thread is an OS thread that keeps running, and the writer
\* runs on once it is inside a call; nothing obliges a client to call.
FairSpec == Spec /\ WF_vars(Thread) /\ WF_vars(wpc # "idle" /\ Writer)

-----------------------------------------------------------------------------
(* Properties                                                              *)

WriterPc == {"idle", "tryFree", "truncSoft", "truncHard", "reset", "append", "flush",
             "maybe", "request", "stall", "stallSync"}

Flags ==
    /\ deferred \in BOOLEAN /\ poisoned \in BOOLEAN /\ sync \in BOOLEAN
    /\ requested \in BOOLEAN /\ lastOk \in BOOLEAN

\* Types of the pager's and the checkpoint thread's state, and the order of
\* the log positions: truncated <= fenced-or-later <= head.
TypeOK ==
    /\ Flags
    /\ head \in Nat /\ trunc \in 0 .. head /\ fenced \in 0 .. head /\ epoch \in Nat
    /\ last \in [Page -> Nat] /\ durable \in [Page -> Nat] /\ pending \in [Page -> Nat]
    /\ file \in [Page -> Nat] /\ disk \in [Page -> Nat] /\ bsnap \in [Page -> Nat]
    /\ wpc \in WriterPc /\ ret \in {"idle", "append"}
    /\ staged \subseteq Page /\ keys \subseteq Page /\ snaps \subseteq Reader
    /\ len \in Nat /\ baseline \in Nat /\ pendingLen \in Nat /\ started \in Nat
    /\ completed \in Nat /\ coveredLen \in Nat
    /\ bpc \in {"wait", "gate", "sync"}
    /\ bcov \in Nat /\ blast \in Nat /\ appends \in Nat

\* The write-ahead rule: the data file never holds an image whose commit is
\* not fsynced in the WAL, so a crash can never expose a deferred commit
\* (commit_tx_inner, sync_wal, flush_pending).
WriteAhead == \A p \in Page : file[p] <= fenced

\* Whenever power fails, replaying what is left of the log over what is on
\* disk gives back the newest durable image of every page: no interleaving
\* of the writer with the checkpoint thread, and no failed flush, fsync or
\* truncation, drops the last redo of an image (pager.rs, covered_len).
NoLostRedo == \A p \in Page : Recovered(p) = durable[p]

\* A truncation below the hard limit never takes the page history away from
\* a registered snapshot; only flow control may (truncate_wal_locked).
SnapshotHistoryKept == [][epoch' > epoch /\ snaps # {} => FileLen >= Hard]_vars

\* A writer stalled at the hard limit gets going again, whatever the
\* data-file fsyncs return (maybe_checkpoint's wait loop).
StallEnds == wpc \in {"stall", "stallSync"} ~> wpc = "idle"
=============================================================================
