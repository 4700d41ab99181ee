-------------------------- MODULE CheckpointProofs --------------------------
(***************************************************************************)
(* Safety of the checkpoint protocol for every set of pages and readers    *)
(* and every setting of the two thresholds.                                *)
(***************************************************************************)
EXTENDS Checkpoint, TLAPS

-----------------------------------------------------------------------------
(* The inductive invariant                                                 *)

\* What the disk, the file and the read surfaces hold are ever newer
\* versions of a page; a page with nothing queued is the same everywhere but
\* on disk.
Versions == \A p \in Page :
    /\ disk[p] <= file[p] /\ file[p] <= durable[p] /\ durable[p] <= last[p]
    /\ last[p] <= head /\ durable[p] <= fenced
    /\ bpc = "sync" => disk[p] <= bsnap[p] /\ bsnap[p] <= file[p]
    /\ IF pending[p] = 0 THEN file[p] = last[p] ELSE pending[p] = last[p]

\* The writer flushes only what is queued and fenced.
Flushing == wpc = "flush" => keys \subseteq Queued /\ durable = last

\* The redo of a page whose log is gone is on disk.
Redo == \A p \in Page :
    /\ durable[p] <= trunc => disk[p] = durable[p]
    /\ poisoned => disk[p] = last[p] /\ pending[p] = 0

\* One sync at a time, and a request is taken only between two syncs.
Handshake ==
    /\ started = IF bpc = "wait" THEN completed ELSE completed + 1
    /\ requested => bpc = "wait"

\* A length the protocol passes around vouches for every page the log held
\* up to that length: it is in the file when the sync is asked for, in the
\* image the sync makes durable, and on disk once the sync is done.
Vouching ==
    /\ requested => /\ pendingLen <= FileLen
                    /\ \A p \in Page : last[p] <= trunc + pendingLen => file[p] = last[p]
    /\ bpc # "wait" => bcov <= FileLen
    /\ bpc = "gate" =>
            \A p \in Page : last[p] <= trunc + bcov => file[p] = last[p]
    /\ bpc = "sync" =>
            \A p \in Page : last[p] <= trunc + bcov => bsnap[p] = last[p]
    /\ wpc # "reset" => coveredLen <= FileLen
    /\ \A p \in Page : last[p] <= trunc + coveredLen => disk[p] = last[p]

Truncating == wpc \in {"truncSoft", "truncHard", "reset"}

\* The writer decides about the log only with nothing queued, on a length
\* that is still the log's, and truncates only between two syncs.
Deciding ==
    /\ Truncating \/ wpc \in {"request", "stall", "stallSync"} => Queued = {}
    /\ \/ wpc \in {"request", "stall", "stallSync", "truncHard"}
       \/ wpc = "truncSoft" /\ ret = "idle"
       => len = FileLen
    /\ Truncating => bpc = "wait" /\ ~requested /\ coveredLen >= FileLen
    /\ wpc = "reset" => trunc = head
    /\ wpc \in {"stall", "stallSync", "truncHard"} => len >= Hard

\* The inductive invariant: NoLostRedo and WriteAhead say nothing about a
\* sync in flight, and it is what a sync in flight promises that makes the
\* next truncation safe.
IInv == TypeOK /\ Versions /\ Flushing /\ Redo /\ Handshake /\ Vouching /\ Deciding

-----------------------------------------------------------------------------
\* A freshly opened pager (Pager::open on an empty log) satisfies the
\* inductive invariant.
LEMMA InitIInv == Init => IInv
<1> SUFFICES ASSUME Init PROVE IInv
    OBVIOUS
<1> USE CkptAssumption DEF Init, Queued, FileLen
<1>1. TypeOK
    <2>1. Flags
        BY DEF Flags
    <2> QED
        BY <2>1 DEF TypeOK, WriterPc
<1>2. Versions
    <2> SUFFICES ASSUME NEW p \in Page PROVE Versions!(p)
        BY DEF Versions
    <2>1. last[p] = 0 /\ durable[p] = 0 /\ pending[p] = 0 /\ file[p] = 0 /\ disk[p] = 0
        OBVIOUS
    <2> QED
        BY <2>1
<1>3. Flushing
    BY DEF Flushing
<1>4. Redo
    BY DEF Redo
<1>5. Handshake
    BY DEF Handshake
<1>6. Vouching
    BY DEF Vouching
<1>7. Deciding
    BY DEF Deciding, Truncating
<1> QED
    BY <1>1, <1>2, <1>3, <1>4, <1>5, <1>6, <1>7 DEF IInv

\* Every step of the writer, of the checkpoint thread, of a snapshot and of a
\* crash preserves the inductive invariant (pager.rs, wal.rs).
LEMMA NextIInv == IInv /\ [Next]_vars => IInv'
<1> SUFFICES ASSUME IInv, [Next]_vars PROVE IInv'
    OBVIOUS
<1> USE CkptAssumption
    DEF IInv, TypeOK, WriterPc, Versions, Flushing, Redo, Handshake, Vouching, Deciding,
        Truncating, Queued, FileLen, Goto, wal, data, writer, ckpt, thread
<1>1. ASSUME NEW ps \in SUBSET Page, NEW fsync \in BOOLEAN, StartCommit(ps, fsync) PROVE IInv'
    BY <1>1 DEF Flags, StartCommit
<1>2. CASE TryFreeTruncate
    BY <1>2 DEF Flags, TryFreeTruncate, Covered
<1>3. CASE TruncateSoft
    <2>1. TypeOK'
        <3>1. Flags'
            BY <1>3 DEF Flags, TruncateSoft, DropLog, DropLogFails, NotTruncated
        <3> QED
            BY <3>1, <1>3 DEF TruncateSoft, DropLog, DropLogFails, NotTruncated
    <2>2. Versions'
        BY <1>3 DEF TruncateSoft, DropLog, DropLogFails, NotTruncated
    <2>3. Flushing'
        BY <1>3 DEF TruncateSoft, DropLog, DropLogFails, NotTruncated
    <2>4. Redo'
        BY <1>3 DEF TruncateSoft, DropLog, DropLogFails, NotTruncated
    <2>5. Handshake'
        BY <1>3 DEF TruncateSoft, DropLog, DropLogFails, NotTruncated
    <2>6. Vouching'
        BY <1>3 DEF TruncateSoft, DropLog, DropLogFails, NotTruncated
    <2>7. Deciding'
        BY <1>3 DEF TruncateSoft, DropLog, DropLogFails, NotTruncated
    <2> QED
        BY <2>1, <2>2, <2>3, <2>4, <2>5, <2>6, <2>7
<1>4. CASE TruncateHard
    <2>1. TypeOK'
        <3>1. Flags'
            BY <1>4 DEF Flags, TruncateHard, DropLog, DropLogFails
        <3> QED
            BY <3>1, <1>4 DEF TruncateHard, DropLog, DropLogFails
    <2>2. Versions'
        BY <1>4 DEF TruncateHard, DropLog, DropLogFails
    <2>3. Flushing'
        BY <1>4 DEF TruncateHard, DropLog, DropLogFails
    <2>4. Redo'
        BY <1>4 DEF TruncateHard, DropLog, DropLogFails
    <2>5. Handshake'
        BY <1>4 DEF TruncateHard, DropLog, DropLogFails
    <2>6. Vouching'
        BY <1>4 DEF TruncateHard, DropLog, DropLogFails
    <2>7. Deciding'
        BY <1>4 DEF TruncateHard, DropLog, DropLogFails
    <2> QED
        BY <2>1, <2>2, <2>3, <2>4, <2>5, <2>6, <2>7
<1>5. CASE ResetCovered
    BY <1>5 DEF Flags, ResetCovered
<1>6. CASE AppendCommit
    <2>1. TypeOK'
        <3>1. Flags'
            BY <1>6 DEF Flags, AppendCommit
        <3>2. head' = head + 1 /\ trunc' = trunc /\ fenced' \in {fenced, head + 1}
            BY <1>6 DEF AppendCommit
        <3>3. last' \in [Page -> Nat] /\ pending' \in [Page -> Nat]
            BY <1>6 DEF AppendCommit
        <3>4. durable' \in [Page -> Nat]
            BY <3>3, <1>6 DEF AppendCommit
        <3>5. keys' \subseteq Page
            <4>1. CASE sync
                BY <4>1, <1>6 DEF AppendCommit
            <4>2. CASE ~sync
                BY <4>2, <1>6 DEF AppendCommit
            <4> QED
                BY <4>1, <4>2
        <3>7. wpc' \in {"flush", "idle"} /\ appends' \in Nat
            BY <1>6 DEF AppendCommit
        <3>6. /\ file' = file /\ disk' = disk /\ bsnap' = bsnap /\ staged' = staged
              /\ snaps' = snaps /\ epoch' = epoch /\ ret' = ret /\ bpc' = bpc
              /\ <<len, baseline, bcov, blast>>' = <<len, baseline, bcov, blast>>
              /\ UNCHANGED <<pendingLen, started, completed, coveredLen>>
            BY <1>6 DEF AppendCommit
        <3> QED
            BY <3>1, <3>2, <3>3, <3>4, <3>5, <3>6, <3>7
    <2>2. Versions'
        BY <1>6 DEF AppendCommit
    <2>3. Flushing'
        BY <1>6 DEF AppendCommit
    <2>4. Redo'
        BY <1>6 DEF AppendCommit
    <2>5. Handshake'
        BY <1>6 DEF AppendCommit
    <2>6. Vouching'
        BY <1>6 DEF AppendCommit
    <2>7. Deciding'
        BY <1>6 DEF AppendCommit
    <2> QED
        BY <2>1, <2>2, <2>3, <2>4, <2>5, <2>6, <2>7
<1>7. CASE AppendRefused
    BY <1>7 DEF Flags, AppendRefused
<1>8. CASE SyncWal
    <2>1. TypeOK'
        <3>1. Flags'
            BY <1>8 DEF Flags, SyncWal
        <3> QED
            BY <3>1, <1>8 DEF SyncWal
    <2>2. Versions'
        BY <1>8 DEF SyncWal
    <2>3. Flushing'
        BY <1>8 DEF SyncWal
    <2>4. Redo'
        BY <1>8 DEF SyncWal
    <2>5. Handshake'
        BY <1>8 DEF SyncWal
    <2>6. Vouching'
        BY <1>8 DEF SyncWal
    <2>7. Deciding'
        BY <1>8 DEF SyncWal
    <2> QED
        BY <2>1, <2>2, <2>3, <2>4, <2>5, <2>6, <2>7
<1>9. CASE AbortTx
    BY <1>9 DEF Flags, AbortTx
<1>10. ASSUME NEW q \in Page, FlushPage(q) PROVE IInv'
    BY <1>10 DEF Flags, FlushPage
<1>11. CASE FlushDone
    BY <1>11 DEF Flags, FlushDone
<1>12. CASE MaybeCheckpoint
    BY <1>12 DEF Flags, MaybeCheckpoint, Covered
<1>13. CASE RequestSync
    <2>1. TypeOK'
        <3>1. Flags'
            BY <1>13 DEF Flags, RequestSync
        <3> QED
            BY <3>1, <1>13 DEF RequestSync
    <2>2. Versions'
        BY <1>13 DEF RequestSync
    <2>3. Flushing'
        BY <1>13 DEF RequestSync
    <2>4. Redo'
        BY <1>13 DEF RequestSync
    <2>5. Handshake'
        BY <1>13 DEF RequestSync
    <2>6. Vouching'
        BY <1>13 DEF RequestSync
    <2>7. Deciding'
        BY <1>13 DEF RequestSync
    <2> QED
        BY <2>1, <2>2, <2>3, <2>4, <2>5, <2>6, <2>7
<1>14. CASE StallDecide
    <2>1. TypeOK'
        <3>1. Flags'
            BY <1>14 DEF Flags, StallDecide
        <3> QED
            BY <3>1, <1>14 DEF StallDecide
    <2>2. Versions'
        BY <1>14 DEF StallDecide
    <2>3. Flushing'
        BY <1>14 DEF StallDecide
    <2>4. Redo'
        BY <1>14 DEF StallDecide
    <2>5. Handshake'
        BY <1>14 DEF StallDecide
    <2>6. Vouching'
        BY <1>14 DEF StallDecide
    <2>7. Deciding'
        BY <1>14 DEF StallDecide
    <2> QED
        BY <2>1, <2>2, <2>3, <2>4, <2>5, <2>6, <2>7
<1>15. CASE StallWake
    BY <1>15 DEF Flags, StallWake
<1>16. CASE PickRequest
    <2>1. TypeOK'
        <3>1. Flags'
            BY <1>16 DEF Flags, PickRequest
        <3> QED
            BY <3>1, <1>16 DEF PickRequest
    <2>2. Versions'
        BY <1>16 DEF PickRequest
    <2>3. Flushing'
        BY <1>16 DEF PickRequest
    <2>4. Redo'
        BY <1>16 DEF PickRequest
    <2>5. Handshake'
        BY <1>16 DEF PickRequest
    <2>6. Vouching'
        BY <1>16 DEF PickRequest
    <2>7. Deciding'
        BY <1>16 DEF PickRequest
    <2> QED
        BY <2>1, <2>2, <2>3, <2>4, <2>5, <2>6, <2>7
<1>17. CASE GateBusy
    BY <1>17 DEF Flags, GateBusy
<1>18. CASE SyncStart
    BY <1>18 DEF Flags, SyncStart
<1>19. CASE SyncEnd
    <2>1. TypeOK'
        <3>1. Flags'
            BY <1>19 DEF Flags, SyncEnd
        <3> QED
            BY <3>1, <1>19 DEF SyncEnd
    <2>2. Versions'
        BY <1>19 DEF SyncEnd
    <2>3. Flushing'
        BY <1>19 DEF SyncEnd
    <2>4. Redo'
        BY <1>19 DEF SyncEnd
    <2>5. Handshake'
        BY <1>19 DEF SyncEnd
    <2>6. Vouching'
        BY <1>19 DEF SyncEnd
    <2>7. Deciding'
        BY <1>19 DEF SyncEnd
    <2> QED
        BY <2>1, <2>2, <2>3, <2>4, <2>5, <2>6, <2>7
<1>20. CASE CrashRecover
    <2>1. TypeOK'
        <3>1. Flags'
            BY <1>20 DEF Flags, CrashRecover, Recovered
        <3> QED
            BY <3>1, <1>20 DEF CrashRecover, Recovered
    <2>2. Versions'
        BY <1>20 DEF CrashRecover, Recovered
    <2>3. Flushing'
        BY <1>20 DEF CrashRecover, Recovered
    <2>4. Redo'
        BY <1>20 DEF CrashRecover, Recovered
    <2>5. Handshake'
        BY <1>20 DEF CrashRecover, Recovered
    <2>6. Vouching'
        BY <1>20 DEF CrashRecover, Recovered
    <2>7. Deciding'
        BY <1>20 DEF CrashRecover, Recovered
    <2> QED
        BY <2>1, <2>2, <2>3, <2>4, <2>5, <2>6, <2>7
<1>21. ASSUME NEW r \in Reader, BeginSnapshot(r) \/ EndSnapshot(r) PROVE IInv'
    BY <1>21 DEF Flags, BeginSnapshot, EndSnapshot
<1>22. CASE UNCHANGED vars
    BY <1>22 DEF Flags, vars
<1>23. CASE Writer
    <2>1. CASE \E ps \in SUBSET Page, fsync \in BOOLEAN : StartCommit(ps, fsync)
        <3>1. PICK ps \in SUBSET Page, fsync \in BOOLEAN : StartCommit(ps, fsync)
            BY <2>1, Zenon
        <3> QED
            BY <1>1, <3>1, Zenon
    <2>2. CASE \E q \in Page : FlushPage(q)
        BY <1>10, <2>2
    <2>3. CASE TryFreeTruncate \/ TruncateSoft \/ TruncateHard \/ ResetCovered
        BY <1>2, <1>3, <1>4, <1>5, <2>3
    <2>4. CASE AppendCommit \/ AppendRefused \/ SyncWal \/ AbortTx
        BY <1>6, <1>7, <1>8, <1>9, <2>4
    <2>5. CASE FlushDone \/ MaybeCheckpoint \/ RequestSync \/ StallDecide \/ StallWake
        BY <1>11, <1>12, <1>13, <1>14, <1>15, <2>5
    <2> QED
        BY <1>23, <2>1, <2>2, <2>3, <2>4, <2>5 DEF Writer
<1>24. CASE Thread
    BY <1>16, <1>17, <1>18, <1>19, <1>24 DEF Thread
<1> QED
    BY <1>20, <1>21, <1>22, <1>23, <1>24 DEF Next

\* The inductive invariant holds throughout every run of the pager and its
\* checkpoint thread.
THEOREM Invariance == Spec => []IInv
<1>1. Init => IInv
    BY InitIInv
<1>2. IInv /\ [Next]_vars => IInv'
    BY NextIInv
<1> QED
    BY <1>1, <1>2, PTL DEF Spec

-----------------------------------------------------------------------------
\* The state of the pager and of its checkpoint thread keeps its types, and
\* the log positions their order.
THEOREM TypeCorrect == Spec => []TypeOK
<1>1. IInv => TypeOK
    BY DEF IInv
<1> QED
    BY <1>1, Invariance, PTL

\* The data file never runs ahead of the fsynced part of the log
\* (commit_tx_inner, sync_wal, flush_pending).
THEOREM WriteAheadHolds == Spec => []WriteAhead
<1>1. IInv => WriteAhead
    <2> SUFFICES ASSUME IInv, NEW p \in Page PROVE file[p] <= fenced
        BY DEF WriteAhead
    <2>1. file[p] <= durable[p] /\ durable[p] <= fenced
        BY DEF IInv, Versions
    <2>2. file[p] \in Nat /\ durable[p] \in Nat /\ fenced \in Nat
        BY DEF IInv, TypeOK
    <2> QED
        BY <2>1, <2>2
<1> QED
    BY <1>1, Invariance, PTL

\* No truncation of the log ever drops the last redo of a durable image: in
\* every reachable state a power failure is recovered from completely
\* (Pager::open, truncate_wal_locked, covered_len).
THEOREM RedoNeverLost == Spec => []NoLostRedo
<1>1. IInv => NoLostRedo
    <2> SUFFICES ASSUME IInv, NEW p \in Page PROVE Recovered(p) = durable[p]
        BY DEF NoLostRedo
    <2>1. ~(durable[p] > trunc) => disk[p] = durable[p]
        BY DEF IInv, TypeOK, Redo
    <2>2. poisoned => disk[p] = durable[p]
        BY DEF IInv, TypeOK, Redo, Versions
    <2> QED
        BY <2>1, <2>2 DEF Recovered
<1> QED
    BY <1>1, Invariance, PTL

\* Only flow control at the hard limit takes the page history away from a
\* registered snapshot (truncate_wal_locked).
THEOREM SnapshotsSurviveSoft == Spec => SnapshotHistoryKept
<1>1. IInv /\ [Next]_vars => [epoch' > epoch /\ snaps # {} => FileLen >= Hard]_vars
    <2> SUFFICES ASSUME IInv, Next, epoch' > epoch, snaps # {} PROVE FileLen >= Hard
        OBVIOUS
    <2>1. epoch \in Nat /\ Hard \in Nat /\ len \in Nat /\ FileLen \in Nat
        BY CkptAssumption DEF IInv, TypeOK, FileLen
    <2>2. TruncateHard
        <3>1. CASE CrashRecover
            BY <2>1, <3>1 DEF CrashRecover
        <3>2. CASE \E r \in Reader : BeginSnapshot(r) \/ EndSnapshot(r)
            BY <2>1, <3>2 DEF BeginSnapshot, EndSnapshot, wal
        <3>3. CASE Thread
            BY <2>1, <3>3 DEF Thread, PickRequest, GateBusy, SyncStart, SyncEnd, wal
        <3>4. CASE Writer
            BY <2>1, <3>4 DEF Writer, StartCommit, TryFreeTruncate, TruncateSoft, ResetCovered,
               AppendCommit, AppendRefused, SyncWal, AbortTx, FlushPage, FlushDone,
               MaybeCheckpoint, RequestSync, StallDecide, StallWake, wal
        <3> QED
            BY <3>1, <3>2, <3>3, <3>4 DEF Next
    <2> QED
        BY <2>1, <2>2 DEF IInv, Deciding, TruncateHard
<1> QED
    BY <1>1, Invariance, PTL DEF Spec, SnapshotHistoryKept
=============================================================================
