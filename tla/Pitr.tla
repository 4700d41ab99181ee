-------------------------------- MODULE Pitr --------------------------------
(* Full backups, incremental journal exports, their S3 copies and restore    *)
(* (docsql-server backup.rs), on one node that also may adopt a peer's       *)
(* snapshot (catchup.rs, apply_repair_sync).                                 *)
(*                                                                           *)
(* The database is the set of writes it holds. A journal entry is a write    *)
(* ("add"), a replayed dump ("load") or the sentinel an adoption leaves      *)
(* ("void"). A file is its contents; "sql" and "side" are a file's body and  *)
(* its .sha256. Time is the wall clock in milliseconds.                      *)
EXTENDS Naturals, Sequences, SequencesExt, FiniteSets, FiniteSetsExt

CONSTANTS Keep,       \* DOCSQL_BACKUP_KEEP
          KeepIncr,   \* the larger of Keep and 4 in the code
          HasRemote,  \* whether a remote copy target is configured
          MaxExport,  \* entries one export reads, 200_000 in the code
          MaxClock, MaxWrites, MaxJobs, MaxAdopts, MaxFaults, MaxFences,
          MaxTrims, MaxRestores,   \* bounds of the environment
          MaxRare                  \* ... and of adopts, faults, fences, trims and restores together

ASSUME PitrAssumption ==
    /\ {Keep, KeepIncr, MaxExport} \subseteq Nat \ {0} /\ HasRemote \in BOOLEAN
    /\ {MaxClock, MaxWrites, MaxJobs, MaxAdopts, MaxFaults, MaxFences,
        MaxTrims, MaxRestores, MaxRare} \subseteq Nat

VARIABLES
    clock, db,
    asof,      \* contents at the end of each past millisecond
    journal,   \* entry i is journal seq i, trimmed ones included
    first,     \* oldest live seq
    dir,       \* <<file, part>> pairs in the backup directory
    remote,    \* <<file, part>> objects under this node's prefix
    marker,    \* REMOTE_INVAL_MARKER exists
    retry,     \* the tick's sweep found the remote clean, the marker still to go
    bared,     \* segments whose sidecar a sweep deleted while the body was on its way (history)
    epoch,     \* pitr_epoch
    gen,       \* snapshot adoptions so far
    running,   \* BackupShared.running
    job,       \* the backup or export under way
    adopt,     \* step of the adoption under way, and the files its sweep listed
    restore,   \* step and remaining statements of the restore under way
    fenced,
    used       \* what the environment has spent of each bound

vars == <<clock, db, asof, journal, first, dir, remote, marker, retry, bared, epoch, gen,
          running, job, adopt, restore, fenced, used>>
sweeps == <<marker, retry, bared>>
files == <<dir, remote, sweeps>>
store == <<clock, db, asof, journal, first, gen>>
tasks == <<running, job, adopt, restore>>

NoFile == [kind |-> "none", n |-> 0, from |-> 0, to |-> 0, ts |-> 0, gen |-> 0,
           db |-> {}, ents |-> {}]
NoJob == [pc |-> "idle", f |-> NoFile, epoch |-> 0]
NoAdopt == [pc |-> "idle", listed |-> {}]
NoRestore == [pc |-> "idle", base |-> NoFile, todo |-> <<>>]

Init ==
    /\ clock = 1 /\ db = {} /\ asof = <<>> /\ journal = <<>> /\ first = 1
    /\ dir = {} /\ remote = {} /\ epoch = 0 /\ gen = 0
    /\ marker = FALSE /\ retry = FALSE /\ bared = {}
    /\ running = FALSE /\ job = NoJob /\ adopt = NoAdopt /\ restore = NoRestore
    /\ fenced = FALSE
    /\ used = [clock |-> 0, writes |-> 0, jobs |-> 0, adopts |-> 0, faults |-> 0,
               fences |-> 0, trims |-> 0, restores |-> 0]

Spend(what, max) == used[what] < max /\ used' = [used EXCEPT ![what] = @ + 1]
Rarely(what, max) ==
    /\ used.adopts + used.faults + used.fences + used.trims + used.restores < MaxRare
    /\ Spend(what, max)
Fails == Rarely("faults", MaxFaults)

\* write_order is held by a restore's replay and by an adoption.
OrderFree == restore.pc # "replay" /\ adopt = NoAdopt

Bodies(where, kind) == {o[1] : o \in {x \in where : x[2] = "sql" /\ x[1].kind = kind}}
Bases == Bodies(dir, "base")
Incrs == Bodies(dir, "incr")
Newest(S) == CHOOSE f \in S : \A g \in S : g.n <= f.n
Oldest(S) == CHOOSE f \in S : \A g \in S : f.n <= g.n

\* A name is class, stamp and part; a PUT replaces the object of its name.
SameName(o, p) == o[1].kind = p[1].kind /\ o[1].n = p[1].n /\ o[2] = p[2]
Lacking(where, S) == {o \in S : \A p \in where : ~SameName(o, p)}
Put(where, S) == Lacking(S, where) \cup S

\* What replaying one journal entry makes of the database.
Replay(d, op) == CASE op.kind = "add" -> d \cup op.s
                   [] op.kind = "load" -> op.s
                   [] op.kind = "void" -> d
Entry(op) == [ts |-> clock, op |-> op]

-----------------------------------------------------------------------------
(* The node around the backups.                                              *)

Tick ==
    /\ Spend("clock", MaxClock)
    /\ clock' = clock + 1 /\ asof' = Append(asof, db)
    /\ UNCHANGED <<db, journal, first, gen, files, epoch, tasks, fenced>>

Write ==
    /\ OrderFree /\ ~fenced /\ Spend("writes", MaxWrites)
    /\ LET op == [kind |-> "add", s |-> {used.writes + 1}]
       IN db' = Replay(db, op) /\ journal' = Append(journal, Entry(op))
    /\ UNCHANGED <<clock, asof, first, gen, files, epoch, tasks, fenced>>

\* journal_trim: the oldest entries go once the window is full.
TrimJournal ==
    /\ Rarely("trims", MaxTrims) /\ first < Len(journal)
    /\ first' = first + 1
    /\ UNCHANGED <<clock, db, asof, journal, gen, files, epoch, tasks, fenced>>

FenceFlips ==
    /\ Rarely("fences", MaxFences) /\ fenced' = ~fenced
    /\ UNCHANGED <<store, files, epoch, tasks>>

\* apply_repair_sync commits a peer's contents and voids the own journal ...
AdoptCommit ==
    /\ OrderFree /\ Rarely("adopts", MaxAdopts)
    /\ db' = {} /\ gen' = gen + 1 /\ adopt' = [pc |-> "list", listed |-> {}]
    /\ journal' = [i \in DOMAIN journal |-> [journal[i] EXCEPT !.op = [kind |-> "void", s |-> {}]]]
    /\ UNCHANGED <<clock, asof, first, files, epoch, running, job, restore, fenced>>

\* ... moves the epoch and lists the exported chain ...
AdoptList ==
    /\ adopt.pc = "list" /\ epoch' = epoch + 1
    /\ adopt' = [pc |-> "sweep", listed |-> {o \in dir : o[1].kind = "incr"}]
    /\ UNCHANGED <<store, files, running, job, restore, fenced, used>>

\* ... removes what it listed, temporary names too (a file renamed since keeps
\* its new name), and records that the remote copy is to be swept ...
AdoptSweep ==
    /\ adopt.pc = "sweep"
    /\ dir' = dir \ adopt.listed
    /\ job' = IF job.pc \in {"tmp", "rename"} /\ job.f.kind = "incr" THEN [job EXCEPT !.pc = "swept"] ELSE job
    /\ marker' = HasRemote
    /\ adopt' = IF HasRemote THEN [pc |-> "delete", listed |-> {}] ELSE NoAdopt
    /\ UNCHANGED <<store, remote, retry, bared, epoch, running, restore, fenced, used>>

\* invalidate_incremental_exports_remote, from the listing on. A failing delete
\* or listing leaves some objects, and the marker for the next tick.
DeleteRemote ==
    /\ \/ remote' = {o \in remote : o[1].kind # "incr"} /\ UNCHANGED used
       \/ Fails /\ \E left \in SUBSET {o \in remote : o[1].kind = "incr"} :
                left # {} /\ remote' = {o \in remote : o[1].kind # "incr"} \cup left
    /\ bared' = IF job.pc \in {"body", "flight"} /\ job.f.kind = "incr" THEN bared \cup {job.f} ELSE bared
RemoteClean == \A o \in remote : o[1].kind # "incr"

AdoptDelete ==
    /\ adopt.pc = "delete" /\ adopt' = NoAdopt
    /\ DeleteRemote
    /\ marker' = (marker /\ ~RemoteClean')
    /\ UNCHANGED <<store, dir, retry, epoch, running, job, restore, fenced>>

\* The backup tick retries while the marker exists, without the running flag
\* and beside whatever job, adoption or restore is under way ...
RetryDelete ==
    /\ marker /\ ~retry
    /\ DeleteRemote
    /\ retry' = RemoteClean'
    /\ UNCHANGED <<store, dir, marker, epoch, tasks, fenced>>

\* ... and removes the marker after a clean second listing.
RetryClear ==
    /\ retry /\ retry' = FALSE /\ marker' = FALSE
    /\ UNCHANGED <<store, dir, remote, bared, epoch, tasks, fenced, used>>

-----------------------------------------------------------------------------
(* Jobs: a tick or a request claims the running flag, then dumps or exports. *)

Free == ~running /\ restore.pc = "idle"

\* As NextStamp, trusting the clock.
NextStampOfClock(S) == clock

\* A stamp later than every file of its class, whatever the clock says.
NextStamp(S) == IF S = {} THEN clock ELSE Max({clock, Newest(S).n + 1})

\* backup_inner: head, dump and header under one write lock.
BackupDump ==
    /\ Free /\ ~fenced /\ OrderFree /\ Spend("jobs", MaxJobs)
    /\ running' = TRUE
    /\ job' = [pc |-> "tmp", epoch |-> epoch,
               f |-> [NoFile EXCEPT !.kind = "base", !.n = NextStamp(Bases),
                        !.to = Len(journal), !.ts = clock, !.gen = gen, !.db = db]]
    /\ UNCHANGED <<store, files, epoch, adopt, restore, fenced>>

\* pitr_cursor: what the newest segment and the newest base already cover.
Cursor == Max({0} \cup {Newest(S).to : S \in {Incrs, Bases} \ {{}}})

\* export_incremental: the cursor is read first, the journal once write_order
\* is had (or the wait for an open transaction times out).
ExportCursor ==
    /\ Free /\ ~fenced /\ Spend("jobs", MaxJobs)
    /\ running' = TRUE
    /\ job' = [NoJob EXCEPT !.pc = "cursor", !.f = [NoFile EXCEPT !.to = Cursor]]
    /\ UNCHANGED <<store, files, epoch, adopt, restore, fenced>>

\* The oldest live entries after the cursor, as many as one export reads.
Exported(cursor) ==
    LET after == {i \in cursor + 1 .. Len(journal) : i >= first}
    IN {i \in after : Cardinality({j \in after : j < i}) < MaxExport}

\* The temporary file is written. An empty window ends the job, a window that
\* was trimmed below the cursor is refused.
ExportRead ==
    LET seqs == Exported(job.f.to)
    IN /\ job.pc = "cursor"
       /\ \/ /\ OrderFree /\ seqs # {} /\ Min(seqs) = job.f.to + 1
             /\ job' = [pc |-> "tmp", epoch |-> epoch,
                        f |-> [NoFile EXCEPT !.kind = "incr", !.n = NextStamp(Incrs),
                                 !.from = Min(seqs), !.to = Max(seqs),
                                 !.ents = {<<i, journal[i]>> : i \in seqs}]]
             /\ UNCHANGED running
          \/ job' = NoJob /\ running' = FALSE
       /\ UNCHANGED <<store, files, epoch, adopt, restore, fenced, used>>

\* backup_task's export on a fenced node: the flag is claimed, then the tick
\* is skipped, and no guard gives the flag back.
TickFenced ==
    /\ Free /\ fenced
    /\ running' = TRUE
    /\ UNCHANGED <<store, files, epoch, job, adopt, restore, fenced, used>>

EndJob == job' = NoJob /\ running' = FALSE

\* A failing write or rename, an epoch that moved before the rename, a temporary
\* file swept away under it: nothing of the file stays.
JobFails ==
    /\ job.pc \in {"tmp", "swept"}
    /\ \/ Fails
       \/ (job.pc = "swept" \/ (job.f.kind = "incr" /\ job.epoch # epoch)) /\ UNCHANGED used
    /\ EndJob
    /\ UNCHANGED <<store, files, epoch, adopt, restore, fenced>>

\* The epoch is compared, then the body gets its name.
EpochSame ==
    /\ job.pc = "tmp"
    /\ job.f.kind = "incr" => job.epoch = epoch
    /\ job' = [job EXCEPT !.pc = "rename"]
    /\ UNCHANGED <<store, files, epoch, running, adopt, restore, fenced, used>>

Rename ==
    /\ job.pc = "rename"
    /\ dir' = Put(dir, {<<job.f, "sql">>})
    /\ job' = [job EXCEPT !.pc = "sidecar"]
    /\ UNCHANGED <<store, remote, sweeps, epoch, running, adopt, restore, fenced, used>>

\* The newest files of a class, as many as are kept.
Pruned(S, keep) == {f \in S : Cardinality({g \in S : g.n > f.n}) < keep}

\* As Sidecar, without the second look at the epoch.
SidecarUnchecked ==
    /\ job.pc = "sidecar" /\ job' = [job EXCEPT !.pc = "seal"]
    /\ UNCHANGED <<store, files, epoch, running, adopt, restore, fenced, used>>

\* A second look at the epoch: a body that an adoption overtook is removed.
Sidecar ==
    /\ job.pc = "sidecar"
    /\ IF job.f.kind = "incr" /\ job.epoch # epoch
       THEN dir' = dir \ {<<job.f, "sql">>, <<job.f, "side">>} /\ EndJob
       ELSE job' = [job EXCEPT !.pc = "seal"] /\ UNCHANGED <<dir, running>>
    /\ UNCHANGED <<store, remote, sweeps, epoch, adopt, restore, fenced, used>>

\* The sidecar is written; a body whose sidecar cannot be is removed.
Seal ==
    /\ job.pc = "seal"
    /\ \/ /\ dir' = Put(dir, {<<job.f, "side">>})
          /\ job' = [job EXCEPT !.pc = "tidy"] /\ UNCHANGED <<running, used>>
       \/ Fails /\ dir' = dir \ {<<job.f, "sql">>, <<job.f, "side">>} /\ EndJob
    /\ UNCHANGED <<store, remote, sweeps, epoch, adopt, restore, fenced>>

\* prune_backups or prune_incr: the oldest of its class, each with its sidecar.
Tidy ==
    /\ job.pc = "tidy"
    /\ LET mine == Bodies(dir, job.f.kind)
           victims == mine \ Pruned(mine, IF job.f.kind = "base" THEN Keep ELSE KeepIncr)
       IN dir' = {o \in dir : o[1] \notin victims}
    /\ job' = IF HasRemote THEN [job EXCEPT !.pc = "upload"] ELSE NoJob
    /\ running' = HasRemote
    /\ UNCHANGED <<store, remote, sweeps, epoch, adopt, restore, fenced, used>>

\* Checksum first: the body follows a sidecar that landed.
UploadSide ==
    /\ job.pc = "upload"
    /\ \/ /\ <<job.f, "side">> \in dir
          /\ remote' = Put(remote, {<<job.f, "side">>}) /\ bared' = bared \ {job.f}
          /\ job' = [job EXCEPT !.pc = "body"] /\ UNCHANGED used
       \/ /\ IF <<job.f, "side">> \in dir THEN Fails ELSE UNCHANGED used
          /\ job' = [job EXCEPT !.pc = "reconcile"] /\ UNCHANGED <<remote, bared>>
    /\ UNCHANGED <<store, dir, marker, retry, epoch, running, adopt, restore, fenced>>

\* put_file opens the body and streams it; the object appears when it is done.
UploadBody ==
    /\ job.pc = "body"
    /\ job' = [job EXCEPT !.pc = IF <<job.f, "sql">> \in dir THEN "flight" ELSE "reconcile"]
    /\ UNCHANGED <<store, files, epoch, running, adopt, restore, fenced, used>>

UploadLands ==
    /\ job.pc = "flight" /\ job' = [job EXCEPT !.pc = "reconcile"]
    /\ \/ remote' = Put(remote, {<<job.f, "sql">>}) /\ UNCHANGED used
       \/ Fails /\ UNCHANGED remote
    /\ UNCHANGED <<store, dir, sweeps, epoch, running, adopt, restore, fenced>>

\* As ReconcileTo, in one pass that does not wait for the sidecar.
ReconcileInOnePass(lost) == remote \cup (Lacking(remote, dir) \ lost)

\* reconcile_remote: sidecars the listing lacks, then the bodies whose sidecar
\* is there; each upload may fail.
ReconcileTo(lost) ==
    LET new == Lacking(remote, dir) \ lost
        there == remote \cup {o \in new : o[2] = "side"}
    IN there \cup {o \in new : o[2] = "sql" /\ <<o[1], "side">> \in dir
                              /\ \E p \in there : SameName(<<o[1], "side">>, p)}

Reconcile ==
    /\ job.pc = "reconcile"
    /\ \/ remote' = ReconcileTo({}) /\ UNCHANGED used
       \/ Fails /\ \E o \in Lacking(remote, dir) : remote' = ReconcileTo({o})
    /\ job' = [job EXCEPT !.pc = "prune"]
    /\ UNCHANGED <<store, dir, sweeps, epoch, running, adopt, restore, fenced>>

\* prune_remote: of each class the oldest bodies beyond the bound, each with
\* its sidecar; a failing delete leaves both.
PruneRemote ==
    /\ job.pc = "prune" /\ EndJob
    /\ LET kept == Pruned(Bodies(remote, "base"), Keep)
                   \cup Pruned(Bodies(remote, "incr"), KeepIncr)
           victims == (Bodies(remote, "base") \cup Bodies(remote, "incr")) \ kept
       IN \/ remote' = {o \in remote : o[1] \notin victims} /\ UNCHANGED used
          \/ Fails /\ \E v \in victims :
                remote' = {o \in remote : o[1] = v \/ o[1] \notin victims}
    /\ UNCHANGED <<store, dir, sweeps, epoch, adopt, restore, fenced>>

-----------------------------------------------------------------------------
(* Restore.                                                                  *)

\* The text of a seq is the one of the earliest segment that carries it.
Chain(base) ==
    LET segs == {f \in Incrs : f.to > base.to}
        seqs == {e[1] : e \in {x \in UNION {f.ents : f \in segs} : x[1] > base.to}}
        text(i) == LET s == {f \in segs : \E e \in f.ents : e[1] = i}
                   IN (CHOOSE e \in Oldest(s).ents : e[1] = i)[2]
    IN [ents |-> [i \in seqs |-> text(i)], last |-> Max({base.to} \cup {f.to : f \in segs})]

\* As Continuous, looking for the last entry alone.
ContinuousAtTail(base) ==
    Chain(base).last \in DOMAIN Chain(base).ents \cup {base.to}

\* The continuity audit: no gap, no missing tail.
Continuous(base) == DOMAIN Chain(base).ents = base.to + 1 .. Chain(base).last

\* Statements a restore to time t replays: the dump, then the chain's writes.
Script(base, t) ==
    LET chain == Chain(base)
        seqs == {i \in DOMAIN chain.ents : chain.ents[i].op.kind # "void" /\ chain.ents[i].ts <= t}
        order == SetToSortSeq(seqs, <)
    IN <<[kind |-> "load", s |-> base.db]>> \o [i \in DOMAIN order |-> chain.ents[order[i]].op]

\* A sidecar, where there is one, is the body's.
Verified(f) == \A o \in dir : SameName(o, <<f, "side">>) => o[1] = f

\* Refused: a target before the base, a failing checksum, a broken chain.
Restorable(base, t) ==
    /\ base.ts <= t /\ Continuous(base)
    /\ \A f \in {base} \cup Incrs : Verified(f)

\* Writes of the live journal beyond the chain: reported in the status note.
Noted(base, t) ==
    \E i \in Chain(base).last + 1 .. Len(journal) : i >= first /\ journal[i].ts <= t

Restored(base, t) == FoldLeft(Replay, {}, Script(base, t))

\* What the remote copy has of a base, its sidecar and the chain, and the
\* directory lacks.
Missing(b) ==
    {o \in Lacking(dir, remote) :
        \/ o[1].kind = "base" /\ o[1].n = b.n
        \/ o[1].kind = "incr" /\ \E p \in remote : SameName(<<o[1], "sql">>, p)}

\* REQ_BACKUP restore to a point in time: the missing files are fetched first;
\* one that cannot be fetched ends the restore, the others stay ...
RestoreFetch ==
    /\ Free /\ ~fenced /\ Rarely("restores", MaxRestores)
    /\ \E b \in Bases \cup Bodies(remote, "base") : \E got \in SUBSET Missing(b) :
          /\ dir' = dir \cup got
          /\ restore' = IF got = Missing(b) THEN [NoRestore EXCEPT !.pc = "read", !.base = b]
                        ELSE restore
    /\ UNCHANGED <<store, remote, sweeps, epoch, running, job, adopt, fenced>>

\* ... then they are read and audited, or the restore refused ...
RestoreRead ==
    /\ restore.pc = "read"
    /\ \/ \E b \in Bases, t \in 1 .. clock :
            /\ b.n = restore.base.n /\ Restorable(b, t)
            /\ restore' = [restore EXCEPT !.pc = "lock", !.todo = Script(b, t)]
       \/ restore' = NoRestore
    /\ UNCHANGED <<store, files, epoch, running, job, adopt, fenced, used>>

\* ... and write_order is taken for the whole replay, or the wait times out.
RestoreLock ==
    /\ restore.pc = "lock"
    /\ \/ OrderFree /\ restore' = [restore EXCEPT !.pc = "replay"]
       \/ restore' = NoRestore
    /\ UNCHANGED <<store, files, epoch, running, job, adopt, fenced, used>>

\* One statement through the write path, journaled like any other; a failing
\* statement ends the restore where it is.
RestoreStep ==
    /\ restore.pc = "replay" /\ restore.todo # <<>>
    /\ \/ /\ db' = Replay(db, Head(restore.todo))
          /\ journal' = Append(journal, Entry(Head(restore.todo)))
          /\ restore' = [restore EXCEPT !.todo = Tail(@)] /\ UNCHANGED used
       \/ Fails /\ restore' = NoRestore /\ UNCHANGED <<db, journal>>
    /\ UNCHANGED <<clock, asof, first, gen, files, epoch, running, job, adopt, fenced>>

RestoreEnd ==
    /\ restore.pc = "replay" /\ restore.todo = <<>> /\ restore' = NoRestore
    /\ UNCHANGED <<store, files, epoch, running, job, adopt, fenced, used>>

\* The process stops at any point: tasks and flags are gone, files stay.
Crash ==
    /\ Fails
    /\ running' = FALSE /\ job' = NoJob /\ restore' = NoRestore /\ adopt' = NoAdopt
    /\ epoch' = 0 /\ retry' = FALSE
    /\ UNCHANGED <<store, dir, remote, marker, bared, fenced>>

Next ==
    \/ Tick \/ Write \/ TrimJournal \/ FenceFlips
    \/ AdoptCommit \/ AdoptList \/ AdoptSweep \/ AdoptDelete
    \/ RetryDelete \/ RetryClear
    \/ BackupDump \/ ExportCursor \/ ExportRead \/ TickFenced \/ JobFails \/ EpochSame
    \/ Rename \/ Sidecar \/ Seal \/ Tidy \/ UploadSide \/ UploadBody \/ UploadLands \/ Reconcile \/ PruneRemote
    \/ RestoreFetch \/ RestoreRead \/ RestoreLock \/ RestoreStep \/ RestoreEnd \/ Crash

Spec == Init /\ [][Next]_vars

-----------------------------------------------------------------------------

\* Shapes of the backup state; no two files of a class share a name.
TypeOK ==
    /\ first \in 1 .. Len(journal) + 1 /\ epoch <= gen
    /\ \A o \in dir \cup remote : o[1].kind \in {"base", "incr"} /\ o[1].to <= Len(journal)
    /\ Cardinality(Bases) <= Keep + 1 + used.faults
    /\ \A S \in {Bases, Incrs} : \A f, g \in S : f.n = g.n => f = g
    /\ running \in BOOLEAN /\ marker \in BOOLEAN

\* Contents at the end of millisecond t.
Truth(t) == IF t = clock THEN db ELSE asof[t]

\* A point-in-time restore is truthful or refused: from a base taken since the
\* last adoption, to any time from the base on, an accepted restore without a
\* note about unexported writes yields exactly what the database held then,
\* provided no write was trimmed from the journal before its export.
Truthful ==
    restore.pc # "replay" =>
    \A b \in Bases : \A t \in b.ts .. clock :
        (b.gen = gen /\ Restorable(b, t) /\ ~Noted(b, t) /\ first <= Chain(b).last + 1)
            => Restored(b, t) = Truth(t)

Voided(f) == \E e \in f.ents : journal[e[1]].op.kind = "void" /\ e[2].op.kind # "void"

\* Every remote body has a checksum beside it, whatever failed half-way: but
\* for the segments an adoption voided, and for a segment whose upload met the
\* sweep of the remote chain between its checksum and its body. The checksum
\* is the body's, or one an overtaken export of that name left (which refuses
\* the body).
RemoteChecksummed ==
    \A f \in Bodies(remote, "base") \cup Bodies(remote, "incr") :
        \/ Voided(f) \/ marker \/ f \in bared
        \/ \E o \in remote : SameName(o, <<f, "side">>) /\ (o[1] = f \/ Voided(o[1]))

\* Once an adoption has swept, in a process no crash has cut short since, and
\* while no restore fetched remote files back, no local segment carries the text
\* of an entry that the adoption voided, wherever the sweep met an export.
VoidedGone ==
    (adopt = NoAdopt /\ epoch = gen /\ used.restores = 0 /\ job.pc # "sidecar") =>
    \A f \in Incrs : ~Voided(f)
=============================================================================
