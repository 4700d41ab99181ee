------------------------------ MODULE Sessions ------------------------------
(* The statement pipeline of a server node (docsql-server lib.rs,            *)
(* execute_sql_inner; conn.rs): client connections and replication appliers  *)
(* share an engine that has one global transaction. tx_owner names the       *)
(* connection that opened it, write_order serialises writers, tx_pending     *)
(* buffers the transaction's writes for the journal and the peers.           *)
(*                                                                           *)
(* A write is <<connection, number>>; the engine's contents are the sequence *)
(* of writes it has applied. One step lasts as long as the code holds a lock *)
(* or runs between two awaits.                                               *)
EXTENDS Naturals, Sequences, SequencesExt, FiniteSets

CONSTANTS Clients,    \* client connections
          Appliers,   \* replication connections
          Names,      \* savepoint names
          None,
          ReuseNames, \* whether clients give two live savepoints one name
          MaxWrites,  \* bound: writes issued
          MaxControl, \* bound: transaction control statements
          MaxPending, \* MAX_TX_PENDING_WRITES
          MaxMarks,   \* bound: live savepoints
          MaxFaults   \* bound: failing fsyncs and undo replays, and crashes

ASSUME SessionsAssumption ==
    /\ Clients \cap Appliers = {} /\ None \notin Clients \cup Appliers \cup Names
    /\ {MaxWrites, MaxControl, MaxPending, MaxMarks, MaxFaults} \subseteq Nat

Conns == Clients \cup Appliers

VARIABLES
    db,       \* writes applied in the engine, the open transaction's included
    soft,     \* writes at the end of db whose fsync failed
    tx,       \* the engine transaction: open, length of db at BEGIN, savepoints
    journal,  \* journaled writes
    frail,    \* journaled writes of a drain whose fsync failed
    unlogged, \* committed writes that the journal lacks (history)
    sent,     \* writes handed to forward_sql_all
    owner,    \* tx_owner
    pend,     \* tx_pending: writes and savepoint marks
    due,      \* writes taken from pend by a COMMIT, not yet forwarded
    order,    \* holder of write_order
    pc, req,  \* step and statement of each connection
    issued, controls, faults,
    acked,    \* writes the issuer was told are committed
    dirty     \* read tiers ("lock", "view") that returned uncommitted writes

vars == <<db, soft, tx, journal, frail, unlogged, sent, owner, pend, due, order, pc, req,
          issued, controls, faults, acked, dirty>>
entries == <<journal, frail, unlogged>>
engine == <<db, soft, tx, entries>>
gate == <<owner, pend, due>>
budget == <<issued, controls, faults>>

Stmt(k, n, w) == [kind |-> k, name |-> n, w |-> w]
Idle == Stmt("none", None, None)
Read == Stmt("read", None, None)
Control == {Stmt(k, None, None) : k \in {"begin", "commit", "rollback"}}
           \cup {Stmt(k, n, None) : k \in {"savepoint", "release", "rollback_to"}, n \in Names}

Closed == [open |-> FALSE, base |-> 0, saves |-> <<>>]
NoBuffer == [writes |-> <<>>, marks |-> <<>>]
Committed == IF tx.open THEN SubSeq(db, 1, tx.base) ELSE db

\* The writes of a committed transaction that are not journaled yet, and the
\* store this node promises (Serial).
Owed == IF \E c \in Conns : pc[c] = "drain" THEN due
        ELSE IF \E c \in Conns : pc[c] = "post" /\ req[c].kind = "commit" THEN pend.writes
        ELSE <<>>
Store == INSTANCE Serial WITH Conns <- Clients, data <- Committed, log <- journal, due <- Owed, missing <- unlogged

\* Index of the newest mark with this name, 0 if there is none (rposition).
Newest(marks, n) == SelectLastInSeq(marks, LAMBDA m : m.name = n)

Init ==
    /\ db = <<>> /\ soft = 0 /\ tx = Closed /\ sent = <<>>
    /\ journal = <<>> /\ frail = {} /\ unlogged = {}
    /\ owner = None /\ pend = NoBuffer /\ due = <<>> /\ order = None
    /\ pc = [c \in Conns |-> "idle"] /\ req = [c \in Conns |-> Idle]
    /\ issued = 0 /\ controls = 0 /\ faults = 0
    /\ acked = {} /\ dirty = {}

Go(c, p) == pc' = [pc EXCEPT ![c] = p]

\* The response goes out: the guards of the handler are dropped with it.
Reply(c) ==
    /\ Go(c, "idle")
    /\ req' = [req EXCEPT ![c] = Idle]
    /\ order' = IF order = c THEN None ELSE order

-----------------------------------------------------------------------------
(* TxPending: the replication buffer and its savepoint marks.                *)

Push(w) == [pend EXCEPT !.writes = Append(@, w)]

Mark(n) == [pend EXCEPT !.marks = Append(@, [name |-> n, len |-> Len(pend.writes)])]

RollbackTo(n) ==
    LET i == Newest(pend.marks, n)
    IN IF i = 0 THEN pend
       ELSE [writes |-> SubSeq(pend.writes, 1, pend.marks[i].len),
             marks |-> SubSeq(pend.marks, 1, i - 1)]

\* truncate(pos + 1): the released mark itself stays.
Release(n) ==
    LET i == Newest(pend.marks, n)
    IN IF i = 0 THEN pend ELSE [pend EXCEPT !.marks = SubSeq(@, 1, i)]

-----------------------------------------------------------------------------
(* execute_sql_inner up to the queue.                                        *)

Foreign(c) == owner # c
ForeignControl(c, s) ==
    s.kind \notin {"none", "read", "write", "begin"} /\ owner # None /\ Foreign(c)

\* Mutant of Room: the buffer takes one write too many.
RoomOffByOne(c) == owner = c => Len(pend.writes) <= MaxPending

\* tx_pending has room for the owner's next write.
Room(c) == owner = c => Len(pend.writes) < MaxPending

\* A transaction that this connection does not own is open in the engine.
Busy(c) == tx.open /\ owner # c

\* The first await: BEGIN and every read and write of a non-owner queue.
Queue(c, s) ==
    IF s.kind = "begin" \/ (s.kind \in {"read", "write"} /\ Foreign(c)) THEN "wait"
    ELSE IF s.kind = "read" THEN "exec" ELSE "lock"

\* A statement arrives. A refused one changes nothing and is left out, except
\* that the guards below are the code's early returns.
Start(c, s) ==
    /\ pc[c] = "idle"
    /\ ~ForeignControl(c, s)
    /\ s.kind = "write" => Room(c)
    /\ req' = [req EXCEPT ![c] = s] /\ Go(c, Queue(c, s))
    /\ UNCHANGED <<engine, sent, gate, order, acked, dirty>>

StartRead(c) == Start(c, Read) /\ UNCHANGED budget

StartWrite(c) ==
    /\ issued < MaxWrites
    /\ Start(c, Stmt("write", None, <<c, issued + 1>>))
    /\ issued' = issued + 1 /\ UNCHANGED <<controls, faults>>

\* Without ReuseNames a client never has two savepoints of one name.
StartControl(c, s) ==
    /\ controls < MaxControl /\ controls' = controls + 1
    /\ s.kind = "savepoint" => /\ Len(tx.saves) < MaxMarks
                               /\ ReuseNames \/ Newest(pend.marks, s.name) = 0
    /\ Start(c, s)
    /\ UNCHANGED <<issued, faults>>

\* wait_engine_tx_free returns because the transaction closed ...
WaitFree(c) ==
    /\ pc[c] = "wait" /\ ~tx.open
    /\ Go(c, IF req[c].kind = "read" THEN "exec" ELSE "lock")
    /\ UNCHANGED <<engine, sent, gate, order, req, budget, acked, dirty>>

\* ... or because BEGIN_QUEUE_WAIT is over: a plain read that finds a foreign
\* transaction is refused, the others get one last look under write_order.
WaitDeadline(c) ==
    /\ pc[c] = "wait" /\ tx.open
    /\ \/ req[c].kind = "read" /\ Busy(c) /\ Reply(c)
       \/ req[c].kind # "read" /\ Go(c, "last") /\ UNCHANGED <<req, order>>
    /\ UNCHANGED <<engine, sent, gate, budget, acked, dirty>>

\* Mutant of TakeOrder: a statement past its deadline queues again.
TakeOrderForever(c) ==
    /\ pc[c] \in {"lock", "last"} /\ order = None
    /\ \/ ~Busy(c) /\ order' = c /\ Go(c, "exec") /\ UNCHANGED req
       \/ Busy(c) /\ Go(c, "wait") /\ UNCHANGED <<req, order>>
    /\ UNCHANGED <<engine, sent, gate, budget, acked, dirty>>

\* Mutant of TakeOrder: the transaction is not checked again under write_order.
TakeOrderUnchecked(c) ==
    /\ pc[c] \in {"lock", "last"} /\ order = None
    /\ order' = c /\ Go(c, "exec")
    /\ UNCHANGED <<engine, sent, gate, req, budget, acked, dirty>>

\* write_order is taken and the transaction checked again: a statement that
\* lost the race goes back to the queue until its deadline.
TakeOrder(c) ==
    /\ pc[c] \in {"lock", "last"} /\ order = None
    /\ \/ ~Busy(c) /\ order' = c /\ Go(c, "exec") /\ UNCHANGED req
       \/ Busy(c) /\ Reply(c)
       \/ Busy(c) /\ pc[c] = "lock" /\ Go(c, Queue(c, req[c])) /\ UNCHANGED <<req, order>>
    /\ UNCHANGED <<engine, sent, gate, budget, acked, dirty>>

-----------------------------------------------------------------------------
(* The statement itself, under the engine's write lock.                      *)

Failing == faults < MaxFaults /\ faults' = faults + 1 /\ UNCHANGED <<issued, controls>>

\* The engine holds writes of an open transaction that c did not make.
OthersUncommitted(c) == tx.open /\ \E i \in tx.base + 1 .. Len(db) : db[i][1] # c

\* Mutant of ExecRead: no check under the lock it reads in.
ExecReadUnchecked(c) ==
    /\ pc[c] = "exec" /\ req[c].kind = "read"
    /\ dirty' = IF OthersUncommitted(c) THEN dirty \cup {"lock"} ELSE dirty
    /\ Reply(c)
    /\ UNCHANGED <<engine, sent, gate, budget, acked>>

\* A plain read on the write tier: checked once more under the lock it reads
\* in, refused if a foreign transaction opened meanwhile.
ExecRead(c) ==
    /\ pc[c] = "exec" /\ req[c].kind = "read"
    /\ dirty' = IF ~Busy(c) /\ OthersUncommitted(c) THEN dirty \cup {"lock"} ELSE dirty
    /\ Reply(c)
    /\ UNCHANGED <<engine, sent, gate, budget, acked>>

\* A write: outside a transaction one write unit holds the statement and its
\* journal entry (or, for an applier, the origin's position).
ExecWrite(c) ==
    /\ pc[c] = "exec" /\ req[c].kind = "write"
    /\ db' = Append(db, req[c].w)
    /\ soft' = IF tx.open THEN soft ELSE 0
    /\ frail' = IF tx.open THEN frail ELSE {}
    /\ journal' = IF tx.open \/ c \in Appliers THEN journal ELSE Append(journal, req[c].w)
    /\ Go(c, "post")
    /\ UNCHANGED <<tx, unlogged, sent, gate, order, req, budget, acked, dirty>>

\* journal_append fails: the unit still commits the statement, which is
\* acknowledged and forwarded without a journal number.
ExecUnlogged(c) ==
    /\ pc[c] = "exec" /\ req[c].kind = "write" /\ ~tx.open /\ c \in Clients /\ Failing
    /\ db' = Append(db, req[c].w) /\ soft' = 0 /\ frail' = {}
    /\ unlogged' = unlogged \cup {req[c].w}
    /\ Go(c, "post")
    /\ UNCHANGED <<tx, journal, sent, gate, order, req, acked, dirty>>

\* The unit's fsync fails: applied in memory, not acknowledged, not forwarded.
ExecUnsynced(c) ==
    /\ pc[c] = "exec" /\ req[c].kind = "write" /\ ~tx.open /\ Failing
    /\ db' = Append(db, req[c].w) /\ soft' = soft + 1
    /\ journal' = IF c \in Appliers THEN journal ELSE Append(journal, req[c].w)
    /\ Reply(c)
    /\ UNCHANGED <<tx, frail, unlogged, sent, gate, acked, dirty>>

ExecBegin(c) ==
    /\ pc[c] = "exec" /\ req[c].kind = "begin" /\ ~tx.open
    /\ tx' = [open |-> TRUE, base |-> Len(db), saves |-> <<>>]
    /\ Go(c, "post")
    /\ UNCHANGED <<db, soft, entries, sent, gate, order, req, budget, acked, dirty>>

ExecSavepoint(c) ==
    /\ pc[c] = "exec" /\ req[c].kind = "savepoint" /\ tx.open
    /\ tx' = [tx EXCEPT !.saves = Append(@, [name |-> req[c].name, len |-> Len(db)])]
    /\ Go(c, "post")
    /\ UNCHANGED <<db, soft, entries, sent, gate, order, req, budget, acked, dirty>>

\* The engine forgets the newest savepoint of that name and the later ones.
ExecRelease(c) ==
    LET i == Newest(tx.saves, req[c].name)
    IN /\ pc[c] = "exec" /\ req[c].kind = "release" /\ i # 0
       /\ tx' = [tx EXCEPT !.saves = SubSeq(@, 1, i - 1)]
       /\ Go(c, "post")
       /\ UNCHANGED <<db, soft, entries, sent, gate, order, req, budget, acked, dirty>>

ExecRollbackTo(c) ==
    LET i == Newest(tx.saves, req[c].name)
    IN /\ pc[c] = "exec" /\ req[c].kind = "rollback_to" /\ i # 0
       /\ db' = SubSeq(db, 1, tx.saves[i].len)
       /\ tx' = [tx EXCEPT !.saves = SubSeq(@, 1, i - 1)]
       /\ Go(c, "post")
       /\ UNCHANGED <<soft, entries, sent, gate, order, req, budget, acked, dirty>>

\* COMMIT: fsync first, then the transaction is torn down.
ExecCommit(c) ==
    /\ pc[c] = "exec" /\ req[c].kind = "commit" /\ tx.open
    /\ tx' = Closed /\ soft' = 0 /\ frail' = {}
    /\ Go(c, "post")
    /\ UNCHANGED <<db, journal, unlogged, sent, gate, order, req, budget, acked, dirty>>

ExecRollback(c) ==
    /\ pc[c] = "exec" /\ req[c].kind = "rollback" /\ tx.open
    /\ db' = SubSeq(db, 1, tx.base) /\ tx' = Closed
    /\ Go(c, "post")
    /\ UNCHANGED <<soft, entries, sent, gate, order, req, budget, acked, dirty>>

\* A failed fsync of COMMIT or undo replay of ROLLBACK leaves the transaction
\* open; its owner and buffer stay with it.
ExecKeptOpen(c) ==
    /\ pc[c] = "exec" /\ req[c].kind \in {"commit", "rollback"} /\ tx.open /\ Failing
    /\ Reply(c)
    /\ UNCHANGED <<engine, sent, gate, acked, dirty>>

\* The engine refuses: BEGIN in a transaction, control outside one, a name
\* that no savepoint has. COMMIT and ROLLBACK still clear owner and buffer.
ExecRefused(c) ==
    /\ pc[c] = "exec"
    /\ \/ req[c].kind = "begin" /\ tx.open
       \/ req[c].kind \in {"commit", "rollback", "savepoint"} /\ ~tx.open
       \/ req[c].kind \in {"release", "rollback_to"} /\ Newest(tx.saves, req[c].name) = 0
    /\ IF req[c].kind \in {"commit", "rollback"}
       THEN owner' = None /\ pend' = NoBuffer ELSE UNCHANGED <<owner, pend>>
    /\ Reply(c)
    /\ UNCHANGED <<engine, sent, due, budget, acked, dirty>>

-----------------------------------------------------------------------------
(* After the engine lock: owner, buffer, journal and fan-out. write_order is *)
(* still held.                                                               *)

PostBegin(c) ==
    /\ pc[c] = "post" /\ req[c].kind = "begin"
    /\ owner' = c /\ Reply(c)
    /\ UNCHANGED <<engine, sent, pend, due, budget, acked, dirty>>

\* A write of an open transaction is buffered, any other is forwarded.
PostWrite(c) ==
    /\ pc[c] = "post" /\ req[c].kind = "write"
    /\ pend' = IF tx.open THEN Push(req[c].w) ELSE pend
    /\ sent' = IF tx.open \/ c \in Appliers THEN sent ELSE Append(sent, req[c].w)
    /\ acked' = IF tx.open THEN acked ELSE acked \cup {req[c].w}
    /\ Reply(c)
    /\ UNCHANGED <<engine, owner, due, budget, dirty>>

\* Mutant of PostMark: ROLLBACK TO leaves the buffer alone.
PostMarkKeepsTail(c) ==
    /\ pc[c] = "post" /\ req[c].kind \in {"savepoint", "release", "rollback_to"}
    /\ pend' = IF req[c].kind = "savepoint" THEN Mark(req[c].name) ELSE pend
    /\ Reply(c)
    /\ UNCHANGED <<engine, sent, owner, due, budget, acked, dirty>>

PostMark(c) ==
    /\ pc[c] = "post" /\ req[c].kind \in {"savepoint", "release", "rollback_to"}
    /\ pend' = CASE req[c].kind = "savepoint" -> Mark(req[c].name)
                 [] req[c].kind = "release" -> Release(req[c].name)
                 [] req[c].kind = "rollback_to" -> RollbackTo(req[c].name)
    /\ Reply(c)
    /\ UNCHANGED <<engine, sent, owner, due, budget, acked, dirty>>

PostRollback(c) ==
    /\ pc[c] = "post" /\ req[c].kind = "rollback"
    /\ owner' = None /\ pend' = NoBuffer /\ Reply(c)
    /\ UNCHANGED <<engine, sent, due, budget, acked, dirty>>

\* Mutant of PostCommit: write_order is released before the drain.
PostCommitUnordered(c) ==
    /\ pc[c] = "post" /\ req[c].kind = "commit"
    /\ owner' = None /\ due' = pend.writes /\ pend' = NoBuffer /\ order' = None
    /\ Go(c, IF pend.writes = <<>> THEN "send" ELSE "drain")
    /\ UNCHANGED <<engine, sent, req, budget, acked, dirty>>

\* COMMIT, then drain_tx_pending: the buffer is taken over ...
PostCommit(c) ==
    /\ pc[c] = "post" /\ req[c].kind = "commit"
    /\ owner' = None /\ due' = pend.writes /\ pend' = NoBuffer
    /\ Go(c, IF pend.writes = <<>> THEN "send" ELSE "drain")
    /\ UNCHANGED <<engine, sent, order, req, budget, acked, dirty>>

\* ... journaled in one unit ...
DrainJournal(c) ==
    /\ pc[c] = "drain"
    /\ journal' = journal \o due /\ frail' = {}
    /\ Go(c, "send")
    /\ UNCHANGED <<db, soft, tx, unlogged, sent, gate, order, req, budget, acked, dirty>>

\* ... some of whose appends fail, which leaves their writes out of the
\* journal, or whose fsync fails, which leaves the entries in memory ...
DrainFails(c) ==
    /\ pc[c] = "drain" /\ Failing
    /\ \/ \E out \in SUBSET Range(due) :
             /\ journal' = journal \o Store!Surviving(due, Range(due) \ out)
             /\ unlogged' = unlogged \cup out /\ frail' = {}
       \/ journal' = journal \o due /\ frail' = Range(due) /\ UNCHANGED unlogged
    /\ Go(c, "send")
    /\ UNCHANGED <<db, soft, tx, sent, gate, order, req, acked, dirty>>

\* ... and forwarded; the client hears of its COMMIT last.
DrainForward(c) ==
    /\ pc[c] = "send"
    /\ sent' = sent \o due /\ acked' = acked \cup Range(due) /\ due' = <<>>
    /\ Reply(c)
    /\ UNCHANGED <<engine, owner, pend, budget, dirty>>

-----------------------------------------------------------------------------
(* The MVCC read tier, disconnects and crashes.                              *)

\* classify_read_eligible: nobody owns a transaction.
ReadEligible(c) ==
    /\ pc[c] = "idle" /\ owner = None
    /\ req' = [req EXCEPT ![c] = Read] /\ Go(c, "view")
    /\ UNCHANGED <<engine, sent, gate, order, budget, acked, dirty>>

\* execute_read_sql: a view of the engine as it is now.
ReadView(c) ==
    /\ pc[c] = "view"
    /\ dirty' = IF OthersUncommitted(c) THEN dirty \cup {"view"} ELSE dirty
    /\ Reply(c)
    /\ UNCHANGED <<engine, sent, gate, budget, acked>>

\* The connection ends between two frames; its cleanup queues on write_order.
Disconnect(c) ==
    /\ pc[c] = "idle" /\ Go(c, "leave")
    /\ UNCHANGED <<engine, sent, gate, order, req, budget, acked, dirty>>

\* Mutant of Leave: the cleanup does not look for an open transaction.
LeaveSilently(c) ==
    /\ pc[c] = "leave" /\ order = None /\ Go(c, "gone")
    /\ UNCHANGED <<engine, sent, gate, order, req, budget, acked, dirty>>

Leave(c) ==
    /\ pc[c] = "leave" /\ order = None
    /\ \/ owner # c /\ Go(c, "gone") /\ UNCHANGED <<order, owner>>
       \/ owner = c /\ owner' = None /\ order' = c /\ Go(c, "undo")
    /\ UNCHANGED <<engine, sent, pend, due, req, budget, acked, dirty>>

\* rollback_or_abort: the transaction nobody can finish is rolled back.
LeaveUndo(c) ==
    /\ pc[c] = "undo"
    /\ db' = Committed /\ tx' = Closed /\ pend' = NoBuffer
    /\ order' = None /\ Go(c, "gone")
    /\ UNCHANGED <<soft, entries, sent, owner, due, req, budget, acked, dirty>>

\* The process dies (also when rollback_or_abort cannot undo). Recovery keeps
\* the committed writes except some of those whose fsync failed, whose journal
\* entries, written in one unit with them, go too. A drain that was not synced
\* may be lost as well, and one that did not begin is.
Crash ==
    /\ Failing
    /\ \E lost \in 0 .. soft, gone \in {{}, frail} :
          /\ db' = SubSeq(Committed, 1, Len(Committed) - lost)
          /\ unlogged' = (unlogged \cup gone \cup Range(Owed)) \cap Range(db')
    /\ journal' = Store!Surviving(journal, Range(db') \ unlogged')
    /\ frail' = {}
    /\ soft' = 0 /\ tx' = Closed /\ owner' = None /\ pend' = NoBuffer /\ due' = <<>>
    /\ order' = None /\ pc' = [c \in Conns |-> "idle"]
    /\ req' = [c \in Conns |-> Idle]
    /\ UNCHANGED <<sent, acked, dirty>>

Step(c) ==
    \/ WaitFree(c) \/ WaitDeadline(c) \/ TakeOrder(c) \/ ExecRead(c) \/ ExecWrite(c)
    \/ ExecUnlogged(c) \/ ExecUnsynced(c)
    \/ ExecBegin(c) \/ ExecSavepoint(c) \/ ExecRelease(c) \/ ExecRollbackTo(c)
    \/ ExecCommit(c) \/ ExecRollback(c) \/ ExecKeptOpen(c) \/ ExecRefused(c)
    \/ PostBegin(c) \/ PostWrite(c) \/ PostMark(c) \/ PostRollback(c) \/ PostCommit(c)
    \/ DrainJournal(c) \/ DrainFails(c) \/ DrainForward(c) \/ ReadView(c) \/ Leave(c) \/ LeaveUndo(c)

Next ==
    \/ \E c \in Clients : StartRead(c) \/ ReadEligible(c) \/ Disconnect(c)
    \/ \E c \in Clients, s \in Control : StartControl(c, s)
    \/ \E c \in Conns : StartWrite(c) \/ Step(c)
    \/ Crash

Spec == Init /\ [][Next]_vars

(* Every task runs on and deadlines pass. (write_order is a FIFO mutex; with *)
(* finitely many statements weak fairness is enough for every waiter.)       *)
FairSpec == Spec /\ \A c \in Conns : WF_vars(Step(c))

-----------------------------------------------------------------------------

\* Shapes of the pipeline's state.
TypeOK ==
    /\ Range(db) \subseteq Conns \X (1 .. MaxWrites) /\ soft \in 0 .. Len(db)
    /\ tx.open \in BOOLEAN /\ tx.base \in 0 .. Len(db)
    /\ \A i \in DOMAIN tx.saves : tx.saves[i].len \in tx.base .. Len(db)
    /\ owner \in Clients \cup {None} /\ order \in Conns \cup {None}
    /\ Len(pend.writes) <= MaxPending
    /\ \A i \in DOMAIN pend.marks : pend.marks[i].len <= Len(pend.writes)

\* Whenever no statement is under way in the write path, an open engine
\* transaction has an owner that can still finish it (execute_sql_inner: an
\* open transaction nobody owned wedged every later write).
NoOrphan ==
    (order = None /\ tx.open) => owner # None /\ pc[owner] # "gone"

\* The engine's transaction holds writes of its owner only: neither another
\* client's write nor a replicated one merges into it, where the owner's
\* ROLLBACK would drop a write already acknowledged.
Unmixed ==
    tx.open => \A i, j \in tx.base + 1 .. Len(db) : db[i][1] = db[j][1] /\ db[i][1] \in Clients

\* One client at a time, and that client alone, is in a transaction.
OneOwner == NoOrphan /\ Unmixed

\* Between statements tx_pending is exactly what the engine's transaction
\* holds: what COMMIT will journal and forward is what COMMIT commits.
BufferMatches ==
    (order = None /\ tx.open) => pend.writes = SubSeq(db, tx.base + 1, Len(db))

\* The write-locked read path never returns another connection's uncommitted
\* writes, whatever the race between its waits and a BEGIN.
LockedReadsCommitted == "lock" \notin dirty

\* The pipeline implements the serial store: one writer at a time, batches
\* contiguous, journal in commit order but for the entries that could not be
\* made or that a crash lost, acknowledged writes permanent.
SerialStore == Store!Spec

\* Every statement of a client or an applier and every disconnect comes to its
\* end, whatever the owner of the transaction does or leaves undone
\* (BEGIN_QUEUE_WAIT bounds both queues, the cleanup waits for write_order):
\* a connection is without a statement under way again and again.
Served ==
    \A c \in Conns : []<>(pc[c] \in {"idle", "gone"})
=============================================================================
