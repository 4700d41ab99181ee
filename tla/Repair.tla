------------------------------- MODULE Repair -------------------------------
(***************************************************************************)
(* Rejoin repair: a node that restarts with data probes its peers, pulls   *)
(* the journal ranges it missed, and otherwise adopts an elected snapshot, *)
(* while writes keep arriving and the journals it reads from are trimmed.  *)
(*                                                                         *)
(* A database is the number of times each write <<origin, seq>> was        *)
(* applied; an insert cannot be applied twice.  Capturing a snapshot is    *)
(* one step here: JoinSync models how the mesh is frozen for it.           *)
(***************************************************************************)
EXTENDS Integers, Sequences, FiniteSets, FiniteSetsExt, SequencesExt, Election

CONSTANTS
    Peer, Me,
    PeerOrder,    \* DOCSQL_PEERS of the rejoining node, a sequence
    Insert,       \* writes that insert a row; the others update one
    MaxSeq,       \* bound on the writes of a peer, a function
    MaxEvents,    \* bound on client writes, trims and faults together
    Rounds        \* REPAIR_ROUNDS

Node == Peer \cup {Me}
Op == UNION {{n} \X (1..MaxSeq[n]) : n \in Node}
NoPos == -1
None == <<>>

ASSUME RepairAssumption == Me \notin Peer /\ MaxSeq \in [Node -> Nat \ {0}]

VARIABLES
    data, head, oldest,      \* databases; journals of the peers
    pos,                     \* recorded positions of Me
    voided,                  \* Me's own journal entries that were voided
    frames, late, failed,    \* sequenced writes on their way to Me; legs given up; failed legs
    carried,                 \* entries of Me's journal on their way to a pulling peer
    open, queue, failures,   \* SyncGate of Me
    pc, round, todo, reports, infos, local, plan, pull, dump, fresh,
    seeded,                  \* writes a position was raised over before they were applied
    discarded,               \* own writes an adoption threw away for good
    direct,                  \* writes applied past a closed gate while the repair runs
    adopted, events

store == <<data, head, oldest, pos, voided>>
wire == <<frames, late, failed, carried>>
gate == <<open, queue, failures>>
task == <<pc, round, todo, reports, infos, local, plan, pull, dump, fresh>>
history == <<seeded, discarded, direct, adopted>>
vars == <<store, wire, gate, task, history, events>>

\* The order of two databases with equally many rows in the election: the
\* serialized digests differ, and any fixed order will do.
Digest(d) ==
    [rows |-> Cardinality({o \in Insert \cap Op : d[o] > 0}),
     rank |-> FoldSet(LAMBDA o, r : r + d[o] * (IF o[1] = Me THEN 27 ELSE 3^(o[2] - 1)), 0, Op)]

Prefix(k) == [o \in Op |-> IF o[1] # Me /\ o[2] <= k[o[1]] THEN 1 ELSE 0]

\* The peers agree on one write each; this node stopped somewhere before, or
\* never recorded a position, and may hold a write nobody else received.
Init ==
    /\ \E k \in [Peer -> 0..1], own \in BOOLEAN, known \in BOOLEAN :
         /\ data = [n \in Node |->
              IF n = Me THEN [Prefix(k) EXCEPT ![<<Me, 1>>] = IF own THEN 1 ELSE 0]
              ELSE Prefix([p \in Peer |-> 1])]
         /\ pos = [p \in Peer |-> IF known THEN k[p] ELSE NoPos]
         /\ head = [n \in Node |-> IF n = Me THEN (IF own THEN 1 ELSE 0) ELSE 1]
    /\ oldest = [p \in Peer |-> 1] /\ voided = {}
    /\ frames = {} /\ late = {} /\ failed = {} /\ carried = {}
    /\ open \in BOOLEAN /\ queue = <<>> /\ failures = 0
    /\ pc = "probe" /\ round = 1 /\ todo = Peer /\ fresh = FALSE
    /\ reports = None /\ infos = None /\ local = None
    /\ plan = <<>> /\ pull = None /\ dump = None
    /\ seeded = {} /\ discarded = {} /\ direct = {} /\ adopted = FALSE /\ events = 0

Event == events < MaxEvents /\ events' = events + 1

-----------------------------------------------------------------------------
(* The mesh around the node                                                *)

\* A client write at a peer: committed and journaled, then fanned out under
\* write_order, so the leg to this node of the peer's previous write is over.
Write(n) ==
    /\ head[n] < MaxSeq[n] /\ Event
    /\ \A o \in frames : o[1] = n => o \in late
    /\ LET op == <<n, head[n] + 1>> IN \E miss \in SUBSET (Node \ {n}) :
         /\ data' = [m \in Node |-> IF m \in miss \cup {Me} THEN data[m]
                                    ELSE [data[m] EXCEPT ![op] = 1]]
         /\ frames' = IF Me \in miss THEN frames ELSE frames \cup {op}
         /\ failed' = IF miss = {} THEN failed ELSE failed \cup {op}
    /\ head' = [head EXCEPT ![n] = @ + 1]
    /\ UNCHANGED <<oldest, pos, voided, late, carried, gate, task, history>>

\* Mutant: the newest entry goes too.
TrimNewest(p) ==
    /\ oldest[p] <= head[p] /\ Event
    /\ oldest' = [oldest EXCEPT ![p] = @ + 1]
    /\ UNCHANGED <<data, head, pos, voided, wire, gate, task, history>>

\* journal_trim and journal_trim_bytes: the oldest entries go, the newest stays.
Trim(p) ==
    /\ oldest[p] < head[p] /\ Event
    /\ oldest' = [oldest EXCEPT ![p] = @ + 1]
    /\ UNCHANGED <<data, head, pos, voided, wire, gate, task, history>>

\* The origin's I/O budget runs out; the frame is lost or applied after all.
LegTimeout(op) ==
    /\ op \in frames \ late /\ Event /\ failed' = failed \cup {op}
    /\ \/ late' = late \cup {op} /\ UNCHANGED frames
       \/ frames' = frames \ {op} /\ UNCHANGED late
    /\ UNCHANGED <<store, carried, gate, task, history>>

Fails(op) == op \in Insert /\ data[Me][op] > 0
Applied(op) == [data EXCEPT ![Me][op] = IF Fails(op) \/ @ = 2 THEN @ ELSE @ + 1]

\* The statement and its position commit in one unit.
ApplySeq(op) ==
    /\ data' = Applied(op)
    /\ pos' = [pos EXCEPT ![op[1]] = IF Fails(op) \/ @ >= op[2] THEN @ ELSE op[2]]
    /\ UNCHANGED <<head, oldest, voided>>

\* REQ_SQL_SEQ at this node: queued on the open gate, or applied under the
\* origin's lock, which a pull from that origin holds.
Deliver(op) ==
    /\ op \in frames /\ frames' = frames \ {op} /\ late' = late \ {op}
    /\ IF open
       THEN /\ queue' = Append(queue, op) /\ UNCHANGED <<store, failed, open, failures, direct>>
       ELSE /\ ~(pc = "pull" /\ pull # None /\ pull.peer = op[1])
            /\ IF pos[op[1]] >= op[2] THEN UNCHANGED <<store, failed>>
               ELSE ApplySeq(op) /\ failed' = IF Fails(op) THEN failed \cup {op} ELSE failed
            /\ direct' = IF pc = "done" THEN direct ELSE direct \cup {op}
            /\ UNCHANGED gate
    /\ UNCHANGED <<carried, task, seeded, discarded, adopted, events>>

\* Some peer restarts and pulls this node's journal: handle_catchup reads the
\* entry and sends it.
PeerReads(p) ==
    /\ head[Me] > 0 /\ <<Me, 1>> \notin voided /\ data[p][<<Me, 1>>] = 0 /\ Event
    /\ carried' = carried \cup {<<p, <<Me, 1>>>>}
    /\ UNCHANGED <<store, frames, late, failed, gate, task, history>>

\* catch_up_from at the peer: it executes what it was sent, or has lost the
\* connection.
PeerApplies(p, op) ==
    /\ <<p, op>> \in carried /\ carried' = carried \ {<<p, op>>}
    /\ data' = [data EXCEPT ![p][op] = 1] \/ UNCHANGED data
    /\ UNCHANGED <<head, oldest, pos, voided, frames, late, failed, gate, task, history, events>>

-----------------------------------------------------------------------------
(* repair_sync: probes                                                     *)

Goto(to) == pc' = to
Known(f, p, v) == [q \in DOMAIN f \cup {p} |-> IF q = p THEN v ELSE f[q]]

\* A peer's digests and, unless this is the re-check after a catch-up, its
\* journal window; either answer may be missing.
Probe(p) ==
    /\ pc \in {"probe", "fresh"} /\ p \in todo /\ todo' = todo \ {p}
    /\ \/ /\ reports' = Known(reports, p, Digest(data[p]))
          /\ infos' = IF pc = "probe" THEN Known(infos, p, [head |-> head[p], oldest |-> oldest[p]]) ELSE infos
          /\ UNCHANGED events
       \/ /\ pc = "probe" /\ Event
          /\ reports' = Known(reports, p, Digest(data[p])) /\ UNCHANGED infos
       \/ Event /\ UNCHANGED <<reports, infos>>
    /\ UNCHANGED <<store, wire, gate, history, pc, round, local, plan, pull, dump, fresh>>

StartRound(r) ==
    /\ round' = r /\ pc' = "probe" /\ todo' = Peer /\ fresh' = FALSE
    /\ reports' = None /\ infos' = None /\ local' = None /\ plan' = <<>>
    /\ pull' = None /\ dump' = None

\* Mutant: giving up forgets the terminal drain.
RetrySilently == IF round < Rounds THEN StartRound(round + 1)
                 ELSE Goto("done") /\ UNCHANGED <<round, todo, reports, infos, local, plan, pull, dump, fresh>>

\* The end of a round that settled nothing: sleep and retry, or give up.
Retry == IF round < Rounds THEN StartRound(round + 1)
         ELSE Goto("close") /\ UNCHANGED <<round, todo, reports, infos, local, plan, pull, dump, fresh>>

\* This node is cut off for a whole round of probes.
CutOff ==
    /\ pc \in {"probe", "fresh"} /\ todo = Peer /\ Event /\ todo' = {}
    /\ UNCHANGED <<store, wire, gate, history, pc, round, reports, infos, local, plan, pull, dump, fresh>>

NobodyReachable ==
    /\ pc = "probe" /\ todo = {} /\ reports = None /\ Retry
    /\ UNCHANGED <<store, wire, gate, history, events>>

\* catchup_plan: where to pull from at each peer with more to tell; impossible
\* when a position is unknown or outside a reached peer's journal.
Usable(p) == pos[p] # NoPos /\ pos[p] <= infos[p].head /\ pos[p] + 1 >= infos[p].oldest
CatchupPlan == [p \in {q \in DOMAIN infos : infos[q].head > pos[q]} |-> pos[p]]

\* Plans and elected groups list their peers in the order of DOCSQL_PEERS.
FirstOf(p, ps) ==
    p \in ps /\ \E i \in 1..Len(PeerOrder) :
        PeerOrder[i] = p /\ \A k \in 1..(i - 1) : PeerOrder[k] \notin ps

Plan ==
    /\ pc = "probe" /\ todo = {} /\ reports # None
    /\ local' = Digest(data[Me])
    /\ IF (\A p \in DOMAIN infos : Usable(p)) /\ DOMAIN CatchupPlan # {}
       THEN plan' = CatchupPlan /\ Goto("pull")
       ELSE plan' = <<>> /\ Goto("decide")
    /\ UNCHANGED <<store, wire, gate, history, events, round, todo, reports, infos, pull, dump, fresh>>

DigestsFail ==
    /\ pc = "probe" /\ todo = {} /\ reports # None /\ Event /\ Goto("close")
    /\ UNCHANGED <<store, wire, gate, history, round, todo, reports, infos, local, plan, pull, dump, fresh>>

-----------------------------------------------------------------------------
(* run_catchup, catch_up_from and the server side handle_catchup           *)

\* The origin's lock is taken and the head the stream ends at is sampled.
PullStart ==
    /\ pc = "pull" /\ pull = None
    /\ \E p \in Peer :
         /\ FirstOf(p, DOMAIN plan)
         /\ pull' = [peer |-> p, from |-> plan[p], at |-> plan[p], head |-> head[p]]
    /\ UNCHANGED <<store, wire, gate, history, events, pc, round, todo, reports, infos, local, plan, dump, fresh>>

\* journal_range after `at`: the next entry that is still there.
NextEntry == IF oldest[pull.peer] > pull.at + 1 THEN oldest[pull.peer] ELSE pull.at + 1
PullFails == Goto("decide") /\ pull' = None

\* Mutant: no continuity audit of the batch.
PullOneUnaudited ==
    /\ pc = "pull" /\ pull # None /\ NextEntry <= pull.head
    /\ LET op == <<pull.peer, NextEntry>> IN
         IF Fails(op)
         THEN PullFails /\ UNCHANGED <<data, events>>
         ELSE \/ /\ data' = Applied(op) /\ pull' = [pull EXCEPT !.at = NextEntry]
                 /\ UNCHANGED <<pc, events>>
              \/ Event /\ PullFails /\ UNCHANGED data
    /\ UNCHANGED <<head, oldest, pos, voided, wire, gate, history, round, todo, reports, infos, local, plan, dump, fresh>>

\* One entry served and replayed; a hole in front of it, a replay error or a
\* broken connection ends the pull.
PullOne ==
    /\ pc = "pull" /\ pull # None /\ NextEntry <= pull.head
    /\ LET op == <<pull.peer, NextEntry>> IN
         IF NextEntry # pull.at + 1 \/ Fails(op)
         THEN PullFails /\ UNCHANGED <<data, events>>
         ELSE \/ /\ data' = Applied(op) /\ pull' = [pull EXCEPT !.at = NextEntry]
                 /\ UNCHANGED <<pc, events>>
              \/ Event /\ PullFails /\ UNCHANGED data
    /\ UNCHANGED <<head, oldest, pos, voided, wire, gate, history, round, todo, reports, infos, local, plan, dump, fresh>>

\* The stream ends at the sampled head, which becomes the position; ended
\* short of it, the range was trimmed and the pull fails.
PullEnd ==
    /\ pc = "pull" /\ pull # None /\ NextEntry > pull.head
    /\ IF pull.at = pull.head
       THEN /\ pos' = [pos EXCEPT ![pull.peer] = IF @ >= pull.head THEN @ ELSE pull.head]
            /\ pull' = None /\ plan' = Restrict(plan, DOMAIN plan \ {pull.peer}) /\ UNCHANGED pc
       ELSE PullFails /\ UNCHANGED <<pos, plan>>
    /\ UNCHANGED <<data, head, oldest, voided, wire, gate, history, events, round, todo, reports, infos, local, dump, fresh>>

\* Every range landed: the queued writes follow, with the gate still open, and
\* then the fresh digests are collected.
PullsDone ==
    /\ pc = "pull" /\ pull = None /\ DOMAIN plan = {} /\ Goto("drain") /\ fresh' = TRUE
    /\ UNCHANGED <<store, wire, gate, history, events, round, todo, reports, infos, local, plan, pull, dump>>

\* drain_inner, one entry: skipped when covered, else applied or counted.
DrainOne ==
    /\ pc \in {"drain", "close", "adopted"} /\ queue # <<>>
    /\ LET op == Head(queue) IN
         IF pos[op[1]] >= op[2] THEN UNCHANGED <<store, failures>>
         ELSE ApplySeq(op) /\ failures' = IF Fails(op) THEN failures + 1 ELSE failures
    /\ queue' = Tail(queue) /\ UNCHANGED <<open, wire, task, history, events>>

DrainedOpen ==
    /\ pc = "drain" /\ queue = <<>> /\ Goto("fresh") /\ todo' = Peer /\ reports' = None
    /\ UNCHANGED <<store, wire, gate, history, events, round, infos, local, plan, pull, dump, fresh>>

FreshLocal ==
    /\ pc = "fresh" /\ todo = {} /\ Goto("decide") /\ local' = Digest(data[Me])
    /\ UNCHANGED <<store, wire, gate, history, events, round, todo, reports, infos, plan, pull, dump, fresh>>

-----------------------------------------------------------------------------
(* Election and snapshot adoption                                          *)

\* request_sync from the elected peer: the mesh is frozen, no live leg is under
\* way, and the peer's database is captured; or the request fails.
Decide ==
    /\ pc = "decide"
    /\ LET d == DecideRepair(local, reports) IN
         IF d.what # "pull"
         THEN /\ Goto("close") /\ UNCHANGED <<events, round, todo, reports, infos, local, plan, pull, dump, fresh>>
         ELSE \/ /\ frames \subseteq late /\ Goto("adopt")
                 /\ \E p \in Peer : FirstOf(p, d.from) /\ dump' = data[p]
                 /\ UNCHANGED <<events, round, todo, reports, infos, local, plan, pull, fresh>>
              \/ Event /\ Retry
    /\ UNCHANGED <<store, wire, gate, history>>

\* Heads of the probe round; an empty journal seeds nothing.
Floor(p) == IF p \in DOMAIN infos /\ infos[p].head > 0 THEN infos[p].head ELSE NoPos

\* A peer has the write or is being sent it.
Elsewhere(o) == \E p \in Peer : data[p][o] # 0 \/ <<p, o>> \in carried

\* Mutant: the node's own journal keeps its texts.
AdoptKeepsJournal ==
    /\ pc = "adopt" /\ data' = [data EXCEPT ![Me] = dump]
    /\ pos' = [p \in Peer |-> Floor(p)] /\ UNCHANGED voided
    /\ discarded' = {o \in Op : o[1] = Me /\ o[2] <= head[Me] /\ ~Elsewhere(o)}
    /\ adopted' = TRUE /\ Goto("adopted") /\ failures' = 0
    /\ UNCHANGED <<head, oldest, wire, open, queue, seeded, direct, events, round, todo, reports, infos, local, plan, pull, dump, fresh>>

\* Mutant: the positions are raised to the current heads before the drain.
AdoptSeedsCurrent ==
    /\ pc = "adopt" /\ data' = [data EXCEPT ![Me] = dump]
    /\ pos' = [p \in Peer |-> head[p]]
    /\ voided' = {o \in Op : o[1] = Me /\ o[2] <= head[Me]}
    /\ discarded' = {o \in voided' : ~Elsewhere(o)}
    /\ adopted' = TRUE /\ Goto("adopted") /\ failures' = 0
    /\ UNCHANGED <<head, oldest, wire, open, queue, seeded, direct, events, round, todo, reports, infos, local, plan, pull, dump, fresh>>

\* apply_repair_sync: in one transaction the snapshot replaces the database,
\* the positions are forgotten and the node's own journal is voided; then the
\* probe round's heads are seeded.
Adopt ==
    /\ pc = "adopt" /\ data' = [data EXCEPT ![Me] = dump]
    /\ pos' = [p \in Peer |-> Floor(p)]
    /\ voided' = {o \in Op : o[1] = Me /\ o[2] <= head[Me]}
    /\ discarded' = {o \in voided' : ~Elsewhere(o)}
    /\ adopted' = TRUE /\ Goto("adopted") /\ failures' = 0
    /\ UNCHANGED <<head, oldest, wire, open, queue, seeded, direct, events, round, todo, reports, infos, local, plan, pull, dump, fresh>>

AdoptFails ==
    /\ pc = "adopt" /\ Event /\ Retry /\ UNCHANGED <<store, wire, gate, history>>

\* The terminal drain closes the gate; after an adoption without replay
\* failures the positions are raised to the peers' current heads.
Close ==
    /\ pc \in {"close", "adopted"} /\ queue = <<>> /\ open' = FALSE
    /\ Goto(IF pc = "adopted" /\ failures = 0 THEN "seed" ELSE "done")
    /\ todo' = Peer
    /\ UNCHANGED <<store, wire, queue, failures, history, events, round, reports, infos, local, plan, pull, dump, fresh>>

SeedFresh(p) ==
    /\ pc = "seed" /\ p \in todo /\ todo' = todo \ {p}
    /\ \/ /\ pos' = [pos EXCEPT ![p] = IF @ >= head[p] THEN @ ELSE head[p]]
          /\ seeded' = seeded \cup {o \in Op : o[1] = p /\ o[2] <= head[p] /\ data[Me][o] = 0}
          /\ UNCHANGED events
       \/ Event /\ UNCHANGED <<pos, seeded>>
    /\ UNCHANGED <<data, head, oldest, voided, wire, gate, discarded, direct, adopted, pc, round, reports, infos, local, plan, pull, dump, fresh>>

SeedDone ==
    /\ pc = "seed" /\ todo = {} /\ Goto("done")
    /\ UNCHANGED <<store, wire, gate, history, events, round, todo, reports, infos, local, plan, pull, dump, fresh>>

\* This node crashes in the middle of its repair: the queue and the frames are
\* gone, what was committed stays.
Restart ==
    /\ pc # "done" /\ Event /\ StartRound(1)
    /\ open' = TRUE /\ queue' = <<>> /\ failures' = 0
    /\ frames' = {} /\ late' = {} /\ failed' = failed \cup frames \cup ToSet(queue)
    /\ UNCHANGED <<store, carried, history>>

-----------------------------------------------------------------------------
Mesh ==
    \/ \E p \in Peer : Write(p) \/ Trim(p) \/ PeerReads(p) \/ \E op \in Op : PeerApplies(p, op)
    \/ \E op \in Op : LegTimeout(op) \/ Deliver(op)
Task ==
    \/ \E p \in Peer : Probe(p) \/ SeedFresh(p)
    \/ CutOff \/ NobodyReachable \/ Plan \/ DigestsFail
    \/ PullStart \/ PullOne \/ PullEnd \/ PullsDone
    \/ DrainOne \/ DrainedOpen \/ FreshLocal
    \/ Decide \/ Adopt \/ AdoptFails \/ Close \/ SeedDone
Next == Mesh \/ Task \/ Restart

Spec == Init /\ [][Next]_vars
\* The repair task runs, and a delivered frame is handled.
FairSpec == Spec /\ WF_vars(Task) /\ WF_vars(\E op \in Op : Deliver(op))

-----------------------------------------------------------------------------
TypeOK ==
    /\ data \in [Node -> [Op -> 0..2]] /\ \A p \in Peer : pos[p] \in NoPos..head[p]
    /\ late \subseteq frames /\ frames \subseteq Op /\ failed \subseteq Op /\ carried \subseteq Peer \X Op
    /\ \A p \in Peer : 1 <= oldest[p] /\ oldest[p] <= head[p]
    /\ round \in 1..Rounds /\ events \in 0..MaxEvents
    /\ pc \in {"probe", "pull", "drain", "fresh", "decide", "adopt", "adopted", "close", "seed", "done"}
    /\ pull # None => pc = "pull" /\ pull.at <= pull.head

\* What a pull counts as received was applied: while a range is pulled, and so
\* when its head becomes the position, every write of the range up to the point
\* reached is in its database, whatever was trimmed or appended meanwhile
\* (handle_catchup's continuity audit).
PullComplete ==
    pull # None => \A o \in Op :
        o[1] = pull.peer /\ o[2] \in (pull.from + 1)..pull.at => data[Me][o] > 0

Landed(o) ==
    \/ data[Me][o] > 0 \/ o \in frames \/ failures > 0
    \/ \E i \in 1..Len(queue) : queue[i] = o
Due == {o \in Op : o[1] # Me /\ o[2] <= head[o[1]]} \ (failed \cup seeded)
Serving == adopted /\ pc \in {"seed", "done"}

\* Adoption leaves no gap: once the node serves the adopted snapshot, every
\* committed write whose legs all arrived is in its database, in the snapshot,
\* through the queue or directly; a write missed while the node was down too.
\* (A write applied past a closed gate while the repair runs may be lost.)
AdoptComplete == Serving => \A o \in Due \ direct : Landed(o)

\* No way of repairing leaves a gap behind the positions it sets.
RepairComplete == PullComplete /\ AdoptComplete

\* The same with no exception: inbound replication writes queue on the open
\* sync gate meanwhile and replay right after.
QueuedMeanwhile == Serving => \A o \in Due \cap direct : Landed(o)

\* A write that the election discarded, which no peer had or was being sent when
\* the adopting transaction voided it, never comes back (journal_void_all).  One
\* that a peer's pull had already read does: catch_up_from executes it afterwards.
NoResurrection == \A o \in discarded : \A n \in Node : data[n][o] = 0

\* The repair concludes with the gate closed, whatever the peers do.
RepairEnds == <>(pc = "done" /\ ~open)
=============================================================================
