------------------------------ MODULE JoinSync ------------------------------
(***************************************************************************)
(* A fresh node joins a writing mesh: it asks a peer for a snapshot, the   *)
(* peer freezes its own write path and every other node's, captures the    *)
(* dump, registers the joiner and releases the holds, while replicated     *)
(* writes that reach the joiner queue on its sync gate until the dump has  *)
(* landed.                                                                 *)
(*                                                                         *)
(* A database is the number of times each write was applied to it: a row   *)
(* insert cannot be applied twice (the second attempt fails), an update    *)
(* can.  A write is named by its origin and its journal sequence number.   *)
(***************************************************************************)
EXTENDS Integers, Sequences, FiniteSets

CONSTANTS
    Node, Joiner,
    Order,        \* the joiner's DOCSQL_PEERS, a sequence of the other nodes
    Static,       \* nodes that list the joiner in their own DOCSQL_PEERS
    Insert,       \* writes that insert a row; the others update one
    MaxSeq,       \* bound on the writes of every node, a function
    MaxEvents,    \* bound on client writes and faults (losses, crashes, early timeouts) together
    Cap,          \* MAX_SYNC_QUEUE_ENTRIES
    SyncRounds,   \* SYNC_ROUNDS
    HoldIds       \* hold ids are taken in turn from 1..HoldIds, enough for all that live at once

Op == {o \in Node \X (1..3) : o[2] <= MaxSeq[o[1]]}
Server == Node \ {Joiner}
NoPos == -1

VARIABLES
    up,           \* running nodes
    data, head, pos,    \* applied writes, journal head, position per origin
    tables,       \* nodes that hold user tables
    peers,        \* fan-out targets of a node
    order,        \* what holds a node's write_order
    cur, waiting, \* the write being fanned out and its unanswered legs
    frames,       \* replicated writes on their way: <<target, write>>
    failed,       \* writes with a failed fan-out leg
    open, queue, failures,     \* SyncGate of the joiner, replay_failures
    acked,        \* writes the gate acknowledged
    hold, nextHold,            \* the REQ_HOLD armed at a node, 0 = none
    serve,        \* progress of handle_sync at a node
    jpc, idx, heads, dump, round, saw,   \* progress of bootstrap_sync at the joiner
    seeded,       \* writes a position was raised over before they were applied
    passed,       \* writes of live peers that a join went ahead without freezing
    local, agree, \* verify_join_convergence: sampled digest, peers' answers
    events

cluster == <<up, events>>
engine == <<data, head, pos, tables>>
fanout == <<cur, waiting, frames, failed>>
gate == <<open, queue, failures, acked>>
freeze == <<peers, order, hold, nextHold>>
boot == <<jpc, idx, heads, dump, round, saw>>
check == <<seeded, passed, local, agree>>
vars == <<cluster, engine, fanout, gate, freeze, serve, boot, check>>

Idle == [pc |-> "idle", asked |-> {}, held |-> {}, busy |-> FALSE, dump |-> <<>>]

Init ==
    /\ up = Node /\ events = 0
    /\ data = [n \in Node |-> [o \in Op |-> 0]] /\ head = [n \in Node |-> 0]
    /\ pos = [n \in Node |-> [m \in Node |-> NoPos]] /\ tables = Server
    /\ peers = [n \in Node |-> IF n \in Static THEN Node \ {n} ELSE Server \ {n}]
    /\ order = [n \in Node |-> "free"]
    /\ cur = [n \in Node |-> <<>>] /\ waiting = [n \in Node |-> {}]
    /\ frames = {} /\ failed = {}
    /\ open = TRUE /\ queue = <<>> /\ failures = 0 /\ acked = {}
    /\ hold = [n \in Node |-> 0] /\ nextHold = 1
    /\ serve = [n \in Server |-> Idle]
    /\ jpc = "probe" /\ idx = 1 /\ heads = [n \in Node |-> NoPos] /\ dump = <<>>
    /\ round = 1 /\ saw = FALSE /\ seeded = {} /\ passed = {} /\ local = <<>> /\ agree = {}

\* A client write or a fault takes one of the events a behaviour may have.
Event == events < MaxEvents /\ events' = events + 1

-----------------------------------------------------------------------------
(* Writes and their fan-out                                                *)

\* execute_sql_inner of a client write: commit and journal in one unit, then
\* fan out while write_order is held.
Write(n) ==
    /\ n \in up /\ order[n] = "free" /\ head[n] < MaxSeq[n] /\ Event
    /\ LET op == <<n, head[n] + 1>> IN
         /\ data' = [data EXCEPT ![n][op] = @ + 1] /\ cur' = [cur EXCEPT ![n] = op]
         /\ waiting' = [waiting EXCEPT ![n] = peers[n]]
         /\ frames' = frames \cup (peers[n] \X {op})
    /\ head' = [head EXCEPT ![n] = @ + 1] /\ tables' = tables \cup {n}
    /\ order' = [order EXCEPT ![n] = "write"]
    /\ UNCHANGED <<up, pos, failed, gate, peers, hold, nextHold, serve, boot, check>>

\* One statement of the replication stream applied in autocommit, its position
\* in the same unit; inserting a row that is there fails and changes nothing.
Fails(n, op) == op \in Insert /\ data[n][op] > 0
Apply(n, op) ==
    /\ data' = [data EXCEPT ![n][op] = IF Fails(n, op) \/ @ = 2 THEN @ ELSE @ + 1]
    /\ pos' = [pos EXCEPT ![n][op[1]] = IF Fails(n, op) \/ @ >= op[2] THEN @ ELSE op[2]]
    /\ UNCHANGED head

Answer(t, op, ok) ==
    /\ frames' = frames \ {<<t, op>>}
    /\ waiting' = [waiting EXCEPT ![op[1]] = IF cur[op[1]] = op THEN @ \ {t} ELSE @]
    /\ failed' = IF ok THEN failed ELSE failed \cup {op}
    /\ UNCHANGED cur

\* REQ_SQL_SEQ at the joiner while its gate is open: queue and acknowledge, or
\* refuse when the window is saturated.
Enqueue(op) ==
    /\ <<Joiner, op>> \in frames /\ Joiner \in up /\ open
    /\ IF Len(queue) >= Cap
       THEN Answer(Joiner, op, FALSE) /\ UNCHANGED gate
       ELSE /\ Answer(Joiner, op, TRUE)
            /\ queue' = Append(queue, op) /\ acked' = acked \cup {op}
            /\ UNCHANGED <<open, failures>>
    /\ UNCHANGED <<cluster, engine, freeze, serve, boot, check>>

\* REQ_SQL_SEQ applied directly: skipped when the position covers it, else
\* under the receiver's own write_order.
Receive(t, op) ==
    /\ <<t, op>> \in frames /\ t \in up /\ (t = Joiner => ~open)
    /\ IF pos[t][op[1]] >= op[2]
       THEN Answer(t, op, TRUE) /\ UNCHANGED engine
       ELSE /\ order[t] = "free" /\ Apply(t, op) /\ UNCHANGED tables
            /\ Answer(t, op, ~Fails(t, op))
    /\ UNCHANGED <<cluster, gate, freeze, serve, boot, check>>

\* The receiver cannot answer before the origin's I/O budget runs out: it is
\* down, or its own write path is held.
Blocked(t, op) == t \notin up \/ (order[t] # "free" /\ (t = Joiner => ~open))

\* A leg fails: the frame is lost, or its handler is still waiting and will
\* apply it later.
LegTimeout(n, t) ==
    /\ n \in up /\ t \in waiting[n]
    /\ IF Blocked(t, cur[n]) THEN UNCHANGED events ELSE Event
    /\ \/ frames' = frames \ {<<t, cur[n]>>}
       \/ t \in up /\ UNCHANGED frames
    /\ waiting' = [waiting EXCEPT ![n] = @ \ {t}] /\ failed' = failed \cup {cur[n]}
    /\ UNCHANGED <<up, engine, cur, gate, freeze, serve, boot, check>>

FinishWrite(n) ==
    /\ n \in up /\ order[n] = "write" /\ waiting[n] = {}
    /\ order' = [order EXCEPT ![n] = "free"] /\ cur' = [cur EXCEPT ![n] = <<>>]
    /\ UNCHANGED <<cluster, engine, waiting, frames, failed, gate, peers, hold, nextHold, serve, boot, check>>

-----------------------------------------------------------------------------
(* The serving side: handle_sync, handle_hold, handle_release              *)

Goto(n, to) == serve' = [serve EXCEPT ![n].pc = to]

\* Mutant: the entry is removed but the guard is kept.
UnholdKeepsOrder(t) == hold' = [hold EXCEPT ![t] = 0] /\ UNCHANGED order

Unhold(t) ==
    /\ hold' = [hold EXCEPT ![t] = 0] /\ order' = [order EXCEPT ![t] = "free"]

\* The joiner learns that its request failed and goes on to the next peer.
NextPeer == jpc' = "probe" /\ idx' = idx + 1 /\ dump' = <<>> /\ UNCHANGED <<heads, round, saw>>
Refused(n) == IF jpc = "wait" /\ Order[idx] = n THEN NextPeer ELSE UNCHANGED boot

\* The write path, or a busy answer when it does not come free in time.
TakeOrder(n) ==
    /\ n \in up /\ serve[n].pc = "start"
    /\ \/ /\ order[n] = "free" /\ order' = [order EXCEPT ![n] = "serve"]
          /\ Goto(n, "sweep") /\ UNCHANGED boot
       \/ /\ order[n] # "free" /\ serve' = [serve EXCEPT ![n] = Idle]
          /\ Refused(n) /\ UNCHANGED order
    /\ UNCHANGED <<cluster, engine, fanout, gate, peers, hold, nextHold, check>>

\* Holds the joiner still owns anywhere are dropped, then every peer is asked.
Sweep(n) ==
    /\ n \in up /\ serve[n].pc = "sweep"
    /\ hold' = [t \in Node |-> IF t \in peers[n] \cap up THEN 0 ELSE hold[t]]
    /\ order' = [t \in Node |-> IF t \in peers[n] \cap up /\ hold[t] # 0 THEN "free" ELSE order[t]]
    /\ serve' = [serve EXCEPT ![n] = [Idle EXCEPT !.pc = "hold", !.asked = peers[n]]]
    /\ UNCHANGED <<cluster, engine, fanout, gate, peers, nextHold, boot, check>>

\* Mutant: the joiner is not registered while the peer is frozen.
HoldUnregistered(n, t) ==
    /\ n \in up /\ serve[n].pc = "hold" /\ t \in serve[n].asked /\ t \in up
    /\ order[t] = "free" /\ order' = [order EXCEPT ![t] = "hold"]
    /\ hold' = [hold EXCEPT ![t] = nextHold] /\ nextHold' = (nextHold % HoldIds) + 1
    /\ serve' = [serve EXCEPT ![n].asked = @ \ {t}, ![n].held = @ \cup {<<t, nextHold>>}]
    /\ UNCHANGED <<cluster, engine, fanout, gate, peers, boot, check>>

\* handle_hold: the peer freezes and registers the joiner.  The answer may be
\* lost, which the server takes for a busy peer.
HoldGranted(n, t) ==
    /\ n \in up /\ serve[n].pc = "hold" /\ t \in serve[n].asked /\ t \in up
    /\ order[t] = "free" /\ order' = [order EXCEPT ![t] = "hold"]
    /\ hold' = [hold EXCEPT ![t] = nextHold] /\ nextHold' = (nextHold % HoldIds) + 1
    /\ peers' = [peers EXCEPT ![t] = @ \cup ({Joiner} \ {t})]
    /\ \/ /\ serve' = [serve EXCEPT ![n].asked = @ \ {t}, ![n].held = @ \cup {<<t, nextHold>>}]
          /\ UNCHANGED events
       \/ /\ serve' = [serve EXCEPT ![n].asked = @ \ {t}, ![n].busy = TRUE]
          /\ Event
    /\ passed' = {o \in passed : o[1] # t}
    /\ UNCHANGED <<up, engine, fanout, gate, boot, seeded, local, agree>>

\* Mutant: a peer that is down counts as busy.
DownIsBusy(n, t) ==
    /\ n \in up /\ serve[n].pc = "hold" /\ t \in serve[n].asked
    /\ t \notin up \/ order[t] # "free"
    /\ serve' = [serve EXCEPT ![n].asked = @ \ {t}, ![n].busy = TRUE]
    /\ UNCHANGED <<cluster, engine, fanout, gate, freeze, boot, check>>

\* A live peer that cannot freeze in time is busy; one that is down is left out.
HoldRefused(n, t) ==
    /\ n \in up /\ serve[n].pc = "hold" /\ t \in serve[n].asked
    /\ t \notin up \/ order[t] # "free"
    /\ serve' = [serve EXCEPT ![n].asked = @ \ {t}, ![n].busy = @ \/ t \in up]
    /\ UNCHANGED <<cluster, engine, fanout, gate, freeze, boot, check>>

\* hold_peer cannot connect to a live peer (the dial, the hello or the write of
\* the request fails): it is taken for down and left out, neither frozen nor told
\* of the joiner.
HoldSkipped(n, t) ==
    /\ n \in up /\ serve[n].pc = "hold" /\ t \in serve[n].asked /\ t \in up /\ Event
    /\ serve' = [serve EXCEPT ![n].asked = @ \ {t}]
    /\ passed' = passed \cup {o \in Op : o[1] = t /\ (o = cur[t] \/ (o[2] > head[t] /\ Joiner \notin peers[t]))}
    /\ UNCHANGED <<up, engine, fanout, gate, freeze, boot, seeded, local, agree>>

\* With every hold answered: capture the dump and register the joiner, or
\* give the attempt up.
Capture(n) ==
    /\ n \in up /\ serve[n].pc = "hold" /\ serve[n].asked = {}
    /\ IF serve[n].busy
       THEN Goto(n, "abort") /\ UNCHANGED peers
       ELSE /\ serve' = [serve EXCEPT ![n].pc = "release", ![n].dump = data[n]]
            /\ peers' = [peers EXCEPT ![n] = @ \cup {Joiner}]
    /\ UNCHANGED <<cluster, engine, fanout, gate, order, hold, nextHold, boot, check>>

\* handle_release of one hold; it may be lost, and then the watchdog ends it.
Release(n, h) ==
    /\ n \in up /\ serve[n].pc \in {"release", "abort"} /\ h \in serve[n].held
    /\ \/ /\ IF h[1] \in up /\ hold[h[1]] = h[2] THEN Unhold(h[1]) ELSE UNCHANGED <<hold, order>>
          /\ UNCHANGED events
       \/ Event /\ UNCHANGED <<hold, order>>
    /\ serve' = [serve EXCEPT ![n].held = @ \ {h}]
    /\ UNCHANGED <<up, engine, fanout, gate, peers, nextHold, boot, check>>

\* The write path is dropped and the dump streamed, or the error sent.
EndServe(n) ==
    /\ n \in up /\ serve[n].pc \in {"release", "abort"} /\ serve[n].held = {}
    /\ order' = [order EXCEPT ![n] = "free"] /\ serve' = [serve EXCEPT ![n] = Idle]
    /\ IF serve[n].pc = "release" /\ jpc = "wait" /\ Order[idx] = n
       THEN jpc' = "apply" /\ dump' = serve[n].dump /\ UNCHANGED <<idx, heads, round, saw>>
       ELSE Refused(n)
    /\ UNCHANGED <<cluster, engine, fanout, gate, peers, hold, nextHold, check>>

\* SYNC_HOLD_MAX elapsed since the hold was armed.
HoldExpires(t) ==
    /\ t \in up /\ hold[t] # 0 /\ Unhold(t)
    /\ UNCHANGED <<cluster, engine, fanout, gate, peers, nextHold, serve, boot, check>>

-----------------------------------------------------------------------------
(* The joining side: bootstrap_sync                                        *)

\* probe_peer_info of the next peer, then REQ_SYNC to it when it holds data.
ProbeAndAsk ==
    /\ jpc = "probe" /\ idx <= Len(Order)
    /\ LET p == Order[idx] IN
         IF p \in up
         THEN /\ heads' = [heads EXCEPT ![p] = head[p]]
              /\ serve[p].pc = "idle" /\ serve' = [serve EXCEPT ![p].pc = "start"]
              /\ jpc' = "wait" /\ saw' = TRUE /\ UNCHANGED <<idx, dump, round>>
         ELSE NextPeer /\ UNCHANGED serve
    /\ UNCHANGED <<cluster, engine, fanout, gate, freeze, check>>

\* The end of a round in which no transfer succeeded.  After SYNC_ROUNDS of
\* them: local data ends the join, data seen elsewhere starts over, and with
\* no peer ever seen the node serves fresh.
NextRound ==
    /\ jpc = "probe" /\ idx > Len(Order)
    /\ \/ round < SyncRounds /\ round' = round + 1 /\ UNCHANGED <<jpc, order>>
       \/ /\ round >= SyncRounds /\ saw /\ Joiner \notin tables
          /\ round' = 1 /\ UNCHANGED <<jpc, order>>
       \/ /\ round >= SyncRounds /\ (saw => Joiner \in tables) /\ order[Joiner] = "free"
          /\ jpc' = "localdata" /\ order' = [order EXCEPT ![Joiner] = "drain"] /\ UNCHANGED round
    /\ idx' = 1 /\ heads' = [n \in Node |-> NoPos] /\ UNCHANGED <<dump, saw>>
    /\ UNCHANGED <<cluster, engine, fanout, gate, peers, hold, nextHold, serve, check>>

\* The stream stalls past IO_TIMEOUT, or its server is gone; the server side
\* carries on without the joiner.
SyncFails ==
    /\ jpc = "wait" /\ IF Order[idx] \in up THEN Event ELSE UNCHANGED events
    /\ NextPeer /\ UNCHANGED <<up, engine, fanout, gate, freeze, serve, check>>

\* apply_sync under the write path: local data ends the join, otherwise the
\* dump replays in one transaction and the probe round's heads are seeded.
ApplyDump ==
    /\ jpc = "apply" /\ order[Joiner] = "free"
    /\ order' = [order EXCEPT ![Joiner] = "drain"]
    /\ IF Joiner \in tables
       THEN UNCHANGED engine /\ jpc' = "localdata" /\ dump' = <<>>
       ELSE /\ data' = [data EXCEPT ![Joiner] = dump] /\ tables' = tables \cup {Joiner}
            /\ pos' = [pos EXCEPT ![Joiner] =
                         [m \in Node |-> IF heads[m] > 0 /\ heads[m] > @[m] THEN heads[m] ELSE @[m]]]
            /\ jpc' = "drain" /\ UNCHANGED <<head, dump>>
    /\ UNCHANGED <<cluster, fanout, gate, peers, hold, nextHold, serve, idx, heads, round, saw, check>>

ReplayFails ==
    /\ jpc = "apply" /\ Event /\ NextPeer
    /\ UNCHANGED <<up, engine, fanout, gate, freeze, serve, check>>

\* drain_inner: the front entry is skipped when its position covers it, else
\* replayed (and counted when it fails), and popped afterwards.
DrainOne ==
    /\ jpc \in {"drain", "localdata", "watchdog"} /\ queue # <<>>
    /\ LET op == Head(queue) IN
         IF pos[Joiner][op[1]] >= op[2]
         THEN UNCHANGED <<engine, failures>>
         ELSE /\ Apply(Joiner, op) /\ UNCHANGED tables
              /\ failures' = IF Fails(Joiner, op) THEN failures + 1 ELSE failures
    /\ queue' = Tail(queue)
    /\ UNCHANGED <<cluster, fanout, open, acked, freeze, serve, boot, check>>

\* Only an empty queue closes the gate, and the write path is dropped after.
DrainEnd ==
    /\ jpc \in {"drain", "localdata", "watchdog"} /\ queue = <<>>
    /\ open' = FALSE /\ order' = [order EXCEPT ![Joiner] = "free"]
    /\ jpc' = IF jpc = "drain" /\ failures = 0 THEN "seed"
              ELSE IF jpc = "drain" THEN "verify" ELSE "done"
    /\ idx' = 1 /\ UNCHANGED <<heads, dump, round, saw, queue, failures, acked>>
    /\ UNCHANGED <<cluster, engine, fanout, peers, hold, nextHold, serve, check>>

\* seed_fresh_positions: every peer's journal head as of now, never lower.
SeedFresh ==
    /\ jpc = "seed" /\ idx <= Len(Order)
    /\ LET p == Order[idx] IN
         /\ pos' = IF p \in up /\ head[p] > pos[Joiner][p]
                   THEN [pos EXCEPT ![Joiner][p] = head[p]] ELSE pos
         /\ seeded' = IF p \in up THEN seeded \cup {o \in Op : o[1] = p /\ o[2] <= head[p] /\ data[Joiner][o] = 0}
                      ELSE seeded
    /\ IF idx < Len(Order) THEN idx' = idx + 1 /\ UNCHANGED jpc ELSE idx' = 1 /\ jpc' = "verify"
    /\ UNCHANGED <<cluster, data, head, tables, fanout, gate, freeze, serve, heads, dump, round, saw, passed, local, agree>>

\* verify_join_convergence: the joiner's digest, then each reachable peer's,
\* taken under that peer's write path (a busy peer counts as unreachable).
Verify ==
    /\ jpc = "verify" /\ local = <<>>
    /\ local' = data[Joiner] /\ UNCHANGED <<seeded, passed, agree>>
    /\ UNCHANGED <<cluster, engine, fanout, gate, freeze, serve, boot>>
VerifyPeer ==
    /\ jpc = "verify" /\ local # <<>> /\ idx <= Len(Order)
    /\ LET p == Order[idx] IN
         agree' = IF p \in up /\ order[p] = "free" THEN agree \cup {data[p] = local} ELSE agree
    /\ idx' = idx + 1 /\ UNCHANGED <<jpc, heads, dump, round, saw, seeded, passed, local>>
    /\ UNCHANGED <<cluster, engine, fanout, gate, freeze, serve>>
Verdict ==
    /\ jpc = "verify" /\ idx > Len(Order)
    /\ jpc' = IF agree = {FALSE} THEN "repair" ELSE "done"
    /\ UNCHANGED <<idx, heads, dump, round, saw, check, cluster, engine, fanout, gate, freeze, serve>>

\* The bootstrap task dies with the gate open, dropping the write path it held;
\* its watchdog drains the queue in its place.
TaskDies ==
    /\ open /\ jpc \notin {"orphan", "watchdog"} /\ Event /\ jpc' = "orphan" /\ dump' = <<>>
    /\ order' = [order EXCEPT ![Joiner] = IF @ = "drain" THEN "free" ELSE @]
    /\ UNCHANGED <<up, engine, fanout, gate, peers, hold, nextHold, serve, check,
                   idx, heads, round, saw>>
WatchdogDrains ==
    /\ jpc = "orphan" /\ order[Joiner] = "free" /\ jpc' = "watchdog"
    /\ order' = [order EXCEPT ![Joiner] = "drain"]
    /\ UNCHANGED <<cluster, engine, fanout, gate, peers, hold, nextHold, serve, check,
                   idx, heads, dump, round, saw>>

\* Mutant: the discarded writes are not counted.
HardCloseSilent ==
    /\ jpc \in {"orphan", "watchdog"} /\ open
    /\ open' = FALSE /\ queue' = <<>> /\ UNCHANGED <<failures, acked>>
    /\ order' = [order EXCEPT ![Joiner] = IF @ = "drain" THEN "free" ELSE @]
    /\ jpc' = "done"
    /\ UNCHANGED <<cluster, engine, fanout, peers, hold, nextHold, serve, check, idx, heads, dump, round, saw>>

\* SYNC_WATCHDOG_GRACE elapsed: the gate closes over what is still queued.
HardClose ==
    /\ jpc \in {"orphan", "watchdog"} /\ open
    /\ open' = FALSE /\ queue' = <<>> /\ failures' = failures + Len(queue) /\ UNCHANGED acked
    /\ order' = [order EXCEPT ![Joiner] = IF @ = "drain" THEN "free" ELSE @]
    /\ jpc' = "done"
    /\ UNCHANGED <<cluster, engine, fanout, peers, hold, nextHold, serve, check, idx, heads, dump, round, saw>>

\* A server crashes for good: its frames are on the wire or lost with it.
Crash(n) ==
    /\ n \in Server \cap up /\ Event /\ up' = up \ {n}
    /\ serve' = [serve EXCEPT ![n] = Idle]
    /\ waiting' = [waiting EXCEPT ![n] = {}]
    /\ failed' = IF waiting[n] = {} THEN failed ELSE failed \cup {cur[n]}
    /\ UNCHANGED <<engine, cur, frames, gate, freeze, boot, check>>

-----------------------------------------------------------------------------
Fan == \E n \in Node :
    \/ Write(n) \/ FinishWrite(n)
    \/ \E t \in Node : LegTimeout(n, t)
    \/ \E op \in Op : Receive(n, op)
Serving == \E n \in Server :
    \/ TakeOrder(n) \/ Sweep(n) \/ Capture(n) \/ EndServe(n)
    \/ \E t \in Node : HoldGranted(n, t) \/ HoldRefused(n, t) \/ HoldSkipped(n, t)
    \/ \E h \in serve[n].held : Release(n, h)
Joining ==
    \/ ProbeAndAsk \/ NextRound \/ SyncFails \/ ApplyDump \/ ReplayFails
    \/ DrainOne \/ DrainEnd \/ SeedFresh \/ Verify \/ VerifyPeer \/ Verdict
    \/ TaskDies \/ WatchdogDrains \/ HardClose
Next ==
    \/ Fan \/ Serving \/ Joining
    \/ \E op \in Op : Enqueue(op)
    \/ \E t \in Node : HoldExpires(t)
    \/ \E n \in Server : Crash(n)

Spec == Init /\ [][Next]_vars

\* The write path is a first-come mutex, so a replicated write that waits for
\* it gets it; every task and every watchdog runs; clients need not write.
Fairness ==
    /\ \A t \in Node : SF_vars(\E op \in Op : Receive(t, op)) /\ WF_vars(HoldExpires(t))
    /\ \A n \in Node : WF_vars(FinishWrite(n)) /\ WF_vars(\E t \in Node : LegTimeout(n, t))
    /\ WF_vars(\E op \in Op : Enqueue(op)) /\ WF_vars(Serving) /\ WF_vars(Joining)
FairSpec == Spec /\ Fairness

-----------------------------------------------------------------------------
TypeOK ==
    /\ up \subseteq Node /\ events \in 0..MaxEvents
    /\ data \in [Node -> [Op -> 0..2]] /\ head \in [Node -> 0..3]
    /\ pos \in [Node -> [Node -> {NoPos} \cup (0..3)]]
    /\ order \in [Node -> {"free", "write", "serve", "hold", "drain"}]
    /\ \A n \in Node : (hold[n] # 0) <=> (order[n] = "hold")
    /\ frames \subseteq Node \X Op /\ failed \subseteq Op
    /\ jpc \in {"probe", "wait", "apply", "drain", "localdata", "seed", "verify", "repair",
                "orphan", "watchdog", "done"}

Committed == {o \in Op : o[2] <= head[o[1]]}

Served == jpc \in {"seed", "verify", "done"} /\ dump # <<>> /\ ~open

\* A write that reached every node its origin fanned it out to is in the
\* joiner's database once the joiner serves: in the dump, through the gate's
\* queue, or applied directly (the contract of handle_sync's step order).  It is
\* not so for the writes of a live peer that the server could not connect to:
\* handle_sync goes on without freezing it, and what that peer is fanning out then
\* or, unless it knows the joiner already, commits later may never reach the joiner.
JoinComplete ==
    Served => \A o \in Committed \ (failed \cup seeded \cup passed) :
                  data[Joiner][o] > 0 \/ <<Joiner, o>> \in frames

\* A write the gate acknowledged is never lost: it waits in the queue, is in
\* the joiner's database, or was counted in replay_failures.  (A write another
\* node missed may be, and so may one its origin was still fanning out when a join
\* went ahead without freezing it: the snapshot does not hold it although the seeded
\* head covers it.)
AckedLands ==
    \A o \in acked \ (failed \cup passed) :
        \/ \E i \in 1..Len(queue) : queue[i] = o
        \/ data[Joiner][o] > 0 \/ failures > 0

\* The joiner's startup always concludes, whatever its peers are doing: mutual
\* holds, blocked fan-outs, a crashed server and a dead bootstrap task included
\* (a node that saw data elsewhere waits for it while every holder is down).
JoinEnds == <>(jpc \in {"done", "repair"} \/ up = {Joiner})
=============================================================================
