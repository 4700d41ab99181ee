------------------------------- MODULE PubSub -------------------------------
(***************************************************************************)
(* Persistent publish/subscribe on one node: PUBLISH stores a message and  *)
(* then pushes it to the live subscriptions; SUBSCRIBE registers with live *)
(* pushes suppressed, replays the stored backlog without the registry lock *)
(* and arms its live filter when it has caught up.                         *)
(*                                                                         *)
(* Messages are their autoincrement ids.  The store and the autoincrement  *)
(* counter are behind the engine lock, the registry behind its own lock;   *)
(* writers to the store are serialised by write_order, which a PUBLISH     *)
(* holds until it has notified.  A frame in a connection's writer channel  *)
(* carries the name subscribed and the id, 0 for a confirmation.           *)
(***************************************************************************)
EXTENDS Integers, Sequences, SequencesExt, FiniteSetsExt

CONSTANTS
    Conn,            \* client connections
    Channel, Pattern,
    Covers,          \* the channels each pattern matches
    Limits           \* the sizes and bounds a behaviour may run with

Name == Channel \cup Pattern
Off == -1                  \* not subscribed

ASSUME PubSubAssumption ==
    /\ IsFiniteSet(Conn) /\ IsFiniteSet(Name) /\ Off \notin Name
    /\ Channel \cap Pattern = {} /\ Covers \in [Pattern -> SUBSET Channel]
    /\ Limits \subseteq [conns : SUBSET Conn, channels : SUBSET Channel, names : SUBSET Name,
                         depth : Nat \ {0}, chunk : Nat \ {0}, keeps : SUBSET (Nat \ {0}), perConn : Nat,
                         total : Nat, id : Nat, subs : Nat, trims : Nat, errs : Nat]

Latest == -1               \* SUBSCRIBE ... from latest

VARIABLES
    published,       \* the channel of every message ever stored, by id
    stored,          \* ids still in the store
    order, owed,     \* who holds write_order; stored messages it has yet to notify
    skip,            \* Sub::skip_through of every registered subscription
    counts, total,   \* Inner::counts and Inner::total
    sock,            \* "open"; "closed": its writer task ended; "gone": removed
    buf,             \* the writer channel of every connection
    hpc, hname, watermark, cursor, progress, chunk,   \* the subscribe handler
    subs, trims, errs,      \* counted against the bounds
    limits,          \* the member of Limits this server runs with
    (* specification only *)
    got,             \* ids received in the current subscription
    start,           \* id after which the current subscription delivers
    excused,         \* ids dropped for a full channel or an interrupted replay
    failed           \* ids whose PUBLISH returned an error

storev == <<published, stored, order, owed>>
registry == <<skip, counts, total>>
handler == <<hpc, hname, watermark, cursor, progress, chunk>>
client == <<sock, buf, got>>
bounds == <<subs, trims, errs, limits>>
session == <<start, excused, failed>>
vars == <<storev, registry, handler, client, bounds, session>>

Depth == limits.depth              \* capacity of a connection's writer channel
Chunk == limits.chunk              \* REPLAY_CHUNK_ROWS
Keeps == limits.keeps              \* retention depths keep_rows_for yields
MaxPerConn == limits.perConn       \* MAX_SUBS_PER_CONN
MaxTotal == limits.total           \* MAX_SUBS_TOTAL
MaxId == limits.id                 \* bound on messages
Suppressed == MaxId + 1            \* skip_through = i64::MAX

MaxInserted == Len(published)      \* query_max_id: the autoincrement counter
Hits(n, ch) == n = ch \/ (n \in Pattern /\ ch \in Covers[n])
Held(c) == {n \in Name : skip[c][n] # Off}

PerSub(v) == [c \in Conn |-> [n \in Name |-> v]]

Init ==
    /\ published = <<>> /\ stored = {} /\ order = "free" /\ owed = <<>>
    /\ skip = PerSub(Off) /\ counts = [c \in Conn |-> 0] /\ total = 0
    /\ sock = [c \in Conn |-> "open"] /\ buf = [c \in Conn |-> <<>>]
    /\ hpc = [c \in Conn |-> "idle"] /\ hname = [c \in Conn |-> Off]
    /\ watermark = [c \in Conn |-> 0] /\ cursor = watermark /\ progress = watermark
    /\ chunk = [c \in Conn |-> {}]
    /\ subs = 0 /\ trims = 0 /\ errs = 0 /\ limits \in Limits
    /\ got = PerSub(<<>>) /\ start = PerSub(0) /\ excused = PerSub({}) /\ failed = {}

-----------------------------------------------------------------------------
(* Publishing                                                              *)

\* store_insert under the engine lock: the next id, then everything below
\* the retention depth is deleted.
Insert(ch, keep) ==
    /\ MaxInserted < MaxId
    /\ published' = Append(published, ch)
    /\ stored' = {i \in stored \cup {MaxInserted + 1} : i > MaxInserted + 1 - keep}

\* PUBLISH up to the registry lock.
Publish(ch) ==
    /\ order = "free" /\ order' = "publish"
    /\ \E keep \in Keeps : Insert(ch, keep)
    /\ owed' = <<MaxInserted + 1>>
    /\ UNCHANGED <<registry, handler, client, bounds, session>>

\* The retention delete or the fsync fails: the publisher gets an error and
\* nobody is notified, but the row is stored.
PublishErrs(ch) ==
    /\ order = "free" /\ errs < limits.errs /\ errs' = errs + 1
    /\ Insert(ch, MaxId)
    /\ failed' = failed \cup {MaxInserted + 1}
    /\ UNCHANGED <<order, owed, registry, handler, client, subs, trims, limits, start,
                   excused>>

\* The drain of a sync gate replays queued publishes, without retention, and
\* then notifies them in order before it gives up write_order.
DrainInsert(ch) ==
    /\ order \in {"free", "drain"} /\ order' = "drain"
    /\ Insert(ch, MaxId) /\ owed' = Append(owed, MaxInserted + 1)
    /\ UNCHANGED <<registry, handler, client, bounds, session>>

Frame(n, id) == [name |-> n, id |-> id, current |-> TRUE]
Dead == {c \in Conn : sock[c] # "open"}

\* The subscriptions of c that message id is pushed to.
Targets(c, id) == {n \in Held(c) : Hits(n, published[id]) /\ id > skip[c][n]}

\* Which of them are served: none of a dead connection, else as many as find
\* room, the exact subscription first and the patterns in any order.
Served(c, id) ==
    LET room == IF c \in Dead THEN 0 ELSE Depth - Len(buf[c]) IN
    {ns \in SUBSET Targets(c, id) :
        /\ Cardinality(ns) = Min({room, Cardinality(Targets(c, id))})
        /\ ns # {} /\ published[id] \in Targets(c, id) => published[id] \in ns}

\* try_send of message id to every target; a full channel drops its copy.
Push(id) ==
    \E fit \in [Conn -> SUBSET Name] :
        /\ \A c \in Conn : fit[c] \in Served(c, id)
        /\ buf' = [c \in Conn |->
                     buf[c] \o [i \in 1 .. Cardinality(fit[c]) |-> Frame(SetToSeq(fit[c])[i], id)]]
        /\ excused' = [c \in Conn |-> [n \in Name |->
                     excused[c][n] \cup (IF n \in Targets(c, id) \ fit[c] THEN {id} ELSE {})]]

\* Subscriptions of dead connections that the push found.
Pruned(c, id) == IF c \in Dead THEN Targets(c, id) ELSE {}
Pairs(gone) == {cn \in Conn \X Name : cn[2] \in gone[cn[1]]}
Unregister(gone) ==
    skip' = [c \in Conn |-> [n \in Name |-> IF n \in gone[c] THEN Off ELSE skip[c][n]]]
Uncount(gone) ==
    /\ counts' = [c \in Conn |-> counts[c] - Cardinality(gone[c])]
    /\ total' = total - Cardinality(Pairs(gone))

Notified ==
    /\ owed' = Tail(owed) /\ order' = IF Len(owed) = 1 THEN "free" ELSE "flush"
    /\ UNCHANGED <<published, stored, handler, sock, got, bounds, start, failed>>

\* Mutant: subscriptions of a dead connection are pruned but stay counted.
NotifyForgetsCounts ==
    /\ owed # <<>> /\ Push(Head(owed)) /\ Notified
    /\ Unregister([c \in Conn |-> Pruned(c, Head(owed))]) /\ UNCHANGED <<counts, total>>

\* notify under the registry lock: push the oldest message owed and prune
\* the subscriptions whose connection is dead.
Notify ==
    /\ owed # <<>> /\ Push(Head(owed)) /\ Notified
    /\ Unregister([c \in Conn |-> Pruned(c, Head(owed))])
    /\ Uncount([c \in Conn |-> Pruned(c, Head(owed))])

\* PUBSUB TRIM keeps the newest messages of a channel (at least one).
Trim(ch, keep) ==
    /\ order = "free" /\ trims < limits.trims /\ trims' = trims + 1
    /\ LET mine == {i \in stored : published[i] = ch}
       IN  stored' = {i \in stored : i \in mine => Cardinality({j \in mine : j > i}) < keep}
    /\ UNCHANGED <<published, order, owed, registry, handler, client, subs, errs, limits,
                   session>>

-----------------------------------------------------------------------------
(* The subscribe handler; a connection's requests run one after the other  *)

Goto(c, to) == hpc' = [hpc EXCEPT ![c] = to]

\* The frames of an earlier subscription of c to one of ns are not current.
Retag(c, ns) ==
    [i \in DOMAIN buf[c] |-> [buf[c][i] EXCEPT !.current = @ /\ buf[c][i].name \notin ns]]

\* Mutant: the limits are off by one.
AdmittedOneMore(c, n) == n \in Held(c) \/ (counts[c] <= MaxPerConn /\ total <= MaxTotal)

\* register: whether the limits admit the subscription; replacing one is free.
Admitted(c, n) == n \in Held(c) \/ (counts[c] < MaxPerConn /\ total < MaxTotal)

\* Inner::register's counters.
Count(c, n) ==
    IF n \in Held(c) THEN UNCHANGED <<counts, total>>
    ELSE counts' = [counts EXCEPT ![c] = @ + 1] /\ total' = total + 1

\* SUBSCRIBE under the registry lock: register with everything suppressed,
\* sample the watermark, try_send the confirmation.
Subscribe(c, n, from) ==
    /\ sock[c] # "gone" /\ hpc[c] = "idle" /\ subs < limits.subs /\ subs' = subs + 1
    /\ Admitted(c, n) /\ Count(c, n)
    /\ skip' = [skip EXCEPT ![c][n] = Suppressed]
    /\ hname' = [hname EXCEPT ![c] = n] /\ watermark' = [watermark EXCEPT ![c] = MaxInserted]
    /\ progress' = [progress EXCEPT ![c] = IF from = Latest THEN MaxInserted ELSE from]
    /\ cursor' = [cursor EXCEPT ![c] = progress'[c]] /\ Goto(c, "replay")
    /\ buf' = [buf EXCEPT ![c] = IF sock[c] = "open" /\ Len(@) < Depth
                                 THEN Append(Retag(c, {n}), Frame(n, 0)) ELSE Retag(c, {n})]
    /\ got' = [got EXCEPT ![c][n] = <<>>] /\ start' = [start EXCEPT ![c][n] = progress'[c]]
    /\ excused' = [excused EXCEPT ![c][n] = {}]
    /\ UNCHANGED <<storev, chunk, sock, trims, errs, limits, failed>>

Backlog(c) == {i \in stored : cursor[c] < i /\ i <= watermark[c]}

\* At most Chunk rows of the backlog; those the subscription matches are sent.
TakeWindow(c) ==
    \E k \in 1 .. Chunk :
        LET window == {i \in Backlog(c) : Cardinality({j \in Backlog(c) : j < i}) < k}
            hits == {i \in window : Hits(hname[c], published[i])}
        IN  /\ cursor' = [cursor EXCEPT ![c] = Max(window)]
            /\ chunk' = [chunk EXCEPT ![c] = hits]
            /\ Goto(c, IF hits = {} THEN "replay" ELSE "send")

\* Mutant: an empty window does not end the replay.
ReadChunkRetries(c) ==
    /\ hpc[c] = "replay" /\ cursor[c] < watermark[c]
    /\ \/ Backlog(c) = {} /\ UNCHANGED <<hpc, cursor, chunk>>
       \/ Backlog(c) # {} /\ TakeWindow(c)
    /\ UNCHANGED <<storev, registry, hname, watermark, progress, client, bounds, session>>

\* One window of the backlog under the engine lock; an empty one, its rows
\* trimmed away meanwhile, ends the replay.
ReadChunk(c) ==
    /\ hpc[c] = "replay" /\ cursor[c] < watermark[c]
    /\ \/ Backlog(c) = {} /\ Goto(c, "exhausted") /\ UNCHANGED <<cursor, chunk>>
       \/ Backlog(c) # {} /\ TakeWindow(c)
    /\ UNCHANGED <<storev, registry, hname, watermark, progress, client, bounds, session>>

\* The engine read fails: the replay stalls.
ReadFails(c) ==
    /\ hpc[c] = "replay" /\ cursor[c] < watermark[c] /\ errs < limits.errs
    /\ errs' = errs + 1 /\ Goto(c, "stalled")
    /\ UNCHANGED <<storev, registry, hname, watermark, cursor, progress, chunk, client, subs, limits,
                   trims, session>>

\* The next message of the window, in id order, once the channel has room.
SendReplay(c) ==
    /\ hpc[c] = "send" /\ sock[c] = "open" /\ Len(buf[c]) < Depth
    /\ LET id == Min(chunk[c])
       IN  /\ buf' = [buf EXCEPT ![c] = Append(@, Frame(hname[c], id))]
           /\ progress' = [progress EXCEPT ![c] = id]
           /\ chunk' = [chunk EXCEPT ![c] = @ \ {id}]
           /\ Goto(c, IF chunk[c] = {id} THEN "replay" ELSE "send")
    /\ UNCHANGED <<storev, registry, hname, watermark, cursor, sock, got, bounds, session>>

\* The connection is gone or frees no room in time.
SendFails(c) ==
    /\ hpc[c] = "send" /\ (sock[c] # "open" \/ Len(buf[c]) = Depth)
    /\ chunk' = [chunk EXCEPT ![c] = {}] /\ Goto(c, "stalled")
    /\ UNCHANGED <<storev, registry, hname, watermark, cursor, progress, client, bounds, session>>

\* The request is over and its local variables are gone.
Return(c) ==
    /\ Goto(c, "idle") /\ hname' = [hname EXCEPT ![c] = Off]
    /\ watermark' = [watermark EXCEPT ![c] = 0] /\ cursor' = [cursor EXCEPT ![c] = 0]
    /\ progress' = [progress EXCEPT ![c] = 0]

\* arm_filter, which does nothing for a subscription that is gone.
ArmFilter(c, id) ==
    skip' = [skip EXCEPT ![c][hname[c]] = IF @ = Off THEN Off ELSE id]

\* A stalled or exhausted replay opens live delivery above the last id sent.
ArmProgress(c) ==
    /\ hpc[c] \in {"stalled", "exhausted"} /\ ArmFilter(c, progress[c]) /\ Return(c)
    /\ excused' = [excused EXCEPT ![c][hname[c]] =
                     @ \cup (IF hpc[c] = "stalled" THEN progress[c] + 1 .. MaxInserted ELSE {})]
    /\ UNCHANGED <<storev, counts, total, chunk, client, bounds, start, failed>>

\* Mutant: every round arms the filter at what has been replayed so far.
ResampleArms(c) ==
    /\ hpc[c] = "replay" /\ cursor[c] >= watermark[c]
    /\ watermark' = [watermark EXCEPT ![c] = MaxInserted] /\ ArmFilter(c, cursor[c])
    /\ Goto(c, IF cursor[c] >= MaxInserted THEN "exit" ELSE "replay")
    /\ UNCHANGED <<storev, counts, total, hname, cursor, progress, chunk, client, bounds, session>>

\* A round is complete: sample the next bound under the engine lock.
Resample(c) ==
    /\ hpc[c] = "replay" /\ cursor[c] >= watermark[c]
    /\ watermark' = [watermark EXCEPT ![c] = MaxInserted]
    /\ Goto(c, IF cursor[c] >= MaxInserted THEN "exit" ELSE "replay")
    /\ UNCHANGED <<storev, registry, hname, cursor, progress, chunk, client, bounds, session>>

\* Mutant: the filter is armed at the bound sampled before the lock.
ExitUnsampled(c) ==
    /\ hpc[c] = "exit" /\ ArmFilter(c, watermark[c]) /\ Return(c)
    /\ UNCHANGED <<storev, counts, total, chunk, client, bounds, session>>

\* Caught up: sample once more inside the registry lock and arm, or go on.
Exit(c) ==
    /\ hpc[c] = "exit"
    /\ IF cursor[c] >= MaxInserted
       THEN ArmFilter(c, MaxInserted) /\ Return(c)
       ELSE /\ watermark' = [watermark EXCEPT ![c] = MaxInserted] /\ Goto(c, "replay")
            /\ UNCHANGED <<skip, hname, cursor, progress>>
    /\ UNCHANGED <<storev, counts, total, chunk, client, bounds, session>>

-----------------------------------------------------------------------------
(* Unsubscribing and connections                                           *)

EndSession(c, ns) ==
    /\ buf' = [buf EXCEPT ![c] = Retag(c, ns)]
    /\ got' = [got EXCEPT ![c] = [n \in Name |-> IF n \in ns THEN <<>> ELSE got[c][n]]]
    /\ start' = [start EXCEPT ![c] = [n \in Name |-> IF n \in ns THEN 0 ELSE start[c][n]]]
    /\ excused' = [excused EXCEPT ![c] = [n \in Name |-> IF n \in ns THEN {} ELSE excused[c][n]]]

\* UNSUBSCRIBE or PUNSUBSCRIBE of the names ns.
Unsubscribe(c, ns) ==
    /\ sock[c] # "gone" /\ hpc[c] = "idle"
    /\ Unregister([d \in Conn |-> IF d = c THEN ns ELSE {}])
    /\ Uncount([d \in Conn |-> IF d = c THEN ns \cap Held(c) ELSE {}])
    /\ EndSession(c, ns) /\ UNCHANGED <<storev, handler, sock, bounds, failed>>

\* The writer task sends the oldest frame to the client.
Receive(c) ==
    /\ sock[c] = "open" /\ buf[c] # <<>>
    /\ LET f == Head(buf[c])
       IN  got' = IF f.current /\ f.id # 0 THEN [got EXCEPT ![c][f.name] = Append(@, f.id)] ELSE got
    /\ buf' = [buf EXCEPT ![c] = Tail(@)]
    /\ UNCHANGED <<storev, registry, handler, sock, bounds, session>>

\* The writer task ends with a socket error; its channel is closed.
Close(c) ==
    /\ sock[c] = "open" /\ sock' = [sock EXCEPT ![c] = "closed"]
    /\ buf' = [buf EXCEPT ![c] = <<>>]
    /\ UNCHANGED <<storev, registry, handler, got, bounds, session>>

\* The connection's task ends: remove_conn.
RemoveConn(c) ==
    /\ sock[c] = "closed" /\ hpc[c] = "idle" /\ sock' = [sock EXCEPT ![c] = "gone"]
    /\ Unregister([d \in Conn |-> IF d = c THEN Name ELSE {}])
    /\ total' = total - Cardinality(Held(c)) /\ counts' = [counts EXCEPT ![c] = 0]
    /\ UNCHANGED <<storev, handler, buf, got, bounds, session>>

Handler(c) ==
    \/ ReadChunk(c) \/ ReadFails(c) \/ SendReplay(c) \/ SendFails(c)
    \/ ArmProgress(c) \/ Resample(c) \/ Exit(c)

Next ==
    \/ \E ch \in limits.channels :
                           \/ Publish(ch) \/ PublishErrs(ch) \/ DrainInsert(ch)
                           \/ \E keep \in Keeps : Trim(ch, keep)
    \/ Notify
    \/ \E c \in limits.conns :
          \/ \E n \in limits.names, from \in Latest .. MaxInserted : Subscribe(c, n, from)
          \/ Handler(c) \/ \E ns \in (SUBSET (limits.names \cap Channel)) \cup (SUBSET (limits.names \cap Pattern)) : Unsubscribe(c, ns)
          \/ Receive(c) \/ Close(c) \/ RemoveConn(c)

Spec == Init /\ [][Next]_vars

\* A request that has started runs on; nothing obliges a client to read.
FairSpec == Spec /\ \A c \in Conn : WF_vars(Handler(c))

-----------------------------------------------------------------------------
(* Properties                                                              *)

\* Types of the store, the registry, the handlers and the connections, and
\* the limits on subscriptions.
TypeOK ==
    /\ published \in Seq(Channel) /\ stored \subseteq 1 .. MaxInserted /\ MaxInserted <= MaxId
    /\ order \in {"free", "publish", "drain", "flush"} /\ \A i \in DOMAIN owed : owed[i] <= MaxInserted
    /\ skip \in [Conn -> [Name -> Off .. Suppressed]]
    /\ counts \in [Conn -> 0 .. MaxPerConn] /\ total \in 0 .. MaxTotal
    /\ sock \in [Conn -> {"open", "closed", "gone"}] /\ \A c \in Conn : Len(buf[c]) <= Depth
    /\ hpc \in [Conn -> {"idle", "replay", "send", "stalled", "exhausted", "exit"}]
    /\ hname \in [Conn -> Name \cup {Off}] /\ \A c \in Conn : chunk[c] \subseteq 1 .. MaxInserted
    /\ watermark \in [Conn -> 0 .. MaxId] /\ cursor \in [Conn -> 0 .. MaxId]
    /\ progress \in [Conn -> 0 .. MaxId]

\* The frames in the channel of c with messages of its current subscription
\* to n.
Coming(c, n) == {i \in 1 .. Len(buf[c]) : buf[c][i].name = n /\ buf[c][i].current /\ buf[c][i].id # 0}

\* What c has been sent for its current subscription to n.
Sent(c, n) == {got[c][n][i] : i \in 1 .. Len(got[c][n])} \cup {buf[c][i].id : i \in Coming(c, n)}

\* No message is delivered twice and none out of order within a
\* subscription, however publishes interleave with its replay (the ordering
\* contract at the head of pubsub.rs).
InOrder ==
    \A c \in Conn, n \in Name :
        /\ \A i, j \in 1 .. Len(got[c][n]) : i < j => got[c][n][i] < got[c][n][j]
        /\ \A i \in 1 .. Len(got[c][n]), j \in Coming(c, n) : got[c][n][i] < buf[c][j].id
        /\ \A i, j \in Coming(c, n) : i < j => buf[c][i].id < buf[c][j].id

\* Messages a subscription should have delivered once its request is done.
Due(c, n) ==
    {i \in stored : /\ i > start[c][n] /\ Hits(n, published[i])
                    /\ i \notin failed /\ \A k \in 1 .. Len(owed) : i # owed[k]}
Live(c, n) == sock[c] = "open" /\ n \in Held(c) /\ hname[c] # n
Lost(c, n) == Due(c, n) \ Sent(c, n)

\* While neither TRIM nor retention has removed a row and no read has failed,
\* no message is lost between replay and live delivery, save those dropped
\* for a full channel or left out by a replay the client could not keep up
\* with (handle_subscribe's hand-off).
NoGap ==
    stored = 1 .. MaxInserted /\ errs = 0 =>
        \A c \in Conn, n \in Name : Live(c, n) => Lost(c, n) \subseteq excused[c][n]

\* Replay and live delivery meet with no duplicate, no reordering and no gap:
\* every message of a subscription is delivered in the order it was stored,
\* and none is skipped that the server has not counted as dropped.
DeliveredInOrder == InOrder /\ NoGap

\* The O(1) counters of the registry agree with it after every replacement,
\* pruning and removal, so that the limits neither leak nor lock out.
CountsExact ==
    /\ \A c \in Conn : counts[c] = Cardinality(Held(c))
    /\ total = Cardinality(Pairs([c \in Conn |-> Held(c)]))

\* Publishers pause in the end.  The catch-up of handle_subscribe needs it: it
\* ends only in a sample of the newest id that nothing was published before, and
\* chases a publisher that never leaves it one.
PublishersPause == <>[][published' = published]_published

\* Once publishers pause long enough for it to catch up, a subscribe request
\* ends, whatever the client reads and whatever was published, drained or
\* trimmed while it replayed: its handler is idle again and again.
CatchUpEnds == PublishersPause => \A c \in Conn : []<>(hpc[c] = "idle")
=============================================================================
