---------------------------- MODULE RepairProofs ----------------------------
(***************************************************************************)
(* Repairs leave no gap behind the positions they set, and what an         *)
(* adoption discarded stays away, for any peers and any number of writes,  *)
(* rounds and faults.                                                      *)
(***************************************************************************)
EXTENDS Repair, TLAPS

-----------------------------------------------------------------------------
(* The inductive invariant                                                 *)

\* A peer's write that was committed; one that waits in the sync gate's queue;
\* one that waits there or is on its way; writes the promise leaves out.
Issued(o) == o[1] \in Peer /\ o[2] <= head[o[1]]
Queued(o) == \E i \in 1..Len(queue) : queue[i] = o
Waits(o) == o \in frames \/ Queued(o)
Exempt == failed \cup seeded \cup direct

\* Shapes of databases, journals, frames and queue; a position is within its
\* peer's journal.
Shapes ==
    /\ data \in [Node -> [Op -> Nat]] /\ head \in [Node -> Nat] /\ oldest \in [Peer -> Nat]
    /\ pos \in [Peer -> Int]
    /\ \A p \in Peer : head[p] <= MaxSeq[p] /\ NoPos <= pos[p] /\ pos[p] <= head[p]
    /\ frames \subseteq Op /\ late \subseteq frames /\ queue \in Seq(Op)

\* The legs of a peer's writes end in order: of two writes on their way, or
\* one on its way and one queued, the older has failed; the queue keeps order.
Wired ==
    /\ late \subseteq failed
    /\ \A o \in frames : Issued(o)
    /\ \A i \in 1..Len(queue) : Issued(queue[i])
    /\ ~open => queue = <<>>
    /\ \A o \in frames : \A q \in frames : o[1] = q[1] /\ o[2] < q[2] => o \in failed
    /\ \A o \in frames : \A i \in 1..Len(queue) : o[1] = queue[i][1] /\ o[2] < queue[i][2] => o \in failed
    /\ \A i \in 1..Len(queue) : \A j \in 1..Len(queue) :
          i < j /\ queue[i][1] = queue[j][1] /\ queue[j][2] < queue[i][2] => queue[j] \in failed

\* What was probed, planned and pulled is within the journals, and a pull
\* starts at or before the position.
Pull == [peer : Peer, from : Nat, at : Nat, head : Nat]
Pulling ==
    /\ DOMAIN reports \subseteq Peer /\ DOMAIN infos \subseteq Peer
    /\ \A p \in DOMAIN infos : infos[p].head \in Nat /\ infos[p].head <= head[p]
    /\ pc = "pull" => \A p \in DOMAIN plan : p \in Peer /\ plan[p] \in Nat /\ plan[p] <= pos[p]
    /\ pull # None =>
          /\ pc = "pull" /\ pull \in Pull
          /\ pull.from <= pos[pull.peer] /\ pull.from <= pull.at /\ pull.at <= pull.head /\ pull.head <= head[pull.peer]
    /\ PullComplete

\* A write with no failed leg is at every peer.
Spread == \A o \in Op : Issued(o) /\ o \notin failed => \A p \in Peer : data[p][o] > 0

\* The snapshot about to be adopted came from a peer, holds what the heads
\* probed before it cover, and misses only what still waits.
Captured ==
    pc = "adopt" =>
    /\ dump \in [Op -> Nat] /\ \E p \in Peer : \A o \in Op : dump[o] > 0 => data[p][o] > 0
    /\ \A o \in Op : Issued(o) /\ o \notin Exempt => dump[o] > 0 \/ Waits(o)
    /\ \A p \in DOMAIN infos : \A o \in Op : o[1] = p /\ o[2] <= infos[p].head /\ o \notin failed => dump[o] > 0

\* After an adoption every write is applied or still waits, and those within
\* the positions are applied.
Caught ==
    adopted => \A o \in Op : o[1] \in Peer /\ o \notin Exempt =>
        /\ o[2] <= head[o[1]] => data[Me][o] > 0 \/ Waits(o)
        /\ o[2] <= pos[o[1]] => data[Me][o] > 0

\* What was discarded is voided in the node's own journal, and no pull carries it.
Gone == \A o \in discarded :
    /\ o \in Op /\ o[1] = Me /\ o \in voided
    /\ \A p \in Peer : <<p, o>> \notin carried
    /\ \A n \in Node : data[n][o] = 0

IInv == Shapes /\ Wired /\ Pulling /\ Spread /\ Captured /\ Caught /\ Gone

-----------------------------------------------------------------------------
(* Writes and what steps do to them                                        *)

\* A write is a pair of its origin and its number.
LEMMA OpIs ==
    ASSUME NEW o \in Op
    PROVE o[1] \in Node /\ o[2] \in Nat /\ 1 <= o[2] /\ o[2] <= MaxSeq[o[1]] /\ o = <<o[1], o[2]>>
<1>1. PICK n \in Node : o \in {n} \X (1..MaxSeq[n])
    BY DEF Op
<1>2. MaxSeq[n] \in Nat
    BY RepairAssumption
<1> QED
    BY <1>1, <1>2

\* The writes of a node.
LEMMA OpOf ==
    ASSUME NEW n \in Node, NEW k \in 1..MaxSeq[n]
    PROVE <<n, k>> \in Op
BY DEF Op

\* Me is not a peer, and every other node is.
LEMMA Nodes ==
    Me \in Node /\ Peer \subseteq Node /\ Me \notin Peer /\ \A n \in Node : n = Me \/ n \in Peer
BY RepairAssumption DEF Node

\* Databases after a step: nothing disappears.
Grown ==
    /\ data' \in [Node -> [Op -> Nat]]
    /\ \A n \in Node : \A o \in Op : data[n][o] > 0 => data'[n][o] > 0

\* A replayed write is in the database.
LEMMA AppliedIs ==
    ASSUME Shapes, NEW op \in Op, op[1] \in Peer, data' = Applied(op)
    PROVE /\ Grown /\ data'[Me][op] > 0
          /\ \A n \in Node : \A o \in Op : n # Me \/ o # op => data'[n][o] = data[n][o]
<1>1. data \in [Node -> [Op -> Nat]] /\ Me \in Node /\ op[1] # Me
    BY Nodes DEF Shapes
<1>2. data[Me] \in [Op -> Nat] /\ data[Me][op] \in Nat
    BY <1>1
<1> DEFINE v == IF Fails(op) \/ data[Me][op] = 2 THEN data[Me][op] ELSE data[Me][op] + 1
<1>3. v \in Nat /\ v > 0
    BY <1>2 DEF Fails
<1>4. data' = [data EXCEPT ![Me] = [data[Me] EXCEPT ![op] = v]]
    BY <1>1 DEF Applied
<1> HIDE DEF v
<1>5. [data[Me] EXCEPT ![op] = v] \in [Op -> Nat]
    BY <1>2, <1>3
<1>6. data' \in [Node -> [Op -> Nat]]
    BY <1>1, <1>4, <1>5
<1>7. \A n \in Node : \A o \in Op : data'[n][o] = IF n = Me /\ o = op THEN v ELSE data[n][o]
    BY <1>1, <1>2, <1>4
<1> QED
    BY <1>1, <1>3, <1>6, <1>7 DEF Grown

\* Queues that grow at the end or lose their front.
LEMMA Appended ==
    ASSUME NEW q \in Seq(Op), NEW o \in Op
    PROVE /\ Append(q, o) \in Seq(Op) /\ Len(Append(q, o)) = Len(q) + 1 /\ Append(q, o)[Len(q) + 1] = o
          /\ Len(q) \in Nat /\ \A i \in 1..Len(q) : i \in 1..Len(q) + 1 /\ Append(q, o)[i] = q[i]
OBVIOUS

\* The front of a queue is taken.
LEMMA Taken ==
    ASSUME NEW q \in Seq(Op), q # <<>>
    PROVE /\ Tail(q) \in Seq(Op) /\ Len(q) \in Nat /\ Len(Tail(q)) = Len(q) - 1 /\ 1 \in 1..Len(q)
          /\ Head(q) = q[1] /\ q[1] \in Op
          /\ \A i \in 1..Len(q) - 1 : i + 1 \in 1..Len(q) /\ Tail(q)[i] = q[i + 1]
OBVIOUS

-----------------------------------------------------------------------------
(* Steps of the repair task alone                                          *)

\* Databases, journals, frames and gate stay as they are.
Aside == UNCHANGED <<store, wire, gate, history>>

\* Then what is probed, pulled and captured is all that can change.
LEMMA AsideKept ==
    ASSUME IInv, Aside, Pulling', Captured'
    PROVE IInv'
<1>1. UNCHANGED <<data, head, oldest, pos, voided, frames, late, failed, carried, open, queue, failures, seeded, discarded, direct, adopted>>
    BY DEF Aside, store, wire, gate, history
<1>2. Shapes'
    BY <1>1 DEF IInv, Shapes
<1>3. Wired'
    BY <1>1 DEF IInv, Wired, Issued
<1>4. Spread'
    BY <1>1 DEF IInv, Spread, Issued
<1>5. Caught'
    BY <1>1 DEF IInv, Caught, Exempt, Waits, Queued
<1>6. Gone'
    BY <1>1 DEF IInv, Gone
<1> QED
    BY <1>2, <1>3, <1>4, <1>5, <1>6 DEF IInv

\* Outside a pull nothing is being pulled.
LEMMA NotPulling ==
    ASSUME Pulling, pull' = pull, pc # "pull", pc' # "pull", UNCHANGED <<reports, infos, head>>
    PROVE Pulling'
<1>1. pull = None /\ pull' = None
    BY DEF Pulling
<1> QED
    BY <1>1 DEF Pulling, PullComplete

\* A new round has nothing probed, planned or captured.
LEMMA RoundStarts ==
    ASSUME NEW r, StartRound(r)
    PROVE Pulling' /\ Captured'
<1>1. reports' = <<>> /\ infos' = <<>> /\ pull' = None /\ pc' = "probe"
    BY DEF StartRound, None
<1>2. DOMAIN reports' = {} /\ DOMAIN infos' = {}
    BY <1>1
<1> QED
    BY <1>1, <1>2 DEF Pulling, PullComplete, Captured

\* A round that settled nothing.
LEMMA RetryKept ==
    ASSUME IInv, Aside, pc # "pull", Retry
    PROVE IInv'
<1>1. CASE round < Rounds
    <2>1. StartRound(round + 1)
        BY <1>1 DEF Retry
    <2> QED
        BY <2>1, RoundStarts, AsideKept
<1>2. CASE ~(round < Rounds)
    <2>1. pc' = "close" /\ UNCHANGED <<reports, infos, pull>>
        BY <1>2 DEF Retry, Goto
    <2>2. Pulling' /\ Captured'
        BY <2>1, NotPulling DEF IInv, Captured, Aside, store
    <2> QED
        BY <2>2, AsideKept
<1> QED
    BY <1>1, <1>2

\* Probes, local digests, verdicts and ends of phases.
LEMMA ProbesKept ==
    ASSUME IInv,
           \/ \E p \in Peer : Probe(p)
           \/ CutOff \/ NobodyReachable \/ Plan \/ DigestsFail \/ PullStart \/ PullsDone
           \/ DrainedOpen \/ FreshLocal \/ AdoptFails \/ SeedDone
    PROVE IInv'
<1>a. Shapes /\ Pulling
    BY DEF IInv
<1>b. ASSUME Aside, UNCHANGED <<reports, infos, pull>>, pc # "pull", pc' # "pull", pc' # "adopt" PROVE IInv'
    <2>1. Pulling' /\ Captured'
        BY <1>a, <1>b, NotPulling DEF Captured, Aside, store
    <2> QED
        BY <1>b, <2>1, AsideKept
<1>1. ASSUME NEW p \in Peer, Probe(p) PROVE IInv'
    <2>1. Aside /\ pc # "pull" /\ pc' = pc /\ pc # "adopt" /\ pull' = pull /\ UNCHANGED <<head>>
        BY <1>1 DEF Probe, Aside, store
    <2>2. reports' = reports \/ \E v : reports' = Known(reports, p, v)
        BY <1>1 DEF Probe
    <2>3. infos' = infos \/ infos' = Known(infos, p, [head |-> head[p], oldest |-> oldest[p]])
        BY <1>1 DEF Probe
    <2>4. DOMAIN reports' \subseteq Peer
        BY <1>a, <2>2 DEF Known, Pulling
    <2>5. DOMAIN infos' \subseteq Peer /\ \A q \in DOMAIN infos' : infos'[q].head \in Nat /\ infos'[q].head <= head[q]
        <3>1. CASE infos' = infos
            BY <1>a, <3>1 DEF Pulling
        <3>2. CASE infos' = Known(infos, p, [head |-> head[p], oldest |-> oldest[p]])
            <4>1. head[p] \in Nat
                BY <1>a, Nodes DEF Shapes
            <4>2. DOMAIN infos' = DOMAIN infos \cup {p}
                BY <3>2 DEF Known
            <4>3. \A q \in DOMAIN infos' : infos'[q] = IF q = p THEN [head |-> head[p], oldest |-> oldest[p]] ELSE infos[q]
                BY <3>2 DEF Known
            <4> QED
                BY <1>a, <4>1, <4>2, <4>3 DEF Pulling
        <3> QED
            BY <2>3, <3>1, <3>2
    <2>6. pull = None
        BY <1>a, <2>1 DEF Pulling
    <2>7. Pulling' /\ Captured'
        BY <2>1, <2>4, <2>5, <2>6 DEF Pulling, PullComplete, Captured
    <2> QED
        BY <2>1, <2>7, AsideKept
<1>2. CASE CutOff
    BY <1>b, <1>2 DEF CutOff, Aside
<1>3. CASE NobodyReachable
    BY <1>3, RetryKept DEF NobodyReachable, Aside
<1>4. CASE Plan
    <2>1. Aside /\ UNCHANGED <<reports, infos, pull>> /\ pc = "probe"
        BY <1>4 DEF Plan, Aside
    <2>2. CASE (\A p \in DOMAIN infos : Usable(p)) /\ DOMAIN CatchupPlan # {}
        <3>1. plan' = CatchupPlan /\ pc' = "pull"
            BY <1>4, <2>2 DEF Plan, Goto
        <3>2. UNCHANGED <<pos, head>> /\ pull = None
            BY <1>a, <2>1 DEF Aside, store, Pulling
        <3>3. \A p \in DOMAIN plan' : p \in DOMAIN infos /\ plan'[p] = pos[p]
            BY <3>1 DEF CatchupPlan
        <3>4. \A p \in DOMAIN plan' : p \in Peer /\ plan'[p] \in Nat /\ plan'[p] <= pos[p]
            <4>1. \A p \in Peer : pos[p] \in Int /\ NoPos <= pos[p]
                BY <1>a DEF Shapes
            <4>2. \A p \in DOMAIN infos : p \in Peer /\ pos[p] # NoPos
                BY <1>a, <2>2 DEF Usable, Pulling
            <4>3. \A p \in DOMAIN infos : pos[p] \in Nat /\ pos[p] <= pos[p]
                BY <4>1, <4>2 DEF NoPos
            <4> QED
                BY <3>3, <4>2, <4>3
        <3>5. Pulling'
            BY <1>a, <2>1, <3>1, <3>2, <3>4 DEF Pulling, PullComplete
        <3>6. Captured'
            BY <3>1 DEF Captured
        <3> QED
            BY <2>1, <3>5, <3>6, AsideKept
    <2>3. CASE ~((\A p \in DOMAIN infos : Usable(p)) /\ DOMAIN CatchupPlan # {})
        <3>1. pc' = "decide"
            BY <1>4, <2>3 DEF Plan, Goto
        <3> QED
            BY <1>b, <2>1, <3>1
    <2> QED
        BY <2>2, <2>3
<1>5. CASE DigestsFail
    BY <1>b, <1>5 DEF DigestsFail, Aside, Goto
<1>6. CASE PullStart
    <2>1. Aside /\ pc = "pull" /\ UNCHANGED <<pc, reports, infos, plan, head, pos, data>>
        BY <1>6 DEF PullStart, Aside, store
    <2>2. PICK p \in Peer : p \in DOMAIN plan /\ pull' = [peer |-> p, from |-> plan[p], at |-> plan[p], head |-> head[p]]
        BY <1>6 DEF PullStart, FirstOf
    <2>3. plan[p] \in Nat /\ plan[p] <= pos[p] /\ pos[p] <= head[p] /\ head[p] \in Nat /\ pos[p] \in Int
        BY <1>a, <2>1, <2>2, Nodes DEF Pulling, Shapes
    <2>4. pull' \in Pull /\ pull'.peer = p /\ pull'.from = plan[p] /\ pull'.at = plan[p] /\ pull'.head = head[p]
        BY <2>2, <2>3 DEF Pull
    <2>5. plan[p] <= head[p]
        BY <2>3
    <2>6. PullComplete'
        <3>1. \A k \in plan[p] + 1..plan[p] : FALSE
            BY <2>3
        <3> QED
            BY <2>4, <3>1 DEF PullComplete
    <2>7. Pulling'
        BY <1>a, <2>1, <2>3, <2>4, <2>5, <2>6 DEF Pulling
    <2>8. Captured'
        BY <2>1 DEF Captured
    <2> QED
        BY <2>1, <2>7, <2>8, AsideKept
<1>7. CASE PullsDone
    <2>1. Aside /\ pull = None /\ pull' = None /\ pc' = "drain" /\ UNCHANGED <<reports, infos, head>>
        BY <1>7 DEF PullsDone, Aside, Goto, store
    <2>2. Pulling' /\ Captured'
        BY <1>a, <2>1 DEF Pulling, PullComplete, Captured
    <2> QED
        BY <2>1, <2>2, AsideKept
<1>8. CASE DrainedOpen
    <2>1. Aside /\ pc = "drain" /\ pc' = "fresh" /\ pull' = pull /\ reports' = <<>> /\ UNCHANGED <<infos, head>>
        BY <1>8 DEF DrainedOpen, Aside, Goto, None, store
    <2>2. pull = None /\ DOMAIN reports' = {}
        BY <1>a, <2>1 DEF Pulling
    <2>3. Pulling' /\ Captured'
        BY <1>a, <2>1, <2>2 DEF Pulling, PullComplete, Captured
    <2> QED
        BY <2>1, <2>3, AsideKept
<1>9. CASE FreshLocal
    BY <1>b, <1>9 DEF FreshLocal, Aside, Goto
<1>10. CASE AdoptFails
    BY <1>10, RetryKept DEF AdoptFails, Aside
<1>11. CASE SeedDone
    BY <1>b, <1>11 DEF SeedDone, Aside, Goto
<1> QED
    BY <1>1, <1>2, <1>3, <1>4, <1>5, <1>6, <1>7, <1>8, <1>9, <1>10, <1>11

-----------------------------------------------------------------------------
(* What the parts of the invariant need of a step                          *)

\* Journals and positions only grow, and the repair task stays where it is.
LEMMA PullingStays ==
    ASSUME Shapes, Shapes', Pulling, Grown, UNCHANGED <<pc, reports, infos, plan, pull>>,
           \A p \in Peer : head[p] <= head'[p] /\ pos[p] <= pos'[p]
    PROVE Pulling'
<1>a. \A p \in Peer : head[p] \in Nat /\ head'[p] \in Nat /\ pos[p] \in Int /\ pos'[p] \in Int
    BY Nodes DEF Shapes
<1>1. \A p \in DOMAIN infos' : infos'[p].head \in Nat /\ infos'[p].head <= head'[p]
    <2> SUFFICES ASSUME NEW p \in DOMAIN infos PROVE infos[p].head \in Nat /\ infos[p].head <= head'[p]
        OBVIOUS
    <2>1. p \in Peer /\ infos[p].head \in Nat /\ infos[p].head <= head[p]
        BY DEF Pulling
    <2> QED
        BY <1>a, <2>1
<1>2. pc' = "pull" => \A p \in DOMAIN plan' : p \in Peer /\ plan'[p] \in Nat /\ plan'[p] <= pos'[p]
    <2> SUFFICES ASSUME pc = "pull", NEW p \in DOMAIN plan PROVE p \in Peer /\ plan[p] \in Nat /\ plan[p] <= pos'[p]
        OBVIOUS
    <2>1. p \in Peer /\ plan[p] \in Nat /\ plan[p] <= pos[p]
        BY DEF Pulling
    <2> QED
        BY <1>a, <2>1
<1>3. ASSUME pull # None
      PROVE /\ pc' = "pull" /\ pull \in Pull /\ pull.from <= pos'[pull.peer] /\ pull.from <= pull.at /\ pull.at <= pull.head
            /\ pull.head <= head'[pull.peer]
    <2>1. /\ pc = "pull" /\ pull \in Pull
          /\ pull.from <= pos[pull.peer] /\ pull.from <= pull.at /\ pull.at <= pull.head /\ pull.head <= head[pull.peer]
        BY <1>3 DEF Pulling
    <2>2. pull.peer \in Peer /\ pull.from \in Nat /\ pull.head \in Nat
        BY <2>1 DEF Pull
    <2> QED
        BY <1>a, <2>1, <2>2
<1>4. PullComplete'
    <2> SUFFICES ASSUME pull # None, NEW o \in Op, o[1] = pull.peer, o[2] \in (pull.from + 1)..pull.at PROVE data'[Me][o] > 0
        BY DEF PullComplete
    <2>1. data[Me][o] > 0
        BY DEF Pulling, PullComplete
    <2> QED
        BY <2>1, Nodes DEF Grown
<1>5. DOMAIN reports' \subseteq Peer /\ DOMAIN infos' \subseteq Peer
    BY DEF Pulling
<1> QED
    BY <1>1, <1>2, <1>3, <1>4, <1>5 DEF Pulling

\* What is captured misses only what waits, as long as nothing stops waiting.
LEMMA CapturedStays ==
    ASSUME Captured, Grown, UNCHANGED <<pc, infos, dump>>, failed \subseteq failed',
           \A o \in Op : Issued(o)' /\ o \notin Exempt' => Waits(o)' \/ (Issued(o) /\ o \notin Exempt /\ ~Waits(o))
    PROVE Captured'
<1> SUFFICES ASSUME pc = "adopt"
             PROVE /\ dump \in [Op -> Nat] /\ \E p \in Peer : \A o \in Op : dump[o] > 0 => data'[p][o] > 0
                   /\ \A o \in Op : Issued(o)' /\ o \notin Exempt' => dump[o] > 0 \/ Waits(o)'
                   /\ \A p \in DOMAIN infos : \A o \in Op : o[1] = p /\ o[2] <= infos[p].head /\ o \notin failed' => dump[o] > 0
    BY DEF Captured
<1>1. /\ dump \in [Op -> Nat]
      /\ \A o \in Op : Issued(o) /\ o \notin Exempt => dump[o] > 0 \/ Waits(o)
      /\ \A p \in DOMAIN infos : \A o \in Op : o[1] = p /\ o[2] <= infos[p].head /\ o \notin failed => dump[o] > 0
    BY DEF Captured
<1>2. PICK p \in Peer : \A o \in Op : dump[o] > 0 => data[p][o] > 0
    BY DEF Captured
<1>3. \A o \in Op : dump[o] > 0 => data'[p][o] > 0
    BY <1>2, Nodes DEF Grown
<1>4. \A o \in Op : Issued(o)' /\ o \notin Exempt' => dump[o] > 0 \/ Waits(o)'
    BY <1>1
<1>5. \A q \in DOMAIN infos : \A o \in Op : o[1] = q /\ o[2] <= infos[q].head /\ o \notin failed' => dump[o] > 0
    BY <1>1
<1> QED
    BY <1>1, <1>3, <1>4, <1>5

\* Writes are caught up with as long as none stops waiting before it is
\* applied and no position passes one that is not.
LEMMA CaughtStays ==
    ASSUME Caught, Grown, adopted' = adopted, Exempt \subseteq Exempt',
           adopted => \A o \in Op : o[1] \in Peer /\ o \notin Exempt' =>
               /\ o[2] <= head'[o[1]] => Waits(o)' \/ data'[Me][o] > 0 \/ (o[2] <= head[o[1]] /\ ~Waits(o))
               /\ o[2] <= pos'[o[1]] => data'[Me][o] > 0 \/ o[2] <= pos[o[1]]
    PROVE Caught'
<1> SUFFICES ASSUME adopted, NEW o \in Op, o[1] \in Peer, o \notin Exempt'
             PROVE /\ o[2] <= head'[o[1]] => data'[Me][o] > 0 \/ Waits(o)'
                   /\ o[2] <= pos'[o[1]] => data'[Me][o] > 0
    BY DEF Caught
<1>1. o \notin Exempt
    OBVIOUS
<1>2. /\ o[2] <= head[o[1]] => data[Me][o] > 0 \/ Waits(o)
      /\ o[2] <= pos[o[1]] => data[Me][o] > 0
    BY <1>1 DEF Caught
<1>3. data[Me][o] > 0 => data'[Me][o] > 0
    BY Nodes DEF Grown
<1> QED
    BY <1>2, <1>3

\* What is gone stays gone, as long as nobody applies it.
LEMMA GoneStays ==
    ASSUME Gone, UNCHANGED <<discarded, voided>>, \A n \in Node : \A o \in discarded : data'[n][o] = data[n][o],
           carried' \subseteq carried
    PROVE Gone'
BY DEF Gone

\* Peers keep what they have.
LEMMA SpreadStays ==
    ASSUME Spread, Grown, head' = head, failed \subseteq failed'
    PROVE Spread'
<1> SUFFICES ASSUME NEW o \in Op, Issued(o), o \notin failed, NEW p \in Peer PROVE data'[p][o] > 0
    BY DEF Spread, Issued
<1>1. data[p][o] > 0
    BY DEF Spread
<1> QED
    BY <1>1, Nodes DEF Grown

\* Databases that stay have grown.
LEMMA SameGrown ==
    ASSUME Shapes, data' = data
    PROVE Grown
BY DEF Shapes, Grown

-----------------------------------------------------------------------------
(* Writes at the peers and what becomes of their legs                      *)

\* The election's verdict: a peer's database is captured, or nothing is.
LEMMA DecideKept ==
    ASSUME IInv, Decide
    PROVE IInv'
<1>1. Aside /\ pc = "decide"
    BY DEF Decide, Aside
<1>2. Shapes /\ Pulling /\ Spread
    BY DEF IInv
<1>3. CASE pc' = "close" /\ UNCHANGED <<reports, infos, pull>>
    <2>1. Pulling' /\ Captured'
        BY <1>1, <1>2, <1>3, NotPulling DEF Captured, Aside, store
    <2> QED
        BY <1>1, <2>1, AsideKept
<1>4. CASE Retry
    BY <1>1, <1>4, RetryKept
<1>5. ASSUME NEW p \in Peer, dump' = data[p], pc' = "adopt", UNCHANGED <<reports, infos, pull>> PROVE IInv'
    <2>1. UNCHANGED <<data, head, failed, frames, queue, seeded, direct>>
        BY <1>1 DEF Aside, store, wire, gate, history
    <2>2. Pulling'
        BY <1>1, <1>2, <1>5, <2>1, NotPulling
    <2>3. data[p] \in [Op -> Nat]
        BY <1>2, Nodes DEF Shapes
    <2>4. \A o \in Op : Issued(o) /\ o \notin failed => data[p][o] > 0
        BY <1>2 DEF Spread
    <2>5. \A q \in DOMAIN infos : \A o \in Op : o[1] = q /\ o[2] <= infos[q].head => Issued(o)
        <3> SUFFICES ASSUME NEW q \in DOMAIN infos, NEW o \in Op, o[1] = q, o[2] <= infos[q].head PROVE Issued(o)
            OBVIOUS
        <3>1. q \in Peer /\ infos[q].head \in Nat /\ infos[q].head <= head[q]
            BY <1>2 DEF Pulling
        <3>2. head[q] \in Nat /\ o[2] \in Nat
            BY <1>2, <3>1, Nodes, OpIs DEF Shapes
        <3> QED
            BY <3>1, <3>2 DEF Issued
    <2>6. dump' \in [Op -> Nat] /\ \E q \in Peer : \A o \in Op : dump'[o] > 0 => data'[q][o] > 0
        BY <1>5, <2>1, <2>3
    <2>7. \A o \in Op : Issued(o)' /\ o \notin Exempt' => dump'[o] > 0
        BY <1>5, <2>1, <2>4 DEF Issued, Exempt
    <2>8. \A q \in DOMAIN infos' : \A o \in Op : o[1] = q /\ o[2] <= infos'[q].head /\ o \notin failed' => dump'[o] > 0
        BY <1>5, <2>1, <2>4, <2>5
    <2>9. Captured'
        BY <2>6, <2>7, <2>8 DEF Captured
    <2> QED
        BY <1>1, <2>2, <2>9, AsideKept
<1> QED
    BY <1>3, <1>4, <1>5 DEF Decide, Goto

\* A peer's write, to be fanned out to all.
LEMMA WriteKept ==
    ASSUME IInv, NEW p \in Peer, Write(p)
    PROVE IInv'
<1> PICK op \in {<<p, head[p] + 1>>} : TRUE
    OBVIOUS
<1>a. Shapes /\ Wired /\ Pulling /\ Spread /\ Captured /\ Caught /\ Gone
    BY DEF IInv
<1>b. head[p] < MaxSeq[p] /\ (\A o \in frames : o[1] = p => o \in late) /\ head' = [head EXCEPT ![p] = @ + 1]
    BY DEF Write
<1>c. UNCHANGED <<oldest, pos, voided, late, carried, open, queue, failures, seeded, discarded, direct, adopted>>
    BY DEF Write, gate, history
<1>d. UNCHANGED <<pc, reports, infos, plan, pull, dump>>
    BY DEF Write, task
<1>1. head \in [Node -> Nat] /\ p \in Node /\ head[p] \in Nat /\ MaxSeq[p] \in Nat /\ p # Me /\ Me \in Node
    BY <1>a, Nodes, RepairAssumption DEF Shapes
<1>2. op \in Op /\ op[1] = p /\ op[2] = head[p] + 1
    BY <1>b, <1>1, OpOf
<1> PICK miss \in SUBSET (Node \ {p}) :
        /\ data' = [m \in Node |-> IF m \in miss \cup {Me} THEN data[m] ELSE [data[m] EXCEPT ![op] = 1]]
        /\ frames' = IF Me \in miss THEN frames ELSE frames \cup {op}
        /\ failed' = IF miss = {} THEN failed ELSE failed \cup {op}
    BY DEF Write
<1>3. head' \in [Node -> Nat] /\ head'[p] = head[p] + 1 /\ \A n \in Node : n # p => head'[n] = head[n]
    BY <1>b, <1>1
<1>4. frames \subseteq frames' /\ frames' \subseteq frames \cup {op} /\ failed \subseteq failed' /\ Exempt \subseteq Exempt'
    BY <1>c DEF Exempt
<1>5. op \notin failed' => miss = {} /\ op \in frames'
    OBVIOUS
<1>6. Grown
    <2>1. data \in [Node -> [Op -> Nat]]
        BY <1>a DEF Shapes
    <2>2. \A m \in Node : data'[m] \in [Op -> Nat] /\ \A o \in Op : data'[m][o] = data[m][o] \/ data'[m][o] = 1
        BY <2>1
    <2>3. data' \in [Node -> [Op -> Nat]]
        BY <2>2
    <2> QED
        BY <2>2, <2>3 DEF Grown
<1>7. \A n \in Node : \A o \in Op : o # op => data'[n][o] = data[n][o]
    BY <1>a DEF Shapes
<1>8. Shapes'
    <2>1. \A q \in Peer : head'[q] <= MaxSeq[q] /\ NoPos <= pos[q] /\ pos[q] <= head'[q]
        <3> SUFFICES ASSUME NEW q \in Peer PROVE head'[q] <= MaxSeq[q] /\ NoPos <= pos[q] /\ pos[q] <= head'[q]
            OBVIOUS
        <3>1. head[q] <= MaxSeq[q] /\ NoPos <= pos[q] /\ pos[q] <= head[q] /\ pos[q] \in Int
            BY <1>a DEF Shapes
        <3>2. q \in Node
            BY Nodes
        <3> QED
            BY <1>b, <1>1, <1>3, <3>1, <3>2
    <2> QED
        BY <1>a, <1>c, <1>2, <1>3, <1>4, <1>6, <2>1 DEF Shapes, Grown
<1>9. \A o \in Op : (Issued(o) => Issued(o)') /\ (Issued(o)' => Issued(o) \/ o = op)
    <2> SUFFICES ASSUME NEW o \in Op, o[1] \in Peer
                 PROVE /\ o[2] <= head[o[1]] => o[2] <= head'[o[1]]
                       /\ o[2] <= head'[o[1]] => o[2] <= head[o[1]] \/ o = op
        BY DEF Issued
    <2>1. o[2] \in Nat /\ o = <<o[1], o[2]>> /\ o[1] \in Node
        BY OpIs
    <2>2. CASE o[1] # p
        BY <1>3, <2>1, <2>2
    <2>3. CASE o[1] = p
        <3>1. o[2] = head[p] + 1 => o = op
            BY <2>1, <2>3
        <3>2. head'[o[1]] = head[o[1]] + 1 /\ head[o[1]] \in Nat
            BY <1>1, <1>3, <2>3
        <3>3. /\ o[2] <= head[o[1]] => o[2] <= head'[o[1]]
              /\ o[2] <= head'[o[1]] => o[2] <= head[o[1]] \/ o[2] = head[o[1]] + 1
            BY <2>1, <3>2
        <3> QED
            BY <2>3, <3>1, <3>3
    <2> QED
        BY <2>2, <2>3
<1>10. Issued(op)' /\ ~Issued(op)
    BY <1>1, <1>2, <1>3 DEF Issued
<1>11. Wired'
    <2>1. \A o \in frames' : Issued(o)'
        BY <1>a, <1>4, <1>9, <1>10 DEF Wired, Shapes
    <2>2. \A i \in 1..Len(queue) : queue[i] \in Op /\ Issued(queue[i]) /\ Issued(queue[i])'
        BY <1>a, <1>c, <1>9 DEF Wired, Shapes
    <2>3. ASSUME NEW o \in frames', NEW q \in frames', o[1] = q[1], o[2] < q[2] PROVE o \in failed'
        <3>1. CASE o \in frames /\ q \in frames
            BY <1>a, <1>4, <2>3, <3>1 DEF Wired
        <3>2. CASE q = op
            BY <1>a, <1>b, <1>1, <1>2, <1>4, <2>3, <3>2 DEF Wired
        <3>3. CASE o = op /\ q \in frames
            <4>1. q[2] <= head[p] /\ q[2] \in Nat
                BY <1>a, <1>2, <2>3, <3>3, OpIs DEF Wired, Issued, Shapes
            <4> QED
                BY <1>1, <1>2, <2>3, <3>3, <4>1
        <3> QED
            BY <1>4, <3>1, <3>2, <3>3
    <2>4. ASSUME NEW o \in frames', NEW i \in 1..Len(queue), o[1] = queue[i][1], o[2] < queue[i][2] PROVE o \in failed'
        <3>1. CASE o \in frames
            BY <1>a, <1>4, <2>4, <3>1 DEF Wired
        <3>2. CASE o = op
            <4>1. queue[i][2] <= head[p] /\ queue[i][2] \in Nat
                BY <1>2, <2>2, <2>4, <3>2, OpIs DEF Issued
            <4> QED
                BY <1>1, <1>2, <2>4, <3>2, <4>1
        <3> QED
            BY <1>4, <3>1, <3>2
    <2>5. late' \subseteq failed' /\ (~open' => queue' = <<>>)
        BY <1>a, <1>c, <1>4 DEF Wired
    <2>6. \A i \in 1..Len(queue') : \A j \in 1..Len(queue') :
            i < j /\ queue'[i][1] = queue'[j][1] /\ queue'[j][2] < queue'[i][2] => queue'[j] \in failed'
        BY <1>a, <1>c, <1>4 DEF Wired
    <2>7. \A i \in 1..Len(queue') : queue'[i][1] \in Peer /\ queue'[i][2] <= head'[queue'[i][1]]
        BY <1>c, <2>2 DEF Issued
    <2> QED
        BY <1>c, <2>1, <2>3, <2>4, <2>5, <2>6, <2>7 DEF Wired, Issued
<1>12. Pulling'
    <2>1. \A q \in Peer : head[q] <= head'[q] /\ pos[q] <= pos'[q]
        <3> SUFFICES ASSUME NEW q \in Peer PROVE head[q] <= head'[q] /\ pos[q] <= pos[q]
            BY <1>c
        <3>1. q \in Node /\ head[q] \in Nat /\ pos[q] \in Int
            BY <1>a, Nodes DEF Shapes
        <3> QED
            BY <1>3, <3>1
    <2> QED
        BY <1>a, <1>d, <1>6, <1>8, <2>1, PullingStays
<1>13. Spread'
    <2> SUFFICES ASSUME NEW o \in Op, Issued(o)', o \notin failed', NEW q \in Peer PROVE data'[q][o] > 0
        BY DEF Spread
    <2>1. CASE o = op
        <3>1. miss = {} /\ q # Me /\ q \in Node /\ data[q] \in [Op -> Nat]
            BY <1>a, <1>5, <2>1, Nodes DEF Shapes
        <3>2. data'[q] = [data[q] EXCEPT ![op] = 1]
            BY <3>1
        <3> QED
            BY <1>2, <2>1, <3>1, <3>2
    <2>2. CASE o # op
        <3>1. data[q][o] > 0
            BY <1>a, <1>4, <1>9, <2>2 DEF Spread
        <3> QED
            BY <1>6, <3>1, Nodes DEF Grown
    <2> QED
        BY <2>1, <2>2
<1>14. \A o \in Op : (Waits(o) => Waits(o)') /\ (op \notin failed' => Waits(op)')
    BY <1>c, <1>4, <1>5 DEF Waits, Queued
<1>15. Captured'
    <2>1. \A o \in Op : Issued(o)' /\ o \notin Exempt' => Waits(o)' \/ (Issued(o) /\ o \notin Exempt /\ ~Waits(o))
        BY <1>4, <1>9, <1>14 DEF Exempt
    <2> QED
        BY <1>a, <1>d, <1>4, <1>6, <2>1, CapturedStays
<1>16. Caught'
    <2>1. \A o \in Op : o[1] \in Peer /\ o \notin Exempt' =>
               /\ o[2] <= head'[o[1]] => Waits(o)' \/ data'[Me][o] > 0 \/ (o[2] <= head[o[1]] /\ ~Waits(o))
               /\ o[2] <= pos'[o[1]] => data'[Me][o] > 0 \/ o[2] <= pos[o[1]]
        BY <1>c, <1>9, <1>14 DEF Exempt, Issued
    <2> QED
        BY <1>a, <1>c, <1>4, <1>6, <2>1, CaughtStays
<1>17. Gone'
    <2>1. \A o \in discarded : o \in Op /\ o # op
        BY <1>a, <1>1, <1>2 DEF Gone
    <2> QED
        BY <1>a, <1>c, <1>7, <2>1, GoneStays
<1> QED
    BY <1>8, <1>11, <1>12, <1>13, <1>15, <1>16, <1>17 DEF IInv

\* A trimmed journal: the databases do not change.
LEMMA TrimKept ==
    ASSUME IInv, NEW p \in Peer, Trim(p)
    PROVE IInv'
<1>a. Shapes /\ Wired /\ Pulling /\ Spread /\ Captured /\ Caught /\ Gone
    BY DEF IInv
<1>1. UNCHANGED <<data, head, pos, voided, frames, late, failed, carried, open, queue, failures, seeded, discarded, direct, adopted>>
    BY DEF Trim, wire, gate, history
<1>2. UNCHANGED <<pc, reports, infos, plan, pull, dump>>
    BY DEF Trim, task
<1>3. oldest' \in [Peer -> Nat]
    <2>1. oldest \in [Peer -> Nat] /\ oldest' = [oldest EXCEPT ![p] = @ + 1]
        BY <1>a DEF Shapes, Trim
    <2> QED
        BY <2>1
<1>4. Shapes'
    BY <1>a, <1>1, <1>3 DEF Shapes
<1>5. Wired'
    BY <1>a, <1>1 DEF Wired, Issued
<1>6. Pulling'
    BY <1>a, <1>1, <1>2 DEF Pulling, PullComplete
<1>7. Spread'
    BY <1>a, <1>1 DEF Spread, Issued
<1>8. Captured'
    BY <1>a, <1>1, <1>2 DEF Captured, Issued, Exempt, Waits, Queued
<1>9. Caught'
    BY <1>a, <1>1 DEF Caught, Exempt, Waits, Queued
<1>10. Gone'
    BY <1>a, <1>1 DEF Gone
<1> QED
    BY <1>4, <1>5, <1>6, <1>7, <1>8, <1>9, <1>10 DEF IInv

\* A peer reads this node's own write: one that is not voided.
LEMMA PeerReadsKept ==
    ASSUME IInv, NEW p \in Peer, PeerReads(p)
    PROVE IInv'
<1> DEFINE own == <<Me, 1>>
<1>a. Shapes /\ Wired /\ Pulling /\ Spread /\ Captured /\ Caught /\ Gone
    BY DEF IInv
<1>b. own \notin voided /\ carried' = carried \cup {<<p, own>>}
    BY DEF PeerReads
<1>c. UNCHANGED <<data, head, oldest, pos, voided, frames, late, failed, open, queue, failures, seeded, discarded, direct, adopted>>
    BY DEF PeerReads, store, gate, history
<1>d. UNCHANGED <<pc, reports, infos, plan, pull, dump>>
    BY DEF PeerReads, task
<1>1. own \in Op
    <2>1. MaxSeq[Me] \in Nat \ {0} /\ Me \in Node
        BY RepairAssumption, Nodes
    <2>2. 1 \in 1..MaxSeq[Me]
        BY <2>1
    <2> QED
        BY <2>1, <2>2, OpOf
<1> HIDE DEF own
<1>2. Shapes'
    BY <1>a, <1>b, <1>c, <1>1 DEF Shapes
<1>3. Wired' /\ Spread' /\ Caught'
    BY <1>a, <1>c DEF Wired, Spread, Caught, Issued, Exempt, Waits, Queued
<1>4. Pulling'
    BY <1>a, <1>c, <1>d DEF Pulling, PullComplete
<1>5. Captured'
    BY <1>a, <1>c, <1>d DEF Captured, Issued, Exempt, Waits, Queued
<1>6. Gone'
    BY <1>a, <1>b, <1>c DEF Gone
<1> QED
    BY <1>2, <1>3, <1>4, <1>5, <1>6 DEF IInv

\* A peer executes what its pull carried: nothing that was discarded.
LEMMA PeerAppliesKept ==
    ASSUME IInv, NEW p \in Peer, NEW op \in Op, PeerApplies(p, op)
    PROVE IInv'
<1>a. Shapes /\ Wired /\ Pulling /\ Spread /\ Captured /\ Caught /\ Gone
    BY DEF IInv
<1>b. <<p, op>> \in carried /\ carried' \subseteq carried /\ (data' = [data EXCEPT ![p][op] = 1] \/ data' = data)
    BY DEF PeerApplies
<1>c. UNCHANGED <<head, oldest, pos, voided, frames, late, failed, open, queue, failures, seeded, discarded, direct, adopted>>
    BY DEF PeerApplies, gate, history
<1>d. UNCHANGED <<pc, reports, infos, plan, pull, dump>>
    BY DEF PeerApplies, task
<1>2. data \in [Node -> [Op -> Nat]] /\ p \in Node /\ data[p] \in [Op -> Nat]
    BY <1>a, Nodes DEF Shapes
<1>3. data' = data \/ (data' = [data EXCEPT ![p] = [data[p] EXCEPT ![op] = 1]] /\ [data[p] EXCEPT ![op] = 1] \in [Op -> Nat])
    BY <1>b, <1>2
<1>4. /\ data' \in [Node -> [Op -> Nat]]
      /\ \A n \in Node : \A o \in Op : data'[n][o] = data[n][o] \/ (n = p /\ o = op /\ data'[n][o] = 1)
    BY <1>2, <1>3
<1>5. Grown
    BY <1>4 DEF Grown
<1>6. Shapes'
    BY <1>a, <1>c, <1>4 DEF Shapes
<1>7. Wired'
    BY <1>a, <1>c DEF Wired, Issued
<1>8. Pulling'
    <2>1. \A q \in Peer : head[q] <= head'[q] /\ pos[q] <= pos'[q]
        BY <1>a, <1>c, Nodes DEF Shapes
    <2> QED
        BY <1>a, <1>d, <1>5, <1>6, <2>1, PullingStays
<1>9. Spread'
    BY <1>a, <1>c, <1>5, SpreadStays
<1>10. Captured'
    <2>1. \A o \in Op : Issued(o)' /\ o \notin Exempt' => Waits(o)' \/ (Issued(o) /\ o \notin Exempt /\ ~Waits(o))
        BY <1>c DEF Issued, Exempt, Waits, Queued
    <2> QED
        BY <1>a, <1>c, <1>d, <1>5, <2>1, CapturedStays
<1>11. Caught'
    <2>1. Exempt' = Exempt /\ \A o \in Op : Waits(o)' <=> Waits(o)
        BY <1>c DEF Exempt, Waits, Queued
    <2> QED
        BY <1>a, <1>c, <1>5, <2>1, CaughtStays
<1>12. Gone'
    <2>1. \A n \in Node : \A o \in discarded : data'[n][o] = data[n][o]
        <3>1. \A o \in discarded : o \in Op /\ <<p, o>> \notin carried
            BY <1>a, <1>2 DEF Gone
        <3> QED
            BY <1>b, <1>4, <3>1
    <2> QED
        BY <1>a, <1>b, <1>c, <2>1, GoneStays
<1> QED
    BY <1>6, <1>7, <1>8, <1>9, <1>10, <1>11, <1>12 DEF IInv

\* A leg that runs out of time: its write counts as failed from here on.
LEMMA LegTimeoutKept ==
    ASSUME IInv, NEW op \in Op, LegTimeout(op)
    PROVE IInv'
<1>a. Shapes /\ Wired /\ Pulling /\ Spread /\ Captured /\ Caught /\ Gone
    BY DEF IInv
<1>b. op \in frames \ late /\ failed' = failed \cup {op}
    BY DEF LegTimeout
<1>c. UNCHANGED <<data, head, oldest, pos, voided, carried, open, queue, failures, seeded, discarded, direct, adopted>>
    BY DEF LegTimeout, store, gate, history
<1>d. UNCHANGED <<pc, reports, infos, plan, pull, dump>>
    BY DEF LegTimeout, task
<1>e. frames' \subseteq frames /\ frames \ {op} \subseteq frames' /\ late' \subseteq frames' /\ late' \subseteq late \cup {op}
    BY <1>a, <1>b DEF LegTimeout, Shapes
<1>1. Grown
    BY <1>a, <1>c, SameGrown
<1>2. Shapes'
    BY <1>a, <1>c, <1>e DEF Shapes
<1>3. Wired'
    BY <1>a, <1>b, <1>c, <1>e DEF Wired, Issued
<1>4. Pulling'
    <2>1. \A q \in Peer : head[q] <= head'[q] /\ pos[q] <= pos'[q]
        BY <1>a, <1>c, Nodes DEF Shapes
    <2> QED
        BY <1>a, <1>d, <1>1, <1>2, <2>1, PullingStays
<1>5. Spread'
    BY <1>a, <1>b, <1>c, <1>1, SpreadStays
<1>6. Exempt' = Exempt \cup {op} /\ \A o \in Op : o # op => (Waits(o)' <=> Waits(o))
    BY <1>b, <1>c, <1>e DEF Exempt, Waits, Queued
<1>7. Captured'
    <2>1. \A o \in Op : Issued(o)' /\ o \notin Exempt' => Waits(o)' \/ (Issued(o) /\ o \notin Exempt /\ ~Waits(o))
        BY <1>c, <1>6 DEF Issued
    <2> QED
        BY <1>a, <1>b, <1>d, <1>1, <2>1, CapturedStays
<1>8. Caught'
    <2>1. \A o \in Op : o[1] \in Peer /\ o \notin Exempt' =>
               /\ o[2] <= head'[o[1]] => Waits(o)' \/ data'[Me][o] > 0 \/ (o[2] <= head[o[1]] /\ ~Waits(o))
               /\ o[2] <= pos'[o[1]] => data'[Me][o] > 0 \/ o[2] <= pos[o[1]]
        BY <1>c, <1>6
    <2> QED
        BY <1>a, <1>c, <1>1, <1>6, <2>1, CaughtStays
<1>9. Gone'
    BY <1>a, <1>c, GoneStays
<1> QED
    BY <1>2, <1>3, <1>4, <1>5, <1>7, <1>8, <1>9 DEF IInv

-----------------------------------------------------------------------------
(* Replay                                                                  *)

\* A position only rises, and to a write within the journal.
LEMMA Raised ==
    ASSUME Shapes, NEW p \in Peer, NEW k \in Int, k <= head[p],
           pos' = pos \/ pos' = [pos EXCEPT ![p] = IF @ >= k THEN @ ELSE k]
    PROVE /\ pos' \in [Peer -> Int]
          /\ \A q \in Peer : pos[q] <= pos'[q] /\ NoPos <= pos'[q] /\ pos'[q] <= head[q]
          /\ \A q \in Peer : pos'[q] = pos[q] \/ (q = p /\ pos'[q] = k)
<1>1. pos \in [Peer -> Int] /\ \A q \in Peer : NoPos <= pos[q] /\ pos[q] <= head[q]
    BY DEF Shapes
<1>2. \A q \in Peer : head[q] \in Int
    BY Nodes DEF Shapes
<1>3. CASE pos' = pos
    BY <1>1, <1>3
<1>4. CASE pos' = [pos EXCEPT ![p] = IF @ >= k THEN @ ELSE k]
    <2>1. pos' \in [Peer -> Int] /\ \A q \in Peer : pos'[q] = IF q = p /\ ~(pos[p] >= k) THEN k ELSE pos[q]
        BY <1>1, <1>4
    <2> QED
        BY <1>1, <1>2, <2>1 DEF NoPos
<1> QED
    BY <1>3, <1>4

\* A write of a peer is replayed unless the position covers it; all older
\* ones of its origin are exempt or no longer wait.
Replayed(op) ==
    /\ op \in Op /\ Issued(op) /\ UNCHANGED <<head, oldest, voided>>
    /\ (pos[op[1]] >= op[2] /\ UNCHANGED <<data, pos>>) \/ (~(pos[op[1]] >= op[2]) /\ ApplySeq(op))

\* Replaying keeps databases and positions in shape.
LEMMA ReplayedIs ==
    ASSUME Shapes, NEW op, Replayed(op)
    PROVE /\ Grown /\ pos' \in [Peer -> Int]
          /\ \A q \in Peer : head[q] <= head'[q] /\ pos[q] <= pos'[q] /\ NoPos <= pos'[q] /\ pos'[q] <= head'[q]
          /\ \A n \in Node : \A o \in Op : n # Me \/ o # op => data'[n][o] = data[n][o]
          /\ \A q \in Peer : pos'[q] = pos[q] \/ (q = op[1] /\ pos'[q] = op[2])
          /\ ~(pos[op[1]] >= op[2]) => data'[Me][op] > 0
<1>1. op \in Op /\ op[1] \in Peer /\ op[2] <= head[op[1]] /\ op[2] \in Int /\ head' = head
    BY OpIs DEF Replayed, Issued
<1>2. \A q \in Peer : head[q] \in Int
    BY Nodes DEF Shapes
<1>3. CASE pos[op[1]] >= op[2] /\ UNCHANGED <<data, pos>>
    BY <1>1, <1>2, <1>3, SameGrown, Raised
<1>4. CASE ~(pos[op[1]] >= op[2]) /\ ApplySeq(op)
    <2>1. data' = Applied(op)
        BY <1>4 DEF ApplySeq
    <2>2. pos' = pos \/ pos' = [pos EXCEPT ![op[1]] = IF @ >= op[2] THEN @ ELSE op[2]]
        <3>1. pos' = [pos EXCEPT ![op[1]] = IF Fails(op) \/ @ >= op[2] THEN @ ELSE op[2]] /\ pos \in [Peer -> Int]
            BY <1>4 DEF ApplySeq, Shapes
        <3>2. CASE Fails(op)
            BY <3>1, <3>2
        <3>3. CASE ~Fails(op)
            BY <3>1, <3>3
        <3> QED
            BY <3>2, <3>3
    <2>3. /\ Grown /\ data'[Me][op] > 0
          /\ \A n \in Node : \A o \in Op : n # Me \/ o # op => data'[n][o] = data[n][o]
        BY <1>1, <2>1, AppliedIs
    <2>4. /\ pos' \in [Peer -> Int]
          /\ \A q \in Peer : pos[q] <= pos'[q] /\ NoPos <= pos'[q] /\ pos'[q] <= head[q]
          /\ \A q \in Peer : pos'[q] = pos[q] \/ (q = op[1] /\ pos'[q] = op[2])
        BY <1>1, <2>2, Raised
    <2> QED
        BY <1>1, <1>2, <2>3, <2>4
<1> QED
    BY <1>3, <1>4 DEF Replayed

\* After an adoption a replayed write is there, and so is everything its
\* position covers, when no older write of its origin still waits.
LEMMA ReplayedCaught ==
    ASSUME Shapes, Caught, adopted, NEW op, Replayed(op), NEW o \in Op, o[1] \in Peer, o \notin Exempt,
           o[1] = op[1] /\ o[2] < op[2] => ~Waits(o)
    PROVE (o = op => data'[Me][o] > 0) /\ (o[2] <= pos'[o[1]] => data'[Me][o] > 0)
<1>1. op \in Op /\ op[1] \in Peer /\ op[2] <= head[op[1]] /\ op[2] \in Nat /\ o[2] \in Nat /\ head[o[1]] \in Nat /\ pos[o[1]] \in Int
    BY OpIs, Nodes DEF Replayed, Issued, Shapes
<1>2. /\ Grown
      /\ ~(pos[op[1]] >= op[2]) => data'[Me][op] > 0
      /\ pos'[o[1]] = pos[o[1]] \/ (o[1] = op[1] /\ pos'[o[1]] = op[2])
    BY ReplayedIs
<1>3. /\ o[2] <= head[o[1]] => data[Me][o] > 0 \/ Waits(o)
      /\ o[2] <= pos[o[1]] => data[Me][o] > 0
    BY DEF Caught
<1>4. data[Me][o] > 0 => data'[Me][o] > 0
    BY <1>2, Nodes DEF Grown
<1>5. o = op => data'[Me][o] > 0
    BY <1>1, <1>2, <1>3, <1>4
<1>6. ASSUME o[2] <= pos'[o[1]] PROVE data'[Me][o] > 0
    <2>1. CASE o[2] <= pos[o[1]]
        BY <1>3, <1>4, <2>1
    <2>2. CASE o[1] = op[1] /\ o[2] <= op[2]
        <3>1. CASE o[2] < op[2]
            BY <1>1, <1>3, <1>4, <2>2, <3>1
        <3>2. CASE o[2] = op[2]
            <4>1. o = op
                BY <1>1, <2>2, <3>2, OpIs
            <4> QED
                BY <1>5, <4>1
        <3> QED
            BY <1>1, <2>2, <3>1, <3>2
    <2> QED
        BY <1>2, <1>6, <2>1, <2>2
<1> QED
    BY <1>5, <1>6

\* A delivered write: queued behind an open gate, replayed past a closed one.
LEMMA DeliverKept ==
    ASSUME IInv, NEW op \in Op, Deliver(op)
    PROVE IInv'
<1>a. Shapes /\ Wired /\ Pulling /\ Spread /\ Captured /\ Caught /\ Gone
    BY DEF IInv
<1>b. op \in frames /\ frames' = frames \ {op} /\ late' = late \ {op} /\ UNCHANGED <<carried, seeded, discarded, adopted>>
    BY DEF Deliver
<1>c. UNCHANGED <<pc, reports, infos, plan, pull, dump>>
    BY DEF Deliver, task
<1>d. frames \subseteq Op /\ late \subseteq frames /\ queue \in Seq(Op) /\ Issued(op)
    BY <1>a, <1>b DEF Shapes, Wired
<1>1. CASE open
    <2>1. queue' = Append(queue, op)
        BY <1>1 DEF Deliver
    <2>2. UNCHANGED <<data, head, oldest, pos, voided, failed, open, direct>>
        BY <1>1 DEF Deliver, store
    <2>3. /\ queue' \in Seq(Op) /\ Len(queue') = Len(queue) + 1 /\ queue'[Len(queue) + 1] = op /\ Len(queue) \in Nat
          /\ \A i \in 1..Len(queue) : i \in 1..Len(queue) + 1 /\ queue'[i] = queue[i]
        BY <1>d, <2>1, Appended
    <2>4. Grown
        BY <1>a, <2>2, SameGrown
    <2>5. Shapes'
        BY <1>a, <1>b, <1>d, <2>2, <2>3 DEF Shapes
    <2>6. \A i \in 1..Len(queue') : (i \in 1..Len(queue) /\ queue'[i] = queue[i]) \/ (i = Len(queue) + 1 /\ queue'[i] = op)
        BY <2>3
    <2>7. Wired'
        <3>1. late' \subseteq failed' /\ (\A o \in frames' : Issued(o)') /\ (~open' => queue' = <<>>)
            BY <1>a, <1>b, <1>1, <2>2 DEF Wired, Issued
        <3>2. \A i \in 1..Len(queue') : queue'[i][1] \in Peer /\ queue'[i][2] <= head'[queue'[i][1]]
            BY <1>a, <1>d, <2>2, <2>6 DEF Wired, Issued
        <3>3. \A o \in frames' : \A q \in frames' : o[1] = q[1] /\ o[2] < q[2] => o \in failed'
            BY <1>a, <1>b, <2>2 DEF Wired
        <3>4. \A o \in frames' : \A i \in 1..Len(queue') : o[1] = queue'[i][1] /\ o[2] < queue'[i][2] => o \in failed'
            BY <1>a, <1>b, <2>2, <2>6 DEF Wired
        <3>5. ASSUME NEW i \in 1..Len(queue'), NEW j \in 1..Len(queue'), i < j, queue'[i][1] = queue'[j][1], queue'[j][2] < queue'[i][2]
              PROVE queue'[j] \in failed'
            <4>1. i \in 1..Len(queue) /\ queue'[i] = queue[i]
                BY <2>3, <2>6, <3>5
            <4>2. CASE j \in 1..Len(queue) /\ queue'[j] = queue[j]
                BY <1>a, <2>2, <3>5, <4>1, <4>2 DEF Wired
            <4>3. CASE queue'[j] = op
                BY <1>a, <1>b, <2>2, <3>5, <4>1, <4>3 DEF Wired
            <4> QED
                BY <2>6, <4>2, <4>3
        <3> QED
            BY <3>1, <3>2, <3>3, <3>4, <3>5 DEF Wired, Issued
    <2>8. \A o \in Op : Waits(o)' <=> Waits(o)
        <3>1. \A o \in Op : Queued(o)' <=> Queued(o) \/ o = op
            <4>1. Len(queue) + 1 \in 1..Len(queue')
                BY <2>3
            <4>2. \A i \in 1..Len(queue) : i \in 1..Len(queue') /\ queue'[i] = queue[i]
                BY <2>3
            <4> QED
                BY <2>3, <2>6, <4>1, <4>2 DEF Queued
        <3> QED
            BY <1>b, <3>1 DEF Waits
    <2>9. Exempt' = Exempt
        BY <1>b, <2>2 DEF Exempt
    <2>10. Pulling'
        <3>1. \A q \in Peer : head[q] <= head'[q] /\ pos[q] <= pos'[q]
            BY <1>a, <2>2, Nodes DEF Shapes
        <3> QED
            BY <1>a, <1>c, <2>4, <2>5, <3>1, PullingStays
    <2>11. Spread'
        BY <1>a, <2>2, <2>4, SpreadStays
    <2>12. Captured'
        <3>1. \A o \in Op : Issued(o)' /\ o \notin Exempt' => Waits(o)' \/ (Issued(o) /\ o \notin Exempt /\ ~Waits(o))
            BY <2>2, <2>8, <2>9 DEF Issued
        <3> QED
            BY <1>a, <1>c, <2>2, <2>4, <3>1, CapturedStays
    <2>13. Caught'
        <3>1. \A o \in Op : o[1] \in Peer /\ o \notin Exempt' =>
               /\ o[2] <= head'[o[1]] => Waits(o)' \/ data'[Me][o] > 0 \/ (o[2] <= head[o[1]] /\ ~Waits(o))
               /\ o[2] <= pos'[o[1]] => data'[Me][o] > 0 \/ o[2] <= pos[o[1]]
            BY <2>2, <2>8
        <3> QED
            BY <1>a, <1>b, <2>4, <2>9, <3>1, CaughtStays
    <2>14. Gone'
        BY <1>a, <1>b, <2>2, GoneStays
    <2> QED
        BY <2>5, <2>7, <2>10, <2>11, <2>12, <2>13, <2>14 DEF IInv
<1>2. CASE ~open
    <2>1. UNCHANGED <<open, queue, failures>> /\ queue = <<>>
        BY <1>a, <1>2 DEF Deliver, gate, Wired
    <2>2. Replayed(op)
        BY <1>d, <1>2 DEF Deliver, Replayed, ApplySeq, store
    <2>3. failed \subseteq failed' /\ direct \subseteq direct' /\ (pc # "done" => op \in direct')
        BY <1>2 DEF Deliver
    <2>4. /\ Grown /\ pos' \in [Peer -> Int]
          /\ \A q \in Peer : head[q] <= head'[q] /\ pos[q] <= pos'[q] /\ NoPos <= pos'[q] /\ pos'[q] <= head'[q]
          /\ \A n \in Node : \A o \in Op : n # Me \/ o # op => data'[n][o] = data[n][o]
        BY <1>a, <2>2, ReplayedIs
    <2>5. UNCHANGED <<head, oldest, voided>>
        BY <2>2 DEF Replayed
    <2>6. Shapes'
        BY <1>a, <1>b, <2>1, <2>4, <2>5 DEF Shapes, Grown
    <2>7. Wired'
        BY <1>a, <1>b, <2>1, <2>3, <2>5 DEF Wired, Issued
    <2>8. Exempt \subseteq Exempt' /\ \A o \in Op : o # op => (Waits(o)' <=> Waits(o))
        BY <1>b, <2>1, <2>3 DEF Exempt, Waits, Queued
    <2>9. Pulling'
        BY <1>a, <1>c, <2>4, <2>6, PullingStays
    <2>10. Spread'
        BY <1>a, <2>3, <2>4, <2>5, SpreadStays
    <2>11. Captured'
        <3>1. CASE pc = "done"
            BY <1>c, <3>1 DEF Captured
        <3>2. CASE pc # "done"
            <4>1. \A o \in Op : Issued(o)' /\ o \notin Exempt' => Waits(o)' \/ (Issued(o) /\ o \notin Exempt /\ ~Waits(o))
                BY <2>3, <2>5, <2>8, <3>2 DEF Issued, Exempt
            <4> QED
                BY <1>a, <1>c, <2>3, <2>4, <4>1, CapturedStays
        <3> QED
            BY <3>1, <3>2
    <2>12. Caught'
        <3>1. ASSUME adopted, NEW o \in Op, o[1] \in Peer, o \notin Exempt'
              PROVE /\ o[2] <= head'[o[1]] => Waits(o)' \/ data'[Me][o] > 0 \/ (o[2] <= head[o[1]] /\ ~Waits(o))
                    /\ o[2] <= pos'[o[1]] => data'[Me][o] > 0 \/ o[2] <= pos[o[1]]
            <4>1. o \notin Exempt
                BY <2>8, <3>1
            <4>2. o[1] = op[1] /\ o[2] < op[2] => ~Waits(o)
                <5> SUFFICES ASSUME o[1] = op[1], o[2] < op[2], Waits(o) PROVE FALSE
                    OBVIOUS
                <5>1. ~Queued(o)
                    BY <2>1 DEF Queued
                <5>2. o \in failed
                    BY <1>a, <1>b, <5>1 DEF Wired, Waits
                <5> QED
                    BY <4>1, <5>2 DEF Exempt
            <4>3. (o = op => data'[Me][o] > 0) /\ (o[2] <= pos'[o[1]] => data'[Me][o] > 0)
                BY <1>a, <2>2, <3>1, <4>1, <4>2, ReplayedCaught
            <4> QED
                BY <2>5, <2>8, <4>3
        <3> QED
            BY <1>a, <1>b, <2>4, <2>8, <3>1, CaughtStays
    <2>13. Gone'
        <3>1. \A o \in discarded : o \in Op /\ o # op
            BY <1>a, <1>d, Nodes DEF Gone, Issued
        <3> QED
            BY <1>a, <1>b, <2>4, <2>5, <3>1, GoneStays
    <2> QED
        BY <2>6, <2>7, <2>9, <2>10, <2>11, <2>12, <2>13 DEF IInv
<1> QED
    BY <1>1, <1>2

\* A drained write: the front of the queue is replayed.
LEMMA DrainOneKept ==
    ASSUME IInv, DrainOne
    PROVE IInv'
<1>a. Shapes /\ Wired /\ Pulling /\ Spread /\ Captured /\ Caught /\ Gone
    BY DEF IInv
<1>b. queue # <<>> /\ queue' = Tail(queue) /\ pc # "adopt" /\ pc # "pull"
    BY DEF DrainOne
<1>c. UNCHANGED <<frames, late, failed, carried, open, seeded, discarded, direct, adopted>>
    BY DEF DrainOne, wire, history
<1>d. UNCHANGED <<pc, reports, infos, plan, pull, dump>>
    BY DEF DrainOne, task
<1> PICK op \in {Head(queue)} : TRUE
    OBVIOUS
<1>1. /\ queue' \in Seq(Op) /\ Len(queue) \in Nat /\ Len(queue') = Len(queue) - 1 /\ 1 \in 1..Len(queue)
      /\ op = queue[1] /\ op \in Op
      /\ \A i \in 1..Len(queue) - 1 : i + 1 \in 1..Len(queue) /\ queue'[i] = queue[i + 1]
    <2>1. queue \in Seq(Op)
        BY <1>a DEF Shapes
    <2> QED
        BY <1>b, <2>1, Taken
<1>2. Issued(op)
    BY <1>a, <1>1 DEF Wired
<1>3. Replayed(op)
    BY <1>1, <1>2 DEF DrainOne, Replayed, ApplySeq, store
<1>4. /\ Grown /\ pos' \in [Peer -> Int]
      /\ \A q \in Peer : head[q] <= head'[q] /\ pos[q] <= pos'[q] /\ NoPos <= pos'[q] /\ pos'[q] <= head'[q]
      /\ \A n \in Node : \A o \in Op : n # Me \/ o # op => data'[n][o] = data[n][o]
    BY <1>a, <1>3, ReplayedIs
<1>5. UNCHANGED <<head, oldest, voided>>
    BY <1>3 DEF Replayed
<1>6. Shapes'
    BY <1>a, <1>c, <1>1, <1>4, <1>5 DEF Shapes, Grown
<1>7. \A i \in 1..Len(queue') : i + 1 \in 1..Len(queue) /\ queue'[i] = queue[i + 1]
    BY <1>1
<1>8. Wired'
    <2>1. late' \subseteq failed' /\ (\A o \in frames' : Issued(o)')
        BY <1>a, <1>c, <1>5 DEF Wired, Issued
    <2>2. ~open' => queue' = <<>>
        BY <1>a, <1>b, <1>c DEF Wired
    <2>3. \A o \in frames' : \A q \in frames' : o[1] = q[1] /\ o[2] < q[2] => o \in failed'
        BY <1>a, <1>c DEF Wired
    <2>4. \A i \in 1..Len(queue') : queue'[i][1] \in Peer /\ queue'[i][2] <= head'[queue'[i][1]]
        BY <1>a, <1>5, <1>7 DEF Wired, Issued
    <2>5. \A o \in frames' : \A i \in 1..Len(queue') : o[1] = queue'[i][1] /\ o[2] < queue'[i][2] => o \in failed'
        BY <1>a, <1>c, <1>7 DEF Wired
    <2>6. ASSUME NEW i \in 1..Len(queue'), NEW j \in 1..Len(queue'), i < j, queue'[i][1] = queue'[j][1], queue'[j][2] < queue'[i][2]
          PROVE queue'[j] \in failed'
        <3>1. i + 1 \in 1..Len(queue) /\ j + 1 \in 1..Len(queue) /\ i + 1 < j + 1 /\ queue'[i] = queue[i + 1] /\ queue'[j] = queue[j + 1]
            BY <1>7, <2>6
        <3> QED
            BY <1>a, <1>c, <2>6, <3>1 DEF Wired
    <2> QED
        BY <2>1, <2>2, <2>3, <2>4, <2>5, <2>6 DEF Wired, Issued
<1>9. Exempt' = Exempt
    BY <1>c DEF Exempt
<1>10. \A o \in Op : o # op /\ Waits(o) => Waits(o)'
    <2> SUFFICES ASSUME NEW o \in Op, o # op, NEW i \in 1..Len(queue), queue[i] = o PROVE Queued(o)'
        BY <1>c DEF Waits, Queued
    <2>1. i # 1 /\ i - 1 \in 1..Len(queue) - 1 /\ (i - 1) + 1 = i
        BY <1>1
    <2>2. i - 1 \in 1..Len(queue') /\ queue'[i - 1] = o
        BY <1>1, <2>1
    <2> QED
        BY <2>2 DEF Queued
<1>11. Pulling'
    BY <1>a, <1>d, <1>4, <1>6, PullingStays
<1>12. Spread'
    BY <1>a, <1>c, <1>4, <1>5, SpreadStays
<1>13. Captured'
    BY <1>b, <1>d DEF Captured
<1>14. Caught'
    <2>1. ASSUME adopted, NEW o \in Op, o[1] \in Peer, o \notin Exempt'
          PROVE /\ o[2] <= head'[o[1]] => Waits(o)' \/ data'[Me][o] > 0 \/ (o[2] <= head[o[1]] /\ ~Waits(o))
                /\ o[2] <= pos'[o[1]] => data'[Me][o] > 0 \/ o[2] <= pos[o[1]]
        <3>1. o \notin Exempt /\ o \notin failed
            BY <1>9, <2>1 DEF Exempt
        <3>2. o[1] = op[1] /\ o[2] < op[2] => ~Waits(o)
            <4> SUFFICES ASSUME o[1] = op[1], o[2] < op[2], Waits(o) PROVE FALSE
                OBVIOUS
            <4>1. o \notin frames
                BY <1>a, <1>1, <3>1 DEF Wired
            <4>2. PICK j \in 1..Len(queue) : queue[j] = o
                BY <4>1 DEF Waits, Queued
            <4>3. j # 1 /\ 1 < j
                BY <1>1, <2>1, <4>2, OpIs
            <4> QED
                BY <1>a, <1>1, <3>1, <4>2, <4>3 DEF Wired
        <3>3. (o = op => data'[Me][o] > 0) /\ (o[2] <= pos'[o[1]] => data'[Me][o] > 0)
            BY <1>a, <1>3, <2>1, <3>1, <3>2, ReplayedCaught
        <3> QED
            BY <1>5, <1>10, <3>3
    <2> QED
        BY <1>a, <1>c, <1>4, <1>9, <2>1, CaughtStays
<1>15. Gone'
    <2>1. \A o \in discarded : o \in Op /\ o # op
        BY <1>a, <1>2, Nodes DEF Gone, Issued
    <2> QED
        BY <1>a, <1>c, <1>4, <1>5, <2>1, GoneStays
<1> QED
    BY <1>6, <1>8, <1>11, <1>12, <1>13, <1>14, <1>15 DEF IInv

-----------------------------------------------------------------------------
(* Pulled ranges                                                           *)

\* A pull that fails leaves what it applied, and no position.
LEMMA PullOver ==
    ASSUME IInv, Aside, PullFails, UNCHANGED <<reports, infos>>
    PROVE IInv'
<1>1. pc' = "decide" /\ pull' = None /\ UNCHANGED <<reports, infos, head>>
    BY DEF PullFails, Goto, Aside, store
<1>2. Pulling' /\ Captured'
    BY <1>1 DEF IInv, Pulling, PullComplete, Captured
<1> QED
    BY <1>2, AsideKept

\* One entry of a pulled range.
LEMMA PullOneKept ==
    ASSUME IInv, PullOne
    PROVE IInv'
<1>a. Shapes /\ Wired /\ Pulling /\ Spread /\ Captured /\ Caught /\ Gone
    BY DEF IInv
<1>b. pc = "pull" /\ pull # None /\ NextEntry <= pull.head
    BY DEF PullOne
<1>c. UNCHANGED <<head, oldest, pos, voided, frames, late, failed, carried, open, queue, failures, seeded, discarded, direct, adopted>>
    BY DEF PullOne, wire, gate, history
<1>d. UNCHANGED <<reports, infos, plan, dump>>
    BY DEF PullOne
<1>1. CASE PullFails /\ UNCHANGED data
    <2>1. Aside
        BY <1>c, <1>1 DEF Aside, store, wire, gate, history
    <2> QED
        BY <1>d, <1>1, <2>1, PullOver
<1> PICK op \in {<<pull.peer, NextEntry>>} : TRUE
    OBVIOUS
<1>2. CASE /\ NextEntry = pull.at + 1 /\ data' = Applied(op) /\ pull' = [pull EXCEPT !.at = NextEntry] /\ UNCHANGED pc
    <2>1. /\ pull \in Pull /\ pull.from <= pos[pull.peer] /\ pull.from <= pull.at /\ pull.head <= head[pull.peer]
        BY <1>a, <1>b DEF Pulling
    <2>2. pull.peer \in Peer /\ pull.from \in Nat /\ pull.at \in Nat /\ pull.head \in Nat
        BY <2>1 DEF Pull
    <2>3. pull.peer \in Node /\ head[pull.peer] \in Nat /\ MaxSeq[pull.peer] \in Nat /\ head[pull.peer] <= MaxSeq[pull.peer]
        BY <1>a, <2>2, Nodes, RepairAssumption DEF Shapes
    <2>4. pull.at + 1 \in 1..MaxSeq[pull.peer]
        BY <1>b, <1>2, <2>1, <2>2, <2>3
    <2>5. op \in Op /\ op[1] = pull.peer /\ op[2] = pull.at + 1
        BY <1>2, <2>3, <2>4, OpOf
    <2>6. /\ Grown /\ data'[Me][op] > 0
          /\ \A n \in Node : \A o \in Op : n # Me \/ o # op => data'[n][o] = data[n][o]
        BY <1>a, <1>2, <2>2, <2>5, AppliedIs
    <2>7. pull' \in Pull /\ pull'.peer = pull.peer /\ pull'.from = pull.from /\ pull'.head = pull.head /\ pull'.at = pull.at + 1
        BY <1>2, <2>1, <2>2 DEF Pull
    <2>8. Shapes'
        BY <1>a, <1>c, <2>6 DEF Shapes, Grown
    <2>9. Wired'
        BY <1>a, <1>c DEF Wired, Issued
    <2>10. PullComplete'
        <3> SUFFICES ASSUME NEW o \in Op, o[1] = pull.peer, o[2] \in (pull.from + 1)..(pull.at + 1) PROVE data'[Me][o] > 0
            BY <2>7 DEF PullComplete
        <3>1. CASE o[2] = pull.at + 1
            <4>1. o = op
                BY <2>5, <3>1, OpIs
            <4> QED
                BY <2>6, <4>1
        <3>2. CASE o[2] # pull.at + 1
            <4>1. o[2] \in (pull.from + 1)..pull.at
                BY <2>2, <3>2
            <4>2. data[Me][o] > 0
                BY <1>a, <1>b, <4>1 DEF Pulling, PullComplete
            <4> QED
                BY <2>6, <4>2, Nodes DEF Grown
        <3> QED
            BY <3>1, <3>2
    <2>11. Pulling'
        <3>1. pull'.from <= pull'.at /\ pull'.at <= pull'.head
            BY <1>b, <1>2, <2>1, <2>2, <2>7
        <3> QED
            BY <1>a, <1>b, <1>c, <1>d, <1>2, <2>1, <2>7, <2>10, <3>1 DEF Pulling
    <2>12. Spread'
        BY <1>a, <1>c, <2>6, SpreadStays
    <2>13. Captured'
        BY <1>b, <1>2 DEF Captured
    <2>14. Caught'
        <3>1. Exempt' = Exempt /\ \A o \in Op : Waits(o)' <=> Waits(o)
            BY <1>c DEF Exempt, Waits, Queued
        <3> QED
            BY <1>a, <1>c, <2>6, <3>1, CaughtStays
    <2>15. Gone'
        <3>1. \A o \in discarded : o \in Op /\ o # op
            BY <1>a, <2>2, <2>5, Nodes DEF Gone
        <3> QED
            BY <1>a, <1>c, <2>6, <3>1, GoneStays
    <2> QED
        BY <2>8, <2>9, <2>11, <2>12, <2>13, <2>14, <2>15 DEF IInv
<1> QED
    BY <1>1, <1>2 DEF PullOne

\* The end of a range: its head becomes the position, and everything up to it
\* is there, before the range by the old position and in it by the pull.
LEMMA PullEndKept ==
    ASSUME IInv, PullEnd
    PROVE IInv'
<1>a. Shapes /\ Wired /\ Pulling /\ Spread /\ Captured /\ Caught /\ Gone
    BY DEF IInv
<1>b. pc = "pull" /\ pull # None
    BY DEF PullEnd
<1>c. UNCHANGED <<data, head, oldest, voided, frames, late, failed, carried, open, queue, failures, seeded, discarded, direct, adopted>>
    BY DEF PullEnd, wire, gate, history
<1>d. UNCHANGED <<reports, infos, dump>>
    BY DEF PullEnd
<1>1. CASE pull.at # pull.head
    <2>1. PullFails /\ UNCHANGED pos
        BY <1>1 DEF PullEnd
    <2>2. Aside
        BY <1>c, <2>1 DEF Aside, store, wire, gate, history
    <2> QED
        BY <1>d, <2>1, <2>2, PullOver
<1>2. CASE pull.at = pull.head
    <2>1. /\ pos' = [pos EXCEPT ![pull.peer] = IF @ >= pull.head THEN @ ELSE pull.head]
          /\ pull' = None /\ plan' = Restrict(plan, DOMAIN plan \ {pull.peer}) /\ UNCHANGED pc
        BY <1>2 DEF PullEnd
    <2>2. pull \in Pull /\ pull.from <= pos[pull.peer] /\ pull.head <= head[pull.peer]
        BY <1>a, <1>b DEF Pulling
    <2>3. pull.peer \in Peer /\ pull.from \in Nat /\ pull.at \in Nat /\ pull.head \in Nat
        BY <2>2 DEF Pull
    <2>4. /\ pos' \in [Peer -> Int]
          /\ \A q \in Peer : pos[q] <= pos'[q] /\ NoPos <= pos'[q] /\ pos'[q] <= head[q]
          /\ \A q \in Peer : pos'[q] = pos[q] \/ (q = pull.peer /\ pos'[q] = pull.head)
        <3>1. pull.head \in Int
            BY <2>3
        <3> QED
            BY <1>a, <2>1, <2>2, <2>3, <3>1, Raised
    <2>5. Shapes'
        BY <1>a, <1>c, <2>4 DEF Shapes
    <2>6. Wired'
        BY <1>a, <1>c DEF Wired, Issued
    <2>7. Pulling'
        <3>1. \A p \in DOMAIN plan' : p \in DOMAIN plan /\ plan'[p] = plan[p]
            BY <2>1 DEF Restrict
        <3>2. \A p \in DOMAIN plan' : p \in Peer /\ plan'[p] \in Nat /\ plan'[p] <= pos'[p]
            <4> SUFFICES ASSUME NEW p \in DOMAIN plan' PROVE p \in Peer /\ plan'[p] \in Nat /\ plan'[p] <= pos'[p]
                OBVIOUS
            <4>1. p \in Peer /\ plan'[p] \in Nat /\ plan'[p] <= pos[p]
                BY <1>a, <1>b, <3>1 DEF Pulling
            <4>2. pos[p] \in Int /\ pos'[p] \in Int /\ pos[p] <= pos'[p]
                BY <1>a, <2>4, <4>1 DEF Shapes
            <4> QED
                BY <4>1, <4>2
        <3> QED
            BY <1>a, <1>c, <1>d, <2>1, <3>2 DEF Pulling, PullComplete
    <2>8. Spread'
        BY <1>a, <1>c DEF Spread, Issued
    <2>9. Captured'
        BY <1>b, <2>1 DEF Captured
    <2>10. Caught'
        <3>1. Exempt' = Exempt /\ \A o \in Op : Waits(o)' <=> Waits(o)
            BY <1>c DEF Exempt, Waits, Queued
        <3>2. ASSUME adopted, NEW o \in Op, o[1] \in Peer, o \notin Exempt', o[2] <= pos'[o[1]]
              PROVE data'[Me][o] > 0 \/ o[2] <= pos[o[1]]
            <4>1. CASE pos'[o[1]] = pos[o[1]]
                BY <3>2, <4>1
            <4>2. CASE o[1] = pull.peer /\ pos'[o[1]] = pull.head
                <5>1. o[2] \in Nat /\ pos[pull.peer] \in Int
                    BY <1>a, <2>3, OpIs DEF Shapes
                <5>2. CASE o[2] <= pull.from
                    BY <2>2, <2>3, <4>2, <5>1, <5>2
                <5>3. CASE ~(o[2] <= pull.from)
                    <6>1. o[2] \in (pull.from + 1)..pull.at
                        BY <1>2, <2>3, <3>2, <4>2, <5>1, <5>3
                    <6> QED
                        BY <1>a, <1>b, <1>c, <4>2, <6>1 DEF Pulling, PullComplete
                <5> QED
                    BY <5>2, <5>3
            <4> QED
                BY <2>4, <3>2, <4>1, <4>2
        <3>3. Grown
            BY <1>a, <1>c, SameGrown
        <3> QED
            BY <1>a, <1>c, <3>1, <3>2, <3>3, CaughtStays
    <2>11. Gone'
        BY <1>a, <1>c, GoneStays
    <2> QED
        BY <2>5, <2>6, <2>7, <2>8, <2>9, <2>10, <2>11 DEF IInv
<1> QED
    BY <1>1, <1>2

-----------------------------------------------------------------------------
(* Adoption, the end of the repair, and a crash in the middle of it        *)

\* The snapshot replaces the database: what it lacks waits, what the seeded
\* positions cover it has, and what it discards no peer has.
LEMMA AdoptKept ==
    ASSUME IInv, Adopt
    PROVE IInv'
<1>a. Shapes /\ Wired /\ Pulling /\ Spread /\ Captured
    BY DEF IInv
<1>b. pc = "adopt" /\ data' = [data EXCEPT ![Me] = dump] /\ pos' = [p \in Peer |-> Floor(p)] /\ pc' = "adopted"
    BY DEF Adopt, Goto
<1>c. UNCHANGED <<head, oldest, frames, late, failed, carried, open, queue, seeded, direct>>
    BY DEF Adopt, wire
<1>d. UNCHANGED <<reports, infos, pull>>
    BY DEF Adopt
<1>e. \A o \in discarded' : o \in Op /\ o[1] = Me /\ o \in voided' /\ \A p \in Peer : data[p][o] = 0 /\ <<p, o>> \notin carried
    BY DEF Adopt, Elsewhere
<1>1. /\ dump \in [Op -> Nat] /\ \A o \in Op : Issued(o) /\ o \notin Exempt => dump[o] > 0 \/ Waits(o)
      /\ \A p \in DOMAIN infos : \A o \in Op : o[1] = p /\ o[2] <= infos[p].head /\ o \notin failed => dump[o] > 0
    BY <1>a, <1>b DEF Captured
<1>2. PICK p \in Peer : \A o \in Op : dump[o] > 0 => data[p][o] > 0
    BY <1>a, <1>b DEF Captured
<1>3. data' \in [Node -> [Op -> Nat]] /\ data'[Me] = dump /\ \A n \in Node : n # Me => data'[n] = data[n]
    BY <1>a, <1>b, <1>1, Nodes DEF Shapes
<1>4. \A q \in Peer : /\ pos'[q] = Floor(q) /\ Floor(q) \in Int /\ NoPos <= Floor(q) /\ Floor(q) <= head[q]
                      /\ Floor(q) = NoPos \/ (q \in DOMAIN infos /\ Floor(q) = infos[q].head)
    <2> SUFFICES ASSUME NEW q \in Peer
                 PROVE /\ pos'[q] = Floor(q) /\ Floor(q) \in Int /\ NoPos <= Floor(q) /\ Floor(q) <= head[q]
                       /\ Floor(q) = NoPos \/ (q \in DOMAIN infos /\ Floor(q) = infos[q].head)
        OBVIOUS
    <2>1. q \in DOMAIN infos => infos[q].head \in Nat /\ infos[q].head <= head[q]
        BY <1>a DEF Pulling
    <2>2. head[q] \in Nat
        BY <1>a, Nodes DEF Shapes
    <2> QED
        BY <1>b, <2>1, <2>2 DEF Floor, NoPos
<1>5. Shapes'
    <2>1. pos' \in [Peer -> Int]
        BY <1>b, <1>4
    <2> QED
        BY <1>a, <1>c, <1>3, <1>4, <2>1 DEF Shapes
<1>6. Wired'
    BY <1>a, <1>c DEF Wired, Issued
<1>7. Pulling'
    BY <1>a, <1>b, <1>c, <1>d, NotPulling
<1>8. Spread'
    <2> SUFFICES ASSUME NEW o \in Op, Issued(o), o \notin failed, NEW q \in Peer PROVE data'[q][o] > 0
        BY <1>c DEF Spread, Issued
    <2> QED
        BY <1>a, <1>3, Nodes DEF Spread
<1>9. Captured'
    BY <1>b DEF Captured
<1>10. Caught'
    <2>1. Exempt' = Exempt /\ failed \subseteq Exempt /\ \A o \in Op : Waits(o)' <=> Waits(o)
        BY <1>c DEF Exempt, Waits, Queued
    <2> SUFFICES ASSUME NEW o \in Op, o[1] \in Peer, o \notin Exempt
                 PROVE /\ o[2] <= head[o[1]] => dump[o] > 0 \/ Waits(o)
                       /\ o[2] <= pos'[o[1]] => dump[o] > 0
        BY <1>c, <1>3, <2>1 DEF Caught
    <2>2. o[2] <= head[o[1]] => dump[o] > 0 \/ Waits(o)
        BY <1>1 DEF Issued
    <2>3. ASSUME o[2] <= pos'[o[1]] PROVE dump[o] > 0
        <3>1. o[2] \in Nat /\ 1 <= o[2]
            BY OpIs
        <3>2. o[1] \in DOMAIN infos /\ pos'[o[1]] = infos[o[1]].head
            BY <1>4, <2>3, <3>1 DEF NoPos
        <3> QED
            BY <1>1, <2>1, <2>3, <3>2
    <2> QED
        BY <2>2, <2>3
<1>11. Gone'
    <2> SUFFICES ASSUME NEW o \in discarded', NEW n \in Node PROVE data'[n][o] = 0
        BY <1>c, <1>e DEF Gone
    <2>1. CASE n \in Peer
        BY <1>e, <1>3, <2>1, Nodes
    <2>2. CASE n = Me
        <3>1. o \in Op /\ data[p][o] = 0 /\ dump[o] \in Nat
            BY <1>e, <1>1
        <3>2. ~(dump[o] > 0)
            BY <1>2, <3>1
        <3> QED
            BY <1>3, <2>2, <3>1, <3>2
    <2> QED
        BY <2>1, <2>2, Nodes
<1> QED
    BY <1>5, <1>6, <1>7, <1>8, <1>9, <1>10, <1>11 DEF IInv

\* The gate closes on an empty queue.
LEMMA CloseKept ==
    ASSUME IInv, Close
    PROVE IInv'
<1>a. Shapes /\ Wired /\ Pulling /\ Spread /\ Captured /\ Caught /\ Gone
    BY DEF IInv
<1>1. pc # "pull" /\ pc' # "pull" /\ pc' # "adopt" /\ queue = <<>>
    BY DEF Close, Goto
<1>2. UNCHANGED <<data, head, oldest, pos, voided, frames, late, failed, carried, queue, seeded, discarded, direct, adopted>>
    BY DEF Close, store, wire, history
<1>3. UNCHANGED <<reports, infos, pull>>
    BY DEF Close
<1>4. Shapes'
    BY <1>a, <1>2 DEF Shapes
<1>5. Wired'
    BY <1>a, <1>1, <1>2 DEF Wired, Issued
<1>6. Pulling'
    BY <1>a, <1>1, <1>2, <1>3, NotPulling
<1>7. Spread'
    BY <1>a, <1>2 DEF Spread, Issued
<1>8. Captured'
    BY <1>1 DEF Captured
<1>9. Caught'
    BY <1>a, <1>2 DEF Caught, Exempt, Waits, Queued
<1>10. Gone'
    BY <1>a, <1>2 DEF Gone
<1> QED
    BY <1>4, <1>5, <1>6, <1>7, <1>8, <1>9, <1>10 DEF IInv

\* A position is raised to a peer's current head: what it passes is recorded.
LEMMA SeedFreshKept ==
    ASSUME IInv, NEW p \in Peer, SeedFresh(p)
    PROVE IInv'
<1>a. Shapes /\ Wired /\ Pulling /\ Spread /\ Captured /\ Caught /\ Gone
    BY DEF IInv
<1>1. pc = "seed" /\ pc' = pc
    BY DEF SeedFresh
<1>2. UNCHANGED <<data, head, oldest, voided, frames, late, failed, carried, open, queue, discarded, direct, adopted>>
    BY DEF SeedFresh, wire, gate
<1>3. UNCHANGED <<reports, infos, pull>>
    BY DEF SeedFresh
<1>4. \/ UNCHANGED <<pos, seeded>>
      \/ /\ pos' = [pos EXCEPT ![p] = IF @ >= head[p] THEN @ ELSE head[p]]
         /\ seeded' = seeded \cup {o \in Op : o[1] = p /\ o[2] <= head[p] /\ data[Me][o] = 0}
    BY DEF SeedFresh
<1>5. /\ pos' \in [Peer -> Int]
      /\ \A q \in Peer : pos[q] <= pos'[q] /\ NoPos <= pos'[q] /\ pos'[q] <= head[q]
      /\ \A q \in Peer : pos'[q] = pos[q] \/ (q = p /\ pos'[q] = head[p])
    <2>1. head[p] \in Int /\ head[p] <= head[p]
        BY <1>a, Nodes DEF Shapes
    <2> QED
        BY <1>a, <1>4, <2>1, Raised
<1>6. Shapes'
    BY <1>a, <1>2, <1>5 DEF Shapes
<1>7. Wired'
    BY <1>a, <1>2 DEF Wired, Issued
<1>8. Pulling'
    BY <1>a, <1>1, <1>2, <1>3, NotPulling
<1>9. Spread'
    BY <1>a, <1>2 DEF Spread, Issued
<1>10. Captured'
    BY <1>1 DEF Captured
<1>11. Caught'
    <2>1. Exempt \subseteq Exempt' /\ \A o \in Op : Waits(o)' <=> Waits(o)
        BY <1>2, <1>4 DEF Exempt, Waits, Queued
    <2>2. ASSUME NEW o \in Op, o[1] \in Peer, o \notin Exempt', o[2] <= pos'[o[1]]
          PROVE data'[Me][o] > 0 \/ o[2] <= pos[o[1]]
        <3>1. CASE pos'[o[1]] = pos[o[1]]
            BY <2>2, <3>1
        <3>2. CASE o[1] = p /\ pos'[o[1]] = head[p] /\ pos'[o[1]] # pos[o[1]]
            <4>1. data[Me][o] # 0
                BY <1>4, <2>2, <3>2 DEF Exempt
            <4>2. data[Me][o] \in Nat
                BY <1>a, Nodes DEF Shapes
            <4> QED
                BY <1>2, <4>1, <4>2
        <3> QED
            BY <1>5, <2>2, <3>1, <3>2
    <2>3. Grown
        BY <1>a, <1>2, SameGrown
    <2> QED
        BY <1>a, <1>2, <2>1, <2>2, <2>3, CaughtStays
<1>12. Gone'
    BY <1>a, <1>2, GoneStays
<1> QED
    BY <1>6, <1>7, <1>8, <1>9, <1>10, <1>11, <1>12 DEF IInv

\* A crash in the middle of the repair: all that waited has failed.
LEMMA RestartKept ==
    ASSUME IInv, Restart
    PROVE IInv'
<1>a. Shapes /\ Wired /\ Spread /\ Caught /\ Gone
    BY DEF IInv
<1>1. UNCHANGED <<data, head, oldest, pos, voided, carried, seeded, discarded, direct, adopted>>
    BY DEF Restart, store, history
<1>2. open' = TRUE /\ queue' = <<>> /\ frames' = {} /\ late' = {} /\ failed' = failed \cup frames \cup ToSet(queue)
    BY DEF Restart
<1>3. Pulling' /\ Captured'
    BY RoundStarts DEF Restart
<1>4. Len(queue') = 0 /\ queue' \in Seq(Op)
    BY <1>2
<1>5. Shapes'
    BY <1>a, <1>1, <1>2, <1>4 DEF Shapes
<1>6. Wired'
    BY <1>2, <1>4 DEF Wired
<1>7. Grown /\ failed \subseteq failed' /\ Exempt \subseteq Exempt'
    BY <1>a, <1>1, <1>2, SameGrown DEF Exempt
<1>8. Spread'
    BY <1>a, <1>1, <1>7, SpreadStays
<1>9. Caught'
    <2>1. \A o \in Op : Waits(o) => o \in Exempt'
        <3>1. \A o \in Op : Queued(o) => o \in ToSet(queue)
            BY <1>a DEF Queued, ToSet, Shapes
        <3> QED
            BY <1>2, <3>1 DEF Waits, Exempt
    <2> QED
        BY <1>a, <1>1, <1>7, <2>1, CaughtStays
<1>10. Gone'
    BY <1>a, <1>1, GoneStays
<1> QED
    BY <1>3, <1>5, <1>6, <1>8, <1>9, <1>10 DEF IInv

-----------------------------------------------------------------------------
(* The theorems                                                            *)

\* The node starts with a prefix of what the peers agree on.
LEMMA Starts ==
    ASSUME Init
    PROVE IInv
<1>1. PICK k \in [Peer -> 0..1], own \in BOOLEAN, known \in BOOLEAN :
         /\ data = [n \in Node |->
              IF n = Me THEN [Prefix(k) EXCEPT ![<<Me, 1>>] = IF own THEN 1 ELSE 0]
              ELSE Prefix([p \in Peer |-> 1])]
         /\ pos = [p \in Peer |-> IF known THEN k[p] ELSE NoPos]
         /\ head = [n \in Node |-> IF n = Me THEN (IF own THEN 1 ELSE 0) ELSE 1]
    BY DEF Init
<1>2. oldest = [p \in Peer |-> 1] /\ frames = {} /\ late = {} /\ queue = <<>> /\ failed = {} /\ carried = {} /\ discarded = {} /\ adopted = FALSE
    BY DEF Init
<1>3. pc = "probe" /\ reports = <<>> /\ infos = <<>> /\ pull = None
    BY DEF Init, None
<1>4. \A f : Prefix(f) \in [Op -> Nat]
    BY DEF Prefix
<1>5. [Prefix(k) EXCEPT ![<<Me, 1>>] = IF own THEN 1 ELSE 0] \in [Op -> Nat]
    BY <1>4
<1>6. data \in [Node -> [Op -> Nat]]
    BY <1>1, <1>4, <1>5
<1>7. head \in [Node -> Nat] /\ \A p \in Peer : head[p] = 1
    BY <1>1, Nodes
<1>8. \A p \in Peer : pos[p] \in Int /\ NoPos <= pos[p] /\ pos[p] <= 1
    <2>1. \A p \in Peer : k[p] \in Int /\ 0 <= k[p] /\ k[p] <= 1
        OBVIOUS
    <2> QED
        BY <1>1, <2>1 DEF NoPos
<1>9. \A p \in Peer : 1 <= MaxSeq[p]
    BY RepairAssumption, Nodes
<1>10. Len(queue) = 0 /\ queue \in Seq(Op)
    BY <1>2
<1>11. Shapes
    <2>1. pos \in [Peer -> Int]
        BY <1>1, <1>8
    <2> QED
        BY <1>2, <1>6, <1>7, <1>8, <1>9, <1>10, <2>1 DEF Shapes
<1>12. Wired
    BY <1>2, <1>10 DEF Wired
<1>13. Pulling
    <2>1. DOMAIN reports = {} /\ DOMAIN infos = {}
        BY <1>3
    <2> QED
        BY <1>3, <2>1 DEF Pulling, PullComplete
<1>14. Spread
    <2> SUFFICES ASSUME NEW o \in Op, o[1] \in Peer, o[2] <= head[o[1]], NEW p \in Peer PROVE data[p][o] > 0
        BY DEF Spread, Issued
    <2>1. o[1] # Me /\ p # Me /\ p \in Node /\ o[2] <= 1
        BY <1>7, Nodes
    <2>2. data[p] = Prefix([q \in Peer |-> 1])
        BY <1>1, <2>1
    <2>3. Prefix([q \in Peer |-> 1])[o] = 1
        BY <2>1 DEF Prefix
    <2> QED
        BY <2>2, <2>3
<1>15. Captured /\ Caught /\ Gone
    BY <1>2, <1>3 DEF Captured, Caught, Gone
<1> QED
    BY <1>11, <1>12, <1>13, <1>14, <1>15 DEF IInv

\* Every step of the mesh and of the repair keeps the invariant.
LEMMA Steps ==
    ASSUME IInv, [Next]_vars
    PROVE IInv'
<1>1. CASE Mesh
    BY <1>1, WriteKept, TrimKept, PeerReadsKept, PeerAppliesKept, LegTimeoutKept, DeliverKept DEF Mesh
<1>2. CASE Task
    BY <1>2, ProbesKept, SeedFreshKept, PullOneKept, PullEndKept, DrainOneKept, DecideKept, AdoptKept, CloseKept DEF Task
<1>3. CASE Restart
    BY <1>3, RestartKept
<1>4. CASE UNCHANGED vars
    <2>1. Aside /\ UNCHANGED <<pc, reports, infos, plan, pull, dump>>
        BY <1>4 DEF vars, Aside, task
    <2>2. UNCHANGED <<data, head, pos, frames, failed, queue, seeded, direct>>
        BY <2>1 DEF Aside, store, wire, gate, history
    <2>3. Pulling'
        BY <2>1, <2>2 DEF IInv, Pulling, PullComplete
    <2>4. Captured'
        BY <2>1, <2>2 DEF IInv, Captured, Issued, Exempt, Waits, Queued
    <2> QED
        BY <2>1, <2>3, <2>4, AsideKept
<1> QED
    BY <1>1, <1>2, <1>3, <1>4 DEF Next

\* The invariant holds in every state of a rejoining node and its mesh.
THEOREM Invariant == Spec => []IInv
<1>1. Init => IInv
    BY Starts
<1>2. IInv /\ [Next]_vars => IInv'
    BY Steps
<1> QED
    BY <1>1, <1>2, PTL DEF Spec

\* No way of repairing leaves a gap behind the positions it sets: a pulled
\* range was applied up to the point reached, whatever was trimmed or appended
\* meanwhile (handle_catchup's continuity audit), and a node that serves an
\* adopted snapshot has every write whose legs all arrived, or still waits for
\* it (apply_repair_sync seeds the heads of the probe round, not later ones).
THEOREM RepairLeavesNoGap == Spec => []RepairComplete
<1>1. IInv => RepairComplete
    <2> SUFFICES ASSUME IInv PROVE PullComplete /\ AdoptComplete
        BY DEF RepairComplete
    <2>1. PullComplete
        BY DEF IInv, Pulling
    <2>2. AdoptComplete
        <3> SUFFICES ASSUME adopted, NEW o \in Op, o[1] # Me, o[2] <= head[o[1]], o \notin failed \cup seeded, o \notin direct PROVE Landed(o)
            BY DEF AdoptComplete, Serving, Due
        <3>1. o[1] \in Peer /\ o \notin Exempt
            BY OpIs, Nodes DEF Exempt
        <3>2. data[Me][o] > 0 \/ Waits(o)
            BY <3>1 DEF IInv, Caught
        <3> QED
            BY <3>2 DEF Landed, Waits, Queued
    <2> QED
        BY <2>1, <2>2
<1> QED
    BY <1>1, Invariant, PTL

\* A write that an adoption discarded never comes back, at any node: the
\* adopting transaction voids this node's own journal (journal_void_all), so
\* no peer that pulls from it later receives the write.  A write that a pull had
\* read before the adoption is on its way and was not discarded (Elsewhere).
THEOREM DiscardedStaysAway == Spec => []NoResurrection
<1>1. IInv => NoResurrection
    BY DEF IInv, Gone, NoResurrection
<1> QED
    BY <1>1, Invariant, PTL
=============================================================================
