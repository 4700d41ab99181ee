------------------------------ MODULE Failover ------------------------------
(***************************************************************************)
(* The majority write fence and automatic failover of the server: every    *)
(* data node probes its voting members in cycles, fences client writes     *)
(* while it sees no majority, promotes itself when its primary is lost,    *)
(* and demotes itself when it sees a primary of a higher epoch.            *)
(*                                                                         *)
(* A probe answer is sampled atomically; a node's own probe task is the    *)
(* only reader of its misses and views, so an answer is recorded when it   *)
(* is sampled.  PROMOTE requests run on other threads and interleave with  *)
(* the probe task at the points where either waits for a lock.  Role,      *)
(* epoch and probe results live in memory and are lost in a crash; the     *)
(* journal and the applied positions are durable.                          *)
(***************************************************************************)
EXTENDS Integers, FiniteSets

CONSTANTS
    Data, Arbiter,  \* data nodes; status-only voters
    None,           \* no address, no view, no head
    Upstream,       \* DOCSQL_REPLICATE_TO of a read-only node, None of a primary
    AutoPromoting,  \* nodes with DOCSQL_AUTO_PROMOTE
    K,              \* DOCSQL_QUORUM_K: misses after which a member is lost
    Window,         \* DOCSQL_CATCHUP_WINDOW, 0 = unbounded
    Budgets         \* what the environment may do in one behaviour

Node == Data \cup Arbiter

ASSUME FailoverAssumption ==
    /\ Data \cap Arbiter = {} /\ None \notin Node /\ IsFiniteSet(Node)
    /\ Upstream \in [Data -> Data \cup {None}] /\ \A n \in Data : Upstream[n] # n
    /\ AutoPromoting \subseteq {n \in Data : Upstream[n] # None}
    /\ K \in Nat \ {0} /\ Window \in Nat
    \* Nodes that may crash; bounds on crashes, cut links and timed-out probes,
    \* on the PROMOTE requests to a node and on the writes of a node.
    /\ Budgets \subseteq [crashable : SUBSET Node, faults : Nat, manual : [Data -> Nat],
                          writes : Nat]

Link == {{n, m} : n \in Node, m \in Node} \ {{n} : n \in Node}

VARIABLES
    up, cut,         \* running nodes; links that are down
    readOnly, target, epoch, frozen,   \* read_only, replicate_to, primary_epoch, auto_promote_frozen
    fenced, misses, views,             \* Quorum
    pc, todo, selfEpoch, winner,       \* progress of the probe task
    promoting,       \* nodes with a PROMOTE request waiting for the replicate_to lock
    head, applied,   \* journal head; position applied of every origin
    faults, manuals, \* faults so far; PROMOTE requests to each node
    budget           \* the member of Budgets this behaviour has

roles == <<readOnly, target, epoch, frozen>>
quorum == <<fenced, misses, views>>
task == <<pc, todo, selfEpoch, winner>>
net == <<up, cut>>
journal == <<head, applied>>
env == <<manuals, budget>>
vars == <<net, roles, quorum, task, promoting, journal, faults, env>>

Members(n) == Node \ {n}

Init ==
    /\ up = Node /\ cut = {}
    /\ readOnly = [n \in Data |-> Upstream[n] # None] /\ target = Upstream
    /\ epoch = [n \in Data |-> 0] /\ frozen = [n \in Data |-> FALSE]
    /\ fenced = [n \in Data |-> FALSE]
    /\ misses = [n \in Data |-> [m \in Members(n) |-> 0]]
    /\ views = [n \in Data |-> [m \in Members(n) |-> None]]
    /\ pc = [n \in Data |-> "wait"] /\ todo = [n \in Data |-> {}]
    /\ selfEpoch = [n \in Data |-> 0] /\ winner = [n \in Data |-> None]
    /\ promoting = {}
    /\ head = [n \in Data |-> 0] /\ applied = [n \in Data |-> [m \in Data |-> 0]]
    /\ faults = 0 /\ manuals = [n \in Data |-> 0] /\ budget \in Budgets

-----------------------------------------------------------------------------
(* Visibility                                                              *)

Reachable(n, m) == m \in up /\ {n, m} \notin cut

Lost(n, m) == misses[n][m] >= K
Visible(n) == 1 + Cardinality({m \in Members(n) : ~Lost(n, m)})

HasMajority(n) == Visible(n) * 2 > Cardinality(Node)

\* MemberView::is_active_primary of a data node as it is now.
ActivePrimary(n) == ~readOnly[n] /\ target[n] = None

\* What a status probe of m reports: an arbiter sends none of the role
\* fields, and the parser's defaults make it a writable node of epoch 0.
Status(m) ==
    IF m \in Arbiter THEN [epoch |-> 0, active |-> TRUE, head |-> None]
    ELSE [epoch |-> epoch[m], active |-> ActivePrimary(m), head |-> head[m]]

\* Auto-PROMOTE's lag guard against the primary's last-seen journal head.
LagOk(n, p) ==
    /\ views[n][p] # None /\ views[n][p].head # None
    /\ Window = 0 \/ views[n][p].head - applied[n][p] <= Window

\* Active primaries of a higher epoch in the last-seen views, the highest
\* epoch only; the map is unordered, so any of several may be taken.
Higher(n) ==
    {m \in Members(n) : views[n][m] # None /\ views[n][m].active
                        /\ views[n][m].epoch > selfEpoch[n]}
Best(n) == {m \in Higher(n) : \A w \in Higher(n) : views[n][w].epoch <= views[n][m].epoch}

-----------------------------------------------------------------------------
(* The probe task                                                          *)

Goto(n, to) == pc' = [pc EXCEPT ![n] = to]

StartCycle(n) ==
    /\ n \in up /\ pc[n] = "wait" /\ Goto(n, "probe")
    /\ todo' = [todo EXCEPT ![n] = Members(n)]
    /\ UNCHANGED <<net, roles, quorum, selfEpoch, winner, promoting, journal, faults, env>>

\* Mutant: a probe that gets no answer is not recorded.
ProbeIgnoresTimeout(n, m) ==
    /\ n \in up /\ pc[n] = "probe" /\ m \in todo[n]
    /\ todo' = [todo EXCEPT ![n] = @ \ {m}]
    /\ IF Reachable(n, m)
       THEN /\ misses' = [misses EXCEPT ![n][m] = 0]
            /\ views' = [views EXCEPT ![n][m] = Status(m)]
       ELSE UNCHANGED <<misses, views>>
    /\ UNCHANGED <<net, roles, fenced, pc, selfEpoch, winner, promoting, journal, faults, env>>

\* One member answers, or counts a miss (misses beyond K make no difference).
Probe(n, m) ==
    /\ n \in up /\ pc[n] = "probe" /\ m \in todo[n]
    /\ todo' = [todo EXCEPT ![n] = @ \ {m}]
    /\ \/ /\ Reachable(n, m) /\ UNCHANGED faults
          /\ misses' = [misses EXCEPT ![n][m] = 0]
          /\ views' = [views EXCEPT ![n][m] = Status(m)]
       \/ /\ ~Reachable(n, m) /\ UNCHANGED <<faults, views>>
          /\ misses' = [misses EXCEPT ![n][m] = IF @ < K THEN @ + 1 ELSE @]
       \/ /\ Reachable(n, m) /\ faults < budget.faults /\ faults' = faults + 1
          /\ misses' = [misses EXCEPT ![n][m] = IF @ < K THEN @ + 1 ELSE @]
          /\ UNCHANGED views
    /\ UNCHANGED <<net, roles, fenced, pc, selfEpoch, winner, promoting, journal, env>>

\* Mutant: the fence is raised but never lifted.
VerdictSticky(n) ==
    /\ n \in up /\ pc[n] = "probe" /\ todo[n] = {}
    /\ fenced' = [fenced EXCEPT ![n] = @ \/ ~HasMajority(n)] /\ Goto(n, "supervise")
    /\ UNCHANGED <<net, roles, misses, views, todo, selfEpoch, winner, promoting, journal,
                   faults, env>>

Verdict(n) ==
    /\ n \in up /\ pc[n] = "probe" /\ todo[n] = {}
    /\ fenced' = [fenced EXCEPT ![n] = ~HasMajority(n)] /\ Goto(n, "supervise")
    /\ UNCHANGED <<net, roles, misses, views, todo, selfEpoch, winner, promoting, journal,
                   faults, env>>

\* Whether this node is a replica whose primary the probe task watches.
Watching(n) == n \in AutoPromoting /\ readOnly[n] /\ ~frozen[n]
ShouldPromote(n) ==
    Watching(n) /\ Lost(n, Upstream[n]) /\ HasMajority(n) /\ LagOk(n, Upstream[n])

\* supervise, branch (a), up to the lock of replicate_to.
AutoPromote(n) ==
    /\ n \in up /\ pc[n] = "supervise" /\ ShouldPromote(n)
    /\ readOnly' = [readOnly EXCEPT ![n] = FALSE] /\ Goto(n, "promote")
    /\ UNCHANGED <<net, target, epoch, frozen, quorum, todo, selfEpoch, winner, promoting,
                   journal, faults, env>>

\* Mutant: automatic promotion does not raise the epoch.
FinishPromoteSameEpoch(n) ==
    /\ n \in up /\ pc[n] = "promote" /\ Goto(n, "wait")
    /\ target' = [target EXCEPT ![n] = None]
    /\ UNCHANGED <<net, readOnly, epoch, frozen, quorum, todo, selfEpoch, winner, promoting,
                   journal, faults, env>>

FinishPromote(n) ==
    /\ n \in up /\ pc[n] = "promote" /\ Goto(n, "wait")
    /\ target' = [target EXCEPT ![n] = None] /\ epoch' = [epoch EXCEPT ![n] = @ + 1]
    /\ UNCHANGED <<net, readOnly, frozen, quorum, todo, selfEpoch, winner, promoting,
                   journal, faults, env>>

\* A replica with no reason to promote is done; a writable node goes on to
\* branch (b) with the epoch it read on entry.
Supervise(n) ==
    /\ n \in up /\ pc[n] = "supervise" /\ ~ShouldPromote(n)
    /\ Goto(n, IF readOnly[n] THEN "wait" ELSE "rank")
    /\ selfEpoch' = [selfEpoch EXCEPT ![n] = IF readOnly[n] THEN @ ELSE epoch[n]]
    /\ UNCHANGED <<net, roles, quorum, todo, winner, promoting, journal, faults, env>>

\* Branch (b), up to the second lock of replicate_to.
Rank(n) ==
    /\ n \in up /\ pc[n] = "rank"
    /\ IF target[n] = None /\ Best(n) # {}
       THEN /\ readOnly' = [readOnly EXCEPT ![n] = TRUE] /\ Goto(n, "demote")
            /\ \E w \in Best(n) : winner' = [winner EXCEPT ![n] = w]
       ELSE Goto(n, "wait") /\ UNCHANGED <<readOnly, winner>>
    /\ UNCHANGED <<net, target, epoch, frozen, quorum, todo, selfEpoch, promoting, journal,
                   faults, env>>

\* Mutant: a demoted node may promote itself again.
FinishDemoteUnfrozen(n) ==
    /\ n \in up /\ pc[n] = "demote" /\ Goto(n, "wait")
    /\ target' = [target EXCEPT ![n] = winner[n]]
    /\ winner' = [winner EXCEPT ![n] = None]
    /\ UNCHANGED <<net, readOnly, epoch, frozen, quorum, todo, selfEpoch, promoting, journal,
                   faults, env>>

\* Mutant: a demoted node is not re-pointed at the winner.
FinishDemoteDetached(n) ==
    /\ n \in up /\ pc[n] = "demote" /\ Goto(n, "wait")
    /\ frozen' = [frozen EXCEPT ![n] = TRUE] /\ winner' = [winner EXCEPT ![n] = None]
    /\ UNCHANGED <<net, readOnly, target, epoch, quorum, todo, selfEpoch, promoting, journal,
                   faults, env>>

FinishDemote(n) ==
    /\ n \in up /\ pc[n] = "demote" /\ Goto(n, "wait")
    /\ target' = [target EXCEPT ![n] = winner[n]] /\ frozen' = [frozen EXCEPT ![n] = TRUE]
    /\ winner' = [winner EXCEPT ![n] = None]
    /\ UNCHANGED <<net, readOnly, epoch, quorum, todo, selfEpoch, promoting, journal, faults,
                   env>>

-----------------------------------------------------------------------------
(* Requests, replication and faults                                        *)

\* REQ_PROMOTE by an operator: refused while fenced; up to the lock of
\* replicate_to, then the rest.
Promote(n) ==
    /\ n \in up /\ ~fenced[n] /\ n \notin promoting
    /\ manuals[n] < budget.manual[n]
    /\ readOnly' = [readOnly EXCEPT ![n] = FALSE] /\ promoting' = promoting \cup {n}
    /\ manuals' = [manuals EXCEPT ![n] = @ + 1]
    /\ UNCHANGED <<net, target, epoch, frozen, quorum, task, journal, faults, budget>>

PromoteDone(n) ==
    /\ n \in promoting /\ promoting' = promoting \ {n}
    /\ target' = [target EXCEPT ![n] = None] /\ epoch' = [epoch EXCEPT ![n] = @ + 1]
    /\ frozen' = [frozen EXCEPT ![n] = FALSE]
    /\ UNCHANGED <<net, readOnly, quorum, task, journal, faults, env>>

\* Whether the read-only gate and the quorum gate let a client write pass.
AcceptsWrites(n) == n \in up /\ ~readOnly[n] /\ ~fenced[n]

Write(n) ==
    /\ AcceptsWrites(n) /\ head[n] < budget.writes
    /\ head' = [head EXCEPT ![n] = @ + 1]
    /\ UNCHANGED <<net, roles, quorum, task, promoting, applied, faults, env>>

\* Mutant: a frame sent twice is applied twice.
ReplicateAgain(n, m) ==
    /\ n \in up /\ n # m /\ Reachable(n, m) /\ 0 < head[n]
    /\ applied' = [applied EXCEPT ![m][n] = @ + 1]
    /\ UNCHANGED <<net, roles, quorum, task, promoting, head, faults, env>>

\* Fan-out or catch-up brings the next write of n to m.
Replicate(n, m) ==
    /\ n \in up /\ n # m /\ Reachable(n, m) /\ applied[m][n] < head[n]
    /\ applied' = [applied EXCEPT ![m][n] = @ + 1]
    /\ UNCHANGED <<net, roles, quorum, task, promoting, head, faults, env>>

\* A node dies; what it will restart with is its configuration.
Crash(n) ==
    /\ n \in up \cap budget.crashable /\ faults < budget.faults /\ faults' = faults + 1
    /\ up' = up \ {n} /\ promoting' = promoting \ {n}
    /\ IF n \in Data
       THEN /\ readOnly' = [readOnly EXCEPT ![n] = Upstream[n] # None]
            /\ target' = [target EXCEPT ![n] = Upstream[n]]
            /\ epoch' = [epoch EXCEPT ![n] = 0] /\ frozen' = [frozen EXCEPT ![n] = FALSE]
            /\ fenced' = [fenced EXCEPT ![n] = FALSE]
            /\ misses' = [misses EXCEPT ![n] = [m \in Members(n) |-> 0]]
            /\ views' = [views EXCEPT ![n] = [m \in Members(n) |-> None]]
            /\ pc' = [pc EXCEPT ![n] = "wait"] /\ todo' = [todo EXCEPT ![n] = {}]
            /\ selfEpoch' = [selfEpoch EXCEPT ![n] = 0]
            /\ winner' = [winner EXCEPT ![n] = None]
       ELSE UNCHANGED <<roles, quorum, task>>
    /\ UNCHANGED <<cut, journal, env>>

Restart(n) ==
    /\ n \in Node \ up /\ up' = up \cup {n}
    /\ UNCHANGED <<cut, roles, quorum, task, promoting, journal, faults, env>>

Cut(l) ==
    /\ l \notin cut /\ faults < budget.faults /\ faults' = faults + 1 /\ cut' = cut \cup {l}
    /\ UNCHANGED <<up, roles, quorum, task, promoting, journal, env>>

Heal(l) ==
    /\ l \in cut /\ cut' = cut \ {l}
    /\ UNCHANGED <<up, roles, quorum, task, promoting, journal, faults, env>>

ProbeTask(n) ==
    \/ StartCycle(n) \/ \E m \in Members(n) : Probe(n, m)
    \/ Verdict(n) \/ AutoPromote(n) \/ FinishPromote(n)
    \/ Supervise(n) \/ Rank(n) \/ FinishDemote(n)

Next ==
    \/ \E n \in Data : ProbeTask(n) \/ Promote(n) \/ PromoteDone(n) \/ Write(n)
    \/ \E n, m \in Data : Replicate(n, m)
    \/ \E n \in Node : Crash(n) \/ Restart(n)
    \/ \E l \in Link : Cut(l) \/ Heal(l)

Spec == Init /\ [][Next]_vars

\* The probe loop of a running node never stops and a request in progress
\* gets its lock.
LoopSpec ==
    Spec /\ \A n \in Data : WF_vars(ProbeTask(n)) /\ WF_vars(PromoteDone(n))

-----------------------------------------------------------------------------
(* Properties                                                              *)

View == [epoch : Nat, active : BOOLEAN, head : Nat \cup {None}]

\* Types of the role, quorum and probe-task state of every node.
TypeOK ==
    /\ up \subseteq Node /\ cut \subseteq Link
    /\ readOnly \in [Data -> BOOLEAN] /\ target \in [Data -> Node \cup {None}]
    /\ epoch \in [Data -> Nat] /\ frozen \in [Data -> BOOLEAN] /\ fenced \in [Data -> BOOLEAN]
    /\ \A n \in Data : /\ misses[n] \in [Members(n) -> 0 .. K]
                       /\ \A m \in Members(n) : views[n][m] \in View \cup {None}
                       /\ todo[n] \subseteq Members(n)
    /\ pc \in [Data -> {"wait", "probe", "supervise", "promote", "rank", "demote"}]
    /\ promoting \subseteq Data \cap up
    /\ head \in [Data -> 0 .. budget.writes]
    /\ \A n, m \in Data : applied[n][m] <= head[m]

Primaries == {n \in Data \cap up : ActivePrimary(n)}
Writers == {n \in Data : AcceptsWrites(n)}

\* No operator has sent PROMOTE.
Untouched == \A n \in Data : manuals[n] = 0

\* Short of PROMOTE requests, two active primaries never carry the same epoch, so that one of them
\* always outranks and demotes the other (supervise, branch (b)).
RanksDistinct == Untouched => \A n, m \in Primaries : n # m => epoch[n] # epoch[m]

\* Between steps of a role change a node either owns its writes or follows
\* an upstream: it is never writable while pointed at another node, where no
\* peer takes it for a primary and it never demotes (is_active_primary).
RoleCoherent ==
    Untouched => \A n \in Data : pc[n] \notin {"promote", "demote"} /\ n \notin promoting
                                     => (readOnly[n] <=> target[n] # None)

\* Probe cycles do not inflate the epoch: each run of a node and each
\* PROMOTE request arms at most one automatic promotion, however often its
\* primary comes and goes (auto_promote_frozen).
NoEpochInflation == \A n \in Data : epoch[n] <= 2 * manuals[n] + 1

AllWell == up = Node /\ cut = {}

\* Once every node and link is repaired for good, one and the same node ends
\* up accepting writes, whoever was promoted meanwhile (supervise).  A
\* restart of the replica is excluded: it comes back read-only behind an old
\* primary that follows it (quorum.rs, auto_promote_frozen).
SingleWriter ==
    <>[]AllWell /\ [](AutoPromoting \subseteq up /\ Untouched) => <>[](\E n \in Data : Writers = {n})

Reaches(n) == {n} \cup {m \in Members(n) : Reachable(n, m)}
InMajority(n) == Cardinality(Reaches(n)) * 2 > Cardinality(Node)
Connected == {n \in Data \cap up : InMajority(n)}
Isolated == {n \in Data \cap up : ~InMajority(n)}
Fenced == {n \in Data : fenced[n]}

\* The fence follows the majority: a node that from some point on reaches none
\* ends up fenced and stays so, one that from some point on reaches one ends
\* up unfenced and stays so (quorum_task's verdict after every cycle).
FenceFollows ==
    \A n \in Data : /\ <>[](n \in Isolated) => <>[](n \in Fenced)
                   /\ <>[](n \in Connected) => <>[](n \notin Fenced)
=============================================================================
