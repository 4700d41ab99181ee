--------------------------- MODULE FailoverProofs ---------------------------
(***************************************************************************)
(* Role changes of the failover protocol for every set of data nodes and   *)
(* arbiters, every upstream topology and every budget of faults and        *)
(* PROMOTE requests.                                                       *)
(***************************************************************************)
EXTENDS Failover, TLAPS

-----------------------------------------------------------------------------
(* The inductive invariant                                                 *)

\* Shapes of the state a role change reads or writes.
Shapes ==
    /\ readOnly \in [Data -> BOOLEAN] /\ frozen \in [Data -> BOOLEAN]
    /\ target \in [Data -> Node \cup {None}] /\ winner \in [Data -> Node \cup {None}]
    /\ epoch \in [Data -> Nat] /\ manuals \in [Data -> Nat] /\ promoting \subseteq Data
    /\ pc \in [Data -> {"wait", "probe", "supervise", "promote", "rank", "demote"}]

\* Node n can still promote itself once before its next PROMOTE completes: it
\* is about to, or it is a replica that no demotion has frozen.
Armed(n) == pc[n] = "promote" \/ (readOnly[n] /\ ~frozen[n] /\ pc[n] # "demote")

\* Every PROMOTE request pays for the epoch it adds and for the one automatic
\* promotion it arms by clearing auto_promote_frozen; the first run of a node
\* is armed for free.
Paid(n) ==
    epoch[n] + (IF Armed(n) THEN 1 ELSE 0) + (IF n \in promoting THEN 2 ELSE 0)
        <= 2 * manuals[n] + 1

\* Only the probe task makes its node read-only, so between the two halves of
\* an automatic promotion the node stays writable.
Midway(n) == pc[n] = "promote" => ~readOnly[n]

\* Without PROMOTE requests, a node in the middle of a demotion is read-only
\* and has a winner to follow, and in every other state but the middle of a
\* promotion it is read-only exactly when it follows someone.
Settled(n) ==
    /\ n \notin promoting
    /\ pc[n] = "demote" => readOnly[n] /\ winner[n] # None
    /\ pc[n] \notin {"promote", "demote"} => (readOnly[n] <=> target[n] # None)

IInv == /\ Shapes /\ \A n \in Data : Paid(n) /\ Midway(n)
        /\ Untouched => \A n \in Data : Settled(n)

-----------------------------------------------------------------------------

\* A node whose role, task and requests a step leaves alone keeps its part of
\* the invariant.
LEMMA Elsewhere ==
    ASSUME NEW n \in Data, pc'[n] = pc[n], readOnly'[n] = readOnly[n], frozen'[n] = frozen[n],
           target'[n] = target[n], winner'[n] = winner[n], epoch'[n] = epoch[n],
           manuals'[n] = manuals[n], n \in promoting' <=> n \in promoting
    PROVE (Paid(n)' <=> Paid(n)) /\ (Midway(n)' <=> Midway(n)) /\ (Settled(n)' <=> Settled(n))
BY DEF Paid, Armed, Midway, Settled

\* The state of m that the invariant is about is the same after the step.
Same(m) ==
    /\ pc'[m] = pc[m] /\ readOnly'[m] = readOnly[m] /\ frozen'[m] = frozen[m]
    /\ target'[m] = target[m] /\ winner'[m] = winner[m] /\ epoch'[m] = epoch[m]
    /\ manuals'[m] = manuals[m] /\ (m \in promoting' <=> m \in promoting)

\* A step of one node's probe task, of a PROMOTE request to it or a crash of
\* it: what is left to show is that node's part.
LEMMA OneNode ==
    ASSUME IInv, NEW n \in Data, Shapes', \A m \in Data \ {n} : Same(m),
           manuals'[n] >= manuals[n], Paid(n)', Midway(n)', Untouched' => Settled(n)'
    PROVE IInv'
<1>1. ASSUME NEW m \in Data \ {n}
      PROVE (Paid(m)' <=> Paid(m)) /\ (Midway(m)' <=> Midway(m)) /\ (Settled(m)' <=> Settled(m))
    BY <1>1, Elsewhere DEF Same
<1>2. Untouched' => Untouched
    <2>1. \A m \in Data : manuals'[m] = 0 => manuals[m] = 0
        BY DEF IInv, Shapes, Same
    <2> QED
        BY <2>1 DEF Untouched
<1>3. \A m \in Data : Paid(m)' /\ Midway(m)'
    BY <1>1 DEF IInv
<1>4. Untouched' => \A m \in Data : Settled(m)'
    BY <1>1, <1>2 DEF IInv
<1> QED
    BY <1>3, <1>4 DEF IInv

\* A step that touches no node's role, task or requests.
LEMMA NoNode ==
    ASSUME IInv, UNCHANGED <<pc, readOnly, frozen, target, winner, epoch, manuals, promoting>>
    PROVE IInv'
<1>1. Shapes' /\ (Untouched' <=> Untouched)
    BY DEF IInv, Shapes, Untouched
<1>2. \A m \in Data : (Paid(m)' <=> Paid(m)) /\ (Midway(m)' <=> Midway(m)) /\ (Settled(m)' <=> Settled(m))
    BY Elsewhere
<1> QED
    BY <1>1, <1>2 DEF IInv

-----------------------------------------------------------------------------
(* One lemma per action                                                    *)

\* The task moves on without touching the role: the armed nodes stay the same.
LEMMA MoveOn ==
    ASSUME IInv, NEW n \in Data, NEW to \in {"wait", "probe", "supervise", "rank"},
           pc[n] \in {"wait", "probe", "supervise", "rank"}, Goto(n, to),
           UNCHANGED <<readOnly, frozen, target, winner, epoch, manuals, promoting>>
    PROVE IInv'
<1>1. pc'[n] = to /\ Shapes' /\ \A m \in Data \ {n} : Same(m)
    BY DEF IInv, Shapes, Same, Goto
<1>2. (Armed(n)' <=> Armed(n)) /\ (Paid(n)' <=> Paid(n)) /\ Midway(n)'
    BY <1>1 DEF Armed, Paid, Midway
<1>3. Untouched' => Settled(n)'
    BY <1>1 DEF Settled, Untouched, IInv
<1>4. manuals'[n] >= manuals[n]
    BY DEF IInv, Shapes
<1> QED
    BY <1>1, <1>2, <1>3, <1>4, OneNode DEF IInv

\* The first half of an automatic promotion leaves its node armed for the second.
LEMMA AutoPromoteStep == ASSUME IInv, NEW n \in Data, AutoPromote(n) PROVE IInv'
<1> USE DEF AutoPromote, Goto, roles, quorum, task, net, journal, env
<1>1. Shapes' /\ (\A m \in Data \ {n} : Same(m)) /\ manuals'[n] >= manuals[n]
    BY DEF IInv, Shapes, Same
<1>2. Armed(n) /\ Armed(n)' /\ Midway(n)'
    BY DEF IInv, Shapes, Armed, Midway, ShouldPromote, Watching
<1>3. Paid(n)'
    BY <1>2 DEF IInv, Paid
<1>4. Untouched' => Settled(n)'
    BY DEF IInv, Shapes, Settled, Untouched
<1> QED
    BY <1>1, <1>2, <1>3, <1>4, OneNode

\* The second half of an automatic promotion uses up what armed it.
LEMMA FinishPromoteStep == ASSUME IInv, NEW n \in Data, FinishPromote(n) PROVE IInv'
<1> USE DEF FinishPromote, Goto, roles, quorum, task, net, journal, env
<1>1. Shapes' /\ (\A m \in Data \ {n} : Same(m)) /\ manuals'[n] >= manuals[n]
    BY DEF IInv, Shapes, Same
<1>2. Armed(n) /\ ~Armed(n)' /\ Midway(n)'
    BY DEF IInv, Shapes, Armed, Midway
<1>3. Paid(n)'
    <2>1. epoch'[n] = epoch[n] + 1 /\ epoch[n] \in Nat /\ manuals[n] \in Nat
        BY DEF IInv, Shapes
    <2> QED
        BY <1>2, <2>1 DEF IInv, Paid
<1>4. Untouched' => Settled(n)'
    BY FailoverAssumption DEF IInv, Shapes, Settled, Untouched, Midway
<1> QED
    BY <1>1, <1>2, <1>3, <1>4, OneNode

\* A demotion disarms its node.
LEMMA RankStep == ASSUME IInv, NEW n \in Data, Rank(n) PROVE IInv'
<1> USE DEF Rank, Goto, roles, quorum, task, net, journal, env
<1>1. CASE target[n] = None /\ Best(n) # {}
    <2> PICK w \in Best(n) : winner' = [winner EXCEPT ![n] = w]
        BY <1>1
    <2>1. w \in Node /\ w # None
        BY FailoverAssumption DEF Best, Higher, Members
    <2>2. Shapes' /\ (\A m \in Data \ {n} : Same(m)) /\ manuals'[n] >= manuals[n]
        <3>1. readOnly' = [readOnly EXCEPT ![n] = TRUE] /\ pc' = [pc EXCEPT ![n] = "demote"]
            BY <1>1
        <3>2. Shapes'
            BY <2>1, <3>1 DEF IInv, Shapes
        <3>3. \A m \in Data \ {n} : Same(m)
            BY <3>1 DEF IInv, Shapes, Same
        <3> QED
            BY <3>2, <3>3 DEF IInv, Shapes
    <2>3. ~Armed(n)' /\ Midway(n)'
        BY <1>1 DEF IInv, Shapes, Armed, Midway
    <2>4. Paid(n)'
        BY <2>3 DEF IInv, Shapes, Paid
    <2>5. Untouched' => Settled(n)'
        BY <1>1, <2>1 DEF IInv, Shapes, Settled, Untouched
    <2> QED
        BY <2>2, <2>3, <2>4, <2>5, OneNode
<1>2. CASE ~(target[n] = None /\ Best(n) # {})
    BY <1>2, MoveOn
<1> QED
    BY <1>1, <1>2

\* The second half of a demotion freezes its node.
LEMMA FinishDemoteStep == ASSUME IInv, NEW n \in Data, FinishDemote(n) PROVE IInv'
<1> USE DEF FinishDemote, Goto, roles, quorum, task, net, journal, env
<1>1. Shapes' /\ (\A m \in Data \ {n} : Same(m)) /\ manuals'[n] >= manuals[n]
    BY DEF IInv, Shapes, Same
<1>2. ~Armed(n)' /\ Midway(n)'
    BY DEF IInv, Shapes, Armed, Midway
<1>3. Paid(n)'
    BY <1>2 DEF IInv, Shapes, Paid
<1>4. Untouched' => Settled(n)'
    BY DEF IInv, Shapes, Settled, Untouched
<1> QED
    BY <1>1, <1>2, <1>3, <1>4, OneNode

\* A PROMOTE request is accounted for when it is accepted.
LEMMA PromoteStep == ASSUME IInv, NEW n \in Data, Promote(n) PROVE IInv'
<1> USE DEF Promote, Goto, roles, quorum, task, net, journal, env
<1>1. Shapes' /\ (\A m \in Data \ {n} : Same(m)) /\ manuals'[n] >= manuals[n]
    BY DEF IInv, Shapes, Same
<1>2. (Armed(n)' => Armed(n)) /\ Midway(n)'
    BY DEF IInv, Shapes, Armed, Midway
<1>3. Paid(n)'
    <2>1. /\ manuals'[n] = manuals[n] + 1 /\ manuals[n] \in Nat /\ epoch[n] \in Nat /\ epoch'[n] = epoch[n]
          /\ n \notin promoting /\ n \in promoting'
        BY DEF IInv, Shapes
    <2> QED
        BY <1>2, <2>1 DEF IInv, Paid
<1>4. ~Untouched'
    BY DEF IInv, Shapes, Untouched
<1> QED
    BY <1>1, <1>2, <1>3, <1>4, OneNode

\* Its completion adds one epoch and arms at most one promotion.
LEMMA PromoteDoneStep == ASSUME IInv, NEW n \in Data, PromoteDone(n) PROVE IInv'
<1> USE DEF PromoteDone, Goto, roles, quorum, task, net, journal, env
<1>1. Shapes' /\ (\A m \in Data \ {n} : Same(m)) /\ manuals'[n] >= manuals[n]
    BY DEF IInv, Shapes, Same
<1>2. Midway(n)'
    BY DEF IInv, Shapes, Midway
<1>3. Paid(n)'
    <2>1. /\ manuals'[n] = manuals[n] /\ manuals[n] \in Nat /\ epoch[n] \in Nat
          /\ epoch'[n] = epoch[n] + 1 /\ n \in promoting /\ n \notin promoting'
        BY DEF IInv, Shapes
    <2> QED
        BY <2>1 DEF IInv, Paid
<1>4. ~Untouched'
    BY DEF IInv, Settled, Untouched
<1> QED
    BY <1>1, <1>2, <1>3, <1>4, OneNode

\* A restarted node begins at epoch 0, armed once.
LEMMA CrashStep == ASSUME IInv, NEW n \in Node, Crash(n) PROVE IInv'
<1> USE DEF Crash, roles, quorum, task, net, journal, env
<1>1. CASE n \in Data
    <2>1. Shapes' /\ (\A m \in Data \ {n} : Same(m)) /\ manuals'[n] >= manuals[n]
        <3>1. /\ readOnly' = [readOnly EXCEPT ![n] = Upstream[n] # None] /\ pc' = [pc EXCEPT ![n] = "wait"]
              /\ target' = [target EXCEPT ![n] = Upstream[n]] /\ epoch' = [epoch EXCEPT ![n] = 0]
              /\ frozen' = [frozen EXCEPT ![n] = FALSE] /\ winner' = [winner EXCEPT ![n] = None]
              /\ manuals' = manuals /\ promoting' = promoting \ {n}
            BY <1>1
        <3>2. (Upstream[n] # None) \in BOOLEAN /\ Upstream[n] \in Node \cup {None}
            BY <1>1, FailoverAssumption DEF Node
        <3>3. Shapes'
            BY <1>1, <3>1, <3>2 DEF IInv, Shapes
        <3>4. \A m \in Data \ {n} : Same(m)
            BY <3>1 DEF IInv, Shapes, Same
        <3> QED
            BY <1>1, <3>1, <3>3, <3>4 DEF IInv, Shapes
    <2>2. Midway(n)'
        BY <1>1 DEF IInv, Shapes, Midway
    <2>3. Paid(n)'
        <3>1. manuals'[n] = manuals[n] /\ manuals[n] \in Nat /\ epoch'[n] = 0 /\ n \notin promoting'
            BY <1>1 DEF IInv, Shapes
        <3> QED
            BY <3>1 DEF Paid
    <2>4. Untouched' => Settled(n)'
        <3>1. pc'[n] = "wait" /\ readOnly'[n] = (Upstream[n] # None) /\ target'[n] = Upstream[n] /\ n \notin promoting'
            BY <1>1 DEF IInv, Shapes
        <3> QED
            BY <3>1, Zenon DEF Settled
    <2> QED
        BY <1>1, <2>1, <2>2, <2>3, <2>4, OneNode
<1>2. CASE n \notin Data
    BY <1>2, NoNode DEF IInv, Shapes
<1> QED
    BY <1>1, <1>2

-----------------------------------------------------------------------------
(* The theorems                                                            *)

\* Roles, epochs and the requests in progress stay in step in every reachable
\* state.
THEOREM Invariant == Spec => []IInv
<1>1. Init => IInv
    <2> SUFFICES ASSUME Init PROVE IInv
        OBVIOUS
    <2>1. Shapes
        BY FailoverAssumption DEF Init, Shapes, Node
    <2>2. \A n \in Data : Paid(n) /\ Midway(n)
        BY DEF Init, Paid, Midway
    <2>3. ASSUME NEW n \in Data PROVE Settled(n)
        <3>1. pc[n] = "wait" /\ readOnly[n] = (Upstream[n] # None) /\ target[n] = Upstream[n] /\ n \notin promoting
            BY DEF Init
        <3> QED
            BY <3>1, Zenon DEF Settled
    <2> QED
        BY <2>1, <2>2, <2>3 DEF IInv
<1>2. IInv /\ [Next]_vars => IInv'
    <2> SUFFICES ASSUME IInv, [Next]_vars PROVE IInv'
        OBVIOUS
    <2> USE DEF roles, quorum, task, net, journal, env
    <2>1. ASSUME NEW n \in Data, ProbeTask(n) PROVE IInv'
        <3>1. CASE StartCycle(n)
            BY <3>1, MoveOn DEF StartCycle
        <3>2. ASSUME NEW m \in Members(n), Probe(n, m) PROVE IInv'
            BY <3>2, NoNode DEF Probe
        <3>3. CASE Verdict(n)
            BY <3>3, MoveOn DEF Verdict
        <3>4. CASE Supervise(n)
            BY <3>4, MoveOn DEF Supervise
        <3> QED
            BY <2>1, <3>1, <3>2, <3>3, <3>4, AutoPromoteStep, FinishPromoteStep, RankStep,
               FinishDemoteStep DEF ProbeTask
    <2>2. ASSUME NEW n \in Data, Write(n) PROVE IInv'
        BY <2>2, NoNode DEF Write
    <2>3. ASSUME NEW n \in Data, NEW m \in Data, Replicate(n, m) PROVE IInv'
        BY <2>3, NoNode DEF Replicate
    <2>4. ASSUME NEW n \in Node, Restart(n) PROVE IInv'
        BY <2>4, NoNode DEF Restart
    <2>5. ASSUME NEW l \in Link, Cut(l) \/ Heal(l) PROVE IInv'
        BY <2>5, NoNode DEF Cut, Heal
    <2>6. CASE UNCHANGED vars
        BY <2>6, NoNode DEF vars
    <2> QED
        BY <2>1, <2>2, <2>3, <2>4, <2>5, <2>6, PromoteStep, PromoteDoneStep, CrashStep DEF Next
<1> QED
    BY <1>1, <1>2, PTL DEF Spec

\* Each run of a node and each PROMOTE request to it arms at most one
\* automatic promotion, whatever the interleaving of requests, demotions,
\* crashes and partitions (auto_promote_frozen).
THEOREM EpochBounded == Spec => []NoEpochInflation
<1>1. IInv => NoEpochInflation
    <2> SUFFICES ASSUME IInv, NEW n \in Data PROVE epoch[n] <= 2 * manuals[n] + 1
        BY DEF NoEpochInflation
    <2>1. epoch[n] \in Nat /\ manuals[n] \in Nat /\ Paid(n)
        BY DEF IInv, Shapes
    <2> QED
        BY <2>1 DEF Paid
<1> QED
    BY <1>1, Invariant, PTL

\* Short of PROMOTE requests a node between two role changes is writable
\* exactly when it follows nobody, in every topology: no node is writable yet
\* invisible as a primary to its peers (is_active_primary).
THEOREM RolesCoherent == Spec => []RoleCoherent
<1>1. IInv => RoleCoherent
    BY DEF IInv, RoleCoherent, Settled
<1> QED
    BY <1>1, Invariant, PTL
=============================================================================
