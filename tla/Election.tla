------------------------------ MODULE Election ------------------------------
(***************************************************************************)
(* decide_repair: what a rejoining node does with the digests its peers    *)
(* report.  A state is a record of its row count and the position of its   *)
(* serialized digests in the byte order; equal digests are equal states.   *)
(***************************************************************************)
EXTENDS Integers, FiniteSets

\* Mutant: the local group does not count this node as a member.
GroupSizeWithoutSelf(state, local, reports) ==
    Cardinality({p \in DOMAIN reports : reports[p] = state})

\* Members of the group that reports a state; the local node counts itself.
GroupSize(state, local, reports) ==
    Cardinality({p \in DOMAIN reports : reports[p] = state}) + (IF state = local THEN 1 ELSE 0)

Better(a, b, local, reports) ==
    LET na == GroupSize(a, local, reports)
        nb == GroupSize(b, local, reports)
    IN  \/ na > nb
        \/ na = nb /\ (a.rows > b.rows \/ (a.rows = b.rows /\ a.rank < b.rank))

\* The largest group wins, ties go to more rows and then to the first digests.
Winner(local, reports) ==
    CHOOSE w \in {local} \cup {reports[p] : p \in DOMAIN reports} :
        \A v \in ({local} \cup {reports[p] : p \in DOMAIN reports}) \ {w} :
            Better(w, v, local, reports)

Agreeing(local, reports) == {p \in DOMAIN reports : reports[p] = local}

\* The decision and the peers it may name (the first of the winning group).
DecideRepair(local, reports) ==
    LET w == Winner(local, reports) IN
    IF w = local
    THEN [what |-> IF Agreeing(local, reports) = {} THEN "serve" ELSE "converged", from |-> {}]
    ELSE IF w.rows = 0
    THEN [what |-> IF local.rows > 0 THEN "serve" ELSE "converged", from |-> {}]
    ELSE [what |-> "pull", from |-> {p \in DOMAIN reports : reports[p] = w}]

-----------------------------------------------------------------------------
\* Every node sees every other node's state.
View(st, n) == [p \in DOMAIN st \ {n} |-> st[p]]
Decision(st, n) == DecideRepair(st[n], View(st, n))

\* The mesh agrees on one direction: whoever pulls, pulls one and the same
\* state, from nodes that keep it; so no two nodes adopt each other's data.
ElectionAgrees(st) ==
    \A n, m \in DOMAIN st :
        Decision(st, n).what = "pull" =>
            /\ \A p \in Decision(st, n).from : Decision(st, p).what # "pull"
            /\ Decision(st, m).what = "pull" =>
                 \A p \in Decision(st, n).from, q \in Decision(st, m).from : st[p] = st[q]

\* A state without rows is never adopted over local rows, and the last copy of
\* the data survives: some node that holds rows keeps its state.
LastCopyKept(st) ==
    /\ \A n \in DOMAIN st : \A p \in Decision(st, n).from : st[p].rows > 0
    /\ (\E n \in DOMAIN st : st[n].rows > 0) =>
         \E n \in DOMAIN st : st[n].rows > 0 /\ Decision(st, n).what # "pull"
=============================================================================
