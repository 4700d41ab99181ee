----------------------------- MODULE MCFailover -----------------------------
(* The instance of Failover for TLC: the primary a, its replica and an      *)
(* arbiter.                                                                 *)
EXTENDS Failover

CONSTANT a

\* Every other data node follows a.
FollowA == [n \in Data |-> IF n = a THEN None ELSE a]

\* Two faults of any node or link; PROMOTE requests to the old primary with a
\* link cut or a probe timed out; or writes with a crash of the replica.
MCBudgets ==
    LET Manual(k) == [n \in Data |-> IF n = a THEN k ELSE 0] IN
    {[crashable |-> Node, faults |-> 2, manual |-> Manual(0), writes |-> 0],
     [crashable |-> {}, faults |-> 1, manual |-> Manual(2), writes |-> 0],
     [crashable |-> Data \ {a}, faults |-> 1, manual |-> Manual(0), writes |-> 1]}
=============================================================================
