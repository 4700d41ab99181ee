------------------------------ MODULE MCRepair ------------------------------
EXTENDS Repair
CONSTANTS a, b, me
MCOrder == <<a, b>>
MCInsert == {<<b, 1>>, <<a, 2>>, <<me, 1>>}
MCMaxSeq == [n \in Node |-> IF n = a THEN 3 ELSE IF n = b THEN 2 ELSE 1]
=============================================================================
