----------------------------- MODULE MCJoinSync -----------------------------
EXTENDS JoinSync
CONSTANTS s, o, j
MCOrder == <<s, o>>
MCInsert == {<<o, 1>>}
MCMaxSeq == [n \in Node |-> IF n = o THEN 2 ELSE 1]
=============================================================================
