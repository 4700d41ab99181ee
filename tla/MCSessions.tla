---------------------------- MODULE MCSessions ----------------------------
EXTENDS Sessions
CONSTANTS c1, c2, r1
MCClients == {c1, c2}
MCAppliers == {r1}
===========================================================================
