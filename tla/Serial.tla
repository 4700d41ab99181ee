------------------------------- MODULE Serial -------------------------------
(* What the statement pipeline of one node promises its clients and its      *)
(* journal: committed writes form one sequence, a transaction's writes enter *)
(* it together and alone, the journal receives the node's own writes in that *)
(* order, and nothing acknowledged ever leaves the sequence. The journal may *)
(* miss a committed write: when its append fails, when the unit that holds a *)
(* transaction's entries is not durable, or when a crash comes before it.    *)
EXTENDS Naturals, Sequences, SequencesExt

CONSTANTS Conns,      \* clients that originate writes
          Appliers    \* connections that replay writes of other nodes

VARIABLES data,       \* committed writes, oldest first
          log,        \* journal of the writes that originated here
          due,        \* a committed transaction's writes not yet in the journal
          frail,      \* entries of a transaction whose unit is not durable
          missing,    \* committed writes whose entry failed or was lost
          acked       \* writes whose client was told that they are committed

svars == <<data, log, due, frail, missing, acked>>

\* A write is <<who issued it, a number>>.
Author(w) == w[1]

Init == data = <<>> /\ log = <<>> /\ due = <<>> /\ frail = {} /\ missing = {} /\ acked = {}

\* One write of somebody in S becomes the newest committed one.
Committed1(S) ==
    /\ due = <<>> /\ data' # <<>>
    /\ data' = Append(data, Last(data'))
    /\ Author(Last(data')) \in S
    /\ frail' \in {{}, frail}
    /\ UNCHANGED <<due, acked>>

\* An autocommit write of a client and its journal entry are one unit, unless
\* the entry could not be made.
Autocommit ==
    /\ Committed1(Conns)
    /\ \/ log' = Append(log, Last(data')) /\ UNCHANGED missing
       \/ missing' = missing \cup {Last(data')} /\ UNCHANGED log

\* A replicated write belongs to its origin's journal, not to this one.
Replicated == Committed1(Appliers) /\ UNCHANGED <<log, missing>>

\* COMMIT: the writes of one client, in one piece.
CommitBatch ==
    /\ due = <<>>
    /\ due' # <<>>
    /\ data' = data \o due'
    /\ \E c \in Conns : \A w \in Range(due') : Author(w) = c
    /\ frail' = {}
    /\ UNCHANGED <<log, missing, acked>>

\* what a sequence keeps of some writes, in order
Surviving(s, kept) == SelectSeq(s, LAMBDA w : w \in kept)

\* The journal entries of a transaction, before anything else is committed:
\* all of them, durably or not, or all but those that could not be made.
LogBatch ==
    /\ due # <<>> /\ due' = <<>>
    /\ \/ log' = log \o due /\ frail' \in {{}, Range(due)} /\ UNCHANGED missing
       \/ \E out \in SUBSET Range(due) :
             /\ log' = log \o Surviving(due, Range(due) \ out)
             /\ missing' = missing \cup out /\ frail' = {}
    /\ UNCHANGED <<data, acked>>

\* A later unit is durable, and what was written before it.
Sync == frail' = {} /\ UNCHANGED <<data, log, due, missing, acked>>

Acknowledge ==
    /\ acked \subseteq acked' /\ acked' \subseteq Range(data)
    /\ UNCHANGED <<data, log, due, frail, missing>>

\* A crash may lose writes whose durability failed and that nobody was told
\* of, together with their entries, and the entries of one transaction: those
\* it still owed, or those that were not durable. It loses no other entry.
Crash ==
    /\ IsPrefix(data', data) /\ acked \subseteq Range(data')
    /\ missing' \subseteq (missing \cup frail \cup Range(due)) \cap Range(data')
    /\ (missing \cup Range(due)) \cap Range(data') \subseteq missing'
    /\ log' = Surviving(log, Range(data') \ missing')
    /\ due' = <<>> /\ frail' = {} /\ UNCHANGED acked

Next ==
    \/ Autocommit \/ Replicated \/ CommitBatch \/ LogBatch \/ Sync \/ Acknowledge \/ Crash

Spec == Init /\ [][Next]_svars
=============================================================================
