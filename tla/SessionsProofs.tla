--------------------------- MODULE SessionsProofs ---------------------------
(***************************************************************************)
(* What the statement pipeline guarantees for any number of connections,   *)
(* statements and faults, when no client reuses the name of a savepoint    *)
(* that is still marked: the transaction buffer is what the engine's       *)
(* transaction holds, the locked read path returns nobody else's           *)
(* uncommitted writes, and the pipeline implements the serial store.       *)
(***************************************************************************)
EXTENDS Sessions, SequenceTheorems, WellFoundedInduction, TLAPS

Write == Conns \X Nat
Savepoint == [name : Names, len : Nat]
Kinds == {"none", "read", "write", "begin", "commit", "rollback", "savepoint", "release", "rollback_to"}
Steps == {"idle", "wait", "last", "lock", "exec", "post", "drain", "send", "view", "leave", "undo", "gone"}
Marking == {"savepoint", "release", "rollback_to"}

Contents ==
  /\ db \in Seq(Write) /\ soft \in Nat
  /\ tx \in [open : BOOLEAN, base : Nat, saves : Seq(Savepoint)] /\ (~tx.open => tx.saves = <<>>)
  /\ owner \in Clients \cup {None}
  /\ pend \in [writes : Seq(Write), marks : Seq(Savepoint)]
  /\ due \in Seq(Write) /\ issued \in Nat
Shape ==
  /\ Contents /\ order \in Conns \cup {None}
  /\ pc \in [Conns -> Steps]
  /\ req \in [Conns -> [kind : Kinds, name : Names \cup {None}, w : Write \cup {None}]]

\* What a connection asks for, and how far it can be with it.
Request(c) ==
  /\ req[c].kind = "write" => req[c].w \in Write /\ req[c].w[1] = c
  /\ req[c].kind \in Marking => req[c].name \in Names
  /\ req[c].kind \notin {"none", "write"} => c \in Clients
  /\ pc[c] \in {"wait", "lock", "last", "exec", "post"} => req[c].kind # "none"
  /\ pc[c] \in {"lock", "last", "post"} => req[c].kind # "read"
  /\ pc[c] = "wait" => req[c].kind \in {"read", "write", "begin"}
  /\ pc[c] = "undo" => c \in Clients
Requests == \A c \in Conns : Request(c)

\* The connections inside the section that write_order guards.
Holding(c) ==
  pc[c] \in {"post", "drain", "send", "undo"} \/ (pc[c] = "exec" /\ req[c].kind # "read")
Locking == \A c \in Conns : Holding(c) <=> order = c

\* Who owns the engine's transaction at each step of that section.
Owned(c) ==
  /\ pc[c] = "exec" => (tx.open => owner = c) /\ (~tx.open => owner = None)
  /\ pc[c] = "post" /\ req[c].kind = "begin" => tx.open /\ owner = None
  /\ pc[c] = "post" /\ req[c].kind = "write" => (tx.open => owner = c) /\ (~tx.open => owner = None)
  /\ pc[c] = "post" /\ req[c].kind \in Marking => tx.open /\ owner = c
  /\ pc[c] = "post" /\ req[c].kind \in {"commit", "rollback"} => ~tx.open /\ owner = c
  /\ pc[c] \in {"drain", "send"} => ~tx.open /\ owner = None
  /\ pc[c] = "undo" => tx.open /\ owner = None
Ownership ==
  /\ order = None => (tx.open <=> owner # None)
  /\ \A c \in Conns : order = c => Owned(c)
  /\ owner # None => pc[owner] # "gone"

\* The uncommitted writes are those of the owner, or of the connection that is about to be
\* or was the owner until a moment ago.
Author == IF owner = None THEN order ELSE owner
Authors ==
  /\ tx.base <= Len(db)
  /\ tx.open => \A i \in tx.base + 1 .. Len(db) : db[i][1] = Author

\* Positions of a sequence.
At(s) == 1 .. Len(s)

\* The engine's savepoints and the buffer's marks: no name is marked twice, every
\* savepoint has its mark, at the same write, and they are in the same order.
Distinct(marks) == \A i, j \in At(marks) : marks[i].name = marks[j].name => i = j
Marked(base, saves, marks) ==
  \A j \in At(saves) : \E i \in At(marks) : marks[i].name = saves[j].name /\ saves[j].len = base + marks[i].len
InStep(saves, marks) ==
  \A j, k \in At(saves) : \A i, l \in At(marks) :
    j < k /\ marks[i].name = saves[j].name /\ marks[l].name = saves[k].name => i < l
Lined(base, saves, marks) == Distinct(marks) /\ Marked(base, saves, marks) /\ InStep(saves, marks)

\* The buffer p is what the transaction t of the contents d holds.
Agree(d, t, p) ==
  /\ p.writes = SubSeq(d, t.base + 1, Len(d))
  /\ Lined(t.base, t.saves, p.marks)

\* Savepoints lie in the transaction, later ones at later writes.
Nested(base, saves, end) ==
  /\ \A j \in At(saves) : base <= saves[j].len /\ saves[j].len <= end
  /\ \A j, k \in At(saves) : j <= k => saves[j].len <= saves[k].len

\* The buffer once the statement the engine has just run is recorded in it.
Recorded(c) ==
  IF pc[c] # "post" THEN pend
  ELSE CASE req[c].kind = "write" -> Push(req[c].w)
         [] req[c].kind = "savepoint" -> Mark(req[c].name)
         [] req[c].kind = "release" -> Release(req[c].name)
         [] req[c].kind = "rollback_to" -> RollbackTo(req[c].name)
         [] OTHER -> pend
\* The owner marks no name twice.
FreshName(c) ==
  pc[c] \in {"lock", "last", "exec"} /\ req[c].kind = "savepoint" /\ owner = c => Newest(pend.marks, req[c].name) = 0
Buffering ==
  /\ owner = None /\ (\A c \in Conns : pc[c] # "undo") => pend = NoBuffer
  /\ tx.open => Nested(tx.base, tx.saves, Len(db))
  /\ tx.open /\ order = None => Agree(db, tx, pend)
  /\ \A c \in Conns : tx.open /\ order = c => Agree(db, tx, Recorded(c))
  /\ \A c \in Conns : FreshName(c)

\* Everything acknowledged is committed and on disk, and so is everything about to be.
CommittedLen == IF tx.open THEN tx.base ELSE Len(db)
Durable(w) == \E i \in 1 .. CommittedLen - soft : db[i] = w
Promised(c) ==
  /\ pc[c] = "post" /\ req[c].kind = "write" /\ ~tx.open => Durable(req[c].w)
  /\ pc[c] = "post" /\ req[c].kind = "commit" => \A i \in 1 .. Len(pend.writes) : Durable(pend.writes[i])
  /\ pc[c] \in {"drain", "send"} => \A i \in 1 .. Len(due) : Durable(due[i])
  /\ pc[c] = "drain" => due # <<>>
Kept == soft <= CommittedLen /\ \A w \in acked : Durable(w)
Durability == Kept /\ \A c \in Conns : Promised(c)

Inv == Shape /\ Requests /\ Locking /\ Ownership /\ Authors /\ Buffering /\ Durability


\* A nonempty set of positions has a last one.
LEMMA MaxExists ==
  ASSUME NEW n \in Nat, NEW I \in SUBSET (1..n), I # {}
  PROVE  \E x \in I : \A y \in I : x >= y
<1>. DEFINE T == {n - i : i \in I}
<1>0. \A i \in I : i \in 1..n /\ n - i \in Nat
  OBVIOUS
<1>1. T \subseteq Nat /\ T # {}
  <2>1. PICK i \in I : TRUE
    OBVIOUS
  <2>2. n - i \in T
    OBVIOUS
  <2>3. T \subseteq Nat
    BY <1>0
  <2>. QED BY <2>2, <2>3
<1>2. PICK m \in T : \A y \in T : ~ (<<y, m>> \in OpToRel(<, Nat))
  BY <1>1, WFMin, NatLessThanWellFounded
<1>3. \A y \in T : m <= y
  <2>. SUFFICES ASSUME NEW y \in T PROVE m <= y
    OBVIOUS
  <2>1. m \in Nat /\ y \in Nat
    BY <1>1
  <2>2. ~(<<y, m>> \in Nat \X Nat /\ <<y, m>>[1] < <<y, m>>[2])
    BY <1>2 DEF OpToRel
  <2>. HIDE DEF T
  <2>. QED BY <2>1, <2>2
<1>4. PICK x \in I : m = n - x
  OBVIOUS
<1>5. \A y \in I : n - y \in T
  OBVIOUS
<1>. HIDE DEF T
<1>. QED BY <1>0, <1>3, <1>4, <1>5

\* Newest finds a mark of that name when there is one.
LEMMA NewestIs ==
  ASSUME NEW S, NEW marks \in Seq(S), NEW n
  PROVE  /\ Newest(marks, n) \in 0..Len(marks)
         /\ Newest(marks, n) = 0 => \A i \in 1..Len(marks) : marks[i].name # n
         /\ Newest(marks, n) # 0 => marks[Newest(marks, n)].name = n
<1>. DEFINE I == {i \in 1..Len(marks) : marks[i].name = n}
<1>1. Len(marks) \in Nat
  OBVIOUS
<1>2. Newest(marks, n) = IF I # {} THEN Max(I) ELSE 0
  BY DEF Newest, SelectLastInSeq
<1>3. I # {} => Max(I) \in I
  BY <1>1, MaxExists DEF Max
<1>. HIDE DEF I
<1>4. CASE I = {}
  BY <1>1, <1>2, <1>4 DEF I
<1>5. CASE I # {}
  BY <1>1, <1>2, <1>3, <1>5 DEF I
<1>. QED BY <1>4, <1>5

\* A part of a sequence: its length, its type and its elements.
LEMMA SubSeqOf ==
  ASSUME NEW S, NEW s \in Seq(S), NEW m \in Nat \ {0}, NEW n \in Nat, n <= Len(s)
  PROVE  /\ SubSeq(s, m, n) \in Seq(S)
         /\ Len(SubSeq(s, m, n)) = IF m <= n THEN n - m + 1 ELSE 0
         /\ \A i \in 1 .. n - m + 1 : SubSeq(s, m, n)[i] = s[m + i - 1]
<1>1. \A i \in m .. n : s[i] \in S
  BY ElementOfSeq
<1>. QED BY <1>1, SubSeqProperties

\* The tail of a nonempty sequence.
LEMMA TailOf ==
  ASSUME NEW S, NEW s \in Seq(S), NEW b \in Nat, b <= Len(s)
  PROVE  /\ SubSeq(s, b + 1, Len(s)) \in Seq(S)
         /\ Len(SubSeq(s, b + 1, Len(s))) = Len(s) - b
         /\ \A i \in 1 .. Len(s) - b : SubSeq(s, b + 1, Len(s))[i] = s[b + i]
<1>1. Len(s) \in Nat
  BY LenProperties
<1>. QED BY <1>1, SubSeqOf

\* Appending behind the first b elements appends to what follows them.
LEMMA TailAppend ==
  ASSUME NEW S, NEW s \in Seq(S), NEW e \in S, NEW b \in Nat, b <= Len(s)
  PROVE  /\ SubSeq(Append(s, e), b + 1, Len(s) + 1) = Append(SubSeq(s, b + 1, Len(s)), e)
         /\ SubSeq(Append(s, e), 1, b) = SubSeq(s, 1, b)
<1>. DEFINE a == Append(s, e)
            u == SubSeq(s, b + 1, Len(s))
<1>0. Len(s) \in Nat
  BY LenProperties
<1>1. a \in Seq(S) /\ Len(a) = Len(s) + 1 /\ a[Len(s) + 1] = e /\ \A i \in 1 .. Len(s) : a[i] = s[i]
  BY AppendProperties
<1>2. u \in Seq(S) /\ Len(u) = Len(s) - b /\ \A i \in 1 .. Len(s) - b : u[i] = s[b + i]
  BY SubSeqOf
<1>3. Append(u, e) \in Seq(S) /\ Len(Append(u, e)) = Len(s) - b + 1 /\ Append(u, e)[Len(s) - b + 1] = e
      /\ \A i \in 1 .. Len(s) - b : Append(u, e)[i] = s[b + i]
  BY <1>2, AppendProperties
<1>. HIDE DEF a, u
<1>4. SubSeq(a, b + 1, Len(s) + 1) \in Seq(S) /\ Len(SubSeq(a, b + 1, Len(s) + 1)) = Len(s) - b + 1
      /\ \A i \in 1 .. Len(s) - b + 1 : SubSeq(a, b + 1, Len(s) + 1)[i] = a[b + i]
  BY <1>1, SubSeqOf
<1>5. SubSeq(a, b + 1, Len(s) + 1) = Append(u, e)
  <2>1. ASSUME NEW i \in 1 .. Len(s) - b + 1
        PROVE  SubSeq(a, b + 1, Len(s) + 1)[i] = Append(u, e)[i]
    <3>1. CASE i = Len(s) - b + 1
      BY <3>1, <1>1, <1>3, <1>4
    <3>2. CASE i \in 1 .. Len(s) - b
      <4>1. b + i \in 1 .. Len(s)
        BY <3>2
      <4>. QED BY <3>2, <4>1, <1>1, <1>3, <1>4
    <3>3. i = Len(s) - b + 1 \/ i \in 1 .. Len(s) - b
      BY <1>0
    <3>. QED BY <3>1, <3>2, <3>3
  <2>. QED BY <2>1, <1>3, <1>4, SeqEqual
<1>6. SubSeq(a, 1, b) = SubSeq(s, 1, b)
  <2>1. SubSeq(a, 1, b) \in Seq(S) /\ Len(SubSeq(a, 1, b)) = b /\ \A i \in 1 .. b : SubSeq(a, 1, b)[i] = a[i]
    BY <1>1, SubSeqOf
  <2>2. SubSeq(s, 1, b) \in Seq(S) /\ Len(SubSeq(s, 1, b)) = b /\ \A i \in 1 .. b : SubSeq(s, 1, b)[i] = s[i]
    BY SubSeqOf
  <2>3. \A i \in 1 .. b : SubSeq(a, 1, b)[i] = SubSeq(s, 1, b)[i]
    BY <1>1, <2>1, <2>2
  <2>. QED BY <2>1, <2>2, <2>3, SeqEqual
<1>. QED BY <1>5, <1>6 DEF a, u

\* A prefix of a prefix, and what follows the first b elements of a prefix.
LEMMA PrefixOfPrefix ==
  ASSUME NEW S, NEW s \in Seq(S), NEW k \in Nat, NEW b \in Nat, b <= k, k <= Len(s)
  PROVE  /\ SubSeq(SubSeq(s, 1, k), 1, b) = SubSeq(s, 1, b)
         /\ SubSeq(SubSeq(s, 1, k), b + 1, k) = SubSeq(SubSeq(s, b + 1, Len(s)), 1, k - b)
<1>. DEFINE a == SubSeq(s, 1, k)
            u == SubSeq(s, b + 1, Len(s))
<1>1. a \in Seq(S) /\ Len(a) = k /\ \A i \in 1 .. k : a[i] = s[i]
  BY SubSeqOf
<1>2. u \in Seq(S) /\ Len(u) = Len(s) - b /\ \A i \in 1 .. Len(s) - b : u[i] = s[b + i]
  BY SubSeqOf
<1>. HIDE DEF a, u
<1>3. SubSeq(a, 1, b) = SubSeq(s, 1, b)
  <2>1. SubSeq(a, 1, b) \in Seq(S) /\ Len(SubSeq(a, 1, b)) = b /\ \A i \in 1 .. b : SubSeq(a, 1, b)[i] = a[i]
    BY <1>1, SubSeqOf
  <2>2. SubSeq(s, 1, b) \in Seq(S) /\ Len(SubSeq(s, 1, b)) = b /\ \A i \in 1 .. b : SubSeq(s, 1, b)[i] = s[i]
    BY SubSeqOf
  <2>3. \A i \in 1 .. b : SubSeq(a, 1, b)[i] = SubSeq(s, 1, b)[i]
    BY <1>1, <2>1, <2>2
  <2>. QED BY <2>1, <2>2, <2>3, SeqEqual
<1>4. SubSeq(a, b + 1, k) = SubSeq(u, 1, k - b)
  <2>1. SubSeq(a, b + 1, k) \in Seq(S) /\ Len(SubSeq(a, b + 1, k)) = k - b
        /\ \A i \in 1 .. k - b : SubSeq(a, b + 1, k)[i] = a[b + i]
    BY <1>1, SubSeqOf
  <2>2. SubSeq(u, 1, k - b) \in Seq(S) /\ Len(SubSeq(u, 1, k - b)) = k - b
        /\ \A i \in 1 .. k - b : SubSeq(u, 1, k - b)[i] = u[i]
    BY <1>2, SubSeqOf
  <2>3. \A i \in 1 .. k - b : SubSeq(a, b + 1, k)[i] = SubSeq(u, 1, k - b)[i]
    BY <1>1, <1>2, <2>1, <2>2
  <2>. QED BY <2>1, <2>2, <2>3, SeqEqual
<1>. QED BY <1>3, <1>4 DEF a, u

-----------------------------------------------------------------------------
\* A savepoint of a name not marked yet, and its mark.
LEMMA LinedAppend ==
  ASSUME NEW saves \in Seq(Savepoint), NEW marks \in Seq(Savepoint), NEW base \in Nat,
         NEW sv \in Savepoint, NEW mk \in Savepoint, sv.name = mk.name, sv.len = base + mk.len,
         Lined(base, saves, marks), Newest(marks, mk.name) = 0
  PROVE  Lined(base, Append(saves, sv), Append(marks, mk))
<1>. DEFINE u == Append(saves, sv)
            q == Append(marks, mk)
            n == mk.name
<1>1. Len(saves) \in Nat /\ Len(marks) \in Nat
  BY LenProperties
<1>2. /\ Len(u) = Len(saves) + 1 /\ u[Len(saves) + 1] = sv /\ \A j \in At(saves) : u[j] = saves[j]
      /\ Len(q) = Len(marks) + 1 /\ q[Len(marks) + 1] = mk /\ \A i \in At(marks) : q[i] = marks[i]
  BY AppendProperties DEF At
<1>3. \A i \in At(marks) : marks[i].name # n
  BY NewestIs DEF At
<1>4. \A j \in At(saves) : saves[j].name # n
  BY <1>3 DEF Lined, Marked
<1>. HIDE DEF u, q, n
<1>5. \A i \in At(q) : i \in At(marks) \/ i = Len(marks) + 1
  BY <1>1, <1>2 DEF At
<1>6. \A j \in At(u) : j \in At(saves) \/ j = Len(saves) + 1
  BY <1>1, <1>2 DEF At
<1>7. Distinct(q)
  <2>. SUFFICES ASSUME NEW i \in At(q), NEW j \in At(q), q[i].name = q[j].name PROVE i = j
    BY DEF Distinct
  <2>1. CASE i \in At(marks) /\ j \in At(marks)
    BY <1>2, <2>1 DEF Lined, Distinct
  <2>2. CASE i = Len(marks) + 1 /\ j \in At(marks)
    BY <1>2, <1>3, <2>2 DEF n
  <2>3. CASE i \in At(marks) /\ j = Len(marks) + 1
    BY <1>2, <1>3, <2>3 DEF n
  <2>. QED BY <1>5, <2>1, <2>2, <2>3
<1>8. Marked(base, u, q)
  <2>. SUFFICES ASSUME NEW j \in At(u) PROVE \E i \in At(q) : q[i].name = u[j].name /\ u[j].len = base + q[i].len
    BY DEF Marked
  <2>1. CASE j \in At(saves)
    <3>1. PICK i \in At(marks) : marks[i].name = saves[j].name /\ saves[j].len = base + marks[i].len
      BY <2>1 DEF Lined, Marked
    <3>2. i \in At(q)
      BY <1>1, <1>2 DEF At
    <3>. QED BY <1>2, <2>1, <3>1, <3>2
  <2>2. CASE j = Len(saves) + 1
    <3>1. Len(marks) + 1 \in At(q)
      BY <1>1, <1>2 DEF At
    <3>. QED BY <1>2, <2>2, <3>1
  <2>. QED BY <1>6, <2>1, <2>2
<1>9. InStep(u, q)
  <2>. SUFFICES ASSUME NEW j \in At(u), NEW k \in At(u), NEW i \in At(q), NEW l \in At(q),
                       j < k, q[i].name = u[j].name, q[l].name = u[k].name
                PROVE  i < l
    BY DEF InStep
  <2>1. j \in At(saves)
    BY <1>1, <1>2, <1>6 DEF At
  <2>2. i \in At(marks)
    BY <1>2, <1>4, <1>5, <2>1 DEF n
  <2>3. CASE k = Len(saves) + 1
    <3>1. l = Len(marks) + 1
      BY <1>2, <1>3, <1>5, <2>3 DEF n
    <3>. QED BY <1>1, <2>2, <3>1 DEF At
  <2>4. CASE k \in At(saves)
    <3>1. l \in At(marks)
      BY <1>2, <1>4, <1>5, <2>4 DEF n
    <3>2. marks[i].name = saves[j].name /\ marks[l].name = saves[k].name
      BY <1>2, <2>1, <2>2, <2>4, <3>1
    <3>. QED BY <2>1, <2>2, <2>4, <3>1, <3>2 DEF Lined, InStep
  <2>. QED BY <1>6, <2>3, <2>4
<1>. QED BY <1>7, <1>8, <1>9 DEF Lined, u, q

\* Savepoint i and the later ones are forgotten, and the marks behind m, where the
\* mark of savepoint i is the m-th or the next one.
LEMMA LinedPrefix ==
  ASSUME NEW saves \in Seq(Savepoint), NEW marks \in Seq(Savepoint), NEW base \in Nat,
         Lined(base, saves, marks), NEW i \in At(saves), NEW x \in At(marks), marks[x].name = saves[i].name,
         NEW m \in {x - 1, x}
  PROVE  Lined(base, SubSeq(saves, 1, i - 1), SubSeq(marks, 1, m))
<1>. DEFINE u == SubSeq(saves, 1, i - 1)
            q == SubSeq(marks, 1, m)
<1>1. Len(saves) \in Nat /\ Len(marks) \in Nat /\ i - 1 \in Nat /\ m \in Nat /\ i - 1 <= Len(saves) /\ m <= Len(marks)
  BY LenProperties DEF At
<1>2. /\ Len(u) = i - 1 /\ \A j \in 1 .. i - 1 : u[j] = saves[j]
      /\ Len(q) = m /\ \A j \in 1 .. m : q[j] = marks[j]
  BY <1>1, SubSeqOf
<1>. HIDE DEF u, q
<1>3. \A j \in At(u) : j \in At(saves) /\ j < i /\ u[j] = saves[j]
  BY <1>1, <1>2 DEF At
<1>4. \A j \in At(q) : j \in At(marks) /\ q[j] = marks[j]
  BY <1>1, <1>2 DEF At
<1>5. Distinct(q)
  BY <1>4 DEF Lined, Distinct
<1>6. Marked(base, u, q)
  <2>. SUFFICES ASSUME NEW j \in At(u) PROVE \E y \in At(q) : q[y].name = u[j].name /\ u[j].len = base + q[y].len
    BY DEF Marked
  <2>1. PICK y \in At(marks) : marks[y].name = saves[j].name /\ saves[j].len = base + marks[y].len
    BY <1>3 DEF Lined, Marked
  <2>2. y < x
    BY <1>3, <2>1 DEF Lined, InStep
  <2>3. y \in At(q)
    BY <1>1, <1>2, <2>2 DEF At
  <2>. QED BY <1>3, <1>4, <2>1, <2>3
<1>7. InStep(u, q)
  <2>. SUFFICES ASSUME NEW j \in At(u), NEW k \in At(u), NEW y \in At(q), NEW z \in At(q),
                       j < k, q[y].name = u[j].name, q[z].name = u[k].name
                PROVE  y < z
    BY DEF InStep
  <2>1. marks[y].name = saves[j].name /\ marks[z].name = saves[k].name
    BY <1>3, <1>4
  <2>2. j \in At(saves) /\ k \in At(saves) /\ y \in At(marks) /\ z \in At(marks)
    BY <1>3, <1>4
  <2>. QED BY <2>1, <2>2 DEF Lined, InStep
<1>. QED BY <1>5, <1>6, <1>7 DEF Lined, u, q

\* The names and lengths of a sequence of savepoints.
LEMMA SavepointIs ==
  ASSUME NEW s \in Seq(Savepoint)
  PROVE  \A j \in At(s) : s[j] \in Savepoint /\ s[j].len \in Nat /\ s[j].name \in Names
<1>1. \A j \in At(s) : s[j] \in Savepoint
  BY ElementOfSeq DEF At
<1>. QED BY <1>1 DEF Savepoint

-----------------------------------------------------------------------------
\* The step moves no connection but c.
Alone(c) == \A d \in Conns \ {c} : pc'[d] = pc[d] /\ req'[d] = req[d]

\* A step that leaves the engine, the gate and the order alone and moves one connection
\* outside the guarded section.
LEMMA QuietStep ==
  ASSUME Inv, NEW c \in Conns, Alone(c), Shape', Request(c)',
         UNCHANGED <<db, soft, tx, gate, order, acked>>,
         ~Holding(c), ~Holding(c)', pc'[c] = "gone" => owner # c, FreshName(c)'
  PROVE  Inv'
<1>. USE SessionsAssumption
<1>0. \A d \in Conns \ {c} : pc'[d] = pc[d] /\ req'[d] = req[d]
  BY DEF Alone
<1>2. Requests'
  BY <1>0 DEF Inv, Requests, Request
<1>3. Locking' /\ order # c
  <2>1. order # c
    BY DEF Inv, Locking
  <2>2. \A d \in Conns \ {c} : Holding(d)' <=> Holding(d)
    BY <1>0 DEF Holding
  <2>. QED BY <2>1, <2>2 DEF Inv, Locking
<1>4. Ownership'
  <2>1. ASSUME NEW d \in Conns, order = d PROVE Owned(d)'
    <3>1. d # c /\ Owned(d)
      BY <1>3, <2>1 DEF Inv, Ownership
    <3>. QED BY <1>0, <3>1 DEF Owned, gate
  <2>2. owner # None => pc'[owner] # "gone"
    BY <1>0 DEF Inv, Ownership, Shape, Contents, Conns
  <2>. QED BY <2>1, <2>2 DEF Inv, Ownership, gate
<1>5. Authors'
  BY DEF Inv, Authors, Author, gate
<1>6. Buffering'
  <2>1. (owner = None /\ (\A d \in Conns : pc[d] # "undo") => pend = NoBuffer)'
    BY <1>0 DEF Inv, Buffering, Holding, gate
  <2>2. (tx.open => Nested(tx.base, tx.saves, Len(db)))' /\ (tx.open /\ order = None => Agree(db, tx, pend))'
    BY DEF Inv, Buffering, gate, Agree, Nested
  <2>3. ASSUME NEW d \in Conns, tx'.open /\ order' = d
        PROVE  Agree(db, tx, Recorded(d))'
    <3>1. d # c /\ pc'[d] = pc[d] /\ req'[d] = req[d]
      BY <1>0, <1>3, <2>3
    <3>2. Recorded(d)' = Recorded(d)
      BY <3>1 DEF Recorded, Push, Mark, Release, RollbackTo, gate
    <3>3. Agree(db, tx, Recorded(d))
      BY <2>3 DEF Inv, Buffering
    <3>. QED BY <3>2, <3>3 DEF Agree
  <2>4. ASSUME NEW d \in Conns PROVE FreshName(d)'
    BY <1>0 DEF Inv, Buffering, FreshName, gate
  <2>. QED BY <2>1, <2>2, <2>3, <2>4 DEF Buffering
<1>7. Durability'
  BY <1>0 DEF Inv, Durability, Promised, Kept, Durable, CommittedLen, gate, Holding
<1>. QED BY <1>2, <1>3, <1>4, <1>5, <1>6, <1>7 DEF Inv

\* What the holder of write_order owes of the buffer.
Buffered(c) ==
  /\ owner = None /\ pc[c] # "undo" => pend = NoBuffer
  /\ tx.open => Nested(tx.base, tx.saves, Len(db)) /\ Agree(db, tx, Recorded(c))
  /\ FreshName(c)

\* What a connection in the guarded section knows.
LEMMA HolderKnows ==
  ASSUME Inv, NEW c \in Conns, Holding(c)
  PROVE  /\ order = c /\ Owned(c) /\ Buffered(c) /\ Promised(c) /\ Request(c)
         /\ \A d \in Conns \ {c} : ~Holding(d) /\ pc[d] # "undo"
<1>. USE SessionsAssumption
<1>1. order = c /\ \A d \in Conns \ {c} : ~Holding(d)
  BY DEF Inv, Locking
<1>2. \A d \in Conns \ {c} : pc[d] # "undo"
  BY <1>1 DEF Holding
<1>3. Owned(c) /\ Promised(c) /\ Request(c)
  BY <1>1 DEF Inv, Ownership, Durability, Requests
<1>4. Buffered(c)
  BY <1>1, <1>2 DEF Inv, Buffering, Buffered
<1>. QED BY <1>1, <1>2, <1>3, <1>4

\* A step of the connection that holds write_order or takes it.
LEMMA HolderStep ==
  ASSUME Inv, NEW c \in Conns, order \in {None, c}, Alone(c), Shape', Request(c)',
         (order' = c /\ Holding(c)') \/ (order' = None /\ ~Holding(c)'),
         owner' \in {None, c}, order' = None => (tx'.open <=> owner' # None), order' = c => Owned(c)',
         pc'[c] = "gone" => owner' # c, Authors', Buffered(c)', Kept', Promised(c)'
  PROVE  Inv'
<1>. USE SessionsAssumption
<1>0. \A d \in Conns \ {c} : pc'[d] = pc[d] /\ req'[d] = req[d]
  BY DEF Alone
<1>1. \A d \in Conns \ {c} : ~Holding(d)
  BY DEF Inv, Locking, Conns
<1>2. \A d \in Conns \ {c} : ~Holding(d)' /\ pc'[d] \notin {"post", "drain", "send", "undo"}
  BY <1>0, <1>1 DEF Holding
<1>3. Requests'
  BY <1>0 DEF Inv, Requests, Request
<1>4. Locking'
  BY <1>2 DEF Locking, Conns
<1>5. Ownership'
  BY DEF Ownership, Conns
<1>6. Buffering'
  <2>1. (owner = None /\ (\A d \in Conns : pc[d] # "undo") => pend = NoBuffer)'
    BY DEF Buffered
  <2>2. (tx.open => Nested(tx.base, tx.saves, Len(db)))'
    BY DEF Buffered
  <2>3. (tx.open /\ order = None => Agree(db, tx, pend))'
    <3>. SUFFICES ASSUME tx'.open, order' = None PROVE Agree(db, tx, pend)'
      OBVIOUS
    <3>1. pc'[c] # "post"
      BY DEF Holding, Conns
    <3>. QED BY <3>1 DEF Buffered, Recorded
  <2>4. ASSUME NEW d \in Conns, tx'.open /\ order' = d PROVE Agree(db, tx, Recorded(d))'
    BY <2>4 DEF Buffered, Conns
  <2>5. ASSUME NEW d \in Conns PROVE FreshName(d)'
    <3>1. CASE d = c
      BY <3>1 DEF Buffered
    <3>2. CASE d # c
      BY <3>2 DEF FreshName, Conns
    <3>. QED BY <3>1, <3>2
  <2>. QED BY <2>1, <2>2, <2>3, <2>4, <2>5 DEF Buffering
<1>7. Durability'
  <2>1. ASSUME NEW d \in Conns PROVE Promised(d)'
    BY <1>2 DEF Promised
  <2>. QED BY <2>1 DEF Durability
<1>. QED BY <1>3, <1>4, <1>5, <1>6, <1>7 DEF Inv

Statements == [kind : Kinds, name : Names \cup {None}, w : Write \cup {None}]

\* One connection moves on, and its statement is replaced or stays.
LEMMA Moves ==
  ASSUME Shape, NEW c \in Conns, NEW p \in Steps, Go(c, p), NEW r \in Statements,
         req' = [req EXCEPT ![c] = r] \/ (req' = req /\ r = req[c])
  PROVE  Alone(c) /\ pc'[c] = p /\ req'[c] = r /\ pc' \in [Conns -> Steps] /\ req' \in [Conns -> Statements]
<1>1. pc \in [Conns -> Steps] /\ req \in [Conns -> Statements]
  BY DEF Shape, Contents, Statements
<1>2. pc' = [pc EXCEPT ![c] = p]
  BY DEF Go
<1>3. req' = [req EXCEPT ![c] = r]
  BY <1>1
<1>. QED BY <1>1, <1>2, <1>3 DEF Alone

\* The statement is answered.
LEMMA Replies ==
  ASSUME Shape, NEW c \in Conns, Reply(c)
  PROVE  /\ Alone(c) /\ pc'[c] = "idle" /\ req'[c] = Idle
         /\ pc' \in [Conns -> Steps] /\ req' \in [Conns -> Statements] /\ order' = IF order = c THEN None ELSE order
         /\ Request(c)' /\ ~Holding(c)' /\ Promised(c)' /\ FreshName(c)'
<1>1. Idle \in Statements /\ "idle" \in Steps
  BY DEF Idle, Stmt, Statements, Kinds, Steps
<1>2. Alone(c) /\ pc'[c] = "idle" /\ req'[c] = Idle /\ pc' \in [Conns -> Steps] /\ req' \in [Conns -> Statements]
  BY <1>1, Moves DEF Reply
<1>3. Request(c)' /\ ~Holding(c)' /\ Promised(c)' /\ FreshName(c)'
  BY <1>2 DEF Request, Holding, Promised, FreshName, Idle, Stmt, Marking
<1>. QED BY <1>2, <1>3 DEF Reply

-----------------------------------------------------------------------------
\* Statements arrive and queue.
LEMMA StartKeeps ==
  ASSUME Inv, NEW c \in Conns, NEW s \in Statements, Start(c, s), issued' \in Nat,
         s.kind # "none",
         s.kind = "write" => s.w \in Write /\ s.w[1] = c,
         s.kind \in Marking => s.name \in Names,
         s.kind # "write" => c \in Clients,
         s.kind = "savepoint" => Newest(pend.marks, s.name) = 0
  PROVE  Inv'
<1>1. Queue(c, s) \in Steps /\ Queue(c, s) \in {"wait", "lock", "exec"}
      /\ (Queue(c, s) = "exec" => s.kind = "read") /\ (Queue(c, s) = "lock" => s.kind # "read")
      /\ (Queue(c, s) = "wait" => s.kind \in {"read", "write", "begin"})
  BY DEF Queue, Steps
<1>2. Alone(c) /\ pc'[c] = Queue(c, s) /\ req'[c] = s /\ pc' \in [Conns -> Steps] /\ req' \in [Conns -> Statements]
  BY <1>1, Moves DEF Start, Inv
<1>3. Shape'
  BY <1>2 DEF Start, Inv, Shape, Contents, engine, gate, Statements
<1>4. Request(c)' /\ ~Holding(c)'
  BY <1>1, <1>2 DEF Request, Holding
<1>5. ~Holding(c)
  BY DEF Start, Holding
<1>6. FreshName(c)'
  BY <1>2 DEF FreshName, Start, gate
<1>. QED BY <1>1, <1>2, <1>3, <1>4, <1>5, <1>6, QuietStep DEF Start, engine

\* A read that arrives (REQ_SQL).
LEMMA StartReadKeeps ==
  ASSUME Inv, NEW c \in Clients, StartRead(c)
  PROVE  Inv'
<1>1. Read \in Statements /\ Read.kind = "read" /\ c \in Conns
  BY DEF Read, Stmt, Statements, Kinds, Conns
<1>2. issued' \in Nat
  BY DEF StartRead, budget, Inv, Shape, Contents
<1>. QED BY <1>1, <1>2, StartKeeps DEF StartRead, Marking

\* A write that arrives, with its place in the buffer checked (check_room).
LEMMA StartWriteKeeps ==
  ASSUME Inv, NEW c \in Conns, StartWrite(c)
  PROVE  Inv'
<1>. DEFINE w == <<c, issued + 1>>
            s == Stmt("write", None, w)
<1>1. issued' \in Nat /\ w \in Write /\ w[1] = c
  BY DEF StartWrite, Inv, Shape, Contents, Write
<1>2. s \in Statements /\ s.kind = "write" /\ s.w = w
  BY <1>1 DEF Stmt, Statements, Kinds
<1>3. Start(c, s)
  BY DEF StartWrite
<1>. HIDE DEF s, w
<1>. QED BY <1>1, <1>2, <1>3, StartKeeps DEF Marking

\* A transaction control statement that arrives; a savepoint takes a free name.
LEMMA StartControlKeeps ==
  ASSUME Inv, ReuseNames = FALSE, NEW c \in Clients, NEW s \in Control, StartControl(c, s)
  PROVE  Inv'
<1>1. s \in Statements /\ s.kind \notin {"none", "write"} /\ (s.kind \in Marking => s.name \in Names) /\ c \in Conns
  BY DEF Control, Stmt, Statements, Kinds, Marking, Conns
<1>2. issued' \in Nat
  BY DEF StartControl, Inv, Shape, Contents
<1>3. s.kind = "savepoint" => Newest(pend.marks, s.name) = 0
  BY DEF StartControl
<1>4. Start(c, s)
  BY DEF StartControl
<1>. QED BY <1>1, <1>2, <1>3, <1>4, StartKeeps

\* A statement that waits for the engine to be free of transactions, or gives up.
LEMMA WaitKeeps ==
  ASSUME Inv, NEW c \in Conns, WaitFree(c) \/ WaitDeadline(c)
  PROVE  Inv'
<1>. USE DEF Inv
<1>0. req[c] \in Statements /\ pc[c] = "wait" /\ Request(c) /\ ~Holding(c) /\ order # c
  <2>1. pc[c] = "wait"
    BY DEF WaitFree, WaitDeadline
  <2>2. ~Holding(c)
    BY <2>1 DEF Holding
  <2>. QED BY <2>1, <2>2 DEF Shape, Contents, Requests, Statements, Locking
<1>1. CASE WaitFree(c) \/ (WaitDeadline(c) /\ Go(c, "last") /\ req[c].kind # "read" /\ UNCHANGED <<req, order>>)
  <2>. DEFINE p == IF WaitFree(c) THEN IF req[c].kind = "read" THEN "exec" ELSE "lock" ELSE "last"
  <2>1. p \in {"exec", "lock", "last"} /\ Go(c, p) /\ req' = req /\ (p = "exec" => req[c].kind = "read") /\ (p # "exec" => req[c].kind # "read")
    BY <1>1 DEF WaitFree
  <2>. HIDE DEF p
  <2>2. p \in Steps
    BY <2>1 DEF Steps
  <2>3. Alone(c) /\ pc'[c] = p /\ req'[c] = req[c] /\ pc' \in [Conns -> Steps] /\ req' \in [Conns -> Statements]
    BY <1>0, <2>1, <2>2, Moves
  <2>4. UNCHANGED <<db, soft, tx, gate, order, acked, issued>>
    BY <1>1 DEF WaitFree, WaitDeadline, engine, budget
  <2>5. Shape'
    BY <2>3, <2>4 DEF Shape, Contents, gate, Statements
  <2>6. Request(c)' /\ ~Holding(c)' /\ p # "gone"
    BY <1>0, <2>1, <2>3 DEF Request, Holding
  <2>7. FreshName(c)'
    BY <1>0, <2>3 DEF Request, FreshName
  <2>. QED BY <1>0, <2>3, <2>4, <2>5, <2>6, <2>7, QuietStep
<1>2. CASE WaitDeadline(c) /\ Reply(c)
  <2>1. UNCHANGED <<db, soft, tx, gate, order, acked, issued>>
    BY <1>0, <1>2, Replies DEF WaitDeadline, engine, budget
  <2>2. Shape'
    BY <1>2, <2>1, Replies DEF Shape, Contents, gate, Statements
  <2>. QED BY <1>0, <1>2, <2>1, <2>2, Replies, QuietStep
<1>. QED BY <1>1, <1>2 DEF WaitDeadline

\* write_order is taken, or the statement goes back.
LEMMA TakeOrderKeeps ==
  ASSUME Inv, NEW c \in Conns, TakeOrder(c)
  PROVE  Inv'
<1>. USE SessionsAssumption
<1>0. /\ req[c] \in Statements /\ pc[c] \in {"lock", "last"} /\ Request(c) /\ ~Holding(c) /\ order = None /\ c # None
      /\ FreshName(c) /\ \A d \in Conns : ~Holding(d) /\ pc[d] # "undo"
  <2>1. pc[c] \in {"lock", "last"} /\ order = None /\ c # None
    BY DEF TakeOrder, Conns
  <2>2. \A d \in Conns : ~Holding(d)
    BY <2>1 DEF Inv, Locking, Conns
  <2>3. \A d \in Conns : pc[d] # "undo"
    BY <2>2 DEF Holding
  <2>. QED BY <2>1, <2>2, <2>3 DEF Inv, Shape, Contents, Requests, Statements, Buffering
<1>1. UNCHANGED <<db, soft, tx, gate, acked, issued>>
  BY DEF TakeOrder, engine, budget
<1>2. CASE ~Busy(c) /\ order' = c /\ Go(c, "exec") /\ UNCHANGED req
  <2>1. Alone(c) /\ pc'[c] = "exec" /\ req'[c] = req[c] /\ pc' \in [Conns -> Steps] /\ req' \in [Conns -> Statements]
    <3>1. "exec" \in Steps
      BY DEF Steps
    <3>. QED BY <1>0, <1>2, <3>1, Moves DEF Inv
  <2>2. Shape'
    BY <1>1, <1>2, <2>1 DEF Inv, Shape, Contents, gate, Statements, Conns
  <2>3. Request(c)' /\ Holding(c)' /\ Promised(c)'
    BY <1>0, <2>1 DEF Request, Holding, Promised
  <2>4. (tx.open <=> owner # None) /\ (tx.open => owner = c) /\ owner \in {None, c}
    BY <1>0, <1>2 DEF Inv, Ownership, Busy
  <2>5. Owned(c)'
    BY <1>1, <2>1, <2>4 DEF Owned, gate
  <2>6. Authors'
    BY <1>0, <1>1, <1>2, <2>4 DEF Inv, Authors, Author, gate
  <2>7. Buffered(c)'
    <3>1. Recorded(c)' = pend
      BY <1>1, <2>1 DEF Recorded, gate
    <3>2. tx.open => Nested(tx.base, tx.saves, Len(db)) /\ Agree(db, tx, pend)
      BY <1>0 DEF Inv, Buffering
    <3>3. (tx.open => Nested(tx.base, tx.saves, Len(db)) /\ Agree(db, tx, Recorded(c)))'
      BY <1>1, <3>1, <3>2 DEF Agree
    <3>4. FreshName(c)'
      BY <1>0, <1>1, <2>1 DEF FreshName, gate
    <3>5. owner = None => pend = NoBuffer
      BY <1>0 DEF Inv, Buffering
    <3>. QED BY <1>1, <3>3, <3>4, <3>5 DEF Buffered, gate
  <2>8. Kept'
    BY <1>1 DEF Inv, Durability, Kept, CommittedLen, Durable
  <2>9. owner' = owner /\ tx' = tx
    BY <1>1 DEF gate
  <2>. QED BY <1>0, <1>2, <2>1, <2>2, <2>3, <2>4, <2>5, <2>6, <2>7, <2>8, <2>9, HolderStep
<1>3. CASE Reply(c)
  <2>1. order' = order
    BY <1>0, <1>3, Replies DEF Inv
  <2>2. Shape'
    BY <1>1, <1>3, <2>1, Replies DEF Inv, Shape, Contents, gate, Statements
  <2>3. Alone(c) /\ Request(c)' /\ ~Holding(c)' /\ FreshName(c)' /\ pc'[c] # "gone"
    BY <1>3, Replies DEF Inv
  <2>. QED BY <1>0, <1>1, <2>1, <2>2, <2>3, QuietStep
<1>4. CASE pc[c] = "lock" /\ Go(c, Queue(c, req[c])) /\ UNCHANGED <<req, order>>
  <2>1. Queue(c, req[c]) \in Steps /\ Queue(c, req[c]) \in {"wait", "lock"}
        /\ (Queue(c, req[c]) = "wait" => req[c].kind \in {"read", "write", "begin"})
    BY <1>0, <1>4 DEF Queue, Steps, Request
  <2>2. Alone(c) /\ pc'[c] = Queue(c, req[c]) /\ req'[c] = req[c] /\ pc' \in [Conns -> Steps] /\ req' \in [Conns -> Statements]
    BY <1>0, <1>4, <2>1, Moves DEF Inv
  <2>3. Shape'
    BY <1>1, <1>4, <2>2 DEF Inv, Shape, Contents, gate, Statements
  <2>4. Request(c)' /\ ~Holding(c)' /\ pc'[c] # "gone"
    BY <1>0, <2>1, <2>2 DEF Request, Holding
  <2>5. FreshName(c)'
    BY <1>0, <1>1, <2>2 DEF FreshName, gate
  <2>. QED BY <1>0, <1>1, <1>4, <2>2, <2>3, <2>4, <2>5, QuietStep
<1>. QED BY <1>2, <1>3, <1>4 DEF TakeOrder

\* Reads leave everything as it is.
LEMMA ReadKeeps ==
  ASSUME Inv, NEW c \in Conns, ExecRead(c) \/ ReadView(c)
  PROVE  Inv'
<1>. USE SessionsAssumption
<1>1. Reply(c) /\ UNCHANGED <<db, soft, tx, gate, acked, issued>>
  BY DEF ExecRead, ReadView, engine, budget
<1>2. ~Holding(c)
  BY DEF ExecRead, ReadView, Holding
<1>3. order' = order
  BY <1>1, <1>2, Replies DEF Inv, Locking
<1>4. Shape'
  BY <1>1, <1>3, Replies DEF Inv, Shape, Contents, gate, Statements
<1>5. Alone(c) /\ Request(c)' /\ ~Holding(c)' /\ FreshName(c)' /\ pc'[c] # "gone"
  BY <1>1, Replies DEF Inv
<1>. QED BY <1>1, <1>2, <1>3, <1>4, <1>5, QuietStep

\* A connection outside the pipeline moves to p with statement r.
LEMMA OutsideKeeps ==
  ASSUME Inv, NEW c \in Conns, NEW p \in {"view", "leave", "gone"}, Go(c, p), NEW r \in Statements,
         req' = [req EXCEPT ![c] = r] \/ (req' = req /\ r = req[c]),
         (r.kind \in {"none", "read"} /\ (r.kind = "read" => c \in Clients)) \/ r = req[c],
         pc[c] \in {"idle", "leave"}, p = "gone" => owner # c,
         UNCHANGED <<db, soft, tx, gate, order, acked, issued>>
  PROVE  Inv'
<1>1. p \in Steps
  BY DEF Steps
<1>2. Alone(c) /\ pc'[c] = p /\ req'[c] = r /\ pc' \in [Conns -> Steps] /\ req' \in [Conns -> Statements]
  BY <1>1, Moves DEF Inv
<1>3. Shape'
  BY <1>2 DEF Inv, Shape, Contents, gate, Statements
<1>4. Request(c)'
  BY <1>2 DEF Inv, Requests, Request, Marking
<1>5. ~Holding(c) /\ ~Holding(c)' /\ FreshName(c)'
  BY <1>2 DEF Holding, FreshName
<1>. QED BY <1>2, <1>3, <1>4, <1>5, QuietStep

\* A read that goes to the lock-free path (classify_read_eligible).
LEMMA ReadEligibleKeeps ==
  ASSUME Inv, NEW c \in Clients, ReadEligible(c)
  PROVE  Inv'
<1>1. Read \in Statements /\ Read.kind = "read" /\ c \in Conns
  BY DEF Read, Stmt, Statements, Kinds, Conns
<1>. QED BY <1>1, OutsideKeeps DEF ReadEligible, engine, budget

\* A client that leaves between statements.
LEMMA DisconnectKeeps ==
  ASSUME Inv, NEW c \in Clients, Disconnect(c)
  PROVE  Inv'
<1>1. req[c] \in Statements /\ c \in Conns
  BY DEF Inv, Shape, Contents, Statements, Conns
<1>. QED BY <1>1, OutsideKeeps DEF Disconnect, engine, budget

\* The cleanup of a connection: the owner takes write_order with its transaction.
LEMMA LeaveKeeps ==
  ASSUME Inv, NEW c \in Conns, Leave(c)
  PROVE  Inv'
<1>. USE SessionsAssumption
<1>0. req[c] \in Statements /\ pc[c] = "leave" /\ Request(c) /\ order = None /\ c # None /\ "undo" \in Steps
  BY DEF Inv, Shape, Contents, Statements, Leave, Requests, Conns, Steps
<1>1. UNCHANGED <<db, soft, tx, pend, due, req, acked, issued>>
  BY DEF Leave, engine, budget
<1>2. CASE owner # c /\ Go(c, "gone") /\ UNCHANGED <<order, owner>>
  BY <1>0, <1>1, <1>2, OutsideKeeps DEF gate
<1>3. CASE owner = c /\ owner' = None /\ order' = c /\ Go(c, "undo")
  <2>1. Alone(c) /\ pc'[c] = "undo" /\ req'[c] = req[c] /\ pc' \in [Conns -> Steps] /\ req' \in [Conns -> Statements]
    BY <1>0, <1>1, <1>3, Moves DEF Inv
  <2>2. Shape' /\ c \in Clients
    BY <1>0, <1>1, <1>3, <2>1 DEF Inv, Shape, Contents, Statements, Conns
  <2>3. Request(c)' /\ Holding(c)' /\ Promised(c)'
    BY <1>0, <2>1, <2>2 DEF Request, Holding, Promised
  <2>4. tx.open /\ Owned(c)'
    BY <1>0, <1>1, <1>3, <2>1 DEF Inv, Ownership, Owned
  <2>5. Authors'
    BY <1>0, <1>1, <1>3 DEF Inv, Authors, Author
  <2>6. Buffered(c)'
    <3>1. Recorded(c)' = pend
      BY <1>1, <2>1 DEF Recorded
    <3>2. Nested(tx.base, tx.saves, Len(db)) /\ Agree(db, tx, pend)
      BY <1>0, <2>4 DEF Inv, Buffering
    <3>3. (tx.open => Nested(tx.base, tx.saves, Len(db)) /\ Agree(db, tx, Recorded(c)))'
      BY <1>1, <3>1, <3>2 DEF Agree
    <3>4. FreshName(c)'
      BY <2>1 DEF FreshName
    <3>. QED BY <2>1, <3>3, <3>4 DEF Buffered
  <2>7. Kept'
    BY <1>1 DEF Inv, Durability, Kept, CommittedLen, Durable
  <2>. QED BY <1>0, <1>1, <1>3, <2>1, <2>2, <2>3, <2>4, <2>5, <2>6, <2>7, HolderStep
<1>. QED BY <1>2, <1>3 DEF Leave

-----------------------------------------------------------------------------
\* What is on disk stays there when the engine's contents grow behind it.
LEMMA DurableStays ==
  ASSUME Inv, Contents', CommittedLen - soft <= CommittedLen' - soft',
         \A i \in 1 .. CommittedLen - soft : db'[i] = db[i]
  PROVE  \A w : Durable(w) => Durable(w)'
<1>1. CommittedLen \in Nat /\ CommittedLen' \in Nat /\ soft \in Nat /\ soft' \in Nat
  BY LenProperties DEF Inv, Shape, Contents, CommittedLen
<1>. SUFFICES ASSUME NEW w, Durable(w) PROVE Durable(w)'
  OBVIOUS
<1>2. PICK i \in 1 .. CommittedLen - soft : db[i] = w
  BY DEF Durable
<1>3. i \in 1 .. CommittedLen' - soft'
  <2>1. CommittedLen - soft \in Int
    BY <1>1
  <2>2. CommittedLen' - soft' \in Int
    BY <1>1
  <2>3. \A a, b \in Int : a <= b => 1 .. a \subseteq 1 .. b
    OBVIOUS
  <2>4. 1 .. CommittedLen - soft \subseteq 1 .. CommittedLen' - soft'
    BY ONLY <2>1, <2>2, <2>3, CommittedLen - soft <= CommittedLen' - soft' 
  <2>. QED BY <2>4
<1>4. \E j \in 1 .. CommittedLen' - soft' : db'[j] = w
  BY <1>2, <1>3
<1>. QED BY <1>4 DEF Durable

\* Steps that leave the engine alone.
LEMMA EngineStill ==
  ASSUME Inv, UNCHANGED <<db, soft, tx>>
  PROVE  /\ \A w : Durable(w)' <=> Durable(w)
         /\ acked' = acked => Kept'
BY DEF Inv, Durability, Kept, CommittedLen, Durable

\* An executing connection that is not a plain read.
LEMMA Executing ==
  ASSUME Inv, NEW c \in Conns, pc[c] = "exec", req[c].kind # "read"
  PROVE  /\ Holding(c) /\ order = c /\ c # None /\ req[c] \in Statements /\ Request(c)
         /\ tx.open \in BOOLEAN /\ (tx.open => owner = c) /\ (~tx.open => owner = None)
         /\ Recorded(c) = pend
         /\ tx.open => Nested(tx.base, tx.saves, Len(db)) /\ Agree(db, tx, pend)
         /\ ~tx.open => pend = NoBuffer
         /\ req[c].kind = "savepoint" /\ tx.open => Newest(pend.marks, req[c].name) = 0
<1>1. Holding(c) /\ c # None
  BY SessionsAssumption DEF Holding, Conns
<1>2. order = c /\ Owned(c) /\ Buffered(c) /\ Request(c)
  BY <1>1, HolderKnows
<1>3. Recorded(c) = pend
  BY DEF Recorded
<1>4. req[c] \in Statements /\ tx.open \in BOOLEAN
  BY DEF Inv, Shape, Contents, Statements
<1>. QED BY <1>1, <1>2, <1>3, <1>4 DEF Owned, Buffered, FreshName

\* The statement is done in the engine.
LEMMA Executed ==
  ASSUME Inv, NEW c \in Conns, pc[c] = "exec", req[c].kind \notin {"read", "none"}, Go(c, "post"), req' = req, order' = order
  PROVE  /\ Alone(c) /\ pc'[c] = "post" /\ req'[c] = req[c] /\ pc' \in [Conns -> Steps] /\ req' \in [Conns -> Statements]
         /\ Request(c)' /\ Holding(c)' /\ order' = c /\ FreshName(c)'
<1>1. req[c] \in Statements /\ order = c /\ Request(c)
  BY Executing
<1>2. "post" \in Steps
  BY DEF Steps
<1>3. Alone(c) /\ pc'[c] = "post" /\ req'[c] = req[c] /\ pc' \in [Conns -> Steps] /\ req' \in [Conns -> Statements]
  BY <1>1, <1>2, Moves DEF Inv
<1>4. Request(c)' /\ Holding(c)' /\ FreshName(c)'
  BY <1>1, <1>3 DEF Request, Holding, FreshName
<1>. QED BY <1>1, <1>3, <1>4

\* A write: the open transaction or the committed contents grow by it.
LEMMA ExecWriteKeeps ==
  ASSUME Inv, NEW c \in Conns, ExecWrite(c) \/ ExecUnlogged(c)
  PROVE  Inv'
<1>. USE SessionsAssumption
<1>a. PICK w : w = req[c].w
  OBVIOUS
<1>0. pc[c] = "exec" /\ req[c].kind = "write" /\ db' = Append(db, w) /\ Go(c, "post") /\ UNCHANGED <<tx, gate, order, req, acked, issued>>
  BY <1>a DEF ExecWrite, ExecUnlogged, Failing, budget
<1>1. /\ order = c /\ c # None /\ w \in Write /\ w[1] = c
      /\ tx.open \in BOOLEAN /\ (tx.open => owner = c) /\ (~tx.open => owner = None)
  BY <1>a, <1>0, Executing DEF Request
<1>2. /\ Alone(c) /\ pc'[c] = "post" /\ req'[c] = req[c] /\ pc' \in [Conns -> Steps] /\ req' \in [Conns -> Statements]
      /\ Request(c)' /\ Holding(c)' /\ order' = c /\ FreshName(c)'
  BY <1>0, Executed
<1>3. db \in Seq(Write) /\ soft \in Nat /\ tx.base \in Nat /\ Len(db) \in Nat /\ tx.base <= Len(db)
  BY LenProperties DEF Inv, Shape, Contents, Authors
<1>4. db' \in Seq(Write) /\ Len(db') = Len(db) + 1 /\ db'[Len(db) + 1] = w /\ \A i \in 1 .. Len(db) : db'[i] = db[i]
  BY <1>0, <1>1, <1>3, AppendProperties
<1>5. soft' \in Nat /\ (tx.open => soft' = soft) /\ (~tx.open => soft' = 0)
  BY <1>3 DEF ExecWrite, ExecUnlogged
<1>6. Shape'
  BY <1>0, <1>2, <1>4, <1>5 DEF Inv, Shape, Contents, gate, Statements
<1>7. Owned(c)'
  BY <1>0, <1>1, <1>2 DEF Owned, gate, Marking
<1>8. Authors'
  <2>1. tx'.base <= Len(db')
    BY <1>0, <1>3, <1>4
  <2>2. ASSUME tx'.open, NEW i \in tx'.base + 1 .. Len(db') PROVE db'[i][1] = Author'
    <3>1. Author' = c /\ Author = c /\ tx.open
      BY <1>0, <1>1, <2>2 DEF Author, gate
    <3>2. CASE i = Len(db) + 1
      BY <1>1, <1>4, <3>1, <3>2
    <3>3. CASE i \in tx.base + 1 .. Len(db)
      <4>1. db[i][1] = c
        BY <3>1, <3>3 DEF Inv, Authors
      <4>2. db'[i] = db[i]
        BY <1>3, <1>4, <3>3
      <4>. QED BY <3>1, <4>1, <4>2
    <3>4. i = Len(db) + 1 \/ i \in tx.base + 1 .. Len(db)
      BY <1>0, <1>3, <1>4
    <3>. QED BY <3>2, <3>3, <3>4
  <2>. QED BY <2>1, <2>2 DEF Authors
<1>9. Buffered(c)'
  <2>1. owner' = None => pend' = NoBuffer
    BY <1>0, <1>1, Executing DEF gate
  <2>2. ASSUME tx.open PROVE Nested(tx.base, tx.saves, Len(db)) /\ Agree(db, tx, pend)
    BY <1>0, <2>2, Executing
  <2>3. ASSUME tx.open PROVE Nested(tx.base, tx.saves, Len(db'))
    <3>1. \A j \in At(tx.saves) : tx.saves[j].len \in Nat
      <4>1. tx.saves \in Seq(Savepoint)
        BY DEF Inv, Shape, Contents
      <4>. QED BY <4>1, SavepointIs
    <3>. QED BY <1>3, <1>4, <2>2, <2>3, <3>1 DEF Nested
  <2>4. ASSUME tx.open PROVE Agree(db', tx, Recorded(c)')
    <3>1. Recorded(c)' = [pend EXCEPT !.writes = Append(pend.writes, w)]
      BY <1>a, <1>0, <1>2 DEF Recorded, Push, gate
    <3>2. Recorded(c)'.writes = Append(pend.writes, w) /\ Recorded(c)'.marks = pend.marks
      BY <3>1 DEF Inv, Shape, Contents
    <3>3. pend.writes = SubSeq(db, tx.base + 1, Len(db)) /\ Lined(tx.base, tx.saves, pend.marks)
      BY <2>2, <2>4 DEF Agree
    <3>4. SubSeq(db', tx.base + 1, Len(db')) = Append(SubSeq(db, tx.base + 1, Len(db)), w)
      <4>1. w \in Write /\ db' = Append(db, w) /\ Len(db') = Len(db) + 1
        BY <1>0, <1>1, <1>4
      <4>2. SubSeq(Append(db, w), tx.base + 1, Len(db) + 1) = Append(SubSeq(db, tx.base + 1, Len(db)), w)
        BY <1>3, <4>1, TailAppend, ZenonT(40)
      <4>. QED BY <4>1, <4>2, Zenon
    <3>. QED BY <3>2, <3>3, <3>4 DEF Agree
  <2>5. tx' = tx
    BY <1>0
  <2>6. (tx.open => Nested(tx.base, tx.saves, Len(db)) /\ Agree(db, tx, Recorded(c)))'
    BY <2>3, <2>4, <2>5
  <2>. QED BY <1>2, <2>1, <2>6 DEF Buffered
<1>10. CommittedLen - soft <= CommittedLen' - soft' /\ soft' <= CommittedLen' /\ \A v : Durable(v) => Durable(v)'
  <2>1. soft <= CommittedLen
    BY DEF Inv, Durability, Kept
  <2>2. CommittedLen <= Len(db) /\ CommittedLen \in Nat
    BY <1>3 DEF CommittedLen
  <2>3. (tx.open => CommittedLen' = CommittedLen) /\ (~tx.open => CommittedLen' = Len(db) + 1)
    BY <1>0, <1>4 DEF CommittedLen
  <2>4. CommittedLen - soft <= CommittedLen' - soft' /\ soft' <= CommittedLen'
    <3>1. CASE tx.open
      BY <1>3, <1>5, <2>1, <2>2, <2>3, <3>1
    <3>2. CASE ~tx.open
      BY <1>3, <1>5, <2>1, <2>2, <2>3, <3>2
    <3>. QED BY <3>1, <3>2
  <2>5. \A i \in 1 .. CommittedLen - soft : db'[i] = db[i]
    BY <1>3, <1>4, <2>2
  <2>6. Contents'
    BY <1>6 DEF Shape
  <2>. QED BY <2>4, <2>5, <2>6, DurableStays
<1>11. Kept'
  BY <1>0, <1>10 DEF Inv, Durability, Kept
<1>12. Promised(c)'
  <2>1. ASSUME ~tx.open PROVE Durable(w)'
    <3>1. CommittedLen' = Len(db) + 1 /\ soft' = 0
      BY <1>0, <1>4, <1>5, <2>1 DEF CommittedLen
    <3>2. Len(db) + 1 \in 1 .. CommittedLen' - soft'
      BY <1>3, <3>1
    <3>3. \E i \in 1 .. CommittedLen' - soft' : db'[i] = w
      BY <1>4, <3>2
    <3>. QED BY <1>0, <3>3 DEF Durable
  <2>2. ~tx'.open => Durable(req[c].w)'
    <3>1. req'[c].w = w
      BY <1>a, <1>0
    <3>. QED BY <1>0, <2>1, <3>1 DEF Durable
  <2>. QED BY <1>0, <1>2, <2>2 DEF Promised
<1>13. order \in {None, c} /\ owner' \in {None, c}
  BY <1>0, <1>1 DEF gate
<1>. QED BY <1>1, <1>2, <1>6, <1>7, <1>8, <1>9, <1>11, <1>12, <1>13, HolderStep

\* A connection in the guarded section answers and leaves it.
LEMMA Answered ==
  ASSUME Inv, NEW c \in Conns, Holding(c), Reply(c), Contents', owner' \in {None, c}, tx'.open <=> owner' # None,
         Authors', owner' = None => pend' = NoBuffer,
         tx'.open => Nested(tx.base, tx.saves, Len(db))' /\ Agree(db, tx, pend)', Kept'
  PROVE  Inv'
<1>1. order = c /\ c # None
  BY HolderKnows, SessionsAssumption DEF Conns
<1>2. /\ Alone(c) /\ pc'[c] = "idle" /\ pc' \in [Conns -> Steps] /\ req' \in [Conns -> Statements] /\ order' = None
      /\ Request(c)' /\ ~Holding(c)' /\ Promised(c)' /\ FreshName(c)'
  BY <1>1, Replies DEF Inv
<1>3. Shape'
  BY <1>2 DEF Shape, Statements
<1>4. Buffered(c)'
  <2>1. Recorded(c)' = pend'
    BY <1>2 DEF Recorded
  <2>. QED BY <1>2, <2>1 DEF Buffered
<1>. QED BY <1>1, <1>2, <1>3, <1>4, HolderStep

\* A connection in the guarded section moves on inside it.
LEMMA Advanced ==
  ASSUME Inv, NEW c \in Conns, Holding(c), Alone(c), Contents', pc' \in [Conns -> Steps], req' \in [Conns -> Statements],
         Request(c)', Holding(c)', order' = order, owner' \in {None, c}, Owned(c)', Authors', Buffered(c)', Kept', Promised(c)'
  PROVE  Inv'
<1>1. order = c /\ c # None
  BY HolderKnows, SessionsAssumption DEF Conns
<1>2. Shape'
  BY <1>1 DEF Shape, Statements
<1>3. pc'[c] # "gone"
  BY DEF Holding
<1>. QED BY <1>1, <1>2, <1>3, HolderStep

\* The statement failed or was refused: nothing but the answer.
LEMMA RefusedKeeps ==
  ASSUME Inv, NEW c \in Conns, pc[c] = "exec", req[c].kind # "read", Reply(c),
         UNCHANGED <<db, soft, tx, owner, pend, due, acked, issued>>
  PROVE  Inv'
<1>1. Contents'
  BY DEF Inv, Shape, Contents
<1>2. /\ Holding(c) /\ (tx.open => owner = c) /\ (~tx.open => owner = None) /\ c # None
      /\ tx.open => Nested(tx.base, tx.saves, Len(db)) /\ Agree(db, tx, pend)
      /\ ~tx.open => pend = NoBuffer
  BY Executing
<1>3. Kept'
  BY EngineStill
<1>4. Authors'
  <2>1. tx.open => owner # None
    BY <1>2
  <2>. QED BY <2>1 DEF Inv, Authors, Author
<1>5. tx'.open => Nested(tx.base, tx.saves, Len(db))' /\ Agree(db, tx, pend)'
  BY <1>2 DEF Agree
<1>6. owner' = owner /\ tx' = tx /\ pend' = pend
  OBVIOUS
<1>. QED BY <1>1, <1>2, <1>3, <1>4, <1>5, <1>6, Answered

\* A COMMIT or ROLLBACK that fails and leaves the transaction open.
LEMMA ExecKeptOpenKeeps ==
  ASSUME Inv, NEW c \in Conns, ExecKeptOpen(c)
  PROVE  Inv'
BY RefusedKeeps DEF ExecKeptOpen, Failing, engine, gate

\* A statement the engine refuses.
LEMMA ExecRefusedKeeps ==
  ASSUME Inv, NEW c \in Conns, ExecRefused(c)
  PROVE  Inv'
<1>1. pc[c] = "exec" /\ req[c].kind # "read" /\ Reply(c) /\ UNCHANGED <<db, soft, tx, due, acked, issued>>
  BY DEF ExecRefused, engine, budget
<1>2. CASE req[c].kind \in {"commit", "rollback"}
  <2>1. ~tx.open /\ owner' = None /\ pend' = NoBuffer
    BY <1>2 DEF ExecRefused
  <2>2. owner = None /\ pend = NoBuffer
    BY <1>1, <2>1, Executing
  <2>. QED BY <1>1, <2>1, <2>2, RefusedKeeps
<1>3. CASE req[c].kind \notin {"commit", "rollback"}
  BY <1>1, <1>3, RefusedKeeps DEF ExecRefused
<1>. QED BY <1>2, <1>3

\* A write applied whose fsync fails (sync_failed): it is not acknowledged.
LEMMA ExecUnsyncedKeeps ==
  ASSUME Inv, NEW c \in Conns, ExecUnsynced(c)
  PROVE  Inv'
<1>. USE SessionsAssumption
<1>a. PICK w : w = req[c].w
  OBVIOUS
<1>0. pc[c] = "exec" /\ req[c].kind = "write" /\ ~tx.open /\ db' = Append(db, w) /\ soft' = soft + 1 /\ Reply(c)
      /\ UNCHANGED <<tx, owner, pend, due, acked, issued>>
  BY <1>a DEF ExecUnsynced, Failing, gate
<1>1. Holding(c) /\ w \in Write /\ owner = None /\ pend = NoBuffer
  BY <1>a, <1>0, Executing DEF Request
<1>2. db \in Seq(Write) /\ soft \in Nat /\ tx.base \in Nat /\ Len(db) \in Nat /\ tx.base <= Len(db)
  BY LenProperties DEF Inv, Shape, Contents, Authors
<1>3. db' \in Seq(Write) /\ Len(db') = Len(db) + 1 /\ \A i \in 1 .. Len(db) : db'[i] = db[i]
  BY <1>0, <1>1, <1>2, AppendProperties
<1>4. Contents'
  BY <1>0, <1>2, <1>3 DEF Inv, Shape, Contents
<1>5. Authors'
  BY <1>0, <1>2, <1>3 DEF Authors
<1>6. Kept'
  <2>1. CommittedLen = Len(db) /\ CommittedLen' = Len(db) + 1 /\ soft <= Len(db)
    BY <1>0, <1>3 DEF CommittedLen, Inv, Durability, Kept
  <2>2. soft' <= CommittedLen' /\ CommittedLen - soft <= CommittedLen' - soft'
    BY <1>0, <1>2, <2>1
  <2>3. \A i \in 1 .. CommittedLen - soft : db'[i] = db[i]
    BY <1>2, <1>3, <2>1
  <2>4. \A v : Durable(v) => Durable(v)'
    BY <1>4, <2>2, <2>3, DurableStays
  <2>. QED BY <1>0, <2>2, <2>4 DEF Inv, Durability, Kept
<1>. QED BY <1>0, <1>1, <1>4, <1>5, <1>6, Answered

\* The buffer is the tail of the engine's contents.
LEMMA BufferTail ==
  ASSUME Inv, tx.open, Agree(db, tx, pend)
  PROVE  /\ db \in Seq(Write) /\ Len(db) \in Nat /\ tx.base \in Nat /\ tx.base <= Len(db)
         /\ pend.writes \in Seq(Write) /\ Len(pend.writes) = Len(db) - tx.base
         /\ \A j \in 1 .. Len(pend.writes) : tx.base + j \in tx.base + 1 .. Len(db) /\ pend.writes[j] = db[tx.base + j]
<1>1. db \in Seq(Write) /\ Len(db) \in Nat /\ tx.base \in Nat /\ tx.base <= Len(db)
  BY LenProperties DEF Inv, Shape, Contents, Authors
<1>2. PICK b \in Nat : b = tx.base
  BY <1>1
<1>3. PICK u : u = pend.writes
  OBVIOUS
<1>4. u = SubSeq(db, b + 1, Len(db))
  BY <1>2, <1>3 DEF Agree
<1>5. u \in Seq(Write) /\ Len(u) = Len(db) - b /\ \A j \in 1 .. Len(db) - b : u[j] = db[b + j]
  <2>1. b <= Len(db)
    BY <1>1, <1>2
  <2>. QED BY ONLY <1>1, <1>4, <2>1, TailOf
<1>6. \A j \in 1 .. Len(db) - b : b + j \in b + 1 .. Len(db)
  BY ONLY <1>1, b \in Nat
<1>. QED BY <1>1, <1>2, <1>3, <1>5, <1>6

\* BEGIN in the engine, before tx_owner is set.
LEMMA ExecBeginKeeps ==
  ASSUME Inv, NEW c \in Conns, ExecBegin(c)
  PROVE  Inv'
<1>. USE SessionsAssumption
<1>0. pc[c] = "exec" /\ req[c].kind = "begin" /\ ~tx.open /\ tx' = [open |-> TRUE, base |-> Len(db), saves |-> <<>>]
      /\ Go(c, "post") /\ UNCHANGED <<db, soft, gate, order, req, acked, issued>>
  BY DEF ExecBegin, budget
<1>1. Holding(c) /\ owner = None /\ pend = NoBuffer
  BY <1>0, Executing
<1>2. /\ Alone(c) /\ pc'[c] = "post" /\ req'[c] = req[c] /\ pc' \in [Conns -> Steps] /\ req' \in [Conns -> Statements]
      /\ Request(c)' /\ Holding(c)' /\ FreshName(c)'
  BY <1>0, Executed
<1>3. db \in Seq(Write) /\ Len(db) \in Nat
  BY LenProperties DEF Inv, Shape, Contents
<1>4. tx'.open /\ tx'.base = Len(db) /\ tx'.saves = <<>> /\ db' = db /\ owner' = None /\ pend' = NoBuffer
  BY <1>0, <1>1 DEF gate
<1>5. Contents'
  BY <1>0, <1>3 DEF Inv, Shape, Contents, gate
<1>6. Owned(c)'
  BY <1>0, <1>2, <1>4 DEF Owned, Marking
<1>7. Authors'
  BY <1>3, <1>4 DEF Authors
<1>8. Buffered(c)'
  <2>1. Nested(Len(db), <<>>, Len(db))
    BY DEF Nested, At
  <2>2. Recorded(c)' = NoBuffer
    BY <1>0, <1>2, <1>4 DEF Recorded
  <2>3. SubSeq(db, Len(db) + 1, Len(db)) = <<>>
    <3>1. SubSeq(db, Len(db) + 1, Len(db)) \in Seq(Write) /\ Len(SubSeq(db, Len(db) + 1, Len(db))) = 0
      BY <1>3, SubSeqOf
    <3>. QED BY <3>1, EmptySeq
  <2>4. Lined(Len(db), <<>>, <<>>)
    BY DEF Lined, Distinct, Marked, InStep, At
  <2>5. Agree(db, tx, Recorded(c))'
    BY <1>4, <2>2, <2>3, <2>4 DEF Agree, NoBuffer
  <2>. QED BY <1>2, <1>4, <2>1, <2>5 DEF Buffered
<1>9. CommittedLen' = CommittedLen /\ Kept' /\ Promised(c)'
  <2>1. CommittedLen' = CommittedLen
    BY <1>0, <1>4 DEF CommittedLen
  <2>2. \A v : Durable(v)' <=> Durable(v)
    BY <1>0, <2>1 DEF Durable
  <2>. QED BY <1>0, <1>2, <2>1, <2>2 DEF Inv, Durability, Kept, Promised
<1>. QED BY <1>0, <1>1, <1>2, <1>4, <1>5, <1>6, <1>7, <1>8, <1>9, Advanced

\* What SAVEPOINT, RELEASE and ROLLBACK TO have in common: the transaction and its base
\* stay, the committed contents too, and the buffer will follow.
LEMMA MarkingKeeps ==
  ASSUME Inv, NEW c \in Conns, pc[c] = "exec", req[c].kind \in Marking, tx.open, Go(c, "post"),
         UNCHANGED <<soft, gate, order, req, acked, issued>>, tx'.open, tx'.base = tx.base,
         tx' \in [open : BOOLEAN, base : Nat, saves : Seq(Savepoint)], db' \in Seq(Write),
         tx.base <= Len(db'), Len(db') <= Len(db), \A i \in 1 .. Len(db') : db'[i] = db[i],
         Nested(tx.base, tx.saves, Len(db))', Agree(db, tx, Recorded(c))'
  PROVE  Inv'
<1>. USE SessionsAssumption
<1>1. Holding(c) /\ c # None /\ owner = c
  BY Executing DEF Marking
<1>2. /\ Alone(c) /\ pc'[c] = "post" /\ req'[c] = req[c] /\ pc' \in [Conns -> Steps] /\ req' \in [Conns -> Statements]
      /\ Request(c)' /\ Holding(c)' /\ FreshName(c)'
  BY Executed DEF Marking
<1>3. owner' = c /\ pend' = pend
  BY <1>1 DEF gate
<1>4. Contents'
  BY DEF Inv, Shape, Contents, gate
<1>5. Owned(c)'
  BY <1>2, <1>3 DEF Owned, Marking
<1>6. tx.base \in Nat /\ Len(db) \in Nat /\ Len(db') \in Nat /\ soft \in Nat
  BY LenProperties DEF Inv, Shape, Contents
<1>7. Authors'
  <2>1. ASSUME NEW i \in tx'.base + 1 .. Len(db') PROVE db'[i][1] = Author'
    <3>1. i \in tx.base + 1 .. Len(db) /\ i \in 1 .. Len(db')
      BY <1>6
    <3>2. db[i][1] = Author
      BY <3>1 DEF Inv, Authors
    <3>3. Author = c /\ Author' = c
      BY <1>1, <1>3 DEF Author
    <3>. QED BY <3>1, <3>2, <3>3
  <2>. QED BY <2>1 DEF Authors
<1>8. Buffered(c)'
  BY <1>1, <1>2, <1>3 DEF Buffered
<1>9. Kept'
  <2>1. CommittedLen = tx.base /\ CommittedLen' = tx.base
    BY DEF CommittedLen
  <2>2. soft <= tx.base
    BY <2>1 DEF Inv, Durability, Kept
  <2>3. \A i \in 1 .. CommittedLen - soft : db'[i] = db[i]
    BY <1>6, <2>1
  <2>4. CommittedLen - soft <= CommittedLen' - soft'
    BY <1>6, <2>1
  <2>5. \A v : Durable(v) => Durable(v)'
    BY <1>4, <2>3, <2>4, DurableStays
  <2>. QED BY <2>1, <2>2, <2>5 DEF Inv, Durability, Kept
<1>10. Promised(c)'
  BY <1>2 DEF Promised, Marking
<1>. QED BY <1>1, <1>2, <1>3, <1>4, <1>5, <1>7, <1>8, <1>9, <1>10, Advanced

\* SAVEPOINT in the engine, before the buffer is marked.
LEMMA ExecSavepointKeeps ==
  ASSUME Inv, NEW c \in Conns, ExecSavepoint(c)
  PROVE  Inv'
<1>. USE SessionsAssumption
<1>0. pc[c] = "exec" /\ req[c].kind = "savepoint" /\ tx.open /\ Go(c, "post")
      /\ UNCHANGED <<db, soft, gate, order, req, acked, issued>>
  BY DEF ExecSavepoint, budget
<1>1. PICK n : n = req[c].name
  OBVIOUS
<1>2. PICK sv : sv = [name |-> n, len |-> Len(db)]
  OBVIOUS
<1>3. PICK mk : mk = [name |-> n, len |-> Len(pend.writes)]
  OBVIOUS
<1>4. n \in Names /\ Newest(pend.marks, n) = 0 /\ Nested(tx.base, tx.saves, Len(db)) /\ Agree(db, tx, pend)
  BY <1>0, <1>1, Executing DEF Request, Marking
<1>5. db \in Seq(Write) /\ tx.base \in Nat /\ Len(db) \in Nat /\ tx.base <= Len(db)
      /\ tx.saves \in Seq(Savepoint) /\ pend.marks \in Seq(Savepoint) /\ pend.writes \in Seq(Write) /\ Len(pend.writes) \in Nat
  BY LenProperties DEF Inv, Shape, Contents, Authors
<1>6. sv \in Savepoint /\ mk \in Savepoint /\ sv.name = mk.name /\ mk.name = n /\ sv.len = Len(db) /\ mk.len = Len(pend.writes)
  BY <1>2, <1>3, <1>4, <1>5 DEF Savepoint
<1>7. Len(pend.writes) = Len(db) - tx.base
  BY <1>0, <1>4, BufferTail
<1>8. tx' = [tx EXCEPT !.saves = Append(tx.saves, sv)]
  BY <1>1, <1>2 DEF ExecSavepoint
<1>9. tx'.open /\ tx'.base = tx.base /\ tx'.saves = Append(tx.saves, sv)
      /\ tx' \in [open : BOOLEAN, base : Nat, saves : Seq(Savepoint)]
  <2>1. Append(tx.saves, sv) \in Seq(Savepoint)
    BY <1>5, <1>6, AppendProperties
  <2>2. tx \in [open : BOOLEAN, base : Nat, saves : Seq(Savepoint)]
    BY DEF Inv, Shape, Contents
  <2>. QED BY <1>0, <1>8, <2>1, <2>2
<1>10. Lined(tx.base, Append(tx.saves, sv), Append(pend.marks, mk))
  <2>1. sv.len = tx.base + mk.len
    BY <1>5, <1>6, <1>7, SMTT(30)
  <2>2. Lined(tx.base, tx.saves, pend.marks)
    BY <1>4 DEF Agree
  <2>. QED BY <1>4, <1>5, <1>6, <2>1, <2>2, LinedAppend
<1>11. Agree(db, tx, Recorded(c))'
  <2>1. Recorded(c)' = [pend EXCEPT !.marks = Append(pend.marks, mk)]
    <3>1. pc'[c] = "post" /\ req'[c] = req[c] /\ pend' = pend
      BY <1>0, Executed DEF gate
    <3>. QED BY <1>0, <1>1, <1>3, <3>1 DEF Recorded, Mark
  <2>2. Recorded(c)'.writes = pend.writes /\ Recorded(c)'.marks = Append(pend.marks, mk)
    BY <2>1 DEF Inv, Shape, Contents
  <2>. QED BY <1>0, <1>4, <1>9, <1>10, <2>2 DEF Agree
<1>12. Nested(tx.base, tx.saves, Len(db))'
  <2>. DEFINE u == Append(tx.saves, sv)
  <2>1. Len(tx.saves) \in Nat /\ Len(u) = Len(tx.saves) + 1 /\ u[Len(tx.saves) + 1] = sv
        /\ \A j \in 1 .. Len(tx.saves) : u[j] = tx.saves[j]
    BY <1>5, <1>6, AppendProperties, LenProperties
  <2>2. \A j \in At(tx.saves) : tx.saves[j] \in Savepoint /\ tx.saves[j].len \in Nat
    BY <1>5, SavepointIs
  <2>. HIDE DEF u
  <2>3. \A j \in At(u) : (j \in At(tx.saves) /\ u[j] = tx.saves[j]) \/ (j = Len(tx.saves) + 1 /\ u[j] = sv)
    <3>1. \A j \in At(u) : j \in 1 .. Len(tx.saves) \/ j = Len(tx.saves) + 1
      BY <2>1 DEF At
    <3>. QED BY <2>1, <3>1 DEF At
  <2>4. ASSUME NEW j \in At(u) PROVE tx.base <= u[j].len /\ u[j].len <= Len(db)
    BY <1>4, <1>5, <1>6, <2>3, SMTT(30) DEF Nested
  <2>5. ASSUME NEW j \in At(u), NEW k \in At(u), j <= k PROVE u[j].len <= u[k].len
    <3>1. CASE k \in At(tx.saves)
      <4>1. j \in At(tx.saves)
        BY <2>1, <2>5, <3>1 DEF At
      <4>2. u[j] = tx.saves[j] /\ u[k] = tx.saves[k]
        BY <2>1, <3>1, <4>1 DEF At
      <4>. QED BY <1>4, <2>5, <3>1, <4>1, <4>2 DEF Nested
    <3>2. CASE k = Len(tx.saves) + 1
      BY <1>6, <2>1, <2>4, <3>2
    <3>. QED BY <2>3, <3>1, <3>2
  <2>6. Nested(tx.base, u, Len(db))
    BY <2>4, <2>5 DEF Nested
  <2>. QED BY <1>0, <1>9, <2>6 DEF u
<1>13. req[c].kind \in Marking
  BY <1>0 DEF Marking
<1>. QED BY <1>0, <1>5, <1>9, <1>11, <1>12, <1>13, MarkingKeeps, SMTT(30)

\* The savepoint that the engine finds has its mark, which the buffer finds.
LEMMA MarkFound ==
  ASSUME NEW saves \in Seq(Savepoint), NEW marks \in Seq(Savepoint), NEW base \in Nat, NEW n,
         Lined(base, saves, marks), Newest(saves, n) # 0
  PROVE  /\ Newest(saves, n) \in At(saves) /\ saves[Newest(saves, n)].name = n
         /\ Newest(marks, n) \in At(marks) /\ marks[Newest(marks, n)].name = n
         /\ saves[Newest(saves, n)].len = base + marks[Newest(marks, n)].len
<1>1. PICK i : i = Newest(saves, n)
  OBVIOUS
<1>2. PICK x : x = Newest(marks, n)
  OBVIOUS
<1>3. Len(saves) \in Nat /\ Len(marks) \in Nat
  BY LenProperties
<1>4. i \in At(saves) /\ saves[i].name = n
  BY <1>1, <1>3, NewestIs DEF At
<1>5. PICK y \in At(marks) : marks[y].name = n /\ saves[i].len = base + marks[y].len
  BY <1>4 DEF Lined, Marked
<1>6. x \in At(marks) /\ marks[x].name = n
  BY <1>2, <1>3, <1>5, NewestIs DEF At
<1>7. x = y
  BY <1>5, <1>6 DEF Lined, Distinct
<1>. QED BY <1>1, <1>2, <1>4, <1>5, <1>6, <1>7

\* The savepoints before one of them.
LEMMA NestedPrefix ==
  ASSUME NEW saves \in Seq(Savepoint), NEW base \in Nat, NEW end \in Nat, Nested(base, saves, end), NEW i \in At(saves)
  PROVE  /\ SubSeq(saves, 1, i - 1) \in Seq(Savepoint)
         /\ Nested(base, SubSeq(saves, 1, i - 1), end) /\ Nested(base, SubSeq(saves, 1, i - 1), saves[i].len)
<1>. DEFINE u == SubSeq(saves, 1, i - 1)
<1>1. Len(saves) \in Nat /\ i - 1 \in Nat /\ i - 1 <= Len(saves) /\ saves[i].len \in Nat
  BY LenProperties, SavepointIs DEF At
<1>2. u \in Seq(Savepoint) /\ Len(u) = i - 1 /\ \A j \in 1 .. i - 1 : u[j] = saves[j]
  BY <1>1, SubSeqOf
<1>. HIDE DEF u
<1>3. \A j \in At(u) : j \in At(saves) /\ j <= i /\ u[j] = saves[j]
  BY <1>1, <1>2 DEF At
<1>4. Nested(base, u, end)
  BY <1>3 DEF Nested
<1>5. Nested(base, u, saves[i].len)
  BY <1>3 DEF Nested
<1>. QED BY <1>2, <1>4, <1>5 DEF u

\* RELEASE in the engine: the savepoint and all younger ones go.
LEMMA ExecReleaseKeeps ==
  ASSUME Inv, NEW c \in Conns, ExecRelease(c)
  PROVE  Inv'
<1>. USE SessionsAssumption
<1>1. PICK n : n = req[c].name
  OBVIOUS
<1>2. PICK i : i = Newest(tx.saves, n)
  OBVIOUS
<1>3. PICK x : x = Newest(pend.marks, n)
  OBVIOUS
<1>0. pc[c] = "exec" /\ req[c].kind = "release" /\ i # 0 /\ Go(c, "post") /\ tx' = [tx EXCEPT !.saves = SubSeq(tx.saves, 1, i - 1)]
      /\ UNCHANGED <<db, soft, gate, order, req, acked, issued>>
  BY <1>1, <1>2 DEF ExecRelease, budget
<1>5. db \in Seq(Write) /\ tx.base \in Nat /\ Len(db) \in Nat /\ tx.base <= Len(db)
      /\ tx.saves \in Seq(Savepoint) /\ pend.marks \in Seq(Savepoint)
  BY LenProperties DEF Inv, Shape, Contents, Authors
<1>6. tx.open
  <2>1. Len(tx.saves) # 0
    BY <1>0, <1>2, <1>5, NewestIs
  <2>. QED BY <2>1 DEF Inv, Shape, Contents
<1>7. Nested(tx.base, tx.saves, Len(db)) /\ Agree(db, tx, pend)
  BY <1>0, <1>6, Executing
<1>8. Lined(tx.base, tx.saves, pend.marks)
  BY <1>7 DEF Agree
<1>9. i \in At(tx.saves) /\ tx.saves[i].name = n /\ x \in At(pend.marks) /\ pend.marks[x].name = n
  BY <1>0, <1>2, <1>3, <1>5, <1>8, MarkFound
<1>10. SubSeq(tx.saves, 1, i - 1) \in Seq(Savepoint) /\ Nested(tx.base, SubSeq(tx.saves, 1, i - 1), Len(db))
  BY <1>5, <1>7, <1>9, NestedPrefix
<1>11. tx'.open /\ tx'.base = tx.base /\ tx'.saves = SubSeq(tx.saves, 1, i - 1)
       /\ tx' \in [open : BOOLEAN, base : Nat, saves : Seq(Savepoint)]
  <2>1. tx \in [open : BOOLEAN, base : Nat, saves : Seq(Savepoint)]
    BY DEF Inv, Shape, Contents
  <2>. QED BY <1>0, <1>6, <1>10, <2>1
<1>12. Lined(tx.base, SubSeq(tx.saves, 1, i - 1), SubSeq(pend.marks, 1, x))
  BY <1>5, <1>8, <1>9, LinedPrefix
<1>13. Agree(db, tx, Recorded(c))'
  <2>1. Recorded(c)' = [pend EXCEPT !.marks = SubSeq(pend.marks, 1, x)]
    <3>1. pc'[c] = "post" /\ req'[c] = req[c] /\ pend' = pend
      BY <1>0, Executed DEF gate
    <3>2. x # 0
      BY <1>9 DEF At
    <3>. QED BY <1>0, <1>1, <1>3, <3>1, <3>2 DEF Recorded, Release
  <2>2. Recorded(c)'.writes = pend.writes /\ Recorded(c)'.marks = SubSeq(pend.marks, 1, x)
    BY <2>1 DEF Inv, Shape, Contents
  <2>. QED BY <1>0, <1>7, <1>11, <1>12, <2>2 DEF Agree
<1>14. Nested(tx.base, tx.saves, Len(db))'
  BY <1>0, <1>10, <1>11
<1>15. req[c].kind \in Marking
  BY <1>0 DEF Marking
<1>16. db' \in Seq(Write) /\ tx.base <= Len(db') /\ Len(db') <= Len(db) /\ \A j \in 1 .. Len(db') : db'[j] = db[j]
  BY <1>0, <1>5
<1>. QED BY <1>0, <1>6, <1>11, <1>13, <1>14, <1>15, <1>16, MarkingKeeps

\* ROLLBACK TO in the engine: the writes after the savepoint go.
LEMMA ExecRollbackToKeeps ==
  ASSUME Inv, NEW c \in Conns, ExecRollbackTo(c)
  PROVE  Inv'
<1>. USE SessionsAssumption
<1>1. PICK n : n = req[c].name
  OBVIOUS
<1>2. PICK i : i = Newest(tx.saves, n)
  OBVIOUS
<1>3. PICK x : x = Newest(pend.marks, n)
  OBVIOUS
<1>4. PICK k : k = tx.saves[i].len
  OBVIOUS
<1>0. /\ pc[c] = "exec" /\ req[c].kind = "rollback_to" /\ i # 0 /\ Go(c, "post") /\ tx' = [tx EXCEPT !.saves = SubSeq(tx.saves, 1, i - 1)]
      /\ db' = SubSeq(db, 1, k) /\ UNCHANGED <<soft, gate, order, req, acked, issued>>
  BY <1>1, <1>2, <1>4 DEF ExecRollbackTo, budget
<1>5. db \in Seq(Write) /\ tx.base \in Nat /\ Len(db) \in Nat /\ tx.base <= Len(db)
      /\ tx.saves \in Seq(Savepoint) /\ pend.marks \in Seq(Savepoint)
  BY LenProperties DEF Inv, Shape, Contents, Authors
<1>6. tx.open
  <2>1. Len(tx.saves) # 0
    BY <1>0, <1>2, <1>5, NewestIs
  <2>. QED BY <2>1 DEF Inv, Shape, Contents
<1>7. Nested(tx.base, tx.saves, Len(db)) /\ Agree(db, tx, pend)
  BY <1>0, <1>6, Executing
<1>8. Lined(tx.base, tx.saves, pend.marks) /\ pend.writes = SubSeq(db, tx.base + 1, Len(db))
  BY <1>7 DEF Agree
<1>9. i \in At(tx.saves) /\ tx.saves[i].name = n /\ x \in At(pend.marks) /\ pend.marks[x].name = n /\ k = tx.base + pend.marks[x].len
  <2>1. Newest(tx.saves, n) # 0
    BY <1>0, <1>2
  <2>2. /\ Newest(tx.saves, n) \in At(tx.saves) /\ tx.saves[Newest(tx.saves, n)].name = n
        /\ Newest(pend.marks, n) \in At(pend.marks) /\ pend.marks[Newest(pend.marks, n)].name = n
        /\ tx.saves[Newest(tx.saves, n)].len = tx.base + pend.marks[Newest(pend.marks, n)].len
    BY ONLY <1>5, <1>8, <2>1, MarkFound, SMTT(30)
  <2>. QED BY <1>2, <1>3, <1>4, <2>2
<1>10. SubSeq(tx.saves, 1, i - 1) \in Seq(Savepoint) /\ Nested(tx.base, SubSeq(tx.saves, 1, i - 1), k)
  BY <1>4, <1>5, <1>7, <1>9, NestedPrefix
<1>11. tx'.open /\ tx'.base = tx.base /\ tx'.saves = SubSeq(tx.saves, 1, i - 1)
       /\ tx' \in [open : BOOLEAN, base : Nat, saves : Seq(Savepoint)]
  <2>1. tx \in [open : BOOLEAN, base : Nat, saves : Seq(Savepoint)]
    BY DEF Inv, Shape, Contents
  <2>. QED BY <1>0, <1>6, <1>10, <2>1
<1>12. k \in Nat /\ tx.base <= k /\ k <= Len(db) /\ pend.marks[x].len = k - tx.base
  <2>1. k \in Nat /\ pend.marks[x].len \in Nat
    BY <1>4, <1>5, <1>9, SavepointIs
  <2>2. tx.base <= k /\ k <= Len(db)
    BY <1>4, <1>7, <1>9 DEF Nested
  <2>3. \A y, z \in Nat : y = z + pend.marks[x].len => pend.marks[x].len = y - z
    BY ONLY <2>1
  <2>. QED BY <1>5, <1>9, <2>1, <2>2, <2>3
<1>13. db' \in Seq(Write) /\ Len(db') = k /\ \A j \in 1 .. k : db'[j] = db[j]
  BY <1>0, <1>5, <1>12, SubSeqOf, SMTT(30)
<1>14. Lined(tx.base, SubSeq(tx.saves, 1, i - 1), SubSeq(pend.marks, 1, x - 1))
  BY <1>5, <1>8, <1>9, LinedPrefix
<1>15. SubSeq(db', tx.base + 1, k) = SubSeq(pend.writes, 1, k - tx.base)
  <2>1. SubSeq(SubSeq(db, 1, k), tx.base + 1, k) = SubSeq(SubSeq(db, tx.base + 1, Len(db)), 1, k - tx.base)
    <3>1. db \in Seq(Write) /\ k \in Nat /\ tx.base \in Nat /\ tx.base <= k /\ k <= Len(db)
      BY <1>5, <1>12
    <3>. QED BY ONLY <3>1, PrefixOfPrefix
  <2>. QED BY <1>0, <1>8, <2>1, Zenon
<1>16. Agree(db, tx, Recorded(c))'
  <2>1. Recorded(c)' = [writes |-> SubSeq(pend.writes, 1, k - tx.base), marks |-> SubSeq(pend.marks, 1, x - 1)]
    <3>1. pc'[c] = "post" /\ req'[c] = req[c] /\ pend' = pend
      BY <1>0, Executed DEF gate
    <3>2. x # 0
      BY <1>9 DEF At
    <3>. QED BY <1>0, <1>1, <1>3, <1>12, <3>1, <3>2 DEF Recorded, RollbackTo
  <2>2. Recorded(c)'.writes = SubSeq(pend.writes, 1, k - tx.base) /\ Recorded(c)'.marks = SubSeq(pend.marks, 1, x - 1)
    <3>1. \A a, b : [writes |-> a, marks |-> b].writes = a /\ [writes |-> a, marks |-> b].marks = b
      OBVIOUS
    <3>. QED BY ONLY <2>1, <3>1, Zenon
  <2>. QED BY <1>11, <1>13, <1>14, <1>15, <2>2 DEF Agree
<1>17. Nested(tx.base, tx.saves, Len(db))'
  BY <1>10, <1>11, <1>13
<1>18. req[c].kind \in Marking
  BY <1>0 DEF Marking
<1>. QED BY <1>0, <1>6, <1>11, <1>12, <1>13, <1>16, <1>17, <1>18, MarkingKeeps

\* COMMIT and ROLLBACK close the transaction; its owner keeps the buffer for the moment.
LEMMA ExecCommitKeeps ==
  ASSUME Inv, NEW c \in Conns, ExecCommit(c)
  PROVE  Inv'
<1>. USE SessionsAssumption
<1>0. pc[c] = "exec" /\ req[c].kind = "commit" /\ tx.open /\ tx' = Closed /\ soft' = 0 /\ Go(c, "post")
      /\ UNCHANGED <<db, gate, order, req, acked, issued>>
  BY DEF ExecCommit, budget
<1>1. Holding(c) /\ owner = c /\ c # None /\ Agree(db, tx, pend)
  BY <1>0, Executing
<1>2. /\ Alone(c) /\ pc'[c] = "post" /\ req'[c] = req[c] /\ pc' \in [Conns -> Steps] /\ req' \in [Conns -> Statements]
      /\ Request(c)' /\ Holding(c)' /\ FreshName(c)'
  BY <1>0, Executed
<1>3. db \in Seq(Write) /\ Len(db) \in Nat /\ tx.base \in Nat /\ tx.base <= Len(db) /\ soft \in Nat /\ soft <= tx.base
  BY <1>0, LenProperties DEF Inv, Shape, Contents, Authors, Durability, Kept, CommittedLen
<1>4. ~tx'.open /\ tx'.base = 0 /\ tx'.saves = <<>> /\ db' = db /\ owner' = c /\ pend' = pend
  BY <1>0, <1>1 DEF gate, Closed
<1>5. Contents'
  BY <1>0, <1>3 DEF Inv, Shape, Contents, gate, Closed
<1>6. Owned(c)'
  BY <1>0, <1>2, <1>4 DEF Owned, Marking
<1>7. Authors'
  BY <1>3, <1>4 DEF Authors
<1>8. Buffered(c)'
  BY <1>1, <1>2, <1>4 DEF Buffered
<1>9. CommittedLen = tx.base /\ CommittedLen' = Len(db)
  BY <1>0, <1>4 DEF CommittedLen
<1>10. Kept'
  <2>1. soft' <= CommittedLen' /\ CommittedLen - soft <= CommittedLen' - soft'
    BY <1>0, <1>3, <1>9
  <2>2. \A i \in 1 .. CommittedLen - soft : db'[i] = db[i]
    BY <1>4
  <2>3. \A v : Durable(v) => Durable(v)'
    BY <1>5, <2>1, <2>2, DurableStays
  <2>. QED BY <1>0, <2>1, <2>3 DEF Inv, Durability, Kept
<1>11. ASSUME NEW i \in 1 .. Len(pend.writes) PROVE \A v : v = pend.writes[i] => Durable(v)'
  <2>1. tx.base + i \in tx.base + 1 .. Len(db) /\ pend.writes[i] = db[tx.base + i]
    BY <1>0, <1>1, <1>11, BufferTail
  <2>4. tx.base + i \in 1 .. Len(db)
    BY <1>3, <2>1
  <2>6. CommittedLen' - soft' = Len(db)
    BY <1>0, <1>3, <1>9
  <2>. QED BY <1>4, <2>1, <2>4, <2>6 DEF Durable
<1>12. Promised(c)'
  <2>1. \A i \in 1 .. Len(pend'.writes) : Durable(pend.writes[i])'
    BY <1>4, <1>11 DEF Durable
  <2>. QED BY <1>0, <1>2, <2>1 DEF Promised
<1>. QED BY <1>0, <1>1, <1>2, <1>4, <1>5, <1>6, <1>7, <1>8, <1>10, <1>12, Advanced

\* ROLLBACK in the engine, before the buffer is cleared.
LEMMA ExecRollbackKeeps ==
  ASSUME Inv, NEW c \in Conns, ExecRollback(c)
  PROVE  Inv'
<1>. USE SessionsAssumption
<1>0. pc[c] = "exec" /\ req[c].kind = "rollback" /\ tx.open /\ tx' = Closed /\ db' = SubSeq(db, 1, tx.base) /\ Go(c, "post")
      /\ UNCHANGED <<soft, gate, order, req, acked, issued>>
  BY DEF ExecRollback, budget
<1>1. Holding(c) /\ owner = c /\ c # None
  BY <1>0, Executing
<1>2. /\ Alone(c) /\ pc'[c] = "post" /\ req'[c] = req[c] /\ pc' \in [Conns -> Steps] /\ req' \in [Conns -> Statements]
      /\ Request(c)' /\ Holding(c)' /\ FreshName(c)'
  BY <1>0, Executed
<1>3. db \in Seq(Write) /\ Len(db) \in Nat /\ tx.base \in Nat /\ tx.base <= Len(db) /\ soft \in Nat /\ soft <= tx.base
  BY <1>0, LenProperties DEF Inv, Shape, Contents, Authors, Durability, Kept, CommittedLen
<1>4. ~tx'.open /\ tx'.base = 0 /\ tx'.saves = <<>> /\ owner' = c /\ pend' = pend
  BY <1>0, <1>1 DEF gate, Closed
<1>5. db' \in Seq(Write) /\ Len(db') = tx.base /\ \A i \in 1 .. tx.base : db'[i] = db[i]
  BY <1>0, <1>3, SubSeqOf, SMTT(30)
<1>6. Contents'
  BY <1>0, <1>3, <1>5 DEF Inv, Shape, Contents, gate, Closed
<1>7. Owned(c)'
  BY <1>0, <1>2, <1>4 DEF Owned, Marking
<1>8. Authors'
  BY <1>3, <1>4, <1>5 DEF Authors
<1>9. Buffered(c)'
  BY <1>1, <1>2, <1>4 DEF Buffered
<1>10. Kept'
  <2>1. CommittedLen = tx.base /\ CommittedLen' = tx.base
    BY <1>0, <1>4, <1>5 DEF CommittedLen
  <2>2. \A i \in 1 .. CommittedLen - soft : db'[i] = db[i]
    BY <1>3, <1>5, <2>1, SMTT(30)
  <2>3. soft' <= CommittedLen' /\ CommittedLen - soft <= CommittedLen' - soft'
    BY <1>0, <1>3, <2>1
  <2>4. \A v : Durable(v) => Durable(v)'
    BY <1>6, <2>2, <2>3, DurableStays
  <2>. QED BY <1>0, <2>3, <2>4 DEF Inv, Durability, Kept
<1>11. Promised(c)'
  BY <1>0, <1>2 DEF Promised
<1>. QED BY <1>0, <1>1, <1>2, <1>4, <1>6, <1>7, <1>8, <1>9, <1>10, <1>11, Advanced

-----------------------------------------------------------------------------
\* After the engine: owner, buffer, drain.
LEMMA PostBeginKeeps ==
  ASSUME Inv, NEW c \in Conns, PostBegin(c)
  PROVE  Inv'
<1>. USE SessionsAssumption
<1>0. pc[c] = "post" /\ req[c].kind = "begin" /\ owner' = c /\ Reply(c) /\ UNCHANGED <<db, soft, tx, pend, due, acked, issued>>
  BY DEF PostBegin, engine, budget
<1>1. Holding(c) /\ c # None
  BY <1>0 DEF Holding, Conns
<1>2. order = c /\ tx.open /\ owner = None /\ Buffered(c) /\ c \in Clients
  BY <1>0, <1>1, HolderKnows DEF Owned, Request
<1>3. Recorded(c) = pend
  BY <1>0 DEF Recorded
<1>4. Nested(tx.base, tx.saves, Len(db))' /\ Agree(db, tx, pend)'
  BY <1>0, <1>2, <1>3 DEF Buffered, Agree
<1>5. Contents'
  BY <1>0, <1>2 DEF Inv, Shape, Contents
<1>6. Authors'
  BY <1>0, <1>1, <1>2 DEF Inv, Authors, Author
<1>7. Kept'
  BY <1>0, EngineStill
<1>. QED BY <1>0, <1>1, <1>2, <1>4, <1>5, <1>6, <1>7, Answered

\* After a write: it is buffered in a transaction, journaled and forwarded otherwise.
LEMMA PostWriteKeeps ==
  ASSUME Inv, NEW c \in Conns, PostWrite(c)
  PROVE  Inv'
<1>. USE SessionsAssumption
<1>a. PICK w : w = req[c].w
  OBVIOUS
<1>0. /\ pc[c] = "post" /\ req[c].kind = "write" /\ Reply(c) /\ UNCHANGED <<db, soft, tx, owner, due, issued>>
      /\ (tx.open => pend' = Push(w) /\ acked' = acked) /\ (~tx.open => pend' = pend /\ acked' = acked \cup {w})
  BY <1>a DEF PostWrite, engine, budget
<1>1. Holding(c) /\ c # None
  BY <1>0 DEF Holding, Conns
<1>2. order = c /\ Owned(c) /\ Buffered(c) /\ Promised(c) /\ Request(c)
  BY <1>1, HolderKnows
<1>3. (tx.open => owner = c) /\ (~tx.open => owner = None) /\ w \in Write
  BY <1>a, <1>0, <1>2 DEF Owned, Request
<1>4. Recorded(c) = Push(w)
  BY <1>a, <1>0 DEF Recorded
<1>5. tx'.open => Nested(tx.base, tx.saves, Len(db))' /\ Agree(db, tx, pend)'
  BY <1>0, <1>2, <1>4 DEF Buffered, Agree
<1>6. pend' \in [writes : Seq(Write), marks : Seq(Savepoint)]
  <2>1. pend \in [writes : Seq(Write), marks : Seq(Savepoint)]
    BY DEF Inv, Shape, Contents
  <2>2. Append(pend.writes, w) \in Seq(Write)
    BY <1>3, <2>1, AppendProperties
  <2>3. Push(w) \in [writes : Seq(Write), marks : Seq(Savepoint)]
    BY <2>1, <2>2 DEF Push
  <2>. QED BY <1>0, <2>1, <2>3
<1>7. Contents'
  BY <1>0, <1>6 DEF Inv, Shape, Contents
<1>8. Authors'
  BY <1>0, <1>3, <1>1 DEF Inv, Authors, Author
<1>9. Kept'
  <2>1. \A v : Durable(v)' <=> Durable(v)
    BY <1>0, EngineStill
  <2>2. ~tx.open => Durable(w)
    BY <1>a, <1>0, <1>2 DEF Promised
  <2>3. soft' <= CommittedLen'
    BY <1>0 DEF Inv, Durability, Kept, CommittedLen
  <2>. QED BY <1>0, <2>1, <2>2, <2>3 DEF Inv, Durability, Kept
<1>10. owner' = None => pend' = NoBuffer
  BY <1>0, <1>1, <1>2, <1>3 DEF Buffered
<1>. QED BY <1>0, <1>1, <1>3, <1>5, <1>7, <1>8, <1>9, <1>10, Answered

\* The marks and writes of a buffer stay well-formed.
LEMMA RecordedIs ==
  ASSUME Inv, NEW c \in Conns, pc[c] = "post", req[c].kind \in Marking
  PROVE  Recorded(c) \in [writes : Seq(Write), marks : Seq(Savepoint)]
<1>1. pend \in [writes : Seq(Write), marks : Seq(Savepoint)] /\ pend.writes \in Seq(Write) /\ pend.marks \in Seq(Savepoint)
  BY DEF Inv, Shape, Contents
<1>2. PICK n : n = req[c].name
  OBVIOUS
<1>3. PICK i : i = Newest(pend.marks, n)
  OBVIOUS
<1>4. n \in Names
  BY <1>2 DEF Inv, Requests, Request
<1>5. Len(pend.writes) \in Nat /\ Len(pend.marks) \in Nat /\ i \in 0 .. Len(pend.marks)
  BY <1>1, <1>3, NewestIs, LenProperties
<1>6. CASE req[c].kind = "savepoint"
  <2>1. [name |-> n, len |-> Len(pend.writes)] \in Savepoint
    BY <1>4, <1>5 DEF Savepoint
  <2>2. Append(pend.marks, [name |-> n, len |-> Len(pend.writes)]) \in Seq(Savepoint)
    BY <1>1, <2>1, AppendProperties
  <2>. QED BY <1>1, <1>2, <1>6, <2>2 DEF Recorded, Mark
<1>7. CASE req[c].kind = "release"
  <2>1. CASE i = 0
    BY <1>1, <1>2, <1>3, <1>7, <2>1 DEF Recorded, Release
  <2>2. CASE i # 0
    <3>1. SubSeq(pend.marks, 1, i) \in Seq(Savepoint)
      BY <1>1, <1>5, SubSeqOf
    <3>. QED BY <1>1, <1>2, <1>3, <1>7, <2>2, <3>1 DEF Recorded, Release
  <2>. QED BY <2>1, <2>2
<1>8. CASE req[c].kind = "rollback_to"
  <2>1. CASE i = 0
    BY <1>1, <1>2, <1>3, <1>8, <2>1 DEF Recorded, RollbackTo
  <2>2. CASE i # 0
    <3>1. SubSeq(pend.marks, 1, i - 1) \in Seq(Savepoint)
      BY <1>1, <1>5, <2>2, SubSeqOf
    <3>. DEFINE u == SubSeq(pend.writes, 1, pend.marks[i].len)
                q == SubSeq(pend.marks, 1, i - 1)
    <3>2. Recorded(c) = [writes |-> u, marks |-> q]
      BY <1>2, <1>3, <1>8, <2>2 DEF Recorded, RollbackTo
    <3>3. u = SubSeq(db, tx.base + 1, Len(db))
      <4>1. tx.open /\ Buffered(c)
        BY HolderKnows DEF Holding, Owned
      <4>2. Recorded(c).writes = SubSeq(db, tx.base + 1, Len(db))
        BY <4>1 DEF Buffered, Agree
      <4>. HIDE DEF u, q
      <4>3. [writes |-> u, marks |-> q].writes = u
        OBVIOUS
      <4>. QED BY ONLY <3>2, <4>2, <4>3, Zenon
    <3>4. db \in Seq(Write) /\ tx.base + 1 \in Nat \ {0} /\ Len(db) \in Nat /\ Len(db) <= Len(db)
      BY LenProperties DEF Inv, Shape, Contents
    <3>5. u \in Seq(Write)
      <4>1. SubSeq(db, tx.base + 1, Len(db)) \in Seq(Write)
        BY ONLY <3>4, SubSeqOf
      <4>. QED BY <3>3, <4>1, Zenon
    <3>. HIDE DEF u, q
    <3>. QED BY <3>1, <3>2, <3>5 DEF q
  <2>. QED BY <2>1, <2>2
<1>. QED BY <1>6, <1>7, <1>8 DEF Marking

\* After SAVEPOINT, RELEASE and ROLLBACK TO: the buffer follows the engine.
LEMMA PostMarkKeeps ==
  ASSUME Inv, NEW c \in Conns, PostMark(c)
  PROVE  Inv'
<1>. USE SessionsAssumption
<1>0. pc[c] = "post" /\ req[c].kind \in Marking /\ Reply(c) /\ UNCHANGED <<db, soft, tx, owner, due, acked, issued>>
  BY DEF PostMark, engine, budget, Marking
<1>1. pend' = Recorded(c)
  <2>1. CASE req[c].kind = "savepoint"
    BY <1>0, <2>1 DEF PostMark, Recorded
  <2>2. CASE req[c].kind = "release"
    BY <1>0, <2>2 DEF PostMark, Recorded
  <2>3. CASE req[c].kind = "rollback_to"
    BY <1>0, <2>3 DEF PostMark, Recorded
  <2>. QED BY <1>0, <2>1, <2>2, <2>3 DEF Marking
<1>2. Holding(c) /\ c # None
  BY <1>0 DEF Holding, Conns
<1>3. order = c /\ Buffered(c) /\ tx.open /\ owner = c
  BY <1>0, <1>2, HolderKnows DEF Owned
<1>4. Nested(tx.base, tx.saves, Len(db))' /\ Agree(db, tx, pend)'
  BY <1>0, <1>1, <1>3 DEF Buffered, Agree
<1>5. Contents'
  <2>1. pend' \in [writes : Seq(Write), marks : Seq(Savepoint)]
    BY <1>0, <1>1, RecordedIs
  <2>. QED BY <1>0, <2>1 DEF Inv, Shape, Contents
<1>6. Authors'
  BY <1>0, <1>2, <1>3 DEF Inv, Authors, Author
<1>7. Kept'
  BY <1>0, EngineStill
<1>. QED BY <1>0, <1>2, <1>3, <1>4, <1>5, <1>6, <1>7, Answered

\* After ROLLBACK: buffer and owner are cleared.
LEMMA PostRollbackKeeps ==
  ASSUME Inv, NEW c \in Conns, PostRollback(c)
  PROVE  Inv'
<1>. USE SessionsAssumption
<1>0. pc[c] = "post" /\ req[c].kind = "rollback" /\ owner' = None /\ pend' = NoBuffer /\ Reply(c)
      /\ UNCHANGED <<db, soft, tx, due, acked, issued>>
  BY DEF PostRollback, engine, budget
<1>1. Holding(c) /\ c # None
  BY <1>0 DEF Holding, Conns
<1>2. ~tx.open
  BY <1>0, <1>1, HolderKnows DEF Owned
<1>3. Contents'
  BY <1>0 DEF Inv, Shape, Contents, NoBuffer
<1>4. Authors'
  BY <1>0, <1>2 DEF Inv, Authors
<1>5. Kept'
  BY <1>0, EngineStill
<1>. QED BY <1>0, <1>1, <1>2, <1>3, <1>4, <1>5, Answered

\* After COMMIT: the buffer is taken for the journal and the owner cleared.
LEMMA PostCommitKeeps ==
  ASSUME Inv, NEW c \in Conns, PostCommit(c)
  PROVE  Inv'
<1>. USE SessionsAssumption
<1>p. PICK p : p = IF pend.writes = <<>> THEN "send" ELSE "drain"
  OBVIOUS
<1>0. pc[c] = "post" /\ req[c].kind = "commit" /\ owner' = None /\ pend' = NoBuffer /\ due' = pend.writes /\ Go(c, p)
      /\ UNCHANGED <<db, soft, tx, order, req, acked, issued>>
  BY <1>p DEF PostCommit, engine, budget
<1>1. Holding(c) /\ c # None
  BY <1>0 DEF Holding, Conns
<1>2. ~tx.open /\ Promised(c) /\ Request(c)
  BY <1>0, <1>1, HolderKnows DEF Owned
<1>3. p \in Steps /\ p \in {"send", "drain"} /\ (p = "drain" => pend.writes # <<>>) /\ req[c] \in Statements
  BY <1>p DEF Steps, Inv, Shape, Statements
<1>4. Alone(c) /\ pc'[c] = p /\ req'[c] = req[c] /\ pc' \in [Conns -> Steps] /\ req' \in [Conns -> Statements]
  BY <1>0, <1>3, Moves DEF Inv
<1>5. Contents'
  BY <1>0 DEF Inv, Shape, Contents, NoBuffer
<1>6. Request(c)' /\ Holding(c)'
  BY <1>2, <1>3, <1>4 DEF Request, Holding
<1>7. Owned(c)'
  BY <1>0, <1>2, <1>3, <1>4 DEF Owned
<1>8. Authors'
  BY <1>0, <1>2 DEF Inv, Authors
<1>9. Buffered(c)'
  BY <1>0, <1>2, <1>3, <1>4 DEF Buffered, FreshName
<1>10. Kept'
  BY <1>0, EngineStill
<1>11. Promised(c)'
  <2>1. \A v : Durable(v)' <=> Durable(v)
    BY <1>0, EngineStill
  <2>2. \A i \in 1 .. Len(due') : \A v : v = due'[i] => Durable(v)'
    BY <1>0, <1>2, <2>1 DEF Promised
  <2>3. \A i \in 1 .. Len(due') : Durable(due[i])'
    BY <2>2 DEF Durable
  <2>. QED BY <1>0, <1>3, <1>4, <2>3 DEF Promised
<1>. QED BY <1>0, <1>1, <1>4, <1>5, <1>6, <1>7, <1>8, <1>9, <1>10, <1>11, Advanced

\* A committed transaction's writes enter the journal, or some of them do not (drain_tx_pending).
LEMMA DrainJournalKeeps ==
  ASSUME Inv, NEW c \in Conns, DrainJournal(c) \/ DrainFails(c)
  PROVE  Inv'
<1>. USE SessionsAssumption
<1>0. pc[c] = "drain" /\ Go(c, "send") /\ UNCHANGED <<db, soft, tx, gate, order, req, acked, issued>>
  BY DEF DrainJournal, DrainFails, Failing, budget
<1>1. Holding(c) /\ c # None
  BY <1>0 DEF Holding, Conns
<1>2. ~tx.open /\ owner = None /\ Promised(c) /\ Request(c) /\ Buffered(c)
  BY <1>0, <1>1, HolderKnows DEF Owned
<1>3. "send" \in Steps /\ req[c] \in Statements
  BY DEF Steps, Inv, Shape, Statements
<1>4. Alone(c) /\ pc'[c] = "send" /\ req'[c] = req[c] /\ pc' \in [Conns -> Steps] /\ req' \in [Conns -> Statements]
  BY <1>0, <1>3, Moves DEF Inv
<1>5. Contents'
  BY <1>0 DEF Inv, Shape, Contents, gate
<1>6. Request(c)' /\ Holding(c)'
  BY <1>2, <1>4 DEF Request, Holding
<1>7. Owned(c)'
  BY <1>0, <1>2, <1>4 DEF Owned, gate
<1>8. Authors'
  BY <1>0, <1>2 DEF Inv, Authors
<1>9. Buffered(c)'
  BY <1>0, <1>2, <1>4 DEF Buffered, FreshName, gate
<1>10. Kept'
  BY <1>0, EngineStill
<1>11. Promised(c)'
  BY <1>0, <1>2, <1>4 DEF Promised, Durable, CommittedLen, gate
<1>12. owner' = None
  BY <1>0, <1>2 DEF gate
<1>. QED BY <1>0, <1>1, <1>4, <1>5, <1>6, <1>7, <1>8, <1>9, <1>10, <1>11, <1>12, Advanced

\* A committed transaction's writes are fanned out and its client answered.
LEMMA DrainForwardKeeps ==
  ASSUME Inv, NEW c \in Conns, DrainForward(c)
  PROVE  Inv'
<1>. USE SessionsAssumption
<1>0. pc[c] = "send" /\ acked' = acked \cup Range(due) /\ due' = <<>> /\ Reply(c) /\ UNCHANGED <<db, soft, tx, owner, pend, issued>>
  BY DEF DrainForward, engine, budget
<1>1. Holding(c) /\ c # None
  BY <1>0 DEF Holding, Conns
<1>2. ~tx.open /\ owner = None /\ Promised(c) /\ Buffered(c)
  BY <1>0, <1>1, HolderKnows DEF Owned
<1>3. Contents'
  BY <1>0 DEF Inv, Shape, Contents
<1>4. Authors'
  BY <1>0, <1>2 DEF Inv, Authors
<1>5. Kept'
  <2>1. \A v : Durable(v)' <=> Durable(v)
    BY <1>0, EngineStill
  <2>2. \A v \in Range(due) : Durable(v)
    <3>1. due \in Seq(Write)
      BY DEF Inv, Shape, Contents
    <3>2. \A v \in Range(due) : \E i \in 1 .. Len(due) : v = due[i]
      BY <3>1 DEF Range
    <3>. QED BY <1>0, <1>2, <3>2 DEF Promised
  <2>3. soft' <= CommittedLen'
    BY <1>0 DEF Inv, Durability, Kept, CommittedLen
  <2>. QED BY <1>0, <2>1, <2>2, <2>3 DEF Inv, Durability, Kept
<1>6. pend' = NoBuffer
  BY <1>0, <1>2 DEF Buffered
<1>. QED BY <1>0, <1>1, <1>2, <1>3, <1>4, <1>5, <1>6, Answered

\* The cleanup of a lost connection rolls its transaction back.
LEMMA LeaveUndoKeeps ==
  ASSUME Inv, NEW c \in Conns, LeaveUndo(c)
  PROVE  Inv'
<1>. USE SessionsAssumption
<1>0. pc[c] = "undo" /\ db' = Committed /\ tx' = Closed /\ pend' = NoBuffer /\ order' = None /\ Go(c, "gone")
      /\ UNCHANGED <<soft, owner, due, req, acked, issued>>
  BY DEF LeaveUndo, budget
<1>1. Holding(c) /\ c # None
  BY <1>0 DEF Holding, Conns
<1>2. order = c /\ tx.open /\ owner = None /\ Request(c)
  BY <1>0, <1>1, HolderKnows DEF Owned
<1>3. "gone" \in Steps /\ req[c] \in Statements
  BY DEF Steps, Inv, Shape, Statements
<1>4. Alone(c) /\ pc'[c] = "gone" /\ req'[c] = req[c] /\ pc' \in [Conns -> Steps] /\ req' \in [Conns -> Statements]
  BY <1>0, <1>3, Moves DEF Inv
<1>5. db \in Seq(Write) /\ Len(db) \in Nat /\ tx.base \in Nat /\ tx.base <= Len(db) /\ soft \in Nat /\ soft <= tx.base
  BY <1>2, LenProperties DEF Inv, Shape, Contents, Authors, Durability, Kept, CommittedLen
<1>6. db' \in Seq(Write) /\ Len(db') = tx.base /\ \A i \in 1 .. tx.base : db'[i] = db[i]
  BY <1>0, <1>2, <1>5, SubSeqOf DEF Committed
<1>7. ~tx'.open /\ tx'.base = 0 /\ tx'.saves = <<>>
  BY <1>0 DEF Closed
<1>8. Contents'
  BY <1>0, <1>5, <1>6 DEF Inv, Shape, Contents, Closed, NoBuffer
<1>9. Shape'
  BY <1>0, <1>4, <1>8 DEF Shape, Statements
<1>10. Authors'
  BY <1>6, <1>7, <1>5 DEF Authors
<1>11. Request(c)' /\ ~Holding(c)' /\ Promised(c)'
  BY <1>2, <1>4 DEF Request, Holding, Promised
<1>12. Buffered(c)'
  BY <1>0, <1>4, <1>7 DEF Buffered, FreshName
<1>13. Kept'
  <2>1. CommittedLen = tx.base /\ CommittedLen' = tx.base
    BY <1>2, <1>6, <1>7 DEF CommittedLen
  <2>2. \A i \in 1 .. CommittedLen - soft : db'[i] = db[i]
    BY <1>5, <1>6, <2>1
  <2>3. soft' <= CommittedLen' /\ CommittedLen - soft <= CommittedLen' - soft'
    BY <1>0, <1>5, <2>1
  <2>4. \A v : Durable(v) => Durable(v)'
    BY <1>8, <2>2, <2>3, DurableStays
  <2>. QED BY <1>0, <2>3, <2>4 DEF Inv, Durability, Kept
<1>. QED BY <1>0, <1>1, <1>2, <1>4, <1>7, <1>9, <1>10, <1>11, <1>12, <1>13, HolderStep

\* The process dies: what was committed and on disk is what is found again.
LEMMA CrashKeeps ==
  ASSUME Inv, Crash
  PROVE  Inv'
<1>. USE SessionsAssumption
<1>1. PICK lost \in 0 .. soft : db' = SubSeq(Committed, 1, Len(Committed) - lost)
  BY DEF Crash
<1>2. soft' = 0 /\ tx' = Closed /\ owner' = None /\ pend' = NoBuffer /\ due' = <<>> /\ order' = None /\ acked' = acked /\ issued' = issued
      /\ \A c \in Conns : pc'[c] = "idle" /\ req'[c] = Idle
  BY DEF Crash, Failing
<1>3. db \in Seq(Write) /\ Len(db) \in Nat /\ tx.base \in Nat /\ tx.base <= Len(db) /\ soft \in Nat /\ CommittedLen \in Nat
      /\ CommittedLen <= Len(db) /\ soft <= CommittedLen
  BY LenProperties DEF Inv, Shape, Contents, Authors, Durability, Kept, CommittedLen
<1>4. Committed \in Seq(Write) /\ Len(Committed) = CommittedLen /\ \A i \in 1 .. CommittedLen : Committed[i] = db[i]
  <2>1. CASE tx.open
    BY <1>3, <2>1, SubSeqOf DEF Committed, CommittedLen
  <2>2. CASE ~tx.open
    BY <1>3, <2>2 DEF Committed, CommittedLen
  <2>. QED BY <2>1, <2>2
<1>5. PICK k \in Nat : k = CommittedLen - lost /\ k <= CommittedLen /\ CommittedLen - soft <= k
  BY <1>3
<1>6. db' \in Seq(Write) /\ Len(db') = k /\ \A i \in 1 .. k : db'[i] = db[i]
  <2>1. db' = SubSeq(Committed, 1, k)
    BY <1>1, <1>4, <1>5
  <2>2. SubSeq(Committed, 1, k) \in Seq(Write) /\ Len(SubSeq(Committed, 1, k)) = k
        /\ \A i \in 1 .. k : SubSeq(Committed, 1, k)[i] = Committed[i]
    BY <1>3, <1>4, <1>5, SubSeqOf
  <2>. QED BY <1>3, <1>4, <1>5, <2>1, <2>2
<1>7. ~tx'.open /\ tx'.base = 0 /\ tx'.saves = <<>>
  BY <1>2 DEF Closed
<1>8. Contents'
  BY <1>2, <1>6 DEF Inv, Shape, Contents, Closed, NoBuffer
<1>9. Shape'
  <2>1. Idle \in Statements /\ "idle" \in Steps
    BY DEF Idle, Stmt, Statements, Kinds, Steps
  <2>2. pc' \in [Conns -> Steps] /\ req' \in [Conns -> Statements]
    BY <2>1 DEF Crash
  <2>. QED BY <1>2, <1>8, <2>2 DEF Shape, Statements
<1>10. Requests' /\ Locking'
  BY <1>2 DEF Requests, Request, Locking, Holding, Idle, Stmt, Marking, Conns
<1>11. Ownership' /\ Authors'
  BY <1>2, <1>6, <1>7 DEF Ownership, Authors, Conns
<1>12. Buffering'
  BY <1>2, <1>7 DEF Buffering, FreshName
<1>13. Durability'
  <2>1. CommittedLen' = k
    BY <1>6, <1>7 DEF CommittedLen
  <2>2. soft' <= CommittedLen' /\ CommittedLen - soft <= CommittedLen' - soft'
    BY <1>2, <1>3, <1>5, <2>1
  <2>3. \A i \in 1 .. CommittedLen - soft : db'[i] = db[i]
    BY <1>3, <1>5, <1>6, SMTT(30)
  <2>4. \A v : Durable(v) => Durable(v)'
    BY <1>8, <2>2, <2>3, DurableStays
  <2>. QED BY <1>2, <2>2, <2>4 DEF Inv, Durability, Kept, Promised
<1>. QED BY <1>9, <1>10, <1>11, <1>12, <1>13 DEF Inv

\* The invariant holds at start-up.
LEMMA InitHolds == Init => Inv
<1>. SUFFICES ASSUME Init PROVE Inv
  OBVIOUS
<1>. USE SessionsAssumption
<1>1. Shape
  <2>1. Idle \in Statements /\ "idle" \in Steps
    BY DEF Idle, Stmt, Statements, Kinds, Steps
  <2>. QED BY <2>1 DEF Init, Shape, Contents, Closed, NoBuffer, Statements
<1>2. Requests /\ Locking
  BY DEF Init, Requests, Request, Locking, Holding, Idle, Stmt, Marking, Conns
<1>3. Ownership /\ Authors
  BY DEF Init, Ownership, Authors, Conns, Closed
<1>4. Buffering
  BY DEF Init, Buffering, FreshName, Closed
<1>5. Durability
  BY DEF Init, Durability, Kept, Promised, CommittedLen, Closed
<1>. QED BY <1>1, <1>2, <1>3, <1>4, <1>5 DEF Inv

\* The invariant survives a stuttering step.
LEMMA StutterHolds == Inv /\ UNCHANGED vars => Inv'
<1>. SUFFICES ASSUME Inv, UNCHANGED vars PROVE Inv'
  OBVIOUS
<1>. USE DEF vars
<1>1. Shape'
  BY DEF Inv, Shape, Contents
<1>2. Requests' /\ Locking'
  BY DEF Inv, Requests, Request, Locking, Holding
<1>3. Ownership' /\ Authors'
  BY DEF Inv, Ownership, Owned, Authors, Author
<1>4. Buffering'
  <2>1. \A c \in Conns : Recorded(c)' = Recorded(c)
    BY DEF Recorded, Push, Mark, Release, RollbackTo
  <2>2. \A c \in Conns : FreshName(c)'
    BY DEF Inv, Buffering, FreshName
  <2>3. \A c \in Conns : tx.open /\ order = c => Agree(db, tx, Recorded(c))'
    BY <2>1 DEF Inv, Buffering, Agree
  <2>. QED BY <2>2, <2>3 DEF Inv, Buffering, Agree, Nested
<1>5. Durability'
  BY DEF Inv, Durability, Kept, Promised, CommittedLen, Durable
<1>. QED BY <1>1, <1>2, <1>3, <1>4, <1>5 DEF Inv

\* Every step of the pipeline preserves the invariant.
LEMMA StepHolds ==
  ASSUME ReuseNames = FALSE, Inv, [Next]_vars
  PROVE  Inv'
<1>1. CASE \E c \in Clients : StartRead(c) \/ ReadEligible(c) \/ Disconnect(c)
  BY <1>1, StartReadKeeps, ReadEligibleKeeps, DisconnectKeeps
<1>2. CASE \E c \in Clients, s \in Control : StartControl(c, s)
  BY <1>2, StartControlKeeps
<1>3. ASSUME NEW c \in Conns, StartWrite(c) \/ Step(c) PROVE Inv'
  <2>1. CASE StartWrite(c)
    BY <2>1, StartWriteKeeps
  <2>2. CASE WaitFree(c) \/ WaitDeadline(c)
    BY <2>2, WaitKeeps
  <2>3. CASE TakeOrder(c)
    BY <2>3, TakeOrderKeeps
  <2>4. CASE ExecRead(c) \/ ReadView(c)
    BY <2>4, ReadKeeps
  <2>5. CASE ExecWrite(c) \/ ExecUnlogged(c)
    BY <2>5, ExecWriteKeeps
  <2>6. CASE ExecUnsynced(c)
    BY <2>6, ExecUnsyncedKeeps
  <2>7. CASE ExecBegin(c)
    BY <2>7, ExecBeginKeeps
  <2>8. CASE ExecSavepoint(c)
    BY <2>8, ExecSavepointKeeps
  <2>9. CASE ExecRelease(c)
    BY <2>9, ExecReleaseKeeps
  <2>10. CASE ExecRollbackTo(c)
    BY <2>10, ExecRollbackToKeeps
  <2>11. CASE ExecCommit(c)
    BY <2>11, ExecCommitKeeps
  <2>12. CASE ExecRollback(c)
    BY <2>12, ExecRollbackKeeps
  <2>13. CASE ExecKeptOpen(c)
    BY <2>13, ExecKeptOpenKeeps
  <2>14. CASE ExecRefused(c)
    BY <2>14, ExecRefusedKeeps
  <2>15. CASE PostBegin(c)
    BY <2>15, PostBeginKeeps
  <2>16. CASE PostWrite(c)
    BY <2>16, PostWriteKeeps
  <2>17. CASE PostMark(c)
    BY <2>17, PostMarkKeeps
  <2>18. CASE PostRollback(c)
    BY <2>18, PostRollbackKeeps
  <2>19. CASE PostCommit(c)
    BY <2>19, PostCommitKeeps
  <2>20. CASE DrainJournal(c) \/ DrainFails(c)
    BY <2>20, DrainJournalKeeps
  <2>21. CASE DrainForward(c)
    BY <2>21, DrainForwardKeeps
  <2>22. CASE Leave(c)
    BY <2>22, LeaveKeeps
  <2>23. CASE LeaveUndo(c)
    BY <2>23, LeaveUndoKeeps
  <2>. QED
    BY <1>3, <2>1, <2>2, <2>3, <2>4, <2>5, <2>6, <2>7, <2>8, <2>9, <2>10, <2>11, <2>12, <2>13, <2>14,
       <2>15, <2>16, <2>17, <2>18, <2>19, <2>20, <2>21, <2>22, <2>23 DEF Step
<1>4. CASE Crash
  BY <1>4, CrashKeeps
<1>5. CASE UNCHANGED vars
  BY <1>5, StutterHolds
<1>. QED BY <1>1, <1>2, <1>3, <1>4, <1>5 DEF Next

\* The inductive invariant holds in every reachable state, for any number of
\* connections, statements, faults and crashes (execute_sql_inner).
THEOREM Invariant ==
  ASSUME ReuseNames = FALSE
  PROVE  Spec => []Inv
<1>1. Inv /\ [Next]_vars => Inv'
  BY StepHolds
<1>. QED BY <1>1, InitHolds, PTL DEF Spec

-----------------------------------------------------------------------------
\* Between statements tx_pending holds exactly what the engine's transaction holds.
THEOREM BufferIsTransaction ==
  ASSUME ReuseNames = FALSE
  PROVE  Spec => []BufferMatches
<1>1. Inv => BufferMatches
  BY DEF Inv, Buffering, Agree, BufferMatches
<1>. QED BY <1>1, Invariant, PTL

\* An open transaction has a live owner between statements, and holds writes of one client.
THEOREM OneOwnerAtATime ==
  ASSUME ReuseNames = FALSE
  PROVE  Spec => []OneOwner
<1>. USE SessionsAssumption
<1>1. Inv => NoOrphan
  BY DEF Inv, Ownership, NoOrphan
<1>2. ASSUME Inv, tx.open PROVE Author \in Clients
  <2>1. CASE owner # None
    BY <1>2, <2>1 DEF Inv, Shape, Contents, Author
  <2>2. CASE owner = None
    <3>1. PICK c \in Conns : order = c
      BY <1>2, <2>2 DEF Inv, Ownership, Shape
    <3>2. c # None /\ Holding(c) /\ Owned(c) /\ Request(c)
      BY <1>2, <3>1 DEF Inv, Locking, Ownership, Requests, Conns
    <3>3. pc[c] # "exec" /\ pc[c] \notin {"drain", "send"}
      BY <1>2, <2>2, <3>2 DEF Owned
    <3>4. pc[c] \in {"post", "undo"} /\ req[c] \in Statements
      BY <1>2, <3>2, <3>3 DEF Holding, Inv, Shape, Statements
    <3>5. pc[c] = "post" => req[c].kind \notin {"write", "none"}
      BY <1>2, <2>2, <3>2 DEF Owned, Request
    <3>6. c \in Clients
      BY <3>2, <3>4, <3>5 DEF Request
    <3>. QED BY <2>2, <3>1, <3>6 DEF Author
  <2>. QED BY <2>1, <2>2
<1>3. Inv => Unmixed
  BY <1>2 DEF Inv, Authors, Unmixed
<1>4. Inv => OneOwner
  BY <1>1, <1>3 DEF OneOwner
<1>. QED BY <1>4, Invariant, PTL

\* The write-locked read path returns no other connection's uncommitted writes.
THEOREM ReadsCommitted ==
  ASSUME ReuseNames = FALSE
  PROVE  Spec => []LockedReadsCommitted
<1>1. Init => LockedReadsCommitted
  BY DEF Init, LockedReadsCommitted
<1>2. ASSUME Inv, NEW c \in Conns, ~Busy(c) PROVE ~OthersUncommitted(c)
  <2>1. tx.open => owner = c /\ c # None
    BY <1>2, SessionsAssumption DEF Busy, Conns
  <2>2. tx.open => \A i \in tx.base + 1 .. Len(db) : db[i][1] = c
    BY <1>2, <2>1 DEF Inv, Authors, Author
  <2>. QED BY <2>2 DEF OthersUncommitted
<1>3. ASSUME Inv, LockedReadsCommitted, [Next]_vars PROVE LockedReadsCommitted'
  <2>1. ASSUME dirty' = dirty PROVE LockedReadsCommitted'
    BY <1>3, <2>1 DEF LockedReadsCommitted
  <2>2. CASE \E c \in Clients : StartRead(c) \/ ReadEligible(c) \/ Disconnect(c)
    BY <2>1, <2>2 DEF StartRead, Start, ReadEligible, Disconnect
  <2>3. CASE \E c \in Clients, s \in Control : StartControl(c, s)
    BY <2>1, <2>3 DEF StartControl, Start
  <2>4. ASSUME NEW c \in Conns, StartWrite(c) \/ Step(c) PROVE LockedReadsCommitted'
    <3>1. CASE ExecRead(c)
      <4>1. dirty' = dirty
        BY <1>2, <1>3, <3>1 DEF ExecRead
      <4>. QED BY <2>1, <4>1
    <3>2. CASE ReadView(c)
      BY <1>3, <3>2 DEF ReadView, LockedReadsCommitted
    <3>3. CASE StartWrite(c) \/ WaitFree(c) \/ WaitDeadline(c) \/ TakeOrder(c) \/ Leave(c) \/ LeaveUndo(c)
      BY <2>1, <3>3 DEF StartWrite, Start, WaitFree, WaitDeadline, TakeOrder, Leave, LeaveUndo
    <3>4. CASE ExecWrite(c) \/ ExecUnlogged(c) \/ ExecUnsynced(c) \/ ExecBegin(c) \/ ExecSavepoint(c) \/ ExecRelease(c) \/ ExecRollbackTo(c)
      BY <2>1, <3>4 DEF ExecWrite, ExecUnlogged, ExecUnsynced, ExecBegin, ExecSavepoint, ExecRelease, ExecRollbackTo
    <3>5. CASE ExecCommit(c) \/ ExecRollback(c) \/ ExecKeptOpen(c) \/ ExecRefused(c)
      BY <2>1, <3>5 DEF ExecCommit, ExecRollback, ExecKeptOpen, ExecRefused
    <3>6. CASE PostBegin(c) \/ PostWrite(c) \/ PostMark(c) \/ PostRollback(c) \/ PostCommit(c) \/ DrainJournal(c) \/ DrainFails(c) \/ DrainForward(c)
      BY <2>1, <3>6 DEF PostBegin, PostWrite, PostMark, PostRollback, PostCommit, DrainJournal, DrainFails, DrainForward
    <3>. QED BY <2>4, <3>1, <3>2, <3>3, <3>4, <3>5, <3>6 DEF Step
  <2>5. CASE Crash
    BY <2>1, <2>5 DEF Crash
  <2>6. CASE UNCHANGED vars
    BY <2>1, <2>6 DEF vars
  <2>. QED BY <1>3, <2>2, <2>3, <2>4, <2>5, <2>6 DEF Next
<1>. QED BY <1>1, <1>3, Invariant, PTL DEF Spec

-----------------------------------------------------------------------------
(***************************************************************************)
(* The pipeline implements the serial store. Its committed contents are    *)
(* the engine's without the open transaction, and a committed transaction  *)
(* owes the journal its writes until the drain.                            *)
(***************************************************************************)
Owing(c) == pc[c] = "drain" \/ (pc[c] = "post" /\ req[c].kind = "commit")

\* The journal is owed nothing while no connection is committing.
LEMMA OwedNothing ==
  ASSUME \A d \in Conns : ~Owing(d)
  PROVE  Owed = <<>>
BY DEF Owed, Owing

\* What the journal is owed is what the connection that holds write_order owes.
LEMMA OwedIs ==
  ASSUME Inv, NEW c \in Conns, Owing(c)
  PROVE  Owed = IF pc[c] = "drain" THEN due ELSE pend.writes
<1>1. Holding(c)
  BY DEF Owing, Holding
<1>2. \A d \in Conns \ {c} : ~Holding(d)
  BY <1>1, HolderKnows
<1>3. \A d \in Conns \ {c} : pc[d] # "drain" /\ pc[d] # "post"
  BY <1>2 DEF Holding
<1>. QED BY <1>3 DEF Owed, Owing

\* A step of a connection that owes nothing before and after it.
LEMMA OwedStill ==
  ASSUME Inv, NEW c \in Conns, Alone(c), ~Owing(c), ~Owing(c)', UNCHANGED <<pend, due>> \/ Holding(c)
  PROVE  Owed' = Owed
<1>1. CASE UNCHANGED <<pend, due>>
  <2>1. (\E d \in Conns : pc'[d] = "drain") <=> (\E d \in Conns : pc[d] = "drain")
    BY DEF Alone, Owing
  <2>2. (\E d \in Conns : pc'[d] = "post" /\ req'[d].kind = "commit") <=> (\E d \in Conns : pc[d] = "post" /\ req[d].kind = "commit")
    BY DEF Alone, Owing
  <2>. QED BY <1>1, <2>1, <2>2 DEF Owed
<1>2. CASE Holding(c)
  <2>1. \A d \in Conns \ {c} : ~Holding(d)
    BY <1>2, HolderKnows
  <2>2. \A d \in Conns \ {c} : ~Owing(d) /\ ~Owing(d)'
    BY <2>1 DEF Holding, Owing, Alone
  <2>3. \A d \in Conns : ~Owing(d)
    BY <2>2
  <2>4. \A d \in Conns : ~Owing(d)'
    BY <2>2
  <2>5. Owed = <<>>
    BY <2>3, OwedNothing
  <2>6. Owed' = <<>>
    BY <2>4 DEF Owed, Owing
  <2>. QED BY <2>5, <2>6
<1>. QED BY <1>1, <1>2

\* The same for a statement's answer and for a move to another step.
LEMMA AnswerOwes ==
  ASSUME Inv, NEW c \in Conns, Reply(c), ~Owing(c), UNCHANGED <<pend, due>> \/ Holding(c)
  PROVE  Owed' = Owed
<1>1. Alone(c) /\ pc'[c] = "idle"
  BY Replies DEF Inv
<1>2. ~Owing(c)'
  BY <1>1 DEF Owing
<1>. QED BY <1>1, <1>2, OwedStill

\* A step that moves one connection and no data changes nothing of what is owed.
LEMMA MoveOwes ==
  ASSUME Inv, NEW c \in Conns, NEW p, Go(c, p), req' = req, ~Owing(c), p # "drain", p = "post" => req[c].kind # "commit",
         UNCHANGED <<pend, due>> \/ Holding(c)
  PROVE  Owed' = Owed
<1>1. Alone(c) /\ pc'[c] = p
  BY DEF Go, Alone, Inv, Shape
<1>2. ~Owing(c)'
  BY <1>1 DEF Owing
<1>. QED BY <1>1, <1>2, OwedStill

\* The committed part of the contents.
LEMMA CommittedIs ==
  ASSUME Inv
  PROVE  /\ Committed \in Seq(Write) /\ Len(Committed) = CommittedLen /\ CommittedLen \in Nat /\ CommittedLen <= Len(db)
         /\ Len(db) \in Nat /\ soft \in Nat
         /\ \A i \in 1 .. CommittedLen : Committed[i] = db[i]
         /\ \A w : Durable(w) => w \in Range(Committed)
<1>1. db \in Seq(Write) /\ Len(db) \in Nat /\ tx.base \in Nat /\ tx.base <= Len(db) /\ CommittedLen \in Nat /\ CommittedLen <= Len(db) /\ soft \in Nat
  BY LenProperties DEF Inv, Shape, Contents, Authors, CommittedLen
<1>2. Committed \in Seq(Write) /\ Len(Committed) = CommittedLen /\ \A i \in 1 .. CommittedLen : Committed[i] = db[i]
  <2>1. CASE tx.open
    BY <1>1, <2>1, SubSeqOf DEF Committed, CommittedLen
  <2>2. CASE ~tx.open
    BY <1>1, <2>2 DEF Committed, CommittedLen
  <2>. QED BY <2>1, <2>2
<1>3. ASSUME NEW w, Durable(w) PROVE w \in Range(Committed)
  <2>1. PICK i \in 1 .. CommittedLen - soft : db[i] = w
    BY <1>3 DEF Durable
  <2>2. i \in 1 .. Len(Committed) /\ Committed[i] = w
    BY <1>1, <1>2, <2>1
  <2>. QED BY <1>2, <2>2 DEF Range
<1>. QED BY <1>1, <1>2, <1>3

\* The steps that the store does not see.
LEMMA UnseenStart ==
  ASSUME Inv, NEW c \in Conns, NEW s, Start(c, s)
  PROVE  UNCHANGED Store!svars
<1>1. Alone(c) /\ pc'[c] = Queue(c, s) /\ UNCHANGED <<pend, due, db, tx, entries, acked>>
  BY DEF Start, Go, Alone, Inv, Shape, gate, engine
<1>2. ~Owing(c) /\ ~Owing(c)'
  BY <1>1 DEF Start, Owing, Queue
<1>3. Owed' = Owed
  BY <1>1, <1>2, OwedStill
<1>. QED BY <1>1, <1>3 DEF Store!svars, Committed, entries

\* Waiting, reading and leaving are stuttering steps of the serial store.
LEMMA UnseenWait ==
  ASSUME Inv, NEW c \in Conns,
         \/ WaitFree(c) \/ WaitDeadline(c) \/ TakeOrder(c) \/ ExecRead(c) \/ ReadView(c) \/ ReadEligible(c)
         \/ Disconnect(c) \/ Leave(c)
  PROVE  UNCHANGED Store!svars
<1>1. UNCHANGED <<pend, due, db, tx, entries, acked>>
  BY DEF WaitFree, WaitDeadline, TakeOrder, ExecRead, ReadView, ReadEligible, Disconnect, Leave, gate, engine
<1>2. ~Owing(c)
  BY DEF WaitFree, WaitDeadline, TakeOrder, ExecRead, ReadView, ReadEligible, Disconnect, Leave, Owing
<1>3. CASE Reply(c)
  <2>1. Owed' = Owed
    BY <1>1, <1>2, <1>3, AnswerOwes
  <2>. QED BY <1>1, <2>1 DEF Store!svars, Committed, entries
<1>4. ASSUME NEW p, Go(c, p), p \notin {"drain", "post"} PROVE UNCHANGED Store!svars
  <2>1. pc'[c] = p /\ \A d \in Conns \ {c} : pc'[d] = pc[d] /\ req'[d] = req[d]
    BY <1>4 DEF Go, Inv, Shape, WaitFree, WaitDeadline, TakeOrder, ExecRead, ReadView, ReadEligible, Disconnect, Leave, Reply
  <2>2. Alone(c) /\ ~Owing(c)'
    BY <1>4, <2>1 DEF Alone, Owing
  <2>3. Owed' = Owed
    BY <1>1, <1>2, <2>2, OwedStill
  <2>. QED BY <1>1, <2>3 DEF Store!svars, Committed, entries
<1>5. Queue(c, req[c]) \notin {"drain", "post"}
  BY DEF Queue
<1>. QED BY <1>3, <1>4, <1>5 DEF WaitFree, WaitDeadline, TakeOrder, ExecRead, ReadView, ReadEligible, Disconnect, Leave

\* The statement is refused, or is answered without a change of the committed contents.
LEMMA UnseenAnswer ==
  ASSUME Inv, NEW c \in Conns, ExecKeptOpen(c) \/ ExecRefused(c) \/ PostBegin(c) \/ PostMark(c) \/ PostRollback(c)
  PROVE  UNCHANGED Store!svars
<1>1. Reply(c) /\ UNCHANGED <<db, tx, entries, acked>>
  BY DEF ExecKeptOpen, ExecRefused, PostBegin, PostMark, PostRollback, gate, engine
<1>2. ~Owing(c) /\ Holding(c)
  BY DEF ExecKeptOpen, ExecRefused, PostBegin, PostMark, PostRollback, Owing, Holding
<1>3. Owed' = Owed
  BY <1>1, <1>2, AnswerOwes
<1>. QED BY <1>1, <1>3 DEF Store!svars, Committed, entries

\* Steps inside the transaction change what is not committed yet.
LEMMA UnseenInside ==
  ASSUME Inv, NEW c \in Conns,
         \/ (ExecWrite(c) /\ tx.open) \/ ExecBegin(c) \/ ExecSavepoint(c) \/ ExecRelease(c) \/ ExecRollbackTo(c)
         \/ ExecRollback(c) \/ LeaveUndo(c)
  PROVE  UNCHANGED Store!svars
<1>. USE SessionsAssumption
<1>1. UNCHANGED <<entries, acked>>
  BY DEF entries, ExecWrite, ExecBegin, ExecSavepoint, ExecRelease, ExecRollbackTo, ExecRollback, LeaveUndo
<1>2. Holding(c) /\ ~Owing(c)
  BY DEF ExecWrite, ExecBegin, ExecSavepoint, ExecRelease, ExecRollbackTo, ExecRollback, LeaveUndo, Holding, Owing
<1>3. Owed' = Owed
  <2>1. CASE LeaveUndo(c)
    BY <1>2, <2>1, MoveOwes DEF LeaveUndo
  <2>2. CASE ~LeaveUndo(c)
    <3>1. Go(c, "post") /\ req' = req /\ req[c].kind # "commit"
      BY <2>2 DEF ExecWrite, ExecBegin, ExecSavepoint, ExecRelease, ExecRollbackTo, ExecRollback
    <3>. QED BY <1>2, <3>1, MoveOwes
  <2>. QED BY <2>1, <2>2
<1>4. db \in Seq(Write) /\ Len(db) \in Nat /\ tx.base \in Nat /\ tx.base <= Len(db) /\ tx.saves \in Seq(Savepoint)
      /\ tx \in [open : BOOLEAN, base : Nat, saves : Seq(Savepoint)]
  BY LenProperties DEF Inv, Shape, Contents, Authors
<1>5. Committed' = Committed
  <2>1. CASE ExecWrite(c) /\ tx.open
    <3>1. req[c].w \in Write /\ db' = Append(db, req[c].w) /\ tx' = tx
      BY <2>1, <1>2, HolderKnows DEF ExecWrite, Request
    <3>2. SubSeq(Append(db, req[c].w), 1, tx.base) = SubSeq(db, 1, tx.base)
      BY ONLY <1>4, <3>1, TailAppend
    <3>. QED BY <2>1, <3>1, <3>2 DEF Committed
  <2>2. CASE ExecBegin(c)
    <3>1. ~tx.open /\ tx'.open /\ tx'.base = Len(db) /\ db' = db
      BY <2>2 DEF ExecBegin
    <3>2. SubSeq(db, 1, Len(db)) = db
      BY <1>4, SubSeqFull
    <3>. QED BY <3>1, <3>2 DEF Committed
  <2>3. CASE ExecSavepoint(c)
    <3>1. db' = db /\ tx'.open = tx.open /\ tx'.base = tx.base
      BY <1>4, <2>3 DEF ExecSavepoint
    <3>. QED BY <3>1 DEF Committed
  <2>4. CASE ExecRelease(c)
    <3>1. db' = db /\ tx'.open = tx.open /\ tx'.base = tx.base
      BY <1>4, <2>4 DEF ExecRelease
    <3>. QED BY <3>1 DEF Committed
  <2>5. CASE ExecRollbackTo(c)
    <3>1. PICK i : i = Newest(tx.saves, req[c].name)
      OBVIOUS
    <3>2. i # 0 /\ db' = SubSeq(db, 1, tx.saves[i].len) /\ tx'.open = tx.open /\ tx'.base = tx.base
      BY <1>4, <2>5, <3>1 DEF ExecRollbackTo
    <3>3. i \in At(tx.saves)
      BY <1>4, <3>1, <3>2, NewestIs, LenProperties DEF At
    <3>4. tx.open
      BY <1>4, <3>3 DEF At, Inv, Shape, Contents
    <3>5. tx.saves[i].len \in Nat /\ tx.base <= tx.saves[i].len /\ tx.saves[i].len <= Len(db)
      <4>1. Nested(tx.base, tx.saves, Len(db))
        BY <1>2, <3>4, HolderKnows DEF Buffered
      <4>. QED BY <1>4, <3>3, <4>1, SavepointIs DEF Nested
    <3>6. SubSeq(SubSeq(db, 1, tx.saves[i].len), 1, tx.base) = SubSeq(db, 1, tx.base)
      BY ONLY <1>4, <3>5, PrefixOfPrefix
    <3>. QED BY <3>2, <3>4, <3>6 DEF Committed
  <2>6. CASE ExecRollback(c)
    BY <2>6 DEF ExecRollback, Committed, Closed
  <2>7. CASE LeaveUndo(c)
    BY <2>7 DEF LeaveUndo, Committed, Closed
  <2>. QED BY <2>1, <2>2, <2>3, <2>4, <2>5, <2>6, <2>7
<1>. QED BY <1>1, <1>3, <1>5 DEF Store!svars, entries

\* The buffer becomes the writes that are due; an empty one is done with.
LEMMA UnseenTakeover ==
  ASSUME Inv, Inv', NEW c \in Conns, PostCommit(c)
  PROVE  UNCHANGED Store!svars
<1>1. UNCHANGED <<db, tx, entries, acked>> /\ pc[c] = "post" /\ req[c].kind = "commit" /\ due' = pend.writes
      /\ Go(c, IF pend.writes = <<>> THEN "send" ELSE "drain") /\ req' = req
  BY DEF PostCommit, engine
<1>2. Owing(c) /\ Holding(c)
  BY <1>1 DEF Owing, Holding
<1>3. Owed = pend.writes
  BY <1>1, <1>2, OwedIs
<1>4. pc'[c] = (IF pend.writes = <<>> THEN "send" ELSE "drain") /\ \A d \in Conns \ {c} : pc'[d] = pc[d] /\ req'[d] = req[d]
  BY <1>1 DEF Go, Inv, Shape
<1>5. \A d \in Conns \ {c} : ~Holding(d)
  BY <1>2, HolderKnows
<1>6. \A d \in Conns \ {c} : pc'[d] # "drain" /\ pc'[d] # "post"
  BY <1>4, <1>5 DEF Holding
<1>7. Owed' = pend.writes
  BY <1>1, <1>4, <1>6 DEF Owed
<1>. QED BY <1>1, <1>3, <1>7 DEF Store!svars, Committed, entries

\* A write outside a transaction is one committed write, with its journal entry if it is a client's
\* and the entry could be made.
LEMMA SeenWrite ==
  ASSUME Inv, NEW c \in Conns, (ExecWrite(c) /\ ~tx.open) \/ ExecUnlogged(c) \/ ExecUnsynced(c)
  PROVE  Store!Next
<1>. USE SessionsAssumption
<1>a. PICK w : w = req[c].w
  OBVIOUS
<1>1. pc[c] = "exec" /\ req[c].kind = "write" /\ db' = Append(db, w) /\ ~tx.open /\ tx' = tx /\ acked' = acked
  BY <1>a DEF ExecWrite, ExecUnlogged, ExecUnsynced
<1>b. frail' = {} \/ frail' = frail
  BY DEF ExecWrite, ExecUnlogged, ExecUnsynced
<1>c. ASSUME c \in Appliers PROVE UNCHANGED <<journal, unlogged>>
  BY <1>1, <1>c DEF ExecWrite, ExecUnlogged, ExecUnsynced
<1>d. ASSUME c \notin Appliers
      PROVE  \/ journal' = Append(journal, w) /\ UNCHANGED unlogged
             \/ unlogged' = unlogged \cup {w} /\ UNCHANGED journal
  BY <1>1, <1>a, <1>d DEF ExecWrite, ExecUnlogged, ExecUnsynced
<1>2. Holding(c) /\ ~Owing(c)
  BY <1>1 DEF Holding, Owing
<1>3. w \in Write /\ w[1] = c /\ \A d \in Conns \ {c} : ~Holding(d)
  BY <1>a, <1>1, <1>2, HolderKnows DEF Request
<1>4. Owed = <<>>
  <2>1. \A d \in Conns : ~Owing(d)
    BY <1>2, <1>3 DEF Owing, Holding
  <2>. QED BY <2>1, OwedNothing
<1>5. Owed' = Owed
  <2>1. CASE ExecUnsynced(c)
    BY <1>2, <2>1, AnswerOwes DEF ExecUnsynced
  <2>2. CASE ExecWrite(c) \/ ExecUnlogged(c)
    BY <1>1, <1>2, <2>2, MoveOwes DEF ExecWrite, ExecUnlogged
  <2>. QED BY <2>1, <2>2
<1>6. Committed = db /\ Committed' = Append(db, w)
  BY <1>1 DEF Committed
<1>7. db \in Seq(Write) /\ Len(db) \in Nat
  BY LenProperties DEF Inv, Shape, Contents
<1>8. Committed' # <<>> /\ Store!Last(Committed') = w
  <2>1. Len(Append(db, w)) = Len(db) + 1 /\ Append(db, w)[Len(db) + 1] = w
    BY <1>3, <1>7, AppendProperties
  <2>2. Len(Append(db, w)) # 0
    BY <1>7, <2>1
  <2>. QED BY <1>6, <2>1, <2>2 DEF Store!Last
<1>9. c \in Clients \/ c \in Appliers
  BY DEF Conns
<1>10. CASE c \in Clients
  <2>1. c \notin Appliers
    BY <1>10
  <2>2. Store!Autocommit
    BY <1>1, <1>b, <1>d, <1>3, <1>4, <1>5, <1>6, <1>8, <1>10, <2>1 DEF Store!Autocommit, Store!Committed1, Store!Author
  <2>. QED BY <2>2 DEF Store!Next
<1>11. CASE c \in Appliers
  <2>1. Store!Replicated
    BY <1>1, <1>b, <1>c, <1>3, <1>4, <1>5, <1>6, <1>8, <1>11 DEF Store!Replicated, Store!Committed1, Store!Author
  <2>. QED BY <2>1 DEF Store!Next
<1>. QED BY <1>9, <1>10, <1>11

\* COMMIT makes the transaction's writes the newest committed ones, in one piece.
LEMMA SeenCommit ==
  ASSUME Inv, NEW c \in Conns, ExecCommit(c)
  PROVE  Store!Next \/ UNCHANGED Store!svars
<1>. USE SessionsAssumption
<1>1. pc[c] = "exec" /\ req[c].kind = "commit" /\ tx.open /\ tx' = Closed /\ db' = db /\ Go(c, "post") /\ req' = req
      /\ frail' = {} /\ UNCHANGED <<journal, unlogged, acked, pend, due>>
  BY DEF ExecCommit, gate
<1>2. Holding(c) /\ ~Owing(c)
  BY <1>1 DEF Holding, Owing
<1>3. owner = c /\ c # None /\ Agree(db, tx, pend) /\ c \in Clients
  BY <1>1, Executing DEF Request
<1>4. \A d \in Conns \ {c} : ~Holding(d)
  BY <1>2, HolderKnows
<1>5. Owed = <<>>
  <2>1. \A d \in Conns : ~Owing(d)
    BY <1>2, <1>4 DEF Owing, Holding
  <2>. QED BY <2>1, OwedNothing
<1>6. Owed' = pend.writes
  <2>1. pc'[c] = "post" /\ \A d \in Conns \ {c} : pc'[d] = pc[d] /\ req'[d] = req[d]
    BY <1>1 DEF Go, Inv, Shape
  <2>2. \A d \in Conns \ {c} : pc'[d] # "drain" /\ pc'[d] # "post"
    BY <1>4, <2>1 DEF Holding
  <2>. QED BY <1>1, <2>1, <2>2 DEF Owed
<1>7. db \in Seq(Write) /\ Len(db) \in Nat /\ tx.base \in Nat /\ tx.base <= Len(db)
  BY LenProperties DEF Inv, Shape, Contents, Authors
<1>8. pend.writes = SubSeq(db, tx.base + 1, Len(db))
  BY <1>3 DEF Agree
<1>9. Committed = SubSeq(db, 1, tx.base) /\ Committed' = db
  BY <1>1 DEF Committed, Closed
<1>10. Committed' = Committed \o pend.writes
  <2>1. 1 \in 1 .. Len(db) + 1 /\ tx.base \in 1 - 1 .. Len(db) /\ Len(db) \in tx.base .. Len(db)
    BY <1>7
  <2>2. SubSeq(db, 1, tx.base) \o SubSeq(db, tx.base + 1, Len(db)) = SubSeq(db, 1, Len(db))
    BY ONLY <1>7, <2>1, ConcatAdjacentSubSeq
  <2>3. SubSeq(db, 1, Len(db)) = db
    BY <1>7, SubSeqFull
  <2>. QED BY <1>8, <1>9, <2>2, <2>3, Zenon
<1>11. CASE pend.writes = <<>>
  <2>1. tx.base = Len(db)
    <3>1. Len(pend.writes) = Len(db) - tx.base
      BY <1>1, <1>3, BufferTail
    <3>. QED BY <1>7, <1>11, <3>1
  <2>2. Committed = db
    BY <1>7, <1>9, <2>1, SubSeqFull
  <2>3. Store!Sync
    BY <1>1, <1>5, <1>6, <1>9, <1>11, <2>2 DEF Store!Sync
  <2>. QED BY <2>3 DEF Store!Next
<1>12. CASE pend.writes # <<>>
  <2>1. \A w \in Store!Range(pend.writes) : w[1] = c
    <3>1. pend.writes \in Seq(Write)
          /\ \A j \in 1 .. Len(pend.writes) : tx.base + j \in tx.base + 1 .. Len(db) /\ pend.writes[j] = db[tx.base + j]
      BY <1>1, <1>3, BufferTail
    <3>2. \A i \in tx.base + 1 .. Len(db) : db[i][1] = c
      BY <1>1, <1>3 DEF Inv, Authors, Author
    <3>3. \A j \in 1 .. Len(pend.writes) : pend.writes[j][1] = c
      BY <3>1, <3>2
    <3>4. \A w \in Store!Range(pend.writes) : \E j \in 1 .. Len(pend.writes) : w = pend.writes[j]
      BY <3>1 DEF Store!Range
    <3>. QED BY <3>3, <3>4
  <2>2. Store!CommitBatch
    BY <1>1, <1>3, <1>5, <1>6, <1>10, <1>12, <2>1 DEF Store!CommitBatch, Store!Author
  <2>. QED BY <2>2 DEF Store!Next
<1>. QED BY <1>11, <1>12

\* A write or the writes of a COMMIT are acknowledged: they are committed.
LEMMA SeenAcknowledge ==
  ASSUME Inv, Inv', NEW c \in Conns, PostWrite(c) \/ DrainForward(c)
  PROVE  Store!Next \/ UNCHANGED Store!svars
<1>1. Reply(c) /\ UNCHANGED <<db, tx, entries>> /\ acked \subseteq acked' /\ Holding(c) /\ ~Owing(c)
  BY DEF PostWrite, DrainForward, engine, Holding, Owing
<1>2. Owed' = Owed
  BY <1>1, AnswerOwes
<1>3. Committed' = Committed
  BY <1>1 DEF Committed
<1>4. acked' \subseteq Range(Committed')
  <2>1. \A w \in acked' : Durable(w)'
    BY DEF Inv, Durability, Kept
  <2>2. (\A w : Durable(w) => w \in Range(Committed))'
    BY CommittedIs, PTL
  <2>. QED BY <2>1, <2>2
<1>5. Store!Acknowledge
  <2>1. Store!Range(Committed) = Range(Committed)
    BY DEF Store!Range, Range
  <2>. QED BY <1>1, <1>2, <1>3, <1>4, <2>1 DEF Store!Acknowledge, entries
<1>. QED BY <1>5 DEF Store!Next

\* The drain pays what a transaction owes the journal, as far as the entries can be made.
LEMMA SeenDrain ==
  ASSUME Inv, NEW c \in Conns, DrainJournal(c) \/ DrainFails(c)
  PROVE  Store!Next
<1>1. pc[c] = "drain" /\ Go(c, "send") /\ UNCHANGED <<db, tx, acked, req>>
  BY DEF DrainJournal, DrainFails
<1>2. Holding(c) /\ Owing(c)
  BY <1>1 DEF Holding, Owing
<1>3. Owed = due /\ due # <<>>
  BY <1>1, <1>2, OwedIs, HolderKnows DEF Promised
<1>4. Owed' = <<>>
  <2>1. pc'[c] = "send" /\ \A d \in Conns \ {c} : pc'[d] = pc[d] /\ req'[d] = req[d]
    BY <1>1 DEF Go, Inv, Shape
  <2>2. \A d \in Conns \ {c} : ~Holding(d)
    BY <1>2, HolderKnows
  <2>3. \A d \in Conns : pc'[d] # "drain" /\ pc'[d] # "post"
    BY <2>1, <2>2 DEF Holding
  <2>. QED BY <2>3 DEF Owed
<1>5. Committed' = Committed
  BY <1>1 DEF Committed
<1>6. Range(due) = Store!Range(due)
  BY DEF Store!Range, Range
<1>7. \/ journal' = journal \o due /\ frail' \in {{}, Range(due)} /\ UNCHANGED unlogged
      \/ \E out \in SUBSET Range(due) :
            /\ journal' = journal \o Store!Surviving(due, Range(due) \ out)
            /\ unlogged' = unlogged \cup out /\ frail' = {}
  BY DEF DrainJournal, DrainFails
<1>8. Store!LogBatch
  BY <1>1, <1>3, <1>4, <1>5, <1>6, <1>7 DEF Store!LogBatch
<1>. QED BY <1>8 DEF Store!Next

\* A crash loses writes that nobody was told of, and their entries, and the entries of one
\* transaction: those it still owed or those whose unit was not durable.
LEMMA SeenCrash ==
  ASSUME Inv, Inv', Crash
  PROVE  Store!Next
<1>1. PICK lost \in 0 .. soft : db' = SubSeq(Committed, 1, Len(Committed) - lost)
  BY DEF Crash
<1>2. /\ tx' = Closed /\ journal' = Store!Surviving(journal, Range(db') \ unlogged') /\ acked' = acked /\ frail' = {}
      /\ \A c \in Conns : pc'[c] = "idle"
  BY DEF Crash
<1>3. Committed' = db' /\ Owed' = <<>>
  BY <1>2 DEF Committed, Closed, Owed
<1>4. Committed \in Seq(Write) /\ Len(Committed) \in Nat /\ soft \in Nat /\ soft <= Len(Committed)
  BY CommittedIs DEF Inv, Durability, Kept
<1>5. PICK k \in Nat : k = Len(Committed) - lost /\ k <= Len(Committed)
  <2>1. PICK n : n = Len(Committed)
    OBVIOUS
  <2>2. n - lost \in Nat /\ n - lost <= n
    BY <1>4, <2>1
  <2>. QED BY <2>1, <2>2
<1>6. db' = SubSeq(Committed, 1, k) /\ db' \in Seq(Write) /\ Len(db') = k
  <2>1. SubSeq(Committed, 1, k) \in Seq(Write) /\ Len(SubSeq(Committed, 1, k)) = k
    BY <1>4, <1>5, SubSeqOf
  <2>. QED BY <1>1, <1>5, <2>1
<1>7. Store!IsPrefix(Committed', Committed)
  <2>1. SubSeq(db', 1, Len(db')) = db'
    BY <1>6, SubSeqFull
  <2>. QED BY <1>3, <1>5, <1>6, <2>1 DEF Store!IsPrefix
<1>8. acked \subseteq Range(Committed')
  <2>1. \A w \in acked' : Durable(w)'
    BY DEF Inv, Durability, Kept
  <2>2. (\A w : Durable(w) => w \in Range(Committed))'
    BY CommittedIs, PTL
  <2>. QED BY <1>2, <2>1, <2>2
<1>9. Store!Range(Committed') = Range(Committed')
  BY DEF Store!Range, Range
<1>10. /\ unlogged' \subseteq (unlogged \cup frail \cup Range(Owed)) \cap Range(db')
       /\ (unlogged \cup Range(Owed)) \cap Range(db') \subseteq unlogged'
  BY DEF Crash
<1>11. Range(Owed) = Store!Range(Owed)
  BY DEF Store!Range, Range
<1>12. Store!Crash
  BY <1>2, <1>3, <1>7, <1>8, <1>9, <1>10, <1>11 DEF Store!Crash
<1>. QED BY <1>12 DEF Store!Next

\* Every step of the pipeline is a step of the serial store or leaves it alone.
LEMMA StepImplements ==
  ASSUME Inv, Inv', [Next]_vars
  PROVE  [Store!Next]_Store!svars
<1>1. ASSUME NEW c \in Clients, StartRead(c) \/ ReadEligible(c) \/ Disconnect(c) PROVE UNCHANGED Store!svars
  BY <1>1, UnseenStart, UnseenWait DEF StartRead, Conns
<1>2. ASSUME NEW c \in Clients, NEW s \in Control, StartControl(c, s) PROVE UNCHANGED Store!svars
  BY <1>2, UnseenStart DEF StartControl, Conns
<1>3. ASSUME NEW c \in Conns, StartWrite(c) \/ Step(c) PROVE Store!Next \/ UNCHANGED Store!svars
  <2>1. CASE StartWrite(c)
    BY <2>1, UnseenStart DEF StartWrite
  <2>2. CASE \/ WaitFree(c) \/ WaitDeadline(c) \/ TakeOrder(c) \/ ExecRead(c) \/ ReadView(c) \/ Leave(c)
    BY <2>2, UnseenWait
  <2>3. CASE ExecKeptOpen(c) \/ ExecRefused(c) \/ PostBegin(c) \/ PostMark(c) \/ PostRollback(c)
    BY <2>3, UnseenAnswer
  <2>4. CASE \/ (ExecWrite(c) /\ tx.open) \/ ExecBegin(c) \/ ExecSavepoint(c) \/ ExecRelease(c) \/ ExecRollbackTo(c)
             \/ ExecRollback(c) \/ LeaveUndo(c)
    BY <2>4, UnseenInside
  <2>5. CASE PostCommit(c)
    BY <2>5, UnseenTakeover
  <2>6. CASE (ExecWrite(c) /\ ~tx.open) \/ ExecUnlogged(c) \/ ExecUnsynced(c)
    BY <2>6, SeenWrite
  <2>7. CASE ExecCommit(c)
    BY <2>7, SeenCommit
  <2>8. CASE PostWrite(c) \/ DrainForward(c)
    BY <2>8, SeenAcknowledge
  <2>9. CASE DrainJournal(c) \/ DrainFails(c)
    BY <2>9, SeenDrain
  <2>. QED BY <1>3, <2>1, <2>2, <2>3, <2>4, <2>5, <2>6, <2>7, <2>8, <2>9 DEF Step
<1>4. CASE Crash
  BY <1>4, SeenCrash
<1>5. CASE UNCHANGED vars
  BY <1>5 DEF vars, Store!svars, Committed, Owed
<1>. QED BY <1>1, <1>2, <1>3, <1>4, <1>5 DEF Next

\* The pipeline implements the serial store: one writer at a time, batches contiguous,
\* journal in commit order but for the entries that failed or a crash lost, acknowledged
\* writes permanent.
THEOREM ImplementsSerialStore ==
  ASSUME ReuseNames = FALSE
  PROVE  Spec => SerialStore
<1>1. Init => Store!Init
  BY DEF Init, Store!Init, Committed, Owed, Closed, Conns
<1>2. Inv /\ Inv' /\ [Next]_vars => [Store!Next]_Store!svars
  BY StepImplements
<1>. QED BY <1>1, <1>2, Invariant, PTL DEF Spec, SerialStore, Store!Spec
=============================================================================
