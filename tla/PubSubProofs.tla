---------------------------- MODULE PubSubProofs ----------------------------
(***************************************************************************)
(* The ordering contract of publish/subscribe and its counters, for every  *)
(* set of connections, channels and patterns and all limits.               *)
(***************************************************************************)
EXTENDS PubSub, FiniteSetTheorems, TLAPS

-----------------------------------------------------------------------------
(* The inductive invariant                                                 *)

Frames == [name : Name, id : Nat, current : BOOLEAN]

\* Ids in use: nothing is stored, owed, replayed or sent beyond the
\* autoincrement counter.
Ids == 1 .. MaxInserted

\* Shapes of the store and of the messages a writer still owes; what is owed
\* is owed in order, and by the holder of write_order.
Storing ==
    /\ limits \in Limits /\ published \in Seq(Channel) /\ MaxInserted <= MaxId /\ stored \subseteq Ids
    /\ owed \in Seq(Nat) /\ \A i \in 1 .. Len(owed) : owed[i] \in Ids
    /\ \A i, j \in 1 .. Len(owed) : i < j => owed[i] < owed[j]
    /\ order = "free" => owed = <<>>
    /\ errs \in Nat

\* Shapes of the registry, the handlers and the connections.
Serving ==
    /\ skip \in [Conn -> [Name -> Int]]
    /\ sock \in [Conn -> {"open", "closed", "gone"}]
    /\ buf \in [Conn -> Seq(Frames)] /\ got \in [Conn -> [Name -> Seq(Nat)]]
    /\ hpc \in [Conn -> {"idle", "replay", "send", "stalled", "exhausted", "exit"}]
    /\ hname \in [Conn -> Name \cup {Off}]
    /\ watermark \in [Conn -> Nat] /\ cursor \in [Conn -> Nat] /\ progress \in [Conn -> Nat]
    /\ chunk \in [Conn -> SUBSET Nat]
    /\ start \in [Conn -> [Name -> Nat]] /\ excused \in [Conn -> [Name -> SUBSET Nat]]

\* Everything in the stream of a subscription is stored already; no live push
\* owed to it can come before something it has been sent; the filter of one
\* not in replay is at a stored id.
Ahead(c, n) ==
    /\ Sent(c, n) \subseteq Ids
    /\ hname[c] # n => skip[c][n] <= MaxInserted
    /\ skip[c][n] # Off => \A k \in 1 .. Len(owed) : owed[k] > skip[c][n] => \A s \in Sent(c, n) : s < owed[k]

Ordered(c, n) ==
    /\ \A i, j \in 1 .. Len(got[c][n]) : i < j => got[c][n][i] < got[c][n][j]
    /\ \A i \in 1 .. Len(got[c][n]), j \in Coming(c, n) : got[c][n][i] < buf[c][j].id
    /\ \A i, j \in Coming(c, n) : i < j => buf[c][i].id < buf[c][j].id

\* A subscription in replay has its live pushes suppressed, unless it was
\* pruned from a dead connection, and has been sent nothing beyond progress;
\* what it sends next lies between progress and the cursor.
Replaying(c) ==
    IF hpc[c] = "idle" THEN hname[c] = Off ELSE
    /\ hname[c] \in Name
    /\ \/ skip[c][hname[c]] = Suppressed
       \/ skip[c][hname[c]] = Off /\ sock[c] # "open"
    /\ \A s \in Sent(c, hname[c]) : s <= progress[c]
    /\ progress[c] <= cursor[c] /\ watermark[c] <= MaxInserted /\ cursor[c] <= MaxInserted
    /\ hpc[c] = "send" => /\ chunk[c] # {} /\ chunk[c] \subseteq Ids
                          /\ \A i \in chunk[c] : progress[c] < i /\ i <= cursor[c]

\* While no row has been removed and no read has failed.
Whole == stored = Ids /\ errs = 0

\* What a subscription past its replay has been sent or is excused from: all
\* that it matches up to its live filter, and beyond it all that is not owed.
Wanted(c, n) == {i \in Ids : start[c][n] < i /\ Hits(n, published[i])}
NotOwed(i) == \A k \in 1 .. Len(owed) : i # owed[k]
Covered(c, n) ==
    Live(c, n) => \A i \in Wanted(c, n) :
        i <= skip[c][n] \/ NotOwed(i) => i \in Sent(c, n) \/ i \in excused[c][n]

\* What a subscription in replay has been sent: all that it matches up to the
\* cursor, but for the window it is sending or has given up.
Replayed(c) ==
    (hpc[c] # "idle" /\ sock[c] = "open") =>
        /\ hpc[c] # "exhausted"
        /\ \A i \in Wanted(c, hname[c]) : i <= cursor[c] =>
              \/ i \in Sent(c, hname[c])
              \/ hpc[c] = "send" /\ i \in chunk[c]
              \/ hpc[c] = "stalled" /\ i > progress[c]

InStep == \A c \in Conn : /\ Replaying(c)
                          /\ \A n \in Name : Ordered(c, n) /\ Ahead(c, n)
Complete == Whole => \A c \in Conn : Replayed(c) /\ \A n \in Name : Covered(c, n)

Counting == counts \in [Conn -> Nat] /\ CountsExact

IInv == Storing /\ Serving /\ InStep /\ Complete /\ Counting

-----------------------------------------------------------------------------
(* Operators of the libraries                                              *)

\* A nonempty set of naturals has a least element, and Min is it.
LEMMA Least ==
    ASSUME NEW S \in SUBSET Nat, S # {}
    PROVE Min(S) \in S /\ \A y \in S : Min(S) <= y
<1>1. \E x \in S : \A y \in S : ~(<<y, x>> \in OpToRel(<, Nat))
    BY NatLessThanWellFounded, WFMin
<1>2. PICK x \in S : \A y \in S : ~(<<y, x>> \in OpToRel(<, Nat))
    BY <1>1
<1>3. ASSUME NEW y \in S PROVE x <= y
    <2>1. x \in Nat /\ y \in Nat /\ <<y, x>>[1] = y /\ <<y, x>>[2] = x
        OBVIOUS
    <2>2. ~(y < x)
        BY <1>2, <2>1 DEF OpToRel
    <2> QED
        BY <2>1, <2>2
<1> QED
    BY <1>3 DEF Min

\* A nonempty set of naturals with an upper bound has a greatest element, and
\* Max is it.
LEMMA Greatest ==
    ASSUME NEW n \in Nat, NEW S \in SUBSET (0 .. n), S # {}
    PROVE Max(S) \in S /\ \A y \in S : y <= Max(S)
<1> DEFINE T == {n - x : x \in S}
<1>1. T \in SUBSET Nat /\ T # {}
    <2>1. \A x \in S : n - x \in Nat
        OBVIOUS
    <2> QED
        BY <2>1
<1>2. Min(T) \in T /\ \A y \in T : Min(T) <= y
    BY <1>1, Least
<1>3. PICK x \in S : Min(T) = n - x
    BY <1>2
<1>4. \A y \in S : x >= y
    <2> SUFFICES ASSUME NEW y \in S PROVE x >= y
        OBVIOUS
    <2>1. n - y \in T /\ x \in 0 .. n /\ y \in 0 .. n
        OBVIOUS
    <2>2. n - x <= n - y
        BY <1>2, <1>3, <2>1
    <2> QED
        BY <2>1, <2>2
<1>5. \E z \in S : \A y \in S : z >= y
    BY <1>4
<1>6. Max(S) \in S /\ \A y \in S : Max(S) >= y
    BY <1>5 DEF Max
<1> QED
    BY <1>6

\* SetToSeq lists every element of a finite set once.
LEMMA Listing ==
    ASSUME NEW S, IsFiniteSet(S)
    PROVE /\ SetToSeq(S) \in [1 .. Cardinality(S) -> S]
          /\ \A i, j \in 1 .. Cardinality(S) : SetToSeq(S)[i] = SetToSeq(S)[j] => i = j
          /\ \A x \in S : \E i \in 1 .. Cardinality(S) : SetToSeq(S)[i] = x
<1>1. Cardinality(S) \in Nat /\ ExistsBijection(1 .. Cardinality(S), S)
    BY FS_CardinalityType
<1>2. PICK g : g \in Bijection(1 .. Cardinality(S), S)
    BY <1>1 DEF ExistsBijection
<1>3. g \in [1 .. Cardinality(S) -> S] /\ IsInjective(g)
    BY <1>2 DEF Bijection, Injection
<1>4. SetToSeq(S) \in [1 .. Cardinality(S) -> S] /\ IsInjective(SetToSeq(S))
    BY <1>3 DEF SetToSeq
<1>5. SetToSeq(S) \in Injection(1 .. Cardinality(S), S)
    BY <1>4 DEF Injection
<1>6. IsFiniteSet(1 .. Cardinality(S)) /\ Cardinality(1 .. Cardinality(S)) = Cardinality(S)
    BY <1>1, FS_Interval
<1>7. SetToSeq(S) \in Surjection(1 .. Cardinality(S), S)
    BY <1>5, <1>6, FS_Injection
<1> QED
    BY <1>4, <1>7 DEF IsInjective, Surjection

-----------------------------------------------------------------------------
(* The counters                                                            *)

\* The subscriptions in the registry.
Registered == {cn \in Conn \X Name : skip[cn[1]][cn[2]] # Off}

Tallied ==
    /\ \A c \in Conn : counts[c] = Cardinality(Held(c))
    /\ total = Cardinality(Registered)

\* The sum of the connections' counts is the size of the registry.
LEMMA CountsAre == CountsExact <=> Tallied
<1>1. Pairs([c \in Conn |-> Held(c)]) = Registered
    <2>1. \A cn \in Conn \X Name : cn[2] \in [c \in Conn |-> Held(c)][cn[1]] <=> skip[cn[1]][cn[2]] # Off
        BY DEF Held
    <2> QED
        BY <2>1 DEF Pairs, Registered
<1> QED
    BY <1>1 DEF CountsExact, Tallied

\* Registries are finite.
LEMMA FiniteRegistry ==
    IsFiniteSet(Conn \X Name) /\ IsFiniteSet(Registered) /\ \A c : IsFiniteSet(Held(c))
<1>1. IsFiniteSet(Conn \X Name) /\ IsFiniteSet(Name)
    BY PubSubAssumption, FS_Product
<1>2. Registered \in SUBSET (Conn \X Name)
    BY DEF Registered
<1>3. \A c : Held(c) \in SUBSET Name
    BY DEF Held
<1>4. \A c : IsFiniteSet(Held(c))
    BY <1>1, <1>3, FS_Subset
<1> QED
    BY <1>1, <1>2, <1>4, FS_Subset

\* Removing subscriptions and subtracting as many keeps the counters exact.
LEMMA CountsDrop ==
    ASSUME CountsExact, NEW gone, NEW less, Unregister(gone),
           \A c \in Conn : less[c] = gone[c] \cap Held(c), Uncount(less)
    PROVE CountsExact'
<1>1. \A c \in Conn, n \in Name : skip'[c][n] = IF n \in gone[c] THEN Off ELSE skip[c][n]
    BY DEF Unregister
<1>2. ASSUME NEW c \in Conn PROVE counts'[c] = Cardinality(Held(c)')
    <2>1. Held(c)' = Held(c) \ less[c] /\ Held(c) \cap less[c] = less[c]
        BY <1>1 DEF Held
    <2>2. Cardinality(Held(c) \ less[c]) = Cardinality(Held(c)) - Cardinality(Held(c) \cap less[c])
        BY FiniteRegistry, FS_Difference
    <2>3. counts'[c] = counts[c] - Cardinality(less[c])
        BY DEF Uncount
    <2> QED
        BY <2>1, <2>2, <2>3, CountsAre DEF Tallied
<1>3. total' = Cardinality(Registered')
    <2>1. Registered' = Registered \ Pairs(less) /\ Registered \cap Pairs(less) = Pairs(less)
        <3>1. \A cn \in Conn \X Name : cn[1] \in Conn /\ cn[2] \in Name
            OBVIOUS
        <3>2. \A c \in Conn : less[c] = {n \in gone[c] : n \in Name /\ skip[c][n] # Off}
            BY DEF Held
        <3> QED
            BY <1>1, <3>1, <3>2 DEF Registered, Pairs
    <2>2. Cardinality(Registered \ Pairs(less)) = Cardinality(Registered) - Cardinality(Registered \cap Pairs(less))
        BY FiniteRegistry, FS_Difference
    <2>3. total' = total - Cardinality(Pairs(less))
        BY DEF Uncount
    <2> QED
        BY <2>1, <2>2, <2>3, CountsAre DEF Tallied
<1>4. CountsExact' <=> Tallied'
    BY CountsAre, PTL
<1> QED
    BY <1>2, <1>3, <1>4 DEF Tallied

\* Steps that leave the set of subscriptions alone.
LEMMA CountsSame ==
    ASSUME CountsExact, UNCHANGED <<counts, total>>,
           \A c \in Conn, n \in Name : skip'[c][n] = Off <=> skip[c][n] = Off
    PROVE CountsExact'
<1>1. \A c \in Conn : Held(c)' = Held(c)
    BY DEF Held
<1>2. Registered' = Registered
    <2>1. \A cn \in Conn \X Name : skip'[cn[1]][cn[2]] = Off <=> skip[cn[1]][cn[2]] = Off
        OBVIOUS
    <2> QED
        BY <2>1 DEF Registered
<1>4. CountsExact' <=> Tallied'
    BY CountsAre, PTL
<1> QED
    BY <1>1, <1>2, <1>4, CountsAre DEF Tallied

\* register counts a new subscription once and a replaced one not again.
LEMMA CountsAdd ==
    ASSUME CountsExact, Serving, counts \in [Conn -> Nat], NEW c \in Conn, NEW n \in Name, Count(c, n),
           NEW v \in Int, v # Off, skip' = [skip EXCEPT ![c][n] = v]
    PROVE CountsExact'
<1>1. /\ skip'[c][n] = v
      /\ \A d \in Conn, m \in Name : d # c \/ m # n => skip'[d][m] = skip[d][m]
    BY DEF Serving
<1>2. CASE n \in Held(c)
    BY <1>1, <1>2, CountsSame DEF Count, Held
<1>3. CASE n \notin Held(c)
    <2>1. counts' = [counts EXCEPT ![c] = @ + 1] /\ total' = total + 1
        BY <1>3 DEF Count
    <2>2. Held(c)' = Held(c) \cup {n} /\ \A d \in Conn \ {c} : Held(d)' = Held(d)
        BY <1>1 DEF Held
    <2>3. Cardinality(Held(c) \cup {n}) = Cardinality(Held(c)) + 1
        BY <1>3, FiniteRegistry, FS_AddElement
    <2>4. Registered' = Registered \cup {<<c, n>>} /\ <<c, n>> \notin Registered
        <3>1. <<c, n>> \in Conn \X Name /\ <<c, n>>[1] = c /\ <<c, n>>[2] = n
            OBVIOUS
        <3>2. \A cn \in Conn \X Name : cn # <<c, n>> => skip'[cn[1]][cn[2]] = skip[cn[1]][cn[2]]
            BY <1>1
        <3> QED
            BY <1>1, <1>3, <3>1, <3>2 DEF Registered, Held
    <2>5. Cardinality(Registered \cup {<<c, n>>}) = Cardinality(Registered) + 1
        BY <2>4, FiniteRegistry, FS_AddElement
    <2>6. \A d \in Conn : counts'[d] = Cardinality(Held(d)')
        BY <2>1, <2>2, <2>3, CountsAre DEF Tallied
    <2>7. total' = Cardinality(Registered')
        BY <2>1, <2>4, <2>5, CountsAre DEF Tallied
    <2>8. CountsExact' <=> Tallied'
        BY CountsAre, PTL
    <2> QED
        BY <2>6, <2>7, <2>8 DEF Tallied
<1> QED
    BY <1>2, <1>3

\* remove_conn subtracts what the connection held.
LEMMA CountsRemove ==
    ASSUME CountsExact, counts \in [Conn -> Nat], NEW c \in Conn,
           Unregister([d \in Conn |-> IF d = c THEN Name ELSE {}]),
           total' = total - Cardinality(Held(c)), counts' = [counts EXCEPT ![c] = 0]
    PROVE CountsExact'
<1>1. \A d \in Conn, n \in Name : skip'[d][n] = IF d = c THEN Off ELSE skip[d][n]
    BY DEF Unregister
<1>2. Held(c)' = {} /\ \A d \in Conn \ {c} : Held(d)' = Held(d)
    BY <1>1 DEF Held
<1>3. Cardinality({}) = 0
    BY FS_EmptySet
<1>4. \A d \in Conn : counts'[d] = Cardinality(Held(d)')
    BY <1>2, <1>3, CountsAre DEF Tallied
<1> DEFINE mine == {c} \X Held(c)
<1>5. Registered' = Registered \ mine /\ Registered \cap mine = mine
    <2>1. \A cn \in Conn \X Name : cn[1] \in Conn /\ cn[2] \in Name /\ (cn \in mine <=> cn[1] = c /\ skip[c][cn[2]] # Off)
        BY DEF Held
    <2>2. mine \subseteq Conn \X Name
        BY DEF Held
    <2> HIDE DEF mine
    <2>3. \A cn \in Conn \X Name : skip'[cn[1]][cn[2]] = IF cn[1] = c THEN Off ELSE skip[cn[1]][cn[2]]
        BY <1>1
    <2> QED
        BY <2>1, <2>2, <2>3 DEF Registered
<1>6. Cardinality(mine) = Cardinality(Held(c))
    <2>1. IsFiniteSet({c}) /\ Cardinality({c}) = 1 /\ IsFiniteSet(Held(c))
        BY FS_Singleton, FiniteRegistry
    <2>2. Cardinality(mine) = Cardinality({c}) * Cardinality(Held(c))
        BY <2>1, FS_Product
    <2>3. Cardinality(Held(c)) \in Nat
        BY <2>1, FS_CardinalityType
    <2> QED
        BY <2>1, <2>2, <2>3
<1> HIDE DEF mine
<1>7. Cardinality(Registered \ mine) = Cardinality(Registered) - Cardinality(Registered \cap mine)
    BY FiniteRegistry, FS_Difference
<1>8. total' = Cardinality(Registered')
    BY <1>5, <1>6, <1>7, CountsAre DEF Tallied
<1>9. CountsExact' <=> Tallied'
    BY CountsAre, PTL
<1> QED
    BY <1>4, <1>8, <1>9 DEF Tallied

-----------------------------------------------------------------------------
(* The stream of a subscription                                            *)

\* Frames of other subscriptions, confirmations and frames that are no longer
\* current do not count.
LEMMA StreamSame ==
    ASSUME NEW c, NEW n, got'[c][n] = got[c][n], Coming(c, n)' = Coming(c, n),
           \A i \in Coming(c, n) : buf'[c][i].id = buf[c][i].id
    PROVE Sent(c, n)' = Sent(c, n) /\ (Ordered(c, n)' <=> Ordered(c, n))
<1>1. Sent(c, n)' = Sent(c, n)
    BY DEF Sent
<1>2. Ordered(c, n)' <=> Ordered(c, n)
    BY DEF Ordered
<1> QED
    BY <1>1, <1>2

\* One more frame with a greater id.
LEMMA StreamSends ==
    ASSUME NEW c, NEW n, NEW k \in Nat, NEW id \in Nat, got'[c][n] = got[c][n],
           Coming(c, n)' = Coming(c, n) \cup {k}, buf'[c][k].id = id,
           \A i \in Coming(c, n) : i < k /\ buf'[c][i].id = buf[c][i].id,
           Ordered(c, n), Sent(c, n) \subseteq Nat, \A s \in Sent(c, n) : s < id
    PROVE Sent(c, n)' = Sent(c, n) \cup {id} /\ Ordered(c, n)'
<1>1. Sent(c, n)' = Sent(c, n) \cup {id}
    BY DEF Sent
<1>2. /\ \A i \in 1 .. Len(got[c][n]) : got[c][n][i] < id
      /\ \A i \in Coming(c, n) : buf[c][i].id < id
    BY DEF Sent
<1>3. \A i, j \in 1 .. Len(got'[c][n]) : i < j => got'[c][n][i] < got'[c][n][j]
    BY DEF Ordered
<1>4. \A i \in 1 .. Len(got'[c][n]), j \in Coming(c, n)' : got'[c][n][i] < buf'[c][j].id
    BY <1>2 DEF Ordered
<1>5. ASSUME NEW i \in Coming(c, n)', NEW j \in Coming(c, n)', i < j PROVE buf'[c][i].id < buf'[c][j].id
    <2>1. i \in Nat /\ j \in Nat
        BY DEF Coming
    <2>2. i # k
        BY <1>5, <2>1
    <2>3. CASE j = k
        BY <1>2, <2>2, <2>3
    <2>4. CASE j # k
        BY <1>5, <2>2, <2>4 DEF Ordered
    <2> QED
        BY <2>3, <2>4
<1> QED
    BY <1>1, <1>3, <1>4, <1>5 DEF Ordered

\* A new session begins with an empty stream.
LEMMA StreamEmpty ==
    ASSUME NEW c, NEW n, got'[c][n] = <<>>, Coming(c, n)' = {}
    PROVE Sent(c, n)' = {} /\ Ordered(c, n)'
BY DEF Sent, Ordered

\* A closed channel loses what it held.
LEMMA StreamCloses ==
    ASSUME NEW c, NEW n, got'[c][n] = got[c][n], Coming(c, n)' = {}, Ordered(c, n)
    PROVE Sent(c, n)' \subseteq Sent(c, n) /\ Ordered(c, n)'
BY DEF Sent, Ordered

\* The writer task moves the oldest frame from the channel to the client.
LEMMA StreamReceives ==
    ASSUME Serving, NEW c \in Conn, NEW n \in Name, buf[c] # <<>>, Ordered(c, n),
           Sent(c, n) \subseteq Nat,
           buf'[c] = Tail(buf[c]),
           got'[c][n] = IF 1 \in Coming(c, n) THEN Append(got[c][n], buf[c][1].id) ELSE got[c][n]
    PROVE Sent(c, n)' = Sent(c, n) /\ Ordered(c, n)'
<1> DEFINE b == buf[c]  g == got[c][n]
<1>1. b \in Seq(Frames) /\ g \in Seq(Nat) /\ Len(b) \in Nat /\ Len(g) \in Nat /\ Len(b) > 0
    BY DEF Serving
<1>2. Len(buf'[c]) = Len(b) - 1 /\ \A i \in 1 .. Len(b) - 1 : buf'[c][i] = b[i + 1]
    BY <1>1
<1>3. \A i \in Nat : i \in Coming(c, n)' <=> i \in 1 .. Len(b) - 1 /\ i + 1 \in Coming(c, n)
    BY <1>1, <1>2 DEF Coming
<1>4. Coming(c, n) \subseteq 1 .. Len(b) /\ Coming(c, n)' \subseteq 1 .. Len(b) - 1
    BY <1>1, <1>2 DEF Coming
<1>5. \A i \in Coming(c, n)' : i + 1 \in Coming(c, n) /\ buf'[c][i].id = b[i + 1].id
    BY <1>2, <1>3, <1>4
<1>6. \A i \in Coming(c, n) : i = 1 \/ (i - 1 \in Coming(c, n)' /\ buf'[c][i - 1].id = b[i].id)
    <2> SUFFICES ASSUME NEW i \in Coming(c, n), i # 1 PROVE i - 1 \in Coming(c, n)' /\ buf'[c][i - 1].id = b[i].id
        OBVIOUS
    <2>1. i - 1 \in 1 .. Len(b) - 1 /\ (i - 1) + 1 = i
        BY <1>1, <1>4
    <2> QED
        BY <2>1, <1>2, <1>3
<1> HIDE DEF b
<1>7. CASE 1 \in Coming(c, n)
    <2>1. b[1].id \in Nat /\ b[1].id \in Sent(c, n)
        BY <1>7 DEF Sent, b
    <2>2. /\ Len(got'[c][n]) = Len(g) + 1 /\ got'[c][n][Len(g) + 1] = b[1].id
          /\ \A i \in 1 .. Len(g) : got'[c][n][i] = g[i]
        BY <1>1, <1>7, <2>1 DEF b
    <2>3. Sent(c, n)' = Sent(c, n)
        <3>1. ASSUME NEW s \in Sent(c, n) PROVE s \in Sent(c, n)'
            <4>1. CASE \E i \in 1 .. Len(g) : s = g[i]
                <5> PICK i \in 1 .. Len(g) : s = g[i]
                    BY <4>1
                <5>1. i \in 1 .. Len(got'[c][n]) /\ got'[c][n][i] = s
                    BY <1>1, <2>2
                <5> QED
                    BY <5>1 DEF Sent
            <4>2. CASE \E i \in Coming(c, n) : s = b[i].id
                <5> PICK i \in Coming(c, n) : s = b[i].id
                    BY <4>2
                <5>1. CASE i = 1
                    <6>1. Len(g) + 1 \in 1 .. Len(got'[c][n]) /\ got'[c][n][Len(g) + 1] = s
                        BY <5>1, <1>1, <2>2
                    <6> QED
                        BY <6>1 DEF Sent
                <5>2. CASE i # 1
                    BY <5>2, <1>6 DEF Sent
                <5> QED
                    BY <5>1, <5>2
            <4> QED
                BY <4>1, <4>2 DEF Sent, b
        <3>2. ASSUME NEW s \in Sent(c, n)' PROVE s \in Sent(c, n)
            <4>1. CASE \E i \in 1 .. Len(got'[c][n]) : s = got'[c][n][i]
                <5> PICK i \in 1 .. Len(got'[c][n]) : s = got'[c][n][i]
                    BY <4>1
                <5>1. i \in 1 .. Len(g) \/ i = Len(g) + 1
                    BY <1>1, <2>2
                <5> QED
                    BY <5>1, <2>1, <2>2 DEF Sent
            <4>2. CASE \E i \in Coming(c, n)' : s = buf'[c][i].id
                BY <4>2, <1>5 DEF Sent, b
            <4> QED
                BY <4>1, <4>2 DEF Sent
        <3> QED
            BY <3>1, <3>2
    <2>4. /\ \A i \in 1 .. Len(g) : g[i] < b[1].id
          /\ \A j \in Coming(c, n) : j # 1 => b[1].id < b[j].id
        BY <1>4, <1>1, <1>7 DEF Ordered, b
    <2>5. \A i, j \in 1 .. Len(got'[c][n]) : i < j => got'[c][n][i] < got'[c][n][j]
        <3> SUFFICES ASSUME NEW i \in 1 .. Len(got'[c][n]), NEW j \in 1 .. Len(got'[c][n]), i < j
                     PROVE got'[c][n][i] < got'[c][n][j]
            OBVIOUS
        <3> PICK k \in Nat : k = Len(g)
            BY <1>1
        <3>0. i \in Int /\ j \in Int /\ 1 <= i /\ j <= k + 1
            BY <2>2
        <3>1. i \in 1 .. k /\ (j \in 1 .. k \/ j = k + 1)
            BY ONLY <3>0, i < j, k \in Nat
        <3> QED
            BY <3>1, <2>2, <2>4 DEF Ordered
    <2>6. ASSUME NEW i \in 1 .. Len(got'[c][n]), NEW j \in Coming(c, n)' PROVE got'[c][n][i] < buf'[c][j].id
        <3>1. j + 1 \in Coming(c, n) /\ buf'[c][j].id = b[j + 1].id /\ j + 1 # 1
            <4>1. j \in Int /\ j >= 1
                BY <1>1, <1>4
            <4>2. j + 1 \in Coming(c, n) /\ buf'[c][j].id = b[j + 1].id
                BY <1>5
            <4>3. j + 1 # 1
                BY <4>1
            <4> QED
                BY <4>2, <4>3
        <3>2. i \in 1 .. Len(g) \/ i = Len(g) + 1
            BY <1>1, <2>2
        <3> QED
            BY <3>1, <3>2, <2>2, <2>4 DEF Ordered, b
    <2>7. ASSUME NEW i \in Coming(c, n)', NEW j \in Coming(c, n)', i < j PROVE buf'[c][i].id < buf'[c][j].id
        <3>1. i + 1 < j + 1
            BY <1>4, <2>7
        <3> QED
            BY <3>1, <1>5 DEF Ordered, b
    <2> QED
        BY <2>3, <2>5, <2>6, <2>7 DEF Ordered
<1>8. CASE 1 \notin Coming(c, n)
    <2>1. Sent(c, n)' = Sent(c, n)
        <3>1. \A i \in Coming(c, n) : i - 1 \in Coming(c, n)' /\ buf'[c][i - 1].id = b[i].id
            BY <1>6, <1>8
        <3>2. {buf'[c][i].id : i \in Coming(c, n)'} = {buf[c][i].id : i \in Coming(c, n)}
            <4>1. \A i \in Coming(c, n)' : buf'[c][i].id \in {buf[c][k].id : k \in Coming(c, n)}
                BY <1>5 DEF b
            <4>2. ASSUME NEW i \in Coming(c, n) PROVE buf[c][i].id \in {buf'[c][k].id : k \in Coming(c, n)'}
                BY <3>1 DEF b
            <4> QED
                BY <4>1, <4>2
        <3> QED
            BY <3>2, <1>8 DEF Sent
    <2>2. ASSUME NEW i \in Coming(c, n)', NEW j \in Coming(c, n)', i < j PROVE buf'[c][i].id < buf'[c][j].id
        <3>1. i + 1 < j + 1
            BY <1>4, <2>2
        <3> QED
            BY <3>1, <1>5 DEF Ordered, b
    <2>3. \A i \in 1 .. Len(got'[c][n]), j \in Coming(c, n)' : got'[c][n][i] < buf'[c][j].id
        BY <1>5, <1>8 DEF Ordered, b
    <2>4. \A i, j \in 1 .. Len(got'[c][n]) : i < j => got'[c][n][i] < got'[c][n][j]
        BY <1>8 DEF Ordered
    <2> QED
        BY <2>1, <2>2, <2>3, <2>4 DEF Ordered
<1> QED
    BY <1>7, <1>8

-----------------------------------------------------------------------------
(* Steps of the store                                                      *)

\* The parts of the invariant about one connection.
Fine(c) == Replaying(c) /\ \A n \in Name : Ordered(c, n) /\ Ahead(c, n)
Full(c) == Replayed(c) /\ \A n \in Name : Covered(c, n)

\* The step leaves the connection d alone.
Kept(d) ==
    /\ skip'[d] = skip[d] /\ buf'[d] = buf[d] /\ got'[d] = got[d] /\ sock'[d] = sock[d]
    /\ hpc'[d] = hpc[d] /\ hname'[d] = hname[d] /\ watermark'[d] = watermark[d]
    /\ cursor'[d] = cursor[d] /\ progress'[d] = progress[d] /\ chunk'[d] = chunk[d]
    /\ start'[d] = start[d] /\ excused'[d] = excused[d]

\* The stream of a connection left alone is the same.
LEMMA KeptStream ==
    ASSUME NEW d, Kept(d), NEW n
    PROVE /\ Sent(d, n)' = Sent(d, n) /\ (Ordered(d, n)' <=> Ordered(d, n))
          /\ Held(d)' = Held(d) /\ (Live(d, n)' <=> Live(d, n))
<1>1. Coming(d, n)' = Coming(d, n)
    BY DEF Coming, Kept
<1>2. Sent(d, n)' = Sent(d, n) /\ (Ordered(d, n)' <=> Ordered(d, n))
    BY <1>1, StreamSame DEF Kept
<1>3. Held(d)' = Held(d)
    BY DEF Held, Kept
<1> QED
    BY <1>2, <1>3 DEF Live, Kept

\* A connection left alone, nothing published and nothing notified.
LEMMA KeptConn ==
    ASSUME NEW d, Kept(d), UNCHANGED <<published, owed, limits>>
    PROVE (Fine(d)' <=> Fine(d)) /\ (Full(d)' <=> Full(d))
<1>1. /\ MaxInserted' = MaxInserted /\ Ids' = Ids /\ Suppressed' = Suppressed
      /\ \A i : NotOwed(i)' <=> NotOwed(i)
    BY DEF MaxInserted, Ids, Suppressed, MaxId, NotOwed
<1>2. \A n : Wanted(d, n)' = Wanted(d, n)
    BY <1>1 DEF Wanted, Kept
<1>3. Replaying(d)' <=> Replaying(d)
    BY <1>1, KeptStream DEF Replaying, Kept
<1>4. ASSUME NEW n PROVE Ahead(d, n)' <=> Ahead(d, n)
    BY <1>1, KeptStream DEF Ahead, Kept
<1>5. Replayed(d)' <=> Replayed(d)
    BY <1>2, KeptStream DEF Replayed, Kept
<1>6. ASSUME NEW n PROVE Covered(d, n)' <=> Covered(d, n)
    BY <1>1, <1>2, KeptStream DEF Covered, Kept
<1> QED
    BY <1>3, <1>4, <1>5, <1>6, KeptStream DEF Fine, Full

\* The limits of a server are naturals and stay as they are.
LEMMA LimitTypes ==
    ASSUME Storing
    PROVE /\ MaxId \in Nat /\ Depth \in Nat \ {0} /\ Chunk \in Nat \ {0} /\ Keeps \subseteq Nat \ {0}
          /\ MaxInserted \in Nat /\ Suppressed \in Nat /\ MaxInserted < Suppressed /\ 0 <= MaxInserted
          /\ limits.conns \subseteq Conn /\ limits.names \subseteq Name /\ limits.channels \subseteq Channel
<1>1. /\ limits.id \in Nat /\ limits.depth \in Nat \ {0} /\ limits.chunk \in Nat \ {0}
      /\ limits.keeps \subseteq Nat \ {0} /\ limits.conns \subseteq Conn /\ limits.names \subseteq Name
      /\ limits.channels \subseteq Channel
    BY PubSubAssumption DEF Storing
<1>2. MaxInserted \in Nat
    BY DEF Storing, MaxInserted
<1> QED
    BY <1>1, <1>2 DEF Storing, MaxId, Depth, Chunk, Keeps, Suppressed

\* A message is appended to the store and to what is owed.
LEMMA InsertStep ==
    ASSUME Storing, InStep, Complete, Serving, NEW ch \in Channel, NEW keep \in Nat \ {0}, Insert(ch, keep),
           \A d \in Conn : Kept(d), limits' = limits,
           \/ owed' = Append(owed, MaxInserted + 1) /\ errs' = errs
           \/ owed' = owed /\ errs' = errs + 1,
           order' = "free" => owed' = <<>>
    PROVE Storing' /\ InStep' /\ Complete'
<1> PICK new : new = MaxInserted + 1
    OBVIOUS
<1>1. /\ MaxInserted \in Nat /\ MaxInserted < MaxId /\ MaxId \in Nat /\ MaxId' = MaxId
      /\ Suppressed' = Suppressed /\ Len(owed) \in Nat
    BY LimitTypes DEF Insert, MaxId, Suppressed, Storing
<1>2. /\ published' \in Seq(Channel) /\ MaxInserted' = new
      /\ \A i \in Ids : published'[i] = published[i]
    BY DEF Insert, Storing, MaxInserted, Ids
<1>3. Ids' = Ids \cup {new} /\ new \notin Ids
    BY <1>1, <1>2 DEF Ids
<1>4. /\ owed' \in Seq(Nat) /\ Len(owed') \in Nat
      /\ \/ Len(owed') = Len(owed) + 1 /\ owed'[Len(owed')] = new
         \/ Len(owed') = Len(owed)
      /\ Len(owed) <= Len(owed') /\ \A i \in 1 .. Len(owed) : owed'[i] = owed[i]
    <2>1. owed \in Seq(Nat) /\ new \in Nat
        BY <1>1 DEF Storing
    <2>2. CASE owed' = owed
        BY <2>1, <2>2, <1>1
    <2>3. CASE owed' = Append(owed, new)
        <3>1. Len(owed') = Len(owed) + 1 /\ owed' \in Seq(Nat)
            BY <2>1, <2>3
        <3>2. owed'[Len(owed) + 1] = new /\ \A i \in 1 .. Len(owed) : owed'[i] = owed[i]
            BY <2>1, <2>3
        <3> QED
            BY <3>1, <3>2, <1>1
    <2> QED
        BY <2>2, <2>3
<1>5. \A i \in 1 .. Len(owed') : i \in 1 .. Len(owed) \/ (i = Len(owed) + 1 /\ owed'[i] = new)
    BY <1>1, <1>4
<1>6. Storing'
    <2>1. stored' \subseteq Ids'
        BY <1>3 DEF Insert, Storing
    <2>2. \A i \in 1 .. Len(owed') : owed'[i] \in Ids'
        BY <1>3, <1>4, <1>5 DEF Storing
    <2>3. ASSUME NEW i \in 1 .. Len(owed'), NEW j \in 1 .. Len(owed'), i < j PROVE owed'[i] < owed'[j]
        <3>1. i \in 1 .. Len(owed)
            BY <1>1, <1>5, <2>3
        <3>2. CASE j \in 1 .. Len(owed)
            BY <3>1, <3>2, <1>4, <2>3 DEF Storing
        <3>3. CASE owed'[j] = new
            <4>1. owed'[i] = owed[i] /\ owed[i] \in Ids
                BY <3>1, <1>4 DEF Storing
            <4> QED
                BY <4>1, <3>3, <1>1 DEF Ids
        <3> QED
            BY <3>2, <3>3, <1>5
    <2>4. errs' \in Nat /\ MaxInserted' <= MaxId'
        BY <1>1, <1>2 DEF Storing
    <2>5. limits' \in Limits
        BY DEF Storing
    <2> QED
        BY <1>2, <1>4, <2>1, <2>2, <2>3, <2>4, <2>5 DEF Storing
<1>7. InStep'
    <2> SUFFICES ASSUME NEW c \in Conn PROVE Replaying(c)' /\ \A n \in Name : Ordered(c, n)' /\ Ahead(c, n)'
        BY DEF InStep
    <2>1. Kept(c)
        OBVIOUS
    <2>2. Replaying(c)'
        <3>1. Replaying(c)
            BY DEF InStep
        <3>2. MaxInserted <= MaxInserted'
            BY <1>1, <1>2
        <3>3. hpc[c] # "idle" => watermark[c] <= MaxInserted' /\ cursor[c] <= MaxInserted'
            BY <3>1, <1>1, <1>2 DEF Replaying, Serving
        <3> QED
            BY <2>1, <3>1, <3>3, <1>1, <1>3, KeptStream DEF Kept, Replaying
    <2>3. ASSUME NEW n \in Name PROVE Ordered(c, n)' /\ Ahead(c, n)'
        <3>1. Ordered(c, n) /\ Ahead(c, n)
            BY DEF InStep
        <3>2. Sent(c, n)' = Sent(c, n) /\ Sent(c, n) \subseteq Ids /\ Ordered(c, n)'
            BY <2>1, <3>1, KeptStream DEF Ahead
        <3>3. \A s \in Sent(c, n) : s < new
            BY <3>2, <1>1 DEF Ids
        <3>4. hname[c] # n => skip[c][n] <= MaxInserted'
            BY <3>1, <1>1, <1>2 DEF Ahead, Serving
        <3>5. ASSUME skip[c][n] # Off, NEW k \in 1 .. Len(owed'), owed'[k] > skip[c][n], NEW s \in Sent(c, n) PROVE s < owed'[k]
            <4>1. CASE k \in 1 .. Len(owed)
                BY <3>1, <3>5, <4>1, <1>4 DEF Ahead
            <4>2. CASE owed'[k] = new
                BY <3>3, <4>2
            <4> QED
                BY <4>1, <4>2, <1>5
        <3> QED
            BY <2>1, <3>2, <3>4, <3>5, <1>3 DEF Ahead, Kept
    <2> QED
        BY <2>2, <2>3
<1>8. Complete'
    <2> SUFFICES ASSUME Whole', NEW c \in Conn PROVE Replayed(c)' /\ \A n \in Name : Covered(c, n)'
        BY DEF Complete
    <2>1. errs' = errs /\ owed' = Append(owed, new) /\ errs = 0
        BY DEF Whole, Storing
    <2>2. Whole
        <3>1. stored' \subseteq stored \cup {new} /\ stored' = Ids \cup {new}
            BY <1>3 DEF Insert, Whole
        <3> QED
            BY <3>1, <2>1, <1>3 DEF Whole, Storing
    <2>3. Kept(c) /\ Replayed(c) /\ Replaying(c) /\ \A n \in Name : Covered(c, n) /\ Ahead(c, n)
        BY <2>2 DEF Complete, InStep
    <2>4. ASSUME NEW n PROVE Wanted(c, n)' \subseteq Wanted(c, n) \cup {new}
        BY <1>2, <1>3, <2>3 DEF Wanted, Kept
    <2>5. hpc[c] # "idle" => ~(new <= cursor[c])
        BY <2>3, <1>1 DEF Replaying, Serving
    <2>6. Replayed(c)'
        BY <2>3, <2>4, <2>5, KeptStream DEF Replayed, Kept
    <2>7. ASSUME NEW n \in Name PROVE Covered(c, n)'
        <3> SUFFICES ASSUME Live(c, n)', NEW i \in Wanted(c, n)', i <= skip'[c][n] \/ NotOwed(i)'
                     PROVE i \in Sent(c, n)' \/ i \in excused'[c][n]
            BY DEF Covered
        <3>1. Live(c, n) /\ Sent(c, n)' = Sent(c, n) /\ skip'[c][n] = skip[c][n] /\ excused'[c][n] = excused[c][n]
            BY <2>3, KeptStream DEF Kept
        <3>2. ~NotOwed(new)' /\ \A k \in 1 .. Len(owed) : k \in 1 .. Len(owed') /\ owed'[k] = owed[k]
            <4>1. Len(owed') = Len(owed) + 1 /\ owed'[Len(owed')] = new
                <5>1. owed \in Seq(Nat)
                    BY DEF Storing
                <5> QED
                    BY <5>1, <2>1, <1>1
            <4>2. Len(owed') \in 1 .. Len(owed')
                BY <4>1, <1>1
            <4>3. \A k \in 1 .. Len(owed) : k \in 1 .. Len(owed')
                BY <4>1, <1>1
            <4> QED
                BY <4>1, <4>2, <4>3, <1>4 DEF NotOwed
        <3>3. skip[c][n] <= MaxInserted /\ skip[c][n] \in Int
            BY <2>3, <3>1 DEF Ahead, Live, Serving
        <3>4. i # new
            <4> SUFFICES ASSUME i = new PROVE FALSE
                OBVIOUS
            <4>1. ~NotOwed(i)'
                BY <3>2
            <4>2. new <= skip[c][n]
                BY <4>1, <3>1
            <4> QED
                BY <4>2, <3>3, <1>1
        <3>5. NotOwed(i)' => NotOwed(i)
            BY <3>2 DEF NotOwed
        <3> QED
            BY <2>3, <2>4, <3>1, <3>4, <3>5 DEF Covered
    <2> QED
        BY <2>6, <2>7
<1> QED
    BY <1>6, <1>7, <1>8

\* TRIM only removes rows.
LEMMA TrimStep ==
    ASSUME Storing, InStep, Complete, stored' \subseteq stored, \A d \in Conn : Kept(d),
           UNCHANGED <<published, order, owed, errs, limits>>
    PROVE Storing' /\ InStep' /\ Complete'
<1>1. MaxInserted' = MaxInserted /\ Ids' = Ids /\ MaxId' = MaxId
    BY DEF MaxInserted, Ids, MaxId
<1>2. Storing'
    BY <1>1 DEF Storing
<1>3. \A c \in Conn : (Fine(c)' <=> Fine(c)) /\ (Full(c)' <=> Full(c))
    BY KeptConn
<1>4. InStep'
    BY <1>3 DEF InStep, Fine
<1>5. Whole' => Whole
    BY <1>1 DEF Whole, Storing
<1>6. Complete'
    BY <1>3, <1>5 DEF Complete, Full
<1> QED
    BY <1>2, <1>4, <1>6

-----------------------------------------------------------------------------
(* Live delivery                                                           *)

\* What notify appends to a channel: a frame of the message for each
\* subscription served, once.
LEMMA PushedFrames ==
    ASSUME Serving, NEW c \in Conn, NEW ns \in SUBSET Name, NEW id \in Nat \ {0}, NEW n \in Name,
           buf'[c] = buf[c] \o [i \in 1 .. Cardinality(ns) |-> Frame(SetToSeq(ns)[i], id)],
           got'[c][n] = got[c][n], Ordered(c, n), Sent(c, n) \subseteq Nat,
           n \in ns => \A s \in Sent(c, n) : s < id
    PROVE /\ Sent(c, n)' = Sent(c, n) \cup (IF n \in ns THEN {id} ELSE {})
          /\ Ordered(c, n)' /\ buf'[c] \in Seq(Frames)
<1> DEFINE k == Cardinality(ns)  b == buf[c]  l == SetToSeq(ns)  w == [i \in 1 .. k |-> Frame(l[i], id)]
<1>1. IsFiniteSet(ns)
    BY PubSubAssumption, FS_Subset
<1>2. k \in Nat
    BY <1>1, FS_CardinalityType
<1>3. /\ l \in [1 .. k -> ns] /\ \A i, j \in 1 .. k : l[i] = l[j] => i = j
      /\ \A x \in ns : \E i \in 1 .. k : l[i] = x
    BY <1>1, Listing
<1> HIDE DEF k, l
<1>4. w \in Seq(Frames) /\ Len(w) = k /\ \A i \in 1 .. k : w[i] = Frame(l[i], id)
    <2>1. \A i \in 1 .. k : Frame(l[i], id) \in Frames
        BY <1>3 DEF Frame, Frames
    <2> QED
        BY <1>2, <2>1
<1>5. b \in Seq(Frames) /\ Len(b) \in Nat
    BY DEF Serving
<1> HIDE DEF w, b
<1>6. /\ buf'[c] = b \o w
      /\ Len(b \o w) = Len(b) + k /\ b \o w \in Seq(Frames)
      /\ \A i \in 1 .. Len(b) : (b \o w)[i] = b[i]
      /\ \A i \in 1 .. k : (b \o w)[Len(b) + i] = w[i]
    BY <1>2, <1>4, <1>5 DEF b, w, l, k
<1>7. \A i \in 1 .. Len(b) + k : i \in 1 .. Len(b) \/ (i - Len(b) \in 1 .. k /\ i = Len(b) + (i - Len(b)))
    BY <1>2, <1>5
<1>8. \A i \in 1 .. k : /\ buf'[c][Len(b) + i].name = l[i] /\ buf'[c][Len(b) + i].id = id
                        /\ buf'[c][Len(b) + i].current
    <2> SUFFICES ASSUME NEW i \in 1 .. k
                 PROVE /\ buf'[c][Len(b) + i].name = l[i] /\ buf'[c][Len(b) + i].id = id
                       /\ buf'[c][Len(b) + i].current
        OBVIOUS
    <2>1. buf'[c][Len(b) + i] = Frame(l[i], id)
        BY <1>4, <1>6
    <2>2. Frame(l[i], id).name = l[i] /\ Frame(l[i], id).id = id /\ Frame(l[i], id).current = TRUE
        BY DEF Frame
    <2> QED
        BY <2>1, <2>2, Zenon
<1>9. \A i \in 1 .. Len(b) : i \in Coming(c, n)' <=> i \in Coming(c, n)
    <2>1. \A i \in 1 .. Len(b) : buf'[c][i] = b[i]
        BY <1>6
    <2>3. \A i \in 1 .. Len(b) : i \in 1 .. Len(b \o w)
        <3>1. Len(b \o w) = Len(b) + k
            BY <1>6
        <3> QED
            BY <1>2, <1>5, <3>1
    <2>2. buf'[c] = b \o w
        BY <1>6
    <2> QED
        BY <2>1, <2>2, <2>3 DEF Coming, b
<1>10. \A i \in 1 .. k : Len(b) + i \in Coming(c, n)' <=> l[i] = n
    <2>1. \A i \in 1 .. k : Len(b) + i \in 1 .. Len(b \o w)
        BY <1>2, <1>5, <1>6
    <2>3. buf'[c] = b \o w
        BY <1>6
    <2>2. id # 0
        OBVIOUS
    <2> QED
        BY <2>1, <2>2, <2>3, <1>8 DEF Coming
<1>11. Coming(c, n) \subseteq 1 .. Len(b) /\ Coming(c, n)' \subseteq 1 .. Len(b) + k
    BY <1>6 DEF Coming, b
<1>12. \A i \in Coming(c, n) : buf'[c][i].id = buf[c][i].id
    BY <1>6, <1>11 DEF b
<1>13. CASE n \notin ns
    <2>1. \A i \in 1 .. k : l[i] # n
        BY <1>3, <1>13
    <2>2. Coming(c, n)' = Coming(c, n)
        BY <2>1, <1>7, <1>9, <1>10, <1>11
    <2> QED
        BY <2>2, <1>6, <1>12, <1>13, StreamSame
<1>14. CASE n \in ns
    <2> PICK i \in 1 .. k : l[i] = n
        BY <1>3, <1>14
    <2>1. \A j \in 1 .. k : l[j] = n <=> j = i
        BY <1>3
    <2>2. Coming(c, n)' = Coming(c, n) \cup {Len(b) + i}
        BY <2>1, <1>7, <1>9, <1>10, <1>11
    <2>3. Len(b) + i \in Nat /\ \A j \in Coming(c, n) : j < Len(b) + i
        BY <1>2, <1>5, <1>11
    <2>4. buf'[c][Len(b) + i].id = id
        BY <1>8
    <2>5. Sent(c, n)' = Sent(c, n) \cup {id} /\ Ordered(c, n)'
        <3> PICK m \in Nat : m = Len(b) + i
            BY <2>3
        <3>1. id \in Nat /\ \A s \in Sent(c, n) : s < id
            BY <1>14
        <3>2. /\ Coming(c, n)' = Coming(c, n) \cup {m} /\ buf'[c][m].id = id
              /\ \A j \in Coming(c, n) : j < m /\ buf'[c][j].id = buf[c][j].id
            BY <2>2, <2>3, <2>4, <1>12
        <3>3. got'[c][n] = got[c][n] /\ Ordered(c, n) /\ Sent(c, n) \subseteq Nat
            OBVIOUS
        <3> QED
            BY ONLY <3>1, <3>2, <3>3, m \in Nat, StreamSends
    <2> QED
        BY <2>5, <1>6, <1>14
<1> QED
    BY <1>13, <1>14

\* notify pushes the oldest message owed: to a subscription past its replay it
\* is newer than all it has been sent; one in replay does not get it.
LEMMA NotifyStep ==
    ASSUME Storing, Serving, InStep, Complete, Notify
    PROVE Storing' /\ Serving' /\ InStep' /\ Complete'
<1> PICK id : id = Head(owed)
    OBVIOUS
<1>1. /\ Len(owed) \in Nat /\ Len(owed) > 0 /\ id = owed[1] /\ id \in Ids
      /\ owed' = Tail(owed) /\ owed' \in Seq(Nat) /\ Len(owed') = Len(owed) - 1
      /\ \A i \in 1 .. Len(owed') : i + 1 \in 1 .. Len(owed) /\ owed'[i] = owed[i + 1]
    <2>1. owed \in Seq(Nat) /\ owed # <<>>
        BY DEF Notify, Storing
    <2>2. Len(owed) \in Nat /\ Len(owed) > 0 /\ id = owed[1]
        BY <2>1
    <2>3. 1 \in 1 .. Len(owed)
        BY <2>2
    <2>4. owed' = Tail(owed)
        BY DEF Notify, Notified
    <2>5. Tail(owed) \in Seq(Nat) /\ Len(Tail(owed)) = Len(owed) - 1
        BY <2>1
    <2>6. \A i \in 1 .. Len(Tail(owed)) : i + 1 \in 1 .. Len(owed) /\ Tail(owed)[i] = owed[i + 1]
        BY <2>1, <2>2, <2>5
    <2> QED
        BY <2>2, <2>3, <2>4, <2>5, <2>6 DEF Storing
<1>2. /\ UNCHANGED <<published, stored, sock, got, hpc, hname, watermark, cursor, progress, chunk, start, errs, limits>>
      /\ order' = IF Len(owed) = 1 THEN "free" ELSE "flush"
    BY DEF Notify, Notified, handler, bounds
<1>3. /\ MaxInserted' = MaxInserted /\ Ids' = Ids /\ MaxId' = MaxId /\ Suppressed' = Suppressed
      /\ MaxInserted \in Nat /\ id \in Nat \ {0} /\ id <= MaxInserted /\ MaxInserted < Suppressed
    BY <1>1, <1>2, LimitTypes DEF MaxInserted, Ids, MaxId, Suppressed
<1> PICK fit \in [Conn -> SUBSET Name] :
        /\ \A c \in Conn : fit[c] \in Served(c, id)
        /\ buf' = [c \in Conn |->
                     buf[c] \o [i \in 1 .. Cardinality(fit[c]) |-> Frame(SetToSeq(fit[c])[i], id)]]
        /\ excused' = [c \in Conn |-> [n \in Name |->
                     excused[c][n] \cup (IF n \in Targets(c, id) \ fit[c] THEN {id} ELSE {})]]
    <2>1. Push(id)
        BY DEF Notify
    <2> QED
        BY <2>1 DEF Push
<1>4. skip' = [c \in Conn |-> [n \in Name |-> IF n \in Pruned(c, id) THEN Off ELSE skip[c][n]]]
    BY DEF Notify, Unregister
<1>5. \A c \in Conn : fit[c] \subseteq Targets(c, id)
    BY DEF Served
<1>6. \A c \in Conn, n \in Name : n \in Targets(c, id) <=> skip[c][n] # Off /\ Hits(n, published[id]) /\ id > skip[c][n]
    BY DEF Targets, Held
<1>20. ASSUME NEW c \in Conn, hpc[c] # "idle" PROVE hname[c] \in Name /\ hname[c] \notin Targets(c, id)
    <2>1. /\ hname[c] \in Name
          /\ \/ skip[c][hname[c]] = Suppressed
             \/ skip[c][hname[c]] = Off
        BY <1>20 DEF InStep, Replaying
    <2>2. Suppressed \in Int /\ id \in Int /\ ~(id > Suppressed)
        BY <1>3, LimitTypes
    <2>3. CASE skip[c][hname[c]] = Suppressed
        BY <2>1, <2>2, <2>3, <1>6
    <2>4. CASE skip[c][hname[c]] = Off
        BY <2>1, <2>4, <1>6
    <2> QED
        BY <2>1, <2>3, <2>4
<1>7. ASSUME NEW c \in Conn, NEW n \in Name
      PROVE /\ Sent(c, n)' = Sent(c, n) \cup (IF n \in fit[c] THEN {id} ELSE {})
            /\ Ordered(c, n)' /\ buf'[c] \in Seq(Frames)
    <2>1. Ordered(c, n) /\ Ahead(c, n)
        BY DEF InStep
    <2>2. Sent(c, n) \subseteq Nat
        BY <2>1 DEF Ahead, Ids
    <2>3. 1 \in 1 .. Len(owed) /\ owed[1] = id
        BY <1>1
    <2>4. n \in fit[c] => \A s \in Sent(c, n) : s < id
        BY <2>1, <2>3, <1>5, <1>6 DEF Ahead
    <2>5. buf'[c] = buf[c] \o [i \in 1 .. Cardinality(fit[c]) |-> Frame(SetToSeq(fit[c])[i], id)] /\ fit[c] \in SUBSET Name
        OBVIOUS
    <2>6. got'[c][n] = got[c][n]
        BY <1>2
    <2> QED
        BY ONLY <2>1, <2>2, <2>4, <2>5, <2>6, <1>3, Serving, c \in Conn, n \in Name, PushedFrames
<1>8. Storing'
    <2>1. order' = "free" => owed' = <<>>
        BY <1>1, <1>2
    <2>2. \A i \in 1 .. Len(owed') : owed'[i] \in Ids
        BY <1>1 DEF Storing
    <2>3. \A i, j \in 1 .. Len(owed') : i < j => owed'[i] < owed'[j]
        <3> SUFFICES ASSUME NEW i \in 1 .. Len(owed'), NEW j \in 1 .. Len(owed'), i < j PROVE owed'[i] < owed'[j]
            OBVIOUS
        <3>1. i + 1 < j + 1
            BY <1>1
        <3> QED
            BY <3>1, <1>1 DEF Storing
    <2> QED
        BY <1>1, <1>2, <1>3, <2>1, <2>2, <2>3 DEF Storing
<1>9. Serving'
    <2>1. buf' \in [Conn -> Seq(Frames)]
        <3>1. CASE Name = {}
            <4>1. \A c \in Conn : fit[c] = {}
                BY <3>1
            <4>2. Cardinality({}) = 0
                BY FS_EmptySet
            <4>3. \A c \in Conn : buf[c] \in Seq(Frames)
                BY DEF Serving
            <4>4. \A c \in Conn : buf[c] \o [i \in 1 .. Cardinality(fit[c]) |-> Frame(SetToSeq(fit[c])[i], id)] \in Seq(Frames)
                <5>1. ASSUME NEW c \in Conn, NEW w, w = [i \in 1 .. Cardinality(fit[c]) |-> Frame(SetToSeq(fit[c])[i], id)]
                      PROVE buf[c] \o w \in Seq(Frames)
                    <6>1. w = [i \in 1 .. 0 |-> Frame(SetToSeq(fit[c])[i], id)]
                        BY <4>1, <4>2, <5>1
                    <6>2. w \in Seq(Frames)
                        BY <6>1
                    <6> QED
                        BY <4>3, <6>2
                <5> QED
                    BY <5>1
            <4> QED
                BY <4>4
        <3>2. CASE Name # {}
            BY <3>2, <1>7
        <3> QED
            BY <3>1, <3>2
    <2>2. skip' \in [Conn -> [Name -> Int]]
        <3>1. \A c \in Conn, n \in Name : (IF n \in Pruned(c, id) THEN Off ELSE skip[c][n]) \in Int
            BY DEF Serving, Off
        <3> QED
            BY <3>1, <1>4
    <2>3. excused' \in [Conn -> [Name -> SUBSET Nat]]
        <3>1. \A c \in Conn, n \in Name : excused[c][n] \cup (IF n \in Targets(c, id) \ fit[c] THEN {id} ELSE {}) \in SUBSET Nat
            BY <1>3 DEF Serving
        <3> QED
            BY <3>1
    <2> QED
        BY <1>2, <2>1, <2>2, <2>3 DEF Serving
<1>10. \A c \in Conn, n \in Name : skip'[c][n] = IF n \in Pruned(c, id) THEN Off ELSE skip[c][n]
    BY <1>4
<1>11. InStep'
    <2> SUFFICES ASSUME NEW c \in Conn PROVE Replaying(c)' /\ \A n \in Name : Ordered(c, n)' /\ Ahead(c, n)'
        BY DEF InStep
    <2>1. Replaying(c)'
        <3>1. Replaying(c)
            BY DEF InStep
        <3>2. CASE hpc[c] = "idle"
            BY <3>1, <3>2, <1>2 DEF Replaying
        <3>3. CASE hpc[c] # "idle"
            <4>1. hname[c] \in Name /\ hname[c] \notin Targets(c, id)
                BY <3>3, <1>20
            <4>2. skip'[c][hname[c]] = skip[c][hname[c]]
                BY <4>1, <1>10 DEF Pruned
            <4> PICK n \in Name : n = hname[c]
                BY <4>1
            <4>3. Sent(c, n)' = Sent(c, n)
                BY <4>1, <1>5, <1>7
            <4>4. /\ hpc'[c] = hpc[c] /\ hname'[c] = n /\ sock'[c] = sock[c] /\ progress'[c] = progress[c]
                  /\ cursor'[c] = cursor[c] /\ watermark'[c] = watermark[c] /\ chunk'[c] = chunk[c]
                BY <1>2
            <4> QED
                BY <3>1, <3>3, <4>2, <4>3, <4>4, <1>3 DEF Replaying
        <3> QED
            BY <3>2, <3>3
    <2>2. ASSUME NEW n \in Name PROVE Ahead(c, n)'
        <3>1. Ahead(c, n)
            BY DEF InStep
        <3>2. Sent(c, n)' \subseteq Ids'
            <4>1. Sent(c, n)' \subseteq Sent(c, n) \cup {id}
                BY <1>7
            <4>2. Sent(c, n) \subseteq Ids /\ id \in Ids /\ Ids' = Ids
                BY <3>1, <1>1, <1>3 DEF Ahead
            <4> QED
                BY <4>1, <4>2
        <3>3. hname'[c] # n => skip'[c][n] <= MaxInserted'
            BY <3>1, <1>2, <1>3, <1>10 DEF Ahead, Off
        <3>4. ASSUME skip'[c][n] # Off, NEW k \in 1 .. Len(owed'), owed'[k] > skip'[c][n], NEW s \in Sent(c, n)' PROVE s < owed'[k]
            <4>1. skip'[c][n] = skip[c][n]
                BY <3>4, <1>10
            <4>2. k + 1 \in 1 .. Len(owed) /\ owed'[k] = owed[k + 1] /\ 1 \in 1 .. Len(owed) /\ 1 < k + 1
                BY <1>1
            <4>3. id < owed'[k]
                BY <4>2, <1>1 DEF Storing
            <4>4. s \in Sent(c, n) => s < owed'[k]
                BY <3>1, <3>4, <4>1, <4>2 DEF Ahead
            <4>5. s \in Sent(c, n) \/ s = id
                BY <1>7
            <4> QED
                BY <4>3, <4>4, <4>5
        <3> QED
            BY <3>2, <3>3, <3>4 DEF Ahead
    <2> QED
        BY <2>1, <2>2, <1>7
<1>12. Complete'
    <2> SUFFICES ASSUME Whole', NEW c \in Conn PROVE Replayed(c)' /\ \A n \in Name : Covered(c, n)'
        BY DEF Complete
    <2>1. Whole
        BY <1>2, <1>3 DEF Whole
    <2>2. Replayed(c) /\ Replaying(c) /\ \A n \in Name : Covered(c, n)
        BY <2>1 DEF Complete, InStep
    <2>3. ASSUME NEW n PROVE Wanted(c, n)' = Wanted(c, n)
        BY <1>2, <1>3 DEF Wanted
    <2>4. Replayed(c)'
        <3> SUFFICES ASSUME hpc[c] # "idle", sock[c] = "open" PROVE Replayed(c)'
            BY <1>2 DEF Replayed
        <3> PICK n \in Name : n = hname[c]
            BY <2>2 DEF Replaying
        <3>1. Sent(c, n)' = Sent(c, n)
            BY <1>20, <1>5, <1>7
        <3>2. /\ hpc'[c] = hpc[c] /\ hname'[c] = n /\ sock'[c] = sock[c] /\ progress'[c] = progress[c]
              /\ cursor'[c] = cursor[c] /\ chunk'[c] = chunk[c]
            BY <1>2
        <3> QED
            BY <2>2, <2>3, <3>1, <3>2 DEF Replayed
    <2>5. ASSUME NEW n \in Name PROVE Covered(c, n)'
        <3> SUFFICES ASSUME Live(c, n)', NEW i \in Wanted(c, n)', i <= skip'[c][n] \/ NotOwed(i)'
                     PROVE i \in Sent(c, n)' \/ i \in excused'[c][n]
            BY DEF Covered
        <3>1. c \notin Dead
            BY <1>2 DEF Live, Dead
        <3>2. skip'[c][n] = skip[c][n]
            BY <3>1, <1>10 DEF Pruned
        <3>3. Live(c, n) /\ skip[c][n] # Off
            BY <3>2, <1>2 DEF Live, Held
        <3>4. Sent(c, n) \subseteq Sent(c, n)' /\ excused[c][n] \subseteq excused'[c][n]
            BY <1>7
        <3>5. i \in Wanted(c, n)
            BY <2>3
        <3>6. CASE i <= skip[c][n] \/ NotOwed(i)
            BY <2>2, <3>3, <3>4, <3>5, <3>6 DEF Covered
        <3>7. CASE ~(i <= skip[c][n]) /\ ~NotOwed(i)
            <4> PICK k \in 1 .. Len(owed) : i = owed[k]
                BY <3>7 DEF NotOwed
            <4>1. k = 1
                <5> SUFFICES ASSUME k # 1 PROVE FALSE
                    OBVIOUS
                <5>1. k - 1 \in 1 .. Len(owed') /\ (k - 1) + 1 = k
                    BY <1>1
                <5>2. owed'[k - 1] = i
                    BY <5>1, <1>1
                <5> QED
                    BY <5>1, <5>2, <3>2, <3>7 DEF NotOwed
            <4>2. i = id
                BY <4>1, <1>1
            <4>3. skip[c][n] \in Int /\ i \in Nat
                BY <3>5 DEF Serving, Wanted, Ids
            <4>4. n \in Targets(c, id)
                BY <4>2, <4>3, <3>3, <3>5, <3>7, <1>6 DEF Wanted
            <4>5. CASE n \in fit[c]
                BY <4>2, <4>5, <1>7
            <4>6. CASE n \notin fit[c]
                BY <4>2, <4>4, <4>6
            <4> QED
                BY <4>5, <4>6
        <3> QED
            BY <3>6, <3>7
    <2> QED
        BY <2>4, <2>5
<1> QED
    BY <1>8, <1>9, <1>11, <1>12

-----------------------------------------------------------------------------
(* Steps of one connection                                                 *)

\* A step of connection c disturbs the invariant of c alone.
LEMMA ConnStep ==
    ASSUME Storing, InStep, Complete, UNCHANGED <<published, stored, order, owed, limits>>,
           errs' \in Nat, errs' = 0 => errs = 0,
           NEW c \in Conn, \A d \in Conn \ {c} : Kept(d), Fine(c)', Whole' => Full(c)'
    PROVE Storing' /\ InStep' /\ Complete'
<1>1. MaxInserted' = MaxInserted /\ Ids' = Ids /\ MaxId' = MaxId
    BY DEF MaxInserted, Ids, MaxId
<1>2. Storing'
    BY <1>1 DEF Storing
<1>3. \A d \in Conn \ {c} : (Fine(d)' <=> Fine(d)) /\ (Full(d)' <=> Full(d))
    BY KeptConn
<1>4. \A d \in Conn : Fine(d)'
    BY <1>3 DEF InStep, Fine
<1>5. Whole' => Whole
    BY <1>1 DEF Whole
<1>6. Whole' => \A d \in Conn : Full(d)'
    BY <1>3, <1>5 DEF Complete, Full
<1>7. InStep'
    BY <1>4 DEF InStep, Fine
<1>8. Complete'
    BY <1>6 DEF Complete, Full
<1> QED
    BY <1>2, <1>7, <1>8

\* A step of the handler of c within its request sends nothing and leaves the
\* registry alone.
LEMMA HandlerStep ==
    ASSUME Storing, Serving, InStep, Complete, NEW c \in Conn,
           UNCHANGED <<published, stored, order, owed, limits, skip, hname, progress, sock, buf, got, start, excused>>,
           errs' \in Nat, errs' = 0 => errs = 0, hpc[c] # "idle",
           NEW to \in {"replay", "send", "stalled", "exhausted", "exit"}, hpc' = [hpc EXCEPT ![c] = to],
           NEW wm \in Nat, watermark' = [watermark EXCEPT ![c] = wm], wm <= MaxInserted,
           NEW cu \in Nat, cursor' = [cursor EXCEPT ![c] = cu], progress[c] <= cu, cu <= MaxInserted,
           NEW ck \in SUBSET Nat, chunk' = [chunk EXCEPT ![c] = ck],
           to = "send" => /\ ck # {} /\ ck \subseteq Ids
                          /\ \A i \in ck : progress[c] < i /\ i <= cu,
           Whole /\ errs' = 0 /\ sock[c] = "open" =>
               /\ to # "exhausted"
               /\ \A i \in Wanted(c, hname[c]) : i <= cu =>
                     \/ i \in Sent(c, hname[c])
                     \/ to = "send" /\ i \in ck
                     \/ to = "stalled" /\ i > progress[c]
    PROVE Storing' /\ Serving' /\ InStep' /\ Complete'
<1>1. /\ MaxInserted' = MaxInserted /\ Ids' = Ids /\ Suppressed' = Suppressed
      /\ \A i : NotOwed(i)' <=> NotOwed(i)
    BY DEF MaxInserted, Ids, Suppressed, MaxId, NotOwed
<1>2. \A n : Wanted(c, n)' = Wanted(c, n)
    BY <1>1 DEF Wanted
<1>3. ASSUME NEW n
      PROVE /\ Sent(c, n)' = Sent(c, n) /\ (Ordered(c, n)' <=> Ordered(c, n))
            /\ (Live(c, n)' <=> Live(c, n))
    <2>1. Coming(c, n)' = Coming(c, n)
        BY DEF Coming
    <2>2. Sent(c, n)' = Sent(c, n) /\ (Ordered(c, n)' <=> Ordered(c, n))
        BY <2>1, StreamSame
    <2> QED
        BY <2>2 DEF Live, Held
<1>4. Serving'
    BY DEF Serving
<1>5. hpc'[c] = to /\ watermark'[c] = wm /\ cursor'[c] = cu /\ chunk'[c] = ck
    BY DEF Serving
<1>6. \A d \in Conn \ {c} : Kept(d)
    BY DEF Kept, Serving
<1>7. Fine(c)'
    <2>1. Replaying(c) /\ \A n \in Name : Ordered(c, n) /\ Ahead(c, n)
        BY DEF InStep
    <2>2. Replaying(c)'
        BY <2>1, <1>1, <1>3, <1>5 DEF Replaying
    <2>3. ASSUME NEW n \in Name PROVE Ordered(c, n)' /\ Ahead(c, n)'
        BY <2>1, <1>1, <1>3 DEF Ahead
    <2> QED
        BY <2>2, <2>3 DEF Fine
<1>8. ASSUME Whole' PROVE Full(c)'
    <2>1. Whole /\ errs' = 0
        BY <1>1, <1>8 DEF Whole
    <2>2. Replayed(c)'
        BY <2>1, <1>2, <1>3, <1>5 DEF Replayed
    <2>3. ASSUME NEW n \in Name PROVE Covered(c, n)'
        BY <2>1, <1>1, <1>2, <1>3 DEF Complete, Covered
    <2> QED
        BY <2>2, <2>3 DEF Full
<1>9. Storing' /\ InStep' /\ Complete'
    BY <1>6, <1>7, <1>8, ConnStep
<1> QED
    BY <1>4, <1>9

\* The request of c ends with its filter armed at v: at or above all it has
\* been sent, and all that it matches has been sent or is excused.
LEMMA ArmStep ==
    ASSUME Storing, Serving, InStep, Complete, NEW c \in Conn,
           UNCHANGED <<published, stored, order, owed, limits, errs, sock, buf, got, start, chunk>>,
           hpc[c] # "idle", NEW v \in Nat, v <= MaxInserted, progress[c] <= v, ArmFilter(c, v), Return(c),
           NEW ex \in SUBSET Nat, excused' = [excused EXCEPT ![c][hname[c]] = ex],
           Whole /\ sock[c] = "open" => \A i \in Wanted(c, hname[c]) : i \in Sent(c, hname[c]) \/ i \in ex
    PROVE Storing' /\ Serving' /\ InStep' /\ Complete'
<1> PICK h : h = hname[c]
    OBVIOUS
<1>0. Replaying(c) /\ h \in Name /\ \A n \in Name : Ordered(c, n) /\ Ahead(c, n)
    BY DEF InStep, Replaying
<1>1. /\ MaxInserted' = MaxInserted /\ Ids' = Ids /\ Suppressed' = Suppressed
      /\ (\A i : NotOwed(i)' <=> NotOwed(i)) /\ MaxInserted \in Nat
    BY LimitTypes DEF MaxInserted, Ids, Suppressed, MaxId, NotOwed
<1>2. /\ \A n \in Name : Wanted(c, n)' = Wanted(c, n)
    BY <1>1 DEF Wanted
<1>3. ASSUME NEW n PROVE Sent(c, n)' = Sent(c, n) /\ (Ordered(c, n)' <=> Ordered(c, n))
    <2>1. Coming(c, n)' = Coming(c, n)
        BY DEF Coming
    <2> QED
        BY <2>1, StreamSame
<1>4. /\ skip'[c][h] = IF skip[c][h] = Off THEN Off ELSE v
      /\ \A n \in Name \ {h} : skip'[c][n] = skip[c][n]
      /\ excused'[c][h] = ex /\ \A n \in Name \ {h} : excused'[c][n] = excused[c][n]
    BY <1>0 DEF ArmFilter, Serving
<1>5. /\ hpc'[c] = "idle" /\ hname'[c] = Off
    BY DEF Return, Goto, Serving
<1>6. Serving'
    <2>1. skip' \in [Conn -> [Name -> Int]]
        BY <1>0 DEF ArmFilter, Serving, Off
    <2>2. excused' \in [Conn -> [Name -> SUBSET Nat]]
        BY <1>0 DEF Serving
    <2>3. /\ hpc' \in [Conn -> {"idle", "replay", "send", "stalled", "exhausted", "exit"}]
          /\ hname' \in [Conn -> Name \cup {Off}]
          /\ watermark' \in [Conn -> Nat] /\ cursor' \in [Conn -> Nat] /\ progress' \in [Conn -> Nat]
        BY DEF Return, Goto, Serving
    <2> QED
        BY <2>1, <2>2, <2>3 DEF Serving
<1>7. \A d \in Conn \ {c} : Kept(d)
    BY DEF Kept, Serving, ArmFilter, Return, Goto
<1>8. Fine(c)'
    <2>1. Replaying(c)'
        BY <1>5 DEF Replaying
    <2>2. ASSUME NEW n \in Name \ {h} PROVE Ordered(c, n)' /\ Ahead(c, n)'
        BY <1>0, <1>1, <1>3, <1>4, <1>5 DEF Ahead
    <2>3. Ordered(c, h)' /\ Ahead(c, h)'
        <3>1. Sent(c, h) \subseteq Nat /\ \A s \in Sent(c, h) : s <= v
            <4>1. Sent(c, h) \subseteq Nat
                BY <1>0 DEF Ahead, Ids
            <4>2. \A s \in Sent(c, h) : s <= progress[c]
                BY <1>0 DEF Replaying
            <4>3. progress[c] \in Nat
                BY DEF Serving
            <4> QED
                BY <4>1, <4>2, <4>3
        <3>2. \A k \in 1 .. Len(owed) : owed[k] > v => \A s \in Sent(c, h) : s < owed[k]
            <4>1. \A k \in 1 .. Len(owed) : owed[k] \in Nat
                BY DEF Storing
            <4> QED
                BY <4>1, <3>1
        <3>3. skip'[c][h] <= MaxInserted'
            BY <1>1, <1>4 DEF Off
        <3>4. Sent(c, h)' \subseteq Ids'
            BY <1>0, <1>1, <1>3 DEF Ahead
        <3>5. skip'[c][h] # Off => skip'[c][h] = v
            BY <1>4
        <3>6. Ahead(c, h)'
            BY <3>2, <3>3, <3>4, <3>5, <1>3 DEF Ahead
        <3> QED
            BY <3>6, <1>0, <1>3
    <2> QED
        BY <2>1, <2>2, <2>3 DEF Fine
<1>9. ASSUME Whole' PROVE Full(c)'
    <2>1. Whole
        BY <1>1, <1>9 DEF Whole
    <2>2. Replayed(c)'
        BY <1>5 DEF Replayed
    <2>3. ASSUME NEW n \in Name \ {h} PROVE Covered(c, n)'
        <3>1. Covered(c, n) /\ (Live(c, n)' => Live(c, n))
            BY <2>1, <1>4 DEF Complete, Live, Held
        <3> QED
            BY <3>1, <1>1, <1>2, <1>3, <1>4 DEF Covered
    <2>4. Covered(c, h)'
        BY <2>1, <1>0, <1>2, <1>3, <1>4 DEF Covered, Live
    <2> QED
        BY <2>2, <2>3, <2>4 DEF Full
<1>10. Storing' /\ InStep' /\ Complete'
    <2>1. errs' \in Nat /\ (errs' = 0 => errs = 0)
        BY DEF Storing
    <2> QED
        BY <2>1, <1>7, <1>8, <1>9, ConnStep
<1> QED
    BY <1>6, <1>10

-----------------------------------------------------------------------------
(* The subscribe handler                                                   *)

\* The k oldest ids of a set.
Oldest(B, k) == {i \in B : Cardinality({j \in B : j < i}) < k}

\* A window is the oldest part of the backlog, so nothing is left behind it.
LEMMA OldestFirst ==
    ASSUME NEW n \in Nat, NEW B \in SUBSET (1 .. n), B # {}, NEW k \in Nat, k > 0
    PROVE Max(Oldest(B, k)) \in Oldest(B, k) /\ \A i \in B : i <= Max(Oldest(B, k)) => i \in Oldest(B, k)
<1> PICK w : w = Oldest(B, k)
    OBVIOUS
<1>0. w = {i \in B : Cardinality({j \in B : j < i}) < k}
    BY DEF Oldest
<1>1. B \in SUBSET Nat /\ IsFiniteSet(B)
    <2>1. IsFiniteSet(1 .. n)
        BY FS_Interval
    <2>2. IsFiniteSet(B)
        BY <2>1, FS_Subset
    <2>3. \A i \in 1 .. n : i \in Nat
        OBVIOUS
    <2> QED
        BY <2>2, <2>3
<1>2. Min(B) \in B /\ \A y \in B : Min(B) <= y
    BY <1>1, Least
<1>3. Min(B) \in w
    <2>0. ASSUME NEW j \in B PROVE ~(j < Min(B))
        <3>1. j \in Nat /\ Min(B) \in Nat /\ Min(B) <= j
            BY <1>1, <1>2
        <3> QED
            BY ONLY <3>1
    <2>1. {j \in B : j < Min(B)} = {}
        BY <2>0
    <2>2. Cardinality({j \in B : j < Min(B)}) = 0
        BY <2>1, FS_EmptySet
    <2> QED
        BY <1>0, <1>2, <2>2
<1>4. w \in SUBSET (0 .. n) /\ w # {}
    <2>1. \A i \in 1 .. n : i \in 0 .. n
        OBVIOUS
    <2>2. \A i \in w : i \in B
        BY <1>0
    <2> QED
        BY <1>3, <2>1, <2>2
<1>5. Max(w) \in w
    BY <1>4, Greatest
<1>6. ASSUME NEW i \in B, i <= Max(w) PROVE i \in w
    <2> DEFINE below == {j \in B : j < i}  under == {j \in B : j < Max(w)}
    <2>1. Max(w) \in Nat /\ i \in Nat
        BY <1>1, <1>4, <1>5
    <2>2. below \in SUBSET under /\ under \in SUBSET B
        <3>1. \A j \in B : j < i => j < Max(w)
            BY <1>1, <1>6, <2>1
        <3> QED
            BY <3>1
    <2>3. IsFiniteSet(under)
        BY <1>1, <2>2, FS_Subset
    <2>4. Cardinality(below) <= Cardinality(under) /\ IsFiniteSet(below)
        BY <2>2, <2>3, FS_Subset
    <2>5. Cardinality(below) \in Nat /\ Cardinality(under) \in Nat
        BY <2>3, <2>4, FS_CardinalityType
    <2>6. Cardinality(under) < k
        BY <1>0, <1>5
    <2>7. Cardinality(below) < k
        BY <2>4, <2>5, <2>6
    <2> QED
        BY <1>0, <2>7
<1> QED
    BY <1>5, <1>6

\* Windows are read in order, and an undamaged backlog is never exhausted.
LEMMA ReadChunkStep ==
    ASSUME Storing, Serving, InStep, Complete, NEW c \in Conn, ReadChunk(c)
    PROVE Storing' /\ Serving' /\ InStep' /\ Complete'
<1> PICK h : h = hname[c]
    OBVIOUS
<1>1. /\ UNCHANGED <<published, stored, order, owed, limits, skip, hname, progress, sock, buf, got, start, excused>>
      /\ errs' = errs /\ watermark' = watermark /\ hpc[c] = "replay" /\ cursor[c] < watermark[c]
    BY DEF ReadChunk, storev, registry, client, bounds, session
<1>2. /\ progress[c] \in Nat /\ cursor[c] \in Nat /\ watermark[c] \in Nat /\ chunk[c] \in SUBSET Nat
      /\ watermark' = [watermark EXCEPT ![c] = watermark[c]] /\ errs \in Nat /\ MaxInserted \in Nat
    BY <1>1, LimitTypes DEF Serving, Storing
<1>3. h \in Name /\ progress[c] <= cursor[c] /\ watermark[c] <= MaxInserted /\ cursor[c] <= MaxInserted
    BY <1>1 DEF InStep, Replaying
<1>4. Whole /\ sock[c] = "open" => \A i \in Wanted(c, h) : i <= cursor[c] => i \in Sent(c, h)
    BY <1>1 DEF Complete, Replayed
<1>5. Backlog(c) \subseteq 1 .. MaxInserted /\ \A i \in Backlog(c) : cursor[c] < i /\ i <= watermark[c]
    BY DEF Backlog, Storing, Ids
<1>6. Whole => \A i \in Ids : cursor[c] < i /\ i <= watermark[c] => i \in Backlog(c)
    BY DEF Whole, Backlog
<1>7. CASE Backlog(c) = {}
    <2>1. ~Whole
        <3>1. cursor[c] + 1 \in Ids /\ cursor[c] < cursor[c] + 1 /\ cursor[c] + 1 <= watermark[c]
            BY <1>1, <1>2, <1>3 DEF Ids
        <3> QED
            BY <3>1, <1>6, <1>7
    <2>2. hpc' = [hpc EXCEPT ![c] = "exhausted"] /\ cursor' = cursor /\ chunk' = chunk
        BY <1>7 DEF ReadChunk, Goto
    <2>3. cursor' = [cursor EXCEPT ![c] = cursor[c]] /\ chunk' = [chunk EXCEPT ![c] = chunk[c]]
        BY <2>2 DEF Serving
    <2> QED
        BY <1>1, <1>2, <1>3, <2>1, <2>2, <2>3, HandlerStep
<1>8. CASE Backlog(c) # {}
    <2>1. TakeWindow(c)
        BY <1>8 DEF ReadChunk
    <2>2. PICK k \in 1 .. Chunk :
        LET window == {i \in Backlog(c) : Cardinality({j \in Backlog(c) : j < i}) < k}
            hits == {i \in window : Hits(hname[c], published[i])}
        IN  /\ cursor' = [cursor EXCEPT ![c] = Max(window)]
            /\ chunk' = [chunk EXCEPT ![c] = hits]
            /\ Goto(c, IF hits = {} THEN "replay" ELSE "send")
        BY <2>1 DEF TakeWindow
    <2>3. PICK w : w = {i \in Backlog(c) : Cardinality({j \in Backlog(c) : j < i}) < k}
        OBVIOUS
    <2>4. PICK ck : ck = {i \in w : Hits(h, published[i])}
        OBVIOUS
    <2>5. PICK m : m = Max(w)
        OBVIOUS
    <2>6. PICK to : to = IF ck = {} THEN "replay" ELSE "send"
        OBVIOUS
    <2>7. /\ cursor' = [cursor EXCEPT ![c] = m] /\ chunk' = [chunk EXCEPT ![c] = ck]
          /\ hpc' = [hpc EXCEPT ![c] = to]
        BY <2>2, <2>3, <2>4, <2>5, <2>6 DEF Goto
    <2>8. k \in Nat /\ k > 0
        BY LimitTypes
    <2>9. m \in w /\ \A i \in Backlog(c) : i <= m => i \in w
        <3> PICK B : B = Backlog(c)
            OBVIOUS
        <3>1. B \in SUBSET (1 .. MaxInserted) /\ B # {} /\ w = Oldest(B, k)
            BY <1>5, <1>8, <2>3 DEF Oldest
        <3>2. Max(w) \in w /\ \A i \in B : i <= Max(w) => i \in w
            BY ONLY <3>1, <2>8, <1>2, OldestFirst
        <3> QED
            BY <3>2, <2>5
    <2>10. m \in Nat /\ cursor[c] < m /\ m <= MaxInserted /\ m <= watermark[c]
        BY <2>3, <2>9, <1>5
    <2>11. ck \in SUBSET Nat /\ ck \subseteq Ids
        BY <2>3, <2>4, <1>5 DEF Ids
    <2>12. \A i \in ck : progress[c] < i /\ i <= m
        <3> SUFFICES ASSUME NEW i \in ck PROVE progress[c] < i /\ i <= m
            OBVIOUS
        <3>1. i \in w /\ i \in Backlog(c) /\ i \in Nat
            BY <2>3, <2>4, <1>5
        <3>2. w \in SUBSET (0 .. MaxInserted) /\ w # {}
            BY <2>3, <2>9, <1>5
        <3>3. i <= m
            BY <3>1, <3>2, <2>5, <1>2, Greatest
        <3> QED
            BY <3>1, <3>3, <1>2, <1>3, <1>5
    <2>13. ASSUME Whole, sock[c] = "open", NEW i \in Wanted(c, h), i <= m, i \notin Sent(c, h) PROVE to = "send" /\ i \in ck
        <3>1. i \in Ids /\ i \in Nat /\ Hits(h, published[i])
            BY DEF Wanted, Ids
        <3>2. cursor[c] < i
            BY <3>1, <2>13, <1>2, <1>4
        <3>3. i <= watermark[c]
            BY <3>1, <2>10, <2>13, <1>2
        <3>4. i \in ck
            BY <3>1, <3>2, <3>3, <2>4, <2>9, <2>13, <1>6
        <3> QED
            BY <3>4, <2>6
    <2>14. to \in {"replay", "send", "stalled", "exhausted", "exit"} /\ to # "exhausted" /\ (to = "send" => ck # {})
        BY <2>6
    <2>15. progress[c] <= m
        BY <2>10, <1>2, <1>3
    <2>16. Whole /\ errs' = 0 /\ sock[c] = "open" =>
               /\ to # "exhausted"
               /\ \A i \in Wanted(c, hname[c]) : i <= m =>
                     \/ i \in Sent(c, hname[c])
                     \/ to = "send" /\ i \in ck
                     \/ to = "stalled" /\ i > progress[c]
        BY <2>13, <2>14
    <2>17. errs' \in Nat /\ (errs' = 0 => errs = 0) /\ hpc[c] # "idle"
        BY <1>1, <1>2
    <2> QED
        BY ONLY Storing, Serving, InStep, Complete, c \in Conn, <1>1, <1>2, <1>3, <2>7, <2>10, <2>11, <2>12, <2>14, <2>15, <2>16, <2>17, HandlerStep
<1> QED
    BY <1>7, <1>8

\* A failed read stalls the replay.
LEMMA ReadFailsStep ==
    ASSUME Storing, Serving, InStep, Complete, NEW c \in Conn, ReadFails(c)
    PROVE Storing' /\ Serving' /\ InStep' /\ Complete'
<1>1. /\ UNCHANGED <<published, stored, order, owed, limits, skip, hname, progress, sock, buf, got, start, excused>>
      /\ errs' = errs + 1 /\ hpc[c] = "replay" /\ hpc' = [hpc EXCEPT ![c] = "stalled"]
      /\ UNCHANGED <<watermark, cursor, chunk>>
    BY DEF ReadFails, storev, registry, client, session, Goto
<1>2. /\ cursor[c] \in Nat /\ watermark[c] \in Nat /\ chunk[c] \in SUBSET Nat
      /\ watermark' = [watermark EXCEPT ![c] = watermark[c]]
      /\ cursor' = [cursor EXCEPT ![c] = cursor[c]] /\ chunk' = [chunk EXCEPT ![c] = chunk[c]]
    BY <1>1 DEF Serving
<1>3. progress[c] <= cursor[c] /\ watermark[c] <= MaxInserted /\ cursor[c] <= MaxInserted
    BY <1>1 DEF InStep, Replaying
<1>4. errs' \in Nat /\ errs' # 0
    BY <1>1 DEF Storing
<1> QED
    BY <1>1, <1>2, <1>3, <1>4, HandlerStep

\* A send that fails gives up the rest of the window.
LEMMA SendFailsStep ==
    ASSUME Storing, Serving, InStep, Complete, NEW c \in Conn, SendFails(c)
    PROVE Storing' /\ Serving' /\ InStep' /\ Complete'
<1>1. /\ UNCHANGED <<published, stored, order, owed, limits, skip, hname, progress, sock, buf, got, start, excused>>
      /\ errs' = errs /\ hpc[c] = "send" /\ hpc' = [hpc EXCEPT ![c] = "stalled"]
      /\ UNCHANGED <<watermark, cursor>> /\ chunk' = [chunk EXCEPT ![c] = {}]
    BY DEF SendFails, storev, registry, client, bounds, session, Goto
<1>2. /\ cursor[c] \in Nat /\ watermark[c] \in Nat /\ {} \in SUBSET Nat
      /\ watermark' = [watermark EXCEPT ![c] = watermark[c]] /\ cursor' = [cursor EXCEPT ![c] = cursor[c]]
    BY <1>1 DEF Serving
<1>3. /\ progress[c] <= cursor[c] /\ watermark[c] <= MaxInserted /\ cursor[c] <= MaxInserted
      /\ \A i \in chunk[c] : progress[c] < i /\ i \in Nat
    BY <1>1 DEF InStep, Replaying, Serving
<1>4. errs' \in Nat /\ (errs' = 0 => errs = 0)
    BY <1>1 DEF Storing
<1>5. progress[c] \in Nat
    BY DEF Serving
<1>6. Whole /\ sock[c] = "open" =>
        \A i \in Wanted(c, hname[c]) : i <= cursor[c] => i \in Sent(c, hname[c]) \/ i > progress[c]
    BY <1>1, <1>3, <1>5 DEF Complete, Replayed
<1> QED
    BY <1>1, <1>2, <1>3, <1>4, <1>6, HandlerStep

\* The next round of the replay begins, or its exit.
LEMMA RoundStep ==
    ASSUME Storing, Serving, InStep, Complete, NEW c \in Conn, NEW to \in {"replay", "exit"},
           UNCHANGED <<published, stored, order, owed, limits, skip, hname, progress, sock, buf, got, start, excused>>,
           UNCHANGED <<errs, cursor, chunk>>, hpc[c] \in {"replay", "exit"}, hpc' = [hpc EXCEPT ![c] = to],
           watermark' = [watermark EXCEPT ![c] = MaxInserted]
    PROVE Storing' /\ Serving' /\ InStep' /\ Complete'
<1>1. /\ cursor[c] \in Nat /\ chunk[c] \in SUBSET Nat /\ MaxInserted \in Nat /\ MaxInserted <= MaxInserted
      /\ cursor' = [cursor EXCEPT ![c] = cursor[c]] /\ chunk' = [chunk EXCEPT ![c] = chunk[c]]
    BY LimitTypes DEF Serving
<1>2. progress[c] <= cursor[c] /\ cursor[c] <= MaxInserted
    BY DEF InStep, Replaying
<1>3. errs' \in Nat /\ (errs' = 0 => errs = 0)
    BY DEF Storing
<1>4. Whole /\ sock[c] = "open" => \A i \in Wanted(c, hname[c]) : i <= cursor[c] => i \in Sent(c, hname[c])
    BY DEF Complete, Replayed
<1>5. to # "send" /\ to # "exhausted" /\ to \in {"replay", "send", "stalled", "exhausted", "exit"} /\ hpc[c] # "idle"
    OBVIOUS
<1> QED
    BY <1>1, <1>2, <1>3, <1>4, <1>5, HandlerStep

\* Caught up: the filter opens at the newest id, all of it sent.
LEMMA ExitStep ==
    ASSUME Storing, Serving, InStep, Complete, NEW c \in Conn, Exit(c)
    PROVE Storing' /\ Serving' /\ InStep' /\ Complete'
<1>1. /\ UNCHANGED <<published, stored, order, owed, limits, errs, sock, buf, got, start, chunk, excused>>
      /\ hpc[c] = "exit"
    BY DEF Exit, storev, client, bounds, session
<1>2. /\ cursor[c] \in Nat /\ MaxInserted \in Nat /\ progress[c] \in Nat /\ MaxInserted <= MaxInserted
      /\ progress[c] <= cursor[c] /\ cursor[c] <= MaxInserted /\ hname[c] \in Name
    BY <1>1, LimitTypes DEF Serving, InStep, Replaying
<1>3. CASE cursor[c] >= MaxInserted
    <2>1. ArmFilter(c, MaxInserted) /\ Return(c)
        BY <1>3 DEF Exit
    <2>2. progress[c] <= MaxInserted
        BY <1>2
    <2>3. PICK ex : ex = excused[c][hname[c]]
        OBVIOUS
    <2>4. ex \in SUBSET Nat /\ excused' = [excused EXCEPT ![c][hname[c]] = ex]
        BY <1>1, <1>2, <2>3 DEF Serving
    <2>5. Whole /\ sock[c] = "open" => \A i \in Wanted(c, hname[c]) : i \in Sent(c, hname[c])
        <3> SUFFICES ASSUME Whole, sock[c] = "open", NEW i \in Wanted(c, hname[c]) PROVE i \in Sent(c, hname[c])
            OBVIOUS
        <3>1. i <= cursor[c]
            BY <1>2, <1>3 DEF Wanted, Ids
        <3> QED
            BY <3>1, <1>1 DEF Complete, Replayed
    <2> QED
        BY <1>1, <1>2, <2>1, <2>2, <2>4, <2>5, ArmStep
<1>4. CASE ~(cursor[c] >= MaxInserted)
    <2>1. /\ watermark' = [watermark EXCEPT ![c] = MaxInserted] /\ hpc' = [hpc EXCEPT ![c] = "replay"]
          /\ UNCHANGED <<skip, hname, cursor, progress>>
        BY <1>4 DEF Exit, Goto
    <2> QED
        BY <1>1, <2>1, RoundStep
<1> QED
    BY <1>3, <1>4

\* A round is complete.
LEMMA ResampleStep ==
    ASSUME Storing, Serving, InStep, Complete, NEW c \in Conn, Resample(c)
    PROVE Storing' /\ Serving' /\ InStep' /\ Complete'
<1>1. /\ UNCHANGED <<published, stored, order, owed, limits, skip, hname, progress, sock, buf, got, start, excused>>
      /\ UNCHANGED <<errs, cursor, chunk>> /\ hpc[c] = "replay"
      /\ watermark' = [watermark EXCEPT ![c] = MaxInserted]
    BY DEF Resample, storev, registry, client, bounds, session
<1> PICK to : to = IF cursor[c] >= MaxInserted THEN "exit" ELSE "replay"
    OBVIOUS
<1>2. hpc' = [hpc EXCEPT ![c] = to] /\ to \in {"replay", "exit"}
    BY DEF Resample, Goto
<1> QED
    BY <1>1, <1>2, RoundStep

\* A stalled replay opens its filter above the last id sent; what it skips is
\* excused.
LEMMA ArmProgressStep ==
    ASSUME Storing, Serving, InStep, Complete, NEW c \in Conn, ArmProgress(c)
    PROVE Storing' /\ Serving' /\ InStep' /\ Complete'
<1>1. /\ UNCHANGED <<published, stored, order, owed, limits, errs, sock, buf, got, start, chunk>>
      /\ hpc[c] \in {"stalled", "exhausted"} /\ hpc[c] # "idle" /\ ArmFilter(c, progress[c]) /\ Return(c)
    BY DEF ArmProgress, storev, client, bounds
<1>2. /\ cursor[c] \in Nat /\ MaxInserted \in Nat /\ progress[c] \in Nat /\ progress[c] <= progress[c]
      /\ progress[c] <= cursor[c] /\ cursor[c] <= MaxInserted /\ hname[c] \in Name
    BY <1>1, LimitTypes DEF Serving, InStep, Replaying
<1> PICK ex : ex = excused[c][hname[c]] \cup (IF hpc[c] = "stalled" THEN progress[c] + 1 .. MaxInserted ELSE {})
    OBVIOUS
<1>3. excused' = [excused EXCEPT ![c][hname[c]] = ex]
    BY <1>2 DEF ArmProgress, Serving
<1>4. ex \in SUBSET Nat
    <2>1. progress[c] + 1 .. MaxInserted \subseteq Nat /\ excused[c][hname[c]] \subseteq Nat
        BY <1>2 DEF Serving
    <2> QED
        BY <2>1
<1>5. Whole /\ sock[c] = "open" => \A i \in Wanted(c, hname[c]) : i \in Sent(c, hname[c]) \/ i \in ex
    <2> SUFFICES ASSUME Whole, sock[c] = "open", NEW i \in Wanted(c, hname[c])
                 PROVE i \in Sent(c, hname[c]) \/ i \in ex
        OBVIOUS
    <2>1. hpc[c] = "stalled" /\ (i <= cursor[c] => i \in Sent(c, hname[c]) \/ i > progress[c])
        BY <1>1 DEF Complete, Replayed
    <2>2. i \in Nat /\ i <= MaxInserted
        BY <1>2 DEF Wanted, Ids
    <2>3. i > progress[c] => i \in progress[c] + 1 .. MaxInserted
        BY <1>2, <2>2
    <2>4. i > cursor[c] => i > progress[c]
        BY <1>2, <2>2
    <2>5. i <= cursor[c] \/ i > cursor[c]
        BY <1>2, <2>2
    <2> QED
        BY <2>1, <2>3, <2>4, <2>5
<1>6. progress[c] <= MaxInserted
    BY <1>2
<1> QED
    BY <1>1, <1>2, <1>3, <1>4, <1>5, <1>6, ArmStep

\* A replayed message is newer than all that its subscription has been sent.
LEMMA SendReplayStep ==
    ASSUME Storing, Serving, InStep, Complete, NEW c \in Conn, SendReplay(c)
    PROVE Storing' /\ Serving' /\ InStep' /\ Complete'
<1> PICK h : h = hname[c]
    OBVIOUS
<1> PICK id : id = Min(chunk[c])
    OBVIOUS
<1>1. /\ UNCHANGED <<published, stored, order, owed, limits, errs, skip, hname, watermark, cursor, sock, got, start, excused>>
      /\ hpc[c] = "send" /\ sock[c] = "open"
      /\ buf' = [buf EXCEPT ![c] = Append(@, Frame(h, id))] /\ progress' = [progress EXCEPT ![c] = id]
      /\ chunk' = [chunk EXCEPT ![c] = @ \ {id}]
      /\ hpc' = [hpc EXCEPT ![c] = IF chunk[c] = {id} THEN "replay" ELSE "send"]
    BY DEF SendReplay, storev, registry, bounds, session, Goto
<1>2. /\ Replaying(c) /\ h \in Name /\ skip[c][h] = Suppressed /\ \A n \in Name : Ordered(c, n) /\ Ahead(c, n)
    BY <1>1 DEF InStep, Replaying
<1>3. /\ chunk[c] # {} /\ chunk[c] \subseteq Ids /\ \A i \in chunk[c] : progress[c] < i /\ i <= cursor[c]
      /\ \A s \in Sent(c, h) : s <= progress[c]
      /\ watermark[c] <= MaxInserted /\ cursor[c] <= MaxInserted
    BY <1>1, <1>2 DEF Replaying
<1>4. id \in chunk[c] /\ \A y \in chunk[c] : id <= y
    <2>1. chunk[c] \in SUBSET Nat
        BY DEF Serving
    <2> QED
        BY <2>1, <1>3, Least
<1>5. /\ id \in Nat \ {0} /\ id \in Ids /\ progress[c] < id /\ id <= cursor[c] /\ progress[c] \in Nat
    BY <1>3, <1>4 DEF Ids, Serving
<1>6. /\ MaxInserted' = MaxInserted /\ Ids' = Ids /\ Suppressed' = Suppressed
      /\ (\A i : NotOwed(i)' <=> NotOwed(i)) /\ MaxInserted \in Nat /\ MaxInserted < Suppressed /\ Suppressed \in Nat
    BY <1>1, LimitTypes DEF MaxInserted, Ids, Suppressed, MaxId, NotOwed
<1> PICK b : b = buf[c]
    OBVIOUS
<1> PICK f : f = Frame(h, id)
    OBVIOUS
<1>7. f \in Frames /\ f.name = h /\ f.id = id /\ f.current = TRUE
    BY <1>2, <1>5 DEF Frame, Frames
<1>8. /\ b \in Seq(Frames) /\ Len(b) \in Nat /\ buf'[c] = Append(b, f)
    BY <1>1 DEF Serving
<1>9. /\ Len(Append(b, f)) = Len(b) + 1 /\ Append(b, f)[Len(b) + 1] = f /\ Append(b, f) \in Seq(Frames)
      /\ \A i \in 1 .. Len(b) : Append(b, f)[i] = b[i]
    BY <1>7, <1>8
<1>10. \A n : Coming(c, n) \subseteq 1 .. Len(b)
    BY DEF Coming
<1>11. \A i \in 1 .. Len(b) + 1 : i \in 1 .. Len(b) \/ i = Len(b) + 1
    BY <1>8
<1>12. \A i \in 1 .. Len(b) : i \in 1 .. Len(b) + 1
    BY <1>8
<1>13. Len(b) + 1 \in 1 .. Len(b) + 1 /\ Len(b) + 1 \in Nat /\ \A i \in 1 .. Len(b) : i < Len(b) + 1
    BY <1>8
<1>14. ASSUME NEW n \in Name PROVE Coming(c, n)' = Coming(c, n) \cup (IF n = h THEN {Len(b) + 1} ELSE {})
    <2>1. Coming(c, n)' = {i \in 1 .. Len(b) + 1 : buf'[c][i].name = n /\ buf'[c][i].current /\ buf'[c][i].id # 0}
        BY <1>8, <1>9 DEF Coming
    <2>2. \A i \in 1 .. Len(b) : i \in Coming(c, n)' <=> i \in Coming(c, n)
        BY <2>1, <1>8, <1>9, <1>12 DEF Coming
    <2>3. Len(b) + 1 \in Coming(c, n)' <=> h = n
        <3>1. f.current /\ f.id # 0
            BY <1>5, <1>7
        <3> QED
            BY <2>1, <3>1, <1>7, <1>8, <1>9, <1>13
    <2>4. Coming(c, n)' \subseteq 1 .. Len(b) + 1
        BY <2>1
    <2>5. Len(b) + 1 \notin Coming(c, n)
        BY <1>8, <1>10
    <2> QED
        BY <2>2, <2>3, <2>4, <2>5, <1>10, <1>11
<1>15. \A n, i : i \in Coming(c, n) => buf'[c][i].id = buf[c][i].id
    BY <1>8, <1>9, <1>10
<1>16. ASSUME NEW n \in Name \ {h} PROVE Sent(c, n)' = Sent(c, n) /\ Ordered(c, n)'
    <2>1. Coming(c, n)' = Coming(c, n)
        BY <1>14
    <2>2. got'[c][n] = got[c][n]
        BY <1>1
    <2> QED
        BY <2>1, <2>2, <1>2, <1>15, StreamSame
<1>17. Sent(c, h)' = Sent(c, h) \cup {id} /\ Ordered(c, h)'
    <2> PICK k \in Nat : k = Len(b) + 1
        BY <1>13
    <2>1. Coming(c, h)' = Coming(c, h) \cup {k} /\ got'[c][h] = got[c][h] /\ buf'[c][k].id = id
        BY <1>1, <1>2, <1>7, <1>8, <1>9, <1>14
    <2>2. \A i \in Coming(c, h) : i < k /\ buf'[c][i].id = buf[c][i].id
        BY <1>10, <1>13, <1>15
    <2>3. Sent(c, h) \subseteq Nat /\ Ordered(c, h)
        BY <1>2 DEF Ahead, Ids
    <2>4. \A s \in Sent(c, h) : s < id
        BY <2>3, <1>3, <1>5
    <2>5. id \in Nat
        BY <1>5
    <2> QED
        BY ONLY k \in Nat, <2>1, <2>2, <2>3, <2>4, <2>5, StreamSends
<1>18. Serving'
    <2>1. buf' \in [Conn -> Seq(Frames)]
        BY <1>1, <1>8, <1>9 DEF Serving
    <2>2. /\ hpc' \in [Conn -> {"idle", "replay", "send", "stalled", "exhausted", "exit"}]
          /\ progress' \in [Conn -> Nat] /\ chunk' \in [Conn -> SUBSET Nat]
        BY <1>1, <1>5 DEF Serving
    <2> QED
        BY <1>1, <2>1, <2>2 DEF Serving
<1>19. /\ progress'[c] = id /\ chunk'[c] = chunk[c] \ {id}
       /\ hpc'[c] = IF chunk[c] = {id} THEN "replay" ELSE "send"
    BY <1>1 DEF Serving
<1>20. \A d \in Conn \ {c} : Kept(d)
    BY <1>1 DEF Kept, Serving
<1>21. Fine(c)'
    <2>1. Replaying(c)'
        <3>1. \A s \in Sent(c, h)' : s <= id
            <4>1. \A s \in Sent(c, h) : s \in Nat /\ s <= progress[c]
                BY <1>2, <1>3 DEF Ahead, Ids
            <4> QED
                BY <4>1, <1>5, <1>17
        <3>2. \A i \in chunk'[c] : id < i /\ i <= cursor[c] /\ i \in Ids
            <4>1. \A i \in chunk[c] : i \in Nat
                BY DEF Serving
            <4> QED
                BY <4>1, <1>3, <1>4, <1>5, <1>19
        <3>3. hpc'[c] = "send" => chunk'[c] # {}
            BY <1>4, <1>19
        <3> QED
            BY <3>1, <3>2, <3>3, <1>1, <1>2, <1>3, <1>5, <1>6, <1>19 DEF Replaying
    <2>2. ASSUME NEW n \in Name \ {h} PROVE Ahead(c, n)'
        BY <1>1, <1>2, <1>6, <1>16 DEF Ahead
    <2>3. Ahead(c, h)'
        <3>1. Sent(c, h)' \subseteq Ids'
            BY <1>2, <1>5, <1>6, <1>17 DEF Ahead
        <3>2. \A k \in 1 .. Len(owed) : ~(owed[k] > skip[c][h])
            BY <1>2, <1>6 DEF Storing, Ids
        <3> QED
            BY <3>1, <3>2, <1>1 DEF Ahead
    <2> QED
        BY <2>1, <2>2, <2>3, <1>16, <1>17 DEF Fine
<1>22. ASSUME Whole' PROVE Full(c)'
    <2>1. Whole /\ \A n \in Name : Wanted(c, n)' = Wanted(c, n)
        BY <1>1, <1>6, <1>22 DEF Whole, Wanted
    <2>2. Replayed(c)'
        <3>1. \A i \in Wanted(c, h) : i <= cursor[c] => i \in Sent(c, h) \/ i \in chunk[c]
            BY <2>1, <1>1 DEF Complete, Replayed
        <3>2. \A i \in Wanted(c, h) : i <= cursor[c] => i \in Sent(c, h)' \/ (hpc'[c] = "send" /\ i \in chunk'[c])
            BY <3>1, <1>17, <1>19
        <3> QED
            BY <3>2, <2>1, <1>1, <1>2, <1>19 DEF Replayed
    <2>3. ASSUME NEW n \in Name \ {h} PROVE Covered(c, n)'
        <3>1. Covered(c, n) /\ (Live(c, n)' => Live(c, n))
            BY <2>1, <1>1 DEF Complete, Live, Held
        <3> QED
            BY <3>1, <2>1, <1>1, <1>6, <1>16 DEF Covered
    <2>4. Covered(c, h)'
        BY <1>1 DEF Covered, Live
    <2> QED
        BY <2>2, <2>3, <2>4 DEF Full
<1>23. Storing' /\ InStep' /\ Complete'
    <2>1. errs' \in Nat /\ (errs' = 0 => errs = 0)
        BY <1>1 DEF Storing
    <2> QED
        BY <2>1, <1>1, <1>20, <1>21, <1>22, ConnStep
<1> QED
    BY <1>18, <1>23

-----------------------------------------------------------------------------
(* Beginning and ending a subscription                                     *)

\* A frame keeps all but its mark.
LEMMA RetagFrame ==
    ASSUME NEW f \in Frames, NEW ns, NEW g, g = [f EXCEPT !.current = @ /\ f.name \notin ns]
    PROVE g \in Frames /\ g.name = f.name /\ g.id = f.id /\ (g.current <=> f.current /\ f.name \notin ns)
<1>1. g \in Frames /\ g.name = f.name /\ g.id = f.id
    BY DEF Frames
<1>2. g.current = (f.current /\ f.name \notin ns)
    BY DEF Frames
<1> QED
    BY <1>1, <1>2, Zenon

\* Frames of an ended subscription leave its stream; the others stay, and a
\* confirmation counts for none.
LEMMA Retagged ==
    ASSUME Serving, NEW c \in Conn, NEW ns, NEW m \in Name, NEW r, r = Retag(c, ns),
           buf'[c] = r \/ buf'[c] = Append(r, Frame(m, 0)), NEW n
    PROVE /\ buf'[c] \in Seq(Frames)
          /\ n \in ns => Coming(c, n)' = {}
          /\ n \notin ns => Coming(c, n)' = Coming(c, n)
          /\ \A i \in Coming(c, n) : buf'[c][i].id = buf[c][i].id
<1> PICK b : b = buf[c]
    OBVIOUS
<1>1. b \in Seq(Frames) /\ Len(b) \in Nat /\ DOMAIN b = 1 .. Len(b) /\ \A i \in 1 .. Len(b) : b[i] \in Frames
    BY DEF Serving
<1>2. r = [i \in 1 .. Len(b) |-> [b[i] EXCEPT !.current = @ /\ b[i].name \notin ns]]
    BY <1>1 DEF Retag
<1>3. ASSUME NEW i \in 1 .. Len(b)
      PROVE r[i] \in Frames /\ r[i].name = b[i].name /\ r[i].id = b[i].id /\ (r[i].current <=> b[i].current /\ b[i].name \notin ns)
    <2>1. r[i] = [b[i] EXCEPT !.current = @ /\ b[i].name \notin ns] /\ b[i] \in Frames
        BY <1>1, <1>2
    <2> QED
        BY ONLY <2>1, RetagFrame
<1>4. r \in Seq(Frames) /\ Len(r) = Len(b)
    <2>1. \A i \in 1 .. Len(b) : r[i] \in Frames
        BY <1>3
    <2>2. r \in [1 .. Len(b) -> Frames]
        <3>1. DOMAIN r = 1 .. Len(b) /\ r = [i \in 1 .. Len(b) |-> r[i]]
            BY <1>2
        <3> QED
            BY <2>1, <3>1
    <2> QED
        BY <2>2, <1>1
<1>5. PICK f : f = Frame(m, 0)
    OBVIOUS
<1>6. f \in Frames /\ f.id = 0
    BY <1>5 DEF Frame, Frames
<1>7. /\ buf'[c] \in Seq(Frames) /\ \A i \in 1 .. Len(b) : buf'[c][i] = r[i] /\ i \in 1 .. Len(buf'[c])
      /\ \A i \in 1 .. Len(buf'[c]) : i \in 1 .. Len(b) \/ buf'[c][i].id = 0
    <2>1. CASE buf'[c] = r
        BY <2>1, <1>4
    <2>2. CASE buf'[c] = Append(r, f)
        <3> PICK a : a = Append(r, f)
            OBVIOUS
        <3>1. a \in Seq(Frames) /\ Len(a) = Len(b) + 1 /\ a[Len(b) + 1] = f /\ \A i \in 1 .. Len(b) : a[i] = r[i]
            BY <1>4, <1>6
        <3>2. (\A i \in 1 .. Len(b) : i \in 1 .. Len(b) + 1) /\ \A i \in 1 .. Len(b) + 1 : i \in 1 .. Len(b) \/ i = Len(b) + 1
            BY <1>1
        <3> QED
            BY <2>2, <3>1, <3>2, <1>6
    <2> QED
        BY <2>1, <2>2, <1>5
<1>8. \A i \in 1 .. Len(b) : i \in Coming(c, n)' <=> i \in Coming(c, n) /\ n \notin ns
    <2> SUFFICES ASSUME NEW i \in 1 .. Len(b) PROVE i \in Coming(c, n)' <=> i \in Coming(c, n) /\ n \notin ns
        OBVIOUS
    <2>1. i \in Coming(c, n)' <=> r[i].name = n /\ r[i].current /\ r[i].id # 0
        BY <1>7 DEF Coming
    <2>2. i \in Coming(c, n) <=> b[i].name = n /\ b[i].current /\ b[i].id # 0
        BY DEF Coming
    <2> QED
        BY <2>1, <2>2, <1>3, Zenon
<1>9. Coming(c, n) \subseteq 1 .. Len(b) /\ Coming(c, n)' \subseteq 1 .. Len(b)
    BY <1>7 DEF Coming
<1>10. \A i \in Coming(c, n) : buf'[c][i].id = buf[c][i].id
    BY <1>3, <1>7, <1>9
<1> QED
    BY <1>7, <1>8, <1>9, <1>10

\* SUBSCRIBE begins a session with an empty stream and everything suppressed.
LEMMA SubscribeStep ==
    ASSUME Storing, Serving, InStep, Complete, NEW c \in Conn, NEW n \in Name,
           NEW from \in Latest .. MaxInserted, Subscribe(c, n, from)
    PROVE Storing' /\ Serving' /\ InStep' /\ Complete'
<1> PICK p : p = IF from = Latest THEN MaxInserted ELSE from
    OBVIOUS
<1>1. /\ MaxInserted' = MaxInserted /\ Ids' = Ids /\ Suppressed' = Suppressed /\ MaxInserted \in Nat
      /\ (\A i : NotOwed(i)' <=> NotOwed(i)) /\ Suppressed \in Nat /\ p \in Nat /\ p <= MaxInserted
    <2>1. UNCHANGED <<published, owed, limits>>
        BY DEF Subscribe, storev
    <2>2. MaxInserted \in Nat /\ Suppressed \in Nat
        BY LimitTypes
    <2>3. p \in Nat /\ p <= MaxInserted
        BY <2>2 DEF Latest
    <2> QED
        BY <2>1, <2>2, <2>3 DEF MaxInserted, Ids, Suppressed, MaxId, NotOwed
<1>2. /\ UNCHANGED <<published, stored, order, owed, limits, errs, chunk, sock>>
      /\ hpc[c] = "idle" /\ hpc' = [hpc EXCEPT ![c] = "replay"]
      /\ skip' = [skip EXCEPT ![c][n] = Suppressed] /\ hname' = [hname EXCEPT ![c] = n]
      /\ watermark' = [watermark EXCEPT ![c] = MaxInserted] /\ progress' = [progress EXCEPT ![c] = p]
      /\ cursor' = [cursor EXCEPT ![c] = progress'[c]]
      /\ got' = [got EXCEPT ![c][n] = <<>>] /\ start' = [start EXCEPT ![c][n] = progress'[c]]
      /\ excused' = [excused EXCEPT ![c][n] = {}]
    BY DEF Subscribe, storev, Goto
<1>3. progress'[c] = p
    BY <1>2 DEF Serving
<1>4. /\ hpc'[c] = "replay" /\ hname'[c] = n /\ watermark'[c] = MaxInserted /\ cursor'[c] = p
      /\ skip'[c][n] = Suppressed /\ got'[c][n] = <<>> /\ start'[c][n] = p /\ sock'[c] = sock[c]
      /\ \A m \in Name \ {n} : /\ skip'[c][m] = skip[c][m] /\ got'[c][m] = got[c][m]
                               /\ start'[c][m] = start[c][m] /\ excused'[c][m] = excused[c][m]
    BY <1>2, <1>3 DEF Serving
<1> PICK r : r = Retag(c, {n})
    OBVIOUS
<1>5. /\ buf'[c] = r \/ buf'[c] = Append(r, Frame(n, 0))
      /\ \A d \in Conn \ {c} : buf'[d] = buf[d]
      /\ buf' = [d \in Conn |-> buf'[d]]
    BY DEF Subscribe, Serving
<1>6. ASSUME NEW m
      PROVE /\ buf'[c] \in Seq(Frames)
            /\ m \in {n} => Coming(c, m)' = {}
            /\ m \notin {n} => Coming(c, m)' = Coming(c, m)
            /\ \A i \in Coming(c, m) : buf'[c][i].id = buf[c][i].id
    <2>1. buf'[c] = r \/ buf'[c] = Append(r, Frame(n, 0))
        BY <1>5
    <2>2. r = Retag(c, {n})
        OBVIOUS
    <2> QED
        BY ONLY Serving, c \in Conn, n \in Name, <2>1, <2>2, Retagged
<1>7. Serving'
    <2>1. buf' \in [Conn -> Seq(Frames)]
        BY <1>5, <1>6 DEF Serving
    <2>2. /\ skip' \in [Conn -> [Name -> Int]] /\ got' \in [Conn -> [Name -> Seq(Nat)]]
          /\ start' \in [Conn -> [Name -> Nat]] /\ excused' \in [Conn -> [Name -> SUBSET Nat]]
        <3>1. <<>> \in Seq(Nat) /\ Suppressed \in Int
            BY <1>1
        <3>2. skip' \in [Conn -> [Name -> Int]]
            BY <1>2, <3>1 DEF Serving
        <3>3. got' \in [Conn -> [Name -> Seq(Nat)]]
            BY <1>2, <3>1 DEF Serving
        <3>4. start' \in [Conn -> [Name -> Nat]]
            BY <1>1, <1>2, <1>3 DEF Serving
        <3>5. excused' \in [Conn -> [Name -> SUBSET Nat]]
            BY <1>2 DEF Serving
        <3> QED
            BY <3>2, <3>3, <3>4, <3>5
    <2>3. /\ hpc' \in [Conn -> {"idle", "replay", "send", "stalled", "exhausted", "exit"}]
          /\ hname' \in [Conn -> Name \cup {Off}]
          /\ watermark' \in [Conn -> Nat] /\ cursor' \in [Conn -> Nat] /\ progress' \in [Conn -> Nat]
        BY <1>1, <1>2, <1>3 DEF Serving
    <2> QED
        BY <1>2, <2>1, <2>2, <2>3 DEF Serving
<1>8. \A d \in Conn \ {c} : Kept(d)
    BY <1>2, <1>5 DEF Kept, Serving
<1>9. Sent(c, n)' = {} /\ Ordered(c, n)'
    BY <1>4, <1>6, StreamEmpty
<1>10. ASSUME NEW m \in Name \ {n} PROVE Sent(c, m)' = Sent(c, m) /\ Ordered(c, m)' /\ Ahead(c, m) /\ hname[c] # m
    <2>1. Ordered(c, m) /\ Ahead(c, m) /\ hname[c] = Off
        BY <1>2 DEF InStep, Replaying
    <2>2. Coming(c, m)' = Coming(c, m) /\ got'[c][m] = got[c][m] /\ \A i \in Coming(c, m) : buf'[c][i].id = buf[c][i].id
        BY <1>4, <1>6
    <2>3. Sent(c, m)' = Sent(c, m) /\ (Ordered(c, m)' <=> Ordered(c, m))
        BY ONLY <2>2, StreamSame
    <2> QED
        BY <2>1, <2>3, PubSubAssumption
<1>11. Fine(c)'
    <2>1. Replaying(c)'
        BY <1>1, <1>3, <1>4, <1>9 DEF Replaying
    <2>2. ASSUME NEW m \in Name \ {n} PROVE Ahead(c, m)'
        BY <1>1, <1>2, <1>4, <1>10 DEF Ahead
    <2>3. Ahead(c, n)'
        BY <1>4, <1>9 DEF Ahead
    <2> QED
        BY <2>1, <2>2, <2>3, <1>9, <1>10 DEF Fine
<1>12. ASSUME Whole' PROVE Full(c)'
    <2>1. Whole /\ \A m \in Name \ {n} : Wanted(c, m)' = Wanted(c, m)
        BY <1>1, <1>2, <1>4, <1>12 DEF Whole, Wanted
    <2>2. Replayed(c)'
        <3>1. \A i \in Wanted(c, n)' : ~(i <= p)
            BY <1>1, <1>4 DEF Wanted, Ids
        <3> QED
            BY <3>1, <1>4 DEF Replayed
    <2>3. ASSUME NEW m \in Name \ {n} PROVE Covered(c, m)'
        <3>1. Covered(c, m) /\ (Live(c, m)' => Live(c, m))
            BY <2>1, <1>4, <1>10 DEF Complete, Live, Held
        <3> QED
            BY <3>1, <2>1, <1>1, <1>4, <1>10 DEF Covered
    <2>4. Covered(c, n)'
        BY <1>4 DEF Covered, Live
    <2> QED
        BY <2>2, <2>3, <2>4 DEF Full
<1>13. Storing' /\ InStep' /\ Complete'
    <2>1. errs' \in Nat /\ (errs' = 0 => errs = 0)
        BY <1>2 DEF Storing
    <2> QED
        BY <2>1, <1>2, <1>8, <1>11, <1>12, ConnStep
<1> QED
    BY <1>7, <1>13

\* UNSUBSCRIBE ends sessions; the others of the connection go on.
LEMMA UnsubscribeStep ==
    ASSUME Storing, Serving, InStep, Complete, NEW c \in Conn, NEW ns \in SUBSET Name, Unsubscribe(c, ns)
    PROVE Storing' /\ Serving' /\ InStep' /\ Complete'
<1>1. /\ UNCHANGED <<published, stored, order, owed, limits, errs, sock, hpc, hname, watermark, cursor, progress, chunk>>
      /\ hpc[c] = "idle" /\ buf' = [buf EXCEPT ![c] = Retag(c, ns)]
      /\ skip' = [d \in Conn |-> [n \in Name |-> IF n \in [e \in Conn |-> IF e = c THEN ns ELSE {}][d] THEN Off ELSE skip[d][n]]]
      /\ got' = [got EXCEPT ![c] = [n \in Name |-> IF n \in ns THEN <<>> ELSE got[c][n]]]
      /\ start' = [start EXCEPT ![c] = [n \in Name |-> IF n \in ns THEN 0 ELSE start[c][n]]]
      /\ excused' = [excused EXCEPT ![c] = [n \in Name |-> IF n \in ns THEN {} ELSE excused[c][n]]]
    BY DEF Unsubscribe, EndSession, Unregister, storev, handler, bounds
<1>2. /\ MaxInserted' = MaxInserted /\ Ids' = Ids /\ Suppressed' = Suppressed /\ MaxInserted \in Nat
      /\ (\A i : NotOwed(i)' <=> NotOwed(i))
    BY <1>1, LimitTypes DEF MaxInserted, Ids, Suppressed, MaxId, NotOwed
<1>3. \A d \in Conn, n \in Name : skip'[d][n] = IF d = c /\ n \in ns THEN Off ELSE skip[d][n]
    BY <1>1
<1>4. /\ \A n \in ns : got'[c][n] = <<>>
      /\ \A n \in Name \ ns : got'[c][n] = got[c][n] /\ start'[c][n] = start[c][n] /\ excused'[c][n] = excused[c][n]
    BY <1>1 DEF Serving
<1>5. ASSUME NEW m, NEW n \in Name
      PROVE /\ buf'[c] \in Seq(Frames)
            /\ m \in ns => Coming(c, m)' = {}
            /\ m \notin ns => Coming(c, m)' = Coming(c, m)
            /\ \A i \in Coming(c, m) : buf'[c][i].id = buf[c][i].id
    <2> PICK r : r = Retag(c, ns)
        OBVIOUS
    <2>1. buf'[c] = r /\ r = Retag(c, ns)
        BY <1>1 DEF Serving
    <2> QED
        BY ONLY Serving, c \in Conn, n \in Name, <2>1, Retagged
<1>6. Serving'
    <2>1. buf' \in [Conn -> Seq(Frames)]
        <3>1. CASE Name # {}
            <4>1. buf'[c] \in Seq(Frames)
                BY <3>1, <1>5
            <4> QED
                BY <4>1, <1>1 DEF Serving
        <3>2. CASE Name = {}
            <4>1. Frames = {}
                BY <3>2 DEF Frames
            <4>2. buf[c] \in Seq(Frames) /\ Len(buf[c]) \in Nat /\ DOMAIN buf[c] = 1 .. Len(buf[c])
                BY DEF Serving
            <4>3. \A i \in 1 .. Len(buf[c]) : buf[c][i] \in Frames
                BY <4>2
            <4>4. DOMAIN buf[c] = {}
                BY <4>1, <4>2, <4>3
            <4>5. Retag(c, ns) \in Seq(Frames)
                <5>1. DOMAIN buf[c] = 1 .. 0
                    BY <4>4
                <5>2. Retag(c, ns) \in [1 .. 0 -> Frames]
                    BY <4>4, <5>1 DEF Retag
                <5> QED
                    BY <5>2
            <4> QED
                BY <4>5, <1>1 DEF Serving
        <3> QED
            BY <3>1, <3>2
    <2>2. skip' \in [Conn -> [Name -> Int]]
        <3>1. \A d \in Conn, n \in Name : (IF n \in [e \in Conn |-> IF e = c THEN ns ELSE {}][d] THEN Off ELSE skip[d][n]) \in Int
            BY DEF Serving, Off
        <3> QED
            BY <3>1, <1>1
    <2>3. got' \in [Conn -> [Name -> Seq(Nat)]]
        <3>1. \A n \in Name : (IF n \in ns THEN <<>> ELSE got[c][n]) \in Seq(Nat)
            BY DEF Serving
        <3> QED
            BY <3>1, <1>1 DEF Serving
    <2>4. start' \in [Conn -> [Name -> Nat]] /\ excused' \in [Conn -> [Name -> SUBSET Nat]]
        BY <1>1 DEF Serving
    <2> QED
        BY <1>1, <2>1, <2>2, <2>3, <2>4 DEF Serving
<1>7. \A d \in Conn \ {c} : Kept(d)
    <2>1. \A d \in Conn \ {c} : skip'[d] = skip[d]
        <3>1. \A d \in Conn : skip[d] \in [Name -> Int] /\ skip'[d] \in [Name -> Int]
            BY <1>6 DEF Serving
        <3> QED
            BY <3>1, <1>3
    <2> QED
        BY <1>1, <2>1 DEF Kept, Serving
<1>8. ASSUME NEW n \in ns PROVE Sent(c, n)' = {} /\ Ordered(c, n)' /\ skip'[c][n] = Off
    BY <1>3, <1>4, <1>5, StreamEmpty
<1>9. ASSUME NEW n \in Name \ ns PROVE Sent(c, n)' = Sent(c, n) /\ Ordered(c, n)' /\ Ahead(c, n) /\ skip'[c][n] = skip[c][n]
    <2>1. Ordered(c, n) /\ Ahead(c, n)
        BY DEF InStep
    <2>2. Coming(c, n)' = Coming(c, n) /\ got'[c][n] = got[c][n] /\ \A i \in Coming(c, n) : buf'[c][i].id = buf[c][i].id
        BY <1>4, <1>5
    <2>3. Sent(c, n)' = Sent(c, n) /\ (Ordered(c, n)' <=> Ordered(c, n))
        BY ONLY <2>2, StreamSame
    <2> QED
        BY <2>1, <2>3, <1>3
<1>10. Fine(c)'
    <2>1. Replaying(c)'
        BY <1>1 DEF InStep, Replaying
    <2>2. ASSUME NEW n \in Name \ ns PROVE Ahead(c, n)'
        BY <1>1, <1>2, <1>9 DEF Ahead
    <2>3. ASSUME NEW n \in ns PROVE Ahead(c, n)'
        BY <1>2, <1>8 DEF Ahead, Off
    <2> QED
        BY <2>1, <2>2, <2>3, <1>8, <1>9 DEF Fine
<1>11. ASSUME Whole' PROVE Full(c)'
    <2>1. Whole /\ \A m \in Name \ ns : Wanted(c, m)' = Wanted(c, m)
        BY <1>1, <1>2, <1>4, <1>11 DEF Whole, Wanted
    <2>2. Replayed(c)'
        BY <1>1 DEF Replayed
    <2>3. ASSUME NEW m \in Name \ ns PROVE Covered(c, m)'
        <3>1. Covered(c, m) /\ (Live(c, m)' => Live(c, m))
            BY <2>1, <1>1, <1>9 DEF Complete, Live, Held
        <3> QED
            BY <3>1, <2>1, <1>2, <1>4, <1>9 DEF Covered
    <2>4. ASSUME NEW m \in ns PROVE Covered(c, m)'
        BY <1>8 DEF Covered, Live, Held
    <2> QED
        BY <2>2, <2>3, <2>4 DEF Full
<1>12. Storing' /\ InStep' /\ Complete'
    <2>1. errs' \in Nat /\ (errs' = 0 => errs = 0)
        BY <1>1 DEF Storing
    <2> QED
        BY <2>1, <1>1, <1>7, <1>10, <1>11, ConnStep
<1> QED
    BY <1>6, <1>12

\* The writer task hands over the oldest frame: streams stay as they are.
LEMMA ReceiveStep ==
    ASSUME Storing, Serving, InStep, Complete, NEW c \in Conn, Receive(c)
    PROVE Storing' /\ Serving' /\ InStep' /\ Complete'
<1> PICK f : f = Head(buf[c])
    OBVIOUS
<1>1. /\ UNCHANGED <<published, stored, order, owed, limits, errs, skip, sock, hpc, hname, watermark, cursor, progress,
                     chunk, start, excused>>
      /\ buf[c] # <<>> /\ buf' = [buf EXCEPT ![c] = Tail(@)]
      /\ got' = IF f.current /\ f.id # 0 THEN [got EXCEPT ![c][f.name] = Append(@, f.id)] ELSE got
    BY DEF Receive, storev, registry, handler, bounds, session
<1>2. /\ MaxInserted' = MaxInserted /\ Ids' = Ids /\ Suppressed' = Suppressed
      /\ (\A i : NotOwed(i)' <=> NotOwed(i)) /\ \A n : Wanted(c, n)' = Wanted(c, n)
    BY <1>1 DEF MaxInserted, Ids, Suppressed, MaxId, NotOwed, Wanted
<1>3. /\ buf[c] \in Seq(Frames) /\ Len(buf[c]) \in Nat /\ Len(buf[c]) > 0 /\ f = buf[c][1] /\ f \in Frames
      /\ 1 \in 1 .. Len(buf[c]) /\ Tail(buf[c]) \in Seq(Frames) /\ buf'[c] = Tail(buf[c])
    BY <1>1 DEF Serving
<1>4. f.name \in Name /\ f.id \in Nat
    BY <1>3 DEF Frames
<1>5. \A n : 1 \in Coming(c, n) <=> f.name = n /\ f.current /\ f.id # 0
    BY <1>3 DEF Coming
<1>6. Serving'
    <2>1. buf' \in [Conn -> Seq(Frames)]
        BY <1>1, <1>3 DEF Serving
    <2>2. got' \in [Conn -> [Name -> Seq(Nat)]]
        <3>1. got[c][f.name] \in Seq(Nat)
            BY <1>4 DEF Serving
        <3>2. Append(got[c][f.name], f.id) \in Seq(Nat)
            BY <3>1, <1>4
        <3>3. [got EXCEPT ![c][f.name] = Append(@, f.id)] \in [Conn -> [Name -> Seq(Nat)]]
            BY <3>2, <1>4 DEF Serving
        <3> QED
            BY <3>3, <1>1 DEF Serving
    <2> QED
        BY <1>1, <2>1, <2>2 DEF Serving
<1>7. \A d \in Conn \ {c} : Kept(d)
    BY <1>1 DEF Kept, Serving
<1>8. ASSUME NEW n \in Name PROVE Sent(c, n)' = Sent(c, n) /\ Ordered(c, n)' /\ Ahead(c, n)
    <2>1. Ordered(c, n) /\ Ahead(c, n)
        BY DEF InStep
    <2>2. Sent(c, n) \subseteq Nat
        BY <2>1 DEF Ahead, Ids
    <2>3. got'[c][n] = IF 1 \in Coming(c, n) THEN Append(got[c][n], buf[c][1].id) ELSE got[c][n]
        <3>1. CASE f.current /\ f.id # 0
            <4>1. got'[c][n] = IF n = f.name THEN Append(got[c][n], f.id) ELSE got[c][n]
                BY <3>1, <1>1, <1>4 DEF Serving
            <4> QED
                BY <4>1, <3>1, <1>3, <1>5
        <3>2. CASE ~(f.current /\ f.id # 0)
            BY <3>2, <1>1, <1>5
        <3> QED
            BY <3>1, <3>2
    <2>4. buf[c] # <<>> /\ buf'[c] = Tail(buf[c])
        BY <1>1, <1>3
    <2> QED
        BY ONLY Serving, c \in Conn, n \in Name, <2>1, <2>2, <2>3, <2>4, StreamReceives
<1>9. Fine(c)'
    <2>1. Replaying(c)'
        BY <1>1, <1>2, <1>8 DEF InStep, Replaying
    <2>2. ASSUME NEW n \in Name PROVE Ahead(c, n)'
        BY <1>1, <1>2, <1>8 DEF Ahead
    <2> QED
        BY <2>1, <2>2, <1>8 DEF Fine
<1>10. ASSUME Whole' PROVE Full(c)'
    <2>1. Whole
        BY <1>1, <1>2, <1>10 DEF Whole
    <2>2. Replayed(c)'
        <3>1. Replayed(c) /\ (hpc[c] # "idle" => hname[c] \in Name)
            BY <2>1 DEF Complete, InStep, Replaying
        <3> QED
            BY <3>1, <1>1, <1>2, <1>8 DEF Replayed
    <2>3. ASSUME NEW n \in Name PROVE Covered(c, n)'
        <3>1. Covered(c, n) /\ (Live(c, n)' => Live(c, n))
            BY <2>1, <1>1 DEF Complete, Live, Held
        <3> QED
            BY <3>1, <1>1, <1>2, <1>8 DEF Covered
    <2> QED
        BY <2>2, <2>3 DEF Full
<1>11. Storing' /\ InStep' /\ Complete'
    <2>1. errs' \in Nat /\ (errs' = 0 => errs = 0)
        BY <1>1 DEF Storing
    <2> QED
        BY <2>1, <1>1, <1>7, <1>9, <1>10, ConnStep
<1> QED
    BY <1>6, <1>11

\* A lost connection: what its channel held is gone.
LEMMA CloseStep ==
    ASSUME Storing, Serving, InStep, Complete, NEW c \in Conn, Close(c)
    PROVE Storing' /\ Serving' /\ InStep' /\ Complete'
<1>1. /\ UNCHANGED <<published, stored, order, owed, limits, errs, skip, got, hpc, hname, watermark, cursor, progress,
                     chunk, start, excused>>
      /\ buf' = [buf EXCEPT ![c] = <<>>] /\ sock' = [sock EXCEPT ![c] = "closed"]
    BY DEF Close, storev, registry, handler, bounds, session
<1>2. MaxInserted' = MaxInserted /\ Ids' = Ids /\ Suppressed' = Suppressed
    BY <1>1 DEF MaxInserted, Ids, Suppressed, MaxId
<1>3. buf'[c] = <<>> /\ sock'[c] = "closed"
    BY <1>1 DEF Serving
<1>4. Serving'
    <2>1. <<>> \in Seq(Frames)
        OBVIOUS
    <2> QED
        BY <1>1, <2>1 DEF Serving
<1>5. \A d \in Conn \ {c} : Kept(d)
    BY <1>1 DEF Kept, Serving
<1>6. ASSUME NEW n \in Name PROVE Sent(c, n)' \subseteq Sent(c, n) /\ Ordered(c, n)' /\ Ahead(c, n)
    <2>1. Coming(c, n)' = {} /\ got'[c][n] = got[c][n]
        BY <1>1, <1>3 DEF Coming
    <2>2. Ordered(c, n) /\ Ahead(c, n)
        BY DEF InStep
    <2> QED
        BY <2>1, <2>2, StreamCloses
<1>7. Fine(c)'
    <2>1. Replaying(c)'
        BY <1>1, <1>2, <1>3, <1>6 DEF InStep, Replaying
    <2>2. ASSUME NEW n \in Name PROVE Ahead(c, n)'
        BY <1>1, <1>2, <1>6 DEF Ahead
    <2> QED
        BY <2>1, <2>2, <1>6 DEF Fine
<1>8. Full(c)'
    BY <1>3 DEF Full, Replayed, Covered, Live
<1>9. Storing' /\ InStep' /\ Complete'
    <2>1. errs' \in Nat /\ (errs' = 0 => errs = 0)
        BY <1>1 DEF Storing
    <2> QED
        BY <2>1, <1>1, <1>5, <1>7, <1>8, ConnStep
<1> QED
    BY <1>4, <1>9

\* remove_conn: a connection that is gone has no subscriptions.
LEMMA RemoveStep ==
    ASSUME Storing, Serving, InStep, Complete, NEW c \in Conn, RemoveConn(c)
    PROVE Storing' /\ Serving' /\ InStep' /\ Complete'
<1>1. /\ UNCHANGED <<published, stored, order, owed, limits, errs, buf, got, hpc, hname, watermark, cursor, progress,
                     chunk, start, excused>>
      /\ hpc[c] = "idle" /\ sock' = [sock EXCEPT ![c] = "gone"]
      /\ skip' = [d \in Conn |-> [n \in Name |-> IF n \in [e \in Conn |-> IF e = c THEN Name ELSE {}][d] THEN Off ELSE skip[d][n]]]
    BY DEF RemoveConn, Unregister, storev, handler, bounds, session
<1>2. MaxInserted' = MaxInserted /\ Ids' = Ids /\ Suppressed' = Suppressed /\ MaxInserted \in Nat
    BY <1>1, LimitTypes DEF MaxInserted, Ids, Suppressed, MaxId
<1>3. /\ \A d \in Conn, n \in Name : skip'[d][n] = IF d = c THEN Off ELSE skip[d][n]
      /\ sock'[c] = "gone"
    BY <1>1 DEF Serving
<1>4. Serving'
    <2>1. skip' \in [Conn -> [Name -> Int]]
        <3>1. \A d \in Conn, n \in Name : (IF n \in [e \in Conn |-> IF e = c THEN Name ELSE {}][d] THEN Off ELSE skip[d][n]) \in Int
            BY DEF Serving, Off
        <3> QED
            BY <3>1, <1>1
    <2> QED
        BY <1>1, <2>1 DEF Serving
<1>5. \A d \in Conn \ {c} : Kept(d)
    <2>1. \A d \in Conn \ {c} : skip'[d] = skip[d]
        <3>1. \A d \in Conn : skip[d] \in [Name -> Int] /\ skip'[d] \in [Name -> Int]
            BY <1>4 DEF Serving
        <3> QED
            BY <3>1, <1>3
    <2> QED
        BY <1>1, <2>1 DEF Kept, Serving
<1>6. ASSUME NEW n \in Name PROVE Ordered(c, n)' /\ Ahead(c, n)'
    <2>1. Coming(c, n)' = Coming(c, n) /\ got'[c][n] = got[c][n] /\ buf' = buf
        BY <1>1 DEF Coming
    <2>2. Sent(c, n)' = Sent(c, n) /\ (Ordered(c, n)' <=> Ordered(c, n))
        BY <2>1, StreamSame
    <2>3. Ordered(c, n) /\ Ahead(c, n)
        BY DEF InStep
    <2> QED
        BY <2>2, <2>3, <1>2, <1>3 DEF Ahead, Off
<1>7. Fine(c)'
    BY <1>1, <1>6 DEF InStep, Replaying, Fine
<1>8. Full(c)'
    BY <1>3 DEF Full, Replayed, Covered, Live
<1>9. Storing' /\ InStep' /\ Complete'
    <2>1. errs' \in Nat /\ (errs' = 0 => errs = 0)
        BY <1>1 DEF Storing
    <2> QED
        BY <2>1, <1>1, <1>5, <1>7, <1>8, ConnStep
<1> QED
    BY <1>4, <1>9

-----------------------------------------------------------------------------
(* The counters through every step                                         *)

\* Exact counters are naturals.
LEMMA CountsNatural ==
    ASSUME CountsExact', counts' = [c \in Conn |-> counts'[c]]
    PROVE Counting'
<1>1. \A c \in Conn : counts'[c] \in Nat
    <2> SUFFICES ASSUME NEW c \in Conn PROVE counts'[c] \in Nat
        OBVIOUS
    <2> PICK S : S = Held(c)'
        OBVIOUS
    <2>1. S \in SUBSET Name /\ counts'[c] = Cardinality(S)
        BY DEF Held, CountsExact
    <2>2. IsFiniteSet(S)
        BY <2>1, PubSubAssumption, FS_Subset
    <2> QED
        BY <2>1, <2>2, FS_CardinalityType
<1> QED
    BY <1>1 DEF Counting

\* Steps that leave the registry alone.
LEMMA CountsIdle ==
    ASSUME Counting, UNCHANGED registry
    PROVE Counting'
<1>1. UNCHANGED <<skip, counts, total>>
    BY DEF registry
<1>2. CountsExact'
    BY <1>1, CountsSame DEF Counting
<1> QED
    BY <1>1, <1>2 DEF Counting

\* Arming a filter neither adds nor removes a subscription.
LEMMA CountsArm ==
    ASSUME Counting, Serving, NEW c \in Conn, hname[c] \in Name, NEW v \in Nat, ArmFilter(c, v), UNCHANGED <<counts, total>>
    PROVE Counting'
<1>1. \A d \in Conn, n \in Name : skip'[d][n] = IF d = c /\ n = hname[c] THEN IF skip[d][n] = Off THEN Off ELSE v ELSE skip[d][n]
    BY DEF ArmFilter, Serving
<1>2. \A d \in Conn, n \in Name : skip'[d][n] = Off <=> skip[d][n] = Off
    BY <1>1 DEF Off
<1>3. CountsExact'
    BY <1>2, CountsSame DEF Counting
<1> QED
    BY <1>3 DEF Counting

\* Pruning subtracts the subscriptions of dead connections that were found.
LEMMA CountsNotify ==
    ASSUME Counting, Notify
    PROVE Counting'
<1> PICK gone : gone = [c \in Conn |-> Pruned(c, Head(owed))]
    OBVIOUS
<1>1. Unregister(gone) /\ Uncount(gone)
    BY DEF Notify
<1>2. \A c \in Conn : gone[c] = gone[c] \cap Held(c)
    BY DEF Pruned, Targets
<1>3. CountsExact'
    BY <1>1, <1>2, CountsDrop DEF Counting
<1>4. counts' = [c \in Conn |-> counts'[c]]
    BY <1>1 DEF Uncount
<1> QED
    BY <1>3, <1>4, CountsNatural

\* UNSUBSCRIBE subtracts those it found.
LEMMA CountsUnsubscribe ==
    ASSUME Counting, NEW c \in Conn, NEW ns, Unsubscribe(c, ns)
    PROVE Counting'
<1> PICK gone : gone = [d \in Conn |-> IF d = c THEN ns ELSE {}]
    OBVIOUS
<1> PICK less : less = [d \in Conn |-> IF d = c THEN ns \cap Held(c) ELSE {}]
    OBVIOUS
<1>1. Unregister(gone) /\ Uncount(less)
    BY DEF Unsubscribe
<1>2. \A d \in Conn : less[d] = gone[d] \cap Held(d)
    OBVIOUS
<1>3. CountsExact'
    BY <1>1, <1>2, CountsDrop DEF Counting
<1>4. counts' = [d \in Conn |-> counts'[d]]
    BY <1>1 DEF Uncount
<1> QED
    BY <1>3, <1>4, CountsNatural

\* SUBSCRIBE counts a new subscription, remove_conn forgets a connection.
LEMMA CountsSubscribe ==
    ASSUME Storing, Serving, Counting, NEW c \in Conn, NEW n \in Name, NEW from, Subscribe(c, n, from)
    PROVE Counting'
<1>1. Count(c, n) /\ skip' = [skip EXCEPT ![c][n] = Suppressed] /\ Suppressed \in Int /\ Suppressed # Off
    BY LimitTypes DEF Subscribe, Off
<1>2. CountsExact'
    BY <1>1, CountsAdd DEF Counting
<1>3. counts' = [d \in Conn |-> counts'[d]]
    BY <1>1 DEF Count, Counting
<1> QED
    BY <1>2, <1>3, CountsNatural

\* remove_conn subtracts what the connection held.
LEMMA CountsGone ==
    ASSUME Counting, NEW c \in Conn, RemoveConn(c)
    PROVE Counting'
<1>1. /\ Unregister([d \in Conn |-> IF d = c THEN Name ELSE {}])
      /\ total' = total - Cardinality(Held(c)) /\ counts' = [counts EXCEPT ![c] = 0]
    BY DEF RemoveConn
<1>2. CountsExact'
    BY <1>1, CountsRemove DEF Counting
<1> QED
    BY <1>1, <1>2 DEF Counting

-----------------------------------------------------------------------------
(* The invariant holds                                                     *)

\* Publishes and drains store a message and owe its notification, or fail.
LEMMA PublishStep ==
    ASSUME Storing, Serving, InStep, Complete, NEW ch \in Channel,
           Publish(ch) \/ PublishErrs(ch) \/ DrainInsert(ch)
    PROVE Storing' /\ Serving' /\ InStep' /\ Complete'
<1>1. /\ UNCHANGED <<skip, sock, buf, got, hpc, hname, watermark, cursor, progress, chunk, start, excused, limits>>
    BY DEF Publish, PublishErrs, DrainInsert, registry, handler, client, bounds, session
<1>2. Serving' /\ \A d \in Conn : Kept(d)
    BY <1>1 DEF Serving, Kept
<1>3. PICK keep \in Nat \ {0} : Insert(ch, keep)
    <2>1. Keeps \subseteq Nat \ {0} /\ MaxId \in Nat /\ MaxInserted \in Nat
        BY LimitTypes
    <2>2. CASE Publish(ch)
        BY <2>1, <2>2 DEF Publish
    <2>3. CASE PublishErrs(ch) \/ DrainInsert(ch)
        <3>1. Insert(ch, MaxId)
            BY <2>3 DEF PublishErrs, DrainInsert
        <3>2. MaxId # 0
            BY <2>1, <3>1 DEF Insert
        <3> QED
            BY <2>1, <3>1, <3>2
    <2> QED
        BY <2>2, <2>3
<1>4. \/ owed' = Append(owed, MaxInserted + 1) /\ errs' = errs
      \/ owed' = owed /\ errs' = errs + 1
    <2>1. CASE Publish(ch)
        <3>1. owed = <<>> /\ owed' = <<MaxInserted + 1>> /\ errs' = errs
            BY <2>1 DEF Publish, Storing, bounds
        <3>2. Append(<<>>, MaxInserted + 1) = <<MaxInserted + 1>>
            OBVIOUS
        <3> QED
            BY <3>1, <3>2
    <2>2. CASE PublishErrs(ch)
        BY <2>2 DEF PublishErrs
    <2>3. CASE DrainInsert(ch)
        BY <2>3 DEF DrainInsert, bounds
    <2> QED
        BY <2>1, <2>2, <2>3
<1>5. order' = "free" => owed' = <<>>
    BY DEF Publish, PublishErrs, DrainInsert, Storing
<1>6. Storing' /\ InStep' /\ Complete'
    BY <1>1, <1>2, <1>3, <1>4, <1>5, InsertStep
<1> QED
    BY <1>2, <1>6

\* Every action preserves the invariant.
LEMMA Inductive == IInv /\ [Next]_vars => IInv'
<1> SUFFICES ASSUME Storing, Serving, InStep, Complete, Counting, [Next]_vars PROVE IInv'
    BY DEF IInv
<1>1. ASSUME NEW ch \in limits.channels, Publish(ch) \/ PublishErrs(ch) \/ DrainInsert(ch) PROVE IInv'
    <2>1. ch \in Channel
        BY LimitTypes
    <2>2. UNCHANGED registry
        BY <1>1 DEF Publish, PublishErrs, DrainInsert
    <2> QED
        BY <2>1, <2>2, <1>1, PublishStep, CountsIdle DEF IInv
<1>2. ASSUME NEW ch \in limits.channels, NEW keep \in Keeps, Trim(ch, keep) PROVE IInv'
    <2>1. /\ UNCHANGED <<published, order, owed, errs, limits>> /\ stored' \subseteq stored
          /\ UNCHANGED <<skip, sock, buf, got, hpc, hname, watermark, cursor, progress, chunk, start, excused, registry>>
        BY <1>2 DEF Trim, registry, handler, client, session
    <2>2. Serving' /\ \A d \in Conn : Kept(d)
        BY <2>1 DEF Serving, Kept
    <2> QED
        BY <2>1, <2>2, TrimStep, CountsIdle DEF IInv
<1>3. ASSUME Notify PROVE IInv'
    BY <1>3, NotifyStep, CountsNotify DEF IInv
<1>4. ASSUME NEW c \in limits.conns, NEW n \in limits.names, NEW from \in Latest .. MaxInserted, Subscribe(c, n, from) PROVE IInv'
    <2>1. c \in Conn /\ n \in Name
        BY LimitTypes
    <2> QED
        BY <2>1, <1>4, SubscribeStep, CountsSubscribe DEF IInv
<1>5. ASSUME NEW c \in limits.conns, Handler(c) PROVE IInv'
    <2>1. c \in Conn
        BY LimitTypes
    <2>2. hpc[c] # "idle" => hname[c] \in Name /\ progress[c] \in Nat
        BY <2>1 DEF InStep, Replaying, Serving
    <2>3. CASE ReadChunk(c)
        BY <2>1, <2>3, ReadChunkStep, CountsIdle DEF IInv, ReadChunk
    <2>4. CASE ReadFails(c)
        BY <2>1, <2>4, ReadFailsStep, CountsIdle DEF IInv, ReadFails
    <2>5. CASE SendReplay(c)
        BY <2>1, <2>5, SendReplayStep, CountsIdle DEF IInv, SendReplay
    <2>6. CASE SendFails(c)
        BY <2>1, <2>6, SendFailsStep, CountsIdle DEF IInv, SendFails
    <2>7. CASE Resample(c)
        BY <2>1, <2>7, ResampleStep, CountsIdle DEF IInv, Resample
    <2>8. CASE ArmProgress(c)
        <3>1. hpc[c] # "idle" /\ ArmFilter(c, progress[c]) /\ UNCHANGED <<counts, total>>
            BY <2>8 DEF ArmProgress
        <3>2. Counting'
            BY <2>1, <2>2, <3>1, CountsArm
        <3> QED
            BY <2>1, <2>8, <3>2, ArmProgressStep DEF IInv
    <2>9. CASE Exit(c)
        <3>1. hpc[c] # "idle" /\ UNCHANGED <<counts, total>> /\ (ArmFilter(c, MaxInserted) \/ skip' = skip)
            BY <2>9 DEF Exit
        <3>2. MaxInserted \in Nat
            BY LimitTypes
        <3>3. Counting'
            BY <2>1, <2>2, <3>1, <3>2, CountsArm, CountsIdle DEF registry
        <3> QED
            BY <2>1, <2>9, <3>3, ExitStep DEF IInv
    <2> QED
        BY <1>5, <2>3, <2>4, <2>5, <2>6, <2>7, <2>8, <2>9 DEF Handler
<1>6. ASSUME NEW c \in limits.conns, NEW ns \in (SUBSET (limits.names \cap Channel)) \cup (SUBSET (limits.names \cap Pattern)),
             Unsubscribe(c, ns)
      PROVE IInv'
    <2>1. c \in Conn /\ ns \in SUBSET Name
        BY LimitTypes
    <2> QED
        BY <2>1, <1>6, UnsubscribeStep, CountsUnsubscribe DEF IInv
<1>7. ASSUME NEW c \in limits.conns, Receive(c) \/ Close(c) \/ RemoveConn(c) PROVE IInv'
    <2>1. c \in Conn
        BY LimitTypes
    <2>2. CASE Receive(c)
        BY <2>1, <2>2, ReceiveStep, CountsIdle DEF IInv, Receive
    <2>3. CASE Close(c)
        BY <2>1, <2>3, CloseStep, CountsIdle DEF IInv, Close
    <2>4. CASE RemoveConn(c)
        BY <2>1, <2>4, RemoveStep, CountsGone DEF IInv
    <2> QED
        BY <1>7, <2>2, <2>3, <2>4
<1>8. ASSUME UNCHANGED vars PROVE IInv'
    <2>1. /\ UNCHANGED <<published, stored, order, owed, limits, errs, registry>>
          /\ UNCHANGED <<skip, sock, buf, got, hpc, hname, watermark, cursor, progress, chunk, start, excused>>
        BY <1>8 DEF vars, storev, registry, handler, client, bounds, session
    <2>2. Serving' /\ \A d \in Conn : Kept(d)
        BY <2>1 DEF Serving, Kept
    <2> QED
        BY <2>1, <2>2, TrimStep, CountsIdle DEF IInv
<1> QED
    BY <1>1, <1>2, <1>3, <1>4, <1>5, <1>6, <1>7, <1>8 DEF Next

\* A server starts with an empty store and no subscription.
LEMMA Initially == Init => IInv
<1> SUFFICES ASSUME Init PROVE IInv
    OBVIOUS
<1>1. /\ published = <<>> /\ stored = {} /\ owed = <<>> /\ errs = 0 /\ limits \in Limits
      /\ skip = [c \in Conn |-> [n \in Name |-> Off]] /\ got = [c \in Conn |-> [n \in Name |-> <<>>]]
      /\ start = [c \in Conn |-> [n \in Name |-> 0]] /\ excused = [c \in Conn |-> [n \in Name |-> {}]]
      /\ counts = [c \in Conn |-> 0] /\ total = 0
      /\ sock = [c \in Conn |-> "open"] /\ buf = [c \in Conn |-> <<>>]
      /\ hpc = [c \in Conn |-> "idle"] /\ hname = [c \in Conn |-> Off]
      /\ watermark = [c \in Conn |-> 0] /\ cursor = watermark /\ progress = watermark
      /\ chunk = [c \in Conn |-> {}]
    BY DEF Init, PerSub
<1>2. MaxInserted = 0 /\ Ids = {}
    BY <1>1 DEF MaxInserted, Ids
<1>3. Storing
    <2>1. limits.id \in Nat
        BY <1>1, PubSubAssumption
    <2>2. <<>> \in Seq(Channel) /\ <<>> \in Seq(Nat) /\ Len(<<>>) = 0
        OBVIOUS
    <2> QED
        BY <1>1, <1>2, <2>1, <2>2 DEF Storing, MaxId
<1>4. Serving
    BY <1>1 DEF Serving, Off
<1>5. ASSUME NEW c \in Conn, NEW n \in Name PROVE Sent(c, n) = {} /\ Ordered(c, n) /\ Ahead(c, n) /\ Covered(c, n)
    <2>1. Coming(c, n) = {} /\ got[c][n] = <<>>
        BY <1>1 DEF Coming
    <2>2. Sent(c, n) = {}
        BY <2>1 DEF Sent
    <2>3. Ordered(c, n)
        BY <2>1 DEF Ordered
    <2>4. Ahead(c, n) /\ Covered(c, n)
        BY <2>2, <1>1, <1>2 DEF Ahead, Covered, Live, Held, Off
    <2> QED
        BY <2>2, <2>3, <2>4
<1>6. InStep /\ Complete
    BY <1>1, <1>5 DEF InStep, Complete, Replaying, Replayed
<1>7. Counting
    <2>1. (\A c \in Conn : Held(c) = {}) /\ Registered = {}
        BY <1>1 DEF Held, Registered
    <2>2. Tallied
        BY <1>1, <2>1, FS_EmptySet DEF Tallied
    <2> QED
        BY <2>2, <1>1, CountsAre DEF Counting
<1> QED
    BY <1>3, <1>4, <1>6, <1>7 DEF IInv

\* The invariant holds in every reachable state, for any number of
\* connections, channels and patterns, any interleaving of publishes, drains,
\* trims, replays and connection losses.
THEOREM Invariant == Spec => []IInv
<1>1. IInv /\ UNCHANGED vars => IInv'
    BY Inductive
<1> QED
    BY Initially, Inductive, PTL DEF Spec

\* CountsExact: the O(1) counters Inner::counts and Inner::total agree with
\* the registry after every register, notify, unsubscribe and remove_conn.
THEOREM CountersExact == Spec => []CountsExact
<1>1. IInv => CountsExact
    BY DEF IInv, Counting
<1> QED
    BY <1>1, Invariant, PTL

\* DeliveredInOrder: the ordering contract at the head of pubsub.rs.  Within
\* a subscription nothing is delivered twice or out of order, and nothing is
\* lost between replay and live delivery that was not counted as dropped.
THEOREM DeliveryOrdered == Spec => []DeliveredInOrder
<1>1. IInv => InOrder
    BY DEF IInv, InStep, Ordered, InOrder
<1>2. IInv => NoGap
    <2> SUFFICES ASSUME IInv, stored = 1 .. MaxInserted, errs = 0, NEW c \in Conn, NEW n \in Name, Live(c, n),
                        NEW i \in Due(c, n), i \notin Sent(c, n)
                 PROVE i \in excused[c][n]
        BY DEF NoGap, Lost
    <2>1. Covered(c, n)
        BY DEF IInv, Complete, Whole, Ids
    <2>2. i \in Wanted(c, n) /\ NotOwed(i)
        BY DEF Due, Wanted, NotOwed, Ids
    <2> QED
        BY <2>1, <2>2 DEF Covered
<1>3. IInv => DeliveredInOrder
    BY <1>1, <1>2 DEF DeliveredInOrder
<1> QED
    BY <1>3, Invariant, PTL

=============================================================================
