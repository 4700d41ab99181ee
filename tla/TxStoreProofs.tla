--------------------------- MODULE TxStoreProofs ---------------------------
(***************************************************************************)
(* For any set of pages, any number of transactions, savepoints, guards    *)
(* and failures, in both commit modes: the undo journal restores what it   *)
(* should, what was rolled back never comes back, and what was             *)
(* acknowledged never goes away.  Three inductive invariants, each on top  *)
(* of the one before it.                                                   *)
(***************************************************************************)
EXTENDS TxStore, SequenceTheorems, WellFoundedInduction, TLAPS

-----------------------------------------------------------------------------
(* The undo journal: its inductive invariant                               *)

Value == Nat \cup {Torn}
Pages == [Page -> Value]
Image == UNION {[ps -> Value] : ps \in SUBSET Page}
Entry == [kind : {"commit", "deferred", "abort", "fence"}, tx : Nat, img : Image]
Level == [mark : Nat, base : Pages]

\* Shapes of the log, the pages and the journal.
Shapes ==
    /\ log \in Seq(Entry) /\ synced \in 0 .. Len(log) /\ dtx \in Seq(Nat)
    /\ db \in Pages /\ surv \in [Page -> SUBSET Value]
    /\ undo \in Seq(Image) /\ undoOn \in BOOLEAN
    /\ inTx \in BOOLEAN /\ base \in Pages /\ saves \in Seq(Level)
    /\ guard \in {"none", "tx", "auto"} /\ gsave \in Level
    /\ unit \in Nat /\ staged \in Image /\ tick \in Nat

\* What can be open at the same time, and that nothing waits to be applied
\* while a transaction or a guard is open, and no guard while the log is synced.
Nesting ==
    /\ inTx => undoOn
    /\ ~inTx => saves = <<>>
    /\ guard = "tx" => inTx
    /\ guard = "auto" => ~inTx /\ unit > 0 /\ undoOn /\ gsave.mark = 0
    /\ inTx \/ guard # "none" \/ pc # "fsync" => DOMAIN staged = {}
    /\ IF Idle THEN then = "none" ELSE guard = "none" /\ (then = "guard" => ~inTx)

\* Level s lies under level t in journal u: what was recorded before s is
\* recorded again at s, and the entries from s to t take t's pages to s's.
Under(u, s, t) ==
    /\ s.mark <= t.mark
    /\ \A i \in 1 .. s.mark : \A p \in DOMAIN u[i] : s.mark < t.mark /\ p \in DOMAIN u[s.mark + 1]
    /\ \A p \in Page :
          /\ (\A i \in s.mark + 1 .. t.mark : p \notin DOMAIN u[i]) => t.base[p] = s.base[p]
          /\ \A i \in s.mark + 1 .. t.mark :
                p \in DOMAIN u[i] /\ (\A j \in s.mark + 1 .. i - 1 : p \notin DOMAIN u[j])
                    => u[i][p] = s.base[p]

\* BEGIN is the lowest level, the present the highest.
Root == [mark |-> 0, base |-> base]
Top == [mark |-> Len(undo), base |-> db]

\* Every level lies under every later one.
Stacked ==
    /\ inTx => Under(undo, Root, Top)
    /\ \A i \in 1 .. Len(saves) :
          /\ Under(undo, Root, saves[i]) /\ Under(undo, saves[i], Top)
          /\ \A j \in 1 .. Len(saves) : i < j => Under(undo, saves[i], saves[j])
          /\ guard = "tx" => Under(undo, saves[i], gsave)
    /\ guard # "none" => Under(undo, gsave, Top)
    /\ guard = "tx" => Under(undo, Root, gsave)

Good == Shapes /\ Nesting /\ Stacked

\* The journal of a transaction is broken for good when the restore of a
\* guarded statement inside it fails, so that failure is left out.
IInv == "txGuardFail" \notin Features => Good

-----------------------------------------------------------------------------
(* The journal                                                             *)

\* A nonempty set of naturals has a least element.
LEMMA LeastOf ==
    ASSUME NEW S \in SUBSET Nat, S # {}
    PROVE \E x \in S : \A y \in S : x <= y
<1>1. \E x \in S : \A y \in S : ~(<<y, x>> \in OpToRel(<, Nat))
    BY NatLessThanWellFounded, WFMin
<1>2. PICK x \in S : \A y \in S : ~(<<y, x>> \in OpToRel(<, Nat))
    BY <1>1
<1>3. ASSUME NEW y \in S PROVE x <= y
    <2>1. x \in Nat /\ y \in Nat /\ <<y, x>>[1] = y /\ <<y, x>>[2] = x
        OBVIOUS
    <2>2. ~(y < x)
        BY <1>2, <2>1 DEF OpToRel
    <2> QED
        BY <2>1, <2>2
<1> QED
    BY <1>3

\* A nonempty bounded set of naturals has a greatest element.
LEMMA GreatestOf ==
    ASSUME NEW n \in Nat, NEW S \in SUBSET (0 .. n), S # {}
    PROVE \E x \in S : \A y \in S : y <= x
<1> DEFINE T == {n - x : x \in S}
<1>1. T \in SUBSET Nat /\ T # {}
    <2>1. \A x \in S : n - x \in Nat
        OBVIOUS
    <2> QED
        BY <2>1
<1>2. PICK m \in T : \A y \in T : m <= y
    BY <1>1, LeastOf
<1>3. PICK x \in S : m = n - x
    BY <1>2
<1>4. \A y \in S : y <= x
    <2> SUFFICES ASSUME NEW y \in S PROVE y <= x
        OBVIOUS
    <2>1. n - y \in T /\ x \in 0 .. n /\ y \in 0 .. n
        OBVIOUS
    <2>2. n - x <= n - y
        BY <1>2, <1>3, <2>1
    <2> QED
        BY <2>1, <2>2
<1> QED
    BY <1>4

\* An image has some pages and their values.
LEMMA ImageIs ==
    ASSUME NEW img \in Image
    PROVE DOMAIN img \subseteq Page /\ img \in [DOMAIN img -> Value]
BY DEF Image

\* Elements of a journal are images.
LEMMA JournalIs ==
    ASSUME NEW u \in Seq(Image)
    PROVE /\ Len(u) \in Nat /\ DOMAIN u = 1 .. Len(u)
          /\ \A i \in 1 .. Len(u) : u[i] \in Image /\ DOMAIN u[i] \subseteq Page
                                    /\ \A p \in DOMAIN u[i] : u[i][p] \in Value
<1>1. Len(u) \in Nat /\ DOMAIN u = 1 .. Len(u) /\ \A i \in 1 .. Len(u) : u[i] \in Image
    BY LenProperties, ElementOfSeq
<1> QED
    BY <1>1, ImageIs

\* What restore_transaction writes back: for every recorded page the oldest
\* image.
LEMMA UndoneIs ==
    ASSUME NEW ops \in Seq(Image)
    PROVE /\ Undone(ops) \in Image /\ DOMAIN Undone(ops) = Recorded(ops)
          /\ \A p \in Recorded(ops) : \E i \in 1 .. Len(ops) :
                /\ p \in DOMAIN ops[i] /\ \A j \in 1 .. Len(ops) : p \in DOMAIN ops[j] => i <= j
                /\ Undone(ops)[p] = ops[i][p]
<1> DEFINE First(p, i) == /\ p \in DOMAIN ops[i]
                          /\ \A j \in DOMAIN ops : p \in DOMAIN ops[j] => i <= j
<1>0. Len(ops) \in Nat /\ DOMAIN ops = 1 .. Len(ops)
    BY LenProperties
<1>1. ASSUME NEW p \in Recorded(ops)
      PROVE \E i \in DOMAIN ops : First(p, i)
    <2> DEFINE S == {i \in 1 .. Len(ops) : p \in DOMAIN ops[i]}
    <2>1. S \in SUBSET Nat /\ S # {}
        BY <1>0, <1>1 DEF Recorded
    <2>2. PICK i \in S : \A j \in S : i <= j
        BY <2>1, LeastOf
    <2> QED
        BY <2>2, <1>0
<1>2. ASSUME NEW p \in Recorded(ops)
      PROVE LET c == CHOOSE i \in DOMAIN ops : First(p, i)
            IN  c \in 1 .. Len(ops) /\ First(p, c) /\ Undone(ops)[p] = ops[c][p]
    BY <1>0, <1>1, <1>2 DEF Undone
<1>3. DOMAIN Undone(ops) = Recorded(ops) /\ Recorded(ops) \subseteq Page
    BY <1>0, JournalIs DEF Undone, Recorded
<1>4. \A p \in Recorded(ops) : Undone(ops)[p] \in Value
    BY <1>2, JournalIs
<1>5. Undone(ops) \in [Recorded(ops) -> Value]
    BY <1>4 DEF Undone
<1>6. Undone(ops) \in Image
    BY <1>3, <1>5 DEF Image
<1>7. ASSUME NEW p \in Recorded(ops)
      PROVE \E i \in 1 .. Len(ops) :
                /\ p \in DOMAIN ops[i] /\ \A j \in 1 .. Len(ops) : p \in DOMAIN ops[j] => i <= j
                /\ Undone(ops)[p] = ops[i][p]
    BY <1>0, <1>2, <1>7
<1> QED
    BY <1>3, <1>6, <1>7

\* Writing images over pages.
LEMMA OverrideIs ==
    ASSUME NEW f \in Pages, NEW img \in Image
    PROVE Override(f, img) \in Pages
BY ImageIs DEF Override, Pages

\* A level under another is what the journal's entries between them restore.
LEMMA Restores ==
    ASSUME NEW u \in Seq(Image), NEW s \in Level, NEW d \in Pages,
           Under(u, s, [mark |-> Len(u), base |-> d])
    PROVE Override(d, Undone(SubSeq(u, s.mark + 1, Len(u)))) = s.base
<1> DEFINE ops == SubSeq(u, s.mark + 1, Len(u))
           m == s.mark
           l == Len(u)
           n == l - m
<1>0. m \in Nat /\ s.base \in Pages /\ l \in Nat /\ m <= l /\ n \in Nat
    BY LenProperties DEF Under, Level
<1>1. ops \in Seq(Image) /\ Len(ops) = n /\ \A i \in 1 .. n : ops[i] = u[i + m]
    <2>1. m + 1 \in 1 .. l + 1 /\ l \in m .. l /\ l - (m + 1) + 1 = n
        BY <1>0
    <2>2. /\ ops \in Seq(Image)
          /\ Len(ops) = IF m + 1 <= l THEN l - (m + 1) + 1 ELSE 0
          /\ \A i \in 1 .. l - (m + 1) + 1 : ops[i] = u[m + 1 + i - 1]
        BY <2>1, SubSeqProperties
    <2>3. Len(ops) = n
        BY <1>0, <2>2
    <2>4. \A i \in 1 .. n : m + 1 + i - 1 = i + m
        BY <1>0
    <2> QED
        BY <2>1, <2>2, <2>3, <2>4
<1>a. /\ \A p \in Page : (\A i \in m + 1 .. l : p \notin DOMAIN u[i]) => d[p] = s.base[p]
      /\ \A p \in Page : \A i \in m + 1 .. l :
            p \in DOMAIN u[i] /\ (\A j \in m + 1 .. i - 1 : p \notin DOMAIN u[j]) => u[i][p] = s.base[p]
    BY DEF Under
<1>b. n = l - m
    OBVIOUS
<1> HIDE DEF ops, m, l, n
<1>2. /\ DOMAIN Undone(ops) = Recorded(ops)
      /\ \A p \in Recorded(ops) : \E i \in 1 .. n :
                /\ p \in DOMAIN ops[i] /\ \A j \in 1 .. n : p \in DOMAIN ops[j] => i <= j
                /\ Undone(ops)[p] = ops[i][p]
    BY <1>1, UndoneIs
<1>3. \A p : p \in Recorded(ops) <=> \E i \in m + 1 .. l : p \in DOMAIN u[i]
    <2>1. DOMAIN ops = 1 .. n
        BY <1>1, LenProperties
    <2>2. ASSUME NEW i \in m + 1 .. l PROVE i - m \in 1 .. n /\ ops[i - m] = u[i]
        <3>1. i - m \in 1 .. n /\ (i - m) + m = i
            BY <1>0, <1>b
        <3> QED
            BY <1>1, <3>1
    <2>3. \A i \in 1 .. n : i + m \in m + 1 .. l
        BY <1>0, <1>b
    <2> QED
        BY <1>1, <2>1, <2>2, <2>3 DEF Recorded
<1>4. ASSUME NEW p \in Page
      PROVE Override(d, Undone(ops))[p] = s.base[p]
    <2>1. CASE p \notin Recorded(ops)
        BY <1>a, <1>2, <1>3, <2>1 DEF Override
    <2>2. CASE p \in Recorded(ops)
        <3>1. PICK i \in 1 .. n :
                /\ p \in DOMAIN ops[i] /\ \A j \in 1 .. n : p \in DOMAIN ops[j] => i <= j
                /\ Undone(ops)[p] = ops[i][p]
            BY <1>2, <2>2
        <3>2. PICK k \in m + 1 .. l : k = i + m
            BY <1>0, <1>b
        <3>a. p \in DOMAIN u[k] /\ ops[i] = u[k]
            BY <1>1, <3>1, <3>2
        <3>3. ASSUME NEW j \in m + 1 .. k - 1
              PROVE p \notin DOMAIN u[j]
            <4>1. j - m \in 1 .. n /\ ~(i <= j - m) /\ (j - m) + m = j
                BY <1>0, <1>b, <3>2
            <4>2. ops[j - m] = u[j]
                BY <1>1, <4>1
            <4> QED
                BY <3>1, <4>1, <4>2
        <3>4. u[k][p] = s.base[p]
            BY <1>a, <3>a, <3>3
        <3> QED
            BY <1>2, <2>2, <3>1, <3>a, <3>4 DEF Override
    <2> QED
        BY <2>1, <2>2
<1>5. s.base \in [Page -> Value]
    BY <1>0 DEF Pages
<1>6. Override(d, Undone(ops)) = s.base
    BY <1>4, <1>5 DEF Override
<1> QED
    BY <1>6 DEF ops

\* Under depends on the journal up to the higher level only.
LEMMA UnderPrefix ==
    ASSUME NEW u \in Seq(Image), NEW v \in Seq(Image), NEW s \in Level, NEW t \in Level,
           t.mark <= Len(u), t.mark <= Len(v), \A i \in 1 .. t.mark : u[i] = v[i], Under(u, s, t)
    PROVE Under(v, s, t)
<1>0. s.mark \in Nat /\ t.mark \in Nat /\ s.mark <= t.mark
    BY DEF Under, Level
<1>1. \A i \in 1 .. s.mark : i \in 1 .. t.mark
    BY <1>0
<1>2. s.mark < t.mark => s.mark + 1 \in 1 .. t.mark
    BY <1>0
<1>3. \A i \in s.mark + 1 .. t.mark : i \in 1 .. t.mark /\ \A j \in s.mark + 1 .. i - 1 : j \in 1 .. t.mark
    BY <1>0
<1> QED
    BY <1>0, <1>1, <1>2, <1>3 DEF Under

\* A write that is recorded, or that touches recorded pages only, keeps every
\* level under the present.
LEMMA UnderTop ==
    ASSUME NEW u \in Seq(Image), NEW s \in Level, NEW d \in Pages, NEW e \in Pages, NEW img \in Image,
           Under(u, s, [mark |-> Len(u), base |-> d]),
           \A p \in DOMAIN img : img[p] = d[p],
           \A p \in Page : e[p] # d[p] => p \in Recorded(u) \cup DOMAIN img
    PROVE /\ Under(Append(u, img), s, [mark |-> Len(u) + 1, base |-> e])
          /\ DOMAIN img = {} => Under(u, s, [mark |-> Len(u), base |-> e])
<1> DEFINE v == Append(u, img)
           m == s.mark
           n == Len(u)
<1>0. m \in Nat /\ n \in Nat /\ m <= n /\ DOMAIN u = 1 .. n
    BY LenProperties DEF Under, Level
<1>1. \A i \in 1 .. n : v[i] = u[i]
    BY <1>0
<1>2. v[n + 1] = img
    BY <1>0
<1>3. ASSUME NEW i \in 1 .. m, NEW p \in DOMAIN u[i]
      PROVE m < n /\ p \in DOMAIN u[m + 1]
    BY <1>3 DEF Under
<1>4. ASSUME NEW p \in Page, \A i \in m + 1 .. n : p \notin DOMAIN u[i]
      PROVE p \notin Recorded(u) /\ d[p] = s.base[p]
    <2>1. d[p] = s.base[p]
        BY <1>4 DEF Under
    <2>2. ASSUME NEW i \in 1 .. n, p \in DOMAIN u[i] PROVE FALSE
        <3>1. i \in 1 .. m
            BY <1>0, <1>4, <2>2
        <3>2. m < n /\ p \in DOMAIN u[m + 1]
            BY <1>3, <3>1, <2>2
        <3>3. m + 1 \in m + 1 .. n
            BY <1>0, <3>2
        <3> QED
            BY <1>4, <3>2, <3>3
    <2> QED
        BY <1>0, <2>1, <2>2 DEF Recorded
<1>5. ASSUME NEW i \in m + 1 .. n, NEW p \in Page, p \in DOMAIN u[i], \A j \in m + 1 .. i - 1 : p \notin DOMAIN u[j]
      PROVE u[i][p] = s.base[p]
    BY <1>5 DEF Under
<1>6. Under(v, s, [mark |-> n + 1, base |-> e])
    <2>1. m <= n + 1
        BY <1>0
    <2>2. ASSUME NEW i \in 1 .. m, NEW p \in DOMAIN v[i]
          PROVE m < n + 1 /\ p \in DOMAIN v[m + 1]
        <3>1. i \in 1 .. n /\ v[i] = u[i]
            BY <1>0, <1>1
        <3>2. m < n /\ p \in DOMAIN u[m + 1]
            BY <1>3, <2>2, <3>1
        <3>3. m + 1 \in 1 .. n
            BY <1>0, <3>2
        <3> QED
            BY <1>0, <1>1, <3>2, <3>3
    <2>3. ASSUME NEW p \in Page, \A i \in m + 1 .. n + 1 : p \notin DOMAIN v[i]
          PROVE e[p] = s.base[p]
        <3>1. \A i \in m + 1 .. n : i \in m + 1 .. n + 1 /\ v[i] = u[i]
            BY <1>0, <1>1
        <3>2. n + 1 \in m + 1 .. n + 1
            BY <1>0
        <3>3. p \notin DOMAIN img /\ \A i \in m + 1 .. n : p \notin DOMAIN u[i]
            BY <1>2, <2>3, <3>1, <3>2
        <3> QED
            BY <1>4, <3>3
    <2>4. ASSUME NEW p \in Page, NEW i \in m + 1 .. n + 1, p \in DOMAIN v[i],
                 \A j \in m + 1 .. i - 1 : p \notin DOMAIN v[j]
          PROVE v[i][p] = s.base[p]
        <3>1. CASE i \in 1 .. n
            <4>1. i \in m + 1 .. n /\ v[i] = u[i]
                BY <1>0, <1>1, <3>1
            <4>2. \A j \in m + 1 .. i - 1 : j \in 1 .. n /\ v[j] = u[j]
                BY <1>0, <1>1, <3>1
            <4> QED
                BY <1>5, <2>4, <4>1, <4>2
        <3>2. CASE i \notin 1 .. n
            <4>1. i = n + 1
                BY <1>0, <3>2
            <4>2. \A j \in m + 1 .. n : j \in m + 1 .. i - 1 /\ v[j] = u[j]
                BY <1>0, <1>1, <4>1
            <4>3. d[p] = s.base[p]
                BY <1>4, <2>4, <4>2
            <4> QED
                BY <1>2, <2>4, <4>1, <4>3
        <3> QED
            BY <3>1, <3>2
    <2> QED
        BY <2>1, <2>2, <2>3, <2>4 DEF Under
<1>7. ASSUME DOMAIN img = {}
      PROVE Under(u, s, [mark |-> n, base |-> e])
    <2>1. ASSUME NEW p \in Page, \A i \in m + 1 .. n : p \notin DOMAIN u[i]
          PROVE e[p] = s.base[p]
        BY <1>4, <1>7, <2>1
    <2> QED
        BY <1>0, <1>3, <1>5, <2>1 DEF Under
<1> QED
    BY <1>6, <1>7

-----------------------------------------------------------------------------
(* Shapes                                                                  *)

\* No image, and what one pager transaction writes.
LEMMA SomeImages ==
    /\ NoImages \in Image /\ DOMAIN NoImages = {}
    /\ \A ps \in SUBSET Page : \A v \in Value : [p \in ps |-> v] \in Image
    /\ \A ps \in SUBSET Page : \A d \in Pages : [p \in ps |-> d[p]] \in Image
<1>1. NoImages \in [{} -> Value] /\ DOMAIN NoImages = {}
    BY DEF NoImages
<1>2. \A ps \in SUBSET Page : \A v \in Value : [p \in ps |-> v] \in [ps -> Value]
    OBVIOUS
<1>3. \A ps \in SUBSET Page : \A d \in Pages : [p \in ps |-> d[p]] \in [ps -> Value]
    BY DEF Pages
<1> QED
    BY <1>1, <1>2, <1>3 DEF Image

\* What the pager appends to the log.
LEMMA Entries ==
    ASSUME NEW ts \in Seq(Nat), NEW img \in Image, tick \in Nat
    PROVE /\ FenceOf(ts) \in Seq(Entry) /\ AbortsOf(ts) \in Seq(Entry)
          /\ RestoreLog(img) \in Seq(Entry) /\ RestoreTx(img) \in Seq(Nat)
          /\ Deferred(tick + 1, img) \in Entry /\ Commit(tick + 1, img) \in Entry
<1>1. Fence \in Entry /\ Deferred(tick + 1, img) \in Entry /\ Commit(tick + 1, img) \in Entry
    BY SomeImages DEF Fence, Deferred, Commit, Entry
<1>2. \A t \in Nat : Abort(t) \in Entry
    BY SomeImages DEF Abort, Entry
<1>3. AbortsOf(ts) \in Seq(Entry)
    <2>1. Len(ts) \in Nat /\ DOMAIN ts = 1 .. Len(ts) /\ \A i \in 1 .. Len(ts) : ts[i] \in Nat
        BY LenProperties, ElementOfSeq
    <2>2. AbortsOf(ts) = [i \in 1 .. Len(ts) |-> Abort(ts[i])]
        BY <2>1 DEF AbortsOf
    <2>3. \A i \in 1 .. Len(ts) : Abort(ts[i]) \in Entry
        BY <1>2, <2>1
    <2> QED
        BY <2>1, <2>2, <2>3, IsASeq
<1>4. FenceOf(ts) \in Seq(Entry)
    BY <1>1 DEF FenceOf
<1>5. RestoreLog(img) \in Seq(Entry) /\ RestoreTx(img) \in Seq(Nat)
    BY <1>1 DEF RestoreLog, RestoreTx
<1> QED
    BY <1>1, <1>3, <1>4, <1>5

\* The journal of a recorded write, and of a savepoint.
LEMMA JournalGrows ==
    ASSUME Shapes, NEW ps \in SUBSET Page
    PROVE Record(ps) \in Seq(Image) /\ Baseline \in Seq(Image) /\ Recorded(undo) \subseteq Page
<1>1. Recorded(undo) \subseteq Page
    <2>1. undo \in Seq(Image)
        BY DEF Shapes
    <2>2. DOMAIN undo = 1 .. Len(undo) /\ \A i \in 1 .. Len(undo) : DOMAIN undo[i] \subseteq Page
        BY <2>1, JournalIs
    <2> QED
        BY <2>2 DEF Recorded
<1>2. [p \in ps \ Recorded(undo) |-> db[p]] \in Image /\ [p \in Recorded(undo) |-> db[p]] \in Image
    BY <1>1, SomeImages DEF Shapes
<1>3. undo \in Seq(Image) /\ Append(undo, [p \in ps \ Recorded(undo) |-> db[p]]) \in Seq(Image)
      /\ Append(undo, [p \in Recorded(undo) |-> db[p]]) \in Seq(Image)
    BY <1>2, AppendProperties DEF Shapes
<1> QED
    BY <1>1, <1>3 DEF Record, Baseline

\* A part of the journal.
LEMMA Part ==
    ASSUME NEW u \in Seq(Image), NEW m \in Nat, m <= Len(u)
    PROVE /\ SubSeq(u, 1, m) \in Seq(Image) /\ Len(SubSeq(u, 1, m)) = m
          /\ \A i \in 1 .. m : SubSeq(u, 1, m)[i] = u[i]
          /\ SubSeq(u, m + 1, Len(u)) \in Seq(Image)
<1>1. Len(u) \in Nat /\ \A i \in 1 .. Len(u) : u[i] \in Image
    BY LenProperties, ElementOfSeq
<1>2. \A i \in 1 .. m : u[i] \in Image
    BY <1>1
<1>3. \A i \in m + 1 .. Len(u) : u[i] \in Image
    BY <1>1
<1>4. SubSeq(u, 1, m) \in Seq(Image) /\ Len(SubSeq(u, 1, m)) = (IF 1 <= m THEN m - 1 + 1 ELSE 0)
      /\ \A i \in 1 .. m - 1 + 1 : SubSeq(u, 1, m)[i] = u[1 + i - 1]
    BY <1>2, SubSeqProperties
<1> QED
    BY <1>1, <1>3, <1>4, SubSeqProperties

\* Recovery yields pages.
LEMMA RecoveredIs ==
    ASSUME Shapes, NEW s \in Outcomes
    PROVE s \in Pages
<1>1. PICK k \in synced .. Len(log), d \in DiskStates : s = RecoverFrom(SubSeq(log, 1, k), d)
    BY DEF Outcomes
<1> DEFINE l == SubSeq(log, 1, k)
<1>2. l \in Seq(Entry) /\ Len(l) = k /\ k \in Nat
    BY <1>1 DEF Shapes
<1>3. d \in Pages
    BY DEF DiskStates, Shapes, Pages
<1> HIDE DEF l
<1>4. ASSUME NEW p \in Page
      PROVE RecoverFrom(l, d)[p] \in Value
    <2> DEFINE hits == {i \in 1 .. Len(l) : p \in DOMAIN l[i].img /\ Replayed(l, i)}
    <2>1. CASE hits = {}
        BY <1>3, <2>1 DEF RecoverFrom, Pages
    <2>2. CASE hits # {}
        <3>1. hits \in SUBSET (0 .. k)
            BY <1>2
        <3>2. \E i \in hits : \A j \in hits : j <= i
            BY <1>2, <2>2, <3>1, GreatestOf
        <3> DEFINE c == CHOOSE i \in hits : \A j \in hits : j <= i
        <3>3. c \in hits
            BY <3>2
        <3>4. l[c] \in Entry
            BY <1>2, <3>3, ElementOfSeq
        <3>5. l[c].img \in Image /\ p \in DOMAIN l[c].img
            BY <3>3, <3>4 DEF Entry
        <3>6. l[c].img[p] \in Value
            BY <3>5, ImageIs
        <3> QED
            BY <2>2, <3>6 DEF RecoverFrom
    <2> QED
        BY <2>1, <2>2
<1>5. RecoverFrom(l, d) \in Pages
    BY <1>4 DEF RecoverFrom, Pages
<1> QED
    BY <1>1, <1>5 DEF l

\* Appending to the log keeps it a log.
LEMMA LogGrows ==
    ASSUME NEW l \in Seq(Entry), NEW m \in Seq(Entry), NEW n \in 0 .. Len(l)
    PROVE l \o m \in Seq(Entry) /\ n \in 0 .. Len(l \o m) /\ Len(l \o m) \in Nat
<1>1. l \o m \in Seq(Entry) /\ Len(l \o m) = Len(l) + Len(m)
    BY ConcatProperties
<1>2. Len(l) \in Nat /\ Len(m) \in Nat
    BY LenProperties
<1> QED
    BY <1>1, <1>2

\* The pages after a committed pager transaction.
LEMMA Applied ==
    ASSUME Shapes, NEW img \in Image, Apply(img)
    PROVE db' \in Pages /\ tick' \in Nat
BY OverrideIs DEF Apply, Shapes

\* The write of a statement, as an image.
LEMMA Writes ==
    ASSUME Shapes, NEW ps \in SUBSET Page
    PROVE [p \in ps |-> tick + 1] \in Image
<1>1. tick + 1 \in Value
    BY DEF Shapes, Value
<1> QED
    BY <1>1, SomeImages

\* What the journal restores from a mark.
LEMMA TailIs ==
    ASSUME Shapes, NEW m \in Nat, m <= Len(undo)
    PROVE Undone(UndoTail(m)) \in Image /\ SubSeq(undo, 1, m) \in Seq(Image)
BY Part, UndoneIs DEF UndoTail, Shapes

\* Restoring from a mark.
LEMMA RestoreShapes ==
    ASSUME Shapes, NEW m \in Nat, m <= Len(undo), RestoreTo(m)
    PROVE /\ log' \in Seq(Entry) /\ synced \in 0 .. Len(log') /\ dtx' \in Seq(Nat)
          /\ db' \in Pages /\ tick' \in Nat /\ undo' \in Seq(Image)
<1> DEFINE img == Undone(UndoTail(m))
<1>1. img \in Image /\ SubSeq(undo, 1, m) \in Seq(Image)
    BY TailIs
<1>2. /\ log' = log \o RestoreLog(img) /\ dtx' = dtx \o RestoreTx(img) /\ Apply(img)
      /\ undo' = SubSeq(undo, 1, m)
    BY DEF RestoreTo
<1> HIDE DEF img
<1>3. log \in Seq(Entry) /\ dtx \in Seq(Nat) /\ synced \in 0 .. Len(log) /\ tick \in Nat
    BY DEF Shapes
<1>4. RestoreLog(img) \in Seq(Entry) /\ RestoreTx(img) \in Seq(Nat)
    BY <1>1, <1>3, Entries
<1>5. db' \in Pages /\ tick' \in Nat
    BY <1>1, <1>2, Applied
<1>6. dtx' \in Seq(Nat)
    BY <1>2, <1>3, <1>4, ConcatProperties
<1> QED
    BY <1>1, <1>2, <1>3, <1>4, <1>5, <1>6, LogGrows

\* A unit's end, whatever is logged before its fence.
LEMMA UnitShapes ==
    ASSUME Shapes, NEW pre \in Seq(Entry), NEW ts \in Seq(Nat), NEW now, NEW cont, UnitSync(pre, ts, now, cont)
    PROVE log' \in Seq(Entry) /\ synced \in 0 .. Len(log') /\ dtx' \in Seq(Nat)
<1>1. log \in Seq(Entry) /\ synced \in 0 .. Len(log) /\ tick \in Nat
    BY DEF Shapes
<1>2. log \o pre \in Seq(Entry) /\ synced \in 0 .. Len(log \o pre)
    BY <1>1, LogGrows
<1>3. FenceOf(ts) \in Seq(Entry)
    BY <1>1, SomeImages, Entries
<1>4. (log \o pre) \o FenceOf(ts) \in Seq(Entry) /\ synced \in 0 .. Len((log \o pre) \o FenceOf(ts))
    BY <1>2, <1>3, LogGrows
<1>5. \/ log' = log \o pre /\ dtx' = ts
      \/ log' = (log \o pre) \o FenceOf(ts) /\ dtx' = <<>>
    BY DEF UnitSync
<1>6. <<>> \in Seq(Nat)
    OBVIOUS
<1>7. CASE log' = log \o pre /\ dtx' = ts
    BY <1>2, <1>7
<1>8. CASE log' = (log \o pre) \o FenceOf(ts) /\ dtx' = <<>>
    BY <1>4, <1>6, <1>8
<1> QED
    BY <1>5, <1>7, <1>8

\* The call a unit's end makes.
LEMMA UnitCall ==
    ASSUME NEW pre, NEW ts, NEW now, NEW cont, UnitSync(pre, ts, now, cont)
    PROVE unit' = unit - 1 /\ ((pc' = pc /\ then' = then) \/ (pc' = "fsync" /\ then' = cont))
<1>1. unit' = unit - 1
    BY DEF UnitSync
<1>2. CASE AsyncCommit \/ ~pendingSync
    <2>1. UNCHANGED <<pc, then>>
        BY <1>2, Zenon DEF UnitSync
    <2>2. pc' = pc /\ then' = then
        BY <2>1
    <2> QED
        BY <1>1, <2>2, Zenon
<1>3. CASE ~(AsyncCommit \/ ~pendingSync)
    BY <1>1, <1>3 DEF UnitSync, Sync
<1> QED
    BY <1>2, <1>3

\* The shapes hold from the start.
LEMMA ShapesInit ==
    Init => Shapes
<1> SUFFICES ASSUME Init PROVE Shapes
    OBVIOUS
<1>1. Zero \in Pages /\ 0 \in Value /\ NoSave \in Level
    BY DEF Zero, Pages, Value, NoSave, Level
<1>2. <<>> \in Seq(Entry) /\ Len(<<>>) = 0 /\ <<>> \in Seq(Nat) /\ <<>> \in Seq(Image) /\ <<>> \in Seq(Level)
    OBVIOUS
<1>3. [p \in Page |-> {0}] \in [Page -> SUBSET Value]
    BY <1>1
<1>4. log \in Seq(Entry) /\ synced \in 0 .. Len(log) /\ dtx \in Seq(Nat) /\ undo \in Seq(Image)
      /\ saves \in Seq(Level) /\ tick \in Nat /\ unit \in Nat
    BY <1>2 DEF Init
<1>5. db \in Pages /\ surv \in [Page -> SUBSET Value] /\ base \in Pages /\ gsave \in Level /\ staged \in Image
    BY <1>1, <1>3, SomeImages DEF Init
<1>6. undoOn \in BOOLEAN /\ inTx \in BOOLEAN /\ guard \in {"none", "tx", "auto"}
    BY DEF Init
<1> QED
    BY <1>4, <1>5, <1>6 DEF Shapes

\* Statements and transactions keep the shapes.
LEMMA StatementShapes ==
    ASSUME Shapes, Nesting,
           \/ \E ps \in SUBSET Page : StmtDeferred(ps) \/ StmtSync(ps)
           \/ Begin \/ CommitTx \/ Rollback \/ AbortFails
    PROVE Shapes'
<1>0. Zero \in Pages /\ <<>> \in Seq(Nat) /\ <<>> \in Seq(Image) /\ <<>> \in Seq(Level)
      /\ NoSave \in Level /\ <<>> \in Seq(Entry)
    BY DEF Zero, Pages, Value, NoSave, Level
<1>1. ASSUME NEW ps \in SUBSET Page, StmtDeferred(ps)
      PROVE Shapes'
    <2> DEFINE img == [p \in ps |-> tick + 1]
    <2>1. img \in Image
        BY Writes
    <2>2. log' = Append(log, Deferred(tick + 1, img)) /\ Apply(img) /\ dtx' = Append(dtx, tick + 1)
          /\ undo' = Record(ps)
        BY <1>1 DEF StmtDeferred
    <2> HIDE DEF img
    <2>3. db' \in Pages /\ tick' \in Nat
        BY <2>1, <2>2, Applied
    <2>4. log' \in Seq(Entry) /\ synced \in 0 .. Len(log') /\ dtx' \in Seq(Nat)
        <3>1. Deferred(tick + 1, img) \in Entry
            BY <1>0, <2>1, Entries DEF Shapes
        <3> HIDE DEF img
        <3> QED
            BY <2>2, <3>1, AppendProperties DEF Shapes
    <2>5. undo' \in Seq(Image)
        BY <2>2, JournalGrows
    <2> QED
        BY <1>1, <2>3, <2>4, <2>5 DEF StmtDeferred, Shapes, txv, guardv, callv
<1>2. ASSUME NEW ps \in SUBSET Page, StmtSync(ps)
      PROVE Shapes'
    <2>a. staged' = [p \in ps |-> tick + 1] /\ tick' = tick + 1
        BY <1>2 DEF StmtSync
    <2>b. [p \in ps |-> tick + 1] \in Image
        BY Writes
    <2>1. staged' \in Image /\ tick' \in Nat
        BY <2>a, <2>b DEF Shapes
    <2>2. FenceOf(dtx) \in Seq(Entry) /\ Commit(tick + 1, staged') \in Entry
        BY <2>1, Entries DEF Shapes
    <2>3. log' = (log \o FenceOf(dtx)) \o <<Commit(tick + 1, staged')>> /\ dtx' = <<>> /\ undo' = Record(ps)
        BY <1>2 DEF StmtSync
    <2>4. log \o FenceOf(dtx) \in Seq(Entry) /\ synced \in 0 .. Len(log \o FenceOf(dtx))
        BY <2>2, LogGrows DEF Shapes
    <2>5. <<Commit(tick + 1, staged')>> \in Seq(Entry)
        BY <2>2
    <2>6. log' \in Seq(Entry) /\ synced \in 0 .. Len(log')
        BY <2>3, <2>4, <2>5, LogGrows
    <2>7. undo' \in Seq(Image)
        BY <2>3, JournalGrows
    <2> QED
        BY <1>0, <1>2, <2>1, <2>3, <2>6, <2>7 DEF StmtSync, Shapes, pagev, txv, guardv, unitv
<1>3. ASSUME Begin PROVE Shapes'
    BY <1>0, <1>3 DEF Begin, Shapes, walv, pagev, guardv, unitv, callv
<1>4. ASSUME CommitTx PROVE Shapes'
    <2>1. FenceOf(dtx) \in Seq(Entry)
        BY SomeImages, Entries DEF Shapes
    <2>2. log \o FenceOf(dtx) \in Seq(Entry) /\ synced \in 0 .. Len(log \o FenceOf(dtx))
        BY <2>1, LogGrows DEF Shapes
    <2>3. CASE AsyncCommit
        BY <1>0, <1>4, <2>3 DEF CommitTx, EndTx, EndUndo, Shapes, pagev, guardv, unitv
    <2>4. CASE ~AsyncCommit
        BY <1>0, <1>4, <2>2, <2>4 DEF CommitTx, Shapes, pagev, guardv, unitv, txv, undov
    <2> QED
        BY <2>3, <2>4
<1>5. ASSUME Rollback PROVE Shapes'
    <2> DEFINE img == Undone(undo)
    <2>1. img \in Image
        BY UndoneIs DEF Shapes
    <2>2. /\ log' = ((log \o AbortsOf(dtx)) \o RestoreLog(img)) \o FenceOf(RestoreTx(img))
          /\ Apply(img) /\ dtx' = <<>>
        BY <1>5 DEF Rollback
    <2> HIDE DEF img
    <2>3. RestoreTx(img) \in Seq(Nat) /\ AbortsOf(dtx) \in Seq(Entry) /\ RestoreLog(img) \in Seq(Entry)
        BY <2>1, Entries DEF Shapes
    <2>4. FenceOf(RestoreTx(img)) \in Seq(Entry)
        BY <2>1, <2>3, Entries DEF Shapes
    <2>5. log \o AbortsOf(dtx) \in Seq(Entry) /\ synced \in 0 .. Len(log \o AbortsOf(dtx))
        BY <2>3, LogGrows DEF Shapes
    <2> DEFINE l2 == (log \o AbortsOf(dtx)) \o RestoreLog(img)
    <2>6. l2 \in Seq(Entry) /\ synced \in 0 .. Len(l2)
        BY <2>3, <2>5, LogGrows
    <2> HIDE DEF l2
    <2>7. l2 \o FenceOf(RestoreTx(img)) \in Seq(Entry) /\ synced \in 0 .. Len(l2 \o FenceOf(RestoreTx(img)))
        BY <2>4, <2>6, LogGrows
    <2>8. log' \in Seq(Entry) /\ synced \in 0 .. Len(log')
        BY <2>2, <2>7 DEF l2
    <2>9. db' \in Pages /\ tick' \in Nat
        BY <2>1, <2>2, Applied
    <2> QED
        BY <1>0, <1>5, <2>2, <2>8, <2>9 DEF Rollback, EndUndo, EndTx, Shapes, guardv, unitv
<1>6. ASSUME AbortFails PROVE Shapes'
    <2>1. PICK k \in 0 .. Len(dtx) - 1 : log' = log \o AbortsOf(SubSeq(dtx, 1, k))
        BY <1>6 DEF AbortFails
    <2>2. SubSeq(dtx, 1, k) \in Seq(Nat)
        <3>1. Len(dtx) \in Nat /\ dtx \in Seq(Nat)
            BY LenProperties DEF Shapes
        <3>2. \A i \in 1 .. k : dtx[i] \in Nat
            BY <3>1, ElementOfSeq
        <3> QED
            BY <3>2, SubSeqProperties
    <2>3. AbortsOf(SubSeq(dtx, 1, k)) \in Seq(Entry)
        BY <2>2, SomeImages, Entries DEF Shapes
    <2>4. log' \in Seq(Entry) /\ synced \in 0 .. Len(log')
        BY <2>1, <2>3, LogGrows DEF Shapes
    <2>5. unit \in Nat /\ (guard = "auto" => unit - 1 \in Nat) /\ guard \in {"none", "tx", "auto"} /\ gsave \in Level
        BY DEF Shapes, Nesting
    <2>6. \/ guard' = guard /\ gsave' = gsave /\ unit' = unit
          \/ guard = "auto" /\ guard' = "none" /\ gsave' = NoSave /\ unit' = unit - 1
        BY <1>6 DEF AbortFails, GuardClosed, guardv
    <2>7. unit' \in Nat /\ guard' \in {"none", "tx", "auto"} /\ gsave' \in Level
        BY <1>0, <2>5, <2>6
    <2> QED
        BY <1>0, <1>6, <2>4, <2>7 DEF AbortFails, Shapes, pagev, undov, txv, callv
<1> QED
    BY <1>1, <1>2, <1>3, <1>4, <1>5, <1>6

\* Savepoints, guards and units keep the shapes.
LEMMA NestedShapes ==
    ASSUME Good, "txGuardFail" \notin Features,
           \/ RestoreFails \/ Savepoint
           \/ \E i \in DOMAIN saves : ReleaseSavepoint(i) \/ RollbackTo(i)
           \/ GuardBegin \/ GuardOk \/ GuardFails \/ UnitBegin \/ UnitEnd
    PROVE Shapes'
<1>0. Zero \in Pages /\ <<>> \in Seq(Nat) /\ <<>> \in Seq(Image) /\ <<>> \in Seq(Level)
      /\ NoSave \in Level /\ <<>> \in Seq(Entry)
    BY DEF Zero, Pages, Value, NoSave, Level
<1>a. Shapes /\ Nesting /\ Stacked
    BY DEF Good
<1>b. undo \in Seq(Image) /\ Len(undo) \in Nat /\ db \in Pages
      /\ [mark |-> Len(undo), base |-> db] \in Level /\ [mark |-> 0, base |-> db] \in Level
    BY <1>a, LenProperties DEF Shapes, Level
<1>c. saves \in Seq(Level) /\ Len(saves) \in Nat /\ DOMAIN saves = 1 .. Len(saves)
      /\ \A i \in 1 .. Len(saves) : saves[i] \in Level
    BY <1>a, LenProperties, ElementOfSeq DEF Shapes
<1>d. ASSUME NEW i \in DOMAIN saves PROVE SubSeq(saves, 1, i - 1) \in Seq(Level)
    <2>1. \A j \in 1 .. i - 1 : saves[j] \in Level
        BY <1>c
    <2> QED
        BY <1>c, <2>1, SubSeqProperties
<1>e. unit \in Nat /\ unit + 1 \in Nat /\ (guard = "auto" => unit - 1 \in Nat) /\ undoOn \in BOOLEAN
    BY <1>a DEF Shapes, Nesting
<1>1. ASSUME RestoreFails PROVE Shapes'
    <2>1. log \o AbortsOf(dtx) \in Seq(Entry) /\ synced \in 0 .. Len(log \o AbortsOf(dtx))
        <3>1. AbortsOf(dtx) \in Seq(Entry)
            BY <1>a, SomeImages, Entries DEF Shapes
        <3> QED
            BY <1>a, <3>1, LogGrows DEF Shapes
    <2>2. log' = log \o AbortsOf(dtx) /\ dtx' = <<>>
        BY <1>1 DEF RestoreFails, MayFail
    <2>3. unit' \in Nat /\ guard' \in {"none", "tx", "auto"} /\ gsave' \in Level
        BY <1>0, <1>1, <1>a DEF RestoreFails, MayFail, GuardClosed, Shapes, Nesting, guardv
    <2>4. undo' \in Seq(Image) /\ undoOn' \in BOOLEAN
        BY <1>0, <1>1, <1>a DEF RestoreFails, MayFail, EndUndo, Shapes, undov
    <2> QED
        BY <1>0, <1>1, <1>a, <2>1, <2>2, <2>3, <2>4 DEF RestoreFails, Shapes, pagev, txv, callv
<1>2. ASSUME Savepoint PROVE Shapes'
    <2>1. saves' \in Seq(Level)
        BY <1>2, <1>b, <1>c, AppendProperties DEF Savepoint
    <2>2. undo' \in Seq(Image)
        BY <1>2, <1>a, JournalGrows DEF Savepoint
    <2> QED
        BY <1>2, <1>a, <2>1, <2>2 DEF Savepoint, Shapes, walv, pagev, guardv, unitv, callv
<1>3. ASSUME NEW i \in DOMAIN saves, ReleaseSavepoint(i) PROVE Shapes'
    <2>1. saves' \in Seq(Level)
        BY <1>3, <1>d DEF ReleaseSavepoint
    <2> QED
        BY <1>3, <1>a, <2>1 DEF ReleaseSavepoint, Shapes, walv, pagev, guardv, unitv, callv, undov
<1>4. ASSUME NEW i \in DOMAIN saves, RollbackTo(i) PROVE Shapes'
    <2>1. saves' \in Seq(Level)
        BY <1>4, <1>d DEF RollbackTo
    <2>2. saves[i].mark \in Nat /\ saves[i].mark <= Len(undo)
        BY <1>a, <1>c DEF Level, Stacked, Under, Top
    <2>3. RestoreTo(saves[i].mark)
        BY <1>4 DEF RollbackTo
    <2>4. /\ log' \in Seq(Entry) /\ synced \in 0 .. Len(log') /\ dtx' \in Seq(Nat)
          /\ db' \in Pages /\ tick' \in Nat /\ undo' \in Seq(Image)
        BY <1>a, <2>2, <2>3, RestoreShapes
    <2> QED
        BY <1>4, <1>a, <2>1, <2>4 DEF RollbackTo, Shapes, guardv, callv
<1>5. ASSUME GuardBegin PROVE Shapes'
    <2>1. undo' \in Seq(Image) /\ guard' \in {"none", "tx", "auto"} /\ gsave' \in Level
          /\ unit' \in Nat /\ undoOn' \in BOOLEAN
        <3>1. Baseline \in Seq(Image)
            BY <1>a, JournalGrows
        <3> QED
            BY <1>0, <1>5, <1>b, <1>e, <3>1 DEF GuardBegin
    <2> QED
        BY <1>5, <1>a, <2>1 DEF GuardBegin, Shapes, walv, pagev, txv, callv
<1>6. ASSUME GuardOk PROVE Shapes'
    <2>1. guard' \in {"none", "tx", "auto"} /\ gsave' \in Level
        BY <1>0, <1>6 DEF GuardOk, GuardClosed
    <2>2. undo' \in Seq(Image) /\ undoOn' \in BOOLEAN /\ unit' \in Nat
        <3>1. undo' \in {undo, <<>>} /\ undoOn' \in {undoOn, FALSE}
            BY <1>6 DEF GuardOk, EndUndo, undov
        <3>a. \/ guard = "tx" /\ UNCHANGED <<log, dtx, undov, unit, pc, then, legal>>
              \/ guard = "auto" /\ UnitSync(<<>>, dtx, db, "guard")
            BY <1>6, Zenon DEF GuardOk
        <3>b. ASSUME UnitSync(<<>>, dtx, db, "guard") PROVE unit' = unit - 1
            BY <3>b, UnitCall
        <3>c. ASSUME UNCHANGED <<log, dtx, undov, unit, pc, then, legal>> PROVE unit' = unit
            BY <3>c
        <3>2. unit' = unit \/ (guard = "auto" /\ unit' = unit - 1)
            BY <3>a, <3>b, <3>c, Zenon
        <3> QED
            BY <1>0, <1>b, <1>e, <3>1, <3>2
    <2>3. CASE guard = "tx" /\ UNCHANGED <<log, dtx, undov, unit, pc, then, legal>>
        BY <1>6, <1>a, <2>1, <2>2, <2>3 DEF GuardOk, Shapes, pagev, txv
    <2>4. CASE UnitSync(<<>>, dtx, db, "guard")
        <3>1. log' \in Seq(Entry) /\ synced \in 0 .. Len(log') /\ dtx' \in Seq(Nat)
            BY <1>0, <1>a, <2>4, UnitShapes DEF Shapes
        <3> QED
            BY <1>6, <1>a, <2>1, <2>2, <3>1 DEF GuardOk, Shapes, pagev, txv
    <2> QED
        BY <1>6, <2>3, <2>4 DEF GuardOk
<1>7. ASSUME GuardFails PROVE Shapes'
    <2>1. guard' \in {"none", "tx", "auto"} /\ gsave' \in Level
        BY <1>0, <1>7 DEF GuardFails, GuardClosed
    <2>2. CASE guard = "tx" /\ RestoreTo(gsave.mark) /\ UNCHANGED <<undoOn, unit>>
        <3>1. gsave.mark \in Nat /\ gsave.mark <= Len(undo)
            BY <1>a, <2>2 DEF Shapes, Level, Stacked, Under, Top
        <3>2. /\ log' \in Seq(Entry) /\ synced \in 0 .. Len(log') /\ dtx' \in Seq(Nat)
              /\ db' \in Pages /\ tick' \in Nat /\ undo' \in Seq(Image)
            BY <1>a, <2>2, <3>1, RestoreShapes
        <3> QED
            BY <1>7, <1>a, <2>1, <2>2, <3>2 DEF GuardFails, Shapes, txv
    <2> DEFINE img == Undone(undo)
    <2>3. CASE guard = "auto" /\ EndUndo /\ Apply(img)
               /\ UnitSync(AbortsOf(dtx) \o RestoreLog(img), RestoreTx(img), db', "guardFails")
        <3>1. img \in Image
            BY <1>b, UndoneIs
        <3> HIDE DEF img
        <3>2. AbortsOf(dtx) \in Seq(Entry) /\ RestoreLog(img) \in Seq(Entry) /\ RestoreTx(img) \in Seq(Nat)
            BY <1>a, <3>1, Entries DEF Shapes
        <3>3. AbortsOf(dtx) \o RestoreLog(img) \in Seq(Entry)
            BY <3>2, ConcatProperties
        <3>4. log' \in Seq(Entry) /\ synced \in 0 .. Len(log') /\ dtx' \in Seq(Nat)
            BY <1>a, <2>3, <3>2, <3>3, UnitShapes
        <3>5. db' \in Pages /\ tick' \in Nat
            BY <1>a, <2>3, <3>1, Applied
        <3>6. undo' \in Seq(Image) /\ undoOn' \in BOOLEAN /\ unit' \in Nat
            <4>1. undo' = <<>> /\ undoOn' = FALSE /\ unit' = unit - 1
                BY <2>3 DEF EndUndo, UnitSync
            <4> QED
                BY <1>0, <1>e, <2>3, <4>1
        <3> QED
            BY <1>7, <1>a, <2>1, <3>4, <3>5, <3>6 DEF GuardFails, Shapes, txv
    <2> QED
        BY <1>7, <2>2, <2>3 DEF GuardFails
<1>8. ASSUME UnitBegin PROVE Shapes'
    BY <1>8, <1>a DEF UnitBegin, Shapes, walv, pagev, undov, txv, guardv, callv
<1>9. ASSUME UnitEnd PROVE Shapes'
    <2>1. log' \in Seq(Entry) /\ synced \in 0 .. Len(log') /\ dtx' \in Seq(Nat)
        BY <1>0, <1>a, <1>9, UnitShapes DEF UnitEnd, Shapes
    <2>2. unit' \in Nat
        BY <1>a, <1>9 DEF UnitEnd, UnitSync, Shapes
    <2> QED
        BY <1>9, <1>a, <2>1, <2>2 DEF UnitEnd, Shapes, pagev, undov, txv, guardv
<1> QED
    BY <1>1, <1>2, <1>3, <1>4, <1>5, <1>6, <1>7, <1>8, <1>9

\* Syncing, flushing, truncating and recovering keep the shapes.
LEMMA SyncShapes ==
    ASSUME Shapes,
           \/ SyncPending \/ FsyncOk \/ FsyncFails \/ \E p \in Page : FlushPage(p)
           \/ FlushDone \/ Truncate \/ CrashRecover
    PROVE Shapes'
<1>0. Zero \in Pages /\ <<>> \in Seq(Nat) /\ <<>> \in Seq(Image) /\ <<>> \in Seq(Level)
      /\ NoSave \in Level /\ <<>> \in Seq(Entry) /\ 0 \in 0 .. Len(<<>>) /\ NoImages \in Image
    BY SomeImages DEF Zero, Pages, Value, NoSave, Level
<1>1. ASSUME SyncPending PROVE Shapes'
    <2>1. FenceOf(dtx) \in Seq(Entry)
        BY SomeImages, Entries DEF Shapes
    <2>2. log \o FenceOf(dtx) \in Seq(Entry) /\ synced \in 0 .. Len(log \o FenceOf(dtx))
        BY <2>1, LogGrows DEF Shapes
    <2> QED
        BY <1>0, <1>1, <2>2 DEF SyncPending, Shapes, pagev, undov, txv, guardv, unitv
<1>2. ASSUME FsyncOk PROVE Shapes'
    <2>1. db' \in Pages
        BY <1>2, OverrideIs DEF FsyncOk, Shapes
    <2>2. synced' \in 0 .. Len(log)
        BY <1>2, LenProperties DEF FsyncOk, Shapes
    <2> QED
        BY <1>0, <1>2, <2>1, <2>2 DEF FsyncOk, Shapes, undov, txv, guardv
<1>3. ASSUME FsyncFails PROVE Shapes'
    BY <1>0, <1>3 DEF FsyncFails, Shapes, pagev, undov, txv, guardv, unitv
<1>4. ASSUME NEW p \in Page, FlushPage(p) PROVE Shapes'
    <2>1. Written(surv[p], db[p]) \in SUBSET Value
        BY DEF Written, Shapes, Pages, Value
    <2>2. surv' \in [Page -> SUBSET Value]
        BY <1>4, <2>1 DEF FlushPage, Shapes
    <2> QED
        BY <1>4, <2>2 DEF FlushPage, Shapes, walv, undov, txv, guardv, unitv, callv
<1>5. ASSUME FlushDone PROVE Shapes'
    <2>1. inTx' \in BOOLEAN /\ base' \in Pages /\ saves' \in Seq(Level)
        BY <1>0, <1>5 DEF FlushDone, EndTx, Shapes, txv
    <2>2. undo' \in Seq(Image) /\ undoOn' \in BOOLEAN
        BY <1>0, <1>5 DEF FlushDone, EndUndo, Shapes, undov
    <2> QED
        BY <1>5, <2>1, <2>2 DEF FlushDone, Shapes, walv, pagev, guardv, unitv
<1>6. ASSUME Truncate PROVE Shapes'
    <2>1. surv' \in [Page -> SUBSET Value]
        BY <1>6 DEF Truncate, Shapes, Pages
    <2> QED
        BY <1>0, <1>6, <2>1 DEF Truncate, Shapes, undov, txv, guardv, unitv, callv
<1>7. ASSUME CrashRecover PROVE Shapes'
    <2>1. PICK s \in Outcomes : db' = s /\ surv' = [p \in Page |-> {s[p]}]
        BY <1>7 DEF CrashRecover
    <2>2. s \in Pages
        BY <2>1, RecoveredIs
    <2>3. surv' \in [Page -> SUBSET Value]
        BY <2>1, <2>2 DEF Pages
    <2>4. log' = <<>> /\ synced' = 0 /\ dtx' = <<>> /\ undo' = <<>> /\ undoOn' = FALSE /\ inTx' = FALSE
          /\ base' = Zero /\ saves' = <<>> /\ guard' = "none" /\ gsave' = NoSave /\ unit' = 0
          /\ staged' = NoImages /\ tick' = tick
        BY <1>7 DEF CrashRecover
    <2> QED
        BY <1>0, <2>1, <2>2, <2>3, <2>4 DEF Shapes
<1> QED
    BY <1>1, <1>2, <1>3, <1>4, <1>5, <1>6, <1>7

-----------------------------------------------------------------------------
(* What can be open at the same time                                       *)

\* Every step keeps the nesting of transactions, guards and calls.
LEMMA NestingKept ==
    ASSUME Good, "txGuardFail" \notin Features, Next
    PROVE Nesting'
<1>a. Shapes /\ Nesting
    BY DEF Good
<1>0. DOMAIN NoImages = {}
    BY DEF NoImages
<1>1. ASSUME NEW ps \in SUBSET Page, StmtDeferred(ps) PROVE Nesting'
    BY <1>1, <1>a DEF StmtDeferred, Nesting, Idle, txv, guardv, callv
<1>2. ASSUME NEW ps \in SUBSET Page, StmtSync(ps) PROVE Nesting'
    BY <1>2, <1>a DEF StmtSync, Defers, Sync, Nesting, Idle, Shapes, txv, guardv, unitv
<1>3. ASSUME Begin PROVE Nesting'
    BY <1>3, <1>a DEF Begin, Nesting, Idle, guardv, unitv, callv
<1>4. ASSUME CommitTx PROVE Nesting'
    <2>1. CASE AsyncCommit
        BY <1>4, <1>a, <2>1 DEF CommitTx, EndTx, EndUndo, Nesting, Idle, guardv, unitv
    <2>2. CASE ~AsyncCommit
        BY <1>4, <1>a, <2>2 DEF CommitTx, Sync, Nesting, Idle, guardv, unitv, txv, undov
    <2> QED
        BY <2>1, <2>2
<1>5. ASSUME Rollback PROVE Nesting'
    <2>1. inTx /\ guard = "none" /\ Idle /\ inTx' = FALSE /\ saves' = <<>> /\ pc' = "fsync"
          /\ then' = "rollback" /\ UNCHANGED <<guard, gsave, unit, staged>>
        BY <1>5 DEF Rollback, EndTx, Sync, guardv, unitv
    <2> QED
        BY <1>a, <2>1 DEF Nesting, Idle
<1>6. ASSUME AbortFails PROVE Nesting'
    <2>1. \/ guard' = guard /\ gsave' = gsave /\ unit' = unit
          \/ guard = "auto" /\ guard' = "none"
        BY <1>6 DEF AbortFails, GuardClosed, guardv
    <2>2. UNCHANGED <<undov, txv, callv>>
        BY <1>6 DEF AbortFails
    <2> QED
        BY <1>a, <2>1, <2>2 DEF Nesting, Idle, undov, txv, callv
<1>7. ASSUME RestoreFails PROVE Nesting'
    <2>1. \/ guard' = guard /\ gsave' = gsave /\ unit' = unit /\ UNCHANGED undov
          \/ guard = "auto" /\ guard' = "none"
        BY <1>7 DEF RestoreFails, MayFail, GuardClosed, guardv
    <2>2. UNCHANGED <<txv, callv>>
        BY <1>7 DEF RestoreFails
    <2> QED
        BY <1>a, <2>1, <2>2 DEF Nesting, Idle, undov, txv, callv
<1>8. ASSUME Savepoint PROVE Nesting'
    BY <1>8, <1>a DEF Savepoint, Nesting, Idle, guardv, unitv, callv
<1>9. ASSUME NEW i \in DOMAIN saves, ReleaseSavepoint(i) PROVE Nesting'
    BY <1>9, <1>a DEF ReleaseSavepoint, Nesting, Idle, guardv, unitv, callv, undov
<1>10. ASSUME NEW i \in DOMAIN saves, RollbackTo(i) PROVE Nesting'
    BY <1>10, <1>a DEF RollbackTo, Nesting, Idle, guardv, callv
<1>11. ASSUME GuardBegin PROVE Nesting'
    <2>1. unit \in Nat
        BY <1>a DEF Shapes
    <2>2. CASE inTx
        BY <1>11, <1>a, <2>2 DEF GuardBegin, Nesting, Idle, txv, callv
    <2>3. CASE ~inTx
        BY <1>11, <1>a, <2>1, <2>3 DEF GuardBegin, Nesting, Idle, txv, callv
    <2> QED
        BY <2>2, <2>3
<1>12. ASSUME GuardOk PROVE Nesting'
    <2>1. Idle /\ guard' = "none" /\ UNCHANGED <<txv, staged>> /\ guard # "none"
        BY <1>12 DEF GuardOk, GuardClosed
    <2>2. \/ guard = "tx" /\ UNCHANGED <<undov, pc, then>>
          \/ guard = "auto" /\ UNCHANGED <<pc, then>>
          \/ guard = "auto" /\ pc' = "fsync" /\ then' = "guard"
        BY <1>12 DEF GuardOk, UnitSync, Sync
    <2> QED
        BY <1>a, <2>1, <2>2 DEF Nesting, Idle, undov, txv
<1>13. ASSUME GuardFails PROVE Nesting'
    <2>1. Idle /\ guard' = "none" /\ UNCHANGED <<txv, staged>> /\ guard # "none"
        BY <1>13 DEF GuardFails, GuardClosed
    <2>2. \/ guard = "tx" /\ UNCHANGED <<undoOn, pc, then>>
          \/ guard = "auto" /\ UNCHANGED <<pc, then>>
          \/ guard = "auto" /\ pc' = "fsync" /\ then' = "guardFails"
        BY <1>13 DEF GuardFails, UnitSync, Sync
    <2> QED
        BY <1>a, <2>1, <2>2 DEF Nesting, Idle, txv
<1>14. ASSUME UnitBegin PROVE Nesting'
    BY <1>14, <1>a DEF UnitBegin, Nesting, Idle, undov, txv, guardv, callv
<1>15. ASSUME UnitEnd PROVE Nesting'
    <2>1. Idle /\ guard = "none" /\ UNCHANGED <<undov, txv, guardv, staged>>
        BY <1>15 DEF UnitEnd
    <2>2. (pc' = pc /\ then' = then) \/ (pc' = "fsync" /\ then' = "unit")
        BY <1>15, UnitCall DEF UnitEnd
    <2> QED
        BY <1>a, <2>1, <2>2 DEF Nesting, Idle, undov, txv, guardv
<1>16. ASSUME SyncPending PROVE Nesting'
    BY <1>16, <1>a DEF SyncPending, Sync, Nesting, Idle, undov, txv, guardv, unitv
<1>17. ASSUME FsyncOk PROVE Nesting'
    BY <1>0, <1>17, <1>a DEF FsyncOk, Nesting, Idle, undov, txv, guardv
<1>18. ASSUME FsyncFails PROVE Nesting'
    BY <1>0, <1>18, <1>a DEF FsyncFails, Nesting, Idle, undov, txv, guardv, unitv
<1>19. ASSUME NEW p \in Page, FlushPage(p) PROVE Nesting'
    BY <1>19, <1>a DEF FlushPage, Nesting, Idle, undov, txv, guardv, unitv, callv
<1>20. ASSUME FlushDone PROVE Nesting'
    BY <1>20, <1>a DEF FlushDone, EndTx, EndUndo, Nesting, Idle, undov, txv, guardv, unitv
<1>21. ASSUME Truncate PROVE Nesting'
    BY <1>21, <1>a DEF Truncate, Nesting, Idle, undov, txv, guardv, unitv, callv
<1>22. ASSUME CrashRecover PROVE Nesting'
    BY <1>0, <1>22 DEF CrashRecover, Nesting, Idle
<1> QED
    BY <1>1, <1>2, <1>3, <1>4, <1>5, <1>6, <1>7, <1>8, <1>9, <1>10, <1>11, <1>12, <1>13, <1>14,
       <1>15, <1>16, <1>17, <1>18, <1>19, <1>20, <1>21, <1>22 DEF Next

-----------------------------------------------------------------------------
(* Levels                                                                  *)

\* No level is open.
LEMMA Closed ==
    ASSUME inTx' = FALSE, saves' = <<>>, guard' = "none"
    PROVE Stacked'
<1>1. Len(<<>>) = 0 /\ \A i \in 1 .. 0 : FALSE
    OBVIOUS
<1> QED
    BY <1>1 DEF Stacked

\* The journal, the pages and the levels are left alone.
LEMMA Untouched ==
    ASSUME Stacked, UNCHANGED <<undo, db, inTx, base, saves, guard, gsave>>
    PROVE Stacked'
<1>1. Root' = Root /\ Top' = Top
    BY DEF Root, Top
<1> QED
    BY <1>1 DEF Stacked

\* Levels of an open transaction, in a journal.
LEMMA Levels ==
    ASSUME Good
    PROVE /\ Root \in Level /\ Top \in Level /\ gsave \in Level /\ undo \in Seq(Image) /\ Len(undo) \in Nat
          /\ db \in Pages /\ Top.mark = Len(undo) /\ Top.base = db
          /\ Len(saves) \in Nat /\ DOMAIN saves = 1 .. Len(saves)
          /\ \A i \in 1 .. Len(saves) : saves[i] \in Level
BY LenProperties, ElementOfSeq DEF Good, Shapes, Root, Top, Level

\* Lower levels stand when the journal changes above them and the present
\* stays above every level that is still open.
LEMMA Restacked ==
    ASSUME Good, inTx, inTx' = inTx, base' = base, db' \in Pages, undo' \in Seq(Image),
           NEW k \in 0 .. Len(saves), NEW n \in Nat, n <= Len(undo), n <= Len(undo'),
           \A i \in 1 .. n : undo'[i] = undo[i],
           \A i \in 1 .. k : saves[i].mark <= n /\ Under(undo', saves[i], Top'),
           saves' = SubSeq(saves, 1, k), guard' = "none", Under(undo', Root, Top')
    PROVE Stacked'
<1>0. /\ Root \in Level /\ undo \in Seq(Image) /\ Root' = Root
      /\ Len(saves) \in Nat /\ \A i \in 1 .. Len(saves) : saves[i] \in Level
    BY Levels DEF Root
<1>1. Len(saves') = k /\ \A i \in 1 .. k : saves'[i] = saves[i] /\ i \in 1 .. Len(saves)
    <2>1. \A i \in 1 .. k : i \in 1 .. Len(saves) /\ saves[i] \in Level
        BY <1>0
    <2>2. Len(SubSeq(saves, 1, k)) = (IF 1 <= k THEN k - 1 + 1 ELSE 0)
          /\ \A i \in 1 .. k - 1 + 1 : SubSeq(saves, 1, k)[i] = saves[1 + i - 1]
        BY <2>1, SubSeqProperties
    <2> QED
        BY <1>0, <2>1, <2>2
<1>2. Stacked
    BY DEF Good
<1>3. ASSUME NEW i \in 1 .. k
      PROVE /\ Under(undo', Root, saves[i]) /\ Under(undo', saves[i], Top')
            /\ \A j \in 1 .. k : i < j => Under(undo', saves[i], saves[j])
    <2>1. saves[i] \in Level /\ Under(undo, Root, saves[i]) /\ saves[i].mark \in Nat /\ saves[i].mark <= n
        BY <1>0, <1>1, <1>2 DEF Stacked, Level
    <2>2. \A q \in 1 .. saves[i].mark : undo[q] = undo'[q]
        BY <2>1
    <2>3. Under(undo', Root, saves[i])
        <3>1. saves[i].mark <= Len(undo) /\ saves[i].mark <= Len(undo')
            BY <2>1, <1>0, LenProperties
        <3> QED
            BY <1>0, <2>1, <2>2, <3>1, UnderPrefix
    <2>4. ASSUME NEW j \in 1 .. k, i < j PROVE Under(undo', saves[i], saves[j])
        <3>1. saves[j] \in Level /\ Under(undo, saves[i], saves[j]) /\ saves[j].mark \in Nat /\ saves[j].mark <= n
            BY <1>0, <1>1, <1>2, <2>4 DEF Stacked, Level
        <3>2. \A q \in 1 .. saves[j].mark : undo[q] = undo'[q]
            BY <3>1
        <3>3. saves[j].mark <= Len(undo) /\ saves[j].mark <= Len(undo')
            BY <3>1, <1>0, LenProperties
        <3> QED
            BY <1>0, <2>1, <3>1, <3>2, <3>3, UnderPrefix
    <2> QED
        BY <2>3, <2>4
<1> HIDE DEF Top, Root
<1>4. Stacked'
    <2>1. \A i \in 1 .. Len(saves') :
             /\ Under(undo', Root', saves'[i]) /\ Under(undo', saves'[i], Top')
             /\ \A j \in 1 .. Len(saves') : i < j => Under(undo', saves'[i], saves'[j])
        BY <1>0, <1>1, <1>3
    <2> QED
        BY <1>0, <2>1 DEF Stacked
<1> QED
    BY <1>4

\* The journal grew under the levels that stay open.
LEMMA Raised ==
    ASSUME Good, UNCHANGED <<inTx, base, saves, guard, gsave>>, undo' \in Seq(Image), Len(undo) <= Len(undo'),
           \A i \in 1 .. Len(undo) : undo'[i] = undo[i],
           \A s \in Level : Under(undo, s, Top) => Under(undo', s, Top')
    PROVE Stacked'
<1>0. /\ Root \in Level /\ Top \in Level /\ gsave \in Level /\ undo \in Seq(Image) /\ Len(undo) \in Nat
      /\ Top.mark = Len(undo) /\ \A i \in 1 .. Len(saves) : saves[i] \in Level
    BY Levels
<1>1. Stacked /\ Root' = Root /\ Len(undo') \in Nat
    BY LenProperties DEF Good, Root
<1>2. ASSUME NEW s \in Level, NEW t \in Level, Under(undo, s, t), Under(undo, t, Top)
      PROVE Under(undo', s, t)
    <2>1. t.mark \in Nat /\ t.mark <= Len(undo) /\ t.mark <= Len(undo')
        BY <1>0, <1>1, <1>2 DEF Under, Level
    <2>2. \A i \in 1 .. t.mark : undo[i] = undo'[i]
        BY <1>0, <2>1
    <2> QED
        BY <1>0, <1>2, <2>1, <2>2, UnderPrefix
<1>3. /\ inTx => Under(undo', Root, Top')
      /\ guard # "none" => Under(undo', gsave, Top')
      /\ \A i \in 1 .. Len(saves) : Under(undo', Root, saves[i]) /\ Under(undo', saves[i], Top')
    BY <1>0, <1>1, <1>2 DEF Stacked
<1>4. guard = "tx" => Under(undo', Root, gsave)
    <2> SUFFICES ASSUME guard = "tx" PROVE Under(undo', Root, gsave)
        OBVIOUS
    <2>1. Under(undo, gsave, Top) /\ Under(undo, Root, gsave)
        BY <1>1 DEF Stacked
    <2> QED
        BY <1>0, <1>2, <2>1
<1>5. ASSUME NEW i \in 1 .. Len(saves)
      PROVE /\ \A j \in 1 .. Len(saves) : i < j => Under(undo', saves[i], saves[j])
            /\ guard = "tx" => Under(undo', saves[i], gsave)
    <2>1. ASSUME NEW j \in 1 .. Len(saves), i < j PROVE Under(undo', saves[i], saves[j])
        <3>1. Under(undo, saves[i], saves[j]) /\ Under(undo, saves[j], Top)
            BY <1>1, <2>1 DEF Stacked
        <3> QED
            BY <1>0, <1>2, <3>1
    <2>2. ASSUME guard = "tx" PROVE Under(undo', saves[i], gsave)
        <3>1. Under(undo, saves[i], gsave) /\ Under(undo, gsave, Top)
            BY <1>1, <2>2 DEF Stacked
        <3> QED
            BY <1>0, <1>2, <3>1
    <2> QED
        BY <2>1, <2>2
<1> QED
    BY <1>1, <1>3, <1>4, <1>5 DEF Stacked

\* A recorded write keeps every level under the present.
LEMMA WriteRaises ==
    ASSUME Good, undoOn, NEW ps \in SUBSET Page, StmtDeferred(ps)
    PROVE Stacked'
<1>0. undo \in Seq(Image) /\ Len(undo) \in Nat /\ db \in Pages /\ Shapes /\ Top = [mark |-> Len(undo), base |-> db]
      /\ Top' = [mark |-> Len(undo'), base |-> db']
    BY Levels DEF Good, Top
<1> DEFINE img == [p \in ps |-> tick + 1]
           fresh == ps \ Recorded(undo)
           old == [p \in fresh |-> db[p]]
<1>1. img \in Image /\ DOMAIN img = ps
    BY <1>0, Writes
<1>2. db' = Override(db, img) /\ undo' = Record(ps) /\ UNCHANGED <<inTx, base, saves, guard, gsave>>
    BY DEF StmtDeferred, Apply, txv, guardv
<1>3. old \in Image /\ DOMAIN old = fresh /\ \A p \in fresh : old[p] = db[p]
    <2>1. fresh \in SUBSET Page
        OBVIOUS
    <2> QED
        BY <1>0, <2>1, SomeImages
<1>4. db' \in Pages /\ undo' \in Seq(Image)
    BY <1>0, <1>1, <1>2, OverrideIs, JournalGrows
<1>5. undo' = IF fresh # {} THEN Append(undo, old) ELSE undo
    BY <1>2 DEF Record
<1>6. \A p \in Page : db'[p] # db[p] => p \in Recorded(undo) \cup DOMAIN old
    <2>1. \A p \in Page : p \notin ps => db'[p] = db[p]
        BY <1>1, <1>2 DEF Override
    <2> QED
        BY <1>3, <2>1
<1> HIDE DEF img, fresh, old
<1>7. Len(undo) <= Len(undo') /\ \A i \in 1 .. Len(undo) : undo'[i] = undo[i]
    <2>1. Len(Append(undo, old)) = Len(undo) + 1 /\ \A i \in 1 .. Len(undo) : Append(undo, old)[i] = undo[i]
        BY <1>0, <1>3, AppendProperties
    <2> QED
        BY <1>0, <1>5, <2>1
<1>8. ASSUME NEW s \in Level, Under(undo, s, Top)
      PROVE Under(undo', s, Top')
    <2>1. /\ Under(Append(undo, old), s, [mark |-> Len(undo) + 1, base |-> db'])
          /\ DOMAIN old = {} => Under(undo, s, [mark |-> Len(undo), base |-> db'])
        BY <1>0, <1>3, <1>4, <1>6, <1>8, UnderTop
    <2>2. CASE fresh = {}
        <3>1. undo' = undo /\ DOMAIN old = {}
            BY <1>3, <1>5, <2>2
        <3> QED
            BY <1>0, <2>1, <3>1
    <2>3. CASE fresh # {}
        <3>1. undo' = Append(undo, old) /\ Len(undo') = Len(undo) + 1
            BY <1>0, <1>3, <1>5, <2>3, AppendProperties
        <3> QED
            BY <1>0, <2>1, <3>1
    <2> QED
        BY <2>2, <2>3
<1> QED
    BY <1>2, <1>4, <1>7, <1>8, Raised

\* A savepoint or a guard makes the present a level.
LEMMA NewLevel ==
    ASSUME Good, undo' = Baseline, db' = db
    PROVE /\ undo' \in Seq(Image) /\ Len(undo) <= Len(undo')
          /\ \A i \in 1 .. Len(undo) : undo'[i] = undo[i]
          /\ Under(undo', Top, Top')
          /\ \A s \in Level : Under(undo, s, Top) => Under(undo', s, Top')
<1>0. undo \in Seq(Image) /\ Len(undo) \in Nat /\ db \in Pages /\ Shapes /\ Top = [mark |-> Len(undo), base |-> db]
      /\ Top' = [mark |-> Len(undo'), base |-> db] /\ DOMAIN undo = 1 .. Len(undo)
    BY Levels, LenProperties DEF Good, Top
<1> DEFINE old == [p \in Recorded(undo) |-> db[p]]
<1>1. old \in Image /\ DOMAIN old = Recorded(undo) /\ \A p \in Recorded(undo) : old[p] = db[p]
    <2>1. Recorded(undo) \in SUBSET Page
        BY <1>0, JournalGrows
    <2> QED
        BY <1>0, <2>1, SomeImages
<1>2. undo' = IF Recorded(undo) = {} THEN undo ELSE Append(undo, old)
    BY DEF Baseline
<1> HIDE DEF old
<1>3. /\ Append(undo, old) \in Seq(Image) /\ Len(Append(undo, old)) = Len(undo) + 1
      /\ Append(undo, old)[Len(undo) + 1] = old
      /\ \A i \in 1 .. Len(undo) : Append(undo, old)[i] = undo[i]
    BY <1>0, <1>1, AppendProperties
<1>4. undo' \in Seq(Image) /\ Len(undo) <= Len(undo') /\ \A i \in 1 .. Len(undo) : undo'[i] = undo[i]
    BY <1>0, <1>2, <1>3
<1>5. ASSUME NEW s \in Level, Under(undo, s, Top) PROVE Under(undo', s, Top')
    <2>1. Under(Append(undo, old), s, [mark |-> Len(undo) + 1, base |-> db])
        BY <1>0, <1>1, <1>5, UnderTop
    <2>2. CASE Recorded(undo) = {}
        BY <1>0, <1>2, <1>5, <2>2
    <2>3. CASE Recorded(undo) # {}
        BY <1>0, <1>2, <1>3, <2>1, <2>3
    <2> QED
        BY <2>2, <2>3
<1>6. Under(undo', Top, Top')
    <2>1. CASE Recorded(undo) = {}
        <3>1. undo' = undo /\ Top' = Top
            BY <1>0, <1>2, <2>1
        <3>2. \A i \in 1 .. Len(undo) : \A p \in DOMAIN undo[i] : FALSE
            BY <1>0, <2>1 DEF Recorded
        <3>3. \A i \in Len(undo) + 1 .. Len(undo) : FALSE
            BY <1>0
        <3> QED
            BY <1>0, <3>1, <3>2, <3>3 DEF Under
    <2>2. CASE Recorded(undo) # {}
        <3> DEFINE n == Len(undo)
        <3>1. Len(undo') = n + 1 /\ undo'[n + 1] = old /\ \A i \in 1 .. n : undo'[i] = undo[i]
            BY <1>2, <1>3, <2>2
        <3>2. \A i \in 1 .. n : \A p \in DOMAIN undo'[i] : p \in DOMAIN undo'[n + 1]
            BY <1>0, <1>1, <3>1 DEF Recorded
        <3>3. \A i \in n + 1 .. n + 1 : i = n + 1
            BY <1>0
        <3>4. ASSUME NEW p \in Page, NEW i \in n + 1 .. n + 1, p \in DOMAIN undo'[i]
              PROVE undo'[i][p] = db[p]
            BY <1>1, <3>1, <3>3, <3>4
        <3>5. Top.mark = n /\ Top'.mark = n + 1 /\ Top.base = db /\ Top'.base = db /\ n <= n + 1 /\ n < n + 1
            BY <1>0, <3>1
        <3> HIDE DEF n
        <3> QED
            BY <3>2, <3>4, <3>5 DEF Under
    <2> QED
        BY <2>1, <2>2
<1> QED
    BY <1>4, <1>5, <1>6

\* SAVEPOINT opens a level above the others.
LEMMA SavepointStacks ==
    ASSUME Good, Savepoint
    PROVE Stacked'
<1>0. /\ Root \in Level /\ Top \in Level /\ undo \in Seq(Image) /\ Len(undo) \in Nat /\ Top.mark = Len(undo)
      /\ Len(saves) \in Nat /\ (\A i \in 1 .. Len(saves) : saves[i] \in Level) /\ saves \in Seq(Level)
    BY Levels DEF Good, Shapes
<1>1. /\ inTx /\ guard = "none" /\ undo' = Baseline /\ db' = db /\ saves' = Append(saves, Top)
      /\ UNCHANGED <<inTx, base, guard, gsave>> /\ Root' = Root
    BY DEF Savepoint, Root, Top, pagev, guardv
<1>2. /\ undo' \in Seq(Image) /\ Len(undo) <= Len(undo') /\ \A i \in 1 .. Len(undo) : undo'[i] = undo[i]
      /\ Under(undo', Top, Top') /\ \A s \in Level : Under(undo, s, Top) => Under(undo', s, Top')
    BY <1>1, NewLevel
<1>3. Stacked
    BY DEF Good
<1>4. ASSUME NEW s \in Level, NEW t \in Level, Under(undo, s, t), t.mark <= Len(undo)
      PROVE Under(undo', s, t)
    <2>1. t.mark \in Nat /\ Len(undo') \in Nat
        BY <1>2, LenProperties DEF Level
    <2>2. t.mark <= Len(undo') /\ \A i \in 1 .. t.mark : undo[i] = undo'[i]
        BY <1>0, <1>2, <1>4, <2>1
    <2> QED
        BY <1>0, <1>2, <1>4, <2>2, UnderPrefix
<1> DEFINE n == Len(saves)
<1>5. Len(saves') = n + 1 /\ saves'[n + 1] = Top /\ \A i \in 1 .. n : saves'[i] = saves[i]
    BY <1>0, <1>1, AppendProperties
<1>6. Under(undo', Root, Top') /\ Under(undo', Root, Top)
    BY <1>0, <1>1, <1>2, <1>3, <1>4 DEF Stacked
<1>7. ASSUME NEW i \in 1 .. n
      PROVE Under(undo', Root, saves[i]) /\ Under(undo', saves[i], Top) /\ Under(undo', saves[i], Top')
            /\ \A j \in 1 .. n : i < j => Under(undo', saves[i], saves[j])
    <2>1. \A j \in 1 .. n : Under(undo, saves[j], Top) /\ saves[j].mark <= Len(undo)
        <3>1. \A j \in 1 .. n : Under(undo, saves[j], Top)
            BY <1>3 DEF Stacked
        <3>2. \A j \in 1 .. n : saves[j].mark <= Top.mark
            BY <3>1 DEF Under
        <3> QED
            BY <1>0, <3>1, <3>2
    <2>2. Under(undo, Root, saves[i]) /\ \A j \in 1 .. n : i < j => Under(undo, saves[i], saves[j])
        BY <1>3 DEF Stacked
    <2>3. Under(undo', Root, saves[i]) /\ Under(undo', saves[i], Top) /\ Under(undo', saves[i], Top')
        BY <1>0, <1>2, <1>4, <2>1, <2>2
    <2> QED
        BY <1>0, <1>4, <2>1, <2>2, <2>3
<1> HIDE DEF n
<1>8. ASSUME NEW i \in 1 .. n + 1
      PROVE /\ Under(undo', Root', saves'[i]) /\ Under(undo', saves'[i], Top')
            /\ \A j \in 1 .. n + 1 : i < j => Under(undo', saves'[i], saves'[j])
    <2>0. n \in Nat
        BY <1>0 DEF n
    <2>1. CASE i = n + 1
        <3>1. \A j \in 1 .. n + 1 : ~(i < j)
            BY <2>0, <2>1
        <3> QED
            BY <1>1, <1>2, <1>5, <1>6, <2>1, <3>1
    <2>2. CASE i \in 1 .. n
        <3>1. ASSUME NEW j \in 1 .. n + 1, i < j PROVE Under(undo', saves'[i], saves'[j])
            <4>1. CASE j = n + 1
                BY <1>5, <1>7, <2>2, <4>1
            <4>2. CASE j \in 1 .. n
                BY <1>5, <1>7, <2>2, <3>1, <4>2
            <4> QED
                BY <2>0, <4>1, <4>2
        <3> QED
            BY <1>1, <1>5, <1>7, <2>2, <3>1
    <2> QED
        BY <2>0, <2>1, <2>2
<1> QED
    BY <1>1, <1>5, <1>6, <1>8 DEF Stacked

\* A guard in a transaction opens a level above the savepoints; one outside
\* starts a journal of its own.
LEMMA GuardStacks ==
    ASSUME Good, GuardBegin
    PROVE Stacked'
<1>0. /\ Root \in Level /\ Top \in Level /\ undo \in Seq(Image) /\ Len(undo) \in Nat /\ Top.mark = Len(undo)
      /\ (\A i \in 1 .. Len(saves) : saves[i] \in Level) /\ Stacked /\ Nesting
    BY Levels DEF Good
<1>1. UNCHANGED <<db, inTx, base, saves>> /\ Root' = Root /\ guard = "none"
    BY DEF GuardBegin, Root, pagev, txv
<1>2. CASE inTx
    <2>1. undo' = Baseline /\ guard' = "tx" /\ gsave' = Top
        BY <1>2 DEF GuardBegin, Top
    <2>2. /\ undo' \in Seq(Image) /\ Len(undo) <= Len(undo') /\ \A i \in 1 .. Len(undo) : undo'[i] = undo[i]
          /\ Under(undo', Top, Top') /\ \A s \in Level : Under(undo, s, Top) => Under(undo', s, Top')
        BY <1>1, <2>1, NewLevel
    <2>3. ASSUME NEW s \in Level, NEW t \in Level, Under(undo, s, t), t.mark <= Len(undo)
          PROVE Under(undo', s, t)
        <3>1. t.mark \in Nat /\ Len(undo') \in Nat
            BY <2>2, LenProperties DEF Level
        <3>2. t.mark <= Len(undo') /\ \A i \in 1 .. t.mark : undo[i] = undo'[i]
            BY <1>0, <2>2, <2>3, <3>1
        <3> QED
            BY <1>0, <2>2, <2>3, <3>2, UnderPrefix
    <2>4. Under(undo', Root, Top') /\ Under(undo', Root, Top)
        BY <1>0, <1>2, <2>2, <2>3 DEF Stacked
    <2>5. ASSUME NEW i \in 1 .. Len(saves)
          PROVE Under(undo', Root, saves[i]) /\ Under(undo', saves[i], Top) /\ Under(undo', saves[i], Top')
                /\ \A j \in 1 .. Len(saves) : i < j => Under(undo', saves[i], saves[j])
        <3>1. \A j \in 1 .. Len(saves) : Under(undo, saves[j], Top) /\ saves[j].mark <= Len(undo)
            BY <1>0 DEF Stacked, Under
        <3>2. Under(undo, Root, saves[i]) /\ \A j \in 1 .. Len(saves) : i < j => Under(undo, saves[i], saves[j])
            BY <1>0 DEF Stacked
        <3>3. Under(undo', Root, saves[i]) /\ Under(undo', saves[i], Top) /\ Under(undo', saves[i], Top')
            BY <1>0, <2>2, <2>3, <3>1, <3>2
        <3> QED
            BY <1>0, <2>3, <3>1, <3>2, <3>3
    <2> QED
        BY <1>1, <2>1, <2>2, <2>4, <2>5 DEF Stacked
<1>3. CASE ~inTx
    <2>1. undo' = <<>> /\ guard' = "auto" /\ gsave' = [mark |-> 0, base |-> db] /\ saves' = <<>>
        BY <1>0, <1>1, <1>3 DEF GuardBegin, Nesting
    <2>2. Top' = [mark |-> 0, base |-> db]
        BY <1>1, <2>1 DEF Top
    <2>3. (\A i \in 1 .. 0 : FALSE) /\ (\A i \in 0 + 1 .. 0 : FALSE)
        OBVIOUS
    <2>4. Under(undo', gsave', Top')
        BY <2>1, <2>2, <2>3 DEF Under
    <2>5. Len(<<>>) = 0
        OBVIOUS
    <2> QED
        BY <1>1, <1>3, <2>1, <2>3, <2>4, <2>5 DEF Stacked
<1> QED
    BY <1>2, <1>3

\* Going back to a level makes it the present, under which the lower levels
\* lie as before.
LEMMA BackTo ==
    ASSUME Good, inTx, UNCHANGED <<inTx, base>>, guard' = "none",
           NEW s \in Level, Under(undo, s, Top), Under(undo, Root, s), RestoreTo(s.mark),
           NEW k \in 0 .. Len(saves), \A i \in 1 .. k : Under(undo, saves[i], s),
           saves' = SubSeq(saves, 1, k)
    PROVE Stacked'
<1>0. /\ Root \in Level /\ Top \in Level /\ undo \in Seq(Image) /\ Len(undo) \in Nat /\ Top.mark = Len(undo)
      /\ (\A i \in 1 .. Len(saves) : saves[i] \in Level) /\ Len(saves) \in Nat /\ db \in Pages
      /\ Top = [mark |-> Len(undo), base |-> db] /\ Shapes
    BY Levels DEF Top, Good
<1>1. s.mark \in Nat /\ s.mark <= Len(undo) /\ s.base \in Pages /\ s = [mark |-> s.mark, base |-> s.base]
    BY <1>0 DEF Under, Level
<1>2. db' = s.base
    <2>1. db' = Override(db, Undone(SubSeq(undo, s.mark + 1, Len(undo))))
        BY DEF RestoreTo, Apply, UndoTail
    <2> QED
        BY <1>0, <2>1, Restores
<1>3. undo' = SubSeq(undo, 1, s.mark)
    BY DEF RestoreTo
<1>4. undo' \in Seq(Image) /\ Len(undo') = s.mark /\ \A i \in 1 .. s.mark : undo'[i] = undo[i]
    BY <1>0, <1>1, <1>3, Part
<1>5. Top' = s
    BY <1>1, <1>2, <1>4 DEF Top
<1>6. ASSUME NEW t \in Level, Under(undo, t, s) PROVE Under(undo', t, Top')
    <2>1. s.mark <= Len(undo') /\ \A i \in 1 .. s.mark : undo[i] = undo'[i]
        BY <1>1, <1>4
    <2>2. Under(undo', t, s)
        BY <1>0, <1>1, <1>4, <1>6, <2>1, UnderPrefix
    <2> QED
        BY <1>5, <2>2
<1>7. Under(undo', Root, Top')
    BY <1>0, <1>6
<1>8. ASSUME NEW i \in 1 .. k PROVE saves[i].mark <= s.mark /\ Under(undo', saves[i], Top')
    <2>1. i \in 1 .. Len(saves) /\ saves[i] \in Level
        BY <1>0
    <2> QED
        BY <1>6, <2>1 DEF Under
<1>9. /\ db' \in Pages /\ s.mark <= Len(undo') /\ inTx' = inTx /\ base' = base
      /\ \A i \in 1 .. k : saves[i].mark <= s.mark /\ Under(undo', saves[i], Top')
    BY <1>1, <1>2, <1>4, <1>8
<1> QED
    BY <1>1, <1>4, <1>7, <1>9, Restacked

\* RELEASE and ROLLBACK TO a savepoint.
LEMMA SavepointEnds ==
    ASSUME Good, NEW i \in DOMAIN saves, ReleaseSavepoint(i) \/ RollbackTo(i)
    PROVE Stacked'
<1>0. /\ Root \in Level /\ Top \in Level /\ undo \in Seq(Image) /\ Len(undo) \in Nat /\ Stacked /\ db \in Pages
      /\ (\A j \in 1 .. Len(saves) : saves[j] \in Level) /\ Len(saves) \in Nat /\ i \in 1 .. Len(saves)
    BY Levels DEF Good
<1>1. inTx /\ guard = "none" /\ UNCHANGED <<inTx, base, guard>> /\ saves' = SubSeq(saves, 1, i - 1)
    BY DEF ReleaseSavepoint, RollbackTo, guardv
<1>2. i - 1 \in 0 .. Len(saves) /\ \A j \in 1 .. i - 1 : j \in 1 .. Len(saves) /\ j < i
    BY <1>0
<1>3. CASE ReleaseSavepoint(i)
    <2>1. undo' = undo /\ db' = db
        BY <1>3 DEF ReleaseSavepoint, undov, pagev
    <2>2. Top' = Top
        BY <2>1 DEF Top
    <2>3. ASSUME NEW j \in 1 .. i - 1 PROVE saves[j].mark <= Len(undo) /\ Under(undo, saves[j], Top)
        BY <1>0, <1>2 DEF Stacked, Under, Top
    <2>4. Under(undo, Root, Top)
        BY <1>0, <1>1 DEF Stacked
    <2> QED
        <3>1. /\ db' \in Pages /\ undo' \in Seq(Image) /\ guard' = "none"
              /\ Len(undo) <= Len(undo) /\ Len(undo) <= Len(undo') /\ \A j \in 1 .. Len(undo) : undo'[j] = undo[j]
            BY <1>0, <1>1, <2>1
        <3>2. Under(undo', Root, Top')
            BY <2>1, <2>2, <2>4
        <3>3. \A j \in 1 .. i - 1 : saves[j].mark <= Len(undo) /\ Under(undo', saves[j], Top')
            BY <2>1, <2>2, <2>3
        <3> QED
            BY <1>0, <1>1, <1>2, <3>1, <3>2, <3>3, Restacked
<1>4. CASE RollbackTo(i)
    <2>1. Under(undo, saves[i], Top) /\ Under(undo, Root, saves[i])
          /\ \A j \in 1 .. i - 1 : Under(undo, saves[j], saves[i])
        BY <1>0, <1>2 DEF Stacked
    <2>2. RestoreTo(saves[i].mark)
        BY <1>4 DEF RollbackTo
    <2> QED
        BY <1>0, <1>1, <1>2, <2>1, <2>2, BackTo
<1> QED
    BY <1>3, <1>4

\* A guarded statement ends, well or badly.
LEMMA GuardEnds ==
    ASSUME Good, GuardOk \/ GuardFails
    PROVE Stacked'
<1>0. /\ Root \in Level /\ Top \in Level /\ undo \in Seq(Image) /\ Len(undo) \in Nat /\ Stacked /\ Nesting
      /\ saves \in Seq(Level) /\ Len(saves) \in Nat /\ gsave \in Level
    BY Levels DEF Good, Shapes
<1>1. guard' = "none" /\ UNCHANGED <<inTx, base, saves>> /\ guard # "none"
    BY DEF GuardOk, GuardFails, GuardClosed, txv
<1>2. CASE guard = "auto"
    <2>1. inTx = FALSE /\ saves = <<>>
        BY <1>0, <1>2 DEF Nesting, Good, Shapes
    <2> QED
        BY <1>1, <2>1, Closed
<1>3. CASE guard = "tx" /\ GuardOk
    <2>1. UNCHANGED <<undo, db>>
        BY <1>3 DEF GuardOk, undov, pagev
    <2>2. Top' = Top /\ Root' = Root
        BY <1>1, <2>1 DEF Top, Root
    <2> QED
        BY <1>0, <1>1, <2>1, <2>2 DEF Stacked
<1>4. CASE guard = "tx" /\ GuardFails
    <2>1. RestoreTo(gsave.mark) /\ inTx
        BY <1>0, <1>4 DEF GuardFails, Nesting
    <2>2. Under(undo, gsave, Top) /\ Under(undo, Root, gsave)
          /\ \A j \in 1 .. Len(saves) : Under(undo, saves[j], gsave)
        BY <1>0, <1>4 DEF Stacked
    <2>3. Len(saves) \in 0 .. Len(saves) /\ saves' = SubSeq(saves, 1, Len(saves))
        BY <1>0, <1>1, SubSeqFull
    <2> QED
        BY <1>0, <1>1, <2>1, <2>2, <2>3, BackTo
<1> QED
    BY <1>1, <1>2, <1>3, <1>4 DEF GuardOk, GuardFails

\* Every step keeps the levels stacked.
LEMMA StackedKept ==
    ASSUME Good, "txGuardFail" \notin Features, Next
    PROVE Stacked'
<1>a. Shapes /\ Nesting /\ Stacked
    BY DEF Good
<1>1. ASSUME NEW ps \in SUBSET Page, StmtDeferred(ps) PROVE Stacked'
    <2>1. CASE inTx \/ guard # "none"
        <3>1. undoOn
            BY <1>a, <2>1 DEF Nesting, Shapes
        <3> QED
            BY <1>1, <3>1, WriteRaises
    <2>2. CASE ~inTx /\ guard = "none"
        BY <1>1, <1>a, <2>2, Closed DEF StmtDeferred, Nesting, Shapes, txv, guardv
    <2> QED
        BY <2>1, <2>2
<1>2. ASSUME NEW ps \in SUBSET Page, StmtSync(ps) PROVE Stacked'
    <2>1. ~inTx /\ ~(unit > 0)
        BY <1>2 DEF StmtSync, Defers
    <2>2. saves = <<>> /\ guard = "none" /\ inTx = FALSE
        BY <1>a, <2>1 DEF Nesting, Shapes
    <2> QED
        BY <1>2, <2>2, Closed DEF StmtSync, txv, guardv
<1>3. ASSUME Begin PROVE Stacked'
    <2>1. saves' = <<>> /\ guard' = "none" /\ undo' = <<>> /\ base' = db /\ db' = db
        BY <1>3, <1>a DEF Begin, Nesting, guardv, pagev
    <2>2. Top' = [mark |-> 0, base |-> db] /\ Root' = [mark |-> 0, base |-> db]
        BY <2>1 DEF Top, Root
    <2>3. (\A i \in 1 .. 0 : FALSE) /\ (\A i \in 0 + 1 .. 0 : FALSE) /\ Len(<<>>) = 0
        OBVIOUS
    <2>4. Under(undo', Root', Top')
        BY <2>2, <2>3 DEF Under
    <2> QED
        BY <2>1, <2>3, <2>4 DEF Stacked
<1>4. ASSUME CommitTx PROVE Stacked'
    <2>1. CASE AsyncCommit
        BY <1>4, <2>1, Closed DEF CommitTx, EndTx, guardv
    <2>2. CASE ~AsyncCommit
        BY <1>4, <1>a, <2>2, Untouched DEF CommitTx, pagev, guardv, txv, undov
    <2> QED
        BY <2>1, <2>2
<1>5. ASSUME Rollback PROVE Stacked'
    BY <1>5, Closed DEF Rollback, EndTx, guardv
<1>6. ASSUME AbortFails PROVE Stacked'
    <2>1. UNCHANGED <<undo, db, inTx, base, saves>>
        BY <1>6 DEF AbortFails, pagev, undov, txv
    <2>2. UNCHANGED <<guard, gsave>> \/ (guard = "auto" /\ guard' = "none")
        BY <1>6 DEF AbortFails, GuardClosed, guardv
    <2>3. CASE guard = "auto" /\ guard' = "none"
        BY <1>a, <2>1, <2>3, Closed DEF Nesting, Shapes
    <2>4. CASE UNCHANGED <<guard, gsave>>
        BY <1>a, <2>1, <2>4, Untouched
    <2> QED
        BY <2>2, <2>3, <2>4
<1>7. ASSUME RestoreFails PROVE Stacked'
    <2>1. UNCHANGED <<db, inTx, base, saves>>
        BY <1>7 DEF RestoreFails, pagev, txv
    <2>2. UNCHANGED <<guard, gsave, undo>> \/ (guard = "auto" /\ guard' = "none")
        BY <1>7 DEF RestoreFails, MayFail, GuardClosed, guardv, undov
    <2>3. CASE guard = "auto" /\ guard' = "none"
        BY <1>a, <2>1, <2>3, Closed DEF Nesting, Shapes
    <2>4. CASE UNCHANGED <<guard, gsave, undo>>
        BY <1>a, <2>1, <2>4, Untouched
    <2> QED
        BY <2>2, <2>3, <2>4
<1>8. ASSUME UnitBegin \/ UnitEnd \/ SyncPending \/ FsyncFails \/ Truncate
             \/ \E p \in Page : FlushPage(p)
      PROVE Stacked'
    <2>1. UNCHANGED <<undo, db, inTx, base, saves, guard, gsave>>
        BY <1>8 DEF UnitBegin, UnitEnd, SyncPending, FsyncFails, Truncate, FlushPage, pagev, undov, txv, guardv
    <2> QED
        BY <1>a, <2>1, Untouched
<1>9. ASSUME FsyncOk PROVE Stacked'
    <2>1. UNCHANGED <<undo, inTx, base, saves, guard, gsave>> /\ db' = Override(db, staged)
        BY <1>9 DEF FsyncOk, undov, txv, guardv
    <2>2. CASE inTx \/ guard # "none"
        <3>1. DOMAIN staged = {} /\ db \in [Page -> Value]
            BY <1>a, <2>2 DEF Nesting, Shapes, Pages
        <3>2. db' = db
            BY <2>1, <3>1 DEF Override
        <3> QED
            BY <1>a, <2>1, <3>2, Untouched
    <2>3. CASE ~inTx /\ guard = "none"
        BY <1>a, <2>1, <2>3, Closed DEF Nesting, Shapes
    <2> QED
        BY <2>2, <2>3
<1>10. ASSUME FlushDone PROVE Stacked'
    <2>1. guard = "none" /\ guard' = "none" /\ gsave' = gsave /\ db' = db
        BY <1>10, <1>a DEF FlushDone, Nesting, Idle, guardv, pagev
    <2>2. CASE then = "commit"
        BY <1>10, <2>1, <2>2, Closed DEF FlushDone, EndTx
    <2>3. CASE then = "guard"
        <3>1. inTx = FALSE /\ saves = <<>>
            BY <1>10, <1>a, <2>3 DEF FlushDone, Nesting, Idle, Shapes
        <3> QED
            BY <1>10, <2>1, <2>3, <3>1, Closed DEF FlushDone, txv
    <2>4. CASE then \notin {"commit", "guard"}
        BY <1>10, <1>a, <2>1, <2>4, Untouched DEF FlushDone, txv, undov
    <2> QED
        BY <2>2, <2>3, <2>4
<1>11. ASSUME CrashRecover PROVE Stacked'
    BY <1>11, Closed DEF CrashRecover
<1> QED
    BY <1>1, <1>2, <1>3, <1>4, <1>5, <1>6, <1>7, <1>8, <1>9, <1>10, <1>11,
       SavepointStacks, GuardStacks, SavepointEnds, GuardEnds DEF Next

-----------------------------------------------------------------------------
(* The theorems                                                            *)

\* The inductive invariant holds: the levels of an open transaction - BEGIN,
\* its savepoints, a guarded statement, the present - lie under one another
\* in the undo journal (undo_savepoint, take_undo_to, restore_transaction).
THEOREM Invariant ==
    Spec => []IInv
<1>1. Init => IInv
    <2> SUFFICES ASSUME Init PROVE Good
        BY DEF IInv
    <2>1. Shapes
        BY ShapesInit
    <2>2. Nesting
        BY DEF Init, Nesting, Idle, NoImages
    <2>3. Len(<<>>) = 0 /\ \A i \in 1 .. 0 : FALSE
        OBVIOUS
    <2>4. Stacked
        BY <2>3 DEF Init, Stacked
    <2> QED
        BY <2>1, <2>2, <2>4 DEF Good
<1>2. IInv /\ [Next]_vars => IInv'
    <2> SUFFICES ASSUME IInv, [Next]_vars, ("txGuardFail" \notin Features)' PROVE Good'
        BY DEF IInv
    <2>1. CASE Next
        <3>1. setup' = setup
            BY <2>1 DEF Next, StmtDeferred, StmtSync, Begin, CommitTx, Rollback, AbortFails, RestoreFails,
                MayFail, Savepoint, ReleaseSavepoint, RollbackTo, GuardBegin, GuardOk, GuardFails, UnitBegin,
                UnitEnd, SyncPending, FsyncOk, FsyncFails, FlushPage, FlushDone, Truncate, CrashRecover, runv
        <3>2. Good /\ "txGuardFail" \notin Features
            BY <3>1 DEF IInv, Features
        <3>3. Shapes'
            BY <2>1, <3>2, StatementShapes, NestedShapes, SyncShapes DEF Next, Good
        <3> QED
            BY <2>1, <3>2, <3>3, NestingKept, StackedKept DEF Good
    <2>2. CASE UNCHANGED vars
        <3>1. UNCHANGED <<log, synced, dtx, db, surv, undo, undoOn, inTx, base, saves, guard, gsave, unit,
                          staged, pc, then, tick, setup>>
            BY <2>2 DEF vars, walv, pagev, undov, txv, guardv, unitv, callv, runv
        <3>2. Good
            BY <3>1 DEF IInv, Features
        <3>3. Stacked'
            BY <3>1, <3>2, Untouched DEF Good
        <3> QED
            BY <3>1, <3>2, <3>3 DEF Good, Shapes, Nesting, Idle
    <2> QED
        BY <2>1, <2>2
<1> QED
    BY <1>1, <1>2, PTL DEF Spec

\* Whatever the nesting of savepoints, rollbacks to them and guarded
\* statements, the undo journal takes every page back to BEGIN, to each open
\* savepoint and to the start of a guarded statement
\* (restore_transaction over take_undo_to's entries).
THEOREM UndoAlwaysRestores ==
    Spec => []UndoRestores
<1>1. IInv => UndoRestores
    <2> SUFFICES ASSUME Good
                 PROVE /\ inTx => Override(db, Undone(undo)) = base
                       /\ \A i \in DOMAIN saves : Override(db, Undone(UndoTail(saves[i].mark))) = saves[i].base
                       /\ guard # "none" => Override(db, Undone(UndoTail(gsave.mark))) = gsave.base
        BY DEF IInv, UndoRestores
    <2>0. /\ Root \in Level /\ gsave \in Level /\ undo \in Seq(Image) /\ db \in Pages /\ Stacked
          /\ DOMAIN saves = 1 .. Len(saves) /\ (\A i \in 1 .. Len(saves) : saves[i] \in Level)
          /\ Top = [mark |-> Len(undo), base |-> db] /\ Root.mark = 0 /\ Root.base = base
        BY Levels DEF Good, Top, Root
    <2>1. ASSUME NEW s \in Level, Under(undo, s, Top)
          PROVE Override(db, Undone(SubSeq(undo, s.mark + 1, Len(undo)))) = s.base
        BY <2>0, <2>1, Restores
    <2>2. ASSUME inTx PROVE Override(db, Undone(undo)) = base
        <3>1. Under(undo, Root, Top)
            BY <2>0, <2>2 DEF Stacked
        <3>2. Override(db, Undone(SubSeq(undo, 0 + 1, Len(undo)))) = base
            BY <2>0, <2>1, <3>1
        <3>3. SubSeq(undo, 0 + 1, Len(undo)) = undo
            <4>1. 0 + 1 = 1 /\ SubSeq(undo, 1, Len(undo)) = undo
                BY <2>0, SubSeqFull
            <4> QED
                BY <4>1
        <3> QED
            BY <3>2, <3>3
    <2>3. ASSUME NEW i \in DOMAIN saves
          PROVE Override(db, Undone(UndoTail(saves[i].mark))) = saves[i].base
        <3>1. Under(undo, saves[i], Top) /\ saves[i] \in Level
            BY <2>0 DEF Stacked
        <3> QED
            BY <2>1, <3>1 DEF UndoTail
    <2>4. ASSUME guard # "none"
          PROVE Override(db, Undone(UndoTail(gsave.mark))) = gsave.base
        <3>1. Under(undo, gsave, Top)
            BY <2>0, <2>4 DEF Stacked
        <3> QED
            BY <2>0, <2>1, <3>1 DEF UndoTail
    <2> QED
        BY <2>2, <2>3, <2>4
<1> QED
    BY <1>1, Invariant, PTL


-----------------------------------------------------------------------------
(* What was rolled back: its inductive invariant                           *)

\* A transaction or a guarded statement of its own is open; the images made in
\* it; the images that are there to stay.
Open == inTx \/ guard = "auto"
Young(v) == Open /\ v \in Nat /\ since < v
Lasting(v) == v \notin dead /\ ~Young(v)

\* Images and transaction numbers are those used so far.
Used == (0 .. tick) \cup {Torn}
Dated ==
    /\ since \in 0 .. tick /\ dead \subseteq 1 .. tick
    /\ \A p \in Page : db[p] \in Used /\ surv[p] \subseteq Used /\ base[p] \in Used /\ gsave.base[p] \in Used
    /\ \A i \in 1 .. Len(saves) : \A p \in Page : saves[i].base[p] \in Used
    /\ \A p \in DOMAIN staged : staged[p] \in Used
    /\ \A i \in 1 .. Len(log) : log[i].tx <= tick /\ \A p \in DOMAIN log[i].img : log[i].img[p] \in Used
    /\ \A j \in 1 .. Len(dtx) : dtx[j] <= tick

\* Calls that can be in progress inside a transaction.
Calls ==
    /\ inTx => unit = 0
    /\ inTx /\ ~Idle => then = "commit"

\* Nothing that was rolled back is left outside the log, and nothing of what
\* is open has reached the file.
Clean ==
    /\ \A p \in Page : db[p] \notin dead /\ surv[p] \cap dead = {}
    /\ \A p \in DOMAIN staged : staged[p] \notin dead
    /\ \A i \in 1 .. Len(saves) : \A p \in Page : saves[i].base[p] \notin dead
    /\ guard = "tx" => \A p \in Page : gsave.base[p] \notin dead
    /\ inTx => \A p \in Page : Lasting(base[p])
    /\ guard = "auto" => \A p \in Page : Lasting(gsave.base[p])
    /\ Open /\ pc # "flush" => \A p \in Page : (\A v \in surv[p] : ~Young(v)) /\ (Young(db[p]) => p \in queue)

NoFence(l, i, k) == \A j \in i + 1 .. k : l[j].kind # "fence"
AbortAt(l, i, m) == l[m].kind = "abort" /\ l[m].tx = l[i].tx

\* Entry i of log l is aborted before any fence.
Voided(l, i) == \E m \in i + 1 .. Len(l) : AbortAt(l, i, m) /\ NoFence(l, i, m)

\* Entry m takes page p over from entry i wherever i is replayed.
Covers(l, i, p, m) ==
    /\ m \in i + 1 .. Len(l) /\ l[m].kind = "deferred" /\ p \in DOMAIN l[m].img /\ NoFence(l, i, m)
    /\ \A k \in m + 1 .. Len(l) : ~AbortAt(l, m, k)
Shadows(i, p, m) == Covers(log, i, p, m) /\ Lasting(log[m].img[p])
Shadowed(i, p) == \E m \in 1 .. Len(log) : Shadows(i, p, m)

Outstanding(t) == \E j \in 1 .. Len(dtx) : dtx[j] = t

\* What was rolled back is voided or overwritten in the log for good.
Buried(i, p) ==
    /\ log[i].kind = "deferred"
    /\ \/ Voided(log, i)
       \/ \E m \in 1 .. Len(log) : Shadows(i, p, m) /\ ~Outstanding(log[m].tx)

\* What is open can still be: it is outstanding, or its COMMIT has failed and
\* the log takes no more, and the journal knows what the log has not restored.
Pending(i, p) ==
    /\ log[i].kind = "deferred"
    /\ \/ Voided(log, i)
       \/ /\ Outstanding(log[i].tx) /\ NoFence(log, i, Len(log))
          /\ poisoned \/ p \in Recorded(undo) \/ Shadowed(i, p)
       \/ /\ inTx /\ (poisoned \/ ~Idle) /\ dtx = <<>>
          /\ p \in Recorded(undo) \/ Shadowed(i, p)

DeadBuried == \A i \in 1 .. Len(log) : \A p \in DOMAIN log[i].img : log[i].img[p] \in dead => Buried(i, p)
YoungPending == \A i \in 1 .. Len(log) : \A p \in DOMAIN log[i].img : Young(log[i].img[p]) => Pending(i, p)

Fates == Dated /\ Calls /\ Clean /\ DeadBuried /\ YoungPending

\* Together with the stacked levels of the journal, and short of the failure
\* that breaks it.
FInv == "txGuardFail" \notin Features => Good /\ Fates

-----------------------------------------------------------------------------
(* Entries of a growing log                                                *)

\* A log with more entries.
LEMMA Longer ==
    ASSUME NEW l \in Seq(Entry), NEW x \in Seq(Entry)
    PROVE /\ Len(l) \in Nat /\ Len(x) \in Nat /\ l \o x \in Seq(Entry) /\ Len(l \o x) = Len(l) + Len(x)
          /\ \A j \in 1 .. Len(l) : (l \o x)[j] = l[j]
          /\ \A j \in Len(l) + 1 .. Len(l) + Len(x) : j - Len(l) \in 1 .. Len(x) /\ (l \o x)[j] = x[j - Len(l)]
<1>1. Len(l) \in Nat /\ Len(x) \in Nat
    BY LenProperties
<1>2. l \o x \in Seq(Entry) /\ Len(l \o x) = Len(l) + Len(x)
      /\ \A j \in 1 .. Len(l) + Len(x) : (l \o x)[j] = IF j <= Len(l) THEN l[j] ELSE x[j - Len(l)]
    BY ConcatProperties
<1> QED
    BY <1>1, <1>2

\* Voided and covering entries stay so, a covering entry unless it is aborted.
LEMMA Stays ==
    ASSUME NEW l \in Seq(Entry), NEW x \in Seq(Entry), NEW i \in 1 .. Len(l)
    PROVE /\ Voided(l, i) => Voided(l \o x, i)
          /\ \A p, m : Covers(l, i, p, m) /\ (\A k \in 1 .. Len(x) : x[k].kind = "abort" => x[k].tx # l[m].tx)
                           => Covers(l \o x, i, p, m)
          /\ \A k \in 1 .. Len(l) : NoFence(l, i, k) => NoFence(l \o x, i, k)
<1> DEFINE L == l \o x
           n == Len(l)
<1>1. /\ n \in Nat /\ Len(x) \in Nat /\ Len(L) = n + Len(x)
      /\ \A j \in 1 .. n : L[j] = l[j]
      /\ \A j \in n + 1 .. n + Len(x) : j - n \in 1 .. Len(x) /\ L[j] = x[j - n]
    BY Longer
<1> HIDE DEF L, n
<1>2. ASSUME NEW k \in 1 .. n, NoFence(l, i, k) PROVE NoFence(L, i, k)
    <2>1. \A j \in i + 1 .. k : j \in 1 .. n
        BY <1>1 DEF n
    <2> QED
        BY <1>1, <1>2, <2>1 DEF NoFence
<1>3. ASSUME Voided(l, i) PROVE Voided(L, i)
    <2>1. PICK m \in i + 1 .. n : AbortAt(l, i, m) /\ NoFence(l, i, m)
        BY <1>3 DEF Voided, n
    <2>2. m \in 1 .. n /\ m \in i + 1 .. Len(L) /\ i \in 1 .. n
        BY <1>1 DEF n
    <2> QED
        BY <1>1, <1>2, <2>1, <2>2 DEF Voided, AbortAt
<1>4. ASSUME NEW p, NEW m, Covers(l, i, p, m), \A k \in 1 .. Len(x) : x[k].kind = "abort" => x[k].tx # l[m].tx
      PROVE Covers(L, i, p, m)
    <2>1. m \in i + 1 .. n /\ l[m].kind = "deferred" /\ p \in DOMAIN l[m].img /\ NoFence(l, i, m)
          /\ \A k \in m + 1 .. n : ~AbortAt(l, m, k)
        BY <1>4 DEF Covers, n
    <2>2. m \in 1 .. n /\ m \in i + 1 .. Len(L) /\ L[m] = l[m]
        BY <1>1, <2>1 DEF n
    <2>3. ASSUME NEW k \in m + 1 .. Len(L) PROVE ~AbortAt(L, m, k)
        <3>1. CASE k <= n
            <4>1. k \in m + 1 .. n /\ k \in 1 .. n
                BY <1>1, <2>2, <3>1
            <4> QED
                BY <1>1, <2>1, <2>2, <4>1 DEF AbortAt
        <3>2. CASE ~(k <= n)
            <4>1. k \in n + 1 .. n + Len(x)
                BY <1>1, <2>2, <3>2
            <4> QED
                BY <1>1, <1>4, <2>2, <4>1 DEF AbortAt
        <3> QED
            BY <3>1, <3>2
    <2> QED
        BY <1>2, <2>1, <2>2, <2>3 DEF Covers
<1> QED
    BY <1>2, <1>3, <1>4 DEF L, n

\* Aborting what is outstanding and not fenced voids it.
LEMMA AbortVoids ==
    ASSUME NEW l \in Seq(Entry), NEW ts \in Seq(Nat), NEW i \in 1 .. Len(l), NEW j \in 1 .. Len(ts),
           ts[j] = l[i].tx, NoFence(l, i, Len(l))
    PROVE Voided(l \o AbortsOf(ts), i)
<1> DEFINE x == AbortsOf(ts)
           L == l \o x
           n == Len(l)
<1>0. Len(ts) \in Nat /\ DOMAIN ts = 1 .. Len(ts)
    BY LenProperties
<1>1. Len(x) = Len(ts) /\ \A k \in 1 .. Len(ts) : x[k] = Abort(ts[k])
    BY <1>0 DEF AbortsOf
<1>2. x \in Seq(Entry)
    <2>1. \A k \in 1 .. Len(ts) : ts[k] \in Nat
        BY ElementOfSeq
    <2>2. \A k \in 1 .. Len(ts) : Abort(ts[k]) \in Entry
        BY <2>1, SomeImages DEF Abort, Entry
    <2>3. x = [k \in 1 .. Len(ts) |-> Abort(ts[k])]
        BY <1>0 DEF AbortsOf
    <2> HIDE DEF x
    <2> QED
        BY <1>0, <2>2, <2>3, IsASeq
<1> HIDE DEF x
<1>3. /\ n \in Nat /\ Len(L) = n + Len(x) /\ \A k \in 1 .. n : L[k] = l[k]
      /\ \A k \in n + 1 .. n + Len(x) : L[k] = x[k - n]
    BY <1>2, Longer
<1> HIDE DEF L, n
<1>4. n + j \in i + 1 .. Len(L) /\ n + j \in n + 1 .. n + Len(x) /\ (n + j) - n = j /\ i \in 1 .. n
    BY <1>0, <1>1, <1>3 DEF n
<1>5. AbortAt(L, i, n + j)
    <2>1. L[n + j] = Abort(ts[j]) /\ L[i] = l[i]
        BY <1>1, <1>3, <1>4
    <2> QED
        BY <2>1 DEF AbortAt, Abort
<1>6. ASSUME NEW k \in i + 1 .. n + j PROVE L[k].kind # "fence"
    <2>1. CASE k <= n
        <3>1. k \in 1 .. n /\ k \in i + 1 .. n
            BY <1>3, <1>4, <2>1
        <3> QED
            BY <1>3, <3>1 DEF NoFence, n
    <2>2. CASE ~(k <= n)
        <3>1. k \in n + 1 .. n + Len(x) /\ k - n \in 1 .. Len(ts)
            BY <1>0, <1>1, <1>3, <1>4, <2>2
        <3>2. L[k] = Abort(ts[k - n])
            BY <1>1, <1>3, <3>1
        <3> QED
            BY <3>2 DEF Abort
    <2> QED
        BY <2>1, <2>2
<1> QED
    BY <1>4, <1>5, <1>6 DEF Voided, NoFence, L, x

-----------------------------------------------------------------------------
(* Images through a step                                                   *)

\* A step leaves what is open open or closes it, opens something anew, or
\* rolls it back.
LEMMA Phases ==
    ASSUME Good, "txGuardFail" \notin Features, Next
    PROVE /\ tick' \in {tick, tick + 1}
          /\ \/ since' = since /\ dead' = dead /\ (Open' => Open)
             \/ since' = tick /\ dead' = dead /\ tick' = tick
             \/ Open /\ ~Open' /\ since' = since /\ dead' = dead \cup (since + 1 .. tick)
<1>a. Shapes /\ Nesting
    BY DEF Good
<1> DEFINE Kept == since' = since /\ dead' = dead /\ (Open' => Open) /\ tick' \in {tick, tick + 1}
<1>1. ASSUME NEW ps \in SUBSET Page, StmtDeferred(ps) \/ StmtSync(ps) PROVE Kept
    BY <1>1 DEF StmtDeferred, StmtSync, Apply, Open, txv, guardv, fates
<1>2. ASSUME Begin PROVE since' = tick /\ dead' = dead /\ tick' = tick
    BY <1>2 DEF Begin
<1>3. ASSUME CommitTx PROVE Kept
    <2>1. UNCHANGED <<guard, tick, since, dead>> /\ (inTx' => inTx)
        BY <1>3 DEF CommitTx, EndTx, txv, guardv, fates
    <2> QED
        BY <2>1 DEF Open
<1>4. ASSUME Rollback
      PROVE Open /\ ~Open' /\ since' = since /\ dead' = dead \cup (since + 1 .. tick) /\ tick' \in {tick, tick + 1}
    <2>1. inTx /\ guard = "none" /\ inTx' = FALSE /\ guard' = guard
        BY <1>4 DEF Rollback, EndTx, guardv
    <2> QED
        BY <1>4, <2>1 DEF Rollback, RolledBack, Apply, Open
<1>5. ASSUME AbortFails \/ RestoreFails PROVE Kept
    <2>1. UNCHANGED <<tick, since, dead, inTx>>
        BY <1>5 DEF AbortFails, RestoreFails, fates, txv
    <2>2. guard' = guard \/ guard' = "none"
        BY <1>5 DEF AbortFails, RestoreFails, GuardClosed, guardv
    <2> QED
        BY <2>1, <2>2 DEF Open
<1>6. ASSUME Savepoint PROVE Kept
    BY <1>6 DEF Savepoint, Open, guardv, fates
<1>7. ASSUME NEW i \in DOMAIN saves, ReleaseSavepoint(i) \/ RollbackTo(i) PROVE Kept
    BY <1>7 DEF ReleaseSavepoint, RollbackTo, RestoreTo, Apply, Open, guardv, fates
<1>8. ASSUME GuardBegin PROVE Kept \/ (since' = tick /\ dead' = dead /\ tick' = tick)
    BY <1>8 DEF GuardBegin, Open, txv
<1>9. ASSUME GuardOk PROVE Kept
    BY <1>9 DEF GuardOk, GuardClosed, Open, txv, fates
<1>10. ASSUME GuardFails
       PROVE \/ Kept
             \/ /\ Open /\ ~Open' /\ since' = since /\ dead' = dead \cup (since + 1 .. tick)
                /\ tick' \in {tick, tick + 1}
    <2>1. guard' = "none" /\ inTx' = inTx
        BY <1>10 DEF GuardFails, GuardClosed, txv
    <2>2. CASE guard = "tx"
        <3>1. UNCHANGED fates /\ RestoreTo(gsave.mark)
            BY <1>10, <2>2 DEF GuardFails
        <3> QED
            BY <2>1, <3>1 DEF RestoreTo, Apply, Open, fates
    <2>3. CASE guard = "auto"
        <3>1. RolledBack /\ Apply(Undone(undo)) /\ ~inTx
            BY <1>10, <1>a, <2>3 DEF GuardFails, Nesting
        <3> QED
            BY <2>1, <2>3, <3>1 DEF RolledBack, Apply, Open
    <2> QED
        BY <1>10, <2>2, <2>3 DEF GuardFails
<1>11. ASSUME UnitBegin \/ UnitEnd \/ SyncPending \/ FsyncOk \/ FsyncFails \/ Truncate
              \/ \E p \in Page : FlushPage(p)
       PROVE Kept
    <2>1. UNCHANGED <<tick, since, dead, inTx, guard>>
        BY <1>11 DEF UnitBegin, UnitEnd, SyncPending, FsyncOk, FsyncFails, Truncate, FlushPage, txv, guardv, fates
    <2> QED
        BY <2>1 DEF Open
<1>12. ASSUME FlushDone \/ CrashRecover PROVE Kept
    <2>1. UNCHANGED <<tick, since, dead>> /\ (inTx' = inTx \/ inTx' = FALSE) /\ (guard' = guard \/ guard' = "none")
        BY <1>12 DEF FlushDone, CrashRecover, EndTx, txv, guardv, fates
    <2> QED
        BY <2>1 DEF Open
<1> QED
    BY <1>1, <1>2, <1>3, <1>4, <1>5, <1>6, <1>7, <1>8, <1>9, <1>10, <1>11, <1>12 DEF Next

\* Lasting images stay, no used image becomes young, and only what was young
\* is rolled back.
LEMMA Ages ==
    ASSUME Good, Dated, "txGuardFail" \notin Features, Next
    PROVE /\ tick \in Nat /\ tick' \in Nat /\ tick <= tick' /\ since' \in 0 .. tick' /\ dead' \subseteq 1 .. tick
          /\ dead \subseteq dead'
          /\ \A v \in Used : /\ v \in Used' /\ (Young(v)' => Young(v)) /\ (Lasting(v) => Lasting(v)')
                             /\ v \in dead' /\ v \notin dead => Young(v) /\ ~Open'
          /\ Open' => dead' = dead
<1>1. tick \in Nat /\ since \in 0 .. tick /\ dead \subseteq 1 .. tick /\ Torn \notin Nat
    BY TxStoreAssumption DEF Good, Shapes, Dated
<1>2. tick' \in Nat /\ tick <= tick'
    BY <1>1, Phases
<1>3. \A v \in Used : v \in Used'
    BY <1>1, <1>2 DEF Used
<1>4. CASE since' = since /\ dead' = dead /\ (Open' => Open)
    BY <1>1, <1>2, <1>3, <1>4 DEF Young, Lasting
<1>5. CASE since' = tick /\ dead' = dead /\ tick' = tick
    <2>1. \A v \in Used : ~Young(v)'
        BY <1>1, <1>5 DEF Young, Used
    <2> QED
        BY <1>1, <1>2, <1>3, <1>5, <2>1 DEF Lasting
<1>6. CASE Open /\ ~Open' /\ since' = since /\ dead' = dead \cup (since + 1 .. tick)
    <2>1. \A v : ~Young(v)'
        BY <1>6 DEF Young
    <2>2. \A v \in since + 1 .. tick : Young(v)
        BY <1>1, <1>6 DEF Young
    <2> QED
        BY <1>1, <1>2, <1>3, <1>6, <2>1, <2>2 DEF Lasting
<1> QED
    BY <1>4, <1>5, <1>6, Phases

\* Going back to a level of the journal writes that level's images.
LEMMA LevelRestores ==
    ASSUME Good, NEW s \in Level, Under(undo, s, Top)
    PROVE LET img == Undone(UndoTail(s.mark))
          IN  /\ img \in Image /\ DOMAIN img = Recorded(UndoTail(s.mark)) /\ Override(db, img) = s.base
              /\ \A p \in DOMAIN img : p \in Page /\ img[p] = s.base[p]
<1> DEFINE img == Undone(UndoTail(s.mark))
<1>1. undo \in Seq(Image) /\ db \in Pages /\ s.mark \in Nat /\ s.mark <= Len(undo)
      /\ Top = [mark |-> Len(undo), base |-> db]
    BY DEF Good, Shapes, Top, Under, Level
<1>2. UndoTail(s.mark) \in Seq(Image)
    BY <1>1, Part DEF UndoTail
<1>3. img \in Image /\ DOMAIN img = Recorded(UndoTail(s.mark))
    BY <1>2, UndoneIs
<1>4. Override(db, img) = s.base
    BY <1>1, Restores DEF UndoTail
<1> HIDE DEF img
<1>5. \A p \in DOMAIN img : p \in Page
    BY <1>3, ImageIs
<1>6. \A p \in DOMAIN img : Override(db, img)[p] = img[p]
    BY <1>5 DEF Override
<1> QED
    BY <1>3, <1>4, <1>5, <1>6 DEF img

\* ROLLBACK, and that of a guarded statement of its own, go back to the images
\* there were when it began.
LEMMA WholeRestores ==
    ASSUME Good
    PROVE LET img == Undone(undo)
          IN  /\ img \in Image /\ DOMAIN img = Recorded(undo)
              /\ inTx => Override(db, img) = base /\ \A p \in DOMAIN img : p \in Page /\ img[p] = base[p]
              /\ guard = "auto" => /\ Override(db, img) = gsave.base
                                   /\ \A p \in DOMAIN img : p \in Page /\ img[p] = gsave.base[p]
<1>1. undo \in Seq(Image) /\ Stacked /\ Nesting /\ gsave \in Level /\ Root \in Level
      /\ Root.mark = 0 /\ Root.base = base
    BY Levels DEF Good, Shapes, Root
<1>2. UndoTail(0) = undo
    <2>1. 0 + 1 = 1 /\ SubSeq(undo, 1, Len(undo)) = undo
        BY <1>1, SubSeqFull
    <2> QED
        BY <2>1 DEF UndoTail
<1>3. Undone(undo) \in Image /\ DOMAIN Undone(undo) = Recorded(undo)
    BY <1>1, UndoneIs
<1>4. CASE inTx
    <2>1. Under(undo, Root, Top)
        BY <1>1, <1>4 DEF Stacked
    <2> QED
        BY <1>1, <1>2, <1>3, <1>4, <2>1, LevelRestores DEF Nesting
<1>5. CASE guard = "auto"
    <2>1. Under(undo, gsave, Top) /\ gsave.mark = 0 /\ ~inTx
        BY <1>1, <1>5 DEF Stacked, Nesting
    <2> QED
        BY <1>1, <1>2, <1>3, <1>5, <2>1, LevelRestores
<1> QED
    BY <1>3, <1>4, <1>5

-----------------------------------------------------------------------------
(* What a step appends to the log                                          *)

\* An entry that aborts only what is outstanding and carries no image that was
\* rolled back; entries like that; a log grown by them, with the deferred
\* commits outstanding after it.
Sound(e) ==
    /\ e.kind = "abort" => Outstanding(e.tx)
    /\ e.tx <= tick'
    /\ \A p \in DOMAIN e.img : e.img[p] \in Used' /\ e.img[p] \notin dead'
Piece(x) == x \in Seq(Entry) /\ \A k \in 1 .. Len(x) : Sound(x[k])
Grows == \E x \in Seq(Entry) : Piece(x) /\ log' = log \o x
Named == \A j \in 1 .. Len(dtx') : Outstanding(dtx'[j]) \/ (dtx'[j] = tick + 1 /\ tick' = tick + 1)

\* The pieces of what calls append.
LEMMA Pieces ==
    ASSUME Shapes, Dated, tick' \in Nat, tick <= tick'
    PROVE /\ Piece(<<>>)
          /\ \A x, y : Piece(x) /\ Piece(y) => Piece(x \o y)
          /\ \A ts \in Seq(Nat) : Piece(FenceOf(ts))
          /\ \A ts \in Seq(Nat) : (\A j \in 1 .. Len(ts) : Outstanding(ts[j])) => Piece(AbortsOf(ts))
          /\ \A img \in Image :
                (\A p \in DOMAIN img : img[p] \in Used' /\ img[p] \notin dead') =>
                    /\ tick' = tick + 1 => Piece(<<Deferred(tick + 1, img)>>) /\ Piece(<<Commit(tick + 1, img)>>)
                    /\ Apply(img) => Piece(RestoreLog(img))
<1>0. tick \in Nat /\ dtx \in Seq(Nat) /\ (\A j \in 1 .. Len(dtx) : dtx[j] <= tick) /\ DOMAIN NoImages = {}
    BY SomeImages DEF Shapes, Dated
<1>1. Piece(<<>>)
    <2>1. <<>> \in Seq(Entry) /\ Len(<<>>) = 0 /\ \A k \in 1 .. 0 : FALSE
        OBVIOUS
    <2> QED
        BY <2>1 DEF Piece
<1>2. ASSUME NEW x, NEW y, Piece(x), Piece(y) PROVE Piece(x \o y)
    <2>1. x \in Seq(Entry) /\ y \in Seq(Entry)
        BY <1>2 DEF Piece
    <2>2. /\ Len(x) \in Nat /\ Len(y) \in Nat /\ x \o y \in Seq(Entry) /\ Len(x \o y) = Len(x) + Len(y)
          /\ \A j \in 1 .. Len(x) : (x \o y)[j] = x[j]
          /\ \A j \in Len(x) + 1 .. Len(x) + Len(y) : j - Len(x) \in 1 .. Len(y) /\ (x \o y)[j] = y[j - Len(x)]
        BY <2>1, Longer
    <2>3. \A k \in 1 .. Len(x) + Len(y) : k \in 1 .. Len(x) \/ k \in Len(x) + 1 .. Len(x) + Len(y)
        BY <2>2
    <2>4. \A k \in 1 .. Len(x \o y) : Sound((x \o y)[k])
        BY <1>2, <2>2, <2>3 DEF Piece
    <2> QED
        BY <2>2, <2>4 DEF Piece
<1>3. ASSUME NEW e \in Entry, Sound(e) PROVE Piece(<<e>>)
    <2>1. <<e>> \in Seq(Entry) /\ Len(<<e>>) = 1 /\ <<e>>[1] = e /\ \A k \in 1 .. 1 : k = 1
        OBVIOUS
    <2> QED
        BY <1>3, <2>1 DEF Piece
<1>4. ASSUME NEW ts \in Seq(Nat) PROVE Piece(FenceOf(ts))
    <2>1. Fence \in Entry
        BY SomeImages DEF Fence, Entry
    <2>2. Sound(Fence)
        BY <1>0 DEF Sound, Fence
    <2> QED
        BY <1>1, <1>3, <2>1, <2>2 DEF FenceOf
<1>5. ASSUME NEW ts \in Seq(Nat), \A j \in 1 .. Len(ts) : Outstanding(ts[j]) PROVE Piece(AbortsOf(ts))
    <2>1. AbortsOf(ts) \in Seq(Entry)
        BY <1>0, SomeImages, Entries
    <2>2. Len(ts) \in Nat /\ DOMAIN ts = 1 .. Len(ts)
        BY LenProperties
    <2>3. Len(AbortsOf(ts)) = Len(ts) /\ \A k \in 1 .. Len(ts) : AbortsOf(ts)[k] = Abort(ts[k])
        BY <2>2 DEF AbortsOf
    <2>4. ASSUME NEW k \in 1 .. Len(ts) PROVE Sound(Abort(ts[k]))
        <3>1. PICK j \in 1 .. Len(dtx) : dtx[j] = ts[k]
            BY <1>5 DEF Outstanding
        <3>2. dtx[j] \in Nat /\ ts[k] <= tick'
            BY <1>0, <3>1, ElementOfSeq
        <3> QED
            BY <1>0, <1>5, <3>2 DEF Sound, Abort
    <2> QED
        BY <2>1, <2>3, <2>4 DEF Piece
<1>6. ASSUME NEW img \in Image, \A p \in DOMAIN img : img[p] \in Used' /\ img[p] \notin dead', tick' = tick + 1
      PROVE Piece(<<Deferred(tick + 1, img)>>) /\ Piece(<<Commit(tick + 1, img)>>)
    <2>1. Deferred(tick + 1, img) \in Entry /\ Commit(tick + 1, img) \in Entry
        BY <1>0, Entries
    <2>2. Sound(Deferred(tick + 1, img)) /\ Sound(Commit(tick + 1, img))
        BY <1>0, <1>6 DEF Sound, Deferred, Commit
    <2> QED
        BY <1>3, <2>1, <2>2
<1>7. ASSUME NEW img \in Image, \A p \in DOMAIN img : img[p] \in Used' /\ img[p] \notin dead', Apply(img)
      PROVE Piece(RestoreLog(img))
    BY <1>1, <1>6, <1>7 DEF RestoreLog, Apply
<1> QED
    BY <1>1, <1>2, <1>4, <1>5, <1>6, <1>7

\* Appending in parts.
LEMMA Joined ==
    ASSUME NEW l \in Seq(Entry), NEW x \in Seq(Entry), NEW y \in Seq(Entry)
    PROVE (l \o x) \o y = l \o (x \o y)
BY ConcatAssociative, Z3

\* A log grown by one, two or three pieces.
LEMMA GrowsBy ==
    ASSUME Shapes, Dated, tick' \in Nat, tick <= tick', NEW x, NEW y, NEW z, Piece(x), Piece(y), Piece(z),
           \/ log' = log \/ log' = log \o x \/ log' = (log \o x) \o y \/ log' = ((log \o x) \o y) \o z
    PROVE Grows
<1>1. log \in Seq(Entry) /\ x \in Seq(Entry) /\ y \in Seq(Entry) /\ z \in Seq(Entry)
    BY DEF Shapes, Piece
<1>2. x \o y \in Seq(Entry) /\ (x \o y) \o z \in Seq(Entry) /\ <<>> \in Seq(Entry)
    BY <1>1, ConcatProperties
<1>3. Piece(<<>>) /\ Piece(x \o y) /\ Piece((x \o y) \o z)
    BY Pieces
<1>4. log \o <<>> = log
    BY <1>1, ConcatEmptySeq
<1>5. (log \o x) \o y = log \o (x \o y)
    BY <1>1, Joined
<1>6. (log \o (x \o y)) \o z = log \o ((x \o y) \o z)
    <2>1. \A w \in Seq(Entry) : (log \o w) \o z = log \o (w \o z)
        BY <1>1, Joined
    <2> QED
        BY <1>2, <2>1, Zenon
<1> QED
    BY <1>1, <1>2, <1>3, <1>4, <1>5, <1>6 DEF Grows

\* What is outstanding after a call.
LEMMA NamedIs ==
    ASSUME Shapes,
           \/ dtx' = dtx \/ dtx' = <<>>
           \/ dtx' = Append(dtx, tick + 1) /\ tick' = tick + 1
           \/ \E img : Apply(img) /\ (dtx' = RestoreTx(img) \/ dtx' = dtx \o RestoreTx(img))
    PROVE Named
<1>0. dtx \in Seq(Nat) /\ Len(dtx) \in Nat /\ tick + 1 \in Nat /\ \A j \in 1 .. Len(dtx) : Outstanding(dtx[j])
    BY LenProperties DEF Shapes, Outstanding
<1>1. CASE dtx' = dtx
    BY <1>0, <1>1 DEF Named
<1>2. ASSUME dtx' = <<>> PROVE Named
    <2>1. Len(<<>>) = 0 /\ \A j \in 1 .. 0 : FALSE
        OBVIOUS
    <2> QED
        BY <1>2, <2>1 DEF Named
<1>3. ASSUME dtx' = Append(dtx, tick + 1), tick' = tick + 1 PROVE Named
    <2>1. Len(dtx') = Len(dtx) + 1 /\ (\A j \in 1 .. Len(dtx) : dtx'[j] = dtx[j]) /\ dtx'[Len(dtx) + 1] = tick + 1
        BY <1>0, <1>3
    <2>2. \A j \in 1 .. Len(dtx) + 1 : j \in 1 .. Len(dtx) \/ j = Len(dtx) + 1
        BY <1>0
    <2> QED
        BY <1>0, <1>3, <2>1, <2>2 DEF Named
<1>4. ASSUME NEW img, Apply(img), dtx' = RestoreTx(img) \/ dtx' = dtx \o RestoreTx(img) PROVE Named
    <2>1. CASE DOMAIN img = {}
        <3>1. dtx' = <<>> \/ dtx' = dtx
            BY <1>0, <1>4, <2>1, ConcatEmptySeq DEF RestoreTx
        <3> QED
            BY <1>1, <1>2, <3>1
    <2>2. CASE DOMAIN img # {}
        <3>1. RestoreTx(img) = <<tick + 1>> /\ tick' = tick + 1
            BY <1>4, <2>2 DEF RestoreTx, Apply
        <3>2. CASE dtx' = dtx \o <<tick + 1>>
            <4>1. Append(dtx, tick + 1) = dtx \o <<tick + 1>>
                BY <1>0, AppendIsConcat
            <4> QED
                BY <1>3, <3>1, <3>2, <4>1
        <3>3. CASE dtx' = <<tick + 1>>
            <4>1. Len(<<tick + 1>>) = 1 /\ <<tick + 1>>[1] = tick + 1 /\ \A j \in 1 .. 1 : j = 1
                OBVIOUS
            <4> QED
                BY <3>1, <3>3, <4>1 DEF Named
        <3> QED
            BY <1>4, <3>1, <3>2, <3>3
    <2> QED
        BY <2>1, <2>2
<1> QED
    BY <1>1, <1>2, <1>3, <1>4

\* What the end of a write unit appends.
LEMMA UnitGrows ==
    ASSUME Shapes, Dated, tick' \in Nat, tick <= tick', NEW pre, Piece(pre), NEW ts \in Seq(Nat), NEW now, NEW cont,
           UnitSync(pre, ts, now, cont)
    PROVE Grows /\ (dtx' = ts \/ dtx' = <<>>)
<1>1. \/ log' = log \o pre /\ dtx' = ts
      \/ log' = (log \o pre) \o FenceOf(ts) /\ dtx' = <<>>
    BY DEF UnitSync
<1>2. Piece(FenceOf(ts))
    BY Pieces
<1> QED
    BY <1>1, <1>2, GrowsBy

\* What going back to a level appends.
LEMMA BackGrows ==
    ASSUME Good, Dated, tick' \in Nat, tick <= tick', Used \subseteq Used', NEW s \in Level,
           Under(undo, s, Top), RestoreTo(s.mark),
           \A p \in Page : s.base[p] \in Used /\ s.base[p] \notin dead'
    PROVE Grows /\ Named
<1> DEFINE img == Undone(UndoTail(s.mark))
<1>1. img \in Image /\ \A p \in DOMAIN img : p \in Page /\ img[p] = s.base[p]
    BY LevelRestores
<1>2. log' = log \o RestoreLog(img) /\ dtx' = dtx \o RestoreTx(img) /\ Apply(img)
    BY DEF RestoreTo
<1>3. Shapes
    BY DEF Good
<1> HIDE DEF img
<1>4. \A p \in DOMAIN img : img[p] \in Used' /\ img[p] \notin dead'
    BY <1>1
<1>5. Piece(RestoreLog(img))
    BY <1>1, <1>2, <1>3, <1>4, Pieces
<1> QED
    BY <1>2, <1>3, <1>5, GrowsBy, NamedIs

\* A step empties the log or grows it.
LEMMA LogStep ==
    ASSUME Good, Fates, "txGuardFail" \notin Features, Next
    PROVE (log' = <<>> /\ dtx' = <<>>) \/ (Grows /\ Named)
<1>a. /\ Shapes /\ Nesting /\ Stacked /\ Dated /\ Clean /\ dtx \in Seq(Nat) /\ Len(dtx) \in Nat /\ log \in Seq(Entry)
      /\ \A j \in 1 .. Len(dtx) : Outstanding(dtx[j])
    BY LenProperties DEF Good, Fates, Shapes, Outstanding
<1>b. /\ tick \in Nat /\ tick' \in Nat /\ tick <= tick' /\ dead' \subseteq 1 .. tick /\ Used \subseteq Used'
      /\ \A v \in Used : Lasting(v) => v \notin dead'
    BY <1>a, Ages DEF Lasting
<1>c. Piece(<<>>) /\ Piece(FenceOf(dtx)) /\ Piece(AbortsOf(dtx))
    BY <1>a, <1>b, Pieces
<1>d. (\A x : Piece(x) /\ log' = log \o x => Grows) /\ (log' = log => Grows)
    BY <1>a, <1>b, <1>c, GrowsBy
<1>e. (dtx' = dtx => Named) /\ (dtx' = <<>> => Named)
    BY <1>a, NamedIs
<1>1. ASSUME NEW ps \in SUBSET Page, StmtDeferred(ps) PROVE Grows /\ Named
    <2> DEFINE img == [p \in ps |-> tick + 1]
    <2>1. img \in Image /\ DOMAIN img = ps /\ \A p \in ps : img[p] = tick + 1
        BY <1>a, Writes
    <2>2. log' = Append(log, Deferred(tick + 1, img)) /\ Apply(img) /\ dtx' = Append(dtx, tick + 1) /\ ps # {}
        BY <1>1 DEF StmtDeferred
    <2> HIDE DEF img
    <2>3. tick' = tick + 1
        BY <2>1, <2>2 DEF Apply
    <2>4. \A p \in DOMAIN img : img[p] \in Used' /\ img[p] \notin dead'
        BY <1>b, <2>1, <2>3 DEF Used
    <2>5. Piece(<<Deferred(tick + 1, img)>>)
        BY <1>a, <1>b, <2>1, <2>3, <2>4, Pieces
    <2>6. log' = log \o <<Deferred(tick + 1, img)>>
        <3>1. Deferred(tick + 1, img) \in Entry
            BY <1>a, <1>b, <2>1, Entries
        <3> QED
            BY <1>a, <2>2, <3>1, AppendIsConcat
    <2> QED
        BY <1>a, <1>d, <2>2, <2>3, <2>5, <2>6, NamedIs
<1>2. ASSUME NEW ps \in SUBSET Page, StmtSync(ps) PROVE Grows /\ Named
    <2>1. [p \in ps |-> tick + 1] \in Image
        BY <1>a, Writes
    <2>2. staged' = [p \in ps |-> tick + 1] /\ tick' = tick + 1 /\ dtx' = <<>>
          /\ log' = (log \o FenceOf(dtx)) \o <<Commit(tick + 1, staged')>>
        BY <1>2 DEF StmtSync
    <2>3. staged' \in Image /\ \A p \in DOMAIN staged' : staged'[p] \in Used' /\ staged'[p] \notin dead'
        BY <1>b, <2>1, <2>2 DEF Used
    <2>4. Piece(<<Commit(tick + 1, staged')>>)
        BY <1>a, <1>b, <2>2, <2>3, Pieces
    <2> QED
        BY <1>a, <1>b, <1>c, <1>e, <2>2, <2>4, GrowsBy
<1>3. ASSUME \/ Begin \/ Savepoint \/ \E i \in DOMAIN saves : ReleaseSavepoint(i)
             \/ GuardBegin \/ UnitBegin \/ FsyncOk \/ FsyncFails \/ \E p \in Page : FlushPage(p)
             \/ FlushDone
      PROVE Grows /\ Named
    <2>1. log' = log /\ dtx' = dtx
        BY <1>3 DEF Begin, Savepoint, ReleaseSavepoint, GuardBegin, UnitBegin, FsyncOk, FsyncFails, FlushPage,
            FlushDone, walv
    <2> QED
        BY <1>d, <1>e, <2>1
<1>4. ASSUME CommitTx \/ SyncPending PROVE Grows /\ Named
    <2>1. (log' = log \o FenceOf(dtx) /\ dtx' = <<>>) \/ (log' = log /\ dtx' = dtx)
        BY <1>4 DEF CommitTx, SyncPending
    <2> QED
        BY <1>c, <1>d, <1>e, <2>1
<1>5. ASSUME Rollback PROVE Grows /\ Named
    <2> DEFINE img == Undone(undo)
    <2>1. inTx /\ log' = ((log \o AbortsOf(dtx)) \o RestoreLog(img)) \o FenceOf(RestoreTx(img))
          /\ Apply(img) /\ dtx' = <<>>
        BY <1>5 DEF Rollback
    <2>2. img \in Image /\ \A p \in DOMAIN img : p \in Page /\ img[p] = base[p]
        BY <2>1, WholeRestores
    <2> HIDE DEF img
    <2>3. \A p \in DOMAIN img : img[p] \in Used' /\ img[p] \notin dead'
        BY <1>a, <1>b, <2>1, <2>2 DEF Dated, Clean
    <2>4. RestoreTx(img) \in Seq(Nat)
        BY <1>a, <1>b, <2>2, Entries
    <2>5. Piece(RestoreLog(img)) /\ Piece(FenceOf(RestoreTx(img)))
        BY <1>a, <1>b, <2>1, <2>2, <2>3, <2>4, Pieces
    <2> QED
        BY <1>a, <1>b, <1>c, <1>e, <2>1, <2>5, GrowsBy
<1>6. ASSUME AbortFails PROVE Grows /\ Named
    <2>1. PICK k \in 0 .. Len(dtx) - 1 : log' = log \o AbortsOf(SubSeq(dtx, 1, k))
        BY <1>6 DEF AbortFails
    <2>2. \A i \in 1 .. k : dtx[i] \in Nat /\ i \in 1 .. Len(dtx)
        BY <1>a, ElementOfSeq
    <2> DEFINE ts == SubSeq(dtx, 1, k)
    <2>3. ts \in Seq(Nat) /\ Len(ts) = k /\ \A i \in 1 .. k : ts[i] = dtx[i]
        <3>1. /\ ts \in Seq(Nat) /\ Len(ts) = (IF 1 <= k THEN k - 1 + 1 ELSE 0)
              /\ \A i \in 1 .. k - 1 + 1 : ts[i] = dtx[1 + i - 1]
            BY <2>2, SubSeqProperties
        <3> HIDE DEF ts
        <3>2. k \in Nat /\ k - 1 + 1 = k /\ \A i \in 1 .. k : 1 + i - 1 = i
            BY <1>a
        <3> QED
            BY <3>1, <3>2
    <2> HIDE DEF ts
    <2>4. Piece(AbortsOf(ts))
        BY <1>a, <1>b, <2>2, <2>3, Pieces
    <2>5. dtx' = dtx
        BY <1>6 DEF AbortFails
    <2> QED
        BY <1>d, <1>e, <2>1, <2>4, <2>5 DEF ts
<1>7. ASSUME RestoreFails PROVE Grows /\ Named
    <2>1. log' = log \o AbortsOf(dtx) /\ dtx' = <<>>
        BY <1>7 DEF RestoreFails, MayFail
    <2> QED
        BY <1>c, <1>d, <1>e, <2>1
<1>8. ASSUME NEW i \in DOMAIN saves, RollbackTo(i) PROVE Grows /\ Named
    <2>1. RestoreTo(saves[i].mark) /\ dead' = dead
        BY <1>8 DEF RollbackTo, fates
    <2>2. i \in 1 .. Len(saves) /\ saves[i] \in Level /\ Under(undo, saves[i], Top)
        BY <1>a, Levels DEF Stacked
    <2>3. \A p \in Page : saves[i].base[p] \in Used /\ saves[i].base[p] \notin dead'
        BY <1>a, <2>1, <2>2 DEF Dated, Clean
    <2> QED
        BY <1>a, <1>b, <2>1, <2>2, <2>3, BackGrows
<1>9. ASSUME GuardOk PROVE Grows /\ Named
    <2>1. (log' = log /\ dtx' = dtx) \/ UnitSync(<<>>, dtx, db, "guard")
        BY <1>9 DEF GuardOk
    <2> QED
        BY <1>a, <1>b, <1>c, <1>d, <1>e, <2>1, UnitGrows
<1>10. ASSUME UnitEnd PROVE Grows /\ Named
    <2>1. UnitSync(<<>>, dtx, db, "unit")
        BY <1>10 DEF UnitEnd
    <2> QED
        BY <1>a, <1>b, <1>c, <1>e, <2>1, UnitGrows
<1>11. ASSUME GuardFails, guard = "tx" PROVE Grows /\ Named
    <2>1. RestoreTo(gsave.mark) /\ dead' = dead
        BY <1>11 DEF GuardFails, fates
    <2>2. gsave \in Level /\ Under(undo, gsave, Top)
        BY <1>a, <1>11 DEF Stacked, Shapes
    <2>3. \A p \in Page : gsave.base[p] \in Used /\ gsave.base[p] \notin dead'
        BY <1>a, <1>11, <2>1 DEF Dated, Clean
    <2> QED
        BY <1>a, <1>b, <2>1, <2>2, <2>3, BackGrows
<1>12. ASSUME GuardFails, guard = "auto" PROVE Grows /\ Named
    <2> DEFINE img == Undone(undo)
    <2>1. Apply(img) /\ UnitSync(AbortsOf(dtx) \o RestoreLog(img), RestoreTx(img), db', "guardFails")
        BY <1>12 DEF GuardFails
    <2>2. img \in Image /\ \A p \in DOMAIN img : p \in Page /\ img[p] = gsave.base[p]
        BY <1>12, WholeRestores
    <2> HIDE DEF img
    <2>3. \A p \in DOMAIN img : img[p] \in Used' /\ img[p] \notin dead'
        BY <1>a, <1>b, <1>12, <2>2 DEF Dated, Clean
    <2>4. RestoreTx(img) \in Seq(Nat)
        BY <1>a, <1>b, <2>2, Entries
    <2>5. Piece(RestoreLog(img))
        BY <1>a, <1>b, <2>1, <2>2, <2>3, Pieces
    <2>6. Piece(AbortsOf(dtx) \o RestoreLog(img))
        BY <1>a, <1>b, <1>c, <2>5, Pieces
    <2>7. Grows /\ (dtx' = RestoreTx(img) \/ dtx' = <<>>)
        BY <1>a, <1>b, <2>1, <2>4, <2>6, UnitGrows
    <2> QED
        BY <1>a, <2>1, <2>7, NamedIs
<1>13. ASSUME Truncate \/ CrashRecover PROVE log' = <<>> /\ dtx' = <<>>
    BY <1>13 DEF Truncate, CrashRecover
<1> QED
    BY <1>1, <1>2, <1>3, <1>4, <1>5, <1>6, <1>7, <1>8, <1>9, <1>10, <1>11, <1>12, <1>13 DEF Next, GuardFails

-----------------------------------------------------------------------------
(* Entries after a step                                                    *)

\* Numbers and images in the log stay those used so far.
LEMMA LogDated ==
    ASSUME Good, Fates, "txGuardFail" \notin Features, Next
    PROVE /\ \A i \in 1 .. Len(log') : log'[i].tx <= tick' /\ \A p \in DOMAIN log'[i].img : log'[i].img[p] \in Used'
          /\ \A j \in 1 .. Len(dtx') : dtx'[j] <= tick'
<1>a. Shapes /\ Dated /\ log \in Seq(Entry) /\ dtx \in Seq(Nat)
    BY DEF Good, Fates, Shapes
<1>b. tick \in Nat /\ tick' \in Nat /\ tick <= tick' /\ \A v \in Used : v \in Used'
    BY <1>a, Ages
<1>1. CASE log' = <<>> /\ dtx' = <<>>
    <2>1. Len(<<>>) = 0 /\ \A i \in 1 .. 0 : FALSE
        OBVIOUS
    <2> QED
        BY <1>1, <2>1
<1>2. CASE Grows /\ Named
    <2>1. PICK x \in Seq(Entry) : Piece(x) /\ log' = log \o x
        BY <1>2 DEF Grows
    <2>2. /\ Len(log) \in Nat /\ Len(x) \in Nat /\ Len(log') = Len(log) + Len(x)
          /\ \A j \in 1 .. Len(log) : log'[j] = log[j]
          /\ \A j \in Len(log) + 1 .. Len(log) + Len(x) : j - Len(log) \in 1 .. Len(x) /\ log'[j] = x[j - Len(log)]
        BY <1>a, <2>1, Longer
    <2>3. ASSUME NEW i \in 1 .. Len(log')
          PROVE log'[i].tx <= tick' /\ \A p \in DOMAIN log'[i].img : log'[i].img[p] \in Used'
        <3>1. CASE i <= Len(log)
            <4>1. i \in 1 .. Len(log)
                BY <2>2, <3>1
            <4>2. log[i] \in Entry
                BY <1>a, <4>1, ElementOfSeq
            <4>3. log[i].tx \in Nat /\ log[i].tx <= tick /\ \A p \in DOMAIN log[i].img : log[i].img[p] \in Used
                BY <1>a, <4>1, <4>2 DEF Dated, Entry
            <4> QED
                BY <1>b, <2>2, <4>1, <4>3
        <3>2. CASE ~(i <= Len(log))
            <4>1. i \in Len(log) + 1 .. Len(log) + Len(x)
                BY <2>2, <3>2
            <4>2. Sound(log'[i])
                BY <2>1, <2>2, <4>1 DEF Piece
            <4> QED
                BY <4>2 DEF Sound
        <3> QED
            BY <3>1, <3>2
    <2>4. ASSUME NEW j \in 1 .. Len(dtx') PROVE dtx'[j] <= tick'
        <3>1. CASE Outstanding(dtx'[j])
            <4>1. PICK k \in 1 .. Len(dtx) : dtx[k] = dtx'[j]
                BY <3>1 DEF Outstanding
            <4>2. dtx[k] \in Nat /\ dtx[k] <= tick
                BY <1>a, ElementOfSeq DEF Dated
            <4> QED
                BY <1>b, <4>1, <4>2
        <3>2. CASE dtx'[j] = tick + 1 /\ tick' = tick + 1
            BY <1>b, <3>2
        <3> QED
            BY <1>2, <3>1, <3>2 DEF Named
    <2> QED
        BY <2>3, <2>4
<1> QED
    BY <1>1, <1>2, LogStep

\* A covering entry with a lasting image goes on covering unless it is aborted.
LEMMA ShadowStays ==
    ASSUME Good, Fates, "txGuardFail" \notin Features, Next, NEW x \in Seq(Entry), log' = log \o x,
           NEW i \in 1 .. Len(log), NEW p, NEW m \in 1 .. Len(log), Shadows(i, p, m),
           \A k \in 1 .. Len(x) : x[k].kind = "abort" => x[k].tx # log[m].tx
    PROVE m \in 1 .. Len(log') /\ Shadows(i, p, m)' /\ log'[m] = log[m]
<1>a. Shapes /\ Dated /\ log \in Seq(Entry)
    BY DEF Good, Fates, Shapes
<1>1. /\ Len(log) \in Nat /\ Len(x) \in Nat /\ Len(log') = Len(log) + Len(x)
      /\ \A j \in 1 .. Len(log) : log'[j] = log[j]
    BY <1>a, Longer
<1>2. m \in 1 .. Len(log') /\ log'[m] = log[m]
    BY <1>1
<1>3. Covers(log, i, p, m) /\ Lasting(log[m].img[p])
    BY DEF Shadows
<1>4. Covers(log \o x, i, p, m)
    BY <1>a, <1>3, Stays
<1>5. log[m].img[p] \in Used
    BY <1>a, <1>3 DEF Covers, Dated
<1>6. \A v \in Used : Lasting(v) => Lasting(v)'
    BY <1>a, Ages
<1>7. Lasting(log[m].img[p])'
    BY <1>2, <1>3, <1>5, <1>6 DEF Lasting, Young
<1> QED
    BY <1>2, <1>4, <1>7 DEF Shadows

\* What is buried stays buried.
LEMMA BuriedStays ==
    ASSUME Good, Fates, "txGuardFail" \notin Features, Next, Grows, Named,
           NEW i \in 1 .. Len(log), NEW p, Buried(i, p)
    PROVE Buried(i, p)'
<1>a. Shapes /\ Dated /\ log \in Seq(Entry) /\ tick \in Nat
    BY DEF Good, Fates, Shapes
<1>1. PICK x \in Seq(Entry) : Piece(x) /\ log' = log \o x
    BY DEF Grows
<1>2. log'[i] = log[i] /\ log[i].kind = "deferred"
    BY <1>a, <1>1, Longer DEF Buried
<1>3. CASE Voided(log, i)
    <2>1. Voided(log \o x, i)
        BY <1>a, <1>3, Stays
    <2> QED
        BY <1>1, <1>2, <2>1 DEF Buried
<1>4. CASE \E m \in 1 .. Len(log) : Shadows(i, p, m) /\ ~Outstanding(log[m].tx)
    <2>1. PICK m \in 1 .. Len(log) : Shadows(i, p, m) /\ ~Outstanding(log[m].tx)
        BY <1>4
    <2>2. \A k \in 1 .. Len(x) : x[k].kind = "abort" => x[k].tx # log[m].tx
        BY <1>1, <2>1 DEF Piece, Sound
    <2>3. m \in 1 .. Len(log') /\ Shadows(i, p, m)' /\ log'[m] = log[m]
        BY <1>1, <2>1, <2>2, ShadowStays
    <2>4. log[m].tx \in Nat /\ log[m].tx <= tick
        <3>1. log[m] \in Entry
            BY <1>a, ElementOfSeq
        <3> QED
            BY <1>a, <3>1 DEF Dated, Entry
    <2>5. ASSUME NEW j \in 1 .. Len(dtx') PROVE dtx'[j] # log[m].tx
        BY <1>a, <2>1, <2>4 DEF Named
    <2>6. ~(\E j \in 1 .. Len(dtx') : dtx'[j] = log'[m].tx)
        BY <2>3, <2>5
    <2> QED
        BY <1>2, <2>3, <2>6 DEF Buried, Outstanding
<1> QED
    BY <1>3, <1>4 DEF Buried

\* Rolling back buries what was pending: it is aborted, or its failed COMMIT
\* left nothing that the log has not restored.
LEMMA RollbackBuries ==
    ASSUME Good, Fates, "txGuardFail" \notin Features, Next, Rollback \/ (GuardFails /\ guard = "auto"),
           NEW i \in 1 .. Len(log), NEW p, Pending(i, p)
    PROVE Buried(i, p)'
<1>a. Shapes /\ Dated /\ log \in Seq(Entry) /\ dtx \in Seq(Nat) /\ Nesting /\ undo \in Seq(Image) /\ tick \in Nat
    BY DEF Good, Fates, Shapes
<1> DEFINE img == Undone(undo)
<1>b. img \in Image /\ DOMAIN img = Recorded(undo)
    BY WholeRestores
<1>c. /\ Idle /\ (~poisoned \/ (dtx = <<>> /\ DOMAIN img = {}))
      /\ \/ log' = ((log \o AbortsOf(dtx)) \o RestoreLog(img)) \o FenceOf(RestoreTx(img)) /\ dtx' = <<>>
         \/ ~inTx /\ log' = log \o (AbortsOf(dtx) \o RestoreLog(img))
         \/ ~inTx /\ log' = (log \o (AbortsOf(dtx) \o RestoreLog(img))) \o FenceOf(RestoreTx(img))
    BY <1>a DEF Rollback, GuardFails, UnitSync, Nesting
<1> HIDE DEF img
<1>d. AbortsOf(dtx) \in Seq(Entry) /\ RestoreLog(img) \in Seq(Entry) /\ RestoreTx(img) \in Seq(Nat)
    BY <1>a, <1>b, Entries
<1>e. FenceOf(RestoreTx(img)) \in Seq(Entry) /\ log \o AbortsOf(dtx) \in Seq(Entry)
    BY <1>a, <1>b, <1>d, Entries, LogGrows, ConcatProperties
<1>f. PICK y \in Seq(Entry) : log' = (log \o AbortsOf(dtx)) \o y
    <2>1. log \o (AbortsOf(dtx) \o RestoreLog(img)) = (log \o AbortsOf(dtx)) \o RestoreLog(img)
        BY <1>a, <1>d, Joined
    <2>2. RestoreLog(img) \o FenceOf(RestoreTx(img)) \in Seq(Entry)
        BY <1>d, <1>e, ConcatProperties
    <2>3. ((log \o AbortsOf(dtx)) \o RestoreLog(img)) \o FenceOf(RestoreTx(img))
            = (log \o AbortsOf(dtx)) \o (RestoreLog(img) \o FenceOf(RestoreTx(img)))
        BY <1>d, <1>e, Joined
    <2> QED
        BY <1>c, <1>d, <2>1, <2>2, <2>3
<1>g. AbortsOf(dtx) \o y \in Seq(Entry) /\ log' = log \o (AbortsOf(dtx) \o y) /\ i \in 1 .. Len(log \o AbortsOf(dtx))
    <2>1. (log \o AbortsOf(dtx)) \o y = log \o (AbortsOf(dtx) \o y)
        BY <1>a, <1>d, <1>f, Joined
    <2>2. AbortsOf(dtx) \o y \in Seq(Entry)
        BY <1>d, <1>f, ConcatProperties
    <2>3. Len(log \o AbortsOf(dtx)) = Len(log) + Len(AbortsOf(dtx)) /\ Len(log) \in Nat /\ Len(AbortsOf(dtx)) \in Nat
        BY <1>a, <1>d, Longer
    <2> QED
        BY <1>f, <2>1, <2>2, <2>3
<1>1. log'[i] = log[i] /\ log[i].kind = "deferred"
    BY <1>a, <1>g, Longer DEF Pending
<1>2. CASE Voided(log, i)
    <2>1. Voided(log', i)
        BY <1>a, <1>2, <1>g, Stays
    <2> QED
        BY <1>1, <2>1 DEF Buried
<1>3. CASE Outstanding(log[i].tx) /\ NoFence(log, i, Len(log))
    <2>1. PICK j \in 1 .. Len(dtx) : dtx[j] = log[i].tx
        BY <1>3 DEF Outstanding
    <2>2. Voided(log \o AbortsOf(dtx), i)
        BY <1>a, <1>3, <2>1, AbortVoids
    <2>3. Voided(log', i)
        BY <1>e, <1>f, <1>g, <2>2, Stays
    <2> QED
        BY <1>1, <2>3 DEF Buried
<1>4. CASE inTx /\ (poisoned \/ ~Idle) /\ dtx = <<>> /\ (p \in Recorded(undo) \/ Shadowed(i, p))
    <2>1. DOMAIN img = {} /\ dtx = <<>>
        BY <1>c, <1>4
    <2>2. PICK m \in 1 .. Len(log) : Shadows(i, p, m)
        BY <1>4, <1>b, <2>1 DEF Shadowed
    <2>3. AbortsOf(dtx) = <<>> /\ RestoreLog(img) = <<>> /\ FenceOf(RestoreTx(img)) = <<>>
        <3>1. AbortsOf(<<>>) = <<>>
            BY DEF AbortsOf
        <3> QED
            BY <2>1, <3>1 DEF RestoreLog, RestoreTx, FenceOf
    <2>4. dtx' = <<>> /\ log' = ((log \o <<>>) \o <<>>) \o <<>>
        BY <1>4, <1>c, <2>3
    <2>5. log \o <<>> = log
        BY <1>a, ConcatEmptySeq
    <2>6. log' = log \o <<>> /\ <<>> \in Seq(Entry) /\ Len(<<>>) = 0 /\ \A k \in 1 .. 0 : FALSE
        BY <2>4, <2>5
    <2>7. m \in 1 .. Len(log') /\ Shadows(i, p, m)'
        BY <2>2, <2>6, ShadowStays
    <2>8. ~(\E j \in 1 .. Len(dtx') : dtx'[j] = log'[m].tx)
        BY <2>4, <2>6
    <2> QED
        BY <1>1, <2>7, <2>8 DEF Buried, Outstanding
<1> QED
    BY <1>2, <1>3, <1>4 DEF Pending

\* Everything rolled back is buried after a step.
LEMMA DeadBuriedKept ==
    ASSUME Good, Fates, "txGuardFail" \notin Features, Next
    PROVE DeadBuried'
<1>a. Shapes /\ Dated /\ DeadBuried /\ YoungPending /\ log \in Seq(Entry)
    BY DEF Good, Fates, Shapes
<1>1. CASE log' = <<>>
    <2>1. Len(<<>>) = 0 /\ \A i \in 1 .. 0 : FALSE
        OBVIOUS
    <2> QED
        BY <1>1, <2>1 DEF DeadBuried
<1>2. CASE Grows /\ Named
    <2>1. PICK x \in Seq(Entry) : Piece(x) /\ log' = log \o x
        BY <1>2 DEF Grows
    <2>2. /\ Len(log) \in Nat /\ Len(x) \in Nat /\ Len(log') = Len(log) + Len(x)
          /\ \A j \in 1 .. Len(log) : log'[j] = log[j]
          /\ \A j \in Len(log) + 1 .. Len(log) + Len(x) : j - Len(log) \in 1 .. Len(x) /\ log'[j] = x[j - Len(log)]
        BY <1>a, <2>1, Longer
    <2>3. ASSUME NEW i \in 1 .. Len(log'), NEW p \in DOMAIN log'[i].img, log'[i].img[p] \in dead'
          PROVE Buried(i, p)'
        <3>1. CASE ~(i <= Len(log))
            <4>1. i \in Len(log) + 1 .. Len(log) + Len(x)
                BY <2>2, <3>1
            <4>2. Sound(log'[i])
                BY <2>1, <2>2, <4>1 DEF Piece
            <4> QED
                BY <2>3, <4>2 DEF Sound
        <3>2. CASE i <= Len(log)
            <4>1. i \in 1 .. Len(log) /\ log'[i] = log[i]
                BY <2>2, <3>2
            <4>2. CASE log[i].img[p] \in dead
                <5>1. Buried(i, p)
                    BY <1>a, <4>1, <4>2 DEF DeadBuried
                <5> QED
                    BY <1>2, <4>1, <5>1, BuriedStays
            <4>3. CASE log[i].img[p] \notin dead
                <5>1. log[i].img[p] \in Used
                    BY <1>a, <4>1 DEF Dated
                <5>2. \A v \in Used : v \in dead' /\ v \notin dead => Young(v)
                    BY <1>a, Ages
                <5>3. Young(log[i].img[p])
                    BY <2>3, <4>1, <4>3, <5>1, <5>2
                <5>4. Pending(i, p)
                    BY <1>a, <4>1, <5>3 DEF YoungPending
                <5>5. dead' # dead
                    BY <2>3, <4>1, <4>3
                <5>6. Rollback \/ (GuardFails /\ guard = "auto")
                    BY <5>5 DEF Next, StmtDeferred, StmtSync, Begin, CommitTx, AbortFails, RestoreFails, Savepoint,
                        ReleaseSavepoint, RollbackTo, GuardBegin, GuardOk, GuardFails, UnitBegin, UnitEnd, SyncPending,
                        FsyncOk, FsyncFails, FlushPage, FlushDone, Truncate, CrashRecover, fates
                <5> QED
                    BY <4>1, <5>4, <5>6, RollbackBuries
            <4> QED
                BY <4>2, <4>3
        <3> QED
            BY <3>1, <3>2
    <2> QED
        BY <2>3 DEF DeadBuried
<1> QED
    BY <1>1, <1>2, LogStep

-----------------------------------------------------------------------------
(* Recovery                                                                *)

\* Whatever prefix of the log and mix of pages a power failure leaves, nothing
\* that was rolled back is recovered: a voided entry is not replayed, a covered
\* one is not the last.
LEMMA Recovers ==
    ASSUME Good, Fates, NEW s \in Outcomes, NEW p \in Page
    PROVE s[p] \in Used /\ s[p] \notin dead
<1>a. Shapes /\ Dated /\ Clean /\ DeadBuried /\ log \in Seq(Entry) /\ Len(log) \in Nat /\ synced \in 0 .. Len(log)
    BY LenProperties DEF Good, Fates, Shapes
<1>1. PICK k \in synced .. Len(log), d \in DiskStates : s = RecoverFrom(SubSeq(log, 1, k), d)
    BY DEF Outcomes
<1> DEFINE l == SubSeq(log, 1, k)
<1>2. k \in Nat /\ k <= Len(log)
    BY <1>a, <1>1
<1>3. l \in Seq(Entry) /\ Len(l) = k /\ \A i \in 1 .. k : i \in 1 .. Len(log) /\ l[i] = log[i]
    BY <1>a, <1>2
<1>4. d[p] \in surv[p]
    BY DEF DiskStates
<1> HIDE DEF l
<1> DEFINE hits == {i \in 1 .. Len(l) : p \in DOMAIN l[i].img /\ Replayed(l, i)}
<1>5. CASE hits = {}
    <2>1. s[p] = d[p]
        BY <1>1, <1>5 DEF RecoverFrom, l
    <2> QED
        BY <1>a, <1>4, <2>1 DEF Dated, Clean
<1>6. CASE hits # {}
    <2>1. hits \in SUBSET (0 .. k)
        BY <1>2, <1>3
    <2>2. \E i \in hits : \A j \in hits : j <= i
        BY <1>2, <1>6, <2>1, GreatestOf
    <2> DEFINE c == CHOOSE i \in hits : \A j \in hits : j <= i
    <2>3. c \in hits /\ \A j \in hits : j <= c
        BY <2>2
    <2>4. s[p] = l[c].img[p]
        BY <1>1, <1>6 DEF RecoverFrom, l
    <2> HIDE DEF c
    <2>5. c \in 1 .. k /\ c \in 1 .. Len(log) /\ l[c] = log[c] /\ p \in DOMAIN log[c].img /\ Replayed(l, c)
        BY <1>3, <2>3
    <2>6. s[p] \in Used
        BY <1>a, <2>4, <2>5 DEF Dated
    <2>7. ASSUME s[p] \in dead PROVE FALSE
        <3>1. Buried(c, p)
            BY <1>a, <2>4, <2>5, <2>7 DEF DeadBuried
        <3>2. PICK f \in c + 1 .. k : l[f].kind = "fence"
            BY <1>3, <2>5, <3>1 DEF Buried, Replayed
        <3>3. \A j \in c + 1 .. k : ~AbortAt(l, c, j)
            BY <1>3, <2>5, <3>1 DEF Buried, Replayed, AbortAt
        <3>4. ASSUME NEW m \in c + 1 .. Len(log), NoFence(log, c, m) PROVE m \in c + 1 .. f - 1 /\ m \in 1 .. k
            <4>1. f \in 1 .. k /\ log[f].kind = "fence"
                BY <1>2, <1>3, <2>5, <3>2
            <4>2. ~(f <= m)
                BY <2>5, <3>4, <4>1 DEF NoFence
            <4> QED
                BY <1>2, <2>5, <4>1, <4>2
        <3>5. CASE Voided(log, c)
            <4>1. PICK m \in c + 1 .. Len(log) : AbortAt(log, c, m) /\ NoFence(log, c, m)
                BY <3>5 DEF Voided
            <4>2. m \in c + 1 .. k /\ m \in 1 .. k
                BY <1>2, <2>5, <3>2, <3>4, <4>1
            <4> QED
                BY <1>3, <2>5, <3>3, <4>1, <4>2 DEF AbortAt
        <3>6. CASE \E m \in 1 .. Len(log) : Shadows(c, p, m)
            <4>1. PICK m \in 1 .. Len(log) : Covers(log, c, p, m)
                BY <3>6 DEF Shadows
            <4>2. /\ m \in c + 1 .. Len(log) /\ log[m].kind = "deferred" /\ p \in DOMAIN log[m].img /\ NoFence(log, c, m)
                  /\ \A j \in m + 1 .. Len(log) : ~AbortAt(log, m, j)
                BY <4>1 DEF Covers
            <4>3. m \in c + 1 .. f - 1 /\ m \in 1 .. k
                BY <3>4, <4>2
            <4>4. f \in m + 1 .. k
                BY <1>2, <2>5, <3>2, <4>3
            <4>5. \A j \in m + 1 .. k : j \in m + 1 .. Len(log) /\ j \in 1 .. k
                BY <1>2, <4>3
            <4>6. \A j \in m + 1 .. k : ~AbortAt(l, m, j)
                BY <1>3, <4>2, <4>3, <4>5 DEF AbortAt
            <4>7. Replayed(l, m)
                BY <1>3, <3>2, <4>2, <4>3, <4>4, <4>6 DEF Replayed, AbortAt
            <4>8. m \in hits
                BY <1>3, <4>2, <4>3, <4>7
            <4> QED
                BY <2>3, <2>5, <4>2, <4>8
        <3> QED
            BY <3>1, <3>5, <3>6 DEF Buried
    <2> QED
        BY <2>6, <2>7
<1> QED
    BY <1>5, <1>6

-----------------------------------------------------------------------------
(* Pages and levels after a step                                           *)

\* A transaction opens outside write units, and only its COMMIT syncs the log
\* while it stays open.
LEMMA CallsKept ==
    ASSUME Good, Calls, "txGuardFail" \notin Features, Next
    PROVE Calls'
<1>a. Shapes /\ Nesting
    BY DEF Good
<1>1. ASSUME NEW ps \in SUBSET Page, StmtDeferred(ps) \/ StmtSync(ps) PROVE Calls'
    BY <1>1 DEF StmtDeferred, StmtSync, Defers, Calls, Idle, txv, callv, unitv
<1>2. ASSUME Begin \/ CommitTx PROVE Calls'
    BY <1>2 DEF Begin, CommitTx, EndTx, Sync, Calls, Idle, unitv, callv, txv
<1>3. ASSUME Rollback PROVE Calls'
    BY <1>3 DEF Rollback, EndTx, Calls
<1>4. ASSUME AbortFails \/ RestoreFails PROVE Calls'
    <2>1. unit' = unit \/ guard = "auto"
        BY <1>4 DEF AbortFails, RestoreFails, MayFail
    <2>2. UNCHANGED <<inTx, pc, then>>
        BY <1>4 DEF AbortFails, RestoreFails, txv, callv
    <2> QED
        BY <1>a, <2>1, <2>2 DEF Nesting, Calls, Idle
<1>5. ASSUME Savepoint \/ \E i \in DOMAIN saves : ReleaseSavepoint(i) \/ RollbackTo(i) PROVE Calls'
    BY <1>5 DEF Savepoint, ReleaseSavepoint, RollbackTo, Calls, Idle, unitv, callv
<1>6. ASSUME GuardBegin PROVE Calls'
    BY <1>6 DEF GuardBegin, Calls, Idle, txv, callv
<1>7. ASSUME GuardOk \/ GuardFails PROVE Calls'
    <2>1. inTx' = inTx
        BY <1>7 DEF GuardOk, GuardFails, txv
    <2>2. (guard = "tx" /\ UNCHANGED <<unit, pc, then>>) \/ guard = "auto"
        BY <1>7 DEF GuardOk, GuardFails
    <2> QED
        BY <1>a, <2>1, <2>2 DEF Nesting, Calls, Idle
<1>8. ASSUME UnitBegin \/ UnitEnd \/ SyncPending PROVE Calls'
    <2>1. inTx' = inTx /\ (inTx => ~(unit > 0))
        BY <1>8, <1>a DEF UnitBegin, UnitEnd, SyncPending, txv, Calls, Shapes
    <2>2. ~inTx
        BY <1>8, <2>1 DEF UnitBegin, UnitEnd, SyncPending
    <2> QED
        BY <2>1, <2>2 DEF Calls
<1>9. ASSUME FsyncOk \/ FsyncFails \/ FlushDone \/ \E p \in Page : FlushPage(p) PROVE Calls'
    BY <1>9 DEF FsyncOk, FsyncFails, FlushDone, FlushPage, EndTx, Calls, Idle, txv, unitv, callv
<1>10. ASSUME Truncate \/ CrashRecover PROVE Calls'
    BY <1>10 DEF Truncate, CrashRecover, Calls, Idle, txv, unitv, callv
<1> QED
    BY <1>1, <1>2, <1>3, <1>4, <1>5, <1>6, <1>7, <1>8, <1>9, <1>10 DEF Next

\* What a step does to the pages: they stay, or images are written over them
\* that are new, staged, a level's or recovered.
LEMMA PagesMove ==
    ASSUME Good, Fates, "txGuardFail" \notin Features, Next
    PROVE /\ \A p \in Page : db'[p] \in Used' /\ db'[p] \notin dead'
          /\ CrashRecover \/ \A p \in Page : p \notin queue' => db'[p] = db[p]
<1>a. Shapes /\ Nesting /\ Stacked /\ Dated /\ Clean /\ db \in [Page -> Value]
    BY DEF Good, Fates, Shapes, Pages
<1>b. /\ tick \in Nat /\ tick' \in Nat /\ tick <= tick' /\ dead' \subseteq 1 .. tick /\ Used \subseteq Used'
      /\ \A v \in Used : Lasting(v) => v \notin dead'
    BY <1>a, Ages DEF Lasting
<1>c. \A img : \A p \in Page : Override(db, img)[p] = IF p \in DOMAIN img THEN img[p] ELSE db[p]
    BY DEF Override
<1> DEFINE Moved == /\ \A p \in Page : db'[p] \in Used' /\ db'[p] \notin dead'
                    /\ \A p \in Page : p \notin queue' => db'[p] = db[p]
<1>1. ASSUME UNCHANGED <<db, dead>> PROVE Moved
    BY <1>a, <1>b, <1>1 DEF Dated, Clean
<1>2. ASSUME NEW ps \in SUBSET Page, StmtDeferred(ps) PROVE Moved
    <2> DEFINE img == [p \in ps |-> tick + 1]
    <2>1. Apply(img) /\ ps # {} /\ dead' = dead
        BY <1>2 DEF StmtDeferred, fates
    <2>2. DOMAIN img = ps /\ \A p \in ps : img[p] = tick + 1
        OBVIOUS
    <2> HIDE DEF img
    <2>3. db' = Override(db, img) /\ queue' = queue \cup ps /\ tick' = tick + 1
        BY <2>1, <2>2 DEF Apply
    <2>4. tick + 1 \in Used' /\ tick + 1 \notin dead'
        BY <1>b, <2>3 DEF Used
    <2> QED
        BY <1>a, <1>b, <1>c, <2>1, <2>2, <2>3, <2>4 DEF Dated, Clean
<1>3. ASSUME NEW img, NEW f, Apply(img), Override(db, img) = f, \A p \in Page : f[p] \in Used /\ f[p] \notin dead'
      PROVE Moved
    <2>1. db' = f /\ db' = Override(db, img) /\ queue' = queue \cup DOMAIN img
        BY <1>3 DEF Apply
    <2> QED
        BY <1>b, <1>c, <1>3, <2>1
<1>4. ASSUME Rollback PROVE Moved
    <2>1. inTx /\ Apply(Undone(undo))
        BY <1>4 DEF Rollback
    <2>2. Override(db, Undone(undo)) = base
        BY <2>1, WholeRestores
    <2>3. \A p \in Page : base[p] \in Used /\ base[p] \notin dead'
        BY <1>a, <1>b, <2>1 DEF Dated, Clean
    <2> QED
        BY <1>3, <2>1, <2>2, <2>3
<1>5. ASSUME NEW i \in DOMAIN saves, RollbackTo(i) PROVE Moved
    <2>1. Apply(Undone(UndoTail(saves[i].mark))) /\ dead' = dead
        BY <1>5 DEF RollbackTo, RestoreTo, fates
    <2>2. i \in 1 .. Len(saves) /\ saves[i] \in Level /\ Under(undo, saves[i], Top)
        BY <1>a, Levels DEF Stacked
    <2>3. Override(db, Undone(UndoTail(saves[i].mark))) = saves[i].base
        BY <2>2, LevelRestores
    <2>4. \A p \in Page : saves[i].base[p] \in Used /\ saves[i].base[p] \notin dead'
        BY <1>a, <2>1, <2>2 DEF Dated, Clean
    <2> QED
        BY <1>3, <2>1, <2>3, <2>4
<1>6. ASSUME GuardFails, guard = "tx" PROVE Moved
    <2>1. Apply(Undone(UndoTail(gsave.mark))) /\ dead' = dead
        BY <1>6 DEF GuardFails, RestoreTo, fates
    <2>2. gsave \in Level /\ Under(undo, gsave, Top)
        BY <1>a, <1>6 DEF Stacked, Shapes
    <2>3. Override(db, Undone(UndoTail(gsave.mark))) = gsave.base
        BY <2>2, LevelRestores
    <2>4. \A p \in Page : gsave.base[p] \in Used /\ gsave.base[p] \notin dead'
        BY <1>a, <1>6, <2>1, <2>2 DEF Dated, Clean
    <2> QED
        BY <1>3, <2>1, <2>3, <2>4
<1>7. ASSUME GuardFails, guard = "auto" PROVE Moved
    <2>1. Apply(Undone(undo))
        BY <1>7 DEF GuardFails
    <2>2. Override(db, Undone(undo)) = gsave.base
        BY <1>7, WholeRestores
    <2>3. \A p \in Page : gsave.base[p] \in Used /\ gsave.base[p] \notin dead'
        BY <1>a, <1>b, <1>7 DEF Dated, Clean
    <2> QED
        BY <1>3, <2>1, <2>2, <2>3
<1>8. ASSUME FsyncOk PROVE Moved
    <2>1. db' = Override(db, staged) /\ queue' = queue \cup DOMAIN staged /\ dead' = dead
        BY <1>8 DEF FsyncOk, fates
    <2> QED
        BY <1>a, <1>b, <1>c, <2>1 DEF Dated, Clean
<1>9. ASSUME CrashRecover PROVE \A p \in Page : db'[p] \in Used' /\ db'[p] \notin dead'
    <2>1. PICK s \in Outcomes : db' = s
        BY <1>9 DEF CrashRecover
    <2>2. dead' = dead
        BY <1>9 DEF CrashRecover, fates
    <2> QED
        BY <1>b, <2>1, <2>2, Recovers
<1>10. ASSUME \/ \E ps \in SUBSET Page : StmtSync(ps)
              \/ Begin \/ CommitTx \/ AbortFails \/ RestoreFails \/ Savepoint
              \/ \E i \in DOMAIN saves : ReleaseSavepoint(i)
              \/ GuardBegin \/ GuardOk \/ UnitBegin \/ UnitEnd \/ SyncPending \/ FsyncFails \/ Truncate
              \/ FlushDone \/ \E p \in Page : FlushPage(p)
       PROVE Moved
    <2>1. UNCHANGED <<db, dead>>
        BY <1>10 DEF StmtSync, Begin, CommitTx, AbortFails, RestoreFails, Savepoint, ReleaseSavepoint, GuardBegin,
            GuardOk, UnitBegin, UnitEnd, SyncPending, FsyncFails, Truncate, FlushDone, FlushPage, pagev, fates
    <2> QED
        BY <1>1, <2>1
<1> QED
    BY <1>2, <1>4, <1>5, <1>6, <1>7, <1>8, <1>9, <1>10 DEF Next, GuardFails

\* What a step does to the data file.
LEMMA FileMoves ==
    ASSUME Good, Fates, "txGuardFail" \notin Features, Next
    PROVE /\ \A p \in Page : surv'[p] \subseteq Used' /\ surv'[p] \cap dead' = {}
          /\ \/ surv' = surv \/ pc = "flush" \/ CrashRecover
             \/ Truncate /\ surv' = [p \in Page |-> {db[p]}]
<1>a. Shapes /\ Nesting /\ Dated /\ Clean /\ surv \in [Page -> SUBSET Value] /\ Torn \notin Nat
    BY TxStoreAssumption DEF Good, Fates, Shapes
<1>b. /\ tick \in Nat /\ tick' \in Nat /\ tick <= tick' /\ dead' \subseteq 1 .. tick /\ Used \subseteq Used'
      /\ \A v \in Used : v \in dead' /\ v \notin dead => Young(v)
    BY <1>a, Ages
<1>1. ASSUME UNCHANGED <<surv, dead>> PROVE \A p \in Page : surv'[p] \subseteq Used' /\ surv'[p] \cap dead' = {}
    BY <1>a, <1>b, <1>1 DEF Dated, Clean
<1>2. ASSUME Rollback \/ GuardFails
      PROVE surv' = surv /\ \A p \in Page : surv'[p] \subseteq Used' /\ surv'[p] \cap dead' = {}
    <2>1. surv' = surv /\ pc = "idle"
        BY <1>2 DEF Rollback, GuardFails, Idle
    <2>2. CASE Open
        <3>1. \A p \in Page : \A v \in surv[p] : v \in Used /\ v \notin dead /\ ~Young(v)
            <4>1. \A p \in Page : \A v \in surv[p] : v \in Used /\ v \notin dead
                BY <1>a DEF Clean, Dated
            <4>2. pc # "flush"
                BY <2>1
            <4>3. \A p \in Page : \A v \in surv[p] : ~Young(v)
                BY <1>a, <2>2, <4>2 DEF Clean
            <4> QED
                BY <4>1, <4>3
        <3> QED
            BY <1>b, <2>1, <3>1
    <2>3. CASE ~Open
        <3>1. \A p \in Page : \A v \in surv[p] : v \in Used /\ v \notin dead /\ ~Young(v)
            BY <1>a, <2>3 DEF Clean, Dated, Young
        <3> QED
            BY <1>b, <2>1, <3>1
    <2> QED
        BY <2>2, <2>3
<1>3. ASSUME NEW q \in Page, FlushPage(q)
      PROVE pc = "flush" /\ \A p \in Page : surv'[p] \subseteq Used' /\ surv'[p] \cap dead' = {}
    <2>1. pc = "flush" /\ surv' = [surv EXCEPT ![q] = Written(@, db[q])] /\ dead' = dead
        BY <1>3 DEF FlushPage, fates
    <2>2. \A p \in Page : \A v \in surv'[p] : v \in surv[p] \/ v = db[p] \/ v = Torn
        BY <1>a, <2>1 DEF Written
    <2>3. Torn \in Used' /\ Torn \notin dead'
        <3>1. Torn \in Used /\ \A v \in 1 .. tick : v \in Nat
            BY <1>b DEF Used
        <3> QED
            BY <1>a, <1>b, <3>1
    <2> QED
        BY <1>a, <1>b, <2>1, <2>2, <2>3 DEF Dated, Clean
<1>4. ASSUME Truncate
      PROVE surv' = [p \in Page |-> {db[p]}] /\ \A p \in Page : surv'[p] \subseteq Used' /\ surv'[p] \cap dead' = {}
    <2>1. surv' = [p \in Page |-> {db[p]}] /\ dead' = dead
        BY <1>4 DEF Truncate, fates
    <2> QED
        BY <1>a, <1>b, <2>1 DEF Dated, Clean
<1>5. ASSUME CrashRecover PROVE \A p \in Page : surv'[p] \subseteq Used' /\ surv'[p] \cap dead' = {}
    <2>1. PICK s \in Outcomes : surv' = [p \in Page |-> {s[p]}]
        BY <1>5 DEF CrashRecover
    <2>2. dead' = dead
        BY <1>5 DEF CrashRecover, fates
    <2> QED
        BY <1>b, <2>1, <2>2, Recovers
<1>6. ASSUME \/ \E ps \in SUBSET Page : StmtDeferred(ps) \/ StmtSync(ps)
             \/ Begin \/ CommitTx \/ AbortFails \/ RestoreFails \/ Savepoint
             \/ \E i \in DOMAIN saves : ReleaseSavepoint(i) \/ RollbackTo(i)
             \/ GuardBegin \/ GuardOk \/ UnitBegin \/ UnitEnd \/ SyncPending \/ FsyncOk \/ FsyncFails \/ FlushDone
      PROVE UNCHANGED <<surv, dead>>
    BY <1>6 DEF StmtDeferred, StmtSync, Begin, CommitTx, AbortFails, RestoreFails, Savepoint, ReleaseSavepoint,
        RollbackTo, GuardBegin, GuardOk, UnitBegin, UnitEnd, SyncPending, FsyncOk, FsyncFails, FlushDone, pagev, fates
<1> QED
    BY <1>1, <1>2, <1>3, <1>4, <1>5, <1>6 DEF Next

\* What waits to be applied after a step.
LEMMA StagedMoves ==
    ASSUME Good, Fates, "txGuardFail" \notin Features, Next
    PROVE \A p \in DOMAIN staged' : staged'[p] \in Used' /\ staged'[p] \notin dead'
<1>a. Shapes /\ Nesting /\ Dated /\ Clean
    BY DEF Good, Fates
<1>b. /\ tick \in Nat /\ tick' \in Nat /\ tick <= tick' /\ dead' \subseteq 1 .. tick /\ Used \subseteq Used'
    BY <1>a, Ages
<1>1. CASE DOMAIN staged' = {}
    BY <1>1
<1>2. CASE UNCHANGED <<staged, dead>>
    BY <1>a, <1>b, <1>2 DEF Dated, Clean
<1>3. ASSUME NEW ps \in SUBSET Page, StmtSync(ps)
      PROVE \A p \in DOMAIN staged' : staged'[p] \in Used' /\ staged'[p] \notin dead'
    <2>1. staged' = [p \in ps |-> tick + 1] /\ tick' = tick + 1
        BY <1>3 DEF StmtSync
    <2> QED
        BY <1>b, <2>1 DEF Used
<1>4. ASSUME Rollback \/ GuardFails PROVE DOMAIN staged' = {}
    <2>1. staged' = staged /\ (inTx \/ guard # "none")
        BY <1>4 DEF Rollback, GuardFails
    <2> QED
        BY <1>a, <2>1 DEF Nesting
<1>5. ASSUME FsyncOk \/ FsyncFails \/ CrashRecover PROVE DOMAIN staged' = {}
    BY <1>5, SomeImages DEF FsyncOk, FsyncFails, CrashRecover
<1>6. ASSUME \/ \E ps \in SUBSET Page : StmtDeferred(ps)
             \/ Begin \/ CommitTx \/ AbortFails \/ RestoreFails \/ Savepoint
             \/ \E i \in DOMAIN saves : ReleaseSavepoint(i) \/ RollbackTo(i)
             \/ GuardBegin \/ GuardOk \/ UnitBegin \/ UnitEnd \/ SyncPending \/ FlushDone \/ Truncate
             \/ \E p \in Page : FlushPage(p)
      PROVE UNCHANGED <<staged, dead>>
    BY <1>6 DEF StmtDeferred, Begin, CommitTx, AbortFails, RestoreFails, Savepoint, ReleaseSavepoint,
        RollbackTo, GuardBegin, GuardOk, UnitBegin, UnitEnd, SyncPending, FlushDone, Truncate, FlushPage, callv, fates
<1> QED
    BY <1>1, <1>2, <1>3, <1>4, <1>5, <1>6 DEF Next

\* The images BEGIN remembers, after a step.
LEMMA BaseMoves ==
    ASSUME Good, Fates, "txGuardFail" \notin Features, Next
    PROVE (\A p \in Page : base'[p] \in Used') /\ (inTx' => \A p \in Page : Lasting(base[p])')
<1>a. Shapes /\ Dated /\ Clean /\ base \in Pages /\ db \in Pages
    BY DEF Good, Fates, Shapes
<1>b. /\ tick \in Nat /\ tick' \in Nat /\ tick <= tick' /\ Used \subseteq Used'
      /\ \A v \in Used : Lasting(v) => Lasting(v)'
    BY <1>a, Ages
<1>1. ASSUME base' = base, inTx' => inTx
      PROVE (\A p \in Page : base'[p] \in Used') /\ (inTx' => \A p \in Page : Lasting(base[p])')
    <2>1. \A p \in Page : base[p] \in Used
        BY <1>a DEF Dated
    <2>2. inTx => \A p \in Page : Lasting(base[p])
        BY <1>a DEF Clean
    <2>3. inTx => \A p \in Page : Lasting(base[p])'
        BY <1>b, <1>1, <2>1, <2>2 DEF Lasting, Young
    <2> QED
        BY <1>b, <1>1, <2>1, <2>3
<1>2. ASSUME base' = Zero, inTx' = FALSE PROVE \A p \in Page : base'[p] \in Used'
    BY <1>2, <1>b DEF Zero, Used
<1>3. ASSUME Begin
      PROVE (\A p \in Page : base'[p] \in Used') /\ (inTx' => \A p \in Page : Lasting(base[p])')
    <2>1. base' = db /\ since' = tick /\ dead' = dead /\ tick' = tick
        BY <1>3 DEF Begin
    <2>2. \A p \in Page : db[p] \in Used /\ db[p] \notin dead
        BY <1>a DEF Dated, Clean
    <2>3. \A v \in Used : ~(v \in Nat /\ tick < v)
        BY <1>b, TxStoreAssumption DEF Used
    <2>4. \A p \in Page : base'[p] \in Used /\ base'[p] \notin dead' /\ ~(base'[p] \in Nat /\ since' < base'[p])
        BY <2>1, <2>2, <2>3
    <2> QED
        BY <1>b, <2>4 DEF Lasting, Young
<1>4. ASSUME CommitTx \/ Rollback \/ FlushDone \/ CrashRecover
      PROVE (base' = base /\ (inTx' => inTx)) \/ (base' = Zero /\ inTx' = FALSE)
    BY <1>4 DEF CommitTx, Rollback, FlushDone, CrashRecover, EndTx, txv
<1>5. ASSUME \/ \E ps \in SUBSET Page : StmtDeferred(ps) \/ StmtSync(ps)
             \/ AbortFails \/ RestoreFails \/ Savepoint
             \/ \E i \in DOMAIN saves : ReleaseSavepoint(i) \/ RollbackTo(i)
             \/ GuardBegin \/ GuardOk \/ GuardFails \/ UnitBegin \/ UnitEnd \/ SyncPending
             \/ FsyncOk \/ FsyncFails \/ Truncate \/ \E p \in Page : FlushPage(p)
      PROVE base' = base /\ inTx' = inTx
    BY <1>5 DEF StmtDeferred, StmtSync, AbortFails, RestoreFails, Savepoint, ReleaseSavepoint, RollbackTo, GuardBegin,
        GuardOk, GuardFails, UnitBegin, UnitEnd, SyncPending, FsyncOk, FsyncFails, Truncate, FlushPage, txv
<1> QED
    BY <1>1, <1>2, <1>3, <1>4, <1>5 DEF Next

\* The images a guard remembers, after a step.
LEMMA GuardMoves ==
    ASSUME Good, Fates, "txGuardFail" \notin Features, Next
    PROVE /\ \A p \in Page : gsave'.base[p] \in Used'
          /\ guard' = "tx" => \A p \in Page : gsave'.base[p] \notin dead'
          /\ guard' = "auto" => \A p \in Page : Lasting(gsave.base[p])'
<1>a. Shapes /\ Nesting /\ Dated /\ Clean /\ db \in Pages /\ Nesting'
    BY NestingKept DEF Good, Fates, Shapes
<1>b. /\ tick \in Nat /\ tick' \in Nat /\ tick <= tick' /\ Used \subseteq Used'
      /\ (\A v \in Used : Lasting(v) => Lasting(v)') /\ (Open' => dead' = dead)
    BY <1>a, Ages
<1> DEFINE Moved == /\ \A p \in Page : gsave'.base[p] \in Used'
                    /\ guard' = "tx" => \A p \in Page : gsave'.base[p] \notin dead'
                    /\ guard' = "auto" => \A p \in Page : Lasting(gsave.base[p])'
<1>1. ASSUME gsave' = gsave, guard' = guard PROVE Moved
    <2>1. \A p \in Page : gsave.base[p] \in Used
        BY <1>a DEF Dated
    <2>2. guard' = "tx" => dead' = dead
        BY <1>a, <1>b DEF Nesting, Open
    <2>3. guard = "tx" => \A p \in Page : gsave.base[p] \notin dead
        BY <1>a DEF Clean
    <2>4. guard = "auto" => \A p \in Page : Lasting(gsave.base[p])
        BY <1>a DEF Clean
    <2>5. guard = "auto" => \A p \in Page : Lasting(gsave.base[p])'
        BY <1>b, <1>1, <2>1, <2>4 DEF Lasting, Young
    <2> QED
        BY <1>b, <1>1, <2>1, <2>2, <2>3, <2>5
<1>2. ASSUME gsave' = NoSave, guard' = "none" PROVE Moved
    <2>1. \A p \in Page : gsave'.base[p] = 0
        BY <1>2 DEF NoSave, Zero
    <2>2. 0 \in Used'
        BY <1>b DEF Used
    <2> QED
        BY <1>2, <2>1, <2>2
<1>3. ASSUME GuardBegin PROVE Moved
    <2>1. gsave'.base = db /\ dead' = dead /\ tick' = tick /\ (guard' = "auto" => since' = tick)
        BY <1>3 DEF GuardBegin
    <2>2. \A p \in Page : db[p] \in Used /\ db[p] \notin dead
        BY <1>a DEF Dated, Clean
    <2>3. \A v \in Used : ~(v \in Nat /\ tick < v)
        BY <1>b, TxStoreAssumption DEF Used
    <2>4. \A p \in Page : gsave'.base[p] \in Used /\ gsave'.base[p] \notin dead' /\ ~(gsave'.base[p] \in Nat /\ tick < gsave'.base[p])
        BY <2>1, <2>2, <2>3
    <2>5. guard' = "auto" => \A p \in Page : Lasting(gsave.base[p])'
        BY <2>1, <2>4 DEF Lasting, Young
    <2> QED
        BY <1>b, <2>4, <2>5
<1>4. ASSUME AbortFails \/ RestoreFails \/ GuardOk \/ GuardFails \/ CrashRecover
      PROVE (gsave' = gsave /\ guard' = guard) \/ (gsave' = NoSave /\ guard' = "none")
    BY <1>4 DEF AbortFails, RestoreFails, GuardOk, GuardFails, CrashRecover, GuardClosed, guardv
<1>5. ASSUME \/ \E ps \in SUBSET Page : StmtDeferred(ps) \/ StmtSync(ps)
             \/ Begin \/ CommitTx \/ Rollback \/ Savepoint
             \/ \E i \in DOMAIN saves : ReleaseSavepoint(i) \/ RollbackTo(i)
             \/ UnitBegin \/ UnitEnd \/ SyncPending
             \/ FsyncOk \/ FsyncFails \/ FlushDone \/ Truncate \/ \E p \in Page : FlushPage(p)
      PROVE gsave' = gsave /\ guard' = guard
    BY <1>5 DEF StmtDeferred, StmtSync, Begin, CommitTx, Rollback, Savepoint, ReleaseSavepoint, RollbackTo,
        UnitBegin, UnitEnd, SyncPending, FsyncOk, FsyncFails, FlushDone, Truncate, FlushPage, guardv
<1> QED
    BY <1>1, <1>2, <1>3, <1>4, <1>5 DEF Next

\* The images savepoints remember, after a step.
LEMMA SavesMove ==
    ASSUME Good, Fates, "txGuardFail" \notin Features, Next
    PROVE \A i \in 1 .. Len(saves') : \A p \in Page : saves'[i].base[p] \in Used' /\ saves'[i].base[p] \notin dead'
<1>a. Shapes /\ Dated /\ Clean /\ Nesting' /\ saves \in Seq(Level) /\ Len(saves) \in Nat
    BY NestingKept, LenProperties DEF Good, Fates, Shapes
<1>b. Used \subseteq Used' /\ (Open' => dead' = dead)
    BY <1>a, Ages
<1>c. Len(<<>>) = 0 /\ \A i \in 1 .. 0 : FALSE
    OBVIOUS
<1>1. CASE saves' = <<>>
    BY <1>1, <1>c
<1>2. CASE saves' # <<>>
    <2>1. dead' = dead
        BY <1>a, <1>b, <1>2 DEF Nesting, Open
    <2>2. \A i \in 1 .. Len(saves) : \A p \in Page : saves[i].base[p] \in Used' /\ saves[i].base[p] \notin dead'
        BY <1>a, <1>b, <2>1 DEF Dated, Clean
    <2>3. CASE saves' = saves
        BY <2>2, <2>3
    <2>4. ASSUME NEW k \in DOMAIN saves, saves' = SubSeq(saves, 1, k - 1)
          PROVE \A i \in 1 .. Len(saves') : \A p \in Page : saves'[i].base[p] \in Used' /\ saves'[i].base[p] \notin dead'
        <3>1. k \in 1 .. Len(saves)
            BY <1>a, LenProperties
        <3>2. \A i \in 1 .. k - 1 : saves[i] \in Level /\ i \in 1 .. Len(saves)
            BY <1>a, <3>1, ElementOfSeq
        <3>3. Len(saves') = k - 1 /\ \A i \in 1 .. k - 1 : saves'[i] = saves[i]
            BY <1>a, <2>4, <3>1
        <3> QED
            BY <2>2, <3>2, <3>3
    <2>5. ASSUME Savepoint
          PROVE \A i \in 1 .. Len(saves') : \A p \in Page : saves'[i].base[p] \in Used' /\ saves'[i].base[p] \notin dead'
        <3> DEFINE e == [mark |-> Len(undo), base |-> db]
        <3>1. saves' = Append(saves, e) /\ e.base = db
            BY <2>5 DEF Savepoint
        <3> HIDE DEF e
        <3>2. Len(saves') = Len(saves) + 1 /\ (\A i \in 1 .. Len(saves) : saves'[i] = saves[i])
              /\ saves'[Len(saves) + 1] = e
            BY <1>a, <3>1
        <3>3. \A i \in 1 .. Len(saves) + 1 : i \in 1 .. Len(saves) \/ i = Len(saves) + 1
            BY <1>a
        <3>4. \A p \in Page : e.base[p] \in Used' /\ e.base[p] \notin dead'
            BY <1>a, <1>b, <2>1, <3>1 DEF Dated, Clean
        <3> QED
            BY <2>2, <3>2, <3>3, <3>4
    <2>6. ASSUME CommitTx \/ Rollback \/ FlushDone \/ CrashRecover
          PROVE saves' = saves \/ saves' = <<>>
        BY <2>6 DEF CommitTx, Rollback, FlushDone, CrashRecover, EndTx, txv
    <2>7. ASSUME NEW k \in DOMAIN saves, ReleaseSavepoint(k) \/ RollbackTo(k)
          PROVE saves' = SubSeq(saves, 1, k - 1)
        BY <2>7 DEF ReleaseSavepoint, RollbackTo
    <2>8. ASSUME \/ \E ps \in SUBSET Page : StmtDeferred(ps) \/ StmtSync(ps)
                 \/ Begin \/ AbortFails \/ RestoreFails
                 \/ GuardBegin \/ GuardOk \/ GuardFails \/ UnitBegin \/ UnitEnd \/ SyncPending
                 \/ FsyncOk \/ FsyncFails \/ Truncate \/ \E p \in Page : FlushPage(p)
          PROVE saves' = saves
        BY <2>8 DEF StmtDeferred, StmtSync, Begin, AbortFails, RestoreFails, GuardBegin,
            GuardOk, GuardFails, UnitBegin, UnitEnd, SyncPending, FsyncOk, FsyncFails, Truncate, FlushPage, txv
    <2> QED
        BY <1>2, <2>3, <2>4, <2>5, <2>6, <2>7, <2>8 DEF Next
<1> QED
    BY <1>1, <1>2

\* Nothing of what is open reaches the file before its COMMIT's fsync.
LEMMA OffFile ==
    ASSUME Good, Fates, "txGuardFail" \notin Features, Next, Open', pc' # "flush"
    PROVE \A p \in Page : (\A v \in surv'[p] : ~Young(v)') /\ (Young(db[p])' => p \in queue')
<1>a. Shapes /\ Nesting /\ Dated /\ Clean /\ Calls
    BY DEF Good, Fates
<1>b. /\ tick \in Nat /\ (\A v \in Used : Young(v)' => Young(v))
      /\ \A p \in Page : db[p] \in Used /\ surv[p] \subseteq Used
    BY <1>a, Ages DEF Dated
<1>1. ~CrashRecover
    BY DEF CrashRecover, Open
<1>2. pc # "flush"
    <2>1. ASSUME pc = "flush", FlushDone PROVE FALSE
        <3>1. guard' = "none" /\ (inTx => then = "commit") /\ (then = "commit" => inTx' = FALSE) /\ (~inTx => ~inTx')
            BY <1>a, <2>1 DEF FlushDone, Nesting, Calls, Idle, EndTx, guardv, txv
        <3> QED
            BY <1>a, <3>1 DEF Open, Shapes
    <2>2. ASSUME pc = "flush", NEW p \in Page, FlushPage(p) PROVE FALSE
        BY <2>2 DEF FlushPage, callv
    <2>3. ASSUME pc = "flush" PROVE CrashRecover \/ FlushDone \/ \E p \in Page : FlushPage(p)
        BY <2>3 DEF Next, StmtDeferred, StmtSync, Begin, CommitTx, Rollback, AbortFails, RestoreFails, Savepoint,
            ReleaseSavepoint, RollbackTo, GuardBegin, GuardOk, GuardFails, UnitBegin, UnitEnd, SyncPending, FsyncOk,
            FsyncFails, Truncate, Idle
    <2> QED
        BY <1>1, <2>1, <2>2, <2>3
<1>3. queue \subseteq queue'
    <2>1. ASSUME NEW p \in Page, FlushPage(p) PROVE FALSE
        BY <1>2, <2>1 DEF FlushPage
    <2>2. ASSUME GuardFails PROVE queue \subseteq queue'
        BY <2>2 DEF GuardFails, RestoreTo, Apply
    <2> QED
        BY <1>1, <2>1, <2>2 DEF Next, StmtDeferred, StmtSync, Begin, CommitTx, Rollback, AbortFails, RestoreFails,
            Savepoint, ReleaseSavepoint, RollbackTo, RestoreTo, GuardBegin, GuardOk, UnitBegin, UnitEnd,
            SyncPending, FsyncOk, FsyncFails, FlushDone, Truncate, Apply, pagev
<1>4. \A p \in Page : p \notin queue' => db'[p] = db[p]
    BY <1>1, PagesMove
<1>5. \A p \in Page : (\A v \in surv[p] : ~Young(v)) /\ (Young(db[p]) => p \in queue)
    <2>1. CASE Open
        BY <1>2, <1>a, <2>1 DEF Clean
    <2>2. CASE ~Open
        BY <2>2 DEF Young
    <2> QED
        BY <2>1, <2>2
<1>6. ASSUME NEW p \in Page PROVE Young(db[p])' => p \in queue'
    <2> SUFFICES ASSUME p \notin queue', Young(db[p])' PROVE FALSE
        OBVIOUS
    <2>1. db'[p] = db[p] /\ db[p] \in Used
        BY <1>4, <1>b
    <2>2. Young(db[p])
        BY <1>b, <2>1 DEF Young
    <2> QED
        BY <1>3, <1>5, <2>2
<1>7. ASSUME NEW p \in Page, NEW v \in surv'[p] PROVE ~Young(v)'
    <2>1. CASE surv' = surv
        BY <1>5, <1>b, <2>1
    <2>2. CASE Truncate /\ surv' = [q \in Page |-> {db[q]}]
        <3>1. v = db[p] /\ queue = {}
            BY <2>2 DEF Truncate
        <3>2. v \in Used /\ ~Young(v)
            BY <1>5, <1>b, <3>1
        <3> QED
            BY <1>b, <3>2
    <2> QED
        BY <1>1, <1>2, <2>1, <2>2, FileMoves
<1> QED
    BY <1>6, <1>7

\* Dates, and what is left outside the log, through a step.
LEMMA OutsideKept ==
    ASSUME Good, Fates, "txGuardFail" \notin Features, Next
    PROVE Dated' /\ Clean'
<1>a. Dated
    BY DEF Fates
<1>1. since' \in 0 .. tick' /\ dead' \subseteq 1 .. tick'
    <2>1. tick \in Nat /\ tick' \in Nat /\ tick <= tick' /\ since' \in 0 .. tick' /\ dead' \subseteq 1 .. tick
        BY <1>a, Ages
    <2>2. 1 .. tick \subseteq 1 .. tick'
        BY <2>1
    <2> QED
        BY <2>1, <2>2
<1>2. Dated'
    BY <1>1, PagesMove, FileMoves, BaseMoves, GuardMoves, SavesMove, StagedMoves, LogDated DEF Dated
<1>3. Clean'
    BY PagesMove, FileMoves, BaseMoves, GuardMoves, SavesMove, StagedMoves, OffFile DEF Clean
<1> QED
    BY <1>2, <1>3

-----------------------------------------------------------------------------
(* What is open stays pending                                              *)

\* No fence follows when none is appended.
LEMMA NoFenceOn ==
    ASSUME NEW l \in Seq(Entry), NEW x \in Seq(Entry), NEW i \in 1 .. Len(l), NoFence(l, i, Len(l)),
           \A k \in 1 .. Len(x) : x[k].kind # "fence"
    PROVE NoFence(l \o x, i, Len(l \o x))
<1>1. /\ Len(l) \in Nat /\ Len(x) \in Nat /\ Len(l \o x) = Len(l) + Len(x)
      /\ \A j \in 1 .. Len(l) : (l \o x)[j] = l[j]
      /\ \A j \in Len(l) + 1 .. Len(l) + Len(x) : j - Len(l) \in 1 .. Len(x) /\ (l \o x)[j] = x[j - Len(l)]
    BY Longer
<1>2. ASSUME NEW j \in i + 1 .. Len(l \o x) PROVE (l \o x)[j].kind # "fence"
    <2>1. CASE j <= Len(l)
        <3>1. j \in 1 .. Len(l) /\ j \in i + 1 .. Len(l)
            BY <1>1, <2>1
        <3> QED
            BY <1>1, <3>1 DEF NoFence
    <2>2. CASE ~(j <= Len(l))
        <3>1. j \in Len(l) + 1 .. Len(l) + Len(x)
            BY <1>1, <2>2
        <3> QED
            BY <1>1, <3>1
    <2> QED
        BY <2>1, <2>2
<1> QED
    BY <1>2 DEF NoFence

\* A shadowed entry stays shadowed while nothing is aborted.
LEMMA ShadowedStays ==
    ASSUME Good, Fates, "txGuardFail" \notin Features, Next, NEW x \in Seq(Entry), log' = log \o x,
           \A k \in 1 .. Len(x) : x[k].kind # "abort", NEW i \in 1 .. Len(log), NEW p, Shadowed(i, p)
    PROVE Shadowed(i, p)'
<1>1. PICK m \in 1 .. Len(log) : Shadows(i, p, m)
    BY DEF Shadowed
<1>2. m \in 1 .. Len(log') /\ Shadows(i, p, m)'
    BY <1>1, ShadowStays
<1> QED
    BY <1>2 DEF Shadowed

\* What the journal knows, it knows after a recorded write and after a
\* savepoint.
LEMMA RecordedGrows ==
    ASSUME Shapes, NEW ps \in SUBSET Page
    PROVE /\ Recorded(undo) \subseteq Recorded(Record(ps)) /\ Recorded(undo) \subseteq Recorded(Baseline)
          /\ undoOn => ps \subseteq Recorded(Record(ps))
<1>1. undo \in Seq(Image) /\ Len(undo) \in Nat /\ DOMAIN undo = 1 .. Len(undo)
    BY LenProperties DEF Shapes
<1>2. ASSUME NEW e PROVE Recorded(Append(undo, e)) = Recorded(undo) \cup DOMAIN e
    <2>1. /\ DOMAIN Append(undo, e) = 1 .. Len(undo) + 1 /\ Append(undo, e)[Len(undo) + 1] = e
          /\ \A i \in 1 .. Len(undo) : Append(undo, e)[i] = undo[i]
        BY <1>1
    <2>2. \A i \in 1 .. Len(undo) + 1 : i \in 1 .. Len(undo) \/ i = Len(undo) + 1
        BY <1>1
    <2>3. Len(undo) + 1 \in 1 .. Len(undo) + 1 /\ \A i \in 1 .. Len(undo) : i \in 1 .. Len(undo) + 1
        BY <1>1
    <2> QED
        BY <1>1, <2>1, <2>2, <2>3 DEF Recorded
<1>3. Recorded(undo) \subseteq Recorded(Baseline)
    BY <1>2 DEF Baseline
<1> DEFINE fresh == ps \ Recorded(undo)
           e == [p \in fresh |-> db[p]]
<1>4. DOMAIN e = fresh /\ Record(ps) = IF undoOn /\ fresh # {} THEN Append(undo, e) ELSE undo
    BY DEF Record
<1> HIDE DEF e
<1>5. Recorded(Append(undo, e)) = Recorded(undo) \cup fresh
    BY <1>2, <1>4
<1> QED
    BY <1>3, <1>4, <1>5

\* Steps that leave the log alone and forget nothing.
LEMMA PendingSame ==
    ASSUME Good, Fates, "txGuardFail" \notin Features, Next, log' = log, dtx' = dtx,
           poisoned => poisoned', inTx => inTx' /\ (poisoned \/ ~Idle => poisoned' \/ ~Idle'),
           NEW i \in 1 .. Len(log), NEW p, Pending(i, p), p \in Recorded(undo) => p \in Recorded(undo')
    PROVE Pending(i, p)'
<1>1. log \in Seq(Entry) /\ log \o <<>> = log
    <2>1. log \in Seq(Entry)
        BY DEF Good, Shapes
    <2> QED
        BY <2>1, ConcatEmptySeq
<1>2. log' = log \o <<>> /\ <<>> \in Seq(Entry) /\ Len(<<>>) = 0 /\ \A k \in 1 .. 0 : FALSE
    BY <1>1
<1>3. Shadowed(i, p) => Shadowed(i, p)'
    BY <1>2, ShadowedStays
<1>4. CASE Voided(log, i)
    BY <1>4 DEF Pending
<1>5. CASE /\ Outstanding(log[i].tx) /\ NoFence(log, i, Len(log))
           /\ poisoned \/ p \in Recorded(undo) \/ Shadowed(i, p)
    <2>1. poisoned' \/ p \in Recorded(undo') \/ Shadowed(i, p)'
        BY <1>3, <1>5
    <2>2. Outstanding(log[i].tx)'
        BY <1>5 DEF Outstanding
    <2> QED
        BY <1>5, <2>1, <2>2 DEF Pending
<1>6. CASE /\ inTx /\ (poisoned \/ ~Idle) /\ dtx = <<>>
           /\ p \in Recorded(undo) \/ Shadowed(i, p)
    <2>1. p \in Recorded(undo') \/ Shadowed(i, p)'
        BY <1>3, <1>6
    <2> QED
        BY <1>6, <2>1 DEF Pending
<1> QED
    BY <1>4, <1>5, <1>6 DEF Pending

\* A deferred entry is appended by a call that finds the log sound: what was
\* pending on the journal or on a shadow stays so.
LEMMA PendingOn ==
    ASSUME Good, Fates, "txGuardFail" \notin Features, Next, Idle, ~poisoned, NEW e \in Entry, e.kind = "deferred",
           log' = log \o <<e>>, dtx' = dtx \o <<e.tx>>,
           NEW i \in 1 .. Len(log), NEW p, Pending(i, p),
           p \in Recorded(undo) => p \in Recorded(undo') \/ (p \in DOMAIN e.img /\ Lasting(e.img[p])')
    PROVE Pending(i, p)'
<1>a. log \in Seq(Entry) /\ dtx \in Seq(Nat) /\ Len(dtx) \in Nat /\ Len(log) \in Nat
    BY LenProperties DEF Good, Shapes
<1>b. <<e>> \in Seq(Entry) /\ Len(<<e>>) = 1 /\ <<e>>[1] = e /\ \A k \in 1 .. 1 : k = 1
    OBVIOUS
<1>c. \A k \in 1 .. Len(<<e>>) : <<e>>[k].kind # "abort" /\ <<e>>[k].kind # "fence"
    BY <1>b
<1>1. /\ Len(log') = Len(log) + 1 /\ \A j \in 1 .. Len(log) : log'[j] = log[j]
      /\ log'[Len(log) + 1] = e
    <2>1. /\ Len(log') = Len(log) + 1 /\ \A j \in 1 .. Len(log) : log'[j] = log[j]
          /\ \A j \in Len(log) + 1 .. Len(log) + 1 : log'[j] = <<e>>[j - Len(log)]
        BY <1>a, <1>b, Longer
    <2>2. Len(log) + 1 \in Len(log) + 1 .. Len(log) + 1 /\ (Len(log) + 1) - Len(log) = 1
        BY <1>a
    <2> QED
        BY <1>b, <2>1, <2>2
<1>2. log'[i] = log[i] /\ log[i].kind = "deferred" /\ i \in 1 .. Len(log')
    BY <1>a, <1>1 DEF Pending
<1>3. CASE Voided(log, i)
    <2>1. Voided(log', i)
        BY <1>a, <1>b, <1>3, Stays
    <2> QED
        BY <1>2, <2>1 DEF Pending
<1>4. CASE Outstanding(log[i].tx) /\ NoFence(log, i, Len(log)) /\ (p \in Recorded(undo) \/ Shadowed(i, p))
    <2>1. Outstanding(log[i].tx)'
        <3>1. PICK j \in 1 .. Len(dtx) : dtx[j] = log[i].tx
            BY <1>4 DEF Outstanding
        <3>2. e.tx \in Nat /\ <<e.tx>> \in Seq(Nat) /\ Len(<<e.tx>>) = 1
            BY DEF Entry
        <3>3. j \in 1 .. Len(dtx') /\ dtx'[j] = dtx[j]
            <4>1. Len(dtx') = Len(dtx) + 1 /\ \A k \in 1 .. Len(dtx) + 1 : dtx'[k] = IF k <= Len(dtx) THEN dtx[k] ELSE <<e.tx>>[k - Len(dtx)]
                BY <1>a, <3>2, ConcatProperties
            <4> QED
                BY <1>a, <4>1
        <3> QED
            BY <1>2, <3>1, <3>3 DEF Outstanding
    <2>2. NoFence(log', i, Len(log'))
        BY <1>a, <1>b, <1>c, <1>4, NoFenceOn
    <2>3. ASSUME p \in DOMAIN e.img, Lasting(e.img[p])' PROVE Shadowed(i, p)'
        <3>0. PICK m \in Nat : m = Len(log) + 1
            BY <1>a
        <3>1. m \in i + 1 .. Len(log') /\ m \in 1 .. Len(log') /\ log'[m] = e /\ \A k \in m + 1 .. Len(log') : FALSE
            BY <1>a, <1>1, <3>0
        <3>2. NoFence(log', i, m)
            BY <1>1, <2>2, <3>0
        <3>3. Covers(log', i, p, m)
            BY <2>3, <3>1, <3>2 DEF Covers
        <3>4. Lasting(log[m].img[p])'
            BY <2>3, <3>1 DEF Lasting, Young
        <3>5. Shadows(i, p, m)'
            BY <3>3, <3>4 DEF Shadows
        <3> QED
            BY <3>1, <3>5 DEF Shadowed
    <2>4. Shadowed(i, p) => Shadowed(i, p)'
        BY <1>b, <1>c, ShadowedStays
    <2>5. p \in Recorded(undo') \/ Shadowed(i, p)'
        BY <1>4, <2>3, <2>4
    <2> QED
        BY <1>2, <2>1, <2>2, <2>5 DEF Pending
<1> QED
    BY <1>3, <1>4 DEF Pending

\* Entries of the journal after a mark are in its tail.
LEMMA TailRecords ==
    ASSUME NEW u \in Seq(Image), NEW m \in Nat, NEW i \in m + 1 .. Len(u)
    PROVE DOMAIN u[i] \subseteq Recorded(SubSeq(u, m + 1, Len(u)))
<1> DEFINE t == SubSeq(u, m + 1, Len(u))
           l == Len(u)
           n == l - m
<1>1. l \in Nat /\ n \in Nat /\ m + 1 <= l /\ l - (m + 1) + 1 = n /\ i - m \in 1 .. n /\ i \in m + 1 .. l
    BY LenProperties
<1>2. \A k \in m + 1 .. l : u[k] \in Image
    BY <1>1, ElementOfSeq
<1>3. /\ t \in Seq(Image) /\ Len(t) = IF m + 1 <= l THEN l - (m + 1) + 1 ELSE 0
      /\ \A k \in 1 .. l - (m + 1) + 1 : t[k] = u[m + 1 + k - 1]
    BY <1>1, <1>2, SubSeqProperties
<1> HIDE DEF t, l, n
<1>4. Len(t) = n
    BY <1>1, <1>3
<1>5. i - m \in 1 .. l - (m + 1) + 1 /\ m + 1 + (i - m) - 1 = i
    BY <1>1
<1>6. t[i - m] = u[m + 1 + (i - m) - 1]
    BY <1>3, <1>5
<1>7. i - m \in DOMAIN t /\ t[i - m] = u[i]
    BY <1>1, <1>3, <1>4, <1>5, <1>6, LenProperties
<1>8. DOMAIN u[i] \subseteq Recorded(t)
    BY <1>7 DEF Recorded
<1> QED
    BY <1>8 DEF t

\* Going back to a level leaves what is open pending: a page the journal
\* forgets is restored to its image at BEGIN.
LEMMA BackPending ==
    ASSUME Good, Fates, "txGuardFail" \notin Features, Next, Idle, inTx, inTx', UNCHANGED <<pc, poisoned>>,
           NEW s \in Level, Under(undo, s, Top), Under(undo, Root, s), RestoreTo(s.mark),
           \A p \in Page : s.base[p] \in Used
    PROVE YoungPending'
<1>a. /\ Shapes /\ Dated /\ Clean /\ YoungPending /\ log \in Seq(Entry) /\ dtx \in Seq(Nat) /\ undo \in Seq(Image)
      /\ Len(log) \in Nat /\ Len(undo) \in Nat /\ DOMAIN undo = 1 .. Len(undo) /\ tick \in Nat
    BY LenProperties DEF Good, Fates, Shapes
<1>b. /\ \A v \in Used : (Young(v)' => Young(v)) /\ (Lasting(v) => Lasting(v)')
      /\ s.mark \in Nat /\ s.mark <= Len(undo)
    BY <1>a, Ages DEF Under, Level, Top
<1>c. PICK img \in Image : img = Undone(UndoTail(s.mark))
    BY LevelRestores
<1>1. /\ DOMAIN img = Recorded(UndoTail(s.mark)) /\ \A p \in DOMAIN img : p \in Page /\ img[p] = s.base[p]
    BY <1>c, LevelRestores
<1>2. /\ ~poisoned \/ DOMAIN img = {}
      /\ log' = log \o RestoreLog(img) /\ dtx' = dtx \o RestoreTx(img)
      /\ undo' = SubSeq(undo, 1, s.mark)
    BY <1>c DEF RestoreTo
<1>3. \A p : p \in Recorded(undo') <=> \E i \in 1 .. s.mark : p \in DOMAIN undo[i]
    <2>1. undo' \in Seq(Image) /\ Len(undo') = s.mark /\ \A i \in 1 .. s.mark : undo'[i] = undo[i]
        BY <1>a, <1>b, <1>2, Part
    <2>2. DOMAIN undo' = 1 .. s.mark
        BY <2>1, LenProperties
    <2> QED
        BY <2>1, <2>2 DEF Recorded
<1>4. ASSUME NEW p \in Recorded(undo) PROVE p \in Recorded(undo') \/ p \in DOMAIN img
    <2>1. PICK i \in 1 .. Len(undo) : p \in DOMAIN undo[i]
        BY <1>a, <1>4 DEF Recorded
    <2>2. CASE i <= s.mark
        <3>1. i \in 1 .. s.mark
            BY <1>b, <2>2
        <3> QED
            BY <1>3, <2>1, <3>1
    <2>3. CASE ~(i <= s.mark)
        <3>1. i \in s.mark + 1 .. Len(undo)
            BY <1>a, <1>b, <2>3
        <3> QED
            BY <1>1, <1>a, <1>b, <2>1, <3>1, TailRecords DEF UndoTail
    <2> QED
        BY <2>2, <2>3
<1>5. ASSUME NEW p \in DOMAIN img, p \notin Recorded(undo') PROVE Lasting(img[p]) /\ Lasting(img[p])'
    <2>1. p \in Page /\ img[p] = s.base[p]
        BY <1>1
    <2>2. \A i \in 1 .. s.mark : p \notin DOMAIN undo[i]
        BY <1>3, <1>5
    <2>3. Root.mark = 0 /\ Root.base = base
        BY DEF Root
    <2>4. \A i \in 0 + 1 .. s.mark : i \in 1 .. s.mark
        BY <1>b
    <2>5. s.base[p] = base[p]
        BY <2>1, <2>2, <2>3, <2>4 DEF Under
    <2>6. base[p] \in Used /\ Lasting(base[p])
        BY <1>a, <2>1 DEF Dated, Clean
    <2>7. Lasting(img[p])
        BY <2>1, <2>5, <2>6
    <2> QED
        BY <1>b, <2>1, <2>5, <2>6, <2>7 DEF Lasting, Young
<1>6. ASSUME NEW i \in 1 .. Len(log), NEW p \in DOMAIN log[i].img, log'[i] = log[i], Young(log[i].img[p])'
      PROVE Pending(i, p)
    <2>1. log[i].img[p] \in Used
        BY <1>a DEF Dated
    <2>2. Young(log[i].img[p])
        BY <1>b, <1>6, <2>1 DEF Young
    <2> QED
        BY <1>a, <2>2 DEF YoungPending
<1>7. CASE DOMAIN img = {}
    <2>1. log' = log /\ dtx' = dtx
        BY <1>2, <1>7, <1>a, ConcatEmptySeq DEF RestoreLog, RestoreTx
    <2>2. ASSUME NEW i \in 1 .. Len(log'), NEW p \in DOMAIN log'[i].img, Young(log[i].img[p])' PROVE Pending(i, p)'
        <3>1. i \in 1 .. Len(log) /\ p \in DOMAIN log[i].img /\ log'[i] = log[i]
            BY <2>1
        <3>2. Pending(i, p)
            BY <1>6, <2>2, <3>1
        <3> QED
            BY <1>4, <1>7, <2>1, <3>1, <3>2, PendingSame DEF Idle
    <2> QED
        BY <2>2 DEF YoungPending
<1>8. CASE DOMAIN img # {}
    <2>0. PICK e \in Entry : e = Deferred(tick + 1, img)
        BY <1>a, Entries
    <2>1. /\ ~poisoned /\ e.kind = "deferred" /\ e.img = img /\ e.tx = tick + 1
          /\ log' = log \o <<e>> /\ dtx' = dtx \o <<e.tx>>
        BY <1>2, <1>8, <2>0 DEF RestoreLog, RestoreTx, Deferred
    <2>2. /\ Len(log') = Len(log) + 1 /\ \A j \in 1 .. Len(log) : log'[j] = log[j]
          /\ log'[Len(log) + 1] = e
        BY <1>a, <2>0, <2>1
    <2>3. ASSUME NEW i \in 1 .. Len(log), NEW p \in DOMAIN log[i].img, Young(log[i].img[p])' PROVE Pending(i, p)'
        <3>1. Pending(i, p)
            BY <1>6, <2>2, <2>3
        <3> QED
            BY <1>4, <1>5, <2>1, <3>1, PendingOn
    <2>4. ASSUME NEW i \in Nat, i = Len(log) + 1, NEW p \in DOMAIN img, Young(log[i].img[p])' PROVE Pending(i, p)'
        <3>1. log'[i] = e /\ log'[i].img[p] = img[p]
            BY <2>1, <2>2, <2>4
        <3>2. img[p] \in Used
            BY <1>1
        <3>3. Young(img[p])
            BY <1>b, <2>4, <3>1, <3>2 DEF Young
        <3>4. p \in Recorded(undo')
            BY <1>5, <3>3 DEF Lasting
        <3>5. Outstanding(log[i].tx)'
            <4>1. e.tx \in Nat /\ Len(dtx) \in Nat
                BY <1>a, <2>1, LenProperties
            <4>2. Len(dtx) + 1 \in 1 .. Len(dtx') /\ dtx'[Len(dtx) + 1] = e.tx
                BY <1>a, <2>1, <4>1
            <4> QED
                BY <3>1, <4>2 DEF Outstanding
        <3>6. NoFence(log', i, Len(log'))
            <4>1. \A j \in i + 1 .. Len(log') : FALSE
                BY <1>a, <2>2, <2>4
            <4> QED
                BY <4>1 DEF NoFence
        <3> QED
            BY <2>1, <3>1, <3>4, <3>5, <3>6 DEF Pending
    <2>5. ASSUME NEW i \in 1 .. Len(log'), NEW p \in DOMAIN log'[i].img, Young(log[i].img[p])' PROVE Pending(i, p)'
        <3>1. i \in 1 .. Len(log) \/ (i \in Nat /\ i = Len(log) + 1)
            BY <1>a, <2>2
        <3> QED
            BY <2>1, <2>2, <2>3, <2>4, <2>5, <3>1
    <2> QED
        BY <2>5 DEF YoungPending
<1> QED
    BY <1>7, <1>8

\* Whatever is open stays pending through a step.
LEMMA YoungPendingKept ==
    ASSUME Good, Fates, "txGuardFail" \notin Features, Next
    PROVE YoungPending'
<1>a. /\ Shapes /\ Nesting /\ Stacked /\ Dated /\ Calls /\ YoungPending /\ log \in Seq(Entry) /\ dtx \in Seq(Nat)
      /\ Len(log) \in Nat /\ tick \in Nat /\ inTx \in BOOLEAN /\ unit \in Nat
    BY LenProperties DEF Good, Fates, Shapes
<1>b. \A v \in Used : Young(v)' => Young(v)
    BY <1>a, Ages
<1>c. ASSUME NEW i \in 1 .. Len(log), NEW p \in DOMAIN log[i].img, log'[i] = log[i], Young(log[i].img[p])'
      PROVE Open /\ Pending(i, p)
    <2>1. log[i].img[p] \in Used
        BY <1>a DEF Dated
    <2>2. Young(log[i].img[p])
        BY <1>b, <1>c, <2>1 DEF Young
    <2> QED
        BY <1>a, <2>2 DEF YoungPending, Young
<1>d. ASSUME log' = log, \A i \in 1 .. Len(log) : \A p \in DOMAIN log[i].img : Open /\ Pending(i, p) => Pending(i, p)'
      PROVE YoungPending'
    BY <1>c, <1>d DEF YoungPending
<1>1. ASSUME ~Open' PROVE YoungPending'
    BY <1>1 DEF YoungPending, Young
<1>2. ASSUME log' = <<>> PROVE YoungPending'
    <2>1. Len(<<>>) = 0 /\ \A i \in 1 .. 0 : FALSE
        OBVIOUS
    <2> QED
        BY <1>2, <2>1 DEF YoungPending
<1>3. ASSUME NEW ps \in SUBSET Page, StmtDeferred(ps), Open' PROVE YoungPending'
    <2>0. PICK img \in Image : img = [p \in ps |-> tick + 1]
        BY <1>a, Writes
    <2>1. PICK e \in Entry : e = Deferred(tick + 1, img)
        BY <1>a, Entries
    <2>2. /\ Idle /\ ~poisoned /\ e.kind = "deferred" /\ e.tx = tick + 1 /\ e.img = img /\ DOMAIN img = ps
          /\ log' = Append(log, e) /\ dtx' = Append(dtx, tick + 1) /\ undo' = Record(ps) /\ UNCHANGED <<inTx, guard>>
        BY <1>3, <2>0, <2>1 DEF StmtDeferred, Deferred, txv, guardv
    <2>3. log' = log \o <<e>> /\ dtx' = dtx \o <<e.tx>>
        BY <1>a, <2>2, AppendIsConcat
    <2>4. /\ Len(log') = Len(log) + 1 /\ \A j \in 1 .. Len(log) : log'[j] = log[j]
          /\ log'[Len(log) + 1] = e
        BY <1>a, <2>1, <2>2
    <2>5. undoOn
        BY <1>3, <1>a, <2>2 DEF Open, Nesting
    <2>6. Recorded(undo) \subseteq Recorded(undo') /\ ps \subseteq Recorded(undo')
        BY <1>a, <2>2, <2>5, RecordedGrows
    <2>7. ASSUME NEW i \in 1 .. Len(log), NEW p \in DOMAIN log[i].img, Young(log[i].img[p])' PROVE Pending(i, p)'
        <3>1. Pending(i, p)
            BY <1>c, <2>4, <2>7
        <3> QED
            BY <2>2, <2>3, <2>6, <3>1, PendingOn
    <2>8. ASSUME NEW i \in Nat, i = Len(log) + 1, NEW p \in ps PROVE Pending(i, p)'
        <3>1. Outstanding(log[i].tx)'
            <4>1. Len(dtx) \in Nat
                BY <1>a, LenProperties
            <4>2. Len(dtx) + 1 \in 1 .. Len(dtx') /\ dtx'[Len(dtx) + 1] = e.tx
                BY <1>a, <2>2, <4>1
            <4> QED
                BY <2>4, <2>8, <4>2 DEF Outstanding
        <3>2. NoFence(log', i, Len(log'))
            <4>1. \A j \in i + 1 .. Len(log') : FALSE
                BY <1>a, <2>4, <2>8
            <4> QED
                BY <4>1 DEF NoFence
        <3> QED
            BY <2>2, <2>4, <2>6, <2>8, <3>1, <3>2 DEF Pending
    <2>9. ASSUME NEW i \in 1 .. Len(log'), NEW p \in DOMAIN log'[i].img, Young(log[i].img[p])' PROVE Pending(i, p)'
        <3>1. i \in 1 .. Len(log) \/ (i \in Nat /\ i = Len(log) + 1)
            BY <1>a, <2>4
        <3> QED
            BY <2>2, <2>4, <2>7, <2>8, <2>9, <3>1
    <2> QED
        BY <2>9 DEF YoungPending
<1>4. ASSUME NEW ps \in SUBSET Page, StmtSync(ps) PROVE ~Open'
    <2>1. ~inTx /\ ~(unit > 0) /\ UNCHANGED <<inTx, guard>>
        BY <1>4 DEF StmtSync, Defers, txv, guardv
    <2> QED
        BY <1>a, <2>1 DEF Nesting, Open
<1>5. ASSUME Begin PROVE YoungPending'
    <2>1. log' = log /\ ~Open
        BY <1>5 DEF Begin, walv, Open
    <2> QED
        BY <1>d, <2>1
<1>6. ASSUME CommitTx, Open' PROVE YoungPending'
    <2>1. inTx /\ Idle /\ guard = "none" /\ ~AsyncCommit
        BY <1>6 DEF CommitTx, EndTx, Open, guardv
    <2>2. /\ CanFence /\ log' = log \o FenceOf(dtx) /\ dtx' = <<>> /\ pc' = "fsync" /\ inTx' = inTx
          /\ UNCHANGED <<undo, poisoned>>
        BY <1>6, <2>1 DEF CommitTx, Sync, txv, undov
    <2>3. CASE dtx = <<>>
        <3>1. log' = log /\ dtx' = dtx
            BY <1>a, <2>2, <2>3, ConcatEmptySeq DEF FenceOf
        <3>2. ~Idle'
            BY <2>2 DEF Idle
        <3> QED
            BY <1>d, <2>2, <3>1, <3>2, PendingSame
    <2>4. CASE dtx # <<>>
        <3>1. log' = log \o <<Fence>> /\ ~poisoned /\ ~Idle'
            BY <2>2, <2>4 DEF FenceOf, CanFence, Idle
        <3>2. Fence \in Entry /\ <<Fence>> \in Seq(Entry) /\ Len(<<Fence>>) = 1 /\ <<Fence>>[1] = Fence
              /\ Fence.kind = "fence" /\ DOMAIN Fence.img = {}
            BY SomeImages DEF Fence, Entry
        <3>3. /\ Len(log') = Len(log) + 1 /\ \A j \in 1 .. Len(log) : log'[j] = log[j]
              /\ log'[Len(log) + 1] = Fence
            BY <1>a, <3>1, <3>2
        <3>4. \A k \in 1 .. Len(<<Fence>>) : <<Fence>>[k].kind # "abort"
            BY <3>2
        <3>5. ASSUME NEW i \in 1 .. Len(log), NEW p \in DOMAIN log[i].img, Young(log[i].img[p])' PROVE Pending(i, p)'
            <4>1. Pending(i, p) /\ log'[i] = log[i] /\ i \in 1 .. Len(log')
                BY <1>a, <1>c, <3>3, <3>5
            <4>2. CASE Voided(log, i)
                <5>1. Voided(log', i)
                    BY <1>a, <3>1, <3>2, <4>2, Stays
                <5> QED
                    BY <4>1, <5>1 DEF Pending
            <4>3. CASE p \in Recorded(undo) \/ Shadowed(i, p)
                <5>1. Shadowed(i, p) => Shadowed(i, p)'
                    BY <3>1, <3>2, <3>4, ShadowedStays
                <5> QED
                    BY <2>1, <2>2, <3>1, <4>1, <4>3, <5>1 DEF Pending
            <4> QED
                BY <3>1, <4>1, <4>2, <4>3 DEF Pending
        <3>6. ASSUME NEW i \in 1 .. Len(log'), NEW p \in DOMAIN log'[i].img, Young(log[i].img[p])' PROVE Pending(i, p)'
            <4>1. i \in 1 .. Len(log) \/ i = Len(log) + 1
                BY <1>a, <3>3
            <4> QED
                BY <3>2, <3>3, <3>5, <3>6, <4>1
        <3> QED
            BY <3>6 DEF YoungPending
    <2> QED
        BY <2>3, <2>4
<1>7. ASSUME Rollback PROVE ~Open'
    BY <1>7 DEF Rollback, EndTx, Open, guardv
<1>8. ASSUME NEW ts \in Seq(Nat), log' = log \o AbortsOf(ts),
             \A i \in 1 .. Len(log) : \A p \in DOMAIN log[i].img :
                Pending(i, p) /\ log'[i] = log[i] /\ i \in 1 .. Len(log') => Pending(i, p)'
      PROVE YoungPending'
    <2>1. AbortsOf(ts) \in Seq(Entry) /\ Len(ts) \in Nat /\ DOMAIN ts = 1 .. Len(ts)
        BY <1>a, SomeImages, Entries, LenProperties
    <2>2. Len(AbortsOf(ts)) = Len(ts) /\ \A k \in 1 .. Len(ts) : AbortsOf(ts)[k] = Abort(ts[k])
        BY <2>1 DEF AbortsOf
    <2>3. /\ Len(log') = Len(log) + Len(ts)
          /\ \A j \in 1 .. Len(log) : log'[j] = log[j]
          /\ \A j \in Len(log) + 1 .. Len(log) + Len(ts) : j - Len(log) \in 1 .. Len(ts) /\ log'[j] = AbortsOf(ts)[j - Len(log)]
        <3>1. PICK x \in {AbortsOf(ts)} : TRUE
            OBVIOUS
        <3>2. x \in Seq(Entry) /\ Len(x) = Len(ts) /\ log' = log \o x /\ log \in Seq(Entry)
            BY <1>8, <1>a, <2>1, <2>2
        <3>3. /\ Len(log \o x) = Len(log) + Len(x)
              /\ \A j \in 1 .. Len(log) : (log \o x)[j] = log[j]
              /\ \A j \in Len(log) + 1 .. Len(log) + Len(x) : j - Len(log) \in 1 .. Len(x) /\ (log \o x)[j] = x[j - Len(log)]
            BY <3>2, Longer
        <3> QED
            BY <3>2, <3>3
    <2>4. \A j \in Len(log) + 1 .. Len(log) + Len(ts) : DOMAIN log'[j].img = {}
        <3>1. \A j \in Len(log) + 1 .. Len(log) + Len(ts) : log'[j] = Abort(ts[j - Len(log)])
            BY <2>2, <2>3
        <3>2. \A t : Abort(t).img = NoImages
            BY DEF Abort
        <3> QED
            BY <3>1, <3>2, SomeImages
    <2>5. ASSUME NEW i \in 1 .. Len(log'), NEW p \in DOMAIN log'[i].img, Young(log[i].img[p])' PROVE Pending(i, p)'
        <3>1. i \in 1 .. Len(log) \/ i \in Len(log) + 1 .. Len(log) + Len(ts)
            BY <1>a, <2>1, <2>3
        <3> QED
            BY <1>8, <1>c, <2>3, <2>4, <2>5, <3>1
    <2> QED
        BY <2>5 DEF YoungPending
<1>9. ASSUME AbortFails, Open' PROVE YoungPending'
    <2>1. inTx /\ dtx # <<>> /\ poisoned' /\ UNCHANGED <<inTx, dtx, undo>>
        BY <1>9, <1>a DEF AbortFails, GuardClosed, Open, Nesting, txv, undov, guardv
    <2>2. PICK k \in 0 .. Len(dtx) - 1 : log' = log \o AbortsOf(SubSeq(dtx, 1, k))
        BY <1>9 DEF AbortFails
    <2>3. PICK ts \in Seq(Nat) : ts = SubSeq(dtx, 1, k)
        <3>1. Len(dtx) \in Nat
            BY <1>a, LenProperties
        <3>2. k \in Int /\ \A j \in 1 .. k : dtx[j] \in Nat
            BY <1>a, <3>1, ElementOfSeq
        <3>3. SubSeq(dtx, 1, k) \in Seq(Nat)
            BY <3>2, SubSeqProperties
        <3> QED
            BY <3>3
    <2>4. AbortsOf(ts) \in Seq(Entry) /\ \A j \in 1 .. Len(AbortsOf(ts)) : AbortsOf(ts)[j].kind # "fence"
        <3>1. AbortsOf(ts) \in Seq(Entry) /\ Len(ts) \in Nat /\ DOMAIN ts = 1 .. Len(ts)
            BY <1>a, SomeImages, Entries, LenProperties
        <3>2. Len(AbortsOf(ts)) = Len(ts) /\ \A j \in 1 .. Len(ts) : AbortsOf(ts)[j] = Abort(ts[j])
            BY <3>1 DEF AbortsOf
        <3>3. \A t : Abort(t).kind = "abort"
            BY DEF Abort
        <3> QED
            BY <3>1, <3>2, <3>3
    <2>5. ASSUME NEW i \in 1 .. Len(log), NEW p \in DOMAIN log[i].img, Pending(i, p), log'[i] = log[i], i \in 1 .. Len(log')
          PROVE Pending(i, p)'
        <3>1. CASE Voided(log, i)
            <4>1. Voided(log', i)
                BY <1>a, <2>2, <2>3, <2>4, <3>1, Stays
            <4> QED
                BY <2>5, <4>1 DEF Pending
        <3>2. CASE Outstanding(log[i].tx) /\ NoFence(log, i, Len(log))
            <4>1. NoFence(log', i, Len(log'))
                BY <1>a, <2>2, <2>3, <2>4, <3>2, NoFenceOn
            <4>2. Outstanding(log[i].tx)'
                BY <2>1, <2>5, <3>2 DEF Outstanding
            <4> QED
                BY <2>1, <2>5, <4>1, <4>2 DEF Pending
        <3> QED
            BY <2>1, <2>5, <3>1, <3>2 DEF Pending
    <2> QED
        BY <1>8, <2>2, <2>3, <2>5
<1>10. ASSUME RestoreFails, Open' PROVE YoungPending'
    <2>1. Idle /\ ~poisoned /\ log' = log \o AbortsOf(dtx)
        BY <1>10 DEF RestoreFails, MayFail
    <2>2. ASSUME NEW i \in 1 .. Len(log), NEW p \in DOMAIN log[i].img, Pending(i, p), log'[i] = log[i], i \in 1 .. Len(log')
          PROVE Pending(i, p)'
        <3>1. Voided(log, i) \/ (Outstanding(log[i].tx) /\ NoFence(log, i, Len(log)))
            BY <2>1, <2>2 DEF Pending
        <3>2. CASE Voided(log, i)
            <4>1. AbortsOf(dtx) \in Seq(Entry)
                BY <1>a, SomeImages, Entries
            <4>2. Voided(log', i)
                BY <1>a, <2>1, <3>2, <4>1, Stays
            <4> QED
                BY <2>2, <4>2 DEF Pending
        <3>3. CASE Outstanding(log[i].tx) /\ NoFence(log, i, Len(log))
            <4>1. PICK j \in 1 .. Len(dtx) : dtx[j] = log[i].tx
                BY <3>3 DEF Outstanding
            <4>2. Voided(log', i)
                BY <1>a, <2>1, <3>3, <4>1, AbortVoids
            <4> QED
                BY <2>2, <4>2 DEF Pending
        <3> QED
            BY <3>1, <3>2, <3>3
    <2>3. PICK ts \in Seq(Nat) : ts = dtx
        BY <1>a
    <2> QED
        BY <1>8, <2>1, <2>2, <2>3
<1>11. ASSUME Savepoint \/ \E i \in DOMAIN saves : ReleaseSavepoint(i) PROVE YoungPending'
    <2>1. UNCHANGED <<log, dtx, poisoned, inTx, pc>>
        BY <1>11 DEF Savepoint, ReleaseSavepoint, walv, callv
    <2>2. undo' = undo \/ undo' = Baseline
        BY <1>11 DEF Savepoint, ReleaseSavepoint, undov
    <2>3. Recorded(undo) \subseteq Recorded(undo')
        <3>1. {} \in SUBSET Page
            OBVIOUS
        <3> QED
            BY <1>a, <2>2, <3>1, RecordedGrows
    <2> QED
        BY <1>d, <2>1, <2>3, PendingSame DEF Idle
<1>12. ASSUME NEW k \in DOMAIN saves, RollbackTo(k) PROVE YoungPending'
    <2>1. Idle /\ inTx /\ RestoreTo(saves[k].mark) /\ UNCHANGED <<inTx, pc, poisoned>>
        BY <1>12 DEF RollbackTo, callv
    <2>2. k \in 1 .. Len(saves) /\ saves[k] \in Level /\ Under(undo, saves[k], Top) /\ Under(undo, Root, saves[k])
        BY <1>a, Levels DEF Stacked
    <2>3. PICK s \in Level : s = saves[k]
        BY <2>2
    <2>4. \A p \in Page : s.base[p] \in Used
        BY <1>a, <2>2, <2>3 DEF Dated
    <2> QED
        BY <2>1, <2>2, <2>3, <2>4, BackPending
<1>13. ASSUME GuardBegin PROVE YoungPending'
    <2>1. log' = log /\ dtx' = dtx /\ poisoned' = poisoned /\ inTx' = inTx /\ pc' = pc /\ guard = "none"
        BY <1>13 DEF GuardBegin, walv, txv, callv
    <2>2. CASE inTx
        <3>1. undo' = Baseline
            BY <1>13, <2>2 DEF GuardBegin
        <3>2. {} \in SUBSET Page
            OBVIOUS
        <3>3. Recorded(undo) \subseteq Recorded(undo')
            BY <1>a, <3>1, <3>2, RecordedGrows
        <3> QED
            BY <1>d, <2>1, <3>3, PendingSame DEF Idle
    <2>3. CASE ~inTx
        BY <1>d, <2>1, <2>3 DEF Open
    <2> QED
        BY <2>2, <2>3
<1>14. ASSUME GuardOk PROVE YoungPending'
    <2>1. guard' = "none" /\ inTx' = inTx
        BY <1>14 DEF GuardOk, GuardClosed, txv
    <2>2. CASE guard = "tx"
        <3>1. UNCHANGED <<log, dtx, poisoned, undo, pc>>
            BY <1>14, <2>2 DEF GuardOk, undov
        <3> QED
            BY <1>d, <2>1, <3>1, PendingSame DEF Idle
    <2>3. CASE guard # "tx"
        <3>1. guard = "auto"
            BY <1>14, <2>3 DEF GuardOk
        <3> QED
            BY <1>1, <1>a, <2>1, <3>1 DEF Nesting, Open
    <2> QED
        BY <2>2, <2>3
<1>15. ASSUME GuardFails PROVE YoungPending'
    <2>1. Idle /\ guard' = "none" /\ inTx' = inTx /\ poisoned' = poisoned
        BY <1>15 DEF GuardFails, GuardClosed, txv
    <2>2. CASE guard = "tx"
        <3>1. RestoreTo(gsave.mark) /\ pc' = pc /\ inTx
            BY <1>15, <1>a, <2>2 DEF GuardFails, Nesting
        <3>2. gsave \in Level /\ Under(undo, gsave, Top) /\ Under(undo, Root, gsave)
            BY <1>a, <2>2 DEF Stacked, Shapes
        <3>3. PICK s \in Level : s = gsave
            BY <3>2
        <3>4. \A p \in Page : s.base[p] \in Used
            BY <1>a, <3>3 DEF Dated
        <3> QED
            BY <2>1, <3>1, <3>2, <3>3, <3>4, BackPending
    <2>3. CASE guard # "tx"
        <3>1. guard = "auto"
            BY <1>15, <2>3 DEF GuardFails
        <3> QED
            BY <1>1, <1>a, <2>1, <3>1 DEF Nesting, Open
    <2> QED
        BY <2>2, <2>3
<1>16. ASSUME UnitBegin \/ UnitEnd \/ SyncPending PROVE ~Open'
    <2>1. guard = "none" /\ UNCHANGED <<inTx, guard>>
        BY <1>16 DEF UnitBegin, UnitEnd, SyncPending, txv, guardv
    <2>2. ~inTx
        BY <1>16, <1>a DEF UnitBegin, UnitEnd, SyncPending, Calls
    <2> QED
        BY <2>1, <2>2 DEF Open
<1>17. ASSUME FsyncOk \/ FsyncFails \/ \E p \in Page : FlushPage(p) PROVE YoungPending'
    <2>1. UNCHANGED <<log, dtx, inTx, undo>>
        BY <1>17 DEF FsyncOk, FsyncFails, FlushPage, walv, txv, undov
    <2>2. (poisoned => poisoned') /\ (poisoned' \/ ~Idle')
        BY <1>17 DEF FsyncOk, FsyncFails, FlushPage, walv, callv, Idle
    <2> QED
        BY <1>d, <2>1, <2>2, PendingSame
<1>18. ASSUME FlushDone PROVE ~Open'
    <2>1. guard' = "none" /\ (inTx => then = "commit") /\ (then = "commit" => inTx' = FALSE) /\ (~inTx => ~inTx')
        BY <1>18, <1>a DEF FlushDone, Nesting, Calls, Idle, EndTx, guardv, txv
    <2> QED
        BY <1>a, <2>1 DEF Open
<1>19. ASSUME Truncate \/ CrashRecover PROVE log' = <<>>
    BY <1>19 DEF Truncate, CrashRecover
<1> QED
    BY <1>1, <1>2, <1>3, <1>4, <1>5, <1>6, <1>7, <1>9, <1>10, <1>11, <1>12, <1>13, <1>14, <1>15, <1>16, <1>17,
       <1>18, <1>19 DEF Next

-----------------------------------------------------------------------------
(* The theorems                                                            *)

\* The states the file is opened in satisfy the undo stack's invariant
\* (Pager::open).
LEMMA InitGood ==
    Init => Good
<1> SUFFICES ASSUME Init PROVE Good
    OBVIOUS
<1>1. Shapes
    BY ShapesInit
<1>2. Nesting
    BY DEF Init, Nesting, Idle, NoImages
<1>3. Len(<<>>) = 0 /\ \A i \in 1 .. 0 : FALSE
    OBVIOUS
<1>4. Stacked
    BY <1>3 DEF Init, Stacked
<1> QED
    BY <1>1, <1>2, <1>4 DEF Good

\* The inductive invariant holds: in the log, what was rolled back is voided
\* or overwritten for good, and what is open still can be
\* (Wal::abort_deferred, restore_transaction).
THEOREM FatesInvariant ==
    Spec => []FInv
<1>1. Init => FInv
    <2> SUFFICES ASSUME Init PROVE FInv
        OBVIOUS
    <2>1. "txGuardFail" \notin Features => Good
        BY InitGood
    <2>2. Fates
        <3>1. Len(<<>>) = 0 /\ \A i \in 1 .. 0 : FALSE
            OBVIOUS
        <3>2. /\ log = <<>> /\ dtx = <<>> /\ saves = <<>> /\ tick = 0 /\ since = 0 /\ dead = {} /\ DOMAIN staged = {}
              /\ db = Zero /\ base = Zero /\ gsave.base = Zero /\ surv = [p \in Page |-> {0}]
              /\ inTx = FALSE /\ guard = "none" /\ \A p \in Page : Zero[p] = 0
            BY SomeImages DEF Init, NoSave, Zero
        <3>3. 0 \in Used
            BY <3>2 DEF Used
        <3>4. Dated
            BY <3>1, <3>2, <3>3 DEF Dated
        <3>5. Calls /\ Clean
            BY <3>1, <3>2 DEF Calls, Clean, Open
        <3> QED
            BY <3>1, <3>2, <3>4, <3>5 DEF Fates, DeadBuried, YoungPending
    <2> QED
        BY <2>1, <2>2 DEF FInv
<1>2. FInv /\ IInv' /\ [Next]_vars => FInv'
    <2> SUFFICES ASSUME FInv, IInv', [Next]_vars, ("txGuardFail" \notin Features)' PROVE Good' /\ Fates'
        BY DEF FInv
    <2>0. Good'
        BY DEF IInv
    <2>1. CASE Next
        <3>1. setup' = setup
            BY <2>1 DEF Next, StmtDeferred, StmtSync, Begin, CommitTx, Rollback, AbortFails, RestoreFails,
                MayFail, Savepoint, ReleaseSavepoint, RollbackTo, GuardBegin, GuardOk, GuardFails, UnitBegin,
                UnitEnd, SyncPending, FsyncOk, FsyncFails, FlushPage, FlushDone, Truncate, CrashRecover, runv
        <3>2. Good /\ Fates /\ "txGuardFail" \notin Features
            BY <3>1 DEF FInv, Features
        <3>3. Calls'
            BY <2>1, <3>2, CallsKept DEF Fates
        <3> QED
            BY <2>0, <2>1, <3>2, <3>3, OutsideKept, DeadBuriedKept, YoungPendingKept DEF Fates
    <2>2. CASE UNCHANGED vars
        <3>1. UNCHANGED <<log, dtx, poisoned, db, queue, surv, undo, inTx, base, saves, guard, gsave, unit,
                          staged, pc, then, tick, setup, since, dead>>
            BY <2>2 DEF vars, walv, pagev, undov, txv, guardv, unitv, callv, runv, fates
        <3>2. Fates
            BY <3>1 DEF FInv, Features
        <3>3. Dated' /\ Calls' /\ Clean'
            BY <3>1, <3>2 DEF Fates, Dated, Used, Calls, Clean, Idle, Open, Young, Lasting
        <3>4. DeadBuried' /\ YoungPending'
            BY <3>1, <3>2 DEF Fates, DeadBuried, YoungPending, Buried, Pending, Shadowed, Shadows, Outstanding, Idle,
                Open, Young, Lasting
        <3> QED
            BY <2>0, <3>3, <3>4 DEF Fates
    <2> QED
        BY <2>1, <2>2
<1> QED
    BY <1>1, <1>2, Invariant, PTL DEF Spec

\* A transaction or guarded statement whose rollback succeeded never comes
\* back, whatever failed before or fails later, unless the restore of a guarded
\* statement fails inside a transaction (Wal::abort_deferred, DeferredSet::abort,
\* Pager::recover).
THEOREM RolledBackStaysGone ==
    Spec => []("txGuardFail" \notin Features => NoResurrection)
<1>1. FInv => ("txGuardFail" \notin Features => NoResurrection)
    BY Recovers DEF FInv, NoResurrection
<1> QED
    BY <1>1, FatesInvariant, PTL

-----------------------------------------------------------------------------
(* What recovery yields: its inductive invariant                           *)

\* Entry i of log l would be replayed if a fence came next.
Kept(l, i) ==
    \/ l[i].kind = "commit"
    \/ l[i].kind = "deferred" /\ \A j \in i + 1 .. Len(l) : ~AbortAt(l, i, j)

\* The entries with an image of page p that recovery replays, now and after a
\* fence.
Hits(l, p) == {i \in 1 .. Len(l) : p \in DOMAIN l[i].img /\ Replayed(l, i)}
KeptHits(l, p) == {i \in 1 .. Len(l) : p \in DOMAIN l[i].img /\ Kept(l, i)}

\* The last of the entries S gives page p image v, and if there is none the
\* file, which may hold the images old, does.
Shows(l, S, p, old, v) ==
    /\ \A c \in S : (\A j \in S : j <= c) => l[c].img[p] = v
    /\ S = {} => old \subseteq {v}

\* The images a synchronous commit in progress leads to; those an open
\* transaction or guarded statement started from.
Now == Override(db, staged)
Start == IF inTx THEN base ELSE gsave.base

\* A fence would make the present durable.
Present == ~poisoned => \A p \in Page : Shows(log, KeptHits(log, p), p, surv[p], Now[p])

\* Without one, recovery takes an open transaction or guarded statement back
\* to its start.
Past ==
    ~AsyncCommit /\ ~poisoned /\ Idle /\ Open =>
        \A p \in Page : Shows(log, Hits(log, p), p, surv[p], Start[p])

\* The deferred commits outstanding are those a fence would add, and none is
\* fenced already.
Books ==
    /\ \A i \in 1 .. Len(log) : log[i].kind = "deferred" /\ Outstanding(log[i].tx) => NoFence(log, i, Len(log))
    /\ \A p \in Page : \A i \in KeptHits(log, p) : i \in Hits(log, p) \/ Outstanding(log[i].tx)
    /\ \A p \in Page : surv[p] # {}

\* When deferred commits can be outstanding, and who waits for their fsync.
Waiting ==
    /\ ~broken /\ unit \in 0 .. 1
    /\ poisoned => dtx # <<>>
    /\ dtx # <<>> => Idle /\ pendingSync /\ queue # {}
    /\ ~AsyncCommit /\ ~Open /\ unit = 0 /\ ~poisoned => dtx = <<>>
    /\ guard = "auto" => ~AsyncCommit /\ unit = 1 /\ (Recorded(undo) # {} => pendingSync)
    /\ AsyncCommit /\ ~inTx /\ unit = 0 => Now \in legal
    /\ pc = "flush" => synced = Len(log)
    /\ AsyncCommit => Idle \/ then = "pending"

\* A power failure that keeps at least n entries of log l, with the file
\* holding images among s, leaves one of S.
Ends(l, n, s, S) ==
    \A k \in n .. Len(l) : \A d \in Pages : (\A p \in Page : d[p] \in s[p]) => RecoverFrom(SubSeq(l, 1, k), d) \in S

\* Together, where Recoverable is promised.
Lasts == Ends(log, synced, surv, legal) /\ Present /\ Books
RInv == Regular => Lasts /\ Past /\ Waiting

-----------------------------------------------------------------------------
(* Replayed entries of a growing log                                       *)

\* Log l is the beginning of log m.
Begins(l, m) == Len(l) <= Len(m) /\ \A i \in 1 .. Len(l) : m[i] = l[i]

\* Deferred commits and aborts of what is not fenced change nothing that
\* recovery replays.
LEMMA Quiet ==
    ASSUME NEW l \in Seq(Entry), NEW m \in Seq(Entry), Begins(l, m),
           \A j \in Len(l) + 1 .. Len(m) :
              /\ m[j].kind \in {"deferred", "abort"}
              /\ m[j].kind = "abort" => \A i \in 1 .. Len(l) : l[i].kind = "deferred" /\ Replayed(l, i) => l[i].tx # m[j].tx
    PROVE \A p : Hits(m, p) = Hits(l, p)
<1>a. Len(l) \in Nat /\ Len(m) \in Nat /\ Len(l) <= Len(m) /\ \A i \in 1 .. Len(l) : i \in 1 .. Len(m) /\ m[i] = l[i]
    BY LenProperties DEF Begins
<1>1. ASSUME NEW i \in Len(l) + 1 .. Len(m) PROVE ~Replayed(m, i)
    <2>1. \A j \in i + 1 .. Len(m) : j \in Len(l) + 1 .. Len(m)
        BY <1>a
    <2> QED
        BY <2>1 DEF Replayed
<1>2. ASSUME NEW i \in 1 .. Len(l) PROVE Replayed(m, i) <=> Replayed(l, i)
    <2>1. \A j : j \in i + 1 .. Len(m) <=> (j \in i + 1 .. Len(l) \/ j \in Len(l) + 1 .. Len(m))
        BY <1>a
    <2>2. \A j \in i + 1 .. Len(l) : j \in 1 .. Len(l)
        BY <1>a
    <2>3. ASSUME NEW j \in Len(l) + 1 .. Len(m) PROVE m[j].kind # "fence"
        OBVIOUS
    <2>4. CASE Replayed(l, i)
        <3>1. l[i].kind = "deferred" => \A j \in Len(l) + 1 .. Len(m) : ~(m[j].kind = "abort" /\ m[j].tx = l[i].tx)
            BY <2>4
        <3> QED
            BY <1>a, <2>1, <2>2, <2>4, <3>1 DEF Replayed
    <2>5. CASE Replayed(m, i)
        BY <1>a, <2>1, <2>2, <2>3, <2>5 DEF Replayed
    <2> QED
        BY <2>4, <2>5
<1>3. \A i : i \in 1 .. Len(m) <=> (i \in 1 .. Len(l) \/ i \in Len(l) + 1 .. Len(m))
    BY <1>a
<1> QED
    BY <1>a, <1>1, <1>2, <1>3 DEF Hits

\* A fence makes recovery replay what is kept.
LEMMA Fenced ==
    ASSUME NEW l \in Seq(Entry), NEW m \in Seq(Entry), Begins(l, m), Len(m) = Len(l) + 1,
           m[Len(l) + 1].kind = "fence", DOMAIN m[Len(l) + 1].img = {}
    PROVE \A p : Hits(m, p) = KeptHits(l, p) /\ KeptHits(m, p) = KeptHits(l, p)
<1>a. Len(l) \in Nat /\ \A i \in 1 .. Len(l) : i \in 1 .. Len(m) /\ m[i] = l[i]
    BY LenProperties DEF Begins
<1>1. ASSUME NEW i \in 1 .. Len(l) PROVE (Replayed(m, i) <=> Kept(l, i)) /\ (Kept(m, i) <=> Kept(l, i))
    <2>1. \A j : j \in i + 1 .. Len(m) <=> (j \in i + 1 .. Len(l) \/ j = Len(l) + 1)
        BY <1>a
    <2>2. \A j \in i + 1 .. Len(l) : j \in 1 .. Len(l)
        BY <1>a
    <2> QED
        BY <1>a, <2>1, <2>2 DEF Replayed, Kept, AbortAt
<1>2. \A i : i \in 1 .. Len(m) <=> (i \in 1 .. Len(l) \/ i = Len(l) + 1)
    BY <1>a
<1> QED
    BY <1>a, <1>1, <1>2 DEF Hits, KeptHits

\* Entries S of log l with the next one, which holds images img, for page p.
Plus(S, l, img, p) == S \cup (IF p \in DOMAIN img THEN {Len(l) + 1} ELSE {})

\* A commit, deferred or not, is kept, and a synchronous one is replayed.
LEMMA Committed ==
    ASSUME NEW l \in Seq(Entry), NEW m \in Seq(Entry), Begins(l, m), Len(m) = Len(l) + 1,
           m[Len(l) + 1].kind = "commit" \/ m[Len(l) + 1].kind = "deferred", NEW img \in Image, m[Len(l) + 1].img = img
    PROVE \A p : /\ KeptHits(m, p) = Plus(KeptHits(l, p), l, img, p)
                 /\ m[Len(l) + 1].kind = "commit" =>
                       Hits(m, p) = Plus(Hits(l, p), l, img, p)
<1>a. Len(l) \in Nat /\ \A i \in 1 .. Len(l) : i \in 1 .. Len(m) /\ m[i] = l[i]
    BY LenProperties DEF Begins
<1>1. ASSUME NEW i \in 1 .. Len(l)
      PROVE (Kept(m, i) <=> Kept(l, i)) /\ (m[Len(l) + 1].kind = "commit" => (Replayed(m, i) <=> Replayed(l, i)))
    <2>1. \A j : j \in i + 1 .. Len(m) <=> (j \in i + 1 .. Len(l) \/ j = Len(l) + 1)
        BY <1>a
    <2>2. \A j \in i + 1 .. Len(l) : j \in 1 .. Len(l)
        BY <1>a
    <2> QED
        BY <1>a, <2>1, <2>2 DEF Replayed, Kept, AbortAt
<1>2. Kept(m, Len(l) + 1) /\ (m[Len(l) + 1].kind = "commit" => Replayed(m, Len(l) + 1))
    <2>1. \A j \in (Len(l) + 1) + 1 .. Len(m) : FALSE
        BY <1>a
    <2> QED
        BY <2>1 DEF Kept, Replayed
<1>3. \A i : i \in 1 .. Len(m) <=> (i \in 1 .. Len(l) \/ i = Len(l) + 1)
    BY <1>a
<1> QED
    BY <1>a, <1>1, <1>2, <1>3 DEF Hits, KeptHits, Plus

\* Aborting every deferred commit that is not fenced keeps what is replayed.
LEMMA Aborted ==
    ASSUME NEW l \in Seq(Entry), NEW m \in Seq(Entry), Begins(l, m),
           \A j \in Len(l) + 1 .. Len(m) : m[j].kind = "abort"
    PROVE \A p : /\ KeptHits(m, p) \subseteq KeptHits(l, p)
                 /\ (\A i \in KeptHits(l, p) : l[i].kind = "deferred" =>
                        (i \in Hits(l, p) <=> \A j \in Len(l) + 1 .. Len(m) : m[j].tx # l[i].tx))
                    => KeptHits(m, p) = Hits(l, p)
<1>a. Len(l) \in Nat /\ Len(m) \in Nat /\ Len(l) <= Len(m) /\ \A i \in 1 .. Len(l) : i \in 1 .. Len(m) /\ m[i] = l[i]
    BY LenProperties DEF Begins
<1>1. \A i \in Len(l) + 1 .. Len(m) : ~Kept(m, i)
    BY DEF Kept
<1>2. ASSUME NEW i \in 1 .. Len(l)
      PROVE /\ Kept(m, i) => Kept(l, i)
            /\ Replayed(l, i) => Kept(l, i)
            /\ l[i].kind = "deferred" /\ Kept(l, i) => (Kept(m, i) <=> \A j \in Len(l) + 1 .. Len(m) : m[j].tx # l[i].tx)
            /\ l[i].kind = "commit" => Kept(m, i) /\ Replayed(l, i)
            /\ Kept(l, i) => l[i].kind \in {"commit", "deferred"}
    <2>1. \A j : j \in i + 1 .. Len(m) <=> (j \in i + 1 .. Len(l) \/ j \in Len(l) + 1 .. Len(m))
        BY <1>a
    <2>2. \A j \in i + 1 .. Len(l) : j \in 1 .. Len(l)
        BY <1>a
    <2>3. Replayed(l, i) => Kept(l, i)
        BY DEF Replayed, Kept, AbortAt
    <2>4. Kept(m, i) => Kept(l, i)
        BY <1>a, <2>1, <2>2 DEF Kept, AbortAt
    <2>5. ASSUME l[i].kind = "deferred", Kept(l, i)
          PROVE Kept(m, i) <=> \A j \in Len(l) + 1 .. Len(m) : m[j].tx # l[i].tx
        BY <1>a, <2>1, <2>2, <2>5 DEF Kept, AbortAt
    <2>6. l[i].kind = "commit" => Kept(m, i) /\ Replayed(l, i)
        BY <1>a DEF Kept, Replayed
    <2>7. Kept(l, i) => l[i].kind \in {"commit", "deferred"}
        BY DEF Kept
    <2> QED
        BY <2>3, <2>4, <2>5, <2>6, <2>7
<1>3. \A i : i \in 1 .. Len(m) <=> (i \in 1 .. Len(l) \/ i \in Len(l) + 1 .. Len(m))
    BY <1>a
<1>4. ASSUME NEW p PROVE KeptHits(m, p) \subseteq KeptHits(l, p)
    BY <1>a, <1>1, <1>2, <1>3 DEF KeptHits
<1>5. ASSUME NEW p, \A i \in KeptHits(l, p) : l[i].kind = "deferred" =>
                        (i \in Hits(l, p) <=> \A j \in Len(l) + 1 .. Len(m) : m[j].tx # l[i].tx)
      PROVE KeptHits(m, p) = Hits(l, p)
    <2>1. ASSUME NEW i \in 1 .. Len(l), p \in DOMAIN l[i].img PROVE Kept(m, i) <=> Replayed(l, i)
        <3>1. CASE Kept(l, i)
            <4>1. i \in KeptHits(l, p) /\ (i \in Hits(l, p) <=> Replayed(l, i))
                BY <2>1, <3>1 DEF KeptHits, Hits
            <4> QED
                BY <1>2, <1>5, <3>1, <4>1
        <3>2. CASE ~Kept(l, i)
            BY <1>2, <3>2
        <3> QED
            BY <3>1, <3>2
    <2> QED
        BY <1>a, <1>1, <1>3, <2>1 DEF Hits, KeptHits
<1> QED
    BY <1>4, <1>5


-----------------------------------------------------------------------------
(* The images recovery yields                                              *)

\* Entries of a longer log show the same images.
LEMMA ShowsOn ==
    ASSUME NEW l, NEW m, Begins(l, m), NEW S \in SUBSET (1 .. Len(l)), NEW p, NEW old, NEW v, Shows(l, S, p, old, v)
    PROVE Shows(m, S, p, old, v)
BY DEF Shows, Begins

\* One more entry at the end gives its own image.
LEMMA ShowsNext ==
    ASSUME NEW l \in Seq(Entry), NEW m \in Seq(Entry), Begins(l, m), Len(m) = Len(l) + 1,
           NEW S \in SUBSET (1 .. Len(l)), NEW img, m[Len(l) + 1].img = img, NEW p, NEW old, NEW v, Shows(l, S, p, old, v)
    PROVE Shows(m, Plus(S, l, img, p), p, old, IF p \in DOMAIN img THEN img[p] ELSE v)
<1>b. Len(l) \in Nat /\ \A i \in 1 .. Len(l) : m[i] = l[i]
    BY LenProperties DEF Begins
<1>c. \A i \in 1 .. Len(l) : i < Len(l) + 1
    BY <1>b
<1>a. Len(l) \in Nat /\ \A i \in S : i \in 1 .. Len(l) /\ m[i] = l[i] /\ i < Len(l) + 1
    BY <1>b, <1>c
<1>1. CASE p \in DOMAIN img
    <2> DEFINE T == S \cup {Len(l) + 1}
    <2>1. ASSUME NEW c \in T, \A j \in T : j <= c PROVE m[c].img[p] = img[p]
        <3>1. c = Len(l) + 1
            BY <1>a, <2>1
        <3> QED
            BY <3>1
    <2> QED
        BY <1>1, <2>1 DEF Shows, Plus
<1>2. CASE p \notin DOMAIN img
    BY <1>a, <1>2 DEF Shows, Plus
<1> QED
    BY <1>1, <1>2

\* Entries show one image.
LEMMA ShowsOne ==
    ASSUME NEW l \in Seq(Entry), NEW S \in SUBSET (1 .. Len(l)), NEW p, NEW old, old # {}, NEW v, NEW w,
           Shows(l, S, p, old, v), Shows(l, S, p, old, w)
    PROVE v = w
<1>1. CASE S = {}
    BY <1>1 DEF Shows
<1>2. CASE S # {}
    <2>1. Len(l) \in Nat /\ S \in SUBSET (0 .. Len(l))
        BY LenProperties
    <2>2. PICK c \in S : \A j \in S : j <= c
        BY <1>2, <2>1, GreatestOf
    <2> QED
        BY <2>2 DEF Shows
<1> QED
    BY <1>1, <1>2

\* Recovery yields the images the replayed entries show.
LEMMA RecoverShows ==
    ASSUME NEW l \in Seq(Entry), NEW d, NEW v \in Pages, \A p \in Page : Shows(l, Hits(l, p), p, {d[p]}, v[p])
    PROVE RecoverFrom(l, d) = v
<1> DEFINE r == RecoverFrom(l, d)
<1>1. ASSUME NEW p \in Page PROVE r[p] = v[p]
    <2> DEFINE hits == {i \in 1 .. Len(l) : p \in DOMAIN l[i].img /\ Replayed(l, i)}
    <2>0. hits = Hits(l, p)
        BY DEF Hits
    <2>1. CASE hits = {}
        <3>1. r[p] = d[p]
            BY <2>1 DEF RecoverFrom
        <3> QED
            BY <2>0, <2>1, <3>1 DEF Shows
    <2>2. CASE hits # {}
        <3>1. Len(l) \in Nat /\ hits \in SUBSET (0 .. Len(l))
            BY LenProperties
        <3>2. \E i \in hits : \A j \in hits : j <= i
            BY <2>2, <3>1, GreatestOf
        <3> DEFINE c == CHOOSE i \in hits : \A j \in hits : j <= i
        <3>3. c \in hits /\ \A j \in hits : j <= c
            BY <3>2
        <3>4. r[p] = l[c].img[p]
            BY <2>2 DEF RecoverFrom
        <3> HIDE DEF c, hits, r
        <3> QED
            BY <2>0, <3>3, <3>4 DEF Shows
    <2> QED
        BY <2>1, <2>2
<1>2. r = [p \in Page |-> r[p]] /\ v = [p \in Page |-> v[p]]
    BY DEF RecoverFrom, Pages
<1> QED
    BY <1>1, <1>2

\* Recovery from two logs that replay the same entries.
LEMMA RecoverSame ==
    ASSUME NEW l \in Seq(Entry), NEW m \in Seq(Entry), Begins(l, m), \A p : Hits(m, p) = Hits(l, p), NEW d
    PROVE RecoverFrom(m, d) = RecoverFrom(l, d)
<1>1. ASSUME NEW p \in Page PROVE RecoverFrom(m, d)[p] = RecoverFrom(l, d)[p]
    <2> DEFINE S == Hits(l, p)
    <2>1. S = {i \in 1 .. Len(l) : p \in DOMAIN l[i].img /\ Replayed(l, i)}
          /\ S = {i \in 1 .. Len(m) : p \in DOMAIN m[i].img /\ Replayed(m, i)}
        BY DEF Hits
    <2> DEFINE hl == {i \in 1 .. Len(l) : p \in DOMAIN l[i].img /\ Replayed(l, i)}
               hm == {i \in 1 .. Len(m) : p \in DOMAIN m[i].img /\ Replayed(m, i)}
    <2>a. /\ RecoverFrom(l, d)[p] = IF hl = {} THEN d[p] ELSE l[CHOOSE i \in hl : \A j \in hl : j <= i].img[p]
          /\ RecoverFrom(m, d)[p] = IF hm = {} THEN d[p] ELSE m[CHOOSE i \in hm : \A j \in hm : j <= i].img[p]
        BY DEF RecoverFrom
    <2>b. hl = S /\ hm = S
        BY <2>1
    <2> HIDE DEF hl, hm, S
    <2>2. /\ RecoverFrom(l, d)[p] = IF S = {} THEN d[p] ELSE l[CHOOSE i \in S : \A j \in S : j <= i].img[p]
          /\ RecoverFrom(m, d)[p] = IF S = {} THEN d[p] ELSE m[CHOOSE i \in S : \A j \in S : j <= i].img[p]
        BY <2>a, <2>b
    <2>3. CASE S # {}
        <3>1. Len(l) \in Nat /\ S \in SUBSET (0 .. Len(l)) /\ S \in SUBSET (1 .. Len(l))
            BY LenProperties DEF Hits, S
        <3>2. \E i \in S : \A j \in S : j <= i
            BY <2>3, <3>1, GreatestOf
        <3> DEFINE c == CHOOSE i \in S : \A j \in S : j <= i
        <3>3. c \in S
            BY <3>2
        <3>4. m[c] = l[c]
            BY <3>1, <3>3 DEF Begins
        <3> QED
            BY <2>2, <2>3, <3>4
    <2> QED
        BY <2>2, <2>3
<1>2. RecoverFrom(m, d) = [p \in Page |-> RecoverFrom(m, d)[p]] /\ RecoverFrom(l, d) = [p \in Page |-> RecoverFrom(l, d)[p]]
    BY DEF RecoverFrom
<1> QED
    BY <1>1, <1>2

\* Prefixes of a log, and of a longer one.
LEMMA Prefixes ==
    ASSUME NEW m \in Seq(Entry), NEW k \in 0 .. Len(m)
    PROVE /\ SubSeq(m, 1, k) \in Seq(Entry) /\ Len(SubSeq(m, 1, k)) = k /\ \A i \in 1 .. k : SubSeq(m, 1, k)[i] = m[i]
          /\ SubSeq(m, 1, Len(m)) = m
          /\ \A l \in Seq(Entry) : Begins(l, m) /\ k <= Len(l) => SubSeq(l, 1, k) = SubSeq(m, 1, k)
<1>a. Len(m) \in Nat
    BY LenProperties
<1>1. SubSeq(m, 1, k) \in Seq(Entry) /\ Len(SubSeq(m, 1, k)) = k /\ \A i \in 1 .. k : SubSeq(m, 1, k)[i] = m[i]
    BY <1>a
<1>2. SubSeq(m, 1, Len(m)) = m
    <2>1. SubSeq(m, 1, Len(m)) \in Seq(Entry) /\ Len(SubSeq(m, 1, Len(m))) = Len(m)
          /\ \A i \in 1 .. Len(m) : SubSeq(m, 1, Len(m))[i] = m[i]
        BY <1>a
    <2> QED
        BY <2>1, SeqEqual
<1>3. ASSUME NEW l \in Seq(Entry), Begins(l, m), k <= Len(l) PROVE SubSeq(l, 1, k) = SubSeq(m, 1, k)
    <2>1. SubSeq(l, 1, k) \in Seq(Entry) /\ Len(SubSeq(l, 1, k)) = k /\ \A i \in 1 .. k : SubSeq(l, 1, k)[i] = l[i] /\ m[i] = l[i]
        <3>1. Len(l) \in Nat /\ k \in Nat /\ k \in 0 .. Len(l) /\ \A i \in 1 .. k : i \in 1 .. Len(l)
            BY <1>3, LenProperties
        <3> QED
            BY <1>3, <3>1 DEF Begins
    <2> QED
        BY <1>1, <2>1, SeqEqual
<1> QED
    BY <1>1, <1>2, <1>3

-----------------------------------------------------------------------------
(* What a power failure may leave                                          *)

\* What a power failure now may lead to.
LEMMA EndsIs ==
    ASSUME NEW l, NEW n, NEW s \in [Page -> SUBSET Value], NEW S
    PROVE LET D == {d \in [Page -> UNION {s[p] : p \in Page}] : \A p \in Page : d[p] \in s[p]}
          IN  {RecoverFrom(SubSeq(l, 1, k), d) : k \in n .. Len(l), d \in D} \subseteq S <=> Ends(l, n, s, S)
<1> DEFINE D == {d \in [Page -> UNION {s[p] : p \in Page}] : \A p \in Page : d[p] \in s[p]}
<1>1. \A d : d \in D <=> d \in Pages /\ \A p \in Page : d[p] \in s[p]
    <2>1. ASSUME NEW d \in D PROVE d \in Pages /\ \A p \in Page : d[p] \in s[p]
        BY <2>1 DEF Pages
    <2>2. ASSUME NEW d \in Pages, \A p \in Page : d[p] \in s[p] PROVE d \in D
        <3>1. \A p \in Page : d[p] \in UNION {s[q] : q \in Page}
            BY <2>2
        <3> QED
            BY <2>2, <3>1 DEF Pages
    <2> QED
        BY <2>1, <2>2
<1> HIDE DEF D
<1>2. {RecoverFrom(SubSeq(l, 1, k), d) : k \in n .. Len(l), d \in D} \subseteq S <=> Ends(l, n, s, S)
    BY <1>1 DEF Ends
<1> QED
    BY <1>2 DEF D

\* A log that grows by entries that change nothing, or up to images that are
\* allowed.
LEMMA EndsGrow ==
    ASSUME NEW l \in Seq(Entry), NEW m \in Seq(Entry), Begins(l, m), NEW n \in 0 .. Len(l),
           NEW s \in [Page -> SUBSET Value], NEW S, NEW T, S \subseteq T, Ends(l, n, s, S),
           \A k \in Len(l) + 1 .. Len(m) :
              \/ \A p : Hits(SubSeq(m, 1, k), p) = Hits(l, p)
              \/ \E v \in Pages \cap T : \A p \in Page : Shows(SubSeq(m, 1, k), Hits(SubSeq(m, 1, k), p), p, s[p], v[p])
    PROVE Ends(m, n, s, T)
<1>a. Len(l) \in Nat /\ Len(m) \in Nat /\ Len(l) <= Len(m) /\ \A i \in 1 .. Len(l) : m[i] = l[i]
    BY LenProperties DEF Begins
<1>b. \A d \in Pages : \A k \in n .. Len(l) : (\A p \in Page : d[p] \in s[p]) => RecoverFrom(SubSeq(l, 1, k), d) \in S
    BY DEF Ends
<1>1. ASSUME NEW k \in n .. Len(m), NEW d \in Pages, \A p \in Page : d[p] \in s[p]
      PROVE RecoverFrom(SubSeq(m, 1, k), d) \in T
    <2> DEFINE mk == SubSeq(m, 1, k)
    <2>0. k \in 0 .. Len(m)
        BY <1>a
    <2>1. CASE k <= Len(l)
        <3>1. k \in n .. Len(l) /\ SubSeq(l, 1, k) = SubSeq(m, 1, k)
            BY <1>a, <2>0, <2>1, Prefixes
        <3> QED
            BY <1>1, <1>b, <3>1
    <2>2. CASE ~(k <= Len(l))
        <3>1. k \in Len(l) + 1 .. Len(m)
            BY <1>a, <2>2
        <3>2. mk \in Seq(Entry) /\ Len(mk) = k /\ \A i \in 1 .. k : mk[i] = m[i]
            BY <2>0, Prefixes
        <3> HIDE DEF mk
        <3>3. CASE \A p : Hits(mk, p) = Hits(l, p)
            <4>1. Begins(l, mk)
                BY <1>a, <3>1, <3>2 DEF Begins
            <4>2. RecoverFrom(mk, d) = RecoverFrom(l, d)
                BY <3>2, <3>3, <4>1, RecoverSame
            <4>3. Len(l) \in n .. Len(l) /\ SubSeq(l, 1, Len(l)) = l
                <5>1. Len(l) \in 0 .. Len(l)
                    BY <1>a
                <5> QED
                    BY <1>a, <5>1, Prefixes
            <4>4. RecoverFrom(l, d) \in S
                BY <1>1, <1>b, <4>3
            <4> QED
                BY <4>2, <4>4 DEF mk
        <3>4. CASE \E v \in Pages \cap T : \A p \in Page : Shows(mk, Hits(mk, p), p, s[p], v[p])
            <4>1. PICK v \in Pages \cap T : \A p \in Page : Shows(mk, Hits(mk, p), p, s[p], v[p])
                BY <3>4
            <4>2. \A p \in Page : Shows(mk, Hits(mk, p), p, {d[p]}, v[p])
                BY <1>1, <4>1 DEF Shows
            <4>3. RecoverFrom(mk, d) = v
                BY <3>2, <4>2, RecoverShows
            <4> QED
                BY <4>3 DEF mk
        <3> QED
            BY <3>1, <3>3, <3>4 DEF mk
    <2> QED
        BY <2>1, <2>2
<1> QED
    BY <1>1 DEF Ends

\* A log that recovery replays to images that are allowed.
LEMMA EndsAt ==
    ASSUME NEW l \in Seq(Entry), NEW s, NEW v \in Pages, NEW T, v \in T,
           \A p \in Page : Shows(l, Hits(l, p), p, s[p], v[p])
    PROVE Ends(l, Len(l), s, T)
<1>a. Len(l) \in Nat /\ Len(l) \in 0 .. Len(l)
    BY LenProperties
<1>1. SubSeq(l, 1, Len(l)) = l
    BY <1>a, Prefixes
<1>2. ASSUME NEW d \in Pages, \A p \in Page : d[p] \in s[p] PROVE RecoverFrom(l, d) = v
    <2>1. \A p \in Page : Shows(l, Hits(l, p), p, {d[p]}, v[p])
        BY <1>2 DEF Shows
    <2> QED
        BY <2>1, RecoverShows
<1>3. \A k \in Len(l) .. Len(l) : k = Len(l)
    BY <1>a
<1> QED
    BY <1>1, <1>2, <1>3 DEF Ends

\* The images the whole log yields are allowed.
LEMMA Reached ==
    ASSUME NEW l \in Seq(Entry), NEW n \in 0 .. Len(l), NEW s \in [Page -> SUBSET Value], NEW S, Ends(l, n, s, S),
           \A p \in Page : s[p] # {}, NEW v \in Pages, \A p \in Page : Shows(l, Hits(l, p), p, s[p], v[p])
    PROVE v \in S
<1>a. Len(l) \in Nat /\ Len(l) \in 0 .. Len(l) /\ Len(l) \in n .. Len(l)
    BY LenProperties
<1> DEFINE d == [p \in Page |-> CHOOSE x \in s[p] : TRUE]
<1>1. d \in Pages /\ \A p \in Page : d[p] \in s[p]
    <2>1. \A p \in Page : d[p] \in s[p]
        OBVIOUS
    <2> QED
        BY <2>1 DEF Pages
<1> HIDE DEF d
<1>2. \A p \in Page : Shows(l, Hits(l, p), p, {d[p]}, v[p])
    BY <1>1 DEF Shows
<1>3. RecoverFrom(l, d) = v
    BY <1>2, RecoverShows
<1>4. SubSeq(l, 1, Len(l)) = l
    BY <1>a, Prefixes
<1> QED
    BY <1>1, <1>3, <1>4, <1>a DEF Ends

\* A log with one more entry.
LEMMA OneMore ==
    ASSUME NEW l \in Seq(Entry), NEW e \in Entry
    PROVE /\ l \o <<e>> \in Seq(Entry) /\ Len(l \o <<e>>) = Len(l) + 1 /\ (l \o <<e>>)[Len(l) + 1] = e
          /\ Begins(l, l \o <<e>>)
<1> DEFINE x == <<e>>
           m == l \o x
<1>1. x \in Seq(Entry) /\ Len(x) = 1 /\ x[1] = e
    OBVIOUS
<1> HIDE DEF x
<1>2. /\ Len(l) \in Nat /\ m \in Seq(Entry) /\ Len(m) = Len(l) + Len(x) /\ \A j \in 1 .. Len(l) : m[j] = l[j]
      /\ \A j \in Len(l) + 1 .. Len(l) + Len(x) : m[j] = x[j - Len(l)]
    BY <1>1, Longer
<1> HIDE DEF m
<1>3. Len(l) + 1 \in Len(l) + 1 .. Len(l) + Len(x) /\ (Len(l) + 1) - Len(l) = 1 /\ Len(l) <= Len(l) + 1
    BY <1>1, <1>2
<1>4. m[Len(l) + 1] = e
    BY <1>1, <1>2, <1>3
<1>5. Begins(l, m)
    BY <1>1, <1>2, <1>3 DEF Begins
<1> QED
    BY <1>1, <1>2, <1>4, <1>5 DEF m, x

\* The new prefix of a log with one more entry is the log itself.
LEMMA LastPrefix ==
    ASSUME NEW l \in Seq(Entry), NEW m \in Seq(Entry), Len(m) = Len(l) + 1, NEW k \in Len(l) + 1 .. Len(m)
    PROVE SubSeq(m, 1, k) = m
<1>1. Len(l) \in Nat /\ k = Len(m) /\ Len(m) \in 0 .. Len(m)
    BY LenProperties
<1> QED
    BY <1>1, Prefixes

\* A deferred commit changes nothing that recovery yields, and is kept.
LEMMA Deferral ==
    ASSUME NEW l \in Seq(Entry), NEW t \in Nat, NEW img \in Image, NEW m \in Seq(Entry), m = l \o <<Deferred(t, img)>>
    PROVE /\ Begins(l, m) /\ Len(m) = Len(l) + 1 /\ m[Len(l) + 1] = Deferred(t, img)
          /\ \A p : Hits(m, p) = Hits(l, p) /\ KeptHits(m, p) = Plus(KeptHits(l, p), l, img, p)
<1>1. Deferred(t, img) \in Entry /\ Deferred(t, img).kind = "deferred" /\ Deferred(t, img).img = img
    BY DEF Deferred, Entry
<1>2. Len(m) = Len(l) + 1 /\ m[Len(l) + 1] = Deferred(t, img) /\ Begins(l, m) /\ Len(l) \in Nat
    BY <1>1, OneMore, LenProperties
<1>3. \A p : Hits(m, p) = Hits(l, p)
    <2>1. \A j \in Len(l) + 1 .. Len(m) : m[j].kind = "deferred"
        BY <1>1, <1>2
    <2> QED
        BY <1>2, <2>1, Quiet
<1>4. \A p : KeptHits(m, p) = Plus(KeptHits(l, p), l, img, p)
    <2>1. /\ m[Len(l) + 1].kind = "commit" \/ m[Len(l) + 1].kind = "deferred"
          /\ m[Len(l) + 1].img = img
        BY <1>1, <1>2
    <2>2. \A p : /\ KeptHits(m, p) = Plus(KeptHits(l, p), l, img, p)
                 /\ m[Len(l) + 1].kind = "commit" => Hits(m, p) = Plus(Hits(l, p), l, img, p)
        BY <1>2, <2>1, Committed, Zenon
    <2> QED
        BY <2>2
<1> QED
    BY <1>2, <1>3, <1>4

\* Entries kept show the images of one more over those before.
LEMMA KeptShows ==
    ASSUME NEW l \in Seq(Entry), NEW img \in Image, NEW m \in Seq(Entry), Begins(l, m), Len(m) = Len(l) + 1,
           m[Len(l) + 1].img = img, NEW K \in SUBSET (1 .. Len(l)), NEW p \in Page, NEW old, NEW v \in Pages,
           Shows(l, K, p, old, v[p])
    PROVE Shows(m, Plus(K, l, img, p), p, old, Override(v, img)[p])
<1>1. Override(v, img)[p] = IF p \in DOMAIN img THEN img[p] ELSE v[p]
    BY DEF Override
<1>2. Shows(m, Plus(K, l, img, p), p, old, IF p \in DOMAIN img THEN img[p] ELSE v[p])
    BY ShowsNext
<1> QED
    BY <1>1, <1>2

\* Where nothing changes for recovery, what it may yield stays.
LEMMA QuietEnds ==
    ASSUME NEW l \in Seq(Entry), NEW m \in Seq(Entry), Begins(l, m), Len(m) = Len(l) + 1, \A p : Hits(m, p) = Hits(l, p),
           NEW n \in 0 .. Len(l), NEW s \in [Page -> SUBSET Value], NEW S, Ends(l, n, s, S)
    PROVE Ends(m, n, s, S)
<1>1. \A k \in Len(l) + 1 .. Len(m) : \A p : Hits(SubSeq(m, 1, k), p) = Hits(l, p)
    BY LastPrefix
<1> QED
    BY <1>1, EndsGrow

\* Where recovery yields one more state, that one must be allowed.
LEMMA NewEnds ==
    ASSUME NEW l \in Seq(Entry), NEW m \in Seq(Entry), Begins(l, m), Len(m) = Len(l) + 1,
           NEW n \in 0 .. Len(l), NEW s \in [Page -> SUBSET Value], NEW S, Ends(l, n, s, S), NEW T, S \subseteq T,
           NEW v \in Pages, v \in T, \A p \in Page : Shows(m, Hits(m, p), p, s[p], v[p])
    PROVE Ends(m, n, s, T)
<1>1. \A k \in Len(l) + 1 .. Len(m) : SubSeq(m, 1, k) = m
    BY LastPrefix
<1>2. \A k \in Len(l) + 1 .. Len(m) : \E w \in Pages \cap T :
         \A p \in Page : Shows(SubSeq(m, 1, k), Hits(SubSeq(m, 1, k), p), p, s[p], w[p])
    BY <1>1
<1>3. \A k \in Len(l) + 1 .. Len(m) :
          \/ \A p : Hits(SubSeq(m, 1, k), p) = Hits(l, p)
          \/ \E w \in Pages \cap T : \A p \in Page : Shows(SubSeq(m, 1, k), Hits(SubSeq(m, 1, k), p), p, s[p], w[p])
    BY <1>2, Zenon
<1> QED
    BY <1>3, EndsGrow, Zenon

\* A fence makes the present durable.
LEMMA Fencing ==
    ASSUME NEW l \in Seq(Entry), NEW m \in Seq(Entry), m = l \o <<Fence>>
    PROVE /\ Begins(l, m) /\ Len(m) = Len(l) + 1
          /\ \A p : Hits(m, p) = KeptHits(l, p) /\ KeptHits(m, p) = KeptHits(l, p)
          /\ \A p, old, v : Shows(l, KeptHits(l, p), p, old, v) => Shows(m, KeptHits(l, p), p, old, v)
<1>1. Fence \in Entry /\ Fence.kind = "fence" /\ DOMAIN Fence.img = {}
    BY SomeImages DEF Fence, Entry
<1>2. Len(m) = Len(l) + 1 /\ m[Len(l) + 1] = Fence /\ Begins(l, m)
    BY <1>1, OneMore
<1>3. \A p : Hits(m, p) = KeptHits(l, p) /\ KeptHits(m, p) = KeptHits(l, p)
    BY <1>1, <1>2, Fenced
<1>4. ASSUME NEW p, NEW old, NEW v, Shows(l, KeptHits(l, p), p, old, v) PROVE Shows(m, KeptHits(l, p), p, old, v)
    <2>1. KeptHits(l, p) \in SUBSET (1 .. Len(l))
        BY DEF KeptHits
    <2> QED
        BY <1>2, <1>4, <2>1, ShowsOn
<1> QED
    BY <1>2, <1>3, <1>4

\* A synchronous commit is kept and replayed.
LEMMA Committing ==
    ASSUME NEW l \in Seq(Entry), NEW t \in Nat, NEW img \in Image, NEW m \in Seq(Entry), m = l \o <<Commit(t, img)>>
    PROVE /\ Begins(l, m) /\ Len(m) = Len(l) + 1 /\ m[Len(l) + 1].img = img
          /\ \A p : KeptHits(m, p) = Plus(KeptHits(l, p), l, img, p) /\ Hits(m, p) = Plus(Hits(l, p), l, img, p)
<1>1. Commit(t, img) \in Entry /\ Commit(t, img).kind = "commit" /\ Commit(t, img).img = img
    BY DEF Commit, Entry
<1>2. Len(m) = Len(l) + 1 /\ m[Len(l) + 1] = Commit(t, img) /\ Begins(l, m)
    BY <1>1, OneMore
<1>3. m[Len(l) + 1].kind = "commit" /\ m[Len(l) + 1].img = img
    BY <1>1, <1>2
<1>4. \A p : /\ KeptHits(m, p) = Plus(KeptHits(l, p), l, img, p)
             /\ m[Len(l) + 1].kind = "commit" => Hits(m, p) = Plus(Hits(l, p), l, img, p)
    BY <1>2, <1>3, Committed
<1> QED
    BY <1>2, <1>3, <1>4

\* Aborts of deferred commits that are not fenced change nothing that recovery
\* yields.
LEMMA AbortEnds ==
    ASSUME NEW l \in Seq(Entry), NEW m \in Seq(Entry), Begins(l, m),
           \A j \in Len(l) + 1 .. Len(m) :
              m[j].kind = "abort" /\ \A i \in 1 .. Len(l) : l[i].kind = "deferred" /\ Replayed(l, i) => l[i].tx # m[j].tx,
           NEW n \in 0 .. Len(l), NEW s \in [Page -> SUBSET Value], NEW S, Ends(l, n, s, S)
    PROVE Ends(m, n, s, S) /\ \A p : Hits(m, p) = Hits(l, p)
<1>0. Len(l) \in Nat /\ Len(m) \in Nat /\ Len(l) <= Len(m) /\ \A i \in 1 .. Len(l) : m[i] = l[i]
    BY LenProperties DEF Begins
<1>5. ASSUME NEW k \in Len(l) .. Len(m) PROVE \A p : Hits(SubSeq(m, 1, k), p) = Hits(l, p)
    <2> DEFINE mk == SubSeq(m, 1, k)
    <2>0. k \in 0 .. Len(m) /\ k \in Nat
        BY <1>0
    <2>1. mk \in Seq(Entry) /\ Len(mk) = k /\ \A i \in 1 .. k : mk[i] = m[i]
        BY <2>0, Prefixes
    <2> HIDE DEF mk
    <2>2. Begins(l, mk)
        <3>1. \A i \in 1 .. Len(l) : i \in 1 .. k
            BY <1>0, <2>0
        <3> QED
            BY <1>0, <2>0, <2>1, <3>1 DEF Begins
    <2>3. \A j \in Len(l) + 1 .. Len(mk) : j \in Len(l) + 1 .. Len(m) /\ mk[j] = m[j]
        BY <1>0, <2>0, <2>1
    <2>4. \A j \in Len(l) + 1 .. Len(mk) :
              /\ mk[j].kind \in {"deferred", "abort"}
              /\ mk[j].kind = "abort" => \A i \in 1 .. Len(l) : l[i].kind = "deferred" /\ Replayed(l, i) => l[i].tx # mk[j].tx
        <3> SUFFICES ASSUME NEW j \in Len(l) + 1 .. Len(mk)
                     PROVE mk[j].kind = "abort" /\ \A i \in 1 .. Len(l) : l[i].kind = "deferred" /\ Replayed(l, i) => l[i].tx # mk[j].tx
            BY Zenon
        <3>1. j \in Len(l) + 1 .. Len(m) /\ mk[j] = m[j]
            BY <2>3
        <3> QED
            BY <3>1, Zenon
    <2>5. \A p : Hits(mk, p) = Hits(l, p)
        BY <2>1, <2>2, <2>4, Quiet
    <2> QED
        BY <2>5 DEF mk
<1>6. \A p : Hits(m, p) = Hits(l, p)
    <2>1. Len(m) \in Len(l) .. Len(m) /\ Len(m) \in 0 .. Len(m)
        BY <1>0
    <2>2. SubSeq(m, 1, Len(m)) = m
        BY <2>1, Prefixes
    <2> QED
        BY <1>5, <2>1, <2>2
<1>7. Ends(m, n, s, S)
    <2>1. \A k \in Len(l) + 1 .. Len(m) : k \in Len(l) .. Len(m)
        BY <1>0
    <2> QED
        BY <1>5, <2>1, EndsGrow
<1> QED
    BY <1>6, <1>7

\* The aborts of transactions ts.
LEMMA AbortsAre ==
    ASSUME NEW l \in Seq(Entry), NEW ts \in Seq(Nat)
    PROVE LET m == l \o AbortsOf(ts)
          IN  /\ m \in Seq(Entry) /\ Begins(l, m) /\ Len(m) = Len(l) + Len(ts)
              /\ \A j \in Len(l) + 1 .. Len(m) : m[j].kind = "abort" /\ j - Len(l) \in 1 .. Len(ts) /\ m[j].tx = ts[j - Len(l)]
<1> DEFINE x == AbortsOf(ts)
           m == l \o x
<1>0. Len(ts) \in Nat /\ DOMAIN ts = 1 .. Len(ts) /\ \A k \in 1 .. Len(ts) : ts[k] \in Nat
    BY LenProperties, ElementOfSeq
<1>1. x \in Seq(Entry) /\ Len(x) = Len(ts) /\ \A k \in 1 .. Len(ts) : x[k].kind = "abort" /\ x[k].tx = ts[k]
    <2>1. \A k \in 1 .. Len(ts) : Abort(ts[k]) \in Entry
        BY <1>0, SomeImages DEF Abort, Entry
    <2>2. x = [k \in 1 .. Len(ts) |-> Abort(ts[k])]
        BY <1>0 DEF AbortsOf
    <2>3. x \in Seq(Entry)
        <3> HIDE DEF x
        <3> QED
            BY <1>0, <2>1, <2>2, IsASeq
    <2> QED
        BY <1>0, <2>2, <2>3 DEF Abort
<1> HIDE DEF x
<1>2. /\ Len(l) \in Nat /\ m \in Seq(Entry) /\ Len(m) = Len(l) + Len(x) /\ \A j \in 1 .. Len(l) : m[j] = l[j]
      /\ \A j \in Len(l) + 1 .. Len(l) + Len(x) : j - Len(l) \in 1 .. Len(x) /\ m[j] = x[j - Len(l)]
    BY <1>1, Longer
<1> HIDE DEF m
<1>3. Begins(l, m)
    BY <1>0, <1>1, <1>2 DEF Begins
<1>4. ASSUME NEW j \in Len(l) + 1 .. Len(m)
      PROVE m[j].kind = "abort" /\ j - Len(l) \in 1 .. Len(ts) /\ m[j].tx = ts[j - Len(l)]
    <2>1. j \in Len(l) + 1 .. Len(l) + Len(x) /\ j - Len(l) \in 1 .. Len(ts) /\ m[j] = x[j - Len(l)]
        BY <1>1, <1>2
    <2> QED
        BY <1>1, <2>1
<1> QED
    BY <1>1, <1>2, <1>3, <1>4 DEF m, x

-----------------------------------------------------------------------------
(* Kinds of steps                                                          *)

\* Writing nothing over pages.
LEMMA Blank ==
    ASSUME NEW d \in Pages, NEW g, DOMAIN g = {}
    PROVE Override(d, g) = d
<1>1. d = [p \in Page |-> d[p]]
    BY DEF Pages
<1>2. Override(d, g) = [p \in Page |-> d[p]]
    BY DEF Override
<1> QED
    BY <1>1, <1>2

\* The log, the file and the present.
LEMMA Standing ==
    ASSUME Good, Books
    PROVE /\ log \in Seq(Entry) /\ Len(log) \in Nat /\ synced \in 0 .. Len(log) /\ dtx \in Seq(Nat) /\ Len(dtx) \in Nat
          /\ surv \in [Page -> SUBSET Value] /\ db \in Pages /\ tick \in Nat /\ staged \in Image
          /\ Now \in Pages /\ (pc # "fsync" => DOMAIN staged = {} /\ Now = db)
          /\ \A p \in Page : Hits(log, p) \subseteq KeptHits(log, p) /\ KeptHits(log, p) \in SUBSET (1 .. Len(log))
          /\ dtx = <<>> => \A p \in Page : Hits(log, p) = KeptHits(log, p)
<1>1. /\ log \in Seq(Entry) /\ Len(log) \in Nat /\ synced \in 0 .. Len(log) /\ dtx \in Seq(Nat) /\ Len(dtx) \in Nat
      /\ surv \in [Page -> SUBSET Value] /\ db \in Pages /\ tick \in Nat /\ staged \in Image
    BY LenProperties DEF Good, Shapes
<1>2. pc # "fsync" => DOMAIN staged = {}
    BY DEF Good, Nesting
<1>3. Now \in Pages /\ (pc # "fsync" => Now = db)
    BY <1>1, <1>2, OverrideIs, Blank DEF Now
<1>4. \A p \in Page : Hits(log, p) \subseteq KeptHits(log, p) /\ KeptHits(log, p) \in SUBSET (1 .. Len(log))
    <2>1. \A i \in 1 .. Len(log) : Replayed(log, i) => Kept(log, i)
        BY DEF Replayed, Kept, AbortAt
    <2> QED
        BY <2>1 DEF Hits, KeptHits
<1>5. ASSUME dtx = <<>>, NEW p \in Page PROVE Hits(log, p) = KeptHits(log, p)
    <2>1. Len(<<>>) = 0 /\ \A j \in 1 .. 0 : FALSE
        OBVIOUS
    <2>2. \A t : ~Outstanding(t)
        BY <1>5, <2>1 DEF Outstanding
    <2>3. \A i \in KeptHits(log, p) : i \in Hits(log, p)
        BY <2>2 DEF Books
    <2> QED
        BY <1>4, <2>3
<1> QED
    BY <1>1, <1>2, <1>3, <1>4, <1>5

\* The log, the file and the present stay as they are.
LEMMA StillKept ==
    ASSUME Lasts, UNCHANGED <<log, synced, dtx, surv, poisoned>>, Now' = Now, legal \subseteq legal'
    PROVE Lasts'
<1>1. Ends(log', synced', surv', legal')
    BY DEF Lasts, Ends
<1>2. Present'
    <2>1. Now' = Now /\ log' = log /\ surv' = surv /\ poisoned' = poisoned /\ Present
        BY DEF Lasts
    <2> QED
        BY <2>1 DEF Present
<1>3. Books'
    BY DEF Lasts, Books, Outstanding
<1> QED
    BY <1>1, <1>2, <1>3 DEF Lasts

\* A deferred commit is appended.
Adds(img) ==
    /\ log' = log \o <<Deferred(tick + 1, img)>> /\ dtx' = Append(dtx, tick + 1) /\ db' = Override(db, img)
    /\ UNCHANGED <<synced, surv, poisoned, staged>> /\ legal \subseteq legal'

\* A deferred commit is not replayed yet, and a fence would replay it.
LEMMA AddsKept ==
    ASSUME Good, Dated, Lasts, NEW img \in Image, Idle, ~poisoned, Adds(img)
    PROVE Lasts' /\ \A p \in Page : \A v : Shows(log, Hits(log, p), p, surv[p], v) => Shows(log', Hits(log', p), p, surv'[p], v)
<1>a. Books /\ Present /\ Ends(log, synced, surv, legal)
    BY DEF Lasts
<1>b. /\ log \in Seq(Entry) /\ Len(log) \in Nat /\ synced \in 0 .. Len(log) /\ dtx \in Seq(Nat) /\ Len(dtx) \in Nat
      /\ surv \in [Page -> SUBSET Value] /\ db \in Pages /\ tick \in Nat /\ DOMAIN staged = {} /\ Now = db
      /\ \A p \in Page : Hits(log, p) \subseteq KeptHits(log, p) /\ KeptHits(log, p) \in SUBSET (1 .. Len(log))
    BY <1>a, Standing DEF Idle
<1> DEFINE n == Len(log)
<1>1. PICK l \in Seq(Entry), m \in Seq(Entry), t \in Nat : l = log /\ m = log' /\ t = tick + 1 /\ m = l \o <<Deferred(t, img)>>
    <2>1. log' = log \o <<Deferred(tick + 1, img)>> /\ tick + 1 \in Nat
        BY <1>b DEF Adds
    <2>2. log' \in Seq(Entry)
        BY <1>b, <2>1, Entries, OneMore
    <2> QED
        BY <1>b, <2>1, <2>2
<1>2. /\ Begins(l, m) /\ Len(m) = Len(l) + 1 /\ m[Len(l) + 1] = Deferred(t, img)
      /\ \A p : Hits(m, p) = Hits(l, p) /\ KeptHits(m, p) = Plus(KeptHits(l, p), l, img, p)
    <2>1. m = l \o <<Deferred(t, img)>>
        BY <1>1
    <2> QED
        BY <2>1, Deferral
<1>3. Deferred(t, img).kind = "deferred" /\ Deferred(t, img).tx = t /\ Deferred(t, img).img = img
    BY DEF Deferred
<1>c. n \in Nat /\ Len(m) = n + 1 /\ n = Len(l) /\ m[n + 1] = Deferred(t, img)
    BY <1>b, <1>1, <1>2
<1>4. Ends(log', synced', surv', legal')
    <2>1. PICK k \in 0 .. Len(l), s \in [Page -> SUBSET Value], S \in {legal} : k = synced /\ s = surv /\ S = legal
        BY <1>b, <1>1
    <2>2. Ends(l, k, s, S)
        BY <1>a, <1>1, <2>1
    <2>3. Ends(m, k, s, S)
        BY <1>2, <2>2, QuietEnds
    <2>4. synced' = k /\ surv' = s /\ S \subseteq legal' /\ log' = m
        BY <1>1, <2>1 DEF Adds
    <2> QED
        BY <2>3, <2>4 DEF Ends
<1>5. PICK w \in Pages : w = db
    BY <1>b
<1>6. Now' = Override(w, img)
    <2>1. Override(w, img) \in Pages
        BY OverrideIs
    <2>2. Override(Override(w, img), staged) = Override(w, img)
        BY <1>b, <2>1, Blank
    <2>3. db' = Override(w, img) /\ staged' = staged
        BY <1>5 DEF Adds
    <2> QED
        BY <2>2, <2>3 DEF Now
<1>7. ASSUME NEW p \in Page PROVE Shows(m, KeptHits(m, p), p, surv[p], Override(w, img)[p])
    <2>1. PICK K \in SUBSET (1 .. Len(l)) : K = KeptHits(l, p)
        BY DEF KeptHits
    <2>2. Shows(l, K, p, surv[p], w[p])
        BY <1>a, <1>b, <1>1, <1>5, <2>1 DEF Present
    <2>3. Shows(m, Plus(K, l, img, p), p, surv[p], Override(w, img)[p])
        BY <1>2, <1>3, <2>2, KeptShows
    <2> QED
        BY <1>2, <2>1, <2>3
<1>8. Present'
    <2>1. surv' = surv /\ log' = m
        BY <1>1 DEF Adds
    <2> QED
        BY <1>6, <1>7, <2>1 DEF Present
<1>9. /\ \A i \in 1 .. n : m[i] = log[i] /\ m[i].tx # t
      /\ \A i \in 1 .. n + 1 : i \in 1 .. n \/ i = n + 1
    <2>1. \A i \in 1 .. n : m[i] = log[i] /\ log[i] \in Entry
        BY <1>1, <1>2, ElementOfSeq DEF Begins
    <2>2. \A i \in 1 .. n : log[i].tx \in Nat /\ log[i].tx <= tick
        BY <2>1 DEF Dated, Entry
    <2> QED
        BY <1>b, <1>c, <1>1, <2>1, <2>2
<1>10. \A x : (\E j \in 1 .. Len(dtx') : dtx'[j] = x) <=> Outstanding(x) \/ x = t
    <2>1. dtx' = Append(dtx, t)
        BY <1>1 DEF Adds
    <2>2. Len(dtx') = Len(dtx) + 1 /\ (\A j \in 1 .. Len(dtx) : dtx'[j] = dtx[j]) /\ dtx'[Len(dtx) + 1] = t
        BY <1>b, <2>1
    <2>3. \A j : j \in 1 .. Len(dtx) + 1 <=> j \in 1 .. Len(dtx) \/ j = Len(dtx) + 1
        BY <1>b
    <2> QED
        BY <2>2, <2>3 DEF Outstanding
<1>11. ASSUME NEW i \in 1 .. Len(m), m[i].kind = "deferred", \E j \in 1 .. Len(dtx') : dtx'[j] = m[i].tx
       PROVE NoFence(m, i, Len(m))
    <2>1. CASE i \in 1 .. n
        <3>1. Outstanding(log[i].tx) /\ log[i].kind = "deferred"
            BY <1>9, <1>10, <1>11, <2>1
        <3>2. NoFence(log, i, n)
            BY <1>a, <2>1, <3>1 DEF Books
        <3>3. ASSUME NEW j \in i + 1 .. Len(m) PROVE m[j].kind # "fence"
            <4>1. j \in i + 1 .. n \/ j = n + 1
                BY <1>c, <2>1
            <4>2. CASE j \in i + 1 .. n
                <5>1. j \in 1 .. n
                    BY <1>b, <2>1, <4>2
                <5> QED
                    BY <1>9, <3>2, <4>2, <5>1 DEF NoFence
            <4>3. CASE j = n + 1
                BY <1>c, <1>3, <4>3
            <4> QED
                BY <4>1, <4>2, <4>3
        <3> QED
            BY <3>3 DEF NoFence
    <2>2. CASE i = n + 1
        <3>1. \A j \in i + 1 .. Len(m) : FALSE
            BY <1>c, <2>2
        <3> QED
            BY <3>1 DEF NoFence
    <2> QED
        BY <1>c, <1>9, <2>1, <2>2
<1>12. ASSUME NEW p \in Page, NEW i \in KeptHits(m, p)
       PROVE i \in Hits(m, p) \/ \E j \in 1 .. Len(dtx') : dtx'[j] = m[i].tx
    <2>1. i \in KeptHits(log, p) \/ i = n + 1
        BY <1>c, <1>1, <1>2, <1>12 DEF Plus
    <2>2. CASE i \in KeptHits(log, p)
        <3>1. i \in 1 .. n /\ m[i] = log[i]
            BY <1>b, <1>9, <2>2
        <3>2. i \in Hits(log, p) \/ Outstanding(log[i].tx)
            BY <1>a, <2>2 DEF Books
        <3> QED
            BY <1>1, <1>2, <1>10, <3>1, <3>2
    <2>3. CASE i = n + 1
        BY <1>c, <1>3, <1>10, <2>3
    <2> QED
        BY <2>1, <2>2, <2>3
<1>13. Books'
    <2>1. \A p \in Page : surv'[p] # {}
        BY <1>a DEF Books, Adds
    <2>2. log' = m
        BY <1>1
    <2> QED
        BY <1>11, <1>12, <2>1, <2>2 DEF Books, Outstanding
<1>14. ASSUME NEW p \in Page, NEW v, Shows(log, Hits(log, p), p, surv[p], v) PROVE Shows(log', Hits(log', p), p, surv'[p], v)
    <2>1. PICK H \in SUBSET (1 .. Len(l)) : H = Hits(l, p)
        BY DEF Hits
    <2>2. Shows(l, H, p, surv[p], v)
        BY <1>1, <1>14, <2>1
    <2>3. Shows(m, H, p, surv[p], v)
        BY <1>2, <2>2, ShowsOn
    <2>4. surv' = surv /\ log' = m
        BY <1>1 DEF Adds
    <2> QED
        BY <1>2, <2>1, <2>3, <2>4
<1> QED
    BY <1>4, <1>8, <1>13, <1>14 DEF Lasts

\* Nothing is outstanding after a step, and a fence would add nothing.
LEMMA Booked ==
    ASSUME dtx' = <<>>, \A p \in Page : KeptHits(log', p) \subseteq Hits(log', p), \A p \in Page : surv'[p] # {}
    PROVE Books'
<1>1. Len(<<>>) = 0 /\ \A j \in 1 .. 0 : FALSE
    OBVIOUS
<1> QED
    BY <1>1 DEF Books, Outstanding

\* The outstanding deferred commits are fenced.
Fences ==
    /\ log' = log \o FenceOf(dtx) /\ dtx' = <<>>
    /\ UNCHANGED <<synced, surv, poisoned, staged, db>> /\ legal \subseteq legal' /\ db \in legal'

\* A fence makes recovery yield the present.
LEMMA FencesKept ==
    ASSUME Good, Lasts, Idle, ~poisoned, Fences
    PROVE Lasts'
<1>a. Books /\ Present /\ Ends(log, synced, surv, legal)
    BY DEF Lasts
<1>b. /\ log \in Seq(Entry) /\ synced \in 0 .. Len(log) /\ surv \in [Page -> SUBSET Value] /\ db \in Pages /\ Now = db
    BY <1>a, Standing DEF Idle
<1>c. Now' = Now
    BY DEF Now, Fences
<1>1. CASE dtx = <<>>
    <2>1. log' = log
        BY <1>b, <1>1, ConcatEmptySeq DEF Fences, FenceOf
    <2>2. UNCHANGED <<log, synced, dtx, surv, poisoned>> /\ legal \subseteq legal'
        BY <1>1, <2>1 DEF Fences
    <2> QED
        BY <1>c, <2>2, StillKept
<1>2. CASE dtx # <<>>
    <2>a. PICK k \in 0 .. Len(log), s \in [Page -> SUBSET Value], S \in {legal}, T \in {legal'} : k = synced /\ s = surv /\ S = legal /\ T = legal'
        BY <1>b
    <2>c. PICK v \in Pages : v = db
        BY <1>b
    <2>b. PICK l \in Seq(Entry), m \in Seq(Entry) : l = log /\ m = log' /\ m = l \o <<Fence>>
        <3>1. log' = log \o <<Fence>> /\ Fence \in Entry
            BY <1>2, SomeImages DEF Fences, FenceOf, Fence, Entry
        <3>2. log' \in Seq(Entry)
            BY <1>b, <3>1, OneMore
        <3> QED
            BY <1>b, <3>1, <3>2
    <2>1. l = log /\ m = log' /\ k = synced /\ s = surv /\ S = legal /\ T = legal' /\ v = db /\ m = l \o <<Fence>>
        BY <2>a, <2>b, <2>c
    <2>2. m = l \o <<Fence>>
        BY <2>1
    <2>3. /\ Begins(l, m) /\ Len(m) = Len(l) + 1
          /\ \A p : Hits(m, p) = KeptHits(l, p) /\ KeptHits(m, p) = KeptHits(l, p)
          /\ \A p, old, w : Shows(l, KeptHits(l, p), p, old, w) => Shows(m, KeptHits(l, p), p, old, w)
        BY <2>2, Fencing
    <2>4. \A p \in Page : Shows(m, KeptHits(l, p), p, s[p], v[p])
        BY <1>a, <1>b, <2>1, <2>3 DEF Present
    <2>5. Ends(m, k, s, T)
        <3>1. Ends(l, k, s, S) /\ S \subseteq T /\ v \in T /\ k \in 0 .. Len(l)
            BY <1>a, <2>1 DEF Fences
        <3>2. \A p \in Page : Shows(m, Hits(m, p), p, s[p], v[p])
            BY <2>3, <2>4
        <3> QED
            BY <2>3, <3>1, <3>2, NewEnds
    <2>6. synced' = k /\ surv' = s /\ log' = m /\ legal' = T /\ dtx' = <<>> /\ Now' = v
        BY <1>b, <1>c, <2>1 DEF Fences
    <2>7. Present'
        BY <2>3, <2>4, <2>6 DEF Present
    <2>8. Books'
        <3>1. \A p \in Page : surv'[p] # {}
            BY <1>a, <2>1, <2>6 DEF Books
        <3> QED
            BY <2>3, <2>6, <3>1, Booked
    <2> QED
        BY <2>5, <2>6, <2>7, <2>8 DEF Lasts
<1> QED
    BY <1>1, <1>2

\* A synchronous commit is appended while nothing is outstanding.
Directly(img) ==
    /\ log' = log \o <<Commit(tick + 1, img)>> /\ dtx' = <<>> /\ staged' = img
    /\ UNCHANGED <<synced, surv, poisoned, db>> /\ legal' = legal \cup {Override(db, img)}

\* A synchronous commit takes effect on recovery when it is in the log.
LEMMA DirectlyKept ==
    ASSUME Good, Lasts, Idle, ~poisoned, dtx = <<>>, NEW img \in Image, Directly(img)
    PROVE Lasts'
<1>a. Books /\ Present /\ Ends(log, synced, surv, legal)
    BY DEF Lasts
<1>b. /\ log \in Seq(Entry) /\ synced \in 0 .. Len(log) /\ surv \in [Page -> SUBSET Value] /\ db \in Pages /\ Now = db
      /\ tick \in Nat /\ \A p \in Page : Hits(log, p) = KeptHits(log, p)
    BY <1>a, Standing DEF Idle
<1>1. PICK l \in Seq(Entry), m \in Seq(Entry), t \in Nat, v \in Pages :
          l = log /\ m = log' /\ t = tick + 1 /\ v = db /\ m = l \o <<Commit(t, img)>>
    <2>1. log' = log \o <<Commit(tick + 1, img)>> /\ tick + 1 \in Nat
        BY <1>b DEF Directly
    <2>2. log' \in Seq(Entry)
        <3>1. Commit(tick + 1, img) \in Entry
            BY <2>1 DEF Commit, Entry
        <3> QED
            BY <1>b, <2>1, <3>1, OneMore
    <2> QED
        BY <1>b, <2>1, <2>2
<1>2. m = l \o <<Commit(t, img)>>
    BY <1>1
<1>3. /\ Begins(l, m) /\ Len(m) = Len(l) + 1 /\ m[Len(l) + 1].img = img
      /\ \A p : KeptHits(m, p) = Plus(KeptHits(l, p), l, img, p) /\ Hits(m, p) = Plus(Hits(l, p), l, img, p)
    BY <1>2, Committing
<1>4. PICK k \in 0 .. Len(l), s \in [Page -> SUBSET Value], S \in {legal}, T \in {legal'} : k = synced /\ s = surv /\ S = legal /\ T = legal'
    BY <1>b, <1>1
<1>5. PICK w \in Pages : w = Override(v, img)
    BY OverrideIs
<1>6. ASSUME NEW p \in Page PROVE KeptHits(m, p) = Hits(m, p) /\ Shows(m, KeptHits(m, p), p, s[p], w[p])
    <2>1. PICK K \in SUBSET (1 .. Len(l)) : K = KeptHits(l, p)
        BY DEF KeptHits
    <2>2. Shows(l, K, p, s[p], v[p])
        BY <1>a, <1>b, <1>1, <1>4, <2>1 DEF Present
    <2>3. Shows(m, Plus(K, l, img, p), p, s[p], Override(v, img)[p])
        BY <1>3, <2>2, KeptShows
    <2>4. Hits(l, p) = K
        BY <1>b, <1>1, <2>1
    <2> QED
        BY <1>3, <1>5, <2>1, <2>3, <2>4
<1>7. Ends(m, k, s, T)
    <2>1. Ends(l, k, s, S) /\ S \subseteq T /\ w \in T
        BY <1>a, <1>1, <1>4, <1>5 DEF Directly
    <2>2. \A p \in Page : Shows(m, Hits(m, p), p, s[p], w[p])
        BY <1>6
    <2> QED
        BY <1>3, <2>1, <2>2, NewEnds
<1>8. synced' = k /\ surv' = s /\ log' = m /\ legal' = T /\ dtx' = <<>> /\ Now' = w
    BY <1>1, <1>4, <1>5 DEF Directly, Now
<1>9. Present'
    BY <1>6, <1>8 DEF Present
<1>10. Books'
    <2>1. \A p \in Page : surv'[p] # {}
        BY <1>a, <1>4, <1>8 DEF Books
    <2> QED
        BY <1>6, <1>8, <2>1, Booked
<1> QED
    BY <1>7, <1>8, <1>9, <1>10 DEF Lasts

\* Aborting what is outstanding changes nothing that recovery yields, and a
\* fence would then add nothing.
LEMMA AbortsQuiet ==
    ASSUME Good, Lasts, NEW ts \in Seq(Nat), \A j \in 1 .. Len(ts) : Outstanding(ts[j])
    PROVE LET m == log \o AbortsOf(ts)
          IN  /\ m \in Seq(Entry) /\ Begins(log, m) /\ Ends(m, synced, surv, legal)
              /\ \A p : Hits(m, p) = Hits(log, p) /\ KeptHits(m, p) \subseteq KeptHits(log, p)
              /\ \A j \in Len(log) + 1 .. Len(m) : m[j].kind = "abort"
              /\ ts = dtx => \A p \in Page : KeptHits(m, p) = Hits(log, p)
<1>a. Books /\ Ends(log, synced, surv, legal)
    BY DEF Lasts
<1>b. log \in Seq(Entry) /\ synced \in 0 .. Len(log) /\ surv \in [Page -> SUBSET Value] /\ Len(log) \in Nat
    BY <1>a, Standing
<1>1. PICK l \in Seq(Entry) : l = log
    BY <1>b
<1>2. PICK k \in 0 .. Len(l), s \in [Page -> SUBSET Value], S \in {legal} : k = synced /\ s = surv /\ S = legal
    BY <1>b, <1>1
<1>3. PICK m \in Seq(Entry) : m = l \o AbortsOf(ts)
    BY AbortsAre
<1>4. /\ Begins(l, m) /\ Len(m) = Len(l) + Len(ts) /\ Len(ts) \in Nat /\ Len(l) \in Nat
      /\ \A j \in Len(l) + 1 .. Len(m) : m[j].kind = "abort" /\ j - Len(l) \in 1 .. Len(ts) /\ m[j].tx = ts[j - Len(l)]
    BY <1>3, AbortsAre, LenProperties
<1>5. ASSUME NEW i \in 1 .. Len(l), l[i].kind = "deferred", Replayed(l, i) PROVE ~Outstanding(l[i].tx)
    <2>1. \E x \in i + 1 .. Len(l) : l[x].kind = "fence"
        BY <1>5 DEF Replayed
    <2>2. ~NoFence(log, i, Len(log))
        BY <1>1, <2>1 DEF NoFence
    <2> QED
        BY <1>a, <1>1, <1>5, <2>2 DEF Books
<1>6. ASSUME NEW j \in Len(l) + 1 .. Len(m)
      PROVE m[j].kind = "abort" /\ \A i \in 1 .. Len(l) : l[i].kind = "deferred" /\ Replayed(l, i) => l[i].tx # m[j].tx
    <2>1. m[j].kind = "abort" /\ Outstanding(m[j].tx)
        BY <1>4
    <2> QED
        BY <1>5, <2>1
<1>7. Ends(l, k, s, S)
    BY <1>a, <1>1, <1>2
<1>8. Ends(m, k, s, S) /\ \A p : Hits(m, p) = Hits(l, p)
    BY <1>4, <1>6, <1>7, AbortEnds
<1>9. \A p : /\ KeptHits(m, p) \subseteq KeptHits(l, p)
             /\ (\A i \in KeptHits(l, p) : l[i].kind = "deferred" =>
                    (i \in Hits(l, p) <=> \A j \in Len(l) + 1 .. Len(m) : m[j].tx # l[i].tx))
                 => KeptHits(m, p) = Hits(l, p)
    BY <1>4, <1>6, Aborted
<1>10. ASSUME ts = dtx, NEW p \in Page PROVE KeptHits(m, p) = Hits(l, p)
    <2>1. ASSUME NEW i \in KeptHits(l, p), l[i].kind = "deferred"
          PROVE i \in Hits(l, p) <=> \A j \in Len(l) + 1 .. Len(m) : m[j].tx # l[i].tx
        <3>0. i \in 1 .. Len(l) /\ (i \in Hits(l, p) => Replayed(l, i))
            BY DEF KeptHits, Hits
        <3>1. CASE i \in Hits(l, p)
            BY <1>6, <2>1, <3>0, <3>1
        <3>2. CASE i \notin Hits(l, p)
            <4>1. Outstanding(l[i].tx)
                BY <1>a, <1>1, <3>2 DEF Books
            <4>2. PICK j \in 1 .. Len(ts) : ts[j] = l[i].tx
                BY <1>10, <4>1 DEF Outstanding
            <4>3. Len(l) + j \in Len(l) + 1 .. Len(m) /\ (Len(l) + j) - Len(l) = j
                BY <1>4
            <4>4. m[Len(l) + j].tx = ts[j]
                BY <1>4, <4>3
            <4> QED
                BY <3>2, <4>2, <4>3, <4>4
        <3> QED
            BY <3>1, <3>2
    <2> QED
        BY <1>9, <2>1, Zenon
<1> QED
    BY <1>1, <1>2, <1>3, <1>4, <1>8, <1>9, <1>10

\* An abort fails after some of its entries; the log is poisoned.
Aborting(ts) ==
    /\ log' = log \o AbortsOf(ts) /\ poisoned' = TRUE /\ UNCHANGED <<synced, dtx, surv>> /\ legal \subseteq legal'

\* What an abort leaves behind changes nothing that recovery yields.
LEMMA AbortingKept ==
    ASSUME Good, Lasts, NEW ts \in Seq(Nat), \A j \in 1 .. Len(ts) : Outstanding(ts[j]), Aborting(ts)
    PROVE Lasts'
<1>a. Books /\ Ends(log, synced, surv, legal)
    BY DEF Lasts
<1>b. Len(log) \in Nat /\ \A p \in Page : KeptHits(log, p) \in SUBSET (1 .. Len(log))
    BY <1>a, Standing
<1>1. PICK m : m = log \o AbortsOf(ts)
    OBVIOUS
<1>2. /\ m \in Seq(Entry) /\ Begins(log, m) /\ Ends(m, synced, surv, legal)
      /\ \A p : Hits(m, p) = Hits(log, p) /\ KeptHits(m, p) \subseteq KeptHits(log, p)
      /\ \A j \in Len(log) + 1 .. Len(m) : m[j].kind = "abort"
    BY <1>1, AbortsQuiet
<1>3. log' = m /\ synced' = synced /\ dtx' = dtx /\ surv' = surv /\ legal \subseteq legal' /\ poisoned'
    BY <1>1 DEF Aborting
<1>4. Ends(log', synced', surv', legal')
    BY <1>2, <1>3 DEF Ends
<1>5. Present'
    BY <1>3 DEF Present
<1>c. Len(m) \in Nat /\ Len(log) <= Len(m) /\ \A i \in 1 .. Len(log) : m[i] = log[i]
    BY <1>2, LenProperties DEF Begins
<1>6. ASSUME NEW i \in 1 .. Len(m), m[i].kind = "deferred", Outstanding(m[i].tx) PROVE NoFence(m, i, Len(m))
    <2>1. i \in 1 .. Len(log)
        <3>1. i \notin Len(log) + 1 .. Len(m)
            BY <1>2, <1>6
        <3> QED
            BY <1>b, <1>c, <3>1
    <2>2. NoFence(log, i, Len(log))
        BY <1>a, <1>c, <1>6, <2>1 DEF Books
    <2>3. ASSUME NEW j \in i + 1 .. Len(m) PROVE m[j].kind # "fence"
        <3>1. (j \in i + 1 .. Len(log) /\ j \in 1 .. Len(log)) \/ j \in Len(log) + 1 .. Len(m)
            BY <1>b, <1>c, <2>1
        <3> QED
            BY <1>2, <1>c, <2>2, <3>1 DEF NoFence
    <2> QED
        BY <2>3 DEF NoFence
<1>7. ASSUME NEW p \in Page, NEW i \in KeptHits(m, p) PROVE i \in Hits(m, p) \/ Outstanding(m[i].tx)
    <2>1. i \in KeptHits(log, p) /\ Hits(m, p) = Hits(log, p)
        BY <1>2
    <2>2. m[i] = log[i]
        BY <1>b, <1>c, <2>1
    <2> QED
        BY <1>a, <2>1, <2>2 DEF Books
<1>8. Books'
    <2>1. \A p \in Page : surv[p] # {}
        BY <1>a DEF Books
    <2> QED
        BY <1>3, <1>6, <1>7, <2>1 DEF Books, Outstanding
<1> QED
    BY <1>4, <1>5, <1>8 DEF Lasts

\* What is open is rolled back: the outstanding deferred commits are aborted
\* and the images there were at the start are written back and fenced.
Backs(img) ==
    /\ log' = ((log \o AbortsOf(dtx)) \o RestoreLog(img)) \o FenceOf(RestoreTx(img)) /\ dtx' = <<>>
    /\ db' = Override(db, img) /\ UNCHANGED <<synced, surv, poisoned, staged>> /\ legal \subseteq legal'

\* Recovery yields the images there were at the start, before and after.
LEMMA BacksKept ==
    ASSUME Good, Lasts, Past, Idle, Open, ~poisoned, ~AsyncCommit, Backs(Undone(undo))
    PROVE Lasts' /\ db' \in legal
<1>a. Books /\ Ends(log, synced, surv, legal)
    BY DEF Lasts
<1>b. /\ log \in Seq(Entry) /\ synced \in 0 .. Len(log) /\ surv \in [Page -> SUBSET Value] /\ db \in Pages
      /\ dtx \in Seq(Nat) /\ tick \in Nat /\ DOMAIN staged = {}
      /\ \A p \in Page : KeptHits(log, p) \in SUBSET (1 .. Len(log)) /\ Hits(log, p) \subseteq KeptHits(log, p)
    BY <1>a, Standing DEF Idle
<1>1. PICK img \in Image, v \in Pages :
          img = Undone(undo) /\ v = Start /\ Override(db, img) = v /\ \A p \in DOMAIN img : p \in Page /\ img[p] = v[p]
    <2>1. base \in Pages /\ gsave.base \in Pages /\ (guard = "auto" => ~inTx)
        BY DEF Good, Shapes, Level, Nesting
    <2>2. /\ Undone(undo) \in Image
          /\ inTx => Override(db, Undone(undo)) = base /\ \A p \in DOMAIN Undone(undo) : p \in Page /\ Undone(undo)[p] = base[p]
          /\ guard = "auto" => /\ Override(db, Undone(undo)) = gsave.base
                               /\ \A p \in DOMAIN Undone(undo) : p \in Page /\ Undone(undo)[p] = gsave.base[p]
        BY WholeRestores
    <2> QED
        BY <2>1, <2>2 DEF Open, Start
<1>2. PICK l \in Seq(Entry), ts \in Seq(Nat) : l = log /\ ts = dtx
    BY <1>b
<1>3. PICK k \in 0 .. Len(l), s \in [Page -> SUBSET Value], S \in {legal}, T \in {legal'} : k = synced /\ s = surv /\ S = legal /\ T = legal'
    BY <1>b, <1>2
<1>4. PICK a \in Seq(Entry) : /\ a = l \o AbortsOf(ts) /\ Begins(l, a) /\ Ends(a, k, s, S)
                              /\ \A p : Hits(a, p) = Hits(l, p)
                              /\ \A p \in Page : KeptHits(a, p) = Hits(l, p)
    <2>1. \A j \in 1 .. Len(dtx) : Outstanding(dtx[j])
        BY DEF Outstanding
    <2> DEFINE m == log \o AbortsOf(dtx)
    <2>2. /\ m \in Seq(Entry) /\ Begins(log, m) /\ Ends(m, synced, surv, legal)
          /\ \A p : Hits(m, p) = Hits(log, p)
          /\ dtx = dtx => \A p \in Page : KeptHits(m, p) = Hits(log, p)
        BY <1>b, <2>1, AbortsQuiet
    <2> HIDE DEF m
    <2> QED
        BY <1>2, <1>3, <2>2 DEF m
<1>5. \A p \in Page : Shows(l, Hits(l, p), p, s[p], v[p]) /\ Hits(l, p) \in SUBSET (1 .. Len(l))
    BY <1>b, <1>1, <1>2, <1>3 DEF Past
<1>6. ASSUME NEW p \in Page PROVE Shows(a, KeptHits(a, p), p, s[p], v[p])
    <2>1. PICK H \in SUBSET (1 .. Len(l)) : H = Hits(l, p) /\ Shows(l, H, p, s[p], v[p])
        BY <1>5
    <2>2. Begins(l, a) /\ KeptHits(a, p) = H
        BY <1>4, <2>1
    <2>3. Shows(a, H, p, s[p], v[p])
        BY <2>1, <2>2, ShowsOn
    <2> QED
        BY <2>2, <2>3
<1>7. v \in S
    <2>1. Ends(l, k, s, S) /\ \A p \in Page : s[p] # {}
        BY <1>a, <1>2, <1>3 DEF Books
    <2> QED
        BY <1>5, <2>1, Reached
<1>8. /\ log' = (a \o RestoreLog(img)) \o FenceOf(RestoreTx(img)) /\ dtx' = <<>> /\ synced' = k /\ surv' = s /\ S \subseteq T
      /\ legal' = T
    BY <1>1, <1>2, <1>3, <1>4 DEF Backs
<1>9. Now' = v /\ db' = v
    <2>1. Override(v, staged) = v
        BY <1>b, Blank
    <2>2. db' = v /\ staged' = staged
        BY <1>1 DEF Backs
    <2> QED
        BY <2>1, <2>2 DEF Now
<1>c. \A p \in Page : surv'[p] # {}
    BY <1>a, <1>3, <1>8 DEF Books
<1>10. CASE DOMAIN img = {}
    <2>1. log' = a
        BY <1>8, <1>10, ConcatEmptySeq DEF RestoreLog, RestoreTx, FenceOf
    <2>2. Ends(log', synced', surv', legal')
        BY <1>4, <1>8, <2>1 DEF Ends
    <2>3. Present'
        BY <1>6, <1>8, <1>9, <2>1 DEF Present
    <2>4. Books'
        <3>1. \A p \in Page : KeptHits(log', p) \subseteq Hits(log', p)
            BY <1>4, <2>1
        <3> QED
            BY <1>8, <1>c, <3>1, Booked
    <2> QED
        BY <1>3, <1>7, <1>9, <2>2, <2>3, <2>4 DEF Lasts
<1>11. CASE DOMAIN img # {}
    <2>0. PICK t \in Nat : t = tick + 1
        BY <1>b
    <2>1. PICK r \in Seq(Entry) : r = a \o <<Deferred(t, img)>>
        <3>1. Deferred(t, img) \in Entry
            BY DEF Deferred, Entry
        <3> QED
            BY <3>1, OneMore
    <2>2. PICK m \in Seq(Entry) : m = r \o <<Fence>>
        <3>1. Fence \in Entry
            BY SomeImages DEF Fence, Entry
        <3> QED
            BY <3>1, OneMore
    <2>3. log' = m
        <3>1. RestoreLog(img) = <<Deferred(t, img)>> /\ FenceOf(RestoreTx(img)) = <<Fence>>
            BY <1>11, <2>0 DEF RestoreLog, RestoreTx, FenceOf
        <3> QED
            BY <1>8, <2>1, <2>2, <3>1
    <2>4. /\ Begins(a, r) /\ Len(r) = Len(a) + 1 /\ r[Len(a) + 1] = Deferred(t, img)
          /\ \A p : Hits(r, p) = Hits(a, p) /\ KeptHits(r, p) = Plus(KeptHits(a, p), a, img, p)
        BY <2>1, Deferral
    <2>5. r[Len(a) + 1].img = img
        BY <2>4 DEF Deferred
    <2>6. Ends(r, k, s, S) /\ k \in 0 .. Len(r)
        <3>1. k \in 0 .. Len(a) /\ Len(a) \in Nat
            BY <1>4, LenProperties DEF Begins
        <3>2. Ends(a, k, s, S) /\ \A p : Hits(r, p) = Hits(a, p)
            BY <1>4, <2>4
        <3>3. Ends(r, k, s, S)
            BY <2>4, <3>1, <3>2, QuietEnds
        <3> QED
            BY <2>4, <3>1, <3>3
    <2>7. ASSUME NEW p \in Page PROVE Shows(r, KeptHits(r, p), p, s[p], v[p])
        <3>1. PICK K \in SUBSET (1 .. Len(a)) : K = KeptHits(a, p)
            BY DEF KeptHits
        <3>2. Shows(a, K, p, s[p], v[p])
            BY <1>6, <3>1
        <3>3. Shows(r, Plus(K, a, img, p), p, s[p], Override(v, img)[p])
            BY <2>4, <2>5, <3>2, KeptShows
        <3>4. Override(v, img)[p] = v[p]
            BY <1>1 DEF Override
        <3> QED
            BY <2>4, <3>1, <3>3, <3>4
    <2>8. /\ Begins(r, m) /\ Len(m) = Len(r) + 1
          /\ \A p : Hits(m, p) = KeptHits(r, p) /\ KeptHits(m, p) = KeptHits(r, p)
          /\ \A p, old, w : Shows(r, KeptHits(r, p), p, old, w) => Shows(m, KeptHits(r, p), p, old, w)
        BY <2>2, Fencing
    <2>9. \A p \in Page : Shows(m, Hits(m, p), p, s[p], v[p]) /\ Hits(m, p) = KeptHits(m, p)
        BY <2>7, <2>8
    <2>10. Ends(m, k, s, T)
        <3>1. v \in T /\ S \subseteq T
            BY <1>7, <1>8
        <3> QED
            BY <2>6, <2>8, <2>9, <3>1, NewEnds
    <2>11. Present'
        BY <1>8, <1>9, <2>3, <2>9 DEF Present
    <2>12. Books'
        BY <1>8, <1>c, <2>3, <2>9, Booked
    <2> QED
        BY <1>3, <1>7, <1>8, <1>9, <2>3, <2>10, <2>11, <2>12 DEF Lasts
<1> QED
    BY <1>10, <1>11

\* While the log is being synced recovery yields the present.
LEMMA Settled ==
    ASSUME Good, Lasts, ~poisoned, dtx = <<>>
    PROVE (\A p \in Page : Shows(log, Hits(log, p), p, surv[p], Now[p])) /\ Now \in legal
<1>a. Books /\ Present /\ Ends(log, synced, surv, legal)
    BY DEF Lasts
<1>b. /\ log \in Seq(Entry) /\ synced \in 0 .. Len(log) /\ surv \in [Page -> SUBSET Value] /\ Now \in Pages
      /\ \A p \in Page : Hits(log, p) = KeptHits(log, p)
    BY <1>a, Standing
<1>1. \A p \in Page : Shows(log, Hits(log, p), p, surv[p], Now[p])
    BY <1>a, <1>b DEF Present
<1>2. PICK l \in Seq(Entry), s \in [Page -> SUBSET Value], v \in Pages : l = log /\ s = surv /\ v = Now
    BY <1>b
<1>3. PICK k \in 0 .. Len(l), S \in {legal} : k = synced /\ S = legal
    BY <1>b, <1>2
<1>4. Ends(l, k, s, S) /\ (\A p \in Page : s[p] # {}) /\ \A p \in Page : Shows(l, Hits(l, p), p, s[p], v[p])
    BY <1>a, <1>1, <1>2, <1>3 DEF Books
<1>5. v \in S
    BY <1>4, Reached
<1> QED
    BY <1>1, <1>2, <1>3, <1>5

\* The log is durable in full.
LEMMA FsyncKept ==
    ASSUME Good, Lasts, Waiting, FsyncOk
    PROVE Lasts'
<1>a. Books /\ Present /\ Ends(log, synced, surv, legal) /\ ~broken
    BY DEF Lasts, Waiting
<1>b. log \in Seq(Entry) /\ Len(log) \in Nat /\ synced \in 0 .. Len(log) /\ Now \in Pages /\ db' = Now
    BY <1>a, Standing DEF FsyncOk, Now
<1>c. dtx = <<>> /\ ~poisoned
    BY DEF FsyncOk, Waiting, Idle
<1>1. UNCHANGED <<log, dtx, poisoned, surv>> /\ synced' = Len(log) /\ staged' = NoImages
    BY <1>a DEF FsyncOk
<1>2. Now' = Now
    <2>1. Override(Now, NoImages) = Now
        BY <1>b, SomeImages, Blank
    <2>2. db' = Now /\ staged' = NoImages
        BY <1>b, <1>1
    <2> QED
        BY <2>1, <2>2 DEF Now
<1>3. Now \in legal' /\ \A p \in Page : Shows(log, Hits(log, p), p, surv[p], Now[p])
    <2>1. Now \in legal /\ \A p \in Page : Shows(log, Hits(log, p), p, surv[p], Now[p])
        BY <1>c, Settled
    <2>2. legal' = {Now} \/ legal' = legal
        BY <1>b DEF FsyncOk
    <2> QED
        BY <2>1, <2>2
<1>4. Ends(log', synced', surv', legal')
    <2>1. PICK l \in Seq(Entry), v \in Pages, s \in {surv}, T \in {legal'} : l = log /\ v = Now /\ s = surv /\ T = legal'
        BY <1>b
    <2>2. v \in T /\ \A p \in Page : Shows(l, Hits(l, p), p, s[p], v[p])
        BY <1>3, <2>1
    <2>3. Ends(l, Len(l), s, T)
        BY <2>2, EndsAt
    <2> QED
        BY <1>1, <2>1, <2>3
<1>5. Present'
    BY <1>a, <1>1, <1>2 DEF Present
<1>6. Books'
    BY <1>a, <1>1 DEF Books, Outstanding
<1> QED
    BY <1>4, <1>5, <1>6 DEF Lasts

\* A page of the file is rewritten only when the log replays it, or with the
\* image it has.
LEMMA FlushKept ==
    ASSUME Good, Lasts, Waiting, NEW q \in Page, FlushPage(q)
    PROVE Lasts'
<1>a. Books /\ Present
    BY DEF Lasts
<1>b. /\ log \in Seq(Entry) /\ surv \in [Page -> SUBSET Value] /\ db \in Pages /\ Now = db
      /\ \A p \in Page : Hits(log, p) = KeptHits(log, p)
    <2>1. pc = "flush" /\ dtx = <<>>
        BY DEF FlushPage, Waiting, Idle
    <2> QED
        BY <1>a, <2>1, Standing
<1>c. dtx = <<>> /\ ~poisoned /\ synced = Len(log)
    BY DEF FlushPage, Waiting, Idle
<1>1. UNCHANGED <<log, synced, dtx, poisoned, db, staged, legal>> /\ surv' = [surv EXCEPT ![q] = Written(surv[q], db[q])]
    BY DEF FlushPage, walv, callv
<1>2. db \in legal /\ \A p \in Page : Shows(log, Hits(log, p), p, surv[p], db[p])
    BY <1>b, <1>c, Settled
<1>3. ASSUME NEW p \in Page PROVE Shows(log, Hits(log, p), p, surv'[p], db[p]) /\ surv'[p] # {}
    <2>1. surv[p] # {} /\ Shows(log, Hits(log, p), p, surv[p], db[p])
        BY <1>a, <1>2 DEF Books
    <2>2. CASE p = q
        <3>1. surv'[p] = Written(surv[p], db[p])
            BY <1>b, <1>1, <2>2
        <3>2. Hits(log, p) = {} => surv[p] = {db[p]}
            BY <2>1 DEF Shows
        <3>3. surv'[p] # {} /\ (surv[p] = {db[p]} => surv'[p] \subseteq {db[p]})
            BY <3>1 DEF Written
        <3> QED
            BY <2>1, <3>2, <3>3 DEF Shows
    <2>3. CASE p # q
        <3>1. surv'[p] = surv[p]
            BY <1>b, <1>1, <2>3
        <3> QED
            BY <2>1, <3>1
    <2> QED
        BY <2>2, <2>3
<1>4. Ends(log', synced', surv', legal')
    <2>1. PICK l \in Seq(Entry), v \in Pages, s \in {surv'}, T \in {legal} : l = log /\ v = db /\ s = surv' /\ T = legal
        BY <1>b
    <2>2. v \in T /\ \A p \in Page : Shows(l, Hits(l, p), p, s[p], v[p])
        BY <1>2, <1>3, <2>1
    <2>3. Ends(l, Len(l), s, T)
        BY <2>2, EndsAt
    <2> QED
        BY <1>1, <1>c, <2>1, <2>3
<1>5. Present'
    <2>1. Now' = db
        BY <1>b, <1>1 DEF Now
    <2> QED
        BY <1>1, <1>3, <1>b, <2>1 DEF Present
<1>6. Books'
    <2>1. \A p \in Page : KeptHits(log', p) \subseteq Hits(log', p)
        BY <1>1, <1>b
    <2> QED
        BY <1>1, <1>3, <1>c, <2>1, Booked
<1> QED
    BY <1>4, <1>5, <1>6 DEF Lasts

\* An empty log, over a file that holds the present.
LEMMA ResetKept ==
    ASSUME log' = <<>>, synced' = 0, dtx' = <<>>, DOMAIN staged' = {}, NEW v \in Pages, db' = v, v \in legal',
           surv' = [p \in Page |-> {v[p]}]
    PROVE Lasts'
<1>0. <<>> \in Seq(Entry) /\ Len(<<>>) = 0
    OBVIOUS
<1>1. PICK l \in Seq(Entry), s \in {surv'}, T \in {legal'} : l = log' /\ s = surv' /\ T = legal' /\ Len(l) = 0
    BY <1>0
<1>2. \A p : Hits(l, p) = {} /\ KeptHits(l, p) = {}
    <2>1. \A i \in 1 .. Len(l) : FALSE
        BY <1>1
    <2> QED
        BY <2>1 DEF Hits, KeptHits
<1>3. \A p \in Page : s[p] = {v[p]}
    BY <1>1
<1>4. \A p \in Page : Shows(l, {}, p, s[p], v[p])
    BY <1>3 DEF Shows
<1>5. Ends(l, Len(l), s, T)
    <2>1. v \in T /\ \A p \in Page : Shows(l, Hits(l, p), p, s[p], v[p])
        BY <1>1, <1>2, <1>4
    <2> QED
        BY <2>1, EndsAt
<1>6. Now' = v
    <2>1. PICK g : g = staged' /\ DOMAIN g = {}
        OBVIOUS
    <2>2. Override(v, g) = v
        BY <2>1, Blank
    <2> QED
        BY <2>1, <2>2 DEF Now
<1>7. Present'
    BY <1>1, <1>2, <1>4, <1>6 DEF Present
<1>8. Books'
    BY <1>1, <1>2, <1>3, Booked
<1> QED
    BY <1>1, <1>5, <1>7, <1>8 DEF Lasts

-----------------------------------------------------------------------------
(* The steps                                                               *)

\* A database keeps its commit mode.
LEMMA SetupKept ==
    ASSUME Next
    PROVE setup' = setup /\ AsyncCommit' = AsyncCommit /\ (Regular' <=> Regular)
<1>1. setup' = setup
    BY DEF Next, StmtDeferred, StmtSync, Begin, CommitTx, Rollback, AbortFails, RestoreFails,
        MayFail, Savepoint, ReleaseSavepoint, RollbackTo, GuardBegin, GuardOk, GuardFails, UnitBegin,
        UnitEnd, SyncPending, FsyncOk, FsyncFails, FlushPage, FlushDone, Truncate, CrashRecover, runv
<1> QED
    BY <1>1 DEF AsyncCommit, Regular, Features

\* A fence can be written, or a rollback started, in a log that is not poisoned.
LEMMA Clear ==
    ASSUME Waiting
    PROVE /\ CanFence => ~poisoned
          /\ \A b : (~poisoned \/ (dtx = <<>> /\ b)) => ~poisoned
BY DEF Waiting, CanFence

\* Steps that regular setups exclude.
LEMMA Excluded ==
    ASSUME Regular
    PROVE ~RestoreFails /\ ~FsyncFails /\ (AsyncCommit => ~Rollback) /\ "guardInUnit" \notin Features
          /\ (AsyncCommit => "guard" \notin Features)
BY DEF Regular, RestoreFails, FsyncFails, MayFail, Rollback

\* A statement that commits deferred.
LEMMA DeferredAdds ==
    ASSUME Good, NEW ps \in SUBSET Page, StmtDeferred(ps)
    PROVE \E img \in Image : Adds(img) /\ DOMAIN img = ps
<1>1. log \in Seq(Entry) /\ Shapes /\ tick \in Nat
    BY DEF Good, Shapes
<1> DEFINE img == [p \in ps |-> tick + 1]
<1>2. img \in Image /\ DOMAIN img = ps
    BY <1>1, Writes
<1>3. log' = Append(log, Deferred(tick + 1, img)) /\ db' = Override(db, img) /\ dtx' = Append(dtx, tick + 1)
    BY DEF StmtDeferred, Apply
<1> HIDE DEF img
<1>4. Deferred(tick + 1, img) \in Entry
    BY <1>1, <1>2 DEF Deferred, Entry
<1>5. log' = log \o <<Deferred(tick + 1, img)>>
    BY <1>1, <1>3, <1>4, AppendIsConcat
<1>6. UNCHANGED <<synced, surv, poisoned, staged>> /\ legal \subseteq legal'
    BY DEF StmtDeferred, callv
<1>7. Adds(img)
    BY <1>3, <1>5, <1>6 DEF Adds
<1> QED
    BY <1>2, <1>7

\* Going back to a level writes its images as a deferred commit, or nothing.
LEMMA BackAdds ==
    ASSUME Good, Idle, NEW s \in Level, Under(undo, s, Top), RestoreTo(s.mark),
           UNCHANGED <<synced, surv, poisoned, staged, legal>>
    PROVE \/ UNCHANGED <<log, synced, dtx, surv, poisoned, db, queue, staged, legal>>
          \/ ~poisoned /\ queue' # {} /\ dtx' # <<>> /\ \E img \in Image : Adds(img)
<1> DEFINE img == Undone(UndoTail(s.mark))
<1>1. img \in Image
    BY LevelRestores
<1>2. /\ (~poisoned \/ DOMAIN img = {}) /\ Apply(img)
      /\ log' = log \o RestoreLog(img) /\ dtx' = dtx \o RestoreTx(img)
      /\ db' = Override(db, img) /\ queue' = queue \cup DOMAIN img
    BY DEF RestoreTo, Apply
<1> HIDE DEF img
<1>3. log \in Seq(Entry) /\ dtx \in Seq(Nat) /\ db \in Pages /\ tick \in Nat
    BY DEF Good, Shapes
<1>4. CASE DOMAIN img = {}
    <2>1. RestoreLog(img) = <<>> /\ RestoreTx(img) = <<>>
        BY <1>4 DEF RestoreLog, RestoreTx
    <2>2. log' = log /\ dtx' = dtx /\ db' = db
        BY <1>2, <1>3, <1>4, <2>1, ConcatEmptySeq, Blank
    <2> QED
        BY <1>2, <1>4, <2>2
<1>5. CASE DOMAIN img # {}
    <2>1. RestoreLog(img) = <<Deferred(tick + 1, img)>> /\ RestoreTx(img) = <<tick + 1>>
        BY <1>5 DEF RestoreLog, RestoreTx
    <2>2. dtx \o <<tick + 1>> = Append(dtx, tick + 1) /\ dtx \o <<tick + 1>> # <<>>
        BY <1>3, AppendIsConcat
    <2>3. Adds(img) /\ dtx' # <<>>
        BY <1>2, <2>1, <2>2 DEF Adds
    <2> QED
        BY <1>1, <1>2, <1>5, <2>3
<1> QED
    BY <1>4, <1>5

\* The end of a write unit fences what is outstanding, or has nothing to.
LEMMA UnitEnds ==
    ASSUME Good, unit = 1, NEW cont, UnitSync(<<>>, dtx, db, cont), UNCHANGED <<synced, surv, poisoned, staged, db>>
    PROVE /\ unit' = 0 /\ legal' = legal \cup {db}
          /\ \/ (AsyncCommit \/ ~pendingSync) /\ UNCHANGED <<log, dtx, pc, then>>
             \/ ~AsyncCommit /\ Fences /\ pc' = "fsync" /\ then' = cont
<1>1. log \in Seq(Entry) /\ log \o <<>> = log
    BY ConcatEmptySeq DEF Good, Shapes
<1>2. unit' = 0 /\ legal' = legal \cup {db}
    BY DEF UnitSync
<1>3. CASE AsyncCommit \/ ~pendingSync
    <2>1. log' = log \o <<>> /\ dtx' = dtx /\ UNCHANGED <<pc, then>>
        BY <1>3, Zenon DEF UnitSync
    <2> QED
        BY <1>1, <1>2, <1>3, <2>1
<1>4. CASE ~(AsyncCommit \/ ~pendingSync)
    <2>1. log' = (log \o <<>>) \o FenceOf(dtx) /\ dtx' = <<>> /\ pc' = "fsync" /\ then' = cont
        BY <1>4 DEF UnitSync, Sync
    <2>2. Fences
        BY <1>1, <1>2, <2>1 DEF Fences
    <2> QED
        BY <1>2, <1>4, <2>1, <2>2
<1> QED
    BY <1>3, <1>4

\* A guarded statement outside a transaction is undone.
LEMMA GuardUndone ==
    ASSUME Good, Lasts, Past, Waiting, guard = "auto", GuardFails
    PROVE Lasts' /\ dtx' = <<>> /\ ~poisoned /\ unit' = 0 /\ ~AsyncCommit
<1> DEFINE img == Undone(undo)
<1>1. Idle /\ unit = 1 /\ ~AsyncCommit /\ Open
    BY DEF GuardFails, Waiting, Open
<1>2. /\ ~poisoned \/ (dtx = <<>> /\ DOMAIN img = {})
      /\ Apply(img) /\ UnitSync(AbortsOf(dtx) \o RestoreLog(img), RestoreTx(img), db', "guardFails")
    BY DEF GuardFails
<1>3. ~poisoned
    BY <1>2, Clear
<1>4. UNCHANGED <<synced, surv, poisoned, staged>>
    BY DEF GuardFails
<1>5. /\ log \in Seq(Entry) /\ dtx \in Seq(Nat) /\ db \in Pages /\ tick \in Nat /\ img \in Image
      /\ DOMAIN img = Recorded(undo)
    BY UndoneIs DEF Good, Shapes
<1>6. db' = Override(db, img) /\ unit' = 0 /\ legal \subseteq legal'
    BY <1>1, <1>2 DEF Apply, UnitSync
<1>7. CASE ~pendingSync
    <2>1. dtx = <<>> /\ DOMAIN img = {}
        BY <1>5, <1>7 DEF Waiting
    <2>2. RestoreLog(img) = <<>> /\ RestoreTx(img) = <<>> /\ AbortsOf(dtx) = <<>>
        BY <2>1 DEF RestoreLog, RestoreTx, AbortsOf
    <2>3. log' = log \o (AbortsOf(dtx) \o RestoreLog(img)) /\ dtx' = RestoreTx(img)
        BY <1>2, <1>7 DEF UnitSync
    <2> HIDE DEF img
    <2>4. log' = log /\ dtx' = dtx /\ db' = db
        BY <1>5, <1>6, <2>1, <2>2, <2>3, Blank, ConcatEmptySeq
    <2>5. Now' = Now
        BY <1>4, <2>4 DEF Now
    <2> QED
        BY <1>1, <1>3, <1>4, <1>6, <2>1, <2>4, <2>5, StillKept
<1>8. CASE pendingSync
    <2>1. log' = (log \o (AbortsOf(dtx) \o RestoreLog(img))) \o FenceOf(RestoreTx(img)) /\ dtx' = <<>>
        BY <1>1, <1>2, <1>8 DEF UnitSync
    <2> HIDE DEF img
    <2>2. AbortsOf(dtx) \in Seq(Entry) /\ RestoreLog(img) \in Seq(Entry)
        BY <1>5, Entries
    <2>4. (log \o AbortsOf(dtx)) \o RestoreLog(img) = log \o (AbortsOf(dtx) \o RestoreLog(img))
        BY <1>5, <2>2, Joined
    <2>5. Backs(img)
        BY <1>4, <1>6, <2>1, <2>4 DEF Backs
    <2>6. Backs(Undone(undo))
        BY <2>5 DEF img
    <2> QED
        BY <1>1, <1>3, <1>6, <2>1, <2>6, BacksKept
<1> QED
    BY <1>7, <1>8

-----------------------------------------------------------------------------
(* What recovery yields stays right                                        *)

\* What the two invariants say before a step.
Known == Regular /\ Good /\ Fates /\ Lasts /\ Past /\ Waiting

\* Statements keep what recovery yields.
LEMMA StatementsLast ==
    ASSUME Known, NEW ps \in SUBSET Page, StmtDeferred(ps) \/ StmtSync(ps)
    PROVE Lasts'
<1>a. Good /\ Dated /\ Lasts /\ Waiting /\ Shapes
    BY DEF Known, Fates, Good
<1>1. CASE StmtDeferred(ps)
    <2>1. Idle /\ ~poisoned
        BY <1>1 DEF StmtDeferred
    <2>2. PICK img \in Image : Adds(img)
        BY <1>a, <1>1, DeferredAdds
    <2> QED
        BY <1>a, <2>1, <2>2, AddsKept
<1>2. CASE StmtSync(ps)
    <2>1. Idle /\ ~poisoned /\ ~AsyncCommit /\ ~inTx /\ ~(unit > 0)
        BY <1>2 DEF StmtSync, Defers
    <2>2. dtx = <<>>
        BY <1>a, <2>1 DEF Waiting, Open
    <2>3. staged' = [p \in ps |-> tick + 1]
        BY <1>2 DEF StmtSync
    <2>4. staged' \in Image
        BY <1>a, <2>3, Writes
    <2>5. log' = (log \o FenceOf(dtx)) \o <<Commit(tick + 1, staged')>> /\ dtx' = <<>>
        BY <1>2 DEF StmtSync
    <2>6. log \o FenceOf(dtx) = log
        BY <1>a, <2>2, ConcatEmptySeq DEF FenceOf, Shapes
    <2>7. UNCHANGED <<synced, surv, poisoned, db>> /\ legal' = legal \cup {Override(db, staged')}
        BY <1>2 DEF StmtSync, pagev
    <2>8. PICK img \in Image : img = staged'
        BY <2>4
    <2>9. Directly(img)
        BY <2>5, <2>6, <2>7, <2>8 DEF Directly
    <2> QED
        BY <1>a, <2>1, <2>2, <2>9, DirectlyKept
<1> QED
    BY <1>1, <1>2

\* BEGIN, COMMIT and ROLLBACK keep what recovery yields, when they fail too.
LEMMA TransactionsLast ==
    ASSUME Known, Begin \/ CommitTx \/ Rollback \/ AbortFails
    PROVE Lasts'
<1>a. Good /\ Lasts /\ Waiting /\ Shapes /\ Past /\ Regular
    BY DEF Known, Good
<1>1. CASE Begin
    BY <1>a, <1>1, StillKept DEF Begin, walv, pagev, callv, Now
<1>2. CASE CommitTx
    <2>1. Idle /\ legal' = legal \cup {db} /\ UNCHANGED <<synced, poisoned, surv, db, staged>>
        BY <1>2 DEF CommitTx, pagev
    <2>2. CASE AsyncCommit
        <3>1. UNCHANGED <<log, dtx>>
            BY <1>2, <2>2 DEF CommitTx
        <3> QED
            BY <1>a, <2>1, <3>1, StillKept DEF Now
    <2>3. CASE ~AsyncCommit
        <3>1. CanFence /\ log' = log \o FenceOf(dtx) /\ dtx' = <<>>
            BY <1>2, <2>3 DEF CommitTx
        <3>2. ~poisoned /\ Fences
            BY <1>a, <2>1, <3>1, Clear DEF Fences
        <3> QED
            BY <1>a, <2>1, <3>2, FencesKept
    <2> QED
        BY <2>2, <2>3
<1>3. CASE Rollback
    <2>1. Idle /\ Open /\ ~AsyncCommit
        BY <1>a, <1>3, Excluded DEF Rollback, Open
    <2>2. /\ ~poisoned \/ (dtx = <<>> /\ DOMAIN Undone(undo) = {})
          /\ Backs(Undone(undo))
        BY <1>3 DEF Rollback, Backs, Apply
    <2>3. ~poisoned
        BY <1>a, <2>2, Clear
    <2> QED
        BY <1>a, <2>1, <2>2, <2>3, BacksKept
<1>4. CASE AbortFails
    <2>1. PICK k \in 0 .. Len(dtx) - 1 : log' = log \o AbortsOf(SubSeq(dtx, 1, k))
        BY <1>4 DEF AbortFails
    <2>2. PICK ts \in Seq(Nat) : ts = SubSeq(dtx, 1, k) /\ \A j \in 1 .. Len(ts) : Outstanding(ts[j])
        <3>1. dtx \in Seq(Nat) /\ Len(dtx) \in Nat /\ k \in 0 .. Len(dtx)
            BY <1>a, LenProperties DEF Shapes
        <3>2. SubSeq(dtx, 1, k) \in Seq(Nat) /\ Len(SubSeq(dtx, 1, k)) = k /\ \A j \in 1 .. k : SubSeq(dtx, 1, k)[j] = dtx[j]
            BY <3>1
        <3>3. \A j \in 1 .. k : Outstanding(dtx[j])
            BY <3>1 DEF Outstanding
        <3> QED
            BY <3>2, <3>3
    <2>3. Aborting(ts)
        BY <1>4, <2>1, <2>2 DEF AbortFails, Aborting, pagev
    <2> QED
        BY <1>a, <2>2, <2>3, AbortingKept
<1> QED
    BY <1>1, <1>2, <1>3, <1>4

\* Going back to a level keeps what recovery yields.
LEMMA BackLasts ==
    ASSUME Known, Idle, NEW s \in Level, Under(undo, s, Top), RestoreTo(s.mark),
           UNCHANGED <<synced, surv, poisoned, staged, legal>>
    PROVE Lasts'
<1>a. Good /\ Dated /\ Lasts
    BY DEF Known, Fates
<1>1. CASE UNCHANGED <<log, synced, dtx, surv, poisoned, db, queue, staged, legal>>
    BY <1>a, <1>1, StillKept DEF Now
<1>2. CASE ~poisoned /\ \E img \in Image : Adds(img)
    BY <1>a, <1>2, AddsKept
<1> QED
    BY <1>a, <1>1, <1>2, BackAdds

\* Savepoints keep what recovery yields.
LEMMA SavepointsLast ==
    ASSUME Known, Savepoint \/ \E i \in DOMAIN saves : ReleaseSavepoint(i) \/ RollbackTo(i)
    PROVE Lasts'
<1>a. Good /\ Lasts /\ Shapes /\ Stacked
    BY DEF Known, Good
<1>1. CASE Savepoint
    BY <1>a, <1>1, StillKept DEF Savepoint, walv, pagev, callv, Now
<1>2. ASSUME NEW i \in DOMAIN saves, ReleaseSavepoint(i) PROVE Lasts'
    BY <1>a, <1>2, StillKept DEF ReleaseSavepoint, walv, pagev, callv, Now
<1>3. ASSUME NEW i \in DOMAIN saves, RollbackTo(i) PROVE Lasts'
    <2>1. i \in 1 .. Len(saves) /\ saves[i] \in Level
        BY <1>a DEF Shapes
    <2>2. Under(undo, saves[i], Top)
        BY <1>a, <2>1 DEF Stacked
    <2>3. Idle /\ RestoreTo(saves[i].mark) /\ UNCHANGED <<synced, surv, poisoned, staged, legal>>
        BY <1>3 DEF RollbackTo, callv
    <2> QED
        BY <2>1, <2>2, <2>3, BackLasts
<1> QED
    BY <1>1, <1>2, <1>3

\* Guarded statements and write units keep what recovery yields.
LEMMA UnitsLast ==
    ASSUME Known, GuardBegin \/ GuardOk \/ GuardFails \/ UnitBegin \/ UnitEnd \/ SyncPending
    PROVE Lasts'
<1>a. Good /\ Lasts /\ Waiting /\ Shapes /\ Past /\ Stacked
    BY DEF Known, Good
<1>b. ASSUME NEW cont, Idle, unit = 1, CanFence, UnitSync(<<>>, dtx, db, cont), UNCHANGED <<synced, surv, poisoned, staged, db>>
      PROVE Lasts'
    <2>1. ~poisoned /\ legal \subseteq legal'
        BY <1>a, <1>b, Clear, UnitEnds
    <2>2. CASE UNCHANGED <<log, dtx, pc, then>>
        BY <1>a, <1>b, <2>1, <2>2, StillKept DEF Now
    <2>3. CASE Fences
        BY <1>a, <1>b, <2>1, <2>3, FencesKept
    <2> QED
        BY <1>a, <1>b, <2>2, <2>3, UnitEnds
<1>1. CASE GuardBegin
    BY <1>a, <1>1, StillKept DEF GuardBegin, walv, pagev, callv, Now
<1>2. CASE GuardOk
    <2>1. Idle /\ UNCHANGED <<synced, poisoned, surv, db, staged>>
        BY <1>2 DEF GuardOk, pagev
    <2>2. CASE guard = "tx"
        <3>1. UNCHANGED <<log, dtx, legal>>
            BY <1>2, <2>2 DEF GuardOk
        <3> QED
            BY <1>a, <2>1, <3>1, StillKept DEF Now
    <2>3. CASE guard = "auto"
        <3>1. CanFence /\ UnitSync(<<>>, dtx, db, "guard")
            BY <1>2, <2>3 DEF GuardOk
        <3>2. unit = 1
            BY <1>a, <2>3 DEF Waiting
        <3> QED
            BY <1>b, <2>1, <3>1, <3>2
    <2> QED
        BY <1>2, <2>2, <2>3 DEF GuardOk
<1>3. CASE GuardFails
    <2>1. CASE guard = "tx"
        <3>1. gsave \in Level /\ Under(undo, gsave, Top)
            BY <1>a, <2>1 DEF Shapes, Stacked
        <3>2. Idle /\ RestoreTo(gsave.mark) /\ UNCHANGED <<synced, surv, poisoned, staged, legal>>
            BY <1>3, <2>1 DEF GuardFails
        <3> QED
            BY <3>1, <3>2, BackLasts
    <2>2. CASE guard = "auto"
        BY <1>a, <1>3, <2>2, GuardUndone
    <2> QED
        BY <1>3, <2>1, <2>2 DEF GuardFails
<1>4. CASE UnitBegin
    BY <1>a, <1>4, StillKept DEF UnitBegin, walv, pagev, callv, Now
<1>5. CASE UnitEnd
    <2>1. Idle /\ UNCHANGED <<synced, poisoned, surv, db, staged>>
        BY <1>5 DEF UnitEnd, pagev
    <2>2. CanFence /\ UnitSync(<<>>, dtx, db, "unit") /\ unit = 1
        BY <1>a, <1>5 DEF UnitEnd, Waiting
    <2> QED
        BY <1>b, <2>1, <2>2
<1>6. CASE SyncPending
    <2>1. Idle /\ CanFence /\ log' = log \o FenceOf(dtx) /\ dtx' = <<>> /\ UNCHANGED <<synced, poisoned, surv, db, staged, legal>>
        BY <1>6 DEF SyncPending, pagev
    <2>2. Now \in legal
        BY <1>a, <1>6 DEF SyncPending, Waiting
    <2>3. Now = db
        BY <1>a, <2>1, Standing DEF Lasts, Idle
    <2>4. ~poisoned /\ Fences
        BY <1>a, <2>1, <2>2, <2>3, Clear DEF Fences
    <2> QED
        BY <1>a, <2>1, <2>4, FencesKept
<1> QED
    BY <1>1, <1>2, <1>3, <1>4, <1>5, <1>6

\* The end of a call, a truncation and recovery keep what recovery yields.
LEMMA CallsLast ==
    ASSUME Known, FsyncOk \/ (\E p \in Page : FlushPage(p)) \/ FlushDone \/ Truncate \/ CrashRecover
    PROVE Lasts'
<1>a. Good /\ Lasts /\ Waiting /\ Shapes /\ Past /\ Nesting /\ Books
    BY DEF Known, Good, Lasts
<1>1. CASE FsyncOk
    BY <1>a, <1>1, FsyncKept
<1>2. CASE \E p \in Page : FlushPage(p)
    BY <1>a, <1>2, FlushKept
<1>3. CASE FlushDone
    BY <1>a, <1>3, StillKept DEF FlushDone, walv, pagev, Now
<1>4. CASE Truncate
    <2>1. Idle /\ dtx = <<>> /\ ~poisoned
        BY <1>a, <1>4 DEF Truncate, Waiting
    <2>2. Now \in legal /\ Now = db /\ db \in Pages /\ DOMAIN staged = {}
        BY <1>a, <2>1, Settled, Standing DEF Idle
    <2>3. PICK v \in Pages : v = db
        BY <2>2
    <2>4. log' = <<>> /\ synced' = 0 /\ dtx' = <<>> /\ DOMAIN staged' = {} /\ db' = v /\ v \in legal'
        BY <1>4, <2>2, <2>3 DEF Truncate, callv
    <2>5. surv' = [p \in Page |-> {v[p]}]
        BY <1>4, <2>3 DEF Truncate
    <2> QED
        BY <2>4, <2>5, ResetKept
<1>5. CASE CrashRecover
    <2>1. PICK s \in Outcomes : db' = s /\ surv' = [p \in Page |-> {s[p]}] /\ legal' = {s}
        BY <1>5 DEF CrashRecover
    <2>2. PICK v \in Pages : v = s
        BY <1>a, <2>1, RecoveredIs
    <2>3. log' = <<>> /\ synced' = 0 /\ dtx' = <<>> /\ DOMAIN staged' = {} /\ db' = v /\ v \in legal'
        BY <1>5, <2>1, <2>2 DEF CrashRecover, NoImages
    <2>4. surv' = [p \in Page |-> {v[p]}]
        BY <2>1, <2>2
    <2> QED
        BY <2>3, <2>4, ResetKept
<1> QED
    BY <1>1, <1>2, <1>3, <1>4, <1>5

\* Every step of a regular setup keeps what recovery yields.
LEMMA LastsKept ==
    ASSUME Known, Next
    PROVE Lasts'
<1>1. Regular
    BY DEF Known
<1>2. ~RestoreFails /\ ~FsyncFails
    BY <1>1, Excluded
<1> QED
    BY <1>2, StatementsLast, TransactionsLast, SavepointsLast, UnitsLast, CallsLast, Zenon DEF Next

-----------------------------------------------------------------------------
(* What is open still starts where recovery goes back to                   *)

\* Recovery goes back to the start of what is open, in what a step leaves.
Returns == \A p \in Page : Shows(log', Hits(log', p), p, surv'[p], Start'[p])

\* A step that leaves the log and what is open.
LEMMA PastSame ==
    ASSUME Past, Open, Idle, UNCHANGED <<log, surv, poisoned, setup>>, Start' = Start
    PROVE Past'
BY DEF Past, AsyncCommit

\* A step that appends a deferred commit to what is open.
LEMMA PastAdds ==
    ASSUME Known, Open, Idle, ~poisoned, NEW img \in Image, Adds(img), setup' = setup, Start' = Start
    PROVE Past'
<1>1. Good /\ Dated /\ Lasts /\ Past
    BY DEF Known, Fates
<1>2. \A p \in Page : \A v : Shows(log, Hits(log, p), p, surv[p], v) => Shows(log', Hits(log', p), p, surv'[p], v)
    BY <1>1, AddsKept
<1>3. ~AsyncCommit => Returns
    BY <1>1, <1>2 DEF Past, Returns
<1> QED
    BY <1>3 DEF Past, Returns, AsyncCommit

\* A transaction or a guarded statement opens on what recovery yields.
LEMMA PastOpens ==
    ASSUME Known, ~Open, Idle, unit = 0, UNCHANGED <<log, surv, poisoned, setup>>, Start' = db
    PROVE Past'
<1>1. Good /\ Lasts /\ Waiting /\ Books
    BY DEF Known, Lasts
<1>2. SUFFICES ASSUME ~AsyncCommit, ~poisoned PROVE Returns
    BY DEF Past, Returns, AsyncCommit
<1>3. dtx = <<>>
    BY <1>1, <1>2 DEF Waiting
<1>4. Now = db
    BY <1>1, Standing DEF Idle
<1> QED
    BY <1>1, <1>2, <1>3, <1>4, Settled DEF Returns

\* Going back to a level keeps the start.
LEMMA PastBack ==
    ASSUME Known, Open, Idle, NEW s \in Level, Under(undo, s, Top), RestoreTo(s.mark),
           UNCHANGED <<synced, surv, poisoned, staged, legal, setup>>, Start' = Start
    PROVE Past'
<1>1. Good /\ Past
    BY DEF Known
<1>2. CASE UNCHANGED <<log, synced, dtx, surv, poisoned, db, queue, staged, legal>>
    BY <1>1, <1>2, PastSame
<1>3. CASE ~poisoned /\ \E img \in Image : Adds(img)
    BY <1>3, PastAdds
<1> QED
    BY <1>1, <1>2, <1>3, BackAdds

\* Every step of a regular setup keeps the start of what is open.
LEMMA PastKept ==
    ASSUME Known, Next
    PROVE Past'
<1>a. /\ Good /\ Lasts /\ Waiting /\ Shapes /\ Past /\ Nesting /\ Stacked /\ Calls /\ Books /\ Regular
      /\ setup' = setup
    BY SetupKept DEF Known, Good, Lasts, Fates
<1>b. ~Idle' \/ ~Open' \/ poisoned' => Past'
    BY DEF Past
<1>1. ASSUME NEW ps \in SUBSET Page, StmtDeferred(ps) PROVE Past'
    <2>1. Idle /\ ~poisoned /\ UNCHANGED <<inTx, base, guard, gsave>>
        BY <1>1 DEF StmtDeferred, txv, guardv
    <2>2. Start' = Start /\ (Open' <=> Open)
        BY <2>1 DEF Start, Open
    <2> QED
        BY <1>a, <1>b, <1>1, <2>1, <2>2, DeferredAdds, PastAdds
<1>2. ASSUME NEW ps \in SUBSET Page, StmtSync(ps) PROVE Past'
    BY <1>b, <1>2 DEF StmtSync, Sync, Idle
<1>3. CASE Begin
    <2>1. Idle /\ unit = 0 /\ ~Open /\ UNCHANGED <<log, surv, poisoned>>
        BY <1>3 DEF Begin, Open, walv, pagev
    <2>2. Start' = db
        BY <1>3 DEF Begin, Start
    <2> QED
        BY <1>a, <2>1, <2>2, PastOpens
<1>4. CASE CommitTx
    <2>1. ~AsyncCommit => ~Idle'
        BY <1>4 DEF CommitTx, Sync, Idle
    <2> QED
        BY <1>a, <1>b, <2>1 DEF Past, AsyncCommit
<1>5. CASE Rollback
    BY <1>b, <1>5 DEF Rollback, Sync, Idle
<1>6. CASE AbortFails
    BY <1>b, <1>6 DEF AbortFails
<1>7. CASE Savepoint
    <2>1. Idle /\ inTx /\ UNCHANGED <<log, surv, poisoned, inTx, base, gsave>>
        BY <1>7 DEF Savepoint, walv, pagev, guardv
    <2> QED
        BY <1>a, <2>1, PastSame DEF Start, Open
<1>8. ASSUME NEW i \in DOMAIN saves, ReleaseSavepoint(i) PROVE Past'
    <2>1. Idle /\ inTx /\ UNCHANGED <<log, surv, poisoned, inTx, base, gsave>>
        BY <1>8 DEF ReleaseSavepoint, walv, pagev, guardv
    <2> QED
        BY <1>a, <2>1, PastSame DEF Start, Open
<1>9. ASSUME NEW i \in DOMAIN saves, RollbackTo(i) PROVE Past'
    <2>1. saves[i] \in Level /\ Under(undo, saves[i], Top)
        BY <1>a DEF Shapes, Stacked
    <2>2. /\ Idle /\ inTx /\ RestoreTo(saves[i].mark) /\ UNCHANGED <<synced, surv, poisoned, staged, legal>>
          /\ UNCHANGED <<inTx, base, gsave>>
        BY <1>9 DEF RollbackTo, callv, guardv
    <2>3. Open /\ Start' = Start
        BY <2>2 DEF Start, Open
    <2> QED
        BY <1>a, <2>1, <2>2, <2>3, PastBack
<1>10. CASE GuardBegin
    <2>1. Idle /\ guard = "none" /\ UNCHANGED <<log, surv, poisoned, inTx, base>>
        BY <1>10 DEF GuardBegin, walv, pagev, txv
    <2>2. CASE inTx
        BY <1>a, <2>1, <2>2, PastSame DEF Start, Open
    <2>3. CASE ~inTx
        <3>1. unit = 0 /\ ~Open
            BY <1>a, <1>10, <2>1, <2>3, Excluded DEF GuardBegin, Open
        <3>2. gsave' = [mark |-> 0, base |-> db]
            BY <1>10, <2>3 DEF GuardBegin
        <3>3. Start' = db
            BY <2>1, <2>3, <3>2 DEF Start
        <3> QED
            BY <1>a, <2>1, <3>1, <3>3, PastOpens
    <2> QED
        BY <2>2, <2>3
<1>11. CASE GuardOk
    <2>1. Idle /\ guard' = "none" /\ UNCHANGED <<surv, poisoned, inTx, base>>
        BY <1>11 DEF GuardOk, GuardClosed, pagev, txv
    <2>2. CASE guard = "tx"
        <3>1. inTx /\ log' = log
            BY <1>a, <1>11, <2>2 DEF GuardOk, Nesting
        <3> QED
            BY <1>a, <2>1, <3>1, PastSame DEF Start, Open
    <2>3. CASE guard = "auto"
        BY <1>a, <1>b, <2>1, <2>3 DEF Nesting, Open
    <2> QED
        BY <1>11, <2>2, <2>3 DEF GuardOk
<1>12. CASE GuardFails
    <2>1. Idle /\ guard' = "none" /\ UNCHANGED <<inTx, base>>
        BY <1>12 DEF GuardFails, GuardClosed, txv
    <2>2. CASE guard = "tx"
        <3>1. gsave \in Level /\ Under(undo, gsave, Top) /\ inTx
            BY <1>a, <2>2 DEF Shapes, Stacked, Nesting
        <3>2. RestoreTo(gsave.mark) /\ UNCHANGED <<synced, surv, poisoned, staged, legal>>
            BY <1>12, <2>2 DEF GuardFails
        <3>3. Open /\ Start' = Start
            BY <2>1, <3>1 DEF Start, Open
        <3> QED
            BY <1>a, <2>1, <3>1, <3>2, <3>3, PastBack
    <2>3. CASE guard = "auto"
        BY <1>a, <1>b, <2>1, <2>3 DEF Nesting, Open
    <2> QED
        BY <1>12, <2>2, <2>3 DEF GuardFails
<1>13. CASE UnitBegin
    BY <1>b, <1>13 DEF UnitBegin, Open, txv, guardv
<1>14. CASE UnitEnd
    <2>1. ~inTx /\ guard = "none" /\ UNCHANGED <<inTx, guard>>
        BY <1>a, <1>14 DEF UnitEnd, Calls, txv, guardv
    <2> QED
        BY <1>b, <2>1 DEF Open
<1>15. CASE SyncPending
    BY <1>b, <1>15 DEF SyncPending, Sync, Idle
<1>16. CASE FsyncOk
    BY <1>b, <1>16 DEF FsyncOk, Idle
<1>17. ASSUME NEW p \in Page, FlushPage(p) PROVE Past'
    BY <1>b, <1>17 DEF FlushPage, callv, Idle
<1>18. CASE FlushDone
    <2>1. guard' = "none" /\ (inTx => then = "commit")
        BY <1>a, <1>18 DEF FlushDone, Calls, Nesting, Idle, guardv
    <2>2. ~inTx'
        BY <1>a, <1>18, <2>1 DEF FlushDone, EndTx, txv, Shapes
    <2> QED
        BY <1>b, <2>1, <2>2 DEF Open
<1>19. CASE Truncate
    <2>1. Idle /\ dtx = <<>> /\ ~poisoned /\ log' = <<>> /\ UNCHANGED <<inTx, base, guard, gsave>>
        BY <1>a, <1>19 DEF Truncate, Waiting, txv, guardv
    <2>2. \A p \in Page : surv'[p] = {db[p]}
        BY <1>19 DEF Truncate
    <2>3. (\A p \in Page : Shows(log, Hits(log, p), p, surv[p], Now[p])) /\ Now = db
        BY <1>a, <2>1, Settled, Standing DEF Idle
    <2>4. ASSUME ~AsyncCommit, Open, NEW p \in Page PROVE db[p] = Start[p]
        <3>1. Shows(log, Hits(log, p), p, surv[p], Start[p]) /\ Shows(log, Hits(log, p), p, surv[p], db[p])
            BY <1>a, <2>1, <2>3, <2>4 DEF Past
        <3>2. log \in Seq(Entry) /\ Hits(log, p) \in SUBSET (1 .. Len(log)) /\ surv[p] # {}
            BY <1>a DEF Shapes, Hits, Books
        <3>3. PICK l \in Seq(Entry), old \in {surv[p]} : l = log /\ old = surv[p]
            BY <3>2
        <3>4. PICK S \in SUBSET (1 .. Len(l)), v \in {db[p]}, w \in {Start[p]} : S = Hits(log, p) /\ v = db[p] /\ w = Start[p]
            BY <3>2, <3>3
        <3>5. Shows(l, S, p, old, v) /\ Shows(l, S, p, old, w) /\ old # {}
            BY <3>1, <3>2, <3>3, <3>4
        <3>6. v = w
            BY <3>5, ShowsOne
        <3> QED
            BY <3>4, <3>6
    <2>5. Start' = Start /\ (Open' <=> Open)
        BY <2>1 DEF Start, Open
    <2>6. \A p : Hits(log', p) = {}
        BY <2>1 DEF Hits
    <2>7. ASSUME ~AsyncCommit, Open PROVE Returns
        BY <2>2, <2>4, <2>5, <2>6, <2>7 DEF Returns, Shows
    <2> QED
        BY <1>a, <2>5, <2>7 DEF Past, Returns, AsyncCommit
<1>20. CASE CrashRecover
    BY <1>b, <1>20 DEF CrashRecover, Open
<1>21. ~RestoreFails /\ ~FsyncFails
    BY <1>a, Excluded
<1> QED
    BY <1>1, <1>2, <1>3, <1>4, <1>5, <1>6, <1>7, <1>8, <1>9, <1>10, <1>11, <1>12, <1>13, <1>14, <1>15, <1>16, <1>17,
       <1>18, <1>19, <1>20, <1>21, Zenon DEF Next

-----------------------------------------------------------------------------
(* Who waits for a fence                                                   *)

\* Between calls the present is what readers see.
LEMMA NowNext ==
    ASSUME Good', pc' # "fsync"
    PROVE Now' = db'
BY Blank DEF Good, Shapes, Nesting, Now

\* A call that leaves nothing outstanding in a log that is not poisoned.
LEMMA WaitingSettled ==
    ASSUME ~broken', unit' \in 0 .. 1, ~poisoned', dtx' = <<>>, guard' # "auto",
           AsyncCommit' /\ ~inTx' /\ unit' = 0 => Now' \in legal', pc' = "flush" => synced' = Len(log'),
           AsyncCommit' => Idle' \/ then' = "pending"
    PROVE Waiting'
BY DEF Waiting

\* A call in an open transaction that leaves a deferred commit outstanding, or
\* nothing new.
LEMMA WaitingOpen ==
    ASSUME Waiting, Idle, UNCHANGED <<broken, unit, poisoned, pc>>, inTx', guard' # "auto",
           \/ UNCHANGED <<dtx, queue>> /\ (pendingSync => pendingSync')
           \/ ~poisoned /\ queue' # {} /\ dtx' # <<>> /\ pendingSync'
    PROVE Waiting'
BY DEF Waiting, Open, Idle

\* Every step of a regular setup keeps who waits.
LEMMA WaitingKept ==
    ASSUME Known, Good', Next
    PROVE Waiting'
<1>a. /\ Good /\ Lasts /\ Waiting /\ Shapes /\ Past /\ Nesting /\ Stacked /\ Calls /\ Books /\ Regular
      /\ setup' = setup /\ AsyncCommit' = AsyncCommit
    BY SetupKept DEF Known, Good, Lasts, Fates
<1>b. Idle => Now = db
    BY <1>a, Standing DEF Idle
<1>1. ASSUME NEW ps \in SUBSET Page, StmtDeferred(ps) PROVE Waiting'
    <2>1. /\ Idle /\ ps # {} /\ Defers /\ ~poisoned /\ pendingSync'
          /\ UNCHANGED <<poisoned, broken, inTx, guard, unit, pc, then>>
        BY <1>1 DEF StmtDeferred, txv, guardv, callv
    <2>2. queue' # {} /\ dtx' # <<>>
        <3>1. queue' = queue \cup DOMAIN [p \in ps |-> tick + 1] /\ dtx' = Append(dtx, tick + 1)
            BY <1>1 DEF StmtDeferred, Apply
        <3> QED
            BY <1>a, <2>1, <3>1 DEF Shapes
    <2>3. ~inTx /\ unit = 0 => Now' \in legal'
        <3>1. Now' = db'
            BY <2>1, NowNext DEF Idle
        <3>2. ~inTx /\ unit = 0 => legal' = legal \cup {db'}
            BY <1>1 DEF StmtDeferred
        <3> QED
            BY <3>1, <3>2
    <2> QED
        BY <1>a, <2>1, <2>2, <2>3 DEF Waiting, Open, Defers, Idle
<1>2. ASSUME NEW ps \in SUBSET Page, StmtSync(ps) PROVE Waiting'
    <2>1. /\ ~Defers /\ ~poisoned /\ dtx' = <<>> /\ pc' = "fsync"
          /\ UNCHANGED <<poisoned, broken, unit, guard>>
        BY <1>2 DEF StmtSync, Sync, guardv, unitv
    <2> QED
        BY <1>a, <2>1, WaitingSettled DEF Waiting, Defers
<1>3. CASE Begin
    <2>1. Idle /\ guard = "none" /\ inTx' /\ UNCHANGED <<dtx, poisoned, broken, queue, pc, guard, unit, pendingSync>>
        BY <1>3 DEF Begin, walv, pagev, unitv, guardv, callv
    <2> QED
        BY <1>a, <2>1, WaitingOpen
<1>4. CASE CommitTx
    <2>1. /\ Idle /\ inTx /\ guard = "none" /\ legal' = legal \cup {db}
          /\ UNCHANGED <<poisoned, broken, queue, db, staged, guard, unit, pendingSync>>
        BY <1>4 DEF CommitTx, pagev, guardv, unitv
    <2>2. CASE AsyncCommit
        <3>1. UNCHANGED <<dtx, pc, then>>
            BY <1>4, <2>2 DEF CommitTx
        <3>2. Now' = db
            BY <1>b, <2>1 DEF Now
        <3> QED
            BY <1>a, <2>1, <2>2, <3>1, <3>2 DEF Waiting, Idle
    <2>3. CASE ~AsyncCommit
        <3>1. CanFence /\ dtx' = <<>> /\ pc' = "fsync"
            BY <1>4, <2>3 DEF CommitTx, Sync
        <3> QED
            BY <1>a, <2>1, <2>3, <3>1, Clear, WaitingSettled DEF Waiting
    <2> QED
        BY <2>2, <2>3
<1>5. CASE Rollback
    <2>1. ~AsyncCommit
        BY <1>a, <1>5, Excluded
    <2>2. /\ ~poisoned \/ (dtx = <<>> /\ DOMAIN Undone(undo) = {})
          /\ dtx' = <<>> /\ pc' = "fsync" /\ guard = "none" /\ UNCHANGED <<poisoned, broken, guard, unit>>
        BY <1>5 DEF Rollback, Sync, guardv, unitv
    <2>3. ~poisoned
        BY <1>a, <2>2, Clear
    <2> QED
        BY <1>a, <2>1, <2>2, <2>3, WaitingSettled DEF Waiting
<1>6. CASE AbortFails
    <2>1. /\ Idle /\ dtx # <<>> /\ poisoned' /\ UNCHANGED <<dtx, broken, queue, inTx, pendingSync, pc>>
          /\ \/ inTx /\ guard = "none" /\ UNCHANGED <<guard, unit>>
             \/ guard = "auto" /\ guard' = "none" /\ unit' = unit - 1
        BY <1>6 DEF AbortFails, pagev, txv, guardv, callv, GuardClosed
    <2> QED
        BY <1>a, <2>1 DEF Waiting, Idle
<1>7. CASE Savepoint
    <2>1. Idle /\ inTx /\ guard = "none" /\ UNCHANGED <<dtx, poisoned, broken, queue, pc, guard, unit, pendingSync, inTx>>
        BY <1>7 DEF Savepoint, walv, pagev, unitv, guardv, callv
    <2> QED
        BY <1>a, <2>1, WaitingOpen
<1>8. ASSUME NEW i \in DOMAIN saves, ReleaseSavepoint(i) PROVE Waiting'
    <2>1. Idle /\ inTx /\ guard = "none" /\ UNCHANGED <<dtx, poisoned, broken, queue, pc, guard, unit, pendingSync, inTx>>
        BY <1>8 DEF ReleaseSavepoint, walv, pagev, unitv, guardv, callv
    <2> QED
        BY <1>a, <2>1, WaitingOpen
<1>9. ASSUME NEW i \in DOMAIN saves, RollbackTo(i) PROVE Waiting'
    <2>1. saves[i] \in Level /\ Under(undo, saves[i], Top)
        BY <1>a DEF Shapes, Stacked
    <2>2. /\ Idle /\ RestoreTo(saves[i].mark) /\ UNCHANGED <<synced, surv, poisoned, staged, legal>>
          /\ inTx /\ guard = "none" /\ UNCHANGED <<broken, unit, pc, guard, inTx>>
        BY <1>9 DEF RollbackTo, callv, guardv
    <2>3. pendingSync'
        BY <2>2 DEF RestoreTo
    <2>4. UNCHANGED <<dtx, queue>> \/ (~poisoned /\ queue' # {} /\ dtx' # <<>>)
        BY <1>a, <2>1, <2>2, BackAdds
    <2> QED
        BY <1>a, <2>2, <2>3, <2>4, WaitingOpen
<1>10. CASE GuardBegin
    <2>1. Idle /\ guard = "none" /\ UNCHANGED <<dtx, poisoned, broken, queue, pc, then, inTx, pendingSync>>
        BY <1>10 DEF GuardBegin, walv, pagev, callv, txv
    <2>2. CASE inTx
        <3>1. guard' = "tx" /\ unit' = unit
            BY <1>10, <2>2 DEF GuardBegin
        <3> QED
            BY <1>a, <2>1, <2>2, <3>1, WaitingOpen
    <2>3. CASE ~inTx
        <3>1. unit = 0 /\ ~AsyncCommit
            BY <1>a, <1>10, <2>3, Excluded DEF GuardBegin
        <3>2. unit' = 1 /\ undo' = <<>> /\ guard' = "auto"
            BY <1>10, <2>3, <3>1 DEF GuardBegin
        <3>3. Recorded(undo') = {}
            BY <3>2 DEF Recorded
        <3> QED
            BY <1>a, <2>1, <3>1, <3>2, <3>3 DEF Waiting, Open, Idle
    <2> QED
        BY <2>2, <2>3
<1>c. ASSUME NEW cont, Idle, unit = 1, CanFence, UnitSync(<<>>, dtx, db, cont), guard' = "none", ~inTx',
             UNCHANGED <<synced, surv, poisoned, staged, db, broken, pendingSync, queue>>
      PROVE Waiting'
    <2>1. ~poisoned /\ unit' = 0 /\ db \in legal'
        BY <1>a, <1>c, Clear, UnitEnds
    <2>2. Now' = db
        BY <1>b, <1>c DEF Now
    <2>3. CASE (AsyncCommit \/ ~pendingSync) /\ UNCHANGED <<log, dtx, pc, then>>
        BY <1>a, <1>c, <2>1, <2>2, <2>3 DEF Waiting, Idle
    <2>4. CASE ~AsyncCommit /\ Fences /\ pc' = "fsync"
        <3>1. dtx' = <<>>
            BY <2>4 DEF Fences
        <3> QED
            BY <1>a, <1>c, <2>1, <2>4, <3>1, WaitingSettled DEF Waiting
    <2> QED
        BY <1>a, <1>c, <2>3, <2>4, UnitEnds
<1>11. CASE GuardOk
    <2>1. /\ Idle /\ guard' = "none"
          /\ UNCHANGED <<synced, surv, poisoned, staged, db, broken, pendingSync, queue, inTx>>
        BY <1>11 DEF GuardOk, GuardClosed, pagev, txv
    <2>2. CASE guard = "tx"
        <3>1. inTx /\ UNCHANGED <<dtx, unit, pc>>
            BY <1>a, <1>11, <2>2 DEF GuardOk, Nesting
        <3> QED
            BY <1>a, <2>1, <3>1, WaitingOpen
    <2>3. CASE guard = "auto"
        <3>1. CanFence /\ UnitSync(<<>>, dtx, db, "guard")
            BY <1>11, <2>3 DEF GuardOk
        <3>2. unit = 1 /\ ~inTx
            BY <1>a, <2>3 DEF Waiting, Nesting
        <3> QED
            BY <1>c, <2>1, <3>1, <3>2
    <2> QED
        BY <1>11, <2>2, <2>3 DEF GuardOk
<1>12. CASE GuardFails
    <2>1. Idle /\ guard' = "none" /\ UNCHANGED <<synced, surv, poisoned, staged, broken, inTx>>
        BY <1>12 DEF GuardFails, GuardClosed, txv
    <2>2. CASE guard = "tx"
        <3>1. gsave \in Level /\ Under(undo, gsave, Top) /\ inTx
            BY <1>a, <2>2 DEF Shapes, Stacked, Nesting
        <3>2. RestoreTo(gsave.mark) /\ UNCHANGED <<legal, unit, pc>>
            BY <1>12, <2>2 DEF GuardFails
        <3>3. pendingSync'
            BY <3>2 DEF RestoreTo
        <3>4. UNCHANGED <<dtx, queue>> \/ (~poisoned /\ queue' # {} /\ dtx' # <<>>)
            BY <1>a, <2>1, <3>1, <3>2, BackAdds
        <3> QED
            BY <1>a, <2>1, <3>1, <3>2, <3>3, <3>4, WaitingOpen
    <2>3. CASE guard = "auto"
        <3>1. dtx' = <<>> /\ ~poisoned /\ unit' = 0 /\ ~AsyncCommit
            BY <1>a, <1>12, <2>3, GuardUndone
        <3>2. pc' # "flush"
            BY <1>12, <2>1, <2>3, Zenon DEF GuardFails, UnitSync, Sync, Idle
        <3> QED
            BY <1>a, <2>1, <3>1, <3>2, WaitingSettled DEF Waiting
    <2> QED
        BY <1>12, <2>2, <2>3 DEF GuardFails
<1>13. CASE UnitBegin
    <2>1. /\ Idle /\ guard = "none" /\ unit' = 1
          /\ UNCHANGED <<dtx, poisoned, broken, queue, guard, pendingSync, pc, then>>
        BY <1>13 DEF UnitBegin, walv, pagev, guardv, callv
    <2> QED
        BY <1>a, <2>1 DEF Waiting, Idle
<1>14. CASE UnitEnd
    <2>1. /\ Idle /\ guard = "none" /\ unit = 1 /\ CanFence /\ UnitSync(<<>>, dtx, db, "unit")
          /\ UNCHANGED <<synced, surv, poisoned, staged, db, broken, pendingSync, queue, inTx, guard>>
        BY <1>a, <1>14 DEF UnitEnd, pagev, txv, guardv, Waiting
    <2>2. ~inTx
        BY <1>a, <2>1 DEF Calls
    <2> QED
        BY <1>c, <2>1, <2>2
<1>15. CASE SyncPending
    <2>1. /\ Idle /\ ~inTx /\ guard = "none" /\ unit = 0 /\ AsyncCommit /\ CanFence /\ dtx' = <<>>
          /\ pc' = "fsync" /\ then' = "pending" /\ UNCHANGED <<poisoned, broken, db, staged, guard, unit, legal>>
        BY <1>15 DEF SyncPending, Sync, pagev, guardv, unitv
    <2>2. Now' = Now
        BY <2>1 DEF Now
    <2> QED
        BY <1>a, <2>1, <2>2, Clear, WaitingSettled DEF Waiting
<1>16. CASE FsyncOk
    <2>1. /\ pc = "fsync" /\ pc' = "flush" /\ db' = Now /\ legal' = (IF Acknowledges THEN {db'} ELSE legal)
          /\ UNCHANGED <<log, dtx, poisoned, broken, inTx, guard, unit, then>>
        BY <1>16 DEF FsyncOk, Now, txv, guardv
    <2>2. ~Idle /\ dtx = <<>> /\ ~poisoned /\ guard = "none" /\ ~broken
        BY <1>a, <2>1 DEF Waiting, Nesting, Idle
    <2>3. synced' = Len(log)
        BY <1>16, <2>2 DEF FsyncOk
    <2>4. Now' = Now
        BY <2>1, NowNext
    <2>5. AsyncCommit /\ ~inTx /\ unit = 0 => Now \in legal'
        BY <1>a, <2>1 DEF Waiting
    <2>6. AsyncCommit => then = "pending"
        BY <1>a, <2>2 DEF Waiting
    <2> QED
        BY <1>a, <2>1, <2>2, <2>3, <2>4, <2>5, <2>6, WaitingSettled DEF Waiting
<1>17. ASSUME NEW p \in Page, FlushPage(p) PROVE Waiting'
    <2>1. pc = "flush" /\ UNCHANGED <<log, synced, dtx, poisoned, broken, db, staged, inTx, guard, unit, pc, then, legal>>
        BY <1>17 DEF FlushPage, walv, txv, guardv, unitv, callv
    <2>2. ~Idle /\ dtx = <<>> /\ ~poisoned /\ guard = "none"
        BY <1>a, <2>1 DEF Waiting, Nesting, Idle
    <2>3. Now' = Now
        BY <2>1 DEF Now
    <2> QED
        BY <1>a, <2>1, <2>2, <2>3, WaitingSettled DEF Waiting
<1>18. CASE FlushDone
    <2>1. pc = "flush" /\ pc' = "idle" /\ UNCHANGED <<log, synced, dtx, poisoned, broken, db, staged, guard, unit, legal>>
        BY <1>18 DEF FlushDone, walv, pagev, guardv, unitv
    <2>2. ~Idle /\ dtx = <<>> /\ ~poisoned /\ guard = "none"
        BY <1>a, <2>1 DEF Waiting, Nesting, Idle
    <2>3. Now' = Now
        BY <2>1 DEF Now
    <2>4. AsyncCommit => inTx' = inTx
        BY <1>a, <1>18, <2>2 DEF FlushDone, Waiting, txv
    <2> QED
        BY <1>a, <2>1, <2>2, <2>3, <2>4, WaitingSettled DEF Waiting, Idle
<1>19. CASE Truncate
    <2>1. /\ Idle /\ dtx' = <<>> /\ ~poisoned' /\ ~broken'
          /\ UNCHANGED <<db, staged, inTx, guard, undo, unit, pendingSync, pc, then, legal>>
        BY <1>19 DEF Truncate, undov, txv, guardv, unitv, callv
    <2>2. Now' = Now
        BY <2>1 DEF Now
    <2> QED
        BY <1>a, <2>1, <2>2 DEF Waiting, Idle
<1>20. CASE CrashRecover
    <2>1. /\ dtx' = <<>> /\ ~poisoned' /\ ~broken' /\ unit' = 0 /\ guard' = "none" /\ pc' = "idle" /\ db' \in legal'
        BY <1>20 DEF CrashRecover
    <2>2. Now' = db'
        BY <2>1, NowNext
    <2> QED
        BY <2>1, <2>2, WaitingSettled DEF Idle
<1>21. ~RestoreFails /\ ~FsyncFails
    BY <1>a, Excluded
<1> QED
    BY <1>1, <1>2, <1>3, <1>4, <1>5, <1>6, <1>7, <1>8, <1>9, <1>10, <1>11, <1>12, <1>13, <1>14, <1>15, <1>16, <1>17,
       <1>18, <1>19, <1>20, <1>21, Zenon DEF Next

\* The second inductive invariant holds: a fence would make the present
\* durable, and without one recovery goes back to the start of what is open
\* (Wal::fence, Wal::recover, Pager::recover).
THEOREM RecoveryInvariant ==
    Spec => []RInv
<1>1. Init => RInv
    <2> SUFFICES ASSUME Init PROVE RInv
        OBVIOUS
    <2>1. PICK v \in Pages : v = Zero
        BY DEF Pages, Value, Zero
    <2>2. /\ log = <<>> /\ synced = 0 /\ dtx = <<>> /\ ~poisoned /\ ~broken /\ db = v /\ legal = {v}
          /\ ~inTx /\ guard = "none" /\ unit = 0 /\ pc = "idle" /\ DOMAIN staged = {}
        BY <2>1 DEF Init, NoImages
    <2>3. surv = [p \in Page |-> {v[p]}]
        BY <2>1 DEF Init, Zero
    <2>4. Now = v
        BY <2>2, Blank DEF Now
    <2>5. Lasts
        <3>1. Len(<<>>) = 0 /\ <<>> \in Seq(Entry) /\ \A i \in 1 .. 0 : FALSE
            OBVIOUS
        <3>2. \A p : Hits(log, p) = {} /\ KeptHits(log, p) = {}
            BY <2>2, <3>1 DEF Hits, KeptHits
        <3>3. \A p \in Page : Shows(log, {}, p, surv[p], v[p])
            BY <2>3 DEF Shows
        <3>4. Ends(log, synced, surv, legal)
            <4>1. PICK l \in Seq(Entry), s \in {surv} : l = log /\ s = surv
                BY <2>2, <3>1
            <4>2. \A p \in Page : Shows(l, Hits(l, p), p, s[p], v[p])
                BY <3>2, <3>3, <4>1
            <4>3. Ends(l, Len(l), s, {v})
                BY <4>2, EndsAt
            <4> QED
                BY <2>2, <3>1, <4>1, <4>3
        <3>5. Present
            BY <2>4, <3>2, <3>3 DEF Present
        <3>6. Books
            BY <2>2, <2>3, <3>1, <3>2 DEF Books
        <3> QED
            BY <3>4, <3>5, <3>6 DEF Lasts
    <2>6. Past /\ Waiting
        BY <2>2, <2>4 DEF Past, Waiting, Open, Idle
    <2> QED
        BY <2>5, <2>6 DEF RInv
<1>2. RInv /\ FInv /\ FInv' /\ [Next]_vars => RInv'
    <2> SUFFICES ASSUME RInv, FInv, FInv', [Next]_vars, Regular' PROVE (Lasts /\ Past /\ Waiting)'
        BY DEF RInv
    <2>1. CASE Next
        <3>1. Regular
            BY <2>1, SetupKept
        <3>2. Known
            BY <3>1 DEF Known, RInv, FInv, Regular
        <3>3. Good'
            BY DEF FInv, Regular
        <3> QED
            BY <2>1, <3>2, <3>3, LastsKept, PastKept, WaitingKept
    <2>2. CASE UNCHANGED vars
        <3>1. UNCHANGED <<log, synced, dtx, poisoned, broken, db, queue, surv, undo, inTx, base, guard, gsave, unit,
                          pendingSync, pc, then, staged, setup, legal>>
            BY <2>2 DEF vars, walv, pagev, undov, txv, guardv, unitv, callv, runv
        <3>2. Lasts /\ Past /\ Waiting
            BY <3>1 DEF RInv, Regular, Features, AsyncCommit
        <3>3. Now' = Now /\ Start' = Start /\ (Open' <=> Open) /\ (Idle' <=> Idle) /\ AsyncCommit' = AsyncCommit
            BY <3>1 DEF Now, Start, Open, Idle, AsyncCommit
        <3>4. Lasts'
            BY <3>1, <3>2, <3>3, StillKept
        <3>5. Past'
            BY <3>1, <3>2, <3>3 DEF Past
        <3>6. Waiting'
            BY <3>1, <3>2, <3>3 DEF Waiting
        <3> QED
            BY <3>4, <3>5, <3>6
    <2> QED
        BY <2>1, <2>2
<1> QED
    BY <1>1, <1>2, FatesInvariant, PTL DEF Spec

\* Whatever prefix of the log and whatever mix of data pages a power failure
\* leaves, recovery yields a state of the committed history that is no older
\* than the last acknowledged one, for any pages, any transactions and any
\* regular setup (Pager::recover, DeferredSet, Wal::fence, commit_tx_inner).
THEOREM CommittedStateRecovers ==
    Spec => []Recoverable
<1>1. RInv /\ FInv => Recoverable
    <2> SUFFICES ASSUME RInv, FInv, Regular PROVE Outcomes \subseteq legal
        BY DEF Recoverable
    <2>1. surv \in [Page -> SUBSET Value]
        BY DEF FInv, Regular, Good, Shapes
    <2>2. Ends(log, synced, surv, legal)
        BY DEF RInv, Lasts
    <2>3. PICK s \in [Page -> SUBSET Value], l \in {log}, n \in {synced}, S \in {legal} : s = surv /\ l = log /\ n = synced /\ S = legal
        BY <2>1
    <2> DEFINE D == {d \in [Page -> UNION {s[p] : p \in Page}] : \A p \in Page : d[p] \in s[p]}
    <2>4. Ends(l, n, s, S)
        BY <2>2, <2>3
    <2>5. {RecoverFrom(SubSeq(l, 1, k), d) : k \in n .. Len(l), d \in D} \subseteq S
        BY <2>4, EndsIs
    <2>6. D = DiskStates
        BY <2>3 DEF DiskStates
    <2> HIDE DEF D
    <2> QED
        BY <2>3, <2>5, <2>6 DEF Outcomes
<1> QED
    BY <1>1, FatesInvariant, RecoveryInvariant, PTL
=============================================================================
