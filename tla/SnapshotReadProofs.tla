-------------------------- MODULE SnapshotReadProofs --------------------------
(***************************************************************************)
(* Snapshot reads for any number of pages, readers, commits and epochs.    *)
(***************************************************************************)
EXTENDS SnapshotRead, SequenceTheorems, WellFoundedInduction, TLAPS

-----------------------------------------------------------------------------
(* The inductive invariant                                                 *)

Image == Nat \cup {None}
Commits == [lsn : Nat, pages : SUBSET Pages, stamp : Nat]
Steps == {"idle", "dirty", "touch", "lsn0", "ep0", "pending", "file", "lock", "recheck", "verify",
          "verifyEpoch", "scan", "install", "cached"}
Read == [pc : Steps, page : Pages \cup {None}, v0 : Image, ep0 : Image, lsn : Image, img : Image,
         got : [Pages -> Image], tries : Nat, out : {"none", "ok", "old", "lost", "spun"}]
Snapshot == [on : BOOLEAN, epoch : Nat, lsn : Nat, cache : [Pages -> Image], mat : BOOLEAN]

\* Shapes of the log, the images, the registry and the reads.
Shapes ==
  /\ wal \in Seq(Commits) /\ walEp \in Nat /\ epoch \in Nat /\ pageLsn \in [Pages -> Image]
  /\ pool \in [Pages -> Image] /\ pending \in [Pages -> Image] /\ file \in [Pages -> Nat]
  /\ snaps \in [Readers -> Snapshot] /\ rd \in [Readers -> Read]
  /\ \A r \in Readers : rd[r].pc # "idle" => rd[r].page \in Pages
  /\ wpc \in {"idle", "preserve", "apply", "flush", "retire", "repool", "publish", "clear"}
  /\ wset \in SUBSET Pages /\ stamp \in Nat /\ mixed \in BOOLEAN /\ seen \in [Readers -> [Pages -> Image]]

\* The newest image of page p in log w up to LSN n.
Found(w, p, n) ==
  LET hits == {i \in 1 .. Len(w) : w[i].lsn <= n /\ p \in w[i].pages}
  IN  IF hits = {} THEN None ELSE w[CHOOSE i \in hits : \A j \in hits : j <= i].stamp

\* The writer is emptying the log, or has appended a commit it has not applied.
Emptying == wpc \in {"publish", "clear"}
Logged == wpc \in {"preserve", "apply"}
Applied == IF Logged THEN Len(wal) - 1 ELSE Len(wal)

\* Where the writer is, in the log and in the epochs.
Writing ==
  /\ walEp = IF wpc = "publish" THEN epoch + 1 ELSE epoch
  /\ Emptying => wal = <<>>
  /\ Logged => wal # <<>> /\ wal[Len(wal)].stamp = stamp /\ wal[Len(wal)].pages = wset
  /\ wpc = "retire" => \A p \in wset : file[p] = pending[p]
  /\ wpc = "repool" => \A p \in wset : pending[p] = None

\* LSNs count the commits of the log; a page's is that of its newest commit
\* that has been applied, whose image is the page's latest.
Numbered ==
  /\ \A i \in 1 .. Len(wal) : wal[i].lsn = i
  /\ ~Emptying => \A p \in Pages :
        /\ pageLsn[p] # None => /\ pageLsn[p] \in 1 .. Applied /\ p \in wal[pageLsn[p]].pages
                                /\ wal[pageLsn[p]].stamp = Latest(p)
        /\ \A i \in 1 .. Applied : p \in wal[i].pages => i <= pageLsn[p]

\* Snapshot r's epoch is the log's; is the one the LSNs belong to.
Logging(r) == snaps[r].on /\ snaps[r].epoch = walEp
Live(r) == snaps[r].on /\ snaps[r].epoch = LsnEpoch
Kept(r, p) == Found(wal, p, snaps[r].lsn) # None \/ snaps[r].cache[p] # None

\* What a snapshot can count on: pages not written since are as it saw them,
\* the others are in the log or in its cache.
Registered(r) ==
  LET s == snaps[r]
  IN  /\ s.on => s.epoch <= walEp /\ (Emptying => s.epoch # walEp)
      /\ ~s.on => rd[r].pc = "idle" /\ rd[r].out = "none"
      /\ Live(r) => \A p \in Pages : Within(pageLsn[p], s) => Latest(p) = seen[r][p]
      /\ Logging(r) =>
            /\ s.lsn <= Applied
            /\ \A p \in Pages :
                  /\ Found(wal, p, s.lsn) # None => Found(wal, p, s.lsn) = seen[r][p] /\ (s.mat => s.cache[p] # None)
                  /\ ~Within(pageLsn[p], s) => Kept(r, p)
                  /\ wpc = "apply" /\ p \in wset /\ pageLsn[p] = None => s.cache[p] # None

\* Reads on their way to the log or the cache, whatever the samples were.
Searching(r) ==
  LET a == rd[r]
      s == snaps[r]
  IN  /\ a.pc # "idle" => a.out = "none"
      /\ Refused(r) => s.on /\ s.epoch # walEp
      /\ a.pc = "verifyEpoch" /\ Logging(r) /\ ~Within(a.lsn, s) => Kept(r, a.page)
      /\ a.pc \in {"scan", "install", "cached"} /\ Logging(r) => Kept(r, a.page)
      /\ a.pc = "install" /\ Logging(r) => \A p \in Pages : a.got[p] = Found(wal, p, s.lsn)
      /\ a.pc = "cached" => s.mat

\* A read that compares versions holds the pool.
Holding == \A r \in Readers : rd[r].pc = "recheck" => poolBy = r

\* Page a.page has the version that read a sampled.
Matches(a) == LsnEpoch = a.ep0 /\ pageLsn[a.page] = a.v0

\* Reads of the current image.
Reading(r) ==
  LET a == rd[r]
      s == snaps[r]
      Untouched == Live(r) /\ Within(pageLsn[a.page], s)
  IN  /\ a.pc \in {"ep0", "pending", "file", "lock", "recheck"} =>
            a.ep0 <= LsnEpoch /\ (LsnEpoch = a.ep0 => a.v0 <= pageLsn[a.page])
      /\ a.pc = "file" /\ (Matches(a) \/ Untouched) => pending[a.page] = None
      /\ a.pc \in {"lock", "recheck"} /\ Matches(a) => a.img = Latest(a.page)
      /\ a.pc = "recheck" /\ LsnEpoch = a.ep0 => a.lsn = pageLsn[a.page]
      /\ a.pc \in {"lock", "recheck", "verify"} /\ Untouched => a.img = seen[r][a.page]
      /\ a.pc = "verifyEpoch" /\ Live(r) /\ Within(a.lsn, s) => a.img = seen[r][a.page]
      /\ a.out = "ok" => a.img = seen[r][a.page]
      /\ s.on => \A p \in Pages : s.cache[p] # None => s.cache[p] = seen[r][p]

IInv ==
  /\ Shapes /\ Writing /\ Numbered /\ Holding
  /\ \A r \in Readers : Registered(r) /\ Searching(r)
  /\ ~mixed => Fresh /\ \A r \in Readers : Reading(r)

-----------------------------------------------------------------------------
(* Reads and writes, apart                                                 *)

\* A reader's step leaves the log, the writer and the other readers alone.
LEMMA Apart ==
  ASSUME NEW r \in Readers, Reader(r)
  PROVE /\ UNCHANGED <<wal, walEp, epoch, pageLsn, pending, file, wpc, wset, stamp>>
        /\ Shapes => \A q \in Readers : q # r => rd'[q] = rd[q] /\ snaps'[q] = snaps[q] /\ seen'[q] = seen[q]
        /\ BeginSnapshot(r) \/ EndSnapshot(r) \/ (Install(r) /\ walEp = snaps[r].epoch) \/ UNCHANGED <<snaps, seen>>
        /\ LockPool(r) \/ Recheck(r) \/ UNCHANGED <<pool, poolBy>>
        /\ VersionEpoch(r) \/ UNCHANGED mixed
<1> DEFINE Goal == /\ UNCHANGED <<wal, walEp, epoch, pageLsn, pending, file, wpc, wset, stamp>>
                   /\ Shapes => \A q \in Readers : q # r => rd'[q] = rd[q] /\ snaps'[q] = snaps[q] /\ seen'[q] = seen[q]
                   /\ BeginSnapshot(r) \/ EndSnapshot(r) \/ (Install(r) /\ walEp = snaps[r].epoch) \/ UNCHANGED <<snaps, seen>>
                   /\ LockPool(r) \/ Recheck(r) \/ UNCHANGED <<pool, poolBy>>
                   /\ VersionEpoch(r) \/ UNCHANGED mixed
<1> SUFFICES Goal
  OBVIOUS
<1> USE DEF logVars, imgVars, writer, Goto, Got, Shapes
<1>1. CASE BeginSnapshot(r)
  BY <1>1 DEF BeginSnapshot
<1>2. CASE EndSnapshot(r)
  BY <1>2 DEF EndSnapshot
<1>3. ASSUME NEW p \in Pages, StartRead(r, p)
      PROVE Goal
  BY <1>3 DEF StartRead
<1>4. CASE DirtyAt(r)
  BY <1>4 DEF DirtyAt
<1>5. CASE PoolTouch(r)
  BY <1>5 DEF PoolTouch
<1>6. CASE VersionLsn(r)
  BY <1>6 DEF VersionLsn
<1>7. CASE VersionEpoch(r)
  BY <1>7 DEF VersionEpoch
<1>8. CASE PendingGet(r)
  BY <1>8 DEF PendingGet
<1>9. CASE FileRead(r)
  BY <1>9 DEF FileRead
<1>10. CASE LockPool(r)
  BY <1>10 DEF LockPool
<1>11. CASE Recheck(r)
  BY <1>11 DEF Recheck
<1>12. CASE VerifyLsn(r)
  BY <1>12 DEF VerifyLsn
<1>13. CASE VerifyEpoch(r)
  BY <1>13 DEF VerifyEpoch
<1>14. CASE Scan(r)
  BY <1>14 DEF Scan
<1>15. CASE Install(r)
  BY <1>15 DEF Install
<1>16. CASE CacheGet(r)
  BY <1>16 DEF CacheGet
<1> HIDE DEF Goal, logVars, imgVars, writer, Goto, Got, Shapes
<1> QED
  BY <1>1, <1>2, <1>3, <1>4, <1>5, <1>6, <1>7, <1>8, <1>9, <1>10, <1>11, <1>12, <1>13, <1>14, <1>15, <1>16 DEF Reader

\* A step of the writer leaves the reads alone.
LEMMA WriterLeaves ==
  ASSUME Writer
  PROVE UNCHANGED <<rd, seen, mixed, poolBy>>
<1>1. CASE \E ps \in SUBSET Pages : AppendCommit(ps)
  BY <1>1 DEF AppendCommit
<1>2. CASE Preserve \/ Apply
  BY <1>2 DEF Preserve, Apply
<1>3. CASE (\E p \in Pages : FlushPage(p)) \/ Retire \/ Repool \/ FlushEnd
  BY <1>3 DEF FlushPage, Retire, Repool, FlushEnd
<1>4. CASE (\E respect \in BOOLEAN : Truncate(respect)) \/ PublishEpoch \/ ClearLsn
  BY <1>4 DEF Truncate, PublishEpoch, ClearLsn
<1> QED
  BY <1>1, <1>2, <1>3, <1>4 DEF Writer

-----------------------------------------------------------------------------
(* Shapes                                                                  *)

\* What can stand in a page table.
LEMMA Blanks ==
  /\ Blank \in [Pages -> Image] /\ None \in Image /\ Nat \subseteq Image /\ Image \subseteq Int
  /\ NoRead \in Read /\ NoSnap \in Snapshot /\ \A p \in Pages : Blank[p] = None
<1>1. /\ Blank \in [Pages -> Image] /\ None \in Image /\ Nat \subseteq Image /\ Image \subseteq Int
      /\ \A p \in Pages : Blank[p] = None
  BY DEF Blank, Image, None

<1>2. NoRead \in Read
  BY <1>1 DEF NoRead, Read, Steps
<1>3. NoSnap \in Snapshot
  BY <1>1 DEF NoSnap, Snapshot
<1> QED
  BY <1>1, <1>2, <1>3

\* The latest image of a page is one.
LEMMA LatestIs ==
  ASSUME Shapes, NEW p \in Pages
  PROVE Latest(p) \in Nat
BY DEF Latest, Shapes, Image, None

\* Length of the log and its last LSN.
LEMMA LogIs ==
  ASSUME Shapes
  PROVE /\ Len(wal) \in Nat /\ \A i \in 1 .. Len(wal) : wal[i] \in Commits
        /\ LastLsn(wal) \in Nat /\ (wal = <<>> <=> Len(wal) = 0)
        /\ Numbered => LastLsn(wal) = Len(wal)
<1>1. Len(wal) \in Nat /\ \A i \in 1 .. Len(wal) : wal[i] \in Commits
  BY LenProperties, ElementOfSeq DEF Shapes
<1>2. wal = <<>> <=> Len(wal) = 0
  BY EmptySeq DEF Shapes
<1>3. wal # <<>> => Len(wal) \in 1 .. Len(wal) /\ wal[Len(wal)].lsn \in Nat
  BY <1>1, <1>2 DEF Commits
<1> QED
  BY <1>1, <1>2, <1>3 DEF LastLsn, Numbered

\* A nonempty set of naturals has a least element.
LEMMA LeastOf ==
  ASSUME NEW S \in SUBSET Nat, S # {}
  PROVE \E x \in S : \A y \in S : x <= y
<1>1. PICK x \in S : \A y \in S : ~(<<y, x>> \in OpToRel(<, Nat))
  BY NatLessThanWellFounded, WFMin
<1>2. ASSUME NEW y \in S PROVE x <= y
  <2>1. x \in Nat /\ y \in Nat /\ <<y, x>>[1] = y /\ <<y, x>>[2] = x
    OBVIOUS
  <2>2. ~(y < x)
    BY <1>1, <2>1 DEF OpToRel
  <2> QED
    BY <2>1, <2>2
<1> QED
  BY <1>2

\* A nonempty bounded set of naturals has a greatest element.
LEMMA GreatestOf ==
  ASSUME NEW n \in Nat, NEW S \in SUBSET (1 .. n), S # {}
  PROVE \E x \in S : \A y \in S : y <= x
<1> DEFINE T == {n - x : x \in S}
<1>1. T \in SUBSET Nat /\ T # {}
  <2>1. \A x \in S : n - x \in Nat
    OBVIOUS
  <2> QED
    BY <2>1
<1>2. PICK m \in T : \A y \in T : m <= y
  BY <1>1, LeastOf
<1>3. PICK x \in S : m = n - x
  BY <1>2
<1>4. \A y \in S : y <= x
  <2> SUFFICES ASSUME NEW y \in S PROVE y <= x
    OBVIOUS
  <2>1. n - y \in T /\ x \in 1 .. n /\ y \in 1 .. n
    OBVIOUS
  <2>2. n - x <= n - y
    BY <1>2, <1>3, <2>1
  <2> QED
    BY <2>1, <2>2
<1> QED
  BY <1>4

\* What a scan of the log finds: nothing, or the image of the newest commit
\* of the page within the LSN.
LEMMA FoundIs ==
  ASSUME NEW w \in Seq(Commits), NEW p \in Pages, NEW n \in Nat
  PROVE /\ Found(w, p, n) \in Image
        /\ Found(w, p, n) = None <=> \A i \in 1 .. Len(w) : w[i].lsn <= n => p \notin w[i].pages
        /\ Found(w, p, n) # None => \E i \in 1 .. Len(w) :
              /\ w[i].lsn <= n /\ p \in w[i].pages /\ Found(w, p, n) = w[i].stamp
              /\ \A j \in 1 .. Len(w) : w[j].lsn <= n /\ p \in w[j].pages => j <= i
<1> DEFINE hits == {i \in 1 .. Len(w) : w[i].lsn <= n /\ p \in w[i].pages}
<1>0. Len(w) \in Nat /\ \A i \in 1 .. Len(w) : w[i] \in Commits
  BY LenProperties, ElementOfSeq
<1>1. CASE hits = {}
  <2>1. Found(w, p, n) = None
    BY <1>1 DEF Found
  <2> QED
    BY <1>1, <2>1 DEF Image
<1>2. CASE hits # {}
  <2>1. \E i \in hits : \A j \in hits : j <= i
    BY <1>0, <1>2, GreatestOf
  <2> DEFINE c == CHOOSE i \in hits : \A j \in hits : j <= i
  <2>2. c \in hits /\ \A j \in hits : j <= c
    BY <2>1
  <2>3. Found(w, p, n) = w[c].stamp
    BY <1>2 DEF Found
  <2>4. w[c].stamp \in Nat
    BY <1>0, <2>2 DEF Commits
  <2> HIDE DEF c
  <2>5. Found(w, p, n) # None /\ Found(w, p, n) \in Image
    BY <2>3, <2>4 DEF None, Image
  <2> QED
    BY <2>2, <2>3, <2>5
<1> QED
  BY <1>1, <1>2

\* materialize_snapshot's scan.
LEMMA NewestIs ==
  ASSUME NEW p, NEW s
  PROVE Newest(p, s) = Found(wal, p, s.lsn)
BY DEF Newest, Found

\* Insertion into the pool, evicting a page when it is full.
LEMMA InsertIs ==
  ASSUME Shapes, NEW p \in Pages, NEW img \in Image, Insert(p, img)
  PROVE pool' \in [Pages -> Image] /\ \A q \in Pages : pool'[q] \in {None, pool[q]} \/ (q = p /\ pool'[q] = img)
<1>1. CASE Full
  <2>1. PICK q \in Pages : pool' = [pool EXCEPT ![q] = None, ![p] = img]
    BY <1>1 DEF Insert
  <2> QED
    BY <2>1, Blanks DEF Shapes
<1>2. CASE ~Full
  BY <1>2 DEF Insert, Shapes
<1> QED
  BY <1>1, <1>2

\* Moving a read on, and taking an image.
LEMMA Moves ==
  ASSUME Shapes, NEW r \in Readers, NEW c \in Steps, NEW img \in Image
  PROVE /\ Goto(r, c) => rd' \in [Readers -> Read] /\ rd'[r] = [rd[r] EXCEPT !.pc = c]
        /\ Got(r, img) => rd' \in [Readers -> Read] /\ rd'[r] = [rd[r] EXCEPT !.img = img, !.pc = "verify"]
<1>1. rd \in [Readers -> Read] /\ rd[r] \in Read
  BY DEF Shapes
<1>2. [rd[r] EXCEPT !.pc = c] \in Read /\ [rd[r] EXCEPT !.img = img, !.pc = "verify"] \in Read
  BY <1>1 DEF Read, Steps
<1> QED
  BY <1>1, <1>2 DEF Goto, Got

\* A reader's step keeps the shapes.
LEMMA ReaderShapes ==
  ASSUME Shapes, NEW r \in Readers, Reader(r)
  PROVE Shapes'
<1>0. /\ UNCHANGED <<wal, walEp, epoch, pageLsn, pending, file, wpc, wset, stamp>>
      /\ \A q \in Readers : q # r => rd'[q] = rd[q]
  BY Apart
<1> DEFINE Goal == /\ pool' \in [Pages -> Image] /\ snaps' \in [Readers -> Snapshot] /\ rd' \in [Readers -> Read]
                   /\ mixed' \in BOOLEAN /\ seen' \in [Readers -> [Pages -> Image]]
                   /\ rd'[r].pc # "idle" => rd'[r].page \in Pages
<1> SUFFICES Goal
  BY <1>0 DEF Shapes
<1>a. /\ pool \in [Pages -> Image] /\ snaps \in [Readers -> Snapshot] /\ rd \in [Readers -> Read]
      /\ mixed \in BOOLEAN /\ seen \in [Readers -> [Pages -> Image]]
      /\ pageLsn \in [Pages -> Image] /\ pending \in [Pages -> Image] /\ file \in [Pages -> Nat]
      /\ epoch \in Nat /\ walEp \in Nat /\ wal \in Seq(Commits)
      /\ rd[r].pc # "idle" => rd[r].page \in Pages
  BY DEF Shapes
<1>b. /\ Blank \in [Pages -> Image] /\ None \in Image /\ Nat \subseteq Image
      /\ NoRead \in Read /\ NoSnap \in Snapshot
  BY Blanks
<1>c. rd[r] \in Read /\ snaps[r] \in Snapshot
  BY <1>a
<1>d. /\ \A c \in Steps : Goto(r, c) => rd' \in [Readers -> Read] /\ rd'[r].pc = c /\ rd'[r].page = rd[r].page
      /\ \A i \in Image : Got(r, i) => rd' \in [Readers -> Read] /\ rd'[r].pc = "verify" /\ rd'[r].page = rd[r].page
  <2>1. \A c \in Steps : [rd[r] EXCEPT !.pc = c].pc = c /\ [rd[r] EXCEPT !.pc = c].page = rd[r].page
    BY <1>c DEF Read
  <2>2. \A i \in Image : /\ [rd[r] EXCEPT !.img = i, !.pc = "verify"].pc = "verify"
                         /\ [rd[r] EXCEPT !.img = i, !.pc = "verify"].page = rd[r].page
    BY <1>c DEF Read
  <2>3. "idle" \in Steps
    BY DEF Steps
  <2>4. ASSUME NEW c \in Steps, Goto(r, c)
        PROVE rd' \in [Readers -> Read] /\ rd'[r].pc = c /\ rd'[r].page = rd[r].page
    <3>1. rd' \in [Readers -> Read] /\ rd'[r] = [rd[r] EXCEPT !.pc = c]
      BY <1>b, <2>4, Moves
    <3> QED
      BY <2>1, <3>1
  <2>5. ASSUME NEW i \in Image, Got(r, i)
        PROVE rd' \in [Readers -> Read] /\ rd'[r].pc = "verify" /\ rd'[r].page = rd[r].page
    <3>1. rd' \in [Readers -> Read] /\ rd'[r] = [rd[r] EXCEPT !.img = i, !.pc = "verify"]
      BY <2>3, <2>5, Moves
    <3> QED
      BY <2>2, <3>1
  <2> QED
    BY <2>4, <2>5
<1>f. ASSUME NEW x \in Read, x.page = rd[r].page, rd[r].pc # "idle", rd' = [rd EXCEPT ![r] = x],
             UNCHANGED <<pool, snaps, mixed, seen>>
      PROVE Goal
  BY <1>a, <1>f
<1>e. LsnEpoch \in Image
  BY <1>a DEF LsnEpoch, Image, None
<1>1. CASE BeginSnapshot(r)
  <2>1. [p \in Pages |-> Latest(p)] \in [Pages -> Image]
    BY <1>b, LatestIs
  <2>2. LastLsn(wal) \in Nat
    BY LogIs
  <2>3. [NoSnap EXCEPT !.on = TRUE, !.epoch = walEp, !.lsn = LastLsn(wal)] \in Snapshot
    BY <1>a, <1>b, <2>2 DEF Snapshot
  <2> QED
    BY <1>1, <1>a, <2>1, <2>3 DEF BeginSnapshot, imgVars
<1>2. CASE EndSnapshot(r)
  <2>1. rd'[r].pc = "idle"
    BY <1>2, <1>a DEF EndSnapshot, NoRead
  <2> QED
    BY <1>2, <1>a, <1>b, <2>1 DEF EndSnapshot, imgVars
<1>3. ASSUME NEW p \in Pages, StartRead(r, p) PROVE Goal
  <2> DEFINE x == [NoRead EXCEPT !.page = p, !.pc = IF epoch # snaps[r].epoch THEN "idle" ELSE "dirty",
                                 !.out = IF epoch # snaps[r].epoch THEN "old" ELSE "none"]
  <2>1. x \in Read /\ x.page = p
    BY <1>b DEF Read, Steps
  <2> HIDE DEF x
  <2>2. rd' = [rd EXCEPT ![r] = x]
    BY <1>3 DEF StartRead, x
  <2> QED
    BY <1>3, <1>a, <2>1, <2>2 DEF StartRead, imgVars
<1>4. CASE DirtyAt(r)
  <2>1. Goto(r, "touch") \/ Goto(r, "scan")
    BY <1>4 DEF DirtyAt
  <2> QED
    BY <1>4, <1>a, <1>d, <2>1 DEF DirtyAt, imgVars, Steps
<1>5. CASE PoolTouch(r)
  <2>1. pool[rd[r].page] \in Image
    BY <1>5, <1>a DEF PoolTouch
  <2>2. Got(r, pool[rd[r].page]) \/ Goto(r, "lsn0")
    BY <1>5 DEF PoolTouch
  <2> QED
    BY <1>5, <1>a, <1>d, <2>1, <2>2 DEF PoolTouch, imgVars, Steps
<1>6. CASE VersionLsn(r)
  <2>1. pageLsn[rd[r].page] \in Image
    BY <1>6, <1>a DEF VersionLsn
  <2> DEFINE x == [rd[r] EXCEPT !.v0 = pageLsn[rd[r].page], !.ep0 = LsnEpoch, !.pc = "ep0"]
  <2>2. x \in Read /\ x.page = rd[r].page
    BY <1>c, <1>e, <2>1 DEF Read, Steps
  <2>3. rd' = [rd EXCEPT ![r] = x]
    BY <1>6, <1>a DEF VersionLsn
  <2> HIDE DEF x
  <2>4. rd[r].pc # "idle" /\ UNCHANGED <<pool, snaps, mixed, seen>>
    BY <1>6 DEF VersionLsn, imgVars
  <2> QED
    BY <1>f, <2>2, <2>3, <2>4
<1>7. CASE VersionEpoch(r)
  <2> DEFINE x == [rd[r] EXCEPT !.ep0 = epoch, !.pc = "pending"]
  <2>2. x \in Read /\ x.page = rd[r].page
    BY <1>a, <1>b, <1>c DEF Read, Steps
  <2>3. rd' = [rd EXCEPT ![r] = x]
    BY <1>7, <1>a DEF VersionEpoch
  <2> HIDE DEF x
  <2>4. mixed' \in BOOLEAN /\ UNCHANGED <<pool, snaps, seen>> /\ rd[r].pc # "idle"
    BY <1>7, <1>a DEF VersionEpoch, imgVars
  <2> QED
    BY <1>a, <2>2, <2>3, <2>4
<1>8. CASE PendingGet(r)
  <2>1. pending[rd[r].page] \in Image
    BY <1>8, <1>a DEF PendingGet
  <2>2. Got(r, pending[rd[r].page]) \/ Goto(r, "file")
    BY <1>8 DEF PendingGet
  <2> QED
    BY <1>8, <1>a, <1>d, <2>1, <2>2 DEF PendingGet, imgVars, Steps
<1>9. CASE FileRead(r)
  <2>1. file[rd[r].page] \in Image
    BY <1>9, <1>a, <1>b DEF FileRead
  <2> DEFINE x == [rd[r] EXCEPT !.img = file[rd[r].page], !.pc = "lock"]
  <2>2. x \in Read /\ x.page = rd[r].page
    BY <1>c, <2>1 DEF Read, Steps
  <2>3. rd' = [rd EXCEPT ![r] = x]
    BY <1>9, <1>a DEF FileRead
  <2> HIDE DEF x
  <2>4. rd[r].pc # "idle" /\ UNCHANGED <<pool, snaps, mixed, seen>>
    BY <1>9 DEF FileRead, imgVars
  <2> QED
    BY <1>f, <2>2, <2>3, <2>4
<1>10. CASE LockPool(r)
  <2> DEFINE p == rd[r].page
  <2>0. p \in Pages /\ UNCHANGED <<snaps, seen, mixed>> /\ rd[r].pc # "idle"
    BY <1>10, <1>a DEF LockPool
  <2>1. CASE Got(r, pool[p]) /\ UNCHANGED pool
    BY <1>a, <1>d, <2>0, <2>1
  <2>2. CASE Insert(p, pending[p]) /\ Got(r, pending[p])
    <3>1. pending[p] \in Image
      BY <1>a, <2>0
    <3>2. pool' \in [Pages -> Image]
      BY <2>0, <2>2, <3>1, InsertIs
    <3> QED
      BY <1>a, <1>d, <2>0, <2>2, <3>1, <3>2
  <2>3. CASE rd' = [rd EXCEPT ![r].lsn = pageLsn[p], ![r].pc = "recheck"] /\ UNCHANGED pool
    <3> DEFINE x == [rd[r] EXCEPT !.lsn = pageLsn[p], !.pc = "recheck"]
    <3>1. pageLsn[p] \in Image
      BY <1>a, <2>0
    <3>2. x \in Read /\ x.page = p
      BY <1>c, <3>1 DEF Read, Steps
    <3>3. rd' = [rd EXCEPT ![r] = x]
      BY <1>a, <2>3
    <3> HIDE DEF x
    <3> QED
      BY <1>f, <2>0, <2>3, <3>2, <3>3
  <2> QED
    BY <1>10, <2>1, <2>2, <2>3 DEF LockPool
<1>11. CASE Recheck(r)
  <2>0. rd[r].page \in Pages /\ UNCHANGED <<snaps, seen, mixed>> /\ rd[r].pc # "idle" /\ rd[r].img \in Image
    BY <1>11, <1>a, <1>c DEF Recheck, Read
  <2>1. CASE Insert(rd[r].page, rd[r].img) /\ Goto(r, "verify")
    <3>1. pool' \in [Pages -> Image]
      BY <2>0, <2>1, InsertIs
    <3> QED
      BY <1>a, <1>d, <2>0, <2>1, <3>1 DEF Steps
  <2>2. CASE ~Unmoved(r)
    <3> DEFINE n == rd[r].tries + 1
               x == [rd[r] EXCEPT !.tries = n, !.out = IF n = MaxSpin THEN "spun" ELSE "none",
                                  !.pc = IF n = MaxSpin THEN "idle" ELSE "lsn0"]
    <3>2. rd' = [rd EXCEPT ![r] = x] /\ UNCHANGED pool
      BY <1>11, <1>a, <2>2 DEF Recheck
    <3>0. n \in Nat
      BY <1>c DEF Read
    <3> HIDE DEF n
    <3>1. x \in Read /\ x.page = rd[r].page
      BY <1>c, <3>0 DEF Read, Steps
    <3> HIDE DEF x
    <3> QED
      BY <1>a, <2>0, <3>1, <3>2
  <2> QED
    BY <1>11, <2>1, <2>2 DEF Recheck
<1>12. CASE VerifyLsn(r)
  <2>1. pageLsn[rd[r].page] \in Image
    BY <1>12, <1>a DEF VerifyLsn
  <2> DEFINE x == [rd[r] EXCEPT !.lsn = pageLsn[rd[r].page], !.pc = "verifyEpoch"]
  <2>2. x \in Read /\ x.page = rd[r].page
    BY <1>c, <2>1 DEF Read, Steps
  <2>3. rd' = [rd EXCEPT ![r] = x]
    BY <1>12, <1>a DEF VerifyLsn
  <2> HIDE DEF x
  <2>4. rd[r].pc # "idle" /\ UNCHANGED <<pool, snaps, mixed, seen>>
    BY <1>12 DEF VerifyLsn, imgVars
  <2> QED
    BY <1>f, <2>2, <2>3, <2>4
<1>13. CASE VerifyEpoch(r)
  <2> DEFINE x == [rd[r] EXCEPT !.pc = IF StillCurrent(r) THEN "idle" ELSE "scan",
                                !.out = IF StillCurrent(r) THEN "ok" ELSE "none"]
  <2>2. x \in Read /\ x.page = rd[r].page
    BY <1>c DEF Read, Steps
  <2>3. rd' = [rd EXCEPT ![r] = x]
    BY <1>13, <1>a DEF VerifyEpoch
  <2> HIDE DEF x
  <2>4. rd[r].pc # "idle" /\ UNCHANGED <<pool, snaps, mixed, seen>>
    BY <1>13 DEF VerifyEpoch, imgVars
  <2> QED
    BY <1>f, <2>2, <2>3, <2>4
<1>14. CASE Scan(r)
  <2> DEFINE g == [p \in Pages |-> IF snaps[r].mat THEN None ELSE Newest(p, snaps[r])]
             x == [rd[r] EXCEPT !.got = g, !.pc = IF snaps[r].mat THEN "cached" ELSE "install"]
  <2>1. g \in [Pages -> Image]
    <3>1. \A p \in Pages : Newest(p, snaps[r]) \in Image
      <4>1. snaps[r].lsn \in Nat
        BY <1>c DEF Snapshot
      <4> QED
        BY <1>a, <4>1, NewestIs, FoundIs
    <3> QED
      BY <1>b, <3>1
  <2>3. rd' = [rd EXCEPT ![r] = x]
    BY <1>14, <1>a DEF Scan
  <2> HIDE DEF g
  <2>2. x \in Read /\ x.page = rd[r].page
    BY <1>c, <2>1 DEF Read, Steps
  <2> HIDE DEF x
  <2>4. rd[r].pc # "idle" /\ UNCHANGED <<pool, snaps, mixed, seen>>
    BY <1>14 DEF Scan, imgVars
  <2> QED
    BY <1>f, <2>2, <2>3, <2>4
<1>15. CASE Install(r)
  <2>0. rd[r].page \in Pages /\ UNCHANGED <<pool, seen, mixed>> /\ rd[r].pc # "idle"
    BY <1>15, <1>a DEF Install, imgVars
  <2>1. CASE rd' = [rd EXCEPT ![r].pc = "idle", ![r].out = "old"] /\ UNCHANGED snaps
    <3> DEFINE x == [rd[r] EXCEPT !.pc = "idle", !.out = "old"]
    <3>1. x \in Read /\ x.page = rd[r].page
      BY <1>c DEF Read, Steps
    <3>2. rd' = [rd EXCEPT ![r] = x]
      BY <1>a, <2>1
    <3> HIDE DEF x
    <3> QED
      BY <1>f, <2>0, <2>1, <3>1, <3>2
  <2>2. CASE snaps' = [snaps EXCEPT ![r].cache = Merged(@, rd[r].got), ![r].mat = TRUE] /\ Goto(r, "cached")
    <3>1. Merged(snaps[r].cache, rd[r].got) \in [Pages -> Image]
      BY <1>c DEF Merged, Read, Snapshot
    <3>2. [snaps[r] EXCEPT !.cache = Merged(@, rd[r].got), !.mat = TRUE] \in Snapshot
      BY <1>c, <3>1 DEF Snapshot
    <3>3. snaps' \in [Readers -> Snapshot]
      BY <1>a, <2>2, <3>2
    <3> QED
      BY <1>a, <1>d, <2>0, <2>2, <3>3 DEF Steps
  <2> QED
    BY <1>15, <2>1, <2>2 DEF Install
<1>16. CASE CacheGet(r)
  <2> DEFINE i == snaps[r].cache[rd[r].page]
             x == [rd[r] EXCEPT !.img = i, !.pc = "idle", !.out = IF i = None THEN "lost" ELSE "ok"]
  <2>1. i \in Image
    BY <1>16, <1>a, <1>c DEF CacheGet, Snapshot
  <2>3. rd' = [rd EXCEPT ![r] = x]
    BY <1>16, <1>a DEF CacheGet
  <2> HIDE DEF i
  <2>2. x \in Read /\ x.page = rd[r].page
    BY <1>c, <2>1 DEF Read, Steps
  <2> HIDE DEF x
  <2> QED
    <3>1. rd[r].pc # "idle" /\ UNCHANGED <<pool, snaps, mixed, seen>>
      BY <1>16 DEF CacheGet, imgVars
    <3> QED
      BY <1>f, <2>2, <2>3, <3>1
<1> HIDE DEF Goal
<1> QED
  BY <1>1, <1>2, <1>3, <1>4, <1>5, <1>6, <1>7, <1>8, <1>9, <1>10, <1>11, <1>12, <1>13, <1>14, <1>15, <1>16 DEF Reader

\* A step of the writer keeps the shapes.
LEMMA WriterShapes ==
  ASSUME Shapes, Writing, Writer
  PROVE Shapes'
<1>a. /\ pool \in [Pages -> Image] /\ snaps \in [Readers -> Snapshot] /\ pageLsn \in [Pages -> Image]
      /\ pending \in [Pages -> Image] /\ file \in [Pages -> Nat] /\ wal \in Seq(Commits)
      /\ epoch \in Nat /\ walEp \in Nat /\ stamp \in Nat /\ wset \in SUBSET Pages
  BY DEF Shapes
<1>b. Blank \in [Pages -> Image] /\ None \in Image /\ Nat \subseteq Image /\ <<>> \in Seq(Commits)
  BY Blanks
<1>0. UNCHANGED <<rd, mixed, seen>>
  BY WriterLeaves
<1>1. ASSUME NEW ps \in SUBSET Pages, AppendCommit(ps) PROVE Shapes'
  <2>1. [lsn |-> LastLsn(wal) + 1, pages |-> ps, stamp |-> stamp + 1] \in Commits
    BY <1>a, LogIs DEF Commits
  <2>2. wal' \in Seq(Commits)
    BY <1>1, <1>a, <2>1, ConcatProperties DEF AppendCommit
  <2> QED
    BY <1>0, <1>1, <1>a, <2>2 DEF AppendCommit, Shapes, imgVars
<1>2. CASE Preserve
  <2>1. ASSUME NEW s \in Snapshot PROVE Preserved(s) \in Snapshot
    <3>1. \A p \in Pages : Before(p) \in Image
      BY <1>a, <1>b, LatestIs DEF Before
    <3>2. [p \in Pages |-> IF p \in wset /\ pageLsn[p] = None THEN Before(p) ELSE s.cache[p]] \in [Pages -> Image]
      BY <3>1 DEF Snapshot
    <3> QED
      BY <3>2 DEF Preserved, Snapshot
  <2>2. snaps' \in [Readers -> Snapshot]
    BY <1>2, <1>a, <2>1 DEF Preserve
  <2> QED
    BY <1>0, <1>2, <2>2 DEF Preserve, Shapes, logVars, imgVars
<1>3. CASE Apply
  <2>1. stamp \in Image /\ LastLsn(wal) \in Image
    BY <1>a, <1>b, LogIs
  <2>2. pool' \in [Pages -> Image] /\ pending' \in [Pages -> Image] /\ pageLsn' \in [Pages -> Image]
    BY <1>3, <1>a, <2>1 DEF Apply
  <2> QED
    BY <1>0, <1>3, <2>2 DEF Apply, Shapes
<1>4. ASSUME NEW p \in Pages, FlushPage(p) PROVE Shapes'
  <2>1. pending[p] \in Nat
    BY <1>4, <1>a DEF FlushPage, Image
  <2>2. file' \in [Pages -> Nat]
    BY <1>4, <1>a, <2>1 DEF FlushPage
  <2> QED
    BY <1>0, <1>4, <2>2 DEF FlushPage, Shapes, logVars
<1>5. CASE Retire
  <2>2. pending' \in [Pages -> Image]
    BY <1>5, <1>a, <1>b DEF Retire
  <2> QED
    BY <1>0, <1>5, <2>2 DEF Retire, Shapes, logVars
<1>6. CASE Repool
  <2>2. pool' \in [Pages -> Image]
    BY <1>6, <1>a, <1>b DEF Repool
  <2> QED
    BY <1>0, <1>6, <2>2 DEF Repool, Shapes, logVars
<1>7. CASE FlushEnd
  BY <1>0, <1>7 DEF FlushEnd, Shapes, logVars, imgVars
<1>8. ASSUME NEW respect \in BOOLEAN, Truncate(respect) PROVE Shapes'
  BY <1>0, <1>8, <1>b DEF Truncate, Shapes, imgVars
<1>9. CASE PublishEpoch
  BY <1>0, <1>9 DEF PublishEpoch, Shapes, imgVars
<1>10. CASE ClearLsn
  BY <1>0, <1>10, <1>b DEF ClearLsn, Shapes, imgVars
<1> QED
  BY <1>1, <1>2, <1>3, <1>4, <1>5, <1>6, <1>7, <1>8, <1>9, <1>10 DEF Writer

-----------------------------------------------------------------------------
(* The log and the images                                                  *)

\* A step of the writer keeps its place and the epochs in step.
LEMMA WritingKept ==
  ASSUME Shapes, Writing, Writer
  PROVE Writing'
<1>a. /\ pending \in [Pages -> Image] /\ file \in [Pages -> Nat] /\ wal \in Seq(Commits)
      /\ epoch \in Nat /\ walEp \in Nat /\ stamp \in Nat /\ wset \in SUBSET Pages
  BY DEF Shapes
<1>1. ASSUME NEW ps \in SUBSET Pages, AppendCommit(ps) PROVE Writing'
  <2> DEFINE c == [lsn |-> LastLsn(wal) + 1, pages |-> ps, stamp |-> stamp + 1]
  <2>0. c \in Commits
    BY <1>a, LogIs DEF Commits
  <2>b. wal' = wal \o <<c>> /\ wpc = "idle" /\ wpc' = "preserve" /\ stamp' = stamp + 1 /\ UNCHANGED <<walEp, epoch>>
        /\ c.stamp = stamp + 1 /\ c.pages = ps /\ wset' = ps
    BY <1>1 DEF AppendCommit
  <2> HIDE DEF c
  <2>1. Len(wal \o <<c>>) = Len(wal) + 1 /\ (wal \o <<c>>)[Len(wal) + 1] = c /\ wal \o <<c>> # <<>>
    BY <1>a, <2>0
  <2> QED
    BY <2>b, <2>1 DEF Writing, Emptying, Logged
<1>2. CASE Preserve
  BY <1>2 DEF Preserve, Writing, Emptying, Logged, logVars, imgVars
<1>3. CASE Apply
  BY <1>3 DEF Apply, Writing, Emptying, Logged
<1>4. ASSUME NEW p \in Pages, FlushPage(p) PROVE Writing'
  BY <1>4, <1>a DEF FlushPage, Writing, Emptying, Logged, logVars
<1>5. CASE Retire
  BY <1>5, <1>a DEF Retire, Writing, Emptying, Logged, logVars
<1>6. CASE Repool
  BY <1>6 DEF Repool, Writing, Emptying, Logged, logVars
<1>7. CASE FlushEnd
  BY <1>7 DEF FlushEnd, Writing, Emptying, Logged, logVars, imgVars
<1>8. ASSUME NEW respect \in BOOLEAN, Truncate(respect) PROVE Writing'
  BY <1>8, <1>a DEF Truncate, Writing, Emptying, Logged, imgVars
<1>9. CASE PublishEpoch
  BY <1>9, <1>a DEF PublishEpoch, Writing, Emptying, Logged, imgVars
<1>10. CASE ClearLsn
  BY <1>10, <1>a DEF ClearLsn, Writing, Emptying, Logged, imgVars
<1> QED
  BY <1>1, <1>2, <1>3, <1>4, <1>5, <1>6, <1>7, <1>8, <1>9, <1>10 DEF Writer

\* Only the application of a commit changes a page's latest image, to the
\* commit's; flushing moves it from the queue to the file.
LEMMA LatestChanges ==
  ASSUME Shapes, Writing, Writer, NEW p \in Pages
  PROVE /\ ~Apply => Latest(p)' = Latest(p)
        /\ Apply => Latest(p)' = IF p \in wset THEN stamp ELSE Latest(p)
<1>a. /\ pending \in [Pages -> Image] /\ file \in [Pages -> Nat] /\ stamp \in Nat /\ None \notin Nat
  BY DEF Shapes, None
<1>1. CASE UNCHANGED <<pending, file>> /\ ~Apply
  BY <1>1 DEF Latest
<1>2. CASE Apply
  BY <1>2, <1>a DEF Apply, Latest
<1>3. ASSUME NEW q \in Pages, FlushPage(q) PROVE Latest(p)' = Latest(p) /\ ~Apply
  <2>1. CASE p = q
    BY <1>3, <1>a, <2>1 DEF FlushPage, Latest, Apply
  <2>2. CASE p # q
    BY <1>3, <1>a, <2>2 DEF FlushPage, Latest, Apply
  <2> QED
    BY <2>1, <2>2
<1>4. CASE Retire
  BY <1>4, <1>a DEF Retire, Latest, Writing, Apply
<1> QED
  BY <1>1, <1>2, <1>3, <1>4 DEF Writer, AppendCommit, Preserve, Repool, FlushEnd, Truncate, PublishEpoch, ClearLsn,
     imgVars

\* The numbering stands while the log, the LSNs and the images do.
LEMMA SteadyNumbered ==
  ASSUME Numbered, UNCHANGED <<wal, pageLsn>>, Applied' = Applied, Emptying' = Emptying,
         \A p \in Pages : Latest(p)' = Latest(p)
  PROVE Numbered'
BY DEF Numbered

\* A step of the writer keeps the numbering.
LEMMA NumberedKept ==
  ASSUME Shapes, Writing, Numbered, Writer
  PROVE Numbered'
<1>a. /\ wal \in Seq(Commits) /\ stamp \in Nat /\ pageLsn \in [Pages -> Image] /\ Len(wal) \in Nat
      /\ LastLsn(wal) = Len(wal) /\ (wal = <<>> <=> Len(wal) = 0)
  BY LogIs DEF Shapes
<1>1. ASSUME NEW ps \in SUBSET Pages, AppendCommit(ps) PROVE Numbered'
  <2> DEFINE c == [lsn |-> LastLsn(wal) + 1, pages |-> ps, stamp |-> stamp + 1]
             n == Len(wal)
  <2>0. c \in Commits /\ c.lsn = n + 1
    BY <1>a, LogIs DEF Commits
  <2>1. wal' = wal \o <<c>> /\ wpc = "idle" /\ wpc' = "preserve" /\ UNCHANGED pageLsn
    BY <1>1 DEF AppendCommit
  <2> HIDE DEF c
  <2>2. Len(wal') = n + 1 /\ wal'[n + 1] = c /\ \A i \in 1 .. n : wal'[i] = wal[i]
    BY <1>a, <2>0, <2>1
  <2>3. ~Emptying /\ ~Emptying' /\ Applied = n /\ Applied' = n
    BY <1>a, <2>1, <2>2 DEF Emptying, Applied, Logged
  <2>4. \A p \in Pages : Latest(p)' = Latest(p)
    BY <1>1 DEF AppendCommit, Latest, imgVars
  <2>5. \A i \in 1 .. n + 1 : wal'[i].lsn = i
    <3> SUFFICES ASSUME NEW i \in 1 .. n + 1 PROVE wal'[i].lsn = i
      OBVIOUS
    <3>1. CASE i = n + 1
      BY <2>0, <2>2, <3>1
    <3>2. CASE i \in 1 .. n
      BY <2>2, <3>2 DEF Numbered
    <3> QED
      BY <1>a, <3>1, <3>2
  <2>6. ASSUME NEW p \in Pages
        PROVE /\ pageLsn[p] # None => /\ pageLsn[p] \in 1 .. n /\ p \in wal'[pageLsn[p]].pages
                                      /\ wal'[pageLsn[p]].stamp = Latest(p)
              /\ \A i \in 1 .. n : p \in wal'[i].pages => i <= pageLsn[p]
    <3>1. /\ pageLsn[p] # None => /\ pageLsn[p] \in 1 .. n /\ p \in wal[pageLsn[p]].pages
                                  /\ wal[pageLsn[p]].stamp = Latest(p)
          /\ \A i \in 1 .. n : p \in wal[i].pages => i <= pageLsn[p]
      BY <2>3 DEF Numbered
    <3> QED
      BY <2>2, <3>1
  <2> QED
    BY <2>1, <2>2, <2>3, <2>4, <2>5, <2>6 DEF Numbered
<1>2. ASSUME Preserve \/ (\E p \in Pages : FlushPage(p)) \/ Retire \/ Repool \/ FlushEnd
      PROVE Numbered'
  <2>1. ~Apply /\ UNCHANGED <<wal, pageLsn>>
    BY <1>2 DEF Preserve, FlushPage, Retire, Repool, FlushEnd, Apply, logVars
  <2>2. Emptying' = Emptying /\ Applied' = Applied
    BY <1>2, <2>1 DEF Preserve, FlushPage, Retire, Repool, FlushEnd, Emptying, Applied, Logged
  <2> QED
    BY <2>1, <2>2, LatestChanges, SteadyNumbered
<1>3. CASE Apply
  <2> DEFINE n == Len(wal)
  <2>1. /\ Logged /\ ~Logged' /\ ~Emptying' /\ ~Emptying /\ Applied = n - 1 /\ Applied' = n /\ wal' = wal
        /\ n \in 1 .. n /\ wal[n].stamp = stamp /\ wal[n].pages = wset
    BY <1>3, <1>a DEF Apply, Logged, Emptying, Applied, Writing
  <2>2. \A i \in 1 .. n : wal[i].lsn = i
    BY DEF Numbered
  <2>3. ASSUME NEW p \in Pages
        PROVE /\ pageLsn'[p] # None => /\ pageLsn'[p] \in 1 .. n /\ p \in wal[pageLsn'[p]].pages
                                       /\ wal[pageLsn'[p]].stamp = Latest(p)'
              /\ \A i \in 1 .. n : p \in wal[i].pages => i <= pageLsn'[p]
    <3>1. /\ pageLsn[p] # None => /\ pageLsn[p] \in 1 .. n - 1 /\ p \in wal[pageLsn[p]].pages
                                  /\ wal[pageLsn[p]].stamp = Latest(p)
          /\ \A i \in 1 .. n - 1 : p \in wal[i].pages => i <= pageLsn[p]
      BY <2>1 DEF Numbered
    <3>2. CASE p \in wset
      <4>1. pageLsn'[p] = n /\ Latest(p)' = stamp
        BY <1>3, <1>a, <3>2, LatestChanges DEF Apply
      <4> QED
        BY <2>1, <3>2, <4>1
    <3>3. CASE p \notin wset
      <4>1. pageLsn'[p] = pageLsn[p] /\ Latest(p)' = Latest(p)
        BY <1>3, <1>a, <3>3, LatestChanges DEF Apply
      <4>2. \A i \in 1 .. n : p \in wal[i].pages => i \in 1 .. n - 1
        BY <1>a, <2>1, <3>3
      <4>3. pageLsn[p] \in 1 .. n - 1 => pageLsn[p] \in 1 .. n
        BY <1>a
      <4> QED
        BY <3>1, <4>1, <4>2, <4>3
    <3> QED
      BY <3>2, <3>3
  <2> QED
    BY <2>1, <2>2, <2>3 DEF Numbered
<1>4. ASSUME (\E respect \in BOOLEAN : Truncate(respect)) \/ PublishEpoch
      PROVE Numbered'
  <2>1. wal' = <<>> /\ Emptying'
    BY <1>4 DEF Truncate, PublishEpoch, Emptying, Writing
  <2>2. Len(<<>>) = 0 /\ \A i \in 1 .. 0 : FALSE
    OBVIOUS
  <2> QED
    BY <2>1, <2>2 DEF Numbered
<1>5. CASE ClearLsn
  <2>1. wal' = <<>> /\ \A p \in Pages : pageLsn'[p] = None
    BY <1>5, Blanks DEF ClearLsn, Writing, Emptying
  <2>2. Len(<<>>) = 0 /\ \A i \in 1 .. 0 : FALSE
    OBVIOUS
  <2>3. Applied' = 0
    BY <1>5, <2>1, <2>2 DEF ClearLsn, Applied, Logged
  <2> QED
    BY <2>1, <2>2, <2>3 DEF Numbered
<1> QED
  BY <1>1, <1>2, <1>3, <1>4, <1>5 DEF Writer

\* A later commit does not change what a scan finds.
LEMMA FoundAppend ==
  ASSUME NEW w \in Seq(Commits), NEW c \in Commits, NEW p \in Pages, NEW n \in Nat, n < c.lsn
  PROVE Found(w \o <<c>>, p, n) = Found(w, p, n)
<1> DEFINE v == w \o <<c>>
           hv == {i \in 1 .. Len(v) : v[i].lsn <= n /\ p \in v[i].pages}
           hw == {i \in 1 .. Len(w) : w[i].lsn <= n /\ p \in w[i].pages}
<1>1. Len(w) \in Nat /\ Len(v) = Len(w) + 1 /\ v[Len(w) + 1] = c /\ \A i \in 1 .. Len(w) : v[i] = w[i]
  BY LenProperties
<1>2. c.lsn \in Nat /\ ~(c.lsn <= n)
  BY DEF Commits
<1> HIDE DEF v
<1>3. hv = hw
  <2>1. \A i \in 1 .. Len(v) : i = Len(w) + 1 \/ i \in 1 .. Len(w)
    BY <1>1
  <2>2. \A i \in 1 .. Len(w) : i \in 1 .. Len(v)
    BY <1>1
  <2> QED
    BY <1>1, <1>2, <2>1, <2>2
<1>4. CASE hw = {}
  BY <1>3, <1>4 DEF Found, v
<1>5. CASE hw # {}
  <2> DEFINE k == CHOOSE i \in hw : \A j \in hw : j <= i
  <2>1. \E i \in hw : \A j \in hw : j <= i
    BY <1>1, <1>5, GreatestOf
  <2>2. k \in hw
    BY <2>1
  <2>3. Found(w, p, n) = w[k].stamp
    BY <1>5 DEF Found
  <2>4. Found(v, p, n) = v[k].stamp
    BY <1>3, <1>5 DEF Found
  <2>5. v[k] = w[k]
    BY <1>1, <2>2
  <2> QED
    BY <2>3, <2>4, <2>5 DEF v
<1> QED
  BY <1>4, <1>5

-----------------------------------------------------------------------------
(* Snapshots                                                               *)

\* A snapshot's guarantees stand while the log, the LSNs and the images do.
LEMMA SteadyRegistered ==
  ASSUME NEW r \in Readers, Registered(r), UNCHANGED <<wal, walEp, pageLsn>>,
         snaps'[r] = snaps[r], seen'[r] = seen[r], ~snaps[r].on => rd'[r] = rd[r],
         LsnEpoch' = LsnEpoch, Applied' = Applied, Emptying' = Emptying,
         \A p \in Pages : Latest(p)' = Latest(p),
         wpc' = "apply" => wpc = "apply" /\ UNCHANGED wset
  PROVE Registered(r)'
BY DEF Registered, Live, Logging, Kept, Within

\* A step of the writer keeps every snapshot's guarantees.
LEMMA WriterRegistered ==
  ASSUME Shapes, Writing, Numbered, Writer, NEW r \in Readers, Registered(r)
  PROVE Registered(r)'
<1> DEFINE s == snaps[r]
<1>a. /\ wal \in Seq(Commits) /\ pageLsn \in [Pages -> Image] /\ Len(wal) \in Nat /\ walEp \in Nat /\ epoch \in Nat
      /\ LastLsn(wal) = Len(wal) /\ s \in Snapshot /\ s.lsn \in Nat /\ s.epoch \in Nat
      /\ \A p \in Pages : pageLsn[p] \in Int
  BY LogIs, Blanks DEF Shapes, Snapshot
<1>0. UNCHANGED <<rd, seen>>
  BY WriterLeaves
<1>1. ASSUME NEW ps \in SUBSET Pages, AppendCommit(ps) PROVE Registered(r)'
  <2> DEFINE c == [lsn |-> LastLsn(wal) + 1, pages |-> ps, stamp |-> stamp + 1]
  <2>0. c \in Commits /\ c.lsn = Len(wal) + 1
    BY <1>a, LogIs DEF Commits, Shapes
  <2>1. wal' = wal \o <<c>> /\ wpc = "idle" /\ wpc' = "preserve" /\ UNCHANGED <<pageLsn, walEp, epoch, snaps>>
    BY <1>1 DEF AppendCommit
  <2> HIDE DEF c
  <2>2. Len(wal') = Len(wal) + 1
    BY <1>a, <2>0, <2>1
  <2>3. ~Emptying /\ ~Emptying' /\ Applied' = Applied /\ Applied = Len(wal) /\ LsnEpoch' = LsnEpoch
    BY <1>a, <2>1, <2>2 DEF Emptying, Applied, Logged, LsnEpoch
  <2>4. \A p \in Pages : Latest(p)' = Latest(p)
    BY <1>1 DEF AppendCommit, Latest, imgVars
  <2>5. s.lsn <= Len(wal) => \A p \in Pages : Found(wal', p, s.lsn) = Found(wal, p, s.lsn)
    <3> SUFFICES ASSUME s.lsn <= Len(wal), NEW p \in Pages PROVE Found(wal', p, s.lsn) = Found(wal, p, s.lsn)
      OBVIOUS
    <3>1. s.lsn < c.lsn
      BY <1>a, <2>0
    <3> QED
      BY <1>a, <2>0, <2>1, <3>1, FoundAppend
  <2> HIDE DEF s
  <2> QED
    BY <1>0, <2>1, <2>3, <2>4, <2>5 DEF Registered, Live, Logging, Kept, Within, s
<1>2. CASE Preserve
  <2> DEFINE t == snaps'[r]
  <2>1. UNCHANGED <<wal, walEp, epoch, pageLsn, wset>> /\ wpc = "preserve" /\ wpc' = "apply"
        /\ t = IF s.on /\ s.epoch = walEp THEN Preserved(s) ELSE s
    BY <1>2 DEF Preserve, logVars
  <2>2. ~Emptying /\ ~Emptying' /\ Applied' = Applied /\ LsnEpoch' = LsnEpoch
    BY <2>1 DEF Emptying, Applied, Logged, LsnEpoch
  <2>3. \A p \in Pages : Latest(p)' = Latest(p)
    BY <1>2 DEF Preserve, Latest, imgVars
  <2>4. t.on = s.on /\ t.epoch = s.epoch /\ t.lsn = s.lsn /\ t.mat = s.mat
    BY <1>a, <2>1 DEF Preserved, Snapshot
  <2>5. ASSUME s.on, s.epoch = walEp, NEW p \in Pages
        PROVE t.cache[p] = IF p \in wset /\ pageLsn[p] = None THEN Before(p) ELSE s.cache[p]
    BY <1>a, <2>1, <2>5 DEF Preserved, Snapshot
  <2>6. \A p \in Pages : Before(p) # None
    BY LatestIs DEF Before, None
  <2>7. ASSUME s.on, s.epoch = walEp, NEW p \in Pages
        PROVE /\ s.cache[p] # None => t.cache[p] # None
              /\ p \in wset /\ pageLsn[p] = None => t.cache[p] # None
    BY <2>5, <2>6, <2>7
  <2> HIDE DEF s, t
  <2>8. /\ (s.on => s.epoch <= walEp) /\ (~s.on => rd[r].pc = "idle" /\ rd[r].out = "none")
        /\ Live(r) => \A p \in Pages : Within(pageLsn[p], s) => Latest(p) = seen[r][p]
        /\ s.on /\ s.epoch = walEp =>
              /\ s.lsn <= Applied
              /\ \A p \in Pages :
                  /\ Found(wal, p, s.lsn) # None => Found(wal, p, s.lsn) = seen[r][p] /\ (s.mat => s.cache[p] # None)
                  /\ ~Within(pageLsn[p], s) => Found(wal, p, s.lsn) # None \/ s.cache[p] # None
    BY DEF Registered, Logging, Kept, s
  <2>9. Live(r)' = Live(r) /\ Logging(r)' = (s.on /\ s.epoch = walEp)
    BY <2>1, <2>2, <2>4 DEF Live, Logging, s, t
  <2> QED
    BY <1>0, <2>1, <2>2, <2>3, <2>4, <2>7, <2>8, <2>9 DEF Registered, Kept, Within, t
<1>3. CASE Apply
  <2>1. UNCHANGED <<wal, walEp, epoch, snaps>> /\ wpc = "apply" /\ wpc' = "flush"
    BY <1>3 DEF Apply
  <2>2. /\ ~Emptying /\ ~Emptying' /\ Logged /\ ~Logged' /\ Applied = Len(wal) - 1 /\ Applied' = Len(wal)
        /\ LsnEpoch' = LsnEpoch
    BY <2>1 DEF Emptying, Applied, Logged, LsnEpoch
  <2>3. \A p \in Pages : /\ p \in wset => pageLsn'[p] = Len(wal)
                         /\ p \notin wset => pageLsn'[p] = pageLsn[p] /\ Latest(p)' = Latest(p)
    BY <1>3, <1>a, LatestChanges DEF Apply
  <2>4. Live(r) = (s.on /\ s.epoch = walEp) /\ Logging(r) = Live(r) /\ Live(r)' = Live(r) /\ Logging(r)' = Live(r)
    BY <2>1, <2>2 DEF Live, Logging, LsnEpoch, Writing
  <2>5. ASSUME Live(r) PROVE /\ s.lsn <= Len(wal) - 1 /\ ~(Len(wal) <= s.lsn)
    <3>1. s.lsn <= Len(wal) - 1
      BY <2>2, <2>4, <2>5 DEF Registered
    <3> QED
      BY <1>a, <3>1
  <2>6. ASSUME Live(r), NEW p \in Pages, p \in wset PROVE Kept(r, p)
    <3>1. CASE pageLsn[p] = None
      BY <2>1, <2>4, <2>6, <3>1 DEF Registered, Kept
    <3>2. CASE pageLsn[p] # None /\ pageLsn[p] <= s.lsn
      <4>1. pageLsn[p] \in 1 .. Len(wal) - 1 /\ p \in wal[pageLsn[p]].pages
        BY <2>2, <3>2 DEF Numbered
      <4>2. pageLsn[p] \in 1 .. Len(wal) /\ wal[pageLsn[p]].lsn = pageLsn[p]
        BY <1>a, <4>1 DEF Numbered
      <4>3. Found(wal, p, s.lsn) # None
        BY <1>a, <3>2, <4>1, <4>2, FoundIs
      <4> QED
        BY <4>3 DEF Kept
    <3>3. CASE ~(pageLsn[p] <= s.lsn)
      BY <2>4, <2>6, <3>3 DEF Registered, Within
    <3> QED
      BY <3>1, <3>2, <3>3
  <2>7. \A p \in Pages : Kept(r, p)' = Kept(r, p)
    BY <2>1 DEF Kept
  <2>8. ASSUME Live(r), NEW p \in Pages, Within(pageLsn'[p], s) PROVE Latest(p)' = seen[r][p]
    <3>1. p \notin wset
      BY <1>a, <2>3, <2>5, <2>8 DEF Within
    <3> QED
      BY <2>3, <2>8, <3>1 DEF Registered
  <2>9. ASSUME Live(r), NEW p \in Pages, ~Within(pageLsn'[p], s) PROVE Kept(r, p)
    <3>1. CASE p \in wset
      BY <2>6, <2>9, <3>1
    <3>2. CASE p \notin wset
      BY <2>3, <2>4, <2>9, <3>2 DEF Registered
    <3> QED
      BY <3>1, <3>2
  <2>10. ASSUME Live(r) PROVE s.lsn <= Len(wal)
    BY <1>a, <2>5, <2>10
  <2>11. ASSUME Live(r), NEW p \in Pages, Found(wal, p, s.lsn) # None
         PROVE Found(wal, p, s.lsn) = seen[r][p] /\ (s.mat => s.cache[p] # None)
    BY <2>4, <2>11 DEF Registered
  <2>12. s.on => s.epoch <= walEp
    BY DEF Registered
  <2>13. ~s.on => rd[r].pc = "idle" /\ rd[r].out = "none"
    BY DEF Registered
  <2> QED
    BY <1>0, <2>1, <2>2, <2>4, <2>7, <2>8, <2>9, <2>10, <2>11, <2>12, <2>13 DEF Registered, Within
<1>4. ASSUME (\E p \in Pages : FlushPage(p)) \/ Retire \/ Repool \/ FlushEnd
      PROVE Registered(r)'
  <2>1. ~Apply /\ UNCHANGED <<wal, walEp, pageLsn, epoch, snaps>> /\ wpc' # "apply"
    BY <1>4 DEF FlushPage, Retire, Repool, FlushEnd, Apply, logVars
  <2>2. Emptying' = Emptying /\ Applied' = Applied /\ LsnEpoch' = LsnEpoch
    BY <1>4, <2>1 DEF FlushPage, Retire, Repool, FlushEnd, Emptying, Applied, Logged, LsnEpoch
  <2> QED
    BY <1>0, <2>1, <2>2, LatestChanges, SteadyRegistered
<1>5. ASSUME NEW respect \in BOOLEAN, Truncate(respect) PROVE Registered(r)'
  <2>1. UNCHANGED <<epoch, pageLsn, pending, file, snaps>> /\ walEp' = walEp + 1 /\ wpc = "idle" /\ wpc' = "publish"
    BY <1>5 DEF Truncate, imgVars
  <2>2. LsnEpoch' = LsnEpoch /\ \A p \in Pages : Latest(p)' = Latest(p)
    BY <2>1 DEF LsnEpoch, Latest
  <2>3. s.on => s.epoch <= walEp
    BY DEF Registered
  <2>4. s.on => s.epoch <= walEp' /\ s.epoch # walEp'
    BY <1>a, <2>1, <2>3
  <2>5. ~Logging(r)' /\ Live(r)' = Live(r)
    BY <2>1, <2>2, <2>4 DEF Logging, Live
  <2> QED
    BY <1>0, <2>1, <2>2, <2>4, <2>5 DEF Registered, Within
<1>6. CASE PublishEpoch
  <2>1. UNCHANGED <<wal, walEp, pageLsn, pending, file, snaps>> /\ wpc = "publish" /\ wpc' = "clear" /\ epoch' = walEp
    BY <1>6 DEF PublishEpoch, imgVars
  <2>2. LsnEpoch' = LsnEpoch /\ \A p \in Pages : Latest(p)' = Latest(p)
    BY <1>a, <2>1 DEF LsnEpoch, Latest, Writing
  <2>3. s.on => s.epoch <= walEp /\ s.epoch # walEp
    BY <2>1 DEF Registered, Emptying
  <2>4. ~Logging(r)' /\ Live(r)' = Live(r)
    BY <2>1, <2>2, <2>3 DEF Logging, Live
  <2> QED
    BY <1>0, <2>1, <2>2, <2>3, <2>4 DEF Registered, Within
<1>7. CASE ClearLsn
  <2>1. UNCHANGED <<walEp, epoch, snaps>> /\ wpc = "clear" /\ wpc' = "idle" /\ walEp = epoch
    BY <1>7 DEF ClearLsn, Writing
  <2>2. s.on => s.epoch <= walEp /\ s.epoch # walEp
    BY <2>1 DEF Registered, Emptying
  <2>3. ~Logging(r)' /\ ~Live(r)'
    BY <2>1, <2>2 DEF Logging, Live, LsnEpoch
  <2> QED
    BY <1>0, <2>1, <2>2, <2>3 DEF Registered
<1> QED
  BY <1>1, <1>2, <1>3, <1>4, <1>5, <1>6, <1>7 DEF Writer

-----------------------------------------------------------------------------
(* Reads                                                                   *)

\* The steps of a reader, field by field.
LEMMA Effects ==
  ASSUME Shapes, NEW r \in Readers
  PROVE LET a == rd[r]
            x == rd'[r]
        IN
          /\ EndSnapshot(r) =>
                /\ x.pc = "idle" /\ x.out = "none"
          /\ (\E p \in Pages : StartRead(r, p)) =>
                /\ snaps[r].on /\ x.page \in Pages
                /\ \/ x.pc = "idle" /\ x.out = "old" /\ epoch # snaps[r].epoch
                   \/ x.pc = "dirty" /\ x.out = "none" /\ epoch = snaps[r].epoch
          /\ DirtyAt(r) =>
                /\ a.pc = "dirty" /\ x.page = a.page /\ x.out = a.out
                /\ x.pc = IF Within(pageLsn[a.page], snaps[r]) THEN "touch" ELSE "scan"
          /\ PoolTouch(r) =>
                /\ a.pc = "touch" /\ x.page = a.page /\ x.out = a.out
                /\ IF pool[a.page] # None THEN x.pc = "verify" /\ x.img = pool[a.page] ELSE x.pc = "lsn0"
          /\ VersionLsn(r) =>
                /\ a.pc = "lsn0" /\ x.pc = "ep0" /\ x.page = a.page /\ x.out = a.out /\ x.v0 = pageLsn[a.page]
                /\ x.ep0 = LsnEpoch
          /\ VersionEpoch(r) =>
                /\ a.pc = "ep0" /\ x.pc = "pending" /\ x.page = a.page /\ x.out = a.out /\ x.v0 = a.v0
                /\ x.ep0 = epoch
          /\ PendingGet(r) =>
                /\ a.pc = "pending" /\ x.page = a.page /\ x.out = a.out
                /\ IF pending[a.page] # None
                      THEN x.pc = "verify" /\ x.img = pending[a.page]
                      ELSE x.pc = "file" /\ x.v0 = a.v0 /\ x.ep0 = a.ep0
          /\ FileRead(r) =>
                /\ a.pc = "file" /\ x.pc = "lock" /\ x.page = a.page /\ x.out = a.out /\ x.v0 = a.v0
                /\ x.ep0 = a.ep0 /\ x.img = file[a.page]
          /\ LockPool(r) =>
                /\ a.pc = "lock" /\ x.page = a.page /\ x.out = a.out
                /\ \/ pool[a.page] # None /\ x.pc = "verify" /\ x.img = pool[a.page]
                   \/ pending[a.page] # None /\ x.pc = "verify" /\ x.img = pending[a.page]
                   \/ x.pc = "recheck" /\ x.v0 = a.v0 /\ x.ep0 = a.ep0 /\ x.img = a.img /\ x.lsn = pageLsn[a.page]
          /\ Recheck(r) =>
                /\ a.pc = "recheck" /\ x.page = a.page
                /\ \/ x.pc = "verify" /\ x.img = a.img /\ x.out = a.out
                   \/ x.pc = "idle" /\ x.out = "spun"
                   \/ x.pc = "lsn0" /\ x.out = "none"
          /\ VerifyLsn(r) =>
                /\ a.pc = "verify" /\ x.pc = "verifyEpoch" /\ x.page = a.page /\ x.out = a.out /\ x.img = a.img
                /\ x.lsn = pageLsn[a.page]
          /\ VerifyEpoch(r) =>
                /\ a.pc = "verifyEpoch" /\ x.page = a.page /\ x.img = a.img
                /\ IF StillCurrent(r) THEN x.pc = "idle" /\ x.out = "ok" ELSE x.pc = "scan" /\ x.out = "none"
          /\ Scan(r) =>
                /\ a.pc = "scan" /\ x.page = a.page /\ x.out = a.out
                /\ IF snaps[r].mat
                      THEN x.pc = "cached"
                      ELSE x.pc = "install" /\ \A p \in Pages : x.got[p] = Found(wal, p, snaps[r].lsn)
          /\ Install(r) =>
                /\ a.pc = "install" /\ x.page = a.page
                /\ IF walEp # snaps[r].epoch THEN x.pc = "idle" /\ x.out = "old" ELSE x.pc = "cached" /\ x.out = a.out
          /\ CacheGet(r) =>
                /\ a.pc = "cached" /\ x.pc = "idle" /\ x.page = a.page /\ x.img = snaps[r].cache[a.page]
                /\ x.out = IF snaps[r].cache[a.page] = None THEN "lost" ELSE "ok"
<1> DEFINE a == rd[r]
           x == rd'[r]
<1>a. rd \in [Readers -> Read] /\ a \in Read /\ \A p \in Pages : Newest(p, snaps[r]) = Found(wal, p, snaps[r].lsn)
  BY NewestIs DEF Shapes
<1>1. EndSnapshot(r) =>
        /\ x.pc = "idle" /\ x.out = "none"
  BY <1>a DEF EndSnapshot, NoRead, Read
<1>2. (\E p \in Pages : StartRead(r, p)) =>
        /\ snaps[r].on /\ x.page \in Pages
        /\ \/ x.pc = "idle" /\ x.out = "old" /\ epoch # snaps[r].epoch
           \/ x.pc = "dirty" /\ x.out = "none" /\ epoch = snaps[r].epoch
  BY <1>a DEF StartRead, NoRead, Read
<1>3. DirtyAt(r) =>
        /\ a.pc = "dirty" /\ x.page = a.page /\ x.out = a.out
        /\ x.pc = IF Within(pageLsn[a.page], snaps[r]) THEN "touch" ELSE "scan"
  BY <1>a DEF DirtyAt, Goto, Read
<1>4. PoolTouch(r) =>
        /\ a.pc = "touch" /\ x.page = a.page /\ x.out = a.out
        /\ IF pool[a.page] # None THEN x.pc = "verify" /\ x.img = pool[a.page] ELSE x.pc = "lsn0"
  BY <1>a DEF PoolTouch, Got, Goto, Read
<1>5. VersionLsn(r) =>
        /\ a.pc = "lsn0" /\ x.pc = "ep0" /\ x.page = a.page /\ x.out = a.out /\ x.v0 = pageLsn[a.page]
        /\ x.ep0 = LsnEpoch
  BY <1>a DEF VersionLsn, Read
<1>6. VersionEpoch(r) =>
        /\ a.pc = "ep0" /\ x.pc = "pending" /\ x.page = a.page /\ x.out = a.out /\ x.v0 = a.v0 /\ x.ep0 = epoch
  BY <1>a DEF VersionEpoch, Read
<1>7. PendingGet(r) =>
        /\ a.pc = "pending" /\ x.page = a.page /\ x.out = a.out
        /\ IF pending[a.page] # None
              THEN x.pc = "verify" /\ x.img = pending[a.page]
              ELSE x.pc = "file" /\ x.v0 = a.v0 /\ x.ep0 = a.ep0
  BY <1>a DEF PendingGet, Got, Goto, Read
<1>8. FileRead(r) =>
        /\ a.pc = "file" /\ x.pc = "lock" /\ x.page = a.page /\ x.out = a.out /\ x.v0 = a.v0 /\ x.ep0 = a.ep0
        /\ x.img = file[a.page]
  BY <1>a DEF FileRead, Read
<1>9. LockPool(r) =>
        /\ a.pc = "lock" /\ x.page = a.page /\ x.out = a.out
        /\ \/ pool[a.page] # None /\ x.pc = "verify" /\ x.img = pool[a.page]
           \/ pending[a.page] # None /\ x.pc = "verify" /\ x.img = pending[a.page]
           \/ x.pc = "recheck" /\ x.v0 = a.v0 /\ x.ep0 = a.ep0 /\ x.img = a.img /\ x.lsn = pageLsn[a.page]
  BY <1>a DEF LockPool, Got, Read
<1>10. Recheck(r) =>
        /\ a.pc = "recheck" /\ x.page = a.page
        /\ \/ x.pc = "verify" /\ x.img = a.img /\ x.out = a.out
           \/ x.pc = "idle" /\ x.out = "spun"
           \/ x.pc = "lsn0" /\ x.out = "none"
  BY <1>a DEF Recheck, Goto, Read
<1>11. VerifyLsn(r) =>
        /\ a.pc = "verify" /\ x.pc = "verifyEpoch" /\ x.page = a.page /\ x.out = a.out /\ x.img = a.img
        /\ x.lsn = pageLsn[a.page]
  BY <1>a DEF VerifyLsn, Read
<1>12. VerifyEpoch(r) =>
        /\ a.pc = "verifyEpoch" /\ x.page = a.page /\ x.img = a.img
        /\ IF StillCurrent(r) THEN x.pc = "idle" /\ x.out = "ok" ELSE x.pc = "scan" /\ x.out = "none"
  BY <1>a DEF VerifyEpoch, Read
<1>13. Scan(r) =>
        /\ a.pc = "scan" /\ x.page = a.page /\ x.out = a.out
        /\ IF snaps[r].mat
              THEN x.pc = "cached"
              ELSE x.pc = "install" /\ \A p \in Pages : x.got[p] = Found(wal, p, snaps[r].lsn)
  BY <1>a DEF Scan, Read
<1>14. Install(r) =>
        /\ a.pc = "install" /\ x.page = a.page
        /\ IF walEp # snaps[r].epoch THEN x.pc = "idle" /\ x.out = "old" ELSE x.pc = "cached" /\ x.out = a.out
  BY <1>a DEF Install, Goto, Read
<1>15. CacheGet(r) =>
        /\ a.pc = "cached" /\ x.pc = "idle" /\ x.page = a.page /\ x.img = snaps[r].cache[a.page]
        /\ x.out = IF snaps[r].cache[a.page] = None THEN "lost" ELSE "ok"
  BY <1>a DEF CacheGet, Read
<1> QED
  BY <1>1, <1>2, <1>3, <1>4, <1>5, <1>6, <1>7, <1>8, <1>9, <1>10, <1>11, <1>12, <1>13, <1>14, <1>15

\* What a scan finds in a log whose commits have all been applied is the
\* page's latest image.
LEMMA FoundLatest ==
  ASSUME Shapes, Numbered, WalFree, NEW p \in Pages, Found(wal, p, Len(wal)) # None
  PROVE Found(wal, p, Len(wal)) = Latest(p)
<1>a. wal \in Seq(Commits) /\ Len(wal) \in Nat /\ pageLsn[p] \in Int
  BY LogIs, Blanks DEF Shapes
<1>1. ~Emptying /\ Applied = Len(wal)
  BY DEF WalFree, Emptying, Applied, Logged
<1>2. PICK i \in 1 .. Len(wal) :
        /\ p \in wal[i].pages /\ Found(wal, p, Len(wal)) = wal[i].stamp
        /\ \A j \in 1 .. Len(wal) : wal[j].lsn <= Len(wal) /\ p \in wal[j].pages => j <= i
  BY <1>a, FoundIs
<1>3. i <= pageLsn[p]
  BY <1>1, <1>2 DEF Numbered
<1>4. pageLsn[p] # None
  BY <1>3 DEF None
<1>5. pageLsn[p] \in 1 .. Len(wal) /\ p \in wal[pageLsn[p]].pages /\ wal[pageLsn[p]].stamp = Latest(p)
      /\ wal[pageLsn[p]].lsn = pageLsn[p]
  BY <1>1, <1>4 DEF Numbered
<1>6. pageLsn[p] <= i
  BY <1>a, <1>2, <1>5
<1>7. pageLsn[p] = i
  BY <1>a, <1>3, <1>6
<1> QED
  BY <1>2, <1>5, <1>7

\* A snapshot whose epoch is not the published one is not of the log's.
LEMMA Outdated ==
  ASSUME Shapes, Writing, NEW r \in Readers, Registered(r), snaps[r].on, epoch # snaps[r].epoch
  PROVE snaps[r].epoch # walEp
BY DEF Writing, Registered, Emptying

\* One whose epoch is the published one is of the LSNs'.
LEMMA Current ==
  ASSUME Shapes, Writing, NEW r \in Readers, Registered(r), snaps[r].on, epoch = snaps[r].epoch
  PROVE Live(r)
BY DEF Writing, Registered, Emptying, Live, LsnEpoch

\* A reader's step keeps its own snapshot's guarantees.
LEMMA ReaderRegistered ==
  ASSUME Shapes, Writing, Numbered, NEW r \in Readers, Registered(r), Searching(r), Reader(r)
  PROVE Registered(r)'
<1>0. UNCHANGED <<wal, walEp, epoch, pageLsn, pending, file, wpc, wset>>
  BY Apart
<1>1. /\ LsnEpoch' = LsnEpoch /\ Applied' = Applied /\ Emptying' = Emptying
      /\ \A p \in Pages : Latest(p)' = Latest(p)
  BY <1>0 DEF LsnEpoch, Applied, Logged, Emptying, Latest
<1>a. /\ snaps \in [Readers -> Snapshot] /\ rd \in [Readers -> Read] /\ seen \in [Readers -> [Pages -> Image]]
      /\ snaps[r] \in Snapshot /\ wal \in Seq(Commits) /\ Len(wal) \in Nat /\ LastLsn(wal) = Len(wal)
      /\ rd[r] \in Read
      /\ walEp \in Nat /\ \A p \in Pages : pageLsn[p] \in Int
  BY LogIs, Blanks DEF Shapes
<1>2. ASSUME BeginSnapshot(r) PROVE Registered(r)'
  <2> DEFINE t == [NoSnap EXCEPT !.on = TRUE, !.epoch = walEp, !.lsn = LastLsn(wal)]
  <2>1. WalFree /\ snaps' = [snaps EXCEPT ![r] = t] /\ seen' = [seen EXCEPT ![r] = [p \in Pages |-> Latest(p)]]
    BY <1>2 DEF BeginSnapshot
  <2>2. t.on /\ t.epoch = walEp /\ t.lsn = Len(wal) /\ t.mat = FALSE
    BY <1>a DEF NoSnap
  <2> HIDE DEF t
  <2>3. snaps'[r] = t /\ \A p \in Pages : seen'[r][p] = Latest(p)
    BY <1>a, <2>1
  <2>4. ~Emptying /\ ~Logged /\ Applied = Len(wal) /\ wpc # "apply"
    BY <2>1 DEF WalFree, Emptying, Applied, Logged
  <2>5. ASSUME NEW p \in Pages PROVE Within(pageLsn[p], t)
    <3>1. pageLsn[p] = None \/ pageLsn[p] \in 1 .. Len(wal)
      BY <2>4 DEF Numbered
    <3> QED
      BY <1>a, <2>2, <3>1 DEF Within, None
  <2>6. ASSUME NEW p \in Pages, Found(wal, p, t.lsn) # None PROVE Found(wal, p, t.lsn) = Latest(p)
    BY <2>1, <2>2, <2>6, FoundLatest
  <2> QED
    BY <1>0, <1>1, <1>a, <2>2, <2>3, <2>4, <2>5, <2>6 DEF Registered, Logging, Within
<1>3. ASSUME EndSnapshot(r) PROVE Registered(r)'
  <2>1. snaps'[r].on = FALSE /\ rd'[r].pc = "idle" /\ rd'[r].out = "none"
    BY <1>3, <1>a DEF EndSnapshot, NoSnap, NoRead
  <2> QED
    BY <2>1 DEF Registered, Logging, Live
<1>4. ASSUME Install(r), walEp = snaps[r].epoch PROVE Registered(r)'
  <2> DEFINE s == snaps[r]
             t == snaps'[r]
  <2>1. snaps' = [snaps EXCEPT ![r].cache = Merged(@, rd[r].got), ![r].mat = TRUE] /\ UNCHANGED seen /\ WalFree
        /\ rd[r].pc = "install"
    BY <1>4 DEF Install
  <2>2. t.on = s.on /\ t.epoch = s.epoch /\ t.lsn = s.lsn /\ t.cache = Merged(s.cache, rd[r].got)
    BY <1>a, <2>1 DEF Snapshot
  <2>3. s.on /\ Logging(r)
    BY <1>4, <2>1 DEF Registered, Logging
  <2>4. \A p \in Pages : rd[r].got[p] = Found(wal, p, s.lsn)
    BY <2>1, <2>3 DEF Searching
  <2>5. \A p \in Pages : t.cache[p] = IF Found(wal, p, s.lsn) # None THEN Found(wal, p, s.lsn) ELSE s.cache[p]
    BY <2>2, <2>4 DEF Merged
  <2>6. wpc # "apply"
    BY <2>1 DEF WalFree
  <2>7. Live(r)' = Live(r)
    BY <1>1, <2>2 DEF Live
  <2> HIDE DEF s, t
  <2>8. /\ s.on => s.epoch <= walEp /\ (Emptying => s.epoch # walEp)
        /\ Live(r) => \A p \in Pages : pageLsn[p] <= s.lsn => Latest(p) = seen[r][p]
        /\ s.lsn <= Applied
        /\ \A p \in Pages :
              /\ Found(wal, p, s.lsn) # None => Found(wal, p, s.lsn) = seen[r][p]
              /\ ~(pageLsn[p] <= s.lsn) => Found(wal, p, s.lsn) # None \/ s.cache[p] # None
    BY <2>3 DEF Registered, Within, Kept, s
  <2>9. ASSUME NEW p \in Pages
        PROVE /\ Found(wal, p, t.lsn) # None => Found(wal, p, t.lsn) = seen[r][p] /\ t.cache[p] # None
              /\ ~(pageLsn[p] <= t.lsn) => Found(wal, p, t.lsn) # None \/ t.cache[p] # None
    BY <2>2, <2>5, <2>8
  <2>10. /\ t.on /\ t.epoch <= walEp /\ (Emptying => t.epoch # walEp) /\ t.lsn <= Applied
         /\ Live(r) => \A p \in Pages : pageLsn[p] <= t.lsn => Latest(p) = seen[r][p]
    BY <2>2, <2>3, <2>8 DEF s
  <2> QED
    BY <1>0, <1>1, <2>1, <2>6, <2>7, <2>9, <2>10 DEF Registered, Kept, Within, t
<1>5. ASSUME UNCHANGED <<snaps, seen>>, snaps[r].on PROVE Registered(r)'
  BY <1>0, <1>1, <1>5, SteadyRegistered
<1>6. ASSUME ~BeginSnapshot(r), ~EndSnapshot(r), ~(Install(r) /\ walEp = snaps[r].epoch)
      PROVE UNCHANGED <<snaps, seen>> /\ snaps[r].on
  <2>1. UNCHANGED <<snaps, seen>>
    BY <1>6, Apart
  <2>2. rd[r].pc # "idle" \/ snaps[r].on
    BY <1>6, Effects DEF Reader
  <2> QED
    BY <2>1, <2>2 DEF Registered
<1> QED
  BY <1>2, <1>3, <1>4, <1>5, <1>6

-----------------------------------------------------------------------------
(* Reads of the log and the cache                                          *)

\* What the writer leaves a snapshot of the log's epoch.
LEMMA WriterKeeps ==
  ASSUME Shapes, Writing, Numbered, Writer, NEW r \in Readers, Registered(r)
  PROVE /\ snaps'[r].on = snaps[r].on /\ snaps'[r].epoch = snaps[r].epoch /\ snaps'[r].lsn = snaps[r].lsn
        /\ snaps'[r].mat = snaps[r].mat /\ (snaps[r].on /\ snaps[r].epoch # walEp => snaps[r].epoch # walEp')
        /\ Logging(r)' => /\ Logging(r)
                          /\ \A p \in Pages : /\ Found(wal', p, snaps[r].lsn) = Found(wal, p, snaps[r].lsn)
                                              /\ Kept(r, p) => Kept(r, p)'
<1> DEFINE s == snaps[r]
           t == snaps'[r]
<1>a. /\ wal \in Seq(Commits) /\ Len(wal) \in Nat /\ walEp \in Nat /\ LastLsn(wal) = Len(wal)
      /\ s \in Snapshot /\ s.lsn \in Nat /\ s.epoch \in Nat
  BY LogIs DEF Shapes, Snapshot
<1>0. s.on => s.epoch <= walEp
  BY DEF Registered
<1>1. CASE Preserve
  <2>1. UNCHANGED <<wal, walEp>> /\ t = IF s.on /\ s.epoch = walEp THEN Preserved(s) ELSE s
    BY <1>1 DEF Preserve, logVars
  <2>2. t.on = s.on /\ t.epoch = s.epoch /\ t.lsn = s.lsn /\ t.mat = s.mat
    BY <1>a, <2>1 DEF Preserved, Snapshot
  <2>3. \A p \in Pages : Before(p) # None
    BY LatestIs DEF Before, None
  <2>4. \A p \in Pages : s.cache[p] # None => t.cache[p] # None
    BY <1>a, <2>1, <2>3 DEF Preserved, Snapshot
  <2> QED
    BY <2>1, <2>2, <2>4 DEF Logging, Kept
<1>2. ASSUME NEW ps \in SUBSET Pages, AppendCommit(ps)
      PROVE t = s /\ walEp' = walEp /\ (Logging(r) => \A p \in Pages : Found(wal', p, s.lsn) = Found(wal, p, s.lsn))
  <2> DEFINE c == [lsn |-> LastLsn(wal) + 1, pages |-> ps, stamp |-> stamp + 1]
  <2>0. c \in Commits /\ c.lsn = Len(wal) + 1
    BY <1>a, LogIs DEF Commits, Shapes
  <2>1. wal' = wal \o <<c>> /\ wpc = "idle" /\ UNCHANGED <<walEp, snaps>>
    BY <1>2 DEF AppendCommit
  <2> HIDE DEF c
  <2>2. ASSUME Logging(r), NEW p \in Pages PROVE Found(wal', p, s.lsn) = Found(wal, p, s.lsn)
    <3>1. s.lsn <= Len(wal)
      BY <2>1, <2>2 DEF Registered, Applied, Logged
    <3>2. s.lsn < c.lsn
      BY <1>a, <2>0, <3>1
    <3> QED
      BY <1>a, <2>0, <2>1, <3>2, FoundAppend
  <2> QED
    BY <2>1, <2>2
<1>3. CASE \E ps \in SUBSET Pages : AppendCommit(ps)
  <2>1. t = s /\ walEp' = walEp /\ (Logging(r) => \A p \in Pages : Found(wal', p, s.lsn) = Found(wal, p, s.lsn))
    BY <1>2, <1>3
  <2> QED
    BY <2>1 DEF Logging, Kept
<1>4. CASE \E respect \in BOOLEAN : Truncate(respect)
  <2>1. t = s /\ walEp' = walEp + 1
    BY <1>4 DEF Truncate
  <2>2. s.on => s.epoch # walEp'
    BY <1>0, <1>a, <2>1
  <2> QED
    BY <2>1, <2>2 DEF Logging
<1>5. CASE UNCHANGED <<wal, walEp, snaps>>
  BY <1>5 DEF Logging, Kept
<1> QED
  BY <1>1, <1>3, <1>4, <1>5 DEF Writer, Apply, FlushPage, Retire, Repool, FlushEnd, PublishEpoch, ClearLsn, logVars

\* A step of the writer keeps every search on its way.
LEMMA WriterSearching ==
  ASSUME Shapes, Writing, Numbered, Writer, NEW r \in Readers, Registered(r), Searching(r)
  PROVE Searching(r)'
<1>1. rd' = rd
  BY WriterLeaves
<1>2. rd[r].pc # "idle" => rd[r].page \in Pages
  BY DEF Shapes
<1> QED
  BY <1>1, <1>2, WriterKeeps DEF Searching, Refused, Within

\* A reader's step keeps the other reads and snapshots.
LEMMA OtherReads ==
  ASSUME Shapes, NEW r \in Readers, Reader(r), NEW q \in Readers, q # r
  PROVE /\ Registered(q) => Registered(q)'
        /\ Searching(q) => Searching(q)'
        /\ Reading(q) => Reading(q)'
<1>0. /\ UNCHANGED <<wal, walEp, epoch, pageLsn, pending, file, wpc, wset>>
      /\ rd'[q] = rd[q] /\ snaps'[q] = snaps[q] /\ seen'[q] = seen[q]
  BY Apart
<1>1. /\ LsnEpoch' = LsnEpoch /\ Applied' = Applied /\ Emptying' = Emptying
      /\ \A p : Latest(p)' = Latest(p)
  BY <1>0 DEF LsnEpoch, Applied, Logged, Emptying, Latest
<1>2. Live(q)' = Live(q) /\ Logging(q)' = Logging(q) /\ \A p : Kept(q, p)' = Kept(q, p)
  BY <1>0, <1>1 DEF Live, Logging, Kept
<1>3. Registered(q) => Registered(q)'
  BY <1>0, <1>1, SteadyRegistered
<1>4. Searching(q) => Searching(q)'
  BY <1>0, <1>2 DEF Searching, Refused, Within
<1>5. Matches(rd[q])' = Matches(rd[q])
  BY <1>0, <1>1 DEF Matches
<1>6. Reading(q) => Reading(q)'
  BY <1>0, <1>1, <1>2, <1>5 DEF Reading, Within
<1> QED
  BY <1>3, <1>4, <1>6

\* A reader's step keeps its search on its way: what sends it to the log or
\* the cache, and what refuses it, is what the snapshot can count on.
LEMMA ReaderSearching ==
  ASSUME Shapes, Writing, NEW r \in Readers, Registered(r), Searching(r), Reader(r)
  PROVE Searching(r)'
<1> DEFINE a == rd[r]
           x == rd'[r]
           s == snaps[r]
<1>0. UNCHANGED <<wal, walEp, epoch, pageLsn>>
  BY Apart
<1>a. /\ snaps \in [Readers -> Snapshot] /\ s \in Snapshot /\ a \in Read
      /\ a.pc # "idle" => a.page \in Pages /\ s.on /\ a.out = "none"
  BY DEF Shapes, Registered, Searching
<1>b. ASSUME snaps'[r] = s
      PROVE Logging(r)' = Logging(r) /\ \A p : Kept(r, p)' = Kept(r, p)
  BY <1>0, <1>b DEF Logging, Kept
<1>c. ASSUME snaps'[r] = s, x.out = "none", x.pc \notin {"verifyEpoch", "scan", "install", "cached"}
      PROVE Searching(r)'
  BY <1>c DEF Searching, Refused
<1>d. ASSUME NEW p \in Pages, Logging(r), ~Within(pageLsn[p], s) PROVE Kept(r, p)
  BY <1>d DEF Registered
<1>e. ASSUME snaps'[r] = s, x.out = "none", x.pc = "scan", Logging(r) => Kept(r, x.page)
      PROVE Searching(r)'
  BY <1>b, <1>e DEF Searching, Refused
<1>1. ASSUME BeginSnapshot(r) PROVE Searching(r)'
  <2>1. x.pc = "idle" /\ x.out = "none"
    BY <1>1 DEF BeginSnapshot, Registered
  <2> QED
    BY <2>1 DEF Searching, Refused
<1>2. ASSUME EndSnapshot(r) PROVE Searching(r)'
  <2>1. x.pc = "idle" /\ x.out = "none"
    BY <1>2, Effects
  <2> QED
    BY <2>1 DEF Searching, Refused
<1>3. ASSUME \E p \in Pages : StartRead(r, p) PROVE Searching(r)'
  <2>1. /\ s.on
        /\ \/ x.pc = "idle" /\ x.out = "old" /\ epoch # s.epoch
           \/ x.pc = "dirty" /\ x.out = "none"
    BY <1>3, Effects
  <2>2. snaps'[r] = s
    BY <1>3 DEF StartRead
  <2>3. CASE x.pc = "idle" /\ epoch # s.epoch
    <3>1. s.epoch # walEp
      BY <2>1, <2>3, Outdated
    <3> QED
      BY <1>0, <2>1, <2>2, <2>3, <3>1 DEF Searching
  <2>4. CASE x.pc = "dirty" /\ x.out = "none"
    BY <1>c, <2>2, <2>4
  <2> QED
    BY <2>1, <2>3, <2>4
<1>4. ASSUME DirtyAt(r) PROVE Searching(r)'
  <2>1. a.pc = "dirty" /\ x.page = a.page /\ x.out = a.out
        /\ x.pc = IF Within(pageLsn[a.page], s) THEN "touch" ELSE "scan"
    BY <1>4, Effects
  <2>2. snaps'[r] = s
    BY <1>4 DEF DirtyAt
  <2> QED
    BY <1>a, <1>c, <1>d, <1>e, <2>1, <2>2
<1>5. ASSUME PoolTouch(r) \/ VersionLsn(r) \/ VersionEpoch(r) \/ PendingGet(r) \/ FileRead(r)
      PROVE Searching(r)'
  <2>1. a.pc # "idle" /\ x.out = a.out /\ x.pc \in {"verify", "lsn0", "ep0", "pending", "file", "lock"}
    BY <1>5, Effects
  <2>2. snaps'[r] = s
    BY <1>5 DEF PoolTouch, VersionLsn, VersionEpoch, PendingGet, FileRead
  <2> QED
    BY <1>a, <1>c, <2>1, <2>2
<1>6. ASSUME LockPool(r) \/ Recheck(r) PROVE Searching(r)'
  <2>1. a.pc # "idle" /\ \/ x.out = a.out /\ x.pc \in {"verify", "recheck"}
                         \/ x.pc = "idle" /\ x.out = "spun"
                         \/ x.pc = "lsn0" /\ x.out = "none"
    BY <1>6, Effects
  <2>2. snaps'[r] = s
    BY <1>6 DEF LockPool, Recheck
  <2>3. CASE x.pc = "idle" /\ x.out = "spun"
    BY <2>3 DEF Searching, Refused
  <2> QED
    BY <1>a, <1>c, <2>1, <2>2, <2>3
<1>7. ASSUME VerifyLsn(r) PROVE Searching(r)'
  <2>1. a.pc = "verify" /\ x.pc = "verifyEpoch" /\ x.page = a.page /\ x.out = a.out /\ x.lsn = pageLsn[a.page]
    BY <1>7, Effects
  <2>2. snaps'[r] = s
    BY <1>7 DEF VerifyLsn
  <2>3. Logging(r) /\ ~Within(x.lsn, s) => Kept(r, x.page)
    BY <1>a, <1>d, <2>1
  <2> QED
    BY <1>a, <1>b, <2>1, <2>2, <2>3 DEF Searching, Refused, Within
<1>8. ASSUME VerifyEpoch(r) PROVE Searching(r)'
  <2>1. a.pc = "verifyEpoch" /\ x.page = a.page
        /\ IF StillCurrent(r) THEN x.pc = "idle" /\ x.out = "ok" ELSE x.pc = "scan" /\ x.out = "none"
    BY <1>8, Effects
  <2>2. snaps'[r] = s
    BY <1>8 DEF VerifyEpoch
  <2>3. CASE StillCurrent(r)
    BY <2>1, <2>2, <2>3 DEF Searching, Refused
  <2>4. CASE ~StillCurrent(r)
    <3>1. ASSUME Logging(r) PROVE Kept(r, a.page)
      <4>1. epoch = s.epoch
        BY <3>1, <1>a, <2>1, Outdated DEF Logging
      <4>2. ~Within(a.lsn, s)
        BY <2>4, <4>1 DEF StillCurrent
      <4> QED
        BY <2>1, <3>1, <4>2 DEF Searching
    <3> QED
      BY <1>e, <2>1, <2>2, <2>4, <3>1
  <2> QED
    BY <2>3, <2>4
<1>9. ASSUME Scan(r) PROVE Searching(r)'
  <2>1. a.pc = "scan" /\ x.page = a.page /\ x.out = a.out
        /\ IF s.mat THEN x.pc = "cached"
                    ELSE x.pc = "install" /\ \A p \in Pages : x.got[p] = Found(wal, p, s.lsn)
    BY <1>9, Effects
  <2>2. snaps'[r] = s
    BY <1>9 DEF Scan
  <2>3. Logging(r) => Kept(r, x.page)
    BY <2>1 DEF Searching
  <2>4. CASE s.mat
    BY <1>a, <1>b, <2>1, <2>2, <2>3, <2>4 DEF Searching, Refused
  <2>5. CASE ~s.mat
    BY <1>0, <1>a, <1>b, <2>1, <2>2, <2>3, <2>5 DEF Searching, Refused
  <2> QED
    BY <2>4, <2>5
<1>10. ASSUME Install(r) PROVE Searching(r)'
  <2>1. a.pc = "install" /\ x.page = a.page
        /\ IF walEp # s.epoch THEN x.pc = "idle" /\ x.out = "old" ELSE x.pc = "cached" /\ x.out = a.out
    BY <1>10, Effects
  <2>2. CASE walEp # s.epoch
    <3>1. snaps'[r] = s
      BY <1>10, <2>2 DEF Install
    <3> QED
      BY <1>0, <1>a, <2>1, <2>2, <3>1 DEF Searching
  <2>3. CASE walEp = s.epoch
    <3> DEFINE t == snaps'[r]
    <3>1. snaps' = [snaps EXCEPT ![r].cache = Merged(@, a.got), ![r].mat = TRUE]
      BY <1>10, <2>3 DEF Install
    <3>2. t.lsn = s.lsn /\ t.mat /\ t.cache = Merged(s.cache, a.got)
      BY <1>a, <3>1 DEF Snapshot
    <3>3. \A p \in Pages : s.cache[p] # None => t.cache[p] # None
      BY <3>2 DEF Merged
    <3>4. Kept(r, a.page)
      BY <1>a, <2>1, <2>3 DEF Searching, Logging
    <3>5. Kept(r, a.page)'
      BY <1>0, <1>a, <2>1, <3>2, <3>3, <3>4 DEF Kept
    <3> QED
      BY <1>a, <2>1, <2>3, <3>2, <3>5 DEF Searching, Refused
  <2> QED
    BY <2>2, <2>3
<1>11. ASSUME CacheGet(r) PROVE Searching(r)'
  <2>1. a.pc = "cached" /\ x.pc = "idle" /\ x.page = a.page
        /\ x.out = IF s.cache[a.page] = None THEN "lost" ELSE "ok"
    BY <1>11, Effects
  <2>2. snaps'[r] = s
    BY <1>11 DEF CacheGet
  <2>3. ASSUME s.cache[a.page] = None PROVE ~Logging(r)
    <3> SUFFICES ASSUME Logging(r) PROVE FALSE
      OBVIOUS
    <3>1. Kept(r, a.page) /\ s.mat
      BY <2>1 DEF Searching
    <3>2. Found(wal, a.page, s.lsn) # None
      BY <2>3, <3>1 DEF Kept
    <3> QED
      BY <1>a, <2>1, <2>3, <3>1, <3>2 DEF Registered
  <2>4. CASE s.cache[a.page] = None
    BY <1>0, <1>a, <2>1, <2>2, <2>3, <2>4 DEF Searching, Logging
  <2>5. CASE s.cache[a.page] # None
    BY <2>1, <2>5 DEF Searching, Refused
  <2> QED
    BY <2>4, <2>5
<1> QED
  BY <1>1, <1>2, <1>3, <1>4, <1>5, <1>6, <1>7, <1>8, <1>9, <1>10, <1>11 DEF Reader

\* Only the reader that compares versions holds the pool.
LEMMA HoldingKept ==
  ASSUME None \notin Readers, Shapes, Holding, Next
  PROVE Holding'
<1>1. ASSUME Writer PROVE Holding'
  <2>1. UNCHANGED <<rd, poolBy>>
    BY <1>1, WriterLeaves
  <2> QED
    BY <2>1 DEF Holding
<1>2. ASSUME NEW r \in Readers, Reader(r) PROVE Holding'
  <2>1. \A q \in Readers : q # r => rd'[q] = rd[q]
    BY <1>2, Apart
  <2>2. poolBy' = poolBy \/ poolBy = None \/ rd[r].pc = "recheck"
    <3>1. LockPool(r) \/ Recheck(r) \/ poolBy' = poolBy
      BY <1>2, Apart
    <3> QED
      BY <3>1 DEF LockPool, Recheck, PoolFree
  <2>3. ASSUME NEW q \in Readers, q # r, rd'[q].pc = "recheck" PROVE poolBy' = q
    <3>1. poolBy = q
      BY <2>1, <2>3 DEF Holding
    <3> QED
      BY <2>2, <2>3, <3>1 DEF Holding
  <2>4. ASSUME rd'[r].pc = "recheck" PROVE poolBy' = r
    <3>1. BeginSnapshot(r) => rd'[r].pc = "idle"
      BY DEF BeginSnapshot
    <3>2. LockPool(r)
      BY <1>2, <2>4, <3>1, Effects DEF Reader
    <3>3. ASSUME NEW i, Got(r, i) PROVE rd'[r].pc = "verify"
      BY <3>3 DEF Got, Shapes, Read
    <3> QED
      BY <2>4, <3>2, <3>3 DEF LockPool
  <2> QED
    BY <2>3, <2>4 DEF Holding
<1> QED
  BY <1>1, <1>2 DEF Next

\* A reader puts into the pool only a page's latest image: the version it
\* compares has not moved since it read the file.
LEMMA ReaderFresh ==
  ASSUME Shapes, Writing, Fresh, NEW r \in Readers, Reading(r), Reader(r)
  PROVE Fresh'
<1> DEFINE a == rd[r]
<1>0. UNCHANGED <<pending, file>>
  BY Apart
<1>1. \A p \in Pages : Latest(p)' = Latest(p)
  BY <1>0 DEF Latest
<1>2. ASSUME UNCHANGED pool PROVE Fresh'
  BY <1>1, <1>2 DEF Fresh
<1>3. ASSUME NEW p \in Pages, Insert(p, Latest(p)) PROVE Fresh'
  <2>1. Latest(p) \in Image
    BY Blanks, LatestIs
  <2>2. \A q \in Pages : pool'[q] \in {None, pool[q]} \/ (q = p /\ pool'[q] = Latest(p))
    BY <1>3, <2>1, InsertIs
  <2> QED
    BY <1>1, <2>2 DEF Fresh
<1>4. ASSUME LockPool(r) PROVE Fresh'
  <2>1. a.page \in Pages
    BY <1>4 DEF LockPool, Shapes
  <2>2. UNCHANGED pool \/ (pending[a.page] # None /\ Insert(a.page, pending[a.page]))
    BY <1>4 DEF LockPool
  <2> QED
    BY <1>2, <1>3, <2>1, <2>2 DEF Latest
<1>5. ASSUME Recheck(r) PROVE Fresh'
  <2>1. a.page \in Pages /\ a.pc = "recheck" /\ a.ep0 \in Int /\ epoch \in Nat
    BY <1>5, Blanks DEF Recheck, Shapes, Read
  <2>2. CASE ~Unmoved(r)
    BY <1>2, <1>5, <2>2 DEF Recheck
  <2>3. CASE Unmoved(r)
    <3>1. a.lsn = a.v0 /\ epoch = a.ep0 /\ Insert(a.page, a.img)
      BY <1>5, <2>3 DEF Recheck, Unmoved
    <3>2. a.ep0 <= LsnEpoch
      BY <2>1 DEF Reading
    <3>3. LsnEpoch = a.ep0
      BY <2>1, <3>1, <3>2 DEF LsnEpoch
    <3>4. a.lsn = pageLsn[a.page]
      BY <2>1, <3>3 DEF Reading
    <3>5. a.img = Latest(a.page)
      BY <2>1, <3>1, <3>3, <3>4 DEF Reading, Matches
    <3> QED
      BY <1>3, <2>1, <3>1, <3>5
  <2> QED
    BY <2>2, <2>3
<1> QED
  BY <1>2, <1>4, <1>5, Apart

\* The writer refreshes the pool with every image it applies or flushes.
LEMMA WriterFresh ==
  ASSUME Shapes, Writing, Fresh, Writer
  PROVE Fresh'
<1>1. CASE Apply
  <2>1. \A p \in Pages : pool'[p] = IF p \in wset /\ pool[p] # None THEN stamp ELSE pool[p]
    BY <1>1 DEF Apply
  <2> QED
    BY <1>1, <2>1, LatestChanges DEF Fresh
<1>2. CASE Repool
  <2>1. \A p \in Pages : pool'[p] = IF p \in wset /\ pool[p] # None THEN file[p] ELSE pool[p]
    BY <1>2 DEF Repool
  <2>2. \A p \in wset : Latest(p) = file[p]
    BY <1>2 DEF Repool, Writing, Latest
  <2>3. \A p \in Pages : Latest(p)' = Latest(p)
    BY <1>2 DEF Repool, Latest
  <2> QED
    BY <2>1, <2>2, <2>3 DEF Fresh
<1>3. CASE UNCHANGED pool /\ ~Apply
  BY <1>3, LatestChanges DEF Fresh
<1> QED
  BY <1>1, <1>2, <1>3 DEF Writer, AppendCommit, Preserve, Apply, FlushPage, Retire, FlushEnd, Truncate,
     PublishEpoch, ClearLsn, imgVars

-----------------------------------------------------------------------------
(* Reads of the current image                                              *)

\* What a step of the writer does to a page, seen from a read: the LSNs end,
\* with the snapshots of their epoch; or the page stays as it is; or it takes
\* a commit, which is after every version and every snapshot there is.
LEMMA WriterMoves ==
  ASSUME Shapes, Writing, Numbered, Writer, NEW r \in Readers, Registered(r)
  PROVE \/ LsnEpoch' = LsnEpoch + 1 /\ ~Live(r)'
        \/ /\ LsnEpoch' = LsnEpoch /\ Live(r)' = Live(r)
           /\ \A p \in Pages :
                \/ pageLsn'[p] = pageLsn[p] /\ Latest(p)' = Latest(p) /\ pending'[p] \in {pending[p], None}
                \/ /\ PoolFree /\ pageLsn'[p] = Len(wal) /\ pageLsn[p] < Len(wal)
                   /\ Live(r) => snaps[r].lsn < Len(wal)
<1> DEFINE s == snaps[r]
<1>a. /\ pageLsn \in [Pages -> Image] /\ Len(wal) \in Nat /\ walEp \in Nat /\ epoch \in Nat /\ s.lsn \in Nat
      /\ LastLsn(wal) = Len(wal) /\ pending \in [Pages -> Image]
  BY LogIs DEF Shapes, Snapshot
<1>b. s.on = snaps'[r].on /\ s.epoch = snaps'[r].epoch /\ s.lsn = snaps'[r].lsn
  BY WriterKeeps
<1>1. CASE ClearLsn
  <2>1. UNCHANGED <<walEp, epoch, snaps>> /\ wpc = "clear" /\ wpc' = "idle" /\ walEp = epoch
    BY <1>1 DEF ClearLsn, Writing
  <2>2. LsnEpoch = epoch - 1 /\ LsnEpoch' = epoch
    BY <2>1 DEF LsnEpoch
  <2>3. s.on => s.epoch # walEp
    BY <2>1 DEF Registered, Emptying
  <2> QED
    BY <1>a, <2>1, <2>2, <2>3 DEF Live
<1>2. CASE Apply
  <2>1. UNCHANGED <<epoch, walEp, snaps>> /\ wpc = "apply" /\ wpc' = "flush" /\ PoolFree /\ walEp = epoch
    BY <1>2 DEF Apply, Writing
  <2>2. LsnEpoch' = LsnEpoch /\ LsnEpoch = walEp /\ Applied = Len(wal) - 1 /\ ~Emptying
    BY <2>1 DEF LsnEpoch, Applied, Logged, Emptying
  <2>3. Live(r)' = Live(r) /\ Live(r) = Logging(r)
    BY <2>1, <2>2 DEF Live, Logging
  <2>4. Live(r) => s.lsn < Len(wal)
    <3>1. Live(r) => s.lsn <= Len(wal) - 1
      BY <2>2, <2>3 DEF Registered
    <3> QED
      BY <1>a, <3>1
  <2>5. ASSUME NEW p \in Pages, p \in wset PROVE pageLsn'[p] = Len(wal) /\ pageLsn[p] < Len(wal)
    <3>1. pageLsn[p] = None \/ pageLsn[p] \in 1 .. Len(wal) - 1
      BY <2>2 DEF Numbered
    <3>2. pageLsn'[p] = Len(wal)
      BY <1>2, <1>a, <2>5 DEF Apply
    <3> QED
      BY <1>a, <3>1, <3>2 DEF None
  <2>6. ASSUME NEW p \in Pages, p \notin wset
        PROVE pageLsn'[p] = pageLsn[p] /\ Latest(p)' = Latest(p) /\ pending'[p] = pending[p]
    BY <1>2, <2>6, LatestChanges DEF Apply
  <2> QED
    BY <2>1, <2>2, <2>3, <2>4, <2>5, <2>6
<1>3. CASE ~ClearLsn /\ ~Apply
  <2>1. UNCHANGED pageLsn
    BY <1>3 DEF Writer, AppendCommit, Preserve, FlushPage, Retire, Repool, FlushEnd, Truncate, PublishEpoch, logVars
  <2>2. LsnEpoch' = LsnEpoch
    <3>1. CASE PublishEpoch
      <4>1. wpc = "publish" /\ wpc' = "clear" /\ epoch' = epoch + 1
        BY <3>1 DEF PublishEpoch, Writing
      <4> QED
        BY <1>a, <4>1 DEF LsnEpoch
    <3>2. CASE ~PublishEpoch
      <4>1. UNCHANGED epoch /\ wpc # "clear" /\ wpc' # "clear"
        BY <1>3, <3>2 DEF Writer, AppendCommit, Preserve, FlushPage, Retire, Repool, FlushEnd, Truncate, logVars
      <4> QED
        BY <4>1 DEF LsnEpoch
    <3> QED
      BY <3>1, <3>2
  <2>3. \A p \in Pages : pending'[p] \in {pending[p], None}
    BY <1>3, <1>a DEF Writer, AppendCommit, Preserve, FlushPage, Retire, Repool, FlushEnd, Truncate, PublishEpoch,
       imgVars
  <2>4. \A p \in Pages : Latest(p)' = Latest(p)
    BY <1>3, LatestChanges
  <2>5. Live(r)' = Live(r)
    BY <1>b, <2>2 DEF Live
  <2> QED
    BY <2>1, <2>2, <2>3, <2>4, <2>5
<1> QED
  BY <1>1, <1>2, <1>3

\* A step of the writer leaves every cache with what its snapshot saw: the
\* image it preserves is the page's latest, which no commit of the epoch wrote.
LEMMA WriterCaches ==
  ASSUME Shapes, Writing, Writer, Fresh, NEW r \in Readers, Registered(r), snaps[r].on, NEW p \in Pages,
         snaps[r].cache[p] # None => snaps[r].cache[p] = seen[r][p]
  PROVE snaps'[r].cache[p] # None => snaps'[r].cache[p] = seen[r][p]
<1> DEFINE s == snaps[r]
<1>a. s \in Snapshot /\ s.lsn \in Nat
  BY DEF Shapes, Snapshot
<1>1. CASE Preserve
  <2>1. /\ wpc = "preserve" /\ walEp = epoch
        /\ snaps'[r] = IF s.on /\ s.epoch = walEp THEN Preserved(s) ELSE s
    BY <1>1 DEF Preserve, Writing
  <2>2. CASE s.epoch = walEp /\ p \in wset /\ pageLsn[p] = None
    <3>1. snaps'[r].cache[p] = Before(p)
      BY <1>a, <2>1, <2>2 DEF Preserved, Snapshot
    <3>2. Before(p) = Latest(p)
      BY DEF Before, Fresh
    <3>3. Live(r) /\ Within(pageLsn[p], s)
      BY <1>a, <2>1, <2>2 DEF Live, LsnEpoch, Within, None
    <3> QED
      BY <3>1, <3>2, <3>3 DEF Registered
  <2>3. CASE ~(s.epoch = walEp /\ p \in wset /\ pageLsn[p] = None)
    <3>1. snaps'[r].cache[p] = s.cache[p]
      BY <1>a, <2>1, <2>3 DEF Preserved, Snapshot
    <3> QED
      BY <3>1
  <2> QED
    BY <2>2, <2>3
<1>2. CASE UNCHANGED snaps
  BY <1>2
<1> QED
  BY <1>1, <1>2 DEF Writer, AppendCommit, Apply, FlushPage, Retire, Repool, FlushEnd, Truncate, PublishEpoch, ClearLsn

\* A step of the writer keeps what a read of the current image knows.
LEMMA WriterReading ==
  ASSUME None \notin Readers, Shapes, Writing, Numbered, Holding, Fresh, Writer,
         NEW r \in Readers, Registered(r), Reading(r)
  PROVE Reading(r)'
<1> DEFINE a == rd[r]
           s == snaps[r]
           p == a.page
<1>0. UNCHANGED <<rd, seen>>
  BY WriterLeaves
<1>a. /\ a.pc # "idle" => p \in Pages /\ pageLsn[p] \in Int
      /\ a.ep0 \in Int /\ a.v0 \in Int /\ a.lsn \in Int /\ s.lsn \in Nat /\ LsnEpoch \in Int /\ Len(wal) \in Nat
  <2>1. a \in Read /\ s \in Snapshot /\ epoch \in Nat /\ pageLsn \in [Pages -> Image] /\ (a.pc # "idle" => p \in Pages)
    BY DEF Shapes
  <2>2. LsnEpoch \in Int
    BY <2>1 DEF LsnEpoch
  <2>3. a.ep0 \in Int /\ a.v0 \in Int /\ a.lsn \in Int /\ s.lsn \in Nat
    BY <2>1, Blanks DEF Read, Snapshot
  <2>4. a.pc # "idle" => pageLsn[p] \in Int
    BY <2>1, Blanks
  <2> QED
    BY <2>1, <2>2, <2>3, <2>4, LogIs
<1>b. snaps'[r].on = s.on /\ snaps'[r].lsn = s.lsn
  BY WriterKeeps
<1>c. snaps'[r].on => \A q \in Pages : snaps'[r].cache[q] # None => snaps'[r].cache[q] = seen'[r][q]
  BY <1>0, <1>b, WriterCaches DEF Reading
<1>d. a.pc = "recheck" => ~PoolFree
  BY DEF Holding, PoolFree
<1> DEFINE R(pcs) == a.pc \in pcs
           U == Live(r) /\ pageLsn[p] <= s.lsn
<1>e. /\ R({"ep0", "pending", "file", "lock", "recheck"}) => a.ep0 <= LsnEpoch /\ (LsnEpoch = a.ep0 => a.v0 <= pageLsn[p])
      /\ R({"file"}) /\ (Matches(a) \/ U) => pending[p] = None
      /\ R({"lock", "recheck"}) /\ Matches(a) => a.img = Latest(p)
      /\ R({"recheck"}) /\ LsnEpoch = a.ep0 => a.lsn = pageLsn[p]
      /\ R({"lock", "recheck", "verify"}) /\ U => a.img = seen[r][p]
      /\ R({"verifyEpoch"}) /\ Live(r) /\ Within(a.lsn, s) => a.img = seen[r][p]
      /\ a.out = "ok" => a.img = seen[r][p]
  BY DEF Reading, Within
<1>1. CASE a.pc = "idle"
  BY <1>0, <1>1, <1>c, <1>e DEF Reading
<1>2. CASE a.pc # "idle" /\ LsnEpoch' = LsnEpoch + 1 /\ ~Live(r)'
  <2>1. R({"ep0", "pending", "file", "lock", "recheck"}) => a.ep0 <= LsnEpoch' /\ LsnEpoch' # a.ep0
    BY <1>2, <1>a, <1>e
  <2>2. R({"ep0", "pending", "file", "lock", "recheck"}) => ~Matches(a)'
    BY <1>0, <2>1 DEF Matches
  <2> QED
    BY <1>0, <1>2, <1>c, <1>e, <2>1, <2>2 DEF Reading
<1>3. CASE /\ a.pc # "idle" /\ LsnEpoch' = LsnEpoch /\ Live(r)' = Live(r)
           /\ pageLsn'[p] = pageLsn[p] /\ Latest(p)' = Latest(p) /\ pending'[p] \in {pending[p], None}
  <2>1. Matches(a)' = Matches(a)
    BY <1>0, <1>3 DEF Matches
  <2> QED
    BY <1>0, <1>3, <1>b, <1>c, <1>e, <2>1 DEF Reading, Within
<1>4. CASE /\ a.pc # "idle" /\ LsnEpoch' = LsnEpoch /\ Live(r)' = Live(r)
           /\ PoolFree /\ pageLsn'[p] = Len(wal) /\ pageLsn[p] < Len(wal) /\ (Live(r) => s.lsn < Len(wal))
  <2>1. R({"ep0", "pending", "file", "lock", "recheck"}) =>
          (LsnEpoch' = a.ep0 => a.v0 <= pageLsn'[p] /\ a.v0 # pageLsn'[p])
    BY <1>4, <1>a, <1>e
  <2>2. R({"ep0", "pending", "file", "lock", "recheck"}) => ~Matches(a)'
    BY <1>0, <2>1 DEF Matches
  <2>3. Live(r) => ~(pageLsn'[p] <= s.lsn)
    BY <1>4, <1>a
  <2>4. a.pc # "recheck"
    BY <1>4, <1>d
  <2> QED
    BY <1>0, <1>4, <1>b, <1>c, <1>e, <2>1, <2>2, <2>3, <2>4 DEF Reading, Within
<1>5. \/ LsnEpoch' = LsnEpoch + 1 /\ ~Live(r)'
      \/ /\ LsnEpoch' = LsnEpoch /\ Live(r)' = Live(r)
         /\ a.pc # "idle" =>
              \/ pageLsn'[p] = pageLsn[p] /\ Latest(p)' = Latest(p) /\ pending'[p] \in {pending[p], None}
              \/ PoolFree /\ pageLsn'[p] = Len(wal) /\ pageLsn[p] < Len(wal) /\ (Live(r) => s.lsn < Len(wal))
  <2>1. \/ LsnEpoch' = LsnEpoch + 1 /\ ~Live(r)'
        \/ /\ LsnEpoch' = LsnEpoch /\ Live(r)' = Live(r)
           /\ \A q \in Pages :
                \/ pageLsn'[q] = pageLsn[q] /\ Latest(q)' = Latest(q) /\ pending'[q] \in {pending[q], None}
                \/ PoolFree /\ pageLsn'[q] = Len(wal) /\ pageLsn[q] < Len(wal) /\ (Live(r) => s.lsn < Len(wal))
    BY WriterMoves
  <2>2. \A q \in Pages : q = p => Latest(p)' = Latest(q)'
    BY <1>0 DEF Latest
  <2> QED
    BY <1>a, <2>1, <2>2
<1> QED
  BY <1>1, <1>2, <1>3, <1>4, <1>5

\* A reader's step keeps what its read of the current image knows.
LEMMA ReaderReading ==
  ASSUME Shapes, Writing, Fresh, NEW r \in Readers, Registered(r), Searching(r), Reading(r), Reader(r), ~mixed'
  PROVE Reading(r)'
<1> DEFINE a == rd[r]
           x == rd'[r]
           s == snaps[r]
           p == a.page
           U == Live(r) /\ pageLsn[p] <= s.lsn
<1>0. UNCHANGED <<wal, walEp, epoch, pageLsn, pending, file, wpc>>
  BY Apart
<1>1. LsnEpoch' = LsnEpoch
  BY <1>0 DEF LsnEpoch
<1>a. /\ snaps \in [Readers -> Snapshot] /\ s \in Snapshot /\ seen \in [Readers -> [Pages -> Image]]
      /\ a.pc # "idle" => p \in Pages /\ s.on /\ a.out = "none"
  BY DEF Shapes, Registered, Searching
<1>b. s.on => \A q \in Pages : s.cache[q] # None => s.cache[q] = seen[r][q]
  BY DEF Reading
<1>c. ASSUME snaps'[r] = s, seen'[r] = seen[r] PROVE Live(r)' = Live(r)
  BY <1>1, <1>c DEF Live
<1>d. ASSUME U, p \in Pages PROVE Latest(p) = seen[r][p]
  BY <1>d DEF Registered, Within
<1>e. /\ a.pc \in {"ep0", "pending", "file", "lock", "recheck"} =>
            a.ep0 <= LsnEpoch /\ (LsnEpoch = a.ep0 => a.v0 <= pageLsn[p])
      /\ a.pc = "file" /\ ((LsnEpoch = a.ep0 /\ pageLsn[p] = a.v0) \/ U) => pending[p] = None
      /\ a.pc \in {"lock", "recheck"} /\ LsnEpoch = a.ep0 /\ pageLsn[p] = a.v0 => a.img = Latest(p)
      /\ a.pc = "recheck" /\ LsnEpoch = a.ep0 => a.lsn = pageLsn[p]
      /\ a.pc \in {"lock", "recheck", "verify"} /\ U => a.img = seen[r][p]
      /\ a.pc = "verifyEpoch" /\ Live(r) /\ a.lsn <= s.lsn => a.img = seen[r][p]
  BY DEF Reading, Within, Matches
<1>f. ASSUME snaps'[r] = s, seen'[r] = seen[r], x.out # "ok",
             x.pc \notin {"ep0", "pending", "file", "lock", "recheck", "verify", "verifyEpoch"}
      PROVE Reading(r)'
  BY <1>b, <1>f DEF Reading
<1>g. ASSUME snaps'[r] = s, seen'[r] = seen[r], x.out = "none", x.pc = "verify", x.page = p, U => x.img = seen[r][p]
      PROVE Reading(r)'
  BY <1>0, <1>b, <1>c, <1>g DEF Reading, Within
<1>h. ASSUME a.pc # "idle", snaps'[r] = s, seen'[r] = seen[r], x.out = "none", x.pc = "verify", x.page = p,
             x.img \in {pool[p], pending[p]}, x.img # None
      PROVE Reading(r)'
  <2>1. x.img = Latest(p)
    BY <1>a, <1>h DEF Fresh, Latest
  <2> QED
    BY <1>a, <1>d, <1>g, <1>h, <2>1
<1>2. ASSUME BeginSnapshot(r) PROVE Reading(r)'
  <2>1. x.pc = "idle" /\ x.out = "none"
    BY <1>2 DEF BeginSnapshot, Registered
  <2>2. \A q \in Pages : snaps'[r].cache[q] = None
    BY <1>2, <1>a, Blanks DEF BeginSnapshot, NoSnap
  <2> QED
    BY <2>1, <2>2 DEF Reading
<1>3. ASSUME EndSnapshot(r) PROVE Reading(r)'
  <2>1. x.pc = "idle" /\ x.out = "none"
    BY <1>3, Effects
  <2>2. ~snaps'[r].on
    BY <1>3, <1>a DEF EndSnapshot, NoSnap
  <2> QED
    BY <2>1, <2>2 DEF Reading
<1>4. ASSUME (\E q \in Pages : StartRead(r, q)) \/ DirtyAt(r) \/ Scan(r) PROVE Reading(r)'
  <2>1. x.out # "ok" /\ x.pc \in {"idle", "dirty", "touch", "scan", "cached", "install"}
    BY <1>4, <1>a, Effects
  <2>2. snaps'[r] = s /\ seen'[r] = seen[r]
    BY <1>4 DEF StartRead, DirtyAt, Scan
  <2> QED
    BY <1>f, <2>1, <2>2
<1>5. ASSUME PoolTouch(r) PROVE Reading(r)'
  <2>1. a.pc = "touch" /\ x.page = p /\ x.out = a.out
        /\ IF pool[p] # None THEN x.pc = "verify" /\ x.img = pool[p] ELSE x.pc = "lsn0"
    BY <1>5, Effects
  <2>2. snaps'[r] = s /\ seen'[r] = seen[r]
    BY <1>5 DEF PoolTouch
  <2> QED
    BY <1>a, <1>f, <1>h, <2>1, <2>2
<1>6. ASSUME VersionLsn(r) PROVE Reading(r)'
  <2>1. a.pc = "lsn0" /\ x.pc = "ep0" /\ x.page = p /\ x.out = a.out /\ x.v0 = pageLsn[p] /\ x.ep0 = LsnEpoch
    BY <1>6, Effects
  <2>2. snaps'[r] = s /\ seen'[r] = seen[r]
    BY <1>6 DEF VersionLsn
  <2>3. LsnEpoch \in Int /\ pageLsn[p] \in Int
    BY <1>a, <2>1, Blanks DEF Shapes, LsnEpoch
  <2> QED
    BY <1>0, <1>1, <1>a, <1>b, <2>1, <2>2, <2>3 DEF Reading
<1>7. ASSUME VersionEpoch(r) PROVE Reading(r)'
  <2>1. a.pc = "ep0" /\ x.pc = "pending" /\ x.page = p /\ x.out = a.out /\ x.v0 = a.v0 /\ x.ep0 = epoch
    BY <1>7, Effects
  <2>2. snaps'[r] = s /\ seen'[r] = seen[r] /\ epoch = a.ep0
    BY <1>7 DEF VersionEpoch
  <2> QED
    BY <1>0, <1>1, <1>a, <1>b, <1>e, <2>1, <2>2 DEF Reading
<1>8. ASSUME PendingGet(r) PROVE Reading(r)'
  <2>1. a.pc = "pending" /\ x.page = p /\ x.out = a.out
        /\ IF pending[p] # None THEN x.pc = "verify" /\ x.img = pending[p]
                                ELSE x.pc = "file" /\ x.v0 = a.v0 /\ x.ep0 = a.ep0
    BY <1>8, Effects
  <2>2. snaps'[r] = s /\ seen'[r] = seen[r]
    BY <1>8 DEF PendingGet
  <2>3. CASE pending[p] # None
    BY <1>a, <1>h, <2>1, <2>2, <2>3
  <2>4. CASE pending[p] = None
    BY <1>0, <1>1, <1>a, <1>b, <1>e, <2>1, <2>2, <2>4 DEF Reading
  <2> QED
    BY <2>3, <2>4
<1>9. ASSUME FileRead(r) PROVE Reading(r)'
  <2>1. a.pc = "file" /\ x.pc = "lock" /\ x.page = p /\ x.out = a.out /\ x.v0 = a.v0 /\ x.ep0 = a.ep0 /\ x.img = file[p]
    BY <1>9, Effects
  <2>2. snaps'[r] = s /\ seen'[r] = seen[r]
    BY <1>9 DEF FileRead
  <2>3. (LsnEpoch = a.ep0 /\ pageLsn[p] = a.v0) \/ U => x.img = Latest(p)
    BY <1>e, <2>1 DEF Latest
  <2>4. Latest(p) = IF pending'[x.page] # None THEN pending'[x.page] ELSE file'[x.page]
    BY <1>0, <2>1 DEF Latest
  <2>5. U => x.img = seen[r][p]
    BY <1>a, <1>d, <2>1, <2>3
  <2> QED
    BY <1>0, <1>1, <1>a, <1>b, <1>c, <1>e, <2>1, <2>2, <2>3, <2>4, <2>5 DEF Reading, Matches, Within, Latest
<1>10. ASSUME LockPool(r) PROVE Reading(r)'
  <2>1. /\ a.pc = "lock" /\ x.page = p /\ x.out = a.out
        /\ \/ pool[p] # None /\ x.pc = "verify" /\ x.img = pool[p]
           \/ pending[p] # None /\ x.pc = "verify" /\ x.img = pending[p]
           \/ x.pc = "recheck" /\ x.v0 = a.v0 /\ x.ep0 = a.ep0 /\ x.img = a.img /\ x.lsn = pageLsn[p]
    BY <1>10, Effects
  <2>2. snaps'[r] = s /\ seen'[r] = seen[r]
    BY <1>10 DEF LockPool
  <2>3. CASE x.pc = "verify"
    BY <1>a, <1>h, <2>1, <2>2, <2>3
  <2>4. CASE x.pc = "recheck"
    <3>1. Latest(p) = IF pending'[x.page] # None THEN pending'[x.page] ELSE file'[x.page]
      BY <1>0, <2>1 DEF Latest
    <3> QED
      BY <1>0, <1>1, <1>a, <1>b, <1>c, <1>e, <2>1, <2>2, <2>4, <3>1 DEF Reading, Matches, Within, Latest
  <2> QED
    BY <2>1, <2>3, <2>4
<1>11. ASSUME Recheck(r) PROVE Reading(r)'
  <2>1. /\ a.pc = "recheck" /\ x.page = p
        /\ \/ x.pc = "verify" /\ x.img = a.img /\ x.out = a.out
           \/ x.pc = "idle" /\ x.out = "spun"
           \/ x.pc = "lsn0" /\ x.out = "none"
    BY <1>11, Effects
  <2>2. snaps'[r] = s /\ seen'[r] = seen[r]
    BY <1>11 DEF Recheck
  <2> QED
    BY <1>a, <1>e, <1>f, <1>g, <2>1, <2>2
<1>12. ASSUME VerifyLsn(r) PROVE Reading(r)'
  <2>1. a.pc = "verify" /\ x.pc = "verifyEpoch" /\ x.page = p /\ x.out = a.out /\ x.img = a.img /\ x.lsn = pageLsn[p]
    BY <1>12, Effects
  <2>2. snaps'[r] = s /\ seen'[r] = seen[r]
    BY <1>12 DEF VerifyLsn
  <2> QED
    BY <1>a, <1>b, <1>c, <1>e, <2>1, <2>2 DEF Reading, Within
<1>13. ASSUME VerifyEpoch(r) PROVE Reading(r)'
  <2>1. a.pc = "verifyEpoch" /\ x.page = p /\ x.img = a.img
        /\ IF StillCurrent(r) THEN x.pc = "idle" /\ x.out = "ok" ELSE x.pc = "scan" /\ x.out = "none"
    BY <1>13, Effects
  <2>2. snaps'[r] = s /\ seen'[r] = seen[r]
    BY <1>13 DEF VerifyEpoch
  <2>3. CASE StillCurrent(r)
    <3>1. Live(r) /\ a.lsn <= s.lsn
      BY <1>a, <2>1, <2>3, Current DEF StillCurrent, Within
    <3> QED
      BY <1>b, <1>e, <2>1, <2>2, <2>3, <3>1 DEF Reading
  <2>4. CASE ~StillCurrent(r)
    BY <1>f, <2>1, <2>2, <2>4
  <2> QED
    BY <2>3, <2>4
<1>14. ASSUME Install(r) PROVE Reading(r)'
  <2>1. a.pc = "install" /\ x.page = p
        /\ IF walEp # s.epoch THEN x.pc = "idle" /\ x.out = "old" ELSE x.pc = "cached" /\ x.out = a.out
    BY <1>14, Effects
  <2>2. seen'[r] = seen[r]
    BY <1>14 DEF Install
  <2>3. CASE walEp # s.epoch
    <3>1. snaps'[r] = s
      BY <1>14, <2>3 DEF Install
    <3> QED
      BY <1>f, <2>1, <2>2, <2>3, <3>1
  <2>4. CASE walEp = s.epoch
    <3>1. snaps'[r].cache = Merged(s.cache, a.got)
      BY <1>14, <1>a, <2>4 DEF Install, Snapshot
    <3>2. Logging(r)
      BY <1>a, <2>1, <2>4 DEF Logging
    <3>3. \A q \in Pages : a.got[q] # None => a.got[q] = seen[r][q]
      BY <2>1, <3>2 DEF Searching, Registered
    <3>4. \A q \in Pages : snaps'[r].cache[q] # None => snaps'[r].cache[q] = seen'[r][q]
      BY <1>a, <1>b, <2>1, <2>2, <3>1, <3>3 DEF Merged
    <3> QED
      BY <1>a, <2>1, <2>4, <3>4 DEF Reading
  <2> QED
    BY <2>3, <2>4
<1>15. ASSUME CacheGet(r) PROVE Reading(r)'
  <2>1. a.pc = "cached" /\ x.pc = "idle" /\ x.page = p /\ x.img = s.cache[p]
        /\ x.out = IF s.cache[p] = None THEN "lost" ELSE "ok"
    BY <1>15, Effects
  <2>2. snaps'[r] = s /\ seen'[r] = seen[r]
    BY <1>15 DEF CacheGet
  <2> QED
    BY <1>a, <1>b, <2>1, <2>2 DEF Reading
<1> QED
  BY <1>2, <1>3, <1>4, <1>5, <1>6, <1>7, <1>8, <1>9, <1>10, <1>11, <1>12, <1>13, <1>14, <1>15 DEF Reader

-----------------------------------------------------------------------------
(* The invariant                                                           *)

\* It holds when the database is opened.
LEMMA Start ==
  ASSUME Init
  PROVE IInv
<1>0. \A p \in Pages : Blank[p] = None
  BY Blanks
<1>1. Shapes
  <2>1. wal \in Seq(Commits) /\ file \in [Pages -> Nat]
    BY DEF Init
  <2>2. /\ pageLsn \in [Pages -> Image] /\ pool \in [Pages -> Image] /\ pending \in [Pages -> Image]
        /\ snaps \in [Readers -> Snapshot] /\ rd \in [Readers -> Read] /\ seen \in [Readers -> [Pages -> Image]]
    BY Blanks DEF Init
  <2>3. \A r \in Readers : rd[r].pc = "idle"
    BY DEF Init, NoRead
  <2> QED
    BY <2>1, <2>2, <2>3 DEF Init, Shapes
<1>2. Len(wal) = 0 /\ ~Emptying /\ ~Logged /\ \A i \in 1 .. 0 : FALSE
  BY DEF Init, Emptying, Logged
<1>3. Writing
  BY <1>2 DEF Init, Writing
<1>4. Numbered
  BY <1>0, <1>2 DEF Numbered, Applied, Init
<1>5. \A r \in Readers : ~snaps[r].on /\ rd[r].pc = "idle" /\ rd[r].out = "none"
  BY DEF Init, NoSnap, NoRead
<1>6. Holding
  BY <1>5 DEF Holding
<1>7. \A r \in Readers : Registered(r) /\ Searching(r) /\ Reading(r)
  BY <1>5 DEF Registered, Searching, Reading, Refused, Live, Logging
<1>8. Fresh
  BY <1>0 DEF Init, Fresh
<1> QED
  BY <1>1, <1>3, <1>4, <1>6, <1>7, <1>8 DEF IInv

\* Every step keeps it.
LEMMA Step ==
  ASSUME None \notin Readers, IInv, Next
  PROVE IInv'
<1>a. Shapes /\ Writing /\ Numbered /\ Holding /\ \A r \in Readers : Registered(r) /\ Searching(r)
  BY DEF IInv
<1>b. ~mixed => Fresh /\ \A r \in Readers : Reading(r)
  BY DEF IInv
<1>1. Holding'
  BY <1>a, HoldingKept
<1>2. ASSUME Writer PROVE IInv'
  <2>1. Shapes' /\ Writing' /\ Numbered'
    BY <1>2, <1>a, WriterShapes, WritingKept, NumberedKept
  <2>2. \A r \in Readers : Registered(r)' /\ Searching(r)'
    BY <1>2, <1>a, WriterRegistered, WriterSearching
  <2>3. UNCHANGED mixed
    BY <1>2, WriterLeaves
  <2>4. ~mixed => Fresh' /\ \A r \in Readers : Reading(r)'
    BY <1>2, <1>a, <1>b, WriterFresh, WriterReading
  <2> QED
    BY <1>1, <2>1, <2>2, <2>3, <2>4 DEF IInv
<1>3. ASSUME NEW r \in Readers, Reader(r) PROVE IInv'
  <2>0. UNCHANGED <<wal, walEp, epoch, pageLsn, pending, file, wpc, wset, stamp>>
    BY <1>3, Apart
  <2>1. Shapes'
    BY <1>3, <1>a, ReaderShapes
  <2>2. Writing'
    BY <1>a, <2>0 DEF Writing, Emptying, Logged
  <2>3. Numbered'
    BY <1>a, <2>0, SteadyNumbered DEF Applied, Logged, Emptying, Latest
  <2>4. \A q \in Readers : Registered(q)' /\ Searching(q)'
    BY <1>3, <1>a, ReaderRegistered, ReaderSearching, OtherReads
  <2>5. ~mixed' => ~mixed
    BY <1>3, Apart DEF VersionEpoch
  <2>6. ~mixed' => Fresh' /\ \A q \in Readers : Reading(q)'
    BY <1>3, <1>a, <1>b, <2>5, ReaderFresh, ReaderReading, OtherReads
  <2> QED
    BY <1>1, <2>1, <2>2, <2>3, <2>4, <2>6 DEF IInv
<1> QED
  BY <1>2, <1>3 DEF Next

\* Every state reached has the invariant: log, LSNs, images, snapshots and
\* reads agree, whatever commits, flushes, evictions and truncations ran
\* between two locks of a read.
THEOREM Invariant == None \notin Readers => (Spec => []IInv)
<1> SUFFICES ASSUME None \notin Readers PROVE Spec => []IInv
  OBVIOUS
<1>1. Init => IInv
  BY Start
<1>2. IInv /\ [Next]_vars => IInv'
  <2> SUFFICES ASSUME IInv, [Next]_vars PROVE IInv'
    OBVIOUS
  <2>1. CASE Next
    BY <2>1, Step
  <2>2. CASE UNCHANGED vars
    BY <2>2 DEF vars, IInv, Shapes, Writing, Numbered, Holding, Registered, Searching, Reading, Fresh, Latest,
       Applied,
                Logged, Emptying, Live, Logging, Kept, Within, Refused, Matches, LsnEpoch
  <2> QED
    BY <2>1, <2>2
<1> QED
  BY <1>1, <1>2, PTL DEF Spec

\* A snapshot read that answers returns the page as it was when its snapshot
\* began (read_page_as_of), a read is refused only after its epoch ended
\* (materialize_snapshot), and the pool never keeps an image older than the
\* last commit applied (read_page_shared), for any number of pages, readers,
\* commits, epochs, pool sizes and retries.
THEOREM SnapshotsSound == None \notin Readers => (Spec => [](AsOf /\ HistoryKept /\ PoolFresh))
<1> SUFFICES ASSUME None \notin Readers PROVE Spec => [](AsOf /\ HistoryKept /\ PoolFresh)
  OBVIOUS
<1>1. IInv => AsOf /\ HistoryKept /\ PoolFresh
  BY DEF IInv, AsOf, HistoryKept, PoolFresh, Reading, Searching
<1>2. Spec => []IInv
  BY Invariant
<1> QED
  BY <1>1, <1>2, PTL
=============================================================================
