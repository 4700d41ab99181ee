----------------------------- MODULE PageAlloc -----------------------------
(***************************************************************************)
(* Page allocation (pager.rs): num_pages, the reusable pages, the undo     *)
(* journal of an explicit transaction with its savepoints, and its replay  *)
(* (engine/catalog.rs).  The engine is seen through the pages its catalog  *)
(* refers to: a statement allocates, writes and frees some in a pager      *)
(* transaction that commits or is dropped.  A page image is one number.    *)
(***************************************************************************)
EXTENDS Integers, Sequences, FiniteSets, SequencesExt

CONSTANTS MaxPages,   \* u32::MAX
          MaxOps, MaxSavepoints

Pages == 1..MaxPages

VARIABLES num,    \* num_pages
          order,  \* ReusablePages::order
          free,   \* ReusablePages::set
          img,    \* the current image of every page
          owned,  \* the pages the catalog in memory refers to
          undo,   \* UndoState
          tx,     \* the open pager transaction, if any
          base,   \* what BEGIN and each SAVEPOINT saw, with its mark
          lost,   \* pages that a ROLLBACK TO left to nobody (see NoLeak)
          ops     \* operations so far

vars == <<num, order, free, img, owned, undo, tx, base, lost, ops>>

NoUndo == [active |-> FALSE, ops |-> <<>>, recorded |-> {}, freed |-> {}]
NoTx == [on |-> FALSE, staged |-> <<>>, toFree |-> {}, reused |-> {}, owned |-> {}]
Set(p, i) == [op |-> "set", page |-> p, img |-> i]
Op(o, p) == [op |-> o, page |-> p, img |-> 0]
Stage(s, p, i) == [q \in DOMAIN s \cup {p} |-> IF q = p THEN i ELSE s[q]]
Unstage(s, p) == [q \in DOMAIN s \ {p} |-> s[q]]
Step == ops < MaxOps /\ ops' = ops + 1

(***************************************************************************)
(* ReusablePages: the set decides, `order` may hold stale entries.         *)
(***************************************************************************)
Push(r, ps) == [order |-> r.order \o SetToSeq(ps \ r.set), set |-> r.set \cup ps]

Pop(r) ==
  LET hits == {i \in 1..Len(r.order) : r.order[i] \in r.set}
      top == CHOOSE i \in hits : \A j \in hits : j <= i
  IN IF hits = {} THEN [page |-> 0, order |-> <<>>, set |-> r.set]
     ELSE [page |-> r.order[top], order |-> SubSeq(r.order, 1, top - 1), set |-> r.set \ {r.order[top]}]

Reusable == [order |-> order, set |-> free]
SetReusable(r) == order' = r.order /\ free' = r.set

(***************************************************************************)
(* A pager transaction: allocate_page, write_page, free_page.              *)
(***************************************************************************)
BeginTx ==
  /\ ~tx.on /\ Step
  /\ tx' = [NoTx EXCEPT !.on = TRUE, !.owned = owned]
  /\ UNCHANGED <<num, order, free, img, owned, undo, base, lost>>

JournalledPlain(p) == IF undo.active THEN [undo EXCEPT !.ops = Append(@, Op("alloc", p))] ELSE undo

Journalled(p) ==
  IF ~undo.active THEN undo
  ELSE IF p \notin undo.freed THEN [undo EXCEPT !.ops = Append(@, Op("alloc", p))]
  ELSE IF p \in undo.recorded THEN undo
  ELSE [undo EXCEPT !.ops = @ \o <<Set(p, img[p]), Op("realloc", p)>>, !.recorded = @ \cup {p}]

Allocate ==
  /\ tx.on /\ Step
  /\ LET pop == Pop(Reusable)
         p == IF pop.page # 0 THEN pop.page ELSE num
     IN /\ pop.page # 0 \/ num <= MaxPages
        /\ num' = IF pop.page # 0 THEN num ELSE num + 1
        /\ order' = pop.order /\ free' = pop.set
        /\ undo' = Journalled(p)
        /\ tx' = [tx EXCEPT !.staged = Stage(@, p, 0), !.reused = @ \cup {p}, !.owned = @ \cup {p}]
  /\ UNCHANGED <<img, owned, base, lost>>

\* the id space is exhausted
AllocateFails ==
  /\ tx.on /\ Step
  /\ Pop(Reusable).page = 0 /\ num > MaxPages
  /\ order' = Pop(Reusable).order
  /\ UNCHANGED <<num, free, img, owned, undo, tx, base, lost>>

WritePage(p) ==
  /\ tx.on /\ Step /\ p \in tx.owned
  /\ LET first == p \notin DOMAIN tx.staged /\ undo.active /\ p \notin undo.recorded
     IN undo' = IF first THEN [undo EXCEPT !.ops = Append(@, Set(p, img[p])), !.recorded = @ \cup {p}] ELSE undo
  /\ tx' = [tx EXCEPT !.staged = Stage(@, p, ops')]
  /\ UNCHANGED <<num, order, free, img, owned, base, lost>>

FreePage(p) ==
  /\ tx.on /\ Step /\ p \in tx.owned
  /\ undo' = IF undo.active THEN [undo EXCEPT !.ops = Append(@, Op("free", p)), !.freed = @ \cup {p}] ELSE undo
  /\ tx' = [tx EXCEPT !.staged = Unstage(@, p), !.toFree = @ \cup {p}, !.owned = @ \ {p}]
  /\ UNCHANGED <<num, order, free, img, owned, base, lost>>

\* the pages of a transaction enter the reusable set once it has committed
CommitTx ==
  /\ tx.on /\ Step
  /\ img' = [p \in Pages |-> IF p \in DOMAIN tx.staged THEN tx.staged[p] ELSE img[p]]
  /\ SetReusable(Push(Reusable, tx.toFree))
  /\ owned' = tx.owned
  /\ tx' = NoTx
  /\ UNCHANGED <<num, undo, base, lost>>

DropTxForgets ==
  /\ tx.on /\ Step
  /\ tx' = NoTx
  /\ UNCHANGED <<num, order, free, img, owned, undo, base, lost>>

\* abort_tx, a failed commit, or Tx::drop
DropTx ==
  /\ tx.on /\ Step
  /\ SetReusable(Push(Reusable, tx.reused))
  /\ tx' = NoTx
  /\ UNCHANGED <<num, img, owned, undo, base, lost>>

(***************************************************************************)
(* The undo journal.                                                       *)
(***************************************************************************)
Mark(m) == [owned |-> owned, img |-> img, free |-> free, mark |-> m]

Begin ==
  /\ ~tx.on /\ ~undo.active /\ Step
  /\ undo' = [NoUndo EXCEPT !.active = TRUE]
  /\ base' = <<Mark(0)>>
  /\ UNCHANGED <<num, order, free, img, owned, tx, lost>>

\* a savepoint records the current image of every page journalled so far
Savepoint ==
  /\ ~tx.on /\ undo.active /\ Len(base) <= MaxSavepoints /\ Step
  /\ base' = Append(base, Mark(Len(undo.ops)))
  /\ \E ids \in SetToSeqs(undo.recorded) :
       undo' = [undo EXCEPT !.ops = @ \o [i \in DOMAIN ids |-> Set(ids[i], img[ids[i]])]]
  /\ UNCHANGED <<num, order, free, img, owned, tx, lost>>

ReplayedForwards(tail) ==
  LET run[i \in 0..Len(tail)] ==
        IF i = 0 THEN [staged |-> <<>>, toFree |-> {}, set |-> free]
        ELSE LET s == run[i - 1]  u == tail[i]
             IN CASE u.op = "set" -> [s EXCEPT !.staged = Stage(@, u.page, u.img)]
                  [] u.op = "alloc" -> [s EXCEPT !.staged = Unstage(@, u.page), !.toFree = @ \cup {u.page}]
                  [] u.op = "free" -> [s EXCEPT !.set = @ \ {u.page}]
                  [] u.op = "realloc" -> s
  IN run[Len(tail)]

Replayed(tail) ==
  LET run[i \in 0..Len(tail)] ==
        IF i = 0 THEN [staged |-> <<>>, toFree |-> {}, set |-> free]
        ELSE LET s == run[i - 1]  u == tail[Len(tail) + 1 - i]
             IN CASE u.op = "set" -> [s EXCEPT !.staged = Stage(@, u.page, u.img)]
                  [] u.op = "alloc" -> [s EXCEPT !.staged = Unstage(@, u.page), !.toFree = @ \cup {u.page}]
                  [] u.op = "free" -> [s EXCEPT !.set = @ \ {u.page}]
                  [] u.op = "realloc" -> s
  IN run[Len(tail)]

Restored(r) == [p \in Pages |-> IF p \in DOMAIN r.staged THEN r.staged[p] ELSE img[p]]
TailFrom(mark) == SubSeq(undo.ops, mark + 1, Len(undo.ops))
TakeUndoTo(mark) ==
  LET kept == SubSeq(undo.ops, 1, mark)
      of(o) == {kept[i].page : i \in {j \in DOMAIN kept : kept[j].op = o}}
  IN [active |-> TRUE, ops |-> kept, recorded |-> of("set"), freed |-> of("free")]

\* restore_transaction; `failed`: its commit fails, after pages were reserved
Restore(i, failed) ==
  LET r == Replayed(TailFrom(base[i].mark))
  IN IF failed
     THEN /\ free' = r.set
          /\ lost' = lost \cup (free \ r.set)
          /\ UNCHANGED <<order, img, owned>>
     ELSE /\ SetReusable(Push([order |-> order, set |-> r.set], r.toFree))
          /\ img' = Restored(r)
          /\ owned' = base[i].owned
          /\ lost' = (lost \cup base[i].free) \ (owned' \cup free')

Rollback(failed) ==
  /\ ~tx.on /\ undo.active /\ Step
  /\ Restore(1, failed)
  /\ undo' = IF failed THEN undo ELSE NoUndo
  /\ base' = IF failed THEN base ELSE <<>>
  /\ UNCHANGED <<num, tx>>

\* on failure the taken tail is attached again; the savepoint is gone anyway
RollbackTo(i, failed) ==
  /\ ~tx.on /\ i \in 2..Len(base) /\ Step
  /\ Restore(i, failed)
  /\ undo' = IF failed THEN undo ELSE TakeUndoTo(base[i].mark)
  /\ base' = SubSeq(base, 1, i - 1)
  /\ UNCHANGED <<num, tx>>

Release(i) ==
  /\ ~tx.on /\ i \in 2..Len(base) /\ Step
  /\ base' = SubSeq(base, 1, i - 1)
  /\ UNCHANGED <<num, order, free, img, owned, undo, tx, lost>>

Commit ==
  /\ ~tx.on /\ undo.active /\ Step
  /\ undo' = NoUndo /\ base' = <<>>
  /\ UNCHANGED <<num, order, free, img, owned, tx, lost>>

Init ==
  /\ num = 2 /\ owned = {1}
  /\ order = <<>> /\ free = {}
  /\ img = [p \in Pages |-> 0]
  /\ undo = NoUndo /\ tx = NoTx /\ base = <<>> /\ lost = {} /\ ops = 0

Next ==
  \/ BeginTx \/ Allocate \/ AllocateFails \/ CommitTx \/ DropTx
  \/ \E p \in Pages : WritePage(p) \/ FreePage(p)
  \/ Begin \/ Savepoint \/ Commit
  \/ \E failed \in BOOLEAN : Rollback(failed)
  \/ \E i \in 2..Len(base), failed \in BOOLEAN : RollbackTo(i, failed)
  \/ \E i \in 2..Len(base) : Release(i)

Spec == Init /\ [][Next]_vars

(***************************************************************************)
(* Whatever was allocated, freed, reallocated, written or failed since, a  *)
(* rollback to BEGIN or to a savepoint gives every page the catalog of     *)
(* that moment refers to its image back, and out of the reusable set.      *)
(***************************************************************************)
UndoRestoresPages ==
  ~tx.on => \A i \in DOMAIN base :
    LET r == Replayed(TailFrom(base[i].mark))
    IN \A p \in base[i].owned : Restored(r)[p] = base[i].img[p] /\ p \notin r.set \cup r.toFree

(***************************************************************************)
(* No page is in use and allocatable at once, and none is forgotten: every *)
(* page below num_pages is in the catalog, reusable or held by the open    *)
(* pager transaction.  Left out are pages that were reusable at a          *)
(* savepoint or before a failed rollback: those operations do not put them *)
(* back (they only cost space).                                            *)
(***************************************************************************)
InUse == owned \cup (IF tx.on THEN tx.owned \cup tx.reused \cup tx.toFree ELSE {})
EveryPageHasOneOwner ==
  /\ InUse \cap free = {}
  /\ free \subseteq Range(order)
  /\ 1..(num - 1) \subseteq InUse \cup free \cup lost
=============================================================================
