-------------------------------- MODULE Dml --------------------------------
(***************************************************************************)
(* INSERT, UPDATE, DELETE and MERGE on tables tied by foreign keys and     *)
(* triggers (engine/dml.rs, insert.rs, merge.rs, referential.rs,           *)
(* trigger.rs).  A row has a primary key k and one nullable reference r;   *)
(* `schema.fk[t]` says which table r points into and what the engine does  *)
(* to the row when its parent's key goes (del) or changes (upd).           *)
(*                                                                         *)
(* A statement and the trigger bodies it fires run on one thread, so the   *)
(* rest of the computation is an agenda: a sequence of tasks whose head is *)
(* executed next and may put further tasks in front.  A failing task rolls *)
(* the whole statement back (run_with_trigger_guard).                      *)
(***************************************************************************)
EXTENDS Integers, FiniteSets, SequencesExt

CONSTANTS Tables,      \* the table names, in name order
          MaxKey,      \* keys are 1..MaxKey
          Setups,      \* the catalogs explored, each with a content
          Statements,  \* the statements a client sends
          MaxStmts     \* how many of them

MaxFkActionPasses == 32
MaxTriggerDepth == 16

Names == Range(Tables)
Keys == 1..MaxKey
Null == 0
Row == [k : Keys, r : Keys \cup {Null}]
NoRow == [k |-> Null, r |-> Null]
NoFk == [ref |-> "none", del |-> "none", upd |-> "none"]

VARIABLES schema,  \* [fk, default, auto, trig]: the catalog
          db,      \* table -> set of rows
          cache,   \* autoinc_cache: table -> next id, Null when absent
          agenda,  \* tasks left of the statement in progress
          guard,   \* Database::referential_guard
          saved,   \* what the statement guard restores
          last,    \* the last finished statement: before, after, outcome
          sent     \* statements sent so far

vars == <<schema, db, cache, agenda, guard, saved, last, sent>>

KeysOf(rows) == {x.k : x \in rows}
Refs(rows) == {x.r : x \in rows} \ {Null}
First(rows) == CHOOSE x \in rows : \A y \in rows : x.k <= y.k
InOrder(rows) == SetToSortSeq(rows, LAMBDA x, y : x.k < y.k)
Fk(t) == schema.fk[t]
Children(p) == {c \in Names : Fk(c).ref = p}
HasAction(c) == Fk(c).del # "none" \/ Fk(c).upd # "none"

(***************************************************************************)
(* Which tables a change of t may reach through an action.                 *)
(***************************************************************************)
Grow(order, p) ==
  order \o SelectSeq(Tables, LAMBDA c : HasAction(c) /\ Fk(c).ref = p /\ c \notin Range(order))

ClosureOf(t) ==
  LET f[i \in 0..Len(Tables)] ==
        IF i = 0 THEN Grow(<<>>, t)
        ELSE LET g == f[i - 1] IN IF i > Len(g) THEN g ELSE Grow(g, g[i])
  IN  f[Len(Tables)]

ActionsReach(t) == ClosureOf(t) # <<>>

(***************************************************************************)
(* The referential plan: per table the rows to delete and the images to    *)
(* replace, grown one staged effect at a time.                             *)
(***************************************************************************)
NoDelta == [dels |-> {}, upds |-> <<>>]

FinalDocs(d, pre) ==
  {x \in pre : x \notin d.dels /\ x \notin DOMAIN d.upds}
    \cup {d.upds[x] : x \in DOMAIN d.upds}

StageDelete(d, x) ==
  [dels |-> d.dels \cup {x},
   upds |-> [y \in DOMAIN d.upds \ {x} |-> d.upds[y]]]

\* "same": nothing to do; "clash": the statement already assigned the column
StageKind(d, x, v) ==
  CASE x \in d.dels -> "same"
    [] x \notin DOMAIN d.upds -> "new"
    [] d.upds[x].r = v -> "same"
    [] d.upds[x].r # x.r -> "clash"
    [] OTHER -> "new"

StageUpdate(d, x, v) ==
  LET img == IF x \in DOMAIN d.upds THEN d.upds[x] ELSE x
  IN  [d EXCEPT !.upds = [y \in DOMAIN d.upds \cup {x} |->
                            IF y = x THEN [img EXCEPT !.r = v] ELSE d.upds[y]]]

\* mutant: SET DEFAULT without looking the column's default up
DefaultIsNull(c) == Null

Default(c) == schema.default[c]

LostKeys(ds, p) == KeysOf(ds[p].dels) \ KeysOf(FinalDocs(ds[p], db[p]))

\* old key -> new key, for the keys of p that no surviving row keeps
MovedKeys(ds, p) ==
  LET moved == {x \in DOMAIN ds[p].upds :
                  /\ ds[p].upds[x].k # x.k
                  /\ x.k \notin KeysOf(FinalDocs(ds[p], db[p]))}
  IN  [k \in KeysOf(moved) |->
         ds[p].upds[CHOOSE x \in moved : x.k = k].k]

Halt(why) == [res |-> why]
Quiet == [res |-> "quiet"]
Staged(ds) == [res |-> "staged", ds |-> ds]

\* the first of the rows hit for which staging does something decides
StageFirst(ds, c, hits, val) ==
  LET live == {x \in hits : StageKind(ds[c], x, val[x]) # "same"}
      x == First(live)
  IN  CASE live = {} -> Quiet
        [] StageKind(ds[c], x, val[x]) = "clash" -> Halt("conflict")
        [] OTHER -> Staged([ds EXCEPT ![c] = StageUpdate(@, x, val[x])])

DeleteAction(ds, c, lost) ==
  LET hits == {x \in db[c] : x.r \in lost}
      fresh == hits \ ds[c].dels
  IN  CASE Fk(c).del = "none" ->
             IF \E x \in FinalDocs(ds[c], db[c]) : x.r \in lost
             THEN Halt("fk") ELSE Quiet
        [] Fk(c).del = "cascade" ->
             IF fresh = {} THEN Quiet
             ELSE Staged([ds EXCEPT ![c] = StageDelete(@, First(fresh))])
        [] Fk(c).del = "setnull" -> StageFirst(ds, c, hits, [x \in hits |-> Null])
        [] Fk(c).del = "default" -> StageFirst(ds, c, hits, [x \in hits |-> Default(c)])

UpdateAction(ds, c, moved) ==
  LET hits == {x \in db[c] : x.r \in DOMAIN moved}
  IN  CASE Fk(c).upd = "none" ->
             IF \E x \in FinalDocs(ds[c], db[c]) : x.r \in DOMAIN moved
             THEN Halt("fk") ELSE Quiet
        [] Fk(c).upd = "cascade" -> StageFirst(ds, c, hits, [x \in hits |-> moved[x.r]])
        [] Fk(c).upd = "setnull" -> StageFirst(ds, c, hits, [x \in hits |-> Null])
        [] Fk(c).upd = "default" -> StageFirst(ds, c, hits, [x \in hits |-> Default(c)])

\* what parent p asks of child c in one visit
Visit(ds, p, c) ==
  LET lost == LostKeys(ds, p)
      moved == MovedKeys(ds, p)
      del == IF lost = {} THEN Quiet ELSE DeleteAction(ds, c, lost)
  IN  IF del.res # "quiet" \/ DOMAIN moved = {} THEN del
      ELSE UpdateAction(ds, c, moved)

\* every (parent, child) pair in the order one pass walks them
Pairs ==
  LET n == Len(Tables)
      pair(i) == <<Tables[((i - 1) \div n) + 1], Tables[((i - 1) % n) + 1]>>
  IN  SelectSeq([i \in 1..(n * n) |-> pair(i)], LAMBDA pc : Fk(pc[2]).ref = pc[1])

\* one pass: it ends at the first visit that stages or refuses
Pass(ds) ==
  LET busy == SelectSeq(Pairs, LAMBDA pc : Visit(ds, pc[1], pc[2]).res # "quiet")
  IN  IF busy = <<>> THEN Quiet ELSE Visit(ds, busy[1][1], busy[1][2])

\* a key of p goes or changes, so its children are looked at
Stirred(ds, p) ==
  LostKeys(ds, p) # {} \/ \E x \in DOMAIN ds[p].upds : ds[p].upds[x].k # x.k

\* the tables one pass enters into the plan, with or without an effect
Entered(ds) ==
  LET quiet(i) == Visit(ds, Pairs[i][1], Pairs[i][2]).res = "quiet"
      walked == {i \in DOMAIN Pairs : \A j \in 1..(i - 1) : quiet(j)}
  IN  {Pairs[i][2] : i \in {j \in walked : Stirred(ds, Pairs[j][1])}}

\* no two rows of the outcome share a key
UniqueFinal(d, pre) ==
  Cardinality(KeysOf(FinalDocs(d, pre))) = Cardinality(pre \ d.dels)

\* the tables whose rows the plan has read: the origin and its closure
PreState(origin) == {origin} \cup Range(ClosureOf(origin))

\* what the validation takes for the rows of t: a table entered by a
\* restricting reference alone was never read and counts as empty
Believed(plan, t) ==
  IF t \in plan.seen \ PreState(plan.origin) THEN {} ELSE FinalDocs(plan.ds[t], db[t])

\* mutant: new references are checked against the rows before the statement
PlanValidAgainstPre(plan) ==
  \A t \in Names :
    DOMAIN plan.ds[t].upds # {} =>
      /\ UniqueFinal(plan.ds[t], db[t])
      /\ Fk(t) # NoFk => Refs(Range(plan.ds[t].upds)) \subseteq KeysOf(db[Fk(t).ref])

\* the validation of every staged update once the plan is stable
PlanValid(plan) ==
  \A t \in Names :
    DOMAIN plan.ds[t].upds # {} =>
      /\ UniqueFinal(plan.ds[t], db[t])
      /\ Fk(t) # NoFk => Refs(Range(plan.ds[t].upds)) \subseteq KeysOf(Believed(plan, Fk(t).ref))

(***************************************************************************)
(* The checks of statements that expand no action.                         *)
(***************************************************************************)
\* every reference of docs has a parent; own: the rows t itself will hold
ParentsExist(t, docs, own) ==
  Fk(t) # NoFk => Refs(docs) \subseteq KeysOf(IF Fk(t).ref = t THEN own ELSE db[Fk(t).ref])

\* no surviving row references a key that olds had and news have not
NoChildLoses(t, olds, news, own) ==
  LET lost == (KeysOf(olds) \ KeysOf(news)) \ KeysOf(db[t] \ olds)
  IN  \A c \in Children(t) : \A x \in (IF c = t THEN own ELSE db[c]) : x.r \notin lost

(***************************************************************************)
(* Tasks.                                                                  *)
(***************************************************************************)
Fire(t, before, ev, old, new, depth) ==
  [kind |-> "fire", t |-> t, before |-> before, ev |-> ev, old |-> old, new |-> new,
   depth |-> depth]

Fires(t, before, d, depth) ==
  LET dels == InOrder(d.dels)
      upds == InOrder(DOMAIN d.upds)
  IN  [i \in 1..Len(dels) |-> Fire(t, before, "delete", dels[i], NoRow, depth)]
        \o [i \in 1..Len(upds) |-> Fire(t, before, "update", upds[i], d.upds[upds[i]], depth)]

\* whole: rewrite_table; otherwise only the located rows are replaced
Write(t, d, whole, dropCache) ==
  [kind |-> "write", t |-> t, d |-> d, pre |-> db[t], whole |-> whole, drop |-> dropCache]

Apply(t, d, whole, drop, depth) ==
  Fires(t, TRUE, d, depth) \o <<Write(t, d, whole, drop)>> \o Fires(t, FALSE, d, depth)

Chosen(s) == {x \in db[s.t] : x[s.by] \in s.in}

Assigned(x, s) == IF s.col = "r" THEN [x EXCEPT !.r = s.val] ELSE [x EXCEPT !.k = @ + 1]

DeltaOf(s) ==
  IF s.op = "delete" THEN [dels |-> Chosen(s), upds |-> <<>>]
  ELSE [dels |-> {}, upds |-> [x \in Chosen(s) |-> Assigned(x, s)]]

Deny(why) == [ok |-> FALSE, why |-> why]
Do(tasks) == [ok |-> TRUE, tasks |-> tasks]

\* exec_update, exec_delete and their fast paths
Change(s, depth) ==
  LET d == DeltaOf(s)
      out == FinalDocs(d, db[s.t])
      olds == d.dels \cup DOMAIN d.upds
  IN  CASE ActionsReach(s.t) ->
             Do(<<[kind |-> "plan", origin |-> s.t, passes |-> 0, depth |-> depth, seen |-> {},
                   ds |-> [t \in Names |-> IF t = s.t THEN d ELSE NoDelta]]>>)
        [] s.op = "update" /\ ~ParentsExist(s.t, out, out) -> Deny("fk")
        [] ~UniqueFinal(d, db[s.t]) -> Deny("unique")
        [] ~NoChildLoses(s.t, olds, IF s.op = "update" THEN out ELSE {}, out) -> Deny("fk")
        [] OTHER -> Do(Apply(s.t, d, ~s.probe, ~s.probe \/ s.op = "delete" \/ s.col = "k", depth))

(***************************************************************************)
(* INSERT.                                                                 *)
(***************************************************************************)
NextId(t) ==
  IF cache[t] # Null THEN cache[t]
  ELSE 1 + (IF db[t] = {} THEN 0 ELSE Max(KeysOf(db[t])))

\* the rows with their generated ids, and the next id after them
Filled(t, rows) ==
  LET f[i \in 0..Len(rows)] ==
        IF i = 0 THEN [rows |-> <<>>, next |-> NextId(t)]
        ELSE LET g == f[i - 1]
                 id == IF rows[i].k = Null THEN g.next ELSE rows[i].k
             IN  [rows |-> Append(g.rows, [rows[i] EXCEPT !.k = id]),
                  next |-> Max({g.next, id + 1})]
  IN  f[Len(rows)]

\* REPLACE keeps the last of the proposed rows that share a key
Unshadowed(rows) ==
  LET keep == {i \in DOMAIN rows : \A j \in DOMAIN rows : j > i => rows[j].k # rows[i].k}
      at == SetToSortSeq(keep, <)
  IN  [n \in DOMAIN at |-> rows[at[n]]]

Displaced(s, rows) ==
  IF s.policy = "replace" THEN {x \in db[s.t] : x.k \in KeysOf(Range(rows))} ELSE {}

InsertTasks(s, depth) ==
  LET f == Filled(s.t, s.rows)
      docs == IF s.policy = "replace" THEN Unshadowed(f.rows) ELSE f.rows
      gone == [dels |-> Displaced(s, docs), upds |-> <<>>]
  IN  Fires(s.t, TRUE, gone, depth) \o Fires(s.t, FALSE, gone, depth)
        \o <<[kind |-> "insert", stage |-> "next", s |-> s, todo |-> docs, next |-> f.next,
              local |-> db[s.t] \ gone.dels, pre |-> db[s.t],
              placed |-> {}, upds |-> <<>>, depth |-> depth]>>

(***************************************************************************)
(* MERGE on the key: matched rows are assigned, the others inserted; it    *)
(* fires no trigger and expands no action.                                 *)
(***************************************************************************)
MergeDelta(s) ==
  LET hit == {x \in db[s.t] : x.k \in KeysOf(Range(s.rows))}
      src(x) == CHOOSE y \in Range(s.rows) : y.k = x.k
  IN  [dels |-> {}, upds |-> [x \in hit |-> IF s.col = "k" THEN [x EXCEPT !.k = @ + 1]
                                            ELSE [x EXCEPT !.r = src(x).r]]]

Merge(s) ==
  LET d == MergeDelta(s)
      ins == Filled(s.t, SelectSeq(s.rows, LAMBDA y : y.k \notin KeysOf(db[s.t])))
      new == Range(ins.rows)
      out == FinalDocs(d, db[s.t]) \cup new
      twice == \E i, j \in DOMAIN s.rows : i # j /\ s.rows[i].k = s.rows[j].k
                                            /\ s.rows[i].k \in KeysOf(db[s.t])
      explicit == \E y \in Range(s.rows) : y.k # Null /\ y.k \notin KeysOf(db[s.t])
  IN  CASE twice -> Deny("twice")
        [] Cardinality(KeysOf(out)) # Cardinality(db[s.t]) + Len(ins.rows) -> Deny("unique")
        [] ~ParentsExist(s.t, Range(d.upds) \cup new, out) -> Deny("fk")
        [] ~NoChildLoses(s.t, DOMAIN d.upds, out, out) -> Deny("fk")
        [] OTHER -> Do(<<[kind |-> "merged", t |-> s.t, pre |-> db[s.t], out |-> out,
                          next |-> IF explicit \/ s.col = "k" THEN Null
                                   ELSE IF new = {} THEN NextId(s.t) ELSE ins.next]>>)

Expand(s, depth) ==
  CASE s.op \in {"delete", "update"} -> Change(s, depth)
    [] s.op = "insert" -> Do(InsertTasks(s, depth))
    [] s.op = "merge" -> Merge(s)

(***************************************************************************)
(* Actions.                                                                *)
(***************************************************************************)
NoGuard == {}
Idle == [stmt |-> "none", pre |-> db, post |-> db, res |-> "none"]

\* every reference has its parent
Intact(d) ==
  \A t \in {u \in Names : Fk(u) # NoFk} : Refs(d[t]) \subseteq KeysOf(d[Fk(t).ref])

Init ==
  /\ \E u \in Setups : schema = u.schema /\ db = u.db
  /\ Intact(db)
  /\ \E cached \in SUBSET schema.auto :
       cache = [t \in Names |-> IF t \in cached THEN 1 + Max(KeysOf(db[t]) \cup {0}) ELSE Null]
  /\ agenda = <<>> /\ guard = NoGuard /\ saved = [db |-> db, cache |-> cache]
  /\ last = Idle
  /\ sent = 0

At(kind) == agenda # <<>> /\ Head(agenda).kind = kind
Task == Head(agenda)
Proceed(tasks) == agenda' = tasks \o Tail(agenda)

\* the statement fails: the statement guard, or the aborted page transaction,
\* puts everything back
Fail(why) ==
  /\ db' = saved.db
  /\ cache' = IF saved.guarded THEN saved.cache ELSE cache
  /\ agenda' = <<>> /\ guard' = NoGuard
  /\ last' = [stmt |-> saved.stmt, pre |-> saved.db, post |-> saved.db, res |-> why]
  /\ UNCHANGED <<schema, saved, sent>>

TriggersExistFor(t) == \E i \in DOMAIN schema.trig : schema.trig[i].t = t

\* keys stay within the bound
InBounds(s) ==
  /\ s.op \in {"update", "insert", "merge"} /\ s.col = "k" => MaxKey \notin KeysOf(db[s.t])
  /\ s.op \in {"insert", "merge"} =>
       /\ Filled(s.t, s.rows).next <= MaxKey + 1
       /\ (\E x \in Range(s.rows) : x.k = Null) => s.t \in schema.auto

Send(s) ==
  /\ agenda = <<>> /\ sent < MaxStmts /\ InBounds(s)
  /\ sent' = sent + 1
  /\ saved' = [db |-> db, cache |-> cache, stmt |-> s,
               guarded |-> TriggersExistFor(s.t) \/ ActionsReach(s.t)]
  /\ agenda' = <<[kind |-> "stmt", s |-> s, depth |-> 0]>>
  /\ UNCHANGED <<schema, db, cache, guard, last>>

ExecStmt ==
  /\ At("stmt")
  /\ LET e == Expand(Task.s, Task.depth) IN
     IF ~e.ok THEN Fail(e.why)
     ELSE /\ Proceed(e.tasks \o IF Task.depth = 0 THEN <<[kind |-> "done"]>> ELSE <<>>)
          /\ UNCHANGED <<schema, db, cache, guard, saved, last, sent>>

\* one pass of the fixpoint, or its end
PlanPass ==
  /\ At("plan")
  /\ LET p == Pass(Task.ds)
         plan == [Task EXCEPT !.seen = @ \cup Entered(Task.ds)]
         order == <<Task.origin>> \o SelectSeq(ClosureOf(Task.origin), LAMBDA t : t # Task.origin)
         busy == SelectSeq(order, LAMBDA t : Task.ds[t] # NoDelta)
     IN
     \/ Task.passes = MaxFkActionPasses /\ Fail("diverged")
     \/ /\ Task.passes < MaxFkActionPasses /\ p.res = "staged"
        /\ Proceed(<<[plan EXCEPT !.ds = p.ds, !.passes = @ + 1]>>)
        /\ UNCHANGED <<schema, db, cache, guard, saved, last, sent>>
     \/ Task.passes < MaxFkActionPasses /\ p.res \in {"fk", "conflict"} /\ Fail(p.res)
     \/ Task.passes < MaxFkActionPasses /\ p.res = "quiet" /\ ~PlanValid(plan) /\ Fail("invalid")
     \/ /\ Task.passes < MaxFkActionPasses /\ p.res = "quiet" /\ PlanValid(plan)
        /\ guard' = Range(busy)
        /\ Proceed(FlattenSeq([i \in DOMAIN busy |->
                      Apply(busy[i], Task.ds[busy[i]], TRUE, TRUE, Task.depth)])
                   \o <<[kind |-> "unguard"]>>)
        /\ UNCHANGED <<schema, db, cache, saved, last, sent>>

Unguard ==
  /\ At("unguard")
  /\ guard' = NoGuard
  /\ Proceed(<<>>)
  /\ UNCHANGED <<schema, db, cache, saved, last, sent>>

CacheAfter(w) == IF w.drop THEN [cache EXCEPT ![w.t] = Null] ELSE cache

\* rewrite_table: the whole table from the images the statement computed
Rewrite ==
  /\ At("write") /\ Task.whole
  /\ db' = [db EXCEPT ![Task.t] = FinalDocs(Task.d, Task.pre)]
  /\ cache' = CacheAfter(Task)
  /\ Proceed(<<>>)
  /\ UNCHANGED <<schema, guard, saved, last, sent>>

\* mutant: an update of the key column leaves the cached id alone
UpdateLocatedKeepsCache ==
  /\ At("write") /\ ~Task.whole /\ Task.d.dels = {}
  /\ db' = [db EXCEPT ![Task.t] = FinalDocs(Task.d, @)]
  /\ Proceed(<<>>)
  /\ UNCHANGED <<schema, cache, guard, saved, last, sent>>

\* the rows an index probe located, replaced one by one
UpdateLocated ==
  /\ At("write") /\ ~Task.whole /\ Task.d.dels = {}
  /\ db' = [db EXCEPT ![Task.t] = FinalDocs(Task.d, @)]
  /\ cache' = CacheAfter(Task)
  /\ Proceed(<<>>)
  /\ UNCHANGED <<schema, guard, saved, last, sent>>

DeleteLocated ==
  /\ At("write") /\ ~Task.whole /\ Task.d.dels # {}
  /\ db' = [db EXCEPT ![Task.t] = @ \ Task.d.dels]
  /\ cache' = CacheAfter(Task)
  /\ Proceed(<<>>)
  /\ UNCHANGED <<schema, guard, saved, last, sent>>

MergeCommit ==
  /\ At("merged")
  /\ db' = [db EXCEPT ![Task.t] = Task.out]
  /\ cache' = IF Task.t \in schema.auto THEN [cache EXCEPT ![Task.t] = Task.next] ELSE cache
  /\ Proceed(<<>>)
  /\ UNCHANGED <<schema, guard, saved, last, sent>>

(***************************************************************************)
(* Triggers.                                                               *)
(***************************************************************************)
Matching(f) ==
  SelectSeq(schema.trig, LAMBDA g : g.t = f.t /\ g.before = f.before /\ g.ev = f.ev)

\* a body with NEW and OLD substituted
BodyStmt(g, f) ==
  LET x == IF f.old = NoRow THEN f.new ELSE f.old
  IN  CASE g.act = "del" -> [op |-> "delete", t |-> g.target, by |-> "r", in |-> {x.k}, probe |-> FALSE]
        [] g.act = "clr" -> [op |-> "update", t |-> g.target, by |-> "r", in |-> {x.k},
                             col |-> "r", val |-> Null, probe |-> FALSE]
        [] g.act \in {"ins", "ref"} ->
             [op |-> "insert", t |-> g.target, policy |-> "ignore", col |-> "r",
              rows |-> <<[k |-> x.k, r |-> IF g.act = "ref" THEN x.k ELSE Null]>>]

FireRowTriggers ==
  /\ At("fire")
  /\ LET m == Matching(Task) IN
     IF m # <<>> /\ Task.depth >= MaxTriggerDepth THEN Fail("depth")
     ELSE /\ Proceed([i \in DOMAIN m |->
                        [kind |-> "body", g |-> m[i], f |-> Task, depth |-> Task.depth + 1]])
          /\ UNCHANGED <<schema, db, cache, guard, saved, last, sent>>

\* mutant: only the firing table is protected, not the tables of the plan
RunBodyUnguarded ==
  /\ At("body")
  /\ IF Task.g.act = "raise" THEN Fail("raise")
     ELSE IF Task.g.target = Task.f.t THEN Fail("busy")
     ELSE /\ Proceed(<<[kind |-> "stmt", s |-> BodyStmt(Task.g, Task.f), depth |-> Task.depth]>>)
          /\ UNCHANGED <<schema, db, cache, guard, saved, last, sent>>

RunBody ==
  /\ At("body")
  /\ IF Task.g.act = "raise" THEN Fail("raise")
     ELSE IF Task.g.target = Task.f.t \/ Task.g.target \in guard THEN Fail("busy")
     ELSE /\ Proceed(<<[kind |-> "stmt", s |-> BodyStmt(Task.g, Task.f), depth |-> Task.depth]>>)
          /\ UNCHANGED <<schema, db, cache, guard, saved, last, sent>>

(***************************************************************************)
(* INSERT, row by row in a page transaction of its own: nothing of it is   *)
(* visible to trigger bodies before the commit.                            *)
(***************************************************************************)
InsertRow ==
  /\ At("insert") /\ Task.stage = "next" /\ Task.todo # <<>>
  /\ Proceed(<<Fire(Task.s.t, TRUE, "insert", NoRow, Head(Task.todo), Task.depth),
               [Task EXCEPT !.stage = "row"]>>)
  /\ UNCHANGED <<schema, db, cache, guard, saved, last, sent>>

Rest == [Task EXCEPT !.stage = "next", !.todo = Tail(@)]

\* ON CONFLICT DO UPDATE: the first old and the last new image of a row count
Upserted(x, y) ==
  LET o == IF \E z \in DOMAIN Task.upds : Task.upds[z] = x
           THEN CHOOSE z \in DOMAIN Task.upds : Task.upds[z] = x ELSE x
  IN  [z \in DOMAIN Task.upds \cup {o} |-> IF z = o THEN y ELSE Task.upds[z]]

Clashing(x) == {y \in Task.local : y.k = x.k}

PlaceRow ==
  /\ At("insert") /\ Task.stage = "row"
  /\ LET x == Head(Task.todo)
         t == Task.s.t
         clash == Clashing(x)
         old == CHOOSE y \in clash : TRUE
         img == IF Task.s.col = "k" THEN [old EXCEPT !.k = @ + 1] ELSE [old EXCEPT !.r = x.r]
         pair == [dels |-> {}, upds |-> [y \in clash |-> img]]
     IN
     \/ /\ clash = {}
        /\ Proceed(<<Fire(t, FALSE, "insert", NoRow, x, Task.depth),
                     [Rest EXCEPT !.local = @ \cup {x}, !.placed = @ \cup {x}]>>)
        /\ UNCHANGED <<schema, db, cache, guard, saved, last, sent>>
     \/ /\ clash # {} /\ Task.s.policy = "ignore"
        /\ Proceed(<<Rest>>)
        /\ UNCHANGED <<schema, db, cache, guard, saved, last, sent>>
     \/ /\ clash # {} /\ Task.s.policy \in {"plain", "replace"}
        /\ Fail("unique")
     \/ /\ clash # {} /\ Task.s.policy = "upsert"
        /\ IF img.k \in KeysOf(Task.local \ clash) THEN Fail("unique")
           ELSE /\ Proceed(Fires(t, TRUE, pair, Task.depth) \o Fires(t, FALSE, pair, Task.depth)
                           \o <<[Rest EXCEPT !.local = (@ \ clash) \cup {img},
                                             !.upds = Upserted(old, img)]>>)
                /\ UNCHANGED <<schema, db, cache, guard, saved, last, sent>>

InsertFksHold ==
  LET t == Task.s.t
      news == Range(Task.upds)
      own == (db[t] \ DOMAIN Task.upds) \cup Task.placed \cup news
  IN  /\ ParentsExist(t, Task.placed \cup news, own)
      /\ NoChildLoses(t, DOMAIN Task.upds, news \cup Task.placed, own)

InsertCommit ==
  /\ At("insert") /\ Task.stage = "next" /\ Task.todo = <<>>
  /\ LET t == Task.s.t
         used == IF Task.s.policy = "upsert" /\ Task.s.col = "k" THEN Null
                 ELSE Max({Task.next} \cup {x.k + 1 : x \in Task.placed})
     IN
     IF ~InsertFksHold THEN Fail("fk")
     ELSE /\ db' = [db EXCEPT ![t] = Task.local]
          /\ cache' = IF t \in schema.auto THEN [cache EXCEPT ![t] = used] ELSE cache
          /\ Proceed(<<>>)
          /\ UNCHANGED <<schema, guard, saved, last, sent>>

Finish ==
  /\ At("done")
  /\ agenda' = <<>>
  /\ last' = [stmt |-> saved.stmt, pre |-> saved.db, post |-> db, res |-> "ok"]
  /\ UNCHANGED <<schema, db, cache, guard, saved, sent>>

Step ==
  \/ ExecStmt \/ PlanPass \/ Unguard \/ Rewrite \/ UpdateLocated \/ DeleteLocated \/ MergeCommit
  \/ FireRowTriggers \/ RunBody \/ InsertRow \/ PlaceRow \/ InsertCommit \/ Finish

Next == Step \/ \E s \in Statements : Send(s)

Spec == Init /\ [][Next]_vars

(***************************************************************************)
(* Properties.                                                             *)
(***************************************************************************)
Row2 == [k : 1..(MaxKey + 2), r : Keys \cup {Null}]

TypeOK ==
  /\ db \in [Names -> SUBSET Row2]
  /\ cache \in [Names -> Nat]
  /\ guard \subseteq Names
  /\ sent \in 0..MaxStmts

Tied(t, u) == Fk(t).ref = u \/ Fk(u).ref = t

\* the tables a statement on t may rewrite itself, and the ones that it may
\* change with the trigger bodies it fires, their cascades and their triggers
Spread(t) == {t} \cup Range(ClosureOf(t))
Touched(t) ==
  LET fired(S) == {g \in Range(schema.trig) : g.t \in S}
      f[i \in 0..Len(Tables)] ==
        IF i = 0 THEN Spread(t)
        ELSE f[i - 1] \cup UNION {Spread(g.target) : g \in fired(f[i - 1])}
  IN  f[Len(Tables)]

(***************************************************************************)
(* An UPDATE or DELETE is validated once, before its triggers run: not     *)
(* against what a BEFORE body, or any body fired in a cascade, writes to a *)
(* table tied to the ones about to be rewritten.                           *)
(* Catalogs with such a trigger can be left with dangling references.      *)
(***************************************************************************)
Harmless ==
  \A t \in Names : \A g \in Range(schema.trig) :
    g.t \in Spread(t) /\ g.ev # "insert" /\ g.act # "raise" /\ (g.before \/ ActionsReach(t)) =>
      \A u \in Touched(g.target), v \in Spread(t) : ~Tied(u, v)

(***************************************************************************)
(* Between statements no reference dangles and no key is held twice,       *)
(* whatever mix of actions and conflict policies ran, in catalogs whose    *)
(* triggers are Harmless (the validation in plan_referential_actions,      *)
(* check_fks_in and check_fk_parent_delete_skipping are complete).         *)
(***************************************************************************)
RefIntegrity ==
  agenda = <<>> /\ Harmless =>
    /\ Intact(db)
    /\ \A t \in Names : Cardinality(KeysOf(db[t])) = Cardinality(db[t])

(***************************************************************************)
(* What DELETE means: the rows chosen and, transitively, the rows that     *)
(* cascade from them go; survivors that referenced them are set to NULL or *)
(* to the default.  plan_referential_actions reaches exactly that by       *)
(* staging one row a pass, and refuses exactly when the outcome would      *)
(* leave a reference dangling (or at the pass cap: last.res = "diverged").  *)
(***************************************************************************)
MaxChain == 6 \* no chain of references in the contents explored is longer
Doomed(pre, s) ==
  LET all == {q : q \in UNION {{t} \X pre[t] : t \in Names}}
      f[i \in 0..MaxChain] ==
        IF i = 0 THEN {q \in all : q[1] = s.t /\ q[2][s.by] \in s.in}
        ELSE LET g == f[i - 1]
             IN  {q \in all : \/ q \in g
                              \/ /\ Fk(q[1]).del = "cascade"
                                 /\ \E p \in g : p[1] = Fk(q[1]).ref /\ p[2].k = q[2].r}
  IN  f[MaxChain]

\* the rows of t that survive the rows gone
Meant(t, pre, gone) ==
  LET orphan(x) == \E p \in gone : p[1] = Fk(t).ref /\ p[2].k = x.r
  IN  {IF ~orphan(x) THEN x
       ELSE CASE Fk(t).del = "setnull" -> [x EXCEPT !.r = Null]
              [] Fk(t).del = "default" -> [x EXCEPT !.r = schema.default[t]]
              [] OTHER -> x : x \in {y \in pre[t] : <<t, y>> \notin gone}}

DeleteMeans ==
  last.res \notin {"none", "diverged"} /\ last.stmt.op = "delete" /\ schema.trig = <<>> =>
    \A gone \in {Doomed(last.pre, last.stmt)} :
      IF last.res = "ok" THEN \A t \in Names : last.post[t] = Meant(t, last.pre, gone)
      ELSE ~Intact([t \in Names |-> Meant(t, last.pre, gone)])

(***************************************************************************)
(* A statement writes a table from the rows it read: no trigger body has   *)
(* changed the table in between, so no body's write is overwritten.        *)
(* run_trigger_bodies refuses a body that names the firing table or a      *)
(* table of the referential plan; it does not see                          *)
(*   - a body that comes back to a table of the statement by a cascade of  *)
(*     its own, or by a trigger it fires (excluded by NoReturn), nor       *)
(*   - anything once a body's own plan has ended, for that clears the      *)
(*     guard of the plan around it (excluded by Lapsed).                   *)
(***************************************************************************)
NoReturn ==
  \A t \in Names : \A g \in Range(schema.trig) :
    g.t \in Spread(t) => Touched(g.target) \cap Spread(t) \subseteq {g.target}

Lapsed == guard = NoGuard /\ \E i \in DOMAIN agenda : agenda[i].kind = "unguard"

RewriteFresh ==
  /\ At("write") /\ ~Lapsed /\ NoReturn => db[Task.t] = Task.pre
  /\ At("insert") /\ NoReturn => db[Task.s.t] = Task.pre

(***************************************************************************)
(* The cached next id is above every id in the table, so a generated id    *)
(* never collides, whatever statement, trigger or rollback moved the keys. *)
(***************************************************************************)
AutoincFresh ==
  agenda = <<>> => \A t \in schema.auto : cache[t] # Null => \A x \in db[t] : x.k < cache[t]
=============================================================================
