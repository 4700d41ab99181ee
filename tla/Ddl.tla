-------------------------------- MODULE Ddl --------------------------------
(***************************************************************************)
(* The catalog and the statements that change it (engine/ddl.rs,           *)
(* execute.rs, catalog.rs, trigger.rs, classify.rs): CREATE and DROP of    *)
(* tables, views, materialized views, indexes and triggers, ALTER TABLE    *)
(* with several operations, TRUNCATE, transactions around them and         *)
(* reopening the file.  A statement runs alone, so it is one step; what it *)
(* persists in several saves is applied save by save, and each save may    *)
(* fail (save_catalog_into returns an error; a commit whose fsync fails    *)
(* belongs to the log and is left out).                                    *)
(*                                                                         *)
(* Rows appear only as "the table has some".  Columns are sets, a CHECK or *)
(* a predicate is the set of columns it mentions, an optional value is a   *)
(* sequence of length 0 or 1.  Reserved names, AUTOINCREMENT columns and   *)
(* fields no statement declared are left out.                              *)
(***************************************************************************)
EXTENDS Integers, FiniteSets, Sequences

CONSTANTS Names,     \* tables, views and materialized views share this space
          Cols,      \* column names
          Indexes,   \* index names
          Triggers,  \* trigger names
          NoCol,
          Shapes,    \* the CREATE TABLE bodies offered
          IndexDefs, \* the CREATE INDEX statements offered
          Alters,    \* the operation lists of ALTER TABLE offered
          RowStates, \* what ALTER TABLE finds in the rows: [held, fails, old]
          Starts,    \* the catalogs explored from: which shape each table has
          FailAt,    \* which save of a statement fails; 0 for none
          MaxStmts

VARIABLES tables,   \* Database::tables
          triggers, \* Database::triggers: set of [name, table, writes]
          grants,   \* object names with a row in docsql_grants
          disk,     \* the catalog the last save wrote
          tx,       \* tx_snapshot, and what an abort brings back
          res,      \* outcome of the last statement
          known,    \* divergences that have struck (see the README)
          sent

vars == <<tables, triggers, grants, disk, tx, res, known, sent>>

(***************************************************************************)
(* Catalog entries.                                                        *)
(***************************************************************************)
None == [kind |-> "none"]
BlankMeta == [kind |-> "table", cols |-> {}, pk |-> NoCol, unique |-> {}, cons |-> {}, notnull |-> {},
          dflt |-> {}, checks |-> {}, fks |-> {}, defs |-> {}, trees |-> <<>>, src |-> {}, uses |-> {},
          rows |-> FALSE]

Exists(T, n) == T[n].kind # "none"
IsView(T, n) == T[n].kind = "view"
Stored(T, n) == T[n].kind \in {"table", "matview"}
Out(T, n) == IF ~Exists(T, n) THEN {} ELSE IF IsView(T, n) THEN T[n].uses ELSE T[n].cols
Constrained(m) == (m.unique \cup {m.pk}) \ {NoCol}

RootKey(d) ==
  IF d.path # <<>> \/ d.pred # <<>> \/ Cardinality(d.cols) > 1 THEN d.name ELSE CHOOSE c \in d.cols : TRUE

IndexColumnsOf(m, k) ==
  IF \E d \in m.defs : d.name = k THEN (CHOOSE d \in m.defs : d.name = k).cols
  ELSE IF k \in m.cols \cup Constrained(m) THEN {k} ELSE {}

(***************************************************************************)
(* What the rows put into the tree behind root key k (idx_specs).          *)
(***************************************************************************)
SpecOf(m, k) ==
  LET named == {d \in m.defs : d.name = k}
  IN [cols |-> IndexColumnsOf(m, k),
      path |-> IF named = {} THEN <<>> ELSE (CHOOSE d \in named : TRUE).path,
      pred |-> IF named = {} THEN <<>> ELSE (CHOOSE d \in named : TRUE).pred]

Rebuild(m) == [m EXCEPT !.trees = [k \in DOMAIN m.trees |-> SpecOf(m, k)]]
Without(f, S) == [k \in DOMAIN f \ S |-> f[k]]

DirectViewDependents(T, targets) ==
  {v \in Names \ targets : IsView(T, v) /\ T[v].src \cap targets # {}}


ViewClosure(T, targets) ==
  LET f[i \in 0..Cardinality(Names)] ==
        IF i = 0 THEN targets ELSE LET g == f[i - 1] IN g \cup DirectViewDependents(T, g)
  IN f[Cardinality(Names)]

Referrers(T, n) == {c \in Names : Stored(T, c) /\ \E k \in T[c].fks : k.table = n}

(***************************************************************************)
(* Persistence.  A catalog tuple of an index ends in its path and its      *)
(* predicate, each only when present, and is read back by position.        *)
(***************************************************************************)
EncodeDef(d) == [name |-> d.name, cols |-> d.cols, unique |-> d.unique, tail |-> d.path \o d.pred]

DecodeDef(e) ==
  [name |-> e.name, cols |-> e.cols, unique |-> e.unique,
   path |-> SubSeq(e.tail, 1, IF Len(e.tail) >= 1 THEN 1 ELSE 0),
   pred |-> SubSeq(e.tail, 2, IF Len(e.tail) >= 2 THEN 2 ELSE 1)]

Encode(T) == [n \in Names |-> IF Stored(T, n) THEN [T[n] EXCEPT !.defs = {EncodeDef(d) : d \in @}] ELSE T[n]]
Decode(T) == [n \in Names |-> IF Stored(T, n) THEN [T[n] EXCEPT !.defs = {DecodeDef(e) : e \in @}] ELSE T[n]]

SaveCatalog(T, G) == [tables |-> Encode(T), triggers |-> G]

Succeed(T, G, R) ==
  /\ tables' = T /\ triggers' = G /\ grants' = R
  /\ disk' = SaveCatalog(T, G)
  /\ res' = "ok"

Refuse ==
  /\ res' = "error"
  /\ UNCHANGED <<tables, triggers, grants, disk>>

(***************************************************************************)
(* CREATE TABLE, with constraints or AS SELECT.                            *)
(***************************************************************************)
ShapeLegal(t, s) ==
  /\ \A c \in s.checks : c \subseteq s.cols
  /\ \A k \in s.fks : k.table # t => Stored(tables, k.table) /\ k.ref \in tables[k.table].cols

FromShape(s) ==
  LET m == [BlankMeta EXCEPT !.cols = s.cols, !.pk = s.pk, !.unique = s.unique, !.cons = s.unique,
                         !.notnull = s.notnull, !.checks = s.checks, !.fks = s.fks]
  IN [m EXCEPT !.trees = [k \in Constrained(m) |-> SpecOf(m, k)]]

CreateTable(t, s, f) ==
  /\ UNCHANGED <<tx, known>>
  /\ IF Exists(tables, t) \/ ~ShapeLegal(t, s) \/ f = 1 THEN Refuse
     ELSE Succeed([tables EXCEPT ![t] = FromShape(s)], triggers, grants)

CreateTableAs(t, s, f) ==
  /\ UNCHANGED <<tx, known>>
  /\ IF Exists(tables, t) \/ ~Exists(tables, s) \/ f = 1 THEN Refuse
     ELSE Succeed([tables EXCEPT ![t] = [BlankMeta EXCEPT !.cols = Out(tables, s), !.rows = Stored(tables, s) /\ tables[s].rows]],
                  triggers, grants)

(***************************************************************************)
(* CREATE INDEX and DROP INDEX.  `dup`: the rows repeat a value.           *)
(***************************************************************************)
IndexOwner(i) == {n \in Names : Stored(tables, n) /\ \E d \in tables[n].defs : d.name = i}

IndexLegal(t, d) ==
  LET m == tables[t]  k == RootKey(d)
  IN /\ Stored(tables, t)
     /\ IndexOwner(d.name) = {}
     /\ d.cols \subseteq m.cols
     /\ \A i \in DOMAIN d.pred : d.pred[i] \subseteq m.cols
     /\ d.unique => d.path = <<>>
     /\ d.path = <<>> \/ d.pred = <<>>
     /\ k \in DOMAIN m.trees => d.path = <<>> /\ d.pred = <<>> /\ IndexColumnsOf(m, k) = d.cols

CreateIndex(t, d, dup, f) ==
  /\ UNCHANGED <<tx, known>>
  /\ IF ~IndexLegal(t, d) \/ (d.unique /\ dup /\ tables[t].rows) \/ f = 1 THEN Refuse
     ELSE LET m == tables[t]
              k == RootKey(d)
              u == IF d.unique /\ d.pred = <<>> THEN (IF Cardinality(d.cols) = 1 THEN d.cols ELSE {}) ELSE {}
              n == [m EXCEPT !.unique = @ \cup u, !.defs = @ \cup {d}]
              tree == IF k \in DOMAIN m.trees THEN m.trees[k]
                      ELSE [cols |-> d.cols, path |-> d.path, pred |-> d.pred]
          IN Succeed([tables EXCEPT ![t] = [n EXCEPT !.trees = [x \in DOMAIN m.trees \cup {k} |->
                                                                  IF x = k THEN tree ELSE m.trees[x]]]],
                     triggers, grants)

DropIndexFrom(m, i) ==
  LET d == CHOOSE x \in m.defs : x.name = i
      rest == m.defs \ {d}
      alone == /\ d.unique /\ Cardinality(d.cols) = 1
               /\ d.cols \cap (m.cons \cup {m.pk}) = {}
               /\ ~\E e \in rest : e.unique /\ e.cols = d.cols
  IN [m EXCEPT !.defs = rest,
               !.trees = IF RootKey(d) = i THEN Without(@, {i}) ELSE @,
               !.unique = IF alone THEN @ \ d.cols ELSE @]

DropIndex(i, f) ==
  /\ UNCHANGED <<tx, known>>
  /\ IF IndexOwner(i) = {} \/ f = 1 THEN Refuse
     ELSE Succeed([n \in Names |-> IF n \in IndexOwner(i) THEN DropIndexFrom(tables[n], i) ELSE tables[n]],
                  triggers, grants)

(***************************************************************************)
(* Views and materialized views.  The body is SELECT uses FROM s.          *)
(***************************************************************************)
Acyclic(v, s) == s # v /\ (Exists(tables, v) => s \notin ViewClosure(tables, {v}))

CreateView(v, s, uses, replace, f) ==
  /\ UNCHANGED <<tx, known>>
  /\ IF \/ Exists(tables, v) /\ (~replace \/ ~IsView(tables, v))
        \/ ~Exists(tables, s) \/ ~Acyclic(v, s) \/ f = 1
     THEN Refuse
     ELSE Succeed([tables EXCEPT ![v] = [BlankMeta EXCEPT !.kind = "view", !.src = {s}, !.uses = uses]], triggers, grants)

\* indexes and foreign keys that name a column the new definition drops
Outgrown(v, uses) ==
  \/ \E d \in tables[v].defs : ~(d.cols \cup UNION {d.pred[i] : i \in DOMAIN d.pred} \subseteq uses)
  \/ \E c \in Referrers(tables, v) : \E k \in tables[c].fks : k.table = v /\ k.ref \notin uses

CreateMatview(v, s, uses, replace, f) ==
  /\ UNCHANGED tx
  /\ LET old == IF tables[v].kind = "matview" THEN tables[v] ELSE [BlankMeta EXCEPT !.kind = "matview"]
     IN IF \/ Exists(tables, v) /\ (~replace \/ tables[v].kind # "matview")
           \/ ~Exists(tables, s) \/ tables[s].kind = "matview" \/ f = 1
        THEN Refuse /\ UNCHANGED known
        ELSE /\ Succeed([tables EXCEPT ![v] = Rebuild([old EXCEPT !.cols = uses, !.src = {s}, !.uses = uses,
                                                                  !.rows = TRUE])],
                        triggers, grants)
             /\ known' = known \cup (IF Exists(tables, v) /\ Outgrown(v, uses) THEN {"matview"} ELSE {})

RefreshMatview(v, f) ==
  /\ UNCHANGED <<tx, known>>
  /\ IF tables[v].kind # "matview" \/ f = 1 \/ (\E s \in tables[v].src : ~Exists(tables, s)) THEN Refuse
     ELSE Succeed([tables EXCEPT ![v] = Rebuild([@ EXCEPT !.cols = tables[v].uses, !.rows = TRUE])], triggers, grants)

(***************************************************************************)
(* DROP VIEW and DROP TABLE / MATERIALIZED VIEW.  The grants go first, in  *)
(* a statement of their own, and come back when the drop fails.            *)
(***************************************************************************)
DropView(v, cascade, f) ==
  /\ UNCHANGED <<tx, known>>
  /\ LET gone == ViewClosure(tables, {v})
     IN IF ~IsView(tables, v) \/ (gone # {v} /\ ~cascade) \/ f = 1 THEN Refuse
        ELSE Succeed([n \in Names |-> IF n \in gone THEN None ELSE tables[n]], triggers, grants \ gone)

DropTables(names, cascade, f) ==
  /\ UNCHANGED tx
  /\ LET all == IF cascade THEN ViewClosure(tables, names) ELSE names
         gone == {n \in all : ~IsView(tables, n)}
         held == {c \in Names \ gone : \E n \in gone : c \in Referrers(tables, n)}
     IN IF \/ \E n \in names : ~Stored(tables, n)
           \/ ~cascade /\ (ViewClosure(tables, names) # names \/ held # {})
        THEN Refuse /\ UNCHANGED known
        ELSE IF f = 1 THEN \* the tables come back, the triggers do not
             /\ triggers' = {g \in triggers : g.table \notin gone}
             /\ known' = known \cup (IF triggers' = triggers THEN {} ELSE {"trigger"})
             /\ res' = "error"
             /\ UNCHANGED <<tables, grants, disk>>
        ELSE /\ Succeed([n \in Names |->
                           IF n \in all THEN None
                           ELSE IF n \in held THEN [tables[n] EXCEPT !.fks = {k \in @ : k.table \notin gone}]
                           ELSE tables[n]],
                        {g \in triggers : g.table \notin gone}, grants \ all)
             /\ UNCHANGED known

TruncateTargets(t, cascade) ==
  LET f[i \in 0..Cardinality(Names)] ==
        IF i = 0 THEN {t} ELSE LET g == f[i - 1] IN g \cup UNION {Referrers(tables, n) : n \in g}
  IN IF cascade THEN f[Cardinality(Names)] ELSE {t}

\* `used`: rows outside the targets reference rows of theirs
Truncate(t, cascade, used, f) ==
  /\ UNCHANGED <<tx, known>>
  /\ LET ts == TruncateTargets(t, cascade)
         child == \E n \in ts : \E c \in Referrers(tables, n) \ ts : tables[n].rows /\ tables[c].rows
     IN IF \/ \E n \in ts : tables[n].kind # "table"
           \/ child /\ used
           \/ f = 1
        THEN Refuse
        ELSE Succeed([n \in Names |-> IF n \in ts THEN Rebuild([tables[n] EXCEPT !.rows = FALSE]) ELSE tables[n]],
                     triggers, grants)

(***************************************************************************)
(* ALTER TABLE: validate_alter_ops walks the operations over a simulated   *)
(* entry before exec_alter applies them one by one.                        *)
(***************************************************************************)
Ren(S, o, n) == {IF c = o THEN n ELSE c : c \in S}
RenSeq(s, o, n) == [i \in DOMAIN s |-> Ren(s[i], o, n)]
OwnTree(defs, c) == ~\E d \in defs : d.name = c /\ (d.path # <<>> \/ Cardinality(d.cols) > 1)

AddLegalUnfilled(v, m, op, e) ==
  /\ op.col \notin v.cols
  /\ op.check \subseteq v.cols \cup {op.col}
  /\ op.notnull => op.dflt # "none"

\* The fields of the stored rows, under the names they had before the
\* statement: validation never applies the operations to the rows.
Fields(m, e) == IF ~m.rows THEN {} ELSE IF e.held THEN m.cols ELSE {m.pk} \ {NoCol}

\* A row that still has a field of the new column's name keeps its value; a
\* CHECK over a field the row has not got is unknown and passes.
AddLegal(v, m, op, e) ==
  LET had == Fields(m, e)
      fails(c) == /\ op.col \in c /\ c \subseteq had \cup {op.col}
                  /\ c \in (IF c \cap had \cap v.left = {} THEN e.fails ELSE e.old)
  IN  /\ op.col \notin v.cols
      /\ op.check \subseteq v.cols \cup {op.col}
      /\ op.notnull => op.dflt # "none"
      /\ op.dflt # "none" /\ m.rows => ~\E c \in v.checks \cup {op.check} : fails(c)

ColumnUnread(t, c) == ~\E w \in ViewClosure(tables, {t}) \ {t} : c \in tables[w].uses
ColumnUnreferenced(v, t, c) == ~\E n \in Referrers(tables, t) : \E k \in tables[n].fks : k.table = t /\ v.now[k.ref] = c

DropLegal(v, t, c) ==
  /\ c \in v.cols /\ c # v.pk
  /\ ~\E d \in v.defs : \E i \in DOMAIN d.pred : c \in d.pred[i]
  /\ ~\E k \in v.checks : c \in k
  /\ ColumnUnread(t, c)
  /\ ColumnUnreferenced(v, t, c)

RenameLegal(v, t, o, n, e) ==
  /\ o \in v.cols
  /\ DirectViewDependents(tables, {t}) = {}
  /\ o # n =>
       /\ n \notin v.cols
       /\ n \notin v.roots /\ ~\E d \in v.defs : d.name = n
       /\ n \notin Fields(tables[t], e)

OpLegal(v, t, op, e) ==
  CASE op.op = "add" -> AddLegal(v, tables[t], op, e)
    [] op.op = "drop" -> DropLegal(v, t, op.col)
    [] op.op = "rename" -> RenameLegal(v, t, op.old, op.new, e)
    [] op.op = "retable" -> ~Exists(tables, op.to) /\ DirectViewDependents(tables, {t}) = {}

Simulate(v, op) ==
  CASE op.op = "add" -> [v EXCEPT !.cols = @ \cup {op.col},
                                  !.checks = @ \cup ({op.check} \ {{}})]
    [] op.op = "drop" -> [v EXCEPT !.cols = @ \ {op.col}, !.left = @ \cup {op.col}, !.roots = @ \ {op.col},
                                   !.defs = {d \in @ : op.col \notin d.cols}]
    [] op.op = "rename" ->
         [v EXCEPT !.cols = Ren(@, op.old, op.new), !.pk = IF @ = op.old THEN op.new ELSE @,
                   !.roots = IF OwnTree(v.defs, op.old) THEN Ren(@, op.old, op.new) ELSE @,
                   !.defs = {[d EXCEPT !.cols = Ren(@, op.old, op.new)] : d \in @},
                   !.checks = {Ren(c, op.old, op.new) : c \in @},
                   !.left = @ \cup ({op.old} \ {op.new}),
                   !.now = [c \in Cols |-> IF @[c] = op.old THEN op.new ELSE @[c]]]
    [] op.op = "retable" -> v

ValidateAlterOps(t, ops, e) ==
  LET m == tables[t]
      v0 == [ok |-> TRUE, cols |-> m.cols, pk |-> m.pk, checks |-> m.checks, roots |-> DOMAIN m.trees,
             defs |-> m.defs, left |-> {}, now |-> [c \in Cols |-> c]]
      walk[i \in 0..Len(ops)] ==
        IF i = 0 THEN v0
        ELSE LET v == walk[i - 1]
             IN IF ~v.ok \/ ~OpLegal(v, t, ops[i], e) THEN [v EXCEPT !.ok = FALSE] ELSE Simulate(v, ops[i])
  IN walk[Len(ops)].ok /\ ((\E i \in 1..Len(ops) : ops[i].op = "retable") => Len(ops) = 1)

(***************************************************************************)
(* The application.  st: tables in memory and as saved, the local entry m, *)
(* the fields of its rows, grants, the saves made and whether the          *)
(* statement has failed.                                                   *)
(***************************************************************************)
Saved(st, T, f) ==
  IF st.saves + 1 = f THEN [st EXCEPT !.err = TRUE]
  ELSE [st EXCEPT !.T = T, !.D = T, !.saves = @ + 1]

RewriteTable(st, t, m, f) ==
  LET b == Rebuild(m) IN Saved([st EXCEPT !.m = b], [st.T EXCEPT ![t] = b], f)

ApplyAdd(st, t, op, e, f) ==
  LET had == st.had \cup {op.col}
      m == [st.m EXCEPT !.cols = @ \cup {op.col}, !.checks = @ \cup ({op.check} \ {{}}),
                        !.dflt = IF op.dflt = "none" THEN @ ELSE @ \cup {<<op.col, op.dflt>>},
                        !.notnull = IF op.notnull THEN @ \cup {op.col} ELSE @]
      backfill == /\ m.rows
                  /\ \/ op.dflt = "clock"
                     \/ op.dflt = "null" /\ op.notnull
                     \/ \E c \in m.checks : op.col \in c /\ c \subseteq had /\ c \in e.fails
  IN IF op.dflt = "none" THEN [st EXCEPT !.m = m]
     ELSE IF backfill THEN [st EXCEPT !.err = TRUE]
     ELSE RewriteTable([st EXCEPT !.had = had], t, m, f)

ApplyDrop(st, t, c, f) ==
  LET m == st.m
      dead == {d \in m.defs : c \in d.cols}
  IN RewriteTable([st EXCEPT !.had = @ \ {c}], t,
                  [m EXCEPT !.cols = @ \ {c}, !.unique = @ \ {c}, !.cons = @ \ {c}, !.notnull = @ \ {c},
                            !.dflt = {x \in @ : x[1] # c}, !.fks = {k \in @ : k.col # c},
                            !.trees = Without(@, {c} \cup {d.name : d \in dead}),
                            !.defs = @ \ dead], f)

RenameDef(d, o, n) ==
  IF o \in d.cols THEN [d EXCEPT !.cols = Ren(@, o, n)] ELSE [d EXCEPT !.pred = RenSeq(@, o, n)]

RenameFks(fks, t, o, n) ==
  {[k EXCEPT !.ref = IF k.table = t /\ @ = o THEN n ELSE @] : k \in fks}

ApplyRename(st, t, o, n, f) ==
  LET m == st.m
      moved == IF o \in DOMAIN m.trees /\ OwnTree(m.defs, o)
               THEN [k \in (DOMAIN m.trees \ {o}) \cup {n} |-> m.trees[IF k = n THEN o ELSE k]] ELSE m.trees
      r == [m EXCEPT !.cols = Ren(@, o, n), !.pk = IF @ = o THEN n ELSE @, !.unique = Ren(@, o, n),
                     !.cons = Ren(@, o, n), !.notnull = Ren(@, o, n),
                     !.dflt = {IF x[1] = o THEN <<n, x[2]>> ELSE x : x \in @},
                     !.defs = {RenameDef(d, o, n) : d \in @}, !.trees = moved,
                     !.fks = RenameFks({[k EXCEPT !.col = IF @ = o THEN n ELSE @] : k \in @}, t, o, n),
                     !.checks = {Ren(c, o, n) : c \in @}]
      st1 == RewriteTable([st EXCEPT !.had = Ren(@, o, n)], t, r, f)
      others == {c \in Names \ {t} : Stored(st.T, c) /\ \E k \in st.T[c].fks : k.table = t /\ k.ref = o}
  IN IF st1.err \/ others = {} THEN st1
     ELSE Saved(st1, [c \in Names |-> IF c \in others THEN [st1.T[c] EXCEPT !.fks = RenameFks(@, t, o, n)]
                                      ELSE st1.T[c]], f)

Retarget(fks, t, n) == {[k EXCEPT !.table = IF @ = t THEN n ELSE @] : k \in fks}

ApplyRenameTable(st, t, n, f) ==
  LET m == [st.m EXCEPT !.fks = Retarget(@, t, n)]
      moved == RewriteTable([st EXCEPT !.T = [@ EXCEPT ![t] = None]], n, m, f)
      others == {c \in Names : Stored(moved.T, c) /\ \E k \in moved.T[c].fks : k.table = t}
  IN IF moved.err THEN [st EXCEPT !.err = TRUE]
     ELSE Saved([moved EXCEPT !.R = IF t \in @ THEN (@ \ {t}) \cup {n} ELSE @],
                [c \in Names |-> IF c \in others THEN [moved.T[c] EXCEPT !.fks = Retarget(@, t, n)] ELSE moved.T[c]],
                f)

ApplyOp(st, t, op, e, f) ==
  CASE op.op = "add" -> ApplyAdd(st, t, op, e, f)
    [] op.op = "drop" -> ApplyDrop(st, t, op.col, f)
    [] op.op = "rename" -> ApplyRename(st, t, op.old, op.new, f)
    [] op.op = "retable" -> ApplyRenameTable(st, t, op.to, f)

\* the statement's last save, of operations that only touched the entry
TailSave(st, t, ops, f) ==
  IF st.err \/ ops[1].op = "retable" THEN st ELSE Saved(st, [st.T EXCEPT ![t] = st.m], f)

ExecAlter(t, ops, e, f) ==
  LET st0 == [T |-> tables, D |-> tables, m |-> tables[t], had |-> Fields(tables[t], e), R |-> grants,
              saves |-> 0, err |-> FALSE]
      run[i \in 0..Len(ops)] ==
        IF i = 0 THEN st0 ELSE LET s == run[i - 1] IN IF s.err THEN s ELSE ApplyOp(s, t, ops[i], e, f)
  IN TailSave(run[Len(ops)], t, ops, f)

\* a predicate keeps naming a column: one that is also a key of its index is
\* renamed, or one renamed by the same statement is dropped
GhostPredicate(t, ops) ==
  \E i \in 1..Len(ops) : ops[i].op = "rename" /\
    \E d \in tables[t].defs : \E j \in DOMAIN d.pred :
      /\ ops[i].old \in d.pred[j]
      /\ ops[i].old \in d.cols \/ \E l \in i..Len(ops) : ops[l].op = "drop" /\ ops[l].col = ops[i].new

(***************************************************************************)
(* What can fail after the first save although validation passed: a later  *)
(* save; a default that only the application evaluates; a CHECK over a     *)
(* column that an earlier operation added, dropped or renamed.             *)
(***************************************************************************)
Changes(op) == IF op.op = "rename" THEN {op.old, op.new} ELSE {op.col}

Overlooked(ops, f) ==
  \/ f > 1
  \/ \E i \in DOMAIN ops : ops[i].op = "add" /\
       \/ ops[i].dflt = "clock"
       \/ ops[i].dflt = "null" /\ ops[i].notnull
       \/ \E j \in 1..(i - 1) : Changes(ops[j]) \cap ops[i].check # {}

AlterTable(t, ops, e) ==
  /\ UNCHANGED <<tx, triggers>>
  /\ IF tables[t].kind # "table" \/ ~ValidateAlterOps(t, ops, e) THEN Refuse /\ UNCHANGED known
     ELSE \E f \in FailAt :
          LET st == ExecAlter(t, ops, e, f)
              half == st.err /\ st.saves > 0 /\ Overlooked(ops, f)
              renamed == ~Exists(st.T, t) /\ \E g \in triggers : g.table = t
          IN /\ tables' = st.T
             /\ grants' = st.R
             /\ disk' = IF st.saves = 0 THEN disk ELSE SaveCatalog(st.D, triggers)
             /\ res' = IF half THEN "half" ELSE IF st.err THEN "error" ELSE "ok"
             /\ known' = known \cup (IF renamed THEN {"trigger"} ELSE {})
                               \cup (IF half /\ f > 1 THEN {"fk"} ELSE {})
                               \cup (IF GhostPredicate(t, ops) THEN {"pred"} ELSE {})

(***************************************************************************)
(* Triggers.  A failed save leaves the entry in memory as it was changed.  *)
(***************************************************************************)
TriggerSave(G, f) ==
  /\ triggers' = G
  /\ disk' = IF f = 1 THEN disk ELSE SaveCatalog(tables, G)
  /\ res' = IF f = 1 THEN "error" ELSE "ok"
  /\ known' = IF f = 1 THEN known \cup {"trigger"} ELSE known
  /\ UNCHANGED <<tables, grants, tx>>

CreateTrigger(g, t, w, replace, f) ==
  IF ~Stored(tables, t) \/ ~Stored(tables, w) \/ (~replace /\ \E x \in triggers : x.name = g)
  THEN Refuse /\ UNCHANGED <<tx, known>>
  ELSE TriggerSave({x \in triggers : x.name # g} \cup {[name |-> g, table |-> t, writes |-> w]}, f)

DropTrigger(g, f) ==
  IF ~\E x \in triggers : x.name = g THEN Refuse /\ UNCHANGED <<tx, known>>
  ELSE TriggerSave({x \in triggers : x.name # g}, f)

(***************************************************************************)
(* Transactions, the rows and grants other statements write, and a restart *)
(* with or without a transaction open.  tx_snapshot holds no triggers.     *)
(***************************************************************************)
Begin ==
  /\ tx = <<>>
  /\ tx' = <<[tables |-> tables, grants |-> grants, disk |-> disk, triggers |-> triggers]>>
  /\ res' = "ok"
  /\ UNCHANGED <<tables, triggers, grants, disk, known>>

Commit ==
  /\ tx # <<>>
  /\ tx' = <<>> /\ res' = "ok"
  /\ UNCHANGED <<tables, triggers, grants, disk, known>>

Rollback ==
  /\ tx # <<>>
  /\ tables' = tx[1].tables /\ grants' = tx[1].grants
  /\ disk' = SaveCatalog(tx[1].tables, triggers)
  /\ known' = known \cup (IF triggers = tx[1].triggers THEN {} ELSE {"trigger"})
  /\ tx' = <<>> /\ res' = "ok"
  /\ UNCHANGED triggers

Open ==
  /\ LET d == IF tx = <<>> THEN disk ELSE tx[1].disk
     IN /\ tables' = Decode(d.tables)
        /\ triggers' = d.triggers
        /\ disk' = d
        /\ known' = known \cup (IF Encode(tables') = d.tables /\ \A n \in Names : Stored(tables', n) =>
                                     \A x \in tables'[n].defs : DOMAIN x.path = {} \/ x.path[1] = {}
                                THEN {} ELSE {"partial"})
  /\ grants' = IF tx = <<>> THEN grants ELSE tx[1].grants
  /\ tx' = <<>> /\ res' = "ok"

InsertRow(t) ==
  /\ tables[t].kind = "table" /\ ~tables[t].rows
  /\ Succeed([tables EXCEPT ![t].rows = TRUE], triggers, grants)
  /\ UNCHANGED <<tx, known>>

Grant(n) ==
  /\ Exists(tables, n) /\ n \notin grants /\ tx = <<>>
  /\ grants' = grants \cup {n} /\ res' = "ok"
  /\ UNCHANGED <<tables, triggers, disk, tx, known>>

\* only ALTER TABLE saves more than once; an empty table has no rows to find
OneSave == FailAt \cap {0, 1}
RowsFound(t) == IF Stored(tables, t) /\ tables[t].rows THEN RowStates ELSE {CHOOSE e \in RowStates : TRUE}

Statement ==
  \/ \E t \in Names, s \in Shapes, f \in OneSave : CreateTable(t, s, f)
  \/ \E t, s \in Names, f \in OneSave : CreateTableAs(t, s, f)
  \/ \E t \in Names, d \in IndexDefs, f \in OneSave : \E dup \in {FALSE, d.unique} : CreateIndex(t, d, dup, f)
  \/ \E i \in Indexes, f \in OneSave : DropIndex(i, f)
  \/ \E v, s \in Names, r \in BOOLEAN, f \in OneSave : \E c \in Out(tables, s) : CreateView(v, s, {c}, r, f)
  \/ \E v, s \in Names, r \in BOOLEAN, f \in OneSave : \E c \in Out(tables, s) : CreateMatview(v, s, {c}, r, f)
  \/ \E v \in Names, f \in OneSave : RefreshMatview(v, f)
  \/ \E v \in Names, c \in BOOLEAN, f \in OneSave : DropView(v, c, f)
  \/ \E ns \in SUBSET Names \ {{}}, c \in BOOLEAN, f \in OneSave : DropTables(ns, c, f)
  \/ \E t \in Names, c, u \in BOOLEAN, f \in OneSave : Truncate(t, c, u, f)
  \/ \E t \in Names, ops \in Alters : \E e \in RowsFound(t) : AlterTable(t, ops, e)
  \/ \E g \in Triggers, t, w \in Names, r \in BOOLEAN, f \in OneSave : CreateTrigger(g, t, w, r, f)
  \/ \E g \in Triggers, f \in OneSave : DropTrigger(g, f)
  \/ Begin \/ Commit \/ Rollback \/ Open
  \/ \E t \in Names : InsertRow(t)
  \/ \E n \in Names : Grant(n)

Init ==
  /\ \E s \in Starts : tables = [n \in Names |-> IF n \in DOMAIN s THEN FromShape(s[n]) ELSE None]
  /\ triggers = {} /\ grants = {}
  /\ disk = SaveCatalog(tables, {})
  /\ tx = <<>> /\ res = "ok" /\ known = {} /\ sent = 0

Next == sent < MaxStmts /\ sent' = sent + 1 /\ Statement

Spec == Init /\ [][Next]_vars

(***************************************************************************)
(* The references of the catalog resolve: foreign keys name a stored table *)
(* and its column, views their sources, triggers the table they fire on,   *)
(* grants an object, indexes, constraints and predicates existing columns; *)
(* whatever was created, renamed, dropped, rolled back or failed before.   *)
(* A part is exempt once a divergence in `known` has struck it:            *)
(*   trigger  RENAME TABLE and ROLLBACK leave triggers alone, a failed     *)
(*            DROP TABLE or trigger save keeps its change to them;         *)
(*   matview  OR REPLACE keeps the indexes of a materialized view, and the *)
(*            foreign keys into it, on columns the new query has not got;  *)
(*   fk       the save of the referring tables failed after a rename;      *)
(*   pred     a predicate keeps a renamed column (GhostPredicate).         *)
(***************************************************************************)
Covered(n) == tables[n].kind = "table" \/ (tables[n].kind = "matview" /\ "matview" \notin known)

MetaResolves(m) ==
  /\ Constrained(m) \cup m.notnull \cup UNION m.checks \cup {k.col : k \in m.fks} \subseteq m.cols
  /\ {x[1] : x \in m.dflt} \subseteq m.cols
  /\ "fk" \notin known =>
       \A k \in m.fks : Stored(tables, k.table) /\ (Covered(k.table) => k.ref \in tables[k.table].cols)
  /\ \A d \in m.defs : d.cols \subseteq m.cols
  /\ "pred" \notin known => \A d \in m.defs : \A i \in DOMAIN d.pred : d.pred[i] \subseteq m.cols

References ==
  /\ \A n \in Names : Covered(n) => MetaResolves(tables[n])
  /\ \A n \in Names : IsView(tables, n) => \A s \in tables[n].src : Exists(tables, s)
  /\ \A n \in grants : Exists(tables, n)
  /\ "trigger" \notin known => \A g \in triggers : Stored(tables, g.table)

(***************************************************************************)
(* Every index and every constraint has its tree, and the next write       *)
(* maintains each tree over the columns and the predicate it was built     *)
(* over.                                                                   *)
(***************************************************************************)
TreesTruthful ==
  \A n \in Names : Covered(n) =>
    LET m == tables[n]
    IN /\ \A k \in DOMAIN m.trees : m.trees[k] = SpecOf(m, k)
       /\ \A d \in m.defs : RootKey(d) \in DOMAIN m.trees
                           /\ m.trees[RootKey(d)] = [cols |-> d.cols, path |-> d.path, pred |-> d.pred]
       /\ \A c \in Constrained(m) : c \in DOMAIN m.trees /\ m.trees[c].cols = {c} /\ m.trees[c].pred = <<>>


(***************************************************************************)
(* A statement that fails leaves the tables and the grants as they were,   *)
(* and the catalog in memory is the one a restart would load.  An ALTER    *)
(* that fails at something its validation Overlooked is the exception: it  *)
(* ends "half" applied, but memory and disk still agree.                   *)
(***************************************************************************)
Atomic == res' = "error" => UNCHANGED <<tables, grants, disk>>
Loaded == "partial" \notin known => disk.tables = Encode(tables)
AllOrNothing == [][Atomic /\ Loaded']_vars
=============================================================================
