------------------------------- MODULE Access -------------------------------
(* Users, roles, grants and connection identities of one node               *)
(* (docsql-core useradmin.rs; docsql-server authz.rs, conn.rs, lib.rs).      *)
(*                                                                           *)
(* A password is its version number, 0 for a user that does not exist. Users *)
(* and roles share one space of names. A table grant carries its column list *)
(* ({} for none) and its row filter. A connection resolves its grants once   *)
(* and again whenever grants_epoch has moved.                                *)
EXTENDS Naturals, Sequences, SequencesExt, FiniteSets

CONSTANTS Names,        \* names users and custom roles may take
          Tables, Views, \* base tables and views; View v reads Under[v]
          Under,
          Cols, ColLists, \* columns of every table, and the lists grants may carry
          Conns, Sources, SourceOf,
          HasClientToken, HasReadToken, HasClusterToken,
          Threshold,    \* auth_lock_threshold
          Window,       \* AUTH_LOCK_WINDOW and AUTH_LOCKOUT, in ticks
          MaxClock, MaxAdmin, MaxTries, MaxDdl, MaxAll   \* bounds of the environment

Builtin == {"admin", "readwrite", "readonly"}
None == "none"
Objects == Tables \cup Views
Privs == {"select", "insert"}

\* Tables and views are different objects, a view reads tables, and a column
\* list names columns.
ASSUME AccessAssumption ==
    /\ Tables \cap Views = {} /\ Under \in [Views -> SUBSET Tables]
    /\ ColLists \subseteq SUBSET Cols

VARIABLES
    pw, roles, members, grants, exists,
    torn,       \* <<"user" or "role", name>> whose DROP failed between its deletes
    epoch,      \* grants_epoch
    hasUsers,   \* has_users
    pending,    \* post-commit steps the last user statement still owes
    unmoved,    \* a DROP has failed between its deletes since the epoch last moved
    conn, fails, clock, used

vars == <<pw, roles, members, grants, exists, torn, epoch, hasUsers, pending, unmoved, conn, fails, clock, used>>
catalog == <<pw, roles, members, grants, exists, torn>>
flags == <<epoch, hasUsers, pending, unmoved>>

NoGrants == [admin |-> FALSE, rw |-> FALSE, ro |-> FALSE,
             privs |-> [t \in Objects |-> {}], cols |-> [t \in Objects |-> {}],
             filtered |-> [t \in Objects |-> FALSE]]
Closed == [role |-> "closed", token |-> FALSE, user |-> None, epoch |-> 0, g |-> NoGrants,
           anon |-> FALSE, pc |-> "idle", name |-> None, stored |-> 0, redone |-> {}]

Init ==
    /\ pw = [n \in Names |-> 0] /\ roles = {} /\ members = {} /\ grants = {}
    /\ exists = Objects /\ torn = {} /\ epoch = 0 /\ hasUsers = FALSE /\ pending = {} /\ unmoved = FALSE
    /\ conn = [c \in Conns |-> Closed] /\ fails = [s \in Sources |-> <<>>] /\ clock = 0
    /\ used = [admin |-> 0, tries |-> 0, ddl |-> 0]

Spend(what, max) ==
    /\ used[what] < max /\ used.admin + used.tries + used.ddl < MaxAll
    /\ used' = [used EXCEPT ![what] = @ + 1]

Users == {n \in Names : pw[n] > 0}
AnyUser == Users # {}

-----------------------------------------------------------------------------
(* What a user may do.                                                       *)

\* resolve_grants: roles of the user and the user's own name; an unrestricted
\* SELECT, or a built-in reader role, lifts column lists and row filters.
Resolve(u) ==
    LET mine == {m[1] : m \in {x \in members : x[2] = u}} \cup {u}
        rows(t) == {g \in grants : g.grantee \in mine /\ g.tbl = t}
        sel(t) == {g \in rows(t) : g.priv = "select"}
        free(t) == \/ mine \cap {"readwrite", "readonly"} # {}
                   \/ \E g \in sel(t) : g.cols = {} /\ ~g.filter
    IN [admin |-> "admin" \in mine, rw |-> "readwrite" \in mine, ro |-> "readonly" \in mine,
        privs |-> [t \in Objects |-> {g.priv : g \in rows(t)}],
        cols |-> [t \in Objects |-> IF free(t) THEN {} ELSE UNION {g.cols : g \in sel(t)}],
        filtered |-> [t \in Objects |-> ~free(t) /\ \E g \in sel(t) : g.filter]]

MaySelect(g, t) == g.ro \/ g.rw \/ "select" \in g.privs[t]
MayDml(g, t) == g.rw \/ "insert" \in g.privs[t]

\* Objects a statement reaches: a view the user may read as such stands for
\* its tables, any other view is replaced by what it reads.
Expand(reads, g, viaGrant) ==
    LET granted(v) == viaGrant /\ ~g.ro /\ ~g.rw /\ MaySelect(g, v)
    IN (reads \cap Tables) \cup UNION {Under[v] : v \in {x \in reads \cap Views : ~granted(x)}}

\* A statement: what it is, the objects it reads, where, and the columns it
\* names. "sole": one table in FROM and every column attributable to it;
\* "deep": a subquery, a join or a set operation reads it.
Statements == [kind : {"read", "insert", "ddl", "user"}, reads : {{o} : o \in Objects}, into : Tables,
               at : {"sole", "deep"}, cols : (SUBSET Cols) \ {{}}]

\* The column lists of restricted tables against the columns the statement names.
ColumnsGranted(s, g, targets) ==
    LET restricted == {t \in targets : g.cols[t] # {}}
    IN restricted = {} \/ (s.at = "sole" /\ \A t \in restricted : s.reads = {t} /\ s.cols \subseteq g.cols[t])

\* authorize_statement
Authorized(s, g) ==
    \/ g.admin
    \/ /\ s.kind = "read"
       /\ LET targets == Expand(s.reads, g, TRUE)
          IN (\A t \in targets : MaySelect(g, t)) /\ ColumnsGranted(s, g, targets)
    \/ /\ s.kind = "insert"
       /\ MayDml(g, s.into)
       /\ ColumnsGranted(s, g, s.reads)
       /\ \A t \in Expand(s.reads, g, FALSE) : MaySelect(g, t)

\* As Filterable, for the objects the statement names alone.
FilterableByName(s, g) == (\E t \in s.reads : g.filtered[t]) => s.at = "sole"

\* apply_row_filters: the sole occurrence gets the predicate; a view over a
\* filtered table, or an occurrence the rewriting cannot reach, is refused.
Filterable(s, g) ==
    /\ \A v \in s.reads \cap Views : \A t \in Under[v] : ~g.filtered[t]
    /\ (\E t \in s.reads : g.filtered[t]) => s.at = "sole"

\* Rows of a base table the executed statement sees: those the filter admits,
\* and the others too unless it was added.
Seen(s, t, g) == IF s.at = "sole" /\ s.reads = {t} /\ g.filtered[t] THEN {"in"} ELSE {"in", "out"}

-----------------------------------------------------------------------------
(* User management statements (exec_user_admin), one at a time under          *)
(* write_order; the epoch moves, then has_users follows, after the commit.    *)

Admin(owes) ==
    /\ pending = {} /\ Spend("admin", MaxAdmin)
    /\ pending' = owes
    /\ UNCHANGED <<epoch, hasUsers, unmoved, conn, fails, clock>>

CreateUser(n) ==
    /\ pw[n] = 0 /\ n \notin roles /\ Admin({"epoch", "users"})
    /\ pw' = [pw EXCEPT ![n] = 1]
    /\ UNCHANGED <<roles, members, grants, exists, torn>>

AlterUserPassword(n) ==
    /\ pw[n] > 0 /\ Admin({"epoch"})
    /\ pw' = [pw EXCEPT ![n] = @ + 1]
    /\ UNCHANGED <<roles, members, grants, exists, torn>>

\* As DropUser, leaving the table grants behind.
DropUserKeepsGrants(n) ==
    /\ pw[n] > 0 /\ Admin({"epoch", "users"})
    /\ pw' = [pw EXCEPT ![n] = 0]
    /\ members' = {m \in members : m[2] # n}
    /\ torn' = torn \ {<<"user", n>>}
    /\ UNCHANGED <<roles, grants, exists>>

DropUser(n) ==
    /\ pw[n] > 0 /\ Admin({"epoch", "users"})
    /\ pw' = [pw EXCEPT ![n] = 0]
    /\ members' = {m \in members : m[2] # n}
    /\ grants' = {g \in grants : g.grantee # n}
    /\ torn' = torn \ {<<"user", n>>}
    /\ UNCHANGED <<roles, exists>>

\* The second or the third delete_rows fails: the unit's end commits what was
\* deleted before it, and the failed statement neither moves the epoch nor
\* refreshes has_users.
Torn(kind, n) ==
    /\ pending = {} /\ Spend("admin", MaxAdmin)
    /\ torn' = torn \cup {<<kind, n>>} /\ unmoved' = TRUE
    /\ UNCHANGED <<grants, exists, epoch, hasUsers, pending, conn, fails, clock>>

DropUserFails(n) ==
    /\ pw[n] > 0 /\ Torn("user", n)
    /\ pw' = [pw EXCEPT ![n] = 0]
    /\ UNCHANGED members \/ members' = {m \in members : m[2] # n}
    /\ UNCHANGED roles

CreateRole(n) ==
    /\ pw[n] = 0 /\ Admin({"epoch"})
    /\ roles' = roles \cup {n}
    /\ UNCHANGED <<pw, members, grants, exists, torn>>

DropRole(n) ==
    /\ n \in roles /\ Admin({"epoch"})
    /\ roles' = roles \ {n}
    /\ members' = {m \in members : m[1] # n}
    /\ grants' = {g \in grants : g.grantee # n}
    /\ torn' = torn \ {<<"role", n>>}
    /\ UNCHANGED <<pw, exists>>

DropRoleFails(n) ==
    /\ n \in roles /\ Torn("role", n)
    /\ roles' = roles \ {n}
    /\ UNCHANGED members \/ members' = {m \in members : m[1] # n}
    /\ UNCHANGED pw

GrantRole(r, n) ==
    /\ r \in roles \cup Builtin /\ pw[n] > 0 /\ Admin({"epoch"})
    /\ members' = members \cup {<<r, n>>}
    /\ UNCHANGED <<pw, roles, grants, exists, torn>>

RevokeRole(r, n) ==
    /\ <<r, n>> \in members /\ Admin({"epoch"})
    /\ members' = members \ {<<r, n>>}
    /\ UNCHANGED <<pw, roles, grants, exists, torn>>

\* Column lists and row filters are for SELECT on a base table.
GrantRows == {g \in [grantee : Names, priv : Privs, tbl : Objects, cols : ColLists, filter : BOOLEAN] :
                g.cols # {} \/ g.filter => g.priv = "select" /\ g.tbl \in Tables}

GrantTable(g) ==
    /\ g.tbl \in exists /\ g.grantee \in Users \cup roles /\ g \notin grants
    /\ Admin({"epoch"})
    /\ grants' = grants \cup {g}
    /\ UNCHANGED <<pw, roles, members, exists, torn>>

\* Every grant of the privilege on the table goes, qualified or not.
RevokeTable(n, p, t) ==
    /\ \E g \in grants : g.grantee = n /\ g.priv = p /\ g.tbl = t
    /\ Admin({"epoch"})
    /\ grants' = {g \in grants : ~(g.grantee = n /\ g.priv = p /\ g.tbl = t)}
    /\ UNCHANGED <<pw, roles, members, exists, torn>>

\* As BumpEpoch, for changes of the user count alone.
BumpEpochForUsers ==
    /\ "epoch" \in pending
    /\ pending' = pending \ {"epoch"} /\ unmoved' = FALSE
    /\ epoch' = IF "users" \in pending THEN epoch + 1 ELSE epoch
    /\ UNCHANGED <<catalog, hasUsers, conn, fails, clock, used>>

BumpEpoch ==
    /\ "epoch" \in pending
    /\ pending' = pending \ {"epoch"} /\ epoch' = epoch + 1 /\ unmoved' = FALSE
    /\ UNCHANGED <<catalog, hasUsers, conn, fails, clock, used>>

\* As RefreshHasUsers, remembering only that there were users once.
HadUsers ==
    /\ pending = {"users"}
    /\ pending' = {} /\ hasUsers' = TRUE
    /\ UNCHANGED <<catalog, epoch, unmoved, conn, fails, clock, used>>

RefreshHasUsers ==
    /\ pending = {"users"}
    /\ pending' = {} /\ hasUsers' = AnyUser
    /\ UNCHANGED <<catalog, epoch, unmoved, conn, fails, clock, used>>

\* DROP TABLE or DROP VIEW deletes the object's grants (delete_grants_for; a
\* view goes with a table it reads) and CREATE brings the name back. Neither
\* moves the epoch.
DropObject(o) ==
    /\ o \in exists /\ pending = {} /\ Spend("ddl", MaxDdl)
    /\ LET gone == {o} \cup {v \in Views : o \in Under[v]}
       IN /\ exists' = exists \ gone
          /\ grants' = {g \in grants : g.tbl \notin gone}
          /\ conn' = [c \in Conns |-> [conn[c] EXCEPT !.redone = @ \cup gone]]
    /\ UNCHANGED <<pw, roles, members, torn, flags, fails, clock>>

CreateObject(o) ==
    /\ o \notin exists /\ (o \in Views => Under[o] \subseteq exists) /\ pending = {}
    /\ exists' = exists \cup {o}
    /\ UNCHANGED <<pw, roles, members, grants, torn, flags, conn, fails, clock, used>>

-----------------------------------------------------------------------------
(* Connections.                                                              *)

Connect(c) ==
    /\ conn[c].role = "closed"
    /\ conn' = [conn EXCEPT ![c] = [Closed EXCEPT !.role = IF HasClientToken THEN "unauthed" ELSE "client",
                                                  !.anon = ~hasUsers]]
    /\ UNCHANGED <<catalog, flags, fails, clock, used>>

Disconnect(c) ==
    /\ conn[c].role # "closed" /\ conn[c].pc = "idle"
    /\ conn' = [conn EXCEPT ![c] = Closed]
    /\ UNCHANGED <<catalog, flags, fails, clock, used>>

Tick ==
    /\ clock < MaxClock /\ clock' = clock + 1
    /\ UNCHANGED <<catalog, flags, conn, fails, used>>

Recent(s) == SelectSeq(fails[s], LAMBDA t : clock - t < Window)

\* The lockout gate in front of both authentication frames.
Locked(s) == Len(fails[s]) >= Threshold /\ clock - Last(fails[s]) < Window

RecordFailure(s) == fails' = [fails EXCEPT ![s] = Append(Recent(s), clock)]
ClearFailures(s) == fails' = [fails EXCEPT ![s] = <<>>]
Try == Spend("tries", MaxTries)

\* REQ_AUTH with the token of a kind, or with a wrong one.
TokenRole == (IF HasClusterToken THEN {"peer"} ELSE {}) \cup (IF HasReadToken THEN {"readonly"} ELSE {})
             \cup (IF HasClientToken THEN {"client"} ELSE {})

AuthToken(c, r) ==
    /\ conn[c].role # "closed" /\ conn[c].pc = "idle" /\ ~Locked(SourceOf[c]) /\ Try
    /\ \/ /\ r \in TokenRole
          /\ conn' = [conn EXCEPT ![c].role = r, ![c].token = TRUE, ![c].user = None]
          /\ ClearFailures(SourceOf[c])
       \/ /\ r = "wrong" /\ (HasClientToken \/ HasReadToken)
          /\ RecordFailure(SourceOf[c]) /\ UNCHANGED conn
    /\ UNCHANGED <<catalog, flags, clock>>

\* As LoginStart, without the gate.
LoginStartUngated(c, n) ==
    /\ conn[c].role \in {"unauthed", "client"} /\ conn[c].pc = "idle"
    /\ ~conn[c].token /\ conn[c].user = None /\ Try
    /\ conn' = [conn EXCEPT ![c].pc = "verify", ![c].name = n, ![c].stored = pw[n]]
    /\ UNCHANGED <<catalog, flags, fails, clock>>

\* REQ_AUTH_USER reads the stored password under the lock ...
LoginStart(c, n) ==
    /\ conn[c].role \in {"unauthed", "client"} /\ conn[c].pc = "idle" /\ ~Locked(SourceOf[c])
    /\ ~conn[c].token /\ conn[c].user = None /\ Try
    /\ conn' = [conn EXCEPT ![c].pc = "verify", ![c].name = n, ![c].stored = pw[n]]
    /\ UNCHANGED <<catalog, flags, fails, clock>>

\* ... checks the presented one without it, and resolves grants and epoch in
\* one critical section; an account dropped meanwhile is refused.
LoginEnd(c, p) ==
    /\ conn[c].pc = "verify"
    /\ LET n == conn[c].name  ok == p > 0 /\ p = conn[c].stored
       IN \/ /\ ok /\ pw[n] > 0
             /\ conn' = [conn EXCEPT ![c].pc = "idle", ![c].role = "client", ![c].user = n,
                                     ![c].g = Resolve(n), ![c].epoch = epoch, ![c].redone = {}]
             /\ ClearFailures(SourceOf[c])
          \/ /\ ~(ok /\ pw[n] > 0)
             /\ conn' = [conn EXCEPT ![c].pc = "idle"]
             /\ IF ok THEN UNCHANGED fails ELSE RecordFailure(SourceOf[c])
    /\ UNCHANGED <<catalog, flags, clock, used>>

\* A frame of a user connection: grants are resolved anew when the epoch has
\* moved, in one critical section with the epoch; without an account the
\* session ends.
Refresh(c) ==
    /\ conn[c].user # None /\ conn[c].pc = "idle"
    /\ IF conn[c].epoch = epoch THEN conn' = [conn EXCEPT ![c].pc = "run"]
       ELSE IF pw[conn[c].user] = 0 THEN conn' = [conn EXCEPT ![c] = Closed]
       ELSE conn' = [conn EXCEPT ![c].pc = "run", ![c].g = Resolve(conn[c].user),
                                 ![c].epoch = epoch, ![c].redone = {}]
    /\ UNCHANGED <<catalog, flags, fails, clock, used>>

\* The statement is authorised against the grants the frame began with.
Serve(c) ==
    /\ conn[c].pc = "run" /\ conn' = [conn EXCEPT ![c].pc = "idle"]
    /\ UNCHANGED <<catalog, flags, fails, clock, used>>

Next ==
    \/ \E n \in Names : CreateUser(n) \/ AlterUserPassword(n) \/ DropUser(n) \/ CreateRole(n) \/ DropRole(n)
                       \/ DropUserFails(n) \/ DropRoleFails(n)
    \/ \E n \in Names, r \in Names \cup Builtin : GrantRole(r, n) \/ RevokeRole(r, n)
    \/ \E g \in GrantRows : GrantTable(g)
    \/ \E n \in Names, p \in Privs, t \in Objects : RevokeTable(n, p, t)
    \/ BumpEpoch \/ RefreshHasUsers \/ Tick
    \/ \E o \in Objects : DropObject(o) \/ CreateObject(o)
    \/ \E c \in Conns : \/ Connect(c) \/ Disconnect(c) \/ Refresh(c) \/ Serve(c)
                        \/ \E r \in TokenRole \cup {"wrong"} : AuthToken(c, r)
                        \/ \E n \in Names : LoginStart(c, n)
                        \/ \E p \in {0} \cup {pw[n] : n \in Names} : LoginEnd(c, p)

Spec == Init /\ [][Next]_vars

-----------------------------------------------------------------------------

\* Shapes; at most one user statement owes its post-commit steps.
TypeOK ==
    /\ pw \in [Names -> 0 .. MaxAdmin] /\ pending \in {{}, {"users"}, {"epoch"}, {"epoch", "users"}}
    /\ \A c \in Conns : conn[c].epoch <= epoch /\ (conn[c].token => conn[c].user = None)
    /\ pending = {} /\ torn = {} => hasUsers = AnyUser

\* Users and roles, with those whose DROP failed between its deletes.
KnownUsers == Users \cup {n \in Names : <<"user", n>> \in torn}
KnownRoles == roles \cup Builtin \cup {n \in Names : <<"role", n>> \in torn}

\* No row of the user tables outlives what it names: members are users and
\* existing roles, grants name an existing object and grantee, and no name is
\* both a user and a role.  The exception is a DROP USER or DROP ROLE that failed
\* between its three deletes and was not repeated for a name created again: what
\* it left dangles, and only what names that user or role.
NoDangling ==
    /\ Users \cap roles = {}
    /\ \A m \in members : m[1] \in KnownRoles /\ m[2] \in KnownUsers
    /\ \A g \in grants : g.grantee \in KnownUsers \cup KnownRoles /\ g.tbl \in exists

\* "Revocations take effect on the next statement": a connection that has
\* seen the current epoch holds exactly what the user tables say, once the
\* last user statement has moved the epoch (objects dropped since aside).  A DROP
\* that fails between its deletes does not move it.
GrantsFresh ==
    \A c \in Conns :
        (conn[c].user # None /\ conn[c].epoch = epoch /\ "epoch" \notin pending /\ ~unmoved) =>
            LET g == conn[c].g  now == Resolve(conn[c].user)
            IN /\ pw[conn[c].user] > 0
               /\ <<g.admin, g.rw, g.ro>> = <<now.admin, now.rw, now.ro>>
               /\ \A t \in exists \ conn[c].redone :
                    <<g.privs[t], g.cols[t], g.filtered[t]>> = <<now.privs[t], now.cols[t], now.filtered[t]>>

\* However many connections of one source try at once, the failures on record
\* exceed the threshold by no more than the logins that were already past the
\* gate.
LockoutBound ==
    \A s \in Sources :
        Len(Recent(s)) + Cardinality({c \in Conns : SourceOf[c] = s /\ conn[c].pc = "verify"})
            <= Threshold - 1 + Cardinality({c \in Conns : SourceOf[c] = s})

\* An authorised read of a user without a reader role reaches only tables the
\* user may select or tables under a granted view, only granted columns of a
\* table with column lists, and only admitted rows of one with filters.
ReadsWithinGrants ==
    \A u \in Users, s \in {x \in Statements : x.kind = "read"} :
        LET g == Resolve(u)
            own(t) == {r \in grants : /\ r.grantee \in {u} \cup {m[1] : m \in {x \in members : x[2] = u}}
                                      /\ r.priv = "select" /\ r.tbl = t}
            whole(t) == \E r \in own(t) : r.cols = {} /\ ~r.filter
        IN (~g.admin /\ ~g.ro /\ ~g.rw /\ Authorized(s, g) /\ Filterable(s, g)) =>
             \A o \in s.reads :
                \/ o \in Tables /\ own(o) # {} /\ \/ whole(o)
                                                  \/ /\ (\E r \in own(o) : r.cols # {}) => s.cols \subseteq UNION {r.cols : r \in own(o)}
                                                     /\ (\E r \in own(o) : r.filter) => Seen(s, o, g) = {"in"}
                \/ o \in Views /\ (own(o) # {} \/ \A t \in Under[o] : own(t) # {} /\ (whole(t) \/ \A r \in own(t) : r.cols = {} /\ ~r.filter))
=============================================================================
