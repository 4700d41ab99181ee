---------------------------- MODULE AccessProofs ----------------------------
(***************************************************************************)
(* Accounts and grants for every set of names, tables, views and           *)
(* connections: nothing dangles, connections follow revocations, and an    *)
(* authorised read stays within its user's grants.                         *)
(***************************************************************************)
EXTENDS Access, TLAPS

-----------------------------------------------------------------------------
(* The inductive invariant                                                 *)

\* Grants resolved for a user.
GrantSets == [admin : BOOLEAN, rw : BOOLEAN, ro : BOOLEAN,
              privs : [Objects -> SUBSET Privs], cols : [Objects -> SUBSET Cols],
              filtered : [Objects -> BOOLEAN]]

Connections ==
    [role : {"closed", "unauthed", "client", "readonly", "peer"}, token : BOOLEAN,
     user : Names \cup {None}, epoch : Nat, g : GrantSets, anon : BOOLEAN,
     pc : {"idle", "verify", "run"}, name : Names \cup {None}, stored : Nat,
     redone : SUBSET Objects]

\* Shapes of the user tables.
Tabled ==
    /\ pw \in [Names -> Nat] /\ roles \subseteq Names
    /\ members \subseteq (Names \cup Builtin) \X Names
    /\ grants \subseteq GrantRows /\ exists \subseteq Objects

\* Shapes of the connections; a login in progress is for a name.
Connected ==
    /\ epoch \in Nat /\ pending \subseteq {"epoch", "users"}
    /\ conn \in [Conns -> Connections]
    /\ \A c \in Conns : /\ conn[c].pc = "verify" => conn[c].name \in Names
                        /\ conn[c].epoch <= epoch

\* The grants g and h agree on the roles and on the objects ts.
Agree(g, h, ts) ==
    /\ g.admin = h.admin /\ g.rw = h.rw /\ g.ro = h.ro
    /\ \A t \in ts : /\ g.privs[t] = h.privs[t] /\ g.cols[t] = h.cols[t]
                     /\ g.filtered[t] = h.filtered[t]

\* What a connection has resolved in the current epoch is what the user
\* tables say of every object that was not dropped since, existing or not: an
\* object created again later has no grants either way.
Current(c) ==
    (conn[c].user # None /\ conn[c].epoch = epoch /\ "epoch" \notin pending /\ ~unmoved) =>
        /\ pw[conn[c].user] > 0
        /\ Agree(conn[c].g, Resolve(conn[c].user), Objects \ conn[c].redone)

IInv == Tabled /\ Connected /\ NoDangling /\ \A c \in Conns : Current(c)

-----------------------------------------------------------------------------
(* Resolving grants                                                        *)

\* resolve_grants yields a set of grants for every user.
LEMMA ResolveType == ASSUME Tabled, NEW n \in Names PROVE Resolve(n) \in GrantSets
<1> DEFINE mine == {m[1] : m \in {x \in members : x[2] = n}} \cup {n}
           rows(t) == {g \in grants : g.grantee \in mine /\ g.tbl = t}
           sel(t) == {g \in rows(t) : g.priv = "select"}
           free(t) == \/ mine \cap {"readwrite", "readonly"} # {}
                      \/ \E g \in sel(t) : g.cols = {} /\ ~g.filter
<1>1. \A t \in Objects : {g.priv : g \in rows(t)} \in SUBSET Privs
    BY DEF Tabled, GrantRows
<1>2. \A t \in Objects : UNION {g.cols : g \in sel(t)} \in SUBSET Cols
    BY AccessAssumption DEF Tabled, GrantRows
<1>3. \A t \in Objects : (IF free(t) THEN {} ELSE UNION {g.cols : g \in sel(t)}) \in SUBSET Cols
    BY <1>2
<1>4. \A t \in Objects : (~free(t) /\ \E g \in sel(t) : g.filter) \in BOOLEAN
    OBVIOUS
<1> HIDE DEF mine, rows, sel, free
<1>5. [t \in Objects |-> {g.priv : g \in rows(t)}] \in [Objects -> SUBSET Privs]
    BY <1>1
<1>6. [t \in Objects |-> IF free(t) THEN {} ELSE UNION {g.cols : g \in sel(t)}] \in [Objects -> SUBSET Cols]
    BY <1>3
<1>7. [t \in Objects |-> ~free(t) /\ \E g \in sel(t) : g.filter] \in [Objects -> BOOLEAN]
    BY <1>4
<1>8. Resolve(n) = [admin |-> "admin" \in mine, rw |-> "readwrite" \in mine, ro |-> "readonly" \in mine,
        privs |-> [t \in Objects |-> {g.priv : g \in rows(t)}],
        cols |-> [t \in Objects |-> IF free(t) THEN {} ELSE UNION {g.cols : g \in sel(t)}],
        filtered |-> [t \in Objects |-> ~free(t) /\ \E g \in sel(t) : g.filter]]
    BY DEF Resolve, mine, rows, sel, free
<1> QED
    BY <1>5, <1>6, <1>7, <1>8 DEF GrantSets

\* Grants depend on the memberships and the table grants alone.
LEMMA ResolveStable ==
    ASSUME NEW n, UNCHANGED <<members, grants>>
    PROVE Resolve(n)' = Resolve(n)
BY DEF Resolve

\* Deleting the grants of some objects (delete_grants_for) leaves what is
\* resolved for the others.
LEMMA ResolveDrop ==
    ASSUME NEW n \in Names, NEW gone, members' = members, Tabled,
           grants' = {g \in grants : g.tbl \notin gone}
    PROVE Agree(Resolve(n), Resolve(n)', Objects \ gone)
<1> DEFINE mine == {m[1] : m \in {x \in members : x[2] = n}} \cup {n}
           rows(t) == {g \in grants : g.grantee \in mine /\ g.tbl = t}
           left(t) == {g \in grants' : g.grantee \in mine /\ g.tbl = t}
<1> SUFFICES ASSUME NEW t \in Objects \ gone
             PROVE /\ Resolve(n).privs[t] = Resolve(n)'.privs[t]
                   /\ Resolve(n).cols[t] = Resolve(n)'.cols[t]
                   /\ Resolve(n).filtered[t] = Resolve(n)'.filtered[t]
    <2>1. /\ Resolve(n).admin = Resolve(n)'.admin /\ Resolve(n).rw = Resolve(n)'.rw
          /\ Resolve(n).ro = Resolve(n)'.ro
        BY DEF Resolve
    <2> QED
        BY <2>1 DEF Agree
<1>1. rows(t) = left(t)
    OBVIOUS
<1>2. Resolve(n).privs[t] = {g.priv : g \in rows(t)} /\ Resolve(n)'.privs[t] = {g.priv : g \in left(t)}
    BY DEF Resolve
<1> DEFINE sel(r) == {g \in r : g.priv = "select"}
           free(r) == \/ mine \cap {"readwrite", "readonly"} # {}
                      \/ \E g \in sel(r) : g.cols = {} /\ ~g.filter
           cols(r) == IF free(r) THEN {} ELSE UNION {g.cols : g \in sel(r)}
           filtered(r) == ~free(r) /\ \E g \in sel(r) : g.filter
<1>3. Resolve(n).cols[t] = cols(rows(t)) /\ Resolve(n)'.cols[t] = cols(left(t))
    BY DEF Resolve
<1>4. Resolve(n).filtered[t] = filtered(rows(t)) /\ Resolve(n)'.filtered[t] = filtered(left(t))
    BY DEF Resolve
<1> HIDE DEF rows, left, cols, filtered
<1> QED
    BY <1>1, <1>2, <1>3, <1>4

-----------------------------------------------------------------------------
(* The user tables                                                         *)

\* A step that changes neither the user tables nor the objects.
LEMMA TablesStable ==
    ASSUME Tabled, NoDangling, UNCHANGED catalog PROVE Tabled' /\ NoDangling'
BY DEF Tabled, NoDangling, Users, KnownUsers, KnownRoles, catalog

\* Every user statement and every DDL statement leaves well-formed tables in
\* which nothing dangles.
LEMMA TablesStep ==
    ASSUME Tabled, NoDangling, Next PROVE Tabled' /\ NoDangling'
<1> USE DEF Tabled, NoDangling, Users, KnownUsers, KnownRoles
<1>1. ASSUME NEW n \in Names, CreateUser(n) PROVE Tabled' /\ NoDangling'
    <2>1. pw' \in [Names -> Nat] /\ pw'[n] = 1 /\ \A m \in Names \ {n} : pw'[m] = pw[m]
        BY <1>1 DEF CreateUser
    <2> QED
        BY <1>1, <2>1 DEF CreateUser
<1>2. ASSUME NEW n \in Names, AlterUserPassword(n) PROVE Tabled' /\ NoDangling'
    <2>1. pw' \in [Names -> Nat] /\ \A m \in Names : pw'[m] > 0 <=> pw[m] > 0
        BY <1>2 DEF AlterUserPassword
    <2> QED
        BY <1>2, <2>1 DEF AlterUserPassword
<1>3. ASSUME NEW n \in Names, DropUser(n) PROVE Tabled' /\ NoDangling'
    <2>1. pw' \in [Names -> Nat] /\ pw'[n] = 0 /\ \A m \in Names \ {n} : pw'[m] = pw[m]
        BY <1>3 DEF DropUser
    <2>2. n \notin roles
        BY <1>3 DEF DropUser
    <2> QED
        BY <1>3, <2>1, <2>2 DEF DropUser
<1>14. ASSUME NEW n \in Names, DropUserFails(n) PROVE Tabled' /\ NoDangling'
    <2>1. pw' \in [Names -> Nat] /\ pw'[n] = 0 /\ \A m \in Names \ {n} : pw'[m] = pw[m]
        BY <1>14 DEF DropUserFails
    <2>2. members' \subseteq members /\ UNCHANGED <<roles, grants, exists>> /\ torn' = torn \cup {<<"user", n>>}
        BY <1>14 DEF DropUserFails, Torn
    <2>3. KnownUsers \subseteq KnownUsers' /\ KnownRoles \subseteq KnownRoles'
        BY <2>1, <2>2
    <2> QED
        BY <2>1, <2>2, <2>3
<1>15. ASSUME NEW n \in Names, DropRoleFails(n) PROVE Tabled' /\ NoDangling'
    <2>1. roles' = roles \ {n} /\ members' \subseteq members /\ UNCHANGED <<pw, grants, exists>> /\ torn' = torn \cup {<<"role", n>>}
        BY <1>15 DEF DropRoleFails, Torn
    <2>2. KnownUsers \subseteq KnownUsers' /\ KnownRoles \subseteq KnownRoles'
        BY <2>1
    <2> QED
        BY <2>1, <2>2
<1>4. ASSUME NEW n \in Names, CreateRole(n) PROVE Tabled' /\ NoDangling'
    BY <1>4 DEF CreateRole
<1>5. ASSUME NEW n \in Names, DropRole(n) PROVE Tabled' /\ NoDangling'
    <2>1. \A g \in grants' : g.grantee \in KnownUsers' \cup KnownRoles' /\ g.tbl \in exists'
        BY <1>5 DEF DropRole
    <2>2. \A m \in members' : m[1] \in KnownRoles' /\ m[2] \in KnownUsers'
        BY <1>5 DEF DropRole
    <2> QED
        BY <1>5, <2>1, <2>2 DEF DropRole
<1>6. ASSUME NEW n \in Names, NEW r \in Names \cup Builtin, GrantRole(r, n)
      PROVE Tabled' /\ NoDangling'
    <2>1. <<r, n>>[1] = r /\ <<r, n>>[2] = n
        OBVIOUS
    <2> QED
        BY <1>6, <2>1 DEF GrantRole
<1>7. ASSUME NEW n \in Names, NEW r \in Names \cup Builtin, RevokeRole(r, n)
      PROVE Tabled' /\ NoDangling'
    BY <1>7 DEF RevokeRole
<1>8. ASSUME NEW g \in GrantRows, GrantTable(g) PROVE Tabled' /\ NoDangling'
    BY <1>8 DEF GrantTable
<1>9. ASSUME NEW n \in Names, NEW p \in Privs, NEW t \in Objects, RevokeTable(n, p, t)
      PROVE Tabled' /\ NoDangling'
    BY <1>9 DEF RevokeTable
<1>10. ASSUME NEW o \in Objects, DropObject(o) PROVE Tabled' /\ NoDangling'
    BY <1>10 DEF DropObject
<1>11. ASSUME NEW o \in Objects, CreateObject(o) PROVE Tabled' /\ NoDangling'
    BY <1>11 DEF CreateObject
<1>12. CASE BumpEpoch \/ RefreshHasUsers \/ Tick
    BY <1>12, TablesStable DEF BumpEpoch, RefreshHasUsers, Tick
<1>13. ASSUME NEW c \in Conns,
              \/ Connect(c) \/ Disconnect(c) \/ Refresh(c) \/ Serve(c)
              \/ \E r \in TokenRole \cup {"wrong"} : AuthToken(c, r)
              \/ \E n \in Names : LoginStart(c, n)
              \/ \E p \in {0} \cup {pw[n] : n \in Names} : LoginEnd(c, p)
       PROVE Tabled' /\ NoDangling'
    <2>1. UNCHANGED catalog
        BY <1>13 DEF Connect, Disconnect, Refresh, Serve, AuthToken, LoginStart, LoginEnd
    <2> QED
        BY <2>1, TablesStable, SMTT(30)
<1> QED
    BY <1>1, <1>2, <1>3, <1>4, <1>5, <1>6, <1>7, <1>8, <1>9, <1>10, <1>11, <1>12, <1>13, <1>14, <1>15 DEF Next

-----------------------------------------------------------------------------
(* The connections                                                         *)

\* The set of grants resolved before a connection logs in.
LEMMA ClosedType == Closed \in Connections
<1>1. NoGrants \in GrantSets
    BY DEF NoGrants, GrantSets
<1> QED
    BY <1>1 DEF Closed, Connections

\* A connection that keeps its user, grants and epoch stays current while
\* the tables its grants come from stay.
LEMMA CurrentKept ==
    ASSUME NEW c \in Conns, Current(c), UNCHANGED <<pw, members, grants, epoch>>,
           "epoch" \notin pending' => "epoch" \notin pending, ~unmoved' => ~unmoved,
           conn'[c].user = conn[c].user, conn'[c].epoch = conn[c].epoch,
           conn'[c].g = conn[c].g, conn'[c].redone = conn[c].redone
    PROVE Current(c)'
<1> PICK n : n = conn[c].user
    OBVIOUS
<1>1. Resolve(n)' = Resolve(n)
    BY ResolveStable
<1>2. Current(c)' <=> (n # None /\ conn'[c].epoch = epoch' /\ "epoch" \notin pending' /\ ~unmoved' =>
                         /\ pw'[n] > 0
                         /\ Agree(conn'[c].g, Resolve(n)', Objects \ conn'[c].redone))
    BY DEF Current
<1>3. Current(c) <=> (n # None /\ conn[c].epoch = epoch /\ "epoch" \notin pending /\ ~unmoved =>
                         /\ pw[n] > 0 /\ Agree(conn[c].g, Resolve(n), Objects \ conn[c].redone))
    BY DEF Current
<1> QED
    BY <1>1, <1>2, <1>3

\* A connection whose grants were resolved in this very step is current.
LEMMA CurrentResolved ==
    ASSUME NEW c \in Conns, NEW n \in Names, UNCHANGED <<pw, members, grants>>, pw[n] > 0,
           conn'[c].user = n, conn'[c].g = Resolve(n)
    PROVE Current(c)'
<1>1. Resolve(n)' = Resolve(n)
    BY ResolveStable
<1>2. Agree(conn'[c].g, Resolve(n)', Objects \ conn'[c].redone)
    BY <1>1 DEF Agree
<1> QED
    BY <1>2 DEF Current

\* Shapes of the connections survive every step.
LEMMA ConnectedStep ==
    ASSUME Tabled, Connected, Next PROVE Connected'
<1> USE DEF Connected
<1>1. CASE \/ \E n \in Names : CreateUser(n) \/ AlterUserPassword(n) \/ DropUser(n) \/ CreateRole(n) \/ DropRole(n)
                                 \/ DropUserFails(n) \/ DropRoleFails(n)
           \/ \E n \in Names, r \in Names \cup Builtin : GrantRole(r, n) \/ RevokeRole(r, n)
           \/ \E g \in GrantRows : GrantTable(g)
           \/ \E n \in Names, p \in Privs, t \in Objects : RevokeTable(n, p, t)
    BY <1>1 DEF CreateUser, AlterUserPassword, DropUser, CreateRole, DropRole, DropUserFails, DropRoleFails,
                GrantRole, RevokeRole, GrantTable, RevokeTable, Admin, Torn
<1>2. CASE BumpEpoch
    <2>1. epoch' = epoch + 1 /\ UNCHANGED conn /\ pending' \subseteq {"epoch", "users"}
        BY <1>2 DEF BumpEpoch
    <2>2. \A c \in Conns : conn[c].epoch \in Nat
        BY DEF Connections
    <2> QED
        BY <2>1, <2>2
<1>3. CASE RefreshHasUsers \/ Tick
    BY <1>3 DEF RefreshHasUsers, Tick, flags
<1>4. ASSUME NEW o \in Objects, DropObject(o) PROVE Connected'
    <2> DEFINE gone == {o} \cup {v \in Views : o \in Under[v]}
    <2>1. gone \subseteq Objects
        BY DEF Objects
    <2>2. conn' = [c \in Conns |-> [conn[c] EXCEPT !.redone = @ \cup gone]]
        BY <1>4 DEF DropObject
    <2> HIDE DEF gone
    <2>3. \A c \in Conns : [conn[c] EXCEPT !.redone = @ \cup gone] \in Connections
        BY <2>1 DEF Connections
    <2>4. \A c \in Conns : conn'[c].pc = conn[c].pc /\ conn'[c].name = conn[c].name /\ conn'[c].epoch = conn[c].epoch
        BY <2>2 DEF Connections
    <2> QED
        BY <1>4, <2>2, <2>3, <2>4 DEF DropObject, flags
<1>5. ASSUME NEW o \in Objects, CreateObject(o) PROVE Connected'
    BY <1>5 DEF CreateObject, flags
<1>6. ASSUME NEW c \in Conns, NEW d \in Connections, conn' = [conn EXCEPT ![c] = d],
             UNCHANGED flags, d.pc = "verify" => d.name \in Names, d.epoch <= epoch
      PROVE Connected'
    BY <1>6 DEF flags
<1>7. ASSUME NEW c \in Conns, Connect(c) \/ Disconnect(c) PROVE Connected'
    <2> DEFINE opened == [Closed EXCEPT !.role = IF HasClientToken THEN "unauthed" ELSE "client", !.anon = ~hasUsers]
    <2>1. opened \in Connections
        BY ClosedType DEF Connections
    <2>2. opened.pc = "idle" /\ opened.epoch = 0 /\ Closed.pc = "idle" /\ Closed.epoch = 0
        BY DEF Closed
    <2>3. UNCHANGED flags /\ \/ conn' = [conn EXCEPT ![c] = opened]
                             \/ conn' = [conn EXCEPT ![c] = Closed]
        BY <1>7 DEF Connect, Disconnect
    <2> HIDE DEF opened
    <2> QED
        BY <1>6, <2>1, <2>2, <2>3, ClosedType
<1>8. ASSUME NEW c \in Conns, NEW r \in TokenRole \cup {"wrong"}, AuthToken(c, r) PROVE Connected'
    <2>1. CASE UNCHANGED conn
        BY <2>1, <1>8 DEF AuthToken, flags
    <2>2. CASE conn' = [conn EXCEPT ![c].role = r, ![c].token = TRUE, ![c].user = None] /\ r \in TokenRole
        <3> DEFINE d == [conn[c] EXCEPT !.role = r, !.token = TRUE, !.user = None]
        <3>1. d \in Connections /\ d.pc = conn[c].pc /\ d.name = conn[c].name /\ d.epoch = conn[c].epoch
            BY <2>2, ZenonT(60) DEF TokenRole, Connections
        <3>2. conn' = [conn EXCEPT ![c] = d] /\ UNCHANGED flags
            BY <2>2, <1>8 DEF AuthToken
        <3> HIDE DEF d
        <3> QED
            BY <3>1, <3>2, <1>6
    <2> QED
        BY <1>8, <2>1, <2>2 DEF AuthToken
<1>9. ASSUME NEW c \in Conns, NEW n \in Names, LoginStart(c, n) PROVE Connected'
    <2>1. pw[n] \in Nat
        BY DEF Tabled
    <2> DEFINE d == [conn[c] EXCEPT !.pc = "verify", !.name = n, !.stored = pw[n]]
    <2>2. d \in Connections /\ d.name = n /\ d.epoch = conn[c].epoch
        BY <2>1, ZenonT(60) DEF Connections
    <2>3. conn' = [conn EXCEPT ![c] = d] /\ UNCHANGED flags
        BY <1>9 DEF LoginStart
    <2> HIDE DEF d
    <2> QED
        BY <2>2, <2>3, <1>6
<1>10. ASSUME NEW c \in Conns, NEW p, LoginEnd(c, p) PROVE Connected'
    <2>1. conn[c].name \in Names /\ Resolve(conn[c].name) \in GrantSets
        BY <1>10, ResolveType DEF LoginEnd
    <2> QED
        BY <2>1, <1>10, <1>6 DEF LoginEnd, Connections
<1>11. ASSUME NEW c \in Conns, Refresh(c) PROVE Connected'
    <2>1. conn[c].user \in Names /\ Resolve(conn[c].user) \in GrantSets
        BY <1>11, ResolveType DEF Refresh, Connections
    <2>2. CASE conn' = [conn EXCEPT ![c] = Closed]
        <3>1. Closed.pc # "verify" /\ Closed.epoch <= epoch
            BY DEF Closed
        <3>2. UNCHANGED flags
            BY <1>11 DEF Refresh
        <3> QED
            BY ONLY <3>1, <2>2, <3>2, <1>6, ClosedType, Zenon
    <2>3. CASE conn' # [conn EXCEPT ![c] = Closed]
        BY <2>1, <2>3, <1>11, <1>6 DEF Refresh, Connections
    <2> QED
        BY <2>2, <2>3
<1>12. ASSUME NEW c \in Conns, Serve(c) PROVE Connected'
    <2> DEFINE d == [conn[c] EXCEPT !.pc = "idle"]
    <2>1. d \in Connections /\ d.pc = "idle" /\ d.epoch = conn[c].epoch
        BY DEF Connections
    <2>2. conn' = [conn EXCEPT ![c] = d] /\ UNCHANGED flags
        BY <1>12 DEF Serve
    <2> HIDE DEF d
    <2> QED
        BY <2>1, <2>2, <1>6
<1> QED
    BY <1>1, <1>2, <1>3, <1>4, <1>5, <1>7, <1>8, <1>9, <1>10, <1>11, <1>12 DEF Next

\* Every user statement owes the epoch, or has failed half-way, so that nothing is said of any
\* connection until BumpEpoch, and then of none resolved before it; a drop is
\* remembered in redone; a frame resolves and reads the epoch in one step.
LEMMA CurrentStep ==
    ASSUME Tabled, Connected, \A c \in Conns : Current(c), Next
    PROVE \A c \in Conns : Current(c)'
<1>1. CASE \/ \E n \in Names : CreateUser(n) \/ AlterUserPassword(n) \/ DropUser(n) \/ CreateRole(n) \/ DropRole(n)
                                 \/ DropUserFails(n) \/ DropRoleFails(n)
           \/ \E n \in Names, r \in Names \cup Builtin : GrantRole(r, n) \/ RevokeRole(r, n)
           \/ \E g \in GrantRows : GrantTable(g)
           \/ \E n \in Names, p \in Privs, t \in Objects : RevokeTable(n, p, t)
    <2>1. "epoch" \in pending' \/ unmoved'
        BY <1>1 DEF CreateUser, AlterUserPassword, DropUser, CreateRole, DropRole, DropUserFails, DropRoleFails,
                    GrantRole, RevokeRole, GrantTable, RevokeTable, Admin, Torn
    <2> QED
        BY <2>1 DEF Current
<1>2. CASE BumpEpoch
    <2>1. epoch' = epoch + 1 /\ UNCHANGED conn
        BY <1>2 DEF BumpEpoch
    <2>2. \A c \in Conns : conn[c].epoch # epoch'
        BY <2>1 DEF Connected, Connections
    <2> QED
        BY <2>1, <2>2 DEF Current
<1>3. CASE RefreshHasUsers \/ Tick \/ \E o \in Objects : CreateObject(o)
    <2>1. UNCHANGED <<pw, members, grants, epoch, conn>> /\ ("epoch" \notin pending' => "epoch" \notin pending) /\ UNCHANGED unmoved
        BY <1>3 DEF RefreshHasUsers, Tick, CreateObject, catalog, flags
    <2> QED
        BY <2>1, CurrentKept
<1>4. ASSUME NEW o \in Objects, DropObject(o), NEW c \in Conns PROVE Current(c)'
    <2> PICK gone : gone = {o} \cup {v \in Views : o \in Under[v]}
        OBVIOUS
    <2>1. /\ grants' = {g \in grants : g.tbl \notin gone}
          /\ conn' = [d \in Conns |-> [conn[d] EXCEPT !.redone = @ \cup gone]]
          /\ UNCHANGED <<pw, members, epoch, pending, unmoved>>
        BY <1>4 DEF DropObject, flags
    <2>2. /\ conn'[c].user = conn[c].user /\ conn'[c].epoch = conn[c].epoch /\ conn'[c].g = conn[c].g
          /\ conn'[c].redone = conn[c].redone \cup gone
        BY <2>1 DEF Connected, Connections
    <2> PICK n : n = conn[c].user
        OBVIOUS
    <2> SUFFICES ASSUME n # None, conn[c].epoch = epoch, "epoch" \notin pending, ~unmoved
                 PROVE pw[n] > 0 /\ Agree(conn[c].g, Resolve(n)', Objects \ (conn[c].redone \cup gone))
        BY <2>1, <2>2 DEF Current
    <2>3. n \in Names
        BY DEF Connected, Connections
    <2>4. Agree(Resolve(n), Resolve(n)', Objects \ gone)
        BY <2>1, <2>3, ResolveDrop
    <2>5. pw[n] > 0 /\ Agree(conn[c].g, Resolve(n), Objects \ conn[c].redone)
        BY DEF Current
    <2> QED
        BY <2>4, <2>5 DEF Agree
<1> DEFINE Follows(d, e) ==
               \/ e.user = None
               \/ /\ e.user = conn[d].user /\ e.epoch = conn[d].epoch
                  /\ e.g = conn[d].g /\ e.redone = conn[d].redone
               \/ e.user \in Names /\ pw[e.user] > 0 /\ e.g = Resolve(e.user)
<1>5. ASSUME NEW c \in Conns, NEW d \in Conns, NEW e, conn' = [conn EXCEPT ![d] = e],
             UNCHANGED <<catalog, flags>>, Follows(d, e)
      PROVE Current(c)'
    <2>1. UNCHANGED <<pw, members, grants, epoch, pending, unmoved>>
        BY <1>5 DEF catalog, flags
    <2>2. CASE c # d
        <3>1. conn'[c] = conn[c]
            BY <2>2, <1>5 DEF Connected
        <3> QED
            BY <3>1, <2>1, CurrentKept
    <2>3. CASE c = d
        <3>1. conn'[c] = e
            BY <2>3, <1>5 DEF Connected
        <3>2. CASE e.user = None
            BY <3>1, <3>2 DEF Current
        <3>3. CASE /\ e.user = conn[d].user /\ e.epoch = conn[d].epoch
                   /\ e.g = conn[d].g /\ e.redone = conn[d].redone
            BY <3>1, <3>3, <2>1, <2>3, CurrentKept
        <3>4. CASE e.user \in Names /\ pw[e.user] > 0 /\ e.g = Resolve(e.user)
            <4> PICK n \in Names : n = e.user
                BY <3>4
            <4>1. conn'[c].user = n /\ conn'[c].g = Resolve(n) /\ pw[n] > 0
                BY <3>1, <3>4
            <4> QED
                BY <4>1, <2>1, CurrentResolved
        <3> QED
            BY <1>5, <3>2, <3>3, <3>4
    <2> QED
        BY <2>2, <2>3
<1> HIDE DEF Follows
<1>6. ASSUME NEW c \in Conns, NEW d \in Conns, Connect(d) \/ Disconnect(d) PROVE Current(c)'
    <2> DEFINE opened == [Closed EXCEPT !.role = IF HasClientToken THEN "unauthed" ELSE "client", !.anon = ~hasUsers]
    <2>1. Follows(d, opened) /\ Follows(d, Closed)
        BY DEF Closed, Follows
    <2>2. UNCHANGED <<catalog, flags>> /\ \/ conn' = [conn EXCEPT ![d] = opened]
                                          \/ conn' = [conn EXCEPT ![d] = Closed]
        BY <1>6 DEF Connect, Disconnect
    <2> HIDE DEF opened
    <2> QED
        BY <1>5, <2>1, <2>2
<1>7. ASSUME NEW c \in Conns, NEW d \in Conns, NEW r, AuthToken(d, r) PROVE Current(c)'
    <2> DEFINE e == [conn[d] EXCEPT !.role = r, !.token = TRUE, !.user = None]
    <2>1. Follows(d, e)
        BY DEF Connected, Connections, Follows
    <2>2. UNCHANGED <<catalog, flags>> /\ (UNCHANGED conn \/ conn' = [conn EXCEPT ![d] = e])
        BY <1>7 DEF AuthToken
    <2>3. CASE UNCHANGED conn
        BY <2>2, <2>3, CurrentKept DEF catalog, flags
    <2> HIDE DEF e
    <2> QED
        BY <1>5, <2>1, <2>2, <2>3
<1>8. ASSUME NEW c \in Conns, NEW d \in Conns, NEW n \in Names, LoginStart(d, n) PROVE Current(c)'
    <2> DEFINE e == [conn[d] EXCEPT !.pc = "verify", !.name = n, !.stored = pw[n]]
    <2>1. Follows(d, e)
        BY DEF Connected, Connections, Follows
    <2>2. UNCHANGED <<catalog, flags>> /\ conn' = [conn EXCEPT ![d] = e]
        BY <1>8 DEF LoginStart
    <2> HIDE DEF e
    <2> QED
        BY <1>5, <2>1, <2>2
<1>9. ASSUME NEW c \in Conns, NEW d \in Conns, NEW p, LoginEnd(d, p) PROVE Current(c)'
    <2> PICK n \in Names : n = conn[d].name
        BY <1>9 DEF LoginEnd, Connected
    <2> DEFINE e == [conn[d] EXCEPT !.pc = "idle", !.role = "client", !.user = n,
                                    !.g = Resolve(n), !.epoch = epoch, !.redone = {}]
               f == [conn[d] EXCEPT !.pc = "idle"]
    <2>1. (pw[n] > 0 => Follows(d, e)) /\ Follows(d, f)
        BY DEF Connected, Connections, Follows
    <2>2. UNCHANGED <<catalog, flags>> /\ \/ conn' = [conn EXCEPT ![d] = e] /\ pw[n] > 0
                                          \/ conn' = [conn EXCEPT ![d] = f]
        BY <1>9 DEF LoginEnd
    <2> HIDE DEF e, f
    <2> QED
        BY <1>5, <2>1, <2>2
<1>10. ASSUME NEW c \in Conns, NEW d \in Conns, Refresh(d) PROVE Current(c)'
    <2> PICK n \in Names : n = conn[d].user
        BY <1>10 DEF Refresh, Connected, Connections
    <2> DEFINE e == [conn[d] EXCEPT !.pc = "run", !.g = Resolve(n), !.epoch = epoch, !.redone = {}]
               f == [conn[d] EXCEPT !.pc = "run"]
    <2>1. (pw[n] > 0 => Follows(d, e)) /\ Follows(d, f) /\ Follows(d, Closed)
        BY DEF Connected, Connections, Closed, Follows
    <2>2. pw[n] \in Nat
        BY DEF Tabled
    <2>3. UNCHANGED <<catalog, flags>> /\ \/ conn' = [conn EXCEPT ![d] = e] /\ pw[n] > 0
                                          \/ conn' = [conn EXCEPT ![d] = f]
                                          \/ conn' = [conn EXCEPT ![d] = Closed]
        BY <1>10, <2>2 DEF Refresh
    <2> HIDE DEF e, f
    <2> QED
        BY <1>5, <2>1, <2>3
<1>11. ASSUME NEW c \in Conns, NEW d \in Conns, Serve(d) PROVE Current(c)'
    <2> DEFINE e == [conn[d] EXCEPT !.pc = "idle"]
    <2>1. Follows(d, e)
        BY DEF Connected, Connections, Follows
    <2>2. UNCHANGED <<catalog, flags>> /\ conn' = [conn EXCEPT ![d] = e]
        BY <1>11 DEF Serve
    <2> HIDE DEF e
    <2> QED
        BY <1>5, <2>1, <2>2
<1> QED
    BY <1>1, <1>2, <1>3, <1>4, <1>6, <1>7, <1>8, <1>9, <1>10, <1>11 DEF Next

-----------------------------------------------------------------------------
(* The theorems                                                            *)

\* The inductive invariant holds in every reachable state.
THEOREM Invariant == Spec => []IInv
<1>1. Init => IInv
    <2> SUFFICES ASSUME Init PROVE IInv
        OBVIOUS
    <2>1. Tabled /\ NoDangling
        BY DEF Init, Tabled, NoDangling, Users, KnownUsers, KnownRoles
    <2>2. \A c \in Conns : conn[c] = Closed
        BY DEF Init
    <2>3. Closed.user = None /\ Closed.pc = "idle" /\ Closed.epoch = 0
        BY DEF Closed
    <2>4. Connected
        BY <2>2, <2>3, ClosedType DEF Init, Connected
    <2>5. \A c \in Conns : Current(c)
        BY <2>2, <2>3 DEF Current
    <2> QED
        BY <2>1, <2>4, <2>5 DEF IInv
<1>2. IInv /\ [Next]_vars => IInv'
    <2> SUFFICES ASSUME IInv, [Next]_vars PROVE IInv'
        OBVIOUS
    <2>1. CASE Next
        BY <2>1, TablesStep, ConnectedStep, CurrentStep DEF IInv
    <2>2. CASE UNCHANGED vars
        <3>1. UNCHANGED <<pw, members, grants, epoch, pending, unmoved, conn>> /\ UNCHANGED catalog
            BY <2>2 DEF vars, catalog
        <3>2. \A c \in Conns : Current(c)'
            BY <3>1, CurrentKept DEF IInv
        <3>3. Connected'
            BY <3>1 DEF IInv, Connected
        <3> QED
            BY <3>1, <3>2, <3>3, TablesStable DEF IInv
    <2> QED
        BY <2>1, <2>2
<1> QED
    BY <1>1, <1>2, PTL DEF Spec

\* No row of the user tables outlives the user, role or object it names
\* (exec_user_admin, delete_grants_for), except what a DROP USER or DROP ROLE left
\* that failed between its deletes.
THEOREM NothingDangles == Spec => []NoDangling
<1>1. IInv => NoDangling
    BY DEF IInv
<1> QED
    BY <1>1, Invariant, PTL

\* A revocation takes effect on the next statement of every connection: what
\* was resolved in the current epoch is what the user tables say.
THEOREM RevocationsFollowed == Spec => []GrantsFresh
<1>1. IInv => GrantsFresh
    <2> SUFFICES ASSUME IInv, NEW c \in Conns, conn[c].user # None, conn[c].epoch = epoch, "epoch" \notin pending, ~unmoved
                 PROVE LET g == conn[c].g  now == Resolve(conn[c].user)
                       IN /\ pw[conn[c].user] > 0
                          /\ <<g.admin, g.rw, g.ro>> = <<now.admin, now.rw, now.ro>>
                          /\ \A t \in exists \ conn[c].redone :
                                <<g.privs[t], g.cols[t], g.filtered[t]>> = <<now.privs[t], now.cols[t], now.filtered[t]>>
        BY DEF GrantsFresh
    <2>1. pw[conn[c].user] > 0 /\ Agree(conn[c].g, Resolve(conn[c].user), Objects \ conn[c].redone)
        BY DEF IInv, Current
    <2>2. exists \subseteq Objects
        BY DEF IInv, Tabled
    <2> QED
        BY <2>1, <2>2 DEF Agree
<1> QED
    BY <1>1, Invariant, PTL

\* authorize_statement and apply_row_filters let a read of a user without a
\* reader role reach only what the user's grants say, for any contents of the
\* user tables.
LEMMA WithinGrants == ASSUME Tabled PROVE ReadsWithinGrants
<1> SUFFICES ASSUME NEW n \in Users, NEW s \in Statements, s.kind = "read",
                    ~Resolve(n).admin, ~Resolve(n).ro, ~Resolve(n).rw,
                    Authorized(s, Resolve(n)), Filterable(s, Resolve(n)),
                    NEW o \in s.reads
             PROVE LET own(t) == {r \in grants : /\ r.grantee \in {n} \cup {m[1] : m \in {x \in members : x[2] = n}}
                                                 /\ r.priv = "select" /\ r.tbl = t}
                       whole(t) == \E r \in own(t) : r.cols = {} /\ ~r.filter
                   IN \/ o \in Tables /\ own(o) # {} /\ \/ whole(o)
                                                        \/ /\ (\E r \in own(o) : r.cols # {}) => s.cols \subseteq UNION {r.cols : r \in own(o)}
                                                           /\ (\E r \in own(o) : r.filter) => Seen(s, o, Resolve(n)) = {"in"}
                      \/ o \in Views /\ (own(o) # {} \/ \A t \in Under[o] : own(t) # {} /\ (whole(t) \/ \A r \in own(t) : r.cols = {} /\ ~r.filter))
    BY ZenonT(40) DEF ReadsWithinGrants
<1> DEFINE mine == {m[1] : m \in {x \in members : x[2] = n}} \cup {n}
           own(t) == {r \in grants : r.grantee \in mine /\ r.priv = "select" /\ r.tbl = t}
           whole(t) == \E r \in own(t) : r.cols = {} /\ ~r.filter
           g == Resolve(n)
           targets == Expand(s.reads, g, TRUE)
<1>1. mine \cap {"readwrite", "readonly"} = {}
    BY DEF Resolve
<1>2. ASSUME NEW t \in Objects
      PROVE /\ "select" \in g.privs[t] => own(t) # {}
            /\ g.cols[t] = IF whole(t) THEN {} ELSE UNION {r.cols : r \in own(t)}
            /\ g.filtered[t] = (~whole(t) /\ \E r \in own(t) : r.filter)
    <2> DEFINE rows == {r \in grants : r.grantee \in mine /\ r.tbl = t}
               sel == {r \in rows : r.priv = "select"}
               free == \/ mine \cap {"readwrite", "readonly"} # {}
                       \/ \E r \in sel : r.cols = {} /\ ~r.filter
    <2>1. /\ g.privs[t] = {r.priv : r \in rows}
          /\ g.cols[t] = IF free THEN {} ELSE UNION {r.cols : r \in sel}
          /\ g.filtered[t] = (~free /\ \E r \in sel : r.filter)
        BY DEF Resolve
    <2>2. sel = own(t)
        OBVIOUS
    <2>3. free <=> whole(t)
        BY <1>1, <2>2
    <2>4. "select" \in g.privs[t] => own(t) # {}
        BY <2>1
    <2> HIDE DEF sel, free, mine, own, whole, g
    <2>5. g.cols[t] = IF whole(t) THEN {} ELSE UNION {r.cols : r \in own(t)}
        BY <2>1, <2>2, <2>3
    <2>6. g.filtered[t] = (~whole(t) /\ \E r \in own(t) : r.filter)
        BY <2>1, <2>2, <2>3
    <2> QED
        BY <2>4, <2>5, <2>6
<1>3. /\ \A t \in targets : "select" \in g.privs[t]
      /\ ColumnsGranted(s, g, targets)
    BY DEF Authorized, MaySelect
<1>4. s.reads = {o} /\ o \in Objects
    BY DEF Statements
<1> HIDE DEF own, whole, mine, g
<1>5. CASE o \in Tables
    <2>1. o \in targets /\ o \notin Views
        BY <1>4, <1>5, AccessAssumption DEF Expand
    <2>2. own(o) # {}
        BY <1>2, <1>3, <1>4, <2>1
    <2>3. ASSUME ~whole(o), NEW r \in own(o), r.cols # {} PROVE s.cols \subseteq UNION {x.cols : x \in own(o)}
        <3>1. g.cols[o] = UNION {x.cols : x \in own(o)}
            BY <1>2, <1>4, <2>3
        <3>2. g.cols[o] # {}
            BY <3>1, <2>3
        <3> QED
            BY <1>3, <2>1, <3>1, <3>2 DEF ColumnsGranted
    <2>4. ASSUME ~whole(o), NEW r \in own(o), r.filter PROVE Seen(s, o, g) = {"in"}
        <3>1. g.filtered[o]
            BY <1>2, <1>4, <2>4
        <3> QED
            BY <3>1, <1>4 DEF Filterable, Seen, g
    <2> QED
        BY <1>5, <2>2, <2>3, <2>4 DEF own, whole, mine, g
<1>6. CASE o \in Views
    <2>1. CASE "select" \in g.privs[o]
        <3>1. own(o) # {}
            BY <1>2, <1>4, <2>1
        <3> QED
            BY <1>6, <3>1 DEF own, whole, mine
    <2>2. CASE "select" \notin g.privs[o]
        <3> SUFFICES ASSUME NEW t \in Under[o]
                     PROVE own(t) # {} /\ (whole(t) \/ \A r \in own(t) : r.cols = {} /\ ~r.filter)
            BY <1>6 DEF own, whole, mine
        <3>1. t \in Objects /\ t # o
            BY <1>6, AccessAssumption DEF Objects
        <3>2. t \in targets
            BY <1>4, <1>6, <2>2 DEF Expand, MaySelect, g
        <3>3. own(t) # {}
            BY <1>2, <1>3, <3>1, <3>2
        <3>4. ~g.filtered[t]
            BY <1>4, <1>6 DEF Filterable, g
        <3>5. g.cols[t] = {}
            BY <1>3, <1>4, <3>1, <3>2, ZenonT(60) DEF ColumnsGranted
        <3>6. ASSUME ~whole(t), NEW r \in own(t) PROVE r.cols = {} /\ ~r.filter
            <4>1. UNION {x.cols : x \in own(t)} = {}
                BY <1>2, <3>1, <3>5, <3>6
            <4>2. ~\E x \in own(t) : x.filter
                BY <1>2, <3>1, <3>4, <3>6
            <4> QED
                BY <4>1, <4>2, <3>6
        <3> QED
            BY <3>3, <3>6
    <2> QED
        BY <2>1, <2>2
<1> QED
    BY <1>4, <1>5, <1>6 DEF Objects

\* An authorised read reaches only the tables, columns and rows granted to its
\* user, views included, in every reachable state.
THEOREM ReadsStayGranted == Spec => []ReadsWithinGrants
<1>1. IInv => ReadsWithinGrants
    BY WithinGrants DEF IInv
<1> QED
    BY <1>1, Invariant, PTL
=============================================================================
