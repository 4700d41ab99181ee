------------------------------ MODULE Console ------------------------------
(***************************************************************************)
(* The web console's account (docsql-web: auth.rs and the auth handlers of *)
(* lib.rs): one credential record in a file and in memory, sessions, a     *)
(* lockout per source address and a cap on concurrent key derivations.     *)
(*                                                                         *)
(* Every handler snapshots the credentials, derives keys without a lock    *)
(* and comes back to a store that may have moved: setup, login and change  *)
(* are several actions each, one per critical section.                     *)
(***************************************************************************)
EXTENDS Integers, Sequences, FiniteSets, FiniteSetsExt

CONSTANTS Clients,      \* browsers and scripts
          SourceOf,     \* Clients -> the address their lockout is kept under (lockout_key)
          Users, Passwords,
          Chosen,       \* the passwords asked for in a setup or a change, "" for none
          Weak,         \* the ones validate_password refuses
          Permits,      \* concurrent derivations
          Threshold, Window, LockFor,   \* LOCK_THRESHOLD, LOCK_WINDOW, LOCKOUT
          Ttl, MaxAge, MaxLive,         \* SESSION_TTL, SESSION_MAX_AGE, SESSION_MAX_LIVE
          MaxEvents     \* ticks, key derivations, sessions and restarts explored, together

VARIABLES file,      \* the credential file: <<>> or <<creds>>
          mem,       \* AuthStore.creds
          sessions,  \* token -> its creation, its expiry, the credentials it was granted for and by which handler
          failures,  \* Lockout: source -> the failures counted and the end of its lock
          req,       \* the request each client has in flight
          cookie,    \* the session token each client holds, 0 for none
          clock, salts, tokens, crashes,
          tries      \* source -> when it began to try wrong passwords, since its last success

vars == <<file, mem, sessions, failures, req, cookie, clock, salts, tokens, crashes, tries>>

Room == (clock - 1) + salts + tokens + crashes < MaxEvents

Origins == {SourceOf[c] : c \in Clients}
Creds(user, pw, salt) == [user |-> user, pw |-> pw, salt |-> salt]
Nothing == [fails |-> <<>>, until |-> 0]
Idle == [pc |-> "idle", kind |-> "", user |-> "", pw |-> "", cur |-> "", seen |-> <<>>, next |-> <<>>]

\* a request remembers what its later steps read
Goto(c, pc) ==
  req' = [req EXCEPT ![c] =
            [Idle EXCEPT !.pc = pc, !.kind = req[c].kind,
                         !.next = IF pc = "failed" THEN <<>> ELSE req[c].next,
                         !.seen = IF pc = "failed" THEN <<>> ELSE req[c].seen]]
Answer(c) == req' = [req EXCEPT ![c] = Idle]
At(c, pc, kind) == req[c].pc = pc /\ req[c].kind = kind

-----------------------------------------------------------------------------
(* Lockout.  Times are clock ticks; an empty entry is dropped.             *)
Fresh(fails) == SelectSeq(fails, LAMBDA t : clock - t < Window)
Locked(s) == failures[s].until > clock
\* Lockout::check
Checked(s) == [failures EXCEPT ![s] = [fails |-> Fresh(@.fails), until |-> IF @.until > clock THEN @.until ELSE 0]]
\* a plausible slip: the failure that reaches the threshold is counted, the lock comes with the next
RecordedLate(s) ==
  LET fails == Append(Fresh(failures[s].fails), clock)
      counted == IF Len(fails) > Threshold THEN [fails |-> <<>>, until |-> clock + LockFor]
                 ELSE [failures[s] EXCEPT !.fails = fails]
  IN [failures EXCEPT ![s] = counted]
\* Lockout::record_failure
Recorded(s) ==
  LET fails == Append(Fresh(failures[s].fails), clock)
      counted == IF Len(fails) >= Threshold THEN [fails |-> <<>>, until |-> clock + LockFor]
                 ELSE [failures[s] EXCEPT !.fails = fails]
      kept == [failures EXCEPT ![s] = counted]
  IN [x \in Origins |-> IF Fresh(kept[x].fails) = <<>> /\ kept[x].until <= clock THEN Nothing
                        ELSE [kept[x] EXCEPT !.fails = Fresh(@)]]
\* Lockout::reset
Forgotten(s) == [failures EXCEPT ![s] = Nothing]

(* Sessions.                                                               *)
LiveAt(t) == t \in DOMAIN sessions /\ sessions[t].expires > clock /\ clock - sessions[t].created < MaxAge
\* Sessions::verify: what is left of the table, and the session extended
Unexpired == [t \in {x \in DOMAIN sessions : sessions[x].expires > clock} |-> sessions[t]]
Slid(t) == IF LiveAt(t) THEN [Unexpired EXCEPT ![t].expires = clock + Ttl] ELSE Unexpired
\* Sessions::create: the session that expires first makes room
Victims ==
  {v \in SUBSET DOMAIN sessions :
     /\ Cardinality(v) = Max({0, Cardinality(DOMAIN sessions) - MaxLive + 1})
     /\ \A t \in v, u \in DOMAIN sessions \ v : sessions[t].expires <= sessions[u].expires}
CreateSession(c, creds) ==
  /\ Room
  /\ tokens' = tokens + 1
  /\ \E v \in Victims :
       sessions' = [t \in (DOMAIN sessions \ v) \cup {tokens + 1} |->
                      IF t = tokens + 1 THEN [created |-> clock, expires |-> clock + Ttl, for |-> creds, by |-> req[c].kind] ELSE sessions[t]]
  /\ cookie' = [cookie EXCEPT ![c] = tokens + 1]
\* Sessions::keep_only
KeepOnly(t, creds) == [x \in DOMAIN sessions \cap {t} |-> [sessions[x] EXCEPT !.for = creds]]

-----------------------------------------------------------------------------
Deriving == {c \in Clients : req[c].pc \in {"deriving", "derived"}}
Busy == Cardinality(Deriving) >= Permits

\* a request arrives and the lockout is looked at; a locked source is turned away
Arrive(c, kind, user, pw, cur) ==
  /\ req[c].pc = "idle"
  /\ failures' = Checked(SourceOf[c])
  /\ IF Locked(SourceOf[c]) THEN UNCHANGED req
     ELSE req' = [req EXCEPT ![c] = [Idle EXCEPT !.pc = "admitted", !.kind = kind, !.user = user, !.pw = pw, !.cur = cur]]
Setup(c, user, pw) ==
  Arrive(c, "setup", user, pw, "") /\ UNCHANGED <<file, mem, sessions, cookie, clock, salts, tokens, crashes, tries>>
Login(c, user, pw) ==
  Arrive(c, "login", user, "", pw) /\ UNCHANGED <<file, mem, sessions, cookie, clock, salts, tokens, crashes, tries>>
\* a change first needs a session or the token header (check_auth)
Change(c, user, pw, cur, bypass) ==
  /\ sessions' = Slid(cookie[c])
  /\ LiveAt(cookie[c]) \/ bypass
  /\ Arrive(c, "change", user, pw, cur)
  /\ UNCHANGED <<file, mem, cookie, clock, salts, tokens, crashes, tries>>

\* a permit is taken and the credentials are read
\* (permits are held by other clients' requests too)
Refuse(c) ==
  /\ req[c].pc = "admitted"
  /\ Answer(c)
  /\ UNCHANGED <<file, mem, sessions, failures, cookie, clock, salts, tokens, crashes, tries>>
Wrong(c) == mem = <<>> \/ mem[1].pw # req[c].cur \/ (req[c].kind = "login" /\ mem[1].user # req[c].user)
Snapshot(c) ==
  /\ req[c].pc = "admitted" /\ ~Busy
  /\ IF req[c].kind = "setup" /\ mem # <<>>
     THEN Answer(c) /\ failures' = Recorded(SourceOf[c]) /\ UNCHANGED tries
     ELSE /\ req' = [req EXCEPT ![c].pc = "deriving", ![c].seen = mem]
          /\ tries' = IF req[c].kind # "setup" /\ Wrong(c) THEN [tries EXCEPT ![SourceOf[c]] = Append(Fresh(@), clock)] ELSE tries
          /\ UNCHANGED failures
  /\ UNCHANGED <<file, mem, sessions, cookie, clock, salts, tokens, crashes>>

-----------------------------------------------------------------------------
(* The derivation, off every lock.                                         *)
\* verify_creds
DeriveLogin(c) ==
  /\ At(c, "deriving", "login")
  /\ Goto(c, IF \E s \in {req[c].seen[i] : i \in DOMAIN req[c].seen} : s.user = req[c].user /\ s.pw = req[c].cur
             THEN "verified" ELSE "failed")
  /\ UNCHANGED <<file, mem, sessions, failures, cookie, clock, salts, tokens, crashes, tries>>

\* prepare_setup
DeriveSetup(c) ==
  /\ At(c, "deriving", "setup")
  /\ IF req[c].pw \in Weak THEN Answer(c) /\ UNCHANGED salts
     ELSE /\ Room /\ salts' = salts + 1
          /\ req' = [req EXCEPT ![c].pc = "derived", ![c].next = <<Creds(req[c].user, req[c].pw, salts + 1)>>]
  /\ UNCHANGED <<file, mem, sessions, failures, cookie, clock, tokens, crashes, tries>>

\* prepare_change: the current password, then the new record; an empty password keeps hash and salt
DeriveChange(c) ==
  /\ At(c, "deriving", "change")
  /\ IF req[c].seen = <<>> \/ req[c].seen[1].pw # req[c].cur THEN Goto(c, "failed") /\ UNCHANGED salts
     ELSE IF req[c].pw = "" THEN /\ req' = [req EXCEPT ![c].pc = "derived", ![c].next = <<[req[c].seen[1] EXCEPT !.user = req[c].user]>>]
                                 /\ UNCHANGED salts
     ELSE IF req[c].pw \in Weak THEN Answer(c) /\ UNCHANGED salts
     ELSE /\ Room /\ salts' = salts + 1
          /\ req' = [req EXCEPT ![c].pc = "derived", ![c].next = <<Creds(req[c].user, req[c].pw, salts + 1)>>]
  /\ UNCHANGED <<file, mem, sessions, failures, cookie, clock, tokens, crashes, tries>>

(* The write back, under the store's lock; the file is replaced by rename. *)
Write(c, outcome) ==
  \/ Answer(c) /\ UNCHANGED <<file, mem>>     \* SetupError::Io, ChangeError::Io
  \/ file' = req[c].next /\ mem' = req[c].next /\ Goto(c, outcome)
\* install_setup looks at the file too
InstallSetup(c) ==
  /\ At(c, "derived", "setup")
  /\ IF mem # <<>> \/ file # <<>> THEN Goto(c, "failed") /\ UNCHANGED <<file, mem>>
     ELSE Write(c, "installed")
  /\ UNCHANGED <<sessions, failures, cookie, clock, salts, tokens, crashes, tries>>
Present(c) == mem # <<>>
Current(c) == mem = req[c].seen
InstallChange(c) ==
  /\ At(c, "derived", "change")
  /\ IF ~Current(c) THEN Answer(c) /\ UNCHANGED <<file, mem>>    \* ChangeError::Conflict
     ELSE Write(c, "installed")
  /\ UNCHANGED <<sessions, failures, cookie, clock, salts, tokens, crashes, tries>>

-----------------------------------------------------------------------------
(* The answer: the lockout, then the sessions.                             *)
Fail(c) ==
  /\ req[c].pc = "failed"
  /\ failures' = Recorded(SourceOf[c]) /\ Answer(c)
  /\ UNCHANGED <<file, mem, sessions, cookie, clock, salts, tokens, crashes, tries>>
Succeed(c) ==
  /\ req[c].pc \in {"verified", "installed"}
  /\ failures' = Forgotten(SourceOf[c])
  /\ tries' = [tries EXCEPT ![SourceOf[c]] = <<>>]
  /\ Goto(c, "granting")
  /\ UNCHANGED <<file, mem, sessions, cookie, clock, salts, tokens, crashes>>

\* a login is rechecked and its session made in one critical section of the store
NotRechecked(c) == TRUE
StillCurrent(c) == mem = req[c].seen
GrantLogin(c) ==
  /\ At(c, "granting", "login") /\ Answer(c)
  /\ IF StillCurrent(c) THEN CreateSession(c, req[c].seen) ELSE UNCHANGED <<sessions, tokens, cookie>>
  /\ UNCHANGED <<file, mem, failures, clock, salts, crashes, tries>>
GrantSetup(c) ==
  /\ At(c, "granting", "setup") /\ Answer(c)
  /\ CreateSession(c, req[c].next)
  /\ UNCHANGED <<file, mem, failures, clock, salts, crashes, tries>>
GrantChange(c) ==
  /\ At(c, "granting", "change") /\ Answer(c)
  /\ sessions' = KeepOnly(cookie[c], req[c].next)
  /\ UNCHANGED <<file, mem, failures, cookie, clock, salts, tokens, crashes, tries>>

-----------------------------------------------------------------------------
\* any other endpoint behind check_auth, or auth_status: the session slides
Api(c) ==
  /\ req[c].pc = "idle" /\ cookie[c] # 0
  /\ sessions' = Slid(cookie[c])
  /\ UNCHANGED <<file, mem, failures, req, cookie, clock, salts, tokens, crashes, tries>>
\* the token header (security_headers): check, then count or forget, under one lock
TokenRequest(c, right) ==
  LET s == SourceOf[c]
  IN /\ req[c].pc = "idle"
     /\ failures' = IF Locked(s) THEN Checked(s) ELSE IF right THEN Forgotten(s) ELSE Recorded(s)
     /\ tries' = IF right /\ ~Locked(s) THEN [tries EXCEPT ![s] = <<>>] ELSE tries
     /\ UNCHANGED <<file, mem, sessions, req, cookie, clock, salts, tokens, crashes>>
Logout(c) ==
  /\ req[c].pc = "idle" /\ cookie[c] # 0
  /\ sessions' = [t \in DOMAIN sessions \ {cookie[c]} |-> sessions[t]]
  /\ cookie' = [cookie EXCEPT ![c] = 0]
  /\ UNCHANGED <<file, mem, failures, req, clock, salts, tokens, crashes, tries>>

Tick == Room /\ clock' = clock + 1
        /\ UNCHANGED <<file, mem, sessions, failures, req, cookie, salts, tokens, crashes, tries>>
\* the process is restarted: AuthShared::open reads the file
Restart ==
  /\ Room /\ crashes' = crashes + 1
  /\ mem' = file
  /\ sessions' = [t \in {} |-> 0]
  /\ failures' = [s \in Origins |-> Nothing] /\ tries' = [s \in Origins |-> <<>>]
  /\ req' = [c \in Clients |-> Idle]
  /\ UNCHANGED <<file, cookie, clock, salts, tokens>>

Init ==
  /\ \/ file = <<>>
     \/ \E u \in Users, p \in Passwords \ Chosen : file = <<Creds(u, p, 0)>>
  /\ mem = file
  /\ sessions = [t \in {} |-> 0]
  /\ failures = [s \in Origins |-> Nothing] /\ tries = [s \in Origins |-> <<>>]
  /\ req = [c \in Clients |-> Idle] /\ cookie = [c \in Clients |-> 0]
  /\ clock = 1 /\ salts = 0 /\ tokens = 0 /\ crashes = 0

Next ==
  \/ \E c \in Clients :
       \/ \E u \in Users, p \in Chosen : Setup(c, u, p)
       \/ \E u \in Users, p \in Passwords : Login(c, u, p)
       \/ \E u \in Users, p \in Chosen, cur \in Passwords, b \in BOOLEAN : Change(c, u, p, cur, b)
       \/ Refuse(c) \/ Snapshot(c)
       \/ DeriveLogin(c) \/ DeriveSetup(c) \/ DeriveChange(c) \/ InstallSetup(c) \/ InstallChange(c)
       \/ Fail(c) \/ Succeed(c) \/ GrantLogin(c) \/ GrantSetup(c) \/ GrantChange(c)
       \/ Api(c) \/ Logout(c) \/ \E right \in BOOLEAN : TokenRequest(c, right)
  \/ Tick \/ Restart

Spec == Init /\ [][Next]_vars

-----------------------------------------------------------------------------
\* a change has replaced the credentials and not yet dropped the sessions
Rotating == \E c \in Clients : req[c].kind = "change" /\ req[c].pc \in {"installed", "granting"}

(***************************************************************************)
(* A rotation throws out whoever logged in, but for the one who made it -  *)
(* also a login whose password was right when its derivation began.        *)
(***************************************************************************)
LoginsRotated == ~Rotating => \A t \in DOMAIN sessions : sessions[t].by = "login" => sessions[t].for = mem

\* the change of the file is one caller's, who knew what it replaces
Proven ==
  \E c \in Clients : /\ req[c].pc = "derived" /\ req'[c].pc = "installed"
                     /\ file' = req[c].next
                     /\ req[c].kind = "setup" => file = <<>>
                     /\ req[c].kind = "change" => file # <<>> /\ req[c].cur = file[1].pw /\ req[c].seen = file

(***************************************************************************)
(* Between two successes the wrong passwords a source can try within the   *)
(* window are fewer than the threshold, plus one for each request it has   *)
(* in flight at once: the lockout is read before the derivation and        *)
(* written after it, and no spreading or overlapping gains more than that. *)
(***************************************************************************)
GuessesBounded ==
  \A s \in Origins : Len(Fresh(tries[s])) < Threshold + Cardinality({c \in Clients : SourceOf[c] = s})
=============================================================================
