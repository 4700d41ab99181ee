------------------------------ MODULE MCAccess ------------------------------
(***************************************************************************)
(* The accounts, one component at a time: users, roles and grants with two *)
(* connections of one source logging in and reading beside the             *)
(* administrator (part "server"); the web console's setup, logins and      *)
(* password changes from two clients of one address (part "console").      *)
(* While the console runs the server's accounts stay as they began, and    *)
(* while the server runs the console's variables are Idle.                 *)
(***************************************************************************)
EXTENDS Access, TLC

CONSTANTS u, w, t, v, c1, c2, ip

VARIABLES part, file, mem, sessions, failures, req, cookie, salts, tokens, crashes, tries, webClock

consoleVars == <<file, mem, sessions, failures, req, cookie, salts, tokens, crashes, tries, webClock>>

Sym == Permutations({c1, c2})
mcUnder == [x \in {v} |-> {t}]
mcSourceOf == [c \in {c1, c2} |-> ip]

Web == INSTANCE Console
  WITH Clients <- {c1, c2}, SourceOf <- [c \in {c1, c2} |-> ip], clock <- webClock,
       Users <- {"u"}, Passwords <- {"p", "q"}, Chosen <- {"q", ""}, Weak <- {""},
       Permits <- 2, Threshold <- 2, Window <- 2, LockFor <- 2,
       Ttl <- 2, MaxAge <- 3, MaxLive <- 2, MaxEvents <- 3

Idle == 0
ConsoleIdle ==
  /\ file = Idle /\ mem = Idle /\ sessions = Idle /\ failures = Idle /\ req = Idle
  /\ cookie = Idle /\ salts = Idle /\ tokens = Idle /\ crashes = Idle /\ tries = Idle
  /\ webClock = Idle

AccountsInit ==
  /\ Init
  /\ \/ part = "server" /\ ConsoleIdle
     \/ part = "console" /\ Web!Init
ServerStep == part = "server" /\ Next /\ UNCHANGED <<part, consoleVars>>
ConsoleStep == part = "console" /\ Web!Next /\ UNCHANGED <<part, vars>>
AccountsSpec == AccountsInit /\ [][ServerStep \/ ConsoleStep]_<<part, vars, consoleVars>>

-----------------------------------------------------------------------------
\* A rotation of the console's password throws out whoever logged in, also a
\* login whose password was right when its key derivation began (auth_login's
\* second look at the credentials under the store lock).
LoginsRotated == part = "console" => Web!LoginsRotated

\* However many attempts of one source overlap, the passwords it can try before
\* the lockout exceed the threshold by no more than its requests in flight, on
\* the server's login (Access) and on the console's (Console).
GuessesBounded == LockoutBound /\ (part = "console" => Web!GuessesBounded)

\* The console's credentials are replaced only by a caller who proved the password
\* of the very record replaced: of two concurrent writers one loses.
ReplacedKnowingly == [][part = "console" /\ file' # file => Web!Proven]_<<part, vars, consoleVars>>
=============================================================================
