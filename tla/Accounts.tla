------------------------------- MODULE Accounts -------------------------------
(***************************************************************************)
(* The local administrators of an owned appliance (identity.rs), the       *)
(* sessions of fwos-ui (ui.rs) and the console's login (console.rs).       *)
(* Connection threads of the UI authenticate, authorize and change the     *)
(* account file; only changes hold a lock, so that every check of a        *)
(* credential can be overtaken by its change or removal.  The console is a *)
(* process of its own that reads the same file.                            *)
(*                                                                         *)
(* One authentication source and the assurance Password exist, and every   *)
(* account is an administrator: nothing in the code makes another.         *)
(***************************************************************************)
EXTENDS Naturals, FiniteSets

CONSTANTS
  Users, Passwords,
  Tokens,       \* session tokens: as many as the session table takes
  MaxSessions,  \* the limit of 1024 sessions
  Threads,      \* connection threads of the UI
  None,
  MaxSubject,   \* bound on accounts ever created
  MaxVersion,   \* credential versions; stands for u64::MAX
  MaxRequests,  \* bound on account requests
  MaxFaults, MaxCrashes

ASSUME BoundsAssumption ==
  /\ {MaxSubject, MaxVersion} \subseteq Nat \ {0}
  /\ {MaxSessions, MaxRequests, MaxFaults, MaxCrashes} \subseteq Nat
ASSUME TokensAssumption == IsFiniteSet(Tokens)

VARIABLES
  vis,       \* the accounts of identity.json
  surv,      \* the contents of it a power loss may leave
  subjects,  \* random subjects given so far
  sessions,  \* the session table: an Authentication per token
  login,     \* the login that holds LOGIN_LOCK: [pc, auth, previous]
  req,       \* each thread's account request: [pc, auth, op, user, password, next]
  console,   \* the console: [pc, auth]
  revoked,   \* history: credentials whose end was acknowledged
  requests, faults, crashes

vars == <<vis, surv, subjects, sessions, login, req, console, revoked, requests, faults, crashes>>

Subjects == 1 .. MaxSubject
Versions == 1 .. MaxVersion
Accounts == [user: Users, subject: Subjects, password: Passwords, version: Versions]

(* An Authentication; password is kept only to state properties. *)
Authentications == Accounts

NoLogin == [pc |-> "none", auth |-> None, previous |-> None]
NoRequest == [pc |-> "none", auth |-> None, op |-> None, user |-> None, password |-> None,
              next |-> None]
NoConsole == [pc |-> "login", auth |-> None]

-----------------------------------------------------------------------------
(* identity.rs                                                             *)

(* authenticate: a match of user and password in the file as it is read. *)
Authenticate(u, p) == {a \in vis : a.user = u /\ a.password = p}

(* authorized_in compares subject, username and credential version. *)
Authorized(config, auth) ==
  \E a \in config :
    a.user = auth.user /\ a.subject = auth.subject /\ a.version = auth.version

AccountOf(u) == {a \in vis : a.user = u}

\* Mutant: subjects are numbered by the accounts there are.
CreatedNumbered(u, p) ==
  IF AccountOf(u) # {} THEN {}
  ELSE {vis \cup {[user |-> u, subject |-> Cardinality(vis) + 1, password |-> p, version |-> 1]}}

(* What each operation writes; {} is one of its errors. *)
Created(u, p) ==
  IF AccountOf(u) # {} THEN {}
  ELSE {vis \cup {[user |-> u, subject |-> subjects + 1, password |-> p, version |-> 1]}}

\* Mutant: a password change keeps the credential version.
ChangedKeepsVersion(u, p) == {(vis \ {a}) \cup {[a EXCEPT !.password = p]} : a \in AccountOf(u)}

(* checked_add: at the largest version the change is refused. *)
Changed(u, p) ==
  {(vis \ {a}) \cup {[a EXCEPT !.password = p, !.version = @ + 1]} :
     a \in {b \in AccountOf(u) : b.version < MaxVersion}}

\* Mutant: the last administrator can be removed.
RemovedAny(u) == {vis \ {a} : a \in AccountOf(u)}

(* LastAdministrator. *)
Removed(u) == IF Cardinality(vis) <= 1 THEN {} ELSE {vis \ {a} : a \in AccountOf(u)}

Ops == {"create", "change", "remove"}

Outcome(op, u, p) ==
  CASE op = "create" -> Created(u, p)
    [] op = "change" -> Changed(u, p)
    [] op = "remove" -> Removed(u)

-----------------------------------------------------------------------------
(* Sessions of the UI.                                                     *)

Open == {k \in Tokens : sessions[k] # None}
Leaves == <<vis, surv, subjects, revoked, requests, faults, crashes>>

(* login tries LOGIN_LOCK and answers "busy" rather than wait. *)
Login(u, p, previous) ==
  /\ login.pc = "none"
  /\ \E a \in Authenticate(u, p) :
       login' = [pc |-> "authorize", auth |-> a, previous |-> previous]
  /\ UNCHANGED <<sessions, req, console, Leaves>>

LoginAuthorize ==
  /\ login.pc = "authorize"
  /\ login' = IF Authorized(vis, login.auth) THEN [login EXCEPT !.pc = "insert"] ELSE NoLogin
  /\ UNCHANGED <<sessions, req, console, Leaves>>

\* Mutant: the session table has no limit.
LoginUnlimited ==
  /\ login.pc = "insert"
  /\ LET kept == [k \in Tokens |-> IF k = login.previous THEN None ELSE sessions[k]]
     IN \E k \in {j \in Tokens : kept[j] = None} :
          sessions' = [kept EXCEPT ![k] = login.auth]
  /\ login' = NoLogin
  /\ UNCHANGED <<req, console, Leaves>>

(* The browser's previous session goes even when there is no room. *)
LoginInsert ==
  /\ login.pc = "insert"
  /\ LET kept == [k \in Tokens |-> IF k = login.previous THEN None ELSE sessions[k]]
         free == {k \in Tokens : kept[k] = None}
     IN IF Cardinality(Tokens \ free) >= MaxSessions THEN sessions' = kept
        ELSE \E k \in free : sessions' = [kept EXCEPT ![k] = login.auth]
  /\ login' = NoLogin
  /\ UNCHANGED <<req, console, Leaves>>

(* logout, or half an hour. *)
SessionEnds(k) ==
  /\ k \in Open
  /\ sessions' = [sessions EXCEPT ![k] = None]
  /\ UNCHANGED <<login, req, console, Leaves>>

-----------------------------------------------------------------------------
(* Account requests.                                                       *)

(* dispatch: authenticated() before the handler. *)
Request(t, k, op, u, p) ==
  /\ req[t].pc = "none" /\ k \in Open
  /\ requests < MaxRequests /\ requests' = requests + 1
  /\ Authorized(vis, sessions[k])
  /\ req' = [req EXCEPT ![t] = [pc |-> "lock", auth |-> sessions[k], op |-> op, user |-> u,
                                password |-> IF op = "remove" THEN None ELSE p,
                                next |-> None]]
  /\ UNCHANGED <<vis, surv, subjects, sessions, login, console, revoked, faults, crashes>>

LockFree == \A t \in Threads : req[t].pc # "write"

(* The subject of a new account is drawn whether or not it is written. *)
Draws(t, ok) ==
  subjects' = IF ok /\ req[t].op = "create" THEN subjects + 1 ELSE subjects

\* Mutant: the administrator is not authorized again under the lock.
LockedUnchecked(t) ==
  LET outcome == Outcome(req[t].op, req[t].user, req[t].password) IN
  /\ req[t].pc = "lock" /\ LockFree
  /\ req[t].op = "create" => subjects < MaxSubject
  /\ \/ outcome = {} /\ req' = [req EXCEPT ![t] = NoRequest]
     \/ \E c \in outcome : req' = [req EXCEPT ![t].pc = "write", ![t].next = c]
  /\ Draws(t, outcome # {})
  /\ UNCHANGED <<vis, surv, sessions, login, console, revoked, requests, faults, crashes>>

\* Mutant: account changes take no lock.
Unlocked(t) ==
  LET outcome == IF Authorized(vis, req[t].auth)
                 THEN Outcome(req[t].op, req[t].user, req[t].password) ELSE {} IN
  /\ req[t].pc = "lock"
  /\ req[t].op = "create" => subjects < MaxSubject
  /\ \/ outcome = {} /\ req' = [req EXCEPT ![t] = NoRequest]
     \/ \E c \in outcome : req' = [req EXCEPT ![t].pc = "write", ![t].next = c]
  /\ Draws(t, outcome # {})
  /\ UNCHANGED <<vis, surv, sessions, login, console, revoked, requests, faults, crashes>>

(* Under ACCOUNT_WRITE_LOCK: read, authorize again, compute the new file. *)
AccountLock(t) ==
  LET outcome == IF Authorized(vis, req[t].auth)
                 THEN Outcome(req[t].op, req[t].user, req[t].password) ELSE {} IN
  /\ req[t].pc = "lock" /\ LockFree
  /\ req[t].op = "create" => subjects < MaxSubject
  /\ \/ outcome = {} /\ req' = [req EXCEPT ![t] = NoRequest]
     \/ \E c \in outcome : req' = [req EXCEPT ![t].pc = "write", ![t].next = c]
  /\ Draws(t, outcome # {})
  /\ UNCHANGED <<vis, surv, sessions, login, console, revoked, requests, faults, crashes>>

Credentials(config) == {[subject |-> a.subject, version |-> a.version] : a \in config}

(* write_configuration: rename, then sync the directory; either can fail. *)
WriteConfiguration(t) ==
  /\ req[t].pc = "write"
  /\ \/ /\ vis' = req[t].next /\ surv' = {vis'}
        /\ revoked' = revoked \cup (Credentials(vis) \ Credentials(vis'))
        /\ UNCHANGED faults
     \/ /\ faults < MaxFaults /\ faults' = faults + 1
        /\ \/ UNCHANGED <<vis, surv>>
           \/ vis' = req[t].next /\ surv' = surv \cup {vis'}
        /\ UNCHANGED revoked
  /\ req' = [req EXCEPT ![t] = NoRequest]
  /\ UNCHANGED <<subjects, sessions, login, console, requests, crashes>>

-----------------------------------------------------------------------------
(* The console: admin_run and admin_session.                               *)

ConsoleLogin(u, p) ==
  /\ console.pc = "login"
  /\ \E a \in Authenticate(u, p) : console' = [pc |-> "session", auth |-> a]
  /\ UNCHANGED <<sessions, login, req, Leaves>>

(* After the login, before each prompt and again once a line is read. The  *)
(* command goes to netd or fwos-update, or ends the session.               *)
ConsoleSession ==
  /\ console.pc = "session"
  /\ \/ Authorized(vis, console.auth) /\ UNCHANGED console
     \/ console' = NoConsole
  /\ UNCHANGED <<sessions, login, req, Leaves>>

-----------------------------------------------------------------------------

(* The UI's process ends, and with it sessions, locks and threads. *)
UiGone ==
  /\ crashes < MaxCrashes /\ crashes' = crashes + 1
  /\ sessions' = [k \in Tokens |-> None]
  /\ login' = NoLogin /\ req' = [t \in Threads |-> NoRequest]

UiEnds == UiGone /\ UNCHANGED <<vis, surv, subjects, console, revoked, requests, faults>>

PowerLoss ==
  /\ UiGone
  /\ vis' \in surv /\ surv' = {vis'}
  /\ console' = NoConsole
  /\ UNCHANGED <<subjects, revoked, requests, faults>>

Init ==
  /\ \E u \in Users, p \in Passwords :
       vis = {[user |-> u, subject |-> 1, password |-> p, version |-> 1]}
  /\ surv = {vis} /\ subjects = 1
  /\ sessions = [k \in Tokens |-> None]
  /\ login = NoLogin /\ req = [t \in Threads |-> NoRequest] /\ console = NoConsole
  /\ revoked = {} /\ requests = 0 /\ faults = 0 /\ crashes = 0

Next ==
  \/ \E u \in Users, p \in Passwords :
       \/ \E k \in Open \cup {None} : Login(u, p, k)
       \/ ConsoleLogin(u, p)
       \/ \E t \in Threads, k \in Tokens, op \in Ops : Request(t, k, op, u, p)
  \/ LoginAuthorize \/ LoginInsert
  \/ \E k \in Tokens : SessionEnds(k)
  \/ \E t \in Threads : AccountLock(t) \/ WriteConfiguration(t)
  \/ ConsoleSession
  \/ UiEnds \/ PowerLoss

Spec == Init /\ [][Next]_vars

-----------------------------------------------------------------------------
(* Properties.                                                             *)

OptAuth == Authentications \cup {None}

(* Every variable has its type, and the session table its limit. *)
TypeOK ==
  /\ vis \subseteq Accounts /\ vis \in surv /\ surv \subseteq SUBSET Accounts
  /\ subjects \in Subjects
  /\ sessions \in [Tokens -> OptAuth] /\ Cardinality(Open) <= MaxSessions
  /\ login \in [pc: {"none", "authorize", "insert"}, auth: OptAuth, previous: Tokens \cup {None}]
  /\ req \in [Threads -> [pc: {"none", "lock", "write"}, auth: OptAuth, op: Ops \cup {None},
                          user: Users \cup {None}, password: Passwords \cup {None},
                          next: (SUBSET Accounts) \cup {None}]]
  /\ \A t \in Threads : req[t].pc = "lock" =>
       /\ req[t].op \in Ops /\ req[t].user \in Users
       /\ req[t].op # "remove" => req[t].password \in Passwords
  /\ console \in [pc: {"login", "session"}, auth: OptAuth]
  /\ revoked \subseteq [subject: Subjects, version: Versions]
  /\ requests \in 0 .. MaxRequests /\ faults \in 0 .. MaxFaults /\ crashes \in 0 .. MaxCrashes

(* The checks of IdentityConfiguration::read. *)
Readable(config) ==
  \A a, b \in config : a # b => a.user # b.user /\ a.subject # b.subject

(* Whatever a power loss leaves, the file passes the checks with which it  *)
(* is read and holds an administrator: "cannot remove the final            *)
(* administrator", whoever removes whom at the same time.                  *)
AdministratorRemains == \A c \in surv : c # {} /\ Readable(c)

(* A password change or removal that was acknowledged is never undone, by  *)
(* another administrator's change or by a power loss.                      *)
RevocationLasts == \A c \in surv : Credentials(c) \cap revoked = {}

(* The credentials that sessions, requests and the console hold. *)
Held ==
  {sessions[k] : k \in Open} \cup {login.auth, console.auth} \cup {req[t].auth : t \in Threads}

(* "Removing an account, changing its credentials, or raising assurance    *)
(* requirements invalidates prior sessions": what may act as an            *)
(* administrator was obtained with the password the account has now.       *)
SessionProvesPassword ==
  \A h \in Held \ {None} : \A a \in vis :
    Authorized({a}, h) => a.password = h.password

(* A credential that was refused is never good again, even when an account *)
(* of the same name is created.                                            *)
RefusedForGood ==
  [][\A h \in (Held \cap Held') \ {None} : ~Authorized(vis, h) => ~Authorized(vis', h)]_vars

(* The accounts are only changed for someone who is an administrator in    *)
(* the accounts being replaced, however long ago the request was let in.   *)
ChangedByAdministrator ==
  [][vis' # vis => crashes' # crashes \/
       \E t \in Threads : req[t].pc = "write" /\ req'[t].pc = "none" /\ vis' = req[t].next
                          /\ Authorized(vis, req[t].auth)]_vars
=============================================================================
