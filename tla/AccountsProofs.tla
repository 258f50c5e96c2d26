---------------------------- MODULE AccountsProofs ----------------------------
(***************************************************************************)
(* Proofs about Accounts: whatever the users, sessions, threads and        *)
(* bounds, an administrator remains, acknowledged revocations last, what   *)
(* acts was authenticated with the present password, a refused credential  *)
(* is refused for good, and only administrators change accounts.           *)
(***************************************************************************)
EXTENDS Accounts, FiniteSetTheorems, TLAPS

Holders == Held \ {None}

(* A file that may be written: finite, as every file is. *)
Good(c) ==
  /\ c \subseteq Accounts /\ IsFiniteSet(c) /\ c # {} /\ Readable(c)
  /\ \A a \in c : a.subject <= subjects

(* Credential versions only grow, so that none that was revoked returns. *)
Unrevoked(c) == \A r \in revoked, a \in c : a.subject = r.subject => r.version < a.version

(* The accounts d come after c. *)
Succeeds(c, d) ==
  \A a \in c, b \in d :
    a.subject = b.subject => a.version <= b.version /\ (a.version = b.version => a = b)

(* No credential held is ahead of the accounts c, and one that is good for *)
(* them was obtained with their password.                                  *)
Proves(c) ==
  \A h \in Holders, a \in c :
    a.subject = h.subject =>
      /\ h.version <= a.version
      /\ a.user = h.user /\ a.version = h.version => a.password = h.password

FilesInv == \A c \in surv : Good(c) /\ Unrevoked(c)

HeldInv == Proves(vis) /\ \A h \in Holders : h.subject <= subjects

RevokedInv == \A r \in revoked : r.subject <= subjects

(* What the thread t is about to write under the lock. *)
Writing(t) ==
  /\ Good(req[t].next) /\ Unrevoked(req[t].next)
  /\ Succeeds(vis, req[t].next) /\ Proves(req[t].next)
  /\ Authorized(vis, req[t].auth)
  /\ \A h \in Holders : Authorized(req[t].next, h) => Authorized(vis, h)

WriterInv == \A t \in Threads : req[t].pc = "write" => Writing(t)

LockInv == \A t, u \in Threads : req[t].pc = "write" /\ req[u].pc = "write" => t = u

(* The inductive invariant. *)
IInv == TypeOK /\ FilesInv /\ HeldInv /\ RevokedInv /\ WriterInv /\ LockInv

(* Who acts, acts with an Authentication of identity.rs. *)
LEMMA HoldersTyped ==
  ASSUME TypeOK
  PROVE  \A h \in Holders : h \in Accounts /\ h.subject \in Nat /\ h.version \in Nat
<1>1. \A h \in Holders : h \in Accounts
  BY DEF Holders, Held, TypeOK, OptAuth, Authentications, Open
<1> QED BY <1>1 DEF Accounts, Subjects, Versions

-----------------------------------------------------------------------------
(* What an operation computes.                                             *)

(* The shape of the accounts that create, change and remove write: one new *)
(* account under a fresh subject, one with its next version, or one less.  *)
Adds(c, n) ==
  /\ n \in Accounts /\ c = vis \cup {n} /\ n.subject = subjects + 1
  /\ \A a \in vis : a.user # n.user

Bumps(c, a, n) ==
  /\ a \in vis /\ n \in Accounts /\ c = (vis \ {a}) \cup {n}
  /\ n.user = a.user /\ n.subject = a.subject /\ n.version = a.version + 1

Drops(c, a) == a \in vis /\ c = vis \ {a} /\ ~(Cardinality(vis) <= 1)

LEMMA CreatedShape ==
  ASSUME TypeOK, NEW u \in Users, NEW p \in Passwords, subjects < MaxSubject, NEW c \in Created(u, p)
  PROVE  \E n : Adds(c, n)
<1> DEFINE n == [user |-> u, subject |-> subjects + 1, password |-> p, version |-> 1]
<1>1. AccountOf(u) = {} /\ c = vis \cup {n}
  BY DEF Created
<1>2. n \in Accounts
  BY BoundsAssumption DEF TypeOK, Accounts, Subjects, Versions
<1>3. \A a \in vis : a.user # n.user
  BY <1>1 DEF AccountOf
<1> QED BY <1>1, <1>2, <1>3 DEF Adds

LEMMA ChangedShape ==
  ASSUME TypeOK, NEW u \in Users, NEW p \in Passwords, NEW c \in Changed(u, p)
  PROVE  \E a, n : Bumps(c, a, n)
<1>1. PICK a \in vis : /\ a.version < MaxVersion
                       /\ c = (vis \ {a}) \cup {[a EXCEPT !.password = p, !.version = @ + 1]}
  BY DEF Changed, AccountOf
<1> DEFINE n == [a EXCEPT !.password = p, !.version = @ + 1]
<1>2. a \in Accounts
  BY DEF TypeOK
<1>3. /\ n.user = a.user /\ n.subject = a.subject /\ n.password = p
      /\ n.version = a.version + 1
  BY <1>2 DEF Accounts
<1>4. n \in Accounts
  <2>1. a.version + 1 \in Versions
    BY <1>1, <1>2, BoundsAssumption DEF Accounts, Versions
  <2> QED BY <1>2, <2>1 DEF Accounts
<1> QED BY <1>1, <1>3, <1>4 DEF Bumps

LEMMA RemovedShape ==
  ASSUME NEW u, NEW c \in Removed(u)
  PROVE  \E a : Drops(c, a)
BY DEF Removed, Drops, AccountOf

LEMMA OutcomeShape ==
  ASSUME TypeOK, NEW t \in Threads, req[t].pc = "lock",
         req[t].op = "create" => subjects < MaxSubject,
         NEW c \in Outcome(req[t].op, req[t].user, req[t].password)
  PROVE  \/ req[t].op = "create" /\ \E n : Adds(c, n)
         \/ \E a, n : Bumps(c, a, n)
         \/ \E a : Drops(c, a)
<1>1. req[t].op \in Ops /\ req[t].user \in Users
      /\ (req[t].op # "remove" => req[t].password \in Passwords)
  BY DEF TypeOK
<1>2. CASE req[t].op = "create"
  BY <1>1, <1>2, CreatedShape DEF Outcome
<1>3. CASE req[t].op = "change"
  BY <1>1, <1>3, ChangedShape DEF Outcome
<1>4. CASE req[t].op = "remove"
  BY <1>4, RemovedShape DEF Outcome
<1> QED BY <1>1, <1>2, <1>3, <1>4 DEF Ops

(* A new account: its subject is fresh for every file, revocation and holder. *)
LEMMA AddsFacts ==
  ASSUME IInv, NEW c, NEW n, Adds(c, n)
  PROVE  /\ c \subseteq Accounts /\ IsFiniteSet(c) /\ c # {} /\ Readable(c)
         /\ \A a \in c : a.subject <= subjects + 1
         /\ Unrevoked(c) /\ Succeeds(vis, c) /\ Proves(c)
         /\ \A h \in Holders : Authorized(c, h) => Authorized(vis, h)
<1>1. Good(vis) /\ Unrevoked(vis) /\ subjects \in Nat /\ vis \subseteq Accounts
  BY DEF IInv, FilesInv, TypeOK, Subjects
<1>2. /\ n \in Accounts /\ c = vis \cup {n} /\ n.subject = subjects + 1
      /\ \A a \in vis : a.user # n.user /\ a.subject # n.subject /\ a.subject \in Nat
  BY <1>1 DEF Adds, Good, Accounts, Subjects
<1>3. IsFiniteSet(c)
  BY <1>1, <1>2, FS_AddElement DEF Good
<1>4. Readable(c)
  BY <1>1, <1>2 DEF Good, Readable
<1>5. Unrevoked(c)
  <2>1. \A r \in revoked : r.subject \in Nat /\ r.subject # n.subject
    BY <1>1, <1>2 DEF IInv, RevokedInv, TypeOK, Subjects
  <2> QED BY <1>1, <1>2, <2>1 DEF Unrevoked
<1>6. Succeeds(vis, c)
  BY <1>1, <1>2 DEF Succeeds, Good, Readable, Accounts, Versions
<1>7. \A h \in Holders : h.subject # n.subject
  BY <1>1, <1>2, HoldersTyped DEF IInv, HeldInv
<1>8. Proves(c)
  BY <1>2, <1>7 DEF IInv, HeldInv, Proves
<1>9. \A h \in Holders : Authorized(c, h) => Authorized(vis, h)
  BY <1>2, <1>7 DEF Authorized
<1> QED BY <1>1, <1>2, <1>3, <1>4, <1>5, <1>6, <1>8, <1>9 DEF Good

(* A new version: it is ahead of every revocation and holder. *)
LEMMA BumpsFacts ==
  ASSUME IInv, NEW c, NEW a, NEW n, Bumps(c, a, n)
  PROVE  /\ Good(c) /\ Unrevoked(c) /\ Succeeds(vis, c) /\ Proves(c)
         /\ \A h \in Holders : Authorized(c, h) => Authorized(vis, h)
<1>1. Good(vis) /\ Unrevoked(vis) /\ vis \subseteq Accounts
  BY DEF IInv, FilesInv, TypeOK
<1>2. /\ n \in Accounts /\ c = (vis \ {a}) \cup {n} /\ a \in vis /\ a \in Accounts
      /\ n.user = a.user /\ n.subject = a.subject /\ n.version = a.version + 1
      /\ a.version \in Nat
  BY <1>1 DEF Bumps, Accounts, Versions
<1>3. IsFiniteSet(c)
  BY <1>1, <1>2, FS_AddElement, FS_RemoveElement DEF Good
<1>4. Readable(c)
  BY <1>1, <1>2 DEF Good, Readable
<1>5. Good(c)
  BY <1>1, <1>2, <1>3, <1>4 DEF Good
<1>6. Unrevoked(c)
  <2>1. \A r \in revoked : r.version \in Nat
    BY DEF IInv, TypeOK, Versions
  <2> QED BY <1>1, <1>2, <2>1 DEF Unrevoked
<1>7. Succeeds(vis, c)
  BY <1>1, <1>2 DEF Succeeds, Good, Readable, Accounts, Versions
<1>8. \A h \in Holders : h.subject = n.subject => h.version < n.version
  BY <1>2, HoldersTyped DEF IInv, HeldInv, Proves
<1>9. \A h \in Holders : h.version \in Nat
  BY HoldersTyped DEF IInv
<1>10. Proves(c)
  BY <1>2, <1>8, <1>9 DEF IInv, HeldInv, Proves
<1>11. \A h \in Holders : Authorized(c, h) => Authorized(vis, h)
  BY <1>2, <1>8, <1>9 DEF Authorized
<1> QED BY <1>5, <1>6, <1>7, <1>10, <1>11

(* A removal: LastAdministrator leaves one account at least. *)
LEMMA DropsFacts ==
  ASSUME IInv, NEW c, NEW a, Drops(c, a)
  PROVE  /\ Good(c) /\ Unrevoked(c) /\ Succeeds(vis, c) /\ Proves(c)
         /\ \A h \in Holders : Authorized(c, h) => Authorized(vis, h)
<1>1. Good(vis) /\ Unrevoked(vis) /\ vis \subseteq Accounts
  BY DEF IInv, FilesInv, TypeOK
<1>2. a \in vis /\ c = vis \ {a} /\ ~(Cardinality(vis) <= 1)
  BY DEF Drops
<1>3. IsFiniteSet(c)
  BY <1>1, <1>2, FS_RemoveElement DEF Good
<1>4. c # {}
  <2>1. SUFFICES ASSUME c = {} PROVE FALSE
    OBVIOUS
  <2>2. vis = {a}
    BY <1>2, <2>1
  <2>3. Cardinality(vis) = 1
    BY <2>2, FS_Singleton
  <2> QED BY <1>2, <2>3
<1>5. Good(c)
  BY <1>1, <1>2, <1>3, <1>4 DEF Good, Readable
<1>6. Unrevoked(c)
  BY <1>1, <1>2 DEF Unrevoked
<1>7. Succeeds(vis, c)
  BY <1>1, <1>2 DEF Succeeds, Good, Readable, Accounts, Versions
<1>8. Proves(c)
  BY <1>2 DEF IInv, HeldInv, Proves
<1>9. \A h \in Holders : Authorized(c, h) => Authorized(vis, h)
  BY <1>2 DEF Authorized
<1> QED BY <1>5, <1>6, <1>7, <1>8, <1>9
-----------------------------------------------------------------------------
(* Steps.                                                                  *)

(* Logins, requests and ends of sessions leave the file alone; what is     *)
(* held comes from what was held or from the file as it is.                *)
LEMMA QuietStep ==
  ASSUME IInv, TypeOK', UNCHANGED <<vis, surv, subjects, revoked>>,
         Holders' \subseteq Holders \cup vis,
         \A t \in Threads : req'[t].pc = "write" => req'[t] = req[t]
  PROVE  IInv'
<1> DEFINE New == Holders'
<1>1. \A h \in New : h \in Holders \/ h \in vis
  OBVIOUS
<1>2. Good(vis) /\ vis \subseteq Accounts
  BY DEF IInv, FilesInv, TypeOK
<1>3. FilesInv'
  BY DEF IInv, FilesInv, Good, Unrevoked
<1>4. RevokedInv'
  BY DEF IInv, RevokedInv
<1>5. Proves(vis)'
  <2>1. ASSUME NEW h \in New, NEW a \in vis, a.subject = h.subject
        PROVE  /\ h.version <= a.version
               /\ a.user = h.user /\ a.version = h.version => a.password = h.password
    <3>1. CASE h \in Holders
      BY <2>1, <3>1 DEF IInv, HeldInv, Proves
    <3>2. CASE h \in vis
      BY <1>2, <2>1, <3>2 DEF Good, Readable, Accounts, Versions
    <3> QED BY <1>1, <2>1, <3>1, <3>2
  <2> QED BY <2>1 DEF Proves
<1>6. (\A h \in Holders : h.subject <= subjects)'
  BY <1>1, <1>2 DEF IInv, HeldInv, Good
<1>7. WriterInv'
  <2>1. SUFFICES ASSUME NEW t \in Threads, req'[t].pc = "write" PROVE Writing(t)'
    BY DEF WriterInv
  <2>2. req'[t] = req[t] /\ Writing(t)
    BY <2>1 DEF IInv, WriterInv
  <2> DEFINE d == req[t].next
  <2>3. (Good(req[t].next) /\ Unrevoked(req[t].next) /\ Succeeds(vis, req[t].next))'
    BY <2>2 DEF Writing, Good, Unrevoked, Succeeds
  <2>4. Authorized(vis, req[t].auth)'
    BY <2>2 DEF Writing, Authorized
  <2>5. Proves(req[t].next)'
    <3>1. ASSUME NEW h \in New, NEW a \in d, a.subject = h.subject
          PROVE  /\ h.version <= a.version
                 /\ a.user = h.user /\ a.version = h.version => a.password = h.password
      <4>1. CASE h \in Holders
        BY <2>2, <3>1, <4>1 DEF Writing, Proves
      <4>2. CASE h \in vis
        BY <2>2, <3>1, <4>2 DEF Writing, Succeeds
      <4> QED BY <1>1, <3>1, <4>1, <4>2
    <3> QED BY <2>2, <3>1 DEF Proves
  <2>6. (\A h \in Holders : Authorized(req[t].next, h) => Authorized(vis, h))'
    <3>1. ASSUME NEW h \in New, Authorized(d, h) PROVE Authorized(vis, h)
      <4>1. CASE h \in Holders
        BY <2>2, <3>1, <4>1 DEF Writing
      <4>2. CASE h \in vis
        BY <4>2 DEF Authorized
      <4> QED BY <1>1, <3>1, <4>1, <4>2
    <3> QED BY <2>2, <3>1 DEF Authorized
  <2> QED BY <2>3, <2>4, <2>5, <2>6 DEF Writing
<1>8. LockInv'
  BY DEF IInv, LockInv
<1> QED BY <1>3, <1>4, <1>5, <1>6, <1>7, <1>8 DEF IInv, HeldInv

(* Facts about the threads' records that the steps below share. *)
LEMMA Types ==
  ASSUME TypeOK
  PROVE  /\ vis \subseteq Accounts /\ NoLogin.auth = None /\ NoConsole.auth = None
         /\ NoRequest.auth = None /\ NoRequest.pc = "none"
         /\ vis \subseteq OptAuth /\ None \in OptAuth
         /\ NoLogin \in [pc: {"none", "authorize", "insert"}, auth: OptAuth,
                         previous: Tokens \cup {None}]
         /\ NoConsole \in [pc: {"login", "session"}, auth: OptAuth]
         /\ NoRequest \in [pc: {"none", "lock", "write"}, auth: OptAuth, op: Ops \cup {None},
                           user: Users \cup {None}, password: Passwords \cup {None},
                           next: (SUBSET Accounts) \cup {None}]
BY DEF TypeOK, NoLogin, NoConsole, NoRequest, OptAuth, Authentications

LEMMA LoginStep ==
  ASSUME IInv, NEW u \in Users, NEW p \in Passwords, NEW k \in Open \cup {None}, Login(u, p, k)
  PROVE  IInv'
<1>1. PICK a \in vis : login' = [pc |-> "authorize", auth |-> a, previous |-> k]
  BY DEF Login, Authenticate
<1>2. TypeOK'
  BY <1>1, Types DEF IInv, TypeOK, Login, Leaves, Open
<1>3. Holders' \subseteq Holders \cup vis
  BY <1>1 DEF Login, Leaves, Holders, Held, Open
<1> QED BY <1>2, <1>3, QuietStep DEF Login, Leaves

LEMMA LoginAuthorizeStep ==
  ASSUME IInv, LoginAuthorize
  PROVE  IInv'
<1>1. login' \in [pc: {"none", "authorize", "insert"}, auth: OptAuth, previous: Tokens \cup {None}]
      /\ login'.auth \in {login.auth, None}
  BY Types DEF IInv, TypeOK, LoginAuthorize
<1>2. TypeOK'
  BY <1>1 DEF IInv, TypeOK, LoginAuthorize, Leaves, Open
<1>3. Holders' \subseteq Holders \cup vis
  BY <1>1 DEF LoginAuthorize, Leaves, Holders, Held, Open
<1> QED BY <1>2, <1>3, QuietStep DEF LoginAuthorize, Leaves

LEMMA SessionEndsStep ==
  ASSUME IInv, NEW k \in Tokens, SessionEnds(k)
  PROVE  IInv'
<1>1. sessions' \in [Tokens -> OptAuth] /\ Open' \subseteq Open
      /\ \A j \in Open' : sessions'[j] = sessions[j]
  BY Types DEF IInv, TypeOK, SessionEnds, Open
<1>2. (Cardinality(Open) <= MaxSessions)'
  <2>1. IsFiniteSet(Open)
    BY TokensAssumption, FS_Subset DEF Open
  <2>2. /\ Cardinality(Open) \in Nat /\ Cardinality(Open') \in Nat
        /\ Cardinality(Open') <= Cardinality(Open)
    BY <1>1, <2>1, FS_Subset, FS_CardinalityType
  <2> QED BY <2>2, BoundsAssumption DEF IInv, TypeOK
<1>3. TypeOK'
  BY <1>1, <1>2 DEF IInv, TypeOK, SessionEnds, Leaves
<1>4. Holders' \subseteq Holders \cup vis
  BY <1>1 DEF SessionEnds, Leaves, Holders, Held
<1> QED BY <1>3, <1>4, QuietStep DEF SessionEnds, Leaves

(* The previous session goes first; one is inserted only below the limit. *)
LEMMA LoginInsertStep ==
  ASSUME IInv, LoginInsert
  PROVE  IInv'
<1> DEFINE kept == [k \in Tokens |-> IF k = login.previous THEN None ELSE sessions[k]]
           free == {k \in Tokens : kept[k] = None}
<1>1. \/ Cardinality(Tokens \ free) >= MaxSessions /\ sessions' = kept
      \/ /\ ~(Cardinality(Tokens \ free) >= MaxSessions)
         /\ \E k \in free : sessions' = [kept EXCEPT ![k] = login.auth]
  BY DEF LoginInsert
<1>2. kept \in [Tokens -> OptAuth] /\ login.auth \in OptAuth
  BY Types DEF IInv, TypeOK
<1>3. Tokens \ free \subseteq Open
  BY DEF Open
<1>4. IsFiniteSet(Open) /\ IsFiniteSet(Tokens \ free)
  BY TokensAssumption, FS_Subset DEF Open
<1>5. /\ Cardinality(Open) \in Nat /\ Cardinality(Tokens \ free) \in Nat
      /\ Cardinality(Tokens \ free) <= Cardinality(Open)
  BY <1>3, <1>4, FS_Subset, FS_CardinalityType
<1>6. MaxSessions \in Nat /\ Cardinality(Open) <= MaxSessions
  BY BoundsAssumption DEF IInv, TypeOK
<1>7. /\ sessions' \in [Tokens -> OptAuth] /\ (Cardinality(Open) <= MaxSessions)'
      /\ \A j \in Tokens : sessions'[j] \in {sessions[j], login.auth, None}
  <2>1. CASE sessions' = kept
    <3>1. Open' = Tokens \ free
      BY <2>1 DEF Open
    <3>2. \A j \in Tokens : kept[j] \in {sessions[j], None}
      OBVIOUS
    <3> QED BY <1>2, <1>5, <1>6, <2>1, <3>1, <3>2
  <2>2. ASSUME ~(Cardinality(Tokens \ free) >= MaxSessions),
               NEW k \in free, sessions' = [kept EXCEPT ![k] = login.auth]
        PROVE  <1>7!:
    <3>1. Open' \subseteq (Tokens \ free) \cup {k}
      BY <1>2, <2>2 DEF Open
    <3>2. /\ IsFiniteSet((Tokens \ free) \cup {k})
          /\ Cardinality((Tokens \ free) \cup {k}) = Cardinality(Tokens \ free) + 1
      BY <1>4, <2>2, FS_AddElement
    <3>3. /\ Cardinality(Open') \in Nat
          /\ Cardinality(Open') <= Cardinality((Tokens \ free) \cup {k})
      BY <3>1, <3>2, FS_Subset, FS_CardinalityType
    <3>4. Cardinality(Open') <= MaxSessions
      BY <1>5, <1>6, <2>2, <3>2, <3>3
    <3>5. sessions' \in [Tokens -> OptAuth]
      BY <1>2, <2>2
    <3>6. \A j \in Tokens : sessions'[j] \in {sessions[j], login.auth, None}
      BY <2>2
    <3> QED BY <3>4, <3>5, <3>6
  <2> QED BY <1>1, <2>1, <2>2
<1> HIDE DEF kept, free
<1>8. login' = NoLogin /\ UNCHANGED <<req, console, Leaves>>
  BY DEF LoginInsert
<1>9. TypeOK'
  BY <1>7, <1>8, Types DEF IInv, TypeOK, Leaves
<1>10. Holders' \subseteq Holders \cup vis
  BY <1>7, <1>8, Types DEF Leaves, Holders, Held, Open, IInv
<1> QED BY <1>8, <1>9, <1>10, QuietStep DEF Leaves

LEMMA RequestStep ==
  ASSUME IInv, NEW t \in Threads, NEW k \in Tokens, NEW op \in Ops, NEW u \in Users,
         NEW p \in Passwords, Request(t, k, op, u, p)
  PROVE  IInv'
<1> DEFINE r == [pc |-> "lock", auth |-> sessions[k], op |-> op, user |-> u,
                 password |-> IF op = "remove" THEN None ELSE p, next |-> None]
<1>1. k \in Open /\ req' = [req EXCEPT ![t] = r] /\ sessions[k] \in OptAuth
      /\ requests' \in 0 .. MaxRequests
  BY BoundsAssumption DEF Request, IInv, TypeOK
<1>2. \A s \in Threads : req'[s] = IF s = t THEN r ELSE req[s]
  BY <1>1 DEF IInv, TypeOK
<1>3. TypeOK'
  BY <1>1, <1>2 DEF IInv, TypeOK, Request, Open
<1>4. Holders' \subseteq Holders \cup vis
  BY <1>1, <1>2 DEF Request, Holders, Held, Open
<1> QED BY <1>2, <1>3, <1>4, QuietStep DEF Request

LEMMA ConsoleStep ==
  ASSUME IInv, ConsoleSession \/ \E u \in Users, p \in Passwords : ConsoleLogin(u, p)
  PROVE  IInv'
<1>1. /\ console' \in [pc: {"login", "session"}, auth: OptAuth]
      /\ console'.auth \in {console.auth, None} \cup vis
      /\ UNCHANGED <<sessions, login, req, Leaves>>
  BY Types DEF IInv, TypeOK, ConsoleSession, ConsoleLogin, Authenticate
<1>2. TypeOK'
  BY <1>1 DEF IInv, TypeOK, Leaves, Open
<1>3. Holders' \subseteq Holders \cup vis
  BY <1>1 DEF Leaves, Holders, Held, Open
<1> QED BY <1>1, <1>2, <1>3, QuietStep DEF Leaves

(* Under the lock, with no other writer: the new file is computed from the *)
(* present one, for someone the present one lists.                         *)
LEMMA AccountLockStep ==
  ASSUME IInv, NEW t \in Threads, AccountLock(t)
  PROVE  IInv'
<1> DEFINE outcome == IF Authorized(vis, req[t].auth)
                      THEN Outcome(req[t].op, req[t].user, req[t].password) ELSE {}
<1>1. /\ req[t].pc = "lock" /\ LockFree /\ (req[t].op = "create" => subjects < MaxSubject)
      /\ \/ outcome = {} /\ req' = [req EXCEPT ![t] = NoRequest]
         \/ \E c \in outcome : req' = [req EXCEPT ![t].pc = "write", ![t].next = c]
      /\ Draws(t, outcome # {})
      /\ UNCHANGED <<vis, surv, sessions, login, console, revoked, requests, faults, crashes>>
  BY DEF AccountLock
<1>2. TypeOK
  BY DEF IInv
<1>3. CASE outcome = {} /\ req' = [req EXCEPT ![t] = NoRequest]
  <2>1. subjects' = subjects
    BY <1>1, <1>3 DEF Draws
  <2>2. \A s \in Threads : req'[s] = IF s = t THEN NoRequest ELSE req[s]
    BY <1>2, <1>3 DEF TypeOK
  <2>3. TypeOK'
    BY <1>1, <1>2, <1>3, <2>1, <2>2, Types DEF TypeOK, Open
  <2>4. Holders' \subseteq Holders \cup vis
    BY <1>1, <2>2, Types, <1>2 DEF Holders, Held, Open
  <2>5. \A s \in Threads : req'[s].pc = "write" => req'[s] = req[s]
    BY <1>2, <2>2, Types
  <2> QED BY <1>1, <2>1, <2>3, <2>4, <2>5, QuietStep
<1>4. ASSUME NEW c \in outcome, req' = [req EXCEPT ![t].pc = "write", ![t].next = c]
      PROVE  IInv'
  <2>1. Authorized(vis, req[t].auth) /\ c \in Outcome(req[t].op, req[t].user, req[t].password)
    BY <1>4
  <2>2. /\ c \subseteq Accounts /\ IsFiniteSet(c) /\ c # {} /\ Readable(c)
        /\ Unrevoked(c) /\ Succeeds(vis, c) /\ Proves(c)
        /\ \A h \in Holders : Authorized(c, h) => Authorized(vis, h)
        /\ \A a \in c : a.subject <= subjects'
        /\ subjects' \in Subjects /\ subjects \in Nat /\ subjects <= subjects'
    <3>1. subjects' = IF req[t].op = "create" THEN subjects + 1 ELSE subjects
      BY <1>1, <1>4 DEF Draws
    <3>2. subjects' \in Subjects /\ subjects \in Nat /\ subjects <= subjects'
      BY <1>1, <1>2, <3>1, BoundsAssumption DEF TypeOK, Subjects
    <3>3. CASE req[t].op = "create" /\ \E n : Adds(c, n)
      BY <3>1, <3>2, <3>3, AddsFacts
    <3>4. ASSUME Good(c) PROVE \A a \in c : a.subject <= subjects'
      BY <3>2, <3>4 DEF Good, Accounts, Subjects
    <3>5. CASE \E a, n : Bumps(c, a, n)
      BY <3>2, <3>4, <3>5, BumpsFacts DEF Good
    <3>6. CASE \E a : Drops(c, a)
      BY <3>2, <3>4, <3>6, DropsFacts DEF Good
    <3> QED BY <1>1, <1>2, <2>1, <3>3, <3>5, <3>6, OutcomeShape
  <2>3. /\ \A s \in Threads \ {t} : req'[s] = req[s]
        /\ req'[t].pc = "write" /\ req'[t].next = c /\ req'[t].auth = req[t].auth
    BY <1>2, <1>4 DEF TypeOK
  <2>4. TypeOK'
    <3>1. req[t] \in [pc: {"none", "lock", "write"}, auth: OptAuth, op: Ops \cup {None},
                      user: Users \cup {None}, password: Passwords \cup {None},
                      next: (SUBSET Accounts) \cup {None}]
      BY <1>2 DEF TypeOK
    <3>2. req'[t] = [req[t] EXCEPT !.pc = "write", !.next = c]
      BY <1>2, <1>4 DEF TypeOK
    <3>3. req'[t] \in [pc: {"none", "lock", "write"}, auth: OptAuth, op: Ops \cup {None},
                       user: Users \cup {None}, password: Passwords \cup {None},
                       next: (SUBSET Accounts) \cup {None}]
      BY <2>2, <3>1, <3>2
    <3>4. req' \in [Threads -> [pc: {"none", "lock", "write"}, auth: OptAuth,
                                op: Ops \cup {None}, user: Users \cup {None},
                                password: Passwords \cup {None},
                                next: (SUBSET Accounts) \cup {None}]]
      BY <1>2, <1>4, <2>3, <3>3 DEF TypeOK
    <3> QED BY <1>1, <1>2, <2>2, <2>3, <3>4 DEF TypeOK, Open
  <2>5. Holders' = Holders
    <3>1. \A s \in Threads : req'[s].auth = req[s].auth
      BY <2>3
    <3> QED BY <1>1, <3>1 DEF Holders, Held, Open
  <2>6. \A s \in Threads : req'[s].pc = "write" <=> s = t
    BY <1>1, <2>3 DEF LockFree
  <2>7. FilesInv'
    <3>1. SUFFICES ASSUME NEW d \in surv PROVE (Good(d) /\ Unrevoked(d))'
      BY <1>1 DEF FilesInv
    <3>2. Good(d) /\ Unrevoked(d) /\ d \subseteq Accounts
      BY <1>2 DEF IInv, FilesInv, TypeOK
    <3>3. \A a \in d : a.subject <= subjects'
      BY <2>2, <3>2 DEF Good, Accounts, Subjects
    <3> QED BY <1>1, <3>2, <3>3 DEF Good, Unrevoked
  <2>8. HeldInv'
    <3>1. Proves(vis)'
      BY <1>1, <2>5 DEF IInv, HeldInv, Proves
    <3>2. \A h \in Holders : h.subject <= subjects'
      BY <1>2, <2>2, HoldersTyped DEF IInv, HeldInv, Subjects
    <3> QED BY <2>5, <3>1, <3>2 DEF HeldInv
  <2>9. RevokedInv'
    <3>1. \A r \in revoked : r.subject \in Nat
      BY <1>2 DEF TypeOK, Subjects
    <3> QED BY <1>1, <2>2, <3>1 DEF IInv, RevokedInv, Subjects
  <2>10. Writing(t)'
    <3>1. (Good(req[t].next) /\ Unrevoked(req[t].next) /\ Succeeds(vis, req[t].next))'
      BY <1>1, <2>2, <2>3 DEF Good, Unrevoked, Succeeds
    <3>2. Proves(req[t].next)'
      BY <2>2, <2>3, <2>5 DEF Proves
    <3>3. Authorized(vis, req[t].auth)'
      BY <1>1, <2>1, <2>3 DEF Authorized
    <3>4. (\A h \in Holders : Authorized(req[t].next, h) => Authorized(vis, h))'
      BY <1>1, <2>2, <2>3, <2>5 DEF Authorized
    <3> QED BY <3>1, <3>2, <3>3, <3>4 DEF Writing
  <2> QED BY <2>4, <2>6, <2>7, <2>8, <2>9, <2>10 DEF IInv, WriterInv, LockInv
<1> QED BY <1>1, <1>3, <1>4

(* The one writer replaces the file, or fails with either file surviving. *)
LEMMA WriteStep ==
  ASSUME IInv, NEW t \in Threads, WriteConfiguration(t)
  PROVE  IInv'
<1> DEFINE d == req[t].next
<1>1. TypeOK /\ req[t].pc = "write" /\ Writing(t)
  BY DEF IInv, WriterInv, WriteConfiguration
<1>2. /\ \A s \in Threads : req'[s] = IF s = t THEN NoRequest ELSE req[s]
      /\ req' = [req EXCEPT ![t] = NoRequest]
      /\ UNCHANGED <<subjects, sessions, login, console, requests, crashes>>
  BY <1>1 DEF WriteConfiguration, TypeOK
<1>3. \A s \in Threads : req'[s].pc # "write"
  BY <1>1, <1>2, Types DEF IInv, LockInv
<1>4. /\ vis' \in {vis, d} /\ vis' \in surv' /\ surv' \subseteq surv \cup {d}
      /\ faults' \in 0 .. MaxFaults
      /\ \/ revoked' = revoked
         \/ revoked' = revoked \cup (Credentials(vis) \ Credentials(d)) /\ surv' = {d}
  BY <1>1, BoundsAssumption DEF WriteConfiguration, TypeOK
<1>5. d \subseteq Accounts /\ vis \subseteq Accounts
  BY <1>1 DEF Writing, Good, TypeOK
<1>6. Credentials(vis) \subseteq [subject: Subjects, version: Versions]
  BY <1>5 DEF Credentials, Accounts
<1>7. TypeOK'
  <2>1. /\ vis' \subseteq Accounts /\ surv' \subseteq SUBSET Accounts
        /\ revoked' \subseteq [subject: Subjects, version: Versions]
    BY <1>1, <1>4, <1>5, <1>6 DEF TypeOK
  <2> QED BY <1>1, <1>2, <1>4, <2>1, Types DEF TypeOK, Open
<1>8. Holders' \subseteq Holders
  BY <1>1, <1>2, Types DEF Holders, Held, Open
<1>9. ASSUME revoked' = revoked \cup (Credentials(vis) \ Credentials(d))
      PROVE  \A r \in revoked', b \in d : b.subject = r.subject => r.version < b.version
  <2>1. SUFFICES ASSUME NEW r \in Credentials(vis) \ Credentials(d), NEW b \in d,
                        b.subject = r.subject
                 PROVE  r.version < b.version
    BY <1>1, <1>9 DEF Writing, Unrevoked
  <2>2. PICK a \in vis : r = [subject |-> a.subject, version |-> a.version]
    BY <2>1 DEF Credentials
  <2>3. a.version <= b.version
    BY <1>1, <2>1, <2>2 DEF Writing, Succeeds
  <2>4. a.version # b.version
    BY <2>1, <2>2 DEF Credentials
  <2>5. a.version \in Nat /\ b.version \in Nat
    BY <1>5 DEF Accounts, Versions
  <2> QED BY <2>2, <2>3, <2>4, <2>5
<1>10. FilesInv'
  <2>1. SUFFICES ASSUME NEW c \in surv' PROVE (Good(c) /\ Unrevoked(c))'
    BY DEF FilesInv
  <2>2. Good(c)
    BY <1>1, <1>4, <2>1 DEF IInv, FilesInv, Writing
  <2>3. \A r \in revoked', b \in c : b.subject = r.subject => r.version < b.version
    BY <1>1, <1>4, <1>9, <2>1 DEF IInv, FilesInv, Writing, Unrevoked
  <2> QED BY <1>2, <2>2, <2>3 DEF Good, Unrevoked
<1>11. HeldInv'
  <2>1. Proves(vis) /\ Proves(d)
    BY <1>1 DEF IInv, HeldInv, Writing
  <2>2. Proves(vis)'
    BY <1>4, <1>8, <2>1 DEF Proves
  <2> QED BY <1>2, <1>8, <2>2 DEF IInv, HeldInv
<1>12. RevokedInv'
  <2>1. \A r \in Credentials(vis) : r.subject <= subjects
    BY <1>1 DEF IInv, FilesInv, Good, Credentials, TypeOK
  <2> QED BY <1>2, <1>4, <2>1 DEF IInv, RevokedInv
<1> QED BY <1>3, <1>7, <1>10, <1>11, <1>12 DEF IInv, WriterInv, LockInv

(* After the end of the UI only the console holds a credential. *)
LEMMA UiGoneFacts ==
  ASSUME TypeOK, UiGone
  PROVE  /\ sessions' \in [Tokens -> OptAuth] /\ (Cardinality(Open) <= MaxSessions)'
         /\ login' = NoLogin /\ crashes' \in 0 .. MaxCrashes
         /\ req' \in [Threads -> {NoRequest}]
         /\ Holders' = {console'.auth} \ {None}
<1>1. /\ sessions' = [k \in Tokens |-> None] /\ login' = NoLogin
      /\ req' = [t \in Threads |-> NoRequest]
  BY DEF UiGone
<1>2. Open' = {}
  BY <1>1 DEF Open
<1>3. (Cardinality(Open) <= MaxSessions)'
  BY <1>2, FS_EmptySet, BoundsAssumption
<1>4. crashes' \in 0 .. MaxCrashes
  BY BoundsAssumption DEF UiGone, TypeOK
<1>5. Holders' = {console'.auth} \ {None}
  BY <1>1, <1>2, Types DEF Holders, Held
<1> QED BY <1>1, <1>3, <1>4, <1>5, Types

LEMMA UiEndsStep ==
  ASSUME IInv, UiEnds
  PROVE  IInv'
<1>1. TypeOK /\ UiGone /\ UNCHANGED <<vis, surv, subjects, console, revoked, requests, faults>>
  BY DEF IInv, UiEnds
<1>2. TypeOK'
  BY <1>1, UiGoneFacts, Types DEF TypeOK
<1>3. Holders' \subseteq Holders \cup vis
  BY <1>1, UiGoneFacts DEF Holders, Held
<1>4. \A t \in Threads : req'[t].pc = "write" => req'[t] = req[t]
  BY <1>1, UiGoneFacts, Types
<1> QED BY <1>1, <1>2, <1>3, <1>4, QuietStep

LEMMA PowerLossStep ==
  ASSUME IInv, PowerLoss
  PROVE  IInv'
<1>1. /\ TypeOK /\ UiGone /\ vis' \in surv /\ surv' = {vis'} /\ console' = NoConsole
      /\ UNCHANGED <<subjects, revoked, requests, faults>>
  BY DEF IInv, PowerLoss
<1>2. Holders' = {}
  BY <1>1, UiGoneFacts, Types
<1>3. TypeOK'
  BY <1>1, UiGoneFacts, Types DEF TypeOK
<1>4. \A t \in Threads : req'[t].pc # "write"
  BY <1>1, UiGoneFacts, Types
<1>5. FilesInv'
  BY <1>1 DEF IInv, FilesInv, Good, Unrevoked
<1>6. HeldInv' /\ RevokedInv'
  BY <1>1, <1>2 DEF IInv, HeldInv, Proves, RevokedInv
<1> QED BY <1>3, <1>4, <1>5, <1>6 DEF IInv, WriterInv, LockInv

-----------------------------------------------------------------------------
(* Theorems.                                                               *)

LEMMA InitIInv == Init => IInv
<1> SUFFICES ASSUME Init PROVE IInv
  OBVIOUS
<1>1. PICK u \in Users, p \in Passwords :
        vis = {[user |-> u, subject |-> 1, password |-> p, version |-> 1]}
  BY DEF Init
<1> DEFINE a == [user |-> u, subject |-> 1, password |-> p, version |-> 1]
<1>2. a \in Accounts /\ vis = {a} /\ a.subject = 1
  BY <1>1, BoundsAssumption DEF Accounts, Subjects, Versions
<1>3. Open = {} /\ Held \subseteq {None}
  BY DEF Init, Open, Held, NoLogin, NoRequest, NoConsole
<1>4. Cardinality(Open) <= MaxSessions
  BY <1>3, FS_EmptySet, BoundsAssumption
<1>5. TypeOK
  BY <1>2, <1>4, BoundsAssumption
     DEF Init, TypeOK, Subjects, NoLogin, NoRequest, NoConsole, OptAuth
<1>6. Good(vis)
  <2>1. IsFiniteSet(vis)
    BY <1>2, FS_Singleton
  <2>2. \A b \in vis : b.subject <= subjects
    BY <1>1 DEF Init
  <2> QED BY <1>2, <2>1, <2>2 DEF Good, Readable
<1>7. FilesInv /\ HeldInv /\ RevokedInv
  BY <1>3, <1>6 DEF Init, FilesInv, Unrevoked, HeldInv, Proves, Holders, RevokedInv
<1>8. WriterInv /\ LockInv
  BY DEF Init, WriterInv, LockInv, NoRequest
<1> QED BY <1>5, <1>7, <1>8 DEF IInv

LEMMA NextIInv == IInv /\ [Next]_vars => IInv'
<1> SUFFICES ASSUME IInv, [Next]_vars PROVE IInv'
  OBVIOUS
<1>1. CASE UNCHANGED vars
  <2>1. TypeOK'
    BY <1>1 DEF vars, IInv, TypeOK, Open
  <2>2. Holders' \subseteq Holders \cup vis
    BY <1>1 DEF vars, Holders, Held, Open
  <2> QED BY <1>1, <2>1, <2>2, QuietStep DEF vars
<1>2. CASE \E u \in Users, p \in Passwords :
             \/ \E k \in Open \cup {None} : Login(u, p, k)
             \/ ConsoleLogin(u, p)
             \/ \E t \in Threads, k \in Tokens, op \in Ops : Request(t, k, op, u, p)
  BY <1>2, LoginStep, ConsoleStep, RequestStep
<1>3. CASE LoginAuthorize \/ LoginInsert
  BY <1>3, LoginAuthorizeStep, LoginInsertStep
<1>4. CASE \E k \in Tokens : SessionEnds(k)
  BY <1>4, SessionEndsStep
<1>5. CASE \E t \in Threads : AccountLock(t) \/ WriteConfiguration(t)
  BY <1>5, AccountLockStep, WriteStep
<1>6. CASE ConsoleSession
  BY <1>6, ConsoleStep
<1>7. CASE UiEnds \/ PowerLoss
  BY <1>7, UiEndsStep, PowerLossStep
<1> QED BY <1>1, <1>2, <1>3, <1>4, <1>5, <1>6, <1>7 DEF Next

LEMMA Inductive == Spec => []IInv
BY InitIInv, NextIInv, PTL DEF Spec

(* Every variable keeps its type and the session table its limit, for any  *)
(* number of threads, users and tokens.                                    *)
THEOREM TypeCorrect == Spec => []TypeOK
<1>1. IInv => TypeOK
  BY DEF IInv
<1> QED BY <1>1, Inductive, PTL

(* Every file a power loss can leave is accepted by                        *)
(* IdentityConfiguration::read and names an administrator, whoever removes *)
(* whom at the same time.                                                  *)
THEOREM AdministratorsRemain == Spec => []AdministratorRemains
<1>1. IInv => AdministratorRemains
  BY DEF IInv, FilesInv, Good, AdministratorRemains
<1> QED BY <1>1, Inductive, PTL

(* No credential whose end was acknowledged is in any file that may        *)
(* survive: credential versions only grow and subjects are not reused.     *)
THEOREM RevocationsLast == Spec => []RevocationLasts
<1>1. IInv => RevocationLasts
  <2> SUFFICES ASSUME IInv, NEW c \in surv, NEW a \in c,
                      [subject |-> a.subject, version |-> a.version] \in revoked
               PROVE  FALSE
    BY DEF RevocationLasts, Credentials
  <2>1. a.version \in Nat
    BY DEF IInv, TypeOK, Accounts, Versions
  <2>2. a.version < a.version
    BY DEF IInv, FilesInv, Unrevoked
  <2> QED BY <2>1, <2>2
<1> QED BY <1>1, Inductive, PTL

(* Whatever authorized_in lets pass for a session, a login, a request or   *)
(* the console was authenticated with the password the account has now.    *)
THEOREM SessionsProvePasswords == Spec => []SessionProvesPassword
<1>1. IInv => SessionProvesPassword
  BY DEF IInv, HeldInv, Proves, Holders, SessionProvesPassword, Authorized
<1> QED BY <1>1, Inductive, PTL

(* A credential that authorized_in refuses while it is held is refused as  *)
(* long as it is held, also when an account of that name is created again. *)
THEOREM RefusalsLast == Spec => RefusedForGood
<1>1. IInv /\ [Next]_vars =>
        [\A h \in (Held \cap Held') \ {None} : ~Authorized(vis, h) => ~Authorized(vis', h)]_vars
  <2> SUFFICES ASSUME IInv, [Next]_vars, NEW h \in (Held \cap Held') \ {None}, Authorized(vis', h)
               PROVE  Authorized(vis, h)
    OBVIOUS
  <2>1. CASE vis' = vis
    BY <2>1
  <2>2. CASE vis' # vis /\ PowerLoss
    <3>1. Holders' = {}
      BY <2>2, UiGoneFacts, Types DEF PowerLoss, IInv
    <3> QED BY <3>1 DEF Holders
  <2>3. ASSUME NEW t \in Threads, WriteConfiguration(t), vis' # vis PROVE Authorized(vis, h)
    <3>1. Writing(t) /\ vis' = req[t].next
      BY <2>3 DEF IInv, WriterInv, WriteConfiguration
    <3> QED BY <3>1 DEF Writing, Holders
  <2>4. vis' # vis => PowerLoss \/ \E t \in Threads : WriteConfiguration(t)
    BY DEF Next, vars, Login, ConsoleLogin, Request, LoginAuthorize, LoginInsert, SessionEnds,
           AccountLock, ConsoleSession, UiEnds, Leaves
  <2> QED BY <2>1, <2>2, <2>3, <2>4
<1> QED BY <1>1, Inductive, PTL DEF Spec, RefusedForGood

(* A write replaces accounts only for someone they list as administrator,  *)
(* although the request was let in before the lock was taken.              *)
THEOREM AdministratorsChange == Spec => ChangedByAdministrator
<1>1. IInv /\ [Next]_vars =>
        [vis' # vis => crashes' # crashes \/
           \E t \in Threads : req[t].pc = "write" /\ req'[t].pc = "none" /\ vis' = req[t].next
                              /\ Authorized(vis, req[t].auth)]_vars
  <2> SUFFICES ASSUME IInv, [Next]_vars, vis' # vis
               PROVE  crashes' # crashes \/
                      \E t \in Threads : /\ req[t].pc = "write" /\ req'[t].pc = "none"
                                         /\ vis' = req[t].next /\ Authorized(vis, req[t].auth)
    OBVIOUS
  <2>1. CASE PowerLoss
    BY <2>1 DEF PowerLoss, UiGone, IInv, TypeOK
  <2>2. ASSUME NEW t \in Threads, WriteConfiguration(t)
        PROVE  /\ req[t].pc = "write" /\ req'[t].pc = "none"
               /\ vis' = req[t].next /\ Authorized(vis, req[t].auth)
    BY <2>2 DEF IInv, WriterInv, Writing, WriteConfiguration, TypeOK, NoRequest
  <2>3. PowerLoss \/ \E t \in Threads : WriteConfiguration(t)
    BY DEF Next, vars, Login, ConsoleLogin, Request, LoginAuthorize, LoginInsert, SessionEnds,
           AccountLock, ConsoleSession, UiEnds, Leaves
  <2> QED BY <2>1, <2>2, <2>3
<1> QED BY <1>1, Inductive, PTL DEF Spec, ChangedByAdministrator
=============================================================================
