----------------------------- MODULE DraftsProofs -----------------------------
(***************************************************************************)
(* Proofs about Drafts: whatever the networks, sections, administrators    *)
(* and bounds, no version of a Draft is applied twice, one that was        *)
(* applied is known by its receipt for as long as the Draft exists, none   *)
(* disappears that was not applied, and no apply undoes what others had    *)
(* accepted before it.                                                     *)
(***************************************************************************)
EXTENDS Drafts, SectionsProofs

(* The requests netd has, waiting or being carried out. *)
Requests == ToSet(queue) \cup (IF op = None THEN {} ELSE {op.req})

(* Every Draft and every Draft apply: its owner, base and version. *)
OfDraft(a) == <<a, draft[a].base, draft[a].version>>
OfRequest(r) == <<r.who, r.base, r.version>>
Carried ==
  {OfDraft(a) : a \in {x \in Admins : draft[x] # None}}
  \cup {OfRequest(r) : r \in {q \in Requests : q.version # None}}

IsRequest(r) == DOMAIN r = {"who", "base", "net", "version", "about", "clean", "live"}
IsHandler(h) == DOMAIN h = {"pc", "snap", "clean", "reply"}

Opening == {"stable", "receipt", "ready"}

(* The variables as far as their records matter here. *)
Shape ==
  /\ acc.rev \in Nat /\ file.rev \in {acc.rev, acc.rev + 1} /\ tokens \in Nat
  /\ DOMAIN draft = Admins /\ DOMAIN receipts = Admins /\ DOMAIN ui = Admins
  /\ \A a \in Admins : /\ draft[a] # None => draft[a].base \in Nat
                       /\ IsHandler(ui[a])
                       /\ ui[a].pc \in Opening => ui[a].snap.rev \in Nat
  /\ queue \in Seq(ToSet(queue))
  /\ op # None => DOMAIN op = {"phase", "req"} /\ op.req.base = acc.rev
  /\ \A r \in Requests : IsRequest(r) /\ r.who \in Admins /\ r.base \in Nat

(* A version names one Draft content and base; once accepted, its base is  *)
(* behind netd's revision for good.                                        *)
VersionInv ==
  /\ \A c \in Carried : c[2] \in Nat /\ c[3] \in 1..tokens
  /\ \A c, d \in Carried : c[3] = d[3] => c = d
  /\ \A c \in Carried : c[3] \in ToSet(applied) => c[2] < acc.rev

AppliedInv ==
  /\ applied \in Seq(Nat)
  /\ \A v \in ToSet(applied) : v \in 1..tokens
  /\ AppliedOnce

(* No request is ahead of netd, of its owner's Draft, or of the snapshot   *)
(* its owner's handler has read.                                           *)
BehindInv ==
  \A r \in Requests :
    /\ r.base <= acc.rev
    /\ draft[r.who] # None => r.base <= draft[r.who].base
    /\ ui[r.who].pc \in Opening => r.base <= ui[r.who].snap.rev

IInv == Shape /\ VersionInv /\ AppliedInv /\ BehindInv /\ AcceptedRecognised

--------------------------------------------------------------------------
(* Sequences. *)

(* A sequence is one over its own elements. *)
LEMMA OwnElements ==
  ASSUME NEW S, NEW s \in Seq(S)
  PROVE  s \in Seq(ToSet(s))
<1>1. Len(s) \in Nat /\ DOMAIN s = 1..Len(s) /\ s = [i \in 1..Len(s) |-> s[i]]
  OBVIOUS
<1>2. \A i \in 1..Len(s) : s[i] \in ToSet(s)
  BY <1>1 DEF ToSet
<1>3. [i \in 1..Len(s) |-> s[i]] \in [1..Len(s) -> ToSet(s)]
  BY <1>2
<1>4. s \in [1..Len(s) -> ToSet(s)]
  BY <1>1, <1>3
<1> QED BY <1>1, <1>4

(* A request added to the backlog. *)
LEMMA AppendSet ==
  ASSUME NEW s, s \in Seq(ToSet(s)), NEW x
  PROVE  /\ Append(s, x) \in Seq(ToSet(Append(s, x)))
         /\ ToSet(Append(s, x)) = ToSet(s) \cup {x}
<1> DEFINE S == ToSet(s) \cup {x}
<1>1. s \in Seq(S) /\ Append(s, x) \in Seq(S)
  OBVIOUS
<1>2. /\ Len(s) \in Nat /\ DOMAIN s = 1..Len(s)
      /\ DOMAIN Append(s, x) = 1..(Len(s) + 1)
      /\ \A i \in 1..Len(s) : Append(s, x)[i] = s[i]
      /\ Append(s, x)[Len(s) + 1] = x
  BY <1>1
<1>3. ToSet(Append(s, x)) = S
  BY <1>2 DEF ToSet
<1> QED BY <1>1, <1>3

(* The backlog after its first request was taken. *)
LEMMA TailSet ==
  ASSUME NEW s, s \in Seq(ToSet(s)), s # <<>>
  PROVE  /\ Tail(s) \in Seq(ToSet(Tail(s)))
         /\ ToSet(Tail(s)) \subseteq ToSet(s)
         /\ Head(s) \in ToSet(s)
<1>1. /\ Len(s) \in Nat \ {0} /\ DOMAIN s = 1..Len(s)
      /\ Tail(s) \in Seq(ToSet(s)) /\ Len(Tail(s)) = Len(s) - 1
      /\ \A i \in 1..(Len(s) - 1) : Tail(s)[i] = s[i + 1]
      /\ Head(s) = s[1]
  OBVIOUS
<1>2. DOMAIN Tail(s) = 1..(Len(s) - 1)
  BY <1>1
<1>3. ToSet(Tail(s)) \subseteq ToSet(s) /\ Head(s) \in ToSet(s)
  BY <1>1, <1>2 DEF ToSet
<1>4. Tail(s) \in Seq(ToSet(Tail(s)))
  BY <1>1, OwnElements
<1> QED BY <1>3, <1>4

(* The backlog when an administrator has stopped waiting. *)
LEMMA AbandonedSet ==
  ASSUME NEW s, s \in Seq(ToSet(s)), NEW a
  PROVE  LET t == [k \in DOMAIN s |-> Abandoned(s[k], a)]
         IN t \in Seq(ToSet(t)) /\ ToSet(t) = {Abandoned(x, a) : x \in ToSet(s)}
<1> DEFINE t == [k \in DOMAIN s |-> Abandoned(s[k], a)]
<1>1. Len(s) \in Nat /\ DOMAIN s = 1..Len(s)
  OBVIOUS
<1>2. ToSet(t) = {Abandoned(x, a) : x \in ToSet(s)}
  BY DEF ToSet
<1>3. t \in [1..Len(s) -> ToSet(t)]
  BY <1>1 DEF ToSet
<1> QED BY <1>1, <1>2, <1>3

--------------------------------------------------------------------------
(* The shapes of steps. *)

SameContent(r, q) ==
  /\ r.who = q.who /\ r.base = q.base /\ r.version = q.version
  /\ r.net = q.net /\ r.about = q.about /\ r.clean = q.clean

(* No request is new; some may be gone, or have nobody waiting any more. *)
Fewer ==
  /\ queue' \in Seq(ToSet(queue'))
  /\ \A r \in Requests' :
       /\ IsRequest(r)
       /\ \E q \in Requests : SameContent(r, q)

(* No handler has read anything new, and no Draft was written. *)
UiQuiet ==
  /\ DOMAIN ui' = Admins
  /\ \A a \in Admins :
       /\ IsHandler(ui'[a])
       /\ ui'[a].pc \in Opening => /\ ui[a].pc \in Opening
                                  /\ ui'[a].snap = ui[a].snap /\ ui'[a].clean = ui[a].clean

DraftsQuiet ==
  /\ DOMAIN draft' = Admins
  /\ \A a \in Admins : draft'[a] # None => draft'[a] = draft[a]

Quiet == Fewer /\ UiQuiet /\ DraftsQuiet

LEMMA SameDrafts ==
  ASSUME Shape, UNCHANGED draft
  PROVE  DraftsQuiet
BY DEF Shape, DraftsQuiet

LEMMA CarriedFewer ==
  ASSUME Shape, Fewer, DraftsQuiet
  PROVE  Carried' \subseteq Carried
<1> SUFFICES ASSUME NEW c \in Carried' PROVE c \in Carried
  OBVIOUS
<1>1. CASE \E a \in Admins : draft'[a] # None /\ c = <<a, draft'[a].base, draft'[a].version>>
  BY <1>1 DEF DraftsQuiet, Carried, OfDraft
<1>2. CASE \E r \in Requests' : r.version # None /\ c = OfRequest(r)
  BY <1>2 DEF Fewer, SameContent, Carried, OfRequest
<1> QED BY <1>1, <1>2 DEF Carried, OfDraft

(* The three facts about versions, when none is new. *)
LEMMA VersionsKept ==
  ASSUME VersionInv, AppliedInv, Carried' \subseteq Carried,
         applied' = applied, tokens' = tokens, acc' = acc
  PROVE  VersionInv' /\ AppliedInv'
BY DEF VersionInv, AppliedInv, AppliedOnce

(* A step that adds no request, reads nothing and writes no Draft. *)
LEMMA QuietStep ==
  ASSUME IInv, Fewer, UiQuiet, DraftsQuiet,
         UNCHANGED <<acc, receipts, tokens, applied>>,
         file'.rev \in {acc.rev, acc.rev + 1},
         op' # None => DOMAIN op' = {"phase", "req"} /\ op'.req.base = acc.rev
  PROVE  IInv' /\ Quiet
<1>1. VersionInv' /\ AppliedInv'
  BY CarriedFewer, VersionsKept DEF IInv
<1>2. Shape'
  <2>1. \A r \in Requests' : IsRequest(r) /\ r.who \in Admins /\ r.base \in Nat
    BY DEF IInv, Shape, Fewer, SameContent
  <2>2. \A a \in Admins : /\ draft'[a] # None => draft'[a].base \in Nat
                          /\ IsHandler(ui'[a])
                          /\ ui'[a].pc \in Opening => ui'[a].snap.rev \in Nat
    BY DEF IInv, Shape, UiQuiet, DraftsQuiet
  <2> QED BY <2>1, <2>2 DEF IInv, Shape, Fewer, UiQuiet, DraftsQuiet
<1>3. BehindInv'
  <2> SUFFICES ASSUME NEW r \in Requests'
               PROVE  /\ r.base <= acc'.rev
                      /\ draft'[r.who] # None => r.base <= draft'[r.who].base
                      /\ ui'[r.who].pc \in Opening => r.base <= ui'[r.who].snap.rev
    BY DEF BehindInv
  <2>1. PICK q \in Requests : r.who = q.who /\ r.base = q.base
    BY DEF Fewer, SameContent
  <2> QED BY <2>1 DEF IInv, Shape, BehindInv, UiQuiet, DraftsQuiet
<1>4. AcceptedRecognised'
  BY DEF IInv, AcceptedRecognised, DraftsQuiet
<1> QED BY <1>1, <1>2, <1>3, <1>4 DEF IInv, Quiet

(* A step that writes one Draft under a new version, not behind any request *)
(* of its owner.                                                            *)
LEMMA WriteStep ==
  ASSUME IInv, NEW a \in Admins, NEW d,
         d.base \in Nat, d.version = tokens + 1,
         \A r \in Requests : r.who = a => r.base <= d.base,
         draft' = [draft EXCEPT ![a] = d], tokens' = tokens + 1,
         UiQuiet, UNCHANGED <<netdVars, queue>>
  PROVE  IInv'
<1>1. Requests' = Requests
  BY DEF Requests, netdVars
<1>2. Carried' \subseteq Carried \cup {<<a, d.base, tokens + 1>>}
  <2> SUFFICES ASSUME NEW c \in Carried'
               PROVE  c \in Carried \cup {<<a, d.base, tokens + 1>>}
    OBVIOUS
  <2>1. CASE \E b \in Admins : draft'[b] # None /\ c = <<b, draft'[b].base, draft'[b].version>>
    BY <2>1 DEF Carried, OfDraft, IInv, Shape
  <2>2. CASE \E r \in Requests : r.version # None /\ c = OfRequest(r)
    BY <2>2 DEF Carried
  <2> QED BY <2>1, <2>2, <1>1 DEF Carried, OfDraft, OfRequest
<1> DEFINE n == <<a, d.base, tokens + 1>>
<1>3. VersionInv'
  <2>1. /\ n[2] \in Nat /\ n[3] = tokens + 1 /\ tokens \in Nat
        /\ \A c \in Carried : c[3] \in 1..tokens /\ c[3] # n[3]
    BY DEF IInv, Shape, VersionInv
  <2>2. n[3] \notin ToSet(applied)
    BY <2>1 DEF IInv, AppliedInv
  <2>3. \A c \in Carried \cup {n} : c[2] \in Nat /\ c[3] \in 1..(tokens + 1)
    BY <2>1 DEF IInv, VersionInv
  <2>4. \A c, e \in Carried \cup {n} : c[3] = e[3] => c = e
    BY <2>1 DEF IInv, VersionInv
  <2>5. \A c \in Carried \cup {n} : c[3] \in ToSet(applied) => c[2] < acc.rev
    BY <2>2 DEF IInv, VersionInv
  <2> QED BY <1>2, <2>3, <2>4, <2>5 DEF VersionInv, netdVars
<1>4. AppliedInv'
  BY DEF IInv, Shape, AppliedInv, AppliedOnce, netdVars
<1>5. Shape'
  BY <1>1 DEF IInv, Shape, UiQuiet, netdVars
<1>6. BehindInv'
  BY <1>1 DEF IInv, Shape, BehindInv, UiQuiet, netdVars
<1>7. AcceptedRecognised'
  <2>1. tokens + 1 \notin ToSet(applied)
    BY DEF IInv, Shape, AppliedInv
  <2> QED BY <2>1 DEF IInv, Shape, AcceptedRecognised, netdVars
<1> QED BY <1>3, <1>4, <1>5, <1>6, <1>7 DEF IInv

(* A step that puts one request into the backlog: that of the Draft, or one *)
(* without a version.                                                       *)
LEMMA SendStep ==
  ASSUME IInv, NEW a \in Admins, NEW req,
         IsRequest(req), req.who = a, req.base = acc.rev,
         \/ draft[a] = None /\ req.version = None
         \/ draft[a] # None /\ req.base = draft[a].base /\ req.version = draft[a].version,
         queue' = Append(queue, req),
         ui' = [ui EXCEPT ![a] = [Idle EXCEPT !.pc = "wait"]],
         tokens' \in {tokens, tokens + 1},
         UNCHANGED <<netdVars, draft>>
  PROVE  IInv'
<1>1. queue' \in Seq(ToSet(queue')) /\ Requests' = Requests \cup {req}
  BY AppendSet DEF IInv, Shape, Requests, netdVars
<1>2. Carried' \subseteq Carried
  BY <1>1 DEF Carried, OfDraft, OfRequest
<1>3. VersionInv' /\ AppliedInv'
  BY <1>2 DEF IInv, Shape, VersionInv, AppliedInv, AppliedOnce, netdVars
<1>4. /\ DOMAIN ui' = Admins /\ ~ ui'[a].pc \in Opening
      /\ \A b \in Admins : IsHandler(ui'[b]) /\ (b # a => ui'[b] = ui[b])
  BY DEF IInv, Shape, Idle, IsHandler, Opening
<1>5. Shape'
  <2>1. \A r \in Requests' : IsRequest(r) /\ r.who \in Admins /\ r.base \in Nat
    BY <1>1 DEF IInv, Shape
  <2>2. acc'.rev \in Nat /\ file'.rev \in {acc'.rev, acc'.rev + 1} /\ tokens' \in Nat
    BY DEF IInv, Shape, netdVars
  <2> QED BY <2>1, <2>2, <1>1, <1>4 DEF IInv, Shape, netdVars
<1>6. BehindInv'
  BY <1>1, <1>4 DEF IInv, Shape, BehindInv, netdVars
<1>7. AcceptedRecognised'
  BY DEF IInv, AcceptedRecognised, netdVars
<1> QED BY <1>3, <1>5, <1>6, <1>7 DEF IInv

(* netd accepts the request it carries out. *)
LEMMA AcceptStep ==
  ASSUME IInv, op # None, Accept, UiQuiet, UNCHANGED <<queue, draft, tokens>>
  PROVE  IInv' /\ Quiet
<1> DEFINE v == op.req.version
<1>1. op.req \in Requests /\ op.req.base = acc.rev /\ op.req.who \in Admins
  BY DEF IInv, Shape, Requests
<1>2. acc'.rev = acc.rev + 1 /\ file'.rev = acc.rev + 1 /\ op' = None
  BY DEF Accept, Proposed
<1>3. Requests' \subseteq Requests
  BY <1>2 DEF Requests
<1>4. Carried' \subseteq Carried
  BY <1>3 DEF Carried, OfDraft, OfRequest
<1>5. v # None => /\ <<op.req.who, acc.rev, v>> \in Carried
                  /\ v \in 1..tokens /\ v \notin ToSet(applied)
  <2> SUFFICES ASSUME v # None
               PROVE  /\ <<op.req.who, acc.rev, v>> \in Carried
                      /\ v \in 1..tokens /\ v \notin ToSet(applied)
    OBVIOUS
  <2>1. <<op.req.who, acc.rev, v>> \in Carried
    BY <1>1 DEF Carried, OfRequest
  <2> QED BY <2>1 DEF IInv, Shape, VersionInv
<1>6. /\ v = None => applied' = applied
      /\ v # None => applied' = Append(applied, v) /\ ToSet(applied') = ToSet(applied) \cup {v}
  <2>1. applied \in Seq(ToSet(applied))
    BY OwnElements DEF IInv, AppliedInv
  <2> QED BY <2>1, AppendSet DEF Accept
<1>7. VersionInv'
  <2>1. \A c \in Carried : c[3] \in ToSet(applied') => c[2] < acc'.rev
    <3> SUFFICES ASSUME NEW c \in Carried, c[3] \in ToSet(applied')
                 PROVE  c[2] < acc.rev + 1
      BY <1>2
    <3>1. c[2] \in Nat /\ acc.rev \in Nat
      BY DEF IInv, Shape, VersionInv
    <3>2. CASE c[3] \in ToSet(applied)
      BY <3>1, <3>2 DEF IInv, VersionInv
    <3>3. CASE v # None /\ c[3] = v
      <4>1. c = <<op.req.who, acc.rev, v>>
        BY <1>5, <3>3 DEF IInv, VersionInv
      <4> QED BY <3>1, <4>1
    <3> QED BY <3>2, <3>3, <1>6
  <2> QED BY <2>1, <1>4 DEF IInv, VersionInv
<1>8. AppliedInv'
  <2>1. CASE v = None
    BY <1>6, <2>1 DEF IInv, AppliedInv, AppliedOnce
  <2>2. CASE v # None
    <3>1. applied \in Seq(Nat) /\ v \in Nat /\ applied' \in Seq(Nat)
      <4>1. applied \in Seq(Nat) /\ v \in Nat
        BY <1>5, <2>2 DEF IInv, Shape, AppliedInv
      <4> QED BY <4>1, <1>6, <2>2
    <3>2. \A u \in ToSet(applied') : u \in 1..tokens'
      BY <1>5, <1>6, <2>2 DEF IInv, AppliedInv
    <3>3. IsInjective(applied')
      <4>1. /\ Len(applied) \in Nat /\ DOMAIN applied = 1..Len(applied)
            /\ DOMAIN applied' = 1..(Len(applied) + 1)
            /\ \A i \in 1..Len(applied) : applied'[i] = applied[i]
            /\ applied'[Len(applied) + 1] = v
        BY <3>1, <1>6, <2>2
      <4>2. \A i \in 1..Len(applied) : applied[i] # v
        BY <4>1, <1>5, <2>2 DEF ToSet
      <4>3. \A i, j \in 1..Len(applied) : applied[i] = applied[j] => i = j
        BY <4>1 DEF IInv, AppliedInv, AppliedOnce, IsInjective
      <4> QED BY <4>1, <4>2, <4>3 DEF IsInjective
    <3> QED BY <3>1, <3>2, <3>3 DEF AppliedInv, AppliedOnce
  <2> QED BY <2>1, <2>2
<1>9. Shape'
  <2>1. DOMAIN receipts' = Admins
    BY DEF Accept, accepted_draft_receipts, IInv, Shape
  <2> QED BY <2>1, <1>2, <1>3 DEF IInv, Shape, UiQuiet
<1>10. BehindInv'
  BY <1>2, <1>3 DEF IInv, Shape, BehindInv, UiQuiet
<1>11. AcceptedRecognised'
  <2> SUFFICES ASSUME NEW a \in Admins, draft[a] # None,
                      draft[a].version \in ToSet(applied')
               PROVE  receipts'[a] = draft[a].version
    BY DEF AcceptedRecognised
  <2>1. OfDraft(a) \in Carried
    BY DEF Carried
  <2>2. CASE v = None
    BY <1>6, <2>2 DEF IInv, AcceptedRecognised, Accept, accepted_draft_receipts
  <2>3. CASE v # None /\ draft[a].version = v
    <3>1. OfDraft(a) = <<op.req.who, acc.rev, v>>
      BY <1>5, <2>1, <2>3 DEF IInv, VersionInv, OfDraft
    <3>2. a = op.req.who
      BY <3>1 DEF OfDraft
    <3> QED BY <2>3, <3>2 DEF Accept, accepted_draft_receipts, IInv, Shape
  <2>4. CASE v # None /\ draft[a].version # v
    <3>1. draft[a].version \in ToSet(applied) /\ receipts[a] = draft[a].version
      BY <1>6, <2>4 DEF IInv, AcceptedRecognised
    <3>2. draft[a].base < acc.rev
      BY <2>1, <3>1 DEF IInv, VersionInv, OfDraft
    <3>3. op.req.who = a => acc.rev <= draft[a].base
      BY <1>1 DEF IInv, BehindInv
    <3>4. op.req.who # a
      BY <3>2, <3>3 DEF IInv, Shape
    <3> QED BY <2>4, <3>1, <3>4 DEF Accept, accepted_draft_receipts, IInv, Shape
  <2> QED BY <2>2, <2>3, <2>4
<1>12. Fewer /\ DraftsQuiet
  BY <1>3, SameDrafts DEF IInv, Shape, Fewer, SameContent
<1> QED BY <1>7, <1>8, <1>9, <1>10, <1>11, <1>12 DEF IInv, Quiet

--------------------------------------------------------------------------
(* netd's steps. *)

(* An answer changes neither where a handler is nor what it has read. *)
LEMMA ReplyQuiet ==
  ASSUME Shape, NEW r, NEW outcome, Reply(r, outcome) \/ UNCHANGED ui
  PROVE  UiQuiet
BY DEF Shape, Reply, UiQuiet, IsHandler

(* The request netd carries out stays the same but for who waits for it. *)
SameRequest(r, q) == IsRequest(r) /\ SameContent(r, q)

LEMMA OpKept ==
  ASSUME Shape, op # None, UNCHANGED queue,
         op' # None => SameRequest(op'.req, op.req)
  PROVE  Fewer
BY DEF Shape, Fewer, Requests, SameRequest, SameContent

LEMMA RequestTaken ==
  ASSUME IInv, apply_desired_request
  PROVE  IInv' /\ Quiet
<1>1. /\ queue' \in Seq(ToSet(queue')) /\ ToSet(queue') \subseteq ToSet(queue)
      /\ Head(queue) \in ToSet(queue)
  BY TailSet DEF apply_desired_request, IInv, Shape
<1>2. Requests' \subseteq Requests
  BY <1>1 DEF apply_desired_request, Requests
<1>3. Fewer
  BY <1>1, <1>2 DEF Fewer, SameContent, IInv, Shape
<1>4. UiQuiet
  BY ReplyQuiet DEF apply_desired_request, IInv
<1>5. op' # None => DOMAIN op' = {"phase", "req"} /\ op'.req.base = acc.rev
  BY DEF apply_desired_request, IInv, Shape
<1>6. /\ UNCHANGED <<acc, receipts, tokens, applied>>
      /\ file'.rev \in {acc.rev, acc.rev + 1} /\ DraftsQuiet
  BY SameDrafts DEF apply_desired_request, IInv, Shape
<1> QED BY <1>3, <1>4, <1>5, <1>6, QuietStep

LEMMA Programmed ==
  ASSUME IInv, ProgramProposed
  PROVE  IInv' /\ Quiet
<1>1. /\ op # None /\ DOMAIN op = {"phase", "req"} /\ IsRequest(op.req)
      /\ op.req.base = acc.rev
  BY DEF ProgramProposed, IInv, Shape, Requests
<1>2. DOMAIN op' = {"phase", "req"} /\ SameRequest(op'.req, op.req)
  <2>1. CASE op' = [op EXCEPT !.phase = "pending", !.req.live = FALSE]
    <3>1. DOMAIN op' = {"phase", "req"} /\ op'.req = [op.req EXCEPT !.live = FALSE]
      BY <1>1, <2>1
    <3> QED BY <1>1, <3>1 DEF SameRequest, SameContent, IsRequest
  <2>2. CASE op' = [op EXCEPT !.phase = "persisted"]
    BY <1>1, <2>2 DEF SameRequest, SameContent
  <2> QED BY <2>1, <2>2 DEF ProgramProposed
<1>3. Fewer
  BY <1>1, <1>2, OpKept DEF ProgramProposed, IInv
<1>4. UiQuiet
  BY ReplyQuiet DEF ProgramProposed, IInv
<1>5. /\ UNCHANGED <<acc, receipts, tokens, applied>>
      /\ file'.rev \in {acc.rev, acc.rev + 1} /\ DraftsQuiet
  BY SameDrafts DEF ProgramProposed, Proposed, IInv, Shape
<1> QED BY <1>1, <1>2, <1>3, <1>4, <1>5, QuietStep DEF SameRequest, SameContent

LEMMA Confirmed ==
  ASSUME IInv, confirm_apply
  PROVE  IInv' /\ Quiet
<1>1. /\ op # None /\ DOMAIN op = {"phase", "req"} /\ IsRequest(op.req)
      /\ op.req.base = acc.rev
  BY DEF confirm_apply, IInv, Shape, Requests
<1>2. DOMAIN op' = {"phase", "req"} /\ SameRequest(op'.req, op.req)
  BY <1>1 DEF confirm_apply, SameRequest, SameContent, IsRequest
<1>3. Fewer
  BY <1>1, <1>2, OpKept DEF confirm_apply, IInv
<1>4. UiQuiet
  BY ReplyQuiet DEF confirm_apply, IInv
<1>5. /\ UNCHANGED <<acc, receipts, tokens, applied>>
      /\ file'.rev \in {acc.rev, acc.rev + 1} /\ DraftsQuiet
  BY SameDrafts DEF confirm_apply, Proposed, IInv, Shape
<1> QED BY <1>1, <1>2, <1>3, <1>4, <1>5, QuietStep DEF SameRequest, SameContent

LEMMA Undone ==
  ASSUME IInv, op # None, Undo, UiQuiet, UNCHANGED <<queue, draft, tokens>>
  PROVE  IInv' /\ Quiet
<1>1. Fewer
  BY OpKept DEF Undo, IInv
<1>2. DraftsQuiet /\ file'.rev \in {acc.rev, acc.rev + 1} /\ op' = None
  BY SameDrafts DEF Undo, IInv, Shape
<1> QED BY <1>1, <1>2, QuietStep DEF Undo

LEMMA RecoveryRequired ==
  ASSUME IInv, RequireRecovery
  PROVE  IInv' /\ Quiet
<1>1. /\ op # None /\ DOMAIN op = {"phase", "req"} /\ IsRequest(op.req)
      /\ op.req.base = acc.rev
  BY DEF RequireRecovery, IInv, Shape, Requests
<1>2. DOMAIN op' = {"phase", "req"} /\ SameRequest(op'.req, op.req)
  BY <1>1 DEF RequireRecovery, SameRequest, SameContent, IsRequest
<1>3. Fewer
  BY <1>1, <1>2, OpKept DEF RequireRecovery, IInv
<1>4. UiQuiet
  BY ReplyQuiet DEF RequireRecovery, IInv
<1>5. /\ UNCHANGED <<acc, receipts, tokens, applied>>
      /\ file'.rev \in {acc.rev, acc.rev + 1} /\ DraftsQuiet
  BY SameDrafts DEF RequireRecovery, IInv, Shape
<1> QED BY <1>1, <1>2, <1>3, <1>4, <1>5, QuietStep DEF SameRequest, SameContent

LEMMA NetdStep ==
  ASSUME IInv, Netd
  PROVE  IInv' /\ Quiet
<1>1. CASE apply_desired_request
  BY <1>1, RequestTaken
<1>2. CASE ProgramProposed
  BY <1>2, Programmed
<1>3. CASE confirm_apply
  BY <1>3, Confirmed
<1>4. CASE CommitApply
  <2>1. UiQuiet
    BY <1>4, ReplyQuiet DEF CommitApply, IInv
  <2> QED BY <1>4, <2>1, AcceptStep DEF CommitApply
<1>5. CASE restore_failed_apply
  <2>1. UiQuiet
    BY <1>5, ReplyQuiet DEF restore_failed_apply, IInv
  <2> QED BY <1>5, <2>1, Undone DEF restore_failed_apply
<1>6. CASE RequireRecovery
  BY <1>6, RecoveryRequired
<1>7. CASE recover_interrupted_apply
  <2>1. UiQuiet
    BY <1>7, ReplyQuiet DEF recover_interrupted_apply, IInv
  <2> QED
    BY <1>7, <2>1, AcceptStep, Undone DEF recover_interrupted_apply, recovery_pending
<1> QED BY <1>1, <1>2, <1>3, <1>4, <1>5, <1>6, <1>7 DEF Netd

--------------------------------------------------------------------------
(* The handlers' steps. *)

(* A handler that only goes on, ends, or removes its Draft. *)
LEMMA HandlerQuiet ==
  ASSUME IInv, NEW a \in Admins, NEW h, IsHandler(h),
         h.pc \in Opening =>
           ui[a].pc \in Opening /\ h.snap = ui[a].snap /\ h.clean = ui[a].clean,
         ui' = [ui EXCEPT ![a] = h],
         draft' \in {draft, [draft EXCEPT ![a] = None]},
         UNCHANGED <<netdVars, queue, tokens>>
  PROVE  IInv' /\ Quiet
<1>1. UiQuiet /\ DraftsQuiet
  BY DEF IInv, Shape, UiQuiet, DraftsQuiet
<1>2. Fewer
  BY DEF IInv, Shape, Fewer, SameContent, Requests, netdVars
<1>3. /\ UNCHANGED <<acc, receipts, tokens, applied>>
      /\ file'.rev \in {acc.rev, acc.rev + 1}
      /\ op' # None => DOMAIN op' = {"phase", "req"} /\ op'.req.base = acc.rev
  BY DEF IInv, Shape, netdVars
<1> QED BY <1>1, <1>2, <1>3, QuietStep

LEMMA IdleHandler == IsHandler(Idle) /\ ~ Idle.pc \in Opening
BY DEF Idle, IsHandler, Opening

LEMMA Locked ==
  ASSUME IInv, NEW a \in Admins, draft_lock(a)
  PROVE  IInv'
<1>1. /\ ui'[a].snap = file /\ file.rev \in Nat /\ acc.rev <= file.rev
      /\ DOMAIN ui' = Admins
      /\ \A b \in Admins : IsHandler(ui'[b]) /\ (b # a => ui'[b] = ui[b])
  BY DEF draft_lock, IInv, Shape, IsHandler, Idle
<1>2. Requests' = Requests /\ Carried' = Carried
  BY DEF draft_lock, netdVars, Requests, Carried, OfDraft, OfRequest
<1>3. VersionInv' /\ AppliedInv'
  BY <1>2, VersionsKept DEF draft_lock, netdVars, IInv
<1>4. Shape'
  BY <1>1, <1>2 DEF draft_lock, netdVars, IInv, Shape
<1>5. BehindInv'
  BY <1>1, <1>2 DEF draft_lock, netdVars, IInv, Shape, BehindInv
<1>6. AcceptedRecognised'
  BY DEF draft_lock, netdVars, IInv, AcceptedRecognised
<1> QED BY <1>3, <1>4, <1>5, <1>6 DEF IInv

LEMMA Reconciled ==
  ASSUME IInv, NEW a \in Admins, read_draft_reconciled(a)
  PROVE  IInv' /\ Quiet
<1>1. IsHandler(ui[a])
  BY DEF IInv, Shape
<1>2. CASE StableRevision(a)
  <2>1. PICK h : h = [ui[a] EXCEPT !.pc = "receipt"]
    OBVIOUS
  <2>2. /\ IsHandler(h) /\ h.snap = ui[a].snap /\ h.clean = ui[a].clean
        /\ ui[a].pc \in Opening
        /\ ui' = [ui EXCEPT ![a] = h] /\ UNCHANGED <<netdVars, queue, tokens, draft>>
    BY <1>1, <1>2, <2>1 DEF StableRevision, IsHandler, Opening
  <2> QED BY <2>2, HandlerQuiet
<1>3. CASE ReceiptFound(a)
  <2>1. PICK h : h = [ui[a] EXCEPT !.pc = "ready"]
    OBVIOUS
  <2>2. /\ IsHandler(h) /\ h.snap = ui[a].snap /\ h.clean = ui[a].clean
        /\ ui[a].pc \in Opening
        /\ ui' = [ui EXCEPT ![a] = h] /\ UNCHANGED <<netdVars, queue, tokens>>
        /\ draft' = [draft EXCEPT ![a] = None]
    BY <1>1, <1>3, <2>1 DEF ReceiptFound, IsHandler, Opening
  <2> QED BY <2>2, HandlerQuiet
<1>4. CASE DraftRetained(a)
  <2>1. PICK h : h = [ui[a] EXCEPT !.pc = "ready"]
    OBVIOUS
  <2>2. /\ IsHandler(h) /\ h.snap = ui[a].snap /\ h.clean = ui[a].clean
        /\ ui[a].pc \in Opening
        /\ ui' \in {[ui EXCEPT ![a] = h], [ui EXCEPT ![a] = Idle]}
        /\ UNCHANGED <<netdVars, queue, tokens, draft>>
    BY <1>1, <1>4, <2>1 DEF DraftRetained, IsHandler, Opening
  <2> QED BY <2>2, HandlerQuiet, IdleHandler
<1> QED BY <1>2, <1>3, <1>4 DEF read_draft_reconciled

(* What a handler drafts on is not behind any request of its owner. *)
LEMMA SnapshotAhead ==
  ASSUME IInv, NEW a \in Admins
  PROVE  /\ accepted_snapshot_for_drafting(a).rev \in Nat
         /\ \A r \in Requests : r.who = a => r.base <= accepted_snapshot_for_drafting(a).rev
BY DEF IInv, Shape, BehindInv, accepted_snapshot_for_drafting, Opening

(* A Draft written with the base of the old one or of the snapshot. *)
LEMMA Written ==
  ASSUME IInv, NEW a \in Admins,
         NEW base, NEW net, NEW sections, NEW edits, NEW about, NEW clean,
         \/ base = accepted_snapshot_for_drafting(a).rev
         \/ draft[a] # None /\ base = draft[a].base,
         write_draft(a, Draft(base, net, sections, edits, about, clean))
  PROVE  IInv'
<1> DEFINE d == Draft(base, net, sections, edits, about, clean)
<1>1. d.base = base /\ d.version = tokens + 1
  BY DEF Draft
<1>2. base \in Nat /\ \A r \in Requests : r.who = a => r.base <= base
  BY SnapshotAhead DEF IInv, Shape, BehindInv
<1>3. /\ draft' = [draft EXCEPT ![a] = d] /\ tokens' = tokens + 1
      /\ UNCHANGED <<netdVars, queue>> /\ ui' = [ui EXCEPT ![a] = Idle]
  BY DEF write_draft
<1>4. UiQuiet
  BY <1>3, IdleHandler DEF IInv, Shape, UiQuiet
<1> HIDE DEF d
<1> QED BY <1>1, <1>2, <1>3, <1>4, WriteStep

LEMMA DraftSaved ==
  ASSUME IInv, NEW a \in Admins, save_draft(a) \/ reconcile_draft(a) \/ import_desired(a)
  PROVE  IInv'
<1> DEFINE snap == accepted_snapshot_for_drafting(a)
<1>1. CASE save_draft(a)
  <2> DEFINE old == IF draft[a] # None THEN draft[a]
                    ELSE Draft(snap.rev, snap.net, {}, {}, {}, Clean(a))
  <2>1. PICK net, sections, edits, about :
          write_draft(a, Draft(old.base, net, sections, edits, about, old.clean))
    BY <1>1 DEF save_draft
  <2>2. old.base = snap.rev \/ (draft[a] # None /\ old.base = draft[a].base)
    BY DEF Draft
  <2> HIDE DEF old
  <2> QED BY <2>1, <2>2, Written
<1>2. CASE reconcile_draft(a)
  <2>1. PICK net, sections, edits, about :
          write_draft(a, Draft(snap.rev, net, sections, edits, about, Clean(a)))
    BY <1>2 DEF reconcile_draft
  <2> QED BY <2>1, Written
<1>3. CASE import_desired(a)
  <2>1. PICK net, sections, edits, about :
          write_draft(a, Draft(snap.rev, net, sections, edits, about, Clean(a)))
    BY <1>3 DEF import_desired, imported_draft
  <2> QED BY <2>1, Written
<1> QED BY <1>1, <1>2, <1>3

LEMMA DirectlyApplied ==
  ASSUME IInv, NEW a \in Admins, NEW sections, DirectApply(a, sections)
  PROVE  IInv'
<1>1. PICK net, about :
        submit_desired_apply(a, Request(a, acc.rev, net, None, about, TRUE))
  BY DEF DirectApply
<1> DEFINE r == Request(a, acc.rev, net, None, about, TRUE)
<1>2. IsRequest(r) /\ r.who = a /\ r.base = acc.rev /\ r.version = None
  BY DEF Request, IsRequest
<1>3. draft[a] = None /\ tokens' = tokens + 1
  BY DEF DirectApply
<1>4. /\ queue' = Append(queue, r) /\ UNCHANGED <<netdVars, draft>>
      /\ ui' = [ui EXCEPT ![a] = [Idle EXCEPT !.pc = "wait"]]
  BY <1>1 DEF submit_desired_apply
<1> HIDE DEF r
<1> QED BY <1>2, <1>3, <1>4, SendStep

LEMMA DraftSent ==
  ASSUME IInv, NEW a \in Admins, apply_draft(a)
  PROVE  IInv'
<1> DEFINE r == Request(a, draft[a].base, draft[a].net, draft[a].version,
                        draft[a].about, draft[a].clean)
<1>1. submit_desired_apply(a, r) /\ draft[a] # None /\ UNCHANGED tokens
  BY DEF apply_draft
<1>2. IsRequest(r) /\ r.who = a /\ r.base = draft[a].base /\ r.version = draft[a].version
  BY DEF Request, IsRequest
<1>3. /\ queue' = Append(queue, r) /\ UNCHANGED <<netdVars, draft>>
      /\ ui' = [ui EXCEPT ![a] = [Idle EXCEPT !.pc = "wait"]]
      /\ r.base = acc.rev
  BY <1>1 DEF submit_desired_apply
<1> HIDE DEF r
<1> QED BY <1>1, <1>2, <1>3, SendStep

LEMMA GivenUp ==
  ASSUME IInv, NEW a \in Admins, GiveUp(a)
  PROVE  IInv' /\ Quiet
<1>1. \A r : IsRequest(r) => SameRequest(Abandoned(r, a), r)
  BY DEF IsRequest, SameRequest, SameContent, Abandoned
<1>2. /\ queue' \in Seq(ToSet(queue'))
      /\ ToSet(queue') = {Abandoned(r, a) : r \in ToSet(queue)}
  <2>1. queue' = [k \in DOMAIN queue |-> Abandoned(queue[k], a)] /\ queue \in Seq(ToSet(queue))
    BY DEF GiveUp, IInv, Shape
  <2> QED BY <2>1, AbandonedSet
<1>3. op' # None =>
        /\ op # None /\ DOMAIN op' = {"phase", "req"} /\ op.req \in Requests
        /\ op'.req = Abandoned(op.req, a)
  BY DEF GiveUp, IInv, Shape, Requests
<1>4. \A r \in Requests' : \E q \in Requests : r = Abandoned(q, a)
  BY <1>2, <1>3 DEF Requests
<1>5. Fewer
  BY <1>1, <1>2, <1>4 DEF Fewer, SameRequest, IInv, Shape
<1>6. op' # None => op'.req.base = acc.rev
  BY <1>1, <1>3 DEF SameRequest, SameContent, IInv, Shape
<1>7. UiQuiet
  BY IdleHandler DEF GiveUp, UiQuiet, IInv, Shape
<1>8. /\ UNCHANGED <<acc, receipts, tokens, applied>> /\ DraftsQuiet
      /\ file'.rev \in {acc.rev, acc.rev + 1}
  BY SameDrafts DEF GiveUp, IInv, Shape
<1> QED BY <1>3, <1>5, <1>6, <1>7, <1>8, QuietStep

LEMMA HandlerStep ==
  ASSUME IInv, NEW a \in Admins, Handler(a)
  PROVE  IInv'
<1>1. CASE draft_lock(a)
  BY <1>1, Locked
<1>2. CASE read_draft_reconciled(a)
  BY <1>2, Reconciled
<1>3. CASE draft_status(a)
  BY <1>3, HandlerQuiet, IdleHandler DEF draft_status
<1>4. CASE save_draft(a) \/ reconcile_draft(a) \/ import_desired(a)
  BY <1>4, DraftSaved
<1>5. CASE Applying(a)
  <2>1. CASE apply_draft(a)
    BY <2>1, DraftSent
  <2>2. CASE \E sections : DirectApply(a, sections)
    BY <2>2, DirectlyApplied
  <2> QED
    BY <1>5, <2>1, <2>2 DEF Applying, apply_route_change, apply_interfaces,
       apply_lan_services, apply_firewall, apply_wireguard, apply_qdiscs, apply_ipv6,
       configure_apply_confirmation
<1>6. CASE AnswerApply(a)
  BY <1>6, HandlerQuiet, IdleHandler DEF AnswerApply
<1>7. CASE GiveUp(a)
  BY <1>7, GivenUp
<1> QED BY <1>1, <1>2, <1>3, <1>4, <1>5, <1>6, <1>7 DEF Handler

--------------------------------------------------------------------------
(* The theorems. *)

LEMMA InitiallyIInv ==
  ASSUME Init
  PROVE  IInv
<1>1. queue = <<>> /\ applied = <<>> /\ op = None /\ acc.rev = 1 /\ file.rev = 1 /\ tokens = 0
  BY DEF Init
<1>2. ToSet(queue) = {} /\ ToSet(applied) = {} /\ IsInjective(applied)
  BY <1>1 DEF ToSet, IsInjective
<1>3. Requests = {} /\ Carried = {}
  BY <1>1, <1>2 DEF Requests, Carried, Init
<1>4. Shape
  BY <1>1, <1>2, <1>3, IdleHandler DEF Shape, Init
<1> QED
  BY <1>1, <1>2, <1>3, <1>4 DEF IInv, VersionInv, AppliedInv, AppliedOnce, BehindInv,
     AcceptedRecognised, Init

LEMMA StutterIInv ==
  ASSUME IInv, UNCHANGED vars
  PROVE  IInv' /\ Quiet
<1>1. Fewer /\ UiQuiet /\ DraftsQuiet
  BY DEF vars, IInv, Shape, Fewer, SameContent, UiQuiet, DraftsQuiet, Requests
<1> QED BY <1>1, QuietStep DEF vars, IInv, Shape

LEMMA Inductive == Spec => []IInv
<1>1. IInv /\ [Next]_vars => IInv'
  BY NetdStep, HandlerStep, StutterIInv DEF Next
<1> QED BY <1>1, InitiallyIInv, PTL DEF Spec

(* AppliedOnce: whatever answers are lost, requests retried, Drafts edited  *)
(* and reviewed, netd accepts no version of a Draft twice.                  *)
THEOREM NeverTwice == Spec => []AppliedOnce
<1>1. IInv => AppliedOnce
  BY DEF IInv, AppliedInv
<1> QED BY <1>1, Inductive, PTL

(* AcceptedRecognised: a Draft that was accepted is still there only with a *)
(* receipt of just its version, whoever else had applies accepted since.    *)
THEOREM KnownByReceipt == Spec => []AcceptedRecognised
<1>1. IInv => AcceptedRecognised
  BY DEF IInv
<1> QED BY <1>1, Inductive, PTL

--------------------------------------------------------------------------
(* Drafts are not lost.  None, the absence of a Draft, must be none.       *)

NoneIsNew ==
  /\ None \notin Nat /\ None # "accepted"
  /\ \A base, version, net, sections, edits, about, clean :
       None # [base |-> base, version |-> version, net |-> net, sections |-> sections,
               edits |-> edits, about |-> about, clean |-> clean]

(* Somebody waits for the answer to r, which is for the Draft as it is.    *)
Awaited(r) ==
  /\ ui[r.who].pc = "wait" /\ ui[r.who].reply = None
  /\ draft[r.who] # None => r.version = draft[r.who].version

(* One request at most of each administrator has somebody waiting.         *)
QueueAwaited ==
  /\ \A i \in DOMAIN queue : queue[i].live => Awaited(queue[i])
  /\ \A i, j \in DOMAIN queue :
       queue[i].live /\ queue[j].live /\ queue[i].who = queue[j].who => i = j

OpAwaited ==
  op # None /\ op.req.live =>
    /\ Awaited(op.req)
    /\ \A i \in DOMAIN queue : queue[i].live => queue[i].who # op.req.who

(* What was answered "accepted", and what has a receipt, was accepted.     *)
AnswersTrue ==
  \A a \in Admins :
    /\ receipts[a] \in {0} \cup ToSet(applied)
    /\ ui[a].pc = "wait" /\ ui[a].reply = "accepted" /\ draft[a] # None
         => draft[a].version \in ToSet(applied)

WaitInv == QueueAwaited /\ OpAwaited /\ AnswersTrue

LEMMA QueueShape ==
  ASSUME Shape
  PROVE  /\ Len(queue) \in Nat /\ DOMAIN queue = 1..Len(queue)
         /\ \A i \in DOMAIN queue : queue[i] \in Requests
         /\ op # None => op.req \in Requests
<1>1. queue \in Seq(ToSet(queue))
  BY DEF Shape
<1> QED BY <1>1 DEF Requests, ToSet

(* A handler nobody's answer is for goes on. *)
LEMMA NotWaiting ==
  ASSUME Shape, WaitInv, NEW a \in Admins, NEW h, ui[a].pc # "wait", h.pc # "wait",
         ui' = [ui EXCEPT ![a] = h],
         \A b \in Admins : b # a => draft'[b] = draft[b],
         UNCHANGED <<op, queue, receipts, applied>>
  PROVE  WaitInv'
<1>1. /\ \A b \in Admins : b # a => ui'[b] = ui[b] /\ draft'[b] = draft[b]
      /\ ui'[a].pc # "wait"
  BY DEF Shape
<1>2. \A r \in Requests : r.who \in Admins
  BY DEF Shape
<1>3. QueueAwaited'
  BY <1>1, <1>2, QueueShape DEF WaitInv, QueueAwaited, Awaited
<1>4. OpAwaited'
  BY <1>1, <1>2, QueueShape DEF WaitInv, OpAwaited, Awaited
<1>5. AnswersTrue'
  BY <1>1 DEF WaitInv, AnswersTrue
<1> QED BY <1>3, <1>4, <1>5 DEF WaitInv

LEMMA SentAwaited ==
  ASSUME NoneIsNew, Shape, WaitInv, NEW a \in Admins, NEW req,
         ui[a].pc # "wait", req.who = a,
         draft[a] # None => req.version = draft[a].version,
         queue' = Append(queue, req),
         ui' = [ui EXCEPT ![a] = [Idle EXCEPT !.pc = "wait"]],
         UNCHANGED <<netdVars, draft>>
  PROVE  WaitInv'
<1>1. /\ \A b \in Admins : b # a => ui'[b] = ui[b]
      /\ ui'[a].pc = "wait" /\ ui'[a].reply = None
  BY DEF Shape, Idle
<1>2. /\ DOMAIN queue = 1..Len(queue) /\ Len(queue) \in Nat
      /\ DOMAIN queue' = 1..(Len(queue) + 1)
      /\ \A i \in DOMAIN queue : queue'[i] = queue[i]
      /\ queue'[Len(queue) + 1] = req
  <2>1. queue \in Seq(ToSet(queue) \cup {req}) /\ queue' = Append(queue, req)
    BY AppendSet DEF Shape
  <2> QED BY <2>1
<1>3. \A i \in DOMAIN queue : queue[i].who \in Admins /\ (queue[i].live => queue[i].who # a)
  BY QueueShape DEF Shape, WaitInv, QueueAwaited, Awaited
<1>4. op # None => op.req.who \in Admins /\ (op.req.live => op.req.who # a)
  BY QueueShape DEF Shape, WaitInv, OpAwaited, Awaited
<1>5. QueueAwaited'
  BY <1>1, <1>2, <1>3 DEF WaitInv, QueueAwaited, Awaited, netdVars
<1>6. OpAwaited'
  BY <1>1, <1>2, <1>3, <1>4 DEF WaitInv, OpAwaited, Awaited, netdVars
<1>7. AnswersTrue'
  BY <1>1 DEF WaitInv, AnswersTrue, netdVars, NoneIsNew
<1> QED BY <1>5, <1>6, <1>7 DEF WaitInv

(* The handler that waited ends, and with it the wait for its request. *)
LEMMA AnsweredAwaited ==
  ASSUME NoneIsNew, Shape, WaitInv, NEW a \in Admins, AnswerApply(a)
  PROVE  WaitInv'
<1>1. /\ \A b \in Admins : b # a => ui'[b] = ui[b] /\ draft'[b] = draft[b]
      /\ ui'[a].pc # "wait" /\ ui[a].reply # None
  BY DEF AnswerApply, Shape, Idle
<1>2. \A i \in DOMAIN queue : queue[i].who \in Admins /\ (queue[i].live => queue[i].who # a)
  BY <1>1, QueueShape DEF Shape, WaitInv, QueueAwaited, Awaited
<1>3. op # None => op.req.who \in Admins /\ (op.req.live => op.req.who # a)
  BY <1>1, QueueShape DEF Shape, WaitInv, OpAwaited, Awaited
<1>4. UNCHANGED <<op, queue, receipts, applied>>
  BY DEF AnswerApply, netdVars
<1>5. QueueAwaited'
  BY <1>1, <1>2, <1>4 DEF WaitInv, QueueAwaited, Awaited
<1>6. OpAwaited'
  BY <1>1, <1>2, <1>3, <1>4 DEF WaitInv, OpAwaited, Awaited
<1>7. AnswersTrue'
  BY <1>1, <1>4 DEF WaitInv, AnswersTrue
<1> QED BY <1>5, <1>6, <1>7 DEF WaitInv

LEMMA GivenUpAwaited ==
  ASSUME Shape, WaitInv, NEW a \in Admins, GiveUp(a)
  PROVE  WaitInv'
<1>1. /\ \A b \in Admins : b # a => ui'[b] = ui[b]
      /\ ui'[a].pc # "wait"
  BY DEF GiveUp, Shape, Idle
<1>2. \A r : IsRequest(r) =>
        LET s == Abandoned(r, a)
        IN /\ s.who = r.who /\ s.version = r.version
           /\ s.live => r.live /\ r.who # a
  BY DEF IsRequest, Abandoned
<1>3. /\ DOMAIN queue' = DOMAIN queue
      /\ \A i \in DOMAIN queue : /\ queue'[i] = Abandoned(queue[i], a)
                                 /\ IsRequest(queue[i]) /\ queue[i].who \in Admins
  BY QueueShape DEF GiveUp, Shape
<1>4. op' # None => /\ op # None /\ op'.req = Abandoned(op.req, a)
                    /\ IsRequest(op.req) /\ op.req.who \in Admins
  BY QueueShape DEF GiveUp, Shape
<1>5. UNCHANGED <<draft, receipts, applied>>
  BY DEF GiveUp
<1>6. QueueAwaited'
  BY <1>1, <1>2, <1>3, <1>5 DEF WaitInv, QueueAwaited, Awaited
<1>7. OpAwaited'
  BY <1>1, <1>2, <1>3, <1>4, <1>5 DEF WaitInv, OpAwaited, Awaited
<1>8. AnswersTrue'
  BY <1>1, <1>5 DEF WaitInv, AnswersTrue
<1> QED BY <1>6, <1>7, <1>8 DEF WaitInv

(* netd takes its next request out of the backlog. *)
LEMMA TakenAwaited ==
  ASSUME Shape, WaitInv, apply_desired_request
  PROVE  WaitInv'
<1>1. /\ Len(queue) \in Nat \ {0} /\ DOMAIN queue = 1..Len(queue)
      /\ DOMAIN queue' = 1..(Len(queue) - 1) /\ Head(queue) = queue[1]
      /\ \A i \in DOMAIN queue' : queue'[i] = queue[i + 1] /\ i + 1 \in DOMAIN queue
  <2>1. queue \in Seq(ToSet(queue)) /\ queue # <<>> /\ queue' = Tail(queue)
    BY DEF apply_desired_request, Shape
  <2> QED BY <2>1
<1>2. \A i \in DOMAIN queue : queue[i].who \in Admins
  BY QueueShape DEF Shape
<1>3. \A i \in DOMAIN queue' : queue'[i].live => /\ queue[i + 1].live
                                                 /\ Head(queue).live => queue'[i].who # Head(queue).who
  BY <1>1 DEF WaitInv, QueueAwaited
<1>4. UNCHANGED <<draft, receipts, applied>>
  BY DEF apply_desired_request
<1>5. \A i, j \in DOMAIN queue' :
        queue'[i].live /\ queue'[j].live /\ queue'[i].who = queue'[j].who => i = j
  BY <1>1 DEF WaitInv, QueueAwaited
<1>6. CASE op = None /\ op' = [phase |-> "applying", req |-> Head(queue)] /\ UNCHANGED ui
  <2>1. op'.req = queue[1]
    BY <1>1, <1>6
  <2>2. QueueAwaited'
    BY <1>1, <1>3, <1>4, <1>5, <1>6 DEF WaitInv, QueueAwaited, Awaited
  <2>3. OpAwaited'
    BY <1>1, <1>3, <1>4, <1>6, <2>1 DEF WaitInv, QueueAwaited, OpAwaited, Awaited
  <2> QED BY <1>4, <1>6, <2>2, <2>3 DEF WaitInv, AnswersTrue
<1>7. CASE Reply(Head(queue), "refused") /\ UNCHANGED op
  <2>1. /\ \A b \in Admins : ~ (Head(queue).live /\ b = Head(queue).who) => ui'[b] = ui[b]
        /\ \A b \in Admins : ui'[b] # ui[b] => ui'[b].reply = "refused"
    BY <1>7 DEF Reply, Shape, IsHandler
  <2>2. op # None /\ op.req.live /\ Head(queue).live =>
          op.req.who \in Admins /\ op.req.who # Head(queue).who
    BY <1>1, QueueShape DEF Shape, WaitInv, OpAwaited
  <2>3. QueueAwaited'
    BY <1>1, <1>2, <1>3, <1>4, <1>5, <2>1 DEF WaitInv, QueueAwaited, Awaited
  <2>4. OpAwaited'
    <3>1. op # None => op.req.who \in Admins
      BY QueueShape DEF Shape
    <3> QED BY <1>1, <1>3, <1>4, <1>7, <2>1, <2>2, <3>1 DEF WaitInv, OpAwaited, Awaited
  <2>5. AnswersTrue'
    BY <1>4, <2>1 DEF WaitInv, AnswersTrue
  <2> QED BY <2>3, <2>4, <2>5 DEF WaitInv
<1> QED BY <1>6, <1>7 DEF apply_desired_request

(* The request netd carried out is answered, or nobody waits for it. *)
LEMMA OpAnswered ==
  ASSUME Shape, WaitInv, op # None, NEW outcome,
         Reply(op.req, outcome) \/ UNCHANGED ui,
         op' # None => ~ op'.req.live,
         UNCHANGED <<queue, draft>>
  PROVE  QueueAwaited' /\ OpAwaited'
<1>1. \A b \in Admins : ~ (op.req.live /\ b = op.req.who) => ui'[b] = ui[b]
  BY DEF Reply, Shape, IsHandler
<1>2. \A i \in DOMAIN queue :
        queue[i].who \in Admins /\ (queue[i].live /\ op.req.live => queue[i].who # op.req.who)
  BY QueueShape DEF Shape, WaitInv, OpAwaited
<1>3. QueueAwaited'
  BY <1>1, <1>2 DEF WaitInv, QueueAwaited, Awaited
<1>4. OpAwaited'
  BY DEF OpAwaited
<1> QED BY <1>3, <1>4

LEMMA AnswersKept ==
  ASSUME Shape, WaitInv, NEW r, NEW outcome, outcome # "accepted",
         Reply(r, outcome) \/ UNCHANGED ui, UNCHANGED <<draft, receipts, applied>>
  PROVE  AnswersTrue'
<1>1. \A b \in Admins : ui'[b] = ui[b] \/ ui'[b].reply = outcome
  BY DEF Reply, Shape, IsHandler
<1> QED BY <1>1 DEF WaitInv, AnswersTrue

LEMMA AppliedGrows ==
  ASSUME AppliedInv, Accept
  PROVE  ToSet(applied') = IF op.req.version = None THEN ToSet(applied)
                           ELSE ToSet(applied) \cup {op.req.version}
<1>1. applied \in Seq(ToSet(applied))
  BY OwnElements DEF AppliedInv
<1> QED BY <1>1, AppendSet DEF Accept

(* An acceptance is answered with what is then true. *)
LEMMA AcceptedAwaited ==
  ASSUME NoneIsNew, IInv, WaitInv, op # None, Accept,
         Reply(op.req, "accepted") \/ UNCHANGED ui, UNCHANGED <<queue, draft, tokens>>
  PROVE  WaitInv'
<1>1. op' = None
  BY DEF Accept
<1>2. QueueAwaited' /\ OpAwaited'
  BY <1>1, OpAnswered DEF IInv
<1>3. AnswersTrue'
  <2> SUFFICES ASSUME NEW a \in Admins
               PROVE  /\ receipts'[a] \in {0} \cup ToSet(applied')
                      /\ ui'[a].pc = "wait" /\ ui'[a].reply = "accepted" /\ draft[a] # None
                           => draft[a].version \in ToSet(applied')
    BY DEF AnswersTrue
  <2>1. ToSet(applied) \subseteq ToSet(applied')
    BY AppliedGrows DEF IInv
  <2>2. receipts'[a] \in {0} \cup ToSet(applied')
    BY <2>1, AppliedGrows DEF Accept, accepted_draft_receipts, IInv, Shape, WaitInv, AnswersTrue
  <2>3. CASE ui'[a] = ui[a]
    BY <2>1, <2>2, <2>3 DEF WaitInv, AnswersTrue
  <2>4. CASE op.req.live /\ a = op.req.who /\ draft[a] # None
    <3>1. op.req.version = draft[a].version
      BY <2>4 DEF WaitInv, OpAwaited, Awaited
    <3>2. OfDraft(a) \in Carried
      BY <2>4 DEF Carried
    <3>3. draft[a].version \in 1..tokens /\ tokens \in Nat
      BY <3>2 DEF IInv, Shape, VersionInv, OfDraft
    <3>4. draft[a].version # None
      BY <3>3 DEF NoneIsNew
    <3> QED BY <2>2, <3>1, <3>4, AppliedGrows DEF IInv
  <2>5. ui'[a] = ui[a] \/ (op.req.live /\ a = op.req.who)
    BY DEF Reply, IInv, Shape, IsHandler
  <2> QED BY <2>2, <2>3, <2>4, <2>5
<1> QED BY <1>2, <1>3 DEF WaitInv

LEMMA NetdAwaited ==
  ASSUME NoneIsNew, IInv, WaitInv, Netd
  PROVE  WaitInv'
<1>1. CASE apply_desired_request
  BY <1>1, TakenAwaited DEF IInv
<1>2. CASE /\ ProgramProposed \/ confirm_apply
           /\ op' = [op EXCEPT !.phase = "persisted"] /\ UNCHANGED ui
  <2>1. op' # None => op # None /\ op'.req = op.req
    BY <1>2 DEF IInv, Shape, ProgramProposed, confirm_apply
  <2>2. UNCHANGED <<queue, draft, receipts, applied>>
    BY <1>2 DEF ProgramProposed, confirm_apply
  <2> QED
    BY <1>2, <2>1, <2>2 DEF WaitInv, QueueAwaited, OpAwaited, Awaited, AnswersTrue
<1>3. CASE ProgramProposed /\ op' = [op EXCEPT !.phase = "pending", !.req.live = FALSE]
  <2>1. Reply(op.req, "pending_confirmation") \/ UNCHANGED ui
    BY <1>3 DEF ProgramProposed
  <2>2. ~ op'.req.live /\ op # None
    <3>1. op # None /\ DOMAIN op = {"phase", "req"} /\ IsRequest(op.req)
      BY <1>3, QueueShape DEF ProgramProposed, IInv, Shape
    <3>2. op'.req = [op.req EXCEPT !.live = FALSE]
      BY <1>3, <3>1
    <3> QED BY <3>1, <3>2 DEF IsRequest
  <2>3. UNCHANGED <<queue, draft, receipts, applied>>
    BY <1>3 DEF ProgramProposed
  <2>4. QueueAwaited' /\ OpAwaited'
    BY <2>1, <2>2, <2>3, OpAnswered DEF IInv
  <2>5. AnswersTrue'
    BY <2>1, <2>3, AnswersKept DEF IInv
  <2> QED BY <2>4, <2>5 DEF WaitInv
<1>4. CASE CommitApply
  BY <1>4, AcceptedAwaited DEF CommitApply
<1>5. CASE restore_failed_apply
  <2>1. /\ op # None /\ op' = None /\ Reply(op.req, "failed")
        /\ UNCHANGED <<queue, draft, receipts, applied>>
    BY <1>5 DEF restore_failed_apply, Undo
  <2>2. QueueAwaited' /\ OpAwaited'
    BY <2>1, OpAnswered DEF IInv
  <2>3. AnswersTrue'
    BY <2>1, AnswersKept DEF IInv
  <2> QED BY <2>2, <2>3 DEF WaitInv
<1>6. CASE RequireRecovery
  <2>1. /\ op # None /\ Reply(op.req, "indeterminate")
        /\ UNCHANGED <<queue, draft, receipts, applied>>
    BY <1>6 DEF RequireRecovery
  <2>2. ~ op'.req.live
    <3>1. DOMAIN op = {"phase", "req"} /\ IsRequest(op.req)
      BY <2>1, QueueShape DEF IInv, Shape
    <3>2. op'.req = [op.req EXCEPT !.live = FALSE]
      BY <1>6, <3>1 DEF RequireRecovery
    <3> QED BY <3>1, <3>2 DEF IsRequest
  <2>3. QueueAwaited' /\ OpAwaited'
    BY <2>1, <2>2, OpAnswered DEF IInv
  <2>4. AnswersTrue'
    BY <2>1, AnswersKept DEF IInv
  <2> QED BY <2>3, <2>4 DEF WaitInv
<1>7. CASE recover_interrupted_apply
  <2>1. op # None /\ UNCHANGED <<queue, draft, ui, tokens>> /\ (Accept \/ Undo)
    BY <1>7 DEF recover_interrupted_apply, recovery_pending
  <2>2. CASE Accept
    BY <2>1, <2>2, AcceptedAwaited
  <2>3. CASE Undo
    <3>1. op' = None /\ UNCHANGED <<receipts, applied>>
      BY <2>3 DEF Undo
    <3>2. QueueAwaited' /\ OpAwaited'
      BY <2>1, <3>1, OpAnswered DEF IInv
    <3> QED BY <2>1, <3>1, <3>2 DEF WaitInv, AnswersTrue
  <2> QED BY <2>1, <2>2, <2>3
<1> QED
  BY <1>1, <1>2, <1>3, <1>4, <1>5, <1>6, <1>7 DEF Netd, ProgramProposed, confirm_apply

LEMMA WrittenAwaited ==
  ASSUME NoneIsNew, IInv, WaitInv, NEW a \in Admins,
         save_draft(a) \/ reconcile_draft(a) \/ import_desired(a)
  PROVE  WaitInv' /\ \A b \in Admins : draft[b] # None => draft'[b] # None
<1>1. PICK base, net, sections, edits, about, clean :
        write_draft(a, Draft(base, net, sections, edits, about, clean))
  <2>1. CASE save_draft(a)
    BY <2>1 DEF save_draft
  <2>2. CASE reconcile_draft(a)
    BY <2>2 DEF reconcile_draft
  <2>3. CASE import_desired(a)
    BY <2>3 DEF import_desired, imported_draft
  <2> QED BY <2>1, <2>2, <2>3
<1>2. ui[a].pc # "wait"
  BY DEF save_draft, reconcile_draft, import_desired, Opened
<1>3. draft' = [draft EXCEPT ![a] = Draft(base, net, sections, edits, about, clean)]
  BY <1>1 DEF write_draft
<1>4. /\ ui' = [ui EXCEPT ![a] = Idle] /\ Idle.pc # "wait"
      /\ UNCHANGED <<op, queue, receipts, applied>>
      /\ \A b \in Admins : b # a => draft'[b] = draft[b]
  BY <1>1, <1>3 DEF write_draft, Idle, IInv, Shape, netdVars
<1>5. Draft(base, net, sections, edits, about, clean) # None
  BY DEF Draft, NoneIsNew
<1> QED BY <1>2, <1>3, <1>4, <1>5, NotWaiting DEF IInv, Shape

(* A Draft that is removed was accepted. *)
Kept == \A b \in Admins :
  draft[b] # None /\ draft'[b] = None => draft[b].version \in ToSet(applied)

LEMMA HandlerAwaited ==
  ASSUME NoneIsNew, IInv, WaitInv, NEW a \in Admins, Handler(a)
  PROVE  WaitInv' /\ Kept
<1>1. CASE draft_lock(a)
  <2>1. PICK h : h = [Idle EXCEPT !.pc = "stable", !.snap = file, !.clean = file = acc]
    OBVIOUS
  <2>2. /\ h.pc # "wait" /\ ui[a].pc # "wait" /\ ui' = [ui EXCEPT ![a] = h]
        /\ UNCHANGED <<op, queue, receipts, applied, draft>>
    BY <1>1, <2>1 DEF draft_lock, Idle, netdVars
  <2> QED BY <2>2, NotWaiting DEF IInv, Kept
<1>2. CASE StableRevision(a)
  <2>1. PICK h : h = [ui[a] EXCEPT !.pc = "receipt"]
    OBVIOUS
  <2>2. /\ h.pc # "wait" /\ ui[a].pc # "wait" /\ ui' = [ui EXCEPT ![a] = h]
        /\ UNCHANGED <<op, queue, receipts, applied, draft>>
    BY <1>2, <2>1 DEF StableRevision, IInv, Shape, IsHandler, netdVars
  <2> QED BY <2>2, NotWaiting DEF IInv, Kept
<1>3. CASE ReceiptFound(a)
  <2>1. PICK h : h = [ui[a] EXCEPT !.pc = "ready"]
    OBVIOUS
  <2>2. /\ h.pc # "wait" /\ ui[a].pc # "wait" /\ ui' = [ui EXCEPT ![a] = h]
        /\ UNCHANGED <<op, queue, receipts, applied>>
        /\ \A b \in Admins : b # a => draft'[b] = draft[b]
        /\ receipts[a] = draft[a].version
    BY <1>3, <2>1 DEF ReceiptFound, was_draft_accepted, IInv, Shape, IsHandler, netdVars
  <2>3. draft[a] # None => draft[a].version \in ToSet(applied)
    <3>1. draft[a] # None => OfDraft(a) \in Carried
      BY DEF Carried
    <3>2. draft[a] # None => draft[a].version \in 1..tokens /\ tokens \in Nat
      BY <3>1 DEF IInv, Shape, VersionInv, OfDraft
    <3> QED BY <2>2, <3>2 DEF WaitInv, AnswersTrue
  <2> QED BY <2>2, <2>3, NotWaiting DEF IInv, Kept
<1>4. CASE DraftRetained(a)
  <2>1. PICK h : h = [ui[a] EXCEPT !.pc = "ready"]
    OBVIOUS
  <2>2. /\ h.pc # "wait" /\ Idle.pc # "wait" /\ ui[a].pc # "wait"
        /\ ui' \in {[ui EXCEPT ![a] = h], [ui EXCEPT ![a] = Idle]}
        /\ UNCHANGED <<op, queue, receipts, applied, draft>>
    BY <1>4, <2>1 DEF DraftRetained, IInv, Shape, IsHandler, Idle, netdVars
  <2> QED BY <2>2, NotWaiting DEF IInv, Kept
<1>5. CASE draft_status(a)
  <2>1. /\ Idle.pc # "wait" /\ ui[a].pc # "wait" /\ ui' = [ui EXCEPT ![a] = Idle]
        /\ UNCHANGED <<op, queue, receipts, applied, draft>>
    BY <1>5 DEF draft_status, Idle, netdVars
  <2> QED BY <2>1, NotWaiting DEF IInv, Kept
<1>6. CASE save_draft(a) \/ reconcile_draft(a) \/ import_desired(a)
  BY <1>6, WrittenAwaited DEF Kept
<1>7. CASE Applying(a)
  <2>1. CASE apply_draft(a)
    <3> DEFINE r == Request(a, draft[a].base, draft[a].net, draft[a].version,
                            draft[a].about, draft[a].clean)
    <3>1. /\ ui[a].pc # "wait" /\ r.who = a /\ r.version = draft[a].version
          /\ queue' = Append(queue, r) /\ UNCHANGED <<netdVars, draft>>
          /\ ui' = [ui EXCEPT ![a] = [Idle EXCEPT !.pc = "wait"]]
      BY <2>1 DEF apply_draft, submit_desired_apply, Opened, Request
    <3> HIDE DEF r
    <3> QED BY <3>1, SentAwaited DEF IInv, Kept
  <2>2. CASE \E sections : DirectApply(a, sections)
    <3>1. PICK net, about :
            submit_desired_apply(a, Request(a, acc.rev, net, None, about, TRUE))
      BY <2>2 DEF DirectApply
    <3> DEFINE r == Request(a, acc.rev, net, None, about, TRUE)
    <3>2. /\ ui[a].pc # "wait" /\ r.who = a /\ draft[a] = None
          /\ queue' = Append(queue, r) /\ UNCHANGED <<netdVars, draft>>
          /\ ui' = [ui EXCEPT ![a] = [Idle EXCEPT !.pc = "wait"]]
      BY <2>2, <3>1 DEF DirectApply, submit_desired_apply, Opened, Request
    <3> HIDE DEF r
    <3> QED BY <3>2, SentAwaited DEF IInv, Kept
  <2> QED
    BY <1>7, <2>1, <2>2 DEF Applying, apply_route_change, apply_interfaces,
       apply_lan_services, apply_firewall, apply_wireguard, apply_qdiscs, apply_ipv6,
       configure_apply_confirmation
<1>8. CASE AnswerApply(a)
  <2>1. WaitInv'
    BY <1>8, AnsweredAwaited DEF IInv
  <2>2. Kept
    BY <1>8 DEF Kept, AnswerApply, IInv, Shape, WaitInv, AnswersTrue
  <2> QED BY <2>1, <2>2
<1>9. CASE GiveUp(a)
  BY <1>9, GivenUpAwaited DEF IInv, Kept, GiveUp
<1> QED
  BY <1>1, <1>2, <1>3, <1>4, <1>5, <1>6, <1>7, <1>8, <1>9 DEF Handler,
     read_draft_reconciled

LEMMA StepAwaited ==
  ASSUME NoneIsNew, IInv, WaitInv, [Next]_vars
  PROVE  WaitInv' /\ Kept
<1>1. CASE Netd
  <2>1. UNCHANGED draft
    BY <1>1 DEF Netd, apply_desired_request, ProgramProposed, confirm_apply, CommitApply,
       restore_failed_apply, RequireRecovery, recover_interrupted_apply
  <2> QED BY <1>1, <2>1, NetdAwaited DEF Kept
<1>2. CASE \E a \in Admins : Handler(a)
  BY <1>2, HandlerAwaited
<1>3. CASE UNCHANGED vars
  BY <1>3 DEF vars, Kept, WaitInv, QueueAwaited, OpAwaited, Awaited, AnswersTrue
<1> QED BY <1>1, <1>2, <1>3 DEF Next

LEMMA InitiallyAwaited ==
  ASSUME Init
  PROVE  WaitInv
<1>1. DOMAIN queue = {} /\ op = None
  BY DEF Init
<1>2. AnswersTrue
  BY DEF Init, AnswersTrue, Idle
<1> QED BY <1>1, <1>2 DEF WaitInv, QueueAwaited, OpAwaited

(* DraftNotLost: whatever is answered, lost or late, fwos-ui removes a Draft *)
(* only when netd has accepted that very version of it.                      *)
THEOREM DraftsAreKept ==
  ASSUME NoneIsNew
  PROVE  Spec => DraftNotLost
<1>1. IInv /\ WaitInv /\ [Next]_vars => WaitInv' /\ [Kept]_vars
  BY StepAwaited
<1>2. Kept => \A a \in Admins :
        draft[a] # None /\ draft'[a] = None => draft[a].version \in ToSet(applied)
  BY DEF Kept
<1> QED BY <1>1, <1>2, Inductive, InitiallyAwaited, PTL DEF Spec, DraftNotLost

--------------------------------------------------------------------------
(***************************************************************************)
(* What Drafts and requests carry: whatever is edited, reviewed, imported  *)
(* and accepted in between, an accepted apply leaves what its              *)
(* administrator did not propose to change as it was.                      *)
(***************************************************************************)

(* What a change can carry, and what it changes at most. *)
IsChange(c) == \A s \in DOMAIN c : EditType(c[s]) /\ c[s].section = s
TouchedAll(c) == UNION {Touched(c[s]) : s \in DOMAIN c}

(* A Draft is about every tunnel it would carry into another network. *)
Tracks(d) ==
  \A t \in Tunnels :
    (t \in d.edits \/ (d.edits = {} /\ "wireguard" \in d.sections)) => <<"wg", t>> \in d.about

--------------------------------------------------------------------------
(* Changes of several sections. *)

(* Parts that stay the same in two steps stay the same in both together. *)
LEMMA SameTwice ==
  ASSUME NEW n, NEW m, NEW o, NEW A, NEW B, NEW C,
         SameParts(n, m, A), SameParts(m, o, B), Parts \cap (A \cup B) \subseteq C
  PROVE  SameParts(n, o, C)
BY DEF SameParts

(* One section of a change, when it has it. *)
After(n, c, s) == IF s \in DOMAIN c THEN Store(n, c[s]) ELSE n

(* A section stored changes nothing the whole change is not about. *)
LEMMA OneStored ==
  ASSUME NEW n, NetType(n), NEW c, IsChange(c), NEW s, s \notin {"change", "remove"}
  PROVE  NetType(After(n, c, s)) /\ SameParts(n, After(n, c, s), TouchedAll(c))
<1>1. CASE s \in DOMAIN c
  <2>1. EditType(c[s]) /\ c[s].section = s
    BY <1>1 DEF IsChange
  <2>2. NetType(Store(n, c[s])) /\ SameParts(n, Store(n, c[s]), Touched(c[s]))
    BY <2>1, EditKeepsOthers
  <2>3. Touched(c[s]) \subseteq TouchedAll(c)
    BY <1>1 DEF TouchedAll
  <2> QED BY <1>1, <2>2, <2>3 DEF After, SameParts
<1>2. CASE s \notin DOMAIN c
  BY <1>2 DEF After, SameParts
<1> QED BY <1>1, <1>2

(* All seven of them, in the order of the code. *)
LEMMA AllStored ==
  ASSUME NEW n, NetType(n), NEW c, IsChange(c)
  PROVE  NetType(StoreAll(n, c)) /\ SameParts(n, StoreAll(n, c), TouchedAll(c))
<1> DEFINE n1 == After(n, c, "routes")
           n2 == After(n1, c, "interfaces")
           n3 == After(n2, c, "services")
           n4 == After(n3, c, "firewall")
           n5 == After(n4, c, "wireguard")
           n6 == After(n5, c, "qdiscs")
           n7 == After(n6, c, "ipv6")
           T == TouchedAll(c)
<1>0. StoreAll(n, c) = n7
  BY DEF StoreAll, After
<1>1. NetType(n1) /\ SameParts(n, n1, T)
  BY OneStored
<1> HIDE DEF n1, T
<1>2. NetType(n2) /\ SameParts(n1, n2, T)
  BY <1>1, OneStored DEF T
<1> HIDE DEF n2
<1>3. NetType(n3) /\ SameParts(n2, n3, T)
  BY <1>2, OneStored DEF T
<1> HIDE DEF n3
<1>4. NetType(n4) /\ SameParts(n3, n4, T)
  BY <1>3, OneStored DEF T
<1> HIDE DEF n4
<1>5. NetType(n5) /\ SameParts(n4, n5, T)
  BY <1>4, OneStored DEF T
<1> HIDE DEF n5
<1>6. NetType(n6) /\ SameParts(n5, n6, T)
  BY <1>5, OneStored DEF T
<1> HIDE DEF n6
<1>7. NetType(n7) /\ SameParts(n6, n7, T)
  BY <1>6, OneStored DEF T
<1> HIDE DEF n7
<1>8. SameParts(n, n7, T)
  BY <1>1, <1>2, <1>3, <1>4, <1>5, <1>6, <1>7 DEF SameParts
<1> QED BY <1>0, <1>7, <1>8 DEF T

(* What an edit changes it is about; only one of a tunnel is about tunnels. *)
LEMMA TouchesAbout ==
  ASSUME NEW c, IsChange(c)
  PROVE  TouchedAll(c) \subseteq AboutAll(c)
BY DEF TouchedAll, AboutAll, Touched

(* No other section is about a tunnel. *)
LEMMA TunnelsOnly ==
  ASSUME NEW e, EditType(e), e.section # "wireguard", NEW p \in About(e)
  PROVE  p[1] # "wg"
BY DEF EditType, About, One

--------------------------------------------------------------------------
(* A review. *)

(* Only tunnels the Draft is about are carried. *)
LEMMA CarriedTunnels ==
  ASSUME NEW net, NetType(net), NEW d, Tracks(d), "wireguard" \in d.sections
  PROVE  /\ NetType(carry_wireguard_edits(net, d))
         /\ SameParts(net, carry_wireguard_edits(net, d), {p \in d.about : p[1] = "wg"})
<1> DEFINE carried == {t \in DOMAIN d.net.wg : edited_tunnel(d, t)}
           tunnels == [t \in DOMAIN net.wg \cup carried |->
                         IF t \in carried THEN d.net.wg[t] ELSE net.wg[t]]
           m == carry_wireguard_edits(net, d)
           about == {p \in d.about : p[1] = "wg"}
<1>1. m = [net EXCEPT !.wg = tunnels]
  BY DEF carry_wireguard_edits
<1>2. Leaves(net, m, {"wg"}) /\ m.wg = tunnels
  BY <1>1 DEF Leaves, NetType, Fields
<1>3. ASSUME NEW t \in Tunnels, <<"wg", t>> \notin about
      PROVE  /\ t \in DOMAIN tunnels <=> t \in DOMAIN net.wg
             /\ t \in DOMAIN net.wg => tunnels[t] = net.wg[t]
  <2>1. <<"wg", t>> \notin d.about
    BY <1>3
  <2>2. t \notin carried
    BY <2>1 DEF Tracks, edited_tunnel
  <2> QED BY <2>2
<1> HIDE DEF tunnels, m
<1>4. NetType(m)
  BY <1>2 DEF Leaves, NetType, Fields
<1>5. SameParts(net, m, about)
  BY <1>2, <1>3, PartsAre DEF Leaves, Fields, Singles
<1> QED BY <1>4, <1>5 DEF m

(* The sections as they are reviewed for the Draft of a. *)
LEMMA ReviewedIs ==
  ASSUME NetworksAssumption, NEW a \in Admins, NEW d, Tracks(d), NEW c \in Reviews(a, d)
  PROVE  /\ IsChange(reviewed(d, c))
         /\ Parts \cap TouchedAll(reviewed(d, c)) \subseteq aboutReview(d, c)
<1> DEFINE edits == UNION {{x[s] : s \in DOMAIN x} : x \in Changes[a]}
           v == reviewed(d, c)
<1>1. /\ DOMAIN c = effective_sections(d) \ {"import"}
      /\ \A s \in DOMAIN c : c[s] \in edits /\ c[s].section = s
  BY DEF Reviews
<1>2. \A e \in edits : EditType(e)
  BY DEF NetworksAssumption
<1>3. IsChange(c)
  BY <1>1, <1>2 DEF IsChange
<1>4. DOMAIN v = DOMAIN c /\ \A s \in DOMAIN c : s # "wireguard" => v[s] = c[s]
  BY DEF reviewed
<1>5. ASSUME "wireguard" \in DOMAIN c
      PROVE  /\ EditType(v["wireguard"]) /\ v["wireguard"].section = "wireguard"
             /\ \/ Touched(v["wireguard"]) = {}
                \/ v["wireguard"] = c["wireguard"] /\ edited_tunnel(d, c["wireguard"].name)
  <2> DEFINE e == c["wireguard"]
  <2>1. /\ EditType(e) /\ e.section = "wireguard"
        /\ DOMAIN e = {"section", "name", "key", "conf", "route"}
    BY <1>3, <1>5 DEF IsChange, EditType
  <2>2. v["wireguard"] = IF edited_tunnel(d, e.name) THEN e ELSE [e EXCEPT !.name = None]
    BY <1>5 DEF reviewed
  <2> HIDE DEF e, v
  <2>3. CASE edited_tunnel(d, e.name)
    BY <2>1, <2>2, <2>3 DEF e
  <2>4. CASE ~ edited_tunnel(d, e.name)
    <3>1. /\ v["wireguard"] = [e EXCEPT !.name = None]
          /\ DOMAIN v["wireguard"] = DOMAIN e
          /\ v["wireguard"].name = None /\ v["wireguard"].route = e.route
          /\ v["wireguard"].section = e.section
      BY <2>1, <2>2, <2>4
    <3> QED BY <2>1, <3>1 DEF EditType, Touched
  <2> QED BY <2>3, <2>4
<1>6. IsChange(v)
  <2> HIDE DEF v
  <2> QED BY <1>3, <1>4, <1>5 DEF IsChange
<1>7. ASSUME NEW p \in Parts, NEW s \in DOMAIN v, p \in Touched(v[s])
      PROVE  p \in aboutReview(d, c)
  <2> HIDE DEF v
  <2>1. EditType(v[s]) /\ v[s].section = s /\ p \in About(v[s])
    BY <1>6, <1>7 DEF IsChange, Touched
  <2>2. CASE s # "wireguard"
    <3>1. v[s] = c[s] /\ p \in AboutAll(c)
      BY <1>4, <2>1, <2>2 DEF AboutAll
    <3>2. p[1] # "wg"
      BY <2>1, <2>2, TunnelsOnly
    <3> QED BY <1>7, <3>1, <3>2 DEF aboutReview
  <2>3. CASE s = "wireguard"
    <3> DEFINE t == c["wireguard"].name
    <3>1. "wireguard" \in DOMAIN c
      BY <1>4, <2>3
    <3>2. v[s] = c["wireguard"] /\ edited_tunnel(d, t) /\ t # None
      BY <1>5, <1>7, <2>3, <3>1 DEF Touched
    <3>3. p \in AboutAll(c) /\ p \in About(c["wireguard"]) /\ c["wireguard"].section = "wireguard"
      BY <1>4, <2>1, <2>3, <3>1, <3>2 DEF AboutAll
    <3>4. CASE p[1] = "wg"
      <4>1. p = <<"wg", t>>
        BY <3>2, <3>3, <3>4 DEF About
      <4>2. t \in Tunnels
        BY <1>7, <4>1 DEF Parts
      <4>3. "wireguard" \in d.sections
        BY <1>1, <3>1 DEF effective_sections
      <4>4. p \in d.about
        BY <3>2, <4>1, <4>2, <4>3 DEF Tracks, edited_tunnel
      <4> QED BY <1>7, <3>4, <4>4 DEF aboutReview
    <3> QED BY <1>7, <3>3, <3>4 DEF aboutReview
  <2> QED BY <2>2, <2>3
<1> HIDE DEF v
<1> QED BY <1>6, <1>7 DEF TouchedAll, v

(* What a review stores over the Accepted network stays what it is about. *)
LEMMA ReconciledIs ==
  ASSUME NetworksAssumption, NEW a \in Admins, NEW d, Tracks(d), NetType(d.net),
         NEW net, NetType(net), NEW c \in Reviews(a, d)
  PROVE  /\ NetType(reconciled_desired(d, net, c))
         /\ SameParts(net, reconciled_desired(d, net, c), aboutReview(d, c))
<1>1. CASE "import" \in d.sections
  BY <1>1 DEF reconciled_desired, aboutReview, SameParts
<1>2. CASE "import" \notin d.sections
  <2> DEFINE m == IF "wireguard" \in d.sections THEN carry_wireguard_edits(net, d) ELSE net
             v == reviewed(d, c)
  <2>1. NetType(m) /\ SameParts(net, m, {p \in d.about : p[1] = "wg"})
    BY CarriedTunnels DEF SameParts
  <2>2. reconciled_desired(d, net, c) = StoreAll(m, v)
    BY <1>2 DEF reconciled_desired
  <2>3. IsChange(v) /\ Parts \cap TouchedAll(v) \subseteq aboutReview(d, c)
    BY ReviewedIs
  <2> HIDE DEF m, v
  <2>4. NetType(StoreAll(m, v)) /\ SameParts(m, StoreAll(m, v), TouchedAll(v))
    BY <2>1, <2>3, AllStored
  <2>5. Parts \cap ({p \in d.about : p[1] = "wg"} \cup TouchedAll(v)) \subseteq aboutReview(d, c)
    BY <1>2, <2>3 DEF aboutReview
  <2> QED BY <2>1, <2>2, <2>4, <2>5, SameTwice
<1> QED BY <1>1, <1>2

--------------------------------------------------------------------------
(* What is known of a network that was read, drafted or sent. *)

(* Against the Accepted state now: while its base is the Accepted one, the  *)
(* network differs from the Accepted one in what it is about only.          *)
Sound(now, base, net, about, clean) ==
  /\ base \in 1..MaxRev /\ NetType(net)
  /\ clean => base <= now.rev /\ (base = now.rev => SameParts(now.net, net, about))

SoundRequest(now, r) == Sound(now, r.base, r.net, r.about, r.clean) /\ r.base < MaxRev
SoundDraft(now, d) == Sound(now, d.base, d.net, d.about, d.clean) /\ Tracks(d)
SoundHandler(now, h) == Sound(now, h.snap.rev, h.snap.net, {}, h.clean)

StoreInv ==
  acc.rev \in 1..MaxRev /\ NetType(acc.net) /\ file.rev \in 1..MaxRev /\ NetType(file.net)

KInv ==
  /\ StoreInv
  /\ \A r \in Requests : SoundRequest(acc, r)
  /\ \A a \in Admins : draft[a] # None => SoundDraft(acc, draft[a])
  /\ \A a \in Admins : ui[a].pc \in Opening => SoundHandler(acc, ui[a])

(* The Accepted state stays, or is replaced by a later one. *)
Later(now, then) == then = now \/ (then.rev \in Nat /\ now.rev \in Nat /\ then.rev > now.rev)

(* A later Accepted state takes nothing away: older bases are behind it. *)
LEMMA SoundLater ==
  ASSUME NEW now, NEW then, Later(now, then),
         NEW base, NEW net, NEW about, NEW clean, Sound(now, base, net, about, clean)
  PROVE  Sound(then, base, net, about, clean)
<1>1. CASE then = now
  BY <1>1
<1>2. CASE then.rev \in Nat /\ now.rev \in Nat /\ then.rev > now.rev
  <2>1. base \in Nat
    BY DEF Sound
  <2>2. clean => base <= then.rev /\ base # then.rev
    BY <1>2, <2>1 DEF Sound
  <2> QED BY <2>2 DEF Sound
<1> QED BY <1>1, <1>2 DEF Later

(* A step after which every request, Draft and handler is an old one or is *)
(* as it should be.                                                         *)
LEMMA KnownStep ==
  ASSUME KInv, Later(acc, acc'), StoreInv',
         \A r \in Requests' : SoundRequest(acc', r) \/ \E q \in Requests : SameContent(r, q),
         \A a \in Admins : draft'[a] # None =>
           draft'[a] = draft[a] \/ SoundDraft(acc', draft'[a]),
         \A a \in Admins : ui'[a].pc \in Opening =>
           \/ SoundHandler(acc', ui'[a])
           \/ ui[a].pc \in Opening /\ ui'[a].snap = ui[a].snap /\ ui'[a].clean = ui[a].clean
  PROVE  KInv'
<1>1. ASSUME NEW r \in Requests' PROVE SoundRequest(acc', r)
  <2>1. ASSUME NEW q \in Requests, SameContent(r, q) PROVE SoundRequest(acc', r)
    <3>1. Sound(acc', q.base, q.net, q.about, q.clean) /\ q.base < MaxRev
      BY SoundLater DEF KInv, SoundRequest
    <3> QED BY <2>1, <3>1 DEF SoundRequest, SameContent
  <2> QED BY <2>1
<1>2. ASSUME NEW a \in Admins, draft'[a] # None PROVE SoundDraft(acc', draft'[a])
  <2>1. CASE draft'[a] = draft[a]
    <3>1. SoundDraft(acc, draft[a])
      BY <1>2, <2>1 DEF KInv
    <3>2. Sound(acc', draft[a].base, draft[a].net, draft[a].about, draft[a].clean)
      BY <3>1, SoundLater DEF SoundDraft
    <3> QED BY <2>1, <3>1, <3>2 DEF SoundDraft
  <2> QED BY <1>2, <2>1
<1>3. ASSUME NEW a \in Admins, ui'[a].pc \in Opening PROVE SoundHandler(acc', ui'[a])
  <2>1. CASE ui[a].pc \in Opening /\ ui'[a].snap = ui[a].snap /\ ui'[a].clean = ui[a].clean
    <3>1. Sound(acc, ui[a].snap.rev, ui[a].snap.net, {}, ui[a].clean)
      BY <2>1 DEF KInv, SoundHandler
    <3>2. Sound(acc', ui[a].snap.rev, ui[a].snap.net, {}, ui[a].clean)
      BY <3>1, SoundLater
    <3> QED BY <2>1, <3>2 DEF SoundHandler
  <2> QED BY <1>3, <2>1
<1> QED BY <1>1, <1>2, <1>3 DEF KInv, Opening

(* A step that adds no request, reads nothing and writes no Draft. *)
LEMMA QuietKnown ==
  ASSUME KInv, Quiet, Later(acc, acc'), StoreInv'
  PROVE  KInv'
BY KnownStep DEF Quiet, Fewer, UiQuiet, DraftsQuiet

--------------------------------------------------------------------------
(* Steps. *)

(* netd accepts what it was sent, or goes back to the Accepted state. *)
LEMMA NetdKnown ==
  ASSUME IInv, KInv, Netd
  PROVE  KInv'
<1>1. Quiet
  BY NetdStep
<1>2. op # None => op.req.base = acc.rev /\ acc.rev < MaxRev /\ NetType(op.req.net)
  BY DEF IInv, Shape, Requests, KInv, SoundRequest, Sound
<1>3. MaxRev \in Nat /\ acc.rev \in 1..MaxRev /\ file.rev \in 1..MaxRev
  BY DraftsAssumption DEF DraftsAssumption, KInv, StoreInv
<1>4. op # None => Proposed.rev = acc.rev + 1 /\ NetType(Proposed.net)
  BY <1>2 DEF Proposed
<1>5. CASE acc' = acc /\ (file' \in {file, acc} \/ (op # None /\ file' = Proposed))
  <2>1. StoreInv'
    BY <1>2, <1>3, <1>4, <1>5 DEF StoreInv, KInv
  <2> QED BY <1>1, <1>5, <2>1, QuietKnown DEF Later
<1>6. CASE op # None /\ Accept
  <2>1. acc' = Proposed /\ file' = Proposed
    BY <1>6 DEF Accept
  <2>2. StoreInv' /\ Later(acc, acc')
    BY <1>2, <1>3, <1>4, <1>6, <2>1 DEF StoreInv, Later
  <2> QED BY <1>1, <2>2, QuietKnown
<1> QED
  BY <1>5, <1>6 DEF Netd, apply_desired_request, ProgramProposed, confirm_apply, CommitApply,
     restore_failed_apply, Undo, RequireRecovery, recover_interrupted_apply, recovery_pending

(* The snapshot a handler drafts on. *)
LEMMA SnapshotSound ==
  ASSUME KInv, NEW a \in Admins
  PROVE  LET snap == accepted_snapshot_for_drafting(a)
         IN Sound(acc, snap.rev, snap.net, {}, Clean(a))
<1>1. CASE ui[a].pc = "ready"
  BY <1>1 DEF KInv, SoundHandler, accepted_snapshot_for_drafting, Clean, Opening
<1>2. CASE ui[a].pc # "ready"
  <2>1. file = acc => file.rev <= acc.rev /\ SameParts(acc.net, file.net, {})
    BY DraftsAssumption DEF DraftsAssumption, KInv, StoreInv, SameParts
  <2> QED BY <1>2, <2>1 DEF KInv, StoreInv, Sound, accepted_snapshot_for_drafting, Clean
<1> QED BY <1>1, <1>2

(* A sound Draft is written. *)
LEMMA WrittenKnown ==
  ASSUME IInv, KInv, NEW a \in Admins, NEW d, SoundDraft(acc, d), write_draft(a, d)
  PROVE  KInv'
<1>1. /\ draft' = [draft EXCEPT ![a] = d] /\ ui' = [ui EXCEPT ![a] = Idle]
      /\ UNCHANGED <<acc, file, op, queue>>
  BY DEF write_draft, netdVars
<1>2. Requests' = Requests /\ Later(acc, acc') /\ StoreInv'
  BY <1>1 DEF Requests, Later, KInv, StoreInv
<1>3. \A b \in Admins : draft'[b] # None => draft'[b] = draft[b] \/ SoundDraft(acc', draft'[b])
  BY <1>1 DEF IInv, Shape
<1>4. \A b \in Admins : ui'[b].pc \in Opening =>
        ui[b].pc \in Opening /\ ui'[b].snap = ui[b].snap /\ ui'[b].clean = ui[b].clean
  BY <1>1, IdleHandler DEF IInv, Shape
<1> QED BY <1>2, <1>3, <1>4, KnownStep DEF SameContent

(* A change stored over a Draft, or over the snapshot it begins from. *)
LEMMA ChangeSound ==
  ASSUME NEW base, NEW net, NEW about, NEW clean, Sound(acc, base, net, about, clean),
         NEW c, IsChange(c)
  PROVE  Sound(acc, base, StoreAll(net, c), about \cup AboutAll(c), clean)
<1>1. NetType(StoreAll(net, c)) /\ SameParts(net, StoreAll(net, c), TouchedAll(c))
  BY AllStored DEF Sound
<1>2. TouchedAll(c) \subseteq AboutAll(c)
  BY TouchesAbout
<1>3. SameParts(acc.net, net, about) => SameParts(acc.net, StoreAll(net, c), about \cup AboutAll(c))
  BY <1>1, <1>2 DEF SameParts
<1> QED BY <1>1, <1>3 DEF Sound

(* A Draft is saved: the tunnels it edits it is about. *)
LEMMA SavedKnown ==
  ASSUME NetworksAssumption, IInv, KInv, NEW a \in Admins, save_draft(a)
  PROVE  KInv'
<1> DEFINE snap == accepted_snapshot_for_drafting(a)
           old == IF draft[a] # None THEN draft[a]
                  ELSE Draft(snap.rev, snap.net, {}, {}, {}, Clean(a))
           kept == IF draft[a] = None THEN {} ELSE effective_sections(old)
<1>1. PICK c \in Changes[a] :
        write_draft(a, Draft(old.base, StoreAll(old.net, c),
                             kept \cup UNION {Remembered(c[s]) : s \in DOMAIN c},
                             old.edits \cup edited(c), old.about \cup AboutAll(c), old.clean))
  BY DEF save_draft
<1> DEFINE d == Draft(old.base, StoreAll(old.net, c),
                      kept \cup UNION {Remembered(c[s]) : s \in DOMAIN c},
                      old.edits \cup edited(c), old.about \cup AboutAll(c), old.clean)
<1>2. SoundDraft(acc, old)
  <2>1. CASE draft[a] # None
    BY <2>1 DEF KInv
  <2>2. CASE draft[a] = None
    <3>1. Sound(acc, snap.rev, snap.net, {}, Clean(a))
      BY SnapshotSound
    <3>2. /\ old.base = snap.rev /\ old.net = snap.net /\ old.about = {}
          /\ old.clean = Clean(a) /\ old.edits = {} /\ old.sections = {}
      BY <2>2 DEF Draft
    <3> HIDE DEF old, snap
    <3> QED BY <3>1, <3>2 DEF SoundDraft, Tracks
  <2> QED BY <2>1, <2>2
<1>3. "wireguard" \in kept => "wireguard" \in old.sections
  BY DEF effective_sections
<1>4. /\ d.base = old.base /\ d.net = StoreAll(old.net, c) /\ d.clean = old.clean
      /\ d.about = old.about \cup AboutAll(c) /\ d.edits = old.edits \cup edited(c)
      /\ d.sections = kept \cup UNION {Remembered(c[s]) : s \in DOMAIN c}
  BY DEF Draft
<1>5. write_draft(a, d)
  BY <1>1
<1> HIDE DEF old, kept, d, snap
<1>6. IsChange(c)
  BY DEF NetworksAssumption, IsChange
<1>7. Sound(acc, d.base, d.net, d.about, d.clean)
  BY <1>2, <1>4, <1>6, ChangeSound DEF SoundDraft
<1>8. Tracks(d)
  <2> SUFFICES ASSUME NEW t \in Tunnels,
                      t \in d.edits \/ (d.edits = {} /\ "wireguard" \in d.sections)
               PROVE  <<"wg", t>> \in d.about
    BY DEF Tracks
  <2>1. CASE t \in old.edits \/ (old.edits = {} /\ "wireguard" \in old.sections)
    BY <1>2, <1>4, <2>1 DEF SoundDraft, Tracks
  <2>2. CASE /\ "wireguard" \in DOMAIN c
             /\ t = c["wireguard"].name \/ c["wireguard"].name = None
    <3>1. c["wireguard"].section = "wireguard"
      BY <1>6, <2>2 DEF IsChange
    <3>2. <<"wg", t>> \in About(c["wireguard"])
      BY <2>2, <3>1 DEF About
    <3> QED BY <1>4, <2>2, <3>2 DEF AboutAll
  <2>3. CASE t \in edited(c)
    BY <2>2, <2>3 DEF edited
  <2>4. CASE d.edits = {} /\ "wireguard" \in d.sections /\ "wireguard" \notin kept
    <3>1. PICK s \in DOMAIN c : "wireguard" \in Remembered(c[s])
      BY <1>4, <2>4
    <3>2. c[s].section = s
      BY <1>6 DEF IsChange
    <3>3. s = "wireguard"
      BY <3>1, <3>2 DEF Remembered
    <3>4. edited(c) = {}
      BY <1>4, <2>4
    <3>5. c["wireguard"].name = None
      BY <3>3, <3>4 DEF edited
    <3> QED BY <2>2, <3>3, <3>5
  <2>5. CASE d.edits = {} /\ "wireguard" \in kept
    BY <1>3, <1>4, <2>1, <2>5
  <2> QED BY <1>4, <2>1, <2>3, <2>4, <2>5
<1> QED BY <1>5, <1>7, <1>8, WrittenKnown DEF SoundDraft

(* A Draft is reconciled: it begins anew from the snapshot. *)
LEMMA ReconciledKnown ==
  ASSUME NetworksAssumption, IInv, KInv, NEW a \in Admins, reconcile_draft(a)
  PROVE  KInv'
<1> DEFINE o == draft[a]
           snap == accepted_snapshot_for_drafting(a)
<1>1. PICK c \in Reviews(a, o) :
        write_draft(a, Draft(snap.rev, reconciled_desired(o, snap.net, c),
                             effective_sections(o), o.edits, aboutReview(o, c), Clean(a)))
  BY DEF reconcile_draft
<1> DEFINE d == Draft(snap.rev, reconciled_desired(o, snap.net, c),
                      effective_sections(o), o.edits, aboutReview(o, c), Clean(a))
<1>2. write_draft(a, d)
  BY <1>1
<1>3. SoundDraft(acc, o)
  BY DEF reconcile_draft, KInv
<1>4. Sound(acc, snap.rev, snap.net, {}, Clean(a))
  BY SnapshotSound
<1>5. /\ d.base = snap.rev /\ d.net = reconciled_desired(o, snap.net, c) /\ d.clean = Clean(a)
      /\ d.about = aboutReview(o, c) /\ d.edits = o.edits /\ d.sections = effective_sections(o)
  BY DEF Draft
<1> HIDE DEF o, d, snap
<1>6. /\ NetType(reconciled_desired(o, snap.net, c))
      /\ SameParts(snap.net, reconciled_desired(o, snap.net, c), aboutReview(o, c))
  BY <1>3, <1>4, ReconciledIs DEF SoundDraft, Sound
<1>7. Sound(acc, d.base, d.net, d.about, d.clean)
  BY <1>4, <1>5, <1>6 DEF Sound, SameParts
<1>8. Tracks(d)
  <2> SUFFICES ASSUME NEW t \in Tunnels,
                      t \in o.edits \/ (o.edits = {} /\ "wireguard" \in o.sections)
               PROVE  <<"wg", t>> \in aboutReview(o, c)
    BY <1>5 DEF Tracks, effective_sections
  <2>1. <<"wg", t>> \in o.about /\ <<"wg", t>> \in Parts
    BY <1>3 DEF SoundDraft, Tracks, Parts
  <2> QED BY <2>1 DEF aboutReview
<1> QED BY <1>2, <1>7, <1>8, WrittenKnown DEF SoundDraft

(* A file is imported: it is about every part. *)
LEMMA ImportedKnown ==
  ASSUME NetworksAssumption, IInv, KInv, NEW a \in Admins, import_desired(a)
  PROVE  KInv'
<1> DEFINE snap == accepted_snapshot_for_drafting(a)
<1>1. PICK net \in Imports[a] : write_draft(a, imported_draft(net, snap, Clean(a)))
  BY DEF import_desired
<1> DEFINE d == imported_draft(net, snap, Clean(a))
<1>2. /\ d.base = snap.rev /\ d.net = net /\ d.about = Parts /\ d.clean = Clean(a)
      /\ write_draft(a, d)
  BY <1>1 DEF imported_draft, Draft
<1>3. Sound(acc, snap.rev, snap.net, {}, Clean(a))
  BY SnapshotSound
<1> HIDE DEF d, snap
<1>4. NetType(net) /\ SameParts(acc.net, net, Parts)
  BY DEF NetworksAssumption, SameParts
<1>5. Sound(acc, d.base, d.net, d.about, d.clean)
  BY <1>2, <1>3, <1>4 DEF Sound
<1>6. Tracks(d)
  BY <1>2 DEF Tracks, Parts
<1> QED BY <1>2, <1>5, <1>6, WrittenKnown DEF SoundDraft

(* A request put into the backlog. *)
LEMMA SentKnown ==
  ASSUME IInv, KInv, NEW a \in Admins, NEW r, SoundRequest(acc, r), submit_desired_apply(a, r)
  PROVE  KInv'
<1>1. /\ queue' = Append(queue, r) /\ ui' = [ui EXCEPT ![a] = [Idle EXCEPT !.pc = "wait"]]
      /\ UNCHANGED <<acc, file, op, draft>>
  BY DEF submit_desired_apply, netdVars
<1>2. Requests' = Requests \cup {r}
  BY <1>1, AppendSet DEF IInv, Shape, Requests
<1>3. Later(acc, acc') /\ StoreInv'
  BY <1>1 DEF Later, KInv, StoreInv
<1>4. \A b \in Admins : ui'[b].pc \in Opening =>
        ui[b].pc \in Opening /\ ui'[b].snap = ui[b].snap /\ ui'[b].clean = ui[b].clean
  BY <1>1 DEF IInv, Shape, Idle, Opening
<1>5. \A q \in Requests' : SoundRequest(acc', q) \/ \E x \in Requests : SameContent(q, x)
  BY <1>1, <1>2 DEF SameContent
<1> HIDE DEF KInv
<1> QED BY <1>1, <1>3, <1>4, <1>5, KnownStep

(* A Draft or one edit is sent, on the Accepted revision. *)
LEMMA AppliesKnown ==
  ASSUME NetworksAssumption, IInv, KInv, NEW a \in Admins, Applying(a)
  PROVE  KInv'
<1>1. CASE apply_draft(a)
  <2> DEFINE r == Request(a, draft[a].base, draft[a].net, draft[a].version,
                          draft[a].about, draft[a].clean)
  <2>1. /\ r.base = draft[a].base /\ r.net = draft[a].net /\ r.about = draft[a].about
        /\ r.clean = draft[a].clean /\ submit_desired_apply(a, r) /\ draft[a] # None
    BY <1>1 DEF apply_draft, Request
  <2>2. r.base = acc.rev /\ acc.rev < MaxRev
    BY <1>1 DEF apply_draft, submit_desired_apply, Request
  <2>3. SoundDraft(acc, draft[a])
    BY <2>1 DEF KInv
  <2> HIDE DEF r
  <2> QED BY <2>1, <2>2, <2>3, SentKnown DEF SoundDraft, SoundRequest
<1>2. CASE \E sections : DirectApply(a, sections)
  <2>1. PICK e \in Edits[a] :
          /\ Fits(acc.net, e)
          /\ submit_desired_apply(a, Request(a, acc.rev, Store(acc.net, e), None, About(e), TRUE))
    BY <1>2 DEF DirectApply
  <2> DEFINE r == Request(a, acc.rev, Store(acc.net, e), None, About(e), TRUE)
  <2>2. /\ r.base = acc.rev /\ r.net = Store(acc.net, e) /\ r.about = About(e)
        /\ r.clean = TRUE /\ submit_desired_apply(a, r) /\ acc.rev < MaxRev
    BY <2>1 DEF submit_desired_apply, Request
  <2>3. /\ NetType(Store(acc.net, e)) /\ SameParts(acc.net, Store(acc.net, e), About(e))
    <3>1. EditType(e) /\ NetType(acc.net)
      BY DEF NetworksAssumption, KInv, StoreInv
    <3>2. /\ NetType(Store(acc.net, e)) /\ SameParts(acc.net, Store(acc.net, e), Touched(e))
          /\ Touched(e) \subseteq About(e)
      BY <2>1, <3>1, EditKeepsOthers
    <3> QED BY <3>2 DEF SameParts
  <2>4. acc.rev \in 1..MaxRev
    BY DEF KInv, StoreInv
  <2> HIDE DEF r
  <2>5. Sound(acc, r.base, r.net, r.about, r.clean)
    BY <2>2, <2>3, <2>4, DraftsAssumption DEF DraftsAssumption, Sound
  <2> QED BY <2>2, <2>5, SentKnown DEF SoundRequest
<1> QED
  BY <1>1, <1>2 DEF Applying, apply_route_change, apply_interfaces, apply_lan_services,
     apply_firewall, apply_wireguard, apply_qdiscs, apply_ipv6, configure_apply_confirmation

(* A handler reads its snapshot. *)
LEMMA LockedKnown ==
  ASSUME IInv, KInv, NEW a \in Admins, draft_lock(a)
  PROVE  KInv'
<1>1. UNCHANGED <<acc, file, op, queue, draft>> /\ ui[a].pc = "idle"
  BY DEF draft_lock, netdVars
<1>2. ui'[a].snap = file /\ ui'[a].clean = (file = acc) /\ \A b \in Admins : b # a => ui'[b] = ui[b]
  BY DEF draft_lock, IInv, Shape, Idle
<1>3. SoundHandler(acc, ui'[a])
  BY <1>1, <1>2, SnapshotSound DEF accepted_snapshot_for_drafting, Clean, SoundHandler
<1>4. Requests' = Requests /\ Later(acc, acc') /\ StoreInv'
  BY <1>1 DEF Requests, Later, KInv, StoreInv
<1> HIDE DEF KInv
<1> QED BY <1>1, <1>2, <1>3, <1>4, KnownStep DEF SameContent

(* Every step of a handler. *)
LEMMA HandlerKnown ==
  ASSUME NetworksAssumption, IInv, KInv, NEW a \in Admins, Handler(a)
  PROVE  KInv'
<1>1. CASE Quiet /\ UNCHANGED <<acc, file>>
  BY <1>1, QuietKnown DEF Later, KInv, StoreInv
<1>2. CASE draft_lock(a)
  BY <1>2, LockedKnown
<1>3. CASE read_draft_reconciled(a)
  BY <1>1, <1>3, Reconciled DEF read_draft_reconciled, StableRevision, ReceiptFound,
     DraftRetained, netdVars
<1>4. CASE draft_status(a)
  <2>1. Quiet
    BY <1>4, HandlerQuiet, IdleHandler DEF draft_status
  <2> QED BY <1>1, <1>4, <2>1 DEF draft_status, netdVars
<1>5. CASE save_draft(a) \/ reconcile_draft(a) \/ import_desired(a)
  BY <1>5, SavedKnown, ReconciledKnown, ImportedKnown
<1>6. CASE Applying(a)
  BY <1>6, AppliesKnown
<1>7. CASE AnswerApply(a)
  <2>1. Quiet
    BY <1>7, HandlerQuiet, IdleHandler DEF AnswerApply
  <2> QED BY <1>1, <1>7, <2>1 DEF AnswerApply, netdVars
<1>8. CASE GiveUp(a)
  BY <1>1, <1>8, GivenUp DEF GiveUp
<1> QED BY <1>2, <1>3, <1>4, <1>5, <1>6, <1>7, <1>8 DEF Handler

(* What is known of networks holds in every state. *)
LEMMA KnownInductive ==
  ASSUME NetworksAssumption, DraftsAssumption
  PROVE  Spec => []KInv
<1>1. ASSUME Init PROVE KInv
  <2>1. Requests = {}
    <3>1. queue = <<>> /\ op = None
      BY <1>1 DEF Init
    <3>2. ToSet(queue) = {}
      BY <3>1 DEF ToSet
    <3> QED BY <3>1, <3>2 DEF Requests
  <2>2. \A a \in Admins : draft[a] = None /\ ui[a] = Idle
    BY <1>1 DEF Init
  <2>3. StoreInv
    BY <1>1, DraftsAssumption DEF Init, StoreInv, DraftsAssumption, NetworksAssumption
  <2> QED BY <2>1, <2>2, <2>3, IdleHandler DEF KInv
<1>2. ASSUME IInv, KInv, UNCHANGED vars PROVE KInv'
  <2>1. Quiet
    BY <1>2, StutterIInv
  <2> QED BY <1>2, <2>1, QuietKnown DEF vars, Later, KInv, StoreInv
<1>3. IInv /\ KInv /\ [Next]_vars => KInv'
  BY <1>2, NetdKnown, HandlerKnown DEF Next
<1> QED BY <1>1, <1>3, Inductive, PTL DEF Spec

--------------------------------------------------------------------------
(* The theorems. *)

(* Only netd changes the Accepted state. *)
LEMMA HandlersPropose ==
  ASSUME NEW a \in Admins, Handler(a)
  PROVE  UNCHANGED acc
<1>1. CASE Applying(a)
  BY <1>1 DEF Applying, apply_draft, apply_route_change, apply_interfaces, apply_lan_services,
     apply_firewall, apply_wireguard, apply_qdiscs, apply_ipv6, configure_apply_confirmation,
     DirectApply, submit_desired_apply, netdVars
<1>2. CASE save_draft(a) \/ reconcile_draft(a) \/ import_desired(a)
  BY <1>2 DEF save_draft, reconcile_draft, import_desired, write_draft, netdVars
<1> QED
  BY <1>1, <1>2 DEF Handler, draft_lock, read_draft_reconciled, StableRevision, ReceiptFound,
     DraftRetained, draft_status, AnswerApply, GiveUp, netdVars

(* NoLostUpdate: an apply whose Draft began from the Accepted state changes *)
(* only what its administrator proposed to change, whoever else had applies *)
(* accepted since the Draft was begun, and whatever network that was.       *)
THEOREM UpdatesAreKept ==
  ASSUME NetworksAssumption, DraftsAssumption
  PROVE  Spec => NoLostUpdate
<1>1. ASSUME IInv, KInv, Next, acc' # acc, op.req.clean
      PROVE  \A p \in Parts \ op.req.about : PartOf(acc'.net, p) = PartOf(acc.net, p)
  <2>1. op # None /\ acc' = Proposed
    <3>1. CASE Netd
      BY <1>1, <3>1 DEF Netd, apply_desired_request, ProgramProposed, confirm_apply, CommitApply,
         restore_failed_apply, Undo, RequireRecovery, recover_interrupted_apply,
         recovery_pending, Accept
    <3> QED BY <1>1, <3>1, HandlersPropose DEF Next
  <2>2. op.req \in Requests /\ op.req.base = acc.rev
    BY <1>1, <2>1 DEF IInv, Shape, Requests
  <2>3. SameParts(acc.net, op.req.net, op.req.about)
    BY <1>1, <2>2 DEF KInv, SoundRequest, Sound
  <2> QED BY <2>1, <2>3 DEF SameParts, Proposed
<1>2. IInv /\ KInv /\ [Next]_vars =>
        [acc' # acc /\ op.req.clean =>
           \A p \in Parts \ op.req.about : PartOf(acc'.net, p) = PartOf(acc.net, p)]_vars
  BY <1>1 DEF vars
<1> QED BY <1>2, Inductive, KnownInductive, PTL DEF Spec, NoLostUpdate

--------------------------------------------------------------------------
(* The rest of the type invariant. *)

Phases == {"applying", "persisted", "pending", "recovery"}
Pcs == {"idle", "stable", "receipt", "ready", "wait"}

CountInv ==
  /\ receipts \in [Admins -> 0..tokens]
  /\ op # None => op.phase \in Phases
  /\ Len(queue) <= MaxQueue
  /\ \A a \in Admins : ui[a].pc \in Pcs
  /\ tokens \in 0..MaxTokens

(* The lengths of the backlog. *)
LEMMA QueueLengths ==
  ASSUME Shape
  PROVE  /\ Len(queue) \in Nat
         /\ \A r : Len(Append(queue, r)) = Len(queue) + 1
         /\ queue # <<>> => Len(Tail(queue)) = Len(queue) - 1
         /\ \A a : Len([k \in DOMAIN queue |-> Abandoned(queue[k], a)]) = Len(queue)
<1>1. queue \in Seq(ToSet(queue)) /\ Len(queue) \in Nat /\ DOMAIN queue = 1..Len(queue)
  BY DEF Shape
<1>2. ASSUME NEW r PROVE Len(Append(queue, r)) = Len(queue) + 1
  <2>1. queue \in Seq(ToSet(queue) \cup {r})
    BY <1>1
  <2> QED BY <2>1
<1>3. \A a : Len([k \in DOMAIN queue |-> Abandoned(queue[k], a)]) = Len(queue)
  BY <1>1
<1>4. queue # <<>> => Len(Tail(queue)) = Len(queue) - 1
  BY <1>1
<1> QED BY <1>1, <1>2, <1>3, <1>4

(* netd's steps keep the counts. *)
LEMMA NetdCounts ==
  ASSUME DraftsAssumption, IInv, CountInv, Netd
  PROVE  CountInv'
<1>1. ASSUME NEW r, NEW outcome, Reply(r, outcome) \/ UNCHANGED ui
      PROVE  \A a \in Admins : ui'[a].pc \in Pcs
  BY <1>1 DEF Reply, IInv, Shape, IsHandler, CountInv
<1>2. UNCHANGED tokens /\ \E r, outcome : Reply(r, outcome) \/ UNCHANGED ui
  BY DEF Netd, apply_desired_request, ProgramProposed, confirm_apply, CommitApply,
     restore_failed_apply, RequireRecovery, recover_interrupted_apply
<1>3. \A a \in Admins : ui'[a].pc \in Pcs
  BY <1>1, <1>2
<1>4. Len(queue') <= MaxQueue
  <2>1. UNCHANGED queue \/ (queue # <<>> /\ queue' = Tail(queue))
    BY DEF Netd, apply_desired_request, ProgramProposed, confirm_apply, CommitApply,
       restore_failed_apply, RequireRecovery, recover_interrupted_apply
  <2> QED BY <2>1, QueueLengths DEF IInv, CountInv, DraftsAssumption
<1>5. op' # None => op'.phase \in Phases
  <2>1. CASE apply_desired_request
    BY <2>1 DEF apply_desired_request, CountInv, Phases
  <2>2. CASE op # None /\ op' \in {[op EXCEPT !.phase = "pending", !.req.live = FALSE],
                                  [op EXCEPT !.phase = "persisted"],
                                  [op EXCEPT !.phase = "recovery", !.req.live = FALSE]}
    BY <2>2 DEF IInv, Shape, Phases
  <2>3. CASE op' = None
    BY <2>3
  <2> QED
    BY <2>1, <2>2, <2>3 DEF Netd, ProgramProposed, confirm_apply, CommitApply, Accept, Undo,
       restore_failed_apply, RequireRecovery, recover_interrupted_apply
<1>6. receipts' \in [Admins -> 0..tokens]
  <2>1. CASE op # None /\ Accept
    <3>1. op.req \in Requests /\ op.req.who \in Admins
      BY <2>1 DEF IInv, Shape, Requests
    <3>2. op.req.version # None => OfRequest(op.req) \in Carried
      BY <3>1 DEF Carried
    <3>3. op.req.version # None => op.req.version \in 0..tokens
      BY <3>2 DEF IInv, Shape, VersionInv, OfRequest
    <3> QED BY <2>1, <3>3 DEF Accept, accepted_draft_receipts, CountInv
  <2>2. CASE UNCHANGED receipts
    BY <2>2 DEF CountInv
  <2> QED
    BY <2>1, <2>2 DEF Netd, apply_desired_request, ProgramProposed, confirm_apply, CommitApply,
       Undo, restore_failed_apply, RequireRecovery, recover_interrupted_apply, recovery_pending
<1> QED BY <1>2, <1>3, <1>4, <1>5, <1>6 DEF CountInv

(* The handlers' steps keep the counts. *)
LEMMA HandlerCounts ==
  ASSUME DraftsAssumption, IInv, CountInv, NEW a \in Admins, Handler(a)
  PROVE  CountInv'
<1>1. UNCHANGED receipts
  <2>1. CASE Applying(a)
    BY <2>1 DEF Applying, apply_draft, apply_route_change, apply_interfaces,
       apply_lan_services, apply_firewall, apply_wireguard, apply_qdiscs, apply_ipv6,
       configure_apply_confirmation, DirectApply, submit_desired_apply, netdVars
  <2>2. CASE save_draft(a) \/ reconcile_draft(a) \/ import_desired(a)
    BY <2>2 DEF save_draft, reconcile_draft, import_desired, write_draft, netdVars
  <2> QED
    BY <2>1, <2>2 DEF Handler, draft_lock, read_draft_reconciled, StableRevision,
       ReceiptFound, DraftRetained, draft_status, AnswerApply, GiveUp, netdVars
<1>2. ASSUME NEW h, h.pc \in Pcs, ui' = [ui EXCEPT ![a] = h], tokens' \in {tokens, tokens + 1},
             tokens' \in 0..MaxTokens, Len(queue') <= MaxQueue, op' = op
      PROVE  CountInv'
  <2>1. 0..tokens \subseteq 0..tokens'
    BY <1>2 DEF IInv, Shape
  <2>2. receipts' \in [Admins -> 0..tokens']
    BY <1>1, <2>1 DEF CountInv
  <2>3. \A b \in Admins : ui'[b].pc \in Pcs
    BY <1>2 DEF IInv, Shape, CountInv
  <2> QED BY <1>2, <2>2, <2>3 DEF CountInv
<1>3. Idle.pc \in Pcs /\ IsHandler(ui[a])
  BY DEF Idle, Pcs, IInv, Shape
<1>4. ASSUME NEW h, h.pc \in Pcs, ui' = [ui EXCEPT ![a] = h], UNCHANGED <<tokens, queue, op>>
      PROVE  CountInv'
  BY <1>2, <1>4 DEF CountInv
<1>5. CASE draft_lock(a)
  <2>1. PICK h : h = [Idle EXCEPT !.pc = "stable", !.snap = file, !.clean = file = acc]
    OBVIOUS
  <2>2. h.pc \in Pcs /\ ui' = [ui EXCEPT ![a] = h] /\ UNCHANGED <<tokens, queue, op>>
    BY <1>5, <2>1 DEF draft_lock, Idle, Pcs, netdVars
  <2> QED BY <1>4, <2>2
<1>6. CASE read_draft_reconciled(a)
  <2>1. PICK h : h \in {[ui[a] EXCEPT !.pc = "receipt"], [ui[a] EXCEPT !.pc = "ready"], Idle}
                 /\ ui' = [ui EXCEPT ![a] = h]
    BY <1>6 DEF read_draft_reconciled, StableRevision, ReceiptFound, DraftRetained
  <2>2. h.pc \in Pcs
    BY <1>3, <2>1 DEF IsHandler, Pcs
  <2>3. UNCHANGED <<tokens, queue, op>>
    BY <1>6 DEF read_draft_reconciled, StableRevision, ReceiptFound, DraftRetained, netdVars
  <2> QED BY <1>4, <2>1, <2>2, <2>3
<1>7. CASE draft_status(a) \/ AnswerApply(a)
  BY <1>3, <1>4, <1>7 DEF draft_status, AnswerApply, netdVars
<1>8. CASE save_draft(a) \/ reconcile_draft(a) \/ import_desired(a)
  <2>1. /\ tokens < MaxTokens /\ tokens' = tokens + 1 /\ ui' = [ui EXCEPT ![a] = Idle]
        /\ UNCHANGED <<queue, op>>
    BY <1>8 DEF save_draft, reconcile_draft, import_desired, write_draft, netdVars
  <2>2. tokens' \in 0..MaxTokens /\ Len(queue') <= MaxQueue
    BY <2>1 DEF CountInv, DraftsAssumption
  <2>3. Idle.pc \in Pcs /\ op' = op /\ tokens' \in {tokens, tokens + 1}
    BY <1>3, <2>1
  <2> HIDE DEF CountInv
  <2> QED BY <1>2, <2>1, <2>2, <2>3
<1>9. CASE Applying(a)
  <2>1. \/ UNCHANGED tokens
        \/ tokens < MaxTokens /\ tokens' = tokens + 1
    BY <1>9 DEF Applying, apply_draft, apply_route_change, apply_interfaces,
       apply_lan_services, apply_firewall, apply_wireguard, apply_qdiscs, apply_ipv6,
       configure_apply_confirmation, DirectApply
  <2>2. PICK r : submit_desired_apply(a, r)
    BY <1>9 DEF Applying, apply_draft, apply_route_change, apply_interfaces,
       apply_lan_services, apply_firewall, apply_wireguard, apply_qdiscs, apply_ipv6,
       configure_apply_confirmation, DirectApply
  <2>3. PICK h : h = [Idle EXCEPT !.pc = "wait"]
    OBVIOUS
  <2>4. h.pc \in Pcs /\ ui' = [ui EXCEPT ![a] = h] /\ op' = op
    BY <2>2, <2>3 DEF submit_desired_apply, Idle, Pcs, netdVars
  <2>5. Len(queue') <= MaxQueue
    BY <2>2, QueueLengths DEF submit_desired_apply, IInv, DraftsAssumption
  <2>6. tokens' \in {tokens, tokens + 1} /\ tokens' \in 0..MaxTokens
    BY <2>1 DEF CountInv, DraftsAssumption
  <2> QED BY <1>2, <2>4, <2>5, <2>6
<1>10. CASE GiveUp(a)
  <2>1. \A b \in Admins : ui'[b].pc \in Pcs
    BY <1>3, <1>10 DEF GiveUp, IInv, Shape, CountInv
  <2>2. op' # None => op'.phase \in Phases
    BY <1>10 DEF GiveUp, IInv, Shape, CountInv
  <2>3. Len(queue') <= MaxQueue /\ UNCHANGED tokens
    BY <1>10, QueueLengths DEF GiveUp, IInv, CountInv
  <2> QED BY <1>1, <2>1, <2>2, <2>3 DEF CountInv
<1> QED BY <1>5, <1>6, <1>7, <1>8, <1>9, <1>10 DEF Handler

(* TypeOK: whatever is edited, imported or retried, every state holds what  *)
(* it should, and desired.toml is at most one revision ahead of netd.       *)
THEOREM TypeCorrect ==
  ASSUME NetworksAssumption, DraftsAssumption
  PROVE  Spec => []TypeOK
<1>1. ASSUME Init PROVE CountInv
  <2>1. Len(queue) = 0
    BY <1>1 DEF Init
  <2> QED BY <1>1, <2>1 DEF Init, CountInv, DraftsAssumption, Idle, Pcs
<1>2. IInv /\ CountInv /\ [Next]_vars => CountInv'
  <2>1. IInv /\ CountInv /\ UNCHANGED vars => CountInv'
    BY DEF vars, CountInv
  <2> QED BY <2>1, NetdCounts, HandlerCounts DEF Next
<1>3. IInv /\ KInv /\ CountInv => TypeOK
  <2> SUFFICES ASSUME IInv, KInv, CountInv PROVE TypeOK
    OBVIOUS
  <2>1. \A a \in Admins : draft[a] # None =>
          /\ draft[a].base \in 1..MaxRev /\ draft[a].version \in 1..tokens
          /\ NetType(draft[a].net)
    <3> SUFFICES ASSUME NEW a \in Admins, draft[a] # None
                 PROVE  /\ draft[a].base \in 1..MaxRev /\ draft[a].version \in 1..tokens
                        /\ NetType(draft[a].net)
      OBVIOUS
    <3>1. OfDraft(a) \in Carried
      BY DEF Carried
    <3>2. draft[a].version \in 1..tokens
      BY <3>1 DEF IInv, VersionInv, OfDraft
    <3> QED BY <3>2 DEF KInv, SoundDraft, Sound
  <2> QED BY <2>1 DEF TypeOK, IInv, Shape, KInv, StoreInv, CountInv, Phases, Pcs
<1> QED BY <1>1, <1>2, <1>3, Inductive, KnownInductive, PTL DEF Spec
=============================================================================
