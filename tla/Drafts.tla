-------------------------------- MODULE Drafts --------------------------------
(***************************************************************************)
(* fwos-ui's private Drafts and applies against netd.                      *)
(*                                                                         *)
(* Every administrator has at most one Draft, a file beside the Accepted   *)
(* Desired state, and a lock that one request handler at a time holds.  A  *)
(* handler first opens the Draft: it reads desired.toml, and when that has *)
(* moved on from the Draft's base asks netd twice whether this very        *)
(* version of the Draft was accepted meanwhile, and forgets it if so.      *)
(* Then it saves, reconciles, imports, applies the Draft, or applies one   *)
(* edit directly when there is no Draft.                                   *)
(*                                                                         *)
(* netd is one thread: it answers between two applies, and a request waits *)
(* in the socket's backlog until then.  A handler gives up after a time;   *)
(* its request stays in the backlog and is carried out all the same.  netd *)
(* is here what NetdApply shows of it: an apply is accepted or undone as a *)
(* whole.  What NetdApply's clients do not see, and fwos-ui does, is       *)
(* desired.toml itself, which holds the proposal before it is accepted.    *)
(***************************************************************************)
EXTENDS Sections

CONSTANTS
  Admins,      \* administrators (one Draft and one lock each)
  InitNet,     \* the network accepted by Bootstrap
  Edits,       \* for each, edits of one section it may apply directly
  Changes,     \* for each, Draft changes: functions from section names to edits
  Imports,     \* for each, networks an imported file may hold
  MaxRev,      \* bound on Accepted revisions
  MaxTokens,   \* bound on Draft versions issued and direct applies sent
  MaxQueue     \* bound on requests in netd's backlog

ASSUME DraftsAssumption ==
  /\ MaxRev \in Nat \ {0} /\ MaxTokens \in Nat /\ MaxQueue \in Nat
  /\ \A a \in Admins : \A c \in Changes[a] : DOMAIN c # {}

ASSUME NetworksAssumption ==
  /\ NetType(InitNet)
  /\ \A a \in Admins :
       /\ \A net \in Imports[a] : NetType(net)
       /\ \A e \in Edits[a] : EditType(e)
       /\ \A c \in Changes[a] : \A s \in DOMAIN c : EditType(c[s]) /\ c[s].section = s

VARIABLES
  acc,       \* the Accepted Desired state: rev, net
  file,      \* what desired.toml holds: rev, net
  receipts,  \* the Draft version netd last accepted of each administrator
  op,        \* the apply netd is carrying out: phase, req; or None
  queue,     \* requests in netd's backlog
  draft,     \* the Draft file of each administrator, or None
  ui,        \* the handler that holds each administrator's lock
  tokens,    \* Draft versions issued and direct applies sent so far
  applied    \* history: the Draft versions accepted, in order

vars == <<acc, file, receipts, op, queue, draft, ui, tokens, applied>>

netdVars == <<acc, file, receipts, op, applied>>

--------------------------------------------------------------------------
(* Draft, the requests a handler sends, and the handler. *)

Idle == [pc |-> "idle", snap |-> None, clean |-> FALSE, reply |-> None]

\* about: the parts of the network the administrator proposed to change;
\* clean: the snapshot it all began from was Accepted when it was read.
Draft(base, net, sections, edits, about, clean) ==
  [base |-> base, version |-> tokens + 1, net |-> net, sections |-> sections,
   edits |-> edits, about |-> about, clean |-> clean]

Request(who, base, net, version, about, clean) ==
  [who |-> who, base |-> base, net |-> net, version |-> version,
   about |-> about, clean |-> clean, live |-> TRUE]

effective_sections(d) == IF d.sections = {} THEN {"routes"} ELSE d.sections

\* The sections of change c stored over network n, in the order of the code.
StoreAll(n, c) ==
  LET stored(net, s) == IF s \in DOMAIN c THEN Store(net, c[s]) ELSE net
      first == stored(stored(stored(n, "routes"), "interfaces"), "services")
  IN stored(stored(stored(stored(first, "firewall"), "wireguard"), "qdiscs"), "ipv6")

\* A WAN must be there when WAN IPv6 is stored, last.
FitsAll(n, c) == "ipv6" \in DOMAIN c => Fits(StoreAll(n, c), c["ipv6"])

AboutAll(c) == UNION {About(c[s]) : s \in DOMAIN c}

TypeOK ==
  /\ acc.rev \in 1..MaxRev /\ NetType(acc.net)
  /\ file.rev \in {acc.rev, acc.rev + 1} /\ NetType(file.net)
  /\ receipts \in [Admins -> 0..tokens]
  /\ op # None => op.phase \in {"applying", "persisted", "pending", "recovery"}
  /\ Len(queue) <= MaxQueue
  /\ \A a \in Admins :
       /\ draft[a] # None => /\ draft[a].base \in 1..MaxRev
                             /\ draft[a].version \in 1..tokens
                             /\ NetType(draft[a].net)
       /\ ui[a].pc \in {"idle", "stable", "receipt", "ready", "wait"}
  /\ tokens \in 0..MaxTokens

Init ==
  /\ acc = [rev |-> 1, net |-> InitNet]
  /\ file = acc
  /\ receipts = [a \in Admins |-> 0]
  /\ op = None
  /\ queue = <<>>
  /\ draft = [a \in Admins |-> None]
  /\ ui = [a \in Admins |-> Idle]
  /\ tokens = 0
  /\ applied = <<>>

--------------------------------------------------------------------------
(* netd's answers to the questions of a handler. *)

\* netd's thread is at its socket.
Listening == op # None => op.phase \in {"pending", "recovery"}

recovery_pending == op # None /\ op.phase = "recovery"

\* get_desired is answered, with the Accepted state.
complete_desired == Listening /\ ~ recovery_pending

\* Mutant: any receipt of the owner counts, whatever its version.
was_any_accepted(a, revision, version) ==
  acc.rev = revision /\ receipts[a] # 0

was_draft_accepted(a, revision, version) ==
  acc.rev = revision /\ receipts[a] = version

--------------------------------------------------------------------------
(***************************************************************************)
(* A handler opens the Draft under its owner's lock.  Nobody else sees the *)
(* Draft or what the handler has read, so a handler that has nothing to    *)
(* ask about the Draft reads its snapshot in the step in which it acts.    *)
(***************************************************************************)

accepted_snapshot_for_drafting(a) == IF ui[a].pc = "ready" THEN ui[a].snap ELSE file

Clean(a) == IF ui[a].pc = "ready" THEN ui[a].clean ELSE file = acc

Stale(a) == draft[a] # None /\ draft[a].base # file.rev

draft_lock(a) ==
  /\ ui[a].pc = "idle"
  /\ Stale(a)
  /\ ui' = [ui EXCEPT ![a] = [Idle EXCEPT !.pc = "stable", !.snap = file,
                                          !.clean = file = acc]]
  /\ UNCHANGED <<netdVars, queue, draft, tokens>>

Opened(a) == ui[a].pc = "ready" \/ (ui[a].pc = "idle" /\ ~ Stale(a))

\* netd answers get_desired with the revision of the snapshot.
StableRevision(a) ==
  /\ ui[a].pc = "stable"
  /\ complete_desired
  /\ acc.rev = ui[a].snap.rev
  /\ ui' = [ui EXCEPT ![a].pc = "receipt"]
  /\ UNCHANGED <<netdVars, queue, draft, tokens>>

\* netd has the receipt of this version: the Draft is removed.
ReceiptFound(a) ==
  /\ ui[a].pc = "receipt"
  /\ complete_desired
  /\ was_draft_accepted(a, ui[a].snap.rev, draft[a].version)
  /\ draft' = [draft EXCEPT ![a] = None]
  /\ ui' = [ui EXCEPT ![a].pc = "ready"]
  /\ UNCHANGED <<netdVars, queue, tokens>>

\* Another answer, or none in 5 s: the handler goes on with the Draft; when
\* its file cannot be removed the handler ends.
DraftRetained(a) ==
  /\ ui[a].pc \in {"stable", "receipt"}
  /\ ui' \in {[ui EXCEPT ![a].pc = "ready"], [ui EXCEPT ![a] = Idle]}
  /\ UNCHANGED <<netdVars, queue, draft, tokens>>

read_draft_reconciled(a) == StableRevision(a) \/ ReceiptFound(a) \/ DraftRetained(a)

--------------------------------------------------------------------------
(* Handlers that end without asking netd to apply. *)

\* GET /api/draft, and every refusal after the Draft was opened: the request
\* names another version or base, a section does not fit, a file cannot be
\* written, netd does not answer.
draft_status(a) ==
  /\ ui[a].pc = "ready"
  /\ ui' = [ui EXCEPT ![a] = Idle]
  /\ UNCHANGED <<netdVars, queue, draft, tokens>>

\* Mutant: a Draft is written under a version that was never issued.
write_draft_unversioned(a, d) ==
  /\ tokens < MaxTokens
  /\ acc.rev < MaxRev
  /\ draft' = [draft EXCEPT ![a] = d]
  /\ ui' = [ui EXCEPT ![a] = Idle]
  /\ UNCHANGED <<netdVars, queue, tokens>>

write_draft(a, d) ==
  /\ tokens < MaxTokens
  /\ acc.rev < MaxRev
  /\ draft' = [draft EXCEPT ![a] = d]
  /\ tokens' = tokens + 1
  /\ ui' = [ui EXCEPT ![a] = Idle]
  /\ UNCHANGED <<netdVars, queue>>

edited(c) ==
  IF "wireguard" \in DOMAIN c THEN {c["wireguard"].name} \ {None} ELSE {}

\* The Draft as it was reviewed, or a new one on the snapshot.
save_draft(a) ==
  /\ Opened(a)
  /\ \E c \in Changes[a] :
       LET snap == accepted_snapshot_for_drafting(a)
           old == IF draft[a] # None THEN draft[a]
                  ELSE Draft(snap.rev, snap.net, {}, {}, {}, Clean(a))
           kept == IF draft[a] = None THEN {} ELSE effective_sections(old)
       IN /\ FitsAll(old.net, c)
          /\ write_draft(a,
               Draft(old.base, StoreAll(old.net, c),
                     kept \cup UNION {Remembered(c[s]) : s \in DOMAIN c},
                     old.edits \cup edited(c), old.about \cup AboutAll(c), old.clean))

\* Mutant: a Draft carries every tunnel it holds.
every_tunnel(d, t) == TRUE

edited_tunnel(d, t) == d.edits = {} \/ t \in d.edits

carry_wireguard_edits(net, d) ==
  LET carried == {t \in DOMAIN d.net.wg : edited_tunnel(d, t)}
  IN [net EXCEPT !.wg = [t \in DOMAIN @ \cup carried |->
                           IF t \in carried THEN d.net.wg[t] ELSE @[t]]]

\* Only the tunnels the Draft edited are taken from the review.
reviewed(d, c) ==
  [s \in DOMAIN c |->
     IF s = "wireguard" /\ ~ edited_tunnel(d, c[s].name)
     THEN [c[s] EXCEPT !.name = None] ELSE c[s]]

\* An import is carried whole; other sections are laid over the Accepted state.
reconciled_desired(d, net, c) ==
  IF "import" \in d.sections THEN d.net
  ELSE StoreAll(IF "wireguard" \in d.sections THEN carry_wireguard_edits(net, d) ELSE net,
                reviewed(d, c))

\* What the review proposes: its sections, and the tunnels of the Draft.
aboutReview(d, c) ==
  IF "import" \in d.sections THEN Parts
  ELSE {p \in AboutAll(c) : p[1] = "wg" => p \in d.about}
       \cup {p \in d.about : p[1] = "wg"}

Reviews(a, d) ==
  LET edits == UNION {{c[s] : s \in DOMAIN c} : c \in Changes[a]}
  IN {c \in [effective_sections(d) \ {"import"} -> edits] :
        \A s \in DOMAIN c : c[s].section = s}

reconcile_draft(a) ==
  LET d == draft[a]
      snap == accepted_snapshot_for_drafting(a)
  IN /\ Opened(a)
     /\ d # None
     /\ d.base # snap.rev
     /\ \E c \in Reviews(a, d) :
          /\ FitsAll(snap.net, reviewed(d, c))
          /\ write_draft(a,
               Draft(snap.rev, reconciled_desired(d, snap.net, c), effective_sections(d),
                     d.edits, aboutReview(d, c), Clean(a)))

imported_draft(net, snap, clean) ==
  Draft(snap.rev, net, {"import"}, DOMAIN net.wg, Parts, clean)

import_desired(a) ==
  /\ Opened(a)
  /\ draft[a] = None
  /\ \E net \in Imports[a] :
       write_draft(a, imported_draft(net, accepted_snapshot_for_drafting(a), Clean(a)))

--------------------------------------------------------------------------
(* Handlers that ask netd to apply. *)

\* get_desired first: only a request on the Accepted revision is sent.  It
\* goes into netd's backlog; netd may accept others before it takes this one.
submit_desired_apply(a, req) ==
  /\ complete_desired
  /\ acc.rev = req.base
  /\ acc.rev < MaxRev
  /\ Len(queue) < MaxQueue
  /\ queue' = Append(queue, req)
  /\ ui' = [ui EXCEPT ![a] = [Idle EXCEPT !.pc = "wait"]]
  /\ UNCHANGED <<netdVars, draft>>

apply_draft(a) ==
  /\ Opened(a)
  /\ draft[a] # None
  /\ submit_desired_apply(a, Request(a, draft[a].base, draft[a].net, draft[a].version,
                                     draft[a].about, draft[a].clean))
  /\ UNCHANGED tokens

\* The seven pages that apply one section at once share this shape: no Draft
\* may exist, and the edit is stored over what netd answers.
DirectApply(a, sections) ==
  /\ Opened(a)
  /\ draft[a] = None
  /\ tokens < MaxTokens
  /\ tokens' = tokens + 1
  /\ \E e \in Edits[a] :
       /\ e.section \in sections
       /\ Fits(acc.net, e)
       /\ submit_desired_apply(a, Request(a, acc.rev, Store(acc.net, e), None, About(e), TRUE))

apply_route_change(a) == DirectApply(a, {"routes", "add", "change", "remove"})
apply_interfaces(a) == DirectApply(a, {"interfaces"})
apply_lan_services(a) == DirectApply(a, {"services"})
apply_firewall(a) == DirectApply(a, {"firewall"})
apply_wireguard(a) == DirectApply(a, {"wireguard"})
apply_qdiscs(a) == DirectApply(a, {"qdiscs"})
apply_ipv6(a) == DirectApply(a, {"ipv6"})
configure_apply_confirmation(a) == DirectApply(a, {"confirmation"})

\* The answer: an accepted Draft is removed, or stays when that fails; every
\* other outcome, pending confirmation too, retains it.
AnswerApply(a) ==
  /\ ui[a].pc = "wait"
  /\ ui[a].reply # None
  /\ draft' \in (IF ui[a].reply = "accepted" THEN {[draft EXCEPT ![a] = None], draft}
                 ELSE {draft})
  /\ ui' = [ui EXCEPT ![a] = Idle]
  /\ UNCHANGED <<netdVars, queue, tokens>>

\* No answer in 120 s, or fwos-ui is restarted: the Draft is retained, and
\* nobody will read the answer to the request, which netd still has.
Abandoned(r, a) == [r EXCEPT !.live = @ /\ r.who # a]

GiveUp(a) ==
  /\ ui[a].pc = "wait"
  /\ ui' = [ui EXCEPT ![a] = Idle]
  /\ queue' = [k \in DOMAIN queue |-> Abandoned(queue[k], a)]
  /\ op' = IF op = None THEN None ELSE [op EXCEPT !.req = Abandoned(@, a)]
  /\ UNCHANGED <<acc, file, receipts, draft, tokens, applied>>

--------------------------------------------------------------------------
(* netd, one request after the other. *)

Reply(r, outcome) ==
  ui' = IF r.live THEN [ui EXCEPT ![r.who].reply = outcome] ELSE ui

Proposed == [rev |-> acc.rev + 1, net |-> op.req.net]

\* Mutant: the retry of a Draft netd has a receipt for is carried out again.
apply_retry ==
  /\ Listening
  /\ queue # <<>>
  /\ queue' = Tail(queue)
  /\ \/ /\ op = None
        /\ acc.rev < MaxRev
        /\ \/ Head(queue).base = acc.rev
           \/ Head(queue).version # None /\ Head(queue).version = receipts[Head(queue).who]
        /\ op' = [phase |-> "applying", req |-> Head(queue)]
        /\ UNCHANGED ui
     \/ /\ Reply(Head(queue), "refused")
        /\ UNCHANGED op
  /\ UNCHANGED <<acc, file, receipts, draft, tokens, applied>>

\* The next request: refused when an apply is pending or in recovery, on
\* another base, or invalid; otherwise carried out.
apply_desired_request ==
  /\ Listening
  /\ queue # <<>>
  /\ queue' = Tail(queue)
  /\ \/ /\ op = None
        /\ Head(queue).base = acc.rev
        /\ op' = [phase |-> "applying", req |-> Head(queue)]
        /\ UNCHANGED ui
     \/ /\ Reply(Head(queue), "refused")
        /\ UNCHANGED op
  /\ UNCHANGED <<acc, file, receipts, draft, tokens, applied>>

\* The network is programmed; with Apply confirmation the answer is that it
\* is pending, and desired.toml is written when it is confirmed.
ProgramProposed ==
  /\ op # None
  /\ op.phase = "applying"
  /\ IF acc.net.confirm
     THEN /\ op' = [op EXCEPT !.phase = "pending", !.req.live = FALSE]
          /\ Reply(op.req, "pending_confirmation")
          /\ UNCHANGED file
     ELSE /\ op' = [op EXCEPT !.phase = "persisted"]
          /\ file' = Proposed
          /\ UNCHANGED ui
  /\ UNCHANGED <<acc, receipts, queue, draft, tokens, applied>>

confirm_apply ==
  /\ op # None
  /\ op.phase = "pending"
  /\ op' = [op EXCEPT !.phase = "persisted"]
  /\ file' = Proposed
  /\ UNCHANGED <<acc, receipts, queue, draft, ui, tokens, applied>>

\* Mutant: an acceptance keeps only the receipt of its own Draft.
only_latest_receipt(r) ==
  [a \in Admins |-> IF a = r.who /\ r.version # None THEN r.version ELSE 0]

\* The receipt of the applying owner replaces an earlier one; others stay.
accepted_draft_receipts(r) ==
  IF r.version = None THEN receipts ELSE [receipts EXCEPT ![r.who] = r.version]

Accept ==
  /\ acc' = Proposed
  /\ file' = Proposed
  /\ receipts' = accepted_draft_receipts(op.req)
  /\ applied' = IF op.req.version = None THEN applied ELSE Append(applied, op.req.version)
  /\ op' = None

Undo ==
  /\ file' = acc
  /\ op' = None
  /\ UNCHANGED <<acc, receipts, applied>>

CommitApply ==
  /\ op # None
  /\ op.phase = "persisted"
  /\ Accept
  /\ Reply(op.req, "accepted")
  /\ UNCHANGED <<queue, draft, tokens>>

\* A step of the apply fails, netd restarts, or a confirmation expires.
restore_failed_apply ==
  /\ op # None
  /\ op.phase \in {"applying", "persisted", "pending"}
  /\ Undo
  /\ Reply(op.req, "failed")
  /\ UNCHANGED <<queue, draft, tokens>>

\* The commit of the journal fails: its outcome is known after a restart.
RequireRecovery ==
  /\ op # None
  /\ op.phase = "persisted"
  /\ op' = [op EXCEPT !.phase = "recovery", !.req.live = FALSE]
  /\ Reply(op.req, "indeterminate")
  /\ UNCHANGED <<acc, file, receipts, queue, draft, tokens, applied>>

recover_interrupted_apply ==
  /\ recovery_pending
  /\ Accept \/ Undo
  /\ UNCHANGED <<queue, draft, ui, tokens>>

--------------------------------------------------------------------------
Applying(a) ==
  \/ apply_draft(a) \/ apply_route_change(a) \/ apply_interfaces(a)
  \/ apply_lan_services(a) \/ apply_firewall(a) \/ apply_wireguard(a)
  \/ apply_qdiscs(a) \/ apply_ipv6(a) \/ configure_apply_confirmation(a)

Handler(a) ==
  \/ draft_lock(a) \/ read_draft_reconciled(a) \/ draft_status(a)
  \/ save_draft(a) \/ reconcile_draft(a) \/ import_desired(a)
  \/ Applying(a) \/ AnswerApply(a) \/ GiveUp(a)

Netd ==
  \/ apply_desired_request \/ ProgramProposed \/ confirm_apply \/ CommitApply
  \/ restore_failed_apply \/ RequireRecovery
  \/ recover_interrupted_apply

Next == Netd \/ \E a \in Admins : Handler(a)

Spec == Init /\ [][Next]_vars

--------------------------------------------------------------------------
(* Properties. *)

\* An apply changes only the parts of the network its administrator proposed
\* to change; what anybody else had accepted before, since the Draft was begun
\* too, survives it (the base checks, reconciliation and the section stores).
KeepsOthersParts ==
  [][acc' # acc =>
       \A p \in Parts \ op.req.about : PartOf(acc'.net, p) = PartOf(acc.net, p)]_vars

\* The same of every apply whose Draft began from a snapshot that was Accepted
\* when fwos-ui read it.
NoLostUpdate ==
  [][acc' # acc /\ op.req.clean =>
       \A p \in Parts \ op.req.about : PartOf(acc'.net, p) = PartOf(acc.net, p)]_vars

\* A Draft disappears only when netd has accepted that very version of it,
\* whatever was answered, lost or late, and whatever else was accepted since.
DraftNotLost ==
  [][\A a \in Admins :
       draft[a] # None /\ draft'[a] = None => draft[a].version \in ToSet(applied)]_vars

\* No version of a Draft is accepted twice, however often its apply is sent
\* again after an answer was lost.
AppliedOnce == IsInjective(applied)

\* A Draft that was accepted, although the answer was lost, is still known to
\* netd by its receipt, whatever was accepted after it: the next handler that
\* netd answers clears it instead of offering it for another apply.
AcceptedRecognised ==
  \A a \in Admins :
    draft[a] # None /\ draft[a].version \in ToSet(applied)
      => receipts[a] = draft[a].version
=============================================================================
