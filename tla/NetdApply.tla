------------------------------ MODULE NetdApply ------------------------------
(***************************************************************************)
(* The Desired state transaction of netd (src/src/netd.rs) after Bootstrap:*)
(* apply, Apply confirmation, restore-previous, the rollback of a failed   *)
(* apply, the recovery of an interrupted one, and startup.  netd is one    *)
(* thread; what interleaves with it is the Host's LAN service reconciler,  *)
(* the confirmation deadline, failures of every file and network call,     *)
(* the end of the process between two calls, and power loss.               *)
(*                                                                         *)
(* A durable file has a visible content (vis) and the set of contents a    *)
(* power loss may leave (surv): durable.rs renames first and syncs the     *)
(* directory afterwards, so an error can leave a visible, unsynced rename. *)
(***************************************************************************)
EXTENDS Naturals

CONSTANTS
  Nets,        \* the network policies a complete Desired state can carry
  Addrs,       \* IPv4 addresses of the LAN and UI-exposing interfaces
  Actors,      \* administrators (identity.rs Principal)
  Proposals,   \* complete, valid Desired states clients submit (no revision)
  Gens,        \* LAN service generations (random tokens in the code)
  None,        \* an absent file or field
  Off, Mixed,  \* no network programmed yet; a partly programmed network
  MaxRev,      \* bound: the largest revision (u64::MAX in the code)
  MaxIds,      \* bound: Apply confirmation operations opened
  MaxFaults,   \* bound: failing calls
  MaxCrashes   \* bound: process ends and power losses

Content == [net: Nets, addrs: SUBSET Addrs, confirm: BOOLEAN]
State == [rev: 0..MaxRev, net: Nets, addrs: SUBSET Addrs, confirm: BOOLEAN]
Opt(S) == S \cup {None}
Attribution == [rev: 0..MaxRev, applying: Opt(Actors), confirming: Opt(Actors)]

(* What recovery must bring back together: the Accepted state, its manual  *)
(* predecessor and the record of who applied and confirmed it.             *)
Triple == [desired: State, prev: Opt(State), attr: Opt(Attribution)]

Phases == {"Applying", "PendingConfirmation", "Accepted"}
ApplyOperation == [phase: Phases, accepted: State, prev: Opt(State),
                   attr: Opt(Attribution), proposed: Opt(State),
                   id: Opt(1..MaxIds), applying: Opt(Actors)]

ASSUME BoundsAssumption ==
  MaxRev \in Nat \ {0} /\ MaxIds \in Nat /\ MaxFaults \in Nat /\ MaxCrashes \in Nat
ASSUME GensAssumption == Gens \subseteq Nat
ASSUME NetsAssumption == Off \notin Nets /\ Mixed \notin Nets /\ Off # Mixed
ASSUME ProposalsAssumption == Proposals \subseteq Content
ASSUME NoneAssumption ==
  /\ None \notin Actors /\ None \notin Gens /\ None \notin 1..MaxIds
  /\ None \notin State /\ None \notin Attribution /\ None \notin ApplyOperation
  /\ None \notin Triple

VARIABLES
  vis,      \* visible content of each file under /var/lib/fwos
  surv,     \* contents of each file a power loss may leave
  recoveryRequired, \* RECOVERY_REQUIRED, volatile
  live,     \* the programmed network: [net, addrs]
  policy,   \* the nftables ruleset: [kind, net]
  pc,       \* the call netd makes next; "idle" is the main loop
  mode,     \* whose restoration runs: "failed" apply or "recover"
  failed,   \* restore_failed_apply has collected a failure
  op,       \* the transaction last begun: what it found and what it proposes
  reply,    \* the outcome last told to a client
  seen,     \* pending confirmations clients have been shown
  ids,      \* confirmation ids handed out
  expired,  \* the pending confirmation's deadline has passed
  rec,      \* the generation the Host reconciler is working on
  result,   \* LAN_SERVICES_RESULT
  svc,      \* the network the Host's LAN services were configured for
  faults, crashes

netVars == <<live, policy>>
lanVars == <<rec, result, svc>>
confirmVars == <<seen, ids, expired>>
vars == <<vis, surv, recoveryRequired, live, policy, pc, mode, failed, op, reply,
          seen, ids, expired, rec, result, svc, faults, crashes>>

-----------------------------------------------------------------------------
(* Files.                                                                  *)

Files == {"desired", "journal", "prev", "attr", "ready"}

Fault == faults < MaxFaults /\ faults' = faults + 1

(* durable::write (c a content) and durable::remove (c = None) of file f.  *)
(* Success syncs the directory, hence every earlier rename too; removing   *)
(* an absent file succeeds without a sync.  An error comes before the      *)
(* rename or unlink, or after it when the sync of the directory fails.     *)
Durable(f, c, ok) ==
  \/ /\ ok
     /\ c = None /\ vis[f] = None
     /\ UNCHANGED <<vis, surv, faults>>
  \/ /\ ok
     /\ ~(c = None /\ vis[f] = None)
     /\ vis' = [vis EXCEPT ![f] = c]
     /\ surv' = [g \in Files |-> {vis'[g]}]
     /\ UNCHANGED faults
  \/ /\ ~ok
     /\ ~(c = None /\ vis[f] = None)
     /\ Fault
     /\ \/ UNCHANGED <<vis, surv>>
        \/ /\ vis' = [vis EXCEPT ![f] = c]
           /\ surv' = [surv EXCEPT ![f] = @ \cup {c}]

AcceptedDesired(d) == IF d.rev = 0 THEN [d EXCEPT !.rev = 1] ELSE d

InFlight(j) == j # None /\ j.phase # "Accepted"
OperationRequiresRecovery(j) == j # None /\ j.phase = "Applying"
PendingOperation(j) == j # None /\ j.phase = "PendingConfirmation"

RecoveryPending == recoveryRequired \/ OperationRequiresRecovery(vis["journal"])
ApplyBusy == RecoveryPending \/ PendingOperation(vis["journal"])

(* What a journal makes recovery restore, and what a boot that finds these *)
(* contents ends with.                                                     *)
Retained(j) == [desired |-> j.accepted, prev |-> j.prev, attr |-> j.attr]
Outcome(j, d, p, a) ==
  IF InFlight(j) THEN Retained(j)
  ELSE [desired |-> AcceptedDesired(d), prev |-> p, attr |-> a]
VisibleOutcome == Outcome(vis["journal"], vis["desired"], vis["prev"], vis["attr"])

-----------------------------------------------------------------------------
(* The programmed network and its rules.                                   *)

(* apply() gives an interface without configured addresses the addresses   *)
(* it finds live on it.                                                    *)
Captured(s) == IF s.addrs = {} THEN [s EXCEPT !.addrs = live.addrs] ELSE s

\* Mutant: the rules of a restored network carry no forward drop.
RulesWithoutGuard(s) == [kind |-> "open", net |-> s.net]

Rules(s) == [kind |-> IF recoveryRequired THEN "guarded" ELSE "open", net |-> s.net]

(* A call that programs the network for s stopped on the way.  Addresses   *)
(* are only ever added, except for the ones of a footprint to undo.        *)
PartlyProgrammed(s, undo) ==
  live' \in {live} \cup
    [net: {Mixed}, addrs: {live.addrs, live.addrs \cup s.addrs,
                           live.addrs \ undo, (live.addrs \cup s.addrs) \ undo}]

(* apply(): the ruleset is replaced last, so a failure leaves the old one. *)
ApplyNetwork(s, ok) ==
  \/ /\ ok
     /\ live' = [net |-> s.net, addrs |-> live.addrs \cup s.addrs]
     /\ policy' = Rules(s)
     /\ UNCHANGED faults
  \/ /\ ~ok
     /\ Fault
     /\ PartlyProgrammed(s, {})
     /\ UNCHANGED policy

(* apply(), then remove_stale_routes and the removal of what a footprint   *)
(* names: the ruleset may be new although the whole failed.                *)
ReplaceNetwork(s, undo, ok) ==
  \/ /\ ok
     /\ live' = [net |-> s.net, addrs |-> (live.addrs \cup s.addrs) \ undo]
     /\ policy' = Rules(s)
     /\ UNCHANGED faults
  \/ /\ ~ok
     /\ Fault
     /\ PartlyProgrammed(s, undo)
     /\ policy' = policy \/ (live'.net = Mixed /\ policy' = Rules(s))

(* read_recovery_target succeeds only on a journal that is not Accepted.   *)
(* require_recovery_guard installs the retained state's rules with the     *)
(* forward drop, or drops everything; nft replaces a ruleset atomically.   *)
RequireRecoveryGuard(ok) ==
  LET j == vis["journal"] IN
  \/ /\ ok
     /\ InFlight(j)
     /\ policy' = [kind |-> "guarded", net |-> j.accepted.net]
     /\ UNCHANGED faults
  \/ /\ ok
     /\ IF InFlight(j) THEN Fault ELSE UNCHANGED faults
     /\ policy' = [kind |-> "drop", net |-> Off]
  \/ /\ ~ok
     /\ Fault
     /\ UNCHANGED policy

-----------------------------------------------------------------------------
(* LAN services.                                                           *)

(* A random token differs from every generation still referred to.         *)
UsedGens == {vis["ready"], rec.gen, result.gen} \cup surv["ready"]
FreshGen == {g \in Gens \ UsedGens : \A h \in Gens \ UsedGens : g <= h}

(* set_lan_services_ready: what counts is the visible content, whatever    *)
(* the durable call returned.                                              *)
SetLanServicesReady(c, ok) ==
  /\ \E d \in BOOLEAN : Durable("ready", c, d)
  /\ ok = (vis'["ready"] = c)

Publish(ok) == \E g \in FreshGen : SetLanServicesReady(g, ok)

\* Mutant: any result of the reconciler ends the wait.
AnyResultEndsWait(ok) ==
  /\ result.gen # None
  /\ ok = result.ok
  /\ UNCHANGED faults

(* wait_lan_services: only a result naming the published generation ends   *)
(* the wait; otherwise it times out.                                       *)
WaitLanServices(ok) ==
  \/ /\ result.gen = vis["ready"]
     /\ ok = result.ok
     /\ UNCHANGED faults
  \/ /\ result.gen # vis["ready"]
     /\ ~ok
     /\ Fault

-----------------------------------------------------------------------------
(* Control.                                                                *)

Goto(l) == pc' = l
Answer(r) == pc' = "idle" /\ reply' = r

(* recover_interrupted_apply is called: with no marker left only the       *)
(* guarded final step is retried.                                          *)
Recover ==
  /\ mode' = "recover"
  /\ failed' = FALSE
  /\ pc' = IF recoveryRequired /\ vis'["journal"] = None THEN "reopen" ELSE "guard"

(* restore_failed_apply is called. *)
RestoreFailed ==
  /\ mode' = "failed"
  /\ failed' = FALSE
  /\ pc' = "guard"

Journal(phase, proposed, id) ==
  [phase |-> phase, accepted |-> op.before.desired, prev |-> op.before.prev,
   attr |-> op.before.attr, proposed |-> proposed, id |-> id,
   applying |-> op.after.attr.applying]

-----------------------------------------------------------------------------
(* apply_desired_request.  A request netd refuses (busy, a stale base      *)
(* revision, an invalid state, the revision limit) changes nothing.        *)

\* Mutant: the revision limit is off by one.
RevisionLimitOffByOne(cur) == cur.rev <= MaxRev

RevisionLeft(cur) == cur.rev < MaxRev

Begin(s, intent, actor) ==
  LET cur == AcceptedDesired(vis["desired"])
      new == [rev |-> cur.rev + 1, net |-> s.net, addrs |-> s.addrs, confirm |-> s.confirm]
  IN
  /\ ~ApplyBusy
  /\ RevisionLeft(cur)
  /\ intent = "Ordinary" /\ cur.confirm => ids < MaxIds
  /\ op' = [before |-> [desired |-> cur, prev |-> vis["prev"], attr |-> vis["attr"]],
            after |-> [desired |-> new, prev |-> cur,
                       attr |-> [rev |-> new.rev, applying |-> actor, confirming |-> None]],
            intent |-> intent,
            ready |-> vis["ready"] # None,
            footprint |-> (new.addrs \ cur.addrs) \ live.addrs]
  /\ reply' = "none"
  /\ Goto("retain")

ApplyDesired(p, actor) ==
  /\ pc = "idle"
  /\ Begin(p, "Ordinary", actor)
  /\ UNCHANGED <<vis, surv, recoveryRequired, netVars, mode, failed, confirmVars,
                 lanVars, faults, crashes>>

(* restore_previous_request: recovery when it is pending, else an apply of *)
(* the retained predecessor that needs no confirmation.                    *)
RestorePrevious(actor) ==
  /\ pc = "idle"
  /\ \/ /\ RecoveryPending
        /\ reply' = "none"
        /\ mode' = "recover"
        /\ failed' = FALSE
        /\ pc' = IF recoveryRequired /\ vis["journal"] = None THEN "reopen" ELSE "guard"
        /\ UNCHANGED op
     \/ /\ ~ApplyBusy
        /\ vis["prev"] # None
        /\ vis["prev"].rev # 0
        /\ vis["prev"].rev < AcceptedDesired(vis["desired"]).rev
        /\ Begin(vis["prev"], "RecoveryRestore", actor)
        /\ UNCHANGED <<mode, failed>>
  /\ UNCHANGED <<vis, surv, recoveryRequired, netVars, confirmVars, lanVars, faults, crashes>>

(* The Applying journal retains A before anything is changed. *)
Retain ==
  /\ pc = "retain"
  /\ \E ok \in BOOLEAN :
       /\ Durable("journal", Journal("Applying", None, None), ok)
       /\ \/ ok /\ Goto("suspend") /\ UNCHANGED reply
          \/ ~ok /\ OperationRequiresRecovery(vis'["journal"])
                 /\ Goto("block") /\ reply' = "required"
          \/ ~ok /\ ~OperationRequiresRecovery(vis'["journal"]) /\ Answer("unchanged")
  /\ UNCHANGED <<recoveryRequired, netVars, mode, failed, op, confirmVars, lanVars, crashes>>

Suspend ==
  /\ pc = "suspend"
  /\ \E ok \in BOOLEAN :
       /\ SetLanServicesReady(None, ok)
       /\ Goto(IF ok THEN "program" ELSE "unsuspend")
  /\ UNCHANGED <<recoveryRequired, netVars, mode, failed, op, reply, confirmVars, lanVars, crashes>>

(* LAN services could not be suspended: put the marker back, drop the      *)
(* journal, and leave the network as it is.                                *)
Unsuspend ==
  /\ pc = "unsuspend"
  /\ \E ok \in BOOLEAN :
       /\ IF op.ready THEN Publish(ok) ELSE SetLanServicesReady(None, ok)
       /\ \/ ok /\ Goto("forget") /\ UNCHANGED reply
          \/ ~ok /\ Goto("block") /\ reply' = "required"
  /\ UNCHANGED <<recoveryRequired, netVars, mode, failed, op, confirmVars, lanVars, crashes>>

Forget ==
  /\ pc = "forget"
  /\ \E ok \in BOOLEAN :
       /\ Durable("journal", None, ok)
       /\ \/ ~OperationRequiresRecovery(vis'["journal"]) /\ Answer("unchanged")
          \/ OperationRequiresRecovery(vis'["journal"]) /\ Goto("block") /\ reply' = "required"
  /\ UNCHANGED <<recoveryRequired, netVars, mode, failed, op, confirmVars, lanVars, crashes>>

ProgramProposed ==
  /\ pc = "program"
  /\ \E ok \in BOOLEAN :
       LET b == Captured(op.after.desired) IN
       /\ ReplaceNetwork(b, {}, ok)
       /\ op' = [op EXCEPT !.after.desired = b]
       /\ \/ ok /\ Goto("publish") /\ UNCHANGED <<mode, failed>>
          \/ ~ok /\ RestoreFailed
  /\ UNCHANGED <<vis, surv, recoveryRequired, reply, confirmVars, lanVars, crashes>>

PublishServices ==
  /\ pc = "publish"
  /\ \E ok \in BOOLEAN :
       /\ Publish(ok)
       /\ \/ ok /\ Goto("wait") /\ UNCHANGED <<mode, failed>>
          \/ ~ok /\ RestoreFailed
  /\ UNCHANGED <<recoveryRequired, netVars, op, reply, confirmVars, lanVars, crashes>>

NeedsConfirmation == op.before.desired.confirm /\ op.intent = "Ordinary"

AwaitServices ==
  /\ pc = "wait"
  /\ \E ok \in BOOLEAN :
       /\ WaitLanServices(ok)
       /\ \/ ok /\ Goto(IF NeedsConfirmation THEN "pend" ELSE "desired") /\ UNCHANGED <<mode, failed>>
          \/ ~ok /\ RestoreFailed
  /\ UNCHANGED <<vis, surv, recoveryRequired, netVars, op, reply, confirmVars, lanVars, crashes>>

(* One durable write of the apply; an error rolls the apply back. *)
ApplyWrite(from, f, c, to) ==
  /\ pc = from
  /\ \E ok \in BOOLEAN :
       /\ Durable(f, c, ok)
       /\ \/ ok /\ Goto(to) /\ UNCHANGED <<mode, failed>>
          \/ ~ok /\ RestoreFailed
  /\ UNCHANGED <<recoveryRequired, netVars, op, reply, confirmVars, lanVars, crashes>>

\* Mutant: the predecessor is not persisted.
PredecessorSkipped == ApplyWrite("desired", "desired", op.after.desired, "attr")

PersistProposed == ApplyWrite("desired", "desired", op.after.desired, "prev")

\* Mutant: the proposed state is retained as its own predecessor.
ProposedAsPredecessor == ApplyWrite("prev", "prev", op.after.desired, "attr")

PersistPredecessor == ApplyWrite("prev", "prev", op.before.desired, "attr")
WriteAttribution == ApplyWrite("attr", "attr", op.after.attr, "commit")

\* Mutant: an error of the commit write is only logged.
CommitErrorLogged ==
  /\ pc = "commit"
  /\ \E ok \in BOOLEAN : Durable("journal", Journal("Accepted", None, None), ok)
  /\ Goto("clean")
  /\ UNCHANGED <<recoveryRequired, netVars, mode, failed, op, reply, confirmVars, lanVars, crashes>>

(* The Accepted journal is the commit point.  Whether an error left it is  *)
(* known only after a reboot.                                              *)
Commit ==
  /\ pc = "commit"
  /\ \E ok \in BOOLEAN :
       /\ Durable("journal", Journal("Accepted", None, None), ok)
       /\ \/ ok /\ Goto("clean") /\ UNCHANGED reply
          \/ ~ok /\ Goto("block") /\ reply' = "indeterminate"
  /\ UNCHANGED <<recoveryRequired, netVars, mode, failed, op, confirmVars, lanVars, crashes>>

Clean ==
  /\ pc = "clean"
  /\ \E ok \in BOOLEAN : Durable("journal", None, ok)
  /\ Answer("accepted")
  /\ UNCHANGED <<recoveryRequired, netVars, mode, failed, op, confirmVars, lanVars, crashes>>

(* The proposed network is live but not Accepted until it is confirmed. *)
Pend ==
  /\ pc = "pend"
  /\ \E ok \in BOOLEAN :
       /\ Durable("journal", Journal("PendingConfirmation", op.after.desired, ids + 1), ok)
       /\ \/ /\ ok /\ Answer("pending")
             /\ seen' = seen \cup {[rev |-> op.after.desired.rev, id |-> ids + 1,
                                    proposed |-> op.after.desired]}
             /\ expired' = FALSE
             /\ UNCHANGED <<mode, failed>>
          \/ ~ok /\ RestoreFailed /\ UNCHANGED <<seen, expired, reply>>
  /\ ids' = ids + 1
  /\ UNCHANGED <<recoveryRequired, netVars, op, lanVars, crashes>>

(* An error path ends by requiring recovery behind the forwarding guard. *)
Block ==
  /\ pc = "block"
  /\ \E ok \in BOOLEAN : RequireRecoveryGuard(ok)
  /\ recoveryRequired' = TRUE
  /\ Goto("idle")
  /\ UNCHANGED <<vis, surv, live, mode, failed, op, reply, confirmVars, lanVars, crashes>>

-----------------------------------------------------------------------------
(* confirm_apply, with a confirmation some client was shown.               *)

\* Mutant: only the revision of a confirmation is compared.
RevisionMatches(t, j) == t.rev = j.proposed.rev

ConfirmMatches(t, j) == t.rev = j.proposed.rev /\ t.id = j.id

ConfirmApply(t, actor) ==
  LET j == vis["journal"] IN
  /\ pc = "idle"
  /\ ~RecoveryPending
  /\ PendingOperation(j)
  /\ ConfirmMatches(t, j)
  /\ reply' = "none"
  /\ \/ /\ expired
        /\ mode' = "recover"
        /\ failed' = FALSE
        /\ Goto("guard")
        /\ UNCHANGED op
     \/ /\ ~expired
        /\ op' = [op EXCEPT
             !.before = Retained(j),
             !.after = [desired |-> j.proposed, prev |-> j.accepted,
                        attr |-> [rev |-> t.rev, applying |-> j.applying, confirming |-> actor]]]
        /\ Goto("confirmAttr")
        /\ UNCHANGED <<mode, failed>>
  /\ UNCHANGED <<vis, surv, recoveryRequired, netVars, confirmVars, lanVars, faults, crashes>>

(* One durable write of the confirmation; an error recovers A. *)
ConfirmWrite(from, f, c, to) ==
  /\ pc = from
  /\ \E ok \in BOOLEAN :
       /\ Durable(f, c, ok)
       /\ \/ ok /\ Goto(to) /\ UNCHANGED <<mode, failed>>
          \/ ~ok /\ Recover
  /\ UNCHANGED <<recoveryRequired, netVars, op, reply, confirmVars, lanVars, crashes>>

ConfirmAttribution == ConfirmWrite("confirmAttr", "attr", op.after.attr, "confirmDesired")

\* Mutant: the confirmed state is not persisted before the commit.
ConfirmedNotPersisted == ConfirmWrite("confirmDesired", "prev", op.before.desired, "confirmCommit")

ConfirmDesired == ConfirmWrite("confirmDesired", "desired", op.after.desired, "confirmPrev")
ConfirmPredecessor == ConfirmWrite("confirmPrev", "prev", op.before.desired, "confirmCommit")
ConfirmCommit == ConfirmWrite("confirmCommit", "journal", Journal("Accepted", None, None), "clean")

(* The deadline runs on the boot clock; the main loop looks at it again    *)
(* and again, so a recovery that failed is retried.                        *)
DeadlinePasses ==
  /\ PendingOperation(vis["journal"]) /\ ~expired
  /\ expired' = TRUE
  /\ UNCHANGED <<vis, surv, recoveryRequired, netVars, pc, mode, failed, op, reply,
                 seen, ids, lanVars, faults, crashes>>

\* Mutant: an expired confirmation whose recovery failed is not retried.
ExpiresOnce ==
  /\ pc = "idle" /\ ~recoveryRequired
  /\ PendingOperation(vis["journal"]) /\ expired
  /\ reply' = "none"
  /\ mode' = "recover"
  /\ failed' = FALSE
  /\ Goto("guard")
  /\ UNCHANGED <<vis, surv, recoveryRequired, netVars, op, confirmVars, lanVars, faults, crashes>>

ExpirePendingConfirmation ==
  /\ pc = "idle"
  /\ PendingOperation(vis["journal"]) /\ expired
  /\ reply' = "none"
  /\ mode' = "recover"
  /\ failed' = FALSE
  /\ Goto("guard")
  /\ UNCHANGED <<vis, surv, recoveryRequired, netVars, op, confirmVars, lanVars, faults, crashes>>

-----------------------------------------------------------------------------
(* restore_failed_apply ("failed") and recover_interrupted_apply           *)
(* ("recover") take the same steps.  The first works from what the apply   *)
(* found, and collects failures; the second works from the journal, and    *)
(* stops at the first failure.                                             *)

Target == IF mode = "failed" THEN op.before ELSE Retained(vis["journal"])

\* Mutant: restore_failed_apply forgets a failure it met.
FailureForgotten(ok, l) ==
  \/ (ok \/ mode = "failed") /\ Goto(l) /\ UNCHANGED <<failed, reply>>
  \/ ~ok /\ mode = "recover" /\ Answer("required") /\ UNCHANGED failed

(* The step before l ended in ok. *)
Proceed(ok, l) ==
  \/ ok /\ Goto(l) /\ UNCHANGED <<failed, reply>>
  \/ ~ok /\ mode = "failed" /\ Goto(l) /\ failed' = TRUE /\ UNCHANGED reply
  \/ ~ok /\ mode = "recover" /\ Answer("required") /\ UNCHANGED failed

Guard ==
  /\ pc = "guard"
  /\ recoveryRequired' = TRUE
  /\ \E ok \in BOOLEAN :
       /\ RequireRecoveryGuard(ok)
       /\ Proceed(ok /\ (mode = "failed" \/ InFlight(vis["journal"])), "quiesce")
  /\ UNCHANGED <<vis, surv, live, mode, op, confirmVars, lanVars, crashes>>

Quiesce ==
  /\ pc = "quiesce"
  /\ \E ok \in BOOLEAN : SetLanServicesReady(None, ok) /\ Proceed(ok, "reprogram")
  /\ UNCHANGED <<recoveryRequired, netVars, mode, op, confirmVars, lanVars, crashes>>

(* Only restore_failed_apply holds a footprint of what the apply added. *)
Reprogram ==
  /\ pc = "reprogram"
  /\ \E ok \in BOOLEAN :
       /\ ReplaceNetwork(Captured(Target.desired), IF mode = "failed" THEN op.footprint ELSE {}, ok)
       /\ Proceed(ok, "redesired")
  /\ UNCHANGED <<vis, surv, recoveryRequired, mode, op, confirmVars, lanVars, crashes>>

RestoreWrite(from, f, c, to) ==
  /\ pc = from
  /\ \E ok \in BOOLEAN : Durable(f, c, ok) /\ Proceed(ok, to)
  /\ UNCHANGED <<recoveryRequired, netVars, mode, op, confirmVars, lanVars, crashes>>

(* Recovery persists the state apply() was given, captured addresses too. *)
RestoredDesired == IF mode = "failed" THEN Target.desired ELSE Captured(Target.desired)

RestoreDesired == RestoreWrite("redesired", "desired", RestoredDesired, "reprev")
RestorePredecessor == RestoreWrite("reprev", "prev", Target.prev, "reattr")
RestoreAttribution == RestoreWrite("reattr", "attr", Target.attr, "republish")

\* Mutant: an incomplete restoration clears the recovery requirement.
IncompleteClears ==
  /\ pc = "republish" /\ failed
  /\ recoveryRequired' = FALSE
  /\ Answer("required")
  /\ UNCHANGED <<vis, surv, netVars, mode, failed, op, confirmVars, lanVars, faults, crashes>>

RestoreIncomplete ==
  /\ pc = "republish" /\ failed
  /\ recoveryRequired' = TRUE
  /\ Answer("required")
  /\ UNCHANGED <<vis, surv, netVars, mode, failed, op, confirmVars, lanVars, faults, crashes>>

Republish ==
  /\ pc = "republish" /\ ~failed
  /\ \E ok \in BOOLEAN :
       IF mode = "failed" /\ ~op.ready
       THEN /\ SetLanServicesReady(None, ok)
            /\ \/ ok /\ Goto("finish") /\ UNCHANGED reply
               \/ ~ok /\ Answer("required")
       ELSE /\ Publish(ok)
            /\ \/ ok /\ Goto("rewait") /\ UNCHANGED reply
               \/ ~ok /\ Answer("required")
  /\ UNCHANGED <<recoveryRequired, netVars, mode, failed, op, confirmVars, lanVars, crashes>>

AwaitRestored ==
  /\ pc = "rewait"
  /\ \E ok \in BOOLEAN :
       /\ WaitLanServices(ok)
       /\ \/ ok /\ Goto("finish") /\ UNCHANGED reply
          \/ ~ok /\ Answer("required")
  /\ UNCHANGED <<vis, surv, recoveryRequired, netVars, mode, failed, op, confirmVars, lanVars, crashes>>

(* finish_recovery: the guard stays until the marker is durably gone. *)
FinishRecovery ==
  /\ pc = "finish"
  /\ \E ok \in BOOLEAN :
       /\ Durable("journal", None, ok)
       /\ \/ ok /\ Goto("reopen") /\ UNCHANGED reply
          \/ ~ok /\ Goto("block") /\ reply' = "required"
  /\ UNCHANGED <<recoveryRequired, netVars, mode, failed, op, confirmVars, lanVars, crashes>>

ReopenRestoredForwarding ==
  /\ pc = "reopen"
  /\ \/ /\ policy' = [kind |-> "open", net |-> vis["desired"].net]
        /\ recoveryRequired' = FALSE
        /\ Answer("restored")
        /\ UNCHANGED faults
     \/ /\ Fault
        /\ Goto("block") /\ reply' = "required"
        /\ UNCHANGED <<policy, recoveryRequired>>
  /\ UNCHANGED <<vis, surv, live, mode, failed, op, confirmVars, lanVars, crashes>>

-----------------------------------------------------------------------------
(* run(): startup.  An error before the main loop ends the process; the    *)
(* service manager starts it again.                                        *)

StartInterrupted ==
  /\ pc = "down"
  /\ InFlight(vis["journal"])
  /\ mode' = "recover" /\ failed' = FALSE
  /\ \E ok \in BOOLEAN :
       /\ RequireRecoveryGuard(ok)
       /\ recoveryRequired' = ok
       /\ Goto(IF ok THEN "guard" ELSE "down")
  /\ UNCHANGED <<vis, surv, live, op, reply, confirmVars, lanVars, crashes>>

StartApply ==
  /\ pc = "down"
  /\ ~InFlight(vis["journal"])
  /\ \E ok \in BOOLEAN :
       /\ ApplyNetwork(Captured(vis["desired"]), ok)
       /\ Goto(IF ok THEN "startPersist" ELSE "down")
  /\ UNCHANGED <<vis, surv, recoveryRequired, mode, failed, op, reply, confirmVars, lanVars, crashes>>

StartPersist ==
  /\ pc = "startPersist"
  /\ \E ok \in BOOLEAN :
       /\ Durable("desired", Captured(vis["desired"]), ok)
       /\ Goto(IF ok THEN "startReady" ELSE "down")
  /\ UNCHANGED <<recoveryRequired, netVars, mode, failed, op, reply, confirmVars, lanVars, crashes>>

\* Mutant: startup keeps a marker it finds instead of publishing a new one.
StartKeepsMarker ==
  /\ pc = "startReady"
  /\ \E ok \in BOOLEAN :
       /\ IF vis["ready"] = None THEN Publish(ok)
          ELSE ok = TRUE /\ UNCHANGED <<vis, surv, faults>>
       /\ Goto(IF ok THEN "startClean" ELSE "down")
  /\ UNCHANGED <<recoveryRequired, netVars, mode, failed, op, reply, confirmVars, lanVars, crashes>>

StartReady ==
  /\ pc = "startReady"
  /\ \E ok \in BOOLEAN :
       /\ Publish(ok)
       /\ Goto(IF ok THEN "startClean" ELSE "down")
  /\ UNCHANGED <<recoveryRequired, netVars, mode, failed, op, reply, confirmVars, lanVars, crashes>>

StartClean ==
  /\ pc = "startClean"
  /\ \E ok \in BOOLEAN : Durable("journal", None, ok)
  /\ Goto("idle")
  /\ UNCHANGED <<recoveryRequired, netVars, mode, failed, op, reply, confirmVars, lanVars, crashes>>

-----------------------------------------------------------------------------
(* The environment.                                                        *)

(* The process ends; the kernel's network and the files stay. *)
ProcessEnds ==
  /\ pc # "down" /\ crashes < MaxCrashes
  /\ crashes' = crashes + 1
  /\ pc' = "down" /\ recoveryRequired' = FALSE
  /\ UNCHANGED <<vis, surv, netVars, mode, failed, op, reply, confirmVars, lanVars, faults>>

(* Every file keeps one of the contents that may survive; the network, the *)
(* rules and the services start from nothing.                              *)
PowerLoss ==
  /\ crashes < MaxCrashes
  /\ crashes' = crashes + 1
  /\ \E d \in surv["desired"], j \in surv["journal"], p \in surv["prev"],
        a \in surv["attr"], r \in surv["ready"] :
       /\ vis' = [desired |-> d, journal |-> j, prev |-> p, attr |-> a, ready |-> r]
       /\ surv' = [g \in Files |-> {vis'[g]}]
  /\ pc' = "down" /\ recoveryRequired' = FALSE
  /\ live' = [net |-> Off, addrs |-> {}]
  /\ policy' = [kind |-> "boot", net |-> Off]
  /\ expired' \in BOOLEAN
  /\ rec' = [gen |-> None, net |-> Off] /\ svc' = Off
  /\ UNCHANGED <<mode, failed, op, reply, seen, ids, result, faults>>

(* The Host's reconciler (external): it takes up the published generation, *)
(* configures the services for the network it then finds, and reports.     *)
ReconcileStart ==
  /\ rec.gen = None
  /\ vis["ready"] # None /\ vis["ready"] # result.gen
  /\ rec' = [gen |-> vis["ready"], net |-> live.net]
  /\ UNCHANGED <<vis, surv, recoveryRequired, netVars, pc, mode, failed, op, reply,
                 confirmVars, result, svc, faults, crashes>>

ReconcileDone ==
  /\ rec.gen # None
  /\ \/ /\ result' = [gen |-> rec.gen, ok |-> TRUE]
        /\ svc' = rec.net
        /\ UNCHANGED faults
     \/ /\ Fault
        /\ result' = [gen |-> rec.gen, ok |-> FALSE]
        /\ svc' = Mixed
  /\ rec' = [gen |-> None, net |-> Off]
  /\ UNCHANGED <<vis, surv, recoveryRequired, netVars, pc, mode, failed, op, reply,
                 confirmVars, crashes>>

-----------------------------------------------------------------------------

(* A bootstrapped appliance boots.  Bootstrap leaves revision 0, which     *)
(* readers take for 1.                                                     *)
Init ==
  \E p \in Proposals, r \in {0, 1} :
    LET d == [rev |-> r, net |-> p.net, addrs |-> p.addrs, confirm |-> p.confirm]
        t == [desired |-> AcceptedDesired(d), prev |-> None, attr |-> None]
    IN
    /\ vis = [desired |-> d, journal |-> None, prev |-> None, attr |-> None, ready |-> None]
    /\ surv = [g \in Files |-> {vis[g]}]
    /\ op = [before |-> t, after |-> t, intent |-> "Ordinary", ready |-> FALSE, footprint |-> {}]
    /\ recoveryRequired = FALSE
    /\ live = [net |-> Off, addrs |-> {}]
    /\ policy = [kind |-> "boot", net |-> Off]
    /\ pc = "down" /\ mode = "recover" /\ failed = FALSE
    /\ reply = "none"
    /\ seen = {} /\ ids = 0 /\ expired = FALSE
    /\ rec = [gen |-> None, net |-> Off]
    /\ result = [gen |-> None, ok |-> FALSE]
    /\ svc = Off
    /\ faults = 0 /\ crashes = 0

(* A turn of the main loop that finds nothing to do. *)
Poll == pc = "idle" /\ UNCHANGED vars

Requests ==
  \E actor \in Actors :
    \/ \E p \in Proposals : ApplyDesired(p, actor)
    \/ RestorePrevious(actor)
    \/ \E t \in seen : ConfirmApply(t, actor)

Steps ==
  \/ Retain \/ Suspend \/ Unsuspend \/ Forget \/ ProgramProposed \/ PublishServices
  \/ AwaitServices \/ PersistProposed \/ PersistPredecessor \/ WriteAttribution
  \/ Commit \/ Clean \/ Pend \/ Block
  \/ ConfirmAttribution \/ ConfirmDesired \/ ConfirmPredecessor \/ ConfirmCommit
  \/ Guard \/ Quiesce \/ Reprogram \/ RestoreDesired \/ RestorePredecessor
  \/ RestoreAttribution \/ RestoreIncomplete \/ Republish \/ AwaitRestored
  \/ FinishRecovery \/ ReopenRestoredForwarding
  \/ StartInterrupted \/ StartApply \/ StartPersist \/ StartReady \/ StartClean

Environment == ProcessEnds \/ PowerLoss \/ DeadlinePasses

Next ==
  \/ Requests \/ Steps \/ ExpirePendingConfirmation \/ Poll
  \/ ReconcileStart \/ ReconcileDone \/ Environment

Spec == Init /\ [][Next]_vars

(* netd keeps running its calls to their end, its main loop keeps turning, *)
(* time passes, and the Host's reconciler keeps working.                   *)
Fairness ==
  /\ WF_vars(Steps)
  /\ WF_vars(ExpirePendingConfirmation)
  /\ WF_vars(DeadlinePasses)
  /\ WF_vars(ReconcileStart)
  /\ WF_vars(ReconcileDone)

FairSpec == Spec /\ Fairness

-----------------------------------------------------------------------------
(* Properties.                                                             *)

Labels == {"down", "idle", "retain", "suspend", "unsuspend", "forget", "program",
           "publish", "wait", "desired", "prev", "attr", "commit", "clean", "pend",
           "block", "confirmAttr", "confirmDesired", "confirmPrev", "confirmCommit",
           "guard", "quiesce", "reprogram", "redesired", "reprev", "reattr",
           "republish", "rewait", "finish", "reopen", "startPersist", "startReady",
           "startClean"}
Replies == {"none", "accepted", "pending", "restored", "unchanged", "required",
            "indeterminate"}
Networks == Nets \cup {Off, Mixed}
FileContents == [desired |-> State, journal |-> Opt(ApplyOperation), prev |-> Opt(State),
                 attr |-> Opt(Attribution), ready |-> Opt(Gens)]
Op == [before: Triple, after: Triple, intent: {"Ordinary", "RecoveryRestore"},
       ready: BOOLEAN, footprint: SUBSET Addrs]

(* Every variable of the transaction has its type. *)
TypeOK ==
  /\ DOMAIN vis = Files /\ \A f \in Files : vis[f] \in FileContents[f]
  /\ DOMAIN surv = Files /\ \A f \in Files : surv[f] \subseteq FileContents[f]
  /\ recoveryRequired \in BOOLEAN
  /\ live \in [net: Networks, addrs: SUBSET Addrs]
  /\ policy \in [kind: {"boot", "open", "guarded", "drop"}, net: Networks]
  /\ pc \in Labels
  /\ mode \in {"failed", "recover"} /\ failed \in BOOLEAN
  /\ op \in Op
  /\ reply \in Replies
  /\ seen \subseteq [rev: 0..MaxRev, id: 1..MaxIds, proposed: State]
  /\ ids \in 0..MaxIds /\ expired \in BOOLEAN
  /\ rec \in [gen: Opt(Gens), net: Networks]
  /\ result \in [gen: Opt(Gens), ok: BOOLEAN]
  /\ svc \in Networks
  /\ faults \in 0..MaxFaults /\ crashes \in 0..MaxCrashes

(* P holds of whatever the next boot would restore, in every combination   *)
(* of file contents a power loss at this moment can leave.                 *)
OnEveryDisk(P(_)) ==
  \A j \in surv["journal"], d \in surv["desired"], p \in surv["prev"], a \in surv["attr"] :
    P(Outcome(j, d, p, a))

(* The transaction is atomic: whenever the power fails, the next boot      *)
(* restores exactly the Accepted state, predecessor and attribution found  *)
(* before the last apply, or exactly those of the proposed state.          *)
AtomicOutcome ==
  LET P(t) == t \in {op.before, op.after} IN P(VisibleOutcome) /\ OnEveryDisk(P)

(* What netd told the client stays true, power losses included: "accepted" *)
(* means the proposed state with its predecessor and attribution, and      *)
(* "restored" or "unchanged" the state before, until the next operation.   *)
ReplyTruthful ==
  LET IsAfter(t) == t = op.after
      IsBefore(t) == t = op.before
  IN /\ reply = "accepted" => OnEveryDisk(IsAfter)
     /\ reply \in {"restored", "unchanged", "pending"} => OnEveryDisk(IsBefore)

(* The live network, its rules and the files agree whenever netd waits for *)
(* requests and requires no recovery: it forwards for the Accepted network *)
(* or for the one shown for confirmation, and nothing is left in flight.   *)
ServesAccepted ==
  pc = "idle" /\ ~recoveryRequired =>
    LET j == vis["journal"]
        n == IF PendingOperation(j) THEN j.proposed.net ELSE vis["desired"].net
    IN /\ ~OperationRequiresRecovery(j)
       /\ live.net = n
       /\ policy = [kind |-> "open", net |-> n]

(* Recovery with no marker left skips the restoration and only reopens     *)
(* forwarding; that is sound because everything was restored durably.      *)
RetryOnlyReopens ==
  recoveryRequired /\ vis["journal"] = None /\ pc \in {"idle", "reopen", "block"} =>
    /\ live.net = vis["desired"].net
    /\ surv["desired"] = {vis["desired"]} /\ surv["prev"] = {vis["prev"]}
    /\ surv["attr"] = {vis["attr"]}

(* A retained predecessor is older than the Accepted state it would        *)
(* replace, in every combination a power loss can leave.                   *)
PredecessorOlder ==
  LET P(t) == t.prev # None => t.prev.rev > 0 /\ t.prev.rev < t.desired.rev
  IN OnEveryDisk(P)

(* A confirmation shown to a client can only ever confirm the proposal it  *)
(* was shown with, although revisions are used again after a rollback.     *)
ConfirmsWhatWasShown ==
  \A t \in seen :
    PendingOperation(vis["journal"]) /\ ConfirmMatches(t, vis["journal"]) =>
      t.proposed = vis["journal"].proposed

(* A restoration reported to Host update health is one of this boot: its   *)
(* LAN services run for the live network, which is the Accepted one, or    *)
(* the proposal that awaits its confirmation.                              *)
RestoredStatus ==
  ~RecoveryPending /\ vis["ready"] # None /\ result = [gen |-> vis["ready"], ok |-> TRUE]
HealthTruthful ==
  pc = "idle" /\ RestoredStatus =>
    LET j == vis["journal"] IN
    /\ svc = live.net
    /\ live.net = IF PendingOperation(j) THEN j.proposed.net ELSE vis["desired"].net

(* No proposal is accepted or offered for confirmation before the Host's   *)
(* LAN services were reconciled for that very network.                     *)
ServedBeforeAccepted ==
  [][pc = "wait" /\ pc' \in {"desired", "pend"} => svc = op.after.desired.net]_vars

(* Once blocked, forwarding opens only for the Accepted network, live and  *)
(* with no operation in flight.                                            *)
ReopensOnlyAccepted ==
  [][policy.kind # "open" /\ policy'.kind = "open" =>
       /\ policy'.net = vis'["desired"].net /\ live'.net = vis'["desired"].net
       /\ ~InFlight(vis'["journal"])]_vars

(* A pending confirmation is confirmed or rolled back in the end. *)
PendingResolved ==
  PendingOperation(vis["journal"]) ~> ~PendingOperation(vis["journal"])

(* What a power loss could still bring back instead of what is visible. *)
Unsettled ==
  LET IsVisible(t) == t = VisibleOutcome
  IN IF OnEveryDisk(IsVisible) THEN None ELSE op.before

Store == INSTANCE AcceptedStore WITH store <- VisibleOutcome, undo <- Unsettled

(* The transaction implements a store of Accepted states: journal, four    *)
(* files, rollback and recovery together behave like one register that a   *)
(* client sees change only by accepting the next revision.                 *)
ImplementsStore == Store!Spec

----------------------------------------------------------------------------
(* What the code says of itself and does not keep; TLC finds each violated. *)

(* netd.rs, finish_recovery: "Keep the physical guard until the in-flight  *)
(* marker is durably gone".                                                *)
GuardedUntilDurable ==
  [][pc = "reopen" /\ policy'.kind = "open" =>
       \A j \in surv'["journal"] : ~InFlight(j)]_vars

(* netd.rs, apply_desired_request: the journal retains the recovery target *)
(* and "a restart must be able to restore both" it and its predecessor.    *)
RestoresRetained ==
  [][mode = "recover" /\ pc = "redesired" /\ pc' = "reprev" =>
       vis'["desired"] = Target.desired]_vars

(* netd.rs, restoration_status: "has this boot restored Accepted Desired   *)
(* state and the LAN services it requires?"; the services it reports as    *)
(* restored are those of the Accepted network.                             *)
HealthReportsAccepted ==
  pc = "idle" /\ RestoredStatus => svc = vis["desired"].net
=============================================================================
