------------------------------ MODULE HostUpdate ------------------------------
(***************************************************************************)
(* A Host update (src/src/update.rs) over reboots: staging, the explicit   *)
(* reboot and manual rollback of the controller, appliance health and      *)
(* restore-check of the boots, and the part netd plays (netd.rs): it       *)
(* preserves the Accepted network before an update and restores it on the  *)
(* previous Release after a rejected one.  The controller's threads, the   *)
(* health process and administrators interleave; any process may end and   *)
(* the power may fail between two calls.                                   *)
(*                                                                         *)
(* bootc is external.  It keeps a booted, a staged and a rollback          *)
(* deployment; a clean reboot activates the staged one, a power loss drops *)
(* it, and "bootc rollback" drops it and swaps the boot order.             *)
(***************************************************************************)
EXTENDS Naturals

CONSTANTS
  Releases,  \* image digests
  Name,      \* the image reference of a Release, without a digest
  First,     \* the Release installed
  Nets,      \* Accepted networks
  None,
  Limit,     \* bounds on the events of Events
  MaxFailures, \* bound on failing calls and crashes together
  MaxRequests  \* bound on the other events together

Events == {"fault", "crash", "stage", "reboot", "rollback", "edit"}
Failures == {"fault", "crash"}

ASSUME ReleasesAssumption == First \in Releases /\ None \notin Releases
ASSUME NameAssumption == DOMAIN Name = Releases /\ None \notin {Name[r] : r \in Releases}
ASSUME NetsAssumption == Nets # {} /\ None \notin Nets
ASSUME NoneAssumption == None \notin [previous: Releases, update: Releases]
ASSUME LimitAssumption == Limit \in [Events -> Nat] /\ {MaxFailures, MaxRequests} \subseteq Nat

VARIABLES
  dep,         \* bootc: [booted, staged, rollback, queued]
  pending,     \* PENDING, the reference a health check is due for
  pendingDisk, \* what a power loss may leave of it: it is never synced
  record,      \* UPDATE_RECORD: [previous, update]
  manual,      \* MANUAL_ROLLBACK: [from, to]
  outcome,     \* UPDATE_OUTCOME: [release, kind]
  restore,     \* RESTORE_PRE_UPDATE, the update to return from
  preserved,   \* PRE_UPDATE_ACCEPTED
  report,      \* NETWORK_RESTORATION
  net,         \* the Accepted network
  result,      \* how netd's restoration went, before it is recorded
  phase,       \* how far this boot has come: restore-check, netd, up
  ctl,         \* the controller process: "down" or "up"
  op,          \* OPERATION: "Idle", "Staging", "Failed"
  stage,       \* the staging thread: [pc, image, before, after]
  roll,        \* the rollback request: [pc, before, pending, kind]
  reboot,      \* the reboot request
  rebooting,   \* systemctl reboot was called
  health,      \* the health process: [pc, pending]
  fate,        \* history: what became of each Release as an update
  pre,         \* history: networks Accepted from the last staging to its boot
  arrived,     \* history: how the booted deployment was reached; first: it left
               \* an update's first boot; owed: as below, when it was left
  queuedBy,    \* history: who queued the rollback
  owed,        \* history: the rollback queued has not removed PENDING
  used         \* events so far

files == <<record, manual, outcome, restore, preserved, report>>
pendings == <<pending, pendingDisk>>
boot == <<phase, net, result>>
threads == <<ctl, op, stage, roll, reboot>>
history == <<fate, pre, arrived, queuedBy, owed>>
vars == <<dep, files, pendings, boot, threads, rebooting, health, history, used>>

Spend(e) ==
  /\ used[e] < Limit[e]
  /\ IF e \in Failures
     THEN used["fault"] + used["crash"] < MaxFailures
     ELSE used["stage"] + used["reboot"] + used["rollback"] + used["edit"] < MaxRequests
  /\ used' = [used EXCEPT ![e] = @ + 1]

(* A call that either works or fails. *)
Try(ok) == IF ok THEN UNCHANGED used ELSE Spend("fault")

(* A durable write or removal of a file f; an error leaves either content. *)
Store(f, c, ok) == \E d \in BOOLEAN : Try(ok) /\ (ok => d) /\ f' = IF d THEN c ELSE f

-----------------------------------------------------------------------------
(* Identity of deployments.                                                *)

(* pending_is_this_boot compares references, DeploymentId.matches digests. *)
PendingIsThisBoot(p, r) == p # None /\ r # None /\ p = Name[r]
Matches(r, s) == r # None /\ r = s

(* plain fs::write and fs::remove_file of PENDING: no sync follows. *)
SetPending(p) == pending' = p /\ pendingDisk' = pendingDisk \cup {p, None}

-----------------------------------------------------------------------------
(* bootc (external).                                                       *)

Swap ==
  /\ dep.rollback # None
  /\ dep' = [dep EXCEPT !.staged = None, !.queued = ~@]

(* The deployment the next boot runs, staged deployments kept or not. *)
NextBoot(clean) ==
  LET to == IF clean /\ dep.staged # None THEN dep.staged
            ELSE IF dep.queued THEN dep.rollback ELSE dep.booted
  IN IF to = dep.booted /\ ~(clean /\ dep.staged # None)
     THEN [dep EXCEPT !.staged = None, !.queued = FALSE]
     ELSE [booted |-> to, staged |-> None, rollback |-> dep.booted, queued |-> FALSE]

-----------------------------------------------------------------------------
(* The controller: one thread per client around the OPERATION mutex.       *)

NoStage == [pc |-> "none", image |-> None, before |-> None, after |-> None]
NoRoll == [pc |-> "none", before |-> None, kind |-> None, pending |-> FALSE]

LockFree == roll.pc = "none" /\ reboot # "refresh"
Idle == ctl = "up" /\ LockFree /\ op # "Staging"

(* record_staged_for_health, then the controller serves requests. *)
RecordStagedForHealth ==
  \/ /\ pending = None /\ dep.staged # None
     /\ SetPending(Name[dep.staged])
     /\ UNCHANGED used
  \/ /\ pending # None \/ dep.staged = None
     /\ UNCHANGED <<pendings, used>>
  \/ Spend("fault") /\ UNCHANGED pendings

(* restore-check is over long before the deadline of health, and before    *)
(* the controller and netd start.                                          *)
Checking == {"check", "unmanual", "mark", "unrecord"}

ControllerStart ==
  /\ ctl = "down" /\ phase \notin Checking
  /\ ctl' = "up"
  /\ RecordStagedForHealth
  /\ UNCHANGED <<dep, files, boot, op, stage, roll, reboot, rebooting, health, history>>

StartStage(r) ==
  /\ Idle
  /\ Spend("stage")
  /\ op' = "Staging"
  /\ stage' = [NoStage EXCEPT !.pc = "preserve", !.image = r]
  /\ UNCHANGED <<dep, files, pendings, boot, ctl, roll, reboot, rebooting, health, history>>

(* The staging thread's next call, or its end. *)
StageGoes(ok, next) ==
  IF ok THEN stage' = next /\ UNCHANGED op
        ELSE stage' = NoStage /\ op' = "Failed"

(* netd's preserve_pre_update; netd must be up. *)
Preserve(ok) ==
  \/ ok /\ phase = "up" /\ preserved' = net /\ report' = None /\ UNCHANGED used
  \/ ~ok /\ phase # "up" /\ UNCHANGED <<preserved, report, used>>
  \/ /\ ~ok /\ phase = "up" /\ Spend("fault")
     /\ \/ UNCHANGED <<preserved, report>>
        \/ preserved' = net /\ report' \in {report, None}

StagePreserve ==
  /\ stage.pc = "preserve"
  /\ \E ok \in BOOLEAN :
       /\ Preserve(ok)
       /\ StageGoes(ok, [stage EXCEPT !.pc = "before"])
       /\ pre' = {net} \cup IF ok /\ dep.staged = None THEN {} ELSE pre
  /\ UNCHANGED <<dep, record, manual, outcome, restore, pendings, boot, ctl, roll, reboot,
                 rebooting, health, fate, arrived, queuedBy, owed>>

StageBefore ==
  /\ stage.pc = "before"
  /\ \E ok \in BOOLEAN :
       Try(ok) /\ StageGoes(ok, [stage EXCEPT !.pc = "switch", !.before = dep.booted])
  /\ UNCHANGED <<dep, files, pendings, boot, ctl, roll, reboot, rebooting, health, history>>

Switched(r) == IF r = dep.rollback THEN "reswitched" ELSE "switched"

(* bootc switch; the reference of the booted deployment stages nothing. *)
StageSwitch ==
  /\ stage.pc = "switch"
  /\ \E ok \in BOOLEAN :
       /\ Try(ok)
       /\ StageGoes(ok, [stage EXCEPT !.pc = "after"])
       /\ IF ok /\ Name[stage.image] # Name[dep.booted]
          THEN /\ dep' = [dep EXCEPT !.staged = stage.image]
               /\ fate' = [fate EXCEPT ![stage.image] = Switched(stage.image)]
          ELSE UNCHANGED <<dep, fate>>
  /\ UNCHANGED <<files, pendings, boot, ctl, roll, reboot, rebooting, health,
                 pre, arrived, queuedBy, owed>>

\* Mutant: a switch that staged nothing is recorded as an update.
StagedUnchecked ==
  /\ stage.pc = "after"
  /\ \E ok \in BOOLEAN :
       Try(ok) /\ StageGoes(ok, [stage EXCEPT !.pc = "record", !.after = dep.staged])
  /\ UNCHANGED <<dep, files, pendings, boot, ctl, roll, reboot, rebooting, health, history>>

StageAfter ==
  /\ stage.pc = "after"
  /\ \E ok \in BOOLEAN :
       /\ Try(ok)
       /\ StageGoes(ok /\ dep.staged # None, [stage EXCEPT !.pc = "record", !.after = dep.staged])
  /\ UNCHANGED <<dep, files, pendings, boot, ctl, roll, reboot, rebooting, health, history>>

(* A new record takes the place of the one this boot may be rejected by;   *)
(* an update whose record was lost has one again.                          *)
StageRecord ==
  /\ stage.pc = "record"
  /\ \E ok \in BOOLEAN :
       /\ Store(record, [previous |-> stage.before, update |-> stage.after], ok)
       /\ StageGoes(ok, [stage EXCEPT !.pc = "pending"])
  /\ fate' = [r \in Releases |->
                IF r = dep.booted /\ fate[r] = "booted" /\ record' # record THEN "lost"
                ELSE IF r = stage.after /\ fate[r] = "lost" THEN Switched(r) ELSE fate[r]]
  /\ UNCHANGED <<dep, manual, outcome, restore, preserved, report, pendings, boot, ctl, roll,
                 reboot, rebooting, health, pre, arrived, queuedBy, owed>>

(* write_pending truncates before it writes; then finish_staging. *)
StagePending ==
  /\ stage.pc = "pending"
  /\ \/ /\ SetPending(Name[stage.after])
        /\ op' = "Idle"
        /\ fate' = [fate EXCEPT ![stage.after] =
                      IF record # [previous |-> stage.before, update |-> stage.after] THEN "lost"
                      ELSE IF stage.after = dep.rollback THEN "restaged" ELSE "staged"]
        /\ owed' = (owed \/ dep.queued)
        /\ UNCHANGED used
     \/ /\ Spend("fault")
        /\ SetPending(None) \/ UNCHANGED pendings
        /\ op' = "Failed"
        /\ UNCHANGED <<fate, owed>>
  /\ stage' = NoStage
  /\ UNCHANGED <<dep, files, boot, ctl, roll, reboot, rebooting, health, pre, arrived, queuedBy>>

(* The lock is dropped before the reply, and the reboot follows the reply. *)
RebootRequest ==
  /\ Idle /\ reboot = "none"
  /\ Spend("reboot")
  /\ reboot' = "refresh"
  /\ UNCHANGED <<dep, files, pendings, boot, ctl, op, stage, roll, rebooting, health, history>>

\* Mutant: a reboot preserves the network although no update is staged.
RefreshAlways ==
  /\ reboot = "refresh"
  /\ \E ok \in BOOLEAN : Preserve(ok)
  /\ reboot' = "reply"
  /\ UNCHANGED <<dep, record, manual, outcome, restore, pendings, boot, ctl, op, stage, roll,
                 rebooting, health, history>>

RefreshPreUpdate ==
  /\ reboot = "refresh"
  /\ \/ dep.staged = None /\ UNCHANGED <<preserved, report, used>>
     \/ dep.staged # None /\ \E ok \in BOOLEAN : Preserve(ok)
  /\ reboot' = "reply"
  /\ UNCHANGED <<dep, record, manual, outcome, restore, pendings, boot, ctl, op, stage, roll,
                 rebooting, health, history>>

(* systemctl reboot, unless it fails; then nothing reports it. *)
request_reboot ==
  \/ rebooting' = TRUE /\ UNCHANGED used
  \/ Spend("fault") /\ UNCHANGED rebooting

(* A reply that cannot be written ends the request, too. *)
RequestReboot ==
  /\ reboot = "reply"
  /\ reboot' = "none"
  /\ request_reboot
  /\ UNCHANGED <<dep, files, pendings, boot, ctl, op, stage, roll, health, history>>

(* current_status takes the lock only to look; it changes nothing. *)
Status == ctl = "up" /\ LockFree /\ UNCHANGED vars

-----------------------------------------------------------------------------
(* Manual rollback, or its cancellation.                                   *)

RollbackRequest ==
  /\ Idle
  /\ Spend("rollback")
  /\ roll' = [NoRoll EXCEPT !.pc = "check"]
  /\ UNCHANGED <<dep, files, pendings, boot, ctl, op, stage, reboot, rebooting, health, history>>

\* Mutant: a manual rollback does not wait for appliance health.
DoesNotWait(updateBootPending, finished) ==
  IF updateBootPending THEN "UnacceptedUpdate" ELSE "Image"

HealthFinished == health.pc = "exited"

(* manual_rollback: None is a refusal. *)
ManualRollback(updateBootPending, finished) ==
  CASE updateBootPending /\ ~finished -> None
    [] updateBootPending /\ finished -> "UnacceptedUpdate"
    [] ~updateBootPending -> "Image"

(* manual_rollback_step reads the deployments and PENDING, and only then   *)
(* asks whether health has exited.                                         *)
RollbackCheck ==
  /\ roll.pc = "check"
  /\ \E ok \in BOOLEAN :
       /\ Try(ok)
       /\ roll' = IF ok THEN [pc |-> "decide", before |-> dep, kind |-> None,
                             pending |-> PendingIsThisBoot(pending, dep.booted)]
                  ELSE NoRoll
  /\ UNCHANGED <<dep, files, pendings, boot, ctl, op, stage, reboot, rebooting, health, history>>

RollbackDecide ==
  LET kind == ManualRollback(roll.pending, HealthFinished) IN
  /\ roll.pc = "decide"
  /\ roll' = IF kind = None \/ (roll.before.queued /\ manual = None) THEN NoRoll
             ELSE [roll EXCEPT !.pc = IF roll.before.queued THEN "cancel" ELSE "record",
                               !.kind = kind]
  /\ UNCHANGED <<dep, files, pendings, boot, ctl, op, stage, reboot, rebooting, health, history,
                 used>>

RollbackRecord ==
  /\ roll.pc = "record"
  /\ \E ok \in BOOLEAN :
       /\ Store(manual, [from |-> roll.before.booted, to |-> roll.before.rollback], ok)
       /\ roll' = IF ok THEN [roll EXCEPT !.pc = "queue"] ELSE NoRoll
  /\ UNCHANGED <<dep, record, outcome, restore, preserved, report, pendings, boot, ctl, op,
                 stage, reboot, rebooting, health, history>>

Requeued(by) == queuedBy' = IF dep'.queued THEN by ELSE None

RollbackQueue ==
  /\ roll.pc \in {"queue", "cancel"}
  /\ \/ /\ Swap
        /\ Requeued("manual")
        /\ owed' = (dep'.queued /\ (roll.kind = "Image" \/ roll.pc = "cancel"))
        /\ roll' = [roll EXCEPT !.pc = IF @ = "queue" THEN "clear" ELSE "forget"]
        /\ UNCHANGED used
     \/ /\ IF dep.rollback = None THEN UNCHANGED used ELSE Spend("fault")
        /\ roll' = IF roll.pc = "queue" THEN [roll EXCEPT !.pc = "forget"] ELSE NoRoll
        /\ UNCHANGED <<dep, queuedBy, owed>>
  /\ UNCHANGED <<files, pendings, boot, ctl, op, stage, reboot, rebooting, health,
                 fate, pre, arrived>>

(* The record of a cancelled or failed rollback is removed. *)
RollbackForget ==
  /\ roll.pc = "forget"
  /\ \E ok \in BOOLEAN : Store(manual, None, ok)
  /\ roll' = NoRoll
  /\ UNCHANGED <<dep, record, outcome, restore, preserved, report, pendings, boot, ctl, op,
                 stage, reboot, rebooting, health, history>>

(* clear_pending and its like: a removal that fails is not noticed. *)
ClearPending ==
  \/ SetPending(None) /\ owed' = FALSE /\ UNCHANGED used
  \/ Spend("fault") /\ UNCHANGED <<pendings, owed>>

RollbackClear ==
  /\ roll.pc = "clear"
  /\ IF roll.kind = "Image" THEN ClearPending ELSE UNCHANGED <<pendings, owed, used>>
  /\ roll' = NoRoll
  /\ UNCHANGED <<dep, files, boot, ctl, op, stage, reboot, rebooting, health,
                 fate, pre, arrived, queuedBy>>

-----------------------------------------------------------------------------
(* Appliance health: one process per boot.                                 *)

NoHealth == [pc |-> "start", pending |-> None]
HealthGoes(l) == health' = [health EXCEPT !.pc = l]
HealthLeaves == <<boot, threads>>

Becomes(state) == fate' = [fate EXCEPT ![dep.booted] = state]

HealthStart ==
  /\ health.pc = "start"
  /\ health' = [pc |-> IF pending = None THEN "exited" ELSE "checking", pending |-> pending]
  /\ UNCHANGED <<dep, files, pendings, HealthLeaves, rebooting, history, used>>

\* Mutant: any pending record makes this boot a Host update boot.
AnyPending == health.pending # None

ThisBoot == PendingIsThisBoot(health.pending, dep.booted)

(* bootc names another deployment as booted: nothing to check. *)
HealthOtherBoot ==
  /\ health.pc = "checking" /\ ~ThisBoot
  /\ HealthGoes("exited")
  /\ UNCHANGED <<dep, files, pendings, HealthLeaves, rebooting, history, used>>

(* The checks succeed; netd must have restored this boot's network, though *)
(* not what has been proposed since (NetdApply).                           *)
HealthOk ==
  /\ health.pc = "checking" /\ ThisBoot /\ phase = "up"
  /\ HealthGoes("discard")
  /\ Becomes("healthy")
  /\ UNCHANGED <<dep, files, pendings, HealthLeaves, rebooting, pre, arrived, queuedBy, owed, used>>

(* accept_update only logs its errors; netd must be up to discard. *)
AcceptDiscard ==
  /\ health.pc = "discard"
  /\ IF phase = "up" THEN \E ok \in BOOLEAN : Store(preserved, None, ok)
                     ELSE UNCHANGED <<preserved, used>>
  /\ HealthGoes("unrecord")
  /\ UNCHANGED <<dep, record, manual, outcome, restore, report, pendings, HealthLeaves,
                 rebooting, history>>

(* The update is accepted; the record that is removed may be that of one   *)
(* staged in the meantime.                                                 *)
Accepted ==
  fate' = [r \in Releases |->
             IF r = dep.booted THEN "accepted"
             ELSE IF record # None /\ record' = None /\ r = record.update
                     /\ fate[r] \in {"staged", "restaged"} THEN "lost"
             ELSE fate[r]]

\* Mutant: an accepted update keeps its record.
AcceptKeepsRecord ==
  /\ health.pc = "unrecord"
  /\ HealthGoes("outcome")
  /\ Becomes("accepted")
  /\ UNCHANGED <<dep, files, pendings, HealthLeaves, rebooting, pre, arrived, queuedBy, owed, used>>

AcceptUnrecord ==
  /\ health.pc = "unrecord"
  /\ \E ok \in BOOLEAN : Store(record, None, ok)
  /\ HealthGoes("outcome")
  /\ Accepted
  /\ UNCHANGED <<dep, manual, outcome, restore, preserved, report, pendings, HealthLeaves,
                 rebooting, pre, arrived, queuedBy, owed>>

AcceptOutcome ==
  /\ health.pc = "outcome"
  /\ \E ok \in BOOLEAN : Store(outcome, [release |-> dep.booted, kind |-> "accepted"], ok)
  /\ HealthGoes("clear")
  /\ UNCHANGED <<dep, record, manual, restore, preserved, report, pendings, HealthLeaves,
                 rebooting, history>>

ShouldAutoRollback(thisBoot, hasRollback, healthy) == thisBoot /\ hasRollback /\ ~healthy

(* The deadline, three minutes, passes on an update boot that is not       *)
(* healthy.                                                                *)
HealthDeadline ==
  /\ health.pc = "checking" /\ ThisBoot /\ phase \notin Checking
  /\ IF ShouldAutoRollback(ThisBoot, dep.rollback # None, FALSE)
     THEN /\ \E ok \in BOOLEAN :
               Store(outcome, [release |-> dep.booted, kind |-> "rolledback"], ok)
          /\ HealthGoes("rollback")
     ELSE HealthGoes("clear") /\ UNCHANGED <<outcome, used>>
  /\ UNCHANGED <<dep, record, manual, restore, preserved, report, pendings, HealthLeaves,
                 rebooting, history>>

(* bootc status fails at the deadline: no boot is recognised. *)
HealthBlind ==
  /\ health.pc = "checking" /\ phase \notin Checking
  /\ Spend("fault")
  /\ HealthGoes("exited")
  /\ UNCHANGED <<dep, files, pendings, HealthLeaves, rebooting, history>>

HealthRollback ==
  /\ health.pc = "rollback"
  /\ \/ /\ Swap
        /\ Requeued("health")
        /\ owed' = dep'.queued
        /\ HealthGoes("clearReboot")
        /\ UNCHANGED used
     \/ /\ IF dep.rollback = None THEN UNCHANGED used ELSE Spend("fault")
        /\ HealthGoes("exited")
        /\ UNCHANGED <<dep, queuedBy, owed>>
  /\ UNCHANGED <<files, pendings, HealthLeaves, rebooting, fate, pre, arrived>>

HealthClear ==
  /\ health.pc \in {"clear", "clearReboot"}
  /\ ClearPending
  /\ HealthGoes(IF health.pc = "clear" THEN "exited" ELSE "reboot")
  /\ UNCHANGED <<dep, files, HealthLeaves, rebooting, fate, pre, arrived, queuedBy>>

HealthReboot ==
  /\ health.pc = "reboot"
  /\ request_reboot
  /\ HealthGoes("exited")
  /\ UNCHANGED <<dep, files, pendings, HealthLeaves, history>>

-----------------------------------------------------------------------------
(* restore-check, before netd starts.                                      *)

(* returned_from_update and manual_rollback_outcome. *)
ReturnedFromUpdate ==
  record # None /\ Matches(record.previous, dep.booted) /\ Matches(record.update, dep.rollback)

\* Mutant: a queued manual rollback counts as done at the next boot.
QueuedIsDone == manual # None

ManualTookEffect ==
  manual # None /\ Matches(manual.to, dep.booted) /\ Matches(manual.from, dep.rollback)

(* The variables restore-check leaves alone. *)
CheckLeaves == <<dep, pendings, net, result, threads, rebooting, health, history>>

RestoreCheck ==
  /\ phase = "check"
  /\ \/ /\ manual = None /\ record = None
        /\ phase' = "netd"
        /\ UNCHANGED <<outcome, used>>
     \/ /\ manual # None
        /\ IF ManualTookEffect
           THEN \E ok \in BOOLEAN : Store(outcome, [release |-> manual.from, kind |-> "manual"], ok)
           ELSE UNCHANGED <<outcome, used>>
        /\ phase' = "unmanual"
     \/ /\ manual = None /\ record # None
        /\ phase' = IF ReturnedFromUpdate THEN "mark" ELSE "netd"
        /\ UNCHANGED <<outcome, used>>
     \/ /\ manual # None \/ record # None
        /\ Spend("fault") /\ phase' = "netd"
        /\ UNCHANGED outcome
  /\ UNCHANGED <<record, manual, restore, preserved, report, CheckLeaves>>

\* Mutant: a recorded manual rollback ends restore-check.
ManualEndsCheck ==
  /\ phase = "unmanual"
  /\ \E ok \in BOOLEAN : Store(manual, None, ok) /\ phase' = "netd"
  /\ UNCHANGED <<record, outcome, restore, preserved, report, CheckLeaves>>

CheckUnmanual ==
  /\ phase = "unmanual"
  /\ \E ok \in BOOLEAN :
       Store(manual, None, ok) /\ phase' = IF ok /\ ReturnedFromUpdate THEN "mark" ELSE "netd"
  /\ UNCHANGED <<record, outcome, restore, preserved, report, CheckLeaves>>

CheckMark ==
  /\ phase = "mark"
  /\ \E ok \in BOOLEAN :
       Store(restore, record.update, ok) /\ phase' = IF ok THEN "unrecord" ELSE "netd"
  /\ UNCHANGED <<record, manual, outcome, preserved, report, CheckLeaves>>

CheckUnrecord ==
  /\ phase = "unrecord"
  /\ \E ok \in BOOLEAN : Store(record, None, ok)
  /\ phase' = "netd"
  /\ UNCHANGED <<manual, outcome, restore, preserved, report, CheckLeaves>>

-----------------------------------------------------------------------------
(* netd's startup, its Accepted state restored (NetdApply): the preserved  *)
(* network is applied as a new revision, then the outcome is recorded.     *)

NetdLeaves == <<dep, record, manual, outcome, pendings, threads, rebooting, health>>

NetdStart ==
  /\ phase = "netd" /\ restore = None
  /\ phase' = "up"
  /\ UNCHANGED <<net, result, restore, preserved, report, NetdLeaves, history, used>>

NetdRestore ==
  /\ phase = "netd" /\ restore # None
  /\ \/ /\ preserved # None
        /\ net' = preserved
        /\ result' = IF net = preserved THEN "unchanged" ELSE "restored"
        /\ phase' = "unpreserve"
        /\ fate' = [fate EXCEPT ![restore] = "restored"]
        /\ UNCHANGED used
     \/ /\ IF preserved = None THEN UNCHANGED used ELSE Spend("fault")
        /\ result' = "failed"
        /\ phase' = "report"
        /\ UNCHANGED <<net, fate>>
  /\ UNCHANGED <<restore, preserved, report, NetdLeaves, pre, arrived, queuedBy, owed>>

(* From here on errors are only logged. *)
NetdUnpreserve ==
  /\ phase = "unpreserve"
  /\ \E ok \in BOOLEAN : Store(preserved, None, ok)
  /\ phase' = "report"
  /\ UNCHANGED <<net, result, restore, report, NetdLeaves, history>>

NetdReport ==
  /\ phase = "report"
  /\ \E ok \in BOOLEAN :
       /\ Store(report, result, ok)
       /\ phase' = IF ok THEN "unmark" ELSE "up"
       /\ fate' = IF ok /\ result = "failed" THEN [fate EXCEPT ![restore] = "reported"] ELSE fate
  /\ UNCHANGED <<net, result, restore, preserved, NetdLeaves, pre, arrived, queuedBy, owed>>

NetdUnmark ==
  /\ phase = "unmark"
  /\ \E ok \in BOOLEAN : Store(restore, None, ok)
  /\ phase' = "up"
  /\ UNCHANGED <<net, result, preserved, report, NetdLeaves, history>>

(* netd ends and is started again. *)
NetdEnds ==
  /\ phase \in {"unpreserve", "report", "unmark", "up"}
  /\ Spend("crash")
  /\ phase' = "netd"
  /\ UNCHANGED <<net, result, restore, preserved, report, NetdLeaves, history>>

(* An administrator changes the Accepted network. *)
Edit(n) ==
  /\ phase = "up" /\ n # net
  /\ Spend("edit")
  /\ net' = n
  /\ pre' = IF dep.staged # None \/ stage.pc # "none" THEN pre \cup {n} ELSE pre
  /\ UNCHANGED <<phase, result, restore, preserved, report, NetdLeaves, fate, arrived, queuedBy, owed>>

-----------------------------------------------------------------------------
(* Ends of processes and of boots.                                         *)

ControllerEnds ==
  /\ ctl = "up"
  /\ Spend("crash")
  /\ ctl' = "down" /\ op' = "Idle"
  /\ stage' = NoStage /\ roll' = NoRoll /\ reboot' = "none"
  /\ UNCHANGED <<dep, files, pendings, boot, rebooting, health, history>>

(* So may the health process; systemd records that it has exited. *)
HealthEnds ==
  /\ health.pc \notin {"start", "exited"}
  /\ Spend("crash")
  /\ HealthGoes("exited")
  /\ UNCHANGED <<dep, files, pendings, HealthLeaves, rebooting, history>>

(* How an update is booted, one that was the rollback deployment or not.   *)
Updates == {"staged", "restaged"}

(* All processes end; the next boot runs what bootc has ready. *)
Boots(clean) ==
  LET activated == clean /\ dep.staged # None
      by == IF ~activated THEN queuedBy
            ELSE IF dep.staged = dep.rollback THEN "restaged" ELSE "staged"
  IN
  /\ dep' = NextBoot(clean)
  /\ arrived' = IF dep'.booted = dep.booted THEN arrived
                ELSE [from |-> dep.booted, by |-> by, faults |-> used["fault"],
                      first |-> arrived.by \in Updates, owed |-> owed]
  /\ fate' = IF activated
             THEN [fate EXCEPT ![dep.staged] = CASE @ \in {"staged", "restaged"} -> "booted"
                                                 [] @ = "lost" -> "lost"
                                                 [] OTHER -> "unrecorded"]
             ELSE fate
  /\ queuedBy' = None /\ owed' = FALSE
  /\ phase' = "check" /\ ctl' = "down" /\ op' = "Idle"
  /\ stage' = NoStage /\ roll' = NoRoll /\ reboot' = "none" /\ rebooting' = FALSE
  /\ health' = NoHealth
  /\ UNCHANGED <<files, net, result, pre>>

Reboot ==
  /\ rebooting
  /\ Boots(TRUE)
  /\ pendingDisk' = {pending}
  /\ UNCHANGED <<pending, used>>

PowerLoss ==
  /\ Spend("crash")
  /\ Boots(FALSE)
  /\ pending' \in pendingDisk
  /\ pendingDisk' = {pending'}

-----------------------------------------------------------------------------

Init ==
  /\ dep = [booted |-> First, staged |-> None, rollback |-> None, queued |-> FALSE]
  /\ pending = None /\ pendingDisk = {None}
  /\ record = None /\ manual = None /\ outcome = None
  /\ restore = None /\ preserved = None /\ report = None
  /\ net \in Nets /\ result = None
  /\ phase = "check" /\ ctl = "down" /\ op = "Idle"
  /\ stage = NoStage /\ roll = NoRoll /\ reboot = "none" /\ rebooting = FALSE
  /\ health = NoHealth
  /\ fate = [r \in Releases |-> "none"] /\ pre = {}
  /\ arrived = [from |-> None, by |-> None, faults |-> 0, first |-> FALSE, owed |-> FALSE]
  /\ queuedBy = None /\ owed = FALSE
  /\ used = [e \in Events |-> 0]

Controller ==
  \/ ControllerStart
  \/ \E r \in Releases : StartStage(r)
  \/ StagePreserve \/ StageBefore \/ StageSwitch \/ StageAfter \/ StageRecord \/ StagePending
  \/ RebootRequest \/ RefreshPreUpdate \/ RequestReboot \/ Status
  \/ RollbackRequest \/ RollbackCheck \/ RollbackDecide \/ RollbackRecord \/ RollbackQueue
  \/ RollbackForget \/ RollbackClear

Health ==
  \/ HealthStart \/ HealthOtherBoot \/ HealthOk \/ AcceptDiscard \/ AcceptUnrecord
  \/ AcceptOutcome \/ HealthDeadline \/ HealthBlind \/ HealthRollback \/ HealthClear
  \/ HealthReboot

BootSteps ==
  \/ RestoreCheck \/ CheckUnmanual \/ CheckMark \/ CheckUnrecord
  \/ NetdStart \/ NetdRestore \/ NetdUnpreserve \/ NetdReport \/ NetdUnmark

Next ==
  \/ Controller \/ Health \/ BootSteps
  \/ \E n \in Nets : Edit(n)
  \/ ControllerEnds \/ HealthEnds \/ NetdEnds \/ Reboot \/ PowerLoss

Spec == Init /\ [][Next]_vars

-----------------------------------------------------------------------------
(* Properties.                                                             *)

OptRelease == Releases \cup {None}
References == {Name[r] : r \in Releases} \cup {None}
Deployments == [booted: Releases, staged: OptRelease, rollback: OptRelease, queued: BOOLEAN]

Stages ==
  [pc: {"none", "preserve", "before", "switch", "after", "record", "pending"},
   image: OptRelease, before: OptRelease, after: OptRelease]
Rolls ==
  [pc: {"none", "check", "decide", "record", "queue", "cancel", "forget", "clear"},
   before: Deployments \cup {None}, kind: {"Image", "UnacceptedUpdate", None},
   pending: BOOLEAN]
Healths ==
  [pc: {"start", "checking", "discard", "unrecord", "outcome", "clear", "rollback",
        "clearReboot", "reboot", "exited"},
   pending: References]
Fates == {"none", "switched", "reswitched", "staged", "restaged", "booted", "unrecorded",
          "lost", "healthy", "accepted", "restored", "reported"}
Arrivals ==
  [from: OptRelease, by: Updates \cup {"manual", "health", None}, faults: Nat,
   first: BOOLEAN, owed: BOOLEAN]

(* Every variable has its type. *)
TypeOK ==
  /\ dep \in Deployments
  /\ pending \in References /\ pendingDisk \subseteq References
  /\ record \in [previous: Releases, update: Releases] \cup {None}
  /\ manual \in [from: Releases, to: OptRelease] \cup {None}
  /\ outcome \in [release: Releases, kind: {"accepted", "rolledback", "manual"}] \cup {None}
  /\ restore \in OptRelease /\ preserved \in Nets \cup {None} /\ net \in Nets
  /\ {report, result} \subseteq {None, "restored", "unchanged", "failed"}
  /\ phase \in {"check", "unmanual", "mark", "unrecord", "netd", "unpreserve", "report",
               "unmark", "up"}
  /\ ctl \in {"down", "up"} /\ op \in {"Idle", "Staging", "Failed"}
  /\ stage \in Stages /\ roll \in Rolls /\ health \in Healths
  /\ reboot \in {"none", "refresh", "reply"} /\ rebooting \in BOOLEAN
  /\ fate \in [Releases -> Fates] /\ pre \subseteq Nets
  /\ arrived \in Arrivals /\ queuedBy \in {"manual", "health", None}
  /\ owed \in BOOLEAN
  /\ used \in [Events -> Nat] /\ \A e \in Events : used[e] <= Limit[e]

(* "Until appliance health has run and exited on a Host update boot,       *)
(* manual rollback is refused, because health owns that rollback": while   *)
(* PENDING names the booted Release, the rollback of run_health never      *)
(* swaps a manually queued one back.  A Release staged on an update boot   *)
(* takes PENDING away from it (ManualStands).                              *)
ManualNotUndone ==
  [][health.pc = "rollback" /\ health'.pc = "clearReboot" /\ dep.queued =>
       ~PendingIsThisBoot(pending, dep.booted)]_vars

(* Unless a call failed, netd changes the Accepted network on its own only *)
(* after an update that booted and was not accepted, crashes included: not *)
(* after a staged update that was never activated, an accepted one or one  *)
(* that was restored before.  Excepted is an update staged while it was    *)
(* the rollback deployment (RestoresOnlyActivated).                        *)
RestoresOnlyRejected ==
  [][phase = "netd" /\ net' # net /\ used["fault"] = 0 =>
       fate[restore] \in {"booted", "unrecorded", "healthy", "reswitched", "restaged"}]_vars

(* What netd restores was Accepted between the last staging that began and *)
(* its boot, of a network Accepted later nothing comes back.               *)
RestoresPreUpdateNetwork ==
  [][phase = "netd" /\ phase' = "unpreserve" => net' \in pre]_vars

(* The way back from the first boots of an update that was staged          *)
(* completely and never found healthy, by health or by hand, ends with the *)
(* pre-update network restored or its failure reported, crashes included,  *)
(* unless a call fails on the boot it leads to.  Excepted are updates      *)
(* whose record another one has replaced or taken along: what is staged on *)
(* an update boot replaces the record of that update, and is itself        *)
(* without one if health accepts that update afterwards                    *)
(* (EveryRejectedRestored).                                                *)
LeftUnrestored(u) ==
  /\ phase = "up" /\ used["fault"] = arrived.faults
  /\ arrived.by \in {"manual", "health"} /\ arrived.first /\ u = arrived.from
RejectedRestored ==
  \A u \in Releases : LeftUnrestored(u) => fate[u] # "booted"

(* Without crashes, run_health rolls back only a Release that was booted   *)
(* as an update: no stale PENDING, of a stage that was discarded or of an  *)
(* update that was rolled back, names it.  Excepted are Releases reached   *)
(* by a rollback that had not removed PENDING yet, failed to, or was       *)
(* queued while a staging thread could still write it.                     *)
JudgesOnlyUpdates ==
  [][health.pc = "checking" /\ health'.pc = "rollback" /\ used["crash"] = 0 =>
       arrived.by \in Updates \/ arrived.owed]_vars

(* restore-check reports a manual rollback only on a boot that returned    *)
(* from the Release it names, "so a cancelled or never-activated rollback  *)
(* reports nothing"; to stage the Release the rollback leads to is another *)
(* way to return.  Two failing calls can keep its record over two updates, *)
(* and the second may lead to that Release.                                *)
ManualOutcomeTrue ==
  [][outcome' # outcome /\ outcome'.kind = "manual" /\ used["fault"] <= 1 =>
       arrived.by # "staged" /\ arrived.from = outcome'.release]_vars

-----------------------------------------------------------------------------
(* What the code says of itself and does not keep, with legal requests and *)
(* no failure: TLC finds each violated.                                    *)

(* "Until appliance health has finished on an update boot, it owns the     *)
(* rollback": a manual rollback that found none queued does not undo the   *)
(* one of run_health.                                                      *)
HealthNotUndone ==
  [][roll.pc = "queue" /\ roll'.pc = "clear" => ~dep.queued]_vars

(* "Until appliance health has run and exited on a Host update boot,       *)
(* manual rollback is refused, because health owns that rollback": the     *)
(* rollback of run_health never swaps a manually queued one back.          *)
ManualStands ==
  [][health.pc = "rollback" /\ health'.pc = "clearReboot" => ~dep.queued]_vars

(* "A staged update that was never activated leaves an older rollback      *)
(* deployment instead", so that it is not taken for one that was rolled    *)
(* back and nothing is restored for it.                                    *)
RestoresOnlyActivated ==
  [][phase = "netd" /\ net' # net /\ used["fault"] = 0 =>
       fate[restore] \notin {"staged", "restaged"}]_vars

(* "The previous Release restores the preserved network itself, from the   *)
(* Host update record this boot leaves in place".                          *)
EveryRejectedRestored ==
  \A u \in Releases : LeftUnrestored(u) => fate[u] \notin {"booted", "lost"}

(* "no stage may start between preserving the network and the reboot", and *)
(* no update is booted without the health check recorded for it: a reboot  *)
(* without failing calls and crashes boots an update with its PENDING.     *)
UpdatesAreChecked ==
  [][rebooting /\ phase' = "check" /\ used["fault"] + used["crash"] = 0 /\ dep.staged # None =>
       PendingIsThisBoot(pending', dep'.booted)]_vars
=============================================================================
