---------------------------- MODULE HostUpdateProofs ---------------------------
(***************************************************************************)
(* Proofs about HostUpdate, for every set of Releases and networks and any *)
(* number of stagings, reboots, rollbacks, failing calls and crashes,      *)
(* whatever references Releases share and whenever administrators stage.   *)
(*                                                                         *)
(* For each part I of an inductive invariant, lemma IStep shows that every *)
(* step keeps it: one case for the steps that leave its variables alone,   *)
(* one for each action that does not, by the Moves lemmas.                 *)
(***************************************************************************)
EXTENDS HostUpdate, TLAPS

(* Which actions change which variable. *)
USE DEF Next, Controller, Health, BootSteps, ControllerStart, StartStage,
        StagePreserve, StageBefore, StageSwitch, StageAfter, StageRecord,
        StagePending, RebootRequest, RefreshPreUpdate, RequestReboot, Status,
        RollbackRequest, RollbackCheck, RollbackDecide, RollbackRecord,
        RollbackQueue, RollbackForget, RollbackClear, HealthStart,
        HealthOtherBoot, HealthOk, AcceptDiscard, AcceptUnrecord,
        AcceptOutcome, HealthDeadline, HealthBlind, HealthRollback,
        HealthClear, HealthReboot, RestoreCheck, CheckUnmanual, CheckMark,
        CheckUnrecord, NetdStart, NetdRestore, NetdUnpreserve, NetdReport,
        NetdUnmark, Edit, ControllerEnds, HealthEnds, NetdEnds, Reboot,
        PowerLoss, Boots, HealthGoes, HealthLeaves, CheckLeaves, NetdLeaves,
        vars, boot, threads, files, pendings, history

LEMMA DepMoves ==
  ASSUME [Next]_vars
  PROVE  UNCHANGED dep \/ StageSwitch \/ RollbackQueue \/ HealthRollback
           \/ Reboot \/ PowerLoss
OBVIOUS

LEMMA PendingMoves ==
  ASSUME [Next]_vars
  PROVE  UNCHANGED pending \/ ControllerStart \/ StagePending \/ RollbackClear
           \/ HealthClear \/ PowerLoss
OBVIOUS

LEMMA RecordMoves ==
  ASSUME [Next]_vars
  PROVE  UNCHANGED record \/ StageRecord \/ AcceptUnrecord \/ CheckUnrecord
OBVIOUS

LEMMA OutcomeMoves ==
  ASSUME [Next]_vars
  PROVE  UNCHANGED outcome \/ AcceptOutcome \/ HealthDeadline \/ RestoreCheck
OBVIOUS

LEMMA ManualMoves ==
  ASSUME [Next]_vars
  PROVE  UNCHANGED manual \/ RollbackRecord \/ RollbackForget \/ CheckUnmanual
OBVIOUS

LEMMA RestoreMoves ==
  ASSUME [Next]_vars
  PROVE  UNCHANGED restore \/ CheckMark \/ NetdUnmark
OBVIOUS

LEMMA PreservedMoves ==
  ASSUME [Next]_vars
  PROVE  UNCHANGED preserved \/ StagePreserve \/ RefreshPreUpdate
           \/ AcceptDiscard \/ NetdUnpreserve
OBVIOUS

LEMMA NetMoves ==
  ASSUME [Next]_vars
  PROVE  UNCHANGED net \/ NetdRestore \/ (\E n \in Nets : Edit(n))
OBVIOUS

LEMMA ResultMoves ==
  ASSUME [Next]_vars
  PROVE  UNCHANGED result \/ NetdRestore
OBVIOUS

LEMMA PhaseMoves ==
  ASSUME [Next]_vars
  PROVE  UNCHANGED phase \/ RestoreCheck \/ CheckUnmanual \/ CheckMark
           \/ CheckUnrecord \/ NetdStart \/ NetdRestore \/ NetdUnpreserve
           \/ NetdReport \/ NetdUnmark \/ NetdEnds \/ Reboot \/ PowerLoss
OBVIOUS

LEMMA CtlMoves ==
  ASSUME [Next]_vars
  PROVE  UNCHANGED ctl \/ ControllerStart \/ ControllerEnds \/ Reboot
           \/ PowerLoss
OBVIOUS

LEMMA OpMoves ==
  ASSUME [Next]_vars
  PROVE  UNCHANGED op \/ (\E r \in Releases : StartStage(r)) \/ StagePreserve
           \/ StageBefore \/ StageSwitch \/ StageAfter \/ StageRecord
           \/ StagePending \/ ControllerEnds \/ Reboot \/ PowerLoss
OBVIOUS

LEMMA StageMoves ==
  ASSUME [Next]_vars
  PROVE  UNCHANGED stage \/ (\E r \in Releases : StartStage(r))
           \/ StagePreserve \/ StageBefore \/ StageSwitch \/ StageAfter
           \/ StageRecord \/ StagePending \/ ControllerEnds \/ Reboot
           \/ PowerLoss
OBVIOUS

LEMMA RollMoves ==
  ASSUME [Next]_vars
  PROVE  UNCHANGED roll \/ RollbackRequest \/ RollbackCheck \/ RollbackDecide
           \/ RollbackRecord \/ RollbackQueue \/ RollbackForget
           \/ RollbackClear \/ ControllerEnds \/ Reboot \/ PowerLoss
OBVIOUS

LEMMA HealthMoves ==
  ASSUME [Next]_vars
  PROVE  UNCHANGED health \/ HealthStart \/ HealthOtherBoot \/ HealthOk
           \/ AcceptDiscard \/ AcceptUnrecord \/ AcceptOutcome
           \/ HealthDeadline \/ HealthBlind \/ HealthRollback \/ HealthClear
           \/ HealthReboot \/ HealthEnds \/ Reboot \/ PowerLoss
OBVIOUS

LEMMA FateMoves ==
  ASSUME [Next]_vars
  PROVE  UNCHANGED fate \/ StageSwitch \/ StageRecord \/ StagePending
           \/ HealthOk \/ AcceptUnrecord \/ NetdRestore \/ NetdReport \/ Reboot
           \/ PowerLoss
OBVIOUS

LEMMA PreMoves ==
  ASSUME [Next]_vars
  PROVE  UNCHANGED pre \/ StagePreserve \/ (\E n \in Nets : Edit(n))
OBVIOUS

LEMMA ArrivedMoves ==
  ASSUME [Next]_vars
  PROVE  UNCHANGED arrived \/ Reboot \/ PowerLoss
OBVIOUS

LEMMA QueuedByMoves ==
  ASSUME [Next]_vars
  PROVE  UNCHANGED queuedBy \/ RollbackQueue \/ HealthRollback \/ Reboot
           \/ PowerLoss
OBVIOUS

LEMMA OwedMoves ==
  ASSUME [Next]_vars
  PROVE  UNCHANGED owed \/ StagePending \/ RollbackQueue \/ RollbackClear
           \/ HealthRollback \/ HealthClear \/ Reboot \/ PowerLoss
OBVIOUS

(* used only counts: what it counts is spent one at a time.                *)
LEMMA UsedMoves ==
  ASSUME [Next]_vars
  PROVE  UNCHANGED used \/ \E e \in Events : Spend(e)
BY DEF Try, Store, Preserve, RecordStagedForHealth, request_reboot, ClearPending,
       Events

HIDE DEF Next, Controller, Health, BootSteps, ControllerStart, StartStage,
         StagePreserve, StageBefore, StageSwitch, StageAfter, StageRecord,
         StagePending, RebootRequest, RefreshPreUpdate, RequestReboot, Status,
         RollbackRequest, RollbackCheck, RollbackDecide, RollbackRecord,
         RollbackQueue, RollbackForget, RollbackClear, HealthStart,
         HealthOtherBoot, HealthOk, AcceptDiscard, AcceptUnrecord,
         AcceptOutcome, HealthDeadline, HealthBlind, HealthRollback,
         HealthClear, HealthReboot, RestoreCheck, CheckUnmanual, CheckMark,
         CheckUnrecord, NetdStart, NetdRestore, NetdUnpreserve, NetdReport,
         NetdUnmark, Edit, ControllerEnds, HealthEnds, NetdEnds, Reboot,
         PowerLoss, Boots, HealthGoes, HealthLeaves, CheckLeaves, NetdLeaves,
         vars, boot, threads, files, pendings, history

(***************************************************************************)
(* Types.  What the threads carry from one call to the next is the         *)
(* deployment that is still booted, because only a boot changes it.        *)
(***************************************************************************)
UsedOK == used \in [Events -> Nat] /\ \A e \in Events : used[e] <= Limit[e]

StageInv ==
  /\ op = "Staging" <=> stage.pc # "none"
  /\ stage.pc # "none" => stage.image \in Releases
  /\ stage.pc \in {"switch", "after", "record", "pending"} => stage.before = dep.booted
  /\ stage.pc \in {"record", "pending"} =>
       /\ stage.after \in Releases /\ Name[stage.after] # Name[dep.booted]
       /\ dep.staged \in {None, stage.after}

RollInv ==
  /\ roll.pc \notin {"none", "check"} =>
       /\ roll.before \in Deployments
       /\ roll.before.booted = dep.booted /\ roll.before.rollback = dep.rollback
  /\ roll.pc # "none" => stage.pc = "none"
  /\ ctl = "down" => stage.pc = "none" /\ roll.pc = "none"

DepInv ==
  /\ dep.staged # None => Name[dep.staged] # Name[dep.booted]
  /\ dep.rollback # None => Name[dep.rollback] # Name[dep.booted]
  /\ dep.queued => dep.rollback # None /\ queuedBy \in {"manual", "health"}
  /\ arrived.from = dep.rollback

CheckInv ==
  /\ phase \in Checking =>
       /\ ctl = "down" /\ dep.staged = None /\ ~dep.queued
       /\ health.pc \in {"start", "checking", "exited"}
  /\ phase \in {"mark", "unrecord"} => ReturnedFromUpdate
  /\ phase \in {"unpreserve", "report", "unmark"} => restore # None
  /\ health.pc \notin {"start", "checking", "exited"} => ThisBoot

TypeInv == TypeOK /\ StageInv /\ RollInv /\ DepInv /\ CheckInv

LEMMA SpendUsed ==
  ASSUME UsedOK, NEW e \in Events, Spend(e)
  PROVE  UsedOK'
BY LimitAssumption DEF UsedOK, Spend, Failures, Events

LEMMA UsedStep ==
  ASSUME UsedOK, [Next]_vars
  PROVE  UsedOK'
BY UsedMoves, SpendUsed DEF UsedOK

(* What was spent stays spent, and a call that fails spends. *)
LEMMA UsedGrows ==
  ASSUME TypeInv, [Next]_vars
  PROVE  /\ used["fault"] \in Nat /\ used'["fault"] \in Nat /\ used'["fault"] >= used["fault"]
         /\ used["crash"] \in Nat /\ used'["crash"] \in Nat /\ used'["crash"] >= used["crash"]
<1>1. UsedOK /\ UsedOK'
  BY UsedStep DEF TypeInv, TypeOK, UsedOK
<1>2. ASSUME NEW e \in Events, Spend(e)
      PROVE  used'["fault"] >= used["fault"] /\ used'["crash"] >= used["crash"]
  BY <1>1, <1>2 DEF Spend, UsedOK, Events
<1> QED BY <1>1, <1>2, UsedMoves DEF UsedOK, Events

LEMMA FaultCounts ==
  ASSUME TypeInv, Spend("fault")
  PROVE  used["fault"] \in Nat /\ used'["fault"] = used["fault"] + 1
BY DEF Spend, TypeInv, TypeOK, Events

LEMMA TryWorks ==
  ASSUME TypeInv, NEW ok \in BOOLEAN, Try(ok), used'["fault"] = used["fault"]
  PROVE  ok
BY FaultCounts DEF Try

LEMMA CrashCounts ==
  ASSUME TypeInv, Spend("crash")
  PROVE  used["crash"] \in Nat /\ used'["crash"] = used["crash"] + 1
BY DEF Spend, TypeInv, TypeOK, Events

LEMMA TypeInit ==
  ASSUME Init
  PROVE  TypeInv
<1> USE ReleasesAssumption, NetsAssumption DEF Init
<1>1. TypeOK
  <2>1. dep \in Deployments /\ {pending} \cup pendingDisk \subseteq References
    BY DEF Deployments, OptRelease, References
  <2>2. UsedOK
    BY LimitAssumption DEF UsedOK, Events
  <2>3. stage \in [pc: {"none"}, image: {None}, before: {None}, after: {None}]
    BY DEF NoStage
  <2>4. roll \in [pc: {"none"}, before: {None}, kind: {None}, pending: {FALSE}]
    BY DEF NoRoll
  <2>5. health \in [pc: {"start"}, pending: {None}]
    BY DEF NoHealth
  <2>6. fate \in [Releases -> {"none"}]
    OBVIOUS
  <2>7. arrived \in [from: {None}, by: {None}, faults: Nat, first: BOOLEAN, owed: BOOLEAN]
    OBVIOUS
  <2> QED BY <2>1, <2>2, <2>3, <2>4, <2>5, <2>6, <2>7
          DEF TypeOK, OptRelease, References, UsedOK, Stages, Rolls, Healths,
              Arrivals, Fates
<1>2. StageInv /\ RollInv /\ DepInv
  BY DEF StageInv, RollInv, DepInv, NoStage, NoRoll
<1>3. CheckInv
  BY DEF CheckInv, NoHealth, Checking
<1> QED BY <1>1, <1>2, <1>3 DEF TypeInv

(* bootc rollback turns the order of the next boot. *)
LEMMA SwapTurns ==
  ASSUME dep \in Deployments, Swap
  PROVE  /\ dep' \in Deployments /\ dep.rollback # None
         /\ dep'.booted = dep.booted /\ dep'.rollback = dep.rollback
         /\ dep'.staged = None /\ dep'.queued = ~dep.queued
<1>1. /\ dep.rollback # None
      /\ dep' = [dep EXCEPT !.staged = None, !.queued = ~dep.queued]
  BY DEF Swap
<1>2. dep' = [booted |-> dep.booted, staged |-> None, rollback |-> dep.rollback,
              queued |-> ~dep.queued]
  BY <1>1 DEF Deployments
<1>3. dep.booted \in Releases /\ dep.rollback \in OptRelease
  BY DEF Deployments
<1>4. dep' \in Deployments
  <2>1. dep.queued \in BOOLEAN
    BY DEF Deployments
  <2>2. (~dep.queued) = TRUE \/ (~dep.queued) = FALSE
    BY <2>1, Zenon
  <2> QED BY <1>2, <1>3, <2>2 DEF Deployments, OptRelease
<1>5. dep'.booted = dep.booted /\ dep'.staged = None /\ dep'.rollback = dep.rollback
  BY <1>2
<1>6. dep'.queued = ~dep.queued
  BY <1>2, Zenon
<1> QED BY <1>1, <1>4, <1>5, <1>6

LEMMA StageInvStep ==
  ASSUME TypeInv, [Next]_vars
  PROVE  StageInv'
<1>1. CASE UNCHANGED <<dep, op, stage>>
  BY <1>1 DEF StageInv, TypeInv
<1>2. CASE \E r \in Releases : StartStage(r)
  BY <1>2, ReleasesAssumption
   DEF StartStage, Idle, NoStage, boot, files, history, pendings, LockFree,
       StageInv, TypeInv, RollInv, TypeOK, Deployments, Stages
<1>3. CASE StagePreserve
  BY <1>3, ReleasesAssumption
   DEF StagePreserve, Preserve, StageGoes, boot, pendings, NoStage, StageInv,
       TypeInv, RollInv, TypeOK, Deployments, Stages
<1>4. CASE StageBefore
  <2>1. PICK ok \in BOOLEAN : StageGoes(ok, [stage EXCEPT !.pc = "switch", !.before = dep.booted])
    BY <1>4 DEF StageBefore
  <2>2. stage.pc = "before" /\ dep'.booted = dep.booted
    BY <1>4 DEF StageBefore, TypeInv, TypeOK, Deployments
  <2>3. CASE stage' = NoStage /\ op' = "Failed"
    BY <2>2, <2>3 DEF NoStage, StageInv, TypeInv
  <2>4. CASE stage' = [stage EXCEPT !.pc = "switch", !.before = dep.booted] /\ op' = op
    BY <2>2, <2>4 DEF StageInv, TypeInv, TypeOK, Stages
  <2> QED BY <2>1, <2>3, <2>4 DEF StageGoes
<1>5. CASE StageSwitch
  <2>1. PICK ok \in BOOLEAN : StageGoes(ok, [stage EXCEPT !.pc = "after"])
    BY <1>5 DEF StageSwitch
  <2>2. stage.pc = "switch" /\ dep'.booted = dep.booted
    BY <1>5 DEF StageSwitch, TypeInv, TypeOK, Deployments
  <2>3. CASE stage' = NoStage /\ op' = "Failed"
    BY <2>2, <2>3 DEF NoStage, StageInv, TypeInv
  <2>4. CASE stage' = [stage EXCEPT !.pc = "after"] /\ op' = op
    BY <2>2, <2>4 DEF StageInv, TypeInv, TypeOK, Stages
  <2> QED BY <2>1, <2>3, <2>4 DEF StageGoes
<1>6. CASE StageAfter
  <2>1. PICK ok \in BOOLEAN :
          StageGoes(ok /\ dep.staged # None,
                    [stage EXCEPT !.pc = "record", !.after = dep.staged])
    BY <1>6 DEF StageAfter
  <2>2. stage.pc = "after" /\ dep' = dep
    BY <1>6 DEF StageAfter
  <2>3. CASE stage' = NoStage /\ op' = "Failed"
    BY <2>2, <2>3 DEF NoStage, StageInv, TypeInv
  <2>4. CASE /\ dep.staged # None /\ op' = op
             /\ stage' = [stage EXCEPT !.pc = "record", !.after = dep.staged]
    BY <2>2, <2>4 DEF StageInv, DepInv, TypeInv, TypeOK, Stages, Deployments,
                      OptRelease
  <2> QED BY <2>1, <2>3, <2>4 DEF StageGoes
<1>7. CASE StageRecord
  BY <1>7, ReleasesAssumption
   DEF StageRecord, StageGoes, Store, Switched, boot, pendings, NoStage,
       StageInv, TypeInv, RollInv, TypeOK, Deployments, Stages
<1>8. CASE StagePending
  BY <1>8, ReleasesAssumption
   DEF StagePending, NoStage, SetPending, boot, files, pendings, StageInv,
       TypeInv, RollInv, TypeOK, Deployments, Stages
<1>9. CASE RollbackQueue
  <2>1. dep'.booted = dep.booted /\ dep'.staged \in {None, dep.staged}
    BY <1>9, SwapTurns DEF RollbackQueue, TypeInv, TypeOK
  <2> QED BY <1>9, <2>1 DEF RollbackQueue, StageInv, TypeInv
<1>10. CASE HealthRollback
  <2>1. dep'.booted = dep.booted /\ dep'.staged \in {None, dep.staged}
    BY <1>10, SwapTurns DEF HealthRollback, TypeInv, TypeOK
  <2> QED BY <1>10, <2>1 DEF HealthRollback, HealthLeaves, threads, StageInv, TypeInv
<1>11. CASE ControllerEnds
  BY <1>11, ReleasesAssumption
   DEF ControllerEnds, NoRoll, NoStage, boot, files, history, pendings,
       StageInv, TypeInv, RollInv, TypeOK, Deployments, Stages
<1>12. CASE Reboot
  BY <1>12, ReleasesAssumption
   DEF Reboot, Boots, NextBoot, NoHealth, NoRoll, NoStage, Updates, files,
       StageInv, TypeInv, RollInv, TypeOK, Deployments, Stages
<1>13. CASE PowerLoss
  BY <1>13, ReleasesAssumption
   DEF PowerLoss, Boots, NextBoot, NoHealth, NoRoll, NoStage, Updates, files,
       StageInv, TypeInv, RollInv, TypeOK, Deployments, Stages
<1> QED BY <1>1, <1>2, <1>3, <1>4, <1>5, <1>6, <1>7, <1>8, <1>9, <1>10, <1>11,
           <1>12, <1>13, DepMoves, OpMoves, StageMoves

LEMMA RollInvStep ==
  ASSUME TypeInv, [Next]_vars
  PROVE  RollInv'
<1>1. CASE UNCHANGED <<dep, ctl, stage, roll>>
  BY <1>1 DEF RollInv, Deployments, OptRelease, TypeInv
<1>2. CASE ControllerStart
  BY <1>2, ReleasesAssumption
   DEF ControllerStart, Checking, RecordStagedForHealth, boot, files, history,
       SetPending, pendings, RollInv, Deployments, OptRelease, TypeInv,
       StageInv, TypeOK, Rolls, Stages
<1>3. CASE \E r \in Releases : StartStage(r)
  BY <1>3, ReleasesAssumption
   DEF StartStage, Idle, NoStage, boot, files, history, pendings, LockFree,
       RollInv, Deployments, OptRelease, TypeInv, StageInv, TypeOK, Rolls,
       Stages
<1>4. CASE StagePreserve
  BY <1>4, ReleasesAssumption
   DEF StagePreserve, Preserve, StageGoes, boot, pendings, NoStage, RollInv,
       Deployments, OptRelease, TypeInv, StageInv, TypeOK, Rolls, Stages
<1>5. CASE StageBefore
  BY <1>5, ReleasesAssumption
   DEF StageBefore, StageGoes, boot, files, history, pendings, NoStage,
       RollInv, Deployments, OptRelease, TypeInv, StageInv, TypeOK, Rolls,
       Stages
<1>6. CASE StageSwitch
  BY <1>6, ReleasesAssumption
   DEF StageSwitch, StageGoes, Switched, boot, files, pendings, NoStage,
       RollInv, Deployments, OptRelease, TypeInv, StageInv, TypeOK, Rolls,
       Stages
<1>7. CASE StageAfter
  BY <1>7, ReleasesAssumption
   DEF StageAfter, StageGoes, boot, files, history, pendings, NoStage, RollInv,
       Deployments, OptRelease, TypeInv, StageInv, TypeOK, Rolls, Stages
<1>8. CASE StageRecord
  BY <1>8, ReleasesAssumption
   DEF StageRecord, StageGoes, Store, Switched, boot, pendings, NoStage,
       RollInv, Deployments, OptRelease, TypeInv, StageInv, TypeOK, Rolls,
       Stages
<1>9. CASE StagePending
  BY <1>9, ReleasesAssumption
   DEF StagePending, NoStage, SetPending, boot, files, pendings, RollInv,
       Deployments, OptRelease, TypeInv, StageInv, TypeOK, Rolls, Stages
<1>10. CASE RollbackRequest
  BY <1>10, ReleasesAssumption
   DEF RollbackRequest, Idle, NoRoll, boot, files, history, pendings, LockFree,
       RollInv, Deployments, OptRelease, TypeInv, StageInv, TypeOK, Rolls,
       Stages
<1>11. CASE RollbackCheck
  BY <1>11, ReleasesAssumption
   DEF RollbackCheck, NoRoll, boot, files, history, pendings, RollInv,
       Deployments, OptRelease, TypeInv, StageInv, TypeOK, Rolls, Stages
<1>12. CASE RollbackDecide
  BY <1>12, ReleasesAssumption
   DEF RollbackDecide, HealthFinished, ManualRollback, NoRoll, boot, files,
       history, pendings, RollInv, Deployments, OptRelease, TypeInv, StageInv,
       TypeOK, Rolls, Stages
<1>13. CASE RollbackRecord
  BY <1>13, ReleasesAssumption
   DEF RollbackRecord, NoRoll, Store, boot, history, pendings, RollInv,
       Deployments, OptRelease, TypeInv, StageInv, TypeOK, Rolls, Stages
<1>14. CASE RollbackQueue
  <2>1. /\ dep'.booted = dep.booted /\ dep'.rollback = dep.rollback
        /\ roll.pc \notin {"none", "check"}
    BY <1>14, SwapTurns DEF RollbackQueue, TypeInv, TypeOK
  <2>2. roll'.pc = "none" \/ roll'.before = roll.before
    BY <1>14 DEF RollbackQueue, NoRoll, TypeInv, TypeOK, Rolls
  <2>3. UNCHANGED <<stage, ctl>> /\ stage.pc = "none" /\ ctl # "down"
    BY <1>14, <2>1 DEF RollbackQueue, RollInv, TypeInv
  <2> QED BY <2>1, <2>2, <2>3 DEF RollInv, TypeInv, Deployments
<1>15. CASE RollbackForget
  BY <1>15, ReleasesAssumption
   DEF RollbackForget, NoRoll, Store, boot, history, pendings, RollInv,
       Deployments, OptRelease, TypeInv, StageInv, TypeOK, Rolls, Stages
<1>16. CASE RollbackClear
  BY <1>16, ReleasesAssumption
   DEF RollbackClear, ClearPending, NoRoll, boot, files, pendings, SetPending,
       RollInv, Deployments, OptRelease, TypeInv, StageInv, TypeOK, Rolls,
       Stages
<1>17. CASE HealthRollback
  <2>1. dep'.booted = dep.booted /\ dep'.rollback = dep.rollback
    BY <1>17, SwapTurns DEF HealthRollback, TypeInv, TypeOK
  <2> QED BY <1>17, <2>1 DEF HealthRollback, HealthLeaves, threads, RollInv,
                             TypeInv, Deployments
<1>18. CASE ControllerEnds
  BY <1>18, ReleasesAssumption
   DEF ControllerEnds, NoRoll, NoStage, boot, files, history, pendings,
       RollInv, Deployments, OptRelease, TypeInv, StageInv, TypeOK, Rolls,
       Stages
<1>19. CASE Reboot
  BY <1>19, ReleasesAssumption
   DEF Reboot, Boots, NextBoot, NoHealth, NoRoll, NoStage, Updates, files,
       RollInv, Deployments, OptRelease, TypeInv, StageInv, TypeOK, Rolls,
       Stages
<1>20. CASE PowerLoss
  BY <1>20, ReleasesAssumption
   DEF PowerLoss, Boots, NextBoot, NoHealth, NoRoll, NoStage, Updates, files,
       RollInv, Deployments, OptRelease, TypeInv, StageInv, TypeOK, Rolls,
       Stages
<1> QED BY <1>1, <1>2, <1>3, <1>4, <1>5, <1>6, <1>7, <1>8, <1>9, <1>10, <1>11,
           <1>12, <1>13, <1>14, <1>15, <1>16, <1>17, <1>18, <1>19, <1>20,
           DepMoves, CtlMoves, StageMoves, RollMoves

LEMMA DepInvStep ==
  ASSUME TypeInv, [Next]_vars
  PROVE  DepInv'
<1>1. CASE UNCHANGED <<dep, arrived, queuedBy>>
  BY <1>1 DEF DepInv, TypeInv
<1>2. CASE StageSwitch
  BY <1>2, ReleasesAssumption
   DEF StageSwitch, StageGoes, Switched, boot, files, pendings, NoStage,
       DepInv, TypeInv, StageInv, TypeOK, Deployments, OptRelease
<1>3. CASE RollbackQueue
  <2>1. CASE Swap /\ Requeued("manual")
    <3>1. queuedBy' = IF dep'.queued THEN "manual" ELSE None
      BY <2>1 DEF Requeued
    <3> QED BY <1>3, <2>1, <3>1, SwapTurns
            DEF RollbackQueue, DepInv, TypeInv, TypeOK
  <2>2. CASE UNCHANGED <<dep, queuedBy>>
    BY <1>3, <2>2 DEF RollbackQueue, DepInv, TypeInv
  <2> QED BY <1>3, <2>1, <2>2 DEF RollbackQueue
<1>4. CASE HealthRollback
  <2>1. CASE Swap /\ Requeued("health")
    <3>1. queuedBy' = IF dep'.queued THEN "health" ELSE None
      BY <2>1 DEF Requeued
    <3> QED BY <1>4, <2>1, <3>1, SwapTurns
            DEF HealthRollback, DepInv, TypeInv, TypeOK
  <2>2. CASE UNCHANGED <<dep, queuedBy>>
    BY <1>4, <2>2 DEF HealthRollback, DepInv, TypeInv
  <2> QED BY <1>4, <2>1, <2>2 DEF HealthRollback
<1>5. CASE Reboot
  BY <1>5, ReleasesAssumption
   DEF Reboot, Boots, NextBoot, NoHealth, NoRoll, NoStage, Updates, files,
       DepInv, TypeInv, StageInv, TypeOK, Deployments, OptRelease
<1>6. CASE PowerLoss
  BY <1>6, ReleasesAssumption
   DEF PowerLoss, Boots, NextBoot, NoHealth, NoRoll, NoStage, Updates, files,
       DepInv, TypeInv, StageInv, TypeOK, Deployments, OptRelease
<1> QED BY <1>1, <1>2, <1>3, <1>4, <1>5, <1>6, DepMoves, ArrivedMoves,
           QueuedByMoves

LEMMA CheckInvStep ==
  ASSUME TypeInv, [Next]_vars
  PROVE  CheckInv'
<1>1. CASE UNCHANGED <<dep, record, restore, phase, ctl, health>>
  BY <1>1
   DEF CheckInv, Checking, ReturnedFromUpdate, ThisBoot, Matches, TypeInv
<1>2. CASE ControllerStart
  BY <1>2, ReleasesAssumption
   DEF ControllerStart, Checking, RecordStagedForHealth, boot, files, history,
       SetPending, pendings, CheckInv, ReturnedFromUpdate, ThisBoot, Matches,
       TypeInv, DepInv, RollInv, StageInv, TypeOK, Deployments, Healths,
       OptRelease
<1>3. CASE StageSwitch
  BY <1>3, ReleasesAssumption
   DEF StageSwitch, StageGoes, Switched, boot, files, pendings, NoStage,
       CheckInv, Checking, ReturnedFromUpdate, ThisBoot, Matches, TypeInv,
       DepInv, RollInv, StageInv, TypeOK, Deployments, Healths, OptRelease
<1>4. CASE StageRecord
  BY <1>4, ReleasesAssumption
   DEF StageRecord, StageGoes, Store, Switched, boot, pendings, NoStage,
       CheckInv, Checking, ReturnedFromUpdate, ThisBoot, Matches, TypeInv,
       DepInv, RollInv, StageInv, TypeOK, Deployments, Healths, OptRelease
<1>5. CASE RollbackQueue
  BY <1>5, ReleasesAssumption
   DEF RollbackQueue, NoRoll, Requeued, Swap, boot, files, pendings, CheckInv,
       Checking, ReturnedFromUpdate, ThisBoot, Matches, TypeInv, DepInv,
       RollInv, StageInv, TypeOK, Deployments, Healths, OptRelease
<1>6. CASE HealthStart
  BY <1>6, ReleasesAssumption
   DEF HealthStart, HealthLeaves, files, history, pendings, boot, threads,
       CheckInv, Checking, ReturnedFromUpdate, ThisBoot, Matches, TypeInv,
       DepInv, RollInv, StageInv, TypeOK, Deployments, Healths, OptRelease
<1>7. CASE HealthOtherBoot
  BY <1>7, ReleasesAssumption
   DEF HealthOtherBoot, HealthGoes, HealthLeaves, ThisBoot, files, history,
       pendings, boot, threads, CheckInv, Checking, ReturnedFromUpdate,
       Matches, TypeInv, DepInv, RollInv, StageInv, TypeOK, Deployments,
       Healths, OptRelease
<1>8. CASE HealthOk
  BY <1>8, ReleasesAssumption
   DEF HealthOk, Becomes, HealthGoes, HealthLeaves, ThisBoot, files, pendings,
       boot, threads, CheckInv, Checking, ReturnedFromUpdate, Matches, TypeInv,
       DepInv, RollInv, StageInv, TypeOK, Deployments, Healths, OptRelease
<1>9. CASE AcceptDiscard
  BY <1>9, ReleasesAssumption
   DEF AcceptDiscard, HealthGoes, HealthLeaves, Store, history, pendings, boot,
       threads, CheckInv, Checking, ReturnedFromUpdate, ThisBoot, Matches,
       TypeInv, DepInv, RollInv, StageInv, TypeOK, Deployments, Healths,
       OptRelease
<1>10. CASE AcceptUnrecord
  BY <1>10, ReleasesAssumption
   DEF AcceptUnrecord, Accepted, HealthGoes, HealthLeaves, Store, pendings,
       boot, threads, CheckInv, Checking, ReturnedFromUpdate, ThisBoot,
       Matches, TypeInv, DepInv, RollInv, StageInv, TypeOK, Deployments,
       Healths, OptRelease
<1>11. CASE AcceptOutcome
  BY <1>11, ReleasesAssumption
   DEF AcceptOutcome, HealthGoes, HealthLeaves, Store, history, pendings, boot,
       threads, CheckInv, Checking, ReturnedFromUpdate, ThisBoot, Matches,
       TypeInv, DepInv, RollInv, StageInv, TypeOK, Deployments, Healths,
       OptRelease
<1>12. CASE HealthDeadline
  BY <1>12, ReleasesAssumption
   DEF HealthDeadline, Checking, HealthGoes, HealthLeaves, ShouldAutoRollback,
       Store, ThisBoot, history, pendings, boot, threads, CheckInv,
       ReturnedFromUpdate, Matches, TypeInv, DepInv, RollInv, StageInv, TypeOK,
       Deployments, Healths, OptRelease
<1>13. CASE HealthBlind
  BY <1>13, ReleasesAssumption
   DEF HealthBlind, Checking, HealthGoes, HealthLeaves, files, history,
       pendings, boot, threads, CheckInv, ReturnedFromUpdate, ThisBoot,
       Matches, TypeInv, DepInv, RollInv, StageInv, TypeOK, Deployments,
       Healths, OptRelease
<1>14. CASE HealthRollback
  BY <1>14, ReleasesAssumption
   DEF HealthRollback, HealthGoes, HealthLeaves, Requeued, Swap, files,
       pendings, boot, threads, CheckInv, Checking, ReturnedFromUpdate,
       ThisBoot, Matches, TypeInv, DepInv, RollInv, StageInv, TypeOK,
       Deployments, Healths, OptRelease
<1>15. CASE HealthClear
  BY <1>15, ReleasesAssumption
   DEF HealthClear, ClearPending, HealthGoes, HealthLeaves, files, SetPending,
       pendings, boot, threads, CheckInv, Checking, ReturnedFromUpdate,
       ThisBoot, Matches, TypeInv, DepInv, RollInv, StageInv, TypeOK,
       Deployments, Healths, OptRelease
<1>16. CASE HealthReboot
  BY <1>16, ReleasesAssumption
   DEF HealthReboot, HealthGoes, HealthLeaves, files, history, pendings,
       request_reboot, boot, threads, CheckInv, Checking, ReturnedFromUpdate,
       ThisBoot, Matches, TypeInv, DepInv, RollInv, StageInv, TypeOK,
       Deployments, Healths, OptRelease
<1>17. CASE RestoreCheck
  BY <1>17, ReleasesAssumption
   DEF RestoreCheck, CheckLeaves, ManualTookEffect, ReturnedFromUpdate, Store,
       history, pendings, threads, Matches, CheckInv, Checking, ThisBoot,
       TypeInv, DepInv, RollInv, StageInv, TypeOK, Deployments, Healths,
       OptRelease
<1>18. CASE CheckUnmanual
  BY <1>18, ReleasesAssumption
   DEF CheckUnmanual, CheckLeaves, ReturnedFromUpdate, Store, history,
       pendings, threads, Matches, CheckInv, Checking, ThisBoot, TypeInv,
       DepInv, RollInv, StageInv, TypeOK, Deployments, Healths, OptRelease
<1>19. CASE CheckMark
  BY <1>19, ReleasesAssumption
   DEF CheckMark, CheckLeaves, Store, history, pendings, threads, CheckInv,
       Checking, ReturnedFromUpdate, ThisBoot, Matches, TypeInv, DepInv,
       RollInv, StageInv, TypeOK, Deployments, Healths, OptRelease
<1>20. CASE CheckUnrecord
  BY <1>20, ReleasesAssumption
   DEF CheckUnrecord, CheckLeaves, Store, history, pendings, threads, CheckInv,
       Checking, ReturnedFromUpdate, ThisBoot, Matches, TypeInv, DepInv,
       RollInv, StageInv, TypeOK, Deployments, Healths, OptRelease
<1>21. CASE NetdStart
  BY <1>21, ReleasesAssumption
   DEF NetdStart, NetdLeaves, history, pendings, threads, CheckInv, Checking,
       ReturnedFromUpdate, ThisBoot, Matches, TypeInv, DepInv, RollInv,
       StageInv, TypeOK, Deployments, Healths, OptRelease
<1>22. CASE NetdRestore
  BY <1>22, ReleasesAssumption
   DEF NetdRestore, NetdLeaves, pendings, threads, CheckInv, Checking,
       ReturnedFromUpdate, ThisBoot, Matches, TypeInv, DepInv, RollInv,
       StageInv, TypeOK, Deployments, Healths, OptRelease
<1>23. CASE NetdUnpreserve
  BY <1>23, ReleasesAssumption
   DEF NetdUnpreserve, NetdLeaves, Store, history, pendings, threads, CheckInv,
       Checking, ReturnedFromUpdate, ThisBoot, Matches, TypeInv, DepInv,
       RollInv, StageInv, TypeOK, Deployments, Healths, OptRelease
<1>24. CASE NetdReport
  BY <1>24, ReleasesAssumption
   DEF NetdReport, NetdLeaves, Store, pendings, threads, CheckInv, Checking,
       ReturnedFromUpdate, ThisBoot, Matches, TypeInv, DepInv, RollInv,
       StageInv, TypeOK, Deployments, Healths, OptRelease
<1>25. CASE NetdUnmark
  BY <1>25, ReleasesAssumption
   DEF NetdUnmark, NetdLeaves, Store, history, pendings, threads, CheckInv,
       Checking, ReturnedFromUpdate, ThisBoot, Matches, TypeInv, DepInv,
       RollInv, StageInv, TypeOK, Deployments, Healths, OptRelease
<1>26. CASE ControllerEnds
  BY <1>26, ReleasesAssumption
   DEF ControllerEnds, NoRoll, NoStage, boot, files, history, pendings,
       CheckInv, Checking, ReturnedFromUpdate, ThisBoot, Matches, TypeInv,
       DepInv, RollInv, StageInv, TypeOK, Deployments, Healths, OptRelease
<1>27. CASE HealthEnds
  BY <1>27, ReleasesAssumption
   DEF HealthEnds, HealthGoes, HealthLeaves, files, history, pendings, boot,
       threads, CheckInv, Checking, ReturnedFromUpdate, ThisBoot, Matches,
       TypeInv, DepInv, RollInv, StageInv, TypeOK, Deployments, Healths,
       OptRelease
<1>28. CASE NetdEnds
  BY <1>28, ReleasesAssumption
   DEF NetdEnds, NetdLeaves, history, pendings, threads, CheckInv, Checking,
       ReturnedFromUpdate, ThisBoot, Matches, TypeInv, DepInv, RollInv,
       StageInv, TypeOK, Deployments, Healths, OptRelease
<1>29. CASE Reboot
  BY <1>29, ReleasesAssumption
   DEF Reboot, Boots, NextBoot, NoHealth, NoRoll, NoStage, Updates, files,
       CheckInv, Checking, ReturnedFromUpdate, ThisBoot, Matches, TypeInv,
       DepInv, RollInv, StageInv, TypeOK, Deployments, Healths, OptRelease
<1>30. CASE PowerLoss
  BY <1>30, ReleasesAssumption
   DEF PowerLoss, Boots, NextBoot, NoHealth, NoRoll, NoStage, Updates, files,
       CheckInv, Checking, ReturnedFromUpdate, ThisBoot, Matches, TypeInv,
       DepInv, RollInv, StageInv, TypeOK, Deployments, Healths, OptRelease
<1> QED BY <1>1, <1>2, <1>3, <1>4, <1>5, <1>6, <1>7, <1>8, <1>9, <1>10, <1>11,
           <1>12, <1>13, <1>14, <1>15, <1>16, <1>17, <1>18, <1>19, <1>20,
           <1>21, <1>22, <1>23, <1>24, <1>25, <1>26, <1>27, <1>28, <1>29,
           <1>30, DepMoves, RecordMoves, RestoreMoves, PhaseMoves, CtlMoves,
           HealthMoves

LEMMA NoRollType == NoRoll \in Rolls
BY DEF NoRoll, Rolls

(* A staging thread that goes on or ends keeps the types. *)
LEMMA StageGoesType ==
  ASSUME TypeOK, NEW ok, NEW next \in Stages, StageGoes(ok, next)
  PROVE  stage' \in Stages /\ op' \in {"Idle", "Staging", "Failed"}
<1>1. NoStage \in Stages
  BY DEF NoStage, Stages, OptRelease
<1> QED BY <1>1 DEF StageGoes, TypeOK

(* What the next boot runs, and how it is reached. *)
LEMMA BootsType ==
  ASSUME TypeOK, DepInv, NEW clean \in BOOLEAN, Boots(clean)
  PROVE  /\ dep' \in Deployments /\ arrived' \in Arrivals
         /\ fate' \in [Releases -> Fates]
<1>1. NextBoot(clean) \in Deployments
  BY DEF NextBoot, TypeOK, DepInv, Deployments, OptRelease
<1>2. dep' \in Deployments
  BY <1>1 DEF Boots
<1>3. arrived' \in Arrivals
  <2>1. CASE dep'.booted = dep.booted
    BY <2>1 DEF Boots, TypeOK
  <2>2. CASE dep'.booted # dep.booted
    <3> DEFINE by == IF ~(clean /\ dep.staged # None) THEN queuedBy
                     ELSE IF dep.staged = dep.rollback THEN "restaged" ELSE "staged"
    <3>1. arrived' = [from |-> dep.booted, by |-> by, faults |-> used["fault"],
                      first |-> arrived.by \in Updates, owed |-> owed]
      BY <2>2 DEF Boots
    <3>2. /\ dep.booted \in OptRelease /\ by \in Updates \cup {"manual", "health", None}
          /\ used["fault"] \in Nat
      BY DEF TypeOK, Deployments, OptRelease, Events, Updates
    <3>3. (arrived.by \in Updates) \in BOOLEAN /\ owed \in BOOLEAN
      BY DEF TypeOK
    <3> HIDE DEF by
    <3> QED BY <3>1, <3>2, <3>3 DEF Arrivals
  <2> QED BY <2>1, <2>2
<1>4. fate' \in [Releases -> Fates]
  BY DEF Boots, TypeOK, Fates
<1> QED BY <1>2, <1>3, <1>4

LEMMA TypeOKStep ==
  ASSUME TypeInv, [Next]_vars
  PROVE  TypeOK'
<1>1. UsedOK'
  BY UsedStep DEF TypeInv, TypeOK, UsedOK
<1>2. CASE UNCHANGED vars
  BY <1>2 DEF vars, files, pendings, boot, threads, history, TypeInv, TypeOK
<1>3. CASE ControllerStart
  BY <1>3, <1>1
   DEF ControllerStart, Checking, RecordStagedForHealth, boot, files, history,
       SetPending, pendings, TypeInv, TypeOK, Deployments, OptRelease, UsedOK,
       References
<1>4. CASE \E r \in Releases : StartStage(r)
  <2>1. PICK r \in Releases : StartStage(r)
    BY <1>4
  <2>2. stage' = [pc |-> "preserve", image |-> r, before |-> None, after |-> None]
    BY <2>1 DEF StartStage, NoStage
  <2>3. stage' \in Stages
    BY <2>2 DEF Stages, OptRelease
  <2> QED BY <2>1, <2>3, <1>1
          DEF StartStage, files, pendings, boot, history, TypeInv, TypeOK, UsedOK
<1>5. CASE StagePreserve
  BY <1>5, <1>1
   DEF StagePreserve, Preserve, StageGoes, boot, pendings, NoStage, TypeInv,
       TypeOK, StageInv, Stages, Deployments, OptRelease, UsedOK
<1>6. CASE StageBefore
  <2>1. [stage EXCEPT !.pc = "switch", !.before = dep.booted] \in Stages
    BY DEF TypeInv, TypeOK, Stages, Deployments, OptRelease
  <2>2. stage' \in Stages /\ op' \in {"Idle", "Staging", "Failed"}
    BY <1>6, <2>1, StageGoesType DEF StageBefore, TypeInv
  <2> QED BY <1>6, <2>2, <1>1
          DEF StageBefore, files, pendings, boot, history, TypeInv, TypeOK, UsedOK
<1>7. CASE StageSwitch
  BY <1>7, <1>1
   DEF StageSwitch, StageGoes, Switched, boot, files, pendings, NoStage,
       TypeInv, TypeOK, StageInv, Stages, Fates, Deployments, OptRelease,
       UsedOK
<1>8. CASE StageAfter
  <2>1. [stage EXCEPT !.pc = "record", !.after = dep.staged] \in Stages
    BY DEF TypeInv, TypeOK, Stages, Deployments
  <2>2. stage' \in Stages /\ op' \in {"Idle", "Staging", "Failed"}
    BY <1>8, <2>1, StageGoesType DEF StageAfter, TypeInv
  <2> QED BY <1>8, <2>2, <1>1
          DEF StageAfter, files, pendings, boot, history, TypeInv, TypeOK, UsedOK
<1>9. CASE StageRecord
  BY <1>9, <1>1
   DEF StageRecord, StageGoes, Store, Switched, boot, pendings, NoStage,
       TypeInv, TypeOK, StageInv, Stages, Fates, Deployments, OptRelease,
       UsedOK
<1>10. CASE StagePending
  <2>1. /\ stage.after \in Releases /\ stage' = NoStage
        /\ pending' \in References /\ pendingDisk' \subseteq References
    BY <1>10 DEF StagePending, SetPending, pendings, StageInv, TypeInv, TypeOK,
                 References
  <2>2. stage' \in Stages /\ op' \in {"Idle", "Staging", "Failed"}
    BY <1>10, <2>1 DEF StagePending, NoStage, Stages, OptRelease
  <2>3. fate' \in [Releases -> Fates]
    BY <1>10 DEF StagePending, Fates, TypeInv, TypeOK
  <2>4. owed' \in BOOLEAN
    BY <1>10 DEF StagePending, TypeInv, TypeOK, Deployments
  <2> QED BY <1>10, <2>1, <2>2, <2>3, <2>4, <1>1
          DEF StagePending, files, boot, TypeInv, TypeOK, UsedOK
<1>11. CASE RebootRequest
  BY <1>11, <1>1
   DEF RebootRequest, boot, files, history, pendings, TypeInv, TypeOK,
       Deployments, OptRelease, UsedOK
<1>12. CASE RefreshPreUpdate
  BY <1>12, <1>1
   DEF RefreshPreUpdate, Preserve, boot, history, pendings, TypeInv, TypeOK,
       Deployments, OptRelease, UsedOK
<1>13. CASE RequestReboot
  <2>1. rebooting' \in {rebooting, TRUE}
    BY <1>13, Zenon DEF RequestReboot, request_reboot
  <2>2. rebooting' \in BOOLEAN
    BY <2>1 DEF TypeInv, TypeOK
  <2> QED BY <1>13, <2>2, <1>1
          DEF RequestReboot, files, pendings, boot, history, TypeInv, TypeOK, UsedOK
<1>14. CASE Status
  BY <1>14, <1>1
   DEF Status, vars, boot, files, history, pendings, threads, TypeInv, TypeOK,
       Deployments, OptRelease, UsedOK
<1>15. CASE RollbackRequest
  <2>1. roll' = [pc |-> "check", before |-> None, kind |-> None, pending |-> FALSE]
    BY <1>15 DEF RollbackRequest, NoRoll
  <2>2. roll' \in Rolls
    BY <2>1 DEF Rolls
  <2> QED BY <1>15, <2>2, <1>1
          DEF RollbackRequest, files, pendings, boot, history, TypeInv, TypeOK, UsedOK
<1>16. CASE RollbackCheck
  <2>1. PendingIsThisBoot(pending, dep.booted) \in BOOLEAN
    BY DEF PendingIsThisBoot
  <2>2. roll' \in Rolls
    BY <1>16, <2>1 DEF RollbackCheck, NoRoll, Rolls, TypeInv, TypeOK
  <2> QED BY <1>16, <2>2, <1>1
          DEF RollbackCheck, files, pendings, boot, history, TypeInv, TypeOK, UsedOK
<1>17. CASE RollbackDecide
  <2> DEFINE kind == ManualRollback(roll.pending, HealthFinished)
  <2>1. roll.pending \in BOOLEAN /\ HealthFinished \in BOOLEAN
    BY DEF TypeInv, TypeOK, Rolls, HealthFinished
  <2>2. kind \in {"Image", "UnacceptedUpdate", None}
    BY <2>1 DEF ManualRollback
  <2>3. roll' = NoRoll \/ roll' = [roll EXCEPT
           !.pc = IF roll.before.queued THEN "cancel" ELSE "record", !.kind = kind]
    BY <1>17 DEF RollbackDecide
  <2> HIDE DEF kind
  <2>4. roll' \in Rolls
    <3>1. NoRoll \in Rolls
      BY NoRollType
    <3>2. PICK pc \in {"cancel", "record"} :
            roll' = NoRoll \/ roll' = [roll EXCEPT !.pc = pc, !.kind = kind]
      BY <2>3
    <3>3. [roll EXCEPT !.pc = pc, !.kind = kind] \in Rolls
      BY <2>2 DEF Rolls, TypeInv, TypeOK
    <3> QED BY <3>1, <3>2, <3>3
  <2> QED BY <1>17, <2>4, <1>1
          DEF RollbackDecide, files, pendings, boot, history, TypeInv, TypeOK, UsedOK
<1>18. CASE RollbackRecord
  BY <1>18, <1>1
   DEF RollbackRecord, NoRoll, Store, boot, history, pendings, TypeInv, TypeOK,
       RollInv, Rolls, Deployments, OptRelease, UsedOK
<1>19. CASE RollbackQueue
  <2>1. dep' \in Deployments /\ queuedBy' \in {"manual", "health", None}
    BY <1>19, SwapTurns DEF RollbackQueue, Requeued, TypeInv, TypeOK
  <2>2. roll' \in Rolls
    <3>1. PICK pc \in {"clear", "forget"} :
            roll' = NoRoll \/ roll' = [roll EXCEPT !.pc = pc]
      BY <1>19 DEF RollbackQueue
    <3>2. [roll EXCEPT !.pc = pc] \in Rolls
      BY DEF Rolls, TypeInv, TypeOK
    <3> QED BY <3>1, <3>2, NoRollType
  <2>3. owed' \in BOOLEAN
    BY <1>19, <2>1 DEF RollbackQueue, TypeInv, TypeOK, Deployments
  <2> QED BY <1>19, <2>1, <2>2, <2>3, <1>1
          DEF RollbackQueue, files, pendings, boot, TypeInv, TypeOK, UsedOK
<1>20. CASE RollbackForget
  BY <1>20, <1>1
   DEF RollbackForget, NoRoll, Store, boot, history, pendings, TypeInv, TypeOK,
       RollInv, Rolls, Deployments, OptRelease, UsedOK
<1>21. CASE RollbackClear
  <2>1. /\ pending' \in References /\ pendingDisk' \subseteq References
        /\ owed' \in {owed, FALSE}
    BY <1>21 DEF RollbackClear, ClearPending, SetPending, pendings, TypeInv,
                 TypeOK, References
  <2>2. owed' \in BOOLEAN
    BY <2>1 DEF TypeInv, TypeOK
  <2> QED BY <1>21, <2>1, <2>2, NoRollType, <1>1
          DEF RollbackClear, files, boot, TypeInv, TypeOK, UsedOK
<1>22. CASE HealthStart
  BY <1>22, <1>1
   DEF HealthStart, HealthLeaves, files, history, pendings, boot, threads,
       TypeInv, TypeOK, Healths, Deployments, OptRelease, UsedOK
<1>23. CASE HealthOtherBoot
  BY <1>23, <1>1
   DEF HealthOtherBoot, HealthGoes, HealthLeaves, files, history, pendings,
       boot, threads, TypeInv, TypeOK, Healths, Deployments, OptRelease, UsedOK
<1>24. CASE HealthOk
  BY <1>24, <1>1
   DEF HealthOk, Becomes, HealthGoes, HealthLeaves, files, pendings, boot,
       threads, TypeInv, TypeOK, Healths, Fates, Deployments, OptRelease,
       UsedOK
<1>25. CASE AcceptDiscard
  BY <1>25, <1>1
   DEF AcceptDiscard, HealthGoes, HealthLeaves, Store, history, pendings, boot,
       threads, TypeInv, TypeOK, Healths, Deployments, OptRelease, UsedOK
<1>26. CASE AcceptUnrecord
  BY <1>26, <1>1
   DEF AcceptUnrecord, Accepted, HealthGoes, HealthLeaves, Store, pendings,
       boot, threads, TypeInv, TypeOK, Healths, Fates, Deployments, OptRelease,
       UsedOK
<1>27. CASE AcceptOutcome
  BY <1>27, <1>1
   DEF AcceptOutcome, HealthGoes, HealthLeaves, Store, history, pendings, boot,
       threads, TypeInv, TypeOK, Healths, Deployments, OptRelease, UsedOK
<1>28. CASE HealthDeadline
  <2>1. health' \in Healths
    BY <1>28 DEF HealthDeadline, HealthGoes, Healths, TypeInv, TypeOK
  <2>2. outcome' \in {outcome, [release |-> dep.booted, kind |-> "rolledback"]}
    BY <1>28 DEF HealthDeadline, Store
  <2>3. outcome' \in [release: Releases, kind: {"accepted", "rolledback", "manual"}] \cup {None}
    BY <2>2 DEF TypeInv, TypeOK, Deployments
  <2> QED BY <1>28, <2>1, <2>3, <1>1
          DEF HealthDeadline, HealthLeaves, pendings, boot, threads, history,
              TypeInv, TypeOK,
              UsedOK
<1>29. CASE HealthBlind
  BY <1>29, <1>1
   DEF HealthBlind, Checking, HealthGoes, HealthLeaves, files, history,
       pendings, boot, threads, TypeInv, TypeOK, Healths, Deployments,
       OptRelease, UsedOK
<1>30. CASE HealthRollback
  <2>1. dep' \in Deployments /\ queuedBy' \in {"manual", "health", None}
    BY <1>30, SwapTurns DEF HealthRollback, Requeued, TypeInv, TypeOK
  <2>2. health' \in Healths
    BY <1>30 DEF HealthRollback, HealthGoes, Healths, TypeInv, TypeOK
  <2>3. owed' \in BOOLEAN
    BY <1>30, <2>1 DEF HealthRollback, TypeInv, TypeOK, Deployments
  <2> QED BY <1>30, <2>1, <2>2, <2>3, <1>1
          DEF HealthRollback, HealthLeaves, files, pendings, boot, threads,
              TypeInv, TypeOK,
              UsedOK
<1>31. CASE HealthClear
  <2>1. /\ pending' \in References /\ pendingDisk' \subseteq References
        /\ owed' \in {owed, FALSE}
    BY <1>31 DEF HealthClear, ClearPending, SetPending, pendings, TypeInv,
                 TypeOK, References
  <2>2. owed' \in BOOLEAN /\ health' \in Healths
    BY <1>31, <2>1 DEF HealthClear, HealthGoes, Healths, TypeInv, TypeOK
  <2> QED BY <1>31, <2>1, <2>2, <1>1
          DEF HealthClear, HealthLeaves, files, boot, threads, TypeInv, TypeOK, UsedOK
<1>32. CASE HealthReboot
  <2>1. rebooting' \in {rebooting, TRUE}
    BY <1>32, Zenon DEF HealthReboot, request_reboot
  <2>2. rebooting' \in BOOLEAN
    BY <2>1 DEF TypeInv, TypeOK
  <2> QED BY <1>32, <2>2, <1>1
          DEF HealthReboot, HealthLeaves, files, pendings, boot, threads,
              history, TypeInv, TypeOK, UsedOK, HealthGoes, Healths
<1>33. CASE RestoreCheck
  BY <1>33, <1>1
   DEF RestoreCheck, CheckLeaves, Store, history, pendings, threads, TypeInv,
       TypeOK, Deployments, OptRelease, UsedOK
<1>34. CASE CheckUnmanual
  BY <1>34, <1>1
   DEF CheckUnmanual, CheckLeaves, Store, history, pendings, threads, TypeInv,
       TypeOK, Deployments, OptRelease, UsedOK
<1>35. CASE CheckMark
  BY <1>35, <1>1
   DEF CheckMark, CheckLeaves, Store, history, pendings, threads, TypeInv,
       TypeOK, Deployments, OptRelease, UsedOK, CheckInv, ReturnedFromUpdate
<1>36. CASE CheckUnrecord
  BY <1>36, <1>1
   DEF CheckUnrecord, CheckLeaves, Store, history, pendings, threads, TypeInv,
       TypeOK, Deployments, OptRelease, UsedOK
<1>37. CASE NetdStart
  BY <1>37, <1>1
   DEF NetdStart, NetdLeaves, history, pendings, threads, TypeInv, TypeOK,
       Deployments, OptRelease, UsedOK
<1>38. CASE NetdRestore
  BY <1>38, <1>1
   DEF NetdRestore, NetdLeaves, pendings, threads, TypeInv, TypeOK, Fates,
       Deployments, OptRelease, UsedOK
<1>39. CASE NetdUnpreserve
  BY <1>39, <1>1
   DEF NetdUnpreserve, NetdLeaves, Store, history, pendings, threads, TypeInv,
       TypeOK, Deployments, OptRelease, UsedOK
<1>40. CASE NetdReport
  <2>1. fate' \in [Releases -> Fates]
    BY <1>40 DEF NetdReport, Fates, TypeInv, TypeOK
  <2>2. report' \in {report, result} /\ phase' \in {"unmark", "up"}
    BY <1>40 DEF NetdReport, Store
  <2> QED BY <1>40, <2>1, <2>2, <1>1
          DEF NetdReport, NetdLeaves, pendings, threads, TypeInv, TypeOK, UsedOK
<1>41. CASE NetdUnmark
  BY <1>41, <1>1
   DEF NetdUnmark, NetdLeaves, Store, history, pendings, threads, TypeInv,
       TypeOK, Deployments, OptRelease, UsedOK
<1>42. CASE \E n \in Nets : Edit(n)
  BY <1>42, <1>1
   DEF Edit, NetdLeaves, pendings, threads, TypeInv, TypeOK, Deployments,
       OptRelease, UsedOK
<1>43. CASE ControllerEnds
  BY <1>43, <1>1
   DEF ControllerEnds, NoRoll, NoStage, boot, files, history, pendings,
       TypeInv, TypeOK, StageInv, Stages, RollInv, Rolls, Deployments,
       OptRelease, UsedOK
<1>44. CASE HealthEnds
  BY <1>44, <1>1
   DEF HealthEnds, HealthGoes, HealthLeaves, files, history, pendings, boot,
       threads, TypeInv, TypeOK, Healths, Deployments, OptRelease, UsedOK
<1>45. CASE NetdEnds
  BY <1>45, <1>1
   DEF NetdEnds, NetdLeaves, history, pendings, threads, TypeInv, TypeOK,
       Deployments, OptRelease, UsedOK
<1>46. CASE Reboot
  <2>1. /\ Boots(TRUE) /\ dep' \in Deployments
        /\ arrived' \in Arrivals /\ fate' \in [Releases -> Fates]
    BY <1>46, BootsType DEF Reboot, TypeInv
  <2>2. pending' \in References /\ pendingDisk' \subseteq References
    BY <1>46 DEF Reboot, TypeInv, TypeOK
  <2>3. NoStage \in Stages /\ NoRoll \in Rolls /\ NoHealth \in Healths
    BY DEF NoStage, NoRoll, NoHealth, Stages, Rolls, Healths, OptRelease,
           References
  <2> QED BY <2>1, <2>2, <2>3, <1>1 DEF Boots, files, TypeInv, TypeOK, UsedOK
<1>47. CASE PowerLoss
  <2>1. /\ Boots(FALSE) /\ dep' \in Deployments
        /\ arrived' \in Arrivals /\ fate' \in [Releases -> Fates]
    BY <1>47, BootsType DEF PowerLoss, TypeInv
  <2>2. pending' \in References /\ pendingDisk' \subseteq References
    BY <1>47 DEF PowerLoss, TypeInv, TypeOK
  <2>3. NoStage \in Stages /\ NoRoll \in Rolls /\ NoHealth \in Healths
    BY DEF NoStage, NoRoll, NoHealth, Stages, Rolls, Healths, OptRelease,
           References
  <2> QED BY <2>1, <2>2, <2>3, <1>1 DEF Boots, files, TypeInv, TypeOK, UsedOK
<1> QED BY <1>2, <1>3, <1>4, <1>5, <1>6, <1>7, <1>8, <1>9, <1>10, <1>11, <1>12,
           <1>13, <1>14, <1>15, <1>16, <1>17, <1>18, <1>19, <1>20, <1>21,
           <1>22, <1>23, <1>24, <1>25, <1>26, <1>27, <1>28, <1>29, <1>30,
           <1>31, <1>32, <1>33, <1>34, <1>35, <1>36, <1>37, <1>38, <1>39,
           <1>40, <1>41, <1>42, <1>43, <1>44, <1>45, <1>46, <1>47
        DEF Next, Controller, Health, BootSteps

LEMMA TypeStep ==
  ASSUME TypeInv, [Next]_vars
  PROVE  TypeInv'
BY TypeOKStep, StageInvStep, RollInvStep, DepInvStep, CheckInvStep DEF TypeInv

LEMMA TypeInvAlways == Spec => []TypeInv
<1>1. TypeInv /\ UNCHANGED vars => TypeInv'
  BY TypeStep
<1> QED BY TypeInit, TypeStep, PTL DEF Spec

(* TypeOK: every variable keeps its type, whatever administrators stage. In *)
(* particular no update is recorded without both of its Releases.           *)
THEOREM TypeCorrect == Spec => []TypeOK
BY TypeInvAlways, PTL DEF TypeInv

(***************************************************************************)
(* The pre-update network.  What is preserved was Accepted since the last  *)
(* staging began, and so is the network of a staged update.                *)
(***************************************************************************)
PreInv ==
  /\ preserved # None => preserved \in pre
  /\ dep.staged # None \/ stage.pc \notin {"none", "preserve"} => net \in pre

LEMMA PreInvStep ==
  ASSUME PreInv, TypeInv, [Next]_vars
  PROVE  PreInv'
<1>1. CASE UNCHANGED <<dep, preserved, net, stage, pre>>
  BY <1>1 DEF PreInv
<1>2. CASE \E r \in Releases : StartStage(r)
  BY <1>2
   DEF StartStage, NoStage, boot, files, history, pendings, PreInv, TypeInv,
       StageInv, TypeOK, Deployments, Stages
<1>3. CASE StagePreserve
  <2>1. PICK ok \in BOOLEAN :
          /\ Preserve(ok) /\ pre' = {net} \cup IF ok /\ dep.staged = None THEN {} ELSE pre
    BY <1>3 DEF StagePreserve
  <2>2. preserved' # None => preserved' \in pre'
    BY <2>1 DEF Preserve, PreInv
  <2> QED BY <1>3, <2>1, <2>2 DEF StagePreserve, boot, PreInv
<1>4. CASE StageBefore
  BY <1>4
   DEF StageBefore, StageGoes, boot, files, history, pendings, NoStage, PreInv,
       TypeInv, StageInv, TypeOK, Deployments, Stages
<1>5. CASE StageSwitch
  BY <1>5
   DEF StageSwitch, StageGoes, Switched, boot, files, pendings, NoStage,
       PreInv, TypeInv, StageInv, TypeOK, Deployments, Stages
<1>6. CASE StageAfter
  BY <1>6
   DEF StageAfter, StageGoes, boot, files, history, pendings, NoStage, PreInv,
       TypeInv, StageInv, TypeOK, Deployments, Stages
<1>7. CASE StageRecord
  BY <1>7
   DEF StageRecord, StageGoes, Store, Switched, boot, pendings, NoStage,
       PreInv, TypeInv, StageInv, TypeOK, Deployments, Stages
<1>8. CASE StagePending
  BY <1>8
   DEF StagePending, NoStage, SetPending, boot, files, pendings, PreInv,
       TypeInv, StageInv, TypeOK, Deployments, Stages
<1>9. CASE RefreshPreUpdate
  BY <1>9
   DEF RefreshPreUpdate, Preserve, boot, history, pendings, PreInv, TypeInv,
       StageInv, TypeOK, Deployments, Stages
<1>10. CASE RollbackQueue
  <2>1. dep'.staged \in {None, dep.staged}
    BY <1>10, SwapTurns DEF RollbackQueue, TypeInv, TypeOK
  <2> QED BY <1>10, <2>1 DEF RollbackQueue, files, boot, threads, PreInv
<1>11. CASE AcceptDiscard
  BY <1>11
   DEF AcceptDiscard, HealthGoes, HealthLeaves, Store, history, pendings, boot,
       threads, PreInv, TypeInv, StageInv, TypeOK, Deployments, Stages
<1>12. CASE HealthRollback
  <2>1. dep'.staged \in {None, dep.staged}
    BY <1>12, SwapTurns DEF HealthRollback, TypeInv, TypeOK
  <2> QED BY <1>12, <2>1 DEF HealthRollback, HealthLeaves, files, boot,
                             threads, PreInv
<1>13. CASE NetdRestore
  BY <1>13
   DEF NetdRestore, NetdLeaves, pendings, threads, PreInv, TypeInv, StageInv,
       TypeOK, Deployments, Stages
<1>14. CASE NetdUnpreserve
  BY <1>14
   DEF NetdUnpreserve, NetdLeaves, Store, history, pendings, threads, PreInv,
       TypeInv, StageInv, TypeOK, Deployments, Stages
<1>15. CASE \E n \in Nets : Edit(n)
  BY <1>15
   DEF Edit, NetdLeaves, pendings, threads, PreInv, TypeInv, StageInv, TypeOK,
       Deployments, Stages
<1>16. CASE ControllerEnds
  BY <1>16
   DEF ControllerEnds, NoRoll, NoStage, boot, files, history, pendings, PreInv,
       TypeInv, StageInv, TypeOK, Deployments, Stages
<1>17. CASE Reboot
  BY <1>17
   DEF Reboot, Boots, NextBoot, NoHealth, NoRoll, NoStage, Updates, files,
       PreInv, TypeInv, StageInv, TypeOK, Deployments, Stages
<1>18. CASE PowerLoss
  BY <1>18
   DEF PowerLoss, Boots, NextBoot, NoHealth, NoRoll, NoStage, Updates, files,
       PreInv, TypeInv, StageInv, TypeOK, Deployments, Stages
<1> QED BY <1>1, <1>2, <1>3, <1>4, <1>5, <1>6, <1>7, <1>8, <1>9, <1>10, <1>11,
           <1>12, <1>13, <1>14, <1>15, <1>16, <1>17, <1>18, DepMoves,
           PreservedMoves, NetMoves, StageMoves, PreMoves

LEMMA PreInvAlways == Spec => [](TypeInv /\ PreInv)
<1>1. Init => PreInv
  BY DEF Init, PreInv, NoStage
<1>2. PreInv /\ TypeInv /\ UNCHANGED vars => PreInv'
  BY PreInvStep
<1> QED BY <1>1, TypeInvAlways, PreInvStep, PTL DEF Spec

(* RestoresPreUpdateNetwork: netd restores only a network that was Accepted *)
(* between staging the update and booting it.                               *)
THEOREM PreUpdateNetwork == Spec => RestoresPreUpdateNetwork
<1>1. ASSUME PreInv, [Next]_vars, phase = "netd", phase' = "unpreserve"
      PROVE  net' \in pre
  <2>1. NetdRestore
    BY <1>1, PhaseMoves DEF RestoreCheck, CheckUnmanual, CheckMark,
                            CheckUnrecord, NetdStart,
       NetdUnpreserve, NetdReport, NetdUnmark, NetdEnds, Reboot, PowerLoss, Boots
  <2> QED BY <1>1, <2>1 DEF NetdRestore, PreInv
<1> QED BY <1>1, PreInvAlways, PTL DEF Spec, RestoresPreUpdateNetwork

(* Health owns the rollback of the boot that PENDING names until it exits:  *)
(* no other was queued, and a request that is under way will be refused.   *)
(* PENDING comes to name the booted Release only by a boot.                *)
Owned ==
  /\ PendingIsThisBoot(pending, dep.booted)
  /\ health.pc \notin {"exited", "clearReboot", "reboot"}
OwnInv ==
  Owned => /\ ~dep.queued /\ roll.pc \in {"none", "check", "decide"}
           /\ roll.pc = "decide" => roll.pending

LEMMA OwnInvStep ==
  ASSUME OwnInv, TypeInv, [Next]_vars
  PROVE  OwnInv'
<1>1. CASE UNCHANGED <<dep, pending, roll, health>>
  BY <1>1 DEF OwnInv, Owned, PendingIsThisBoot
<1>2. CASE ControllerStart
  BY <1>2, ReleasesAssumption
   DEF ControllerStart, Checking, RecordStagedForHealth, boot, files, history,
       SetPending, pendings, OwnInv, Owned, PendingIsThisBoot, TypeInv, DepInv,
       RollInv, StageInv, TypeOK, Deployments, Healths, OptRelease, Rolls,
       Stages
<1>3. CASE StageSwitch
  BY <1>3, ReleasesAssumption
   DEF StageSwitch, StageGoes, Switched, boot, files, pendings, NoStage,
       OwnInv, Owned, PendingIsThisBoot, TypeInv, DepInv, RollInv, StageInv,
       TypeOK, Deployments, Healths, OptRelease, Rolls, Stages
<1>4. CASE StagePending
  BY <1>4, ReleasesAssumption
   DEF StagePending, NoStage, SetPending, boot, files, pendings, OwnInv, Owned,
       PendingIsThisBoot, TypeInv, DepInv, RollInv, StageInv, TypeOK,
       Deployments, Healths, OptRelease, Rolls, Stages
<1>5. CASE RollbackRequest
  BY <1>5, ReleasesAssumption
   DEF RollbackRequest, NoRoll, boot, files, history, pendings, OwnInv, Owned,
       PendingIsThisBoot, TypeInv, DepInv, RollInv, StageInv, TypeOK,
       Deployments, Healths, OptRelease, Rolls, Stages
<1>6. CASE RollbackCheck
  BY <1>6, ReleasesAssumption
   DEF RollbackCheck, NoRoll, PendingIsThisBoot, boot, files, history,
       pendings, OwnInv, Owned, TypeInv, DepInv, RollInv, StageInv, TypeOK,
       Deployments, Healths, OptRelease, Rolls, Stages
<1>7. CASE RollbackDecide
  BY <1>7, ReleasesAssumption
   DEF RollbackDecide, HealthFinished, ManualRollback, NoRoll, boot, files,
       history, pendings, OwnInv, Owned, PendingIsThisBoot, TypeInv, DepInv,
       RollInv, StageInv, TypeOK, Deployments, Healths, OptRelease, Rolls,
       Stages
<1>8. CASE RollbackRecord
  BY <1>8, ReleasesAssumption
   DEF RollbackRecord, NoRoll, Store, boot, history, pendings, OwnInv, Owned,
       PendingIsThisBoot, TypeInv, DepInv, RollInv, StageInv, TypeOK,
       Deployments, Healths, OptRelease, Rolls, Stages
<1>9. CASE RollbackQueue
  <2>1. dep'.booted = dep.booted
    BY <1>9, SwapTurns DEF RollbackQueue, TypeInv, TypeOK
  <2>2. UNCHANGED <<pending, health>> /\ ~Owned
    BY <1>9 DEF RollbackQueue, pendings, OwnInv
  <2> QED BY <2>1, <2>2 DEF OwnInv, Owned, PendingIsThisBoot
<1>10. CASE RollbackForget
  BY <1>10, ReleasesAssumption
   DEF RollbackForget, NoRoll, Store, boot, history, pendings, OwnInv, Owned,
       PendingIsThisBoot, TypeInv, DepInv, RollInv, StageInv, TypeOK,
       Deployments, Healths, OptRelease, Rolls, Stages
<1>11. CASE RollbackClear
  BY <1>11, ReleasesAssumption
   DEF RollbackClear, ClearPending, NoRoll, boot, files, pendings, SetPending,
       OwnInv, Owned, PendingIsThisBoot, TypeInv, DepInv, RollInv, StageInv,
       TypeOK, Deployments, Healths, OptRelease, Rolls, Stages
<1>12. CASE HealthStart
  BY <1>12, ReleasesAssumption
   DEF HealthStart, HealthLeaves, files, history, pendings, boot, threads,
       OwnInv, Owned, PendingIsThisBoot, TypeInv, DepInv, RollInv, StageInv,
       TypeOK, Deployments, Healths, OptRelease, Rolls, Stages
<1>13. CASE HealthOtherBoot
  BY <1>13, ReleasesAssumption
   DEF HealthOtherBoot, HealthGoes, HealthLeaves, ThisBoot, files, history,
       pendings, boot, threads, PendingIsThisBoot, OwnInv, Owned, TypeInv,
       DepInv, RollInv, StageInv, TypeOK, Deployments, Healths, OptRelease,
       Rolls, Stages
<1>14. CASE HealthOk
  BY <1>14, ReleasesAssumption
   DEF HealthOk, Becomes, HealthGoes, HealthLeaves, ThisBoot, files, pendings,
       boot, threads, PendingIsThisBoot, OwnInv, Owned, TypeInv, DepInv,
       RollInv, StageInv, TypeOK, Deployments, Healths, OptRelease, Rolls,
       Stages
<1>15. CASE AcceptDiscard
  BY <1>15, ReleasesAssumption
   DEF AcceptDiscard, HealthGoes, HealthLeaves, Store, history, pendings, boot,
       threads, OwnInv, Owned, PendingIsThisBoot, TypeInv, DepInv, RollInv,
       StageInv, TypeOK, Deployments, Healths, OptRelease, Rolls, Stages
<1>16. CASE AcceptUnrecord
  BY <1>16, ReleasesAssumption
   DEF AcceptUnrecord, Accepted, HealthGoes, HealthLeaves, Store, pendings,
       boot, threads, OwnInv, Owned, PendingIsThisBoot, TypeInv, DepInv,
       RollInv, StageInv, TypeOK, Deployments, Healths, OptRelease, Rolls,
       Stages
<1>17. CASE AcceptOutcome
  BY <1>17, ReleasesAssumption
   DEF AcceptOutcome, HealthGoes, HealthLeaves, Store, history, pendings, boot,
       threads, OwnInv, Owned, PendingIsThisBoot, TypeInv, DepInv, RollInv,
       StageInv, TypeOK, Deployments, Healths, OptRelease, Rolls, Stages
<1>18. CASE HealthDeadline
  BY <1>18, ReleasesAssumption
   DEF HealthDeadline, Checking, HealthGoes, HealthLeaves, ShouldAutoRollback,
       Store, ThisBoot, history, pendings, boot, threads, PendingIsThisBoot,
       OwnInv, Owned, TypeInv, DepInv, RollInv, StageInv, TypeOK, Deployments,
       Healths, OptRelease, Rolls, Stages
<1>19. CASE HealthBlind
  BY <1>19, ReleasesAssumption
   DEF HealthBlind, Checking, HealthGoes, HealthLeaves, files, history,
       pendings, boot, threads, OwnInv, Owned, PendingIsThisBoot, TypeInv,
       DepInv, RollInv, StageInv, TypeOK, Deployments, Healths, OptRelease,
       Rolls, Stages
<1>20. CASE HealthRollback
  <2>1. health'.pc \in {"exited", "clearReboot"}
    BY <1>20 DEF HealthRollback, HealthGoes, TypeInv, TypeOK, Healths
  <2> QED BY <2>1 DEF OwnInv, Owned
<1>21. CASE HealthClear
  BY <1>21, ReleasesAssumption
   DEF HealthClear, ClearPending, HealthGoes, HealthLeaves, files, SetPending,
       pendings, boot, threads, OwnInv, Owned, PendingIsThisBoot, TypeInv,
       DepInv, RollInv, StageInv, TypeOK, Deployments, Healths, OptRelease,
       Rolls, Stages
<1>22. CASE HealthReboot
  BY <1>22, ReleasesAssumption
   DEF HealthReboot, HealthGoes, HealthLeaves, files, history, pendings,
       request_reboot, boot, threads, OwnInv, Owned, PendingIsThisBoot,
       TypeInv, DepInv, RollInv, StageInv, TypeOK, Deployments, Healths,
       OptRelease, Rolls, Stages
<1>23. CASE ControllerEnds
  BY <1>23, ReleasesAssumption
   DEF ControllerEnds, NoRoll, NoStage, boot, files, history, pendings, OwnInv,
       Owned, PendingIsThisBoot, TypeInv, DepInv, RollInv, StageInv, TypeOK,
       Deployments, Healths, OptRelease, Rolls, Stages
<1>24. CASE HealthEnds
  BY <1>24, ReleasesAssumption
   DEF HealthEnds, HealthGoes, HealthLeaves, files, history, pendings, boot,
       threads, OwnInv, Owned, PendingIsThisBoot, TypeInv, DepInv, RollInv,
       StageInv, TypeOK, Deployments, Healths, OptRelease, Rolls, Stages
<1>25. CASE Reboot
  BY <1>25, ReleasesAssumption
   DEF Reboot, Boots, NextBoot, NoHealth, NoRoll, NoStage, Updates, files,
       OwnInv, Owned, PendingIsThisBoot, TypeInv, DepInv, RollInv, StageInv,
       TypeOK, Deployments, Healths, OptRelease, Rolls, Stages
<1>26. CASE PowerLoss
  BY <1>26, ReleasesAssumption
   DEF PowerLoss, Boots, NextBoot, NoHealth, NoRoll, NoStage, Updates, files,
       OwnInv, Owned, PendingIsThisBoot, TypeInv, DepInv, RollInv, StageInv,
       TypeOK, Deployments, Healths, OptRelease, Rolls, Stages
<1> QED BY <1>1, <1>2, <1>3, <1>4, <1>5, <1>6, <1>7, <1>8, <1>9, <1>10, <1>11,
           <1>12, <1>13, <1>14, <1>15, <1>16, <1>17, <1>18, <1>19, <1>20,
           <1>21, <1>22, <1>23, <1>24, <1>25, <1>26, DepMoves, PendingMoves,
           RollMoves, HealthMoves

LEMMA OwnInvAlways == Spec => [](TypeInv /\ OwnInv)
<1>1. Init => OwnInv
  BY DEF Init, OwnInv, Owned, PendingIsThisBoot
<1>2. TypeInv /\ OwnInv /\ [Next]_vars => OwnInv'
  BY OwnInvStep
<1> QED BY <1>1, <1>2, TypeInvAlways, PTL DEF Spec

(* ManualNotUndone: while PENDING names the booted Release, the rollback of *)
(* run_health never swaps back one that was queued by hand.                 *)
THEOREM ManualUndisturbed == Spec => ManualNotUndone
<1>1. ASSUME OwnInv, health.pc = "rollback", dep.queued
      PROVE  ~PendingIsThisBoot(pending, dep.booted)
  BY <1>1 DEF OwnInv, Owned
<1> QED BY <1>1, OwnInvAlways, PTL DEF Spec, ManualNotUndone

(***************************************************************************)
(* The record of a manual rollback.  Until restore-check has dealt with it *)
(* it names the booted Release and the one behind it, or, once a boot went *)
(* back, the Release left.  One failing call keeps it for another boot.    *)
(***************************************************************************)
Past == phase \notin {"check", "unmanual"}
Kept == dep.booted = manual.from /\ dep.rollback = manual.to
Left == dep.rollback = manual.from
ManualInv ==
  manual # None /\ used["fault"] <= 1 =>
    /\ manual.from # manual.to
    /\ dep.booted = manual.to /\ Left => arrived.by # "staged"
    /\ used["fault"] = 0 /\ Past => Kept
    /\ used["fault"] = 0 \/ Past => Kept \/ Left

LEMMA ManualInvStep ==
  ASSUME ManualInv, TypeInv, [Next]_vars
  PROVE  ManualInv'
<1>1. CASE UNCHANGED <<dep, manual, phase, arrived>>
  BY <1>1, UsedGrows DEF ManualInv, Kept, Left, Past
<1>2. CASE StageSwitch
  BY <1>2, ReleasesAssumption, UsedGrows
   DEF StageSwitch, StageGoes, Switched, boot, files, pendings, NoStage,
       ManualInv, Kept, Left, Past, TypeInv, CheckInv, DepInv, RollInv,
       StageInv, TypeOK, Checking, Deployments, OptRelease, Rolls, Stages
<1>3. CASE RollbackRecord
  BY <1>3, ReleasesAssumption, UsedGrows
   DEF RollbackRecord, NoRoll, Store, boot, history, pendings, ManualInv, Kept,
       Left, Past, TypeInv, CheckInv, DepInv, RollInv, StageInv, TypeOK,
       Checking, Deployments, OptRelease, Rolls, Stages
<1>4. CASE RollbackQueue
  <2>1. dep'.booted = dep.booted /\ dep'.rollback = dep.rollback
    BY <1>4, SwapTurns DEF RollbackQueue, TypeInv, TypeOK
  <2>2. UNCHANGED <<manual, phase, arrived>>
    BY <1>4 DEF RollbackQueue, files, boot, history
  <2> QED BY <2>1, <2>2, UsedGrows DEF ManualInv, Kept, Left, Past
<1>5. CASE RollbackForget
  BY <1>5, ReleasesAssumption, UsedGrows
   DEF RollbackForget, NoRoll, Store, boot, history, pendings, ManualInv, Kept,
       Left, Past, TypeInv, CheckInv, DepInv, RollInv, StageInv, TypeOK,
       Checking, Deployments, OptRelease, Rolls, Stages
<1>6. CASE HealthRollback
  <2>1. dep'.booted = dep.booted /\ dep'.rollback = dep.rollback
    BY <1>6, SwapTurns DEF HealthRollback, TypeInv, TypeOK
  <2>2. UNCHANGED <<manual, phase, arrived>>
    BY <1>6 DEF HealthRollback, HealthLeaves, files, boot, history
  <2> QED BY <2>1, <2>2, UsedGrows DEF ManualInv, Kept, Left, Past
<1>7. CASE RestoreCheck
  <2>1. UNCHANGED <<dep, manual, arrived>> /\ phase = "check"
    BY <1>7 DEF RestoreCheck, CheckLeaves, history
  <2>2. CASE phase' = "unmanual" \/ manual = None
    BY <2>1, <2>2, UsedGrows DEF ManualInv, Kept, Left, Past
  <2>3. CASE Spend("fault")
    BY <2>1, <2>3, FaultCounts DEF ManualInv, Kept, Left, Past
  <2> QED BY <1>7, <2>2, <2>3 DEF RestoreCheck
<1>8. CASE CheckUnmanual
  <2>1. PICK ok \in BOOLEAN : Store(manual, None, ok)
    BY <1>8 DEF CheckUnmanual
  <2>2. CASE manual' = None
    BY <2>2 DEF ManualInv
  <2>3. CASE Spend("fault") /\ manual' = manual
    BY <1>8, <2>3, FaultCounts DEF CheckUnmanual, CheckLeaves, history,
                                   ManualInv, Kept, Left, Past
  <2> QED BY <2>1, <2>2, <2>3 DEF Store, Try
<1>9. CASE CheckMark
  BY <1>9, ReleasesAssumption, UsedGrows
   DEF CheckMark, CheckLeaves, Store, history, pendings, threads, ManualInv,
       Kept, Left, Past, TypeInv, CheckInv, DepInv, RollInv, StageInv, TypeOK,
       Checking, Deployments, OptRelease, Rolls, Stages
<1>10. CASE CheckUnrecord
  BY <1>10, ReleasesAssumption, UsedGrows
   DEF CheckUnrecord, CheckLeaves, Store, history, pendings, threads,
       ManualInv, Kept, Left, Past, TypeInv, CheckInv, DepInv, RollInv,
       StageInv, TypeOK, Checking, Deployments, OptRelease, Rolls, Stages
<1>11. CASE NetdStart
  BY <1>11, ReleasesAssumption, UsedGrows
   DEF NetdStart, NetdLeaves, history, pendings, threads, ManualInv, Kept,
       Left, Past, TypeInv, CheckInv, DepInv, RollInv, StageInv, TypeOK,
       Checking, Deployments, OptRelease, Rolls, Stages
<1>12. CASE NetdRestore
  BY <1>12, ReleasesAssumption, UsedGrows
   DEF NetdRestore, NetdLeaves, pendings, threads, ManualInv, Kept, Left, Past,
       TypeInv, CheckInv, DepInv, RollInv, StageInv, TypeOK, Checking,
       Deployments, OptRelease, Rolls, Stages
<1>13. CASE NetdUnpreserve
  BY <1>13, ReleasesAssumption, UsedGrows
   DEF NetdUnpreserve, NetdLeaves, Store, history, pendings, threads,
       ManualInv, Kept, Left, Past, TypeInv, CheckInv, DepInv, RollInv,
       StageInv, TypeOK, Checking, Deployments, OptRelease, Rolls, Stages
<1>14. CASE NetdReport
  BY <1>14, ReleasesAssumption, UsedGrows
   DEF NetdReport, NetdLeaves, Store, pendings, threads, ManualInv, Kept, Left,
       Past, TypeInv, CheckInv, DepInv, RollInv, StageInv, TypeOK, Checking,
       Deployments, OptRelease, Rolls, Stages
<1>15. CASE NetdUnmark
  BY <1>15, ReleasesAssumption, UsedGrows
   DEF NetdUnmark, NetdLeaves, Store, history, pendings, threads, ManualInv,
       Kept, Left, Past, TypeInv, CheckInv, DepInv, RollInv, StageInv, TypeOK,
       Checking, Deployments, OptRelease, Rolls, Stages
<1>16. CASE NetdEnds
  BY <1>16, ReleasesAssumption, UsedGrows
   DEF NetdEnds, NetdLeaves, history, pendings, threads, ManualInv, Kept, Left,
       Past, TypeInv, CheckInv, DepInv, RollInv, StageInv, TypeOK, Checking,
       Deployments, OptRelease, Rolls, Stages
<1>17. CASE Reboot
  BY <1>17, ReleasesAssumption, UsedGrows
   DEF Reboot, Boots, NextBoot, NoHealth, NoRoll, NoStage, Updates, files,
       ManualInv, Kept, Left, Past, TypeInv, CheckInv, DepInv, RollInv,
       StageInv, TypeOK, Checking, Deployments, OptRelease, Rolls, Stages
<1>18. CASE PowerLoss
  BY <1>18, ReleasesAssumption, UsedGrows
   DEF PowerLoss, Boots, NextBoot, NoHealth, NoRoll, NoStage, Updates, files,
       ManualInv, Kept, Left, Past, TypeInv, CheckInv, DepInv, RollInv,
       StageInv, TypeOK, Checking, Deployments, OptRelease, Rolls, Stages
<1> QED BY <1>1, <1>2, <1>3, <1>4, <1>5, <1>6, <1>7, <1>8, <1>9, <1>10, <1>11,
           <1>12, <1>13, <1>14, <1>15, <1>16, <1>17, <1>18, DepMoves,
           ManualMoves, PhaseMoves, ArrivedMoves

LEMMA ManualInvAlways == Spec => [](TypeInv /\ ManualInv)
<1>1. Init => ManualInv
  BY DEF Init, ManualInv
<1>2. TypeInv /\ ManualInv /\ [Next]_vars => ManualInv'
  BY ManualInvStep
<1> QED BY <1>1, <1>2, TypeInvAlways, PTL DEF Spec

(* ManualOutcomeTrue: a manual rollback is reported only on the boot that   *)
(* returned from the Release it names, never when it was cancelled or no    *)
(* boot followed it.                                                        *)
THEOREM ManualReported == Spec => ManualOutcomeTrue
<1>1. ASSUME TypeInv, ManualInv, [Next]_vars,
             outcome' # outcome, outcome'.kind = "manual", used["fault"] <= 1
      PROVE  arrived.by # "staged" /\ arrived.from = outcome'.release
  <2>1. RestoreCheck
    <3>1. CASE AcceptOutcome
      <4>1. outcome' = [release |-> dep.booted, kind |-> "accepted"]
        BY <1>1, <3>1 DEF AcceptOutcome, Store
      <4> QED BY <1>1, <4>1
    <3>2. CASE HealthDeadline
      <4>1. outcome' = [release |-> dep.booted, kind |-> "rolledback"]
        BY <1>1, <3>2 DEF HealthDeadline, Store
      <4> QED BY <1>1, <4>1
    <3> QED BY <1>1, <3>1, <3>2, OutcomeMoves
  <2>2. manual # None /\ ManualTookEffect /\ outcome' = [release |-> manual.from, kind |-> "manual"]
    BY <1>1, <2>1 DEF RestoreCheck, Store
  <2>3. dep.booted = manual.to /\ dep.rollback = manual.from
    BY <2>2 DEF ManualTookEffect, Matches
  <2> QED BY <1>1, <2>2, <2>3 DEF ManualInv, Left, TypeInv, DepInv
<1> QED BY <1>1, ManualInvAlways, PTL DEF Spec, ManualOutcomeTrue

(***************************************************************************)
(* Restorations.  While no call fails, RESTORE_PRE_UPDATE names a Release  *)
(* that was rejected, or its network is restored already, and is gone when *)
(* netd is up; and UPDATE_RECORD never names an accepted update that       *)
(* restore-check could take for a rejected one, nor one without a record.  *)
(***************************************************************************)
Rejectable == {"booted", "unrecorded", "healthy", "reswitched", "restaged"}
Update(p, u) == [previous |-> p, update |-> u]
Fated(r) == fate[r] \in IF r = dep.rollback THEN {"reswitched", "restaged", "lost"}
                        ELSE {"switched", "staged", "lost"}
StagedInv ==
  used["fault"] = 0 =>
    /\ dep.staged # None => Fated(dep.staged)
    /\ stage.pc \in {"record", "pending"} => Fated(stage.after)
    /\ stage.pc = "pending" => record \in {None, Update(stage.before, stage.after)}
    /\ record # None => fate[record.update] # "lost"
RejectInv ==
  used["fault"] = 0 =>
    /\ record # None /\ record.update \in {dep.booted, dep.rollback} =>
         fate[record.update] \in Rejectable
    /\ restore # None =>
         /\ phase # "up" /\ dep.staged = None /\ stage.pc \in {"none", "preserve"}
         /\ health.pc \notin {"discard", "unrecord", "outcome"}
         /\ fate[restore] \in Rejectable \/ preserved \in {None, net}
         /\ record # None => phase \in Checking /\ record.update = restore /\ ReturnedFromUpdate
    /\ phase = "unpreserve" => result # "failed"
    /\ phase \in {"report", "unmark"} /\ result = "failed" => preserved = None

LEMMA StagedInvStep ==
  ASSUME StagedInv, RejectInv, TypeInv, [Next]_vars
  PROVE  StagedInv'
<1>1. CASE UNCHANGED <<dep, record, stage, fate>>
  BY <1>1, UsedGrows DEF StagedInv, Fated, Update
<1>2. CASE \E r \in Releases : StartStage(r)
  BY <1>2, ReleasesAssumption, NoneAssumption, UsedGrows, FaultCounts
   DEF StartStage, NoStage, boot, files, history, pendings, StagedInv, Fated,
       Update, RejectInv, TypeInv, CheckInv, DepInv, RollInv, StageInv, TypeOK,
       Deployments, Fates, Healths, OptRelease, Stages
<1>3. CASE StagePreserve
  BY <1>3, ReleasesAssumption, NoneAssumption, UsedGrows, FaultCounts
   DEF StagePreserve, Preserve, StageGoes, boot, pendings, NoStage, StagedInv,
       Fated, Update, RejectInv, TypeInv, CheckInv, DepInv, RollInv, StageInv,
       TypeOK, Deployments, Fates, Healths, OptRelease, Stages
<1>4. CASE StageBefore
  <2>1. UNCHANGED <<dep, record, fate>>
    BY <1>4 DEF StageBefore, files, history
  <2>2. PICK ok \in BOOLEAN : StageGoes(ok, [stage EXCEPT !.pc = "switch", !.before = dep.booted])
    BY <1>4 DEF StageBefore
  <2>3. stage'.pc \notin {"record", "pending"}
    <3>1. CASE stage' = NoStage
      BY <3>1 DEF NoStage
    <3>2. CASE stage' = [stage EXCEPT !.pc = "switch", !.before = dep.booted]
      BY <3>2 DEF TypeInv, TypeOK, Stages
    <3> QED BY <2>2, <3>1, <3>2 DEF StageGoes
  <2> QED BY <2>1, <2>3, UsedGrows DEF StagedInv, Fated
<1>5. CASE StageSwitch
  BY <1>5, ReleasesAssumption, NoneAssumption, UsedGrows, FaultCounts
   DEF StageSwitch, StageGoes, Switched, boot, files, pendings, NoStage,
       StagedInv, Fated, Update, RejectInv, TypeInv, CheckInv, DepInv, RollInv,
       StageInv, TypeOK, Deployments, Fates, Healths, OptRelease, Stages
<1>6. CASE StageAfter
  <2>1. UNCHANGED <<dep, record, fate>>
    BY <1>6 DEF StageAfter, files, history
  <2>2. PICK ok \in BOOLEAN : StageGoes(ok /\ dep.staged # None,
  [stage EXCEPT !.pc = "record", !.after = dep.staged])
    BY <1>6 DEF StageAfter
  <2>3. stage'.pc # "pending" /\ (stage'.pc = "record" => stage'.after = dep.staged /\ dep.staged # None)
    <3>1. CASE stage' = NoStage
      BY <3>1 DEF NoStage
    <3>2. CASE dep.staged # None /\ stage' = [stage EXCEPT !.pc = "record", !.after = dep.staged]
      BY <3>2 DEF TypeInv, TypeOK, Stages
    <3> QED BY <2>2, <3>1, <3>2 DEF StageGoes
  <2> QED BY <2>1, <2>3, UsedGrows DEF StagedInv, Fated
<1>7. CASE StageRecord
  BY <1>7, ReleasesAssumption, NoneAssumption, UsedGrows, FaultCounts
   DEF StageRecord, StageGoes, Store, Switched, boot, pendings, NoStage,
       StagedInv, Fated, Update, RejectInv, TypeInv, CheckInv, DepInv, RollInv,
       StageInv, TypeOK, Deployments, Fates, Healths, OptRelease, Stages
<1>8. CASE StagePending
  BY <1>8, ReleasesAssumption, NoneAssumption, UsedGrows, FaultCounts
   DEF StagePending, NoStage, SetPending, boot, files, pendings, StagedInv,
       Fated, Update, RejectInv, TypeInv, CheckInv, DepInv, RollInv, StageInv,
       TypeOK, Deployments, Fates, Healths, OptRelease, Stages
<1>9. CASE RollbackQueue
  <2>1. dep'.rollback = dep.rollback /\ dep'.staged \in {None, dep.staged}
    BY <1>9, SwapTurns DEF RollbackQueue, TypeInv, TypeOK
  <2>2. UNCHANGED <<record, stage, fate>>
    BY <1>9 DEF RollbackQueue, files
  <2> QED BY <2>1, <2>2, UsedGrows DEF StagedInv, Fated
<1>10. CASE HealthOk
  BY <1>10, ReleasesAssumption, NoneAssumption, UsedGrows, FaultCounts
   DEF HealthOk, Becomes, HealthGoes, HealthLeaves, ThisBoot, files, pendings,
       boot, threads, StagedInv, Fated, Update, RejectInv, TypeInv, CheckInv,
       DepInv, RollInv, StageInv, TypeOK, Deployments, Fates, Healths,
       OptRelease, Stages
<1>11. CASE AcceptUnrecord
  BY <1>11, ReleasesAssumption, NoneAssumption, UsedGrows, FaultCounts
   DEF AcceptUnrecord, Accepted, HealthGoes, HealthLeaves, Store, pendings,
       boot, threads, StagedInv, Fated, Update, RejectInv, TypeInv, CheckInv,
       DepInv, RollInv, StageInv, TypeOK, Deployments, Fates, Healths,
       OptRelease, Stages
<1>12. CASE HealthRollback
  <2>1. dep'.rollback = dep.rollback /\ dep'.staged \in {None, dep.staged}
    BY <1>12, SwapTurns DEF HealthRollback, TypeInv, TypeOK
  <2>2. UNCHANGED <<record, stage, fate>>
    BY <1>12 DEF HealthRollback, HealthLeaves, files, threads
  <2> QED BY <2>1, <2>2, UsedGrows DEF StagedInv, Fated
<1>13. CASE CheckUnrecord
  BY <1>13, ReleasesAssumption, NoneAssumption, UsedGrows, FaultCounts
   DEF CheckUnrecord, CheckLeaves, Store, history, pendings, threads,
       StagedInv, Fated, Update, RejectInv, TypeInv, CheckInv, DepInv, RollInv,
       StageInv, TypeOK, Deployments, Fates, Healths, OptRelease, Stages
<1>14. CASE NetdRestore
  BY <1>14, ReleasesAssumption, NoneAssumption, UsedGrows, FaultCounts
   DEF NetdRestore, NetdLeaves, pendings, threads, StagedInv, Fated, Update,
       RejectInv, TypeInv, CheckInv, DepInv, RollInv, StageInv, TypeOK,
       Deployments, Fates, Healths, OptRelease, Stages
<1>15. CASE NetdReport
  BY <1>15, ReleasesAssumption, NoneAssumption, UsedGrows, FaultCounts
   DEF NetdReport, NetdLeaves, Store, pendings, threads, StagedInv, Fated,
       Update, RejectInv, TypeInv, CheckInv, DepInv, RollInv, StageInv, TypeOK,
       Deployments, Fates, Healths, OptRelease, Stages
<1>16. CASE ControllerEnds
  BY <1>16, ReleasesAssumption, NoneAssumption, UsedGrows, FaultCounts
   DEF ControllerEnds, NoRoll, NoStage, boot, files, history, pendings,
       StagedInv, Fated, Update, RejectInv, TypeInv, CheckInv, DepInv, RollInv,
       StageInv, TypeOK, Deployments, Fates, Healths, OptRelease, Stages
<1>17. CASE Reboot
  BY <1>17, ReleasesAssumption, NoneAssumption, UsedGrows, FaultCounts
   DEF Reboot, Boots, NextBoot, NoHealth, NoRoll, NoStage, Updates, files,
       StagedInv, Fated, Update, RejectInv, TypeInv, CheckInv, DepInv, RollInv,
       StageInv, TypeOK, Deployments, Fates, Healths, OptRelease, Stages
<1>18. CASE PowerLoss
  BY <1>18, ReleasesAssumption, NoneAssumption, UsedGrows, FaultCounts
   DEF PowerLoss, Boots, NextBoot, NoHealth, NoRoll, NoStage, Updates, files,
       StagedInv, Fated, Update, RejectInv, TypeInv, CheckInv, DepInv, RollInv,
       StageInv, TypeOK, Deployments, Fates, Healths, OptRelease, Stages
<1> QED BY <1>1, <1>2, <1>3, <1>4, <1>5, <1>6, <1>7, <1>8, <1>9, <1>10, <1>11,
           <1>12, <1>13, <1>14, <1>15, <1>16, <1>17, <1>18, DepMoves,
           RecordMoves, StageMoves, FateMoves

LEMMA RejectInvStep ==
  ASSUME RejectInv, StagedInv, TypeInv, [Next]_vars
  PROVE  RejectInv'
<1>1. CASE UNCHANGED <<dep, record, restore, preserved, net, result, phase,
                       stage, health, fate>>
  BY <1>1, UsedGrows
   DEF RejectInv, Checking, Rejectable, ReturnedFromUpdate, Matches
<1>2. CASE \E r \in Releases : StartStage(r)
  BY <1>2, ReleasesAssumption, UsedGrows, FaultCounts
   DEF StartStage, NoStage, boot, files, history, pendings, RejectInv,
       Checking, Rejectable, ReturnedFromUpdate, Matches, StagedInv, Fated,
       TypeInv, CheckInv, DepInv, RollInv, StageInv, TypeOK, Deployments,
       Fates, Healths, OptRelease, Stages
<1>3. CASE StagePreserve
  BY <1>3, ReleasesAssumption, UsedGrows, FaultCounts
   DEF StagePreserve, Preserve, StageGoes, boot, pendings, NoStage, RejectInv,
       Checking, Rejectable, ReturnedFromUpdate, Matches, StagedInv, Fated,
       TypeInv, CheckInv, DepInv, RollInv, StageInv, TypeOK, Deployments,
       Fates, Healths, OptRelease, Stages
<1>4. CASE StageBefore
  BY <1>4, ReleasesAssumption, UsedGrows, FaultCounts
   DEF StageBefore, StageGoes, boot, files, history, pendings, NoStage,
       RejectInv, Checking, Rejectable, ReturnedFromUpdate, Matches, StagedInv,
       Fated, TypeInv, CheckInv, DepInv, RollInv, StageInv, TypeOK,
       Deployments, Fates, Healths, OptRelease, Stages
<1>5. CASE StageSwitch
  BY <1>5, ReleasesAssumption, UsedGrows, FaultCounts
   DEF StageSwitch, StageGoes, Switched, boot, files, pendings, NoStage,
       RejectInv, Checking, Rejectable, ReturnedFromUpdate, Matches, StagedInv,
       Fated, TypeInv, CheckInv, DepInv, RollInv, StageInv, TypeOK,
       Deployments, Fates, Healths, OptRelease, Stages
<1>6. CASE StageAfter
  BY <1>6, ReleasesAssumption, UsedGrows, FaultCounts
   DEF StageAfter, StageGoes, boot, files, history, pendings, NoStage,
       RejectInv, Checking, Rejectable, ReturnedFromUpdate, Matches, StagedInv,
       Fated, TypeInv, CheckInv, DepInv, RollInv, StageInv, TypeOK,
       Deployments, Fates, Healths, OptRelease, Stages
<1>7. CASE StageRecord
  BY <1>7, ReleasesAssumption, UsedGrows, FaultCounts
   DEF StageRecord, StageGoes, Store, Switched, boot, pendings, NoStage,
       RejectInv, Checking, Rejectable, ReturnedFromUpdate, Matches, StagedInv,
       Fated, TypeInv, CheckInv, DepInv, RollInv, StageInv, TypeOK,
       Deployments, Fates, Healths, OptRelease, Stages
<1>8. CASE StagePending
  <2>1. /\ UNCHANGED <<dep, record, restore, preserved, net, result, phase, health>>
        /\ stage.pc = "pending" /\ stage'.pc = "none"
    BY <1>8 DEF StagePending, NoStage, files, boot
  <2>2. stage.after \in Releases /\ stage.after # dep.booted /\ stage.before = dep.booted
    BY <2>1 DEF TypeInv, StageInv
  <2>3. CASE UNCHANGED fate
    BY <2>1, <2>3, UsedGrows DEF RejectInv, Rejectable, ReturnedFromUpdate, Matches
  <2>4. CASE fate' = [fate EXCEPT ![stage.after] =
                        IF record # Update(stage.before, stage.after) THEN "lost"
                        ELSE IF stage.after = dep.rollback THEN "restaged" ELSE "staged"]
    <3>1. CASE used["fault"] # 0
      BY <3>1, UsedGrows DEF RejectInv
    <3>2. CASE used["fault"] = 0
      <4>1. restore = None /\ record \in {None, Update(stage.before, stage.after)}
        BY <2>1, <3>2 DEF RejectInv, StagedInv
      <4>2. ASSUME record # None, record.update \in {dep.booted, dep.rollback}
            PROVE  fate'[record.update] \in Rejectable
        <5>1. CASE record.update = stage.after
          BY <2>2, <2>4, <4>1, <4>2, <5>1 DEF Rejectable, TypeInv, TypeOK
        <5>2. CASE record.update # stage.after
          BY <2>4, <3>2, <4>2, <5>2 DEF RejectInv, TypeInv, TypeOK
        <5> QED BY <5>1, <5>2
      <4> QED BY <2>1, <3>2, <4>1, <4>2, UsedGrows DEF RejectInv
    <3> QED BY <3>1, <3>2
  <2> QED BY <1>8, <2>3, <2>4 DEF StagePending, Update
<1>9. CASE RefreshPreUpdate
  BY <1>9, ReleasesAssumption, UsedGrows, FaultCounts
   DEF RefreshPreUpdate, Preserve, boot, history, pendings, RejectInv,
       Checking, Rejectable, ReturnedFromUpdate, Matches, StagedInv, Fated,
       TypeInv, CheckInv, DepInv, RollInv, StageInv, TypeOK, Deployments,
       Fates, Healths, OptRelease, Stages
<1>10. CASE RollbackQueue
  <2>1. /\ dep'.booted = dep.booted /\ dep'.rollback = dep.rollback
        /\ dep'.staged \in {None, dep.staged}
    BY <1>10, SwapTurns DEF RollbackQueue, TypeInv, TypeOK
  <2>2. UNCHANGED <<record, restore, preserved, net, result, phase, stage, fate>>
    BY <1>10 DEF RollbackQueue, files, boot, threads
  <2>3. UNCHANGED health \/ health'.pc \in {"exited", "clearReboot"}
    BY <1>10 DEF RollbackQueue, TypeInv, TypeOK, Healths
  <2> QED BY <2>1, <2>2, <2>3, UsedGrows DEF RejectInv, ReturnedFromUpdate, Matches
<1>11. CASE HealthStart
  BY <1>11, ReleasesAssumption, UsedGrows, FaultCounts
   DEF HealthStart, HealthLeaves, files, history, pendings, boot, threads,
       RejectInv, Checking, Rejectable, ReturnedFromUpdate, Matches, StagedInv,
       Fated, TypeInv, CheckInv, DepInv, RollInv, StageInv, TypeOK,
       Deployments, Fates, Healths, OptRelease, Stages
<1>12. CASE HealthOtherBoot
  BY <1>12, ReleasesAssumption, UsedGrows, FaultCounts
   DEF HealthOtherBoot, HealthGoes, HealthLeaves, ThisBoot, files, history,
       pendings, boot, threads, RejectInv, Checking, Rejectable,
       ReturnedFromUpdate, Matches, StagedInv, Fated, TypeInv, CheckInv,
       DepInv, RollInv, StageInv, TypeOK, Deployments, Fates, Healths,
       OptRelease, Stages
<1>13. CASE HealthOk
  BY <1>13, ReleasesAssumption, UsedGrows, FaultCounts
   DEF HealthOk, Becomes, HealthGoes, HealthLeaves, ThisBoot, files, pendings,
       boot, threads, RejectInv, Checking, Rejectable, ReturnedFromUpdate,
       Matches, StagedInv, Fated, TypeInv, CheckInv, DepInv, RollInv, StageInv,
       TypeOK, Deployments, Fates, Healths, OptRelease, Stages
<1>14. CASE AcceptDiscard
  BY <1>14, ReleasesAssumption, UsedGrows, FaultCounts
   DEF AcceptDiscard, HealthGoes, HealthLeaves, Store, history, pendings, boot,
       threads, RejectInv, Checking, Rejectable, ReturnedFromUpdate, Matches,
       StagedInv, Fated, TypeInv, CheckInv, DepInv, RollInv, StageInv, TypeOK,
       Deployments, Fates, Healths, OptRelease, Stages
<1>15. CASE AcceptUnrecord
  <2>1. CASE used'["fault"] # 0
    BY <2>1 DEF RejectInv
  <2>2. CASE used'["fault"] = 0
    <3>1. used["fault"] = 0 /\ used'["fault"] = used["fault"]
      BY <2>2, UsedGrows
    <3>2. record' = None
      BY <1>15, <3>1, TryWorks DEF AcceptUnrecord, Store
    <3> QED BY <1>15, <3>1, <3>2
            DEF AcceptUnrecord, HealthGoes, HealthLeaves, Becomes, boot,
                threads, pendings, RejectInv,
                TypeInv, TypeOK, Healths
  <2> QED BY <2>1, <2>2
<1>16. CASE AcceptOutcome
  BY <1>16, ReleasesAssumption, UsedGrows, FaultCounts
   DEF AcceptOutcome, HealthGoes, HealthLeaves, Store, history, pendings, boot,
       threads, RejectInv, Checking, Rejectable, ReturnedFromUpdate, Matches,
       StagedInv, Fated, TypeInv, CheckInv, DepInv, RollInv, StageInv, TypeOK,
       Deployments, Fates, Healths, OptRelease, Stages
<1>17. CASE HealthDeadline
  BY <1>17, ReleasesAssumption, UsedGrows, FaultCounts
   DEF HealthDeadline, Checking, HealthGoes, HealthLeaves, ShouldAutoRollback,
       Store, ThisBoot, history, pendings, boot, threads, RejectInv,
       Rejectable, ReturnedFromUpdate, Matches, StagedInv, Fated, TypeInv,
       CheckInv, DepInv, RollInv, StageInv, TypeOK, Deployments, Fates,
       Healths, OptRelease, Stages
<1>18. CASE HealthBlind
  BY <1>18, ReleasesAssumption, UsedGrows, FaultCounts
   DEF HealthBlind, Checking, HealthGoes, HealthLeaves, files, history,
       pendings, boot, threads, RejectInv, Rejectable, ReturnedFromUpdate,
       Matches, StagedInv, Fated, TypeInv, CheckInv, DepInv, RollInv, StageInv,
       TypeOK, Deployments, Fates, Healths, OptRelease, Stages
<1>19. CASE HealthRollback
  <2>1. /\ dep'.booted = dep.booted /\ dep'.rollback = dep.rollback
        /\ dep'.staged \in {None, dep.staged}
    BY <1>19, SwapTurns DEF HealthRollback, TypeInv, TypeOK
  <2>2. UNCHANGED <<record, restore, preserved, net, result, phase, stage, fate>>
    BY <1>19 DEF HealthRollback, HealthLeaves, files, boot, threads
  <2>3. UNCHANGED health \/ health'.pc \in {"exited", "clearReboot"}
    BY <1>19 DEF HealthRollback, HealthGoes, TypeInv, TypeOK, Healths
  <2> QED BY <2>1, <2>2, <2>3, UsedGrows DEF RejectInv, ReturnedFromUpdate, Matches
<1>20. CASE HealthClear
  BY <1>20, ReleasesAssumption, UsedGrows, FaultCounts
   DEF HealthClear, ClearPending, HealthGoes, HealthLeaves, files, SetPending,
       pendings, boot, threads, RejectInv, Checking, Rejectable,
       ReturnedFromUpdate, Matches, StagedInv, Fated, TypeInv, CheckInv,
       DepInv, RollInv, StageInv, TypeOK, Deployments, Fates, Healths,
       OptRelease, Stages
<1>21. CASE HealthReboot
  BY <1>21, ReleasesAssumption, UsedGrows, FaultCounts
   DEF HealthReboot, HealthGoes, HealthLeaves, files, history, pendings,
       request_reboot, boot, threads, RejectInv, Checking, Rejectable,
       ReturnedFromUpdate, Matches, StagedInv, Fated, TypeInv, CheckInv,
       DepInv, RollInv, StageInv, TypeOK, Deployments, Fates, Healths,
       OptRelease, Stages
<1>22. CASE RestoreCheck
  BY <1>22, ReleasesAssumption, UsedGrows, FaultCounts
   DEF RestoreCheck, CheckLeaves, ManualTookEffect, ReturnedFromUpdate, Store,
       history, pendings, threads, Matches, RejectInv, Checking, Rejectable,
       StagedInv, Fated, TypeInv, CheckInv, DepInv, RollInv, StageInv, TypeOK,
       Deployments, Fates, Healths, OptRelease, Stages
<1>23. CASE CheckUnmanual
  <2>1. CASE used'["fault"] # 0
    BY <2>1 DEF RejectInv
  <2>2. CASE used'["fault"] = 0
    <3>1. used["fault"] = 0 /\ used'["fault"] = used["fault"]
      BY <2>2, UsedGrows
    <3>2. phase' = IF ReturnedFromUpdate THEN "mark" ELSE "netd"
      BY <1>23, <3>1, TryWorks DEF CheckUnmanual, Store
    <3> QED BY <1>23, <3>1, <3>2
            DEF CheckUnmanual, CheckLeaves, pendings, threads, history,
                RejectInv, Rejectable, ReturnedFromUpdate, Matches, Checking
  <2> QED BY <2>1, <2>2
<1>24. CASE CheckMark
  <2>1. CASE used'["fault"] # 0
    BY <2>1 DEF RejectInv
  <2>2. CASE used'["fault"] = 0
    <3>1. used["fault"] = 0 /\ used'["fault"] = used["fault"]
      BY <2>2, UsedGrows
    <3>2. restore' = record.update /\ phase' = "unrecord"
      BY <1>24, <3>1, TryWorks DEF CheckMark, Store
    <3> QED BY <1>24, <3>1, <3>2
            DEF CheckMark, CheckLeaves, pendings, threads, history, RejectInv,
                Rejectable, ReturnedFromUpdate, Matches, Checking,
                TypeInv, CheckInv, RollInv
  <2> QED BY <2>1, <2>2
<1>25. CASE CheckUnrecord
  <2>1. CASE used'["fault"] # 0
    BY <2>1 DEF RejectInv
  <2>2. CASE used'["fault"] = 0
    <3>1. used["fault"] = 0 /\ used'["fault"] = used["fault"]
      BY <2>2, UsedGrows
    <3>2. record' = None
      BY <1>25, <3>1, TryWorks DEF CheckUnrecord, Store
    <3> QED BY <1>25, <3>1, <3>2
            DEF CheckUnrecord, CheckLeaves, pendings, threads, history,
                RejectInv, Rejectable, ReturnedFromUpdate, Matches, Checking
  <2> QED BY <2>1, <2>2
<1>26. CASE NetdStart
  BY <1>26, ReleasesAssumption, UsedGrows, FaultCounts
   DEF NetdStart, NetdLeaves, history, pendings, threads, RejectInv, Checking,
       Rejectable, ReturnedFromUpdate, Matches, StagedInv, Fated, TypeInv,
       CheckInv, DepInv, RollInv, StageInv, TypeOK, Deployments, Fates,
       Healths, OptRelease, Stages
<1>27. CASE NetdRestore
  BY <1>27, ReleasesAssumption, UsedGrows, FaultCounts
   DEF NetdRestore, NetdLeaves, pendings, threads, RejectInv, Checking,
       Rejectable, ReturnedFromUpdate, Matches, StagedInv, Fated, TypeInv,
       CheckInv, DepInv, RollInv, StageInv, TypeOK, Deployments, Fates,
       Healths, OptRelease, Stages
<1>28. CASE NetdUnpreserve
  BY <1>28, ReleasesAssumption, UsedGrows, FaultCounts
   DEF NetdUnpreserve, NetdLeaves, Store, history, pendings, threads,
       RejectInv, Checking, Rejectable, ReturnedFromUpdate, Matches, StagedInv,
       Fated, TypeInv, CheckInv, DepInv, RollInv, StageInv, TypeOK,
       Deployments, Fates, Healths, OptRelease, Stages
<1>29. CASE NetdReport
  <2>1. CASE used'["fault"] # 0
    BY <2>1 DEF RejectInv
  <2>2. CASE used'["fault"] = 0
    <3>1. used["fault"] = 0 /\ used'["fault"] = used["fault"]
      BY <2>2, UsedGrows
    <3>2. /\ phase' = "unmark"
         /\ fate' = IF result = "failed" THEN [fate EXCEPT ![restore] = "reported"] ELSE fate
      BY <1>29, <3>1, TryWorks DEF NetdReport, Store
    <3> QED BY <1>29, <3>1, <3>2
            DEF NetdReport, NetdLeaves, pendings, threads, TypeInv, CheckInv,
                RejectInv, Rejectable, ReturnedFromUpdate, Matches, Checking
  <2> QED BY <2>1, <2>2
<1>30. CASE NetdUnmark
  <2>1. CASE used'["fault"] # 0
    BY <2>1 DEF RejectInv
  <2>2. CASE used'["fault"] = 0
    <3>1. used["fault"] = 0 /\ used'["fault"] = used["fault"]
      BY <2>2, UsedGrows
    <3>2. restore' = None
      BY <1>30, <3>1, TryWorks DEF NetdUnmark, Store
    <3> QED BY <1>30, <3>1, <3>2
            DEF NetdUnmark, NetdLeaves, pendings, threads, history, RejectInv,
                Rejectable, ReturnedFromUpdate, Matches, Checking
  <2> QED BY <2>1, <2>2
<1>31. CASE \E n \in Nets : Edit(n)
  BY <1>31, ReleasesAssumption, UsedGrows, FaultCounts
   DEF Edit, NetdLeaves, pendings, threads, RejectInv, Checking, Rejectable,
       ReturnedFromUpdate, Matches, StagedInv, Fated, TypeInv, CheckInv,
       DepInv, RollInv, StageInv, TypeOK, Deployments, Fates, Healths,
       OptRelease, Stages
<1>32. CASE ControllerEnds
  BY <1>32, ReleasesAssumption, UsedGrows, FaultCounts
   DEF ControllerEnds, NoRoll, NoStage, boot, files, history, pendings,
       RejectInv, Checking, Rejectable, ReturnedFromUpdate, Matches, StagedInv,
       Fated, TypeInv, CheckInv, DepInv, RollInv, StageInv, TypeOK,
       Deployments, Fates, Healths, OptRelease, Stages
<1>33. CASE HealthEnds
  BY <1>33, ReleasesAssumption, UsedGrows, FaultCounts
   DEF HealthEnds, HealthGoes, HealthLeaves, files, history, pendings, boot,
       threads, RejectInv, Checking, Rejectable, ReturnedFromUpdate, Matches,
       StagedInv, Fated, TypeInv, CheckInv, DepInv, RollInv, StageInv, TypeOK,
       Deployments, Fates, Healths, OptRelease, Stages
<1>34. CASE NetdEnds
  BY <1>34, ReleasesAssumption, UsedGrows, FaultCounts
   DEF NetdEnds, NetdLeaves, history, pendings, threads, RejectInv, Checking,
       Rejectable, ReturnedFromUpdate, Matches, StagedInv, Fated, TypeInv,
       CheckInv, DepInv, RollInv, StageInv, TypeOK, Deployments, Fates,
       Healths, OptRelease, Stages
<1>35. CASE Reboot
  BY <1>35, ReleasesAssumption, UsedGrows, FaultCounts
   DEF Reboot, Boots, NextBoot, NoHealth, NoRoll, NoStage, Updates, files,
       RejectInv, Checking, Rejectable, ReturnedFromUpdate, Matches, StagedInv,
       Fated, TypeInv, CheckInv, DepInv, RollInv, StageInv, TypeOK,
       Deployments, Fates, Healths, OptRelease, Stages
<1>36. CASE PowerLoss
  BY <1>36, ReleasesAssumption, UsedGrows, FaultCounts
   DEF PowerLoss, Boots, NextBoot, NoHealth, NoRoll, NoStage, Updates, files,
       RejectInv, Checking, Rejectable, ReturnedFromUpdate, Matches, StagedInv,
       Fated, TypeInv, CheckInv, DepInv, RollInv, StageInv, TypeOK,
       Deployments, Fates, Healths, OptRelease, Stages
<1> QED BY <1>1, <1>2, <1>3, <1>4, <1>5, <1>6, <1>7, <1>8, <1>9, <1>10, <1>11,
           <1>12, <1>13, <1>14, <1>15, <1>16, <1>17, <1>18, <1>19, <1>20,
           <1>21, <1>22, <1>23, <1>24, <1>25, <1>26, <1>27, <1>28, <1>29,
           <1>30, <1>31, <1>32, <1>33, <1>34, <1>35, <1>36, DepMoves,
           RecordMoves, RestoreMoves, PreservedMoves, NetMoves, ResultMoves,
           PhaseMoves, StageMoves, HealthMoves, FateMoves

LEMMA RejectInvAlways == Spec => [](TypeInv /\ StagedInv /\ RejectInv)
<1>1. Init => StagedInv /\ RejectInv
  BY DEF Init, StagedInv, RejectInv, NoStage
<1>2. /\ TypeInv /\ StagedInv /\ RejectInv /\ [Next]_vars => StagedInv'
      /\ TypeInv /\ StagedInv /\ RejectInv /\ [Next]_vars => RejectInv'
  BY StagedInvStep, RejectInvStep
<1> QED BY <1>1, <1>2, TypeInvAlways, PTL DEF Spec

(* RestoresOnlyRejected: while no call fails, netd changes the Accepted     *)
(* network only for an update that booted and was not accepted, once,       *)
(* crashes included; but for one staged while it was the rollback           *)
(* deployment.                                                              *)
THEOREM OnlyRejected == Spec => RestoresOnlyRejected
<1>1. ASSUME TypeInv, RejectInv, [Next]_vars, phase = "netd", net' # net, used["fault"] = 0
      PROVE  fate[restore] \in {"booted", "unrecorded", "healthy", "reswitched", "restaged"}
  <2>1. NetdRestore
    BY <1>1, NetMoves DEF Edit
  <2>2. restore # None /\ preserved \notin {None, net}
    BY <1>1, <2>1 DEF NetdRestore
  <2> QED BY <1>1, <2>2 DEF RejectInv, Rejectable
<1> QED BY <1>1, RejectInvAlways, PTL DEF Spec, RestoresOnlyRejected

(***************************************************************************)
(* The way back.  The record of a staging is kept until its boot, and then *)
(* until the Release is accepted or another staging takes its place, so    *)
(* that the boot that returns finds it.                                    *)
(***************************************************************************)
Returning ==
  /\ arrived.first /\ arrived.by \in {"manual", "health"} /\ used["fault"] = arrived.faults
  /\ fate[dep.rollback] = "booted"
RecordInv ==
  /\ stage.pc = "pending" => record \in {None, Update(stage.before, stage.after)}
  /\ dep.staged # None /\ fate[dep.staged] \in Updates => record = Update(dep.booted, dep.staged)
  /\ arrived.by \in Updates /\ fate[dep.booted] = "booted" =>
       record = Update(dep.rollback, dep.booted)
  /\ arrived.faults <= used["fault"]
  /\ arrived.first => dep.rollback # None

LEMMA RecordInvStep ==
  ASSUME RecordInv, TypeInv, [Next]_vars
  PROVE  RecordInv'
<1>1. CASE UNCHANGED <<dep, record, stage, fate, arrived>>
  BY <1>1, UsedGrows DEF RecordInv, Update, Updates, TypeInv, TypeOK, Arrivals
<1>2. CASE \E r \in Releases : StartStage(r)
  BY <1>2, ReleasesAssumption, UsedGrows
   DEF StartStage, NoStage, boot, files, history, pendings, RecordInv, Update,
       Updates, TypeInv, CheckInv, DepInv, RollInv, StageInv, TypeOK, Checking,
       Deployments, Arrivals, Fates, OptRelease, Stages
<1>3. CASE StagePreserve
  BY <1>3, ReleasesAssumption, UsedGrows
   DEF StagePreserve, Preserve, StageGoes, boot, pendings, NoStage, RecordInv,
       Update, Updates, TypeInv, CheckInv, DepInv, RollInv, StageInv, TypeOK,
       Checking, Deployments, Arrivals, Fates, OptRelease, Stages
<1>4. CASE StageBefore
  <2>1. UNCHANGED <<dep, record, fate, arrived>>
    BY <1>4 DEF StageBefore, files, history
  <2>2. PICK ok \in BOOLEAN : StageGoes(ok, [stage EXCEPT !.pc = "switch", !.before = dep.booted])
    BY <1>4 DEF StageBefore
  <2>3. stage'.pc # "pending"
    <3>1. NoStage.pc # "pending"
      BY DEF NoStage
    <3>2. [stage EXCEPT !.pc = "switch", !.before = dep.booted].pc # "pending"
      BY DEF TypeInv, TypeOK, Stages
    <3> QED BY <2>2, <3>1, <3>2 DEF StageGoes
  <2> QED BY <2>1, <2>3, UsedGrows DEF RecordInv, TypeInv, TypeOK, Arrivals
<1>5. CASE StageSwitch
  BY <1>5, ReleasesAssumption, UsedGrows
   DEF StageSwitch, StageGoes, Switched, boot, files, pendings, NoStage,
       RecordInv, Update, Updates, TypeInv, CheckInv, DepInv, RollInv,
       StageInv, TypeOK, Checking, Deployments, Arrivals, Fates, OptRelease,
       Stages
<1>6. CASE StageAfter
  <2>1. UNCHANGED <<dep, record, fate, arrived>>
    BY <1>6 DEF StageAfter, files, history
  <2>2. PICK ok \in BOOLEAN : StageGoes(ok /\ dep.staged # None,
  [stage EXCEPT !.pc = "record", !.after = dep.staged])
    BY <1>6 DEF StageAfter
  <2>3. stage'.pc # "pending"
    <3>1. NoStage.pc # "pending"
      BY DEF NoStage
    <3>2. [stage EXCEPT !.pc = "record", !.after = dep.staged].pc # "pending"
      BY DEF TypeInv, TypeOK, Stages
    <3> QED BY <2>2, <3>1, <3>2 DEF StageGoes
  <2> QED BY <2>1, <2>3, UsedGrows DEF RecordInv, TypeInv, TypeOK, Arrivals
<1>7. CASE StageRecord
  BY <1>7, ReleasesAssumption, UsedGrows
   DEF StageRecord, StageGoes, Store, Switched, boot, pendings, NoStage,
       RecordInv, Update, Updates, TypeInv, CheckInv, DepInv, RollInv,
       StageInv, TypeOK, Checking, Deployments, Arrivals, Fates, OptRelease,
       Stages
<1>8. CASE StagePending
  BY <1>8, ReleasesAssumption, UsedGrows
   DEF StagePending, NoStage, SetPending, boot, files, pendings, RecordInv,
       Update, Updates, TypeInv, CheckInv, DepInv, RollInv, StageInv, TypeOK,
       Checking, Deployments, Arrivals, Fates, OptRelease, Stages
<1>9. CASE RollbackQueue
  <2>1. /\ dep'.booted = dep.booted /\ dep'.rollback = dep.rollback
        /\ dep'.staged \in {None, dep.staged}
    BY <1>9, SwapTurns DEF RollbackQueue, TypeInv, TypeOK
  <2>2. UNCHANGED <<record, stage, fate, arrived>>
    BY <1>9 DEF RollbackQueue, files
  <2> QED BY <2>1, <2>2, UsedGrows DEF RecordInv, TypeInv, TypeOK, Arrivals
<1>10. CASE HealthOk
  BY <1>10, ReleasesAssumption, UsedGrows
   DEF HealthOk, Becomes, HealthGoes, HealthLeaves, ThisBoot, files, pendings,
       boot, threads, RecordInv, Update, Updates, TypeInv, CheckInv, DepInv,
       RollInv, StageInv, TypeOK, Checking, Deployments, Arrivals, Fates,
       OptRelease, Stages
<1>11. CASE AcceptUnrecord
  BY <1>11, ReleasesAssumption, UsedGrows
   DEF AcceptUnrecord, Accepted, HealthGoes, HealthLeaves, Store, pendings,
       boot, threads, RecordInv, Update, Updates, TypeInv, CheckInv, DepInv,
       RollInv, StageInv, TypeOK, Checking, Deployments, Arrivals, Fates,
       OptRelease, Stages
<1>12. CASE HealthRollback
  <2>1. /\ dep'.booted = dep.booted /\ dep'.rollback = dep.rollback
        /\ dep'.staged \in {None, dep.staged}
    BY <1>12, SwapTurns DEF HealthRollback, TypeInv, TypeOK
  <2>2. UNCHANGED <<record, stage, fate, arrived>>
    BY <1>12 DEF HealthRollback, HealthLeaves, files, threads
  <2> QED BY <2>1, <2>2, UsedGrows DEF RecordInv, TypeInv, TypeOK, Arrivals
<1>13. CASE CheckUnrecord
  <2>1. /\ UNCHANGED <<dep, stage, fate, arrived>>
        /\ dep.staged = None /\ stage.pc = "none"
        /\ dep.booted # dep.rollback /\ record.update = dep.rollback
    BY <1>13 DEF CheckUnrecord, CheckLeaves, threads, history,
                 ReturnedFromUpdate, Matches, TypeInv,
              CheckInv, Checking, RollInv, DepInv
  <2>2. ~(arrived.by \in Updates /\ fate[dep.booted] = "booted")
    BY <2>1 DEF RecordInv, Update
  <2> QED BY <2>1, <2>2, UsedGrows DEF RecordInv, TypeInv, TypeOK, Arrivals
<1>14. CASE NetdRestore
  BY <1>14, ReleasesAssumption, UsedGrows
   DEF NetdRestore, NetdLeaves, pendings, threads, RecordInv, Update, Updates,
       TypeInv, CheckInv, DepInv, RollInv, StageInv, TypeOK, Checking,
       Deployments, Arrivals, Fates, OptRelease, Stages
<1>15. CASE NetdReport
  BY <1>15, ReleasesAssumption, UsedGrows
   DEF NetdReport, NetdLeaves, Store, pendings, threads, RecordInv, Update,
       Updates, TypeInv, CheckInv, DepInv, RollInv, StageInv, TypeOK, Checking,
       Deployments, Arrivals, Fates, OptRelease, Stages
<1>16. CASE ControllerEnds
  BY <1>16, ReleasesAssumption, UsedGrows
   DEF ControllerEnds, NoRoll, NoStage, boot, files, history, pendings,
       RecordInv, Update, Updates, TypeInv, CheckInv, DepInv, RollInv,
       StageInv, TypeOK, Checking, Deployments, Arrivals, Fates, OptRelease,
       Stages
<1>17. CASE Reboot
  BY <1>17, ReleasesAssumption, UsedGrows
   DEF Reboot, Boots, NextBoot, NoHealth, NoRoll, NoStage, Updates, files,
       RecordInv, Update, TypeInv, CheckInv, DepInv, RollInv, StageInv, TypeOK,
       Checking, Deployments, Arrivals, Fates, OptRelease, Stages
<1>18. CASE PowerLoss
  BY <1>18, ReleasesAssumption, UsedGrows
   DEF PowerLoss, Boots, NextBoot, NoHealth, NoRoll, NoStage, Updates, files,
       RecordInv, Update, TypeInv, CheckInv, DepInv, RollInv, StageInv, TypeOK,
       Checking, Deployments, Arrivals, Fates, OptRelease, Stages
<1> QED BY <1>1, <1>2, <1>3, <1>4, <1>5, <1>6, <1>7, <1>8, <1>9, <1>10, <1>11,
           <1>12, <1>13, <1>14, <1>15, <1>16, <1>17, <1>18, DepMoves,
           RecordMoves, StageMoves, FateMoves, ArrivedMoves

(* The boot that returns from a rejected update marks the restoration, does *)
(* it and records it, before anything else can touch the record or network. *)
ReturnInv ==
  Returning =>
    /\ phase \in {"check", "unmanual", "mark", "unrecord", "netd", "report"}
    /\ record \in {None, Update(dep.booted, dep.rollback)}
    /\ restore = dep.rollback \/ (phase \in {"check", "unmanual", "mark"} /\ record # None)
    /\ phase = "report" => result = "failed"
    /\ dep.staged = None /\ stage.pc \in {"none", "preserve"}
    /\ health.pc \notin {"discard", "unrecord", "outcome"}

(* A boot reached by staging that goes back finds its record.               *)
LEMMA BootsReturn ==
  ASSUME TypeInv, RecordInv, ReturnInv, [Next]_vars, NEW clean \in BOOLEAN, Boots(clean)
  PROVE  ReturnInv'
<1>1. /\ phase' = "check" /\ UNCHANGED <<record, restore>>
      /\ dep'.staged = None /\ stage'.pc = "none" /\ health'.pc = "start"
  BY DEF Boots, NextBoot, files, NoStage, NoHealth, TypeInv, TypeOK, Deployments
<1>2. CASE ~Returning'
  BY <1>2 DEF ReturnInv
<1>3. CASE Returning' /\ dep'.booted = dep.booted
  <2>1. UNCHANGED <<arrived, fate>> /\ dep'.rollback = dep.rollback
    BY <1>3 DEF Boots, NextBoot, TypeInv, TypeOK, DepInv, Deployments
  <2>2. Returning
    BY <1>3, <2>1, UsedGrows DEF Returning, RecordInv, TypeInv, TypeOK, Arrivals
  <2> QED BY <1>1, <1>3, <2>1, <2>2 DEF ReturnInv, Update
<1>4. CASE Returning' /\ dep'.booted # dep.booted
  <2>1. /\ arrived.by \in Updates /\ ~(clean /\ dep.staged # None)
        /\ dep'.booted = dep.rollback /\ dep'.rollback = dep.booted /\ fate' = fate
    BY <1>4 DEF Boots, NextBoot, Returning, TypeInv, TypeOK, Deployments
  <2>2. record = Update(dep.rollback, dep.booted)
    BY <1>4, <2>1 DEF Returning, RecordInv
  <2>3. dep.rollback \in Releases /\ dep.booted \in Releases
    BY <1>4, <2>1, BootsType DEF TypeInv, TypeOK, Deployments
  <2>4. record # None
    BY <2>2, <2>3, NoneAssumption DEF Update
  <2> QED BY <1>1, <2>1, <2>2, <2>4 DEF ReturnInv, Update
<1> QED BY <1>2, <1>3, <1>4

LEMMA ReturnInvStep ==
  ASSUME ReturnInv, RecordInv, TypeInv, [Next]_vars
  PROVE  ReturnInv'
<1>1. CASE UNCHANGED <<dep, record, restore, result, phase, stage, health,
                       fate, arrived>>
  BY <1>1, UsedGrows
   DEF ReturnInv, Returning, Update, RecordInv, TypeInv, TypeOK, Arrivals
<1>2. CASE \E r \in Releases : StartStage(r)
  BY <1>2, ReleasesAssumption, NoneAssumption, UsedGrows, FaultCounts
   DEF StartStage, NoStage, boot, files, history, pendings, ReturnInv,
       Returning, Update, RecordInv, Updates, TypeInv, CheckInv, DepInv,
       RollInv, StageInv, TypeOK, Checking, Deployments, Arrivals, Healths,
       OptRelease, Stages
<1>3. CASE StagePreserve
  BY <1>3, ReleasesAssumption, NoneAssumption, UsedGrows, FaultCounts
   DEF StagePreserve, Preserve, StageGoes, boot, pendings, NoStage, ReturnInv,
       Returning, Update, RecordInv, Updates, TypeInv, CheckInv, DepInv,
       RollInv, StageInv, TypeOK, Checking, Deployments, Arrivals, Healths,
       OptRelease, Stages
<1>4. CASE StageBefore
  BY <1>4, ReleasesAssumption, NoneAssumption, UsedGrows, FaultCounts
   DEF StageBefore, StageGoes, boot, files, history, pendings, NoStage,
       ReturnInv, Returning, Update, RecordInv, Updates, TypeInv, CheckInv,
       DepInv, RollInv, StageInv, TypeOK, Checking, Deployments, Arrivals,
       Healths, OptRelease, Stages
<1>5. CASE StageSwitch
  BY <1>5, ReleasesAssumption, NoneAssumption, UsedGrows, FaultCounts
   DEF StageSwitch, StageGoes, Switched, boot, files, pendings, NoStage,
       ReturnInv, Returning, Update, RecordInv, Updates, TypeInv, CheckInv,
       DepInv, RollInv, StageInv, TypeOK, Checking, Deployments, Arrivals,
       Healths, OptRelease, Stages
<1>6. CASE StageAfter
  BY <1>6, ReleasesAssumption, NoneAssumption, UsedGrows, FaultCounts
   DEF StageAfter, StageGoes, boot, files, history, pendings, NoStage,
       ReturnInv, Returning, Update, RecordInv, Updates, TypeInv, CheckInv,
       DepInv, RollInv, StageInv, TypeOK, Checking, Deployments, Arrivals,
       Healths, OptRelease, Stages
<1>7. CASE StageRecord
  BY <1>7, ReleasesAssumption, NoneAssumption, UsedGrows, FaultCounts
   DEF StageRecord, StageGoes, Store, Switched, boot, pendings, NoStage,
       ReturnInv, Returning, Update, RecordInv, Updates, TypeInv, CheckInv,
       DepInv, RollInv, StageInv, TypeOK, Checking, Deployments, Arrivals,
       Healths, OptRelease, Stages
<1>8. CASE StagePending
  BY <1>8, ReleasesAssumption, NoneAssumption, UsedGrows, FaultCounts
   DEF StagePending, NoStage, SetPending, boot, files, pendings, ReturnInv,
       Returning, Update, RecordInv, Updates, TypeInv, CheckInv, DepInv,
       RollInv, StageInv, TypeOK, Checking, Deployments, Arrivals, Healths,
       OptRelease, Stages
<1>9. CASE RollbackQueue
  <2>1. /\ dep'.booted = dep.booted /\ dep'.rollback = dep.rollback
        /\ dep'.staged \in {None, dep.staged}
    BY <1>9, SwapTurns DEF RollbackQueue, TypeInv, TypeOK
  <2>2. UNCHANGED <<record, restore, result, phase, stage, fate, arrived>>
    BY <1>9 DEF RollbackQueue, files, boot, threads
  <2>3. UNCHANGED health \/ health'.pc \in {"exited", "clearReboot"}
    BY <1>9 DEF RollbackQueue, TypeInv, TypeOK, Healths
  <2>4. Returning' => Returning
    BY <2>1, <2>2, UsedGrows DEF Returning, RecordInv, TypeInv, TypeOK, Arrivals
  <2> QED BY <2>1, <2>2, <2>3, <2>4 DEF ReturnInv
<1>10. CASE HealthStart
  BY <1>10, ReleasesAssumption, NoneAssumption, UsedGrows, FaultCounts
   DEF HealthStart, HealthLeaves, files, history, pendings, boot, threads,
       ReturnInv, Returning, Update, RecordInv, Updates, TypeInv, CheckInv,
       DepInv, RollInv, StageInv, TypeOK, Checking, Deployments, Arrivals,
       Healths, OptRelease, Stages
<1>11. CASE HealthOtherBoot
  BY <1>11, ReleasesAssumption, NoneAssumption, UsedGrows, FaultCounts
   DEF HealthOtherBoot, HealthGoes, HealthLeaves, ThisBoot, files, history,
       pendings, boot, threads, ReturnInv, Returning, Update, RecordInv,
       Updates, TypeInv, CheckInv, DepInv, RollInv, StageInv, TypeOK, Checking,
       Deployments, Arrivals, Healths, OptRelease, Stages
<1>12. CASE HealthOk
  BY <1>12, ReleasesAssumption, NoneAssumption, UsedGrows, FaultCounts
   DEF HealthOk, Becomes, HealthGoes, HealthLeaves, ThisBoot, files, pendings,
       boot, threads, ReturnInv, Returning, Update, RecordInv, Updates,
       TypeInv, CheckInv, DepInv, RollInv, StageInv, TypeOK, Checking,
       Deployments, Arrivals, Healths, OptRelease, Stages
<1>13. CASE AcceptDiscard
  BY <1>13, ReleasesAssumption, NoneAssumption, UsedGrows, FaultCounts
   DEF AcceptDiscard, HealthGoes, HealthLeaves, Store, history, pendings, boot,
       threads, ReturnInv, Returning, Update, RecordInv, Updates, TypeInv,
       CheckInv, DepInv, RollInv, StageInv, TypeOK, Checking, Deployments,
       Arrivals, Healths, OptRelease, Stages
<1>14. CASE AcceptUnrecord
  BY <1>14, ReleasesAssumption, NoneAssumption, UsedGrows, FaultCounts
   DEF AcceptUnrecord, Accepted, HealthGoes, HealthLeaves, Store, pendings,
       boot, threads, ReturnInv, Returning, Update, RecordInv, Updates,
       TypeInv, CheckInv, DepInv, RollInv, StageInv, TypeOK, Checking,
       Deployments, Arrivals, Healths, OptRelease, Stages
<1>15. CASE AcceptOutcome
  BY <1>15, ReleasesAssumption, NoneAssumption, UsedGrows, FaultCounts
   DEF AcceptOutcome, HealthGoes, HealthLeaves, Store, history, pendings, boot,
       threads, ReturnInv, Returning, Update, RecordInv, Updates, TypeInv,
       CheckInv, DepInv, RollInv, StageInv, TypeOK, Checking, Deployments,
       Arrivals, Healths, OptRelease, Stages
<1>16. CASE HealthDeadline
  BY <1>16, ReleasesAssumption, NoneAssumption, UsedGrows, FaultCounts
   DEF HealthDeadline, Checking, HealthGoes, HealthLeaves, ShouldAutoRollback,
       Store, ThisBoot, history, pendings, boot, threads, ReturnInv, Returning,
       Update, RecordInv, Updates, TypeInv, CheckInv, DepInv, RollInv,
       StageInv, TypeOK, Deployments, Arrivals, Healths, OptRelease, Stages
<1>17. CASE HealthBlind
  BY <1>17, ReleasesAssumption, NoneAssumption, UsedGrows, FaultCounts
   DEF HealthBlind, Checking, HealthGoes, HealthLeaves, files, history,
       pendings, boot, threads, ReturnInv, Returning, Update, RecordInv,
       Updates, TypeInv, CheckInv, DepInv, RollInv, StageInv, TypeOK,
       Deployments, Arrivals, Healths, OptRelease, Stages
<1>18. CASE HealthRollback
  <2>1. /\ dep'.booted = dep.booted /\ dep'.rollback = dep.rollback
        /\ dep'.staged \in {None, dep.staged}
    BY <1>18, SwapTurns DEF HealthRollback, TypeInv, TypeOK
  <2>2. UNCHANGED <<record, restore, result, phase, stage, fate, arrived>>
    BY <1>18 DEF HealthRollback, HealthLeaves, files, boot, threads
  <2>3. UNCHANGED health \/ health'.pc \in {"exited", "clearReboot"}
    BY <1>18 DEF HealthRollback, HealthGoes, TypeInv, TypeOK, Healths
  <2>4. Returning' => Returning
    BY <2>1, <2>2, UsedGrows DEF Returning, RecordInv, TypeInv, TypeOK, Arrivals
  <2> QED BY <2>1, <2>2, <2>3, <2>4 DEF ReturnInv
<1>19. CASE HealthClear
  BY <1>19, ReleasesAssumption, NoneAssumption, UsedGrows, FaultCounts
   DEF HealthClear, ClearPending, HealthGoes, HealthLeaves, files, SetPending,
       pendings, boot, threads, ReturnInv, Returning, Update, RecordInv,
       Updates, TypeInv, CheckInv, DepInv, RollInv, StageInv, TypeOK, Checking,
       Deployments, Arrivals, Healths, OptRelease, Stages
<1>20. CASE HealthReboot
  BY <1>20, ReleasesAssumption, NoneAssumption, UsedGrows, FaultCounts
   DEF HealthReboot, HealthGoes, HealthLeaves, files, history, pendings,
       request_reboot, boot, threads, ReturnInv, Returning, Update, RecordInv,
       Updates, TypeInv, CheckInv, DepInv, RollInv, StageInv, TypeOK, Checking,
       Deployments, Arrivals, Healths, OptRelease, Stages
<1>21. CASE RestoreCheck
  BY <1>21, ReleasesAssumption, NoneAssumption, UsedGrows, FaultCounts
   DEF RestoreCheck, CheckLeaves, ManualTookEffect, ReturnedFromUpdate, Store,
       history, pendings, threads, Matches, ReturnInv, Returning, Update,
       RecordInv, Updates, TypeInv, CheckInv, DepInv, RollInv, StageInv,
       TypeOK, Checking, Deployments, Arrivals, Healths, OptRelease, Stages
<1>22. CASE CheckUnmanual
  <2>1. CASE ~Returning'
    BY <2>1 DEF ReturnInv
  <2>2. CASE Returning'
    <3>1. Returning /\ used'["fault"] = used["fault"]
      BY <1>22, <2>2, UsedGrows DEF CheckUnmanual, CheckLeaves, history,
                                    Returning, RecordInv,
         TypeInv, TypeOK, Arrivals
    <3>2. /\ phase' = IF ReturnedFromUpdate THEN "mark" ELSE "netd"
          /\ UNCHANGED <<dep, record, restore, stage, health>>
      BY <1>22, <3>1, TryWorks DEF CheckUnmanual, Store, CheckLeaves, threads
    <3>3. record # None => ReturnedFromUpdate
      BY <3>1, ReleasesAssumption DEF ReturnInv, Returning, RecordInv,
                                      ReturnedFromUpdate,
         Matches, Update, TypeInv, TypeOK, Deployments
    <3>4. restore = dep.rollback \/ record # None
      BY <3>1 DEF ReturnInv
    <3> QED BY <3>1, <3>2, <3>3, <3>4 DEF ReturnInv, Update
  <2> QED BY <2>1, <2>2
<1>23. CASE CheckMark
  <2>1. CASE ~Returning'
    BY <2>1 DEF ReturnInv
  <2>2. CASE Returning'
    <3>1. Returning /\ used'["fault"] = used["fault"]
      BY <1>23, <2>2, UsedGrows
         DEF CheckMark, CheckLeaves, threads, history, Returning, RecordInv,
             TypeInv, TypeOK, Arrivals
    <3>2. restore' = record.update /\ phase' = "unrecord"
      BY <1>23, <3>1, TryWorks DEF CheckMark, Store
    <3> QED BY <1>23, <3>1, <3>2, NoneAssumption
            DEF CheckMark, CheckLeaves, threads, pendings, history, ReturnInv,
                ReturnedFromUpdate, Matches,
                TypeInv, CheckInv
  <2> QED BY <2>1, <2>2
<1>24. CASE CheckUnrecord
  BY <1>24, ReleasesAssumption, NoneAssumption, UsedGrows, FaultCounts
   DEF CheckUnrecord, CheckLeaves, Store, history, pendings, threads,
       ReturnInv, Returning, Update, RecordInv, Updates, TypeInv, CheckInv,
       DepInv, RollInv, StageInv, TypeOK, Checking, Deployments, Arrivals,
       Healths, OptRelease, Stages
<1>25. CASE NetdStart
  BY <1>25, ReleasesAssumption, NoneAssumption, UsedGrows, FaultCounts
   DEF NetdStart, NetdLeaves, history, pendings, threads, ReturnInv, Returning,
       Update, RecordInv, Updates, TypeInv, CheckInv, DepInv, RollInv,
       StageInv, TypeOK, Checking, Deployments, Arrivals, Healths, OptRelease,
       Stages
<1>26. CASE NetdRestore
  BY <1>26, ReleasesAssumption, NoneAssumption, UsedGrows, FaultCounts
   DEF NetdRestore, NetdLeaves, pendings, threads, ReturnInv, Returning,
       Update, RecordInv, Updates, TypeInv, CheckInv, DepInv, RollInv,
       StageInv, TypeOK, Checking, Deployments, Arrivals, Healths, OptRelease,
       Stages
<1>27. CASE NetdUnpreserve
  BY <1>27, ReleasesAssumption, NoneAssumption, UsedGrows, FaultCounts
   DEF NetdUnpreserve, NetdLeaves, Store, history, pendings, threads,
       ReturnInv, Returning, Update, RecordInv, Updates, TypeInv, CheckInv,
       DepInv, RollInv, StageInv, TypeOK, Checking, Deployments, Arrivals,
       Healths, OptRelease, Stages
<1>28. CASE NetdReport
  <2>1. CASE ~Returning'
    BY <2>1 DEF ReturnInv
  <2>2. CASE Returning'
    <3>1. Returning /\ used'["fault"] = used["fault"]
      BY <1>28, <2>2, UsedGrows
         DEF NetdReport, NetdLeaves, threads, history, Returning, RecordInv,
             TypeInv, TypeOK, Arrivals
    <3>2. fate' = IF result = "failed" THEN [fate EXCEPT ![restore] = "reported"] ELSE fate
      BY <1>28, <3>1, TryWorks DEF NetdReport, Store
    <3> QED BY <1>28, <3>1, <3>2, NoneAssumption
            DEF NetdReport, NetdLeaves, threads, pendings, ReturnInv,
                Returning, RecordInv, TypeInv, TypeOK,
                Deployments, OptRelease
  <2> QED BY <2>1, <2>2
<1>29. CASE NetdUnmark
  BY <1>29, ReleasesAssumption, NoneAssumption, UsedGrows, FaultCounts
   DEF NetdUnmark, NetdLeaves, Store, history, pendings, threads, ReturnInv,
       Returning, Update, RecordInv, Updates, TypeInv, CheckInv, DepInv,
       RollInv, StageInv, TypeOK, Checking, Deployments, Arrivals, Healths,
       OptRelease, Stages
<1>30. CASE ControllerEnds
  BY <1>30, ReleasesAssumption, NoneAssumption, UsedGrows, FaultCounts
   DEF ControllerEnds, NoRoll, NoStage, boot, files, history, pendings,
       ReturnInv, Returning, Update, RecordInv, Updates, TypeInv, CheckInv,
       DepInv, RollInv, StageInv, TypeOK, Checking, Deployments, Arrivals,
       Healths, OptRelease, Stages
<1>31. CASE HealthEnds
  BY <1>31, ReleasesAssumption, NoneAssumption, UsedGrows, FaultCounts
   DEF HealthEnds, HealthGoes, HealthLeaves, files, history, pendings, boot,
       threads, ReturnInv, Returning, Update, RecordInv, Updates, TypeInv,
       CheckInv, DepInv, RollInv, StageInv, TypeOK, Checking, Deployments,
       Arrivals, Healths, OptRelease, Stages
<1>32. CASE NetdEnds
  BY <1>32, ReleasesAssumption, NoneAssumption, UsedGrows, FaultCounts
   DEF NetdEnds, NetdLeaves, history, pendings, threads, ReturnInv, Returning,
       Update, RecordInv, Updates, TypeInv, CheckInv, DepInv, RollInv,
       StageInv, TypeOK, Checking, Deployments, Arrivals, Healths, OptRelease,
       Stages
<1>33. CASE Reboot
  <2>1. Boots(TRUE)
    BY <1>33 DEF Reboot
  <2> QED BY <2>1, BootsReturn
<1>34. CASE PowerLoss
  <2>1. Boots(FALSE)
    BY <1>34 DEF PowerLoss
  <2> QED BY <2>1, BootsReturn
<1> QED BY <1>1, <1>2, <1>3, <1>4, <1>5, <1>6, <1>7, <1>8, <1>9, <1>10, <1>11,
           <1>12, <1>13, <1>14, <1>15, <1>16, <1>17, <1>18, <1>19, <1>20,
           <1>21, <1>22, <1>23, <1>24, <1>25, <1>26, <1>27, <1>28, <1>29,
           <1>30, <1>31, <1>32, <1>33, <1>34, DepMoves, RecordMoves,
           RestoreMoves, ResultMoves, PhaseMoves, StageMoves, HealthMoves,
           FateMoves, ArrivedMoves

LEMMA ReturnInvAlways == Spec => [](TypeInv /\ RecordInv /\ ReturnInv)
<1>1. Init => RecordInv /\ ReturnInv
  BY ReleasesAssumption DEF Init, RecordInv, ReturnInv, Returning, NoStage, Events
<1>2. /\ TypeInv /\ RecordInv /\ [Next]_vars => RecordInv'
      /\ TypeInv /\ RecordInv /\ ReturnInv /\ [Next]_vars => ReturnInv'
  BY RecordInvStep, ReturnInvStep
<1> QED BY <1>1, <1>2, TypeInvAlways, PTL DEF Spec

(* RejectedRestored: a boot that comes back from a rejected update is only  *)
(* up once the pre-update network is restored or its failure reported.      *)
THEOREM WayBackRestores == Spec => []RejectedRestored
<1>1. TypeInv /\ ReturnInv => RejectedRestored
  BY DEF RejectedRestored, LeftUnrestored, ReturnInv, Returning, TypeInv, DepInv
<1> QED BY <1>1, ReturnInvAlways, PTL

(***************************************************************************)
(* What health judges.  PENDING comes to name the booted Release only by a *)
(* boot, that of the update it was written for or of a rollback that had   *)
(* not removed it: one queued by hand to the Release PENDING names goes on *)
(* to remove it.  It does not matter which Releases share a reference.     *)
(***************************************************************************)
Judged == arrived.by \in Updates \/ arrived.owed
JudgeInv ==
  used["crash"] = 0 =>
    /\ PendingIsThisBoot(pending, dep.booted) => Judged
    /\ health.pc \notin {"start", "exited"} /\ ThisBoot => Judged
    /\ roll.pc \notin {"none", "check"} /\ roll.pending =>
         pending = None \/ PendingIsThisBoot(pending, dep.booted)
    /\ roll.pc \in {"record", "queue"} =>
         roll.kind = IF roll.pending THEN "UnacceptedUpdate" ELSE "Image"
    /\ dep.queued /\ PendingIsThisBoot(pending, dep.rollback) => owed
    /\ ctl = "down" => dep.staged = None

LEMMA JudgeInvStep ==
  ASSUME JudgeInv, TypeInv, [Next]_vars
  PROVE  JudgeInv'
<1>1. CASE UNCHANGED <<dep, pending, ctl, roll, health, arrived, owed>>
  BY <1>1, UsedGrows DEF JudgeInv, Judged, PendingIsThisBoot, ThisBoot, Updates
<1>2. CASE ControllerStart
  BY <1>2, ReleasesAssumption, UsedGrows, CrashCounts
   DEF ControllerStart, Checking, RecordStagedForHealth, boot, files, history,
       SetPending, pendings, JudgeInv, Judged, PendingIsThisBoot, ThisBoot,
       Updates, TypeInv, CheckInv, DepInv, RollInv, StageInv, TypeOK,
       Deployments, Arrivals, Healths, OptRelease, Rolls, Stages
<1>3. CASE StageSwitch
  BY <1>3, ReleasesAssumption, UsedGrows, CrashCounts
   DEF StageSwitch, StageGoes, Switched, boot, files, pendings, NoStage,
       JudgeInv, Judged, PendingIsThisBoot, ThisBoot, Updates, TypeInv,
       CheckInv, DepInv, RollInv, StageInv, TypeOK, Deployments, Arrivals,
       Healths, OptRelease, Rolls, Stages
<1>4. CASE StagePending
  BY <1>4, ReleasesAssumption, UsedGrows, CrashCounts
   DEF StagePending, NoStage, SetPending, boot, files, pendings, JudgeInv,
       Judged, PendingIsThisBoot, ThisBoot, Updates, TypeInv, CheckInv, DepInv,
       RollInv, StageInv, TypeOK, Deployments, Arrivals, Healths, OptRelease,
       Rolls, Stages
<1>5. CASE RollbackRequest
  BY <1>5, ReleasesAssumption, UsedGrows, CrashCounts
   DEF RollbackRequest, NoRoll, boot, files, history, pendings, JudgeInv,
       Judged, PendingIsThisBoot, ThisBoot, Updates, TypeInv, CheckInv, DepInv,
       RollInv, StageInv, TypeOK, Deployments, Arrivals, Healths, OptRelease,
       Rolls, Stages
<1>6. CASE RollbackCheck
  <2>1. UNCHANGED <<dep, pending, health, arrived, owed, ctl>> /\ roll.pc = "check"
    BY <1>6 DEF RollbackCheck, pendings, history
  <2>2. CASE roll' = NoRoll
    BY <2>1, <2>2, UsedGrows DEF NoRoll, JudgeInv, Judged, ThisBoot, PendingIsThisBoot
  <2>3. CASE roll' = [pc |-> "decide", before |-> dep, kind |-> None,
                      pending |-> PendingIsThisBoot(pending, dep.booted)]
    <3>1. roll'.pc = "decide" /\ roll'.pending = PendingIsThisBoot(pending, dep.booted)
      BY <2>3
    <3>2. ThisBoot' = ThisBoot
      BY <2>1 DEF ThisBoot
    <3> QED BY <2>1, <3>1, <3>2, UsedGrows DEF JudgeInv, Judged
  <2> QED BY <1>6, <2>2, <2>3 DEF RollbackCheck
<1>7. CASE RollbackDecide
  BY <1>7, ReleasesAssumption, UsedGrows, CrashCounts
   DEF RollbackDecide, ManualRollback, NoRoll, boot, files, history, pendings,
       JudgeInv, Judged, PendingIsThisBoot, ThisBoot, Updates, TypeInv,
       CheckInv, DepInv, RollInv, StageInv, TypeOK, Deployments, Arrivals,
       Healths, OptRelease, Rolls, Stages
<1>8. CASE RollbackRecord
  BY <1>8, ReleasesAssumption, UsedGrows, CrashCounts
   DEF RollbackRecord, NoRoll, Store, boot, history, pendings, JudgeInv,
       Judged, PendingIsThisBoot, ThisBoot, Updates, TypeInv, CheckInv, DepInv,
       RollInv, StageInv, TypeOK, Deployments, Arrivals, Healths, OptRelease,
       Rolls, Stages
<1>9. CASE RollbackQueue
  <2>1. /\ UNCHANGED <<pending, health, arrived, ctl>> /\ roll.pc \in {"queue", "cancel"}
        /\ dep'.booted = dep.booted /\ dep'.rollback = dep.rollback
        /\ dep'.staged \in {None, dep.staged}
    BY <1>9, SwapTurns DEF RollbackQueue, pendings, TypeInv, TypeOK
  <2>2. ThisBoot' = ThisBoot
    BY <2>1 DEF ThisBoot
  <2>3. CASE /\ Swap /\ owed' = (dep'.queued /\ (roll.kind = "Image" \/ roll.pc = "cancel"))
             /\ roll' = [roll EXCEPT !.pc = IF @ = "queue" THEN "clear" ELSE "forget"]
    <3>1. roll'.pending = roll.pending /\ roll'.pc \in {"clear", "forget"}
      BY <2>3 DEF TypeInv, TypeOK, Rolls
    <3>2. dep.rollback # None /\ Name[dep.rollback] # Name[dep.booted]
      BY <2>3, SwapTurns DEF TypeInv, TypeOK, DepInv
    <3>3. ASSUME used["crash"] = 0, dep'.queued, PendingIsThisBoot(pending, dep.rollback)
          PROVE  owed'
      <4>1. CASE roll.pc = "cancel"
        BY <2>3, <3>3, <4>1
      <4>2. CASE roll.pc = "queue"
        <5>1. ~PendingIsThisBoot(pending, dep.booted) /\ pending # None
          BY <3>2, <3>3 DEF PendingIsThisBoot
        <5>2. roll.kind = "Image"
          BY <3>3, <4>2, <5>1 DEF JudgeInv
        <5> QED BY <2>3, <3>3, <5>2
      <4> QED BY <2>1, <4>1, <4>2
    <3> QED BY <2>1, <2>2, <3>1, <3>3, UsedGrows DEF JudgeInv, Judged
  <2>4. CASE /\ dep' = dep /\ owed' = owed
             /\ roll' = IF roll.pc = "queue" THEN [roll EXCEPT !.pc = "forget"] ELSE NoRoll
    <3>1. roll'.pc \in {"none", "forget"} /\ (roll'.pc = "forget" => roll'.pending = roll.pending)
      BY <2>4 DEF NoRoll, TypeInv, TypeOK, Rolls
    <3> QED BY <2>1, <2>2, <2>4, <3>1, UsedGrows DEF JudgeInv, Judged
  <2> QED BY <1>9, <2>3, <2>4 DEF RollbackQueue
<1>10. CASE RollbackForget
  BY <1>10, ReleasesAssumption, UsedGrows, CrashCounts
   DEF RollbackForget, NoRoll, Store, boot, history, pendings, JudgeInv,
       Judged, PendingIsThisBoot, ThisBoot, Updates, TypeInv, CheckInv, DepInv,
       RollInv, StageInv, TypeOK, Deployments, Arrivals, Healths, OptRelease,
       Rolls, Stages
<1>11. CASE RollbackClear
  BY <1>11, ReleasesAssumption, UsedGrows, CrashCounts
   DEF RollbackClear, ClearPending, NoRoll, boot, files, pendings, SetPending,
       JudgeInv, Judged, PendingIsThisBoot, ThisBoot, Updates, TypeInv,
       CheckInv, DepInv, RollInv, StageInv, TypeOK, Deployments, Arrivals,
       Healths, OptRelease, Rolls, Stages
<1>12. CASE HealthStart
  BY <1>12, ReleasesAssumption, UsedGrows, CrashCounts
   DEF HealthStart, HealthLeaves, files, history, pendings, boot, threads,
       JudgeInv, Judged, PendingIsThisBoot, ThisBoot, Updates, TypeInv,
       CheckInv, DepInv, RollInv, StageInv, TypeOK, Deployments, Arrivals,
       Healths, OptRelease, Rolls, Stages
<1>13. CASE HealthOtherBoot
  BY <1>13, ReleasesAssumption, UsedGrows, CrashCounts
   DEF HealthOtherBoot, HealthGoes, HealthLeaves, ThisBoot, files, history,
       pendings, boot, threads, PendingIsThisBoot, JudgeInv, Judged, Updates,
       TypeInv, CheckInv, DepInv, RollInv, StageInv, TypeOK, Deployments,
       Arrivals, Healths, OptRelease, Rolls, Stages
<1>14. CASE HealthOk
  BY <1>14, ReleasesAssumption, UsedGrows, CrashCounts
   DEF HealthOk, Becomes, HealthGoes, HealthLeaves, ThisBoot, files, pendings,
       boot, threads, PendingIsThisBoot, JudgeInv, Judged, Updates, TypeInv,
       CheckInv, DepInv, RollInv, StageInv, TypeOK, Deployments, Arrivals,
       Healths, OptRelease, Rolls, Stages
<1>15. CASE AcceptDiscard
  BY <1>15, ReleasesAssumption, UsedGrows, CrashCounts
   DEF AcceptDiscard, HealthGoes, HealthLeaves, Store, history, pendings, boot,
       threads, JudgeInv, Judged, PendingIsThisBoot, ThisBoot, Updates,
       TypeInv, CheckInv, DepInv, RollInv, StageInv, TypeOK, Deployments,
       Arrivals, Healths, OptRelease, Rolls, Stages
<1>16. CASE AcceptUnrecord
  BY <1>16, ReleasesAssumption, UsedGrows, CrashCounts
   DEF AcceptUnrecord, Accepted, HealthGoes, HealthLeaves, Store, pendings,
       boot, threads, JudgeInv, Judged, PendingIsThisBoot, ThisBoot, Updates,
       TypeInv, CheckInv, DepInv, RollInv, StageInv, TypeOK, Deployments,
       Arrivals, Healths, OptRelease, Rolls, Stages
<1>17. CASE AcceptOutcome
  BY <1>17, ReleasesAssumption, UsedGrows, CrashCounts
   DEF AcceptOutcome, HealthGoes, HealthLeaves, Store, history, pendings, boot,
       threads, JudgeInv, Judged, PendingIsThisBoot, ThisBoot, Updates,
       TypeInv, CheckInv, DepInv, RollInv, StageInv, TypeOK, Deployments,
       Arrivals, Healths, OptRelease, Rolls, Stages
<1>18. CASE HealthDeadline
  BY <1>18, ReleasesAssumption, UsedGrows, CrashCounts
   DEF HealthDeadline, Checking, HealthGoes, HealthLeaves, ShouldAutoRollback,
       Store, ThisBoot, history, pendings, boot, threads, PendingIsThisBoot,
       JudgeInv, Judged, Updates, TypeInv, CheckInv, DepInv, RollInv, StageInv,
       TypeOK, Deployments, Arrivals, Healths, OptRelease, Rolls, Stages
<1>19. CASE HealthBlind
  BY <1>19, ReleasesAssumption, UsedGrows, CrashCounts
   DEF HealthBlind, Checking, HealthGoes, HealthLeaves, files, history,
       pendings, boot, threads, JudgeInv, Judged, PendingIsThisBoot, ThisBoot,
       Updates, TypeInv, CheckInv, DepInv, RollInv, StageInv, TypeOK,
       Deployments, Arrivals, Healths, OptRelease, Rolls, Stages
<1>20. CASE HealthRollback
  <2>1. /\ UNCHANGED <<pending, roll, arrived, ctl>> /\ health.pc = "rollback"
        /\ dep'.booted = dep.booted /\ dep'.rollback = dep.rollback
        /\ dep'.staged \in {None, dep.staged}
    BY <1>20, SwapTurns DEF HealthRollback, HealthLeaves, pendings, threads,
                            TypeInv, TypeOK
  <2>2. health'.pending = health.pending
    BY <1>20 DEF HealthRollback, HealthGoes, TypeInv, TypeOK, Healths
  <2>3. ThisBoot' = ThisBoot
    BY <2>1, <2>2 DEF ThisBoot
  <2>4. dep'.queued => owed' \/ (dep.queued /\ owed' = owed)
    BY <1>20 DEF HealthRollback
  <2> QED BY <2>1, <2>3, <2>4, UsedGrows DEF JudgeInv, Judged
<1>21. CASE HealthClear
  BY <1>21, ReleasesAssumption, UsedGrows, CrashCounts
   DEF HealthClear, ClearPending, HealthGoes, HealthLeaves, files, SetPending,
       pendings, boot, threads, JudgeInv, Judged, PendingIsThisBoot, ThisBoot,
       Updates, TypeInv, CheckInv, DepInv, RollInv, StageInv, TypeOK,
       Deployments, Arrivals, Healths, OptRelease, Rolls, Stages
<1>22. CASE HealthReboot
  BY <1>22, ReleasesAssumption, UsedGrows, CrashCounts
   DEF HealthReboot, HealthGoes, HealthLeaves, files, history, pendings,
       request_reboot, boot, threads, JudgeInv, Judged, PendingIsThisBoot,
       ThisBoot, Updates, TypeInv, CheckInv, DepInv, RollInv, StageInv, TypeOK,
       Deployments, Arrivals, Healths, OptRelease, Rolls, Stages
<1>23. CASE ControllerEnds
  BY <1>23, ReleasesAssumption, UsedGrows, CrashCounts
   DEF ControllerEnds, NoRoll, NoStage, boot, files, history, pendings,
       JudgeInv, Judged, PendingIsThisBoot, ThisBoot, Updates, TypeInv,
       CheckInv, DepInv, RollInv, StageInv, TypeOK, Deployments, Arrivals,
       Healths, OptRelease, Rolls, Stages
<1>24. CASE HealthEnds
  BY <1>24, ReleasesAssumption, UsedGrows, CrashCounts
   DEF HealthEnds, HealthGoes, HealthLeaves, files, history, pendings, boot,
       threads, JudgeInv, Judged, PendingIsThisBoot, ThisBoot, Updates,
       TypeInv, CheckInv, DepInv, RollInv, StageInv, TypeOK, Deployments,
       Arrivals, Healths, OptRelease, Rolls, Stages
<1>25. CASE Reboot
  BY <1>25, ReleasesAssumption, UsedGrows, CrashCounts
   DEF Reboot, Boots, NextBoot, NoHealth, NoRoll, NoStage, Updates, files,
       JudgeInv, Judged, PendingIsThisBoot, ThisBoot, TypeInv, CheckInv,
       DepInv, RollInv, StageInv, TypeOK, Deployments, Arrivals, Healths,
       OptRelease, Rolls, Stages
<1>26. CASE PowerLoss
  BY <1>26, ReleasesAssumption, UsedGrows, CrashCounts
   DEF PowerLoss, Boots, NextBoot, NoHealth, NoRoll, NoStage, Updates, files,
       JudgeInv, Judged, PendingIsThisBoot, ThisBoot, TypeInv, CheckInv,
       DepInv, RollInv, StageInv, TypeOK, Deployments, Arrivals, Healths,
       OptRelease, Rolls, Stages
<1> QED BY <1>1, <1>2, <1>3, <1>4, <1>5, <1>6, <1>7, <1>8, <1>9, <1>10, <1>11,
           <1>12, <1>13, <1>14, <1>15, <1>16, <1>17, <1>18, <1>19, <1>20,
           <1>21, <1>22, <1>23, <1>24, <1>25, <1>26, DepMoves, PendingMoves,
           CtlMoves, RollMoves, HealthMoves, ArrivedMoves, OwedMoves

LEMMA JudgeInvAlways == Spec => [](TypeInv /\ JudgeInv)
<1>1. Init => JudgeInv
  BY ReleasesAssumption DEF Init, JudgeInv, NoRoll, NoHealth, PendingIsThisBoot
<1>2. TypeInv /\ JudgeInv /\ [Next]_vars => JudgeInv'
  BY JudgeInvStep
<1> QED BY <1>1, <1>2, TypeInvAlways, PTL DEF Spec

(* JudgesOnlyUpdates: without crashes run_health rolls back only a Release  *)
(* that was booted as an update, or reached by a rollback that had not      *)
(* removed PENDING, even if Releases share a reference.                     *)
THEOREM JudgesUpdates == Spec => JudgesOnlyUpdates
<1>1. ASSUME TypeInv, JudgeInv, [Next]_vars,
             health.pc = "checking", health'.pc = "rollback", used["crash"] = 0
      PROVE  arrived.by \in Updates \/ arrived.owed
  <2>1. ThisBoot
    <3>1. HealthDeadline
      <4>1. CASE HealthStart
        BY <1>1, <4>1 DEF HealthStart
      <4>2. CASE Reboot \/ PowerLoss
        <5>1. health' = NoHealth
          BY <4>2 DEF Reboot, PowerLoss, Boots
        <5> QED BY <1>1, <5>1 DEF NoHealth
      <4>3. ASSUME NEW l \in {"exited", "discard", "unrecord", "outcome", "clear"}, HealthGoes(l)
            PROVE  FALSE
        BY <1>1, <4>3 DEF HealthGoes, TypeInv, TypeOK, Healths
      <4>4. CASE HealthOtherBoot \/ HealthOk \/ HealthBlind \/ HealthEnds
        BY <4>3, <4>4 DEF HealthOtherBoot, HealthOk, HealthBlind, HealthEnds
      <4> QED BY <1>1, <4>1, <4>2, <4>4, HealthMoves
              DEF AcceptDiscard, AcceptUnrecord, AcceptOutcome, HealthRollback,
                  HealthClear,
                  HealthReboot
    <3> QED BY <3>1 DEF HealthDeadline
  <2> QED BY <1>1, <2>1 DEF JudgeInv, Judged
<1> QED BY <1>1, JudgeInvAlways, PTL DEF Spec, JudgesOnlyUpdates

=============================================================================
