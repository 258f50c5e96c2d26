-------------------------- MODULE NetdApplyProofs ---------------------------
(***************************************************************************)
(* Type correctness of NetdApply, and what its apply transaction says of   *)
(* the live network: what it forwards for, when forwarding reopens, what a *)
(* confirmation confirms and what the LAN services run for, for any        *)
(* networks, proposals, revision limit and bounds.  No assumption on the   *)
(* proposals is needed.                                                    *)
(***************************************************************************)
EXTENDS NetdApply, TLAPS

-----------------------------------------------------------------------------
(* Types.  TypeOK is not inductive by itself: a journal is written with    *)
(* the actor of a known attribution, an id must be left for a confirmation *)
(* that is still to be opened, a pending journal must hold its proposal,   *)
(* and recovery must find the journal it works from.                       *)

A == op.before
B == op.after

ApplyLabels == {"retain", "suspend", "unsuspend", "forget", "program", "publish", "wait",
                "pend", "desired", "prev", "attr", "commit"}
ConfirmLabels == {"confirmAttr", "confirmDesired", "confirmPrev", "confirmCommit"}
RestoreLabels == {"quiesce", "reprogram", "redesired", "reprev", "reattr", "republish",
                  "rewait", "finish"}
StartLabels == {"startPersist", "startReady", "startClean"}

AttrKnown == pc \in ApplyLabels \cup ConfirmLabels => B.attr # None
IdLeft ==
  /\ pc \in {"retain", "suspend", "program", "publish", "wait"} /\ NeedsConfirmation => ids < MaxIds
  /\ pc = "pend" => ids < MaxIds
PendingComplete ==
  /\ PendingOperation(vis["journal"]) => vis["journal"].proposed # None
  /\ \A j \in surv["journal"] : PendingOperation(j) => j.proposed # None
TargetKnown == mode = "recover" /\ pc \in RestoreLabels => vis["journal"] # None

TypeInv == TypeOK /\ AttrKnown /\ IdLeft /\ PendingComplete /\ TargetKnown

FilesOK ==
  /\ DOMAIN vis = Files /\ \A f \in Files : vis[f] \in FileContents[f]
  /\ DOMAIN surv = Files /\ \A f \in Files : surv[f] \subseteq FileContents[f]

USE DEF A, B

(* Whatever a durable call returns, every file keeps its type, and only    *)
(* the file it names can have a new content.                               *)
LEMMA DurableFiles ==
  ASSUME FilesOK, NEW f \in Files, NEW c \in FileContents[f], NEW ok \in BOOLEAN,
         Durable(f, c, ok), faults \in 0..MaxFaults
  PROVE  /\ FilesOK' /\ faults' \in 0..MaxFaults
         /\ \A g \in Files : g # f => vis'[g] = vis[g]
         /\ \A g \in Files : g # f => surv'[g] \subseteq surv[g] \cup {vis[g]}
         /\ vis'[f] \in {vis[f], c}
         /\ surv'[f] \subseteq surv[f] \cup {vis[f], c}
         /\ ok => vis'[f] = c
BY BoundsAssumption DEF Durable, FilesOK, Fault

LEMMA AcceptedDesiredType ==
  ASSUME NEW d \in State
  PROVE  AcceptedDesired(d) \in State /\ AcceptedDesired(d).rev # 0
BY BoundsAssumption DEF AcceptedDesired, State

(* apply() only fills in addresses it finds live. *)
LEMMA CapturedType ==
  ASSUME TypeOK, NEW s \in State
  PROVE  Captured(s) \in State /\ Captured(s).net = s.net /\ Captured(s).rev = s.rev
BY DEF TypeOK, Captured, State

LEMMA JournalType ==
  ASSUME TypeOK, B.attr # None, NEW phase \in Phases, NEW proposed \in Opt(State),
         NEW id \in Opt(1..MaxIds)
  PROVE  Journal(phase, proposed, id) \in ApplyOperation
BY DEF TypeOK, Op, Triple, Opt, Attribution, ApplyOperation, Journal

LEMMA RetainedType ==
  ASSUME NEW j \in ApplyOperation
  PROVE  Retained(j) \in Triple
BY DEF ApplyOperation, Retained, Triple

NetworkOK ==
  /\ live \in [net: Networks, addrs: SUBSET Addrs]
  /\ policy \in [kind: {"boot", "open", "guarded", "drop"}, net: Networks]
  /\ faults \in 0..MaxFaults

(* Programming the network, done or stopped on the way, keeps the types of *)
(* the live network and the ruleset.                                       *)
LEMMA NetworkType ==
  ASSUME NetworkOK, recoveryRequired \in BOOLEAN, NEW s \in State, NEW undo \in SUBSET Addrs,
         NEW ok \in BOOLEAN,
         ApplyNetwork(s, ok) \/ ReplaceNetwork(s, undo, ok)
  PROVE  NetworkOK'
<1>1. /\ Rules(s) \in [kind: {"boot", "open", "guarded", "drop"}, net: Networks]
      /\ s.net \in Networks /\ Mixed \in Networks /\ s.addrs \in SUBSET Addrs
  BY DEF Rules, State, Networks
<1>2. ASSUME NEW u \in SUBSET Addrs, PartlyProgrammed(s, u)
      PROVE  live' \in [net: Networks, addrs: SUBSET Addrs]
  BY <1>1, <1>2 DEF PartlyProgrammed, NetworkOK
<1>3. CASE ApplyNetwork(s, ok)
  BY <1>1, <1>2, <1>3, BoundsAssumption DEF ApplyNetwork, NetworkOK, Fault
<1>4. CASE ReplaceNetwork(s, undo, ok)
  BY <1>1, <1>2, <1>4, BoundsAssumption DEF ReplaceNetwork, NetworkOK, Fault
<1> QED BY <1>3, <1>4

LEMMA GuardType ==
  ASSUME NetworkOK, vis["journal"] \in Opt(ApplyOperation), NEW ok \in BOOLEAN,
         RequireRecoveryGuard(ok)
  PROVE  /\ policy' \in [kind: {"boot", "open", "guarded", "drop"}, net: Networks]
         /\ faults' \in 0..MaxFaults
<1>1. InFlight(vis["journal"]) => vis["journal"].accepted.net \in Networks
  BY DEF InFlight, Opt, ApplyOperation, State, Networks
<1>2. Off \in Networks
  BY DEF Networks
<1> QED BY <1>1, <1>2, BoundsAssumption DEF RequireRecoveryGuard, NetworkOK, Fault

LEMMA FileTypes ==
  /\ Files = {"desired", "journal", "prev", "attr", "ready"}
  /\ FileContents["desired"] = State /\ FileContents["journal"] = Opt(ApplyOperation)
  /\ FileContents["prev"] = Opt(State) /\ FileContents["attr"] = Opt(Attribution)
  /\ FileContents["ready"] = Opt(Gens)
BY DEF Files, FileContents

LEMMA FilesKnown ==
  /\ "desired" \in Files /\ "journal" \in Files /\ "prev" \in Files
  /\ "attr" \in Files /\ "ready" \in Files
BY DEF Files

(* A durable call on another file than the journal leaves the journals.    *)
LEMMA OtherFile ==
  ASSUME FilesOK, NEW f \in Files \ {"journal"}, NEW c \in FileContents[f],
         NEW ok \in BOOLEAN, Durable(f, c, ok), faults \in 0..MaxFaults
  PROVE  /\ FilesOK' /\ faults' \in 0..MaxFaults
         /\ vis'["journal"] = vis["journal"]
         /\ PendingComplete => PendingComplete'
<1>1. "journal" \in Files
  BY FileTypes
<1>2. surv'["journal"] \subseteq surv["journal"] \cup {vis["journal"]}
  BY <1>1, DurableFiles
<1> QED BY <1>1, <1>2, DurableFiles DEF PendingComplete

LEMMA ReadyType ==
  ASSUME FilesOK, faults \in 0..MaxFaults, NEW ok \in BOOLEAN,
         Publish(ok) \/ SetLanServicesReady(None, ok)
  PROVE  /\ FilesOK' /\ faults' \in 0..MaxFaults
         /\ vis'["journal"] = vis["journal"]
         /\ PendingComplete => PendingComplete'
<1>1. PICK c \in Opt(Gens), d \in BOOLEAN : Durable("ready", c, d)
  BY DEF Publish, SetLanServicesReady, FreshGen, Opt
<1> QED BY <1>1, OtherFile, FileTypes

(* A durable call on the journal. *)
LEMMA JournalWrite ==
  ASSUME FilesOK, PendingComplete, faults \in 0..MaxFaults, NEW ok \in BOOLEAN,
         NEW c \in Opt(ApplyOperation), PendingOperation(c) => c.proposed # None,
         Durable("journal", c, ok)
  PROVE  FilesOK' /\ faults' \in 0..MaxFaults /\ PendingComplete'
<1>1. FilesOK' /\ faults' \in 0..MaxFaults
  BY DurableFiles, FileTypes
<1>2. vis'["journal"] \in {vis["journal"], c}
  BY DurableFiles, FileTypes
<1>3. surv'["journal"] \subseteq surv["journal"] \cup {vis["journal"], c}
  BY DurableFiles, FileTypes
<1> QED BY <1>1, <1>2, <1>3 DEF PendingComplete

Flags == recoveryRequired \in BOOLEAN /\ failed \in BOOLEAN /\ expired \in BOOLEAN

ControlOK ==
  /\ pc \in Labels /\ mode \in {"failed", "recover"} /\ reply \in Replies
  /\ op \in Op
  /\ seen \subseteq [rev: 0..MaxRev, id: 1..MaxIds, proposed: State]
  /\ ids \in 0..MaxIds /\ crashes \in 0..MaxCrashes

LanOK ==
  /\ rec \in [gen: Opt(Gens), net: Networks]
  /\ result \in [gen: Opt(Gens), ok: BOOLEAN]
  /\ svc \in Networks

LEMMA TypeParts == TypeOK <=> Flags /\ FilesOK /\ NetworkOK /\ ControlOK /\ LanOK
BY Zenon DEF TypeOK, Flags, FilesOK, NetworkOK, ControlOK, LanOK

LEMMA TypeInit == Init => TypeInv
<1> SUFFICES ASSUME Init PROVE TypeInv
  OBVIOUS
<1>1. PICK p \in Proposals, r \in {0, 1} :
        LET d == [rev |-> r, net |-> p.net, addrs |-> p.addrs, confirm |-> p.confirm]
            t == [desired |-> AcceptedDesired(d), prev |-> None, attr |-> None]
        IN /\ vis = [desired |-> d, journal |-> None, prev |-> None, attr |-> None, ready |-> None]
           /\ op = [before |-> t, after |-> t, intent |-> "Ordinary", ready |-> FALSE, footprint |-> {}]
  BY DEF Init
<1> DEFINE d == [rev |-> r, net |-> p.net, addrs |-> p.addrs, confirm |-> p.confirm]
<1>2. d \in State
  BY BoundsAssumption, ProposalsAssumption DEF State, Content
<1>3. AcceptedDesired(d) \in State
  BY <1>2, AcceptedDesiredType
<1>4. op \in Op
  BY <1>1, <1>3 DEF Op, Triple, Opt
<1>5. DOMAIN vis = Files /\ \A f \in Files : vis[f] \in FileContents[f]
  BY <1>1, <1>2 DEF Files, FileContents, Opt
<1>6. DOMAIN surv = Files /\ \A f \in Files : surv[f] \subseteq FileContents[f]
  BY <1>5 DEF Init
<1>7. /\ pc = "down" /\ mode = "recover" /\ reply = "none" /\ seen = {} /\ ids = 0
      /\ live = [net |-> Off, addrs |-> {}] /\ policy = [kind |-> "boot", net |-> Off]
      /\ rec = [gen |-> None, net |-> Off] /\ result = [gen |-> None, ok |-> FALSE]
      /\ svc = Off /\ faults = 0 /\ crashes = 0
  BY DEF Init
<1>9. Flags
  BY Zenon DEF Init, Flags
<1>10. NetworkOK /\ ControlOK
  BY <1>4, <1>7, BoundsAssumption DEF NetworkOK, ControlOK, Networks, Labels, Replies
<1>11. LanOK
  BY <1>7 DEF LanOK, Networks, Opt
<1>12. TypeOK
  BY <1>5, <1>6, <1>9, <1>10, <1>11, TypeParts DEF FilesOK
<1>8. vis["journal"] = None /\ surv["journal"] = {None}
  BY <1>1, FileTypes DEF Init
<1> QED BY <1>7, <1>8, <1>12 DEF TypeInv, AttrKnown, IdLeft, PendingComplete, TargetKnown,
     PendingOperation, ApplyLabels, ConfirmLabels, RestoreLabels

LEMMA FlagsStep == Flags /\ [Next]_vars => Flags'
<1> SUFFICES ASSUME Flags, [Next]_vars PROVE Flags'
  OBVIOUS
<1> USE DEF Flags, netVars, lanVars, confirmVars, Goto, Answer, Recover, RestoreFailed, Proceed
<1>1. CASE Requests
  BY <1>1, Zenon DEF Requests, ApplyDesired, RestorePrevious, ConfirmApply
<1>2. CASE Steps
  <2>1. CASE Retain BY <2>1, Zenon DEF Retain
  <2>2. CASE Suspend BY <2>2, Zenon DEF Suspend
  <2>3. CASE Unsuspend BY <2>3, Zenon DEF Unsuspend
  <2>4. CASE Forget BY <2>4, Zenon DEF Forget
  <2>5. CASE ProgramProposed BY <2>5, Zenon DEF ProgramProposed
  <2>6. CASE PublishServices BY <2>6, Zenon DEF PublishServices
  <2>7. CASE AwaitServices BY <2>7, Zenon DEF AwaitServices
  <2>8. CASE PersistProposed BY <2>8, Zenon DEF PersistProposed, ApplyWrite
  <2>9. CASE PersistPredecessor BY <2>9, Zenon DEF PersistPredecessor, ApplyWrite
  <2>10. CASE WriteAttribution BY <2>10, Zenon DEF WriteAttribution, ApplyWrite
  <2>11. CASE Commit BY <2>11, Zenon DEF Commit
  <2>12. CASE Clean BY <2>12, Zenon DEF Clean
  <2>13. CASE Pend BY <2>13, Zenon DEF Pend
  <2>14. CASE Block BY <2>14, Zenon DEF Block
  <2>15. CASE ConfirmAttribution BY <2>15, Zenon DEF ConfirmAttribution, ConfirmWrite
  <2>16. CASE ConfirmDesired BY <2>16, Zenon DEF ConfirmDesired, ConfirmWrite
  <2>17. CASE ConfirmPredecessor BY <2>17, Zenon DEF ConfirmPredecessor, ConfirmWrite
  <2>18. CASE ConfirmCommit BY <2>18, Zenon DEF ConfirmCommit, ConfirmWrite
  <2>19. CASE Guard BY <2>19, Zenon DEF Guard
  <2>20. CASE Quiesce BY <2>20, Zenon DEF Quiesce
  <2>21. CASE Reprogram BY <2>21, Zenon DEF Reprogram
  <2>22. CASE RestoreDesired BY <2>22, Zenon DEF RestoreDesired, RestoreWrite
  <2>23. CASE RestorePredecessor BY <2>23, Zenon DEF RestorePredecessor, RestoreWrite
  <2>24. CASE RestoreAttribution BY <2>24, Zenon DEF RestoreAttribution, RestoreWrite
  <2>25. CASE RestoreIncomplete BY <2>25, Zenon DEF RestoreIncomplete
  <2>26. CASE Republish BY <2>26, Zenon DEF Republish
  <2>27. CASE AwaitRestored BY <2>27, Zenon DEF AwaitRestored
  <2>28. CASE FinishRecovery BY <2>28, Zenon DEF FinishRecovery
  <2>29. CASE ReopenRestoredForwarding BY <2>29, Zenon DEF ReopenRestoredForwarding
  <2>30. CASE StartInterrupted BY <2>30, Zenon DEF StartInterrupted
  <2>31. CASE StartApply BY <2>31, Zenon DEF StartApply
  <2>32. CASE StartPersist BY <2>32, Zenon DEF StartPersist
  <2>33. CASE StartReady BY <2>33, Zenon DEF StartReady
  <2>34. CASE StartClean BY <2>34, Zenon DEF StartClean
  <2> QED BY <1>2, <2>1, <2>2, <2>3, <2>4, <2>5, <2>6, <2>7, <2>8, <2>9, <2>10, <2>11, <2>12, <2>13, <2>14, <2>15, <2>16, <2>17, <2>18, <2>19, <2>20, <2>21, <2>22, <2>23, <2>24, <2>25, <2>26, <2>27, <2>28, <2>29, <2>30, <2>31, <2>32, <2>33, <2>34, Zenon DEF Steps
<1>3. CASE ExpirePendingConfirmation \/ Poll \/ ReconcileStart \/ ReconcileDone \/ Environment
  BY <1>3, Zenon DEF ExpirePendingConfirmation, Poll, vars, ReconcileStart, ReconcileDone,
     Environment, ProcessEnds, PowerLoss, DeadlinePasses
<1>4. CASE UNCHANGED vars
  BY <1>4, Zenon DEF vars
<1> QED BY <1>1, <1>2, <1>3, <1>4, Zenon DEF Next

LEMMA PhaseTypes ==
  /\ Phases = {"Applying", "PendingConfirmation", "Accepted"}
  /\ None \in Opt(ApplyOperation) /\ None \in Opt(State) /\ None \in Opt(1..MaxIds)
  /\ \A j \in ApplyOperation : j \in Opt(ApplyOperation)
  /\ \A ph, pr, i : PendingOperation(Journal(ph, pr, i)) =>
       ph = "PendingConfirmation" /\ Journal(ph, pr, i).proposed = pr
  /\ ~PendingOperation(None)
BY DEF Phases, Opt, PendingOperation, Journal

LEMMA OpType ==
  ASSUME op \in Op
  PROVE  /\ A \in Triple /\ B \in Triple
         /\ A.desired \in State /\ B.desired \in State
         /\ A.desired \in Opt(State) /\ A.prev \in Opt(State)
         /\ A.attr \in Opt(Attribution) /\ B.attr \in Opt(Attribution)
         /\ op.footprint \in SUBSET Addrs
BY DEF Op, Triple, Opt

(* Restoration always knows what it restores. *)
LEMMA TargetType ==
  ASSUME TypeInv, pc \in RestoreLabels
  PROVE  /\ Target.desired \in State /\ Target.prev \in Opt(State)
         /\ Target.attr \in Opt(Attribution)
<1>1. CASE mode = "failed"
  BY <1>1, OpType DEF TypeInv, TypeOK, Target, Triple
<1>2. CASE mode = "recover"
  <2>1. vis["journal"] \in ApplyOperation
    BY <1>2, FileTypes DEF TypeInv, TypeOK, TargetKnown, Opt
  <2> QED BY <1>2, <2>1, RetainedType DEF Target, Triple
<1> QED BY <1>1, <1>2 DEF TypeInv, TypeOK

(* The types of everything but the flags. *)
Typed ==
  /\ FilesOK /\ NetworkOK /\ ControlOK /\ LanOK
  /\ AttrKnown /\ IdLeft /\ PendingComplete /\ TargetKnown

LEMMA StepsTyped == TypeInv /\ Steps => Typed'
<1> SUFFICES ASSUME TypeInv, Steps PROVE Typed'
  OBVIOUS
<1> USE DEF netVars, lanVars, confirmVars, Goto, Answer, Recover, RestoreFailed,
        ApplyLabels, ConfirmLabels, RestoreLabels, Typed
<1>0. TypeOK /\ Typed /\ Flags
  BY TypeParts DEF TypeInv
<1>1. CASE Retain
  BY <1>0, <1>1, JournalType, JournalWrite, PhaseTypes DEF Retain, NeedsConfirmation,
     NetworkOK, ControlOK, LanOK, AttrKnown, IdLeft, TargetKnown, Labels, Replies
<1>2. CASE Suspend
  BY <1>0, <1>2, ReadyType DEF Suspend, NeedsConfirmation, NetworkOK, ControlOK, LanOK,
     AttrKnown, IdLeft, TargetKnown, Labels, Replies
<1>3. CASE Unsuspend
  BY <1>0, <1>3, ReadyType DEF Unsuspend, NetworkOK, ControlOK, LanOK, AttrKnown,
     IdLeft, TargetKnown, Labels, Replies
<1>4. CASE Forget
  BY <1>0, <1>4, JournalWrite, PhaseTypes DEF Forget, NetworkOK, ControlOK, LanOK,
     AttrKnown, IdLeft, TargetKnown, Labels, Replies
<1>5. CASE ProgramProposed
  <2> DEFINE b == Captured(B.desired)
  <2>1. b \in State
    BY <1>0, CapturedType, OpType DEF ControlOK
  <2>2. op' = [op EXCEPT !.after.desired = b]
    BY <1>5 DEF ProgramProposed
  <2>3. op' \in Op /\ op'.after.attr = B.attr /\ op'.before = A /\ op'.intent = op.intent
    BY <1>0, <2>1, <2>2 DEF ControlOK, Op, Triple
  <2>4. PICK ok \in BOOLEAN : ReplaceNetwork(b, {}, ok)
    BY <1>5 DEF ProgramProposed
  <2>5. {} \in SUBSET Addrs
    OBVIOUS
  <2>6. NetworkOK'
    BY <1>0, <2>1, <2>4, <2>5, NetworkType DEF Flags
  <2> QED BY <1>0, <1>5, <2>3, <2>6 DEF ProgramProposed, NeedsConfirmation, PendingComplete,
       FilesOK, ControlOK, LanOK, AttrKnown, IdLeft, TargetKnown, Labels, Replies
<1>6. CASE PublishServices
  BY <1>0, <1>6, ReadyType DEF PublishServices, NeedsConfirmation, NetworkOK, ControlOK,
     LanOK, AttrKnown, IdLeft, TargetKnown, Labels, Replies
<1>7. CASE AwaitServices
  BY <1>0, <1>7, BoundsAssumption DEF AwaitServices, NeedsConfirmation, WaitLanServices,
     Fault, PendingComplete, FilesOK, NetworkOK, ControlOK, LanOK, AttrKnown, IdLeft,
     TargetKnown, Labels, Replies
<1>8. CASE PersistProposed
  BY <1>0, <1>8, OpType, OtherFile, FileTypes DEF PersistProposed, ApplyWrite,
     NetworkOK, ControlOK, LanOK, AttrKnown, IdLeft, TargetKnown, Labels, Replies
<1>9. CASE PersistPredecessor
  BY <1>0, <1>9, OpType, OtherFile, FileTypes DEF PersistPredecessor, ApplyWrite,
     NetworkOK, ControlOK, LanOK, AttrKnown, IdLeft, TargetKnown, Labels, Replies
<1>10. CASE WriteAttribution
  BY <1>0, <1>10, OpType, OtherFile, FileTypes DEF WriteAttribution, ApplyWrite,
     NetworkOK, ControlOK, LanOK, AttrKnown, IdLeft, TargetKnown, Labels, Replies
<1>11. CASE Commit
  BY <1>0, <1>11, JournalType, JournalWrite, PhaseTypes DEF Commit, NetworkOK,
     ControlOK, LanOK, AttrKnown, IdLeft, TargetKnown, Labels, Replies
<1>12. CASE Clean
  BY <1>0, <1>12, JournalWrite, PhaseTypes DEF Clean, NetworkOK, ControlOK, LanOK,
     AttrKnown, IdLeft, TargetKnown, Labels, Replies
<1>13. CASE Pend
  <2> DEFINE j == Journal("PendingConfirmation", B.desired, ids + 1)
  <2>1. ids + 1 \in 1..MaxIds /\ ids + 1 \in Opt(1..MaxIds)
    BY <1>0, <1>13, BoundsAssumption DEF Pend, IdLeft, ControlOK, Opt
  <2>2. B.desired \in State /\ B.desired \in Opt(State) /\ B.desired # None
        /\ B.desired.rev \in 0..MaxRev
    BY <1>0, OpType, NoneAssumption DEF ControlOK, Opt, State
  <2>3. j \in Opt(ApplyOperation) /\ j.proposed # None
    BY <1>0, <1>13, <2>1, <2>2, JournalType, PhaseTypes DEF Pend, AttrKnown, Journal
  <2>4. FilesOK' /\ faults' \in 0..MaxFaults /\ PendingComplete'
    BY <1>0, <1>13, <2>3, JournalWrite DEF Pend, NetworkOK
  <2>5. seen' \subseteq [rev: 0..MaxRev, id: 1..MaxIds, proposed: State]
    BY <1>0, <1>13, <2>1, <2>2 DEF Pend, ControlOK
  <2> QED BY <1>0, <1>13, <2>1, <2>4, <2>5 DEF Pend, NetworkOK,
       ControlOK, LanOK, AttrKnown, IdLeft, TargetKnown, Labels, Replies
<1>14. CASE Block
  BY <1>0, <1>14, GuardType, FileTypes DEF Block, PendingComplete, FilesOK, NetworkOK,
     ControlOK, LanOK, AttrKnown, IdLeft, TargetKnown, Labels, Replies
<1>15. CASE ConfirmAttribution
  BY <1>0, <1>15, OpType, OtherFile, FileTypes DEF ConfirmAttribution, ConfirmWrite,
     NetworkOK, ControlOK, LanOK, AttrKnown, IdLeft, TargetKnown, Labels, Replies
<1>16. CASE ConfirmDesired
  BY <1>0, <1>16, OpType, OtherFile, FileTypes DEF ConfirmDesired, ConfirmWrite,
     NetworkOK, ControlOK, LanOK, AttrKnown, IdLeft, TargetKnown, Labels, Replies
<1>17. CASE ConfirmPredecessor
  BY <1>0, <1>17, OpType, OtherFile, FileTypes DEF ConfirmPredecessor, ConfirmWrite,
     NetworkOK, ControlOK, LanOK, AttrKnown, IdLeft, TargetKnown, Labels, Replies
<1>18. CASE ConfirmCommit
  BY <1>0, <1>18, JournalType, JournalWrite, PhaseTypes DEF ConfirmCommit, ConfirmWrite,
     NetworkOK, ControlOK, LanOK, AttrKnown, IdLeft, TargetKnown, Labels, Replies
<1>19. CASE Guard
  BY <1>0, <1>19, GuardType, FileTypes DEF Guard, Proceed, InFlight, PendingComplete,
     FilesOK, NetworkOK, ControlOK, LanOK, AttrKnown, IdLeft, TargetKnown, Labels, Replies
<1>20. CASE Quiesce
  BY <1>0, <1>20, ReadyType DEF Quiesce, Proceed, NetworkOK, ControlOK, LanOK,
     AttrKnown, IdLeft, TargetKnown, Labels, Replies
<1>21. CASE Reprogram
  <2> DEFINE undo == IF mode = "failed" THEN op.footprint ELSE {}
  <2>1. pc \in RestoreLabels /\ op.footprint \in SUBSET Addrs
    BY <1>0, <1>21, OpType DEF Reprogram, ControlOK
  <2>2. Captured(Target.desired) \in State /\ undo \in SUBSET Addrs
    BY <1>0, <2>1, CapturedType, TargetType
  <2>3. PICK ok \in BOOLEAN : ReplaceNetwork(Captured(Target.desired), undo, ok)
    BY <1>21 DEF Reprogram
  <2>4. NetworkOK'
    BY <1>0, <2>2, <2>3, NetworkType DEF Flags
  <2> QED BY <1>0, <1>21, <2>4 DEF Reprogram, Proceed, PendingComplete,
       FilesOK, ControlOK, LanOK, AttrKnown, IdLeft, TargetKnown, Labels, Replies
<1>22. CASE RestoreDesired
  BY <1>0, <1>22, TargetType, CapturedType, OtherFile, FileTypes DEF RestoreDesired,
     RestoreWrite, RestoredDesired, Proceed, NetworkOK, ControlOK, LanOK, AttrKnown,
     IdLeft, TargetKnown, Labels, Replies
<1>23. CASE RestorePredecessor
  BY <1>0, <1>23, TargetType, OtherFile, FileTypes DEF RestorePredecessor, RestoreWrite,
     Proceed, NetworkOK, ControlOK, LanOK, AttrKnown, IdLeft, TargetKnown, Labels, Replies
<1>24. CASE RestoreAttribution
  BY <1>0, <1>24, TargetType, OtherFile, FileTypes DEF RestoreAttribution, RestoreWrite,
     Proceed, NetworkOK, ControlOK, LanOK, AttrKnown, IdLeft, TargetKnown, Labels, Replies
<1>25. CASE RestoreIncomplete
  BY <1>0, <1>25 DEF RestoreIncomplete, PendingComplete, FilesOK, NetworkOK, ControlOK,
     LanOK, AttrKnown, IdLeft, TargetKnown, Labels, Replies
<1>26. CASE Republish
  BY <1>0, <1>26, ReadyType DEF Republish, NetworkOK, ControlOK, LanOK, AttrKnown,
     IdLeft, TargetKnown, Labels, Replies
<1>27. CASE AwaitRestored
  BY <1>0, <1>27, BoundsAssumption DEF AwaitRestored, WaitLanServices, Fault,
     PendingComplete, FilesOK, NetworkOK, ControlOK, LanOK, AttrKnown, IdLeft, TargetKnown,
     Labels, Replies
<1>28. CASE FinishRecovery
  BY <1>0, <1>28, JournalWrite, PhaseTypes DEF FinishRecovery, NetworkOK, ControlOK,
     LanOK, AttrKnown, IdLeft, TargetKnown, Labels, Replies
<1>29. CASE ReopenRestoredForwarding
  <2>1. vis["desired"].net \in Networks
    <3>1. vis["desired"] \in State
      BY <1>0, FileTypes DEF FilesOK
    <3> QED BY <3>1 DEF State, Networks
  <2>2. NetworkOK'
    BY <1>0, <1>29, <2>1, BoundsAssumption DEF ReopenRestoredForwarding, Fault, NetworkOK
  <2> QED BY <1>0, <1>29, <2>2 DEF ReopenRestoredForwarding, PendingComplete, FilesOK,
       ControlOK, LanOK, AttrKnown, IdLeft, TargetKnown, Labels, Replies
<1>30. CASE StartInterrupted
  BY <1>0, <1>30, GuardType, FileTypes DEF StartInterrupted, InFlight, PendingComplete,
     FilesOK, NetworkOK, ControlOK, LanOK, AttrKnown, IdLeft, TargetKnown, Labels, Replies
<1>31. CASE StartApply
  <2>1. Captured(vis["desired"]) \in State
    BY <1>0, CapturedType, FileTypes DEF FilesOK
  <2>2. NetworkOK'
    BY <1>0, <1>31, <2>1, NetworkType DEF StartApply, Flags
  <2> QED BY <1>0, <1>31, <2>2 DEF StartApply, PendingComplete, FilesOK,
       ControlOK, LanOK, AttrKnown, IdLeft, TargetKnown, Labels, Replies
<1>32. CASE StartPersist
  <2>1. Captured(vis["desired"]) \in State
    BY <1>0, CapturedType, FileTypes DEF FilesOK
  <2>2. FilesOK' /\ faults' \in 0..MaxFaults /\ PendingComplete'
    BY <1>0, <1>32, <2>1, OtherFile, FileTypes DEF StartPersist, NetworkOK
  <2> QED BY <1>0, <1>32, <2>2 DEF StartPersist, NetworkOK,
       ControlOK, LanOK, AttrKnown, IdLeft, TargetKnown, Labels, Replies
<1>33. CASE StartReady
  BY <1>0, <1>33, ReadyType DEF StartReady, NetworkOK, ControlOK, LanOK, AttrKnown,
     IdLeft, TargetKnown, Labels, Replies
<1>34. CASE StartClean
  BY <1>0, <1>34, JournalWrite, PhaseTypes DEF StartClean, NetworkOK, ControlOK, LanOK,
     AttrKnown, IdLeft, TargetKnown, Labels, Replies
<1> QED
  BY <1>1, <1>2, <1>3, <1>4, <1>5, <1>6, <1>7, <1>8, <1>9, <1>10, <1>11, <1>12,
     <1>13, <1>14, <1>15, <1>16, <1>17, <1>18, <1>19, <1>20, <1>21, <1>22, <1>23, <1>24,
     <1>25, <1>26, <1>27, <1>28, <1>29, <1>30, <1>31, <1>32, <1>33, <1>34 DEF Steps

LEMMA BeginType ==
  ASSUME TypeInv, NEW s, s.net \in Nets, s.addrs \in SUBSET Addrs, s.confirm \in BOOLEAN,
         NEW actor \in Actors, NEW intent \in {"Ordinary", "RecoveryRestore"},
         Begin(s, intent, actor)
  PROVE  /\ op' \in Op /\ op'.after.attr # None
         /\ op'.before.desired.confirm /\ op'.intent = "Ordinary" => ids < MaxIds
<1> DEFINE cur == AcceptedDesired(vis["desired"])
           new == [rev |-> cur.rev + 1, net |-> s.net, addrs |-> s.addrs, confirm |-> s.confirm]
           at == [rev |-> new.rev, applying |-> actor, confirming |-> None]
<1>1. cur \in State
  BY AcceptedDesiredType, FileTypes DEF TypeInv, TypeOK
<1>2. new \in State
  BY <1>1, BoundsAssumption DEF Begin, RevisionLeft, State
<1>3. at \in Attribution /\ at # None
  BY <1>2, NoneAssumption DEF Attribution, Opt, State
<1>4. vis["prev"] \in Opt(State) /\ vis["attr"] \in Opt(Attribution)
  BY FileTypes DEF TypeInv, TypeOK
<1>5. [desired |-> cur, prev |-> vis["prev"], attr |-> vis["attr"]] \in Triple
  BY <1>1, <1>4 DEF Triple
<1>6. [desired |-> new, prev |-> cur, attr |-> at] \in Triple
  BY <1>1, <1>2, <1>3 DEF Triple, Opt
<1>7. PICK rd \in BOOLEAN, fp \in SUBSET Addrs :
        op' = [before |-> [desired |-> cur, prev |-> vis["prev"], attr |-> vis["attr"]],
               after |-> [desired |-> new, prev |-> cur, attr |-> at],
               intent |-> intent, ready |-> rd, footprint |-> fp]
  BY <1>2 DEF Begin, State
<1>8. op' \in Op
  BY <1>5, <1>6, <1>7 DEF Op
<1> QED BY <1>3, <1>7, <1>8 DEF Begin

LEMMA RequestsTyped == TypeInv /\ Requests => Typed'
<1> SUFFICES ASSUME TypeInv, Requests PROVE Typed'
  OBVIOUS
<1> USE DEF netVars, lanVars, confirmVars, Goto, Answer,
        ApplyLabels, ConfirmLabels, RestoreLabels, Typed
<1>0. TypeOK /\ Typed /\ Flags
  BY TypeParts DEF TypeInv
<1>1. ASSUME NEW actor \in Actors, NEW p \in Proposals, ApplyDesired(p, actor)
      PROVE  Typed'
  <2>1. p.net \in Nets /\ p.addrs \in SUBSET Addrs /\ p.confirm \in BOOLEAN
    BY ProposalsAssumption DEF Content
  <2>2. /\ op' \in Op /\ op'.after.attr # None
        /\ op'.before.desired.confirm /\ op'.intent = "Ordinary" => ids < MaxIds
    BY <1>1, <2>1, BeginType DEF ApplyDesired
  <2> QED BY <1>0, <1>1, <2>2 DEF ApplyDesired, Begin, NeedsConfirmation, PendingComplete,
       FilesOK, NetworkOK, ControlOK, LanOK, AttrKnown, IdLeft, TargetKnown, Labels, Replies
<1>2. ASSUME NEW actor \in Actors, RestorePrevious(actor)
      PROVE  Typed'
  <2>1. CASE RecoveryPending /\ mode' = "recover" /\ reply' = "none" /\ pc' \in {"reopen", "guard"} /\ UNCHANGED op
    BY <1>0, <1>2, <2>1 DEF RestorePrevious, PendingComplete,
       FilesOK, NetworkOK, ControlOK, LanOK, AttrKnown, IdLeft, TargetKnown, Labels, Replies
  <2>2. CASE vis["prev"] # None /\ Begin(vis["prev"], "RecoveryRestore", actor) /\ UNCHANGED <<mode, failed>>
    <3>1. vis["prev"] \in State
      BY <1>0, <2>2, FileTypes DEF FilesOK, Opt
    <3>2. /\ vis["prev"].net \in Nets /\ vis["prev"].addrs \in SUBSET Addrs
          /\ vis["prev"].confirm \in BOOLEAN
      BY <3>1 DEF State
    <3>3. /\ op' \in Op /\ op'.after.attr # None
          /\ op'.before.desired.confirm /\ op'.intent = "Ordinary" => ids < MaxIds
      BY <2>2, <3>2, BeginType
    <3> QED BY <1>0, <1>2, <2>2, <3>3 DEF RestorePrevious, Begin, NeedsConfirmation,
         PendingComplete, FilesOK, NetworkOK, ControlOK, LanOK, AttrKnown, IdLeft, TargetKnown,
         Labels, Replies
  <2> QED BY <1>2, <2>1, <2>2 DEF RestorePrevious
<1>3. ASSUME NEW actor \in Actors, NEW t \in seen, ConfirmApply(t, actor)
      PROVE  Typed'
  <2> DEFINE j == vis["journal"]
             at == [rev |-> t.rev, applying |-> j.applying, confirming |-> actor]
             af == [desired |-> j.proposed, prev |-> j.accepted, attr |-> at]
  <2>1. CASE UNCHANGED op /\ mode' = "recover" /\ reply' = "none" /\ pc' = "guard"
    BY <1>0, <1>3, <2>1 DEF ConfirmApply, PendingComplete,
       FilesOK, NetworkOK, ControlOK, LanOK, AttrKnown, IdLeft, TargetKnown, Labels, Replies
  <2>2. CASE /\ op' = [op EXCEPT !.before = Retained(j), !.after = af]
             /\ pc' = "confirmAttr" /\ mode' = mode
    <3>1. j \in ApplyOperation /\ j.proposed \in State
      <4>1. j # None /\ j.proposed # None
        BY <1>0, <1>3 DEF ConfirmApply, PendingOperation, PendingComplete
      <4>2. j \in ApplyOperation
        BY <1>0, <4>1, FileTypes DEF FilesOK, Opt
      <4> QED BY <4>1, <4>2 DEF ApplyOperation, Opt
    <3>2. at \in Attribution /\ at # None
      BY <1>0, <3>1, NoneAssumption DEF Attribution, ApplyOperation, ControlOK, Opt
    <3>3. af \in Triple
      BY <3>1, <3>2 DEF ApplyOperation, Triple, Opt
    <3>4. op' \in Op /\ op'.after.attr # None
      BY <1>0, <2>2, <3>1, <3>2, <3>3, RetainedType DEF ControlOK, Op
    <3> QED BY <1>0, <1>3, <2>2, <3>4 DEF ConfirmApply, PendingComplete,
       FilesOK, NetworkOK, ControlOK, LanOK, AttrKnown, IdLeft, TargetKnown, Labels, Replies
  <2> QED BY <1>3, <2>1, <2>2 DEF ConfirmApply
<1> QED BY <1>1, <1>2, <1>3 DEF Requests

LEMMA OthersTyped ==
  TypeInv /\ (ExpirePendingConfirmation \/ Poll \/ ReconcileStart \/ ReconcileDone \/ Environment \/ UNCHANGED vars) => Typed'
<1> SUFFICES ASSUME TypeInv PROVE
      (ExpirePendingConfirmation \/ Poll \/ ReconcileStart \/ ReconcileDone \/ Environment \/ UNCHANGED vars) => Typed'
  OBVIOUS
<1> USE DEF netVars, lanVars, confirmVars, Goto,
        ApplyLabels, ConfirmLabels, RestoreLabels, Typed
<1>0. TypeOK /\ Typed /\ Flags
  BY TypeParts DEF TypeInv
<1>1. CASE ProcessEnds
  BY <1>0, <1>1, BoundsAssumption DEF ProcessEnds, PendingComplete, FilesOK, NetworkOK,
     ControlOK, LanOK, AttrKnown, IdLeft, TargetKnown, Labels, Replies
<1>2. CASE DeadlinePasses
  BY <1>0, <1>2 DEF DeadlinePasses, PendingComplete, NeedsConfirmation, FilesOK,
     NetworkOK, ControlOK, LanOK, AttrKnown, IdLeft, TargetKnown, Labels, Replies
<1>3. CASE ExpirePendingConfirmation
  BY <1>0, <1>3 DEF ExpirePendingConfirmation, PendingComplete, PendingOperation,
     FilesOK, NetworkOK, ControlOK, LanOK, AttrKnown, IdLeft, TargetKnown, Labels, Replies
<1>4. CASE Poll \/ UNCHANGED vars
  BY <1>0, <1>4 DEF Poll, vars, PendingComplete, NeedsConfirmation, FilesOK, NetworkOK,
     ControlOK, LanOK, AttrKnown, IdLeft, TargetKnown, Labels, Replies
<1>5. CASE ReconcileStart
  BY <1>0, <1>5, FileTypes DEF ReconcileStart, PendingComplete, NeedsConfirmation,
     Networks, FilesOK, NetworkOK, ControlOK, LanOK, AttrKnown, IdLeft, TargetKnown,
     Labels, Replies
<1>6. CASE ReconcileDone
  <2>1. faults' \in 0..MaxFaults
    BY <1>0, <1>6, BoundsAssumption DEF ReconcileDone, Fault, NetworkOK
  <2>2. rec' \in [gen: Opt(Gens), net: Networks] /\ svc' \in Networks
    BY <1>0, <1>6 DEF ReconcileDone, LanOK, Networks, Opt
  <2>3. PICK b \in BOOLEAN : result' = [gen |-> rec.gen, ok |-> b]
    BY <1>6 DEF ReconcileDone
  <2>4. result' \in [gen: Opt(Gens), ok: BOOLEAN]
    BY <1>0, <2>3 DEF LanOK
  <2> QED BY <1>0, <1>6, <2>1, <2>2, <2>4 DEF ReconcileDone, NeedsConfirmation, PendingComplete,
       FilesOK, NetworkOK, ControlOK, LanOK, AttrKnown, IdLeft, TargetKnown
<1>7. CASE PowerLoss
  <2>1. PICK d \in surv["desired"], j \in surv["journal"], p \in surv["prev"],
             a \in surv["attr"], r \in surv["ready"] :
          /\ vis' = [desired |-> d, journal |-> j, prev |-> p, attr |-> a, ready |-> r]
          /\ surv' = [g \in Files |-> {vis'[g]}]
    BY <1>7 DEF PowerLoss
  <2>2. DOMAIN vis' = Files /\ \A f \in Files : vis'[f] \in surv[f]
    BY <2>1 DEF Files
  <2>3. FilesOK'
    BY <1>0, <2>1, <2>2 DEF FilesOK
  <2>4. PendingComplete'
    BY <1>0, <2>1, <2>2, FileTypes DEF PendingComplete
  <2> QED BY <1>0, <1>7, <2>3, <2>4, BoundsAssumption DEF PowerLoss, NetworkOK, ControlOK,
       LanOK, AttrKnown, IdLeft, TargetKnown, Labels, Networks, Opt
<1> QED BY <1>1, <1>2, <1>3, <1>4, <1>5, <1>6, <1>7 DEF Environment

LEMMA TypeStep == TypeInv /\ [Next]_vars => TypeInv'
<1> SUFFICES ASSUME TypeInv, [Next]_vars PROVE TypeInv'
  OBVIOUS
<1>1. Flags'
  BY FlagsStep, TypeParts DEF TypeInv
<1>2. Typed'
  BY StepsTyped, RequestsTyped, OthersTyped DEF Next
<1>3. TypeOK'
  BY <1>1, <1>2, Zenon DEF Typed, TypeOK, Flags, FilesOK, NetworkOK, ControlOK, LanOK
<1> QED BY <1>2, <1>3 DEF TypeInv, Typed

(* Every reachable state of the transaction is well typed: in particular   *)
(* no revision passes the limit, no recovery works from a journal that is  *)
(* not there, and no confirmation stands without the proposal it confirms. *)
THEOREM TypeCorrect == Spec => []TypeOK
<1>1. Init => TypeInv
  BY TypeInit
<1>2. TypeInv /\ [Next]_vars => TypeInv'
  BY TypeStep
<1>3. TypeInv => TypeOK
  BY DEF TypeInv
<1> QED BY <1>1, <1>2, <1>3, PTL DEF Spec

-----------------------------------------------------------------------------
(* The live network: the inductive invariant.                              *)

(* recoveryRequired is set from the forwarding guard on and nowhere else,  *)
(* and each step finds the journal its predecessors left.                  *)
ControlInv ==
  LET j == vis["journal"] IN
  /\ pc \in ApplyLabels \cup ConfirmLabels \cup StartLabels \cup {"clean", "down"} =>
       ~recoveryRequired
  /\ pc \in RestoreLabels \cup {"reopen"} => recoveryRequired
  /\ pc \in {"retain", "clean"} \cup StartLabels => ~InFlight(j)
  /\ pc \in ApplyLabels \ {"retain"} => OperationRequiresRecovery(j)
  /\ pc \in ConfirmLabels => PendingOperation(j)
  /\ pc \in RestoreLabels \cup {"guard"} => j # None
  /\ pc = "reopen" => j = None

Serving(n) == live.net = n /\ policy = [kind |-> "open", net |-> n]

(* The four files of the transaction need no journal to bring them back. *)
Restored ==
  /\ live.net = vis["desired"].net
  /\ surv["desired"] = {vis["desired"]} /\ surv["prev"] = {vis["prev"]}
  /\ surv["attr"] = {vis["attr"]}

(* The network netd forwards for at each step. *)
NetInv ==
  LET j == vis["journal"]  d == vis["desired"] IN
  /\ pc \in {"retain", "suspend", "unsuspend", "forget", "program", "clean"} \cup StartLabels =>
       Serving(d.net)
  /\ pc \in {"publish", "wait", "pend", "desired", "prev", "attr", "commit", "clean"}
            \cup ConfirmLabels =>
       Serving(B.desired.net)
  /\ pc \in {"prev", "attr", "commit", "clean", "confirmPrev", "confirmCommit"} =>
       d.net = B.desired.net
  /\ pc = "idle" /\ ~recoveryRequired =>
       /\ ~OperationRequiresRecovery(j)
       /\ Serving(IF PendingOperation(j) THEN j.proposed.net ELSE d.net)
  /\ pc = "redesired" /\ ~failed => live.net = Target.desired.net
  /\ pc \in {"reprev", "reattr", "republish"} /\ ~failed => Restored
  /\ pc \in {"rewait", "finish", "reopen"} => Restored
  /\ pc = "block" /\ j = None => Restored
  /\ pc = "idle" /\ recoveryRequired /\ j = None => Restored

(* What the Host's reconciler works on, or reported, under the published   *)
(* generation is about the network that is live.                           *)
Faithful ==
  vis["ready"] # None =>
    /\ rec.gen = vis["ready"] => rec.net = live.net
    /\ result.gen = vis["ready"] /\ result.ok => svc = live.net

ServiceInv ==
  /\ pc \in {"retain", "suspend", "unsuspend", "forget", "wait", "pend", "desired", "prev",
             "attr", "commit", "clean", "rewait", "finish", "reopen", "startClean"}
            \cup ConfirmLabels => Faithful
  /\ pc = "idle" /\ (~recoveryRequired \/ vis["journal"] = None) => Faithful
  /\ pc = "block" /\ vis["journal"] = None => Faithful
  /\ pc = "wait" => vis["ready"] # None

(* An id names one proposal for ever. *)
Names(j) ==
  PendingOperation(j) =>
    j.id \in 1..ids /\ \A t \in seen : t.id = j.id => t.proposed = j.proposed
IdInv ==
  /\ \A t \in seen : t.id <= ids
  /\ Names(vis["journal"])
  /\ \A j \in surv["journal"] : Names(j)

NInv == ControlInv /\ NetInv /\ ServiceInv /\ IdInv

-----------------------------------------------------------------------------
(* What the calls do.                                                      *)

(* A durable call on one of the files, as the network and its confirmation *)
(* see it; a successful one never leaves a file of the others less synced. *)
LEMMA DurableEffect ==
  ASSUME FilesOK, NEW f \in Files, NEW c \in FileContents[f], NEW ok \in BOOLEAN,
         Durable(f, c, ok)
  PROVE  /\ \A g \in Files : g # f => vis'[g] = vis[g]
         /\ vis'[f] \in {vis[f], c}
         /\ ok => vis'[f] = c
         /\ ok /\ c # None => \A g \in Files : surv'[g] = {vis'[g]}
         /\ \A g \in Files : g # f /\ surv[g] = {vis[g]} => surv'[g] = {vis'[g]}
         /\ ok => \A g \in Files : surv[g] = {vis[g]} => surv'[g] = {vis'[g]}
BY DEF Durable, FilesOK

(* The network is programmed: done, it serves what it was asked to.        *)
LEMMA NetworkEffect ==
  ASSUME NEW s, NEW undo, NEW ok \in BOOLEAN, ApplyNetwork(s, ok) \/ ReplaceNetwork(s, undo, ok)
  PROVE  /\ ok => live'.net = s.net
         /\ ok /\ ~recoveryRequired => policy' = [kind |-> "open", net |-> s.net]
         /\ policy' = policy \/ policy' = Rules(s)
BY DEF ApplyNetwork, ReplaceNetwork, Rules

(* The LAN services marker: nothing else changes, and a published          *)
(* generation is one that neither the reconciler nor its result names.     *)
LEMMA ReadyEffect ==
  ASSUME FilesOK, NEW ok \in BOOLEAN, Publish(ok) \/ SetLanServicesReady(None, ok)
  PROVE  /\ \A g \in Files \ {"ready"} : vis'[g] = vis[g]
         /\ \A g \in Files \ {"ready"} : surv[g] = {vis[g]} => surv'[g] = {vis'[g]}
         /\ vis'["ready"] \in {None, vis["ready"]} \/ vis'["ready"] \notin {rec.gen, result.gen}
         /\ ok /\ Publish(ok) => vis'["ready"] # None /\ vis'["ready"] \notin {rec.gen, result.gen}
         /\ ok /\ SetLanServicesReady(None, ok) => vis'["ready"] = None
<1>1. ASSUME NEW c \in Opt(Gens), SetLanServicesReady(c, ok)
      PROVE  /\ \A g \in Files \ {"ready"} : vis'[g] = vis[g]
             /\ \A g \in Files \ {"ready"} : surv[g] = {vis[g]} => surv'[g] = {vis'[g]}
             /\ vis'["ready"] \in {c, vis["ready"]}
             /\ ok => vis'["ready"] = c
  <2>1. PICK d \in BOOLEAN : Durable("ready", c, d)
    BY <1>1 DEF SetLanServicesReady
  <2> QED BY <1>1, <2>1, DurableEffect, FileTypes, FilesKnown DEF SetLanServicesReady
<1>2. CASE SetLanServicesReady(None, ok)
  <2>1. None \in Opt(Gens)
    BY DEF Opt
  <2>2. Publish(ok) => \E g \in FreshGen : ok => vis'["ready"] = g
    BY DEF Publish, SetLanServicesReady
  <2>3. \A g \in FreshGen : g # None /\ g \notin {rec.gen, result.gen}
    BY NoneAssumption DEF FreshGen, UsedGens
  <2> QED BY <1>1, <1>2, <2>1, <2>2, <2>3
<1>3. CASE Publish(ok)
  <2>1. PICK g \in FreshGen : SetLanServicesReady(g, ok)
    BY <1>3 DEF Publish
  <2>2. g \in Opt(Gens) /\ g # None /\ g \notin {rec.gen, result.gen}
    BY NoneAssumption DEF FreshGen, UsedGens, Opt
  <2>3. ok /\ SetLanServicesReady(None, ok) => FALSE
    BY <2>1, <2>2 DEF SetLanServicesReady
  <2> QED BY <1>1, <2>1, <2>2, <2>3
<1> QED BY <1>2, <1>3

(* A generation nobody refers to, or none, makes Faithful vacuous. *)
LEMMA ReadyFaithful ==
  ASSUME live' = live, rec' = rec, result' = result, svc' = svc, Faithful,
         vis'["ready"] \in {None, vis["ready"]} \/ vis'["ready"] \notin {rec.gen, result.gen}
  PROVE  Faithful'
BY DEF Faithful

LEMMA FreshFaithful ==
  ASSUME rec' = rec, result' = result, svc' = svc,
         vis'["ready"] = None \/ vis'["ready"] \notin {rec.gen, result.gen}
  PROVE  Faithful'
BY DEF Faithful

-----------------------------------------------------------------------------
(* Confirmation ids.                                                       *)

(* No new journal, no new confirmation. *)
LEMMA SameIds ==
  ASSUME IdInv, seen' = seen, ids' = ids, vis'["journal"] \in surv["journal"] \cup {vis["journal"]},
         surv'["journal"] \subseteq surv["journal"] \cup {vis["journal"]}
  PROVE  IdInv'
BY DEF IdInv, Names

(* A journal that asks for no confirmation. *)
LEMMA UnnamedJournal ==
  ASSUME FilesOK, faults \in 0..MaxFaults, IdInv, seen' = seen, ids' = ids,
         NEW ok \in BOOLEAN, NEW c \in Opt(ApplyOperation), ~PendingOperation(c),
         Durable("journal", c, ok)
  PROVE  IdInv'
<1>1. vis'["journal"] \in {vis["journal"], c}
  BY DurableFiles, FileTypes
<1>2. surv'["journal"] \subseteq surv["journal"] \cup {vis["journal"], c}
  BY DurableFiles, FileTypes
<1> QED BY <1>1, <1>2 DEF IdInv, Names

(* A call on another file. *)
LEMMA OtherFileIds ==
  ASSUME FilesOK, faults \in 0..MaxFaults, IdInv, seen' = seen, ids' = ids,
         NEW ok \in BOOLEAN, NEW f \in Files \ {"journal"}, NEW c \in FileContents[f],
         Durable(f, c, ok)
  PROVE  IdInv'
<1>1. /\ vis'["journal"] = vis["journal"]
      /\ surv'["journal"] \subseteq surv["journal"] \cup {vis["journal"]}
  BY DurableFiles, FilesKnown
<1> QED BY <1>1, SameIds

LEMMA ReadyIds ==
  ASSUME FilesOK, faults \in 0..MaxFaults, IdInv, seen' = seen, ids' = ids,
         NEW ok \in BOOLEAN, Publish(ok) \/ SetLanServicesReady(None, ok)
  PROVE  IdInv'
<1>1. PICK c \in Opt(Gens), d \in BOOLEAN : Durable("ready", c, d)
  BY DEF Publish, SetLanServicesReady, FreshGen, Opt
<1> QED BY <1>1, OtherFileIds, FileTypes

LEMMA UnconfirmedJournals ==
  ASSUME TypeInv, pc \in ApplyLabels \cup ConfirmLabels, NEW ph \in {"Applying", "Accepted"}
  PROVE  /\ Journal(ph, None, None) \in Opt(ApplyOperation)
         /\ ~PendingOperation(Journal(ph, None, None))
         /\ Journal(ph, None, None) # None
BY JournalType, PhaseTypes, NoneAssumption DEF TypeInv, AttrKnown, Opt

(* A new id is one nobody was shown before. *)
LEMMA PendIds == TypeInv /\ IdInv /\ Pend => IdInv'
<1> SUFFICES ASSUME TypeInv, IdInv, Pend PROVE IdInv'
  OBVIOUS
<1> DEFINE j == Journal("PendingConfirmation", B.desired, ids + 1)
           t == [rev |-> B.desired.rev, id |-> ids + 1, proposed |-> B.desired]
<1>1. /\ FilesOK /\ faults \in 0..MaxFaults
      /\ ids \in 0..MaxIds /\ ids < MaxIds
      /\ seen \subseteq [rev: 0..MaxRev, id: 1..MaxIds, proposed: State]
  BY TypeParts DEF TypeInv, TypeOK, IdLeft, Pend
<1>2. j \in Opt(ApplyOperation)
  <2>1. B.desired \in Opt(State) /\ ids + 1 \in Opt(1..MaxIds) /\ B.attr # None
    BY <1>1, OpType, BoundsAssumption DEF TypeInv, TypeOK, AttrKnown, ApplyLabels, Pend, Opt
  <2> QED BY <2>1, JournalType, PhaseTypes DEF TypeInv
<1>3. PICK ok \in BOOLEAN : Durable("journal", j, ok)
  BY DEF Pend
<1>4. /\ vis'["journal"] \in {vis["journal"], j}
      /\ surv'["journal"] \subseteq surv["journal"] \cup {vis["journal"], j}
  BY <1>1, <1>2, <1>3, DurableFiles, FileTypes
<1>5. ids' = ids + 1 /\ (seen' = seen \/ seen' = seen \cup {t})
  BY DEF Pend
<1>6. \A s \in seen : s.id \in Nat /\ s.id <= ids
  BY <1>1, BoundsAssumption DEF IdInv
<1>7. \A s \in seen' : s.id <= ids'
  BY <1>1, <1>5, <1>6, BoundsAssumption
<1>8. PendingOperation(j) =>
        j.id \in 1..ids' /\ \A s \in seen' : s.id = j.id => s.proposed = j.proposed
  <2>1. j.id = ids + 1 /\ j.proposed = B.desired
    BY DEF Journal
  <2> HIDE DEF j
  <2> QED BY <1>1, <1>5, <1>6, <2>1, BoundsAssumption
<1>9. ASSUME NEW k, Names(k) PROVE PendingOperation(k) =>
        k.id \in 1..ids' /\ \A s \in seen' : s.id = k.id => s.proposed = k.proposed
  BY <1>1, <1>5, <1>6, <1>9, BoundsAssumption DEF Names
<1> QED BY <1>4, <1>5, <1>7, <1>8, <1>9 DEF IdInv, Names

-----------------------------------------------------------------------------
(* The steps of an apply and of its confirmation.                          *)

(* The Applying journal: nothing is served differently, and an error that  *)
(* left it visible blocks.                                                 *)
LEMMA RetainStep == TypeInv /\ NInv /\ Retain => NInv'
<1> SUFFICES ASSUME TypeInv, NInv, Retain PROVE NInv'
  OBVIOUS
<1> USE DEF ApplyLabels, ConfirmLabels, RestoreLabels, StartLabels
<1> DEFINE c == Journal("Applying", None, None)
<1>0. FilesOK /\ faults \in 0..MaxFaults
  BY TypeParts DEF TypeInv, TypeOK
<1>1. c \in Opt(ApplyOperation) /\ ~PendingOperation(c) /\ c # None /\ c.phase = "Applying"
  BY UnconfirmedJournals DEF Retain, Journal
<1>2. PICK ok \in BOOLEAN :
        /\ Durable("journal", c, ok)
        /\ \/ ok /\ pc' = "suspend" /\ UNCHANGED reply
           \/ ~ok /\ OperationRequiresRecovery(vis'["journal"]) /\ pc' = "block"
           \/ ~ok /\ ~OperationRequiresRecovery(vis'["journal"]) /\ pc' = "idle"
  BY DEF Retain, Goto, Answer
<1>3. /\ vis'["desired"] = vis["desired"] /\ vis'["ready"] = vis["ready"]
      /\ vis'["journal"] \in {vis["journal"], c}
      /\ ok => vis'["journal"] = c
  BY <1>0, <1>1, <1>2, DurableEffect, FileTypes, FilesKnown
<1>4. /\ UNCHANGED <<recoveryRequired, live, policy, op, seen, ids, rec, result, svc>>
      /\ pc = "retain"
  BY DEF Retain, netVars, confirmVars, lanVars
<1>5. ControlInv'
  BY <1>1, <1>2, <1>3, <1>4
  DEF NInv, ControlInv, OperationRequiresRecovery, InFlight
<1>6. NetInv'
  BY <1>1, <1>2, <1>3, <1>4
  DEF NInv, ControlInv, NetInv, Serving, OperationRequiresRecovery, PendingOperation, InFlight
<1>7. ServiceInv'
  BY <1>1, <1>2, <1>3, <1>4
  DEF NInv, ServiceInv, Faithful, ControlInv, OperationRequiresRecovery
<1>8. IdInv'
  BY <1>0, <1>1, <1>2, <1>4, UnnamedJournal DEF NInv
<1> QED BY <1>5, <1>6, <1>7, <1>8 DEF NInv

(* The calls on the LAN services marker, and the wait for the reconciler,  *)
(* which ends well only on a result about the network now live.            *)
LEMMA ServiceCalls ==
  TypeInv /\ NInv /\ (Suspend \/ Unsuspend \/ PublishServices \/ AwaitServices) => NInv'
<1> SUFFICES ASSUME TypeInv, NInv
      PROVE (Suspend \/ Unsuspend \/ PublishServices \/ AwaitServices) => NInv'
  OBVIOUS
<1> USE DEF netVars, lanVars, confirmVars, Goto, Answer, RestoreFailed,
        ApplyLabels, ConfirmLabels, RestoreLabels, StartLabels
<1>0. FilesOK /\ faults \in 0..MaxFaults /\ ControlInv /\ NetInv /\ ServiceInv /\ IdInv
  BY TypeParts DEF TypeInv, TypeOK, NInv
<1>1. CASE Suspend
  <2>1. PICK ok \in BOOLEAN :
          SetLanServicesReady(None, ok) /\ pc' = IF ok THEN "program" ELSE "unsuspend"
    BY <1>1 DEF Suspend
  <2>2. /\ vis'["journal"] = vis["journal"] /\ vis'["desired"] = vis["desired"]
        /\ vis'["ready"] \in {None, vis["ready"]} \/ vis'["ready"] \notin {rec.gen, result.gen}
    BY <1>0, <2>1, ReadyEffect, FilesKnown
  <2>3. IdInv'
    BY <1>0, <1>1, <2>1, ReadyIds DEF Suspend
  <2>4. ControlInv' /\ NetInv'
    BY <1>0, <1>1, <2>1, <2>2 DEF Suspend, ControlInv, NetInv, Serving
  <2>5. ServiceInv'
    BY <1>0, <1>1, <2>1, <2>2, ReadyFaithful DEF Suspend, ServiceInv
  <2> QED BY <2>3, <2>4, <2>5 DEF NInv
<1>2. CASE Unsuspend
  <2>1. PICK ok \in BOOLEAN :
          /\ Publish(ok) \/ SetLanServicesReady(None, ok)
          /\ pc' = IF ok THEN "forget" ELSE "block"
    BY <1>2 DEF Unsuspend
  <2>2. /\ vis'["journal"] = vis["journal"] /\ vis'["desired"] = vis["desired"]
        /\ vis'["ready"] \in {None, vis["ready"]} \/ vis'["ready"] \notin {rec.gen, result.gen}
    BY <1>0, <2>1, ReadyEffect, FilesKnown
  <2>3. IdInv'
    BY <1>0, <1>2, <2>1, ReadyIds DEF Unsuspend
  <2>4. ControlInv' /\ NetInv'
    BY <1>0, <1>2, <2>1, <2>2
    DEF Unsuspend, ControlInv, NetInv, Serving, OperationRequiresRecovery
  <2>5. ServiceInv'
    BY <1>0, <1>2, <2>1, <2>2, ReadyFaithful
    DEF Unsuspend, ServiceInv, ControlInv, OperationRequiresRecovery
  <2> QED BY <2>3, <2>4, <2>5 DEF NInv
<1>3. CASE PublishServices
  <2>1. PICK ok \in BOOLEAN :
          Publish(ok) /\ pc' = IF ok THEN "wait" ELSE "guard"
    BY <1>3 DEF PublishServices
  <2>2. /\ vis'["journal"] = vis["journal"] /\ vis'["desired"] = vis["desired"]
        /\ ok => vis'["ready"] # None /\ vis'["ready"] \notin {rec.gen, result.gen}
    BY <1>0, <2>1, ReadyEffect, FilesKnown
  <2>3. IdInv'
    BY <1>0, <1>3, <2>1, ReadyIds DEF PublishServices
  <2>4. ControlInv' /\ NetInv'
    BY <1>0, <1>3, <2>1, <2>2
    DEF PublishServices, ControlInv, NetInv, Serving, OperationRequiresRecovery
  <2>5. ServiceInv'
    BY <1>0, <1>3, <2>1, <2>2, FreshFaithful DEF PublishServices, ServiceInv
  <2> QED BY <2>3, <2>4, <2>5 DEF NInv
<1>4. CASE AwaitServices
  <2>1. IdInv'
    BY <1>0, <1>4, SameIds DEF AwaitServices
  <2>2. ControlInv' /\ NetInv'
    BY <1>0, <1>4 DEF AwaitServices, ControlInv, NetInv, Serving, OperationRequiresRecovery
  <2>3. ServiceInv'
    BY <1>0, <1>4 DEF AwaitServices, ServiceInv, Faithful
  <2> QED BY <2>1, <2>2, <2>3 DEF NInv
<1> QED BY <1>1, <1>2, <1>3, <1>4

(* No recovery is required yet, so that the proposed network's rules are   *)
(* open.                                                                   *)
LEMMA ProgramStep == TypeInv /\ NInv /\ ProgramProposed => NInv'
<1> SUFFICES ASSUME TypeInv, NInv, ProgramProposed PROVE NInv'
  OBVIOUS
<1> USE DEF lanVars, confirmVars, Goto, RestoreFailed,
        ApplyLabels, ConfirmLabels, RestoreLabels, StartLabels
<1> DEFINE b == Captured(B.desired)
<1>0. ControlInv /\ NetInv /\ ServiceInv /\ IdInv
  BY DEF NInv
<1>1. PICK ok \in BOOLEAN :
        ReplaceNetwork(b, {}, ok) /\ pc' = IF ok THEN "publish" ELSE "guard"
  BY DEF ProgramProposed
<1>2. ok => live'.net = b.net /\ policy' = [kind |-> "open", net |-> b.net]
  BY <1>0, <1>1, NetworkEffect DEF ProgramProposed, ControlInv
<1>3. op'.after.desired = b
  BY OpType DEF TypeInv, TypeOK, Op, Triple, ProgramProposed
<1>4. IdInv'
  BY <1>0, SameIds DEF ProgramProposed
<1>5. ControlInv'
  BY <1>0, <1>1 DEF ProgramProposed, ControlInv, OperationRequiresRecovery
<1>6. NetInv'
  BY <1>0, <1>1, <1>2, <1>3 DEF ProgramProposed, NetInv, Serving
<1>7. ServiceInv'
  BY <1>0, <1>1 DEF ProgramProposed, ServiceInv
<1> QED BY <1>4, <1>5, <1>6, <1>7 DEF NInv

(* The three writes of the apply between the wait and the commit. *)
LEMMA WriteSteps ==
  TypeInv /\ NInv /\ (PersistProposed \/ PersistPredecessor \/ WriteAttribution) => NInv'
<1> SUFFICES ASSUME TypeInv, NInv
      PROVE PersistProposed \/ PersistPredecessor \/ WriteAttribution => NInv'
  OBVIOUS
<1> USE DEF netVars, lanVars, confirmVars, Goto, RestoreFailed,
        ApplyLabels, ConfirmLabels, RestoreLabels, StartLabels
<1>0. FilesOK /\ faults \in 0..MaxFaults /\ ControlInv /\ NetInv /\ ServiceInv /\ IdInv
  BY TypeParts DEF TypeInv, TypeOK, NInv
<1>1. ASSUME NEW f \in {"desired", "prev", "attr"}, NEW c \in FileContents[f],
             NEW to \in {"prev", "attr", "commit"},
             ApplyWrite(f, f, c, to), f = "desired" => c = B.desired,
             <<f, to>> \in {<<"desired", "prev">>, <<"prev", "attr">>, <<"attr", "commit">>}
      PROVE  NInv'
  <2>1. PICK ok \in BOOLEAN :
          Durable(f, c, ok) /\ pc' = IF ok THEN to ELSE "guard"
    BY <1>1 DEF ApplyWrite
  <2>2. /\ vis'["journal"] = vis["journal"] /\ vis'["ready"] = vis["ready"]
        /\ f # "desired" => vis'["desired"] = vis["desired"]
        /\ ok /\ f = "desired" => vis'["desired"] = B.desired
    BY <1>0, <1>1, <2>1, DurableEffect, FilesKnown
  <2>3. IdInv'
    BY <1>0, <1>1, <2>1, OtherFileIds, FilesKnown DEF ApplyWrite
  <2>4. ControlInv' /\ NetInv'
    BY <1>0, <1>1, <2>1, <2>2
    DEF ApplyWrite, ControlInv, NetInv, Serving, OperationRequiresRecovery
  <2>5. ServiceInv'
    BY <1>0, <1>1, <2>1, <2>2 DEF ApplyWrite, ServiceInv, Faithful
  <2> QED BY <2>3, <2>4, <2>5 DEF NInv
<1>2. B.desired \in State /\ A.desired \in Opt(State) /\ B.attr \in Opt(Attribution)
  BY OpType DEF TypeInv, TypeOK
<1>3. PersistProposed => NInv'
  BY <1>1, <1>2, FileTypes DEF PersistProposed
<1>4. PersistPredecessor => NInv'
  BY <1>1, <1>2, FileTypes DEF PersistPredecessor
<1>5. WriteAttribution => NInv'
  BY <1>1, <1>2, FileTypes DEF WriteAttribution
<1> QED BY <1>3, <1>4, <1>5

(* The journal's further writes of an apply. *)
LEMMA JournalSteps == TypeInv /\ NInv /\ (Forget \/ Commit \/ Clean \/ Pend) => NInv'
<1> SUFFICES ASSUME TypeInv, NInv PROVE Forget \/ Commit \/ Clean \/ Pend => NInv'
  OBVIOUS
<1> USE DEF netVars, lanVars, confirmVars, Goto, Answer, RestoreFailed,
        ApplyLabels, ConfirmLabels, RestoreLabels, StartLabels
<1>0. FilesOK /\ faults \in 0..MaxFaults /\ ControlInv /\ NetInv /\ ServiceInv /\ IdInv
  BY TypeParts DEF TypeInv, TypeOK, NInv
<1>1. ASSUME NEW c \in Opt(ApplyOperation), NEW ok \in BOOLEAN, Durable("journal", c, ok)
      PROVE  /\ vis'["desired"] = vis["desired"] /\ vis'["ready"] = vis["ready"]
             /\ vis'["journal"] \in {vis["journal"], c}
             /\ ok => vis'["journal"] = c
             /\ ~PendingOperation(c) /\ seen' = seen /\ ids' = ids => IdInv'
  BY <1>0, <1>1, DurableEffect, UnnamedJournal, FileTypes, FilesKnown
<1>2. CASE Forget
  <2>1. PICK ok \in BOOLEAN : Durable("journal", None, ok)
    BY <1>2 DEF Forget
  <2>2. IdInv'
    BY <1>1, <1>2, <2>1, PhaseTypes DEF Forget
  <2>3. ControlInv' /\ NetInv'
    BY <1>0, <1>1, <1>2, <2>1, PhaseTypes DEF Forget, ControlInv, NetInv, Serving,
       OperationRequiresRecovery, PendingOperation
  <2>4. ServiceInv'
    BY <1>0, <1>1, <1>2, <2>1, PhaseTypes DEF Forget, ServiceInv, Faithful,
       OperationRequiresRecovery
  <2> QED BY <2>2, <2>3, <2>4 DEF NInv
<1>3. CASE Commit
  <2> DEFINE c == Journal("Accepted", None, None)
  <2>1. /\ c \in Opt(ApplyOperation) /\ ~PendingOperation(c) /\ c # None
        /\ c.phase = "Accepted"
    BY <1>3, UnconfirmedJournals DEF Commit, Journal
  <2>2. PICK ok \in BOOLEAN :
          Durable("journal", c, ok) /\ pc' = IF ok THEN "clean" ELSE "block"
    BY <1>3 DEF Commit
  <2>3. IdInv'
    BY <1>1, <1>3, <2>1, <2>2 DEF Commit
  <2>4. ControlInv' /\ NetInv'
    BY <1>0, <1>1, <1>3, <2>1, <2>2 DEF Commit, ControlInv, NetInv, Serving,
       OperationRequiresRecovery, InFlight
  <2>5. ServiceInv'
    BY <1>0, <1>1, <1>3, <2>1, <2>2 DEF Commit, ControlInv, ServiceInv, Faithful,
       OperationRequiresRecovery
  <2> QED BY <2>3, <2>4, <2>5 DEF NInv
<1>4. CASE Clean
  <2>1. PICK ok \in BOOLEAN : Durable("journal", None, ok)
    BY <1>4 DEF Clean
  <2>2. IdInv'
    BY <1>1, <1>4, <2>1, PhaseTypes DEF Clean
  <2>3. ControlInv' /\ NetInv'
    BY <1>0, <1>1, <1>4, <2>1, PhaseTypes DEF Clean, ControlInv, NetInv, Serving,
       OperationRequiresRecovery, PendingOperation, InFlight
  <2>4. ServiceInv'
    BY <1>0, <1>1, <1>4, <2>1, PhaseTypes DEF Clean, ServiceInv, Faithful
  <2> QED BY <2>2, <2>3, <2>4 DEF NInv
<1>5. CASE Pend
  <2> DEFINE c == Journal("PendingConfirmation", B.desired, ids + 1)
  <2>1. /\ c \in Opt(ApplyOperation) /\ c # None
        /\ c.phase = "PendingConfirmation" /\ c.proposed = B.desired
    <3>1. B.desired \in Opt(State) /\ ids + 1 \in Opt(1..MaxIds) /\ B.attr # None
      BY <1>5, OpType, BoundsAssumption DEF TypeInv, TypeOK, AttrKnown, IdLeft, Pend, Opt
    <3>2. c \in ApplyOperation
      BY <3>1, JournalType, PhaseTypes DEF TypeInv
    <3> QED BY <3>2, NoneAssumption DEF Opt, Journal
  <2>2. PICK ok \in BOOLEAN :
          Durable("journal", c, ok) /\ pc' = IF ok THEN "idle" ELSE "guard"
    BY <1>5 DEF Pend
  <2>3. IdInv'
    BY <1>0, <1>5, PendIds
  <2> HIDE DEF c
  <2>4. ControlInv' /\ NetInv'
    BY <1>0, <1>1, <1>5, <2>1, <2>2 DEF Pend, ControlInv, NetInv, Serving,
       OperationRequiresRecovery, PendingOperation
  <2>5. ServiceInv'
    BY <1>0, <1>1, <1>5, <2>1, <2>2 DEF Pend, ServiceInv, Faithful
  <2> QED BY <2>3, <2>4, <2>5 DEF NInv
<1> QED BY <1>2, <1>3, <1>4, <1>5

(* The forwarding guard, installed or not. *)
LEMMA BlockStep == TypeInv /\ NInv /\ Block => NInv'
<1> SUFFICES ASSUME TypeInv, NInv, Block PROVE NInv'
  OBVIOUS
<1> USE DEF lanVars, confirmVars, Goto, ApplyLabels, ConfirmLabels, RestoreLabels, StartLabels
<1>0. ControlInv /\ NetInv /\ ServiceInv /\ IdInv
  BY DEF NInv
<1>1. IdInv'
  BY <1>0, SameIds DEF Block
<1>2. ControlInv' /\ NetInv'
  BY <1>0 DEF Block, ControlInv, NetInv, Restored
<1>3. ServiceInv'
  BY <1>0 DEF Block, ServiceInv, Faithful
<1> QED BY <1>1, <1>2, <1>3 DEF NInv

(* The four writes of a confirmation. *)
LEMMA ConfirmSteps ==
  TypeInv /\ NInv /\ (ConfirmAttribution \/ ConfirmDesired \/ ConfirmPredecessor \/ ConfirmCommit)
    => NInv'
<1> SUFFICES ASSUME TypeInv, NInv
      PROVE ConfirmAttribution \/ ConfirmDesired \/ ConfirmPredecessor \/ ConfirmCommit => NInv'
  OBVIOUS
<1> USE DEF netVars, lanVars, confirmVars, Goto, Recover,
        ApplyLabels, ConfirmLabels, RestoreLabels, StartLabels
<1>0. FilesOK /\ faults \in 0..MaxFaults /\ ControlInv /\ NetInv /\ ServiceInv /\ IdInv
  BY TypeParts DEF TypeInv, TypeOK, NInv
<1>1. ASSUME NEW from, NEW f \in {"desired", "prev", "attr"}, NEW c \in FileContents[f], NEW to,
             ConfirmWrite(from, f, c, to), f = "desired" => c = B.desired,
             <<from, f, to>> \in {<<"confirmAttr", "attr", "confirmDesired">>,
                                  <<"confirmDesired", "desired", "confirmPrev">>,
                                  <<"confirmPrev", "prev", "confirmCommit">>}
      PROVE  NInv'
  <2>1. PICK ok \in BOOLEAN :
          Durable(f, c, ok) /\ IF ok THEN pc' = to ELSE Recover
    BY <1>1 DEF ConfirmWrite
  <2>2. /\ vis'["journal"] = vis["journal"] /\ vis'["ready"] = vis["ready"]
        /\ f # "desired" => vis'["desired"] = vis["desired"]
        /\ ok /\ f = "desired" => vis'["desired"] = B.desired
    BY <1>0, <1>1, <2>1, DurableEffect, FilesKnown
  <2>3. pc' = IF ok THEN to ELSE "guard"
    BY <1>0, <1>1, <2>1, <2>2 DEF ConfirmWrite, ControlInv, PendingOperation
  <2>4. IdInv'
    BY <1>0, <1>1, <2>1, OtherFileIds, FilesKnown DEF ConfirmWrite
  <2>5. ControlInv' /\ NetInv'
    BY <1>0, <1>1, <2>2, <2>3
    DEF ConfirmWrite, ControlInv, NetInv, Serving, PendingOperation
  <2>6. ServiceInv'
    BY <1>0, <1>1, <2>2, <2>3 DEF ConfirmWrite, ServiceInv, Faithful
  <2> QED BY <2>4, <2>5, <2>6 DEF NInv
<1>2. B.desired \in State /\ A.desired \in Opt(State) /\ B.attr \in Opt(Attribution)
  BY OpType DEF TypeInv, TypeOK
<1>3. ConfirmAttribution => NInv'
  BY <1>1, <1>2, FileTypes DEF ConfirmAttribution
<1>4. ConfirmDesired => NInv'
  BY <1>1, <1>2, FileTypes DEF ConfirmDesired
<1>5. ConfirmPredecessor => NInv'
  BY <1>1, <1>2, FileTypes DEF ConfirmPredecessor
<1>6. CASE ConfirmCommit
  <2> DEFINE c == Journal("Accepted", None, None)
  <2>1. /\ c \in Opt(ApplyOperation) /\ ~PendingOperation(c) /\ c # None
        /\ c.phase = "Accepted"
    BY <1>6, UnconfirmedJournals DEF ConfirmCommit, ConfirmWrite, Journal
  <2>2. PICK ok \in BOOLEAN :
          Durable("journal", c, ok) /\ IF ok THEN pc' = "clean" ELSE Recover
    BY <1>6 DEF ConfirmCommit, ConfirmWrite
  <2>3. /\ vis'["desired"] = vis["desired"] /\ vis'["ready"] = vis["ready"]
        /\ vis'["journal"] \in {vis["journal"], c}
        /\ ok => vis'["journal"] = c
    BY <1>0, <2>1, <2>2, DurableEffect, FileTypes, FilesKnown
  <2> HIDE DEF c
  <2>4. pc' = IF ok THEN "clean" ELSE "guard"
    BY <1>0, <1>6, <2>1, <2>2, <2>3
    DEF ConfirmCommit, ConfirmWrite, ControlInv, PendingOperation
  <2>5. IdInv'
    BY <1>0, <1>6, <2>1, <2>2, UnnamedJournal DEF ConfirmCommit, ConfirmWrite
  <2>6. ControlInv' /\ NetInv'
    BY <1>0, <1>6, <2>1, <2>3, <2>4
    DEF ConfirmCommit, ConfirmWrite, ControlInv, NetInv, Serving, PendingOperation, InFlight
  <2>7. ServiceInv'
    BY <1>0, <1>6, <2>3, <2>4 DEF ConfirmCommit, ConfirmWrite, ServiceInv, Faithful
  <2> QED BY <2>5, <2>6, <2>7 DEF NInv
<1> QED BY <1>3, <1>4, <1>5, <1>6

-----------------------------------------------------------------------------
(* The steps of a restoration.                                             *)

(* Where a step of the restoration leads. *)
LEMMA ProceedTo ==
  ASSUME mode \in {"failed", "recover"}, NEW ok \in BOOLEAN, NEW l, l # "idle",
         Proceed(ok, l), failed \in BOOLEAN
  PROVE  /\ pc' \in {l, "idle"}
         /\ pc' = l /\ ~failed' => ok /\ ~failed
BY DEF Proceed, Goto, Answer

(* Forwarding is withdrawn, or the restoration stops. *)
LEMMA GuardStep == TypeInv /\ NInv /\ Guard => NInv'
<1> SUFFICES ASSUME TypeInv, NInv, Guard PROVE NInv'
  OBVIOUS
<1> USE DEF lanVars, confirmVars, ApplyLabels, ConfirmLabels, RestoreLabels, StartLabels
<1>0. ControlInv /\ NetInv /\ ServiceInv /\ IdInv
  BY DEF NInv
<1>1. PICK ok \in BOOLEAN : Proceed(ok /\ (mode = "failed" \/ InFlight(vis["journal"])), "quiesce")
  BY DEF Guard
<1>2. pc' \in {"quiesce", "idle"}
  BY <1>1 DEF Proceed, Goto, Answer
<1>3. IdInv'
  BY <1>0, SameIds DEF Guard
<1>4. ControlInv' /\ NetInv'
  BY <1>0, <1>2 DEF Guard, ControlInv, NetInv
<1>5. ServiceInv'
  BY <1>0, <1>2 DEF Guard, ServiceInv, ControlInv
<1> QED BY <1>3, <1>4, <1>5 DEF NInv

(* The LAN services marker is withdrawn. *)
LEMMA QuiesceStep == TypeInv /\ NInv /\ Quiesce => NInv'
<1> SUFFICES ASSUME TypeInv, NInv, Quiesce PROVE NInv'
  OBVIOUS
<1> USE DEF netVars, lanVars, confirmVars, ApplyLabels, ConfirmLabels, RestoreLabels, StartLabels
<1>0. FilesOK /\ faults \in 0..MaxFaults /\ ControlInv /\ NetInv /\ ServiceInv /\ IdInv
  BY TypeParts DEF TypeInv, TypeOK, NInv
<1>1. PICK ok \in BOOLEAN : SetLanServicesReady(None, ok) /\ Proceed(ok, "reprogram")
  BY DEF Quiesce
<1>2. pc' \in {"reprogram", "idle"}
  BY <1>1 DEF Proceed, Goto, Answer
<1>3. vis'["journal"] = vis["journal"]
  BY <1>0, <1>1, ReadyEffect, FilesKnown
<1>4. IdInv'
  BY <1>0, <1>1, ReadyIds DEF Quiesce
<1>5. ControlInv' /\ NetInv'
  BY <1>0, <1>2, <1>3 DEF Quiesce, ControlInv, NetInv
<1>6. ServiceInv'
  BY <1>0, <1>2, <1>3 DEF Quiesce, ServiceInv, ControlInv
<1> QED BY <1>4, <1>5, <1>6 DEF NInv

(* The network of the retained state is live again unless that failed. *)
LEMMA ReprogramStep == TypeInv /\ NInv /\ Reprogram => NInv'
<1> SUFFICES ASSUME TypeInv, NInv, Reprogram PROVE NInv'
  OBVIOUS
<1> USE DEF lanVars, confirmVars, ApplyLabels, ConfirmLabels, RestoreLabels, StartLabels
<1>0. /\ ControlInv /\ NetInv /\ ServiceInv /\ IdInv
      /\ TypeOK /\ mode \in {"failed", "recover"} /\ failed \in BOOLEAN
  BY DEF NInv, TypeInv, TypeOK
<1>1. PICK ok \in BOOLEAN, undo \in {op.footprint, {}} :
        ReplaceNetwork(Captured(Target.desired), undo, ok) /\ Proceed(ok, "redesired")
  BY DEF Reprogram
<1>2. ok => live'.net = Target.desired.net
  <2>1. Captured(Target.desired).net = Target.desired.net
    BY <1>0, TargetType, CapturedType DEF Reprogram
  <2> QED BY <1>1, <2>1, NetworkEffect
<1>3. pc' \in {"redesired", "idle"} /\ (pc' = "redesired" /\ ~failed' => ok)
  BY <1>0, <1>1, ProceedTo
<1>4. Target' = Target
  BY DEF Reprogram, Target, Retained
<1>5. IdInv'
  BY <1>0, SameIds DEF Reprogram
<1>6. ControlInv' /\ NetInv'
  BY <1>0, <1>2, <1>3, <1>4 DEF Reprogram, ControlInv, NetInv
<1>7. ServiceInv'
  BY <1>0, <1>3 DEF Reprogram, ServiceInv, ControlInv
<1> QED BY <1>5, <1>6, <1>7 DEF NInv

(* The three writes of a restoration: the first syncs every file, the      *)
(* others leave none behind.                                               *)
LEMMA RestoreSteps ==
  TypeInv /\ NInv /\ (RestoreDesired \/ RestorePredecessor \/ RestoreAttribution) => NInv'
<1> SUFFICES ASSUME TypeInv, NInv
      PROVE RestoreDesired \/ RestorePredecessor \/ RestoreAttribution => NInv'
  OBVIOUS
<1> USE DEF netVars, lanVars, confirmVars, ApplyLabels, ConfirmLabels, RestoreLabels, StartLabels
<1>0. /\ FilesOK /\ faults \in 0..MaxFaults /\ ControlInv /\ NetInv /\ ServiceInv /\ IdInv
      /\ TypeOK /\ mode \in {"failed", "recover"} /\ failed \in BOOLEAN
  BY TypeParts DEF TypeInv, TypeOK, NInv
<1>1. ASSUME NEW from, NEW f \in {"desired", "prev", "attr"}, NEW c \in FileContents[f], NEW to,
             RestoreWrite(from, f, c, to),
             f = "desired" => c # None /\ c.net = Target.desired.net,
             <<from, f, to>> \in {<<"redesired", "desired", "reprev">>,
                                  <<"reprev", "prev", "reattr">>,
                                  <<"reattr", "attr", "republish">>}
      PROVE  NInv'
  <2>1. PICK ok \in BOOLEAN : Durable(f, c, ok) /\ Proceed(ok, to)
    BY <1>1 DEF RestoreWrite
  <2>2. to # "idle"
    BY <1>1
  <2>3. pc' \in {to, "idle"} /\ (pc' = to /\ ~failed' => ok /\ ~failed)
    BY <1>0, <2>1, <2>2, ProceedTo
  <2>4. /\ vis'["journal"] = vis["journal"]
        /\ ok => vis'[f] = c
        /\ ok /\ f = "desired" => \A g \in Files : surv'[g] = {vis'[g]}
        /\ f # "desired" => vis'["desired"] = vis["desired"]
        /\ ok => \A g \in Files : surv[g] = {vis[g]} => surv'[g] = {vis'[g]}
    BY <1>0, <1>1, <2>1, DurableEffect, FilesKnown
  <2>5. IdInv'
    BY <1>0, <1>1, <2>1, OtherFileIds, FilesKnown DEF RestoreWrite
  <2>6. pc' = to /\ ~failed' => Restored'
    BY <1>0, <1>1, <2>3, <2>4, FilesKnown DEF RestoreWrite, NetInv, Restored
  <2>7. ControlInv' /\ NetInv'
    BY <1>0, <1>1, <2>3, <2>4, <2>6 DEF RestoreWrite, ControlInv, NetInv
  <2>8. ServiceInv'
    BY <1>0, <1>1, <2>3, <2>4 DEF RestoreWrite, ServiceInv, ControlInv
  <2> QED BY <2>5, <2>7, <2>8 DEF NInv
<1>2. CASE RestoreDesired
  <2>1. /\ RestoredDesired \in State /\ RestoredDesired.net = Target.desired.net
        /\ RestoredDesired # None
    BY <1>0, <1>2, TargetType, CapturedType, NoneAssumption
    DEF RestoredDesired, RestoreDesired, RestoreWrite
  <2> QED BY <1>1, <1>2, <2>1, FileTypes DEF RestoreDesired
<1>3. CASE RestorePredecessor
  BY <1>1, <1>3, TargetType, FileTypes DEF RestorePredecessor, RestoreWrite
<1>4. CASE RestoreAttribution
  BY <1>1, <1>4, TargetType, FileTypes DEF RestoreAttribution, RestoreWrite
<1> QED BY <1>2, <1>3, <1>4

(* The end of a restoration, up to the reopening of forwarding. *)
LEMMA FinishSteps ==
  TypeInv /\ NInv /\ (RestoreIncomplete \/ Republish \/ AwaitRestored \/ FinishRecovery
                      \/ ReopenRestoredForwarding)
    => NInv'
<1> SUFFICES ASSUME TypeInv, NInv
      PROVE RestoreIncomplete \/ Republish \/ AwaitRestored \/ FinishRecovery
              \/ ReopenRestoredForwarding => NInv'
  OBVIOUS
<1> USE DEF netVars, lanVars, confirmVars, Goto, Answer,
        ApplyLabels, ConfirmLabels, RestoreLabels, StartLabels
<1>0. FilesOK /\ faults \in 0..MaxFaults /\ ControlInv /\ NetInv /\ ServiceInv /\ IdInv
  BY TypeParts DEF TypeInv, TypeOK, NInv
<1>1. CASE RestoreIncomplete
  <2>1. IdInv'
    BY <1>0, <1>1, SameIds DEF RestoreIncomplete
  <2>2. ControlInv' /\ NetInv' /\ ServiceInv'
    BY <1>0, <1>1 DEF RestoreIncomplete, ControlInv, NetInv, ServiceInv
  <2> QED BY <2>1, <2>2 DEF NInv
<1>2. CASE Republish
  <2>1. PICK ok \in BOOLEAN :
          /\ Publish(ok) \/ SetLanServicesReady(None, ok)
          /\ ok => \/ Publish(ok) /\ pc' = "rewait"
                   \/ SetLanServicesReady(None, ok) /\ pc' = "finish"
          /\ ~ok => pc' = "idle"
    BY <1>2 DEF Republish
  <2>2. /\ vis'["journal"] = vis["journal"]
        /\ ok => vis'["ready"] = None \/ vis'["ready"] \notin {rec.gen, result.gen}
        /\ Restored => Restored'
    BY <1>0, <1>2, <2>1, ReadyEffect, FilesKnown DEF Republish, Restored
  <2>3. pc' \in {"rewait", "finish", "idle"} /\ (pc' # "idle" => ok)
    BY <2>1
  <2>4. IdInv'
    BY <1>0, <1>2, <2>1, ReadyIds DEF Republish
  <2>5. ControlInv' /\ NetInv'
    BY <1>0, <1>2, <2>2, <2>3 DEF Republish, ControlInv, NetInv
  <2>6. ServiceInv'
    BY <1>0, <1>2, <2>2, <2>3, FreshFaithful DEF Republish, ServiceInv, ControlInv
  <2> QED BY <2>4, <2>5, <2>6 DEF NInv
<1>3. CASE AwaitRestored
  <2>1. IdInv'
    BY <1>0, <1>3, SameIds DEF AwaitRestored
  <2>2. ControlInv' /\ NetInv' /\ ServiceInv'
    BY <1>0, <1>3 DEF AwaitRestored, ControlInv, NetInv, Restored, ServiceInv, Faithful
  <2> QED BY <2>1, <2>2 DEF NInv
<1>4. CASE FinishRecovery
  <2>1. PICK ok \in BOOLEAN :
          Durable("journal", None, ok) /\ pc' = IF ok THEN "reopen" ELSE "block"
    BY <1>4 DEF FinishRecovery
  <2>2. /\ \A g \in Files \ {"journal"} : vis'[g] = vis[g]
        /\ ok => vis'["journal"] = None
        /\ \A g \in Files \ {"journal"} : surv[g] = {vis[g]} => surv'[g] = {vis'[g]}
    BY <1>0, <2>1, DurableEffect, FileTypes, FilesKnown, PhaseTypes
  <2>3. Restored => Restored'
    BY <1>4, <2>2, FilesKnown DEF FinishRecovery, Restored
  <2>4. IdInv'
    BY <1>0, <1>4, <2>1, UnnamedJournal, PhaseTypes DEF FinishRecovery
  <2>5. ControlInv' /\ NetInv'
    BY <1>0, <1>4, <2>1, <2>2, <2>3 DEF FinishRecovery, ControlInv, NetInv
  <2>6. ServiceInv'
    BY <1>0, <1>4, <2>1, <2>2, FilesKnown DEF FinishRecovery, ServiceInv, Faithful
  <2> QED BY <2>4, <2>5, <2>6 DEF NInv
<1>5. CASE ReopenRestoredForwarding
  <2>1. IdInv'
    BY <1>0, <1>5, SameIds DEF ReopenRestoredForwarding
  <2>2. ControlInv' /\ NetInv'
    BY <1>0, <1>5 DEF ReopenRestoredForwarding, ControlInv, NetInv, Restored, Serving,
       OperationRequiresRecovery, PendingOperation
  <2>3. ServiceInv'
    BY <1>0, <1>5 DEF ReopenRestoredForwarding, ServiceInv, Faithful
  <2> QED BY <2>1, <2>2, <2>3 DEF NInv
<1> QED BY <1>1, <1>2, <1>3, <1>4, <1>5

-----------------------------------------------------------------------------
(* Startup.                                                                *)

(* run(), up to the main loop. *)
LEMMA StartSteps ==
  TypeInv /\ NInv /\ (StartInterrupted \/ StartApply \/ StartPersist \/ StartReady \/ StartClean)
    => NInv'
<1> SUFFICES ASSUME TypeInv, NInv
      PROVE StartInterrupted \/ StartApply \/ StartPersist \/ StartReady \/ StartClean => NInv'
  OBVIOUS
<1> USE DEF netVars, lanVars, confirmVars, Goto, Answer,
        ApplyLabels, ConfirmLabels, RestoreLabels, StartLabels
<1>0. /\ FilesOK /\ faults \in 0..MaxFaults /\ ControlInv /\ NetInv /\ ServiceInv /\ IdInv
      /\ TypeOK /\ vis["desired"] \in State
  BY TypeParts, FileTypes DEF TypeInv, TypeOK, NInv
<1>1. CASE StartInterrupted
  <2>1. IdInv'
    BY <1>0, <1>1, SameIds DEF StartInterrupted
  <2>2. ControlInv' /\ NetInv' /\ ServiceInv'
    BY <1>0, <1>1 DEF StartInterrupted, ControlInv, NetInv, ServiceInv, InFlight
  <2> QED BY <2>1, <2>2 DEF NInv
<1>2. CASE StartApply
  <2>1. PICK ok \in BOOLEAN :
          ApplyNetwork(Captured(vis["desired"]), ok) /\ pc' = IF ok THEN "startPersist" ELSE "down"
    BY <1>2 DEF StartApply
  <2> DEFINE c == Captured(vis["desired"])
  <2>2. c.net = vis["desired"].net
    BY <1>0, CapturedType
  <2> HIDE DEF c
  <2>3. ok => live'.net = c.net /\ policy' = [kind |-> "open", net |-> c.net]
    BY <1>0, <1>2, <2>1, NetworkEffect DEF StartApply, ControlInv, c
  <2>4. ok => Serving(vis["desired"].net)'
    BY <1>2, <2>2, <2>3 DEF StartApply, Serving
  <2>5. IdInv'
    BY <1>0, <1>2, SameIds DEF StartApply
  <2>6. ControlInv' /\ NetInv' /\ ServiceInv'
    BY <1>0, <1>2, <2>1, <2>4 DEF StartApply, ControlInv, NetInv, ServiceInv
  <2> QED BY <2>5, <2>6 DEF NInv
<1>3. CASE StartPersist
  <2> DEFINE c == Captured(vis["desired"])
  <2>1. c \in State /\ c.net = vis["desired"].net
    BY <1>0, CapturedType
  <2>2. PICK ok \in BOOLEAN :
          Durable("desired", c, ok) /\ pc' = IF ok THEN "startReady" ELSE "down"
    BY <1>3 DEF StartPersist
  <2> HIDE DEF c
  <2>3. vis'["journal"] = vis["journal"] /\ vis'["desired"].net = vis["desired"].net
    BY <1>0, <2>1, <2>2, DurableEffect, FileTypes, FilesKnown
  <2>4. IdInv'
    BY <1>0, <1>3, <2>1, <2>2, OtherFileIds, FileTypes, FilesKnown DEF StartPersist
  <2>5. ControlInv' /\ NetInv' /\ ServiceInv'
    BY <1>0, <1>3, <2>2, <2>3 DEF StartPersist, ControlInv, NetInv, Serving, ServiceInv
  <2> QED BY <2>4, <2>5 DEF NInv
<1>4. CASE StartReady
  <2>1. PICK ok \in BOOLEAN : Publish(ok) /\ pc' = IF ok THEN "startClean" ELSE "down"
    BY <1>4 DEF StartReady
  <2>2. /\ vis'["journal"] = vis["journal"] /\ vis'["desired"] = vis["desired"]
        /\ ok => vis'["ready"] \notin {rec.gen, result.gen}
    BY <1>0, <2>1, ReadyEffect, FilesKnown
  <2>3. IdInv'
    BY <1>0, <1>4, <2>1, ReadyIds DEF StartReady
  <2>4. ControlInv' /\ NetInv'
    BY <1>0, <1>4, <2>1, <2>2 DEF StartReady, ControlInv, NetInv, Serving
  <2>5. ServiceInv'
    BY <1>0, <1>4, <2>1, <2>2, FreshFaithful DEF StartReady, ServiceInv
  <2> QED BY <2>3, <2>4, <2>5 DEF NInv
<1>5. CASE StartClean
  <2>1. PICK ok \in BOOLEAN : Durable("journal", None, ok)
    BY <1>5 DEF StartClean
  <2>2. /\ vis'["desired"] = vis["desired"] /\ vis'["ready"] = vis["ready"]
        /\ vis'["journal"] \in {vis["journal"], None}
    BY <1>0, <2>1, DurableEffect, FileTypes, FilesKnown, PhaseTypes
  <2>3. IdInv'
    BY <1>0, <1>5, <2>1, UnnamedJournal, PhaseTypes DEF StartClean
  <2>4. ControlInv' /\ NetInv'
    BY <1>0, <1>5, <2>2 DEF StartClean, ControlInv, NetInv, Serving,
       OperationRequiresRecovery, PendingOperation, InFlight
  <2>5. ServiceInv'
    BY <1>0, <1>5, <2>2 DEF StartClean, ServiceInv, Faithful
  <2> QED BY <2>3, <2>4, <2>5 DEF NInv
<1> QED BY <1>1, <1>2, <1>3, <1>4, <1>5

-----------------------------------------------------------------------------
(* Requests and the environment.                                           *)

(* An apply begins where nothing needs recovery or confirmation. *)
LEMMA BeginEffect ==
  ASSUME NEW s, NEW intent, NEW actor, Begin(s, intent, actor)
  PROVE  /\ pc' = "retain" /\ ~recoveryRequired
         /\ ~OperationRequiresRecovery(vis["journal"]) /\ ~PendingOperation(vis["journal"])
BY DEF Begin, Goto, ApplyBusy, RecoveryPending

(* apply, restore-previous and confirm-apply arrive in the main loop. *)
LEMMA RequestSteps == TypeInv /\ NInv /\ Requests => NInv'
<1> SUFFICES ASSUME TypeInv, NInv, Requests PROVE NInv'
  OBVIOUS
<1> USE DEF netVars, lanVars, confirmVars, Goto,
        ApplyLabels, ConfirmLabels, RestoreLabels, StartLabels
<1>0. ControlInv /\ NetInv /\ ServiceInv /\ IdInv /\ vis["journal"] \in Opt(ApplyOperation)
  BY FileTypes DEF NInv, TypeInv, TypeOK
<1>1. /\ UNCHANGED <<vis, surv, recoveryRequired, live, policy, rec, result, svc, seen, ids>>
      /\ pc = "idle"
  BY Zenon DEF Requests, ApplyDesired, RestorePrevious, ConfirmApply
<1>2. IdInv'
  BY <1>0, <1>1, SameIds
<1>3. InFlight(vis["journal"]) <=>
        OperationRequiresRecovery(vis["journal"]) \/ PendingOperation(vis["journal"])
  BY <1>0 DEF InFlight, OperationRequiresRecovery, PendingOperation, Opt, ApplyOperation, Phases
<1>4. ASSUME pc' = "retain", ~recoveryRequired, ~OperationRequiresRecovery(vis["journal"]),
             ~PendingOperation(vis["journal"])
      PROVE  NInv'
  <2>1. ControlInv' /\ NetInv'
    BY <1>0, <1>1, <1>3, <1>4 DEF ControlInv, NetInv, Serving
  <2>2. ServiceInv'
    BY <1>0, <1>1, <1>4 DEF ServiceInv, Faithful
  <2> QED BY <1>2, <2>1, <2>2 DEF NInv
<1>5. ASSUME NEW actor \in Actors, NEW p \in Proposals, ApplyDesired(p, actor)
      PROVE  NInv'
  BY <1>4, <1>5, BeginEffect DEF ApplyDesired
<1>6. ASSUME NEW actor \in Actors, RestorePrevious(actor)
      PROVE  NInv'
  <2>1. CASE /\ RecoveryPending
             /\ pc' = IF recoveryRequired /\ vis["journal"] = None THEN "reopen" ELSE "guard"
    <3>1. ControlInv' /\ NetInv'
      BY <1>0, <1>1, <2>1 DEF ControlInv, NetInv, Restored, RecoveryPending,
         OperationRequiresRecovery
    <3>2. ServiceInv'
      BY <1>0, <1>1, <2>1 DEF ServiceInv, Faithful
    <3> QED BY <1>2, <3>1, <3>2 DEF NInv
  <2>2. CASE Begin(vis["prev"], "RecoveryRestore", actor)
    BY <1>4, <2>2, BeginEffect
  <2> QED BY <1>6, <2>1, <2>2 DEF RestorePrevious
<1>7. ASSUME NEW actor \in Actors, NEW t \in seen, ConfirmApply(t, actor)
      PROVE  NInv'
  <2>1. PendingOperation(vis["journal"]) /\ ~recoveryRequired
    BY <1>7 DEF ConfirmApply, RecoveryPending
  <2>2. CASE pc' = "guard"
    <3>1. ControlInv' /\ NetInv' /\ ServiceInv'
      BY <1>0, <1>1, <2>1, <2>2 DEF ControlInv, NetInv, ServiceInv, PendingOperation
    <3> QED BY <1>2, <3>1 DEF NInv
  <2>3. CASE pc' = "confirmAttr" /\ op'.after.desired = vis["journal"].proposed
    <3>1. ControlInv' /\ NetInv'
      BY <1>0, <1>1, <2>1, <2>3 DEF ControlInv, NetInv, Serving
    <3>2. ServiceInv'
      BY <1>0, <1>1, <2>1, <2>3 DEF ServiceInv, Faithful
    <3> QED BY <1>2, <3>1, <3>2 DEF NInv
  <2>4. op \in Op
    BY DEF TypeInv, TypeOK
  <2>5. \/ pc' = "guard"
        \/ pc' = "confirmAttr" /\ op'.after.desired = vis["journal"].proposed
    <3>1. CASE pc' = "confirmAttr"
      <4>1. PICK at :
              op' = [op EXCEPT !.before = Retained(vis["journal"]),
                               !.after = [desired |-> vis["journal"].proposed,
                                          prev |-> vis["journal"].accepted, attr |-> at]]
        BY <1>7, <3>1 DEF ConfirmApply
      <4> QED BY <2>4, <3>1, <4>1 DEF Op
    <3> QED BY <1>7, <3>1 DEF ConfirmApply
  <2> QED BY <2>2, <2>3, <2>5
<1> QED BY <1>5, <1>6, <1>7 DEF Requests

(* The reconciler's turns keep what it knows true; a process end or a      *)
(* power loss leaves only the confirmation ids to keep.                    *)
LEMMA OtherSteps ==
  TypeInv /\ NInv /\ (ExpirePendingConfirmation \/ Poll \/ ReconcileStart \/ ReconcileDone
                      \/ Environment \/ UNCHANGED vars)
    => NInv'
<1> SUFFICES ASSUME TypeInv, NInv
      PROVE ExpirePendingConfirmation \/ Poll \/ ReconcileStart \/ ReconcileDone
              \/ Environment \/ UNCHANGED vars => NInv'
  OBVIOUS
<1> USE DEF netVars, lanVars, confirmVars, Goto,
        ApplyLabels, ConfirmLabels, RestoreLabels, StartLabels
<1>0. ControlInv /\ NetInv /\ ServiceInv /\ IdInv
  BY DEF NInv
<1>1. CASE ExpirePendingConfirmation
  <2>1. IdInv'
    BY <1>0, <1>1, SameIds DEF ExpirePendingConfirmation
  <2>2. ControlInv' /\ NetInv' /\ ServiceInv'
    BY <1>0, <1>1 DEF ExpirePendingConfirmation, ControlInv, NetInv, ServiceInv, PendingOperation
  <2> QED BY <2>1, <2>2 DEF NInv
<1>2. CASE Poll \/ UNCHANGED vars
  BY <1>2 DEF Poll, vars, NInv, ControlInv, NetInv, Serving, Restored, Target, ServiceInv,
     Faithful, IdInv, Names
<1>3. CASE ReconcileStart
  <2>1. UNCHANGED <<vis, surv, recoveryRequired, live, policy, pc, mode, failed, op, seen, ids>>
    BY <1>3 DEF ReconcileStart
  <2>2. Faithful => Faithful'
    BY <1>3, <2>1 DEF ReconcileStart, Faithful
  <2>3. IdInv' /\ ControlInv'
    BY <1>0, <2>1 DEF IdInv, Names, ControlInv
  <2>4. NetInv'
    BY <1>0, <2>1 DEF NetInv, Serving, Restored, Target
  <2>5. ServiceInv'
    BY <1>0, <2>1, <2>2 DEF ServiceInv
  <2> QED BY <2>3, <2>4, <2>5 DEF NInv
<1>4. CASE ReconcileDone
  <2>1. UNCHANGED <<vis, surv, recoveryRequired, live, policy, pc, mode, failed, op, seen, ids>>
    BY <1>4 DEF ReconcileDone
  <2>2. Faithful => Faithful'
    BY <1>4, <2>1 DEF ReconcileDone, Faithful
  <2>3. IdInv' /\ ControlInv'
    BY <1>0, <2>1 DEF IdInv, Names, ControlInv
  <2>4. NetInv'
    BY <1>0, <2>1 DEF NetInv, Serving, Restored, Target
  <2>5. ServiceInv'
    BY <1>0, <2>1, <2>2 DEF ServiceInv
  <2> QED BY <2>3, <2>4, <2>5 DEF NInv
<1>5. CASE ProcessEnds
  <2>1. IdInv'
    BY <1>0, <1>5, SameIds DEF ProcessEnds
  <2>2. ControlInv' /\ NetInv' /\ ServiceInv'
    BY <1>5 DEF ProcessEnds, ControlInv, NetInv, ServiceInv
  <2> QED BY <2>1, <2>2 DEF NInv
<1>6. CASE PowerLoss
  <2>1. vis'["journal"] \in surv["journal"] /\ surv'["journal"] = {vis'["journal"]}
    <3>1. PICK d \in surv["desired"], j \in surv["journal"], p \in surv["prev"],
               a \in surv["attr"], r \in surv["ready"] :
            /\ vis' = [desired |-> d, journal |-> j, prev |-> p, attr |-> a, ready |-> r]
            /\ surv' = [g \in Files |-> {vis'[g]}]
      BY <1>6 DEF PowerLoss
    <3> QED BY <3>1, FilesKnown
  <2>2. IdInv'
    BY <1>0, <1>6, <2>1, SameIds DEF PowerLoss
  <2>3. ControlInv' /\ NetInv' /\ ServiceInv'
    BY <1>6 DEF PowerLoss, ControlInv, NetInv, ServiceInv
  <2> QED BY <2>2, <2>3 DEF NInv
<1>7. CASE DeadlinePasses
  BY <1>7 DEF DeadlinePasses, NInv, ControlInv, NetInv, Serving, Restored, Target, ServiceInv,
     Faithful, IdInv, Names
<1> QED BY <1>1, <1>2, <1>3, <1>4, <1>5, <1>6, <1>7 DEF Environment

-----------------------------------------------------------------------------
(* The theorems.                                                           *)

LEMMA NetworkInit == Init => NInv
<1> SUFFICES ASSUME Init PROVE NInv
  OBVIOUS
<1>1. /\ pc = "down" /\ ~recoveryRequired /\ vis["journal"] = None /\ surv["journal"] = {None}
      /\ seen = {} /\ ids = 0
  BY FilesKnown DEF Init
<1> QED BY <1>1, PhaseTypes DEF NInv, ControlInv, NetInv, ServiceInv, IdInv, Names,
     ApplyLabels, ConfirmLabels, RestoreLabels, StartLabels

LEMMA NetworkStep == TypeInv /\ NInv /\ [Next]_vars => NInv'
BY RetainStep, ServiceCalls, ProgramStep, WriteSteps, JournalSteps, BlockStep, ConfirmSteps,
   GuardStep, QuiesceStep, ReprogramStep, RestoreSteps, FinishSteps, StartSteps,
   RequestSteps, OtherSteps, Zenon
DEF Next, Steps

LEMMA NetworkInvariant == Spec => [](TypeInv /\ NInv)
<1>1. Init => TypeInv /\ NInv
  BY TypeInit, NetworkInit
<1>2. TypeInv /\ NInv /\ [Next]_vars => TypeInv' /\ NInv'
  BY TypeStep, NetworkStep
<1> QED BY <1>1, <1>2, PTL DEF Spec

(* Whenever netd waits for requests and requires no recovery, the kernel   *)
(* network and its rules are those of the Accepted state on disk, or of    *)
(* the proposal a client is asked to confirm.                              *)
THEOREM AlwaysServesAccepted == Spec => []ServesAccepted
<1>1. NInv => ServesAccepted
  BY DEF NInv, NetInv, Serving, ServesAccepted
<1> QED BY <1>1, NetworkInvariant, PTL

(* recover_interrupted_apply skips the restoration when it finds no        *)
(* journal; then everything it would have restored is live and durable.    *)
THEOREM RetryIsSound == Spec => []RetryOnlyReopens
<1>1. NInv => RetryOnlyReopens
  BY DEF NInv, NetInv, Restored, RetryOnlyReopens
<1> QED BY <1>1, NetworkInvariant, PTL

(* confirm_apply compares a revision and an id; whatever was rolled back   *)
(* in between, they name the very proposal the client was shown.           *)
THEOREM ConfirmsShown == Spec => []ConfirmsWhatWasShown
<1>1. NInv => ConfirmsWhatWasShown
  BY DEF NInv, IdInv, Names, ConfirmMatches, ConfirmsWhatWasShown
<1> QED BY <1>1, NetworkInvariant, PTL

(* restoration_status, as the update health check reads it: a result for   *)
(* the published generation speaks of the live network, be it Accepted or  *)
(* still to be confirmed.                                                  *)
THEOREM HealthIsTruthful == Spec => []HealthTruthful
<1>1. NInv => HealthTruthful
  BY DEF NInv, NetInv, Serving, ServiceInv, Faithful, HealthTruthful, RestoredStatus,
     RecoveryPending
<1> QED BY <1>1, NetworkInvariant, PTL

(* wait_lan_services: nothing is written as Accepted, nor offered for      *)
(* confirmation, before the reconciler configured the LAN services for the *)
(* proposed network.                                                       *)
THEOREM ServedFirst == Spec => ServedBeforeAccepted
<1>1. TypeInv /\ NInv /\ [Next]_vars =>
        [pc = "wait" /\ pc' \in {"desired", "pend"} => svc = op.after.desired.net]_vars
  <2> SUFFICES ASSUME NInv, pc = "wait", pc' \in {"desired", "pend"}, Next
               PROVE  svc = B.desired.net
    BY DEF vars
  <2>1. AwaitServices
    <3>1. CASE Steps
      BY <3>1
      DEF Steps, Retain, Suspend, Unsuspend, Forget, ProgramProposed, PublishServices,
          PersistProposed, PersistPredecessor, WriteAttribution, ApplyWrite, Commit, Clean,
          Pend, Block, ConfirmAttribution, ConfirmDesired, ConfirmPredecessor, ConfirmCommit,
          ConfirmWrite, Guard, Quiesce, Reprogram, RestoreDesired, RestorePredecessor,
          RestoreAttribution, RestoreWrite, RestoreIncomplete, Republish, AwaitRestored,
          FinishRecovery, ReopenRestoredForwarding, StartInterrupted, StartApply,
          StartPersist, StartReady, StartClean
    <3>2. CASE ~Steps
      BY <3>2
      DEF Next, Requests, ApplyDesired, RestorePrevious, ConfirmApply, Poll,
          ExpirePendingConfirmation, ReconcileStart, ReconcileDone, Environment,
          ProcessEnds, PowerLoss, DeadlinePasses
    <3> QED BY <3>1, <3>2
  <2>2. result.gen = vis["ready"] /\ result.ok
    BY <2>1 DEF AwaitServices, WaitLanServices, RestoreFailed
  <2>3. vis["ready"] # None /\ Faithful /\ live.net = B.desired.net
    BY DEF NInv, ServiceInv, NetInv, Serving
  <2> QED BY <2>2, <2>3 DEF Faithful
<1> QED BY <1>1, NetworkInvariant, PTL DEF Spec, ServedBeforeAccepted

(* Only startup and the end of a recovery open forwarding that was closed: *)
(* both for the Accepted network, once it is live and nothing in flight.   *)
LEMMA OpensBy ==
  ASSUME TypeInv, NInv, Next, policy.kind # "open", policy'.kind = "open"
  PROVE  StartApply \/ ReopenRestoredForwarding
<1>1. policy' # policy
  OBVIOUS
<1>2. ~ProgramProposed
  BY DEF ProgramProposed, NInv, NetInv, Serving
<1>3. ~Reprogram
  <2> SUFFICES ASSUME Reprogram PROVE FALSE
    OBVIOUS
  <2>1. recoveryRequired
    BY DEF Reprogram, NInv, ControlInv, RestoreLabels
  <2> DEFINE s == Captured(Target.desired)
  <2>2. PICK undo \in {op.footprint, {}}, ok \in BOOLEAN : ReplaceNetwork(s, undo, ok)
    BY DEF Reprogram
  <2>3. policy' = Rules(s)
    BY <1>1, <2>2, NetworkEffect
  <2> QED BY <2>1, <2>3 DEF Rules
<1>4. \A ok : RequireRecoveryGuard(ok) => policy'.kind # "open"
  BY DEF RequireRecoveryGuard
<1>5. ~Guard /\ ~Block /\ ~StartInterrupted
  BY <1>4 DEF Guard, Block, StartInterrupted
<1>6. ~Environment
  BY <1>1 DEF Environment, ProcessEnds, PowerLoss, DeadlinePasses, netVars
<1>7. ~(Requests \/ ExpirePendingConfirmation \/ Poll \/ ReconcileStart \/ ReconcileDone)
  BY <1>1, Zenon DEF Requests, ApplyDesired, RestorePrevious, ConfirmApply,
     ExpirePendingConfirmation, Poll, ReconcileStart, ReconcileDone, vars, netVars
<1>8. ASSUME Steps PROVE StartApply \/ ReopenRestoredForwarding
  BY <1>1, <1>2, <1>3, <1>5, <1>8, Zenon
  DEF Steps, Retain, Suspend, Unsuspend, Forget, PublishServices, AwaitServices,
      PersistProposed, PersistPredecessor, WriteAttribution, ApplyWrite, Commit, Clean,
      Pend, ConfirmAttribution, ConfirmDesired, ConfirmPredecessor, ConfirmCommit,
      ConfirmWrite, Quiesce, RestoreDesired, RestorePredecessor,
      RestoreAttribution, RestoreWrite, RestoreIncomplete, Republish, AwaitRestored,
      FinishRecovery, StartPersist, StartReady, StartClean, netVars
<1> QED BY <1>6, <1>7, <1>8 DEF Next

(* The guard of a failed or interrupted apply is lifted only when the      *)
(* Accepted network is the live one and no operation is left in flight.    *)
THEOREM ReopensForAccepted == Spec => ReopensOnlyAccepted
<1>1. TypeInv /\ NInv /\ [Next]_vars =>
        [policy.kind # "open" /\ policy'.kind = "open" =>
           /\ policy'.net = vis'["desired"].net /\ live'.net = vis'["desired"].net
           /\ ~InFlight(vis'["journal"])]_vars
  <2> SUFFICES ASSUME TypeInv, NInv, Next, policy.kind # "open", policy'.kind = "open"
               PROVE  /\ policy'.net = vis'["desired"].net /\ live'.net = vis'["desired"].net
                      /\ ~InFlight(vis'["journal"])
    OBVIOUS
  <2>1. CASE ReopenRestoredForwarding
    <3>1. live.net = vis["desired"].net /\ vis["journal"] = None
      BY <2>1 DEF ReopenRestoredForwarding, NInv, NetInv, ControlInv, Restored
    <3>2. /\ policy' = [kind |-> "open", net |-> vis["desired"].net]
          /\ vis' = vis /\ live' = live
      BY <2>1 DEF ReopenRestoredForwarding
    <3> QED BY <3>1, <3>2 DEF InFlight
  <2>2. CASE StartApply
    <3>1. PICK ok \in BOOLEAN :
            /\ ApplyNetwork(Captured(vis["desired"]), ok)
            /\ pc' = IF ok THEN "startPersist" ELSE "down"
      BY <2>2 DEF StartApply, Goto
    <3>2. ok
      BY <3>1 DEF ApplyNetwork
    <3>3. NInv'
      BY <2>2, StartSteps
    <3>4. Serving(vis["desired"].net)'
      BY <3>1, <3>2, <3>3 DEF NInv, NetInv, StartLabels
    <3>5. vis' = vis /\ ~InFlight(vis["journal"])
      BY <2>2 DEF StartApply
    <3> QED BY <3>4, <3>5 DEF Serving
  <2> QED BY <2>1, <2>2, OpensBy
<1> QED BY <1>1, NetworkInvariant, PTL DEF Spec, ReopensOnlyAccepted
=============================================================================
