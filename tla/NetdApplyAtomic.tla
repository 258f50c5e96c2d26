-------------------------- MODULE NetdApplyAtomic ---------------------------
(***************************************************************************)
(* The apply transaction is atomic and truthful to its clients across      *)
(* failures, process ends and power losses, and implements the abstract    *)
(* store of Accepted states, for any networks, proposals, revisions and    *)
(* bounds.                                                                 *)
(***************************************************************************)
EXTENDS NetdApplyProofs

USE DEF A, B

(* Every proposal lists the addresses of its LAN and UI interfaces, so     *)
(* that apply() captures none from the live network.                       *)
AllAddressed == \A p \in Proposals : p.addrs # {}

-----------------------------------------------------------------------------
(* The inductive invariant.                                                *)

(* A state netd read as Accepted or proposes, with its older predecessor. *)
WellFormed(t) ==
  /\ t.desired.rev # 0 /\ t.desired.addrs # {}
  /\ t.prev # None => t.prev.addrs # {} /\ t.prev.rev # 0 /\ t.prev.rev < t.desired.rev

OpInv == WellFormed(A) /\ WellFormed(B)

(* All contents that may survive belong to the state before, or after. *)
Untouched ==
  /\ \A d \in surv["desired"] : AcceptedDesired(d) = A.desired
  /\ \A p \in surv["prev"] : p = A.prev
  /\ \A a \in surv["attr"] : a = A.attr
DesiredWritten == \A d \in surv["desired"] : AcceptedDesired(d) = B.desired
PrevWritten == \A p \in surv["prev"] : p = B.prev
AttrWritten == \A a \in surv["attr"] : a = B.attr
Committed == DesiredWritten /\ PrevWritten /\ AttrWritten

AllFlight == \A j \in surv["journal"] : InFlight(j)
NoFlight == \A j \in surv["journal"] : ~InFlight(j)

(* Any journal that recovery could act on retains the state before, and a  *)
(* pending one the next revision.                                          *)
GoodJournal(j) ==
  /\ InFlight(j) => Retained(j) = A
  /\ PendingOperation(j) => j.proposed.addrs # {} /\ j.proposed.rev = j.accepted.rev + 1
JournalInv == \A j \in surv["journal"] : GoodJournal(j)

VisibleMaySurvive == \A f \in Files : vis[f] \in surv[f]

(* While the visible journal is in flight nothing but A can come back;     *)
(* without it, all of A or all of B does.                                  *)
DiskInv ==
  /\ InFlight(vis["journal"]) => Untouched \/ AllFlight
  /\ ~InFlight(vis["journal"]) => Untouched \/ Committed

(* The restoration has written A's files so far, and nothing else is left. *)
Synced(f) == surv[f] = {vis[f]}
AllSynced == Synced("desired") /\ Synced("prev") /\ Synced("attr") /\ Synced("journal")
DesiredRestored == AllSynced /\ AcceptedDesired(vis["desired"]) = A.desired
PrevRestored == DesiredRestored /\ vis["prev"] = A.prev
AllRestored == PrevRestored /\ vis["attr"] = A.attr

(* What holds at each step of the transaction. *)
ApplyInv ==
  /\ pc \in ApplyLabels \cup ConfirmLabels \cup {"clean"} =>
       reply = "none" /\ ~recoveryRequired /\ B.prev = A.desired
  /\ pc \in {"retain", "suspend", "program", "publish", "wait", "pend"} =>
       B.desired.rev = A.desired.rev + 1
  /\ pc \in {"retain", "suspend", "unsuspend", "forget", "program", "publish", "wait", "pend"} =>
       Untouched
  /\ pc = "retain" => ~InFlight(vis["journal"])
  /\ pc \in ApplyLabels \cup ConfirmLabels => pc = "retain" \/ AllFlight
  /\ pc \in {"prev", "attr", "commit", "confirmPrev", "confirmCommit", "clean"} => DesiredWritten
  /\ pc \in {"attr", "commit", "confirmCommit", "clean"} => PrevWritten
  /\ pc \in {"commit", "confirmDesired", "confirmPrev", "confirmCommit", "clean"} => AttrWritten
  /\ pc = "clean" => NoFlight

RestoreInv ==
  /\ pc \in RestoreLabels => InFlight(vis["journal"]) /\ recoveryRequired
  /\ pc = "guard" => vis["journal"] # None
  /\ pc = "guard" /\ mode = "failed" => InFlight(vis["journal"])
  /\ pc = "reprev" /\ ~failed => DesiredRestored
  /\ pc = "reattr" /\ ~failed => PrevRestored
  /\ pc = "republish" /\ ~failed => AllRestored
  /\ pc \in {"rewait", "finish", "reopen"} => Untouched
  /\ pc = "reopen" => vis["journal"] = None

QuietInv ==
  /\ pc = "idle" /\ vis["journal"] = None => Untouched \/ ~recoveryRequired
  /\ pc = "block" /\ vis["journal"] = None => Untouched
  /\ pc \in StartLabels \cup {"down"} => ~recoveryRequired
  /\ pc \in StartLabels => ~InFlight(vis["journal"])
  /\ pc \in {"startReady", "startClean"} => NoFlight
  /\ pc = "idle" /\ ~ApplyBusy => Untouched \/ NoFlight
  /\ pc = "idle" /\ ~RecoveryPending /\ PendingOperation(vis["journal"]) => AllFlight

ReplyInv ==
  /\ reply = "accepted" => Committed /\ NoFlight
  /\ reply \in {"restored", "unchanged", "pending"} => Untouched \/ AllFlight

FilesInv == OpInv /\ VisibleMaySurvive /\ JournalInv /\ DiskInv
StepInv == ApplyInv /\ RestoreInv /\ QuietInv /\ ReplyInv
IInv == FilesInv /\ StepInv

-----------------------------------------------------------------------------
(* What the invariant says of the properties.                              *)

LEMMA TripleParts ==
  ASSUME NEW t \in Triple
  PROVE  t = [desired |-> t.desired, prev |-> t.prev, attr |-> t.attr]
BY DEF Triple

LEMMA IInvAtomic == TypeOK /\ FilesInv => AtomicOutcome
<1> SUFFICES ASSUME TypeOK, FilesInv PROVE AtomicOutcome
  OBVIOUS
<1> USE DEF FilesInv
<1>1. A = [desired |-> A.desired, prev |-> A.prev, attr |-> A.attr]
  BY TripleParts, OpType DEF TypeOK
<1>5. B = [desired |-> B.desired, prev |-> B.prev, attr |-> B.attr]
  BY TripleParts, OpType DEF TypeOK
<1>2. ASSUME NEW j \in surv["journal"], NEW d \in surv["desired"],
             NEW p \in surv["prev"], NEW a \in surv["attr"]
      PROVE  /\ InFlight(j) => Outcome(j, d, p, a) = A
             /\ Untouched => Outcome(j, d, p, a) = A
             /\ Committed => Outcome(j, d, p, a) \in {A, B}
  <2>1. InFlight(j) => Retained(j) = A
    BY DEF JournalInv, GoodJournal
  <2> QED BY <1>1, <1>5, <2>1 DEF Outcome, Untouched, Committed, DesiredWritten, PrevWritten, AttrWritten
<1>3. ASSUME NEW j \in surv["journal"], NEW d \in surv["desired"],
             NEW p \in surv["prev"], NEW a \in surv["attr"]
      PROVE  Outcome(j, d, p, a) \in {A, B}
  BY <1>2 DEF DiskInv, AllFlight
<1>4. VisibleOutcome \in {A, B}
  BY <1>3, FilesKnown DEF VisibleOutcome, VisibleMaySurvive
<1> QED BY <1>3, <1>4 DEF AtomicOutcome, OnEveryDisk

LEMMA IInvTruthful == TypeOK /\ IInv => ReplyTruthful
<1> SUFFICES ASSUME TypeOK, IInv PROVE ReplyTruthful
  OBVIOUS
<1> USE DEF IInv, FilesInv, StepInv
<1>1. A = [desired |-> A.desired, prev |-> A.prev, attr |-> A.attr]
  BY TripleParts, OpType DEF TypeOK
<1>5. B = [desired |-> B.desired, prev |-> B.prev, attr |-> B.attr]
  BY TripleParts, OpType DEF TypeOK
<1>2. ASSUME NEW j \in surv["journal"], NEW d \in surv["desired"],
             NEW p \in surv["prev"], NEW a \in surv["attr"]
      PROVE  /\ Untouched \/ AllFlight => Outcome(j, d, p, a) = A
             /\ Committed /\ NoFlight => Outcome(j, d, p, a) = B
  <2>1. InFlight(j) => Retained(j) = A
    BY DEF JournalInv, GoodJournal
  <2> QED BY <1>1, <1>5, <2>1 DEF Outcome, Untouched, Committed, DesiredWritten, PrevWritten, AttrWritten,
       AllFlight, NoFlight
<1> QED BY <1>2 DEF ReplyTruthful, OnEveryDisk, ReplyInv

LEMMA IInvOlder == TypeOK /\ FilesInv => PredecessorOlder
<1> SUFFICES ASSUME TypeOK, FilesInv PROVE PredecessorOlder
  OBVIOUS
<1>1. ASSUME NEW t \in {A, B} PROVE t.prev # None => t.prev.rev > 0 /\ t.prev.rev < t.desired.rev
  <2>1. t \in Triple /\ WellFormed(t)
    BY OpType DEF TypeOK, FilesInv, OpInv
  <2>2. t.prev # None => t.prev.rev \in 0..MaxRev
    BY <2>1 DEF Triple, Opt, State
  <2> QED BY <2>1, <2>2 DEF WellFormed
<1>2. \A j \in surv["journal"], d \in surv["desired"], p \in surv["prev"], a \in surv["attr"] :
        Outcome(j, d, p, a) \in {A, B}
  BY IInvAtomic DEF AtomicOutcome, OnEveryDisk
<1> QED BY <1>1, <1>2 DEF PredecessorOlder, OnEveryDisk

-----------------------------------------------------------------------------
(* How the files change.                                                   *)

(* A durable call can only add its content to what may survive of its own  *)
(* file, and a successful one leaves what is visible and nothing else.     *)
LEMMA DurableSurvivors ==
  ASSUME FilesOK, VisibleMaySurvive, NEW f \in Files, NEW c \in FileContents[f],
         NEW ok \in BOOLEAN, Durable(f, c, ok)
  PROVE  /\ VisibleMaySurvive'
         /\ vis'[f] \in {vis[f], c}
         /\ \A g \in Files : g # f => vis'[g] = vis[g] /\ surv'[g] \subseteq surv[g]
         /\ surv'[f] \subseteq surv[f] \cup {c}
         /\ ok => vis'[f] = c
         /\ ok /\ c # None => \A g \in Files : surv'[g] = {vis'[g]}
         /\ ok => \A g \in Files : surv[g] = {vis[g]} => surv'[g] = {vis'[g]}
BY DEF Durable, FilesOK, VisibleMaySurvive

(* Nothing new may survive of the four files of the transaction. *)
Shrinks ==
  /\ op' = op
  /\ surv'["desired"] \subseteq surv["desired"] /\ surv'["prev"] \subseteq surv["prev"]
  /\ surv'["attr"] \subseteq surv["attr"] /\ surv'["journal"] \subseteq surv["journal"]

LEMMA ShrinkKeeps ==
  ASSUME Shrinks
  PROVE  /\ Untouched => Untouched'
         /\ DesiredWritten => DesiredWritten'
         /\ PrevWritten => PrevWritten'
         /\ AttrWritten => AttrWritten'
         /\ Committed => Committed'
         /\ AllFlight => AllFlight'
         /\ NoFlight => NoFlight'
         /\ JournalInv => JournalInv'
         /\ OpInv => OpInv'
<1>1. Untouched => Untouched'
  BY DEF Shrinks, Untouched
<1>2. /\ DesiredWritten => DesiredWritten'
      /\ PrevWritten => PrevWritten'
      /\ AttrWritten => AttrWritten'
      /\ Committed => Committed'
  BY DEF Shrinks, DesiredWritten, PrevWritten, AttrWritten, Committed
<1>3. (AllFlight => AllFlight') /\ (NoFlight => NoFlight') /\ (JournalInv => JournalInv')
  BY DEF Shrinks, AllFlight, NoFlight, JournalInv, GoodJournal
<1>4. OpInv => OpInv'
  BY DEF Shrinks, OpInv, WellFormed
<1> QED BY <1>1, <1>2, <1>3, <1>4

(* A step that changes none of the four files. *)
LEMMA SameFiles ==
  ASSUME FilesInv, op' = op, vis' = vis, surv' = surv
  PROVE  FilesInv' /\ Shrinks
<1>1. Shrinks
  BY DEF Shrinks
<1> QED BY <1>1, ShrinkKeeps DEF FilesInv, VisibleMaySurvive, DiskInv

(* Publishing or withdrawing the LAN services marker changes none either. *)
LEMMA ReadyKeeps ==
  ASSUME TypeOK, FilesInv, op' = op, NEW ok \in BOOLEAN,
         Publish(ok) \/ SetLanServicesReady(None, ok)
  PROVE  /\ FilesInv' /\ Shrinks
         /\ \A g \in Files \ {"ready"} : vis'[g] = vis[g] /\ (Synced(g) => Synced(g)')
<1>1. PICK c \in Opt(Gens), d \in BOOLEAN : Durable("ready", c, d)
  BY DEF Publish, SetLanServicesReady, FreshGen, Opt
<1>2. /\ VisibleMaySurvive'
      /\ \A g \in Files \ {"ready"} : vis'[g] = vis[g] /\ surv'[g] \subseteq surv[g]
  BY <1>1, DurableSurvivors, FileTypes, FilesKnown DEF TypeOK, FilesOK, FilesInv
<1>3. Shrinks
  BY <1>2, FilesKnown DEF Shrinks
<1>4. FilesInv'
  BY <1>2, <1>3, ShrinkKeeps, FilesKnown DEF FilesInv, DiskInv
<1>5. ASSUME NEW g \in Files \ {"ready"}, Synced(g) PROVE Synced(g)'
  BY <1>2, <1>5 DEF Synced, VisibleMaySurvive
<1> QED BY <1>2, <1>3, <1>4, <1>5

(* A durable call on one of the three files of the state, while every      *)
(* journal that may survive is in flight.                                  *)
LEMMA StateWrite ==
  ASSUME TypeOK, FilesInv, op' = op, AllFlight, NEW f \in {"desired", "prev", "attr"},
         NEW c \in FileContents[f], NEW ok \in BOOLEAN, Durable(f, c, ok)
  PROVE  /\ FilesInv' /\ AllFlight' /\ vis'["journal"] = vis["journal"]
         /\ \A g \in Files \ {f} : surv'[g] \subseteq surv[g]
         /\ ok /\ c # None => surv'[f] = {c}
<1>1. /\ VisibleMaySurvive'
      /\ \A g \in Files \ {f} : vis'[g] = vis[g] /\ surv'[g] \subseteq surv[g]
      /\ ok /\ c # None => surv'[f] = {c}
  BY DurableSurvivors, FileTypes DEF TypeOK, FilesOK, FilesInv
<1>2. AllFlight' /\ JournalInv' /\ OpInv'
  BY <1>1, FilesKnown DEF FilesInv, AllFlight, JournalInv, GoodJournal, OpInv, WellFormed
<1>3. InFlight(vis'["journal"])
  BY <1>1, <1>2, FilesKnown DEF VisibleMaySurvive, AllFlight
<1> QED BY <1>1, <1>2, <1>3, FilesKnown DEF FilesInv, DiskInv

(* A durable call on the journal. *)
LEMMA JournalChange ==
  ASSUME TypeOK, FilesInv, op' = op, NEW c \in Opt(ApplyOperation), GoodJournal(c),
         NEW ok \in BOOLEAN, Durable("journal", c, ok)
  PROVE  /\ VisibleMaySurvive' /\ JournalInv' /\ OpInv'
         /\ Untouched => Untouched'
         /\ DesiredWritten => DesiredWritten'
         /\ PrevWritten => PrevWritten'
         /\ AttrWritten => AttrWritten'
         /\ Committed => Committed'
         /\ InFlight(c) /\ AllFlight => AllFlight'
         /\ ~InFlight(c) /\ NoFlight => NoFlight'
         /\ vis'["journal"] \in {vis["journal"], c}
         /\ ok => vis'["journal"] = c
         /\ ok /\ c # None => surv'["journal"] = {c}
<1>1. /\ VisibleMaySurvive'
      /\ \A g \in Files \ {"journal"} : vis'[g] = vis[g] /\ surv'[g] \subseteq surv[g]
      /\ surv'["journal"] \subseteq surv["journal"] \cup {c}
      /\ vis'["journal"] \in {vis["journal"], c}
      /\ ok => vis'["journal"] = c
      /\ ok /\ c # None => surv'["journal"] = {c}
  BY DurableSurvivors, FileTypes DEF TypeOK, FilesOK, FilesInv
<1>2. Untouched => Untouched'
  BY <1>1, FilesKnown DEF Untouched
<1>3. /\ DesiredWritten => DesiredWritten'
      /\ PrevWritten => PrevWritten'
      /\ AttrWritten => AttrWritten'
      /\ Committed => Committed'
  BY <1>1, FilesKnown DEF DesiredWritten, PrevWritten, AttrWritten, Committed
<1>4. /\ InFlight(c) /\ AllFlight => AllFlight'
      /\ ~InFlight(c) /\ NoFlight => NoFlight'
  BY <1>1 DEF AllFlight, NoFlight
<1>5. JournalInv' /\ OpInv'
  BY <1>1 DEF FilesInv, JournalInv, GoodJournal, OpInv, WellFormed
<1> QED BY <1>1, <1>2, <1>3, <1>4, <1>5

(* The restoration writes back the contents of A. *)
LEMMA RestoringWrite ==
  ASSUME TypeOK, FilesInv, op' = op, InFlight(vis["journal"]),
         NEW f \in {"desired", "prev", "attr"}, NEW ok \in BOOLEAN,
         Durable(f, A[f], ok)
  PROVE  /\ FilesInv' /\ vis'["journal"] = vis["journal"]
         /\ Untouched => Untouched'
         /\ AllFlight => AllFlight'
         /\ ok => vis'[f] = A[f]
         /\ \A g \in {"desired", "prev", "attr"} \ {f} : vis'[g] = vis[g]
         /\ ok /\ (AllSynced \/ f = "desired") => AllSynced'
<1>1. A[f] \in FileContents[f] /\ f \in Files
  BY OpType, FileTypes DEF TypeOK
<1>2. f = "desired" => A[f] # None /\ AcceptedDesired(A[f]) = A.desired
  BY OpType, NoneAssumption DEF TypeOK, FilesInv, OpInv, WellFormed, AcceptedDesired
<1>3. /\ VisibleMaySurvive'
      /\ \A g \in Files \ {f} : vis'[g] = vis[g] /\ surv'[g] \subseteq surv[g]
      /\ surv'[f] \subseteq surv[f] \cup {A[f]}
      /\ ok => vis'[f] = A[f]
      /\ ok /\ A[f] # None => \A g \in Files : surv'[g] = {vis'[g]}
      /\ ok => \A g \in Files : surv[g] = {vis[g]} => surv'[g] = {vis'[g]}
  BY <1>1, DurableSurvivors DEF TypeOK, FilesOK, FilesInv
<1>4. Untouched => Untouched'
  BY <1>2, <1>3, FilesKnown DEF Untouched
<1>5. (AllFlight => AllFlight') /\ JournalInv' /\ OpInv' /\ vis'["journal"] = vis["journal"]
  BY <1>3, FilesKnown DEF FilesInv, AllFlight, JournalInv, GoodJournal, OpInv, WellFormed
<1>6. ok /\ (AllSynced \/ f = "desired") => AllSynced'
  BY <1>2, <1>3, FilesKnown DEF AllSynced, Synced
<1> QED BY <1>3, <1>4, <1>5, <1>6, FilesKnown DEF FilesInv, DiskInv

(* Whatever recovery works from, it restores A. *)
LEMMA TargetIsA ==
  ASSUME TypeOK, FilesInv, mode = "failed" \/ InFlight(vis["journal"])
  PROVE  Target = A
BY FilesKnown DEF TypeOK, FilesInv, VisibleMaySurvive, JournalInv, GoodJournal, Target

(* With addresses on the interfaces of A and B, apply() captures none. *)
LEMMA NothingCaptured ==
  ASSUME TypeOK, FilesInv
  PROVE  /\ Captured(A.desired) = A.desired /\ Captured(B.desired) = B.desired
         /\ ~InFlight(vis["journal"]) => Captured(vis["desired"]) = vis["desired"]
<1>1. Captured(A.desired) = A.desired /\ Captured(B.desired) = B.desired
  BY DEF FilesInv, OpInv, WellFormed, Captured
<1>2. vis["desired"] \in State
  BY FileTypes DEF TypeOK
<1>3. AcceptedDesired(vis["desired"]).addrs = vis["desired"].addrs
  BY <1>2 DEF AcceptedDesired, State
<1>4. ~InFlight(vis["journal"]) => AcceptedDesired(vis["desired"]) \in {A.desired, B.desired}
  BY FilesKnown DEF FilesInv, DiskInv, VisibleMaySurvive, Untouched, Committed, DesiredWritten
<1>5. ~InFlight(vis["journal"]) => vis["desired"].addrs # {}
  BY <1>3, <1>4 DEF FilesInv, OpInv, WellFormed
<1> QED BY <1>1, <1>5 DEF Captured

-----------------------------------------------------------------------------
(* Every step preserves the invariant.                                     *)

LEMMA VisibleFlight ==
  ASSUME FilesInv
  PROVE  /\ AllFlight => InFlight(vis["journal"])
         /\ NoFlight => ~InFlight(vis["journal"])
         /\ InFlight(vis["journal"]) => vis["journal"] # None
         /\ OperationRequiresRecovery(vis["journal"]) => InFlight(vis["journal"])
         /\ PendingOperation(vis["journal"]) => InFlight(vis["journal"])
BY FilesKnown DEF FilesInv, VisibleMaySurvive, AllFlight, NoFlight, InFlight,
   OperationRequiresRecovery, PendingOperation

LEMMA NewJournal ==
  ASSUME TypeOK, OpInv, B.attr # None
  PROVE  /\ LET c == Journal("Applying", None, None)
            IN /\ c \in Opt(ApplyOperation) /\ GoodJournal(c) /\ InFlight(c)
               /\ OperationRequiresRecovery(c) /\ c # None
         /\ LET c == Journal("Accepted", None, None)
            IN c \in Opt(ApplyOperation) /\ GoodJournal(c) /\ ~InFlight(c) /\ c # None
         /\ GoodJournal(None) /\ ~InFlight(None) /\ None \in Opt(ApplyOperation)
         /\ ~OperationRequiresRecovery(None)
<1>1. A = [desired |-> A.desired, prev |-> A.prev, attr |-> A.attr]
  BY TripleParts, OpType DEF TypeOK
<1>2. /\ Journal("Applying", None, None) \in ApplyOperation
      /\ Journal("Accepted", None, None) \in ApplyOperation
  BY JournalType, PhaseTypes
<1>3. ASSUME NEW ph \in {"Applying", "Accepted"}
      PROVE  LET c == Journal(ph, None, None) IN c.phase = ph /\ Retained(c) = A
  BY <1>1 DEF Journal, Retained
<1> QED BY <1>2, <1>3, NoneAssumption DEF Opt, GoodJournal, InFlight, PendingOperation,
     OperationRequiresRecovery

LEMMA StepsKeep == TypeInv /\ IInv /\ Steps => IInv'
<1> SUFFICES ASSUME TypeInv, IInv, Steps PROVE IInv'
  OBVIOUS
<1> USE DEF IInv, netVars, lanVars, confirmVars, Goto, Answer, Recover, RestoreFailed,
        ApplyLabels, ConfirmLabels, RestoreLabels, StartLabels, RecoveryPending, ApplyBusy,
        InFlight, OperationRequiresRecovery, PendingOperation
<1>0. TypeOK /\ Flags /\ ControlOK /\ FilesInv
  BY TypeParts DEF TypeInv
<1>f. /\ AllFlight => InFlight(vis["journal"])
      /\ NoFlight => ~InFlight(vis["journal"])
      /\ InFlight(vis["journal"]) => vis["journal"] # None
      /\ OperationRequiresRecovery(vis["journal"]) => InFlight(vis["journal"])
      /\ PendingOperation(vis["journal"]) => InFlight(vis["journal"])
  BY VisibleFlight
<1>1. CASE Retain
  <2> DEFINE c == Journal("Applying", None, None)
  <2>1. c \in Opt(ApplyOperation) /\ GoodJournal(c) /\ InFlight(c) /\ c # None
        /\ OperationRequiresRecovery(c)
    BY <1>0, <1>1, NewJournal, NoneAssumption DEF Retain, FilesInv, TypeInv, AttrKnown
  <2>2. op' = op /\ \E ok \in BOOLEAN : Durable("journal", c, ok)
    BY <1>1 DEF Retain
  <2>3. Untouched /\ Untouched'
    BY <1>0, <1>1, <2>1, <2>2, JournalChange DEF Retain, StepInv, ApplyInv
  <2>4. FilesInv'
    BY <1>0, <2>1, <2>2, <2>3, JournalChange DEF FilesInv, DiskInv
  <2>5. pc' = "suspend" => AllFlight'
    BY <1>0, <1>1, <2>1, JournalChange DEF Retain, AllFlight
  <2>6. vis'["journal"] \in {vis["journal"], c}
    BY <1>0, <2>1, <2>2, JournalChange
  <2> QED BY <1>0, <1>f, <1>1, <2>1, <2>2, <2>3, <2>4, <2>5, <2>6 DEF Retain, StepInv, ApplyInv, RestoreInv, QuietInv, ReplyInv
<1>2. CASE Suspend
  <2>1. FilesInv' /\ Shrinks /\ vis'["journal"] = vis["journal"]
    BY <1>0, <1>2, ReadyKeeps, FilesKnown DEF Suspend
  <2> QED BY <1>0, <1>f, <1>2, <2>1, ShrinkKeeps DEF Suspend, StepInv, ApplyInv,
        RestoreInv, QuietInv, ReplyInv
<1>3. CASE Unsuspend
  <2>1. FilesInv' /\ Shrinks /\ vis'["journal"] = vis["journal"]
    BY <1>0, <1>3, ReadyKeeps, FilesKnown DEF Unsuspend
  <2> QED BY <1>0, <1>f, <1>3, <2>1, ShrinkKeeps DEF Unsuspend, StepInv, ApplyInv,
        RestoreInv, QuietInv, ReplyInv
<1>4. CASE Forget
  <2>1. op' = op /\ \E ok \in BOOLEAN : Durable("journal", None, ok)
    BY <1>4 DEF Forget
  <2>2. None \in Opt(ApplyOperation) /\ GoodJournal(None)
    BY <1>0, <1>4, NewJournal DEF Forget, FilesInv, TypeInv, AttrKnown
  <2>3. /\ Untouched' /\ VisibleMaySurvive' /\ JournalInv' /\ OpInv'
        /\ vis'["journal"] \in {vis["journal"], None}
    BY <1>0, <1>4, <2>1, <2>2, JournalChange DEF Forget, StepInv, ApplyInv
  <2>4. FilesInv'
    BY <2>3 DEF FilesInv, DiskInv
  <2>5. PendingOperation(vis["journal"])' => AllFlight'
    <3> SUFFICES ASSUME PendingOperation(vis["journal"])' PROVE AllFlight'
      OBVIOUS
    <3>1. AllFlight /\ surv' = surv
      BY <1>0, <1>4 DEF Forget, Durable, StepInv, ApplyInv, TypeOK, Files
    <3> QED BY <3>1 DEF AllFlight
  <2> QED BY <1>0, <1>f, <1>4, <2>1, <2>3, <2>4, <2>5 DEF Forget, StepInv, ApplyInv, RestoreInv, QuietInv, ReplyInv
<1>5. CASE ProgramProposed
  <2>1. op' = op
    <3>1. op' = [op EXCEPT !.after.desired = B.desired]
      BY <1>0, <1>5, NothingCaptured DEF ProgramProposed
    <3> QED BY <1>0, <3>1 DEF ControlOK, Op, Triple
  <2>2. FilesInv' /\ Shrinks /\ vis'["journal"] = vis["journal"]
    BY <1>0, <1>5, <2>1, SameFiles DEF ProgramProposed
  <2>3. pc' \in {"publish", "guard"} /\ InFlight(vis["journal"])'
    BY <1>f, <1>5, <2>2 DEF ProgramProposed, StepInv, ApplyInv
  <2>4. RestoreInv'
    BY <2>3 DEF RestoreInv
  <2>5. ApplyInv' /\ QuietInv' /\ ReplyInv'
    BY <1>0, <1>f, <1>5, <2>1, <2>2, <2>3, ShrinkKeeps DEF ProgramProposed, StepInv, ApplyInv, RestoreInv, QuietInv, ReplyInv
  <2> QED BY <2>2, <2>4, <2>5 DEF StepInv
<1>6. CASE PublishServices
  <2>1. FilesInv' /\ Shrinks /\ vis'["journal"] = vis["journal"]
    BY <1>0, <1>6, ReadyKeeps, FilesKnown DEF PublishServices
  <2>2. pc' \in {"wait", "guard"} /\ InFlight(vis["journal"])'
    BY <1>f, <1>6, <2>1 DEF PublishServices, StepInv, ApplyInv
  <2>3. RestoreInv'
    BY <2>2 DEF RestoreInv
  <2>4. ApplyInv' /\ QuietInv' /\ ReplyInv'
    BY <1>0, <1>f, <1>6, <2>1, <2>2, ShrinkKeeps DEF PublishServices, StepInv, ApplyInv, RestoreInv, QuietInv, ReplyInv
  <2> QED BY <2>1, <2>3, <2>4 DEF StepInv
<1>7. CASE AwaitServices
  <2>1. FilesInv' /\ Shrinks /\ vis'["journal"] = vis["journal"]
    BY <1>0, <1>7, SameFiles DEF AwaitServices
  <2>2. pc' \in {"pend", "desired", "guard"} /\ InFlight(vis["journal"])'
    BY <1>f, <1>7, <2>1 DEF AwaitServices, StepInv, ApplyInv
  <2>3. RestoreInv'
    BY <2>2 DEF RestoreInv
  <2>4. ApplyInv' /\ QuietInv' /\ ReplyInv'
    BY <1>0, <1>f, <1>7, <2>1, <2>2, ShrinkKeeps DEF AwaitServices, StepInv, ApplyInv, RestoreInv, QuietInv, ReplyInv
  <2> QED BY <2>1, <2>3, <2>4 DEF StepInv
<1>8. CASE PersistProposed
  <2>1. pc = "desired" /\ op' = op /\ AllFlight /\ B.prev = A.desired
    BY <1>8 DEF PersistProposed, ApplyWrite, StepInv, ApplyInv
  <2>2. B.desired \in FileContents["desired"] /\ B.desired # None
    BY <1>0, OpType, FileTypes, NoneAssumption DEF ControlOK
  <2>3. /\ FilesInv' /\ AllFlight' /\ vis'["journal"] = vis["journal"]
        /\ surv'["prev"] \subseteq surv["prev"]
        /\ surv'["attr"] \subseteq surv["attr"]
        /\ pc' = "prev" => surv'["desired"] = {B.desired}
    BY <1>0, <1>8, <2>1, <2>2, StateWrite, FilesKnown DEF PersistProposed, ApplyWrite
  <2>4. pc' = "prev" => DesiredWritten'
    BY <1>0, <2>1, <2>3 DEF DesiredWritten, FilesInv, OpInv, WellFormed, AcceptedDesired
  <2>5. (PrevWritten => PrevWritten') /\ (AttrWritten => AttrWritten')
    BY <2>1, <2>3 DEF DesiredWritten, PrevWritten, AttrWritten
  <2>6. pc' \in {"prev", "guard"} /\ InFlight(vis["journal"])'
    BY <1>f, <1>8, <2>1, <2>3 DEF PersistProposed, ApplyWrite, StepInv, ApplyInv
  <2>7. RestoreInv'
    BY <2>6 DEF RestoreInv
  <2>8. ApplyInv' /\ QuietInv' /\ ReplyInv'
    BY <1>0, <1>8, <2>1, <2>3, <2>4, <2>5, <2>6 DEF PersistProposed, ApplyWrite, StepInv, ApplyInv, RestoreInv, QuietInv, ReplyInv
  <2> QED BY <2>3, <2>7, <2>8 DEF StepInv
<1>9. CASE PersistPredecessor
  <2>1. pc = "prev" /\ op' = op /\ AllFlight /\ B.prev = A.desired
    BY <1>9 DEF PersistPredecessor, ApplyWrite, StepInv, ApplyInv
  <2>2. A.desired \in FileContents["prev"] /\ A.desired # None
    BY <1>0, OpType, FileTypes, NoneAssumption DEF ControlOK
  <2>3. /\ FilesInv' /\ AllFlight' /\ vis'["journal"] = vis["journal"]
        /\ surv'["desired"] \subseteq surv["desired"]
        /\ surv'["attr"] \subseteq surv["attr"]
        /\ pc' = "attr" => surv'["prev"] = {A.desired}
    BY <1>0, <1>9, <2>1, <2>2, StateWrite, FilesKnown DEF PersistPredecessor, ApplyWrite
  <2>4. pc' = "attr" => PrevWritten'
    BY <1>0, <2>1, <2>3 DEF PrevWritten, FilesInv, OpInv, WellFormed, AcceptedDesired
  <2>5. (DesiredWritten => DesiredWritten') /\ (AttrWritten => AttrWritten')
    BY <2>1, <2>3 DEF DesiredWritten, PrevWritten, AttrWritten
  <2>6. pc' \in {"attr", "guard"} /\ InFlight(vis["journal"])'
    BY <1>f, <1>9, <2>1, <2>3 DEF PersistPredecessor, ApplyWrite, StepInv, ApplyInv
  <2>7. RestoreInv'
    BY <2>6 DEF RestoreInv
  <2>8. ApplyInv' /\ QuietInv' /\ ReplyInv'
    BY <1>0, <1>9, <2>1, <2>3, <2>4, <2>5, <2>6 DEF PersistPredecessor, ApplyWrite, StepInv, ApplyInv, RestoreInv, QuietInv, ReplyInv
  <2> QED BY <2>3, <2>7, <2>8 DEF StepInv
<1>10. CASE WriteAttribution
  <2>1. pc = "attr" /\ op' = op /\ AllFlight /\ B.prev = A.desired
    BY <1>10 DEF WriteAttribution, ApplyWrite, StepInv, ApplyInv
  <2>2. B.attr \in FileContents["attr"] /\ B.attr # None
    BY <1>0, <2>1, OpType, FileTypes DEF ControlOK, TypeInv, AttrKnown
  <2>3. /\ FilesInv' /\ AllFlight' /\ vis'["journal"] = vis["journal"]
        /\ surv'["desired"] \subseteq surv["desired"]
        /\ surv'["prev"] \subseteq surv["prev"]
        /\ pc' = "commit" => surv'["attr"] = {B.attr}
    BY <1>0, <1>10, <2>1, <2>2, StateWrite, FilesKnown DEF WriteAttribution, ApplyWrite
  <2>4. pc' = "commit" => AttrWritten'
    BY <1>0, <2>1, <2>3 DEF AttrWritten, FilesInv, OpInv, WellFormed, AcceptedDesired
  <2>5. (DesiredWritten => DesiredWritten') /\ (PrevWritten => PrevWritten')
    BY <2>1, <2>3 DEF DesiredWritten, PrevWritten, AttrWritten
  <2>6. pc' \in {"commit", "guard"} /\ InFlight(vis["journal"])'
    BY <1>f, <1>10, <2>1, <2>3 DEF WriteAttribution, ApplyWrite, StepInv, ApplyInv
  <2>7. RestoreInv'
    BY <2>6 DEF RestoreInv
  <2>8. ApplyInv' /\ QuietInv' /\ ReplyInv'
    BY <1>0, <1>10, <2>1, <2>3, <2>4, <2>5, <2>6 DEF WriteAttribution, ApplyWrite, StepInv, ApplyInv, RestoreInv, QuietInv, ReplyInv
  <2> QED BY <2>3, <2>7, <2>8 DEF StepInv
<1>11. CASE Commit
  <2> DEFINE c == Journal("Accepted", None, None)
  <2>1. op' = op /\ AllFlight /\ Committed /\ pc \in {"commit", "confirmCommit"}
        /\ \E ok \in BOOLEAN : Durable("journal", c, ok)
    BY <1>11 DEF Commit, StepInv, ApplyInv, Committed
  <2>2. c \in Opt(ApplyOperation) /\ GoodJournal(c) /\ ~InFlight(c) /\ c # None
    BY <1>0, <2>1, NewJournal DEF FilesInv, TypeInv, AttrKnown
  <2>3. /\ Committed' /\ VisibleMaySurvive' /\ JournalInv' /\ OpInv'
        /\ vis'["journal"] \in {vis["journal"], c}
        /\ pc' = "clean" => surv'["journal"] = {c}
    BY <1>0, <1>11, <2>1, <2>2, JournalChange DEF Commit
  <2>4. InFlight(vis["journal"])' => AllFlight'
    <3> SUFFICES ASSUME InFlight(vis["journal"])' PROVE AllFlight'
      OBVIOUS
    <3>1. surv' = surv
      BY <1>0, <2>1, <2>2 DEF Durable, TypeOK, Files
    <3> QED BY <2>1, <3>1 DEF AllFlight
  <2>5. FilesInv'
    BY <2>3, <2>4 DEF FilesInv, DiskInv
  <2>6. pc' = "clean" => NoFlight'
    BY <2>2, <2>3 DEF NoFlight
  <2>7. pc' \in {"clean", "block"} /\ vis'["journal"] # None
    BY <1>f, <1>11, <2>1, <2>2, <2>3 DEF Commit, StepInv, ApplyInv
  <2>8. pc' = "guard" => mode' = "recover"
    BY <1>11 DEF Commit
  <2>9. ApplyInv' /\ RestoreInv' /\ QuietInv' /\ ReplyInv'
    BY <1>0, <1>11, <2>1, <2>3, <2>6, <2>7, <2>8 DEF Commit, StepInv, ApplyInv, RestoreInv, QuietInv, ReplyInv, Committed
  <2> QED BY <2>5, <2>9 DEF StepInv
<1>12. CASE Clean
  <2>1. op' = op /\ \E ok \in BOOLEAN : Durable("journal", None, ok)
    BY <1>12 DEF Clean
  <2>2. None \in Opt(ApplyOperation) /\ GoodJournal(None) /\ ~InFlight(None)
    BY PhaseTypes DEF GoodJournal
  <2>3. Committed /\ NoFlight /\ ~recoveryRequired
    BY <1>12 DEF Clean, StepInv, ApplyInv, Committed
  <2>4. /\ Committed' /\ NoFlight' /\ VisibleMaySurvive' /\ JournalInv' /\ OpInv'
        /\ vis'["journal"] \in {vis["journal"], None}
    BY <1>0, <2>1, <2>2, <2>3, JournalChange
  <2>5. FilesInv' /\ ~InFlight(vis["journal"])'
    BY <1>f, <2>2, <2>3, <2>4 DEF FilesInv, DiskInv
  <2> QED BY <1>0, <1>12, <2>3, <2>4, <2>5 DEF Clean, StepInv, ApplyInv, RestoreInv, QuietInv, ReplyInv
<1>13. CASE Pend
  <2> DEFINE c == Journal("PendingConfirmation", B.desired, ids + 1)
  <2>1. op' = op /\ AllFlight /\ B.desired.rev = A.desired.rev + 1 /\ B.attr # None
        /\ \E ok \in BOOLEAN : Durable("journal", c, ok)
    BY <1>13 DEF Pend, StepInv, ApplyInv, TypeInv, AttrKnown
  <2>2. c \in ApplyOperation /\ c \in Opt(ApplyOperation) /\ c # None
    <3>1. ids + 1 \in Opt(1..MaxIds) /\ B.desired \in Opt(State)
      BY <1>0, <1>13, BoundsAssumption, OpType DEF Pend, TypeInv, IdLeft, ControlOK, Opt
    <3> QED BY <1>0, <2>1, <3>1, JournalType, PhaseTypes, NoneAssumption
  <2>3. Retained(c) = A
    <3>1. A = [desired |-> A.desired, prev |-> A.prev, attr |-> A.attr]
      BY <1>0, TripleParts, OpType DEF TypeOK
    <3> QED BY <3>1 DEF Retained, Journal
  <2>4. c.proposed = B.desired /\ c.accepted = A.desired /\ c.phase = "PendingConfirmation"
    BY DEF Journal
  <2>5. GoodJournal(c) /\ InFlight(c)
    BY <1>0, <2>1, <2>2, <2>3, <2>4 DEF GoodJournal, FilesInv, OpInv, WellFormed
  <2>6. /\ AllFlight' /\ VisibleMaySurvive' /\ JournalInv' /\ OpInv'
        /\ vis'["journal"] \in {vis["journal"], c}
    BY <1>0, <2>1, <2>2, <2>5, JournalChange
  <2>11. pc' = "idle" => vis'["journal"] = c
    BY <1>0, <1>13, <2>1, <2>2, <2>5, JournalChange DEF Pend
  <2>7. FilesInv' /\ InFlight(vis["journal"])'
    BY <1>f, <2>1, <2>5, <2>6 DEF FilesInv, DiskInv
  <2>8. pc' \in {"idle", "guard"}
    BY <1>13 DEF Pend
  <2>9. RestoreInv' /\ ApplyInv'
    BY <2>7, <2>8 DEF RestoreInv, ApplyInv
  <2>10. QuietInv' /\ ReplyInv'
    BY <1>13, <2>2, <2>4, <2>6, <2>7, <2>8, <2>11 DEF Pend, StepInv, ApplyInv, QuietInv, ReplyInv
  <2> QED BY <2>7, <2>9, <2>10 DEF StepInv
<1>14. CASE Block
  <2>1. FilesInv' /\ Shrinks /\ vis'["journal"] = vis["journal"]
    BY <1>0, <1>14, SameFiles DEF Block
  <2> QED BY <1>0, <1>f, <1>14, <2>1, ShrinkKeeps DEF Block, StepInv, ApplyInv, RestoreInv,
        QuietInv, ReplyInv
<1>15. CASE ConfirmAttribution
  <2>1. pc = "confirmAttr" /\ op' = op /\ AllFlight /\ B.prev = A.desired
    BY <1>15 DEF ConfirmAttribution, ConfirmWrite, StepInv, ApplyInv
  <2>2. B.attr \in FileContents["attr"] /\ B.attr # None
    BY <1>0, <2>1, OpType, FileTypes DEF ControlOK, TypeInv, AttrKnown
  <2>3. /\ FilesInv' /\ AllFlight' /\ vis'["journal"] = vis["journal"]
        /\ surv'["desired"] \subseteq surv["desired"]
        /\ surv'["prev"] \subseteq surv["prev"]
        /\ pc' = "confirmDesired" => surv'["attr"] = {B.attr}
    BY <1>0, <1>15, <2>1, <2>2, StateWrite, FilesKnown DEF ConfirmAttribution, ConfirmWrite
  <2>4. pc' = "confirmDesired" => AttrWritten'
    BY <1>0, <2>1, <2>3 DEF AttrWritten, FilesInv, OpInv, WellFormed, AcceptedDesired
  <2>5. (DesiredWritten => DesiredWritten') /\ (PrevWritten => PrevWritten')
    BY <2>1, <2>3 DEF DesiredWritten, PrevWritten, AttrWritten
  <2>6. pc' \in {"confirmDesired", "guard"} /\ InFlight(vis["journal"])'
    BY <1>f, <1>15, <2>1, <2>3 DEF ConfirmAttribution, ConfirmWrite, StepInv, ApplyInv
  <2>7. RestoreInv'
    BY <2>6 DEF RestoreInv
  <2>8. ApplyInv' /\ QuietInv' /\ ReplyInv'
    BY <1>0, <1>15, <2>1, <2>3, <2>4, <2>5, <2>6 DEF ConfirmAttribution, ConfirmWrite, StepInv, ApplyInv, RestoreInv, QuietInv, ReplyInv
  <2> QED BY <2>3, <2>7, <2>8 DEF StepInv
<1>16. CASE ConfirmDesired
  <2>1. pc = "confirmDesired" /\ op' = op /\ AllFlight /\ B.prev = A.desired
    BY <1>16 DEF ConfirmDesired, ConfirmWrite, StepInv, ApplyInv
  <2>2. B.desired \in FileContents["desired"] /\ B.desired # None
    BY <1>0, OpType, FileTypes, NoneAssumption DEF ControlOK
  <2>3. /\ FilesInv' /\ AllFlight' /\ vis'["journal"] = vis["journal"]
        /\ surv'["prev"] \subseteq surv["prev"]
        /\ surv'["attr"] \subseteq surv["attr"]
        /\ pc' = "confirmPrev" => surv'["desired"] = {B.desired}
    BY <1>0, <1>16, <2>1, <2>2, StateWrite, FilesKnown DEF ConfirmDesired, ConfirmWrite
  <2>4. pc' = "confirmPrev" => DesiredWritten'
    BY <1>0, <2>1, <2>3 DEF DesiredWritten, FilesInv, OpInv, WellFormed, AcceptedDesired
  <2>5. (PrevWritten => PrevWritten') /\ (AttrWritten => AttrWritten')
    BY <2>1, <2>3 DEF DesiredWritten, PrevWritten, AttrWritten
  <2>6. pc' \in {"confirmPrev", "guard"} /\ InFlight(vis["journal"])'
    BY <1>f, <1>16, <2>1, <2>3 DEF ConfirmDesired, ConfirmWrite, StepInv, ApplyInv
  <2>7. RestoreInv'
    BY <2>6 DEF RestoreInv
  <2>8. ApplyInv' /\ QuietInv' /\ ReplyInv'
    BY <1>0, <1>16, <2>1, <2>3, <2>4, <2>5, <2>6 DEF ConfirmDesired, ConfirmWrite, StepInv, ApplyInv, RestoreInv, QuietInv, ReplyInv
  <2> QED BY <2>3, <2>7, <2>8 DEF StepInv
<1>17. CASE ConfirmPredecessor
  <2>1. pc = "confirmPrev" /\ op' = op /\ AllFlight /\ B.prev = A.desired
    BY <1>17 DEF ConfirmPredecessor, ConfirmWrite, StepInv, ApplyInv
  <2>2. A.desired \in FileContents["prev"] /\ A.desired # None
    BY <1>0, OpType, FileTypes, NoneAssumption DEF ControlOK
  <2>3. /\ FilesInv' /\ AllFlight' /\ vis'["journal"] = vis["journal"]
        /\ surv'["desired"] \subseteq surv["desired"]
        /\ surv'["attr"] \subseteq surv["attr"]
        /\ pc' = "confirmCommit" => surv'["prev"] = {A.desired}
    BY <1>0, <1>17, <2>1, <2>2, StateWrite, FilesKnown DEF ConfirmPredecessor, ConfirmWrite
  <2>4. pc' = "confirmCommit" => PrevWritten'
    BY <1>0, <2>1, <2>3 DEF PrevWritten, FilesInv, OpInv, WellFormed, AcceptedDesired
  <2>5. (DesiredWritten => DesiredWritten') /\ (AttrWritten => AttrWritten')
    BY <2>1, <2>3 DEF DesiredWritten, PrevWritten, AttrWritten
  <2>6. pc' \in {"confirmCommit", "guard"} /\ InFlight(vis["journal"])'
    BY <1>f, <1>17, <2>1, <2>3 DEF ConfirmPredecessor, ConfirmWrite, StepInv, ApplyInv
  <2>7. RestoreInv'
    BY <2>6 DEF RestoreInv
  <2>8. ApplyInv' /\ QuietInv' /\ ReplyInv'
    BY <1>0, <1>17, <2>1, <2>3, <2>4, <2>5, <2>6 DEF ConfirmPredecessor, ConfirmWrite, StepInv, ApplyInv, RestoreInv, QuietInv, ReplyInv
  <2> QED BY <2>3, <2>7, <2>8 DEF StepInv
<1>18. CASE ConfirmCommit
  <2> DEFINE c == Journal("Accepted", None, None)
  <2>1. op' = op /\ AllFlight /\ Committed /\ pc \in {"commit", "confirmCommit"}
        /\ \E ok \in BOOLEAN : Durable("journal", c, ok)
    BY <1>18 DEF ConfirmCommit, ConfirmWrite, StepInv, ApplyInv, Committed
  <2>2. c \in Opt(ApplyOperation) /\ GoodJournal(c) /\ ~InFlight(c) /\ c # None
    BY <1>0, <2>1, NewJournal DEF FilesInv, TypeInv, AttrKnown
  <2>3. /\ Committed' /\ VisibleMaySurvive' /\ JournalInv' /\ OpInv'
        /\ vis'["journal"] \in {vis["journal"], c}
        /\ pc' = "clean" => surv'["journal"] = {c}
    BY <1>0, <1>18, <2>1, <2>2, JournalChange DEF ConfirmCommit, ConfirmWrite
  <2>4. InFlight(vis["journal"])' => AllFlight'
    <3> SUFFICES ASSUME InFlight(vis["journal"])' PROVE AllFlight'
      OBVIOUS
    <3>1. surv' = surv
      BY <1>0, <2>1, <2>2 DEF Durable, TypeOK, Files
    <3> QED BY <2>1, <3>1 DEF AllFlight
  <2>5. FilesInv'
    BY <2>3, <2>4 DEF FilesInv, DiskInv
  <2>6. pc' = "clean" => NoFlight'
    BY <2>2, <2>3 DEF NoFlight
  <2>7. pc' \in {"clean", "guard"} /\ vis'["journal"] # None
    BY <1>f, <1>18, <2>1, <2>2, <2>3 DEF ConfirmCommit, ConfirmWrite, StepInv, ApplyInv
  <2>8. pc' = "guard" => mode' = "recover"
    BY <1>18 DEF ConfirmCommit, ConfirmWrite
  <2>9. ApplyInv' /\ RestoreInv' /\ QuietInv' /\ ReplyInv'
    BY <1>0, <1>18, <2>1, <2>3, <2>6, <2>7, <2>8 DEF ConfirmCommit, ConfirmWrite, StepInv, ApplyInv, RestoreInv, QuietInv, ReplyInv, Committed
  <2> QED BY <2>5, <2>9 DEF StepInv
<1>19. CASE Guard
  <2>1. FilesInv' /\ Shrinks /\ vis'["journal"] = vis["journal"]
    BY <1>0, <1>19, SameFiles DEF Guard
  <2> QED BY <1>0, <1>f, <1>19, <2>1, ShrinkKeeps DEF Guard, StepInv, ApplyInv, RestoreInv,
        QuietInv, ReplyInv, Proceed
<1>20. CASE Quiesce
  <2>1. FilesInv' /\ Shrinks /\ vis'["journal"] = vis["journal"]
    BY <1>0, <1>20, ReadyKeeps, FilesKnown DEF Quiesce
  <2>2. ApplyInv'
    BY <1>0, <1>f, <1>20, <2>1, ShrinkKeeps DEF Quiesce, StepInv, ApplyInv,
        RestoreInv, QuietInv, ReplyInv, Proceed
  <2>3. RestoreInv'
    BY <1>0, <1>f, <1>20, <2>1, ShrinkKeeps DEF Quiesce, StepInv, ApplyInv,
        RestoreInv, QuietInv, ReplyInv, Proceed
  <2>4. QuietInv'
    BY <1>0, <1>f, <1>20, <2>1, ShrinkKeeps DEF Quiesce, StepInv, ApplyInv,
        RestoreInv, QuietInv, ReplyInv, Proceed
  <2>5. ReplyInv'
    BY <1>0, <1>f, <1>20, <2>1, ShrinkKeeps DEF Quiesce, StepInv, ApplyInv,
        RestoreInv, QuietInv, ReplyInv, Proceed
  <2> QED BY <2>1, <2>2, <2>3, <2>4, <2>5 DEF StepInv
<1>21. CASE Reprogram
  <2>1. FilesInv' /\ Shrinks /\ vis'["journal"] = vis["journal"]
    BY <1>0, <1>21, SameFiles DEF Reprogram
  <2>2. ApplyInv'
    BY <1>0, <1>f, <1>21, <2>1, ShrinkKeeps DEF Reprogram, StepInv, ApplyInv,
        RestoreInv, QuietInv, ReplyInv, Proceed
  <2>3. RestoreInv'
    BY <1>0, <1>f, <1>21, <2>1, ShrinkKeeps DEF Reprogram, StepInv, ApplyInv,
        RestoreInv, QuietInv, ReplyInv, Proceed
  <2>4. QuietInv'
    BY <1>0, <1>f, <1>21, <2>1, ShrinkKeeps DEF Reprogram, StepInv, ApplyInv,
        RestoreInv, QuietInv, ReplyInv, Proceed
  <2>5. ReplyInv'
    BY <1>0, <1>f, <1>21, <2>1, ShrinkKeeps DEF Reprogram, StepInv, ApplyInv,
        RestoreInv, QuietInv, ReplyInv, Proceed
  <2> QED BY <2>1, <2>2, <2>3, <2>4, <2>5 DEF StepInv
<1>22. CASE RestoreDesired
  <2>1. pc = "redesired" /\ op' = op /\ InFlight(vis["journal"]) /\ recoveryRequired
    BY <1>22 DEF RestoreDesired, RestoreWrite, StepInv, RestoreInv
  <2>2. Target = A /\ Captured(A.desired) = A.desired
    BY <1>0, <2>1, TargetIsA, NothingCaptured
  <2>3. PICK ok \in BOOLEAN : Durable("desired", A["desired"], ok) /\ Proceed(ok, "reprev")
    BY <1>22, <2>2 DEF RestoreDesired, RestoreWrite, RestoredDesired
  <2>4. /\ FilesInv' /\ vis'["journal"] = vis["journal"]
        /\ (Untouched => Untouched') /\ (AllFlight => AllFlight')
        /\ ok => vis'["desired"] = A["desired"]
        /\ \A g \in {"desired", "prev", "attr"} \ {"desired"} : vis'[g] = vis[g]
        /\ ok /\ (AllSynced \/ "desired" = "desired") => AllSynced'
    BY <1>0, <2>1, <2>3, RestoringWrite
  <2>5. pc' = "reprev" /\ ~failed' => ok /\ ~failed
    BY <2>3, Zenon DEF Proceed
  <2>6. ok /\ ~failed => DesiredRestored'
    BY <1>0, <1>22, <2>1, <2>4, OpType DEF DesiredRestored, StepInv, RestoreInv, FilesInv,
       OpInv, WellFormed, AcceptedDesired
  <2>7. pc' \in {"reprev", "idle"} /\ reply' \in {reply, "required"}
    BY <2>3 DEF Proceed
  <2>8. recoveryRequired' /\ InFlight(vis["journal"])'
    BY <1>22, <2>1, <2>4 DEF RestoreDesired, RestoreWrite
  <2>9. RestoreInv'
    BY <2>5, <2>6, <2>7, <2>8 DEF RestoreInv
  <2>10. ApplyInv' /\ QuietInv'
    BY <2>7, <2>8 DEF ApplyInv, QuietInv
  <2>11. ReplyInv'
    BY <1>f, <2>1, <2>4, <2>7 DEF StepInv, ReplyInv
  <2> QED BY <2>4, <2>9, <2>10, <2>11 DEF StepInv
<1>23. CASE RestorePredecessor
  <2>1. pc = "reprev" /\ op' = op /\ InFlight(vis["journal"]) /\ recoveryRequired
    BY <1>23 DEF RestorePredecessor, RestoreWrite, StepInv, RestoreInv
  <2>2. Target = A /\ Captured(A.desired) = A.desired
    BY <1>0, <2>1, TargetIsA, NothingCaptured
  <2>3. PICK ok \in BOOLEAN : Durable("prev", A["prev"], ok) /\ Proceed(ok, "reattr")
    BY <1>23, <2>2 DEF RestorePredecessor, RestoreWrite, RestoredDesired
  <2>4. /\ FilesInv' /\ vis'["journal"] = vis["journal"]
        /\ (Untouched => Untouched') /\ (AllFlight => AllFlight')
        /\ ok => vis'["prev"] = A["prev"]
        /\ \A g \in {"desired", "prev", "attr"} \ {"prev"} : vis'[g] = vis[g]
        /\ ok /\ (AllSynced \/ "prev" = "desired") => AllSynced'
    BY <1>0, <2>1, <2>3, RestoringWrite
  <2>5. pc' = "reattr" /\ ~failed' => ok /\ ~failed
    BY <2>3, Zenon DEF Proceed
  <2>6. ok /\ ~failed => PrevRestored'
    BY <1>0, <1>23, <2>1, <2>4, OpType DEF PrevRestored, DesiredRestored, StepInv, RestoreInv, FilesInv,
       OpInv, WellFormed, AcceptedDesired
  <2>7. pc' \in {"reattr", "idle"} /\ reply' \in {reply, "required"}
    BY <2>3 DEF Proceed
  <2>8. recoveryRequired' /\ InFlight(vis["journal"])'
    BY <1>23, <2>1, <2>4 DEF RestorePredecessor, RestoreWrite
  <2>9. RestoreInv'
    BY <2>5, <2>6, <2>7, <2>8 DEF RestoreInv
  <2>10. ApplyInv' /\ QuietInv'
    BY <2>7, <2>8 DEF ApplyInv, QuietInv
  <2>11. ReplyInv'
    BY <1>f, <2>1, <2>4, <2>7 DEF StepInv, ReplyInv
  <2> QED BY <2>4, <2>9, <2>10, <2>11 DEF StepInv
<1>24. CASE RestoreAttribution
  <2>1. pc = "reattr" /\ op' = op /\ InFlight(vis["journal"]) /\ recoveryRequired
    BY <1>24 DEF RestoreAttribution, RestoreWrite, StepInv, RestoreInv
  <2>2. Target = A /\ Captured(A.desired) = A.desired
    BY <1>0, <2>1, TargetIsA, NothingCaptured
  <2>3. PICK ok \in BOOLEAN : Durable("attr", A["attr"], ok) /\ Proceed(ok, "republish")
    BY <1>24, <2>2 DEF RestoreAttribution, RestoreWrite, RestoredDesired
  <2>4. /\ FilesInv' /\ vis'["journal"] = vis["journal"]
        /\ (Untouched => Untouched') /\ (AllFlight => AllFlight')
        /\ ok => vis'["attr"] = A["attr"]
        /\ \A g \in {"desired", "prev", "attr"} \ {"attr"} : vis'[g] = vis[g]
        /\ ok /\ (AllSynced \/ "attr" = "desired") => AllSynced'
    BY <1>0, <2>1, <2>3, RestoringWrite
  <2>5. pc' = "republish" /\ ~failed' => ok /\ ~failed
    BY <2>3, Zenon DEF Proceed
  <2>6. ok /\ ~failed => AllRestored'
    BY <1>0, <1>24, <2>1, <2>4, OpType DEF AllRestored, PrevRestored, DesiredRestored, StepInv, RestoreInv, FilesInv,
       OpInv, WellFormed, AcceptedDesired
  <2>7. pc' \in {"republish", "idle"} /\ reply' \in {reply, "required"}
    BY <2>3 DEF Proceed
  <2>8. recoveryRequired' /\ InFlight(vis["journal"])'
    BY <1>24, <2>1, <2>4 DEF RestoreAttribution, RestoreWrite
  <2>9. RestoreInv'
    BY <2>5, <2>6, <2>7, <2>8 DEF RestoreInv
  <2>10. ApplyInv' /\ QuietInv'
    BY <2>7, <2>8 DEF ApplyInv, QuietInv
  <2>11. ReplyInv'
    BY <1>f, <2>1, <2>4, <2>7 DEF StepInv, ReplyInv
  <2> QED BY <2>4, <2>9, <2>10, <2>11 DEF StepInv
<1>25. CASE RestoreIncomplete
  <2>1. FilesInv' /\ Shrinks /\ vis'["journal"] = vis["journal"]
    BY <1>0, <1>25, SameFiles DEF RestoreIncomplete
  <2>2. ApplyInv'
    BY <1>0, <1>f, <1>25, <2>1, ShrinkKeeps DEF RestoreIncomplete, StepInv, ApplyInv,
        RestoreInv, QuietInv, ReplyInv
  <2>3. RestoreInv'
    BY <1>0, <1>f, <1>25, <2>1, ShrinkKeeps DEF RestoreIncomplete, StepInv, ApplyInv,
        RestoreInv, QuietInv, ReplyInv
  <2>4. QuietInv'
    BY <1>0, <1>f, <1>25, <2>1, ShrinkKeeps DEF RestoreIncomplete, StepInv, ApplyInv,
        RestoreInv, QuietInv, ReplyInv
  <2>5. ReplyInv'
    BY <1>0, <1>f, <1>25, <2>1, ShrinkKeeps DEF RestoreIncomplete, StepInv, ApplyInv,
        RestoreInv, QuietInv, ReplyInv
  <2> QED BY <2>1, <2>2, <2>3, <2>4, <2>5 DEF StepInv
<1>26. CASE Republish
  <2>1. FilesInv' /\ Shrinks /\ vis'["journal"] = vis["journal"]
    BY <1>0, <1>26, ReadyKeeps, FilesKnown DEF Republish
  <2>2. Untouched
    BY <1>26 DEF Republish, StepInv, RestoreInv, AllRestored, PrevRestored, DesiredRestored,
       AllSynced, Synced, Untouched
  <2>3. pc' \in {"rewait", "finish", "idle"} /\ reply' \in {reply, "required"}
    BY <1>26 DEF Republish
  <2>4. recoveryRequired' /\ InFlight(vis["journal"])'
    BY <1>26, <2>1 DEF Republish, StepInv, RestoreInv
  <2>5. RestoreInv' /\ ApplyInv' /\ QuietInv'
    BY <2>1, <2>2, <2>3, <2>4, ShrinkKeeps DEF RestoreInv, ApplyInv, QuietInv
  <2>6. ReplyInv'
    BY <2>1, <2>3, ShrinkKeeps DEF StepInv, ReplyInv
  <2> QED BY <2>1, <2>5, <2>6 DEF StepInv
<1>27. CASE AwaitRestored
  <2>1. FilesInv' /\ Shrinks /\ vis'["journal"] = vis["journal"]
    BY <1>0, <1>27, SameFiles DEF AwaitRestored
  <2> QED BY <1>0, <1>f, <1>27, <2>1, ShrinkKeeps DEF AwaitRestored, StepInv, ApplyInv,
        RestoreInv, QuietInv, ReplyInv
<1>28. CASE FinishRecovery
  <2>1. op' = op /\ (\E ok \in BOOLEAN : Durable("journal", None, ok)) /\ Untouched
        /\ InFlight(vis["journal"]) /\ recoveryRequired
    BY <1>28 DEF FinishRecovery, StepInv, RestoreInv
  <2>2. None \in Opt(ApplyOperation) /\ GoodJournal(None)
    BY PhaseTypes DEF GoodJournal
  <2>3. Untouched' /\ VisibleMaySurvive' /\ JournalInv' /\ OpInv'
    BY <1>0, <2>1, <2>2, JournalChange
  <2>4. FilesInv'
    BY <2>3 DEF FilesInv, DiskInv
  <2>5. pc' = "reopen" => vis'["journal"] = None
    BY <1>0, <1>28, <2>1, <2>2, JournalChange DEF FinishRecovery
  <2>6. pc' \in {"reopen", "block"} /\ reply' \in {reply, "required"}
    BY <1>28 DEF FinishRecovery
  <2>7. reply # "accepted"
    BY <1>f, <2>1 DEF StepInv, ReplyInv
  <2>8. RestoreInv' /\ ApplyInv' /\ QuietInv' /\ ReplyInv'
    BY <2>3, <2>5, <2>6, <2>7 DEF RestoreInv, ApplyInv, QuietInv, ReplyInv
  <2> QED BY <2>4, <2>8 DEF StepInv
<1>29. CASE ReopenRestoredForwarding
  <2>1. FilesInv' /\ Shrinks /\ vis'["journal"] = vis["journal"]
    BY <1>0, <1>29, SameFiles DEF ReopenRestoredForwarding
  <2>2. ApplyInv'
    BY <1>0, <1>f, <1>29, <2>1, ShrinkKeeps DEF ReopenRestoredForwarding, StepInv,
        ApplyInv, RestoreInv, QuietInv, ReplyInv
  <2>3. RestoreInv'
    BY <1>0, <1>f, <1>29, <2>1, ShrinkKeeps DEF ReopenRestoredForwarding, StepInv,
        ApplyInv, RestoreInv, QuietInv, ReplyInv
  <2>4. QuietInv'
    BY <1>0, <1>f, <1>29, <2>1, ShrinkKeeps DEF ReopenRestoredForwarding, StepInv,
        ApplyInv, RestoreInv, QuietInv, ReplyInv
  <2>5. ReplyInv'
    BY <1>0, <1>f, <1>29, <2>1, ShrinkKeeps DEF ReopenRestoredForwarding, StepInv,
        ApplyInv, RestoreInv, QuietInv, ReplyInv
  <2> QED BY <2>1, <2>2, <2>3, <2>4, <2>5 DEF StepInv
<1>30. CASE StartInterrupted
  <2>1. FilesInv' /\ Shrinks /\ vis'["journal"] = vis["journal"]
    BY <1>0, <1>30, SameFiles DEF StartInterrupted
  <2>2. ApplyInv'
    BY <1>0, <1>f, <1>30, <2>1, ShrinkKeeps DEF StartInterrupted, StepInv, ApplyInv,
        RestoreInv, QuietInv, ReplyInv
  <2>3. RestoreInv'
    BY <1>0, <1>f, <1>30, <2>1, ShrinkKeeps DEF StartInterrupted, StepInv, ApplyInv,
        RestoreInv, QuietInv, ReplyInv
  <2>4. QuietInv'
    BY <1>0, <1>f, <1>30, <2>1, ShrinkKeeps DEF StartInterrupted, StepInv, ApplyInv,
        RestoreInv, QuietInv, ReplyInv
  <2>5. ReplyInv'
    BY <1>0, <1>f, <1>30, <2>1, ShrinkKeeps DEF StartInterrupted, StepInv, ApplyInv,
        RestoreInv, QuietInv, ReplyInv
  <2> QED BY <2>1, <2>2, <2>3, <2>4, <2>5 DEF StepInv
<1>31. CASE StartApply
  <2>1. FilesInv' /\ Shrinks /\ vis'["journal"] = vis["journal"]
    BY <1>0, <1>31, SameFiles DEF StartApply
  <2> QED BY <1>0, <1>f, <1>31, <2>1, ShrinkKeeps DEF StartApply, StepInv, ApplyInv,
        RestoreInv, QuietInv, ReplyInv
<1>32. CASE StartPersist
  <2>1. op' = op /\ \E ok \in BOOLEAN : Durable("desired", vis["desired"], ok)
    BY <1>0, <1>32, NothingCaptured DEF StartPersist, StepInv, QuietInv
  <2>2. /\ vis["desired"] \in surv["desired"] /\ vis["desired"] \in FileContents["desired"]
        /\ vis["desired"] # None
    BY <1>0, FileTypes, FilesKnown, NoneAssumption DEF TypeOK, FilesInv, VisibleMaySurvive
  <2>3. Shrinks /\ VisibleMaySurvive' /\ vis'["journal"] = vis["journal"]
    BY <1>0, <2>1, <2>2, DurableSurvivors, FilesKnown DEF TypeOK, FilesOK, FilesInv, Shrinks
  <2>4. FilesInv'
    BY <1>0, <2>3, ShrinkKeeps DEF FilesInv, DiskInv
  <2>5. pc' = "startReady" => surv'["journal"] = {vis'["journal"]}
    <3>1. PICK ok \in BOOLEAN : Durable("desired", vis["desired"], ok) /\ (pc' = "startReady" => ok)
      BY <1>0, <1>32, NothingCaptured DEF StartPersist, StepInv, QuietInv
    <3> QED BY <2>2, <3>1, FilesKnown DEF Durable
  <2>6. pc' = "startReady" => NoFlight'
    BY <1>32, <2>3, <2>5 DEF StartPersist, StepInv, QuietInv, NoFlight
  <2> QED BY <1>0, <1>f, <1>32, <2>3, <2>4, <2>6, ShrinkKeeps DEF StartPersist, StepInv, ApplyInv, RestoreInv, QuietInv, ReplyInv
<1>33. CASE StartReady
  <2>1. FilesInv' /\ Shrinks /\ vis'["journal"] = vis["journal"]
    BY <1>0, <1>33, ReadyKeeps, FilesKnown DEF StartReady
  <2> QED BY <1>0, <1>f, <1>33, <2>1, ShrinkKeeps DEF StartReady, StepInv, ApplyInv,
        RestoreInv, QuietInv, ReplyInv
<1>34. CASE StartClean
  <2>1. op' = op /\ \E ok \in BOOLEAN : Durable("journal", None, ok)
    BY <1>34 DEF StartClean
  <2>2. None \in Opt(ApplyOperation) /\ GoodJournal(None) /\ ~InFlight(None)
    BY PhaseTypes DEF GoodJournal
  <2>3. NoFlight /\ ~recoveryRequired /\ (Untouched \/ Committed)
    BY <1>0, <1>f, <1>34 DEF StartClean, StepInv, QuietInv, FilesInv, DiskInv
  <2>4. /\ NoFlight' /\ VisibleMaySurvive' /\ JournalInv' /\ OpInv'
        /\ (Untouched => Untouched') /\ (Committed => Committed')
        /\ vis'["journal"] \in {vis["journal"], None}
    BY <1>0, <2>1, <2>2, <2>3, JournalChange
  <2>5. FilesInv' /\ ~InFlight(vis["journal"])'
    BY <1>f, <2>2, <2>3, <2>4 DEF FilesInv, DiskInv
  <2> QED BY <1>0, <1>f, <1>34, <2>3, <2>4, <2>5 DEF StartClean, StepInv, ApplyInv, RestoreInv, QuietInv, ReplyInv
<1> QED
  BY <1>1, <1>2, <1>3, <1>4, <1>5, <1>6, <1>7, <1>8, <1>9, <1>10, <1>11, <1>12, <1>13,
     <1>14, <1>15, <1>16, <1>17, <1>18, <1>19, <1>20, <1>21, <1>22, <1>23, <1>24, <1>25,
     <1>26, <1>27, <1>28, <1>29, <1>30, <1>31, <1>32, <1>33, <1>34 DEF Steps

(* A request that begins takes what is on disk, whatever may survive, for  *)
(* the state before; an older confirmation that could still survive would  *)
(* restore that very state.                                                *)
LEMMA BeginKeeps ==
  ASSUME TypeInv, IInv, pc = "idle", NEW s, s.net \in Nets, s.addrs \in SUBSET Addrs,
         s.addrs # {}, s.confirm \in BOOLEAN, NEW actor \in Actors,
         NEW intent \in {"Ordinary", "RecoveryRestore"}, Begin(s, intent, actor),
         UNCHANGED <<vis, surv, recoveryRequired>>
  PROVE  IInv'
<1> DEFINE cur == AcceptedDesired(vis["desired"])
           t == [desired |-> cur, prev |-> vis["prev"], attr |-> vis["attr"]]
           new == [rev |-> cur.rev + 1, net |-> s.net, addrs |-> s.addrs, confirm |-> s.confirm]
           at == [rev |-> new.rev, applying |-> actor, confirming |-> None]
           u == [desired |-> new, prev |-> cur, attr |-> at]
<1>1. TypeOK /\ FilesInv /\ StepInv /\ ~ApplyBusy
  BY DEF TypeInv, IInv, Begin
<1>2. ~recoveryRequired /\ ~InFlight(vis["journal"])
  <2>1. vis["journal"] \in Opt(ApplyOperation)
    BY <1>1, FileTypes DEF TypeOK
  <2> QED BY <1>1, <2>1 DEF ApplyBusy, RecoveryPending, InFlight, PendingOperation,
       OperationRequiresRecovery, Opt, ApplyOperation, Phases
<1>3. (Untouched \/ Committed) /\ (Untouched \/ NoFlight)
  BY <1>1, <1>2 DEF FilesInv, DiskInv, StepInv, QuietInv
<1>4. /\ \A d \in surv["desired"] : AcceptedDesired(d) = cur
      /\ \A p \in surv["prev"] : p = vis["prev"]
      /\ \A a \in surv["attr"] : a = vis["attr"]
  BY <1>1, <1>3, FilesKnown DEF FilesInv, VisibleMaySurvive, Untouched, Committed,
     DesiredWritten, PrevWritten, AttrWritten
<1>5. t \in {A, B} /\ (Untouched => t = A)
  <2>1. A = [desired |-> A.desired, prev |-> A.prev, attr |-> A.attr]
    BY <1>1, TripleParts, OpType DEF TypeOK
  <2>2. B = [desired |-> B.desired, prev |-> B.prev, attr |-> B.attr]
    BY <1>1, TripleParts, OpType DEF TypeOK
  <2>3. /\ vis["desired"] \in surv["desired"] /\ vis["prev"] \in surv["prev"]
        /\ vis["attr"] \in surv["attr"]
    BY <1>1, FilesKnown DEF FilesInv, VisibleMaySurvive
  <2> QED BY <1>3, <2>1, <2>2, <2>3 DEF Untouched, Committed, DesiredWritten, PrevWritten,
       AttrWritten
<1>6. op'.before = t /\ op'.after = u /\ reply' = "none" /\ pc' = "retain"
  BY DEF Begin, Goto
<1>7. cur \in State
  BY <1>1, AcceptedDesiredType, FileTypes DEF TypeOK
<1>8. WellFormed(t)
  BY <1>1, <1>5 DEF FilesInv, OpInv
<1>9. WellFormed(u)
  <2>1. cur.rev \in Nat /\ cur.rev # 0 /\ cur.addrs # {}
    BY <1>7, <1>8 DEF State, WellFormed
  <2> QED BY <2>1 DEF WellFormed
<1>10. OpInv' /\ Untouched' /\ VisibleMaySurvive'
  BY <1>1, <1>4, <1>6, <1>8, <1>9 DEF OpInv, Untouched, FilesInv, VisibleMaySurvive, WellFormed
<1>11. JournalInv'
  BY <1>1, <1>3, <1>5, <1>6 DEF FilesInv, JournalInv, GoodJournal, NoFlight
<1>12. FilesInv'
  BY <1>10, <1>11 DEF FilesInv, DiskInv
<1>13. ~InFlight(vis["journal"])' /\ ~recoveryRequired'
  BY <1>2
<1>14. ApplyInv'
  BY <1>6, <1>10, <1>13 DEF ApplyInv, ApplyLabels, ConfirmLabels
<1>15. RestoreInv' /\ QuietInv' /\ ReplyInv'
  BY <1>6 DEF RestoreInv, QuietInv, ReplyInv, RestoreLabels, StartLabels
<1> QED BY <1>12, <1>14, <1>15 DEF IInv, StepInv

LEMMA RequestsKeep ==
  ASSUME AllAddressed, TypeInv, IInv, Requests
  PROVE  IInv'
<1> USE DEF netVars, lanVars, confirmVars
<1>0. TypeOK /\ FilesInv /\ StepInv
  BY DEF TypeInv, IInv
<1>1. ASSUME NEW actor \in Actors, NEW p \in Proposals, ApplyDesired(p, actor)
      PROVE  IInv'
  <2>1. /\ p.net \in Nets /\ p.addrs \in SUBSET Addrs /\ p.addrs # {} /\ p.confirm \in BOOLEAN
    BY ProposalsAssumption DEF Content, AllAddressed
  <2>2. /\ pc = "idle" /\ Begin(p, "Ordinary", actor)
        /\ UNCHANGED <<vis, surv, recoveryRequired>>
    BY <1>1 DEF ApplyDesired
  <2> QED BY <2>1, <2>2, BeginKeeps
<1>2. ASSUME NEW actor \in Actors, RestorePrevious(actor)
      PROVE  IInv'
  <2>1. CASE /\ RecoveryPending /\ reply' = "none" /\ UNCHANGED op
             /\ pc' = IF recoveryRequired /\ vis["journal"] = None THEN "reopen" ELSE "guard"
             /\ mode' = "recover"
    <3>1. FilesInv' /\ Shrinks /\ vis' = vis /\ recoveryRequired' = recoveryRequired
      BY <1>0, <1>2, <2>1, SameFiles DEF RestorePrevious
    <3>2. pc = "idle"
      BY <1>2 DEF RestorePrevious
    <3>3. CASE recoveryRequired /\ vis["journal"] = None
      <4>1. Untouched /\ Untouched' /\ pc' = "reopen" /\ vis'["journal"] = None
        BY <1>0, <2>1, <3>1, <3>2, <3>3, ShrinkKeeps DEF StepInv, QuietInv
      <4> QED BY <2>1, <3>1, <4>1 DEF IInv, StepInv, ApplyInv, RestoreInv, QuietInv, ReplyInv,
           ApplyLabels, ConfirmLabels, RestoreLabels, StartLabels
    <3>4. CASE ~(recoveryRequired /\ vis["journal"] = None)
      <4>1. pc' = "guard" /\ vis'["journal"] # None
        BY <2>1, <3>1, <3>4 DEF RecoveryPending, OperationRequiresRecovery
      <4> QED BY <2>1, <3>1, <4>1 DEF IInv, StepInv, ApplyInv, RestoreInv, QuietInv, ReplyInv,
           ApplyLabels, ConfirmLabels, RestoreLabels, StartLabels
    <3> QED BY <3>3, <3>4
  <2>2. CASE vis["prev"] # None /\ Begin(vis["prev"], "RecoveryRestore", actor)
    <3>1. vis["prev"] \in State
      BY <1>0, <2>2, FileTypes DEF TypeOK, Opt
    <3>2. /\ vis["prev"].net \in Nets /\ vis["prev"].addrs \in SUBSET Addrs
          /\ vis["prev"].confirm \in BOOLEAN
      BY <3>1 DEF State
    <3>3. vis["prev"].addrs # {}
      <4>1. ~ApplyBusy /\ vis["journal"] \in Opt(ApplyOperation)
        BY <1>0, <2>2, FileTypes DEF Begin, TypeOK
      <4>2. ~InFlight(vis["journal"])
        BY <4>1 DEF ApplyBusy, RecoveryPending, InFlight, PendingOperation,
           OperationRequiresRecovery, Opt, ApplyOperation, Phases
      <4>3. vis["prev"] \in {A.prev, B.prev}
        BY <1>0, <4>2, FilesKnown DEF FilesInv, DiskInv, VisibleMaySurvive, Untouched,
           Committed, PrevWritten
      <4> QED BY <1>0, <2>2, <4>3 DEF FilesInv, OpInv, WellFormed
    <3>4. pc = "idle" /\ UNCHANGED <<vis, surv, recoveryRequired>>
      BY <1>2 DEF RestorePrevious
    <3> QED BY <2>2, <3>2, <3>3, <3>4, BeginKeeps
  <2> QED BY <1>2, <2>1, <2>2 DEF RestorePrevious
<1>3. ASSUME NEW actor \in Actors, NEW t \in seen, ConfirmApply(t, actor)
      PROVE  IInv'
  <2> DEFINE j == vis["journal"]
             at == [rev |-> t.rev, applying |-> j.applying, confirming |-> actor]
             u == [desired |-> j.proposed, prev |-> j.accepted, attr |-> at]
  <2>1. /\ pc = "idle" /\ ~RecoveryPending /\ PendingOperation(j) /\ reply' = "none"
        /\ vis' = vis /\ surv' = surv /\ recoveryRequired' = recoveryRequired
    BY <1>3 DEF ConfirmApply
  <2>2. InFlight(j) /\ j # None /\ AllFlight /\ ~recoveryRequired
    BY <1>0, <2>1 DEF InFlight, PendingOperation, RecoveryPending, StepInv, QuietInv
  <2>3. CASE UNCHANGED op /\ pc' = "guard" /\ mode' = "recover"
    <3>1. FilesInv'
      BY <1>0, <2>1, <2>3, SameFiles
    <3>2. vis'["journal"] # None
      BY <2>1, <2>2
    <3> QED BY <2>1, <2>3, <3>1, <3>2 DEF IInv, StepInv, ApplyInv, RestoreInv, QuietInv,
         ReplyInv, ApplyLabels, ConfirmLabels, RestoreLabels, StartLabels
  <2>4. CASE op' = [op EXCEPT !.before = Retained(j), !.after = u] /\ pc' = "confirmAttr"
    <3>1. Retained(j) = A /\ j.proposed.addrs # {} /\ j.proposed.rev = j.accepted.rev + 1
      BY <1>0, <2>1, <2>2, FilesKnown DEF FilesInv, VisibleMaySurvive, JournalInv, GoodJournal
    <3>2. j.accepted = A.desired
      BY <3>1 DEF Retained
    <3>3. op'.before = A /\ op'.after = u
      BY <1>0, <2>4, <3>1 DEF TypeOK, Op
    <3>4. A.desired.rev \in Nat
      BY <1>0, OpType DEF TypeOK, State
    <3>5. WellFormed(A) /\ WellFormed(u)
      BY <1>0, <3>1, <3>2, <3>4 DEF FilesInv, OpInv, WellFormed
    <3>6. OpInv'
      BY <3>3, <3>5 DEF OpInv, WellFormed
    <3>7. JournalInv' /\ AllFlight' /\ VisibleMaySurvive'
      BY <1>0, <2>1, <2>2, <3>3 DEF FilesInv, JournalInv, GoodJournal, AllFlight, VisibleMaySurvive
    <3>8. FilesInv'
      BY <2>1, <2>2, <3>6, <3>7 DEF FilesInv, DiskInv
    <3>9. ApplyInv'
      BY <2>1, <2>2, <2>4, <3>2, <3>3, <3>7 DEF ApplyInv, ApplyLabels, ConfirmLabels
    <3>10. RestoreInv' /\ QuietInv' /\ ReplyInv'
      BY <2>1, <2>4 DEF RestoreInv, QuietInv, ReplyInv, RestoreLabels, StartLabels
    <3> QED BY <3>8, <3>9, <3>10 DEF IInv, StepInv
  <2> QED BY <1>3, <2>3, <2>4 DEF ConfirmApply, Goto
<1> QED BY <1>1, <1>2, <1>3 DEF Requests

LEMMA EnvironmentKeeps ==
  ASSUME TypeInv, IInv,
         \/ ExpirePendingConfirmation \/ Poll \/ ReconcileStart \/ ReconcileDone
         \/ Environment \/ UNCHANGED vars
  PROVE  IInv'
<1> USE DEF netVars, lanVars, confirmVars, Goto, ApplyLabels, ConfirmLabels, RestoreLabels,
        StartLabels
<1>0. TypeOK /\ FilesInv /\ StepInv
  BY DEF TypeInv, IInv
<1>1. CASE UNCHANGED <<vis, surv, op, pc, mode, failed, reply, recoveryRequired>>
  <2>1. FilesInv' /\ Shrinks
    BY <1>0, <1>1, SameFiles
  <2>2. DesiredRestored' = DesiredRestored /\ PrevRestored' = PrevRestored /\ AllRestored' = AllRestored
    BY <1>1 DEF DesiredRestored, PrevRestored, AllRestored, AllSynced, Synced
  <2>3. ApplyInv' /\ QuietInv' /\ ReplyInv'
    BY <1>0, <1>1, <2>1, ShrinkKeeps DEF StepInv, ApplyInv, QuietInv, ReplyInv, ApplyBusy,
       RecoveryPending
  <2>4. RestoreInv'
    BY <1>0, <1>1, <2>1, <2>2, ShrinkKeeps DEF StepInv, RestoreInv
  <2> QED BY <2>1, <2>3, <2>4 DEF IInv, StepInv
<1>2. CASE ExpirePendingConfirmation
  <2>1. FilesInv'
    BY <1>0, <1>2, SameFiles DEF ExpirePendingConfirmation
  <2>2. pc' = "guard" /\ mode' = "recover" /\ reply' = "none" /\ vis'["journal"] # None
    BY <1>2 DEF ExpirePendingConfirmation, PendingOperation
  <2> QED BY <2>1, <2>2 DEF IInv, StepInv, ApplyInv, RestoreInv, QuietInv, ReplyInv
<1>3. CASE ProcessEnds
  <2>1. FilesInv' /\ Shrinks
    BY <1>0, <1>3, SameFiles DEF ProcessEnds
  <2>2. pc' = "down" /\ ~recoveryRequired' /\ reply' = reply
    BY <1>3 DEF ProcessEnds
  <2>3. ReplyInv'
    BY <1>0, <2>1, <2>2, ShrinkKeeps DEF StepInv, ReplyInv
  <2> QED BY <2>1, <2>2, <2>3 DEF IInv, StepInv, ApplyInv, RestoreInv, QuietInv
<1>4. CASE PowerLoss
  <2>1. pc' = "down" /\ ~recoveryRequired' /\ reply' = reply /\ op' = op
    BY <1>4 DEF PowerLoss
  <2>2. PICK d \in surv["desired"], j \in surv["journal"], p \in surv["prev"],
             a \in surv["attr"], r \in surv["ready"] :
          /\ vis' = [desired |-> d, journal |-> j, prev |-> p, attr |-> a, ready |-> r]
          /\ surv' = [g \in Files |-> {vis'[g]}]
    BY <1>4 DEF PowerLoss
  <2>3. /\ \A f \in Files : surv'[f] = {vis'[f]} /\ vis'[f] \in surv[f]
    BY <2>2 DEF Files
  <2>4. Shrinks /\ VisibleMaySurvive'
    BY <2>1, <2>3, FilesKnown DEF Shrinks, VisibleMaySurvive
  <2>5. InFlight(vis["journal"])' => AllFlight'
    BY <2>3, FilesKnown DEF AllFlight
  <2>6. ~InFlight(vis["journal"])' => ~AllFlight
    BY <2>3, FilesKnown DEF AllFlight
  <2>7. FilesInv'
    BY <1>0, <2>4, <2>5, <2>6, ShrinkKeeps DEF FilesInv, DiskInv
  <2>8. ReplyInv'
    BY <1>0, <2>1, <2>4, ShrinkKeeps DEF StepInv, ReplyInv
  <2> QED BY <2>1, <2>7, <2>8 DEF IInv, StepInv, ApplyInv, RestoreInv, QuietInv
<1> QED BY <1>1, <1>2, <1>3, <1>4 DEF Poll, vars, ReconcileStart, ReconcileDone, Environment,
     DeadlinePasses

LEMMA IInvInit ==
  ASSUME AllAddressed, Init
  PROVE  IInv
<1>1. PICK p \in Proposals, r \in {0, 1} :
        LET d == [rev |-> r, net |-> p.net, addrs |-> p.addrs, confirm |-> p.confirm]
            t == [desired |-> AcceptedDesired(d), prev |-> None, attr |-> None]
        IN /\ vis = [desired |-> d, journal |-> None, prev |-> None, attr |-> None, ready |-> None]
           /\ op = [before |-> t, after |-> t, intent |-> "Ordinary", ready |-> FALSE, footprint |-> {}]
  BY DEF Init
<1> DEFINE d == [rev |-> r, net |-> p.net, addrs |-> p.addrs, confirm |-> p.confirm]
<1>2. AcceptedDesired(d).rev # 0 /\ AcceptedDesired(d).addrs # {}
  BY DEF AcceptedDesired, AllAddressed
<1>3. /\ A.desired = AcceptedDesired(d) /\ A.prev = None /\ A.attr = None /\ A = B
      /\ vis["desired"] = d /\ vis["journal"] = None /\ vis["prev"] = None /\ vis["attr"] = None
  BY <1>1
<1>4. \A f \in Files : surv[f] = {vis[f]}
  BY DEF Init
<1>5. OpInv
  BY <1>2, <1>3 DEF OpInv, WellFormed
<1>6. Untouched /\ VisibleMaySurvive
  BY <1>3, <1>4, FilesKnown DEF Untouched, VisibleMaySurvive
<1>7. JournalInv
  BY <1>3, <1>4, FilesKnown DEF JournalInv, GoodJournal, InFlight, PendingOperation
<1>8. pc = "down" /\ ~recoveryRequired /\ reply = "none"
  BY DEF Init
<1> QED BY <1>5, <1>6, <1>7, <1>8 DEF IInv, FilesInv, DiskInv, StepInv, ApplyInv, RestoreInv,
     QuietInv, ReplyInv, ApplyLabels, ConfirmLabels, RestoreLabels, StartLabels

-----------------------------------------------------------------------------
(* The theorems.                                                           *)

LEMMA Invariance ==
  ASSUME AllAddressed
  PROVE  Spec => [](TypeOK /\ IInv)
<1>1. Init => TypeInv /\ IInv
  BY TypeInit, IInvInit
<1>2. TypeInv /\ IInv /\ [Next]_vars => (TypeInv /\ IInv)'
  <2> SUFFICES ASSUME TypeInv, IInv, [Next]_vars PROVE TypeInv' /\ IInv'
    OBVIOUS
  <2>1. TypeInv'
    BY TypeStep
  <2>2. IInv'
    BY StepsKeep, RequestsKeep, EnvironmentKeeps DEF Next
  <2> QED BY <2>1, <2>2
<1>3. TypeInv /\ IInv => TypeOK /\ IInv
  BY DEF TypeInv
<1> QED BY <1>1, <1>2, <1>3, PTL DEF Spec

(* apply_desired_request, confirm_apply, the rollback and the recovery are *)
(* one atomic change of the Accepted state: however calls fail and         *)
(* whenever the process ends or the power fails, the next boot restores    *)
(* all of the state before or all of the state after.                      *)
THEOREM Atomicity ==
  ASSUME AllAddressed
  PROVE  Spec => []AtomicOutcome
<1>1. TypeOK /\ IInv => AtomicOutcome
  BY IInvAtomic DEF IInv
<1> QED BY <1>1, Invariance, PTL

(* What netd answers a client stays true until the next operation, over    *)
(* any number of failures, process ends and power losses.                  *)
THEOREM Truthfulness ==
  ASSUME AllAddressed
  PROVE  Spec => []ReplyTruthful
BY IInvTruthful, Invariance, PTL

(* The predecessor that restore_previous_request would apply is older than *)
(* the Accepted state, whatever a power loss leaves of the files.          *)
THEOREM PredecessorsOlder ==
  ASSUME AllAddressed
  PROVE  Spec => []PredecessorOlder
<1>1. TypeOK /\ IInv => PredecessorOlder
  BY IInvOlder DEF IInv
<1> QED BY <1>1, Invariance, PTL

-----------------------------------------------------------------------------
(***************************************************************************)
(* The apply transaction implements the store of Accepted states that      *)
(* AcceptedStore promises to clients: journal, files, rollback and         *)
(* recovery are seen only as "the next state was accepted", perhaps "and a *)
(* power loss took it back before it was settled".                         *)
(***************************************************************************)

(* What every disk a power loss can leave restores: the state before, or   *)
(* the state after.  Neither holds from a commit that ended in an error    *)
(* until its journal is settled.                                           *)
Before == Untouched \/ AllFlight
After == Committed /\ NoFlight

(* What is about to be accepted is the next revision, attributed as such. *)
NextRevision ==
  pc \in ApplyLabels \cup ConfirmLabels =>
    B.desired.rev = A.desired.rev + 1 /\ B.attr.rev = B.desired.rev

StoreInv == TypeInv /\ IInv /\ NextRevision

-----------------------------------------------------------------------------
(* The store a client sees in a state.                                     *)

(* The states before and after are whole, never an absent content.         *)
LEMMA WholeTriples ==
  ASSUME TypeOK
  PROVE  /\ A = [desired |-> A.desired, prev |-> A.prev, attr |-> A.attr]
         /\ B = [desired |-> B.desired, prev |-> B.prev, attr |-> B.attr]
         /\ A # None /\ B # None
BY TripleParts, OpType, NoneAssumption DEF TypeOK

(* What a boot restores from any combination of surviving contents.        *)
LEMMA DiskOutcomes ==
  ASSUME TypeOK, FilesInv, NEW j \in surv["journal"], NEW d \in surv["desired"],
         NEW p \in surv["prev"], NEW a \in surv["attr"]
  PROVE  /\ Before => Outcome(j, d, p, a) = A
         /\ InFlight(j) => Outcome(j, d, p, a) = A
         /\ Committed /\ ~InFlight(j) => Outcome(j, d, p, a) = B
         /\ Outcome(j, d, p, a) \in {A, B}
<1>1. InFlight(j) => Retained(j) = A
  BY DEF FilesInv, JournalInv, GoodJournal
<1>2. InFlight(j) => Outcome(j, d, p, a) = A
  BY <1>1 DEF Outcome
<1>3. Untouched /\ ~InFlight(j) => Outcome(j, d, p, a) = A
  BY WholeTriples DEF Outcome, Untouched
<1>4. Committed /\ ~InFlight(j) => Outcome(j, d, p, a) = B
  BY WholeTriples DEF Outcome, Committed, DesiredWritten, PrevWritten, AttrWritten
<1> QED BY <1>2, <1>3, <1>4 DEF Before, AllFlight, FilesInv, DiskInv

(* What the visible files stand for.                                       *)
LEMMA SeenOutcome ==
  ASSUME TypeOK, FilesInv
  PROVE  /\ Before => VisibleOutcome = A
         /\ ~Before => Committed /\ VisibleOutcome = B
         /\ VisibleOutcome \in {A, B}
<1>1. /\ vis["journal"] \in surv["journal"] /\ vis["desired"] \in surv["desired"]
      /\ vis["prev"] \in surv["prev"] /\ vis["attr"] \in surv["attr"]
  BY FilesKnown DEF FilesInv, VisibleMaySurvive
<1>2. ~Before => Committed /\ ~InFlight(vis["journal"])
  BY DEF FilesInv, DiskInv, Before
<1> QED BY <1>1, <1>2, DiskOutcomes DEF VisibleOutcome

(* What the client sees, and what a power loss could bring back, in each   *)
(* of the three kinds of states.                                           *)
ClientSees ==
  /\ Before \/ A = B => VisibleOutcome = A /\ Unsettled = None
  /\ After => VisibleOutcome = B /\ Unsettled = None
  /\ ~Before /\ ~After /\ A # B => VisibleOutcome = B /\ Unsettled = A
  /\ Unsettled \in {None, A}

LEMMA SettledOutcome == TypeOK /\ FilesInv => ClientSees
<1> SUFFICES ASSUME TypeOK, FilesInv PROVE ClientSees
  OBVIOUS
<1>1. Before \/ A = B => VisibleOutcome = A /\ Unsettled = None
  BY SeenOutcome, DiskOutcomes DEF Unsettled, OnEveryDisk
<1>2. After => VisibleOutcome = B /\ Unsettled = None
  <2> SUFFICES ASSUME After PROVE VisibleOutcome = B /\ Unsettled = None
    OBVIOUS
  <2>1. \A j \in surv["journal"], d \in surv["desired"], p \in surv["prev"], a \in surv["attr"] :
          Outcome(j, d, p, a) = B
    BY DiskOutcomes DEF After, NoFlight
  <2>2. VisibleOutcome = B
    BY <2>1, FilesKnown DEF VisibleOutcome, FilesInv, VisibleMaySurvive
  <2> QED BY <2>1, <2>2 DEF Unsettled, OnEveryDisk
<1>3. ~Before /\ ~After /\ A # B => VisibleOutcome = B /\ Unsettled = A
  <2> SUFFICES ASSUME ~Before, ~After, A # B PROVE VisibleOutcome = B /\ Unsettled = A
    OBVIOUS
  <2>1. VisibleOutcome = B /\ Committed
    BY SeenOutcome
  <2>2. PICK j \in surv["journal"] : InFlight(j)
    BY <2>1 DEF After, NoFlight
  <2>3. /\ vis["desired"] \in surv["desired"] /\ vis["prev"] \in surv["prev"]
        /\ vis["attr"] \in surv["attr"]
    BY FilesKnown DEF FilesInv, VisibleMaySurvive
  <2>4. Outcome(j, vis["desired"], vis["prev"], vis["attr"]) = A
    BY <2>2, <2>3, DiskOutcomes
  <2> QED BY <2>1, <2>2, <2>3, <2>4 DEF Unsettled, OnEveryDisk
<1>4. Unsettled \in {None, A}
  BY DEF Unsettled
<1> QED BY <1>1, <1>2, <1>3, <1>4 DEF ClientSees

(* The same of the next state.                                             *)
LEMMA SettledNext == (TypeOK /\ FilesInv)' => ClientSees'
BY SettledOutcome, PTL

-----------------------------------------------------------------------------
(* Steps of one transaction.                                               *)

(* The step leaves every disk with the outcome it had, or settles it. *)
Keeps ==
  /\ op' = op
  /\ Before => Before'
  /\ After /\ A # B => After'

StoreStep == [Store!Next]_<<VisibleOutcome, Unsettled>>

(* Such a step is none of the store's, settles its last acceptance, or     *)
(* undoes it.                                                              *)
LEMMA KeepsIsStep ==
  ASSUME TypeOK, FilesInv, TypeOK', FilesInv', Keeps
  PROVE  StoreStep
<1> USE DEF StoreStep, Store!Next, Store!Settle, Store!Revert
<1>1. A' = A /\ B' = B
  BY DEF Keeps
<1>2. CASE Before \/ A = B
  <2>1. (Before \/ A = B)'
    BY <1>1, <1>2 DEF Keeps
  <2> QED BY <1>1, <1>2, <2>1, SettledOutcome, SettledNext DEF ClientSees
<1>3. CASE After /\ A # B
  <2>1. After'
    BY <1>3 DEF Keeps
  <2> QED BY <1>1, <1>3, <2>1, SettledOutcome, SettledNext DEF ClientSees
<1>4. CASE ~Before /\ ~After /\ A # B
  <2>1. VisibleOutcome = B /\ Unsettled = A /\ A # None
    BY <1>4, SettledOutcome, WholeTriples DEF ClientSees
  <2>2. CASE Before'
    BY <1>1, <2>1, <2>2, SettledOutcome, SettledNext DEF ClientSees
  <2>3. CASE After'
    BY <1>1, <2>1, <2>3, SettledOutcome, SettledNext DEF ClientSees
  <2>4. CASE ~Before' /\ ~After'
    BY <1>1, <1>4, <2>1, <2>4, SettledOutcome, SettledNext DEF ClientSees
  <2> QED BY <2>2, <2>3, <2>4
<1> QED BY <1>2, <1>3, <1>4

(* A journal always survives, so all of them and none of them in flight    *)
(* exclude each other.                                                     *)
LEMMA AllFlightBefore ==
  ASSUME FilesInv
  PROVE  /\ AllFlight => ~NoFlight
         /\ InFlight(vis["journal"]) => ~NoFlight
         /\ ~InFlight(vis["journal"]) => ~AllFlight
BY FilesKnown DEF FilesInv, VisibleMaySurvive, AllFlight, NoFlight

(* Files that are both untouched and written hold one and the same state.  *)
LEMMA BothSame ==
  ASSUME TypeOK, FilesInv, Untouched, Committed
  PROVE  A = B
<1>1. /\ vis["desired"] \in surv["desired"] /\ vis["prev"] \in surv["prev"]
      /\ vis["attr"] \in surv["attr"]
  BY FilesKnown DEF FilesInv, VisibleMaySurvive
<1> QED BY <1>1, WholeTriples DEF Untouched, Committed, DesiredWritten, PrevWritten, AttrWritten

(* Calls that leave nothing new on the disk.                               *)
LEMMA ShrinkIsKept ==
  ASSUME Shrinks
  PROVE  Keeps
BY ShrinkKeeps DEF Shrinks, Keeps, Before, After

(* Calls that publish or withdraw the LAN services.                        *)
LEMMA ReadyIsKept ==
  ASSUME TypeOK, FilesInv, op' = op, NEW ok \in BOOLEAN,
         Publish(ok) \/ SetLanServicesReady(None, ok)
  PROVE  Keeps
BY ReadyKeeps, ShrinkIsKept

(* A journal may be written when the three files are untouched, and one    *)
(* that recovery passes over when none is in flight.                       *)
LEMMA JournalIsKept ==
  ASSUME TypeOK, FilesInv, op' = op, NEW c \in Opt(ApplyOperation), GoodJournal(c),
         NEW ok \in BOOLEAN, Durable("journal", c, ok),
         Untouched \/ (NoFlight /\ ~InFlight(c))
  PROVE  Keeps
<1>1. Before => Before'
  BY JournalChange, AllFlightBefore DEF Before
<1>2. After /\ A # B => After'
  BY JournalChange, BothSame DEF After
<1> QED BY <1>1, <1>2 DEF Keeps

(* Calls that write the three files behind an in-flight journal.           *)
LEMMA FlightIsKept ==
  ASSUME TypeOK, FilesInv, op' = op, AllFlight, NEW f \in {"desired", "prev", "attr"},
         NEW c \in FileContents[f], NEW ok \in BOOLEAN, Durable(f, c, ok)
  PROVE  Keeps
BY StateWrite, AllFlightBefore DEF Keeps, Before, After

(* Calls that write back the state before.                                 *)
LEMMA RestoringIsKept ==
  ASSUME TypeOK, FilesInv, op' = op, InFlight(vis["journal"]),
         NEW f \in {"desired", "prev", "attr"}, NEW ok \in BOOLEAN, Durable(f, A[f], ok)
  PROVE  Keeps
BY RestoringWrite, AllFlightBefore DEF Keeps, Before, After

(* Every call but the two commits. *)
LEMMA StepsAreKept ==
  ASSUME TypeInv, IInv, Steps, ~Commit, ~ConfirmCommit
  PROVE  Keeps
<1>0. TypeOK /\ FilesInv /\ StepInv
  BY DEF TypeInv, IInv
<1> USE DEF ApplyLabels, ConfirmLabels, RestoreLabels, StartLabels, Goto, netVars, lanVars,
        confirmVars
<1>1. CASE \/ Block \/ Guard \/ Reprogram \/ RestoreIncomplete \/ AwaitServices \/ AwaitRestored
           \/ ReopenRestoredForwarding \/ StartInterrupted \/ StartApply
  <2>1. Shrinks
    BY <1>1 DEF Shrinks, Block, Guard, Reprogram, RestoreIncomplete, AwaitServices, AwaitRestored,
       ReopenRestoredForwarding, StartInterrupted, StartApply
  <2> QED BY <2>1, ShrinkIsKept
<1>2. CASE ProgramProposed
  <2>1. op' = [op EXCEPT !.after.desired = B.desired]
    BY <1>0, <1>2, NothingCaptured DEF ProgramProposed
  <2>2. op' = op
    BY <1>0, <2>1 DEF TypeOK, Op, Triple
  <2> QED BY <1>2, <2>2, ShrinkIsKept DEF Shrinks, ProgramProposed
<1>3. CASE Suspend \/ Unsuspend \/ PublishServices \/ Quiesce \/ Republish \/ StartReady
  <2>1. op' = op /\ \E ok \in BOOLEAN : Publish(ok) \/ SetLanServicesReady(None, ok)
    BY <1>3 DEF Suspend, Unsuspend, PublishServices, Quiesce, Republish, StartReady
  <2> QED BY <1>0, <2>1, ReadyIsKept
<1>4. CASE Retain
  <2> DEFINE c == Journal("Applying", None, None)
  <2>1. c \in Opt(ApplyOperation) /\ GoodJournal(c)
    BY <1>0, <1>4, NewJournal DEF Retain, FilesInv, TypeInv, AttrKnown
  <2>2. op' = op /\ Untouched /\ \E ok \in BOOLEAN : Durable("journal", c, ok)
    BY <1>0, <1>4 DEF Retain, StepInv, ApplyInv
  <2> QED BY <1>0, <2>1, <2>2, JournalIsKept
<1>5. CASE Forget \/ FinishRecovery \/ Clean \/ StartClean
  <2>1. op' = op /\ \E ok \in BOOLEAN : Durable("journal", None, ok)
    BY <1>5 DEF Forget, FinishRecovery, Clean, StartClean
  <2>2. Untouched \/ NoFlight
    BY <1>0, <1>5 DEF Forget, FinishRecovery, Clean, StartClean, StepInv, ApplyInv, RestoreInv,
       QuietInv
  <2>3. None \in Opt(ApplyOperation) /\ GoodJournal(None) /\ ~InFlight(None)
    BY DEF Opt, GoodJournal, InFlight, PendingOperation
  <2> QED BY <1>0, <2>1, <2>2, <2>3, JournalIsKept
<1>6. CASE Pend
  <2> DEFINE c == Journal("PendingConfirmation", B.desired, ids + 1)
  <2>1. pc = "pend" /\ op' = op /\ \E ok \in BOOLEAN : Durable("journal", c, ok)
    BY <1>6 DEF Pend
  <2>2. ids + 1 \in 1..MaxIds
    BY <1>0, <2>1, BoundsAssumption DEF TypeInv, IdLeft, TypeOK
  <2>3. c \in Opt(ApplyOperation)
    BY <1>0, <2>1, <2>2, JournalType, OpType, PhaseTypes DEF TypeInv, AttrKnown, Opt, TypeOK
  <2>4. Untouched /\ B.desired.rev = A.desired.rev + 1 /\ B.desired.addrs # {}
    BY <1>0, <2>1 DEF StepInv, ApplyInv, FilesInv, OpInv, WellFormed
  <2>5. Retained(c) = A /\ c.proposed = B.desired /\ c.accepted = A.desired
    BY <1>0, WholeTriples DEF Journal, Retained
  <2>6. GoodJournal(c)
    BY <2>4, <2>5 DEF GoodJournal
  <2> QED BY <1>0, <2>1, <2>3, <2>4, <2>6, JournalIsKept
<1>7. CASE PersistProposed \/ ConfirmDesired
  <2>1. op' = op /\ \E ok \in BOOLEAN : Durable("desired", B.desired, ok)
    BY <1>7 DEF PersistProposed, ApplyWrite, ConfirmDesired, ConfirmWrite
  <2>2. AllFlight
    BY <1>0, <1>7 DEF PersistProposed, ApplyWrite, ConfirmDesired, ConfirmWrite, StepInv,
       ApplyInv
  <2>3. B.desired \in FileContents["desired"]
    BY <1>0, OpType, FileTypes DEF TypeOK
  <2> QED BY <1>0, <2>1, <2>2, <2>3, FlightIsKept
<1>8. CASE PersistPredecessor \/ ConfirmPredecessor
  <2>1. op' = op /\ \E ok \in BOOLEAN : Durable("prev", A.desired, ok)
    BY <1>8 DEF PersistPredecessor, ApplyWrite, ConfirmPredecessor, ConfirmWrite
  <2>2. AllFlight
    BY <1>0, <1>8 DEF PersistPredecessor, ApplyWrite, ConfirmPredecessor, ConfirmWrite, StepInv,
       ApplyInv
  <2>3. A.desired \in FileContents["prev"]
    BY <1>0, OpType, FileTypes DEF TypeOK
  <2> QED BY <1>0, <2>1, <2>2, <2>3, FlightIsKept
<1>9. CASE WriteAttribution \/ ConfirmAttribution
  <2>1. op' = op /\ \E ok \in BOOLEAN : Durable("attr", B.attr, ok)
    BY <1>9 DEF WriteAttribution, ApplyWrite, ConfirmAttribution, ConfirmWrite
  <2>2. AllFlight
    BY <1>0, <1>9 DEF WriteAttribution, ApplyWrite, ConfirmAttribution, ConfirmWrite, StepInv,
       ApplyInv
  <2>3. B.attr \in FileContents["attr"]
    BY <1>0, OpType, FileTypes DEF TypeOK
  <2> QED BY <1>0, <2>1, <2>2, <2>3, FlightIsKept
<1>10. CASE RestoreDesired \/ RestorePredecessor \/ RestoreAttribution
  <2>1. InFlight(vis["journal"]) /\ op' = op
    BY <1>0, <1>10 DEF RestoreDesired, RestorePredecessor, RestoreAttribution, RestoreWrite,
       StepInv, RestoreInv
  <2>2. Target = A
    BY <1>0, <2>1, TargetIsA
  <2>3. RestoredDesired = A["desired"] /\ Target.prev = A["prev"] /\ Target.attr = A["attr"]
    BY <1>0, <2>2, NothingCaptured DEF RestoredDesired
  <2>4. \E f \in {"desired", "prev", "attr"}, ok \in BOOLEAN : Durable(f, A[f], ok)
    BY <1>10, <2>3 DEF RestoreDesired, RestorePredecessor, RestoreAttribution, RestoreWrite
  <2> QED BY <1>0, <2>1, <2>4, RestoringIsKept
<1>11. CASE StartPersist
  <2>1. pc = "startPersist" /\ op' = op
        /\ \E ok \in BOOLEAN : Durable("desired", Captured(vis["desired"]), ok)
    BY <1>11 DEF StartPersist
  <2>2. ~InFlight(vis["journal"])
    BY <1>0, <2>1 DEF StepInv, QuietInv
  <2>3. \E ok \in BOOLEAN : Durable("desired", vis["desired"], ok)
    BY <1>0, <2>1, <2>2, NothingCaptured
  <2>4. vis["desired"] \in FileContents["desired"] /\ vis["desired"] \in surv["desired"]
    BY <1>0, FilesKnown DEF TypeOK, FilesInv, VisibleMaySurvive
  <2>5. \A g \in Files : surv'[g] \subseteq surv[g]
    BY <1>0, <2>3, <2>4, DurableSurvivors, FilesKnown DEF TypeOK, FilesOK, FilesInv
  <2> QED BY <2>1, <2>5, ShrinkIsKept, FilesKnown DEF Shrinks
<1> QED BY <1>1, <1>2, <1>3, <1>4, <1>5, <1>6, <1>7, <1>8, <1>9, <1>10, <1>11 DEF Steps

(* What happens between the calls. *)
LEMMA OthersAreKept ==
  ASSUME TypeInv, IInv,
         \/ ExpirePendingConfirmation \/ Poll \/ ReconcileStart \/ ReconcileDone
         \/ Environment \/ UNCHANGED vars
  PROVE  Keeps
<1>1. CASE PowerLoss
  <2>1. op' = op /\ \A f \in Files : surv'[f] = {vis'[f]} /\ vis'[f] \in surv[f]
    BY <1>1 DEF PowerLoss, Files
  <2> QED BY <2>1, ShrinkIsKept, FilesKnown DEF Shrinks
<1>2. CASE UNCHANGED <<vis, surv, op>>
  BY <1>2, ShrinkIsKept DEF Shrinks
<1> QED BY <1>1, <1>2 DEF Poll, vars, ReconcileStart, ReconcileDone, Environment, ProcessEnds,
     DeadlinePasses, ExpirePendingConfirmation

-----------------------------------------------------------------------------
(* The commits.                                                            *)

(* Writing the Accepted journal accepts the next state, now or, after an   *)
(* error, until a power loss takes it back.                                *)
LEMMA CommitIsStep ==
  ASSUME TypeOK, IInv, NextRevision, TypeOK', FilesInv', Commit \/ ConfirmCommit
  PROVE  StoreStep
<1> USE DEF StoreStep, Store!Next, Store!Accept
<1>1. pc \in {"commit", "confirmCommit"} /\ op' = op
  BY DEF Commit, ConfirmCommit, ConfirmWrite
<1>2. AllFlight /\ B.prev = A.desired
  BY <1>1 DEF IInv, StepInv, ApplyInv, ApplyLabels, ConfirmLabels
<1>3. B.desired.rev = A.desired.rev + 1 /\ B.attr.rev = B.desired.rev
  BY <1>1 DEF NextRevision, ApplyLabels, ConfirmLabels
<1>4. VisibleOutcome = A /\ Unsettled = None
  BY <1>2, SettledOutcome DEF ClientSees, IInv, Before
<1>5. A' = A /\ B' = B
  BY <1>1
<1>6. \/ VisibleOutcome' = A /\ Unsettled' = None
      \/ VisibleOutcome' = B /\ Unsettled' \in {None, A}
  BY <1>5, SettledNext DEF ClientSees
<1> QED BY <1>2, <1>3, <1>4, <1>6

-----------------------------------------------------------------------------
(* Requests.                                                               *)

(* A request takes for the state before what the client sees; an unsettled *)
(* acceptance is settled by it.                                            *)
LEMMA BeginIsStep ==
  ASSUME TypeOK, IInv, TypeOK', IInv', NEW s, NEW actor, NEW intent,
         Begin(s, intent, actor), UNCHANGED <<vis, surv>>
  PROVE  StoreStep
<1> USE DEF StoreStep, Store!Next, Store!Settle
<1>1. vis["journal"] \in Opt(ApplyOperation) /\ ~ApplyBusy
  BY FileTypes DEF TypeOK, Begin
<1>2. ~InFlight(vis["journal"])
  BY <1>1 DEF ApplyBusy, RecoveryPending, InFlight, PendingOperation, OperationRequiresRecovery,
     Opt, ApplyOperation, Phases
<1>3. VisibleOutcome' = VisibleOutcome
  BY DEF VisibleOutcome, Outcome, Retained, InFlight, AcceptedDesired
<1>4. Untouched'
  BY DEF Begin, Goto, IInv, StepInv, ApplyInv
<1>5. Unsettled' = None
  BY <1>4, SettledNext DEF ClientSees, IInv, Before
<1> QED BY <1>3, <1>5

(* Every request: one that is refused or turns to recovery changes no      *)
(* file, and a confirmation proposes anew what the journal retained.       *)
LEMMA RequestIsStep ==
  ASSUME TypeInv, IInv, TypeOK', IInv', Requests
  PROVE  StoreStep
<1>0. TypeOK /\ FilesInv /\ StepInv /\ FilesInv'
  BY DEF TypeInv, IInv
<1>1. CASE UNCHANGED <<vis, surv, op>>
  BY <1>0, <1>1, ShrinkIsKept, KeepsIsStep DEF Shrinks
<1>2. ASSUME NEW actor \in Actors, NEW p \in Proposals, ApplyDesired(p, actor)
      PROVE  StoreStep
  BY <1>0, <1>2, BeginIsStep DEF ApplyDesired
<1>3. ASSUME NEW actor \in Actors, RestorePrevious(actor)
      PROVE  StoreStep
  BY <1>0, <1>1, <1>3, BeginIsStep DEF RestorePrevious
<1>4. ASSUME NEW actor \in Actors, NEW t \in seen, ConfirmApply(t, actor)
      PROVE  StoreStep
  <2> DEFINE j == vis["journal"]
  <2>1. pc = "idle" /\ ~RecoveryPending /\ PendingOperation(j) /\ vis' = vis /\ surv' = surv
    BY <1>4 DEF ConfirmApply
  <2>2. AllFlight /\ InFlight(j)
    BY <1>0, <2>1 DEF StepInv, QuietInv, InFlight, PendingOperation
  <2>3. Retained(j) = A
    BY <1>0, <2>2, FilesKnown DEF FilesInv, VisibleMaySurvive, JournalInv, GoodJournal
  <2>4. op' = op \/ op'.before = A
    BY <1>0, <1>4, <2>3 DEF ConfirmApply, TypeOK, Op
  <2>5. A' = A /\ AllFlight'
    BY <2>1, <2>2, <2>4 DEF AllFlight
  <2> QED BY <1>0, <2>2, <2>5, SettledOutcome, SettledNext DEF ClientSees, StoreStep, Before
<1> QED BY <1>2, <1>3, <1>4 DEF Requests

-----------------------------------------------------------------------------
(* The invariant, and the refinement.                                      *)

(* Only a request or a confirmation begins a transaction, and what it      *)
(* proposes does not change before its commit.                             *)
LEMMA NextRevisionKept ==
  ASSUME TypeInv, IInv, NextRevision, [Next]_vars
  PROVE  NextRevision'
<1>0. TypeOK /\ FilesInv /\ StepInv
  BY DEF TypeInv, IInv
<1> USE DEF ApplyLabels, ConfirmLabels, Goto, Answer
<1>1. ASSUME op' = op,
             pc' \in ApplyLabels \cup ConfirmLabels => pc \in ApplyLabels \cup ConfirmLabels
      PROVE  NextRevision'
  BY <1>1 DEF NextRevision
<1>2. ASSUME NEW s, NEW actor, NEW intent, Begin(s, intent, actor)
      PROVE  NextRevision'
  BY <1>2 DEF Begin, NextRevision
<1>3. CASE Requests
  <2>1. ASSUME NEW actor \in Actors, NEW p \in Proposals, ApplyDesired(p, actor)
        PROVE  NextRevision'
    BY <1>2, <2>1 DEF ApplyDesired
  <2>2. ASSUME NEW actor \in Actors, RestorePrevious(actor)
        PROVE  NextRevision'
    <3>1. CASE Begin(vis["prev"], "RecoveryRestore", actor)
      BY <1>2, <3>1
    <3>2. CASE op' = op /\ pc' \in {"reopen", "guard"}
      BY <1>1, <3>2
    <3> QED BY <2>2, <3>1, <3>2 DEF RestorePrevious
  <2>3. ASSUME NEW actor \in Actors, NEW t \in seen, ConfirmApply(t, actor)
        PROVE  NextRevision'
    <3> DEFINE j == vis["journal"]
    <3>1. CASE op' = op /\ pc' = "guard"
      BY <1>1, <3>1
    <3>2. CASE op' = [op EXCEPT !.before = Retained(j),
                        !.after = [desired |-> j.proposed, prev |-> j.accepted,
                          attr |-> [rev |-> t.rev, applying |-> j.applying, confirming |-> actor]]]
      <4>1. op'.before = Retained(j) /\ op'.after.desired = j.proposed /\ op'.after.attr.rev = t.rev
        BY <1>0, <3>2 DEF TypeOK, Op
      <4>2. t.rev = j.proposed.rev /\ PendingOperation(j)
        BY <2>3 DEF ConfirmApply, ConfirmMatches
      <4>3. j.proposed.rev = j.accepted.rev + 1
        BY <1>0, <4>2, FilesKnown DEF FilesInv, VisibleMaySurvive, JournalInv, GoodJournal
      <4> QED BY <4>1, <4>2, <4>3 DEF Retained, NextRevision
    <3> QED BY <2>3, <3>1, <3>2 DEF ConfirmApply
  <2> QED BY <1>3, <2>1, <2>2, <2>3 DEF Requests
<1>4. CASE Steps
  <2>1. op' = op
    BY <1>4, StepsAreKept DEF Keeps, Commit, ConfirmCommit, ConfirmWrite
  <2>2. pc' \in ApplyLabels \cup ConfirmLabels => pc \in ApplyLabels \cup ConfirmLabels
    BY <1>4 DEF Steps, Retain, Suspend, Unsuspend, Forget, ProgramProposed, PublishServices,
       AwaitServices, PersistProposed, PersistPredecessor, WriteAttribution, ApplyWrite, Commit,
       Clean, Pend, Block, ConfirmAttribution, ConfirmDesired, ConfirmPredecessor, ConfirmCommit,
       ConfirmWrite, Guard, Quiesce, Reprogram, RestoreDesired, RestorePredecessor,
       RestoreAttribution, RestoreWrite, RestoreIncomplete, Republish, AwaitRestored,
       FinishRecovery, ReopenRestoredForwarding, StartInterrupted, StartApply, StartPersist,
       StartReady, StartClean, Recover, RestoreFailed, Proceed
  <2> QED BY <1>1, <2>1, <2>2
<1>5. CASE \/ ExpirePendingConfirmation \/ Poll \/ ReconcileStart \/ ReconcileDone
           \/ Environment \/ UNCHANGED vars
  <2>1. op' = op
    BY <1>5, OthersAreKept DEF Keeps
  <2>2. pc' \in {pc, "guard", "down"}
    BY <1>5 DEF ExpirePendingConfirmation, Poll, ReconcileStart, ReconcileDone, Environment,
       ProcessEnds, PowerLoss, DeadlinePasses, vars
  <2> QED BY <1>1, <2>1, <2>2
<1> QED BY <1>3, <1>4, <1>5 DEF Next

(* The invariant holds in every reachable state.                           *)
LEMMA StoreInvariance ==
  ASSUME AllAddressed
  PROVE  Spec => []StoreInv
<1>1. Init => StoreInv
  <2>1. Init => NextRevision
    BY DEF Init, NextRevision, ApplyLabels, ConfirmLabels
  <2> QED BY <2>1, TypeInit, IInvInit DEF StoreInv
<1>2. StoreInv /\ [Next]_vars => StoreInv'
  <2> SUFFICES ASSUME StoreInv, [Next]_vars PROVE StoreInv'
    OBVIOUS
  <2>1. TypeInv'
    BY TypeStep DEF StoreInv
  <2>2. IInv'
    BY StepsKeep, RequestsKeep, EnvironmentKeeps DEF Next, StoreInv
  <2>3. NextRevision'
    BY NextRevisionKept DEF StoreInv
  <2> QED BY <2>1, <2>2, <2>3 DEF StoreInv
<1> QED BY <1>1, <1>2, PTL DEF Spec

(* The store starts settled and without a predecessor.                     *)
LEMMA InitiallyStore ==
  ASSUME AllAddressed, Init
  PROVE  Store!Init
<1>1. TypeOK /\ FilesInv
  BY TypeInit, IInvInit DEF TypeInv, IInv
<1>2. A = B /\ A.prev = None
  BY DEF Init
<1> QED BY <1>1, <1>2, SettledOutcome DEF ClientSees, Store!Init

(* Every step of netd or its environment is one of the store, or none.     *)
LEMMA NextIsStep ==
  ASSUME StoreInv, [Next]_vars, StoreInv'
  PROVE  StoreStep
<1>0. TypeInv /\ IInv /\ NextRevision /\ TypeOK /\ FilesInv /\ TypeOK' /\ IInv' /\ FilesInv'
  BY DEF StoreInv, TypeInv, IInv
<1>1. CASE Requests
  BY <1>0, <1>1, RequestIsStep
<1>2. CASE Commit \/ ConfirmCommit
  BY <1>0, <1>2, CommitIsStep
<1>3. CASE Steps /\ ~Commit /\ ~ConfirmCommit
  BY <1>0, <1>3, StepsAreKept, KeepsIsStep
<1>4. CASE \/ ExpirePendingConfirmation \/ Poll \/ ReconcileStart \/ ReconcileDone
           \/ Environment \/ UNCHANGED vars
  BY <1>0, <1>4, OthersAreKept, KeepsIsStep
<1> QED BY <1>1, <1>2, <1>3, <1>4 DEF Next

(* However calls fail, the process ends or the power is lost, a client     *)
(* sees the Accepted state change only by the acceptance of the next       *)
(* revision with its predecessor and attribution, or by the undoing of one *)
(* whose commit netd answered to be indeterminate.                         *)
THEOREM StoreImplemented ==
  ASSUME AllAddressed
  PROVE  Spec => ImplementsStore
<1>1. Init => Store!Init
  BY InitiallyStore
<1>2. StoreInv /\ [Next]_vars /\ StoreInv' => [Store!Next]_<<VisibleOutcome, Unsettled>>
  BY NextIsStep DEF StoreStep
<1> QED BY <1>1, <1>2, StoreInvariance, PTL DEF Spec, ImplementsStore, Store!Spec
=============================================================================
