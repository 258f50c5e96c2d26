--------------------------- MODULE BootstrapProofs ----------------------------
(***************************************************************************)
(* Proofs about Bootstrap, for any numbers of submissions, hostnames,      *)
(* failing calls, crashes and timeouts.                                    *)
(***************************************************************************)
EXTENDS Bootstrap, TLAPS

-----------------------------------------------------------------------------
(* The inductive invariant.                                                *)

(* The steps of netd's bootstrap: up to the commit, and what is done by    *)
(* then; with the marker durable; and those of a recovery.                 *)
BeforeCommit == {"owned", "subject", "host", "mark", "program", "persist", "subject2", "host2",
                 "commit"}
Unconfirmed == {"confirm", "uncommit"}
Recorded == {"program", "persist", "subject2", "host2", "commit", "confirm", "uncommit"}
OwnedLabels == {"services", "ready", "unopt", "unattempt"}
Removals == {"desired", "identity", "hostname", "attempt", "opt"}
Recovery == {"recover", "reset"} \cup Removals
StartLabels == {"start", "first", "accepted", "repersist", "republish"} \cup Recovery
BootstrapLabels == BeforeCommit \cup Unconfirmed \cup OwnedLabels \cup Recovery
NetdLabels == {"idle", "writeOpt", "syncOpt"} \cup StartLabels \cup BootstrapLabels
UiWork == {"attempt", "hostname", "create", "write", "subject", "send", "unhost", "unhostAll",
           "unidentify"}

UiLabels == {"down", "idle", "attempt", "hostname", "create", "write", "subject", "send",
             "wait", "unhost", "unhostAll", "unidentify"}

(* Every variable has its type; netd and ui are records.                   *)
FilesOK ==
  /\ DOMAIN vis = Files /\ DOMAIN surv = Files
  /\ \A f \in Files : vis[f] \in surv[f] /\ surv[f] \subseteq Contents[f] \cup {None}
NetdOK ==
  /\ netd \in [pc: NetdLabels, mode: {"idle", "opt", "start", "bootstrap"},
              req: Requests \cup Opts \cup {None}, had: BOOLEAN]
  /\ netd.mode = "idle" => netd.pc = "idle"
  /\ netd.mode = "opt" => netd.pc \in {"writeOpt", "syncOpt"} /\ netd.req \in Opts
  /\ netd.mode = "start" => netd.pc \in StartLabels
  /\ netd.mode = "bootstrap" => netd.pc \in BootstrapLabels /\ netd.req \in Requests
UiOK ==
  /\ ui \in [pc: UiLabels, req: Requests \cup {None}]
  /\ ui.pc \notin {"down", "idle"} => ui.req \in Requests
ValuesOK ==
  /\ live \in Requests \cup Opts \cup {None}
  /\ queue \in Seq(Requests)
  /\ answer \in [Ids -> Answers \cup {None}]
  /\ requests \in 0 .. MaxRequests /\ overlapped \in BOOLEAN
  /\ used \in [Events -> Nat]
TypeInv == FilesOK /\ NetdOK /\ UiOK /\ ValuesOK

Bootstrapping == netd.mode = "bootstrap"
Failed == used["fault"] + used["crash"]

(* The marker is written once, by a bootstrap that found none.             *)
MarkerInv ==
  /\ netd.pc \in (BeforeCommit \ {"owned"}) \cup Recovery => vis["marker"] = None
  /\ netd.pc \in Unconfirmed =>
       /\ vis["marker"] \in {None, netd.req.id} /\ surv["ready"] = {None}
       /\ vis["marker"] = None => netd.req.id \notin surv["marker"]
  /\ netd.pc \in OwnedLabels => surv["marker"] = {netd.req.id}
  /\ netd.pc \in {"accepted", "repersist", "republish"} =>
       vis["marker"] # None /\ vis["desired"] # None
  /\ netd.pc = "republish" => None \notin surv["marker"]
  /\ ServicesOnlyOwned

(* Submissions reach netd at most once and in their order; an id not       *)
(* answered yet has no marker unless netd is committing it.                *)
Open(i) == answer[i] = None /\ i \notin surv["marker"]
RequestInv ==
  /\ ui.pc \in UiWork \cup {"wait"} => ui.req.id = requests
  /\ \A k \in DOMAIN queue : queue[k].id <= requests /\ Open(queue[k].id)
  /\ \A k, l \in DOMAIN queue : k < l => queue[k].id < queue[l].id
  /\ Bootstrapping =>
       /\ netd.req.id <= requests /\ answer[netd.req.id] = None
       /\ \A k \in DOMAIN queue : netd.req.id < queue[k].id
       /\ netd.pc \in BeforeCommit \cup Recovery => netd.req.id \notin surv["marker"]
  /\ ui.pc \in UiWork =>
       /\ Open(requests)
       /\ \A k \in DOMAIN queue : queue[k].id < requests
       /\ Bootstrapping => netd.req.id < requests
  /\ \A i \in Ids : i > requests => Open(i)

(* An attempt's network and state are there only with its record, or with  *)
(* the marker, until a start has removed them.                             *)
UndoInv ==
  /\ live \in Requests => vis["attempt"] # None \/ vis["marker"] # None
  /\ vis["desired"] # None =>
       \/ vis["attempt"] # None \/ vis["marker"] # None
       \/ netd.mode = "start" /\ netd.pc \in {"start", "recover", "desired"}
  /\ netd.pc = "reset" => vis["attempt"] # None
  /\ netd.pc \in Recorded => vis["attempt"] = netd.req
  /\ netd.pc \in Removals => live \notin Requests
  /\ netd.pc \in Removals \ {"desired"} => vis["desired"] = None

(* Without overlap, netd works for the UI's only submission.               *)
AloneInv ==
  /\ netd.pc = "owned" => vis["marker"] = None
  /\ Bootstrapping => queue = <<>> /\ ui.pc \notin UiWork
  /\ queue # <<>> => Len(queue) = 1 /\ ui.pc \notin UiWork /\ vis["marker"] = None
  /\ ui.pc \in UiWork => vis["marker"] = None

(* What the commit rests on.                                               *)
CommitInv ==
  /\ netd.pc \in {"subject2", "host2", "commit"} \cup Unconfirmed \cup OwnedLabels =>
       /\ surv["desired"] = {netd.req}
       /\ surv["identity"] = {vis["identity"]} /\ surv["hostname"] = {vis["hostname"]}
  /\ netd.pc \in {"subject2", "host2", "commit"} => surv["marker"] = {None}
  /\ netd.pc \in {"host2", "commit"} \cup Unconfirmed \cup OwnedLabels =>
       vis["identity"] = netd.req.id
  /\ netd.pc \in {"commit"} \cup Unconfirmed \cup OwnedLabels => vis["hostname"] = netd.req.host
  /\ netd.pc \in Unconfirmed => surv["marker"] = {None, vis["marker"]} /\ Failed >= 1
  /\ netd.pc = "uncommit" /\ vis["marker"] # None => Failed >= 2

(* A marker that could not be removed for good keeps its record, and with  *)
(* it other submissions away, until netd starts again.                     *)
Held ==
  /\ vis["attempt"] # None /\ Failed >= 3
  /\ netd.mode = "start" => Failed >= 4
  /\ ~Bootstrapping /\ queue = <<>> /\ ui.pc \in {"idle", "down", "attempt", "wait"}
Exempt(m) == answer[m] = "indeterminate" /\ Failed > 4
OwnerInv ==
  /\ vis["marker"] # None =>
       /\ surv["marker"] \subseteq {None, vis["marker"]}
       /\ Complete(vis["marker"]) \/ Exempt(vis["marker"])
  /\ vis["marker"] = None => \A m \in surv["marker"] \ {None} :
       /\ answer[m] = "indeterminate"
       /\ Failed > 4 \/ (Complete(m) /\ Held)

BInv ==
  /\ MarkerInv /\ RequestInv /\ UndoInv
  /\ AnswerTruthful
  /\ ~overlapped => AloneInv /\ CommitInv /\ OwnerInv
-----------------------------------------------------------------------------
(* What the calls do.                                                      *)

(* What each file may hold.                                                *)
LEMMA ContentsAre ==
  /\ Contents["marker"] = Ids /\ Contents["identity"] = Ids
  /\ Contents["hostname"] = Hosts /\ Contents["desired"] = Requests
  /\ Contents["attempt"] = Requests /\ Contents["opt"] = Opts /\ Contents["ready"] = {"ready"}
BY DEF Contents

(* An event is counted.                                                    *)
LEMMA SpendEffect ==
  ASSUME used \in [Events -> Nat], NEW e \in Events, Spend(e)
  PROVE  /\ used' \in [Events -> Nat]
         /\ Failed' >= Failed /\ Failed \in Nat /\ Failed' \in Nat
         /\ e \in Failures => Failed' = Failed + 1
<1>1. used' = [used EXCEPT ![e] = @ + 1]
  BY DEF Spend
<1>2. used' \in [Events -> Nat]
  BY <1>1
<1>3. /\ \A x \in Events : used'[x] = IF x = e THEN used[x] + 1 ELSE used[x]
      /\ "fault" \in Events /\ "crash" \in Events
      /\ used["fault"] \in Nat /\ used["crash"] \in Nat
  BY <1>1 DEF Events
<1> QED
  BY <1>2, <1>3 DEF Failed, Failures, Events

(* A call that may fail counts a fault when it does.                       *)
LEMMA TryEffect ==
  ASSUME used \in [Events -> Nat], NEW ok \in BOOLEAN, Try(ok)
  PROVE  /\ used' \in [Events -> Nat]
         /\ Failed' >= Failed /\ Failed \in Nat /\ Failed' \in Nat
         /\ ~ok => Failed' = Failed + 1
<1>1. CASE ok
  BY <1>1 DEF Try, Failed, Events
<1>2. CASE ~ok
  BY <1>2, SpendEffect DEF Try, Events, Failures
<1> QED
  BY <1>1, <1>2

(* A durable call changes one file; it leaves the directory synced, or     *)
(* what may survive of that file has its new content besides.              *)
Synced == \A g \in Files : surv[g] = {vis[g]}
Wrote(f, c) ==
  /\ \A g \in Files : g # f => vis'[g] = vis[g]
  /\ vis'[f] \in {vis[f], c}
  /\ \/ Synced'
     \/ /\ \A g \in Files : g # f => surv'[g] = surv[g]
        /\ surv'[f] \in {surv[f], surv[f] \cup {c}}

(* Every outcome of durable::write and durable::remove.                    *)
LEMMA DurableEffect ==
  ASSUME FilesOK, used \in [Events -> Nat], NEW f \in Files, NEW c \in Contents[f] \cup {None},
         NEW ok \in BOOLEAN, Durable(f, c, ok)
  PROVE  /\ FilesOK' /\ Wrote(f, c)
         /\ ok => vis'[f] = c
         /\ ok /\ (c # None \/ vis[f] # None) => Synced'
         /\ ok /\ c = None /\ vis[f] = None => vis' = vis /\ surv' = surv
         /\ ~ok => /\ c # None \/ vis[f] # None
                   /\ \A g \in Files : g # f => surv'[g] = surv[g]
                   /\ \/ vis'[f] = vis[f] /\ surv'[f] = surv[f]
                      \/ vis'[f] = c /\ surv'[f] = surv[f] \cup {c}
         /\ used' \in [Events -> Nat]
         /\ Failed' >= Failed /\ Failed \in Nat /\ Failed' \in Nat
         /\ ~ok => Failed' = Failed + 1
<1>1. CASE ok /\ c = None /\ vis[f] = None /\ UNCHANGED <<vis, surv, used>>
  <2>1. used' \in [Events -> Nat] /\ Failed' = Failed /\ Failed \in Nat
    BY <1>1 DEF Failed, Events
  <2> QED
    BY <1>1, <2>1 DEF FilesOK, Wrote
<1>2. CASE /\ ok /\ (c # None \/ vis[f] # None)
           /\ vis' = [vis EXCEPT ![f] = c]
           /\ surv' = [g \in Files |-> {vis'[g]}]
           /\ UNCHANGED used
  <2>1. used' \in [Events -> Nat] /\ Failed' = Failed /\ Failed \in Nat
    BY <1>2 DEF Failed, Events
  <2>2. DOMAIN vis' = Files /\ \A g \in Files : vis'[g] = IF g = f THEN c ELSE vis[g]
    BY <1>2 DEF FilesOK
  <2>3. DOMAIN surv' = Files /\ \A g \in Files : surv'[g] = {vis'[g]}
    BY <1>2
  <2>4. FilesOK'
    BY <2>2, <2>3 DEF FilesOK, Contents
  <2> QED
    BY <1>2, <2>1, <2>2, <2>3, <2>4 DEF Wrote, Synced
<1>3. CASE /\ ~ok /\ (c # None \/ vis[f] # None) /\ Spend("fault")
           /\ UNCHANGED <<vis, surv>>
  <2>1. used' \in [Events -> Nat] /\ Failed' = Failed + 1 /\ Failed \in Nat /\ Failed' \in Nat
    BY <1>3, SpendEffect DEF Failures, Events
  <2> QED
    BY <1>3, <2>1 DEF FilesOK, Wrote
<1>4. CASE /\ ~ok /\ (c # None \/ vis[f] # None) /\ Spend("fault")
           /\ vis' = [vis EXCEPT ![f] = c]
           /\ surv' = [surv EXCEPT ![f] = @ \cup {c}]
  <2>1. used' \in [Events -> Nat] /\ Failed' = Failed + 1 /\ Failed \in Nat /\ Failed' \in Nat
    BY <1>4, SpendEffect DEF Failures, Events
  <2>2. DOMAIN vis' = Files /\ \A g \in Files : vis'[g] = IF g = f THEN c ELSE vis[g]
    BY <1>4 DEF FilesOK
  <2>3. /\ DOMAIN surv' = Files
        /\ \A g \in Files : surv'[g] = IF g = f THEN surv[g] \cup {c} ELSE surv[g]
    BY <1>4 DEF FilesOK
  <2>4. FilesOK'
    BY <2>2, <2>3 DEF FilesOK, Contents
  <2> QED
    BY <1>4, <2>1, <2>2, <2>3, <2>4 DEF Wrote, Synced
<1> QED
  BY <1>1, <1>2, <1>3, <1>4 DEF Durable

-----------------------------------------------------------------------------
(* Type correctness.                                                       *)

(* At the start of the system every variable has its type.                 *)
LEMMA TypeInit == Init => TypeInv
<1> SUFFICES ASSUME Init PROVE TypeInv
  OBVIOUS
<1>1. FilesOK
  BY DEF Init, FilesOK
<1>2. NetdOK
  BY DEF Init, NetdOK, StartMode, NetdLabels, StartLabels
<1>3. UiOK
  BY DEF Init, UiOK, UiLabels
<1>4. ValuesOK
  <2>1. queue \in Seq(Requests) /\ requests \in 0 .. MaxRequests
    BY RequestsAssumption DEF Init
  <2>2. answer \in [Ids -> Answers \cup {None}] /\ used \in [Events -> Nat]
    BY DEF Init
  <2> QED
    BY <2>1, <2>2 DEF Init, ValuesOK
<1> QED
  BY <1>1, <1>2, <1>3, <1>4 DEF TypeInv

(* The UI's steps that write a file.                                       *)
UiWrites == SetHostname \/ WriteConfiguration \/ Unhost \/ Unidentify

(* They keep the types and the UI's request, and change one file.          *)
LEMMA UiWriteEffect ==
  ASSUME TypeInv, UiWrites
  PROVE  /\ FilesOK' /\ UiOK' /\ used' \in [Events -> Nat]
         /\ \E f \in {"hostname", "identity"}, c \in Requests \cup Ids \cup Hosts \cup {None} :
              Wrote(f, c)
         /\ Failed \in Nat /\ Failed' \in Nat /\ Failed' >= Failed
         /\ ui.pc \in UiWork \ {"attempt"} /\ ui'.pc \in UiWork \cup {"idle"}
         /\ ui'.pc # "idle" => ui'.req = ui.req
         /\ UNCHANGED <<live, netd, queue, answer, requests, overlapped>>
<1> USE DEF TypeInv, ValuesOK
<1>1. CASE SetHostname
  <2>1. PICK ok \in BOOLEAN : /\ Durable("hostname", ui.req.host, ok)
                              /\ UiGoes(IF ok THEN "create" ELSE "unhost")
    BY <1>1 DEF SetHostname
  <2>2. ui.req \in Requests /\ ui.req.host \in Hosts
    BY <1>1 DEF SetHostname, UiOK, Requests
  <2>3. FilesOK' /\ Wrote("hostname", ui.req.host) /\ used' \in [Events -> Nat]
        /\ Failed \in Nat /\ Failed' \in Nat /\ Failed' >= Failed
    BY <2>1, <2>2, DurableEffect, ContentsAre DEF Files
  <2>4. UiOK' /\ ui.pc \in UiWork \ {"attempt"} /\ ui'.pc \in UiWork /\ ui'.req = ui.req
    BY <1>1, <2>1, <2>2 DEF SetHostname, UiGoes, UiOK, UiWork, UiLabels
  <2> QED
    BY <1>1, <2>2, <2>3, <2>4 DEF SetHostname, UiLeaves
<1>2. CASE WriteConfiguration
  <2>1. PICK ok \in BOOLEAN : /\ Durable("identity", ui.req.id, ok)
                              /\ UiGoes(IF ok THEN "subject" ELSE "unhostAll")
    BY <1>2 DEF WriteConfiguration
  <2>2. ui.req \in Requests /\ ui.req.id \in Ids
    BY <1>2 DEF WriteConfiguration, UiOK, Requests
  <2>3. FilesOK' /\ Wrote("identity", ui.req.id) /\ used' \in [Events -> Nat]
        /\ Failed \in Nat /\ Failed' \in Nat /\ Failed' >= Failed
    BY <2>1, <2>2, DurableEffect, ContentsAre DEF Files
  <2>4. UiOK' /\ ui.pc \in UiWork \ {"attempt"} /\ ui'.pc \in UiWork /\ ui'.req = ui.req
    BY <1>2, <2>1, <2>2 DEF WriteConfiguration, UiGoes, UiOK, UiWork, UiLabels
  <2> QED
    BY <1>2, <2>2, <2>3, <2>4 DEF WriteConfiguration, UiLeaves
<1>3. CASE Unhost
  <2>1. PICK ok \in BOOLEAN : Durable("hostname", None, ok)
    BY <1>3 DEF Unhost
  <2>3. FilesOK' /\ Wrote("hostname", None) /\ used' \in [Events -> Nat]
        /\ Failed \in Nat /\ Failed' \in Nat /\ Failed' >= Failed
    BY <2>1, DurableEffect, ContentsAre DEF Files
  <2>4. /\ UiOK' /\ ui.pc \in UiWork \ {"attempt"} /\ ui'.pc \in UiWork \cup {"idle"}
        /\ ui'.pc # "idle" => ui'.req = ui.req
    BY <1>3 DEF Unhost, UiIdle, UiOK, UiWork, UiLabels
  <2> QED
    BY <1>3, <2>3, <2>4 DEF Unhost, UiLeaves
<1>4. CASE Unidentify
  <2>1. PICK ok \in BOOLEAN : Durable("identity", None, ok)
    BY <1>4 DEF Unidentify
  <2>3. FilesOK' /\ Wrote("identity", None) /\ used' \in [Events -> Nat]
        /\ Failed \in Nat /\ Failed' \in Nat /\ Failed' >= Failed
    BY <2>1, DurableEffect, ContentsAre DEF Files
  <2>4. /\ UiOK' /\ ui.pc \in UiWork \ {"attempt"} /\ ui'.pc = "idle"
    BY <1>4 DEF Unidentify, UiIdle, UiOK, UiWork, UiLabels
  <2> QED
    BY <1>4, <2>3, <2>4 DEF Unidentify, UiLeaves
<1> QED
  BY <1>1, <1>2, <1>3, <1>4 DEF UiWrites

(* The others leave the files alone.                                       *)
UiMoves ==
  \/ \E h \in Hosts : Submit(h)
  \/ SubmitAttempt \/ CreateFirstAdministrator \/ TentativeSubject \/ NetdBootstrap
  \/ UiAnswered \/ UiStarts \/ UiEnds

(* They keep the types and what netd has.                                  *)
LEMMA UiMoveEffect ==
  ASSUME TypeInv, UiMoves
  PROVE  /\ UiOK' /\ ValuesOK'
         /\ Failed \in Nat /\ Failed' \in Nat /\ Failed' >= Failed
         /\ UNCHANGED <<vis, surv, live, netd, answer>>
<1> USE DEF TypeInv, ValuesOK
<1>1. /\ Failed \in Nat
      /\ used' = used \/ (\E e \in Events : Spend(e)) => /\ used' \in [Events -> Nat]
                                                        /\ Failed' \in Nat /\ Failed' >= Failed
  <2>1. Failed \in Nat
    BY DEF Failed, Events
  <2> QED
    BY <2>1, SpendEffect DEF Failed
<1>2. ASSUME NEW h \in Hosts, Submit(h)
      PROVE  UiOK' /\ requests' \in 0 .. MaxRequests
  BY <1>2, RequestsAssumption DEF Submit, UiOK, Requests, Ids, UiLabels
<1>3. CASE \E h \in Hosts : Submit(h)
  BY <1>1, <1>2, <1>3 DEF Submit, Events
<1>4. CASE SubmitAttempt \/ CreateFirstAdministrator \/ TentativeSubject \/ UiStarts
  BY <1>1, <1>4
     DEF SubmitAttempt, CreateFirstAdministrator, TentativeSubject, UiStarts, UiLeaves, UiGoes,
         UiIdle, UiOK, UiLabels
<1>5. CASE NetdBootstrap
  <2>1. ui.req \in Requests
    BY <1>5 DEF NetdBootstrap, UiOK
  <2>2. queue' \in Seq(Requests)
    BY <1>5, <2>1 DEF NetdBootstrap
  <2>3. UiOK'
    BY <1>5, <2>1 DEF NetdBootstrap, UiGoes, UiIdle, UiOK, UiLabels
  <2> QED
    BY <1>1, <1>5, <2>2, <2>3 DEF NetdBootstrap, UiLeaves
<1>6. CASE UiAnswered
  <2>1. used' = used \/ \E e \in Events : Spend(e)
    BY <1>6 DEF UiAnswered, Events
  <2> QED
    BY <1>1, <1>6, <2>1 DEF UiAnswered, UiLeaves, UiIdle, UiOK, UiLabels
<1>7. CASE UiEnds
  <2>1. \E e \in Events : Spend(e)
    BY <1>7 DEF UiEnds, Events
  <2> QED
    BY <1>1, <1>7, <2>1 DEF UiEnds, UiLeaves, UiOK, UiLabels
<1> QED
  BY <1>3, <1>4, <1>5, <1>6, <1>7 DEF UiMoves

-----------------------------------------------------------------------------
(* What the steps have in common.                                          *)

(* What is queued are submissions.                                         *)
LEMMA QueuedIds ==
  ASSUME TypeInv
  PROVE  \A k \in DOMAIN queue : queue[k] \in Requests /\ queue[k].id \in Ids /\ queue[k].id \in Nat
<1>1. \A k \in DOMAIN queue : queue[k] \in Requests
  BY DEF TypeInv, ValuesOK
<1>2. \A r \in Requests : r.id \in Ids /\ r.id \in Nat
  BY DEF Requests, Ids
<1> QED
  BY <1>1, <1>2

(* A step of netd that ends its request, goes on with it or has none, and  *)
(* records no marker, keeps RequestInv.                                    *)
LEMMA RequestKept ==
  ASSUME TypeInv, TypeInv', RequestInv, UNCHANGED NetdLeaves,
         surv'["marker"] \subseteq surv["marker"] \cup {None},
         \/ answer' = answer /\ netd'.mode # "bootstrap"
         \/ /\ answer' = answer /\ Bootstrapping /\ netd'.mode = "bootstrap"
            /\ netd'.req = netd.req
            /\ netd'.pc \in BeforeCommit \cup Recovery =>
                 netd.pc \in BeforeCommit \cup Recovery \/ netd.req.id \notin surv'["marker"]
         \/ Bootstrapping /\ \E o \in Answers : Answer(o)
  PROVE  RequestInv'
<1>1. /\ \A i \in Ids : i # None
      /\ \A k \in DOMAIN queue : queue[k].id \in Ids
      /\ Bootstrapping => netd.req.id \in Ids
  <2>1. \A i \in Ids : i # None
    BY HostsAssumption DEF Ids
  <2>2. \A k \in DOMAIN queue : queue[k] \in Requests
    BY DEF TypeInv, ValuesOK
  <2>3. Bootstrapping => netd.req \in Requests
    BY DEF TypeInv, NetdOK, Bootstrapping
  <2> QED
    BY <2>1, <2>2, <2>3 DEF Requests
<1>2. \A i \in Ids : Open(i) /\ (Bootstrapping => netd.req.id # i) => Open(i)'
  BY <1>1 DEF Open, Answer, Bootstrapping, TypeInv, ValuesOK
<1>3. requests \in Nat /\ \A i \in Ids : i \in Nat
  BY DEF TypeInv, ValuesOK, Ids
<1>4. UNCHANGED <<queue, ui, requests>>
  BY DEF NetdLeaves
<1>5. /\ netd'.mode = "bootstrap" => netd.mode = "bootstrap" /\ netd'.req = netd.req
                                     /\ answer' = answer
  BY DEF Answer, NetdIdle, Bootstrapping
<1>6. (\A k \in DOMAIN queue : queue[k].id <= requests /\ Open(queue[k].id))'
  BY <1>1, <1>2, <1>3, <1>4 DEF RequestInv, Bootstrapping
<1>7. (Bootstrapping =>
        /\ netd.req.id <= requests /\ answer[netd.req.id] = None
        /\ \A k \in DOMAIN queue : netd.req.id < queue[k].id
        /\ netd.pc \in BeforeCommit \cup Recovery => netd.req.id \notin surv["marker"])'
  BY <1>1, <1>4, <1>5 DEF RequestInv, Bootstrapping, Answer, NetdIdle
<1>8. ui.pc \in UiWork => requests \in Ids
  BY DEF RequestInv, TypeInv, UiOK, Requests, UiWork
<1>9. (ui.pc \in UiWork =>
        /\ Open(requests)
        /\ \A k \in DOMAIN queue : queue[k].id < requests
        /\ Bootstrapping => netd.req.id < requests)'
  BY <1>1, <1>2, <1>3, <1>4, <1>5, <1>8 DEF RequestInv, Bootstrapping
<1>10. (\A i \in Ids : i > requests => Open(i))'
  BY <1>1, <1>2, <1>3, <1>4 DEF RequestInv, Bootstrapping
<1> QED
  BY <1>4, <1>6, <1>7, <1>9, <1>10 DEF RequestInv

(* The replies stay true while no marker is added or removed.              *)
LEMMA AnswersKept ==
  ASSUME TypeInv, TypeInv', AnswerTruthful, answer' = answer, overlapped => overlapped',
         surv'["marker"] \subseteq surv["marker"]
  PROVE  AnswerTruthful'
<1>1. surv'["marker"] # {}
  BY DEF TypeInv, FilesOK, Files
<1> QED
  BY <1>1 DEF AnswerTruthful

(* One reply more, true of the marker as it is.                            *)
LEMMA AnswerAdded ==
  ASSUME TypeInv, TypeInv', AnswerTruthful, netd.req \in Requests, overlapped' = overlapped,
         surv'["marker"] \subseteq surv["marker"], NEW o \in Answers, Answer(o),
         o = "ok" => surv'["marker"] = {netd.req.id},
         o = "owned" /\ ~overlapped => None \notin surv'["marker"],
         o = "incomplete" => netd.req.id \notin surv'["marker"]
  PROVE  AnswerTruthful'
<1>1. surv'["marker"] # {}
  BY DEF TypeInv, FilesOK, Files
<1>2. \A i \in Ids : answer'[i] = IF i = netd.req.id THEN o ELSE answer[i]
  BY DEF Answer, TypeInv, ValuesOK
<1> QED
  BY <1>1, <1>2 DEF AnswerTruthful

(* netd's steps without a reply leave what the UI and the requests are.    *)
LEMMA AloneKept ==
  ASSUME ~overlapped => AloneInv, UNCHANGED NetdLeaves, vis'["marker"] = vis["marker"],
         netd'.mode = "bootstrap" => Bootstrapping,
         netd'.pc # "owned"
  PROVE  ~overlapped' => AloneInv'
BY DEF AloneInv, NetdLeaves, Bootstrapping

(* The marker, the submissions' answers and the ownership, for a step that *)
(* writes other files or none.                                             *)
LEMMA MarkerKept ==
  ASSUME TypeInv, TypeInv', ServicesOnlyOwned,
         \/ UNCHANGED <<vis, surv>>
         \/ \E f \in Files \ {"marker", "ready"} :
              \E c \in Contents[f] \cup {None} : Wrote(f, c)
  PROVE  /\ vis'["marker"] = vis["marker"] /\ surv'["marker"] \subseteq surv["marker"]
         /\ surv'["ready"] \subseteq surv["ready"]
         /\ ServicesOnlyOwned'
<1>1. CASE UNCHANGED <<vis, surv>>
  BY <1>1 DEF ServicesOnlyOwned
<1>2. ASSUME NEW f \in Files \ {"marker", "ready"}, NEW c \in Contents[f] \cup {None}, Wrote(f, c)
      PROVE  /\ vis'["marker"] = vis["marker"] /\ surv'["marker"] \subseteq surv["marker"]
             /\ surv'["ready"] \subseteq surv["ready"]
             /\ ServicesOnlyOwned'
  <2>1. "marker" \in Files /\ "ready" \in Files
    BY DEF Files
  <2>2. vis'["marker"] = vis["marker"] /\ vis'["ready"] = vis["ready"]
    BY <1>2, <2>1 DEF Wrote
  <2>3. CASE Synced'
    BY <2>1, <2>2, <2>3 DEF Synced, TypeInv, FilesOK, ServicesOnlyOwned
  <2>4. CASE \A g \in Files : g # f => surv'[g] = surv[g]
    BY <2>1, <2>2, <2>4 DEF ServicesOnlyOwned
  <2> QED
    BY <1>2, <2>3, <2>4 DEF Wrote
<1> QED
  BY <1>1, <1>2

(* What belongs to one submission still does after other files, or the     *)
(* same Desired state again, are written.                                  *)
OwnFiles == {"identity", "hostname", "desired"}

(* What belongs to one submission goes on doing so.                        *)
CompleteStays == \A m \in Ids : Complete(m) => Complete(m)'

(* It does when its three files keep their visible contents.               *)
LEMMA CompleteKept ==
  ASSUME TypeInv,
         \A g \in OwnFiles : /\ vis'[g] = vis[g]
                              /\ surv'[g] \in {surv[g], surv[g] \cup {vis[g]}, {vis[g]}}
  PROVE  CompleteStays
<1> SUFFICES ASSUME NEW m \in Ids, Complete(m)
             PROVE  Complete(m)'
  BY DEF CompleteStays
<1>1. PICK h \in Hosts : surv["hostname"] = {h} /\ surv["desired"] = {[id |-> m, host |-> h]}
  BY DEF Complete
<1>2. surv["identity"] = {m}
  BY DEF Complete
<1>3. vis["hostname"] = h /\ vis["desired"] = [id |-> m, host |-> h] /\ vis["identity"] = m
  BY <1>1, <1>2 DEF TypeInv, FilesOK, Files
<1>4. /\ surv'["identity"] = {m} /\ surv'["hostname"] = {h}
      /\ surv'["desired"] = {[id |-> m, host |-> h]}
  BY <1>1, <1>2, <1>3 DEF OwnFiles
<1> QED
  BY <1>4 DEF Complete

(* It does when one of the other files is written.                         *)
LEMMA WroteOther ==
  ASSUME TypeInv, TypeInv',
         \/ UNCHANGED <<vis, surv>>
         \/ \E f \in {"marker", "attempt", "opt", "ready"} :
              \E c \in Contents[f] \cup {None} : Wrote(f, c)
         \/ Wrote("desired", vis["desired"])
  PROVE  CompleteStays
<1>1. \A g \in OwnFiles : /\ vis'[g] = vis[g]
                           /\ surv'[g] \in {surv[g], surv[g] \cup {vis[g]}, {vis[g]}}
  <2>1. CASE UNCHANGED <<vis, surv>>
    BY <2>1
  <2>2. CASE Wrote("desired", vis["desired"])
    BY <2>2 DEF Wrote, Synced, Files, OwnFiles
  <2>3. ASSUME NEW f \in {"marker", "attempt", "opt", "ready"}, NEW c, Wrote(f, c)
        PROVE  \A g \in OwnFiles : /\ vis'[g] = vis[g]
                                   /\ surv'[g] \in {surv[g], {vis[g]}}
    BY <2>3 DEF Wrote, Synced, Files, OwnFiles
  <2> QED
    BY <2>1, <2>2, <2>3
<1> QED
  BY <1>1, CompleteKept

(* Replies stay; a complete submission stays so and is held.               *)
RepliesKept == \A i \in Ids : answer[i] # None => answer'[i] = answer[i]
HeldStays == \A m \in Ids : Complete(m) => Complete(m)' /\ Held'

(* A step that neither records nor removes a marker keeps OwnerInv.        *)
LEMMA OwnershipKept ==
  ASSUME TypeInv, TypeInv', OwnerInv, vis'["marker"] = vis["marker"],
         surv'["marker"] \subseteq surv["marker"],
         RepliesKept,
         Failed \in Nat, Failed' \in Nat, Failed' >= Failed,
         vis["marker"] # None => CompleteStays,
         vis["marker"] = None /\ Held => Failed' > 4 \/ surv'["marker"] = {None} \/ HeldStays
  PROVE  OwnerInv'
<1>1. surv["marker"] \subseteq Ids \cup {None} /\ vis["marker"] \in surv["marker"]
  BY ContentsAre DEF TypeInv, FilesOK, Files
<1>2. "indeterminate" # None
  BY NoneAssumption DEF Answers
<1>3. \A m \in Ids : Exempt(m) => Exempt(m)'
  BY <1>2 DEF Exempt, RepliesKept
<1>4. CASE vis["marker"] # None
  BY <1>1, <1>3, <1>4 DEF OwnerInv, CompleteStays
<1>5. CASE vis["marker"] = None
  <2>1. ASSUME NEW m \in surv'["marker"] \ {None}
        PROVE  answer'[m] = "indeterminate" /\ (Failed' > 4 \/ (Complete(m)' /\ Held'))
    <3>1. m \in Ids /\ answer[m] = "indeterminate" /\ (Failed > 4 \/ (Complete(m) /\ Held))
      BY <1>1, <1>5 DEF OwnerInv
    <3> QED
      BY <1>2, <1>5, <2>1, <3>1 DEF RepliesKept, HeldStays
  <2> QED
    BY <1>5, <2>1 DEF OwnerInv
<1>6. vis["marker"] # None \/ vis["marker"] = None
  OBVIOUS
<1> QED
  BY <1>4, <1>5, <1>6

(* No reply is taken back.                                                 *)
LEMMA RepliesStay ==
  ASSUME TypeInv, RequestInv,
         answer' = answer \/ (Bootstrapping /\ \E o \in Answers : Answer(o))
  PROVE  RepliesKept
<1>1. \A o : Answer(o) => \A i \in Ids : i # netd.req.id => answer'[i] = answer[i]
  BY DEF Answer, TypeInv, ValuesOK
<1> QED
  BY <1>1 DEF RequestInv, RepliesKept

-----------------------------------------------------------------------------
(* The UI's steps.                                                         *)

(* The conjuncts of the invariant that speak of netd and of the files.     *)
LEMMA NetdPartsKept ==
  ASSUME TypeInv, MarkerInv, UndoInv, AnswerTruthful, ~overlapped => CommitInv,
         UNCHANGED <<vis, surv, live, netd, answer>>, overlapped => overlapped',
         Failed \in Nat, Failed' \in Nat, Failed' >= Failed
  PROVE  MarkerInv' /\ UndoInv' /\ AnswerTruthful' /\ (~overlapped' => CommitInv')
<1>1. MarkerInv' /\ UndoInv' /\ AnswerTruthful'
  BY DEF MarkerInv, UndoInv, AnswerTruthful, ServicesOnlyOwned
<1>2. ASSUME ~overlapped'
      PROVE  CommitInv'
  BY <1>2 DEF CommitInv
<1> QED
  BY <1>1, <1>2

(* The UI's steps that leave the files alone.                              *)
LEMMA UiMovesStep ==
  ASSUME TypeInv, BInv, UiMoves
  PROVE  TypeInv' /\ BInv'
<1>1. /\ UiOK' /\ ValuesOK'
      /\ Failed \in Nat /\ Failed' \in Nat /\ Failed' >= Failed
      /\ UNCHANGED <<vis, surv, live, netd, answer>>
  BY UiMoveEffect
<1>2. TypeInv'
  BY <1>1 DEF TypeInv, FilesOK, NetdOK
<1>3. overlapped => overlapped'
  BY DEF UiMoves, Submit, SubmitAttempt, CreateFirstAdministrator, TentativeSubject,
         NetdBootstrap, UiAnswered, UiStarts, UiEnds, UiLeaves
<1>4. MarkerInv' /\ UndoInv' /\ AnswerTruthful' /\ (~overlapped' => CommitInv')
  BY <1>1, <1>3, NetdPartsKept DEF BInv
<1>5. requests \in Nat /\ \A i \in Ids : i \in Nat
  BY DEF TypeInv, ValuesOK, Ids
<1>6. \A i : Open(i)' = Open(i)
  BY <1>1 DEF Open
<1>7. CASE \E h \in Hosts : Submit(h)
  <2>1. PICK h \in Hosts : Submit(h)
    BY <1>7
  <2>2. /\ requests' = requests + 1 /\ requests' \in Ids
        /\ ui' = [pc |-> "attempt", req |-> [id |-> requests', host |-> h]]
        /\ queue' = queue /\ netd' = netd /\ netd.mode # "start"
        /\ vis["marker"] = None
    BY <1>1, <1>5, <2>1, RequestsAssumption DEF Submit, Ids, NetdUp, TypeInv, ValuesOK
  <2>3. RequestInv'
    <3>1. \A k \in DOMAIN queue : queue[k].id \in Nat /\ queue[k].id <= requests
      BY QueuedIds DEF BInv, RequestInv
    <3>2. Bootstrapping => netd.req.id \in Nat /\ netd.req.id <= requests
      BY <1>5 DEF BInv, RequestInv, TypeInv, NetdOK, Requests, Bootstrapping
    <3> QED
      BY <1>1, <1>5, <1>6, <2>2, <3>1, <3>2 DEF BInv, RequestInv, Bootstrapping
  <2>4. ASSUME ~overlapped'
        PROVE  AloneInv'
    BY <1>1, <2>1, <2>2, <2>4
       DEF Submit, Outstanding, BInv, AloneInv, Bootstrapping
  <2>5. ASSUME ~overlapped'
        PROVE  OwnerInv'
    BY <1>1, <1>3, <2>2, <2>5 DEF BInv, OwnerInv, Held, Complete, Exempt, Bootstrapping
  <2> QED
    BY <1>2, <1>4, <2>3, <2>4, <2>5 DEF BInv
<1>8. ASSUME UNCHANGED <<queue, requests, overlapped>>,
             ui'.pc \in UiWork => ui.pc \in UiWork,
             ui'.pc \in UiWork \cup {"wait"} =>
               ui.pc \in UiWork \cup {"wait"} /\ ui'.req = ui.req,
             ~overlapped /\ vis["marker"] = None /\ Held =>
               ui'.pc \in {"idle", "down", "attempt", "wait"}
      PROVE  BInv'
  <2>1. RequestInv'
    BY <1>1, <1>6, <1>8 DEF BInv, RequestInv, Bootstrapping
  <2>2. ASSUME ~overlapped'
        PROVE  AloneInv'
    BY <1>1, <1>8, <2>2 DEF BInv, AloneInv, Bootstrapping
  <2>3. ASSUME ~overlapped'
        PROVE  OwnerInv'
    BY <1>1, <1>8, <2>3 DEF BInv, OwnerInv, Held, Complete, Exempt, Bootstrapping
  <2> QED
    BY <1>4, <2>1, <2>2, <2>3 DEF BInv
<1>9. CASE SubmitAttempt
  <2>1. /\ UNCHANGED <<queue, requests, overlapped>>
        /\ ui.pc = "attempt" /\ ui.pc \in UiWork
        /\ \/ ui' = UiIdle
           \/ ui'.pc = "hostname" /\ ui'.req = ui.req /\ vis["attempt"] = None
    BY <1>9 DEF SubmitAttempt, UiLeaves, TypeInv, UiOK, UiWork
  <2> QED
    BY <1>2, <1>8, <2>1 DEF UiIdle, UiWork, Held
<1>10. CASE CreateFirstAdministrator \/ TentativeSubject
  <2>1. /\ UNCHANGED <<queue, requests, overlapped>>
        /\ ui.pc \in {"create", "subject"} /\ ui.pc \in UiWork
        /\ ui'.pc \in {"write", "unhostAll", "send"} /\ ui'.req = ui.req
    BY <1>10 DEF CreateFirstAdministrator, TentativeSubject, UiGoes, UiLeaves, TypeInv, UiOK,
                 UiWork
  <2> QED
    BY <1>2, <1>8, <2>1 DEF UiWork, Held
<1>11. CASE UiAnswered \/ UiStarts \/ UiEnds
  <2>1. UNCHANGED <<queue, requests, overlapped>> /\ ui'.pc \in {"idle", "down"}
    BY <1>11 DEF UiAnswered, UiStarts, UiEnds, UiLeaves, UiIdle
  <2> QED
    BY <1>2, <1>8, <2>1 DEF UiWork
<1>12. CASE NetdBootstrap
  <2>1. /\ UNCHANGED <<requests, overlapped>>
        /\ ui.pc = "send" /\ ui.pc \in UiWork /\ ui.req \in Requests /\ ui.req.id = requests
    BY <1>12 DEF NetdBootstrap, UiLeaves, UiWork, TypeInv, UiOK, BInv, RequestInv
  <2>2. CASE queue' = queue /\ ui' = UiIdle
    BY <1>2, <1>8, <2>1, <2>2 DEF UiIdle, UiWork
  <2>3. CASE queue' = Append(queue, ui.req) /\ UiGoes("wait")
    <3>1. ui'.pc = "wait" /\ ui'.req = ui.req
      BY <2>3 DEF UiGoes, TypeInv, UiOK
    <3>2. /\ Len(queue) \in Nat /\ DOMAIN queue = 1 .. Len(queue)
          /\ DOMAIN queue' = 1 .. (Len(queue) + 1)
          /\ \A k \in 1 .. (Len(queue) + 1) :
               queue'[k] = IF k = Len(queue) + 1 THEN ui.req ELSE queue[k]
      BY <2>1, <2>3 DEF TypeInv, ValuesOK
    <3>3. \A k \in DOMAIN queue' : k \in DOMAIN queue \/ k = Len(queue) + 1
      BY <3>2
    <3>4. /\ Open(requests)
          /\ \A k \in DOMAIN queue : queue[k].id < requests /\ queue[k].id \in Nat
          /\ Bootstrapping => netd.req.id < requests
      BY <2>1, QueuedIds DEF BInv, RequestInv
    <3>5. (\A k \in DOMAIN queue : queue[k].id <= requests /\ Open(queue[k].id))'
      BY <1>5, <1>6, <2>1, <3>2, <3>3, <3>4 DEF BInv, RequestInv
    <3>6. (\A k, l \in DOMAIN queue : k < l => queue[k].id < queue[l].id)'
      BY <2>1, <3>2, <3>3, <3>4 DEF BInv, RequestInv
    <3>7. (Bootstrapping =>
            /\ netd.req.id <= requests /\ answer[netd.req.id] = None
            /\ \A k \in DOMAIN queue : netd.req.id < queue[k].id
            /\ netd.pc \in BeforeCommit \cup Recovery => netd.req.id \notin surv["marker"])'
      BY <1>1, <2>1, <3>2, <3>3, <3>4 DEF BInv, RequestInv, Bootstrapping
    <3>8. (\A i \in Ids : i > requests => Open(i))'
      BY <1>6, <2>1 DEF BInv, RequestInv
    <3>9. RequestInv'
      BY <2>1, <3>1, <3>5, <3>6, <3>7, <3>8 DEF RequestInv, UiWork
    <3>10. ASSUME ~overlapped'
           PROVE  AloneInv' /\ OwnerInv'
      <4>1. queue = <<>> /\ ~Bootstrapping /\ vis["marker"] = None
        BY <2>1, <3>10 DEF BInv, AloneInv
      <4>2. queue' # <<>> /\ Len(queue') = 1
        BY <2>1, <2>3, <4>1
      <4>3. AloneInv'
        BY <1>1, <3>1, <4>1, <4>2 DEF AloneInv, Bootstrapping, UiWork,
                                      TypeInv, NetdOK, BootstrapLabels, BeforeCommit
      <4>4. ~Held
        BY <2>1 DEF Held
      <4>5. OwnerInv'
        BY <1>1, <2>1, <3>10, <4>1, <4>4 DEF BInv, OwnerInv
      <4> QED
        BY <4>3, <4>5
    <3> QED
      BY <1>2, <1>4, <3>9, <3>10 DEF BInv
  <2> QED
    BY <1>12, <2>2, <2>3 DEF NetdBootstrap
<1> QED
  BY <1>7, <1>9, <1>10, <1>11, <1>12 DEF UiMoves

(* Only a bootstrap is at its labels.                                      *)
LEMMA LabelsOfBootstrap ==
  ASSUME TypeInv, netd.pc \in BootstrapLabels \ Recovery
  PROVE  Bootstrapping
BY DEF TypeInv, NetdOK, Bootstrapping, StartLabels, BootstrapLabels, BeforeCommit, Unconfirmed,
       OwnedLabels, Recovery, Removals

(* The UI's steps that write a tentative file.                             *)
LEMMA UiWritesStep ==
  ASSUME TypeInv, BInv, UiWrites
  PROVE  TypeInv' /\ BInv'
<1>1. /\ FilesOK' /\ UiOK' /\ used' \in [Events -> Nat]
      /\ Failed \in Nat /\ Failed' \in Nat /\ Failed' >= Failed
      /\ ui.pc \in UiWork \ {"attempt"} /\ ui'.pc \in UiWork \cup {"idle"}
      /\ ui'.pc # "idle" => ui'.req = ui.req
      /\ UNCHANGED <<live, netd, queue, answer, requests, overlapped>>
  BY UiWriteEffect
<1>2. TypeInv'
  BY <1>1 DEF TypeInv, NetdOK, ValuesOK
<1>3. PICK f \in {"hostname", "identity"}, c \in Requests \cup Ids \cup Hosts \cup {None} :
        Wrote(f, c)
  BY UiWriteEffect
<1>4. /\ \A g \in {"marker", "attempt", "desired", "ready"} :
           vis'[g] = vis[g] /\ surv'[g] \subseteq surv[g]
      /\ ServicesOnlyOwned'
  <2>1. CASE Synced'
    BY <1>3, <2>1 DEF Wrote, Synced, Files, TypeInv, FilesOK, BInv, MarkerInv, ServicesOnlyOwned
  <2>2. CASE \A g \in Files : g # f => surv'[g] = surv[g]
    BY <1>3, <2>2 DEF Wrote, Files, BInv, MarkerInv, ServicesOnlyOwned
  <2> QED
    BY <1>3, <2>1, <2>2 DEF Wrote
<1>5. vis'["ready"] \in surv'["ready"] /\ surv'["marker"] # {}
  BY <1>1 DEF FilesOK, Files
<1>6. MarkerInv'
  <2>1. netd.pc \in OwnedLabels => surv'["marker"] = {netd.req.id}
    BY <1>4, <1>5 DEF BInv, MarkerInv
  <2>2. netd.pc \in Unconfirmed => surv'["ready"] = {None}
    BY <1>4, <1>5 DEF BInv, MarkerInv
  <2> QED
    BY <1>1, <1>4, <2>1, <2>2 DEF BInv, MarkerInv
<1>7. UndoInv'
  BY <1>1, <1>4 DEF BInv, UndoInv
<1>8. AnswerTruthful'
  BY <1>1, <1>2, <1>4, AnswersKept DEF BInv
<1>9. RequestInv'
  <2>1. \A i : Open(i) => Open(i)'
    BY <1>1, <1>4 DEF Open
  <2> QED
    BY <1>1, <1>4, <2>1 DEF BInv, RequestInv, Bootstrapping, UiWork
<1>10. ASSUME ~overlapped'
       PROVE  AloneInv' /\ CommitInv' /\ OwnerInv'
  <2>1. AloneInv /\ CommitInv /\ OwnerInv /\ ~Bootstrapping /\ queue = <<>> /\ vis["marker"] = None
    BY <1>1, <1>10 DEF BInv, AloneInv
  <2>2. AloneInv'
    BY <1>1, <1>4, <2>1 DEF AloneInv, Bootstrapping
  <2>3. netd.pc \notin {"subject2", "host2", "commit"} \cup Unconfirmed \cup OwnedLabels
    BY <2>1, LabelsOfBootstrap
       DEF BootstrapLabels, BeforeCommit, Unconfirmed, OwnedLabels, Recovery, Removals
  <2>4. CommitInv'
    BY <1>1, <2>3 DEF CommitInv, Unconfirmed, OwnedLabels
  <2>5. ~Held
    BY <1>1 DEF Held, UiWork
  <2>6. OwnerInv'
    BY <1>1, <1>4, <2>1, <2>5 DEF OwnerInv
  <2> QED
    BY <2>2, <2>4, <2>6
<1> QED
  BY <1>2, <1>6, <1>7, <1>8, <1>9, <1>10 DEF BInv

-----------------------------------------------------------------------------
(* Ends of processes and of the power.                                     *)

(* At the label "start" little is asked of netd.                           *)
LEMMA StartModeOK ==
  ASSUME netd' = StartMode
  PROVE  /\ NetdOK' /\ netd'.pc = "start" /\ netd'.mode = "start" /\ ~Bootstrapping'
         /\ netd'.pc \notin BeforeCommit \cup Unconfirmed \cup Recorded \cup OwnedLabels
                            \cup Recovery \cup Removals
BY DEF StartMode, NetdOK, NetdLabels, StartLabels, Bootstrapping, BeforeCommit, Unconfirmed,
       Recorded, OwnedLabels, Recovery, Removals

(* netd ends and starts again, with the requests it had gone.              *)
LEMMA NetdResetStep ==
  ASSUME TypeInv, BInv, netd' = StartMode, queue' = <<>>,
         UNCHANGED <<vis, surv, live, ui, answer, requests, overlapped>>,
         \E e \in Failures : Spend(e)
  PROVE  TypeInv' /\ BInv'
<1>1. used' \in [Events -> Nat] /\ Failed \in Nat /\ Failed' = Failed + 1
  BY SpendEffect DEF TypeInv, ValuesOK, Failures, Events
<1>2. TypeInv'
  BY <1>1, StartModeOK DEF TypeInv, FilesOK, UiOK, ValuesOK
<1>3. MarkerInv' /\ UndoInv' /\ AnswerTruthful'
  BY StartModeOK DEF BInv, MarkerInv, UndoInv, AnswerTruthful, ServicesOnlyOwned
<1>4. RequestInv'
  BY StartModeOK DEF BInv, RequestInv, Open
<1>5. ASSUME ~overlapped'
      PROVE  AloneInv' /\ CommitInv' /\ OwnerInv'
  <2>1. AloneInv' /\ CommitInv'
    BY <1>5, StartModeOK DEF BInv, AloneInv, CommitInv
  <2>2. Held => Held'
    BY <1>1, StartModeOK DEF Held
  <2>3. OwnerInv'
    BY <1>1, <1>5, <2>2 DEF BInv, OwnerInv, Complete, Exempt
  <2> QED
    BY <2>1, <2>3
<1> QED
  BY <1>2, <1>3, <1>4, <1>5 DEF BInv

(* A power loss: what survives is then all there is.                       *)
LEMMA PowerLossStep ==
  ASSUME TypeInv, BInv, PowerLoss
  PROVE  TypeInv' /\ BInv'
<1>1. /\ netd' = StartMode /\ queue' = <<>> /\ live' = None
      /\ ui' = [pc |-> "down", req |-> None]
      /\ UNCHANGED <<answer, requests, overlapped>>
  BY DEF PowerLoss
<1>2. used' \in [Events -> Nat] /\ Failed \in Nat /\ Failed' = Failed + 1
  BY SpendEffect DEF PowerLoss, TypeInv, ValuesOK, Failures, Events
<1>3. /\ DOMAIN vis' = Files /\ \A f \in Files : vis'[f] \in surv[f]
      /\ DOMAIN surv' = Files /\ \A f \in Files : surv'[f] = {vis'[f]}
  BY DEF PowerLoss, Files
<1>4. TypeInv'
  <2>1. FilesOK'
    BY <1>3 DEF TypeInv, FilesOK, Contents
  <2>2. UiOK'
    BY <1>1 DEF UiOK, UiLabels
  <2>3. ValuesOK'
    BY <1>1, <1>2 DEF TypeInv, ValuesOK
  <2> QED
    BY <1>1, <2>1, <2>2, <2>3, StartModeOK DEF TypeInv
<1>5. /\ "marker" \in Files /\ "identity" \in Files /\ "hostname" \in Files
      /\ "desired" \in Files /\ "ready" \in Files
  BY DEF Files
<1>6. MarkerInv'
  <2>1. ServicesOnlyOwned'
    BY <1>3, <1>5 DEF BInv, MarkerInv, ServicesOnlyOwned
  <2> QED
    BY <1>1, <2>1, StartModeOK DEF MarkerInv
<1>7. UndoInv'
  BY <1>1, StartModeOK, NoneAssumption DEF UndoInv
<1>8. AnswerTruthful'
  BY <1>1, <1>3, <1>4, <1>5, AnswersKept DEF BInv
<1>9. RequestInv'
  BY <1>1, <1>3, <1>5, StartModeOK DEF BInv, RequestInv, Open, UiWork
<1>10. ASSUME ~overlapped'
       PROVE  AloneInv' /\ CommitInv' /\ OwnerInv'
  <2>1. AloneInv' /\ CommitInv'
    BY <1>1, StartModeOK DEF AloneInv, CommitInv, UiWork
  <2>2. \A m \in Ids : Complete(m) => Complete(m)'
    BY <1>3, <1>5 DEF Complete
  <2>3. surv["marker"] \subseteq Ids \cup {None}
    BY <1>5, ContentsAre DEF TypeInv, FilesOK
  <2>4. \A m \in surv["marker"] \ {None} : Complete(m) \/ Exempt(m)
    BY <1>1, <1>10 DEF BInv, OwnerInv, Exempt
  <2>5. OwnerInv'
    BY <1>1, <1>2, <1>3, <1>5, <2>2, <2>3, <2>4 DEF OwnerInv, Exempt
  <2> QED
    BY <2>1, <2>5
<1> QED
  BY <1>4, <1>6, <1>7, <1>8, <1>9, <1>10 DEF BInv

-----------------------------------------------------------------------------
(* netd outside a bootstrap: the console's addressing, and its start.      *)

(* What such a step keeps whatever it does.                                *)
LEMMA OutsideKept ==
  ASSUME TypeInv, TypeInv', BInv, ~Bootstrapping, ~Bootstrapping',
         UNCHANGED <<answer, NetdLeaves>>, vis'["marker"] = vis["marker"],
         surv'["marker"] \subseteq surv["marker"]
  PROVE  /\ RequestInv' /\ AnswerTruthful'
         /\ ~overlapped' => AloneInv' /\ CommitInv'
         /\ netd'.pc \notin
              (BeforeCommit \ Recovery) \cup Unconfirmed \cup Recorded \cup OwnedLabels
<1>1. netd'.pc \notin (BeforeCommit \ Recovery) \cup Unconfirmed \cup Recorded \cup OwnedLabels
  BY DEF TypeInv, NetdOK, Bootstrapping, StartLabels, BootstrapLabels, BeforeCommit, Unconfirmed,
         Recorded, OwnedLabels, Recovery, Removals
<1>2. RequestInv'
  BY RequestKept DEF BInv, Bootstrapping
<1>3. AnswerTruthful'
  BY AnswersKept DEF BInv, NetdLeaves
<1>4. ASSUME ~overlapped'
      PROVE  AloneInv' /\ CommitInv'
  <2>1. overlapped' = overlapped /\ netd'.pc # "owned"
    BY <1>1 DEF NetdLeaves, BeforeCommit, Recovery, Removals
  <2>2. AloneInv'
    BY <1>4, <2>1, AloneKept DEF BInv, Bootstrapping
  <2>3. CommitInv'
    BY <1>1 DEF CommitInv, BeforeCommit, Unconfirmed, OwnedLabels, Recorded, Recovery, Removals
  <2> QED
    BY <2>2, <2>3
<1> QED
  BY <1>1, <1>2, <1>3, <1>4

(* And what it keeps of ownership while it writes no file, or one that     *)
(* ownership does not rest on.                                             *)
LEMMA OutsideOwner ==
  ASSUME TypeInv, TypeInv', BInv, ~Bootstrapping, ~Bootstrapping', ~overlapped',
         UNCHANGED <<answer, NetdLeaves>>,
         \/ UNCHANGED <<vis, surv>>
         \/ \E f \in {"attempt", "opt", "ready"} :
              \E c \in Contents[f] \cup {None} : Wrote(f, c)
         \/ Wrote("desired", vis["desired"]),
         Failed \in Nat, Failed' \in Nat, Failed' >= Failed,
         vis["marker"] # None \/ Failed' > 4 \/ surv'["marker"] = {None}
           \/ (vis'["attempt"] = vis["attempt"] /\ (netd'.mode = "start" => netd.mode = "start"))
  PROVE  OwnerInv'
<1>1. vis'["marker"] = vis["marker"] /\ surv'["marker"] \subseteq surv["marker"]
  BY DEF Wrote, Synced, Files, TypeInv, FilesOK
<1>2. RepliesKept
  BY DEF RepliesKept
<1>3. CompleteStays
  BY WroteOther
<1>4. CASE vis["marker"] # None \/ Failed' > 4 \/ surv'["marker"] = {None}
  BY <1>1, <1>2, <1>3, <1>4, OwnershipKept DEF BInv, NetdLeaves
<1>5. CASE vis'["attempt"] = vis["attempt"] /\ (netd'.mode = "start" => netd.mode = "start")
  <2>1. Held => Held'
    BY <1>5 DEF Held, NetdLeaves
  <2>2. Held => HeldStays
    BY <1>3, <2>1 DEF CompleteStays, HeldStays
  <2> QED
    BY <1>1, <1>2, <1>3, <2>2, OwnershipKept DEF BInv, NetdLeaves
<1> QED
  BY <1>4, <1>5

(* Failures are counted.                                                   *)
LEMMA FailedNat == TypeInv => Failed \in Nat
BY DEF TypeInv, ValuesOK, Failed, Events

(* The console's set-opt: the network first.                               *)
LEMMA SetOptStep ==
  ASSUME TypeInv, BInv, NEW o \in Opts, SetOpt(o)
  PROVE  TypeInv' /\ BInv'
<1>1. /\ netd.pc = "idle" /\ netd.mode = "idle" /\ vis["marker"] = None
      /\ UNCHANGED <<vis, surv, answer, NetdLeaves>>
      /\ live' = live \/ live' \in Opts \cup {None}
      /\ \/ netd' = [NetdIdle EXCEPT !.pc = "writeOpt", !.mode = "opt", !.req = o]
         \/ netd' = netd
  BY DEF SetOpt, TypeInv, NetdOK, StartLabels, BootstrapLabels, BeforeCommit, Unconfirmed,
         OwnedLabels, Recovery, Removals
<1>2. used' \in [Events -> Nat] /\ Failed \in Nat /\ Failed' \in Nat /\ Failed' >= Failed
  BY SpendEffect DEF SetOpt, TypeInv, ValuesOK, Events
<1>3. netd'.mode \in {"idle", "opt"} /\ netd'.pc \in {"idle", "writeOpt"} /\ NetdOK'
  BY <1>1 DEF TypeInv, NetdOK, NetdIdle, NetdLabels
<1>4. TypeInv'
  BY <1>1, <1>2, <1>3 DEF TypeInv, FilesOK, UiOK, ValuesOK, NetdLeaves
<1>5. ~Bootstrapping /\ ~Bootstrapping'
  BY <1>1, <1>3 DEF Bootstrapping
<1>6. /\ RequestInv' /\ AnswerTruthful'
      /\ ~overlapped' => AloneInv' /\ CommitInv'
  BY <1>1, <1>4, <1>5, OutsideKept
<1>7. MarkerInv'
  BY <1>1, <1>3 DEF BInv, MarkerInv, ServicesOnlyOwned, BeforeCommit, Unconfirmed, OwnedLabels,
                    Recovery, Removals
<1>8. UndoInv'
  BY <1>1, <1>3, NoneAssumption, OptsAssumption
     DEF BInv, UndoInv, Recorded, Removals
<1>9. ASSUME ~overlapped'
      PROVE  OwnerInv'
  BY <1>1, <1>2, <1>3, <1>4, <1>5, <1>9, OutsideOwner
<1> QED
  BY <1>4, <1>6, <1>7, <1>8, <1>9 DEF BInv

(* The console's set-opt: then its file.                                   *)
LEMMA OptFileStep ==
  ASSUME TypeInv, BInv, WriteOpt \/ SyncOpt
  PROVE  TypeInv' /\ BInv'
<1>1. /\ netd.pc \in {"writeOpt", "syncOpt"} /\ netd.mode = "opt" /\ netd.req \in Opts
      /\ netd' = NetdIdle \/ (netd'.pc = "syncOpt" /\ netd' = [netd EXCEPT !.pc = "syncOpt"])
      /\ UNCHANGED <<live, answer, NetdLeaves>>
  BY DEF WriteOpt, SyncOpt, NetdGoes, TypeInv, NetdOK, StartLabels, BootstrapLabels, BeforeCommit,
         Unconfirmed, OwnedLabels, Recovery, Removals
<1>2. used' \in [Events -> Nat] /\ Failed \in Nat /\ Failed' \in Nat /\ Failed' >= Failed
  <2>1. used' = used \/ Spend("fault")
    BY DEF WriteOpt, SyncOpt
  <2> QED
    BY <2>1, SpendEffect, FailedNat DEF TypeInv, ValuesOK, Events, Failed
<1>3. netd'.mode \in {"idle", "opt"} /\ netd'.pc \in {"idle", "syncOpt"} /\ NetdOK'
  <2>1. CASE netd' = NetdIdle
    BY <2>1 DEF NetdOK, NetdIdle, NetdLabels
  <2>2. CASE netd' = [netd EXCEPT !.pc = "syncOpt"]
    BY <1>1, <2>2 DEF TypeInv, NetdOK, NetdLabels
  <2> QED
    BY <1>1, <2>1, <2>2
<1>4. /\ DOMAIN vis' = Files /\ DOMAIN surv' = Files
      /\ \A g \in Files : g # "opt" => vis'[g] = vis[g]
      /\ vis'["opt"] \in Opts \cup {None}
      /\ \/ Synced'
         \/ /\ \A g \in Files : g # "opt" => surv'[g] = surv[g]
            /\ surv'["opt"] = surv["opt"] \cup {vis'["opt"], None}
  <2>0. vis["opt"] \in Opts \cup {None} /\ "opt" \in Files
    BY ContentsAre DEF TypeInv, FilesOK, Files
  <2>1. CASE WriteOpt
    BY <1>1, <2>0, <2>1 DEF WriteOpt, TypeInv, FilesOK
  <2>2. CASE SyncOpt
    BY <2>0, <2>2 DEF SyncOpt, TypeInv, FilesOK, Synced
  <2> QED
    BY <2>1, <2>2
<1>5. TypeInv'
  <2>1. FilesOK'
    <3>1. CASE Synced'
      BY <1>4, <3>1, ContentsAre DEF TypeInv, FilesOK, Synced
    <3>2. CASE /\ \A g \in Files : g # "opt" => surv'[g] = surv[g]
               /\ surv'["opt"] = surv["opt"] \cup {vis'["opt"], None}
      BY <1>4, <3>2, ContentsAre DEF TypeInv, FilesOK
    <3> QED
      BY <1>4, <3>1, <3>2
  <2> QED
    BY <1>1, <1>2, <1>3, <2>1 DEF TypeInv, UiOK, ValuesOK, NetdLeaves
<1>6. /\ vis'["marker"] = vis["marker"] /\ vis'["ready"] = vis["ready"]
      /\ vis'["attempt"] = vis["attempt"] /\ vis'["desired"] = vis["desired"]
      /\ \/ Synced'
         \/ \A g \in Files : g # "opt" => surv'[g] = surv[g]
      /\ surv'["marker"] \subseteq surv["marker"] /\ surv'["ready"] \subseteq surv["ready"]
  BY <1>4 DEF Files, Synced, TypeInv, FilesOK
<1>7. ~Bootstrapping /\ ~Bootstrapping'
  BY <1>1, <1>3 DEF Bootstrapping
<1>8. /\ RequestInv' /\ AnswerTruthful'
      /\ ~overlapped' => AloneInv' /\ CommitInv'
  BY <1>1, <1>5, <1>6, <1>7, OutsideKept
<1>9. MarkerInv'
  <2>1. ServicesOnlyOwned'
    BY <1>4, <1>6 DEF BInv, MarkerInv, ServicesOnlyOwned, Files, Synced, TypeInv, FilesOK
  <2> QED
    BY <1>3, <2>1 DEF MarkerInv, BeforeCommit, Unconfirmed, OwnedLabels, Recovery, Removals
<1>10. UndoInv'
  BY <1>1, <1>3, <1>6 DEF BInv, UndoInv, Recorded, Removals
<1>11. ASSUME ~overlapped'
       PROVE  OwnerInv'
  <2>1. CompleteStays
    BY <1>4, CompleteKept DEF OwnFiles, Files, Synced
  <2>2. Held => Held'
    BY <1>1, <1>2, <1>3, <1>6, <1>7 DEF Held, NetdLeaves
  <2>3. RepliesKept /\ CompleteStays /\ (Held => HeldStays)
    BY <1>1, <2>1, <2>2 DEF RepliesKept, CompleteStays, HeldStays
  <2> QED
    BY <1>1, <1>2, <1>5, <1>6, <1>11, <2>3, OwnershipKept DEF BInv, NetdLeaves
<1> QED
  BY <1>5, <1>8, <1>9, <1>10, <1>11 DEF BInv

(* netd's start.                                                           *)
LEMMA LabelsOfStart ==
  ASSUME TypeInv, netd.pc \in StartLabels \ Recovery
  PROVE  netd.mode = "start" /\ ~Bootstrapping
BY DEF TypeInv, NetdOK, Bootstrapping, StartLabels, BootstrapLabels, BeforeCommit, Unconfirmed,
       OwnedLabels, Recovery, Removals

(* A step of netd's start goes on with the start or ends it.               *)
LEMMA StartGoes ==
  ASSUME TypeInv, netd.mode = "start", NEW l \in StartLabels, NetdGoes(l) \/ netd' = NetdIdle
  PROVE  /\ NetdOK' /\ ~Bootstrapping' /\ netd'.mode \in {"start", "idle"}
         /\ NetdGoes(l) => netd'.pc = l /\ netd'.mode = "start"
         /\ netd' = NetdIdle => netd'.pc = "idle" /\ netd'.mode = "idle"
<1>1. CASE NetdGoes(l)
  BY <1>1 DEF NetdGoes, TypeInv, NetdOK, NetdLabels, Bootstrapping, NetdIdle
<1>2. CASE netd' = NetdIdle
  BY <1>2 DEF NetdGoes, TypeInv, NetdOK, NetdLabels, Bootstrapping, NetdIdle
<1> QED
  BY <1>1, <1>2

(* netd's start without a file: its beginning, and first-boot addressing.  *)
LEMMA StartStep ==
  ASSUME TypeInv, BInv, Start \/ StartFirstBoot
  PROVE  TypeInv' /\ BInv'
<1>1. /\ UNCHANGED <<vis, surv, answer, NetdLeaves>>
      /\ live' = live \/ (netd.pc = "first" /\ live' \in Opts \cup {None})
      /\ \/ /\ netd.pc = "start"
            /\ \/ vis["marker"] = None /\ NetdGoes("recover")
               \/ vis["marker"] # None /\ vis["desired"] # None /\ NetdGoes("accepted")
               \/ vis["marker"] # None /\ NetdGoes("first")
         \/ netd.pc = "first" /\ (netd' = NetdIdle \/ NetdGoes("start"))
      /\ netd.mode = "start" /\ ~Bootstrapping
  <2>1. vis["opt"] \in Opts \cup {None}
    BY ContentsAre DEF TypeInv, FilesOK, Files
  <2>2. netd.pc \in {"start", "first"}
    BY DEF Start, StartFirstBoot
  <2>3. netd.mode = "start" /\ ~Bootstrapping
    BY <2>2, LabelsOfStart DEF StartLabels, Recovery, Removals
  <2>4. CASE Start
    BY <2>3, <2>4 DEF Start, NetdGoes
  <2>5. CASE StartFirstBoot
    BY <2>1, <2>3, <2>5 DEF StartFirstBoot
  <2> QED
    BY <2>4, <2>5
<1>2. /\ NetdOK' /\ ~Bootstrapping' /\ netd'.mode \in {"start", "idle"}
      /\ \/ /\ netd.pc = "start" /\ netd'.pc = "recover" /\ netd'.mode = "start"
            /\ vis["marker"] = None
         \/ /\ netd.pc = "start" /\ netd'.pc = "accepted" /\ vis["marker"] # None
            /\ vis["desired"] # None
         \/ netd.pc = "start" /\ netd'.pc = "first" /\ vis["marker"] # None
         \/ netd.pc = "first" /\ netd'.pc \in {"start", "idle"}
  BY <1>1, StartGoes DEF StartLabels, Recovery
<1>3. used' \in [Events -> Nat] /\ Failed \in Nat /\ Failed' \in Nat /\ Failed' >= Failed
  <2>1. used' = used \/ \E ok \in BOOLEAN : Try(ok)
    BY DEF Start, StartFirstBoot
  <2> QED
    BY <2>1, TryEffect, FailedNat DEF TypeInv, ValuesOK, Failed
<1>4. TypeInv'
  BY <1>1, <1>2, <1>3 DEF TypeInv, FilesOK, UiOK, ValuesOK, NetdLeaves
<1>5. /\ RequestInv' /\ AnswerTruthful'
      /\ ~overlapped' => AloneInv' /\ CommitInv'
  BY <1>1, <1>2, <1>4, OutsideKept
<1>6. MarkerInv'
  BY <1>1, <1>2 DEF BInv, MarkerInv, ServicesOnlyOwned, BeforeCommit, Unconfirmed, OwnedLabels,
                    Recovery, Removals
<1>7. UndoInv'
  <2>1. live' \in Requests => live \in Requests
    BY <1>1, NoneAssumption, OptsAssumption
  <2>2. netd'.pc \notin Recorded \cup Removals \cup {"reset"}
    BY <1>2 DEF Recorded, Removals
  <2> QED
    BY <1>1, <1>2, <2>1, <2>2 DEF BInv, UndoInv
<1>8. ASSUME ~overlapped'
      PROVE  OwnerInv'
  BY <1>1, <1>2, <1>3, <1>4, <1>8, OutsideOwner
<1> QED
  BY <1>4, <1>5, <1>6, <1>7, <1>8 DEF BInv

(* netd's start on an owned appliance.                                     *)
LEMMA StartFileStep ==
  ASSUME TypeInv, BInv, StartAccepted \/ StartPersist \/ StartReady
  PROVE  TypeInv' /\ BInv'
<1>1. /\ netd.pc \in {"accepted", "repersist", "republish"} /\ netd.mode = "start" /\ ~Bootstrapping
      /\ UNCHANGED <<answer, NetdLeaves>>
      /\ vis["marker"] # None /\ vis["desired"] # None
  <2>1. /\ netd.pc \in {"accepted", "repersist", "republish"}
        /\ UNCHANGED <<answer, NetdLeaves>>
    BY DEF StartAccepted, StartPersist, StartReady
  <2> QED
    BY <2>1, LabelsOfStart DEF StartLabels, Recovery, Removals, BInv, MarkerInv
<1>2. vis["desired"] \in Requests
  BY <1>1, ContentsAre DEF TypeInv, FilesOK, Files
<1>3. /\ FilesOK' /\ used' \in [Events -> Nat]
      /\ Failed \in Nat /\ Failed' \in Nat /\ Failed' >= Failed
      /\ \/ /\ Wrote("opt", None) /\ live' \in {live, vis["desired"]}
            /\ NetdGoes("repersist") \/ NetdGoes("start")
         \/ /\ Wrote("desired", vis["desired"]) /\ live' = live
            /\ (NetdGoes("republish") /\ Synced') \/ NetdGoes("start")
         \/ /\ netd.pc = "republish" /\ Wrote("ready", "ready") /\ live' = live
            /\ netd' = NetdIdle \/ NetdGoes("start")
  <2>1. CASE StartAccepted
    <3>1. PICK ok \in BOOLEAN : /\ Durable("opt", None, ok)
                                /\ live' = IF ok THEN vis["desired"] ELSE live
                                /\ NetdGoes(IF ok THEN "repersist" ELSE "start")
      BY <2>1 DEF StartAccepted
    <3>2. "opt" \in Files /\ FilesOK /\ used \in [Events -> Nat]
      BY DEF Files, TypeInv, ValuesOK
    <3>3. /\ FilesOK' /\ used' \in [Events -> Nat] /\ Wrote("opt", None)
          /\ Failed \in Nat /\ Failed' \in Nat /\ Failed' >= Failed
      BY <3>1, <3>2, DurableEffect
    <3> QED
      BY <3>1, <3>3
  <2>2. CASE StartPersist
    <3>1. PICK ok \in BOOLEAN : /\ Durable("desired", vis["desired"], ok)
                                /\ NetdGoes(IF ok THEN "republish" ELSE "start")
      BY <2>2 DEF StartPersist
    <3> QED
      BY <1>1, <1>2, <2>2, <3>1, DurableEffect, ContentsAre
         DEF Files, TypeInv, ValuesOK, StartPersist
  <2>3. CASE StartReady
    <3>1. PICK ok \in BOOLEAN : Durable("ready", "ready", ok)
      BY <2>3 DEF StartReady
    <3> QED
      BY <2>3, <3>1, DurableEffect, ContentsAre DEF Files, TypeInv, ValuesOK, StartReady
  <2> QED
    BY <2>1, <2>2, <2>3
<1>4. /\ NetdOK' /\ ~Bootstrapping' /\ netd'.mode \in {"start", "idle"}
      /\ netd'.pc \in {"repersist", "republish", "start", "idle"}
      /\ netd'.pc = "republish" => Synced'
  BY <1>1, <1>3, StartGoes DEF StartLabels, Recovery
<1>5. TypeInv'
  BY <1>1, <1>2, <1>3, <1>4 DEF TypeInv, UiOK, ValuesOK, NetdLeaves
<1>6. /\ vis'["marker"] = vis["marker"] /\ surv'["marker"] \subseteq surv["marker"]
      /\ vis'["desired"] = vis["desired"] /\ vis'["attempt"] = vis["attempt"]
  BY <1>3 DEF Wrote, Synced, Files, TypeInv, FilesOK
<1>7. /\ RequestInv' /\ AnswerTruthful'
      /\ ~overlapped' => AloneInv' /\ CommitInv'
  BY <1>1, <1>4, <1>5, <1>6, OutsideKept
<1>8. MarkerInv'
  <2>1. CASE netd.pc = "republish"
    BY <1>1, <1>4, <1>6, <2>1
       DEF BInv, MarkerInv, ServicesOnlyOwned, BeforeCommit, Unconfirmed, OwnedLabels,
           Recovery, Removals
  <2>2. CASE Wrote("opt", None) \/ Wrote("desired", vis["desired"])
    <3>1. ServicesOnlyOwned'
      BY <1>2, <1>5, <2>2, MarkerKept, ContentsAre DEF Files, BInv, MarkerInv
    <3>2. Synced' => None \notin surv'["marker"]
      BY <1>1, <1>6 DEF Synced, Files
    <3> QED
      BY <1>1, <1>4, <1>6, <3>1, <3>2
         DEF MarkerInv, BeforeCommit, Unconfirmed, OwnedLabels, Recovery, Removals
  <2> QED
    BY <1>3, <2>1, <2>2
<1>9. UndoInv'
  BY <1>1, <1>4, <1>6 DEF UndoInv, Recorded, Removals
<1>10. ASSUME ~overlapped'
       PROVE  OwnerInv'
  BY <1>1, <1>3, <1>4, <1>5, <1>10, OutsideOwner, ContentsAre
<1> QED
  BY <1>5, <1>7, <1>8, <1>9, <1>10 DEF BInv

-----------------------------------------------------------------------------
(* The recovery of an incomplete attempt, in a bootstrap or at netd's      *)
(* start.                                                                  *)

(* It goes on, returns to the start, or ends the request.                  *)
RecoveryOutcome ==
  \/ /\ netd'.mode = netd.mode /\ netd'.req = netd.req /\ netd'.pc \in Recovery
     /\ answer' = answer
  \/ /\ netd.mode = "start" /\ netd'.mode = "start" /\ netd'.pc \in {"start", "first"}
     /\ answer' = answer
  \/ Bootstrapping /\ Answer("incomplete")

(* A recovery belongs to a start or to a bootstrap.                        *)
LEMMA RecoveryMode ==
  ASSUME TypeInv, netd.pc \in Recovery
  PROVE  /\ netd.mode \in {"start", "bootstrap"}
         /\ Bootstrapping \/ netd.mode = "start"
BY DEF TypeInv, NetdOK, Bootstrapping, Recovery, Removals

(* netd's replies have their type.                                         *)
AnswersOK == answer \in [Ids -> Answers \cup {None}]

(* A reply ends the request.                                               *)
LEMMA AnswerEffect ==
  ASSUME AnswersOK, NEW o \in Answers, Answer(o)
  PROVE  NetdOK' /\ AnswersOK' /\ netd'.pc = "idle" /\ netd'.mode = "idle"
<1>1. netd' = NetdIdle /\ answer' = [answer EXCEPT ![netd.req.id] = o]
  BY DEF Answer
<1>2. AnswersOK'
  BY <1>1 DEF AnswersOK
<1>3. NetdOK' /\ netd'.pc = "idle" /\ netd'.mode = "idle"
  BY <1>1 DEF NetdIdle, NetdOK, NetdLabels
<1> QED
  BY <1>2, <1>3

(* A step of a recovery has one of the outcomes above.                     *)
LEMMA RecoveryEffect ==
  ASSUME TypeInv, netd.pc \in Recovery,
         \/ RecoveryEnds
         \/ answer' = answer /\ \E l \in Recovery : NetdGoes(l)
  PROVE  NetdOK' /\ AnswersOK' /\ RecoveryOutcome
<1>1. netd.mode \in {"start", "bootstrap"} /\ AnswersOK
  BY RecoveryMode DEF TypeInv, ValuesOK, AnswersOK
<1>2. CASE RecoveryEnds /\ netd.mode = "bootstrap"
  BY <1>1, <1>2, AnswerEffect DEF RecoveryEnds, Answers, RecoveryOutcome, Bootstrapping
<1>3. CASE RecoveryEnds /\ netd.mode = "start"
  BY <1>1, <1>3
     DEF RecoveryEnds, NetdGoes, NetdOK, NetdLabels, StartLabels, AnswersOK, RecoveryOutcome,
          TypeInv
<1>4. CASE answer' = answer /\ \E l \in Recovery : NetdGoes(l)
  BY <1>1, <1>4
     DEF NetdGoes, NetdOK, NetdLabels, StartLabels, BootstrapLabels, AnswersOK, RecoveryOutcome,
         TypeInv
<1> QED
  BY <1>1, <1>2, <1>3, <1>4

(* A step of a recovery that leaves the marker alone.                      *)
LEMMA RecoveryKept ==
  ASSUME TypeInv, TypeInv', BInv, netd.pc \in Recovery, UNCHANGED NetdLeaves, RecoveryOutcome,
         vis'["marker"] = vis["marker"], surv'["marker"] \subseteq surv["marker"],
         ServicesOnlyOwned'
  PROVE  /\ MarkerInv' /\ RequestInv' /\ AnswerTruthful' /\ RepliesKept
         /\ ~overlapped' => AloneInv' /\ CommitInv'
         /\ netd'.pc \in Recovery \cup {"start", "first", "idle"}
<1>1. vis["marker"] = None /\ "incomplete" \in Answers
  BY DEF BInv, MarkerInv, Answers
<1>2. /\ netd'.pc \in Recovery \cup {"start", "first", "idle"}
      /\ netd'.mode = "bootstrap" => Bootstrapping /\ netd'.req = netd.req /\ answer' = answer
                                     /\ netd'.pc \in Recovery
      /\ answer' = answer \/ (Bootstrapping /\ Answer("incomplete"))
      /\ netd'.mode = "bootstrap" \/ answer' = answer \/ (Bootstrapping /\ Answer("incomplete"))
  BY DEF RecoveryOutcome, Answer, NetdIdle, Bootstrapping
<1>3. MarkerInv'
  BY <1>1, <1>2 DEF MarkerInv, BeforeCommit, Unconfirmed, OwnedLabels, Recovery, Removals
<1>4. RequestInv'
  BY <1>1, <1>2, RequestKept DEF BInv
<1>5. RepliesKept
  BY <1>1, <1>2, RepliesStay DEF BInv
<1>6. AnswerTruthful'
  <2>1. CASE answer' = answer
    BY <2>1, AnswersKept DEF BInv, NetdLeaves
  <2>2. CASE Bootstrapping /\ Answer("incomplete")
    <3>1. netd.req \in Requests /\ netd.req.id \notin surv["marker"]
      BY <2>2 DEF TypeInv, NetdOK, Bootstrapping, BInv, RequestInv
    <3> QED
      BY <1>1, <2>2, <3>1, AnswerAdded DEF BInv, NetdLeaves
  <2> QED
    BY <1>2, <2>1, <2>2
<1>7. ASSUME ~overlapped'
      PROVE  AloneInv' /\ CommitInv'
  <2>1. AloneInv'
    BY <1>2, <1>7, AloneKept DEF BInv, NetdLeaves, Recovery, Removals
  <2>2. CommitInv'
    BY <1>2 DEF CommitInv, Unconfirmed, OwnedLabels, Recovery, Removals
  <2> QED
    BY <2>1, <2>2
<1> QED
  BY <1>2, <1>3, <1>4, <1>5, <1>6, <1>7

(* The recovery begins.                                                    *)
LEMMA RecoverStep ==
  ASSUME TypeInv, BInv, Recover
  PROVE  TypeInv' /\ BInv'
<1>1. /\ netd.pc = "recover" /\ netd.pc \in Recovery /\ vis["marker"] = None
      /\ UNCHANGED <<vis, surv, live, used, answer, NetdLeaves>>
      /\ netd' = [netd EXCEPT !.pc = IF vis["attempt"] = None THEN "desired" ELSE "reset",
                              !.had = vis["attempt"] # None]
  BY DEF Recover, Recovery, BInv, MarkerInv
<1>2. /\ NetdOK' /\ netd'.mode = netd.mode /\ netd'.req = netd.req
      /\ netd'.pc = IF vis["attempt"] = None THEN "desired" ELSE "reset"
  BY <1>1 DEF TypeInv, NetdOK, NetdLabels, StartLabels, BootstrapLabels, Recovery, Removals
<1>3. TypeInv' /\ RecoveryOutcome
  BY <1>1, <1>2
     DEF TypeInv, FilesOK, UiOK, ValuesOK, NetdLeaves, RecoveryOutcome, Recovery, Removals
<1>4. ServicesOnlyOwned' /\ Failed \in Nat /\ Failed' = Failed
  BY <1>1, FailedNat DEF BInv, MarkerInv, ServicesOnlyOwned, Failed
<1>5. /\ MarkerInv' /\ RequestInv' /\ AnswerTruthful' /\ RepliesKept
      /\ ~overlapped' => AloneInv' /\ CommitInv'
  BY <1>1, <1>3, <1>4, RecoveryKept
<1>6. UndoInv'
  BY <1>1, <1>2, RecoveryMode DEF BInv, UndoInv, Recorded, Removals, Bootstrapping
<1>7. ASSUME ~overlapped'
      PROVE  OwnerInv'
  <2>1. CompleteStays
    BY <1>1, <1>3, WroteOther
  <2>2. Held => Held'
    BY <1>1, <1>2, <1>4 DEF Held, NetdLeaves, Bootstrapping
  <2> QED
    BY <1>1, <1>3, <1>4, <1>5, <1>7, <2>1, <2>2, OwnershipKept
       DEF BInv, NetdLeaves, CompleteStays, HeldStays
<1> QED
  BY <1>3, <1>5, <1>6, <1>7 DEF BInv

(* The recovery resets the network of the attempt.                         *)
LEMMA ResetNetworkStep ==
  ASSUME TypeInv, BInv, ResetNetwork
  PROVE  TypeInv' /\ BInv'
<1>1. PICK ok \in BOOLEAN :
        /\ Try(ok)
        /\ live' = IF ok THEN None ELSE live
        /\ IF ok THEN NetdGoes("desired") /\ UNCHANGED answer ELSE RecoveryEnds
  BY DEF ResetNetwork
<1>2. /\ netd.pc = "reset" /\ netd.pc \in Recovery /\ vis["marker"] = None
      /\ UNCHANGED <<vis, surv, NetdLeaves>>
  BY DEF ResetNetwork, Recovery, BInv, MarkerInv
<1>3. /\ used' \in [Events -> Nat] /\ Failed \in Nat /\ Failed' \in Nat /\ Failed' >= Failed
      /\ ~ok => Failed' = Failed + 1
  BY <1>1, TryEffect DEF TypeInv, ValuesOK
<1>4. NetdOK' /\ AnswersOK' /\ RecoveryOutcome
  BY <1>1, <1>2, RecoveryEffect DEF Recovery, Removals
<1>5. TypeInv'
  BY <1>1, <1>2, <1>3, <1>4 DEF TypeInv, FilesOK, UiOK, ValuesOK, AnswersOK, NetdLeaves
<1>6. ServicesOnlyOwned'
  BY <1>2 DEF BInv, MarkerInv, ServicesOnlyOwned
<1>7. /\ MarkerInv' /\ RequestInv' /\ AnswerTruthful' /\ RepliesKept
      /\ ~overlapped' => AloneInv' /\ CommitInv'
  BY <1>2, <1>4, <1>5, <1>6, RecoveryKept
<1>8. vis["attempt"] # None
  BY <1>2 DEF BInv, UndoInv
<1>9. UndoInv'
  <2>1. CASE ok
    <3>1. netd'.pc = "desired"
      BY <1>1, <2>1 DEF NetdGoes, TypeInv, NetdOK
    <3> QED
      BY <1>1, <1>2, <1>8, <2>1, <3>1, NoneAssumption DEF UndoInv, Recorded, Removals
  <2>2. CASE ~ok
    <3>1. netd'.pc \in {"start", "idle"}
      BY <1>1, <2>2 DEF RecoveryEnds, Answer, NetdIdle, NetdGoes, TypeInv, NetdOK
    <3> QED
      BY <1>1, <1>2, <1>8, <2>2, <3>1 DEF UndoInv, Recorded, Removals
  <2> QED
    BY <2>1, <2>2
<1>10. ASSUME ~overlapped'
       PROVE  OwnerInv'
  <2>1. CompleteStays
    BY <1>2, <1>5, WroteOther
  <2>2. Held => Held'
    BY <1>2, <1>3, <1>4, RecoveryMode DEF Held, NetdLeaves, Bootstrapping, RecoveryOutcome
  <2> QED
    BY <1>2, <1>3, <1>5, <1>7, <1>10, <2>1, <2>2, OwnershipKept
       DEF BInv, NetdLeaves, CompleteStays, HeldStays
<1> QED
  BY <1>5, <1>7, <1>9, <1>10 DEF BInv

(* The recovery removes a tentative file.                                  *)
LEMMA RemoveTentativeStep ==
  ASSUME TypeInv, BInv, RemoveTentative
  PROVE  TypeInv' /\ BInv'
<1>0. DOMAIN RemovalOrder = {"desired", "identity", "hostname", "attempt"}
  BY DEF RemovalOrder
<1>1. PICK ok \in BOOLEAN :
        /\ Durable(netd.pc, None, ok)
        /\ IF ok THEN NetdGoes(RemovalOrder[netd.pc]) /\ UNCHANGED answer ELSE RecoveryEnds
  BY DEF RemoveTentative
<1>2. /\ netd.pc \in {"desired", "identity", "hostname", "attempt"} /\ netd.pc \in Recovery
      /\ RemovalOrder[netd.pc] \in Removals \ {"desired"} /\ RemovalOrder[netd.pc] \in Recovery
      /\ netd.pc \in Removals /\ vis["marker"] = None /\ UNCHANGED <<live, NetdLeaves>>
  <2>1. netd.pc \in {"desired", "identity", "hostname", "attempt"} /\ UNCHANGED <<live, NetdLeaves>>
    BY <1>0 DEF RemoveTentative
  <2>2. RemovalOrder[netd.pc] \in Removals \ {"desired"}
    BY <2>1 DEF RemovalOrder, Removals
  <2>3. netd.pc \in Removals /\ netd.pc \in Recovery /\ RemovalOrder[netd.pc] \in Recovery
    BY <2>1, <2>2 DEF Recovery, Removals
  <2>4. vis["marker"] = None
    BY <2>3 DEF BInv, MarkerInv
  <2> QED
    BY <2>1, <2>2, <2>3, <2>4
<1>3. /\ FilesOK' /\ Wrote(netd.pc, None)
      /\ ok => vis'[netd.pc] = None
      /\ ok /\ vis[netd.pc] # None => Synced'
      /\ used' \in [Events -> Nat] /\ Failed \in Nat /\ Failed' \in Nat /\ Failed' >= Failed
      /\ ~ok => Failed' = Failed + 1
  <2>1. netd.pc \in Files /\ FilesOK /\ used \in [Events -> Nat]
    BY <1>2 DEF Files, TypeInv, ValuesOK
  <2>2. None \in Contents[netd.pc] \cup {None} /\ Durable(netd.pc, None, ok)
    BY <1>1
  <2> QED
    BY <2>1, <2>2, DurableEffect
<1>4. NetdOK' /\ AnswersOK' /\ RecoveryOutcome
  BY <1>1, <1>2, RecoveryEffect
<1>5. TypeInv'
  BY <1>2, <1>3, <1>4 DEF TypeInv, UiOK, ValuesOK, AnswersOK, NetdLeaves
<1>6. /\ vis'["marker"] = vis["marker"] /\ surv'["marker"] \subseteq surv["marker"]
      /\ ServicesOnlyOwned'
  <2>1. netd.pc \in Files \ {"marker", "ready"}
    BY <1>2 DEF Files
  <2> QED
    BY <1>3, <1>5, <2>1, MarkerKept DEF BInv, MarkerInv
<1>7. /\ MarkerInv' /\ RequestInv' /\ AnswerTruthful' /\ RepliesKept
      /\ ~overlapped' => AloneInv' /\ CommitInv'
  BY <1>2, <1>4, <1>5, <1>6, RecoveryKept
<1>8. /\ live' \notin Requests
      /\ netd.pc # "desired" => vis["desired"] = None
      /\ netd.pc # "desired" => vis'["desired"] = vis["desired"]
      /\ netd.pc # "attempt" => vis'["attempt"] = vis["attempt"]
      /\ vis'["desired"] \in {None, vis["desired"]}
  BY <1>2, <1>3 DEF BInv, UndoInv, Wrote, Files, Removals
<1>9. UndoInv'
  <2>1. CASE ok
    <3>1. netd'.pc \in Removals \ {"desired"} /\ netd'.pc # "reset"
      BY <1>1, <1>2, <2>1 DEF NetdGoes, TypeInv, NetdOK, Removals
    <3>2. vis'["desired"] = None
      BY <1>3, <1>8, <2>1
    <3> QED
      BY <1>8, <3>1, <3>2 DEF UndoInv, Recorded, Removals
  <2>2. CASE ~ok
    <3>1. netd'.pc \in {"start", "idle"} /\ (netd.mode = "start" => netd'.pc = "start")
          /\ (netd.mode = "start" => netd'.mode = "start")
      BY <1>1, <2>2 DEF RecoveryEnds, Answer, NetdIdle, NetdGoes, TypeInv, NetdOK
    <3>2. netd.mode # "start" => vis["desired"] = None \/ vis["attempt"] # None
      BY <1>2 DEF BInv, UndoInv
    <3> QED
      BY <1>8, <3>1, <3>2 DEF UndoInv, Recorded, Removals
  <2> QED
    BY <2>1, <2>2
<1>10. ASSUME ~overlapped', vis["marker"] = None, Held
       PROVE  Failed' > 4 \/ surv'["marker"] = {None} \/ HeldStays
  <2>1. netd.mode = "start" /\ Failed >= 4
    BY <1>2, <1>10, RecoveryMode DEF Held
  <2>2. CASE ~ok
    BY <1>3, <2>1, <2>2
  <2>3. CASE ok /\ netd.pc = "desired" /\ vis["desired"] # None
    BY <1>2, <1>3, <1>6, <2>3 DEF Synced, Files
  <2>4. CASE vis["desired"] = None
    <3>1. \A m \in Ids : ~Complete(m)
      BY <2>4, NoneAssumption DEF Complete, TypeInv, FilesOK, Files, Requests
    <3> QED
      BY <3>1 DEF HeldStays
  <2> QED
    BY <1>8, <2>2, <2>3, <2>4
<1>11. ASSUME ~overlapped'
       PROVE  OwnerInv'
  BY <1>2, <1>3, <1>5, <1>6, <1>7, <1>10, <1>11, OwnershipKept DEF BInv, NetdLeaves
<1> QED
  BY <1>5, <1>7, <1>9, <1>11 DEF BInv

(* The recovery ends with the console's first-boot addressing.             *)
LEMMA ReapplyOptStep ==
  ASSUME TypeInv, BInv, ReapplyOpt
  PROVE  TypeInv' /\ BInv'
<1>1. PICK ok \in BOOLEAN :
        /\ Try(ok)
        /\ live' = IF netd.had /\ ok THEN vis["opt"] ELSE live
        /\ IF netd.mode = "bootstrap" THEN Answer("incomplete")
           ELSE NetdGoes(IF ok THEN "first" ELSE "start") /\ UNCHANGED answer
  BY DEF ReapplyOpt
<1>2. /\ netd.pc = "opt" /\ netd.pc \in Recovery /\ netd.pc \in Removals \ {"desired"}
      /\ vis["marker"] = None /\ UNCHANGED <<vis, surv, NetdLeaves>>
  BY DEF ReapplyOpt, Recovery, Removals, BInv, MarkerInv
<1>3. used' \in [Events -> Nat] /\ Failed \in Nat /\ Failed' \in Nat /\ Failed' >= Failed
  BY <1>1, TryEffect DEF TypeInv, ValuesOK
<1>4. netd.mode \in {"start", "bootstrap"} /\ AnswersOK
  BY <1>2, RecoveryMode DEF TypeInv, ValuesOK, AnswersOK
<1>5. NetdOK' /\ AnswersOK' /\ RecoveryOutcome /\ netd'.pc \in {"first", "start", "idle"}
  <2>1. CASE netd.mode = "bootstrap"
    BY <1>1, <1>4, <2>1, AnswerEffect DEF Answers, RecoveryOutcome, Bootstrapping
  <2>2. CASE netd.mode = "start"
    BY <1>1, <1>4, <2>2
       DEF NetdGoes, NetdOK, NetdLabels, StartLabels, AnswersOK, RecoveryOutcome, TypeInv
  <2> QED
    BY <1>4, <2>1, <2>2
<1>6. live' = live \/ live' \in Opts \cup {None}
  BY <1>1, ContentsAre DEF TypeInv, FilesOK, Files
<1>7. TypeInv'
  BY <1>2, <1>3, <1>5, <1>6 DEF TypeInv, FilesOK, UiOK, ValuesOK, AnswersOK, NetdLeaves
<1>8. ServicesOnlyOwned'
  BY <1>2 DEF BInv, MarkerInv, ServicesOnlyOwned
<1>9. /\ MarkerInv' /\ RequestInv' /\ AnswerTruthful' /\ RepliesKept
      /\ ~overlapped' => AloneInv' /\ CommitInv'
  BY <1>2, <1>5, <1>7, <1>8, RecoveryKept
<1>10. UndoInv'
  <2>1. live' \notin Requests /\ vis["desired"] = None
    BY <1>2, <1>6, NoneAssumption, OptsAssumption DEF BInv, UndoInv
  <2> QED
    BY <1>2, <1>5, <2>1 DEF UndoInv, Recorded, Removals
<1>11. ASSUME ~overlapped'
       PROVE  OwnerInv'
  <2>1. CompleteStays
    BY <1>2, <1>7, WroteOther
  <2>2. Held => Held'
    BY <1>2, <1>3, <1>4, <1>5 DEF Held, NetdLeaves, Bootstrapping, RecoveryOutcome
  <2> QED
    BY <1>2, <1>3, <1>7, <1>9, <1>11, <2>1, <2>2, OwnershipKept
       DEF BInv, NetdLeaves, CompleteStays, HeldStays
<1> QED
  BY <1>7, <1>9, <1>10, <1>11 DEF BInv

-----------------------------------------------------------------------------
(* netd's bootstrap, up to the commit.                                     *)

(* netd takes the oldest request.                                          *)
LEMMA BootstrapApplyStep ==
  ASSUME TypeInv, BInv, BootstrapApply
  PROVE  TypeInv' /\ BInv'
<1>1. /\ netd.pc = "idle" /\ queue # <<>> /\ queue' = Tail(queue)
      /\ netd' = [pc |-> "owned", mode |-> "bootstrap", req |-> Head(queue), had |-> FALSE]
      /\ UNCHANGED <<vis, surv, live, ui, answer, requests, overlapped, used>>
  BY DEF BootstrapApply
<1>2. /\ netd.mode = "idle" /\ ~Bootstrapping /\ netd.mode # "start"
  BY <1>1 DEF TypeInv, NetdOK, StartLabels, BootstrapLabels, BeforeCommit, Unconfirmed,
              OwnedLabels, Recovery, Removals, Bootstrapping
<1>3. /\ Len(queue) \in Nat \ {0} /\ DOMAIN queue = 1 .. Len(queue) /\ 1 \in DOMAIN queue
      /\ Head(queue) = queue[1] /\ Head(queue) \in Requests
      /\ queue' \in Seq(Requests) /\ Len(queue') = Len(queue) - 1
      /\ DOMAIN queue' = 1 .. (Len(queue) - 1)
      /\ \A k \in 1 .. (Len(queue) - 1) : queue'[k] = queue[k + 1]
  BY <1>1 DEF TypeInv, ValuesOK
<1>4. TypeInv'
  <2>1. NetdOK'
    BY <1>1, <1>3 DEF NetdOK, NetdLabels, BootstrapLabels, BeforeCommit
  <2> QED
    BY <1>1, <1>3, <2>1 DEF TypeInv, FilesOK, UiOK, ValuesOK
<1>5. netd'.pc = "owned" /\ netd'.mode = "bootstrap" /\ netd'.req = queue[1]
  BY <1>1, <1>3
<1>6. MarkerInv' /\ UndoInv' /\ AnswerTruthful'
  <2>1. MarkerInv'
    BY <1>1, <1>5
       DEF BInv, MarkerInv, ServicesOnlyOwned, BeforeCommit, Unconfirmed, OwnedLabels,
           Recovery, Removals
  <2>2. UndoInv'
    BY <1>1, <1>2, <1>5 DEF BInv, UndoInv, Recorded, Removals
  <2> QED
    BY <1>1, <2>1, <2>2 DEF BInv, AnswerTruthful
<1>7. RequestInv'
  <2>1. \A i : Open(i)' = Open(i)
    BY <1>1 DEF Open
  <2>2. \A k \in DOMAIN queue : queue[k].id \in Nat
    BY QueuedIds
  <2>3. \A k \in DOMAIN queue' : /\ k + 1 \in DOMAIN queue /\ queue'[k] = queue[k + 1]
                                 /\ 1 < k + 1
    BY <1>3
  <2>4. (\A k \in DOMAIN queue : queue[k].id <= requests /\ Open(queue[k].id))'
    BY <1>1, <2>1, <2>3 DEF BInv, RequestInv
  <2>5. (\A k, l \in DOMAIN queue : k < l => queue[k].id < queue[l].id)'
    BY <1>3, <2>3 DEF BInv, RequestInv
  <2>6. /\ queue[1].id <= requests /\ Open(queue[1].id)
        /\ ui.pc \in UiWork => queue[1].id < requests
    BY <1>3 DEF BInv, RequestInv
  <2>7. (Bootstrapping =>
          /\ netd.req.id <= requests /\ answer[netd.req.id] = None
          /\ \A k \in DOMAIN queue : netd.req.id < queue[k].id
          /\ netd.pc \in BeforeCommit \cup Recovery => netd.req.id \notin surv["marker"])'
    BY <1>1, <1>3, <1>5, <2>3, <2>6 DEF BInv, RequestInv, Open
  <2>8. (ui.pc \in UiWork =>
          /\ Open(requests)
          /\ \A k \in DOMAIN queue : queue[k].id < requests
          /\ Bootstrapping => netd.req.id < requests)'
    BY <1>1, <1>5, <2>1, <2>3, <2>6 DEF BInv, RequestInv
  <2> QED
    BY <1>1, <2>1, <2>4, <2>5, <2>7, <2>8 DEF BInv, RequestInv
<1>8. ASSUME ~overlapped'
      PROVE  AloneInv' /\ CommitInv' /\ OwnerInv'
  <2>1. Len(queue) = 1 /\ ui.pc \notin UiWork /\ vis["marker"] = None
    BY <1>1, <1>8 DEF BInv, AloneInv
  <2>2. queue' = <<>>
    BY <1>3, <2>1
  <2>3. AloneInv' /\ CommitInv'
    BY <1>1, <1>5, <2>1, <2>2 DEF AloneInv, CommitInv, Unconfirmed, OwnedLabels
  <2>4. ~Held
    BY <1>1 DEF Held
  <2>5. OwnerInv'
    BY <1>1, <1>8, <2>1, <2>4 DEF BInv, OwnerInv, Failed
  <2> QED
    BY <2>3, <2>5
<1> QED
  BY <1>4, <1>6, <1>7, <1>8 DEF BInv

(* What the steps up to the commit have in common.                         *)
LEMMA AttemptMode ==
  ASSUME TypeInv, BInv, netd.pc \in BeforeCommit
  PROVE  /\ Bootstrapping /\ netd.req \in Requests /\ netd.req.id \in Ids
         /\ netd.pc # "owned" => vis["marker"] = None
<1>1. Bootstrapping
  BY LabelsOfBootstrap DEF BootstrapLabels, BeforeCommit, Recovery, Removals
<1>2. netd.req \in Requests /\ netd.req.id \in Ids
  BY <1>1 DEF TypeInv, NetdOK, Bootstrapping, Requests
<1> QED
  BY <1>1, <1>2 DEF BInv, MarkerInv

(* A step of an attempt goes on with it.                                   *)
LEMMA AttemptGoes ==
  ASSUME TypeInv, BInv, netd.pc \in BeforeCommit,
         NEW l \in BootstrapLabels \ {"owned"}, NetdGoes(l)
  PROVE  /\ NetdOK' /\ netd'.mode = "bootstrap" /\ netd'.pc = l /\ netd'.req = netd.req
         /\ Bootstrapping'
BY AttemptMode DEF TypeInv, NetdOK, NetdGoes, NetdLabels, Bootstrapping

(* A step of an attempt that leaves the marker alone.                      *)
LEMMA AttemptKept ==
  ASSUME TypeInv, TypeInv', BInv, netd.pc \in BeforeCommit, vis["marker"] = None,
         netd'.mode = "bootstrap", netd'.req = netd.req,
         netd'.pc \in (BeforeCommit \ {"owned"}) \cup {"recover"},
         UNCHANGED <<answer, NetdLeaves>>, Failed' >= Failed, Failed' \in Nat,
         vis'["marker"] = vis["marker"], surv'["marker"] \subseteq surv["marker"],
         ServicesOnlyOwned'
  PROVE  /\ MarkerInv' /\ RequestInv' /\ AnswerTruthful'
         /\ ~overlapped' => AloneInv' /\ OwnerInv'
<1>1. MarkerInv'
  BY DEF MarkerInv, BeforeCommit, Unconfirmed, OwnedLabels, Recovery, Removals
<1>2. RequestInv'
  BY RequestKept, AttemptMode DEF BInv, Recovery
<1>3. AnswerTruthful'
  BY AnswersKept DEF BInv, NetdLeaves
<1>4. ASSUME ~overlapped'
      PROVE  AloneInv' /\ OwnerInv'
  <2>1. AloneInv'
    BY <1>4, AloneKept, AttemptMode DEF BInv, NetdLeaves, BeforeCommit
  <2>2. ~Held /\ Failed \in Nat
    BY AttemptMode, FailedNat DEF Held
  <2>3. OwnerInv'
    BY <1>4, <2>2 DEF BInv, OwnerInv, NetdLeaves
  <2> QED
    BY <2>1, <2>3
<1> QED
  BY <1>1, <1>2, <1>3, <1>4

(* The checks, and what they find.                                         *)
LEMMA CheckStep ==
  ASSUME TypeInv, BInv, BootstrapOwned \/ CheckSubject \/ CheckHostname
  PROVE  TypeInv' /\ BInv'
<1>1. /\ netd.pc \in {"owned", "subject", "subject2", "host", "host2"} /\ netd.pc \in BeforeCommit
      /\ UNCHANGED <<vis, surv, live, used, NetdLeaves>>
  BY DEF BootstrapOwned, CheckSubject, CheckHostname, BeforeCommit
<1>2. Failed \in Nat /\ Failed' = Failed
  BY <1>1, FailedNat DEF Failed
<1>3. ServicesOnlyOwned'
  BY <1>1 DEF BInv, MarkerInv, ServicesOnlyOwned
<1>4. \/ /\ netd.pc = "owned" /\ vis["marker"] # None /\ Answer("owned")
      \/ /\ answer' = answer /\ vis["marker"] = None
         /\ \/ NetdGoes("recover")
            \/ netd.pc = "owned" /\ NetdGoes("subject")
            \/ netd.pc = "subject" /\ NetdGoes("host")
            \/ netd.pc = "subject2" /\ NetdGoes("host2") /\ vis["identity"] = netd.req.id
            \/ netd.pc = "host" /\ NetdGoes("mark")
            \/ netd.pc = "host2" /\ NetdGoes("commit") /\ vis["hostname"] = netd.req.host
  <2>1. CASE BootstrapOwned
    BY <2>1 DEF BootstrapOwned, Continue, NetdGoes
  <2>2. CASE CheckSubject
    BY <1>1, <2>2, AttemptMode DEF CheckSubject, Continue, NetdGoes
  <2>3. CASE CheckHostname
    BY <1>1, <2>3, AttemptMode DEF CheckHostname, Continue, NetdGoes
  <2> QED
    BY <2>1, <2>2, <2>3
<1>5. CASE Answer("owned") /\ netd.pc = "owned" /\ vis["marker"] # None
  <2>1. Bootstrapping /\ netd.req \in Requests /\ "owned" \in Answers /\ AnswersOK
    BY <1>1, AttemptMode DEF Answers, AnswersOK, TypeInv, ValuesOK
  <2>2. NetdOK' /\ AnswersOK' /\ netd'.pc = "idle" /\ netd'.mode = "idle"
    BY <1>5, <2>1, AnswerEffect
  <2>3. TypeInv'
    BY <1>1, <2>2 DEF TypeInv, FilesOK, UiOK, ValuesOK, AnswersOK, NetdLeaves
  <2>4. MarkerInv' /\ UndoInv'
    BY <1>1, <1>3, <1>5, <2>2
       DEF MarkerInv, BInv, UndoInv, BeforeCommit, Unconfirmed, OwnedLabels, Recovery, Removals,
           Recorded
  <2>5. RequestInv'
    BY <1>1, <1>5, <2>1, <2>3, RequestKept DEF BInv
  <2>6. overlapped
    BY <1>5 DEF BInv, AloneInv
  <2>7. AnswerTruthful'
    BY <1>1, <1>5, <2>1, <2>3, <2>6, AnswerAdded DEF BInv, NetdLeaves
  <2> QED
    BY <1>1, <2>3, <2>4, <2>5, <2>6, <2>7 DEF BInv, NetdLeaves
<1>6. ASSUME answer' = answer, vis["marker"] = None,
             NEW l \in (BeforeCommit \ {"owned"}) \cup {"recover"}, NetdGoes(l),
             l \in {"recover", "subject", "host", "mark"}
             \/ (netd.pc = "subject2" /\ l = "host2" /\ vis["identity"] = netd.req.id)
             \/ (netd.pc = "host2" /\ l = "commit" /\ vis["hostname"] = netd.req.host)
      PROVE  TypeInv' /\ BInv'
  <2>1. l \in BootstrapLabels \ {"owned"}
    BY <1>6 DEF BootstrapLabels, BeforeCommit, Recovery
  <2>2. NetdOK' /\ netd'.mode = "bootstrap" /\ netd'.pc = l /\ netd'.req = netd.req
    BY <1>1, <1>6, <2>1, AttemptGoes
  <2>3. TypeInv'
    BY <1>1, <1>6, <2>2 DEF TypeInv, FilesOK, UiOK, ValuesOK, NetdLeaves
  <2>4. /\ MarkerInv' /\ RequestInv' /\ AnswerTruthful'
        /\ ~overlapped' => AloneInv' /\ OwnerInv'
    BY <1>1, <1>2, <1>3, <1>6, <2>2, <2>3, AttemptKept
  <2>5. UndoInv'
    BY <1>1, <1>6, <2>2, AttemptMode DEF BInv, UndoInv, Recorded, Removals, Bootstrapping
  <2>6. ASSUME ~overlapped'
        PROVE  CommitInv'
    BY <1>1, <1>6, <2>2, <2>6 DEF BInv, CommitInv, NetdLeaves, Unconfirmed, OwnedLabels
  <2> QED
    BY <2>3, <2>4, <2>5, <2>6 DEF BInv
<1>7. {"recover", "subject", "host", "mark", "host2", "commit"}
        \subseteq (BeforeCommit \ {"owned"}) \cup {"recover"}
  BY DEF BeforeCommit
<1> QED
  BY <1>4, <1>5, <1>6, <1>7

(* The attempt is recorded.                                                *)
LEMMA WriteAttemptStep ==
  ASSUME TypeInv, BInv, WriteAttempt
  PROVE  TypeInv' /\ BInv'
<1>1. /\ netd.pc = "mark" /\ netd.pc \in BeforeCommit /\ netd.pc # "owned"
      /\ UNCHANGED <<live, answer, NetdLeaves>>
  BY DEF WriteAttempt, BeforeCommit
<1>2. PICK ok \in BOOLEAN : Durable("attempt", netd.req, ok) /\ Continue(ok, "program")
  BY DEF WriteAttempt
<1>3. /\ Bootstrapping /\ netd.req \in Requests /\ vis["marker"] = None /\ netd.req # None
  BY <1>1, AttemptMode, NoneAssumption
<1>4. /\ FilesOK' /\ Wrote("attempt", netd.req)
      /\ ok => vis'["attempt"] = netd.req
      /\ used' \in [Events -> Nat] /\ Failed \in Nat /\ Failed' \in Nat /\ Failed' >= Failed
  BY <1>2, <1>3, DurableEffect, ContentsAre DEF Files, TypeInv, ValuesOK
<1>5. PICK l \in {"program", "recover"} : NetdGoes(l) /\ (l = "program" => ok)
  BY <1>2 DEF Continue
<1>6. /\ NetdOK' /\ netd'.mode = "bootstrap" /\ netd'.pc = l /\ netd'.req = netd.req
      /\ Bootstrapping'
  BY <1>1, <1>5, AttemptGoes DEF BootstrapLabels, BeforeCommit, Recovery
<1>7. TypeInv'
  BY <1>1, <1>4, <1>6 DEF TypeInv, UiOK, ValuesOK, NetdLeaves
<1>8. /\ vis'["marker"] = vis["marker"] /\ surv'["marker"] \subseteq surv["marker"]
      /\ ServicesOnlyOwned'
  BY <1>3, <1>4, <1>7, MarkerKept, ContentsAre DEF Files, BInv, MarkerInv
<1>9. /\ MarkerInv' /\ RequestInv' /\ AnswerTruthful'
      /\ ~overlapped' => AloneInv' /\ OwnerInv'
  BY <1>1, <1>3, <1>4, <1>6, <1>7, <1>8, AttemptKept DEF BeforeCommit
<1>10. UndoInv'
  <2>1. /\ vis'["desired"] = vis["desired"] /\ vis'["attempt"] \in {vis["attempt"], netd.req}
        /\ l = "program" => vis'["attempt"] = netd.req
    BY <1>4, <1>5 DEF Wrote, Files
  <2> QED
    BY <1>1, <1>3, <1>6, <2>1
       DEF BInv, UndoInv, Recorded, Removals, Bootstrapping
<1>11. CommitInv'
  BY <1>6 DEF CommitInv, Unconfirmed, OwnedLabels
<1> QED
  BY <1>7, <1>9, <1>10, <1>11 DEF BInv

(* Its network is programmed.                                              *)
LEMMA ProgramStep ==
  ASSUME TypeInv, BInv, Program
  PROVE  TypeInv' /\ BInv'
<1>1. /\ netd.pc = "program" /\ netd.pc \in BeforeCommit /\ netd.pc # "owned"
      /\ live' = netd.req /\ UNCHANGED <<vis, surv, answer, NetdLeaves>>
  BY DEF Program, BeforeCommit
<1>2. PICK ok \in BOOLEAN : Try(ok) /\ Continue(ok, "persist")
  BY DEF Program
<1>3. /\ Bootstrapping /\ netd.req \in Requests /\ vis["marker"] = None /\ netd.req # None
      /\ vis["attempt"] = netd.req
  BY <1>1, AttemptMode, NoneAssumption DEF BInv, UndoInv, Recorded
<1>4. used' \in [Events -> Nat] /\ Failed' \in Nat /\ Failed' >= Failed
  BY <1>2, TryEffect DEF TypeInv, ValuesOK
<1>5. PICK l \in {"persist", "recover"} : NetdGoes(l)
  BY <1>2 DEF Continue
<1>6. /\ NetdOK' /\ netd'.mode = "bootstrap" /\ netd'.pc = l /\ netd'.req = netd.req
      /\ Bootstrapping'
  BY <1>1, <1>5, AttemptGoes DEF BootstrapLabels, BeforeCommit, Recovery
<1>7. TypeInv'
  BY <1>1, <1>3, <1>4, <1>6 DEF TypeInv, FilesOK, UiOK, ValuesOK, NetdLeaves
<1>8. ServicesOnlyOwned'
  BY <1>1 DEF BInv, MarkerInv, ServicesOnlyOwned
<1>9. /\ MarkerInv' /\ RequestInv' /\ AnswerTruthful'
      /\ ~overlapped' => AloneInv' /\ OwnerInv'
  BY <1>1, <1>3, <1>4, <1>6, <1>7, <1>8, AttemptKept DEF BeforeCommit
<1>10. UndoInv'
  BY <1>1, <1>3, <1>6 DEF BInv, UndoInv, Recorded, Removals
<1>11. CommitInv'
  BY <1>6 DEF CommitInv, Unconfirmed, OwnedLabels
<1> QED
  BY <1>7, <1>9, <1>10, <1>11 DEF BInv

(* Its Desired state is written.                                           *)
LEMMA PersistStep ==
  ASSUME TypeInv, BInv, Persist
  PROVE  TypeInv' /\ BInv'
<1>1. /\ netd.pc = "persist" /\ netd.pc \in BeforeCommit /\ netd.pc # "owned"
      /\ UNCHANGED <<live, answer, NetdLeaves>>
  BY DEF Persist, BeforeCommit
<1>2. PICK ok \in BOOLEAN : Durable("desired", netd.req, ok) /\ Continue(ok, "subject2")
  BY DEF Persist
<1>3. /\ Bootstrapping /\ netd.req \in Requests /\ vis["marker"] = None /\ netd.req # None
      /\ vis["attempt"] = netd.req
  BY <1>1, AttemptMode, NoneAssumption DEF BInv, UndoInv, Recorded
<1>4. /\ FilesOK' /\ Wrote("desired", netd.req)
      /\ ok => vis'["desired"] = netd.req /\ Synced'
      /\ used' \in [Events -> Nat] /\ Failed' \in Nat /\ Failed' >= Failed
  BY <1>2, <1>3, DurableEffect, ContentsAre DEF Files, TypeInv, ValuesOK
<1>5. PICK l \in {"subject2", "recover"} : NetdGoes(l) /\ (l = "subject2" => ok)
  BY <1>2 DEF Continue
<1>6. /\ NetdOK' /\ netd'.mode = "bootstrap" /\ netd'.pc = l /\ netd'.req = netd.req
      /\ Bootstrapping'
  BY <1>1, <1>5, AttemptGoes DEF BootstrapLabels, BeforeCommit, Recovery
<1>7. TypeInv'
  BY <1>1, <1>4, <1>6 DEF TypeInv, UiOK, ValuesOK, NetdLeaves
<1>8. /\ vis'["marker"] = vis["marker"] /\ surv'["marker"] \subseteq surv["marker"]
      /\ ServicesOnlyOwned'
  BY <1>3, <1>4, <1>7, MarkerKept, ContentsAre DEF Files, BInv, MarkerInv
<1>9. /\ MarkerInv' /\ RequestInv' /\ AnswerTruthful'
      /\ ~overlapped' => AloneInv' /\ OwnerInv'
  BY <1>1, <1>3, <1>4, <1>6, <1>7, <1>8, AttemptKept DEF BeforeCommit
<1>10. UndoInv'
  <2>1. vis'["attempt"] = netd.req
    BY <1>3, <1>4 DEF Wrote, Files
  <2> QED
    BY <1>1, <1>3, <1>6, <2>1 DEF BInv, UndoInv, Recorded, Removals
<1>11. CommitInv'
  BY <1>3, <1>4, <1>5, <1>6, <1>8 DEF CommitInv, Unconfirmed, OwnedLabels, Synced, Files
<1> QED
  BY <1>7, <1>9, <1>10, <1>11 DEF BInv

-----------------------------------------------------------------------------
(* The commit.                                                             *)

(* While the marker may still go away no submission has been answered as   *)
(* owner, and the others' ids are not the one being committed.             *)
LEMMA NoOwnerYet ==
  ASSUME TypeInv, BInv, Bootstrapping,
         \/ vis["marker"] = None
         \/ vis["marker"] = netd.req.id
  PROVE  \A i \in Ids : answer[i] # "ok"
<1>1. netd.req.id \in Ids /\ answer[netd.req.id] = None
  BY DEF TypeInv, NetdOK, Bootstrapping, Requests, BInv, RequestInv
<1>2. None \notin Ids /\ None # "ok"
  BY HostsAssumption, NoneAssumption DEF Ids, Answers
<1>3. vis["marker"] \in surv["marker"]
  BY DEF TypeInv, FilesOK, Files
<1> QED
  BY <1>1, <1>2, <1>3 DEF BInv, AnswerTruthful

(* A commit works for a submission that is not answered yet.               *)
LEMMA CommitMode ==
  ASSUME TypeInv, BInv, netd.pc \in {"commit"} \cup Unconfirmed \cup OwnedLabels
  PROVE  /\ Bootstrapping /\ netd.req \in Requests /\ netd.req.id \in Ids
         /\ netd.req.id # None /\ answer[netd.req.id] = None
         /\ netd.req = [id |-> netd.req.id, host |-> netd.req.host] /\ netd.req.host \in Hosts
         /\ netd.pc \in {"commit"} \cup Unconfirmed => vis["attempt"] = netd.req
         /\ vis["attempt"] = netd.req => vis["attempt"] # None
<1>1. Bootstrapping
  BY LabelsOfBootstrap
     DEF BootstrapLabels, BeforeCommit, Unconfirmed, OwnedLabels, Recovery, Removals
<1>2. netd.req \in Requests
  BY <1>1 DEF TypeInv, NetdOK, Bootstrapping
<1>3. /\ netd.req.id \in Ids /\ netd.req.id # None /\ netd.req # None /\ netd.req.host \in Hosts
      /\ netd.req = [id |-> netd.req.id, host |-> netd.req.host]
  BY <1>2, HostsAssumption, NoneAssumption DEF Requests, Ids
<1> QED
  BY <1>1, <1>2, <1>3 DEF BInv, UndoInv, RequestInv, Recorded, Unconfirmed

(* A step of the commit goes on with it.                                   *)
LEMMA CommitGoes ==
  ASSUME TypeInv, BInv, netd.pc \in {"commit"} \cup Unconfirmed \cup OwnedLabels,
         NEW l \in BootstrapLabels, NetdGoes(l)
  PROVE  /\ NetdOK' /\ netd'.mode = "bootstrap" /\ netd'.pc = l /\ netd'.req = netd.req
         /\ Bootstrapping'
BY CommitMode DEF TypeInv, NetdOK, NetdGoes, NetdLabels, Bootstrapping

(* The marker is written.                                                  *)
LEMMA CommitMarkerStep ==
  ASSUME TypeInv, BInv, CommitMarker
  PROVE  TypeInv' /\ BInv'
<1> PICK id : id = netd.req.id
  OBVIOUS
<1>1. netd.pc = "commit" /\ UNCHANGED <<live, answer, NetdLeaves>>
  BY DEF CommitMarker
<1>2. PICK ok \in BOOLEAN :
        Durable("marker", id, ok) /\ NetdGoes(IF ok THEN "services" ELSE "confirm")
  BY DEF CommitMarker
<1>3. /\ Bootstrapping /\ netd.req \in Requests /\ id \in Ids /\ id # None
      /\ answer[id] = None /\ vis["attempt"] = netd.req /\ vis["attempt"] # None
      /\ netd.req = [id |-> id, host |-> netd.req.host] /\ netd.req.host \in Hosts
  BY <1>1, CommitMode
<1>4. vis["marker"] = None /\ surv["ready"] = {None} /\ vis["ready"] = None
  <2>1. vis["marker"] = None
    BY <1>1 DEF BInv, MarkerInv, BeforeCommit
  <2> QED
    BY <2>1 DEF BInv, MarkerInv, ServicesOnlyOwned, TypeInv, FilesOK, Files
<1>5. /\ FilesOK' /\ Wrote("marker", id)
      /\ ok => vis'["marker"] = id /\ Synced'
      /\ ~ok => /\ \A g \in Files : g # "marker" => surv'[g] = surv[g]
                /\ \/ vis'["marker"] = vis["marker"] /\ surv'["marker"] = surv["marker"]
                   \/ vis'["marker"] = id /\ surv'["marker"] = surv["marker"] \cup {id}
      /\ used' \in [Events -> Nat] /\ Failed \in Nat /\ Failed' \in Nat /\ Failed' >= Failed
      /\ ~ok => Failed' = Failed + 1
  <2>1. "marker" \in Files /\ FilesOK /\ used \in [Events -> Nat] /\ id \in Contents["marker"]
    BY <1>3, ContentsAre DEF Files, TypeInv, ValuesOK
  <2> QED
    BY <1>2, <1>3, <2>1, DurableEffect
<1>6. PICK l \in {"services", "confirm"} : NetdGoes(l) /\ (l = "services" <=> ok)
  BY <1>2
<1>7. /\ NetdOK' /\ netd'.mode = "bootstrap" /\ netd'.pc = l /\ netd'.req = netd.req
      /\ Bootstrapping'
  BY <1>1, <1>6, CommitGoes DEF BootstrapLabels, Unconfirmed, OwnedLabels
<1>8. TypeInv'
  BY <1>1, <1>5, <1>7 DEF TypeInv, UiOK, ValuesOK, NetdLeaves
<1>9. /\ \A g \in Files : g # "marker" => vis'[g] = vis[g]
      /\ "marker" \in Files /\ "ready" \in Files /\ "attempt" \in Files /\ "desired" \in Files
      /\ "identity" \in Files /\ "hostname" \in Files
      /\ vis'["marker"] \in {None, id} /\ surv'["ready"] = {None}
      /\ surv'["marker"] \subseteq surv["marker"] \cup {id}
      /\ ok => surv'["marker"] = {id}
      /\ vis'["marker"] = None => surv'["marker"] \subseteq surv["marker"]
  <2>1. /\ \A g \in Files : g # "marker" => vis'[g] = vis[g]
        /\ "marker" \in Files /\ "ready" \in Files /\ "attempt" \in Files /\ "desired" \in Files
        /\ "identity" \in Files /\ "hostname" \in Files
        /\ vis'["marker"] \in {None, id}
    BY <1>4, <1>5 DEF Wrote, Files
  <2>2. None \in surv["marker"]
    BY <1>4, <2>1 DEF TypeInv, FilesOK
  <2>3. CASE ok
    BY <1>3, <1>4, <1>5, <2>1, <2>3 DEF Synced
  <2>4. CASE ~ok
    BY <1>3, <1>4, <1>5, <2>1, <2>2, <2>4
  <2> QED
    BY <2>1, <2>3, <2>4
<1>10. id \notin surv["marker"]
  BY <1>1, <1>3 DEF BInv, RequestInv, BeforeCommit
<1>11. MarkerInv'
  BY <1>6, <1>7, <1>9, <1>10
     DEF MarkerInv, ServicesOnlyOwned, BeforeCommit, Unconfirmed, OwnedLabels, Recovery, Removals
<1>12. RequestInv'
  <2>1. UNCHANGED <<queue, ui, requests>> /\ answer' = answer
    BY <1>1 DEF NetdLeaves
  <2>2. \A i \in Ids : i # id /\ Open(i) => Open(i)'
    BY <1>9, <2>1 DEF Open
  <2>3. /\ requests \in Nat /\ id \in Nat /\ \A i \in Ids : i \in Nat
        /\ ui.pc \in UiWork => requests \in Ids
    BY <1>3 DEF TypeInv, ValuesOK, UiOK, Requests, Ids, UiWork, BInv, RequestInv
  <2>4. (\A k \in DOMAIN queue : queue[k].id <= requests /\ Open(queue[k].id))'
    BY <1>3, <2>1, <2>2, <2>3, QueuedIds DEF BInv, RequestInv
  <2>5. (Bootstrapping =>
          /\ netd.req.id <= requests /\ answer[netd.req.id] = None
          /\ \A k \in DOMAIN queue : netd.req.id < queue[k].id
          /\ netd.pc \in BeforeCommit \cup Recovery => netd.req.id \notin surv["marker"])'
    BY <1>3, <1>7, <2>1 DEF BInv, RequestInv, BeforeCommit, Recovery, Removals
  <2>6. (ui.pc \in UiWork =>
          /\ Open(requests)
          /\ \A k \in DOMAIN queue : queue[k].id < requests
          /\ Bootstrapping => netd.req.id < requests)'
    BY <1>3, <1>7, <2>1, <2>2, <2>3 DEF BInv, RequestInv
  <2>7. (\A i \in Ids : i > requests => Open(i))'
    BY <1>3, <2>1, <2>2, <2>3 DEF BInv, RequestInv
  <2> QED
    BY <2>1, <2>4, <2>5, <2>6, <2>7 DEF BInv, RequestInv
<1>13. UndoInv'
  BY <1>1, <1>3, <1>7, <1>9
     DEF BInv, UndoInv, Recorded, Removals
<1>14. AnswerTruthful'
  <2>1. \A i \in Ids : answer[i] # "ok"
    BY <1>3, <1>4, NoOwnerYet
  <2>2. None \in surv["marker"]
    BY <1>4 DEF TypeInv, FilesOK, Files
  <2>3. answer[id] # "incomplete"
    BY <1>3, NoneAssumption DEF Answers
  <2> QED
    BY <1>1, <1>9, <2>1, <2>2, <2>3 DEF BInv, AnswerTruthful, NetdLeaves
<1>15. ASSUME ~overlapped'
       PROVE  AloneInv' /\ CommitInv' /\ OwnerInv'
  <2>1. AloneInv /\ CommitInv /\ overlapped' = overlapped
    BY <1>1, <1>15 DEF BInv, NetdLeaves
  <2>2. AloneInv'
    BY <1>1, <1>3, <1>7, <2>1 DEF AloneInv, NetdLeaves
  <2>3. /\ surv["desired"] = {netd.req} /\ surv["marker"] = {None}
        /\ surv["identity"] = {id} /\ surv["hostname"] = {netd.req.host}
        /\ vis["identity"] = id /\ vis["hostname"] = netd.req.host /\ vis["desired"] = netd.req
    BY <1>1, <2>1 DEF CommitInv, TypeInv, FilesOK, Files
  <2>4. /\ surv'["desired"] = {netd.req}
        /\ surv'["identity"] = {id} /\ surv'["hostname"] = {netd.req.host}
    BY <1>5, <1>9, <2>3 DEF Synced
  <2>5. /\ ~ok => surv'["marker"] = {None, vis'["marker"]}
        /\ surv'["marker"] \subseteq {None, id}
        /\ vis'["marker"] = None => surv'["marker"] = {None}
    BY <1>4, <1>5, <1>9, <2>3
  <2>6. CommitInv'
    BY <1>5, <1>6, <1>7, <1>9, <2>3, <2>4, <2>5 DEF CommitInv, Unconfirmed, OwnedLabels
  <2>7. Complete(id)'
    BY <1>3, <2>4 DEF Complete
  <2>8. OwnerInv'
    BY <1>3, <1>9, <2>5, <2>7 DEF OwnerInv
  <2> QED
    BY <2>2, <2>6, <2>8
<1> QED
  BY <1>8, <1>11, <1>12, <1>13, <1>14, <1>15 DEF BInv

(* A marker that may not be durable is synced, or found not to be.         *)
LEMMA ConfirmMarkerStep ==
  ASSUME TypeInv, BInv, ConfirmMarker
  PROVE  TypeInv' /\ BInv'
<1>1. netd.pc = "confirm" /\ UNCHANGED <<vis, live, answer, NetdLeaves>>
  BY DEF ConfirmMarker
<1>2. /\ Bootstrapping /\ netd.req \in Requests /\ netd.req.id \in Ids /\ netd.req.id # None
      /\ vis["attempt"] = netd.req /\ vis["attempt"] # None
  BY <1>1, CommitMode DEF Unconfirmed
<1>3. /\ vis["marker"] \in {None, netd.req.id} /\ surv["ready"] = {None} /\ vis["ready"] = None
      /\ vis["marker"] = None => netd.req.id \notin surv["marker"]
  BY <1>1 DEF BInv, MarkerInv, Unconfirmed, TypeInv, FilesOK, Files
<1>4. PICK l \in {"services", "uncommit"} :
        /\ NetdGoes(l)
        /\ l = "services" => /\ vis["marker"] # None /\ used' = used
                             /\ surv' = [f \in Files |-> {vis[f]}]
        /\ l = "uncommit" => /\ surv' = surv
                             /\ vis["marker"] = None \/ Spend("fault")
                             /\ vis["marker"] = None => used' = used
  BY DEF ConfirmMarker
<1>5. /\ used' \in [Events -> Nat] /\ Failed \in Nat /\ Failed' \in Nat /\ Failed' >= Failed
      /\ l = "uncommit" /\ vis["marker"] # None => Failed' = Failed + 1
  <2>1. used \in [Events -> Nat] /\ Failed \in Nat
    BY FailedNat DEF TypeInv, ValuesOK
  <2>2. CASE used' = used /\ (l = "services" \/ vis["marker"] = None)
    BY <2>1, <2>2 DEF Failed
  <2>3. CASE Spend("fault") /\ l = "uncommit"
    BY <2>1, <2>3, SpendEffect DEF Events, Failures
  <2> QED
    BY <1>4, <2>2, <2>3
<1>6. /\ NetdOK' /\ netd'.mode = "bootstrap" /\ netd'.pc = l /\ netd'.req = netd.req
      /\ Bootstrapping'
  BY <1>1, <1>4, CommitGoes DEF BootstrapLabels, Unconfirmed, OwnedLabels
<1>7. /\ "marker" \in Files /\ "ready" \in Files /\ "identity" \in Files
      /\ "hostname" \in Files /\ "desired" \in Files
  BY DEF Files
<1>8. /\ \A g \in Files : surv'[g] = IF l = "services" THEN {vis[g]} ELSE surv[g]
      /\ DOMAIN surv' = Files /\ \A g \in Files : vis[g] \in surv[g]
  BY <1>4 DEF TypeInv, FilesOK
<1>9. TypeInv'
  <2>1. FilesOK'
    BY <1>1, <1>8 DEF TypeInv, FilesOK
  <2> QED
    BY <1>1, <1>5, <1>6, <2>1 DEF TypeInv, UiOK, ValuesOK, NetdLeaves
<1>10. surv'["marker"] \subseteq surv["marker"]
  BY <1>7, <1>8
<1>11. MarkerInv'
  BY <1>1, <1>2, <1>3, <1>4, <1>6, <1>7, <1>8
     DEF BInv, MarkerInv, ServicesOnlyOwned, BeforeCommit, Unconfirmed, OwnedLabels,
         Recovery, Removals
<1>12. RequestInv'
  BY <1>1, <1>2, <1>6, <1>9, <1>10, RequestKept
     DEF BInv, BeforeCommit, Recovery, Removals
<1>13. UndoInv'
  BY <1>1, <1>2, <1>6 DEF BInv, UndoInv, Recorded, Removals
<1>14. AnswerTruthful'
  BY <1>1, <1>9, <1>10, AnswersKept DEF BInv, NetdLeaves
<1>15. ASSUME ~overlapped'
       PROVE  AloneInv' /\ CommitInv' /\ OwnerInv'
  <2>1. CommitInv /\ overlapped' = overlapped
    BY <1>1, <1>15 DEF BInv, NetdLeaves
  <2>2. AloneInv'
    BY <1>1, <1>2, <1>6, <1>15, AloneKept DEF BInv
  <2>3. /\ surv["desired"] = {netd.req} /\ surv["marker"] = {None, vis["marker"]}
        /\ surv["identity"] = {vis["identity"]} /\ surv["hostname"] = {vis["hostname"]}
        /\ vis["identity"] = netd.req.id /\ vis["hostname"] = netd.req.host
        /\ vis["desired"] = netd.req /\ Failed >= 1
    BY <1>1, <1>7, <1>8, <2>1 DEF CommitInv, Unconfirmed
  <2>4. /\ surv'["desired"] = {netd.req}
        /\ surv'["identity"] = {vis["identity"]} /\ surv'["hostname"] = {vis["hostname"]}
    BY <1>7, <1>8, <2>3
  <2>5. CommitInv'
    BY <1>1, <1>4, <1>5, <1>6, <1>7, <1>8, <2>3, <2>4 DEF CommitInv, Unconfirmed, OwnedLabels
  <2>6. CompleteStays
    BY <1>1, <1>8, CompleteKept DEF OwnFiles, Files
  <2>7. RepliesKept /\ ~Held
    BY <1>1, <1>2 DEF RepliesKept, Held
  <2>8. OwnerInv'
    BY <1>1, <1>5, <1>9, <1>10, <1>15, <2>6, <2>7, OwnershipKept DEF BInv, NetdLeaves
  <2> QED
    BY <2>2, <2>5, <2>8
<1> QED
  BY <1>9, <1>11, <1>12, <1>13, <1>14, <1>15 DEF BInv


(* A marker that could not be made durable is removed.                     *)
LEMMA UncommitMarkerStep ==
  ASSUME TypeInv, BInv, UncommitMarker
  PROVE  TypeInv' /\ BInv'
<1> PICK id : id = netd.req.id
  OBVIOUS
<1>1. netd.pc = "uncommit" /\ UNCHANGED <<live, NetdLeaves>>
  BY DEF UncommitMarker
<1>2. PICK ok \in BOOLEAN :
        /\ Durable("marker", None, ok)
        /\ IF ok THEN NetdGoes("recover") /\ UNCHANGED answer ELSE Answer("indeterminate")
  BY DEF UncommitMarker
<1>3. /\ Bootstrapping /\ netd.req \in Requests /\ id \in Ids /\ id # None
      /\ answer[id] = None /\ vis["attempt"] = netd.req /\ vis["attempt"] # None
      /\ netd.req = [id |-> id, host |-> netd.req.host] /\ netd.req.host \in Hosts
  BY <1>1, CommitMode DEF Unconfirmed
<1>4. /\ vis["marker"] \in {None, id} /\ surv["ready"] = {None} /\ vis["ready"] = None
      /\ vis["marker"] = None => id \notin surv["marker"]
  BY <1>1 DEF BInv, MarkerInv, Unconfirmed, TypeInv, FilesOK, Files
<1>5. /\ FilesOK' /\ Wrote("marker", None)
      /\ ok => vis'["marker"] = None
      /\ ok /\ vis["marker"] # None => Synced'
      /\ ok /\ vis["marker"] = None => surv' = surv
      /\ ~ok => /\ vis["marker"] # None
                /\ \A g \in Files : g # "marker" => surv'[g] = surv[g]
                /\ \/ vis'["marker"] = vis["marker"] /\ surv'["marker"] = surv["marker"]
                   \/ vis'["marker"] = None /\ surv'["marker"] = surv["marker"] \cup {None}
      /\ used' \in [Events -> Nat] /\ Failed \in Nat /\ Failed' \in Nat /\ Failed' >= Failed
      /\ ~ok => Failed' = Failed + 1
  <2>1. "marker" \in Files /\ FilesOK /\ used \in [Events -> Nat]
        /\ None \in Contents["marker"] \cup {None}
    BY DEF Files, TypeInv, ValuesOK
  <2> QED
    BY <1>2, <2>1, DurableEffect
<1>6. AnswersOK
  BY DEF TypeInv, ValuesOK, AnswersOK
<1>7. /\ NetdOK' /\ AnswersOK'
      /\ ok => /\ netd'.mode = "bootstrap" /\ netd'.pc = "recover" /\ netd'.req = netd.req
               /\ Bootstrapping' /\ answer' = answer
      /\ ~ok => netd'.pc = "idle" /\ netd'.mode = "idle" /\ ~Bootstrapping'
  <2>1. CASE ok
    BY <1>1, <1>2, <1>6, <2>1, CommitGoes
       DEF BootstrapLabels, Recovery, Unconfirmed, AnswersOK
  <2>2. CASE ~ok
    BY <1>2, <1>6, <2>2, AnswerEffect DEF Answers, Bootstrapping
  <2> QED
    BY <2>1, <2>2
<1>8. TypeInv'
  BY <1>1, <1>5, <1>7 DEF TypeInv, UiOK, ValuesOK, NetdLeaves, AnswersOK
<1>9. /\ \A g \in Files : g # "marker" => vis'[g] = vis[g]
      /\ "marker" \in Files /\ "ready" \in Files /\ "attempt" \in Files /\ "desired" \in Files
      /\ "identity" \in Files /\ "hostname" \in Files
      /\ vis'["marker"] \in {None, vis["marker"]} /\ surv'["ready"] = {None}
      /\ surv'["marker"] \subseteq surv["marker"] \cup {None}
      /\ ok => vis'["marker"] = None /\ id \notin surv'["marker"]
  <2>1. /\ \A g \in Files : g # "marker" => vis'[g] = vis[g]
        /\ "marker" \in Files /\ "ready" \in Files /\ "attempt" \in Files /\ "desired" \in Files
        /\ "identity" \in Files /\ "hostname" \in Files
        /\ vis'["marker"] \in {None, vis["marker"]}
    BY <1>5 DEF Wrote, Files
  <2>2. CASE ok /\ vis["marker"] # None
    BY <1>3, <1>4, <1>5, <2>1, <2>2 DEF Synced
  <2>3. CASE ok /\ vis["marker"] = None
    BY <1>4, <1>5, <2>1, <2>3
  <2>4. CASE ~ok
    BY <1>4, <1>5, <2>1, <2>4
  <2> QED
    BY <2>1, <2>2, <2>3, <2>4
<1>10. MarkerInv'
  BY <1>7, <1>9
     DEF MarkerInv, ServicesOnlyOwned, BeforeCommit, Unconfirmed, OwnedLabels, Recovery, Removals
<1>11. RequestInv'
  <2>1. CASE ok
    BY <1>1, <1>3, <1>7, <1>8, <1>9, <2>1, RequestKept DEF BInv
  <2>2. CASE ~ok
    <3>1. "indeterminate" \in Answers
      BY DEF Answers
    <3> QED
      BY <1>1, <1>2, <1>3, <1>8, <1>9, <2>2, <3>1, RequestKept DEF BInv
  <2> QED
    BY <2>1, <2>2
<1>12. UndoInv'
  BY <1>1, <1>3, <1>7, <1>9 DEF BInv, UndoInv, Recorded, Removals
<1>13. RepliesKept
  BY <1>2, <1>3, RepliesStay DEF BInv, Answers
<1>14. AnswerTruthful'
  <2>1. \A i \in Ids : answer[i] # "ok"
    BY <1>3, <1>4, NoOwnerYet
  <2>2. ~overlapped => None \in surv["marker"]
    BY <1>1 DEF BInv, CommitInv, Unconfirmed
  <2>3. \A i \in Ids : answer'[i] = answer[i] \/ answer'[i] = "indeterminate"
    BY <1>2 DEF Answer, TypeInv, ValuesOK
  <2>4. \A i \in Ids : i # None
    BY HostsAssumption DEF Ids
  <2>5. overlapped' = overlapped
    BY <1>1 DEF NetdLeaves
  <2>6. ASSUME NEW i \in Ids, answer'[i] = "owned", ~overlapped
        PROVE  FALSE
    BY <2>2, <2>3, <2>6 DEF BInv, AnswerTruthful
  <2> QED
    BY <1>9, <2>1, <2>3, <2>4, <2>5, <2>6 DEF BInv, AnswerTruthful
<1>15. ASSUME ~overlapped'
       PROVE  AloneInv' /\ CommitInv' /\ OwnerInv'
  <2>1. AloneInv /\ CommitInv /\ ~overlapped
    BY <1>1, <1>15 DEF BInv, NetdLeaves
  <2>2. AloneInv' /\ queue' = <<>> /\ ui'.pc \notin UiWork
    BY <1>1, <1>3, <1>7, <2>1 DEF AloneInv, NetdLeaves
  <2>3. CommitInv'
    BY <1>7 DEF CommitInv, Unconfirmed, OwnedLabels
  <2>4. /\ surv["desired"] = {netd.req} /\ surv["marker"] = {None, vis["marker"]}
        /\ surv["identity"] = {id} /\ surv["hostname"] = {netd.req.host}
        /\ vis["marker"] # None => Failed >= 2
    BY <1>1, <2>1 DEF CommitInv, Unconfirmed
  <2>5. CASE ok
    <3>1. surv'["marker"] = {None}
      BY <1>5, <1>9, <2>4, <2>5 DEF Synced
    <3> QED
      BY <1>9, <2>2, <2>3, <2>5, <3>1 DEF OwnerInv
  <2>6. CASE ~ok
    <3>1. vis["marker"] = id /\ surv'["marker"] = {None, id}
      BY <1>3, <1>4, <1>5, <2>4, <2>6
    <3>2. Complete(id)'
      BY <1>3, <1>5, <1>9, <2>4, <2>6 DEF Complete
    <3>3. answer'[id] = "indeterminate"
      BY <1>2, <1>3, <2>6 DEF Answer, TypeInv, ValuesOK
    <3>4. Held'
      <4>1. ui'.pc \in {"idle", "down", "wait"}
        BY <1>8, <2>2 DEF TypeInv, UiOK, UiLabels, UiWork
      <4> QED
        BY <1>3, <1>5, <1>7, <1>9, <2>2, <2>4, <2>6, <3>1, <4>1 DEF Held
    <3> QED
      BY <1>3, <1>9, <2>2, <2>3, <3>1, <3>2, <3>3, <3>4 DEF OwnerInv
  <2> QED
    BY <2>5, <2>6
<1> QED
  BY <1>8, <1>10, <1>11, <1>12, <1>14, <1>15 DEF BInv

-----------------------------------------------------------------------------
(* After the commit.                                                       *)

(* A step of netd with the marker durable, whatever the file it writes.    *)
OwnedWrites ==
  \/ UNCHANGED <<vis, surv>>
  \/ \E f \in {"ready", "opt", "attempt"} : \E c \in Contents[f] \cup {None} : Wrote(f, c)

(* It keeps the invariant.                                                 *)
LEMMA OwnedKept ==
  ASSUME TypeInv, BInv, netd.pc \in OwnedLabels, UNCHANGED <<live, NetdLeaves>>, OwnedWrites,
         FilesOK', used' \in [Events -> Nat],
         Failed \in Nat, Failed' \in Nat, Failed' >= Failed,
         \/ answer' = answer /\ \E l \in OwnedLabels : NetdGoes(l)
         \/ \E o \in {"ok", "owned"} : Answer(o)
  PROVE  TypeInv' /\ BInv'
<1> PICK id : id = netd.req.id
  OBVIOUS
<1>1. /\ Bootstrapping /\ netd.req \in Requests /\ id \in Ids /\ id # None
      /\ answer[id] = None
  BY CommitMode
<1>2. /\ "marker" \in Files /\ "ready" \in Files /\ "attempt" \in Files /\ "opt" \in Files
      /\ "identity" \in Files /\ "hostname" \in Files /\ "desired" \in Files
  BY DEF Files
<1>3. surv["marker"] = {id} /\ vis["marker"] = id
  BY <1>2 DEF BInv, MarkerInv, TypeInv, FilesOK
<1>4. /\ vis'["marker"] = id /\ surv'["marker"] = {id}
      /\ \A g \in {"identity", "hostname", "desired"} :
           vis'[g] = vis[g] /\ surv'[g] \in {surv[g], {vis[g]}}
  <2>1. CASE UNCHANGED <<vis, surv>>
    BY <1>3, <2>1
  <2>2. ASSUME NEW f \in {"ready", "opt", "attempt"}, NEW c, Wrote(f, c)
        PROVE  /\ vis'["marker"] = id /\ surv'["marker"] = {id}
               /\ \A g \in {"identity", "hostname", "desired"} :
                    vis'[g] = vis[g] /\ surv'[g] \in {surv[g], {vis[g]}}
    <3>1. \A g \in {"marker", "identity", "hostname", "desired"} :
            vis'[g] = vis[g] /\ surv'[g] \in {surv[g], {vis[g]}}
      BY <1>2, <2>2 DEF Wrote, Synced
    <3> QED
      BY <1>3, <3>1
  <2> QED
    BY <2>1, <2>2 DEF OwnedWrites
<1>5. AnswersOK
  BY DEF TypeInv, ValuesOK, AnswersOK
<1>6. /\ NetdOK' /\ AnswersOK'
      /\ \/ /\ netd'.pc \in OwnedLabels /\ netd'.mode = "bootstrap" /\ netd'.req = netd.req
            /\ Bootstrapping' /\ answer' = answer
         \/ netd'.pc = "idle" /\ netd'.mode = "idle" /\ ~Bootstrapping'
  <2>1. ASSUME NEW l \in OwnedLabels, NetdGoes(l), answer' = answer
        PROVE  /\ NetdOK' /\ AnswersOK' /\ netd'.pc \in OwnedLabels
               /\ netd'.mode = "bootstrap" /\ netd'.req = netd.req /\ Bootstrapping'
    BY <1>5, <2>1, CommitGoes DEF BootstrapLabels, AnswersOK
  <2>2. ASSUME NEW o \in {"ok", "owned"}, Answer(o)
        PROVE  NetdOK' /\ AnswersOK' /\ netd'.pc = "idle" /\ netd'.mode = "idle"
    BY <1>5, <2>2, AnswerEffect DEF Answers
  <2> QED
    BY <2>1, <2>2 DEF Bootstrapping
<1>7. TypeInv'
  BY <1>6 DEF TypeInv, UiOK, ValuesOK, NetdLeaves, AnswersOK
<1>8. MarkerInv'
  BY <1>1, <1>3, <1>4, <1>6
     DEF MarkerInv, ServicesOnlyOwned, BeforeCommit, Unconfirmed, OwnedLabels, Recovery, Removals
<1>9. \A o \in {"ok", "owned"} : o \in Answers
  BY DEF Answers
<1>10. RequestInv'
  <2>1. CASE answer' = answer /\ \E l \in OwnedLabels : NetdGoes(l)
    <3>1. /\ netd'.pc \in OwnedLabels /\ netd'.mode = "bootstrap" /\ netd'.req = netd.req
          /\ netd'.pc \notin BeforeCommit \cup Recovery
      BY <2>1, CommitGoes DEF OwnedLabels, BootstrapLabels, BeforeCommit, Recovery, Removals
    <3> QED
      BY <1>1, <1>3, <1>4, <1>7, <2>1, <3>1, RequestKept DEF BInv
  <2>2. CASE \E o \in {"ok", "owned"} : Answer(o)
    BY <1>1, <1>3, <1>4, <1>7, <1>9, <2>2, RequestKept DEF BInv
  <2> QED
    BY <2>1, <2>2
<1>11. UndoInv'
  BY <1>1, <1>4, <1>6 DEF UndoInv, Recorded, Removals, OwnedLabels
<1>12. RepliesKept
  BY <1>1, <1>9, RepliesStay DEF BInv
<1>13. AnswerTruthful'
  <2>1. CASE answer' = answer
    BY <1>3, <1>4, <1>7, <2>1, AnswersKept DEF BInv, NetdLeaves
  <2>2. ASSUME NEW o \in {"ok", "owned"}, Answer(o)
        PROVE  AnswerTruthful'
    <3>1. /\ surv'["marker"] \subseteq surv["marker"] /\ surv'["marker"] = {netd.req.id}
          /\ None \notin surv'["marker"] /\ o # "incomplete"
      BY <1>1, <1>3, <1>4
    <3> QED
      BY <1>1, <1>7, <1>9, <2>2, <3>1, AnswerAdded DEF BInv, NetdLeaves
  <2> QED
    BY <2>1, <2>2
<1>14. ASSUME ~overlapped'
       PROVE  AloneInv' /\ CommitInv' /\ OwnerInv'
  <2>1. AloneInv /\ CommitInv /\ OwnerInv /\ ~overlapped
    BY <1>14 DEF BInv, NetdLeaves
  <2>2. AloneInv'
    BY <1>1, <1>3, <1>4, <1>6, <1>14, <2>1, AloneKept DEF OwnedLabels
  <2>3. /\ surv["desired"] = {netd.req} /\ vis["desired"] = netd.req
        /\ surv["identity"] = {vis["identity"]} /\ surv["hostname"] = {vis["hostname"]}
        /\ vis["identity"] = id /\ vis["hostname"] = netd.req.host
    BY <1>2, <2>1 DEF CommitInv, TypeInv, FilesOK
  <2>4. CommitInv'
    BY <1>4, <1>6, <2>3 DEF CommitInv, OwnedLabels, Unconfirmed
  <2>5. CompleteStays
    <3>1. \A g \in OwnFiles : /\ vis'[g] = vis[g]
                              /\ surv'[g] \in {surv[g], surv[g] \cup {vis[g]}, {vis[g]}}
      BY <1>4 DEF OwnFiles
    <3> QED
      BY <3>1, CompleteKept
  <2>6. OwnerInv'
    BY <1>1, <1>3, <1>4, <1>7, <1>12, <2>1, <2>5, OwnershipKept
  <2> QED
    BY <2>2, <2>4, <2>6
<1> QED
  BY <1>7, <1>8, <1>10, <1>11, <1>13, <1>14 DEF BInv

(* The LAN services, their readiness, and what goes after the commit.      *)
LEMMA OwnedStep ==
  ASSUME TypeInv, BInv, PublishServices \/ ServicesReady \/ CleanOpt \/ CleanAttempt
  PROVE  TypeInv' /\ BInv'
<1>1. FilesOK /\ used \in [Events -> Nat] /\ Failed \in Nat
  BY FailedNat DEF TypeInv, ValuesOK
<1>2. CASE PublishServices
  <2>1. PICK ok \in BOOLEAN :
          /\ Try(ok)
          /\ IF ok THEN NetdGoes("ready") /\ UNCHANGED answer ELSE Answer("owned")
    BY <1>2 DEF PublishServices
  <2>2. netd.pc \in OwnedLabels /\ UNCHANGED <<vis, surv, live, NetdLeaves>>
    BY <1>2 DEF PublishServices, OwnedLabels
  <2>3. FilesOK'
    BY <1>1, <2>2 DEF FilesOK
  <2>4. used' \in [Events -> Nat] /\ Failed' \in Nat /\ Failed' >= Failed
    BY <1>1, <2>1, TryEffect
  <2>5. "ready" \in OwnedLabels
    BY DEF OwnedLabels
  <2> QED
    BY <1>1, <2>1, <2>2, <2>3, <2>4, <2>5, OwnedKept DEF OwnedWrites
<1>3. ASSUME NEW f \in {"ready", "opt", "attempt"}, NEW c \in Contents[f] \cup {None},
             NEW ok \in BOOLEAN, Durable(f, c, ok)
      PROVE  /\ FilesOK' /\ OwnedWrites
             /\ used' \in [Events -> Nat] /\ Failed' \in Nat /\ Failed' >= Failed
  <2>1. f \in Files
    BY DEF Files
  <2> QED
    BY <1>1, <1>3, <2>1, DurableEffect DEF OwnedWrites
<1>4. CASE ServicesReady
  <2>1. PICK ok \in BOOLEAN : Durable("ready", "ready", ok)
    BY <1>4 DEF ServicesReady
  <2>2. /\ netd.pc \in OwnedLabels /\ "unopt" \in OwnedLabels
        /\ UNCHANGED <<live, NetdLeaves>>
    BY <1>4 DEF ServicesReady, OwnedLabels
  <2>3. /\ FilesOK' /\ OwnedWrites
        /\ used' \in [Events -> Nat] /\ Failed' \in Nat /\ Failed' >= Failed
    BY <2>1, <1>3, ContentsAre
  <2> QED
    BY <1>1, <1>4, <2>2, <2>3, OwnedKept DEF ServicesReady
<1>5. CASE CleanOpt
  <2>1. PICK ok \in BOOLEAN : Durable("opt", None, ok)
    BY <1>5 DEF CleanOpt
  <2>2. /\ netd.pc \in OwnedLabels /\ "unattempt" \in OwnedLabels
        /\ UNCHANGED <<live, NetdLeaves>>
    BY <1>5 DEF CleanOpt, OwnedLabels
  <2>3. /\ FilesOK' /\ OwnedWrites
        /\ used' \in [Events -> Nat] /\ Failed' \in Nat /\ Failed' >= Failed
    BY <2>1, <1>3
  <2> QED
    BY <1>1, <1>5, <2>2, <2>3, OwnedKept DEF CleanOpt
<1>6. CASE CleanAttempt
  <2>1. PICK ok \in BOOLEAN : Durable("attempt", None, ok)
    BY <1>6 DEF CleanAttempt
  <2>2. netd.pc \in OwnedLabels /\ UNCHANGED <<live, NetdLeaves>>
    BY <1>6 DEF CleanAttempt, OwnedLabels
  <2>3. /\ FilesOK' /\ OwnedWrites
        /\ used' \in [Events -> Nat] /\ Failed' \in Nat /\ Failed' >= Failed
    BY <2>1, <1>3
  <2> QED
    BY <1>1, <1>6, <2>2, <2>3, OwnedKept DEF CleanAttempt
<1> QED
  BY <1>2, <1>4, <1>5, <1>6

-----------------------------------------------------------------------------
(* Every step.                                                             *)

(* At the start of the system nothing is owned.                            *)
LEMMA BInvInit == Init => BInv
<1> SUFFICES ASSUME Init PROVE BInv
  OBVIOUS
<1>1. /\ vis = [f \in Files |-> None] /\ surv = [f \in Files |-> {None}] /\ live = None
      /\ netd.pc = "start" /\ netd.mode = "start" /\ queue = <<>> /\ ui.pc = "down"
      /\ answer = [i \in Ids |-> None] /\ ~Bootstrapping
  BY DEF Init, StartMode, Bootstrapping
<1>2. /\ "marker" \in Files /\ "ready" \in Files /\ "attempt" \in Files /\ "desired" \in Files
  BY DEF Files
<1>3. \A i \in Ids : i # None /\ Open(i)
  BY <1>1, <1>2, HostsAssumption DEF Open, Ids
<1>4. MarkerInv
  BY <1>1, <1>2
     DEF MarkerInv, ServicesOnlyOwned, BeforeCommit, Unconfirmed, OwnedLabels, Recovery, Removals
<1>5. RequestInv
  BY <1>1, <1>3 DEF RequestInv, UiWork
<1>6. UndoInv
  BY <1>1, <1>2, NoneAssumption DEF UndoInv, Recorded, Removals
<1>7. AnswerTruthful
  BY <1>1, NoneAssumption DEF AnswerTruthful, Answers
<1>8. AloneInv /\ CommitInv
  BY <1>1, <1>2 DEF AloneInv, CommitInv, UiWork, Unconfirmed, OwnedLabels
<1>9. OwnerInv
  BY <1>1, <1>2 DEF OwnerInv
<1> QED
  BY <1>4, <1>5, <1>6, <1>7, <1>8, <1>9 DEF BInv

(* A step that changes nothing.                                            *)
LEMMA StutterStep ==
  ASSUME TypeInv, BInv, UNCHANGED vars
  PROVE  TypeInv' /\ BInv'
<1> USE DEF vars
<1>1. TypeInv'
  BY DEF TypeInv, FilesOK, NetdOK, UiOK, ValuesOK
<1>2. MarkerInv' /\ UndoInv' /\ AnswerTruthful' /\ (~overlapped => CommitInv')
  BY FailedNat, NetdPartsKept DEF BInv, Failed
<1>3. RequestInv'
  BY DEF BInv, RequestInv, Open, Bootstrapping
<1>4. ~overlapped => AloneInv' /\ OwnerInv'
  BY DEF BInv, AloneInv, OwnerInv, Held, Exempt, Complete, Failed, Bootstrapping
<1> QED
  BY <1>1, <1>2, <1>3, <1>4 DEF BInv

(* netd's loop turns or netd ends.                                         *)
LEMMA EndStep ==
  ASSUME TypeInv, BInv, Refresh \/ NetdEnds
  PROVE  TypeInv' /\ BInv'
<1>1. UNCHANGED <<vis, surv, live, ui, answer, requests, overlapped>>
  BY DEF Refresh, NetdEnds
<1>2. CASE UNCHANGED <<netd, queue, used>>
  BY <1>1, <1>2, StutterStep DEF vars
<1>3. CASE netd' = StartMode /\ queue' = <<>> /\ \E e \in Failures : Spend(e)
  BY <1>1, <1>3, NetdResetStep
<1> QED
  BY <1>2, <1>3 DEF Refresh, NetdEnds, Failures

(* The invariant is inductive.                                             *)
LEMMA NextStep ==
  ASSUME TypeInv, BInv, [Next]_vars
  PROVE  TypeInv' /\ BInv'
<1>1. CASE Ui \/ UiEnds
  <2>1. UiMoves \/ UiWrites
    BY <1>1 DEF Ui, UiMoves, UiWrites
  <2> QED
    BY <2>1, UiMovesStep, UiWritesStep
<1>2. CASE NetdBoot
  BY <1>2, BootstrapApplyStep, CheckStep, WriteAttemptStep, ProgramStep, PersistStep,
     CommitMarkerStep, ConfirmMarkerStep, UncommitMarkerStep, OwnedStep
     DEF NetdBoot
<1>3. CASE NetdRecovery
  BY <1>3, RecoverStep, ResetNetworkStep, RemoveTentativeStep, ReapplyOptStep, StartStep,
     StartFileStep
     DEF NetdRecovery
<1>4. CASE (\E o \in Opts : SetOpt(o)) \/ WriteOpt \/ SyncOpt
  BY <1>4, SetOptStep, OptFileStep
<1>5. CASE Refresh \/ NetdEnds
  BY <1>5, EndStep
<1>6. CASE PowerLoss
  BY <1>6, PowerLossStep
<1>7. CASE UNCHANGED vars
  BY <1>7, StutterStep
<1> QED
  BY <1>1, <1>2, <1>3, <1>4, <1>5, <1>6, <1>7 DEF Next

(* The invariant holds in every reachable state.                           *)
LEMMA AlwaysInv == Spec => [](TypeInv /\ BInv)
<1>1. Init => TypeInv /\ BInv
  BY TypeInit, BInvInit
<1>2. (TypeInv /\ BInv) /\ [Next]_vars => (TypeInv /\ BInv)'
  BY NextStep
<1> QED
  BY <1>1, <1>2, PTL DEF Spec


(* NetdModes, as sets of labels.                                           *)
LEMMA ModesAre ==
  /\ DOMAIN NetdModes = {"idle", "opt", "start", "bootstrap"}
  /\ NetdModes["idle"] = {"idle"} /\ NetdModes["opt"] = {"writeOpt", "syncOpt"}
  /\ NetdModes["start"] = StartLabels
  /\ NetdModes["bootstrap"] = BootstrapLabels
<1>1. /\ DOMAIN NetdModes = {"idle", "opt", "start", "bootstrap"}
      /\ NetdModes["idle"] = {"idle"} /\ NetdModes["opt"] = {"writeOpt", "syncOpt"}
  BY DEF NetdModes
<1>2. NetdModes["start"] = StartLabels
  BY DEF NetdModes, StartLabels, Recovery, Removals
<1>3. NetdModes["bootstrap"] = BootstrapLabels
  BY DEF NetdModes, BootstrapLabels, Recovery, Removals, BeforeCommit, Unconfirmed, OwnedLabels
<1> QED
  BY <1>1, <1>2, <1>3

-----------------------------------------------------------------------------
(* The theorems.                                                           *)

(* Every variable has its type, netd is in a step of what it is doing (an  *)
(* apply of the first network, a recovery, its start), and what a file     *)
(* shows is among what a power loss may leave of it.                       *)
THEOREM TypeCorrect == Spec => []TypeOK
<1>1. TypeInv => TypeOK
  <2> SUFFICES ASSUME TypeInv PROVE TypeOK
    OBVIOUS
  <2>1. netd.mode \in DOMAIN NetdModes /\ netd.pc \in NetdModes[netd.mode]
    BY ModesAre DEF TypeInv, NetdOK
  <2>2. netd.mode = "bootstrap" => netd.req \in Requests
    BY DEF TypeInv, NetdOK
  <2>3. netd.had \in BOOLEAN
    BY DEF TypeInv, NetdOK
  <2>4. /\ ui.pc \in {"down", "idle", "attempt", "hostname", "create", "write", "subject",
                      "send", "wait", "unhost", "unhostAll", "unidentify"}
        /\ ui.pc \notin {"down", "idle"} => ui.req \in Requests
    BY DEF TypeInv, UiOK, UiLabels
  <2> QED
    BY <2>1, <2>2, <2>3, <2>4 DEF TypeInv, FilesOK, ValuesOK, TypeOK
<1> QED
  BY <1>1, AlwaysInv, PTL

(* A reply of netd stays true over any later failure, recovery and power   *)
(* loss: an acknowledged ownership is durable, and a submission reported   *)
(* as incomplete never turns out to own the appliance, even when others    *)
(* were submitted before netd had ended with it.                           *)
THEOREM AnswersAreTruthful == Spec => []AnswerTruthful
<1>1. BInv => AnswerTruthful
  BY DEF BInv
<1> QED
  BY <1>1, AlwaysInv, PTL

(* set_lan_services_ready follows the confirmation of the marker: whatever *)
(* a power loss leaves, the readiness marker implies recorded ownership.   *)
THEOREM ServicesNeedOwnership == Spec => []ServicesOnlyOwned
<1>1. BInv => ServicesOnlyOwned
  BY DEF BInv, MarkerInv
<1> QED
  BY <1>1, AlwaysInv, PTL

(* recover_incomplete_bootstrap removes the record of an attempt last:     *)
(* where netd is at rest, nobody owns the appliance and no record is left, *)
(* neither the attempt's network nor its Desired state is.                 *)
THEOREM AttemptIsUndone == Spec => []AttemptUndone
<1>1. BInv => AttemptUndone
  BY DEF BInv, UndoInv, AttemptUndone
<1> QED
  BY <1>1, AlwaysInv, PTL

(* The marker is written after the administrator, the hostname and the     *)
(* Desired state of its submission were checked durable, and they stay     *)
(* while it can survive.                                                   *)
THEOREM OwnershipIsAtomic == Spec => []OwnershipAtomic
<1>1. TypeInv /\ BInv => OwnershipAtomic
  <2> SUFFICES ASSUME TypeInv, BInv, ~overlapped, NEW m \in surv["marker"] \ {None}
               PROVE  Complete(m) \/ Exempt(m)
    BY DEF OwnershipAtomic, Exempt, Failed
  <2>1. OwnerInv
    BY DEF BInv
  <2>2. CASE vis["marker"] = None
    BY <2>1, <2>2 DEF OwnerInv, Exempt
  <2>3. CASE vis["marker"] # None
    <3>1. m = vis["marker"]
      BY <2>1, <2>3 DEF OwnerInv
    <3> QED
      BY <2>1, <2>3, <3>1 DEF OwnerInv
  <2> QED
    BY <2>2, <2>3
<1> QED
  BY <1>1, AlwaysInv, PTL
=============================================================================
