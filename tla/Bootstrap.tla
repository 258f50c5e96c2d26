------------------------------ MODULE Bootstrap -------------------------------
(***************************************************************************)
(* Taking ownership of an appliance: a Bootstrap submission of fwos-ui     *)
(* (ui.rs, identity.rs) writes a tentative hostname and administrator and  *)
(* asks netd (netd.rs) to apply the first network and record ownership.    *)
(* netd recovers an incomplete attempt, after a restart too, and serves    *)
(* the console's first-boot addressing until then.  The UI handles one     *)
(* submission at a time but gives up waiting after a minute, so netd may   *)
(* still be working for an earlier one.                                    *)
(*                                                                         *)
(* Files are as in NetdApply: visible content, and the contents a power    *)
(* loss may leave; all are in one directory.                               *)
(***************************************************************************)
EXTENDS Naturals, Sequences

CONSTANTS
  MaxRequests,  \* bound on submissions
  Hosts,        \* hostnames
  Opts,         \* first-boot addressings of the console
  None,
  Limit,        \* bounds on the events of Events
  MaxFailures   \* bound on failing calls and crashes together

Events == {"fault", "crash", "timeout", "opt"}
Failures == {"fault", "crash"}
Ids == 1 .. MaxRequests

Requests == [id: Ids, host: Hosts]
Answers == {"ok", "owned", "incomplete", "indeterminate"}

ASSUME RequestsAssumption == MaxRequests \in Nat
ASSUME HostsAssumption == None \notin Hosts /\ None \notin Opts /\ None \notin Nat
ASSUME NoneAssumption == None \notin Requests /\ None \notin Answers /\ None # "ready"
ASSUME OptsAssumption == Opts \cap Requests = {}
ASSUME LimitAssumption == Limit \in [Events -> Nat] /\ MaxFailures \in Nat

VARIABLES
  vis,        \* visible content of each file
  surv,       \* contents of each file a power loss may leave
  live,       \* the network: nothing, a first-boot opt, or an attempt's
  netd,       \* netd: [pc, mode, req, had]
  queue,      \* requests sent to netd and not accepted yet
  ui,         \* the UI's one Bootstrap submission: [pc, req]
  answer,     \* netd's reply to each submission
  requests,   \* submissions so far; their subjects are random tokens
  overlapped, \* history: a submission began while netd still had another
  used        \* events so far

vars == <<vis, surv, live, netd, queue, ui, answer, requests, overlapped, used>>

(* The marker BOOTSTRAPPED is shown with the submission that wrote it.     *)
Files == {"marker", "identity", "hostname", "desired", "attempt", "opt", "ready"}

Spend(e) ==
  /\ used[e] < Limit[e]
  /\ e \in Failures => used["fault"] + used["crash"] < MaxFailures
  /\ used' = [used EXCEPT ![e] = @ + 1]

Try(ok) == IF ok THEN UNCHANGED used ELSE Spend("fault")

(* durable::write and durable::remove: rename or unlink, then sync the     *)
(* directory; removing what is not there does nothing.                     *)
Durable(f, c, ok) ==
  \/ ok /\ c = None /\ vis[f] = None /\ UNCHANGED <<vis, surv, used>>
  \/ /\ ok /\ (c # None \/ vis[f] # None)
     /\ vis' = [vis EXCEPT ![f] = c]
     /\ surv' = [g \in Files |-> {vis'[g]}]
     /\ UNCHANGED used
  \/ /\ ~ok /\ (c # None \/ vis[f] # None)
     /\ Spend("fault")
     /\ \/ UNCHANGED <<vis, surv>>
        \/ /\ vis' = [vis EXCEPT ![f] = c]
           /\ surv' = [surv EXCEPT ![f] = @ \cup {c}]

-----------------------------------------------------------------------------
(* The UI's submission.                                                    *)

NetdUp == netd.mode # "start"

UiGoes(pc) == ui' = [ui EXCEPT !.pc = pc]
UiIdle == [pc |-> "idle", req |-> None]
UiLeaves == <<live, netd, answer, requests, overlapped>>

(* Work for an earlier submission is still with netd. *)
Outstanding == queue # <<>> \/ netd.mode = "bootstrap"

(* dispatch and bootstrap refuse when netd is not reachable or ownership   *)
(* is recorded.                                                            *)
Submit(h) ==
  /\ ui.pc = "idle" /\ requests < MaxRequests
  /\ vis["marker"] = None /\ NetdUp
  /\ requests' = requests + 1
  /\ ui' = [pc |-> "attempt", req |-> [id |-> requests', host |-> h]]
  /\ overlapped' = (overlapped \/ Outstanding)
  /\ UNCHANGED <<vis, surv, live, netd, queue, answer, used>>

SubmitAttempt ==
  /\ ui.pc = "attempt"
  /\ ui' = IF vis["attempt"] = None THEN [ui EXCEPT !.pc = "hostname"] ELSE UiIdle
  /\ UNCHANGED <<vis, surv, queue, used, UiLeaves>>

SetHostname ==
  /\ ui.pc = "hostname"
  /\ \E ok \in BOOLEAN :
       /\ Durable("hostname", ui.req.host, ok)
       /\ UiGoes(IF ok THEN "create" ELSE "unhost")
  /\ UNCHANGED <<queue, UiLeaves>>

(* create_first_administrator looks at the marker, hashes the password and *)
(* writes.                                                                 *)
CreateFirstAdministrator ==
  /\ ui.pc = "create"
  /\ UiGoes(IF vis["marker"] = None THEN "write" ELSE "unhostAll")
  /\ UNCHANGED <<vis, surv, queue, used, UiLeaves>>

WriteConfiguration ==
  /\ ui.pc = "write"
  /\ \E ok \in BOOLEAN :
       Durable("identity", ui.req.id, ok) /\ UiGoes(IF ok THEN "subject" ELSE "unhostAll")
  /\ UNCHANGED <<queue, UiLeaves>>

(* The request carries the subject read back. *)
TentativeSubject ==
  /\ ui.pc = "subject"
  /\ ui' = IF vis["identity"] = None THEN [ui EXCEPT !.pc = "unhostAll"]
           ELSE [ui EXCEPT !.pc = "send"]
  /\ UNCHANGED <<vis, surv, queue, used, UiLeaves>>

(* What is tentative stays when netd cannot be reached. *)
NetdBootstrap ==
  /\ ui.pc = "send"
  /\ IF NetdUp THEN queue' = Append(queue, ui.req) /\ UiGoes("wait")
               ELSE UNCHANGED queue /\ ui' = UiIdle
  /\ UNCHANGED <<vis, surv, used, UiLeaves>>

(* The error paths remove the tentative files, whatever the error was. *)
Unhost ==
  /\ ui.pc \in {"unhost", "unhostAll"}
  /\ \E ok \in BOOLEAN : Durable("hostname", None, ok)
  /\ ui' = IF ui.pc = "unhost" THEN UiIdle ELSE [ui EXCEPT !.pc = "unidentify"]
  /\ UNCHANGED <<queue, UiLeaves>>

Unidentify ==
  /\ ui.pc = "unidentify"
  /\ \E ok \in BOOLEAN : Durable("identity", None, ok)
  /\ ui' = UiIdle
  /\ UNCHANGED <<queue, UiLeaves>>

(* The reply, the end of the connection or one minute. *)
UiAnswered ==
  /\ ui.pc = "wait"
  /\ LET pending == netd.req = ui.req \/ \E i \in DOMAIN queue : queue[i] = ui.req
     IN IF pending THEN Spend("timeout") ELSE UNCHANGED used
  /\ ui' = UiIdle
  /\ UNCHANGED <<vis, surv, queue, UiLeaves>>

-----------------------------------------------------------------------------
(* netd: bootstrap_apply.                                                  *)

NetdIdle == [pc |-> "idle", mode |-> "idle", req |-> None, had |-> FALSE]
NetdGoes(pc) == netd' = [netd EXCEPT !.pc = pc]
NetdLeaves == <<queue, ui, requests, overlapped>>

Answer(o) == answer' = [answer EXCEPT ![netd.req.id] = o] /\ netd' = NetdIdle

(* Incomplete: fail_bootstrap_attempt follows. *)
Continue(ok, pc) == NetdGoes(IF ok THEN pc ELSE "recover")

BootstrapApply ==
  /\ netd.pc = "idle" /\ queue # <<>>
  /\ netd' = [pc |-> "owned", mode |-> "bootstrap", req |-> Head(queue), had |-> FALSE]
  /\ queue' = Tail(queue)
  /\ UNCHANGED <<vis, surv, live, ui, answer, requests, overlapped, used>>

(* A proposal that netd finds invalid fails like any other attempt. *)
BootstrapOwned ==
  /\ netd.pc = "owned"
  /\ IF vis["marker"] # None THEN Answer("owned")
     ELSE (\E valid \in BOOLEAN : Continue(valid, "subject")) /\ UNCHANGED answer
  /\ UNCHANGED <<vis, surv, live, used, NetdLeaves>>

(* The administrator, then the hostname, before and after the apply. *)
CheckSubject ==
  /\ netd.pc \in {"subject", "subject2"}
  /\ Continue(vis["identity"] = netd.req.id, IF netd.pc = "subject" THEN "host" ELSE "host2")
  /\ UNCHANGED <<vis, surv, live, answer, used, NetdLeaves>>

CheckHostname ==
  /\ netd.pc \in {"host", "host2"}
  /\ Continue(vis["hostname"] = netd.req.host, IF netd.pc = "host" THEN "mark" ELSE "commit")
  /\ UNCHANGED <<vis, surv, live, answer, used, NetdLeaves>>

\* Mutant: the network is programmed before the attempt is recorded.
AttemptUnrecorded ==
  /\ netd.pc = "mark"
  /\ NetdGoes("program")
  /\ UNCHANGED <<vis, surv, live, answer, used, NetdLeaves>>

WriteAttempt ==
  /\ netd.pc = "mark"
  /\ \E ok \in BOOLEAN : Durable("attempt", netd.req, ok) /\ Continue(ok, "program")
  /\ UNCHANGED <<live, answer, NetdLeaves>>

(* apply suspends the opt and programs the network. *)
Program ==
  /\ netd.pc = "program"
  /\ \E ok \in BOOLEAN : Try(ok) /\ Continue(ok, "persist")
  /\ live' = netd.req
  /\ UNCHANGED <<vis, surv, answer, NetdLeaves>>

\* Mutant: an error writing the first Desired state is only logged.
PersistLogged ==
  /\ netd.pc = "persist"
  /\ \E ok \in BOOLEAN : Durable("desired", netd.req, ok)
  /\ NetdGoes("subject2")
  /\ UNCHANGED <<live, answer, NetdLeaves>>

Persist ==
  /\ netd.pc = "persist"
  /\ \E ok \in BOOLEAN : Durable("desired", netd.req, ok) /\ Continue(ok, "subject2")
  /\ UNCHANGED <<live, answer, NetdLeaves>>

CommitMarker ==
  /\ netd.pc = "commit"
  /\ \E ok \in BOOLEAN :
       Durable("marker", netd.req.id, ok) /\ NetdGoes(IF ok THEN "services" ELSE "confirm")
  /\ UNCHANGED <<live, answer, NetdLeaves>>

(* A visible marker only lacks the sync of its directory. *)
ConfirmMarker ==
  /\ netd.pc = "confirm"
  /\ \/ /\ vis["marker"] # None
        /\ surv' = [f \in Files |-> {vis[f]}]
        /\ NetdGoes("services")
        /\ UNCHANGED used
     \/ /\ IF vis["marker"] = None THEN UNCHANGED used ELSE Spend("fault")
        /\ NetdGoes("uncommit")
        /\ UNCHANGED surv
  /\ UNCHANGED <<vis, live, answer, NetdLeaves>>

\* Mutant: a marker that could not be removed counts as incomplete.
UncommitIncomplete ==
  /\ netd.pc = "uncommit"
  /\ \E ok \in BOOLEAN : Durable("marker", None, ok)
  /\ NetdGoes("recover")
  /\ UNCHANGED <<live, answer, NetdLeaves>>

UncommitMarker ==
  /\ netd.pc = "uncommit"
  /\ \E ok \in BOOLEAN :
       /\ Durable("marker", None, ok)
       /\ IF ok THEN NetdGoes("recover") /\ UNCHANGED answer ELSE Answer("indeterminate")
  /\ UNCHANGED <<live, NetdLeaves>>

(* program_lan_services and set_lan_services_ready; errors find the marker *)
(* in place.                                                               *)
PublishServices ==
  /\ netd.pc = "services"
  /\ \E ok \in BOOLEAN :
       /\ Try(ok)
       /\ IF ok THEN NetdGoes("ready") /\ UNCHANGED answer ELSE Answer("owned")
  /\ UNCHANGED <<vis, surv, live, NetdLeaves>>

(* The marker counts once it is visible. *)
ServicesReady ==
  /\ netd.pc = "ready"
  /\ \E ok \in BOOLEAN : Durable("ready", "ready", ok)
  /\ IF vis'["ready"] # None THEN NetdGoes("unopt") /\ UNCHANGED answer ELSE Answer("owned")
  /\ UNCHANGED <<live, NetdLeaves>>

CleanOpt ==
  /\ netd.pc = "unopt"
  /\ \E ok \in BOOLEAN : Durable("opt", None, ok)
  /\ NetdGoes("unattempt")
  /\ UNCHANGED <<live, answer, NetdLeaves>>

CleanAttempt ==
  /\ netd.pc = "unattempt"
  /\ \E ok \in BOOLEAN : Durable("attempt", None, ok)
  /\ Answer("ok")
  /\ UNCHANGED <<live, NetdLeaves>>

-----------------------------------------------------------------------------
(* recover_incomplete_bootstrap, of a failed attempt or at netd's start.   *)

\* Mutant: a failing recovery always ends the process.
RecoveryExits == NetdGoes("start") /\ UNCHANGED answer

(* A failing recovery ends the request, or the process. *)
RecoveryEnds ==
  IF netd.mode = "bootstrap" THEN Answer("incomplete")
                             ELSE NetdGoes("start") /\ UNCHANGED answer

Recover ==
  /\ netd.pc = "recover"
  /\ IF vis["marker"] # None THEN RecoveryEnds
     ELSE /\ netd' = [netd EXCEPT !.pc = IF vis["attempt"] = None THEN "desired" ELSE "reset",
                                  !.had = vis["attempt"] # None]
          /\ UNCHANGED answer
  /\ UNCHANGED <<vis, surv, live, used, NetdLeaves>>

(* All Traffic NICs are locked and only the Host's own rules remain. *)
ResetNetwork ==
  /\ netd.pc = "reset"
  /\ \E ok \in BOOLEAN :
       /\ Try(ok)
       /\ live' = IF ok THEN None ELSE live
       /\ IF ok THEN NetdGoes("desired") /\ UNCHANGED answer ELSE RecoveryEnds
  /\ UNCHANGED <<vis, surv, NetdLeaves>>

(* The order in which tentative files go; the record of the attempt last. *)
RemovalOrder ==
  [desired |-> "identity", identity |-> "hostname", hostname |-> "attempt", attempt |-> "opt"]

RemoveTentative ==
  /\ netd.pc \in DOMAIN RemovalOrder
  /\ \E ok \in BOOLEAN :
       /\ Durable(netd.pc, None, ok)
       /\ IF ok THEN NetdGoes(RemovalOrder[netd.pc]) /\ UNCHANGED answer ELSE RecoveryEnds
  /\ UNCHANGED <<live, NetdLeaves>>

(* The opt is applied again only when the network was reset. *)
ReapplyOpt ==
  /\ netd.pc = "opt"
  /\ \E ok \in BOOLEAN :
       /\ (ok \/ netd.had) /\ Try(ok)
       /\ live' = IF netd.had /\ ok THEN vis["opt"] ELSE live
       /\ IF netd.mode = "bootstrap" THEN Answer("incomplete")
          ELSE NetdGoes(IF ok THEN "first" ELSE "start") /\ UNCHANGED answer
  /\ UNCHANGED <<vis, surv, NetdLeaves>>

-----------------------------------------------------------------------------
(* netd's start.                                                           *)

\* Mutant: a Desired state is taken for an Accepted one.
StartDesired ==
  /\ netd.pc = "start"
  /\ NetdGoes(IF vis["desired"] = None THEN "recover" ELSE "accepted")
  /\ UNCHANGED <<vis, surv, live, answer, used, NetdLeaves>>

Start ==
  /\ netd.pc = "start"
  /\ NetdGoes(IF vis["marker"] = None THEN "recover"
              ELSE IF vis["desired"] # None THEN "accepted" ELSE "first")
  /\ UNCHANGED <<vis, surv, live, answer, used, NetdLeaves>>

(* An owned appliance applies its Accepted state (NetdApply), which        *)
(* discards the opt.                                                       *)
StartAccepted ==
  /\ netd.pc = "accepted"
  /\ \E ok \in BOOLEAN :
       /\ Durable("opt", None, ok)
       /\ live' = IF ok THEN vis["desired"] ELSE live
       /\ NetdGoes(IF ok THEN "repersist" ELSE "start")
  /\ UNCHANGED <<answer, NetdLeaves>>

StartPersist ==
  /\ netd.pc = "repersist"
  /\ \E ok \in BOOLEAN :
       Durable("desired", vis["desired"], ok) /\ NetdGoes(IF ok THEN "republish" ELSE "start")
  /\ UNCHANGED <<live, answer, NetdLeaves>>

StartReady ==
  /\ netd.pc = "republish"
  /\ \E ok \in BOOLEAN : Durable("ready", "ready", ok)
  /\ IF vis'["ready"] = None THEN NetdGoes("start") ELSE netd' = NetdIdle
  /\ UNCHANGED <<live, answer, NetdLeaves>>

(* The guard rules, then the opt; addresses that nothing recorded stay. *)
StartFirstBoot ==
  /\ netd.pc = "first"
  /\ \E ok \in BOOLEAN :
       /\ Try(ok)
       /\ live' = IF ok /\ live \notin Requests THEN vis["opt"] ELSE live
       /\ IF ok THEN netd' = NetdIdle ELSE NetdGoes("start")
  /\ UNCHANGED <<vis, surv, answer, NetdLeaves>>

-----------------------------------------------------------------------------
(* The console's first-boot addressing: apply_opt, then a plain write of   *)
(* the file and a sync of everything.                                      *)

SetOpt(o) ==
  /\ netd.pc = "idle" /\ vis["marker"] = None
  /\ Spend("opt")
  /\ \/ /\ live' = IF live \in Requests THEN live ELSE o
        /\ netd' = [NetdIdle EXCEPT !.pc = "writeOpt", !.mode = "opt", !.req = o]
     \/ /\ live' \in {live} \cup IF live \in Requests THEN {} ELSE {None, o}
        /\ UNCHANGED netd
  /\ UNCHANGED <<vis, surv, answer, NetdLeaves>>

WriteOpt ==
  /\ netd.pc = "writeOpt"
  /\ \/ /\ vis' = [vis EXCEPT !["opt"] = netd.req]
        /\ NetdGoes("syncOpt")
        /\ UNCHANGED used
     \/ /\ Spend("fault")
        /\ vis' = [vis EXCEPT !["opt"] = None] \/ UNCHANGED vis
        /\ netd' = NetdIdle
  /\ surv' = [surv EXCEPT !["opt"] = @ \cup {vis'["opt"], None}]
  /\ UNCHANGED <<live, answer, NetdLeaves>>

SyncOpt ==
  /\ netd.pc = "syncOpt"
  /\ surv' = [f \in Files |-> {vis[f]}]
  /\ netd' = NetdIdle
  /\ UNCHANGED <<vis, live, answer, used, NetdLeaves>>

-----------------------------------------------------------------------------
(* Ends of processes and of the power.                                     *)

StartMode == [pc |-> "start", mode |-> "start", req |-> None, had |-> FALSE]

(* netd's loop turns; refresh_bootstrap_exposure follows the addresses of  *)
(* the opt, and its error ends netd.                                       *)
Refresh ==
  /\ netd.pc = "idle"
  /\ \/ UNCHANGED <<netd, queue, used>>
     \/ /\ vis["desired"] = None /\ vis["marker"] = None /\ vis["opt"] # None
        /\ Spend("fault")
        /\ netd' = StartMode /\ queue' = <<>>
  /\ UNCHANGED <<vis, surv, live, ui, answer, requests, overlapped>>

(* Clients see the end of the connection. *)
NetdEnds ==
  /\ Spend("crash")
  /\ netd' = StartMode
  /\ queue' = <<>>
  /\ UNCHANGED <<vis, surv, live, ui, answer, requests, overlapped>>

(* The lock and the connection go with the process; netd keeps the request. *)
UiEnds ==
  /\ Spend("crash")
  /\ ui' = [pc |-> "down", req |-> None]
  /\ UNCHANGED <<vis, surv, queue, UiLeaves>>

(* wait_netd_ready. *)
UiStarts ==
  /\ ui.pc = "down" /\ (vis["marker"] # None \/ NetdUp)
  /\ ui' = UiIdle
  /\ UNCHANGED <<vis, surv, queue, used, UiLeaves>>

PowerLoss ==
  /\ Spend("crash")
  /\ vis' \in [marker: surv["marker"], identity: surv["identity"], hostname: surv["hostname"],
              desired: surv["desired"], attempt: surv["attempt"], opt: surv["opt"],
              ready: surv["ready"]]
  /\ surv' = [f \in Files |-> {vis'[f]}]
  /\ live' = None /\ netd' = StartMode /\ queue' = <<>>
  /\ ui' = [pc |-> "down", req |-> None]
  /\ UNCHANGED <<answer, requests, overlapped>>

-----------------------------------------------------------------------------

Init ==
  /\ vis = [f \in Files |-> None] /\ surv = [f \in Files |-> {None}]
  /\ live = None
  /\ netd = StartMode /\ queue = <<>>
  /\ ui = [pc |-> "down", req |-> None]
  /\ answer = [i \in Ids |-> None]
  /\ requests = 0 /\ overlapped = FALSE
  /\ used = [e \in Events |-> 0]

Ui ==
  \/ \E h \in Hosts : Submit(h)
  \/ SubmitAttempt \/ SetHostname \/ CreateFirstAdministrator \/ WriteConfiguration
  \/ TentativeSubject \/ NetdBootstrap \/ Unhost \/ Unidentify \/ UiAnswered \/ UiStarts

NetdBoot ==
  \/ BootstrapApply \/ BootstrapOwned \/ CheckSubject \/ CheckHostname \/ WriteAttempt
  \/ Program \/ Persist \/ CommitMarker \/ ConfirmMarker \/ UncommitMarker
  \/ PublishServices \/ ServicesReady \/ CleanOpt \/ CleanAttempt

NetdRecovery ==
  \/ Recover \/ ResetNetwork \/ RemoveTentative \/ ReapplyOpt
  \/ Start \/ StartAccepted \/ StartPersist \/ StartReady \/ StartFirstBoot

Next ==
  \/ Ui \/ NetdBoot \/ NetdRecovery
  \/ (\E o \in Opts : SetOpt(o)) \/ WriteOpt \/ SyncOpt
  \/ Refresh \/ NetdEnds \/ UiEnds \/ PowerLoss

Spec == Init /\ [][Next]_vars

-----------------------------------------------------------------------------
(* Properties.                                                             *)

Contents ==
  [marker |-> Ids, identity |-> Ids, hostname |-> Hosts, desired |-> Requests,
   attempt |-> Requests, opt |-> Opts, ready |-> {"ready"}]

NetdModes ==
  [idle |-> {"idle"}, opt |-> {"writeOpt", "syncOpt"},
   start |-> {"start", "recover", "reset", "desired", "identity", "hostname", "attempt", "opt",
              "first", "accepted", "repersist", "republish"},
   bootstrap |-> {"owned", "subject", "host", "mark", "program", "persist", "subject2", "host2",
                  "commit", "confirm", "uncommit", "services", "ready", "unopt", "unattempt",
                  "recover", "reset", "desired", "identity", "hostname", "attempt", "opt"}]

(* Every variable has its type, netd is in a step of what it does, and     *)
(* what is visible may survive.                                            *)
TypeOK ==
  /\ DOMAIN vis = Files /\ DOMAIN surv = Files
  /\ \A f \in Files : vis[f] \in surv[f] /\ surv[f] \subseteq Contents[f] \cup {None}
  /\ live \in Requests \cup Opts \cup {None}
  /\ netd.mode \in DOMAIN NetdModes /\ netd.pc \in NetdModes[netd.mode]
  /\ netd.mode = "bootstrap" => netd.req \in Requests
  /\ netd.had \in BOOLEAN
  /\ queue \in Seq(Requests)
  /\ ui.pc \in {"down", "idle", "attempt", "hostname", "create", "write", "subject", "send",
                 "wait", "unhost", "unhostAll", "unidentify"}
  /\ ui.pc \notin {"down", "idle"} => ui.req \in Requests
  /\ answer \in [Ids -> Answers \cup {None}]
  /\ requests \in 0 .. MaxRequests /\ overlapped \in BOOLEAN
  /\ used \in [Events -> Nat]

(* The administrator, the hostname and the network are those of the one    *)
(* submission m, whatever a power loss leaves.                             *)
Complete(m) ==
  /\ surv["identity"] = {m}
  /\ \E h \in Hosts : surv["hostname"] = {h} /\ surv["desired"] = {[id |-> m, host |-> h]}

(* Whatever a power loss leaves, an appliance that is owned has the        *)
(* administrator, the hostname and the network of the one submission that  *)
(* took it, when each submission waited for netd to end with the earlier   *)
(* one.  Only a fifth failure can part them, after the reply "Bootstrap    *)
(* marker indeterminate": the marker of that submission may survive in     *)
(* part while its other files are recovered.                               *)
OwnershipAtomic ==
  ~overlapped => \A m \in surv["marker"] \ {None} :
    Complete(m) \/ (answer[m] = "indeterminate" /\ used["fault"] + used["crash"] > 4)

(* netd's replies stay true over a power loss: "ok" is durable, a          *)
(* submission called incomplete never owns the appliance afterwards, and   *)
(* "ownership is recorded" is durable unless submissions overlapped, when  *)
(* it may rest on a marker that was indeterminate.                         *)
AnswerTruthful ==
  \A i \in Ids :
    /\ answer[i] = "ok" => surv["marker"] = {i}
    /\ answer[i] = "owned" /\ ~overlapped => None \notin surv["marker"]
    /\ answer[i] = "incomplete" => i \notin surv["marker"]

(* "Incomplete attempts must not start LAN services": the readiness marker *)
(* exists only where ownership is durable, even after a power loss.        *)
ServicesOnlyOwned ==
  surv["ready"] # {None} => None \notin surv["marker"]

(* Once netd has dealt with an attempt and its record is gone, nothing of  *)
(* its network is left on an appliance that is not owned.  (Overlapping    *)
(* submissions are left out: the record of a second attempt replaces that  *)
(* of a first one whose recovery failed, and with it the names of its VLAN *)
(* links.)                                                                 *)
AttemptUndone ==
  ~overlapped /\ netd.mode = "idle" /\ vis["marker"] = None /\ vis["attempt"] = None =>
    live \notin Requests /\ vis["desired"] = None

(* "Completed ownership always requires explicit authenticated account     *)
(* operations, never this function": the administrator that netd recorded  *)
(* as owner is neither replaced nor removed by another submission.         *)
OwnerKept ==
  [][vis["marker"] # None /\ vis'["marker"] = vis["marker"] /\ vis["identity"] = vis["marker"]
       => vis'["identity"] = vis["identity"]]_vars
=============================================================================
