# TLA+ verification of fwos

fwos is a firewall appliance. Its Rust programs keep one *Accepted Desired
state* of the network, change it transactionally, update the Host image with
automatic rollback, and let administrators work on both. This directory holds
TLA+ models of those programs, TLC configurations that check them on small
instances, and TLAPS proofs of the central invariants for every instance.

## Inventory

| Component | Source | State | Operations |
|---|---|---|---|
| netd: Desired state transaction | `netd.rs`, `durable.rs` | `desired.toml`, the apply journal, the retained predecessor, the attribution file, the LAN readiness marker; `RECOVERY_REQUIRED`; the kernel's network and nftables ruleset | apply, confirm, restore-previous, expire, rollback of a failed apply, recovery of an interrupted one, startup |
| netd: LAN service handshake | `netd.rs` | readiness marker (a generation), result file written by the Host | publish, wait, restoration status |
| netd: pre-update restoration | `netd.rs` | preserved state, restoration request and outcome | preserve, discard, restore at startup |
| netd: Bootstrap | `netd.rs` | Bootstrapped marker, tentative files, first-boot opt | bootstrap apply, commit, recovery of an incomplete one |
| netd: IPv6 and resolvers | `netd.rs`, `ra.rs`, `fwd_resolvers.rs` | delegated prefixes, advertiser and RDNSS lifetimes | refresh, advertise, follow resolvers |
| netd: validation, rules | `netd.rs`, `network.rs` | none | validate, nft rules |
| fwos-update | `update.rs`, `host_update.rs`, `host_image.rs` | update record, pending health record, outcome, manual rollback record, the operation mutex; bootc's deployments | stage, reboot, manual rollback, health, accept, restore-check |
| identity | `identity.rs` | account file with credential versions | authenticate, authorize, create, change password, remove |
| fwos-ui: drafts and sections | `ui.rs` | one Draft file and one lock per administrator | save, apply, reconcile, import; eight applies of one section |
| fwos-ui: sessions | `ui.rs` | sessions, busy lock of the login | login, logout, Bootstrap submission |
| console | `console.rs` | none | serial menus over netd, identity and fwos-update |
| network startup (fwos-fwd-setup) | `main.rs`, `network_startup.rs`, `network.rs` | none of its own: namespaces, veth pairs, addresses, routes and NICs in the kernel | one run, from the namespaces to the claim of the Traffic NICs |
| values and types | `bootstrap_values.rs`, `desired.rs`, `lib.rs` | none | parsing, data types |

How they interact: fwos-ui, console and fwos-update send one JSON command per
connection to netd's socket; netd is a single thread, so commands are serialised
with its own timers. netd talks to the Host's LAN service reconciler through two
files (marker and result). fwos-update runs a thread per client around one
mutex, calls bootc, and exchanges files with netd across reboots. fwos-ui runs a
thread per connection; it alone writes the account file, which netd (during
Bootstrap) and the console read, and it reads netd's `desired.toml` itself when a
Draft is begun. DHCP clients that netd starts write their leases into files that
netd's main loop looks at once a second.

What is hard here: several files must change together although a crash or a
failing `fsync` can fall between any two of them; the network is live before it
is Accepted, with a deadline; a rollback can itself fail half way and be
retried, after a restart too; answers to clients must stay true after a power
loss; results of an earlier generation arrive late; a Host image boots, is
judged and may be rolled back while the files of both Releases live in one
`/var`; a client gives up on an apply that netd still carries out, and the Draft
it came from must be neither lost nor applied again; a lease changes between two
looks at it.

## Modules

| Module | Role |
|---|---|
| `NetdApply` | the Desired state transaction of netd, its recovery and startup, call by call |
| `AcceptedStore` | what that transaction promises: a store that changes by accepting the next revision |
| `MCNetdApply` | finite instances for TLC |
| `NetdApplyProofs` | proofs of type correctness and about the live network, the rules, confirmations and health results |
| `NetdApplyAtomic` | proofs of atomicity, truthful replies and predecessor order, and that the transaction implements `AcceptedStore` |
| `HostUpdate` | fwos-update's controller, health and restore-check with bootc and netd's preserved network, over reboots |
| `HostUpdateProofs` | proofs of all properties of its passing runs |
| `Bootstrap` | taking ownership: the UI's submission and netd's first apply, commit and recovery |
| `BootstrapProofs` | proofs of all properties of `Bootstrap` |
| `Accounts` | administrators, sessions and logins of fwos-ui and the console |
| `AccountsProofs` | proofs of all properties of `Accounts` |
| `Sections` | what an edit of each section stores in a complete Desired state |
| `Drafts` | fwos-ui's Drafts, reviews, imports and applies against netd's backlog |
| `SectionsProofs` | what an edit of a section leaves alone, and the induction this needs |
| `DraftsProofs` | proofs of all properties of `Drafts`: none is lost, forgotten or applied twice, and none undoes what others changed |
| `Ipv6Runtime` | delegated prefixes, Router Advertisements and learned resolvers, over leases, applies and restarts |
| `Ipv6RuntimeProofs` | proof of the types, the limit of the published resolvers among them |
| `MCHostUpdate`, `MCBootstrap`, `MCAccounts`, `MCDrafts`, `MCIpv6Runtime` | finite instances for TLC |

### NetdApply

A durable file `f` has a visible content `vis[f]` and a set `surv[f]` of contents
a power loss may leave. `Durable` is `durable::write` and `durable::remove`:
write a temporary file, rename, sync the directory. It can fail before the rename
(nothing changed) or after it (visible, not known durable). A later successful
sync of the same directory makes the earlier renames durable too; this is the
one property of the filesystem that is assumed.

`pc` names the call netd makes next, so that every call which can fail or be
interrupted is an action; a request's guards and early returns are in the action
that begins it (`ApplyDesired`, `RestorePrevious`, `ConfirmApply`), and a refused
request changes nothing. The apply is `Retain` (write the journal), `Suspend`,
`ProgramProposed`, `PublishServices`, `AwaitServices`, then either `Pend` or the
writes `PersistProposed`, `PersistPredecessor`, `WriteAttribution`, `Commit`,
`Clean`. `restore_failed_apply` and `recover_interrupted_apply` take the same
steps, `Guard` to `ReopenRestoredForwarding`; `mode` tells which of them runs,
because the first restores what the apply found and collects failures while the
second restores what the journal retains and stops at the first. `run()` is
`StartInterrupted` (then recovery) or `StartApply` to `StartClean`.

`op` records what the last transaction found (`before`) and proposes (`after`):
the local variables of the request, kept after it so that properties can refer
to them. `reply` is the outcome told to the client.

The network is abstracted to which policy is programmed (`Mixed` after a call
that failed on the way), the IPv4 addresses on the LAN and UI interfaces (apply()
copies live addresses into a state that has none), and the ruleset's kind: the
ordinary rules, the rules with the forward drop, the fallback that drops
everything, or what the boot installs.

What interleaves with netd: the Host reconciler (`ReconcileStart`,
`ReconcileDone`, external), the deadline, the end of the process between any two
calls (the kernel's state stays) and power loss (every file keeps one of its
surviving contents, independently).

### AcceptedStore

One register holding the Accepted state with its predecessor and attribution,
and `undo`, what a power loss would bring back while a commit is visible but not
durable. `NetdApply` implements it under the mapping `store <- VisibleOutcome`
(what a boot from the visible files would end with) and `undo <- Unsettled`.

### HostUpdate

bootc is external: `dep` holds the booted, staged and rollback deployments and
whether a rollback is queued. A clean reboot activates the staged deployment, a
power loss drops it. The durable records (`UPDATE_RECORD`, `MANUAL_ROLLBACK`,
`UPDATE_OUTCOME`, `RESTORE_PRE_UPDATE`, the preserved network and the restoration
report) change by `Store`, which leaves either content on an error; `PENDING` is
written with a plain `fs::write`, so `pendingDisk` keeps everything a power loss
may leave of it.

The staging thread goes through `StagePreserve`, `StageBefore`, `StageSwitch`,
`StageAfter`, `StageRecord`, `StagePending`; the reboot request through
`RebootRequest`, `RefreshPreUpdate`, `RequestReboot` (the `OPERATION` mutex is
dropped before the reply, as in the code); a manual rollback through
`RollbackRequest`, `RollbackCheck`, `RollbackDecide`, `RollbackRecord`,
`RollbackQueue`, `RollbackForget`, `RollbackClear`. `run_health` is `HealthStart`
to `HealthReboot`, `accept_update` the `Accept*` actions, `run_restore_check`
`RestoreCheck` to `CheckUnrecord`, and netd's part of a boot `NetdStart` to
`NetdUnmark`; the apply inside a restoration is one step, since its own atomicity
is `NetdApply`'s. The controller, the health process and netd may end between any
two calls (`ControllerEnds`, `HealthEnds`, `NetdEnds`), and a `systemctl reboot`
that fails, like a reply that cannot be written, leaves the request undone.

Administrators are not restrained: whoever may stage, `claim_staging` lets them
stage any Release at any moment the mutex is free, on an update boot that health is
still checking and after a reboot was requested too. `Name` gives each Release its
image reference, several may share one: `PENDING` holds a reference and
`pending_is_this_boot` compares references, while the records and bootc hold digests.

`fate`, `pre`, `arrived`, `queuedBy` and `owed` are history. A Release's `fate` as an
update goes from "switched" (the stage has no record yet), "staged" and "booted" to
how it ended ("reported": netd has recorded that its restoration failed); "restaged"
is an update staged while it was the rollback deployment, "unrecorded" one that
booted without a complete staging, "lost" one whose record another staging replaced
or the acceptance of another update removed. `arrived` says from where and how the
booted deployment was reached, whether that left an update's first boot (`first`) and
after how many failing calls (`faults`). `owed` says that the rollback now queued has
not removed `PENDING` (yet, because it failed to, or because a staging thread could
write it again), `arrived.owed` the same of the one this boot was reached by.

Assumed: restore-check ends before the controller and netd start, and netd is up
before health's deadline of 180 s (the systemd units are not in the repository); and
reading a small local file, such as `PENDING`, does not fail.

### Bootstrap

The files of both processes are in one directory and behave as in `NetdApply`.
Each submission is `[id, host]`: the administrator's subject, a random token, is
shown as the number of the submission, and the marker `BOOTSTRAPPED` with the
submission that wrote it. The UI's `Submit` to `UiAnswered` are the calls of
`bootstrap` and `create_first_administrator`, with their error paths `Unhost` and
`Unidentify`; netd's `BootstrapApply` to `CleanAttempt` those of `bootstrap_apply`
and `commit_bootstrap_marker`. `Recover` to `ReapplyOpt` is
`recover_incomplete_bootstrap`, after a failed attempt or at netd's start, and
`Start` to `StartFirstBoot` the rest of that start. `SetOpt`, `WriteOpt`,
`SyncOpt` are the console's first-boot addressing.

The UI handles one submission at a time, but its lock ends with the wait of a
minute, or with the process, while netd still has the request: `overlapped`
remembers that this has happened. Not modelled: the content of the Kea and
Unbound files.

### Accounts

The model starts on an owned appliance with one administrator. Threads of the UI
serve account requests in three steps, each a place where others interleave: the
check of the session (`Request`), the work under `ACCOUNT_WRITE_LOCK`
(`AccountLock`) and the write (`WriteConfiguration`), which can fail before or
after the rename. A login reads the file, checks it again and inserts the
session. Subjects are random tokens, so they are fresh numbers. An
Authentication carries the password it was obtained with, for the property only.
The second authentication source, multi-factor assurance and accounts that are
not administrators exist as types only; nothing creates them.

### Sections and Drafts

`Sections` gives, for an edit of each section, the Desired state after it
(`Store`, which looks interfaces up by `Found`, the first of a name, as `find` does), whether the section takes it (`Fits`) and the parts of the network it
is about (`About`, for the properties). What is kept is where the code can
surprise: the LAN prefix and its pool follow the first LAN, an interface edit
keeps the IPv6 acquisition of what is still a WAN, a blank WireGuard key keeps the
stored one, and a tunnel's route replaces the one to the same destination through
that tunnel. An address stands for its network, a pool for the network it lies in.

`Drafts` has one handler per administrator, because every handler holds its
owner's Draft lock. It opens the Draft (`draft_lock`, then `StableRevision` and
`ReceiptFound` ask netd whether this very version was accepted, or
`DraftRetained`), and then saves, reconciles, imports, applies the Draft or one
edit. What it reads from `desired.toml` is read in the step in which it acts,
unless it has to ask netd first. `apply_draft` and the direct applies put a request
into netd's backlog; `GiveUp` is the client's timeout or a restart of fwos-ui,
and the request stays. Refusals (another version or base, a section that does not
fit, an unwritable file) are the choice `draft_status`. The shared steps of the
direct applies are `DirectApply`.

netd is one thread: `apply_desired_request` takes the next request when nothing is
being applied, `ProgramProposed` to `CommitApply` carry it out, and
`restore_failed_apply`, `RequireRecovery` and `recover_interrupted_apply` end it
otherwise. Its atomicity is `NetdApply`'s; what is kept is that `file`, which
fwos-ui reads, holds the proposal from `ProgramProposed` or `confirm_apply` on,
before it is Accepted. `about` and `clean` of a Draft and a request are history.

A request carries one edit per section and names the Draft it was made for. A
Draft without recorded tunnel edits proposes all of its tunnels, as in the code.
Left out: Drafts that cannot be read, restore-previous (in `NetdApply`).

### Ipv6Runtime

netd's single thread is `pc`: an apply or a start goes through `program_wan_ipv6`,
`ApplyLan` and `ApplyEnds`; a turn of the main loop through `refresh` (the
resolvers, then the prefix is read), `refresh_follows` (the LAN programmed anew if
the prefix changed, then `Advertiser.configure`) and `poll`. The turn is split
because `program_lan_services` reads the prefix file again, and the DHCPv6 client's
script (`dhclient6_script`, external) may write it at any moment. A failing call is
the parameter `f`, so that each error path of `refresh` is a value of it. `Restart`
empties the process's memory; its clients may survive and a reboot clears the LAN
addresses. `rdnss_poll` and `LifetimeEnds` are the resolvers learned from Router
Advertisements on the WANs. Hosts are the prefixes they hold as
valid: an advertisement adds to them, a withdrawal takes away, either may fail to be
sent (which netd only logs, `Advertiser.configure` dropping the link all the same),
and `HostForgets` is the end of the valid lifetime of a prefix nobody advertises.
A client that is stopped gets a signal and is not waited for: its modes stay in
`stopped` until a script it had begun has written its files, or for ever. Left out:
applies that are rolled back, and the refresh standing still during recovery.

## Runs

| Run | Checks |
|---|---|
| `apply` | all safety properties of the transaction, and that it implements `AcceptedStore`: two networks, three revisions, two confirmations, two failing calls and one crash at any point |
| `live` | a pending confirmation is confirmed or rolled back in the end |
| `capture` | finding: recovery persists captured addresses |
| `update` | after which updates the network comes back and to what, which boots health may judge, when it leaves a manual rollback alone, which manual rollbacks are reported |
| `owner` | finding: a manual rollback undoes that of health |
| `bootstrap` | ownership is taken as a whole or not at all, and replies stay true |
| `ownerkept` | finding: a later submission replaces the recorded owner |
| `accounts` | an administrator remains, revocations last, no session outlives its credential |
| `drafts` | no Draft is lost or applied twice, no apply undoes what somebody else changed |
| `tentative` | finding: a Draft begun on a tentative proposal reverts an accepted change |
| `ipv6` | LANs end up advertised with their routed prefixes, their hosts hold these and no other, resolvers follow the WANs |
| `prefix` | finding: a lease that arrives around an apply leaves the LAN unserved |

Properties of `apply`:

* `AtomicOutcome`: on every combination of file contents a power loss can leave,
  the next boot restores all of the state before the last operation or all of
  the state after it.
* `ReplyTruthful`: "accepted", "pending", "restored" and "unchanged" stay true of
  every such combination until the next operation.
* `ServesAccepted`: whenever netd is idle without recovery, the live network and
  the open ruleset are those of the Accepted state, or of the pending proposal.
* `RetryOnlyReopens`: when recovery finds no marker, everything has been restored
  durably, so reopening is all that is left to do.
* `ImplementsStore`: every step is one of `AcceptedStore`, or a stutter.
* `HealthTruthful`: what `restoration_status` reports as restored is the live network
  with the LAN services of this boot: the Accepted one, or the proposal while one
  awaits confirmation. It is not always the Accepted one: see `HealthReportsAccepted` below.
* `PredecessorOlder`, `ConfirmsWhatWasShown`, `ServedBeforeAccepted`,
  `ReopensOnlyAccepted`: see the comment at each.

Properties of `update`, with the exceptions their comments state too; what happens in
each of these is under "Met while modelling":

* `ManualNotUndone`: while `PENDING` names the booted Release, health's rollback never
  swaps a manually queued one back. Staging on the update boot takes `PENDING` away
  (`ManualStands`), and the other way round a manual rollback may undo health's (`owner`).
* `JudgesOnlyUpdates`: without crashes, health rolls back only a boot of an update, or
  one reached by a rollback that had not removed `PENDING` (`owed`).
* `ManualOutcomeTrue`: a manual rollback is reported only where it happened, if at
  most one call failed.
* `RejectedRestored`: the way back from the first boots of an update that was staged
  completely and never found healthy, by health or by hand, ends with the pre-update
  network restored or its failure reported, unless a call fails on the boot it
  leads to, or the record of the update was replaced or taken along
  (`EveryRejectedRestored`).
* `RestoresOnlyRejected`: without failing calls, netd changes the Accepted network on
  its own only after an update that booted and was not accepted, or that was staged
  while it was the rollback deployment (`RestoresOnlyActivated`).
* `RestoresPreUpdateNetwork`: it changes it only to a network Accepted between staging
  the update and booting it.

Properties of `bootstrap`:

* `OwnershipAtomic`: on whatever a power loss leaves, an owned appliance has the
  administrator, hostname and network of one submission.
* `AnswerTruthful`: "ok" is durable, "incomplete" never becomes ownership later.
* `ServicesOnlyOwned`: LAN services are released only where ownership is durable.
* `AttemptUndone`: a finished attempt leaves nothing behind.

Properties of `accounts`:

* `AdministratorRemains`: every surviving account file is readable and has an
  administrator, whoever removes whom at the same time.
* `RevocationLasts`: an acknowledged change or removal is never undone.
* `SessionProvesPassword`: what may act was obtained with the present password.
* `RefusedForGood`: a refused credential is not good again, even for a new account
  of the same name.
* `ChangedByAdministrator`: a change is made only for someone who is an
  administrator in the accounts being replaced.

Properties of `drafts`:

* `AppliedOnce`: no version of a Draft is accepted twice, however often its apply
  is sent again after a lost answer.
* `AcceptedRecognised`: a Draft that was accepted although the answer was lost is
  still known by its receipt, whatever was accepted after it.
* `DraftNotLost`: a Draft disappears only when that very version was accepted.
* `NoLostUpdate`: an apply changes only the parts of the network its administrator
  proposed to change, if its Draft began from a state that was Accepted.

Properties of `ipv6`:

* `AdvertisesRouted`: when leases, applies and failures come to rest, every LAN is
  advertised with exactly the prefixes routed to it.
* `HostsFollow`: in the end the hosts of every LAN hold exactly the prefixes routed to
  it, although a withdrawal or an advertisement could not be sent and a restarted netd
  does not know what it advertised: nothing dropped is advertised again.
* `ResolversFollow`: in the end `fwd-resolv.conf` names the resolvers the WANs have,
  with one exception that its comment states.

Bounds of the transaction. Three revisions let an apply follow an accepted and a rolled-back one, so
that revisions are reused; two confirmation ids let a stale confirmation meet a
new proposal with the same revision; two failures let a rollback fail that a
failure started; one crash can fall inside either. Six generations exceed the
number that can be referred to at once, so a fresh one always exists. `MaxRev`
also stands for `u64::MAX`, whose check the code has.

Bounds of `update`: four Releases behind two references, the installed one sharing its
reference with another (a tag that moved), and two networks; two stagings, two reboots
requested by hand (health's come on top), two manual rollbacks and one change of the
network, any five of these seven; one failing call or one end of a process, health's,
the controller's, netd's or of the power, at any point. Two stagings are what it takes
to stage on an update boot, on the boot a rollback led to, or the rollback deployment;
the second manual rollback is a cancellation or a second one. `owner` has neither
failing calls nor crashes: only legal requests lead to it.

Bounds of `bootstrap`: two submissions, two hostnames, one first-boot addressing,
one timeout, and four failures (at most three failing calls and two crashes): the
write of the marker, its confirmation and its removal can all fail and a power
loss follow. Five failures are not explored by TLC: a lost removal of the marker, a
restart and a failing removal of the Desired state can then bring back a marker
without its state, for a submission whose answer was "indeterminate".
`OwnershipAtomic` names this exception, and the proof shows that it is the only one
for any number of failures.

Bounds of `accounts`: two names, two passwords, two threads, three subjects (a name
can be used again), two versions (the second stands for the largest `u64`, whose
overflow the code checks), one session (the code's limit is 1024), three account
requests, one failing write and one crash. Symmetry over names, passwords,
tokens, threads, hostnames and the like is used in runs of safety properties
only.

Bounds of `drafts`: one administrator with Drafts and one with direct applies, three
revisions, so that a revision is used again after a rollback, three Draft versions
and applies, and two requests in the backlog, so that one that was given up and
its retry wait together. One edit per section, two tunnels, two routes, an
interface edit that moves the LAN prefix and one that removes the WAN. Deadlock is
not checked there because these bounds do stop the model.

Bounds of `ipv6`: two WANs and two LANs, two leases, expiries or late scripts, one
Router Advertisement on a WAN, one apply, one restart and one failing call, any five of
these six in any order; three configurations (a delegated prefix, the same with other
modes and a prefix of its own on the other LAN, a static prefix). `MaxNameservers` is
1 instead of 3, so that the limit bites.

Fairness (`ipv6`): weak fairness of netd's thread as a whole: an apply and
a turn of the loop end, and a turn that is due is run before the next request is
taken; and weak fairness of `HostForgets`, since a valid lifetime is an hour and ends.
Leases, applies, restarts and failures are not fair and finite. `poll` sends on every
turn in the model, in the code at most half a minute later.

Fairness (`live`): weak fairness of netd's own steps, of the expiry in its main
loop, of time, and of the Host reconciler. The main loop calls
`expire_pending_confirmation` on every turn, at most a second apart, so weak
fairness is what it provides; calls fail only finitely often (`MaxFaults`), since
if every recovery failed nothing could be promised. Deadlock is checked: an
idle netd polls.

### Findings

1. `capture`: recovery by journal persists the retained state after `apply()` has
   filled in addresses live on the interface, which can be the rolled-back
   proposal's: the restored state differs from the retained one. The rollback of
   a failed apply in the same process does not have this problem.
2. `owner`: `manual_rollback_step` reads the deployments and `PENDING` before it
   asks whether health has finished. If health queues its rollback in between,
   the request swaps the boot order back to the Release that failed.
3. `ownerkept`: after the UI gave up on a submission that netd still works on, the
   next one can write its administrator over the recorded owner's, or remove it
   in an error path.
4. `tentative`: a Draft is begun from `desired.toml` without asking netd, and during
   an apply that file holds the proposal. When the proposal is rolled back and
   another one is accepted under the same revision, the Draft's base is taken for
   that one and its apply reverts it.
5. `prefix`: `refresh` compares with the prefix it saw last. When an apply or a start
   restarts the DHCPv6 client and the lease arrives before the next turn of the
   loop, nothing looks changed: Kea stays without the prefix that is advertised,
   and after a start the LAN without its address.

Met while modelling and not among the runs:

* `finish_recovery` promises to keep the guard "until the in-flight marker is durably
  gone", but a retry after a failed directory sync looks only at the visible file
  (`GuardedUntilDurable` of `NetdApply` states the promise and does not hold).
* The other claims of the code about updates that do not hold are properties of
  `HostUpdate`, next to that of `owner`; put in its place in `HostUpdateOwner.cfg`, each
  is violated without any failing call or crash:
  * `ManualStands` (`update.rs:351`): `claim_staging` does not ask whether health is still
    checking this boot. Another Release staged on it takes `PENDING`, so that a manual
    rollback does not wait for health, is queued as one of an image, and is swapped back
    by health's own when the boot fails.
  * `EveryRejectedRestored` (`update.rs:1177`): that stage replaces the update record and
    the preserved network as well; when the update it was made on is rejected, nothing
    is restored. And if that update is accepted instead, `accept_update` removes the
    record and `PENDING` of the new one.
  * `RestoresOnlyActivated` (`update.rs:203`): `returned_from_update` compares the booted
    and the rollback deployment with the record. When the Release staged is the rollback
    deployment already and its stage is dropped, by a rollback and its cancellation,
    health's rollback or a loss of power, the two agree although nothing was activated,
    and netd reverts the Accepted network.
  * `UpdatesAreChecked` (`update.rs:322`): the mutex is dropped before the reply to a reboot
    request. A stage that begins then runs into the reboot; its Release boots without
    `PENDING`, and so without a health check.
* `HealthReportsAccepted` of `NetdApply`: `restoration_status` asks whether "this boot
  restored Accepted Desired state and the LAN services it requires" (`netd.rs:610`) and
  never looks at a pending Apply confirmation: over an unconfirmed network, which its
  deadline may yet roll back, it answers `restored: true`, and health accepts the update.
* A crash between `bootc switch` and the update record leaves an update whose
  rejection restores nothing; `PENDING` of an earlier stage that a power loss brings
  back makes a later boot be judged as an update; a failing write of the
  restoration report makes a later start restore again; an "already owned" answer
  under overlapping submissions may rest on a marker that is not durable.
* A reboot that comes between queueing a manual rollback and removing `PENDING`, or a
  removal that fails (which nothing notices), leaves `PENDING` to a boot that was not an
  update's: where it names that Release, or one with the same reference, health judges
  it and may roll it back (`owed`).
* When the resolver file is replaced but its directory sync fails, and the resolvers
  then return to what netd published before, the file keeps the others.
* An address whose deletion fails in `refresh_follows` stays on the LAN, and a netd
  that restarts does not withdraw what its predecessor advertised.

Where one of these is an exception of a property of a run, its comment names it.

Each property of a passing run has a mutant operator (most marked `Mutant:`) before
the definition it changes; TLC finds the property violated when it is used.

## Proofs

* `NetdApplyProofs!TypeCorrect`: `Spec => []TypeOK`. `TypeOK` alone is not inductive:
  a pending journal must carry its proposal and id, a confirmation must leave an
  id, the attribution being written must exist and recovery must find a target
  (`TypeInv`).
* `NetdApplyAtomic!Atomicity`, `Truthfulness`, `PredecessorsOlder`: the three
  invariants for every set of networks, addresses, administrators and every bound
  on revisions, failures and crashes. The inductive invariant `IInv` says, for
  each place in the control, which of "before", "after" or a mixture each file may
  hold and what the journal then must be: while any file may be mixed, every
  surviving journal is in flight and retains "before"; an Accepted or absent
  journal may survive only when all three files agree. It is needed because the
  properties speak of outcomes only, and a step's effect depends on the files
  behind them.

* `AccountsProofs`: all six properties of `Accounts`, for every set of users,
  passwords, tokens and threads and every bound. The inductive invariant says that
  at most one thread writes (`LockInv`); that what it is about to write is a
  readable, non-empty file whose credential versions are not behind those it
  replaces (`Writing`); that every surviving file is ahead of every acknowledged
  revocation (`Unrevoked`), because versions grow and subjects are fresh; and that
  no credential held is ahead of the file (`Proves`). Each operation is reduced to
  one of three shapes, an account added, bumped to its next version or dropped
  (`AddsFacts`, `BumpsFacts`, `DropsFacts`). Steps that leave the file alone share
  one lemma (`QuietStep`): whatever they add to the credentials held comes from the
  file as it is.

* `NetdApplyAtomic!StoreImplemented`: `NetdApply` implements `AcceptedStore`. While a
  transaction runs, every disk a power loss can leave restores the state before it
  (`Before`), until the journal's commit, after which every disk restores the state
  after it (`After`) or, if the commit ended in an error, one of the two. Every call
  but the commits keeps what a client sees or settles it; the commits accept, and
  what they accept is the next revision, attributed as such (`NextRevision`, the
  one conjunct added to the invariant of the other theorems there).

* `NetdApplyProofs`, the rest: `ServesAccepted`, `RetryOnlyReopens`, `ConfirmsWhatWasShown`,
  `HealthTruthful` and the action properties `ServedBeforeAccepted` and
  `ReopensOnlyAccepted`, with no assumption about the proposals. The invariant has
  four parts. `ControlInv`: `recovery_required` is set from the forwarding guard on
  and nowhere else, and each step finds the journal its predecessors left.
  `NetInv`: which network and rules are live at each step, so that a step that
  fails leaves what the recovery assumes; in a recovery, whether all files are
  synced again (`Restored`), which is what a retry that finds no journal rests on.
  `ServiceInv`: what the Host's reconciler works on or reported under the published
  generation is about the live network (`Faithful`); a fresh generation makes this
  vacuous, which is why each publication uses one. `IdInv`: a confirmation id names
  one proposal for ever, although revisions are used again.

* `HostUpdateProofs`: all seven properties of the run `update`, for any Releases,
  references, networks, failing calls, crashes and reboots, and whatever administrators
  stage when. An action changes few of its many
  variables, so each variable has a lemma that says which actions do (`DepMoves`,
  `RecordMoves`, ...), and the lemma of a step (`...Step`) looks at these only.
  `TypeCorrect` needs that what a thread read before its last call is still booted
  (`StageInv`, `RollInv`: only a boot changes it), that restore-check runs alone
  (`CheckInv`) and that a queued rollback has a target (`DepInv`).
  `PreUpdateNetwork`: from the first call of a staging on, what is preserved was
  Accepted since (`PreInv`).
  `ManualUndisturbed`: while `PENDING` names this boot and health may still roll back, no
  rollback is queued by hand, and a request under way has seen that and will be
  refused (`OwnInv`).
  `ManualReported`: the record of a manual rollback names the booted Release and the
  one behind it until restore-check looks at it, and one failing call only delays
  that by a boot (`ManualInv`).
  `OnlyRejected`: while no call fails, `UPDATE_RECORD` never names an accepted update
  that restore-check could take for a rejected one, unless that was staged from behind
  (`StagedInv`), and a restoration that was done cannot be done again with another
  network (`RejectInv`).
  `WayBackRestores` counts the failing calls of the boot only: the record is kept from
  staging to boot and from boot to acceptance unless another replaces it (`RecordInv`),
  so that the boot that goes back finds it, marks the restoration and reports it before
  anything else writes those files (`ReturnInv`).
  `JudgesUpdates`: `PENDING` carries the reference of the booted Release only if that was
  reached by staging or by a rollback that owed its removal; one that does not goes on
  to clear it (`JudgeInv`).

* `BootstrapProofs`: all five invariants of `Bootstrap`, for any numbers of
  submissions, hostnames, failing calls, crashes and timeouts. `MarkerInv`: the
  marker is written once, by a bootstrap that found none. `RequestInv`: submissions
  reach netd at most once and in their order, and one that is not answered has no
  marker, unless netd is committing it. `UndoInv`: an attempt's network and state
  exist only with its record or with the marker. These give `AnswerTruthful`,
  `ServicesOnlyOwned` and `AttemptUndone` also when submissions overlap. Without
  overlap netd works for the UI's only submission (`AloneInv`), the files the commit
  rests on are durable (`CommitInv`), and a marker that may survive though it was
  removed either belongs to a complete ownership or is held back by the record of
  its attempt (`OwnerInv`, `Held`, which counts the failures it takes to get there).
* `SectionsProofs!EditKeepsOthers`: an edit, whatever it carries, leaves a network
  and changes only the parts it is about, whatever the network: names of interfaces
  need not be unique, because the code looks them up by the first of a name, and so
  does the definition of a part. `without`, the `retain` on the routes, is a
  recursive function, and what it returns for a list of any length is proved by
  induction: a least counterexample does not exist, because the library proves `<`
  well-founded on the naturals (`Least`, `UpTo`).

* `DraftsProofs`: all five properties of `Drafts`. For `AppliedOnce`,
  `AcceptedRecognised` and `DraftNotLost` the invariant says that a version names one owner and base, whether it is in a
  Draft, in a backlog or being applied, and that the base of an accepted version
  is behind netd's revision for good (`VersionInv`), so that its request, sent
  again, is refused; that no request is ahead of its owner's Draft or of what its
  handler has read (`BehindInv`); and that an administrator's handler waits for at
  most one request (`WaitInv`), so that an answer belongs to the Draft it removes.
  For `NoLostUpdate` it says of every Draft, every request and every snapshot a
  handler has read that its base is not ahead of netd and, while it is netd's
  revision, the network differs from the Accepted one only in the parts it is about
  (`Sound` in `KInv`). An acceptance makes this vacuous for all older bases
  (`SoundLater`); sections saved or reviewed keep it by `EditKeepsOthers`; a Draft is
  about every tunnel that a reconciliation would carry over (`Tracks`). All of it
  only where the snapshot was Accepted when it was read (`clean`): the run
  `tentative` shows what happens otherwise. `TypeOK` follows from the same invariant
  and the counts (`CountInv`).
* `Ipv6RuntimeProofs!TypeCorrect`: `TypeOK` needs whole records, the prefixes of the
  links and the resolvers learned (`TypeInv`). Its core is `FoundPublishable`:
  `resolv_conf` keeps the limit and names no resolver twice, however long the list
  found. What `retain` keeps stands at positions in increasing order (`in_order`); that
  any set of positions can be listed so (`OrderExists`), and that a flattened list of
  lists is a list (`Flattened`), is proved by induction as in `SectionsProofs`.

Assumptions of the theorems about `Drafts`: its bounds (`DraftsAssumption`), for
`UpdatesAreKept` and `TypeCorrect` that edits, changes and imported files carry what
their Rust types let them carry (`NetworksAssumption`), and for `DraftsAreKept`
`NoneIsNew`: `None` is no value of the model. Of `Ipv6Runtime`: its named ASSUMEs
(bounds, and configurations that `validate` accepts). Of `Bootstrap`: its named
ASSUMEs, that `None` is no submission, answer or address and that the first-boot
addresses are no submissions.

Assumptions of the theorems about `Accounts`: its named ASSUMEs, that bounds are
natural numbers and the tokens finitely many.

Assumptions of the theorems about `HostUpdate`: its named ASSUMEs (bounds, every Release
has a reference, `None` is no value of the model, the first Release exists). Nothing is
assumed of administrators or of the references.

Assumptions of the theorems about `NetdApply`: its named ASSUMEs (checked by TLC in
every run) and, in `NetdApplyAtomic`, `AllAddressed`: every proposal lists addresses
for its LAN and UI interfaces. Without it atomicity is false, as the run `capture`
shows.

The proofs changed the models where these were wrong or could not be reasoned about.
`OwnershipAtomic` held in TLC's bounds without its exception, and the proof of the
last step failed on a fifth failure. `Sections` spoke of the interface of a name as
if there were one; it now looks interfaces up as the code does, and its routes are
filtered by a function of its own, since the provers cannot expand `SelectSeq`; the
lists of `Ipv6Runtime` likewise. Three properties of `HostUpdate` held within TLC's
bounds and are false beyond them. `ManualOutcomeTrue`: two failing calls keep the
record of a manual rollback over two boots, and an update then staged leads to the
Release it names. `RejectedRestored`: a failing call can make a boot miss the
restoration, and by the time the Release is visited and left again another staging
has replaced its record or cleared its report. `JudgesOnlyUpdates`: a reboot that was
asked for earlier comes between queueing a manual rollback and clearing `PENDING`,
which still names a Release whose health never finished. They now name these
exceptions.

Only model-checked: liveness, which is out of the prover's reach (`PendingResolved` of
`live`, `AdvertisesRouted`, `HostsFollow` and `ResolversFollow` of `ipv6`). Every other property of a
passing run is a theorem.

## Not modelled, and plan

Of the transaction: the `APPLY_PREVIOUS` marker of older releases, unreadable
journals (`Drafts` has the draft versions and receipts a journal carries), and the
fields of a Desired state, which are `Sections`'s.

Of the other components: `stage_unreadable_accepted_restoration` (Accepted state in
a format the Release cannot read), the download worker's namespace setup, menus,
pages, the decoding of imports and exports, validation and the text of nft rules,
Kea's and Unbound's configuration. The pages, menus and texts keep no state.
fwos-fwd-setup is one sequential run of `ip` commands before netd starts.

Plan, in order:

1. The legacy `APPLY_PREVIOUS` marker and unreadable state in `NetdApply`.
2. The refresh of `Ipv6Runtime` under rollbacks and recovery.
3. fwos-fwd-setup as a program that is run again over what a failed run left: it
   looks for the near end of a veth pair only, so a pair whose far end was not
   moved yet would be taken for complete.
