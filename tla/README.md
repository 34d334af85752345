# Specifications of xrayctl

xrayctl installs and runs an Xray proxy on a Linux desktop: it downloads
subscriptions, renders a configuration for the chosen node, validates it,
activates it as a *generation*, restarts `xray.service`, checks that the proxy
works, and goes back to the generation before if it does not. It also routes
single applications through Xray's TUN interface. This directory holds TLA+
models of the parts where order, failure and concurrency decide whether that
works, the TLC configurations that check them, and TLAPS proofs.

Paths below are relative to `src/crates/`; `core` is `xray-manager-core/src`,
`platform` is `xray-manager-platform/src`.

## The system

| Component | State | Operations | What makes it correct |
|---|---|---|---|
| Configuration activation (`core/application.rs`, `ManagerService`) | links `current` and `previous`, `generations/`, `state.json`, `routing.toml`, the process's memory of `state.json` | apply, node select, routing set, reset and apply, config rollback | only validated generations are activated; a failure changes nothing; success is visible everywhere; linked generations are never removed |
| Generation store (`platform/portable.rs`) | a pair of links and a directory per use (configuration, core, assets) | switch, rollback, restore, prune | two renames and a directory sync, each of which may be the last thing that happens |
| Operation lock (`platform/artifacts.rs`) | an flock on `/run/xray-manager/manager.lock` | try-lock, release on drop or death | one operation at a time |
| Xray service (`platform/templates.rs`, `linux/systemd.rs`) | started, running, which generation it was started from | start, stop, restart, automatic restart | runs what `current` names |
| Subscriptions and nodes (`core/subscription.rs`, `application.rs`, `domain.rs`) | `subscriptions.d`, `nodes.json`, the selected node in `state.json` and in each process's memory | add, enable, disable, remove, refresh, select, apply | the selection follows a node that is renamed or rotated, or a warning says that it is gone |
| Share links and outbounds (`core/protocols/`, `render.rs`, `dto.rs`) | none | parse, warn, render or refuse | what is shown as supported renders, what is shown as unsupported is never active |
| Selective TUN policy (`platform/linux/mod.rs`, `adapters.rs`, `application.rs`, `arch.rs`) | nftables table, policy rules, a routing table per family, two units | tun enable, disable, cleanup; the part of apply, install and uninstall; policy up and down; attach, detach; app run | an active policy never lets marked traffic out directly; enable and disable are all or nothing |
| Node probes and terminal interface (`core/probe.rs`, `xrayctl/src/tui.rs`) | tasks, permits, a channel, a flag per session; rows | probe, stop, select | results arrive, sessions end, limits hold |
| Installer (`platform/linux/arch.rs`) | three pairs of links, `state.json`, users and groups, unit files | install, repair, upgrade, uninstall, purge | activation of core, assets and configuration together, or of none |
| Core staging (`arch.rs`, `prepare_core`) | `core/versions`, staging and quarantine directories | prepare, reuse | a version that is linked is always complete |
| Manager upgrade (`arch.rs`, `upgrade_manager`) | `/usr/local/bin/xrayctl` and `.previous` | download, test, back up, replace, check, put back | an executable that has worked stays within reach; the outcome is true |
| Backend registry (`platform/registry.rs`, `xrayctl/src/composition.rs`) | factories, probe results, stored selections | probe, resolve, instantiate | precedence of explicit, stored and automatic choice; no silent fallback |
| Planning and gates (`application.rs`, `plan_internal`, `execute_inner`) | none | privilege, capability, package, confirmation and dry-run checks | no operation begins with a backend it demands missing; the package hint is complete |
| Routing rules, JSON of a configuration, `config.toml` | none | parsing and translation | pure functions |
| Downloads, archives (`portable.rs`, `artifacts.rs`) | files | fetch, check, extract | limits and path checks; I/O |
| Command line, output, logging | none | | |

How they interact: a process loads `state.json` in `compose` (`composition.rs`),
builds one `ManagerService` and calls it; every operation that mutates (except
`app run` and `app test`) takes the lock first, then works on the memory loaded
before. The service is reached only through `systemctl`; systemd restarts it on
failure at any moment, and it calls back into xrayctl (`internal tun-attach`,
`tun-detach`, `tun-policy-up`, `tun-policy-down`). The terminal interface is a
process that lives for hours beside command-line processes.

What is hard: two processes with different memories of the same file; a lock
whose file lies in a directory that systemd removes; crashes and I/O errors
between any two of some twenty external calls; undo paths that can fail
themselves; a service that dies or comes back between two steps; the same
firewall routines run by a command and by a unit; a host whose programs and
configuration change after they were looked at; an executable that replaces itself;
a provider that renames, rotates or breaks its nodes; outcomes of old probe sessions.
PROJECT.json lists each hazard at its line.

## Modules

| Module | What it is |
|---|---|
| `GenerationStore` | pure operators on a pair of links and a set of generations; used by `ConfigApply` and `Installer` |
| `ConfigApply` | configuration activation: processes, lock, files, service |
| `Activation` | what activation promises: a trial, accepted or taken back |
| `ConfigApplyProofs` | theorems about `ConfigApply`: validation, pruning, what failures leave |
| `ActivationProofs` | more of them, on top of those: what successes leave, and the refinement of `Activation` |
| `TunPolicy` | the TUN policy in the kernel, its two units, the commands |
| `TunPolicyProofs` | theorems about `TunPolicy` |
| `ProbeSession` | probe sessions and the rows that show them |
| `ProbeSessionProofs` | theorems about `ProbeSession` |
| `Registry` | pure operators: which backend serves each capability; used by `Command` |
| `Command` | a command from composition through the gates to its end, and the upgrade of the executable |
| `CommandProofs` | theorems about `Registry` and `Command` |
| `ShareLinks` | pure operators: link to node, badge, what the renderer refuses; used by `Subscriptions` |
| `Subscriptions` | subscriptions, nodes and the selected node, across processes |
| `SubscriptionProofs` | theorems about `ShareLinks` and `Subscriptions` |
| `Installer` | install, repair, upgrade, rollback, uninstall and purge over core, assets and configuration |
| `InstallerProofs` | theorems about `Installer` |
| `MCConfigApply`, `MCTunPolicy`, `MCProbeSession`, `MCInstaller`, `MCCommand`, `MCSubscriptions` | instances for TLC |

Operators whose comment starts with "Mutation" are not part of a specification:
each is a definition with a plausible bug, kept so that one can see that a
property would notice it (PROJECT.json pairs them).

### ConfigApply

The disk is `ptr` (the two links), `dirs`, `stateFile`, `routingFile`,
`nodesFile`; `conf` says what a generation was rendered from, `nextGen` is the
next name. `running` and `wanted` are the service. Each process has a program
counter `pc`, its operation, its memory `mem`, the node it wants, its candidate,
`old` (`previous_state` in the code) and `saved` (the routing file to put back).
`validated` and `was` are history.

Every call that changes something outside the process is one action. The steps
of `apply_config` are `Prepare`, `Validate`, `SwitchPrevious`, `SwitchCurrent`
(the two renames of `switch_generation`), `Commit` (first `write_state`),
`Activate`, `Restart`, `HealthCheck`, `RecordHealthy`, `Prune`; the two ways back
are `RestoreCurrent` and `RestorePrevious` from a failed commit (labels `undo*`,
best effort) and from a failed activation (labels `restore*`, which go on with
`RestoreState`, `RestartRestored`, `Discard`). `Rollback*` is
`commit_generation_rollback`, whose failure is undone by a second swap of the
links. `SetRouting` and `RestoreRouting` are the two ends of
`write_routing_and_apply`.

What is abstracted: a generation is a number whose order is that of modification
times; a configuration is the node and the routing it was rendered from;
`validated` stands for everything `xray run -test` can tell. The parts of
`state.json` no property speaks of (timestamps, reasons, core and asset versions)
are left out. `write_atomic` may fail before or after its rename.

Three constants switch parts of the environment:

- `LockFileKept`: does `manager.lock` survive a stop of the service? The unit
  declares `RuntimeDirectory=xray-manager` and not `RuntimeDirectoryPreserve`,
  so on a deployed system it does not: `FALSE` is the deployment, `TRUE` an
  assumption that separates the effect of stale memory from that of a lost lock.
- `Crashes`: may a process die between any two steps?
- `IoErrors`: may a file system or `systemctl` call fail?

`HealthCheck`, `Validate`, `Restart` and `Activate` may fail in every
configuration: that is their job.

### Activation, and the refinement

`Activation` knows one active generation and at most one trial. `ConfigApply`
implements it with `active <- ptr.cur` and the trial's fallback read from the
memory of the process between the switch of `current` and the end of its
activation. The run shows more than it seems: that the generation *memory*
remembers is the one that was in fact replaced, and that each way back ends
there.

### TunPolicy

`Route(f)` computes where a packet of the group `xray-tun` goes from what the
kernel holds: the mark, the rule, the tunnel route at metric 100, the fallback
at metric 32767, and the main table if all of that fails. `firewall_up` with
`routes_up` and `routes_down` with `firewall_down` are two routines of nine and
five steps, run by two actors: `cli`, the command, and `unit`, the process
systemd starts for the policy unit. `undoing` tells whether the second routine is an error
path. `xray.service` attaches its routes in `ExecStartPost`, after polling for
the interface for at most ten seconds. When the interface goes, the kernel drops
the routes through it. `Reboot` clears the kernel and starts the enabled unit
before xray.

What may go wrong in a behaviour is chosen in its first state: `faults`, one of
the `FaultSets` of the instance, says whether adding calls fail (`add`, with them
what `firewall_up` does before it deletes the old table: `getent` and the file of
rules), removing calls fail (`remove`; a failing `nft list` is taken for an absent
table, so that the removal then succeeds and leaves it), the command may die (`crash`), and commands may be given
before the unit has started at boot (`boot`). A property that a fault rightly
breaks says so in its premise.

The commands are `tun enable`, `tun disable` and `tun cleanup`, and what concerns the
policy in `apply` (`ApplyConfig` with TUN enabled, `ApplyWithoutTun` without), in
`install` (`Install`: with TUN enabled and a core from before, with TUN enabled and
none, with TUN disabled) and in `uninstall` (`Remove`). `op` tells a routine which of
them it belongs to. `tun.enabled` is read by every process when it starts, and a
terminal interface may have read it long ago, so that it is a choice at each reading:
a policy may be built with TUN on and meet an attach that does nothing. `xray` is
`plain` when it runs without routes of its own. One command runs at a time: the lock
is taken as working here.

### ProbeSession

Sessions are numbered, because the tasks of a cancelled one go on beside those of
the next. A row carries `Short(n)`, the twelve characters of `NodeId::short`; an
outcome carries the full id. Cursor, filter and sorting are left out.

### Installer

`links`, `dirs` and `state.at` are indexed by kind: core (whose names are release
tags and come back), assets and configuration (whose names are fresh). `damaged`
holds the names whose directory no longer passes its own check: `xray version`,
`validate_asset`, `xray run -test`. `running` is the triple the process was
started from. The operation is a record `job`: what to prepare, the candidates,
the kind at work, `old` (`old_state` in the code), and as history what was tested,
what was found at the start, and whether a failure was left half done (`clean`: a switch
failed behind its first rename, or a step of the way back failed).

The labels follow the code: identities (`EnsureGroup`, `RecordCreated`) and unit
files; `prepare_core` with its quarantine (`PrepareCore`, `QuarantineCore`,
`PlaceCore`, `CheckCore`, `RestoreQuarantined`); `PrepareAssets`; `TestUpgrade` or
`TestInstall`; the two renames per kind (`SwitchPrevious`, `SwitchCurrent`);
`WriteState`, `Activate`, `HealthCheck`, `MarkHealthy`, `Prune`. The way back goes
through the kinds in the opposite order (`RestoreCurrent`, `RestorePrevious`), then
`RestoreState` and `Reactivate`. The three rollbacks of `ManagerService` use the
same steps with one kind, and are undone by another rollback. Every step may fail
where the code's call may, and the process may die between any two.

An operation that ends with an error ends in `failed` after a call to the outside
failed, in `refused` when all its calls worked and it did not like what it
found, and in `unmarked` when it is an install that passed its healthcheck and could not
record it (arch.rs:741-754): nothing is taken back, so that it counts as `Standing` with
the successes. A purge that fails removes any part of what it was at (`RemovedPart`). `ApplyConfig` is a successful apply as `ConfigApply` details it. One group
stands for the identities; the policy unit, `config.toml` and the executable of the
manager are left out; which unlinked generations pruning keeps is left open.

### Registry and Command

`Registry` is `resolve` and `instantiate`: backends are numbers in the order of their
names, `prefs` the three sources of a choice, `found` what the factories answer.
`Command` gives it the nine production backends with the programs they require
(`Requires`), the table of `required_capabilities` and, read off the code, the ports each
operation really calls (`Uses`). The host is `programs`, `passing` (the checks that
are not about programs: distribution, systemd, `/dev/net/tun`) and `config`; all of it
changes between commands, the first two also during one. `stored` is
`installed_backends` of `state.json`. `Begin` is `compose`: it takes the snapshot of
backends that the command keeps to its end. `Refuse`, `ReturnPlan`, `RequirePackages`
and `Start` are the ways out of the gates, whose order is not kept apart where they
all refuse. What an operation does is in the other modules; here it is one step
(`ExecuteInstall`, `ExecuteRemoval`, `Execute`) with what it does to the executable and
the stored choice.

`upgrade_manager` is in full: `Download`, `TestCandidate`, `Backup`, `Replace`,
`Doctor`, `Restore`, each with its failures; a write may fail before or after its
rename. `Doctor` runs the *new* executable, with the backends compiled into that
release, on the host as it is by then.

### ShareLinks and Subscriptions

A link is a record of what is left after decoding: scheme, user, server, name and
parameters, whose values are classes of text (`"range"`, `"object"`). `Parsed` is the
five parsers, `Identity` what a node's id is made of (a kind of
transport or security is the same whether given or left to its default; the method of
Shadowsocks is in `extra` and no part of it), `Warnings` and `Badge` what the
user sees, `Renders` when `render_proxy_outbound` succeeds. Parser, badge and renderer
lie in three files and repeat each other's conditions: that is what the properties are
about.

`Subscriptions` is the operations call by call: files (`files`), `nodes.json` (`nodes`,
a set: a response names no link twice), `state`, each process's memory `mem` read when
it opened, and `linked`, the node that the configuration in `current` was rendered
from. A refresh fetches one subscription after the other (`Fetch`), writes the nodes
(`WriteNodes`) and then, in a second write, the reconciled selection (`Reselect`).
`apply_config` is in short (`Render`, `Switch`, `Commit`): it may fail before it
changes anything, or after the switch, and then goes back to what memory says as far as
that succeeds; its inside is `ConfigApply`. `synced`, `known` and `told` are history
for `SelectionSurvives`.

## What the runs check

| Run | Instance | Shows |
|---|---|---|
| `apply_single` | one process, 2 nodes of which one renders, 2 routings, 3 generations, fair | every failure restores everything, rollback swaps the links, the two records agree between operations, `current` exists and is what the service runs, linked generations are not removed, operations end, and `Activation` is implemented |
| `apply_two` | a command and a terminal interface, both with stale memory; crashes and I/O errors anywhere; lock kept | only validated generations are linked or run, and success means active everywhere |
| `apply_stale` | a command and a terminal interface, no crashes | **violation**, see below |
| `apply_lock_lost` | two processes | **violation** |
| `tun_faults` | every call may fail, crashes, races at boot, and the same without failing removals and without races; fair | a successful enable has built everything, `xray.service` takes nothing away, commands end; a failed enable leaves nothing that was not there before, a failed first install, and a successful disable, uninstall, or apply or install with TUN off, nothing at all |
| `tun_reenable` | adding calls fail | **violation** |
| `probe_session` | 2 nodes, 1 permit, 2 sessions, fair | limits, complete delivery, every session ends |
| `probe_rows` | the same | **violation** |
| `installer` | 2 versions, 3 fresh names, 3 operations and any applies between them; crashes, damage, any call may fail | failures are undone (the exceptions are listed at `FailureRestores`), what is left in place is what was tested, the current core and assets agree with the record after an install, upgrades and rollbacks are what runs, the way back stays open, repair leaves what is healthy, a foreign group stays |
| `command` | 6 operations, 2 releases, 2 programs and a check that come and go, any step may fail | demands are met before anything is changed, the package hint suffices, an executable that has worked is within reach, an upgrade's outcome is true |
| `command_unprobed` | install and apply, `nft` may be missing | **violation** |
| `subscriptions` | a command beside a terminal interface, 1 subscription, 7 responses, crashes and failing writes | the selection survives or its loss is told, what is linked is supported, a VLESS or Shadowsocks node without a warning renders with one exception |

### Bounds

`MaxGen` bounds the names ever handed out, and with it the number of applies in a
behaviour; three are the least with which an apply has a previous generation
besides its candidate, with which one process can be a generation behind another,
and with which, after a rollback, the newest generations are not the linked ones. `Keep` is 2 (3 is the default): the limit is
then reached by the links alone and all others go, the tight case. Two nodes and
two routings tell "mine" from "another"; one of the nodes does not render in
`apply_single`, so that the error before a candidate exists occurs. `apply_two`
makes do with one node and one routing: what it shows is about generations, and
each apply makes a new one. `TunPolicy` is finite as it stands, and a fault
may occur without having to, so that its run needs only the largest sets of faults
and those that a property's premise asks for. `ProbeSession`
needs more nodes than permits, and two sessions. `Installer` has two versions, so
that an upgrade finds a version it has, one it has not and one that is damaged;
three operations, so that one may die, a second find its remains and a third what the second made of them; and three fresh names, two for an install and one for an
apply or new assets (four pass as well, in fourteen million states).

`Command` needs two releases that differ in what is compiled in, so that a new
executable may fail to compose on a host on which the old one works: the second is
compiled without nftables, and the command line or a stored choice may ask for it. Of
the programs, `nft` (demanded by the policy, restorable by an installation) and
`useradd` (demanded for the identity) come and go, and of the checks that of systemd; the
operations are one of each row of the tables that the properties tell apart. The
theorems hold for all of them. `Subscriptions` has one process that does everything and
one terminal interface, which is what makes memory stale; one subscription, since
subscriptions only meet in `nodes.json`, where those that are not refreshed stay; and
responses for each way in which the selected node may change: credentials rotated under
the same name, the same name twice, the same id with a parameter nobody knows, links
that warn, links that are refused, nothing that parses.

### Fairness

`ConfigApply!FairSpec` is weak fairness of `Continue(p)`: a process that has
begun an operation goes on with it. Every external call has a limit: HTTP
requests and the healthcheck have timeouts from `config.toml`, `systemctl` waits
for jobs with systemd's own timeout. It is not assumed that anybody begins an
operation, nor that the service stays up or is restarted.
`TunPolicy!FairSpec` is the same for the routines and commands, and for the steps
of `xray.service` that systemd takes (ending an attach at its deadline, running
`ExecStopPost`); nothing makes xray open its interface. `ProbeSession!FairSpec`
is that the runtime runs tasks and that the event loop comes round; probes
themselves have time limits. That `tun-attach` meets a `config.toml` with TUN turned off
is nobody's duty, so `AttachSkipped` is not fair. `Installer`, `Command` and
`Subscriptions` state no fairness: their properties are about safety only.

## Where code and promise differ

1. **Stale memory** (`apply_stale`). `previous_state` in `apply_config` is what
   `compose` read before the lock was taken. A terminal interface that fails to
   activate a node puts links and `state.json` back to where they were when *it*
   last looked, not to where they were. README.md:182 promises that a failed
   candidate leaves the active generation unchanged. For an operation that starts
   with up-to-date memory the promise holds (`SyncedFailureKeepsActive`, proved).
2. **Lock in the runtime directory** (`apply_lock_lost`). Restarting the service,
   which `apply_config` does itself, removes `manager.lock`; the next process locks
   a new file.
3. **Repeated `tun enable`** (`tun_reenable`). `firewall_up` deletes the table
   before it loads the new one. If that, or a later call, fails while the unit is
   active, the policy is gone and the unit still active: routed programs go out
   directly, new ones are let through by the check of `app run`.
4. **Ids of rows** (`probe_rows`). Rows hold short ids, outcomes full ones, and
   they are compared for equality: no result ever reaches a row.
5. **Backends used without a probe** (`command_unprobed`). With TUN turned off, an apply
   demands neither firewall nor policy routing, but takes an old policy down through
   both; on a host without `nft` it passes the gates, fails in its activation and is
   rolled back. docs/backends.md:34: "Normal operations may use only a backend whose
   probe succeeded".

### Known behaviours

Met while modelling; they are in the models where a model is named, and no run is about
them.

- *Activation* (`ConfigApply`, `Installer`). `switch_generation` can fail after `current`
  names the candidate (the directory sync is last); `apply_config` then removes the
  candidate and leaves the link. After a crash between the two renames `previous` equals
  `current` while `state.json` has no previous generation; a later `config rollback` and a
  failing apply then remove `current`. For these reasons `RemovalsSpareLinked` is checked
  without I/O errors and `CurrentExists` without crashes. A configuration that is there
  but no longer passes `xray run -test` makes `repair` fail and is not rebuilt. An install
  or repair does not restart a service that runs (`enable --now`), and one that cannot
  record the time of its healthcheck reports an error with everything switched.
- *Rollback* (`Installer`). A rollback that fails is undone by a second one, which needs
  the first to have saved `current` in `previous`. After a crash between the switch and the
  write of a first install, a core rollback and a failed upgrade, `current` may be missing
  and `previous` present, and `state.json` says the same: a rollback that fails after its
  switch then stays switched. `FailureRestores` has this among its exceptions (`Reversible`).
- *Record* (`Installer`). After a crash between a switch and `write_state`, the same install
  given again takes `previous` for the link from the link (portable.rs:483-488), where it is
  by now the candidate itself, and for state.json from state.json (arch.rs:445-447): the two
  then have different `previous` names, and only the `current` ones agree
  (`InstallReconciles`).
- *TUN* (`TunPolicy`). A repeated `tun enable` that fails in `getent` or in writing the
  rules has changed nothing and leaves the old table, firewall and routes in place; one that
  fails in `nft -f` leaves the old rules and fallbacks without a table
  (`FailedEnableAddsNothing`). `firewall_down` takes any failure of `nft list` for an absent
  table and succeeds, with the table left. `apply` and `install` start the policy unit; if systemd holds it
  for active they do not rebuild a policy whose table is gone. A first install that fails
  stops the unit and leaves it enabled. An `apply` with TUN turned off that fails after
  the policy has gone does not bring it back. `app run` takes no lock and checks the unit
  before the interface, so that a `tun disable` between the two goes unnoticed.
- *Command*. The candidate of a self-upgrade is run with `--version` while the handle it
  was written through is still open; a kernel that answers that with ETXTBSY lets no upgrade
  come further than `TestCandidate`. `doctor --quick` decides on nothing but composing. If it cannot be run at
  all, or xrayctl dies before its answer, the new executable stays. docs/backends.md advises to choose a
  backend listed by `doctor` when an explicit choice is refused; `doctor` composes too and
  is refused with it.
- *Subscriptions*. A refresh under the same id may change `extra` without a word, so that
  the selected node stops rendering at the next apply. A crash between `nodes.json` and
  `state.json` leaves a selection that no node has, of which no later refresh warns; an
  apply then drops it. A removal that dies after the file leaves nodes without a
  subscription. A VLESS node with a fragment and an `fm` whose tcp is no array, a Hysteria2
  node with `obfs=salamander` and no password, a Trojan node with an unknown transport, and
  any VMess node, is shown as supported whether or not it renders: `RefusalIsMarked` is about
  VLESS and Shadowsocks, with the first of these as its exception. Of two nodes with the same id neither can be selected.

## What is proved

`ConfigApplyProofs` proves, for every number of processes, nodes, subscriptions,
routings and generations, from `ConfigAssumption` and `NoneAssumption` (finitely
many generations, `None` distinct from everything, the default routing exists):

| Theorem | Under | Argument |
|---|---|---|
| `TypeCorrect`: `[]TypeOK` | nothing more | `TypeOK` is inductive with `CandInv`: who waits for a validation has a candidate |
| `OnlyValidatedActive`: `[]ActiveIsValidated` | nothing more: crashes, I/O errors, overlapping operations | `ValidInv`: not just the links but everything that may be linked later, `state.json` and the memory, `old` and candidate of every process, names validated generations. The links alone are not inductive: they are restored from memory |
| `LinkedGenerationsStay`: `RemovalsSpareLinked` | `Exclusive`, no I/O errors | `FreshInv`: the candidate an apply may remove is named neither by the links nor by the memory it restores them from; that a new name is fresh needs `SpentInv` (names once handed out are behind `nextGen`) |
| `SyncedFailureRestores`: `[]SyncedFailureKeepsActive` | `Exclusive`, no I/O errors | `SyncInv`: per label, what has been changed since the lock was taken, and where the value to put back is kept |

`Exclusive` says that operations exclude each other: there is one process (`Alone`), as
when nobody uses a second terminal, or the lock file is kept (`LockFileKept`). On the
deployment the first is the only way to have it; the second says what holds once the lock
file is moved out of the runtime directory. From `Exclusive` follows `LockHeld`: whoever is
past `acquire_lock` holds the lock, or needs none.
`ActivationProofs` goes on from there:

| Theorem | Under | Argument |
|---|---|---|
| `SuccessActivates`: `[]SuccessIsActive` | `Exclusive`; crashes and I/O errors anywhere | `ApplyInv`: per label of `apply_config`, the candidate is rendered, validated, linked, recorded and started; kept by the steps of others because they wait for the lock, by systemd because it starts what is linked, and by pruning because the candidate is linked |
| `ServiceFollowsCurrent`: `[]RunningIsCurrent` | `Exclusive`, no crashes, no I/O errors | `RunInv`: the service runs what `current` names except at the labels between a switch and the restart after it |
| `StateFollowsLinks`: `[]StateMatchesLinks` | `Alone`, no crashes, no I/O errors | `CalmInv`: memory is `state.json`, every operation starts in sync, and per label whether `state.json` names what is linked. With two processes it is false (`apply_stale`) |
| `CurrentStays`: `[]CurrentExists` | the same | `CalmInv`: everything linked or to be restored exists |
| `RollbackSwaps`: `[]RollbackSwapsLinks` | the same | `SwapInv`, from the swap in two renames with the links that were found |
| `ActivationImplemented`: `ImplementsActivation` | the same | every step of `ConfigApply` maps to a step of `Activation` or a stutter (`ActStep`, one case per action); the trial's fallback in memory is the generation the links gave up because of `CalmInv` |

Each invariant has an `Init` lemma and a step lemma with one case per action;
`StepsAdvance` and `OthersIdle` carry the control argument (a step of one process
under the lock leaves the others where they are). The runs `apply_single` and
`apply_two` check the same properties on instances, and the violations show that the
assumptions are needed: without the start in sync, `apply_stale` shows that a
failure does not restore; and `apply_lock_lost` shows that `Exclusive` is not given where
two processes use the deployed lock.

`InstallerProofs` proves, from `InstallerAssumption` and `NoneAssumption` alone (release
tags are neither `None` nor numbers), for any versions, generations and number of
operations, with crashes between any two steps and damaged artifacts:

| Theorem | Argument |
|---|---|
| `TypesHold`: `[]TypeOK` | `TypeInv`: the record of the operation has its type as well, and its tables name each kind's own names |
| `WhatWasTestedIsCurrent`: `[]SuccessIsTested` | `PreparedInv` (what is prepared is there and sound), then `TestedInv`: on the way forward the tested triple is sound and the links of every kind that is switched already, or is not to be, lead to it. That a new generation was not damaged before needs `FreshInv` |
| `InstallsReconcile`: `[]InstallReconciles`, the `current` names of core and assets after any crash, the `previous` ones where both agreed before | `RecordInv`: where nothing is switched `state.json` agreed before, which is why the code compares candidates with both; `AgreeInv` for `previous`: what `write_state` has recorded is what the renames have made of the links that were found |
| `ChangesRun`: `[]ChangeIsRunning` | `RunningInv`: after the restart, forward or back, until the end |
| `FailuresRestore`: `[]FailureRestores`, with its four exceptions | `SyncInv`: `FoundInv` (nothing changes before the first switch, and `old` is what was found), `ForwardInv` (the kinds are switched in order, `After`), `BackInv` (the later ones are back first), `RollbackInv` (the way back of a rollback). `SoundInv` for what was sound: it is never what a quarantine replaces, and pruning spares it on every path |
| `UpgradesKeepWayBack`: `[]UpgradeKeepsWayBack` | `ForwardInv` at the end, with `SoundInv` |
| `RepairsKeepHealthy`: `[]RepairKeepsHealthy` | `RepairInv`: a repair of what is sound and agrees reuses both candidates, so that none is left to switch |
| `ForeignGroupKept`: `ForeignGroupStays` | `ForeignInv`: a foreign group is recorded neither in `state.json` nor in an `old` that a purge or an undo will use |

None of these properties is inductive: a state says too little about how an operation
came to its label. `PathInv` says it, for every label: which operation it can be, which
candidates it has, whether it is on its way back and whether a failure was left half done.
All parts were checked with TLC on the instance of `installer` before they were proved.
Two things came out of the proofs: a rollback without a `current` cannot be undone
(Known behaviours), and `PlaceCore` still counted a rebuilt version as damaged if the old
one had been damaged first and lost afterwards, a mistake of the model that is corrected.

`TunPolicyProofs` proves, for both values of `tun.ipv6_enabled` and every set of
faults, from the assumptions of `TunPolicy`:

| Theorem | Argument |
|---|---|
| `TypesHold`: `[]TypeOK` | with `ControlInv`: only the removing routine undoes, and a unit that stops is in it |
| `CompleteStays`: `ActiveStaysComplete` | a step that neither begins nor continues a routine leaves table, rules and fallbacks alone (and a reboot ends the premise) |
| `EnableBuilds`: `[]EnableBuildsPolicy` | `BuildInv`: command and unit may both build, each deleting what the other has added; what *both* are past is there, as each adds again whatever it deletes. Neither's own progress is an invariant |
| `DisableRemoves`: `[]DisableRemovesPolicy` | `RemoveInv`: the unit is at rest before the first removal and stays so, and what the routine is past is gone |
| `FailedEnableUndoes`: `[]FailedEnableAddsNothing`, where no removal fails and no unit builds at boot | `UndoInv`: the same for the undo; `FoundSoFar` before it: until the table goes, nothing has been changed, and until `routes_up` begins, no rule and no fallback |

`ProbeSessionProofs` proves, from `ProbeAssumption`, for any nodes, permits and number
of sessions:

| Theorem | Argument |
|---|---|
| `TypesHold`: `[]TypeOK` | part of `Inv` |
| `ProbeLimitHolds`: `[]ProbeLimit` | `PermitsOK`: free permits and running probes add up, per session, cancelled ones included |
| `SessionCompleteHolds`: `[]SessionComplete` | `Delivered`: what the collector has joined was received or lies in the channel; `ClosedJoined`: it is closed when all are joined |

`CommandProofs` proves, from `ChoiceAssumption` (no backend is called `None` or
`auto`), `CommandAssumption` (what is compiled, chosen and may change is among the
nine backends and their programs) and `OpsAssumption`:

| Theorem | Argument |
|---|---|
| `NoSilentFallback`: a capability for which a backend is asked by name gets it, or the call is refused | for any answers and preferences; the explicit source exists and is the first that asks (`ExplicitSourceExists`) |
| `AutomaticFindsAvailable`: where nobody asks, an available backend is found if there is one | the least of a non-empty set of numbers exists (`LeastExists`, by well-foundedness of the naturals) |
| `ResolvedIsInstantiable`: what `resolve` selects `instantiate` can make | `PickedProvides` |
| `CommandTypes`: `[]TypeOK` | inductive; needs `PickedProvides` for the stored choice |
| `DemandsMet`: `[]DemandsAreMet` | `PlanInv`: what is restorable has a backend that provides it, and every program that a demanded backend requires is among those the package advisor looks for (`AdvisorKnows`, the two tables against each other) |
| `HintEnough`: `[]HintSuffices` | the same, at the refusal |
| `WayBackStays`: `[]WayBack` | `BackInv`: per label of the upgrade, which of the two files has run here and what `job.old` is; `WayBack` itself is not inductive, since `Backup` overwrites the only other copy |
| `OutcomeIsTrue`: `[]OutcomeTellsExecutable` | from `BackInv` |

`SubscriptionProofs` proves, from `SubscriptionsAssumption` and `PresenceAssumption`
(neither a process nor a node nor an id is `None`):

| Theorem | Argument |
|---|---|
| `UnmarkedRenders`: a Shadowsocks link without a warning renders, a VLESS link without a warning if and only if no fragment clashes with its `fm` | by protocol, for any parameters; no state involved |
| `SubscriptionTypes`: `[]TypeOK` | with `NodeAtReselect`: who is about to store a selection has a node |
| `RefusalsMarked`: `[]RefusalIsMarked`, the same of the VLESS and Shadowsocks nodes in `nodes.json` | every node comes from `Parsed`, and `UnmarkedRenders` |
| `OnlySupportedActive`: `[]ActiveIsSupported` | `UsableInv`: not only `linked`, but what `state.json` and every memory would restore, and the node of whoever is about to switch, is usable |
| `SelectionIsKept`: `SelectionSurvives` | `KeptInv`: whoever is busy holds the lock; while it works from an up-to-date memory that memory stays `state.json`; and per label, where the selection is followed |

Model-checked only: liveness (`OperationEnds`, `CommandEnds`, `SessionsEnd`), which
needs fairness and ENABLED and is out of this prover's reach, and the five violations,
whose counterexamples are the point. Every safety invariant and action property of the
passing runs is a theorem.

## Plan

In this order, most important first:

1. Proofs: an abstract specification of a change of `Installer` (three pointers and
   `state.json` move together or not at all) and its refinement, from `SyncInv`;
   `RunningIsCurrent` with I/O errors other than those of `systemctl`.
2. `Installer`, the rest: memberships and the user beside the group; the case of a
   version that is rebuilt under its own name, after which `previous` equals `current`.
3. `app run` beside the commands of `TunPolicy`.

## Not modelled

Text: URL, base64, percent and JSON decoding of links, the JSON of a configuration,
routing rules and `config.toml` are pure functions, and `ShareLinks` begins and ends where
decisions are made. Downloads and archives are I/O with limits, a step that succeeds or
fails wherever they occur. The desktop proxy and `app run` are single sequences of external
commands without a way back; `Command` has their gates. Argument parsing, output, events
and logging have no state. `GenerationService` (`core/generation.rs`), the traits of
`ports.rs`, the fakes and the stubs for other platforms are not part of what runs.
PROJECT.json has a reason for each.
