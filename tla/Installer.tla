------------------------------- MODULE Installer -------------------------------
(***************************************************************************)
(* Install, repair, upgrade, rollback, uninstall and purge:                *)
(* crates/xray-manager-platform/src/linux/arch.rs, and the rollbacks of    *)
(* core and assets in xray-manager-core/src/application.rs.                *)
(*                                                                         *)
(* Three things are switched by pairs of links: the core (a version, named *)
(* by its release tag, so that the same name may come back), the assets    *)
(* and the configuration (generations with fresh names).  state.json       *)
(* records all three.  An operation prepares artifacts, validates them     *)
(* together, switches the links one after the other, writes state.json,    *)
(* starts the service, checks it, and undoes all that if it fails.  One    *)
(* operation runs at a time (ConfigApply is about manager.lock); it may    *)
(* die between any two steps.                                              *)
(***************************************************************************)
EXTENDS GenerationStore

CONSTANTS
    Versions,   \* release tags of the core
    MaxGen,     \* bound on the names of asset and configuration generations: no
                \* more of them are made
    MaxOps,     \* bound on the operations that are begun
    Crashes,    \* may the process die between two steps?
    Damages     \* may an artifact on disk be damaged or lost?

Core == 1
Assets == 2
Config == 3
Kinds == {Core, Assets, Config}

ASSUME InstallerAssumption ==
    /\ None \notin Versions /\ Versions \cap Nat = {}
    /\ MaxGen \in Nat /\ MaxOps \in Nat
    /\ Crashes \in BOOLEAN /\ Damages \in BOOLEAN

VARIABLES
    links,      \* per kind, `current` and `previous`
    dirs,       \* per kind, the directories that exist
    damaged,    \* names whose directory does not pass its own check any more
    nextGen,    \* the next fresh name
    state,      \* state.json
    group,      \* a group that xrayctl needs: absent, foreign, or created by it
    unit,       \* xray.service is installed
    started,    \* systemd keeps it running
    running,    \* what the process was started from
    ops,        \* operations begun so far
    pc,
    job         \* the operation under way

store == <<links, dirs, damaged, nextGen>>
host == <<state, group, unit>>
service == <<started, running>>
vars == <<links, dirs, damaged, nextGen, state, group, unit, started, running, ops, pc, job>>

AllNames == Versions \cup 1..MaxGen
Triples == [Kinds -> AllNames \cup {None}]
NoTriple == [k \in Kinds |-> None]
NoLinks == [cur |-> None, prev |-> None]

\* at: the current and previous names of each kind; selected: a node is selected, so
\* that healthchecks are made; created: the group is among created_identities.
NoState == [at |-> [k \in Kinds |-> NoLinks], selected |-> FALSE, created |-> FALSE]

NoJob == [op |-> "none",
          targets |-> {},         \* kinds to prepare
          cand |-> NoTriple,      \* what to switch to; None: leave alone
          kind |-> Core,          \* the kind at work
          old |-> NoState,        \* state.json to put back
          hadCore |-> FALSE,      \* core/current existed
          aside |-> FALSE,        \* a damaged version is moved aside
          undoing |-> FALSE,      \* activation failed: state.json is put back too
          tested |-> NoTriple,    \* history: what `xray run -test` accepted
          clean |-> TRUE,         \* history: no failure was left half done
          \* history: were links and state.json in agreement, on which targets, and
          \* was all that is current intact?
          was |-> [synced |-> FALSE, links |-> NoState.at, sound |-> FALSE]]

Installs == {"install", "repair"}
Changes == Installs \cup {"upgrade", "rollback"}

\* An empty system, or one whose administrator has a group of that name.
Init ==
    /\ links = [k \in Kinds |-> NoLinks]
    /\ dirs = [k \in Kinds |-> {}]
    /\ damaged = {} /\ nextGen = 1
    /\ state = NoState /\ group \in {"absent", "foreign"} /\ unit = FALSE
    /\ started = FALSE /\ running = NoTriple
    /\ ops = 0 /\ pc = "idle" /\ job = NoJob

Goto(label) == pc' = label

\* A call to the outside fails and the operation ends there.
Fails == Goto("failed") /\ UNCHANGED job

\* The same, with something left as it should not be.
FailsHalfway == Goto("failed") /\ job' = [job EXCEPT !.clean = FALSE]

\* The operation refuses what it found, although every call it made succeeded.
Refuses == Goto("refused") /\ UNCHANGED job

Current == [k \in Kinds |-> links[k].cur]

\* The artifacts are there and intact.
Sound(triple) == \A k \in Kinds : triple[k] \in dirs[k] \ damaged

\* ExecStartPre runs `xray run -test`, so a process that runs was started from
\* sound artifacts.
StartXray ==
    /\ unit /\ Sound(Current)
    /\ running' = Current /\ started' = TRUE

\* The start may fail for other reasons too; systemd goes on trying.
StartXrayFails == running' = NoTriple /\ started' = unit

Changed == {k \in Kinds : job.cand[k] # None}
Least(S) == CHOOSE k \in S : \A i \in S : k <= i
Greatest(S) == CHOOSE k \in S : \A i \in S : k >= i
--------------------------------------------------------------------------------
\* The record of an operation that begins.
Started(op) ==
    LET synced == links = state.at
    IN  [NoJob EXCEPT !.op = op, !.old = state,
                      !.was = [synced |-> synced, sound |-> Sound(Current),
                               links |-> IF synced THEN links ELSE NoState.at]]

Begin(label, record) ==
    /\ pc = "idle" /\ ops < MaxOps
    /\ ops' = ops + 1
    /\ job' = record
    /\ Goto(label)
    /\ UNCHANGED <<store, host, service>>

\* Operation::Install and Repair, up to apply_install_actions.
Install ==
    \E op \in Installs :
        Begin("group", [Started(op) EXCEPT !.targets = {Core, Assets}, !.old = NoState])

\* apply_upgrade: refused without a configuration.
Upgrade ==
    \E targets \in {{Core}, {Assets}, {Core, Assets}} :
        Begin(IF links[Config].cur \notin dirs[Config] THEN "refused"
              ELSE IF Core \in targets THEN "core" ELSE "assets",
              [Started("upgrade") EXCEPT !.targets = targets])

\* Operation::ConfigRollback, CoreRollback, AssetRollback: rollback_generation.
Rollback ==
    \E k \in Kinds :
        Begin(IF links[k].prev = None THEN "refused" ELSE "switchPrev",
              [Started("rollback") EXCEPT !.cand[k] = links[k].prev, !.kind = k])

\* apply_removal; the identities to delete are read before state.json goes.
Remove ==
    \E op \in {"uninstall", "purge"} : Begin("stop", Started(op))

Ended == Goto("idle") /\ job' = NoJob /\ UNCHANGED <<store, host, service>>

\* Operations that leave what they have switched: "unmarked" reports an error.
Standing == {"succeeded", "unmarked"}

Return == pc \in {"failed", "refused"} \cup Standing /\ Ended

Crash == Crashes /\ pc # "idle" /\ Ended
--------------------------------------------------------------------------------
(* apply_install_actions: identities first, then unit files.               *)

\* ensure_identities: a group that exists is not xrayctl's.
EnsureGroup ==
    /\ pc = "group"
    /\ \/ group = "absent" /\ group' = "ours" /\ Goto("record") /\ UNCHANGED job
       \/ group # "absent" /\ Goto("unit") /\ UNCHANGED <<group, job>>
       \/ Fails /\ UNCHANGED group
    /\ UNCHANGED <<store, state, unit, service>>

\* record_created_identity.
RecordCreated ==
    /\ pc = "record"
    /\ \/ state' = [state EXCEPT !.created = TRUE] /\ Goto("unit") /\ UNCHANGED job
       \/ Fails /\ UNCHANGED state
    /\ UNCHANGED <<store, group, unit, service>>

\* The unit files, the manager itself, owners and permissions.
WriteUnits ==
    /\ pc = "unit"
    /\ \/ unit' = TRUE /\ Goto("core") /\ UNCHANGED job
       \/ unit' \in {unit, TRUE} /\ Fails
    /\ UNCHANGED <<store, state, group, service>>
--------------------------------------------------------------------------------
(* prepare_core and prepare_assets.                                        *)

\* The core that the operation will use.
CoreReady(v) ==
    /\ job' = [job EXCEPT !.cand[Core] = v, !.aside = FALSE]
    /\ Goto(IF Assets \in job.targets THEN "assets" ELSE "test")

\* Mutation: repair trusts nothing that is installed.
ReusableNever(k) == FALSE /\ k = Core

\* reusable_core, reusable_assets: repair takes what state.json and the link agree on.
Reusable(k) ==
    /\ job.op = "repair"
    /\ state.at[k].cur = links[k].cur
    /\ links[k].cur \in dirs[k] \ damaged

\* The release the server offers: a version that is there and runs is used; else the
\* archive is unpacked in a staging directory and tried there.
PrepareCore ==
    /\ pc = "core"
    /\ \/ Reusable(Core) /\ CoreReady(links[Core].cur)
       \/ /\ ~Reusable(Core)
          /\ \/ \E v \in Versions :
                  \/ v \in dirs[Core] \ damaged /\ CoreReady(v)
                  \/ /\ v \notin dirs[Core] \ damaged
                     /\ job' = [job EXCEPT !.cand[Core] = v]
                     /\ Goto(IF v \in dirs[Core] THEN "quarantine" ELSE "place")
             \/ Fails
    /\ UNCHANGED <<store, host, service>>

\* A version that does not run is moved aside ...
QuarantineCore ==
    /\ pc = "quarantine"
    /\ dirs' = [dirs EXCEPT ![Core] = @ \ {job.cand[Core]}]
    /\ damaged' = damaged \ {job.cand[Core]}
    /\ job' = [job EXCEPT !.aside = TRUE]
    /\ Goto("place")
    /\ UNCHANGED <<links, nextGen, host, service>>

WithCandidate == [dirs EXCEPT ![Core] = @ \cup {job.cand[Core]}]

\* The version that was moved aside is back under its name.
PutBack == dirs' = WithCandidate /\ damaged' = damaged \cup {job.cand[Core]}

\* ... and the staged one, which runs, takes its name (a failed fsync leaves it there),
\* or the old one comes back, if that does not fail as well.
PlaceCore ==
    /\ pc = "place"
    /\ \/ /\ dirs' = WithCandidate /\ damaged' = damaged \ {job.cand[Core]}
          /\ \/ Goto("checkCore") /\ UNCHANGED job
             \/ Fails
       \/ job.aside /\ PutBack /\ Fails
       \/ Fails /\ UNCHANGED <<dirs, damaged>>
    /\ UNCHANGED <<links, nextGen, host, service>>

\* The version runs in its place.  If not, it is taken away again (or stays, if that
\* fails); if the old one cannot be deleted, the new one stays.
CheckCore ==
    /\ pc = "checkCore"
    /\ \/ CoreReady(job.cand[Core]) /\ UNCHANGED dirs
       \/ Fails /\ UNCHANGED dirs
       \/ /\ dirs' = [dirs EXCEPT ![Core] = @ \ {job.cand[Core]}]
          /\ \/ ~job.aside /\ Fails
             \/ job.aside /\ Goto("unquarantine") /\ UNCHANGED job
    /\ UNCHANGED <<links, damaged, nextGen, host, service>>

\* The old one comes back, or else the new one, or neither.
RestoreQuarantined ==
    /\ pc = "unquarantine"
    /\ \/ PutBack
       \/ dirs' \in {WithCandidate, dirs} /\ UNCHANGED damaged
    /\ Fails
    /\ UNCHANGED <<links, nextGen, host, service>>

\* prepare_assets: a directory with a fresh name, removed if a download fails.
PrepareAssets ==
    /\ pc = "assets"
    /\ \/ /\ Reusable(Assets)
          /\ job' = [job EXCEPT !.cand[Assets] = links[Assets].cur]
          /\ Goto("test")
          /\ UNCHANGED <<dirs, nextGen>>
       \/ /\ ~Reusable(Assets) /\ nextGen <= MaxGen
          /\ job' = [job EXCEPT !.cand[Assets] = nextGen]
          /\ dirs' = [dirs EXCEPT ![Assets] = @ \cup {nextGen}]
          /\ nextGen' = nextGen + 1
          /\ Goto("test")
       \/ ~Reusable(Assets) /\ Fails /\ UNCHANGED <<dirs, nextGen>>
    /\ UNCHANGED <<links, damaged, host, service>>
--------------------------------------------------------------------------------
(* Validation.                                                             *)

\* What will be current: the candidates, and the links where there is none.
Outcome(cand) ==
    [k \in Kinds |-> IF cand[k] # None THEN cand[k] ELSE links[k].cur]

\* Mutation: state.json is believed whatever the links say.
UnswitchedByRecord == {k \in {Core, Assets} : state.at[k].cur = job.cand[k]}

\* Kinds that need no switch: for an install those whose record and link are the
\* candidate already (core_changed, assets_changed), for an upgrade a core whose
\* record is.
Unswitched ==
    IF job.op = "upgrade" THEN {k \in {Core} : state.at[k].cur = job.cand[k]}
    ELSE {k \in {Core, Assets} : /\ {state.at[k].cur, links[k].cur} = {job.cand[k]}
                                 /\ k = Core => links[k].cur \in dirs[k]}

Candidates == [k \in Kinds |-> IF k \in Unswitched THEN None ELSE job.cand[k]]

\* Goes on with the first switch.
Switches(cand, tested) ==
    LET todo == {k \in Kinds : cand[k] # None}
    IN  /\ job' = [job EXCEPT !.cand = cand, !.tested = tested, !.old = state,
                              !.targets = {},
                              !.kind = IF todo = {} THEN Core ELSE Least(todo),
                              !.hadCore = links[Core].cur \in dirs[Core]]
        /\ Goto(IF todo # {} THEN "switchPrev" ELSE "write")

\* Mutation: the upgrade validates what is installed, not what it installs.
TestUpgradeOld ==
    /\ pc = "test" /\ job.op = "upgrade"
    /\ \/ Candidates = NoTriple /\ Goto("succeeded") /\ UNCHANGED job
       \/ Candidates # NoTriple /\ Sound(Current) /\ Switches(Candidates, Current)
       \/ Candidates # NoTriple /\ Fails
    /\ UNCHANGED <<store, host, service>>

\* apply_upgrade: nothing new, or a test of the new parts with the old ones.
TestUpgrade ==
    /\ pc = "test" /\ job.op = "upgrade"
    /\ LET all == Outcome(Candidates)
       IN  \/ Candidates = NoTriple /\ Goto("succeeded") /\ UNCHANGED job
           \/ /\ Candidates # NoTriple
              /\ \/ Sound(all) /\ Switches(Candidates, all)
                 \/ ~Sound(all) /\ Refuses
                 \/ Fails
    /\ UNCHANGED <<store, host, service>>

\* An install keeps a configuration that is there, once it has been tested with the
\* core and the assets; only a missing one is replaced by the initial one (whose
\* directory stays behind if writing it fails).
TestInstall ==
    /\ pc = "test" /\ job.op \in Installs
    /\ LET kept    == state.at[Config].cur # None /\ links[Config].cur \in dirs[Config]
           all     == Outcome(job.cand)
           written == [dirs EXCEPT ![Config] = @ \cup {nextGen}]
       IN  \/ /\ kept /\ UNCHANGED <<dirs, nextGen>>
              /\ \/ Sound(all) /\ Switches(Candidates, all)
                 \/ ~Sound(all) /\ Refuses
           \/ /\ ~kept /\ nextGen <= MaxGen /\ dirs' = written /\ nextGen' = nextGen + 1
              /\ \/ Switches([Candidates EXCEPT ![Config] = nextGen],
                             [job.cand EXCEPT ![Config] = nextGen])
                 \/ Fails
           \/ Fails /\ UNCHANGED <<dirs, nextGen>>
    /\ UNCHANGED <<links, damaged, host, service>>
--------------------------------------------------------------------------------
(* activate_install, apply_upgrade and commit_generation_rollback.         *)

\* The way back: the links of these kinds, the last one first, then state.json if it
\* was to be written.
Undo(kinds, j) ==
    /\ job' = [j EXCEPT !.kind = IF kinds = {} THEN @ ELSE Greatest(kinds)]
    /\ Goto(IF kinds # {} THEN "undoCur" ELSE IF j.undoing THEN "writeOld" ELSE "failed")

\* The links that were switched before the one at work.
Earlier == {k \in Changed : k < job.kind}

\* A rollback is undone by another rollback, the rest by restore_generation.
ActivationFailed ==
    LET j == [job EXCEPT !.undoing = TRUE]
        p == links[job.kind].prev
    IN  IF job.op = "rollback" /\ p # None
        THEN job' = [j EXCEPT !.cand[job.kind] = p] /\ Goto("switchPrev")
        ELSE Undo(IF job.op = "rollback" THEN {} ELSE Changed, j)

\* switch_generation returns an error: the kinds before this one are put back, this
\* one is not.  While a rollback is being undone the error is ignored.
SwitchFails(clean) ==
    Undo(IF job.undoing THEN {} ELSE Earlier,
         [job EXCEPT !.clean = @ /\ clean])

\* switch_generation, up to the rename of `previous`.
SwitchPrevious ==
    /\ pc = "switchPrev"
    /\ \/ links' = [links EXCEPT ![job.kind] = LinkPrevious(@)]
          /\ Goto("switchCur") /\ UNCHANGED job
       \/ SwitchFails(~job.undoing) /\ UNCHANGED links
    /\ UNCHANGED <<dirs, damaged, nextGen, host, service>>

\* The rename of `current`, and the fsync after it.
SwitchCurrent ==
    /\ pc = "switchCur"
    /\ LET switched == [links EXCEPT ![job.kind] = LinkCurrent(@, job.cand[job.kind])]
           later    == {k \in Changed : k > job.kind}
       IN  \/ /\ links' = switched
              /\ \/ /\ later = {} /\ UNCHANGED job
                    /\ Goto(IF job.undoing THEN "writeOld" ELSE "write")
                 \/ /\ later # {} /\ Goto("switchPrev")
                    /\ job' = [job EXCEPT !.kind = Least(later)]
           \/ links' \in {links, switched} /\ SwitchFails(FALSE)
    /\ UNCHANGED <<dirs, damaged, nextGen, host, service>>

\* Mutation: the new asset generation is recorded as the core's version.
RecordedMixedUp ==
    [k \in Kinds |->
        LET p == job.old.at[k]
            c == IF k = Core THEN job.cand[Assets] ELSE job.cand[k]
        IN  IF job.op = "rollback" \/ c \in {None, p.cur} THEN p
            ELSE [cur |-> c, prev |-> p.cur]]

\* What state.json will say of the three kinds.
Recorded ==
    [k \in Kinds |->
        LET p == job.old.at[k]
        IN  IF job.cand[k] = None THEN p
            ELSE IF job.op = "rollback" THEN [cur |-> p.prev, prev |-> p.cur]
            ELSE IF job.cand[k] = p.cur THEN p
            ELSE [cur |-> job.cand[k], prev |-> p.cur]]

\* Mutation: a failed write is reported and nothing is undone.
WriteStateGivesUp ==
    /\ pc = "write"
    /\ \/ state' = [state EXCEPT !.at = Recorded] /\ Goto("activate") /\ UNCHANGED job
       \/ Fails /\ UNCHANGED state
    /\ UNCHANGED <<store, group, unit, service>>

\* An install undoes its links only; the others go the way of a failed activation.
WriteState ==
    /\ pc = "write"
    /\ \/ state' = [state EXCEPT !.at = Recorded] /\ Goto("activate") /\ UNCHANGED job
       \/ /\ UNCHANGED state
          /\ \/ job.op \in Installs /\ Undo(Changed, job)
             \/ job.op \notin Installs /\ ActivationFailed
    /\ UNCHANGED <<store, group, unit, service>>

Checked == Goto(IF job.op = "rollback" THEN "succeeded" ELSE "prune")

Activated == IF job.old.selected THEN Goto("health") ELSE Checked

\* Mutation: whatever the operation, a running process is left alone.
ActivateWithoutRestart ==
    /\ pc = "activate"
    /\ \/ running # NoTriple /\ Activated /\ UNCHANGED <<service, job>>
       \/ running = NoTriple /\ StartXray /\ Activated /\ UNCHANGED job
       \/ StartXrayFails /\ ActivationFailed
    /\ UNCHANGED <<store, host>>

\* `systemctl enable --now` leaves a running process alone; an upgrade or a rollback
\* restarts it.  systemctl may also fail without having touched the service.
Activate ==
    /\ pc = "activate"
    /\ LET keeps == job.op \in Installs /\ running # NoTriple
       IN  \/ /\ keeps /\ Activated
              /\ started' = TRUE /\ UNCHANGED <<running, job>>
           \/ ~keeps /\ StartXray /\ Activated /\ UNCHANGED job
           \/ ~keeps /\ StartXrayFails /\ ActivationFailed
           \/ ActivationFailed /\ UNCHANGED service
    /\ UNCHANGED <<store, host>>

HealthCheck ==
    /\ pc = "health"
    /\ \/ /\ running # NoTriple /\ UNCHANGED job
          /\ IF job.op \in Installs THEN Goto("mark") ELSE Checked
       \/ ActivationFailed
    /\ UNCHANGED <<store, host, service>>

\* The time of the healthcheck goes to state.json; an error here undoes nothing, and is
\* returned although everything stays switched.
MarkHealthy ==
    /\ pc = "mark"
    /\ Checked \/ Goto("unmarked")
    /\ UNCHANGED <<store, host, service, job>>

\* Mutation: only what is current is protected.
PruneProtectsCurrent ==
    /\ pc = "prune"
    /\ dirs' = [k \in Kinds |-> dirs[k] \cap {links[k].cur}]
    /\ Goto("succeeded")
    /\ UNCHANGED <<links, damaged, nextGen, host, service, job>>

\* prune_owned_generations: the linked ones stay.  How many of the others stay, and
\* which, depends on limits, on modification times (a version that is used again is an
\* old directory) and on what .invalid- and .failed- directories take up.
Kept(k) == {gens \in SUBSET dirs[k] : dirs[k] \cap Linked(links[k]) \subseteq gens}

Prune ==
    /\ pc = "prune"
    /\ \E c \in Kept(Core), a \in Kept(Assets),
          g \in IF job.op = "upgrade" THEN {dirs[Config]} ELSE Kept(Config) :
        dirs' = [dirs EXCEPT ![Core] = c, ![Assets] = a, ![Config] = g]
    /\ Goto("succeeded")
    /\ UNCHANGED <<links, damaged, nextGen, host, service, job>>
--------------------------------------------------------------------------------
(* The way back.  A link that cannot be restored is passed over.           *)

\* restore_generation: `current`, then `previous`, from what state.json said.
RestoreCurrent ==
    /\ pc = "undoCur"
    /\ \/ /\ links' = [links EXCEPT ![job.kind] = PointCurrent(@, job.old.at[job.kind].cur)]
          /\ Goto("undoPrev") /\ UNCHANGED job
       \/ Undo(Earlier, [job EXCEPT !.clean = FALSE]) /\ UNCHANGED links
    /\ UNCHANGED <<dirs, damaged, nextGen, host, service>>

RestorePrevious ==
    /\ pc = "undoPrev"
    /\ \/ /\ links' = [links EXCEPT ![job.kind] = PointPrevious(@, job.old.at[job.kind].prev)]
          /\ Undo(Earlier, job)
       \/ Undo(Earlier, [job EXCEPT !.clean = FALSE]) /\ UNCHANGED links
    /\ UNCHANGED <<dirs, damaged, nextGen, host, service>>

RestoreState ==
    /\ pc = "writeOld"
    /\ \/ state' = job.old /\ Goto("reactivate") /\ UNCHANGED job
       \/ FailsHalfway /\ UNCHANGED state
    /\ UNCHANGED <<store, group, unit, service>>

\* The service is restarted with what is back; after a first install there is nothing
\* to restart.
Reactivate ==
    /\ pc = "reactivate"
    /\ LET first == job.op \in Installs /\ ~job.hadCore
       IN  \/ first /\ Fails /\ UNCHANGED service
           \/ ~first /\ (StartXray \/ StartXrayFails) /\ Fails
           \/ ~first /\ FailsHalfway /\ UNCHANGED service
    /\ UNCHANGED <<store, host>>
--------------------------------------------------------------------------------
(* apply_removal.                                                          *)

\* run_best_effort.
StopService ==
    /\ pc = "stop"
    /\ \/ running' = NoTriple /\ started' = FALSE
       \/ UNCHANGED service
    /\ Goto("rmUnit")
    /\ UNCHANGED <<store, host, job>>

RemoveUnit ==
    /\ pc = "rmUnit"
    /\ \/ /\ unit' = FALSE /\ UNCHANGED job
          /\ Goto(IF job.op = "purge" THEN "rmState" ELSE "reload")
       \/ unit' \in {unit, FALSE} /\ Fails
    /\ UNCHANGED <<store, state, group, service>>

\* remove_dir_all has removed these kinds, and leaves, when it fails at one more, any of
\* that one's links and any of its directories, of which one may be torn.
RemovedAll(gone) ==
    /\ links' = [k \in Kinds |-> IF k \in gone THEN NoLinks ELSE links[k]]
    /\ dirs' = [k \in Kinds |-> IF k \in gone THEN {} ELSE dirs[k]]

RemovedPart(gone, at) ==
    \E l \in [cur : {None, links[at].cur}, prev : {None, links[at].prev}],
      left \in SUBSET dirs[at] :
        /\ links' = [k \in Kinds |-> IF k \in gone THEN NoLinks
                                    ELSE IF k = at THEN l ELSE links[k]]
        /\ dirs' = [k \in Kinds |-> IF k \in gone THEN {}
                                   ELSE IF k = at THEN left ELSE dirs[k]]
        /\ damaged' = damaged \/ \E torn \in left : damaged' = damaged \cup {torn}

\* /var/lib/xray-manager, with state.json and the configurations.
RemoveState ==
    /\ pc = "rmState"
    /\ \/ /\ state' = NoState /\ RemovedAll({Config})
          /\ Goto("rmOpt") /\ UNCHANGED <<damaged, job>>
       \/ state' \in {state, NoState} /\ RemovedPart({}, Config) /\ Fails
    /\ UNCHANGED <<nextGen, group, unit, service>>

\* /opt/xray-manager: the core and the assets, in the order of the directory.
RemoveOpt ==
    /\ pc = "rmOpt"
    /\ \/ /\ RemovedAll({Core, Assets}) /\ damaged' = {}
          /\ Goto("rmGroup") /\ UNCHANGED job
       \/ /\ \E at \in {Core, Assets}, gone \in SUBSET {Core, Assets} :
                at \notin gone /\ RemovedPart(gone, at)
          /\ Fails
    /\ UNCHANGED <<nextGen, host, service>>

\* Mutation: the group is deleted by name.
RemoveGroupByName ==
    /\ pc = "rmGroup"
    /\ group' = "absent"
    /\ Goto("reload")
    /\ UNCHANGED <<store, state, unit, service, job>>

\* Only what state.json recorded, only a group without members, and best effort.
RemoveGroup ==
    /\ pc = "rmGroup"
    /\ group' \in IF job.old.created THEN {"absent", group} ELSE {group}
    /\ Goto("reload")
    /\ UNCHANGED <<store, state, unit, service, job>>

DaemonReload ==
    /\ pc = "reload"
    /\ \/ Goto("succeeded") /\ UNCHANGED job
       \/ Fails
    /\ UNCHANGED <<store, host, service>>
--------------------------------------------------------------------------------
(* The environment.                                                        *)

\* An apply by ManagerService that succeeds (module ConfigApply), in one step.
ApplyConfig ==
    /\ pc = "idle" /\ nextGen <= MaxGen
    /\ unit /\ \A k \in {Core, Assets} : links[k].cur \in dirs[k] \ damaged
    /\ links' = [links EXCEPT ![Config] = LinkCurrent(LinkPrevious(@), nextGen)]
    /\ dirs' = [dirs EXCEPT ![Config] = @ \cup {nextGen}]
    /\ nextGen' = nextGen + 1
    /\ \E selected \in {state.selected, TRUE} :
        state' = [state EXCEPT !.at[Config] = [cur |-> nextGen, prev |-> @.cur],
                               !.selected = selected]
    /\ running' = [Current EXCEPT ![Config] = nextGen] /\ started' = TRUE
    /\ UNCHANGED <<damaged, group, unit, pc, job>>

XrayExits ==
    /\ running # NoTriple
    /\ running' = NoTriple
    /\ UNCHANGED <<store, host, started, pc, job>>

SystemdRestarts ==
    /\ started /\ running = NoTriple
    /\ StartXray
    /\ UNCHANGED <<store, host, pc, job>>

\* A disk fault, or somebody's hand, between two operations.
Damage ==
    /\ Damages /\ pc = "idle" /\ Sound(Current)
    /\ \E k \in Kinds :
        \/ damaged' = damaged \cup {links[k].cur} /\ UNCHANGED dirs
        \/ dirs' = [dirs EXCEPT ![k] = @ \ {links[k].cur}] /\ UNCHANGED damaged
    /\ UNCHANGED <<links, nextGen, host, service, pc, job>>
--------------------------------------------------------------------------------
Operation ==
    \/ EnsureGroup \/ RecordCreated \/ WriteUnits
    \/ PrepareCore \/ QuarantineCore \/ PlaceCore \/ CheckCore \/ RestoreQuarantined
    \/ PrepareAssets \/ TestUpgrade \/ TestInstall
    \/ SwitchPrevious \/ SwitchCurrent \/ WriteState
    \/ Activate \/ HealthCheck \/ MarkHealthy \/ Prune
    \/ RestoreCurrent \/ RestorePrevious \/ RestoreState \/ Reactivate
    \/ StopService \/ RemoveUnit \/ RemoveState \/ RemoveOpt \/ RemoveGroup \/ DaemonReload
    \/ Return

Environment == ApplyConfig \/ XrayExits \/ SystemdRestarts \/ Damage

Next ==
    \/ Install \/ Upgrade \/ Rollback \/ Remove
    \/ (Operation \/ Crash \/ Environment) /\ UNCHANGED ops
    \/ pc = "idle" /\ ops = MaxOps /\ UNCHANGED vars   \* the bound, not a deadlock

Spec == Init /\ [][Next]_vars
--------------------------------------------------------------------------------
(* Properties.                                                             *)

Labels == {"idle", "group", "record", "unit", "core", "quarantine", "place", "checkCore",
           "unquarantine", "assets", "test", "switchPrev", "switchCur", "write",
           "activate", "health", "mark", "prune", "undoCur", "undoPrev", "writeOld",
           "reactivate", "stop", "rmUnit", "rmState", "rmOpt", "rmGroup", "reload",
           "failed", "refused", "succeeded", "unmarked"}

\* The core has versions, assets and configurations have generations.
NamesOf(k) == IF k = Core THEN Versions ELSE 1..MaxGen

\* Each kind is linked to, and recorded in state.json under, names of its own kind.
TypeOK ==
    /\ \A k \in Kinds : /\ links[k] \in Links(NamesOf(k))
                        /\ state.at[k] \in Links(NamesOf(k))
                        /\ dirs[k] \subseteq NamesOf(k)
    /\ damaged \subseteq AllNames /\ nextGen \in 1..(MaxGen + 1)
    /\ state.selected \in BOOLEAN /\ state.created \in BOOLEAN
    /\ ops \in 0..MaxOps
    /\ group \in {"absent", "foreign", "ours"} /\ unit \in BOOLEAN
    /\ started \in BOOLEAN /\ running \in Triples
    /\ pc \in Labels /\ job.op \in Changes \cup {"none", "uninstall", "purge"}

\* A rollback is undone by another one, which needs a `previous`: without a `current`
\* to take the place of, the first leaves none that leads back.
Reversible == job.op = "rollback" => job.was.links[job.kind].cur # None

\* A failed install, repair, upgrade or rollback that found links and state.json in
\* agreement leaves both as it found them, and sound artifacts sound.  The exceptions:
\*   - a switch_generation that failed after a rename: after that of `previous`, or in
\*     the fsync after that of `current` (portable.rs:483-493; job.clean);
\*   - a step of the undo that failed itself (job.clean);
\*   - a rollback that had no `current` to leave (Reversible);
\*   - an install that could not record its healthcheck and leaves everything switched
\*     (arch.rs:741-754): that one ends in "unmarked", see the next two properties.
FailureRestores ==
    /\ pc \in {"failed", "refused"} /\ job.op \in Changes
    /\ job.clean /\ job.was.synced /\ Reversible
    =>
        /\ links = job.was.links /\ state.at = job.was.links
        /\ job.was.sound => Sound(Current)

\* Whatever crash came before, after an install or repair that succeeds, or fails only to
\* record its healthcheck, the `current` links of core and assets and state.json agree
\* again (core_changed and assets_changed compare the candidate with both).  The
\* `previous` ones need not, after a crash between the switch and write_state
\* (portable.rs:483-488 takes it from the link, arch.rs:445-447 from state.json); they
\* do where both agreed before, and no `previous` was there without a `current`.
InstallReconciles ==
    pc \in Standing /\ job.op \in Installs =>
        \A k \in {Core, Assets} :
            /\ links[k].cur = state.at[k].cur
            /\ job.was.synced /\ (job.was.links[k].cur # None \/ job.was.links[k].prev = None)
               => links[k].prev = state.at[k].prev

\* What an install, repair or upgrade has made current, and leaves, is as a whole what
\* `xray run -test` accepted, and it is still there after pruning; also where the
\* healthcheck could not be recorded.
SuccessIsTested ==
    pc \in Standing /\ job.tested # NoTriple => Current = job.tested /\ Sound(Current)

\* When an upgrade or a rollback has ended, and when it has been undone, no process
\* runs from anything but what is current.
ChangeIsRunning ==
    \/ pc = "succeeded" /\ (job.op = "rollback" \/ (job.op = "upgrade" /\ job.tested # NoTriple))
    \/ pc = "failed" /\ job.op \in {"upgrade", "rollback"} /\ job.undoing /\ job.clean
    => running \in {Current, NoTriple}

\* After a successful upgrade of a sound system the way back is there: `previous` is
\* what was current, intact, for each kind that was upgraded.
UpgradeKeepsWayBack ==
    /\ pc = "succeeded" /\ job.op = "upgrade" /\ job.tested # NoTriple
    /\ job.was.synced /\ job.was.sound
    => \A k \in Changed : /\ links[k].prev = job.was.links[k].cur
                          /\ links[k].prev \in dirs[k] \ damaged

\* "healthy generations are not shifted into `previous` merely because repair was run"
\* (README): a repair of a sound system in agreement changes no link.
RepairKeepsHealthy ==
    pc = "succeeded" /\ job.op = "repair" /\ job.was.synced /\ job.was.sound =>
        links = job.was.links

\* A group that xrayctl did not create is never deleted, whatever install, crash and
\* purge went before (created_identities).
ForeignGroupStays == [][group = "foreign" => group' = "foreign"]_vars

\* "A missing or damaged current artifact is rebuilt" (README): a repair during which
\* no call to the outside fails succeeds.
RepairRebuilds == ~(pc = "refused" /\ job.op = "repair")
================================================================================
