------------------------------ MODULE ConfigApply ------------------------------
(***************************************************************************)
(* Activation of Xray configurations by xrayctl: ManagerService.execute in *)
(* crates/xray-manager-core/src/application.rs, for the operations that    *)
(* read or write the configuration generations, state.json, routing.toml,  *)
(* nodes.json and the service.                                             *)
(*                                                                         *)
(* Several xrayctl processes may run at once.  Each loads state.json into  *)
(* memory when it starts (mem), takes manager.lock for one operation, and  *)
(* works on its memory from then on: nothing reloads state.json once the   *)
(* lock is held.  A command-line process runs one operation and exits; a   *)
(* TUI stays and may select a node again and again.  Every call that       *)
(* changes something outside the process is a step of its own, so a crash, *)
(* an I/O error or an automatic restart of the service can fall between    *)
(* any two of them.                                                        *)
(*                                                                         *)
(* manager.lock lies in /run/xray-manager, which is the RuntimeDirectory   *)
(* of xray.service: systemd removes it, with the lock file in it, whenever *)
(* the service stops.  An flock on a file that is gone keeps nobody out.   *)
(***************************************************************************)
EXTENDS GenerationStore

CONSTANTS
    Procs,           \* xrayctl processes
    Tuis,            \* those of them that run the terminal interface
    Nodes,           \* proxy nodes (a node is its fingerprint)
    Subs,            \* subscriptions
    SubOf,           \* the subscription of a node
    NameOf,          \* the normalized name of a node
    Renderable,      \* nodes the renderer accepts
    Routings,        \* routing configurations
    DefaultRouting,  \* the preset used when routing.toml does not exist
    MaxGen,          \* bound on the number of generations ever created
    Keep,            \* general.keep_generations
    LockFileKept,    \* does manager.lock survive a stop of the service?
    Crashes,         \* may a process die between two steps?
    IoErrors         \* may a file system or systemctl call fail?

ASSUME ConfigAssumption ==
    /\ Tuis \subseteq Procs
    /\ None \notin Procs \cup Nodes \cup Routings
    /\ SubOf \in [Nodes -> Subs]
    /\ DefaultRouting \in Routings
    /\ MaxGen \in Nat /\ MaxGen > 0
    /\ Keep \in Nat
    /\ LockFileKept \in BOOLEAN
    /\ Crashes \in BOOLEAN /\ IoErrors \in BOOLEAN

VARIABLES
    \* shared, on disk
    ptr,          \* the links /var/lib/xray-manager/{current,previous}
    dirs,         \* directories under generations/
    nextGen,      \* the next generation name
    conf,         \* what each generation was rendered from
    stateFile,    \* state.json
    routingFile,  \* routing.toml, None when it does not exist
    nodesFile,    \* nodes.json
    lock,         \* the holder of the lock on the file manager.lock
    \* the service
    running,      \* the generation the xray process was started from
    wanted,       \* xray.service is started (systemd restarts it on failure)
    \* of each process
    pc, op, mem, want, cand, old, saved,
    \* history
    validated,    \* generations that passed `xray run -test`
    was           \* links, files and memory when the operation took the lock

disk == <<ptr, dirs, nextGen, conf, stateFile, routingFile, nodesFile>>
service == <<running, wanted>>
local == <<op, mem, want, cand, old, saved>>
vars == <<ptr, dirs, nextGen, conf, stateFile, routingFile, nodesFile, lock,
          running, wanted, pc, op, mem, want, cand, old, saved, validated, was>>

Gens == 1..MaxGen
GenOrNone == Gens \cup {None}
NodeOrNone == Nodes \cup {None}
RoutingOrNone == Routings \cup {None}
State == [cur : GenOrNone, prev : GenOrNone, sel : NodeOrNone]
Conf == [node : NodeOrNone, routing : Routings]

NoState == [cur |-> None, prev |-> None, sel |-> None]
NoConf == [node |-> None, routing |-> DefaultRouting]

ApplyPcs == {"prepare", "validate", "switchPrev", "switchCur", "commit",
             "activate", "restart", "health", "healthy", "prune",
             "undoCur", "undoPrev", "restoreCur", "restorePrev",
             "unstate", "rerestart", "discard", "unroute"}
RollbackPcs == {"switchPrev", "switchCur", "rbCommit", "rbRestart", "rbHealth",
                "rbHealthy", "rbUndoPrev", "rbUndoCur", "rbUnstate",
                "rbRerestart"}
IdlePcs == {"off", "idle"}
ServicePcs == {"svcStart", "svcStop", "svcRestart"}
Pcs == IdlePcs \cup ApplyPcs \cup RollbackPcs \cup ServicePcs
               \cup {"reconcile", "failed", "succeeded"}
Ops == {"none", "apply", "routing", "rollback", "refresh", "other"}

Snapshot == [ptr : Links(Gens), state : State, mem : State,
             routing : RoutingOrNone]
NoSnapshot == [ptr |-> [cur |-> None, prev |-> None], state |-> NoState,
               mem |-> NoState, routing |-> None]

--------------------------------------------------------------------------------
\* After `xrayctl install`: one validated generation with the blackhole outbound,
\* linked as current, named by state.json and running; routing.toml is the default.
Init ==
    /\ ptr = [cur |-> 1, prev |-> None]
    /\ dirs = {1}
    /\ nextGen = 2
    /\ conf = [g \in Gens |-> NoConf]
    /\ stateFile = [cur |-> 1, prev |-> None, sel |-> None]
    /\ routingFile = DefaultRouting
    /\ nodesFile \in SUBSET Nodes
    /\ lock = None
    /\ running = 1
    /\ wanted = TRUE
    /\ pc = [p \in Procs |-> "off"]
    /\ op = [p \in Procs |-> "none"]
    /\ mem = [p \in Procs |-> NoState]
    /\ want = [p \in Procs |-> None]
    /\ cand = [p \in Procs |-> None]
    /\ old = [p \in Procs |-> NoState]
    /\ saved = [p \in Procs |-> None]
    /\ validated = {1}
    /\ was = [p \in Procs |-> NoSnapshot]

Goto(p, label) == pc' = [pc EXCEPT ![p] = label]

\* Who holds the lock on the file manager.lock, after a step that stopped the
\* service (or did not).
LockLeft(stopped) == IF LockFileKept \/ ~stopped THEN lock ELSE None

\* xray.service is (re)started from the generation `current` names; ExecStartPre
\* fails when that directory is gone.  A failed start leaves the unit to be
\* restarted by systemd; with systemctl out of order nothing happens at all.
StartXray ==
    /\ wanted' = TRUE
    /\ ptr.cur \in dirs
    /\ running' = ptr.cur
    /\ lock' = LockLeft(running # None)

StartXrayFails ==
    \/ wanted' = TRUE /\ running' = None /\ lock' = LockLeft(TRUE)
    \/ IoErrors /\ UNCHANGED <<service, lock>>

\* write_atomic that succeeds or that fails, before or after the rename.
WriteStateFails(s) == IoErrors /\ stateFile' \in {stateFile, s}

WriteState(p, s) ==
    /\ stateFile' = s
    /\ mem' = [mem EXCEPT ![p] = s]

\* remove_owned of the candidate, its result ignored.
RemoveCandidate(p) ==
    \/ dirs' = dirs \ {cand[p]}
    \/ IoErrors /\ dirs' = dirs

\* apply_config returns Err: write_routing_and_apply puts routing.toml back.
ApplyFailed(p) == Goto(p, IF op[p] = "routing" THEN "unroute" ELSE "failed")

\* selected_node: the node of that id in nodes.json, None if it is not there.
SelectedNode(sel) == IF sel \in nodesFile THEN sel ELSE None

Effective(routing) == IF routing = None THEN DefaultRouting ELSE routing
--------------------------------------------------------------------------------
(* Processes.                                                              *)

\* compose: state.json is loaded before any lock is taken.
Compose(p) ==
    /\ pc[p] = "off"
    /\ mem' = [mem EXCEPT ![p] = stateFile]
    /\ Goto(p, "idle")
    /\ UNCHANGED <<disk, service, lock, op, want, cand, old, saved, validated, was>>

\* The user leaves the TUI.
Quit(p) ==
    /\ pc[p] = "idle" /\ p \in Tuis
    /\ mem' = [mem EXCEPT ![p] = NoState]
    /\ Goto(p, "off")
    /\ UNCHANGED <<disk, service, lock, op, want, cand, old, saved, validated, was>>

\* acquire_lock does not wait: LockContention ends the operation.
Contend(p) ==
    /\ pc[p] = "idle" /\ lock # None /\ p \notin Tuis
    /\ mem' = [mem EXCEPT ![p] = NoState]
    /\ Goto(p, "off")
    /\ UNCHANGED <<disk, service, lock, op, want, cand, old, saved, validated, was>>

\* Mutation: acquire_lock does not look at the lock.
AcquireUnchecked(p, operation) ==
    /\ pc[p] = "idle"
    /\ lock' = p
    /\ op' = [op EXCEPT ![p] = operation]
    /\ was' = [was EXCEPT ![p] = [ptr |-> ptr, state |-> stateFile,
                                  mem |-> mem[p], routing |-> routingFile]]

Acquire(p, operation) ==
    /\ pc[p] = "idle" /\ lock = None
    /\ lock' = p
    /\ op' = [op EXCEPT ![p] = operation]
    /\ was' = [was EXCEPT ![p] = [ptr |-> ptr, state |-> stateFile,
                                  mem |-> mem[p], routing |-> routingFile]]

\* The operation returns and its guard is dropped.
Release(p) ==
    /\ pc[p] \in {"failed", "succeeded"}
    /\ lock' = IF lock = p THEN None ELSE lock
    /\ Goto(p, IF p \in Tuis THEN "idle" ELSE "off")
    /\ mem' = IF p \in Tuis THEN mem ELSE [mem EXCEPT ![p] = NoState]
    /\ op' = [op EXCEPT ![p] = "none"]
    /\ want' = [want EXCEPT ![p] = None]
    /\ cand' = [cand EXCEPT ![p] = None]
    /\ old' = [old EXCEPT ![p] = NoState]
    /\ saved' = [saved EXCEPT ![p] = None]
    /\ was' = [was EXCEPT ![p] = NoSnapshot]
    /\ UNCHANGED <<disk, service, validated>>

\* The process dies; the kernel releases its flock.
Crash(p) ==
    /\ Crashes /\ pc[p] # "off"
    /\ lock' = IF lock = p THEN None ELSE lock
    /\ Goto(p, "off")
    /\ mem' = [mem EXCEPT ![p] = NoState]
    /\ op' = [op EXCEPT ![p] = "none"]
    /\ want' = [want EXCEPT ![p] = None]
    /\ cand' = [cand EXCEPT ![p] = None]
    /\ old' = [old EXCEPT ![p] = NoState]
    /\ saved' = [saved EXCEPT ![p] = None]
    /\ was' = [was EXCEPT ![p] = NoSnapshot]
    /\ UNCHANGED <<disk, service, validated>>
--------------------------------------------------------------------------------
(* Starting an operation that applies a configuration.                     *)

\* Operation::NodeSelect: an id that matches no node or several, or a Hysteria2
\* node with unconfirmed parameters, is refused.
NodeSelect(p) ==
    /\ Acquire(p, "apply") /\ nextGen <= MaxGen
    /\ \/ \E n \in nodesFile : want' = [want EXCEPT ![p] = n] /\ Goto(p, "prepare")
       \/ Goto(p, "failed") /\ UNCHANGED want
    /\ UNCHANGED <<disk, service, mem, cand, old, saved, validated>>

\* Operation::Apply and RoutingApply: the saved selection, or the blackhole.
Apply(p) ==
    /\ Acquire(p, "apply") /\ nextGen <= MaxGen /\ p \notin Tuis
    /\ want' = [want EXCEPT ![p] = SelectedNode(mem[p].sel)]
    /\ Goto(p, "prepare")
    /\ UNCHANGED <<disk, service, mem, cand, old, saved, validated>>

\* write_routing_and_apply up to apply_config; an error of write_atomic, or of
\* reading nodes.json after it, returns at once.
SetRouting(p) ==
    /\ Acquire(p, "routing") /\ nextGen <= MaxGen /\ p \notin Tuis
    /\ \E r \in Routings :
        \/ /\ routingFile' = r
           /\ want' = [want EXCEPT ![p] = SelectedNode(mem[p].sel)]
           /\ saved' = [saved EXCEPT ![p] = routingFile]
           /\ Goto(p, "prepare")
        \/ /\ IoErrors
           /\ routingFile' \in {routingFile, r}
           /\ Goto(p, "failed")
           /\ UNCHANGED <<want, saved>>
    /\ UNCHANGED <<ptr, dirs, nextGen, conf, stateFile, nodesFile, service, mem,
                   cand, old, validated>>
--------------------------------------------------------------------------------
(* apply_config.                                                           *)

\* Mutation: the saved selection is rendered instead of the requested node.
PrepareSavedNode(p) ==
    /\ pc[p] = "prepare" /\ nextGen <= MaxGen
    /\ dirs' = dirs \cup {nextGen}
    /\ conf' = [conf EXCEPT ![nextGen] =
                   [node |-> mem[p].sel, routing |-> Effective(routingFile)]]
    /\ cand' = [cand EXCEPT ![p] = nextGen]
    /\ nextGen' = nextGen + 1
    /\ Goto(p, "validate")
    /\ UNCHANGED <<ptr, stateFile, routingFile, nodesFile, service, lock, op, mem,
                   want, old, saved, validated, was>>

\* Render, choose a name, create the candidate and write its files.  The renderer
\* refuses some nodes, a bad routing.toml and bad fragments.
Prepare(p) ==
    /\ pc[p] = "prepare" /\ nextGen <= MaxGen
    /\ \/ /\ want[p] \in Renderable \cup {None}
          /\ dirs' = dirs \cup {nextGen}
          /\ conf' = [conf EXCEPT ![nextGen] =
                         [node |-> want[p], routing |-> Effective(routingFile)]]
          /\ cand' = [cand EXCEPT ![p] = nextGen]
          /\ nextGen' = nextGen + 1
          /\ Goto(p, "validate")
       \/ /\ IoErrors /\ dirs' \in {dirs, dirs \cup {nextGen}}
          /\ nextGen' = nextGen + 1
          /\ ApplyFailed(p)
          /\ UNCHANGED <<conf, cand>>
       \/ /\ ApplyFailed(p)
          /\ UNCHANGED <<dirs, nextGen, conf, cand>>
    /\ UNCHANGED <<ptr, stateFile, routingFile, nodesFile, service, lock, op, mem,
                   want, old, saved, validated, was>>

\* Mutation: the result of test_config is ignored.
ValidateIgnored(p) ==
    /\ pc[p] = "validate"
    /\ validated' \in {validated, validated \cup {cand[p]}}
    /\ old' = [old EXCEPT ![p] = mem[p]]
    /\ Goto(p, "switchPrev")
    /\ UNCHANGED <<ptr, dirs, nextGen, conf, stateFile, routingFile, nodesFile,
                   service, lock, op, mem, want, cand, saved, was>>

\* test_config and set_ownership; then previous_state is read from memory.
Validate(p) ==
    /\ pc[p] = "validate"
    /\ \/ /\ validated' = validated \cup {cand[p]}
          /\ old' = [old EXCEPT ![p] = mem[p]]
          /\ Goto(p, "switchPrev")
          /\ UNCHANGED dirs
       \/ /\ RemoveCandidate(p)
          /\ ApplyFailed(p)
          /\ UNCHANGED <<validated, old>>
    /\ UNCHANGED <<ptr, nextGen, conf, stateFile, routingFile, nodesFile, service,
                   lock, op, mem, want, cand, saved, was>>

\* switch_generation returns Err: apply_config discards the candidate and leaves
\* the links as they are; ConfigRollback returns.
SwitchFailed(p) ==
    IF op[p] = "rollback"
    THEN Goto(p, "failed") /\ UNCHANGED dirs
    ELSE RemoveCandidate(p) /\ ApplyFailed(p)

SwitchPrevious(p) ==
    /\ pc[p] = "switchPrev"
    /\ \/ ptr' = LinkPrevious(ptr) /\ Goto(p, "switchCur") /\ UNCHANGED dirs
       \/ IoErrors /\ SwitchFailed(p) /\ UNCHANGED ptr
    /\ UNCHANGED <<nextGen, conf, stateFile, routingFile, nodesFile, service, lock,
                   local, validated, was>>

SwitchCurrent(p) ==
    /\ pc[p] = "switchCur"
    /\ \/ /\ ptr' = LinkCurrent(ptr, cand[p])
          /\ Goto(p, IF op[p] = "rollback" THEN "rbCommit" ELSE "commit")
          /\ UNCHANGED dirs
       \/ IoErrors /\ ptr' \in {ptr, LinkCurrent(ptr, cand[p])} /\ SwitchFailed(p)
    /\ UNCHANGED <<nextGen, conf, stateFile, routingFile, nodesFile, service, lock,
                   local, validated, was>>

\* Mutation: the previous generation is not moved along.
CommitKeepsPrevious(p) ==
    /\ pc[p] = "commit"
    /\ WriteState(p, [cur |-> cand[p], prev |-> old[p].prev, sel |-> want[p]])
    /\ Goto(p, "activate")
    /\ UNCHANGED <<ptr, dirs, nextGen, conf, routingFile, nodesFile, service, lock,
                   op, want, cand, old, saved, validated, was>>

\* Mutation: an error of write_state is ignored.
CommitIgnoresError(p) ==
    /\ pc[p] = "commit"
    /\ LET s == [cur |-> cand[p], prev |-> old[p].cur, sel |-> want[p]]
       IN  WriteState(p, s) \/ (WriteStateFails(s) /\ UNCHANGED mem)
    /\ Goto(p, "activate")
    /\ UNCHANGED <<ptr, dirs, nextGen, conf, routingFile, nodesFile, service, lock,
                   op, want, cand, old, saved, validated, was>>

\* write_state of the new current, previous and selection.
Commit(p) ==
    /\ pc[p] = "commit"
    /\ LET s == [cur |-> cand[p], prev |-> old[p].cur, sel |-> want[p]]
       IN  \/ WriteState(p, s) /\ Goto(p, "activate")
           \/ WriteStateFails(s) /\ Goto(p, "undoCur") /\ UNCHANGED mem
    /\ UNCHANGED <<ptr, dirs, nextGen, conf, routingFile, nodesFile, service, lock,
                   op, want, cand, old, saved, validated, was>>

\* The TUN policy unit is brought in line with tun.enabled and xray.service is
\* enabled; any of these may fail.
Activate(p) ==
    /\ pc[p] = "activate"
    /\ Goto(p, "restart") \/ Goto(p, "restoreCur")
    /\ UNCHANGED <<disk, service, lock, local, validated, was>>

Restart(p) ==
    /\ pc[p] = "restart"
    /\ \/ StartXray /\ Goto(p, IF want[p] # None THEN "health" ELSE "prune")
       \/ StartXrayFails /\ Goto(p, "restoreCur")
    /\ UNCHANGED <<disk, local, validated, was>>

\* Mutation: an unhealthy service is restarted once more, and again.
HealthCheckRetries(p) ==
    /\ pc[p] = "health"
    /\ \/ running # None /\ Goto(p, "healthy")
       \/ Goto(p, "restart")
    /\ UNCHANGED <<disk, service, lock, local, validated, was>>

HealthCheck(p) ==
    /\ pc[p] = "health"
    /\ \/ running # None /\ Goto(p, "healthy")
       \/ Goto(p, "restoreCur")
    /\ UNCHANGED <<disk, service, lock, local, validated, was>>

\* write_state with the time of the healthcheck; an error is returned although
\* the configuration is active.
RecordHealthy(p) ==
    /\ pc[p] = "healthy"
    /\ \/ WriteState(p, mem[p]) /\ Goto(p, "prune")
       \/ WriteStateFails(mem[p]) /\ ApplyFailed(p) /\ UNCHANGED mem
    /\ UNCHANGED <<ptr, dirs, nextGen, conf, routingFile, nodesFile, service, lock,
                   op, want, cand, old, saved, validated, was>>

\* prune_generations stops at the first directory it cannot remove; its result
\* is ignored.
Prune(p) ==
    /\ pc[p] = "prune"
    /\ LET kept == Pruned(dirs, ptr, Keep)
       IN  \/ dirs' = kept
           \/ IoErrors /\ \E more \in SUBSET (dirs \ kept) : dirs' = kept \cup more
    /\ Goto(p, "succeeded")
    /\ UNCHANGED <<ptr, nextGen, conf, stateFile, routingFile, nodesFile, service,
                   lock, local, validated, was>>

\* Mutation: restore_generation does not touch `current`.
RestoreCurrentSkipped(p) ==
    /\ pc[p] \in {"undoCur", "restoreCur"}
    /\ Goto(p, IF pc[p] = "undoCur" THEN "undoPrev" ELSE "restorePrev")
    /\ UNCHANGED <<disk, service, lock, local, validated, was>>

\* Mutation: the arguments of restore_generation are exchanged.
RestoreCurrentExchanged(p) ==
    /\ pc[p] \in {"undoCur", "restoreCur"}
    /\ ptr' = PointCurrent(ptr, old[p].prev)
    /\ Goto(p, IF pc[p] = "undoCur" THEN "undoPrev" ELSE "restorePrev")
    /\ UNCHANGED <<dirs, nextGen, conf, stateFile, routingFile, nodesFile, service,
                   lock, local, validated, was>>

\* restore_generation after a failed write_state (best effort) and after a failed
\* activation (its error is returned): the links get what memory named before.
RestoreCurrent(p) ==
    /\ pc[p] \in {"undoCur", "restoreCur"}
    /\ LET restored == PointCurrent(ptr, old[p].cur)
       IN  \/ /\ ptr' = restored
              /\ Goto(p, IF pc[p] = "undoCur" THEN "undoPrev" ELSE "restorePrev")
           \/ /\ IoErrors /\ ptr' \in {ptr, restored}
              /\ IF pc[p] = "undoCur" THEN Goto(p, "discard") ELSE ApplyFailed(p)
    /\ UNCHANGED <<dirs, nextGen, conf, stateFile, routingFile, nodesFile, service,
                   lock, local, validated, was>>

\* Mutation: restore_generation does not touch `previous`.
RestorePreviousSkipped(p) ==
    /\ pc[p] \in {"undoPrev", "restorePrev"}
    /\ Goto(p, IF pc[p] = "undoPrev" THEN "discard" ELSE "unstate")
    /\ UNCHANGED <<disk, service, lock, local, validated, was>>

RestorePrevious(p) ==
    /\ pc[p] \in {"undoPrev", "restorePrev"}
    /\ LET restored == PointPrevious(ptr, old[p].prev)
       IN  \/ /\ ptr' = restored
              /\ Goto(p, IF pc[p] = "undoPrev" THEN "discard" ELSE "unstate")
           \/ /\ IoErrors /\ ptr' \in {ptr, restored}
              /\ IF pc[p] = "undoPrev" THEN Goto(p, "discard") ELSE ApplyFailed(p)
    /\ UNCHANGED <<dirs, nextGen, conf, stateFile, routingFile, nodesFile, service,
                   lock, local, validated, was>>

RestoreState(p) ==
    /\ pc[p] = "unstate"
    /\ \/ WriteState(p, old[p]) /\ Goto(p, "rerestart")
       \/ WriteStateFails(old[p]) /\ ApplyFailed(p) /\ UNCHANGED mem
    /\ UNCHANGED <<ptr, dirs, nextGen, conf, routingFile, nodesFile, service, lock,
                   op, want, cand, old, saved, validated, was>>

\* Mutation: the service is not restarted on the restored generation.
RestartRestoredSkipped(p) ==
    /\ pc[p] = "rerestart"
    /\ Goto(p, "discard")
    /\ UNCHANGED <<disk, service, lock, local, validated, was>>

RestartRestored(p) ==
    /\ pc[p] = "rerestart"
    /\ StartXray \/ StartXrayFails
    /\ Goto(p, "discard")
    /\ UNCHANGED <<disk, local, validated, was>>

Discard(p) ==
    /\ pc[p] = "discard"
    /\ RemoveCandidate(p)
    /\ ApplyFailed(p)
    /\ UNCHANGED <<ptr, nextGen, conf, stateFile, routingFile, nodesFile, service,
                   lock, local, validated, was>>

\* Mutation: routing.toml keeps the routing that could not be applied.
RestoreRoutingSkipped(p) ==
    /\ pc[p] = "unroute"
    /\ Goto(p, "failed")
    /\ UNCHANGED <<disk, service, lock, local, validated, was>>

RestoreRouting(p) ==
    /\ pc[p] = "unroute"
    /\ \/ routingFile' = saved[p]
       \/ IoErrors /\ UNCHANGED routingFile
    /\ Goto(p, "failed")
    /\ UNCHANGED <<ptr, dirs, nextGen, conf, stateFile, nodesFile, service, lock,
                   local, validated, was>>
--------------------------------------------------------------------------------
(* Operation::ConfigRollback and commit_generation_rollback.               *)

\* rollback_generation reads the previous link first and fails without one.
ConfigRollback(p) ==
    /\ Acquire(p, "rollback") /\ p \notin Tuis
    /\ \/ /\ ptr.prev # None
          /\ cand' = [cand EXCEPT ![p] = ptr.prev]
          /\ old' = [old EXCEPT ![p] = mem[p]]
          /\ Goto(p, "switchPrev")
       \/ /\ ptr.prev = None
          /\ Goto(p, "failed")
          /\ UNCHANGED <<cand, old>>
    /\ UNCHANGED <<disk, service, mem, want, saved, validated>>

\* Mutation: std::mem::swap of the generation and the selected node.
RollbackCommitWrongSwap(p) ==
    /\ pc[p] = "rbCommit"
    /\ WriteState(p, [cur |-> old[p].sel, prev |-> old[p].prev, sel |-> old[p].cur])
    /\ Goto(p, "rbRestart")
    /\ UNCHANGED <<ptr, dirs, nextGen, conf, routingFile, nodesFile, service, lock,
                   op, want, cand, old, saved, validated, was>>

RollbackCommit(p) ==
    /\ pc[p] = "rbCommit"
    /\ LET s == [cur |-> old[p].prev, prev |-> old[p].cur, sel |-> old[p].sel]
       IN  \/ WriteState(p, s) /\ Goto(p, "rbRestart")
           \/ WriteStateFails(s) /\ Goto(p, "rbUndoPrev") /\ UNCHANGED mem
    /\ UNCHANGED <<ptr, dirs, nextGen, conf, routingFile, nodesFile, service, lock,
                   op, want, cand, old, saved, validated, was>>

RollbackRestart(p) ==
    /\ pc[p] = "rbRestart"
    /\ \/ StartXray /\ Goto(p, IF old[p].sel # None THEN "rbHealth" ELSE "succeeded")
       \/ StartXrayFails /\ Goto(p, "rbUndoPrev")
    /\ UNCHANGED <<disk, local, validated, was>>

RollbackHealthCheck(p) ==
    /\ pc[p] = "rbHealth"
    /\ \/ running # None /\ Goto(p, "rbHealthy")
       \/ Goto(p, "rbUndoPrev")
    /\ UNCHANGED <<disk, service, lock, local, validated, was>>

RollbackRecordHealthy(p) ==
    /\ pc[p] = "rbHealthy"
    /\ \/ WriteState(p, mem[p]) /\ Goto(p, "succeeded")
       \/ WriteStateFails(mem[p]) /\ Goto(p, "rbUndoPrev") /\ UNCHANGED mem
    /\ UNCHANGED <<ptr, dirs, nextGen, conf, routingFile, nodesFile, service, lock,
                   op, want, cand, old, saved, validated, was>>

\* Mutation: a failed rollback restores state.json but not the links.
RollbackUndoSkipped(p) ==
    /\ pc[p] = "rbUndoPrev"
    /\ Goto(p, "rbUnstate")
    /\ UNCHANGED <<disk, service, lock, local, validated, was>>

\* The rollback is undone by a second rollback_generation, its result ignored.
RollbackUndoPrevious(p) ==
    /\ pc[p] = "rbUndoPrev"
    /\ \/ /\ ptr.prev # None
          /\ cand' = [cand EXCEPT ![p] = ptr.prev]
          /\ ptr' = LinkPrevious(ptr)
          /\ Goto(p, "rbUndoCur")
       \/ /\ IoErrors \/ ptr.prev = None
          /\ Goto(p, "rbUnstate")
          /\ UNCHANGED <<ptr, cand>>
    /\ UNCHANGED <<dirs, nextGen, conf, stateFile, routingFile, nodesFile, service,
                   lock, op, mem, want, old, saved, validated, was>>

RollbackUndoCurrent(p) ==
    /\ pc[p] = "rbUndoCur"
    /\ \/ ptr' = LinkCurrent(ptr, cand[p])
       \/ IoErrors /\ UNCHANGED ptr
    /\ Goto(p, "rbUnstate")
    /\ UNCHANGED <<dirs, nextGen, conf, stateFile, routingFile, nodesFile, service,
                   lock, local, validated, was>>

RollbackRestoreState(p) ==
    /\ pc[p] = "rbUnstate"
    /\ \/ WriteState(p, old[p]) /\ Goto(p, "rbRerestart")
       \/ WriteStateFails(old[p]) /\ Goto(p, "failed") /\ UNCHANGED mem
    /\ UNCHANGED <<ptr, dirs, nextGen, conf, routingFile, nodesFile, service, lock,
                   op, want, cand, old, saved, validated, was>>

RollbackRestartRestored(p) ==
    /\ pc[p] = "rbRerestart"
    /\ StartXray \/ StartXrayFails
    /\ Goto(p, "failed")
    /\ UNCHANGED <<disk, local, validated, was>>
--------------------------------------------------------------------------------
(* Subscriptions, as far as they move the selection.                       *)

\* reconcile_selected: the same node, or the only one of that name in that
\* subscription.
Reconciled(sel, nodes) ==
    LET same == {n \in nodes : SubOf[n] = SubOf[sel] /\ NameOf[n] = NameOf[sel]}
    IN  IF sel \in nodes THEN sel
        ELSE IF \E n \in same : same = {n} THEN CHOOSE n \in same : TRUE
        ELSE None

\* write_nodes, and whether a different node has to be recorded as selected.
StoreNodes(p, nodes) ==
    LET sel  == SelectedNode(mem[p].sel)
        repl == IF sel = None THEN None ELSE Reconciled(sel, nodes)
    IN  /\ nodesFile' = nodes
        /\ IF repl \in {None, sel}
           THEN Goto(p, "succeeded") /\ UNCHANGED want
           ELSE Goto(p, "reconcile") /\ want' = [want EXCEPT ![p] = repl]

\* refresh_subscriptions: nothing is written until every download succeeded;
\* then nodes.json, then the reconciled selection.
SubscriptionRefresh(p) ==
    /\ Acquire(p, "refresh") /\ p \notin Tuis
    /\ \/ \E subs \in SUBSET Subs :
          \E fresh \in SUBSET {n \in Nodes : SubOf[n] \in subs} :
            LET nodes == {n \in nodesFile : SubOf[n] \notin subs} \cup fresh
            IN  \/ StoreNodes(p, nodes)
                \/ /\ IoErrors /\ nodesFile' = nodes
                   /\ Goto(p, "failed") /\ UNCHANGED want
       \/ Goto(p, "failed") /\ UNCHANGED <<nodesFile, want>>
    /\ UNCHANGED <<ptr, dirs, nextGen, conf, stateFile, routingFile, service, mem,
                   cand, old, saved, validated>>

Reconcile(p) ==
    /\ pc[p] = "reconcile"
    /\ LET s == [mem[p] EXCEPT !.sel = want[p]]
       IN  \/ WriteState(p, s) /\ Goto(p, "succeeded")
           \/ WriteStateFails(s) /\ Goto(p, "failed") /\ UNCHANGED mem
    /\ UNCHANGED <<ptr, dirs, nextGen, conf, routingFile, nodesFile, service, lock,
                   op, want, cand, old, saved, validated, was>>

\* Operation::SubscriptionRemove: refused when memory selects one of its nodes.
SubscriptionRemove(p) ==
    /\ Acquire(p, "other") /\ p \notin Tuis
    /\ \E s \in Subs :
        LET refused == mem[p].sel \in nodesFile /\ SubOf[mem[p].sel] = s
            rest    == {n \in nodesFile : SubOf[n] # s}
        IN  \/ ~refused /\ nodesFile' = rest /\ Goto(p, "succeeded")
            \/ IoErrors /\ ~refused /\ nodesFile' \in {nodesFile, rest} /\ Goto(p, "failed")
            \/ refused /\ Goto(p, "failed") /\ UNCHANGED nodesFile
    /\ UNCHANGED <<ptr, dirs, nextGen, conf, stateFile, routingFile, service, mem,
                   want, cand, old, saved, validated>>
--------------------------------------------------------------------------------
(* The service.                                                            *)

ServiceOperation(p) ==
    /\ Acquire(p, "other") /\ p \notin Tuis
    /\ \E label \in ServicePcs : Goto(p, label)
    /\ UNCHANGED <<disk, service, mem, want, cand, old, saved, validated>>

\* Operation::ServiceStart: systemctl start of an active unit does nothing.
ServiceStart(p) ==
    /\ pc[p] = "svcStart"
    /\ \/ running # None /\ Goto(p, "succeeded") /\ UNCHANGED <<service, lock>>
       \/ running = None /\ StartXray /\ Goto(p, "succeeded")
       \/ running = None /\ StartXrayFails /\ Goto(p, "failed")
    /\ UNCHANGED <<disk, local, validated, was>>

\* Operation::ServiceStop.
ServiceStop(p) ==
    /\ pc[p] = "svcStop"
    /\ \/ /\ running' = None /\ wanted' = FALSE
          /\ lock' = LockLeft(running # None)
          /\ Goto(p, "succeeded")
       \/ IoErrors /\ Goto(p, "failed") /\ UNCHANGED <<service, lock>>
    /\ UNCHANGED <<disk, local, validated, was>>

\* Operation::ServiceRestart.
ServiceRestart(p) ==
    /\ pc[p] = "svcRestart"
    /\ \/ StartXray /\ Goto(p, "succeeded")
       \/ StartXrayFails /\ Goto(p, "failed")
    /\ UNCHANGED <<disk, local, validated, was>>

\* The xray process dies; Restart=on-failure starts it again from `current`.
XrayExits ==
    /\ running # None
    /\ running' = None
    /\ lock' = LockLeft(TRUE)
    /\ UNCHANGED <<disk, wanted, pc, local, validated, was>>

SystemdRestarts ==
    /\ wanted /\ running = None
    /\ StartXray
    /\ UNCHANGED <<disk, pc, local, validated, was>>
--------------------------------------------------------------------------------
Begin(p) ==
    \/ NodeSelect(p) \/ Apply(p) \/ SetRouting(p) \/ ConfigRollback(p)
    \/ SubscriptionRefresh(p) \/ SubscriptionRemove(p)
    \/ ServiceOperation(p)

\* The steps of an operation under way.
Continue(p) ==
    \/ Prepare(p) \/ Validate(p) \/ SwitchPrevious(p) \/ SwitchCurrent(p)
    \/ Commit(p) \/ Activate(p) \/ Restart(p) \/ HealthCheck(p)
    \/ RecordHealthy(p) \/ Prune(p)
    \/ RestoreCurrent(p) \/ RestorePrevious(p) \/ RestoreState(p)
    \/ RestartRestored(p) \/ Discard(p) \/ RestoreRouting(p)
    \/ RollbackCommit(p) \/ RollbackRestart(p) \/ RollbackHealthCheck(p)
    \/ RollbackRecordHealthy(p) \/ RollbackUndoPrevious(p)
    \/ RollbackUndoCurrent(p) \/ RollbackRestoreState(p)
    \/ RollbackRestartRestored(p)
    \/ ServiceStart(p) \/ ServiceStop(p) \/ ServiceRestart(p)
    \/ Reconcile(p) \/ Release(p)

Environment == XrayExits \/ SystemdRestarts

Next ==
    \/ \E p \in Procs : \/ Compose(p) \/ Quit(p) \/ Contend(p)
                        \/ Begin(p) \/ Continue(p) \/ Crash(p)
    \/ Environment

Spec == Init /\ [][Next]_vars

\* Once an operation has started, the process goes on with it: every external
\* call it makes is bounded by a timeout or by systemd's job timeout.
FairSpec == Spec /\ \A p \in Procs : WF_vars(Continue(p))
--------------------------------------------------------------------------------
DiskOK ==
    /\ ptr \in Links(Gens)
    /\ dirs \subseteq Gens
    /\ nextGen \in 1..(MaxGen + 1)
    /\ conf \in [Gens -> Conf]
    /\ stateFile \in State
    /\ routingFile \in RoutingOrNone
    /\ nodesFile \subseteq Nodes
    /\ validated \subseteq Gens

ServiceOK ==
    /\ running \in GenOrNone
    /\ wanted \in BOOLEAN

ControlOK ==
    /\ pc \in [Procs -> Pcs]
    /\ lock \in Procs \cup {None}

LocalOK ==
    /\ op \in [Procs -> Ops]
    /\ mem \in [Procs -> State]
    /\ want \in [Procs -> NodeOrNone]
    /\ cand \in [Procs -> GenOrNone]
    /\ old \in [Procs -> State]
    /\ saved \in [Procs -> RoutingOrNone]
    /\ was \in [Procs -> Snapshot]

\* Every variable keeps the shape its declaration describes; in particular no
\* operation runs out of generation names once it has started.
TypeOK == DiskOK /\ ServiceOK /\ ControlOK /\ LocalOK

\* Whatever fails, and however many processes work from stale memory, the links
\* and the running service only ever name generations that passed
\* `xray run -test` (README: "a node is activated only after the candidate passes
\* the real `xray run -test`").
ActiveIsValidated ==
    /\ Linked(ptr) \subseteq validated
    /\ running \in validated \cup {None}

\* An operation that gives up (a rejected candidate, a failed restart or
\* healthcheck, a failed rollback) has put back both links, state.json and
\* routing.toml (README: "a failed candidate leaves the active generation
\* unchanged").
FailureKeepsActive ==
    \A p \in Procs : pc[p] = "failed" =>
        /\ ptr = was[p].ptr
        /\ stateFile = was[p].state
        /\ routingFile = was[p].routing

\* The process took the lock with memory that was up to date: it equals
\* state.json, and the links are the generations it names.
StartedInSync(p) ==
    /\ was[p].mem = was[p].state
    /\ was[p].ptr.cur = was[p].state.cur
    /\ was[p].ptr.prev = was[p].state.prev
    /\ was[p].ptr.cur # None

\* The same with any number of processes and with crashes, for an operation that
\* started in sync: what apply_config and commit_generation_rollback put back
\* from memory is then what was on disk.
SyncedFailureKeepsActive ==
    \A p \in Procs : (pc[p] = "failed" /\ StartedInSync(p)) =>
        /\ ptr = was[p].ptr
        /\ stateFile = was[p].state
        /\ routingFile = was[p].routing

\* An apply that reports success has its own candidate, rendered from the routing
\* file and the node it selected, as the current generation on disk, in
\* state.json and in the service, and has not pruned it.
SuccessIsActive ==
    \A p \in Procs : (pc[p] = "succeeded" /\ op[p] \in {"apply", "routing"}) =>
        /\ ptr.cur = cand[p]
        /\ stateFile.cur = cand[p]
        /\ stateFile.sel = want[p]
        /\ cand[p] \in dirs \cap validated
        /\ conf[cand[p]] = [node |-> want[p], routing |-> Effective(routingFile)]
        /\ running \in {cand[p], None}

\* A successful `config rollback` exchanges the two links and the service runs
\* what was the previous generation.
RollbackSwapsLinks ==
    \A p \in Procs : (pc[p] = "succeeded" /\ op[p] = "rollback") =>
        /\ ptr = [cur |-> was[p].ptr.prev, prev |-> was[p].ptr.cur]
        /\ running \in {ptr.cur, None}

\* No step removes the directory of a generation that a link names, neither the
\* pruning of old generations nor the removal of a failed candidate.
RemovalsSpareLinked ==
    [][ (dirs \ dirs') \cap Linked(ptr') = {} ]_vars

\* No operation is under way.
Quiet == \A p \in Procs : pc[p] \in IdlePcs

\* Between operations state.json and the links name the same generations.
StateMatchesLinks ==
    Quiet => stateFile.cur = ptr.cur /\ stateFile.prev = ptr.prev

\* Between operations the service runs the generation `current` names, or
\* nothing: no operation returns with the service on another generation.
RunningIsCurrent == Quiet => running \in {ptr.cur, None}

\* Between operations the generation `current` names exists.
CurrentExists == Quiet => ptr.cur \in dirs

\* One operation at a time: whoever gets past acquire_lock is alone
\* (LockContention: "operation is already in progress").
OneOperation ==
    \A p, q \in Procs : (pc[p] \notin IdlePcs /\ pc[q] \notin IdlePcs) => p = q

\* Every operation comes to an end.
OperationEnds ==
    \A p \in Procs : (pc[p] \notin IdlePcs) ~> (pc[p] \in IdlePcs)

\* apply_config from the switch of `current` to the end of its activation, and
\* commit_generation_rollback likewise: the generation is on trial.
TrialPcs == {"commit", "activate", "restart", "health", "healthy", "undoCur",
             "restoreCur", "rbCommit", "rbRestart", "rbHealth", "rbHealthy",
             "rbUndoPrev", "rbUndoCur"}

OnTrial == {p \in Procs : pc[p] \in TrialPcs}

Act == INSTANCE Activation
          WITH Generations <- Gens, NoGeneration <- None, active <- ptr.cur,
               fallback <- IF OnTrial = {} THEN None
                           ELSE old[CHOOSE p \in OnTrial : TRUE].cur

\* What apply_config and commit_generation_rollback do to the current generation
\* is a sequence of trials, each accepted or taken back to the generation that the
\* memory of the process remembers and that was in fact replaced.
ImplementsActivation == Act!Spec
================================================================================
