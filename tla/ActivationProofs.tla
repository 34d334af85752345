--------------------------- MODULE ActivationProofs ---------------------------
(***************************************************************************)
(* What an activation leaves behind, proved of ConfigApply for every       *)
(* number of nodes, routings and generations.                              *)
(*                                                                         *)
(* For processes that exclude each other, with crashes and I/O errors at   *)
(* every step: an apply that succeeds has its candidate active everywhere. *)
(* Without crashes and I/O errors as well: the service runs what `current` *)
(* names.  For one process at a time, without them: rollbacks swap the     *)
(* links, state.json matches the links, and ConfigApply implements the     *)
(* sequence of trials that Activation specifies.                           *)
(***************************************************************************)
EXTENDS ConfigApplyProofs

ApplyOps == {"apply", "routing"}

\* The labels of each kind of operation.
LabelsOf(p) ==
    /\ pc[p] \in UndoPcs => op[p] = "rollback"
    /\ pc[p] \in ApplyPcs \ RollbackPcs => op[p] \in ApplyOps
    /\ pc[p] \in {"switchPrev", "switchCur"} => op[p] \in ApplyOps \cup {"rollback"}
    /\ pc[p] = "reconcile" => op[p] = "refresh"
    /\ pc[p] \in ServicePcs => op[p] = "other"

LabelsInv == \A p \in Procs : LabelsOf(p)

\* What apply_config has achieved at each of its labels: the candidate is rendered,
\* validated, linked, recorded, and started.
StartedPcs == {"health", "healthy", "prune", "succeeded"}
RecordedPcs == StartedPcs \cup {"activate", "restart"}
LinkedPcs == RecordedPcs \cup {"commit"}
ValidatedPcs == LinkedPcs \cup {"switchPrev", "switchCur"}
RenderedPcs == ValidatedPcs \cup {"validate"}

Rendered(p) ==
    /\ cand[p] \in dirs
    /\ conf[cand[p]] = [node |-> want[p], routing |-> Effective(routingFile)]

Recorded(p) ==
    /\ stateFile.cur = cand[p] /\ stateFile.sel = want[p]
    /\ mem[p].cur = cand[p] /\ mem[p].sel = want[p]

ApplyOf(p) ==
    op[p] \in ApplyOps =>
        /\ pc[p] \in RenderedPcs => Rendered(p)
        /\ pc[p] \in ValidatedPcs => cand[p] \in validated
        /\ pc[p] \in LinkedPcs => ptr.cur = cand[p]
        /\ pc[p] \in RecordedPcs => Recorded(p)
        /\ pc[p] \in StartedPcs => running \in {cand[p], None}

ApplyInv == \A p \in Procs : ApplyOf(p)

\* Where an operation has moved `current` and not yet restarted the service.
DivergedPcs == {"commit", "activate", "restart", "restoreCur", "restorePrev",
                "unstate", "rerestart", "rbCommit", "rbRestart", "rbUnstate",
                "rbRerestart"}

Diverged == \E p \in Procs : pc[p] \in DivergedPcs

RunInv == Diverged \/ running \in {ptr.cur, None}

\* A rollback that started in sync and succeeded has swapped the links.
SwapInv ==
    \A p \in Procs :
        (pc[p] = "succeeded" /\ op[p] = "rollback" /\ StartedInSync(p)) =>
            ptr.cur = was[p].ptr.prev /\ ptr.prev = was[p].ptr.cur

\* One process, no crash and no I/O error: where state.json names what is linked.
MatchPcs == IdlePcs \cup RecordedPcs \cup ServicePcs \cup
    {"prepare", "validate", "switchPrev", "rerestart", "discard", "unroute",
     "failed", "reconcile", "rbRestart", "rbHealth", "rbHealthy", "rbUndoPrev",
     "rbRerestart"}

Exists(s) == Named(s) \subseteq dirs \cup {None}

CalmOf(p) ==
    /\ pc[p] # "off" => mem[p] = stateFile
    /\ pc[p] \notin IdlePcs => StartedInSync(p)
    /\ pc[p] \in MatchPcs => stateFile.cur = ptr.cur /\ stateFile.prev = ptr.prev
    /\ pc[p] = "commit" => ptr.prev = old[p].cur
    /\ pc[p] \in KeepsOldPcs => Exists(old[p])
    /\ pc[p] \in {"switchPrev", "switchCur", "rbUndoCur"} => cand[p] \in dirs

CalmInv ==
    /\ ptr.cur # None
    /\ Exists(ptr)
    /\ \A p \in Procs : CalmOf(p)
--------------------------------------------------------------------------------
(* What a step leaves alone.                                               *)

Aside(p) == Compose(p) \/ Quit(p) \/ Contend(p) \/ Crash(p)

\* Outside an operation a process touches only itself, and ends up idle.
LEMMA AsideFrame ==
    ASSUME TypeOK, NEW p \in Procs, Aside(p)
    PROVE  /\ UNCHANGED <<disk, service, validated>>
           /\ pc'[p] \in IdlePcs
           /\ pc'[p] = "idle" => pc[p] = "off" /\ mem'[p] = stateFile
  BY DEF Aside, Compose, Quit, Contend, Crash, Goto, TypeOK, ControlOK, LocalOK,
     IdlePcs

\* No process writes the variables of another.
LEMMA OthersKeep ==
    ASSUME TypeOK, NEW p \in Procs, Aside(p) \/ Begin(p) \/ Continue(p),
           NEW q \in Procs, q # p
    PROVE  UNCHANGED <<pc[q], op[q], mem[q], want[q], cand[q], old[q], was[q]>>
<1> USE DEF TypeOK, ControlOK, LocalOK, Goto, Acquire, local, WriteState
<1>1. CASE Aside(p)
  BY <1>1 DEF Aside, Compose, Quit, Contend, Crash
<1>2. CASE NodeSelect(p) \/ Apply(p) \/ SetRouting(p) \/ ConfigRollback(p)
  BY <1>2 DEF NodeSelect, Apply, SetRouting, ConfigRollback
<1>3. CASE SubscriptionRefresh(p)
  <2>1. ASSUME NEW nodes, StoreNodes(p, nodes)
        PROVE  UNCHANGED <<pc[q], want[q]>>
    BY <2>1 DEF StoreNodes
  <2>2. UNCHANGED <<pc[q], want[q]>>
    BY <1>3, <2>1 DEF SubscriptionRefresh
  <2> QED BY <1>3, <2>2 DEF SubscriptionRefresh
<1>4. CASE SubscriptionRemove(p) \/ ServiceOperation(p)
  BY <1>4 DEF SubscriptionRemove, ServiceOperation
<1>5. CASE Prepare(p) \/ Validate(p) \/ SwitchPrevious(p) \/ SwitchCurrent(p)
  BY <1>5 DEF Prepare, Validate, SwitchPrevious, SwitchCurrent, SwitchFailed,
     ApplyFailed
<1>6. CASE Commit(p) \/ Activate(p) \/ Restart(p) \/ HealthCheck(p) \/
           RecordHealthy(p) \/ Prune(p)
  BY <1>6 DEF Commit, Activate, Restart, HealthCheck, RecordHealthy, Prune,
     ApplyFailed
<1>7. CASE RestoreCurrent(p) \/ RestorePrevious(p) \/ RestoreState(p) \/
           RestartRestored(p) \/ Discard(p) \/ RestoreRouting(p)
  BY <1>7 DEF RestoreCurrent, RestorePrevious, RestoreState, RestartRestored,
     Discard, RestoreRouting, ApplyFailed
<1>8. CASE RollbackCommit(p) \/ RollbackRestart(p) \/ RollbackHealthCheck(p) \/
           RollbackRecordHealthy(p)
  BY <1>8 DEF RollbackCommit, RollbackRestart, RollbackHealthCheck,
     RollbackRecordHealthy
<1>9. CASE RollbackUndoPrevious(p) \/ RollbackUndoCurrent(p) \/
           RollbackRestoreState(p) \/ RollbackRestartRestored(p)
  BY <1>9 DEF RollbackUndoPrevious, RollbackUndoCurrent, RollbackRestoreState,
     RollbackRestartRestored
<1>10. CASE ServiceStart(p) \/ ServiceStop(p) \/ ServiceRestart(p) \/
            Reconcile(p) \/ Release(p)
  BY <1>10 DEF ServiceStart, ServiceStop, ServiceRestart, Reconcile, Release
<1> QED BY <1>1, <1>2, <1>3, <1>4, <1>5, <1>6, <1>7, <1>8, <1>9, <1>10
   DEF Begin, Continue

\* Who takes a step: a process beside its operations, a process in an operation,
\* or systemd.
LEMMA StepCases ==
    ASSUME [Next]_vars
    PROVE  \/ \E p \in Procs : Aside(p)
           \/ \E p \in Procs : Begin(p) \/ Continue(p)
           \/ Environment
           \/ UNCHANGED vars
  BY DEF Next, Aside

\* systemd moves no process and writes no file.
LEMMA EnvironmentFrame ==
    ASSUME Environment
    PROVE  /\ UNCHANGED <<disk, pc, local, validated, was>>
           /\ running' \in {None, ptr.cur}
  BY DEF Environment, XrayExits, SystemdRestarts, StartXray
--------------------------------------------------------------------------------
(* Each operation stays at its own labels.                                 *)

\* No operation is under way at first.
LEMMA LabelsInit == Init => LabelsInv
  BY DEF Init, LabelsInv, LabelsOf, UndoPcs, RollbackPcs, ApplyPcs, ServicePcs

\* Starting an operation and every step of it lead to a label of that operation.
LEMMA LabelsStep == TInv /\ LabelsInv /\ [Next]_vars => LabelsInv'
<1> SUFFICES ASSUME TInv, LabelsInv, [Next]_vars PROVE LabelsInv'
  OBVIOUS
<1> USE DEF TInv, TypeOK, ControlOK, LocalOK, LabelsOf, UndoPcs, RollbackPcs, ApplyPcs,
   ServicePcs, ApplyOps, Goto
<1>1. ASSUME NEW p \in Procs, Begin(p) \/ Continue(p) PROVE LabelsOf(p)'
  <2>0. LabelsOf(p)
    BY DEF LabelsInv
  <2>1. CASE NodeSelect(p) \/ Apply(p) \/ SetRouting(p) \/ ConfigRollback(p)
    BY <2>1 DEF NodeSelect, Apply, SetRouting, ConfigRollback, Acquire
  <2>2. CASE SubscriptionRefresh(p)
    BY <2>2, RefreshFrame DEF Acquire
  <2>3. CASE SubscriptionRemove(p) \/ ServiceOperation(p)
    BY <2>3 DEF SubscriptionRemove, ServiceOperation, Acquire
  <2>4. CASE Prepare(p) \/ Validate(p) \/ SwitchPrevious(p) \/ SwitchCurrent(p)
    BY <2>0, <2>4 DEF Prepare, Validate, SwitchPrevious, SwitchCurrent,
       SwitchFailed, ApplyFailed, local
  <2>5. CASE Commit(p) \/ Activate(p) \/ Restart(p) \/ HealthCheck(p) \/
             RecordHealthy(p) \/ Prune(p)
    BY <2>0, <2>5 DEF Commit, Activate, Restart, HealthCheck, RecordHealthy,
       Prune, ApplyFailed, local
  <2>6. CASE RestoreCurrent(p) \/ RestorePrevious(p) \/ RestoreState(p) \/
             RestartRestored(p) \/ Discard(p) \/ RestoreRouting(p)
    BY <2>0, <2>6 DEF RestoreCurrent, RestorePrevious, RestoreState,
       RestartRestored, Discard, RestoreRouting, ApplyFailed, local
  <2>7. CASE RollbackCommit(p) \/ RollbackRestart(p) \/ RollbackHealthCheck(p) \/
             RollbackRecordHealthy(p)
    BY <2>0, <2>7 DEF RollbackCommit, RollbackRestart, RollbackHealthCheck,
       RollbackRecordHealthy, local
  <2>8. CASE RollbackUndoPrevious(p) \/ RollbackUndoCurrent(p) \/
             RollbackRestoreState(p) \/ RollbackRestartRestored(p)
    BY <2>0, <2>8 DEF RollbackUndoPrevious, RollbackUndoCurrent,
       RollbackRestoreState, RollbackRestartRestored, local
  <2>9. CASE ServiceStart(p) \/ ServiceStop(p) \/ ServiceRestart(p) \/
             Reconcile(p) \/ Release(p)
    BY <2>9 DEF ServiceStart, ServiceStop, ServiceRestart, Reconcile, Release
  <2> QED BY <1>1, <2>1, <2>2, <2>3, <2>4, <2>5, <2>6, <2>7, <2>8, <2>9
     DEF Begin, Continue
<1>2. ASSUME NEW p \in Procs, Aside(p) PROVE LabelsOf(p)'
  BY <1>2, AsideFrame DEF IdlePcs
<1>3. ASSUME NEW p \in Procs, Aside(p) \/ Begin(p) \/ Continue(p), LabelsOf(p)',
             NEW q \in Procs
      PROVE  LabelsOf(q)'
  <2>1. CASE q # p
    BY <1>3, <2>1, OthersKeep DEF LabelsInv
  <2> QED BY <1>3, <2>1
<1>4. CASE Environment
  BY <1>4, EnvironmentFrame DEF LabelsInv, local
<1>5. CASE UNCHANGED vars
  BY <1>5 DEF LabelsInv, vars
<1> QED BY <1>1, <1>2, <1>3, <1>4, <1>5, StepCases DEF LabelsInv
--------------------------------------------------------------------------------
(* A successful apply has its candidate active.                            *)

\* No apply is under way at first.
LEMMA ApplyInit == Init => ApplyInv
  BY DEF Init, ApplyInv, ApplyOf, ApplyOps

\* A generation that exists has a name.
LEMMA NoneIsNoDirectory == TypeOK => None \notin dirs
<1>1. None \notin Gens
  BY NoneAssumption, ConfigAssumption DEF Gens
<1> QED BY <1>1 DEF TypeOK, DiskOK

\* Pruning keeps what `current` names.
LEMMA PruneKeepsCurrent ==
    ASSUME TypeOK, NEW p \in Procs, Prune(p), ptr.cur \in dirs
    PROVE  ptr.cur \in dirs'
<1>1. ptr.cur \in Linked(ptr)
  BY NoneIsNoDirectory DEF Linked
<1> QED BY <1>1 DEF Prune, Pruned

\* Each step of apply_config adds its part, and loses none of the earlier ones.
LEMMA ApplyOwnStep ==
    ASSUME TInv, LabelsInv, ApplyInv, NEW p \in Procs, Begin(p) \/ Continue(p)
    PROVE  ApplyOf(p)'
<1> USE DEF TInv, TypeOK, DiskOK, ControlOK, LocalOK, ApplyOps, RenderedPcs,
   ValidatedPcs, LinkedPcs, RecordedPcs, StartedPcs, Goto
<1>0. ApplyOf(p) /\ LabelsOf(p)
  BY DEF ApplyInv, LabelsInv
<1>1. CASE Begin(p)
  <2>1. CASE NodeSelect(p) \/ Apply(p) \/ SetRouting(p) \/ ConfigRollback(p)
    BY <2>1 DEF NodeSelect, Apply, SetRouting, ConfigRollback, Acquire, ApplyOf
  <2>2. CASE SubscriptionRefresh(p)
    BY <2>2, RefreshFrame DEF Acquire, ApplyOf
  <2>3. CASE SubscriptionRemove(p) \/ ServiceOperation(p)
    BY <2>3 DEF SubscriptionRemove, ServiceOperation, Acquire, ApplyOf
  <2> QED BY <1>1, <2>1, <2>2, <2>3 DEF Begin
<1>2. CASE Prepare(p)
  <2>1. CASE cand' = [cand EXCEPT ![p] = nextGen]
    <3>1. nextGen \in Gens
      BY <1>2, ConfigAssumption DEF Prepare, Gens
    <3> QED BY <1>2, <2>1, <3>1 DEF Prepare, ApplyFailed, ApplyOf, Rendered
  <2>2. CASE ApplyFailed(p)
    BY <1>2, <2>2 DEF Prepare, ApplyFailed, ApplyOf
  <2> QED BY <1>2, <2>1, <2>2 DEF Prepare
<1>3. CASE Validate(p)
  BY <1>0, <1>3 DEF Validate, ApplyFailed, ApplyOf, Rendered
<1>4. CASE SwitchPrevious(p)
  BY <1>0, <1>4 DEF SwitchPrevious, SwitchFailed, ApplyFailed, ApplyOf, Rendered, local
<1>5. CASE SwitchCurrent(p)
  BY <1>0, <1>5 DEF SwitchCurrent, SwitchFailed, ApplyFailed, ApplyOf, Rendered,
     local, LinkCurrent, Links
<1>6. CASE Commit(p)
  BY <1>0, <1>6 DEF Commit, WriteState, ApplyOf, Rendered, Recorded
<1>7. CASE Activate(p) \/ HealthCheck(p)
  BY <1>0, <1>7 DEF Activate, HealthCheck, ApplyOf, Rendered, Recorded, disk,
     service, local
<1>8. CASE Restart(p)
  BY <1>0, <1>8 DEF Restart, StartXray, ApplyOf, Rendered, Recorded, disk, local
<1>9. CASE RecordHealthy(p)
  BY <1>0, <1>9 DEF RecordHealthy, WriteState, ApplyFailed, ApplyOf, Rendered,
     Recorded, service
<1>10. CASE Prune(p)
  BY <1>0, <1>10, PruneKeepsCurrent DEF Prune, ApplyOf, Rendered, Recorded, service,
     local
<1>11. CASE RestoreCurrent(p) \/ RestorePrevious(p) \/ RestoreState(p) \/
            RestartRestored(p) \/ Discard(p) \/ RestoreRouting(p)
  BY <1>11 DEF RestoreCurrent, RestorePrevious, RestoreState, RestartRestored,
     Discard, RestoreRouting, ApplyFailed, ApplyOf
<1>12. CASE RollbackCommit(p) \/ RollbackRestart(p) \/ RollbackHealthCheck(p) \/
            RollbackRecordHealthy(p) \/ RollbackUndoPrevious(p) \/
            RollbackUndoCurrent(p) \/ RollbackRestoreState(p) \/
            RollbackRestartRestored(p)
  <2>1. op[p] = "rollback"
    BY <1>0, <1>12 DEF LabelsOf, UndoPcs, RollbackPcs, RollbackCommit,
       RollbackRestart, RollbackHealthCheck, RollbackRecordHealthy,
       RollbackUndoPrevious, RollbackUndoCurrent, RollbackRestoreState,
       RollbackRestartRestored
  <2>2. op' = op
    BY <1>12 DEF local, RollbackCommit, RollbackRestart, RollbackHealthCheck,
       RollbackRecordHealthy, RollbackUndoPrevious, RollbackUndoCurrent,
       RollbackRestoreState, RollbackRestartRestored
  <2> QED BY <2>1, <2>2 DEF ApplyOf
<1>13. CASE ServiceStart(p) \/ ServiceStop(p) \/ ServiceRestart(p) \/ Reconcile(p)
  <2>1. op[p] \in {"other", "refresh"} /\ op' = op
    BY <1>0, <1>13 DEF LabelsOf, ServicePcs, ServiceStart, ServiceStop,
       ServiceRestart, Reconcile, local
  <2> QED BY <2>1 DEF ApplyOf
<1>14. CASE Release(p)
  BY <1>14 DEF Release, ApplyOf
<1> QED BY <1>1, <1>2, <1>3, <1>4, <1>5, <1>6, <1>7, <1>8, <1>9, <1>10, <1>11,
   <1>12, <1>13, <1>14 DEF Continue

\* Nobody else touches what an apply under way has built.
LEMMA ApplyStep ==
    ASSUME TInv, LockHeld, LabelsInv, ApplyInv, [Next]_vars
    PROVE  ApplyInv'
<1> USE DEF RenderedPcs, ValidatedPcs, LinkedPcs, RecordedPcs, StartedPcs, IdlePcs
<1>1. ASSUME NEW p \in Procs, Begin(p) \/ Continue(p), NEW q \in Procs
      PROVE  ApplyOf(q)'
  <2>1. CASE q = p
    BY <1>1, <2>1, ApplyOwnStep
  <2>2. CASE q # p
    BY <1>1, <2>2, OthersStayIdle DEF ApplyOf
  <2> QED BY <2>1, <2>2
<1>2. ASSUME NEW p \in Procs, Aside(p), NEW q \in Procs
      PROVE  ApplyOf(q)'
  <2>1. CASE q = p
    BY <1>2, <2>1, AsideFrame DEF ApplyOf, TInv
  <2>2. CASE q # p
    BY <1>2, <2>2, AsideFrame, OthersKeep DEF ApplyInv, ApplyOf, Rendered, Recorded,
       TInv, disk, service
  <2> QED BY <2>1, <2>2
<1>3. ASSUME Environment, NEW q \in Procs PROVE ApplyOf(q)'
  BY <1>3, EnvironmentFrame DEF ApplyInv, ApplyOf, Rendered, Recorded, disk, local
<1>4. CASE UNCHANGED vars
  BY <1>4 DEF ApplyInv, ApplyOf, Rendered, Recorded, vars
<1> QED BY <1>1, <1>2, <1>3, <1>4, StepCases DEF ApplyInv
--------------------------------------------------------------------------------
(* The service runs what `current` names.                                  *)

\* Without I/O errors an operation that is not between the move of `current` and the
\* restart leaves the service on `current`, or not running.
LEMMA RunOwnStep ==
    ASSUME ~IoErrors, TInv, FreshInv, NEW p \in Procs, Begin(p) \/ Continue(p),
           pc[p] \in DivergedPcs \/ running \in {ptr.cur, None}
    PROVE  pc'[p] \in DivergedPcs \/ running' \in {ptr'.cur, None}
<1> USE DEF TInv, TypeOK, DiskOK, ControlOK, Links, DivergedPcs, Goto
<1>1. CASE Begin(p)
  <2>1. UNCHANGED <<ptr, running>> /\ pc[p] = "idle"
    BY <1>1 DEF Begin, NodeSelect, Apply, SetRouting, ConfigRollback,
       SubscriptionRefresh, SubscriptionRemove, ServiceOperation, Acquire, disk, service
  <2> QED BY <2>1
<1>2. CASE Prepare(p) \/ Validate(p) \/ Activate(p) \/ Prune(p) \/ Discard(p) \/
           RestoreRouting(p) \/ HealthCheck(p) \/ RecordHealthy(p)
  BY <1>2 DEF Prepare, Validate, Activate, Prune, Discard, RestoreRouting,
     HealthCheck, RecordHealthy, WriteStateFails, ApplyFailed, disk, service
<1>3. CASE SwitchPrevious(p) \/ SwitchCurrent(p)
  BY <1>3 DEF SwitchPrevious, SwitchCurrent, LinkPrevious, service
<1>4. CASE Commit(p) \/ RestoreState(p) \/ RestorePrevious(p)
  BY <1>4 DEF Commit, RestoreState, RestorePrevious, WriteStateFails, PointPrevious,
     service, FreshInv, FreshOf
<1>5. CASE RestoreCurrent(p)
  BY <1>5 DEF RestoreCurrent, FreshInv, FreshOf
<1>6. CASE Restart(p) \/ RestartRestored(p) \/ RollbackRestart(p) \/
           RollbackRestartRestored(p) \/ ServiceStart(p) \/ ServiceRestart(p)
  BY <1>6 DEF Restart, RestartRestored, RollbackRestart, RollbackRestartRestored,
     ServiceStart, ServiceRestart, StartXray, StartXrayFails, disk, service
<1>7. CASE ServiceStop(p) \/ Reconcile(p) \/ Release(p)
  BY <1>7 DEF ServiceStop, Reconcile, Release, disk, service
<1>8. CASE RollbackCommit(p) \/ RollbackHealthCheck(p) \/ RollbackRecordHealthy(p)
  BY <1>8 DEF RollbackCommit, RollbackHealthCheck, RollbackRecordHealthy,
     WriteStateFails, disk, service
<1>9. CASE RollbackUndoPrevious(p) \/ RollbackUndoCurrent(p) \/ RollbackRestoreState(p)
  BY <1>9 DEF RollbackUndoPrevious, RollbackUndoCurrent, RollbackRestoreState,
     WriteStateFails, LinkPrevious, service
<1> QED BY <1>1, <1>2, <1>3, <1>4, <1>5, <1>6, <1>7, <1>8, <1>9 DEF Continue

\* Without crashes every operation that moved `current` comes to its restart.
LEMMA RunStep ==
    ASSUME ~Crashes, ~IoErrors, TInv, LockHeld, FreshInv, RunInv, [Next]_vars
    PROVE  RunInv'
<1>1. ASSUME NEW p \in Procs, Begin(p) \/ Continue(p) PROVE RunInv'
  <2>1. ASSUME NEW q \in Procs, q # p PROVE pc'[q] \in IdlePcs
    BY <1>1, <2>1, OthersStayIdle
  <2>2. ASSUME NEW q \in Procs, q # p PROVE pc[q] \in IdlePcs
    BY <1>1, <2>1, <2>2, OthersKeep DEF TInv
  <2>3. pc[p] \in DivergedPcs \/ running \in {ptr.cur, None}
    BY <2>2 DEF RunInv, Diverged, DivergedPcs, IdlePcs
  <2> QED BY <1>1, <2>3, RunOwnStep DEF RunInv, Diverged
<1>2. ASSUME NEW p \in Procs, Aside(p) PROVE RunInv'
  <2>1. UNCHANGED <<ptr, running>>
    BY <1>2, AsideFrame DEF TInv, disk, service
  <2>2. pc[p] \in IdlePcs
    BY <1>2 DEF Aside, Compose, Quit, Contend, Crash, IdlePcs
  <2>3. ASSUME NEW q \in Procs, pc[q] \in DivergedPcs PROVE pc'[q] = pc[q]
    BY <1>2, <2>2, <2>3, OthersKeep DEF TInv, DivergedPcs, IdlePcs
  <2> QED BY <2>1, <2>3 DEF RunInv, Diverged
<1>3. CASE Environment
  BY <1>3, EnvironmentFrame DEF RunInv, Diverged, disk
<1>4. CASE UNCHANGED vars
  BY <1>4 DEF RunInv, Diverged, vars
<1> QED BY <1>1, <1>2, <1>3, <1>4, StepCases

\* A rollback that did not fail has moved both links, and leaves them.
LEMMA SwapStep ==
    ASSUME ~IoErrors, TInv, LockHeld, LabelsInv, FreshInv, SyncInv, SwapInv, [Next]_vars
    PROVE  SwapInv'
<1> USE DEF TInv, TypeOK, ControlOK, LocalOK, Goto
<1>1. ASSUME NEW p \in Procs, Begin(p) \/ Continue(p), pc'[p] = "succeeded",
             op'[p] = "rollback", StartedInSync(p)'
      PROVE  ptr'.cur = was'[p].ptr.prev /\ ptr'.prev = was'[p].ptr.cur
  <2>0. SyncOf(p) /\ LabelsOf(p)
    BY DEF SyncInv, LabelsInv
  <2>1. CASE RollbackRestart(p) \/ RollbackRecordHealthy(p)
    BY <1>1, <2>0, <2>1 DEF RollbackRestart, RollbackRecordHealthy, WriteStateFails,
       SyncOf, StartedInSync, IdlePcs, disk, local
  <2>2. CASE Prune(p)
    BY <1>1, <2>0, <2>2 DEF Prune, LabelsOf, ApplyPcs, RollbackPcs, ApplyOps, local
  <2>3. CASE ServiceStart(p) \/ ServiceStop(p) \/ ServiceRestart(p) \/ Reconcile(p)
    BY <1>1, <2>0, <2>3 DEF ServiceStart, ServiceStop, ServiceRestart, Reconcile,
       LabelsOf, ServicePcs, local
  <2>4. CASE Begin(p)
    <3>1. SubscriptionRefresh(p) => op'[p] = "refresh"
      BY RefreshFrame DEF Acquire
    <3> QED BY <1>1, <2>4, <3>1 DEF Begin, NodeSelect, Apply, SetRouting,
       ConfigRollback, SubscriptionRemove, ServiceOperation, Acquire
  <2>5. CASE Prepare(p) \/ Validate(p) \/ SwitchPrevious(p) \/ SwitchCurrent(p) \/
             Commit(p) \/ Activate(p) \/ Restart(p) \/ HealthCheck(p) \/ RecordHealthy(p)
    BY <1>1, <2>5 DEF Prepare, Validate, SwitchPrevious, SwitchCurrent, Commit,
       Activate, Restart, HealthCheck, RecordHealthy, ApplyFailed, SwitchFailed
  <2>6. CASE RestoreCurrent(p) \/ RestorePrevious(p) \/ RestoreState(p) \/
             RestartRestored(p) \/ Discard(p) \/ RestoreRouting(p) \/ Release(p)
    BY <1>1, <2>6 DEF RestoreCurrent, RestorePrevious, RestoreState, RestartRestored,
       Discard, RestoreRouting, Release, ApplyFailed
  <2>7. CASE RollbackCommit(p) \/ RollbackHealthCheck(p) \/ RollbackUndoPrevious(p) \/
             RollbackUndoCurrent(p) \/ RollbackRestoreState(p) \/
             RollbackRestartRestored(p)
    BY <1>1, <2>7 DEF RollbackCommit, RollbackHealthCheck, RollbackUndoPrevious,
       RollbackUndoCurrent, RollbackRestoreState, RollbackRestartRestored
  <2> QED BY <1>1, <2>1, <2>2, <2>3, <2>4, <2>5, <2>6, <2>7 DEF Continue
<1>2. ASSUME NEW p \in Procs, Begin(p) \/ Continue(p) PROVE SwapInv'
  BY <1>1, <1>2, OthersStayIdle DEF SwapInv, IdlePcs
<1>3. ASSUME NEW p \in Procs, Aside(p) PROVE SwapInv'
  <2>1. ASSUME NEW q \in Procs, q # p PROVE UNCHANGED <<pc[q], op[q], was[q]>>
    BY <1>3, <2>1, OthersKeep
  <2> QED BY <1>3, <2>1, AsideFrame DEF SwapInv, StartedInSync, IdlePcs, disk
<1>4. CASE Environment
  BY <1>4, EnvironmentFrame DEF SwapInv, StartedInSync, disk, local
<1>5. CASE UNCHANGED vars
  BY <1>5 DEF SwapInv, StartedInSync, vars
<1> QED BY <1>2, <1>3, <1>4, <1>5, StepCases
--------------------------------------------------------------------------------
(* One process at a time, nothing fails: state.json and the links agree.   *)

\* An installed system is in sync, and its current generation exists.
LEMMA CalmInit == Init => CalmInv
<1> SUFFICES ASSUME Init PROVE CalmInv
  OBVIOUS
<1>1. Exists(ptr) /\ ptr.cur # None
  BY NoneAssumption DEF Init, Exists, Named
<1>2. \A p \in Procs : CalmOf(p)
  BY DEF Init, CalmOf, IdlePcs, KeepsOldPcs
<1> QED BY <1>1, <1>2 DEF CalmInv

\* Starting an operation takes a snapshot and leaves the links, state.json and the
\* memory as they are.
LEMMA BeginFrame ==
    ASSUME TypeOK, NEW p \in Procs, Begin(p)
    PROVE  /\ pc[p] = "idle"
           /\ UNCHANGED <<ptr, dirs, stateFile, mem>>
           /\ was'[p].ptr = ptr /\ was'[p].state = stateFile /\ was'[p].mem = mem[p]
           /\ ~ConfigRollback(p) => pc'[p] \in {"prepare", "failed", "succeeded",
                                               "reconcile"} \cup ServicePcs
<1> USE DEF TypeOK, ControlOK, LocalOK, Acquire, Goto, disk
<1>1. CASE NodeSelect(p) \/ Apply(p) \/ SetRouting(p)
  BY <1>1 DEF NodeSelect, Apply, SetRouting
<1>2. CASE ConfigRollback(p)
  BY <1>2 DEF ConfigRollback
<1>3. CASE SubscriptionRefresh(p)
  BY <1>3, RefreshFrame
<1>4. CASE SubscriptionRemove(p) \/ ServiceOperation(p)
  BY <1>4 DEF SubscriptionRemove, ServiceOperation
<1> QED BY <1>1, <1>2, <1>3, <1>4 DEF Begin

\* Without I/O errors memory and state.json change together.
LEMMA MemoryStep ==
    ASSUME ~IoErrors, TInv, CalmInv, NEW p \in Procs, Begin(p) \/ Continue(p)
    PROVE  /\ pc'[p] # "off" => mem'[p] = stateFile'
           /\ pc'[p] \notin IdlePcs => StartedInSync(p)'
<1> USE DEF TInv, TypeOK, ControlOK, LocalOK, Goto, WriteState, WriteStateFails, IdlePcs
<1>0. CalmOf(p)
  BY DEF CalmInv
<1>1. CASE Begin(p)
  <2>1. /\ mem[p] = stateFile /\ ptr.cur # None
        /\ stateFile.cur = ptr.cur /\ stateFile.prev = ptr.prev
    BY <1>0, <1>1, BeginFrame DEF CalmInv, CalmOf, MatchPcs
  <2>2. UNCHANGED <<stateFile, mem>>
    BY <1>1, BeginFrame
  <2>3. was'[p].ptr = ptr /\ was'[p].state = stateFile /\ was'[p].mem = mem[p]
    BY <1>1, BeginFrame
  <2> QED BY <2>1, <2>2, <2>3 DEF StartedInSync
<1>2. CASE Release(p)
  BY <1>0, <1>2 DEF Release, CalmOf, disk
<1>3. CASE Prepare(p) \/ Validate(p) \/ SwitchPrevious(p) \/ SwitchCurrent(p) \/
           Commit(p) \/ Activate(p) \/ Restart(p) \/ HealthCheck(p) \/
           RecordHealthy(p) \/ Prune(p)
  <2>1. pc[p] \notin IdlePcs /\ was' = was
    BY <1>3 DEF Prepare, Validate, SwitchPrevious, SwitchCurrent, Commit, Activate,
       Restart, HealthCheck, RecordHealthy, Prune
  <2>2. mem'[p] = stateFile'
    BY <1>0, <1>3 DEF CalmOf, Prepare, Validate, SwitchPrevious, SwitchCurrent,
       Commit, Activate, Restart, HealthCheck, RecordHealthy, Prune, disk, local
  <2> QED BY <1>0, <2>1, <2>2 DEF CalmOf, StartedInSync
<1>4. CASE RestoreCurrent(p) \/ RestorePrevious(p) \/ RestoreState(p) \/
           RestartRestored(p) \/ Discard(p) \/ RestoreRouting(p) \/ Reconcile(p) \/
           ServiceStart(p) \/ ServiceStop(p) \/ ServiceRestart(p)
  <2>1. pc[p] \notin IdlePcs /\ was' = was
    BY <1>4 DEF RestoreCurrent, RestorePrevious, RestoreState, RestartRestored,
       Discard, RestoreRouting, Reconcile, ServiceStart, ServiceStop, ServiceRestart
  <2>2. mem'[p] = stateFile'
    BY <1>0, <1>4 DEF CalmOf, RestoreCurrent, RestorePrevious, RestoreState,
       RestartRestored, Discard, RestoreRouting, Reconcile, ServiceStart,
       ServiceStop, ServiceRestart, disk, local
  <2> QED BY <1>0, <2>1, <2>2 DEF CalmOf, StartedInSync
<1>5. CASE RollbackCommit(p) \/ RollbackRestart(p) \/ RollbackHealthCheck(p) \/
           RollbackRecordHealthy(p) \/ RollbackUndoPrevious(p) \/
           RollbackUndoCurrent(p) \/ RollbackRestoreState(p) \/
           RollbackRestartRestored(p)
  <2>1. pc[p] \notin IdlePcs /\ was' = was
    BY <1>5 DEF RollbackCommit, RollbackRestart, RollbackHealthCheck,
       RollbackRecordHealthy, RollbackUndoPrevious, RollbackUndoCurrent,
       RollbackRestoreState, RollbackRestartRestored
  <2>2. mem'[p] = stateFile'
    BY <1>0, <1>5 DEF CalmOf, RollbackCommit, RollbackRestart, RollbackHealthCheck,
       RollbackRecordHealthy, RollbackUndoPrevious, RollbackUndoCurrent,
       RollbackRestoreState, RollbackRestartRestored, disk, local
  <2> QED BY <1>0, <2>1, <2>2 DEF CalmOf, StartedInSync
<1> QED BY <1>1, <1>2, <1>3, <1>4, <1>5 DEF Continue

\* An operation that writes state.json first moves the links to match it, and one
\* that gives up puts both back.
LEMMA MatchStep ==
    ASSUME ~IoErrors, TInv, LabelsInv, ApplyInv, FreshInv, SyncInv, CalmInv,
           NEW p \in Procs, Begin(p) \/ Continue(p)
    PROVE  /\ ptr'.cur # None
           /\ pc'[p] \in MatchPcs => stateFile'.cur = ptr'.cur /\ stateFile'.prev = ptr'.prev
           /\ pc'[p] = "commit" => ptr'.prev = old'[p].cur
<1> USE NoneAssumption DEF TInv, TypeOK, DiskOK, ControlOK, LocalOK, Links, State, Goto,
   WriteStateFails
<1>0. CalmOf(p) /\ SyncOf(p) /\ LabelsOf(p) /\ ApplyOf(p) /\ ptr.cur # None
  BY DEF CalmInv, SyncInv, LabelsInv, ApplyInv
<1>1. CASE UNCHANGED <<ptr, stateFile>> /\ pc[p] \in MatchPcs /\ pc'[p] # "commit"
  BY <1>0, <1>1 DEF CalmOf
<1>2. CASE Begin(p)
  <2>1. pc'[p] # "commit"
    BY <1>2, BeginFrame DEF ConfigRollback, ServicePcs
  <2> QED BY <1>1, <1>2, <2>1, BeginFrame DEF MatchPcs, IdlePcs
<1>3. CASE Prepare(p) \/ Validate(p) \/ Activate(p) \/ Restart(p) \/ HealthCheck(p) \/
           Prune(p) \/ RestartRestored(p) \/ Discard(p) \/ RestoreRouting(p)
  <2>1. UNCHANGED <<ptr, stateFile>> /\ pc[p] \in MatchPcs /\ pc'[p] # "commit"
    BY <1>3 DEF Prepare, Validate, Activate, Restart, HealthCheck, Prune,
       RestartRestored, Discard, RestoreRouting, ApplyFailed, MatchPcs, RecordedPcs,
       StartedPcs, disk
  <2> QED BY <1>1, <2>1
<1>4. CASE ServiceStart(p) \/ ServiceStop(p) \/ ServiceRestart(p) \/
           RollbackRestart(p) \/ RollbackHealthCheck(p) \/
           RollbackRestartRestored(p) \/ Release(p)
  <2>1. UNCHANGED <<ptr, stateFile>> /\ pc[p] \in MatchPcs /\ pc'[p] # "commit"
    BY <1>4 DEF ServiceStart, ServiceStop, ServiceRestart, RollbackRestart,
       RollbackHealthCheck, RollbackRestartRestored, Release, MatchPcs, RecordedPcs,
       StartedPcs, ServicePcs, disk
  <2> QED BY <1>1, <2>1
<1>5. CASE SwitchPrevious(p)
  BY <1>0, <1>5 DEF SwitchPrevious, LinkPrevious, MatchPcs, IdlePcs, RecordedPcs,
     StartedPcs, ServicePcs
<1>6. CASE SwitchCurrent(p)
  <2>1. cand[p] # None
    BY <1>0, <1>6, NoneIsNoDirectory DEF SwitchCurrent, CalmOf
  <2>2. ptr.prev = old[p].cur
    BY <1>0, <1>6 DEF SwitchCurrent, SyncOf, CalmOf, StartedInSync, KeepsOldPcs, Named,
       IdlePcs
  <2> QED BY <1>6, <2>1, <2>2 DEF SwitchCurrent, LinkCurrent, MatchPcs, IdlePcs,
     RecordedPcs, StartedPcs, ServicePcs, local
<1>7. CASE Commit(p)
  <2>1. ptr.cur = cand[p] /\ ptr.prev = old[p].cur
    BY <1>0, <1>7 DEF Commit, CalmOf, ApplyOf, LabelsOf, ApplyPcs, RollbackPcs, LinkedPcs
  <2> QED BY <1>0, <1>7, <2>1 DEF Commit, WriteState
<1>8. CASE RecordHealthy(p) \/ RollbackRecordHealthy(p) \/ Reconcile(p)
  BY <1>0, <1>8 DEF RecordHealthy, RollbackRecordHealthy, Reconcile, WriteState, CalmOf,
     MatchPcs, RecordedPcs, StartedPcs
<1>9. CASE RestoreCurrent(p)
  <2>1. old[p].cur # None
    BY <1>0, <1>9 DEF RestoreCurrent, CalmOf, SyncOf, StartedInSync, KeepsOldPcs,
       IdlePcs, FreshInv, FreshOf
  <2> QED BY <1>9, <2>1 DEF RestoreCurrent, PointCurrent, FreshInv, FreshOf, MatchPcs,
     IdlePcs, RecordedPcs, StartedPcs, ServicePcs
<1>10. CASE RestorePrevious(p)
  BY <1>0, <1>10 DEF RestorePrevious, PointPrevious, FreshInv, FreshOf, MatchPcs,
     IdlePcs, RecordedPcs, StartedPcs, ServicePcs
<1>11. CASE RestoreState(p) \/ RollbackRestoreState(p)
  <2>1. old[p] = was[p].mem /\ ptr = was[p].ptr /\ StartedInSync(p)
    BY <1>0, <1>11 DEF RestoreState, RollbackRestoreState, CalmOf, SyncOf, KeepsOldPcs,
       IdlePcs
  <2>2. ptr' = ptr /\ stateFile' = old[p] /\ pc'[p] # "commit"
    BY <1>11 DEF RestoreState, RollbackRestoreState, WriteState
  <2> QED BY <1>0, <2>1, <2>2 DEF StartedInSync
<1>12. CASE RollbackCommit(p)
  <2>1. ptr.cur = old[p].prev /\ ptr.prev = old[p].cur
    BY <1>0, <1>12 DEF RollbackCommit, CalmOf, SyncOf, StartedInSync, KeepsOldPcs,
       IdlePcs
  <2> QED BY <1>0, <1>12, <2>1 DEF RollbackCommit, WriteState
<1>13. CASE RollbackUndoPrevious(p)
  BY <1>0, <1>13 DEF RollbackUndoPrevious, LinkPrevious, MatchPcs, IdlePcs, RecordedPcs,
     StartedPcs, ServicePcs
<1>14. CASE RollbackUndoCurrent(p)
  <2>1. cand[p] # None
    BY <1>0, <1>14, NoneIsNoDirectory DEF RollbackUndoCurrent, CalmOf
  <2> QED BY <1>14, <2>1 DEF RollbackUndoCurrent, LinkCurrent, MatchPcs, IdlePcs,
     RecordedPcs, StartedPcs, ServicePcs
<1> QED BY <1>2, <1>3, <1>4, <1>5, <1>6, <1>7, <1>8, <1>9, <1>10, <1>11, <1>12, <1>13,
   <1>14 DEF Continue
\* What the links name, and what an operation may have to put back, still exists.
LEMMA ExistsStep ==
    ASSUME ~IoErrors, TInv, LabelsInv, ApplyInv, FreshInv, SyncInv, CalmInv,
           NEW p \in Procs, Begin(p) \/ Continue(p), [Next]_vars
    PROVE  /\ Exists(ptr)'
           /\ pc'[p] \in KeepsOldPcs => Exists(old[p])'
           /\ pc'[p] \in {"switchPrev", "switchCur", "rbUndoCur"} => cand'[p] \in dirs'
<1> USE DEF TInv, TypeOK, DiskOK, ControlOK, LocalOK, Links, Goto, KeepsOldPcs,
   WriteStateFails, Exists, Named
<1>0. /\ CalmOf(p) /\ SyncOf(p) /\ LabelsOf(p) /\ ApplyOf(p)
      /\ Exists(ptr) /\ ptr.cur # None
  BY DEF CalmInv, SyncInv, LabelsInv, ApplyInv
<1>1. CASE UNCHANGED <<ptr, dirs, old, cand>> /\ pc[p] \in KeepsOldPcs
           /\ (pc'[p] = "switchCur" => pc[p] = "switchPrev")
           /\ pc'[p] \notin {"switchPrev", "rbUndoCur"}
  BY <1>0, <1>1 DEF CalmOf
<1>2. CASE UNCHANGED ptr /\ dirs \subseteq dirs' /\ pc'[p] \notin KeepsOldPcs
  BY <1>0, <1>2
<1>3. CASE Begin(p)
  <2>1. CASE ~ConfigRollback(p)
    BY <1>2, <1>3, <2>1, BeginFrame DEF ServicePcs
  <2>2. CASE ConfigRollback(p)
    <3>1. /\ UNCHANGED <<ptr, dirs>>
          /\ pc'[p] \in {"switchPrev", "failed"}
          /\ pc'[p] = "switchPrev" =>
                ptr.prev # None /\ cand'[p] = ptr.prev /\ old'[p] = mem[p]
      BY <2>2 DEF ConfigRollback, disk
    <3>2. mem[p].cur = ptr.cur /\ mem[p].prev = ptr.prev
      BY <1>0, <1>3, BeginFrame DEF CalmOf, MatchPcs, IdlePcs
    <3> QED BY <1>0, <3>1, <3>2
  <2> QED BY <2>1, <2>2
<1>4. CASE Prepare(p) \/ RestoreRouting(p) \/ Reconcile(p) \/ ServiceStart(p) \/
           ServiceStop(p) \/ ServiceRestart(p) \/ RestartRestored(p) \/
           RollbackRestartRestored(p) \/ Release(p) \/ RecordHealthy(p)
  <2>1. UNCHANGED ptr /\ dirs \subseteq dirs' /\ pc'[p] \notin KeepsOldPcs
    BY <1>4 DEF Prepare, RestoreRouting, Reconcile, ServiceStart, ServiceStop,
       ServiceRestart, RestartRestored, RollbackRestartRestored, Release,
       RecordHealthy, ApplyFailed, disk
  <2> QED BY <1>2, <2>1
<1>5. CASE Validate(p)
  <2>1. UNCHANGED ptr /\ Exists(ptr)'
    BY <1>0, <1>5, RemovalStep DEF Validate, Linked
  <2>2. pc'[p] \in {"switchPrev", "unroute", "failed"}
    BY <1>5 DEF Validate, ApplyFailed
  <2>3. pc'[p] = "switchPrev" => dirs' = dirs /\ old'[p] = mem[p] /\ cand' = cand
    BY <1>5 DEF Validate, ApplyFailed
  <2>4. mem[p].cur = ptr.cur /\ mem[p].prev = ptr.prev
    BY <1>0, <1>5 DEF Validate, CalmOf, MatchPcs
  <2>5. cand[p] \in dirs
    BY <1>0, <1>5 DEF Validate, ApplyOf, LabelsOf, ApplyPcs, RollbackPcs, RenderedPcs,
       Rendered
  <2> QED BY <1>0, <2>1, <2>2, <2>3, <2>4, <2>5
<1>6. CASE Prune(p) \/ Discard(p)
  <2>1. UNCHANGED ptr /\ Exists(ptr)'
    BY <1>0, <1>6, RemovalStep DEF Prune, Discard, Linked
  <2> QED BY <1>6, <2>1 DEF Prune, Discard, ApplyFailed
<1>7. CASE Activate(p) \/ HealthCheck(p) \/ Restart(p) \/ Commit(p) \/ RestoreState(p)
  <2>1. CASE pc'[p] \in KeepsOldPcs
    <3>1. UNCHANGED <<ptr, dirs, old, cand>> /\ pc[p] \in KeepsOldPcs
          /\ pc'[p] \notin {"switchPrev", "switchCur", "rbUndoCur"}
      BY <1>7, <2>1 DEF Activate, HealthCheck, Restart, Commit, RestoreState, disk, local
    <3> QED BY <1>1, <3>1
  <2>2. CASE pc'[p] \notin KeepsOldPcs
    BY <1>2, <1>7, <2>2 DEF Activate, HealthCheck, Restart, Commit, RestoreState, disk
  <2> QED BY <2>1, <2>2
<1>8. CASE RollbackCommit(p) \/ RollbackRestart(p) \/ RollbackHealthCheck(p) \/
           RollbackRecordHealthy(p) \/ RollbackRestoreState(p)
  <2>1. CASE pc'[p] \in KeepsOldPcs
    <3>1. UNCHANGED <<ptr, dirs, old, cand>> /\ pc[p] \in KeepsOldPcs
          /\ pc'[p] \notin {"switchPrev", "switchCur", "rbUndoCur"}
      BY <1>8, <2>1 DEF RollbackCommit, RollbackRestart, RollbackHealthCheck,
         RollbackRecordHealthy, RollbackRestoreState, disk, local
    <3> QED BY <1>1, <3>1
  <2>2. CASE pc'[p] \notin KeepsOldPcs
    BY <1>2, <1>8, <2>2 DEF RollbackCommit, RollbackRestart, RollbackHealthCheck,
       RollbackRecordHealthy, RollbackRestoreState, disk
  <2> QED BY <2>1, <2>2
<1>9. CASE SwitchPrevious(p)
  BY <1>0, <1>9 DEF SwitchPrevious, LinkPrevious, CalmOf, local
<1>10. CASE SwitchCurrent(p)
  BY <1>0, <1>10 DEF SwitchCurrent, LinkCurrent, CalmOf, local
<1>11. CASE RestoreCurrent(p)
  BY <1>0, <1>11 DEF RestoreCurrent, PointCurrent, CalmOf, local, FreshInv, FreshOf
<1>12. CASE RestorePrevious(p)
  BY <1>0, <1>12 DEF RestorePrevious, PointPrevious, CalmOf, local, FreshInv, FreshOf
<1>13. CASE RollbackUndoPrevious(p)
  BY <1>0, <1>13 DEF RollbackUndoPrevious, LinkPrevious, CalmOf
<1>14. CASE RollbackUndoCurrent(p)
  BY <1>0, <1>14 DEF RollbackUndoCurrent, LinkCurrent, CalmOf, local
<1> QED BY <1>3, <1>4, <1>5, <1>6, <1>7, <1>8, <1>9, <1>10, <1>11, <1>12, <1>13, <1>14
   DEF Continue

\* One process keeps itself in sync with the disk.
LEMMA CalmStep ==
    ASSUME Alone, ~Crashes, ~IoErrors, TInv, LabelsInv, ApplyInv, FreshInv, SyncInv,
           CalmInv, [Next]_vars
    PROVE  CalmInv'
<1>1. ASSUME NEW p \in Procs, Begin(p) \/ Continue(p) PROVE CalmInv'
  <2>1. CalmOf(p)'
    BY <1>1, MemoryStep, MatchStep, ExistsStep DEF CalmOf
  <2>2. ptr'.cur # None /\ Exists(ptr)'
    BY <1>1, MatchStep, ExistsStep
  <2> QED BY <2>1, <2>2 DEF CalmInv, Alone
<1>2. ASSUME NEW p \in Procs, Aside(p) PROVE CalmInv'
  <2>0. UNCHANGED <<ptr, dirs, stateFile>>
    BY <1>2, AsideFrame DEF TInv, disk
  <2>1. pc[p] \in IdlePcs
    BY <1>2 DEF Aside, Compose, Quit, Contend, Crash, IdlePcs
  <2>2. pc'[p] \in IdlePcs /\ (pc'[p] = "idle" => mem'[p] = stateFile)
    BY <1>2, AsideFrame DEF TInv
  <2>3. stateFile.cur = ptr.cur /\ stateFile.prev = ptr.prev
    BY <2>1 DEF CalmInv, CalmOf, MatchPcs
  <2>4. CalmOf(p)'
    BY <2>0, <2>2, <2>3 DEF CalmOf, IdlePcs, KeepsOldPcs
  <2> QED BY <2>0, <2>4 DEF CalmInv, Alone, Exists
<1>3. CASE Environment
  BY <1>3, EnvironmentFrame DEF CalmInv, CalmOf, StartedInSync, Exists, disk, local
<1>4. CASE UNCHANGED vars
  BY <1>4 DEF CalmInv, CalmOf, StartedInSync, Exists, vars
<1> QED BY <1>1, <1>2, <1>3, <1>4, StepCases
--------------------------------------------------------------------------------
(* Theorems.                                                               *)

\* Each operation stays at its labels, in every environment.
LEMMA AlwaysLabelled == Spec => []LabelsInv
  BY LabelsInit, LabelsStep, AlwaysTyped, PTL DEF Spec

\* Processes that exclude each other leave the candidate of an apply alone.
LEMMA AlwaysBuilt ==
    ASSUME Exclusive
    PROVE  Spec => []ApplyInv
<1>1. TInv /\ LockHeld /\ LabelsInv /\ ApplyInv /\ [Next]_vars => ApplyInv'
  BY ApplyStep
<1> QED BY <1>1, ApplyInit, AlwaysHeld, AlwaysLabelled, PTL DEF Spec

\* For processes that exclude each other, whatever crashes and whatever calls fail: an
\* apply that reports success has its own candidate as the current generation on disk,
\* in state.json and in the service, rendered from the node it selected and from the
\* routing file as it is, and neither prune_generations nor another process has
\* removed it.
THEOREM SuccessActivates ==
    ASSUME Exclusive
    PROVE  Spec => []SuccessIsActive
<1>1. ApplyInv => SuccessIsActive
  BY DEF ApplyInv, ApplyOf, ApplyOps, SuccessIsActive, RenderedPcs, ValidatedPcs,
     LinkedPcs, RecordedPcs, StartedPcs, Rendered, Recorded
<1> QED BY <1>1, AlwaysBuilt, PTL

\* Without I/O errors, what an operation that started in sync has changed is known.
LEMMA AlwaysSynced ==
    ASSUME Exclusive, ~IoErrors
    PROVE  Spec => []SyncInv
<1>1. TInv /\ LockHeld /\ FreshInv /\ SyncInv /\ [Next]_vars => SyncInv'
  BY SyncStep
<1> QED BY <1>1, SyncInit, AlwaysFresh, PTL DEF Spec

\* Without crashes and I/O errors the service diverges from `current` only within an
\* operation.
LEMMA AlwaysRuns ==
    ASSUME Exclusive, ~Crashes, ~IoErrors
    PROVE  Spec => []RunInv
<1>1. Init => RunInv
  BY DEF Init, RunInv
<1>2. TInv /\ LockHeld /\ FreshInv /\ RunInv /\ [Next]_vars => RunInv'
  BY RunStep
<1> QED BY <1>1, <1>2, AlwaysFresh, PTL DEF Spec

\* For processes that exclude each other, if none dies and no call fails: whenever no
\* operation is under way the service runs the generation `current` names, or nothing,
\* although rejected activations and failed rollbacks moved the link twice and systemd
\* restarted the service from it in between.
THEOREM ServiceFollowsCurrent ==
    ASSUME Exclusive, ~Crashes, ~IoErrors
    PROVE  Spec => []RunningIsCurrent
<1>1. RunInv => RunningIsCurrent
  BY DEF RunInv, Diverged, DivergedPcs, RunningIsCurrent, Quiet, IdlePcs
<1> QED BY <1>1, AlwaysRuns, PTL

\* One process at a time, nothing fails: the disk and the memory stay in sync.
LEMMA AlwaysCalm ==
    ASSUME Alone, ~Crashes, ~IoErrors
    PROVE  Spec => [](TInv /\ FreshInv /\ SyncInv /\ CalmInv)
<1>0. Exclusive
  BY DEF Exclusive
<1>1. TInv /\ LabelsInv /\ ApplyInv /\ FreshInv /\ SyncInv /\ CalmInv /\ [Next]_vars
        => CalmInv'
  BY CalmStep
<1> QED BY <1>0, <1>1, CalmInit, AlwaysLabelled, AlwaysBuilt, AlwaysFresh, AlwaysSynced,
   PTL DEF Spec

\* For operations that run one after the other, if none dies and no call fails: between
\* them state.json names the generations the links name, whichever of them were undone.
THEOREM StateFollowsLinks ==
    ASSUME Alone, Procs # {}, ~Crashes, ~IoErrors
    PROVE  Spec => []StateMatchesLinks
<1>1. CalmInv => StateMatchesLinks
  BY DEF CalmInv, CalmOf, StateMatchesLinks, Quiet, MatchPcs
<1> QED BY <1>1, AlwaysCalm, PTL

\* And the generation `current` names exists: no pruning and no rejected candidate
\* took it away.
THEOREM CurrentStays ==
    ASSUME Alone, ~Crashes, ~IoErrors
    PROVE  Spec => []CurrentExists
<1>1. CalmInv => CurrentExists
  BY DEF CalmInv, CurrentExists, Exists, Named
<1> QED BY <1>1, AlwaysCalm, PTL

\* And a `config rollback` that succeeds has exchanged the links, once, and the service
\* runs what was the previous generation.
THEOREM RollbackSwaps ==
    ASSUME Alone, ~Crashes, ~IoErrors
    PROVE  Spec => []RollbackSwapsLinks
<1>0. Exclusive
  BY DEF Exclusive
<1>1. Init => SwapInv
  BY DEF Init, SwapInv
<1>2. TInv /\ LockHeld /\ LabelsInv /\ FreshInv /\ SyncInv /\ SwapInv /\ [Next]_vars
        => SwapInv'
  BY SwapStep
<1>3. TInv /\ CalmInv /\ RunInv /\ SwapInv => RollbackSwapsLinks
  <2> SUFFICES ASSUME TInv, CalmInv, RunInv, SwapInv, NEW p \in Procs,
                      pc[p] = "succeeded", op[p] = "rollback"
               PROVE  /\ ptr = [cur |-> was[p].ptr.prev, prev |-> was[p].ptr.cur]
                      /\ running \in {ptr.cur, None}
    BY DEF RollbackSwapsLinks
  <2>1. ptr.cur = was[p].ptr.prev /\ ptr.prev = was[p].ptr.cur
    BY DEF CalmInv, CalmOf, IdlePcs, SwapInv
  <2>2. ptr = [cur |-> was[p].ptr.prev, prev |-> was[p].ptr.cur]
    BY <2>1 DEF TInv, TypeOK, DiskOK, Links
  <2>3. running \in {ptr.cur, None}
    BY DEF RunInv, Diverged, DivergedPcs, Alone
  <2> QED BY <2>2, <2>3
<1> QED BY <1>0, <1>1, <1>2, <1>3, AlwaysLabelled, AlwaysHeld, AlwaysRuns, AlwaysCalm, PTL
   DEF Spec
--------------------------------------------------------------------------------
(* ConfigApply implements Activation.                                      *)

\* What the trial under way has replaced.
Fallback == IF OnTrial = {} THEN None ELSE old[CHOOSE p \in OnTrial : TRUE].cur

\* With one process, the trial is that of this process.
LEMMA FallbackOf ==
    ASSUME Alone, NEW p \in Procs
    PROVE  /\ Fallback = IF pc[p] \in TrialPcs THEN old[p].cur ELSE None
           /\ Fallback' = IF pc'[p] \in TrialPcs THEN old'[p].cur ELSE None
<1>1. OnTrial = IF pc[p] \in TrialPcs THEN {p} ELSE {}
  BY DEF OnTrial, Alone
<1>2. OnTrial' = IF pc'[p] \in TrialPcs THEN {p} ELSE {}
  BY DEF OnTrial, Alone
<1>3. (CHOOSE q \in {p} : TRUE) = p
  OBVIOUS
<1>4. Fallback = IF pc[p] \in TrialPcs THEN old[p].cur ELSE None
  BY <1>1, <1>3 DEF Fallback
<1>5. Fallback' = IF pc'[p] \in TrialPcs THEN old'[p].cur ELSE None
  BY <1>2, <1>3 DEF Fallback
<1> QED BY <1>4, <1>5

\* The moves of Activation, by the labels of a process.
StaysOff(p) == pc[p] \notin TrialPcs /\ pc'[p] \notin TrialPcs /\ ptr'.cur = ptr.cur
StaysOn(p) == /\ pc[p] \in TrialPcs /\ pc'[p] \in TrialPcs
              /\ UNCHANGED <<ptr.cur, old[p].cur>>
Tries(p) == /\ pc[p] \notin TrialPcs /\ pc'[p] \in TrialPcs
            /\ old'[p].cur = ptr.cur /\ ptr'.cur \in Gens
Accepts(p) == /\ pc[p] \in TrialPcs /\ pc'[p] \notin TrialPcs
              /\ old[p].cur # None /\ ptr'.cur = ptr.cur
Reverts(p) == /\ pc[p] \in TrialPcs /\ pc'[p] \notin TrialPcs
              /\ old[p].cur # None /\ ptr'.cur = old[p].cur

\* Every step of an operation is one of these moves: the switch of `current` starts the
\* trial, a start without a node or a recorded healthcheck accepts it, and
\* restore_generation or the second half of the second rollback_generation ends it.
LEMMA TrialStep ==
    ASSUME ~IoErrors, TInv, FreshInv, SyncInv, CalmInv,
           NEW p \in Procs, Begin(p) \/ Continue(p)
    PROVE  StaysOff(p) \/ StaysOn(p) \/ Tries(p) \/ Accepts(p) \/ Reverts(p)
<1> USE DEF TInv, TypeOK, DiskOK, ControlOK, LocalOK, Links, State, Goto, TrialPcs,
   WriteStateFails
<1>0. CalmOf(p) /\ SyncOf(p) /\ FreshOf(p) /\ ptr.cur # None
  BY DEF CalmInv, SyncInv, FreshInv
<1>a. pc[p] \in TrialPcs => old[p].cur # None
  BY <1>0 DEF CalmOf, SyncOf, FreshOf, StartedInSync, KeepsOldPcs, IdlePcs
<1>1. CASE Begin(p)
  <2>1. CASE ConfigRollback(p)
    BY <2>1 DEF ConfigRollback, Acquire, disk, StaysOff
  <2>2. CASE ~ConfigRollback(p)
    BY <1>1, <2>2, BeginFrame DEF ServicePcs, StaysOff
  <2> QED BY <2>1, <2>2
<1>2. CASE Prepare(p) \/ Validate(p) \/ Prune(p) \/ RestoreState(p) \/
           RestartRestored(p) \/ Discard(p) \/ RestoreRouting(p)
  BY <1>2 DEF Prepare, Validate, Prune, RestoreState, RestartRestored, Discard,
     RestoreRouting, ApplyFailed, disk, StaysOff
<1>3. CASE ServiceStart(p) \/ ServiceStop(p) \/ ServiceRestart(p) \/ Reconcile(p) \/
           Release(p) \/ RollbackRestoreState(p) \/ RollbackRestartRestored(p)
  BY <1>3 DEF ServiceStart, ServiceStop, ServiceRestart, Reconcile, Release,
     RollbackRestoreState, RollbackRestartRestored, disk, StaysOff
<1>4. CASE SwitchPrevious(p)
  BY <1>4 DEF SwitchPrevious, LinkPrevious, StaysOff
<1>5. CASE SwitchCurrent(p)
  <2>1. cand[p] \in Gens
    BY <1>0, <1>5 DEF SwitchCurrent, CalmOf
  <2>2. old[p].cur = ptr.cur
    BY <1>0, <1>5 DEF SwitchCurrent, SyncOf, CalmOf, StartedInSync, KeepsOldPcs, Named,
       IdlePcs
  <2> QED BY <1>5, <2>1, <2>2 DEF SwitchCurrent, LinkCurrent, local, Tries
<1>6. CASE Commit(p) \/ RollbackCommit(p) \/ Activate(p)
  BY <1>6 DEF Commit, RollbackCommit, Activate, disk, local, StaysOn
<1>7. CASE Restart(p) \/ HealthCheck(p) \/ RecordHealthy(p)
  BY <1>a, <1>7 DEF Restart, HealthCheck, RecordHealthy, disk, local, StaysOn, Accepts
<1>8. CASE RollbackRestart(p) \/ RollbackHealthCheck(p) \/ RollbackRecordHealthy(p)
  BY <1>a, <1>8 DEF RollbackRestart, RollbackHealthCheck, RollbackRecordHealthy, disk,
     local, StaysOn, Accepts
<1>9. CASE RestoreCurrent(p)
  BY <1>0, <1>a, <1>9 DEF RestoreCurrent, PointCurrent, FreshOf, Reverts
<1>10. CASE RestorePrevious(p)
  BY <1>0, <1>10 DEF RestorePrevious, PointPrevious, FreshOf, StaysOff
<1>11. CASE RollbackUndoPrevious(p)
  <2>1. ptr.prev # None
    BY <1>0, <1>11 DEF RollbackUndoPrevious, SyncOf, CalmOf, StartedInSync, IdlePcs
  <2> QED BY <1>11, <2>1 DEF RollbackUndoPrevious, LinkPrevious, StaysOn
<1>12. CASE RollbackUndoCurrent(p)
  <2>1. cand[p] = old[p].cur
    BY <1>0, <1>12 DEF RollbackUndoCurrent, SyncOf, CalmOf, StartedInSync, KeepsOldPcs,
       IdlePcs
  <2> QED BY <1>a, <1>12, <2>1 DEF RollbackUndoCurrent, LinkCurrent, local, Reverts
<1> QED BY <1>1, <1>2, <1>3, <1>4, <1>5, <1>6, <1>7, <1>8, <1>9, <1>10, <1>11, <1>12
   DEF Continue

\* The initial state maps to an initial state of Activation.
LEMMA ActInit == Init => Act!Init
<1> SUFFICES ASSUME Init PROVE Act!Init
  OBVIOUS
<1>1. ptr.cur \in Gens
  BY ConfigAssumption DEF Init, Gens
<1>2. OnTrial = {}
  BY DEF Init, OnTrial, TrialPcs
<1> QED BY <1>1, <1>2 DEF Act!Init

\* Every step maps to a step of Activation or to a stutter.
LEMMA ActStep ==
    ASSUME Alone, ~Crashes, ~IoErrors, TInv, FreshInv, SyncInv, CalmInv, [Next]_vars
    PROVE  [Act!Next]_(Act!vars)
<1>1. CASE UNCHANGED <<ptr.cur, Fallback>>
  BY <1>1 DEF Act!vars, Fallback
<1>2. ASSUME NEW p \in Procs, Begin(p) \/ Continue(p) PROVE [Act!Next]_(Act!vars)
  <2>0. /\ Fallback = IF pc[p] \in TrialPcs THEN old[p].cur ELSE None
        /\ Fallback' = IF pc'[p] \in TrialPcs THEN old'[p].cur ELSE None
    BY FallbackOf
  <2>1. CASE StaysOff(p) \/ StaysOn(p)
    BY <1>1, <2>0, <2>1 DEF StaysOff, StaysOn
  <2>2. CASE Tries(p)
    <3>1. Fallback = None /\ Fallback' = ptr.cur /\ ptr'.cur \in Gens
      BY <2>0, <2>2 DEF Tries
    <3>2. Act!Try(ptr'.cur)
      BY <3>1 DEF Act!Try, Fallback
    <3> QED BY <3>1, <3>2 DEF Act!Next
  <2>3. CASE Accepts(p)
    <3>1. Fallback # None /\ Fallback' = None /\ ptr'.cur = ptr.cur
      BY <2>0, <2>3 DEF Accepts
    <3>2. Act!Accept
      BY <3>1 DEF Act!Accept, Fallback
    <3> QED BY <3>2 DEF Act!Next
  <2>4. CASE Reverts(p)
    <3>1. Fallback # None /\ Fallback' = None /\ ptr'.cur = Fallback
      BY <2>0, <2>4 DEF Reverts
    <3>2. Act!Revert
      BY <3>1 DEF Act!Revert, Fallback
    <3> QED BY <3>2 DEF Act!Next
  <2> QED BY <1>2, <2>1, <2>2, <2>3, <2>4, TrialStep
<1>3. ASSUME NEW p \in Procs, Aside(p) PROVE [Act!Next]_(Act!vars)
  <2>1. ptr' = ptr /\ pc'[p] \in IdlePcs
    BY <1>3, AsideFrame DEF TInv, disk
  <2>2. pc[p] \in IdlePcs
    BY <1>3 DEF Aside, Compose, Quit, Contend, Crash, IdlePcs
  <2>3. Fallback = None /\ Fallback' = None
    BY <2>1, <2>2, FallbackOf DEF IdlePcs, TrialPcs
  <2> QED BY <1>1, <2>1, <2>3
<1>4. CASE Environment
  BY <1>1, <1>4, EnvironmentFrame DEF Fallback, OnTrial, disk, local
<1>5. CASE UNCHANGED vars
  BY <1>1, <1>5 DEF Fallback, OnTrial, vars
<1> QED BY <1>2, <1>3, <1>4, <1>5, StepCases

\* For operations that run one after the other, if none dies and no call fails, what
\* apply_config and commit_generation_rollback do to the current generation is what
\* Activation specifies: a trial of a new generation at a time, which is kept, or ended
\* by going back to exactly the generation it replaced.
THEOREM ActivationImplemented ==
    ASSUME Alone, ~Crashes, ~IoErrors
    PROVE  Spec => ImplementsActivation
<1>1. TInv /\ FreshInv /\ SyncInv /\ CalmInv /\ [Next]_vars => [Act!Next]_(Act!vars)
  BY ActStep
<1> QED BY <1>1, ActInit, AlwaysCalm, PTL DEF Spec, ImplementsActivation, Act!Spec
================================================================================
