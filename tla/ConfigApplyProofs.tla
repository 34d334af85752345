--------------------------- MODULE ConfigApplyProofs ---------------------------
(***************************************************************************)
(* Proofs about ConfigApply for every number of processes, nodes, routings *)
(* and generations.  In every environment: type correctness, and that only *)
(* validated generations are ever linked or run.  Without I/O errors, for  *)
(* processes that exclude each other (because there is only one, or by a   *)
(* lock file that is kept): no linked generation is removed, and an        *)
(* operation which started in sync and failed has put everything back.     *)
(***************************************************************************)
EXTENDS ConfigApply, TLAPS

\* An operation that waits for its validation has a candidate.
CandInv == \A p \in Procs : pc[p] = "validate" => cand[p] \in Gens

TInv == TypeOK /\ CandInv

\* Operations exclude each other: nobody removes the lock file, or there is only one
\* process.
Alone == \A p, q \in Procs : p = q

Exclusive == LockFileKept \/ Alone

\* Whoever is past acquire_lock holds manager.lock, unless it needs no lock.
LockHeld == Alone \/ \A p \in Procs : pc[p] \notin IdlePcs => lock = p

Named(s) == {s.cur, s.prev}

\* Every generation that the links, state.json or the memory of a process name,
\* and every candidate about to be linked, has been validated.
ValidInv ==
    LET valid == validated \cup {None}
    IN  /\ Named(ptr) \subseteq valid
        /\ running \in valid
        /\ Named(stateFile) \subseteq valid
        /\ \A p \in Procs :
            /\ Named(mem[p]) \subseteq valid
            /\ Named(old[p]) \subseteq valid
            /\ pc[p] \in {"switchPrev", "switchCur", "commit", "rbUndoCur"} =>
                  cand[p] \in valid

\* A validated generation has a name that was handed out, and so does a candidate
\* waiting for its validation.
SpentInv ==
    /\ \A g \in validated : g < nextGen
    /\ \A p \in Procs : pc[p] = "validate" => cand[p] < nextGen

\* Without I/O errors the candidate of an apply is a generation that neither the
\* links nor the memory of the process name, before the switch and again after
\* the links have been restored from memory.
FreshPcs == {"commit", "activate", "restart", "health", "restoreCur",
             "restorePrev", "unstate", "rerestart", "discard"}

FreshOf(p) ==
    /\ pc[p] \notin {"undoCur", "undoPrev"}
    /\ pc[p] = "validate" => cand[p] \notin Named(ptr) \cup Named(mem[p])
    /\ pc[p] \in FreshPcs => cand[p] \notin Named(old[p])
    /\ (pc[p] \in {"switchPrev", "switchCur"} /\ op[p] # "rollback") =>
          cand[p] \notin Named(old[p])
    /\ pc[p] = "restorePrev" => ptr.cur = old[p].cur
    /\ pc[p] \in {"unstate", "rerestart", "discard"} =>
          ptr.cur = old[p].cur /\ ptr.prev = old[p].prev

FreshInv == \A p \in Procs : FreshOf(p)

RoutingSaved(p) ==
    IF op[p] = "routing" THEN saved[p] = was[p].routing
                         ELSE routingFile = was[p].routing

KeepsOldPcs == {"switchPrev", "switchCur", "commit", "activate", "restart", "health",
    "healthy", "restoreCur", "restorePrev", "unstate", "rbCommit", "rbRestart",
    "rbHealth", "rbHealthy", "rbUndoPrev", "rbUndoCur", "rbUnstate"}

UndoPcs == RollbackPcs \ {"switchPrev", "switchCur"}

\* Without I/O errors: what an operation that started in sync has changed so far,
\* and that its memory still knows what to put back.
SyncOf(p) ==
    (pc[p] \notin IdlePcs /\ StartedInSync(p)) =>
        /\ pc[p] \in {"prepare", "validate"} =>
              mem[p] = was[p].mem /\ op[p] # "rollback"
        /\ pc[p] \in KeepsOldPcs => old[p] = was[p].mem
        /\ pc[p] \in {"prepare", "validate", "switchPrev", "unstate", "rerestart",
                      "discard", "unroute", "rbUnstate", "rbRerestart", "failed"} =>
              ptr = was[p].ptr
        /\ pc[p] \in {"prepare", "validate", "switchPrev", "switchCur",
                      "rerestart", "discard", "unroute", "rbRerestart", "failed"} =>
              stateFile = was[p].state
        /\ pc[p] = "restorePrev" => ptr.cur = was[p].ptr.cur
        /\ (pc[p] \in {"switchPrev", "switchCur"} /\ op[p] = "rollback") =>
              cand[p] = was[p].ptr.prev /\ cand[p] # None
        /\ pc[p] = "switchCur" => Named(ptr) = {was[p].ptr.cur}
        /\ pc[p] \in {"rbCommit", "rbRestart", "rbHealth", "rbHealthy",
                      "rbUndoPrev"} =>
              /\ ptr.cur = was[p].ptr.prev /\ ptr.prev = was[p].ptr.cur
              /\ was[p].ptr.prev # None
        /\ pc[p] = "rbUndoCur" =>
              ptr.prev = was[p].ptr.prev /\ cand[p] = was[p].ptr.cur
        /\ pc[p] = "failed" => routingFile = was[p].routing
        /\ pc[p] \notin {"failed", "succeeded"} => RoutingSaved(p)
        /\ pc[p] = "unroute" => op[p] = "routing"
        /\ pc[p] \in UndoPcs => op[p] = "rollback"
        /\ pc[p] \in ServicePcs =>
              op[p] = "other" /\ ptr = was[p].ptr /\ stateFile = was[p].state

SyncInv == \A p \in Procs : SyncOf(p)
--------------------------------------------------------------------------------
(* Control: who may move, and where.                                       *)

\* An operation under way moves on to another label; unless the lock file is
\* removed under it, it keeps its lock.
Advances(p) ==
    /\ pc[p] \notin IdlePcs
    /\ lock' = lock \/ (~LockFileKept /\ lock' = None)
    /\ \/ \E label \in Pcs \ {"validate"} : pc' = [pc EXCEPT ![p] = label]
       \/ /\ pc' = [pc EXCEPT ![p] = "validate"]
          /\ cand'[p] \in Gens
    /\ \A q \in Procs \ {p} : cand'[q] = cand[q]

\* Every step of an operation under way, except the last one, advances it.
LEMMA StepsAdvance ==
    ASSUME TypeOK, NEW p \in Procs, Continue(p), ~Release(p)
    PROVE  Advances(p)
<1> USE DEF Advances, Pcs, IdlePcs, ApplyPcs, RollbackPcs, ServicePcs, Goto, disk,
       service, local, ApplyFailed, SwitchFailed, TypeOK, LocalOK
<1>1. CASE Prepare(p)
  <2>1. nextGen \in Gens
    BY <1>1, ConfigAssumption DEF Prepare, DiskOK, Gens
  <2>2. cand' = [cand EXCEPT ![p] = nextGen] \/ UNCHANGED cand
    BY <1>1 DEF Prepare
  <2> QED BY <1>1, <2>1, <2>2 DEF Prepare
<1>2. CASE Validate(p)
  BY <1>2 DEF Validate
<1>3. CASE SwitchPrevious(p)
  BY <1>3 DEF SwitchPrevious
<1>4. CASE SwitchCurrent(p)
  BY <1>4 DEF SwitchCurrent
<1>5. CASE Commit(p)
  BY <1>5 DEF Commit
<1>6. CASE Activate(p)
  BY <1>6 DEF Activate
<1>7. CASE Restart(p)
  BY <1>7 DEF Restart, StartXray, StartXrayFails, LockLeft
<1>8. CASE HealthCheck(p)
  BY <1>8 DEF HealthCheck
<1>9. CASE RecordHealthy(p)
  BY <1>9 DEF RecordHealthy
<1>10. CASE Prune(p)
  BY <1>10 DEF Prune
<1>11. CASE RestoreCurrent(p)
  BY <1>11 DEF RestoreCurrent
<1>12. CASE RestorePrevious(p)
  BY <1>12 DEF RestorePrevious
<1>13. CASE RestoreState(p)
  BY <1>13 DEF RestoreState
<1>14. CASE RestartRestored(p)
  BY <1>14 DEF RestartRestored, StartXray, StartXrayFails, LockLeft
<1>15. CASE Discard(p)
  BY <1>15 DEF Discard
<1>16. CASE RestoreRouting(p)
  BY <1>16 DEF RestoreRouting
<1>17. CASE RollbackCommit(p)
  BY <1>17 DEF RollbackCommit
<1>18. CASE RollbackRestart(p)
  BY <1>18 DEF RollbackRestart, StartXray, StartXrayFails, LockLeft
<1>19. CASE RollbackHealthCheck(p)
  BY <1>19 DEF RollbackHealthCheck
<1>20. CASE RollbackRecordHealthy(p)
  BY <1>20 DEF RollbackRecordHealthy
<1>21. CASE RollbackUndoPrevious(p)
  BY <1>21 DEF RollbackUndoPrevious
<1>22. CASE RollbackUndoCurrent(p)
  BY <1>22 DEF RollbackUndoCurrent
<1>23. CASE RollbackRestoreState(p)
  BY <1>23 DEF RollbackRestoreState
<1>24. CASE RollbackRestartRestored(p)
  BY <1>24 DEF RollbackRestartRestored, StartXray, StartXrayFails, LockLeft
<1>25. CASE ServiceStart(p)
  BY <1>25 DEF ServiceStart, StartXray, StartXrayFails, LockLeft
<1>26. CASE ServiceStop(p)
  BY <1>26 DEF ServiceStop, StartXray, StartXrayFails, LockLeft
<1>27. CASE ServiceRestart(p)
  BY <1>27 DEF ServiceRestart, StartXray, StartXrayFails, LockLeft
<1>28. CASE Reconcile(p)
  BY <1>28 DEF Reconcile
<1> QED BY <1>1, <1>2, <1>3, <1>4, <1>5, <1>6, <1>7, <1>8, <1>9, <1>10, <1>11,
   <1>12, <1>13, <1>14, <1>15, <1>16, <1>17, <1>18, <1>19, <1>20, <1>21,
   <1>22, <1>23, <1>24, <1>25, <1>26, <1>27, <1>28 DEF Continue

\* While a process holds the lock, or nobody does, the others are idle.
LEMMA OthersIdle ==
    ASSUME LockHeld, NEW p \in Procs, lock \in {p, None},
           NEW q \in Procs, q # p
    PROVE  pc[q] \in IdlePcs
  BY ConfigAssumption DEF LockHeld, Alone

\* Advancing keeps the control state well-formed and candidates in place.
LEMMA AdvanceKeepsControl ==
    ASSUME TInv, NEW p \in Procs, Advances(p)
    PROVE  ControlOK' /\ CandInv'
<1> USE DEF TInv, TypeOK, Advances
<1>1. ControlOK'
  BY DEF ControlOK, Pcs, ApplyPcs
<1>2. CandInv'
  BY DEF CandInv, ControlOK
<1> QED BY <1>1, <1>2

\* Taking the lock fills in the snapshot and nothing else of the process.
LEMMA AcquireTyped ==
    ASSUME TypeOK, NEW p \in Procs, NEW o \in Ops, Acquire(p, o)
    PROVE  op' \in [Procs -> Ops] /\ was' \in [Procs -> Snapshot]
<1>1. [ptr |-> ptr, state |-> stateFile, mem |-> mem[p], routing |-> routingFile]
        \in Snapshot
  BY DEF TypeOK, DiskOK, LocalOK, Snapshot
<1> QED BY <1>1 DEF Acquire, TypeOK, LocalOK

\* What a subscription refresh may change before the selection is reconciled.
LEMMA RefreshFrame ==
    ASSUME TypeOK, NEW p \in Procs, SubscriptionRefresh(p)
    PROVE  /\ Acquire(p, "refresh")
           /\ \E label \in {"reconcile", "succeeded", "failed"} : Goto(p, label)
           /\ nodesFile' \subseteq Nodes
           /\ want' \in [Procs -> NodeOrNone]
           /\ UNCHANGED <<ptr, dirs, nextGen, conf, stateFile, routingFile, service,
                          mem, cand, old, saved, validated>>
<1>1. ASSUME NEW nodes \in SUBSET Nodes, StoreNodes(p, nodes)
      PROVE  /\ \E label \in {"reconcile", "succeeded"} : Goto(p, label)
             /\ nodesFile' \subseteq Nodes
             /\ want' \in [Procs -> NodeOrNone]
  <2>1. Reconciled(SelectedNode(mem[p].sel), nodes) \in NodeOrNone
    BY DEF Reconciled, NodeOrNone
  <2> QED BY <1>1, <2>1 DEF StoreNodes, TypeOK, LocalOK, NodeOrNone
<1>2. ASSUME NEW subs \in SUBSET Subs,
             NEW fresh \in SUBSET {n \in Nodes : SubOf[n] \in subs}
      PROVE  {n \in nodesFile : SubOf[n] \notin subs} \cup fresh \in SUBSET Nodes
  BY DEF TypeOK, DiskOK
<1> QED BY <1>1, <1>2 DEF SubscriptionRefresh, TypeOK, DiskOK, LocalOK
--------------------------------------------------------------------------------
(* Type correctness.                                                       *)

\* An installed system is well-typed and idle.
LEMMA TypeInit == Init => TInv
  BY ConfigAssumption, NoneAssumption
     DEF Init, TInv, TypeOK, DiskOK, ServiceOK, ControlOK, LocalOK, CandInv,
         Links, State, Snapshot, Conf, Gens, GenOrNone, NodeOrNone,
         RoutingOrNone, Pcs, IdlePcs, Ops, NoState, NoConf, NoSnapshot

\* Moving a link keeps the pair of links well-formed.
LEMMA LinksTyped ==
    ASSUME NEW links \in Links(Gens), NEW target \in GenOrNone
    PROVE  /\ links.cur \in GenOrNone /\ links.prev \in GenOrNone
           /\ LinkPrevious(links) \in Links(Gens)
           /\ LinkCurrent(links, target) \in Links(Gens)
           /\ PointCurrent(links, target) \in Links(Gens)
           /\ PointPrevious(links, target) \in Links(Gens)
  BY DEF Links, GenOrNone, LinkPrevious, LinkCurrent, PointCurrent, PointPrevious

\* A pair of links is determined by its two targets.
LEMMA LinksEqual ==
    ASSUME NEW a \in Links(Gens), NEW b \in Links(Gens), a.cur = b.cur, a.prev = b.prev
    PROVE  a = b
  BY DEF Links

\* The state a process writes is built from generations and a node it knows.
LEMMA StateTyped ==
    /\ \A s \in State : s.cur \in GenOrNone /\ s.prev \in GenOrNone
                        /\ s.sel \in NodeOrNone
    /\ \A c, d \in GenOrNone, n \in NodeOrNone :
          [cur |-> c, prev |-> d, sel |-> n] \in State
    /\ \A s \in State, n \in NodeOrNone : [s EXCEPT !.sel = n] \in State
    /\ NoState \in State
  BY DEF State, NoState, GenOrNone, NodeOrNone

\* Every step of every process and of systemd keeps the types.
LEMMA TypeStep == TInv /\ [Next]_vars => TInv'
<1> SUFFICES ASSUME TInv, [Next]_vars PROVE TInv'
  OBVIOUS
<1> USE DEF TInv, TypeOK
<1>1. ASSUME NEW p \in Procs, Compose(p) PROVE TInv'
  <2>1. DiskOK' /\ ServiceOK'
    BY <1>1, StateTyped DEF Compose, disk, service, DiskOK, ServiceOK, LocalOK
  <2>2. LocalOK'
    BY <1>1, StateTyped DEF Compose, LocalOK, DiskOK
  <2>3. ControlOK' /\ CandInv'
    BY <1>1, ConfigAssumption DEF Compose, ControlOK, LocalOK, CandInv, Pcs,
       IdlePcs, ApplyPcs, ServicePcs, Goto, disk
  <2> QED BY <2>1, <2>2, <2>3
<1>2. ASSUME NEW p \in Procs, Quit(p) PROVE TInv'
  <2>1. DiskOK' /\ ServiceOK'
    BY <1>2, StateTyped DEF Quit, disk, service, DiskOK, ServiceOK, LocalOK
  <2>2. LocalOK'
    BY <1>2, StateTyped DEF Quit, LocalOK, DiskOK
  <2>3. ControlOK' /\ CandInv'
    BY <1>2, ConfigAssumption DEF Quit, ControlOK, LocalOK, CandInv, Pcs,
       IdlePcs, ApplyPcs, ServicePcs, Goto, disk
  <2> QED BY <2>1, <2>2, <2>3
<1>3. ASSUME NEW p \in Procs, Contend(p) PROVE TInv'
  <2>1. DiskOK' /\ ServiceOK'
    BY <1>3, StateTyped DEF Contend, disk, service, DiskOK, ServiceOK, LocalOK
  <2>2. LocalOK'
    BY <1>3, StateTyped DEF Contend, LocalOK, DiskOK
  <2>3. ControlOK' /\ CandInv'
    BY <1>3, ConfigAssumption DEF Contend, ControlOK, LocalOK, CandInv, Pcs,
       IdlePcs, ApplyPcs, ServicePcs, Goto, disk
  <2> QED BY <2>1, <2>2, <2>3
<1>4. ASSUME NEW p \in Procs, NodeSelect(p) PROVE TInv'
  <2>1. DiskOK' /\ ServiceOK'
    BY <1>4 DEF NodeSelect, disk, service, DiskOK, ServiceOK
  <2>2. LocalOK'
    BY <1>4, AcquireTyped DEF NodeSelect, LocalOK, DiskOK, Ops, NodeOrNone,
       RoutingOrNone, SelectedNode
  <2>3. ControlOK' /\ CandInv'
    BY <1>4, ConfigAssumption DEF NodeSelect, ControlOK, LocalOK, CandInv,
       Pcs, IdlePcs, ApplyPcs, ServicePcs, Goto, disk, Acquire
  <2> QED BY <2>1, <2>2, <2>3
<1>5. ASSUME NEW p \in Procs, Apply(p) PROVE TInv'
  <2>1. DiskOK' /\ ServiceOK'
    BY <1>5 DEF Apply, disk, service, DiskOK, ServiceOK
  <2>2. LocalOK'
    BY <1>5, AcquireTyped DEF Apply, LocalOK, DiskOK, Ops, NodeOrNone,
       RoutingOrNone, SelectedNode
  <2>3. ControlOK' /\ CandInv'
    BY <1>5, ConfigAssumption DEF Apply, ControlOK, LocalOK, CandInv, Pcs,
       IdlePcs, ApplyPcs, ServicePcs, Goto, disk, Acquire
  <2> QED BY <2>1, <2>2, <2>3
<1>6. ASSUME NEW p \in Procs, SetRouting(p) PROVE TInv'
  <2>1. DiskOK' /\ ServiceOK'
    BY <1>6 DEF SetRouting, service, DiskOK, ServiceOK, LocalOK, RoutingOrNone
  <2>2. LocalOK'
    BY <1>6, AcquireTyped DEF SetRouting, LocalOK, DiskOK, Ops, NodeOrNone,
       RoutingOrNone, SelectedNode
  <2>3. ControlOK' /\ CandInv'
    BY <1>6, ConfigAssumption DEF SetRouting, ControlOK, LocalOK, CandInv,
       Pcs, IdlePcs, ApplyPcs, ServicePcs, Goto, disk, Acquire
  <2> QED BY <2>1, <2>2, <2>3
<1>7. ASSUME NEW p \in Procs, ConfigRollback(p) PROVE TInv'
  <2>1. DiskOK' /\ ServiceOK'
    BY <1>7, StateTyped DEF ConfigRollback, disk, service, DiskOK, ServiceOK,
       LocalOK
  <2>2. LocalOK'
    BY <1>7, AcquireTyped, StateTyped, LinksTyped DEF ConfigRollback, LocalOK,
       DiskOK, Ops
  <2>3. ControlOK' /\ CandInv'
    BY <1>7, ConfigAssumption DEF ConfigRollback, ControlOK, LocalOK, CandInv,
       Pcs, IdlePcs, ApplyPcs, ServicePcs, Goto, disk, Acquire
  <2> QED BY <2>1, <2>2, <2>3
<1>8. ASSUME NEW p \in Procs, SubscriptionRefresh(p) PROVE TInv'
  <2>1. DiskOK' /\ ServiceOK'
    BY <1>8, RefreshFrame DEF DiskOK, ServiceOK, service
  <2>2. LocalOK'
    BY <1>8, RefreshFrame, AcquireTyped DEF LocalOK, Ops
  <2>3. ControlOK' /\ CandInv'
    BY <1>8, RefreshFrame, ConfigAssumption DEF ControlOK, CandInv, Pcs,
       IdlePcs, Acquire, Goto
  <2> QED BY <2>1, <2>2, <2>3
<1>9. ASSUME NEW p \in Procs, SubscriptionRemove(p) PROVE TInv'
  <2>1. DiskOK' /\ ServiceOK'
    BY <1>9 DEF SubscriptionRemove, service, DiskOK, ServiceOK
  <2>2. LocalOK'
    BY <1>9, AcquireTyped DEF SubscriptionRemove, LocalOK, DiskOK, Ops
  <2>3. ControlOK' /\ CandInv'
    BY <1>9, ConfigAssumption DEF SubscriptionRemove, ControlOK, LocalOK,
       CandInv, Pcs, IdlePcs, ApplyPcs, ServicePcs, Goto, disk, Acquire
  <2> QED BY <2>1, <2>2, <2>3
<1>10. ASSUME NEW p \in Procs, ServiceOperation(p) PROVE TInv'
  <2>1. DiskOK' /\ ServiceOK'
    BY <1>10 DEF ServiceOperation, disk, service, DiskOK, ServiceOK
  <2>2. LocalOK'
    BY <1>10, AcquireTyped DEF ServiceOperation, LocalOK, DiskOK, Ops
  <2>3. ControlOK' /\ CandInv'
    BY <1>10, ConfigAssumption DEF ServiceOperation, ControlOK, LocalOK,
       CandInv, Pcs, IdlePcs, ApplyPcs, ServicePcs, Goto, disk, Acquire
  <2> QED BY <2>1, <2>2, <2>3
<1>11. ASSUME NEW p \in Procs, Prepare(p) PROVE TInv'
  <2>1. DiskOK' /\ ServiceOK'
    <3>1. nextGen \in Gens /\ nextGen' \in 1..(MaxGen + 1)
      BY <1>11, ConfigAssumption DEF Prepare, DiskOK, Gens
    <3>2. [node |-> want[p], routing |-> Effective(routingFile)] \in Conf
      BY ConfigAssumption
         DEF Conf, Effective, LocalOK, DiskOK, RoutingOrNone
    <3>3. conf' \in [Gens -> Conf]
      BY <1>11, <3>1, <3>2 DEF Prepare, DiskOK
    <3>4. dirs' \subseteq Gens
      BY <1>11, <3>1 DEF Prepare, DiskOK
    <3> QED BY <1>11, <3>1, <3>3, <3>4 DEF Prepare, DiskOK, ServiceOK, service
  <2>2. LocalOK'
    BY <1>11, StateTyped DEF Prepare, LocalOK, DiskOK, GenOrNone, Gens
  <2>3. ~Release(p)
    BY <1>11 DEF Prepare, Release
  <2>4. ControlOK' /\ CandInv'
    BY <1>11, <2>3, StepsAdvance, AdvanceKeepsControl DEF Continue
  <2> QED BY <2>1, <2>2, <2>4
<1>12. ASSUME NEW p \in Procs, Validate(p) PROVE TInv'
  <2>1. DiskOK' /\ ServiceOK'
    <3>1. cand[p] \in Gens
      BY <1>12 DEF Validate, CandInv
    <3> QED BY <1>12, <3>1 DEF Validate, RemoveCandidate, DiskOK, ServiceOK,
       service
  <2>2. LocalOK'
    BY <1>12, StateTyped DEF Validate, LocalOK, DiskOK
  <2>3. ~Release(p)
    BY <1>12 DEF Validate, Release
  <2>4. ControlOK' /\ CandInv'
    BY <1>12, <2>3, StepsAdvance, AdvanceKeepsControl DEF Continue
  <2> QED BY <2>1, <2>2, <2>4
<1>13. ASSUME NEW p \in Procs, SwitchPrevious(p) PROVE TInv'
  <2>1. DiskOK' /\ ServiceOK'
    BY <1>13, LinksTyped, StateTyped DEF SwitchPrevious, SwitchFailed,
       RemoveCandidate, service, local, DiskOK, ServiceOK, LocalOK
  <2>2. LocalOK'
    BY <1>13 DEF SwitchPrevious, SwitchFailed, local, LocalOK, DiskOK
  <2>3. ~Release(p)
    BY <1>13 DEF SwitchPrevious, Release
  <2>4. ControlOK' /\ CandInv'
    BY <1>13, <2>3, StepsAdvance, AdvanceKeepsControl DEF Continue
  <2> QED BY <2>1, <2>2, <2>4
<1>14. ASSUME NEW p \in Procs, SwitchCurrent(p) PROVE TInv'
  <2>1. DiskOK' /\ ServiceOK'
    BY <1>14, LinksTyped, StateTyped DEF SwitchCurrent, SwitchFailed,
       RemoveCandidate, service, local, DiskOK, ServiceOK, LocalOK
  <2>2. LocalOK'
    BY <1>14 DEF SwitchCurrent, SwitchFailed, local, LocalOK, DiskOK
  <2>3. ~Release(p)
    BY <1>14 DEF SwitchCurrent, Release
  <2>4. ControlOK' /\ CandInv'
    BY <1>14, <2>3, StepsAdvance, AdvanceKeepsControl DEF Continue
  <2> QED BY <2>1, <2>2, <2>4
<1>15. ASSUME NEW p \in Procs, Commit(p) PROVE TInv'
  <2>1. DiskOK' /\ ServiceOK'
    BY <1>15, StateTyped DEF Commit, WriteState, WriteStateFails, service,
       DiskOK, ServiceOK, LocalOK
  <2>2. LocalOK'
    BY <1>15, StateTyped DEF Commit, WriteState, LocalOK, DiskOK
  <2>3. ~Release(p)
    BY <1>15 DEF Commit, Release
  <2>4. ControlOK' /\ CandInv'
    BY <1>15, <2>3, StepsAdvance, AdvanceKeepsControl DEF Continue
  <2> QED BY <2>1, <2>2, <2>4
<1>16. ASSUME NEW p \in Procs, Activate(p) PROVE TInv'
  <2>1. DiskOK' /\ ServiceOK'
    BY <1>16 DEF Activate, disk, service, local, DiskOK, ServiceOK
  <2>2. LocalOK'
    BY <1>16 DEF Activate, local, LocalOK, DiskOK
  <2>3. ~Release(p)
    BY <1>16 DEF Activate, Release
  <2>4. ControlOK' /\ CandInv'
    BY <1>16, <2>3, StepsAdvance, AdvanceKeepsControl DEF Continue
  <2> QED BY <2>1, <2>2, <2>4
<1>17. ASSUME NEW p \in Procs, Restart(p) PROVE TInv'
  <2>1. DiskOK' /\ ServiceOK'
    BY <1>17 DEF Restart, StartXray, StartXrayFails, service, disk, local,
       DiskOK, ServiceOK, GenOrNone
  <2>2. LocalOK'
    BY <1>17 DEF Restart, local, LocalOK, DiskOK
  <2>3. ~Release(p)
    BY <1>17 DEF Restart, Release
  <2>4. ControlOK' /\ CandInv'
    BY <1>17, <2>3, StepsAdvance, AdvanceKeepsControl DEF Continue
  <2> QED BY <2>1, <2>2, <2>4
<1>18. ASSUME NEW p \in Procs, HealthCheck(p) PROVE TInv'
  <2>1. DiskOK' /\ ServiceOK'
    BY <1>18 DEF HealthCheck, disk, service, local, DiskOK, ServiceOK
  <2>2. LocalOK'
    BY <1>18 DEF HealthCheck, local, LocalOK, DiskOK
  <2>3. ~Release(p)
    BY <1>18 DEF HealthCheck, Release
  <2>4. ControlOK' /\ CandInv'
    BY <1>18, <2>3, StepsAdvance, AdvanceKeepsControl DEF Continue
  <2> QED BY <2>1, <2>2, <2>4
<1>19. ASSUME NEW p \in Procs, RecordHealthy(p) PROVE TInv'
  <2>1. DiskOK' /\ ServiceOK'
    BY <1>19, StateTyped DEF RecordHealthy, WriteState, WriteStateFails,
       service, DiskOK, ServiceOK, LocalOK
  <2>2. LocalOK'
    BY <1>19, StateTyped DEF RecordHealthy, WriteState, LocalOK, DiskOK
  <2>3. ~Release(p)
    BY <1>19 DEF RecordHealthy, Release
  <2>4. ControlOK' /\ CandInv'
    BY <1>19, <2>3, StepsAdvance, AdvanceKeepsControl DEF Continue
  <2> QED BY <2>1, <2>2, <2>4
<1>20. ASSUME NEW p \in Procs, Prune(p) PROVE TInv'
  <2>1. DiskOK' /\ ServiceOK'
    <3>1. Pruned(dirs, ptr, Keep) \subseteq dirs
      BY DEF Pruned, Newest
    <3>2. dirs' \subseteq dirs
      BY <1>20, <3>1 DEF Prune
    <3> QED BY <1>20, <3>2 DEF Prune, DiskOK, ServiceOK, service
  <2>2. LocalOK'
    BY <1>20 DEF Prune, local, LocalOK, DiskOK
  <2>3. ~Release(p)
    BY <1>20 DEF Prune, Release
  <2>4. ControlOK' /\ CandInv'
    BY <1>20, <2>3, StepsAdvance, AdvanceKeepsControl DEF Continue
  <2> QED BY <2>1, <2>2, <2>4
<1>21. ASSUME NEW p \in Procs, RestoreCurrent(p) PROVE TInv'
  <2>1. DiskOK' /\ ServiceOK'
    BY <1>21, LinksTyped, StateTyped DEF RestoreCurrent, service, local,
       DiskOK, ServiceOK, LocalOK
  <2>2. LocalOK'
    BY <1>21 DEF RestoreCurrent, local, LocalOK, DiskOK
  <2>3. ~Release(p)
    BY <1>21 DEF RestoreCurrent, Release
  <2>4. ControlOK' /\ CandInv'
    BY <1>21, <2>3, StepsAdvance, AdvanceKeepsControl DEF Continue
  <2> QED BY <2>1, <2>2, <2>4
<1>22. ASSUME NEW p \in Procs, RestorePrevious(p) PROVE TInv'
  <2>1. DiskOK' /\ ServiceOK'
    BY <1>22, LinksTyped, StateTyped DEF RestorePrevious, service, local,
       DiskOK, ServiceOK, LocalOK
  <2>2. LocalOK'
    BY <1>22 DEF RestorePrevious, local, LocalOK, DiskOK
  <2>3. ~Release(p)
    BY <1>22 DEF RestorePrevious, Release
  <2>4. ControlOK' /\ CandInv'
    BY <1>22, <2>3, StepsAdvance, AdvanceKeepsControl DEF Continue
  <2> QED BY <2>1, <2>2, <2>4
<1>23. ASSUME NEW p \in Procs, RestoreState(p) PROVE TInv'
  <2>1. DiskOK' /\ ServiceOK'
    BY <1>23, StateTyped DEF RestoreState, WriteState, WriteStateFails,
       service, DiskOK, ServiceOK, LocalOK
  <2>2. LocalOK'
    BY <1>23, StateTyped DEF RestoreState, WriteState, LocalOK, DiskOK
  <2>3. ~Release(p)
    BY <1>23 DEF RestoreState, Release
  <2>4. ControlOK' /\ CandInv'
    BY <1>23, <2>3, StepsAdvance, AdvanceKeepsControl DEF Continue
  <2> QED BY <2>1, <2>2, <2>4
<1>24. ASSUME NEW p \in Procs, RestartRestored(p) PROVE TInv'
  <2>1. DiskOK' /\ ServiceOK'
    BY <1>24 DEF RestartRestored, StartXray, StartXrayFails, service, disk,
       local, DiskOK, ServiceOK, GenOrNone
  <2>2. LocalOK'
    BY <1>24 DEF RestartRestored, local, LocalOK, DiskOK
  <2>3. ~Release(p)
    BY <1>24 DEF RestartRestored, Release
  <2>4. ControlOK' /\ CandInv'
    BY <1>24, <2>3, StepsAdvance, AdvanceKeepsControl DEF Continue
  <2> QED BY <2>1, <2>2, <2>4
<1>25. ASSUME NEW p \in Procs, Discard(p) PROVE TInv'
  <2>1. DiskOK' /\ ServiceOK'
    BY <1>25 DEF Discard, RemoveCandidate, service, local, DiskOK, ServiceOK
  <2>2. LocalOK'
    BY <1>25 DEF Discard, local, LocalOK, DiskOK
  <2>3. ~Release(p)
    BY <1>25 DEF Discard, Release
  <2>4. ControlOK' /\ CandInv'
    BY <1>25, <2>3, StepsAdvance, AdvanceKeepsControl DEF Continue
  <2> QED BY <2>1, <2>2, <2>4
<1>26. ASSUME NEW p \in Procs, RestoreRouting(p) PROVE TInv'
  <2>1. DiskOK' /\ ServiceOK'
    BY <1>26 DEF RestoreRouting, service, local, DiskOK, ServiceOK, LocalOK,
       RoutingOrNone
  <2>2. LocalOK'
    BY <1>26 DEF RestoreRouting, local, LocalOK, DiskOK
  <2>3. ~Release(p)
    BY <1>26 DEF RestoreRouting, Release
  <2>4. ControlOK' /\ CandInv'
    BY <1>26, <2>3, StepsAdvance, AdvanceKeepsControl DEF Continue
  <2> QED BY <2>1, <2>2, <2>4
<1>27. ASSUME NEW p \in Procs, RollbackCommit(p) PROVE TInv'
  <2>1. DiskOK' /\ ServiceOK'
    BY <1>27, StateTyped DEF RollbackCommit, WriteState, WriteStateFails,
       service, DiskOK, ServiceOK, LocalOK
  <2>2. LocalOK'
    BY <1>27, StateTyped DEF RollbackCommit, WriteState, LocalOK, DiskOK
  <2>3. ~Release(p)
    BY <1>27 DEF RollbackCommit, Release
  <2>4. ControlOK' /\ CandInv'
    BY <1>27, <2>3, StepsAdvance, AdvanceKeepsControl DEF Continue
  <2> QED BY <2>1, <2>2, <2>4
<1>28. ASSUME NEW p \in Procs, RollbackRestart(p) PROVE TInv'
  <2>1. DiskOK' /\ ServiceOK'
    BY <1>28 DEF RollbackRestart, StartXray, StartXrayFails, service, disk,
       local, DiskOK, ServiceOK, GenOrNone
  <2>2. LocalOK'
    BY <1>28 DEF RollbackRestart, local, LocalOK, DiskOK
  <2>3. ~Release(p)
    BY <1>28 DEF RollbackRestart, Release
  <2>4. ControlOK' /\ CandInv'
    BY <1>28, <2>3, StepsAdvance, AdvanceKeepsControl DEF Continue
  <2> QED BY <2>1, <2>2, <2>4
<1>29. ASSUME NEW p \in Procs, RollbackHealthCheck(p) PROVE TInv'
  <2>1. DiskOK' /\ ServiceOK'
    BY <1>29 DEF RollbackHealthCheck, disk, service, local, DiskOK, ServiceOK
  <2>2. LocalOK'
    BY <1>29 DEF RollbackHealthCheck, local, LocalOK, DiskOK
  <2>3. ~Release(p)
    BY <1>29 DEF RollbackHealthCheck, Release
  <2>4. ControlOK' /\ CandInv'
    BY <1>29, <2>3, StepsAdvance, AdvanceKeepsControl DEF Continue
  <2> QED BY <2>1, <2>2, <2>4
<1>30. ASSUME NEW p \in Procs, RollbackRecordHealthy(p) PROVE TInv'
  <2>1. DiskOK' /\ ServiceOK'
    BY <1>30, StateTyped DEF RollbackRecordHealthy, WriteState,
       WriteStateFails, service, DiskOK, ServiceOK, LocalOK
  <2>2. LocalOK'
    BY <1>30, StateTyped DEF RollbackRecordHealthy, WriteState, LocalOK,
       DiskOK
  <2>3. ~Release(p)
    BY <1>30 DEF RollbackRecordHealthy, Release
  <2>4. ControlOK' /\ CandInv'
    BY <1>30, <2>3, StepsAdvance, AdvanceKeepsControl DEF Continue
  <2> QED BY <2>1, <2>2, <2>4
<1>31. ASSUME NEW p \in Procs, RollbackUndoPrevious(p) PROVE TInv'
  <2>1. DiskOK' /\ ServiceOK'
    BY <1>31, LinksTyped, StateTyped DEF RollbackUndoPrevious, service,
       DiskOK, ServiceOK, LocalOK
  <2>2. LocalOK'
    BY <1>31, StateTyped, LinksTyped DEF RollbackUndoPrevious, LocalOK, DiskOK
  <2>3. ~Release(p)
    BY <1>31 DEF RollbackUndoPrevious, Release
  <2>4. ControlOK' /\ CandInv'
    BY <1>31, <2>3, StepsAdvance, AdvanceKeepsControl DEF Continue
  <2> QED BY <2>1, <2>2, <2>4
<1>32. ASSUME NEW p \in Procs, RollbackUndoCurrent(p) PROVE TInv'
  <2>1. DiskOK' /\ ServiceOK'
    BY <1>32, LinksTyped, StateTyped DEF RollbackUndoCurrent, service, local,
       DiskOK, ServiceOK, LocalOK
  <2>2. LocalOK'
    BY <1>32 DEF RollbackUndoCurrent, local, LocalOK, DiskOK
  <2>3. ~Release(p)
    BY <1>32 DEF RollbackUndoCurrent, Release
  <2>4. ControlOK' /\ CandInv'
    BY <1>32, <2>3, StepsAdvance, AdvanceKeepsControl DEF Continue
  <2> QED BY <2>1, <2>2, <2>4
<1>33. ASSUME NEW p \in Procs, RollbackRestoreState(p) PROVE TInv'
  <2>1. DiskOK' /\ ServiceOK'
    BY <1>33, StateTyped DEF RollbackRestoreState, WriteState,
       WriteStateFails, service, DiskOK, ServiceOK, LocalOK
  <2>2. LocalOK'
    BY <1>33, StateTyped DEF RollbackRestoreState, WriteState, LocalOK, DiskOK
  <2>3. ~Release(p)
    BY <1>33 DEF RollbackRestoreState, Release
  <2>4. ControlOK' /\ CandInv'
    BY <1>33, <2>3, StepsAdvance, AdvanceKeepsControl DEF Continue
  <2> QED BY <2>1, <2>2, <2>4
<1>34. ASSUME NEW p \in Procs, RollbackRestartRestored(p) PROVE TInv'
  <2>1. DiskOK' /\ ServiceOK'
    BY <1>34 DEF RollbackRestartRestored, StartXray, StartXrayFails, service,
       disk, local, DiskOK, ServiceOK, GenOrNone
  <2>2. LocalOK'
    BY <1>34 DEF RollbackRestartRestored, local, LocalOK, DiskOK
  <2>3. ~Release(p)
    BY <1>34 DEF RollbackRestartRestored, Release
  <2>4. ControlOK' /\ CandInv'
    BY <1>34, <2>3, StepsAdvance, AdvanceKeepsControl DEF Continue
  <2> QED BY <2>1, <2>2, <2>4
<1>35. ASSUME NEW p \in Procs, ServiceStart(p) PROVE TInv'
  <2>1. DiskOK' /\ ServiceOK'
    BY <1>35 DEF ServiceStart, StartXray, StartXrayFails, service, disk,
       local, DiskOK, ServiceOK, GenOrNone
  <2>2. LocalOK'
    BY <1>35 DEF ServiceStart, local, LocalOK, DiskOK
  <2>3. ~Release(p)
    BY <1>35 DEF ServiceStart, Release
  <2>4. ControlOK' /\ CandInv'
    BY <1>35, <2>3, StepsAdvance, AdvanceKeepsControl DEF Continue
  <2> QED BY <2>1, <2>2, <2>4
<1>36. ASSUME NEW p \in Procs, ServiceStop(p) PROVE TInv'
  <2>1. DiskOK' /\ ServiceOK'
    BY <1>36 DEF ServiceStop, disk, service, local, DiskOK, ServiceOK,
       GenOrNone
  <2>2. LocalOK'
    BY <1>36 DEF ServiceStop, local, LocalOK, DiskOK
  <2>3. ~Release(p)
    BY <1>36 DEF ServiceStop, Release
  <2>4. ControlOK' /\ CandInv'
    BY <1>36, <2>3, StepsAdvance, AdvanceKeepsControl DEF Continue
  <2> QED BY <2>1, <2>2, <2>4
<1>37. ASSUME NEW p \in Procs, ServiceRestart(p) PROVE TInv'
  <2>1. DiskOK' /\ ServiceOK'
    BY <1>37 DEF ServiceRestart, StartXray, StartXrayFails, service, disk,
       local, DiskOK, ServiceOK, GenOrNone
  <2>2. LocalOK'
    BY <1>37 DEF ServiceRestart, local, LocalOK, DiskOK
  <2>3. ~Release(p)
    BY <1>37 DEF ServiceRestart, Release
  <2>4. ControlOK' /\ CandInv'
    BY <1>37, <2>3, StepsAdvance, AdvanceKeepsControl DEF Continue
  <2> QED BY <2>1, <2>2, <2>4
<1>38. ASSUME NEW p \in Procs, Reconcile(p) PROVE TInv'
  <2>1. DiskOK' /\ ServiceOK'
    BY <1>38, StateTyped DEF Reconcile, WriteState, WriteStateFails, service,
       DiskOK, ServiceOK, LocalOK
  <2>2. LocalOK'
    <3>1. [mem[p] EXCEPT !.sel = want[p]] \in State
      BY StateTyped DEF LocalOK
    <3> QED BY <1>38, <3>1 DEF Reconcile, WriteState, LocalOK
  <2>3. ~Release(p)
    BY <1>38 DEF Reconcile, Release
  <2>4. ControlOK' /\ CandInv'
    BY <1>38, <2>3, StepsAdvance, AdvanceKeepsControl DEF Continue
  <2> QED BY <2>1, <2>2, <2>4
<1>39. ASSUME NEW p \in Procs, Release(p) PROVE TInv'
  <2>1. DiskOK' /\ ServiceOK'
    BY <1>39, StateTyped DEF Release, disk, service, DiskOK, ServiceOK,
       LocalOK
  <2>2. LocalOK'
    BY <1>39, StateTyped DEF Release, LocalOK, DiskOK, Ops, Snapshot,
       NoSnapshot, Links, NodeOrNone, GenOrNone, RoutingOrNone
  <2>3. ControlOK' /\ CandInv'
    BY <1>39, ConfigAssumption DEF Release, ControlOK, LocalOK, CandInv, Pcs,
       IdlePcs, ApplyPcs, ServicePcs, Goto, disk
  <2> QED BY <2>1, <2>2, <2>3
<1>40. ASSUME NEW p \in Procs, Crash(p) PROVE TInv'
  <2>1. DiskOK' /\ ServiceOK'
    BY <1>40, StateTyped DEF Crash, disk, service, DiskOK, ServiceOK, LocalOK
  <2>2. LocalOK'
    BY <1>40, StateTyped DEF Crash, LocalOK, DiskOK, Ops, Snapshot,
       NoSnapshot, Links, NodeOrNone, GenOrNone, RoutingOrNone
  <2>3. ControlOK' /\ CandInv'
    BY <1>40, ConfigAssumption DEF Crash, ControlOK, LocalOK, CandInv, Pcs,
       IdlePcs, ApplyPcs, ServicePcs, Goto, disk
  <2> QED BY <2>1, <2>2, <2>3
<1>41. CASE XrayExits
  BY <1>41 DEF XrayExits, StartXray, DiskOK, ServiceOK, ControlOK, LocalOK,
     CandInv, GenOrNone, LockLeft, disk, local
<1>42. CASE SystemdRestarts
  BY <1>42, LinksTyped DEF SystemdRestarts, StartXray, DiskOK, ServiceOK,
     ControlOK, LocalOK, CandInv, GenOrNone, LockLeft, disk, local
<1>43. CASE UNCHANGED vars
  BY <1>43 DEF vars, DiskOK, ServiceOK, ControlOK, LocalOK, CandInv
<1> QED BY <1>1, <1>2, <1>3, <1>4, <1>5, <1>6, <1>7, <1>8, <1>9, <1>10, <1>11,
   <1>12, <1>13, <1>14, <1>15, <1>16, <1>17, <1>18, <1>19, <1>20, <1>21,
   <1>22, <1>23, <1>24, <1>25, <1>26, <1>27, <1>28, <1>29, <1>30, <1>31,
   <1>32, <1>33, <1>34, <1>35, <1>36, <1>37, <1>38, <1>39, <1>40, <1>41,
   <1>42, <1>43 DEF Next, Begin, Continue, Environment
--------------------------------------------------------------------------------
(* Only validated generations are linked or run.                           *)

\* The generation that `xrayctl install` left behind is the validated one.
LEMMA ValidInit == Init => ValidInv
  BY DEF Init, ValidInv, Named, NoState, IdlePcs

\* Every step keeps what is linked, running, recorded or remembered validated.
LEMMA ValidStep == TInv /\ ValidInv /\ [Next]_vars => ValidInv'
<1> SUFFICES ASSUME TInv, ValidInv, [Next]_vars PROVE ValidInv'
  OBVIOUS
<1> USE ConfigAssumption, NoneAssumption DEF TInv, TypeOK, DiskOK, ServiceOK,
   ControlOK, LocalOK, Links, State, ValidInv, Named, NoState
<1>1. ASSUME NEW p \in Procs, Compose(p) PROVE ValidInv'
  BY <1>1 DEF Compose, Goto, disk, service
<1>2. ASSUME NEW p \in Procs, Quit(p) PROVE ValidInv'
  BY <1>2 DEF Quit, Goto, disk, service
<1>3. ASSUME NEW p \in Procs, Contend(p) PROVE ValidInv'
  BY <1>3 DEF Contend, Goto, disk, service
<1>4. ASSUME NEW p \in Procs, NodeSelect(p) PROVE ValidInv'
  BY <1>4 DEF NodeSelect, Acquire, Goto, disk, service
<1>5. ASSUME NEW p \in Procs, Apply(p) PROVE ValidInv'
  BY <1>5 DEF Apply, Acquire, Goto, disk, service
<1>6. ASSUME NEW p \in Procs, SetRouting(p) PROVE ValidInv'
  BY <1>6 DEF SetRouting, Acquire, Goto, service
<1>7. ASSUME NEW p \in Procs, ConfigRollback(p) PROVE ValidInv'
  BY <1>7 DEF ConfigRollback, Acquire, Goto, disk, service
<1>8. ASSUME NEW p \in Procs, SubscriptionRefresh(p) PROVE ValidInv'
  <2>1. /\ UNCHANGED <<ptr, stateFile, running, mem, cand, old, validated>>
        /\ \E label \in {"reconcile", "succeeded", "failed"} : pc' = [pc EXCEPT ![p] = label]
    BY <1>8, RefreshFrame DEF Goto, service
  <2> QED BY <2>1
<1>9. ASSUME NEW p \in Procs, SubscriptionRemove(p) PROVE ValidInv'
  BY <1>9 DEF SubscriptionRemove, Acquire, Goto, service
<1>10. ASSUME NEW p \in Procs, ServiceOperation(p) PROVE ValidInv'
  BY <1>10 DEF ServiceOperation, Acquire, Goto, ServicePcs, disk, service
<1>11. ASSUME NEW p \in Procs, Prepare(p) PROVE ValidInv'
  BY <1>11 DEF Prepare, ApplyFailed, Goto, service
<1>12. ASSUME NEW p \in Procs, Validate(p) PROVE ValidInv'
  <2>1. validated \subseteq validated' /\ ptr' = ptr /\ stateFile' = stateFile
        /\ mem' = mem /\ cand' = cand /\ running' = running
    BY <1>12 DEF Validate, service
  <2>2. \A q \in Procs : Named(old'[q]) \subseteq validated' \cup {None}
    BY <1>12, <2>1 DEF Validate
  <2>3. \A q \in Procs : pc'[q] \in {"switchPrev", "switchCur", "commit", "rbUndoCur"}
           => cand[q] \in validated' \cup {None}
    BY <1>12, <2>1 DEF Validate, Goto, ApplyFailed
  <2> QED BY <2>1, <2>2, <2>3
<1>13. ASSUME NEW p \in Procs, SwitchPrevious(p) PROVE ValidInv'
  BY <1>13, SMTT(30) DEF SwitchPrevious, SwitchFailed, RemoveCandidate, ApplyFailed,
     Goto, LinkPrevious, service, local
<1>14. ASSUME NEW p \in Procs, SwitchCurrent(p) PROVE ValidInv'
  BY <1>14 DEF SwitchCurrent, SwitchFailed, RemoveCandidate, ApplyFailed,
     Goto, LinkCurrent, service, local
<1>15. ASSUME NEW p \in Procs, Commit(p) PROVE ValidInv'
  BY <1>15 DEF Commit, WriteState, WriteStateFails, Goto, service
<1>16. ASSUME NEW p \in Procs, Activate(p) PROVE ValidInv'
  BY <1>16 DEF Activate, Goto, disk, service, local
<1>17. ASSUME NEW p \in Procs, Restart(p) PROVE ValidInv'
  BY <1>17 DEF Restart, StartXray, LockLeft, StartXrayFails, service, Goto,
     disk, local
<1>18. ASSUME NEW p \in Procs, HealthCheck(p) PROVE ValidInv'
  BY <1>18 DEF HealthCheck, Goto, disk, service, local
<1>19. ASSUME NEW p \in Procs, RecordHealthy(p) PROVE ValidInv'
  BY <1>19 DEF RecordHealthy, WriteState, WriteStateFails, ApplyFailed, Goto,
     service
<1>20. ASSUME NEW p \in Procs, Prune(p) PROVE ValidInv'
  BY <1>20 DEF Prune, Goto, service, local
<1>21. ASSUME NEW p \in Procs, RestoreCurrent(p) PROVE ValidInv'
  BY <1>21 DEF RestoreCurrent, ApplyFailed, Goto, PointCurrent, service, local
<1>22. ASSUME NEW p \in Procs, RestorePrevious(p) PROVE ValidInv'
  BY <1>22 DEF RestorePrevious, ApplyFailed, Goto, PointPrevious, service,
     local
<1>23. ASSUME NEW p \in Procs, RestoreState(p) PROVE ValidInv'
  BY <1>23 DEF RestoreState, WriteState, WriteStateFails, ApplyFailed, Goto,
     service
<1>24. ASSUME NEW p \in Procs, RestartRestored(p) PROVE ValidInv'
  BY <1>24 DEF RestartRestored, StartXray, LockLeft, StartXrayFails, service,
     Goto, disk, local
<1>25. ASSUME NEW p \in Procs, Discard(p) PROVE ValidInv'
  BY <1>25 DEF Discard, RemoveCandidate, ApplyFailed, Goto, service, local
<1>26. ASSUME NEW p \in Procs, RestoreRouting(p) PROVE ValidInv'
  BY <1>26 DEF RestoreRouting, Goto, service, local
<1>27. ASSUME NEW p \in Procs, RollbackCommit(p) PROVE ValidInv'
  BY <1>27 DEF RollbackCommit, WriteState, WriteStateFails, Goto, service
<1>28. ASSUME NEW p \in Procs, RollbackRestart(p) PROVE ValidInv'
  BY <1>28 DEF RollbackRestart, StartXray, LockLeft, StartXrayFails, service,
     Goto, disk, local
<1>29. ASSUME NEW p \in Procs, RollbackHealthCheck(p) PROVE ValidInv'
  BY <1>29 DEF RollbackHealthCheck, Goto, disk, service, local
<1>30. ASSUME NEW p \in Procs, RollbackRecordHealthy(p) PROVE ValidInv'
  BY <1>30 DEF RollbackRecordHealthy, WriteState, WriteStateFails, Goto,
     service
<1>31. ASSUME NEW p \in Procs, RollbackUndoPrevious(p) PROVE ValidInv'
  BY <1>31, SMTT(30) DEF RollbackUndoPrevious, Goto, LinkPrevious, service
<1>32. ASSUME NEW p \in Procs, RollbackUndoCurrent(p) PROVE ValidInv'
  BY <1>32 DEF RollbackUndoCurrent, Goto, LinkCurrent, service, local
<1>33. ASSUME NEW p \in Procs, RollbackRestoreState(p) PROVE ValidInv'
  BY <1>33 DEF RollbackRestoreState, WriteState, WriteStateFails, Goto,
     service
<1>34. ASSUME NEW p \in Procs, RollbackRestartRestored(p) PROVE ValidInv'
  BY <1>34 DEF RollbackRestartRestored, StartXray, LockLeft, StartXrayFails,
     service, Goto, disk, local
<1>35. ASSUME NEW p \in Procs, ServiceStart(p) PROVE ValidInv'
  BY <1>35 DEF ServiceStart, StartXray, LockLeft, StartXrayFails, service,
     Goto, disk, local
<1>36. ASSUME NEW p \in Procs, ServiceStop(p) PROVE ValidInv'
  BY <1>36 DEF ServiceStop, Goto, LockLeft, disk, service, local
<1>37. ASSUME NEW p \in Procs, ServiceRestart(p) PROVE ValidInv'
  BY <1>37 DEF ServiceRestart, StartXray, LockLeft, StartXrayFails, service,
     Goto, disk, local
<1>38. ASSUME NEW p \in Procs, Reconcile(p) PROVE ValidInv'
  BY <1>38 DEF Reconcile, WriteState, WriteStateFails, Goto, service
<1>39. ASSUME NEW p \in Procs, Release(p) PROVE ValidInv'
  BY <1>39 DEF Release, Goto, disk, service
<1>40. ASSUME NEW p \in Procs, Crash(p) PROVE ValidInv'
  BY <1>40 DEF Crash, Goto, disk, service
<1>41. CASE XrayExits
  BY <1>41 DEF XrayExits, LockLeft, disk, local
<1>42. CASE SystemdRestarts
  BY <1>42 DEF SystemdRestarts, StartXray, LockLeft, disk, local
<1>43. CASE UNCHANGED vars
  BY <1>43 DEF vars
<1> QED BY <1>1, <1>2, <1>3, <1>4, <1>5, <1>6, <1>7, <1>8, <1>9, <1>10, <1>11,
   <1>12, <1>13, <1>14, <1>15, <1>16, <1>17, <1>18, <1>19, <1>20, <1>21,
   <1>22, <1>23, <1>24, <1>25, <1>26, <1>27, <1>28, <1>29, <1>30, <1>31,
   <1>32, <1>33, <1>34, <1>35, <1>36, <1>37, <1>38, <1>39, <1>40, <1>41,
   <1>42, <1>43 DEF Next, Begin, Continue, Environment
--------------------------------------------------------------------------------
(* Names of generations are never used twice.                              *)

\* Generation 1 is spent, 2 is the next name.
LEMMA SpentInit == Init => SpentInv
  BY DEF Init, SpentInv

\* Generation names only grow, so a name handed out stays below nextGen.
LEMMA SpentStep == TInv /\ SpentInv /\ [Next]_vars => SpentInv'
<1> SUFFICES ASSUME TInv, SpentInv, [Next]_vars PROVE SpentInv'
  OBVIOUS
<1> USE ConfigAssumption, NoneAssumption DEF TInv, TypeOK, DiskOK, ControlOK,
   LocalOK, CandInv, Gens, SpentInv
<1>1. ASSUME NEW p \in Procs, Compose(p) PROVE SpentInv'
  BY <1>1 DEF Compose, Goto, disk, service
<1>2. ASSUME NEW p \in Procs, Quit(p) PROVE SpentInv'
  BY <1>2 DEF Quit, Goto, disk, service
<1>3. ASSUME NEW p \in Procs, Contend(p) PROVE SpentInv'
  BY <1>3 DEF Contend, Goto, disk, service
<1>4. ASSUME NEW p \in Procs, NodeSelect(p) PROVE SpentInv'
  BY <1>4 DEF NodeSelect, Acquire, Goto, disk, service
<1>5. ASSUME NEW p \in Procs, Apply(p) PROVE SpentInv'
  BY <1>5 DEF Apply, Acquire, Goto, disk, service
<1>6. ASSUME NEW p \in Procs, SetRouting(p) PROVE SpentInv'
  BY <1>6 DEF SetRouting, Acquire, Goto, service
<1>7. ASSUME NEW p \in Procs, ConfigRollback(p) PROVE SpentInv'
  BY <1>7 DEF ConfigRollback, Acquire, Goto, disk, service
<1>8. ASSUME NEW p \in Procs, SubscriptionRefresh(p) PROVE SpentInv'
  <2>1. PICK label \in {"reconcile", "succeeded", "failed"} : Goto(p, label)
    BY <1>8, RefreshFrame
  <2>2. UNCHANGED <<validated, nextGen, cand>> /\ pc'[p] = label
        /\ \A q \in Procs \ {p} : pc'[q] = pc[q]
    BY <1>8, <2>1, RefreshFrame DEF Goto
  <2> QED BY <2>1, <2>2
<1>9. ASSUME NEW p \in Procs, SubscriptionRemove(p) PROVE SpentInv'
  BY <1>9 DEF SubscriptionRemove, Acquire, Goto, service
<1>10. ASSUME NEW p \in Procs, ServiceOperation(p) PROVE SpentInv'
  BY <1>10 DEF ServiceOperation, Acquire, Goto, ServicePcs, disk, service
<1>11. ASSUME NEW p \in Procs, Prepare(p) PROVE SpentInv'
  BY <1>11 DEF Prepare, ApplyFailed, Goto, service
<1>12. ASSUME NEW p \in Procs, Validate(p) PROVE SpentInv'
  BY <1>12 DEF Validate, RemoveCandidate, ApplyFailed, Goto, service
<1>13. ASSUME NEW p \in Procs, SwitchPrevious(p) PROVE SpentInv'
  BY <1>13 DEF SwitchPrevious, SwitchFailed, RemoveCandidate, ApplyFailed,
     Goto, LinkPrevious, service, local
<1>14. ASSUME NEW p \in Procs, SwitchCurrent(p) PROVE SpentInv'
  BY <1>14 DEF SwitchCurrent, SwitchFailed, RemoveCandidate, ApplyFailed,
     Goto, LinkCurrent, service, local
<1>15. ASSUME NEW p \in Procs, Commit(p) PROVE SpentInv'
  BY <1>15 DEF Commit, WriteState, WriteStateFails, Goto, service
<1>16. ASSUME NEW p \in Procs, Activate(p) PROVE SpentInv'
  BY <1>16 DEF Activate, Goto, disk, service, local
<1>17. ASSUME NEW p \in Procs, Restart(p) PROVE SpentInv'
  BY <1>17 DEF Restart, StartXray, LockLeft, StartXrayFails, service, Goto,
     disk, local
<1>18. ASSUME NEW p \in Procs, HealthCheck(p) PROVE SpentInv'
  BY <1>18 DEF HealthCheck, Goto, disk, service, local
<1>19. ASSUME NEW p \in Procs, RecordHealthy(p) PROVE SpentInv'
  BY <1>19 DEF RecordHealthy, WriteState, WriteStateFails, ApplyFailed, Goto,
     service
<1>20. ASSUME NEW p \in Procs, Prune(p) PROVE SpentInv'
  BY <1>20 DEF Prune, Goto, service, local
<1>21. ASSUME NEW p \in Procs, RestoreCurrent(p) PROVE SpentInv'
  BY <1>21 DEF RestoreCurrent, ApplyFailed, Goto, PointCurrent, service, local
<1>22. ASSUME NEW p \in Procs, RestorePrevious(p) PROVE SpentInv'
  BY <1>22 DEF RestorePrevious, ApplyFailed, Goto, PointPrevious, service,
     local
<1>23. ASSUME NEW p \in Procs, RestoreState(p) PROVE SpentInv'
  BY <1>23 DEF RestoreState, WriteState, WriteStateFails, ApplyFailed, Goto,
     service
<1>24. ASSUME NEW p \in Procs, RestartRestored(p) PROVE SpentInv'
  BY <1>24 DEF RestartRestored, StartXray, LockLeft, StartXrayFails, service,
     Goto, disk, local
<1>25. ASSUME NEW p \in Procs, Discard(p) PROVE SpentInv'
  BY <1>25 DEF Discard, RemoveCandidate, ApplyFailed, Goto, service, local
<1>26. ASSUME NEW p \in Procs, RestoreRouting(p) PROVE SpentInv'
  BY <1>26 DEF RestoreRouting, Goto, service, local
<1>27. ASSUME NEW p \in Procs, RollbackCommit(p) PROVE SpentInv'
  BY <1>27 DEF RollbackCommit, WriteState, WriteStateFails, Goto, service
<1>28. ASSUME NEW p \in Procs, RollbackRestart(p) PROVE SpentInv'
  BY <1>28 DEF RollbackRestart, StartXray, LockLeft, StartXrayFails, service,
     Goto, disk, local
<1>29. ASSUME NEW p \in Procs, RollbackHealthCheck(p) PROVE SpentInv'
  BY <1>29 DEF RollbackHealthCheck, Goto, disk, service, local
<1>30. ASSUME NEW p \in Procs, RollbackRecordHealthy(p) PROVE SpentInv'
  BY <1>30 DEF RollbackRecordHealthy, WriteState, WriteStateFails, Goto,
     service
<1>31. ASSUME NEW p \in Procs, RollbackUndoPrevious(p) PROVE SpentInv'
  BY <1>31, SMTT(30) DEF RollbackUndoPrevious, Goto, LinkPrevious, service
<1>32. ASSUME NEW p \in Procs, RollbackUndoCurrent(p) PROVE SpentInv'
  BY <1>32 DEF RollbackUndoCurrent, Goto, LinkCurrent, service, local
<1>33. ASSUME NEW p \in Procs, RollbackRestoreState(p) PROVE SpentInv'
  BY <1>33 DEF RollbackRestoreState, WriteState, WriteStateFails, Goto,
     service
<1>34. ASSUME NEW p \in Procs, RollbackRestartRestored(p) PROVE SpentInv'
  BY <1>34 DEF RollbackRestartRestored, StartXray, LockLeft, StartXrayFails,
     service, Goto, disk, local
<1>35. ASSUME NEW p \in Procs, ServiceStart(p) PROVE SpentInv'
  BY <1>35 DEF ServiceStart, StartXray, LockLeft, StartXrayFails, service,
     Goto, disk, local
<1>36. ASSUME NEW p \in Procs, ServiceStop(p) PROVE SpentInv'
  BY <1>36 DEF ServiceStop, Goto, LockLeft, disk, service, local
<1>37. ASSUME NEW p \in Procs, ServiceRestart(p) PROVE SpentInv'
  BY <1>37 DEF ServiceRestart, StartXray, LockLeft, StartXrayFails, service,
     Goto, disk, local
<1>38. ASSUME NEW p \in Procs, Reconcile(p) PROVE SpentInv'
  BY <1>38 DEF Reconcile, WriteState, WriteStateFails, Goto, service
<1>39. ASSUME NEW p \in Procs, Release(p) PROVE SpentInv'
  BY <1>39 DEF Release, Goto, disk, service
<1>40. ASSUME NEW p \in Procs, Crash(p) PROVE SpentInv'
  BY <1>40 DEF Crash, Goto, disk, service
<1>41. CASE XrayExits
  BY <1>41 DEF XrayExits, LockLeft, disk, local
<1>42. CASE SystemdRestarts
  BY <1>42 DEF SystemdRestarts, StartXray, LockLeft, disk, local
<1>43. CASE UNCHANGED vars
  BY <1>43 DEF vars
<1> QED BY <1>1, <1>2, <1>3, <1>4, <1>5, <1>6, <1>7, <1>8, <1>9, <1>10, <1>11,
   <1>12, <1>13, <1>14, <1>15, <1>16, <1>17, <1>18, <1>19, <1>20, <1>21,
   <1>22, <1>23, <1>24, <1>25, <1>26, <1>27, <1>28, <1>29, <1>30, <1>31,
   <1>32, <1>33, <1>34, <1>35, <1>36, <1>37, <1>38, <1>39, <1>40, <1>41,
   <1>42, <1>43 DEF Next, Begin, Continue, Environment
--------------------------------------------------------------------------------
(* The operation under way is the only one that matters.                   *)

\* Starting an operation takes the free lock and moves only that process.
LEMMA BeginTakesLock ==
    ASSUME TypeOK, NEW p \in Procs, Begin(p)
    PROVE  lock = None /\ lock' = p /\ \E label \in Pcs : pc' = [pc EXCEPT ![p] = label]
<1> USE DEF Acquire, Goto, Pcs, ApplyPcs, ServicePcs
<1>1. CASE NodeSelect(p)
  BY <1>1 DEF NodeSelect
<1>2. CASE Apply(p)
  BY <1>2 DEF Apply
<1>3. CASE SetRouting(p)
  BY <1>3 DEF SetRouting
<1>4. CASE ConfigRollback(p)
  BY <1>4 DEF ConfigRollback
<1>5. CASE SubscriptionRefresh(p)
  BY <1>5, RefreshFrame
<1>6. CASE SubscriptionRemove(p)
  BY <1>6 DEF SubscriptionRemove
<1>7. CASE ServiceOperation(p)
  BY <1>7 DEF ServiceOperation
<1> QED BY <1>1, <1>2, <1>3, <1>4, <1>5, <1>6, <1>7 DEF Begin

\* While an operation starts, runs or ends, every other process is idle.
LEMMA OthersStayIdle ==
    ASSUME TInv, LockHeld, NEW p \in Procs, Begin(p) \/ Continue(p),
           NEW q \in Procs, q # p
    PROVE  pc'[q] \in IdlePcs
<1>1. (Alone \/ lock \in {p, None}) /\ \E label : pc' = [pc EXCEPT ![p] = label]
  <2>1. CASE Begin(p)
    BY <2>1, BeginTakesLock DEF TInv
  <2>2. CASE Release(p)
    BY <2>2 DEF Release, Goto, LockHeld, IdlePcs
  <2>3. CASE Continue(p) /\ ~Release(p)
    BY <2>3, StepsAdvance DEF Advances, TInv, LockHeld
  <2> QED BY <2>1, <2>2, <2>3
<1>2. ~Alone
  BY DEF Alone
<1> QED BY <1>1, <1>2, OthersIdle DEF TInv, TypeOK, ControlOK

\* No process is inside an operation at first.
LEMMA LockInit == Init => LockHeld
  BY DEF Init, LockHeld, IdlePcs

\* As long as nobody removes the lock file, whoever is inside an operation holds
\* its lock.
LEMMA LockKeptStep ==
    ASSUME LockFileKept, ~Alone, TInv, LockHeld, [Next]_vars
    PROVE  LockHeld'
<1> USE DEF TInv, TypeOK, ControlOK, LockHeld
<1>1. ASSUME NEW p \in Procs, Begin(p) PROVE LockHeld'
  <2>1. lock' = p
    BY <1>1, BeginTakesLock
  <2> QED BY <1>1, <2>1, OthersStayIdle
<1>2. ASSUME NEW p \in Procs, Continue(p), ~Release(p) PROVE LockHeld'
  <2>1. lock' = lock /\ pc[p] \notin IdlePcs
    BY <1>2, StepsAdvance DEF Advances
  <2> QED BY <1>2, <2>1, OthersStayIdle
<1>3. ASSUME NEW p \in Procs, Release(p) PROVE LockHeld'
  <2>1. pc'[p] \in IdlePcs
    BY <1>3 DEF Release, Goto, IdlePcs
  <2> QED BY <1>3, <2>1, OthersStayIdle DEF Continue
<1>4. ASSUME NEW p \in Procs, Compose(p) \/ Quit(p) \/ Contend(p) \/ Crash(p)
      PROVE  LockHeld'
  BY <1>4, ConfigAssumption DEF Compose, Quit, Contend, Crash, Goto, IdlePcs
<1>5. CASE Environment \/ UNCHANGED vars
  BY <1>5 DEF Environment, XrayExits, SystemdRestarts, StartXray, LockLeft, vars
<1> QED BY <1>1, <1>2, <1>3, <1>4, <1>5 DEF Next

\* The same for processes that exclude each other in either way.
LEMMA LockStep ==
    ASSUME Exclusive, TInv, LockHeld, [Next]_vars
    PROVE  LockHeld'
<1>a. CASE Alone
  BY <1>a DEF LockHeld, Alone
<1>b. CASE LockFileKept /\ ~Alone
  BY <1>b, LockKeptStep
<1> QED BY <1>a, <1>b DEF Exclusive
--------------------------------------------------------------------------------
(* Without I/O errors a candidate is removed only when nothing links it.   *)

\* No process is inside an operation at first.
LEMMA FreshInit == Init => FreshInv
  BY DEF Init, FreshInv, FreshOf, FreshPcs

\* Of the links, the files, the labels and the memory of the processes, a step of
\* systemd changes nothing.
LEMMA FreshFrame ==
    ASSUME FreshInv, UNCHANGED <<disk, pc, local, was>>
    PROVE  FreshInv'
  BY DEF disk, local, FreshInv, FreshOf

\* The candidate stays apart from what the links and the memory name.
LEMMA FreshStep ==
    ASSUME ~IoErrors, TInv, LockHeld, ValidInv, SpentInv, FreshInv, [Next]_vars
    PROVE  FreshInv'
<1> USE ConfigAssumption, NoneAssumption DEF TInv, TypeOK, DiskOK, ControlOK,
   LocalOK, Links, State, Gens, GenOrNone, ValidInv, SpentInv
<1> SUFFICES \A p \in Procs : FreshOf(p)'
  BY DEF FreshInv
<1>a. ASSUME NEW p \in Procs, Begin(p) \/ Continue(p), FreshOf(p)'
      PROVE  \A q \in Procs : FreshOf(q)'
  <2>1. ASSUME NEW q \in Procs, q # p
        PROVE  pc'[q] \in IdlePcs
    BY <1>a, <2>1, OthersStayIdle
  <2>2. ASSUME NEW q \in Procs, pc'[q] \in IdlePcs
        PROVE  FreshOf(q)'
    BY <2>2 DEF FreshOf, IdlePcs, FreshPcs
  <2> QED BY <1>a, <2>1, <2>2
<1>1. ASSUME NEW p \in Procs, Compose(p) PROVE \A q \in Procs : FreshOf(q)'
  BY <1>1 DEF Compose, Goto, disk, service, FreshInv, FreshOf, FreshPcs,
     Named, IdlePcs
<1>2. ASSUME NEW p \in Procs, Quit(p) PROVE \A q \in Procs : FreshOf(q)'
  BY <1>2 DEF Quit, Goto, disk, service, FreshInv, FreshOf, FreshPcs, Named,
     IdlePcs
<1>3. ASSUME NEW p \in Procs, Contend(p) PROVE \A q \in Procs : FreshOf(q)'
  BY <1>3 DEF Contend, Goto, disk, service, FreshInv, FreshOf, FreshPcs,
     Named, IdlePcs
<1>4. ASSUME NEW p \in Procs, NodeSelect(p) PROVE FreshOf(p)'
  <2>1. FreshOf(p)
    BY DEF FreshInv
  <2> QED BY <1>4, <2>1 DEF NodeSelect, Acquire, Goto, disk, service, FreshOf,
     FreshPcs, Named, IdlePcs
<1>5. ASSUME NEW p \in Procs, Apply(p) PROVE FreshOf(p)'
  <2>1. FreshOf(p)
    BY DEF FreshInv
  <2> QED BY <1>5, <2>1 DEF Apply, Acquire, Goto, disk, service, FreshOf,
     FreshPcs, Named, IdlePcs
<1>6. ASSUME NEW p \in Procs, SetRouting(p) PROVE FreshOf(p)'
  <2>1. FreshOf(p)
    BY DEF FreshInv
  <2> QED BY <1>6, <2>1 DEF SetRouting, Acquire, Goto, service, FreshOf,
     FreshPcs, Named, IdlePcs
<1>7. ASSUME NEW p \in Procs, ConfigRollback(p) PROVE FreshOf(p)'
  <2>1. FreshOf(p)
    BY DEF FreshInv
  <2> QED BY <1>7, <2>1 DEF ConfigRollback, Acquire, Goto, disk, service,
     FreshOf, FreshPcs, Named, IdlePcs
<1>8. ASSUME NEW p \in Procs, SubscriptionRefresh(p) PROVE FreshOf(p)'
  <2>1. FreshOf(p)
    BY DEF FreshInv
  <2>2. PICK label \in {"reconcile", "succeeded", "failed"} : Goto(p, label)
    BY <1>8, RefreshFrame
  <2>3. pc'[p] = label
    BY <2>2 DEF Goto
  <2> QED BY <2>2, <2>3 DEF FreshOf, FreshPcs
<1>9. ASSUME NEW p \in Procs, SubscriptionRemove(p) PROVE FreshOf(p)'
  <2>1. FreshOf(p)
    BY DEF FreshInv
  <2> QED BY <1>9, <2>1 DEF SubscriptionRemove, Acquire, Goto, service,
     FreshOf, FreshPcs, Named, IdlePcs
<1>10. ASSUME NEW p \in Procs, ServiceOperation(p) PROVE FreshOf(p)'
  <2>1. FreshOf(p)
    BY DEF FreshInv
  <2> QED BY <1>10, <2>1 DEF ServiceOperation, Acquire, Goto, ServicePcs,
     disk, service, FreshOf, FreshPcs, Named, IdlePcs
<1>11. ASSUME NEW p \in Procs, Prepare(p) PROVE FreshOf(p)'
  <2>1. FreshOf(p)
    BY DEF FreshInv
  <2> QED BY <1>11, <2>1 DEF Prepare, ApplyFailed, Goto, service, FreshOf,
     FreshPcs, Named, IdlePcs
<1>12. ASSUME NEW p \in Procs, Validate(p) PROVE FreshOf(p)'
  <2>1. FreshOf(p)
    BY DEF FreshInv
  <2> QED BY <1>12, <2>1 DEF Validate, RemoveCandidate, ApplyFailed, Goto,
     service, FreshOf, FreshPcs, Named, IdlePcs
<1>13. ASSUME NEW p \in Procs, SwitchPrevious(p) PROVE FreshOf(p)'
  <2>1. FreshOf(p)
    BY DEF FreshInv
  <2> QED BY <1>13, <2>1 DEF SwitchPrevious, SwitchFailed, RemoveCandidate,
     ApplyFailed, Goto, LinkPrevious, service, local, FreshOf, FreshPcs,
     Named, IdlePcs
<1>14. ASSUME NEW p \in Procs, SwitchCurrent(p) PROVE FreshOf(p)'
  <2>1. FreshOf(p)
    BY DEF FreshInv
  <2> QED BY <1>14, <2>1 DEF SwitchCurrent, SwitchFailed, RemoveCandidate,
     ApplyFailed, Goto, LinkCurrent, service, local, FreshOf, FreshPcs, Named,
     IdlePcs
<1>15. ASSUME NEW p \in Procs, Commit(p) PROVE FreshOf(p)'
  <2>1. FreshOf(p)
    BY DEF FreshInv
  <2> QED BY <1>15, <2>1 DEF Commit, WriteState, WriteStateFails, Goto,
     service, FreshOf, FreshPcs, Named, IdlePcs
<1>16. ASSUME NEW p \in Procs, Activate(p) PROVE FreshOf(p)'
  <2>1. FreshOf(p)
    BY DEF FreshInv
  <2> QED BY <1>16, <2>1 DEF Activate, Goto, disk, service, local, FreshOf,
     FreshPcs, Named, IdlePcs
<1>17. ASSUME NEW p \in Procs, Restart(p) PROVE FreshOf(p)'
  <2>1. FreshOf(p)
    BY DEF FreshInv
  <2> QED BY <1>17, <2>1 DEF Restart, Goto, disk, local, FreshOf, FreshPcs,
     Named, IdlePcs
<1>18. ASSUME NEW p \in Procs, HealthCheck(p) PROVE FreshOf(p)'
  <2>1. FreshOf(p)
    BY DEF FreshInv
  <2> QED BY <1>18, <2>1 DEF HealthCheck, Goto, disk, service, local, FreshOf,
     FreshPcs, Named, IdlePcs
<1>19. ASSUME NEW p \in Procs, RecordHealthy(p) PROVE FreshOf(p)'
  <2>1. FreshOf(p)
    BY DEF FreshInv
  <2> QED BY <1>19, <2>1 DEF RecordHealthy, WriteState, WriteStateFails,
     ApplyFailed, Goto, service, FreshOf, FreshPcs, Named, IdlePcs
<1>20. ASSUME NEW p \in Procs, Prune(p) PROVE FreshOf(p)'
  <2>1. FreshOf(p)
    BY DEF FreshInv
  <2> QED BY <1>20, <2>1 DEF Prune, Goto, service, local, FreshOf, FreshPcs,
     Named, IdlePcs
<1>21. ASSUME NEW p \in Procs, RestoreCurrent(p) PROVE FreshOf(p)'
  <2>1. FreshOf(p)
    BY DEF FreshInv
  <2> QED BY <1>21, <2>1 DEF RestoreCurrent, ApplyFailed, Goto, PointCurrent,
     service, local, FreshOf, FreshPcs, Named, IdlePcs
<1>22. ASSUME NEW p \in Procs, RestorePrevious(p) PROVE FreshOf(p)'
  <2>1. FreshOf(p)
    BY DEF FreshInv
  <2> QED BY <1>22, <2>1 DEF RestorePrevious, ApplyFailed, Goto,
     PointPrevious, service, local, FreshOf, FreshPcs, Named, IdlePcs
<1>23. ASSUME NEW p \in Procs, RestoreState(p) PROVE FreshOf(p)'
  <2>1. FreshOf(p)
    BY DEF FreshInv
  <2> QED BY <1>23, <2>1 DEF RestoreState, WriteState, WriteStateFails,
     ApplyFailed, Goto, service, FreshOf, FreshPcs, Named, IdlePcs
<1>24. ASSUME NEW p \in Procs, RestartRestored(p) PROVE FreshOf(p)'
  <2>1. FreshOf(p)
    BY DEF FreshInv
  <2> QED BY <1>24, <2>1 DEF RestartRestored, Goto, disk, local, FreshOf,
     FreshPcs, Named, IdlePcs
<1>25. ASSUME NEW p \in Procs, Discard(p) PROVE FreshOf(p)'
  <2>1. FreshOf(p)
    BY DEF FreshInv
  <2> QED BY <1>25, <2>1 DEF Discard, RemoveCandidate, ApplyFailed, Goto,
     service, local, FreshOf, FreshPcs, Named, IdlePcs
<1>26. ASSUME NEW p \in Procs, RestoreRouting(p) PROVE FreshOf(p)'
  <2>1. FreshOf(p)
    BY DEF FreshInv
  <2> QED BY <1>26, <2>1 DEF RestoreRouting, Goto, service, local, FreshOf,
     FreshPcs, Named, IdlePcs
<1>27. ASSUME NEW p \in Procs, RollbackCommit(p) PROVE FreshOf(p)'
  <2>1. FreshOf(p)
    BY DEF FreshInv
  <2> QED BY <1>27, <2>1 DEF RollbackCommit, WriteState, WriteStateFails,
     Goto, service, FreshOf, FreshPcs, Named, IdlePcs
<1>28. ASSUME NEW p \in Procs, RollbackRestart(p) PROVE FreshOf(p)'
  <2>1. FreshOf(p)
    BY DEF FreshInv
  <2> QED BY <1>28, <2>1 DEF RollbackRestart, Goto, disk, local, FreshOf,
     FreshPcs, Named, IdlePcs
<1>29. ASSUME NEW p \in Procs, RollbackHealthCheck(p) PROVE FreshOf(p)'
  <2>1. FreshOf(p)
    BY DEF FreshInv
  <2> QED BY <1>29, <2>1 DEF RollbackHealthCheck, Goto, disk, service, local,
     FreshOf, FreshPcs, Named, IdlePcs
<1>30. ASSUME NEW p \in Procs, RollbackRecordHealthy(p) PROVE FreshOf(p)'
  <2>1. FreshOf(p)
    BY DEF FreshInv
  <2> QED BY <1>30, <2>1 DEF RollbackRecordHealthy, WriteState,
     WriteStateFails, Goto, service, FreshOf, FreshPcs, Named, IdlePcs
<1>31. ASSUME NEW p \in Procs, RollbackUndoPrevious(p) PROVE FreshOf(p)'
  <2>1. FreshOf(p)
    BY DEF FreshInv
  <2> QED BY <1>31, <2>1 DEF RollbackUndoPrevious, Goto, LinkPrevious,
     service, FreshOf, FreshPcs, Named, IdlePcs
<1>32. ASSUME NEW p \in Procs, RollbackUndoCurrent(p) PROVE FreshOf(p)'
  <2>1. FreshOf(p)
    BY DEF FreshInv
  <2> QED BY <1>32, <2>1 DEF RollbackUndoCurrent, Goto, LinkCurrent, service,
     local, FreshOf, FreshPcs, Named, IdlePcs
<1>33. ASSUME NEW p \in Procs, RollbackRestoreState(p) PROVE FreshOf(p)'
  <2>1. FreshOf(p)
    BY DEF FreshInv
  <2> QED BY <1>33, <2>1 DEF RollbackRestoreState, WriteState,
     WriteStateFails, Goto, service, FreshOf, FreshPcs, Named, IdlePcs
<1>34. ASSUME NEW p \in Procs, RollbackRestartRestored(p) PROVE FreshOf(p)'
  <2>1. FreshOf(p)
    BY DEF FreshInv
  <2> QED BY <1>34, <2>1 DEF RollbackRestartRestored, Goto, disk, local,
     FreshOf, FreshPcs, Named, IdlePcs
<1>35. ASSUME NEW p \in Procs, ServiceStart(p) PROVE FreshOf(p)'
  <2>1. FreshOf(p)
    BY DEF FreshInv
  <2> QED BY <1>35, <2>1 DEF ServiceStart, Goto, disk, service, local,
     FreshOf, FreshPcs, Named, IdlePcs
<1>36. ASSUME NEW p \in Procs, ServiceStop(p) PROVE FreshOf(p)'
  <2>1. FreshOf(p)
    BY DEF FreshInv
  <2> QED BY <1>36, <2>1 DEF ServiceStop, Goto, disk, service, local, FreshOf,
     FreshPcs, Named, IdlePcs
<1>37. ASSUME NEW p \in Procs, ServiceRestart(p) PROVE FreshOf(p)'
  <2>1. FreshOf(p)
    BY DEF FreshInv
  <2> QED BY <1>37, <2>1 DEF ServiceRestart, Goto, disk, local, FreshOf,
     FreshPcs, Named, IdlePcs
<1>38. ASSUME NEW p \in Procs, Reconcile(p) PROVE FreshOf(p)'
  <2>1. FreshOf(p)
    BY DEF FreshInv
  <2> QED BY <1>38, <2>1 DEF Reconcile, WriteState, WriteStateFails, Goto,
     service, FreshOf, FreshPcs, Named, IdlePcs
<1>39. ASSUME NEW p \in Procs, Release(p) PROVE FreshOf(p)'
  <2>1. FreshOf(p)
    BY DEF FreshInv
  <2> QED BY <1>39, <2>1 DEF Release, Goto, disk, service, FreshOf, FreshPcs,
     Named, IdlePcs
<1>40. ASSUME NEW p \in Procs, Crash(p) PROVE \A q \in Procs : FreshOf(q)'
  BY <1>40 DEF Crash, Goto, disk, service, FreshInv, FreshOf, FreshPcs, Named,
     IdlePcs
<1>41. CASE XrayExits
  BY <1>41, FreshFrame DEF XrayExits, FreshInv
<1>42. CASE SystemdRestarts
  BY <1>42, FreshFrame DEF SystemdRestarts, FreshInv
<1>43. CASE UNCHANGED vars
  BY <1>43, FreshFrame DEF vars, disk, local, FreshInv
<1> QED BY <1>a, <1>1, <1>2, <1>3, <1>4, <1>5, <1>6, <1>7, <1>8, <1>9, <1>10,
   <1>11, <1>12, <1>13, <1>14, <1>15, <1>16, <1>17, <1>18, <1>19, <1>20,
   <1>21, <1>22, <1>23, <1>24, <1>25, <1>26, <1>27, <1>28, <1>29, <1>30,
   <1>31, <1>32, <1>33, <1>34, <1>35, <1>36, <1>37, <1>38, <1>39, <1>40,
   <1>41, <1>42, <1>43 DEF Next, Begin, Continue, Environment
--------------------------------------------------------------------------------
(* Without I/O errors an operation that started in sync undoes itself.     *)

\* No process is inside an operation at first, so nothing is to be put back.
LEMMA SyncInit == Init => SyncInv
  BY DEF Init, SyncInv, SyncOf, IdlePcs

\* Of the links, the files, the labels and the memory of the processes, a step of
\* systemd changes nothing.
LEMMA SyncFrame ==
    ASSUME SyncInv, UNCHANGED <<disk, pc, local, was>>
    PROVE  SyncInv'
  BY DEF disk, local, SyncInv, SyncOf, StartedInSync, RoutingSaved

\* Every step of an operation keeps track of what is left to put back.
LEMMA SyncStep ==
    ASSUME ~IoErrors, TInv, LockHeld, FreshInv, SyncInv, [Next]_vars
    PROVE  SyncInv'
<1> USE ConfigAssumption, NoneAssumption DEF TInv, TypeOK, DiskOK, ControlOK,
   LocalOK, Links, State, Snapshot
<1> SUFFICES \A p \in Procs : SyncOf(p)'
  BY DEF SyncInv
<1>a. ASSUME NEW p \in Procs, Begin(p) \/ Continue(p), SyncOf(p)'
      PROVE  \A q \in Procs : SyncOf(q)'
  BY <1>a, OthersStayIdle DEF SyncOf, IdlePcs
<1>1. ASSUME NEW p \in Procs, Compose(p) PROVE \A q \in Procs : SyncOf(q)'
  <2> TAKE q \in Procs
  <2>1. CASE q = p
    BY <1>1, <2>1 DEF Compose, Goto, SyncOf, IdlePcs
  <2>2. CASE q # p
    <3>1. UNCHANGED <<pc[q], op[q], mem[q], cand[q], old[q], saved[q], was[q], disk>>
      BY <1>1, <2>2 DEF Compose, Goto
    <3> QED BY <3>1 DEF SyncInv, SyncOf, StartedInSync, RoutingSaved, disk
  <2> QED BY <2>1, <2>2
<1>2. ASSUME NEW p \in Procs, Quit(p) PROVE \A q \in Procs : SyncOf(q)'
  <2> TAKE q \in Procs
  <2>1. CASE q = p
    BY <1>2, <2>1 DEF Quit, Goto, SyncOf, IdlePcs
  <2>2. CASE q # p
    <3>1. UNCHANGED <<pc[q], op[q], mem[q], cand[q], old[q], saved[q], was[q], disk>>
      BY <1>2, <2>2 DEF Quit, Goto
    <3> QED BY <3>1 DEF SyncInv, SyncOf, StartedInSync, RoutingSaved, disk
  <2> QED BY <2>1, <2>2
<1>3. ASSUME NEW p \in Procs, Contend(p) PROVE \A q \in Procs : SyncOf(q)'
  <2> TAKE q \in Procs
  <2>1. CASE q = p
    BY <1>3, <2>1 DEF Contend, Goto, SyncOf, IdlePcs
  <2>2. CASE q # p
    <3>1. UNCHANGED <<pc[q], op[q], mem[q], cand[q], old[q], saved[q], was[q], disk>>
      BY <1>3, <2>2 DEF Contend, Goto
    <3> QED BY <3>1 DEF SyncInv, SyncOf, StartedInSync, RoutingSaved, disk
  <2> QED BY <2>1, <2>2
<1>4. ASSUME NEW p \in Procs, NodeSelect(p) PROVE SyncOf(p)'
  <2>1. SyncOf(p)
    BY DEF SyncInv
  <2> QED BY <1>4, <2>1 DEF NodeSelect, Acquire, Goto, disk, service, SyncOf,
     StartedInSync, RoutingSaved, KeepsOldPcs, UndoPcs, RollbackPcs,
     ServicePcs, Named, IdlePcs, FreshInv, FreshOf
<1>5. ASSUME NEW p \in Procs, Apply(p) PROVE SyncOf(p)'
  <2>1. SyncOf(p)
    BY DEF SyncInv
  <2> QED BY <1>5, <2>1 DEF Apply, Acquire, Goto, disk, service, SyncOf,
     StartedInSync, RoutingSaved, KeepsOldPcs, UndoPcs, RollbackPcs,
     ServicePcs, Named, IdlePcs, FreshInv, FreshOf
<1>6. ASSUME NEW p \in Procs, SetRouting(p) PROVE SyncOf(p)'
  <2>1. SyncOf(p)
    BY DEF SyncInv
  <2> QED BY <1>6, <2>1 DEF SetRouting, Acquire, Goto, service, SyncOf,
     StartedInSync, RoutingSaved, KeepsOldPcs, UndoPcs, RollbackPcs,
     ServicePcs, Named, IdlePcs, FreshInv, FreshOf
<1>7. ASSUME NEW p \in Procs, ConfigRollback(p) PROVE SyncOf(p)'
  <2>1. SyncOf(p)
    BY DEF SyncInv
  <2> QED BY <1>7, <2>1 DEF ConfigRollback, Acquire, Goto, disk, service,
     SyncOf, StartedInSync, RoutingSaved, KeepsOldPcs, UndoPcs, RollbackPcs,
     ServicePcs, Named, IdlePcs, FreshInv, FreshOf
<1>8. ASSUME NEW p \in Procs, SubscriptionRefresh(p) PROVE SyncOf(p)'
  <2>1. Acquire(p, "refresh") /\ UNCHANGED <<ptr, stateFile, routingFile>>
    BY <1>8, RefreshFrame
  <2>2. pc'[p] \in {"reconcile", "succeeded", "failed"}
    BY <1>8, RefreshFrame DEF Goto
  <2>3. /\ op'[p] = "refresh" /\ was'[p].ptr = ptr
        /\ was'[p].state = stateFile /\ was'[p].routing = routingFile
    BY <2>1 DEF Acquire
  <2> QED BY <2>1, <2>2, <2>3 DEF SyncOf, RoutingSaved, KeepsOldPcs, UndoPcs,
     RollbackPcs, ServicePcs
<1>9. ASSUME NEW p \in Procs, SubscriptionRemove(p) PROVE SyncOf(p)'
  <2>1. SyncOf(p)
    BY DEF SyncInv
  <2> QED BY <1>9, <2>1 DEF SubscriptionRemove, Acquire, Goto, service,
     SyncOf, StartedInSync, RoutingSaved, KeepsOldPcs, UndoPcs, RollbackPcs,
     ServicePcs, Named, IdlePcs, FreshInv, FreshOf
<1>10. ASSUME NEW p \in Procs, ServiceOperation(p) PROVE SyncOf(p)'
  <2>1. SyncOf(p)
    BY DEF SyncInv
  <2> QED BY <1>10, <2>1 DEF ServiceOperation, Acquire, Goto, ServicePcs,
     disk, service, SyncOf, StartedInSync, RoutingSaved, KeepsOldPcs, UndoPcs,
     RollbackPcs, Named, IdlePcs, FreshInv, FreshOf
<1>11. ASSUME NEW p \in Procs, Prepare(p) PROVE SyncOf(p)'
  <2>1. SyncOf(p)
    BY DEF SyncInv
  <2> QED BY <1>11, <2>1 DEF Prepare, ApplyFailed, Goto, service, SyncOf,
     StartedInSync, RoutingSaved, KeepsOldPcs, UndoPcs, RollbackPcs,
     ServicePcs, Named, IdlePcs, FreshInv, FreshOf
<1>12. ASSUME NEW p \in Procs, Validate(p) PROVE SyncOf(p)'
  <2>1. SyncOf(p)
    BY DEF SyncInv
  <2>2. /\ pc[p] = "validate"
        /\ UNCHANGED <<ptr, stateFile, routingFile, op, mem, saved, was>>
    BY <1>12 DEF Validate
  <2>3. \/ pc'[p] = "switchPrev" /\ old'[p] = mem[p]
        \/ pc'[p] = (IF op[p] = "routing" THEN "unroute" ELSE "failed")
    BY <1>12 DEF Validate, Goto, ApplyFailed
  <2> QED BY <2>1, <2>2, <2>3 DEF SyncOf, StartedInSync, RoutingSaved,
     KeepsOldPcs, UndoPcs, RollbackPcs, ServicePcs, IdlePcs
<1>13. ASSUME NEW p \in Procs, SwitchPrevious(p) PROVE SyncOf(p)'
  <2>1. SyncOf(p)
    BY DEF SyncInv
  <2> QED BY <1>13, <2>1 DEF SwitchPrevious, SwitchFailed, RemoveCandidate,
     ApplyFailed, Goto, LinkPrevious, service, local, SyncOf, StartedInSync,
     RoutingSaved, KeepsOldPcs, UndoPcs, RollbackPcs, ServicePcs, Named,
     IdlePcs, FreshInv, FreshOf
<1>14. ASSUME NEW p \in Procs, SwitchCurrent(p) PROVE SyncOf(p)'
  <2>1. SyncOf(p)
    BY DEF SyncInv
  <2>2. /\ pc[p] = "switchCur"
        /\ ptr' = [ptr EXCEPT !.cur = cand[p]]
        /\ pc'[p] = (IF op[p] = "rollback" THEN "rbCommit" ELSE "commit")
        /\ UNCHANGED <<stateFile, routingFile, op, mem, cand, old, saved, was>>
    BY <1>14 DEF SwitchCurrent, LinkCurrent, Goto, local
  <2>3. ptr'.cur = cand[p] /\ ptr'.prev = ptr.prev
    BY <2>2
  <2>4. StartedInSync(p) => ptr.prev = was[p].ptr.cur
    <3>1. StartedInSync(p) => Named(ptr) = {was[p].ptr.cur}
      BY <2>1, <2>2 DEF SyncOf, IdlePcs
    <3>2. ptr.prev \in Named(ptr)
      BY DEF Named
    <3> HIDE DEF Named
    <3> QED BY <3>1, <3>2
  <2> QED BY <2>1, <2>2, <2>3, <2>4 DEF SyncOf, StartedInSync, RoutingSaved,
     KeepsOldPcs, UndoPcs, RollbackPcs, ServicePcs, IdlePcs
<1>15. ASSUME NEW p \in Procs, Commit(p) PROVE SyncOf(p)'
  <2>1. SyncOf(p)
    BY DEF SyncInv
  <2> QED BY <1>15, <2>1 DEF Commit, WriteState, WriteStateFails, Goto,
     service, SyncOf, StartedInSync, RoutingSaved, KeepsOldPcs, UndoPcs,
     RollbackPcs, ServicePcs, Named, IdlePcs, FreshInv, FreshOf
<1>16. ASSUME NEW p \in Procs, Activate(p) PROVE SyncOf(p)'
  <2>1. SyncOf(p)
    BY DEF SyncInv
  <2> QED BY <1>16, <2>1 DEF Activate, Goto, disk, service, local, SyncOf,
     StartedInSync, RoutingSaved, KeepsOldPcs, UndoPcs, RollbackPcs,
     ServicePcs, Named, IdlePcs, FreshInv, FreshOf
<1>17. ASSUME NEW p \in Procs, Restart(p) PROVE SyncOf(p)'
  <2>1. SyncOf(p)
    BY DEF SyncInv
  <2> QED BY <1>17, <2>1 DEF Restart, Goto, disk, local, SyncOf,
     StartedInSync, RoutingSaved, KeepsOldPcs, UndoPcs, RollbackPcs,
     ServicePcs, Named, IdlePcs, FreshInv, FreshOf
<1>18. ASSUME NEW p \in Procs, HealthCheck(p) PROVE SyncOf(p)'
  <2>1. SyncOf(p)
    BY DEF SyncInv
  <2> QED BY <1>18, <2>1 DEF HealthCheck, Goto, disk, service, local, SyncOf,
     StartedInSync, RoutingSaved, KeepsOldPcs, UndoPcs, RollbackPcs,
     ServicePcs, Named, IdlePcs, FreshInv, FreshOf
<1>19. ASSUME NEW p \in Procs, RecordHealthy(p) PROVE SyncOf(p)'
  <2>1. SyncOf(p)
    BY DEF SyncInv
  <2> QED BY <1>19, <2>1 DEF RecordHealthy, WriteState, WriteStateFails,
     ApplyFailed, Goto, service, SyncOf, StartedInSync, RoutingSaved,
     KeepsOldPcs, UndoPcs, RollbackPcs, ServicePcs, Named, IdlePcs, FreshInv,
     FreshOf
<1>20. ASSUME NEW p \in Procs, Prune(p) PROVE SyncOf(p)'
  <2>1. SyncOf(p)
    BY DEF SyncInv
  <2> QED BY <1>20, <2>1 DEF Prune, Goto, service, local, SyncOf,
     StartedInSync, RoutingSaved, KeepsOldPcs, UndoPcs, RollbackPcs,
     ServicePcs, Named, IdlePcs, FreshInv, FreshOf
<1>21. ASSUME NEW p \in Procs, RestoreCurrent(p) PROVE SyncOf(p)'
  <2>1. SyncOf(p)
    BY DEF SyncInv
  <2> QED BY <1>21, <2>1 DEF RestoreCurrent, ApplyFailed, Goto, PointCurrent,
     service, local, SyncOf, StartedInSync, RoutingSaved, KeepsOldPcs,
     UndoPcs, RollbackPcs, ServicePcs, Named, IdlePcs, FreshInv, FreshOf
<1>22. ASSUME NEW p \in Procs, RestorePrevious(p) PROVE SyncOf(p)'
  <2>1. SyncOf(p)
    BY DEF SyncInv
  <2>2. /\ pc[p] = "restorePrev" /\ pc'[p] = "unstate"
        /\ ptr' = [ptr EXCEPT !.prev = old[p].prev]
        /\ UNCHANGED <<stateFile, routingFile, op, mem, cand, old, saved, was>>
    BY <1>22 DEF RestorePrevious, PointPrevious, Goto, local, FreshInv, FreshOf
  <2>3. StartedInSync(p) => ptr' = was[p].ptr
    <3>1. ptr' \in Links(Gens) /\ was[p].ptr \in Links(Gens)
      BY TypeStep
    <3>2. StartedInSync(p) => ptr'.cur = was[p].ptr.cur /\ ptr'.prev = was[p].ptr.prev
      BY <2>1, <2>2 DEF SyncOf, StartedInSync, RoutingSaved, KeepsOldPcs,
         UndoPcs, RollbackPcs, ServicePcs, IdlePcs
    <3> QED BY <3>1, <3>2, LinksEqual
  <2> QED BY <2>1, <2>2, <2>3 DEF SyncOf, StartedInSync, RoutingSaved,
     KeepsOldPcs, UndoPcs, RollbackPcs, ServicePcs, IdlePcs
<1>23. ASSUME NEW p \in Procs, RestoreState(p) PROVE SyncOf(p)'
  <2>1. SyncOf(p)
    BY DEF SyncInv
  <2> QED BY <1>23, <2>1 DEF RestoreState, WriteState, WriteStateFails,
     ApplyFailed, Goto, service, SyncOf, StartedInSync, RoutingSaved,
     KeepsOldPcs, UndoPcs, RollbackPcs, ServicePcs, Named, IdlePcs, FreshInv,
     FreshOf
<1>24. ASSUME NEW p \in Procs, RestartRestored(p) PROVE SyncOf(p)'
  <2>1. SyncOf(p)
    BY DEF SyncInv
  <2> QED BY <1>24, <2>1 DEF RestartRestored, Goto, disk, local, SyncOf,
     StartedInSync, RoutingSaved, KeepsOldPcs, UndoPcs, RollbackPcs,
     ServicePcs, Named, IdlePcs, FreshInv, FreshOf
<1>25. ASSUME NEW p \in Procs, Discard(p) PROVE SyncOf(p)'
  <2>1. SyncOf(p)
    BY DEF SyncInv
  <2> QED BY <1>25, <2>1 DEF Discard, RemoveCandidate, ApplyFailed, Goto,
     service, local, SyncOf, StartedInSync, RoutingSaved, KeepsOldPcs,
     UndoPcs, RollbackPcs, ServicePcs, Named, IdlePcs, FreshInv, FreshOf
<1>26. ASSUME NEW p \in Procs, RestoreRouting(p) PROVE SyncOf(p)'
  <2>1. SyncOf(p)
    BY DEF SyncInv
  <2> QED BY <1>26, <2>1 DEF RestoreRouting, Goto, service, local, SyncOf,
     StartedInSync, RoutingSaved, KeepsOldPcs, UndoPcs, RollbackPcs,
     ServicePcs, Named, IdlePcs, FreshInv, FreshOf
<1>27. ASSUME NEW p \in Procs, RollbackCommit(p) PROVE SyncOf(p)'
  <2>1. SyncOf(p)
    BY DEF SyncInv
  <2> QED BY <1>27, <2>1 DEF RollbackCommit, WriteState, WriteStateFails,
     Goto, service, SyncOf, StartedInSync, RoutingSaved, KeepsOldPcs, UndoPcs,
     RollbackPcs, ServicePcs, Named, IdlePcs, FreshInv, FreshOf
<1>28. ASSUME NEW p \in Procs, RollbackRestart(p) PROVE SyncOf(p)'
  <2>1. SyncOf(p)
    BY DEF SyncInv
  <2> QED BY <1>28, <2>1 DEF RollbackRestart, Goto, disk, local, SyncOf,
     StartedInSync, RoutingSaved, KeepsOldPcs, UndoPcs, RollbackPcs,
     ServicePcs, Named, IdlePcs, FreshInv, FreshOf
<1>29. ASSUME NEW p \in Procs, RollbackHealthCheck(p) PROVE SyncOf(p)'
  <2>1. SyncOf(p)
    BY DEF SyncInv
  <2> QED BY <1>29, <2>1 DEF RollbackHealthCheck, Goto, disk, service, local,
     SyncOf, StartedInSync, RoutingSaved, KeepsOldPcs, UndoPcs, RollbackPcs,
     ServicePcs, Named, IdlePcs, FreshInv, FreshOf
<1>30. ASSUME NEW p \in Procs, RollbackRecordHealthy(p) PROVE SyncOf(p)'
  <2>1. SyncOf(p)
    BY DEF SyncInv
  <2> QED BY <1>30, <2>1 DEF RollbackRecordHealthy, WriteState,
     WriteStateFails, Goto, service, SyncOf, StartedInSync, RoutingSaved,
     KeepsOldPcs, UndoPcs, RollbackPcs, ServicePcs, Named, IdlePcs, FreshInv,
     FreshOf
<1>31. ASSUME NEW p \in Procs, RollbackUndoPrevious(p) PROVE SyncOf(p)'
  <2>1. SyncOf(p)
    BY DEF SyncInv
  <2>2. StartedInSync(p) => /\ ptr.cur = was[p].ptr.prev
                           /\ ptr.prev = was[p].ptr.cur
                           /\ ptr.cur # None /\ ptr.prev # None
    BY <1>31, <2>1 DEF RollbackUndoPrevious, SyncOf, StartedInSync, IdlePcs
  <2>3. StartedInSync(p) =>
          /\ pc[p] = "rbUndoPrev" /\ pc'[p] = "rbUndoCur"
          /\ cand'[p] = ptr.prev /\ ptr'.prev = ptr.cur
          /\ UNCHANGED <<stateFile, routingFile, op, mem, old, saved, was>>
    BY <1>31, <2>2 DEF RollbackUndoPrevious, LinkPrevious, Goto
  <2>4. was' = was
    BY <1>31 DEF RollbackUndoPrevious
  <2> QED BY <2>1, <2>2, <2>3, <2>4 DEF SyncOf, StartedInSync, RoutingSaved,
     KeepsOldPcs, UndoPcs, RollbackPcs, ServicePcs, IdlePcs
<1>32. ASSUME NEW p \in Procs, RollbackUndoCurrent(p) PROVE SyncOf(p)'
  <2>1. SyncOf(p)
    BY DEF SyncInv
  <2>2. /\ pc[p] = "rbUndoCur" /\ pc'[p] = "rbUnstate"
        /\ ptr' = [ptr EXCEPT !.cur = cand[p]]
        /\ UNCHANGED <<stateFile, routingFile, op, mem, cand, old, saved, was>>
    BY <1>32 DEF RollbackUndoCurrent, LinkCurrent, Goto, local
  <2>3. StartedInSync(p) => ptr' = was[p].ptr
    <3>1. ptr' \in Links(Gens) /\ was[p].ptr \in Links(Gens)
      BY TypeStep
    <3>2. StartedInSync(p) => ptr'.cur = was[p].ptr.cur /\ ptr'.prev = was[p].ptr.prev
      BY <2>1, <2>2 DEF SyncOf, StartedInSync, RoutingSaved, KeepsOldPcs,
         UndoPcs, RollbackPcs, ServicePcs, IdlePcs
    <3> QED BY <3>1, <3>2, LinksEqual
  <2> QED BY <2>1, <2>2, <2>3 DEF SyncOf, StartedInSync, RoutingSaved,
     KeepsOldPcs, UndoPcs, RollbackPcs, ServicePcs, IdlePcs
<1>33. ASSUME NEW p \in Procs, RollbackRestoreState(p) PROVE SyncOf(p)'
  <2>1. SyncOf(p)
    BY DEF SyncInv
  <2> QED BY <1>33, <2>1 DEF RollbackRestoreState, WriteState,
     WriteStateFails, Goto, service, SyncOf, StartedInSync, RoutingSaved,
     KeepsOldPcs, UndoPcs, RollbackPcs, ServicePcs, Named, IdlePcs, FreshInv,
     FreshOf
<1>34. ASSUME NEW p \in Procs, RollbackRestartRestored(p) PROVE SyncOf(p)'
  <2>1. SyncOf(p)
    BY DEF SyncInv
  <2> QED BY <1>34, <2>1 DEF RollbackRestartRestored, Goto, disk, local,
     SyncOf, StartedInSync, RoutingSaved, KeepsOldPcs, UndoPcs, RollbackPcs,
     ServicePcs, Named, IdlePcs, FreshInv, FreshOf
<1>35. ASSUME NEW p \in Procs, ServiceStart(p) PROVE SyncOf(p)'
  <2>1. SyncOf(p)
    BY DEF SyncInv
  <2> QED BY <1>35, <2>1 DEF ServiceStart, Goto, disk, service, local, SyncOf,
     StartedInSync, RoutingSaved, KeepsOldPcs, UndoPcs, RollbackPcs,
     ServicePcs, Named, IdlePcs, FreshInv, FreshOf
<1>36. ASSUME NEW p \in Procs, ServiceStop(p) PROVE SyncOf(p)'
  <2>1. SyncOf(p)
    BY DEF SyncInv
  <2> QED BY <1>36, <2>1 DEF ServiceStop, Goto, disk, service, local, SyncOf,
     StartedInSync, RoutingSaved, KeepsOldPcs, UndoPcs, RollbackPcs,
     ServicePcs, Named, IdlePcs, FreshInv, FreshOf
<1>37. ASSUME NEW p \in Procs, ServiceRestart(p) PROVE SyncOf(p)'
  <2>1. SyncOf(p)
    BY DEF SyncInv
  <2> QED BY <1>37, <2>1 DEF ServiceRestart, Goto, disk, local, SyncOf,
     StartedInSync, RoutingSaved, KeepsOldPcs, UndoPcs, RollbackPcs,
     ServicePcs, Named, IdlePcs, FreshInv, FreshOf
<1>38. ASSUME NEW p \in Procs, Reconcile(p) PROVE SyncOf(p)'
  <2>1. SyncOf(p)
    BY DEF SyncInv
  <2> QED BY <1>38, <2>1 DEF Reconcile, WriteState, WriteStateFails, Goto,
     service, SyncOf, StartedInSync, RoutingSaved, KeepsOldPcs, UndoPcs,
     RollbackPcs, ServicePcs, Named, IdlePcs, FreshInv, FreshOf
<1>39. ASSUME NEW p \in Procs, Release(p) PROVE SyncOf(p)'
  <2>1. SyncOf(p)
    BY DEF SyncInv
  <2> QED BY <1>39, <2>1 DEF Release, Goto, disk, service, SyncOf,
     StartedInSync, RoutingSaved, KeepsOldPcs, UndoPcs, RollbackPcs,
     ServicePcs, Named, IdlePcs, FreshInv, FreshOf
<1>40. ASSUME NEW p \in Procs, Crash(p) PROVE \A q \in Procs : SyncOf(q)'
  <2> TAKE q \in Procs
  <2>1. CASE q = p
    BY <1>40, <2>1 DEF Crash, Goto, SyncOf, IdlePcs
  <2>2. CASE q # p
    <3>1. UNCHANGED <<pc[q], op[q], mem[q], cand[q], old[q], saved[q], was[q], disk>>
      BY <1>40, <2>2 DEF Crash, Goto
    <3> QED BY <3>1 DEF SyncInv, SyncOf, StartedInSync, RoutingSaved, disk
  <2> QED BY <2>1, <2>2
<1>41. CASE XrayExits
  BY <1>41, SyncFrame DEF XrayExits, SyncInv
<1>42. CASE SystemdRestarts
  BY <1>42, SyncFrame DEF SystemdRestarts, SyncInv
<1>43. CASE UNCHANGED vars
  BY <1>43, SyncFrame DEF vars, disk, local, SyncInv
<1> QED BY <1>a, <1>1, <1>2, <1>3, <1>4, <1>5, <1>6, <1>7, <1>8, <1>9, <1>10,
   <1>11, <1>12, <1>13, <1>14, <1>15, <1>16, <1>17, <1>18, <1>19, <1>20,
   <1>21, <1>22, <1>23, <1>24, <1>25, <1>26, <1>27, <1>28, <1>29, <1>30,
   <1>31, <1>32, <1>33, <1>34, <1>35, <1>36, <1>37, <1>38, <1>39, <1>40,
   <1>41, <1>42, <1>43 DEF Next, Begin, Continue, Environment
--------------------------------------------------------------------------------
(* Removals.                                                               *)

\* A step removes only directories that no link names.
LEMMA RemovalStep ==
    ASSUME ~IoErrors, TInv, FreshInv, [Next]_vars
    PROVE  (dirs \ dirs') \cap Linked(ptr') = {}
<1>1. ASSUME NEW p \in Procs, Validate(p) PROVE (dirs \ dirs') \cap Linked(ptr') = {}
  BY <1>1 DEF Validate, RemoveCandidate, FreshInv, FreshOf, Named, Linked
<1>2. ASSUME NEW p \in Procs, Discard(p) PROVE (dirs \ dirs') \cap Linked(ptr') = {}
  BY <1>2 DEF Discard, RemoveCandidate, FreshInv, FreshOf, FreshPcs, Named, Linked
<1>3. ASSUME NEW p \in Procs, Prune(p) PROVE (dirs \ dirs') \cap Linked(ptr') = {}
  BY <1>3 DEF Prune, Pruned, Linked
<1>4. ASSUME NEW p \in Procs, Prepare(p) PROVE dirs \subseteq dirs'
  BY <1>4 DEF Prepare
<1>5. ASSUME NEW p \in Procs, Begin(p) PROVE dirs' = dirs
  BY <1>5 DEF Begin, NodeSelect, Apply, SetRouting, ConfigRollback,
     SubscriptionRefresh, SubscriptionRemove, ServiceOperation, disk
<1>6. ASSUME NEW p \in Procs,
             Compose(p) \/ Quit(p) \/ Contend(p) \/ Release(p) \/ Crash(p)
      PROVE  dirs' = dirs
  BY <1>6 DEF Compose, Quit, Contend, Release, Crash, disk
<1>7. ASSUME NEW p \in Procs, SwitchPrevious(p) \/ SwitchCurrent(p) PROVE dirs' = dirs
  BY <1>7 DEF SwitchPrevious, SwitchCurrent
<1>8. ASSUME NEW p \in Procs,
             Commit(p) \/ Activate(p) \/ Restart(p) \/ HealthCheck(p) \/
             RecordHealthy(p) \/ RestoreCurrent(p)
      PROVE  dirs' = dirs
  BY <1>8 DEF Commit, Activate, Restart, HealthCheck, RecordHealthy,
     RestoreCurrent, disk
<1>9. ASSUME NEW p \in Procs,
             RestorePrevious(p) \/ RestoreState(p) \/ RestartRestored(p) \/
             RestoreRouting(p) \/ ServiceStart(p) \/ ServiceStop(p) \/
             ServiceRestart(p) \/ Reconcile(p)
      PROVE  dirs' = dirs
  BY <1>9 DEF RestorePrevious, RestoreState, RestartRestored, RestoreRouting,
     ServiceStart, ServiceStop, ServiceRestart, Reconcile, disk
<1>10. ASSUME NEW p \in Procs,
             RollbackCommit(p) \/ RollbackRestart(p) \/
             RollbackHealthCheck(p) \/ RollbackRecordHealthy(p) \/
             RollbackUndoPrevious(p) \/ RollbackUndoCurrent(p) \/
             RollbackRestoreState(p) \/ RollbackRestartRestored(p)
      PROVE  dirs' = dirs
  BY <1>10 DEF RollbackCommit, RollbackRestart, RollbackHealthCheck,
     RollbackRecordHealthy, RollbackUndoPrevious, RollbackUndoCurrent,
     RollbackRestoreState, RollbackRestartRestored, disk
<1>11. CASE Environment \/ UNCHANGED vars
  BY <1>11 DEF Environment, XrayExits, SystemdRestarts, disk, vars
<1> QED BY <1>1, <1>2, <1>3, <1>4, <1>5, <1>6, <1>7, <1>8, <1>9, <1>10, <1>11
   DEF Next, Continue
--------------------------------------------------------------------------------
(* Theorems.                                                               *)

\* The variables keep their types.
LEMMA AlwaysTyped == Spec => []TInv
  BY TypeInit, TypeStep, PTL DEF Spec

\* ConfigApply is type correct: in particular links only name generations, and
\* every process is at a label of the code.
THEOREM TypeCorrect == Spec => []TypeOK
<1>1. TInv => TypeOK
  BY DEF TInv
<1> QED BY <1>1, AlwaysTyped, PTL

\* For any number of processes, with crashes and I/O errors at every step, with or
\* without the exclusion of manager.lock: the links and the service only name
\* generations that passed `xray run -test`.
THEOREM OnlyValidatedActive == Spec => []ActiveIsValidated
<1>1. ValidInv => ActiveIsValidated
  BY DEF ValidInv, Named, ActiveIsValidated, Linked
<1>2. Spec => []ValidInv
  BY ValidInit, ValidStep, AlwaysTyped, PTL DEF Spec
<1> QED BY <1>1, <1>2, PTL

\* Processes that exclude each other hold the lock.
LEMMA AlwaysHeld ==
    ASSUME Exclusive
    PROVE  Spec => [](TInv /\ LockHeld)
<1>1. TInv /\ LockHeld /\ [Next]_vars => LockHeld'
  BY LockStep
<1> QED BY <1>1, LockInit, AlwaysTyped, PTL DEF Spec

\* Without I/O errors the candidates of apply_config stay fresh.
LEMMA AlwaysFresh ==
    ASSUME Exclusive, ~IoErrors
    PROVE  Spec => [](TInv /\ LockHeld /\ FreshInv)
<1>1. Spec => [](TInv /\ ValidInv /\ SpentInv)
  BY ValidInit, ValidStep, SpentInit, SpentStep, AlwaysTyped, PTL DEF Spec
<1>2. TInv /\ LockHeld /\ ValidInv /\ SpentInv /\ FreshInv /\ [Next]_vars => FreshInv'
  BY FreshStep
<1> QED BY <1>1, <1>2, FreshInit, AlwaysHeld, PTL DEF Spec

\* For processes that exclude each other, as long as no file system call fails, no
\* step of any of them, and no crash, makes `current` or `previous` dangle: prune_generations and
\* remove_owned spare what the links name, although apply_config works from
\* possibly stale memory.
THEOREM LinkedGenerationsStay ==
    ASSUME Exclusive, ~IoErrors
    PROVE  Spec => RemovalsSpareLinked
<1>1. TInv /\ FreshInv /\ [Next]_vars =>
        [(dirs \ dirs') \cap Linked(ptr') = {}]_vars
  BY RemovalStep
<1> QED BY <1>1, AlwaysFresh, PTL DEF Spec, RemovalsSpareLinked

\* For processes that exclude each other, as long as no file system call fails, an
\* operation that took the lock with up-to-date memory and gave up has put back links, state.json and
\* routing.toml, whatever the other processes did before and whatever crashed.
THEOREM SyncedFailureRestores ==
    ASSUME Exclusive, ~IoErrors
    PROVE  Spec => []SyncedFailureKeepsActive
<1>1. SyncInv => SyncedFailureKeepsActive
  BY DEF SyncInv, SyncOf, SyncedFailureKeepsActive, IdlePcs
<1>2. TInv /\ LockHeld /\ FreshInv /\ SyncInv /\ [Next]_vars => SyncInv'
  BY SyncStep
<1> QED BY <1>1, <1>2, SyncInit, AlwaysFresh, PTL DEF Spec
================================================================================
