---------------------------- MODULE TunPolicyProofs ----------------------------
(***************************************************************************)
(* Proofs about TunPolicy, for both values of tun.ipv6_enabled and every   *)
(* combination of faults: the types, that an active policy stays complete, *)
(* that a `tun enable` which succeeds has built all of it, that one which  *)
(* fails leaves nothing, and that what takes the policy down removes all   *)
(* of it.                                                                  *)
(***************************************************************************)
EXTENDS TunPolicy, TLAPS

\* Only the routine that removes the policy undoes anything.
UndoingDown == \A a \in Actors : undoing[a] => pc[a] \in DownPcs

\* ExecStop is the removing routine.
StoppingDown == unit = "deactivating" => pc["unit"] \in DownPcs

ControlInv == TypeOK /\ UndoingDown /\ StoppingDown

\* Where `tun enable` and a first installation come: `tun enable` restarts xray, an
\* installation starts it, and the removing routine undoes their failures.
EnableOps == {"enable", "first"}
Trying == {"svcStart", "waitStart", "restart", "startXray", "waitXray", "waitFailed", "succeeded"}
Alone == UpPcs \cup DownPcs \cup {"svcEnable", "stopFailed", "failed"}

EnablePath ==
    op \in EnableOps =>
        /\ pc["cli"] \in Trying \cup Alone
        /\ pc["cli"] \in DownPcs => undoing["cli"]
        /\ op = "enable" => pc["cli"] # "startXray"

\* What takes the policy down, where it comes, and where the policy is gone.
DisableOps == {"disable", "clear", "remove", "install off"}
Disabling == {"disableNow", "stopXray", "svcStop", "waitStop"} \cup DownPcs
Disabled == {"svcDisable", "startXray", "rmFiles", "restart", "waitXray", "succeeded"}

DisablePath ==
    op \in DisableOps =>
        pc["cli"] \in Disabling \cup Disabled \cup {"failed"} /\ ~undoing["cli"]

PathInv == EnablePath /\ DisablePath
--------------------------------------------------------------------------------
(* A successful `tun enable`.  The command and the unit both build the     *)
(* policy, possibly at the same time: whatever one of them takes away it   *)
(* adds again later, so what both are past is there.                       *)

\* What `tun enable` goes on to do when the policy is up.
Enabling == {"svcEnable", "svcStart", "waitStart", "restart", "waitXray", "succeeded"}

PastTable == {"rm4", "add4", "fb4", "rm6", "add6", "fb6"} \cup Enabling
PastRule == [f \in Families |-> {"fb6"} \cup Enabling
                                  \cup IF f = "v4" THEN {"fb4", "rm6", "add6"} ELSE {}]
PastFallback == [f \in Families |-> Enabling
                                  \cup IF f = "v4" THEN {"rm6", "add6", "fb6"} ELSE {}]

\* The command and the unit are both past the calls that lead to one of these labels.
BothPast(labels) ==
    /\ op = "enable" /\ pc["cli"] \in labels
    /\ unit = "active" \/ pc["unit"] \in labels

Built ==
    /\ BothPast(PastTable) => table
    /\ \A f \in Families :
        /\ BothPast(PastRule[f]) => rule[f]
        /\ BothPast(PastFallback[f]) => fallback[f]

\* `systemctl enable --now` has done its part.
UnitStarted ==
    op = "enable" =>
        /\ pc["cli"] \in Enabling \ {"svcEnable"} => enabled
        /\ pc["cli"] \in {"restart", "waitXray", "succeeded"} => unit = "active"

\* Nothing takes a route through the tunnel away once the command has restarted xray.
RoutesAttached ==
    op = "enable" /\ pc["cli"] \in {"waitXray", "succeeded"} =>
        /\ xray = "attach6" => tunRoute["v4"]
        /\ xray = "up" => \A f \in Attached : tunRoute[f]

BuildInv == Built /\ UnitStarted /\ RoutesAttached
--------------------------------------------------------------------------------
(* The removing routine in the command, and the parts it has removed.      *)

RemovedSoFar(after) ==
    /\ pc["cli"] \in {"un6", "flush4", "flush6", "fwDown"} \cup after => ~rule["v4"]
    /\ pc["cli"] \in {"flush4", "flush6", "fwDown"} \cup after => ~rule["v6"]
    /\ pc["cli"] \in {"flush6", "fwDown"} \cup after => ~fallback["v4"]
    /\ pc["cli"] \in {"fwDown"} \cup after => ~fallback["v6"]
    /\ pc["cli"] \in after => ~table

\* The unit is stopped before the routine begins, and not started at boot.
RemoveInv ==
    ~RemoveFails /\ op \in DisableOps =>
        /\ pc["cli"] = "waitStop" => unit \in {"inactive", "deactivating"}
        /\ pc["cli"] \in DownPcs \cup Disabled => unit = "inactive"
        /\ RemovedSoFar(Disabled)
        /\ pc["cli"] \in (Disabling \cup Disabled) \ {"disableNow"} /\ op = "install off"
             => ~enabled
        /\ pc["cli"] \in DownPcs \cup Disabled /\ op = "remove" => ~enabled
        /\ pc["cli"] \in Disabled \ {"svcDisable"} => ~enabled

\* A failed `tun enable` or first installation undoes its calls, and the unit does
\* not run meanwhile.
RoutesFound == rule = found[2] /\ fallback = found[3]

FoundSoFar ==
    /\ pc["cli"] = "fwClear" => policy = found
    /\ pc["cli"] \in {"fwLoad", "fwUndo"} => ~table /\ RoutesFound
    /\ pc["cli"] = "failed" => (table => policy = found) /\ (HasRoutes => RoutesFound)

UndoInv ==
    ~RemoveFails /\ ~EarlyCommands =>
        /\ unit = "deactivating" => pc["cli"] \in {"idle", "waitStop", "waitFailed"}
        /\ op \in EnableOps =>
            /\ pc["cli"] \in Alone => pc["unit"] = "idle"
            /\ pc["cli"] \in {"restart", "startXray", "waitXray", "succeeded"} => pc["unit"] = "idle"
            /\ FoundSoFar
            /\ RemovedSoFar({})
--------------------------------------------------------------------------------
(* The steps.                                                              *)

\* Where the commands begin.
Operations == {"enable", "disable", "apply", "clear", "remove"} \cup Installs
FirstCall(o) ==
    CASE o = "enable" -> "fwClear"
      [] o \in {"disable", "clear"} -> "svcStop"
      [] o = "install off" -> "disableNow"
      [] o = "remove" -> "stopXray"
      [] OTHER -> "svcEnable"

BeginStep ==
    /\ \E o \in Operations : Begin(o, FirstCall(o))
    /\ installed' \in {installed, TRUE} /\ UNCHANGED faults

\* What xray.service does to the rest: its routes and its interface apart, it ends the
\* wait of a command.
XrayStep ==
    /\ UNCHANGED <<table, rule, fallback, unit, enabled, undoing, op, found, installed,
                   faults>>
    /\ \/ pc' = pc
       \/ /\ pc["cli"] = "waitXray"
          /\ \/ pc' = [pc EXCEPT !["cli"] = "succeeded"]
             \/ pc' = [pc EXCEPT !["cli"] = XrayFailed]

XrayActions ==
    /\ \/ AttachFails \/ Detach \/ XrayOpensTun \/ AttachSkipped \/ XrayExits \/ XrayStarts
       \/ \E f \in Families : Attach(f)
    /\ UNCHANGED <<installed, faults>>

\* A step of xray.service is such a step.
LEMMA XrayActionStep == XrayActions => XrayStep
<1> SUFFICES ASSUME XrayActions PROVE XrayStep
    OBVIOUS
<1>1. CASE Detach \/ XrayOpensTun \/ XrayStarts
    BY <1>1 DEF XrayActions, XrayStep, Detach, XrayOpensTun, XrayStarts, kernel
<1>2. CASE AttachFails \/ XrayExits
    BY <1>2 DEF XrayActions, XrayStep, AttachFails, XrayExits, JobEnds, Goto
<1>3. CASE AttachSkipped
    BY <1>3 DEF XrayActions, XrayStep, AttachSkipped, JobEnds, Goto, kernel
<1>4. ASSUME NEW f \in Families, Attach(f) PROVE XrayStep
    BY <1>4 DEF XrayActions, XrayStep, Attach, JobEnds, Goto
<1> QED
    BY <1>1, <1>2, <1>3, <1>4 DEF XrayActions

\* Every step is one of a routine, of the command, of xray.service, or an event.
LEMMA StepCases ==
    ASSUME [Next]_vars
    PROVE  \/ \E a \in Actors : Routine(a)
           \/ Command
           \/ XrayActions
           \/ BeginStep
           \/ Crash /\ UNCHANGED <<installed, faults>>
           \/ Reboot /\ UNCHANGED <<installed, faults>>
           \/ UNCHANGED vars
<1>1. CASE Events
    <2>1. CASE Install /\ UNCHANGED faults
        BY <2>1 DEF Install, BeginStep, Operations, FirstCall, Installs
    <2>2. CASE (TunEnable \/ TunDisable \/ ApplyConfig \/ ApplyWithoutTun \/ Remove)
               /\ UNCHANGED <<installed, faults>>
        BY <2>2 DEF TunEnable, TunDisable, ApplyConfig, ApplyWithoutTun, Remove, BeginStep,
                    Operations, FirstCall, Installs
    <2> QED
        BY <1>1, <2>1, <2>2 DEF Events, XrayActions
<1>2. CASE XrayService
    BY <1>2 DEF XrayService, XrayActions
<1> QED
    BY <1>1, <1>2 DEF Next

\* The type of the history.
Policies == BOOLEAN \X [Families -> BOOLEAN] \X [Families -> BOOLEAN]

\* A call of a routine is made where the actor is in one, by the actor, and leaves
\* what is not the policy's alone.
LEMMA RoutineAt ==
    ASSUME NEW a \in Actors, Routine(a)
    PROVE  /\ pc[a] \in UpPcs \cup DownPcs
           /\ UNCHANGED <<iface, enabled, xray, op, installed, faults>>
<1>1. CASE FirewallClear(a) \/ FirewallLoad(a) \/ FirewallUndo(a) \/ FirewallDown(a)
    BY <1>1 DEF FirewallClear, FirewallLoad, FirewallUndo, FirewallDown, UpPcs, DownPcs, Routine
<1>2. ASSUME NEW f \in Families, RemoveRule(a, f) \/ AddRule(a, f) \/ ReplaceFallback(a, f)
      PROVE  /\ pc[a] \in UpPcs
             /\ UNCHANGED <<iface, enabled, xray, op, installed, faults>>
    BY <1>2 DEF RemoveRule, AddRule, ReplaceFallback, UpPcs, Rm, Add, Fallback, Routine
<1>3. ASSUME NEW f \in Families, UnRule(a, f) \/ FlushTable(a, f)
      PROVE  /\ pc[a] \in DownPcs
             /\ UNCHANGED <<iface, enabled, xray, op, installed, faults>>
    BY <1>3 DEF UnRule, FlushTable, DownPcs, Un, Flush, Routine
<1> QED
    BY <1>1, <1>2, <1>3 DEF Routine

\* But for the start and the stop of the unit, the command leaves the unit alone.
LEMMA CommandAlone ==
    ASSUME Command, ~(ServiceStart \/ ServiceStop)
    PROVE  /\ unit' = unit /\ op' \in {op, "none"}
           /\ \E l : pc' = [pc EXCEPT !["cli"] = l]
<1>1. Command /\ ~ServiceStart /\ ~ServiceStop
    OBVIOUS
<1>2. unit' = unit
    BY <1>1 DEF Command, ServiceEnable, ServiceStarted, CommandFailed, Undo, RestartXray,
                StartXray, StopXray, DisableNow, ServiceStopped, ServiceDisable, Return,
                RemoveFiles
<1>3. op' \in {op, "none"}
    BY <1>1 DEF Command, ServiceEnable, ServiceStarted, CommandFailed, Undo, RestartXray,
                StartXray, StopXray, DisableNow, ServiceStopped, ServiceDisable, Return,
                RemoveFiles
<1>4. \E l : pc' = [pc EXCEPT !["cli"] = l]
    BY <1>1 DEF Command, ServiceEnable, ServiceStarted, CommandFailed, Undo, RestartXray,
                StartXray, StopXray, DisableNow, ServiceStopped, ServiceDisable, Return,
                RemoveFiles, Goto
<1> QED
    BY <1>2, <1>3, <1>4

\* The history is kept, but for the command's first call of routes_up.
LEMMA RoutineFound ==
    ASSUME NEW a \in Actors, Routine(a)
    PROVE  found' = found \/ (a = "cli" /\ found' = NoPolicy)
BY DEF Routine, FirewallClear, FirewallLoad, FirewallUndo, FirewallDown, RemoveRule, AddRule,
       ReplaceFallback, UnRule, FlushTable

\* What is found is a policy.
LEMMA PolicyType == TypeOK => policy \in Policies /\ NoPolicy \in Policies
<1> SUFFICES ASSUME TypeOK PROVE policy \in Policies /\ NoPolicy \in Policies
    OBVIOUS
<1>1. table \in BOOLEAN /\ rule \in [Families -> BOOLEAN] /\ fallback \in [Families -> BOOLEAN]
    BY DEF TypeOK
<1>2. None \in [Families -> BOOLEAN]
    BY DEF None
<1> QED
    BY <1>1, <1>2 DEF policy, NoPolicy, Policies

\* Where a routine goes: on, or to the end of it; the command leaves the unit alone.
RoutineEnds == {"idle", "failed", "svcEnable", "startXray", "rmFiles", "svcDisable"}

LEMMA RoutineNext ==
    ASSUME NEW a \in Actors, Routine(a)
    PROVE  /\ \E l \in UpPcs \cup DownPcs \cup RoutineEnds : pc' = [pc EXCEPT ![a] = l]
           /\ a = "cli" => unit' = unit
<1>1. CASE FirewallClear(a) \/ FirewallLoad(a) \/ FirewallUndo(a) \/ FirewallDown(a)
    BY <1>1 DEF FirewallClear, FirewallLoad, FirewallUndo, FirewallDown, DownEnded, UpFailed,
                Goto, UpPcs, DownPcs, RoutineEnds
<1>2. ASSUME NEW f \in Families, RemoveRule(a, f) \/ AddRule(a, f) \/ ReplaceFallback(a, f)
      PROVE  /\ \E l \in UpPcs \cup DownPcs \cup RoutineEnds : pc' = [pc EXCEPT ![a] = l]
             /\ a = "cli" => unit' = unit
    BY <1>2 DEF RemoveRule, AddRule, ReplaceFallback, UpSucceeded, Undo, Goto, Add, Fallback,
                UpPcs, DownPcs, RoutineEnds
<1>3. ASSUME NEW f \in Families, UnRule(a, f) \/ FlushTable(a, f)
      PROVE  /\ \E l \in UpPcs \cup DownPcs \cup RoutineEnds : pc' = [pc EXCEPT ![a] = l]
             /\ a = "cli" => unit' = unit
    BY <1>3 DEF UnRule, FlushTable, Goto, DownPcs
<1> QED
    BY <1>1, <1>2, <1>3 DEF Routine
--------------------------------------------------------------------------------
(* The types and the control of the two processes.                         *)

\* The process of the unit runs exactly while systemd starts or stops the unit.
UnitRuns == pc["unit"] = "idle" <=> unit \in {"inactive", "active"}

\* The initial states.
LEMMA InitControl == Init => ControlInv
<1> SUFFICES ASSUME Init PROVE ControlInv
    OBVIOUS
<1>1. pc \in [Actors -> Pcs]
    BY DEF Init, Pcs
<1>2. {rule, fallback, tunRoute} \subseteq [Families -> BOOLEAN]
    BY DEF Init, None
<1>3. UndoingDown /\ StoppingDown
    BY DEF Init, UndoingDown, StoppingDown
<1>4. found \in BOOLEAN \X [Families -> BOOLEAN] \X [Families -> BOOLEAN]
    BY DEF Init, NoPolicy, None
<1> QED
    BY <1>1, <1>2, <1>3, <1>4 DEF Init, ControlInv, TypeOK, None, Actors

\* A call of a routine keeps the types and the control.
LEMMA RoutineControl ==
    ASSUME ControlInv, NEW a \in Actors, Routine(a)
    PROVE  ControlInv'
<1> DEFINE
        firewall == FirewallClear(a) \/ FirewallLoad(a) \/ FirewallUndo(a) \/ FirewallDown(a)
        routes(f) == \/ RemoveRule(a, f) \/ AddRule(a, f) \/ ReplaceFallback(a, f)
                     \/ UnRule(a, f) \/ FlushTable(a, f)
<1>1. firewall \/ \E f \in Families : routes(f)
    BY DEF Routine
<1> HIDE DEF firewall, routes
<1>2. \E l \in Pcs : pc' = [pc EXCEPT ![a] = l]
    <2>1. CASE firewall
        BY <2>1 DEF FirewallClear, FirewallLoad, FirewallUndo, FirewallDown, firewall,
                    DownEnded, UpFailed, Goto, Pcs, UpPcs, CliPcs
    <2>2. ASSUME NEW f \in Families, routes(f)
          PROVE  \E l \in Pcs : pc' = [pc EXCEPT ![a] = l]
        BY <2>2 DEF RemoveRule, AddRule, ReplaceFallback, UnRule, FlushTable, routes,
                    Undo, UpSucceeded, Goto, Pcs, UpPcs, CliPcs, DownPcs, Add, Fallback
    <2> QED
        BY <1>1, <2>1, <2>2
<1>3. UnitRuns' /\ UndoingDown' /\ StoppingDown'
    <2>1. CASE firewall
        <3>1. CASE FirewallClear(a)
            BY <3>1 DEF FirewallClear, UpFailed, Goto, ControlInv, TypeOK, Actors, UnitRuns,
                        UndoingDown, StoppingDown, DownPcs
        <3>2. CASE FirewallLoad(a) \/ FirewallUndo(a)
            BY <3>2 DEF FirewallLoad, FirewallUndo, UpFailed, Goto, ControlInv, TypeOK,
                        Actors, UnitRuns, UndoingDown, StoppingDown, DownPcs
        <3>3. CASE FirewallDown(a)
            BY <3>3 DEF FirewallDown, DownEnded, UpFailed, Goto, ControlInv, TypeOK, Actors,
                        UnitRuns, UndoingDown, StoppingDown, DownPcs
        <3> QED
            BY <2>1, <3>1, <3>2, <3>3 DEF firewall
    <2>2. ASSUME NEW f \in Families, routes(f)
          PROVE  UnitRuns' /\ UndoingDown' /\ StoppingDown'
        BY <2>2 DEF RemoveRule, AddRule, ReplaceFallback, UnRule, FlushTable, routes,
                    Undo, UpSucceeded, Goto, ControlInv, TypeOK, Actors, UnitRuns,
                    UndoingDown, StoppingDown, DownPcs, Rm, Add, Fallback, Un, Flush
    <2> QED
        BY <1>1, <2>1, <2>2
<1>4. /\ undoing' \in [Actors -> BOOLEAN]
      /\ unit' \in {"inactive", "activating", "active", "deactivating"}
    BY DEF FirewallClear, FirewallLoad, FirewallUndo, FirewallDown, RemoveRule, AddRule,
           ReplaceFallback, UnRule, FlushTable, Routine, DownEnded, UpFailed, UpSucceeded,
           Undo, ControlInv, TypeOK
<1>5. table' \in BOOLEAN
    BY DEF FirewallClear, FirewallLoad, FirewallUndo, FirewallDown, RemoveRule, AddRule,
           ReplaceFallback, UnRule, FlushTable, Routine, Removed, ControlInv, TypeOK
<1>6. rule' \in [Families -> BOOLEAN]
    BY DEF FirewallClear, FirewallLoad, FirewallUndo, FirewallDown, RemoveRule, AddRule,
           ReplaceFallback, UnRule, FlushTable, Routine, Removed, ControlInv, TypeOK
<1>7. fallback' \in [Families -> BOOLEAN]
    BY DEF FirewallClear, FirewallLoad, FirewallUndo, FirewallDown, RemoveRule, AddRule,
           ReplaceFallback, UnRule, FlushTable, Routine, ControlInv, TypeOK
<1>8. tunRoute' \in [Families -> BOOLEAN] /\ \A f \in Families : tunRoute'[f] => tunRoute[f]
    BY DEF FirewallClear, FirewallLoad, FirewallUndo, FirewallDown, RemoveRule, AddRule,
           ReplaceFallback, UnRule, FlushTable, Routine, ControlInv, TypeOK
<1>9. pc' \in [Actors -> Pcs]
    BY <1>2 DEF ControlInv, TypeOK
<1>10. found' \in BOOLEAN \X [Families -> BOOLEAN] \X [Families -> BOOLEAN]
    BY RoutineFound, PolicyType DEF ControlInv, TypeOK, Policies
<1> QED
    BY <1>3, <1>4, <1>5, <1>6, <1>7, <1>8, <1>9, <1>10, RoutineAt
    DEF ControlInv, TypeOK, UnitRuns

\* A step of the command keeps the types and the control.
LEMMA CommandControl == ControlInv /\ Command => ControlInv'
<1> SUFFICES ASSUME ControlInv, Command PROVE ControlInv'
    OBVIOUS
<1>1. pc' \in [Actors -> Pcs]
    <2>1. CASE ServiceStart \/ ServiceStop
        BY <2>1 DEF ServiceStart, NextAfterUnit, ServiceStop, StopUnit, Goto, Pcs, UpPcs,
                    CliPcs, DownPcs, ControlInv, TypeOK, Actors
    <2>2. CASE ~(ServiceStart \/ ServiceStop)
        <3>1. \E l \in Pcs : pc' = [pc EXCEPT !["cli"] = l]
            BY <2>2 DEF Command, ServiceEnable, ServiceStarted, NextAfterUnit,
                        CommandFailed, Undo, RestartXray, StartXray, XrayFailed, StopXray,
                        DisableNow, ServiceStopped, ServiceDisable, Return, RemoveFiles,
                        Goto, Pcs, UpPcs, CliPcs, DownPcs
        <3> QED
            BY <3>1 DEF ControlInv, TypeOK
    <2> QED
        BY <2>1, <2>2
<1>2. UnitRuns' /\ UndoingDown' /\ StoppingDown'
    <2>1. CASE ServiceEnable \/ ServiceStart \/ ServiceStarted
        BY <2>1 DEF ServiceEnable, ServiceStart, ServiceStarted, NextAfterUnit, CommandFailed,
                    Undo, Goto, ControlInv, TypeOK, Actors, UnitRuns, UndoingDown,
                    StoppingDown, DownPcs
    <2>2. CASE RestartXray \/ StartXray \/ StopXray
        BY <2>2 DEF RestartXray, StartXray, XrayFailed, StopXray, Goto, ControlInv, TypeOK,
                    Actors, UnitRuns, UndoingDown, StoppingDown, DownPcs
    <2>3. CASE DisableNow \/ ServiceStop \/ ServiceStopped
        BY <2>3 DEF DisableNow, ServiceStop, StopUnit, ServiceStopped, Goto, ControlInv,
                    TypeOK, Actors, UnitRuns, UndoingDown, StoppingDown, DownPcs
    <2>4. CASE ServiceDisable \/ Return \/ RemoveFiles
        BY <2>4 DEF ServiceDisable, Return, RemoveFiles, Goto, ControlInv, TypeOK, Actors,
                    UnitRuns, UndoingDown, StoppingDown, DownPcs
    <2> QED
        BY <2>1, <2>2, <2>3, <2>4 DEF Command
<1>3. /\ undoing' \in [Actors -> BOOLEAN]
      /\ unit' \in {"inactive", "activating", "active", "deactivating"}
    BY DEF Command, ServiceEnable, ServiceStart, ServiceStarted, NextAfterUnit,
           CommandFailed, Undo, RestartXray, StartXray, XrayFailed, StopXray, DisableNow,
           ServiceStop, StopUnit, ServiceStopped, ServiceDisable, Return, RemoveFiles,
           Goto, ControlInv, TypeOK
<1>4. enabled' \in BOOLEAN /\ installed' \in BOOLEAN /\ found' \in {found, NoPolicy}
    BY DEF Command, ServiceEnable, ServiceStart, ServiceStarted, NextAfterUnit,
           CommandFailed, Undo, RestartXray, StartXray, XrayFailed, StopXray, DisableNow,
           ServiceStop, StopUnit, ServiceStopped, ServiceDisable, Return, RemoveFiles,
           Goto, Removed, ControlInv, TypeOK
<1>5. xray' \in {"down", "starting", "attach6", "up", "plain", "stopping"}
    BY DEF Command, ServiceEnable, ServiceStart, ServiceStarted, NextAfterUnit,
           CommandFailed, Undo, RestartXray, StartXray, XrayFailed, StopXray, DisableNow,
           ServiceStop, StopUnit, ServiceStopped, ServiceDisable, Return, RemoveFiles,
           Goto, kernel, ControlInv, TypeOK
<1>6. \/ UNCHANGED <<iface, tunRoute>>
      \/ XrayStopped
    BY DEF Command, ServiceEnable, ServiceStart, ServiceStarted, NextAfterUnit,
           CommandFailed, Undo, RestartXray, StartXray, XrayFailed, StopXray, DisableNow,
           ServiceStop, StopUnit, ServiceStopped, ServiceDisable, Return, RemoveFiles,
           Goto, kernel
<1>7. UNCHANGED <<table, rule, fallback, faults>> /\ op' \in {op, "none"}
    BY DEF Command, ServiceEnable, ServiceStart, ServiceStarted, NextAfterUnit,
           CommandFailed, Undo, RestartXray, StartXray, XrayFailed, StopXray, DisableNow,
           ServiceStop, StopUnit, ServiceStopped, ServiceDisable, Return, RemoveFiles,
           Goto, kernel
<1>8. found' \in BOOLEAN \X [Families -> BOOLEAN] \X [Families -> BOOLEAN]
    BY <1>4, PolicyType DEF ControlInv, TypeOK, Policies
<1>9. /\ tunRoute' \in [Families -> BOOLEAN] /\ iface' \in BOOLEAN
      /\ (\E f \in Families : tunRoute'[f]) => iface'
    BY <1>6 DEF ControlInv, TypeOK, XrayStopped, None
<1> QED
    BY <1>1, <1>2, <1>3, <1>4, <1>5, <1>7, <1>8, <1>9 DEF ControlInv, TypeOK, UnitRuns

\* A step of xray.service keeps the types and the control.
LEMMA XrayControl == ControlInv /\ XrayActions => ControlInv'
<1> SUFFICES ASSUME ControlInv, XrayActions PROVE ControlInv'
    OBVIOUS
<1>1. XrayStep
    BY XrayActionStep
<1>2. pc' \in [Actors -> Pcs]
    BY <1>1 DEF XrayStep, XrayFailed, ControlInv, TypeOK, Pcs, CliPcs
<1>3. UnitRuns' /\ UndoingDown' /\ StoppingDown'
    BY <1>1 DEF XrayStep, XrayFailed, ControlInv, TypeOK, Actors, UnitRuns, UndoingDown,
                StoppingDown, DownPcs
<1>4. xray' \in {"down", "starting", "attach6", "up", "plain", "stopping"}
    BY DEF XrayActions, AttachFails, Detach, XrayOpensTun, AttachSkipped, XrayExits,
           XrayStarts, Attach
<1>5. \/ UNCHANGED <<iface, tunRoute>>
      \/ XrayStopped
      \/ iface' = TRUE /\ UNCHANGED tunRoute
      \/ iface = TRUE /\ UNCHANGED iface /\ \E f \in Families : tunRoute' = [tunRoute EXCEPT ![f] = TRUE]
      \/ UNCHANGED iface /\ tunRoute' = [f \in Families |-> tunRoute[f] /\ f \notin Attached]
    BY DEF XrayActions, AttachFails, Detach, XrayOpensTun, AttachSkipped, XrayExits,
           XrayStarts, Attach, kernel, ControlInv, TypeOK
<1>6. tunRoute' \in [Families -> BOOLEAN] /\ iface' \in BOOLEAN
      /\ ((\E f \in Families : tunRoute'[f]) => iface')
    BY <1>5 DEF ControlInv, TypeOK, XrayStopped, None
<1> QED
    BY <1>1, <1>2, <1>3, <1>4, <1>6 DEF XrayStep, ControlInv, TypeOK, UnitRuns

\* Every step keeps the types and the control.
LEMMA ControlStep == ControlInv /\ [Next]_vars => ControlInv'
<1> SUFFICES ASSUME ControlInv, [Next]_vars PROVE ControlInv'
    OBVIOUS
<1>1. CASE BeginStep
    <2>1. PICK o \in Operations : Begin(o, FirstCall(o))
        BY <1>1 DEF BeginStep
    <2>2. FirstCall(o) \in {"fwClear", "svcStop", "svcEnable", "disableNow", "stopXray"}
        BY DEF FirstCall
    <2>3. pc' \in [Actors -> Pcs] /\ UnitRuns' /\ UndoingDown' /\ StoppingDown'
        <3>1. /\ pc["cli"] = "idle" /\ pc' = [pc EXCEPT !["cli"] = FirstCall(o)]
              /\ UNCHANGED <<unit, undoing>>
            BY <2>1 DEF Begin, Goto
        <3>2. pc' \in [Actors -> Pcs]
            BY <2>2, <3>1 DEF ControlInv, TypeOK, Pcs, UpPcs, CliPcs
        <3> QED
            BY <3>1, <3>2 DEF ControlInv, TypeOK, UnitRuns, UndoingDown, StoppingDown, Actors,
                              DownPcs
    <2>4. op' = o /\ installed' \in BOOLEAN
        BY <1>1, <2>1 DEF BeginStep, Begin, ControlInv, TypeOK
    <2>5. found' \in BOOLEAN \X [Families -> BOOLEAN] \X [Families -> BOOLEAN]
        BY <2>1, PolicyType DEF Begin, ControlInv, Policies
    <2> QED
        BY <1>1, <2>1, <2>2, <2>3, <2>4, <2>5 DEF BeginStep, Begin, Operations, kernel,
               ControlInv, TypeOK, UnitRuns
<1>2. CASE Crash /\ UNCHANGED <<installed, faults>>
    <2>1. pc' \in [Actors -> Pcs] /\ UnitRuns' /\ UndoingDown' /\ StoppingDown'
        BY <1>2 DEF Crash, Goto, ControlInv, TypeOK, UnitRuns, UndoingDown, StoppingDown,
                    Actors, Pcs
    <2>2. found' \in BOOLEAN \X [Families -> BOOLEAN] \X [Families -> BOOLEAN]
        BY <1>2, PolicyType DEF Crash, ControlInv, Policies
    <2> QED
        BY <1>2, <2>1, <2>2 DEF Crash, kernel, ControlInv, TypeOK, UnitRuns
<1>3. CASE Reboot /\ UNCHANGED <<installed, faults>>
    <2>1. pc' \in [Actors -> Pcs] /\ UnitRuns' /\ UndoingDown' /\ StoppingDown'
        BY <1>3 DEF Reboot, ControlInv, TypeOK, UnitRuns, UndoingDown, StoppingDown,
                    Actors, Pcs, UpPcs
    <2>2. found' \in BOOLEAN \X [Families -> BOOLEAN] \X [Families -> BOOLEAN]
        BY <1>3, PolicyType DEF Reboot, ControlInv, Policies
    <2> QED
        BY <1>3, <2>1, <2>2 DEF Reboot, None, ControlInv, TypeOK, UnitRuns
<1>4. CASE UNCHANGED vars
    BY <1>4 DEF vars, ControlInv, TypeOK, UndoingDown, StoppingDown
<1> QED
    BY <1>1, <1>2, <1>3, <1>4, StepCases, RoutineControl, CommandControl, XrayControl

\* The initial states.
LEMMA InitPath == Init => PathInv
BY DEF Init, PathInv, EnablePath, DisablePath, EnableOps, DisableOps

\* Every step keeps the paths.
LEMMA PathStep == ControlInv /\ PathInv /\ [Next]_vars => PathInv'
<1> SUFFICES ASSUME ControlInv, PathInv, [Next]_vars PROVE PathInv'
    OBVIOUS
<1>1. ASSUME NEW a \in Actors, Routine(a) PROVE PathInv'
    <2>1. CASE FirewallClear(a) \/ FirewallLoad(a) \/ FirewallUndo(a) \/ FirewallDown(a)
        <3>1. CASE FirewallClear(a)
            <4>1. /\ op' = op /\ undoing' = undoing /\ pc[a] = "fwClear"
                  /\ \E l \in {"idle", "failed", "fwLoad"} :
                        pc' = [pc EXCEPT ![a] = l] /\ (l = "idle" => a = "unit")
                BY <3>1 DEF FirewallClear, UpFailed, Goto
            <4> QED
                BY <4>1 DEF Actors, ControlInv, TypeOK, PathInv, EnablePath, DisablePath,
                            EnableOps, DisableOps, Trying, Alone, Disabling, Disabled, UpPcs,
                            DownPcs
        <3>2. CASE FirewallLoad(a)
            BY <3>2 DEF FirewallLoad, Goto, Actors, ControlInv, TypeOK, PathInv, EnablePath,
                        DisablePath, EnableOps, DisableOps, Trying, Alone, Disabling,
                        Disabled, UpPcs, DownPcs
        <3>3. CASE FirewallUndo(a)
            BY <3>3 DEF FirewallUndo, UpFailed, Goto, Actors, ControlInv, TypeOK, PathInv,
                        EnablePath, DisablePath, EnableOps, DisableOps, Trying, Alone,
                        Disabling, Disabled, UpPcs, DownPcs
        <3>4. CASE FirewallDown(a)
            <4>1. /\ op' = op /\ undoing' = [undoing EXCEPT ![a] = FALSE] /\ pc[a] = "fwDown"
                  /\ \E ok \in BOOLEAN : DownEnded(a, ok)
                BY <3>4 DEF FirewallDown
            <4>2. PICK ok \in BOOLEAN : DownEnded(a, ok)
                BY <4>1
            <4>3. CASE a = "unit"
                BY <4>1, <4>2, <4>3
                DEF DownEnded, UpFailed, Goto, Actors, ControlInv, TypeOK, PathInv, EnablePath,
                    DisablePath, EnableOps, DisableOps
            <4>4. CASE a = "cli" /\ undoing[a]
                <5>1. pc'["cli"] = "failed"
                    BY <4>2, <4>4 DEF DownEnded, UpFailed, Goto, ControlInv, TypeOK, Actors
                <5>2. undoing'["cli"] = FALSE
                    BY <4>1, <4>4 DEF ControlInv, TypeOK, Actors
                <5> QED
                    BY <4>1, <5>1, <5>2
                    DEF PathInv, EnablePath, DisablePath, Alone, UpPcs, DownPcs
            <4>5. CASE a = "cli" /\ ~undoing[a]
                BY <4>1, <4>2, <4>5
                DEF DownEnded, Goto, Actors, ControlInv, TypeOK, PathInv, EnablePath,
                    DisablePath, EnableOps, DisableOps, Disabled, DownPcs
            <4> QED
                BY <4>3, <4>4, <4>5 DEF Actors
        <3> QED
            BY <2>1, <3>1, <3>2, <3>3, <3>4
    <2>2. ASSUME NEW f \in Families, RemoveRule(a, f) \/ AddRule(a, f) \/ ReplaceFallback(a, f)
          PROVE  PathInv'
        <3>1. CASE RemoveRule(a, f)
            BY <3>1 DEF RemoveRule, Rm, Add, Goto, Actors, ControlInv, TypeOK, PathInv,
                        EnablePath, DisablePath, EnableOps, DisableOps, Trying, Alone,
                        Disabling, Disabled, UpPcs, DownPcs
        <3>2. CASE AddRule(a, f)
            BY <3>2 DEF AddRule, Undo, Add, Fallback, Goto, Actors, ControlInv, TypeOK,
                        PathInv, EnablePath, DisablePath, EnableOps, DisableOps, Trying,
                        Alone, Disabling, Disabled, UpPcs, DownPcs
        <3>3. CASE ReplaceFallback(a, f)
            <4>1. /\ pc[a] \in UpPcs /\ UNCHANGED op
                  /\ \/ \E l \in {"rm6", "idle", "svcEnable"} :
                             pc' = [pc EXCEPT ![a] = l] /\ UNCHANGED undoing
                     \/ /\ pc' = [pc EXCEPT ![a] = "un4"]
                        /\ undoing' = [undoing EXCEPT ![a] = TRUE]
                  /\ a = "cli" => pc'["cli"] # "idle"
                BY <3>3 DEF ReplaceFallback, UpSucceeded, Undo, Fallback, Goto, Actors,
                            ControlInv, TypeOK, UpPcs
            <4> QED
                BY <4>1 DEF Actors, ControlInv, TypeOK, PathInv, EnablePath, DisablePath,
                            EnableOps, DisableOps, Trying, Alone, Disabling, Disabled,
                            UpPcs, DownPcs
        <3> QED
            BY <2>2, <3>1, <3>2, <3>3
    <2>3. ASSUME NEW f \in Families, UnRule(a, f) \/ FlushTable(a, f)
          PROVE  PathInv'
        BY <2>3 DEF UnRule, FlushTable, Un, Flush, Goto, Actors, ControlInv, TypeOK,
                    PathInv, EnablePath, DisablePath, EnableOps, DisableOps, Trying,
                    Alone, Disabling, Disabled, UpPcs, DownPcs
    <2> QED
        BY <1>1, <2>1, <2>2, <2>3 DEF Routine
<1>2. CASE Command
    <2>1. CASE ServiceEnable /\ UNCHANGED <<installed, faults>>
        BY <2>1 DEF ServiceEnable, CommandFailed, Undo, kernel, Goto, Actors, ControlInv,
                    TypeOK, UndoingDown, PathInv, EnablePath, DisablePath, EnableOps,
                    DisableOps, Trying, Alone, Disabling, Disabled, UpPcs, DownPcs
    <2>2. CASE ServiceStart /\ UNCHANGED <<installed, faults>>
        BY <2>2 DEF ServiceStart, NextAfterUnit, Installs, kernel, Goto, Actors,
                    ControlInv, TypeOK, UndoingDown, PathInv, EnablePath, DisablePath,
                    EnableOps, DisableOps, Trying, Alone, Disabling, Disabled, UpPcs,
                    DownPcs
    <2>3. CASE ServiceStarted /\ UNCHANGED <<installed, faults>>
        BY <2>3 DEF ServiceStarted, NextAfterUnit, Installs, CommandFailed, Undo, kernel,
                    Goto, Actors, ControlInv, TypeOK, UndoingDown, PathInv, EnablePath,
                    DisablePath, EnableOps, DisableOps, Trying, Alone, Disabling,
                    Disabled, UpPcs, DownPcs
    <2>4. CASE RestartXray /\ UNCHANGED <<installed, faults>>
        BY <2>4 DEF RestartXray, XrayStopped, XrayFailed, Goto, Actors, ControlInv,
                    TypeOK, UndoingDown, PathInv, EnablePath, DisablePath, EnableOps,
                    DisableOps, Trying, Alone, Disabling, Disabled, UpPcs, DownPcs
    <2>5. CASE StartXray /\ UNCHANGED <<installed, faults>>
        BY <2>5 DEF StartXray, XrayFailed, kernel, Goto, Actors, ControlInv, TypeOK,
                    UndoingDown, PathInv, EnablePath, DisablePath, EnableOps, DisableOps,
                    Trying, Alone, Disabling, Disabled, UpPcs, DownPcs
    <2>6. CASE StopXray /\ UNCHANGED <<installed, faults>>
        BY <2>6 DEF StopXray, XrayStopped, Goto, Actors, ControlInv, TypeOK, UndoingDown,
                    PathInv, EnablePath, DisablePath, EnableOps, DisableOps, Trying,
                    Alone, Disabling, Disabled, UpPcs, DownPcs
    <2>7. CASE DisableNow /\ UNCHANGED <<installed, faults>>
        BY <2>7 DEF DisableNow, Removed, kernel, Goto, Actors, ControlInv, TypeOK,
                    UndoingDown, PathInv, EnablePath, DisablePath, EnableOps, DisableOps,
                    Trying, Alone, Disabling, Disabled, UpPcs, DownPcs
    <2>8. CASE ServiceStop /\ UNCHANGED <<installed, faults>>
        BY <2>8 DEF ServiceStop, StopUnit, kernel, Goto, Actors, ControlInv, TypeOK,
                    UndoingDown, PathInv, EnablePath, DisablePath, EnableOps, DisableOps,
                    Trying, Alone, Disabling, Disabled, UpPcs, DownPcs
    <2>9. CASE ServiceStopped /\ UNCHANGED <<installed, faults>>
        BY <2>9 DEF ServiceStopped, Removed, kernel, Goto, Actors, ControlInv, TypeOK,
                    UndoingDown, PathInv, EnablePath, DisablePath, EnableOps, DisableOps,
                    Trying, Alone, Disabling, Disabled, UpPcs, DownPcs
    <2>10. CASE ServiceDisable /\ UNCHANGED <<installed, faults>>
        BY <2>10 DEF ServiceDisable, kernel, Goto, Actors, ControlInv, TypeOK,
                     UndoingDown, PathInv, EnablePath, DisablePath, EnableOps, DisableOps,
                     Trying, Alone, Disabling, Disabled, UpPcs, DownPcs
    <2>11. CASE Return /\ UNCHANGED <<installed, faults>>
        BY <2>11 DEF Return, kernel, Goto, Actors, ControlInv, TypeOK, UndoingDown,
                     PathInv, EnablePath, DisablePath, EnableOps, DisableOps, Trying,
                     Alone, Disabling, Disabled, UpPcs, DownPcs
    <2>12. CASE RemoveFiles /\ UNCHANGED faults
        BY <2>12 DEF RemoveFiles, kernel, Goto, Actors, ControlInv, TypeOK, UndoingDown,
                     PathInv, EnablePath, DisablePath, EnableOps, DisableOps, Trying,
                     Alone, Disabling, Disabled, UpPcs, DownPcs
    <2> QED
        BY <1>2, <2>1, <2>2, <2>3, <2>4, <2>5, <2>6, <2>7, <2>8, <2>9, <2>10, <2>11, <2>12 DEF
               Command
<1>3. CASE XrayActions
    <2>1. /\ UNCHANGED <<op, undoing>>
          /\ \/ pc'["cli"] = pc["cli"]
             \/ pc["cli"] = "waitXray" /\ pc'["cli"] \in {"succeeded", XrayFailed}
        BY <1>3, XrayActionStep DEF XrayStep, ControlInv, TypeOK, Actors
    <2>2. op \in EnableOps => XrayFailed = "stopFailed"
        BY DEF XrayFailed, EnableOps
    <2>3. op \in DisableOps => XrayFailed = "failed"
        BY DEF XrayFailed, DisableOps
    <2>4. EnablePath'
        BY <2>1, <2>2 DEF PathInv, EnablePath, Trying, Alone, DownPcs
    <2>5. DisablePath'
        BY <2>1, <2>3 DEF PathInv, DisablePath, Disabled
    <2> QED
        BY <2>4, <2>5 DEF PathInv
<1>4. CASE BeginStep
    BY <1>4 DEF BeginStep, Begin, FirstCall, Operations, Installs, Goto, ControlInv,
                TypeOK, UndoingDown, Actors, PathInv, EnablePath, DisablePath, EnableOps,
                DisableOps, Trying, Alone, Disabling, Disabled, UpPcs, DownPcs
<1>5. CASE Crash \/ Reboot \/ UNCHANGED vars
    BY <1>5 DEF Crash, Reboot, vars, PathInv, EnablePath, DisablePath, EnableOps,
                DisableOps, Trying, Alone, Disabling, Disabled, UpPcs, DownPcs
<1> QED
    BY <1>1, <1>2, <1>3, <1>4, <1>5, StepCases
--------------------------------------------------------------------------------
(* An active policy that is complete.                                      *)

\* Every reachable state has the types: the process of the unit runs exactly while
\* systemd starts or stops it, and no route goes through an interface that is gone.
THEOREM TypesHold == Spec => []TypeOK
<1>1. ControlInv => TypeOK
    BY DEF ControlInv
<1> QED
    BY <1>1, InitControl, ControlStep, PTL DEF Spec

\* What no routine changes, no step but a reboot changes.
LEMMA PolicyKept ==
    ASSUME [Next]_vars, ~\E a \in Actors : Routine(a), ~Reboot
    PROVE  UNCHANGED <<table, rule, fallback>>
<1>1. Command => UNCHANGED <<table, rule, fallback>>
    BY DEF Command, ServiceEnable, ServiceStart, ServiceStarted, NextAfterUnit,
           CommandFailed, Undo, RestartXray, StartXray, XrayFailed, StopXray, DisableNow,
           ServiceStop, StopUnit, ServiceStopped, ServiceDisable, Return, RemoveFiles,
           kernel
<1>2. XrayActions => UNCHANGED <<table, rule, fallback>>
    BY XrayActionStep DEF XrayStep
<1>3. BeginStep \/ Crash \/ UNCHANGED vars => UNCHANGED <<table, rule, fallback>>
    BY DEF BeginStep, Begin, Crash, kernel, vars
<1> QED
    BY <1>1, <1>2, <1>3, StepCases

\* While the unit is active and no command is in a routine, a complete policy stays
\* complete whatever xray.service, its interface and the commands do.
THEOREM CompleteStays == Spec => ActiveStaysComplete
<1>1. ControlInv /\ [Next]_vars => (Steady /\ Complete /\ Steady' => Complete')
    <2> SUFFICES ASSUME ControlInv, [Next]_vars, Steady, Complete, Steady'
                 PROVE  Complete'
        OBVIOUS
    <2>1. ASSUME NEW a \in Actors PROVE ~Routine(a)
        <3>1. pc["unit"] \notin UpPcs \cup DownPcs
            BY DEF Steady, ControlInv, TypeOK, UpPcs, DownPcs
        <3> QED
            BY <3>1, RoutineAt DEF Steady, Actors
    <2>2. UNCHANGED <<table, rule, fallback>>
        BY <2>1, PolicyKept DEF Steady, Reboot
    <2> QED
        BY <2>2 DEF Complete
<1>2. ControlInv /\ [Next]_vars => [Steady /\ Complete /\ Steady' => Complete']_vars
    BY <1>1
<1> QED
    BY <1>2, InitControl, ControlStep, PTL DEF Spec, ActiveStaysComplete
--------------------------------------------------------------------------------
(* What a `tun enable` that succeeds has built.                            *)

\* Being past a call is lost only by entering a routine.
LEMMA PastKept ==
    ASSUME ControlInv, PathInv, NEW labels, Enabling \subseteq labels,
           labels \subseteq Enabling \cup (UpPcs \ {"fwClear"}),
           \/ Command \/ XrayStep \/ BeginStep \/ Crash \/ Reboot \/ UNCHANGED vars,
           BothPast(labels)'
    PROVE  BothPast(labels)
<1>1. CASE Command
    <2>1. CASE ServiceStart
        <3>1. pc["cli"] = "svcStart" /\ UNCHANGED op
            BY <2>1 DEF ServiceStart
        <3>2. (unit = "active" \/ pc["unit"] \in labels)' => unit = "active" \/ pc["unit"] \in labels
            BY <2>1 DEF ServiceStart, Goto, Enabling, UpPcs, ControlInv, TypeOK, Actors
        <3> QED
            BY <3>1, <3>2 DEF BothPast, Enabling
    <2>2. CASE ServiceStop
        <3>1. pc'["cli"] \in {"waitStop", "waitFailed"}
            BY <2>2 DEF ServiceStop, StopUnit, Goto, ControlInv, TypeOK, Actors
        <3> QED
            BY <3>1 DEF BothPast, Enabling, UpPcs
    <2>3. CASE ~(ServiceStart \/ ServiceStop)
        <3>1. unit' = unit /\ pc'["unit"] = pc["unit"] /\ op' \in {op, "none"}
            BY <1>1, <2>3, CommandAlone DEF ControlInv, TypeOK, Actors
        <3>2. op = "enable"
            BY <3>1 DEF BothPast
        <3>3. pc["cli"] \in Enabling \cup {"waitFailed", "failed"}
            BY <1>1, <2>3, <3>2 DEF Command, ServiceEnable, ServiceStarted, CommandFailed,
                                    Undo, RestartXray, StartXray, StopXray, DisableNow,
                                    ServiceStopped, ServiceDisable, Return, RemoveFiles,
                                    Enabling, PathInv, EnablePath, EnableOps, Trying,
                                    Alone, UpPcs, DownPcs
        <3>4. pc["cli"] = "waitFailed" => pc'["cli"] = "un4"
            BY <1>1, <2>3 DEF Command, ServiceEnable, ServiceStarted, CommandFailed, Undo,
                              RestartXray, StartXray, StopXray, DisableNow,
                              ServiceStopped, ServiceDisable, Return, RemoveFiles, Goto,
                              ControlInv, TypeOK, Actors
        <3>5. pc["cli"] = "failed" => pc'["cli"] = "idle"
            BY <1>1, <2>3 DEF Command, ServiceEnable, ServiceStarted, CommandFailed, Undo,
                              RestartXray, StartXray, StopXray, DisableNow,
                              ServiceStopped, ServiceDisable, Return, RemoveFiles, Goto,
                              ControlInv, TypeOK, Actors
        <3> QED
            BY <3>1, <3>2, <3>3, <3>4, <3>5 DEF BothPast, Enabling, UpPcs
    <2> QED
        BY <2>1, <2>2, <2>3
<1>2. CASE XrayStep
    BY <1>2 DEF XrayStep, XrayFailed, BothPast, Enabling, UpPcs, ControlInv, TypeOK, Actors
<1>3. CASE BeginStep
    BY <1>3 DEF BeginStep, Begin, FirstCall, Goto, BothPast, Enabling, UpPcs, ControlInv,
                TypeOK, Actors
<1>4. CASE Crash \/ Reboot \/ UNCHANGED vars
    BY <1>4 DEF Crash, Reboot, vars, BothPast
<1> QED
    BY <1>1, <1>2, <1>3, <1>4

\* A call of a routine adds what its actor is then past, and takes away only what its actor
\* is not past.
LEMMA RoutineBuilt ==
    ASSUME ControlInv, Built, NEW a \in Actors, Routine(a)
    PROVE  Built'
<1>1. CASE FirewallClear(a)
    BY <1>1, RoutineAt DEF FirewallClear, UpFailed, Goto, Actors, Families, UpPcs,
                           DownPcs, Built, BothPast, PastTable, PastRule, PastFallback,
                           Enabling, ControlInv, TypeOK
<1>2. CASE FirewallLoad(a)
    BY <1>2, RoutineAt DEF FirewallLoad, Goto, Actors, Families, UpPcs, DownPcs, Built,
                           BothPast, PastTable, PastRule, PastFallback, Enabling,
                           ControlInv, TypeOK
<1>3. CASE FirewallUndo(a)
    BY <1>3, RoutineAt DEF FirewallUndo, UpFailed, Removed, Goto, Actors, Families, UpPcs,
                           DownPcs, Built, BothPast, PastTable, PastRule, PastFallback,
                           Enabling, ControlInv, TypeOK
<1>4. CASE FirewallDown(a)
    <2>1. \/ a = "unit" /\ unit' = "inactive" /\ pc' = [pc EXCEPT !["unit"] = "idle"]
          \/ a = "cli" /\ \E l \in {"failed", "startXray", "rmFiles", "svcDisable"} :
                              pc' = [pc EXCEPT !["cli"] = l]
        BY <1>4 DEF FirewallDown, DownEnded, UpFailed, Goto, Actors
    <2>2. ASSUME NEW labels,
                 labels \cap {"idle", "failed", "startXray", "rmFiles", "svcDisable"} = {}
          PROVE  ~BothPast(labels)'
        BY <2>1, <2>2 DEF BothPast, ControlInv, TypeOK, Actors
    <2>3. ~BothPast(PastTable)'
        BY <2>2 DEF PastTable, Enabling
    <2>4. ASSUME NEW f \in Families
          PROVE  ~BothPast(PastRule[f])' /\ ~BothPast(PastFallback[f])'
        <3>1. PastRule[f] \cap {"idle", "failed", "startXray", "rmFiles", "svcDisable"} = {}
            BY DEF PastRule, Enabling
        <3>2. PastFallback[f] \cap {"idle", "failed", "startXray", "rmFiles", "svcDisable"} = {}
            BY DEF PastFallback, Enabling
        <3> QED
            BY <2>2, <3>1, <3>2
    <2> QED
        BY <2>3, <2>4 DEF Built
<1>5. ASSUME NEW f \in Families, RemoveRule(a, f) PROVE Built'
    BY <1>5, RoutineAt DEF RemoveRule, Removed, Rm, Add, Goto, Actors, Families, UpPcs,
                           DownPcs, Built, BothPast, PastTable, PastRule, PastFallback,
                           Enabling, ControlInv, TypeOK
<1>6. ASSUME NEW f \in Families, AddRule(a, f) PROVE Built'
    BY <1>6, RoutineAt DEF AddRule, Undo, Add, Fallback, Goto, Actors, Families, UpPcs,
                           DownPcs, Built, BothPast, PastTable, PastRule, PastFallback,
                           Enabling, ControlInv, TypeOK
<1>7. ASSUME NEW f \in Families, ReplaceFallback(a, f) PROVE Built'
    BY <1>7, RoutineAt DEF ReplaceFallback, UpSucceeded, Undo, Fallback, Goto, Actors,
                           Families, UpPcs, DownPcs, Built, BothPast, PastTable, PastRule,
                           PastFallback, Enabling, ControlInv, TypeOK
<1>8. ASSUME NEW f \in Families, UnRule(a, f) PROVE Built'
    BY <1>8, RoutineAt DEF UnRule, Removed, Un, Goto, Actors, Families, UpPcs, DownPcs,
                           Built, BothPast, PastTable, PastRule, PastFallback, Enabling,
                           ControlInv, TypeOK
<1>9. ASSUME NEW f \in Families, FlushTable(a, f) PROVE Built'
    BY <1>9, RoutineAt DEF FlushTable, Flush, Goto, Actors, Families, UpPcs, DownPcs,
                           Built, BothPast, PastTable, PastRule, PastFallback, Enabling,
                           ControlInv, TypeOK
<1> QED
    BY <1>1, <1>2, <1>3, <1>4, <1>5, <1>6, <1>7, <1>8, <1>9 DEF Routine

\* Every step keeps what is built.
LEMMA BuiltStep == ControlInv /\ PathInv /\ Built /\ [Next]_vars => Built'
<1> SUFFICES ASSUME ControlInv, PathInv, Built, [Next]_vars, ~\E a \in Actors : Routine(a)
             PROVE  Built'
    BY RoutineBuilt
<1> USE DEF PastTable, PastRule, PastFallback, Families
<1>1. ASSUME NEW labels, Enabling \subseteq labels,
             labels \subseteq Enabling \cup (UpPcs \ {"fwClear"}), BothPast(labels)'
      PROVE  BothPast(labels) /\ UNCHANGED <<table, rule, fallback>>
    <2>1. BothPast(labels)
        BY <1>1, PastKept, StepCases, XrayActionStep
    <2>2. ~Reboot
        BY <1>1 DEF BothPast, Reboot
    <2>3. UNCHANGED <<table, rule, fallback>>
        BY <2>2, PolicyKept
    <2> QED
        BY <2>1, <2>3
<1>2. ASSUME NEW f \in Families
      PROVE  /\ PastRule[f] \subseteq Enabling \cup (UpPcs \ {"fwClear"})
             /\ PastFallback[f] \subseteq Enabling \cup (UpPcs \ {"fwClear"})
             /\ Enabling \subseteq PastRule[f] /\ Enabling \subseteq PastFallback[f]
    BY <1>2 DEF UpPcs
<1>3. PastTable \subseteq Enabling \cup (UpPcs \ {"fwClear"}) /\ Enabling \subseteq PastTable
    BY DEF UpPcs
<1>4. BothPast(PastTable)' => table'
    BY <1>1, <1>3 DEF Built
<1>5. ASSUME NEW f \in Families
      PROVE  /\ BothPast(PastRule[f])' => rule'[f]
             /\ BothPast(PastFallback[f])' => fallback'[f]
    BY <1>1, <1>2, <1>5 DEF Built
<1> QED
    BY <1>4, <1>5 DEF Built

\* Every step keeps the unit as the command has left it.
LEMMA UnitStartedStep ==
    ControlInv /\ PathInv /\ UnitStarted /\ [Next]_vars => UnitStarted'
<1> SUFFICES ASSUME ControlInv, PathInv, UnitStarted, [Next]_vars PROVE UnitStarted'
    OBVIOUS
<1>1. ASSUME NEW a \in Actors, Routine(a) PROVE UnitStarted'
    <2>1. pc[a] # "idle" /\ UNCHANGED <<op, enabled>>
        BY <1>1, RoutineAt DEF UpPcs, DownPcs
    <2>2. CASE a = "cli"
        <3>1. pc'["cli"] \in UpPcs \cup DownPcs \cup RoutineEnds
            BY <1>1, <2>2, RoutineNext DEF ControlInv, TypeOK, Actors
        <3> QED
            BY <3>1 DEF UnitStarted, Enabling, UpPcs, DownPcs, RoutineEnds
    <2>3. CASE a = "unit"
        <3>1. pc'["cli"] = pc["cli"] /\ unit # "active"
            BY <1>1, <2>1, <2>3, RoutineNext DEF ControlInv, TypeOK, Actors
        <3> QED
            BY <2>1, <3>1 DEF UnitStarted
    <2> QED
        BY <2>2, <2>3 DEF Actors
<1>2. CASE Command
    <2>1. CASE ServiceEnable /\ UNCHANGED <<installed, faults>>
        BY <2>1 DEF ServiceEnable, CommandFailed, Undo, kernel, Goto, Actors, ControlInv,
                    TypeOK, UnitStarted, Enabling, PathInv, EnablePath, EnableOps, Trying,
                    Alone, UpPcs, DownPcs
    <2>2. CASE ServiceStart /\ UNCHANGED <<installed, faults>>
        BY <2>2 DEF ServiceStart, NextAfterUnit, Installs, kernel, Goto, Actors,
                    ControlInv, TypeOK, UnitStarted, Enabling, PathInv, EnablePath,
                    EnableOps, Trying, Alone, UpPcs, DownPcs
    <2>3. CASE ServiceStarted /\ UNCHANGED <<installed, faults>>
        BY <2>3 DEF ServiceStarted, NextAfterUnit, Installs, CommandFailed, Undo, kernel,
                    Goto, Actors, ControlInv, TypeOK, UnitStarted, Enabling, PathInv,
                    EnablePath, EnableOps, Trying, Alone, UpPcs, DownPcs
    <2>4. CASE RestartXray /\ UNCHANGED <<installed, faults>>
        BY <2>4 DEF RestartXray, XrayStopped, XrayFailed, Goto, Actors, ControlInv,
                    TypeOK, UnitStarted, Enabling, PathInv, EnablePath, EnableOps, Trying,
                    Alone, UpPcs, DownPcs
    <2>5. CASE StartXray /\ UNCHANGED <<installed, faults>>
        BY <2>5 DEF StartXray, XrayFailed, kernel, Goto, Actors, ControlInv, TypeOK,
                    UnitStarted, Enabling, PathInv, EnablePath, EnableOps, Trying, Alone,
                    UpPcs, DownPcs
    <2>6. CASE StopXray /\ UNCHANGED <<installed, faults>>
        BY <2>6 DEF StopXray, XrayStopped, Goto, Actors, ControlInv, TypeOK, UnitStarted,
                    Enabling, PathInv, EnablePath, EnableOps, Trying, Alone, UpPcs,
                    DownPcs
    <2>7. CASE DisableNow /\ UNCHANGED <<installed, faults>>
        BY <2>7 DEF DisableNow, Removed, kernel, Goto, Actors, ControlInv, TypeOK,
                    UnitStarted, Enabling, PathInv, EnablePath, EnableOps, Trying, Alone,
                    UpPcs, DownPcs
    <2>8. CASE ServiceStop /\ UNCHANGED <<installed, faults>>
        BY <2>8 DEF ServiceStop, StopUnit, kernel, Goto, Actors, ControlInv, TypeOK,
                    UnitStarted, Enabling, PathInv, EnablePath, EnableOps, Trying, Alone,
                    UpPcs, DownPcs
    <2>9. CASE ServiceStopped /\ UNCHANGED <<installed, faults>>
        BY <2>9 DEF ServiceStopped, Removed, kernel, Goto, Actors, ControlInv, TypeOK,
                    UnitStarted, Enabling, PathInv, EnablePath, EnableOps, Trying, Alone,
                    UpPcs, DownPcs
    <2>10. CASE ServiceDisable /\ UNCHANGED <<installed, faults>>
        BY <2>10 DEF ServiceDisable, kernel, Goto, Actors, ControlInv, TypeOK,
                     UnitStarted, Enabling, PathInv, EnablePath, EnableOps, Trying, Alone,
                     UpPcs, DownPcs
    <2>11. CASE Return /\ UNCHANGED <<installed, faults>>
        BY <2>11 DEF Return, kernel, Goto, Actors, ControlInv, TypeOK, UnitStarted,
                     Enabling, PathInv, EnablePath, EnableOps, Trying, Alone, UpPcs,
                     DownPcs
    <2>12. CASE RemoveFiles /\ UNCHANGED faults
        BY <2>12 DEF RemoveFiles, kernel, Goto, Actors, ControlInv, TypeOK, UnitStarted,
                     Enabling, PathInv, EnablePath, EnableOps, Trying, Alone, UpPcs,
                     DownPcs
    <2> QED
        BY <1>2, <2>1, <2>2, <2>3, <2>4, <2>5, <2>6, <2>7, <2>8, <2>9, <2>10, <2>11, <2>12 DEF
               Command
<1>3. CASE XrayStep
    BY <1>3 DEF XrayStep, XrayFailed, ControlInv, TypeOK, Actors, UnitStarted, Enabling
<1>4. CASE BeginStep
    BY <1>4 DEF BeginStep, Begin, FirstCall, Goto, ControlInv, TypeOK, Actors, UnitStarted, Enabling
<1>5. CASE Crash \/ Reboot \/ UNCHANGED vars
    BY <1>5 DEF Crash, Reboot, vars, UnitStarted
<1> QED
    BY <1>1, <1>2, <1>3, <1>4, <1>5, StepCases, XrayActionStep

\* Every step keeps the routes that are attached, while the command waits for xray or ends.
LEMMA RoutesStep ==
    ControlInv /\ PathInv /\ UnitStarted /\ RoutesAttached /\ [Next]_vars => RoutesAttached'
<1> SUFFICES ASSUME ControlInv, PathInv, UnitStarted, RoutesAttached, [Next]_vars,
                    op' = "enable", pc'["cli"] \in {"waitXray", "succeeded"}
             PROVE  RoutesAttached'
    BY DEF RoutesAttached
<1>1. ASSUME NEW a \in Actors, Routine(a) PROVE FALSE
    <2>1. pc[a] # "idle" /\ pc[a] \in UpPcs \cup DownPcs /\ op = "enable"
        BY <1>1, RoutineAt DEF UpPcs, DownPcs
    <2>2. CASE a = "cli"
        <3>1. pc'["cli"] \in UpPcs \cup DownPcs \cup RoutineEnds
            BY <1>1, <2>2, RoutineNext DEF ControlInv, TypeOK, Actors
        <3> QED
            BY <3>1 DEF UpPcs, DownPcs, RoutineEnds
    <2>3. CASE a = "unit"
        <3>1. pc'["cli"] = pc["cli"] /\ unit # "active"
            BY <1>1, <2>1, <2>3, RoutineNext DEF ControlInv, TypeOK, Actors
        <3> QED
            BY <2>1, <3>1 DEF UnitStarted
    <2> QED
        BY <2>2, <2>3 DEF Actors
<1>2. CASE Command
    <2>1. CASE RestartXray
        BY <2>1 DEF RestartXray, XrayFailed, Goto, RoutesAttached, ControlInv, TypeOK, Actors
    <2>2. CASE ~RestartXray
        <3>1. op = "enable"
            BY <1>2, CommandAlone DEF ServiceStart, ServiceStop, StopUnit
        <3>2. FALSE
            BY <1>2, <2>2, <3>1 DEF Command, ServiceEnable, ServiceStart, ServiceStarted,
                                    NextAfterUnit, CommandFailed, Undo, StartXray,
                                    XrayFailed, StopXray, DisableNow, ServiceStop,
                                    StopUnit, ServiceStopped, ServiceDisable, Return,
                                    RemoveFiles, Goto, Installs, ControlInv, TypeOK,
                                    Actors, PathInv, EnablePath, EnableOps, Trying, Alone,
                                    UpPcs, DownPcs
        <3> QED
            BY <3>2
    <2> QED
        BY <2>1, <2>2
<1>3. CASE XrayActions
    <2>1. CASE AttachFails \/ Detach \/ AttachSkipped \/ XrayExits \/ XrayStarts
        BY <2>1 DEF AttachFails, Detach, AttachSkipped, XrayExits, XrayStarts, RoutesAttached
    <2>2. op = "enable" /\ pc["cli"] \in {"waitXray", "succeeded"}
        BY <1>3, XrayActionStep DEF XrayStep, XrayFailed, ControlInv, TypeOK, Actors
    <2>3. CASE XrayOpensTun
        BY <2>2, <2>3 DEF XrayOpensTun, RoutesAttached
    <2>4. ASSUME NEW f \in Families, Attach(f) PROVE RoutesAttached'
        BY <2>2, <2>4 DEF Attach, RoutesAttached, Attached, Families, ControlInv, TypeOK
    <2> QED
        BY <1>3, <2>1, <2>3, <2>4 DEF XrayActions
<1>4. CASE BeginStep
    BY <1>4 DEF BeginStep, Begin, FirstCall, Goto, ControlInv, TypeOK, Actors
<1>5. CASE Crash \/ Reboot \/ UNCHANGED vars
    BY <1>5 DEF Crash, Reboot, vars, RoutesAttached
<1> QED
    BY <1>1, <1>2, <1>3, <1>4, <1>5, StepCases

\* A `tun enable` that succeeds has built the whole policy, whatever calls failed before,
\* whatever a command that died has left, and although the unit may have built at the
\* same time.
THEOREM EnableBuilds == Spec => []EnableBuildsPolicy
<1>1. Init => ControlInv /\ PathInv /\ BuildInv
    BY InitControl, InitPath DEF Init, BuildInv, Built, BothPast, UnitStarted, RoutesAttached
<1>2. ControlInv /\ PathInv /\ BuildInv /\ [Next]_vars => (ControlInv /\ PathInv /\ BuildInv)'
    BY ControlStep, PathStep, BuiltStep, UnitStartedStep, RoutesStep DEF BuildInv
<1>3. ControlInv /\ PathInv /\ BuildInv => EnableBuildsPolicy
    <2> SUFFICES ASSUME ControlInv, BuildInv, pc["cli"] = "succeeded", op = "enable"
                 PROVE  /\ unit = "active" /\ enabled
                        /\ \A f \in Families : Route(f) # "direct"
                        /\ xray = "up" => \A f \in Attached : Route(f) = "tun"
        BY DEF EnableBuildsPolicy
    <2>1. unit = "active" /\ enabled
        BY DEF BuildInv, UnitStarted, Enabling
    <2>2. table /\ \A f \in Families : rule[f] /\ fallback[f]
        BY <2>1 DEF BuildInv, Built, BothPast, PastTable, PastRule, PastFallback, Enabling, Families
    <2>3. xray = "up" => \A f \in Attached : tunRoute[f]
        BY DEF BuildInv, RoutesAttached
    <2> QED
        BY <2>1, <2>2, <2>3 DEF Route, Attached, Families
<1> QED
    BY <1>1, <1>2, <1>3, PTL DEF Spec
--------------------------------------------------------------------------------
(* What takes the policy down has removed all of it.                       *)

\* While the command removes the policy and after it, the unit is inactive; the
\* routine of the unit ends with that.
LEMMA RemoveRoutine ==
    ASSUME ControlInv, PathInv, RemoveInv, NEW a \in Actors, Routine(a)
    PROVE  RemoveInv'
<1> SUFFICES ASSUME ~RemoveFails, op \in DisableOps PROVE RemoveInv'
    BY RoutineAt DEF RemoveInv, RemoveFails
<1>1. /\ pc[a] \in UpPcs \cup DownPcs
      /\ UNCHANGED <<enabled, op, faults>>
    BY RoutineAt
<1>2. CASE a = "unit"
    <2>1. unit # "inactive" /\ pc'["cli"] = pc["cli"]
        BY <1>1, <1>2, RoutineNext DEF ControlInv, TypeOK, Actors, UpPcs, DownPcs
    <2>2. pc["cli"] \notin DownPcs \cup Disabled
        BY <2>1 DEF RemoveInv
    <2>3. pc["cli"] = "waitStop" => unit' \in {"inactive", "deactivating"}
        <3>1. pc["cli"] = "waitStop" => unit = "deactivating" /\ pc["unit"] \in DownPcs
            BY <2>1 DEF RemoveInv, ControlInv, StoppingDown
        <3>2. FirewallDown(a) => unit' = "inactive"
            BY <1>2 DEF FirewallDown, DownEnded, UpFailed
        <3>3. pc["unit"] \in DownPcs /\ ~FirewallDown(a) => unit' = unit
            BY <1>2 DEF FirewallClear, FirewallLoad, FirewallUndo, FirewallDown,
                        RemoveRule, AddRule, ReplaceFallback, UnRule, FlushTable, Routine,
                        Rm, Add, Fallback, Families, DownPcs
        <3> QED
            BY <3>1, <3>2, <3>3
    <2> QED
        BY <1>1, <2>1, <2>2, <2>3 DEF RemoveInv, RemovedSoFar, DownPcs
<1>3. CASE a = "cli"
    <2>1. pc["cli"] \in DownPcs /\ ~undoing["cli"]
        BY <1>1, <1>3 DEF PathInv, DisablePath, Disabling, Disabled, UpPcs, DownPcs
    <2>2. unit' = unit /\ unit = "inactive"
        BY <1>3, <2>1, RoutineNext DEF RemoveInv
    <2>3. FirewallDown(a) \/ \E f \in Families : UnRule(a, f) \/ FlushTable(a, f)
        BY <1>3, <2>1 DEF Routine, FirewallClear, FirewallLoad, FirewallUndo, RemoveRule,
                          AddRule, ReplaceFallback, Rm, Add, Fallback, DownPcs
    <2>4. /\ pc'["cli"] \in DownPcs \cup {"svcDisable", "startXray", "rmFiles", "failed"}
          /\ pc'["cli"] = "startXray" => op = "install off"
          /\ pc'["cli"] = "rmFiles" => op = "remove"
        BY <1>3, <2>1, <2>3 DEF FirewallDown, DownEnded, UnRule, FlushTable, Goto,
                                ControlInv, TypeOK, Actors, DownPcs
    <2>5. RemovedSoFar(Disabled)
        BY DEF RemoveInv
    <2>6. RemovedSoFar(Disabled)'
        <3>1. CASE FirewallDown(a)
            BY <1>3, <2>1, <2>5, <3>1 DEF FirewallDown, DownEnded, Goto, ControlInv,
                   TypeOK, Actors, RemovedSoFar, Disabled, RemoveFails
        <3>2. ASSUME NEW f \in Families, UnRule(a, f) PROVE RemovedSoFar(Disabled)'
            BY <1>3, <2>5, <3>2 DEF UnRule, Removed, Un, Goto, ControlInv, TypeOK, Actors,
                                    Families, RemovedSoFar, Disabled
        <3>3. ASSUME NEW f \in Families, FlushTable(a, f) PROVE RemovedSoFar(Disabled)'
            BY <1>3, <2>5, <3>3 DEF FlushTable, Flush, Goto, ControlInv, TypeOK, Actors,
                                    Families, RemovedSoFar, Disabled
        <3> QED
            BY <2>3, <3>1, <3>2, <3>3
    <2> QED
        BY <1>1, <2>1, <2>2, <2>4, <2>6 DEF RemoveInv, Disabling, Disabled, DownPcs
<1> QED
    BY <1>2, <1>3 DEF Actors

\* Every step keeps what is removed.
LEMMA RemoveStep == ControlInv /\ PathInv /\ RemoveInv /\ [Next]_vars => RemoveInv'
<1> SUFFICES ASSUME ControlInv, PathInv, RemoveInv, [Next]_vars PROVE RemoveInv'
    OBVIOUS
<1>1. ASSUME NEW a \in Actors, Routine(a) PROVE RemoveInv'
    BY <1>1, RemoveRoutine
<1>2. CASE Command
    <2>1. CASE ServiceEnable /\ UNCHANGED <<installed, faults>>
        BY <2>1 DEF ServiceEnable, CommandFailed, Undo, kernel, Goto, Actors, ControlInv,
                    TypeOK, PathInv, DisablePath, RemoveInv, RemovedSoFar, DisableOps,
                    Disabling, Disabled, UpPcs, DownPcs, RemoveFails
    <2>2. CASE ServiceStart /\ UNCHANGED <<installed, faults>>
        BY <2>2 DEF ServiceStart, NextAfterUnit, Installs, kernel, Goto, Actors,
                    ControlInv, TypeOK, PathInv, DisablePath, RemoveInv, RemovedSoFar,
                    DisableOps, Disabling, Disabled, UpPcs, DownPcs, RemoveFails
    <2>3. CASE ServiceStarted /\ UNCHANGED <<installed, faults>>
        BY <2>3 DEF ServiceStarted, NextAfterUnit, Installs, CommandFailed, Undo, kernel,
                    Goto, Actors, ControlInv, TypeOK, PathInv, DisablePath, RemoveInv,
                    RemovedSoFar, DisableOps, Disabling, Disabled, UpPcs, DownPcs,
                    RemoveFails
    <2>4. CASE RestartXray /\ UNCHANGED <<installed, faults>>
        BY <2>4 DEF RestartXray, XrayStopped, XrayFailed, Goto, Actors, ControlInv,
                    TypeOK, PathInv, DisablePath, RemoveInv, RemovedSoFar, DisableOps,
                    Disabling, Disabled, UpPcs, DownPcs, RemoveFails
    <2>5. CASE StartXray /\ UNCHANGED <<installed, faults>>
        BY <2>5 DEF StartXray, XrayFailed, kernel, Goto, Actors, ControlInv, TypeOK,
                    PathInv, DisablePath, RemoveInv, RemovedSoFar, DisableOps, Disabling,
                    Disabled, UpPcs, DownPcs, RemoveFails
    <2>6. CASE StopXray /\ UNCHANGED <<installed, faults>>
        BY <2>6 DEF StopXray, XrayStopped, Goto, Actors, ControlInv, TypeOK, PathInv,
                    DisablePath, RemoveInv, RemovedSoFar, DisableOps, Disabling, Disabled,
                    UpPcs, DownPcs, RemoveFails
    <2>7. CASE DisableNow /\ UNCHANGED <<installed, faults>>
        BY <2>7 DEF DisableNow, Removed, kernel, Goto, Actors, ControlInv, TypeOK,
                    PathInv, DisablePath, RemoveInv, RemovedSoFar, DisableOps, Disabling,
                    Disabled, UpPcs, DownPcs, RemoveFails
    <2>8. CASE ServiceStop /\ UNCHANGED <<installed, faults>>
        <3>1. CASE StopUnit("svcStop", "waitStop")
            BY <2>8, <3>1 DEF StopUnit, kernel, Goto, Actors, ControlInv, TypeOK,
                    PathInv, DisablePath, RemoveInv, RemovedSoFar, DisableOps, Disabling,
                    Disabled, UpPcs, DownPcs, RemoveFails
        <3>2. CASE StopUnit("stopFailed", "waitFailed")
            BY <2>8, <3>2 DEF StopUnit, kernel, Goto, Actors, ControlInv, TypeOK,
                    PathInv, DisablePath, RemoveInv, RemovedSoFar, DisableOps, Disabling,
                    Disabled, UpPcs, DownPcs, RemoveFails
        <3> QED
            BY <2>8, <3>1, <3>2 DEF ServiceStop
    <2>9. CASE ServiceStopped /\ UNCHANGED <<installed, faults>>
        BY <2>9 DEF ServiceStopped, Removed, kernel, Goto, Actors, ControlInv, TypeOK,
                    PathInv, DisablePath, RemoveInv, RemovedSoFar, DisableOps, Disabling,
                    Disabled, UpPcs, DownPcs, RemoveFails
    <2>10. CASE ServiceDisable /\ UNCHANGED <<installed, faults>>
        BY <2>10 DEF ServiceDisable, kernel, Goto, Actors, ControlInv, TypeOK, PathInv,
                     DisablePath, RemoveInv, RemovedSoFar, DisableOps, Disabling,
                     Disabled, UpPcs, DownPcs, RemoveFails
    <2>11. CASE Return /\ UNCHANGED <<installed, faults>>
        BY <2>11 DEF Return, kernel, Goto, Actors, ControlInv, TypeOK, PathInv,
                     DisablePath, RemoveInv, RemovedSoFar, DisableOps, Disabling,
                     Disabled, UpPcs, DownPcs, RemoveFails
    <2>12. CASE RemoveFiles /\ UNCHANGED faults
        BY <2>12 DEF RemoveFiles, kernel, Goto, Actors, ControlInv, TypeOK, PathInv,
                     DisablePath, RemoveInv, RemovedSoFar, DisableOps, Disabling,
                     Disabled, UpPcs, DownPcs, RemoveFails
    <2> QED
        BY <1>2, <2>1, <2>2, <2>3, <2>4, <2>5, <2>6, <2>7, <2>8, <2>9, <2>10, <2>11, <2>12 DEF
               Command
<1>3. CASE XrayStep
    BY <1>3 DEF XrayStep, XrayFailed, ControlInv, TypeOK, RemoveInv, RemovedSoFar,
                DisableOps, Disabling, Disabled, UpPcs, DownPcs, RemoveFails
<1>4. CASE BeginStep
    BY <1>4 DEF BeginStep, Begin, FirstCall, Goto, ControlInv, TypeOK, Actors, RemoveInv,
                RemovedSoFar, DisableOps, Disabling, Disabled, UpPcs, DownPcs, RemoveFails
<1>5. CASE Crash \/ Reboot
    BY <1>5 DEF Crash, Reboot, RemoveInv, DisableOps
<1>6. CASE UNCHANGED vars
    BY <1>6 DEF vars, RemoveInv, RemovedSoFar, RemoveFails
<1> QED
    BY <1>1, <1>2, <1>3, <1>4, <1>5, <1>6, StepCases, XrayActionStep

\* What takes the policy down and succeeds has removed everything, also what a command
\* that died or a unit that builds at the boot has left, if no removal whose result is
\* ignored fails; and nothing comes back at the next boot.
THEOREM DisableRemoves == Spec => []DisableRemovesPolicy
<1>1. Init => ControlInv /\ PathInv /\ RemoveInv
    BY InitControl, InitPath DEF Init, RemoveInv, DisableOps
<1>2. ControlInv /\ PathInv /\ RemoveInv /\ [Next]_vars => (ControlInv /\ PathInv /\ RemoveInv)'
    BY ControlStep, PathStep, RemoveStep
<1>3. ControlInv /\ PathInv /\ RemoveInv => DisableRemovesPolicy
    <2> SUFFICES ASSUME ControlInv, RemoveInv, pc["cli"] = "succeeded", op \in DisableOps,
                        ~RemoveFails
                 PROVE  /\ ~table /\ rule = None /\ fallback = None
                        /\ unit = "inactive" /\ ~enabled
        BY DEF DisableRemovesPolicy, DisableOps
    <2>1. ~table /\ ~rule["v4"] /\ ~rule["v6"] /\ ~fallback["v4"] /\ ~fallback["v6"]
        BY DEF RemoveInv, RemovedSoFar, Disabled
    <2>2. unit = "inactive" /\ ~enabled
        BY DEF RemoveInv, Disabled
    <2>3. rule \in [Families -> BOOLEAN] /\ fallback \in [Families -> BOOLEAN]
        BY DEF ControlInv, TypeOK
    <2> QED
        BY <2>1, <2>2, <2>3 DEF None, Families
<1> QED
    BY <1>1, <1>2, <1>3, PTL DEF Spec
--------------------------------------------------------------------------------
(* What a `tun enable` or a first installation that fails has left.        *)

\* While the command builds and undoes, its calls are the only ones.
LEMMA UndoRoutine ==
    ASSUME ControlInv, PathInv, UndoInv, NEW a \in Actors, Routine(a)
    PROVE  UndoInv'
<1> SUFFICES ASSUME ~RemoveFails, ~EarlyCommands PROVE UndoInv'
    BY RoutineAt DEF UndoInv, RemoveFails, EarlyCommands
<1>1. /\ pc[a] \in UpPcs \cup DownPcs
      /\ UNCHANGED <<op, faults>>
    BY RoutineAt
<1>2. CASE a = "unit"
    <2>1. pc["unit"] # "idle" /\ pc'["cli"] = pc["cli"]
        BY <1>1, <1>2, RoutineNext DEF ControlInv, TypeOK, Actors, UpPcs, DownPcs
    <2>2. unit' = "deactivating" => unit = "deactivating"
        BY <1>2 DEF FirewallClear, FirewallLoad, FirewallUndo, FirewallDown, RemoveRule,
                    AddRule, ReplaceFallback, UnRule, FlushTable, Routine, DownEnded,
                    UpFailed, UpSucceeded, Undo
    <2>3. op \in EnableOps =>
              pc["cli"] \notin Alone \cup {"restart", "startXray", "waitXray", "succeeded"}
        BY <2>1 DEF UndoInv
    <2> QED
        BY <1>1, <2>1, <2>2, <2>3 DEF UndoInv, RemovedSoFar, FoundSoFar, Alone, UpPcs, DownPcs
<1>3. CASE a = "cli"
    <2>1. unit' = unit /\ pc["cli"] \in Alone /\ pc'["unit"] = pc["unit"]
        BY <1>1, <1>3, RoutineNext DEF ControlInv, TypeOK, Actors, Alone
    <2>2. unit # "deactivating"
        BY <1>1, <1>3 DEF UndoInv, UpPcs, DownPcs
    <2>3. SUFFICES ASSUME op \in EnableOps
                   PROVE  /\ pc'["cli"] \in Alone
                          /\ FoundSoFar'
                          /\ RemovedSoFar({})'
        BY <1>1, <2>1, <2>2 DEF UndoInv, Alone, UpPcs, DownPcs
    <2>4. pc["cli"] \in DownPcs => undoing["cli"]
        BY <2>3 DEF PathInv, EnablePath
    <2>5. FoundSoFar /\ RemovedSoFar({})
        BY <2>3 DEF UndoInv
    <2>6. CASE FirewallClear(a) \/ FirewallLoad(a) \/ FirewallUndo(a)
        <3>1. pc'["cli"] \in {"fwLoad", "fwUndo", "rm4", "failed"}
            BY <1>3, <2>6 DEF FirewallClear, FirewallLoad, FirewallUndo, UpFailed, Goto,
                              ControlInv, TypeOK, Actors
        <3>2. UNCHANGED <<rule, fallback, found>>
            BY <2>6 DEF FirewallClear, FirewallLoad, FirewallUndo
        <3>3. FoundSoFar'
            <4>1. CASE FirewallClear(a)
                <5>1. policy = found /\ RoutesFound
                    BY <1>3, <2>5, <4>1 DEF FirewallClear, FoundSoFar, policy, RoutesFound
                <5>2. \/ ~table' /\ pc'["cli"] = "fwLoad"
                      \/ UNCHANGED table /\ pc'["cli"] = "failed"
                    BY <1>3, <4>1 DEF FirewallClear, UpFailed, Goto, RemoveFails, ControlInv,
                                      TypeOK, Actors
                <5> QED
                    BY <3>2, <5>1, <5>2 DEF FoundSoFar, policy, RoutesFound
            <4>2. CASE FirewallLoad(a)
                <5>1. ~table /\ RoutesFound
                    BY <1>3, <2>5, <4>2 DEF FirewallLoad, FoundSoFar
                <5>2. \/ pc'["cli"] = "rm4"
                      \/ UNCHANGED table /\ pc'["cli"] = "fwUndo"
                    BY <1>3, <4>2 DEF FirewallLoad, Goto, ControlInv, TypeOK, Actors
                <5> QED
                    BY <3>2, <5>1, <5>2 DEF FoundSoFar, RoutesFound
            <4>3. CASE FirewallUndo(a)
                <5>1. ~table /\ RoutesFound
                    BY <1>3, <2>5, <4>3 DEF FirewallUndo, FoundSoFar
                <5>2. ~table' /\ pc'["cli"] = "failed"
                    BY <1>3, <4>3 DEF FirewallUndo, UpFailed, Goto, Removed, RemoveFails,
                                      ControlInv, TypeOK, Actors
                <5> QED
                    BY <3>2, <5>1, <5>2 DEF FoundSoFar, RoutesFound
            <4> QED
                BY <2>6, <4>1, <4>2, <4>3
        <3> QED
            BY <3>1, <3>3 DEF RemovedSoFar, Alone, UpPcs
    <2>7. CASE FirewallDown(a)
        <3>1. /\ ~rule["v4"] /\ ~rule["v6"] /\ ~fallback["v4"] /\ ~fallback["v6"]
              /\ undoing["cli"] /\ UNCHANGED <<rule, fallback>>
            BY <1>3, <2>4, <2>5, <2>7 DEF FirewallDown, RemovedSoFar, DownPcs
        <3>2. ~HasRoutes'
            BY <3>1 DEF HasRoutes, None, Families, ControlInv, TypeOK
        <3>3. ~table' /\ pc'["cli"] = "failed"
            BY <1>3, <2>7, <3>1 DEF FirewallDown, DownEnded, UpFailed, Goto, RemoveFails, ControlInv,
                                    TypeOK, Actors
        <3> QED
            BY <3>2, <3>3 DEF Alone, RemovedSoFar, FoundSoFar
    <2>8. ASSUME NEW f \in Families, RemoveRule(a, f) \/ AddRule(a, f) \/ ReplaceFallback(a, f)
          PROVE  pc'["cli"] \in (UpPcs \ {"fwClear", "fwLoad", "fwUndo"}) \cup {"un4", "svcEnable"}
        BY <1>3, <2>8 DEF RemoveRule, AddRule, ReplaceFallback, UpSucceeded, Undo, Rm,
                          Add, Fallback, Goto, ControlInv, TypeOK, Actors, UpPcs
    <2>9. ASSUME NEW f \in Families, UnRule(a, f)
          PROVE  pc'["cli"] \in DownPcs /\ RemovedSoFar({})'
        BY <1>3, <2>5, <2>9 DEF UnRule, Un, Removed, Goto, ControlInv, TypeOK, Actors,
                                Families, RemovedSoFar, DownPcs
    <2>10. ASSUME NEW f \in Families, FlushTable(a, f)
           PROVE  pc'["cli"] \in DownPcs /\ RemovedSoFar({})'
        BY <1>3, <2>5, <2>10 DEF FlushTable, Flush, Goto, ControlInv, TypeOK, Actors,
                                 Families, RemovedSoFar, DownPcs
    <2>11. CASE \E f \in Families : RemoveRule(a, f) \/ AddRule(a, f) \/ ReplaceFallback(a, f)
        BY <2>8, <2>11 DEF RemovedSoFar, FoundSoFar, Alone, UpPcs, DownPcs
    <2>12. CASE \E f \in Families : UnRule(a, f) \/ FlushTable(a, f)
        BY <2>9, <2>10, <2>12 DEF FoundSoFar, Alone, DownPcs
    <2> QED
        BY <2>6, <2>7, <2>11, <2>12 DEF Routine
<1> QED
    BY <1>2, <1>3 DEF Actors

\* Every step keeps that.
LEMMA UndoStep == ControlInv /\ PathInv /\ UndoInv /\ [Next]_vars => UndoInv'
<1> SUFFICES ASSUME ControlInv, PathInv, UndoInv, [Next]_vars PROVE UndoInv'
    OBVIOUS
<1>1. ASSUME NEW a \in Actors, Routine(a) PROVE UndoInv'
    BY <1>1, UndoRoutine
<1>2. CASE Command
    <2>1. CASE ServiceEnable /\ UNCHANGED <<installed, faults>>
        BY <2>1 DEF ServiceEnable, CommandFailed, Undo, kernel, Goto, Actors, ControlInv,
                    TypeOK, PathInv, EnablePath, Trying, UndoInv, RemovedSoFar, FoundSoFar, RoutesFound, HasRoutes, policy,
                    EnableOps, Alone, UpPcs, DownPcs, RemoveFails, EarlyCommands
    <2>2. CASE ServiceStart /\ UNCHANGED <<installed, faults>>
        <3>1. /\ pc'["cli"] \in {"waitStart", "startXray", "restart"}
              /\ pc'["cli"] # "waitStart" => pc'["unit"] = "idle"
              /\ unit' # "deactivating"
            BY <2>2 DEF ServiceStart, NextAfterUnit, Goto, ControlInv, TypeOK, Actors
        <3>2. UNCHANGED <<op, faults>>
            BY <2>2 DEF ServiceStart
        <3> QED
            BY <3>1, <3>2 DEF UndoInv, RemovedSoFar, FoundSoFar, Alone, UpPcs, DownPcs, RemoveFails,
                              EarlyCommands
    <2>3. CASE ServiceStarted /\ UNCHANGED <<installed, faults>>
        <3>1. /\ pc["cli"] = "waitStart" /\ unit # "activating"
              /\ UNCHANGED <<table, rule, fallback, op, found, faults>>
            BY <2>3 DEF ServiceStarted, kernel
        <3>2. CASE unit = "active"
            BY <2>3, <3>1, <3>2
            DEF ServiceStarted, NextAfterUnit, Installs, Goto, Actors, ControlInv, TypeOK,
                UndoInv, RemovedSoFar, FoundSoFar, RoutesFound, HasRoutes, policy, EnableOps, Alone, UpPcs, DownPcs,
                RemoveFails, EarlyCommands
        <3>3. CASE unit # "active"
            BY <2>3, <3>1, <3>3
            DEF ServiceStarted, CommandFailed, Undo, Goto, Actors, ControlInv, TypeOK,
                UndoInv, RemovedSoFar, FoundSoFar, RoutesFound, HasRoutes, policy, EnableOps, Alone, UpPcs, DownPcs,
                RemoveFails, EarlyCommands
        <3> QED
            BY <3>2, <3>3
    <2>4. CASE RestartXray /\ UNCHANGED <<installed, faults>>
        BY <2>4 DEF RestartXray, XrayStopped, XrayFailed, Goto, Actors, ControlInv,
                    TypeOK, PathInv, EnablePath, Trying, UndoInv, RemovedSoFar, FoundSoFar, RoutesFound, HasRoutes, policy,
                    EnableOps, Alone, UpPcs, DownPcs, RemoveFails, EarlyCommands
    <2>5. CASE StartXray /\ UNCHANGED <<installed, faults>>
        BY <2>5 DEF StartXray, XrayFailed, kernel, Goto, Actors, ControlInv, TypeOK,
                    PathInv, EnablePath, Trying, UndoInv, RemovedSoFar, FoundSoFar, RoutesFound, HasRoutes, policy,
                    EnableOps, Alone, UpPcs, DownPcs, RemoveFails, EarlyCommands
    <2>6. CASE StopXray /\ UNCHANGED <<installed, faults>>
        BY <2>6 DEF StopXray, XrayStopped, Goto, Actors, ControlInv, TypeOK, PathInv,
                    EnablePath, Trying, UndoInv, RemovedSoFar, FoundSoFar, RoutesFound, HasRoutes, policy, EnableOps,
                    Alone, UpPcs, DownPcs, RemoveFails, EarlyCommands
    <2>7. CASE DisableNow /\ UNCHANGED <<installed, faults>>
        BY <2>7 DEF DisableNow, Removed, kernel, Goto, Actors, ControlInv, TypeOK,
                    PathInv, EnablePath, Trying, UndoInv, RemovedSoFar, FoundSoFar, RoutesFound, HasRoutes, policy,
                    EnableOps, Alone, UpPcs, DownPcs, RemoveFails, EarlyCommands
    <2>8. CASE ServiceStop /\ UNCHANGED <<installed, faults>>
        BY <2>8 DEF ServiceStop, StopUnit, kernel, Goto, Actors, ControlInv, TypeOK,
                    PathInv, EnablePath, Trying, UndoInv, RemovedSoFar, FoundSoFar, RoutesFound, HasRoutes, policy,
                    EnableOps, Alone, UpPcs, DownPcs, RemoveFails, EarlyCommands
    <2>9. CASE ServiceStopped /\ UNCHANGED <<installed, faults>>
        BY <2>9 DEF ServiceStopped, Removed, kernel, Goto, Actors, ControlInv, TypeOK,
                    PathInv, EnablePath, Trying, UndoInv, RemovedSoFar, FoundSoFar, RoutesFound, HasRoutes, policy,
                    EnableOps, Alone, UpPcs, DownPcs, RemoveFails, EarlyCommands
    <2>10. CASE ServiceDisable /\ UNCHANGED <<installed, faults>>
        BY <2>10 DEF ServiceDisable, kernel, Goto, Actors, ControlInv, TypeOK, PathInv,
                     EnablePath, Trying, UndoInv, RemovedSoFar, FoundSoFar, RoutesFound, HasRoutes, policy, EnableOps,
                     Alone, UpPcs, DownPcs, RemoveFails, EarlyCommands
    <2>11. CASE Return /\ UNCHANGED <<installed, faults>>
        BY <2>11 DEF Return, kernel, Goto, Actors, ControlInv, TypeOK, PathInv,
                     EnablePath, Trying, UndoInv, RemovedSoFar, FoundSoFar, RoutesFound, HasRoutes, policy, EnableOps,
                     Alone, UpPcs, DownPcs, RemoveFails, EarlyCommands
    <2>12. CASE RemoveFiles /\ UNCHANGED faults
        BY <2>12 DEF RemoveFiles, kernel, Goto, Actors, ControlInv, TypeOK, PathInv,
                     EnablePath, Trying, UndoInv, RemovedSoFar, FoundSoFar, RoutesFound, HasRoutes, policy, EnableOps,
                     Alone, UpPcs, DownPcs, RemoveFails, EarlyCommands
    <2> QED
        BY <1>2, <2>1, <2>2, <2>3, <2>4, <2>5, <2>6, <2>7, <2>8, <2>9, <2>10, <2>11, <2>12 DEF
               Command
<1>3. CASE XrayStep
    BY <1>3 DEF XrayStep, XrayFailed, ControlInv, TypeOK, Actors, UndoInv, RemovedSoFar, FoundSoFar,
                RoutesFound, HasRoutes, policy, EnableOps, Alone, UpPcs, DownPcs, RemoveFails, EarlyCommands
<1>4. CASE BeginStep
    BY <1>4 DEF BeginStep, Begin, FirstCall, Operations, Installs, Goto, kernel,
                ControlInv, TypeOK, Actors, UndoInv, RemovedSoFar, FoundSoFar, RoutesFound, HasRoutes, policy, EnableOps,
                Alone, UpPcs, DownPcs, RemoveFails, EarlyCommands
<1>5. CASE Crash \/ Reboot
    BY <1>5 DEF Crash, Reboot, Goto, UndoInv, EnableOps, ControlInv, TypeOK, Actors
<1>6. CASE UNCHANGED vars
    BY <1>6 DEF vars, UndoInv, RemovedSoFar, FoundSoFar, RoutesFound, HasRoutes, policy, RemoveFails, EarlyCommands
<1> QED
    BY <1>1, <1>2, <1>3, <1>4, <1>5, <1>6, StepCases, XrayActionStep

\* A `tun enable` that fails leaves the table only where it has changed nothing, and rules
\* or fallbacks only as it found them, before it began to replace them; a first
\* installation that fails leaves none of it.  No removal fails, and no unit builds the
\* policy meanwhile.
THEOREM FailedEnableUndoes == Spec => []FailedEnableAddsNothing
<1>1. Init => ControlInv /\ PathInv /\ UndoInv
    BY InitControl, InitPath DEF Init, UndoInv, EnableOps
<1>2. ControlInv /\ PathInv /\ UndoInv /\ [Next]_vars => (ControlInv /\ PathInv /\ UndoInv)'
    BY ControlStep, PathStep, UndoStep
<1>3. UndoInv => FailedEnableAddsNothing
    BY DEF UndoInv, FoundSoFar, RoutesFound, FailedEnableAddsNothing, EnableOps
<1> QED
    BY <1>1, <1>2, <1>3, PTL DEF Spec
================================================================================
