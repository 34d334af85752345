------------------------------- MODULE TunPolicy -------------------------------
(***************************************************************************)
(* Selective TUN routing: `xrayctl tun enable | disable | cleanup`, what   *)
(* `apply`, `install` and `uninstall` do about it, and the units           *)
(* xray-tun-policy.service and xray.service.                               *)
(*                                                                         *)
(* Traffic of the group xray-tun is marked by an nftables table; per       *)
(* address family a rule sends marked packets to a routing table of their  *)
(* own, which holds a fallback (blackhole or unreachable) and, while xray  *)
(* has its interface open, a default route into the tunnel.  The same      *)
(* routines (firewall_up, routes_up, routes_down, firewall_down) run in    *)
(* two processes: the command itself and the policy unit that systemd      *)
(* starts and stops for it.  Every call of nft, ip or systemctl is one     *)
(* step.  `apply` and `install` build the policy when config.toml enables  *)
(* TUN and take it down when it does not; attach and detach do nothing     *)
(* then.  Each of these processes reads config.toml when it starts, and an *)
(* interface may have read it long ago, so what it says is a choice at     *)
(* each reading.                                                           *)
(***************************************************************************)
EXTENDS Integers

CONSTANTS
    Ipv6Enabled,  \* tun.ipv6_enabled
    FaultSets     \* the combinations of faults that a behaviour may have

\* "add": a call that adds something, or prepares it, may fail; "remove": one that removes
\* something, or asks whether it is there;
\* "crash": the command may die between two calls; "boot": a command may begin
\* while systemd still starts the policy unit.
Faults == {"add", "remove", "crash", "boot"}

ASSUME TunAssumption ==
    /\ Ipv6Enabled \in BOOLEAN
    /\ FaultSets \subseteq SUBSET Faults

VARIABLES
    \* the kernel
    table,     \* table inet xray_manager exists: the group's packets are marked
    rule,      \* per family, the rule `fwmark M lookup T`
    fallback,  \* per family, the blackhole or unreachable default in T
    tunRoute,  \* per family, the default route in T through the interface
    iface,     \* the TUN interface exists
    \* systemd
    unit,      \* xray-tun-policy.service
    enabled,   \* the policy unit is started at boot
    xray,      \* xray.service
    installed, \* the files of the two units are there
    \* the command and the process of the policy unit
    pc,
    undoing,   \* the routine that removes the policy undoes a failure
    op,        \* what the command does
    found,     \* history: the policy that `tun enable` found, until routes_up replaces it
    faults     \* the faults of this behaviour, chosen at the start

kernel == <<table, rule, fallback, tunRoute, iface>>
vars == <<table, rule, fallback, tunRoute, iface, unit, enabled, xray, installed,
          pc, undoing, op, found, faults>>

AddFails == "add" \in faults
RemoveFails == "remove" \in faults
Crashes == "crash" \in faults
EarlyCommands == "boot" \in faults

Families == {"v4", "v6"}
Actors == {"cli", "unit"}
Attached == IF Ipv6Enabled THEN Families ELSE {"v4"}

\* The calls of firewall_up and routes_up, and of routes_down and firewall_down.
UpPcs == {"fwClear", "fwLoad", "fwUndo", "rm4", "add4", "fb4", "rm6", "add6", "fb6"}
DownPcs == {"un4", "un6", "flush4", "flush6", "fwDown"}
CliPcs == {"svcEnable", "svcStart", "waitStart", "restart", "startXray", "waitXray",
           "stopFailed", "waitFailed", "stopXray", "disableNow", "svcStop", "waitStop",
           "svcDisable", "rmFiles"}
Pcs == {"idle", "failed", "succeeded"} \cup UpPcs \cup DownPcs \cup CliPcs

\* The next call of a routine, per family.
Rm == [f \in Families |-> IF f = "v4" THEN "rm4" ELSE "rm6"]
Add == [f \in Families |-> IF f = "v4" THEN "add4" ELSE "add6"]
Fallback == [f \in Families |-> IF f = "v4" THEN "fb4" ELSE "fb6"]
Un == [f \in Families |-> IF f = "v4" THEN "un4" ELSE "un6"]
Flush == [f \in Families |-> IF f = "v4" THEN "flush4" ELSE "flush6"]

None == [f \in Families |-> FALSE]

\* The policy as nft and `ip rule` show it, the tunnel's routes apart.
policy == <<table, rule, fallback>>
NoPolicy == <<FALSE, None, None>>

Init ==
    /\ table = FALSE
    /\ rule = None /\ fallback = None /\ tunRoute = None
    /\ unit = "inactive" /\ enabled = FALSE
    /\ xray = "up" /\ iface \in BOOLEAN /\ installed = TRUE
    /\ pc = [a \in Actors |-> "idle"]
    /\ undoing = [a \in Actors |-> FALSE]
    /\ op = "none" /\ found = NoPolicy
    /\ faults \in FaultSets

Goto(a, label) == pc' = [pc EXCEPT ![a] = label]

\* What a removal whose result is ignored may leave.
Removed(before, after) == IF RemoveFails THEN {before, after} ELSE {after}

\* Where a packet of the group goes: the nftables rule, the policy rule, then the
\* metrics 100 and 32767 of the table; a lookup that finds nothing goes on to main.
Route(f) ==
    IF ~table \/ ~rule[f] THEN "direct"
    ELSE IF tunRoute[f] THEN "tun"
    ELSE IF fallback[f] THEN "blocked" ELSE "direct"
--------------------------------------------------------------------------------
(* The end of a routine.  For the unit, systemd's view of it; for the      *)
(* command, its next call.                                                 *)

UpSucceeded(a) ==
    IF a = "unit"
    THEN Goto(a, "idle") /\ unit' = "active"
    ELSE Goto(a, "svcEnable") /\ UNCHANGED unit

UpFailed(a) ==
    IF a = "unit"
    THEN Goto(a, "idle") /\ unit' = "inactive"
    ELSE Goto(a, "failed") /\ UNCHANGED unit

\* PolicyDown, TunDisable: the result of firewall_down counts, except for the installer.
DownEnded(a, ok) ==
    IF undoing[a] THEN UpFailed(a)
    ELSE IF a = "unit" THEN Goto(a, "idle") /\ unit' = "inactive"
    ELSE /\ Goto(a, CASE op = "install off" -> "startXray"
                        [] op = "remove" -> "rmFiles"
                        [] OTHER -> IF ok THEN "svcDisable" ELSE "failed")
         /\ UNCHANGED unit

\* A failure that routes_down and firewall_down undo, their results ignored.
Undo(a) ==
    /\ Goto(a, "un4")
    /\ undoing' = [undoing EXCEPT ![a] = TRUE]
    /\ UNCHANGED unit
--------------------------------------------------------------------------------
(* firewall_up.                                                            *)

\* getent and the file of rules, then firewall_down: an error of any of them ends
\* firewall_up, but a `nft list` that fails is taken for a table that is not there.
FirewallClear(a) ==
    /\ pc[a] = "fwClear"
    /\ \/ table' = FALSE /\ Goto(a, "fwLoad") /\ UNCHANGED unit
       \/ (AddFails \/ RemoveFails) /\ UpFailed(a) /\ UNCHANGED table
       \/ RemoveFails /\ Goto(a, "fwLoad") /\ UNCHANGED <<table, unit>>
    /\ UNCHANGED <<rule, fallback, tunRoute, iface, enabled, xray, undoing, op, found>>

FirewallLoad(a) ==
    /\ pc[a] = "fwLoad"
    /\ \/ table' = TRUE /\ Goto(a, "rm4")
       \/ AddFails /\ Goto(a, "fwUndo") /\ UNCHANGED table
    /\ UNCHANGED <<rule, fallback, tunRoute, iface, unit, enabled, xray, undoing,
                   op, found>>

\* `nft -f` failed: firewall_down, its result ignored.
FirewallUndo(a) ==
    /\ pc[a] = "fwUndo"
    /\ table' \in Removed(table, FALSE)
    /\ UpFailed(a)
    /\ UNCHANGED <<rule, fallback, tunRoute, iface, enabled, xray, undoing, op, found>>
--------------------------------------------------------------------------------
(* routes_up: for each family, remove_rule, `ip rule add` and the fallback. *)

RemoveRule(a, f) ==
    /\ pc[a] = Rm[f]
    /\ rule' \in Removed(rule, [rule EXCEPT ![f] = FALSE])
    /\ Goto(a, Add[f])
    /\ found' = IF a = "cli" THEN NoPolicy ELSE found
    /\ UNCHANGED <<table, fallback, tunRoute, iface, unit, enabled, xray, undoing, op>>

\* Mutation: an `ip rule add` that fails is taken for success.
AddRuleUnchecked(a, f) ==
    /\ pc[a] = Add[f]
    /\ \/ rule' = [rule EXCEPT ![f] = TRUE]
       \/ AddFails /\ UNCHANGED rule
    /\ Goto(a, Fallback[f])
    /\ UNCHANGED <<table, fallback, tunRoute, iface, unit, enabled, xray, undoing,
                   op, found>>

\* The kernel refuses a rule that exists already.
AddRule(a, f) ==
    /\ pc[a] = Add[f]
    /\ \/ /\ ~rule[f]
          /\ rule' = [rule EXCEPT ![f] = TRUE]
          /\ Goto(a, Fallback[f])
          /\ UNCHANGED <<unit, undoing>>
       \/ /\ AddFails \/ rule[f]
          /\ Undo(a)
          /\ UNCHANGED rule
    /\ UNCHANGED <<table, fallback, tunRoute, iface, enabled, xray, op, found>>

ReplaceFallback(a, f) ==
    /\ pc[a] = Fallback[f]
    /\ \/ /\ fallback' = [fallback EXCEPT ![f] = TRUE]
          /\ IF f = "v4" THEN Goto(a, "rm6") /\ UNCHANGED unit ELSE UpSucceeded(a)
          /\ UNCHANGED undoing
       \/ AddFails /\ Undo(a) /\ UNCHANGED fallback
    /\ UNCHANGED <<table, rule, tunRoute, iface, enabled, xray, op, found>>
--------------------------------------------------------------------------------
(* routes_down, whose calls are all best effort, and firewall_down.        *)

UnRule(a, f) ==
    /\ pc[a] = Un[f]
    /\ rule' \in Removed(rule, [rule EXCEPT ![f] = FALSE])
    /\ Goto(a, IF f = "v4" THEN "un6" ELSE "flush4")
    /\ UNCHANGED <<table, fallback, tunRoute, iface, unit, enabled, xray, undoing,
                   op, found>>

\* Mutation: only the IPv4 table is flushed.
FlushTableV4(a, f) ==
    /\ pc[a] = Flush[f]
    /\ IF f = "v4"
       THEN /\ fallback' = [fallback EXCEPT ![f] = FALSE]
            /\ tunRoute' = [tunRoute EXCEPT ![f] = FALSE]
       ELSE UNCHANGED <<fallback, tunRoute>>
    /\ Goto(a, IF f = "v4" THEN "flush6" ELSE "fwDown")
    /\ UNCHANGED <<table, rule, iface, unit, enabled, xray, undoing, op, found>>

FlushTable(a, f) ==
    /\ pc[a] = Flush[f]
    /\ \/ /\ fallback' = [fallback EXCEPT ![f] = FALSE]
          /\ tunRoute' = [tunRoute EXCEPT ![f] = FALSE]
       \/ RemoveFails /\ UNCHANGED <<fallback, tunRoute>>
    /\ Goto(a, IF f = "v4" THEN "flush6" ELSE "fwDown")
    /\ UNCHANGED <<table, rule, iface, unit, enabled, xray, undoing, op, found>>

\* Mutation: the undo of a failed routes_up leaves the firewall alone.
FirewallDownSkipped(a) ==
    /\ pc[a] = "fwDown"
    /\ table' = (undoing[a] /\ table)
    /\ DownEnded(a, TRUE)
    /\ undoing' = [undoing EXCEPT ![a] = FALSE]
    /\ UNCHANGED <<rule, fallback, tunRoute, iface, enabled, xray, op, found>>

\* A `nft delete` that fails is an error, a `nft list` that fails is not.
FirewallDown(a) ==
    /\ pc[a] = "fwDown"
    /\ \/ table' = FALSE /\ DownEnded(a, TRUE)
       \/ RemoveFails /\ (\E ok \in BOOLEAN : DownEnded(a, ok)) /\ UNCHANGED table
    /\ undoing' = [undoing EXCEPT ![a] = FALSE]
    /\ UNCHANGED <<rule, fallback, tunRoute, iface, enabled, xray, op, found>>
--------------------------------------------------------------------------------
(* The commands.  They hold manager.lock, so there is one at a time.       *)

Installs == {"install", "first", "install off"}

Begin(operation, label) ==
    /\ pc["cli"] = "idle" /\ (installed \/ operation \in Installs)
    /\ EarlyCommands \/ pc["unit"] = "idle"
    /\ op' = operation
    /\ found' = IF operation = "enable" THEN policy ELSE NoPolicy
    /\ Goto("cli", label)
    /\ UNCHANGED <<kernel, unit, enabled, xray, undoing>>

\* Operation::TunEnable, up to the end of policy_routing.enable.
TunEnable == Begin("enable", "fwClear")

\* Operation::TunDisable and TunCleanup.
TunDisable == Begin("disable", "svcStop")

\* The part of apply_config's activation that concerns the policy unit: with TUN enabled
\* it is started, otherwise the policy is taken down as `tun disable` does it.
ApplyConfig == Begin("apply", "svcEnable")
ApplyWithoutTun == Begin("clear", "svcStop")

\* activate_install, from daemon-reload on, when the unit files have been written: with
\* TUN enabled and a core from before, without such a core, and with TUN disabled.
Install ==
    /\ \/ Begin("install", "svcEnable") \/ Begin("first", "svcEnable")
       \/ Begin("install off", "disableNow")
    /\ installed' = TRUE

\* apply_removal.
Remove == Begin("remove", "stopXray")

\* A failure after the policy is up: TunEnable takes it down again, apply_config goes
\* on with its own rollback.  The installer stops the unit and takes the policy down if
\* there was no core before (with TUN disabled it has just done so), and otherwise
\* restarts xray, as XrayExits and XrayStarts may do at any time.
CommandFailed ==
    IF op = "enable" THEN Undo("cli")
    ELSE Goto("cli", IF op = "first" THEN "stopFailed" ELSE "failed")
         /\ UNCHANGED <<undoing, unit>>

XrayFailed == IF op \in {"enable", "first"} THEN "stopFailed" ELSE "failed"

ServiceEnable ==
    /\ pc["cli"] = "svcEnable"
    /\ \/ enabled' = TRUE /\ Goto("cli", "svcStart") /\ UNCHANGED <<undoing, unit>>
       \/ AddFails /\ CommandFailed /\ UNCHANGED enabled
    /\ UNCHANGED <<kernel, xray, op, found>>

NextAfterUnit == IF op \in Installs THEN "startXray" ELSE "restart"

\* `systemctl start` of the policy unit: a unit that is active is not run again, one
\* that is being stopped is started when that is done.
ServiceStart ==
    /\ pc["cli"] = "svcStart" /\ unit # "deactivating"
    /\ IF unit = "active"
       THEN Goto("cli", NextAfterUnit) /\ UNCHANGED unit
       ELSE /\ unit' = "activating"
            /\ pc' = [pc EXCEPT !["cli"] = "waitStart",
                                !["unit"] = IF unit = "activating" THEN @ ELSE "fwClear"]
    /\ UNCHANGED <<kernel, enabled, xray, undoing, op, found>>

\* systemctl returns when the job has ended.
ServiceStarted ==
    /\ pc["cli"] = "waitStart" /\ unit # "activating"
    /\ IF unit = "active" THEN Goto("cli", NextAfterUnit) /\ UNCHANGED <<undoing, unit>>
                          ELSE CommandFailed
    /\ UNCHANGED <<kernel, enabled, xray, op, found>>

\* The interface goes with the process, and the kernel drops the routes through it.
XrayStopped == iface' = FALSE /\ tunRoute' = None

\* apply_config enables the service first.
RestartXray ==
    /\ pc["cli"] = "restart"
    /\ \/ XrayStopped /\ xray' = "starting" /\ Goto("cli", "waitXray")
       \/ /\ AddFails
          /\ Goto("cli", XrayFailed)
          /\ UNCHANGED <<iface, tunRoute, xray>>
    /\ UNCHANGED <<table, rule, fallback, unit, enabled, undoing, op, found>>

\* `enable --now` starts xray.service, when it has stopped, and does not restart one that
\* runs.  A stop that is under way has nothing left for detach to delete.
StartXray ==
    /\ pc["cli"] = "startXray"
    /\ \/ /\ xray' = IF xray \in {"down", "stopping"} THEN "starting" ELSE xray
          /\ Goto("cli", IF xray \in {"up", "plain"} THEN "succeeded" ELSE "waitXray")
       \/ AddFails /\ Goto("cli", XrayFailed) /\ UNCHANGED xray
    /\ UNCHANGED <<kernel, unit, enabled, undoing, op, found>>

\* apply_removal: both units are stopped and disabled, all results ignored.  When
\* systemctl returns, detach has run.
StopXray ==
    /\ pc["cli"] = "stopXray"
    /\ \/ XrayStopped /\ xray' = "down"
       \/ RemoveFails /\ UNCHANGED <<iface, tunRoute, xray>>
    /\ Goto("cli", "svcStop")
    /\ UNCHANGED <<table, rule, fallback, unit, enabled, undoing, op, found>>

\* The installer with TUN disabled: `disable --now`, its result ignored, then as above.
DisableNow ==
    /\ pc["cli"] = "disableNow"
    /\ enabled' \in Removed(enabled, FALSE)
    /\ Goto("cli", "svcStop")
    /\ UNCHANGED <<kernel, unit, xray, undoing, op, found>>

\* `systemctl stop` of the policy unit, its result ignored.  A start that is under
\* way (of a command that died) is ended without ExecStop.
StopUnit(label, next) ==
    /\ pc["cli"] = label
    /\ \/ /\ unit = "active"
          /\ unit' = "deactivating"
          /\ pc' = [pc EXCEPT !["cli"] = next, !["unit"] = "un4"]
       \/ /\ unit = "activating"
          /\ unit' = "inactive"
          /\ pc' = [pc EXCEPT !["cli"] = next, !["unit"] = "idle"]
       \/ /\ unit \in {"inactive", "deactivating"} \/ RemoveFails
          /\ Goto("cli", next)
          /\ UNCHANGED unit
    /\ undoing' = IF unit' = "inactive" THEN [undoing EXCEPT !["unit"] = FALSE]
                                        ELSE undoing
    /\ UNCHANGED <<kernel, enabled, xray, op, found>>

ServiceStop == StopUnit("svcStop", "waitStop") \/ StopUnit("stopFailed", "waitFailed")

\* ... then policy_routing.disable and firewall.disable, to undo a failure or not; the
\* removal disables the unit in between.
ServiceStopped ==
    /\ pc["cli"] \in {"waitStop", "waitFailed"} /\ pc["unit"] = "idle"
    /\ Goto("cli", "un4")
    /\ undoing' = [undoing EXCEPT !["cli"] = pc["cli"] = "waitFailed"]
    /\ enabled' \in IF op = "remove" THEN Removed(enabled, FALSE) ELSE {enabled}
    /\ UNCHANGED <<kernel, unit, xray, op, found>>

ServiceDisable ==
    /\ pc["cli"] = "svcDisable"
    /\ \/ enabled' = FALSE /\ Goto("cli", IF op = "clear" THEN "restart" ELSE "succeeded")
       \/ RemoveFails /\ Goto("cli", "failed") /\ UNCHANGED enabled
    /\ UNCHANGED <<kernel, unit, xray, undoing, op, found>>

\* The files of the units go one by one, that of xray.service first.
RemoveFiles ==
    /\ pc["cli"] = "rmFiles"
    /\ \/ installed' = FALSE /\ (Goto("cli", "succeeded") \/ Goto("cli", "failed"))
       \/ RemoveFails /\ Goto("cli", "failed") /\ UNCHANGED installed
    /\ UNCHANGED <<kernel, unit, enabled, xray, undoing, op, found>>

Return ==
    /\ pc["cli"] \in {"failed", "succeeded"}
    /\ Goto("cli", "idle")
    /\ op' = "none" /\ found' = NoPolicy
    /\ UNCHANGED <<kernel, unit, enabled, xray, undoing>>

\* The command is killed; a unit that systemd is starting or stopping goes on.
Crash ==
    /\ Crashes /\ pc["cli"] # "idle"
    /\ Goto("cli", "idle")
    /\ undoing' = [undoing EXCEPT !["cli"] = FALSE]
    /\ op' = "none" /\ found' = NoPolicy
    /\ UNCHANGED <<kernel, unit, enabled, xray>>
--------------------------------------------------------------------------------
(* xray.service: ExecStartPost is `tun-attach`, ExecStopPost `tun-detach`. *)

\* The job of a command ends with the service; all but `tun enable` go on with a
\* healthcheck, which may fail.
JobEnds(ok) ==
    IF pc["cli"] # "waitXray" THEN UNCHANGED pc
    ELSE \/ ok /\ Goto("cli", "succeeded")
         \/ (~ok \/ op # "enable") /\ Goto("cli", XrayFailed)

XrayOpensTun ==
    /\ xray \in {"starting", "attach6", "up", "plain"} /\ ~iface
    /\ iface' = TRUE
    /\ UNCHANGED <<table, rule, fallback, tunRoute, unit, enabled, xray, pc, undoing,
                   op, found>>

\* Mutation: attach does not wait for the interface.
AttachUnwaited(f) ==
    /\ xray = IF f = "v4" THEN "starting" ELSE "attach6"
    /\ tunRoute' = [tunRoute EXCEPT ![f] = TRUE]
    /\ IF f = "v4" /\ Ipv6Enabled
       THEN xray' = "attach6" /\ UNCHANGED pc
       ELSE xray' = "up" /\ JobEnds(TRUE)
    /\ UNCHANGED <<table, rule, fallback, iface, unit, enabled, undoing, op, found>>

\* attach: the interface has appeared; one `ip route replace` per family.
Attach(f) ==
    /\ xray = IF f = "v4" THEN "starting" ELSE "attach6"
    /\ iface
    /\ tunRoute' = [tunRoute EXCEPT ![f] = TRUE]
    /\ IF f = "v4" /\ Ipv6Enabled
       THEN xray' = "attach6" /\ UNCHANGED pc
       ELSE xray' = "up" /\ JobEnds(TRUE)
    /\ UNCHANGED <<table, rule, fallback, iface, unit, enabled, undoing, op, found>>

\* Mutation: attach polls for the interface without a deadline.
AttachPollsForever ==
    /\ xray \in {"starting", "attach6"}
    /\ iface /\ AddFails
    /\ XrayStopped
    /\ xray' = "stopping"
    /\ JobEnds(FALSE)
    /\ UNCHANGED <<table, rule, fallback, unit, enabled, undoing, op, found>>

\* The interface has not appeared after 10 seconds, or `ip route` failed: the unit
\* fails and systemd ends the process.
AttachFails ==
    /\ xray \in {"starting", "attach6"}
    /\ ~iface \/ AddFails
    /\ XrayStopped
    /\ xray' = "stopping"
    /\ JobEnds(FALSE)
    /\ UNCHANGED <<table, rule, fallback, unit, enabled, undoing, op, found>>

\* TUN is disabled: attach does nothing.
AttachSkipped ==
    /\ xray = "starting"
    /\ xray' = "plain" /\ JobEnds(TRUE)
    /\ UNCHANGED <<kernel, unit, enabled, undoing, op, found>>

\* The process ends, by itself or because `systemctl` stops it.
XrayExits ==
    /\ xray \in {"starting", "attach6", "up", "plain"}
    /\ XrayStopped
    /\ xray' = "stopping"
    /\ JobEnds(FALSE)
    /\ UNCHANGED <<table, rule, fallback, unit, enabled, undoing, op, found>>

\* Mutation: detach flushes the table, and the fallback with it.
DetachFlushes ==
    /\ xray = "stopping"
    /\ tunRoute' = None /\ fallback' = None
    /\ xray' = "down"
    /\ UNCHANGED <<table, rule, iface, unit, enabled, pc, undoing, op, found>>

\* detach: `ip route del default dev`, which spares the fallback, or nothing with TUN
\* disabled.
Detach ==
    /\ xray = "stopping"
    /\ tunRoute' \in {tunRoute, [f \in Families |-> tunRoute[f] /\ f \notin Attached]}
    /\ xray' = "down"
    /\ UNCHANGED <<table, rule, fallback, iface, unit, enabled, pc, undoing, op, found>>

\* systemd starts it again, After=xray-tun-policy.service.
XrayStarts ==
    /\ xray = "down" /\ unit # "activating" /\ installed
    /\ xray' = "starting"
    /\ UNCHANGED <<kernel, unit, enabled, pc, undoing, op, found>>

\* The kernel forgets everything; systemd starts the policy unit if it is enabled.
Reboot ==
    /\ table' = FALSE /\ iface' = FALSE
    /\ rule' = None /\ fallback' = None /\ tunRoute' = None
    /\ xray' = "down"
    /\ unit' = IF enabled /\ installed THEN "activating" ELSE "inactive"
    /\ pc' = [a \in Actors |-> IF a = "unit" /\ unit' = "activating" THEN "fwClear" ELSE "idle"]
    /\ undoing' = [a \in Actors |-> FALSE]
    /\ op' = "none" /\ found' = NoPolicy
    /\ UNCHANGED enabled
--------------------------------------------------------------------------------
\* A call of the routine that the actor runs.
Routine(a) ==
    /\ \/ FirewallClear(a) \/ FirewallLoad(a) \/ FirewallUndo(a) \/ FirewallDown(a)
       \/ \E f \in Families :
            \/ RemoveRule(a, f) \/ AddRule(a, f) \/ ReplaceFallback(a, f)
            \/ UnRule(a, f) \/ FlushTable(a, f)
    /\ UNCHANGED <<installed, faults>>

\* The command goes on.
Command ==
    /\ \/ /\ \/ ServiceEnable \/ ServiceStart \/ ServiceStarted \/ RestartXray \/ StartXray
             \/ StopXray \/ DisableNow \/ ServiceStop \/ ServiceStopped \/ ServiceDisable
             \/ Return
          /\ UNCHANGED installed
       \/ RemoveFiles
    /\ UNCHANGED faults

XrayService ==
    /\ \/ AttachFails \/ Detach
       \/ \E f \in Families : Attach(f)
    /\ UNCHANGED <<installed, faults>>

\* What nothing makes happen: commands, xray, what config.toml says, and the machine.
Events ==
    /\ \/ /\ \/ TunEnable \/ TunDisable \/ ApplyConfig \/ ApplyWithoutTun \/ Remove \/ Crash
             \/ XrayOpensTun \/ AttachSkipped \/ XrayExits \/ XrayStarts \/ Reboot
          /\ UNCHANGED installed
       \/ Install
    /\ UNCHANGED faults

Next == Command \/ XrayService \/ Events \/ \E a \in Actors : Routine(a)

Spec == Init /\ [][Next]_vars

\* Every call returns (nft, ip and systemctl are not interrupted), and systemd runs
\* the jobs it has accepted.  xray need not open its interface, and is not obliged
\* to stay up.
FairSpec ==
    /\ Spec
    /\ \A a \in Actors : WF_vars(Routine(a))
    /\ WF_vars(Command)
    /\ WF_vars(XrayService)
--------------------------------------------------------------------------------
(* Properties.                                                             *)

\* Every variable keeps its type, the unit's process runs exactly while systemd
\* starts or stops the unit, and no route goes through an interface that is gone.
TypeOK ==
    /\ table \in BOOLEAN /\ iface \in BOOLEAN /\ enabled \in BOOLEAN
    /\ {rule, fallback, tunRoute} \subseteq [Families -> BOOLEAN]
    /\ unit \in {"inactive", "activating", "active", "deactivating"}
    /\ xray \in {"down", "starting", "attach6", "up", "plain", "stopping"}
    /\ pc \in [Actors -> Pcs]
    /\ pc["unit"] = "idle" <=> unit \in {"inactive", "active"}
    /\ undoing \in [Actors -> BOOLEAN]
    /\ op \in {"none", "enable", "disable", "apply", "clear", "remove"} \cup Installs
    /\ found \in BOOLEAN \X [Families -> BOOLEAN] \X [Families -> BOOLEAN]
    /\ installed \in BOOLEAN /\ faults \in FaultSets
    /\ (\E f \in Families : tunRoute[f]) => iface

Closed == \A f \in Families : Route(f) # "direct"

\* While the policy unit is active and no command is at work, no packet of the group
\* leaves by the main table, whatever xray.service does meanwhile: the fallback
\* of routes_up (linux/mod.rs) stands behind the tunnel's routes.
ActiveIsClosed == unit = "active" /\ pc["cli"] = "idle" => Closed

\* The unit is active and no command is among its own calls of nft and ip.
Steady == unit = "active" /\ pc["cli"] \notin UpPcs \cup DownPcs

\* The policy is complete: closed whether or not the tunnel has its routes.
Complete == table /\ \A f \in Families : rule[f] /\ fallback[f]

\* An active policy that is complete stays so, although xray starts, attaches its
\* routes, dies or loses its interface at any moment, and commands restart it
\* (linux/mod.rs: detach deletes the route through the device only).
ActiveStaysComplete == [][ (Steady /\ Complete /\ Steady') => Complete' ]_vars

\* A `tun enable` that succeeds has built the whole policy, whatever an earlier
\* command that failed or died left behind: the unit is active and enabled,
\* nothing leaves directly, and what xray has attached goes through the tunnel.
EnableBuildsPolicy ==
    pc["cli"] = "succeeded" /\ op = "enable" =>
        /\ unit = "active" /\ enabled
        /\ \A f \in Families : Route(f) # "direct"
        /\ xray = "up" => \A f \in Attached : Route(f) = "tun"

HasRoutes == rule # None \/ fallback # None

\* A `tun enable` that fails leaves the table only where it has changed nothing at all
\* (getent or the file of rules failed, linux/mod.rs:317-331), and rules or fallbacks
\* only as it found them (nft failed, before routes_up); whatever fails from routes_up on,
\* all of them are gone (application.rs:1774 on).  A first installation that fails leaves
\* no policy (arch.rs:727 on).  No removal may fail, and no unit that starts at boot may
\* build the policy meanwhile.
FailedEnableAddsNothing ==
    pc["cli"] = "failed" /\ op \in {"enable", "first"} /\ ~RemoveFails /\ ~EarlyCommands =>
        /\ table => policy = found
        /\ HasRoutes => (rule = found[2] /\ fallback = found[3])

\* `tun disable`, `tun cleanup`, `uninstall`, and an `apply` or `install` with TUN disabled
\* that succeed have removed everything, also what a command that died has left, and
\* nothing comes back at the next boot, provided that the calls whose results are ignored
\* do what they are meant to.
DisableRemovesPolicy ==
    pc["cli"] = "succeeded" /\ op \in {"disable", "clear", "remove", "install off"} /\ ~RemoveFails =>
        /\ ~table /\ rule = None /\ fallback = None
        /\ unit = "inactive" /\ ~enabled

\* Every command ends, also when the interface never appears: attach gives up after
\* ten seconds.
CommandEnds == pc["cli"] # "idle" ~> pc["cli"] = "idle"
================================================================================
