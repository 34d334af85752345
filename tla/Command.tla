-------------------------------- MODULE Command --------------------------------
(***************************************************************************)
(* One command of xrayctl after the other: `run` in xrayctl/src/main.rs,   *)
(* `compose` in composition.rs, the gates of plan_internal and             *)
(* execute_inner in xray-manager-core/src/application.rs, the production   *)
(* backends of linux/mod.rs, and the replacement of the executable itself, *)
(* upgrade_manager in linux/arch.rs, whose `doctor --quick` is a command   *)
(* of the new executable and so composes in its turn.                      *)
(*                                                                         *)
(* The host changes at any time: programs come and go, systemd stops being *)
(* ready, config.toml is edited.  A command looks at it when it composes   *)
(* and again, at the programs only, when it plans an installation.  What   *)
(* an operation does is the matter of the other modules; here it is one    *)
(* step that succeeds or fails.                                            *)
(***************************************************************************)
EXTENDS Registry

CONSTANTS
    Ops,            \* the operations that are begun
    Builds,         \* releases of xrayctl
    Compiled,       \* per release, the backends compiled in
    Removable,      \* the programs that may come and go
    Watched,        \* the backends whose further check may change its result
    CliChoices,     \* what --backend may say
    ConfigChoices   \* what [platform] of config.toml may say

\* register_production: arch, iproute2, kde6, linux-fhs, linux-gid-mountns,
\* linux-identity, nftables, systemd, xray-linux-tun.
Provides == <<
    {"install", "package_advice"},
    {"policy_routing"},
    {"desktop_proxy"},
    {"layout"},
    {"app_runner", "mount_isolation"},
    {"identity"},
    {"firewall"},
    {"service"},
    {"tun"}>>
Requires == <<
    {"pacman"},
    {"ip"},
    {"dbus-send", "kwriteconfig6", "runuser"},
    {},
    {"curl", "getent", "id", "mount", "unshare"},
    {"chown", "getent", "groupadd", "gpasswd", "id", "useradd", "usermod"},
    {"nft"},
    {"systemctl", "journalctl"},
    {"ip"}>>
Backends == 1..9

\* Distribution, state of systemd, /dev/net/tun.
FurtherChecks == {1, 8, 9}

AllPrograms == UNION {Requires[i] : i \in Backends}

\* What ArchPackageAdvisor looks for; its packages contain just these programs.
Advised == {"chown", "curl", "getent", "gpasswd", "groupadd", "id", "ip", "journalctl",
            "mount", "nft", "systemctl", "unshare", "useradd", "usermod"}

NoChoices == [c \in Capabilities |-> None]
Choices == [Capabilities -> Backends \cup {None}]

ASSUME CommandAssumption ==
    /\ Compiled \in [Builds -> SUBSET Backends] /\ None \notin Builds
    /\ Removable \subseteq AllPrograms /\ Watched \subseteq FurtherChecks
    /\ CliChoices \cup ConfigChoices
           \subseteq [Capabilities -> Backends \cup {None, AutoId}]
    /\ NoChoices \in CliChoices \cap ConfigChoices

Installs == {"install", "repair"}
Removals == {"uninstall", "purge"}
Upgrades == {"upgrade_all", "upgrade_core", "upgrade_assets"}
Applies == {"apply", "node_select", "routing_apply", "routing_preset", "routing_set"}
Rollbacks == {"config_rollback", "core_rollback", "asset_rollback"}
Services == {"service_start", "service_stop", "service_restart"}
Tuns == {"tun_enable", "tun_disable", "tun_cleanup"}
Desktops == {"desktop_proxy_enable", "desktop_proxy_disable"}
Apps == {"app_run", "app_test"}
Files == {"subscription_refresh", "subscription_add", "subscription_remove",
          "subscription_enable", "app_profile_remove", "app_profile_put"}
Operations == Installs \cup Removals \cup Upgrades \cup {"upgrade_manager"} \cup Applies
              \cup Rollbacks \cup Services \cup Tuns \cup Desktops \cup Apps \cup Files

ASSUME OpsAssumption == Ops \subseteq Operations

Policy == {"firewall", "policy_routing", "tun"}

\* required_capabilities: operations and what they require.
RequiredTable == {
    <<Installs, {"install", "package_advice", "identity", "service"} \cup Policy>>,
    <<Upgrades, {"install", "service"}>>,
    <<{"upgrade_manager"}, {"install"}>>,
    <<Applies \cup Rollbacks, {"install", "identity", "service"}>>,
    <<Services, {"service"}>>,
    <<Tuns, Policy \cup {"service"}>>,
    <<Desktops, {"desktop_proxy"}>>,
    <<Apps, {"app_runner", "mount_isolation"}>>}
LookUp(table, op) == UNION {row[2] : row \in {r \in table : op \in r[1]}}

\* plan_internal: with TUN enabled, what applies a configuration needs the policy too;
\* without it, installations do not.
Demanded(op, tun) ==
    IF tun
    THEN LookUp(RequiredTable, op)
         \cup (IF op \in Applies \cup {"config_rollback"} THEN Policy ELSE {})
    ELSE LookUp(RequiredTable, op) \ (IF op \in Installs THEN Policy ELSE {})

\* The ports the code calls while it executes the operation; without TUN, apply_config
\* takes an old policy down.
UsesTable(tun) == {
    <<Installs \cup Removals \cup Upgrades \cup {"upgrade_manager"}, {"install"}>>,
    <<Services \cup Rollbacks, {"service"}>>,
    <<Applies, {"service"} \cup (IF tun THEN {} ELSE {"firewall", "policy_routing"})>>,
    <<Tuns, {"firewall", "policy_routing", "service"}>>,
    <<Desktops, {"desktop_proxy"}>>,
    <<Apps, {"service", "tun", "app_runner"}>>}
Uses(op, tun) == LookUp(UsesTable(tun), op)

VARIABLES
    programs,   \* those on the PATH
    passing,    \* backends whose further check passes
    config,     \* config.toml
    stored,     \* installed_backends of state.json
    exe,        \* /usr/local/bin/xrayctl
    previous,   \* /usr/local/bin/xrayctl.previous
    proven,     \* history: the releases that have run on this host
    pc,
    job         \* the command

host == <<programs, passing, config>>
binaries == <<exe, previous>>
vars == <<programs, passing, config, stored, exe, previous, proven, pc, job>>

Configs == [tun : BOOLEAN, choices : ConfigChoices]
DefaultConfig == [tun |-> TRUE, choices |-> NoChoices]

NoJob == [op |-> "none", tun |-> FALSE,
          picked |-> NoChoices, supported |-> {}, restorable |-> {},
          present |-> {},       \* programs that were there when the plan was made
          hinted |-> {},        \* programs of the packages the refusal names
          old |-> None,         \* the executable before it is replaced, as read
          new |-> None,         \* the executable downloaded
          result |-> "none"]

Init ==
    /\ programs = AllPrograms /\ passing = FurtherChecks
    /\ config \in Configs /\ stored = NoChoices
    /\ exe \in Builds /\ previous = None /\ proven = {exe}
    /\ pc = "idle" /\ job = NoJob

Goto(label) == pc' = label

\* The command returns, and what it has done to the executable is remembered.
Ends(result) ==
    /\ Goto("idle")
    /\ job' = [NoJob EXCEPT !.old = job.old, !.new = job.new, !.result = result]
--------------------------------------------------------------------------------
\* Outside: programs are installed and removed, checks change, config.toml is edited.
HostChanges ==
    /\ \/ /\ \E p \in Removable :
                programs' = IF p \in programs THEN programs \ {p} ELSE programs \cup {p}
          /\ UNCHANGED passing
       \/ /\ \E i \in Watched :
                passing' = IF i \in passing THEN passing \ {i} ELSE passing \cup {i}
          /\ UNCHANGED programs
    /\ UNCHANGED <<config, stored, binaries, proven, pc, job>>

EditConfig ==
    /\ pc = "idle"
    /\ config' \in Configs
    /\ UNCHANGED <<programs, passing, stored, binaries, proven, pc, job>>

\* After a removal the administrator puts an executable in place again.
PlaceExecutable ==
    /\ pc = "idle" /\ exe = None
    /\ \E b \in Builds : exe' = b /\ proven' = proven \cup {b}
    /\ UNCHANGED <<host, stored, previous, pc, job>>

\* LinuxBackendFactory::probe, for each backend compiled in.
Found(build) ==
    [i \in Compiled[build] |->
        [provides |-> Provides[i], contract |-> 1,
         available |-> Requires[i] \subseteq programs /\ (i \in FurtherChecks => i \in passing),
         missing |-> ~(Requires[i] \subseteq programs)]]

PreferencesOf(cli) == [cli |-> cli, config |-> config.choices, installed |-> stored]

\* compose, by the executable in place: from the configuration and state.json to the
\* backends.  It may be refused, and every command with it.
Composes(build, cli) == Resolvable(Found(build), PreferencesOf(cli))

Composed(build, cli, record) ==
    LET found == Found(build)
        prefs == PreferencesOf(cli)
    IN  [record EXCEPT !.tun = config.tun,
                       !.picked = Selections(found, prefs),
                       !.supported = Supported(found, prefs),
                       !.restorable = Restorable(found, prefs)]

Begin ==
    /\ pc = "idle" /\ exe # None
    /\ \E op \in Ops, cli \in CliChoices :
        IF Composes(exe, cli)
        THEN /\ Goto("composed")
             /\ job' = Composed(exe, cli, [NoJob EXCEPT !.op = op])
             /\ proven' = proven \cup {exe}
        ELSE /\ Goto("idle")
             /\ job' = [NoJob EXCEPT !.result = "not composed"]
             /\ UNCHANGED proven
    /\ UNCHANGED <<host, stored, binaries>>

\* Mutation: any operation is let through.
CanRestoreAnywhere(c) == c \notin {"install", "package_advice"} /\ c \in job.restorable

\* bootstrap_can_restore: an installation is planned although programs are missing.
CanRestore(c) ==
    /\ job.op \in Installs /\ c \notin {"install", "package_advice"}
    /\ c \in job.restorable

Unmet == {c \in Demanded(job.op, job.tun) : c \notin job.supported /\ ~CanRestore(c)}

\* --dry-run, effective root, --yes, and whether core.manager_repository is configured.
Options == [dry : BOOLEAN, root : BOOLEAN, yes : BOOLEAN, repository : BOOLEAN]

\* run, execute_inner and plan_internal up to the plan.  The command line asks for root
\* whatever the operation.
Gated(options) ==
    \/ job.op = "upgrade_manager" /\ ~options.repository
    \/ job.op = "tun_enable" /\ ~job.tun
    \/ job.op = "purge" /\ ~options.dry /\ ~options.yes
    \/ ~options.dry /\ (~options.root \/ Unmet # {})

Passes == \E options \in Options : ~options.dry /\ ~Gated(options)

Refuse ==
    /\ pc = "composed" /\ \E options \in Options : Gated(options)
    /\ Ends("refused")
    /\ UNCHANGED <<host, stored, binaries, proven>>

\* add_platform_requirements.
Missing ==
    {p \in Advised \ {"mount", "unshare"} :
        p \notin programs /\ (job.tun \/ p \notin {"ip", "nft"})}

ReturnPlan ==
    /\ pc = "composed" /\ \E options \in Options : options.dry /\ ~Gated(options)
    /\ Ends("plan")
    /\ UNCHANGED <<host, stored, binaries, proven>>

\* Mutation: the refusal names one missing program only.
RequirePackagesOne ==
    /\ pc = "composed" /\ Passes
    /\ job.op \in Installs /\ Missing # {}
    /\ Goto("idle")
    /\ job' = [job EXCEPT !.present = programs, !.hinted = {CHOOSE p \in Missing : TRUE},
                          !.result = "packages missing"]
    /\ UNCHANGED <<host, stored, binaries, proven>>

RequirePackages ==
    /\ pc = "composed" /\ Passes
    /\ job.op \in Installs /\ Missing # {}
    /\ Goto("idle")
    /\ job' = [job EXCEPT !.present = programs, !.hinted = Missing,
                          !.result = "packages missing"]
    /\ UNCHANGED <<host, stored, binaries, proven>>

\* The plan is made and, except by applications, manager.lock taken.
Start ==
    /\ pc = "composed" /\ Passes
    /\ job.op \in Installs => Missing = {}
    /\ \/ Goto(IF job.op = "upgrade_manager" THEN "release" ELSE "executing")
          /\ job' = [job EXCEPT !.present = programs]
       \/ job.op \notin Apps /\ Ends("locked")
    /\ UNCHANGED <<host, stored, binaries, proven>>
--------------------------------------------------------------------------------
\* Mutation: the service is stored with an id that no backend has.
ExecuteInstallWrong ==
    /\ pc = "executing" /\ job.op \in Installs
    /\ \/ stored' = [job.picked EXCEPT !["service"] = 0] /\ (Ends("ok") \/ Ends("failed"))
       \/ UNCHANGED stored /\ Ends("failed")
    /\ UNCHANGED <<host, binaries, proven>>

\* An installation stores the backends it was composed with, when it creates a group
\* and when it activates; a failed one may have come that far.  That it copies the running
\* executable to its place changes nothing here, since it is the one in place.
ExecuteInstall ==
    /\ pc = "executing" /\ job.op \in Installs
    /\ \/ stored' = job.picked /\ (Ends("ok") \/ Ends("failed"))
       \/ UNCHANGED stored /\ Ends("failed")
    /\ UNCHANGED <<host, binaries, proven>>

\* apply_removal, in this order: the two executables and, by `purge`, config.toml and
\* state.json.  What comes before a failure is gone.
ExecuteRemoval ==
    /\ pc = "executing" /\ job.op \in Removals
    /\ \E steps \in 0..(IF job.op = "purge" THEN 4 ELSE 2) :
        /\ exe' = IF steps > 0 THEN None ELSE exe
        /\ previous' = IF steps > 1 THEN None ELSE previous
        /\ config' = IF steps > 2 THEN DefaultConfig ELSE config
        /\ stored' = IF steps > 3 THEN NoChoices ELSE stored
        /\ \/ Ends("failed")
           \/ steps = (IF job.op = "purge" THEN 4 ELSE 2) /\ Ends("ok")
    /\ UNCHANGED <<programs, passing, proven>>

\* Nothing else touches the executables or the stored choice.
Execute ==
    /\ pc = "executing" /\ job.op \notin Installs \cup Removals
    /\ Ends("ok") \/ Ends("failed")
    /\ UNCHANGED <<host, stored, binaries, proven>>
--------------------------------------------------------------------------------
\* upgrade_manager.  Release, asset, limits of the download, ELF header.
Download ==
    /\ pc = "release"
    /\ \/ \E b \in Builds : job' = [job EXCEPT !.new = b] /\ Goto("version")
       \/ Ends("failed")
    /\ UNCHANGED <<host, stored, binaries, proven>>

\* The candidate is written beside the executable, through a handle that stays open, and
\* run with --version: a kernel that does not execute what is open for writing lets no
\* upgrade come further.  --version does not compose.
TestCandidate ==
    /\ pc = "version"
    /\ \/ Goto("backup") /\ UNCHANGED job
       \/ Ends("failed")
    /\ UNCHANGED <<host, stored, binaries, proven>>

\* write_atomic: all of the content or nothing; an error comes before the rename or, of
\* the directory sync, after it.
WriteAtomic(file, content, success) ==
    \/ file' = content /\ success
    \/ file' \in {file, content} /\ Ends("failed")

\* Mutation: what is saved is the candidate.
BackupCandidate ==
    /\ pc = "backup"
    /\ WriteAtomic(previous, job.new,
                   Goto("replace") /\ job' = [job EXCEPT !.old = exe])
    /\ UNCHANGED <<host, stored, exe, proven>>

Backup ==
    /\ pc = "backup"
    /\ WriteAtomic(previous, exe,
                   Goto("replace") /\ job' = [job EXCEPT !.old = exe])
    /\ UNCHANGED <<host, stored, exe, proven>>

Replace ==
    /\ pc = "replace"
    /\ WriteAtomic(exe, job.new, Goto("doctor") /\ UNCHANGED job)
    /\ UNCHANGED <<host, stored, previous, proven>>

\* `doctor --quick` of what is in place now: its checks do not decide on its status, only
\* whether it composes.  If it cannot be run at all, nothing is put back.
Doctor ==
    /\ pc = "doctor"
    /\ \/ /\ Composes(exe, NoChoices)
          /\ proven' = proven \cup {exe} /\ Ends("ok")
       \/ /\ ~Composes(exe, NoChoices)
          /\ Goto("restore") /\ UNCHANGED <<proven, job>>
       \/ Ends("failed") /\ UNCHANGED proven
    /\ UNCHANGED <<host, stored, binaries>>

\* Mutation: what is put back is the new executable.
RestoreNew ==
    /\ pc = "restore"
    /\ WriteAtomic(exe, job.new, Ends("rolled back"))
    /\ UNCHANGED <<host, stored, previous, proven>>

Restore ==
    /\ pc = "restore"
    /\ WriteAtomic(exe, job.old, Ends("rolled back"))
    /\ UNCHANGED <<host, stored, previous, proven>>

Crash ==
    /\ pc # "idle"
    /\ Ends("crashed")
    /\ UNCHANGED <<host, stored, binaries, proven>>

Next ==
    \/ HostChanges \/ EditConfig \/ PlaceExecutable
    \/ Begin \/ Refuse \/ ReturnPlan \/ RequirePackages \/ Start
    \/ ExecuteInstall \/ ExecuteRemoval \/ Execute
    \/ Download \/ TestCandidate \/ Backup \/ Replace \/ Doctor \/ Restore \/ Crash

Spec == Init /\ [][Next]_vars
--------------------------------------------------------------------------------
Executables == Builds \cup {None}

Jobs ==
    [op : Operations \cup {"none"}, tun : BOOLEAN,
     picked : Choices, supported : SUBSET Capabilities, restorable : SUBSET Capabilities,
     present : SUBSET AllPrograms, hinted : SUBSET AllPrograms,
     old : Executables, new : Executables,
     result : {"none", "not composed", "refused", "plan", "packages missing", "locked",
               "ok", "failed", "rolled back", "crashed"}]

Labels == {"idle", "composed", "executing", "release", "version", "backup", "replace",
           "doctor", "restore"}

\* Every variable has a value of its kind.
TypeOK ==
    /\ programs \subseteq AllPrograms /\ passing \subseteq FurtherChecks
    /\ config \in Configs /\ stored \in Choices
    /\ exe \in Executables /\ previous \in Executables /\ proven \subseteq Executables
    /\ pc \in Labels /\ job \in Jobs

\* docs/backends.md: an operation changes nothing before each backend it demands has been
\* probed with success, or, in an installation, the programs it lacked have come.  The
\* probe is as old as the command; programs are looked for again when it plans.
DemandsAreMet ==
    pc = "executing" =>
        \A c \in Demanded(job.op, job.tun) :
            \/ c \in job.supported
            \/ job.op \in Installs /\ Requires[job.picked[c]] \subseteq job.present

\* docs/backends.md, "an exact package-install hint": whoever installs what an installation
\* was refused for lacks no program of any backend it demands.
HintSuffices ==
    job.result = "packages missing" =>
        \A c \in Demanded(job.op, job.tun) \ job.supported :
            Requires[job.picked[c]] \subseteq job.present \cup job.hinted

\* docs/backends.md:35, "Normal operations may use only a backend whose probe succeeded":
\* the ports an operation calls belong to capabilities that were found supported.
UsesAreProbed ==
    pc = "executing" /\ job.op \notin Installs =>
        Uses(job.op, job.tun) \subseteq job.supported

\* Through errors, crashes and further upgrades, one of xrayctl and xrayctl.previous is a
\* release that has run on this host, as long as there is an xrayctl.
WayBack == exe # None => {exe, previous} \cap proven # {}

\* An upgrade that succeeds has put the release in place that it downloaded, and that one
\* composes; one that reports a rollback has put back what was there.
OutcomeTellsExecutable ==
    pc = "idle" /\ job.new # None /\ exe # None =>
        /\ job.result = "ok" => exe = job.new /\ exe \in proven
        /\ job.result = "rolled back" => exe = job.old /\ exe \in proven
================================================================================
