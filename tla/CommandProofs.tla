----------------------------- MODULE CommandProofs -----------------------------
(***************************************************************************)
(* Proofs about Registry, for all backends and preferences, and about      *)
(* Command, for all releases and all backends compiled into them: type     *)
(* correctness, that an executable which has worked stays within reach,    *)
(* that the outcome of an upgrade tells what is in place, that no          *)
(* operation begins with unmet demands, and that the hint is complete.     *)
(***************************************************************************)
EXTENDS Command, TLAPS, WellFoundedInduction

USE ChoiceAssumption

\* A set of ids that is not empty has a first one.
LEMMA LeastExists ==
    ASSUME NEW S \in SUBSET Nat, S # {}
    PROVE  Least(S) \in S /\ \A j \in S : Least(S) <= j
<1>1. \E x \in S : \A y \in S : ~(<<y, x>> \in OpToRel(<, Nat))
    BY NatLessThanWellFounded, WFMin
<1>2. PICK x \in S : \A y \in S : ~(<<y, x>> \in OpToRel(<, Nat))
    BY <1>1
<1>3. ASSUME NEW y \in S, y < x
      PROVE  FALSE
    <2>1. <<y, x>> \in Nat \X Nat /\ <<y, x>>[1] < <<y, x>>[2]
        BY <1>3
    <2>2. <<y, x>> \in OpToRel(<, Nat)
        BY ONLY <2>1 DEF OpToRel
    <2> QED
        BY <1>2, <2>2
<1>4. \A y \in S : x <= y
    BY <1>3
<1> QED
    BY <1>4 DEF Least

\* The answers of the factories and the preferences have their types.
Answers(found) == /\ DOMAIN found \subseteq Nat
                  /\ found \in [DOMAIN found -> Descriptions]

LEMMA ProbedType ==
    ASSUME NEW found, Answers(found)
    PROVE  /\ DOMAIN Probed(found) = DOMAIN found
           /\ Probed(found) \in [DOMAIN found -> Descriptions]
           /\ \A i \in DOMAIN found :
                /\ Probed(found)[i].provides = found[i].provides
                /\ Probed(found)[i].contract = found[i].contract
                /\ Probed(found)[i].available => found[i].contract = 1
    BY DEF Answers, Probed, Descriptions

\* The first source that asks is the one that is heard.
LEMMA ExplicitSourceExists ==
    ASSUME NEW prefs, NEW c, Asking(prefs, c) # {}
    PROVE  /\ ExplicitSource(prefs, c) \in Asking(prefs, c)
           /\ \A t \in Asking(prefs, c) :
                Precedence[ExplicitSource(prefs, c)] <= Precedence[t]
<1>1. Asking(prefs, c) \subseteq {"cli", "config", "installed"}
    BY DEF Asking, Sources
<1>2. \E s \in Asking(prefs, c) : \A t \in Asking(prefs, c) : Precedence[s] <= Precedence[t]
    <2>1. CASE "cli" \in Asking(prefs, c)
        BY <1>1, <2>1 DEF Precedence
    <2>2. CASE "cli" \notin Asking(prefs, c) /\ "config" \in Asking(prefs, c)
        BY <1>1, <2>2 DEF Precedence
    <2>3. CASE "cli" \notin Asking(prefs, c) /\ "config" \notin Asking(prefs, c)
        BY <1>1, <2>3 DEF Precedence
    <2> QED
        BY <2>1, <2>2, <2>3
<1> QED
    BY <1>2 DEF ExplicitSource

\* resolve (registry.rs) never falls back from an explicit choice: if it succeeds, the
\* capability is served by the backend that the first of command line, config.toml and
\* state.json names, and it is supported unless only state.json names it.
THEOREM NoSilentFallback ==
    ASSUME NEW found, Answers(found), NEW prefs \in Preferences,
           Resolvable(found, prefs), NEW c \in Capabilities, Asking(prefs, c) # {}
    PROVE  LET s == ExplicitSource(prefs, c)
           IN  /\ Selections(found, prefs)[c] = prefs[s][c]
               /\ prefs[s][c] \in DOMAIN found /\ c \in found[prefs[s][c]].provides
               /\ \A t \in Asking(prefs, c) : Precedence[s] <= Precedence[t]
               /\ s # "installed" => c \in Supported(found, prefs)
<1> DEFINE s == ExplicitSource(prefs, c)
<1>1. s \in Asking(prefs, c) /\ \A t \in Asking(prefs, c) : Precedence[s] <= Precedence[t]
    BY ExplicitSourceExists
<1>2. Picked(found, prefs, c) = prefs[s][c] /\ Source(prefs, c) = s
    BY DEF Picked, Source
<1>3. ~Refused(found, prefs, c)
    BY DEF Resolvable
<1>4. prefs[s][c] \in DOMAIN found /\ c \in found[prefs[s][c]].provides
    BY <1>2, <1>3 DEF Refused
<1>5. s # "installed" => Probed(found)[prefs[s][c]].available
    BY <1>2, <1>3 DEF Refused
<1>6. prefs[s][c] # None
    BY <1>1 DEF Asking
<1> QED
    BY <1>1, <1>2, <1>4, <1>5, <1>6 DEF Selections, Supported

\* Where nobody asks, resolve (registry.rs) finds a backend whose probe succeeded if
\* there is one, and the first of them.
THEOREM AutomaticFindsAvailable ==
    ASSUME NEW found, Answers(found), NEW prefs \in Preferences,
           NEW c \in Capabilities, Asking(prefs, c) = {},
           NEW i \in DOMAIN found, c \in found[i].provides, Probed(found)[i].available
    PROVE  /\ c \in Supported(found, prefs)
           /\ c \in found[Selections(found, prefs)[c]].provides
           /\ Selections(found, prefs)[c] <= i
<1> DEFINE up == {j \in Providers(Probed(found), c) : Probed(found)[j].available}
<1>1. i \in up /\ up \subseteq DOMAIN found /\ up \subseteq Nat
    BY ProbedType DEF Providers, Answers
<1>2. Least(up) \in up /\ \A j \in up : Least(up) <= j
    BY <1>1, LeastExists
<1>3. Picked(found, prefs, c) = Least(up)
    BY <1>1 DEF Picked, Automatic
<1>4. Least(up) # None /\ Probed(found)[Least(up)].available
      /\ c \in found[Least(up)].provides
    BY <1>1, <1>2, ProbedType DEF Providers
<1> QED
    BY <1>1, <1>2, <1>3, <1>4 DEF Selections, Supported

\* Whatever resolve picks is compiled in and provides the capability, so that
\* instantiate (registry.rs) finds a factory for all of it.
LEMMA PickedProvides ==
    ASSUME NEW found, Answers(found), NEW prefs \in Preferences,
           Resolvable(found, prefs), NEW c \in Capabilities, Picked(found, prefs, c) # None
    PROVE  /\ Picked(found, prefs, c) \in DOMAIN found
           /\ c \in found[Picked(found, prefs, c)].provides
<1>1. CASE Asking(prefs, c) # {}
    BY <1>1 DEF Resolvable, Refused
<1>2. CASE Asking(prefs, c) = {}
    <2> DEFINE up == {j \in Providers(Probed(found), c) : Probed(found)[j].available}
               compiled == {j \in Providers(Probed(found), c) : Probed(found)[j].contract = 1}
    <2>1. /\ up \subseteq Nat /\ compiled \subseteq Nat
          /\ up \subseteq DOMAIN found /\ compiled \subseteq DOMAIN found
          /\ \A j \in up \cup compiled : c \in found[j].provides
        BY ProbedType DEF Providers, Answers
    <2>2. Picked(found, prefs, c) = IF up # {} THEN Least(up)
                                    ELSE IF compiled # {} THEN Least(compiled) ELSE None
        BY <1>2 DEF Picked, Automatic
    <2>3. Picked(found, prefs, c) \in up \cup compiled
        <3>1. CASE up # {}
            BY <2>1, <2>2, <3>1, LeastExists
        <3>2. CASE up = {}
            BY <2>1, <2>2, <3>2, LeastExists
        <3> QED
            BY <3>1, <3>2
    <2> QED
        BY <2>1, <2>3
<1> QED
    BY <1>1, <1>2

THEOREM ResolvedIsInstantiable ==
    ASSUME NEW found, Answers(found), NEW prefs \in Preferences, Resolvable(found, prefs)
    PROVE  Instantiable(found, Selections(found, prefs))
    BY PickedProvides DEF Instantiable, Selections
--------------------------------------------------------------------------------
USE CommandAssumption, OpsAssumption

\* The tables of linux/mod.rs have their types.
LEMMA Tables ==
    /\ \A i \in Backends : Provides[i] \subseteq Capabilities
    /\ \A i \in Backends : Requires[i] \subseteq AllPrograms
<1>1. \A i \in Backends : i \in {1, 2, 3, 4, 5, 6, 7, 8, 9}
    BY DEF Backends
<1>2. \A i \in Backends : Provides[i] \subseteq Capabilities
    BY <1>1 DEF Provides, Capabilities
<1>3. \A i \in Backends : Requires[i] \subseteq AllPrograms
    BY DEF AllPrograms
<1> QED
    BY <1>2, <1>3

LEMMA ChoicesTyped ==
    /\ NoChoices \in Choices /\ NoChoices \in ConfigChoices
    /\ Backends \subseteq Nat
    BY DEF NoChoices, Choices, Backends

LEMMA FoundAnswers ==
    ASSUME NEW build \in Builds
    PROVE  /\ Answers(Found(build))
           /\ DOMAIN Found(build) \subseteq Backends
           /\ \A i \in DOMAIN Found(build) :
                /\ Found(build)[i].provides = Provides[i]
                /\ Found(build)[i].contract = 1
                /\ Found(build)[i].missing = ~(Requires[i] \subseteq programs)
                /\ Found(build)[i].available = (Requires[i] \subseteq programs
                                               /\ (i \in FurtherChecks => i \in passing))
<1>1. Compiled[build] \subseteq Backends
    OBVIOUS
<1>2. DOMAIN Found(build) = Compiled[build]
    BY DEF Found
<1>3. \A i \in Compiled[build] :
        Found(build)[i] =
            [provides |-> Provides[i], contract |-> 1,
             available |-> Requires[i] \subseteq programs
                           /\ (i \in FurtherChecks => i \in passing),
             missing |-> ~(Requires[i] \subseteq programs)]
    BY DEF Found
<1>4. ASSUME NEW i \in Compiled[build]
      PROVE  Found(build)[i] \in Descriptions
    <2> DEFINE up == Requires[i] \subseteq programs
                     /\ (i \in FurtherChecks => i \in passing)
               lacking == ~(Requires[i] \subseteq programs)
    <2>1. up \in BOOLEAN /\ lacking \in BOOLEAN
        OBVIOUS
    <2>2. Found(build)[i] = [provides |-> Provides[i], contract |-> 1,
                             available |-> up, missing |-> lacking]
        BY <1>3
    <2>3. Provides[i] \in SUBSET Capabilities
        BY <1>1, Tables
    <2> HIDE DEF up, lacking
    <2> QED
        BY <2>1, <2>2, <2>3 DEF Descriptions
<1>5. Found(build) \in [DOMAIN Found(build) -> Descriptions]
    BY <1>2, <1>4 DEF Found
<1> QED
    BY <1>1, <1>2, <1>3, <1>5, ChoicesTyped DEF Answers

LEMMA PreferencesTyped ==
    ASSUME config \in Configs, stored \in Choices, NEW cli \in CliChoices
    PROVE  PreferencesOf(cli) \in Preferences
<1>1. cli \in [Capabilities -> Nat \cup {None, AutoId}]
    BY ChoicesTyped
<1>2. config.choices \in [Capabilities -> Nat \cup {None, AutoId}]
    <2>1. config.choices \in ConfigChoices
        BY DEF Configs
    <2>2. ConfigChoices \subseteq [Capabilities -> Nat \cup {None, AutoId}]
        BY ChoicesTyped
    <2> QED
        BY <2>1, <2>2
<1>3. stored \in [Capabilities -> Nat \cup {None, AutoId}]
    BY ChoicesTyped DEF Choices
<1> QED
    BY <1>1, <1>2, <1>3 DEF PreferencesOf, Preferences, Sources

\* What a command is composed with.
LEMMA ComposedTyped ==
    ASSUME TypeOK, NEW build \in Builds, NEW cli \in CliChoices, Composes(build, cli),
           NEW op \in Ops
    PROVE  Composed(build, cli, [NoJob EXCEPT !.op = op]) \in Jobs
<1> DEFINE found == Found(build)
           prefs == PreferencesOf(cli)
<1>1. Answers(found) /\ DOMAIN found \subseteq Backends
    BY FoundAnswers
<1>2. prefs \in Preferences
    BY PreferencesTyped DEF TypeOK
<1>3. Resolvable(found, prefs)
    BY DEF Composes
<1>4. Selections(found, prefs) \in Choices
    <2>1. \A c \in Capabilities : Picked(found, prefs, c) \in Backends \cup {None}
        BY <1>1, <1>2, <1>3, PickedProvides
    <2> QED
        BY <2>1 DEF Selections, Choices
<1>5. Supported(found, prefs) \in SUBSET Capabilities
    BY DEF Supported
<1>6. Restorable(found, prefs) \in SUBSET Capabilities
    BY DEF Restorable
<1>7. [NoJob EXCEPT !.op = op] \in Jobs
    BY ChoicesTyped DEF NoJob, Jobs, Executables
<1>8. config.tun \in BOOLEAN
    BY DEF TypeOK, Configs
<1> HIDE DEF found, prefs
<1> QED
    BY <1>4, <1>5, <1>6, <1>7, <1>8 DEF Composed, found, prefs, Jobs

LEMMA EndsTyped ==
    ASSUME TypeOK, NEW result, Ends(result),
           result \in {"none", "not composed", "refused", "plan", "packages missing",
                       "locked", "ok", "failed", "rolled back", "crashed"}
    PROVE  pc' \in Labels /\ job' \in Jobs
<1>1. NoJob \in Jobs
    BY ChoicesTyped DEF NoJob, Jobs, Executables
<1> QED
    BY <1>1 DEF Ends, Goto, TypeOK, Jobs, Labels

LEMMA TypeInit == Init => TypeOK
<1> SUFFICES ASSUME Init
             PROVE  TypeOK
    OBVIOUS
<1>1. NoJob \in Jobs
    BY ChoicesTyped DEF NoJob, Jobs, Executables
<1> QED
    BY <1>1, ChoicesTyped DEF Init, TypeOK, Executables, Labels

\* One step per action.
LEMMA TypeStep == TypeOK /\ [Next]_vars => TypeOK'
<1> SUFFICES ASSUME TypeOK, [Next]_vars
             PROVE  TypeOK'
    OBVIOUS
<1>0. TypeOK
    OBVIOUS
<1> USE DEF host, binaries
<1>1. CASE HostChanges
    BY <1>1 DEF HostChanges, TypeOK
<1>2. CASE EditConfig
    BY <1>2 DEF EditConfig, TypeOK
<1>3. CASE PlaceExecutable
    BY <1>3 DEF PlaceExecutable, TypeOK, Executables
<1>4. CASE Begin
    <2>1. PICK op \in Ops, cli \in CliChoices :
            IF Composes(exe, cli)
            THEN /\ Goto("composed")
                 /\ job' = Composed(exe, cli, [NoJob EXCEPT !.op = op])
                 /\ proven' = proven \cup {exe}
            ELSE /\ Goto("idle")
                 /\ job' = [NoJob EXCEPT !.result = "not composed"]
                 /\ UNCHANGED proven
        BY <1>4 DEF Begin
    <2>2. exe \in Builds
        BY <1>4 DEF Begin, TypeOK, Executables
    <2>3. job' \in Jobs
        <3>1. CASE Composes(exe, cli)
            BY <1>0, <2>1, <2>2, <3>1, ComposedTyped
        <3>2. CASE ~Composes(exe, cli)
            BY <2>1, <3>2, ChoicesTyped DEF NoJob, Jobs, Executables
        <3> QED
            BY <3>1, <3>2
    <2>4. proven' \subseteq Executables /\ pc' \in Labels
        BY <2>1, <2>2 DEF TypeOK, Goto, Labels, Executables
    <2> QED
        BY <1>4, <2>3, <2>4 DEF Begin, TypeOK
<1>5. CASE Refuse
    BY <1>0, <1>5, EndsTyped DEF Refuse, TypeOK
<1>6. CASE ReturnPlan
    BY <1>0, <1>6, EndsTyped DEF ReturnPlan, TypeOK
<1>7. CASE RequirePackages
    <2>1. Missing \subseteq AllPrograms
        BY DEF Missing, Advised, AllPrograms, Requires, Backends
    <2> QED
        BY <1>7, <2>1 DEF RequirePackages, TypeOK, Goto, Labels, Jobs
<1>8. CASE Start
    <2>1. CASE Ends("locked")
        BY <1>0, <1>8, <2>1, EndsTyped DEF Start, TypeOK
    <2>2. CASE ~Ends("locked")
        BY <1>8, <2>2 DEF Start, TypeOK, Goto, Labels, Jobs
    <2> QED
        BY <2>1, <2>2
<1>9. CASE ExecuteInstall
    <2>1. job.picked \in Choices
        BY DEF TypeOK, Jobs
    <2> QED
        BY <1>0, <1>9, <2>1, EndsTyped DEF ExecuteInstall, TypeOK
<1>10. CASE ExecuteRemoval
    <2>1. pc' \in Labels /\ job' \in Jobs
        BY <1>0, <1>10, EndsTyped DEF ExecuteRemoval
    <2>2. DefaultConfig \in Configs
        BY ChoicesTyped DEF DefaultConfig, Configs
    <2> QED
        BY <1>10, <2>1, <2>2, ChoicesTyped DEF ExecuteRemoval, TypeOK, Executables
<1>11. CASE Execute
    BY <1>0, <1>11, EndsTyped DEF Execute, TypeOK
<1>12. CASE Download
    <2>1. pc' \in Labels /\ job' \in Jobs
        <3>1. CASE Ends("failed")
            BY <1>0, <3>1, EndsTyped
        <3>2. CASE ~Ends("failed")
            BY <1>12, <3>2 DEF Download, TypeOK, Goto, Labels, Jobs, Executables
        <3> QED
            BY <3>1, <3>2
    <2> QED
        BY <1>12, <2>1 DEF Download, TypeOK
<1>13. CASE TestCandidate
    <2>1. pc' \in Labels /\ job' \in Jobs
        BY <1>0, <1>13, EndsTyped DEF TestCandidate, TypeOK, Goto, Labels
    <2> QED
        BY <1>13, <2>1 DEF TestCandidate, TypeOK
<1>14. CASE Backup
    <2>1. previous' \in Executables
        BY <1>14 DEF Backup, WriteAtomic, TypeOK
    <2>2. pc' \in Labels /\ job' \in Jobs
        <3>1. CASE Ends("failed")
            BY <1>0, <3>1, EndsTyped
        <3>2. CASE ~Ends("failed")
            BY <1>14, <3>2 DEF Backup, WriteAtomic, TypeOK, Goto, Labels, Jobs
        <3> QED
            BY <3>1, <3>2
    <2> QED
        BY <1>14, <2>1, <2>2 DEF Backup, TypeOK
<1>15. CASE Replace
    <2>1. exe' \in Executables
        BY <1>15 DEF Replace, WriteAtomic, TypeOK, Jobs
    <2>2. pc' \in Labels /\ job' \in Jobs
        <3>1. CASE Ends("failed")
            BY <1>0, <3>1, EndsTyped
        <3>2. CASE ~Ends("failed")
            BY <1>15, <3>2 DEF Replace, WriteAtomic, TypeOK, Goto, Labels
        <3> QED
            BY <3>1, <3>2
    <2> QED
        BY <1>15, <2>1, <2>2 DEF Replace, TypeOK
<1>16. CASE Doctor
    <2>1. pc' \in Labels /\ job' \in Jobs
        BY <1>0, <1>16, EndsTyped DEF Doctor, TypeOK, Goto, Labels
    <2> QED
        BY <1>16, <2>1 DEF Doctor, TypeOK
<1>17. CASE Restore
    <2>1. exe' \in Executables
        BY <1>17 DEF Restore, WriteAtomic, TypeOK, Jobs
    <2>2. pc' \in Labels /\ job' \in Jobs
        BY <1>0, <1>17, EndsTyped DEF Restore, WriteAtomic
    <2> QED
        BY <1>17, <2>1, <2>2 DEF Restore, TypeOK
<1>18. CASE Crash
    BY <1>0, <1>18, EndsTyped DEF Crash, TypeOK
<1>19. CASE UNCHANGED vars
    BY <1>19 DEF vars, TypeOK
<1> QED
    BY <1>1, <1>2, <1>3, <1>4, <1>5, <1>6, <1>7, <1>8, <1>9, <1>10, <1>11, <1>12, <1>13,
       <1>14, <1>15, <1>16, <1>17, <1>18, <1>19 DEF Next

\* Every variable of Command has its type in every reachable state.
THEOREM CommandTypes == Spec => []TypeOK
<1> QED
    BY TypeInit, TypeStep, PTL DEF Spec
--------------------------------------------------------------------------------
\* What an upgrade may rely on, step by step: the executable that runs it has worked, is
\* in `previous` before it is replaced, and is what will be put back.
Running == {"composed", "executing", "release", "version", "backup", "replace"}

BackInv ==
    /\ None \notin proven
    /\ exe # None => exe \in proven \/ previous \in proven
    /\ pc \in Running => exe \in proven
    /\ pc = "replace" => job.old = exe /\ previous = exe
    /\ pc \in {"doctor", "restore"} =>
            job.old \in proven /\ previous = job.old /\ exe = job.new
    /\ pc \in {"version", "backup", "replace", "doctor", "restore"} => job.new \in Builds
    /\ pc \in {"composed", "executing", "release"} => job.new = None
    /\ pc = "idle" /\ job.new # None =>
            /\ job.result = "ok" => exe = job.new /\ exe \in proven
            /\ job.result = "rolled back" => exe = job.old /\ exe \in proven

LEMMA BackInit == Init => BackInv
    BY DEF Init, BackInv, Running, NoJob

\* Of a command that ends: what it has done to the executable, and its result.
LEMMA EndsKeeps ==
    ASSUME NEW result, Ends(result)
    PROVE  /\ pc' = "idle" /\ job'.result = result
           /\ job'.old = job.old /\ job'.new = job.new
    BY DEF Ends, Goto, NoJob

LEMMA BackStep == TypeOK /\ BackInv /\ [Next]_vars => BackInv'
<1> SUFFICES ASSUME TypeOK, BackInv, [Next]_vars
             PROVE  BackInv'
    OBVIOUS
<1> USE DEF host, binaries, BackInv, Running
<1>1. CASE HostChanges
    BY <1>1 DEF HostChanges
<1>2. CASE EditConfig
    BY <1>2 DEF EditConfig
<1>3. CASE PlaceExecutable
    BY <1>3 DEF PlaceExecutable
<1>4. CASE Begin
    <2>1. PICK op \in Ops, cli \in CliChoices :
            IF Composes(exe, cli)
            THEN /\ Goto("composed")
                 /\ job' = Composed(exe, cli, [NoJob EXCEPT !.op = op])
                 /\ proven' = proven \cup {exe}
            ELSE /\ Goto("idle")
                 /\ job' = [NoJob EXCEPT !.result = "not composed"]
                 /\ UNCHANGED proven
        BY <1>4 DEF Begin
    <2>2. job'.new = None
        BY <2>1 DEF Composed, NoJob
    <2>3. exe' = exe /\ previous' = previous /\ exe # None /\ exe \in Builds
        BY <1>4 DEF Begin, TypeOK, Executables
    <2>4. \/ pc' = "composed" /\ proven' = proven \cup {exe}
          \/ pc' = "idle" /\ proven' = proven
        <3>1. CASE Composes(exe, cli)
            BY <2>1, <3>1 DEF Goto
        <3>2. CASE ~Composes(exe, cli)
            BY <2>1, <3>2 DEF Goto
        <3> QED
            BY <3>1, <3>2
    <2> QED
        BY <2>2, <2>3, <2>4
<1>5. CASE Refuse
    BY <1>5, EndsKeeps DEF Refuse
<1>6. CASE ReturnPlan
    BY <1>6, EndsKeeps DEF ReturnPlan
<1>7. CASE RequirePackages
    BY <1>7 DEF RequirePackages, Goto, TypeOK, Jobs
<1>8. CASE Start
    <2>1. CASE Ends("locked")
        BY <1>8, <2>1, EndsKeeps DEF Start
    <2>2. CASE ~Ends("locked")
        <3>1. job'.new = job.new /\ job'.old = job.old
            BY <1>8, <2>2 DEF Start, TypeOK, Jobs
        <3>2. pc' \in {"release", "executing"}
            BY <1>8, <2>2 DEF Start, Goto
        <3> QED
            BY <1>8, <3>1, <3>2 DEF Start
    <2> QED
        BY <2>1, <2>2
<1>9. CASE ExecuteInstall
    BY <1>9, EndsKeeps DEF ExecuteInstall
<1>10. CASE ExecuteRemoval
    <2>1. job'.new = None /\ pc' = "idle"
        BY <1>10, EndsKeeps DEF ExecuteRemoval
    <2>2. exe' = None \/ (exe' = exe /\ previous' = previous)
        BY <1>10 DEF ExecuteRemoval
    <2> QED
        BY <1>10, <2>1, <2>2 DEF ExecuteRemoval
<1>11. CASE Execute
    BY <1>11, EndsKeeps DEF Execute
<1>12. CASE Download
    <2>1. CASE Ends("failed")
        BY <1>12, <2>1, EndsKeeps DEF Download
    <2>2. CASE ~Ends("failed")
        <3>1. job'.new \in Builds /\ pc' = "version"
            BY <1>12, <2>2 DEF Download, Goto, TypeOK, Jobs
        <3> QED
            BY <1>12, <3>1 DEF Download
    <2> QED
        BY <2>1, <2>2
<1>13. CASE TestCandidate
    <2>1. exe' = exe /\ previous' = previous /\ proven' = proven /\ pc = "version"
        BY <1>13 DEF TestCandidate
    <2>2. CASE Ends("failed")
        <3>1. pc' = "idle" /\ job'.result = "failed"
            BY <2>2, EndsKeeps
        <3> QED
            BY <2>1, <3>1
    <2>3. CASE pc' = "backup" /\ job' = job
        BY <2>1, <2>3
    <2> QED
        BY <1>13, <2>2, <2>3 DEF TestCandidate, Goto
<1>14. CASE Backup
    <2>1. CASE Ends("failed")
        <3>1. pc' = "idle" /\ job'.result = "failed"
            BY <2>1, EndsKeeps
        <3>2. exe' = exe /\ proven' = proven /\ previous' \in {previous, exe} /\ pc = "backup"
            BY <1>14 DEF Backup, WriteAtomic
        <3> QED
            BY <3>1, <3>2
    <2>2. CASE ~Ends("failed")
        <3>1. job'.new = job.new /\ job'.old = exe /\ pc' = "replace" /\ previous' = exe
            BY <1>14, <2>2 DEF Backup, WriteAtomic, Goto, TypeOK, Jobs
        <3> QED
            BY <1>14, <3>1 DEF Backup
    <2> QED
        BY <2>1, <2>2
<1>15. CASE Replace
    <2>1. CASE Ends("failed")
        <3>1. pc' = "idle" /\ job'.result = "failed"
            BY <2>1, EndsKeeps
        <3>2. previous' = previous /\ proven' = proven /\ pc = "replace"
            BY <1>15 DEF Replace
        <3> QED
            BY <3>1, <3>2
    <2>2. CASE ~Ends("failed")
        BY <1>15, <2>2 DEF Replace, WriteAtomic, Goto
    <2> QED
        BY <2>1, <2>2
<1>16. CASE Doctor
    <2>1. exe' = exe /\ previous' = previous /\ pc = "doctor" /\ job.new = exe /\ exe \in Builds
        BY <1>16 DEF Doctor
    <2>2. CASE proven' = proven \cup {exe} /\ Ends("ok")
        <3>1. pc' = "idle" /\ job'.result = "ok" /\ job'.new = job.new
            BY <2>2, EndsKeeps
        <3> QED
            BY <2>1, <2>2, <3>1
    <2>3. CASE pc' = "restore" /\ proven' = proven /\ job' = job
        BY <2>1, <2>3
    <2>4. CASE Ends("failed") /\ proven' = proven
        <3>1. pc' = "idle" /\ job'.result = "failed"
            BY <2>4, EndsKeeps
        <3> QED
            BY <2>1, <2>4, <3>1
    <2> QED
        BY <1>16, <2>2, <2>3, <2>4 DEF Doctor, Goto
<1>17. CASE Restore
    <2>1. previous' = previous /\ proven' = proven /\ pc = "restore"
        BY <1>17 DEF Restore
    <2>2. CASE exe' = job.old /\ Ends("rolled back")
        <3>1. pc' = "idle" /\ job'.result = "rolled back" /\ job'.old = job.old
            BY <2>2, EndsKeeps
        <3> QED
            BY <2>1, <2>2, <3>1
    <2>3. CASE Ends("failed")
        <3>1. pc' = "idle" /\ job'.result = "failed"
            BY <2>3, EndsKeeps
        <3> QED
            BY <2>1, <3>1
    <2> QED
        BY <1>17, <2>2, <2>3 DEF Restore, WriteAtomic
<1>18. CASE Crash
    <2>1. exe' = exe /\ previous' = previous /\ proven' = proven
        BY <1>18 DEF Crash
    <2>2. pc' = "idle" /\ job'.result = "crashed"
        BY <1>18, EndsKeeps DEF Crash
    <2> QED
        BY <2>1, <2>2
<1>19. CASE UNCHANGED vars
    BY <1>19 DEF vars
<1> QED
    BY <1>1, <1>2, <1>3, <1>4, <1>5, <1>6, <1>7, <1>8, <1>9, <1>10, <1>11, <1>12, <1>13,
       <1>14, <1>15, <1>16, <1>17, <1>18, <1>19 DEF Next

\* upgrade_manager (arch.rs) keeps an executable that has worked within reach, with any
\* errors, crashes, host changes and any releases.
THEOREM WayBackStays == Spec => []WayBack
<1>1. BackInv => WayBack
    BY DEF BackInv, WayBack
<1> QED
    BY <1>1, TypeInit, TypeStep, BackInit, BackStep, PTL DEF Spec

\* The outcome upgrade_manager (arch.rs) reports agrees with what is in place.
THEOREM OutcomeIsTrue == Spec => []OutcomeTellsExecutable
<1>1. BackInv => OutcomeTellsExecutable
    BY DEF BackInv, OutcomeTellsExecutable
<1> QED
    BY <1>1, TypeInit, TypeStep, BackInit, BackStep, PTL DEF Spec
--------------------------------------------------------------------------------
\* The table of requirements (linux/mod.rs) against that of the advisor (adapters.rs):
\* what an installation demands needs no program that the advisor does not look for.
LEMMA AdvisorKnows ==
    ASSUME NEW i \in Backends, NEW c \in Provides[i], NEW tun \in BOOLEAN,
           c \in Demanded("install", tun) \cup Demanded("repair", tun),
           c \notin {"install", "package_advice"}
    PROVE  \A p \in Requires[i] : /\ p \in Advised \ {"mount", "unshare"}
                                  /\ tun \/ p \notin {"ip", "nft"}
<1>1. i \in {1, 2, 3, 4, 5, 6, 7, 8, 9}
    BY DEF Backends
<1>2. c \in {"identity", "service"} \cup (IF tun THEN Policy ELSE {})
    BY DEF Demanded, LookUp, RequiredTable, Installs, Upgrades, Applies, Rollbacks,
           Services, Tuns, Desktops, Apps, Policy
<1> QED
    BY <1>1, <1>2 DEF Provides, Requires, Advised, Policy

\* What is known of a command from its composition on: a capability that only lacks
\* programs has a backend that provides it; and what has been demanded is met.
Decided == pc = "composed" \/ pc = "executing" \/ job.result = "packages missing"

PlanInv ==
    /\ pc # "idle" => job.result = "none"
    /\ Decided => \A c \in job.restorable :
                      job.picked[c] \in Backends /\ c \in Provides[job.picked[c]]
    /\ DemandsAreMet
    /\ HintSuffices

LEMMA PlanInit == Init => PlanInv
    BY DEF Init, PlanInv, Decided, NoJob, DemandsAreMet, HintSuffices

\* What composition finds restorable.
LEMMA RestorableProvided ==
    ASSUME TypeOK, NEW build \in Builds, NEW cli \in CliChoices, Composes(build, cli),
           NEW op \in Ops, NEW c \in Composed(build, cli, [NoJob EXCEPT !.op = op]).restorable
    PROVE  LET i == Composed(build, cli, [NoJob EXCEPT !.op = op]).picked[c]
           IN  i \in Backends /\ c \in Provides[i]
<1> DEFINE found == Found(build)
           prefs == PreferencesOf(cli)
<1>1. Answers(found) /\ DOMAIN found \subseteq Backends
    BY FoundAnswers
<1>2. prefs \in Preferences
    BY PreferencesTyped DEF TypeOK
<1>3. Resolvable(found, prefs)
    BY DEF Composes
<1>4. c \in Restorable(found, prefs)
    BY DEF Composed, NoJob
<1>5. c \in Capabilities /\ Picked(found, prefs, c) # None
    BY <1>4 DEF Restorable
<1>6. /\ Picked(found, prefs, c) \in Backends
      /\ c \in Provides[Picked(found, prefs, c)]
    BY <1>1, <1>2, <1>3, <1>5, PickedProvides, FoundAnswers
<1>7. Composed(build, cli, [NoJob EXCEPT !.op = op]).picked[c] = Picked(found, prefs, c)
    BY <1>5 DEF Composed, NoJob, Selections
<1> QED
    BY <1>6, <1>7

\* The demands of an installation that passes the gates and are not supported: every
\* program their backends require is there or among those that add_platform_requirements
\* (application.rs) misses.
LEMMA InstallationDemands ==
    ASSUME TypeOK, PlanInv, pc = "composed", Passes, job.op \in Installs,
           NEW c \in Demanded(job.op, job.tun) \ job.supported
    PROVE  Requires[job.picked[c]] \subseteq programs \cup Missing
<1>1. Unmet = {}
    BY DEF Passes, Gated, Options
<1>2. CanRestore(c)
    BY <1>1 DEF Unmet
<1>3. c \in job.restorable /\ c \notin {"install", "package_advice"}
    BY <1>2 DEF CanRestore
<1>4. job.picked[c] \in Backends /\ c \in Provides[job.picked[c]]
    BY <1>3 DEF PlanInv, Decided
<1>5. job.tun \in BOOLEAN
    BY DEF TypeOK, Jobs
<1>6. c \in Demanded("install", job.tun) \cup Demanded("repair", job.tun)
    BY DEF Installs
<1>7. \A p \in Requires[job.picked[c]] : /\ p \in Advised \ {"mount", "unshare"}
                                         /\ job.tun \/ p \notin {"ip", "nft"}
    BY <1>3, <1>4, <1>5, <1>6, AdvisorKnows
<1> QED
    BY <1>7 DEF Missing

\* Other operations that pass the gates have what they demand.
LEMMA OtherDemands ==
    ASSUME Passes, job.op \notin Installs
    PROVE  Demanded(job.op, job.tun) \subseteq job.supported
    BY DEF Passes, Gated, Options, Unmet, CanRestore

LEMMA PlanStep == TypeOK /\ PlanInv /\ [Next]_vars => PlanInv'
<1> SUFFICES ASSUME TypeOK, PlanInv, [Next]_vars
             PROVE  PlanInv'
    OBVIOUS
<1>a. ASSUME NEW result, Ends(result), result # "packages missing"
      PROVE  PlanInv'
    <2>1. pc' = "idle" /\ job'.result # "packages missing"
        BY <1>a, EndsKeeps
    <2> QED
        BY <2>1 DEF PlanInv, Decided, DemandsAreMet, HintSuffices
<1>b. ASSUME job' = job, pc' = pc
      PROVE  PlanInv'
    BY <1>b DEF PlanInv, Decided, DemandsAreMet, HintSuffices
<1>c. ASSUME pc # "idle", pc' \in Labels \ {"idle", "composed", "executing"},
             job'.result = job.result
      PROVE  PlanInv'
    BY <1>c DEF PlanInv, Decided, DemandsAreMet, HintSuffices
<1>1. CASE HostChanges
    BY <1>1, <1>b DEF HostChanges
<1>2. CASE EditConfig
    BY <1>2, <1>b DEF EditConfig
<1>3. CASE PlaceExecutable
    BY <1>3, <1>b DEF PlaceExecutable
<1>4. CASE Begin
    <2>1. PICK op \in Ops, cli \in CliChoices :
            IF Composes(exe, cli)
            THEN /\ Goto("composed")
                 /\ job' = Composed(exe, cli, [NoJob EXCEPT !.op = op])
                 /\ proven' = proven \cup {exe}
            ELSE /\ Goto("idle")
                 /\ job' = [NoJob EXCEPT !.result = "not composed"]
                 /\ UNCHANGED proven
        BY <1>4 DEF Begin
    <2>2. exe \in Builds
        BY <1>4 DEF Begin, TypeOK, Executables
    <2>3. CASE Composes(exe, cli)
        <3>1. pc' = "composed" /\ job' = Composed(exe, cli, [NoJob EXCEPT !.op = op])
            BY <2>1, <2>3 DEF Goto
        <3>2. \A c \in job'.restorable :
                job'.picked[c] \in Backends /\ c \in Provides[job'.picked[c]]
            BY <2>2, <2>3, <3>1, RestorableProvided
        <3>3. job'.result = "none"
            BY <3>1 DEF Composed, NoJob
        <3> QED
            BY <3>1, <3>2, <3>3 DEF PlanInv, Decided, DemandsAreMet, HintSuffices
    <2>4. CASE ~Composes(exe, cli)
        <3>1. pc' = "idle" /\ job'.result = "not composed"
            BY <2>1, <2>4 DEF Goto, NoJob
        <3> QED
            BY <3>1 DEF PlanInv, Decided, DemandsAreMet, HintSuffices
    <2> QED
        BY <2>3, <2>4
<1>5. CASE Refuse
    BY <1>5, <1>a DEF Refuse
<1>6. CASE ReturnPlan
    BY <1>6, <1>a DEF ReturnPlan
<1>7. CASE RequirePackages
    <2>1. /\ pc' = "idle" /\ pc = "composed" /\ Passes /\ job.op \in Installs
          /\ job'.op = job.op /\ job'.tun = job.tun /\ job'.supported = job.supported
          /\ job'.picked = job.picked /\ job'.restorable = job.restorable
          /\ job'.present = programs /\ job'.hinted = Missing
        BY <1>7 DEF RequirePackages, Goto, TypeOK, Jobs
    <2>2. HintSuffices'
        <3> SUFFICES ASSUME NEW c \in Demanded(job.op, job.tun) \ job.supported
                     PROVE  Requires[job.picked[c]] \subseteq programs \cup Missing
            BY <2>1 DEF HintSuffices
        <3> QED
            BY <2>1, InstallationDemands
    <2> QED
        BY <2>1, <2>2 DEF PlanInv, Decided, DemandsAreMet
<1>8. CASE Start
    <2>1. CASE Ends("locked")
        BY <1>a, <2>1
    <2>2. CASE pc' = "release" /\ job' = [job EXCEPT !.present = programs]
        <3>1. job'.result = job.result /\ pc = "composed"
            BY <1>8, <2>2 DEF Start, TypeOK, Jobs
        <3> QED
            BY <1>c, <2>2, <3>1 DEF Labels
    <2>3. CASE pc' = "executing" /\ job' = [job EXCEPT !.present = programs]
        <3>1. /\ pc = "composed" /\ Passes /\ job'.result = job.result
              /\ job.op \in Installs => Missing = {}
              /\ job'.op = job.op /\ job'.tun = job.tun /\ job'.supported = job.supported
              /\ job'.picked = job.picked /\ job'.restorable = job.restorable
              /\ job'.present = programs
            BY <1>8, <2>3 DEF Start, TypeOK, Jobs
        <3>2. DemandsAreMet'
            <4> SUFFICES ASSUME NEW c \in Demanded(job.op, job.tun), c \notin job.supported
                         PROVE  /\ job.op \in Installs
                                /\ Requires[job.picked[c]] \subseteq programs
                BY <3>1 DEF DemandsAreMet
            <4> QED
                BY <3>1, InstallationDemands, OtherDemands
        <3> QED
            BY <2>3, <3>1, <3>2 DEF PlanInv, Decided, HintSuffices
    <2> QED
        BY <1>8, <2>1, <2>2, <2>3 DEF Start, Goto
<1>9. CASE ExecuteInstall
    BY <1>9, <1>a DEF ExecuteInstall
<1>10. CASE ExecuteRemoval
    BY <1>10, <1>a DEF ExecuteRemoval
<1>11. CASE Execute
    BY <1>11, <1>a DEF Execute
<1>12. CASE Download
    <2>1. CASE Ends("failed")
        BY <1>a, <2>1
    <2>2. CASE ~Ends("failed")
        <3>1. job'.result = job.result /\ pc' = "version" /\ pc = "release"
            BY <1>12, <2>2 DEF Download, Goto, TypeOK, Jobs
        <3> QED
            BY <1>c, <3>1 DEF Labels
    <2> QED
        BY <2>1, <2>2
<1>13. CASE TestCandidate
    BY <1>13, <1>a, <1>c DEF TestCandidate, Goto, Labels
<1>14. CASE Backup
    <2>1. CASE Ends("failed")
        BY <1>a, <2>1
    <2>2. CASE ~Ends("failed")
        <3>1. job'.result = job.result /\ pc' = "replace" /\ pc = "backup"
            BY <1>14, <2>2 DEF Backup, WriteAtomic, Goto, TypeOK, Jobs
        <3> QED
            BY <1>c, <3>1 DEF Labels
    <2> QED
        BY <2>1, <2>2
<1>15. CASE Replace
    BY <1>15, <1>a, <1>c DEF Replace, WriteAtomic, Goto, Labels
<1>16. CASE Doctor
    BY <1>16, <1>a, <1>c DEF Doctor, Goto, Labels
<1>17. CASE Restore
    BY <1>17, <1>a DEF Restore, WriteAtomic
<1>18. CASE Crash
    BY <1>18, <1>a DEF Crash
<1>19. CASE UNCHANGED vars
    BY <1>19, <1>b DEF vars
<1> QED
    BY <1>1, <1>2, <1>3, <1>4, <1>5, <1>6, <1>7, <1>8, <1>9, <1>10, <1>11, <1>12, <1>13,
       <1>14, <1>15, <1>16, <1>17, <1>18, <1>19 DEF Next

\* Whatever backends a release has compiled in and whatever is chosen, plan_internal
\* (application.rs) lets no operation begin whose demands are not met.
THEOREM DemandsMet == Spec => []DemandsAreMet
<1>1. PlanInv => DemandsAreMet
    BY DEF PlanInv
<1> QED
    BY <1>1, TypeInit, TypeStep, PlanInit, PlanStep, PTL DEF Spec

\* The hint of add_platform_requirements (application.rs) names all that is missing.
THEOREM HintEnough == Spec => []HintSuffices
<1>1. PlanInv => HintSuffices
    BY DEF PlanInv
<1> QED
    BY <1>1, TypeInit, TypeStep, PlanInit, PlanStep, PTL DEF Spec
================================================================================
