--------------------------- MODULE InstallerProofs ---------------------------
(***************************************************************************)
(* Proofs about Installer, for any versions, any number of generations and *)
(* of operations, with crashes and damaged artifacts.                      *)
(*                                                                         *)
(* The inductive invariant has these parts, each proved with the help of   *)
(* those before it: the types and the names that are still fresh (TypeInv, *)
(* FreshInv); the shape of the record of the operation at each of its      *)
(* steps (PathInv); that what is prepared is sound and what is switched is *)
(* what was tested, recorded and started (PreparedInv, TestedInv,          *)
(* RecordInv, RunningInv); that a foreign group was never recorded         *)
(* (ForeignInv); how far the links and state.json are from what the        *)
(* operation found, on the way forward and on the way back (SyncInv,       *)
(* AgreeInv); and what it found sound (SoundInv, RepairInv).               *)
(***************************************************************************)
EXTENDS Installer, TLAPS

LinkTables == {f \in [Kinds -> Links(AllNames)] : \A k \in Kinds : f[k] \in Links(NamesOf(k))}
NameTables == {f \in Triples : \A k \in Kinds : f[k] \in NamesOf(k) \cup {None}}
DirTables == {f \in [Kinds -> SUBSET AllNames] : \A k \in Kinds : f[k] \subseteq NamesOf(k)}

States == [at : LinkTables, selected : BOOLEAN, created : BOOLEAN]

Ops == Changes \cup {"none", "uninstall", "purge"}

Jobs == [op : Ops, targets : SUBSET Kinds, cand : NameTables, kind : Kinds, old : States,
         hadCore : BOOLEAN, aside : BOOLEAN, undoing : BOOLEAN, tested : NameTables,
         clean : BOOLEAN,
         was : [synced : BOOLEAN, links : LinkTables, sound : BOOLEAN]]

\* Every variable has its type, and what is to be made next has not been damaged yet.
TypeInv ==
    /\ links \in LinkTables /\ dirs \in DirTables
    /\ damaged \subseteq AllNames /\ nextGen \in 1..(MaxGen + 1)
    /\ state \in States
    /\ group \in {"absent", "foreign", "ours"} /\ unit \in BOOLEAN
    /\ started \in BOOLEAN /\ running \in NameTables
    /\ ops \in 0..MaxOps
    /\ pc \in Labels /\ job \in Jobs

Used(names) == \A g \in names : g \in Nat => g < nextGen

FreshInv == Used(damaged) /\ Used(dirs[Assets]) /\ Used(dirs[Config])
--------------------------------------------------------------------------------
\* The steps of an operation.
Placing == {"quarantine", "place", "checkCore", "unquarantine"}
Preparing == {"group", "record", "unit", "core", "assets", "test"} \cup Placing
Switching == {"switchPrev", "switchCur"}
Holding == {"write", "activate", "health", "mark", "unmarked", "prune"}
Restoring == {"undoCur", "undoPrev"}
Removing == {"stop", "rmUnit", "rmState", "rmOpt", "rmGroup", "reload"}

\* What the record of an operation that prepares artifacts says.
PreparingInv ==
    pc \in Preparing =>
        /\ job.op \in Installs \cup {"upgrade"}
        /\ pc \in {"group", "record", "unit"} => job.op \in Installs
        /\ job.op \in Installs => job.targets = {Core, Assets}
        /\ job.tested = NoTriple /\ ~job.undoing /\ job.clean
        /\ job.cand[Config] = None
        /\ pc # "test" => job.cand[Assets] = None
        /\ pc \in {"group", "record", "unit", "core"} => job.cand[Core] = None
        /\ pc \in Placing => job.cand[Core] # None
        /\ pc \in {"core"} \cup Placing => Core \in job.targets
        /\ pc = "assets" => Assets \in job.targets
        /\ pc \in {"assets", "test"} /\ Core \in job.targets => job.cand[Core] # None
        /\ pc = "test" /\ Assets \in job.targets => job.cand[Assets] # None

\* Which operations come to the later steps, and with what record.
ChangingInv ==
    /\ pc \in Switching \cup Holding \cup Restoring \cup {"writeOld", "reactivate"} =>
        job.op \in Changes
    /\ pc \in Switching \cup Restoring => job.cand[job.kind] # None
    /\ pc \in Switching /\ job.undoing => job.op = "rollback"
    /\ pc \in Holding \cup {"refused", "succeeded"} => ~job.undoing
    /\ pc \in Switching \cup Holding \cup {"refused", "succeeded"} /\ ~job.undoing => job.clean
    /\ pc \in Restoring => job.op # "rollback"
    /\ pc \in {"writeOld", "reactivate"} => job.undoing
    /\ pc = "mark" => job.op \in Installs
    /\ pc = "prune" => job.op # "rollback"
    /\ job.op = "rollback" =>
        /\ \A k \in Kinds : k # job.kind => job.cand[k] = None
        /\ job.tested = NoTriple
        /\ pc \in Switching \cup Holding => job.cand[job.kind] # None
    /\ pc \in Removing => job.op \in {"uninstall", "purge"} /\ ~job.undoing /\ job.clean
    /\ job.op \in {"uninstall", "purge"} => job.tested = NoTriple
    /\ pc = "idle" => job = NoJob
    /\ pc # "idle" => job.op # "none"

PathInv == PreparingInv /\ ChangingInv
--------------------------------------------------------------------------------
\* The kind k has its new link, if it gets one.
IsSwitched(k) ==
    \/ k \notin Changed
    \/ pc \in Switching /\ k < job.kind
    \/ pc \in Holding \cup {"succeeded"}

\* An operation on artifacts goes forward.
Forward ==
    /\ job.op \in Installs \cup {"upgrade"} /\ ~job.undoing
    /\ pc \in Switching \cup Holding \cup {"succeeded"}

\* What is prepared is sound.
PreparedInv ==
    /\ pc \in {"checkCore", "assets", "test"} /\ job.cand[Core] # None =>
        job.cand[Core] \in dirs[Core] \ damaged
    /\ pc = "test" /\ job.cand[Assets] # None => job.cand[Assets] \in dirs[Assets] \ damaged

\* What was tested is sound, and is where the links lead that are switched already.
TestedInv ==
    Forward /\ (pc = "succeeded" /\ job.op = "upgrade" => job.tested # NoTriple) =>
        \A k \in Kinds : /\ job.tested[k] \in dirs[k] \ damaged
                         /\ job.cand[k] \in {None, job.tested[k]}
                         /\ IsSwitched(k) => links[k].cur = job.tested[k]

\* An install records what it has tested.
RecordInv ==
    Forward /\ job.op \in Installs =>
        \A k \in {Core, Assets} :
            /\ pc \in Switching \cup {"write"} /\ k \notin Changed =>
                job.old.at[k].cur = job.tested[k]
            /\ pc \in {"activate", "health", "mark", "unmarked", "prune", "succeeded"} =>
                state.at[k].cur = job.tested[k]

\* A process runs from what the links say once it has been restarted.
RunningInv ==
    \/ pc \in {"health", "prune"} /\ job.op \in {"upgrade", "rollback"}
    \/ pc = "succeeded" /\ job.op = "rollback"
    \/ pc = "succeeded" /\ job.op = "upgrade" /\ job.tested # NoTriple
    \/ pc = "failed" /\ job.op \in {"upgrade", "rollback"} /\ job.undoing /\ job.clean
    => running \in {Current, NoTriple}

\* What is foreign was not recorded as created.
ForeignInv == group = "foreign" => ~state.created /\ ~job.old.created /\ pc # "record"
--------------------------------------------------------------------------------
Was == job.was.links

\* The links of one kind after its switch.
After(k) == IF k \in Changed THEN LinkCurrent(LinkPrevious(Was[k]), job.cand[k]) ELSE Was[k]

\* The operation found links and state.json in agreement.
Synced == job.was.synced /\ job.op \in Changes

\* Nothing is changed before the first switch; the old state.json is the one that was
\* found, and it is there until the new one is written and when it has been put back.
FoundInv ==
    Synced =>
        /\ pc \in Preparing \cup {"refused"} => links = Was /\ state.at = Was
        /\ pc \in Switching \cup Holding \cup Restoring \cup {"writeOld", "reactivate"} =>
            job.old.at = Was
        /\ pc \in Switching \cup Restoring \cup {"write"} /\ ~job.undoing => state.at = Was
        /\ pc = "reactivate" \/ (pc = "failed" /\ job.clean) => state.at = Was

\* On the way forward the links are switched one after the other.
ForwardInv ==
    Synced /\ ~job.undoing =>
        /\ pc \in Switching =>
            \A k \in Kinds :
                /\ k < job.kind => links[k] = After(k)
                /\ k > job.kind => links[k] = Was[k]
                /\ k = job.kind =>
                    links[k] = IF pc = "switchPrev" THEN Was[k] ELSE LinkPrevious(Was[k])
        /\ pc \in Holding => \A k \in Kinds : links[k] = After(k)
        /\ pc = "succeeded" /\ (job.op = "upgrade" => job.tested # NoTriple) =>
            \A k \in Kinds : links[k] = After(k)

\* On the way back the last ones are restored first.
BackInv ==
    Synced /\ job.clean =>
        /\ pc \in Restoring =>
            /\ \A k \in Kinds : k > job.kind \/ k \notin Changed => links[k] = Was[k]
            /\ pc = "undoPrev" => links[job.kind].cur = Was[job.kind].cur
        /\ pc \in {"writeOld", "reactivate", "failed"} /\ Reversible => links = Was

\* A rollback goes from one of two links to the other, and back on its way back.
RollbackInv ==
    Synced /\ job.op = "rollback" =>
        /\ pc # "refused" => Was[job.kind].prev # None
        /\ pc \in Switching \cup Holding /\ ~job.undoing =>
            job.cand[job.kind] = Was[job.kind].prev
        /\ pc \in Switching /\ job.undoing /\ Reversible =>
            /\ \A k \in Kinds : k # job.kind => links[k] = Was[k]
            /\ job.cand[job.kind] = Was[job.kind].cur
            /\ links[job.kind].cur = Was[job.kind].prev
            /\ pc = "switchCur" => links[job.kind].prev = Was[job.kind].prev

SyncInv == FoundInv /\ ForwardInv /\ BackInv /\ RollbackInv

\* An install that found links and state.json in agreement switches to what was not
\* current, and records in state.json what the links then say.
AgreeInv ==
    Synced /\ job.op \in Installs /\ ~job.undoing =>
        \A k \in {Core, Assets} :
            /\ pc \in Switching \cup Holding \cup {"succeeded"} =>
                job.cand[k] = None \/ job.cand[k] # Was[k].cur
            /\ pc \in (Holding \ {"write"}) \cup {"succeeded"} =>
                state.at[k] = IF job.cand[k] = None THEN Was[k]
                              ELSE [cur |-> job.cand[k], prev |-> Was[k].cur]

\* What was found sound is still there, and intact.
SoundInv ==
    Synced /\ job.was.sound =>
        /\ \A k \in Kinds : Was[k].cur \in dirs[k] \ damaged
        /\ pc \in Placing => job.cand[Core] # Was[Core].cur

\* A repair of what is sound and in agreement takes it as it is.
RepairInv ==
    Synced /\ job.was.sound /\ job.op = "repair" =>
        /\ pc \notin Placing \cup Switching \cup Restoring \cup {"refused"}
        /\ pc \in {"assets", "test"} => job.cand[Core] = Was[Core].cur
        /\ pc = "test" => job.cand[Assets] = Was[Assets].cur
        /\ pc \in Holding \cup {"succeeded"} => \A k \in Kinds : job.cand[k] = None
--------------------------------------------------------------------------------
(* Names, tables and records.                                              *)

LEMMA NoneIsNoName == None \notin AllNames
BY NoneAssumption, InstallerAssumption DEF AllNames

LEMMA NamesInAll == \A k \in Kinds : NamesOf(k) \subseteq AllNames
BY DEF NamesOf, AllNames

\* The three kinds, in the order in which they are switched.
LEMMA KindsAre == Kinds = {1, 2, 3} /\ Core = 1 /\ Assets = 2 /\ Config = 3
BY DEF Kinds, Core, Assets, Config

\* The first and the last of some kinds.
LEMMA LeastIs ==
    ASSUME NEW S \in SUBSET Kinds, S # {}
    PROVE  Least(S) \in S /\ \A i \in S : Least(S) <= i
<1>1. \E k \in S : \A i \in S : k <= i
  <2>1. CASE 1 \in S
    BY <2>1, KindsAre
  <2>2. CASE 1 \notin S /\ 2 \in S
    BY <2>2, KindsAre
  <2>3. CASE 1 \notin S /\ 2 \notin S
    <3>1. S = {3}
      BY <2>3, KindsAre
    <3> QED BY <3>1
  <2> QED BY <2>1, <2>2, <2>3
<1> QED BY <1>1 DEF Least

LEMMA GreatestIs ==
    ASSUME NEW S \in SUBSET Kinds, S # {}
    PROVE  Greatest(S) \in S /\ \A i \in S : Greatest(S) >= i
<1>1. \E k \in S : \A i \in S : k >= i
  <2>1. CASE 3 \in S
    BY <2>1, KindsAre
  <2>2. CASE 3 \notin S /\ 2 \in S
    BY <2>2, KindsAre
  <2>3. CASE 3 \notin S /\ 2 \notin S
    <3>1. S = {1}
      BY <2>3, KindsAre
    <3> QED BY <3>1
  <2> QED BY <2>1, <2>2, <2>3
<1> QED BY <1>1 DEF Greatest

\* Tables are tables after the change of one entry.
LEMMA LinkTableChange ==
    ASSUME NEW f \in LinkTables, NEW k \in Kinds, NEW p \in Links(NamesOf(k))
    PROVE  [f EXCEPT ![k] = p] \in LinkTables
<1>1. Links(NamesOf(k)) \subseteq Links(AllNames)
  BY NamesInAll DEF Links
<1> QED BY <1>1 DEF LinkTables

LEMMA NameTableChange ==
    ASSUME NEW f \in NameTables, NEW k \in Kinds, NEW n \in NamesOf(k) \cup {None}
    PROVE  [f EXCEPT ![k] = n] \in NameTables
BY NamesInAll DEF NameTables, Triples

LEMMA DirTableChange ==
    ASSUME NEW f \in DirTables, NEW k \in Kinds, NEW names \in SUBSET NamesOf(k)
    PROVE  [f EXCEPT ![k] = names] \in DirTables
BY NamesInAll DEF DirTables

LEMMA Entries ==
    /\ \A f \in LinkTables, k \in Kinds :
        /\ f[k] \in Links(NamesOf(k))
        /\ f[k] = [cur |-> f[k].cur, prev |-> f[k].prev]
        /\ f[k].cur \in NamesOf(k) \cup {None} /\ f[k].prev \in NamesOf(k) \cup {None}
    /\ \A f \in NameTables, k \in Kinds : f[k] \in NamesOf(k) \cup {None}
    /\ \A f \in DirTables, k \in Kinds : f[k] \in SUBSET NamesOf(k)
BY DEF LinkTables, NameTables, DirTables, Links

LEMMA EmptyTables == NoTriple \in NameTables /\ NoState.at \in LinkTables /\ NoState \in States
<1>1. NoTriple \in NameTables
  BY DEF NoTriple, NameTables, Triples
<1>2. [k \in Kinds |-> NoLinks] \in LinkTables
  BY DEF NoLinks, LinkTables, Links
<1> QED BY <1>1, <1>2 DEF NoState, States

LEMMA NoJobIsJob == NoJob \in Jobs
BY EmptyTables, KindsAre DEF NoJob, Jobs, Ops

\* What the links make current, and what would be current with some candidates.
LEMMA CurrentIsTable ==
    ASSUME links \in LinkTables
    PROVE  Current \in NameTables /\ \A k \in Kinds : Current[k] = links[k].cur
BY Entries, NamesInAll DEF Current, NameTables, Triples

LEMMA OutcomeIsTable ==
    ASSUME links \in LinkTables, NEW cand \in NameTables
    PROVE  /\ Outcome(cand) \in NameTables
           /\ \A k \in Kinds : Outcome(cand)[k] = IF cand[k] # None THEN cand[k] ELSE links[k].cur
BY Entries, NamesInAll DEF Outcome, NameTables, Triples

LEMMA CandidatesIsTable ==
    ASSUME job.cand \in NameTables
    PROVE  /\ Candidates \in NameTables
           /\ \A k \in Kinds : Candidates[k] = IF k \in Unswitched THEN None ELSE job.cand[k]
BY Entries, NamesInAll DEF Candidates, NameTables, Triples

\* The switches keep the kind of a pair of links.
LEMMA SwitchedLinks ==
    ASSUME NEW k \in Kinds, NEW p \in Links(NamesOf(k)), NEW n \in NamesOf(k) \cup {None}
    PROVE  /\ LinkPrevious(p) \in Links(NamesOf(k))
           /\ LinkCurrent(p, n) \in Links(NamesOf(k))
           /\ PointCurrent(p, n) \in Links(NamesOf(k))
           /\ PointPrevious(p, n) \in Links(NamesOf(k))
           /\ LinkPrevious(p).cur = p.cur
           /\ LinkPrevious(p).prev = IF p.cur = None THEN p.prev ELSE p.cur
           /\ LinkCurrent(p, n) = [cur |-> n, prev |-> p.prev]
           /\ PointCurrent(p, n) = [cur |-> n, prev |-> p.prev]
           /\ PointPrevious(p, n) = [cur |-> p.cur, prev |-> n]
BY DEF Links, LinkPrevious, LinkCurrent, PointCurrent, PointPrevious

LEMMA RecordedIsTable ==
    ASSUME job \in Jobs
    PROVE  /\ Recorded \in LinkTables
           /\ \A k \in Kinds : Recorded[k] =
                IF job.cand[k] = None THEN job.old.at[k]
                ELSE IF job.op = "rollback"
                THEN [cur |-> job.old.at[k].prev, prev |-> job.old.at[k].cur]
                ELSE IF job.cand[k] = job.old.at[k].cur THEN job.old.at[k]
                ELSE [cur |-> job.cand[k], prev |-> job.old.at[k].cur]
<1>1. job.old.at \in LinkTables /\ job.cand \in NameTables
  BY DEF Jobs, States
<1>2. \A k \in Kinds : Recorded[k] \in Links(NamesOf(k))
  BY <1>1, Entries DEF Recorded, Links
<1>3. \A k \in Kinds : Links(NamesOf(k)) \subseteq Links(AllNames)
  BY NamesInAll DEF Links
<1> QED BY <1>2, <1>3 DEF Recorded, LinkTables
--------------------------------------------------------------------------------
(* What the steps do to the record of the operation.                       *)

LEMMA TypeIs ==
    ASSUME TypeInv
    PROVE  /\ links \in LinkTables /\ dirs \in DirTables /\ state \in States
           /\ state.at \in LinkTables /\ job \in Jobs /\ job.cand \in NameTables
           /\ job.tested \in NameTables /\ job.kind \in Kinds /\ job.old \in States
           /\ job.old.at \in LinkTables /\ job.undoing \in BOOLEAN /\ job.clean \in BOOLEAN
           /\ job.op \in Ops /\ job.was.links \in LinkTables /\ Changed \subseteq Kinds
           /\ Earlier \subseteq Kinds
BY DEF TypeInv, Jobs, States, Changed, Earlier

\* The parts of the record that only its beginning and Switches set.
Keeps(j) ==
    /\ job'.op = j.op /\ job'.targets = j.targets /\ job'.old = j.old
    /\ job'.hadCore = j.hadCore /\ job'.tested = j.tested /\ job'.was = j.was

\* An operation that begins.
LEMMA StartedIs ==
    ASSUME TypeInv, NEW op \in Ops
    PROVE  /\ Started(op) \in Jobs
           /\ Started(op).op = op /\ Started(op).targets = {} /\ Started(op).cand = NoTriple
           /\ Started(op).kind = Core /\ Started(op).old = state
           /\ Started(op).undoing = FALSE /\ Started(op).tested = NoTriple
           /\ Started(op).clean = TRUE
           /\ Started(op).was.synced = (links = state.at)
           /\ links = state.at => Started(op).was.links = links
           /\ Started(op).was.sound = Sound(Current)
<1> DEFINE was == [synced |-> links = state.at, sound |-> Sound(Current),
                   links |-> IF links = state.at THEN links ELSE NoState.at]
<1>1. was \in [synced : BOOLEAN, links : LinkTables, sound : BOOLEAN]
  BY TypeIs, EmptyTables DEF Sound
<1>2. Started(op) = [NoJob EXCEPT !.op = op, !.old = state, !.was = was]
  BY DEF Started
<1>5. /\ was.synced = (links = state.at) /\ was.sound = Sound(Current)
      /\ links = state.at => was.links = links
  OBVIOUS
<1> HIDE DEF was
<1>3. [NoJob EXCEPT !.op = op, !.old = state, !.was = was] \in Jobs
  BY <1>1, TypeIs, NoJobIsJob DEF Jobs
<1>4. /\ Started(op).op = op /\ Started(op).targets = {} /\ Started(op).cand = NoTriple
      /\ Started(op).kind = Core /\ Started(op).old = state
      /\ Started(op).undoing = FALSE /\ Started(op).tested = NoTriple
      /\ Started(op).clean = TRUE /\ Started(op).was = was
  BY <1>2 DEF NoJob
<1> QED BY <1>5, <1>2, <1>3, <1>4

Begins ==
    /\ pc = "idle" /\ ops < MaxOps /\ ops' = ops + 1
    /\ UNCHANGED <<store, host, service>>
    /\ job' \in Jobs /\ job'.undoing = FALSE /\ job'.tested = NoTriple /\ job'.clean = TRUE
    /\ job'.was.synced = (links = state.at)
    /\ links = state.at => job'.was.links = links
    /\ job'.was.sound = Sound(Current)
    /\ job'.op # "none"

LEMMA InstallDoes ==
    ASSUME TypeInv, Install
    PROVE  /\ Begins /\ pc' = "group" /\ job'.op \in Installs
           /\ job'.targets = {Core, Assets} /\ job'.cand = NoTriple /\ job'.old = NoState
<1>1. PICK op \in Installs : Begin("group", [Started(op) EXCEPT !.targets = {Core, Assets},
                                                                !.old = NoState])
  BY DEF Install
<1>2. op \in Ops
  BY DEF Ops, Changes
<1>3. /\ Started(op) \in Jobs
      /\ Started(op).op = op /\ Started(op).targets = {}
      /\ Started(op).cand = NoTriple /\ Started(op).kind = Core
      /\ Started(op).old = state /\ Started(op).undoing = FALSE
      /\ Started(op).tested = NoTriple /\ Started(op).clean = TRUE
  BY <1>2, StartedIs
<1> DEFINE record == [Started(op) EXCEPT !.targets = {Core, Assets}, !.old = NoState]
<1>4. record \in Jobs
  BY <1>3, EmptyTables DEF Jobs, Kinds
<1>5. /\ record.op = op /\ record.targets = {Core, Assets} /\ record.cand = NoTriple
      /\ record.old = NoState /\ record.undoing = FALSE /\ record.tested = NoTriple
      /\ record.clean = TRUE /\ record.was = Started(op).was
  BY <1>3 DEF Jobs
<1>6. job' = record /\ pc' = "group" /\ pc = "idle" /\ ops < MaxOps /\ ops' = ops + 1
      /\ UNCHANGED <<store, host, service>>
  BY <1>1 DEF Begin, Goto
<1> HIDE DEF record
<1>7. op # "none"
  BY DEF Installs
<1>8. /\ Started(op).was.synced = (links = state.at)
      /\ links = state.at => Started(op).was.links = links
      /\ Started(op).was.sound = Sound(Current)
  BY <1>2, StartedIs
<1> QED BY <1>4, <1>5, <1>6, <1>7, <1>8 DEF Begins

LEMMA UpgradeDoes ==
    ASSUME TypeInv, Upgrade
    PROVE  /\ Begins /\ job'.op = "upgrade" /\ job'.cand = NoTriple /\ job'.old = state
           /\ \/ pc' = "refused"
              \/ pc' = "core" /\ Core \in job'.targets
              \/ pc' = "assets" /\ Core \notin job'.targets /\ Assets \in job'.targets
<1>1. PICK targets \in {{Core}, {Assets}, {Core, Assets}} :
        Begin(IF links[Config].cur \notin dirs[Config] THEN "refused"
              ELSE IF Core \in targets THEN "core" ELSE "assets",
              [Started("upgrade") EXCEPT !.targets = targets])
  BY DEF Upgrade
<1>2. "upgrade" \in Ops
  BY DEF Ops, Changes
<1>3. /\ Started("upgrade") \in Jobs
      /\ Started("upgrade").op = "upgrade" /\ Started("upgrade").targets = {}
      /\ Started("upgrade").cand = NoTriple /\ Started("upgrade").kind = Core
      /\ Started("upgrade").old = state /\ Started("upgrade").undoing = FALSE
      /\ Started("upgrade").tested = NoTriple /\ Started("upgrade").clean = TRUE
  BY <1>2, StartedIs
<1> DEFINE record == [Started("upgrade") EXCEPT !.targets = targets]
<1>4. record \in Jobs
  BY <1>3 DEF Jobs, Kinds
<1>5. /\ record.op = "upgrade" /\ record.targets = targets /\ record.cand = NoTriple
      /\ record.old = state /\ record.undoing = FALSE /\ record.tested = NoTriple
      /\ record.clean = TRUE /\ record.was = Started("upgrade").was
  BY <1>3 DEF Jobs
<1>6. /\ job' = record /\ pc = "idle" /\ ops < MaxOps /\ ops' = ops + 1
      /\ pc' = IF links[Config].cur \notin dirs[Config] THEN "refused"
               ELSE IF Core \in targets THEN "core" ELSE "assets"
      /\ UNCHANGED <<store, host, service>>
  BY <1>1 DEF Begin, Goto
<1> HIDE DEF record
<1>7. Core \notin targets => Assets \in targets
  BY <1>1
<1>8. /\ Started("upgrade").was.synced = (links = state.at)
      /\ links = state.at => Started("upgrade").was.links = links
      /\ Started("upgrade").was.sound = Sound(Current)
  BY <1>2, StartedIs
<1>9. Begins
  BY <1>4, <1>5, <1>6, <1>8 DEF Begins
<1> QED BY <1>5, <1>6, <1>7, <1>9

LEMMA RollbackDoes ==
    ASSUME TypeInv, Rollback
    PROVE  /\ Begins /\ job'.op = "rollback" /\ job'.old = state
           /\ job'.cand = [NoTriple EXCEPT ![job'.kind] = links[job'.kind].prev]
           /\ \/ pc' = "refused" /\ links[job'.kind].prev = None
              \/ pc' = "switchPrev" /\ links[job'.kind].prev # None
<1>1. PICK k \in Kinds :
        Begin(IF links[k].prev = None THEN "refused" ELSE "switchPrev",
              [Started("rollback") EXCEPT !.cand[k] = links[k].prev, !.kind = k])
  BY DEF Rollback
<1>2. "rollback" \in Ops
  BY DEF Ops, Changes
<1>3. /\ Started("rollback") \in Jobs
      /\ Started("rollback").op = "rollback" /\ Started("rollback").targets = {}
      /\ Started("rollback").cand = NoTriple /\ Started("rollback").kind = Core
      /\ Started("rollback").old = state /\ Started("rollback").undoing = FALSE
      /\ Started("rollback").tested = NoTriple /\ Started("rollback").clean = TRUE
  BY <1>2, StartedIs
<1> DEFINE record == [Started("rollback") EXCEPT !.cand[k] = links[k].prev, !.kind = k]
<1>4. [NoTriple EXCEPT ![k] = links[k].prev] \in NameTables
  BY EmptyTables, TypeIs, Entries, NameTableChange
<1>5. record = [Started("rollback") EXCEPT !.cand = [NoTriple EXCEPT ![k] = links[k].prev],
                                           !.kind = k]
  BY <1>3
<1>6. record \in Jobs
  BY <1>4, <1>5, <1>3 DEF Jobs
<1>7. /\ record.op = "rollback" /\ record.cand = [NoTriple EXCEPT ![k] = links[k].prev]
      /\ record.old = state /\ record.undoing = FALSE /\ record.tested = NoTriple
      /\ record.clean = TRUE /\ record.was = Started("rollback").was /\ record.kind = k
  BY <1>5, <1>3 DEF Jobs
<1>8. /\ job' = record /\ pc = "idle" /\ ops < MaxOps /\ ops' = ops + 1
      /\ pc' = IF links[k].prev = None THEN "refused" ELSE "switchPrev"
      /\ UNCHANGED <<store, host, service>>
  BY <1>1 DEF Begin, Goto
<1> HIDE DEF record
<1>9. /\ Started("rollback").was.synced = (links = state.at)
      /\ links = state.at => Started("rollback").was.links = links
      /\ Started("rollback").was.sound = Sound(Current)
  BY <1>2, StartedIs
<1>10. Begins
  BY <1>6, <1>7, <1>8, <1>9 DEF Begins
<1> QED BY <1>7, <1>8, <1>10

LEMMA RemoveDoes ==
    ASSUME TypeInv, Remove
    PROVE  /\ Begins /\ pc' = "stop" /\ job'.op \in {"uninstall", "purge"}
           /\ job'.cand = NoTriple /\ job'.old = state
<1>1. PICK op \in {"uninstall", "purge"} : Begin("stop", Started(op))
  BY DEF Remove
<1>2. op \in Ops /\ op # "none"
  BY DEF Ops
<1> QED BY <1>1, <1>2, StartedIs DEF Begins, Begin, Goto

\* What is undone next.
LEMMA UndoDoes ==
    ASSUME NEW kinds \in SUBSET Kinds, NEW j \in Jobs, Undo(kinds, j)
    PROVE  /\ job' \in Jobs /\ Keeps(j)
           /\ job'.cand = j.cand /\ job'.undoing = j.undoing /\ job'.clean = j.clean
           /\ kinds = {} => /\ job'.kind = j.kind
                            /\ pc' = IF j.undoing THEN "writeOld" ELSE "failed"
           /\ kinds # {} => /\ pc' = "undoCur" /\ job'.kind \in kinds
                            /\ \A k \in kinds : job'.kind >= k
<1> DEFINE kind == IF kinds = {} THEN j.kind ELSE Greatest(kinds)
<1>1. kind \in Kinds /\ (kinds # {} => kind \in kinds /\ \A k \in kinds : kind >= k)
  BY GreatestIs DEF Jobs
<1>2. job' = [j EXCEPT !.kind = kind]
  BY DEF Undo
<1>3. pc' = IF kinds # {} THEN "undoCur" ELSE IF j.undoing THEN "writeOld" ELSE "failed"
  BY DEF Undo, Goto
<1>4. kinds = {} => kind = j.kind
  OBVIOUS
<1> HIDE DEF kind
<1>5. job' \in Jobs
  BY <1>1, <1>2 DEF Jobs
<1>6. /\ Keeps(j) /\ job'.kind = kind
      /\ job'.cand = j.cand /\ job'.undoing = j.undoing /\ job'.clean = j.clean
  BY <1>2 DEF Jobs, Keeps
<1> QED BY <1>1, <1>3, <1>4, <1>5, <1>6

LEMMA ActivationFailedDoes ==
    ASSUME TypeInv, ActivationFailed
    PROVE  /\ job' \in Jobs /\ Keeps(job) /\ job'.undoing = TRUE /\ job'.clean = job.clean
           /\ job.op = "rollback" =>
                /\ job'.kind = job.kind
                /\ links[job.kind].prev # None =>
                    /\ pc' = "switchPrev"
                    /\ job'.cand = [job.cand EXCEPT ![job.kind] = links[job.kind].prev]
                /\ links[job.kind].prev = None => pc' = "writeOld" /\ job'.cand = job.cand
           /\ job.op # "rollback" =>
                /\ job'.cand = job.cand
                /\ Changed = {} => pc' = "writeOld" /\ job'.kind = job.kind
                /\ Changed # {} => /\ pc' = "undoCur" /\ job'.kind \in Changed
                                   /\ \A k \in Changed : job'.kind >= k
<1> DEFINE j == [job EXCEPT !.undoing = TRUE]
           p == links[job.kind].prev
<1>1. /\ j \in Jobs /\ j.undoing = TRUE /\ j.clean = job.clean /\ j.cand = job.cand
      /\ j.kind = job.kind /\ j.op = job.op /\ j.targets = job.targets /\ j.old = job.old
      /\ j.hadCore = job.hadCore /\ j.tested = job.tested /\ j.was = job.was
  BY TypeIs DEF Jobs
<1>2. CASE job.op = "rollback" /\ p # None
  <2>1. job' = [j EXCEPT !.cand[job.kind] = p] /\ pc' = "switchPrev"
    BY <1>2 DEF ActivationFailed, Goto
  <2>2. [job.cand EXCEPT ![job.kind] = p] \in NameTables
    BY TypeIs, Entries, NameTableChange
  <2> HIDE DEF j, p
  <2>3. job' = [j EXCEPT !.cand = [job.cand EXCEPT ![job.kind] = p]]
    BY <1>1, <2>1
  <2>4. job' \in Jobs
    BY <1>1, <2>2, <2>3 DEF Jobs
  <2>5. /\ Keeps(job) /\ job'.undoing = TRUE /\ job'.clean = job.clean
        /\ job'.kind = job.kind /\ job'.cand = [job.cand EXCEPT ![job.kind] = p]
    BY <1>1, <2>3 DEF Keeps, Jobs
  <2> QED BY <1>2, <2>1, <2>4, <2>5 DEF p
<1>3. CASE ~(job.op = "rollback" /\ p # None)
  <2>1. Undo(IF job.op = "rollback" THEN {} ELSE Changed, j)
    BY <1>3 DEF ActivationFailed
  <2> HIDE DEF j
  <2>2. CASE job.op = "rollback"
    BY <1>1, <1>3, <2>1, <2>2, UndoDoes, TypeIs DEF Keeps
  <2>3. CASE job.op # "rollback"
    BY <1>1, <2>1, <2>3, UndoDoes, TypeIs DEF Keeps
  <2> QED BY <2>2, <2>3
<1> QED BY <1>2, <1>3

LEMMA SwitchFailsDoes ==
    ASSUME TypeInv, NEW clean \in BOOLEAN, SwitchFails(clean)
    PROVE  /\ job' \in Jobs /\ Keeps(job)
           /\ job'.cand = job.cand /\ job'.undoing = job.undoing
           /\ job'.clean <=> job.clean /\ clean
           /\ job.undoing => pc' = "writeOld" /\ job'.kind = job.kind
           /\ ~job.undoing /\ Earlier = {} => pc' = "failed" /\ job'.kind = job.kind
           /\ ~job.undoing /\ Earlier # {} => /\ pc' = "undoCur" /\ job'.kind \in Earlier
                                              /\ \A k \in Earlier : job'.kind >= k
<1> DEFINE j == [job EXCEPT !.clean = @ /\ clean]
<1>1. /\ j \in Jobs /\ j.undoing = job.undoing /\ j.clean = (job.clean /\ clean)
      /\ j.cand = job.cand /\ j.kind = job.kind /\ j.op = job.op /\ j.targets = job.targets
      /\ j.old = job.old /\ j.hadCore = job.hadCore /\ j.tested = job.tested
      /\ j.was = job.was
  BY TypeIs DEF Jobs
<1>2. Undo(IF job.undoing THEN {} ELSE Earlier, j)
  BY DEF SwitchFails
<1> HIDE DEF j
<1>3. CASE job.undoing
  BY <1>1, <1>2, <1>3, UndoDoes, TypeIs DEF Keeps
<1>4. CASE ~job.undoing
  BY <1>1, <1>2, <1>4, UndoDoes, TypeIs DEF Keeps
<1> QED BY <1>3, <1>4

LEMMA SwitchesDoes ==
    ASSUME TypeInv, NEW cand \in NameTables, NEW tested \in NameTables,
           Switches(cand, tested)
    PROVE  /\ job' \in Jobs /\ job'.op = job.op /\ job'.cand = cand /\ job'.tested = tested
           /\ job'.old = state /\ job'.was = job.was /\ job'.undoing = job.undoing
           /\ job'.clean = job.clean
           /\ (\A k \in Kinds : cand[k] = None) => pc' = "write"
           /\ (\E k \in Kinds : cand[k] # None) =>
                /\ pc' = "switchPrev" /\ cand[job'.kind] # None
                /\ \A k \in Kinds : k < job'.kind => cand[k] = None
<1> DEFINE todo == {k \in Kinds : cand[k] # None}
           kind == IF todo = {} THEN Core ELSE Least(todo)
           had == links[Core].cur \in dirs[Core]
<1>1. /\ kind \in Kinds /\ had \in BOOLEAN
      /\ todo # {} => kind \in todo /\ \A k \in todo : kind <= k
  BY LeastIs DEF Kinds
<1>2. /\ job' = [job EXCEPT !.cand = cand, !.tested = tested, !.old = state, !.targets = {},
                            !.kind = kind, !.hadCore = had]
      /\ pc' = IF todo # {} THEN "switchPrev" ELSE "write"
  BY DEF Switches, Goto
<1> HIDE DEF kind, had
<1>3. job' \in Jobs
  BY <1>1, <1>2, TypeIs DEF Jobs
<1>4. /\ job'.op = job.op /\ job'.cand = cand /\ job'.tested = tested /\ job'.kind = kind
      /\ job'.old = state /\ job'.was = job.was /\ job'.undoing = job.undoing
      /\ job'.clean = job.clean
  BY <1>2, TypeIs DEF Jobs
<1>5. \A k \in Kinds : k < kind => k \notin todo \/ todo = {}
  BY <1>1, KindsAre
<1> QED BY <1>1, <1>2, <1>3, <1>4, <1>5

\* A change of one field of the record.
LEMMA CleanChange ==
    ASSUME job \in Jobs, NEW j, j = [job EXCEPT !.clean = FALSE]
    PROVE  /\ j \in Jobs /\ j.clean = FALSE
           /\ j.op = job.op /\ j.targets = job.targets /\ j.cand = job.cand
           /\ j.kind = job.kind /\ j.old = job.old /\ j.hadCore = job.hadCore
           /\ j.undoing = job.undoing /\ j.tested = job.tested /\ j.was = job.was
BY DEF Jobs

LEMMA KindChange ==
    ASSUME job \in Jobs, NEW kind \in Kinds, NEW j, j = [job EXCEPT !.kind = kind]
    PROVE  /\ j \in Jobs /\ j.kind = kind
           /\ j.op = job.op /\ j.targets = job.targets /\ j.cand = job.cand
           /\ j.clean = job.clean /\ j.old = job.old /\ j.hadCore = job.hadCore
           /\ j.undoing = job.undoing /\ j.tested = job.tested /\ j.was = job.was
BY DEF Jobs

LEMMA AsideChange ==
    ASSUME job \in Jobs, NEW j, j = [job EXCEPT !.aside = TRUE]
    PROVE  /\ j \in Jobs /\ j.kind = job.kind
           /\ j.op = job.op /\ j.targets = job.targets /\ j.cand = job.cand
           /\ j.clean = job.clean /\ j.old = job.old /\ j.hadCore = job.hadCore
           /\ j.undoing = job.undoing /\ j.tested = job.tested /\ j.was = job.was
BY DEF Jobs

LEMMA CandidateDoes ==
    ASSUME TypeInv, NEW k \in Kinds, NEW n \in NamesOf(k) \cup {None},
           job' = [job EXCEPT !.cand[k] = n]
    PROVE  /\ job' \in Jobs /\ Keeps(job) /\ job'.kind = job.kind
           /\ job'.undoing = job.undoing /\ job'.clean = job.clean /\ job'.cand[k] = n
           /\ \A i \in Kinds : i # k => job'.cand[i] = job.cand[i]
<1> DEFINE cand == [job.cand EXCEPT ![k] = n]
<1>1. cand \in NameTables /\ cand[k] = n /\ \A i \in Kinds : i # k => cand[i] = job.cand[i]
  BY TypeIs, NameTableChange DEF NameTables, Triples
<1>2. job' = [job EXCEPT !.cand = cand]
  OBVIOUS
<1> HIDE DEF cand
<1>3. /\ job' \in Jobs /\ Keeps(job) /\ job'.kind = job.kind
      /\ job'.undoing = job.undoing /\ job'.clean = job.clean /\ job'.cand = cand
  BY <1>1, <1>2, TypeIs DEF Jobs, Keeps
<1> QED BY <1>1, <1>3

LEMMA CoreReadyDoes ==
    ASSUME TypeInv, NEW v \in NamesOf(Core) \cup {None}, CoreReady(v)
    PROVE  /\ job' \in Jobs /\ Keeps(job) /\ job'.kind = job.kind
           /\ job'.undoing = job.undoing /\ job'.clean = job.clean
           /\ job'.cand[Core] = v
           /\ \A i \in Kinds : i # Core => job'.cand[i] = job.cand[i]
           /\ pc' = IF Assets \in job.targets THEN "assets" ELSE "test"
<1> DEFINE cand == [job.cand EXCEPT ![Core] = v]
<1>1. cand \in NameTables /\ cand[Core] = v /\ \A i \in Kinds : i # Core => cand[i] = job.cand[i]
  BY TypeIs, KindsAre, NameTableChange DEF NameTables, Triples
<1>2. job' = [job EXCEPT !.cand = cand, !.aside = FALSE]
  BY DEF CoreReady
<1> HIDE DEF cand
<1>3. /\ job' \in Jobs /\ Keeps(job) /\ job'.kind = job.kind
      /\ job'.undoing = job.undoing /\ job'.clean = job.clean /\ job'.cand = cand
  BY <1>1, <1>2, TypeIs DEF Jobs, Keeps
<1> QED BY <1>1, <1>3 DEF CoreReady, Goto

\* Pruning takes nothing that is linked.
LEMMA PruneDoes ==
    ASSUME TypeInv, Prune
    PROVE  /\ dirs' \in DirTables
           /\ \A k \in Kinds : /\ dirs'[k] \subseteq dirs[k]
                               /\ dirs[k] \cap Linked(links[k]) \subseteq dirs'[k]
<1>1. PICK c \in Kept(Core), a \in Kept(Assets), g \in SUBSET dirs[Config] :
        /\ dirs' = [dirs EXCEPT ![Core] = c, ![Assets] = a, ![Config] = g]
        /\ dirs[Config] \cap Linked(links[Config]) \subseteq g
  BY DEF Prune, Kept
<1>2. /\ c \in SUBSET NamesOf(Core) /\ a \in SUBSET NamesOf(Assets)
      /\ g \in SUBSET NamesOf(Config)
  BY TypeIs, Entries, KindsAre DEF Kept
<1>3. dirs' \in DirTables
  BY <1>1, <1>2, TypeIs, KindsAre, DirTableChange
<1>4. dirs'[Core] = c /\ dirs'[Assets] = a /\ dirs'[Config] = g
  BY <1>1, TypeIs, KindsAre DEF DirTables
<1> QED BY <1>1, <1>3, <1>4, KindsAre DEF Kept

\* The two halves of a switch, seen from all the links.
LEMMA HalfSwitched ==
    ASSUME TypeInv, links' = [links EXCEPT ![job.kind] = LinkPrevious(@)]
    PROVE  /\ links'[job.kind] = LinkPrevious(links[job.kind])
           /\ \A k \in Kinds : k # job.kind => links'[k] = links[k]
           /\ \A k \in Kinds : links'[k].cur = links[k].cur
<1>1. /\ links'[job.kind] = LinkPrevious(links[job.kind])
      /\ \A k \in Kinds : k # job.kind => links'[k] = links[k]
  BY TypeIs DEF LinkTables
<1>2. links[job.kind] \in Links(NamesOf(job.kind))
  BY TypeIs, Entries
<1>3. LinkPrevious(links[job.kind]).cur = links[job.kind].cur
  BY <1>2 DEF LinkPrevious, Links
<1> QED BY <1>1, <1>3

LEMMA Switched ==
    ASSUME TypeInv, links' = [links EXCEPT ![job.kind] = LinkCurrent(@, job.cand[job.kind])]
    PROVE  /\ links'[job.kind] = LinkCurrent(links[job.kind], job.cand[job.kind])
           /\ \A k \in Kinds : k # job.kind => links'[k] = links[k]
           /\ links'[job.kind].cur = job.cand[job.kind]
           /\ links'[job.kind].prev = links[job.kind].prev
<1>1. /\ links'[job.kind] = LinkCurrent(links[job.kind], job.cand[job.kind])
      /\ \A k \in Kinds : k # job.kind => links'[k] = links[k]
  BY TypeIs DEF LinkTables
<1>2. links[job.kind] \in Links(NamesOf(job.kind))
  BY TypeIs, Entries
<1>3. /\ LinkCurrent(links[job.kind], job.cand[job.kind]).cur = job.cand[job.kind]
      /\ LinkCurrent(links[job.kind], job.cand[job.kind]).prev = links[job.kind].prev
  BY <1>2 DEF LinkCurrent, Links
<1> QED BY <1>1, <1>3
--------------------------------------------------------------------------------
(* The types.                                                              *)

LEMMA TypeInit == Init => TypeInv /\ FreshInv
<1> SUFFICES ASSUME Init PROVE TypeInv /\ FreshInv
  OBVIOUS
<1>1. links \in LinkTables /\ dirs \in DirTables /\ running \in NameTables
  <2>1. links \in LinkTables
    BY EmptyTables DEF Init, NoState
  <2>2. [k \in Kinds |-> {}] \in DirTables
    BY DEF DirTables
  <2> QED BY <2>1, <2>2, EmptyTables DEF Init
<1>2. /\ nextGen \in 1..(MaxGen + 1) /\ ops \in 0..MaxOps /\ damaged = {}
      /\ \A k \in Kinds : dirs[k] = {}
  BY InstallerAssumption DEF Init
<1> QED BY <1>1, <1>2, EmptyTables, NoJobIsJob, KindsAre
    DEF Init, TypeInv, Labels, FreshInv, Used

\* The fields of state.json that the steps change.
LEMMA StateChange ==
    ASSUME state \in States
    PROVE  /\ [state EXCEPT !.created = TRUE] \in States
           /\ \A at \in LinkTables : [state EXCEPT !.at = at] \in States
BY DEF States

\* What removal leaves of the tables, however far it comes.
LEMMA RemovedAllIs ==
    ASSUME TypeInv, NEW gone \in SUBSET Kinds, RemovedAll(gone)
    PROVE  /\ links' \in LinkTables /\ dirs' \in DirTables
           /\ \A k \in Kinds : dirs'[k] \subseteq dirs[k]
<1>1. links \in LinkTables /\ dirs \in DirTables
  BY TypeIs
<1>2. \A k \in Kinds : NoLinks \in Links(NamesOf(k)) /\ NoLinks \in Links(AllNames)
  BY DEF NoLinks, Links
<1>3. links' \in LinkTables
  BY <1>1, <1>2 DEF RemovedAll, LinkTables
<1>4. dirs' \in DirTables
  BY <1>1 DEF RemovedAll, DirTables
<1>5. \A k \in Kinds : dirs'[k] \subseteq dirs[k]
  BY DEF RemovedAll
<1> QED BY <1>3, <1>4, <1>5

LEMMA RemovedPartIs ==
    ASSUME TypeInv, NEW at \in Kinds, NEW gone \in SUBSET Kinds, RemovedPart(gone, at)
    PROVE  /\ links' \in LinkTables /\ dirs' \in DirTables
           /\ damaged' \subseteq damaged \cup dirs[at]
           /\ \A k \in Kinds : dirs'[k] \subseteq dirs[k]
<1>1. links \in LinkTables /\ dirs \in DirTables
  BY TypeIs
<1>2. \A k \in Kinds : NoLinks \in Links(NamesOf(k)) /\ NoLinks \in Links(AllNames)
  BY DEF NoLinks, Links
<1>3. PICK l \in [cur : {None, links[at].cur}, prev : {None, links[at].prev}],
           left \in SUBSET dirs[at] :
        /\ links' = [k \in Kinds |-> IF k \in gone THEN NoLinks
                                    ELSE IF k = at THEN l ELSE links[k]]
        /\ dirs' = [k \in Kinds |-> IF k \in gone THEN {}
                                   ELSE IF k = at THEN left ELSE dirs[k]]
        /\ damaged' = damaged \/ \E torn \in left : damaged' = damaged \cup {torn}
  BY DEF RemovedPart
<1>4. links' \in LinkTables
  <2>1. links[at].cur \in NamesOf(at) \cup {None} /\ links[at].prev \in NamesOf(at) \cup {None}
    BY <1>1, Entries
  <2>2. l \in Links(NamesOf(at)) /\ l \in Links(AllNames)
    BY <2>1, NamesInAll DEF Links
  <2> HIDE DEF LinkTables
  <2>3. \A k \in Kinds : links[k] \in Links(NamesOf(k)) /\ links[k] \in Links(AllNames)
    BY <1>1 DEF LinkTables
  <2> QED BY <1>2, <1>3, <2>2, <2>3 DEF LinkTables
<1>5. dirs' \in DirTables
  BY <1>1, <1>3 DEF DirTables
<1>6. \A k \in Kinds : dirs'[k] \subseteq dirs[k]
  BY <1>3
<1>7. damaged' \subseteq damaged \cup dirs[at]
  BY <1>3
<1> QED BY <1>4, <1>5, <1>6, <1>7

\* The same of the two steps that remove artifacts.
LEMMA RemovalDoes ==
    ASSUME TypeInv, RemoveState \/ RemoveOpt
    PROVE  /\ links' \in LinkTables /\ dirs' \in DirTables
           /\ \A k \in Kinds : dirs'[k] \subseteq dirs[k]
           /\ \A n \in damaged' : n \in damaged \/ \E k \in Kinds : n \in dirs[k]
<1>1. CASE RemoveState
  <2>1. CASE RemovedAll({Config}) /\ damaged' = damaged
    BY <2>1, RemovedAllIs, KindsAre
  <2>2. CASE RemovedPart({}, Config)
    <3>1. damaged' \subseteq damaged \cup dirs[Config]
      BY <2>2, RemovedPartIs, KindsAre
    <3> QED BY <2>2, <3>1, RemovedPartIs, KindsAre
  <2> QED BY <1>1, <2>1, <2>2 DEF RemoveState
<1>2. CASE RemoveOpt
  <2>1. CASE RemovedAll({Core, Assets}) /\ damaged' = {}
    BY <2>1, RemovedAllIs, KindsAre
  <2>2. ASSUME NEW at \in {Core, Assets}, NEW gone \in SUBSET {Core, Assets},
               RemovedPart(gone, at)
        PROVE  /\ links' \in LinkTables /\ dirs' \in DirTables
               /\ \A k \in Kinds : dirs'[k] \subseteq dirs[k]
               /\ \A n \in damaged' : n \in damaged \/ \E k \in Kinds : n \in dirs[k]
    <3>1. at \in Kinds /\ gone \in SUBSET Kinds
      BY KindsAre
    <3> QED BY <2>2, <3>1, RemovedPartIs
  <2> QED BY <1>2, <2>1, <2>2 DEF RemoveOpt
<1> QED BY <1>1, <1>2

LEMMA TypeStep ==
    ASSUME TypeInv, PathInv, Next
    PROVE  TypeInv'
<1> USE TypeIs DEF Goto, Fails, FailsHalfway, Refuses, store, host, service
<1>1. CASE Install \/ Upgrade \/ Rollback \/ Remove
  <2>1. Begins /\ pc' \in Labels
    BY <1>1, InstallDoes, UpgradeDoes, RollbackDoes, RemoveDoes DEF Labels
  <2> QED BY <2>1, InstallerAssumption DEF Begins, TypeInv
<1>2. CASE UNCHANGED vars
  BY <1>2 DEF vars, TypeInv
<1>3. ASSUME UNCHANGED ops, Return \/ Crash
      PROVE  TypeInv'
  BY <1>3, NoJobIsJob DEF Return, Crash, Ended, TypeInv, Labels
<1>4. ASSUME UNCHANGED ops, EnsureGroup \/ RecordCreated \/ WriteUnits
      PROVE  TypeInv'
  BY <1>4, StateChange DEF EnsureGroup, RecordCreated, WriteUnits, TypeInv, Labels
<1>5. ASSUME UNCHANGED ops, PrepareCore
      PROVE  TypeInv'
  <2>1. ASSUME NEW v \in NamesOf(Core) \cup {None}, CoreReady(v), UNCHANGED <<store, host, service>>
        PROVE  TypeInv'
    BY <1>5, <2>1, CoreReadyDoes DEF TypeInv, Labels
  <2>2. ASSUME NEW v \in NamesOf(Core), job' = [job EXCEPT !.cand[Core] = v],
               UNCHANGED <<store, host, service>>, pc' \in {"quarantine", "place"}
        PROVE  TypeInv'
    BY <1>5, <2>2, CandidateDoes, KindsAre DEF TypeInv, Labels
  <2>3. links[Core].cur \in NamesOf(Core) \cup {None} /\ NamesOf(Core) = Versions
    BY Entries, KindsAre DEF NamesOf
  <2>4. ASSUME Fails, UNCHANGED <<store, host, service>>
        PROVE  TypeInv'
    BY <1>5, <2>4 DEF TypeInv, Labels
  <2> QED BY <1>5, <2>1, <2>2, <2>3, <2>4 DEF PrepareCore
<1>6. ASSUME UNCHANGED ops, QuarantineCore \/ PlaceCore \/ CheckCore \/ RestoreQuarantined
      PROVE  TypeInv'
  <2>1. /\ job.cand[Core] \in NamesOf(Core) \cup {None}
        /\ dirs[Core] \in SUBSET NamesOf(Core)
        /\ [job EXCEPT !.aside = TRUE] \in Jobs
    BY Entries, KindsAre, AsideChange
  <2>2. CoreReady(job.cand[Core]) => job' \in Jobs /\ pc' \in Labels
    BY <2>1, CoreReadyDoes DEF Labels
  <2>3. [dirs EXCEPT ![Core] = @ \ {job.cand[Core]}] \in DirTables
    BY <2>1, KindsAre, DirTableChange
  <2>4. pc \in Placing =>
            WithCandidate \in DirTables /\ damaged \cup {job.cand[Core]} \subseteq AllNames
    <3> SUFFICES ASSUME pc \in Placing
                 PROVE  WithCandidate \in DirTables
                        /\ damaged \cup {job.cand[Core]} \subseteq AllNames
      OBVIOUS
    <3>1. job.cand[Core] \in NamesOf(Core)
      BY <2>1 DEF PathInv, PreparingInv, Preparing, Placing
    <3> QED BY <2>1, <3>1, KindsAre, DirTableChange, NamesInAll DEF WithCandidate, TypeInv
  <2>5. damaged \ {job.cand[Core]} \subseteq AllNames
    BY DEF TypeInv
  <2>6. CASE QuarantineCore
    BY <1>6, <2>1, <2>3, <2>5, <2>6 DEF QuarantineCore, TypeInv, Labels
  <2>7. CASE PlaceCore
    BY <1>6, <2>4, <2>5, <2>7 DEF PlaceCore, PutBack, Placing, TypeInv, Labels
  <2>8. CASE CheckCore
    BY <1>6, <2>2, <2>3, <2>8 DEF CheckCore, TypeInv, Labels
  <2>9. CASE RestoreQuarantined
    BY <1>6, <2>4, <2>9 DEF RestoreQuarantined, PutBack, Placing, TypeInv, Labels
  <2> QED BY <1>6, <2>6, <2>7, <2>8, <2>9
<1>7. ASSUME UNCHANGED ops, PrepareAssets
      PROVE  TypeInv'
  <2>1. ASSUME NEW n \in NamesOf(Assets) \cup {None}
        PROVE  job' = [job EXCEPT !.cand[Assets] = n] => job' \in Jobs
    BY <2>1, KindsAre, CandidateDoes
  <2>2. links[Assets].cur \in NamesOf(Assets) \cup {None}
    BY Entries, KindsAre
  <2>3. nextGen <= MaxGen =>
            /\ nextGen \in NamesOf(Assets) /\ nextGen + 1 \in 1..(MaxGen + 1)
            /\ [dirs EXCEPT ![Assets] = @ \cup {nextGen}] \in DirTables
    <3>1. nextGen <= MaxGen => nextGen \in NamesOf(Assets) /\ nextGen + 1 \in 1..(MaxGen + 1)
      BY KindsAre, InstallerAssumption DEF NamesOf, TypeInv
    <3>2. dirs[Assets] \in SUBSET NamesOf(Assets)
      BY Entries, KindsAre
    <3> QED BY <3>1, <3>2, KindsAre, DirTableChange
  <2>4. CASE Reusable(Assets) /\ job' = [job EXCEPT !.cand[Assets] = links[Assets].cur]
             /\ pc' = "test" /\ UNCHANGED <<dirs, nextGen>>
    BY <1>7, <2>1, <2>2, <2>4 DEF PrepareAssets, TypeInv, Labels
  <2>5. CASE nextGen <= MaxGen /\ job' = [job EXCEPT !.cand[Assets] = nextGen]
             /\ dirs' = [dirs EXCEPT ![Assets] = @ \cup {nextGen}]
             /\ nextGen' = nextGen + 1 /\ pc' = "test"
    BY <1>7, <2>1, <2>3, <2>5 DEF PrepareAssets, TypeInv, Labels
  <2>6. CASE Fails /\ UNCHANGED <<dirs, nextGen>>
    BY <1>7, <2>6 DEF PrepareAssets, TypeInv, Labels
  <2> QED BY <1>7, <2>4, <2>5, <2>6 DEF PrepareAssets
<1>8. ASSUME UNCHANGED ops, TestUpgrade
      PROVE  TypeInv'
  <2>1. Candidates \in NameTables /\ Outcome(Candidates) \in NameTables
    BY CandidatesIsTable, OutcomeIsTable
  <2>2. Switches(Candidates, Outcome(Candidates)) => job' \in Jobs /\ pc' \in Labels
    BY <2>1, SwitchesDoes DEF Switches, Labels
  <2> QED BY <1>8, <2>2 DEF TestUpgrade, TypeInv, Labels
<1>9. ASSUME UNCHANGED ops, TestInstall
      PROVE  TypeInv'
  <2>1. Candidates \in NameTables /\ Outcome(job.cand) \in NameTables
    BY CandidatesIsTable, OutcomeIsTable
  <2>2. nextGen <= MaxGen =>
            /\ nextGen \in NamesOf(Config) /\ nextGen + 1 \in 1..(MaxGen + 1)
            /\ [dirs EXCEPT ![Config] = @ \cup {nextGen}] \in DirTables
            /\ [Candidates EXCEPT ![Config] = nextGen] \in NameTables
            /\ [job.cand EXCEPT ![Config] = nextGen] \in NameTables
    <3>1. nextGen <= MaxGen => nextGen \in NamesOf(Config) /\ nextGen + 1 \in 1..(MaxGen + 1)
      BY KindsAre, InstallerAssumption DEF NamesOf, TypeInv
    <3>2. dirs[Config] \in SUBSET NamesOf(Config)
      BY Entries, KindsAre
    <3>3. nextGen <= MaxGen => [dirs EXCEPT ![Config] = @ \cup {nextGen}] \in DirTables
      BY <3>1, <3>2, KindsAre, DirTableChange
    <3>4. nextGen <= MaxGen => /\ [Candidates EXCEPT ![Config] = nextGen] \in NameTables
                               /\ [job.cand EXCEPT ![Config] = nextGen] \in NameTables
      BY <2>1, <3>1, KindsAre, NameTableChange
    <3> QED BY <3>1, <3>3, <3>4
  <2>3. \A cand, tested \in NameTables :
            Switches(cand, tested) => job' \in Jobs /\ pc' \in Labels
    BY SwitchesDoes DEF Switches, Labels
  <2>4. \/ job' \in Jobs /\ pc' \in Labels /\ UNCHANGED <<dirs, nextGen>>
        \/ /\ nextGen <= MaxGen /\ nextGen' = nextGen + 1
           /\ dirs' = [dirs EXCEPT ![Config] = @ \cup {nextGen}]
           /\ job' \in Jobs /\ pc' \in Labels
    BY <1>9, <2>1, <2>2, <2>3 DEF TestInstall, Labels
  <2> QED BY <1>9, <2>2, <2>4 DEF TestInstall, TypeInv
<1>10. ASSUME UNCHANGED ops, SwitchPrevious \/ SwitchCurrent \/ RestoreCurrent \/ RestorePrevious
       PROVE  TypeInv'
  <2> DEFINE k == job.kind
  <2>1. /\ links[k] \in Links(NamesOf(k)) /\ job.cand[k] \in NamesOf(k) \cup {None}
        /\ job.old.at[k].cur \in NamesOf(k) \cup {None}
        /\ job.old.at[k].prev \in NamesOf(k) \cup {None}
    BY Entries
  <2>2. /\ [links EXCEPT ![k] = LinkPrevious(@)] \in LinkTables
        /\ [links EXCEPT ![k] = LinkCurrent(@, job.cand[k])] \in LinkTables
        /\ [links EXCEPT ![k] = PointCurrent(@, job.old.at[k].cur)] \in LinkTables
        /\ [links EXCEPT ![k] = PointPrevious(@, job.old.at[k].prev)] \in LinkTables
    BY <2>1, SwitchedLinks, LinkTableChange
  <2>3. \A clean \in BOOLEAN : SwitchFails(clean) => job' \in Jobs /\ pc' \in Labels
    BY SwitchFailsDoes DEF Labels
  <2>4. /\ Undo(Earlier, job) => job' \in Jobs /\ pc' \in Labels
        /\ Undo(Earlier, [job EXCEPT !.clean = FALSE]) => job' \in Jobs /\ pc' \in Labels
    BY UndoDoes, CleanChange DEF Labels
  <2>5. CASE SwitchPrevious
    BY <1>10, <2>2, <2>3, <2>5 DEF SwitchPrevious, TypeInv, Labels
  <2>6. CASE SwitchCurrent
    <3> DEFINE later == {i \in Changed : i > job.kind}
    <3>1. later # {} => [job EXCEPT !.kind = Least(later)] \in Jobs
      BY LeastIs, KindChange
    <3> QED BY <1>10, <2>2, <2>3, <2>6, <3>1 DEF SwitchCurrent, TypeInv, Labels
  <2>7. CASE RestoreCurrent \/ RestorePrevious
    BY <1>10, <2>2, <2>4, <2>7 DEF RestoreCurrent, RestorePrevious, TypeInv, Labels
  <2> QED BY <1>10, <2>5, <2>6, <2>7
<1>11. ASSUME UNCHANGED ops, WriteState \/ RestoreState
       PROVE  TypeInv'
  <2>1. [state EXCEPT !.at = Recorded] \in States
    BY RecordedIsTable, StateChange
  <2>2. /\ Undo(Changed, job) => job' \in Jobs /\ pc' \in Labels
        /\ ActivationFailed => job' \in Jobs /\ pc' \in Labels
    BY UndoDoes, ActivationFailedDoes DEF Labels
  <2> QED BY <1>11, <2>1, <2>2, CleanChange DEF WriteState, RestoreState, TypeInv, Labels
<1>12. ASSUME UNCHANGED ops, Activate \/ HealthCheck \/ MarkHealthy \/ Reactivate
       PROVE  TypeInv'
  <2>1. ActivationFailed => job' \in Jobs /\ pc' \in Labels
    BY ActivationFailedDoes DEF Labels
  <2>2. StartXray \/ StartXrayFails => started' \in BOOLEAN /\ running' \in NameTables
    BY CurrentIsTable, EmptyTables DEF StartXray, StartXrayFails, TypeInv
  <2> QED BY <1>12, <2>1, <2>2, CleanChange
      DEF Activate, HealthCheck, MarkHealthy, Reactivate, Activated, Checked, TypeInv, Labels
<1>13. ASSUME UNCHANGED ops, Prune
       PROVE  TypeInv'
  BY <1>13, PruneDoes DEF Prune, TypeInv, Labels
<1>14. ASSUME UNCHANGED ops,
              \/ StopService \/ RemoveUnit \/ RemoveState \/ RemoveOpt \/ RemoveGroup
              \/ DaemonReload
       PROVE  TypeInv'
  <2>3. CASE StopService \/ RemoveUnit \/ RemoveGroup \/ DaemonReload
    BY <1>14, <2>3, EmptyTables
       DEF StopService, RemoveUnit, RemoveGroup, DaemonReload, TypeInv, Labels
  <2>4. CASE RemoveState \/ RemoveOpt
    <3>1. links' \in LinkTables /\ dirs' \in DirTables
      BY <2>4, RemovalDoes
    <3>2. damaged' \subseteq AllNames
      <4>1. \A k \in Kinds : dirs[k] \subseteq AllNames
        BY Entries, NamesInAll
      <4> QED BY <2>4, <4>1, RemovalDoes DEF TypeInv
    <3>3. /\ state' \in States /\ pc' \in Labels
          /\ UNCHANGED <<nextGen, group, unit, started, running, job>>
      BY <1>14, <2>4, EmptyTables DEF RemoveState, RemoveOpt, TypeInv, Labels
    <3> QED BY <1>14, <3>1, <3>2, <3>3 DEF TypeInv
  <2> QED BY <1>14, <2>3, <2>4
<1>15. ASSUME UNCHANGED ops, ApplyConfig
       PROVE  TypeInv'
  <2>1. nextGen \in NamesOf(Config) /\ nextGen + 1 \in 1..(MaxGen + 1)
    BY <1>15, KindsAre, InstallerAssumption DEF ApplyConfig, NamesOf, TypeInv
  <2>2. /\ [links EXCEPT ![Config] = LinkCurrent(LinkPrevious(@), nextGen)] \in LinkTables
        /\ [dirs EXCEPT ![Config] = @ \cup {nextGen}] \in DirTables
        /\ [Current EXCEPT ![Config] = nextGen] \in NameTables
    <3>1. links[Config] \in Links(NamesOf(Config)) /\ dirs[Config] \in SUBSET NamesOf(Config)
      BY Entries, KindsAre
    <3>2. LinkCurrent(LinkPrevious(links[Config]), nextGen) \in Links(NamesOf(Config))
      BY <2>1, <3>1, KindsAre, SwitchedLinks
    <3>3. [links EXCEPT ![Config] = LinkCurrent(LinkPrevious(@), nextGen)] \in LinkTables
      BY <3>2, KindsAre, LinkTableChange
    <3>4. [dirs EXCEPT ![Config] = @ \cup {nextGen}] \in DirTables
      BY <2>1, <3>1, KindsAre, DirTableChange
    <3>5. [Current EXCEPT ![Config] = nextGen] \in NameTables
      BY <2>1, KindsAre, NameTableChange, CurrentIsTable
    <3> QED BY <3>3, <3>4, <3>5
  <2>3. ASSUME NEW selected \in BOOLEAN,
               state' = [state EXCEPT !.at[Config] = [cur |-> nextGen, prev |-> @.cur],
                                      !.selected = selected]
        PROVE  state' \in States
    <3> DEFINE at == [state.at EXCEPT ![Config] = [cur |-> nextGen, prev |-> @.cur]]
    <3>1. at \in LinkTables
      <4>1. state.at[Config].cur \in NamesOf(Config) \cup {None}
        BY Entries, KindsAre
      <4>2. [cur |-> nextGen, prev |-> state.at[Config].cur] \in Links(NamesOf(Config))
        BY <2>1, <4>1 DEF Links
      <4> QED BY <4>2, KindsAre, LinkTableChange
    <3>2. state' = [state EXCEPT !.at = at, !.selected = selected]
      BY <2>3
    <3> HIDE DEF at
    <3> QED BY <3>1, <3>2 DEF States
  <2>4. state' \in States
    <3>1. {state.selected, TRUE} \subseteq BOOLEAN
      BY DEF States
    <3> QED BY <1>15, <2>3, <3>1 DEF ApplyConfig
  <2> QED BY <1>15, <2>1, <2>2, <2>4 DEF ApplyConfig, TypeInv
<1>16. ASSUME UNCHANGED ops, XrayExits \/ SystemdRestarts
       PROVE  TypeInv'
  BY <1>16, CurrentIsTable, EmptyTables DEF XrayExits, SystemdRestarts, StartXray, TypeInv
<1>17. ASSUME UNCHANGED ops, Damage
       PROVE  TypeInv'
  <2>1. PICK k \in Kinds :
            \/ damaged' = damaged \cup {links[k].cur} /\ UNCHANGED dirs
            \/ dirs' = [dirs EXCEPT ![k] = @ \ {links[k].cur}] /\ UNCHANGED damaged
    BY <1>17 DEF Damage
  <2>2. dirs[k] \in SUBSET NamesOf(k) /\ links[k].cur \in AllNames
    BY <1>17, Entries, CurrentIsTable, NamesInAll DEF Damage, Sound
  <2>3. [dirs EXCEPT ![k] = @ \ {links[k].cur}] \in DirTables
    BY <2>2, DirTableChange
  <2> QED BY <1>17, <2>1, <2>2, <2>3 DEF Damage, TypeInv
<1> QED
  BY <1>1, <1>2, <1>3, <1>4, <1>5, <1>6, <1>7, <1>8, <1>9, <1>10, <1>11, <1>12, <1>13,
     <1>14, <1>15, <1>16, <1>17
  DEF Next, Operation, Environment
--------------------------------------------------------------------------------
(* Fresh names.                                                            *)

LEMMA VersionsAreNoNumbers == \A v \in Versions : v \notin Nat
BY InstallerAssumption

LEMMA FreshStep ==
    ASSUME TypeInv, PathInv, FreshInv, Next
    PROVE  FreshInv'
<1> USE TypeIs, KindsAre DEF FreshInv, Used, store, host, service
<1>1. CASE UNCHANGED <<dirs, damaged, nextGen>>
  BY <1>1
<1>2. nextGen \in Nat
  BY DEF TypeInv
<1>3. dirs \in [Kinds -> SUBSET AllNames]
  BY DEF DirTables
<1>4. CASE QuarantineCore \/ PlaceCore \/ CheckCore \/ RestoreQuarantined
  <2>1. pc \in Placing => job.cand[Core] \notin Nat
    BY Entries, VersionsAreNoNumbers
       DEF PathInv, PreparingInv, Preparing, Placing, NamesOf
  <2> QED BY <1>3, <1>4, <2>1
      DEF QuarantineCore, PlaceCore, CheckCore, RestoreQuarantined, WithCandidate, PutBack,
          Placing
<1>5. CASE PrepareAssets \/ TestInstall \/ ApplyConfig
  BY <1>2, <1>3, <1>5 DEF PrepareAssets, TestInstall, ApplyConfig
<1>6. CASE Prune
  BY <1>6, PruneDoes DEF Prune
<1>7. CASE RemoveState \/ RemoveOpt
  <2>1. nextGen' = nextGen
    BY <1>7 DEF RemoveState, RemoveOpt
  <2>2. \A k \in Kinds : \A n \in dirs[k] : n \in Nat => n < nextGen
    <3>1. \A n \in dirs[Core] : n \notin Nat
      BY Entries, VersionsAreNoNumbers DEF NamesOf
    <3> QED BY <3>1
  <2>3. \A k \in Kinds : dirs'[k] \subseteq dirs[k]
    BY <1>7, RemovalDoes
  <2>4. \A n \in damaged' : n \in damaged \/ \E k \in Kinds : n \in dirs[k]
    BY <1>7, RemovalDoes
  <2> QED BY <2>1, <2>2, <2>3, <2>4
<1>8. CASE Damage
  <2>1. PICK k \in Kinds :
            \/ damaged' = damaged \cup {links[k].cur} /\ UNCHANGED dirs
            \/ dirs' = [dirs EXCEPT ![k] = @ \ {links[k].cur}] /\ UNCHANGED damaged
    BY <1>8 DEF Damage
  <2>2. links[k].cur \in dirs[k]
    BY <1>8, CurrentIsTable DEF Damage, Sound
  <2>3. links[k].cur \in Nat => links[k].cur < nextGen
    BY <2>2, Entries, VersionsAreNoNumbers DEF NamesOf
  <2>4. nextGen' = nextGen
    BY <1>8 DEF Damage
  <2> QED BY <1>3, <2>1, <2>3, <2>4
<1>9. CASE UNCHANGED vars
  BY <1>9 DEF vars
<1>10. CASE Install \/ Upgrade \/ Rollback \/ Remove
  BY <1>1, <1>10 DEF Install, Upgrade, Rollback, Remove, Begin
<1>11. CASE \/ EnsureGroup \/ RecordCreated \/ WriteUnits \/ PrepareCore \/ TestUpgrade
            \/ SwitchPrevious \/ SwitchCurrent \/ WriteState \/ Activate \/ HealthCheck
            \/ MarkHealthy \/ RestoreCurrent \/ RestorePrevious \/ RestoreState
            \/ Reactivate \/ StopService \/ RemoveUnit \/ RemoveGroup \/ DaemonReload
            \/ Return \/ Crash \/ XrayExits \/ SystemdRestarts
  BY <1>1, <1>11
     DEF EnsureGroup, RecordCreated, WriteUnits, PrepareCore, TestUpgrade, SwitchPrevious,
         SwitchCurrent, WriteState, Activate, HealthCheck, MarkHealthy, RestoreCurrent,
         RestorePrevious, RestoreState, Reactivate, StopService, RemoveUnit, RemoveGroup,
         DaemonReload, Return, Crash, Ended, XrayExits, SystemdRestarts
<1> QED
  BY <1>4, <1>5, <1>6, <1>7, <1>8, <1>9, <1>10, <1>11 DEF Next, Operation, Environment
--------------------------------------------------------------------------------
(* The shape of the record.                                                *)

LEMMA PathInit == Init => PathInv
BY KindsAre
   DEF Init, NoJob, PathInv, PreparingInv, ChangingInv, Preparing, Placing, Switching,
       Holding, Restoring, Removing

LEMMA PathStep ==
    ASSUME TypeInv, PathInv, Next
    PROVE  PathInv'
<1> USE TypeIs, KindsAre
    DEF Goto, Fails, FailsHalfway, Refuses, Preparing, Placing, Switching, Holding,
        Restoring, Removing, Installs
<1>1. CASE Install
  BY <1>1, InstallDoes DEF Begins, NoTriple, PathInv, PreparingInv, ChangingInv, Changes
<1>2. CASE Upgrade
  BY <1>2, UpgradeDoes DEF Begins, NoTriple, PathInv, PreparingInv, ChangingInv, Changes
<1>3. CASE Rollback
  <2>1. job'.kind \in Kinds
    BY <1>3, RollbackDoes DEF Begins, Jobs
  <2>2. \A k \in Kinds : k # job'.kind => job'.cand[k] = None
    BY <1>3, RollbackDoes DEF NoTriple
  <2>3. job'.cand[job'.kind] = links[job'.kind].prev
    BY <1>3, <2>1, RollbackDoes DEF NoTriple
  <2> QED BY <1>3, <2>2, <2>3, RollbackDoes
      DEF Begins, PathInv, PreparingInv, ChangingInv, Changes
<1>4. CASE Remove
  BY <1>4, RemoveDoes DEF Begins, NoTriple, PathInv, PreparingInv, ChangingInv, Changes
<1>5. CASE UNCHANGED vars
  BY <1>5 DEF vars, PathInv, PreparingInv, ChangingInv
<1>6. CASE Return \/ Crash
  BY <1>6 DEF Return, Crash, Ended, NoJob, PathInv, PreparingInv, ChangingInv
<1>7. CASE EnsureGroup \/ RecordCreated \/ WriteUnits
  BY <1>7
     DEF EnsureGroup, RecordCreated, WriteUnits, PathInv, PreparingInv, ChangingInv, Changes
<1>8. CASE PrepareCore
  <2>1. ASSUME NEW v \in NamesOf(Core), CoreReady(v), pc = "core"
        PROVE  PathInv'
    <3>1. v # None
      BY NoneIsNoName DEF NamesOf, AllNames
    <3>2. /\ job'.cand[Core] = v /\ \A i \in Kinds : i # Core => job'.cand[i] = job.cand[i]
          /\ job'.op = job.op /\ job'.targets = job.targets /\ job'.undoing = job.undoing
          /\ job'.clean = job.clean /\ job'.tested = job.tested
          /\ pc' = IF Assets \in job.targets THEN "assets" ELSE "test"
      BY <2>1, CoreReadyDoes DEF Keeps
    <3> QED BY <2>1, <3>1, <3>2 DEF PathInv, PreparingInv, ChangingInv
  <2>2. ASSUME NEW v \in NamesOf(Core), job' = [job EXCEPT !.cand[Core] = v],
               pc = "core", pc' \in {"quarantine", "place"}
        PROVE  PathInv'
    <3>1. v # None
      BY NoneIsNoName DEF NamesOf, AllNames
    <3>2. /\ job'.cand[Core] = v /\ \A i \in Kinds : i # Core => job'.cand[i] = job.cand[i]
          /\ job'.op = job.op /\ job'.targets = job.targets /\ job'.undoing = job.undoing
          /\ job'.clean = job.clean /\ job'.tested = job.tested
      BY <2>2, CandidateDoes DEF Keeps
    <3> QED BY <2>2, <3>1, <3>2 DEF PathInv, PreparingInv, ChangingInv
  <2>3. Reusable(Core) => links[Core].cur \in NamesOf(Core)
    BY Entries DEF Reusable
  <2>4. Versions = NamesOf(Core)
    BY DEF NamesOf
  <2>5. Fails => PathInv'
    BY <1>8 DEF PrepareCore, PathInv, PreparingInv, ChangingInv
  <2> QED BY <1>8, <2>1, <2>2, <2>3, <2>4, <2>5 DEF PrepareCore
<1>9. CASE QuarantineCore \/ PlaceCore \/ CheckCore \/ RestoreQuarantined
  <2>1. CASE UNCHANGED job
    BY <1>9, <2>1
       DEF QuarantineCore, PlaceCore, CheckCore, RestoreQuarantined, CoreReady,
           PathInv, PreparingInv, ChangingInv
  <2>2. CASE QuarantineCore
    BY <1>9, <2>2, AsideChange DEF QuarantineCore, PathInv, PreparingInv, ChangingInv
  <2>3. CASE CoreReady(job.cand[Core]) /\ pc = "checkCore"
    <3>1. job.cand[Core] \in NamesOf(Core) \cup {None}
      BY Entries
    <3>2. /\ job'.cand[Core] = job.cand[Core]
          /\ \A i \in Kinds : i # Core => job'.cand[i] = job.cand[i]
          /\ job'.op = job.op /\ job'.targets = job.targets /\ job'.undoing = job.undoing
          /\ job'.clean = job.clean /\ job'.tested = job.tested
          /\ pc' = IF Assets \in job.targets THEN "assets" ELSE "test"
      BY <2>3, <3>1, CoreReadyDoes DEF Keeps
    <3> QED BY <2>3, <3>2 DEF PathInv, PreparingInv, ChangingInv
  <2> QED BY <1>9, <2>1, <2>2, <2>3
      DEF QuarantineCore, PlaceCore, CheckCore, RestoreQuarantined
<1>10. CASE PrepareAssets
  <2>1. ASSUME NEW n \in NamesOf(Assets), job' = [job EXCEPT !.cand[Assets] = n],
               pc = "assets", pc' = "test"
        PROVE  PathInv'
    <3>1. n # None
      BY NoneIsNoName, NamesInAll
    <3>2. /\ job'.cand[Assets] = n /\ \A i \in Kinds : i # Assets => job'.cand[i] = job.cand[i]
          /\ job'.op = job.op /\ job'.targets = job.targets /\ job'.undoing = job.undoing
          /\ job'.clean = job.clean /\ job'.tested = job.tested
      BY <2>1, CandidateDoes DEF Keeps
    <3> QED BY <2>1, <3>1, <3>2 DEF PathInv, PreparingInv, ChangingInv
  <2>2. Reusable(Assets) => links[Assets].cur \in NamesOf(Assets)
    BY Entries DEF Reusable
  <2>3. nextGen <= MaxGen => nextGen \in NamesOf(Assets)
    BY InstallerAssumption DEF NamesOf, TypeInv
  <2>4. Fails => PathInv'
    BY <1>10 DEF PrepareAssets, PathInv, PreparingInv, ChangingInv
  <2> QED BY <1>10, <2>1, <2>2, <2>3, <2>4 DEF PrepareAssets
<1>11. CASE TestUpgrade \/ TestInstall
  <2>1. ASSUME NEW cand \in NameTables, NEW tested \in NameTables, Switches(cand, tested),
               pc = "test"
        PROVE  PathInv'
    <3>1. CASE \A k \in Kinds : cand[k] = None
      BY <2>1, <3>1, SwitchesDoes DEF PathInv, PreparingInv, ChangingInv, Changes
    <3>2. CASE \E k \in Kinds : cand[k] # None
      BY <2>1, <3>2, SwitchesDoes DEF PathInv, PreparingInv, ChangingInv, Changes
    <3> QED BY <3>1, <3>2
  <2>2. ASSUME UNCHANGED job, pc = "test", pc' \in {"failed", "refused", "succeeded"}
        PROVE  PathInv'
    BY <2>2 DEF PathInv, PreparingInv, ChangingInv
  <2>3. Candidates \in NameTables /\ Outcome(Candidates) \in NameTables
        /\ Outcome(job.cand) \in NameTables
    BY CandidatesIsTable, OutcomeIsTable
  <2>4. nextGen <= MaxGen => /\ [Candidates EXCEPT ![Config] = nextGen] \in NameTables
                             /\ [job.cand EXCEPT ![Config] = nextGen] \in NameTables
    <3>1. nextGen <= MaxGen => nextGen \in NamesOf(Config)
      BY InstallerAssumption DEF NamesOf, TypeInv
    <3> QED BY <2>3, <3>1, NameTableChange
  <2> QED BY <1>11, <2>1, <2>2, <2>3, <2>4 DEF TestUpgrade, TestInstall
<1>12. ASSUME ActivationFailed, pc \in {"write", "activate", "health"}
       PROVE  PathInv'
  <2>1. CASE job.op = "rollback" /\ links[job.kind].prev # None
    <3>1. /\ \A k \in Kinds : k # job.kind => job'.cand[k] = job.cand[k]
          /\ job'.cand[job.kind] = links[job.kind].prev
      BY <1>12, <2>1, ActivationFailedDoes DEF NameTables, Triples
    <3> QED BY <1>12, <2>1, <3>1, ActivationFailedDoes
        DEF Keeps, PathInv, PreparingInv, ChangingInv
  <2>2. CASE job.op = "rollback" /\ links[job.kind].prev = None
    BY <1>12, <2>2, ActivationFailedDoes DEF Keeps, PathInv, PreparingInv, ChangingInv
  <2>3. CASE job.op # "rollback"
    BY <1>12, <2>3, ActivationFailedDoes
       DEF Keeps, Changed, PathInv, PreparingInv, ChangingInv
  <2> QED BY <2>1, <2>2, <2>3
<1>13. ASSUME NEW kinds \in SUBSET Changed, NEW j \in {job, [job EXCEPT !.clean = FALSE]},
              Undo(kinds, j), job.op # "rollback",
              pc \in {"undoCur", "undoPrev"} \/ (pc = "write" /\ j = job)
       PROVE  PathInv'
  <2>1. /\ j \in Jobs /\ j.op = job.op /\ j.targets = job.targets /\ j.undoing = job.undoing
        /\ j.cand = job.cand /\ j.tested = job.tested
    BY <1>13, CleanChange
  <2>2. /\ job' \in Jobs /\ job'.op = job.op /\ job'.cand = job.cand
        /\ job'.tested = job.tested /\ job'.undoing = job.undoing
        /\ pc' \in {"undoCur", "writeOld", "failed"}
        /\ pc' = "undoCur" => job.cand[job'.kind] # None
        /\ pc' = "writeOld" => job.undoing
    <3>1. CASE kinds = {}
      BY <1>13, <2>1, <3>1, UndoDoes DEF Keeps
    <3>2. CASE kinds # {}
      BY <1>13, <2>1, <3>2, UndoDoes DEF Keeps, Changed
    <3> QED BY <3>1, <3>2
  <2> QED BY <1>13, <2>2 DEF PathInv, PreparingInv, ChangingInv
<1>14. ASSUME NEW clean \in BOOLEAN, SwitchFails(clean), pc \in Switching
       PROVE  PathInv'
  <2>1. CASE job.undoing
    BY <1>14, <2>1, SwitchFailsDoes DEF Keeps, PathInv, PreparingInv, ChangingInv
  <2>2. CASE ~job.undoing /\ Earlier = {}
    BY <1>14, <2>2, SwitchFailsDoes DEF Keeps, PathInv, PreparingInv, ChangingInv
  <2>3. CASE ~job.undoing /\ Earlier # {}
    <3>1. job.op # "rollback"
      BY <1>14, <2>3 DEF Earlier, Changed, PathInv, ChangingInv
    <3>2. job'.kind \in Changed
      BY <1>14, <2>3, SwitchFailsDoes DEF Earlier
    <3> QED BY <1>14, <2>3, <3>1, <3>2, SwitchFailsDoes
        DEF Keeps, Changed, PathInv, PreparingInv, ChangingInv
  <2> QED BY <2>1, <2>2, <2>3
<1>15. CASE SwitchPrevious
  <2>1. SwitchFails(~job.undoing) => PathInv'
    BY <1>14, <1>15 DEF SwitchPrevious
  <2> QED BY <1>15, <2>1 DEF SwitchPrevious, PathInv, PreparingInv, ChangingInv
<1>16. CASE SwitchCurrent
  <2> DEFINE later == {k \in Changed : k > job.kind}
  <2>1. SwitchFails(FALSE) => PathInv'
    BY <1>14, <1>16 DEF SwitchCurrent
  <2>2. ASSUME later # {}, pc' = "switchPrev", job' = [job EXCEPT !.kind = Least(later)]
        PROVE  PathInv'
    <3>1. Least(later) \in later
      BY <2>2, LeastIs
    <3>2. job.op # "rollback"
      BY <1>16, <2>2 DEF Changed, PathInv, ChangingInv, SwitchCurrent
    <3>3. /\ job'.kind = Least(later) /\ job'.cand = job.cand /\ job'.op = job.op
          /\ job'.undoing = job.undoing /\ job'.clean = job.clean
      BY <2>2, <3>1, KindChange
    <3> QED BY <1>16, <2>2, <3>1, <3>2, <3>3
        DEF Changed, PathInv, PreparingInv, ChangingInv, SwitchCurrent
  <2>3. ASSUME UNCHANGED job, pc' = IF job.undoing THEN "writeOld" ELSE "write"
        PROVE  PathInv'
    BY <1>16, <2>3 DEF SwitchCurrent, PathInv, PreparingInv, ChangingInv
  <2> QED BY <1>16, <2>1, <2>2, <2>3 DEF SwitchCurrent
<1>17. CASE WriteState
  <2>1. CASE pc' = "activate" /\ UNCHANGED job
    BY <1>17, <2>1 DEF WriteState, PathInv, PreparingInv, ChangingInv
  <2>2. CASE job.op \in Installs /\ Undo(Changed, job)
    BY <1>13, <1>17, <2>2 DEF WriteState
  <2>3. CASE ActivationFailed
    BY <1>12, <1>17, <2>3 DEF WriteState
  <2> QED BY <1>17, <2>1, <2>2, <2>3 DEF WriteState
<1>18. CASE Activate \/ HealthCheck
  <2>1. CASE ActivationFailed
    BY <1>12, <1>18, <2>1 DEF Activate, HealthCheck
  <2>2. CASE /\ UNCHANGED job
             /\ \/ pc = "activate" /\ Activated
                \/ pc = "health" /\ (IF job.op \in Installs THEN Goto("mark") ELSE Checked)
    BY <2>2 DEF Activated, Checked, PathInv, PreparingInv, ChangingInv
  <2> QED BY <1>18, <2>1, <2>2 DEF Activate, HealthCheck
<1>19. CASE MarkHealthy \/ Prune
  BY <1>19, CleanChange
     DEF MarkHealthy, Prune, Checked, PathInv, PreparingInv, ChangingInv, Changes
<1>20. CASE RestoreCurrent \/ RestorePrevious
  <2>1. Earlier \subseteq Changed
    BY DEF Earlier
  <2>2. CASE Undo(Earlier, job) \/ Undo(Earlier, [job EXCEPT !.clean = FALSE])
    BY <1>13, <1>20, <2>1, <2>2
       DEF RestoreCurrent, RestorePrevious, PathInv, ChangingInv
  <2>3. CASE UNCHANGED job /\ pc = "undoCur" /\ pc' = "undoPrev"
    BY <2>3 DEF PathInv, PreparingInv, ChangingInv
  <2> QED BY <1>20, <2>2, <2>3 DEF RestoreCurrent, RestorePrevious
<1>21. CASE RestoreState \/ Reactivate
  BY <1>21, CleanChange DEF RestoreState, Reactivate, PathInv, PreparingInv, ChangingInv, Changes
<1>22. CASE \/ StopService \/ RemoveUnit \/ RemoveState \/ RemoveOpt \/ RemoveGroup
            \/ DaemonReload
  <2>1. /\ UNCHANGED job /\ pc \in Removing
        /\ pc' \in Removing \cup {"failed", "succeeded"}
    BY <1>22
       DEF StopService, RemoveUnit, RemoveState, RemoveOpt, RemoveGroup, DaemonReload
  <2> QED BY <2>1 DEF PathInv, PreparingInv, ChangingInv, Changes
<1>23. CASE Environment
  BY <1>23
     DEF Environment, ApplyConfig, XrayExits, SystemdRestarts, Damage,
         PathInv, PreparingInv, ChangingInv
<1> QED
  BY <1>1, <1>2, <1>3, <1>4, <1>5, <1>6, <1>7, <1>8, <1>9, <1>10, <1>11, <1>15, <1>16,
     <1>17, <1>18, <1>19, <1>20, <1>21, <1>22, <1>23
  DEF Next, Operation
--------------------------------------------------------------------------------
(* Foreign groups.                                                         *)

LEMMA ForeignInit == Init => ForeignInv
BY DEF Init, ForeignInv, NoState, NoJob

LEMMA ForeignStep ==
    ASSUME TypeInv, PathInv, ForeignInv, Next
    PROVE  ForeignInv' /\ (group = "foreign" => group' = "foreign")
<1> USE TypeIs DEF ForeignInv, Goto, Fails, FailsHalfway, Refuses, store, host, service
<1>1. CASE Install \/ Upgrade \/ Rollback \/ Remove
  <2>1. Begins /\ job'.old \in {state, NoState} /\ pc' # "record"
    BY <1>1, InstallDoes, UpgradeDoes, RollbackDoes, RemoveDoes
  <2> QED BY <2>1 DEF Begins, NoState
<1>2. CASE UNCHANGED vars
  BY <1>2 DEF vars
<1>3. CASE Return \/ Crash
  BY <1>3 DEF Return, Crash, Ended, NoJob, NoState
<1>4. CASE EnsureGroup \/ RecordCreated \/ WriteUnits
  BY <1>4 DEF EnsureGroup, RecordCreated, WriteUnits
<1>5. ASSUME UNCHANGED <<state, group>>, job'.old \in {job.old, state}, pc' # "record"
      PROVE  ForeignInv' /\ (group = "foreign" => group' = "foreign")
  BY <1>5
<1>6. CASE PrepareCore
  <2>1. ASSUME NEW v \in NamesOf(Core) \cup {None}, CoreReady(v)
        PROVE  job'.old = job.old /\ pc' # "record"
    BY <2>1, CoreReadyDoes DEF Keeps
  <2>2. ASSUME NEW v \in NamesOf(Core) \cup {None}, job' = [job EXCEPT !.cand[Core] = v]
        PROVE  job'.old = job.old
    BY <2>2, CandidateDoes, KindsAre DEF Keeps
  <2>3. links[Core].cur \in NamesOf(Core) \cup {None} /\ NamesOf(Core) = Versions
    BY Entries, KindsAre DEF NamesOf
  <2> QED BY <1>5, <1>6, <2>1, <2>2, <2>3 DEF PrepareCore
<1>7. CASE QuarantineCore \/ PlaceCore \/ CheckCore \/ RestoreQuarantined
  <2>1. CoreReady(job.cand[Core]) => job'.old = job.old /\ pc' # "record"
    <3>1. job.cand[Core] \in NamesOf(Core) \cup {None}
      BY Entries, KindsAre
    <3> QED BY <3>1, CoreReadyDoes DEF Keeps
  <2> QED BY <1>5, <1>7, <2>1, AsideChange
      DEF QuarantineCore, PlaceCore, CheckCore, RestoreQuarantined
<1>8. CASE PrepareAssets
  <2>1. ASSUME NEW n \in NamesOf(Assets) \cup {None}, job' = [job EXCEPT !.cand[Assets] = n]
        PROVE  job'.old = job.old
    BY <2>1, CandidateDoes, KindsAre DEF Keeps
  <2>2. links[Assets].cur \in NamesOf(Assets) \cup {None}
    BY Entries, KindsAre
  <2>3. nextGen <= MaxGen => nextGen \in NamesOf(Assets)
    BY KindsAre, InstallerAssumption DEF NamesOf, TypeInv
  <2> QED BY <1>5, <1>8, <2>1, <2>2, <2>3 DEF PrepareAssets
<1>9. CASE TestUpgrade \/ TestInstall
  <2>1. ASSUME NEW cand, NEW tested, Switches(cand, tested)
        PROVE  job'.old = state /\ pc' # "record"
    BY <2>1 DEF Switches, Jobs
  <2> QED BY <1>5, <1>9, <2>1 DEF TestUpgrade, TestInstall
<1>10. CASE SwitchPrevious \/ SwitchCurrent
  <2>1. ASSUME NEW clean \in BOOLEAN, SwitchFails(clean)
        PROVE  job'.old = job.old /\ pc' # "record"
    BY <2>1, SwitchFailsDoes DEF Keeps
  <2>2. \A kind : [job EXCEPT !.kind = kind].old = job.old
    BY DEF Jobs
  <2> QED BY <1>5, <1>10, <2>1, <2>2 DEF SwitchPrevious, SwitchCurrent
<1>11. CASE RestoreCurrent \/ RestorePrevious
  <2>1. ASSUME NEW j \in {job, [job EXCEPT !.clean = FALSE]}, Undo(Earlier, j)
        PROVE  job'.old = job.old /\ pc' # "record"
    <3>1. j \in Jobs /\ j.old = job.old
      BY <2>1, CleanChange
    <3> HIDE <2>1
    <3>2. Undo(Earlier, j)
      BY <2>1
    <3> QED BY <3>1, <3>2, UndoDoes DEF Keeps
  <2> QED BY <1>5, <1>11, <2>1 DEF RestoreCurrent, RestorePrevious
<1>12. ActivationFailed => job'.old = job.old /\ pc' # "record"
  BY ActivationFailedDoes DEF Keeps
<1>13. CASE WriteState
  <2>1. Undo(Changed, job) => job'.old = job.old /\ pc' # "record"
    BY UndoDoes DEF Keeps
  <2>2. [state EXCEPT !.at = Recorded].created = state.created
    BY DEF States
  <2> QED BY <1>12, <1>13, <2>1, <2>2 DEF WriteState
<1>14. CASE Activate \/ HealthCheck
  BY <1>5, <1>12, <1>14 DEF Activate, HealthCheck, Activated, Checked
<1>15. CASE MarkHealthy \/ Prune \/ Reactivate
  BY <1>5, <1>15, CleanChange DEF MarkHealthy, Checked, Prune, Reactivate
<1>16. CASE RestoreState
  BY <1>16, CleanChange DEF RestoreState
<1>17. CASE StopService \/ RemoveUnit \/ RemoveOpt \/ DaemonReload
  BY <1>5, <1>17 DEF StopService, RemoveUnit, RemoveOpt, DaemonReload
<1>18. CASE RemoveState
  BY <1>18 DEF RemoveState, NoState
<1>19. CASE RemoveGroup
  BY <1>19 DEF RemoveGroup
<1>20. CASE ApplyConfig
  BY <1>20 DEF ApplyConfig, States
<1>21. CASE XrayExits \/ SystemdRestarts \/ Damage
  BY <1>21 DEF XrayExits, SystemdRestarts, Damage
<1> QED
  BY <1>1, <1>2, <1>3, <1>4, <1>6, <1>7, <1>8, <1>9, <1>10, <1>11, <1>13, <1>14, <1>15,
     <1>16, <1>17, <1>18, <1>19, <1>20, <1>21
  DEF Next, Operation, Environment
--------------------------------------------------------------------------------
(* What is tested, recorded and running.                                   *)

\* A step of the environment during an operation leaves everything but the process.
LEMMA Aside ==
    ASSUME XrayExits \/ SystemdRestarts
    PROVE  /\ UNCHANGED <<links, dirs, damaged, nextGen, state, pc, job>>
           /\ running' \in {NoTriple, Current}
BY DEF XrayExits, SystemdRestarts, StartXray, store, host

\* What the steps of the environment need or touch.
LEMMA IdleStep ==
    ASSUME ApplyConfig \/ Damage
    PROVE  pc = "idle" /\ pc' = "idle" /\ UNCHANGED job
BY DEF ApplyConfig, Damage

\* The failure of a switch or of an activation leads back.
LEMMA FailureLeads ==
    ASSUME TypeInv
    PROVE  /\ ActivationFailed => pc' \in {"switchPrev", "undoCur", "writeOld"} /\ job'.undoing
           /\ \A clean \in BOOLEAN :
                SwitchFails(clean) => pc' \in {"undoCur", "writeOld", "failed"}
           /\ \A kinds \in SUBSET Kinds : \A j \in Jobs :
                Undo(kinds, j) => pc' \in {"undoCur", "writeOld", "failed"}
<1>1. ActivationFailed => pc' \in {"switchPrev", "undoCur", "writeOld"} /\ job'.undoing
  BY ActivationFailedDoes, TypeIs
<1>2. \A clean \in BOOLEAN : SwitchFails(clean) => pc' \in {"undoCur", "writeOld", "failed"}
  BY SwitchFailsDoes
<1>3. \A kinds \in SUBSET Kinds : \A j \in Jobs :
        Undo(kinds, j) => pc' \in {"undoCur", "writeOld", "failed"}
  BY UndoDoes
<1> QED BY <1>1, <1>2, <1>3

\* Where an operation goes from each of its steps, and where it has come from.
LEMMA Leads ==
    ASSUME TypeInv, PathInv, Next, pc' # pc
    PROVE  /\ pc' \in {"assets", "test", "checkCore"} =>
                \/ Upgrade /\ pc' = "assets"
                \/ PrepareCore \/ PlaceCore \/ CheckCore \/ PrepareAssets
           /\ pc' \in Switching \cup Holding \cup {"succeeded"} =>
                \/ Rollback \/ TestUpgrade \/ TestInstall \/ SwitchPrevious \/ SwitchCurrent
                \/ WriteState \/ Activate \/ HealthCheck \/ MarkHealthy \/ Prune
                \/ DaemonReload /\ pc' = "succeeded"
<1> USE DEF Goto, Fails, FailsHalfway, Refuses, Switching, Holding
<1>1. CASE Install \/ Remove
  BY <1>1, InstallDoes, RemoveDoes
<1>2. CASE Upgrade
  BY <1>2, UpgradeDoes
<1>3. CASE Rollback
  BY <1>3, RollbackDoes
<1>4. CASE UNCHANGED vars
  BY <1>4 DEF vars
<1>5. CASE Return \/ Crash
  BY <1>5 DEF Return, Crash, Ended
<1>6. CASE EnsureGroup \/ RecordCreated \/ WriteUnits
  BY <1>6 DEF EnsureGroup, RecordCreated, WriteUnits
<1>7. CASE PrepareCore \/ PlaceCore \/ CheckCore \/ PrepareAssets
  BY <1>7 DEF PrepareCore, PlaceCore, CheckCore, PrepareAssets, CoreReady
<1>8. CASE QuarantineCore \/ RestoreQuarantined
  BY <1>8 DEF QuarantineCore, RestoreQuarantined
<1>9. CASE TestUpgrade \/ TestInstall
  BY <1>9 DEF TestUpgrade, TestInstall, Switches
<1>10. CASE \/ SwitchPrevious \/ SwitchCurrent \/ WriteState \/ Activate \/ HealthCheck
            \/ MarkHealthy \/ Prune
  <2>1. pc' \notin {"assets", "test", "checkCore"}
    BY <1>10, FailureLeads, TypeIs
       DEF SwitchPrevious, SwitchCurrent, WriteState, Activate, HealthCheck, MarkHealthy,
           Prune, Activated, Checked
  <2> QED BY <1>10, <2>1
<1>11. CASE RestoreCurrent \/ RestorePrevious
  <2>1. [job EXCEPT !.clean = FALSE] \in Jobs
    BY TypeIs, CleanChange
  <2> QED BY <1>11, <2>1, FailureLeads, TypeIs DEF RestoreCurrent, RestorePrevious
<1>12. CASE RestoreState \/ Reactivate
  BY <1>12 DEF RestoreState, Reactivate
<1>13. CASE \/ StopService \/ RemoveUnit \/ RemoveState \/ RemoveOpt \/ RemoveGroup
            \/ DaemonReload
  BY <1>13
     DEF StopService, RemoveUnit, RemoveState, RemoveOpt, RemoveGroup, DaemonReload
<1>14. CASE Environment
  BY <1>14 DEF Environment, ApplyConfig, XrayExits, SystemdRestarts, Damage
<1> QED
  BY <1>1, <1>2, <1>3, <1>4, <1>5, <1>6, <1>7, <1>8, <1>9, <1>10, <1>11, <1>12, <1>13, <1>14
  DEF Next, Operation

\* While an operation stays where it is, only the process may change; but for the first
\* step of an undo, which may go on to the undo of another kind.
LEMMA Stays ==
    ASSUME TypeInv, PathInv, Next, pc' = pc
    PROVE  \/ /\ UNCHANGED <<links, dirs, damaged, nextGen, state, pc, job>>
              /\ running' \in {running, NoTriple, Current}
           \/ pc = "idle" /\ UNCHANGED job
           \/ RestoreCurrent
<1> USE TypeIs DEF Goto, Fails, FailsHalfway, Refuses
<1>1. CASE Install \/ Upgrade \/ Rollback \/ Remove
  BY <1>1, InstallDoes, UpgradeDoes, RollbackDoes, RemoveDoes DEF Begins
<1>2. CASE UNCHANGED vars
  BY <1>2 DEF vars
<1>3. CASE Return \/ Crash
  BY <1>3 DEF Return, Crash, Ended, Standing
<1>4. CASE EnsureGroup \/ RecordCreated \/ WriteUnits
  BY <1>4 DEF EnsureGroup, RecordCreated, WriteUnits
<1>5. CASE PrepareCore \/ QuarantineCore \/ PlaceCore \/ CheckCore \/ RestoreQuarantined
           \/ PrepareAssets
  BY <1>5
     DEF PrepareCore, QuarantineCore, PlaceCore, CheckCore, RestoreQuarantined,
         PrepareAssets, CoreReady
<1>6. CASE TestUpgrade \/ TestInstall
  BY <1>6 DEF TestUpgrade, TestInstall, Switches
<1>7. CASE SwitchPrevious \/ SwitchCurrent \/ WriteState
  BY <1>7, FailureLeads DEF SwitchPrevious, SwitchCurrent, WriteState
<1>8. CASE Activate \/ HealthCheck \/ MarkHealthy \/ Prune
  BY <1>8, FailureLeads DEF Activate, HealthCheck, MarkHealthy, Prune, Activated, Checked
<1>9. CASE RestorePrevious
  <2>1. [job EXCEPT !.clean = FALSE] \in Jobs
    BY CleanChange
  <2> QED BY <1>9, <2>1, FailureLeads DEF RestorePrevious
<1>10. CASE RestoreState \/ Reactivate
  BY <1>10 DEF RestoreState, Reactivate
<1>11. CASE \/ StopService \/ RemoveUnit \/ RemoveState \/ RemoveOpt \/ RemoveGroup
            \/ DaemonReload
  BY <1>11
     DEF StopService, RemoveUnit, RemoveState, RemoveOpt, RemoveGroup, DaemonReload
<1>12. CASE ApplyConfig \/ Damage
  BY <1>12, IdleStep
<1>13. CASE XrayExits \/ SystemdRestarts
  BY <1>13, Aside
<1> QED
  BY <1>1, <1>2, <1>3, <1>4, <1>5, <1>6, <1>7, <1>8, <1>9, <1>10, <1>11, <1>12, <1>13
  DEF Next, Operation, Environment

\* After a clean undo the service is the last to fail.
LEMMA UndoneLeads ==
    ASSUME TypeInv, PathInv, Next, pc' = "failed", pc # "failed", job'.undoing, job'.clean,
           job'.op \notin Installs
    PROVE  Reactivate /\ (StartXray \/ StartXrayFails)
<1> USE TypeIs DEF Goto, Fails, FailsHalfway, Refuses
<1>1. CASE Install \/ Upgrade \/ Rollback \/ Remove
  BY <1>1, InstallDoes, UpgradeDoes, RollbackDoes, RemoveDoes
<1>2. CASE UNCHANGED vars
  BY <1>2 DEF vars
<1>3. CASE Return \/ Crash
  BY <1>3 DEF Return, Crash, Ended
<1>4. pc \in Preparing \cup Removing => ~job.undoing
  BY DEF PathInv, PreparingInv, ChangingInv
<1>5. CASE EnsureGroup \/ RecordCreated \/ WriteUnits
  BY <1>4, <1>5 DEF EnsureGroup, RecordCreated, WriteUnits, Preparing
<1>6. CASE PrepareCore \/ QuarantineCore \/ PlaceCore \/ CheckCore \/ RestoreQuarantined
           \/ PrepareAssets
  BY <1>4, <1>6
     DEF PrepareCore, QuarantineCore, PlaceCore, CheckCore, RestoreQuarantined,
         PrepareAssets, CoreReady, Preparing, Placing
<1>7. CASE TestUpgrade \/ TestInstall
  BY <1>4, <1>7 DEF TestUpgrade, TestInstall, Switches, Preparing
<1>8. \A clean \in BOOLEAN : ~SwitchFails(clean)
  BY SwitchFailsDoes
<1>9. CASE SwitchPrevious \/ SwitchCurrent
  BY <1>8, <1>9 DEF SwitchPrevious, SwitchCurrent
<1>10. ~ActivationFailed
  BY FailureLeads
<1>11. /\ ~Undo(Changed, job) /\ ~Undo(Earlier, job)
       /\ ~Undo(Earlier, [job EXCEPT !.clean = FALSE])
  BY UndoDoes, CleanChange
<1>12. CASE WriteState \/ RestoreCurrent \/ RestorePrevious
  BY <1>10, <1>11, <1>12 DEF WriteState, RestoreCurrent, RestorePrevious
<1>13. CASE Activate \/ HealthCheck \/ Prune
  BY <1>10, <1>13 DEF Activate, HealthCheck, Prune, Activated, Checked
<1>14. CASE MarkHealthy \/ RestoreState
  BY <1>14, CleanChange DEF MarkHealthy, RestoreState, Checked
<1>15. CASE Reactivate
  BY <1>15, CleanChange, <1>4 DEF Reactivate
<1>16. CASE \/ StopService \/ RemoveUnit \/ RemoveState \/ RemoveOpt \/ RemoveGroup
            \/ DaemonReload
  BY <1>4, <1>16
     DEF StopService, RemoveUnit, RemoveState, RemoveOpt, RemoveGroup, DaemonReload,
         Removing
<1>17. CASE Environment
  BY <1>17 DEF Environment, ApplyConfig, XrayExits, SystemdRestarts, Damage
<1> QED
  BY <1>1, <1>2, <1>3, <1>5, <1>6, <1>7, <1>9, <1>12, <1>13, <1>14, <1>15, <1>16, <1>17
  DEF Next, Operation

\* A process that runs was started from what is current.
LEMMA RunningInit == Init => RunningInv
BY DEF Init, RunningInv

LEMMA RunningStep ==
    ASSUME TypeInv, PathInv, RunningInv, Next
    PROVE  RunningInv'
<1> USE TypeIs DEF Goto, Fails, FailsHalfway, Refuses, store, host, service
<1>1. CASE pc' = pc
  <2>1. UNCHANGED <<links, pc, job>> /\ running' \in {running, NoTriple, Current} => RunningInv'
    BY DEF RunningInv, Current
  <2> QED BY <1>1, <2>1, Stays DEF RunningInv, RestoreCurrent
<1>2. CASE pc' \in {"health", "prune", "succeeded"} /\ pc' # pc
  <2>1. \/ Rollback \/ TestUpgrade \/ TestInstall \/ SwitchPrevious \/ SwitchCurrent
        \/ WriteState \/ Activate \/ HealthCheck \/ MarkHealthy \/ Prune
        \/ DaemonReload /\ pc' = "succeeded"
    BY <1>2, Leads DEF Switching, Holding
  <2>2. ~ActivationFailed /\ \A clean \in BOOLEAN : ~SwitchFails(clean)
    BY <1>2, FailureLeads
  <2>3. CASE Rollback
    BY <1>2, <2>3, RollbackDoes
  <2>4. CASE TestUpgrade
    <3>1. ~Switches(Candidates, Outcome(Candidates))
      BY <1>2, TypeIs, CandidatesIsTable, OutcomeIsTable, SwitchesDoes DEF Switches
    <3> QED BY <1>2, <2>4, <3>1
        DEF TestUpgrade, RunningInv, PathInv, PreparingInv, Preparing, Placing
  <2>5. CASE TestInstall
    BY <1>2, <2>5 DEF TestInstall, Switches
  <2>6. CASE SwitchPrevious \/ SwitchCurrent \/ WriteState
    BY <1>2, <2>2, <2>6, FailureLeads DEF SwitchPrevious, SwitchCurrent, WriteState
  <2>7. CASE Activate
    <3>1. StartXray => running' = Current /\ Current' = Current
      BY <2>7 DEF Activate, StartXray, Current
    <3> QED BY <1>2, <2>2, <2>7, <3>1
        DEF Activate, Activated, Checked, RunningInv, Installs
  <2>8. CASE HealthCheck \/ MarkHealthy \/ Prune
    <3>1. Current' = Current /\ running' = running /\ job' = job
      BY <1>2, <2>2, <2>8 DEF HealthCheck, MarkHealthy, Checked, Prune, Current
    <3>2. pc \in {"health", "mark", "prune"}
      BY <2>8 DEF HealthCheck, MarkHealthy, Prune
    <3>3. pc = "mark" => job.op \in Installs
      BY DEF PathInv, ChangingInv
    <3> QED BY <1>2, <3>1, <3>2, <3>3, <2>2, <2>8
        DEF HealthCheck, MarkHealthy, Checked, Prune, RunningInv, Installs
  <2>9. CASE DaemonReload
    BY <1>2, <2>9 DEF DaemonReload, RunningInv, PathInv, ChangingInv, Removing
  <2> QED BY <2>1, <2>3, <2>4, <2>5, <2>6, <2>7, <2>8, <2>9
<1>3. CASE pc' = "failed" /\ pc' # pc
  <2> SUFFICES ASSUME job'.op \in {"upgrade", "rollback"}, job'.undoing, job'.clean
               PROVE  running' \in {Current', NoTriple}
    BY <1>3 DEF RunningInv
  <2>1. Reactivate /\ (StartXray \/ StartXrayFails)
    BY <1>3, UndoneLeads DEF Installs
  <2>2. Current' = Current
    BY <2>1 DEF Reactivate, Current
  <2> QED BY <2>1, <2>2 DEF StartXray, StartXrayFails
<1> QED BY <1>1, <1>2, <1>3 DEF RunningInv
--------------------------------------------------------------------------------
(* What is prepared and tested.                                            *)

LEMMA PreparedInit == Init => PreparedInv /\ TestedInv /\ RecordInv
BY DEF Init, PreparedInv, TestedInv, RecordInv, Forward, Switching, Holding

LEMMA PreparedStep ==
    ASSUME TypeInv, PathInv, FreshInv, PreparedInv, Next
    PROVE  PreparedInv'
<1> USE TypeIs, KindsAre DEF Goto, Fails, FailsHalfway, store, host, service
<1>1. CASE pc' = pc
  <2>1. CASE UNCHANGED <<dirs, damaged, pc, job>>
    BY <2>1 DEF PreparedInv
  <2>2. CASE pc = "idle" \/ RestoreCurrent
    BY <1>1, <2>2 DEF PreparedInv, RestoreCurrent
  <2> QED BY <1>1, <2>1, <2>2, Stays
<1>2. CASE pc' # pc /\ pc' \in {"checkCore", "assets", "test"}
  <2>1. CASE Upgrade /\ pc' = "assets"
    BY <2>1, UpgradeDoes DEF Begins, NoTriple, PreparedInv
  <2>2. CASE PrepareCore
    <3>1. PICK v \in NamesOf(Core) \cup {None} :
            v \in dirs[Core] \ damaged /\ CoreReady(v)
      <4>1. links[Core].cur \in NamesOf(Core) \cup {None} /\ NamesOf(Core) = Versions
        BY Entries DEF NamesOf
      <4> QED BY <1>2, <2>2, <4>1 DEF PrepareCore, Reusable
    <3>2. UNCHANGED <<dirs, damaged>>
      BY <2>2 DEF PrepareCore
    <3>3. job'.cand[Core] = v /\ job'.cand[Assets] = job.cand[Assets]
          /\ pc' = IF Assets \in job.targets THEN "assets" ELSE "test"
      BY <3>1, CoreReadyDoes
    <3>4. job.cand[Assets] = None
      BY <2>2 DEF PrepareCore, PathInv, PreparingInv, Preparing
    <3> QED BY <3>1, <3>2, <3>3, <3>4 DEF PreparedInv
  <2>3. CASE PlaceCore
    <3>1. job' = job /\ dirs' = WithCandidate /\ damaged' = damaged \ {job.cand[Core]}
          /\ pc' = "checkCore"
      BY <1>2, <2>3 DEF PlaceCore
    <3>2. job.cand[Core] \in dirs'[Core]
      BY <3>1 DEF WithCandidate, DirTables
    <3> QED BY <3>1, <3>2 DEF PreparedInv
  <2>4. CASE CheckCore
    <3>1. CoreReady(job.cand[Core]) /\ UNCHANGED <<dirs, damaged>> /\ pc = "checkCore"
      BY <1>2, <2>4 DEF CheckCore
    <3>2. job.cand[Core] \in NamesOf(Core) \cup {None}
      BY Entries
    <3>3. job'.cand[Core] = job.cand[Core] /\ job'.cand[Assets] = job.cand[Assets]
          /\ pc' = IF Assets \in job.targets THEN "assets" ELSE "test"
      BY <3>1, <3>2, CoreReadyDoes
    <3>4. job.cand[Assets] = None
      BY <3>1 DEF PathInv, PreparingInv, Preparing, Placing
    <3> QED BY <3>1, <3>3, <3>4 DEF PreparedInv
  <2>5. CASE PrepareAssets
    <3>1. UNCHANGED damaged /\ pc = "assets" /\ pc' = "test"
      BY <1>2, <2>5 DEF PrepareAssets
    <3>2. PICK n \in NamesOf(Assets) \cup {None} :
            /\ job' = [job EXCEPT !.cand[Assets] = n]
            /\ n \in dirs'[Assets] \ damaged /\ dirs'[Core] = dirs[Core]
      <4>1. links[Assets].cur \in NamesOf(Assets) \cup {None}
        BY Entries
      <4>2. nextGen <= MaxGen => nextGen \in NamesOf(Assets) /\ nextGen \notin damaged
        BY InstallerAssumption DEF NamesOf, TypeInv, FreshInv, Used
      <4>3. CASE Reusable(Assets) /\ dirs' = dirs
                 /\ job' = [job EXCEPT !.cand[Assets] = links[Assets].cur]
        BY <4>1, <4>3 DEF Reusable
      <4>4. CASE nextGen <= MaxGen /\ dirs' = [dirs EXCEPT ![Assets] = @ \cup {nextGen}]
                 /\ job' = [job EXCEPT !.cand[Assets] = nextGen]
        BY <4>2, <4>4 DEF DirTables
      <4> QED BY <1>2, <2>5, <4>3, <4>4 DEF PrepareAssets
    <3>3. job'.cand[Assets] = n /\ job'.cand[Core] = job.cand[Core]
      BY <3>2, CandidateDoes
    <3> QED BY <3>1, <3>2, <3>3 DEF PreparedInv
  <2> QED BY <1>2, <2>1, <2>2, <2>3, <2>4, <2>5, Leads
<1> QED BY <1>1, <1>2 DEF PreparedInv

\* The switches begin with what was tested.
LEMMA TestedBegins ==
    ASSUME TypeInv, PathInv, NEW cand \in NameTables, NEW tested \in NameTables, pc = "test",
           Switches(cand, tested), links' = links,
           \A k \in Kinds : /\ tested[k] \in dirs'[k] \ damaged'
                            /\ cand[k] \in {None, tested[k]}
                            /\ cand[k] = None => links[k].cur = tested[k]
    PROVE  TestedInv'
<1>1. /\ job'.cand = cand /\ job'.tested = tested
      /\ pc' = "write" \/ (pc' = "switchPrev" /\ \A k \in Kinds : k < job'.kind => cand[k] = None)
  BY SwitchesDoes
<1>2. (pc' = "write") => \A k \in Kinds : cand[k] = None
  BY SwitchesDoes
<1>3. \A k \in Kinds : IsSwitched(k)' => cand[k] = None
  BY <1>1, <1>2 DEF IsSwitched, Changed, Switching, Holding
<1> QED BY <1>1, <1>3 DEF TestedInv

LEMMA TestedStep ==
    ASSUME TypeInv, PathInv, FreshInv, PreparedInv, TestedInv, Next
    PROVE  TestedInv'
<1> USE TypeIs, KindsAre DEF Goto, Fails, FailsHalfway, Refuses, store, host, service
<1>1. CASE pc' = pc
  <2>1. CASE UNCHANGED <<links, dirs, damaged, pc, job>>
    BY <2>1 DEF TestedInv, Forward, IsSwitched, Changed
  <2>2. CASE pc = "idle" \/ RestoreCurrent
    BY <1>1, <2>2 DEF TestedInv, Forward, Switching, Holding, RestoreCurrent
  <2> QED BY <1>1, <2>1, <2>2, Stays
<1>2. CASE pc' # pc /\ pc' \in Switching \cup Holding \cup {"succeeded"}
  <2>1. \/ Rollback \/ TestUpgrade \/ TestInstall \/ SwitchPrevious \/ SwitchCurrent
        \/ WriteState \/ Activate \/ HealthCheck \/ MarkHealthy \/ Prune
        \/ DaemonReload /\ pc' = "succeeded"
    BY <1>2, Leads
  <2>2. /\ \A clean \in BOOLEAN : ~SwitchFails(clean)
        /\ ActivationFailed => TestedInv'
    <3>1. \A clean \in BOOLEAN : ~SwitchFails(clean)
      BY <1>2, FailureLeads DEF Switching, Holding
    <3> QED BY <3>1, FailureLeads DEF TestedInv, Forward
  <2>3. CASE Rollback
    BY <2>3, RollbackDoes DEF TestedInv, Forward, Installs
  <2>4. CASE TestUpgrade
    <3>1. CASE pc' = "succeeded"
      BY <2>4, <3>1
         DEF TestUpgrade, Switches, TestedInv, Forward, PathInv, PreparingInv, Preparing
    <3>2. CASE Sound(Outcome(Candidates)) /\ Switches(Candidates, Outcome(Candidates))
      <4>1. Candidates \in NameTables /\ Outcome(Candidates) \in NameTables
        BY CandidatesIsTable, OutcomeIsTable
      <4>2. \A k \in Kinds :
              /\ Outcome(Candidates)[k] \in dirs[k] \ damaged
              /\ Outcome(Candidates)[k] =
                    IF Candidates[k] # None THEN Candidates[k] ELSE links[k].cur
        BY <3>2, <4>1, OutcomeIsTable DEF Sound
      <4> QED BY <2>4, <3>2, <4>1, <4>2, TestedBegins DEF TestUpgrade
    <3> QED BY <1>2, <2>4, <3>1, <3>2 DEF TestUpgrade, Switching, Holding
  <2>5. CASE TestInstall
    <3>1. /\ pc = "test" /\ UNCHANGED <<links, damaged>> /\ job.op \in Installs
          /\ Candidates \in NameTables /\ Outcome(job.cand) \in NameTables
          /\ \A k \in Kinds : Candidates[k] = IF k \in Unswitched THEN None ELSE job.cand[k]
          /\ \A k \in Kinds :
                Outcome(job.cand)[k] = IF job.cand[k] # None THEN job.cand[k] ELSE links[k].cur
      BY <2>5, CandidatesIsTable, OutcomeIsTable DEF TestInstall
    <3>2. /\ job.cand[Core] # None /\ job.cand[Assets] # None /\ job.cand[Config] = None
      BY <3>1 DEF PathInv, PreparingInv, Preparing
    <3>3. \A k \in Unswitched : k \in {Core, Assets} /\ links[k].cur = job.cand[k]
      BY <3>1 DEF Unswitched, Installs
    <3>4. CASE UNCHANGED <<dirs, nextGen>> /\ Sound(Outcome(job.cand))
               /\ Switches(Candidates, Outcome(job.cand))
      <4>1. \A k \in Kinds : Outcome(job.cand)[k] \in dirs[k] \ damaged
        BY <3>4 DEF Sound
      <4>2. \A k \in Kinds : /\ Candidates[k] \in {None, Outcome(job.cand)[k]}
                             /\ Candidates[k] = None => links[k].cur = Outcome(job.cand)[k]
        BY <3>1, <3>2, <3>3
      <4> QED BY <3>1, <3>4, <4>1, <4>2, TestedBegins
    <3>5. CASE nextGen <= MaxGen /\ dirs' = [dirs EXCEPT ![Config] = @ \cup {nextGen}]
               /\ Switches([Candidates EXCEPT ![Config] = nextGen],
                           [job.cand EXCEPT ![Config] = nextGen])
      <4> DEFINE cand == [Candidates EXCEPT ![Config] = nextGen]
                 tested == [job.cand EXCEPT ![Config] = nextGen]
      <4>1. nextGen \in NamesOf(Config) /\ nextGen \notin damaged
        BY <3>5, InstallerAssumption DEF NamesOf, TypeInv, FreshInv, Used
      <4>2. cand \in NameTables /\ tested \in NameTables
        BY <3>1, <4>1, NameTableChange
      <4>3. /\ cand[Config] = nextGen /\ tested[Config] = nextGen
            /\ \A k \in {Core, Assets} : cand[k] = Candidates[k] /\ tested[k] = job.cand[k]
        BY <3>1 DEF NameTables, Triples
      <4>4. /\ nextGen \in dirs'[Config]
            /\ dirs'[Core] = dirs[Core] /\ dirs'[Assets] = dirs[Assets]
        BY <3>5 DEF DirTables
      <4>5. \A k \in {Core, Assets} : job.cand[k] \in dirs[k] \ damaged
        BY <3>1, <3>2 DEF PreparedInv
      <4>6. nextGen # None
        BY <4>1, NoneIsNoName, NamesInAll
      <4>7. \A k \in Kinds : /\ tested[k] \in dirs'[k] \ damaged'
                             /\ cand[k] \in {None, tested[k]}
                             /\ cand[k] = None => links[k].cur = tested[k]
        BY <3>1, <3>2, <3>3, <4>1, <4>3, <4>4, <4>5, <4>6
      <4>8. Switches(cand, tested)
        BY <3>5
      <4> HIDE DEF cand, tested
      <4> QED BY <3>1, <4>2, <4>7, <4>8, TestedBegins
    <3> QED BY <1>2, <2>5, <3>4, <3>5 DEF TestInstall, Switching, Holding
  <2>6. CASE SwitchPrevious
    <3>1. links' = [links EXCEPT ![job.kind] = LinkPrevious(@)] /\ pc' = "switchCur"
          /\ UNCHANGED <<dirs, damaged, job>> /\ pc = "switchPrev"
      BY <2>2, <2>6 DEF SwitchPrevious
    <3>2. \A k \in Kinds : links'[k].cur = links[k].cur
      BY <3>1, HalfSwitched
    <3> QED BY <3>1, <3>2 DEF TestedInv, Forward, IsSwitched, Changed, Switching, Holding
  <2>7. CASE SwitchCurrent
    <3> DEFINE later == {k \in Changed : k > job.kind}
    <3>1. /\ links' = [links EXCEPT ![job.kind] = LinkCurrent(@, job.cand[job.kind])]
          /\ UNCHANGED <<dirs, damaged>> /\ pc = "switchCur"
      BY <2>2, <2>7 DEF SwitchCurrent
    <3>2. /\ links'[job.kind].cur = job.cand[job.kind]
          /\ \A k \in Kinds : k # job.kind => links'[k] = links[k]
      BY <3>1, Switched
    <3>3. job.cand[job.kind] # None
      BY <3>1 DEF PathInv, ChangingInv, Switching
    <3>4. CASE later = {} /\ UNCHANGED job
               /\ pc' = IF job.undoing THEN "writeOld" ELSE "write"
      <4>1. \A k \in Changed : k < job.kind \/ k = job.kind
        BY <3>4 DEF Changed
      <4> QED BY <3>1, <3>2, <3>3, <3>4, <4>1
          DEF TestedInv, Forward, IsSwitched, Changed, Switching, Holding
    <3>5. CASE later # {} /\ pc' = "switchPrev" /\ job' = [job EXCEPT !.kind = Least(later)]
      <4>1. Least(later) \in later /\ \A k \in later : Least(later) <= k
        BY <3>5, LeastIs
      <4>2. /\ job'.kind = Least(later) /\ job'.cand = job.cand /\ job'.op = job.op
            /\ job'.undoing = job.undoing /\ job'.tested = job.tested
        BY <3>5, <4>1, KindChange
      <4>3. \A k \in Kinds : k \in Changed /\ k < job'.kind => k < job.kind \/ k = job.kind
        <5> SUFFICES ASSUME NEW k \in Changed, k < job'.kind, k > job.kind
                     PROVE  FALSE
          BY DEF Changed
        <5>1. k \in later /\ job'.kind <= k
          BY <4>1, <4>2
        <5> QED BY <4>1, <4>2, <5>1
      <4>4. Changed' = Changed
        BY <4>2 DEF Changed
      <4> HIDE DEF later
      <4> QED BY <3>1, <3>2, <3>3, <3>5, <4>2, <4>3, <4>4
          DEF TestedInv, Forward, IsSwitched, Switching, Holding
    <3> QED BY <2>2, <2>7, <3>4, <3>5 DEF SwitchCurrent
  <2>8. CASE WriteState \/ Activate \/ HealthCheck \/ MarkHealthy
    <3>1. ~Undo(Changed, job)
      BY <1>2, FailureLeads DEF Switching, Holding
    <3>2. CASE UNCHANGED <<links, dirs, damaged, job>> /\ pc \in Holding
               /\ pc' \in Holding \cup {"succeeded"}
      BY <3>2 DEF TestedInv, Forward, IsSwitched, Changed, Switching, Holding
    <3> QED BY <1>2, <2>2, <2>8, <3>1, <3>2
        DEF WriteState, Activate, HealthCheck, MarkHealthy, Activated, Checked, Switching, Holding
  <2>9. CASE Prune
    <3>1. /\ UNCHANGED <<links, damaged, job>> /\ pc = "prune" /\ pc' = "succeeded"
      BY <2>9 DEF Prune
    <3>2. \A k \in Kinds : dirs[k] \cap Linked(links[k]) \subseteq dirs'[k]
      BY <2>9, PruneDoes
    <3>3. \A k \in Kinds : links[k].cur \in dirs[k] => links[k].cur \in dirs'[k]
      <4>1. \A k \in Kinds : None \notin dirs[k]
        BY Entries, NamesInAll, NoneIsNoName
      <4> QED BY <3>2, <4>1 DEF Linked
    <3> QED BY <3>1, <3>3 DEF TestedInv, Forward, IsSwitched, Changed, Switching, Holding
  <2>10. CASE DaemonReload
    BY <2>10
       DEF DaemonReload, TestedInv, Forward, PathInv, ChangingInv, Removing, Installs
  <2> QED BY <2>1, <2>3, <2>4, <2>5, <2>6, <2>7, <2>8, <2>9, <2>10
<1> QED BY <1>1, <1>2 DEF TestedInv, Forward

\* An install whose artifacts were accepted switches those of them that are new.
LEMMA InstallSwitches ==
    ASSUME TypeInv, PathInv, TestInstall, pc' \in Switching \cup {"write"}
    PROVE  \E cand \in NameTables, tested \in NameTables :
            /\ Switches(cand, tested)
            /\ \A k \in {Core, Assets} : cand[k] = Candidates[k] /\ tested[k] = job.cand[k]
<1> USE TypeIs, KindsAre DEF Goto, Fails, Refuses
<1>1. Candidates \in NameTables /\ Outcome(job.cand) \in NameTables
  BY CandidatesIsTable, OutcomeIsTable
<1>2. job.cand[Core] # None /\ job.cand[Assets] # None
  BY DEF TestInstall, PathInv, PreparingInv, Preparing
<1>3. \A k \in {Core, Assets} : Outcome(job.cand)[k] = job.cand[k]
  BY <1>2, OutcomeIsTable
<1>4. CASE Switches(Candidates, Outcome(job.cand))
  BY <1>1, <1>3, <1>4
<1>5. CASE /\ nextGen <= MaxGen
           /\ Switches([Candidates EXCEPT ![Config] = nextGen],
                       [job.cand EXCEPT ![Config] = nextGen])
  <2>1. nextGen \in NamesOf(Config)
    BY <1>5, InstallerAssumption DEF NamesOf, TypeInv
  <2>2. /\ [Candidates EXCEPT ![Config] = nextGen] \in NameTables
        /\ [job.cand EXCEPT ![Config] = nextGen] \in NameTables
    BY <1>1, <2>1, NameTableChange
  <2>3. \A k \in {Core, Assets} :
          /\ [Candidates EXCEPT ![Config] = nextGen][k] = Candidates[k]
          /\ [job.cand EXCEPT ![Config] = nextGen][k] = job.cand[k]
    BY <1>1 DEF NameTables, Triples
  <2> DEFINE cand == [Candidates EXCEPT ![Config] = nextGen]
             tested == [job.cand EXCEPT ![Config] = nextGen]
  <2>4. /\ Switches(cand, tested)
        /\ \A k \in {Core, Assets} : cand[k] = Candidates[k] /\ tested[k] = job.cand[k]
    BY <1>5, <2>3
  <2>5. cand \in NameTables /\ tested \in NameTables
    BY <2>2
  <2> HIDE DEF cand, tested
  <2> QED BY <2>4, <2>5
<1> QED BY <1>4, <1>5 DEF TestInstall, Switching

\* A switch that does not fail leaves the record but for the kind at work.
LEMMA SwitchGoesOn ==
    ASSUME TypeInv, SwitchPrevious \/ SwitchCurrent,
           \A clean \in BOOLEAN : ~SwitchFails(clean)
    PROVE  /\ job'.op = job.op /\ job'.old = job.old /\ job'.cand = job.cand
           /\ job'.tested = job.tested /\ job'.undoing = job.undoing /\ job'.was = job.was
           /\ state' = state /\ pc \in Switching
           /\ pc' \in Switching \cup {"write", "writeOld"}
<1> USE TypeIs, KindsAre DEF Goto, store, host, service
<1>1. CASE SwitchPrevious
  BY <1>1 DEF SwitchPrevious, Switching
<1>2. CASE SwitchCurrent
  <2> DEFINE later == {k \in Changed : k > job.kind}
  <2>1. CASE later = {}
    BY <1>2, <2>1 DEF SwitchCurrent, Switching
  <2>2. CASE later # {}
    <3>1. job' = [job EXCEPT !.kind = Least(later)]
      BY <1>2, <2>2 DEF SwitchCurrent
    <3>2. /\ job'.op = job.op /\ job'.old = job.old /\ job'.cand = job.cand
          /\ job'.tested = job.tested /\ job'.undoing = job.undoing /\ job'.was = job.was
      BY <3>1 DEF Jobs
    <3> QED BY <1>2, <2>2, <3>2 DEF SwitchCurrent, Switching
  <2> QED BY <2>1, <2>2
<1> QED BY <1>1, <1>2

\* What an install records of the core and of the assets.
LEMMA RecordStep ==
    ASSUME TypeInv, PathInv, TestedInv, RecordInv, Next
    PROVE  RecordInv'
<1> USE TypeIs, KindsAre DEF Goto, Fails, FailsHalfway, Refuses, store, host, service
<1>1. CASE pc' = pc
  <2>1. CASE UNCHANGED <<state, pc, job>>
    BY <2>1 DEF RecordInv, Forward, Changed
  <2>2. CASE pc = "idle" \/ RestoreCurrent
    BY <1>1, <2>2 DEF RecordInv, Forward, Switching, Holding, RestoreCurrent
  <2> QED BY <1>1, <2>1, <2>2, Stays
<1>2. CASE pc' # pc /\ pc' \in Switching \cup Holding \cup {"succeeded"}
  <2>1. \/ Rollback \/ TestUpgrade \/ TestInstall \/ SwitchPrevious \/ SwitchCurrent
        \/ WriteState \/ Activate \/ HealthCheck \/ MarkHealthy \/ Prune
        \/ DaemonReload /\ pc' = "succeeded"
    BY <1>2, Leads
  <2>2. /\ \A clean \in BOOLEAN : ~SwitchFails(clean)
        /\ ActivationFailed => RecordInv'
        /\ ~Undo(Changed, job)
    <3>1. (\A clean \in BOOLEAN : ~SwitchFails(clean)) /\ ~Undo(Changed, job)
      BY <1>2, FailureLeads DEF Switching, Holding
    <3> QED BY <3>1, FailureLeads DEF RecordInv, Forward
  <2>3. CASE Rollback
    BY <2>3, RollbackDoes DEF RecordInv, Forward, Installs
  <2>4. CASE TestUpgrade
    <3>1. job'.op = "upgrade"
      BY <2>4, CandidatesIsTable, OutcomeIsTable, SwitchesDoes DEF TestUpgrade
    <3> QED BY <3>1 DEF RecordInv, Installs
  <2>5. CASE TestInstall
    <3>1. PICK cand \in NameTables, tested \in NameTables :
            /\ Switches(cand, tested)
            /\ \A k \in {Core, Assets} : cand[k] = Candidates[k] /\ tested[k] = job.cand[k]
      <4>1. pc' \in Switching \cup {"write"}
        BY <1>2, <2>5 DEF TestInstall, Switches, Switching, Holding
      <4> QED BY <2>5, <4>1, InstallSwitches
    <3>2. /\ job'.op = job.op /\ job'.cand = cand /\ job'.tested = tested /\ job'.old = state
          /\ pc' \in {"switchPrev", "write"}
      BY <3>1, SwitchesDoes DEF Switches
    <3>3. \A k \in {Core, Assets} : cand[k] = None => state.at[k].cur = tested[k]
      <4>1. job.cand[Core] # None /\ job.cand[Assets] # None /\ job.op \in Installs
        BY <2>5 DEF TestInstall, PathInv, PreparingInv, Preparing
      <4>2. \A k \in {Core, Assets} : Candidates[k] = None => k \in Unswitched
        BY <4>1, CandidatesIsTable
      <4>3. \A k \in Unswitched : state.at[k].cur = job.cand[k]
        BY <4>1 DEF Unswitched, Installs
      <4> QED BY <3>1, <4>2, <4>3
    <3> QED BY <3>2, <3>3 DEF RecordInv, Changed, Switching
  <2>6. CASE SwitchPrevious \/ SwitchCurrent
    <3>1. /\ job'.op = job.op /\ job'.old = job.old /\ job'.cand = job.cand
          /\ job'.tested = job.tested /\ job'.undoing = job.undoing
          /\ state' = state /\ pc \in Switching /\ pc' \in Switching \cup {"write", "writeOld"}
      BY <2>2, <2>6, SwitchGoesOn
    <3> QED BY <3>1 DEF RecordInv, Forward, Changed, Switching, Holding
  <2>7. CASE WriteState
    <3>1. CASE state' = [state EXCEPT !.at = Recorded] /\ pc' = "activate" /\ UNCHANGED job
      <4>1. state'.at = Recorded
        BY <3>1 DEF States
      <4>2. ASSUME job.op \in Installs, NEW k \in {Core, Assets}
            PROVE  Recorded[k].cur = job.tested[k]
        <5>1. Forward /\ pc = "write"
          BY <2>7, <4>2 DEF WriteState, Forward, PathInv, ChangingInv, Holding
        <5>2. job.cand[k] \in {None, job.tested[k]}
          BY <4>2, <5>1 DEF TestedInv
        <5>3. job.cand[k] = None => job.old.at[k].cur = job.tested[k]
          BY <4>2, <5>1 DEF RecordInv, Changed
        <5>4. job.op # "rollback"
          BY <4>2 DEF Installs
        <5> QED BY <5>2, <5>3, <5>4, RecordedIsTable
      <4> QED BY <3>1, <4>1, <4>2 DEF RecordInv, Switching
    <3> QED BY <2>2, <2>7, <3>1 DEF WriteState
  <2>8. CASE Activate \/ HealthCheck \/ MarkHealthy \/ Prune
    <3>1. CASE UNCHANGED <<state, job>> /\ pc \in Holding \ {"write"}
               /\ pc' \in {"health", "mark", "unmarked", "prune", "succeeded"}
      BY <3>1 DEF RecordInv, Forward, Switching, Holding
    <3> QED BY <1>2, <2>2, <2>8, <3>1
        DEF Activate, HealthCheck, MarkHealthy, Prune, Activated, Checked, Switching, Holding
  <2>9. CASE DaemonReload
    BY <2>9 DEF DaemonReload, RecordInv, PathInv, ChangingInv, Removing, Installs
  <2> QED BY <2>1, <2>3, <2>4, <2>5, <2>6, <2>7, <2>8, <2>9
<1> QED BY <1>1, <1>2 DEF RecordInv, Forward
--------------------------------------------------------------------------------
(* What the operation found, and how far from it the links are.            *)

LEMMA TablesEqual ==
    ASSUME NEW f \in LinkTables, NEW g \in LinkTables, \A k \in Kinds : f[k] = g[k]
    PROVE  f = g
BY DEF LinkTables

LEMMA AfterIs ==
    ASSUME TypeInv, NEW k \in Kinds
    PROVE  /\ job.cand[k] = None => After(k) = Was[k]
           /\ job.cand[k] # None =>
                /\ After(k) = LinkCurrent(LinkPrevious(Was[k]), job.cand[k])
                /\ After(k) = [cur |-> job.cand[k],
                               prev |-> IF Was[k].cur = None THEN Was[k].prev ELSE Was[k].cur]
                /\ After(k).cur = job.cand[k]
                /\ After(k).prev = IF Was[k].cur = None THEN Was[k].prev ELSE Was[k].cur
<1>1. Was[k] \in Links(NamesOf(k)) /\ Was[k] = [cur |-> Was[k].cur, prev |-> Was[k].prev]
  BY TypeIs, Entries DEF Was
<1> QED BY <1>1 DEF After, Changed, LinkPrevious, LinkCurrent, Links

LEMMA SyncInit == Init => SyncInv
BY DEF Init, NoJob, SyncInv, FoundInv, ForwardInv, BackInv, RollbackInv, Synced

\* An operation that begins has found what is there.
LEMMA SyncBegin ==
    ASSUME TypeInv, Install \/ Upgrade \/ Rollback \/ Remove
    PROVE  SyncInv'
<1> USE TypeIs, KindsAre
    DEF SyncInv, FoundInv, ForwardInv, BackInv, RollbackInv, Synced, Was
<1>1. Begins
  BY InstallDoes, UpgradeDoes, RollbackDoes, RemoveDoes
<1>2. job'.was.synced => links' = Was' /\ state'.at = Was'
  BY <1>1 DEF Begins, store, host
<1>3. ~job'.undoing
  BY <1>1 DEF Begins
<1>4. CASE Install \/ Upgrade
  <2>1. pc' \in {"group", "refused", "core", "assets"} /\ job'.op # "rollback"
    BY <1>4, InstallDoes, UpgradeDoes DEF Installs
  <2> QED BY <1>2, <2>1 DEF Preparing, Placing, Switching, Holding, Restoring
<1>5. CASE Rollback
  <2>1. CASE pc' = "refused"
    BY <1>2, <1>5, <2>1, RollbackDoes DEF Preparing, Placing, Switching, Holding, Restoring
  <2>2. CASE pc' = "switchPrev"
    <3>1. job'.kind \in Kinds /\ job'.old = state
      BY <1>1, <1>5, RollbackDoes DEF Begins, Jobs
    <3>2. /\ job'.cand[job'.kind] = links[job'.kind].prev
          /\ links[job'.kind].prev # None
          /\ \A k \in Kinds : k # job'.kind => job'.cand[k] = None
      BY <1>5, <2>2, <3>1, RollbackDoes DEF NoTriple
    <3>3. links' = links /\ state' = state
      BY <1>1 DEF Begins, store, host
    <3>4. \A k \in Kinds : k # job'.kind => After(k)' = Was[k]'
      BY <3>2 DEF After, Changed
    <3> HIDE DEF Was
    <3>5. FoundInv'
      BY <1>2, <2>2, <3>1, <3>3
         DEF Preparing, Placing, Switching, Holding, Restoring
    <3>6. ForwardInv'
      BY <1>2, <2>2, <3>1, <3>4 DEF Switching, Holding
    <3>7. BackInv'
      BY <2>2 DEF Restoring
    <3>8. RollbackInv'
      BY <1>2, <1>3, <2>2, <3>2, <3>3
    <3> QED BY <3>5, <3>6, <3>7, <3>8
  <2> QED BY <1>5, <2>1, <2>2, RollbackDoes
<1>6. CASE Remove
  BY <1>6, RemoveDoes DEF Changes, Installs
<1> QED BY <1>4, <1>5, <1>6

\* Before the first switch nothing that is found changes.
LEMMA PreparingKeeps ==
    ASSUME TypeInv, PathInv,
           \/ EnsureGroup \/ RecordCreated \/ WriteUnits
           \/ PrepareCore \/ QuarantineCore \/ PlaceCore \/ CheckCore \/ RestoreQuarantined
           \/ PrepareAssets
    PROVE  /\ links' = links /\ state'.at = state.at
           /\ job'.was = job.was /\ job'.op = job.op /\ job'.undoing = job.undoing
           /\ pc \in Preparing /\ pc' \in Preparing \cup {"failed"}
<1> USE TypeIs, KindsAre
    DEF Goto, Fails, FailsHalfway, Refuses, store, host, service, Preparing, Placing
<1>1. CASE EnsureGroup \/ RecordCreated \/ WriteUnits
  BY <1>1 DEF EnsureGroup, RecordCreated, WriteUnits, States
<1>2. CASE PrepareCore
  <2>1. links[Core].cur \in NamesOf(Core) \cup {None} /\ NamesOf(Core) = Versions
    BY Entries DEF NamesOf
  <2>2. ASSUME NEW v \in NamesOf(Core) \cup {None}, CoreReady(v)
        PROVE  /\ job'.was = job.was /\ job'.op = job.op /\ job'.undoing = job.undoing
               /\ pc' \in Preparing
    BY <2>2, CoreReadyDoes DEF Keeps
  <2>3. ASSUME NEW v \in NamesOf(Core) \cup {None}, job' = [job EXCEPT !.cand[Core] = v]
        PROVE  job'.was = job.was /\ job'.op = job.op /\ job'.undoing = job.undoing
    BY <2>3, CandidateDoes DEF Keeps
  <2> QED BY <1>2, <2>1, <2>2, <2>3 DEF PrepareCore
<1>3. CASE QuarantineCore \/ PlaceCore \/ CheckCore \/ RestoreQuarantined
  <2>1. job.cand[Core] \in NamesOf(Core) \cup {None}
    BY Entries
  <2>2. CoreReady(job.cand[Core]) =>
            /\ job'.was = job.was /\ job'.op = job.op /\ job'.undoing = job.undoing
            /\ pc' \in Preparing
    BY <2>1, CoreReadyDoes DEF Keeps
  <2> QED BY <1>3, <2>2, AsideChange
      DEF QuarantineCore, PlaceCore, CheckCore, RestoreQuarantined
<1>4. CASE PrepareAssets
  <2>1. links[Assets].cur \in NamesOf(Assets) \cup {None}
    BY Entries
  <2>2. nextGen <= MaxGen => nextGen \in NamesOf(Assets)
    BY InstallerAssumption DEF NamesOf, TypeInv
  <2>3. ASSUME NEW n \in NamesOf(Assets) \cup {None}, job' = [job EXCEPT !.cand[Assets] = n]
        PROVE  job'.was = job.was /\ job'.op = job.op /\ job'.undoing = job.undoing
    BY <2>3, CandidateDoes DEF Keeps
  <2> QED BY <1>4, <2>1, <2>2, <2>3 DEF PrepareAssets
<1> QED BY <1>1, <1>2, <1>3, <1>4

LEMMA SyncPreparing ==
    ASSUME TypeInv, PathInv, SyncInv,
           \/ EnsureGroup \/ RecordCreated \/ WriteUnits
           \/ PrepareCore \/ QuarantineCore \/ PlaceCore \/ CheckCore \/ RestoreQuarantined
           \/ PrepareAssets
    PROVE  SyncInv'
<1>1. /\ links' = links /\ state'.at = state.at
      /\ job'.was = job.was /\ job'.op = job.op /\ job'.undoing = job.undoing
      /\ pc \in Preparing /\ pc' \in Preparing \cup {"failed"}
  BY PreparingKeeps
<1>2. job.op # "rollback"
  BY <1>1 DEF PathInv, PreparingInv, Installs
<1> QED BY <1>1, <1>2
    DEF SyncInv, FoundInv, ForwardInv, BackInv, RollbackInv, Synced, Was, Preparing, Placing,
        Switching, Holding, Restoring

\* The test, and the way to the first switch.
LEMMA SwitchesFrom ==
    ASSUME TypeInv, TestUpgrade \/ TestInstall, pc' \notin {"failed", "refused", "succeeded"}
    PROVE  \E cand, tested \in NameTables : Switches(cand, tested)
<1> USE TypeIs, KindsAre DEF Goto, Fails, Refuses
<1>1. Candidates \in NameTables /\ Outcome(job.cand) \in NameTables
      /\ Outcome(Candidates) \in NameTables
  BY CandidatesIsTable, OutcomeIsTable
<1>2. nextGen <= MaxGen => /\ [Candidates EXCEPT ![Config] = nextGen] \in NameTables
                           /\ [job.cand EXCEPT ![Config] = nextGen] \in NameTables
  <2>1. nextGen <= MaxGen => nextGen \in NamesOf(Config)
    BY InstallerAssumption DEF NamesOf, TypeInv
  <2> QED BY <1>1, <2>1, NameTableChange
<1>3. CASE TestUpgrade
  BY <1>1, <1>3 DEF TestUpgrade
<1>4. CASE TestInstall
  BY <1>1, <1>2, <1>4 DEF TestInstall
<1> QED BY <1>3, <1>4

LEMMA SyncTest ==
    ASSUME TypeInv, PathInv, SyncInv, TestUpgrade \/ TestInstall
    PROVE  SyncInv'
<1> USE TypeIs, KindsAre DEF Goto, Fails, Refuses, store, host
<1>1. links' = links /\ state' = state /\ pc = "test"
  BY DEF TestUpgrade, TestInstall
<1>2. /\ job.op \in Installs \cup {"upgrade"} /\ job.op # "rollback" /\ job.tested = NoTriple
      /\ ~job.undoing
  BY <1>1 DEF PathInv, PreparingInv, Preparing, Installs
<1>3. Synced => links = Was /\ state.at = Was
  BY <1>1 DEF SyncInv, FoundInv, Preparing
<1>4. CASE pc' \in {"failed", "refused", "succeeded"}
  <2>1. job' = job /\ (pc' = "succeeded" => job.op = "upgrade")
    BY <1>4 DEF TestUpgrade, TestInstall, Switches
  <2> QED BY <1>1, <1>2, <1>3, <1>4, <2>1
      DEF SyncInv, FoundInv, ForwardInv, BackInv, RollbackInv, Synced, Was, Preparing,
          Placing, Switching, Holding, Restoring
<1>5. CASE pc' \notin {"failed", "refused", "succeeded"}
  <2>1. PICK cand \in NameTables, tested \in NameTables : Switches(cand, tested)
    BY <1>5, SwitchesFrom
  <2>2. /\ job'.was = job.was /\ job'.op = job.op /\ job'.old = state /\ job'.cand = cand
        /\ \/ pc' = "write" /\ \A k \in Kinds : cand[k] = None
           \/ /\ pc' = "switchPrev" /\ job'.kind \in Kinds
              /\ \A k \in Kinds : k < job'.kind => cand[k] = None
    BY <2>1, SwitchesDoes DEF Jobs
  <2>3. \A k \in Kinds : cand[k] = None => After(k)' = Was[k]
    BY <2>2 DEF After, Changed, Was
  <2>4. Was' = Was /\ (Synced' => Synced) /\ job'.op # "rollback"
    BY <1>2, <2>2 DEF Was, Synced
  <2>5. FoundInv'
    BY <1>1, <1>3, <2>2, <2>4
       DEF FoundInv, Preparing, Placing, Switching, Holding, Restoring
  <2>6. ForwardInv'
    BY <1>1, <1>3, <2>2, <2>3, <2>4 DEF ForwardInv, Switching, Holding
  <2>7. BackInv' /\ RollbackInv'
    BY <2>2, <2>4 DEF BackInv, RollbackInv, Restoring
  <2> QED BY <2>5, <2>6, <2>7 DEF SyncInv
<1> QED BY <1>4, <1>5

\* The way back begins.
LEMMA SyncActivationFailed ==
    ASSUME TypeInv, PathInv, SyncInv, ActivationFailed, pc \in {"write", "activate", "health"},
           links' = links
    PROVE  SyncInv'
<1> USE TypeIs, KindsAre
<1>1. job' \in Jobs /\ Keeps(job) /\ job'.undoing /\ job'.clean = job.clean
  BY ActivationFailedDoes
<1>2. Was' = Was /\ (Synced' <=> Synced) /\ job'.old = job.old /\ job'.op = job.op
  BY <1>1 DEF Keeps, Was, Synced
<1>3. ~job.undoing /\ job.clean /\ pc \in Holding
  BY DEF PathInv, ChangingInv, Holding
<1>4. Synced => (\A k \in Kinds : links[k] = After(k)) /\ job.old.at = Was
  BY <1>3 DEF SyncInv, ForwardInv, FoundInv
<1>5. \A k \in Kinds : k \notin Changed => After(k) = Was[k]
  BY DEF After
<1>6. CASE job.op = "rollback"
  <2>1. job'.kind = job.kind /\ \A k \in Kinds : k # job.kind => job.cand[k] = None
    BY <1>6, ActivationFailedDoes DEF PathInv, ChangingInv
  <2>2. Synced => /\ job.cand[job.kind] = Was[job.kind].prev /\ Was[job.kind].prev # None
                  /\ \A k \in Kinds : k # job.kind => links[k] = Was[k]
    <3>1. \A k \in Kinds : k # job.kind => k \notin Changed
      BY <2>1 DEF Changed
    <3> QED BY <1>3, <1>4, <1>5, <1>6, <3>1 DEF SyncInv, RollbackInv, Holding
  <2>3. Synced /\ Reversible =>
            links[job.kind].cur = Was[job.kind].prev /\ links[job.kind].prev = Was[job.kind].cur
            /\ Was[job.kind].cur # None
    BY <1>4, <1>6, <2>2, AfterIs DEF Reversible, Was
  <2>4. Reversible' <=> Reversible
    BY <1>2, <2>1 DEF Reversible, Was
  <2>5. CASE links[job.kind].prev # None
    <3>1. pc' = "switchPrev" /\ job'.cand[job.kind] = links[job.kind].prev
      BY <1>6, <2>5, ActivationFailedDoes DEF NameTables, Triples
    <3>2. FoundInv'
      BY <1>1, <1>2, <1>4, <3>1 DEF FoundInv, Preparing, Placing
    <3>3. ForwardInv' /\ BackInv'
      BY <1>1, <3>1 DEF ForwardInv, BackInv, Restoring
    <3>4. RollbackInv'
      BY <1>1, <1>2, <2>1, <2>2, <2>3, <2>4, <3>1 DEF RollbackInv, Holding
    <3> QED BY <3>2, <3>3, <3>4 DEF SyncInv
  <2>6. CASE links[job.kind].prev = None
    <3>1. pc' = "writeOld"
      BY <1>6, <2>6, ActivationFailedDoes
    <3>2. ~(Synced /\ Reversible)
      BY <2>3, <2>6
    <3>3. FoundInv' /\ ForwardInv'
      BY <1>1, <1>2, <1>4, <3>1
         DEF FoundInv, ForwardInv, Preparing, Placing, Switching, Restoring, Holding
    <3>4. BackInv' /\ RollbackInv'
      BY <1>2, <2>1, <2>2, <2>4, <3>1, <3>2 DEF BackInv, RollbackInv, Switching, Restoring, Holding
    <3> QED BY <3>3, <3>4 DEF SyncInv
  <2> QED BY <2>5, <2>6
<1>7. CASE job.op # "rollback"
  <2>1. /\ job'.cand = job.cand
        /\ \/ Changed = {} /\ pc' = "writeOld"
           \/ /\ pc' = "undoCur" /\ job'.kind \in Changed
              /\ \A k \in Changed : job'.kind >= k
    BY <1>7, ActivationFailedDoes
  <2>2. Changed' = Changed
    BY <2>1 DEF Changed
  <2>3. FoundInv' /\ ForwardInv'
    BY <1>1, <1>2, <1>4, <2>1
       DEF FoundInv, ForwardInv, Preparing, Placing, Switching, Restoring, Holding
  <2>4. CASE Changed = {} /\ pc' = "writeOld"
    <3>1. Synced => links = Was
      BY <1>4, <1>5, <2>4, TablesEqual DEF Was
    <3> QED BY <1>2, <1>7, <2>3, <2>4, <3>1 DEF SyncInv, BackInv, RollbackInv, Restoring
  <2>5. CASE pc' = "undoCur" /\ job'.kind \in Changed /\ \A k \in Changed : job'.kind >= k
    <3>1. \A k \in Kinds : k > job'.kind => k \notin Changed
      BY <2>5 DEF Changed
    <3> QED BY <1>2, <1>4, <1>5, <1>7, <2>2, <2>3, <2>5, <3>1
        DEF SyncInv, BackInv, RollbackInv, Restoring
  <2> QED BY <2>1, <2>4, <2>5
<1> QED BY <1>6, <1>7

\* A way back, with the links of some kinds to be restored and the others as they were.
LEMMA SyncUndo ==
    ASSUME TypeInv, PathInv, TypeInv', SyncInv, NEW kinds \in SUBSET Changed, NEW j \in Jobs,
           Undo(kinds, j), state' = state, pc \in Restoring \cup Switching \cup {"write"},
           j.was = job.was, j.op = job.op, j.old = job.old, j.cand = job.cand,
           j.undoing = job.undoing, job.op # "rollback",
           Synced /\ j.clean => \A k \in Kinds : k \notin kinds => links'[k] = Was[k]
    PROVE  SyncInv'
<1> USE TypeIs, KindsAre
<1>1. /\ kinds \in SUBSET Kinds /\ Keeps(j) /\ job'.cand = job.cand
      /\ job'.undoing = job.undoing /\ job'.clean = j.clean
      /\ kinds = {} => pc' = IF job.undoing THEN "writeOld" ELSE "failed"
      /\ kinds # {} => pc' = "undoCur" /\ job'.kind \in kinds /\ \A k \in kinds : job'.kind >= k
  BY UndoDoes
<1>2. /\ Was' = Was /\ (Synced' <=> Synced) /\ job'.old = job.old /\ job'.op = job.op
      /\ Changed' = Changed
  BY <1>1 DEF Keeps, Was, Synced, Changed
<1>3. Synced => job.old.at = Was /\ (~job.undoing => state.at = Was)
  BY DEF SyncInv, FoundInv, Switching, Restoring, Holding
<1>4. FoundInv' /\ ForwardInv' /\ RollbackInv'
  BY <1>1, <1>2, <1>3
     DEF FoundInv, ForwardInv, RollbackInv, Preparing, Placing, Switching, Restoring, Holding
<1>5. CASE kinds = {}
  <2>1. Synced /\ j.clean => links' = Was
    BY <1>5, TablesEqual DEF TypeInv, Was
  <2> QED BY <1>1, <1>2, <1>4, <1>5, <2>1 DEF SyncInv, BackInv, Restoring
<1>6. CASE kinds # {}
  <2>1. \A k \in Kinds : k > job'.kind \/ k \notin Changed => k \notin kinds
    <3>1. \A k \in kinds : ~(k > job'.kind)
      BY <1>1, <1>6
    <3> QED BY <3>1
  <2> QED BY <1>1, <1>2, <1>4, <1>6, <2>1 DEF SyncInv, BackInv, Restoring
<1> QED BY <1>5, <1>6

\* A switch that fails.
LEMMA SyncSwitchFails ==
    ASSUME TypeInv, PathInv, TypeInv', SyncInv, NEW clean \in BOOLEAN, SwitchFails(clean),
           state' = state, pc \in Switching,
           clean => pc = "switchPrev" /\ links' = links /\ ~job.undoing
    PROVE  SyncInv'
<1> USE TypeIs, KindsAre
<1> DEFINE j == [job EXCEPT !.clean = @ /\ clean]
<1>1. /\ j \in Jobs /\ j.undoing = job.undoing /\ (j.clean => clean)
      /\ j.cand = job.cand /\ j.kind = job.kind /\ j.op = job.op
      /\ j.old = job.old /\ j.was = job.was
  BY DEF Jobs
<1>2. Undo(IF job.undoing THEN {} ELSE Earlier, j)
  BY DEF SwitchFails
<1>3. CASE job.op # "rollback"
  <2>1. ~job.undoing /\ Earlier \in SUBSET Changed
    BY <1>3 DEF PathInv, ChangingInv, Earlier
  <2>2. Synced /\ clean => \A k \in Kinds : k \notin Earlier => links'[k] = Was[k]
    <3>1. Synced => \A k \in Kinds : /\ k < job.kind => links[k] = After(k)
                                     /\ k > job.kind => links[k] = Was[k]
                                     /\ k = job.kind /\ pc = "switchPrev" => links[k] = Was[k]
      BY <2>1 DEF SyncInv, ForwardInv
    <3>2. \A k \in Kinds : k < job.kind /\ k \notin Earlier => After(k) = Was[k]
      BY DEF Earlier, After
    <3>3. \A k \in Kinds : k < job.kind \/ k > job.kind \/ k = job.kind
      OBVIOUS
    <3> QED BY <3>1, <3>2, <3>3
  <2> HIDE DEF j
  <2> QED BY <1>1, <1>2, <1>3, <2>1, <2>2, SyncUndo
<1>4. CASE job.op = "rollback"
  <2>1. Earlier = {}
    BY <1>4 DEF Earlier, Changed, PathInv, ChangingInv
  <2>2. /\ Keeps(job) /\ job'.cand = job.cand /\ job'.kind = job.kind
        /\ job'.undoing = job.undoing /\ (job'.clean => clean)
        /\ pc' = IF job.undoing THEN "writeOld" ELSE "failed"
    BY <2>1, SwitchFailsDoes
  <2>3. Was' = Was /\ (Synced' <=> Synced) /\ job'.old = job.old /\ job'.op = job.op
    BY <2>2 DEF Keeps, Was, Synced
  <2>4. Synced => job.old.at = Was /\ (~job.undoing => state.at = Was)
                  /\ Was[job.kind].prev # None
    BY <1>4 DEF SyncInv, FoundInv, RollbackInv, Switching
  <2>5. Synced /\ clean => links' = Was
    <3>1. Synced /\ clean => \A k \in Kinds : links[k] = Was[k]
      <4> SUFFICES ASSUME Synced, clean, NEW k \in Kinds
                   PROVE  links[k] = Was[k]
        OBVIOUS
      <4>1. k = job.kind => links[k] = Was[k]
        BY DEF SyncInv, ForwardInv
      <4>2. k > job.kind => links[k] = Was[k]
        BY DEF SyncInv, ForwardInv
      <4>3. k < job.kind => links[k] = After(k) /\ k \notin Changed
        BY <1>4 DEF SyncInv, ForwardInv, Changed, PathInv, ChangingInv
      <4> QED BY <4>1, <4>2, <4>3 DEF After
    <3> QED BY <3>1, TablesEqual DEF Was
  <2>6. FoundInv' /\ ForwardInv' /\ RollbackInv'
    BY <2>2, <2>3, <2>4
       DEF FoundInv, ForwardInv, RollbackInv, Preparing, Placing, Switching, Restoring, Holding
  <2>7. BackInv'
    BY <2>2, <2>3, <2>5 DEF BackInv, Restoring
  <2> QED BY <2>6, <2>7 DEF SyncInv
<1> QED BY <1>3, <1>4

LEMMA SyncSwitch ==
    ASSUME TypeInv, PathInv, TypeInv', SyncInv, SwitchPrevious \/ SwitchCurrent
    PROVE  SyncInv'
<1> USE TypeIs, KindsAre DEF Goto, host
<1>1. state' = state /\ pc \in Switching
  BY DEF SwitchPrevious, SwitchCurrent, Switching
<1>2. \A k \in Kinds : k < job.kind \/ k > job.kind \/ k = job.kind
  OBVIOUS
<1>3. Synced => job.old.at = Was /\ (~job.undoing => state.at = Was)
  BY <1>1 DEF SyncInv, FoundInv, Switching
<1>4. job.undoing => job.op = "rollback" /\ \A k \in Kinds : k # job.kind => job.cand[k] = None
  BY <1>1 DEF PathInv, ChangingInv
<1>5. CASE SwitchPrevious /\ links' = [links EXCEPT ![job.kind] = LinkPrevious(@)]
           /\ pc' = "switchCur" /\ UNCHANGED job
  <2>1. /\ links'[job.kind] = LinkPrevious(links[job.kind])
        /\ \A k \in Kinds : k # job.kind => links'[k] = links[k]
        /\ pc = "switchPrev"
    BY <1>5, HalfSwitched DEF SwitchPrevious
  <2>2. Was' = Was /\ (Synced' <=> Synced) /\ (Reversible' <=> Reversible)
        /\ \A k \in Kinds : After(k)' = After(k)
    BY <1>5 DEF Was, Synced, Reversible, After, Changed
  <2>3. FoundInv'
    BY <1>1, <1>3, <1>5, <2>2
       DEF FoundInv, Preparing, Placing, Switching, Restoring, Holding
  <2>4. ForwardInv'
    BY <1>2, <1>5, <2>1, <2>2 DEF SyncInv, ForwardInv, Switching, Holding
  <2>5. BackInv'
    BY <1>5 DEF BackInv, Restoring
  <2>6. RollbackInv'
    <3>1. /\ links[job.kind].cur # None =>
                LinkPrevious(links[job.kind]).prev = links[job.kind].cur
          /\ LinkPrevious(links[job.kind]).cur = links[job.kind].cur
      <4>1. links[job.kind] \in Links(NamesOf(job.kind))
        BY Entries
      <4> QED BY <4>1 DEF LinkPrevious, Links
    <3> QED BY <1>5, <2>1, <2>2, <3>1 DEF SyncInv, RollbackInv, Switching, Holding
  <2> QED BY <2>3, <2>4, <2>5, <2>6 DEF SyncInv
<1>6. CASE SwitchCurrent /\ links' = [links EXCEPT ![job.kind] = LinkCurrent(@, job.cand[job.kind])]
           /\ ~SwitchFails(FALSE)
  <2> DEFINE later == {k \in Changed : k > job.kind}
  <2>1. /\ links'[job.kind] = LinkCurrent(links[job.kind], job.cand[job.kind])
        /\ \A k \in Kinds : k # job.kind => links'[k] = links[k]
        /\ links'[job.kind].cur = job.cand[job.kind]
        /\ links'[job.kind].prev = links[job.kind].prev
        /\ pc = "switchCur" /\ job.cand[job.kind] # None
    BY <1>6, Switched DEF SwitchCurrent, PathInv, ChangingInv, Switching
  <2>2. Synced /\ ~job.undoing => \A k \in Kinds : /\ k <= job.kind => links'[k] = After(k)
                                                   /\ k > job.kind => links'[k] = Was[k]
    <3> SUFFICES ASSUME Synced, ~job.undoing, NEW k \in Kinds
                 PROVE  /\ k <= job.kind => links'[k] = After(k)
                        /\ k > job.kind => links'[k] = Was[k]
      OBVIOUS
    <3>1. CASE k = job.kind
      <4>1. links[k] = LinkPrevious(Was[k])
        BY <2>1, <3>1 DEF SyncInv, ForwardInv, Switching
      <4> QED BY <2>1, <3>1, <4>1, AfterIs
    <3>2. CASE k < job.kind
      BY <2>1, <3>2 DEF SyncInv, ForwardInv, Switching
    <3>3. CASE k > job.kind
      BY <2>1, <3>3 DEF SyncInv, ForwardInv, Switching
    <3> QED BY <1>2, <3>1, <3>2, <3>3
  <2>3. CASE later = {}
    <3>1. job' = job /\ pc' = IF job.undoing THEN "writeOld" ELSE "write"
      BY <1>6, <2>3 DEF SwitchCurrent
    <3>2. Was' = Was /\ (Synced' <=> Synced) /\ (Reversible' <=> Reversible)
          /\ \A k \in Kinds : After(k)' = After(k)
      BY <3>1 DEF Was, Synced, Reversible, After, Changed
    <3>3. FoundInv'
      BY <1>1, <1>3, <3>1, <3>2
         DEF FoundInv, Preparing, Placing, Switching, Restoring, Holding
    <3>4. \A k \in Kinds : k > job.kind => After(k) = Was[k]
      BY <2>3 DEF After
    <3>5. Synced /\ ~job.undoing => \A k \in Kinds : links'[k] = After(k)
      BY <1>2, <2>2, <3>4
    <3>6. ForwardInv'
      BY <3>1, <3>2, <3>5 DEF ForwardInv, Switching, Holding
    <3>7. Synced /\ job.undoing /\ Reversible => links' = Was
      <4>0. links' \in LinkTables /\ Was \in LinkTables
        BY DEF TypeInv, Was
      <4> SUFFICES ASSUME Synced, job.undoing, Reversible
                   PROVE  \A k \in Kinds : links'[k] = Was[k]
        BY <4>0, TablesEqual
      <4>1. /\ \A k \in Kinds : k # job.kind => links[k] = Was[k]
            /\ job.cand[job.kind] = Was[job.kind].cur
            /\ links[job.kind].prev = Was[job.kind].prev
        BY <1>4, <2>1 DEF SyncInv, RollbackInv, Switching
      <4>2. /\ links'[job.kind] = [cur |-> links'[job.kind].cur, prev |-> links'[job.kind].prev]
            /\ Was[job.kind] = [cur |-> Was[job.kind].cur, prev |-> Was[job.kind].prev]
        <5>1. job.kind \in Kinds
          OBVIOUS
        <5>2. ASSUME NEW f \in LinkTables
              PROVE  f[job.kind] = [cur |-> f[job.kind].cur, prev |-> f[job.kind].prev]
          BY <5>1, Entries
        <5> QED BY <4>0, <5>2
      <4> QED BY <2>1, <4>1, <4>2
    <3>8. BackInv'
      BY <3>1, <3>2, <3>7 DEF BackInv, Restoring
    <3>9. RollbackInv'
      BY <2>1, <3>1, <3>2 DEF SyncInv, RollbackInv, Switching, Holding
    <3> QED BY <3>3, <3>6, <3>8, <3>9 DEF SyncInv
  <2>4. CASE later # {}
    <3>1. Least(later) \in later /\ \A k \in later : Least(later) <= k
      BY <2>4, LeastIs
    <3>2. pc' = "switchPrev" /\ job' = [job EXCEPT !.kind = Least(later)]
      BY <1>6, <2>4 DEF SwitchCurrent
    <3>3. /\ job'.kind = Least(later) /\ job'.cand = job.cand /\ job'.op = job.op
          /\ job'.undoing = job.undoing /\ job'.was = job.was /\ job'.old = job.old
      BY <3>1, <3>2, KindChange
    <3>4. ~job.undoing /\ job.op # "rollback"
      <4>1. PICK k \in Changed : k > job.kind
        BY <2>4
      <4> QED BY <1>4, <4>1 DEF Changed, PathInv, ChangingInv
    <3>5. Was' = Was /\ (Synced' <=> Synced) /\ \A k \in Kinds : After(k)' = After(k)
      BY <3>3 DEF Was, Synced, After, Changed
    <3>6. FoundInv'
      BY <1>1, <1>3, <3>2, <3>3, <3>5
         DEF FoundInv, Preparing, Placing, Switching, Restoring, Holding
    <3>7. \A k \in Kinds : /\ k > job.kind /\ k < job'.kind => After(k) = Was[k]
                           /\ k >= job'.kind => k > job.kind
      <4>1. job'.kind > job.kind /\ job'.kind \in Kinds
        BY <3>1, <3>3
      <4>2. \A k \in Kinds : k > job.kind /\ k < job'.kind => k \notin Changed
        <5> SUFFICES ASSUME NEW k \in Changed, k > job.kind, k < job'.kind
                     PROVE  FALSE
          OBVIOUS
        <5>1. k \in later
          OBVIOUS
        <5> QED BY <3>1, <3>3, <5>1
      <4> QED BY <4>1, <4>2 DEF After
    <3>8. ForwardInv'
      <4> SUFFICES ASSUME Synced, ~job.undoing, NEW k \in Kinds
                   PROVE  /\ k < job'.kind => links'[k] = After(k)
                          /\ k >= job'.kind => links'[k] = Was[k]
        BY <3>1, <3>2, <3>3, <3>5 DEF ForwardInv, Switching, Holding
      <4>1. CASE k <= job.kind
        BY <2>2, <3>1, <3>3, <3>7, <4>1
      <4>2. CASE k > job.kind
        BY <2>2, <3>7, <4>2
      <4> QED BY <4>1, <4>2
    <3>9. BackInv' /\ RollbackInv'
      BY <3>2, <3>3, <3>4 DEF BackInv, RollbackInv, Restoring
    <3> QED BY <3>6, <3>8, <3>9 DEF SyncInv
  <2> QED BY <2>3, <2>4
<1>7. CASE SwitchPrevious /\ SwitchFails(~job.undoing) /\ links' = links
  <2>1. pc = "switchPrev" /\ (~job.undoing) \in BOOLEAN
    BY <1>7 DEF SwitchPrevious
  <2> QED BY <1>1, <1>7, <2>1, SyncSwitchFails
<1>8. CASE SwitchCurrent /\ SwitchFails(FALSE)
  BY <1>1, <1>8, SyncSwitchFails
<1> QED BY <1>5, <1>6, <1>7, <1>8 DEF SwitchPrevious, SwitchCurrent

LEMMA SyncHolding ==
    ASSUME TypeInv, PathInv, TypeInv', SyncInv,
           WriteState \/ Activate \/ HealthCheck \/ MarkHealthy \/ Prune
    PROVE  SyncInv'
<1> USE TypeIs, KindsAre DEF Goto, FailsHalfway, store, host
<1>1. links' = links /\ pc \in Holding /\ ~job.undoing
  BY DEF WriteState, Activate, HealthCheck, MarkHealthy, Prune, Holding, PathInv, ChangingInv
<1>2. Synced => /\ job.old.at = Was /\ \A k \in Kinds : links[k] = After(k)
                /\ pc = "write" => state.at = Was
  BY <1>1 DEF SyncInv, FoundInv, ForwardInv
<1>3. ASSUME job' = job, pc' \in {"activate", "health", "mark", "unmarked", "prune", "succeeded"}
      PROVE  SyncInv'
  <2>1. Was' = Was /\ (Synced' <=> Synced) /\ \A k \in Kinds : After(k)' = After(k)
    BY <1>3 DEF Was, Synced, After, Changed
  <2>2. FoundInv' /\ BackInv'
    BY <1>2, <1>3, <2>1
       DEF FoundInv, BackInv, Preparing, Placing, Switching, Restoring, Holding
  <2>3. ForwardInv'
    BY <1>1, <1>2, <1>3, <2>1 DEF ForwardInv, Switching
  <2>4. RollbackInv'
    BY <1>1, <1>3, <2>1 DEF SyncInv, RollbackInv, Switching, Holding
  <2> QED BY <2>2, <2>3, <2>4 DEF SyncInv
<1>4. ASSUME ActivationFailed, pc \in {"write", "activate", "health"}
      PROVE  SyncInv'
  BY <1>1, <1>4, SyncActivationFailed
<1>5. CASE WriteState /\ job.op \in Installs /\ Undo(Changed, job) /\ UNCHANGED state
  <2>1. \A k \in Kinds : k \notin Changed => After(k) = Was[k]
    BY DEF After
  <2>2. pc = "write" /\ job.op # "rollback"
    BY <1>5 DEF WriteState, Installs
  <2> QED BY <1>1, <1>2, <1>5, <2>1, <2>2, SyncUndo
<1>7. CASE WriteState
  BY <1>3, <1>4, <1>5, <1>7 DEF WriteState
<1>8. CASE Activate
  BY <1>3, <1>4, <1>8 DEF Activate, Activated, Checked
<1>9. CASE HealthCheck \/ MarkHealthy \/ Prune
  BY <1>3, <1>4, <1>9 DEF HealthCheck, MarkHealthy, Prune, Checked
<1> QED BY <1>7, <1>8, <1>9

LEMMA SyncRestoring ==
    ASSUME TypeInv, PathInv, TypeInv', SyncInv,
           RestoreCurrent \/ RestorePrevious \/ RestoreState \/ Reactivate
    PROVE  SyncInv'
<1> USE TypeIs, KindsAre DEF Goto, Fails, FailsHalfway, store, host
<1>1. Synced => job.old.at = Was /\ (pc \in Restoring /\ ~job.undoing => state.at = Was)
  BY DEF RestoreCurrent, RestorePrevious, RestoreState, Reactivate, SyncInv, FoundInv,
         Restoring
<1>2. CASE RestoreCurrent \/ RestorePrevious
  <2>1. state' = state /\ pc \in Restoring /\ job.op # "rollback"
    BY <1>2 DEF RestoreCurrent, RestorePrevious, Restoring, PathInv, ChangingInv
  <2>2. Synced /\ job.clean =>
            /\ \A k \in Kinds : k > job.kind \/ k \notin Changed => links[k] = Was[k]
            /\ pc = "undoPrev" => links[job.kind].cur = Was[job.kind].cur
    BY <2>1 DEF SyncInv, BackInv
  <2>3. Earlier \in SUBSET Changed
    BY DEF Earlier
  <2>4. CASE Undo(Earlier, [job EXCEPT !.clean = FALSE])
    BY <2>1, <2>3, <2>4, CleanChange, SyncUndo
  <2>5. CASE RestoreCurrent /\ pc' = "undoPrev" /\ UNCHANGED job
             /\ links' = [links EXCEPT ![job.kind] = PointCurrent(@, job.old.at[job.kind].cur)]
    <3>1. links'[job.kind].cur = job.old.at[job.kind].cur
          /\ \A k \in Kinds : k # job.kind => links'[k] = links[k]
      <4>1. links[job.kind] \in Links(NamesOf(job.kind))
        BY Entries
      <4> QED BY <2>5, <4>1 DEF LinkTables, PointCurrent, Links
    <3>2. Was' = Was /\ (Synced' <=> Synced) /\ Changed' = Changed
      BY <2>5 DEF Was, Synced, Changed
    <3>3. job.kind \in Changed
      BY <2>1 DEF Changed, PathInv, ChangingInv
    <3>4. \A k \in Kinds : k > job.kind \/ k \notin Changed => k # job.kind
      BY <3>3
    <3>5. BackInv'
      BY <1>1, <2>2, <2>5, <3>1, <3>2, <3>4 DEF BackInv, Restoring
    <3>6. FoundInv' /\ ForwardInv' /\ RollbackInv'
      BY <1>1, <2>1, <2>5, <3>2
         DEF FoundInv, ForwardInv, RollbackInv, Preparing, Placing, Switching, Restoring,
             Holding
    <3> QED BY <3>5, <3>6 DEF SyncInv
  <2>6. CASE RestorePrevious /\ Undo(Earlier, job)
             /\ links' = [links EXCEPT ![job.kind] = PointPrevious(@, job.old.at[job.kind].prev)]
    <3>1. links'[job.kind] = [cur |-> links[job.kind].cur, prev |-> job.old.at[job.kind].prev]
          /\ \A k \in Kinds : k # job.kind => links'[k] = links[k]
      <4>1. links[job.kind] \in Links(NamesOf(job.kind))
        BY Entries
      <4> QED BY <2>6, <4>1 DEF LinkTables, PointPrevious, Links
    <3>2. Synced /\ job.clean => links'[job.kind] = Was[job.kind]
      <4>1. Was[job.kind] = [cur |-> Was[job.kind].cur, prev |-> Was[job.kind].prev]
        BY Entries DEF Was
      <4>2. pc = "undoPrev"
        BY <2>6 DEF RestorePrevious
      <4> QED BY <1>1, <2>2, <3>1, <4>1, <4>2
    <3>3. \A k \in Kinds : k \notin Earlier =>
            k = job.kind \/ k > job.kind \/ k \notin Changed
      BY DEF Earlier
    <3>4. Synced /\ job.clean => \A k \in Kinds : k \notin Earlier => links'[k] = Was[k]
      BY <2>2, <3>1, <3>2, <3>3
    <3> QED BY <2>1, <2>3, <2>6, <3>4, SyncUndo
  <2> QED BY <1>2, <2>4, <2>5, <2>6 DEF RestoreCurrent, RestorePrevious
<1>3. CASE RestoreState \/ Reactivate
  <2>1. links' = links /\ pc \in {"writeOld", "reactivate"} /\ pc' \in {"reactivate", "failed"}
    BY <1>3 DEF RestoreState, Reactivate
  <2>2. /\ job'.op = job.op /\ job'.was = job.was /\ job'.old = job.old
        /\ job'.kind = job.kind /\ job'.undoing = job.undoing
        /\ (job'.clean => job.clean /\ job' = job)
    BY <1>3, CleanChange DEF RestoreState, Reactivate
  <2>3. Was' = Was /\ (Synced' <=> Synced) /\ (Reversible' <=> Reversible)
    BY <2>2 DEF Was, Synced, Reversible
  <2>4. job.undoing
    BY <2>1 DEF PathInv, ChangingInv
  <2>5. Synced /\ (pc' = "reactivate" \/ job'.clean) => state'.at = Was
    <3>1. CASE RestoreState
      BY <1>1, <3>1, CleanChange DEF RestoreState
    <3>2. CASE Reactivate
      BY <3>2 DEF Reactivate, SyncInv, FoundInv
    <3> QED BY <1>3, <3>1, <3>2
  <2>6. FoundInv'
    BY <1>1, <2>1, <2>2, <2>3, <2>5
       DEF FoundInv, Preparing, Placing, Switching, Restoring, Holding
  <2>7. ForwardInv' /\ BackInv'
    BY <2>1, <2>2, <2>3, <2>4 DEF SyncInv, ForwardInv, BackInv, Restoring
  <2>8. RollbackInv'
    BY <2>1, <2>2, <2>3 DEF SyncInv, RollbackInv, Switching, Holding
  <2> QED BY <2>6, <2>7, <2>8 DEF SyncInv
<1> QED BY <1>2, <1>3

LEMMA SyncStep ==
    ASSUME TypeInv, PathInv, TypeInv', SyncInv, Next
    PROVE  SyncInv'
<1>1. CASE Install \/ Upgrade \/ Rollback \/ Remove
  BY <1>1, SyncBegin
<1>2. CASE UNCHANGED <<links, state, pc, job>>
  BY <1>2
     DEF SyncInv, FoundInv, ForwardInv, BackInv, RollbackInv, Synced, Was, After, Changed,
         Reversible
<1>3. CASE Return \/ Crash \/ ApplyConfig \/ Damage
  <2>1. job'.op = "none"
    BY <1>3, IdleStep DEF Return, Crash, Ended, NoJob, PathInv, ChangingInv
  <2> QED BY <2>1
      DEF SyncInv, FoundInv, ForwardInv, BackInv, RollbackInv, Synced, Changes, Installs
<1>4. CASE \/ StopService \/ RemoveUnit \/ RemoveState \/ RemoveOpt \/ RemoveGroup
           \/ DaemonReload
  <2>1. job' = job /\ job.op \in {"uninstall", "purge"}
    BY <1>4
       DEF StopService, RemoveUnit, RemoveState, RemoveOpt, RemoveGroup, DaemonReload,
           Fails, PathInv, ChangingInv, Removing
  <2> QED BY <2>1
      DEF SyncInv, FoundInv, ForwardInv, BackInv, RollbackInv, Synced, Changes, Installs
<1>5. CASE XrayExits \/ SystemdRestarts
  BY <1>2, <1>5, Aside
<1>6. CASE UNCHANGED vars
  BY <1>2, <1>6 DEF vars
<1> QED
  BY <1>1, <1>3, <1>4, <1>5, <1>6, SyncPreparing, SyncTest, SyncSwitch, SyncHolding,
     SyncRestoring
  DEF Next, Operation, Environment

LEMMA AgreeInit == Init => AgreeInv
BY DEF Init, NoJob, AgreeInv, Synced, Changes, Installs

\* What an install switches and records, where links and state.json agreed.
LEMMA AgreeStep ==
    ASSUME TypeInv, PathInv, PreparedInv, SyncInv, AgreeInv, Next
    PROVE  AgreeInv'
<1> USE TypeIs, KindsAre DEF Goto, Fails, FailsHalfway, Refuses, store, host, service
<1>1. CASE pc' = pc
  <2>1. CASE UNCHANGED <<state, pc, job>>
    BY <2>1 DEF AgreeInv, Synced, Was
  <2>2. CASE pc = "idle" \/ RestoreCurrent
    BY <1>1, <2>2 DEF AgreeInv, Switching, Holding, RestoreCurrent
  <2> QED BY <1>1, <2>1, <2>2, Stays
<1>2. CASE pc' # pc /\ pc' \in Switching \cup Holding \cup {"succeeded"}
  <2>1. \/ Rollback \/ TestUpgrade \/ TestInstall \/ SwitchPrevious \/ SwitchCurrent
        \/ WriteState \/ Activate \/ HealthCheck \/ MarkHealthy \/ Prune
        \/ DaemonReload /\ pc' = "succeeded"
    BY <1>2, Leads
  <2>2. /\ \A clean \in BOOLEAN : ~SwitchFails(clean)
        /\ ActivationFailed => AgreeInv'
        /\ ~Undo(Changed, job)
    <3>1. (\A clean \in BOOLEAN : ~SwitchFails(clean)) /\ ~Undo(Changed, job)
      BY <1>2, FailureLeads DEF Switching, Holding
    <3> QED BY <3>1, FailureLeads DEF AgreeInv
  <2>3. CASE Rollback
    BY <2>3, RollbackDoes DEF AgreeInv, Installs
  <2>4. CASE TestUpgrade
    <3>1. job'.op = "upgrade"
      BY <2>4, CandidatesIsTable, OutcomeIsTable, SwitchesDoes DEF TestUpgrade
    <3> QED BY <3>1 DEF AgreeInv, Installs
  <2>5. CASE TestInstall
    <3>1. pc' \in Switching \cup {"write"}
      BY <1>2, <2>5 DEF TestInstall, Switches, Switching, Holding
    <3>2. PICK cand \in NameTables, tested \in NameTables :
            /\ Switches(cand, tested)
            /\ \A k \in {Core, Assets} : cand[k] = Candidates[k] /\ tested[k] = job.cand[k]
      BY <2>5, <3>1, InstallSwitches
    <3>3. job'.op = job.op /\ job'.cand = cand /\ job'.was = job.was
      BY <3>2, SwitchesDoes DEF Switches
    <3>4. ASSUME Synced, NEW k \in {Core, Assets}, cand[k] # None
          PROVE  cand[k] # Was[k].cur
      <4>1. pc = "test" /\ job.op \in Installs
        BY <2>5 DEF TestInstall
      <4>2. links = Was /\ state.at = Was
        BY <3>4, <4>1 DEF SyncInv, FoundInv, Preparing
      <4>3. k \notin Unswitched /\ cand[k] = job.cand[k] /\ job.cand[k] # None
        BY <3>2, <3>4, CandidatesIsTable
      <4>4. k = Core => job.cand[k] \in dirs[Core]
        BY <4>1, <4>3 DEF PreparedInv
      <4> QED BY <4>1, <4>2, <4>3, <4>4 DEF Unswitched, Installs
    <3>5. (Synced' <=> Synced) /\ Was' = Was
      BY <3>3 DEF Synced, Was
    <3> QED BY <3>1, <3>3, <3>4, <3>5 DEF AgreeInv, Switching, Holding
  <2>6. CASE SwitchPrevious \/ SwitchCurrent
    <3>1. /\ job'.op = job.op /\ job'.cand = job.cand /\ job'.was = job.was
          /\ job'.undoing = job.undoing /\ pc \in Switching
          /\ pc' \in Switching \cup {"write", "writeOld"}
      BY <2>2, <2>6, SwitchGoesOn
    <3>2. (Synced' <=> Synced) /\ Was' = Was
      BY <3>1 DEF Synced, Was
    <3> QED BY <3>1, <3>2 DEF AgreeInv, Switching, Holding
  <2>7. CASE WriteState
    <3>1. CASE state' = [state EXCEPT !.at = Recorded] /\ pc' = "activate" /\ UNCHANGED job
      <4>1. state'.at = Recorded
        BY <3>1 DEF States
      <4>2. ASSUME Synced, job.op \in Installs, NEW k \in {Core, Assets}, ~job.undoing
            PROVE  /\ job.cand[k] = None \/ job.cand[k] # Was[k].cur
                   /\ Recorded[k] = IF job.cand[k] = None THEN Was[k]
                                    ELSE [cur |-> job.cand[k], prev |-> Was[k].cur]
        <5>1. pc = "write" /\ job.op # "rollback"
          BY <2>7, <4>2 DEF WriteState, Installs
        <5>2. job.old.at = Was
          BY <4>2, <5>1 DEF SyncInv, FoundInv, Holding
        <5>3. job.cand[k] = None \/ job.cand[k] # Was[k].cur
          BY <4>2, <5>1 DEF AgreeInv, Holding
        <5> QED BY <5>1, <5>2, <5>3, RecordedIsTable
      <4>3. (Synced' <=> Synced) /\ Was' = Was
        BY <3>1 DEF Synced, Was
      <4> QED BY <3>1, <4>1, <4>2, <4>3 DEF AgreeInv
    <3> QED BY <2>2, <2>7, <3>1 DEF WriteState
  <2>8. CASE Activate \/ HealthCheck \/ MarkHealthy \/ Prune
    <3>1. CASE UNCHANGED <<state, job>> /\ pc \in Holding \ {"write"}
               /\ pc' \in {"health", "mark", "unmarked", "prune", "succeeded"}
      BY <3>1 DEF AgreeInv, Synced, Was, Switching, Holding
    <3> QED BY <1>2, <2>2, <2>8, <3>1
        DEF Activate, HealthCheck, MarkHealthy, Prune, Activated, Checked, Switching, Holding
  <2>9. CASE DaemonReload
    BY <2>9 DEF DaemonReload, AgreeInv, PathInv, ChangingInv, Removing, Installs
  <2> QED BY <2>1, <2>3, <2>4, <2>5, <2>6, <2>7, <2>8, <2>9
<1> QED BY <1>1, <1>2 DEF AgreeInv, Switching, Holding
--------------------------------------------------------------------------------
(* What was found sound.                                                   *)

LEMMA SoundInit == Init => SoundInv /\ RepairInv
BY DEF Init, NoJob, SoundInv, RepairInv, Synced, Changes, Installs

\* Artifacts of assets and configuration, and of other versions, are none of the core's
\* business.
LEMMA SoundStep ==
    ASSUME TypeInv, PathInv, SyncInv, SoundInv, Next
    PROVE  SoundInv'
<1> USE TypeIs, KindsAre DEF Goto, Fails, FailsHalfway, Refuses, store, host, service
<1>1. CASE Install \/ Upgrade \/ Rollback \/ Remove
  <2>1. Begins /\ pc' \notin Placing
    BY <1>1, InstallDoes, UpgradeDoes, RollbackDoes, RemoveDoes DEF Placing
  <2>2. job'.was.synced /\ job'.was.sound => Was' = links /\ Sound(Current)
    BY <2>1 DEF Begins, Was
  <2>3. UNCHANGED <<links, dirs, damaged>>
    BY <2>1 DEF Begins
  <2> QED BY <2>1, <2>2, <2>3, CurrentIsTable DEF SoundInv, Synced, Sound
<1>2. ASSUME job'.was = job.was, job'.op = job.op,
             Synced /\ job.was.sound =>
                /\ \A k \in Kinds : Was[k].cur \in dirs[k] \ damaged =>
                                    Was[k].cur \in dirs'[k] \ damaged'
                /\ pc' \in Placing => job'.cand[Core] # Was[Core].cur
      PROVE  SoundInv'
  BY <1>2 DEF SoundInv, Synced, Was
<1>3. CASE Return \/ Crash \/ ApplyConfig \/ Damage
  <2>1. job'.op = "none"
    BY <1>3, IdleStep DEF Return, Crash, Ended, NoJob, PathInv, ChangingInv
  <2> QED BY <2>1 DEF SoundInv, Synced, Changes, Installs
<1>4. CASE \/ StopService \/ RemoveUnit \/ RemoveState \/ RemoveOpt \/ RemoveGroup
           \/ DaemonReload
  <2>1. job' = job /\ job.op \in {"uninstall", "purge"}
    BY <1>4
       DEF StopService, RemoveUnit, RemoveState, RemoveOpt, RemoveGroup, DaemonReload,
           PathInv, ChangingInv, Removing
  <2> QED BY <2>1 DEF SoundInv, Synced, Changes, Installs
<1>5. CASE XrayExits \/ SystemdRestarts
  BY <1>5, Aside DEF SoundInv, Synced, Was
<1>6. CASE UNCHANGED vars
  BY <1>6 DEF vars, SoundInv, Synced, Was
<1>7. CASE EnsureGroup \/ RecordCreated \/ WriteUnits
  <2>1. UNCHANGED <<dirs, damaged>> /\ pc' \notin Placing
    BY <1>7 DEF EnsureGroup, RecordCreated, WriteUnits, Placing
  <2> QED BY <1>2, <1>7, <2>1, PreparingKeeps
<1>8. CASE PrepareCore
  <2>1. UNCHANGED <<dirs, damaged>>
    BY <1>8 DEF PrepareCore
  <2>2. Synced /\ job.was.sound /\ pc' \in Placing => job'.cand[Core] # Was[Core].cur
    <3> SUFFICES ASSUME Synced, job.was.sound, pc' \in Placing
                 PROVE  job'.cand[Core] # Was[Core].cur
      OBVIOUS
    <3>1. PICK v \in Versions : v \notin dirs[Core] \ damaged /\ job' = [job EXCEPT !.cand[Core] = v]
      BY <1>8 DEF PrepareCore, CoreReady, Placing
    <3>2. job'.cand[Core] = v
      BY <3>1, CandidateDoes DEF NamesOf
    <3> QED BY <3>1, <3>2 DEF SoundInv
  <2> QED BY <1>2, <1>8, <2>1, <2>2, PreparingKeeps
<1>9. CASE QuarantineCore \/ PlaceCore \/ CheckCore \/ RestoreQuarantined
  <2>1. pc \in Placing
    BY <1>9 DEF QuarantineCore, PlaceCore, CheckCore, RestoreQuarantined, Placing
  <2>2. job.cand[Core] \in Versions
    BY <2>1, Entries DEF PathInv, PreparingInv, Preparing, NamesOf
  <2>3. /\ dirs'[Core] \cup {job.cand[Core]} = dirs[Core] \cup {job.cand[Core]}
        /\ damaged' \cup {job.cand[Core]} = damaged \cup {job.cand[Core]}
        /\ dirs'[Assets] = dirs[Assets] /\ dirs'[Config] = dirs[Config]
    BY <1>9
       DEF QuarantineCore, PlaceCore, CheckCore, RestoreQuarantined, WithCandidate, PutBack,
           DirTables
  <2>4. Synced /\ job.was.sound =>
            \A k \in Kinds : Was[k].cur \in dirs[k] => Was[k].cur # job.cand[Core]
    <3> SUFFICES ASSUME Synced, job.was.sound, NEW k \in Kinds, Was[k].cur \in dirs[k]
                 PROVE  Was[k].cur # job.cand[Core]
      OBVIOUS
    <3>1. CASE k = Core
      BY <2>1, <3>1 DEF SoundInv
    <3>2. CASE k # Core
      <4>1. Was[k].cur \in Nat
        BY <3>2, Entries DEF NamesOf
      <4> QED BY <2>2, <4>1, VersionsAreNoNumbers
    <3> QED BY <3>1, <3>2
  <2>5. pc' \in Placing => job'.cand = job.cand
    BY <1>9, AsideChange
       DEF QuarantineCore, PlaceCore, CheckCore, RestoreQuarantined, CoreReady, Placing
  <2>6. Synced /\ job.was.sound =>
            \A k \in Kinds : Was[k].cur \in dirs[k] \ damaged => Was[k].cur \in dirs'[k] \ damaged'
    BY <2>3, <2>4
  <2>7. Synced /\ job.was.sound => job.cand[Core] # Was[Core].cur
    BY <2>1 DEF SoundInv
  <2> QED BY <1>2, <1>9, <2>5, <2>6, <2>7, PreparingKeeps
<1>10. CASE PrepareAssets
  <2>1. damaged' = damaged /\ pc' \notin Placing /\ \A k \in Kinds : dirs[k] \subseteq dirs'[k]
    BY <1>10 DEF PrepareAssets, Placing, DirTables
  <2> QED BY <1>2, <1>10, <2>1, PreparingKeeps
<1>11. CASE TestUpgrade \/ TestInstall
  <2>1. damaged' = damaged /\ pc' \notin Placing /\ \A k \in Kinds : dirs[k] \subseteq dirs'[k]
    BY <1>11 DEF TestUpgrade, TestInstall, Switches, Placing, DirTables
  <2>2. job'.was = job.was /\ job'.op = job.op
    <3>1. ASSUME NEW cand \in NameTables, NEW tested \in NameTables, Switches(cand, tested)
          PROVE  job'.was = job.was /\ job'.op = job.op
      BY <3>1, SwitchesDoes
    <3>2. CASE pc' \in {"failed", "refused", "succeeded"}
      BY <1>11, <3>2 DEF TestUpgrade, TestInstall, Switches
    <3> QED BY <1>11, <3>1, <3>2, SwitchesFrom
  <2> QED BY <1>2, <2>1, <2>2
<1>12. CASE \/ SwitchPrevious \/ SwitchCurrent \/ WriteState \/ Activate \/ HealthCheck
            \/ MarkHealthy \/ RestoreCurrent \/ RestorePrevious \/ RestoreState \/ Reactivate
  <2>1. UNCHANGED <<dirs, damaged>>
    BY <1>12
       DEF SwitchPrevious, SwitchCurrent, WriteState, Activate, HealthCheck, MarkHealthy,
           RestoreCurrent, RestorePrevious, RestoreState, Reactivate
  <2>2. /\ ActivationFailed => job'.was = job.was /\ job'.op = job.op
        /\ \A clean \in BOOLEAN : SwitchFails(clean) => job'.was = job.was /\ job'.op = job.op
        /\ \A kinds \in SUBSET Kinds : \A j \in Jobs :
                Undo(kinds, j) => job'.was = j.was /\ job'.op = j.op
    BY ActivationFailedDoes, SwitchFailsDoes, UndoDoes DEF Keeps
  <2>3. ASSUME NEW j, j = [job EXCEPT !.clean = FALSE]
        PROVE  j \in Jobs /\ j.was = job.was /\ j.op = job.op
    BY <2>3, CleanChange
  <2>4. \A kind : [job EXCEPT !.kind = kind].was = job.was /\ [job EXCEPT !.kind = kind].op = job.op
    BY DEF Jobs
  <2>5. job'.was = job.was /\ job'.op = job.op
    <3>1. CASE SwitchPrevious \/ SwitchCurrent
      <4>1. SwitchFails(~job.undoing) \/ SwitchFails(FALSE) =>
                job'.was = job.was /\ job'.op = job.op
        BY <2>2
      <4>2. CASE SwitchPrevious
        BY <4>1, <4>2 DEF SwitchPrevious
      <4>3. CASE SwitchCurrent
        BY <2>4, <4>1, <4>3 DEF SwitchCurrent
      <4> QED BY <3>1, <4>2, <4>3
    <3>2. CASE WriteState \/ Activate \/ HealthCheck
      BY <2>2, <3>2 DEF WriteState, Activate, HealthCheck, Activated, Checked
    <3>3. CASE RestoreCurrent \/ RestorePrevious
      BY <2>2, <2>3, <3>3 DEF RestoreCurrent, RestorePrevious
    <3>4. CASE MarkHealthy \/ RestoreState \/ Reactivate
      BY <2>3, <3>4 DEF MarkHealthy, RestoreState, Reactivate, Checked
    <3> QED BY <1>12, <3>1, <3>2, <3>3, <3>4
  <2>6. pc' \notin Placing
    <3>1. pc' = pc \/ pc' \notin {"quarantine", "place", "checkCore", "unquarantine"}
      BY <1>12, <2>3, FailureLeads
         DEF SwitchPrevious, SwitchCurrent, WriteState, Activate, HealthCheck, MarkHealthy,
             RestoreCurrent, RestorePrevious, RestoreState, Reactivate, Activated, Checked
    <3>2. pc \notin Placing
      BY <1>12
         DEF SwitchPrevious, SwitchCurrent, WriteState, Activate, HealthCheck, MarkHealthy,
             RestoreCurrent, RestorePrevious, RestoreState, Reactivate, Placing
    <3> QED BY <3>1, <3>2 DEF Placing
  <2> QED BY <1>2, <2>1, <2>5, <2>6
<1>13. CASE Prune
  <2>1. job' = job /\ damaged' = damaged /\ pc = "prune" /\ pc' = "succeeded"
    BY <1>13 DEF Prune
  <2>2. Synced /\ job.was.sound =>
            \A k \in Kinds : Was[k].cur \in dirs[k] => Was[k].cur \in Linked(links[k])
    <3> SUFFICES ASSUME Synced, NEW k \in Kinds, Was[k].cur \in dirs[k]
                 PROVE  Was[k].cur \in Linked(links[k])
      OBVIOUS
    <3>1. Was[k].cur # None
      BY Entries, NamesInAll, NoneIsNoName
    <3>2. links[k] = After(k)
      BY <2>1 DEF SyncInv, ForwardInv, PathInv, ChangingInv, Holding
    <3>3. Was[k].cur \in {links[k].cur, links[k].prev}
      BY <3>1, <3>2, AfterIs
    <3> QED BY <3>1, <3>3 DEF Linked
  <2>3. \A k \in Kinds : dirs[k] \cap Linked(links[k]) \subseteq dirs'[k]
    BY <1>13, PruneDoes
  <2> QED BY <1>2, <2>1, <2>2, <2>3 DEF Placing
<1> QED
  BY <1>1, <1>3, <1>4, <1>5, <1>6, <1>7, <1>8, <1>9, <1>10, <1>11, <1>12, <1>13
  DEF Next, Operation, Environment

\* A repair that finds everything sound uses it, and has nothing to switch.
LEMMA RepairStep ==
    ASSUME TypeInv, PathInv, SyncInv, SoundInv, RepairInv, Next
    PROVE  RepairInv'
<1> USE TypeIs, KindsAre DEF Goto, Fails, FailsHalfway, Refuses, store, host, service
<1>1. CASE Install \/ Upgrade \/ Rollback \/ Remove
  BY <1>1, InstallDoes, UpgradeDoes, RollbackDoes, RemoveDoes
     DEF RepairInv, Placing, Switching, Restoring, Holding
<1>2. CASE Return \/ Crash \/ ApplyConfig \/ Damage
  <2>1. job'.op = "none"
    BY <1>2, IdleStep DEF Return, Crash, Ended, NoJob, PathInv, ChangingInv
  <2> QED BY <2>1 DEF RepairInv
<1>3. CASE \/ StopService \/ RemoveUnit \/ RemoveState \/ RemoveOpt \/ RemoveGroup
           \/ DaemonReload
  <2>1. job' = job /\ job.op \in {"uninstall", "purge"}
    BY <1>3
       DEF StopService, RemoveUnit, RemoveState, RemoveOpt, RemoveGroup, DaemonReload,
           PathInv, ChangingInv, Removing
  <2> QED BY <2>1 DEF RepairInv
<1>4. CASE XrayExits \/ SystemdRestarts \/ UNCHANGED vars
  <2>1. UNCHANGED <<pc, job>>
    BY <1>4, Aside DEF vars
  <2> QED BY <2>1 DEF RepairInv, Synced, Was
<1>5. CASE ~(Synced' /\ job'.was.sound /\ job'.op = "repair")
  BY <1>5 DEF RepairInv
<1> DEFINE Repairing == Synced /\ job.was.sound /\ job.op = "repair"
<1>6. Repairing => /\ pc \notin Placing \cup Switching \cup Restoring \cup {"refused"}
                   /\ \A k \in Kinds : Was[k].cur \in dirs[k] \ damaged
                   /\ pc \in Preparing => links = Was /\ state.at = Was
                   /\ pc \in Holding => Changed = {}
  BY DEF RepairInv, SoundInv, SyncInv, FoundInv, Changed
<1>7. CASE EnsureGroup \/ RecordCreated \/ WriteUnits
  <2>1. pc' \in {"record", "unit", "core", "failed"}
    BY <1>7 DEF EnsureGroup, RecordCreated, WriteUnits
  <2> QED BY <2>1 DEF RepairInv, Placing, Switching, Restoring, Holding
<1>8. CASE PrepareCore \/ QuarantineCore \/ PlaceCore \/ CheckCore \/ RestoreQuarantined
           \/ PrepareAssets
  <2>1. /\ job'.was = job.was /\ job'.op = job.op /\ pc \in Preparing
        /\ pc' \in Preparing \cup {"failed"}
    BY <1>8, PreparingKeeps
  <2> SUFFICES ASSUME Repairing
               PROVE  RepairInv'
    BY <1>5, <2>1 DEF Synced
  <2>2. Was' = Was
    BY <2>1 DEF Was
  <2>3. CASE pc' = "failed"
    BY <2>3 DEF RepairInv, Placing, Switching, Restoring, Holding
  <2>4. CASE PrepareCore /\ pc' # "failed"
    <3>1. Reusable(Core)
      BY <1>6, <2>1 DEF Reusable
    <3>2. CoreReady(Was[Core].cur)
      BY <1>6, <2>1, <2>4, <3>1 DEF PrepareCore
    <3>3. Was[Core].cur \in NamesOf(Core) \cup {None}
      BY Entries DEF Was
    <3>4. job'.cand[Core] = Was[Core].cur /\ pc' = IF Assets \in job.targets THEN "assets" ELSE "test"
      BY <3>2, <3>3, CoreReadyDoes
    <3>5. pc' = "assets"
      BY <2>4, <3>4 DEF PrepareCore, PathInv, PreparingInv, Preparing, Installs
    <3> QED BY <2>2, <3>4, <3>5 DEF RepairInv, Placing, Switching, Restoring, Holding
  <2>5. CASE PrepareAssets /\ pc' # "failed"
    <3>1. Reusable(Assets)
      BY <1>6, <2>1 DEF Reusable
    <3>2. /\ job' = [job EXCEPT !.cand[Assets] = links[Assets].cur] /\ pc' = "test"
          /\ pc = "assets" /\ links[Assets].cur = Was[Assets].cur
      BY <1>6, <2>1, <2>5, <3>1 DEF PrepareAssets
    <3>3. links[Assets].cur \in NamesOf(Assets) \cup {None}
      BY Entries
    <3>4. job'.cand[Assets] = Was[Assets].cur /\ job'.cand[Core] = job.cand[Core]
      BY <3>2, <3>3, CandidateDoes
    <3>5. job.cand[Core] = Was[Core].cur
      BY <3>2 DEF RepairInv
    <3> QED BY <2>2, <3>2, <3>4, <3>5 DEF RepairInv, Placing, Switching, Restoring, Holding
  <2>6. ~(QuarantineCore \/ PlaceCore \/ CheckCore \/ RestoreQuarantined)
    BY <1>6 DEF QuarantineCore, PlaceCore, CheckCore, RestoreQuarantined, Placing
  <2> QED BY <1>8, <2>3, <2>4, <2>5, <2>6
<1>9. CASE TestUpgrade
  <2>1. job'.op # "repair"
    <3>1. ASSUME NEW cand \in NameTables, NEW tested \in NameTables, Switches(cand, tested)
          PROVE  job'.op = job.op
      BY <3>1, SwitchesDoes
    <3>2. CASE pc' \in {"failed", "refused", "succeeded"}
      BY <1>9, <3>2 DEF TestUpgrade, Switches
    <3>3. CASE pc' \notin {"failed", "refused", "succeeded"}
      BY <1>9, <3>1, <3>3, SwitchesFrom DEF TestUpgrade
    <3> QED BY <3>2, <3>3
  <2> QED BY <2>1 DEF RepairInv
<1>10. CASE TestInstall
  <2>1. pc = "test"
    BY <1>10 DEF TestInstall
  <2>2. CASE Repairing
    <3>1. /\ links = Was /\ state.at = Was
          /\ job.cand[Core] = Was[Core].cur /\ job.cand[Assets] = Was[Assets].cur
          /\ job.cand[Config] = None /\ job.op # "upgrade"
      BY <1>6, <2>1, <2>2 DEF RepairInv, Preparing, PathInv, PreparingInv
    <3>2. \A k \in Kinds : Was[k].cur # None
      <4>1. \A k \in Kinds : dirs[k] \subseteq AllNames
        BY DEF DirTables
      <4> QED BY <1>6, <2>2, <4>1, NoneIsNoName
    <3>3. Core \in Unswitched /\ Assets \in Unswitched
      <4>1. links[Core].cur \in dirs[Core]
        BY <1>6, <2>2, <3>1
      <4> QED BY <3>1, <4>1 DEF Unswitched
    <3>4. \A k \in Kinds : Candidates[k] = None
      BY <3>1, <3>3, CandidatesIsTable
    <3>5. Sound(Outcome(job.cand))
      <4>1. \A k \in Kinds : Outcome(job.cand)[k] = Was[k].cur
        BY <3>1, <3>2, OutcomeIsTable
      <4> QED BY <1>6, <2>2, <4>1 DEF Sound
    <3>6. state.at[Config].cur # None /\ links[Config].cur \in dirs[Config]
      BY <1>6, <2>2, <3>1, <3>2
    <3>7. Switches(Candidates, Outcome(job.cand)) \/ (pc' = "failed" /\ job' = job)
      BY <1>10, <3>5, <3>6 DEF TestInstall
    <3>8. CASE Switches(Candidates, Outcome(job.cand))
      <4>1. Candidates \in NameTables /\ Outcome(job.cand) \in NameTables
        BY CandidatesIsTable, OutcomeIsTable
      <4>2. pc' = "write" /\ job'.cand = Candidates
        BY <3>4, <3>8, <4>1, SwitchesDoes
      <4> QED BY <3>4, <4>2 DEF RepairInv, Placing, Switching, Restoring, Holding
    <3>9. CASE pc' = "failed"
      BY <3>9 DEF RepairInv, Placing, Switching, Restoring, Holding
    <3> QED BY <3>7, <3>8, <3>9
  <2>3. CASE ~Repairing
    <3>1. job'.was = job.was /\ job'.op = job.op
      <4>1. ASSUME NEW cand \in NameTables, NEW tested \in NameTables, Switches(cand, tested)
            PROVE  job'.was = job.was /\ job'.op = job.op
        BY <4>1, SwitchesDoes
      <4>2. CASE pc' \in {"failed", "refused", "succeeded"}
        BY <1>10, <4>2 DEF TestInstall, Switches
      <4> QED BY <1>10, <4>1, <4>2, SwitchesFrom
    <3> QED BY <1>5, <2>3, <3>1 DEF Synced
  <2> QED BY <2>2, <2>3
<1>11. CASE SwitchPrevious \/ SwitchCurrent \/ RestoreCurrent \/ RestorePrevious
  <2>1. ~Repairing
    BY <1>6, <1>11
       DEF SwitchPrevious, SwitchCurrent, RestoreCurrent, RestorePrevious, Switching,
           Restoring
  <2>2. job'.was = job.was /\ job'.op = job.op
    <3>1. SwitchFails(~job.undoing) \/ SwitchFails(FALSE) =>
              job'.was = job.was /\ job'.op = job.op
      BY SwitchFailsDoes DEF Keeps
    <3>2. Undo(Earlier, job) \/ Undo(Earlier, [job EXCEPT !.clean = FALSE]) =>
              job'.was = job.was /\ job'.op = job.op
      <4> DEFINE unclean == [job EXCEPT !.clean = FALSE]
      <4>1. /\ Earlier \in SUBSET Kinds /\ unclean \in Jobs
            /\ unclean.was = job.was /\ unclean.op = job.op
        BY CleanChange DEF Earlier, Changed
      <4> HIDE DEF unclean
      <4>2. ASSUME NEW j \in Jobs, Undo(Earlier, j)
            PROVE  job'.was = j.was /\ job'.op = j.op
        BY <4>1, <4>2, UndoDoes DEF Keeps
      <4>3. Undo(Earlier, job) \/ Undo(Earlier, unclean) =>
                job'.was = job.was /\ job'.op = job.op
        BY <4>1, <4>2
      <4> QED BY <4>3 DEF unclean
    <3>3. \A kind : /\ [job EXCEPT !.kind = kind].was = job.was
                    /\ [job EXCEPT !.kind = kind].op = job.op
      BY DEF Jobs
    <3>4. CASE SwitchPrevious
      BY <3>1, <3>4 DEF SwitchPrevious
    <3>5. CASE SwitchCurrent
      BY <3>1, <3>3, <3>5 DEF SwitchCurrent
    <3>6. CASE RestoreCurrent \/ RestorePrevious
      BY <3>2, <3>6 DEF RestoreCurrent, RestorePrevious
    <3> QED BY <1>11, <3>4, <3>5, <3>6
  <2> QED BY <1>5, <2>1, <2>2 DEF Synced
<1>12. CASE WriteState \/ Activate \/ HealthCheck \/ MarkHealthy \/ Prune
  <2>1. pc \in Holding
    BY <1>12 DEF WriteState, Activate, HealthCheck, MarkHealthy, Prune, Holding
  <2>2. CASE job' = job /\ pc' \in {"activate", "health", "mark", "unmarked", "prune", "succeeded"}
    BY <2>1, <2>2 DEF RepairInv, Synced, Was, Placing, Switching, Restoring, Holding
  <2>3. CASE ActivationFailed
    <3>1. job'.was = job.was /\ job'.op = job.op
      BY <2>3, ActivationFailedDoes DEF Keeps
    <3>2. Repairing => pc' = "writeOld"
      BY <1>6, <2>1, <2>3, ActivationFailedDoes
    <3> QED BY <1>5, <3>1, <3>2
        DEF RepairInv, Synced, Placing, Switching, Restoring, Holding
  <2>4. CASE Undo(Changed, job)
    <3>1. job'.was = job.was /\ job'.op = job.op
      BY <2>4, UndoDoes DEF Keeps
    <3>2. Repairing => pc' \in {"writeOld", "failed"}
      BY <1>6, <2>1, <2>4, UndoDoes
    <3> QED BY <1>5, <3>1, <3>2
        DEF RepairInv, Synced, Placing, Switching, Restoring, Holding
  <2>5. CASE pc' = "failed"
    BY <2>5 DEF RepairInv, Placing, Switching, Restoring, Holding
  <2>6. CASE WriteState
    BY <2>2, <2>3, <2>4, <2>6 DEF WriteState
  <2>7. CASE Activate
    BY <2>2, <2>3, <2>7 DEF Activate, Activated, Checked
  <2>8. CASE HealthCheck \/ MarkHealthy \/ Prune
    BY <2>2, <2>3, <2>5, <2>8 DEF HealthCheck, MarkHealthy, Prune, Checked
  <2> QED BY <1>12, <2>6, <2>7, <2>8
<1>13. CASE RestoreState \/ Reactivate
  <2>1. pc' \in {"reactivate", "failed"}
    BY <1>13 DEF RestoreState, Reactivate
  <2> QED BY <2>1 DEF RepairInv, Placing, Switching, Restoring, Holding
<1> QED
  BY <1>1, <1>2, <1>3, <1>4, <1>7, <1>8, <1>9, <1>10, <1>11, <1>12, <1>13
  DEF Next, Operation, Environment
--------------------------------------------------------------------------------
(* The theorems.                                                           *)

IInv ==
    /\ TypeInv /\ FreshInv /\ PathInv /\ PreparedInv /\ TestedInv /\ RecordInv /\ RunningInv
    /\ ForeignInv /\ SyncInv /\ AgreeInv /\ SoundInv /\ RepairInv

LEMMA Invariant == Spec => []IInv
<1>1. Init => IInv
  BY TypeInit, PathInit, PreparedInit, RunningInit, ForeignInit, SyncInit, AgreeInit,
     SoundInit
  DEF IInv
<1>2. IInv /\ [Next]_vars => IInv'
  <2> SUFFICES ASSUME IInv, [Next]_vars
               PROVE  IInv'
    OBVIOUS
  <2>1. CASE UNCHANGED vars
    BY <2>1
    DEF vars, IInv, TypeInv, FreshInv, Used, PathInv, PreparingInv, ChangingInv,
        PreparedInv, TestedInv, Forward, IsSwitched, Changed, RecordInv, RunningInv,
        Current, ForeignInv, SyncInv, FoundInv, ForwardInv, BackInv, RollbackInv,
        Synced, Was, After, Reversible, AgreeInv, SoundInv, RepairInv
  <2>2. CASE Next
    <3>1. TypeInv' /\ FreshInv' /\ PathInv'
      BY <2>2, TypeStep, FreshStep, PathStep DEF IInv
    <3>2. PreparedInv' /\ TestedInv' /\ RecordInv' /\ RunningInv' /\ ForeignInv'
      BY <2>2, PreparedStep, TestedStep, RecordStep, RunningStep, ForeignStep DEF IInv
    <3>3. SyncInv' /\ AgreeInv' /\ SoundInv' /\ RepairInv'
      BY <2>2, <3>1, SyncStep, AgreeStep, SoundStep, RepairStep DEF IInv
    <3> QED BY <3>1, <3>2, <3>3 DEF IInv
  <2> QED BY <2>1, <2>2
<1> QED BY <1>1, <1>2, PTL DEF Spec

\* The links of each kind are recorded under names of its own, and so is what exists.
THEOREM TypesHold == Spec => []TypeOK
<1>1. IInv => TypeOK
  <2> SUFFICES ASSUME IInv
               PROVE  TypeOK
    OBVIOUS
  <2> USE TypeIs DEF IInv
  <2>1. ASSUME NEW k \in Kinds
        PROVE  /\ links[k] \in Links(NamesOf(k)) /\ state.at[k] \in Links(NamesOf(k))
               /\ dirs[k] \subseteq NamesOf(k)
    BY Entries
  <2>2. /\ damaged \subseteq AllNames /\ nextGen \in 1..(MaxGen + 1)
        /\ ops \in 0..MaxOps /\ group \in {"absent", "foreign", "ours"}
        /\ unit \in BOOLEAN /\ started \in BOOLEAN /\ pc \in Labels
    BY DEF TypeInv
  <2>3. running \in Triples
    BY DEF TypeInv, NameTables
  <2>4. state.selected \in BOOLEAN /\ state.created \in BOOLEAN
    BY DEF TypeInv, States
  <2>5. job.op \in Changes \cup {"none", "uninstall", "purge"}
    BY DEF TypeInv, Jobs, Ops
  <2> QED BY <2>1, <2>2, <2>3, <2>4, <2>5 DEF TypeOK
<1> QED BY <1>1, Invariant, PTL

\* What an install, repair or upgrade has made current, and leaves, is as a whole what
\* `xray run -test` accepted, and pruning has left it.
THEOREM WhatWasTestedIsCurrent == Spec => []SuccessIsTested
<1>1. IInv => SuccessIsTested
  <2> SUFFICES ASSUME IInv, pc \in Standing, job.tested # NoTriple
               PROVE  Current = job.tested /\ Sound(Current)
    BY DEF SuccessIsTested
  <2> USE TypeIs DEF IInv
  <2>1. Forward
    <3>1. job.op \in Installs \cup {"upgrade"} /\ ~job.undoing
      BY DEF Standing, TypeInv, Jobs, Ops, Changes, PathInv, ChangingInv, Holding
    <3> QED BY <3>1 DEF Forward, Standing, Holding
  <2>2. \A k \in Kinds : /\ job.tested[k] \in dirs[k] \ damaged
                         /\ links[k].cur = job.tested[k]
    BY <2>1 DEF TestedInv, IsSwitched, Standing, Holding
  <2>3. Current = job.tested
    <3>1. Current \in NameTables /\ job.tested \in NameTables
      BY CurrentIsTable DEF Jobs
    <3>2. \A k \in Kinds : Current[k] = job.tested[k]
      BY <2>2, CurrentIsTable
    <3> QED BY <3>1, <3>2 DEF NameTables, Triples
  <2> QED BY <2>2, <2>3 DEF Sound
<1> QED BY <1>1, Invariant, PTL

\* Whatever crash came before, an install or repair that leaves what it has switched
\* leaves the `current` links of core and assets as state.json says.  The `previous`
\* ones are as state.json says too, if the operation found agreement and, unless there
\* was none, a `current` beside the `previous`.
THEOREM InstallsReconcile == Spec => []InstallReconciles
<1>1. IInv => InstallReconciles
  <2> SUFFICES ASSUME IInv, pc \in Standing, job.op \in Installs, NEW k \in {Core, Assets}
               PROVE  /\ links[k].cur = state.at[k].cur
                      /\ job.was.synced /\ (Was[k].cur # None \/ Was[k].prev = None)
                         => links[k].prev = state.at[k].prev
    BY DEF InstallReconciles, Was
  <2> USE TypeIs, KindsAre DEF IInv
  <2>1. ~job.undoing /\ job.op # "upgrade"
    BY DEF PathInv, ChangingInv, Standing, Holding, Installs
  <2>2. Forward
    BY <2>1 DEF Forward, Standing, Holding
  <2>3. links[k].cur = job.tested[k]
    BY <2>1, <2>2 DEF TestedInv, IsSwitched, Standing, Holding
  <2>4. state.at[k].cur = job.tested[k]
    BY <2>2 DEF RecordInv, Standing
  <2>5. ASSUME job.was.synced, Was[k].cur # None \/ Was[k].prev = None
        PROVE  links[k].prev = state.at[k].prev
    <3>1. Synced
      BY <2>5 DEF Synced, Changes
    <3>2. links[k] = After(k)
      BY <2>1, <3>1 DEF SyncInv, ForwardInv, Standing, Holding
    <3>3. state.at[k] = IF job.cand[k] = None THEN Was[k]
                        ELSE [cur |-> job.cand[k], prev |-> Was[k].cur]
      BY <2>1, <3>1 DEF AgreeInv, Standing, Holding
    <3>4. CASE job.cand[k] = None
      BY <3>2, <3>3, <3>4, AfterIs
    <3>5. CASE job.cand[k] # None
      <4>1. links[k].prev = Was[k].cur
        BY <2>5, <3>2, <3>5, AfterIs
      <4> QED BY <3>3, <3>5, <4>1
    <3> QED BY <3>4, <3>5
  <2> QED BY <2>3, <2>4, <2>5
<1> QED BY <1>1, Invariant, PTL

\* After an upgrade or a rollback, and after the undoing of one, no process runs from
\* anything but what is current.
THEOREM ChangesRun == Spec => []ChangeIsRunning
<1>1. IInv => ChangeIsRunning
  BY DEF IInv, RunningInv, ChangeIsRunning
<1> QED BY <1>1, Invariant, PTL

\* A change that failed after it had found links and state.json in agreement has put
\* both back, and they lead to what is sound if they did before; but not after a switch
\* that failed behind one of its renames, nor after a step of the undo that failed, nor
\* for a rollback without a `current`, nor for the install that is left "unmarked".
THEOREM FailuresRestore == Spec => []FailureRestores
<1>1. IInv => FailureRestores
  <2> SUFFICES ASSUME IInv, pc \in {"failed", "refused"}, job.op \in Changes,
                      job.clean, job.was.synced, Reversible
               PROVE  /\ links = job.was.links /\ state.at = job.was.links
                      /\ job.was.sound => Sound(Current)
    BY DEF FailureRestores
  <2> USE TypeIs DEF IInv
  <2>1. Synced
    BY DEF Synced
  <2>2. links = Was /\ state.at = Was
    BY <2>1 DEF SyncInv, FoundInv, BackInv
  <2>3. job.was.sound => Sound(Current)
    BY <2>1, <2>2, CurrentIsTable DEF SoundInv, Sound
  <2> QED BY <2>2, <2>3 DEF Was
<1> QED BY <1>1, Invariant, PTL

\* After a successful upgrade of a sound system `previous` is what was current, intact,
\* for each kind that was upgraded.
THEOREM UpgradesKeepWayBack == Spec => []UpgradeKeepsWayBack
<1>1. IInv => UpgradeKeepsWayBack
  <2> SUFFICES ASSUME IInv, pc = "succeeded", job.op = "upgrade", job.tested # NoTriple,
                      job.was.synced, job.was.sound, NEW k \in Changed
               PROVE  /\ links[k].prev = job.was.links[k].cur
                      /\ links[k].prev \in dirs[k] \ damaged
    BY DEF UpgradeKeepsWayBack
  <2> USE TypeIs DEF IInv
  <2>1. Synced /\ k \in Kinds
    BY DEF Synced, Changes, Changed
  <2>2. Was[k].cur \in dirs[k] \ damaged
    BY <2>1 DEF SoundInv
  <2>3. Was[k].cur # None
    <3>1. dirs[k] \subseteq AllNames
      BY <2>1 DEF DirTables
    <3> QED BY <2>2, <3>1, NoneIsNoName
  <2>4. ~job.undoing
    BY DEF PathInv, ChangingInv
  <2>5. links[k] = LinkCurrent(LinkPrevious(Was[k]), job.cand[k])
    BY <2>1, <2>4 DEF SyncInv, ForwardInv, After
  <2>6. links[k].prev = Was[k].cur
    BY <2>3, <2>5 DEF LinkCurrent, LinkPrevious
  <2> QED BY <2>2, <2>6 DEF Was
<1> QED BY <1>1, Invariant, PTL

\* A repair of what is sound and in agreement changes no link.
THEOREM RepairsKeepHealthy == Spec => []RepairKeepsHealthy
<1>1. IInv => RepairKeepsHealthy
  <2> SUFFICES ASSUME IInv, pc = "succeeded", job.op = "repair", job.was.synced, job.was.sound
               PROVE  links = job.was.links
    BY DEF RepairKeepsHealthy
  <2> USE TypeIs DEF IInv
  <2>1. Synced /\ ~job.undoing
    BY DEF Synced, Changes, Installs, PathInv, ChangingInv
  <2>2. \A k \in Kinds : links[k] = After(k)
    BY <2>1 DEF SyncInv, ForwardInv
  <2>3. Changed = {}
    BY <2>1 DEF RepairInv, Changed
  <2>4. \A k \in Kinds : links[k] = Was[k]
    BY <2>2, <2>3 DEF After
  <2>5. links = Was
    <3>1. links \in LinkTables /\ Was \in LinkTables
      BY DEF Was
    <3> QED BY <2>4, <3>1, TablesEqual
  <2> QED BY <2>5 DEF Was
<1> QED BY <1>1, Invariant, PTL

\* No operation, crash or fault deletes a group that xrayctl did not create.
THEOREM ForeignGroupKept == Spec => ForeignGroupStays
<1>1. IInv /\ [Next]_vars => [group = "foreign" => group' = "foreign"]_vars
  <2>1. IInv /\ Next /\ group = "foreign" => group' = "foreign"
    BY ForeignStep DEF IInv
  <2> QED BY <2>1 DEF vars
<1> QED BY <1>1, Invariant, PTL DEF Spec, ForeignGroupStays
================================================================================
