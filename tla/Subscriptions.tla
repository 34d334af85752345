----------------------------- MODULE Subscriptions -----------------------------
(***************************************************************************)
(* Subscriptions, nodes and the selected node: what the operations of      *)
(* xray-manager-core/src/application.rs do with subscriptions.d,           *)
(* nodes.json and state.json, call by call, with parse_subscription of     *)
(* subscription.rs and reconcile_selected of domain.rs.  Several xrayctl   *)
(* may be open, each with the state it read when it started; manager.lock  *)
(* lets one operate at a time.                                             *)
(*                                                                         *)
(* apply_config is here in short: it fails before it changes anything, or  *)
(* switches and then commits or goes back to what memory says.  Its inside *)
(* is in ConfigApply.  nodes.json is a set: a response names no link       *)
(* twice.                                                                  *)
(***************************************************************************)
EXTENDS ShareLinks, FiniteSets

CONSTANTS
    Procs,      \* processes of xrayctl
    Tuis,       \* those of them that are terminal interfaces
    Subs,       \* names of subscriptions
    Responses   \* what a provider may answer: sets of links

ASSUME SubscriptionsAssumption == Tuis \subseteq Procs /\ None \notin Procs

VARIABLES
    files,      \* subscriptions.d
    nodes,      \* nodes.json
    linked,     \* the node rendered in the configuration `current` names
    state,      \* state.json
    mem,        \* the state each process has in memory
    lock,
    pc,
    job         \* per process, its operation

stores == <<files, nodes, linked, state>>
vars == <<files, nodes, linked, state, mem, lock, pc, job>>

Fresh == [selected |-> None, linked |-> None]

NoJob == [op |-> "none", sub |-> None, enabled |-> FALSE,
          todo |-> {},          \* subscriptions to be fetched
          nodes |-> {},         \* nodes.json as it will be written
          node |-> None,        \* the node to be selected, or to be applied
          told |-> FALSE,       \* whether a warning says that the selected node is gone
          synced |-> FALSE,     \* history: memory was state.json when the lock was taken
          known |-> FALSE,      \* history: the selected node was in nodes.json then
          result |-> "none"]

Init ==
    /\ files = [s \in Subs |-> None] /\ nodes = {} /\ linked = None
    /\ state = Fresh /\ mem = [p \in Procs |-> Fresh] /\ lock = None
    /\ pc = [p \in Procs |-> "out"] /\ job = [p \in Procs |-> NoJob]

Goto(p, label) == pc' = [pc EXCEPT ![p] = label]
Set(p, record) == job' = [job EXCEPT ![p] = record]

\* The lock is dropped and the result shown; a command ends, an interface stays.
Returns(p, result) ==
    /\ Goto(p, IF p \in Tuis THEN "open" ELSE "out")
    /\ lock' = None
    /\ Set(p, [NoJob EXCEPT !.result = result])

With(id, ns) == {n \in ns : n.id = id}
Selects(st, ns) == st.selected # None /\ With(st.selected, ns) # {}

\* write_atomic, which may fail before or after the rename; `success` says what follows.
Writes(p, file, content, success) ==
    \/ file' = content /\ success
    \/ file' \in {file, content} /\ Returns(p, "failed")
--------------------------------------------------------------------------------
\* compose reads state.json.
Open(p) ==
    /\ pc[p] = "out"
    /\ Goto(p, "open") /\ mem' = [mem EXCEPT ![p] = state]
    /\ Set(p, NoJob)
    /\ UNCHANGED <<stores, lock>>

Close(p) ==
    /\ pc[p] = "open"
    /\ Goto(p, "out") /\ Set(p, NoJob)
    /\ UNCHANGED <<stores, mem, lock>>

\* execute_inner takes the lock; it does not read state.json again.
Begins(p, record) ==
    /\ pc[p] = "open" /\ lock = None
    /\ lock' = p
    /\ Set(p, [record EXCEPT !.synced = mem[p] = state, !.known = Selects(state, nodes)])
    /\ UNCHANGED <<stores, mem>>

BeginAdd(p) ==
    \E s \in Subs :
        /\ Begins(p, [NoJob EXCEPT !.op = "add", !.sub = s, !.enabled = TRUE])
        /\ Goto(p, "write file")

\* SubscriptionEnable reads the file first.
BeginEnable(p) ==
    \E s \in Subs, b \in BOOLEAN :
        /\ Begins(p, [NoJob EXCEPT !.op = "enable", !.sub = s, !.enabled = b])
        /\ Goto(p, IF files[s] = None THEN "fail" ELSE "write file")

\* Mutation: SubscriptionRemove removes whatever is asked.
HoldsSelectedIgnored(p, s) == FALSE

\* SubscriptionRemove refuses the subscription of the node that memory says is selected.
HoldsSelected(p, s) == \E n \in With(mem[p].selected, nodes) : n.subscription = s

BeginRemove(p) ==
    \E s \in Subs :
        /\ Begins(p, [NoJob EXCEPT !.op = "remove", !.sub = s])
        /\ Goto(p, IF HoldsSelected(p, s) THEN "fail" ELSE "remove file")

\* refresh_subscriptions, of one that must have a file, or of all; disabled ones are
\* skipped, and their nodes stay.
BeginRefresh(p) ==
    \E s \in Subs \cup {None} :
        /\ Begins(p, [NoJob EXCEPT !.op = "refresh", !.sub = s, !.nodes = nodes,
                                   !.todo = {t \in Subs : files[t] = "enabled"
                                                          /\ s \in {None, t}}])
        /\ Goto(p, IF s # None /\ files[s] = None THEN "fail" ELSE "fetch")

\* NodeSelect: the nodes whose id begins with what was given must be one, and no
\* Hysteria2 node with a warning.
BeginSelect(p) ==
    \E ids \in SUBSET {n.id : n \in nodes} :
        LET matches == {n \in nodes : n.id \in ids}
            one == CHOOSE n \in matches : TRUE
            fits == Cardinality(matches) = 1 /\ Badge(one) # "unsupported"
        IN  /\ Begins(p, [NoJob EXCEPT !.op = "select", !.node = IF fits THEN one ELSE None])
            /\ Goto(p, IF fits THEN "render" ELSE "fail")

\* Apply and the operations on routing: a selected node that is not in nodes.json is none.
BeginApply(p) ==
    LET found == With(mem[p].selected, nodes)
    IN  \E n \in IF found = {} THEN {None} ELSE found :
            /\ Begins(p, [NoJob EXCEPT !.op = "apply", !.node = n])
            /\ Goto(p, "render")

Fail(p) ==
    /\ pc[p] = "fail" /\ Returns(p, "failed")
    /\ UNCHANGED <<stores, mem>>
--------------------------------------------------------------------------------
\* write_subscription; an existing file is replaced.
WriteFile(p) ==
    /\ pc[p] = "write file"
    /\ LET s == job[p].sub
       IN  Writes(p, files,
                  [files EXCEPT ![s] = IF job[p].enabled THEN "enabled" ELSE "disabled"],
                  Returns(p, "ok"))
    /\ UNCHANGED <<nodes, linked, state, mem>>

\* A file that is not there is no error.  nodes.json is read after the removal; when that
\* fails, it is as if the removal had failed late.
RemoveFile(p) ==
    /\ pc[p] = "remove file"
    /\ LET s == job[p].sub
           left == {n \in nodes : n.subscription # s}
       IN  Writes(p, files, [files EXCEPT ![s] = None],
                  /\ Goto(p, "write nodes") /\ Set(p, [job[p] EXCEPT !.nodes = left])
                  /\ UNCHANGED lock)
    /\ UNCHANGED <<nodes, linked, state, mem>>

\* Download and parse_subscription, one subscription after the other.  Lines that do not
\* parse are dropped with a warning; a response without nodes, like a download that fails,
\* ends the operation with nothing written.
Fetch(p) ==
    /\ pc[p] = "fetch" /\ job[p].todo # {}
    /\ \E s \in job[p].todo :
        \/ \E links \in Responses :
            LET parsed == {Parsed(l, s) : l \in {k \in links : ~Refuses(k)}}
                others == {n \in job[p].nodes : n.subscription # s}
            IN  /\ parsed # {}
                /\ Set(p, [job[p] EXCEPT !.nodes = others \cup parsed,
                                         !.todo = @ \ {s}])
                /\ UNCHANGED <<pc, lock>>
        \/ Returns(p, "failed")
    /\ UNCHANGED <<stores, mem>>

Fetched(p) ==
    /\ pc[p] = "fetch" /\ job[p].todo = {}
    /\ Goto(p, "write nodes")
    /\ UNCHANGED <<stores, mem, lock, job>>

\* reconcile_selected: the node with the same id, or the only one of the same
\* subscription and name.
Reconciled(old, refreshed) ==
    LET alike == {n \in refreshed : n.subscription = old.subscription /\ n.name = old.name}
    IN  IF With(old.id, refreshed) # {} THEN With(old.id, refreshed)
        ELSE IF Cardinality(alike) = 1 THEN alike ELSE {}

\* write_nodes.  A refresh goes on with the node that memory says is selected, as it was
\* in the old nodes.json.
WriteNodes(p) ==
    /\ pc[p] = "write nodes"
    /\ LET olds == With(mem[p].selected, nodes)
       IN  Writes(p, nodes, job[p].nodes,
                  IF job[p].op = "remove" \/ olds = {} THEN Returns(p, "ok")
                  ELSE \E old \in olds :
                         LET new == Reconciled(old, job[p].nodes)
                         IN  \/ /\ new = {}
                                /\ Goto(p, "warned")
                                /\ Set(p, [job[p] EXCEPT !.told = TRUE])
                                /\ UNCHANGED lock
                             \/ \E n \in new :
                                /\ Goto(p, IF n.id = old.id THEN "warned" ELSE "reselect")
                                /\ Set(p, [job[p] EXCEPT !.node = n])
                                /\ UNCHANGED lock)
    /\ UNCHANGED <<files, linked, state, mem>>

Warned(p) ==
    /\ pc[p] = "warned" /\ Returns(p, "ok")
    /\ UNCHANGED <<stores, mem>>

\* Mutation: the selection is stored as a node, not as an id.
ReselectWhole(p) ==
    /\ pc[p] = "reselect"
    /\ LET new == [mem[p] EXCEPT !.selected = job[p].node]
       IN  \/ state' = new /\ mem' = [mem EXCEPT ![p] = new] /\ Returns(p, "ok")
           \/ state' \in {state, new} /\ UNCHANGED mem /\ Returns(p, "failed")
    /\ UNCHANGED <<files, nodes, linked>>

\* write_state: memory follows only when the write has succeeded.
Reselect(p) ==
    /\ pc[p] = "reselect"
    /\ LET new == [mem[p] EXCEPT !.selected = job[p].node.id]
       IN  \/ state' = new /\ mem' = [mem EXCEPT ![p] = new] /\ Returns(p, "ok")
           \/ state' \in {state, new} /\ UNCHANGED mem /\ Returns(p, "failed")
    /\ UNCHANGED <<files, nodes, linked>>
--------------------------------------------------------------------------------
\* apply_config: rendering, and everything else that may fail before the switch.
Render(p) ==
    /\ pc[p] = "render"
    /\ \/ /\ job[p].node # None => Renders(job[p].node)
          /\ Goto(p, "switch") /\ UNCHANGED <<lock, job>>
       \/ Returns(p, "failed")
    /\ UNCHANGED <<stores, mem>>

Switch(p) ==
    /\ pc[p] = "switch"
    /\ linked' = job[p].node /\ Goto(p, "commit")
    /\ UNCHANGED <<files, nodes, state, mem, lock, job>>

\* Without a node the selection is dropped.  An activation that fails is undone from
\* memory, as far as undoing succeeds; an error of the last write undoes nothing.
Commit(p) ==
    /\ pc[p] = "commit"
    /\ LET n == job[p].node
           new == [selected |-> IF n = None THEN None ELSE n.id, linked |-> n]
       IN  \/ /\ state' = new /\ mem' = [mem EXCEPT ![p] = new]
              /\ UNCHANGED linked
              /\ Returns(p, "ok") \/ Returns(p, "failed")
           \/ /\ linked' \in {linked, mem[p].linked}
              /\ state' \in {state, new, mem[p]}
              /\ mem' \in {mem, [mem EXCEPT ![p] = new]}
              /\ Returns(p, "failed")
    /\ UNCHANGED <<files, nodes>>

\* The process dies, and the lock with it.
Crash(p) ==
    /\ pc[p] \notin {"out", "open"}
    /\ Goto(p, "out") /\ lock' = None /\ Set(p, NoJob)
    /\ UNCHANGED <<stores, mem>>

Operate(p) ==
    \/ BeginSelect(p)
    \/ p \notin Tuis /\ (\/ BeginAdd(p) \/ BeginEnable(p) \/ BeginRemove(p)
                         \/ BeginRefresh(p) \/ BeginApply(p))

Next ==
    \E p \in Procs :
        \/ Open(p) \/ Close(p) \/ Operate(p) \/ Fail(p) \/ WriteFile(p) \/ RemoveFile(p)
        \/ Fetch(p) \/ Fetched(p) \/ WriteNodes(p) \/ Warned(p) \/ Reselect(p)
        \/ Render(p) \/ Switch(p) \/ Commit(p) \/ Crash(p)

Spec == Init /\ [][Next]_vars
--------------------------------------------------------------------------------
Offered == {Parsed(l, s) : l \in {k \in UNION Responses : ~Refuses(k)}, s \in Subs}
Ids == {n.id : n \in Offered}

\* A node and an id are never absent.
ASSUME PresenceAssumption == None \notin Offered \cup Ids

States == [selected : Ids \cup {None}, linked : Offered \cup {None}]
Jobs == [op : {"none", "add", "enable", "remove", "refresh", "select", "apply"},
         sub : Subs \cup {None}, enabled : BOOLEAN, todo : SUBSET Subs,
         nodes : SUBSET Offered, node : Offered \cup {None},
         told : BOOLEAN, synced : BOOLEAN, known : BOOLEAN,
         result : {"none", "ok", "failed"}]
Labels == {"out", "open", "fail", "write file", "remove file", "fetch", "write nodes",
           "warned", "reselect", "render", "switch", "commit"}

\* Every variable has a value of its kind.
TypeOK ==
    /\ files \in [Subs -> {None, "enabled", "disabled"}]
    /\ nodes \subseteq Offered /\ linked \in Offered \cup {None}
    /\ state \in States /\ mem \in [Procs -> States] /\ lock \in Procs \cup {None}
    /\ pc \in [Procs -> Labels] /\ job \in [Procs -> Jobs]

Finishes(p) == pc[p] \notin {"out", "open"} /\ pc'[p] \in {"out", "open"}

\* Whoever works from an up-to-date memory and succeeds does not lose the selection: after
\* a refresh, a removal, a selection or an apply (application.rs) the selected node is in
\* nodes.json as it was before, or a warning says that it is gone.
SelectionSurvives ==
    [][\A p \in Procs :
        Finishes(p) /\ job'[p].result = "ok" /\ job[p].synced /\ job[p].known =>
            Selects(state', nodes') \/ job[p].told]_vars

\* README.md, "Hysteria2 nodes with genuinely unmappable parameters remain visible as
\* unsupported", "plugin= values remain visible with a warning and are refused": whatever
\* has been selected, and however it is refreshed, no configuration is linked that was
\* rendered from such a node.
ActiveIsSupported ==
    linked # None => /\ Badge(linked) # "unsupported"
                     /\ ~(linked.protocol = "ss" /\ "plugin" \in DOMAIN linked.extra)

\* The parser and the renderer agree, for the VLESS and Shadowsocks nodes in nodes.json,
\* with one exception: a node that has no warning renders, but for the VLESS node whose
\* fragment has to be added to an `fm` with a tcp that is no array, which is refused.
\* (VMess never warns, Trojan not of an unknown transport, and Hysteria2 not of a
\* salamander without its password.)
RefusalIsMarked ==
    \A n \in nodes :
        n.protocol \in {"vless", "ss"} /\ Badge(n) = "supported" =>
            (Renders(n) <=> n.protocol = "ss" \/ ~Clashing(n.extra))
================================================================================
