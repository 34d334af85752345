---------------------------- MODULE SubscriptionProofs --------------------------
(***************************************************************************)
(* Proofs about ShareLinks, for every link, and about Subscriptions, for   *)
(* all processes, subscriptions and responses: type correctness, what the  *)
(* badge of a VLESS or Shadowsocks node says of the renderer, that no      *)
(* unsupported node is ever linked, and that the selection survives or its *)
(* loss is told.                                                           *)
(***************************************************************************)
EXTENDS Subscriptions, TLAPS, FiniteSetTheorems

\* How far parse_vless and parse_shadowsocks agree with render_proxy_outbound.  Of the
\* links that these two parsers take without a warning, every Shadowsocks link renders,
\* and a VLESS link renders if and only if it is not the one case that the parser does
\* not look at: a legacy fragment next to an `fm` whose tcp is no array.  Nothing is said
\* of VMess, Trojan and Hysteria2, whose parsers do not warn of all that is refused.
THEOREM UnmarkedRenders ==
    ASSUME NEW link, NEW s, link.scheme \in {"vless", "ss"}, Warnings(link) = {}
    PROVE  Renders(Parsed(link, s)) <=> link.scheme = "ss" \/ ~Clashing(link.params)
<1> DEFINE node == Parsed(link, s)
<1>1. /\ node.protocol = link.scheme /\ node.warnings = {} /\ node.network = Network(link)
      /\ node.extra = link.params
      /\ node.header = IF "headerType" \in TransportOf[link.scheme]
                       THEN Get(link.params, "headerType", None) ELSE None
      /\ node.seed = (link.scheme = "vless" /\ "seed" \in DOMAIN link.params)
    BY DEF Parsed
<1>2. CASE link.scheme = "ss"
    <2>1. "plugin" \notin DOMAIN link.params
        BY <1>2 DEF Warnings, ShadowsocksWarnings
    <2> QED
        BY <1>1, <1>2, <2>1 DEF Renders
<1>3. CASE link.scheme = "vless"
    <2>1. \A w \in {"type", "headerType", "seed", "fragment", "fm"} : w \notin VlessWarnings(link)
        BY DEF Warnings
    <2>2. Network(link) \in Networks
        BY <1>3, <2>1 DEF VlessWarnings
    <2>3. Get(link.params, "headerType", "none") \in {"none", "http"}
        BY <1>3, <2>1 DEF VlessWarnings
    <2>4. "seed" \notin DOMAIN link.params
        BY <1>3, <2>1 DEF VlessWarnings
    <2>5. Get(link.params, "fragment", "range") = "range"
        BY <1>3, <2>1 DEF VlessWarnings
    <2>6. Get(link.params, "fm", "object") \in {"object", "bad tcp"}
        BY <1>3, <2>1 DEF VlessWarnings
    <2>7. node.header \in {None, "none", "http"}
        BY <1>1, <1>3, <2>3 DEF Get, TransportOf
    <2>8. ~StreamRefuses(node)
        BY <1>1, <2>2, <2>4, <2>7 DEF StreamRefuses
    <2>9. FinalmaskRefuses(node) <=> Clashing(link.params)
        BY <1>1, <1>3, <2>5, <2>6 DEF FinalmaskRefuses
    <2> QED
        BY <1>1, <1>3, <2>8, <2>9 DEF Renders
<1> QED
    BY <1>2, <1>3
--------------------------------------------------------------------------------
USE SubscriptionsAssumption

\* What a parser makes of a line that it accepts is a node on offer.
LEMMA ParsedOffered ==
    ASSUME NEW links \in Responses, NEW l \in links, ~Refuses(l), NEW s \in Subs
    PROVE  Parsed(l, s) \in Offered
BY DEF Offered

LEMMA SelectedIds ==
    ASSUME NEW n \in Offered
    PROVE  n.id \in Ids
BY DEF Ids

\* The state written for a node is a state.
LEMMA StateTyped ==
    ASSUME NEW n \in Offered \cup {None}
    PROVE  [selected |-> IF n = None THEN None ELSE n.id, linked |-> n] \in States
BY SelectedIds DEF States

\* What holds of the operation of a process by where it has come to, for the types: a
\* refresh reselects a node.
NodeAtReselect(p) == pc[p] = "reselect" => job[p].node \in Offered

TypeInv == TypeOK /\ \A p \in Procs : NodeAtReselect(p)

LEMMA NoJobTyped == NoJob \in Jobs
BY DEF NoJob, Jobs

LEMMA ReturnsTyped ==
    ASSUME TypeOK, NEW p \in Procs, NEW r \in {"ok", "failed"}, Returns(p, r)
    PROVE  /\ pc' \in [Procs -> Labels] /\ job' \in [Procs -> Jobs] /\ lock' = None
           /\ pc'[p] \in {"out", "open"} /\ job'[p] = [NoJob EXCEPT !.result = r]
           /\ \A q \in Procs \ {p} : pc'[q] = pc[q] /\ job'[q] = job[q]
<1>1. [NoJob EXCEPT !.result = r] \in Jobs
    BY DEF NoJob, Jobs
<1> QED
    BY <1>1 DEF Returns, Goto, Set, TypeOK, Labels

LEMMA GoesTyped ==
    ASSUME TypeOK, NEW p \in Procs, NEW label \in Labels, NEW record \in Jobs,
           Goto(p, label), Set(p, record)
    PROVE  /\ pc' \in [Procs -> Labels] /\ job' \in [Procs -> Jobs]
           /\ pc'[p] = label /\ job'[p] = record
           /\ \A q \in Procs \ {p} : pc'[q] = pc[q] /\ job'[q] = job[q]
BY DEF Goto, Set, TypeOK

LEMMA BeginsTyped ==
    ASSUME TypeOK, NEW p \in Procs, NEW label \in Labels, NEW record \in Jobs,
           Begins(p, record), Goto(p, label)
    PROVE  /\ pc' \in [Procs -> Labels] /\ job' \in [Procs -> Jobs] /\ lock' = p
           /\ pc[p] = "open" /\ lock = None
           /\ pc'[p] = label
           /\ job'[p] = [record EXCEPT !.synced = mem[p] = state,
                                       !.known = Selects(state, nodes)]
           /\ \A q \in Procs \ {p} : pc'[q] = pc[q] /\ job'[q] = job[q]
           /\ UNCHANGED <<stores, mem>>
<1>1. [record EXCEPT !.synced = mem[p] = state, !.known = Selects(state, nodes)] \in Jobs
    BY DEF Jobs, Selects
<1> QED
    BY <1>1 DEF Begins, Goto, Set, TypeOK

\* If one node matches, it is the one that is chosen.
LEMMA OneMatches ==
    ASSUME NEW matches, Cardinality(matches) = 1
    PROVE  (CHOOSE n \in matches : TRUE) \in matches
<1>1. matches # {}
    BY FS_EmptySet
<1> QED
    BY <1>1

\* Init and every action preserve the types.
LEMMA InitTyped == Init => TypeInv
BY NoJobTyped DEF Init, TypeInv, TypeOK, Fresh, States, Labels, NodeAtReselect

LEMMA OperateTyped ==
    ASSUME TypeInv, NEW p \in Procs, Operate(p)
    PROVE  TypeInv'
<1> USE NoJobTyped
<1>1. TypeOK /\ pc \in [Procs -> Labels]
    BY DEF TypeInv, TypeOK
<1>2. SUFFICES ASSUME NEW record \in Jobs, NEW label \in Labels \ {"reselect"},
                      Begins(p, record), Goto(p, label), UNCHANGED <<stores, mem>>
               PROVE  TypeInv'
    <2> DEFINE Begun == \E record \in Jobs, label \in Labels \ {"reselect"} :
                          Begins(p, record) /\ Goto(p, label)
    <2>1. Begun => TypeInv'
        BY <1>2 DEF Begins
    <2>2. ASSUME BeginAdd(p)
          PROVE  Begun
        <3>1. PICK s \in Subs :
                /\ Begins(p, [NoJob EXCEPT !.op = "add", !.sub = s, !.enabled = TRUE])
                /\ Goto(p, "write file")
            BY <2>2 DEF BeginAdd
        <3>2. [NoJob EXCEPT !.op = "add", !.sub = s, !.enabled = TRUE] \in Jobs
            BY DEF NoJob, Jobs
        <3> QED
            BY <3>1, <3>2 DEF Labels
    <2>3. ASSUME BeginEnable(p)
          PROVE  Begun
        <3>1. PICK s \in Subs, b \in BOOLEAN :
                /\ Begins(p, [NoJob EXCEPT !.op = "enable", !.sub = s, !.enabled = b])
                /\ Goto(p, IF files[s] = None THEN "fail" ELSE "write file")
            BY <2>3 DEF BeginEnable
        <3>2. [NoJob EXCEPT !.op = "enable", !.sub = s, !.enabled = b] \in Jobs
            BY DEF NoJob, Jobs
        <3> QED
            BY <3>1, <3>2 DEF Labels
    <2>4. ASSUME BeginRemove(p)
          PROVE  Begun
        <3>1. PICK s \in Subs :
                /\ Begins(p, [NoJob EXCEPT !.op = "remove", !.sub = s])
                /\ Goto(p, IF HoldsSelected(p, s) THEN "fail" ELSE "remove file")
            BY <2>4 DEF BeginRemove
        <3>2. [NoJob EXCEPT !.op = "remove", !.sub = s] \in Jobs
            BY DEF NoJob, Jobs
        <3> QED
            BY <3>1, <3>2 DEF Labels
    <2>5. ASSUME BeginRefresh(p)
          PROVE  Begun
        <3>1. PICK s \in Subs \cup {None} :
                /\ Begins(p, [NoJob EXCEPT !.op = "refresh", !.sub = s, !.nodes = nodes,
                                 !.todo = {t \in Subs : files[t] = "enabled" /\ s \in {None, t}}])
                /\ Goto(p, IF s # None /\ files[s] = None THEN "fail" ELSE "fetch")
            BY <2>5 DEF BeginRefresh
        <3>2. [NoJob EXCEPT !.op = "refresh", !.sub = s, !.nodes = nodes,
                 !.todo = {t \in Subs : files[t] = "enabled" /\ s \in {None, t}}] \in Jobs
            BY <1>1 DEF NoJob, Jobs, TypeOK
        <3> QED
            BY <3>1, <3>2 DEF Labels
    <2>6. ASSUME BeginSelect(p)
          PROVE  Begun
        <3>1. PICK ids \in SUBSET {n.id : n \in nodes} :
                LET matches == {n \in nodes : n.id \in ids}
                    one == CHOOSE n \in matches : TRUE
                    fits == Cardinality(matches) = 1 /\ Badge(one) # "unsupported"
                IN  /\ Begins(p, [NoJob EXCEPT !.op = "select", !.node = IF fits THEN one ELSE None])
                    /\ Goto(p, IF fits THEN "render" ELSE "fail")
            BY <2>6 DEF BeginSelect
        <3> DEFINE matches == {n \in nodes : n.id \in ids}
                   one == CHOOSE n \in matches : TRUE
                   fits == Cardinality(matches) = 1 /\ Badge(one) # "unsupported"
                   node == IF fits THEN one ELSE None
        <3>2. node \in nodes \cup {None}
            BY OneMatches
        <3>3. [NoJob EXCEPT !.op = "select", !.node = node] \in Jobs
            <4> HIDE DEF node
            <4> QED
                BY <1>1, <3>2 DEF NoJob, Jobs, TypeOK
        <3> QED
            BY <3>1, <3>3 DEF Labels
    <2>7. ASSUME BeginApply(p)
          PROVE  Begun
        <3>1. PICK n \in nodes \cup {None} :
                /\ Begins(p, [NoJob EXCEPT !.op = "apply", !.node = n])
                /\ Goto(p, "render")
            BY <2>7 DEF BeginApply, With
        <3>2. [NoJob EXCEPT !.op = "apply", !.node = n] \in Jobs
            BY <1>1 DEF NoJob, Jobs, TypeOK
        <3> QED
            BY <3>1, <3>2 DEF Labels
    <2> QED
        BY <2>1, <2>2, <2>3, <2>4, <2>5, <2>6, <2>7 DEF Operate
<1>3. /\ pc' \in [Procs -> Labels] /\ job' \in [Procs -> Jobs] /\ lock' = p
      /\ pc'[p] = label /\ \A q \in Procs \ {p} : pc'[q] = pc[q] /\ job'[q] = job[q]
    BY <1>1, <1>2, BeginsTyped
<1>4. TypeOK'
    BY <1>1, <1>2, <1>3 DEF TypeOK, stores
<1>5. \A q \in Procs : NodeAtReselect(q)'
    BY <1>3, <1>2 DEF TypeInv, NodeAtReselect
<1> QED
    BY <1>4, <1>5 DEF TypeInv

\* An operation that returns leaves the processes typed.
LEMMA ReturnKeepsInv ==
    ASSUME TypeInv, NEW p \in Procs, NEW r \in {"ok", "failed"}, Returns(p, r),
           files' \in [Subs -> {None, "enabled", "disabled"}],
           nodes' \subseteq Offered, linked' \in Offered \cup {None},
           state' \in States, mem' \in [Procs -> States]
    PROVE  TypeInv'
<1>1. TypeOK
    BY DEF TypeInv
<1>2. /\ pc' \in [Procs -> Labels] /\ job' \in [Procs -> Jobs] /\ lock' = None
      /\ pc'[p] \in {"out", "open"}
      /\ \A q \in Procs \ {p} : pc'[q] = pc[q] /\ job'[q] = job[q]
    BY <1>1, ReturnsTyped
<1>3. TypeOK'
    BY <1>2 DEF TypeOK
<1>4. \A q \in Procs : NodeAtReselect(q)'
    BY <1>2 DEF TypeInv, NodeAtReselect
<1> QED
    BY <1>3, <1>4 DEF TypeInv

\* So does one that goes on with a record of its kind.
LEMMA StepKeepsInv ==
    ASSUME TypeInv, NEW p \in Procs, NEW label \in Labels, NEW record \in Jobs,
           Goto(p, label), Set(p, record),
           label = "reselect" => record.node \in Offered,
           files' \in [Subs -> {None, "enabled", "disabled"}],
           nodes' \subseteq Offered, linked' \in Offered \cup {None},
           state' \in States, mem' \in [Procs -> States], lock' \in Procs \cup {None}
    PROVE  TypeInv'
<1>1. TypeOK
    BY DEF TypeInv
<1>2. /\ pc' \in [Procs -> Labels] /\ job' \in [Procs -> Jobs]
      /\ pc'[p] = label /\ job'[p] = record
      /\ \A q \in Procs \ {p} : pc'[q] = pc[q] /\ job'[q] = job[q]
    BY <1>1, GoesTyped
<1>3. TypeOK'
    BY <1>2 DEF TypeOK
<1>4. \A q \in Procs : NodeAtReselect(q)'
    BY <1>2 DEF TypeInv, NodeAtReselect
<1> QED
    BY <1>3, <1>4 DEF TypeInv

\* A step that keeps the record of its process.
LEMMA MoveKeepsInv ==
    ASSUME TypeInv, NEW p \in Procs, NEW label \in Labels \ {"reselect"},
           Goto(p, label), UNCHANGED job,
           files' \in [Subs -> {None, "enabled", "disabled"}],
           nodes' \subseteq Offered, linked' \in Offered \cup {None},
           state' \in States, mem' \in [Procs -> States], lock' \in Procs \cup {None}
    PROVE  TypeInv'
<1>1. TypeOK
    BY DEF TypeInv
<1>2. Set(p, job[p]) /\ job[p] \in Jobs
    BY <1>1 DEF TypeOK, Set
<1> QED
    BY <1>2, StepKeepsInv

LEMMA ActionTyped ==
    ASSUME TypeInv, NEW p \in Procs,
           \/ Open(p) \/ Close(p) \/ Operate(p) \/ Fail(p) \/ WriteFile(p) \/ RemoveFile(p)
           \/ Fetch(p) \/ Fetched(p) \/ WriteNodes(p) \/ Warned(p) \/ Reselect(p)
           \/ Render(p) \/ Switch(p) \/ Commit(p) \/ Crash(p)
    PROVE  TypeInv'
<1>1. TypeOK
    BY DEF TypeInv
<1>2. /\ files \in [Subs -> {None, "enabled", "disabled"}]
      /\ nodes \subseteq Offered /\ linked \in Offered \cup {None}
      /\ state \in States /\ mem \in [Procs -> States] /\ mem[p] \in States
      /\ lock \in Procs \cup {None} /\ job[p] \in Jobs /\ NodeAtReselect(p)
      /\ mem[p].linked \in Offered \cup {None}
    BY <1>1 DEF TypeOK, TypeInv, States
<1>3. CASE Open(p)
    <2>1. [mem EXCEPT ![p] = state] \in [Procs -> States]
        BY <1>2
    <2> QED
        BY <1>2, <1>3, <2>1, StepKeepsInv, NoJobTyped DEF Open, stores, Labels
<1>4. CASE Close(p)
    BY <1>2, <1>4, StepKeepsInv, NoJobTyped DEF Close, stores, Labels
<1>5. CASE Operate(p)
    BY <1>5, OperateTyped
<1>6. CASE Fail(p)
    BY <1>2, <1>6, ReturnKeepsInv DEF Fail, stores
<1>7. CASE WriteFile(p)
    <2>1. PICK new \in [Subs -> {None, "enabled", "disabled"}] :
            Writes(p, files, new, Returns(p, "ok"))
        BY <1>2, <1>7 DEF WriteFile
    <2> QED
        BY <1>2, <1>7, <2>1, ReturnKeepsInv DEF WriteFile, Writes
<1>8. CASE RemoveFile(p)
    <2> DEFINE left == {n \in nodes : n.subscription # job[p].sub}
    <2>1. [files EXCEPT ![job[p].sub] = None] \in [Subs -> {None, "enabled", "disabled"}]
        BY <1>2
    <2>2. [job[p] EXCEPT !.nodes = left] \in Jobs
        BY <1>2 DEF Jobs
    <2>3. CASE Goto(p, "write nodes") /\ Set(p, [job[p] EXCEPT !.nodes = left])
               /\ UNCHANGED lock /\ files' = [files EXCEPT ![job[p].sub] = None]
        <3> HIDE DEF left
        <3> QED
            BY <1>2, <1>8, <2>1, <2>2, <2>3, StepKeepsInv DEF RemoveFile, Labels
    <2>4. CASE Returns(p, "failed") /\ files' \in {files, [files EXCEPT ![job[p].sub] = None]}
        BY <1>2, <1>8, <2>1, <2>4, ReturnKeepsInv DEF RemoveFile
    <2> QED
        BY <1>8, <2>3, <2>4 DEF RemoveFile, Writes
<1>9. CASE Fetch(p)
    <2>1. PICK s \in job[p].todo :
            \/ \E links \in Responses :
                LET parsed == {Parsed(l, s) : l \in {k \in links : ~Refuses(k)}}
                    others == {n \in job[p].nodes : n.subscription # s}
                IN  /\ Set(p, [job[p] EXCEPT !.nodes = others \cup parsed, !.todo = @ \ {s}])
                    /\ UNCHANGED <<pc, lock>>
            \/ Returns(p, "failed")
        BY <1>9 DEF Fetch
    <2>2. CASE Returns(p, "failed")
        BY <1>2, <1>9, <2>2, ReturnKeepsInv DEF Fetch, stores
    <2>3. ASSUME NEW links \in Responses, NEW fetched,
                 fetched = {n \in job[p].nodes : n.subscription # s}
                           \cup {Parsed(l, s) : l \in {k \in links : ~Refuses(k)}},
                 Set(p, [job[p] EXCEPT !.nodes = fetched, !.todo = @ \ {s}]),
                 UNCHANGED <<pc, lock>>
          PROVE  TypeInv'
        <3>1. s \in Subs /\ job[p].nodes \subseteq Offered
            BY <1>2 DEF Jobs
        <3>2. fetched \subseteq Offered
            BY <2>3, <3>1, ParsedOffered
        <3>3. [job[p] EXCEPT !.nodes = fetched, !.todo = @ \ {s}] \in Jobs
            BY <1>2, <3>2 DEF Jobs
        <3>4. Goto(p, pc[p]) /\ pc[p] = "fetch"
            BY <1>1, <1>9, <2>3 DEF Goto, TypeOK, Fetch
        <3> QED
            BY <1>2, <1>9, <2>3, <3>3, <3>4, StepKeepsInv DEF Fetch, stores, Labels
    <2> QED
        BY <2>1, <2>2, <2>3
<1>10. CASE Fetched(p)
    BY <1>2, <1>10, MoveKeepsInv DEF Fetched, stores, Labels
<1>11. CASE WriteNodes(p)
    <2>1. job[p].nodes \subseteq Offered
        BY <1>2 DEF Jobs
    <2>2. ASSUME Returns(p, "failed") \/ Returns(p, "ok"), nodes' \in {nodes, job[p].nodes}
          PROVE  TypeInv'
        BY <1>2, <1>11, <2>1, <2>2, ReturnKeepsInv DEF WriteNodes
    <2>3. ASSUME nodes' = job[p].nodes, Goto(p, "warned"),
                 Set(p, [job[p] EXCEPT !.told = TRUE]), UNCHANGED lock
          PROVE  TypeInv'
        <3>1. [job[p] EXCEPT !.told = TRUE] \in Jobs
            BY <1>2 DEF Jobs
        <3> QED
            BY <1>2, <1>11, <2>1, <2>3, <3>1, StepKeepsInv DEF WriteNodes, Labels
    <2>4. ASSUME nodes' = job[p].nodes, NEW old, NEW n \in Reconciled(old, job[p].nodes),
                 Goto(p, IF n.id = old.id THEN "warned" ELSE "reselect"),
                 Set(p, [job[p] EXCEPT !.node = n]), UNCHANGED lock
          PROVE  TypeInv'
        <3>1. n \in Offered
            BY <2>1 DEF Reconciled, With
        <3>2. [job[p] EXCEPT !.node = n] \in Jobs /\ [job[p] EXCEPT !.node = n].node = n
            BY <1>2, <3>1 DEF Jobs
        <3> QED
            BY <1>2, <1>11, <2>1, <2>4, <3>1, <3>2, StepKeepsInv DEF WriteNodes, Labels
    <2> QED
        BY <1>11, <2>2, <2>3, <2>4 DEF WriteNodes, Writes
<1>12. CASE Warned(p)
    BY <1>2, <1>12, ReturnKeepsInv DEF Warned, stores
<1>13. CASE Reselect(p)
    <2>1. [mem[p] EXCEPT !.selected = job[p].node.id] \in States
        BY <1>2, <1>13, SelectedIds DEF Reselect, NodeAtReselect, States
    <2> QED
        BY <1>2, <1>13, <2>1, ReturnKeepsInv DEF Reselect
<1>14. CASE Render(p)
    BY <1>2, <1>14, MoveKeepsInv, ReturnKeepsInv DEF Render, stores, Labels
<1>15. CASE Switch(p)
    <2>1. job[p].node \in Offered \cup {None}
        BY <1>2 DEF Jobs
    <2> QED
        BY <1>2, <1>15, <2>1, MoveKeepsInv DEF Switch, Labels
<1>16. CASE Commit(p)
    <2> DEFINE n == job[p].node
               new == [selected |-> IF n = None THEN None ELSE n.id, linked |-> n]
    <2>1. new \in States
        BY <1>2, StateTyped DEF Jobs
    <2>2. /\ linked' \in {linked, mem[p].linked} /\ state' \in {state, new, mem[p]}
          /\ mem' \in {mem, [mem EXCEPT ![p] = new]}
          /\ Returns(p, "ok") \/ Returns(p, "failed")
          /\ UNCHANGED <<files, nodes>>
        BY <1>16 DEF Commit
    <2> HIDE DEF new
    <2> QED
        BY <1>2, <2>1, <2>2, ReturnKeepsInv
<1>17. CASE Crash(p)
    BY <1>2, <1>17, StepKeepsInv, NoJobTyped DEF Crash, stores, Labels
<1> QED
    BY <1>3, <1>4, <1>5, <1>6, <1>7, <1>8, <1>9, <1>10, <1>11, <1>12, <1>13, <1>14, <1>15,
       <1>16, <1>17

LEMMA NextTyped ==
    ASSUME TypeInv, [Next]_vars
    PROVE  TypeInv'
<1>1. CASE Next
    BY <1>1, ActionTyped DEF Next
<1>2. CASE UNCHANGED vars
    BY <1>2 DEF vars, stores, TypeInv, TypeOK, NodeAtReselect
<1> QED
    BY <1>1, <1>2

\* Every variable of Subscriptions has a value of its kind, whatever is offered.
THEOREM SubscriptionTypes == Spec => []TypeOK
<1>1. Spec => []TypeInv
    BY InitTyped, NextTyped, PTL DEF Spec
<1>2. TypeInv => TypeOK
    BY DEF TypeInv
<1> QED
    BY <1>1, <1>2, PTL
--------------------------------------------------------------------------------
\* What UnmarkedRenders says of a link holds of the VLESS and Shadowsocks nodes that ever
\* are in nodes.json, whoever wrote them there and from whatever responses: without a
\* warning they render, the VLESS node with a fragment and an `fm` that clash excepted.
THEOREM RefusalsMarked == Spec => []RefusalIsMarked
<1>1. ASSUME TypeOK
      PROVE  RefusalIsMarked
    <2> SUFFICES ASSUME NEW n \in nodes, n.protocol \in {"vless", "ss"},
                        Badge(n) = "supported"
                 PROVE  Renders(n) <=> n.protocol = "ss" \/ ~Clashing(n.extra)
        BY DEF RefusalIsMarked
    <2>1. PICK l \in UNION Responses, s \in Subs : n = Parsed(l, s)
        BY <1>1 DEF TypeOK, Offered
    <2>2. /\ n.protocol = l.scheme /\ n.warnings = Warnings(l)
          /\ n.extra = IF l.scheme = "vmess"
                       THEN Restrict(l.params, DOMAIN l.params \cap {"alterId", "cipher"})
                       ELSE l.params
        BY <2>1 DEF Parsed
    <2>3. Warnings(l) = {}
        BY <2>2 DEF Badge
    <2>4. n.extra = l.params
        BY <2>2
    <2> QED
        BY <2>1, <2>2, <2>3, <2>4, UnmarkedRenders
<1> QED
    BY <1>1, SubscriptionTypes, PTL

\* An action of a process leaves the others where they are.
LEMMA ActionLocal ==
    ASSUME TypeOK, NEW p \in Procs,
           \/ Open(p) \/ Close(p) \/ Operate(p) \/ Fail(p) \/ WriteFile(p) \/ RemoveFile(p)
           \/ Fetch(p) \/ Fetched(p) \/ WriteNodes(p) \/ Warned(p) \/ Reselect(p)
           \/ Render(p) \/ Switch(p) \/ Commit(p) \/ Crash(p),
           NEW q \in Procs \ {p}
    PROVE  pc'[q] = pc[q] /\ job'[q] = job[q] /\ mem'[q] = mem[q]
<1> USE DEF TypeOK, Goto, Set, Returns, stores
<1>1. CASE Open(p) \/ Close(p) \/ Crash(p)
    BY <1>1 DEF Open, Close, Crash
<1>2. CASE Operate(p)
    BY <1>2 DEF Operate, Begins, BeginAdd, BeginEnable, BeginRemove, BeginRefresh,
                BeginSelect, BeginApply
<1>3. CASE Fail(p) \/ Warned(p) \/ Fetched(p) \/ Switch(p) \/ Render(p)
    BY <1>3 DEF Fail, Warned, Fetched, Switch, Render
<1>4. CASE WriteFile(p) \/ RemoveFile(p) \/ WriteNodes(p)
    BY <1>4 DEF WriteFile, RemoveFile, WriteNodes, Writes
<1>5. CASE Fetch(p)
    BY <1>5 DEF Fetch
<1>6. CASE Reselect(p)
    BY <1>6 DEF Reselect
<1>7. CASE Commit(p)
    BY <1>7 DEF Commit
<1> QED
    BY <1>1, <1>2, <1>3, <1>4, <1>5, <1>6, <1>7

\* Nothing that is linked, remembered as linked or about to be linked is unsupported.
Usable(n) == n # None => /\ Badge(n) # "unsupported"
                         /\ ~(n.protocol = "ss" /\ "plugin" \in DOMAIN n.extra)

UsableInv ==
    /\ Usable(linked) /\ Usable(state.linked)
    /\ \A p \in Procs : /\ Usable(mem[p].linked)
                        /\ pc[p] \in {"switch", "commit"} => Usable(job[p].node)

LEMMA RendersUsable ==
    ASSUME NEW n, n # None => Renders(n)
    PROVE  Usable(n)
BY DEF Usable, Renders, Badge

LEMMA ActionUsable ==
    ASSUME TypeOK, UsableInv, NEW p \in Procs,
           \/ Open(p) \/ Close(p) \/ Operate(p) \/ Fail(p) \/ WriteFile(p) \/ RemoveFile(p)
           \/ Fetch(p) \/ Fetched(p) \/ WriteNodes(p) \/ Warned(p) \/ Reselect(p)
           \/ Render(p) \/ Switch(p) \/ Commit(p) \/ Crash(p)
    PROVE  UsableInv'
<1>1. /\ Usable(linked) /\ Usable(state.linked) /\ Usable(mem[p].linked)
      /\ pc[p] \in {"switch", "commit"} => Usable(job[p].node)
    BY DEF UsableInv
<1>2. ASSUME NEW q \in Procs \ {p}
      PROVE  Usable(mem'[q].linked) /\ (pc'[q] \in {"switch", "commit"} => Usable(job'[q].node))
    BY <1>2, ActionLocal DEF UsableInv
<1>3. SUFFICES /\ Usable(linked') /\ Usable(state'.linked) /\ Usable(mem'[p].linked)
               /\ pc'[p] \in {"switch", "commit"} => Usable(job'[p].node)
    BY <1>2 DEF UsableInv
<1> USE DEF TypeOK, Goto, Set, Returns, stores
<1>4. CASE Open(p) \/ Close(p) \/ Crash(p)
    BY <1>1, <1>4 DEF Open, Close, Crash
<1>5. CASE Operate(p)
    BY <1>1, <1>5 DEF Operate, Begins, BeginAdd, BeginEnable, BeginRemove, BeginRefresh,
                      BeginSelect, BeginApply
<1>6. CASE Fail(p) \/ Warned(p) \/ Fetched(p)
    BY <1>1, <1>6 DEF Fail, Warned, Fetched
<1>7. CASE WriteFile(p) \/ RemoveFile(p)
    BY <1>1, <1>7 DEF WriteFile, RemoveFile, Writes
<1>8. CASE WriteNodes(p)
    BY <1>1, <1>8 DEF WriteNodes, Writes
<1>9. CASE Fetch(p)
    BY <1>1, <1>9 DEF Fetch
<1>10. CASE Reselect(p)
    <2> DEFINE new == [mem[p] EXCEPT !.selected = job[p].node.id]
    <2>1. Usable(new.linked)
        BY <1>1 DEF States
    <2>2. /\ linked' = linked /\ state' \in {state, new}
          /\ mem' = mem \/ mem' = [mem EXCEPT ![p] = new]
          /\ pc'[p] \in {"out", "open"}
        BY <1>10 DEF Reselect
    <2> HIDE DEF new
    <2> QED
        BY <1>1, <2>1, <2>2
<1>11. CASE Render(p)
    BY <1>1, <1>11, RendersUsable DEF Render
<1>12. CASE Switch(p)
    BY <1>1, <1>12 DEF Switch
<1>13. CASE Commit(p)
    <2> DEFINE n == job[p].node
               new == [selected |-> IF n = None THEN None ELSE n.id, linked |-> n]
    <2>1. Usable(new.linked)
        BY <1>1, <1>13 DEF Commit
    <2>2. /\ linked' \in {linked, mem[p].linked} /\ state' \in {state, new, mem[p]}
          /\ mem' \in {mem, [mem EXCEPT ![p] = new]}
          /\ pc'[p] \in {"out", "open"}
        BY <1>13 DEF Commit
    <2> HIDE DEF new
    <2> QED
        BY <1>1, <2>1, <2>2
<1> QED
    BY <1>4, <1>5, <1>6, <1>7, <1>8, <1>9, <1>10, <1>11, <1>12, <1>13

\* README.md, "remain visible as unsupported" and "are refused": however a node has come
\* to be selected, applied or restored, it is linked only if it was rendered, so never
\* while its badge says unsupported or with a plugin.
THEOREM OnlySupportedActive == Spec => []ActiveIsSupported
<1>1. Init => UsableInv
    BY DEF Init, Fresh, UsableInv, Usable
<1>2. ASSUME TypeOK, UsableInv, [Next]_vars
      PROVE  UsableInv'
    <2>1. CASE Next
        BY <1>2, <2>1, ActionUsable DEF Next
    <2>2. CASE UNCHANGED vars
        BY <1>2, <2>2 DEF vars, stores, UsableInv
    <2> QED
        BY <1>2, <2>1, <2>2
<1>3. UsableInv => ActiveIsSupported
    BY DEF UsableInv, Usable, ActiveIsSupported
<1> QED
    BY <1>1, <1>2, <1>3, SubscriptionTypes, PTL DEF Spec
--------------------------------------------------------------------------------
\* A busy process holds the lock.
Busy(p) == pc[p] \notin {"out", "open"}
Exclusive == \A p \in Procs : Busy(p) => lock = p

\* What is known of an operation that began with an up-to-date memory and a selected node
\* that nodes.json has: memory is up to date until the operation ends, and the selection
\* is kept up to the write of nodes.json, through which it is followed.
Kept(p) ==
    Busy(p) /\ job[p].synced /\ job[p].known =>
        /\ mem[p] = state
        /\ pc[p] \notin {"warned", "reselect"} => Selects(state, nodes)
        /\ pc[p] = "warned" => job[p].told \/ Selects(state, nodes)
        /\ pc[p] \in {"reselect", "render", "switch", "commit"} => job[p].node \in nodes
        /\ pc[p] = "remove file" => ~HoldsSelected(p, job[p].sub)
        /\ pc[p] = "fetch" => job[p].op = "refresh"
        /\ pc[p] = "write nodes" =>
            job[p].op = "refresh" \/ With(mem[p].selected, nodes) \subseteq job[p].nodes

KeptInv == Exclusive /\ \A p \in Procs : Kept(p)

\* What SelectionSurvives says of one process.
Survives(p) ==
    Finishes(p) /\ job'[p].result = "ok" /\ job[p].synced /\ job[p].known =>
        Selects(state', nodes') \/ job[p].told

\* A process can act in three ways: from outside, where it touches nothing the others
\* rely on, at the start of an operation, and within one.
LEMMA OthersKept ==
    ASSUME TypeInv, KeptInv, NEW p \in Procs,
           \/ Open(p) \/ Close(p) \/ Operate(p) \/ Fail(p) \/ WriteFile(p) \/ RemoveFile(p)
           \/ Fetch(p) \/ Fetched(p) \/ WriteNodes(p) \/ Warned(p) \/ Reselect(p)
           \/ Render(p) \/ Switch(p) \/ Commit(p) \/ Crash(p),
           NEW q \in Procs \ {p}
    PROVE  /\ Busy(q)' => lock' = q
           /\ Kept(q)'
           /\ Survives(q)
<1>1. pc'[q] = pc[q] /\ job'[q] = job[q] /\ mem'[q] = mem[q]
    BY ActionLocal DEF TypeInv
<1>2. Survives(q)
    BY <1>1 DEF Survives, Finishes
<1>3. CASE Open(p) \/ Close(p)
    <2>1. UNCHANGED <<nodes, state, lock>>
        BY <1>3 DEF Open, Close, stores
    <2>2. Selects(state, nodes)' = Selects(state, nodes)
        BY <2>1 DEF Selects, With
    <2>3. With(mem[q].selected, nodes)' = With(mem[q].selected, nodes)
        BY <1>1, <2>1 DEF With
    <2>4. HoldsSelected(q, job[q].sub)' = HoldsSelected(q, job[q].sub)
        BY <1>1, <2>3 DEF HoldsSelected
    <2>5. Kept(q)
        BY DEF KeptInv
    <2>6. Kept(q)'
        BY <1>1, <2>1, <2>2, <2>3, <2>4, <2>5 DEF Kept, Busy
    <2> QED
        BY <1>1, <1>2, <2>1, <2>6 DEF KeptInv, Exclusive, Busy
<1>4. CASE ~(Open(p) \/ Close(p))
    <2>1. lock = None \/ Busy(p)
        BY <1>4 DEF Operate, Begins, BeginAdd, BeginEnable, BeginRemove, BeginRefresh,
                    BeginSelect, BeginApply, Fail, WriteFile, RemoveFile, Fetch, Fetched,
                    WriteNodes, Warned, Reselect, Render, Switch, Commit, Crash, Busy
    <2>2. ~Busy(q)
        BY <2>1 DEF KeptInv, Exclusive
    <2> QED
        BY <1>1, <1>2, <2>2 DEF Kept, Busy
<1> QED
    BY <1>3, <1>4

\* An operation begins: where it begins, what Kept asks holds if it is asked at all.
LEMMA BeginKept ==
    ASSUME TypeInv, NEW p \in Procs, NEW label \in Labels, NEW record \in Jobs,
           Begins(p, record), Goto(p, label),
           label \notin {"warned", "reselect", "write nodes", "switch", "commit"},
           label = "render" /\ mem[p] = state /\ Selects(state, nodes) => record.node \in nodes,
           label = "remove file" => ~HoldsSelected(p, record.sub),
           label = "fetch" => record.op = "refresh"
    PROVE  (Busy(p)' => lock' = p) /\ Kept(p)' /\ Survives(p)
<1>1. /\ pc[p] = "open" /\ pc'[p] = label /\ lock' = p /\ UNCHANGED <<nodes, state, mem>>
      /\ job'[p] = [record EXCEPT !.synced = mem[p] = state, !.known = Selects(state, nodes)]
    BY BeginsTyped DEF TypeInv, stores
<1>2. /\ job'[p].synced = (mem[p] = state) /\ job'[p].known = Selects(state, nodes)
      /\ job'[p].node = record.node /\ job'[p].sub = record.sub /\ job'[p].op = record.op
    BY <1>1 DEF Jobs, Selects
<1>3. Survives(p)
    BY <1>1 DEF Survives, Finishes
<1>4. ASSUME mem[p] = state, Selects(state, nodes)
      PROVE  Kept(p)'
    <2>1. mem'[p] = state' /\ Selects(state, nodes)'
        BY <1>1, <1>4 DEF Selects, With
    <2>2. label = "remove file" => ~HoldsSelected(p, job[p].sub)'
        BY <1>1, <1>2 DEF HoldsSelected, With
    <2> QED
        BY <1>1, <1>2, <1>4, <2>1, <2>2 DEF Kept
<1>5. ASSUME ~(mem[p] = state /\ Selects(state, nodes))
      PROVE  Kept(p)'
    BY <1>2, <1>5 DEF Kept
<1> QED
    BY <1>1, <1>3, <1>4, <1>5

LEMMA OperateKept ==
    ASSUME TypeInv, NEW p \in Procs, Operate(p)
    PROVE  (Busy(p)' => lock' = p) /\ Kept(p)' /\ Survives(p)
<1>1. nodes \subseteq Offered /\ None \notin Procs
    BY DEF TypeInv, TypeOK
<1>2. CASE BeginAdd(p)
    <2>1. PICK s \in Subs :
            /\ Begins(p, [NoJob EXCEPT !.op = "add", !.sub = s, !.enabled = TRUE])
            /\ Goto(p, "write file")
        BY <1>2 DEF BeginAdd
    <2>2. [NoJob EXCEPT !.op = "add", !.sub = s, !.enabled = TRUE] \in Jobs
        BY DEF NoJob, Jobs
    <2> QED
        BY <2>1, <2>2, BeginKept DEF Labels
<1>3. CASE BeginEnable(p)
    <2>1. PICK s \in Subs, b \in BOOLEAN :
            /\ Begins(p, [NoJob EXCEPT !.op = "enable", !.sub = s, !.enabled = b])
            /\ Goto(p, IF files[s] = None THEN "fail" ELSE "write file")
        BY <1>3 DEF BeginEnable
    <2>2. [NoJob EXCEPT !.op = "enable", !.sub = s, !.enabled = b] \in Jobs
        BY DEF NoJob, Jobs
    <2> QED
        BY <2>1, <2>2, BeginKept DEF Labels
<1>4. CASE BeginRemove(p)
    <2>1. PICK s \in Subs :
            /\ Begins(p, [NoJob EXCEPT !.op = "remove", !.sub = s])
            /\ Goto(p, IF HoldsSelected(p, s) THEN "fail" ELSE "remove file")
        BY <1>4 DEF BeginRemove
    <2>2. /\ [NoJob EXCEPT !.op = "remove", !.sub = s] \in Jobs
          /\ [NoJob EXCEPT !.op = "remove", !.sub = s].sub = s
        BY DEF NoJob, Jobs
    <2> QED
        BY <2>1, <2>2, BeginKept DEF Labels
<1>5. CASE BeginRefresh(p)
    <2>1. PICK s \in Subs \cup {None} :
            /\ Begins(p, [NoJob EXCEPT !.op = "refresh", !.sub = s, !.nodes = nodes,
                             !.todo = {t \in Subs : files[t] = "enabled" /\ s \in {None, t}}])
            /\ Goto(p, IF s # None /\ files[s] = None THEN "fail" ELSE "fetch")
        BY <1>5 DEF BeginRefresh
    <2> DEFINE record == [NoJob EXCEPT !.op = "refresh", !.sub = s, !.nodes = nodes,
                            !.todo = {t \in Subs : files[t] = "enabled" /\ s \in {None, t}}]
    <2>2. record \in Jobs /\ record.op = "refresh"
        BY <1>1 DEF NoJob, Jobs
    <2> HIDE DEF record
    <2> QED
        BY <2>1, <2>2, BeginKept DEF Labels, record
<1>6. CASE BeginSelect(p)
    <2>1. PICK ids \in SUBSET {n.id : n \in nodes} :
            LET matches == {n \in nodes : n.id \in ids}
                one == CHOOSE n \in matches : TRUE
                fits == Cardinality(matches) = 1 /\ Badge(one) # "unsupported"
            IN  /\ Begins(p, [NoJob EXCEPT !.op = "select", !.node = IF fits THEN one ELSE None])
                /\ Goto(p, IF fits THEN "render" ELSE "fail")
        BY <1>6 DEF BeginSelect
    <2> DEFINE matches == {n \in nodes : n.id \in ids}
               one == CHOOSE n \in matches : TRUE
               fits == Cardinality(matches) = 1 /\ Badge(one) # "unsupported"
               node == IF fits THEN one ELSE None
               record == [NoJob EXCEPT !.op = "select", !.node = node]
    <2>2. (fits => node \in nodes) /\ node \in nodes \cup {None}
        BY OneMatches
    <2>3. record \in Jobs /\ record.node = node
        <3> HIDE DEF node
        <3> QED
            BY <1>1, <2>2 DEF NoJob, Jobs
    <2>4. Begins(p, record) /\ Goto(p, IF fits THEN "render" ELSE "fail")
        BY <2>1
    <2> HIDE DEF record, node, fits
    <2> QED
        BY <2>2, <2>3, <2>4, BeginKept DEF Labels
<1>7. CASE BeginApply(p)
    <2>1. PICK n \in IF With(mem[p].selected, nodes) = {} THEN {None}
                     ELSE With(mem[p].selected, nodes) :
            /\ Begins(p, [NoJob EXCEPT !.op = "apply", !.node = n])
            /\ Goto(p, "render")
        BY <1>7 DEF BeginApply
    <2>2. n \in nodes \cup {None} /\ (mem[p] = state /\ Selects(state, nodes) => n \in nodes)
        BY <2>1 DEF With, Selects
    <2>3. /\ [NoJob EXCEPT !.op = "apply", !.node = n] \in Jobs
          /\ [NoJob EXCEPT !.op = "apply", !.node = n].node = n
        BY <1>1, <2>2 DEF NoJob, Jobs
    <2> QED
        BY <2>1, <2>2, <2>3, BeginKept DEF Labels
<1> QED
    BY <1>2, <1>3, <1>4, <1>5, <1>6, <1>7 DEF Operate

\* An operation returns: nothing more is asked of it but that it has kept the selection.
LEMMA ReturnKept ==
    ASSUME TypeInv, NEW p \in Procs, NEW r \in {"ok", "failed"}, Returns(p, r),
           r = "ok" /\ job[p].synced /\ job[p].known =>
               Selects(state', nodes') \/ job[p].told
    PROVE  (Busy(p)' => lock' = p) /\ Kept(p)' /\ Survives(p)
<1>1. pc'[p] \in {"out", "open"} /\ job'[p] = [NoJob EXCEPT !.result = r]
    BY ReturnsTyped DEF TypeInv
<1>2. ~Busy(p)'
    BY <1>1 DEF Busy
<1>3. job'[p].result = r
    BY <1>1 DEF NoJob
<1> QED
    BY <1>2, <1>3 DEF Kept, Survives

\* It goes on, in the same or another record, and nobody has finished.
LEMMA StepKept ==
    ASSUME TypeInv, NEW p \in Procs, NEW label \in Labels \ {"out", "open"},
           NEW record \in Jobs, Goto(p, label), Set(p, record), lock' = p,
           UNCHANGED <<state, mem>>,
           record.synced /\ record.known =>
             /\ mem[p] = state
             /\ label \notin {"warned", "reselect"} => Selects(state, nodes')
             /\ label = "warned" => record.told \/ Selects(state, nodes')
             /\ label \in {"reselect", "render", "switch", "commit"} => record.node \in nodes'
             /\ label = "fetch" => record.op = "refresh"
             /\ label = "write nodes" =>
                 record.op = "refresh" \/ With(mem[p].selected, nodes') \subseteq record.nodes,
           label # "remove file"
    PROVE  (Busy(p)' => lock' = p) /\ Kept(p)' /\ Survives(p)
<1>1. pc'[p] = label /\ job'[p] = record
    BY GoesTyped DEF TypeInv
<1>2. Survives(p)
    BY <1>1 DEF Survives, Finishes
<1>3. Selects(state, nodes)' = Selects(state, nodes')
    BY DEF Selects, With
<1>4. With(mem[p].selected, nodes)' = With(mem[p].selected, nodes')
    BY DEF With
<1>5. Kept(p)'
    BY <1>1, <1>3, <1>4 DEF Kept
<1> QED
    BY <1>2, <1>5

\* Every step of an operation keeps the selection up to where it is followed.
LEMMA OperationKept ==
    ASSUME TypeInv, KeptInv, NEW p \in Procs,
           \/ Fail(p) \/ WriteFile(p) \/ RemoveFile(p) \/ Fetch(p) \/ Fetched(p)
           \/ WriteNodes(p) \/ Warned(p) \/ Reselect(p) \/ Render(p) \/ Switch(p) \/ Commit(p)
    PROVE  (Busy(p)' => lock' = p) /\ Kept(p)' /\ Survives(p)
<1> DEFINE j == job[p]
<1>1. /\ TypeOK /\ NodeAtReselect(p) /\ j \in Jobs /\ pc[p] \in Labels
      /\ mem[p] \in States /\ state \in States /\ nodes \subseteq Offered
    BY DEF TypeInv, TypeOK
<1>2. Busy(p) /\ lock = p
    BY DEF KeptInv, Exclusive, Busy, Fail, WriteFile, RemoveFile, Fetch, Fetched, WriteNodes,
           Warned, Reselect, Render, Switch, Commit
<1>3. Set(p, j) <=> UNCHANGED job
    BY <1>1 DEF Set, TypeOK
<1>4. ASSUME j.synced, j.known
      PROVE  /\ mem[p] = state
             /\ pc[p] \notin {"warned", "reselect"} => Selects(state, nodes)
             /\ pc[p] = "warned" => j.told \/ Selects(state, nodes)
             /\ pc[p] \in {"reselect", "render", "switch", "commit"} => j.node \in nodes
             /\ pc[p] = "remove file" => ~HoldsSelected(p, j.sub)
             /\ pc[p] = "fetch" => j.op = "refresh"
             /\ pc[p] = "write nodes" =>
                 j.op = "refresh" \/ With(mem[p].selected, nodes) \subseteq j.nodes
    BY <1>2, <1>4 DEF KeptInv, Kept
<1>5. UNCHANGED <<state, nodes>> => Selects(state', nodes') = Selects(state, nodes)
    OBVIOUS
<1> HIDE DEF j
<1>6. CASE Fail(p)
    BY <1>6, ReturnKept DEF Fail
<1>7. CASE WriteFile(p)
    BY <1>4, <1>5, <1>7, ReturnKept DEF WriteFile, Writes, j
<1>8. CASE RemoveFile(p)
    <2> DEFINE left == {n \in nodes : n.subscription # j.sub}
               record == [j EXCEPT !.nodes = left]
    <2>1. CASE Returns(p, "failed")
        BY <1>8, <2>1, ReturnKept
    <2>2. CASE Goto(p, "write nodes") /\ Set(p, record) /\ UNCHANGED lock
        <3>1. record \in Jobs /\ record.nodes = left
              /\ record.synced = j.synced /\ record.known = j.known
            BY <1>1 DEF Jobs
        <3>2. pc[p] = "remove file" /\ UNCHANGED <<nodes, state, mem>>
            BY <1>8 DEF RemoveFile
        <3>3. ~HoldsSelected(p, j.sub) => With(mem[p].selected, nodes) \subseteq left
            BY DEF HoldsSelected, With
        <3> HIDE DEF record, left
        <3> QED
            BY <1>2, <1>4, <2>2, <3>1, <3>2, <3>3, StepKept DEF Labels
    <2> QED
        BY <1>8, <2>1, <2>2 DEF RemoveFile, Writes, j
<1>9. CASE Fetch(p)
    <2>1. CASE Returns(p, "failed")
        BY <1>9, <2>1, ReturnKept
    <2>2. ASSUME NEW fetched \in SUBSET Offered, NEW s \in j.todo,
                 Set(p, [j EXCEPT !.nodes = fetched, !.todo = @ \ {s}]), UNCHANGED <<pc, lock>>
          PROVE  (Busy(p)' => lock' = p) /\ Kept(p)' /\ Survives(p)
        <3> DEFINE record == [j EXCEPT !.nodes = fetched, !.todo = @ \ {s}]
        <3>1. record \in Jobs /\ record.op = j.op
              /\ record.synced = j.synced /\ record.known = j.known
            BY <1>1 DEF Jobs
        <3>2. pc[p] = "fetch" /\ UNCHANGED <<nodes, state, mem>> /\ Goto(p, "fetch")
            BY <1>1, <1>9, <2>2 DEF Fetch, stores, Goto, TypeOK
        <3> HIDE DEF record
        <3> QED
            BY <1>2, <1>4, <2>2, <3>1, <3>2, StepKept DEF Labels, record
    <2>3. ASSUME NEW s \in j.todo, NEW links \in Responses
          PROVE  {n \in j.nodes : n.subscription # s}
                 \cup {Parsed(l, s) : l \in {k \in links : ~Refuses(k)}} \in SUBSET Offered
        BY <1>1, <2>3, ParsedOffered DEF Jobs
    <2> QED
        BY <1>9, <2>1, <2>2, <2>3 DEF Fetch, j
<1>10. CASE Fetched(p)
    <2>1. /\ pc[p] = "fetch" /\ Goto(p, "write nodes") /\ Set(p, j)
          /\ UNCHANGED <<nodes, state, mem, lock>>
        BY <1>3, <1>10 DEF Fetched, stores
    <2> QED
        BY <1>1, <1>2, <1>4, <2>1, StepKept DEF Labels
<1>11. CASE WriteNodes(p)
    <2> DEFINE olds == With(mem[p].selected, nodes)
    <2>1. pc[p] = "write nodes" /\ UNCHANGED <<state, mem>>
        BY <1>11 DEF WriteNodes
    <2>2. CASE Returns(p, "failed")
        BY <2>2, ReturnKept
    <2>3. CASE nodes' = j.nodes /\ (j.op = "remove" \/ olds = {}) /\ Returns(p, "ok")
        <3>1. j.synced /\ j.known => Selects(state', nodes')
            BY <1>4, <2>1, <2>3 DEF Selects, With
        <3> QED
            BY <2>3, <3>1, ReturnKept DEF j
    <2>4. CASE /\ nodes' = j.nodes /\ Goto(p, "warned")
               /\ Set(p, [j EXCEPT !.told = TRUE]) /\ UNCHANGED lock
        <3> DEFINE record == [j EXCEPT !.told = TRUE]
        <3>1. record \in Jobs /\ record.told
              /\ record.synced = j.synced /\ record.known = j.known
            BY <1>1 DEF Jobs
        <3> HIDE DEF record
        <3> QED
            BY <1>2, <1>4, <2>1, <2>4, <3>1, StepKept DEF Labels, record
    <2>5. ASSUME nodes' = j.nodes, NEW old \in olds, NEW n \in Reconciled(old, j.nodes),
                 Goto(p, IF n.id = old.id THEN "warned" ELSE "reselect"),
                 Set(p, [j EXCEPT !.node = n]), UNCHANGED lock
          PROVE  (Busy(p)' => lock' = p) /\ Kept(p)' /\ Survives(p)
        <3> DEFINE record == [j EXCEPT !.node = n]
        <3>1. n \in j.nodes /\ n \in Offered
            BY <1>1, <2>5 DEF Reconciled, With, Jobs
        <3>2. record \in Jobs /\ record.node = n
              /\ record.synced = j.synced /\ record.known = j.known
            BY <1>1, <3>1 DEF Jobs
        <3>3. old.id = mem[p].selected
            BY <2>5 DEF With
        <3>4. n.id = old.id /\ j.synced /\ j.known => Selects(state, nodes')
            BY <1>4, <2>1, <2>5, <3>1, <3>3 DEF Selects, With
        <3> HIDE DEF record
        <3>5. CASE n.id = old.id
            BY <1>2, <1>4, <2>1, <2>5, <3>1, <3>2, <3>4, <3>5, StepKept DEF Labels, record
        <3>6. CASE n.id # old.id
            BY <1>2, <1>4, <2>1, <2>5, <3>1, <3>2, <3>6, StepKept DEF Labels, record
        <3> QED
            BY <3>5, <3>6
    <2> QED
        BY <1>11, <2>2, <2>3, <2>4, <2>5 DEF WriteNodes, Writes, j
<1>12. CASE Warned(p)
    <2>1. pc[p] = "warned" /\ Returns(p, "ok") /\ UNCHANGED <<state, nodes>>
        BY <1>12 DEF Warned, stores
    <2> QED
        BY <1>4, <1>5, <2>1, ReturnKept DEF j
<1>13. CASE Reselect(p)
    <2> DEFINE new == [mem[p] EXCEPT !.selected = j.node.id]
    <2>1. pc[p] = "reselect" /\ UNCHANGED nodes
        BY <1>13 DEF Reselect
    <2>2. CASE Returns(p, "failed")
        BY <2>2, ReturnKept
    <2>3. CASE state' = new /\ Returns(p, "ok")
        <3>1. new.selected = j.node.id /\ j.node \in Offered
            BY <1>1, <2>1 DEF NodeAtReselect, States, j
        <3>2. j.node.id # None
            BY <3>1, SelectedIds, PresenceAssumption
        <3>3. j.synced /\ j.known => Selects(state', nodes')
            BY <1>4, <2>1, <2>3, <3>1, <3>2 DEF Selects, With
        <3> QED
            BY <2>3, <3>3, ReturnKept DEF j
    <2> QED
        BY <1>13, <2>2, <2>3 DEF Reselect, j
<1>14. CASE Render(p)
    <2>1. CASE Returns(p, "failed")
        BY <2>1, ReturnKept
    <2>2. CASE Goto(p, "switch") /\ UNCHANGED <<lock, job>>
        <3>1. pc[p] = "render" /\ UNCHANGED <<nodes, state, mem>> /\ Set(p, j)
            BY <1>3, <1>14, <2>2 DEF Render, stores
        <3> QED
            BY <1>1, <1>2, <1>4, <2>2, <3>1, StepKept DEF Labels
    <2> QED
        BY <1>14, <2>1, <2>2 DEF Render
<1>15. CASE Switch(p)
    <2>1. pc[p] = "switch" /\ UNCHANGED <<nodes, state, mem, lock>> /\ Set(p, j)
          /\ Goto(p, "commit")
        BY <1>3, <1>15 DEF Switch
    <2> QED
        BY <1>1, <1>2, <1>4, <2>1, StepKept DEF Labels
<1>16. CASE Commit(p)
    <2> DEFINE new == [selected |-> IF j.node = None THEN None ELSE j.node.id,
                       linked |-> j.node]
    <2>1. pc[p] = "commit" /\ UNCHANGED nodes
        BY <1>16 DEF Commit
    <2>2. CASE Returns(p, "failed")
        BY <2>2, ReturnKept
    <2>3. CASE state' = new /\ Returns(p, "ok")
        <3>1. ASSUME j.node \in nodes
              PROVE  Selects(state', nodes')
            <4>1. j.node # None /\ j.node.id # None
                BY <1>1, <3>1, SelectedIds, PresenceAssumption
            <4> QED
                BY <2>1, <2>3, <3>1, <4>1 DEF Selects, With
        <3> QED
            BY <1>4, <2>1, <2>3, <3>1, ReturnKept DEF j
    <2> QED
        BY <1>16, <2>2, <2>3 DEF Commit, j
<1> QED
    BY <1>6, <1>7, <1>8, <1>9, <1>10, <1>11, <1>12, <1>13, <1>14, <1>15, <1>16

LEMMA ActionKept ==
    ASSUME TypeInv, KeptInv, NEW p \in Procs,
           \/ Open(p) \/ Close(p) \/ Operate(p) \/ Fail(p) \/ WriteFile(p) \/ RemoveFile(p)
           \/ Fetch(p) \/ Fetched(p) \/ WriteNodes(p) \/ Warned(p) \/ Reselect(p)
           \/ Render(p) \/ Switch(p) \/ Commit(p) \/ Crash(p)
    PROVE  KeptInv' /\ \A q \in Procs : Survives(q)
<1>1. ASSUME NEW q \in Procs \ {p}
      PROVE  (Busy(q)' => lock' = q) /\ Kept(q)' /\ Survives(q)
    BY <1>1, OthersKept
<1>2. (Busy(p)' => lock' = p) /\ Kept(p)' /\ Survives(p)
    <2>1. pc' \in [Procs -> Labels]
        BY ActionTyped DEF TypeInv, TypeOK
    <2>2. CASE Open(p) \/ Close(p) \/ Crash(p)
        <3>1. pc'[p] \in {"out", "open"} /\ job'[p] = NoJob
            BY <2>2 DEF Open, Close, Crash, Goto, Set, TypeInv, TypeOK
        <3> QED
            BY <3>1 DEF NoJob, Busy, Kept, Survives
    <2>3. CASE Operate(p)
        BY <2>3, OperateKept
    <2> QED
        BY <2>2, <2>3, OperationKept
<1> QED
    BY <1>1, <1>2 DEF KeptInv, Exclusive

\* An operation that works from an up-to-date memory and succeeds leaves a selected node
\* that nodes.json has, if there was one, or has told that it is gone: refresh, removal,
\* selection and apply of application.rs, for any number of open interfaces, crashes and
\* failed writes.
THEOREM SelectionIsKept == Spec => SelectionSurvives
<1>1. Init => KeptInv
    BY DEF Init, KeptInv, Exclusive, Kept, Busy
<1>2. ASSUME TypeInv, KeptInv, [Next]_vars
      PROVE  KeptInv' /\ [\A p \in Procs : Survives(p)]_vars
    <2>1. CASE Next
        BY <1>2, <2>1, ActionKept DEF Next
    <2>2. CASE UNCHANGED vars
        <3>1. \A p \in Procs : Kept(p)'
            BY <1>2, <2>2 DEF vars, stores, KeptInv, Kept, Busy, Selects, With, HoldsSelected
        <3> QED
            BY <1>2, <2>2, <3>1 DEF vars, stores, KeptInv, Exclusive, Busy
    <2> QED
        BY <1>2, <2>1, <2>2
<1>3. [\A p \in Procs : Survives(p)]_vars =>
      [\A p \in Procs :
        Finishes(p) /\ job'[p].result = "ok" /\ job[p].synced /\ job[p].known =>
            Selects(state', nodes') \/ job[p].told]_vars
    BY DEF Survives
<1> QED
    BY <1>1, <1>2, <1>3, InitTyped, NextTyped, PTL DEF Spec, SelectionSurvives
================================================================================
