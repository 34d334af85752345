----------------------------- MODULE ProbeSession -----------------------------
(***************************************************************************)
(* Latency probes in the terminal interface: probe_all_streaming           *)
(* (xray-manager-core/src/probe.rs) runs one task per node behind a        *)
(* semaphore and forwards outcomes through a channel; the event loop       *)
(* (xrayctl/src/tui.rs) drains the channel before each draw, drops the     *)
(* session when it is over, and cancels it on Esc, `r` and `q`.            *)
(*                                                                         *)
(* Tasks of a session that was cancelled run on beside those of the next   *)
(* one, so sessions are numbered.  Sorting, filtering and the cursor are   *)
(* left out.                                                               *)
(***************************************************************************)
EXTENDS Integers, Sequences, FiniteSets

CONSTANTS
    Nodes,        \* nodes of nodes.json, by their full id
    Concurrency,  \* menu.probe_concurrency, at least 1
    MaxSessions   \* bound on the sessions one interface starts

ASSUME ProbeAssumption ==
    /\ Concurrency \in Nat \ {0}
    /\ MaxSessions \in Nat

VARIABLES
    session,    \* the session the event loop holds, 0 for none
    started,    \* sessions started so far
    cancelled,  \* the AtomicBool of each session
    task,       \* of each session and node: waiting, probing, or its outcome
    free,       \* permits of each session's semaphore
    joined,     \* tasks of each session that the collector has joined
    channel,    \* outcomes sent and not received
    closed,     \* the sender is dropped: the collector has returned
    received,   \* outcomes the event loop has taken from each session
    rows,       \* probe state of each row; rows carry the short id
    over        \* sessions that ended by themselves

vars == <<session, started, cancelled, task, free, joined, channel, closed,
          received, rows, over>>

Sessions == 1..MaxSessions
Outcomes == {"succeeded", "failed", "cancelled"}
TaskStates == {"none", "waiting", "probing"} \cup Outcomes
RowStates == {"pending", "running"} \cup Outcomes

\* NodeId::short: the first 12 characters of a longer id, so never a full id.
Short(n) == <<n>>
RowIds == {Short(n) : n \in Nodes}

\* probe_on_open is the parameter of the initial state: the rows are marked before
\* the session is started.
Init ==
    /\ started = 0 /\ session = 0
    /\ cancelled = [s \in Sessions |-> FALSE]
    /\ task = [s \in Sessions |-> [n \in Nodes |-> "none"]]
    /\ free = [s \in Sessions |-> Concurrency]
    /\ joined = [s \in Sessions |-> {}]
    /\ channel = [s \in Sessions |-> <<>>]
    /\ closed = [s \in Sessions |-> FALSE]
    /\ received = [s \in Sessions |-> {}]
    /\ \E state \in {"pending", "running"} : rows = [id \in RowIds |-> state]
    /\ over = {}
--------------------------------------------------------------------------------
(* The event loop.                                                         *)

\* Esc and `r` set the flag and drop the receiver.
Cancelled == IF session = 0 THEN cancelled ELSE [cancelled EXCEPT ![session] = TRUE]

\* `r`, or the start with probe_on_open: start_node_probes may fail to read the
\* nodes; the key then marks the rows failed, the start leaves them running.
Probe ==
    /\ started < MaxSessions
    /\ cancelled' = Cancelled
    /\ \/ /\ session' = started + 1
          /\ started' = started + 1
          /\ task' = [task EXCEPT ![started + 1] = [n \in Nodes |-> "waiting"]]
          /\ rows' = [id \in RowIds |-> "running"]
       \/ /\ session' = 0
          /\ rows' = [id \in RowIds |-> "failed"]
          /\ UNCHANGED <<started, task>>
    /\ UNCHANGED <<free, joined, channel, closed, received, over>>

\* Esc.
Stop ==
    /\ session # 0
    /\ session' = 0
    /\ cancelled' = Cancelled
    /\ rows' = [id \in RowIds |-> IF rows[id] \in {"pending", "running"}
                                  THEN "cancelled" ELSE rows[id]]
    /\ UNCHANGED <<started, task, free, joined, channel, closed, received, over>>

\* try_recv and apply_probe_result: the row whose id equals that of the outcome.
Receive ==
    /\ session # 0 /\ channel[session] # <<>>
    /\ LET n == Head(channel[session])
       IN /\ received' = [received EXCEPT ![session] = @ \cup {n}]
          /\ rows' = [id \in RowIds |-> IF id = n THEN task[session][n] ELSE rows[id]]
    /\ channel' = [channel EXCEPT ![session] = Tail(@)]
    /\ UNCHANGED <<session, started, cancelled, task, free, joined, closed, over>>

\* Mutation: the loop drops the session as soon as the channel is closed.
SessionOverWhenClosed ==
    /\ session # 0 /\ closed[session]
    /\ over' = over \cup {session}
    /\ session' = 0
    /\ UNCHANGED <<started, cancelled, task, free, joined, channel, closed,
                   received, rows>>

\* The channel is closed and empty.
SessionOver ==
    /\ session # 0 /\ closed[session] /\ channel[session] = <<>>
    /\ over' = over \cup {session}
    /\ session' = 0
    /\ UNCHANGED <<started, cancelled, task, free, joined, channel, closed,
                   received, rows>>
--------------------------------------------------------------------------------
(* The tasks of session s, and the collector that joins them.              *)

\* Mutation: `let _ = permit` drops the permit before the probe.
BeginWithoutPermit(s, n) ==
    /\ task[s][n] = "waiting" /\ free[s] > 0
    /\ task' = [task EXCEPT ![s][n] = IF cancelled[s] THEN "cancelled" ELSE "probing"]
    /\ UNCHANGED <<session, started, cancelled, free, joined, channel, closed,
                   received, rows, over>>

\* A task gets its permit and looks at the flag; a cancelled one gives the permit
\* back at once.
Begin(s, n) ==
    /\ task[s][n] = "waiting" /\ free[s] > 0
    /\ IF cancelled[s]
       THEN task' = [task EXCEPT ![s][n] = "cancelled"] /\ UNCHANGED free
       ELSE task' = [task EXCEPT ![s][n] = "probing"] /\ free' = [free EXCEPT ![s] = @ - 1]
    /\ UNCHANGED <<session, started, cancelled, joined, channel, closed, received,
                   rows, over>>

\* Mutation: an error of the probe returns without the permit.
FinishKeepsPermit(s, n) ==
    /\ task[s][n] = "probing"
    /\ \/ /\ task' = [task EXCEPT ![s][n] = "succeeded"]
          /\ free' = [free EXCEPT ![s] = @ + 1]
       \/ task' = [task EXCEPT ![s][n] = "failed"] /\ UNCHANGED free
    /\ UNCHANGED <<session, started, cancelled, joined, channel, closed, received,
                   rows, over>>

\* runner.probe returns; it is bounded by time limits.
Finish(s, n) ==
    /\ task[s][n] = "probing"
    /\ \E outcome \in {"succeeded", "failed"} : task' = [task EXCEPT ![s][n] = outcome]
    /\ free' = [free EXCEPT ![s] = @ + 1]
    /\ UNCHANGED <<session, started, cancelled, joined, channel, closed, received,
                   rows, over>>

\* join_next, and a send that fails silently when the receiver is gone.
Join(s, n) ==
    /\ task[s][n] \in Outcomes /\ n \notin joined[s]
    /\ joined' = [joined EXCEPT ![s] = @ \cup {n}]
    /\ channel' = IF s = session THEN [channel EXCEPT ![s] = Append(@, n)] ELSE channel
    /\ UNCHANGED <<session, started, cancelled, task, free, closed, received, rows,
                   over>>

\* All tasks are joined: probe_all_streaming returns and drops the sender.
Close(s) ==
    /\ s <= started /\ joined[s] = Nodes /\ ~closed[s]
    /\ closed' = [closed EXCEPT ![s] = TRUE]
    /\ UNCHANGED <<session, started, cancelled, task, free, joined, channel,
                   received, rows, over>>
--------------------------------------------------------------------------------
Tasks(s) == Close(s) \/ \E n \in Nodes : Begin(s, n) \/ Finish(s, n) \/ Join(s, n)

Next ==
    \/ Probe \/ Stop \/ Receive \/ SessionOver
    \/ \E s \in Sessions : Tasks(s)

Spec == Init /\ [][Next]_vars

\* The runtime runs every task, the semaphore is fair, and the loop comes round
\* every 100 milliseconds.
FairSpec ==
    /\ Spec
    /\ WF_vars(Receive) /\ WF_vars(SessionOver)
    /\ \A s \in Sessions : WF_vars(Tasks(s))
--------------------------------------------------------------------------------
(* Properties.                                                             *)

TypeOK ==
    /\ started \in 0..MaxSessions /\ session \in 0..started
    /\ cancelled \in [Sessions -> BOOLEAN] /\ closed \in [Sessions -> BOOLEAN]
    /\ task \in [Sessions -> [Nodes -> TaskStates]]
    /\ free \in [Sessions -> 0..Concurrency]
    /\ joined \in [Sessions -> SUBSET Nodes] /\ received \in [Sessions -> SUBSET Nodes]
    /\ rows \in [RowIds -> RowStates]
    /\ over \subseteq Sessions

\* A session never runs more probes at a time than probe_concurrency.
ProbeLimit ==
    \A s \in Sessions :
        Cardinality({n \in Nodes : task[s][n] = "probing"}) <= Concurrency

\* A session that the event loop lets go as finished has delivered the outcome of
\* every node: the last outcome and the closing of the channel may fall between
\* the loop's try_recv and its test for the end.
SessionComplete == \A s \in over : received[s] = Nodes

\* Tasks of every session come to an end, also of one that was cancelled while
\* they waited for the semaphore, and the event loop lets a session go.
SessionsEnd == \A s \in Sessions : started >= s ~> closed[s] /\ session # s

\* When the loop has received the outcome of a node, the row of that node shows it.
RowsShowOutcomes ==
    session # 0 => \A n \in received[session] : rows[Short(n)] = task[session][n]
================================================================================
