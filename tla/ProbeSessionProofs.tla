-------------------------- MODULE ProbeSessionProofs --------------------------
(***************************************************************************)
(* Proofs about ProbeSession, for every set of nodes, every limit on the   *)
(* probes and every number of sessions: the types, the limit of the        *)
(* semaphore, and that a session which ends by itself has delivered every  *)
(* outcome.                                                                *)
(***************************************************************************)
EXTENDS ProbeSession, FiniteSetTheorems, SequenceTheorems, TLAPS

\* The probes of session s that run now.
Probing(s) == {n \in Nodes : task[s][n] = "probing"}

\* The nodes whose outcomes are in the channel of session s.
Sent(s) == {channel[s][i] : i \in 1..Len(channel[s])}

\* The channels carry nodes.
ChannelOK == channel \in [Sessions -> Seq(Nodes)]

\* Every permit is free or held by a probe that runs.
PermitsOK ==
    \A s \in Sessions :
        /\ IsFiniteSet(Probing(s))
        /\ free[s] + Cardinality(Probing(s)) = Concurrency

\* The collector joins tasks that have ended only.
JoinedEnded ==
    \A s \in Sessions : \A n \in joined[s] : task[s][n] \in Outcomes

\* What the collector has joined for the session the loop holds has been received
\* or waits in the channel.
Delivered == session # 0 => joined[session] = received[session] \cup Sent(session)

\* The sender goes when every task is joined.
ClosedJoined == \A s \in Sessions : closed[s] => joined[s] = Nodes

\* A session that has not been started has no task, no outcome and no message.
Unstarted ==
    \A s \in Sessions :
        s > started => /\ \A n \in Nodes : task[s][n] = "none"
                       /\ joined[s] = {} /\ received[s] = {} /\ channel[s] = <<>>

Inv ==
    /\ TypeOK /\ ChannelOK /\ PermitsOK /\ JoinedEnded /\ Delivered
    /\ ClosedJoined /\ Unstarted /\ SessionComplete
--------------------------------------------------------------------------------
USE ProbeAssumption

\* Sending adds one outcome.
LEMMA AppendElements ==
    ASSUME NEW S, NEW q \in Seq(S), NEW e \in S
    PROVE  /\ Append(q, e) \in Seq(S)
           /\ {Append(q, e)[i] : i \in 1..Len(Append(q, e))} = {q[i] : i \in 1..Len(q)} \cup {e}
<1>1. /\ Append(q, e) \in Seq(S) /\ Len(Append(q, e)) = Len(q) + 1
      /\ \A i \in 1..Len(q) : Append(q, e)[i] = q[i]
      /\ Append(q, e)[Len(q) + 1] = e /\ Len(q) \in Nat
    OBVIOUS
<1> QED
    BY <1>1

\* Receiving takes the first outcome.
LEMMA TailElements ==
    ASSUME NEW S, NEW q \in Seq(S), q # <<>>
    PROVE  /\ Tail(q) \in Seq(S) /\ Head(q) \in S
           /\ {q[i] : i \in 1..Len(q)} = {Tail(q)[i] : i \in 1..Len(Tail(q))} \cup {Head(q)}
           /\ Head(q) \in {q[i] : i \in 1..Len(q)}
<1>1. /\ Tail(q) \in Seq(S) /\ Len(Tail(q)) = Len(q) - 1 /\ Len(q) \in Nat \ {0}
      /\ \A i \in 1..Len(q) - 1 : Tail(q)[i] = q[i + 1]
      /\ Head(q) = q[1] /\ Head(q) \in S
    BY HeadTailProperties, EmptySeq, LenProperties
<1>2. ASSUME NEW i \in 1..Len(q), i # 1
      PROVE  q[i] \in {Tail(q)[j] : j \in 1..Len(Tail(q))}
    <2>1. i - 1 \in 1..Len(Tail(q)) /\ Tail(q)[i - 1] = q[i]
        BY <1>1, <1>2
    <2> QED
        BY <2>1
<1>3. ASSUME NEW j \in 1..Len(Tail(q))
      PROVE  Tail(q)[j] \in {q[i] : i \in 1..Len(q)}
    <2>1. j + 1 \in 1..Len(q) /\ Tail(q)[j] = q[j + 1]
        BY <1>1
    <2> QED
        BY <2>1
<1> QED
    BY <1>1, <1>2, <1>3

\* The initial states.
LEMMA InitInv == Init => Inv
<1> SUFFICES ASSUME Init PROVE Inv
    OBVIOUS
<1>1. \A s \in Sessions : Probing(s) = {}
    BY DEF Init, Probing
<1>2. TypeOK /\ ChannelOK
    BY DEF Init, TypeOK, ChannelOK, TaskStates, RowStates, Sessions
<1>3. PermitsOK
    <2>1. IsFiniteSet({}) /\ Cardinality({}) = 0
        BY FS_EmptySet
    <2>2. \A s \in Sessions : free[s] = Concurrency
        BY DEF Init
    <2> QED
        BY <1>1, <2>1, <2>2 DEF PermitsOK
<1>4. JoinedEnded /\ Delivered /\ ClosedJoined /\ Unstarted /\ SessionComplete
    BY DEF Init, JoinedEnded, Delivered, ClosedJoined, Unstarted, SessionComplete
<1> QED
    BY <1>2, <1>3, <1>4 DEF Inv

\* A new list of probes takes the number of the next session, which has no task yet.
LEMMA ProbeInv == Inv /\ Probe => Inv'
<1> SUFFICES ASSUME Inv, Probe PROVE Inv'
    OBVIOUS
<1> USE DEF Sessions
<1> DEFINE waiting == [n \in Nodes |-> "waiting"]
<1>1. TypeOK' /\ ChannelOK'
    <2>1. cancelled' \in [Sessions -> BOOLEAN]
        BY DEF Inv, TypeOK, Probe, Cancelled
    <2>2. started' \in 0..MaxSessions /\ session' \in 0..started'
        BY DEF Inv, TypeOK, Probe
    <2>3. task' \in [Sessions -> [Nodes -> TaskStates]]
        <3>1. waiting \in [Nodes -> TaskStates]
            BY DEF TaskStates
        <3> QED
            BY <3>1 DEF Inv, TypeOK, Probe
    <2>4. rows' \in [RowIds -> RowStates]
        BY DEF Inv, TypeOK, Probe, RowStates, Outcomes
    <2> QED
        BY <2>1, <2>2, <2>3, <2>4 DEF Inv, TypeOK, ChannelOK, Probe
<1>2. \A s \in Sessions : Probing(s)' = Probing(s)
    <2> TAKE s \in Sessions
    <2>1. CASE task' = task
        BY <2>1 DEF Probing
    <2>2. CASE /\ task' = [task EXCEPT ![started + 1] = [n \in Nodes |-> "waiting"]]
               /\ started + 1 \in Sessions
        BY <2>2 DEF Probing, Inv, TypeOK, Unstarted
    <2> QED
        BY <2>1, <2>2 DEF Probe, Inv, TypeOK
<1>3. PermitsOK'
    BY <1>2 DEF Inv, PermitsOK, Probe
<1>4. JoinedEnded'
    <2>1. \A s \in Sessions : joined[s] # {} => s <= started
        BY DEF Inv, Unstarted, TypeOK
    <2>2. \A s \in Sessions : s <= started => task'[s] = task[s]
        BY DEF Inv, TypeOK, Probe
    <2> QED
        BY <2>1, <2>2 DEF Inv, JoinedEnded, Probe
<1>6. Unstarted'
    <2>1. \A s \in Sessions : s > started' => s > started /\ task'[s] = task[s]
        BY DEF Inv, TypeOK, Probe
    <2> QED
        BY <2>1 DEF Inv, Unstarted, Probe
<1>7. ClosedJoined' /\ SessionComplete'
    BY DEF Inv, ClosedJoined, SessionComplete, Probe
<1>5. Delivered'
    BY DEF Inv, TypeOK, Delivered, Unstarted, Sent, Probe
<1> QED
    BY <1>1, <1>3, <1>4, <1>5, <1>6, <1>7 DEF Inv

\* Esc lets the session go.
LEMMA StopInv == Inv /\ Stop => Inv'
<1> SUFFICES ASSUME Inv, Stop PROVE Inv'
    OBVIOUS
<1>1. TypeOK' /\ ChannelOK'
    <2>1. cancelled' \in [Sessions -> BOOLEAN] /\ rows' \in [RowIds -> RowStates]
        BY DEF Inv, TypeOK, Stop, Cancelled, RowStates, Outcomes
    <2>2. session' \in 0..started'
        BY DEF Inv, TypeOK, Stop
    <2> QED
        BY <2>1, <2>2 DEF Inv, TypeOK, ChannelOK, Stop
<1>2. PermitsOK'
    BY DEF Inv, PermitsOK, Probing, Stop
<1>3. /\ JoinedEnded' /\ Delivered' /\ ClosedJoined' /\ Unstarted'
      /\ SessionComplete'
    BY DEF Inv, JoinedEnded, Delivered, ClosedJoined, Unstarted, SessionComplete, Stop
<1> QED
    BY <1>1, <1>2, <1>3 DEF Inv

\* An outcome goes from the channel to the row.
LEMMA ReceiveInv == Inv /\ Receive => Inv'
<1> SUFFICES ASSUME Inv, Receive PROVE Inv'
    OBVIOUS
<1> DEFINE n == Head(channel[session])
<1>1. session \in Sessions /\ channel[session] \in Seq(Nodes) /\ channel[session] # <<>>
    BY DEF Inv, TypeOK, ChannelOK, Sessions, Receive
<1>2. /\ Tail(channel[session]) \in Seq(Nodes) /\ n \in Nodes /\ n \in Sent(session)
      /\ Sent(session) = {Tail(channel[session])[i] : i \in 1..Len(Tail(channel[session]))}
                            \cup {n}
    BY <1>1, TailElements DEF Sent
<1>3. task[session][n] \in Outcomes
    BY <1>1, <1>2 DEF Inv, JoinedEnded, Delivered, Receive
<1>4. TypeOK' /\ ChannelOK'
    BY <1>1, <1>2, <1>3 DEF Inv, TypeOK, ChannelOK, Receive, RowStates
<1>5. Delivered'
    <2>1. /\ received'[session] = received[session] \cup {n} /\ joined' = joined
          /\ channel'[session] = Tail(channel[session]) /\ session' = session
        BY <1>1 DEF Inv, TypeOK, ChannelOK, Receive
    <2>2. Sent(session)' = {Tail(channel[session])[i] : i \in 1..Len(Tail(channel[session]))}
        BY <2>1 DEF Sent
    <2> QED
        BY <1>2, <2>1, <2>2 DEF Inv, Delivered, Receive
<1>6. PermitsOK' /\ JoinedEnded' /\ ClosedJoined'
    BY DEF Inv, PermitsOK, Probing, JoinedEnded, ClosedJoined, Receive
<1>7. Unstarted'
    <2>1. session <= started /\ started \in Nat /\ session \in Nat
        BY DEF Inv, TypeOK, Receive
    <2> QED
        BY <2>1 DEF Inv, Unstarted, TypeOK, ChannelOK, Receive, Sessions
<1>8. SessionComplete'
    BY <1>1, <1>2 DEF Inv, SessionComplete, TypeOK, Receive
<1> QED
    BY <1>4, <1>5, <1>6, <1>7, <1>8 DEF Inv

\* The loop lets a session go when the channel is closed and empty.
LEMMA SessionOverInv == Inv /\ SessionOver => Inv'
<1> SUFFICES ASSUME Inv, SessionOver PROVE Inv'
    OBVIOUS
<1>1. session \in Sessions /\ closed[session] /\ channel[session] = <<>>
    BY DEF Inv, TypeOK, Sessions, SessionOver
<1>2. received[session] = Nodes
    <2>1. Sent(session) = {}
        BY <1>1 DEF Sent
    <2> QED
        BY <1>1, <2>1 DEF Inv, Delivered, ClosedJoined, TypeOK, SessionOver
<1>3. TypeOK' /\ ChannelOK'
    BY <1>1 DEF Inv, TypeOK, ChannelOK, SessionOver
<1>4. PermitsOK' /\ JoinedEnded' /\ Delivered' /\ ClosedJoined' /\ Unstarted'
    BY DEF Inv, PermitsOK, Probing, JoinedEnded, Delivered, ClosedJoined, Unstarted, SessionOver
<1>5. SessionComplete'
    BY <1>2 DEF Inv, SessionComplete, SessionOver
<1> QED
    BY <1>3, <1>4, <1>5 DEF Inv

\* A task that was not started is not waiting, nor has it ended.
LEMMA StartedTask ==
    ASSUME Inv, NEW s \in Sessions, NEW n \in Nodes, task[s][n] # "none"
    PROVE  s <= started
BY DEF Inv, Unstarted, TypeOK, Sessions

\* A task gets a permit.
LEMMA BeginInv ==
    ASSUME Inv, NEW s \in Sessions, NEW n \in Nodes, Begin(s, n)
    PROVE  Inv'
<1>1. task[s][n] = "waiting" /\ n \notin Probing(s) /\ n \notin joined[s] /\ s <= started
    BY StartedTask DEF Begin, Probing, Inv, JoinedEnded, Outcomes
<1>2. IsFiniteSet(Probing(s)) /\ free[s] + Cardinality(Probing(s)) = Concurrency
    BY DEF Inv, PermitsOK
<1>3. \A r \in Sessions : r # s => Probing(r)' = Probing(r) /\ free'[r] = free[r]
    BY DEF Inv, TypeOK, Begin, Probing
<1>4. PermitsOK' /\ free'[s] \in 0..Concurrency
    <2>1. CASE cancelled[s]
        <3>1. Probing(s)' = Probing(s) /\ free' = free
            BY <1>1, <2>1 DEF Begin, Probing, Inv, TypeOK
        <3> QED
            BY <1>3, <3>1 DEF Inv, PermitsOK, TypeOK
    <2>2. CASE ~cancelled[s]
        <3>1. Probing(s)' = Probing(s) \cup {n}
            BY <2>2 DEF Begin, Probing, Inv, TypeOK
        <3>2. free'[s] = free[s] - 1 /\ free'[s] \in 0..Concurrency
            BY <2>2 DEF Begin, Inv, TypeOK
        <3>3. IsFiniteSet(Probing(s)') /\ Cardinality(Probing(s)') = Cardinality(Probing(s)) + 1
            BY <1>1, <1>2, <3>1, FS_AddElement
        <3>4. free'[s] + Cardinality(Probing(s)') = Concurrency
            BY <1>2, <3>2, <3>3, FS_CardinalityType DEF Inv, TypeOK
        <3> QED
            BY <1>3, <3>2, <3>3, <3>4 DEF Inv, PermitsOK
    <2> QED
        BY <2>1, <2>2
<1>5. TypeOK' /\ ChannelOK'
    <2>1. task' \in [Sessions -> [Nodes -> TaskStates]]
        <3>1. \E t \in TaskStates : task' = [task EXCEPT ![s][n] = t]
            BY DEF Begin, TaskStates, Outcomes
        <3> QED
            BY <3>1 DEF Inv, TypeOK
    <2>2. free' \in [Sessions -> 0..Concurrency]
        BY <1>4 DEF Inv, TypeOK, Begin
    <2> QED
        BY <2>1, <2>2 DEF Inv, TypeOK, ChannelOK, Begin
<1>6. JoinedEnded' /\ Delivered' /\ ClosedJoined' /\ SessionComplete'
    <2>1. joined' = joined /\ \A r \in Sessions : \A m \in joined[r] : task'[r][m] = task[r][m]
        BY <1>1 DEF Inv, TypeOK, Begin
    <2>2. JoinedEnded'
        BY <2>1 DEF Inv, JoinedEnded
    <2> QED
        BY <2>2 DEF Inv, Delivered, Sent, ClosedJoined, SessionComplete, Begin
<1>7. Unstarted'
    BY <1>1 DEF Inv, TypeOK, Unstarted, Begin, Sessions
<1> QED
    BY <1>4, <1>5, <1>6, <1>7 DEF Inv

\* A probe ends and gives its permit back.
LEMMA FinishInv ==
    ASSUME Inv, NEW s \in Sessions, NEW n \in Nodes, Finish(s, n)
    PROVE  Inv'
<1>1. n \in Probing(s) /\ n \notin joined[s] /\ s <= started
    BY StartedTask DEF Finish, Probing, Inv, JoinedEnded, Outcomes
<1>2. IsFiniteSet(Probing(s)) /\ free[s] + Cardinality(Probing(s)) = Concurrency
    BY DEF Inv, PermitsOK
<1>3. \A r \in Sessions : r # s => Probing(r)' = Probing(r) /\ free'[r] = free[r]
    BY DEF Inv, TypeOK, Finish, Probing
<1>4. PermitsOK' /\ free'[s] \in 0..Concurrency
    <2>1. Probing(s)' = Probing(s) \ {n} /\ free'[s] = free[s] + 1
        BY DEF Finish, Probing, Inv, TypeOK
    <2>2. /\ IsFiniteSet(Probing(s)')
          /\ Cardinality(Probing(s)') = Cardinality(Probing(s)) - 1
          /\ Cardinality(Probing(s)') \in Nat
        BY <1>1, <1>2, <2>1, FS_RemoveElement, FS_CardinalityType
    <2>3. free'[s] + Cardinality(Probing(s)') = Concurrency /\ free[s] \in Nat
        BY <1>2, <2>1, <2>2, FS_CardinalityType DEF Inv, TypeOK
    <2> QED
        BY <1>3, <2>1, <2>2, <2>3 DEF Inv, PermitsOK
<1>5. TypeOK' /\ ChannelOK'
    BY <1>4 DEF Inv, TypeOK, ChannelOK, Finish, TaskStates, Outcomes
<1>6. JoinedEnded' /\ Delivered' /\ ClosedJoined' /\ SessionComplete'
    BY <1>1 DEF Inv, TypeOK, JoinedEnded, Delivered, Sent, ClosedJoined, SessionComplete, Finish
<1>7. Unstarted'
    BY <1>1 DEF Inv, TypeOK, Unstarted, Finish, Sessions
<1> QED
    BY <1>4, <1>5, <1>6, <1>7 DEF Inv

\* The collector joins a task and sends its outcome, if there is a receiver.
LEMMA JoinInv ==
    ASSUME Inv, NEW s \in Sessions, NEW n \in Nodes, Join(s, n)
    PROVE  Inv'
<1>1. task[s][n] \in Outcomes /\ s <= started
    BY StartedTask DEF Join, Outcomes
<1>2. channel[s] \in Seq(Nodes)
    BY DEF Inv, ChannelOK
<1>3. TypeOK' /\ ChannelOK'
    BY <1>2, AppendElements DEF Inv, TypeOK, ChannelOK, Join
<1>4. Delivered'
    <2>1. CASE s = session
        <3>1. channel'[s] = Append(channel[s], n) /\ joined'[s] = joined[s] \cup {n}
            BY <2>1 DEF Inv, TypeOK, ChannelOK, Join
        <3>2. Sent(s)' = Sent(s) \cup {n}
            BY <1>2, <3>1, AppendElements DEF Sent
        <3> QED
            BY <2>1, <3>1, <3>2 DEF Inv, Delivered, Join
    <2>2. CASE s # session
        BY <2>2 DEF Inv, TypeOK, Delivered, Sent, Join
    <2> QED
        BY <2>1, <2>2
<1>5. PermitsOK' /\ SessionComplete'
    BY DEF Inv, PermitsOK, Probing, SessionComplete, Join
<1>6. JoinedEnded' /\ ClosedJoined'
    BY <1>1 DEF Inv, TypeOK, JoinedEnded, ClosedJoined, Join
<1>7. Unstarted'
    <2>1. \A r \in Sessions :
              r > started => r # s /\ joined'[r] = joined[r] /\ channel'[r] = channel[r]
        BY <1>1, <1>2 DEF Inv, TypeOK, ChannelOK, Join, Sessions
    <2> QED
        BY <2>1 DEF Inv, Unstarted, Join
<1> QED
    BY <1>3, <1>4, <1>5, <1>6, <1>7 DEF Inv

\* The collector returns.
LEMMA CloseInv ==
    ASSUME Inv, NEW s \in Sessions, Close(s)
    PROVE  Inv'
<1>1. TypeOK' /\ ChannelOK' /\ ClosedJoined'
    BY DEF Inv, TypeOK, ChannelOK, ClosedJoined, Close
<1>2. PermitsOK' /\ JoinedEnded' /\ Delivered' /\ Unstarted' /\ SessionComplete'
    BY DEF Inv, PermitsOK, Probing, JoinedEnded, Delivered, Sent, Unstarted, SessionComplete,
           Close
<1> QED
    BY <1>1, <1>2 DEF Inv

\* No step changes anything.
LEMMA StutterInv == Inv /\ UNCHANGED vars => Inv'
<1> SUFFICES ASSUME Inv, UNCHANGED vars PROVE Inv'
    OBVIOUS
<1>1. TypeOK' /\ ChannelOK'
    BY DEF Inv, TypeOK, ChannelOK, vars
<1>2. PermitsOK' /\ JoinedEnded' /\ Delivered'
    BY DEF Inv, PermitsOK, Probing, JoinedEnded, Delivered, Sent, vars
<1>3. ClosedJoined' /\ Unstarted' /\ SessionComplete'
    BY DEF Inv, ClosedJoined, Unstarted, SessionComplete, vars
<1> QED
    BY <1>1, <1>2, <1>3 DEF Inv

\* The invariant holds in every reachable state.
THEOREM InvHolds == Spec => []Inv
<1>1. Inv /\ [Next]_vars => Inv'
    <2> SUFFICES ASSUME Inv, [Next]_vars PROVE Inv'
        OBVIOUS
    <2>1. CASE Probe
        BY <2>1, ProbeInv
    <2>2. CASE Stop
        BY <2>2, StopInv
    <2>3. CASE Receive
        BY <2>3, ReceiveInv
    <2>4. CASE SessionOver
        BY <2>4, SessionOverInv
    <2>5. ASSUME NEW s \in Sessions, Close(s) PROVE Inv'
        BY <2>5, CloseInv
    <2>6. ASSUME NEW s \in Sessions, NEW n \in Nodes, Begin(s, n) PROVE Inv'
        BY <2>6, BeginInv
    <2>7. ASSUME NEW s \in Sessions, NEW n \in Nodes, Finish(s, n) PROVE Inv'
        BY <2>7, FinishInv
    <2>8. ASSUME NEW s \in Sessions, NEW n \in Nodes, Join(s, n) PROVE Inv'
        BY <2>8, JoinInv
    <2>9. CASE UNCHANGED vars
        BY <2>9, StutterInv
    <2> QED
        BY <2>1, <2>2, <2>3, <2>4, <2>5, <2>6, <2>7, <2>8, <2>9 DEF Next, Tasks
<1> QED
    BY InitInv, <1>1, PTL DEF Spec

\* Every reachable state has the types: a row takes what the channel carries for an
\* outcome, and only tasks that have ended are joined and sent.
THEOREM TypesHold == Spec => []TypeOK
<1>1. Inv => TypeOK
    BY DEF Inv
<1> QED
    BY InvHolds, <1>1, PTL

\* No session runs more probes at a time than its semaphore has permits, also one that
\* was cancelled and runs on beside the next.
THEOREM ProbeLimitHolds == Spec => []ProbeLimit
<1>1. Inv => ProbeLimit
    <2> SUFFICES ASSUME Inv, NEW s \in Sessions
                 PROVE  Cardinality(Probing(s)) <= Concurrency
        BY DEF ProbeLimit, Probing
    <2>1. free[s] \in Nat /\ Cardinality(Probing(s)) \in Nat
        BY FS_CardinalityType DEF Inv, TypeOK, PermitsOK
    <2> QED
        BY <2>1 DEF Inv, PermitsOK
<1> QED
    BY InvHolds, <1>1, PTL

\* A session the event loop lets go as finished has delivered the outcome of every
\* node, whenever the last outcome and the closing of the channel fall between its
\* try_recv and its test for the end.
THEOREM SessionCompleteHolds == Spec => []SessionComplete
<1>1. Inv => SessionComplete
    BY DEF Inv
<1> QED
    BY InvHolds, <1>1, PTL
================================================================================
