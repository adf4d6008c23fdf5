------------------------- MODULE EventStreamProofs -------------------------
(***************************************************************************)
(* What clients hear of a session's turns, for any number of streams,      *)
(* turns, steps and crashes: a completion is durable before it is heard,   *)
(* and progress goes forward.  Neither is inductive.  TaskInv ties the one *)
(* task at work to the row and every task that has committed to what it    *)
(* committed; Heard says that nothing on its way to an open stream is      *)
(* ahead of the row, which is what the next announcement will be made of,  *)
(* but for a FAILED that could not be stored: no task is left then to      *)
(* announce anything, and a restart finds the queue and the streams gone.  *)
(***************************************************************************)
EXTENDS EventStream, TLAPS, SequenceTheorems

TypeOK ==
  /\ row \in Row
  /\ task \in [Turns -> TaskPCs]
  /\ bus \in Seq(Event)
  /\ sub \in [Subscribers -> Streams]

\* A task at work is the row's turn and finds the row running; one that has
\* committed its end still finds that end, or a later turn's row.
TaskOf(k) ==
  /\ task[k] \in {"ready", "working"} => row.turn = k /\ row.state \in Running
  /\ task[k] = "working" /\ row.state = "EXECUTING" => row.idx < row.plan
  /\ task[k] \in {"ready", "working", "done", "failed"} => up
  /\ task[k] = "done" => row.turn > k \/ (row.turn = k /\ row.state = "DONE")
  /\ task[k] = "failed" => \/ row.turn > k
                           \/ row.turn = k /\ row.state \in Running \cup {"FAILED"}

TaskInv ==
  /\ \A k \in Turns : TaskOf(k)
  /\ row.turn = 0 <=> row.state = "NONE"

\* An event of the row as it is; only steps are counted.
NowOf(r) == [state |-> r.state, turn |-> r.turn,
             idx |-> IF r.state = "EXECUTING" THEN r.idx ELSE 0]
Now == NowOf(row)
Counted(e) == e.state # "EXECUTING" => e.idx = 0

\* No event is ahead of the row, and none says DONE before the row does.
Behind(e, r) == e.turn <= r.turn /\ NotAfter(e, NowOf(r)) /\ Counted(e)
Durable(e, r) ==
  e.state = "DONE" => r.turn > e.turn \/ (r.turn = e.turn /\ r.state = "DONE")

\* A FAILED the row does not say, of a turn whose task is over.
Orphaned(e, r, t) ==
  /\ e.state = "FAILED" /\ Counted(e)
  /\ e.turn = r.turn /\ r.state \in Running /\ t[e.turn] = "over"
Heard(e, r, t) == Behind(e, r) \/ Orphaned(e, r, t)

TransitInv ==
  /\ \A i \in 1..Len(bus) : Heard(bus[i], row, task) /\ Durable(bus[i], row)
  /\ \A s \in Subscribers :
       /\ Durable(sub[s].hand, row) /\ Durable(sub[s].last, row)
       /\ Streaming(s) => Heard(sub[s].hand, row, task) /\ Heard(sub[s].last, row, task)
  /\ ~up => bus = <<>> /\ \A s \in Subscribers : ~Streaming(s)

\* The queue is in the order of the run, and what a stream has is not after it.
OrderInv ==
  /\ \A i, j \in 1..Len(bus) : i < j => NotAfter(bus[i], bus[j])
  /\ \A s \in Subscribers :
       /\ sub[s].pc = "holding" => NotAfter(sub[s].last, sub[s].hand)
       /\ sub[s].pc = "synthetic" => Ends(sub[s].hand)
       /\ sub[s].pc \in {"open", "holding"} =>
            \A i \in 1..Len(bus) : NotAfter(sub[s].last, bus[i]) /\ NotAfter(sub[s].hand, bus[i])

IInv == TypeOK /\ TaskInv /\ TransitInv /\ OrderInv

-----------------------------------------------------------------------------
Events == Event \cup {NoEvent}

LEMMA EventTypes ==
  ASSUME TypeOK
  PROVE  /\ row.state \in Running \cup Terminal \cup {"NONE"} /\ row.turn \in 0..MaxTurns
         /\ row.plan \in 0..MaxSteps /\ row.idx \in 0..MaxSteps
         /\ Len(bus) \in Nat /\ \A i \in 1..Len(bus) : bus[i] \in Event
         /\ \A s \in Subscribers : /\ sub[s] \in Streams
                                   /\ sub[s].hand \in Events /\ sub[s].last \in Events
BY ElementOfSeq DEF TypeOK, Row, Streams, Events

LEMMA FieldTypes ==
  ASSUME NEW e \in Events
  PROVE  /\ e.state \in Running \cup Terminal \cup {"NONE"}
         /\ e.turn \in Nat /\ e.idx \in Nat
         /\ e.turn = 0 <=> e = NoEvent
         /\ e.state = "NONE" <=> e = NoEvent
BY EventStreamAssumption DEF Events, Event, NoEvent, Turns, Running, Terminal

LEMMA Phases ==
  ASSUME NEW e \in Events
  PROVE  /\ Phase(e) \in 0..4
         /\ e.state = "NONE" => Phase(e) = 0
         /\ e.state = "PLANNING" => Phase(e) = 1
         /\ e.state = "EXECUTING" => Phase(e) = 2
         /\ e.state = "VERIFYING" => Phase(e) = 3
         /\ e.state \in Terminal => Phase(e) = 4
BY FieldTypes DEF Phase, Running, Terminal

\* What a task can announce is an event.
LEMMA NowIsEvent ==
  ASSUME TypeOK, TaskInv
  PROVE  /\ Now \in Events /\ (row.state # "NONE" => Now \in Event)
         /\ Now.turn = row.turn /\ Now.state = row.state
         /\ Now.idx = IF row.state = "EXECUTING" THEN row.idx ELSE 0
BY EventTypes, EventStreamAssumption
   DEF Now, NowOf, EventNow, Events, Event, NoEvent, Turns, TaskInv

-----------------------------------------------------------------------------
\* Tasks, row and queue keep their types, and each task what it committed.
LEMMA TaskInvHolds ==
  ASSUME TypeOK, TaskInv, [Next]_vars
  PROVE  TypeOK' /\ TaskInv'
<1> USE EventStreamAssumption
<1>1. ASSUME NEW k \in Turns, Start(k) PROVE TypeOK' /\ TaskInv'
  <2>1. row' \in Row /\ task' \in [Turns -> TaskPCs]
    BY <1>1, EventTypes DEF Start, Become, TypeOK, Row, TaskPCs, Turns, Running
  <2>2. UNCHANGED <<bus, sub>>
    BY <1>1 DEF Start
  <2>3. /\ row'.state = "PLANNING" /\ row'.turn = k /\ k = row.turn + 1 /\ row.turn \in Nat
        /\ row.state \notin Running
    BY <1>1, EventTypes DEF Start
  <2>4. task'[k] = "ready" /\ \A m \in Turns \ {k} : task'[m] = task[m]
    BY <1>1 DEF Start, Become, TypeOK
  <2>5. TaskOf(k)'
    BY <1>1, <2>3, <2>4 DEF Start, TaskOf, Running
  <2>6. \A m \in Turns \ {k} : TaskOf(m)'
    <3> TAKE m \in Turns \ {k}
    <3>1. task[m] \notin {"ready", "working"} /\ TaskOf(m) /\ m \in Nat
      BY <2>3 DEF TaskInv, TaskOf, Turns
    <3>2. task'[m] \in {"done", "failed"} => row'.turn > m
      BY <2>3, <2>4, <3>1 DEF TaskOf
    <3>3. up' = up
      BY <1>1 DEF Start
    <3> QED BY <2>4, <3>1, <3>2, <3>3 DEF TaskOf
  <2>7. TaskInv'
    BY <2>3, <2>5, <2>6 DEF TaskInv
  <2> QED BY <2>1, <2>2, <2>7 DEF TypeOK
<1>2. ASSUME NEW k \in Turns, Announce(k) PROVE TypeOK' /\ TaskInv'
  <2>1. task[k] = "ready" /\ row.turn = k /\ row.state \in Running /\ row' = row /\ sub' = sub
    BY <1>2 DEF Announce, TaskInv, TaskOf
  <2>2. bus' = Append(bus, Now) /\ Now \in Event
    BY <1>2, <2>1, NowIsEvent DEF Announce, Emit, Now, NowOf, EventNow, Running
  <2>3. task' \in [Turns -> TaskPCs] /\ bus' \in Seq(Event)
    BY <1>2, <2>2, AppendProperties DEF Announce, Become, TypeOK, TaskPCs
  <2>4. TaskInv'
    BY <1>2, <2>1 DEF Announce, Become, TypeOK, TaskInv, TaskOf
  <2> QED BY <2>1, <2>3, <2>4 DEF TypeOK
<1>3. ASSUME NEW k \in Turns, CommitPhase(k) PROVE TypeOK' /\ TaskInv'
  <2>1. task[k] = "working" /\ row.turn = k /\ UNCHANGED <<bus, sub>>
    BY <1>3 DEF CommitPhase, CommitPlan, CommitStep, CommitDone, TaskInv, TaskOf
  <2>2. row' \in Row
    <3>1. row.state = "EXECUTING" => row.idx < row.plan
      BY <2>1 DEF TaskInv, TaskOf
    <3>2. CASE row.state = "EXECUTING" /\ row' = [row EXCEPT !.idx = @ + 1]
      <4>1. row.idx + 1 \in 0..MaxSteps
        BY <3>1, <3>2, EventTypes
      <4> DEFINE i == row.idx + 1
      <4> HIDE DEF i
      <4>2. row' = [row EXCEPT !.idx = i] /\ i \in 0..MaxSteps
        BY <3>2, <4>1 DEF i
      <4> QED BY <4>2 DEF TypeOK, Row
    <3>3. CASE \E n \in 0..MaxSteps : row' = [row EXCEPT !.state = "EXECUTING", !.plan = n]
      BY <3>3 DEF TypeOK, Row, Running
    <3>4. CASE row' = [row EXCEPT !.state = "DONE"]
      BY <3>4 DEF TypeOK, Row, Terminal
    <3>5. \/ row.state = "EXECUTING" /\ row' = [row EXCEPT !.idx = @ + 1]
          \/ \E n \in 0..MaxSteps : row' = [row EXCEPT !.state = "EXECUTING", !.plan = n]
          \/ row' = [row EXCEPT !.state = "DONE"]
      BY <1>3 DEF CommitPhase, CommitPlan, CommitStep, CommitDone
    <3> QED BY <3>2, <3>3, <3>4, <3>5
  <2>3. task' \in [Turns -> TaskPCs]
    BY <1>3 DEF CommitPhase, CommitPlan, CommitStep, CommitDone, Become, TypeOK, TaskPCs
  <2>4. row'.turn = row.turn /\ row'.state # "NONE" /\ row.state # "NONE"
    BY <1>3, EventTypes DEF CommitPhase, CommitPlan, CommitStep, CommitDone, TypeOK, Row
  <2>5. TaskInv'
    BY <1>3, <2>1, <2>4, EventTypes
    DEF CommitPhase, CommitPlan, CommitStep, CommitDone, Become, TypeOK, Row, TaskInv, TaskOf, Running, Turns
  <2> QED BY <2>1, <2>2, <2>3, <2>5 DEF TypeOK
<1>4. ASSUME NEW k \in Turns, CommitVerifying(k) PROVE TypeOK' /\ TaskInv'
  BY <1>4, EventTypes DEF CommitVerifying, TypeOK, Row, TaskInv, TaskOf, Running, Turns
<1>5. ASSUME NEW k \in Turns, CommitFailed(k) PROVE TypeOK' /\ TaskInv'
  BY <1>5, EventTypes DEF CommitFailed, Become, TypeOK, Row, TaskPCs, TaskInv, TaskOf, Running, Terminal, Turns
<1>6. ASSUME NEW k \in Turns, EmitTerminal(k) PROVE TypeOK' /\ TaskInv'
  <2> DEFINE e == EventNow(IF task[k] = "done" THEN "DONE" ELSE "FAILED", k)
  <2>1. e \in Event
    BY DEF Event, EventNow, Terminal
  <2>2. task' \in [Turns -> TaskPCs] /\ bus' \in Seq(Event)
    BY <1>6, <2>1, AppendProperties DEF EmitTerminal, Emit, Become, TypeOK, TaskPCs
  <2>3. TaskInv' /\ UNCHANGED <<row, sub>>
    BY <1>6 DEF EmitTerminal, Become, TypeOK, TaskInv, TaskOf
  <2> QED BY <2>2, <2>3 DEF TypeOK
<1>7. ASSUME NEW s \in Subscribers, Connect(s) PROVE TypeOK' /\ TaskInv'
  <2>1. row.state \in Terminal => Now \in Event /\ EventNow(row.state, row.turn) = Now
    BY NowIsEvent DEF Terminal, Now, NowOf, EventNow
  <2>2. sub' \in [Subscribers -> Streams]
    <3> DEFINE h  == IF row.state \in Terminal THEN EventNow(row.state, row.turn) ELSE NoEvent
               pc == IF row.state \in Terminal THEN "synthetic" ELSE "open"
    <3> DEFINE new == [NoStream EXCEPT !.pc = pc, !.hand = h]
    <3>1. sub' = [sub EXCEPT ![s] = new]
      BY <1>7 DEF Connect
    <3>2. new \in Streams
      <4>1. pc \in {"open", "synthetic"} /\ h \in Event \cup {NoEvent} /\ row.turn \in 0..MaxTurns
        BY <2>1, EventTypes
      <4>2. NoStream \in Streams
        BY DEF NoStream, Streams
      <4> HIDE DEF pc, h
      <4> QED BY <4>1, <4>2 DEF Streams
    <3> HIDE DEF new
    <3> QED BY <3>1, <3>2 DEF TypeOK
  <2> QED BY <1>7, <2>2 DEF Connect, TypeOK, TaskInv, TaskOf
<1>8. ASSUME NEW s \in Subscribers, Take(s) PROVE TypeOK' /\ TaskInv'
  <2>1. bus' \in Seq(Event) /\ Head(bus) \in Event
    BY <1>8, HeadTailProperties DEF Take, TypeOK
  <2>2. sub' \in [Subscribers -> Streams]
    <3>1. [sub[s] EXCEPT !.pc = "holding", !.hand = Head(bus)] \in Streams
      BY <2>1 DEF TypeOK, Streams
    <3>2. sub' = [sub EXCEPT ![s] = [sub[s] EXCEPT !.pc = "holding", !.hand = Head(bus)]]
      BY <1>8 DEF Take, TypeOK
    <3> QED BY <3>1, <3>2 DEF TypeOK
  <2> QED BY <1>8, <2>1, <2>2 DEF Take, TypeOK, TaskInv, TaskOf
<1>9. ASSUME NEW s \in Subscribers, Deliver(s) \/ Disconnect(s) PROVE TypeOK' /\ TaskInv'
  <2>1. sub' \in [Subscribers -> Streams]
    <3>1. CASE Deliver(s)
      <4> DEFINE pc  == IF Ends(sub[s].hand) THEN "closed" ELSE "open"
                 new == [sub[s] EXCEPT !.pc = pc, !.last = sub[s].hand, !.hand = NoEvent]
      <4>1. sub' = [sub EXCEPT ![s] = new]
        BY <3>1 DEF Deliver, TypeOK
      <4>2. pc \in {"open", "closed"} /\ sub[s] \in Streams
        BY DEF TypeOK
      <4> HIDE DEF pc
      <4>3. new \in Streams
        BY <4>2 DEF Streams
      <4> QED BY <4>1, <4>3 DEF TypeOK
    <3>2. CASE Disconnect(s)
      BY <3>2, EventStreamAssumption DEF Disconnect, TypeOK, Streams, NoStream
    <3> QED BY <1>9, <3>1, <3>2
  <2> QED BY <1>9, <2>1 DEF Deliver, Disconnect, TypeOK, TaskInv, TaskOf
<1>10. ASSUME Crash PROVE TypeOK' /\ TaskInv'
  <2>1. sub' \in [Subscribers -> Streams] /\ task' \in [Turns -> TaskPCs]
    BY <1>10 DEF Crash, TypeOK, Streams, NoStream, TaskPCs
  <2>2. bus' \in Seq(Event) /\ row' = row
    BY <1>10 DEF Crash
  <2> QED BY <1>10, <2>1, <2>2 DEF Crash, TypeOK, TaskInv, TaskOf
<1>11. ASSUME Restart PROVE TypeOK' /\ TaskInv'
  <2>1. row.state \in Running => row.turn \in Turns
    BY EventTypes DEF TaskInv, Turns, Running
  <2> QED BY <1>11, <2>1 DEF Restart, Become, TypeOK, TaskInv, TaskOf, TaskPCs
<1>12. ASSUME UNCHANGED vars PROVE TypeOK' /\ TaskInv'
  BY <1>12 DEF vars, TypeOK, TaskInv, TaskOf
<1> QED
  BY <1>1, <1>2, <1>3, <1>4, <1>5, <1>6, <1>7, <1>8, <1>9, <1>10, <1>11, <1>12
  DEF Next, TaskStep, Stream

-----------------------------------------------------------------------------
\* The row goes forward: to a new turn, or within its turn, and never on from DONE.
RowAdvances ==
  \/ row' = row
  \/ row'.turn > row.turn
  \/ /\ row'.turn = row.turn /\ row.state \in Running
     /\ \/ Phase(Now) < Phase(Now')
        \/ Phase(Now) = Phase(Now') /\ Now.idx <= Now'.idx

LEMMA RowGoesForward == ASSUME TypeOK, TaskInv, [Next]_vars PROVE RowAdvances
<1>1. ASSUME NEW k \in Turns, Start(k) PROVE RowAdvances
  BY <1>1, EventTypes DEF Start, RowAdvances, Turns
<1>2. ASSUME NEW k \in Turns, CommitPhase(k) \/ CommitVerifying(k) \/ CommitFailed(k),
             row' # row
      PROVE  RowAdvances
  <2>1. row.state \in Running /\ row.turn = k
    BY <1>2 DEF CommitPhase, CommitPlan, CommitStep, CommitDone, CommitVerifying, CommitFailed, TaskInv, TaskOf
  <2>2. row'.turn = row.turn
    BY <1>2 DEF CommitPhase, CommitPlan, CommitStep, CommitDone, CommitVerifying, CommitFailed, TypeOK, Row
  <2>3. /\ row.state = "PLANNING" => row'.state \in {"EXECUTING", "FAILED"}
        /\ row.state = "EXECUTING" => \/ row'.state = "EXECUTING" /\ row'.idx = row.idx + 1
                                      \/ row'.state \in {"VERIFYING", "FAILED"}
        /\ row.state = "VERIFYING" => row'.state \in {"DONE", "FAILED"}
    <3>1. CASE CommitPhase(k)
      BY <2>1, <3>1 DEF CommitPhase, CommitPlan, CommitStep, CommitDone, TypeOK, Row, Running
    <3>2. CASE CommitVerifying(k) \/ CommitFailed(k)
      BY <1>2, <2>1, <3>2 DEF CommitVerifying, CommitFailed, TypeOK, Row, Running
    <3> QED BY <1>2, <3>1, <3>2
  <2>4. Phase(Now) < Phase(Now') \/ (Phase(Now) = Phase(Now') /\ Now.idx <= Now'.idx)
    <3>1. /\ Now.state = row.state /\ Now'.state = row'.state
          /\ Now.idx = IF row.state = "EXECUTING" THEN row.idx ELSE 0
          /\ Now'.idx = IF row'.state = "EXECUTING" THEN row'.idx ELSE 0
      BY DEF Now, NowOf, EventNow
    <3> QED BY <2>1, <2>3, <3>1, EventTypes DEF Phase, Running
  <2> QED BY <2>1, <2>2, <2>4 DEF RowAdvances
<1>3. ASSUME NEW k \in Turns, Announce(k) \/ EmitTerminal(k) PROVE RowAdvances
  BY <1>3 DEF Announce, EmitTerminal, RowAdvances
<1>4. ASSUME NEW s \in Subscribers, Connect(s) \/ Stream(s) \/ Disconnect(s) PROVE RowAdvances
  BY <1>4 DEF Connect, Stream, Take, Deliver, Disconnect, RowAdvances
<1>5. ASSUME Crash \/ Restart \/ row' = row \/ UNCHANGED vars PROVE RowAdvances
  BY <1>5 DEF Crash, Restart, vars, RowAdvances
<1> QED BY <1>1, <1>2, <1>3, <1>4, <1>5 DEF Next, TaskStep

\* What is behind the row stays behind it.
LEMMA StaysBehind ==
  ASSUME TypeOK, TaskInv, [Next]_vars, NEW e \in Events, Behind(e, row)
  PROVE  Behind(e, row')
<1>1. TypeOK' /\ TaskInv' /\ RowAdvances
  BY TaskInvHolds, RowGoesForward
<1>2. row.turn \in Nat /\ row'.turn \in Nat /\ e.turn \in Nat /\ e.idx \in Nat
  BY <1>1, FieldTypes, EventStreamAssumption DEF TypeOK, Row
<1>3. Now.turn = row.turn /\ Now'.turn = row'.turn /\ Now.idx \in Nat /\ Now'.idx \in Nat
  BY <1>1, EventStreamAssumption DEF Now, NowOf, EventNow, TypeOK, Row
<1>4. Phase(e) \in 0..4 /\ Phase(Now) \in 0..4 /\ Phase(Now') \in 0..4
  BY DEF Phase
<1>5. NotAfter(e, Now') /\ e.turn <= row'.turn
  <2>1. e.turn <= row.turn /\ NotAfter(e, Now)
    BY DEF Behind, Now
  <2>2. CASE row' = row
    <3>1. Now' = Now
      BY <2>2 DEF Now, NowOf, EventNow
    <3> QED BY <2>1, <2>2, <3>1
  <2>3. CASE row'.turn > row.turn
    BY <1>2, <1>3, <2>1, <2>3 DEF NotAfter
  <2>4. CASE row'.turn = row.turn /\ (\/ Phase(Now) < Phase(Now')
                                      \/ Phase(Now) = Phase(Now') /\ Now.idx <= Now'.idx)
    BY <1>2, <1>3, <1>4, <2>1, <2>4 DEF NotAfter
  <2> QED BY <1>1, <2>2, <2>3, <2>4 DEF RowAdvances
<1> QED BY <1>5 DEF Behind, Now, Counted

\* A turn that is done stays done, or gives way to a later one.
LEMMA StaysDurable ==
  ASSUME TypeOK, TaskInv, [Next]_vars, NEW e \in Events, Durable(e, row)
  PROVE  Durable(e, row')
<1>1. TypeOK' /\ RowAdvances
  BY TaskInvHolds, RowGoesForward
<1>2. row.turn \in Nat /\ row'.turn \in Nat /\ e.turn \in Nat
  BY <1>1, FieldTypes, EventStreamAssumption DEF TypeOK, Row
<1> QED BY <1>1, <1>2 DEF RowAdvances, Durable, Running

\* While the process lives no step makes up for a FAILED that was not stored.
LEMMA StaysHeard ==
  ASSUME TypeOK, TaskInv, [Next]_vars, up, up', NEW e \in Events, Heard(e, row, task)
  PROVE  Heard(e, row', task')
<1>1. CASE Behind(e, row)
  BY <1>1, StaysBehind DEF Heard
<1>2. CASE Orphaned(e, row, task)
  <2>1. e.turn = row.turn /\ row.state \in Running /\ task[e.turn] = "over"
    BY <1>2 DEF Orphaned
  <2>2. e.turn \in Turns
    BY <2>1, EventTypes DEF TaskInv, Turns, Running
  <2>3. row' = row /\ task'[e.turn] = "over"
    <3>1. ASSUME NEW k \in Turns, Start(k) \/ TaskStep(k) PROVE row' = row /\ task'[e.turn] = "over"
      <4>1. ~Start(k)
        BY <2>1 DEF Start
      <4>2. task[k] \notin {"ready", "working"}
        BY <2>1 DEF TaskInv, TaskOf
      <4>3. EmitTerminal(k)
        BY <3>1, <4>1, <4>2 DEF TaskStep, Announce, CommitPhase, CommitVerifying, CommitFailed
      <4> QED BY <2>1, <2>2, <4>3 DEF EmitTerminal, Become, TypeOK
    <3>2. CASE \E s \in Subscribers : Connect(s) \/ Stream(s) \/ Disconnect(s)
      BY <2>1, <3>2 DEF Connect, Stream, Take, Deliver, Disconnect
    <3>3. CASE Crash \/ Restart \/ UNCHANGED vars
      BY <2>1, <3>3 DEF Crash, Restart, vars
    <3> QED BY <3>1, <3>2, <3>3 DEF Next
  <2> QED BY <1>2, <2>3 DEF Heard, Orphaned
<1> QED BY <1>1, <1>2 DEF Heard

\* What a task emits is no earlier than anything that is behind the row.
LEMMA EmittedIsLatest ==
  ASSUME TypeOK, TaskInv, NEW k \in Turns,
         Announce(k) \/ EmitTerminal(k)
  PROVE  \E n \in Event :
           /\ bus' = Append(bus, n) /\ row' = row /\ sub' = sub
           /\ Heard(n, row', task') /\ Durable(n, row)
           /\ \A e \in Events : Heard(e, row, task) => NotAfter(e, n)
<1>1. CASE Announce(k)
  <2>1. row.turn = k /\ row.state \in Running /\ row' = row /\ sub' = sub
    BY <1>1 DEF Announce, TaskInv, TaskOf
  <2>2. Now \in Event /\ Now.turn = row.turn /\ Now.state = row.state
        /\ Now.idx = IF row.state = "EXECUTING" THEN row.idx ELSE 0
    BY <2>1, NowIsEvent DEF Running
  <2>3. bus' = Append(bus, Now)
    BY <1>1, <2>1 DEF Announce, Emit, Now, NowOf, EventNow
  <2>4. Behind(Now, row)
    <3>1. row.turn <= row.turn /\ Now.idx <= Now.idx
      BY <2>2, EventTypes
    <3> QED BY <2>1, <2>2, <3>1 DEF Behind, Now, NotAfter, Counted, Running
  <2>5. Heard(Now, row', task') /\ Durable(Now, row)
    BY <2>1, <2>2, <2>4 DEF Heard, Durable, Running, Now
  <2>6. ASSUME NEW e \in Events, Heard(e, row, task) PROVE NotAfter(e, Now)
    <3>1. ~Orphaned(e, row, task)
      BY <1>1, <2>1 DEF Announce, Orphaned
    <3> QED BY <2>6, <3>1 DEF Heard, Behind, Now
  <2> QED BY <2>1, <2>2, <2>3, <2>5, <2>6
<1>2. CASE EmitTerminal(k)
  <2> DEFINE state == IF task[k] = "done" THEN "DONE" ELSE "FAILED"
             n == EventNow(state, k)
  <2>1. /\ n \in Event /\ n.state = state /\ n.turn = k /\ n.idx = 0 /\ state \in Terminal
    BY EventStreamAssumption DEF EventNow, Event, Terminal
  <2>2. bus' = Append(bus, n) /\ row' = row /\ sub' = sub
    BY <1>2 DEF EmitTerminal, Emit
  <2>3. \/ row.turn > k
        \/ row.turn = k /\ row.state = state
        \/ row.turn = k /\ row.state \in Running /\ state = "FAILED"
    BY <1>2 DEF EmitTerminal, TaskInv, TaskOf
  <2>4. Durable(n, row)
    BY <2>1, <2>3 DEF Durable
  <2>5. Heard(n, row', task')
    <3>1. Phase(n) = 4 /\ k \in Nat /\ row.turn \in Nat
      BY <2>1, Phases, EventTypes, EventStreamAssumption DEF Events, Turns
    <3>2. CASE row.turn > k
      BY <2>1, <2>2, <3>1, <3>2 DEF Heard, Behind, NowOf, NotAfter, Counted
    <3>3. CASE row.turn = k /\ row.state = state
      <4>1. Now.turn = k /\ Now.state = state /\ Now.idx = 0 /\ Phase(Now) = 4
        BY <2>1, <3>3, NowIsEvent, Phases DEF Terminal
      <4>2. Behind(n, row)
        BY <2>1, <3>1, <3>3, <4>1 DEF Behind, Now, NotAfter, Counted
      <4> QED BY <2>2, <4>2 DEF Heard
    <3>4. CASE row.turn = k /\ row.state \in Running /\ state = "FAILED"
      <4>1. task'[k] = "over"
        BY <1>2 DEF EmitTerminal, Become, TypeOK
      <4> QED BY <2>1, <2>2, <3>4, <4>1 DEF Heard, Orphaned, Counted
    <3> QED BY <2>3, <3>2, <3>3, <3>4
  <2>6. ASSUME NEW e \in Events, Heard(e, row, task) PROVE NotAfter(e, n)
    <3>1. Phase(e) \in 0..4 /\ Phase(n) = 4
      BY <2>1, Phases DEF Events
    <3>2. Phase(e) = 4 => e.idx = 0
      BY <2>6, Phases, FieldTypes DEF Heard, Behind, Orphaned, Counted, Phase
    <3> QED BY <2>1, <3>1, <3>2, FieldTypes DEF NotAfter
  <2> QED BY <2>1, <2>2, <2>4, <2>5, <2>6
<1> QED BY <1>1, <1>2

-----------------------------------------------------------------------------
\* A step that emits nothing and takes nothing leaves what is in transit behind
\* the row and in its order.
LEMMA QuietStep ==
  ASSUME IInv, [Next]_vars, UNCHANGED <<bus, sub>>, ~Crash
  PROVE  TransitInv' /\ OrderInv'
<1>1. up' = up \/ ~up
  BY DEF Next, Start, TaskStep, Announce, CommitPhase, CommitVerifying, CommitFailed, EmitTerminal,
         Connect, Stream, Take, Deliver, Disconnect, Restart, vars
<1>2. \A s \in Subscribers : Streaming(s)' <=> Streaming(s)
  BY DEF Streaming
<1>3. \A i \in 1..Len(bus) : Durable(bus[i], row')
  BY StaysDurable, EventTypes DEF IInv, TransitInv, Events
<1>4. \A s \in Subscribers : Durable(sub[s].hand, row') /\ Durable(sub[s].last, row')
  BY StaysDurable, EventTypes DEF IInv, TransitInv
<1>5. ASSUME up /\ up' PROVE TransitInv'
  <2>1. \A i \in 1..Len(bus) : Heard(bus[i], row', task')
    <3> TAKE i \in 1..Len(bus)
    <3>1. bus[i] \in Events /\ Heard(bus[i], row, task)
      BY EventTypes DEF IInv, TransitInv, Events
    <3>2. \A d \in Events : Heard(d, row, task) => Heard(d, row', task')
      BY <1>5, StaysHeard DEF IInv
    <3> QED BY <3>1, <3>2
  <2>2. \A s \in Subscribers : Streaming(s) => Heard(sub[s].hand, row', task') /\ Heard(sub[s].last, row', task')
    <3> TAKE s \in Subscribers
    <3>1. \A d \in Events : Heard(d, row, task) => Heard(d, row', task')
      BY <1>5, StaysHeard DEF IInv
    <3> QED BY <3>1, EventTypes DEF IInv, TransitInv
  <2>3. \A i \in 1..Len(bus') : Heard(bus'[i], row', task') /\ Durable(bus'[i], row')
    BY <1>3, <2>1
  <2>4. \A s \in Subscribers :
          /\ Durable(sub'[s].hand, row') /\ Durable(sub'[s].last, row')
          /\ Streaming(s)' => Heard(sub'[s].hand, row', task') /\ Heard(sub'[s].last, row', task')
    BY <1>2, <1>4, <2>2
  <2> QED BY <1>5, <2>3, <2>4 DEF TransitInv
<1>6. ASSUME ~up PROVE TransitInv'
  <2>1. bus = <<>> /\ \A s \in Subscribers : ~Streaming(s)
    BY <1>6 DEF IInv, TransitInv
  <2>2. \A i \in 1..Len(bus') : FALSE
    BY <2>1
  <2>3. \A s \in Subscribers : ~Streaming(s)' /\ Durable(sub'[s].hand, row') /\ Durable(sub'[s].last, row')
    BY <1>2, <1>4, <2>1
  <2> QED BY <2>1, <2>2, <2>3 DEF TransitInv
<1>7. TransitInv'
  BY <1>1, <1>5, <1>6
<1> QED BY <1>7 DEF IInv, OrderInv

LEMMA EmittingStep ==
  ASSUME IInv, [Next]_vars, NEW k \in Turns, Announce(k) \/ EmitTerminal(k)
  PROVE  TransitInv' /\ OrderInv'
<1>1. PICK n \in Event : /\ bus' = Append(bus, n) /\ row' = row /\ sub' = sub
                         /\ Heard(n, row', task') /\ Durable(n, row)
                         /\ \A e \in Events : Heard(e, row, task) => NotAfter(e, n)
  BY EmittedIsLatest DEF IInv
<1>0. up /\ up'
  BY DEF Announce, EmitTerminal, IInv, TaskInv, TaskOf
<1>8. \A e \in Events : Heard(e, row, task) => Heard(e, row', task')
  BY <1>0, StaysHeard DEF IInv
<1>2. bus \in Seq(Event)
  BY DEF IInv, TypeOK
<1>3. /\ Len(bus') = Len(bus) + 1 /\ Len(bus) \in Nat
      /\ \A i \in 1..Len(bus) : bus'[i] = bus[i] /\ bus[i] \in Events
      /\ bus'[Len(bus) + 1] = n
  BY <1>1, <1>2, AppendProperties, LenProperties, ElementOfSeq DEF Events
<1>4. \A i \in 1..Len(bus') : i \in 1..Len(bus) \/ i = Len(bus) + 1
  BY <1>3
<1>5. TransitInv'
  <2>1. \A i \in 1..Len(bus') : Heard(bus'[i], row', task') /\ Durable(bus'[i], row')
    BY <1>1, <1>3, <1>4, <1>8 DEF IInv, TransitInv
  <2>2. \A s \in Subscribers :
          /\ Durable(sub'[s].hand, row') /\ Durable(sub'[s].last, row')
          /\ Streaming(s)' => Heard(sub'[s].hand, row', task') /\ Heard(sub'[s].last, row', task')
    BY <1>1, <1>8, EventTypes DEF IInv, TransitInv, Streaming
  <2> QED BY <1>0, <2>1, <2>2 DEF TransitInv
<1>6. \A i, j \in 1..Len(bus') : i < j => NotAfter(bus'[i], bus'[j])
  BY <1>1, <1>3, <1>4 DEF IInv, TransitInv, OrderInv
<1>7. ASSUME NEW s \in Subscribers, sub'[s].pc \in {"open", "holding"}, NEW i \in 1..Len(bus')
      PROVE  NotAfter(sub'[s].last, bus'[i]) /\ NotAfter(sub'[s].hand, bus'[i])
  <2>1. Streaming(s) /\ sub'[s] = sub[s]
    BY <1>1, <1>7 DEF Streaming
  <2>2. NotAfter(sub[s].last, n) /\ NotAfter(sub[s].hand, n)
    BY <1>1, <2>1, EventTypes DEF IInv, TransitInv
  <2> QED BY <1>3, <1>4, <1>7, <2>1, <2>2 DEF IInv, OrderInv
<1> QED BY <1>1, <1>5, <1>6, <1>7 DEF IInv, OrderInv

LEMMA NoEventIsBehind ==
  ASSUME TypeOK
  PROVE  Behind(NoEvent, row) /\ \A e \in Event : NotAfter(NoEvent, e)
BY EventTypes, EventStreamAssumption
   DEF Behind, NotAfter, Counted, NowOf, NoEvent, Phase, Event, Turns

LEMMA ConnectStep ==
  ASSUME IInv, NEW s \in Subscribers, Connect(s)
  PROVE  TransitInv' /\ OrderInv'
<1> DEFINE h == IF row.state \in Terminal THEN Now ELSE NoEvent
<1>1. row' = row /\ bus' = bus
  BY DEF Connect
<1>2. Behind(NoEvent, row) /\ \A i \in 1..Len(bus) : NotAfter(NoEvent, bus[i])
  BY NoEventIsBehind, EventTypes DEF IInv
<1>3. Behind(h, row) /\ Durable(h, row) /\ (row.state \in Terminal => Ends(h))
  <2>1. CASE row.state \in Terminal
    <3>1. /\ Now.turn = row.turn /\ Now.state = row.state /\ Now.idx = 0
          /\ Now.turn <= row.turn /\ Now.idx <= Now.idx
      BY <2>1, NowIsEvent, EventTypes DEF IInv, Terminal
    <3> QED BY <2>1, <3>1 DEF Behind, Durable, Now, NotAfter, Counted, Ends
  <2> QED BY <2>1, <1>2 DEF Durable, NoEvent
<1>4. sub \in [Subscribers -> Streams]
  BY DEF IInv, TypeOK
<1>5. \A u \in Subscribers :
        \/ u # s /\ sub'[u] = sub[u]
        \/ /\ u = s /\ sub'[u].hand = h /\ sub'[u].last = NoEvent
           /\ sub'[u].pc = IF row.state \in Terminal THEN "synthetic" ELSE "open"
  <2>1. EventNow(row.state, row.turn) = Now
    BY DEF Now, NowOf, EventNow
  <2> QED BY <1>4, <2>1 DEF Connect, NoStream
<1>6. TransitInv'
  <2>1. task' = task /\ up /\ up'
    BY DEF Connect
  <2>2. Heard(h, row, task) /\ Heard(NoEvent, row, task) /\ Durable(NoEvent, row)
    BY <1>2, <1>3 DEF Heard, Durable, NoEvent
  <2>3. \A u \in Subscribers :
          /\ Durable(sub'[u].hand, row') /\ Durable(sub'[u].last, row')
          /\ Streaming(u)' => Heard(sub'[u].hand, row', task') /\ Heard(sub'[u].last, row', task')
    BY <1>1, <1>3, <1>5, <2>1, <2>2 DEF IInv, TransitInv, Streaming
  <2> QED BY <1>1, <2>1, <2>3 DEF IInv, TransitInv
<1>7. ASSUME NEW u \in Subscribers
      PROVE  /\ sub'[u].pc = "holding" => NotAfter(sub'[u].last, sub'[u].hand)
             /\ sub'[u].pc = "synthetic" => Ends(sub'[u].hand)
             /\ sub'[u].pc \in {"open", "holding"} =>
                  \A i \in 1..Len(bus) : /\ NotAfter(sub'[u].last, bus[i])
                                         /\ NotAfter(sub'[u].hand, bus[i])
  BY <1>2, <1>3, <1>5 DEF IInv, OrderInv
<1> QED BY <1>1, <1>6, <1>7 DEF IInv, OrderInv

\* What a stream takes is the first in the queue, and everything left follows it.
LEMMA TakeStep ==
  ASSUME IInv, NEW s \in Subscribers, Take(s)
  PROVE  TransitInv' /\ OrderInv'
<1>1. /\ row' = row /\ bus' = Tail(bus) /\ bus # <<>> /\ bus \in Seq(Event)
      /\ sub[s].pc = "open" /\ sub \in [Subscribers -> Streams]
      /\ sub' = [sub EXCEPT ![s].pc = "holding", ![s].hand = Head(bus)]
  BY DEF Take, IInv, TypeOK
<1>2. /\ Len(bus) \in Nat /\ Len(bus) >= 1 /\ Len(bus') = Len(bus) - 1
      /\ \A i \in 1..Len(bus') : bus'[i] = bus[i + 1] /\ i + 1 \in 1..Len(bus)
      /\ Head(bus) = bus[1] /\ 1 \in 1..Len(bus)
  BY <1>1, EmptySeq, LenProperties, HeadTailProperties
<1>3. \A u \in Subscribers :
        \/ u # s /\ sub'[u] = sub[u]
        \/ u = s /\ sub'[u].pc = "holding" /\ sub'[u].hand = bus[1] /\ sub'[u].last = sub[u].last
  BY <1>1, <1>2 DEF Streams
<1>4. TransitInv'
  <2>1. task' = task /\ up' = up /\ up
    BY <1>1 DEF Take, IInv, TransitInv
  <2>2. \A i \in 1..Len(bus') : Heard(bus'[i], row', task') /\ Durable(bus'[i], row')
    BY <1>1, <1>2, <2>1 DEF IInv, TransitInv
  <2>3. Streaming(s)
    BY <1>1 DEF Streaming
  <2>4. \A u \in Subscribers :
          /\ Durable(sub'[u].hand, row') /\ Durable(sub'[u].last, row')
          /\ Streaming(u)' => Heard(sub'[u].hand, row', task') /\ Heard(sub'[u].last, row', task')
    BY <1>1, <1>2, <1>3, <2>1, <2>3 DEF IInv, TransitInv, Streaming
  <2> QED BY <2>1, <2>2, <2>4 DEF TransitInv
<1>5. \A i, j \in 1..Len(bus') : i < j => NotAfter(bus'[i], bus'[j])
  BY <1>2 DEF IInv, OrderInv
<1>6. \A i \in 1..Len(bus') : NotAfter(bus[1], bus'[i])
  BY <1>2 DEF IInv, OrderInv
<1>7. ASSUME NEW u \in Subscribers
      PROVE  /\ sub'[u].pc = "holding" => NotAfter(sub'[u].last, sub'[u].hand)
             /\ sub'[u].pc = "synthetic" => Ends(sub'[u].hand)
             /\ sub'[u].pc \in {"open", "holding"} =>
                  \A i \in 1..Len(bus') : /\ NotAfter(sub'[u].last, bus'[i])
                                          /\ NotAfter(sub'[u].hand, bus'[i])
  BY <1>1, <1>2, <1>3, <1>6 DEF IInv, OrderInv
<1> QED BY <1>4, <1>5, <1>7 DEF OrderInv

LEMMA DeliverStep ==
  ASSUME IInv, NEW s \in Subscribers, Deliver(s)
  PROVE  TransitInv' /\ OrderInv'
<1> DEFINE h == sub[s].hand
<1>1. /\ row' = row /\ bus' = bus /\ sub[s].pc \in {"holding", "synthetic"}
      /\ sub \in [Subscribers -> Streams]
      /\ sub' = [sub EXCEPT ![s].pc = IF Ends(h) THEN "closed" ELSE "open",
                            ![s].last = h, ![s].hand = NoEvent]
  BY DEF Deliver, IInv, TypeOK
<1>2. \A u \in Subscribers :
        \/ u # s /\ sub'[u] = sub[u]
        \/ /\ u = s /\ sub'[u].hand = NoEvent /\ sub'[u].last = h
           /\ sub'[u].pc = IF Ends(h) THEN "closed" ELSE "open"
  BY <1>1 DEF Streams
<1>3. Behind(NoEvent, row) /\ \A i \in 1..Len(bus) : NotAfter(NoEvent, bus[i])
  BY NoEventIsBehind, EventTypes DEF IInv
<1>4. TransitInv'
  <2>1. task' = task /\ up' = up /\ Streaming(s)
    BY <1>1 DEF Deliver, Streaming
  <2>2. Heard(NoEvent, row, task) /\ Durable(NoEvent, row)
    BY <1>3 DEF Heard, Durable, NoEvent
  <2>3. Heard(h, row, task) /\ Durable(h, row) /\ up
    BY <2>1 DEF IInv, TransitInv
  <2>4. \A u \in Subscribers :
          /\ Durable(sub'[u].hand, row') /\ Durable(sub'[u].last, row')
          /\ Streaming(u)' => Heard(sub'[u].hand, row', task') /\ Heard(sub'[u].last, row', task')
    BY <1>1, <1>2, <2>1, <2>2, <2>3 DEF IInv, TransitInv, Streaming
  <2> QED BY <1>1, <2>1, <2>3, <2>4 DEF IInv, TransitInv
<1>5. sub[s].pc = "synthetic" => Ends(h)
  BY DEF IInv, OrderInv
<1>6. ASSUME NEW u \in Subscribers
      PROVE  /\ sub'[u].pc = "holding" => NotAfter(sub'[u].last, sub'[u].hand)
             /\ sub'[u].pc = "synthetic" => Ends(sub'[u].hand)
             /\ sub'[u].pc \in {"open", "holding"} =>
                  \A i \in 1..Len(bus) : /\ NotAfter(sub'[u].last, bus[i])
                                         /\ NotAfter(sub'[u].hand, bus[i])
  BY <1>1, <1>2, <1>3, <1>5 DEF IInv, OrderInv
<1> QED BY <1>1, <1>4, <1>6 DEF IInv, OrderInv

\* A stream that is gone has nothing, and nothing is left of a queue that died.
LEMMA GoneStep ==
  ASSUME IInv, Crash \/ \E s \in Subscribers : Disconnect(s)
  PROVE  TransitInv' /\ OrderInv'
<1> DEFINE empty == [NoStream EXCEPT !.pc = "gone"]
<1>1. empty.pc = "gone" /\ empty.hand = NoEvent /\ empty.last = NoEvent
  BY DEF NoStream
<1>2. Durable(NoEvent, row)
  BY DEF Durable, NoEvent
<1>3. CASE Crash
  <2>1. /\ row' = row /\ bus' = <<>> /\ ~up'
        /\ \A u \in Subscribers : sub'[u] = IF Streaming(u) THEN empty ELSE sub[u]
    BY <1>3 DEF Crash, Streaming
  <2>2. \A u \in Subscribers : ~Streaming(u)'
    BY <1>1, <2>1 DEF Streaming
  <2>3. \A u \in Subscribers : Durable(sub'[u].hand, row') /\ Durable(sub'[u].last, row')
    BY <1>1, <1>2, <2>1 DEF IInv, TransitInv
  <2>4. TransitInv'
    BY <2>1, <2>2, <2>3 DEF TransitInv
  <2>5. OrderInv'
    BY <2>1, <2>2 DEF OrderInv, Streaming
  <2> QED BY <2>4, <2>5
<1>4. ASSUME NEW s \in Subscribers, Disconnect(s) PROVE TransitInv' /\ OrderInv'
  <2>1. /\ row' = row /\ bus' = bus /\ task' = task /\ up' = up
        /\ sub' = [sub EXCEPT ![s] = empty] /\ sub \in [Subscribers -> Streams]
    BY <1>4 DEF Disconnect, IInv, TypeOK
  <2> HIDE DEF empty
  <2>2. \A u \in Subscribers : sub'[u] = empty \/ sub'[u] = sub[u]
    BY <2>1
  <2>3. \A u \in Subscribers :
          /\ Durable(sub'[u].hand, row') /\ Durable(sub'[u].last, row')
          /\ Streaming(u)' => Streaming(u) /\ Heard(sub'[u].hand, row', task')
                              /\ Heard(sub'[u].last, row', task')
    BY <1>1, <1>2, <2>1, <2>2 DEF IInv, TransitInv, Streaming
  <2>4. TransitInv'
    BY <2>1, <2>3 DEF IInv, TransitInv
  <2>5. OrderInv'
    BY <1>1, <2>1, <2>2 DEF IInv, OrderInv
  <2> QED BY <2>4, <2>5
<1> QED BY <1>3, <1>4

LEMMA InitInv == Init => IInv
<1> SUFFICES ASSUME Init PROVE IInv
  OBVIOUS
<1>1. TypeOK
  BY EventStreamAssumption DEF Init, TypeOK, Row, TaskPCs, Streams, NoStream
<1>2. TaskInv /\ OrderInv
  BY DEF Init, TaskInv, TaskOf, OrderInv, NoStream
<1>3. TransitInv
  BY DEF Init, TransitInv, NoStream, Durable, NoEvent, Streaming
<1> QED BY <1>1, <1>2, <1>3 DEF IInv

LEMMA NextInv == IInv /\ [Next]_vars => IInv'
<1> SUFFICES ASSUME IInv, [Next]_vars PROVE IInv'
  OBVIOUS
<1>1. TypeOK' /\ TaskInv'
  BY TaskInvHolds DEF IInv
<1>2. TransitInv' /\ OrderInv'
  <2>1. CASE UNCHANGED <<bus, sub>> /\ ~Crash
    BY <2>1, QuietStep
  <2>2. CASE \E k \in Turns : Announce(k) \/ EmitTerminal(k)
    BY <2>2, EmittingStep
  <2>3. CASE \E s \in Subscribers : Connect(s)
    BY <2>3, ConnectStep
  <2>4. CASE \E s \in Subscribers : Stream(s)
    BY <2>4, TakeStep, DeliverStep DEF Stream
  <2>5. CASE Crash \/ \E s \in Subscribers : Disconnect(s)
    BY <2>5, GoneStep
  <2>6. \/ UNCHANGED <<bus, sub>>
        \/ \E k \in Turns : Announce(k) \/ EmitTerminal(k)
        \/ \E s \in Subscribers : Connect(s) \/ Stream(s) \/ Disconnect(s)
        \/ Crash
    BY DEF Next, TaskStep, Start, CommitPhase, CommitPlan, CommitStep, CommitDone, CommitVerifying, CommitFailed, Restart, vars
  <2> QED BY <2>1, <2>2, <2>3, <2>4, <2>5, <2>6
<1> QED BY <1>1, <1>2 DEF IInv

LEMMA InvHolds == Spec => []IInv
BY InitInv, NextInv, PTL DEF Spec

-----------------------------------------------------------------------------
\* No client has or will get the completion of a turn that a crash could turn
\* around: _run commits DONE before it emits it, and so does the answer to a
\* client that connects late (routes.py, stream_session_events).
THEOREM CompletionIsDurable == Spec => []DoneEventIsDurable
<1>1. IInv => DoneEventIsDurable
  <2> SUFFICES ASSUME IInv, NEW e \in InTransit, e.state = "DONE"
               PROVE  row.turn > e.turn \/ (row.turn = e.turn /\ row.state = "DONE")
    BY DEF DoneEventIsDurable
  <2>1. Durable(e, row)
    BY DEF IInv, TransitInv, InTransit, Queued
  <2> QED BY <2>1 DEF Durable
<1> QED BY <1>1, InvHolds, PTL

\* However many streams take from the queue, and whatever crashes repeat a phase,
\* each stream receives a turn's events in the order of the run.
THEOREM ProgressGoesForward == Spec => []ProgressNeverGoesBack
<1>1. IInv => ProgressNeverGoesBack
  BY DEF IInv, OrderInv, ProgressNeverGoesBack, Queued
<1> QED BY <1>1, InvHolds, PTL
=============================================================================
