---------------------------- MODULE EventStream ----------------------------
(***************************************************************************)
(* Progress events of one session (src/shotcut/orchestrator/events.py,     *)
(* their emission in durable.py, GET /sessions/{id}/events in routes.py).  *)
(*                                                                         *)
(* The bus is one in-process queue per session which every open stream     *)
(* takes from; nothing in src/ calls drop(), so it lives as long as the    *)
(* process, across turns.  A run commits a phase before it emits the next  *)
(* event, and a subscriber reads the row before it reads the queue, so the *)
(* two can disagree.  Starts are serial here, and tasks are named after    *)
(* their turn: one turn then has one task (WorkerInv of DurableRunProofs). *)
(***************************************************************************)
EXTENDS Naturals, Sequences

CONSTANTS
  Subscribers,   \* SSE streams a client may hold open
  MaxTurns,      \* prompts accepted in a behaviour, a bound
  MaxSteps,      \* steps of the longest plan, a bound
  MaxConnects,   \* GET /events calls in a behaviour, a bound
  MaxCrashes,    \* times the process is killed, a bound
  DbErrors,      \* whether the database may refuse to store FAILED
  Disconnects    \* whether clients may go away while they stream

ASSUME EventStreamAssumption ==
  /\ MaxTurns \in Nat /\ MaxSteps \in Nat
  /\ MaxConnects \in Nat /\ MaxCrashes \in Nat
  /\ DbErrors \in BOOLEAN /\ Disconnects \in BOOLEAN

VARIABLES
  row,        \* the orchestrator_states row
  task,       \* the background task of each turn
  bus,        \* _buses[session_id]
  sub,        \* the stream of each subscriber
  up,         \* the process serves requests
  connects, crashes   \* how many so far

vars == <<row, task, bus, sub, up, connects, crashes>>

-----------------------------------------------------------------------------
Turns    == 1..MaxTurns
Terminal == {"DONE", "FAILED"}
Running  == {"PLANNING", "EXECUTING", "VERIFYING"}

Row == [state : Running \cup Terminal \cup {"NONE"}, turn : 0..MaxTurns,
        plan : 0..MaxSteps, idx : 0..MaxSteps]

\* "ready": a database call has returned or is about to; "working": the event
\* of the phase is out and the model is being called; "done" and "failed":
\* the terminal state was committed, or given up, and its event not yet emitted.
TaskPCs == {"none", "ready", "working", "done", "failed", "over"}

\* A ProgressEvent, told apart by what a client orders and ends a stream by.
Event == [state : Running \cup Terminal, turn : Turns, idx : 0..MaxSteps]
NoEvent == [state |-> "NONE", turn |-> 0, idx |-> 0]
Ends(e) == e.state \in Terminal

\* A stream: the event its generator took from the queue and the last one the
\* client received.
Streams == [pc : {"idle", "open", "synthetic", "holding", "closed", "gone"},
            hand : Event \cup {NoEvent},
            last : Event \cup {NoEvent}]
NoStream == [pc |-> "idle", hand |-> NoEvent, last |-> NoEvent]

EventNow(state, k) ==
  [state |-> state, turn |-> k, idx |-> IF state = "EXECUTING" THEN row.idx ELSE 0]
Emit(state, k) == bus' = Append(bus, EventNow(state, k))
Become(k, label) == task' = [task EXCEPT ![k] = label]

-----------------------------------------------------------------------------
(* start(), _run() and _mark_failed(), as far as clients can follow them.    *)

Start(k) ==
  /\ up
  /\ row.state \notin Running
  /\ k = row.turn + 1
  /\ row' = [state |-> "PLANNING", turn |-> k, plan |-> 0, idx |-> 0]
  /\ Become(k, "ready")
  /\ UNCHANGED <<bus, sub, up, connects, crashes>>

\* Announce the phase the row is in and call the model for it.
Announce(k) ==
  /\ task[k] = "ready"
  /\ row.state = "EXECUTING" => row.idx < row.plan
  /\ Emit(row.state, k)
  /\ Become(k, "working")
  /\ UNCHANGED <<row, sub, up, connects, crashes>>

\* The phase is over: commit what it led to.
CommitPlan(k) ==
  /\ row.state = "PLANNING"
  /\ \E n \in 0..MaxSteps : row' = [row EXCEPT !.state = "EXECUTING", !.plan = n]
  /\ Become(k, "ready")

CommitStep(k) ==
  /\ row.state = "EXECUTING"
  /\ row' = [row EXCEPT !.idx = @ + 1]
  /\ Become(k, "ready")

CommitDone(k) ==
  /\ row.state = "VERIFYING"
  /\ row' = [row EXCEPT !.state = "DONE"]
  /\ Become(k, "done")

CommitPhase(k) ==
  /\ task[k] = "working"
  /\ CommitPlan(k) \/ CommitStep(k) \/ CommitDone(k)
  /\ UNCHANGED <<bus, sub, up, connects, crashes>>

\* After the last step VERIFYING is committed before anything is announced.
CommitVerifying(k) ==
  /\ task[k] = "ready"
  /\ row.state = "EXECUTING"
  /\ row.idx >= row.plan
  /\ row' = [row EXCEPT !.state = "VERIFYING"]
  /\ UNCHANGED <<task, bus, sub, up, connects, crashes>>

\* An exception in a phase, a refused commit included.  _mark_failed commits first
\* and emits then; when its own commit is refused too it logs that, emits all the
\* same, and the row stays as it was, with no task.
CommitFailed(k) ==
  /\ task[k] \in {"ready", "working"}
  /\ \/ row' = [row EXCEPT !.state = "FAILED"]
     \/ DbErrors /\ UNCHANGED row
  /\ Become(k, "failed")
  /\ UNCHANGED <<bus, sub, up, connects, crashes>>

\* Mutant: the completion is announced when the verifier returns.
EmitTerminal_BeforeCommit(k) ==
  /\ task[k] \in {"working", "done", "failed"}
  /\ task[k] = "working" => row.state = "VERIFYING"
  /\ Emit(IF task[k] = "failed" THEN "FAILED" ELSE "DONE", k)
  /\ Become(k, IF task[k] = "working" THEN "working" ELSE "over")
  /\ Len(bus) < 5
  /\ UNCHANGED <<row, sub, up, connects, crashes>>

\* Mutant: a failed run ends without a word.
EmitTerminal_DoneOnly(k) ==
  /\ task[k] \in {"done", "failed"}
  /\ IF task[k] = "done" THEN Emit("DONE", k) ELSE UNCHANGED bus
  /\ Become(k, "over")
  /\ UNCHANGED <<row, sub, up, connects, crashes>>

EmitTerminal(k) ==
  /\ task[k] \in {"done", "failed"}
  /\ Emit(IF task[k] = "done" THEN "DONE" ELSE "FAILED", k)
  /\ Become(k, "over")
  /\ UNCHANGED <<row, sub, up, connects, crashes>>

-----------------------------------------------------------------------------
(* GET /events: read the row, then stream from the queue.                    *)

Connect(s) ==
  /\ up
  /\ sub[s].pc \in {"idle", "closed", "gone"}
  /\ connects < MaxConnects
  /\ connects' = connects + 1
  /\ sub' = [sub EXCEPT ![s] =
       [NoStream EXCEPT !.pc = IF row.state \in Terminal THEN "synthetic" ELSE "open",
                        !.hand = IF row.state \in Terminal
                                 THEN EventNow(row.state, row.turn) ELSE NoEvent]]
  /\ UNCHANGED <<row, task, bus, up, crashes>>

\* Mutant: the queue hands out the newest event first.
Take_Newest(s) ==
  /\ sub[s].pc = "open" /\ bus # <<>>
  /\ sub' = [sub EXCEPT ![s].pc = "holding", ![s].hand = bus[Len(bus)]]
  /\ bus' = SubSeq(bus, 1, Len(bus) - 1)
  /\ UNCHANGED <<row, task, up, connects, crashes>>

\* subscribe(): the event taken is gone for every other stream.
Take(s) ==
  /\ sub[s].pc = "open"
  /\ bus # <<>>
  /\ sub' = [sub EXCEPT ![s].pc = "holding", ![s].hand = Head(bus)]
  /\ bus' = Tail(bus)
  /\ UNCHANGED <<row, task, up, connects, crashes>>

\* The generator's yield reaches the client; a terminal event ends the stream.
Deliver(s) ==
  /\ sub[s].pc \in {"holding", "synthetic"}
  /\ sub' = [sub EXCEPT ![s].pc = IF Ends(sub[s].hand) THEN "closed" ELSE "open",
                        ![s].last = sub[s].hand, ![s].hand = NoEvent]
  /\ UNCHANGED <<row, task, bus, up, connects, crashes>>

\* The client goes away: the generator is cancelled, with the event it holds.
Disconnect(s) ==
  /\ Disconnects
  /\ sub[s].pc \in {"open", "holding", "synthetic"}
  /\ sub' = [sub EXCEPT ![s] = [NoStream EXCEPT !.pc = "gone"]]
  /\ UNCHANGED <<row, task, bus, up, connects, crashes>>

-----------------------------------------------------------------------------
\* The queue, the tasks and the streams die with the process.
Crash ==
  /\ up
  /\ crashes < MaxCrashes
  /\ crashes' = crashes + 1
  /\ up' = FALSE
  /\ bus' = <<>>
  /\ task' = [k \in Turns |-> IF task[k] = "none" THEN "none" ELSE "over"]
  /\ sub' = [s \in Subscribers |->
              IF sub[s].pc \in {"open", "holding", "synthetic"}
              THEN [NoStream EXCEPT !.pc = "gone"] ELSE sub[s]]
  /\ UNCHANGED <<row, connects>>

Restart ==
  /\ ~up
  /\ up' = TRUE
  /\ IF row.state \in Running THEN Become(row.turn, "ready") ELSE UNCHANGED task
  /\ UNCHANGED <<row, bus, sub, connects, crashes>>

Init ==
  /\ row = [state |-> "NONE", turn |-> 0, plan |-> 0, idx |-> 0]
  /\ task = [k \in Turns |-> "none"]
  /\ bus = <<>>
  /\ sub = [s \in Subscribers |-> NoStream]
  /\ up = TRUE
  /\ connects = 0 /\ crashes = 0

TaskStep(k) ==
  Announce(k) \/ CommitPhase(k) \/ CommitVerifying(k) \/ CommitFailed(k) \/ EmitTerminal(k)

Stream(s) == Take(s) \/ Deliver(s)

Next ==
  \/ \E k \in Turns : Start(k) \/ TaskStep(k)
  \/ \E s \in Subscribers : Connect(s) \/ Stream(s) \/ Disconnect(s)
  \/ Crash \/ Restart

Spec == Init /\ [][Next]_vars

\* The event loop runs tasks and generators, models and the database answer or
\* fail, clients read what they are sent, a supervisor restarts the process.
FairSpec ==
  /\ Spec
  /\ \A k \in Turns : WF_vars(TaskStep(k))
  /\ \A s \in Subscribers : WF_vars(Stream(s))
  /\ WF_vars(Restart)

-----------------------------------------------------------------------------
\* Every event that some client has, holds or will get.
Queued    == {bus[i] : i \in 1..Len(bus)}
InTransit == Queued \cup {sub[s].hand : s \in Subscribers} \cup {sub[s].last : s \in Subscribers}

\* No client is ever told that a turn is done before that is durable: a crash
\* right after the event cannot turn the outcome around (the order of commit
\* and emit at the end of _run).
DoneEventIsDurable ==
  \A e \in InTransit :
    e.state = "DONE" => \/ row.turn > e.turn
                        \/ row.turn = e.turn /\ row.state = "DONE"

\* How far into its turn an event is: its phase, then its step.
Phase(e) == CASE e.state = "NONE" -> 0 [] e.state = "PLANNING" -> 1
              [] e.state = "EXECUTING" -> 2 [] e.state = "VERIFYING" -> 3
              [] OTHER -> 4
NotAfter(d, e) ==
  d.turn = e.turn => \/ Phase(d) < Phase(e)
                     \/ Phase(d) = Phase(e) /\ d.idx <= e.idx

\* Whatever a stream receives of a turn, it receives in the order of the run,
\* with other streams taking events from the same queue and with resumed runs
\* announcing their phase again.
ProgressNeverGoesBack ==
  \A s \in Subscribers :
    /\ sub[s].pc = "holding" => NotAfter(sub[s].last, sub[s].hand)
    /\ sub[s].pc \in {"open", "holding"} =>
         \A e \in Queued : NotAfter(sub[s].last, e) /\ NotAfter(sub[s].hand, e)

\* A stream opened while a turn's task is at work is ended by a terminal event or
\* cut off, whatever commit is refused, unless another one is opened next to it
\* (events.py, subscribe: "Stops after a terminal event").
Streaming(s) == sub[s].pc \in {"open", "holding", "synthetic"}
Alone(s)     == \A r \in Subscribers \ {s} : ~Streaming(r)
AtWork       == \E k \in Turns : task[k] \in {"ready", "working", "done", "failed"}
LoneStreamEnds ==
  \A s \in Subscribers :
    (sub[s].pc = "open" /\ AtWork /\ Alone(s)) ~> (~Streaming(s) \/ ~Alone(s))

-----------------------------------------------------------------------------
(* What the repository says of the program and the code does not do.         *)

\* docs/decisions/0003: "When the session reaches a terminal state, the handler
\* drains and closes" - every handler.  Of two streams on one queue only the one
\* that takes the terminal event does.
EveryStreamEnds ==
  \A s \in Subscribers : (sub[s].pc = "open" /\ AtWork) ~> ~Streaming(s)

\* durable.py, _run_with_fresh_session: "Catches every exception so a crash in one
\* phase persists as state=FAILED".  A client that is told of a failure could then
\* rely on it; when the commit is refused it is told all the same.
FailedEventIsDurable ==
  \A e \in InTransit :
    e.state = "FAILED" => \/ row.turn > e.turn
                          \/ row.turn = e.turn /\ row.state = "FAILED"
=============================================================================
