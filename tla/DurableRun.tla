----------------------------- MODULE DurableRun -----------------------------
(***************************************************************************)
(* The durable orchestrator of one session (src/shotcut/orchestrator):     *)
(* POST /prompt accepts a turn, a background asyncio task drives it        *)
(* through planning, the plan's steps and verification with a checkpoint   *)
(* at each boundary, the process may be killed at any await or in the      *)
(* middle of writing the workbook file, and the startup scan resumes what  *)
(* was not finished.                                                       *)
(*                                                                         *)
(* An action is what the event loop runs between two awaits that reach the *)
(* database or a model: the code suspends where one action ends and        *)
(* another may begin.  Sessions share nothing but the process, so one      *)
(* session is enough.                                                      *)
(***************************************************************************)
EXTENDS Naturals, FiniteSets

CONSTANTS
  Tasks,          \* asyncio tasks that may be alive at once, a bound
  Requests,       \* POST /prompt handlers that may be in flight at once
  MaxTurns,       \* prompts accepted in a behaviour, a bound
  MaxSteps,       \* steps of the longest plan, a bound
  MaxActions,     \* actions an execution of a step emits at most, a bound
  MaxExecs,       \* executor calls in a behaviour, a bound
  MaxCrashes,     \* times the process is killed, a bound
  DbErrors,       \* whether the database may refuse a commit
  NoPlan          \* the plan column while it is null

ASSUME DurableRunAssumption ==
  /\ MaxTurns \in Nat /\ MaxSteps \in Nat /\ MaxActions \in Nat
  /\ MaxExecs \in Nat /\ MaxCrashes \in Nat
  /\ DbErrors \in BOOLEAN
  /\ NoPlan \notin Nat

VARIABLES
  \* durable: the database and the session's storage directory
  row,            \* the orchestrator_states row
  log,            \* committed audit rows of the orchestrator
  path,           \* which file sessions.workbook_path names
  file,           \* writes held by current.xlsx
  torn,           \* current.xlsx was cut short while being written
  \* volatile: the process
  up,             \* the process serves requests
  pc, cache, wb, txn, todo, exec,   \* the coroutine of each task
  rpc, rcache,    \* the handler of each prompt request
  \* history
  turns, execs, crashes,  \* how many so far
  interrupted,    \* the process died under the turn the row belongs to
  abandoned       \* the database refused that turn's FAILED, or its resume

durable  == <<row, log, path, file, torn>>
locals   == <<cache, wb, txn, todo, exec>>
handlers == <<rpc, rcache>>
history  == <<turns, execs, crashes, interrupted, abandoned>>
vars == <<durable, up, pc, locals, handlers, history>>

-----------------------------------------------------------------------------
Terminal == {"DONE", "FAILED"}
Running  == {"PLANNING", "EXECUTING", "VERIFYING"}

\* One row of orchestrator_states.  A prompt is identified by the number of
\* the accepted start that brought it, a plan by its number of steps.
Row == [state : Running \cup Terminal \cup {"NONE"}, turn : 0..MaxTurns,
        plan : 0..MaxSteps \cup {NoPlan}, idx : 0..MaxSteps]
NoRow == [state |-> "NONE", turn |-> 0, plan |-> NoPlan, idx |-> 0]

\* A write: the n-th action from the end of an execution of a plan step.
Write == [turn : 1..MaxTurns, step : 0..MaxSteps, exec : 1..MaxExecs, n : 1..MaxActions]

\* An audit row of the orchestrator carries the action and its status.
AuditRow == [write : Write, status : {"APPLIED", "PENDING_APPROVAL"}]

PCs == {"free", "load", "book", "plan", "exec", "apply", "verify", "saving",
        "finish", "failing", "closing"}

\* A task that may still read or write the session's state.
Working(t) == pc[t] \notin {"free", "closing"}

\* _load_workbook: the file named by workbook_path.  The original carries no
\* write of the orchestrator, and neither does the blank workbook that stands
\* in for a current.xlsx that does not exist yet.
Book == IF path = "current" THEN file ELSE {}

\* SQLAlchemy's flush updates the columns the session changed since it loaded
\* the row and no other, so what another transaction wrote there survives.
Dirty(before, after, stored) == IF after # before THEN after ELSE stored
Flush(before, after) ==
  [state |-> Dirty(before.state, after.state, row.state),
   turn  |-> Dirty(before.turn, after.turn, row.turn),
   plan  |-> Dirty(before.plan, after.plan, row.plan),
   idx   |-> Dirty(before.idx, after.idx, row.idx)]

\* checkpoint.save: change the task's copy of the row and flush it.
Save(t, new) ==
  /\ row' = Flush(cache[t], new)
  /\ cache' = [cache EXCEPT ![t] = new]

Goto(t, label) == pc' = [pc EXCEPT ![t] = label]

\* _spawn: a new task, whether or not there is another one.
Spawn(t) ==
  /\ pc[t] = "free"
  /\ Goto(t, "load")

-----------------------------------------------------------------------------
(* start(), called by POST /sessions/{id}/prompt.  The guard reads the row,  *)
(* the reset and the commit come after an await.                             *)

StartLoad(r) ==
  /\ up
  /\ rpc[r] = "idle"
  /\ turns < MaxTurns
  /\ row.state \notin Running      \* otherwise RuntimeError, nothing changes
  /\ rpc' = [rpc EXCEPT ![r] = "loaded"]
  /\ rcache' = [rcache EXCEPT ![r] = row]
  /\ UNCHANGED <<durable, up, pc, locals, history>>

\* checkpoint.create inserts the row and fails when another request did.
InsertConflict(r) == rcache[r].state = "NONE" /\ row.state # "NONE"

StartCommit(r, t) ==
  /\ rpc[r] = "loaded"
  /\ turns < MaxTurns
  /\ ~InsertConflict(r)
  /\ row' = Flush(rcache[r], [state |-> "PLANNING", turn |-> turns + 1,
                              plan |-> NoPlan, idx |-> 0])
  /\ turns' = turns + 1
  /\ interrupted' = FALSE /\ abandoned' = FALSE
  /\ rpc' = [rpc EXCEPT ![r] = "idle"]
  /\ Spawn(t)
  /\ UNCHANGED <<log, path, file, torn, up, locals, rcache, execs, crashes>>

StartFails(r) ==
  /\ rpc[r] = "loaded"
  /\ InsertConflict(r) \/ DbErrors
  /\ rpc' = [rpc EXCEPT ![r] = "idle"]
  /\ UNCHANGED <<durable, up, pc, locals, rcache, history>>

-----------------------------------------------------------------------------
(* _run(): the task's own database session keeps the row it loaded first.    *)

LoadRow(t) ==
  /\ pc[t] = "load"
  /\ cache' = [cache EXCEPT ![t] = row]
  /\ Goto(t, "book")
  /\ UNCHANGED <<durable, up, wb, txn, todo, exec, handlers, history>>

\* Mutant: a resumed run plans again although the row has a plan.
PhaseOf_Replans(r) == IF r.state \in Running THEN "plan" ELSE "closing"

\* Where _run goes with the row it loaded: it plans when the row has no plan,
\* and a row that is already terminal falls through to the end.
PhaseOf(r) ==
  IF r.plan = NoPlan \/ r.state = "PLANNING" THEN "plan"
  ELSE CASE r.state = "EXECUTING" -> "exec"
         [] r.state = "VERIFYING" -> "verify"
         [] OTHER -> "closing"

\* workbook.save does not yield: no task sees the file half written, though a
\* crash or an exception may leave it so.
NobodySaving == \A u \in Tasks : pc[u] # "saving"

LoadBook(t) ==
  /\ pc[t] = "book"
  /\ NobodySaving
  /\ ~(path = "current" /\ torn)   \* otherwise load_workbook raises
  /\ wb' = [wb EXCEPT ![t] = Book]
  /\ Goto(t, PhaseOf(cache[t]))
  /\ UNCHANGED <<durable, up, cache, txn, todo, exec, handlers, history>>

PlanDone(t) ==
  /\ pc[t] = "plan"
  /\ \E n \in 0..MaxSteps :
       Save(t, [state |-> "EXECUTING", turn |-> cache[t].turn, plan |-> n, idx |-> 0])
  /\ Goto(t, "exec")
  /\ UNCHANGED <<log, path, file, torn, up, wb, txn, todo, exec,
                 handlers, history>>

\* Mutant: the loop over the steps runs once too often.
ExecuteStep_OffByOne(t) ==
  /\ pc[t] = "exec" /\ cache[t].idx <= cache[t].plan
  /\ execs < MaxExecs /\ execs' = execs + 1
  /\ exec' = [exec EXCEPT ![t] = execs + 1]
  /\ todo' = [todo EXCEPT ![t] = MaxActions]
  /\ Goto(t, "apply")
  /\ UNCHANGED <<durable, up, cache, wb, txn, handlers,
                 turns, crashes, interrupted, abandoned>>

\* executor.execute returns the step's actions.
ExecuteStep(t) ==
  /\ pc[t] = "exec"
  /\ cache[t].idx < cache[t].plan
  /\ execs < MaxExecs
  /\ execs' = execs + 1
  /\ exec' = [exec EXCEPT ![t] = execs + 1]
  /\ \E n \in 0..MaxActions : todo' = [todo EXCEPT ![t] = n]
  /\ Goto(t, "apply")
  /\ UNCHANGED <<durable, up, cache, wb, txn, handlers,
                 turns, crashes, interrupted, abandoned>>

NextWrite(t) == [turn |-> cache[t].turn, step |-> cache[t].idx,
                 exec |-> exec[t], n |-> todo[t]]

\* Mutant: every audit row commits as it is recorded.
ApplyAction_Autocommit(t) ==
  /\ pc[t] = "apply" /\ todo[t] > 0
  /\ todo' = [todo EXCEPT ![t] = @ - 1]
  /\ log' = log \cup {[write |-> NextWrite(t), status |-> "APPLIED"]}
  /\ wb' = [wb EXCEPT ![t] = @ \cup {NextWrite(t)}]
  /\ UNCHANGED <<row, path, file, torn, up, pc, cache, txn, exec,
                 handlers, history>>

\* Mutant: a blocked action is applied before it is recorded as pending.
ApplyAction_AppliesBlocked(t) ==
  /\ pc[t] = "apply" /\ todo[t] > 0
  /\ todo' = [todo EXCEPT ![t] = @ - 1]
  /\ \E status \in {"APPLIED", "PENDING_APPROVAL"} :
       txn' = [txn EXCEPT ![t] = @ \cup {[write |-> NextWrite(t), status |-> status]}]
  /\ wb' = [wb EXCEPT ![t] = @ \cup {NextWrite(t)}]
  /\ UNCHANGED <<durable, up, pc, cache, exec, handlers, history>>

\* One action of the step: a write to a user's cell is only recorded, any
\* other is applied to the workbook in memory; the audit row is flushed in
\* the task's open transaction.
ApplyAction(t) ==
  /\ pc[t] = "apply"
  /\ todo[t] > 0
  /\ todo' = [todo EXCEPT ![t] = @ - 1]
  /\ \E blocked \in BOOLEAN :
       /\ txn' = [txn EXCEPT ![t] = @ \cup
            {[write  |-> NextWrite(t),
              status |-> IF blocked THEN "PENDING_APPROVAL" ELSE "APPLIED"]}]
       /\ wb' = [wb EXCEPT ![t] = IF blocked THEN @ ELSE @ \cup {NextWrite(t)}]
  /\ UNCHANGED <<durable, up, pc, cache, exec, handlers, history>>

\* Mutant: the index commits by itself, the rows with whatever comes next.
StepCommit_IndexOnly(t) ==
  /\ pc[t] = "apply" /\ todo[t] = 0
  /\ Save(t, [cache[t] EXCEPT !.idx = @ + 1])
  /\ Goto(t, "exec")
  /\ UNCHANGED <<log, path, file, torn, up, wb, txn, todo, exec,
                 handlers, history>>

\* The audit rows of the step and the index bump commit together.
StepCommit(t) ==
  /\ pc[t] = "apply"
  /\ todo[t] = 0
  /\ Save(t, [cache[t] EXCEPT !.idx = @ + 1])
  /\ log' = log \cup txn[t]
  /\ txn' = [txn EXCEPT ![t] = {}]
  /\ Goto(t, "exec")
  /\ UNCHANGED <<path, file, torn, up, wb, todo, exec, handlers, history>>

EnterVerifying(t) ==
  /\ pc[t] = "exec"
  /\ cache[t].idx >= cache[t].plan
  /\ Save(t, [cache[t] EXCEPT !.state = "VERIFYING"])
  /\ Goto(t, "verify")
  /\ UNCHANGED <<log, path, file, torn, up, wb, txn, todo, exec,
                 handlers, history>>

\* Mutant: the row says DONE before the file is written.
BeginSave_DoneFirst(t) ==
  /\ pc[t] = "verify" /\ NobodySaving
  /\ Save(t, [cache[t] EXCEPT !.state = "DONE"])
  /\ torn' = TRUE
  /\ Goto(t, "saving")
  /\ UNCHANGED <<log, path, file, up, wb, txn, todo, exec, handlers, history>>

\* The verifier returned; workbook.save truncates current.xlsx and fills it.
BeginSave(t) ==
  /\ pc[t] = "verify"
  /\ NobodySaving
  /\ torn' = TRUE
  /\ Goto(t, "saving")
  /\ UNCHANGED <<row, log, path, file, up, locals, handlers, history>>

EndSave(t) ==
  /\ pc[t] = "saving"
  /\ file' = wb[t]
  /\ torn' = FALSE
  /\ Goto(t, "finish")
  /\ UNCHANGED <<row, log, path, up, locals, handlers, history>>

\* Mutant: workbook_path is not pointed at the file just saved.
Finish_KeepsPath(t) ==
  /\ pc[t] = "finish"
  /\ Save(t, [cache[t] EXCEPT !.state = "DONE"])
  /\ Goto(t, "closing")
  /\ UNCHANGED <<log, path, file, torn, up, wb, txn, todo, exec,
                 handlers, history>>

Finish(t) ==
  /\ pc[t] = "finish"
  /\ Save(t, [cache[t] EXCEPT !.state = "DONE"])
  /\ path' = "current"
  /\ Goto(t, "closing")
  /\ UNCHANGED <<log, file, torn, up, wb, txn, todo, exec, handlers, history>>

-----------------------------------------------------------------------------
(* Failures inside a task, and its end.                                      *)

\* The planner, the executor, Workbook.apply, the verifier or a file raises.
\* Nothing rolls the open transaction back.
Raise(t) ==
  /\ pc[t] \in {"book", "plan", "exec", "apply", "verify", "saving"}
  /\ Goto(t, "failing")
  /\ UNCHANGED <<durable, up, locals, handlers, history>>

\* The database raises: the transaction is gone and the session reloads.
DbRaise(t) ==
  /\ DbErrors
  /\ pc[t] \in {"load", "book", "plan", "exec", "apply", "finish"}
  /\ txn' = [txn EXCEPT ![t] = {}]
  /\ cache' = [cache EXCEPT ![t] = row]
  /\ Goto(t, "failing")
  /\ UNCHANGED <<durable, up, wb, todo, exec, handlers, history>>

\* _mark_failed commits the FAILED state in the session the exception left
\* open, with whatever audit rows were flushed there; if that commit fails it
\* is logged and the row stays as it was.
MarkFailed(t) ==
  /\ pc[t] = "failing"
  /\ \/ /\ Save(t, [cache[t] EXCEPT !.state = "FAILED"])
        /\ log' = log \cup txn[t]
        /\ UNCHANGED abandoned
     \/ /\ DbErrors
        /\ abandoned' = TRUE
        /\ UNCHANGED <<row, cache, log>>
  /\ txn' = [txn EXCEPT ![t] = {}]
  /\ Goto(t, "closing")
  /\ UNCHANGED <<path, file, torn, up, wb, todo, exec, handlers,
                 turns, execs, crashes, interrupted>>

\* The coroutine returns.  (Its finally clause drops the session's entry of
\* _running_tasks, which only resume() reads, called by the startup scan when
\* there is none.)
Exit(t) ==
  /\ pc[t] = "closing"
  /\ Goto(t, "free")
  /\ UNCHANGED <<durable, up, locals, handlers, history>>

-----------------------------------------------------------------------------
(* The process.                                                              *)

Idle ==
  /\ pc' = [t \in Tasks |-> "free"]
  /\ cache' = [t \in Tasks |-> NoRow]
  /\ wb' = [t \in Tasks |-> {}]
  /\ txn' = [t \in Tasks |-> {}]
  /\ todo' = [t \in Tasks |-> 0]
  /\ exec' = [t \in Tasks |-> 0]
  /\ rpc' = [r \in Requests |-> "idle"]
  /\ rcache' = [r \in Requests |-> NoRow]

Crash ==
  /\ up
  /\ crashes < MaxCrashes
  /\ crashes' = crashes + 1
  /\ up' = FALSE
  /\ interrupted' = (interrupted \/ row.state \in Running)
  /\ Idle
  /\ UNCHANGED <<durable, turns, execs, abandoned>>

\* Mutant: the startup scan looks for PLANNING and EXECUTING rows only.
Restart_SkipsVerifying ==
  /\ ~up /\ up' = TRUE
  /\ IF row.state \in {"PLANNING", "EXECUTING"}
     THEN abandoned' = FALSE /\ \E t \in Tasks : Spawn(t)
     ELSE UNCHANGED <<pc, abandoned>>
  /\ UNCHANGED <<durable, locals, handlers, turns, execs, crashes, interrupted>>

\* lifespan: resume_all spawns a task for a turn that is not over; an
\* exception there is logged and the process serves without it.
Restart ==
  /\ ~up
  /\ up' = TRUE
  /\ IF row.state \in Running
     THEN \/ /\ \E t \in Tasks : Spawn(t)
             /\ abandoned' = FALSE
          \/ /\ DbErrors
             /\ abandoned' = TRUE
             /\ UNCHANGED pc
     ELSE UNCHANGED <<pc, abandoned>>
  /\ UNCHANGED <<durable, locals, handlers, turns, execs, crashes, interrupted>>

-----------------------------------------------------------------------------
Init ==
  /\ row = NoRow
  /\ log = {}
  /\ path \in {"current", "original"}   \* original once a file was uploaded
  /\ file = {}
  /\ torn = FALSE
  /\ up = TRUE
  /\ pc = [t \in Tasks |-> "free"]
  /\ cache = [t \in Tasks |-> NoRow]
  /\ wb = [t \in Tasks |-> {}]
  /\ txn = [t \in Tasks |-> {}]
  /\ todo = [t \in Tasks |-> 0]
  /\ exec = [t \in Tasks |-> 0]
  /\ rpc = [r \in Requests |-> "idle"]
  /\ rcache = [r \in Requests |-> NoRow]
  /\ turns = 0 /\ execs = 0 /\ crashes = 0
  /\ interrupted = FALSE /\ abandoned = FALSE

Start(r) == StartLoad(r) \/ (\E t \in Tasks : StartCommit(r, t)) \/ StartFails(r)

TaskStep(t) ==
  \/ LoadRow(t) \/ LoadBook(t) \/ PlanDone(t)
  \/ ExecuteStep(t) \/ ApplyAction(t) \/ StepCommit(t)
  \/ EnterVerifying(t) \/ BeginSave(t) \/ EndSave(t) \/ Finish(t)
  \/ Raise(t) \/ DbRaise(t) \/ MarkFailed(t) \/ Exit(t)

Next ==
  \/ \E r \in Requests : Start(r)
  \/ \E t \in Tasks : TaskStep(t)
  \/ Crash
  \/ Restart

Spec == Init /\ [][Next]_vars

\* The event loop runs every task that can go on, calls to the model and the
\* database return or raise, and a supervisor restarts a dead process.
\* Nothing obliges a client to send a prompt.
FairSpec == Spec /\ (\A t \in Tasks : WF_vars(TaskStep(t))) /\ WF_vars(Restart)

-----------------------------------------------------------------------------
\* The row, the audit log, the files, and the coroutines' locals have
\* their types; above all no task counts a step its plan does not have.
TypeOK ==
  /\ row \in Row
  /\ log \subseteq AuditRow
  /\ path \in {"current", "original"}
  /\ file \subseteq Write
  /\ torn \in BOOLEAN /\ up \in BOOLEAN
  /\ interrupted \in BOOLEAN /\ abandoned \in BOOLEAN
  /\ pc \in [Tasks -> PCs]
  /\ cache \in [Tasks -> Row]
  /\ wb \in [Tasks -> SUBSET Write]
  /\ txn \in [Tasks -> SUBSET AuditRow]
  /\ todo \in [Tasks -> 0..MaxActions]
  /\ exec \in [Tasks -> 0..MaxExecs]
  /\ rpc \in [Requests -> {"idle", "loaded"}]
  /\ rcache \in [Requests -> Row]
  /\ turns \in 0..MaxTurns /\ execs \in 0..MaxExecs /\ crashes \in 0..MaxCrashes

\* Rows of the turn the orchestrator row belongs to.
ThisTurn == {a \in log : a.write.turn = row.turn}
AppliedIn(rows) == {a.write : a \in {b \in rows : b.status = "APPLIED"}}

\* However often a step was executed, the audit rows it left are those of one
\* execution: a crashed execution's rows were never committed, and a
\* committed one is never run again (0003, "Idempotence guarantees").
StepRecordedOnce ==
  \A a, b \in log : a.write.turn = b.write.turn /\ a.write.step = b.write.step
                      => a.write.exec = b.write.exec

\* A turn that is DONE and that no crash interrupted has put every write its
\* audit rows call applied into the file workbook_path names (models.py,
\* ActionStatus: "the write hit the workbook").
UninterruptedTurnIsSaved ==
  row.state = "DONE" /\ ~interrupted => AppliedIn(ThisTurn) \subseteq Book

\* A pending_approval row's write is in no workbook, in memory or on disk
\* (models.py, ActionStatus: "the workbook was NOT modified").
PendingNeverWritten ==
  \A a \in log \cup UNION {txn[t] : t \in Tasks} :
    a.status = "PENDING_APPROVAL" =>
      a.write \notin file /\ \A t \in Tasks : a.write \notin wb[t]

\* A session whose last turn is DONE has a workbook that can be opened, even
\* if an earlier save was cut short by a crash.
DoneIsReadable == row.state = "DONE" => ~torn

\* While a turn lasts its index only grows, one step at a time, and the plan
\* it counts in stays the plan it was (0003: "current_step_index advances
\* monotonically").
IndexMonotone ==
  [][row'.turn = row.turn /\ row.plan # NoPlan =>
       row'.plan = row.plan /\ row'.idx \in {row.idx, row.idx + 1}]_vars

\* An accepted turn ends in DONE or FAILED, crashes and refused commits included:
\* the task either advances or raises, and the startup scan takes up what a crash
\* left.  The one way out is a database that refuses FAILED itself or the scan.
EveryTurnEnds == (row.state \in Running) ~> (row.state \in Terminal \/ abandoned)

\* The audit log, seen as the executions that left rows for each step.
Journal == {[turn |-> a.write.turn, step |-> a.write.step, exec |-> a.write.exec] :
              a \in log}

\* The row and the audit log implement the abstract turn: readers of the
\* database see whole steps only, each from one execution, phases in the order
\* of the state machine, and a failed turn's last step at worst in part.
Phases == INSTANCE RunPhases WITH
  Execs <- 1..MaxExecs,
  phase <- row.state, turn <- row.turn, plan <- row.plan, step <- row.idx,
  journal <- Journal
PhasesSpec == Phases!Spec

\* A turn that is DONE went through the whole of its plan, however often it was
\* interrupted on the way (durable.py, the loop over the steps of _run).
DoneRanWholePlan == Phases!DoneRanWholePlan

\* No audit row is ahead of the step index, but for those of the step in which
\* a turn failed, which _mark_failed commits (0003, of the rows and the index:
\* "Either both hit Postgres or neither does").
JournalBehindIndex == Phases!JournalBehindIndex

-----------------------------------------------------------------------------
(* What the repository says of the program and the code does not do.         *)

\* docs/decisions/0003: "On resume, the orchestrator reads
\* current_step_index and skips steps it has already completed" - with their
\* writes in the workbook it goes on from.
DoneTurnIsSaved == row.state = "DONE" => AppliedIn(ThisTurn) \subseteq Book

\* start() refuses a session whose row is not terminal, and docs/decisions/0003
\* ("Double-execution guard") knows two owners of a session only where two worker
\* processes come up together.  With one process: no two tasks work on the
\* session at once.  Two prompts suffice to break it, since both may read the
\* terminal row before either of them resets it.
OneWorker == \A t, u \in Tasks : Working(t) /\ Working(u) => t = u
=============================================================================
