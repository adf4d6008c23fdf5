----------------------------- MODULE RunPhases -----------------------------
(***************************************************************************)
(* What one session's durable turns promise to whoever reads the           *)
(* orchestrator_states row and the audit log, with no task, no process and *)
(* no transaction in sight: the phase diagram of OrchestratorStateEnum and *)
(* of docs/decisions/0003-durable-execution.md, and a journal that gains   *)
(* the audit rows of a plan step together with the advance of the step     *)
(* index, from a single execution of that step.                            *)
(*                                                                         *)
(* The one concession the code forces on the promise is in Fail: a turn    *)
(* that fails part way through a step may leave rows of that step behind.  *)
(***************************************************************************)
EXTENDS Naturals

CONSTANTS
  MaxTurns,   \* accepted prompts, a bound
  MaxSteps,   \* length of the longest plan, a bound
  Execs,      \* identities of step executions
  NoPlan      \* the plan column while there is no plan

\* What the abstract turn takes for granted of the constants;
\* DurableRunAssumption implies it for the instance DurableRun makes.
RunPhasesConstants ==
  /\ MaxTurns \in Nat
  /\ MaxSteps \in Nat
  /\ NoPlan \notin Nat

VARIABLES
  phase,      \* orchestrator_states.state, "NONE" before the row exists
  turn,       \* which prompt the row belongs to
  plan,       \* number of steps of the plan
  step,       \* current_step_index
  journal     \* which executions of which steps left audit rows

phaseVars == <<phase, turn, plan, step, journal>>

Terminal == {"DONE", "FAILED"}
Running  == {"PLANNING", "EXECUTING", "VERIFYING"}
Entry    == [turn : 1..MaxTurns, step : Nat, exec : Execs]

\* The entry an execution e of the current step leaves in the journal.
EntryOf(e) == [turn |-> turn, step |-> step, exec |-> e]

Init ==
  /\ phase = "NONE"
  /\ turn = 0
  /\ plan = NoPlan
  /\ step = 0
  /\ journal = {}

\* A prompt is accepted for a new session or over a finished turn.
Begin ==
  /\ phase \notin Running
  /\ turn < MaxTurns
  /\ phase' = "PLANNING"
  /\ turn' = turn + 1
  /\ plan' = NoPlan
  /\ step' = 0
  /\ UNCHANGED journal

Plan ==
  /\ phase = "PLANNING"
  /\ phase' = "EXECUTING"
  /\ plan' \in 0..MaxSteps
  /\ step' = 0
  /\ UNCHANGED <<turn, journal>>

\* A step is over: its rows (none, if it emitted no action) and the index
\* become visible at once, and the rows are those of one execution.
CompleteStep ==
  /\ phase = "EXECUTING"
  /\ step < plan
  /\ step' = step + 1
  /\ \E e \in Execs : journal' \in {journal, journal \cup {EntryOf(e)}}
  /\ UNCHANGED <<phase, turn, plan>>

Verify ==
  /\ phase = "EXECUTING"
  /\ step = plan
  /\ phase' = "VERIFYING"
  /\ UNCHANGED <<turn, plan, step, journal>>

Complete ==
  /\ phase = "VERIFYING"
  /\ phase' = "DONE"
  /\ UNCHANGED <<turn, plan, step, journal>>

\* An exception ends the turn; the step it interrupted may be part recorded.
Fail ==
  /\ phase \in Running
  /\ phase' = "FAILED"
  /\ \/ UNCHANGED journal
     \/ /\ phase = "EXECUTING"
        /\ step < plan
        /\ \E e \in Execs : journal' = journal \cup {EntryOf(e)}
  /\ UNCHANGED <<turn, plan, step>>

Next == Begin \/ Plan \/ CompleteStep \/ Verify \/ Complete \/ Fail

Spec == Init /\ [][Next]_phaseVars

-----------------------------------------------------------------------------
\* The phases, counters and journal entries have their types, and a row past
\* PLANNING has a plan whose length bounds the index.
TypeOK ==
  /\ phase \in Running \cup Terminal \cup {"NONE"}
  /\ turn \in 0..MaxTurns
  /\ plan \in 0..MaxSteps \cup {NoPlan}
  /\ step \in 0..MaxSteps
  /\ journal \subseteq Entry
  /\ phase \in {"EXECUTING", "VERIFYING", "DONE"} => plan # NoPlan /\ step <= plan

\* Every step of a turn is recorded by at most one of its executions, however
\* often crashes made the orchestrator execute it (0003: "steps are idempotent
\* at their boundaries").
OneExecutionPerStep ==
  \A a, b \in journal : a.turn = b.turn /\ a.step = b.step => a = b

\* A turn that is DONE went through the whole of its plan.
DoneRanWholePlan == phase = "DONE" => step = plan

\* Nothing in the journal is ahead of the index, but for a failed turn's last
\* step.
JournalBehindIndex ==
  \A a \in journal :
    a.turn <= turn /\
    (a.turn = turn => a.step < step \/ (phase = "FAILED" /\ a.step = step))
=============================================================================
