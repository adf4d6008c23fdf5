# Shotcut in TLA+

Shotcut builds spreadsheets with language-model agents. A user uploads a
workbook, posts a prompt, and a background task plans, executes and verifies;
every cell it writes leaves a row in an audit ledger, writes to the user's own
cells wait for approval, and rows can be undone, replayed and forked. This
directory holds TLA+ models of the parts of it where order, failure and
concurrency matter, TLC configurations that check them, and TLAPS proofs.

Paths below are relative to the repository; `shotcut/` abbreviates
`src/shotcut/`.

## The system

| Component | State it keeps | Operations | Hard behaviour |
|---|---|---|---|
| Durable orchestrator `shotcut/orchestrator/durable.py`, `checkpoint.py` | one `orchestrator_states` row per session (state, plan, `current_step_index`), `_running_tasks`, `current.xlsx`, `sessions.workbook_path` | `start`, `resume`, `resume_all`, `_run`, `_mark_failed` | a task is cut at every await by requests, other tasks, crashes; commits and file saves are separate; exceptions leave transactions open |
| Event bus and stream `shotcut/orchestrator/events.py`, `shotcut/api/routes.py` | one queue per session, in memory | `emit`, `subscribe`, the stream route | readers take from one queue; the queue outlives turns; row and queue are read at different times |
| Audit ledger `shotcut/audit/undo.py`, `replay.py`, `shotcut/db/audit.py`, `shotcut/agents/orchestrator.py` | the `actions` table, `current.xlsx` | approve, reject, undo, replay | requests and a run share file and rows without a lock; a file save precedes each commit |
| Branching `shotcut/audit/branch.py` | a child session: rows, files, lineage | `fork_at` | two reads of the parent with an await in between; renumbered rows, links to rows that may be missing |
| Occupancy `shotcut/spreadsheet/occupancy.py` | the cells of the original upload | `from_original`, `check` | which action needs approval: ranges, merges, styles, spelling of addresses |
| Workbook, actions, evaluator `shotcut/spreadsheet/*.py` | an openpyxl workbook, evaluator cache | apply with a snapshot, clone, save, evaluate | what a snapshot can give back; dirty flag |
| Planner, executor, verifier `shotcut/agents/*.py`, `shotcut/llm/client.py` | none | model calls, tool loops, findings | findings are about a workbook that does not exist yet; a loop that only its count of rounds ends; replies that do not parse |
| Researcher and fact cache `shotcut/agents/researcher.py`, `shotcut/research/cache.py`, `edgar.py` | `financial_facts` rows, a conversation | rounds of tools, `put_many` | concurrent upserts, transactions nobody rolls back, fetches that raise or hang |
| Rate limiter `shotcut/research/rate_limit.py` | tokens, time of the last refill, a lock | `acquire` | late wake-ups, a queue of callers, a second's worth of burst |
| Tenancy, tokens `shotcut/auth/*.py`, `_load_scoped_session` of the routes | the tenant of each row, a setting of the open transaction | `get_current_user`, `scope_to_tenant` | processes with and without authentication, rows older than tenants; the setting ends with its transaction |
| Startup `shotcut/main.py` | - | resume every unfinished turn | one failure must not stop the rest |
| Observability `shotcut/observability/*.py` | the current span, a context variable; counters | `start_span`, `traced_create`, `traced_parse` | tasks interleave inside spans; exceptions and cancellation unwind them; the backend may fail |
| Evaluation `evals/*.py` | `golden/cases.py`, cassettes, `baseline.json`, each edited by itself | `evals.cli`: replay, score, gate | any combination of the files; a gate must not be green for the wrong reason |
| Storage, scan, parser, diff, validator, audit report | files | - | see "Not modelled" |

How they interact: a route calls `start`, which commits the row and spawns the
task; the task calls the agents (external, they answer or raise), asks the
occupancy map about each action, writes to its workbook in memory, records
ledger rows, commits, emits events, and saves the file at its end; approve,
reject and undo handlers change the same file and ledger; replay and branching
read the ledger; the startup scan re-spawns tasks from rows. The researcher
talks to EDGAR through the rate limiter and to the fact table through its
caller's database session.

What makes each correct:

* orchestrator: one task per session (which two prompts can break); every step
  recorded by one execution; a done turn went through its plan and its writes are
  in the workbook; a write that awaits approval is in none; every turn ends;
* stream: an end that is heard is durable, progress goes forward, every stream
  ends with its own turn;
* ledger: replay and the live workbook agree; undo puts back what was there; a
  row is decided once; an undone row is followed by its inverse;
* branching: the child's file is what the child's ledger replays to, and its
  inverses name the rows they undo;
* gate and verifier: a user's cell changes by approval only; a finding reaches
  the action it is about; the report foresees what approvals lead to;
* researcher and cache: every tool use is answered, what was fetched is
  returned, and the table holds whole fetches in commit order;
* limiter: no more acquisitions over any stretch than the bucket allows;
* calls: a tenant's session is prompted by that tenant only; the open spans of a
  task are a tree of its own; costs and errors count every call once, and a
  tenant pays for its calls; every request and turn ends;
* evaluation: the gate is never green for a required case that is wrong, never
  red without a difference, a report names what differs and stderr what failed.

## Modules

| Module | Models | Runs | Proofs |
|---|---|---|---|
| `RunPhases` | the abstract turn: what a reader of the row and the ledger is promised | as `PhasesSpec` of `durable` | `DurableRunProofs` |
| `DurableRun` | the orchestrator with tasks, transactions, files, crashes; implements `RunPhases` | `durable`, `durable_lost`, `durable_double` | `DurableRunProofs` |
| `EventStream` | bus, streams and what a run does to them | `stream` | `EventStreamProofs` |
| `SessionLedger` | approve, reject, undo and a run over one ledger and one file; replay | `ledger` | `SessionLedgerProofs` |
| `Branch` | `fork_at`; extends `SessionLedger` | `ledger` | `SessionLedgerProofs` |
| `SheetTurn` | the gate, the workbook's operations, the synchronous turn with its verifier, sequential requests | `sheet`, `sheet_spelled` | `SheetTurnProofs` |
| `Research` | researchers, EDGAR fetches and the fact table | `research` | `ResearchProofs` |
| `RateLimiter` | the token bucket and its queue of callers | `rate_bucket` | `RateLimiterProofs` |
| `AgentCalls` | requests and their tenants, the agents' model calls, spans and counters | `agent_calls` | `AgentCallsProofs` |
| `Evals` | the evaluation gate, from its files to its exit code | `evals`, `evals_drift` | `EvalsProofs` |

`MC*.tla` extend each for TLC with symmetry sets or instances of data.
Definitions named `<Definition>_<Change>` are mutants: the definition with a
plausible bug, kept beside it to show that the properties notice. `SessionLedger`
and `SheetTurn` look at the same requests from two sides: the first cuts them at
their awaits and keeps of a cell only who wrote it, the second runs them one
after the other and tells apart what is in a cell.

### DurableRun

State: `row` is the `orchestrator_states` row, `log` the committed audit rows,
`file`/`torn` the contents of `current.xlsx` and whether it was cut short,
`path` the session's `workbook_path`; `pc`, `cache`, `wb`, `txn`, `todo`, `exec`
are a task's coroutine: where it is, its session's copy of the row, its
workbook, its flushed rows; `rpc`, `rcache` are prompt handlers.

An action is what runs between two awaits. `StartLoad`/`StartCommit`/
`StartFails` are `start()` around its await; `LoadRow`, `LoadBook`, `PlanDone`,
`ExecuteStep`, `ApplyAction`, `StepCommit`, `EnterVerifying`, `BeginSave`,
`EndSave`, `Finish` are `_run` in its order; `Raise`, `DbRaise`, `MarkFailed`,
`Exit` are its `except` and `finally`; `Crash` forgets everything volatile, at
any await and between `BeginSave` and `EndSave`, and `Restart` is `lifespan`.
SQLAlchemy's unit of work writes changed columns only: `Flush` says so, because
two tasks' rows then merge instead of overwriting each other. A plan is its
length, an action a write that conflicts or does not. `interrupted` and
`abandoned` are history: whether the process died under the turn, and whether the
database refused its FAILED or its resume, which leaves a running row with no task
and nobody to try again before the next start.

The registry `_running_tasks` is not a variable: only `resume()` reads it, and
the one caller of `resume()` under `src/` is the startup scan, which runs while
the registry is still empty.

`RunPhases` sees the row and, of the log, which executions left rows
(`Journal`). Its `Fail` allows the one thing the code forces on it: a failing
turn may leave rows of the step it was in.

### EventStream

The run is reduced to the order of its commits and emits. Prompts are serial
here, and one turn then has one task (`WorkerInv` of the proofs about
`DurableRun`). `CommitFailed` is an exception and `_mark_failed`'s commit, which
the database may refuse too: it is logged, the FAILED event goes out all the
same, and the row stays running with no task. `Connect` reads the row and decides
between the synthetic terminal event and the queue; `Take` removes the event for
everybody; `Deliver` is the generator's yield. `drop()` has no caller and is
left out. Timeouts (keepalives) carry no state.

### SessionLedger

A handler is cut into `Open` (session row read), `Read` (action row read, status
checked), `Act` (load, apply, save: no await in between), `Number` (next
sequence) and its commit. The run keeps its workbook in memory from `RunStart`
to `RunSave`, and requests go on meanwhile: nothing in the code keeps them apart.
`ReplayOf` is `replay_to` of one cell. Its query orders rows by sequence and by
nothing else, and two rows can have one sequence, so it is a set: the values of
the cell's rows of the last sequence. Cells hold the number of the write
that filled them, so a value tells its origin. The history variables `late`,
`contested`, `crossed` and `lost` name the cells of which the code breaks the
agreement between replay and workbook: approved behind a later write; worked on
by two requests at once; written by a request while a run had the workbook in
memory; or written by a run that failed or was killed before its save, by a
request killed between its save and its commit, or overwritten by a request that
had read the session's path before it moved. Every other cell (`InOrder`) is
claimed to agree, and does; what the documents say of the four kinds of cells
too is stated at the end of the module and refuted (see "Runs"). Uploading again during a session is
not modelled, so `path` never returns to the original.

### Branch

`fork_at` is `ForkReplay` (replay the rows up to the fork, save the child's
workbook) and, after its awaits, `ForkCopy` (read the rows again, copy them
renumbered from one, link the inverses anew, commit). Both queries order by
sequence alone: the workbook is any that `ReplayOf` allows, the copied rows come
in any of `Orders`, and the two choices are independent. `ParentWorks` lets the
parent's requests and runs go on up to the copy, and `moved` is history: the
cells of rows that changed between the two reads. A behaviour ends with the fork. Inverses beyond the fork are not copied although
the row they undo is; the child then has an undone row that replay applies, as
the parent had at the fork. Where two rows of one cell share its last sequence
(`Tied`), the child's workbook and its ledger may differ in that cell.

### SheetTurn

The workbook is one row of cells: per cell a value (empty, number, text, or the
one formula, over `Hub`), a number format, a font, its column's width, and its
part in a merge. An action has the cells it means and the form in which its
target is written: `plain`, `range`, or `spelled`, which is any other spelling
of one address. `ActionCells` is what the occupancy map, and the verifier's
attribution, make of it; `Apply` is what the workbook does. `Stage` and
`Perform` are the two branches of the executor's loop, `CommitStep` its commit,
`Verify` the verifier on its clone and the attribution, `SaveTurn` the save,
`TurnFails` an exception anywhere. `Approve`, `Reject`, `Undo` are the requests,
whole. A formula's fault is a cycle or a text operand, which the verifier calls
critical; its warnings change nothing. Sheets are not added.

### Research

A researcher's conversation is its reply's tool uses (`uses`) and the results
so far (`answers`); `collected` is what it will return. `Tool` dispatches,
`Fetched`/`FetchFails`/`FetchHangs` are the outcomes of
`get_financial_statements`, `Store`/`Commit`/`StoreFails`/`StoreRefused` the
fact table. A key is (statement, period label): the company and the metric do
not matter to the properties. The label is the income statement's, empty when it
has no columns, which makes fetches of different periods share keys. An upsert
locks its rows until the transaction ends; nobody rolls a failed one back.
`research()` has no caller under `src/`: each is taken to have a session of its
own that its caller closes. `cache.get` has no caller either, although
`researcher.py:10` speaks of a cached read, and is left out with expiry.

### RateLimiter

Time is discrete and a token is worth `TicksPerSecond` shares, which keeps every
amount whole; floating-point rounding is what is left out. `Take`, `Sleep` and
`Wake` are the branches of `acquire`; a sleeper wakes as late as it likes.

### AgentCalls

A task is one request and, for a prompt, the turn it spawns; or a turn the
startup scan resumes, one of the synchronous orchestrator, or an evaluated case.
`Request`, `Authenticate`, `Create` and `Prompt` are the routes with
`get_current_user` and `_load_scoped_session`. A token is what verifying it
gives: nothing, a user without the tenant claim, or a tenant's user, and the
tenant may be any UUID, the sentinel's of `AUTH_DISABLED` too. `Disabled`
says with which settings of `auth_disabled` the processes over one database run.
`Call` opens the agent's span and the call's inside it; `Planned`, `Executed`,
`Verified` and `Unparsed` are a call that returned, in the agent's loop;
`CallFails`, `Raise` and `Cancel` leave all with-blocks. `blocks` are a task's
open with-blocks, each with the token that resets the context variable and the
parent its span was given; `Opened`, `Left` and `Unwound` are `start_span` up to
its `yield`, after it, and an exception through all of them. `asyncio` copies
the context for each task, so `Context(t)` is `t`. Amounts (tokens, prices) are
left out: the counters count calls, modulo `Modulus`, since only how they differ
matters.

### Evals

The cases, the cassettes, the baseline and which files of the bench data set are
missing are chosen in `Init`, in any combination. `GoldenCase` and `BenchCase`
run one case, and raise where the code does: a cassette the schema refuses
(`GoldenCase`), a manifest or expected file that is not there (`BenchRaises`).
`Applied` is `Workbook.apply` over the cassette, `Score` and `Compare` the
scorer. `Judge` is the gate with its exit code and what it writes to stderr. A
formula refers to one cell, so that `Evaluate`, the engine, finds cycles,
missing sheets and unknown functions. The bench gate subtracts floats, so
`BenchHolds` allows both answers where the drop is exactly the tolerance.
`GateIsRight` and the others compare all this with `Differing` and `Drifts`,
which say what a reproduced workbook is without the scorer's steps. Whether a
drift fails its case is where documents and code part: the properties that pass
leave it open, and `evals_drift` shows what the code does.

## Runs

Passing runs, with their bounds and why these are enough:

| Run | Question | Bounds |
|---|---|---|
| `durable` | serial prompts, crashes, refused commits: one execution per step, saved turns, readable file, withheld writes, refinement of `RunPhases`, every turn ends | 2 turns, plans of 0..2 steps, 0..1 actions a step, 3 executions, 2 crashes: a step can be executed before and after a crash, a resumed run is interrupted again, either turn may fail, and a second turn starts on what the first left |
| `stream` | what clients hear, in which order, and that a stream with the queue to itself ends | 2 streams that connect twice in all, 2 turns of 0..1 steps, 1 crash, refused commits |
| `ledger` | undo, replay and a fork with two requests interleaved with each other and a run that may fail, and a crash | 2 handlers, 2 requests, 2 cells, 3 rows, starting on the upload or on a saved workbook: a write, its undo and one row more; two staged writes approved in either order; a request during a run; a fork before, between or after any of these. The fork's part is bounded further (`ForkBound` of `MCBranch`): it starts before the crash, and from then on at most one request is in flight, next to the run, so that rows of one sequence come from a request and the run or from requests before the fork |
| `sheet` | gate, findings, report, undo | 3 cells (free, user's merge anchor, spanned), 2 turns, 3 rows: a staged cell, a staged range over it and a performed action, or an approved row and its undo |
| `research` | answers, completeness, the table, and that a research ends | 2 researchers, one round each of up to three uses, so that a failed store is followed by another fetch, and both sessions meet at the same keys |
| `rate_bucket` | the bucket's bound and a count that is never negative | 12 ticks of 1/3 second, rate 2, 8 calls: the bucket empties twice |
| `agent_calls` | tenants, spans, counters, and that every request and turn ends | 2 tasks of any kinds, 2 tenants and the sentinel (also as a token's tenant), one session older than tenants and one that may be created, plans of 0..1 steps, 2 rounds, 1 lost span, counters modulo 4: two calls interleave, fail and are cut inside each other's spans, and a session is created in one task and prompted in the other, with and without authentication |
| `evals` | the gate's answer, its reports and its stderr | 2 case ids in any order or not listed, any expected files missing, 3 expected workbooks, 10 cassettes (none, stale, equal, equal in value, cyclic, cut short, unknown function, added and duplicate sheets), 6 baselines, 2 differences a report: reports are exact, full and cut |

Deadlock checking is off everywhere: a session with no prompt left, a finished
research, or a bound reached, stops rightly.

Runs that end in a violation, each against what the repository says of itself
(`PROJECT.json` quotes the lines):

| Run | What the code does |
|---|---|
| `durable_lost` | a crash after a committed step loses its writes: the resumed run skips the step and works on the file from before |
| `durable_double` | two prompts that overlap both pass the guard of `start()`, and two tasks drive the session |
| `sheet_spelled` | a target spelled `$B$2` or `b2` passes the gate and overwrites the user's B2 |
| `evals_drift` | a formula of the same value as the expected one fails its case |

Nine more claims of the documents are stated at the end of the modules, each with
the line it comes from, and TLC refutes each under the constants of the module's
passing run. They are no runs of their own, being of the same kind as the ones
above or milder:

| Module, constants of | Claim | What the code does |
|---|---|---|
| `EventStream`, `stream` | `EveryStreamEnds` | of two streams on one turn only one ends: they share a queue (events.py:64) |
| `EventStream`, `stream` | `FailedEventIsDurable` | a client is told of a failure that could not be stored: the row stays running, with no task, until the next start (durable.py:173) |
| `SessionLedger`, `ledger` | `AppliedStaysInTheFile` | a run's save overwrites what was approved while it ran (durable.py:313) |
| `SessionLedger`, `ledger` | `ReplayIsWhatIsObserved` | approvals in another order than staging part replay and workbook (replay.py:63) |
| `SessionLedger`, `ledger` | `PendingIsNotInTheFile` | a crash between an approval's save and its commit leaves a pending row's write in the file (agents/orchestrator.py:262) |
| `SessionLedger`, `ledger` | `TerminalIsNeverRevisited` | an approval that read the row before a rejection makes the rejected row APPLIED (agents/orchestrator.py:264) |
| `AgentCalls`, `agent_calls` | `TenantPays` | the calls of a tenant's durable turn are counted for no tenant (durable.py:215) |
| `Evals`, `evals` | `RejectedIsErrored` | a cassette the schema refuses raises out of the command: no verdict and no line for any case (evals/cli.py:58) |
| `Evals`, `evals` | `MissingIsTold` | a required case that is not listed makes the gate red, and no line names it (evals/cli.py:150) |

For each there is, among the passing runs, the property that holds where the
disagreement does not reach: `UninterruptedTurnIsSaved` for turns no crash cut,
`DoneEventIsDurable` for DONE, `LoneStreamEnds` for a stream with the queue to
itself, `OnTimeReplayMatchesLive`, `StagedStaysOut` and `DecidedOnce` for cells
no race or failure touched, `CountsAgree` for the sum over the tenants,
`GateIsRight` and `TriageTellsTheCause` for all that is not a drift, refused or
not listed.

Other disagreements met while modelling, which the models show but no definition
states:

* orchestrator: a failed run leaves rows that say applied and saves nothing;
  `_mark_failed` commits the flushed rows of the interrupted step;
* stream: nothing calls `drop()` (events.py:70), so what nobody took of one turn is
  heard in the next, and its terminal event ends the next turn's stream;
* ledger: two requests, or a request and a run, may take one sequence number; two
  approvals may both start from the original file;
* branching: a fork while a row is decided parts the child's file from its rows,
  as do two rows of one cell with one sequence;
* sheet: a pending range over a merge cannot be applied to the verifier's clone,
  which fails the turn although findings on pending actions are called
  informational; undoing a format does not bring back what `format_cell` cannot
  name, and undoing a write to a spelled target empties the cell;
* research: no filings make `next()` raise `StopIteration` in a thread, which
  CPython 3.11 cannot pass to the awaiting task: the call hangs instead of
  raising `EdgarClientError`; `EveryResearchEnds` leaves exactly this out;
* limiter: a full bucket and its refill allow up to `2 * rate - 1` calls in less
  than a second;
* calls: docs/decisions/0006-observability.md:35 makes `session.turn` the root
  span, and durable.py opens none, so the spans of a prompt's turn are roots; a
  call cut short at shutdown is in no counter;
* evaluation: cells only the actual workbook fills are not looked at; a stale
  cassette ends the command also for a case the baseline does not require.

## Fairness

Only `durable`, `stream`, `research` and `agent_calls` assume any. In
`DurableRun` and `EventStream`: weak fairness of each task's and each stream's
next step (the event loop runs what is ready; the model client and the database
answer or raise, and raising is an outcome as good as any), and of `Restart` (a supervisor restarts the process). In
`Research`: weak fairness of each researcher's `Works`, which is not enabled
while another session holds the locks it needs; failures and hangs are never
obliged to happen. In `AgentCalls`: weak fairness of what a turn does by itself
(`Proceeds`); which outcome a call has is free. Clients are never obliged to
send, connect or approve. Crashes are bounded, as in any statement that
something ends.

## Proofs

Checked by TLAPS for all values of the constants, from the named `ASSUME`s of
the modules, which TLC evaluates in the runs:

* `DurableRunProofs`: `TypeCorrect` needs no assumption on prompts.
  `StepsRecordedOnce`, `DoneMeansWholePlan`,
  `RowsFollowIndex`, `IndexOnlyGrows` and `RunImplementsPhases` assume
  `SerialStarts`: at most one prompt handler at a time. Nothing in the code sees
  to that, and with two of them TLC refutes each of these: what `durable_double`
  shows of the task is the root of it. They say what a session is promised whose
  client waits for one answer before it prompts again.
  `WorkerInv` and `PhaseInv` tie the one working task to the
  row (its copy is the row; the row is running while it works, or the task is
  about to exit), and the log and the task's flushed rows to the index: rows of
  this turn are behind it, or of the step being executed and of that execution.
  The refinement maps each action to one of `RunPhases` or a stutter.
  `OneExecutionPerStepHolds` and `JournalHolds` are about `RunPhases` itself: what
  any row and journal guarantee that behave like it. Their invariant (`TurnInv`)
  adds that an entry lies behind the index, so that a step's next execution finds
  none of its own.
  `PendingStaysOut` is again without any assumption on prompts, from
  `WritesInv`: executor calls are numbered, no two tasks apply the actions of
  one, and the write a task comes to next is in no workbook, file or row yet, so
  that performing it cannot perform a withheld one. `AppliedIsSaved` and
  `DoneFileIsWhole`, again for serial prompts, add `SavedInv`: until a crash, what this turn's rows applied
  is in the task's workbook, and `Finish` follows a completed save.
* `EventStreamProofs`: `CompletionIsDurable` (of DONE; of FAILED it is false) and
  `ProgressGoesForward`. An event
  is in the queue, in a stream's hand or with its client; the invariant says of
  each place that its events lie no later than the row (`TransitInv`) and that
  what a stream may still get is not before what it last had (`OrderInv`): the
  queue is in the order of the run, and taking its head keeps both.
* `SessionLedgerProofs`: in three layers. `Serves`: types, a
  numbered request's sequence lies above the row it undoes, what a request
  checked is still so unless another one works on the cell, an undone row has its
  inverse behind it; from it `InversesComeLater` and `DecisionsAreFinal`, over
  any mix of requests and runs. `Keeps`: a value was written once and its row
  dates it, and a withheld value is in no workbook at hand; from it
  `WhatIsStagedStaysOut`. `Tells` is about the cells in `InOrder`, with requests during
  runs and failures elsewhere in the workbook, and says what workbook a cell has
  at each point of a request or a run in terms of the rows: `RowsOrdered` (the
  cell's rows have sequences of their own), `Numbers` (a numbered row comes after
  them), `RowsPast` and `PutsBack` (a snapshot is what replay gives just before
  its row, an inverse puts that back), `Present` (the workbook is the replay, plus
  the one write under way), `Apart` (no request writes the cell while a run has
  the workbook, and what the run flushed comes after the cell's rows).
  `LedgerTellsTheFile` and `UndoGoesBack` follow, unconditionally: the cells they
  leave out are the history variables', not an assumption on who comes when.
  Where sequences are shared by rows of other cells, replay of this one is the
  same (`Shows`, `ShowsIs`). The module ends with the fork:
  `ForkMatchesItsLedger` and `ForkKeepsTheChain`, over any parent (`Serves` is
  all they need of it) and any of the orders its queries may give. `CopyFields`
  is the renumbering: an order names every copied row once, with sequences that
  never go down, and a copy's link is an earlier copy of what its row undoes.
  `Links` says of the parent's inverses what `ChildLinksHold` says
  of the child's, and `ReadsHold` that what was read first is still so for every
  cell that did not move.
* `ResearchProofs`: `ResearchTypes`, `EveryUseGetsItsResult`,
  `NothingFetchedIsMissing`, `TableIsWholeFetches`, `ToldFetchesAreStored`. The
  invariant says that what a session stores or commits is one whole fetch
  (`FetchInv`), counts answers against uses by where the round is (`AnswerInv`),
  and keeps the locks of two sessions apart (`PlaceInv`), so that the order of
  commits is the order in which a key's facts were laid over each other: what is
  at a key of a told fetch is of that fetch or of one committed after it.
* `SheetTurnProofs`: `TypeCorrect`, and `GateHolds` under `NoSpelling` (no
  action has another spelling of its target), which `sheet_spelled` shows to be
  needed. `UserCellsNeedApproval` alone is not inductive: `GateInv` adds that an
  applied row that changes a value or a style means user cells only where an
  approved row means them too, and that approved rows are committed, so that a
  failing turn never takes one along.
  `FindingsReach` and `ForecastHolds` need no `NoSpelling`; they are about the
  clone, a recursive function over the ledger, and rest on three lemmas:
  `AfterSame` (only the actions of the chosen rows count), `AfterWrites` (a cell's
  value changes by a chosen write to it) and `AfterCommutes` (a row that overlaps
  no earlier one may go first). `RecordInv` adds that what is withheld is found by
  its cells and that an applied row recorded the cells before and after, and
  `ForecastInv` that no report is outstanding during a turn.
  `UndoGivesBack`, under `NoSpelling`, is the algebra of the inverse (`Unchanged`)
  on what `RecordInv` says the row recorded; `RowsAfter` says once, for all
  actions, what a step makes of each row.
* `RateLimiterProofs`: `BucketBoundHolds` and `TypeCorrect`. The invariant
  (`Balance`) bounds, for each past grant, all grants since plus the tokens left
  by the capacity and what was replenished since that grant; `SleepsLongEnough`
  is why a sleeper's token is there when it wakes.

* `AgentCallsProofs`: `TenantsStayApart`, `SpansNestHolds` and `CountsAgreeHolds`. `TenancyInv` ties
  the tenant of a row to the request that created it and that request's tenant to
  its token, and says that two creating requests never hold one id. `SpanInv` is
  one chain per task: each block's token is the current span of before it was
  entered, so that leaving it gives its surroundings back; the lemmas
  `OpenedChains`, `LeftChains` and `UnwoundChains` say so of the three ways to
  change it. `CountInv` is why the counters tell what the spans tell: the calls
  that ended with no span, and those under way that will, are no more than the
  spans lost (`Tally`), no block but a call's is a model call's, and an account
  that was charged has a turn of its own (`Served`). A counter goes round, so it is
  compared with the number of events by remainders (`Same`, `SameBump`), and
  `SumChanges` says what one more call does to the sum over the tenants.

* `EvalsProofs`: `GateDecidesRight`, `ReportsNameDifferences`, `TriageIsTold` and
  `BenchGateDecidesRight`, for workbooks, cassettes, manifests and limits of any
  size. `ProducedIsRun` follows a replay action by action, `DiffsAre` compares
  the walk of `_compare_cell` with the definition by sets (one difference for
  each address that differs), and `ScoreIs` carries it through the list and its
  cut: the list has no address twice, so that a cut one is as long as the limit
  and leaves something out. `GateInv` says that the results so far are those of
  the first cases, that the verdict waits for all of them, and what it was
  computed from.

A recursive function is proved about without an induction theorem that takes a
predicate: the natural numbers are well-founded (`LeastNat`), so a set that
holds 0 and with each number the next holds all of them (`Reaches`), and the set
is the numbers up to which the function, or the sum of a set of that size, is as
claimed.

Model-checked only: liveness (`EveryTurnEnds`, `LoneStreamEnds`,
`EveryResearchEnds`, `TurnEnds`: fairness and ENABLED are out of the prover's reach);
and what the engine's `Evaluate` computes, of which the theorems about `Evals`
use only that the scorer and the report ask it the same question.

## Plan

Built in this order: `RunPhases`, `DurableRun` and their proofs, `EventStream`,
`SessionLedger`, `RateLimiter` and its proofs, `Branch`, `SheetTurn` and its
proofs, `Research`, `Evals`, `AgentCalls` and its proofs; then the proofs of
`EventStream`, `Research`, `SessionLedger`, `Branch` and `Evals`. Next:

1. A second upload in `SessionLedger`, also during a run; added sheets in
   `SheetTurn`.
2. `FormulaCheck`: the validator against a reference definition.

## Not modelled

* Formatting and parsing of documents and reports (`audit/export.py`,
  `spreadsheet/parser.py`, `diff.py`), the formula validator, path handling
  (`storage.py`), content checks of one upload (`security/scan.py`), migrations
  and configuration: no state that several actors share.
* The key set behind tokens and its cache, which are PyJWT's, and the row-level
  policies behind `scope_to_tenant`, which are PostgreSQL's: `AgentCalls` takes
  what they answer.
* The request counters of the HTTP middleware, token counts and prices.
* The evaluator's dirty flag: nothing under `src/` changes a workbook that it
  has evaluated before.
* The periods and citations of EDGAR statements, and how many requests edgartools
  makes for one call.
