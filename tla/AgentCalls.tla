----------------------------- MODULE AgentCalls -----------------------------
(***************************************************************************)
(* A turn from the request to its last model call: who may start it        *)
(* (auth/, api/routes.py), the calls its agents make (agents/planner.py,   *)
(* executor.py, verifier.py over llm/client.py), and what observability/   *)
(* keeps of them: spans, whose parent is found in a context variable, and  *)
(* counters of the process.                                                *)
(*                                                                         *)
(* Turns are tasks of one event loop, and an action is what one runs       *)
(* between two awaits.  What a turn does to the database is DurableRun's.  *)
(***************************************************************************)
EXTENDS Naturals, Sequences, FiniteSets, FiniteSetsExt

CONSTANTS
  Turns,     \* tasks
  Kinds,     \* of tasks that may begin
  Disabled,  \* values settings.auth_disabled has in the processes that serve
  Tenants,
  Sessions,  \* ids of sessions
  Legacy,    \* the sessions that are older than tenants
  MaxSteps,  \* of a plan, a bound
  MaxRounds, \* max_iterations of the executor
  MaxLost,   \* spans the tracing backend loses, a bound
  Modulus    \* of the counters, a bound

Anonymous == "anonymous" \* the sentinel tenant of AUTH_DISABLED
NoTenant  == "none"      \* NULL in a row, an empty label
Nobody    == "nobody"    \* of a session not created

\* Whom a request may be from: a token may name any UUID, the sentinel's as well.
Parties == Tenants \cup {Anonymous}

\* A bearer token: none or a bad one, one without the tenant claim, or a party's.
Tokens == {"bad", "no tenant"} \cup Parties
Agents == {"planner", "executor", "verifier"}

ASSUME AgentCallsAssumption ==
  /\ IsFiniteSet(Turns) /\ Kinds \subseteq {"create", "prompt", "resume", "sync", "eval"}
  /\ Disabled \subseteq BOOLEAN
  /\ IsFiniteSet(Tenants) /\ {Anonymous, NoTenant, Nobody, "bad", "no tenant"} \cap Tenants = {}
  /\ Legacy \subseteq Sessions

ASSUME BoundsAssumption ==
  /\ MaxSteps \in Nat /\ MaxRounds \in Nat \ {0}
  /\ MaxLost \in Nat /\ Modulus \in Nat /\ Modulus > MaxLost + 1

VARIABLES
  owner,   \* of each session, its row's tenant
  turn,    \* of each task: where it is, what it is and for whom
  work,    \* of each task: the agent it is at, steps left, rounds of the executor
  current, \* the context variable, in each task's context
  blocks,  \* of each task: its open with-blocks, with the spans they opened
  ended,   \* spans of model calls that ended, by whether an exception was recorded
  lost,    \* spans the backend lost
  errors,  \* shotcut_agent_errors_total
  calls    \* calls in shotcut_llm_cost_usd_total, by its tenant label

vars == <<owner, turn, work, current, blocks, ended, lost, errors, calls>>
tracers == <<current, blocks, ended, lost>>
counters == <<errors, calls>>

-----------------------------------------------------------------------------
\* Spans.  Those of one name follow one another in a task, which names them.
None == <<>>       \* no span
NoOp == <<"noop">> \* what start returns when the backend fails

\* Mutant: one place for the current span of the whole process.
Context_Shared(t) == CHOOSE u \in Turns : TRUE

\* A task has a copy of the context of the one that created it.
Context(t) == t

\* Counters go round: only how they differ is told apart.
Bump(n) == (n + 1) % Modulus

Tracing(t) == [current |-> current[Context(t)], blocks |-> blocks[t], ended |-> ended, lost |-> lost]

Trace(t, traced) ==
  \E v \in {traced} :
    /\ v.lost <= MaxLost /\ lost' = v.lost
    /\ current' = [current EXCEPT ![Context(t)] = v.current]
    /\ blocks' = [blocks EXCEPT ![t] = v.blocks]
    /\ ended' = v.ended

\* start_span: the parent is the current span, unless the backend lost that one.
Opened(t, v, name, kept) ==
  LET span == IF kept THEN <<t, name>> ELSE NoOp
  IN  [v EXCEPT !.current = span,
                !.blocks = Append(@, [name |-> name, span |-> span, token |-> v.current,
                                      parent |-> IF v.current = NoOp THEN None ELSE v.current]),
                !.lost = IF kept THEN @ ELSE @ + 1]

\* A span that was kept ends, with the exception or without.
Ended(v, failed) ==
  LET block == v.blocks[Len(v.blocks)]
  IN  IF block.name = "llm" /\ block.span # NoOp THEN [v.ended EXCEPT ![failed] = Bump(@)]
      ELSE v.ended

\* The innermost with-block is left, by an exception or not.
Left(v, failed) ==
  [v EXCEPT !.current = v.blocks[Len(v.blocks)].token,
            !.blocks = SubSeq(@, 1, Len(@) - 1),
            !.ended = Ended(v, failed)]

\* An exception leaves them all; a model call's is the innermost.
Unwound(v) ==
  IF v.blocks = <<>> THEN v
  ELSE [v EXCEPT !.current = v.blocks[1].token, !.blocks = <<>>, !.ended = Ended(v, TRUE)]

Unwind(t) == Trace(t, Unwound(Tracing(t)))
Goto(t, pc) == turn' = [turn EXCEPT ![t].pc = pc]

-----------------------------------------------------------------------------
Planning == [agent |-> "planner", steps |-> 0, rounds |-> 0]

\* The task is over, and its frames are gone.
End(t, pc) == Goto(t, pc) /\ work' = [work EXCEPT ![t] = Planning]

\* Requests.
Idle == [pc |-> "idle", kind |-> "none", session |-> "none", disabled |-> FALSE,
         token |-> "bad", caller |-> NoTenant]

Taken(s) == owner[s] # Nobody \/ \E u \in Turns : turn[u].kind = "create" /\ turn[u].session = s

\* create_session draws a new id; prompt_session finds any id in its path.
Request(t) ==
  /\ turn[t].pc = "idle"
  /\ \E kind \in Kinds \cap {"create", "prompt"}, s \in Sessions, token \in Tokens, d \in Disabled :
       /\ d => token = "bad" \* any: it is not looked at
       /\ kind = "create" => ~Taken(s)
       /\ turn' = [turn EXCEPT ![t] = [pc |-> "arrived", kind |-> kind, session |-> s,
                                       disabled |-> d, token |-> token, caller |-> NoTenant]]
  /\ UNCHANGED <<owner, work, tracers, counters>>

\* get_current_user, or its 401 or 403.
Authenticate(t) ==
  /\ turn[t].pc = "arrived"
  /\ turn' = [turn EXCEPT ![t] =
                IF @.disabled THEN [@ EXCEPT !.pc = "routed", !.caller = Anonymous]
                ELSE IF @.token \notin Parties THEN [@ EXCEPT !.pc = "ended"]
                ELSE [@ EXCEPT !.pc = "routed", !.caller = turn[t].token]]
  /\ UNCHANGED <<owner, work, tracers, counters>>

Create(t) ==
  /\ turn[t].pc = "routed" /\ turn[t].kind = "create"
  /\ owner' = [owner EXCEPT ![turn[t].session] = turn[t].caller]
  /\ Goto(t, "ended")
  /\ UNCHANGED <<work, tracers, counters>>

\* Mutant: rows without a tenant are everybody's.
Visible_NullToAll(s, caller) == owner[s] \in {caller, NoTenant}

\* _load_scoped_session
Visible(s, caller) ==
  owner[s] = caller \/ (caller = Anonymous /\ owner[s] = NoTenant)

\* prompt_session: start() commits and spawns the task, whose context is a copy
\* of the request's and has no span; or there is a 404, or start() refuses.
Prompt(t) ==
  /\ turn[t].pc = "routed" /\ turn[t].kind = "prompt"
  /\ \/ Visible(turn[t].session, turn[t].caller) /\ Goto(t, "ready")
     \/ Goto(t, "ended")
  /\ UNCHANGED <<owner, work, tracers, counters>>

\* A turn that is no request's.
Begun(kind, user) == [Idle EXCEPT !.pc = "ready", !.kind = kind, !.caller = user]

\* The supervisor resumes a run of some session, without a user.
Resume(t) ==
  /\ turn[t].pc = "idle" /\ "resume" \in Kinds
  /\ \E n \in 0..MaxSteps, a \in Agents :
       /\ (a = "executor") = (n > 0)
       /\ turn' = [turn EXCEPT ![t] = Begun("resume", NoTenant)]
       /\ work' = [work EXCEPT ![t] = [agent |-> a, steps |-> n, rounds |-> 0]]
  /\ UNCHANGED <<owner, tracers, counters>>

\* The synchronous orchestrator, for a user or none, and an evaluated case run
\* inside a span of their own.
BeginSpanned(t) ==
  /\ turn[t].pc = "idle"
  /\ \E kind \in Kinds \cap {"sync", "eval"}, user \in Parties \cup {NoTenant} :
       /\ kind = "eval" => user = NoTenant
       /\ turn' = [turn EXCEPT ![t] = Begun(kind, user)]
  /\ \E kept \in BOOLEAN : Trace(t, Opened(t, Tracing(t), "turn", kept))
  /\ UNCHANGED <<owner, work, counters>>

-----------------------------------------------------------------------------
\* Model calls.
Calling(t) == turn[t].pc = "calling"

\* An agent's call, in a span inside the agent's.
Call(t) ==
  /\ turn[t].pc = "ready" /\ turn[t].kind # "eval" /\ work[t].agent # "nobody"
  /\ \E k, l \in BOOLEAN :
       Trace(t, Opened(t, Opened(t, Tracing(t), work[t].agent, k), "llm", l))
  /\ Goto(t, "calling")
  /\ UNCHANGED <<owner, work, counters>>

\* _record_usage: only the synchronous turn's planner is told the tenant.
Label(t) == IF turn[t].kind = "sync" /\ work[t].agent = "planner" THEN turn[t].caller ELSE NoTenant
Billed(t) == calls' = [calls EXCEPT ![Label(t)] = Bump(@)]

\* With n steps left, the executor is next, or the verifier.
Onward(n) == [agent |-> IF n = 0 THEN "verifier" ELSE "executor", steps |-> n, rounds |-> 0]

\* The call returned: its usage is counted and both spans end.
Answered(t) ==
  /\ Calling(t)
  /\ Trace(t, Left(Left(Tracing(t), FALSE), FALSE))
  /\ Billed(t) /\ UNCHANGED errors
  /\ Goto(t, "ready") /\ UNCHANGED owner

Planned(t) ==
  /\ work[t].agent = "planner" /\ Answered(t)
  /\ \E n \in 0..MaxSteps : work' = [work EXCEPT ![t] = Onward(n)]

Verified(t) ==
  /\ work[t].agent = "verifier" /\ Answered(t)
  /\ work' = [work EXCEPT ![t].agent = "nobody"]

\* Mutant: a round in which no action was recorded is not counted.
Rounds_RefusedIsFree(w, reply) == IF reply = "refused" THEN w.rounds ELSE w.rounds + 1

Rounds(w, reply) == w.rounds + 1

\* The executor's loop goes on while the model uses tools and does not end its
\* turn, for MaxRounds at most, whether actions are recorded or refused; then
\* the actions so far are the step's.
Executed(t) ==
  /\ work[t].agent = "executor" /\ Answered(t)
  /\ \E reply \in {"recorded", "refused", "over"} :
       LET rounds == Rounds(work[t], reply)
       IN  work' = [work EXCEPT ![t] =
                      IF reply = "over" \/ rounds = MaxRounds THEN Onward(@.steps - 1)
                      ELSE [@ EXCEPT !.rounds = rounds]]

\* Mutant: output that does not parse is counted among the errors as well.
Unparsed_CountsError(t) ==
  /\ Calling(t) /\ work[t].agent # "executor"
  /\ Trace(t, Unwound(Left(Left(Tracing(t), FALSE), FALSE)))
  /\ Billed(t) /\ errors' = Bump(errors)
  /\ End(t, "ended") /\ UNCHANGED owner

\* The call returned and its output does not parse: the agent raises when both
\* spans have ended.
Unparsed(t) ==
  /\ Calling(t) /\ work[t].agent # "executor"
  /\ Trace(t, Unwound(Left(Left(Tracing(t), FALSE), FALSE)))
  /\ Billed(t) /\ UNCHANGED errors
  /\ End(t, "ended") /\ UNCHANGED owner

\* The call raised.
CallFails(t) ==
  /\ Calling(t) /\ Unwind(t)
  /\ errors' = Bump(errors)
  /\ End(t, "ended") /\ UNCHANGED <<owner, calls>>

\* The verifier's deterministic levels found something critical: no call.
SkipSemantic(t) ==
  /\ turn[t].pc = "ready" /\ turn[t].kind # "eval" /\ work[t].agent = "verifier"
  /\ work' = [work EXCEPT ![t].agent = "nobody"]
  /\ UNCHANGED <<owner, turn, tracers, counters>>

\* The turn is over.  A case's producer calls no model, and what it raises is
\* caught inside the case's span.
Finish(t) ==
  /\ turn[t].pc = "ready" /\ (work[t].agent = "nobody" \/ turn[t].kind = "eval")
  /\ IF blocks[t] = <<>> THEN UNCHANGED tracers ELSE Trace(t, Left(Tracing(t), FALSE))
  /\ End(t, "ended") /\ UNCHANGED <<owner, counters>>

\* Anything else in a request or a turn raises: the database, the workbook.
Raise(t) ==
  /\ turn[t].pc \in {"routed", "ready"} /\ turn[t].kind # "eval" /\ Unwind(t)
  /\ End(t, "ended") /\ UNCHANGED <<owner, counters>>

\* The event loop cancels the task, at shutdown.  CancelledError is no Exception:
\* the spans record it and no counter does.
Cancel(t) ==
  /\ turn[t].pc \notin {"idle", "ended", "cut"} /\ Unwind(t)
  /\ End(t, IF Calling(t) THEN "cut" ELSE "ended")
  /\ UNCHANGED <<owner, counters>>

-----------------------------------------------------------------------------
Init ==
  /\ owner = [s \in Sessions |-> IF s \in Legacy THEN NoTenant ELSE Nobody]
  /\ turn = [t \in Turns |-> Idle] /\ work = [t \in Turns |-> Planning]
  /\ current = [t \in Turns |-> None] /\ blocks = [t \in Turns |-> <<>>]
  /\ ended = [failed \in BOOLEAN |-> 0] /\ lost = 0
  /\ errors = 0 /\ calls = [x \in Parties \cup {NoTenant} |-> 0]

\* What a turn does by itself.
Proceeds(t) ==
  \/ Raise(t) \/ CallFails(t) \/ Authenticate(t) \/ Create(t) \/ Prompt(t) \/ Finish(t)
  \/ SkipSemantic(t) \/ Call(t) \/ Planned(t) \/ Executed(t) \/ Verified(t) \/ Unparsed(t)

Next ==
  \E t \in Turns : Request(t) \/ Resume(t) \/ BeginSpanned(t) \/ Proceeds(t) \/ Cancel(t)

\* The event loop runs what is ready, and the model service answers or raises.
Spec == Init /\ [][Next]_vars /\ \A t \in Turns : WF_vars(Proceeds(t))

-----------------------------------------------------------------------------
Over(t) == turn[t].pc \in {"ended", "cut"}

\* The open spans of a task are a tree of their own, however the tasks of the loop
\* interleave and their calls fail: the parent of each is the span of the block
\* around it, in its own task, and a task that is over has left no span open and
\* none current.  A span the backend loses costs those inside it their parent,
\* and nothing else.
SpansNest ==
  \A t \in Turns :
    LET open == blocks[t]
        around(i) == IF i = 1 \/ open[i - 1].span = NoOp THEN None ELSE open[i - 1].span
    IN  /\ turn[t].pc = "calling" => open # <<>> /\ open[Len(open)].name = "llm"
        /\ turn[t].kind \in {"sync", "eval"} /\ ~Over(t) => open # <<>> /\ open[1].name = "turn"
        /\ \A i \in DOMAIN open : open[i].parent = around(i)
        /\ Over(t) => open = <<>>
        /\ current[t] = IF open = <<>> THEN None ELSE open[Len(open)].span

\* What the counters say of the model calls is what the spans say: one cost for
\* each call that returned, one error for each that raised, though the error
\* passes three layers on its way out, and neither for a call cut short at
\* shutdown.  A tenant's account is charged only where a turn of its own is.
CountsAgree ==
  LET returned == MapThenSumSet(LAMBDA x : calls[x], DOMAIN calls)
      raised == errors + Cardinality({t \in Turns : turn[t].pc = "cut"})
      agree(count, seen) == \E n \in 0..lost : count % Modulus = (seen + n) % Modulus
  IN  /\ agree(returned, ended[FALSE])
      /\ agree(raised, ended[TRUE])
      /\ \A x \in Parties : calls[x] > 0 => \E t \in Turns : turn[t].caller = x

\* What client.py says and the code does not do: a model call that is on no
\* tenant's account was made for no tenant.  The durable turn tells none of its
\* calls the tenant, and no turn tells the executor's and the verifier's.
TenantPays ==
  calls[NoTenant] > 0 =>
    \E t \in Turns : turn[t].kind \in {"prompt", "resume", "sync"} /\ turn[t].caller \notin Tenants

\* Whom a request is from: everybody is the sentinel where AUTH_DISABLED is set.
Party(t) == IF turn[t].disabled THEN Anonymous ELSE turn[t].token

\* A session is prompted by the party that created it and by nobody else, also
\* when it is reached by a process with AUTH_DISABLED, or was created by one; rows
\* older than tenants are open to the sentinel only.
TenantsApart ==
  \A t \in Turns :
    turn[t].kind = "prompt" /\ turn[t].pc \in {"ready", "calling", "cut"} =>
      \/ turn[t].session \in Legacy /\ Party(t) = Anonymous
      \/ \E u \in Turns : /\ turn[u].kind = "create" /\ turn[u].session = turn[t].session
                         /\ Party(u) = Party(t)

\* Every request is answered and every turn ends: the executor's loop with it,
\* whatever the model keeps answering.
TurnEnds == \A t \in Turns : turn[t].pc # "idle" ~> Over(t)
=============================================================================
