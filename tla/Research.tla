------------------------------ MODULE Research ------------------------------
(***************************************************************************)
(* Researchers (agents/researcher.py) that answer queries about one        *)
(* company at the same time, over SEC EDGAR (research/edgar.py), and share *)
(* the table of financial facts (research/cache.py), each in a database    *)
(* session of its own.                                                     *)
(*                                                                         *)
(* The model's replies are rounds of tool uses; the tools other than       *)
(* get_financial_statements change nothing and are one kind, "lookup".  A  *)
(* statement is one metric, and a fact is known by the fetch it came from. *)
(* The rate limiter between the two is modelled in RateLimiter.            *)
(***************************************************************************)
EXTENDS Naturals, Sequences, FiniteSets

CONSTANTS
  Researchers,  \* calls of research() in progress
  Rounds,       \* what the model may reply to each: sequences of tool uses
  MaxRounds,    \* max_iterations
  DbErrors      \* whether the database may fail

Periods == {"annual", "quarterly"}
Tools == {"lookup", "unknown"} \cup Periods

ASSUME ResearchAssumption ==
  /\ Rounds \in [Researchers -> SUBSET Seq(Tools)] /\ MaxRounds \in Nat
  /\ DbErrors \in BOOLEAN

VARIABLES
  cache,    \* committed rows of financial_facts, by key
  held,     \* keys each session's transaction has locked
  agent,    \* the coroutine of each research()
  fetches,  \* history: who fetched which facts
  commits   \* history: the fetches in the order they were committed

vars == <<cache, held, agent, fetches, commits>>

-----------------------------------------------------------------------------
\* A row's key is (cik, statement, period, metric).  All facts of a fetch have
\* the period of its income statement, and none ("") when that has no columns.
Statements == {"income_statement", "balance_sheet"}
Keys == Statements \X (Periods \cup {""})
Fact == [key : Keys, fetch : Nat]
NoFact == [key |-> <<"", "">>, fetch |-> 0]

KeysOf(facts) == {x.key : x \in facts}

Fresh == [pc |-> "ask", round |-> 0, uses |-> <<>>, answers |-> <<>>, last |-> FALSE,
          facts |-> {}, collected |-> {}, told |-> {}, broken |-> FALSE]

Put(r, a) == agent' = [agent EXCEPT ![r] = a]

\* A tool_result for the current tool use, and on to the next.
Answered(a, result) ==
  [a EXCEPT !.pc = "tool", !.answers = Append(@, result), !.facts = {}]

Use(a) == a.uses[Len(a.answers) + 1]

-----------------------------------------------------------------------------
\* research(): a request to the model, which replies with tool uses or without.
Ask(r) ==
  LET a == agent[r]
  IN  /\ a.pc = "ask" /\ a.round < MaxRounds
      /\ \E uses \in Rounds[r], last \in BOOLEAN :
           Put(r, IF uses = <<>> THEN [a EXCEPT !.pc = "over"]
                  ELSE [a EXCEPT !.pc = "tool", !.round = @ + 1, !.uses = uses,
                                 !.answers = <<>>, !.last = last])
      /\ UNCHANGED <<cache, held, fetches, commits>>

\* The rounds are used up, and what was collected is the result.
OutOfRounds(r) ==
  /\ agent[r].pc = "ask" /\ agent[r].round = MaxRounds
  /\ Put(r, [agent[r] EXCEPT !.pc = "over"])
  /\ UNCHANGED <<cache, held, fetches, commits>>

\* The request to the model raises, and research() with it.
ModelFails(r) ==
  /\ agent[r].pc = "ask"
  /\ Put(r, [agent[r] EXCEPT !.pc = "over"])
  /\ UNCHANGED <<cache, held, fetches, commits>>

\* The next tool use of the round: a name that is not a tool raises, a lookup
\* finds something or raises, and statements are awaited.
Tool(r) ==
  LET a == agent[r]
  IN  /\ a.pc = "tool" /\ Len(a.answers) < Len(a.uses)
      /\ \/ Use(a) \in Periods /\ Put(r, [a EXCEPT !.pc = "fetch"])
         \/ Use(a) = "lookup" /\ Put(r, Answered(a, "ok"))
         \/ Use(a) \in {"lookup", "unknown"} /\ Put(r, Answered(a, "error"))
      /\ UNCHANGED <<cache, held, fetches, commits>>

\* Mutant: an error ends the round.
RoundOver_OnError(r) ==
  LET a == agent[r]
  IN  /\ a.pc = "tool" /\ a.answers # <<>>
      /\ Len(a.answers) = Len(a.uses) \/ a.answers[Len(a.answers)] = "error"
      /\ Put(r, [a EXCEPT !.pc = IF a.last THEN "over" ELSE "ask"])
      /\ UNCHANGED <<cache, held, fetches, commits>>

\* Every use has its result: they are sent, unless the model said it was done.
RoundOver(r) ==
  LET a == agent[r]
  IN  /\ a.pc = "tool" /\ Len(a.answers) = Len(a.uses)
      /\ Put(r, [a EXCEPT !.pc = IF a.last THEN "over" ELSE "ask"])
      /\ UNCHANGED <<cache, held, fetches, commits>>

-----------------------------------------------------------------------------
\* _statements_to_facts, for the statements that have figures.
FactsOf(found, period) ==
  {[key |-> <<s, IF "income_statement" \in found THEN period ELSE "">>,
    fetch |-> Len(fetches) + 1] : s \in found}

\* get_financial_statements answers, and what it found is collected before it
\* is stored.
Fetched(r) ==
  LET a == agent[r]
  IN  /\ a.pc = "fetch"
      /\ \E found \in SUBSET Statements :
           LET facts == FactsOf(found, Use(a))
           IN  IF found = {} THEN Put(r, Answered(a, "ok")) /\ UNCHANGED fetches
               ELSE /\ Put(r, [a EXCEPT !.pc = "store", !.facts = facts,
                                        !.collected = @ \cup facts])
                    /\ fetches' = Append(fetches, [by |-> r, facts |-> facts])
      /\ UNCHANGED <<cache, held, commits>>

\* A call of edgartools raises.
FetchFails(r) ==
  /\ agent[r].pc = "fetch"
  /\ Put(r, Answered(agent[r], "error"))
  /\ UNCHANGED <<cache, held, fetches, commits>>

\* next() of no filings raises StopIteration in the thread, which a future of
\* CPython 3.11 refuses: the await never returns.
FetchHangs(r) ==
  /\ agent[r].pc = "fetch"
  /\ Put(r, [agent[r] EXCEPT !.pc = "hung"])
  /\ UNCHANGED <<cache, held, fetches, commits>>

-----------------------------------------------------------------------------
\* No other session's transaction has locked one of the keys.
Free(r, keys) == \A s \in Researchers \ {r} : keys \cap held[s] = {}

\* Mutant: the model is told before the commit, and nothing commits.
Store_WithoutCommit(r) ==
  LET a == agent[r]
  IN  /\ a.pc = "store" /\ ~a.broken /\ Free(r, KeysOf(a.facts))
      /\ held' = [held EXCEPT ![r] = @ \cup KeysOf(a.facts)]
      /\ Put(r, [Answered(a, "ok") EXCEPT !.told = @ \cup {x.fetch : x \in a.facts}])
      /\ UNCHANGED <<cache, fetches, commits>>

\* Mutant: the rows are not locked.
Store_NoLock(r) ==
  LET a == agent[r]
  IN  /\ a.pc = "store" /\ ~a.broken
      /\ held' = [held EXCEPT ![r] = @ \cup KeysOf(a.facts)]
      /\ Put(r, [a EXCEPT !.pc = "commit"])
      /\ UNCHANGED <<cache, fetches, commits>>

\* put_many: one statement upserts the rows, and waits while another session's
\* transaction has locked one of them.
Store(r) ==
  LET a == agent[r]
  IN  /\ a.pc = "store" /\ ~a.broken /\ Free(r, KeysOf(a.facts))
      /\ held' = [held EXCEPT ![r] = @ \cup KeysOf(a.facts)]
      /\ Put(r, [a EXCEPT !.pc = "commit"])
      /\ UNCHANGED <<cache, fetches, commits>>

\* Mutant: the facts are committed one by one.
Commit_OneByOne(r) ==
  LET a == agent[r]
  IN  /\ a.pc = "commit"
      /\ \E x \in a.facts :
           /\ cache' = [cache EXCEPT ![x.key] = x]
           /\ commits' = Append(commits, x.fetch)
           /\ held' = [held EXCEPT ![r] = @ \ {x.key}]
           /\ Put(r, IF a.facts = {x} THEN [Answered(a, "ok") EXCEPT !.told = @ \cup {x.fetch}]
                     ELSE [a EXCEPT !.facts = @ \ {x}])
      /\ UNCHANGED fetches

Commit(r) ==
  LET a == agent[r]
      fetch == (CHOOSE x \in a.facts : TRUE).fetch
  IN  /\ a.pc = "commit"
      /\ cache' = [k \in Keys |-> IF k \in KeysOf(a.facts)
                                  THEN CHOOSE x \in a.facts : x.key = k ELSE cache[k]]
      /\ commits' = Append(commits, fetch)
      /\ held' = [held EXCEPT ![r] = {}]
      /\ Put(r, [Answered(a, "ok") EXCEPT !.told = @ \cup {fetch}])
      /\ UNCHANGED fetches

\* Mutant: the facts are collected once they are stored.
StoreFails_CollectsLater(r) ==
  LET a == agent[r]
  IN  /\ DbErrors /\ a.pc \in {"store", "commit"} /\ ~a.broken
      /\ \E locked \in SUBSET KeysOf(a.facts) :
           /\ Free(r, locked)
           /\ held' = [held EXCEPT ![r] = locked]
      /\ Put(r, [Answered(a, "error") EXCEPT !.broken = TRUE, !.collected = @ \ a.facts])
      /\ UNCHANGED <<cache, fetches, commits>>

\* The statement or the commit fails.  Nobody rolls back: the transaction, with
\* the locks it may have, lasts as long as the session.
StoreFails(r) ==
  LET a == agent[r]
  IN  /\ DbErrors /\ a.pc \in {"store", "commit"} /\ ~a.broken
      /\ \E locked \in SUBSET KeysOf(a.facts) :
           /\ Free(r, locked)
           /\ held' = [held EXCEPT ![r] = locked]
      /\ Put(r, [Answered(a, "error") EXCEPT !.broken = TRUE])
      /\ UNCHANGED <<cache, fetches, commits>>

\* A session that was not rolled back raises whatever it is asked next.
StoreRefused(r) ==
  /\ agent[r].pc = "store" /\ agent[r].broken
  /\ Put(r, Answered(agent[r], "error"))
  /\ UNCHANGED <<cache, held, fetches, commits>>

\* Mutant: the caller keeps the session open.
Close_KeepsSession(r) ==
  /\ agent[r].pc = "over"
  /\ Put(r, [agent[r] EXCEPT !.pc = "closed"])
  /\ UNCHANGED <<cache, held, fetches, commits>>

\* The caller has the result, or the exception, and closes its session.
Close(r) ==
  /\ agent[r].pc = "over"
  /\ Put(r, [agent[r] EXCEPT !.pc = "closed"])
  /\ held' = [held EXCEPT ![r] = {}]
  /\ UNCHANGED <<cache, fetches, commits>>

-----------------------------------------------------------------------------
Init ==
  /\ cache = [k \in Keys |-> NoFact]
  /\ held = [r \in Researchers |-> {}]
  /\ agent = [r \in Researchers |-> Fresh]
  /\ fetches = <<>> /\ commits = <<>>

Works(r) ==
  \/ Ask(r) \/ OutOfRounds(r) \/ Tool(r) \/ RoundOver(r)
  \/ Fetched(r) \/ FetchFails(r)
  \/ Store(r) \/ Commit(r) \/ StoreRefused(r) \/ Close(r)

Fails(r) == ModelFails(r) \/ FetchHangs(r) \/ StoreFails(r)

Next == \E r \in Researchers : Works(r) \/ Fails(r)

Spec == Init /\ [][Next]_vars

\* Every coroutine gets its turn, the model and EDGAR answer or raise, and the
\* database answers once the locks it waits for are free.
FairSpec == Spec /\ \A r \in Researchers : WF_vars(Works(r))

-----------------------------------------------------------------------------
\* Types; above all the locks of two sessions are apart.
TypeOK ==
  /\ \A k \in Keys : cache[k] = NoFact \/ cache[k] \in [key : {k}, fetch : Nat]
  /\ held \in [Researchers -> SUBSET Keys]
  /\ \A r, s \in Researchers : r # s => held[r] \cap held[s] = {}
  /\ \A r \in Researchers : agent[r].facts \cup agent[r].collected \subseteq Fact
  /\ \A n \in DOMAIN commits : commits[n] \in DOMAIN fetches

\* The model gets one result for every tool use of its reply before it is asked
\* again, whatever a tool raised: the API refuses a conversation with less.
EveryUseIsAnswered ==
  \A r \in Researchers :
    agent[r].pc = "ask" => Len(agent[r].answers) = Len(agent[r].uses)

\* At the end of a round and of a research, what will be returned holds every
\* fact EDGAR gave this researcher, those the database then refused included
\* (researcher.py: "Appends every FinancialFact we collect to `collected`").
ResultIsComplete ==
  \A n \in DOMAIN fetches :
    LET a == agent[fetches[n].by]
    IN  a.pc \in {"ask", "over", "closed"} => fetches[n].facts \subseteq a.collected

\* The table is what the commits made of it, whole fetch after whole fetch,
\* although researchers upsert the same keys at once and sessions fail in between:
\* at a key is the fact of the last committed fetch that had one there.
StoredWhole ==
  \A k \in Keys :
    LET writers == {n \in DOMAIN commits : k \in KeysOf(fetches[commits[n]].facts)}
    IN  IF writers = {} THEN cache[k] = NoFact
        ELSE \E n \in writers : /\ \A m \in writers : m <= n
                                /\ cache[k].fetch = commits[n]

\* What the model was told of is in the table: a fetch it saw succeed was committed,
\* and at each of its keys is its own fact or that of a fetch committed since.
ToldIsStored ==
  \A r \in Researchers : \A n \in agent[r].told :
    \E i \in DOMAIN commits :
      /\ commits[i] = n
      /\ \A x \in fetches[n].facts :
           \E j \in DOMAIN commits : i <= j /\ cache[x.key].fetch = commits[j]

\* Unless a fetch hangs, every research ends, also one that has to wait for the
\* locks of a session whose transaction failed.
EveryResearchEnds ==
  [](\A r \in Researchers : agent[r].pc # "hung")
    => \A r \in Researchers : <>(agent[r].pc = "closed")
=============================================================================
