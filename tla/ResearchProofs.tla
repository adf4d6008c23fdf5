--------------------------- MODULE ResearchProofs ---------------------------
(***************************************************************************)
(* Researchers over one table of facts, for any number of them, any        *)
(* replies of the model and any failures: every tool use is answered, what *)
(* was fetched is returned, and the table holds whole fetches in the order *)
(* of their commits.  FetchInv says which fetch an agent is storing; the   *)
(* rest is inductive with it.                                              *)
(***************************************************************************)
EXTENDS Research, TLAPS, SequenceTheorems

PCs == {"ask", "tool", "fetch", "store", "commit", "hung", "over", "closed"}
Results == {"ok", "error"}
Agent == [pc : PCs, round : Nat, uses : Seq(Tools), answers : Seq(Results), last : BOOLEAN,
          facts : SUBSET Fact, collected : SUBSET Fact, told : SUBSET Nat, broken : BOOLEAN]
Fetch == [by : Researchers, facts : SUBSET Fact]

Types ==
  /\ cache \in [Keys -> Fact \cup {NoFact}]
  /\ held \in [Researchers -> SUBSET Keys]
  /\ agent \in [Researchers -> Agent]
  /\ fetches \in Seq(Fetch)
  /\ commits \in Seq(Nat)

\* Each fetch has facts of its own, one at each of its keys, and its researcher
\* collected them; so has every agent that stores one.
Whole(n) ==
  /\ fetches[n].facts # {}
  /\ \A x \in fetches[n].facts : x.fetch = n
  /\ \A x, y \in fetches[n].facts : x.key = y.key => x = y
  /\ fetches[n].facts \subseteq agent[fetches[n].by].collected

FetchInv ==
  /\ \A n \in 1..Len(fetches) : Whole(n)
  /\ \A r \in Researchers :
       /\ agent[r].pc \in {"store", "commit"} =>
            \E n \in 1..Len(fetches) : agent[r].facts = fetches[n].facts
       /\ agent[r].told \subseteq 1..Len(fetches)
  /\ \A m \in 1..Len(commits) : commits[m] \in 1..Len(fetches)

\* The uses of the round so far have their results, in order.
Answering(a) ==
  /\ a.pc = "ask" => Len(a.answers) = Len(a.uses)
  /\ a.pc = "tool" => Len(a.answers) <= Len(a.uses)
  /\ a.pc \in {"fetch", "store", "commit"} => Len(a.answers) < Len(a.uses)
  /\ a.pc = "fetch" => Use(a) \in Periods

AnswerInv == \A r \in Researchers : Answering(agent[r])

\* A fact lies at its key, and no two sessions have locked one key.
PlaceInv ==
  /\ \A k \in Keys : cache[k] # NoFact => cache[k].key = k
  /\ \A r, s \in Researchers : r # s => held[r] \cap held[s] = {}

\* What the model was told of is committed.
ToldInv ==
  \A r \in Researchers : \A n \in agent[r].told : \E i \in 1..Len(commits) : commits[i] = n

IInv == Types /\ FetchInv /\ AnswerInv /\ PlaceInv /\ StoredWhole /\ ToldInv

-----------------------------------------------------------------------------
LEMMA AgentTypes ==
  ASSUME Types, NEW r \in Researchers
  PROVE  /\ agent[r] \in Agent /\ agent[r].pc \in PCs /\ agent[r].round \in Nat
         /\ agent[r].uses \in Seq(Tools) /\ agent[r].answers \in Seq(Results)
         /\ agent[r].last \in BOOLEAN /\ agent[r].broken \in BOOLEAN
         /\ agent[r].facts \in SUBSET Fact /\ agent[r].collected \in SUBSET Fact
         /\ agent[r].told \in SUBSET Nat
BY DEF Types, Agent

\* A result is one answer more and leaves nothing to store.
LEMMA AnsweredFields ==
  ASSUME NEW a \in Agent, NEW x \in Results
  PROVE  /\ Answered(a, x) \in Agent
         /\ Answered(a, x).pc = "tool" /\ Answered(a, x).uses = a.uses
         /\ Len(Answered(a, x).answers) = Len(a.answers) + 1
         /\ Answered(a, x).collected = a.collected /\ Answered(a, x).told = a.told
         /\ Answered(a, x).facts = {}
<1>1. a.answers \in Seq(Results)
  BY DEF Agent
<1>2. Append(a.answers, x) \in Seq(Results) /\ Len(Append(a.answers, x)) = Len(a.answers) + 1
  BY <1>1, AppendProperties
<1> DEFINE more == Append(a.answers, x)
<1>3. Answered(a, x) = [a EXCEPT !.pc = "tool", !.answers = more, !.facts = {}]
  BY DEF Answered
<1> HIDE DEF more
<1> QED BY <1>2, <1>3 DEF Agent, PCs, more

-----------------------------------------------------------------------------
\* What a step does that neither fetches nor commits: the researcher goes on
\* with what it collected and was told, and locks what is free.
Plain(r) ==
  /\ UNCHANGED <<cache, fetches, commits>>
  /\ \E b \in Agent :
       /\ agent' = [agent EXCEPT ![r] = b]
       /\ b.collected = agent[r].collected /\ b.told = agent[r].told
       /\ b.pc \in {"store", "commit"} => agent[r].pc = "store" /\ b.facts = agent[r].facts
       /\ Answering(b)
  /\ \E locked \in SUBSET Keys :
       /\ held' = [held EXCEPT ![r] = locked]
       /\ \A s \in Researchers \ {r} : locked \cap held[s] = {}

\* The table and the fetches are untouched, so that all is as it was.
LEMMA PlainStep ==
  ASSUME IInv, NEW r \in Researchers, Plain(r)
  PROVE  IInv'
<1>1. PICK b \in Agent :
        /\ agent' = [agent EXCEPT ![r] = b]
        /\ b.collected = agent[r].collected /\ b.told = agent[r].told
        /\ b.pc \in {"store", "commit"} => agent[r].pc = "store" /\ b.facts = agent[r].facts
        /\ Answering(b)
  BY DEF Plain
<1>2. PICK locked \in SUBSET Keys :
        /\ held' = [held EXCEPT ![r] = locked]
        /\ \A s \in Researchers \ {r} : locked \cap held[s] = {}
  BY DEF Plain
<1>3. UNCHANGED <<cache, fetches, commits>>
  BY DEF Plain
<1>4. \A s \in Researchers : agent'[s] = IF s = r THEN b ELSE agent[s]
  BY <1>1 DEF IInv, Types
<1>5. \A s \in Researchers : held'[s] = IF s = r THEN locked ELSE held[s]
  BY <1>2 DEF IInv, Types
<1>6. Types'
  BY <1>1, <1>2, <1>3 DEF IInv, Types
<1>7. FetchInv'
  <2>1. fetches \in Seq(Fetch)
    BY DEF IInv, Types
  <2>2. \A n \in 1..Len(fetches) : fetches[n].by \in Researchers
    <3>1. \A n \in 1..Len(fetches) : fetches[n] \in Fetch
      BY <2>1, ElementOfSeq
    <3> QED BY <3>1 DEF Fetch
  <2>3. \A s \in Researchers : agent'[s].collected = agent[s].collected
                               /\ agent'[s].told = agent[s].told
    BY <1>1, <1>4
  <2>4. \A n \in 1..Len(fetches) : Whole(n)'
    BY <1>3, <2>2, <2>3 DEF IInv, FetchInv, Whole
  <2>5. \A s \in Researchers : agent'[s].pc \in {"store", "commit"} =>
          \E n \in 1..Len(fetches) : agent'[s].facts = fetches[n].facts
    BY <1>1, <1>4 DEF IInv, FetchInv
  <2> QED BY <1>3, <2>3, <2>4, <2>5 DEF IInv, FetchInv
<1>8. AnswerInv'
  BY <1>1, <1>4 DEF IInv, AnswerInv
<1>9. PlaceInv'
  BY <1>2, <1>3, <1>5 DEF IInv, PlaceInv
<1>10. StoredWhole' /\ ToldInv'
  BY <1>1, <1>3, <1>4 DEF IInv, StoredWhole, ToldInv
<1> QED BY <1>6, <1>7, <1>8, <1>9, <1>10 DEF IInv

\* A reply with tool uses begins a round without answers.
Begun(a, n, uses, none, last) ==
  [a EXCEPT !.pc = "tool", !.round = n, !.uses = uses, !.answers = none, !.last = last]

LEMMA RoundFields ==
  ASSUME NEW a \in Agent, NEW n \in Nat, NEW uses \in Seq(Tools),
         NEW none \in Seq(Results), NEW last \in BOOLEAN
  PROVE  /\ Begun(a, n, uses, none, last) \in Agent
         /\ Begun(a, n, uses, none, last).collected = a.collected
         /\ Begun(a, n, uses, none, last).told = a.told
         /\ Begun(a, n, uses, none, last).pc = "tool"
         /\ Begun(a, n, uses, none, last).answers = none
         /\ Begun(a, n, uses, none, last).uses = uses
BY DEF Agent, PCs, Begun

\* An agent whose locks stay as they are.
LEMMA PlainAgent ==
  ASSUME IInv, NEW r \in Researchers, NEW b \in Agent,
         agent' = [agent EXCEPT ![r] = b], UNCHANGED <<cache, held, fetches, commits>>,
         b.collected = agent[r].collected, b.told = agent[r].told,
         b.pc \in {"store", "commit"} => agent[r].pc = "store" /\ b.facts = agent[r].facts,
         Answering(b)
  PROVE  IInv'
<1>1. held[r] \in SUBSET Keys /\ held' = [held EXCEPT ![r] = held[r]]
  BY DEF IInv, Types
<1>2. \A s \in Researchers \ {r} : held[r] \cap held[s] = {}
  BY DEF IInv, PlaceInv
<1>3. Plain(r)
  BY <1>1, <1>2 DEF Plain
<1> QED BY <1>3, PlainStep

\* A result for the current use, whatever it is.
LEMMA AnswerStep ==
  ASSUME IInv, NEW r \in Researchers, NEW x \in Results,
         Put(r, Answered(agent[r], x)), UNCHANGED <<cache, held, fetches, commits>>,
         Len(agent[r].answers) < Len(agent[r].uses)
  PROVE  IInv'
<1> DEFINE b == Answered(agent[r], x)
<1>1. agent[r] \in Agent /\ Len(agent[r].answers) \in Nat /\ Len(agent[r].uses) \in Nat
  BY AgentTypes, LenProperties DEF IInv
<1>2. b \in Agent /\ b.collected = agent[r].collected /\ b.told = agent[r].told /\ b.pc = "tool"
  BY <1>1, AnsweredFields
<1>3. Answering(b)
  BY <1>1, AnsweredFields DEF Answering
<1>4. agent' = [agent EXCEPT ![r] = b]
  BY DEF Put
<1> HIDE DEF b
<1> QED BY <1>2, <1>3, <1>4, PlainAgent

LEMMA ConversationSteps ==
  ASSUME IInv, NEW r \in Researchers,
         Ask(r) \/ OutOfRounds(r) \/ ModelFails(r) \/ Tool(r) \/ RoundOver(r)
           \/ FetchFails(r) \/ FetchHangs(r)
  PROVE  IInv'
<1> DEFINE a == agent[r]
<1>1. a \in Agent /\ a.uses \in Seq(Tools) /\ a.answers \in Seq(Results) /\ a.round \in Nat
      /\ Len(a.answers) \in Nat /\ Len(a.uses) \in Nat
  BY AgentTypes, LenProperties DEF IInv
<1>2. Answering(a)
  BY DEF IInv, AnswerInv
<1>3. ASSUME NEW pc \in {"over", "ask", "hung", "fetch"}, Put(r, [a EXCEPT !.pc = pc]),
             pc = "ask" => Len(a.answers) = Len(a.uses),
             pc = "fetch" => Len(a.answers) < Len(a.uses) /\ Use(a) \in Periods,
             UNCHANGED <<cache, held, fetches, commits>>
      PROVE  IInv'
  <2> DEFINE b == [a EXCEPT !.pc = pc]
  <2>1. /\ b \in Agent /\ b.collected = a.collected /\ b.told = a.told /\ b.pc = pc
        /\ b.answers = a.answers /\ b.uses = a.uses
    BY <1>1 DEF Agent, PCs
  <2>2. agent' = [agent EXCEPT ![r] = b]
    BY <1>3 DEF Put
  <2>3. Answering(b)
    BY <1>3, <2>1 DEF Answering, Use
  <2> HIDE DEF b
  <2> QED BY <1>3, <2>1, <2>2, <2>3, PlainAgent
<1>4. CASE Ask(r)
  <2>1. PICK uses \in Rounds[r], last \in BOOLEAN :
          Put(r, IF uses = <<>> THEN [a EXCEPT !.pc = "over"]
                 ELSE [a EXCEPT !.pc = "tool", !.round = @ + 1, !.uses = uses,
                                !.answers = <<>>, !.last = last])
    BY <1>4 DEF Ask
  <2>2. CASE uses = <<>>
    BY <1>3, <1>4, <2>1, <2>2 DEF Ask
  <2>3. CASE uses # <<>>
    <3> DEFINE b == [a EXCEPT !.pc = "tool", !.round = @ + 1, !.uses = uses,
                              !.answers = <<>>, !.last = last]
    <3>1. uses \in Seq(Tools) /\ <<>> \in Seq(Results) /\ Len(<<>>) = 0 /\ Len(uses) \in Nat
      BY ResearchAssumption, EmptySeq, LenProperties
    <3>2. /\ b \in Agent /\ b.collected = a.collected /\ b.told = a.told /\ b.pc = "tool"
          /\ b.answers = <<>> /\ b.uses = uses
      <4> DEFINE next == a.round + 1
                 none == <<>>
      <4>1. next \in Nat /\ none \in Seq(Results)
        BY <1>1, <3>1
      <4>2. b = Begun(a, next, uses, none, last)
        BY DEF Begun
      <4>3. last \in BOOLEAN
        OBVIOUS
      <4> HIDE DEF a, b, next, none
      <4>4. b \in Agent /\ b.collected = a.collected /\ b.told = a.told /\ b.pc = "tool"
            /\ b.answers = none /\ b.uses = uses
        <5>1. uses \in Seq(Tools) /\ a \in Agent
          BY <1>1, <3>1
        <5> QED BY <4>1, <4>2, <4>3, <5>1, RoundFields
      <4> QED BY <4>4 DEF none
    <3>3. agent' = [agent EXCEPT ![r] = b] /\ UNCHANGED <<cache, held, fetches, commits>>
      BY <1>4, <2>1, <2>3 DEF Ask, Put
    <3>4. Answering(b)
      BY <3>1, <3>2 DEF Answering
    <3> HIDE DEF b
    <3> QED BY <3>2, <3>3, <3>4, PlainAgent
  <2> QED BY <2>2, <2>3
<1>5. CASE OutOfRounds(r) \/ ModelFails(r)
  BY <1>3, <1>5 DEF OutOfRounds, ModelFails
<1>6. CASE Tool(r)
  <2>1. CASE Use(a) \in Periods /\ Put(r, [a EXCEPT !.pc = "fetch"])
    BY <1>3, <1>6, <2>1 DEF Tool
  <2>2. CASE \E x \in Results : Put(r, Answered(a, x))
    BY <1>6, <2>2, AnswerStep DEF Tool
  <2> QED BY <1>6, <2>1, <2>2 DEF Tool, Results
<1>7. CASE RoundOver(r)
  <2>1. Len(a.answers) = Len(a.uses) /\ UNCHANGED <<cache, held, fetches, commits>>
    BY <1>7 DEF RoundOver
  <2> QED BY <1>3, <1>7, <2>1 DEF RoundOver
<1>8. CASE FetchFails(r)
  <2>1. Len(a.answers) < Len(a.uses)
    BY <1>2, <1>8 DEF FetchFails, Answering
  <2> QED BY <1>8, <2>1, AnswerStep DEF FetchFails, Results
<1>9. CASE FetchHangs(r)
  BY <1>3, <1>9 DEF FetchHangs
<1> QED BY <1>4, <1>5, <1>6, <1>7, <1>8, <1>9

-----------------------------------------------------------------------------
\* What an agent has to store is one fetch, whole.
LEMMA StoringOne ==
  ASSUME IInv, NEW r \in Researchers, agent[r].pc \in {"store", "commit"}
  PROVE  \E n \in 1..Len(fetches) :
           /\ agent[r].facts = fetches[n].facts /\ agent[r].facts # {}
           /\ \A x \in agent[r].facts : x.fetch = n
           /\ \A x, y \in agent[r].facts : x.key = y.key => x = y
BY DEF IInv, FetchInv, Whole

LEMMA KeysTyped ==
  ASSUME NEW facts \in SUBSET Fact
  PROVE  KeysOf(facts) \subseteq Keys
BY DEF KeysOf, Fact

\* The locks are taken; the researcher goes on to the commit.
LEMMA StoreStep ==
  ASSUME IInv, NEW r \in Researchers, Store(r)
  PROVE  IInv'
<1> DEFINE a == agent[r]
           b == [a EXCEPT !.pc = "commit"]
           locked == held[r] \cup KeysOf(a.facts)
<1>1. a \in Agent /\ a.facts \in SUBSET Fact
  BY AgentTypes DEF IInv
<1>2. /\ b \in Agent /\ b.collected = a.collected /\ b.told = a.told /\ b.facts = a.facts
      /\ b.pc = "commit" /\ b.answers = a.answers /\ b.uses = a.uses
  BY <1>1 DEF Agent, PCs
<1>3. Answering(b)
  BY <1>2 DEF Store, IInv, AnswerInv, Answering
<1>4. locked \in SUBSET Keys /\ held' = [held EXCEPT ![r] = locked]
  BY <1>1, KeysTyped DEF IInv, Types, Store
<1>5. \A s \in Researchers \ {r} : locked \cap held[s] = {}
  BY DEF IInv, PlaceInv, Store, Free
<1>6. /\ agent' = [agent EXCEPT ![r] = b] /\ agent[r].pc = "store"
      /\ UNCHANGED <<cache, fetches, commits>>
  BY DEF Store, Put
<1> HIDE DEF b, locked
<1>7. Plain(r)
  BY <1>2, <1>3, <1>4, <1>5, <1>6 DEF Plain
<1> QED BY <1>7, PlainStep

\* The transaction keeps locks it took, and the session is broken.
LEMMA StoreFailsStep ==
  ASSUME IInv, NEW r \in Researchers, StoreFails(r)
  PROVE  IInv'
<1> DEFINE a == agent[r]
           c == Answered(a, "error")
           b == [c EXCEPT !.broken = TRUE]
<1>1. /\ a \in Agent /\ a.facts \in SUBSET Fact
      /\ Len(a.answers) \in Nat /\ Len(a.uses) \in Nat /\ "error" \in Results
  BY AgentTypes, LenProperties DEF IInv, Results
<1>2. /\ c \in Agent /\ c.pc = "tool" /\ c.uses = a.uses /\ c.collected = a.collected
      /\ c.told = a.told /\ Len(c.answers) = Len(a.answers) + 1
  BY <1>1, AnsweredFields
<1>3. agent' = [agent EXCEPT ![r] = b] /\ UNCHANGED <<cache, fetches, commits>>
  BY DEF StoreFails, Put
<1> HIDE DEF c
<1>4. /\ b \in Agent /\ b.collected = a.collected /\ b.told = a.told
      /\ b.pc = "tool" /\ b.answers = c.answers /\ b.uses = a.uses
  BY <1>2 DEF Agent
<1>5. Answering(b)
  <2>1. Len(a.answers) < Len(a.uses)
    BY DEF StoreFails, IInv, AnswerInv, Answering
  <2> QED BY <1>1, <1>2, <1>4, <2>1 DEF Answering
<1>6. PICK locked \in SUBSET KeysOf(a.facts) :
        Free(r, locked) /\ held' = [held EXCEPT ![r] = locked]
  BY DEF StoreFails
<1>7. locked \in SUBSET Keys /\ \A s \in Researchers \ {r} : locked \cap held[s] = {}
  BY <1>1, <1>6, KeysTyped DEF Free
<1> HIDE DEF b
<1>8. Plain(r)
  BY <1>3, <1>4, <1>5, <1>6, <1>7 DEF Plain
<1> QED BY <1>8, PlainStep

LEMMA StoreRefusedStep ==
  ASSUME IInv, NEW r \in Researchers, StoreRefused(r)
  PROVE  IInv'
<1>1. Len(agent[r].answers) < Len(agent[r].uses)
  BY DEF StoreRefused, IInv, AnswerInv, Answering
<1> QED BY <1>1, AnswerStep DEF StoreRefused, Results

\* The session ends and its locks with it.
LEMMA CloseStep ==
  ASSUME IInv, NEW r \in Researchers, Close(r)
  PROVE  IInv'
<1> DEFINE b == [agent[r] EXCEPT !.pc = "closed"]
<1>1. agent[r] \in Agent
  BY AgentTypes DEF IInv
<1>2. b \in Agent /\ b.collected = agent[r].collected /\ b.told = agent[r].told
      /\ b.pc = "closed"
  BY <1>1 DEF Agent, PCs
<1>3. Answering(b)
  BY <1>2 DEF Answering
<1>4. /\ agent' = [agent EXCEPT ![r] = b] /\ held' = [held EXCEPT ![r] = {}]
      /\ UNCHANGED <<cache, fetches, commits>>
  BY DEF Close, Put
<1> DEFINE locked == {}
<1>5. /\ locked \in SUBSET Keys /\ held' = [held EXCEPT ![r] = locked]
      /\ \A s \in Researchers \ {r} : locked \cap held[s] = {}
  BY <1>4
<1> HIDE DEF b, locked
<1>6. Plain(r)
  BY <1>2, <1>3, <1>4, <1>5 DEF Plain
<1> QED BY <1>6, PlainStep

-----------------------------------------------------------------------------
\* The facts of a fetch: the next one, one fact at each key.
LEMMA FactsOfFetch ==
  ASSUME Types, NEW found \in SUBSET Statements, found # {}, NEW period \in Periods
  PROVE  /\ FactsOf(found, period) \in SUBSET Fact /\ FactsOf(found, period) # {}
         /\ \A x \in FactsOf(found, period) : x.fetch = Len(fetches) + 1
         /\ \A x, y \in FactsOf(found, period) : x.key = y.key => x = y
<1> DEFINE of == IF "income_statement" \in found THEN period ELSE ""
           at(s) == [key |-> <<s, of>>, fetch |-> Len(fetches) + 1]
<1>1. Len(fetches) + 1 \in Nat
  BY LenProperties DEF Types
<1>2. of \in Periods \cup {""}
  OBVIOUS
<1>3. FactsOf(found, period) = {at(s) : s \in found}
  BY DEF FactsOf
<1> HIDE DEF of
<1>4. \A s \in found : at(s) \in Fact
  <2> SUFFICES ASSUME NEW s \in found
               PROVE  at(s) \in Fact
    OBVIOUS
  <2>1. <<s, of>> \in Keys
    BY <1>2 DEF Keys
  <2> QED BY <1>1, <2>1 DEF Fact
<1>5. \A s, t \in found : at(s).key = at(t).key => at(s) = at(t)
  OBVIOUS
<1>6. \A s \in found : at(s).fetch = Len(fetches) + 1
  OBVIOUS
<1> HIDE DEF at
<1> QED BY <1>3, <1>4, <1>5, <1>6

\* An agent that has something to store.
Holding(a, facts) ==
  [a EXCEPT !.pc = "store", !.facts = facts, !.collected = @ \cup facts]

LEMMA HoldingFields ==
  ASSUME NEW a \in Agent, NEW facts \in SUBSET Fact
  PROVE  /\ Holding(a, facts) \in Agent /\ Holding(a, facts).pc = "store"
         /\ Holding(a, facts).facts = facts
         /\ Holding(a, facts).collected = a.collected \cup facts
         /\ Holding(a, facts).told = a.told /\ Holding(a, facts).answers = a.answers
         /\ Holding(a, facts).uses = a.uses
BY DEF Agent, PCs, Holding

\* A fetch that found something is the last, and its researcher collected it.
LEMMA FoundStep ==
  ASSUME IInv, NEW r \in Researchers, agent[r].pc = "fetch",
         NEW found \in SUBSET Statements, found # {},
         Put(r, Holding(agent[r], FactsOf(found, Use(agent[r])))),
         fetches' = Append(fetches, [by |-> r, facts |-> FactsOf(found, Use(agent[r]))]),
         UNCHANGED <<cache, held, commits>>
  PROVE  IInv'
<1> DEFINE a == agent[r]
           facts == FactsOf(found, Use(a))
           b == Holding(a, facts)
           f == [by |-> r, facts |-> facts]
<1>1. a \in Agent /\ fetches \in Seq(Fetch) /\ Len(fetches) \in Nat /\ commits \in Seq(Nat)
      /\ agent \in [Researchers -> Agent]
  BY AgentTypes, LenProperties DEF IInv, Types
<1>2. Answering(a)
  BY DEF IInv, AnswerInv
<1>3. /\ facts \in SUBSET Fact /\ facts # {}
      /\ \A x \in facts : x.fetch = Len(fetches) + 1
      /\ \A x, y \in facts : x.key = y.key => x = y
  <2>1. Use(a) \in Periods
    BY <1>2 DEF Answering
  <2> QED BY <2>1, FactsOfFetch DEF IInv
<1>4. /\ agent' = [agent EXCEPT ![r] = b] /\ fetches' = Append(fetches, f)
      /\ UNCHANGED <<cache, held, commits>>
  BY DEF Put
<1> HIDE DEF facts
<1>5. /\ b \in Agent /\ b.pc = "store" /\ b.facts = facts
      /\ b.collected = a.collected \cup facts /\ b.told = a.told /\ b.answers = a.answers
      /\ b.uses = a.uses
  BY <1>1, <1>3, HoldingFields
<1>6. f \in Fetch /\ f.by = r /\ f.facts = facts
  BY <1>3 DEF Fetch
<1> HIDE DEF b, f
<1>7. \A s \in Researchers : agent'[s] = IF s = r THEN b ELSE agent[s]
  BY <1>1, <1>4
<1>8. /\ fetches' \in Seq(Fetch) /\ Len(fetches') = Len(fetches) + 1
      /\ fetches'[Len(fetches) + 1] = f
      /\ \A n \in 1..Len(fetches) : fetches'[n] = fetches[n]
  BY <1>1, <1>4, <1>6, AppendProperties
<1>9. Types'
  BY <1>4, <1>5, <1>8 DEF IInv, Types
<1>10. \A s \in Researchers : agent[s].collected \subseteq agent'[s].collected
                              /\ agent'[s].told = agent[s].told
  BY <1>5, <1>7
<1>11. FetchInv'
  <2>1. \A n \in 1..Len(fetches) : fetches[n].by \in Researchers
    <3>1. \A n \in 1..Len(fetches) : fetches[n] \in Fetch
      BY <1>1, ElementOfSeq
    <3> QED BY <3>1 DEF Fetch
  <2>2. \A n \in 1..Len(fetches) : Whole(n)'
    BY <1>8, <1>10, <2>1 DEF IInv, FetchInv, Whole
  <2>3. \A n \in Nat : n = Len(fetches) + 1 => Whole(n)'
    BY <1>3, <1>5, <1>6, <1>7, <1>8 DEF Whole
  <2>4. \A n \in 1..Len(fetches') : n = Len(fetches) + 1 \/ n \in 1..Len(fetches)
    BY <1>1, <1>8
  <2>5. \A n \in 1..Len(fetches') : Whole(n)'
    <3> SUFFICES ASSUME NEW n \in 1..Len(fetches')
                 PROVE  Whole(n)'
      OBVIOUS
    <3>1. n \in Nat
      OBVIOUS
    <3> QED BY <2>2, <2>3, <2>4, <3>1
  <2>6. 1..Len(fetches) \subseteq 1..Len(fetches') /\ Len(fetches) + 1 \in 1..Len(fetches')
    BY <1>1, <1>8
  <2>7. \A s \in Researchers : agent'[s].pc \in {"store", "commit"} =>
          \E n \in 1..Len(fetches') : agent'[s].facts = fetches'[n].facts
    <3> SUFFICES ASSUME NEW s \in Researchers, agent'[s].pc \in {"store", "commit"}
                 PROVE  \E n \in 1..Len(fetches') : agent'[s].facts = fetches'[n].facts
      OBVIOUS
    <3>1. CASE s = r
      BY <1>5, <1>6, <1>7, <1>8, <2>6, <3>1
    <3>2. CASE s # r
      <4>1. \E n \in 1..Len(fetches) : agent[s].facts = fetches[n].facts
        BY <1>7, <3>2 DEF IInv, FetchInv
      <4> QED BY <1>7, <1>8, <2>6, <3>2, <4>1
    <3> QED BY <3>1, <3>2
  <2>8. \A s \in Researchers : agent'[s].told \subseteq 1..Len(fetches')
    BY <1>10, <2>6 DEF IInv, FetchInv
  <2>9. \A m \in 1..Len(commits') : commits'[m] \in 1..Len(fetches')
    BY <1>4, <2>6 DEF IInv, FetchInv
  <2> QED BY <2>5, <2>7, <2>8, <2>9 DEF FetchInv
<1>12. AnswerInv'
  <2>1. Answering(b)
    BY <1>2, <1>5 DEF Answering
  <2> QED BY <1>7, <2>1 DEF IInv, AnswerInv
<1>13. PlaceInv'
  BY <1>4 DEF IInv, PlaceInv
<1>14. StoredWhole'
  <2>1. DOMAIN commits = 1..Len(commits)
    BY <1>1, LenProperties
  <2>2. \A n \in DOMAIN commits : fetches'[commits[n]] = fetches[commits[n]]
    BY <1>8, <2>1 DEF IInv, FetchInv
  <2>3. cache' = cache /\ commits' = commits
    BY <1>4
  <2> SUFFICES ASSUME NEW k \in Keys
               PROVE  LET writers == {n \in DOMAIN commits : k \in KeysOf(fetches'[commits[n]].facts)}
                      IN  IF writers = {} THEN cache[k] = NoFact
                          ELSE \E n \in writers : /\ \A m \in writers : m <= n
                                                  /\ cache[k].fetch = commits[n]
    BY <2>3 DEF StoredWhole
  <2>4. {n \in DOMAIN commits : k \in KeysOf(fetches'[commits[n]].facts)}
          = {n \in DOMAIN commits : k \in KeysOf(fetches[commits[n]].facts)}
    BY <2>2
  <2> QED BY <2>4 DEF IInv, StoredWhole
<1>15. ToldInv'
  BY <1>4, <1>10 DEF IInv, ToldInv
<1> QED BY <1>9, <1>11, <1>12, <1>13, <1>14, <1>15 DEF IInv

LEMMA FetchedStep ==
  ASSUME IInv, NEW r \in Researchers, Fetched(r)
  PROVE  IInv'
<1> DEFINE a == agent[r]
<1>1. Len(a.answers) < Len(a.uses)
  BY DEF Fetched, IInv, AnswerInv, Answering
<1>2. PICK found \in SUBSET Statements :
        IF found = {} THEN Put(r, Answered(a, "ok")) /\ UNCHANGED fetches
        ELSE /\ Put(r, Holding(a, FactsOf(found, Use(a))))
             /\ fetches' = Append(fetches, [by |-> r, facts |-> FactsOf(found, Use(a))])
  BY DEF Fetched, Holding
<1>3. CASE found = {}
  BY <1>1, <1>2, <1>3, AnswerStep DEF Fetched, Results
<1>4. CASE found # {}
  BY <1>2, <1>4, FoundStep DEF Fetched
<1> QED BY <1>3, <1>4

-----------------------------------------------------------------------------
\* The model is told of a fetch.
Telling(a, fetch) == [a EXCEPT !.told = @ \cup {fetch}]

LEMMA TellingFields ==
  ASSUME NEW a \in Agent, NEW fetch \in Nat
  PROVE  /\ Telling(a, fetch) \in Agent /\ Telling(a, fetch).pc = a.pc
         /\ Telling(a, fetch).collected = a.collected
         /\ Telling(a, fetch).told = a.told \cup {fetch}
         /\ Telling(a, fetch).answers = a.answers /\ Telling(a, fetch).uses = a.uses
         /\ Telling(a, fetch).facts = a.facts
BY DEF Agent, Telling

\* The rows of one fetch are in the table, and it is the last commit.
LEMMA CommitStep ==
  ASSUME IInv, NEW r \in Researchers, Commit(r)
  PROVE  IInv'
<1> DEFINE a == agent[r]
           c == Answered(a, "ok")
<1>1. /\ a \in Agent /\ a.facts \in SUBSET Fact /\ a.told \in SUBSET Nat
      /\ Len(a.answers) \in Nat /\ Len(a.uses) \in Nat /\ "ok" \in Results
      /\ fetches \in Seq(Fetch) /\ Len(fetches) \in Nat
      /\ commits \in Seq(Nat) /\ Len(commits) \in Nat
      /\ agent \in [Researchers -> Agent]
  BY AgentTypes, LenProperties DEF IInv, Results, Types
<1>2. a.pc = "commit" /\ UNCHANGED fetches /\ held' = [held EXCEPT ![r] = {}]
  BY DEF Commit
<1>3. PICK n \in 1..Len(fetches) :
        /\ a.facts = fetches[n].facts /\ a.facts # {}
        /\ \A x \in a.facts : x.fetch = n
        /\ \A x, y \in a.facts : x.key = y.key => x = y
  BY <1>2, StoringOne
<1>4. (CHOOSE x \in a.facts : TRUE).fetch = n
  BY <1>3
<1> DEFINE b == Telling(c, n)
<1>5. agent' = [agent EXCEPT ![r] = b] /\ commits' = Append(commits, n)
  BY <1>4 DEF Commit, Put, Telling
<1>6. /\ c \in Agent /\ c.pc = "tool" /\ c.uses = a.uses /\ c.collected = a.collected
      /\ c.told = a.told /\ Len(c.answers) = Len(a.answers) + 1 /\ c.facts = {}
  BY <1>1, AnsweredFields
<1>7. n \in Nat
  BY <1>1
<1> HIDE DEF c
<1>8. /\ b \in Agent /\ b.pc = "tool" /\ b.collected = a.collected
      /\ b.told = a.told \cup {n} /\ b.answers = c.answers /\ b.uses = a.uses
  BY <1>6, <1>7, TellingFields
<1> HIDE DEF b
<1>9. \A s \in Researchers : agent'[s] = IF s = r THEN b ELSE agent[s]
  BY <1>1, <1>5
<1>10. /\ commits' \in Seq(Nat) /\ Len(commits') = Len(commits) + 1
       /\ commits'[Len(commits) + 1] = n
       /\ \A m \in 1..Len(commits) : commits'[m] = commits[m]
  BY <1>1, <1>5, <1>7, AppendProperties
<1>11. \A k \in Keys :
         IF k \in KeysOf(a.facts)
         THEN cache'[k] \in a.facts /\ cache'[k].key = k /\ cache'[k].fetch = n
         ELSE cache'[k] = cache[k]
  <2>1. cache' = [k \in Keys |-> IF k \in KeysOf(a.facts)
                                 THEN CHOOSE x \in a.facts : x.key = k ELSE cache[k]]
    BY DEF Commit
  <2> SUFFICES ASSUME NEW k \in Keys
               PROVE  IF k \in KeysOf(a.facts)
                      THEN cache'[k] \in a.facts /\ cache'[k].key = k /\ cache'[k].fetch = n
                      ELSE cache'[k] = cache[k]
    OBVIOUS
  <2>2. CASE k \in KeysOf(a.facts)
    <3>1. \E x \in a.facts : x.key = k
      BY <2>2 DEF KeysOf
    <3>2. cache'[k] = CHOOSE x \in a.facts : x.key = k
      BY <2>1, <2>2
    <3>3. cache'[k] \in a.facts /\ cache'[k].key = k
      BY <3>1, <3>2
    <3> QED BY <1>3, <2>2, <3>3
  <2>3. CASE k \notin KeysOf(a.facts)
    BY <2>1, <2>3
  <2> QED BY <2>2, <2>3
<1>12. Types'
  <2>1. cache' \in [Keys -> Fact \cup {NoFact}]
    <3>1. cache' = [k \in Keys |-> cache'[k]]
      BY DEF Commit
    <3>2. \A k \in Keys : cache'[k] \in Fact \cup {NoFact}
      BY <1>1, <1>11 DEF IInv, Types
    <3> QED BY <3>1, <3>2
  <2>2. held' \in [Researchers -> SUBSET Keys] /\ agent' \in [Researchers -> Agent]
    BY <1>1, <1>2, <1>5, <1>8 DEF IInv, Types
  <2> QED BY <1>1, <1>2, <1>10, <2>1, <2>2 DEF Types
<1>13. FetchInv'
  <2>1. \A m \in 1..Len(fetches) : fetches[m].by \in Researchers
    <3>1. \A m \in 1..Len(fetches) : fetches[m] \in Fetch
      BY <1>1, ElementOfSeq
    <3> QED BY <3>1 DEF Fetch
  <2>2. \A s \in Researchers : agent'[s].collected = agent[s].collected
    BY <1>8, <1>9
  <2>3. \A m \in 1..Len(fetches) : Whole(m)'
    BY <1>2, <2>1, <2>2 DEF IInv, FetchInv, Whole
  <2>4. \A s \in Researchers :
          /\ agent'[s].pc \in {"store", "commit"} =>
               \E m \in 1..Len(fetches) : agent'[s].facts = fetches[m].facts
          /\ agent'[s].told \subseteq 1..Len(fetches)
    BY <1>8, <1>9 DEF IInv, FetchInv
  <2>5. \A m \in 1..Len(commits') : commits'[m] \in 1..Len(fetches)
    <3>1. \A m \in 1..Len(commits') : m = Len(commits) + 1 \/ m \in 1..Len(commits)
      BY <1>1, <1>10
    <3> QED BY <1>10, <3>1 DEF IInv, FetchInv
  <2> QED BY <1>2, <2>3, <2>4, <2>5 DEF FetchInv
<1>14. AnswerInv'
  <2>1. Len(a.answers) < Len(a.uses)
    BY <1>2 DEF IInv, AnswerInv, Answering
  <2>2. Answering(b)
    BY <1>1, <1>6, <1>8, <2>1 DEF Answering
  <2> QED BY <1>9, <2>2 DEF IInv, AnswerInv
<1>15. PlaceInv'
  <2>1. \A k \in Keys : cache'[k] # NoFact => cache'[k].key = k
    BY <1>11 DEF IInv, PlaceInv
  <2>2. \A s \in Researchers : held'[s] = IF s = r THEN {} ELSE held[s]
    BY <1>2 DEF IInv, Types
  <2>3. \A s, t \in Researchers : s # t => held'[s] \cap held'[t] = {}
    BY <2>2 DEF IInv, PlaceInv
  <2> QED BY <2>1, <2>3 DEF PlaceInv
<1>16. StoredWhole'
  <2> DEFINE W(k) == {m \in DOMAIN commits : k \in KeysOf(fetches[commits[m]].facts)}
             V(k) == {m \in DOMAIN commits' : k \in KeysOf(fetches[commits'[m]].facts)}
             last == Len(commits) + 1
  <2>1. DOMAIN commits = 1..Len(commits) /\ DOMAIN commits' = 1..last /\ last \in Nat
    BY <1>1, <1>10, LenProperties
  <2>2. SUFFICES ASSUME NEW k \in Keys
                 PROVE  IF V(k) = {} THEN cache'[k] = NoFact
                        ELSE \E m \in V(k) : /\ \A l \in V(k) : l <= m
                                             /\ cache'[k].fetch = commits'[m]
    BY <1>2 DEF StoredWhole
  <2>3. CASE k \in KeysOf(a.facts)
    <3>1. last \in V(k) /\ \A l \in V(k) : l <= last
      BY <1>1, <1>3, <1>10, <2>1, <2>3
    <3> QED BY <1>10, <1>11, <2>3, <3>1
  <2>4. CASE k \notin KeysOf(a.facts)
    <3>1. \A m \in 1..last : m = last \/ m \in 1..Len(commits)
      BY <1>1
    <3>2. last \notin V(k)
      BY <1>3, <1>10, <2>4
    <3>3. \A m \in 1..Len(commits) : m \in V(k) <=> m \in W(k)
      BY <1>1, <1>10, <2>1
    <3>4. V(k) = W(k)
      BY <2>1, <3>1, <3>2, <3>3
    <3>5. IF W(k) = {} THEN cache[k] = NoFact
          ELSE \E m \in W(k) : (\A l \in W(k) : l <= m) /\ cache[k].fetch = commits[m]
      BY DEF IInv, StoredWhole
    <3>6. \A m \in W(k) : commits'[m] = commits[m]
      BY <1>10, <2>1
    <3>7. cache'[k] = cache[k]
      BY <1>11, <2>4
    <3> HIDE DEF V, W
    <3> QED BY <3>4, <3>5, <3>6, <3>7
  <2> QED BY <2>3, <2>4
<1>17. ToldInv'
  <2> SUFFICES ASSUME NEW s \in Researchers, NEW m \in agent'[s].told
               PROVE  \E l \in 1..Len(commits') : commits'[l] = m
    BY DEF ToldInv
  <2>1. 1..Len(commits) \subseteq 1..Len(commits') /\ Len(commits) + 1 \in 1..Len(commits')
    BY <1>1, <1>10
  <2>2. CASE m = n
    BY <1>10, <2>1, <2>2
  <2>3. CASE m # n
    <3>1. m \in agent[s].told
      BY <1>8, <1>9, <2>3
    <3>2. PICK l \in 1..Len(commits) : commits[l] = m
      BY <3>1 DEF IInv, ToldInv
    <3> QED BY <1>10, <2>1, <3>2
  <2> QED BY <2>2, <2>3
<1> QED BY <1>12, <1>13, <1>14, <1>15, <1>16, <1>17 DEF IInv

-----------------------------------------------------------------------------
LEMMA InitInv ==
  ASSUME Init
  PROVE  IInv
<1>1. Len(fetches) = 0 /\ Len(commits) = 0 /\ DOMAIN commits = {}
      /\ fetches \in Seq(Fetch) /\ commits \in Seq(Nat)
  BY EmptySeq DEF Init
<1>2. Fresh \in Agent
  BY EmptySeq DEF Fresh, Agent, PCs
<1>3. Types
  BY <1>1, <1>2 DEF Init, Types
<1>4. FetchInv
  BY <1>1 DEF Init, FetchInv, Fresh
<1>5. AnswerInv
  BY DEF Init, AnswerInv, Answering, Fresh
<1>6. PlaceInv /\ ToldInv
  BY DEF Init, PlaceInv, ToldInv, Fresh
<1>7. StoredWhole
  BY <1>1 DEF Init, StoredWhole
<1> QED BY <1>3, <1>4, <1>5, <1>6, <1>7 DEF IInv

LEMMA NextInv ==
  ASSUME IInv, [Next]_vars
  PROVE  IInv'
<1>1. CASE Next
  <2>1. PICK r \in Researchers : Works(r) \/ Fails(r)
    BY <1>1 DEF Next
  <2> QED
    BY <2>1, ConversationSteps, FetchedStep, StoreStep, CommitStep, StoreFailsStep,
       StoreRefusedStep, CloseStep DEF Works, Fails
<1>2. CASE UNCHANGED vars
  <2>1. Types'
    BY <1>2 DEF vars, IInv, Types
  <2>2. FetchInv'
    BY <1>2 DEF vars, IInv, FetchInv, Whole
  <2>3. AnswerInv' /\ PlaceInv'
    BY <1>2 DEF vars, IInv, AnswerInv, PlaceInv
  <2>4. StoredWhole'
    BY <1>2 DEF vars, IInv, StoredWhole
  <2>5. ToldInv'
    BY <1>2 DEF vars, IInv, ToldInv
  <2> QED BY <2>1, <2>2, <2>3, <2>4, <2>5 DEF IInv
<1> QED BY <1>1, <1>2

LEMMA InvHolds == Spec => []IInv
BY InitInv, NextInv, PTL DEF Spec

\* A committed fetch is among the writers of its keys, the last of which wins.
LEMMA InvImpliesTold == ASSUME IInv PROVE ToldIsStored
<1> SUFFICES ASSUME NEW r \in Researchers, NEW n \in agent[r].told
             PROVE  \E i \in DOMAIN commits :
                      /\ commits[i] = n
                      /\ \A x \in fetches[n].facts :
                           \E j \in DOMAIN commits : i <= j /\ cache[x.key].fetch = commits[j]
  BY DEF ToldIsStored
<1>1. DOMAIN commits = 1..Len(commits) /\ fetches \in Seq(Fetch)
  BY LenProperties DEF IInv, Types
<1>2. PICK i \in DOMAIN commits : commits[i] = n
  BY <1>1 DEF IInv, ToldInv
<1>3. n \in 1..Len(fetches)
  BY DEF IInv, FetchInv
<1>4. ASSUME NEW x \in fetches[n].facts
      PROVE  \E j \in DOMAIN commits : i <= j /\ cache[x.key].fetch = commits[j]
  <2>1. x.key \in Keys
    <3>1. fetches[n] \in Fetch
      BY <1>1, <1>3, ElementOfSeq
    <3> QED BY <3>1 DEF Fetch, Fact
  <2> DEFINE writers == {m \in DOMAIN commits : x.key \in KeysOf(fetches[commits[m]].facts)}
  <2>2. i \in writers
    BY <1>2 DEF KeysOf
  <2>3. PICK j \in writers : (\A m \in writers : m <= j) /\ cache[x.key].fetch = commits[j]
    BY <2>1, <2>2 DEF IInv, StoredWhole
  <2> QED BY <2>2, <2>3
<1> QED BY <1>2, <1>4

LEMMA InvImplies ==
  ASSUME IInv
  PROVE  TypeOK /\ EveryUseIsAnswered /\ ResultIsComplete
<1>1. fetches \in Seq(Fetch) /\ commits \in Seq(Nat)
      /\ DOMAIN fetches = 1..Len(fetches) /\ DOMAIN commits = 1..Len(commits)
  BY LenProperties DEF IInv, Types
<1>2. \A k \in Keys : cache[k] = NoFact \/ cache[k] \in [key : {k}, fetch : Nat]
  BY DEF IInv, Types, PlaceInv, Fact
<1>3. \A r \in Researchers : agent[r].facts \cup agent[r].collected \subseteq Fact
  BY AgentTypes DEF IInv
<1>4. TypeOK
  BY <1>1, <1>2, <1>3 DEF TypeOK, IInv, Types, PlaceInv, FetchInv
<1>5. EveryUseIsAnswered
  BY DEF EveryUseIsAnswered, IInv, AnswerInv, Answering
<1>6. ResultIsComplete
  BY <1>1 DEF ResultIsComplete, IInv, FetchInv, Whole
<1> QED BY <1>4, <1>5, <1>6

-----------------------------------------------------------------------------
\* A row is at its own key, what was fetched are facts, no two sessions have
\* locked the same key, and nothing is committed that was not fetched.
THEOREM ResearchTypes == Spec => []TypeOK
BY InvHolds, InvImplies, PTL

\* The model is asked again only with a result for each tool use of its reply,
\* though any tool, the database or EDGAR raised (researcher.py, the loop over
\* tool_uses).
THEOREM EveryUseGetsItsResult == Spec => []EveryUseIsAnswered
BY InvHolds, InvImplies, PTL

\* No fact that EDGAR gave is missing in what research() returns, whether or not
\* the database took it.
THEOREM NothingFetchedIsMissing == Spec => []ResultIsComplete
BY InvHolds, InvImplies, PTL

\* However the upserts of several sessions alternate and fail, each row is the
\* one of the last committed fetch that had its key: put_many is one statement
\* and its locks last until the commit.
THEOREM TableIsWholeFetches == Spec => []StoredWhole
BY InvHolds, PTL DEF IInv

\* A fetch the model was told of is committed, and what is at its keys is its own
\* or was committed since (researcher.py:186-187).
THEOREM ToldFetchesAreStored == Spec => []ToldIsStored
BY InvHolds, InvImpliesTold, PTL
=============================================================================
