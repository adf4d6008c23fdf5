-------------------------- MODULE AgentCallsProofs --------------------------
(***************************************************************************)
(* Sessions stay with the tenant that created them, for any number of      *)
(* tasks, sessions and tenants: of the agents and the tracer that proof    *)
(* needs only that they leave owners and a turn's identity alone.  Then,   *)
(* the spans of every task nest, and the counters say what they say.       *)
(***************************************************************************)
EXTENDS AgentCalls, TLAPS, FiniteSetTheorems, WellFoundedInduction

Places  == {"idle", "arrived", "routed", "ready", "calling", "ended", "cut"}
Started == {"ready", "calling", "cut"}
Turn == [pc : Places, kind : {"none", "create", "prompt", "resume", "sync", "eval"},
         session : Sessions \cup {"none"}, disabled : BOOLEAN, token : Tokens,
         caller : Parties \cup {NoTenant}]

Created(u, s) == turn[u].kind = "create" /\ turn[u].session = s

\* The caller of a request is who its token says, once that was looked at.
Known(t) == turn[t].caller = Party(t)

\* A row's tenant is its creator's.
Owned(s) ==
  \/ s \in Legacy /\ owner[s] = NoTenant
  \/ s \notin Legacy /\ owner[s] = Nobody
  \/ s \notin Legacy /\ \E u \in Turns : Created(u, s) /\ Known(u) /\ owner[s] = turn[u].caller

\* An id is drawn once, and has no row before its creation.
Creates(u) ==
  /\ turn[u].session \in Sessions /\ turn[u].session \notin Legacy
  /\ turn[u].pc \in {"arrived", "routed", "ended"}
  /\ turn[u].pc # "ended" => owner[turn[u].session] = Nobody
  /\ turn[u].pc = "routed" => Known(u) /\ turn[u].caller # NoTenant
  /\ \A v \in Turns : Created(v, turn[u].session) => u = v

\* A turn that was let in could see its session, and still can.
Prompts(t) ==
  /\ turn[t].session \in Sessions
  /\ turn[t].pc = "routed" => Known(t) /\ turn[t].caller # NoTenant
  /\ turn[t].pc \in Started =>
       Known(t) /\ turn[t].caller # NoTenant /\ Visible(turn[t].session, turn[t].caller)

\* Why TenantsApart holds.
TenancyInv ==
  /\ turn \in [Turns -> Turn]
  /\ owner \in [Sessions -> Parties \cup {NoTenant, Nobody}]
  /\ \A s \in Sessions : Owned(s)
  /\ \A u \in Turns : turn[u].kind = "create" => Creates(u)
  /\ \A t \in Turns : turn[t].kind = "prompt" => Prompts(t)

LEMMA Names ==
  /\ Anonymous \in Parties /\ NoTenant \notin Parties /\ Nobody \notin Parties
  /\ Parties \subseteq Tokens /\ NoTenant \notin Tokens /\ Nobody \notin Tokens
  /\ Nobody # NoTenant
BY AgentCallsAssumption DEF Anonymous, NoTenant, Nobody, Parties, Tokens

\* An invariant with a witness for each session gives the property.
LEMMA InvImpliesApart == TenancyInv => TenantsApart
<1> SUFFICES ASSUME TenancyInv, NEW t \in Turns, turn[t].kind = "prompt", turn[t].pc \in Started
             PROVE  \/ turn[t].session \in Legacy /\ Party(t) = Anonymous
                    \/ \E u \in Turns : /\ turn[u].kind = "create" /\ turn[u].session = turn[t].session
                                       /\ Party(u) = Party(t)
  BY DEF TenantsApart, Started
<1> DEFINE s == turn[t].session
<1>1. /\ s \in Sessions /\ Known(t) /\ turn[t].caller # NoTenant /\ Visible(s, turn[t].caller)
      /\ turn[t].caller \in Parties \cup {NoTenant} /\ Owned(s)
  BY DEF TenancyInv, Prompts, Turn
<1>2. \A u \in Turns : Known(u) => turn[u].caller # NoTenant
  <2>1. \A u \in Turns : turn[u].token \in Tokens
    BY DEF TenancyInv, Turn
  <2> QED BY <2>1, Names DEF Known, Party
<1>3. CASE owner[s] = NoTenant
  <2>1. Party(t) = Anonymous
    BY <1>1, <1>3 DEF Visible, Known, Party
  <2>2. s \in Legacy
    BY <1>1, <1>2, <1>3, Names DEF Owned
  <2> QED BY <2>1, <2>2
<1>4. CASE owner[s] # NoTenant
  <2>1. owner[s] = turn[t].caller /\ owner[s] # Nobody
    BY <1>1, <1>4, Names DEF Visible
  <2>2. PICK u \in Turns : Created(u, s) /\ Known(u) /\ owner[s] = turn[u].caller
    BY <1>1, <1>4, <2>1 DEF Owned
  <2> QED BY <1>1, <2>1, <2>2 DEF Created, Known, Party
<1> QED BY <1>3, <1>4

\* A turn that has begun goes on, or any turn ends.
LEMMA GoingOn ==
  ASSUME TenancyInv, NEW t \in Turns, NEW p \in Started \cup {"ended"},
         turn' = [turn EXCEPT ![t].pc = p], UNCHANGED owner,
         p = "ended" \/ turn[t].pc \in {"ready", "calling"}
  PROVE  TenancyInv'
<1>1. \A u \in Turns : /\ turn'[u].kind = turn[u].kind /\ turn'[u].session = turn[u].session
                       /\ turn'[u].disabled = turn[u].disabled /\ turn'[u].token = turn[u].token
                       /\ turn'[u].caller = turn[u].caller
                       /\ turn'[u].pc = IF u = t THEN p ELSE turn[u].pc
  BY DEF TenancyInv, Turn
<1>2. turn' \in [Turns -> Turn]
  BY DEF TenancyInv, Turn, Places, Started
<1>3. \A u \in Turns : Known(u)' <=> Known(u)
  BY <1>1 DEF Known, Party
<1>4. \A u \in Turns : \A s : Created(u, s)' <=> Created(u, s)
  BY <1>1 DEF Created
<1>5. ASSUME NEW s \in Sessions PROVE Owned(s)'
  BY <1>1, <1>3, <1>4 DEF TenancyInv, Owned
<1>6. ASSUME NEW u \in Turns, turn'[u].kind = "create" PROVE Creates(u)'
  <2>1. Creates(u) /\ turn[u].kind = "create"
    BY <1>1, <1>6 DEF TenancyInv
  <2>2. u = t => p = "ended"
    BY <2>1 DEF Creates
  <2> QED BY <1>1, <1>3, <1>4, <2>1, <2>2 DEF Creates
<1>7. ASSUME NEW u \in Turns, turn'[u].kind = "prompt" PROVE Prompts(u)'
  <2>1. Prompts(u) /\ turn[u].kind = "prompt"
    BY <1>1, <1>7 DEF TenancyInv
  <2>2. turn'[u].pc = "routed" => turn[u].pc = "routed"
    BY <1>1 DEF Started
  <2>3. turn'[u].pc \in Started => turn[u].pc \in Started
    BY <1>1 DEF Started
  <2> QED BY <1>1, <1>3, <2>1, <2>2, <2>3 DEF Prompts, Visible
<1> QED BY <1>2, <1>5, <1>6, <1>7 DEF TenancyInv

\* A task takes up something that is neither a creation nor a prompt.
LEMMA Other ==
  ASSUME TenancyInv, NEW t \in Turns, NEW w \in Turn, turn[t].pc = "idle", turn[t].kind # "create",
         w.kind \notin {"create", "prompt"}, turn' = [turn EXCEPT ![t] = w], UNCHANGED owner
  PROVE  TenancyInv'
<1>1. turn' \in [Turns -> Turn] /\ \A u \in Turns : turn'[u] = IF u = t THEN w ELSE turn[u]
  BY DEF TenancyInv
<1>2. \A u \in Turns \ {t} : Known(u)' <=> Known(u)
  BY <1>1 DEF Known, Party
<1>3. \A u \in Turns : \A s : Created(u, s)' <=> Created(u, s)
  BY <1>1 DEF Created
<1>4. ASSUME NEW s \in Sessions PROVE Owned(s)'
  BY <1>1, <1>2, <1>3 DEF TenancyInv, Owned, Created
<1>5. ASSUME NEW u \in Turns, turn'[u].kind = "create" PROVE Creates(u)'
  BY <1>1, <1>2, <1>3, <1>5 DEF TenancyInv, Creates
<1>6. ASSUME NEW u \in Turns, turn'[u].kind = "prompt" PROVE Prompts(u)'
  BY <1>1, <1>2, <1>6 DEF TenancyInv, Prompts, Visible
<1> QED BY <1>1, <1>4, <1>5, <1>6 DEF TenancyInv

\* No idle task is a creation.
LEMMA IdleIsNew == ASSUME TenancyInv, NEW t \in Turns, turn[t].pc = "idle" PROVE turn[t].kind # "create"
BY DEF TenancyInv, Creates

\* A request arrives: a creation with an id that no other has.
LEMMA RequestKeeps == ASSUME TenancyInv, NEW t \in Turns, Request(t) PROVE TenancyInv'
<1>1. PICK kind \in {"create", "prompt"}, s \in Sessions, token \in Tokens, d \in Disabled :
        /\ kind = "create" => ~Taken(s)
        /\ turn' = [turn EXCEPT ![t] = [pc |-> "arrived", kind |-> kind, session |-> s,
                                        disabled |-> d, token |-> token, caller |-> NoTenant]]
  BY DEF Request
<1> DEFINE w == [pc |-> "arrived", kind |-> kind, session |-> s,
                 disabled |-> d, token |-> token, caller |-> NoTenant]
<1>2. w \in Turn
  BY AgentCallsAssumption DEF Turn, Places
<1>3. turn' \in [Turns -> Turn] /\ \A u \in Turns : turn'[u] = IF u = t THEN w ELSE turn[u]
  BY <1>1, <1>2 DEF TenancyInv
<1>4. owner' = owner /\ turn[t].kind # "create" /\ turn[t].pc = "idle"
  BY IdleIsNew DEF Request
<1>5. \A u \in Turns \ {t} : (Known(u)' <=> Known(u)) /\ \A x : Created(u, x)' <=> Created(u, x)
  BY <1>3 DEF Known, Party, Created
<1>6. \A x : ~Created(t, x) /\ (Created(t, x)' <=> kind = "create" /\ x = s)
  BY <1>3, <1>4 DEF Created
<1>7. ASSUME NEW x \in Sessions PROVE Owned(x)'
  BY <1>3, <1>4, <1>5, <1>6 DEF TenancyInv, Owned
<1>8. ASSUME NEW u \in Turns, turn'[u].kind = "create" PROVE Creates(u)'
  <2>1. CASE u = t
    <3>1. owner[s] = Nobody /\ \A v \in Turns : ~Created(v, s)
      BY <1>1, <1>3, <1>8, <2>1 DEF Taken, Created
    <3>2. s \notin Legacy
      BY <3>1, Names DEF TenancyInv, Owned
    <3> QED BY <1>3, <1>4, <1>5, <2>1, <3>1, <3>2 DEF Creates
  <2>2. CASE u # t
    <3>1. Creates(u) /\ Created(u, turn[u].session) /\ turn'[u] = turn[u]
      BY <1>3, <1>8, <2>2 DEF TenancyInv, Created
    <3>2. ~Created(t, turn[u].session)'
      BY <1>1, <1>6, <3>1 DEF Taken, Created
    <3> QED BY <1>4, <1>5, <2>2, <3>1, <3>2 DEF Creates
  <2> QED BY <2>1, <2>2
<1>9. ASSUME NEW u \in Turns, turn'[u].kind = "prompt" PROVE Prompts(u)'
  <2>1. CASE u = t
    BY <1>3, <2>1 DEF Prompts, Started
  <2>2. CASE u # t
    BY <1>3, <1>4, <1>5, <1>9, <2>2 DEF TenancyInv, Prompts, Visible
  <2> QED BY <2>1, <2>2
<1> QED BY <1>3, <1>4, <1>7, <1>8, <1>9 DEF TenancyInv

\* The token is looked at, and the caller known.
LEMMA AuthenticateKeeps == ASSUME TenancyInv, NEW t \in Turns, Authenticate(t) PROVE TenancyInv'
<1>1. CASE ~turn[t].disabled /\ turn[t].token \notin Parties
  <2>1. turn' = [turn EXCEPT ![t].pc = "ended"] /\ UNCHANGED owner
    BY <1>1 DEF Authenticate, TenancyInv
  <2> QED BY <2>1, GoingOn
<1>2. CASE turn[t].disabled \/ turn[t].token \in Parties
  <2> DEFINE c == IF turn[t].disabled THEN Anonymous ELSE turn[t].token
  <2>1. turn' = [turn EXCEPT ![t] = [turn[t] EXCEPT !.pc = "routed", !.caller = c]] /\ UNCHANGED owner
    BY <1>2 DEF Authenticate
  <2>2. c \in Parties /\ c # NoTenant
    BY <1>2, Names
  <2> HIDE DEF c
  <2>3. turn[t] \in Turn /\ turn[t].pc = "arrived"
    BY DEF TenancyInv, Authenticate
  <2>4. \A u \in Turns : /\ turn'[u].kind = turn[u].kind /\ turn'[u].session = turn[u].session
                         /\ turn'[u].disabled = turn[u].disabled /\ turn'[u].token = turn[u].token
                         /\ turn'[u].caller = (IF u = t THEN c ELSE turn[u].caller)
                         /\ turn'[u].pc = (IF u = t THEN "routed" ELSE turn[u].pc)
    BY <2>1 DEF TenancyInv, Turn
  <2>5. turn' \in [Turns -> Turn]
    BY <2>1, <2>2, <2>3 DEF TenancyInv, Turn, Places
  <2>6. Known(t)' /\ \A u \in Turns \ {t} : Known(u)' <=> Known(u)
    BY <2>4 DEF Known, Party, c
  <2>7. \A u \in Turns : \A s : Created(u, s)' <=> Created(u, s)
    BY <2>4 DEF Created
  <2>8. ASSUME NEW s \in Sessions PROVE Owned(s)'
    <3>1. CASE Created(t, s)
      <4>1. Creates(t) /\ turn[t].session = s
        BY <3>1 DEF TenancyInv, Created
      <4> QED BY <2>1, <2>3, <4>1 DEF Creates, Owned
    <3>2. CASE ~Created(t, s)
      BY <2>1, <2>4, <2>6, <2>7, <3>2 DEF TenancyInv, Owned
    <3> QED BY <3>1, <3>2
  <2>9. ASSUME NEW u \in Turns, turn'[u].kind = "create" PROVE Creates(u)'
    <3>1. Creates(u)
      BY <2>4, <2>9 DEF TenancyInv
    <3> QED BY <2>1, <2>2, <2>3, <2>4, <2>6, <2>7, <3>1 DEF Creates
  <2>10. ASSUME NEW u \in Turns, turn'[u].kind = "prompt" PROVE Prompts(u)'
    <3>1. Prompts(u)
      BY <2>4, <2>10 DEF TenancyInv
    <3> QED BY <2>1, <2>2, <2>4, <2>6, <3>1 DEF Prompts, Visible, Started
  <2> QED BY <2>1, <2>5, <2>8, <2>9, <2>10 DEF TenancyInv
<1> QED BY <1>1, <1>2

\* The row is inserted: nobody else's, and nobody's before.
LEMMA CreateKeeps == ASSUME TenancyInv, NEW t \in Turns, Create(t) PROVE TenancyInv'
<1> DEFINE s == turn[t].session
<1>1. /\ turn' = [turn EXCEPT ![t].pc = "ended"] /\ owner' = [owner EXCEPT ![s] = turn[t].caller]
      /\ turn[t].pc = "routed" /\ turn[t].kind = "create" /\ turn[t] \in Turn
  BY DEF Create, Goto, TenancyInv
<1>2. Creates(t) /\ s \in Sessions /\ s \notin Legacy /\ owner[s] = Nobody
      /\ Known(t) /\ turn[t].caller # NoTenant
  BY <1>1 DEF TenancyInv, Creates
<1>3. \A u \in Turns : /\ turn'[u].kind = turn[u].kind /\ turn'[u].session = turn[u].session
                       /\ turn'[u].disabled = turn[u].disabled /\ turn'[u].token = turn[u].token
                       /\ turn'[u].caller = turn[u].caller
                       /\ turn'[u].pc = IF u = t THEN "ended" ELSE turn[u].pc
  BY <1>1 DEF TenancyInv, Turn
<1>4. turn' \in [Turns -> Turn]
  BY <1>1 DEF TenancyInv, Turn, Places
<1>5. /\ owner' \in [Sessions -> Parties \cup {NoTenant, Nobody}]
      /\ \A x \in Sessions : owner'[x] = IF x = s THEN turn[t].caller ELSE owner[x]
  BY <1>1 DEF TenancyInv, Turn
<1>6. \A u \in Turns : (Known(u)' <=> Known(u)) /\ \A x : Created(u, x)' <=> Created(u, x)
  BY <1>3 DEF Known, Party, Created
<1>7. ASSUME NEW x \in Sessions PROVE Owned(x)'
  <2>1. CASE x = s
    <3>1. Created(t, x)' /\ Known(t)' /\ owner'[x] = turn'[t].caller
      BY <1>1, <1>2, <1>3, <1>5, <1>6, <2>1 DEF Created
    <3>2. x \notin Legacy
      BY <1>2, <2>1
    <3> QED BY <3>1, <3>2 DEF Owned
  <2>2. CASE x # s
    <3>1. Owned(x) /\ owner'[x] = owner[x]
      BY <1>5, <2>2 DEF TenancyInv
    <3>2. ASSUME NEW u \in Turns, Created(u, x), Known(u), owner[x] = turn[u].caller
          PROVE  Created(u, x)' /\ Known(u)' /\ owner'[x] = turn'[u].caller
      BY <1>3, <1>6, <3>1, <3>2
    <3> QED BY <3>1, <3>2 DEF Owned
  <2> QED BY <2>1, <2>2
<1>8. ASSUME NEW u \in Turns, turn'[u].kind = "create" PROVE Creates(u)'
  <2>1. Creates(u) /\ Created(u, turn[u].session)
    BY <1>3, <1>8 DEF TenancyInv, Created
  <2>2. u # t => turn[u].session # s
    BY <1>2, <2>1 DEF Creates
  <2> QED BY <1>3, <1>5, <1>6, <2>1, <2>2 DEF Creates
<1>9. ASSUME NEW u \in Turns, turn'[u].kind = "prompt" PROVE Prompts(u)'
  <2>1. Prompts(u) /\ u # t /\ turn[u] \in Turn
    BY <1>1, <1>3, <1>9 DEF TenancyInv
  <2>2. turn[u].pc \in Started => turn[u].session # s
    BY <1>2, <2>1, Names DEF Prompts, Visible, Turn
  <2> QED BY <1>3, <1>5, <1>6, <2>1, <2>2 DEF Prompts, Visible
<1> QED BY <1>4, <1>5, <1>7, <1>8, <1>9 DEF TenancyInv

\* A prompt is let in when its caller may see the session.
LEMMA PromptKeeps == ASSUME TenancyInv, NEW t \in Turns, Prompt(t) PROVE TenancyInv'
<1>1. CASE turn' = [turn EXCEPT ![t].pc = "ended"]
  BY <1>1, GoingOn DEF Prompt
<1>2. CASE turn' = [turn EXCEPT ![t].pc = "ready"] /\ Visible(turn[t].session, turn[t].caller)
  <2>1. turn[t].pc = "routed" /\ turn[t].kind = "prompt" /\ owner' = owner /\ turn[t] \in Turn
    BY DEF Prompt, TenancyInv
  <2>2. \A u \in Turns : /\ turn'[u].kind = turn[u].kind /\ turn'[u].session = turn[u].session
                         /\ turn'[u].disabled = turn[u].disabled /\ turn'[u].token = turn[u].token
                         /\ turn'[u].caller = turn[u].caller
                         /\ turn'[u].pc = IF u = t THEN "ready" ELSE turn[u].pc
    BY <1>2 DEF TenancyInv, Turn
  <2>3. turn' \in [Turns -> Turn]
    BY <1>2 DEF TenancyInv, Turn, Places
  <2>4. \A u \in Turns : (Known(u)' <=> Known(u)) /\ \A x : Created(u, x)' <=> Created(u, x)
    BY <2>2 DEF Known, Party, Created
  <2>5. ASSUME NEW s \in Sessions PROVE Owned(s)'
    BY <2>1, <2>2, <2>4 DEF TenancyInv, Owned
  <2>6. ASSUME NEW u \in Turns, turn'[u].kind = "create" PROVE Creates(u)'
    <3>1. Creates(u) /\ u # t
      BY <2>1, <2>2, <2>6 DEF TenancyInv
    <3> QED BY <2>1, <2>2, <2>4, <3>1 DEF Creates
  <2>7. ASSUME NEW u \in Turns, turn'[u].kind = "prompt" PROVE Prompts(u)'
    <3>1. Prompts(u)
      BY <2>2, <2>7 DEF TenancyInv
    <3> QED BY <1>2, <2>1, <2>2, <2>4, <3>1 DEF Prompts, Visible, Started
  <2> QED BY <2>1, <2>3, <2>5, <2>6, <2>7 DEF TenancyInv
<1> QED BY <1>1, <1>2 DEF Prompt, Goto

LEMMA InitTenancy == Init => TenancyInv
<1> SUFFICES ASSUME Init PROVE TenancyInv
  OBVIOUS
<1>1. turn \in [Turns -> Turn]
  BY DEF Init, Idle, Turn, Places, Tokens
<1>2. \A u \in Turns : turn[u].kind = "none"
  BY DEF Init, Idle
<1>3. /\ owner \in [Sessions -> Parties \cup {NoTenant, Nobody}]
      /\ \A s \in Sessions : Owned(s)
  BY DEF Init, Owned
<1> QED BY <1>1, <1>2, <1>3 DEF TenancyInv

\* Every step keeps the invariant.
LEMMA TenancyStep == TenancyInv /\ [Next]_vars => TenancyInv'
<1> SUFFICES ASSUME TenancyInv, [Next]_vars PROVE TenancyInv'
  OBVIOUS
<1>1. CASE UNCHANGED vars
  BY <1>1 DEF vars, TenancyInv, Owned, Creates, Prompts, Known, Party, Created, Visible
<1>2. ASSUME NEW t \in Turns, Resume(t) \/ BeginSpanned(t) PROVE TenancyInv'
  <2>1. PICK kind \in {"resume", "sync", "eval"}, user \in Parties \cup {NoTenant} :
          turn' = [turn EXCEPT ![t] = Begun(kind, user)]
    BY <1>2 DEF Resume, BeginSpanned
  <2> DEFINE w == Begun(kind, user)
  <2>2. w \in Turn /\ w.kind \notin {"create", "prompt"}
    BY DEF Turn, Places, Begun, Idle, Tokens
  <2>3. turn[t].pc = "idle" /\ UNCHANGED owner
    BY <1>2 DEF Resume, BeginSpanned
  <2>4. turn[t].kind # "create"
    BY <2>3, IdleIsNew
  <2> HIDE DEF w
  <2>5. turn' = [turn EXCEPT ![t] = w]
    BY <2>1 DEF w
  <2> QED BY <2>2, <2>3, <2>4, <2>5, Other
<1>3. ASSUME NEW t \in Turns, Request(t) \/ Authenticate(t) \/ Create(t) \/ Prompt(t) PROVE TenancyInv'
  BY <1>3, RequestKeeps, AuthenticateKeeps, CreateKeeps, PromptKeeps
<1>4. ASSUME NEW t \in Turns, Call(t) \/ Planned(t) \/ Executed(t) \/ Verified(t) PROVE TenancyInv'
  <2>1. UNCHANGED owner /\ turn[t].pc \in {"ready", "calling"}
        /\ \E p \in {"ready", "calling"} : turn' = [turn EXCEPT ![t].pc = p]
    BY <1>4 DEF Call, Planned, Executed, Verified, Answered, Calling, Goto
  <2> QED BY <2>1, GoingOn DEF Started
<1>5. ASSUME NEW t \in Turns, Unparsed(t) \/ CallFails(t) \/ Finish(t) \/ Raise(t) PROVE TenancyInv'
  <2>1. UNCHANGED owner /\ turn' = [turn EXCEPT ![t].pc = "ended"]
    BY <1>5 DEF Unparsed, CallFails, Finish, Raise, End, Goto
  <2> QED BY <2>1, GoingOn
<1>6. ASSUME NEW t \in Turns, SkipSemantic(t) PROVE TenancyInv'
  BY <1>6 DEF SkipSemantic, TenancyInv, Owned, Creates, Prompts, Known, Party, Created, Visible
<1>7. ASSUME NEW t \in Turns, Cancel(t) PROVE TenancyInv'
  <2>1. CASE turn[t].pc = "calling"
    <3>1. UNCHANGED owner /\ turn' = [turn EXCEPT ![t].pc = "cut"]
      BY <1>7, <2>1 DEF Cancel, End, Goto, Calling
    <3> QED BY <2>1, <3>1, GoingOn DEF Started
  <2>2. CASE turn[t].pc # "calling"
    <3>1. UNCHANGED owner /\ turn' = [turn EXCEPT ![t].pc = "ended"]
      BY <1>7, <2>2 DEF Cancel, End, Goto, Calling
    <3> QED BY <3>1, GoingOn
  <2> QED BY <2>1, <2>2
<1> QED BY <1>1, <1>2, <1>3, <1>4, <1>5, <1>6, <1>7 DEF Next, Proceeds

\* Whatever the number of tasks, tenants and sessions, and whichever processes
\* run with AUTH_DISABLED, a session is prompted by the tenant whose token
\* created it and by nobody else (_load_scoped_session).
THEOREM TenantsStayApart == Spec => []TenantsApart
<1>1. TenancyInv => TenantsApart
  BY InvImpliesApart
<1> QED BY <1>1, InitTenancy, TenancyStep, PTL DEF Spec

-----------------------------------------------------------------------------
(***************************************************************************)
(* The spans of a task nest, however many tasks there are.  Each with-block *)
(* remembers the span around it, so that leaving blocks from the inside     *)
(* out leads back to where they were entered.                               *)
(***************************************************************************)
SpanNames == Agents \cup {"turn", "llm"}
Spans == {None, NoOp} \cup (Turns \X SpanNames)
Block == [name : SpanNames, span : Spans, token : Spans, parent : Spans]
View  == [current : Spans, blocks : Seq(Block), ended : [BOOLEAN -> Nat], lost : Nat]
Task  == [agent : Agents \cup {"nobody"}, steps : Int, rounds : Nat]

\* The span of the i-th block, and what a span opened inside it has for a parent.
Top(bs, i) == IF i = 0 THEN None ELSE bs[i].span
Above(bs, i) == IF Top(bs, i - 1) = NoOp THEN None ELSE Top(bs, i - 1)

Chained(now, bs) ==
  /\ now = Top(bs, Len(bs))
  /\ \A i \in 1..Len(bs) : bs[i].token = Top(bs, i - 1) /\ bs[i].parent = Above(bs, i)

\* How many blocks a turn x is inside between two model calls, and at any time.
Depth(x) == IF x.kind \in {"sync", "eval"} /\ x.pc \in {"ready", "calling"} THEN 1 ELSE 0

Fits(bs, x) ==
  /\ Len(bs) = Depth(x) + IF x.pc = "calling" THEN 2 ELSE 0
  /\ Depth(x) = 1 => bs[1].name = "turn"
  /\ x.pc = "calling" => bs[Len(bs)].name = "llm"
  /\ x.kind \in {"sync", "eval"} => x.pc \in {"ready", "calling", "ended", "cut"}

\* Why SpansNest holds.
SpanInv ==
  /\ turn \in [Turns -> Turn] /\ work \in [Turns -> Task]
  /\ current \in [Turns -> Spans] /\ blocks \in [Turns -> Seq(Block)]
  /\ ended \in [BOOLEAN -> Nat] /\ lost \in Nat
  /\ \A t \in Turns : Chained(current[t], blocks[t]) /\ Fits(blocks[t], turn[t])

\* start_span puts a block on top of the others.
LEMMA OpenedChains ==
  ASSUME NEW t \in Turns, NEW v \in View, Chained(v.current, v.blocks),
         NEW name \in SpanNames, NEW kept \in BOOLEAN
  PROVE  LET w == Opened(t, v, name, kept)
         IN  /\ w \in View /\ Chained(w.current, w.blocks)
             /\ Len(w.blocks) = Len(v.blocks) + 1
             /\ w.blocks[Len(w.blocks)].name = name
             /\ \A i \in 1..Len(v.blocks) : w.blocks[i] = v.blocks[i]
<1> DEFINE w == Opened(t, v, name, kept)
           span == IF kept THEN <<t, name>> ELSE NoOp
           new == [name |-> name, span |-> span, token |-> v.current,
                   parent |-> IF v.current = NoOp THEN None ELSE v.current]
<1>1. span \in Spans /\ new \in Block
  BY DEF Spans, Block, View
<1>2. v.blocks \in Seq(Block) /\ v.lost \in Nat
  BY DEF View
<1>3. w.current = span /\ w.blocks = Append(v.blocks, new) /\ w \in View
  <2> DEFINE bs == Append(v.blocks, new)
             l == IF kept THEN v.lost ELSE v.lost + 1
  <2>1. bs \in Seq(Block) /\ l \in Nat
    BY <1>1, <1>2
  <2>2. w = [v EXCEPT !.current = span, !.blocks = bs, !.lost = l]
    BY DEF Opened
  <2> HIDE DEF new, span, w, bs, l
  <2>3. w.current = span /\ w.blocks = bs /\ w \in View
    BY <1>1, <2>1, <2>2 DEF View
  <2> QED BY <2>3 DEF bs
<1> HIDE DEF w, span
<1>4. /\ Len(w.blocks) = Len(v.blocks) + 1 /\ w.blocks[Len(v.blocks) + 1] = new
      /\ \A i \in 1..Len(v.blocks) : w.blocks[i] = v.blocks[i]
      /\ Len(v.blocks) \in Nat
  BY <1>1, <1>2, <1>3
<1>5. \A i \in 0..Len(v.blocks) : Top(w.blocks, i) = Top(v.blocks, i)
  BY <1>4 DEF Top
<1>6. w.current = Top(w.blocks, Len(w.blocks))
  BY <1>3, <1>4 DEF Top
<1>7. ASSUME NEW i \in 1..Len(w.blocks)
      PROVE  w.blocks[i].token = Top(w.blocks, i - 1) /\ w.blocks[i].parent = Above(w.blocks, i)
  <2>1. CASE i = Len(v.blocks) + 1
    <3>1. Top(w.blocks, i - 1) = v.current
      BY <1>4, <1>5, <2>1 DEF Chained
    <3> QED BY <1>4, <2>1, <3>1 DEF Above
  <2>2. CASE i \in 1..Len(v.blocks)
    <3>1. i - 1 \in 0..Len(v.blocks) /\ w.blocks[i] = v.blocks[i]
      BY <1>4, <2>2
    <3> QED BY <1>5, <2>2, <3>1 DEF Chained, Above
  <2> QED BY <1>4, <2>1, <2>2
<1> QED BY <1>3, <1>4, <1>6, <1>7 DEF Chained, w

LEMMA EndedTyped ==
  ASSUME NEW v \in View, v.blocks # <<>>, NEW failed \in BOOLEAN
  PROVE  Ended(v, failed) \in [BOOLEAN -> Nat]
<1>1. v.ended \in [BOOLEAN -> Nat]
  BY DEF View
<1>2. Modulus \in Nat /\ Modulus > 0
  BY BoundsAssumption
<1>3. \A n \in Nat : Bump(n) \in Nat
  BY <1>2 DEF Bump
<1> QED BY <1>1, <1>3 DEF Ended

\* Leaving the innermost block leads back to the span around it.
LEMMA LeftChains ==
  ASSUME NEW v \in View, Chained(v.current, v.blocks), Len(v.blocks) > 0, NEW failed \in BOOLEAN
  PROVE  LET w == Left(v, failed)
         IN  /\ w \in View /\ Chained(w.current, w.blocks)
             /\ Len(w.blocks) = Len(v.blocks) - 1
             /\ \A i \in 1..Len(w.blocks) : w.blocks[i] = v.blocks[i]
<1> DEFINE w == Left(v, failed)
           n == Len(v.blocks)
<1>1. v.blocks \in Seq(Block) /\ n \in Nat \ {0} /\ v.blocks[n] \in Block
  BY DEF View
<1>2. Ended(v, failed) \in [BOOLEAN -> Nat]
  BY <1>1, EndedTyped
<1>3. SubSeq(v.blocks, 1, n - 1) \in Seq(Block)
  BY <1>1
<1>4. /\ w.current = v.blocks[n].token /\ w.blocks = SubSeq(v.blocks, 1, n - 1) /\ w \in View
  <2> DEFINE c == v.blocks[n].token
             bs == SubSeq(v.blocks, 1, n - 1)
             e == Ended(v, failed)
  <2>1. c \in Spans
    BY <1>1 DEF Block
  <2>2. w = [v EXCEPT !.current = c, !.blocks = bs, !.ended = e]
    BY DEF Left
  <2>3. bs \in Seq(Block) /\ e \in [BOOLEAN -> Nat]
    BY <1>2, <1>3
  <2> HIDE DEF w, c, bs, e
  <2>4. w.current = c /\ w.blocks = bs /\ w \in View
    BY <2>1, <2>2, <2>3 DEF View
  <2> QED BY <2>4 DEF c, bs
<1> HIDE DEF w
<1>5. Len(w.blocks) = n - 1 /\ \A i \in 1..(n - 1) : w.blocks[i] = v.blocks[i]
  BY <1>1, <1>4
<1>6. \A i \in 0..(n - 1) : Top(w.blocks, i) = Top(v.blocks, i)
  BY <1>1, <1>5 DEF Top
<1>7. w.current = Top(w.blocks, Len(w.blocks))
  BY <1>1, <1>4, <1>5, <1>6 DEF Chained
<1>8. \A i \in 1..Len(w.blocks) :
        w.blocks[i].token = Top(w.blocks, i - 1) /\ w.blocks[i].parent = Above(w.blocks, i)
  BY <1>1, <1>5, <1>6 DEF Chained, Above
<1> QED BY <1>4, <1>5, <1>7, <1>8 DEF Chained, w

\* An exception that leaves every block leads back to no span.
LEMMA UnwoundChains ==
  ASSUME NEW v \in View, Chained(v.current, v.blocks)
  PROVE  LET w == Unwound(v)
         IN  w \in View /\ Chained(w.current, w.blocks) /\ Len(w.blocks) = 0
<1>1. v.blocks \in Seq(Block)
  BY DEF View
<1>2. CASE v.blocks = <<>>
  BY <1>2 DEF Unwound
<1>3. CASE v.blocks # <<>>
  <2>1. 1 \in 1..Len(v.blocks)
    BY <1>1, <1>3
  <2>2. v.blocks[1].token = None
    BY <2>1 DEF Chained, Top
  <2>3. Ended(v, TRUE) \in [BOOLEAN -> Nat]
    BY <1>3, EndedTyped
  <2>4. /\ Unwound(v).current = None /\ Unwound(v).blocks = <<>> /\ Unwound(v) \in View
    <3> DEFINE w == Unwound(v)
               e == Ended(v, TRUE)
               c == None
    <3>1. w = [v EXCEPT !.current = c, !.blocks = <<>>, !.ended = e]
      BY <1>3, <2>2 DEF Unwound
    <3>2. c \in Spans
      BY DEF Spans
    <3>3. <<>> \in Seq(Block)
      OBVIOUS
    <3> HIDE DEF w, c, e
    <3>4. w.current = c /\ w.blocks = <<>> /\ w \in View
      BY <2>3, <3>1, <3>2, <3>3 DEF View, e
    <3> QED BY <3>4 DEF w, c
  <2> QED BY <2>4 DEF Chained, Top
<1> QED BY <1>2, <1>3

\* A task's spans change and no other's do.
LEMMA Traced ==
  ASSUME SpanInv, NEW t \in Turns, NEW w \in View, Trace(t, w), Chained(w.current, w.blocks),
         turn' \in [Turns -> Turn], work' \in [Turns -> Task],
         \A u \in Turns \ {t} : turn'[u] = turn[u], Fits(w.blocks, turn'[t])
  PROVE  SpanInv'
<1>1. /\ current' = [current EXCEPT ![t] = w.current] /\ blocks' = [blocks EXCEPT ![t] = w.blocks]
      /\ ended' = w.ended /\ lost' = w.lost
  BY DEF Trace, Context
<1>2. w.current \in Spans /\ w.blocks \in Seq(Block) /\ w.ended \in [BOOLEAN -> Nat] /\ w.lost \in Nat
  BY DEF View
<1>3. current' \in [Turns -> Spans] /\ blocks' \in [Turns -> Seq(Block)]
  BY <1>1, <1>2 DEF SpanInv
<1>4. ASSUME NEW u \in Turns PROVE Chained(current'[u], blocks'[u]) /\ Fits(blocks'[u], turn'[u])
  <2>1. CASE u = t
    <3>1. current'[u] = w.current /\ blocks'[u] = w.blocks
      BY <1>1, <2>1 DEF SpanInv
    <3> QED BY <2>1, <3>1
  <2>2. CASE u # t
    <3>1. current'[u] = current[u] /\ blocks'[u] = blocks[u] /\ turn'[u] = turn[u]
      BY <1>1, <2>2 DEF SpanInv
    <3> QED BY <3>1 DEF SpanInv
  <2> QED BY <2>1, <2>2
<1> QED BY <1>1, <1>2, <1>3, <1>4 DEF SpanInv

\* A step that leaves the spans alone.
LEMMA Quiet ==
  ASSUME SpanInv, NEW t \in Turns, UNCHANGED tracers,
         turn' \in [Turns -> Turn], work' \in [Turns -> Task],
         \A u \in Turns \ {t} : turn'[u] = turn[u], Fits(blocks[t], turn'[t])
  PROVE  SpanInv'
<1>1. ASSUME NEW u \in Turns PROVE Chained(current[u], blocks[u]) /\ Fits(blocks[u], turn'[u])
  <2>1. Chained(current[u], blocks[u]) /\ Fits(blocks[u], turn[u])
    BY DEF SpanInv
  <2>2. u # t => turn'[u] = turn[u]
    OBVIOUS
  <2> QED BY <2>1, <2>2
<1>2. current' = current /\ blocks' = blocks /\ ended' = ended /\ lost' = lost
  BY DEF tracers
<1> QED BY <1>1, <1>2 DEF SpanInv

\* What the tracer knows of a task.
LEMMA TracingView ==
  ASSUME SpanInv, NEW t \in Turns
  PROVE  /\ Tracing(t) \in View /\ Tracing(t).current = current[t] /\ Tracing(t).blocks = blocks[t]
         /\ Chained(Tracing(t).current, Tracing(t).blocks) /\ Fits(blocks[t], turn[t])
BY DEF SpanInv, Tracing, View, Context

\* The blocks of a turn that is not in one: none.
LEMMA Outside ==
  ASSUME NEW bs \in Seq(Block), NEW x \in Turn, Len(bs) = 0,
         x.pc # "calling", x.kind \in {"sync", "eval"} => x.pc \in {"ended", "cut"}
  PROVE  Fits(bs, x)
BY DEF Fits, Depth

\* A turn goes to another place and stays what it is.
LEMMA Moved ==
  ASSUME turn \in [Turns -> Turn], NEW t \in Turns, NEW pc, Goto(t, pc)
  PROVE  /\ turn'[t].pc = pc /\ turn'[t].kind = turn[t].kind
         /\ \A u \in Turns \ {t} : turn'[u] = turn[u]
BY DEF Goto, Turn

\* A turn ends, by any exception or cancelled.
LEMMA UnwindKeeps ==
  ASSUME SpanInv, NEW t \in Turns, NEW v \in View, Chained(v.current, v.blocks),
         NEW pc \in {"ended", "cut"}, Trace(t, Unwound(v)), End(t, pc), turn' \in [Turns -> Turn]
  PROVE  SpanInv'
<1> DEFINE w == Unwound(v)
<1>1. w \in View /\ Chained(w.current, w.blocks) /\ Len(w.blocks) = 0
  BY UnwoundChains
<1> HIDE DEF w
<1>2. /\ turn'[t].pc = pc /\ \A u \in Turns \ {t} : turn'[u] = turn[u]
  BY Moved DEF End, SpanInv
<1>3. work' \in [Turns -> Task]
  BY DEF End, SpanInv, Planning, Task, Agents
<1>4. w.blocks \in Seq(Block) /\ turn'[t] \in Turn
  BY <1>1 DEF View
<1>5. Fits(w.blocks, turn'[t])
  BY <1>1, <1>2, <1>4, Outside
<1>6. Trace(t, w)
  BY DEF w
<1> QED BY <1>1, <1>2, <1>3, <1>5, <1>6, Traced

\* A call that returned: two blocks are left, and those outside them stay.
LEMMA TwoLeft ==
  ASSUME SpanInv, NEW t \in Turns, Calling(t)
  PROVE  LET w == Left(Left(Tracing(t), FALSE), FALSE)
         IN  /\ w \in View /\ Chained(w.current, w.blocks) /\ Len(w.blocks) = Depth(turn[t])
             /\ \A i \in 1..Len(w.blocks) : w.blocks[i] = blocks[t][i]
<1> DEFINE v == Tracing(t)
           m == Left(v, FALSE)
           w == Left(m, FALSE)
<1>1. /\ v \in View /\ v.blocks = blocks[t] /\ Chained(v.current, v.blocks)
      /\ Len(v.blocks) = Depth(turn[t]) + 2
  BY TracingView DEF Calling, Fits
<1>2. Depth(turn[t]) \in Nat
  BY DEF Depth
<1> HIDE DEF v
<1>3. /\ m \in View /\ Chained(m.current, m.blocks) /\ Len(m.blocks) = Depth(turn[t]) + 1
      /\ \A i \in 1..Len(m.blocks) : m.blocks[i] = v.blocks[i]
  <2>1. Len(v.blocks) > 0
    BY <1>1, <1>2
  <2>2. /\ m \in View /\ Chained(m.current, m.blocks) /\ Len(m.blocks) = Len(v.blocks) - 1
        /\ \A i \in 1..Len(m.blocks) : m.blocks[i] = v.blocks[i]
    BY <1>1, <2>1, LeftChains
  <2> HIDE DEF m
  <2>3. Len(m.blocks) = Depth(turn[t]) + 1
    BY <1>1, <1>2, <2>2
  <2> QED BY <2>2, <2>3
<1> HIDE DEF m
<1>4. /\ w \in View /\ Chained(w.current, w.blocks) /\ Len(w.blocks) = Depth(turn[t])
      /\ \A i \in 1..Len(w.blocks) : w.blocks[i] = m.blocks[i]
  <2>1. Len(m.blocks) > 0
    BY <1>2, <1>3
  <2>2. /\ w \in View /\ Chained(w.current, w.blocks) /\ Len(w.blocks) = Len(m.blocks) - 1
        /\ \A i \in 1..Len(w.blocks) : w.blocks[i] = m.blocks[i]
    BY <1>3, <2>1, LeftChains
  <2> HIDE DEF w
  <2>3. Len(w.blocks) = Depth(turn[t])
    BY <1>2, <1>3, <2>2
  <2> QED BY <2>2, <2>3
<1> HIDE DEF w
<1>5. \A i \in 1..Len(w.blocks) : w.blocks[i] = blocks[t][i]
  BY <1>1, <1>2, <1>3, <1>4
<1> QED BY <1>4, <1>5 DEF w, m, v

LEMMA AnsweredKeeps ==
  ASSUME SpanInv, NEW t \in Turns, Answered(t), turn' \in [Turns -> Turn], work' \in [Turns -> Task]
  PROVE  SpanInv'
<1> DEFINE w == Left(Left(Tracing(t), FALSE), FALSE)
<1>1. /\ w \in View /\ Chained(w.current, w.blocks) /\ Len(w.blocks) = Depth(turn[t])
      /\ \A i \in 1..Len(w.blocks) : w.blocks[i] = blocks[t][i]
  BY TwoLeft DEF Answered
<1>2. Trace(t, w) /\ turn[t].pc = "calling" /\ Goto(t, "ready")
  BY DEF Answered, Calling
<1> HIDE DEF w
<1>3. /\ turn'[t].pc = "ready" /\ turn'[t].kind = turn[t].kind
      /\ \A u \in Turns \ {t} : turn'[u] = turn[u]
  BY <1>2, Moved DEF SpanInv
<1>4. Depth(turn'[t]) = Depth(turn[t]) /\ Depth(turn[t]) \in {0, 1}
  BY <1>2, <1>3 DEF Depth
<1>5. Depth(turn[t]) = 1 => w.blocks[1].name = "turn"
  BY <1>1, <1>4 DEF SpanInv, Fits
<1>6. Fits(w.blocks, turn'[t])
  BY <1>1, <1>3, <1>4, <1>5 DEF Fits
<1> QED BY <1>1, <1>2, <1>3, <1>6, Traced

\* A call opens the agent's span and the model's inside it.
LEMMA CallKeeps ==
  ASSUME SpanInv, NEW t \in Turns, Call(t), turn' \in [Turns -> Turn] PROVE SpanInv'
<1>1. PICK k \in BOOLEAN, l \in BOOLEAN :
        Trace(t, Opened(t, Opened(t, Tracing(t), work[t].agent, k), "llm", l))
  BY DEF Call
<1> DEFINE v == Tracing(t)
           m == Opened(t, v, work[t].agent, k)
           w == Opened(t, m, "llm", l)
<1>2. v \in View /\ Chained(v.current, v.blocks) /\ Len(v.blocks) = Depth(turn[t])
  <2>1. v \in View /\ v.blocks = blocks[t] /\ Chained(v.current, v.blocks) /\ Fits(blocks[t], turn[t])
    BY TracingView
  <2>2. turn[t].pc = "ready" /\ Depth(turn[t]) \in Nat
    BY DEF Call, Depth
  <2> HIDE DEF v
  <2> QED BY <2>1, <2>2 DEF Fits
<1>3. Depth(turn[t]) \in Nat /\ (Depth(turn[t]) = 1 => v.blocks[1].name = "turn")
  BY TracingView DEF Depth, Fits
<1>4. work[t].agent \in SpanNames /\ "llm" \in SpanNames
  BY DEF Call, SpanInv, Task, SpanNames
<1> HIDE DEF v
<1>5. /\ m \in View /\ Chained(m.current, m.blocks) /\ Len(m.blocks) = Depth(turn[t]) + 1
      /\ \A i \in 1..Len(v.blocks) : m.blocks[i] = v.blocks[i]
  <2>1. /\ m \in View /\ Chained(m.current, m.blocks) /\ Len(m.blocks) = Len(v.blocks) + 1
        /\ \A i \in 1..Len(v.blocks) : m.blocks[i] = v.blocks[i]
    BY <1>2, <1>4, OpenedChains
  <2> HIDE DEF m
  <2>2. Len(m.blocks) = Depth(turn[t]) + 1
    BY <1>2, <2>1
  <2> QED BY <2>1, <2>2
<1> HIDE DEF m
<1>6. /\ w \in View /\ Chained(w.current, w.blocks) /\ Len(w.blocks) = Len(m.blocks) + 1
      /\ w.blocks[Len(w.blocks)].name = "llm"
      /\ \A i \in 1..Len(m.blocks) : w.blocks[i] = m.blocks[i]
  BY <1>4, <1>5, OpenedChains
<1>7. Trace(t, w)
  BY <1>1 DEF w, m, v
<1> HIDE DEF w
<1>8. /\ turn'[t].pc = "calling" /\ turn'[t].kind = turn[t].kind /\ turn[t].pc = "ready"
      /\ work' = work /\ \A u \in Turns \ {t} : turn'[u] = turn[u]
  BY Moved DEF Call, SpanInv
<1>9. Depth(turn'[t]) = Depth(turn[t])
  BY <1>8 DEF Depth
<1>10. ASSUME Depth(turn[t]) = 1 PROVE w.blocks[1].name = "turn"
  <2>1. Len(v.blocks) = 1 /\ Len(m.blocks) = 2
    BY <1>2, <1>5, <1>10
  <2>2. m.blocks[1] = v.blocks[1] /\ w.blocks[1] = m.blocks[1]
    BY <1>5, <1>6, <2>1
  <2> QED BY <1>3, <1>10, <2>2
<1>11. Fits(w.blocks, turn'[t])
  BY <1>3, <1>5, <1>6, <1>8, <1>9, <1>10 DEF Fits
<1>12. work' \in [Turns -> Task]
  BY <1>8 DEF SpanInv
<1> QED BY <1>6, <1>7, <1>8, <1>11, <1>12, Traced

\* A synchronous turn or an evaluated case begins inside a span.
LEMMA BeginSpannedKeeps ==
  ASSUME SpanInv, NEW t \in Turns, BeginSpanned(t), turn' \in [Turns -> Turn] PROVE SpanInv'
<1>1. PICK kept \in BOOLEAN : Trace(t, Opened(t, Tracing(t), "turn", kept))
  BY DEF BeginSpanned
<1>2. PICK kind \in {"sync", "eval"}, user \in Parties \cup {NoTenant} :
        turn' = [turn EXCEPT ![t] = Begun(kind, user)]
  BY DEF BeginSpanned
<1> DEFINE v == Tracing(t)
           w == Opened(t, v, "turn", kept)
<1>3. /\ v \in View /\ v.blocks = blocks[t] /\ Chained(v.current, v.blocks) /\ Len(v.blocks) = 0
  BY TracingView DEF BeginSpanned, Fits, Depth
<1>4. Trace(t, w)
  BY <1>1
<1> HIDE DEF v
<1>5. /\ w \in View /\ Chained(w.current, w.blocks) /\ Len(w.blocks) = 1
      /\ w.blocks[1].name = "turn"
  <2>1. /\ w \in View /\ Chained(w.current, w.blocks) /\ Len(w.blocks) = Len(v.blocks) + 1
        /\ w.blocks[Len(w.blocks)].name = "turn"
    <3>1. "turn" \in SpanNames
      BY DEF SpanNames
    <3>2. v \in View /\ Chained(v.current, v.blocks)
      BY <1>3
    <3> QED BY <3>1, <3>2, OpenedChains
  <2> HIDE DEF w
  <2> QED BY <1>3, <2>1
<1> HIDE DEF w
<1>6. /\ turn'[t].pc = "ready" /\ turn'[t].kind \in {"sync", "eval"}
      /\ \A u \in Turns \ {t} : turn'[u] = turn[u]
  BY <1>2 DEF Begun, Idle, SpanInv
<1>7. Fits(w.blocks, turn'[t])
  BY <1>5, <1>6 DEF Fits, Depth
<1>8. work' \in [Turns -> Task]
  BY DEF BeginSpanned, SpanInv
<1> QED BY <1>4, <1>5, <1>6, <1>7, <1>8, Traced

\* The last block of a turn is left when it finishes.
LEMMA FinishKeeps ==
  ASSUME SpanInv, NEW t \in Turns, Finish(t), turn' \in [Turns -> Turn] PROVE SpanInv'
<1>1. /\ turn'[t].pc = "ended" /\ turn[t].pc = "ready"
      /\ \A u \in Turns \ {t} : turn'[u] = turn[u]
  BY Moved DEF Finish, End, SpanInv
<1>2. work' \in [Turns -> Task]
  BY DEF Finish, End, SpanInv, Planning, Task, Agents
<1>3. blocks[t] \in Seq(Block) /\ turn'[t] \in Turn /\ Len(blocks[t]) \in {0, 1}
  <2>1. blocks[t] \in Seq(Block) /\ turn'[t] \in Turn /\ Fits(blocks[t], turn[t])
    BY DEF SpanInv
  <2> QED BY <1>1, <2>1 DEF Fits, Depth
<1>4. CASE blocks[t] = <<>>
  <2>1. UNCHANGED tracers
    BY <1>4 DEF Finish
  <2>2. Fits(blocks[t], turn'[t])
    BY <1>1, <1>3, <1>4, Outside
  <2> QED BY <1>1, <1>2, <2>1, <2>2, Quiet
<1>5. CASE blocks[t] # <<>>
  <2> DEFINE v == Tracing(t)
             w == Left(v, FALSE)
  <2>1. v \in View /\ v.blocks = blocks[t] /\ Chained(v.current, v.blocks) /\ Len(v.blocks) = 1
    BY <1>3, <1>5, TracingView
  <2>2. Trace(t, w)
    BY <1>5 DEF Finish
  <2> HIDE DEF v
  <2>3. w \in View /\ Chained(w.current, w.blocks) /\ Len(w.blocks) = 0
    <3>1. Len(v.blocks) > 0
      BY <2>1
    <3>2. w \in View /\ Chained(w.current, w.blocks) /\ Len(w.blocks) = Len(v.blocks) - 1
      BY <2>1, <3>1, LeftChains
    <3> HIDE DEF w
    <3> QED BY <2>1, <3>2
  <2> HIDE DEF w
  <2>4. w.blocks \in Seq(Block)
    BY <2>3 DEF View
  <2>5. Fits(w.blocks, turn'[t])
    BY <1>1, <1>3, <2>3, <2>4, Outside
  <2> QED BY <1>1, <1>2, <2>2, <2>3, <2>5, Traced
<1> QED BY <1>4, <1>5

LEMMA BoundIsNat == MaxSteps \in Nat
BY BoundsAssumption

\* The work of a turn stays an agent's whatever the model answers.
LEMMA WorkTyped ==
  ASSUME SpanInv, NEW t \in Turns, Planned(t) \/ Executed(t) \/ Verified(t) \/ SkipSemantic(t)
  PROVE  work' \in [Turns -> Task]
<1>1. work \in [Turns -> Task] /\ work[t].steps \in Int /\ work[t].rounds \in Nat
  BY DEF SpanInv, Task
<1>2. \A n \in Int : Onward(n) \in Task
  BY DEF Onward, Task, Agents
<1>3. CASE Planned(t)
  <2>1. PICK n \in 0..MaxSteps : work' = [work EXCEPT ![t] = Onward(n)]
    BY <1>3 DEF Planned
  <2>2. n \in Int
    BY BoundIsNat
  <2> QED BY <1>1, <1>2, <2>1, <2>2
<1>4. CASE Executed(t)
  <2>1. PICK reply \in {"recorded", "refused", "over"} :
          work' = [work EXCEPT ![t] =
                     IF reply = "over" \/ Rounds(work[t], reply) = MaxRounds
                     THEN Onward(work[t].steps - 1)
                     ELSE [work[t] EXCEPT !.rounds = Rounds(work[t], reply)]]
    BY <1>4 DEF Executed
  <2>2. Rounds(work[t], reply) \in Nat /\ Onward(work[t].steps - 1) \in Task
    BY <1>1, <1>2 DEF Rounds
  <2>3. [work[t] EXCEPT !.rounds = Rounds(work[t], reply)] \in Task
    BY <1>1, <2>2 DEF Task
  <2> QED BY <1>1, <2>1, <2>2, <2>3
<1>5. CASE Verified(t) \/ SkipSemantic(t)
  BY <1>1, <1>5 DEF Verified, SkipSemantic, Task
<1> QED BY <1>3, <1>4, <1>5

\* A step that leaves the spans alone, of a turn inside none.
LEMMA QuietOutside ==
  ASSUME SpanInv, NEW t \in Turns, UNCHANGED tracers, turn' \in [Turns -> Turn],
         \A u \in Turns \ {t} : turn'[u] = turn[u], work' \in [Turns -> Task],
         Len(blocks[t]) = 0, turn'[t].pc # "calling", turn'[t].kind \notin {"sync", "eval"}
  PROVE  SpanInv'
<1>1. Fits(blocks[t], turn'[t])
  BY Outside DEF SpanInv
<1> QED BY <1>1, Quiet

\* A task that has not got to its turn is inside no block.
LEMMA Early ==
  ASSUME SpanInv, NEW t \in Turns, turn[t].pc \in {"idle", "arrived", "routed"}
  PROVE  Len(blocks[t]) = 0 /\ turn[t].kind \notin {"sync", "eval"}
<1>1. Fits(blocks[t], turn[t])
  BY DEF SpanInv
<1> QED BY <1>1 DEF Fits, Depth

LEMMA InitSpans == Init => SpanInv
<1> SUFFICES ASSUME Init PROVE SpanInv
  OBVIOUS
<1>1. turn \in [Turns -> Turn] /\ work \in [Turns -> Task]
  BY DEF Init, Idle, Turn, Places, Tokens, Planning, Task, Agents
<1>2. current \in [Turns -> Spans] /\ \A t \in Turns : current[t] = None
  BY DEF Init, Spans
<1>3. blocks \in [Turns -> Seq(Block)] /\ \A t \in Turns : Len(blocks[t]) = 0
  BY DEF Init
<1>4. ended \in [BOOLEAN -> Nat] /\ lost \in Nat
  BY DEF Init
<1>5. \A t \in Turns : turn[t].kind = "none" /\ turn[t].pc = "idle"
  BY DEF Init, Idle
<1>6. ASSUME NEW t \in Turns PROVE Chained(current[t], blocks[t]) /\ Fits(blocks[t], turn[t])
  BY <1>2, <1>3, <1>5 DEF Chained, Fits, Top, Depth
<1> QED BY <1>1, <1>2, <1>3, <1>4, <1>6 DEF SpanInv

\* Every step keeps the invariant, given that turns are what TenancyInv says.
LEMMA SpanStep == SpanInv /\ TenancyInv' /\ [Next]_vars => SpanInv'
<1> SUFFICES ASSUME SpanInv, TenancyInv', [Next]_vars PROVE SpanInv'
  OBVIOUS
<1>0. turn' \in [Turns -> Turn] /\ work \in [Turns -> Task]
  BY DEF TenancyInv, SpanInv
<1>1. CASE UNCHANGED vars
  BY <1>1 DEF vars, SpanInv
<1>2. ASSUME NEW t \in Turns, Request(t) \/ Authenticate(t) \/ Create(t) \/ Prompt(t) PROVE SpanInv'
  <2>1. /\ UNCHANGED tracers /\ work' = work /\ turn[t].pc \in {"idle", "arrived", "routed"}
    BY <1>2 DEF Request, Authenticate, Create, Prompt
  <2>2. Len(blocks[t]) = 0 /\ turn[t].kind \notin {"sync", "eval"}
    BY <2>1, Early
  <2>3. /\ turn'[t].pc # "calling" /\ turn'[t].kind \notin {"sync", "eval"}
        /\ \A u \in Turns \ {t} : turn'[u] = turn[u]
    <3>1. CASE Request(t)
      BY <3>1 DEF Request, SpanInv
    <3>2. CASE Authenticate(t)
      BY <2>2, <3>2 DEF Authenticate, SpanInv, Turn
    <3>3. CASE Create(t) \/ Prompt(t)
      <4>1. Goto(t, "ended") \/ Goto(t, "ready")
        BY <3>3 DEF Create, Prompt
      <4> QED BY <2>2, <4>1, Moved DEF SpanInv
    <3> QED BY <1>2, <3>1, <3>2, <3>3
  <2> QED BY <1>0, <2>1, <2>2, <2>3, QuietOutside
<1>3. ASSUME NEW t \in Turns, Resume(t) PROVE SpanInv'
  <2>1. PICK n \in 0..MaxSteps, a \in Agents :
          /\ turn' = [turn EXCEPT ![t] = Begun("resume", NoTenant)]
          /\ work' = [work EXCEPT ![t] = [agent |-> a, steps |-> n, rounds |-> 0]]
    BY <1>3 DEF Resume
  <2>2. work' \in [Turns -> Task]
    <3>1. n \in Int
      BY BoundIsNat
    <3>2. [agent |-> a, steps |-> n, rounds |-> 0] \in Task
      BY <3>1 DEF Task
    <3> QED BY <1>0, <2>1, <3>2
  <2>3. /\ turn'[t].pc # "calling" /\ turn'[t].kind \notin {"sync", "eval"}
        /\ \A u \in Turns \ {t} : turn'[u] = turn[u]
    BY <2>1 DEF Begun, Idle, SpanInv
  <2>4. UNCHANGED tracers /\ Len(blocks[t]) = 0
    BY <1>3, Early DEF Resume
  <2> QED BY <1>0, <2>2, <2>3, <2>4, QuietOutside
<1>4. ASSUME NEW t \in Turns, BeginSpanned(t) \/ Call(t) \/ Finish(t) PROVE SpanInv'
  BY <1>0, <1>4, BeginSpannedKeeps, CallKeeps, FinishKeeps
<1>5. ASSUME NEW t \in Turns, Planned(t) \/ Executed(t) \/ Verified(t) PROVE SpanInv'
  <2>1. Answered(t)
    BY <1>5 DEF Planned, Executed, Verified
  <2> QED BY <1>0, <1>5, <2>1, WorkTyped, AnsweredKeeps
<1>6. ASSUME NEW t \in Turns, SkipSemantic(t) PROVE SpanInv'
  <2>1. UNCHANGED tracers /\ turn' = turn
    BY <1>6 DEF SkipSemantic
  <2>2. Fits(blocks[t], turn'[t])
    BY <2>1 DEF SpanInv
  <2> QED BY <1>0, <1>6, <2>1, <2>2, WorkTyped, Quiet
<1>7. ASSUME NEW t \in Turns, CallFails(t) \/ Raise(t) \/ Cancel(t) PROVE SpanInv'
  <2> DEFINE v == Tracing(t)
  <2>1. v \in View /\ Chained(v.current, v.blocks)
    BY TracingView
  <2>2. Trace(t, Unwound(v)) /\ \E pc \in {"ended", "cut"} : End(t, pc)
    BY <1>7 DEF CallFails, Raise, Cancel, Unwind
  <2> HIDE DEF v
  <2> QED BY <1>0, <2>1, <2>2, UnwindKeeps
<1>8. ASSUME NEW t \in Turns, Unparsed(t) PROVE SpanInv'
  <2> DEFINE v == Left(Left(Tracing(t), FALSE), FALSE)
  <2>1. v \in View /\ Chained(v.current, v.blocks)
    BY <1>8, TwoLeft DEF Unparsed
  <2>2. Trace(t, Unwound(v)) /\ End(t, "ended")
    BY <1>8 DEF Unparsed
  <2> HIDE DEF v
  <2> QED BY <1>0, <2>1, <2>2, UnwindKeeps
<1> QED BY <1>1, <1>2, <1>3, <1>4, <1>5, <1>6, <1>7, <1>8 DEF Next, Proceeds

LEMMA InvImpliesNest == SpanInv => SpansNest
<1> SUFFICES ASSUME SpanInv, NEW t \in Turns
             PROVE  LET open == blocks[t]
                        around(i) == IF i = 1 \/ open[i - 1].span = NoOp THEN None ELSE open[i - 1].span
                    IN  /\ turn[t].pc = "calling" => open # <<>> /\ open[Len(open)].name = "llm"
                        /\ turn[t].kind \in {"sync", "eval"} /\ ~Over(t)
                             => open # <<>> /\ open[1].name = "turn"
                        /\ \A i \in DOMAIN open : open[i].parent = around(i)
                        /\ Over(t) => open = <<>>
                        /\ current[t] = IF open = <<>> THEN None ELSE open[Len(open)].span
  BY DEF SpansNest
<1> DEFINE bs == blocks[t]
<1>1. bs \in Seq(Block) /\ Chained(current[t], bs) /\ Fits(bs, turn[t])
  BY DEF SpanInv
<1> HIDE DEF bs
<1>2. Len(bs) \in Nat /\ DOMAIN bs = 1..Len(bs) /\ (bs = <<>> <=> Len(bs) = 0)
  BY <1>1
<1>3. turn[t].pc = "calling" => bs # <<>> /\ bs[Len(bs)].name = "llm"
  BY <1>1, <1>2 DEF Fits, Depth
<1>4. turn[t].kind \in {"sync", "eval"} /\ ~Over(t) => bs # <<>> /\ bs[1].name = "turn"
  BY <1>1, <1>2 DEF Fits, Depth, Over
<1>5. Over(t) => bs = <<>>
  BY <1>1, <1>2 DEF Fits, Depth, Over
<1>6. current[t] = IF bs = <<>> THEN None ELSE bs[Len(bs)].span
  BY <1>1, <1>2 DEF Chained, Top
<1>7. ASSUME NEW i \in DOMAIN bs
      PROVE  bs[i].parent = IF i = 1 \/ bs[i - 1].span = NoOp THEN None ELSE bs[i - 1].span
  BY <1>1, <1>2, <1>7 DEF Chained, Above, Top
<1> QED BY <1>3, <1>4, <1>5, <1>6, <1>7 DEF bs

\* However many tasks interleave, and whichever of their calls fail or are cut
\* short, the open spans of each are a tree of its own (start_span).
THEOREM SpansNestHolds == Spec => []SpansNest
<1>1. Init => TenancyInv /\ SpanInv
  BY InitTenancy, InitSpans
<1>2. TenancyInv /\ SpanInv /\ [Next]_vars => TenancyInv' /\ SpanInv'
  BY TenancyStep, SpanStep
<1>3. SpanInv => SpansNest
  BY InvImpliesNest
<1> QED BY <1>1, <1>2, <1>3, PTL DEF Spec

-----------------------------------------------------------------------------
(***************************************************************************)
(* The counters say what the spans say.  A counter goes round, so two of    *)
(* them are compared by their remainders, and the calls are summed over the *)
(* tenants; first, the arithmetic of both.                                  *)
(***************************************************************************)
\* Some number of a set is the least.
LEMMA LeastNat ==
  ASSUME NEW T \in SUBSET Nat, T # {}
  PROVE  \E x \in T : \A y \in T : x <= y
<1> DEFINE R == OpToRel(<, Nat)
<1>1. IsWellFoundedOn(R, Nat)
  BY NatLessThanWellFounded
<1>2. \A x, y \in Nat : x < y => <<x, y>> \in R
  BY DEF OpToRel
<1> HIDE DEF R
<1>3. PICK x \in T : \A y \in T : ~(<<y, x>> \in R)
  BY <1>1, WFMin
<1>4. \A y \in T : ~(y < x)
  BY <1>2, <1>3
<1>5. \A y \in T : y \in Nat /\ x \in Nat
  BY <1>3
<1> QED BY <1>3, <1>4, <1>5

\* What holds at 0 and goes up with each number reaches N.
LEMMA Reaches ==
  ASSUME NEW N \in Nat, NEW S, 0 \in S, \A n \in 1..N : n - 1 \in S => n \in S
  PROVE  \A n \in 0..N : n \in S
<1> DEFINE T == {n \in 0..N : n \notin S}
<1> SUFFICES ASSUME T # {}  PROVE FALSE
  OBVIOUS
<1>1. T \in SUBSET Nat
  OBVIOUS
<1>2. PICK x \in T : \A y \in T : x <= y
  BY <1>1, LeastNat
<1>3. x \in 1..N /\ x - 1 \in 0..N /\ ~(x <= x - 1)
  BY <1>2
<1>4. x - 1 \notin T
  BY <1>2, <1>3
<1> QED BY <1>2, <1>3, <1>4

\* A number is made of its quotient and its remainder.
LEMMA Primitive ==
  ASSUME NEW a \in Nat, NEW m \in Nat, m > 0
  PROVE  /\ a % m \in 0..(m - 1)
         /\ a \div m \in Nat
         /\ a = m * (a \div m) + (a % m)
OBVIOUS

\* No other quotient and remainder make it.
LEMMA Unique ==
  ASSUME NEW m \in Nat, NEW q \in Nat, NEW p \in Nat, NEW r \in 0..(m - 1), NEW s \in 0..(m - 1),
         m * q + r = m * p + s
  PROVE  r = s
<1>1. \A x, y \in Nat : x < y => m * x + m <= m * y
  <2> SUFFICES ASSUME NEW x \in Nat, NEW y \in Nat, x < y PROVE m * x + m <= m * y
    OBVIOUS
  <2>1. PICK d \in Nat : y = x + 1 + d
    <3>1. y - x - 1 \in Nat /\ y = x + 1 + (y - x - 1)
      OBVIOUS
    <3> QED BY <3>1
  <2>2. m * y = m * x + m + m * d
    BY <2>1
  <2>3. m * d >= 0 /\ m * x \in Nat /\ m * d \in Nat
    OBVIOUS
  <2> QED BY <2>2, <2>3
<1>2. m * q \in Nat /\ m * p \in Nat
  OBVIOUS
<1>3. ~(q < p) /\ ~(p < q)
  BY <1>1, <1>2
<1>4. q = p
  BY <1>3
<1> QED BY <1>2, <1>4

\* The remainder goes up by one, and round.
LEMMA ModStep ==
  ASSUME NEW a \in Nat, NEW m \in Nat, m > 0
  PROVE  (a + 1) % m = IF a % m = m - 1 THEN 0 ELSE (a % m) + 1
<1> DEFINE q == a \div m
           r == a % m
           p == (a + 1) \div m
           s == (a + 1) % m
<1>1. r \in 0..(m - 1) /\ q \in Nat /\ a = m * q + r
  BY Primitive
<1>2. s \in 0..(m - 1) /\ p \in Nat /\ a + 1 = m * p + s
  BY Primitive
<1> HIDE DEF q, r, p, s
<1>3. CASE r = m - 1
  <2>1. m * (q + 1) = m * q + m /\ m * q \in Nat
    BY <1>1
  <2>2. m * (q + 1) + 0 = m * p + s
    BY <1>1, <1>2, <1>3, <2>1
  <2>3. 0 \in 0..(m - 1) /\ q + 1 \in Nat
    BY <1>1
  <2>4. s = 0
    BY <1>2, <2>2, <2>3, Unique
  <2> QED BY <1>3, <2>4 DEF r, s
<1>4. CASE r # m - 1
  <2>1. r + 1 \in 0..(m - 1) /\ m * q + (r + 1) = m * p + s
    <3>1. m * q \in Nat /\ m * p \in Nat
      BY <1>1, <1>2
    <3> QED BY <1>1, <1>2, <1>4, <3>1
  <2>2. s = r + 1
    BY <1>1, <1>2, <2>1, Unique
  <2> QED BY <1>4, <2>2 DEF r, s
<1> QED BY <1>3, <1>4

\* Below the modulus it is the number itself.
LEMMA ModSelf ==
  ASSUME NEW a \in Nat, NEW m \in Nat, a < m
  PROVE  a % m = a
OBVIOUS

\* Two numbers that a counter which goes round does not tell apart.
Same(a, b) == a % Modulus = b % Modulus

\* They stay so when both go up, by one or by n.
LEMMA SameStep ==
  ASSUME NEW a \in Nat, NEW b \in Nat
  PROVE  Same(a + 1, b + 1) <=> Same(a, b)
<1>1. Modulus \in Nat /\ Modulus > 0
  BY BoundsAssumption
<1>2. a % Modulus \in 0..(Modulus - 1) /\ b % Modulus \in 0..(Modulus - 1)
  BY <1>1, Primitive
<1>3. /\ (a + 1) % Modulus = IF a % Modulus = Modulus - 1 THEN 0 ELSE (a % Modulus) + 1
      /\ (b + 1) % Modulus = IF b % Modulus = Modulus - 1 THEN 0 ELSE (b % Modulus) + 1
  BY <1>1, ModStep
<1> DEFINE x == a % Modulus
           y == b % Modulus
           v == (a + 1) % Modulus
           w == (b + 1) % Modulus
<1>4. (v = w) <=> (x = y)
  <2> HIDE DEF x, y, v, w
  <2> QED BY <1>1, <1>2, <1>3 DEF x, y, v, w
<1> QED BY <1>4 DEF Same

LEMMA SameShift ==
  ASSUME NEW a \in Nat, NEW b \in Nat, NEW n \in Nat
  PROVE  Same(a + n, b + n) <=> Same(a, b)
<1> DEFINE S == {k \in 0..n : Same(a + k, b + k) <=> Same(a, b)}
<1>1. 0 \in S
  <2>1. a + 0 = a /\ b + 0 = b
    OBVIOUS
  <2> QED BY <2>1
<1>2. ASSUME NEW k \in 1..n, k - 1 \in S PROVE k \in S
  <2> DEFINE x == a + (k - 1)
             y == b + (k - 1)
  <2>1. x \in Nat /\ y \in Nat /\ a + k = x + 1 /\ b + k = y + 1
    OBVIOUS
  <2>2. Same(x, y) <=> Same(a, b)
    BY <1>2
  <2> HIDE DEF x, y
  <2>3. Same(a + k, b + k) <=> Same(a, b)
    BY <2>1, <2>2, SameStep
  <2> QED BY <2>3
<1> HIDE DEF S
<1>3. \A k \in 0..n : k \in S
  BY <1>1, <1>2, Reaches
<1>4. n \in S
  BY <1>3
<1> QED BY <1>4 DEF S

\* A counter that goes round stays the number of events, up to the rounds.
LEMMA SameBump ==
  ASSUME NEW n \in Nat
  PROVE  Bump(n) \in Nat /\ Bump(n) <= n + 1 /\ Same(Bump(n), n + 1)
<1>1. Modulus \in Nat /\ Modulus > 0
  BY BoundsAssumption
<1> DEFINE r == (n + 1) % Modulus
           q == (n + 1) \div Modulus
<1>2. n + 1 \in Nat
  OBVIOUS
<1>3. r \in 0..(Modulus - 1) /\ q \in Nat /\ n + 1 = Modulus * q + r
  BY <1>1, <1>2, Primitive
<1> HIDE DEF r, q
<1>4. Modulus * q \in Nat
  BY <1>1, <1>3
<1>5. r \in Nat /\ r <= n + 1 /\ r < Modulus
  BY <1>1, <1>3, <1>4
<1>6. r % Modulus = r
  BY <1>1, <1>5, ModSelf
<1> QED BY <1>5, <1>6 DEF Bump, Same, r

\* An event of one kind is counted in a, and in e or not, and n makes up for it.
LEMMA SameCount ==
  ASSUME NEW a \in Nat, NEW b \in Nat, NEW e \in Nat, NEW n \in Nat,
         Same(a, e + n), Same(b, a + 1)
  PROVE  Same(b, e + (n + 1)) /\ Same(b, Bump(e) + n)
<1>1. e + n \in Nat
  OBVIOUS
<1>2. Same(a + 1, (e + n) + 1)
  BY <1>1, SameStep
<1>3. (e + n) + 1 = e + (n + 1) /\ (e + n) + 1 = (e + 1) + n
  OBVIOUS
<1>4. Same(b, (e + 1) + n) /\ Same(b, e + (n + 1))
  BY <1>2, <1>3 DEF Same
<1>5. Bump(e) \in Nat /\ Same(Bump(e), e + 1)
  BY SameBump
<1>6. Same(Bump(e) + n, (e + 1) + n)
  <2>1. e + 1 \in Nat
    OBVIOUS
  <2> QED BY <1>5, <2>1, SameShift
<1> QED BY <1>4, <1>6 DEF Same

\* The sum of the counts c of the labels D, and the label the sum starts with.
SumOver(c, D) == MapThenSumSet(LAMBDA x : c[x], D)
Some(s) == CHOOSE x \in s : TRUE

\* A set less one of its members is smaller by one.
LEMMA Shrinks ==
  ASSUME NEW D, IsFiniteSet(D), NEW s \in SUBSET D, s # {}
  PROVE  /\ Some(s) \in s /\ Some(s) \in D /\ s \ {Some(s)} \in SUBSET D
         /\ Cardinality(s) \in Nat \ {0} /\ Cardinality(s \ {Some(s)}) = Cardinality(s) - 1
<1>1. Some(s) \in s
  BY DEF Some
<1>2. IsFiniteSet(s) /\ Cardinality(s) \in Nat /\ Cardinality(s) # 0
  BY FS_Subset, FS_CardinalityType, FS_EmptySet
<1>3. Cardinality(s \ {Some(s)}) = Cardinality(s) - 1
  BY <1>1, <1>2, FS_RemoveElement
<1> QED BY <1>1, <1>2, <1>3

\* The sum is the recursive function over the subsets that it is written as.
LEMMA SumIs ==
  ASSUME NEW D, IsFiniteSet(D), NEW c
  PROVE  \E f : /\ f = [s \in SUBSET D |-> IF s = {} THEN 0 ELSE c[Some(s)] + f[s \ {Some(s)}]]
                /\ SumOver(c, D) = f[D]
<1> DEFINE N == Cardinality(D)
           Upto(n) == {s \in SUBSET D : Cardinality(s) <= n}
           Row(f, s) == IF s = {} THEN 0 ELSE c[Some(s)] + f[s \ {Some(s)}]
           Made(f, n) == f = [s \in Upto(n) |-> Row(f, s)]
           S == {n \in 0..N : \E f : Made(f, n)}
<1>1. N \in Nat /\ \A s \in SUBSET D : Cardinality(s) \in Nat /\ Cardinality(s) <= N
  BY FS_CardinalityType, FS_Subset
<1>2. 0 \in S
  <2> DEFINE f == [s \in Upto(0) |-> 0]
  <2>1. \A s \in Upto(0) : s = {}
    <3> SUFFICES ASSUME NEW s \in SUBSET D, Cardinality(s) <= 0, s # {} PROVE FALSE
      OBVIOUS
    <3>1. Cardinality(s) \in Nat \ {0}
      BY Shrinks
    <3> QED BY <3>1
  <2>2. Made(f, 0)
    BY <2>1
  <2>3. \E g : Made(g, 0)
    BY <2>2
  <2> HIDE DEF Made
  <2> QED BY <1>1, <2>3
<1>3. ASSUME NEW n \in 1..N, n - 1 \in S PROVE n \in S
  <2>1. PICK f : Made(f, n - 1)
    BY <1>3
  <2> DEFINE g == [s \in Upto(n) |-> Row(f, s)]
  <2>2. \A s \in Upto(n - 1) : s \in Upto(n) /\ g[s] = f[s]
    <3>1. \A s \in Upto(n - 1) : s \in Upto(n)
      BY <1>1
    <3>2. \A s \in Upto(n - 1) : f[s] = Row(f, s)
      BY <2>1
    <3> HIDE DEF Row, Upto
    <3> QED BY <3>1, <3>2
  <2>3. \A s \in Upto(n) : s # {} => s \ {Some(s)} \in Upto(n - 1)
    <3> SUFFICES ASSUME NEW s \in SUBSET D, Cardinality(s) <= n, s # {}
                 PROVE  s \ {Some(s)} \in Upto(n - 1)
      OBVIOUS
    <3> QED BY <1>1, Shrinks
  <2>4. \A s \in Upto(n) : Row(g, s) = Row(f, s)
    <3> HIDE DEF g, Upto
    <3> QED BY <2>2, <2>3
  <2>5. Made(g, n)
    <3> HIDE DEF Row, Upto
    <3> QED BY <2>4
  <2>6. \E h : Made(h, n)
    BY <2>5
  <2> HIDE DEF Made
  <2> QED BY <2>6
<1>4. N \in S
  <2> HIDE DEF S, N
  <2>1. \A n \in 0..N : n \in S
    BY <1>1, <1>2, <1>3, Reaches
  <2> QED BY <1>1, <2>1
<1>5. \E f : f = [s \in SUBSET D |-> IF s = {} THEN 0 ELSE c[Some(s)] + f[s \ {Some(s)}]]
  <2>1. PICK f : Made(f, N)
    BY <1>4
  <2>2. Upto(N) = SUBSET D
    BY <1>1
  <2> QED BY <2>1, <2>2
<1> DEFINE F == CHOOSE iter : iter = [s \in SUBSET D |->
                  IF s = {} THEN 0
                  ELSE c[CHOOSE x \in s : TRUE] + iter[s \ {CHOOSE x \in s : TRUE}]]
<1>6. SumOver(c, D) = F[D]
  BY DEF SumOver, MapThenSumSet, MapThenFoldSet
<1>7. F = [s \in SUBSET D |-> IF s = {} THEN 0 ELSE c[Some(s)] + F[s \ {Some(s)}]]
  BY <1>5 DEF Some
<1> HIDE DEF F
<1> QED BY <1>6, <1>7

\* One term of the sum changes.
LEMMA SumChanges ==
  ASSUME NEW D, IsFiniteSet(D), NEW c \in [D -> Nat], NEW x \in D, NEW v \in Nat
  PROVE  LET d == [c EXCEPT ![x] = v]
         IN  /\ SumOver(c, D) \in Nat /\ SumOver(d, D) \in Nat
             /\ SumOver(d, D) + c[x] = SumOver(c, D) + v
<1> DEFINE d == [c EXCEPT ![x] = v]
           N == Cardinality(D)
           In(s, k) == IF x \in s THEN k ELSE 0
<1>1. PICK f : /\ f = [s \in SUBSET D |-> IF s = {} THEN 0 ELSE c[Some(s)] + f[s \ {Some(s)}]]
               /\ SumOver(c, D) = f[D]
  BY SumIs
<1>2. PICK g : /\ g = [s \in SUBSET D |-> IF s = {} THEN 0 ELSE d[Some(s)] + g[s \ {Some(s)}]]
               /\ SumOver(d, D) = g[D]
  BY SumIs
<1> DEFINE Good(s) == f[s] \in Nat /\ g[s] \in Nat /\ g[s] + In(s, c[x]) = f[s] + In(s, v)
           S == {n \in 0..N : \A s \in SUBSET D : Cardinality(s) = n => Good(s)}
<1>3. N \in Nat /\ \A s \in SUBSET D : s # {} => Cardinality(s) # 0
  <2>1. \A s \in SUBSET D : s # {} => Cardinality(s) # 0
    BY Shrinks
  <2> QED BY <2>1, FS_CardinalityType
<1>4. 0 \in S
  <2>1. Good({})
    BY <1>1, <1>2
  <2> QED BY <1>3, <2>1
<1>5. ASSUME NEW n \in 1..N, n - 1 \in S PROVE n \in S
  <2> SUFFICES ASSUME NEW s \in SUBSET D, Cardinality(s) = n PROVE Good(s)
    OBVIOUS
  <2> DEFINE e == Some(s)
             r == s \ {e}
  <2>1. s # {}
    <3>1. Cardinality({}) = 0 /\ n # 0
      BY <1>3, FS_EmptySet
    <3> QED BY <3>1
  <2>2. e \in s /\ e \in D /\ r \in SUBSET D /\ Cardinality(r) = n - 1
    BY <2>1, Shrinks
  <2>3. Good(r)
    BY <1>5, <2>2
  <2>4. f[s] = c[e] + f[r] /\ g[s] = d[e] + g[r]
    BY <1>1, <1>2, <2>1
  <2>5. c[e] \in Nat /\ c[x] \in Nat /\ d[e] = IF e = x THEN v ELSE c[e]
    BY <2>2
  <2>6. x \in s <=> x \in r \/ x = e
    BY <2>2
  <2>7. x = e => x \notin r
    OBVIOUS
  <2> HIDE DEF e, r, d
  <2> QED BY <2>3, <2>4, <2>5, <2>6, <2>7
<1>6. Good(D)
  <2> HIDE DEF S, N, Good
  <2>1. \A n \in 0..N : n \in S
    BY <1>3, <1>4, <1>5, Reaches
  <2>2. N \in S
    BY <1>3, <2>1
  <2> QED BY <2>2 DEF S, N
<1> HIDE DEF d
<1> QED BY <1>1, <1>2, <1>6 DEF d

\* Nothing counted is nothing.
LEMMA SumZero ==
  ASSUME NEW D, IsFiniteSet(D), NEW c, \A x \in D : c[x] = 0
  PROVE  SumOver(c, D) = 0
<1> DEFINE N == Cardinality(D)
<1>1. PICK f : /\ f = [s \in SUBSET D |-> IF s = {} THEN 0 ELSE c[Some(s)] + f[s \ {Some(s)}]]
               /\ SumOver(c, D) = f[D]
  BY SumIs
<1> DEFINE S == {n \in 0..N : \A s \in SUBSET D : Cardinality(s) = n => f[s] = 0}
<1>2. N \in Nat /\ \A s \in SUBSET D : s # {} => Cardinality(s) # 0
  <2>1. \A s \in SUBSET D : s # {} => Cardinality(s) # 0
    BY Shrinks
  <2> QED BY <2>1, FS_CardinalityType
<1>3. 0 \in S
  <2>1. f[{}] = 0
    BY <1>1
  <2> QED BY <1>2, <2>1
<1>4. ASSUME NEW n \in 1..N, n - 1 \in S PROVE n \in S
  <2> SUFFICES ASSUME NEW s \in SUBSET D, Cardinality(s) = n PROVE f[s] = 0
    OBVIOUS
  <2>1. s # {}
    <3>1. Cardinality({}) = 0 /\ n # 0
      BY <1>2, FS_EmptySet
    <3> QED BY <3>1
  <2>2. Some(s) \in D /\ s \ {Some(s)} \in SUBSET D /\ Cardinality(s \ {Some(s)}) = n - 1
    BY <2>1, Shrinks
  <2>3. f[s \ {Some(s)}] = 0 /\ c[Some(s)] = 0
    BY <1>4, <2>2
  <2>4. f[s] = c[Some(s)] + f[s \ {Some(s)}]
    BY <1>1, <2>1
  <2> QED BY <2>3, <2>4
<1>5. f[D] = 0
  <2> HIDE DEF S, N
  <2>1. \A n \in 0..N : n \in S
    BY <1>2, <1>3, <1>4, Reaches
  <2>2. N \in S
    BY <1>2, <2>1
  <2> QED BY <2>2 DEF S, N
<1> QED BY <1>1, <1>5

-----------------------------------------------------------------------------
(***************************************************************************)
(* The invariant: a call that ended, or is to end, with no span is one of   *)
(* the spans lost, and an account that was charged has a turn of its own.   *)
(***************************************************************************)
Labels == Parties \cup {NoTenant}

\* The calls under way whose span the backend lost, the calls cut short, and
\* the accounts that a turn is for.
Unseen   == {t \in Turns : Calling(t) /\ blocks[t][Len(blocks[t])].span = NoOp}
CutShort == {t \in Turns : turn[t].pc = "cut"}
Served(x) == \E t \in Turns : turn[t].kind = "sync" /\ turn[t].caller = x

\* The calls that ended with no span are among the spans lost, and so are those
\* that are yet to end so.
Tally ==
  \E returned, raised \in Nat :
    /\ returned + raised + Cardinality(Unseen) <= lost
    /\ Same(SumOver(calls, Labels), ended[FALSE] + returned)
    /\ Same(errors + Cardinality(CutShort), ended[TRUE] + raised)

CountInv ==
  /\ calls \in [Labels -> Nat] /\ errors \in Nat
  /\ \A t \in Turns : /\ turn[t].kind = "sync" => turn[t].caller \in Labels
                      /\ Calling(t) => blocks[t][Len(blocks[t]) - 1].name # "llm"
  /\ Tally
  /\ \A x \in Parties : calls[x] > 0 => Served(x)

\* Tasks and tenants are finitely many.
LEMMA Finite ==
  /\ IsFiniteSet(Labels)
  /\ IsFiniteSet(Unseen) /\ Cardinality(Unseen) \in Nat
  /\ IsFiniteSet(CutShort) /\ Cardinality(CutShort) \in Nat
<1>1. IsFiniteSet(Turns) /\ IsFiniteSet(Tenants)
  BY AgentCallsAssumption
<1>2. IsFiniteSet(Labels)
  BY <1>1, FS_AddElement DEF Labels, Parties
<1>3. \A S \in SUBSET Turns : IsFiniteSet(S) /\ Cardinality(S) \in Nat
  BY <1>1, FS_Subset, FS_CardinalityType
<1>4. Unseen \in SUBSET Turns /\ CutShort \in SUBSET Turns
  BY DEF Unseen, CutShort
<1> QED BY <1>2, <1>3, <1>4

\* One more call of a tenant is one more call.
LEMMA SumTyped ==
  ASSUME NEW c \in [Labels -> Nat], NEW x \in Labels
  PROVE  LET d == [c EXCEPT ![x] = Bump(@)]
         IN  /\ d \in [Labels -> Nat] /\ SumOver(c, Labels) \in Nat /\ SumOver(d, Labels) \in Nat
             /\ Same(SumOver(d, Labels), SumOver(c, Labels) + 1)
<1> DEFINE v == Bump(c[x])
           d == [c EXCEPT ![x] = v]
           s == SumOver(c, Labels)
           r == SumOver(d, Labels)
<1>1. c[x] \in Nat /\ v \in Nat /\ Same(v, c[x] + 1)
  BY SameBump
<1>2. IsFiniteSet(Labels)
  BY Finite
<1> HIDE DEF v
<1>3. s \in Nat /\ r \in Nat /\ r + c[x] = s + v
  BY <1>1, <1>2, SumChanges
<1>4. d \in [Labels -> Nat]
  BY <1>1
<1> HIDE DEF s, r, d
<1>5. Same(v + s, (c[x] + 1) + s)
  <2>1. c[x] + 1 \in Nat
    BY <1>1
  <2> QED BY <1>1, <1>3, <2>1, SameShift
<1>6. v + s = r + c[x] /\ (c[x] + 1) + s = (s + 1) + c[x]
  BY <1>1, <1>3
<1>7. Same(r + c[x], (s + 1) + c[x])
  BY <1>5, <1>6
<1>8. Same(r, s + 1)
  <2>1. s + 1 \in Nat
    BY <1>3
  <2> QED BY <1>1, <1>3, <1>7, <2>1, SameShift
<1> QED BY <1>3, <1>4, <1>8 DEF v, d, s, r

\* Nothing is counted; the backend may have lost spans.
LEMMA TallyStays ==
  ASSUME SpanInv, SpanInv', CountInv, UNCHANGED <<calls, errors, ended>>,
         Cardinality(CutShort') = Cardinality(CutShort),
         Cardinality(Unseen') + lost <= Cardinality(Unseen) + lost'
  PROVE  Tally'
<1>1. PICK n \in Nat, k \in Nat :
        /\ n + k + Cardinality(Unseen) <= lost
        /\ Same(SumOver(calls, Labels), ended[FALSE] + n)
        /\ Same(errors + Cardinality(CutShort), ended[TRUE] + k)
  BY DEF CountInv, Tally
<1>2. Cardinality(Unseen) \in Nat /\ lost \in Nat /\ lost' \in Nat
  BY Finite DEF SpanInv
<1>3. Cardinality(Unseen') \in Nat
  <2>1. Unseen' \in SUBSET Turns
    BY DEF Unseen
  <2> QED BY <2>1, AgentCallsAssumption, FS_Subset, FS_CardinalityType
<1>4. n + k + Cardinality(Unseen') <= lost'
  BY <1>1, <1>2, <1>3
<1>5. /\ SumOver(calls', Labels) = SumOver(calls, Labels)
      /\ ended'[FALSE] = ended[FALSE] /\ ended'[TRUE] = ended[TRUE]
      /\ errors' + Cardinality(CutShort') = errors + Cardinality(CutShort)
  OBVIOUS
<1> QED BY <1>1, <1>4, <1>5 DEF Tally

\* A call is over, and one of the two counts goes up with the spans that ended,
\* unless its span was lost.
LEMMA TallyCounts ==
  ASSUME SpanInv, CountInv, NEW t \in Turns, NEW failed \in BOOLEAN, lost' = lost,
         Unseen' = Unseen \ {t},
         ended' = IF t \in Unseen THEN ended ELSE [ended EXCEPT ![failed] = Bump(@)],
         errors' + Cardinality(CutShort') \in Nat,
         IF failed
         THEN /\ SumOver(calls', Labels) = SumOver(calls, Labels)
              /\ Same(errors' + Cardinality(CutShort'), (errors + Cardinality(CutShort)) + 1)
         ELSE /\ errors' + Cardinality(CutShort') = errors + Cardinality(CutShort)
              /\ SumOver(calls', Labels) \in Nat
              /\ Same(SumOver(calls', Labels), SumOver(calls, Labels) + 1),
         SumOver(calls, Labels) \in Nat
  PROVE  Tally'
<1> DEFINE sum == SumOver(calls, Labels)
           new == SumOver(calls', Labels)
           bad == errors + Cardinality(CutShort)
           worse == errors' + Cardinality(CutShort')
           open == Cardinality(Unseen)
           e == ended[FALSE]
           f == ended[TRUE]
<1>1. PICK n \in Nat, k \in Nat : n + k + open <= lost /\ Same(sum, e + n) /\ Same(bad, f + k)
  BY DEF CountInv, Tally
<1>2. sum \in Nat /\ bad \in Nat /\ open \in Nat /\ lost \in Nat /\ e \in Nat /\ f \in Nat
  <2>1. open \in Nat /\ Cardinality(CutShort) \in Nat
    BY Finite
  <2>2. lost \in Nat /\ e \in Nat /\ f \in Nat
    BY DEF SpanInv
  <2>3. errors \in Nat
    BY DEF CountInv
  <2>4. bad \in Nat
    <3> DEFINE cut == Cardinality(CutShort)
    <3> HIDE DEF cut
    <3>1. cut \in Nat
      BY <2>1 DEF cut
    <3>2. errors + cut \in Nat
      BY <2>3, <3>1
    <3> QED BY <3>2 DEF cut
  <2> QED BY <2>1, <2>2, <2>4
<1>3. Cardinality(Unseen') = IF t \in Unseen THEN open - 1 ELSE open
  BY Finite, FS_RemoveElement
<1>4. worse \in Nat
  OBVIOUS
<1>5. SUFFICES \E a, b \in Nat : /\ a + b + Cardinality(Unseen') <= lost
                                 /\ Same(new, ended'[FALSE] + a) /\ Same(worse, ended'[TRUE] + b)
  BY DEF Tally
<1>6. CASE ~failed /\ t \in Unseen
  <2>1. new \in Nat /\ Same(new, sum + 1) /\ worse = bad /\ ended'[FALSE] = e /\ ended'[TRUE] = f
    BY <1>6
  <2> HIDE DEF sum, new, bad, worse, e, f, open
  <2>2. Same(new, e + (n + 1))
    BY <1>1, <1>2, <2>1, SameCount
  <2>3. n + 1 \in Nat /\ (n + 1) + k + Cardinality(Unseen') <= lost
    BY <1>1, <1>2, <1>3, <1>6
  <2> QED BY <1>1, <2>1, <2>2, <2>3
<1>7. CASE ~failed /\ t \notin Unseen
  <2>1. new \in Nat /\ Same(new, sum + 1) /\ worse = bad
    BY <1>7
  <2>2. ended'[FALSE] = Bump(e) /\ ended'[TRUE] = f
    BY <1>7 DEF SpanInv
  <2> HIDE DEF sum, new, bad, worse, e, f, open
  <2>3. Same(new, Bump(e) + n)
    BY <1>1, <1>2, <2>1, SameCount
  <2>4. n + k + Cardinality(Unseen') <= lost
    BY <1>1, <1>3, <1>7
  <2> QED BY <1>1, <2>1, <2>2, <2>3, <2>4
<1>8. CASE failed /\ t \in Unseen
  <2>1. new = sum /\ Same(worse, bad + 1) /\ ended'[FALSE] = e /\ ended'[TRUE] = f
    BY <1>8
  <2> HIDE DEF sum, new, bad, worse, e, f, open
  <2>2. Same(worse, f + (k + 1))
    BY <1>1, <1>2, <1>4, <2>1, SameCount
  <2>3. k + 1 \in Nat /\ n + (k + 1) + Cardinality(Unseen') <= lost
    BY <1>1, <1>2, <1>3, <1>8
  <2> QED BY <1>1, <2>1, <2>2, <2>3
<1>9. CASE failed /\ t \notin Unseen
  <2>1. new = sum /\ Same(worse, bad + 1)
    BY <1>9
  <2>2. ended'[FALSE] = e /\ ended'[TRUE] = Bump(f)
    BY <1>9 DEF SpanInv
  <2> HIDE DEF sum, new, bad, worse, e, f, open
  <2>3. Same(worse, Bump(f) + k)
    BY <1>1, <1>2, <1>4, <2>1, SameCount
  <2>4. n + k + Cardinality(Unseen') <= lost
    BY <1>1, <1>3, <1>9
  <2> QED BY <1>1, <2>1, <2>2, <2>3, <2>4
<1> QED BY <1>6, <1>7, <1>8, <1>9

\* What leaving a block and unwinding do to the counters of spans.
LEMMA LeftCounts ==
  ASSUME NEW v \in View, NEW failed \in BOOLEAN
  PROVE  /\ Left(v, failed).ended = Ended(v, failed) /\ Left(v, failed).lost = v.lost
         /\ Left(v, failed).blocks = SubSeq(v.blocks, 1, Len(v.blocks) - 1)
BY DEF Left, View

LEMMA UnwoundCounts ==
  ASSUME NEW v \in View
  PROVE  /\ Unwound(v).lost = v.lost
         /\ Unwound(v).ended = IF v.blocks = <<>> THEN v.ended ELSE Ended(v, TRUE)
BY DEF Unwound, View

\* A call whose span was not lost is counted among those ended.
LEMMA CallEnds ==
  ASSUME SpanInv, NEW t \in Turns, Calling(t), NEW failed \in BOOLEAN
  PROVE  Ended(Tracing(t), failed) = IF t \in Unseen THEN ended ELSE [ended EXCEPT ![failed] = Bump(@)]
<1>1. Tracing(t).blocks = blocks[t] /\ Tracing(t).ended = ended
  BY DEF Tracing
<1>2. blocks[t][Len(blocks[t])].name = "llm"
  BY TracingView DEF Fits, Calling
<1> QED BY <1>1, <1>2 DEF Ended, Unseen

\* No other block of the task is a model call's.
LEMMA OthersEndQuietly ==
  ASSUME SpanInv, NEW t \in Turns, ~Calling(t)
  PROVE  Unwound(Tracing(t)).ended = ended /\ Unwound(Tracing(t)).lost = lost
<1> DEFINE v == Tracing(t)
<1>1. v \in View /\ v.blocks = blocks[t] /\ Fits(blocks[t], turn[t])
  BY TracingView
<1>2. v.ended = ended /\ v.lost = lost
  BY DEF Tracing
<1>3. blocks[t] \in Seq(Block)
  BY DEF SpanInv
<1>4. blocks[t] = <<>> \/ (Len(blocks[t]) = 1 /\ blocks[t][1].name = "turn")
  BY <1>1, <1>3 DEF Fits, Depth, Calling
<1> HIDE DEF v
<1>5. v.blocks # <<>> => Ended(v, TRUE) = ended
  BY <1>1, <1>2, <1>4 DEF Ended
<1> QED BY <1>1, <1>2, <1>5, UnwoundCounts DEF v

\* A call returned: its span is the one that ended, whatever is left after it.
LEMMA ReturnEnds ==
  ASSUME SpanInv, CountInv, NEW t \in Turns, Calling(t)
  PROVE  LET w == Left(Left(Tracing(t), FALSE), FALSE)
         IN  /\ w.ended = IF t \in Unseen THEN ended ELSE [ended EXCEPT ![FALSE] = Bump(@)]
             /\ Unwound(w).ended = w.ended
             /\ w.lost = lost /\ Unwound(w).lost = lost
<1> DEFINE v == Tracing(t)
           m == Left(v, FALSE)
           w == Left(m, FALSE)
           n == Len(blocks[t])
<1>1. /\ v \in View /\ v.blocks = blocks[t] /\ v.lost = lost
      /\ Chained(v.current, v.blocks) /\ n = Depth(turn[t]) + 2
  BY TracingView DEF Fits, Calling, Tracing
<1>2. Depth(turn[t]) \in {0, 1}
  BY DEF Depth
<1>3. Ended(v, FALSE) = IF t \in Unseen THEN ended ELSE [ended EXCEPT ![FALSE] = Bump(@)]
  BY CallEnds
<1>4. /\ w \in View /\ Len(w.blocks) = Depth(turn[t])
      /\ \A i \in 1..Len(w.blocks) : w.blocks[i] = blocks[t][i]
  BY TwoLeft
<1>5. blocks[t] \in Seq(Block) /\ Fits(blocks[t], turn[t])
  BY DEF SpanInv
<1>6. blocks[t][n - 1].name # "llm"
  BY DEF CountInv
<1> HIDE DEF v
<1>7. /\ m \in View /\ m.ended = Ended(v, FALSE) /\ m.lost = lost
      /\ m.blocks = SubSeq(blocks[t], 1, n - 1)
  <2>1. v.blocks \in Seq(Block) /\ Len(v.blocks) > 0
    BY <1>1, <1>2, <1>5
  <2>2. m \in View
    BY <1>1, <2>1, LeftChains
  <2>3. /\ m.ended = Ended(v, FALSE) /\ m.lost = v.lost
        /\ m.blocks = SubSeq(v.blocks, 1, Len(v.blocks) - 1)
    BY <1>1, LeftCounts
  <2> HIDE DEF m
  <2> QED BY <1>1, <2>2, <2>3
<1> HIDE DEF m
<1>8. Len(m.blocks) = n - 1 /\ m.blocks[n - 1] = blocks[t][n - 1]
  <2> HIDE DEF n
  <2>1. n \in Nat /\ n - 1 >= 1 /\ n = Len(blocks[t])
    BY <1>1, <1>2, <1>5 DEF n
  <2>2. \A s \in Seq(Block) : Len(s) = n => /\ Len(SubSeq(s, 1, n - 1)) = n - 1
                                         /\ SubSeq(s, 1, n - 1)[n - 1] = s[n - 1]
    BY <2>1
  <2> QED BY <1>5, <1>7, <2>1, <2>2
<1>9. Ended(m, FALSE) = m.ended
  BY <1>6, <1>8 DEF Ended
<1>10. w.ended = m.ended /\ w.lost = lost
  BY <1>7, <1>9, LeftCounts
<1> HIDE DEF w
<1>11. w.blocks # <<>> => Ended(w, TRUE) = w.ended
  <2> SUFFICES ASSUME w.blocks # <<>> PROVE w.blocks[Len(w.blocks)].name # "llm"
    BY DEF Ended
  <2>1. w.blocks \in Seq(Block)
    BY <1>4 DEF View
  <2>2. Depth(turn[t]) = 1
    BY <1>2, <1>4, <2>1
  <2>3. w.blocks[1] = blocks[t][1] /\ blocks[t][1].name = "turn"
    BY <1>4, <1>5, <2>2 DEF Fits
  <2> QED BY <1>4, <2>2, <2>3
<1>12. Unwound(w).ended = w.ended /\ Unwound(w).lost = lost
  BY <1>4, <1>10, <1>11, UnwoundCounts
<1> QED BY <1>3, <1>7, <1>10, <1>12 DEF w, m, v

\* A step of t.
StepOf(t) ==
  \A u \in Turns \ {t} : turn'[u] = turn[u] /\ work'[u] = work[u] /\ blocks'[u] = blocks[u]

\* A synchronous turn stays one, for the same user.
Carries(t) ==
  turn[t].kind = "sync" =>
    turn'[t].kind = "sync" /\ turn'[t].caller = turn[t].caller

\* The calls under way and those cut short after a step of t.
LEMMA SetsMove ==
  ASSUME NEW t \in Turns, StepOf(t)
  PROVE  /\ turn'[t].pc # "calling" => Unseen' = Unseen \ {t}
         /\ turn'[t].pc # "cut" => CutShort' = CutShort \ {t}
         /\ turn'[t].pc = "cut" => CutShort' = CutShort \cup {t}
         /\ Unseen' \subseteq Unseen \cup {t}
         /\ blocks'[t][Len(blocks'[t])].span # NoOp => Unseen' = Unseen \ {t}
<1>1. \A u \in Turns \ {t} : (u \in Unseen' <=> u \in Unseen) /\ (u \in CutShort' <=> u \in CutShort)
  BY DEF StepOf, Unseen, CutShort, Calling
<1>2. /\ t \in Unseen' <=> turn'[t].pc = "calling" /\ blocks'[t][Len(blocks'[t])].span = NoOp
      /\ t \in CutShort' <=> turn'[t].pc = "cut"
  BY DEF Unseen, CutShort, Calling
<1>3. Unseen \subseteq Turns /\ Unseen' \subseteq Turns /\ CutShort \subseteq Turns /\ CutShort' \subseteq Turns
  BY DEF Unseen, CutShort
<1> QED BY <1>1, <1>2, <1>3

\* An account is charged for a turn that is for it, and that turn stays.
LEMMA AccountsHold ==
  ASSUME SpanInv, CountInv, NEW t \in Turns, StepOf(t), Carries(t),
         \/ calls' = calls
         \/ Billed(t) /\ Label(t) \in Labels
  PROVE  \A x \in Parties : calls'[x] > 0 => Served(x)'
<1> SUFFICES ASSUME NEW x \in Parties, calls'[x] > 0 PROVE Served(x)'
  OBVIOUS
<1>1. calls \in [Labels -> Nat] /\ x \in Labels /\ (calls[x] > 0 => Served(x))
  BY DEF CountInv, Labels
<1>2. Served(x) => Served(x)'
  BY DEF Served, StepOf, Carries
<1>3. CASE calls'[x] = calls[x]
  BY <1>1, <1>2, <1>3
<1>4. CASE calls'[x] # calls[x]
  <2>1. Label(t) = x
    BY <1>1, <1>4 DEF Billed
  <2>2. turn[t].kind = "sync" /\ turn[t].caller = x
    BY <2>1, Names DEF Label
  <2> QED BY <2>2, <1>2 DEF Served
<1> QED BY <1>3, <1>4

\* Turns keep the block around a call, and the tenant they are for.
LEMMA InsidesHold ==
  ASSUME CountInv, NEW t \in Turns, StepOf(t),
         turn'[t].kind = "sync" => turn'[t].caller \in Labels,
         turn'[t].pc = "calling" => blocks'[t][Len(blocks'[t]) - 1].name # "llm"
  PROVE  \A u \in Turns : /\ turn'[u].kind = "sync" => turn'[u].caller \in Labels
                          /\ Calling(u)' => blocks'[u][Len(blocks'[u]) - 1].name # "llm"
<1> SUFFICES ASSUME NEW u \in Turns
             PROVE  /\ turn'[u].kind = "sync" => turn'[u].caller \in Labels
                    /\ Calling(u)' => blocks'[u][Len(blocks'[u]) - 1].name # "llm"
  OBVIOUS
<1>1. CASE u = t
  BY <1>1 DEF Calling
<1>2. CASE u # t
  <2>1. turn'[u] = turn[u] /\ blocks'[u] = blocks[u]
    BY <1>2 DEF StepOf
  <2> QED BY <2>1 DEF CountInv, Calling
<1> QED BY <1>1, <1>2

\* A step outside any model call counts nothing.
LEMMA NothingCounted ==
  ASSUME SpanInv, SpanInv', CountInv, NEW t \in Turns, StepOf(t), Carries(t),
         UNCHANGED <<calls, errors, ended>>, lost <= lost',
         turn[t].pc \notin {"calling", "cut"}, turn'[t].pc \notin {"calling", "cut"},
         turn'[t].kind = "sync" => turn'[t].caller \in Labels
  PROVE  CountInv'
<1>1. Unseen' = Unseen /\ CutShort' = CutShort
  <2>1. t \notin Unseen /\ t \notin CutShort
    BY DEF Unseen, CutShort, Calling
  <2>2. Unseen' = Unseen \ {t} /\ CutShort' = CutShort \ {t}
    BY SetsMove
  <2> QED BY <2>1, <2>2
<1>2. Tally'
  <2>1. Cardinality(Unseen) \in Nat /\ lost \in Nat /\ lost' \in Nat
    BY Finite DEF SpanInv
  <2>2. Cardinality(Unseen') + lost <= Cardinality(Unseen) + lost'
    BY <1>1, <2>1
  <2> QED BY <1>1, <2>2, TallyStays
<1>3. \A x \in Parties : calls'[x] > 0 => Served(x)'
  BY AccountsHold
<1>4. \A u \in Turns : /\ turn'[u].kind = "sync" => turn'[u].caller \in Labels
                       /\ Calling(u)' => blocks'[u][Len(blocks'[u]) - 1].name # "llm"
  BY InsidesHold
<1>5. calls' \in [Labels -> Nat] /\ errors' \in Nat
  BY DEF CountInv
<1> QED BY <1>2, <1>3, <1>4, <1>5 DEF CountInv

\* Only the task's own blocks change.
LEMMA TraceMoves ==
  ASSUME SpanInv, NEW t \in Turns, NEW w, Trace(t, w)
  PROVE  /\ blocks'[t] = w.blocks /\ \A u \in Turns \ {t} : blocks'[u] = blocks[u]
         /\ ended' = w.ended /\ lost' = w.lost
BY DEF Trace, SpanInv

\* A turn goes to another place, for the same user.
LEMMA GotoMoves ==
  ASSUME SpanInv, NEW t \in Turns, NEW pc, Goto(t, pc)
  PROVE  /\ turn'[t].pc = pc /\ turn'[t].kind = turn[t].kind /\ turn'[t].caller = turn[t].caller
         /\ \A u \in Turns \ {t} : turn'[u] = turn[u]
BY DEF Goto, SpanInv, Turn

\* A turn is over, for the same user.
LEMMA EndMoves ==
  ASSUME SpanInv, NEW t \in Turns, NEW pc \in {"ended", "cut"}, End(t, pc)
  PROVE  /\ turn'[t].pc = pc /\ turn'[t].kind = turn[t].kind /\ turn'[t].caller = turn[t].caller
         /\ \A u \in Turns \ {t} : turn'[u] = turn[u] /\ work'[u] = work[u]
         /\ Carries(t)
<1>1. /\ turn'[t].pc = pc /\ turn'[t].kind = turn[t].kind /\ turn'[t].caller = turn[t].caller
      /\ \A u \in Turns \ {t} : turn'[u] = turn[u]
  BY GotoMoves DEF End
<1>2. \A u \in Turns \ {t} : work'[u] = work[u]
  BY DEF End, SpanInv
<1> QED BY <1>1, <1>2 DEF Carries

\* A span that opens ends none, and counts as lost if the backend failed.
LEMMA OpenedCounts ==
  ASSUME NEW t \in Turns, NEW v \in View, NEW name \in SpanNames, NEW kept \in BOOLEAN
  PROVE  LET w == Opened(t, v, name, kept)
         IN  /\ w.ended = v.ended /\ w.lost = (IF kept THEN v.lost ELSE v.lost + 1)
             /\ w.blocks[Len(w.blocks)].name = name
             /\ kept => w.blocks[Len(w.blocks)].span # NoOp
<1> DEFINE span == IF kept THEN <<t, name>> ELSE NoOp
           new == [name |-> name, span |-> span, token |-> v.current,
                   parent |-> IF v.current = NoOp THEN None ELSE v.current]
           w == Opened(t, v, name, kept)
<1>1. new \in Block /\ v.blocks \in Seq(Block)
  BY DEF Spans, Block, View
<1>2. new.name = name /\ new.span = span
  OBVIOUS
<1>3. kept => span # NoOp
  BY DEF NoOp
<1> HIDE DEF new, span
<1>4. w.ended = v.ended /\ w.lost = (IF kept THEN v.lost ELSE v.lost + 1) /\ w.blocks = Append(v.blocks, new)
  BY DEF Opened, View, new, span
<1> HIDE DEF w
<1>5. w.blocks[Len(w.blocks)] = new
  BY <1>1, <1>4
<1> QED BY <1>2, <1>3, <1>4, <1>5 DEF w

\* A call begins: only the backend can make it one that is not seen.
LEMMA CallCounts == ASSUME SpanInv, SpanInv', CountInv, NEW t \in Turns, Call(t) PROVE CountInv'
<1>1. PICK k \in BOOLEAN, l \in BOOLEAN :
        Trace(t, Opened(t, Opened(t, Tracing(t), work[t].agent, k), "llm", l))
  BY DEF Call
<1> DEFINE v == Tracing(t)
           m == Opened(t, v, work[t].agent, k)
           w == Opened(t, m, "llm", l)
<1>2. v \in View /\ v.ended = ended /\ v.lost = lost /\ Chained(v.current, v.blocks)
  BY TracingView DEF Tracing
<1>3. work[t].agent \in SpanNames /\ "llm" \in SpanNames /\ work[t].agent # "llm"
  BY DEF Call, SpanInv, Task, SpanNames, Agents
<1> HIDE DEF v
<1>4. m \in View /\ Chained(m.current, m.blocks)
  BY <1>2, <1>3, OpenedChains
<1>5. m.ended = ended /\ lost <= m.lost /\ m.lost \in Nat /\ m.blocks[Len(m.blocks)].name = work[t].agent
  <2>1. /\ m.ended = v.ended /\ m.lost = (IF k THEN v.lost ELSE v.lost + 1)
        /\ m.blocks[Len(m.blocks)].name = work[t].agent
    BY <1>2, <1>3, OpenedCounts
  <2>2. lost \in Nat
    BY DEF SpanInv
  <2> HIDE DEF m
  <2> QED BY <1>2, <2>1, <2>2
<1> HIDE DEF m
<1>6. /\ Len(w.blocks) = Len(m.blocks) + 1
      /\ \A i \in 1..Len(m.blocks) : w.blocks[i] = m.blocks[i]
  BY <1>3, <1>4, OpenedChains
<1>7. /\ w.ended = m.ended /\ w.lost = (IF l THEN m.lost ELSE m.lost + 1)
      /\ (l => w.blocks[Len(w.blocks)].span # NoOp)
  BY <1>3, <1>4, OpenedCounts
<1>8. Trace(t, w)
  BY <1>1 DEF w, m, v
<1> HIDE DEF w
<1>9. /\ blocks'[t] = w.blocks /\ \A u \in Turns \ {t} : blocks'[u] = blocks[u]
      /\ ended' = w.ended /\ lost' = w.lost
  BY <1>8, TraceMoves
<1>10. /\ turn[t].pc = "ready" /\ turn'[t].pc = "calling" /\ turn'[t].kind = turn[t].kind
       /\ turn'[t].caller = turn[t].caller /\ work' = work
       /\ \A u \in Turns \ {t} : turn'[u] = turn[u]
  BY GotoMoves DEF Call
<1>11. StepOf(t) /\ Carries(t) /\ UNCHANGED <<calls, errors>>
  BY <1>9, <1>10 DEF StepOf, Carries, Call, counters
<1>12. blocks'[t][Len(blocks'[t]) - 1].name # "llm"
  <2>1. m.blocks \in Seq(Block)
    BY <1>4 DEF View
  <2>2. Len(m.blocks) \in Nat /\ Len(m.blocks) # 0
    <3>1. Fits(w.blocks, turn'[t])
      BY <1>9 DEF SpanInv
    <3>2. Len(w.blocks) = Depth(turn'[t]) + 2 /\ Depth(turn'[t]) \in {0, 1}
      BY <1>10, <3>1 DEF Fits, Depth
    <3> QED BY <1>6, <2>1, <3>2
  <2>3. Len(w.blocks) - 1 = Len(m.blocks) /\ w.blocks[Len(m.blocks)] = m.blocks[Len(m.blocks)]
    BY <1>6, <2>2
  <2> QED BY <1>3, <1>5, <1>9, <2>3
<1>13. Cardinality(Unseen') + lost <= Cardinality(Unseen) + lost' /\ ended' = ended
  <2>1. /\ IsFiniteSet(Unseen) /\ Cardinality(Unseen) \in Nat /\ lost \in Nat /\ t \notin Unseen
        /\ IsFiniteSet(Unseen \cup {t}) /\ Cardinality(Unseen \cup {t}) = Cardinality(Unseen) + 1
    <3>1. t \notin Unseen
      BY <1>10 DEF Unseen, Calling
    <3> QED BY <3>1, Finite, FS_AddElement DEF SpanInv
  <2>2. CASE l
    <3>1. Unseen' = Unseen \ {t}
      BY <1>7, <1>9, <1>11, <2>2, SetsMove
    <3>2. Unseen' = Unseen
      BY <2>1, <3>1
    <3> QED BY <1>5, <1>7, <1>9, <2>1, <2>2, <3>2
  <2>3. CASE ~l
    <3>1. Unseen' \subseteq Unseen \cup {t}
      BY <1>11, SetsMove
    <3>2. Cardinality(Unseen') <= Cardinality(Unseen) + 1 /\ Cardinality(Unseen') \in Nat
      BY <2>1, <3>1, FS_Subset, FS_CardinalityType
    <3> QED BY <1>5, <1>7, <1>9, <2>1, <2>3, <3>2
  <2> QED BY <2>2, <2>3
<1>14. CutShort' = CutShort
  <2>1. t \notin CutShort /\ CutShort' = CutShort \ {t}
    BY <1>10, <1>11, SetsMove DEF CutShort
  <2> QED BY <2>1
<1>15. Tally'
  BY <1>11, <1>13, <1>14, TallyStays
<1>16. turn'[t].kind = "sync" => turn'[t].caller \in Labels
  BY <1>10 DEF CountInv
<1>17. \A u \in Turns : /\ turn'[u].kind = "sync" => turn'[u].caller \in Labels
                        /\ Calling(u)' => blocks'[u][Len(blocks'[u]) - 1].name # "llm"
  BY <1>11, <1>12, <1>16, InsidesHold
<1>18. \A x \in Parties : calls'[x] > 0 => Served(x)'
  BY <1>11, AccountsHold
<1>19. calls' \in [Labels -> Nat] /\ errors' \in Nat
  BY <1>11 DEF CountInv
<1> QED BY <1>15, <1>17, <1>18, <1>19 DEF CountInv

\* A call is over: it returned and is billed, or it raised and is an error, or
\* it was cut short.
LEMMA CallOver ==
  ASSUME SpanInv, CountInv, NEW t \in Turns, Calling(t), StepOf(t), Carries(t),
         turn'[t].pc # "calling", turn'[t].kind = turn[t].kind, turn'[t].caller = turn[t].caller,
         NEW failed \in BOOLEAN, lost' = lost,
         ended' = IF t \in Unseen THEN ended ELSE [ended EXCEPT ![failed] = Bump(@)],
         IF failed
         THEN calls' = calls /\ errors' = IF turn'[t].pc = "cut" THEN errors ELSE Bump(errors)
         ELSE Billed(t) /\ errors' = errors /\ turn'[t].pc # "cut"
  PROVE  CountInv'
<1> DEFINE sum == SumOver(calls, Labels)
           new == SumOver(calls', Labels)
           cut == Cardinality(CutShort)
           more == Cardinality(CutShort')
<1>1. Label(t) \in Labels /\ calls \in [Labels -> Nat] /\ errors \in Nat
  BY DEF CountInv, Label, Labels
<1>2. Unseen' = Unseen \ {t}
  BY SetsMove
<1>3. cut \in Nat /\ more = (IF turn'[t].pc = "cut" THEN cut + 1 ELSE cut)
  <2>1. t \notin CutShort /\ IsFiniteSet(CutShort) /\ cut \in Nat
    BY Finite DEF CutShort, Calling
  <2>2. turn'[t].pc # "cut" => CutShort' = CutShort
    <3>1. turn'[t].pc # "cut" => CutShort' = CutShort \ {t}
      BY SetsMove
    <3>2. CutShort \ {t} = CutShort
      BY <2>1
    <3> QED BY <3>1, <3>2
  <2>3. turn'[t].pc = "cut" => CutShort' = CutShort \cup {t}
    BY SetsMove
  <2>4. Cardinality(CutShort \cup {t}) = cut + 1
    BY <2>1, FS_AddElement
  <2> QED BY <2>1, <2>2, <2>3, <2>4
<1>4. Bump(errors) \in Nat /\ Same(Bump(errors), errors + 1)
  BY <1>1, SameBump
<1>5. sum \in Nat /\ (~failed => /\ calls' \in [Labels -> Nat] /\ new \in Nat /\ Same(new, sum + 1))
  <2> DEFINE d == [calls EXCEPT ![Label(t)] = Bump(@)]
  <2>1. /\ d \in [Labels -> Nat] /\ sum \in Nat /\ SumOver(d, Labels) \in Nat
        /\ Same(SumOver(d, Labels), sum + 1)
    BY <1>1, SumTyped
  <2>2. ~failed => calls' = d
    BY DEF Billed
  <2> HIDE DEF d
  <2> QED BY <2>1, <2>2
<1> HIDE DEF cut, more, sum, new
<1>6. errors' \in Nat /\ errors' + more \in Nat
  BY <1>1, <1>3, <1>4
<1>7. failed => Same(errors' + more, (errors + cut) + 1)
  <2>1. CASE failed /\ turn'[t].pc = "cut"
    <3>1. errors' + more = (errors + cut) + 1
      BY <1>1, <1>3, <2>1
    <3> QED BY <3>1 DEF Same
  <2>2. CASE failed /\ turn'[t].pc # "cut"
    <3>1. Same(Bump(errors) + cut, (errors + 1) + cut)
      <4>1. errors + 1 \in Nat
        BY <1>1
      <4> QED BY <1>3, <1>4, <4>1, SameShift
    <3>2. (errors + 1) + cut = (errors + cut) + 1
      BY <1>1, <1>3
    <3>3. errors' + more = Bump(errors) + cut
      BY <1>3, <2>2
    <3> QED BY <3>1, <3>2, <3>3
  <2> QED BY <2>1, <2>2
<1>8. failed => new = sum
  BY DEF new, sum
<1>9. ~failed => errors' + more = errors + cut
  BY <1>3
<1>10. Tally'
  BY <1>2, <1>5, <1>6, <1>7, <1>8, <1>9, TallyCounts DEF new, sum, cut, more
<1>11. \A x \in Parties : calls'[x] > 0 => Served(x)'
  BY <1>1, AccountsHold
<1>12. turn'[t].kind = "sync" => turn'[t].caller \in Labels
  BY DEF CountInv
<1>13. \A u \in Turns : /\ turn'[u].kind = "sync" => turn'[u].caller \in Labels
                        /\ Calling(u)' => blocks'[u][Len(blocks'[u]) - 1].name # "llm"
  BY <1>12, InsidesHold
<1>14. calls' \in [Labels -> Nat]
  BY <1>1, <1>5
<1> QED BY <1>6, <1>10, <1>11, <1>13, <1>14 DEF CountInv

\* The call returned: the turn goes on, or its agent cannot read the answer.
LEMMA AnswerCounts ==
  ASSUME SpanInv, CountInv, NEW t \in Turns, Planned(t) \/ Executed(t) \/ Verified(t)
  PROVE  CountInv'
<1>1. Answered(t)
  BY DEF Planned, Executed, Verified
<1> DEFINE w == Left(Left(Tracing(t), FALSE), FALSE)
<1>2. /\ w.ended = IF t \in Unseen THEN ended ELSE [ended EXCEPT ![FALSE] = Bump(@)]
      /\ w.lost = lost
  BY <1>1, ReturnEnds DEF Answered
<1>3. Trace(t, w)
  BY <1>1 DEF Answered
<1> HIDE DEF w
<1>4. /\ \A u \in Turns \ {t} : blocks'[u] = blocks[u]
      /\ ended' = w.ended /\ lost' = w.lost
  BY <1>3, TraceMoves
<1>5. /\ Calling(t) /\ turn'[t].pc = "ready" /\ turn'[t].kind = turn[t].kind
      /\ turn'[t].caller = turn[t].caller /\ \A u \in Turns \ {t} : turn'[u] = turn[u]
  BY <1>1, GotoMoves DEF Answered
<1>6. \A u \in Turns \ {t} : work'[u] = work[u]
  <2>1. work \in [Turns -> Task]
    BY DEF SpanInv
  <2>2. CASE Planned(t)
    BY <2>1, <2>2 DEF Planned
  <2>3. CASE Executed(t)
    BY <2>1, <2>3 DEF Executed
  <2>4. CASE Verified(t)
    BY <2>1, <2>4 DEF Verified
  <2> QED BY <2>2, <2>3, <2>4
<1>7. StepOf(t) /\ Carries(t)
  BY <1>4, <1>5, <1>6 DEF StepOf, Carries
<1>8. Billed(t) /\ errors' = errors
  BY <1>1 DEF Answered
<1>9. ended' = IF t \in Unseen THEN ended ELSE [ended EXCEPT ![FALSE] = Bump(@)]
  BY <1>2, <1>4
<1>10. turn'[t].pc # "calling" /\ turn'[t].pc # "cut" /\ lost' = lost
  BY <1>2, <1>4, <1>5
<1> QED BY <1>5, <1>6, <1>7, <1>8, <1>9, <1>10, CallOver

\* The call returned, and what is raised after it is no error of a call.
LEMMA UnparsedCounts == ASSUME SpanInv, CountInv, NEW t \in Turns, Unparsed(t) PROVE CountInv'
<1> DEFINE m == Left(Left(Tracing(t), FALSE), FALSE)
           w == Unwound(m)
<1>1. /\ w.ended = IF t \in Unseen THEN ended ELSE [ended EXCEPT ![FALSE] = Bump(@)]
      /\ w.lost = lost
  <2>1. /\ m.ended = IF t \in Unseen THEN ended ELSE [ended EXCEPT ![FALSE] = Bump(@)]
        /\ Unwound(m).ended = m.ended /\ Unwound(m).lost = lost
    BY ReturnEnds DEF Unparsed
  <2> HIDE DEF m
  <2> QED BY <2>1
<1>2. Trace(t, w)
  BY DEF Unparsed
<1> HIDE DEF w
<1>3. (\A u \in Turns \ {t} : blocks'[u] = blocks[u]) /\ ended' = w.ended /\ lost' = w.lost
  BY <1>2, TraceMoves
<1>4. Calling(t) /\ Billed(t) /\ errors' = errors /\ End(t, "ended")
  BY DEF Unparsed
<1>5. /\ turn'[t].pc = "ended" /\ turn'[t].kind = turn[t].kind /\ turn'[t].caller = turn[t].caller
      /\ \A u \in Turns \ {t} : turn'[u] = turn[u] /\ work'[u] = work[u]
      /\ Carries(t)
  BY <1>4, EndMoves
<1>6. StepOf(t)
  BY <1>3, <1>5 DEF StepOf
<1>7. ended' = IF t \in Unseen THEN ended ELSE [ended EXCEPT ![FALSE] = Bump(@)]
  BY <1>1, <1>3
<1>8. turn'[t].pc # "calling" /\ turn'[t].pc # "cut" /\ lost' = lost
  BY <1>1, <1>3, <1>5
<1> QED BY <1>4, <1>5, <1>6, <1>7, <1>8, CallOver

\* The call raised, or was cut short: the exception leaves every block.
LEMMA FailureCounts ==
  ASSUME SpanInv, CountInv, NEW t \in Turns, CallFails(t) \/ (Cancel(t) /\ Calling(t))
  PROVE  CountInv'
<1> DEFINE v == Tracing(t)
           w == Unwound(v)
<1>0. Calling(t)
  BY DEF CallFails
<1>1. /\ w.ended = IF t \in Unseen THEN ended ELSE [ended EXCEPT ![TRUE] = Bump(@)]
      /\ w.lost = lost
  <2>1. v \in View /\ v.blocks = blocks[t] /\ Fits(blocks[t], turn[t])
    BY TracingView
  <2>2. v.blocks # <<>>
    <3>1. Len(blocks[t]) >= 2
      BY <1>0, <2>1 DEF Fits, Depth, Calling
    <3> QED BY <2>1, <3>1
  <2>3. v.lost = lost
    BY DEF Tracing
  <2>4. Ended(v, TRUE) = IF t \in Unseen THEN ended ELSE [ended EXCEPT ![TRUE] = Bump(@)]
    BY <1>0, CallEnds
  <2> HIDE DEF v
  <2> QED BY <2>1, <2>2, <2>3, <2>4, UnwoundCounts
<1>2. Trace(t, w)
  BY DEF CallFails, Cancel, Unwind
<1> HIDE DEF w
<1>3. (\A u \in Turns \ {t} : blocks'[u] = blocks[u]) /\ ended' = w.ended /\ lost' = w.lost
  BY <1>2, TraceMoves
<1>4. PICK pc \in {"ended", "cut"} :
        End(t, pc) /\ calls' = calls /\ errors' = IF pc = "cut" THEN errors ELSE Bump(errors)
  BY DEF CallFails, Cancel, counters
<1>5. /\ turn'[t].pc = pc /\ turn'[t].kind = turn[t].kind /\ turn'[t].caller = turn[t].caller
      /\ \A u \in Turns \ {t} : turn'[u] = turn[u] /\ work'[u] = work[u]
      /\ Carries(t)
  BY <1>4, EndMoves
<1>6. StepOf(t)
  BY <1>3, <1>5 DEF StepOf
<1>7. ended' = IF t \in Unseen THEN ended ELSE [ended EXCEPT ![TRUE] = Bump(@)]
  BY <1>1, <1>3
<1>8. turn'[t].pc # "calling" /\ lost' = lost
  BY <1>1, <1>3, <1>5
<1>9. calls' = calls /\ errors' = IF turn'[t].pc = "cut" THEN errors ELSE Bump(errors)
  BY <1>4, <1>5
<1> QED BY <1>0, <1>5, <1>6, <1>7, <1>8, <1>9, CallOver

\* No call, no span, no error.
LEMMA InitCounts == Init => CountInv
<1> SUFFICES ASSUME Init PROVE CountInv
  OBVIOUS
<1>1. \A t \in Turns : turn[t].kind = "none" /\ turn[t].pc = "idle"
  BY DEF Init, Idle
<1>2. Unseen = {} /\ CutShort = {}
  BY <1>1 DEF Unseen, CutShort, Calling
<1>3. calls \in [Labels -> Nat] /\ errors = 0 /\ \A x \in Labels : calls[x] = 0
  BY DEF Init, Labels
<1>4. SumOver(calls, Labels) = 0
  BY <1>3, Finite, SumZero
<1>5. Tally
  <2>1. Cardinality(Unseen) = 0 /\ Cardinality(CutShort) = 0
    BY <1>2, FS_EmptySet
  <2>2. lost = 0 /\ ended[FALSE] = 0 /\ ended[TRUE] = 0
    BY DEF Init
  <2>3. 0 + 0 + Cardinality(Unseen) <= lost
    BY <2>1, <2>2
  <2>4. SumOver(calls, Labels) = ended[FALSE] + 0 /\ errors + Cardinality(CutShort) = ended[TRUE] + 0
    BY <1>3, <1>4, <2>1, <2>2
  <2> QED BY <2>3, <2>4 DEF Tally, Same
<1>6. \A x \in Parties : ~(calls[x] > 0)
  BY <1>3 DEF Labels
<1> QED BY <1>1, <1>3, <1>5, <1>6 DEF CountInv, Calling

\* Only the ends of model calls count, and every step keeps the invariant.
LEMMA CountStep == SpanInv /\ SpanInv' /\ CountInv /\ [Next]_vars => CountInv'
<1> SUFFICES ASSUME SpanInv, SpanInv', CountInv, [Next]_vars PROVE CountInv'
  OBVIOUS
<1>1. CASE UNCHANGED vars
  <2>1. Unseen' = Unseen /\ CutShort' = CutShort /\ \A x : Served(x)' <=> Served(x)
    BY <1>1 DEF vars, Unseen, CutShort, Calling, Served
  <2>2. /\ calls' = calls /\ errors' = errors /\ lost' = lost /\ ended' = ended
        /\ turn' = turn /\ blocks' = blocks
    BY <1>1 DEF vars
  <2>3. Tally'
    BY <2>1, <2>2 DEF CountInv, Tally
  <2> QED BY <2>1, <2>2, <2>3 DEF CountInv, Calling
<1>2. ASSUME NEW t \in Turns, Request(t) \/ Authenticate(t) \/ Create(t) \/ Prompt(t) PROVE CountInv'
  <2>1. /\ UNCHANGED <<calls, errors, ended>> /\ blocks' = blocks /\ work' = work /\ lost' = lost
        /\ turn[t].pc \in {"idle", "arrived", "routed"}
    BY <1>2 DEF Request, Authenticate, Create, Prompt, tracers, counters
  <2>2. turn[t].kind # "sync"
    BY <2>1, Early
  <2>3. /\ turn'[t].pc \notin {"calling", "cut"} /\ turn'[t].kind # "sync"
        /\ \A u \in Turns \ {t} : turn'[u] = turn[u]
    <3>1. CASE Request(t)
      BY <3>1 DEF Request, SpanInv
    <3>2. CASE Authenticate(t)
      BY <2>2, <3>2 DEF Authenticate, SpanInv, Turn
    <3>3. CASE Create(t) \/ Prompt(t)
      <4>1. Goto(t, "ended") \/ Goto(t, "ready")
        BY <3>3 DEF Create, Prompt
      <4> QED BY <2>2, <4>1, GotoMoves
    <3> QED BY <1>2, <3>1, <3>2, <3>3
  <2>4. StepOf(t) /\ Carries(t) /\ lost <= lost'
    BY <2>1, <2>2, <2>3 DEF StepOf, Carries, SpanInv
  <2> QED BY <2>1, <2>3, <2>4, NothingCounted
<1>3. ASSUME NEW t \in Turns, Resume(t) PROVE CountInv'
  <2>1. PICK n \in 0..MaxSteps, a \in Agents :
          /\ turn' = [turn EXCEPT ![t] = Begun("resume", NoTenant)]
          /\ work' = [work EXCEPT ![t] = [agent |-> a, steps |-> n, rounds |-> 0]]
    BY <1>3 DEF Resume
  <2>2. /\ UNCHANGED <<calls, errors, ended>> /\ blocks' = blocks /\ lost' = lost /\ turn[t].pc = "idle"
    BY <1>3 DEF Resume, tracers, counters
  <2>3. turn[t].kind # "sync"
    BY <2>2, Early
  <2>4. /\ turn'[t].pc = "ready" /\ turn'[t].kind = "resume"
        /\ \A u \in Turns \ {t} : turn'[u] = turn[u] /\ work'[u] = work[u]
    BY <2>1 DEF Begun, Idle, SpanInv
  <2>5. StepOf(t) /\ Carries(t) /\ lost <= lost'
    BY <2>2, <2>3, <2>4 DEF StepOf, Carries, SpanInv
  <2> QED BY <2>2, <2>4, <2>5, NothingCounted
<1>4. ASSUME NEW t \in Turns, BeginSpanned(t) PROVE CountInv'
  <2>1. PICK kept \in BOOLEAN : Trace(t, Opened(t, Tracing(t), "turn", kept))
    BY <1>4 DEF BeginSpanned
  <2>2. PICK kind \in {"sync", "eval"}, user \in Parties \cup {NoTenant} :
          turn' = [turn EXCEPT ![t] = Begun(kind, user)]
    BY <1>4 DEF BeginSpanned
  <2> DEFINE v == Tracing(t)
             w == Opened(t, v, "turn", kept)
  <2>3. v \in View /\ v.ended = ended /\ v.lost = lost /\ lost \in Nat /\ "turn" \in SpanNames
    BY TracingView DEF Tracing, SpanInv, SpanNames
  <2>4. Trace(t, w)
    BY <2>1
  <2> HIDE DEF v
  <2>5. w.ended = v.ended /\ w.lost = (IF kept THEN v.lost ELSE v.lost + 1)
    BY <2>3, OpenedCounts
  <2> HIDE DEF w
  <2>6. (\A u \in Turns \ {t} : blocks'[u] = blocks[u]) /\ ended' = w.ended /\ lost' = w.lost
    BY <2>4, TraceMoves
  <2>7. UNCHANGED <<calls, errors>> /\ work' = work /\ turn[t].pc = "idle"
    BY <1>4 DEF BeginSpanned, counters
  <2>8. turn[t].kind # "sync"
    BY <2>7, Early
  <2>9. /\ turn'[t].pc = "ready" /\ turn'[t].caller = user
        /\ \A u \in Turns \ {t} : turn'[u] = turn[u]
    BY <2>2 DEF Begun, Idle, SpanInv
  <2>10. StepOf(t) /\ Carries(t) /\ lost <= lost' /\ ended' = ended
    BY <2>3, <2>5, <2>6, <2>7, <2>8, <2>9 DEF StepOf, Carries
  <2> QED BY <2>7, <2>9, <2>10, NothingCounted DEF Labels
<1>5. ASSUME NEW t \in Turns, Finish(t) \/ Raise(t) \/ (Cancel(t) /\ ~Calling(t)) PROVE CountInv'
  <2>1. ~Calling(t) /\ turn[t].pc # "cut" /\ End(t, "ended") /\ UNCHANGED <<calls, errors>>
    BY <1>5 DEF Finish, Raise, Cancel, Calling, counters
  <2>2. /\ turn'[t].pc = "ended" /\ turn'[t].kind = turn[t].kind /\ turn'[t].caller = turn[t].caller
        /\ \A u \in Turns \ {t} : turn'[u] = turn[u] /\ work'[u] = work[u]
        /\ Carries(t)
    BY <2>1, EndMoves
  <2>3. (\A u \in Turns \ {t} : blocks'[u] = blocks[u]) /\ ended' = ended /\ lost' = lost
    <3>1. CASE Finish(t) /\ blocks[t] = <<>>
      BY <3>1 DEF Finish, tracers
    <3>2. CASE Finish(t) /\ blocks[t] # <<>>
      <4> DEFINE v == Tracing(t)
                 w == Left(v, FALSE)
      <4>1. Trace(t, w)
        BY <3>2 DEF Finish
      <4>2. /\ v \in View /\ v.blocks = blocks[t] /\ v.ended = ended /\ v.lost = lost
            /\ Fits(blocks[t], turn[t]) /\ blocks[t] \in Seq(Block)
        BY TracingView DEF Tracing, SpanInv
      <4>3. blocks[t][Len(blocks[t])].name # "llm"
        BY <2>1, <3>2, <4>2 DEF Fits, Depth, Calling
      <4> HIDE DEF v
      <4>4. Ended(v, FALSE) = ended
        BY <4>2, <4>3 DEF Ended
      <4>5. w.ended = ended /\ w.lost = lost
        BY <4>2, <4>4, LeftCounts
      <4> HIDE DEF w
      <4> QED BY <4>1, <4>5, TraceMoves
    <3>3. CASE Raise(t) \/ Cancel(t)
      <4> DEFINE w == Unwound(Tracing(t))
      <4>1. Trace(t, w)
        BY <3>3 DEF Raise, Cancel, Unwind
      <4>2. w.ended = ended /\ w.lost = lost
        BY <2>1, OthersEndQuietly
      <4> HIDE DEF w
      <4> QED BY <4>1, <4>2, TraceMoves
    <3> QED BY <1>5, <3>1, <3>2, <3>3
  <2>4. StepOf(t) /\ lost <= lost'
    BY <2>2, <2>3 DEF StepOf, SpanInv
  <2>5. turn'[t].kind = "sync" => turn'[t].caller \in Labels
    BY <2>2 DEF CountInv
  <2>6. turn[t].pc \notin {"calling", "cut"} /\ turn'[t].pc \notin {"calling", "cut"}
    BY <2>1, <2>2 DEF Calling
  <2> QED BY <2>1, <2>2, <2>3, <2>4, <2>5, <2>6, NothingCounted
<1>6. ASSUME NEW t \in Turns, SkipSemantic(t) PROVE CountInv'
  <2>1. /\ UNCHANGED <<calls, errors, ended>> /\ turn' = turn /\ blocks' = blocks /\ lost' = lost
        /\ turn[t].pc = "ready" /\ work' = [work EXCEPT ![t].agent = "nobody"]
    BY <1>6 DEF SkipSemantic, tracers, counters
  <2>2. work'[t].agent = "nobody" /\ \A u \in Turns \ {t} : work'[u] = work[u]
    BY <2>1 DEF SpanInv, Task
  <2>3. StepOf(t) /\ Carries(t) /\ lost <= lost'
    BY <2>1, <2>2 DEF StepOf, Carries, SpanInv
  <2>4. turn'[t].kind = "sync" => turn'[t].caller \in Labels
    BY <2>1 DEF CountInv
  <2> QED BY <2>1, <2>3, <2>4, NothingCounted
<1>7. ASSUME NEW t \in Turns,
             \/ Call(t) \/ Planned(t) \/ Executed(t) \/ Verified(t) \/ Unparsed(t)
             \/ CallFails(t) \/ (Cancel(t) /\ Calling(t))
      PROVE CountInv'
  BY <1>7, CallCounts, AnswerCounts, UnparsedCounts, FailureCounts
<1> QED BY <1>1, <1>2, <1>3, <1>4, <1>5, <1>6, <1>7 DEF Next, Proceeds

\* What the counters leave out is among the spans lost.
LEMMA InvImpliesAgree == SpanInv /\ CountInv => CountsAgree
<1> SUFFICES ASSUME SpanInv, CountInv PROVE CountsAgree
  OBVIOUS
<1>1. PICK n \in Nat, k \in Nat :
        /\ n + k + Cardinality(Unseen) <= lost
        /\ Same(SumOver(calls, Labels), ended[FALSE] + n)
        /\ Same(errors + Cardinality(CutShort), ended[TRUE] + k)
  BY DEF CountInv, Tally
<1>2. n \in 0..lost /\ k \in 0..lost
  <2>1. Cardinality(Unseen) \in Nat /\ lost \in Nat
    BY Finite DEF SpanInv
  <2> QED BY <1>1, <2>1
<1>3. MapThenSumSet(LAMBDA x : calls[x], DOMAIN calls) = SumOver(calls, Labels)
  <2>1. DOMAIN calls = Labels
    BY DEF CountInv
  <2> QED BY <2>1 DEF SumOver
<1>4. \A x \in Parties : calls[x] > 0 => \E t \in Turns : turn[t].caller = x
  BY DEF CountInv, Served
<1> QED BY <1>1, <1>2, <1>3, <1>4 DEF CountsAgree, Same, CutShort

\* However many tasks interleave, and however their calls end, what the counters
\* say of them is what the spans say, up to the spans the backend lost, and an
\* account is charged only where a turn for it is (metrics.py, _record_usage).
THEOREM CountsAgreeHolds == Spec => []CountsAgree
<1>1. Init => TenancyInv /\ SpanInv /\ CountInv
  BY InitTenancy, InitSpans, InitCounts
<1>2. TenancyInv /\ SpanInv /\ CountInv /\ [Next]_vars => TenancyInv' /\ SpanInv' /\ CountInv'
  BY TenancyStep, SpanStep, CountStep
<1>3. SpanInv /\ CountInv => CountsAgree
  BY InvImpliesAgree
<1> QED BY <1>1, <1>2, <1>3, PTL DEF Spec
=============================================================================
