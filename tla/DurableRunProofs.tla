-------------------------- MODULE DurableRunProofs --------------------------
(***************************************************************************)
(* Theorems about DurableRun for every number of tasks, requests, turns,   *)
(* steps, actions, executions and crashes.                                 *)
(***************************************************************************)
EXTENDS DurableRun, TLAPS

USE DurableRunAssumption DEF DurableRunAssumption

-----------------------------------------------------------------------------
(* Type correctness.  A step index stays in range because a task applies     *)
(* only steps of the plan it cached, a write belongs to an accepted turn     *)
(* because a task exists only for an accepted turn.                          *)

\* What a task's private copy of the row satisfies at each point of _run.
CopyOK ==
  \A t \in Tasks :
    /\ cache[t].turn <= turns
    /\ pc[t] \notin {"free", "load"} => cache[t].turn >= 1
    /\ pc[t] \in {"exec", "apply"} => cache[t].plan # NoPlan
    /\ pc[t] = "apply" => cache[t].idx < cache[t].plan /\ exec[t] >= 1

\* Turn numbers only come from accepted prompts.
TurnOK ==
  /\ row.turn <= turns
  /\ row.state # "NONE" => row.turn >= 1
  /\ \A t \in Tasks : pc[t] # "free" => row.turn >= 1
  /\ \A r \in Requests : rcache[r].turn <= turns

TypeInv == TypeOK /\ CopyOK /\ TurnOK

LEMMA FlushInRow ==
  ASSUME row \in Row, NEW before \in Row, NEW after \in Row
  PROVE  /\ Flush(before, after) \in Row
         /\ before.turn = after.turn => Flush(before, after).turn = row.turn
         /\ before.turn # after.turn => Flush(before, after).turn = after.turn
BY DEF Flush, Dirty, Row

LEMMA InitType == Init => TypeInv
<1> SUFFICES ASSUME Init PROVE TypeInv
  OBVIOUS
<1>1. row \in Row
  BY DEF Init, NoRow, Row
<1>2. cache \in [Tasks -> Row] /\ rcache \in [Requests -> Row]
  BY DEF Init, NoRow, Row
<1>3. pc \in [Tasks -> PCs]
  BY DEF Init, PCs
<1>4. todo \in [Tasks -> 0..MaxActions] /\ exec \in [Tasks -> 0..MaxExecs]
  BY DEF Init
<1>5. wb \in [Tasks -> SUBSET Write] /\ txn \in [Tasks -> SUBSET AuditRow]
  BY DEF Init
<1>6. rpc \in [Requests -> {"idle", "loaded"}]
  BY DEF Init
<1>7. torn \in BOOLEAN /\ up \in BOOLEAN /\ interrupted \in BOOLEAN /\ abandoned \in BOOLEAN
  BY DEF Init
<1>8. turns \in 0..MaxTurns /\ execs \in 0..MaxExecs /\ crashes \in 0..MaxCrashes
  BY DEF Init
<1>9. path \in {"current", "original"}
      /\ log \subseteq AuditRow /\ file \subseteq Write
  BY DEF Init
<1>10. TypeOK
  BY <1>1, <1>2, <1>3, <1>4, <1>5, <1>6, <1>7, <1>8, <1>9 DEF TypeOK
<1>11. CopyOK /\ TurnOK
  BY DEF Init, CopyOK, TurnOK, NoRow
<1> QED BY <1>10, <1>11 DEF TypeInv

LEMMA SaveType ==
  ASSUME TypeInv, NEW t \in Tasks, pc[t] # "free",
         NEW new \in Row, new.turn = cache[t].turn, Save(t, new)
  PROVE  /\ row' \in Row
         /\ cache' \in [Tasks -> Row]
         /\ row'.turn = row.turn
         /\ row.turn >= 1
         /\ cache' = [cache EXCEPT ![t] = new]
<1>1. row' = Flush(cache[t], new) /\ cache' = [cache EXCEPT ![t] = new]
  BY DEF Save
<1>2. row \in Row /\ cache \in [Tasks -> Row] /\ cache[t] \in Row
  BY DEF TypeInv, TypeOK
<1>3. row' \in Row /\ row'.turn = row.turn
  BY <1>1, <1>2, FlushInRow
<1>4. row.turn >= 1
  BY DEF TypeInv, TurnOK
<1> QED BY <1>1, <1>2, <1>3, <1>4

\* The columns checkpoint.save may be given keep a row a row.
LEMMA RowUpdates ==
  ASSUME NEW r \in Row
  PROVE  /\ \A s \in Running \cup Terminal : [r EXCEPT !.state = s] \in Row
         /\ \A n \in 0..MaxSteps :
              [state |-> "EXECUTING", turn |-> r.turn, plan |-> n, idx |-> 0] \in Row
         /\ r.plan # NoPlan /\ r.idx < r.plan => [r EXCEPT !.idx = @ + 1] \in Row
         /\ r.turn \in 0..MaxTurns /\ r.plan \in 0..MaxSteps \cup {NoPlan}
         /\ r.idx \in 0..MaxSteps
<1>1. \A s \in Running \cup Terminal : [r EXCEPT !.state = s] \in Row
  BY DEF Row
<1>2. \A n \in 0..MaxSteps :
        [state |-> "EXECUTING", turn |-> r.turn, plan |-> n, idx |-> 0] \in Row
  BY DEF Row, Running
<1>3. ASSUME r.plan # NoPlan, r.idx < r.plan
      PROVE  [r EXCEPT !.idx = @ + 1] \in Row
  BY <1>3 DEF Row
<1>4. /\ r.turn \in 0..MaxTurns /\ r.plan \in 0..MaxSteps \cup {NoPlan}
      /\ r.idx \in 0..MaxSteps
  BY DEF Row
<1> QED BY <1>1, <1>2, <1>3, <1>4

LEMMA StepType == TypeInv /\ [Next]_vars => TypeInv'
<1> SUFFICES ASSUME TypeInv, [Next]_vars PROVE TypeInv'
  OBVIOUS
<1> USE DEF vars, durable, locals, handlers, history, Goto
<1>1. ASSUME NEW r \in Requests, StartLoad(r) PROVE TypeInv'
  <2>1. TypeOK'
    BY <1>1 DEF StartLoad, TypeInv, TypeOK
  <2>2. CopyOK'
    BY <1>1 DEF StartLoad, TypeInv, TypeOK, CopyOK, TurnOK
  <2>3. TurnOK'
    BY <1>1 DEF StartLoad, TypeInv, TypeOK, CopyOK, TurnOK
  <2> QED BY <2>1, <2>2, <2>3 DEF TypeInv
<1>2. ASSUME NEW r \in Requests, NEW t \in Tasks, StartCommit(r, t) PROVE TypeInv'
  <2> DEFINE new == [state |-> "PLANNING", turn |-> turns + 1, plan |-> NoPlan, idx |-> 0]
  <2>1. new \in Row /\ rcache[r] \in Row /\ row \in Row
    BY <1>2 DEF StartCommit, TypeInv, TypeOK, Row, Running
  <2>2. new.turn = turns + 1 /\ rcache[r].turn # new.turn
    BY <2>1 DEF TypeInv, TypeOK, TurnOK, Row
  <2> HIDE DEF new
  <2>3. row' \in Row /\ row'.turn = turns + 1
    BY <1>2, <2>1, <2>2, FlushInRow DEF StartCommit, new
  <2>4. TypeOK'
    <3>1. turns' \in 0..MaxTurns
      BY <1>2 DEF StartCommit, TypeInv, TypeOK
    <3>2. pc' \in [Tasks -> PCs]
      BY <1>2 DEF StartCommit, Spawn, TypeInv, TypeOK, PCs
    <3>3. rpc' \in [Requests -> {"idle", "loaded"}]
      BY <1>2 DEF StartCommit, TypeInv, TypeOK
    <3>4. interrupted' \in BOOLEAN /\ abandoned' \in BOOLEAN
      BY <1>2 DEF StartCommit
    <3> QED BY <1>2, <2>3, <3>1, <3>2, <3>3, <3>4 DEF StartCommit, TypeInv, TypeOK
  <2>5. CopyOK'
    <3>1. \A u \in Tasks : cache[u].turn \in Nat
      BY DEF TypeInv, TypeOK, Row
    <3> QED BY <1>2, <2>3, <3>1 DEF StartCommit, Spawn, TypeInv, TypeOK, CopyOK, PCs
  <2>6. TurnOK'
    <3>1. \A q \in Requests : rcache[q].turn \in Nat
      BY DEF TypeInv, TypeOK, Row
    <3> QED BY <1>2, <2>3, <3>1 DEF StartCommit, Spawn, TypeInv, TypeOK, TurnOK
  <2> QED BY <2>4, <2>5, <2>6 DEF TypeInv
<1>3. ASSUME NEW r \in Requests, StartFails(r) PROVE TypeInv'
  <2>1. TypeOK'
    BY <1>3 DEF StartFails, TypeInv, TypeOK
  <2>2. CopyOK'
    BY <1>3 DEF StartFails, TypeInv, TypeOK, CopyOK, TurnOK
  <2>3. TurnOK'
    BY <1>3 DEF StartFails, TypeInv, TypeOK, CopyOK, TurnOK
  <2> QED BY <2>1, <2>2, <2>3 DEF TypeInv
<1>5. ASSUME NEW t \in Tasks, LoadRow(t) PROVE TypeInv'
  <2>1. TypeOK'
    BY <1>5 DEF LoadRow, TypeInv, TypeOK, PCs
  <2>2. CopyOK'
    BY <1>5 DEF LoadRow, TypeInv, TypeOK, CopyOK, TurnOK, PCs
  <2>3. TurnOK'
    BY <1>5 DEF LoadRow, TypeInv, TypeOK, CopyOK, TurnOK, PCs
  <2> QED BY <2>1, <2>2, <2>3 DEF TypeInv
<1>6. ASSUME NEW t \in Tasks, LoadBook(t) PROVE TypeInv'
  <2>1. TypeOK'
    BY <1>6 DEF LoadBook, TypeInv, TypeOK, PCs, PhaseOf, Book
  <2>2. CopyOK'
    BY <1>6 DEF LoadBook, TypeInv, TypeOK, CopyOK, TurnOK, PCs, PhaseOf, Book
  <2>3. TurnOK'
    BY <1>6 DEF LoadBook, TypeInv, TypeOK, CopyOK, TurnOK, PCs, PhaseOf, Book
  <2> QED BY <2>1, <2>2, <2>3 DEF TypeInv
<1>7. ASSUME NEW t \in Tasks, PlanDone(t) PROVE TypeInv'
  <2> PICK n \in 0..MaxSteps : Save(t, [state |-> "EXECUTING", turn |-> cache[t].turn, plan |-> n, idx |-> 0])
    BY <1>7 DEF PlanDone
  <2> DEFINE new == [state |-> "EXECUTING", turn |-> cache[t].turn, plan |-> n, idx |-> 0]
  <2>1. cache[t] \in Row /\ pc[t] # "free"
    BY <1>7 DEF PlanDone, TypeInv, TypeOK
  <2>2. new \in Row /\ new.turn = cache[t].turn /\ new.plan # NoPlan
    <3>1. new \in Row
      BY <1>7, <2>1, RowUpdates DEF PlanDone, TypeInv, CopyOK, Running, Terminal
    <3>2. new.turn = cache[t].turn /\ new.plan # NoPlan
      BY <1>7, <2>1 DEF PlanDone, TypeInv, CopyOK, Row
    <3> QED BY <3>1, <3>2
  <2> HIDE DEF new
  <2>3. /\ row' \in Row /\ cache' \in [Tasks -> Row]
        /\ row'.turn = row.turn /\ row.turn >= 1
        /\ cache' = [cache EXCEPT ![t] = new]
    BY <1>7, <2>1, <2>2, SaveType DEF PlanDone, new
  <2>4. TypeOK'
    BY <1>7, <2>3 DEF PlanDone, TypeInv, TypeOK, PCs
  <2>5. CopyOK'
    BY <1>7, <2>1, <2>2, <2>3 DEF PlanDone, TypeInv, TypeOK, CopyOK, TurnOK, PCs
  <2>6. TurnOK'
    BY <1>7, <2>3 DEF PlanDone, TypeInv, TypeOK, CopyOK, TurnOK
  <2> QED BY <2>4, <2>5, <2>6 DEF TypeInv
<1>8. ASSUME NEW t \in Tasks, ExecuteStep(t) PROVE TypeInv'
  <2>1. TypeOK'
    BY <1>8 DEF ExecuteStep, TypeInv, TypeOK, PCs
  <2>2. CopyOK'
    BY <1>8 DEF ExecuteStep, TypeInv, TypeOK, CopyOK, TurnOK, PCs
  <2>3. TurnOK'
    BY <1>8 DEF ExecuteStep, TypeInv, TypeOK, CopyOK, TurnOK, PCs
  <2> QED BY <2>1, <2>2, <2>3 DEF TypeInv
<1>9. ASSUME NEW t \in Tasks, ApplyAction(t) PROVE TypeInv'
  <2>1. PICK blocked \in BOOLEAN :
          /\ txn' = [txn EXCEPT ![t] = @ \cup
               {[write  |-> NextWrite(t),
                 status |-> IF blocked THEN "PENDING_APPROVAL" ELSE "APPLIED"]}]
          /\ wb' = [wb EXCEPT ![t] = IF blocked THEN @ ELSE @ \cup {NextWrite(t)}]
    BY <1>9 DEF ApplyAction
  <2>2. NextWrite(t) \in Write
    BY <1>9 DEF ApplyAction, TypeInv, TypeOK, CopyOK, NextWrite, Write, Row
  <2>3. [write  |-> NextWrite(t),
         status |-> IF blocked THEN "PENDING_APPROVAL" ELSE "APPLIED"] \in AuditRow
    BY <2>2 DEF AuditRow
  <2>4. txn' \in [Tasks -> SUBSET AuditRow]
    BY <2>1, <2>3 DEF TypeInv, TypeOK
  <2>5. wb' \in [Tasks -> SUBSET Write]
    BY <2>1, <2>2 DEF TypeInv, TypeOK
  <2>6. todo' \in [Tasks -> 0..MaxActions]
    BY <1>9 DEF ApplyAction, TypeInv, TypeOK
  <2>7. TypeOK'
    BY <1>9, <2>4, <2>5, <2>6 DEF ApplyAction, TypeInv, TypeOK
  <2>8. CopyOK' /\ TurnOK'
    BY <1>9 DEF ApplyAction, TypeInv, TypeOK, CopyOK, TurnOK
  <2> QED BY <2>7, <2>8 DEF TypeInv
<1>10. ASSUME NEW t \in Tasks, StepCommit(t) PROVE TypeInv'
  <2> DEFINE new == [cache[t] EXCEPT !.idx = @ + 1]
  <2>1. cache[t] \in Row /\ pc[t] # "free"
    BY <1>10 DEF StepCommit, TypeInv, TypeOK
  <2>2. new \in Row /\ new.turn = cache[t].turn /\ new.plan # NoPlan
    <3>1. new \in Row
      BY <1>10, <2>1, RowUpdates DEF StepCommit, TypeInv, CopyOK, Running, Terminal
    <3>2. new.turn = cache[t].turn /\ new.plan # NoPlan
      BY <1>10, <2>1 DEF StepCommit, TypeInv, CopyOK, Row
    <3> QED BY <3>1, <3>2
  <2> HIDE DEF new
  <2>3. /\ row' \in Row /\ cache' \in [Tasks -> Row]
        /\ row'.turn = row.turn /\ row.turn >= 1
        /\ cache' = [cache EXCEPT ![t] = new]
    BY <1>10, <2>1, <2>2, SaveType DEF StepCommit, new
  <2>4. TypeOK'
    BY <1>10, <2>3 DEF StepCommit, TypeInv, TypeOK, PCs
  <2>5. CopyOK'
    BY <1>10, <2>1, <2>2, <2>3 DEF StepCommit, TypeInv, TypeOK, CopyOK, TurnOK, PCs, Row
  <2>6. TurnOK'
    BY <1>10, <2>3 DEF StepCommit, TypeInv, TypeOK, CopyOK, TurnOK
  <2> QED BY <2>4, <2>5, <2>6 DEF TypeInv
<1>11. ASSUME NEW t \in Tasks, EnterVerifying(t) PROVE TypeInv'
  <2> DEFINE new == [cache[t] EXCEPT !.state = "VERIFYING"]
  <2>1. cache[t] \in Row /\ pc[t] # "free"
    BY <1>11 DEF EnterVerifying, TypeInv, TypeOK
  <2>2. new \in Row /\ new.turn = cache[t].turn
    <3>1. new \in Row
      BY <1>11, <2>1, RowUpdates DEF EnterVerifying, TypeInv, CopyOK, Running, Terminal
    <3>2. new.turn = cache[t].turn
      BY <1>11, <2>1 DEF EnterVerifying, TypeInv, CopyOK, Row
    <3> QED BY <3>1, <3>2
  <2> HIDE DEF new
  <2>3. /\ row' \in Row /\ cache' \in [Tasks -> Row]
        /\ row'.turn = row.turn /\ row.turn >= 1
        /\ cache' = [cache EXCEPT ![t] = new]
    BY <1>11, <2>1, <2>2, SaveType DEF EnterVerifying, new
  <2>4. TypeOK'
    BY <1>11, <2>3 DEF EnterVerifying, TypeInv, TypeOK, PCs
  <2>5. CopyOK'
    BY <1>11, <2>1, <2>2, <2>3 DEF EnterVerifying, TypeInv, TypeOK, CopyOK, TurnOK, PCs
  <2>6. TurnOK'
    BY <1>11, <2>3 DEF EnterVerifying, TypeInv, TypeOK, CopyOK, TurnOK
  <2> QED BY <2>4, <2>5, <2>6 DEF TypeInv
<1>12. ASSUME NEW t \in Tasks, BeginSave(t) PROVE TypeInv'
  <2>1. TypeOK'
    BY <1>12 DEF BeginSave, TypeInv, TypeOK, PCs
  <2>2. CopyOK'
    BY <1>12 DEF BeginSave, TypeInv, TypeOK, CopyOK, TurnOK, PCs
  <2>3. TurnOK'
    BY <1>12 DEF BeginSave, TypeInv, TypeOK, CopyOK, TurnOK, PCs
  <2> QED BY <2>1, <2>2, <2>3 DEF TypeInv
<1>13. ASSUME NEW t \in Tasks, EndSave(t) PROVE TypeInv'
  <2>1. TypeOK'
    BY <1>13 DEF EndSave, TypeInv, TypeOK, PCs
  <2>2. CopyOK'
    BY <1>13 DEF EndSave, TypeInv, TypeOK, CopyOK, TurnOK, PCs
  <2>3. TurnOK'
    BY <1>13 DEF EndSave, TypeInv, TypeOK, CopyOK, TurnOK, PCs
  <2> QED BY <2>1, <2>2, <2>3 DEF TypeInv
<1>14. ASSUME NEW t \in Tasks, Finish(t) PROVE TypeInv'
  <2> DEFINE new == [cache[t] EXCEPT !.state = "DONE"]
  <2>1. cache[t] \in Row /\ pc[t] # "free"
    BY <1>14 DEF Finish, TypeInv, TypeOK
  <2>2. new \in Row /\ new.turn = cache[t].turn
    <3>1. new \in Row
      BY <1>14, <2>1, RowUpdates DEF Finish, TypeInv, CopyOK, Running, Terminal
    <3>2. new.turn = cache[t].turn
      BY <1>14, <2>1 DEF Finish, TypeInv, CopyOK, Row
    <3> QED BY <3>1, <3>2
  <2> HIDE DEF new
  <2>3. /\ row' \in Row /\ cache' \in [Tasks -> Row]
        /\ row'.turn = row.turn /\ row.turn >= 1
        /\ cache' = [cache EXCEPT ![t] = new]
    BY <1>14, <2>1, <2>2, SaveType DEF Finish, new
  <2>4. TypeOK'
    BY <1>14, <2>3 DEF Finish, TypeInv, TypeOK, PCs
  <2>5. CopyOK'
    BY <1>14, <2>1, <2>2, <2>3 DEF Finish, TypeInv, TypeOK, CopyOK, TurnOK, PCs
  <2>6. TurnOK'
    BY <1>14, <2>3 DEF Finish, TypeInv, TypeOK, CopyOK, TurnOK
  <2> QED BY <2>4, <2>5, <2>6 DEF TypeInv
<1>15. ASSUME NEW t \in Tasks, Raise(t) PROVE TypeInv'
  <2>1. TypeOK'
    BY <1>15 DEF Raise, TypeInv, TypeOK, PCs
  <2>2. CopyOK'
    BY <1>15 DEF Raise, TypeInv, TypeOK, CopyOK, TurnOK, PCs
  <2>3. TurnOK'
    BY <1>15 DEF Raise, TypeInv, TypeOK, CopyOK, TurnOK, PCs
  <2> QED BY <2>1, <2>2, <2>3 DEF TypeInv
<1>16. ASSUME NEW t \in Tasks, DbRaise(t) PROVE TypeInv'
  <2>1. TypeOK'
    BY <1>16 DEF DbRaise, TypeInv, TypeOK, PCs
  <2>2. CopyOK'
    BY <1>16 DEF DbRaise, TypeInv, TypeOK, CopyOK, TurnOK, PCs
  <2>3. TurnOK'
    BY <1>16 DEF DbRaise, TypeInv, TypeOK, CopyOK, TurnOK, PCs
  <2> QED BY <2>1, <2>2, <2>3 DEF TypeInv
<1>17. ASSUME NEW t \in Tasks, MarkFailed(t) PROVE TypeInv'
  <2>0. CASE UNCHANGED <<row, cache, log>>
    BY <1>17, <2>0 DEF MarkFailed, TypeInv, TypeOK, CopyOK, TurnOK, PCs
  <2> SUFFICES ASSUME Save(t, [cache[t] EXCEPT !.state = "FAILED"]), log' = log \cup txn[t] PROVE TypeInv'
    BY <1>17, <2>0 DEF MarkFailed
  <2> DEFINE new == [cache[t] EXCEPT !.state = "FAILED"]
  <2>1. cache[t] \in Row /\ pc[t] # "free"
    BY <1>17 DEF MarkFailed, TypeInv, TypeOK
  <2>2. new \in Row /\ new.turn = cache[t].turn
    <3>1. new \in Row
      BY <1>17, <2>1, RowUpdates DEF MarkFailed, TypeInv, CopyOK, Running, Terminal
    <3>2. new.turn = cache[t].turn
      BY <1>17, <2>1 DEF MarkFailed, TypeInv, CopyOK, Row
    <3> QED BY <3>1, <3>2
  <2> HIDE DEF new
  <2>3. /\ row' \in Row /\ cache' \in [Tasks -> Row]
        /\ row'.turn = row.turn /\ row.turn >= 1
        /\ cache' = [cache EXCEPT ![t] = new]
    BY <1>17, <2>1, <2>2, SaveType DEF MarkFailed, new
  <2>4. TypeOK'
    BY <1>17, <2>3 DEF MarkFailed, TypeInv, TypeOK, PCs
  <2>5. CopyOK'
    BY <1>17, <2>1, <2>2, <2>3 DEF MarkFailed, TypeInv, TypeOK, CopyOK, TurnOK, PCs
  <2>6. TurnOK'
    BY <1>17, <2>3 DEF MarkFailed, TypeInv, TypeOK, CopyOK, TurnOK
  <2> QED BY <2>4, <2>5, <2>6 DEF TypeInv
<1>18. ASSUME NEW t \in Tasks, Exit(t) PROVE TypeInv'
  <2>1. TypeOK'
    BY <1>18 DEF Exit, TypeInv, TypeOK, PCs
  <2>2. CopyOK'
    BY <1>18 DEF Exit, TypeInv, TypeOK, CopyOK, TurnOK, PCs
  <2>3. TurnOK'
    BY <1>18 DEF Exit, TypeInv, TypeOK, CopyOK, TurnOK, PCs
  <2> QED BY <2>1, <2>2, <2>3 DEF TypeInv
<1>19. CASE Crash
  <2>1. NoRow \in Row /\ NoRow.turn = 0
    BY DEF NoRow, Row
  <2>2. TypeOK'
    <3>1. up' \in BOOLEAN /\ interrupted' \in BOOLEAN /\ abandoned' \in BOOLEAN
      BY <1>19, Zenon DEF Crash, TypeInv, TypeOK
    <3>2. pc' \in [Tasks -> PCs] /\ rpc' \in [Requests -> {"idle", "loaded"}]
      BY <1>19 DEF Crash, Idle, PCs
    <3>3. cache' \in [Tasks -> Row] /\ rcache' \in [Requests -> Row]
      BY <1>19, <2>1 DEF Crash, Idle
    <3>4. /\ wb' \in [Tasks -> SUBSET Write] /\ txn' \in [Tasks -> SUBSET AuditRow]
          /\ todo' \in [Tasks -> 0..MaxActions] /\ exec' \in [Tasks -> 0..MaxExecs]
      BY <1>19 DEF Crash, Idle, TypeInv, TypeOK
    <3>5. crashes' \in 0..MaxCrashes
      BY <1>19 DEF Crash, Idle, TypeInv, TypeOK
    <3> QED BY <1>19, <3>1, <3>2, <3>3, <3>4, <3>5 DEF Crash, TypeInv, TypeOK
  <2>3. CopyOK' /\ TurnOK'
    BY <1>19, <2>1 DEF Crash, Idle, TypeInv, TypeOK, CopyOK, TurnOK
  <2> QED BY <2>2, <2>3 DEF TypeInv
<1>20. CASE Restart
  <2>1. TypeOK'
    BY <1>20 DEF Restart, Spawn, TypeInv, TypeOK, PCs
  <2>2. CopyOK'
    BY <1>20 DEF Restart, Spawn, TypeInv, TypeOK, CopyOK
  <2>3. TurnOK'
    BY <1>20 DEF Restart, Spawn, TypeInv, TypeOK, TurnOK, Running
  <2> QED BY <2>1, <2>2, <2>3 DEF TypeInv
<1>21. CASE UNCHANGED vars
  BY <1>21 DEF TypeInv, TypeOK, CopyOK, TurnOK
<1> QED
  BY <1>1, <1>2, <1>3, <1>5, <1>6, <1>7, <1>8, <1>9, <1>10, <1>11, <1>12, <1>13, <1>14, <1>15, <1>16, <1>17, <1>18, <1>19, <1>20, <1>21 DEF Next, Start, TaskStep

\* Every state of the orchestrator has the types TypeOK gives: no index, turn
\* or execution number leaves its range in any interleaving, with concurrent
\* tasks and crashes too.
THEOREM TypeCorrect == Spec => []TypeOK
<1>1. Init => TypeInv
  BY InitType
<1>2. TypeInv /\ [Next]_vars => TypeInv'
  BY StepType
<1>3. TypeInv => TypeOK
  BY DEF TypeInv
<1> QED BY <1>1, <1>2, <1>3, PTL DEF Spec

LEMMA TypeInvariant == Spec => []TypeInv
BY InitType, StepType, PTL DEF Spec

-----------------------------------------------------------------------------
(* One worker at a time.  When requests cannot overlap, the row start() read *)
(* is still the row when it commits, and a task's copy of the row is the     *)
(* row.                                                                      *)

SerialStarts == \A r, q \in Requests : r = q

\* A task at work means a served, non-terminal turn, of which the task has a
\* current copy.
WorkerHoldsRow ==
  \A t \in Tasks : Working(t) =>
    /\ up
    /\ row.state \in Running
    /\ pc[t] # "load" => cache[t] = row

\* A request past start()'s guard means a turn that is over.
RequestHoldsRow ==
  \A r \in Requests : rpc[r] = "loaded" =>
    /\ up
    /\ rcache[r] = row
    /\ row.state \notin Running

DownMeansIdle ==
  ~up => /\ \A t \in Tasks : pc[t] = "free"
         /\ \A r \in Requests : rpc[r] = "idle"

\* Only a task inside a step, or one that raised there, has flushed audit rows.
OpenRows ==
  \A t \in Tasks : txn[t] # {} => pc[t] \in {"apply", "failing"}

WorkerInv == OneWorker /\ WorkerHoldsRow /\ RequestHoldsRow /\ DownMeansIdle /\ OpenRows

LEMMA FlushOwnRow ==
  ASSUME row \in Row, NEW after \in Row
  PROVE  Flush(row, after) = after
BY DEF Flush, Dirty, Row

LEMMA SaveOwnRow ==
  ASSUME TypeInv, WorkerInv, NEW t \in Tasks, Working(t), pc[t] # "load",
         NEW new, new \in Row, Save(t, new)
  PROVE  /\ row' = new
         /\ cache' = [cache EXCEPT ![t] = new]
         /\ cache'[t] = new
<1>1. cache[t] = row /\ row \in Row
  BY DEF WorkerInv, WorkerHoldsRow, TypeInv, TypeOK
<1>2. row' = new
  BY <1>1, FlushOwnRow DEF Save
<1> QED BY <1>2 DEF Save, TypeInv, TypeOK

\* While a task works nobody else does and no request is past its guard.
LEMMA Alone ==
  ASSUME WorkerInv, NEW t \in Tasks, Working(t)
  PROVE  /\ up /\ row.state \in Running
         /\ \A u \in Tasks : u # t => ~Working(u)
         /\ \A r \in Requests : rpc[r] # "loaded"
BY DEF WorkerInv, OneWorker, WorkerHoldsRow, RequestHoldsRow

LEMMA WorkerInit == Init => WorkerInv
BY DEF Init, WorkerInv, OneWorker, WorkerHoldsRow, RequestHoldsRow,
       DownMeansIdle, OpenRows, Working

LEMMA WorkerStep ==
  ASSUME SerialStarts
  PROVE  TypeInv /\ WorkerInv /\ [Next]_vars => WorkerInv'
<1> SUFFICES ASSUME TypeInv, WorkerInv, [Next]_vars PROVE WorkerInv'
  OBVIOUS
<1> USE DEF vars, durable, locals, handlers, history, Goto
<1>1. ASSUME NEW r \in Requests, StartLoad(r) PROVE WorkerInv'
  BY <1>1 DEF StartLoad, TypeInv, TypeOK, WorkerInv, OneWorker, WorkerHoldsRow, RequestHoldsRow, DownMeansIdle, OpenRows, Working
<1>2. ASSUME NEW r \in Requests, NEW t \in Tasks, StartCommit(r, t) PROVE WorkerInv'
  <2>1. up /\ rcache[r] = row /\ row \in Row /\ row.state \notin Running
    BY <1>2 DEF StartCommit, WorkerInv, RequestHoldsRow, TypeInv, TypeOK
  <2>2. \A u \in Tasks : ~Working(u)
    BY <2>1 DEF WorkerInv, WorkerHoldsRow
  <2>3. row'.state \in Running
    <3> DEFINE new == [state |-> "PLANNING", turn |-> turns + 1, plan |-> NoPlan, idx |-> 0]
    <3>1. row' = Flush(row, new)
      BY <1>2, <2>1 DEF StartCommit
    <3>2. new \in Row
      BY <1>2 DEF StartCommit, TypeInv, TypeOK, Row, Running
    <3>3. row' = new
      BY <2>1, <3>1, <3>2, FlushOwnRow
    <3> QED BY <3>3 DEF Running
  <2>4. \A q \in Requests : rpc'[q] # "loaded"
    BY <1>2 DEF StartCommit, SerialStarts, TypeInv, TypeOK
  <2>5. pc' = [pc EXCEPT ![t] = "load"] /\ up' /\ txn' = txn
    BY <1>2, <2>1 DEF StartCommit, Spawn
  <2>6. OneWorker' /\ WorkerHoldsRow'
    BY <2>2, <2>3, <2>5 DEF OneWorker, WorkerHoldsRow, Working, TypeInv, TypeOK
  <2>7. OpenRows'
    BY <1>2, <2>5 DEF StartCommit, Spawn, WorkerInv, OpenRows, TypeInv, TypeOK
  <2>8. RequestHoldsRow' /\ DownMeansIdle'
    BY <2>4, <2>5 DEF RequestHoldsRow, DownMeansIdle
  <2> QED BY <2>6, <2>7, <2>8 DEF WorkerInv
<1>3. ASSUME NEW r \in Requests, StartFails(r) PROVE WorkerInv'
  BY <1>3 DEF StartFails, TypeInv, TypeOK, WorkerInv, OneWorker, WorkerHoldsRow, RequestHoldsRow, DownMeansIdle, OpenRows, Working
<1>5. ASSUME NEW t \in Tasks, LoadRow(t) PROVE WorkerInv'
  <2>1. Working(t)
    BY <1>5 DEF LoadRow, Working
  <2> QED
    BY <1>5, <2>1, Alone DEF LoadRow, TypeInv, TypeOK, WorkerInv, OneWorker, WorkerHoldsRow, RequestHoldsRow, DownMeansIdle, OpenRows, Working
<1>6. ASSUME NEW t \in Tasks, LoadBook(t) PROVE WorkerInv'
  <2>1. Working(t)
    BY <1>6 DEF LoadBook, Working
  <2> QED
    BY <1>6, <2>1, Alone DEF LoadBook, TypeInv, TypeOK, WorkerInv, OneWorker, WorkerHoldsRow, RequestHoldsRow, DownMeansIdle, OpenRows, Working, PhaseOf, Running
<1>7. ASSUME NEW t \in Tasks, PlanDone(t) PROVE WorkerInv'
  <2> PICK n \in 0..MaxSteps : Save(t, [state |-> "EXECUTING", turn |-> cache[t].turn, plan |-> n, idx |-> 0])
    BY <1>7 DEF PlanDone
  <2>1. Working(t) /\ pc[t] # "load" /\ cache[t] \in Row /\ cache[t] = row
    BY <1>7 DEF PlanDone, Working, TypeInv, TypeOK, WorkerInv, WorkerHoldsRow
  <2> DEFINE new == [state |-> "EXECUTING", turn |-> cache[t].turn, plan |-> n, idx |-> 0]
  <2>2. new \in Row /\ new.state \in Running
    <3>1. new \in Row
      BY <1>7, <2>1, RowUpdates DEF PlanDone, TypeInv, CopyOK, Running, Terminal
    <3>2. new.state \in Running
      BY <1>7, <2>1, Alone DEF PlanDone, Running, Terminal, Row
    <3> QED BY <3>1, <3>2
  <2> HIDE DEF new
  <2>3. row' = new /\ cache' = [cache EXCEPT ![t] = new] /\ cache'[t] = new
    BY <1>7, <2>1, <2>2, SaveOwnRow DEF PlanDone, new
  <2> QED
    BY <1>7, <2>1, <2>2, <2>3, Alone DEF PlanDone, TypeInv, TypeOK, WorkerInv, OneWorker, WorkerHoldsRow, RequestHoldsRow, DownMeansIdle, OpenRows, Working
<1>8. ASSUME NEW t \in Tasks, ExecuteStep(t) PROVE WorkerInv'
  <2>1. Working(t)
    BY <1>8 DEF ExecuteStep, Working
  <2> QED
    BY <1>8, <2>1, Alone DEF ExecuteStep, TypeInv, TypeOK, WorkerInv, OneWorker, WorkerHoldsRow, RequestHoldsRow, DownMeansIdle, OpenRows, Working
<1>9. ASSUME NEW t \in Tasks, ApplyAction(t) PROVE WorkerInv'
  <2>1. Working(t)
    BY <1>9 DEF ApplyAction, Working
  <2> QED
    BY <1>9, <2>1, Alone DEF ApplyAction, TypeInv, TypeOK, WorkerInv, OneWorker, WorkerHoldsRow, RequestHoldsRow, DownMeansIdle, OpenRows, Working
<1>10. ASSUME NEW t \in Tasks, StepCommit(t) PROVE WorkerInv'
  <2>1. Working(t) /\ pc[t] # "load" /\ cache[t] \in Row /\ cache[t] = row
    BY <1>10 DEF StepCommit, Working, TypeInv, TypeOK, WorkerInv, WorkerHoldsRow
  <2> DEFINE new == [cache[t] EXCEPT !.idx = @ + 1]
  <2>2. new \in Row /\ new.state \in Running
    <3>1. new \in Row
      BY <1>10, <2>1, RowUpdates DEF StepCommit, TypeInv, CopyOK, Running, Terminal
    <3>2. new.state \in Running
      BY <1>10, <2>1, Alone DEF StepCommit, Running, Terminal, Row
    <3> QED BY <3>1, <3>2
  <2> HIDE DEF new
  <2>3. row' = new /\ cache' = [cache EXCEPT ![t] = new] /\ cache'[t] = new
    BY <1>10, <2>1, <2>2, SaveOwnRow DEF StepCommit, new
  <2> QED
    BY <1>10, <2>1, <2>2, <2>3, Alone DEF StepCommit, TypeInv, TypeOK, WorkerInv, OneWorker, WorkerHoldsRow, RequestHoldsRow, DownMeansIdle, OpenRows, Working
<1>11. ASSUME NEW t \in Tasks, EnterVerifying(t) PROVE WorkerInv'
  <2>1. Working(t) /\ pc[t] # "load" /\ cache[t] \in Row /\ cache[t] = row
    BY <1>11 DEF EnterVerifying, Working, TypeInv, TypeOK, WorkerInv, WorkerHoldsRow
  <2> DEFINE new == [cache[t] EXCEPT !.state = "VERIFYING"]
  <2>2. new \in Row /\ new.state \in Running
    <3>1. new \in Row
      BY <1>11, <2>1, RowUpdates DEF EnterVerifying, TypeInv, CopyOK, Running, Terminal
    <3>2. new.state \in Running
      BY <1>11, <2>1, Alone DEF EnterVerifying, Running, Terminal, Row
    <3> QED BY <3>1, <3>2
  <2> HIDE DEF new
  <2>3. row' = new /\ cache' = [cache EXCEPT ![t] = new] /\ cache'[t] = new
    BY <1>11, <2>1, <2>2, SaveOwnRow DEF EnterVerifying, new
  <2> QED
    BY <1>11, <2>1, <2>2, <2>3, Alone DEF EnterVerifying, TypeInv, TypeOK, WorkerInv, OneWorker, WorkerHoldsRow, RequestHoldsRow, DownMeansIdle, OpenRows, Working
<1>12. ASSUME NEW t \in Tasks, BeginSave(t) PROVE WorkerInv'
  <2>1. Working(t)
    BY <1>12 DEF BeginSave, Working
  <2> QED
    BY <1>12, <2>1, Alone DEF BeginSave, TypeInv, TypeOK, WorkerInv, OneWorker, WorkerHoldsRow, RequestHoldsRow, DownMeansIdle, OpenRows, Working
<1>13. ASSUME NEW t \in Tasks, EndSave(t) PROVE WorkerInv'
  <2>1. Working(t)
    BY <1>13 DEF EndSave, Working
  <2> QED
    BY <1>13, <2>1, Alone DEF EndSave, TypeInv, TypeOK, WorkerInv, OneWorker, WorkerHoldsRow, RequestHoldsRow, DownMeansIdle, OpenRows, Working
<1>14. ASSUME NEW t \in Tasks, Finish(t) PROVE WorkerInv'
  <2>1. Working(t) /\ pc[t] # "load" /\ cache[t] \in Row /\ cache[t] = row
    BY <1>14 DEF Finish, Working, TypeInv, TypeOK, WorkerInv, WorkerHoldsRow
  <2> DEFINE new == [cache[t] EXCEPT !.state = "DONE"]
  <2>2. new \in Row /\ new.state \in Terminal
    <3>1. new \in Row
      BY <1>14, <2>1, RowUpdates DEF Finish, TypeInv, CopyOK, Running, Terminal
    <3>2. new.state \in Terminal
      BY <1>14, <2>1, Alone DEF Finish, Running, Terminal, Row
    <3> QED BY <3>1, <3>2
  <2> HIDE DEF new
  <2>3. row' = new /\ cache' = [cache EXCEPT ![t] = new] /\ cache'[t] = new
    BY <1>14, <2>1, <2>2, SaveOwnRow DEF Finish, new
  <2> QED
    BY <1>14, <2>1, <2>2, <2>3, Alone DEF Finish, TypeInv, TypeOK, WorkerInv, OneWorker, WorkerHoldsRow, RequestHoldsRow, DownMeansIdle, OpenRows, Working
<1>15. ASSUME NEW t \in Tasks, Raise(t) PROVE WorkerInv'
  <2>1. Working(t)
    BY <1>15 DEF Raise, Working
  <2> QED
    BY <1>15, <2>1, Alone DEF Raise, TypeInv, TypeOK, WorkerInv, OneWorker, WorkerHoldsRow, RequestHoldsRow, DownMeansIdle, OpenRows, Working
<1>16. ASSUME NEW t \in Tasks, DbRaise(t) PROVE WorkerInv'
  <2>1. Working(t)
    BY <1>16 DEF DbRaise, Working
  <2> QED
    BY <1>16, <2>1, Alone DEF DbRaise, TypeInv, TypeOK, WorkerInv, OneWorker, WorkerHoldsRow, RequestHoldsRow, DownMeansIdle, OpenRows, Working
<1>17. ASSUME NEW t \in Tasks, MarkFailed(t) PROVE WorkerInv'
  <2>1. Working(t) /\ pc[t] # "load" /\ cache[t] \in Row /\ cache[t] = row
    BY <1>17 DEF MarkFailed, Working, TypeInv, TypeOK, WorkerInv, WorkerHoldsRow
  <2>0. CASE UNCHANGED <<row, cache, log>>
    BY <1>17, <2>0, <2>1, Alone DEF MarkFailed, TypeInv, TypeOK, WorkerInv, OneWorker, WorkerHoldsRow, RequestHoldsRow, DownMeansIdle, OpenRows, Working
  <2> SUFFICES ASSUME Save(t, [cache[t] EXCEPT !.state = "FAILED"]) PROVE WorkerInv'
    BY <1>17, <2>0 DEF MarkFailed
  <2> DEFINE new == [cache[t] EXCEPT !.state = "FAILED"]
  <2>2. new \in Row /\ new.state \in Terminal
    <3>1. new \in Row
      BY <1>17, <2>1, RowUpdates DEF MarkFailed, TypeInv, CopyOK, Running, Terminal
    <3>2. new.state \in Terminal
      BY <1>17, <2>1, Alone DEF MarkFailed, Running, Terminal, Row
    <3> QED BY <3>1, <3>2
  <2> HIDE DEF new
  <2>3. row' = new /\ cache' = [cache EXCEPT ![t] = new] /\ cache'[t] = new
    BY <1>17, <2>1, <2>2, SaveOwnRow DEF MarkFailed, new
  <2> QED
    BY <1>17, <2>1, <2>2, <2>3, Alone DEF MarkFailed, TypeInv, TypeOK, WorkerInv, OneWorker, WorkerHoldsRow, RequestHoldsRow, DownMeansIdle, OpenRows, Working
<1>18. ASSUME NEW t \in Tasks, Exit(t) PROVE WorkerInv'
  BY <1>18 DEF Exit, TypeInv, TypeOK, WorkerInv, OneWorker, WorkerHoldsRow, RequestHoldsRow, DownMeansIdle, OpenRows, Working
<1>19. CASE Crash
  BY <1>19 DEF Crash, Idle, WorkerInv, OneWorker, WorkerHoldsRow, RequestHoldsRow, DownMeansIdle, OpenRows, Working
<1>20. CASE Restart
  <2>1. \A t \in Tasks : pc[t] = "free" /\ txn[t] = {}
    BY <1>20 DEF Restart, WorkerInv, DownMeansIdle, OpenRows
  <2> QED BY <1>20, <2>1 DEF Restart, Spawn, TypeInv, TypeOK, WorkerInv, OneWorker, WorkerHoldsRow, RequestHoldsRow, DownMeansIdle, OpenRows, Working
<1>21. CASE UNCHANGED vars
  BY <1>21 DEF WorkerInv, OneWorker, WorkerHoldsRow, RequestHoldsRow, DownMeansIdle, OpenRows, Working
<1> QED
  BY <1>1, <1>2, <1>3, <1>5, <1>6, <1>7, <1>8, <1>9, <1>10, <1>11, <1>12, <1>13, <1>14, <1>15, <1>16, <1>17, <1>18, <1>19, <1>20, <1>21 DEF Next, Start, TaskStep

LEMMA WorkerInvariant == ASSUME SerialStarts PROVE Spec => []WorkerInv
BY WorkerInit, WorkerStep, TypeInvariant, PTL DEF Spec

-----------------------------------------------------------------------------
(* What the row and the audit log say, and the abstract turn they implement.  *)

\* The columns of the row agree with each other and with the history.
RowShape ==
  /\ row.turn = turns
  /\ row.state = "NONE" => row = NoRow
  /\ row.state = "PLANNING" => row.plan = NoPlan /\ row.idx = 0
  /\ row.state = "EXECUTING" => row.plan # NoPlan /\ row.idx <= row.plan
  /\ row.state \in {"VERIFYING", "DONE"} => row.plan # NoPlan /\ row.idx = row.plan

\* A task is where the row says the turn is.
TaskShape ==
  \A t \in Tasks :
    /\ pc[t] = "plan" => row.state = "PLANNING"
    /\ pc[t] \in {"exec", "apply"} => row.state = "EXECUTING"
    /\ pc[t] \in {"verify", "saving", "finish"} => row.state = "VERIFYING"

\* The rows a task has flushed are those of its execution of the current step.
TxnShape ==
  \A t \in Tasks : \A a \in txn[t] :
    /\ row.state = "EXECUTING" /\ row.idx < row.plan
    /\ a.write.turn = row.turn /\ a.write.step = row.idx
    /\ a.write.exec = exec[t]

\* Committed rows belong to steps the index has passed, or to the step a
\* failed turn stopped in.
LogShape ==
  \A a \in log :
    \/ a.write.turn < row.turn
    \/ /\ a.write.turn = row.turn
       /\ a.write.step < row.idx \/ (row.state = "FAILED" /\ a.write.step = row.idx)

PhaseInv == RowShape /\ TaskShape /\ TxnShape /\ LogShape /\ StepRecordedOnce

\* What the actions that write the row do to it, without the indirection of a
\* flushed copy.
LEMMA StartCommitEffect ==
  ASSUME TypeInv, WorkerInv, NEW r \in Requests, NEW t \in Tasks, StartCommit(r, t)
  PROVE  /\ row.state \notin Running /\ turns < MaxTurns /\ turns' = turns + 1
         /\ row' = [state |-> "PLANNING", turn |-> turns + 1, plan |-> NoPlan, idx |-> 0]
         /\ pc' = [pc EXCEPT ![t] = "load"]
         /\ \A u \in Tasks : ~Working(u)
<1> DEFINE new == [state |-> "PLANNING", turn |-> turns + 1, plan |-> NoPlan, idx |-> 0]
<1>1. rcache[r] = row /\ row \in Row /\ row.state \notin Running
  BY DEF StartCommit, WorkerInv, RequestHoldsRow, TypeInv, TypeOK
<1>2. new \in Row
  BY DEF StartCommit, TypeInv, TypeOK, Row, Running
<1>3. row' = Flush(row, new)
  BY <1>1 DEF StartCommit
<1>4. row' = new
  BY <1>1, <1>2, <1>3, FlushOwnRow
<1>5. \A u \in Tasks : ~Working(u)
  BY <1>1 DEF WorkerInv, WorkerHoldsRow
<1> QED BY <1>1, <1>4, <1>5 DEF StartCommit, Spawn, Goto

LEMMA PlanDoneEffect ==
  ASSUME TypeInv, WorkerInv, NEW t \in Tasks, PlanDone(t)
  PROVE  /\ Working(t) /\ row'.state = "EXECUTING" /\ row'.turn = row.turn
         /\ row'.plan \in 0..MaxSteps /\ row'.idx = 0
<1>1. Working(t) /\ pc[t] # "load" /\ cache[t] = row /\ row \in Row
  BY DEF PlanDone, Working, WorkerInv, WorkerHoldsRow, TypeInv, TypeOK
<1>2. PICK n \in 0..MaxSteps :
        Save(t, [state |-> "EXECUTING", turn |-> cache[t].turn, plan |-> n, idx |-> 0])
  BY DEF PlanDone
<1>3. [state |-> "EXECUTING", turn |-> cache[t].turn, plan |-> n, idx |-> 0] \in Row
  BY <1>1, RowUpdates
<1>4. row' = [state |-> "EXECUTING", turn |-> cache[t].turn, plan |-> n, idx |-> 0]
  BY <1>1, <1>2, <1>3, SaveOwnRow
<1> QED BY <1>1, <1>4

LEMMA StepCommitEffect ==
  ASSUME TypeInv, WorkerInv, NEW t \in Tasks, StepCommit(t)
  PROVE  /\ Working(t) /\ row'.state = row.state /\ row'.turn = row.turn
         /\ row'.plan = row.plan /\ row'.idx = row.idx + 1
<1>1. Working(t) /\ pc[t] # "load" /\ cache[t] = row /\ row \in Row
  BY DEF StepCommit, Working, WorkerInv, WorkerHoldsRow, TypeInv, TypeOK
<1>2. [cache[t] EXCEPT !.idx = @ + 1] \in Row
  BY <1>1, RowUpdates DEF StepCommit, TypeInv, CopyOK
<1>3. row' = [row EXCEPT !.idx = @ + 1]
  BY <1>1, <1>2, SaveOwnRow DEF StepCommit
<1> QED BY <1>1, <1>3 DEF Row

LEMMA EnterVerifyingEffect ==
  ASSUME TypeInv, WorkerInv, NEW t \in Tasks, EnterVerifying(t)
  PROVE  /\ Working(t) /\ row'.state = "VERIFYING" /\ row'.turn = row.turn
         /\ row'.plan = row.plan /\ row'.idx = row.idx
<1>1. Working(t) /\ pc[t] # "load" /\ cache[t] = row /\ row \in Row
  BY DEF EnterVerifying, Working, WorkerInv, WorkerHoldsRow, TypeInv, TypeOK
<1>2. [cache[t] EXCEPT !.state = "VERIFYING"] \in Row
  BY <1>1, RowUpdates DEF Running, Terminal
<1>3. row' = [row EXCEPT !.state = "VERIFYING"]
  BY <1>1, <1>2, SaveOwnRow DEF EnterVerifying
<1> QED BY <1>1, <1>3 DEF Row

LEMMA FinishEffect ==
  ASSUME TypeInv, WorkerInv, NEW t \in Tasks, Finish(t)
  PROVE  /\ Working(t) /\ row'.state = "DONE" /\ row'.turn = row.turn
         /\ row'.plan = row.plan /\ row'.idx = row.idx
<1>1. Working(t) /\ pc[t] # "load" /\ cache[t] = row /\ row \in Row
  BY DEF Finish, Working, WorkerInv, WorkerHoldsRow, TypeInv, TypeOK
<1>2. [cache[t] EXCEPT !.state = "DONE"] \in Row
  BY <1>1, RowUpdates DEF Running, Terminal
<1>3. row' = [row EXCEPT !.state = "DONE"]
  BY <1>1, <1>2, SaveOwnRow DEF Finish
<1> QED BY <1>1, <1>3 DEF Row

LEMMA MarkFailedEffect ==
  ASSUME TypeInv, WorkerInv, NEW t \in Tasks, MarkFailed(t)
  PROVE  /\ Working(t)
         /\ \/ /\ row'.state = "FAILED" /\ row'.turn = row.turn
               /\ row'.plan = row.plan /\ row'.idx = row.idx
               /\ log' = log \cup txn[t]
            \/ row' = row /\ log' = log
<1>1. Working(t) /\ pc[t] # "load" /\ cache[t] = row /\ row \in Row
  BY DEF MarkFailed, Working, WorkerInv, WorkerHoldsRow, TypeInv, TypeOK
<1>2. CASE UNCHANGED <<row, cache, log>>
  BY <1>1, <1>2
<1>3. CASE Save(t, [cache[t] EXCEPT !.state = "FAILED"]) /\ log' = log \cup txn[t]
  <2>1. [cache[t] EXCEPT !.state = "FAILED"] \in Row
    BY <1>1, RowUpdates DEF Running, Terminal
  <2>2. row' = [row EXCEPT !.state = "FAILED"]
    BY <1>1, <1>3, <2>1, SaveOwnRow
  <2> QED BY <1>1, <1>3, <2>2 DEF Row
<1> QED BY <1>2, <1>3 DEF MarkFailed

\* The numbers the shapes compare.
LEMMA Types ==
  ASSUME TypeInv
  PROVE  /\ row.turn \in Nat /\ row.idx \in Nat /\ row.plan \in Nat \cup {NoPlan}
         /\ turns \in Nat /\ NoPlan \notin Nat
         /\ \A a \in AuditRow : a.write.turn \in Nat /\ a.write.step \in Nat
         /\ log \subseteq AuditRow
         /\ \A t \in Tasks : txn[t] \subseteq AuditRow
BY DEF TypeInv, TypeOK, Row, AuditRow, Write

LEMMA PhaseInit == Init => PhaseInv
BY DEF Init, PhaseInv, RowShape, TaskShape, TxnShape, LogShape, StepRecordedOnce, NoRow

LEMMA PhaseStep ==
  ASSUME SerialStarts
  PROVE  TypeInv /\ WorkerInv /\ PhaseInv /\ [Next]_vars => PhaseInv'
<1> SUFFICES ASSUME TypeInv, WorkerInv, PhaseInv, [Next]_vars PROVE PhaseInv'
  OBVIOUS
<1> USE DEF vars, durable, locals, handlers, history, Goto
<1>1. ASSUME NEW r \in Requests, StartLoad(r) PROVE PhaseInv'
  <2>1. RowShape' /\ LogShape' /\ StepRecordedOnce'
    BY <1>1 DEF StartLoad, PhaseInv, RowShape, LogShape, StepRecordedOnce
  <2>2. TaskShape' /\ TxnShape'
    BY <1>1 DEF StartLoad, TypeInv, TypeOK, WorkerInv, WorkerHoldsRow, OpenRows, Working, PhaseInv, RowShape, TaskShape, TxnShape
  <2> QED BY <2>1, <2>2 DEF PhaseInv
<1>2. ASSUME NEW r \in Requests, NEW t \in Tasks, StartCommit(r, t) PROVE PhaseInv'
  <2>1. RowShape'
    BY <1>2, StartCommitEffect DEF RowShape
  <2>2. \A u \in Tasks : txn'[u] = {}
    BY <1>2, StartCommitEffect DEF StartCommit, TypeInv, TypeOK, WorkerInv, WorkerHoldsRow, OpenRows, Working
  <2>3. TaskShape' /\ TxnShape'
    BY <1>2, <2>2, StartCommitEffect DEF TypeInv, TypeOK, WorkerInv, WorkerHoldsRow, OpenRows, Working, TaskShape, TxnShape
  <2>4. LogShape'
    <3>0. row'.turn = turns + 1 /\ row.turn = turns
      BY <1>2, StartCommitEffect DEF PhaseInv, RowShape
    <3>1. row'.turn = row.turn + 1 /\ log' = log
      BY <1>2, <3>0 DEF StartCommit
    <3>2. \A a \in log : a.write.turn <= row.turn /\ a.write.turn \in Nat
      BY Types DEF PhaseInv, LogShape
    <3>3. \A a \in log' : a.write.turn < row'.turn
      BY <3>1, <3>2, Types
    <3> QED BY <3>3 DEF LogShape
  <2>5. StepRecordedOnce'
    BY <1>2 DEF StartCommit, PhaseInv, StepRecordedOnce
  <2> QED BY <2>1, <2>3, <2>4, <2>5 DEF PhaseInv
<1>3. ASSUME NEW r \in Requests, StartFails(r) PROVE PhaseInv'
  <2>1. RowShape' /\ LogShape' /\ StepRecordedOnce'
    BY <1>3 DEF StartFails, PhaseInv, RowShape, LogShape, StepRecordedOnce
  <2>2. TaskShape' /\ TxnShape'
    BY <1>3 DEF StartFails, TypeInv, TypeOK, WorkerInv, WorkerHoldsRow, OpenRows, Working, PhaseInv, RowShape, TaskShape, TxnShape
  <2> QED BY <2>1, <2>2 DEF PhaseInv
<1>5. ASSUME NEW t \in Tasks, LoadRow(t) PROVE PhaseInv'
  <2>1. RowShape' /\ LogShape' /\ StepRecordedOnce'
    BY <1>5 DEF LoadRow, PhaseInv, RowShape, LogShape, StepRecordedOnce
  <2>2. TaskShape' /\ TxnShape'
    BY <1>5 DEF LoadRow, TypeInv, TypeOK, WorkerInv, WorkerHoldsRow, OpenRows, Working, PhaseInv, RowShape, TaskShape, TxnShape
  <2> QED BY <2>1, <2>2 DEF PhaseInv
<1>6. ASSUME NEW t \in Tasks, LoadBook(t) PROVE PhaseInv'
  <2>1. RowShape' /\ LogShape' /\ StepRecordedOnce'
    BY <1>6 DEF LoadBook, PhaseInv, RowShape, LogShape, StepRecordedOnce
  <2>2. TaskShape' /\ TxnShape'
    BY <1>6 DEF LoadBook, TypeInv, TypeOK, WorkerInv, WorkerHoldsRow, OpenRows, Working, PhaseInv, RowShape, TaskShape, TxnShape, PhaseOf, Running
  <2> QED BY <2>1, <2>2 DEF PhaseInv
<1>7. ASSUME NEW t \in Tasks, PlanDone(t) PROVE PhaseInv'
  <2>1. RowShape'
    <3>1. turns' = turns /\ row.state = "PLANNING"
      BY <1>7 DEF PlanDone, Working, TypeInv, CopyOK, WorkerInv, WorkerHoldsRow, PhaseInv, TaskShape
    <3> QED BY <1>7, <3>1, PlanDoneEffect, Types DEF PhaseInv, RowShape
  <2>2. TaskShape' /\ TxnShape'
    <3>1. \A u \in Tasks : u # t => pc'[u] \in {"free", "closing"} /\ txn'[u] = {}
      BY <1>7, PlanDoneEffect, Alone DEF PlanDone, TypeInv, TypeOK, WorkerInv, WorkerHoldsRow, OpenRows, Working
    <3>2. txn'[t] = {}
      BY <1>7 DEF PlanDone, TypeInv, TypeOK, WorkerInv, OpenRows
    <3>3. pc'[t] = "exec" /\ row'.state = "EXECUTING"
      BY <1>7, PlanDoneEffect DEF PlanDone, TypeInv, TypeOK, PhaseInv, TaskShape
    <3>4. TxnShape'
      BY <3>1, <3>2 DEF TxnShape
    <3> QED BY <3>1, <3>3, <3>4 DEF TaskShape
  <2>3. LogShape'
    <3>1. log' \in {log, log \cup txn[t]}
      BY <1>7 DEF PlanDone
    <3>2. \A b \in txn[t] : b.write.turn = row.turn /\ b.write.step = row.idx
      BY DEF PhaseInv, TxnShape
    <3>3. /\ row'.turn = row.turn /\ row'.idx \in {row.idx, row.idx + 1}
          /\ row.state # "FAILED"
          /\ log' = log \/ row'.state = "FAILED" \/ row'.idx = row.idx + 1
      BY <1>7, PlanDoneEffect, Alone DEF PlanDone, PhaseInv, RowShape, TaskShape, Running
    <3> QED BY <3>1, <3>2, <3>3, Types DEF PhaseInv, LogShape
  <2>4. StepRecordedOnce'
    <3>1. log' \in {log, log \cup txn[t]}
      BY <1>7 DEF PlanDone
    <3>2. \A a \in log, b \in txn[t] : ~(a.write.turn = b.write.turn /\ a.write.step = b.write.step)
      BY Types DEF PhaseInv, LogShape, TxnShape
    <3>3. \A a, b \in txn[t] : a.write.exec = b.write.exec
      BY DEF PhaseInv, TxnShape
    <3> QED BY <3>1, <3>2, <3>3 DEF PhaseInv, StepRecordedOnce
  <2> QED BY <2>1, <2>2, <2>3, <2>4 DEF PhaseInv
<1>8. ASSUME NEW t \in Tasks, ExecuteStep(t) PROVE PhaseInv'
  <2>1. RowShape' /\ LogShape' /\ StepRecordedOnce'
    BY <1>8 DEF ExecuteStep, PhaseInv, RowShape, LogShape, StepRecordedOnce
  <2>2. TaskShape' /\ TxnShape'
    BY <1>8 DEF ExecuteStep, TypeInv, TypeOK, WorkerInv, WorkerHoldsRow, OpenRows, Working, PhaseInv, RowShape, TaskShape, TxnShape
  <2> QED BY <2>1, <2>2 DEF PhaseInv
<1>9. ASSUME NEW t \in Tasks, ApplyAction(t) PROVE PhaseInv'
  <2>1. RowShape' /\ LogShape' /\ StepRecordedOnce'
    BY <1>9 DEF ApplyAction, PhaseInv, RowShape, LogShape, StepRecordedOnce
  <2>2. TaskShape'
    BY <1>9 DEF ApplyAction, PhaseInv, TaskShape
  <2>3. cache[t] = row /\ row.idx < row.plan /\ row.state = "EXECUTING"
    BY <1>9 DEF ApplyAction, TypeInv, TypeOK, WorkerInv, WorkerHoldsRow, OpenRows, Working, CopyOK, PhaseInv, TaskShape
  <2> PICK blocked \in BOOLEAN :
        txn' = [txn EXCEPT ![t] = @ \cup
          {[write  |-> NextWrite(t),
            status |-> IF blocked THEN "PENDING_APPROVAL" ELSE "APPLIED"]}]
    BY <1>9 DEF ApplyAction
  <2> DEFINE w == [write  |-> NextWrite(t),
                   status |-> IF blocked THEN "PENDING_APPROVAL" ELSE "APPLIED"]
  <2>4. txn' = [txn EXCEPT ![t] = @ \cup {w}] /\ w.write = NextWrite(t)
    OBVIOUS
  <2> HIDE DEF w
  <2>5. w.write.turn = row.turn /\ w.write.step = row.idx /\ w.write.exec = exec[t]
    BY <2>3, <2>4 DEF NextWrite
  <2>6. TxnShape'
    BY <1>9, <2>3, <2>4, <2>5 DEF ApplyAction, TypeInv, TypeOK, PhaseInv, TxnShape
  <2> QED BY <2>1, <2>2, <2>6 DEF PhaseInv
<1>10. ASSUME NEW t \in Tasks, StepCommit(t) PROVE PhaseInv'
  <2>1. RowShape'
    <3>1. turns' = turns /\ row.state = "EXECUTING" /\ row.idx < row.plan /\ row.plan # NoPlan
      BY <1>10 DEF StepCommit, Working, TypeInv, CopyOK, WorkerInv, WorkerHoldsRow, PhaseInv, TaskShape
    <3> QED BY <1>10, <3>1, StepCommitEffect, Types DEF PhaseInv, RowShape
  <2>2. TaskShape' /\ TxnShape'
    <3>1. \A u \in Tasks : u # t => pc'[u] \in {"free", "closing"} /\ txn'[u] = {}
      BY <1>10, StepCommitEffect, Alone DEF StepCommit, TypeInv, TypeOK, WorkerInv, WorkerHoldsRow, OpenRows, Working
    <3>2. txn'[t] = {}
      BY <1>10 DEF StepCommit, TypeInv, TypeOK, WorkerInv, OpenRows
    <3>3. pc'[t] = "exec" /\ row'.state = "EXECUTING"
      BY <1>10, StepCommitEffect DEF StepCommit, TypeInv, TypeOK, PhaseInv, TaskShape
    <3>4. TxnShape'
      BY <3>1, <3>2 DEF TxnShape
    <3> QED BY <3>1, <3>3, <3>4 DEF TaskShape
  <2>3. LogShape'
    <3>1. log' \in {log, log \cup txn[t]}
      BY <1>10 DEF StepCommit
    <3>2. \A b \in txn[t] : b.write.turn = row.turn /\ b.write.step = row.idx
      BY DEF PhaseInv, TxnShape
    <3>3. /\ row'.turn = row.turn /\ row'.idx \in {row.idx, row.idx + 1}
          /\ row.state # "FAILED"
          /\ log' = log \/ row'.state = "FAILED" \/ row'.idx = row.idx + 1
      BY <1>10, StepCommitEffect, Alone DEF StepCommit, PhaseInv, RowShape, TaskShape, Running
    <3> QED BY <3>1, <3>2, <3>3, Types DEF PhaseInv, LogShape
  <2>4. StepRecordedOnce'
    <3>1. log' \in {log, log \cup txn[t]}
      BY <1>10 DEF StepCommit
    <3>2. \A a \in log, b \in txn[t] : ~(a.write.turn = b.write.turn /\ a.write.step = b.write.step)
      BY Types DEF PhaseInv, LogShape, TxnShape
    <3>3. \A a, b \in txn[t] : a.write.exec = b.write.exec
      BY DEF PhaseInv, TxnShape
    <3> QED BY <3>1, <3>2, <3>3 DEF PhaseInv, StepRecordedOnce
  <2> QED BY <2>1, <2>2, <2>3, <2>4 DEF PhaseInv
<1>11. ASSUME NEW t \in Tasks, EnterVerifying(t) PROVE PhaseInv'
  <2>1. RowShape'
    <3>1. turns' = turns /\ row.state = "EXECUTING" /\ row.idx >= row.plan
      BY <1>11 DEF EnterVerifying, Working, TypeInv, CopyOK, WorkerInv, WorkerHoldsRow, PhaseInv, TaskShape
    <3> QED BY <1>11, <3>1, EnterVerifyingEffect, Types DEF PhaseInv, RowShape
  <2>2. TaskShape' /\ TxnShape'
    <3>1. \A u \in Tasks : u # t => pc'[u] \in {"free", "closing"} /\ txn'[u] = {}
      BY <1>11, EnterVerifyingEffect, Alone DEF EnterVerifying, TypeInv, TypeOK, WorkerInv, WorkerHoldsRow, OpenRows, Working
    <3>2. txn'[t] = {}
      BY <1>11 DEF EnterVerifying, TypeInv, TypeOK, WorkerInv, OpenRows
    <3>3. pc'[t] = "verify" /\ row'.state = "VERIFYING"
      BY <1>11, EnterVerifyingEffect DEF EnterVerifying, TypeInv, TypeOK, PhaseInv, TaskShape
    <3>4. TxnShape'
      BY <3>1, <3>2 DEF TxnShape
    <3> QED BY <3>1, <3>3, <3>4 DEF TaskShape
  <2>3. LogShape'
    <3>1. log' \in {log, log \cup txn[t]}
      BY <1>11 DEF EnterVerifying
    <3>2. \A b \in txn[t] : b.write.turn = row.turn /\ b.write.step = row.idx
      BY DEF PhaseInv, TxnShape
    <3>3. /\ row'.turn = row.turn /\ row'.idx \in {row.idx, row.idx + 1}
          /\ row.state # "FAILED"
          /\ log' = log \/ row'.state = "FAILED" \/ row'.idx = row.idx + 1
      BY <1>11, EnterVerifyingEffect, Alone DEF EnterVerifying, PhaseInv, RowShape, TaskShape, Running
    <3> QED BY <3>1, <3>2, <3>3, Types DEF PhaseInv, LogShape
  <2>4. StepRecordedOnce'
    <3>1. log' \in {log, log \cup txn[t]}
      BY <1>11 DEF EnterVerifying
    <3>2. \A a \in log, b \in txn[t] : ~(a.write.turn = b.write.turn /\ a.write.step = b.write.step)
      BY Types DEF PhaseInv, LogShape, TxnShape
    <3>3. \A a, b \in txn[t] : a.write.exec = b.write.exec
      BY DEF PhaseInv, TxnShape
    <3> QED BY <3>1, <3>2, <3>3 DEF PhaseInv, StepRecordedOnce
  <2> QED BY <2>1, <2>2, <2>3, <2>4 DEF PhaseInv
<1>12. ASSUME NEW t \in Tasks, BeginSave(t) PROVE PhaseInv'
  <2>1. RowShape' /\ LogShape' /\ StepRecordedOnce'
    BY <1>12 DEF BeginSave, PhaseInv, RowShape, LogShape, StepRecordedOnce
  <2>2. TaskShape' /\ TxnShape'
    BY <1>12 DEF BeginSave, TypeInv, TypeOK, WorkerInv, WorkerHoldsRow, OpenRows, Working, PhaseInv, RowShape, TaskShape, TxnShape
  <2> QED BY <2>1, <2>2 DEF PhaseInv
<1>13. ASSUME NEW t \in Tasks, EndSave(t) PROVE PhaseInv'
  <2>1. RowShape' /\ LogShape' /\ StepRecordedOnce'
    BY <1>13 DEF EndSave, PhaseInv, RowShape, LogShape, StepRecordedOnce
  <2>2. TaskShape' /\ TxnShape'
    BY <1>13 DEF EndSave, TypeInv, TypeOK, WorkerInv, WorkerHoldsRow, OpenRows, Working, PhaseInv, RowShape, TaskShape, TxnShape
  <2> QED BY <2>1, <2>2 DEF PhaseInv
<1>14. ASSUME NEW t \in Tasks, Finish(t) PROVE PhaseInv'
  <2>1. RowShape'
    <3>1. turns' = turns /\ row.state = "VERIFYING"
      BY <1>14 DEF Finish, Working, TypeInv, CopyOK, WorkerInv, WorkerHoldsRow, PhaseInv, TaskShape
    <3> QED BY <1>14, <3>1, FinishEffect, Types DEF PhaseInv, RowShape
  <2>2. TaskShape' /\ TxnShape'
    <3>1. \A u \in Tasks : u # t => pc'[u] \in {"free", "closing"} /\ txn'[u] = {}
      BY <1>14, FinishEffect, Alone DEF Finish, TypeInv, TypeOK, WorkerInv, WorkerHoldsRow, OpenRows, Working
    <3>2. txn'[t] = {}
      BY <1>14 DEF Finish, TypeInv, TypeOK, WorkerInv, OpenRows
    <3>3. pc'[t] = "closing"
      BY <1>14, FinishEffect DEF Finish, TypeInv, TypeOK, PhaseInv, TaskShape
    <3>4. TxnShape'
      BY <3>1, <3>2 DEF TxnShape
    <3> QED BY <3>1, <3>3, <3>4 DEF TaskShape
  <2>3. LogShape'
    <3>1. log' \in {log, log \cup txn[t]}
      BY <1>14 DEF Finish
    <3>2. \A b \in txn[t] : b.write.turn = row.turn /\ b.write.step = row.idx
      BY DEF PhaseInv, TxnShape
    <3>3. /\ row'.turn = row.turn /\ row'.idx \in {row.idx, row.idx + 1}
          /\ row.state # "FAILED"
          /\ log' = log \/ row'.state = "FAILED" \/ row'.idx = row.idx + 1
      BY <1>14, FinishEffect, Alone DEF Finish, PhaseInv, RowShape, TaskShape, Running
    <3> QED BY <3>1, <3>2, <3>3, Types DEF PhaseInv, LogShape
  <2>4. StepRecordedOnce'
    <3>1. log' \in {log, log \cup txn[t]}
      BY <1>14 DEF Finish
    <3>2. \A a \in log, b \in txn[t] : ~(a.write.turn = b.write.turn /\ a.write.step = b.write.step)
      BY Types DEF PhaseInv, LogShape, TxnShape
    <3>3. \A a, b \in txn[t] : a.write.exec = b.write.exec
      BY DEF PhaseInv, TxnShape
    <3> QED BY <3>1, <3>2, <3>3 DEF PhaseInv, StepRecordedOnce
  <2> QED BY <2>1, <2>2, <2>3, <2>4 DEF PhaseInv
<1>15. ASSUME NEW t \in Tasks, Raise(t) PROVE PhaseInv'
  <2>1. RowShape' /\ LogShape' /\ StepRecordedOnce'
    BY <1>15 DEF Raise, PhaseInv, RowShape, LogShape, StepRecordedOnce
  <2>2. TaskShape' /\ TxnShape'
    BY <1>15 DEF Raise, TypeInv, TypeOK, WorkerInv, WorkerHoldsRow, OpenRows, Working, PhaseInv, RowShape, TaskShape, TxnShape
  <2> QED BY <2>1, <2>2 DEF PhaseInv
<1>16. ASSUME NEW t \in Tasks, DbRaise(t) PROVE PhaseInv'
  <2>1. RowShape' /\ LogShape' /\ StepRecordedOnce'
    BY <1>16 DEF DbRaise, PhaseInv, RowShape, LogShape, StepRecordedOnce
  <2>2. TaskShape' /\ TxnShape'
    BY <1>16 DEF DbRaise, TypeInv, TypeOK, WorkerInv, WorkerHoldsRow, OpenRows, Working, PhaseInv, RowShape, TaskShape, TxnShape
  <2> QED BY <2>1, <2>2 DEF PhaseInv
<1>17. ASSUME NEW t \in Tasks, MarkFailed(t) PROVE PhaseInv'
  <2>1. RowShape'
    <3>1. turns' = turns /\ row.state \in Running
      BY <1>17 DEF MarkFailed, Working, TypeInv, CopyOK, WorkerInv, WorkerHoldsRow, PhaseInv, TaskShape
    <3> QED BY <1>17, <3>1, MarkFailedEffect, Types DEF PhaseInv, RowShape
  <2>2. TaskShape' /\ TxnShape'
    <3>1. \A u \in Tasks : u # t => pc'[u] \in {"free", "closing"} /\ txn'[u] = {}
      BY <1>17, MarkFailedEffect, Alone DEF MarkFailed, TypeInv, TypeOK, WorkerInv, WorkerHoldsRow, OpenRows, Working
    <3>2. txn'[t] = {}
      BY <1>17 DEF MarkFailed, TypeInv, TypeOK, WorkerInv, OpenRows
    <3>3. pc'[t] = "closing"
      BY <1>17, MarkFailedEffect DEF MarkFailed, TypeInv, TypeOK, PhaseInv, TaskShape
    <3>4. TxnShape'
      BY <3>1, <3>2 DEF TxnShape
    <3> QED BY <3>1, <3>3, <3>4 DEF TaskShape
  <2>3. LogShape'
    <3>1. log' \in {log, log \cup txn[t]}
      BY <1>17, MarkFailedEffect DEF MarkFailed
    <3>2. \A b \in txn[t] : b.write.turn = row.turn /\ b.write.step = row.idx
      BY DEF PhaseInv, TxnShape
    <3>3. /\ row'.turn = row.turn /\ row'.idx \in {row.idx, row.idx + 1}
          /\ row.state # "FAILED"
          /\ log' = log \/ row'.state = "FAILED" \/ row'.idx = row.idx + 1
      BY <1>17, MarkFailedEffect, Alone DEF MarkFailed, PhaseInv, RowShape, TaskShape, Running
    <3> QED BY <3>1, <3>2, <3>3, Types DEF PhaseInv, LogShape
  <2>4. StepRecordedOnce'
    <3>1. log' \in {log, log \cup txn[t]}
      BY <1>17, MarkFailedEffect DEF MarkFailed
    <3>2. \A a \in log, b \in txn[t] : ~(a.write.turn = b.write.turn /\ a.write.step = b.write.step)
      BY Types DEF PhaseInv, LogShape, TxnShape
    <3>3. \A a, b \in txn[t] : a.write.exec = b.write.exec
      BY DEF PhaseInv, TxnShape
    <3> QED BY <3>1, <3>2, <3>3 DEF PhaseInv, StepRecordedOnce
  <2> QED BY <2>1, <2>2, <2>3, <2>4 DEF PhaseInv
<1>18. ASSUME NEW t \in Tasks, Exit(t) PROVE PhaseInv'
  <2>1. RowShape' /\ LogShape' /\ StepRecordedOnce'
    BY <1>18 DEF Exit, PhaseInv, RowShape, LogShape, StepRecordedOnce
  <2>2. TaskShape' /\ TxnShape'
    BY <1>18 DEF Exit, TypeInv, TypeOK, WorkerInv, WorkerHoldsRow, OpenRows, Working, PhaseInv, RowShape, TaskShape, TxnShape
  <2> QED BY <2>1, <2>2 DEF PhaseInv
<1>19. CASE Crash
  BY <1>19 DEF Crash, Idle, PhaseInv, RowShape, TaskShape, TxnShape, LogShape, StepRecordedOnce
<1>20. CASE Restart
  <2>1. RowShape' /\ LogShape' /\ StepRecordedOnce'
    BY <1>20 DEF Restart, PhaseInv, RowShape, LogShape, StepRecordedOnce
  <2>2. TaskShape' /\ TxnShape'
    BY <1>20 DEF Restart, Spawn, TypeInv, TypeOK, PhaseInv, RowShape, TaskShape, TxnShape
  <2> QED BY <2>1, <2>2 DEF PhaseInv
<1>21. CASE UNCHANGED vars
  BY <1>21 DEF PhaseInv, RowShape, TaskShape, TxnShape, LogShape, StepRecordedOnce
<1> QED
  BY <1>1, <1>2, <1>3, <1>5, <1>6, <1>7, <1>8, <1>9, <1>10, <1>11, <1>12, <1>13, <1>14, <1>15, <1>16, <1>17, <1>18, <1>19, <1>20, <1>21 DEF Next, Start, TaskStep

\* Under serial starts the audit rows of every step of every turn come from
\* one execution of the step, wherever the process was killed and however
\* often the step was executed again.
THEOREM StepsRecordedOnce ==
  ASSUME SerialStarts
  PROVE  Spec => []StepRecordedOnce
<1>1. Init => PhaseInv
  BY PhaseInit
<1>2. TypeInv /\ WorkerInv /\ PhaseInv /\ [Next]_vars => PhaseInv'
  BY PhaseStep
<1>3. PhaseInv => StepRecordedOnce
  BY DEF PhaseInv
<1> QED BY <1>1, <1>2, <1>3, TypeInvariant, WorkerInvariant, PTL DEF Spec

LEMMA PhaseInvariant == ASSUME SerialStarts PROVE Spec => []PhaseInv
BY PhaseInit, PhaseStep, TypeInvariant, WorkerInvariant, PTL DEF Spec

\* Under serial starts a DONE turn is at the end of its plan, whatever
\* interrupted it on the way.
THEOREM DoneMeansWholePlan ==
  ASSUME SerialStarts
  PROVE  Spec => []DoneRanWholePlan
<1>1. PhaseInv => DoneRanWholePlan
  BY DEF PhaseInv, RowShape, DoneRanWholePlan, Phases!DoneRanWholePlan
<1> QED BY <1>1, PhaseInvariant, PTL

\* Under serial starts audit rows and step index become durable together: no
\* committed row belongs to a step the index has not passed, but for those of
\* the step in which a turn failed.
THEOREM RowsFollowIndex ==
  ASSUME SerialStarts
  PROVE  Spec => []JournalBehindIndex
<1>1. TypeInv /\ PhaseInv => JournalBehindIndex
  <2> SUFFICES ASSUME TypeInv, PhaseInv PROVE JournalBehindIndex
    OBVIOUS
  <2>1. \A a \in log : /\ a.write.turn \in Nat /\ row.turn \in Nat
                       /\ a.write.turn <= row.turn
                       /\ a.write.turn = row.turn =>
                            \/ a.write.step < row.idx
                            \/ row.state = "FAILED" /\ a.write.step = row.idx
    BY Types DEF PhaseInv, LogShape
  <2>2. \A b \in Journal : \E a \in log : b.turn = a.write.turn /\ b.step = a.write.step
    BY DEF Journal
  <2> QED BY <2>1, <2>2 DEF JournalBehindIndex, Phases!JournalBehindIndex
<1> QED BY <1>1, TypeInvariant, PhaseInvariant, PTL

LEMMA RefinesInit == Init => Phases!Init
BY DEF Init, Phases!Init, NoRow, Journal

\* A step that leaves the row and the log alone is a stutter of the abstraction.
LEMMA Stutter ==
  ASSUME UNCHANGED <<row, log>>
  PROVE  UNCHANGED Phases!phaseVars
BY DEF Phases!phaseVars, Journal

\* The rows of one execution of the current step become one entry.
LEMMA JournalGrows ==
  ASSUME TypeInv, PhaseInv, NEW t \in Tasks, log' = log \cup txn[t], pc[t] \in {"apply", "failing"}
  PROVE  \/ Journal' = Journal
         \/ \E e \in 1..MaxExecs : Journal' = Journal \cup {Phases!EntryOf(e)}
<1>1. CASE txn[t] = {}
  BY <1>1 DEF Journal
<1>2. CASE txn[t] # {}
  <2>1. \A a \in txn[t] : a.write.turn = row.turn /\ a.write.step = row.idx /\ a.write.exec = exec[t]
    BY DEF PhaseInv, TxnShape
  <2>2. exec[t] \in 1..MaxExecs
    BY <1>2, <2>1 DEF TypeInv, TypeOK, AuditRow, Write
  <2>3. Journal' = Journal \cup {[turn |-> row.turn, step |-> row.idx, exec |-> exec[t]]}
    BY <1>2, <2>1 DEF Journal
  <2> QED BY <2>2, <2>3 DEF Phases!EntryOf
<1> QED BY <1>1, <1>2

LEMMA RefinesStep ==
  ASSUME SerialStarts
  PROVE  TypeInv /\ WorkerInv /\ PhaseInv /\ [Next]_vars
           => [Phases!Next]_(Phases!phaseVars)
<1> SUFFICES ASSUME TypeInv, WorkerInv, PhaseInv, [Next]_vars
             PROVE  [Phases!Next]_(Phases!phaseVars)
  OBVIOUS
<1> USE DEF vars, durable, locals, handlers, history
<1>1. ASSUME NEW r \in Requests, StartLoad(r) \/ StartFails(r)
      PROVE  [Phases!Next]_(Phases!phaseVars)
  <2>1. UNCHANGED <<row, log>>
    BY <1>1 DEF StartLoad, StartFails
  <2> QED BY <2>1, Stutter
<1>2. ASSUME NEW r \in Requests, NEW t \in Tasks, StartCommit(r, t)
      PROVE  [Phases!Next]_(Phases!phaseVars)
  <2>1. /\ row.state \notin Running /\ row.turn < MaxTurns
        /\ row'.state = "PLANNING" /\ row'.turn = row.turn + 1
        /\ row'.plan = NoPlan /\ row'.idx = 0
    BY <1>2, StartCommitEffect DEF PhaseInv, RowShape
  <2>2. Journal' = Journal
    BY <1>2 DEF StartCommit, Journal
  <2>3. Phases!Begin
    BY <2>1, <2>2 DEF Phases!Begin, Phases!Running, Running
  <2> QED BY <2>3 DEF Phases!Next
<1>3. ASSUME NEW t \in Tasks, LoadRow(t) \/ LoadBook(t) \/ ExecuteStep(t) \/ ApplyAction(t) \/ BeginSave(t) \/ EndSave(t)
      PROVE  [Phases!Next]_(Phases!phaseVars)
  <2>1. UNCHANGED <<row, log>>
    BY <1>3 DEF LoadRow, LoadBook, ExecuteStep, ApplyAction, BeginSave, EndSave
  <2> QED BY <2>1, Stutter
<1>4. ASSUME NEW t \in Tasks, Raise(t) \/ DbRaise(t) \/ Exit(t)
      PROVE  [Phases!Next]_(Phases!phaseVars)
  <2>1. UNCHANGED <<row, log>>
    BY <1>4 DEF Raise, DbRaise, Exit
  <2> QED BY <2>1, Stutter
<1>5. ASSUME NEW t \in Tasks, PlanDone(t)
      PROVE  [Phases!Next]_(Phases!phaseVars)
  <2>1. row.state = "PLANNING"
    BY <1>5 DEF PlanDone, Working, TypeInv, CopyOK, WorkerInv, WorkerHoldsRow, PhaseInv, TaskShape
  <2>2. Journal' = Journal
    BY <1>5 DEF PlanDone, Journal
  <2>3. Phases!Plan
    BY <1>5, <2>1, <2>2, PlanDoneEffect DEF Phases!Plan
  <2> QED BY <2>3 DEF Phases!Next
<1>6. ASSUME NEW t \in Tasks, StepCommit(t)
      PROVE  [Phases!Next]_(Phases!phaseVars)
  <2>1. row.state = "EXECUTING" /\ row.idx < row.plan
    BY <1>6 DEF StepCommit, Working, TypeInv, CopyOK, WorkerInv, WorkerHoldsRow, PhaseInv, TaskShape
  <2>2. log' = log \cup txn[t] /\ pc[t] \in {"apply", "failing"}
    BY <1>6 DEF StepCommit
  <2>3. \/ Journal' = Journal
        \/ \E e \in 1..MaxExecs : Journal' = Journal \cup {Phases!EntryOf(e)}
    BY <2>2, JournalGrows
  <2>4. \E e \in 1..MaxExecs : Journal' \in {Journal, Journal \cup {Phases!EntryOf(e)}}
    BY <1>6, <2>3 DEF StepCommit, TypeInv, TypeOK, CopyOK
  <2>5. Phases!CompleteStep
    BY <1>6, <2>1, <2>4, StepCommitEffect DEF Phases!CompleteStep
  <2> QED BY <2>5 DEF Phases!Next
<1>7. ASSUME NEW t \in Tasks, EnterVerifying(t)
      PROVE  [Phases!Next]_(Phases!phaseVars)
  <2>1. row.state = "EXECUTING" /\ row.idx >= row.plan /\ row.plan # NoPlan
    BY <1>7 DEF EnterVerifying, Working, TypeInv, CopyOK, WorkerInv, WorkerHoldsRow, PhaseInv, TaskShape
  <2>2. row.idx = row.plan
    BY <2>1, Types DEF PhaseInv, RowShape
  <2>3. Journal' = Journal
    BY <1>7 DEF EnterVerifying, Journal
  <2>4. Phases!Verify
    BY <1>7, <2>1, <2>2, <2>3, EnterVerifyingEffect DEF Phases!Verify
  <2> QED BY <2>4 DEF Phases!Next
<1>8. ASSUME NEW t \in Tasks, Finish(t)
      PROVE  [Phases!Next]_(Phases!phaseVars)
  <2>1. row.state = "VERIFYING"
    BY <1>8 DEF Finish, Working, TypeInv, CopyOK, WorkerInv, WorkerHoldsRow, PhaseInv, TaskShape
  <2>2. Journal' = Journal
    BY <1>8 DEF Finish, Journal
  <2>3. Phases!Complete
    BY <1>8, <2>1, <2>2, FinishEffect DEF Phases!Complete
  <2> QED BY <2>3 DEF Phases!Next
<1>9. ASSUME NEW t \in Tasks, MarkFailed(t)
      PROVE  [Phases!Next]_(Phases!phaseVars)
  <2>1. row.state \in Running
    BY <1>9 DEF MarkFailed, Working, TypeInv, CopyOK, WorkerInv, WorkerHoldsRow, PhaseInv, TaskShape
  <2>2. CASE row' = row /\ log' = log
    BY <2>2, Stutter
  <2>3. CASE /\ row'.state = "FAILED" /\ row'.turn = row.turn
             /\ row'.plan = row.plan /\ row'.idx = row.idx
             /\ log' = log \cup txn[t]
    <3>1. CASE txn[t] = {}
      <4>1. Journal' = Journal
        BY <2>3, <3>1 DEF Journal
      <4>2. Phases!Fail
        BY <2>1, <2>3, <4>1 DEF Phases!Fail, Phases!Running, Running
      <4> QED BY <4>2 DEF Phases!Next
    <3>2. CASE txn[t] # {}
      <4>1. row.state = "EXECUTING" /\ row.idx < row.plan
        BY <3>2 DEF PhaseInv, TxnShape
      <4>2. pc[t] \in {"apply", "failing"}
        BY <1>9 DEF MarkFailed
      <4>3. \/ Journal' = Journal
            \/ \E e \in 1..MaxExecs : Journal' = Journal \cup {Phases!EntryOf(e)}
        BY <2>3, <4>2, JournalGrows
      <4>4. Phases!Fail
        BY <2>1, <2>3, <4>1, <4>3 DEF Phases!Fail, Phases!Running, Running
      <4> QED BY <4>4 DEF Phases!Next
    <3> QED BY <3>1, <3>2
  <2> QED BY <1>9, <2>2, <2>3, MarkFailedEffect
<1>10. CASE Crash \/ Restart \/ UNCHANGED vars
  <2>1. UNCHANGED <<row, log>>
    BY <1>10 DEF Crash, Restart
  <2> QED BY <2>1, Stutter
<1> QED
  BY <1>1, <1>2, <1>3, <1>4, <1>5, <1>6, <1>7, <1>8, <1>9, <1>10 DEF Next, Start, TaskStep

\* Under serial starts the row and the audit log of the orchestrator, driven by
\* tasks, crashes and restarts, are an implementation of the abstract turn.
THEOREM RunImplementsPhases ==
  ASSUME SerialStarts
  PROVE  Spec => PhasesSpec
<1>1. Init => Phases!Init
  BY RefinesInit
<1>2. TypeInv /\ WorkerInv /\ PhaseInv /\ [Next]_vars
        => [Phases!Next]_(Phases!phaseVars)
  BY RefinesStep
<1> QED BY <1>1, <1>2, TypeInvariant, WorkerInvariant, PhaseInvariant, PTL
        DEF Spec, PhasesSpec, Phases!Spec

LEMMA IndexStep ==
  ASSUME SerialStarts, TypeInv, WorkerInv, PhaseInv, [Next]_vars,
         row'.turn = row.turn, row.plan # NoPlan
  PROVE  row'.plan = row.plan /\ row'.idx \in {row.idx, row.idx + 1}
<1> USE DEF Phases!Running
<1>1. [Phases!Next]_(Phases!phaseVars)
  BY RefinesStep
<1>2. row.state # "PLANNING" /\ row.turn # row.turn + 1
  BY Types DEF PhaseInv, RowShape
<1>3. CASE UNCHANGED Phases!phaseVars
  BY <1>3 DEF Phases!phaseVars
<1>4. CASE Phases!Begin \/ Phases!Plan
  BY <1>2, <1>4 DEF Phases!Begin, Phases!Plan
<1>5. CASE Phases!CompleteStep
  BY <1>5 DEF Phases!CompleteStep
<1>6. CASE Phases!Verify \/ Phases!Complete \/ Phases!Fail
  BY <1>6 DEF Phases!Verify, Phases!Complete, Phases!Fail
<1> QED BY <1>1, <1>3, <1>4, <1>5, <1>6 DEF Phases!Next

\* Under serial starts current_step_index only moves forward, one step at a
\* time, and the plan it counts in is never replaced, while a turn lasts.
THEOREM IndexOnlyGrows ==
  ASSUME SerialStarts
  PROVE  Spec => IndexMonotone
<1>1. TypeInv /\ WorkerInv /\ PhaseInv /\ [Next]_vars
        => [row'.turn = row.turn /\ row.plan # NoPlan =>
              row'.plan = row.plan /\ row'.idx \in {row.idx, row.idx + 1}]_vars
  BY IndexStep
<1> QED BY <1>1, TypeInvariant, WorkerInvariant, PhaseInvariant, PTL
        DEF Spec, IndexMonotone

-----------------------------------------------------------------------------
(* The abstract turn: what a row and a journal guarantee whose steps are     *)
(* those of RunPhases, by a proof that looks at nothing else.                *)

\* A phase belongs to an accepted turn.  A turn past PLANNING has a plan that
\* bounds its index, planning starts the index and verification starts at the
\* end of it.
PlanBound ==
  /\ row.state # "NONE" => row.turn >= 1
  /\ row.state = "PLANNING" => row.idx = 0
  /\ row.state = "EXECUTING" => row.plan \in Nat /\ row.idx <= row.plan
  /\ row.state \in {"VERIFYING", "DONE"} => row.idx = row.plan

TurnInv == Phases!TypeOK /\ PlanBound /\ Phases!JournalBehindIndex /\ Phases!OneExecutionPerStep

LEMMA TurnConstants == Phases!RunPhasesConstants
BY DEF Phases!RunPhasesConstants

LEMMA TurnInit ==
  ASSUME Phases!RunPhasesConstants
  PROVE  Phases!Init => TurnInv
BY DEF Phases!RunPhasesConstants, Phases!Init, TurnInv, Phases!TypeOK, PlanBound,
   Phases!JournalBehindIndex,
       Phases!OneExecutionPerStep, Phases!Running, Phases!Terminal

LEMMA TurnStep ==
  ASSUME Phases!RunPhasesConstants
  PROVE  TurnInv /\ [Phases!Next]_(Phases!phaseVars) => TurnInv'
<1> SUFFICES ASSUME TurnInv, [Phases!Next]_(Phases!phaseVars) PROVE TurnInv'
  OBVIOUS
<1> USE DEF Phases!RunPhasesConstants, Phases!Running, Phases!Terminal
<1>t. /\ row.turn \in Nat /\ row.idx \in Nat
      /\ \A a \in Journal : a.turn \in Nat /\ a.step \in Nat
  BY DEF TurnInv, Phases!TypeOK, Phases!Entry
<1>1. CASE Phases!Begin
  <2>1. Phases!TypeOK' /\ PlanBound'
    BY <1>1 DEF Phases!Begin, TurnInv, Phases!TypeOK, PlanBound
  <2>2. Phases!JournalBehindIndex'
    BY <1>1, <1>t DEF Phases!Begin, TurnInv, Phases!JournalBehindIndex
  <2>3. Phases!OneExecutionPerStep'
    BY <1>1 DEF Phases!Begin, TurnInv, Phases!OneExecutionPerStep
  <2> QED BY <2>1, <2>2, <2>3 DEF TurnInv
<1>2. CASE Phases!Plan
  <2>1. Phases!TypeOK' /\ PlanBound'
    BY <1>2 DEF Phases!Plan, TurnInv, Phases!TypeOK, PlanBound
  <2>2. \A a \in Journal : a.turn < row.turn
    BY <1>2, <1>t DEF Phases!Plan, TurnInv, PlanBound, Phases!JournalBehindIndex
  <2>3. Phases!JournalBehindIndex'
    BY <1>2, <1>t, <2>2 DEF Phases!Plan, Phases!JournalBehindIndex
  <2>4. Phases!OneExecutionPerStep'
    BY <1>2 DEF Phases!Plan, TurnInv, Phases!OneExecutionPerStep
  <2> QED BY <2>1, <2>3, <2>4 DEF TurnInv
<1>f. ASSUME row.state # "FAILED"
      PROVE  \A a \in Journal : ~(a.turn = row.turn /\ a.step = row.idx)
  BY <1>f, <1>t DEF TurnInv, Phases!JournalBehindIndex
<1>3. CASE Phases!CompleteStep
  <2>1. PICK e \in 1..MaxExecs : Journal' \in {Journal, Journal \cup {Phases!EntryOf(e)}}
    BY <1>3 DEF Phases!CompleteStep
  <2>2. row.turn >= 1 /\ row.plan \in Nat /\ row.plan <= MaxSteps
    BY <1>3 DEF Phases!CompleteStep, TurnInv, Phases!TypeOK, PlanBound
  <2> DEFINE new == Phases!EntryOf(e)
  <2>n. \A a \in Journal' : a \in Journal \/ a = new
    BY <2>1
  <2>m. new.turn = row.turn /\ new.step = row.idx /\ new \in Phases!Entry
    BY <1>t, <2>2 DEF Phases!EntryOf, Phases!Entry, TurnInv, Phases!TypeOK
  <2> HIDE DEF new
  <2>3. Phases!TypeOK' /\ PlanBound'
    <3>1. Journal' \subseteq Phases!Entry
      BY <2>n, <2>m DEF TurnInv, Phases!TypeOK
    <3>2. /\ row'.state = row.state /\ row'.turn = row.turn /\ row'.plan = row.plan
          /\ row'.idx = row.idx + 1 /\ row.idx < row.plan /\ row.state = "EXECUTING"
      BY <1>3 DEF Phases!CompleteStep
    <3> QED BY <1>t, <2>2, <3>1, <3>2 DEF TurnInv, Phases!TypeOK, PlanBound
  <2>4. Phases!JournalBehindIndex'
    <3>1. row'.turn = row.turn /\ row'.idx = row.idx + 1 /\ row.state = "EXECUTING"
      BY <1>3 DEF Phases!CompleteStep
    <3> QED BY <1>t, <2>n, <2>m, <3>1 DEF TurnInv, Phases!JournalBehindIndex
  <2>5. Phases!OneExecutionPerStep'
    <3>1. \A a \in Journal : ~(a.turn = row.turn /\ a.step = row.idx)
      BY <1>3, <1>f DEF Phases!CompleteStep
    <3> QED BY <2>n, <2>m, <3>1 DEF TurnInv, Phases!OneExecutionPerStep
  <2> QED BY <2>3, <2>4, <2>5 DEF TurnInv
<1>4. CASE Phases!Verify
  BY <1>4, <1>t DEF Phases!Verify, TurnInv, Phases!TypeOK, PlanBound,
     Phases!JournalBehindIndex, Phases!OneExecutionPerStep
<1>5. CASE Phases!Complete
  BY <1>5, <1>t DEF Phases!Complete, TurnInv, Phases!TypeOK, PlanBound,
     Phases!JournalBehindIndex, Phases!OneExecutionPerStep
<1>6. CASE Phases!Fail
  <2>1. CASE UNCHANGED Journal
    BY <1>6, <1>t, <2>1 DEF Phases!Fail, TurnInv, Phases!TypeOK, PlanBound,
       Phases!JournalBehindIndex, Phases!OneExecutionPerStep
  <2>2. ASSUME NEW e \in 1..MaxExecs, Journal' = Journal \cup {Phases!EntryOf(e)}, row.state = "EXECUTING"
        PROVE  TurnInv'
    <3>1. row.turn >= 1
      BY <2>2 DEF TurnInv, PlanBound
    <3> DEFINE new == Phases!EntryOf(e)
    <3>n. \A a \in Journal' : a \in Journal \/ a = new
      BY <2>2
    <3>m. new.turn = row.turn /\ new.step = row.idx /\ new \in Phases!Entry
      BY <1>t, <3>1 DEF Phases!EntryOf, Phases!Entry, TurnInv, Phases!TypeOK
    <3> HIDE DEF new
    <3>u. row'.turn = row.turn /\ row'.idx = row.idx /\ row'.plan = row.plan /\ row'.state = "FAILED"
      BY <1>6 DEF Phases!Fail
    <3>2. Phases!TypeOK' /\ PlanBound'
      <4>1. Journal' \subseteq Phases!Entry
        BY <3>n, <3>m DEF TurnInv, Phases!TypeOK
      <4> QED BY <3>u, <3>1, <4>1 DEF TurnInv, Phases!TypeOK, PlanBound
    <3>3. Phases!JournalBehindIndex'
      BY <1>t, <2>2, <3>u, <3>n, <3>m DEF TurnInv, Phases!JournalBehindIndex
    <3>4. Phases!OneExecutionPerStep'
      <4>1. \A a \in Journal : ~(a.turn = row.turn /\ a.step = row.idx)
        BY <2>2, <1>f
      <4> QED BY <3>n, <3>m, <4>1 DEF TurnInv, Phases!OneExecutionPerStep
    <3> QED BY <3>2, <3>3, <3>4 DEF TurnInv
  <2> QED BY <1>6, <2>1, <2>2 DEF Phases!Fail
<1>7. CASE UNCHANGED Phases!phaseVars
  BY <1>7 DEF Phases!phaseVars, TurnInv, Phases!TypeOK, PlanBound,
     Phases!JournalBehindIndex, Phases!OneExecutionPerStep
<1> QED BY <1>1, <1>2, <1>3, <1>4, <1>5, <1>6, <1>7 DEF Phases!Next

\* What the mapped row and log owe the abstract turn: no step of a turn has
\* rows of two executions in the journal.
THEOREM OneExecutionPerStepHolds == PhasesSpec => []Phases!OneExecutionPerStep
<1>1. TurnInv => Phases!OneExecutionPerStep
  BY DEF TurnInv
<1> QED BY <1>1, TurnConstants, TurnInit, TurnStep, PTL DEF PhasesSpec, Phases!Spec

\* A turn is DONE only at the end of its plan, and the journal never runs
\* ahead of the index except in a failed turn's last step.
THEOREM JournalHolds == PhasesSpec => [](DoneRanWholePlan /\ JournalBehindIndex)
<1>1. TurnInv => DoneRanWholePlan /\ JournalBehindIndex
  BY DEF TurnInv, PlanBound, DoneRanWholePlan, JournalBehindIndex, Phases!DoneRanWholePlan
<1> QED BY <1>1, TurnConstants, TurnInit, TurnStep, PTL DEF PhasesSpec, Phases!Spec

-----------------------------------------------------------------------------
(* Which writes are in a workbook.  What awaits approval is in none: proved  *)
(* without any assumption on prompts, however many tasks work on the session *)
(* at the same time.  What was applied in a turn that no crash interrupted   *)
(* is in the file when the turn is DONE: proved under serial starts.         *)

\* Every place a write of the orchestrator can be: the file, the tasks'
\* workbooks, the audit rows that are committed or flushed.
Written == file \cup UNION {wb[t] : t \in Tasks}
Audited == log \cup UNION {txn[t] : t \in Tasks}
Known   == Written \cup {a.write : a \in Audited}

\* Executor calls are numbered, and no two tasks apply the actions of one.
Numbered ==
  /\ \A w \in Known : w.exec <= execs
  /\ \A t \in Tasks : pc[t] = "apply" => exec[t] <= execs
  /\ \A t, u \in Tasks : pc[t] = "apply" /\ pc[u] = "apply" /\ exec[t] = exec[u] => t = u

\* The action a task applies next has been neither written nor recorded.
Fresh ==
  \A t \in Tasks : pc[t] = "apply" =>
    \A w \in Known : w.exec = exec[t] => w.n > todo[t]

\* A write that awaits approval has not been written.
Withheld == \A a \in Audited : a.status = "PENDING_APPROVAL" => a.write \notin Written

WritesInv == Numbered /\ Fresh /\ Withheld

LEMMA KnownType ==
  ASSUME TypeInv
  PROVE  /\ \A w \in Known : w \in Write /\ w.exec \in Nat /\ w.n \in Nat
         /\ execs \in Nat
         /\ \A t \in Tasks : exec[t] \in Nat /\ todo[t] \in Nat
         /\ Audited \subseteq AuditRow
<1>1. Written \subseteq Write /\ Audited \subseteq AuditRow
  BY DEF Written, Audited, TypeInv, TypeOK
<1>2. Known \subseteq Write
  BY <1>1 DEF Known, AuditRow
<1>3. \A w \in Write : w.exec \in Nat /\ w.n \in Nat
  BY DEF Write
<1>4. execs \in Nat /\ \A t \in Tasks : exec[t] \in Nat /\ todo[t] \in Nat
  BY DEF TypeInv, TypeOK
<1> QED BY <1>1, <1>2, <1>3, <1>4

LEMMA WritesInit == Init => WritesInv
<1> SUFFICES ASSUME Init PROVE WritesInv
  OBVIOUS
<1>1. Written = {} /\ Audited = {}
  BY DEF Init, Written, Audited
<1>2. Known = {}
  BY <1>1 DEF Known
<1>3. \A t \in Tasks : pc[t] # "apply"
  BY DEF Init
<1> QED BY <1>1, <1>2, <1>3 DEF WritesInv, Numbered, Fresh, Withheld

\* Most steps bring no new write anywhere and start no execution.
LEMMA NothingNew ==
  ASSUME WritesInv, Written' \subseteq Written, Audited' \subseteq Audited, execs' = execs,
         \A t \in Tasks : pc'[t] = "apply" =>
           pc[t] = "apply" /\ exec'[t] = exec[t] /\ todo'[t] = todo[t]
  PROVE  WritesInv'
<1>1. Known' \subseteq Known
  BY DEF Known
<1>2. Numbered'
  BY <1>1 DEF WritesInv, Numbered
<1>3. Fresh'
  BY <1>1 DEF WritesInv, Fresh
<1>4. Withheld'
  BY DEF WritesInv, Withheld
<1> QED BY <1>2, <1>3, <1>4 DEF WritesInv

\* The books and rows of the tasks, put together after one of them changed.
LEMMA OneBookChanges ==
  ASSUME NEW t \in Tasks, NEW book, wb \in [Tasks -> SUBSET Write],
         wb' = [wb EXCEPT ![t] = book]
  PROVE  UNION {wb'[u] : u \in Tasks} \subseteq (UNION {wb[u] : u \in Tasks}) \cup book
<1>1. \A u \in Tasks : wb'[u] = IF u = t THEN book ELSE wb[u]
  OBVIOUS
<1>2. ASSUME NEW x, NEW u \in Tasks, x \in wb'[u]
      PROVE  x \in (UNION {wb[s] : s \in Tasks}) \cup book
  <2>1. CASE u = t
    BY <1>1, <1>2, <2>1
  <2>2. CASE u # t
    <3>1. x \in wb[u]
      BY <1>1, <1>2, <2>2
    <3> QED BY <3>1
  <2> QED BY <2>1, <2>2
<1> QED BY <1>2

LEMMA OneTxnChanges ==
  ASSUME NEW t \in Tasks, NEW rows, txn \in [Tasks -> SUBSET AuditRow],
         txn' = [txn EXCEPT ![t] = rows]
  PROVE  UNION {txn'[u] : u \in Tasks} \subseteq (UNION {txn[u] : u \in Tasks}) \cup rows
<1>1. \A u \in Tasks : txn'[u] = IF u = t THEN rows ELSE txn[u]
  OBVIOUS
<1>2. ASSUME NEW x, NEW u \in Tasks, x \in txn'[u]
      PROVE  x \in (UNION {txn[s] : s \in Tasks}) \cup rows
  <2>1. CASE u = t
    BY <1>1, <1>2, <2>1
  <2>2. CASE u # t
    <3>1. x \in txn[u]
      BY <1>1, <1>2, <2>2
    <3> QED BY <3>1
  <2> QED BY <2>1, <2>2
<1> QED BY <1>2

LEMMA WritesStep == TypeInv /\ WritesInv /\ [Next]_vars => WritesInv'
<1> SUFFICES ASSUME TypeInv, WritesInv, [Next]_vars PROVE WritesInv'
  OBVIOUS
<1> USE DEF vars, durable, locals, handlers, history, Goto
<1>t. /\ wb \in [Tasks -> SUBSET Write] /\ txn \in [Tasks -> SUBSET AuditRow]
      /\ \A t \in Tasks : pc[t] \in PCs
      /\ pc \in [Tasks -> PCs] /\ exec \in [Tasks -> 0..MaxExecs] /\ todo \in [Tasks -> 0..MaxActions]
  BY DEF TypeInv, TypeOK
<1>1. ASSUME UNCHANGED <<log, file, wb, txn, exec, todo, execs>>,
             \A t \in Tasks : pc'[t] = "apply" => pc[t] = "apply"
      PROVE  WritesInv'
  BY <1>1, NothingNew DEF Written, Audited
<1>2. ASSUME NEW r \in Requests, Start(r) PROVE WritesInv'
  <2>1. UNCHANGED <<log, file, wb, txn, exec, todo, execs>>
    BY <1>2 DEF Start, StartLoad, StartCommit, StartFails
  <2>2. \A t \in Tasks : pc'[t] = "apply" => pc[t] = "apply"
    BY <1>2, <1>t DEF Start, StartLoad, StartCommit, StartFails, Spawn
  <2> QED BY <1>1, <2>1, <2>2
<1>3. ASSUME NEW t \in Tasks,
             \/ LoadRow(t) \/ PlanDone(t) \/ EnterVerifying(t) \/ BeginSave(t)
             \/ Finish(t) \/ Raise(t) \/ Exit(t)
      PROVE  WritesInv'
  <2>1. UNCHANGED <<log, file, wb, txn, exec, todo, execs>>
    BY <1>3 DEF LoadRow, PlanDone, EnterVerifying, BeginSave, Finish, Raise, Exit
  <2>2. \A u \in Tasks : pc'[u] = "apply" => pc[u] = "apply"
    BY <1>3, <1>t DEF LoadRow, PlanDone, EnterVerifying, BeginSave, Finish, Raise, Exit
  <2> QED BY <1>1, <2>1, <2>2
<1>4. ASSUME NEW t \in Tasks, LoadBook(t) PROVE WritesInv'
  <2>1. wb' = [wb EXCEPT ![t] = Book] /\ Book \subseteq file
    BY <1>4 DEF LoadBook, Book
  <2>2. Written' \subseteq Written /\ Audited' = Audited
    BY <1>4, <1>t, <2>1, OneBookChanges DEF LoadBook, Written, Audited
  <2>3. \A u \in Tasks : pc'[u] = "apply" => pc[u] = "apply"
    BY <1>4, <1>t DEF LoadBook, PhaseOf
  <2> QED BY <1>4, <2>2, <2>3, NothingNew DEF LoadBook
<1>5. ASSUME NEW t \in Tasks, ExecuteStep(t) PROVE WritesInv'
  <2>1. /\ exec' = [exec EXCEPT ![t] = execs + 1] /\ execs' = execs + 1
        /\ pc' = [pc EXCEPT ![t] = "apply"]
        /\ \E n \in 0..MaxActions : todo' = [todo EXCEPT ![t] = n]
        /\ UNCHANGED <<log, file, wb, txn>>
    BY <1>5 DEF ExecuteStep
  <2>0. Written' = Written /\ Audited' = Audited
    BY <2>1 DEF Written, Audited
  <2>2. Known' = Known
    BY <2>0 DEF Known
  <2>3. \A w \in Known : w.exec < exec'[t]
    BY <1>t, <2>1, KnownType DEF WritesInv, Numbered
  <2>4. \A u \in Tasks : u # t => exec'[u] = exec[u] /\ todo'[u] = todo[u] /\ pc'[u] = pc[u]
    BY <1>t, <2>1
  <2>5. \A u \in Tasks : u # t /\ pc[u] = "apply" => exec[u] < exec'[t]
    BY <1>t, <2>1, KnownType DEF WritesInv, Numbered
  <2>6. Numbered'
    <3>1. \A w \in Known' : w.exec <= execs'
      BY <2>1, <2>2, KnownType DEF WritesInv, Numbered
    <3>2. \A u \in Tasks : pc'[u] = "apply" => exec'[u] <= execs'
      BY <1>t, <2>1, <2>4, KnownType DEF WritesInv, Numbered
    <3>3. \A u, v \in Tasks : pc'[u] = "apply" /\ pc'[v] = "apply" /\ exec'[u] = exec'[v] => u = v
      BY <1>t, <2>1, <2>4, <2>5, KnownType DEF WritesInv, Numbered
    <3> QED BY <3>1, <3>2, <3>3 DEF Numbered
  <2>7. Fresh'
    BY <2>2, <2>3, <2>4, KnownType DEF WritesInv, Fresh
  <2>8. Withheld'
    BY <2>0 DEF WritesInv, Withheld
  <2> QED BY <2>6, <2>7, <2>8 DEF WritesInv
<1>6. ASSUME NEW t \in Tasks, ApplyAction(t) PROVE WritesInv'
  <2> DEFINE new == NextWrite(t)
  <2>1. PICK blocked \in BOOLEAN :
          /\ txn' = [txn EXCEPT ![t] = @ \cup
               {[write |-> new, status |-> IF blocked THEN "PENDING_APPROVAL" ELSE "APPLIED"]}]
          /\ wb' = [wb EXCEPT ![t] = IF blocked THEN @ ELSE @ \cup {new}]
    BY <1>6 DEF ApplyAction
  <2>2. new.exec = exec[t] /\ new.n = todo[t]
    BY DEF NextWrite
  <2> HIDE DEF new
  <2> DEFINE added == [write |-> new, status |-> IF blocked THEN "PENDING_APPROVAL" ELSE "APPLIED"]
  <2>3. /\ pc[t] = "apply" /\ todo[t] > 0 /\ todo' = [todo EXCEPT ![t] = @ - 1]
        /\ pc' = pc /\ exec' = exec /\ execs' = execs /\ log' = log /\ file' = file
    BY <1>6 DEF ApplyAction
  <2>4. new \notin Known
    BY <2>2, <2>3, KnownType DEF WritesInv, Fresh
  <2>5. Audited' \subseteq Audited \cup {added}
    BY <1>t, <2>1, <2>3, OneTxnChanges DEF Audited
  <2>6. Written' \subseteq Written \cup IF blocked THEN {} ELSE {new}
    BY <1>t, <2>1, <2>3, OneBookChanges DEF Written
  <2>7. added.write = new /\ (added.status = "PENDING_APPROVAL" => blocked)
    OBVIOUS
  <2>8. Known' \subseteq Known \cup {new}
    BY <2>5, <2>6, <2>7 DEF Known
  <2>9. Numbered'
    BY <1>t, <2>2, <2>3, <2>8 DEF WritesInv, Numbered
  <2>10. Fresh'
    <3>1. ASSUME NEW u \in Tasks, pc'[u] = "apply", NEW w \in Known', w.exec = exec'[u]
          PROVE  w.n > todo'[u]
      <4>1. CASE u = t
        <5>1. todo'[u] = todo[t] - 1
          BY <1>t, <2>3, <4>1
        <5>2. w \in Known => w.n > todo[t]
          BY <2>3, <3>1, <4>1 DEF WritesInv, Fresh
        <5> QED BY <5>1, <5>2, <2>2, <2>8, <3>1, KnownType
      <4>2. CASE u # t
        <5>1. w # new /\ todo'[u] = todo[u]
          BY <1>t, <2>2, <2>3, <3>1, <4>2 DEF WritesInv, Numbered
        <5> QED BY <5>1, <2>3, <2>8, <3>1 DEF WritesInv, Fresh
      <4> QED BY <4>1, <4>2
    <3> QED BY <3>1 DEF Fresh
  <2>11. Withheld'
    <3>1. ASSUME NEW a \in Audited', a.status = "PENDING_APPROVAL"
          PROVE  a.write \notin Written'
      <4>1. CASE a \in Audited
        <5>1. a.write \in Known /\ a.write \notin Written
          BY <3>1, <4>1 DEF Known, WritesInv, Withheld
        <5> QED BY <5>1, <2>4, <2>6
      <4>2. CASE a = added
        <5>1. blocked /\ a.write = new
          BY <2>7, <3>1, <4>2
        <5>2. new \notin Written
          BY <2>4 DEF Known
        <5> QED BY <5>1, <5>2, <2>6
      <4> QED BY <2>5, <4>1, <4>2
    <3> QED BY <3>1 DEF Withheld
  <2> QED BY <2>9, <2>10, <2>11 DEF WritesInv
<1>7. ASSUME NEW t \in Tasks, StepCommit(t) PROVE WritesInv'
  <2>1. /\ log' = log \cup txn[t] /\ txn' = [txn EXCEPT ![t] = {}]
        /\ pc' = [pc EXCEPT ![t] = "exec"]
        /\ UNCHANGED <<file, wb, exec, todo, execs>>
    BY <1>7 DEF StepCommit
  <2>2. Audited' \subseteq Audited
    BY <1>t, <2>1, OneTxnChanges DEF Audited
  <2> QED BY <1>t, <2>1, <2>2, NothingNew DEF Written
<1>8. ASSUME NEW t \in Tasks, EndSave(t) PROVE WritesInv'
  <2>1. Written' \subseteq Written /\ Audited' = Audited
    BY <1>8 DEF EndSave, Written, Audited
  <2>2. \A u \in Tasks : pc'[u] = "apply" => pc[u] = "apply"
    BY <1>8, <1>t DEF EndSave
  <2> QED BY <1>8, <2>1, <2>2, NothingNew DEF EndSave
<1>9. ASSUME NEW t \in Tasks, DbRaise(t) \/ MarkFailed(t) PROVE WritesInv'
  <2>1. /\ log' \subseteq log \cup txn[t] /\ txn' = [txn EXCEPT ![t] = {}]
        /\ pc'[t] # "apply" /\ \A u \in Tasks : u # t => pc'[u] = pc[u]
        /\ UNCHANGED <<file, wb, exec, todo, execs>>
    BY <1>9, <1>t DEF DbRaise, MarkFailed
  <2>2. Audited' \subseteq Audited
    BY <1>t, <2>1, OneTxnChanges DEF Audited
  <2> QED BY <2>1, <2>2, NothingNew DEF Written
<1>10. CASE Crash
  <2>1. Written' \subseteq Written /\ Audited' \subseteq Audited /\ execs' = execs
    BY <1>10 DEF Crash, Idle, Written, Audited
  <2>2. \A u \in Tasks : pc'[u] # "apply"
    BY <1>10 DEF Crash, Idle
  <2> QED BY <2>1, <2>2, NothingNew
<1>11. CASE Restart
  <2>1. \A u \in Tasks : pc'[u] = "apply" => pc[u] = "apply"
    BY <1>11, <1>t DEF Restart, Spawn
  <2> QED BY <1>1, <1>11, <2>1 DEF Restart
<1>12. CASE UNCHANGED vars
  BY <1>1, <1>12
<1> QED
  BY <1>2, <1>3, <1>4, <1>5, <1>6, <1>7, <1>8, <1>9, <1>10, <1>11, <1>12 DEF Next, TaskStep

\* Whatever prompts, tasks, crashes and failures overlap, no workbook in
\* memory or on disk holds a write whose audit row awaits approval.
THEOREM PendingStaysOut == Spec => []PendingNeverWritten
<1>1. WritesInv => PendingNeverWritten
  BY DEF WritesInv, Withheld, Audited, Written, PendingNeverWritten
<1> QED BY <1>1, WritesInit, WritesStep, TypeInvariant, PTL DEF Spec

-----------------------------------------------------------------------------
(* The workbook of a turn nobody interrupted.                                *)

\* Every write that the turn's committed audit rows call applied is in S.
TurnIn(S) ==
  \A a \in log : a.write.turn = row.turn /\ a.status = "APPLIED" => a.write \in S

\* The turn's writes travel from the task's workbook to the file; a crash
\* between a step's commit and the save is what makes a resumed task start
\* without them, hence the restriction to turns without one.
SavedInv ==
  /\ row.state = "DONE" => ~torn
  /\ \A t \in Tasks : pc[t] = "finish" => ~torn
  /\ ~up /\ row.state \in Running => interrupted
  /\ ~interrupted =>
       /\ row.state = "DONE" => TurnIn(file) /\ path = "current"
       /\ \A t \in Tasks :
            /\ pc[t] \in {"load", "book", "plan"} => \A a \in log : a.write.turn # row.turn
            /\ pc[t] \in {"exec", "apply", "verify", "saving"} => TurnIn(wb[t])
            /\ pc[t] = "apply" => \A a \in txn[t] : a.status = "APPLIED" => a.write \in wb[t]
            /\ pc[t] = "finish" => TurnIn(file)

LEMMA SavedInit == Init => SavedInv
BY DEF Init, SavedInv, NoRow, Running

\* A step of the one task at work: SavedInv asks something only of that task.
LEMMA OneTaskStep ==
  ASSUME TypeInv, WorkerInv, SavedInv, NEW t \in Tasks, Working(t),
         NEW label, pc' = [pc EXCEPT ![t] = label],
         row'.state # "DONE", up' = up, interrupted' = interrupted,
         label = "finish" => ~torn',
         ~interrupted /\ label \in {"load", "book", "plan"} =>
           (\A a \in log : a.write.turn # row.turn)',
         ~interrupted /\ label \in {"exec", "apply", "verify", "saving"} => TurnIn(wb[t])',
         ~interrupted /\ label = "apply" =>
           (\A a \in txn[t] : a.status = "APPLIED" => a.write \in wb[t])',
         ~interrupted /\ label = "finish" => TurnIn(file)'
  PROVE  SavedInv'
<1>1. up /\ \A u \in Tasks : u # t => pc'[u] \in {"free", "closing"}
  BY Alone DEF TypeInv, TypeOK, Working
<1>2. pc'[t] = label
  BY DEF TypeInv, TypeOK
<1>3. \A u \in Tasks : u # t \/ u = t
  OBVIOUS
<1> QED BY <1>1, <1>2, <1>3 DEF SavedInv

LEMMA SavedStep ==
  ASSUME SerialStarts
  PROVE  TypeInv /\ WorkerInv /\ PhaseInv /\ SavedInv /\ [Next]_vars => SavedInv'
<1> SUFFICES ASSUME TypeInv, WorkerInv, PhaseInv, SavedInv, [Next]_vars PROVE SavedInv'
  OBVIOUS
<1> USE DEF vars, durable, locals, handlers, history, Goto
<1>t. /\ pc \in [Tasks -> PCs] /\ wb \in [Tasks -> SUBSET Write]
      /\ txn \in [Tasks -> SUBSET AuditRow]
  BY DEF TypeInv, TypeOK
<1>w. ASSUME NEW t \in Tasks, Working(t) PROVE row.state \in Running /\ row.state # "DONE" /\ up
  BY <1>w, Alone DEF Running
<1>1. ASSUME NEW r \in Requests, StartLoad(r) \/ StartFails(r) PROVE SavedInv'
  BY <1>1 DEF StartLoad, StartFails, SavedInv, TurnIn
<1>2. ASSUME NEW r \in Requests, NEW t \in Tasks, StartCommit(r, t) PROVE SavedInv'
  <2>1. /\ row'.state = "PLANNING" /\ row'.turn = turns + 1 /\ row.turn = turns
        /\ pc' = [pc EXCEPT ![t] = "load"] /\ \A u \in Tasks : ~Working(u)
    BY <1>2, StartCommitEffect DEF PhaseInv, RowShape
  <2>2. up' /\ log' = log
    BY <1>2 DEF StartCommit, WorkerInv, RequestHoldsRow
  <2>3. \A a \in log : a.write.turn <= row.turn /\ a.write.turn \in Nat
    BY Types DEF PhaseInv, LogShape
  <2>4. \A a \in log' : a.write.turn # row'.turn
    BY <2>1, <2>2, <2>3, Types
  <2>5. \A u \in Tasks : pc'[u] \in {"load", "free", "closing"}
    BY <1>t, <2>1 DEF Working
  <2> QED BY <2>1, <2>2, <2>4, <2>5 DEF SavedInv
<1>3. ASSUME NEW t \in Tasks, LoadRow(t) PROVE SavedInv'
  <2>1. Working(t) /\ pc[t] = "load"
    BY <1>3 DEF LoadRow, Working
  <2>2. /\ pc' = [pc EXCEPT ![t] = "book"]
        /\ UNCHANGED <<row, log, torn, up, interrupted>>
    BY <1>3 DEF LoadRow
  <2>3. ~interrupted => \A a \in log' : a.write.turn # row'.turn
    BY <2>1, <2>2 DEF SavedInv
  <2> QED BY <1>w, <2>1, <2>2, <2>3, OneTaskStep
<1>4. ASSUME NEW t \in Tasks, LoadBook(t) PROVE SavedInv'
  <2>1. Working(t) /\ pc[t] = "book"
    BY <1>4 DEF LoadBook, Working
  <2> DEFINE label == PhaseOf(cache[t])
  <2>2. label \in {"plan", "exec", "verify", "closing"}
    BY DEF PhaseOf
  <2> HIDE DEF label
  <2>3. pc' = [pc EXCEPT ![t] = label] /\ UNCHANGED <<row, log, torn, up, interrupted>>
    BY <1>4 DEF LoadBook, label
  <2>4. ~interrupted => \A a \in log' : a.write.turn # row'.turn
    BY <2>1, <2>3 DEF SavedInv
  <2>5. ~interrupted => TurnIn(wb[t])'
    BY <2>4 DEF TurnIn
  <2> QED BY <1>w, <2>1, <2>2, <2>3, <2>4, <2>5, OneTaskStep
<1>5. ASSUME NEW t \in Tasks, PlanDone(t) PROVE SavedInv'
  <2>1. Working(t) /\ pc[t] = "plan" /\ row'.state = "EXECUTING" /\ row'.turn = row.turn
    BY <1>5, PlanDoneEffect DEF PlanDone
  <2>2. pc' = [pc EXCEPT ![t] = "exec"] /\ UNCHANGED <<log, torn, up, interrupted>>
    BY <1>5 DEF PlanDone
  <2>3. ~interrupted => \A a \in log' : a.write.turn # row'.turn
    BY <2>1, <2>2 DEF SavedInv
  <2>4. ~interrupted => TurnIn(wb[t])'
    BY <2>3 DEF TurnIn
  <2> QED BY <2>1, <2>2, <2>4, OneTaskStep
<1>6. ASSUME NEW t \in Tasks, ExecuteStep(t) PROVE SavedInv'
  <2>1. Working(t) /\ pc[t] = "exec"
    BY <1>6 DEF ExecuteStep, Working
  <2>2. /\ pc' = [pc EXCEPT ![t] = "apply"]
        /\ UNCHANGED <<row, log, wb, txn, torn, up, interrupted>>
    BY <1>6 DEF ExecuteStep
  <2>3. ~interrupted => TurnIn(wb[t])'
    BY <2>1, <2>2 DEF SavedInv, TurnIn
  <2>4. txn'[t] = {}
    BY <2>1, <2>2 DEF WorkerInv, OpenRows
  <2> QED BY <1>w, <2>1, <2>2, <2>3, <2>4, OneTaskStep
<1>7. ASSUME NEW t \in Tasks, ApplyAction(t) PROVE SavedInv'
  <2>1. Working(t) /\ pc[t] = "apply"
    BY <1>7 DEF ApplyAction, Working
  <2>2. PICK blocked \in BOOLEAN :
          /\ txn' = [txn EXCEPT ![t] = @ \cup
               {[write  |-> NextWrite(t),
                 status |-> IF blocked THEN "PENDING_APPROVAL" ELSE "APPLIED"]}]
          /\ wb' = [wb EXCEPT ![t] = IF blocked THEN @ ELSE @ \cup {NextWrite(t)}]
    BY <1>7 DEF ApplyAction
  <2>3. /\ pc' = [pc EXCEPT ![t] = "apply"]
        /\ UNCHANGED <<row, log, torn, up, interrupted>>
    BY <1>7, <1>t, <2>1 DEF ApplyAction
  <2>4. wb[t] \subseteq wb'[t]
    BY <1>t, <2>2
  <2>5. ~interrupted => TurnIn(wb[t])'
    BY <2>1, <2>3, <2>4 DEF SavedInv, TurnIn
  <2>6. \A a \in txn'[t] :
          a \in txn[t] \/ (a.write = NextWrite(t) /\ (a.status = "APPLIED" => ~blocked))
    BY <1>t, <2>2
  <2>7. ~blocked => NextWrite(t) \in wb'[t]
    BY <1>t, <2>2
  <2>8. ~interrupted => (\A a \in txn[t] : a.status = "APPLIED" => a.write \in wb[t])'
    BY <2>1, <2>4, <2>6, <2>7 DEF SavedInv
  <2> QED BY <1>w, <2>1, <2>3, <2>5, <2>8, OneTaskStep
<1>8. ASSUME NEW t \in Tasks, StepCommit(t) PROVE SavedInv'
  <2>1. /\ Working(t) /\ pc[t] = "apply"
        /\ row'.turn = row.turn /\ row'.state = row.state
    BY <1>8, StepCommitEffect DEF StepCommit
  <2>2. /\ pc' = [pc EXCEPT ![t] = "exec"] /\ log' = log \cup txn[t]
        /\ UNCHANGED <<wb, torn, up, interrupted>>
    BY <1>8 DEF StepCommit
  <2>3. ~interrupted => TurnIn(wb[t])'
    BY <2>1, <2>2 DEF SavedInv, TurnIn
  <2> QED BY <1>w, <2>1, <2>2, <2>3, OneTaskStep
<1>9. ASSUME NEW t \in Tasks, EnterVerifying(t) PROVE SavedInv'
  <2>1. Working(t) /\ pc[t] = "exec" /\ row'.turn = row.turn /\ row'.state = "VERIFYING"
    BY <1>9, EnterVerifyingEffect DEF EnterVerifying
  <2>2. /\ pc' = [pc EXCEPT ![t] = "verify"]
        /\ UNCHANGED <<log, wb, torn, up, interrupted>>
    BY <1>9 DEF EnterVerifying
  <2>3. ~interrupted => TurnIn(wb[t])'
    BY <2>1, <2>2 DEF SavedInv, TurnIn
  <2> QED BY <2>1, <2>2, <2>3, OneTaskStep
<1>10. ASSUME NEW t \in Tasks, BeginSave(t) PROVE SavedInv'
  <2>1. Working(t) /\ pc[t] = "verify"
    BY <1>10 DEF BeginSave, Working
  <2>2. pc' = [pc EXCEPT ![t] = "saving"] /\ UNCHANGED <<row, log, wb, up, interrupted>>
    BY <1>10 DEF BeginSave
  <2>3. ~interrupted => TurnIn(wb[t])'
    BY <2>1, <2>2 DEF SavedInv, TurnIn
  <2> QED BY <1>w, <2>1, <2>2, <2>3, OneTaskStep
<1>11. ASSUME NEW t \in Tasks, EndSave(t) PROVE SavedInv'
  <2>1. Working(t) /\ pc[t] = "saving"
    BY <1>11 DEF EndSave, Working
  <2>2. /\ pc' = [pc EXCEPT ![t] = "finish"] /\ file' = wb[t] /\ torn' = FALSE
        /\ UNCHANGED <<row, log, up, interrupted>>
    BY <1>11 DEF EndSave
  <2>3. ~interrupted => TurnIn(file)'
    BY <2>1, <2>2 DEF SavedInv, TurnIn
  <2> QED BY <1>w, <2>1, <2>2, <2>3, OneTaskStep
<1>12. ASSUME NEW t \in Tasks, Finish(t) PROVE SavedInv'
  <2>1. Working(t) /\ pc[t] = "finish" /\ row'.turn = row.turn /\ row'.state = "DONE"
    BY <1>12, FinishEffect DEF Finish
  <2>2. /\ pc' = [pc EXCEPT ![t] = "closing"] /\ path' = "current"
        /\ UNCHANGED <<log, file, torn, up, interrupted>>
    BY <1>12 DEF Finish
  <2>3. ~torn /\ (~interrupted => TurnIn(file)')
    BY <2>1, <2>2 DEF SavedInv, TurnIn
  <2>4. \A u \in Tasks : pc'[u] \in {"free", "closing"}
    BY <1>t, <2>1, <2>2, Alone DEF Working
  <2> QED BY <1>w, <2>1, <2>2, <2>3, <2>4 DEF SavedInv
<1>13. ASSUME NEW t \in Tasks, Raise(t) \/ DbRaise(t) PROVE SavedInv'
  <2>1. Working(t)
    BY <1>13 DEF Raise, DbRaise, Working
  <2>2. pc' = [pc EXCEPT ![t] = "failing"] /\ UNCHANGED <<row, up, interrupted>>
    BY <1>13 DEF Raise, DbRaise
  <2> QED BY <1>w, <2>1, <2>2, OneTaskStep
<1>14. ASSUME NEW t \in Tasks, MarkFailed(t) PROVE SavedInv'
  <2>1. Working(t) /\ (row'.state = "FAILED" \/ row' = row)
    BY <1>14, MarkFailedEffect
  <2>2. pc' = [pc EXCEPT ![t] = "closing"] /\ UNCHANGED <<up, interrupted>>
    BY <1>14 DEF MarkFailed
  <2> QED BY <1>w, <2>1, <2>2, OneTaskStep
<1>15. ASSUME NEW t \in Tasks, Exit(t) PROVE SavedInv'
  <2>1. /\ \A u \in Tasks : pc'[u] = pc[u] \/ pc'[u] = "free"
        /\ UNCHANGED <<row, log, file, path, torn, up, wb, txn, interrupted>>
    BY <1>15, <1>t DEF Exit
  <2> QED BY <2>1 DEF SavedInv, TurnIn
<1>16. CASE Crash
  <2>1. /\ \A u \in Tasks : pc'[u] = "free"
        /\ UNCHANGED <<row, log, file, path, torn>>
        /\ interrupted' = (interrupted \/ row.state \in Running)
    BY <1>16 DEF Crash, Idle
  <2>2. ~interrupted' => ~interrupted
    BY <2>1
  <2>3. row'.state \in Running => interrupted'
    BY <2>1
  <2> QED BY <2>1, <2>2, <2>3 DEF SavedInv, TurnIn
<1>17. CASE Restart
  <2>1. UNCHANGED <<row, log, file, path, torn, wb, txn, interrupted>> /\ up'
    BY <1>17 DEF Restart
  <2>2. row.state \in Running => interrupted
    BY <1>17 DEF Restart, SavedInv
  <2>3. row.state \notin Running => pc' = pc
    BY <1>17 DEF Restart
  <2>4. \A u \in Tasks : pc'[u] \in {"free", "load"}
    BY <1>17, <1>t DEF Restart, Spawn, WorkerInv, DownMeansIdle
  <2> QED BY <2>1, <2>2, <2>3, <2>4 DEF SavedInv, TurnIn
<1>18. CASE UNCHANGED vars
  BY <1>18 DEF SavedInv, TurnIn
<1> QED
  BY <1>1, <1>2, <1>3, <1>4, <1>5, <1>6, <1>7, <1>8, <1>9, <1>10, <1>11, <1>12, <1>13, <1>14, <1>15, <1>16, <1>17, <1>18 DEF Next, Start, TaskStep

\* Under serial starts, what a finished turn's audit rows call applied is in
\* the workbook the session names, unless a crash interrupted the turn.
THEOREM AppliedIsSaved ==
  ASSUME SerialStarts
  PROVE  Spec => []UninterruptedTurnIsSaved
<1>1. SavedInv => UninterruptedTurnIsSaved
  <2> SUFFICES ASSUME SavedInv, row.state = "DONE", ~interrupted
               PROVE  AppliedIn(ThisTurn) \subseteq Book
    BY DEF UninterruptedTurnIsSaved
  <2>1. TurnIn(file) /\ Book = file
    BY DEF SavedInv, Book
  <2> QED BY <2>1 DEF TurnIn, AppliedIn, ThisTurn
<1> QED BY <1>1, SavedInit, SavedStep, TypeInvariant, WorkerInvariant, PhaseInvariant, PTL
        DEF Spec

\* Under serial starts a turn that ends in DONE leaves a complete file, even
\* when a crash cut an earlier save short.
THEOREM DoneFileIsWhole ==
  ASSUME SerialStarts
  PROVE  Spec => []DoneIsReadable
<1>1. SavedInv => DoneIsReadable
  BY DEF SavedInv, DoneIsReadable
<1> QED BY <1>1, SavedInit, SavedStep, TypeInvariant, WorkerInvariant, PhaseInvariant, PTL
        DEF Spec
=============================================================================
