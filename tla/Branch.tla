------------------------------- MODULE Branch -------------------------------
(***************************************************************************)
(* Forking a session (audit/branch.py) while its ledger is at work.        *)
(*                                                                         *)
(* fork_at reads the parent twice: first its replayable rows, from which   *)
(* the child's workbook is rebuilt and saved, then, after an await, all    *)
(* rows up to the fork, which are copied with the status they have by      *)
(* then.  SessionLedger supplies the requests and the runs that commit     *)
(* in between.  The child is looked at as the fork leaves it: from then on *)
(* it is a session of its own.                                             *)
(***************************************************************************)
EXTENDS SessionLedger, FiniteSets

VARIABLES
  fork,   \* the coroutine of fork_at; moved is history: cells of the parent's
          \* rows that changed between its two reads
  child   \* the forked session: its rows and its workbook

branchVars == <<vars, fork, child>>

NoFork  == [pc |-> "off", at |-> 0, moved |-> {}]
NoChild == [rows |-> <<>>, file |-> Original]

-----------------------------------------------------------------------------
\* replay_to the fork, and save what it gives as the child's current.xlsx.
ForkReplay(n) ==
  /\ fork.pc = "off"
  /\ fork' = [pc |-> "replayed", at |-> n, moved |-> {}]
  /\ \E file \in [Cells -> UNION {ReplayOf(rows, c, n) : c \in Cells}] :
       /\ \A c \in Cells : file[c] \in ReplayOf(rows, c, n)
       /\ child' = [NoChild EXCEPT !.file = file]
  /\ UNCHANGED vars

\* The rows up to the fork, and the orders the second query may give rows in: by
\* sequence, the ones with one sequence in any order.
Copied == {i \in 1..Len(rows) : rows[i].seq <= fork.at}
Orders(ids) ==
  {order \in [1..Cardinality(ids) -> ids] :
     /\ \A i \in ids : \E k \in DOMAIN order : order[k] = i
     /\ \A k, l \in DOMAIN order :
          k < l => order[k] # order[l] /\ rows[order[k]].seq <= rows[order[l]].seq}

\* Mutant: the link is copied as it is, and names a row the child does not have.
Copy_KeepsLink(order, k) ==
  [rows[order[k]] EXCEPT !.seq = k, !.inverseOf = IF @ = NoRow THEN NoRow ELSE MaxRows + @]

\* A copied row: sequences restart from 1, and the row an inverse undoes is the
\* child's copy of it if it was copied before.
Copy(order, k) ==
  LET copies == {l \in 1..(k - 1) : order[l] = rows[order[k]].inverseOf}
  IN  [rows[order[k]] EXCEPT
         !.seq       = k,
         !.inverseOf = IF copies = {} THEN NoRow ELSE CHOOSE l \in copies : TRUE]

\* Mutant: undone rows are taken for rows without effect.
ForkCopy_SkipsUndone ==
  /\ fork.pc = "replayed"
  /\ \E order \in Orders({i \in Copied : rows[i].status # "UNDONE"}) :
       child' = [child EXCEPT !.rows = [k \in DOMAIN order |-> Copy(order, k)]]
  /\ fork' = [fork EXCEPT !.pc = "done"]
  /\ UNCHANGED vars

ForkCopy ==
  /\ fork.pc = "replayed"
  /\ \E order \in Orders(Copied) :
       child' = [child EXCEPT !.rows = [k \in DOMAIN order |-> Copy(order, k)]]
  /\ fork' = [fork EXCEPT !.pc = "done"]
  /\ UNCHANGED vars

\* What the parent's runs and requests do before and between the two reads; what
\* they do after the fork is SessionLedger's alone.
Decided == {rows'[i].cell : i \in {k \in DOMAIN rows' :
                                     k > Len(rows) \/ rows'[k] # rows[k]}}
ParentWorks ==
  /\ fork.pc # "done"
  /\ Run \/ \E h \in Handlers : Serve(h)
  /\ fork' = IF fork.pc = "replayed" THEN [fork EXCEPT !.moved = @ \cup Decided] ELSE fork
  /\ UNCHANGED child

\* Nothing of an unfinished fork was committed; its workbook is an orphan.
ForkCrash ==
  /\ fork.pc # "done"
  /\ Crash
  /\ fork' = NoFork
  /\ child' = NoChild

BranchInit == Init /\ fork = NoFork /\ child = NoChild

BranchNext ==
  \/ \E n \in 0..MaxRows : ForkReplay(n)
  \/ ForkCopy \/ ParentWorks \/ ForkCrash

BranchSpec == BranchInit /\ [][BranchNext]_branchVars

-----------------------------------------------------------------------------
Forked     == fork.pc = "done"
ChildRows  == DOMAIN child.rows

\* Two rows of the cell have the last sequence up to the fork: which of them the
\* rebuilt workbook shows, and which is copied last, are two queries' choices.
Tied(c) == \E i, j \in Latest(rows, RowsOn(rows, c, fork.at)) : i # j

\* The child's workbook is what the child's own ledger replays to, in every cell
\* none of whose rows changed between the two reads and whose last row has its
\* sequence to itself: renumbering, rows of other cells with one sequence, staged
\* and undone rows, late approvals and inverses beyond the fork do not part the
\* two (branch.py, "whose initial state is the parent's state").
ChildMatchesItsLedger ==
  Forked => \A c \in Cells \ fork.moved :
              ~Tied(c) => ReplayOf(child.rows, c, Len(child.rows)) = {child.file[c]}

\* An inverse in the child points at an earlier row of the child with its cell;
\* where requests did not work on the cell at once, this row is undone and has no
\* other inverse (branch.py: "so the within-branch chain stays intact").
ChildLinksHold ==
  Forked => \A j \in ChildRows :
    LET i == child.rows[j].inverseOf
    IN  i # NoRow =>
          /\ i \in ChildRows /\ i < j /\ child.rows[i].cell = child.rows[j].cell
          /\ child.rows[j].cell \notin contested =>
               /\ child.rows[i].status = "UNDONE"
               /\ \A k \in ChildRows \ {j} : child.rows[k].inverseOf # i
=============================================================================
