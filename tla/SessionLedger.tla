--------------------------- MODULE SessionLedger ---------------------------
(***************************************************************************)
(* One session's audit ledger and its workbook files: a run of the agents  *)
(* appends rows and saves the workbook at its end, while handlers of       *)
(* approve, reject and undo requests change single cells of the saved file *)
(* and rows of the ledger (api/routes.py, agents/orchestrator.py,          *)
(* audit/undo.py), and replay rebuilds a workbook from the rows            *)
(* (audit/replay.py).                                                      *)
(*                                                                         *)
(* A handler is cut at its awaits; loading a file, applying an action and  *)
(* saving happen without one.  An action writes a single cell; every write *)
(* of a run has a value of its own, so that two writes are never confused. *)
(* A run is the task DurableRun models in full: of it only its reads and   *)
(* writes of the ledger and of the files are kept here, with one action    *)
(* for each of its plan's steps.                                           *)
(***************************************************************************)
EXTENDS Naturals, Sequences

CONSTANTS
  Handlers,     \* approve, reject and undo requests in flight at once
  Cells,        \* cells of the workbook
  UserCells,    \* the ones original.xlsx occupies (OccupancyMap)
  MaxRows,      \* rows of the ledger, a bound
  MaxRequests,  \* handlers started in a behaviour, a bound
  MaxCrashes,   \* times the process is killed, a bound
  StartPaths,   \* what workbook_path may name when the behaviour starts
  RunsFail      \* whether runs may end in FAILED

ASSUME SessionLedgerAssumption ==
  /\ UserCells \subseteq Cells
  /\ MaxRows \in Nat /\ MaxRequests \in Nat /\ MaxCrashes \in Nat
  /\ StartPaths \subseteq {"original", "current"}
  /\ RunsFail \in BOOLEAN

VARIABLES
  rows,      \* committed rows of the actions table, in the order of commits
  current,   \* the cells of current.xlsx
  path,      \* which file sessions.workbook_path names
  run,       \* the background run: its phase, workbook and flushed row
  req,       \* the coroutine of each handler
  writes, requests, crashes,   \* history: how many so far
  late,      \* history: cells an approval wrote to behind a later row
  contested, \* history: cells two handlers worked on at the same time
  crossed,   \* history: cells a handler wrote to while a run had the workbook
  lost       \* history: cells whose rows a failure or a stale path parted
             \* from the file

counters == <<writes, requests, crashes>>
excused  == <<late, contested, crossed, lost>>
vars == <<rows, current, path, run, req, counters, excused>>

-----------------------------------------------------------------------------
\* Value 0 is what a cell held in the original, or blank, workbook.
Values   == 0..MaxRows
NoValue  == MaxRows + 1          \* previous_value is null
NoRow    == 0
Statuses == {"APPLIED", "PENDING_APPROVAL", "REJECTED", "UNDONE"}

ActionRow == [seq : 1..MaxRows, cell : Cells, val : Values,
              prev : Values \cup {NoValue}, status : Statuses,
              inverseOf : 0..MaxRows]

Original == [c \in Cells |-> 0]
FileAt(p) == IF p = "current" THEN current ELSE Original

\* _next_sequence: the highest sequence the reader can see, plus one; rows it
\* flushed itself are among those it sees.
NextSequence(seen) ==
  CHOOSE n \in 1..(MaxRows + 1) :
    /\ \A i \in 1..Len(seen) : seen[i].seq < n
    /\ n = 1 \/ \E i \in 1..Len(seen) : seen[i].seq = n - 1

\* replay_to: apply, in the order of their sequence, the rows whose writes
\* touched the workbook.  A cell ends up with its last row's value; which of the
\* rows with one sequence comes last, the query does not say.
Replayable(row) == row.status \in {"APPLIED", "UNDONE"}
RowsOn(rs, c, n) ==
  {i \in 1..Len(rs) : rs[i].cell = c /\ rs[i].seq <= n /\ Replayable(rs[i])}
Latest(rs, on) == {i \in on : \A j \in on : rs[j].seq <= rs[i].seq}

\* What replay up to n may give for a cell.
ReplayOf(rs, c, n) ==
  LET on == RowsOn(rs, c, n)
  IN  IF on = {} THEN {Original[c]} ELSE {rs[i].val : i \in Latest(rs, on)}

-----------------------------------------------------------------------------
(* The run.                                                                  *)

NoRun   == [pc |-> "off", wb |-> Original, txn |-> <<>>]
Serving == \E h \in Handlers : req[h].pc # "idle"
\* Cells a handler saved and whose row it has not committed.
Uncommitted == {rows[req[h].id].cell : h \in {k \in Handlers : req[k].pc \in {"acted", "numbered"}}}
Room    == Len(rows) + Len(run.txn) < MaxRows

RunStart ==
  /\ run.pc = "off"
  /\ Room
  /\ run' = [pc |-> "open", wb |-> FileAt(path), txn |-> <<>>]
  /\ crossed' = crossed \cup Uncommitted
  /\ UNCHANGED <<rows, current, path, req, counters, late, contested, lost>>

\* Mutant: the snapshot is taken after the action was applied.
RunWrite_LateSnapshot(c) ==
  /\ run.pc = "open" /\ run.txn = <<>> /\ Room /\ writes < MaxRows
  /\ LET blocked == c \in UserCells IN
     run' = [run EXCEPT
       !.wb[c] = IF blocked THEN @ ELSE writes + 1,
       !.txn = <<[seq |-> NextSequence(rows), cell |-> c, val |-> writes + 1,
                  prev |-> IF blocked THEN NoValue ELSE writes + 1,
                  status |-> IF blocked THEN "PENDING_APPROVAL" ELSE "APPLIED",
                  inverseOf |-> NoRow]>>]
  /\ writes' = writes + 1
  /\ UNCHANGED <<rows, current, path, req, requests, crashes, excused>>

\* Mutant: a blocked action is applied before it is staged.
RunWrite_AppliesBlocked(c) ==
  /\ run.pc = "open" /\ run.txn = <<>> /\ Room /\ writes < MaxRows
  /\ LET blocked == c \in UserCells IN
     run' = [run EXCEPT
       !.wb[c] = writes + 1,
       !.txn = <<[seq |-> NextSequence(rows), cell |-> c, val |-> writes + 1,
                  prev |-> IF blocked THEN NoValue ELSE run.wb[c],
                  status |-> IF blocked THEN "PENDING_APPROVAL" ELSE "APPLIED",
                  inverseOf |-> NoRow]>>]
  /\ writes' = writes + 1
  /\ UNCHANGED <<rows, current, path, req, requests, crashes, excused>>

\* A step's action: blocked by the occupancy map and staged, or applied to the
\* workbook in memory; its row is flushed.
RunWrite(c) ==
  /\ run.pc = "open"
  /\ run.txn = <<>>
  /\ Room /\ writes < MaxRows
  /\ LET blocked == c \in UserCells IN
     run' = [run EXCEPT
       !.wb[c] = IF blocked THEN @ ELSE writes + 1,
       !.txn = <<[seq |-> NextSequence(rows), cell |-> c, val |-> writes + 1,
                  prev |-> IF blocked THEN NoValue ELSE run.wb[c],
                  status |-> IF blocked THEN "PENDING_APPROVAL" ELSE "APPLIED",
                  inverseOf |-> NoRow]>>]
  /\ writes' = writes + 1
  /\ UNCHANGED <<rows, current, path, req, requests, crashes, excused>>

RunCommit ==
  /\ run.pc = "open"
  /\ run.txn # <<>>
  /\ rows' = rows \o run.txn
  /\ run' = [run EXCEPT !.txn = <<>>]
  /\ UNCHANGED <<current, path, req, counters, excused>>

\* After the last step: the whole workbook replaces current.xlsx.
RunSave ==
  /\ run.pc = "open"
  /\ run.txn = <<>>
  /\ current' = run.wb
  /\ run' = [run EXCEPT !.pc = "saved"]
  /\ UNCHANGED <<rows, path, req, counters, excused>>

RunFinish ==
  /\ run.pc = "saved"
  /\ path' = "current"
  /\ run' = NoRun
  /\ UNCHANGED <<rows, current, req, counters, excused>>

\* What the session's workbook does not have of an unfinished run's.
Unsaved == {c \in Cells : run.pc # "off" /\ run.wb[c] # FileAt(path)[c]}

\* _mark_failed commits the rows flushed so far, and nothing is saved.
RunFail ==
  /\ RunsFail
  /\ run.pc = "open"
  /\ rows' = rows \o run.txn
  /\ run' = NoRun
  /\ lost' = lost \cup Unsaved
  /\ UNCHANGED <<current, path, req, counters, late, contested, crossed>>

-----------------------------------------------------------------------------
(* Handlers.  The session row is loaded first, then the action row, and both *)
(* are trusted from then on: no lock, no version, no second look.            *)

Ops == {"approve", "reject", "undo"}
NoRequest == [pc |-> "idle", op |-> "approve", id |-> NoRow, src |-> "current",
              back |-> NoValue, prev |-> NoValue, seq |-> 0]

Answer(h) == req' = [req EXCEPT ![h] = NoRequest]

Open(h, op, i) ==
  /\ req[h].pc = "idle"
  /\ requests < MaxRequests
  /\ i \in 1..Len(rows)
  /\ req' = [req EXCEPT ![h] = [NoRequest EXCEPT
               !.pc = "opened", !.op = op, !.id = i, !.src = path]]
  /\ requests' = requests + 1
  /\ UNCHANGED <<rows, current, path, run, writes, crashes, excused>>

\* Mutant: only rows that were applied are refused.
Allowed_NotApplied(op, status) == (op = "undo") = (status = "APPLIED")

Allowed(op, status) == status = IF op = "undo" THEN "APPLIED" ELSE "PENDING_APPROVAL"

\* Some handler read a row of the cell and has not committed.
Meets(c) == \E h \in Handlers : req[h].pc \in {"checked", "acted", "numbered"}
                                  /\ rows[req[h].id].cell = c

\* The action row arrives; a wrong status is answered with a 409.
Read(h) ==
  /\ req[h].pc = "opened"
  /\ LET row == rows[req[h].id] IN
     IF Allowed(req[h].op, row.status)
     THEN /\ req' = [req EXCEPT ![h].pc = "checked", ![h].back = row.prev]
          /\ contested' = contested \cup IF Meets(row.cell) THEN {row.cell} ELSE {}
     ELSE Answer(h) /\ UNCHANGED contested
  /\ UNCHANGED <<rows, current, path, run, counters, late, crossed, lost>>

\* What the request writes into the cell: the staged value, or the one undo
\* finds in the row's snapshot (_build_inverse).
Written(h) == IF req[h].op = "undo" THEN req[h].back ELSE rows[req[h].id].val

\* Mutant: the workbook is loaded from the upload, whatever the path says.
Act_FromOriginal(h) ==
  /\ req[h].pc = "checked" /\ req[h].op # "reject"
  /\ LET cell == rows[req[h].id].cell IN
     /\ current' = [Original EXCEPT ![cell] = Written(h)]
     /\ req' = [req EXCEPT ![h].pc = "acted", ![h].prev = Original[cell]]
  /\ UNCHANGED <<rows, path, run, counters, excused>>

\* approve and undo: load the file the session row named, apply, save as
\* current.xlsx, before anything is committed.
Act(h) ==
  /\ req[h].pc = "checked"
  /\ req[h].op # "reject"
  /\ LET book == FileAt(req[h].src)
         cell == rows[req[h].id].cell
     IN  /\ current' = [book EXCEPT ![cell] = Written(h)]
         /\ req' = [req EXCEPT ![h].pc = "acted", ![h].prev = book[cell]]
         /\ lost' = lost \cup IF req[h].src = "current" THEN {}
                              ELSE {c \in Cells : current[c] # book[c]}
         /\ crossed' = crossed \cup IF run.pc = "off" THEN {} ELSE {cell}
  /\ UNCHANGED <<rows, path, run, counters, late, contested>>

\* Mutant: the flip of the original commits before the inverse is numbered.
Number_FlipsFirst(h) ==
  /\ req[h].pc = "acted" /\ req[h].op = "undo" /\ Room
  /\ req' = [req EXCEPT ![h].pc = "numbered", ![h].seq = NextSequence(rows)]
  /\ rows' = [rows EXCEPT ![req[h].id].status = "UNDONE"]
  /\ UNCHANGED <<current, path, run, counters, excused>>

\* undo: audit.record asks for the next sequence before it inserts.
Number(h) ==
  /\ req[h].pc = "acted"
  /\ req[h].op = "undo"
  /\ Room
  /\ req' = [req EXCEPT ![h].pc = "numbered", ![h].seq = NextSequence(rows)]
  /\ UNCHANGED <<rows, current, path, run, counters, excused>>

\* An approved row that a replayable row of a higher sequence stands before.
Late(i) == \E j \in 1..Len(rows) :
             Replayable(rows[j]) /\ rows[j].cell = rows[i].cell /\ rows[j].seq > rows[i].seq

CommitApprove(h) ==
  /\ req[h].pc = "acted"
  /\ req[h].op = "approve"
  /\ LET i == req[h].id IN
     /\ rows' = [rows EXCEPT ![i].status = "APPLIED", ![i].prev = req[h].prev]
     /\ late' = late \cup IF Late(i) THEN {rows[i].cell} ELSE {}
  /\ path' = "current"
  /\ Answer(h)
  /\ UNCHANGED <<current, run, counters, contested, crossed, lost>>

CommitReject(h) ==
  /\ req[h].pc = "checked"
  /\ req[h].op = "reject"
  /\ rows' = [rows EXCEPT ![req[h].id].status = "REJECTED"]
  /\ Answer(h)
  /\ UNCHANGED <<current, path, run, counters, excused>>

\* The inverse row and the flip of the original commit together.
CommitUndo(h) ==
  /\ req[h].pc = "numbered"
  /\ Room
  /\ LET i == req[h].id IN
     rows' = Append([rows EXCEPT ![i].status = "UNDONE"],
                    [seq |-> req[h].seq, cell |-> rows[i].cell, val |-> Written(h),
                     prev |-> req[h].prev, status |-> "APPLIED", inverseOf |-> i])
  /\ path' = "current"
  /\ Answer(h)
  /\ UNCHANGED <<current, run, counters, excused>>

-----------------------------------------------------------------------------
\* The process dies, and every handler and the run with it.  (A run is taken
\* up again by the startup scan: here, as a new one.)
Crash ==
  /\ crashes < MaxCrashes
  /\ crashes' = crashes + 1
  /\ run' = NoRun
  /\ req' = [h \in Handlers |-> NoRequest]
  /\ lost' = lost \cup Unsaved \cup Uncommitted
  /\ UNCHANGED <<rows, current, path, writes, requests, late, contested, crossed>>

Init ==
  /\ rows = <<>>
  /\ current = Original
  /\ path \in StartPaths
  /\ run = NoRun
  /\ req = [h \in Handlers |-> NoRequest]
  /\ writes = 0 /\ requests = 0 /\ crashes = 0
  /\ late = {} /\ contested = {} /\ crossed = {} /\ lost = {}

Run == RunStart \/ (\E c \in Cells : RunWrite(c)) \/ RunCommit \/ RunSave
         \/ RunFinish \/ RunFail

Serve(h) ==
  \/ \E op \in Ops, i \in 1..MaxRows : Open(h, op, i)
  \/ Read(h) \/ Act(h) \/ Number(h)
  \/ CommitApprove(h) \/ CommitReject(h) \/ CommitUndo(h)

Next == Run \/ (\E h \in Handlers : Serve(h)) \/ Crash

Spec == Init /\ [][Next]_vars

-----------------------------------------------------------------------------
Quiet == run.pc = "off" /\ ~Serving

\* Cells of which only requests and runs that kept out of each other's way say
\* anything, in the order of their sequence.
InOrder == Cells \ (late \cup contested \cup crossed \cup lost)

\* With nobody at work, replaying the whole ledger gives the live workbook in
\* every cell that was not approved behind a later write, that no two requests
\* or a request and a run wrote to at once, and of which no failed run, crash or
\* stale path lost a write: staged, rejected and undone rows, undone undos,
\* requests for other cells during a run, and failures elsewhere do not come
\* between the two (replay.py; undo.py, "Replay skips nothing").
OnTimeReplayMatchesLive ==
  Quiet => \A c \in InOrder : ReplayOf(rows, c, MaxRows) = {FileAt(path)[c]}

\* Undoing a write to such a cell, the last one or an earlier one, puts back what
\* replay shows the cell held just before the undone row (undo.py, _build_inverse).
UndoRestoresThePast ==
  \A j \in 1..Len(rows) :
    LET i == rows[j].inverseOf
    IN  i # NoRow /\ rows[j].cell \in InOrder
        => ReplayOf(rows, rows[j].cell, rows[i].seq - 1) = {rows[j].val}

\* A row is decided once: what was staged is applied or rejected, what was
\* applied may be undone, and a rejected or undone row stays so (models.py,
\* ActionStatus; docs/decisions/0002) - unless two requests worked on the
\* same cell, since none of them looks at the row again before it commits.
Lifecycle == {<<"PENDING_APPROVAL", "APPLIED">>, <<"PENDING_APPROVAL", "REJECTED">>,
              <<"APPLIED", "UNDONE">>}
DecidedOnce ==
  [][\A i \in 1..Len(rows) :
       \/ rows'[i].status = rows[i].status
       \/ <<rows[i].status, rows'[i].status>> \in Lifecycle
       \/ rows[i].cell \in contested]_vars

\* Between requests what awaits approval is not in the workbook, whatever runs
\* fail and requests race for other cells, unless a crash cut its own approval
\* in two (models.py: "the workbook was NOT modified").
StagedStaysOut ==
  Quiet => \A i \in 1..Len(rows) :
    rows[i].status = "PENDING_APPROVAL" /\ rows[i].cell \notin contested \cup lost
      => FileAt(path)[rows[i].cell] # rows[i].val

\* Whatever crashes, races or fails, replay comes to an inverse of an undone
\* row after the row itself, so that it never ends with an undone value
\* (undo.py: "the inverse's effect follows later in the sequence").
UndoneIsReversed ==
  \A i \in 1..Len(rows) :
    rows[i].status = "UNDONE" =>
      \E j \in 1..Len(rows) :
        rows[j].inverseOf = i /\ rows[i].seq < rows[j].seq /\ Replayable(rows[j])

-----------------------------------------------------------------------------
(* What the documents say without the excuses.                               *)

\* "APPLIED: the write hit the workbook and the audit row is authoritative": also
\* for a request that was answered while a run had the workbook in memory.
AppliedStaysInTheFile ==
  Quiet => \A c \in InOrder \cup (crossed \ (late \cup contested \cup lost)) :
             ReplayOf(rows, c, MaxRows) = {FileAt(path)[c]}

\* Replay gives "what the live session would observe": also where what was staged
\* first is approved last.
ReplayIsWhatIsObserved ==
  Quiet => \A c \in InOrder \cup (late \ (crossed \cup contested \cup lost)) :
             ReplayOf(rows, c, MaxRows) = {FileAt(path)[c]}

\* "PENDING_APPROVAL: the workbook was NOT modified": also by an approval that a
\* crash ended.
PendingIsNotInTheFile ==
  Quiet => \A i \in 1..Len(rows) :
    rows[i].status = "PENDING_APPROVAL" => FileAt(path)[rows[i].cell] # rows[i].val

\* "rejected and undone are terminal - once set, they are never revisited": also
\* by a request that had read the row before.
TerminalIsNeverRevisited ==
  [][\A i \in 1..Len(rows) :
       rows[i].status \in {"REJECTED", "UNDONE"} => rows'[i].status = rows[i].status]_vars
=============================================================================
