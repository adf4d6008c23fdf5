----------------------------- MODULE SheetTurn -----------------------------
(***************************************************************************)
(* One session's workbook in the detail the approval gate needs: what the  *)
(* actions of the agents write (spreadsheet/workbook.py), which of them    *)
(* the occupancy map lets through (spreadsheet/occupancy.py), the turn of  *)
(* the synchronous orchestrator with its verifier (agents/orchestrator.py, *)
(* agents/verifier.py), and approve, reject and undo between turns, one at *)
(* a time: their interleavings are SessionLedger's.                        *)
(*                                                                         *)
(* The workbook is one row of cells of one sheet, so that every cell has a *)
(* column of its own.  A text is never kept: the target of an action is    *)
(* the set of cells it means and the form in which the model spelled it.   *)
(***************************************************************************)
EXTENDS Naturals, Sequences, FiniteSets

CONSTANTS
  Cells,      \* positions in the row, the columns' numbers
  Hub,        \* the cell the one formula of the model refers to
  Actions,    \* what the executor may emit
  Originals,  \* workbooks a session may start from
  MaxRows,    \* rows of the ledger, a bound
  MaxTurns    \* turns of a behaviour, a bound

-----------------------------------------------------------------------------
\* Workbooks and actions.  "=sum" is a formula over Hub.  A font is tinted
\* when it carries an attribute that format_cell cannot name, as a colour.
Values  == {"empty", "number", "text", "=sum"}
Numbers == {"general", "money"}
Fonts   == {"plain", "bold", "tinted"}
Widths  == {"normal", "wide"}
Content == [value : Values, number : Numbers, font : Fonts, width : Widths,
            merged : {"no", "anchor", "spanned"}]
Workbook == [Cells -> Content]

Keep == "keep"   \* None in an optional field of format_cell
Action == [kind : {"write", "format", "width"}, form : {"plain", "spelled", "range"},
           cells : SUBSET Cells, value : Values, number : Numbers \cup {Keep},
           bold : {"yes", "no", Keep}, width : Widths]

\* A spelled target is another spelling of one cell's address, as $B$2 or b2.
ASSUME SheetTurnAssumption ==
  /\ IsFiniteSet(Cells) /\ Cells \subseteq Nat /\ Hub \in Cells
  /\ Actions \subseteq Action
  /\ \A a \in Actions : a.form # "range" => \E c \in Cells : a.cells = {c}
  /\ Originals \subseteq Workbook
  /\ MaxRows \in Nat /\ MaxTurns \in Nat

VARIABLES
  original,   \* original.xlsx
  file,       \* the workbook sessions.workbook_path names
  phase,      \* of the orchestrator's run
  book,       \* the run's workbook, in memory
  rows,       \* the actions table; the index is the sequence number
  committed,  \* rows beyond it are flushed by the run and not committed
  base,       \* rows there were when the run began
  turns,      \* history: turns begun
  forecast    \* history: what the last finished turn's report foresaw

vars == <<original, file, phase, book, rows, committed, base, turns, forecast>>

-----------------------------------------------------------------------------
\* Workbook.apply.  _write sets values, and a spanned cell of a merge does not
\* take one; _format sets what the action names, and a font it sets is a new
\* one; set_column_width sets a width.
Applicable(w, a) == a.kind = "write" => \A c \in a.cells : w[c].merged # "spanned"

Font(old, bold) == IF bold = Keep THEN old ELSE IF bold = "yes" THEN "bold" ELSE "plain"

Changed(x, a) ==
  [value  |-> IF a.kind = "write" THEN a.value ELSE x.value,
   number |-> IF a.kind = "format" /\ a.number # Keep THEN a.number ELSE x.number,
   font   |-> IF a.kind = "format" THEN Font(x.font, a.bold) ELSE x.font,
   width  |-> IF a.kind = "width" THEN a.width ELSE x.width,
   merged |-> x.merged]

Apply(w, a) == [c \in Cells |-> IF c \in a.cells THEN Changed(w[c], a) ELSE w[c]]

\* previous_value: the contents the action is about to change, by coordinate.
Snapshot(w, a) == [c \in a.cells |-> w[c]]
NoSnapshot     == [c \in {} |-> Hub]

\* Mutant: a range is looked up by its first cell.
ActionCells_Corner(a) ==
  IF a.kind = "width" \/ a.form = "spelled" THEN {} ELSE {c \in a.cells : \A d \in a.cells : c <= d}

\* OccupancyMap: a cell is the user's when it had a value, a style or a part
\* in a merge; the cells of an action are matched as the target spells them.
Occupied(x) == x.value # "empty" \/ x.number # "general" \/ x.font # "plain" \/ x.merged # "no"
UserCells   == {c \in Cells : Occupied(original[c])}

ActionCells(a) == IF a.kind = "width" \/ a.form = "spelled" THEN {} ELSE a.cells
Blocked(a)     == ActionCells(a) \cap UserCells # {}

\* Levels 2 to 4 of the verifier: the formula refers to itself, or adds a text.
Faulty(w) == {c \in Cells : /\ w[c].value = "=sum"
                            /\ w[Hub].value \in {"text", "=sum"}}

\* Mutant: the newest goes first.
After_Reversed(w, js) ==
  LET done[n \in 1..(Len(rows) + 1)] ==
        IF n = Len(rows) + 1 THEN w
        ELSE IF n \in js THEN Apply(done[n + 1], rows[n].action) ELSE done[n + 1]
  IN  done[1]

\* The workbook once the given rows, in their order, are approved.
After(w, js) ==
  LET done[n \in 0..Len(rows)] ==
        IF n = 0 THEN w
        ELSE IF n \in js THEN Apply(done[n - 1], rows[n].action) ELSE done[n - 1]
  IN  done[Len(rows)]

-----------------------------------------------------------------------------
Statuses == {"APPLIED", "PENDING_APPROVAL", "REJECTED", "UNDONE"}

\* was and left are history: the cells before and after the action was applied.
Row(a, status, force, prev, left) ==
  [action |-> a, status |-> status, force |-> force, prev |-> prev,
   noted |-> {}, was |-> prev, left |-> left]

Room        == Len(rows) < MaxRows
ThisTurn    == (base + 1)..Len(rows)
Pending(js) == {j \in js : rows[j].status = "PENDING_APPROVAL"}
Clone       == After(book, Pending(ThisTurn))

NoForecast == [rows |-> {}, faulty |-> {}, holds |-> FALSE]

-----------------------------------------------------------------------------
\* The run of the agents.

StartTurn ==
  /\ phase = "idle" /\ turns < MaxTurns
  /\ phase' = "executing" /\ book' = file /\ base' = Len(rows)
  /\ turns' = turns + 1
  /\ forecast' = NoForecast
  /\ UNCHANGED <<original, file, rows, committed>>

\* An emitted action that hits a user's cell is staged for approval.
Stage(a) ==
  /\ phase = "executing" /\ Room
  /\ Blocked(a)
  /\ rows' = Append(rows, Row(a, "PENDING_APPROVAL", FALSE, NoSnapshot, NoSnapshot))
  /\ UNCHANGED <<original, file, phase, book, committed, base, turns, forecast>>

\* Any other is applied to the run's workbook and recorded.
Perform(a) ==
  /\ phase = "executing" /\ Room
  /\ ~Blocked(a) /\ Applicable(book, a)
  /\ book' = Apply(book, a)
  /\ rows' = Append(rows, Row(a, "APPLIED", FALSE, Snapshot(book, a), Snapshot(book', a)))
  /\ UNCHANGED <<original, file, phase, committed, base, turns, forecast>>

CommitStep ==
  /\ phase = "executing" /\ committed < Len(rows)
  /\ committed' = Len(rows)
  /\ UNCHANGED <<original, file, phase, book, rows, base, turns, forecast>>

\* Mutant: the finding's cell is compared with the action's target.
Blamed_SingleCells(c) ==
  LET touching == {j \in Pending(ThisTurn) : {c} = ActionCells(rows[j].action)}
  IN  {j \in touching : \A k \in touching : j <= k}

\* attribute_to_actions: a finding goes to the first pending action of the turn
\* whose cells hold it.
Blamed(c) ==
  LET touching == {j \in Pending(ThisTurn) : c \in ActionCells(rows[j].action)}
  IN  {j \in touching : \A k \in touching : j <= k}

\* The deterministic levels look at the clone; only when they find nothing the
\* model is asked, and may blame any cell.  A pending action that cannot be
\* applied raises here, and the turn fails.
Verify ==
  /\ phase = "executing" /\ committed = Len(rows)
  /\ \A j \in Pending(ThisTurn) : Applicable(book, rows[j].action)
  /\ \E semantic \in {{}} \cup {{c} : c \in Cells} :
       LET findings == IF Faulty(Clone) # {} THEN Faulty(Clone) ELSE semantic
       IN  rows' = [j \in 1..Len(rows) |->
                      [rows[j] EXCEPT !.noted = @ \cup {c \in findings : j \in Blamed(c)}]]
  /\ phase' = "verified"
  /\ UNCHANGED <<original, file, book, committed, base, turns, forecast>>

SaveTurn ==
  /\ phase = "verified"
  /\ phase' = "idle" /\ file' = book /\ book' = original
  /\ forecast' = [rows |-> Pending(ThisTurn), faulty |-> Faulty(Clone), holds |-> TRUE]
  /\ UNCHANGED <<original, rows, committed, base, turns>>

\* Mutant: the flushed rows are committed.
TurnFails_KeepsFlushed ==
  /\ phase # "idle"
  /\ phase' = "idle" /\ book' = original
  /\ UNCHANGED <<original, file, rows, committed, base, turns, forecast>>

\* An agent or an action raises, or the process stops: the flushed rows go, the
\* committed ones stay, and the workbook is not saved.
TurnFails ==
  /\ phase # "idle"
  /\ phase' = "idle" /\ book' = original
  /\ rows' = SubSeq(rows, 1, committed)
  /\ UNCHANGED <<original, file, committed, base, turns, forecast>>

-----------------------------------------------------------------------------
\* Requests between turns.

\* The forecast stands while approvals keep to the turn's rows, and to their
\* order where they overlap.
InOrder(i) ==
  /\ i \in forecast.rows
  /\ \A j \in Pending(forecast.rows) :
       j < i => rows[j].action.cells \cap rows[i].action.cells = {}

Approve(i) ==
  LET a == rows[i].action
  IN  /\ phase = "idle"
      /\ rows[i].status = "PENDING_APPROVAL" /\ Applicable(file, a)
      /\ file' = Apply(file, a)
      /\ rows' = [rows EXCEPT ![i] = [Row(a, "APPLIED", TRUE, Snapshot(file, a), Snapshot(file', a))
                                        EXCEPT !.noted = rows[i].noted]]
      /\ forecast' = IF InOrder(i) THEN forecast ELSE NoForecast
      /\ UNCHANGED <<original, phase, book, committed, base, turns>>

Reject(i) ==
  /\ phase = "idle"
  /\ rows[i].status = "PENDING_APPROVAL"
  /\ rows' = [rows EXCEPT ![i].status = "REJECTED"]
  /\ forecast' = NoForecast
  /\ UNCHANGED <<original, file, phase, book, committed, base, turns>>

\* Mutant: the font is not put back.
Inverse_ForgetsFont(row) ==
  LET a   == row.action
      old == row.prev[CHOOSE c \in a.cells : TRUE]
  IN  [a EXCEPT !.value  = IF a.kind = "write" THEN old.value ELSE "empty",
                !.number = IF a.kind = "format" THEN old.number ELSE Keep,
                !.bold   = Keep,
                !.width  = IF a.kind = "width" THEN old.width ELSE a.width]

\* _build_inverse of an action on a single cell.  The snapshot is keyed by the
\* cell's coordinate and looked up by the target: another spelling finds nothing,
\* which for a value reads as empty and for a format as nothing to set.  The
\* width is not keyed.
Inverse(row) ==
  LET a     == row.action
      old   == row.prev[CHOOSE c \in a.cells : TRUE]
      found == a.form = "plain"
  IN  [kind   |-> a.kind, form |-> a.form, cells |-> a.cells,
       value  |-> IF a.kind = "write" /\ found THEN old.value ELSE "empty",
       number |-> IF a.kind = "format" /\ found THEN old.number ELSE Keep,
       bold   |-> IF a.kind = "format" /\ found
                  THEN IF old.font = "bold" THEN "yes" ELSE "no" ELSE Keep,
       width  |-> IF a.kind = "width" THEN old.width ELSE a.width]

Undo(i) ==
  LET a == Inverse(rows[i])
  IN  /\ phase = "idle" /\ Room
      /\ rows[i].status = "APPLIED" /\ rows[i].action.form # "range"
      /\ Applicable(file, a)
      /\ file' = Apply(file, a)
      /\ rows' = Append([rows EXCEPT ![i].status = "UNDONE"],
                        Row(a, "APPLIED", FALSE, Snapshot(file, a), Snapshot(file', a)))
      /\ committed' = committed + 1
      /\ forecast' = NoForecast
      /\ UNCHANGED <<original, phase, book, base, turns>>

-----------------------------------------------------------------------------
Init ==
  /\ original \in Originals
  /\ file = original /\ book = original
  /\ phase = "idle" /\ rows = <<>> /\ committed = 0 /\ base = 0 /\ turns = 0
  /\ forecast = NoForecast

Next ==
  \/ StartTurn \/ CommitStep \/ Verify \/ SaveTurn \/ TurnFails
  \/ \E a \in Actions : Stage(a) \/ Perform(a)
  \/ \E i \in 1..Len(rows) : Approve(i) \/ Reject(i) \/ Undo(i)

Spec == Init /\ [][Next]_vars

-----------------------------------------------------------------------------
IsSnapshot(p) == \E s \in SUBSET Cells : p \in [s -> Content]
IsRow(r) ==
  /\ r.action \in Action /\ r.status \in Statuses /\ r.force \in BOOLEAN
  /\ r.noted \subseteq Cells
  /\ IsSnapshot(r.prev) /\ IsSnapshot(r.was) /\ IsSnapshot(r.left)

\* Every variable has its type, and the rows of an interrupted step are in the
\* table only as long as the run that flushed them is on.
TypeOK ==
  /\ original \in Originals /\ file \in Workbook /\ book \in Workbook
  /\ phase \in {"idle", "executing", "verified"}
  /\ Len(rows) <= MaxRows /\ \A i \in 1..Len(rows) : IsRow(rows[i])
  /\ committed \in 0..Len(rows) /\ base \in 0..committed
  /\ phase # "executing" => committed = Len(rows)
  /\ turns \in 0..MaxTurns
  /\ forecast \in [rows : SUBSET (1..MaxRows), faulty : SUBSET Cells, holds : BOOLEAN]

SameButWidth(x, y) == x.value = y.value /\ x.number = y.number /\ x.font = y.font

\* A user's cell differs from the upload, in the saved workbook or in a run's,
\* only where a row was approved that means this cell: nothing else that agents,
\* verifier, failed turns or undo do reaches a value or a style of the user's.
UserCellsNeedApproval ==
  \A c \in UserCells, w \in {file, book} :
    ~SameButWidth(w[c], original[c])
      => \E i \in 1..Len(rows) : rows[i].force /\ c \in rows[i].action.cells

\* What the deterministic levels find in a cell that a withheld action would
\* change is noted on a withheld action that would write this cell.
FindingsReachTheirActions ==
  phase = "verified" =>
    \A c \in Faulty(Clone) :
      Clone[c].value # book[c].value =>
        \E j \in Pending(ThisTurn) : c \in rows[j].noted /\ c \in rows[j].action.cells

\* The report foresees the approvals: however many of the turn's withheld actions
\* were approved since, in their order or one that keeps it where they overlap,
\* approving the rest leads to the faults that were reported, and no other.
ReportForetells ==
  (phase = "idle" /\ forecast.holds) =>
    Faulty(After(file, Pending(forecast.rows))) = forecast.faulty

Untinted(x) == [x EXCEPT !.font = IF @ = "bold" THEN "bold" ELSE "plain"]
UndoneNow(i) == i \in DOMAIN rows' /\ rows[i].status = "APPLIED" /\ rows'[i].status = "UNDONE"

\* Undoing an action that wrote last to its cell gives the cell back as it was,
\* but for what no field of format_cell can express.
UndoRestores ==
  [][\A i \in 1..Len(rows) :
       (UndoneNow(i) /\ \A c \in rows[i].action.cells : file[c] = rows[i].left[c])
         => \A c \in rows[i].action.cells :
              Untinted(file'[c]) = Untinted(rows[i].was[c])]_vars
=============================================================================
