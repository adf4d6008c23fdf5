-------------------------- MODULE SheetTurnProofs --------------------------
(***************************************************************************)
(* Proofs about SheetTurn: its types, the approval gate, the verifier's    *)
(* findings and report, and undo.  The gate and undo hold for every        *)
(* workbook and every set of actions whose targets are spelled as the      *)
(* occupancy map spells addresses (NoSpelling); the rest for every set.    *)
(***************************************************************************)
EXTENDS SheetTurn, TLAPS, WellFoundedInduction

Snapshots == UNION {[s -> Content] : s \in SUBSET Cells}
Proper == {a \in Action : a.form # "range" => \E c \in Cells : a.cells = {c}}
RowType == [action : Proper, status : Statuses, force : BOOLEAN, prev : Snapshots,
            noted : SUBSET Cells, was : Snapshots, left : Snapshots]

\* What was applied has a snapshot of its cells; the inverse is built from it.
Snapped(r) == r.status \in {"APPLIED", "UNDONE"} => r.prev \in [r.action.cells -> Content]

ForecastType == [rows : SUBSET (1..MaxRows), faulty : SUBSET Cells, holds : BOOLEAN]

TypeInv ==
  /\ original \in Originals /\ file \in Workbook /\ book \in Workbook
  /\ phase \in {"idle", "executing", "verified"}
  /\ rows \in Seq(RowType) /\ Len(rows) <= MaxRows
  /\ \A i \in 1..Len(rows) : Snapped(rows[i])
  /\ committed \in 0..Len(rows) /\ base \in 0..committed
  /\ phase # "executing" => committed = Len(rows)
  /\ turns \in 0..MaxTurns
  /\ forecast \in ForecastType

-----------------------------------------------------------------------------
\* What the actions are made of.

LEMMA ChangedType ==
  ASSUME NEW x \in Content, NEW a \in Action
  PROVE  Changed(x, a) \in Content
<1>1. a.value \in Values /\ a.number \in Numbers \cup {Keep} /\ a.width \in Widths
  BY DEF Action
<1>2. x.value \in Values /\ x.number \in Numbers /\ x.font \in Fonts /\ x.width \in Widths
      /\ x.merged \in {"no", "anchor", "spanned"}
  BY DEF Content
<1>3. Font(x.font, a.bold) \in Fonts
  BY <1>2 DEF Font, Fonts
<1>4. (IF a.kind = "format" /\ a.number # Keep THEN a.number ELSE x.number) \in Numbers
  BY <1>1, <1>2
<1>5. (IF a.kind = "format" THEN Font(x.font, a.bold) ELSE x.font) \in Fonts
  BY <1>2, <1>3
<1> QED BY <1>1, <1>2, <1>4, <1>5 DEF Changed, Content

LEMMA ApplyType ==
  ASSUME NEW w \in Workbook, NEW a \in Action
  PROVE  Apply(w, a) \in Workbook
<1>1. \A c \in Cells : w[c] \in Content
  BY DEF Workbook
<1>2. \A c \in Cells : Changed(w[c], a) \in Content
  BY <1>1, ChangedType
<1> QED BY <1>1, <1>2 DEF Apply, Workbook

LEMMA SnapshotType ==
  ASSUME NEW w \in Workbook, NEW a \in Action
  PROVE  /\ Snapshot(w, a) \in [a.cells -> Content]
         /\ Snapshot(w, a) \in Snapshots
<1>1. a.cells \in SUBSET Cells
  BY DEF Action
<1>2. Snapshot(w, a) \in [a.cells -> Content]
  BY <1>1 DEF Snapshot, Workbook
<1>3. \A s \in SUBSET Cells : [s -> Content] \subseteq Snapshots
  BY DEF Snapshots
<1> QED BY <1>1, <1>2, <1>3

LEMMA NoSnapshotType == NoSnapshot \in Snapshots
<1>1. NoSnapshot \in [{} -> Content]
  BY DEF NoSnapshot
<1>2. \A s \in SUBSET Cells : [s -> Content] \subseteq Snapshots
  BY DEF Snapshots
<1> QED BY <1>1, <1>2

FreeRow(a, status, p, l)   == Row(a, status, FALSE, p, l)
ForcedRow(a, status, p, l) == Row(a, status, TRUE, p, l)

LEMMA RowFields ==
  ASSUME NEW a \in Proper, NEW status \in Statuses,
         NEW p \in Snapshots, NEW l \in Snapshots
  PROVE  /\ FreeRow(a, status, p, l) \in RowType
         /\ FreeRow(a, status, p, l).action = a
         /\ FreeRow(a, status, p, l).status = status
         /\ FreeRow(a, status, p, l).prev = p
  BY DEF FreeRow, Row, RowType

LEMMA ForcedFields ==
  ASSUME NEW a \in Proper, NEW status \in Statuses,
         NEW p \in Snapshots, NEW l \in Snapshots
  PROVE  /\ ForcedRow(a, status, p, l) \in RowType
         /\ ForcedRow(a, status, p, l).action = a
         /\ ForcedRow(a, status, p, l).status = status
         /\ ForcedRow(a, status, p, l).prev = p
  BY DEF ForcedRow, Row, RowType

LEMMA Flipped ==
  ASSUME NEW r \in RowType, NEW status \in Statuses
  PROVE  /\ [r EXCEPT !.status = status] \in RowType
         /\ [r EXCEPT !.status = status].action = r.action
         /\ [r EXCEPT !.status = status].status = status
         /\ [r EXCEPT !.status = status].force = r.force
         /\ [r EXCEPT !.status = status].prev = r.prev
  BY DEF RowType

LEMMA Noted ==
  ASSUME NEW r \in RowType, NEW N \in SUBSET Cells
  PROVE  /\ [r EXCEPT !.noted = N] \in RowType
         /\ [r EXCEPT !.noted = N].action = r.action
         /\ [r EXCEPT !.noted = N].status = r.status
         /\ [r EXCEPT !.noted = N].force = r.force
         /\ [r EXCEPT !.noted = N].prev = r.prev
  BY DEF RowType

\* The inverse acts on the same cell, in the same way and spelling.
LEMMA InverseType ==
  ASSUME NEW r \in RowType, Snapped(r), r.status = "APPLIED", r.action.form # "range"
  PROVE  /\ Inverse(r) \in Proper
         /\ Inverse(r).kind = r.action.kind
         /\ Inverse(r).form = r.action.form
         /\ Inverse(r).cells = r.action.cells
<1> DEFINE a   == r.action
           old == r.prev[CHOOSE c \in a.cells : TRUE]
<1>1. a \in Action /\ \E c \in Cells : a.cells = {c}
  BY DEF RowType, Proper
<1>2. r.prev \in [a.cells -> Content]
  BY DEF Snapped
<1>3. old \in Content
  BY <1>1, <1>2
<1>4. old.value \in Values /\ old.number \in Numbers /\ old.width \in Widths
  BY <1>3 DEF Content
<1>5. /\ a.kind \in {"write", "format", "width"} /\ a.form \in {"plain", "spelled", "range"}
      /\ a.cells \in SUBSET Cells /\ a.width \in Widths
  BY <1>1 DEF Action
<1> DEFINE found  == a.form = "plain"
           value  == IF a.kind = "write" /\ found THEN old.value ELSE "empty"
           number == IF a.kind = "format" /\ found THEN old.number ELSE Keep
           bold   == IF a.kind = "format" /\ found
                     THEN IF old.font = "bold" THEN "yes" ELSE "no" ELSE Keep
           width  == IF a.kind = "width" THEN old.width ELSE a.width
<1>6. /\ value \in Values /\ number \in Numbers \cup {Keep}
      /\ bold \in {"yes", "no", Keep} /\ width \in Widths
  BY <1>4, <1>5 DEF Values
<1>7. Inverse(r) = [kind |-> a.kind, form |-> a.form, cells |-> a.cells, value |-> value,
                    number |-> number, bold |-> bold, width |-> width]
  BY DEF Inverse
<1> HIDE DEF value, number, bold, width
<1>8. Inverse(r) \in Action
  BY <1>5, <1>6, <1>7 DEF Action
<1> QED BY <1>1, <1>7, <1>8 DEF Proper

-----------------------------------------------------------------------------
LEMMA ProperActions == \A a \in Actions : a \in Proper
  BY SheetTurnAssumption DEF Proper

LEMMA ProperIsAction == \A a \in Proper : a \in Action
  BY DEF Proper

LEMMA ApplyProper ==
  ASSUME NEW w \in Workbook, NEW a \in Proper
  PROVE  /\ Apply(w, a) \in Workbook
         /\ Snapshot(w, a) \in [a.cells -> Content]
         /\ Snapshot(w, a) \in Snapshots
         /\ Snapshot(Apply(w, a), a) \in Snapshots
<1>1. a \in Action
  BY ProperIsAction
<1>2. Apply(w, a) \in Workbook
  BY <1>1, ApplyType
<1> QED BY <1>1, <1>2, SnapshotType

LEMMA RowParts ==
  ASSUME NEW r \in RowType
  PROVE  r.action \in Proper /\ r.status \in Statuses /\ r.force \in BOOLEAN
         /\ r.noted \in SUBSET Cells
  BY DEF RowType

LEMMA InitTypeInv == Init => TypeInv
<1> SUFFICES ASSUME Init PROVE TypeInv
  OBVIOUS
<1>1. NoForecast \in ForecastType
  BY DEF NoForecast, ForecastType
<1>2. MaxRows \in Nat /\ MaxTurns \in Nat /\ Originals \subseteq Workbook
  BY SheetTurnAssumption
<1> QED BY <1>1, <1>2 DEF Init, TypeInv

LEMMA StatusNames ==
  /\ "APPLIED" \in Statuses /\ "PENDING_APPROVAL" \in Statuses
  /\ "REJECTED" \in Statuses /\ "UNDONE" \in Statuses
  BY DEF Statuses

\* A row more, with the parts of TypeInv that depend on the length.
LEMMA Grown ==
  ASSUME TypeInv, Room, NEW r \in RowType, Snapped(r), rows' = Append(rows, r)
  PROVE  /\ rows' \in Seq(RowType) /\ Len(rows') = Len(rows) + 1 /\ Len(rows') <= MaxRows
         /\ \A i \in 1..Len(rows') : Snapped(rows'[i])
         /\ committed \in 0..Len(rows') /\ committed + 1 \in 0..Len(rows')
<1>1. /\ rows \in Seq(RowType) /\ Len(rows) \in Nat /\ MaxRows \in Nat
      /\ \A i \in 1..Len(rows) : Snapped(rows[i])
      /\ committed \in 0..Len(rows)
  BY SheetTurnAssumption DEF TypeInv
<1>2. rows' \in Seq(RowType) /\ Len(rows') = Len(rows) + 1
      /\ \A i \in 1..Len(rows') : Snapped(rows'[i])
  BY <1>1
<1>3. Len(rows) + 1 <= MaxRows
  BY <1>1 DEF Room
<1> QED BY <1>1, <1>2, <1>3

THEOREM TypeInvStep == TypeInv /\ [Next]_vars => TypeInv'
<1> SUFFICES ASSUME TypeInv, [Next]_vars PROVE TypeInv'
  OBVIOUS
<1> USE SheetTurnAssumption
<1>0. NoForecast \in ForecastType
  BY DEF NoForecast, ForecastType
<1>1. Originals \subseteq Workbook /\ original \in Workbook
  BY DEF TypeInv
<1>2. CASE StartTurn
  BY <1>0, <1>1, <1>2 DEF StartTurn, TypeInv
<1>3. ASSUME NEW a \in Actions, Stage(a) PROVE TypeInv'
  <2> DEFINE r == FreeRow(a, "PENDING_APPROVAL", NoSnapshot, NoSnapshot)
  <2>1. r \in RowType /\ r.status = "PENDING_APPROVAL"
    <3>1. a \in Proper
      BY ProperActions
    <3>2. "PENDING_APPROVAL" \in Statuses
      BY StatusNames
    <3>3. NoSnapshot \in Snapshots
      BY NoSnapshotType
    <3>4. r \in RowType
      BY <3>1, <3>2, <3>3, RowFields
    <3>5. r.status = "PENDING_APPROVAL"
      BY <3>1, <3>2, <3>3, RowFields
    <3> QED BY <3>4, <3>5
  <2>2. Snapped(r)
    BY <2>1 DEF Snapped
  <2>3. rows' = Append(rows, r) /\ Room
    BY <1>3 DEF Stage, FreeRow
  <2> HIDE DEF r
  <2>4. /\ rows' \in Seq(RowType) /\ Len(rows') <= MaxRows
        /\ \A i \in 1..Len(rows') : Snapped(rows'[i])
        /\ committed \in 0..Len(rows')
    BY <2>1, <2>2, <2>3, Grown
  <2>5. phase = "executing" /\ UNCHANGED <<original, file, phase, book, committed, base, turns, forecast>>
    BY <1>3 DEF Stage
  <2> QED BY <2>4, <2>5 DEF TypeInv
<1>4. ASSUME NEW a \in Actions, Perform(a) PROVE TypeInv'
  <2> DEFINE r == FreeRow(a, "APPLIED", Snapshot(book, a), Snapshot(Apply(book, a), a))
  <2>1. a \in Proper /\ book \in Workbook
    BY ProperActions DEF TypeInv
  <2>2. r \in RowType /\ r.action = a /\ r.prev = Snapshot(book, a)
    <3>1. a \in Proper /\ Snapshot(book, a) \in Snapshots /\ Snapshot(Apply(book, a), a) \in Snapshots
      BY <2>1, ApplyProper
    <3>2. "APPLIED" \in Statuses
      BY StatusNames
    <3>3. r \in RowType
      BY <3>1, <3>2, RowFields
    <3>4. r.action = a
      BY <3>1, <3>2, RowFields
    <3>5. r.prev = Snapshot(book, a)
      BY <3>1, <3>2, RowFields
    <3> QED BY <3>3, <3>4, <3>5
  <2>3. Snapped(r)
    BY <2>1, <2>2, ApplyProper DEF Snapped
  <2>4. book' = Apply(book, a) /\ rows' = Append(rows, r) /\ Room
    BY <1>4 DEF Perform, FreeRow
  <2>5. book' \in Workbook
    BY <2>1, <2>4, ApplyProper
  <2> HIDE DEF r
  <2>6. /\ rows' \in Seq(RowType) /\ Len(rows') <= MaxRows
        /\ \A i \in 1..Len(rows') : Snapped(rows'[i])
        /\ committed \in 0..Len(rows')
    BY <2>2, <2>3, <2>4, Grown
  <2>7. phase = "executing" /\ UNCHANGED <<original, file, phase, committed, base, turns, forecast>>
    BY <1>4 DEF Perform
  <2> QED BY <2>5, <2>6, <2>7 DEF TypeInv
<1>5. CASE CommitStep
  BY <1>5 DEF CommitStep, TypeInv
<1>6. CASE Verify
  <2>1. PICK semantic \in {{}} \cup {{c} : c \in Cells} :
          LET findings == IF Faulty(Clone) # {} THEN Faulty(Clone) ELSE semantic
          IN  rows' = [j \in 1..Len(rows) |->
                [rows[j] EXCEPT !.noted = @ \cup {c \in findings : j \in Blamed(c)}]]
    BY <1>6 DEF Verify
  <2> DEFINE findings == IF Faulty(Clone) # {} THEN Faulty(Clone) ELSE semantic
             N(j) == rows[j].noted \cup {c \in findings : j \in Blamed(c)}
  <2>2. findings \in SUBSET Cells
    BY DEF Faulty
  <2>3. \A j \in 1..Len(rows) : rows[j] \in RowType
    BY DEF TypeInv
  <2> HIDE DEF findings
  <2>4. \A j \in 1..Len(rows) : N(j) \in SUBSET Cells
    BY <2>2, <2>3, RowParts
  <2>5. rows' = [j \in 1..Len(rows) |-> [rows[j] EXCEPT !.noted = N(j)]]
    BY <2>1 DEF findings
  <2> HIDE DEF N
  <2> DEFINE noted(j) == [rows[j] EXCEPT !.noted = N(j)]
  <2>6. ASSUME NEW j \in 1..Len(rows) PROVE noted(j) \in RowType /\ Snapped(noted(j))
    <3>1. rows[j] \in RowType /\ N(j) \in SUBSET Cells /\ Snapped(rows[j])
      BY <2>3, <2>4 DEF TypeInv
    <3>2. /\ noted(j) \in RowType /\ noted(j).action = rows[j].action
          /\ noted(j).status = rows[j].status /\ noted(j).prev = rows[j].prev
      BY <3>1, Noted, Zenon
    <3> QED BY <3>1, <3>2 DEF Snapped
  <2>7. rows' = [j \in 1..Len(rows) |-> noted(j)]
    BY <2>5
  <2> HIDE DEF noted
  <2>8. rows' \in Seq(RowType) /\ Len(rows') = Len(rows)
        /\ \A i \in 1..Len(rows') : Snapped(rows'[i])
    <3>1. Len(rows) \in Nat
      BY DEF TypeInv
    <3> QED BY <2>6, <2>7, <3>1
  <2> QED BY <1>6, <2>8 DEF Verify, TypeInv
<1>7. CASE SaveTurn
  <2>1. Pending(ThisTurn) \in SUBSET (1..MaxRows)
    BY DEF Pending, ThisTurn, TypeInv
  <2>2. Faulty(Clone) \in SUBSET Cells
    BY DEF Faulty
  <2>3. forecast' = [rows |-> Pending(ThisTurn), faulty |-> Faulty(Clone), holds |-> TRUE]
    BY <1>7 DEF SaveTurn
  <2>4. forecast' \in ForecastType
    BY <2>1, <2>2, <2>3 DEF ForecastType
  <2> QED BY <1>1, <1>7, <2>4 DEF SaveTurn, TypeInv
<1>8. CASE TurnFails
  <2>1. rows' = SubSeq(rows, 1, committed) /\ rows \in Seq(RowType) /\ committed \in 0..Len(rows)
    BY <1>8 DEF TurnFails, TypeInv
  <2>2. rows' \in Seq(RowType) /\ Len(rows') = committed
        /\ \A i \in 1..committed : rows'[i] = rows[i]
    BY <2>1
  <2> QED BY <1>1, <1>8, <2>2 DEF TurnFails, TypeInv
<1>9. ASSUME NEW i \in 1..Len(rows), Approve(i) PROVE TypeInv'
  <2> DEFINE a == rows[i].action
             r == ForcedRow(a, "APPLIED", Snapshot(file, a), Snapshot(Apply(file, a), a))
             s == [r EXCEPT !.noted = rows[i].noted]
  <2>1. rows[i] \in RowType /\ file \in Workbook
    BY DEF TypeInv
  <2>2. a \in Proper /\ rows[i].noted \in SUBSET Cells
    BY <2>1, RowParts
  <2> HIDE DEF a
  <2>3. r \in RowType /\ r.action = a /\ r.prev = Snapshot(file, a)
    <3>1. a \in Proper /\ Snapshot(file, a) \in Snapshots /\ Snapshot(Apply(file, a), a) \in Snapshots
      BY <2>1, <2>2, ApplyProper
    <3>2. "APPLIED" \in Statuses
      BY StatusNames
    <3>3. r \in RowType
      BY <3>1, <3>2, ForcedFields
    <3>4. r.action = a
      BY <3>1, <3>2, ForcedFields
    <3>5. r.prev = Snapshot(file, a)
      BY <3>1, <3>2, ForcedFields
    <3> QED BY <3>3, <3>4, <3>5
  <2>4. s \in RowType /\ s.action = a /\ s.prev = Snapshot(file, a)
    BY <2>2, <2>3, Noted
  <2>5. Snapped(s)
    BY <2>1, <2>2, <2>4, ApplyProper DEF Snapped
  <2>6. file' = Apply(file, a) /\ rows' = [rows EXCEPT ![i] = s]
    BY <1>9 DEF Approve, ForcedRow, a
  <2>7. file' \in Workbook
    BY <2>1, <2>2, <2>6, ApplyProper
  <2> HIDE DEF s
  <2>8. rows' \in Seq(RowType) /\ Len(rows') = Len(rows)
        /\ \A k \in 1..Len(rows') : Snapped(rows'[k])
    BY <2>4, <2>5, <2>6 DEF TypeInv
  <2>9. forecast' \in ForecastType
    BY <1>0, <1>9 DEF Approve, TypeInv
  <2> QED BY <1>9, <2>7, <2>8, <2>9 DEF Approve, TypeInv
<1>10. ASSUME NEW i \in 1..Len(rows), Reject(i) PROVE TypeInv'
  <2> DEFINE s == [rows[i] EXCEPT !.status = "REJECTED"]
  <2>1. s \in RowType /\ s.status = "REJECTED"
    <3>1. rows[i] \in RowType
      BY DEF TypeInv
    <3> QED BY <3>1, Flipped, StatusNames, Zenon
  <2>2. Snapped(s)
    BY <2>1 DEF Snapped
  <2>3. rows' = [rows EXCEPT ![i] = s]
    BY <1>10 DEF Reject
  <2> HIDE DEF s
  <2>4. rows' \in Seq(RowType) /\ Len(rows') = Len(rows)
        /\ \A k \in 1..Len(rows') : Snapped(rows'[k])
    BY <2>1, <2>2, <2>3 DEF TypeInv
  <2> QED BY <1>0, <1>10, <2>4 DEF Reject, TypeInv
<1>11. ASSUME NEW i \in 1..Len(rows), Undo(i) PROVE TypeInv'
  <2> DEFINE a == Inverse(rows[i])
             s == [rows[i] EXCEPT !.status = "UNDONE"]
             r == FreeRow(a, "APPLIED", Snapshot(file, a), Snapshot(Apply(file, a), a))
  <2>1. /\ rows[i] \in RowType /\ Snapped(rows[i]) /\ file \in Workbook
        /\ rows[i].status = "APPLIED" /\ rows[i].action.form # "range"
    BY <1>11 DEF TypeInv, Undo
  <2>2. a \in Proper
    BY <2>1, InverseType
  <2>3. /\ s \in RowType /\ s.action = rows[i].action /\ s.status = "UNDONE"
        /\ s.prev = rows[i].prev
    BY <2>1, Flipped, StatusNames, Zenon
  <2>4. Snapped(s)
    BY <2>1, <2>3 DEF Snapped
  <2> HIDE DEF a
  <2>5. r \in RowType /\ r.action = a /\ r.prev = Snapshot(file, a)
    <3>1. a \in Proper /\ Snapshot(file, a) \in Snapshots /\ Snapshot(Apply(file, a), a) \in Snapshots
      BY <2>1, <2>2, ApplyProper
    <3>2. "APPLIED" \in Statuses
      BY StatusNames
    <3>3. r \in RowType
      BY <3>1, <3>2, RowFields
    <3>4. r.action = a
      BY <3>1, <3>2, RowFields
    <3>5. r.prev = Snapshot(file, a)
      BY <3>1, <3>2, RowFields
    <3> QED BY <3>3, <3>4, <3>5
  <2>6. Snapped(r)
    BY <2>1, <2>2, <2>5, ApplyProper DEF Snapped
  <2>7. file' = Apply(file, a) /\ rows' = Append([rows EXCEPT ![i] = s], r)
    BY <1>11 DEF Undo, FreeRow, a
  <2>8. file' \in Workbook
    BY <2>1, <2>2, <2>7, ApplyProper
  <2> HIDE DEF r, s
  <2>9. rows' \in Seq(RowType) /\ Len(rows') = Len(rows) + 1
        /\ \A k \in 1..Len(rows') : Snapped(rows'[k])
    <3> DEFINE t == [rows EXCEPT ![i] = s]
    <3>1. t \in Seq(RowType) /\ Len(t) = Len(rows) /\ \A k \in 1..Len(t) : Snapped(t[k])
      BY <2>3, <2>4 DEF TypeInv
    <3>2. rows' = Append(t, r)
      BY <2>7
    <3> HIDE DEF t
    <3> QED BY <3>1, <3>2, <2>5, <2>6
  <2>10. /\ phase = "idle" /\ Room /\ committed' = committed + 1 /\ forecast' = NoForecast
         /\ UNCHANGED <<original, phase, book, base, turns>>
    BY <1>11 DEF Undo
  <2>11. Len(rows') <= MaxRows /\ committed' = Len(rows') /\ base' \in 0..committed'
         /\ committed' \in 0..Len(rows')
    BY <2>9, <2>10 DEF Room, TypeInv
  <2> QED BY <1>0, <2>8, <2>9, <2>10, <2>11 DEF TypeInv
<1>12. CASE UNCHANGED vars
  BY <1>12 DEF vars, TypeInv
<1> QED
  BY <1>2, <1>3, <1>4, <1>5, <1>6, <1>7, <1>8, <1>9, <1>10, <1>11, <1>12 DEF Next

\* The types, for every workbook, set of actions and bound: what is in the table
\* of an interrupted step is gone when the run is over, and the snapshot that
\* undo reads is there whenever it is read.
THEOREM TypeCorrect == Spec => []TypeOK
<1>1. TypeInv => TypeOK
  <2> SUFFICES ASSUME TypeInv PROVE TypeOK
    OBVIOUS
  <2>1. \A r \in RowType : IsRow(r)
    BY DEF RowType, Snapshots, IsRow, IsSnapshot, Proper
  <2> QED BY <2>1 DEF TypeInv, TypeOK, ForecastType
<1>2. Spec => []TypeInv
  BY InitTypeInv, TypeInvStep, PTL DEF Spec
<1> QED BY <1>1, <1>2, PTL

-----------------------------------------------------------------------------
\* The gate.

NoSpelling == \A a \in Actions : a.form # "spelled"

\* A row that was approved means the cell.
Covers(rs, c) == \E i \in 1..Len(rs) : rs[i].force /\ c \in rs[i].action.cells

\* A workbook differs from the upload in covered cells only.
Guarded(w, rs) ==
  \A c \in UserCells : ~SameButWidth(w[c], original[c]) => Covers(rs, c)

\* What was applied to a user's cell was approved, or undoes what was.
Earned(r, rs) ==
  (r.status \in {"APPLIED", "UNDONE"} /\ r.action.kind # "width")
    => \A c \in r.action.cells : c \in UserCells => Covers(rs, c)

\* The approved rows are committed, so that no failing turn takes them along.
Kept(rs, n) == \A i \in 1..Len(rs) : rs[i].force => i <= n

GateInv ==
  /\ Kept(rows, committed)
  /\ \A i \in 1..Len(rows) : Earned(rows[i], rows)
  /\ Guarded(file, rows) /\ Guarded(book, rows)

\* Rows that keep their actions and their approvals cover what they covered.
LEMMA CoversKept ==
  ASSUME NEW rs, NEW rt, Len(rs) \in Nat, Len(rt) \in Nat, Len(rs) <= Len(rt),
         \A i \in 1..Len(rs) : rt[i].action = rs[i].action /\ (rs[i].force => rt[i].force)
  PROVE  \A c : Covers(rs, c) => Covers(rt, c)
<1> SUFFICES ASSUME NEW c, Covers(rs, c) PROVE Covers(rt, c)
  OBVIOUS
<1>1. PICK i \in 1..Len(rs) : rs[i].force /\ c \in rs[i].action.cells
  BY DEF Covers
<1>2. i \in 1..Len(rt)
  BY <1>1
<1>3. rt[i].force
  BY <1>1
<1>4. c \in rt[i].action.cells
  BY <1>1
<1> QED BY <1>2, <1>3, <1>4, Zenon DEF Covers

\* The first n rows cover what all cover, when no approval is behind them.
LEMMA CoversPrefix ==
  ASSUME NEW rs, NEW rt, Len(rs) \in Nat, NEW n \in 0..Len(rs), Len(rt) = n,
         \A i \in 1..n : rt[i] = rs[i], Kept(rs, n)
  PROVE  \A c : Covers(rs, c) => Covers(rt, c)
<1> SUFFICES ASSUME NEW c, Covers(rs, c) PROVE Covers(rt, c)
  OBVIOUS
<1>1. PICK i \in 1..Len(rs) : rs[i].force /\ c \in rs[i].action.cells
  BY DEF Covers
<1>2. i <= n
  BY <1>1 DEF Kept
<1>3. i \in 1..Len(rt) /\ rt[i] = rs[i]
  BY <1>2
<1> QED BY <1>1, <1>3, Zenon DEF Covers

\* More coverage guards and earns as much.
LEMMA GuardedKept ==
  ASSUME NEW w, NEW rs, NEW rt, \A c : Covers(rs, c) => Covers(rt, c), Guarded(w, rs)
  PROVE  Guarded(w, rt)
  BY DEF Guarded

LEMMA EarnedKept ==
  ASSUME NEW r, NEW q, NEW rs, NEW rt, \A c : Covers(rs, c) => Covers(rt, c), Earned(r, rs),
         q.action = r.action,
         q.status \in {"APPLIED", "UNDONE"} => r.status \in {"APPLIED", "UNDONE"}
  PROVE  Earned(q, rt)
  BY DEF Earned

\* An action may be applied to a guarded workbook if its cells are covered, or
\* if it sets a width only.
LEMMA GuardedApply ==
  ASSUME NEW w, NEW a \in Proper, NEW rs, Guarded(w, rs),
         a.kind # "width" => \A c \in a.cells : c \in UserCells => Covers(rs, c)
  PROVE  Guarded(Apply(w, a), rs)
<1> SUFFICES ASSUME NEW c \in UserCells, ~SameButWidth(Apply(w, a)[c], original[c])
             PROVE  Covers(rs, c)
  BY DEF Guarded
<1>1. c \in Cells
  BY DEF UserCells
<1>2. CASE c \notin a.cells
  <2>1. Apply(w, a)[c] = w[c]
    BY <1>1, <1>2 DEF Apply
  <2> QED BY <2>1 DEF Guarded
<1>3. CASE c \in a.cells /\ a.kind = "width"
  <2>1. Apply(w, a)[c] = Changed(w[c], a)
    BY <1>1, <1>3 DEF Apply
  <2>2. /\ Changed(w[c], a).value = w[c].value
        /\ Changed(w[c], a).number = w[c].number
        /\ Changed(w[c], a).font = w[c].font
    BY <1>3 DEF Changed
  <2>3. ~SameButWidth(w[c], original[c])
    BY <2>1, <2>2 DEF SameButWidth
  <2> QED BY <2>3 DEF Guarded
<1>4. CASE c \in a.cells /\ a.kind # "width"
  BY <1>4
<1> QED BY <1>2, <1>3, <1>4

LEMMA UploadGuarded == \A rs : Guarded(original, rs)
  BY DEF Guarded, SameButWidth

\* What the occupancy map lets through reaches no user's cell.
LEMMA NotBlocked ==
  ASSUME NoSpelling, NEW a \in Actions, ~Blocked(a), a.kind # "width"
  PROVE  \A c \in a.cells : c \notin UserCells
  BY DEF NoSpelling, Blocked, ActionCells

LEMMA FreeForce ==
  ASSUME NEW a, NEW status, NEW p, NEW l
  PROVE  ~FreeRow(a, status, p, l).force
  BY DEF FreeRow, Row

LEMMA ForcedForce ==
  ASSUME NEW a, NEW status, NEW p, NEW l, NEW N
  PROVE  [ForcedRow(a, status, p, l) EXCEPT !.noted = N].force
  BY DEF ForcedRow, Row

LEMMA Lengths ==
  TypeInv => /\ Len(rows) \in Nat /\ committed \in 0..Len(rows)
             /\ rows \in Seq(RowType) /\ DOMAIN rows = 1..Len(rows)
  BY DEF TypeInv

LEMMA NotedKeeps ==
  ASSUME NEW r \in RowType, NEW N
  PROVE  /\ [r EXCEPT !.noted = N].action = r.action
         /\ [r EXCEPT !.noted = N].status = r.status
         /\ [r EXCEPT !.noted = N].force <=> r.force
  BY DEF RowType

LEMMA FlippedKeeps ==
  ASSUME NEW r \in RowType, NEW status
  PROVE  /\ [r EXCEPT !.status = status].action = r.action
         /\ [r EXCEPT !.status = status].status = status
         /\ [r EXCEPT !.status = status].force <=> r.force
  BY DEF RowType

\* A row more that nobody approved changes nothing for the others.
LEMMA GrownGate ==
  ASSUME TypeInv, GateInv, NEW r \in RowType, ~r.force, Earned(r, rows),
         NEW t, Len(t) = Len(rows), DOMAIN t = 1..Len(rows), t \in Seq(RowType),
         \A i \in 1..Len(rows) :
           /\ t[i].action = rows[i].action /\ (t[i].force <=> rows[i].force)
           /\ t[i].status \in {"APPLIED", "UNDONE"} => rows[i].status \in {"APPLIED", "UNDONE"},
         NEW u, u = Append(t, r)
  PROVE  /\ Kept(u, committed) /\ Len(u) = Len(rows) + 1
         /\ \A c : Covers(rows, c) => Covers(u, c)
         /\ \A i \in 1..Len(u) : Earned(u[i], u)
<1>1. Len(rows) \in Nat /\ committed \in 0..Len(rows)
  BY Lengths
<1>2. /\ Len(u) = Len(rows) + 1 /\ u[Len(rows) + 1] = r
      /\ \A i \in 1..Len(rows) : u[i] = t[i]
  BY <1>1
<1>3. \A c : Covers(rows, c) => Covers(u, c)
  <2>1. \A i \in 1..Len(rows) : u[i].action = rows[i].action /\ (rows[i].force => u[i].force)
    BY <1>2, Zenon
  <2>2. Len(u) \in Nat /\ Len(rows) <= Len(u)
    BY <1>1, <1>2
  <2> QED BY <1>1, <2>1, <2>2, CoversKept
<1>4. ASSUME NEW i \in 1..Len(u) PROVE Earned(u[i], u)
  <2>1. CASE i \in 1..Len(rows)
    <3>1. /\ Earned(rows[i], rows) /\ u[i].action = rows[i].action
          /\ u[i].status \in {"APPLIED", "UNDONE"} => rows[i].status \in {"APPLIED", "UNDONE"}
      BY <1>2, <2>1 DEF GateInv
    <3> QED BY <1>3, <3>1, EarnedKept
  <2>2. CASE i = Len(rows) + 1
    <3>1. u[i] = r
      BY <1>2, <2>2
    <3> QED BY <1>3, <3>1, EarnedKept
  <2> QED BY <1>1, <1>2, <2>1, <2>2
<1>5. ASSUME NEW i \in 1..Len(u), u[i].force PROVE i <= committed
  <2>1. i \in 1..Len(rows)
    <3>1. i # Len(rows) + 1
      BY <1>2, <1>5
    <3> QED BY <1>1, <1>2, <3>1
  <2>2. rows[i].force
    BY <1>2, <1>5, <2>1
  <2> QED BY <2>1, <2>2 DEF GateInv, Kept
<1>6. Kept(u, committed)
  BY <1>5 DEF Kept
<1> QED BY <1>2, <1>3, <1>4, <1>6

LEMMA InitGateInv == Init => GateInv
<1> SUFFICES ASSUME Init PROVE GateInv
  OBVIOUS
<1>1. Len(rows) = 0 /\ file = original /\ book = original
  BY DEF Init
<1> QED BY <1>1, UploadGuarded DEF GateInv, Kept

THEOREM GateInvStep ==
  ASSUME NoSpelling, TypeInv, GateInv, [Next]_vars
  PROVE  GateInv'
<1>1. /\ Len(rows) \in Nat /\ committed \in 0..Len(rows)
      /\ rows \in Seq(RowType) /\ DOMAIN rows = 1..Len(rows)
  BY Lengths
<1>2. /\ Kept(rows, committed) /\ \A i \in 1..Len(rows) : Earned(rows[i], rows)
      /\ Guarded(file, rows) /\ Guarded(book, rows)
  BY DEF GateInv
<1>3. ASSUME original' = original, Kept(rows', committed'),
             \A i \in 1..Len(rows') : Earned(rows'[i], rows'),
             Guarded(file', rows'), Guarded(book', rows')
      PROVE  GateInv'
  BY <1>3 DEF GateInv, Earned, Guarded, UserCells
<1>4. CASE StartTurn
  <2>1. UNCHANGED <<original, file, rows, committed>> /\ book' = file
    BY <1>4 DEF StartTurn
  <2> QED BY <1>2, <1>3, <2>1
<1>5. ASSUME NEW a \in Actions, Stage(a) PROVE GateInv'
  <2> DEFINE r == FreeRow(a, "PENDING_APPROVAL", NoSnapshot, NoSnapshot)
  <2>1. rows' = Append(rows, r) /\ UNCHANGED <<original, file, book, committed>>
    BY <1>5 DEF Stage, FreeRow
  <2>2. r \in RowType /\ r.status = "PENDING_APPROVAL"
    <3>1. a \in Proper /\ "PENDING_APPROVAL" \in Statuses /\ NoSnapshot \in Snapshots
      BY ProperActions, StatusNames, NoSnapshotType
    <3>2. r \in RowType
      BY <3>1, RowFields
    <3>3. r.status = "PENDING_APPROVAL"
      BY <3>1, RowFields
    <3> QED BY <3>2, <3>3
  <2>3. ~r.force
    BY FreeForce
  <2>4. Earned(r, rows)
    BY <2>2 DEF Earned
  <2> HIDE DEF r
  <2>5. /\ Kept(rows', committed) /\ \A c : Covers(rows, c) => Covers(rows', c)
        /\ \A i \in 1..Len(rows') : Earned(rows'[i], rows')
    BY <1>1, <2>1, <2>2, <2>3, <2>4, GrownGate
  <2>6. Guarded(file, rows') /\ Guarded(book, rows')
    BY <1>2, <2>5, GuardedKept
  <2> QED BY <1>3, <2>1, <2>5, <2>6
<1>6. ASSUME NEW a \in Actions, Perform(a) PROVE GateInv'
  <2> DEFINE r == FreeRow(a, "APPLIED", Snapshot(book, a), Snapshot(Apply(book, a), a))
  <2>1. /\ rows' = Append(rows, r) /\ UNCHANGED <<original, file, committed>>
        /\ book' = Apply(book, a) /\ ~Blocked(a)
    BY <1>6 DEF Perform, FreeRow
  <2>2. r \in RowType /\ r.action = a
    <3>1. a \in Proper /\ "APPLIED" \in Statuses
          /\ Snapshot(book, a) \in Snapshots /\ Snapshot(Apply(book, a), a) \in Snapshots
      BY ProperActions, StatusNames, ApplyProper DEF TypeInv
    <3>2. r \in RowType
      BY <3>1, RowFields
    <3>3. r.action = a
      BY <3>1, RowFields
    <3> QED BY <3>2, <3>3
  <2>3. ~r.force
    BY FreeForce
  <2>4. a.kind # "width" => \A c \in a.cells : c \notin UserCells
    BY <2>1, NotBlocked
  <2>5. Earned(r, rows)
    BY <2>2, <2>4 DEF Earned
  <2> HIDE DEF r
  <2>6. /\ Kept(rows', committed) /\ \A c : Covers(rows, c) => Covers(rows', c)
        /\ \A i \in 1..Len(rows') : Earned(rows'[i], rows')
    BY <1>1, <2>1, <2>2, <2>3, <2>5, GrownGate
  <2>7. Guarded(file, rows') /\ Guarded(book, rows')
    BY <1>2, <2>6, GuardedKept
  <2>8. Guarded(Apply(book, a), rows')
    BY <2>4, <2>7, ProperActions, GuardedApply
  <2> QED BY <1>3, <2>1, <2>6, <2>7, <2>8
<1>7. CASE CommitStep
  <2>1. UNCHANGED <<original, file, book, rows>> /\ committed' = Len(rows)
    BY <1>7 DEF CommitStep
  <2>2. Kept(rows, Len(rows))
    BY <1>1 DEF Kept
  <2> QED BY <1>2, <1>3, <2>1, <2>2
<1>8. CASE Verify
  <2>1. PICK semantic \in {{}} \cup {{c} : c \in Cells} :
          LET findings == IF Faulty(Clone) # {} THEN Faulty(Clone) ELSE semantic
          IN  rows' = [j \in 1..Len(rows) |->
                [rows[j] EXCEPT !.noted = @ \cup {c \in findings : j \in Blamed(c)}]]
    BY <1>8 DEF Verify
  <2> DEFINE findings == IF Faulty(Clone) # {} THEN Faulty(Clone) ELSE semantic
             N(j) == rows[j].noted \cup {c \in findings : j \in Blamed(c)}
             noted(j) == [rows[j] EXCEPT !.noted = N(j)]
  <2>2. rows' = [j \in 1..Len(rows) |-> noted(j)]
    BY <2>1
  <2> HIDE DEF N
  <2>3. ASSUME NEW j \in 1..Len(rows)
        PROVE  /\ noted(j).action = rows[j].action /\ noted(j).status = rows[j].status
               /\ noted(j).force <=> rows[j].force
    <3>1. rows[j] \in RowType
      BY <1>1
    <3> QED BY <3>1, NotedKeeps
  <2> HIDE DEF noted
  <2>4. Len(rows') = Len(rows) /\ \A j \in 1..Len(rows) : rows'[j] = noted(j)
    BY <1>1, <2>2
  <2>5. \A c : Covers(rows, c) => Covers(rows', c)
    <3>1. \A j \in 1..Len(rows) : rows'[j].action = rows[j].action /\ (rows[j].force => rows'[j].force)
      BY <2>3, <2>4, Zenon
    <3>2. Len(rows') = Len(rows)
      BY <2>4
    <3> QED BY <1>1, <3>1, <3>2, CoversKept
  <2>6. UNCHANGED <<original, file, book, committed>>
    BY <1>8 DEF Verify
  <2>7. Guarded(file, rows') /\ Guarded(book, rows')
    BY <1>2, <2>5, GuardedKept
  <2>8. \A i \in 1..Len(rows') : Earned(rows'[i], rows')
    <3> SUFFICES ASSUME NEW i \in 1..Len(rows') PROVE Earned(rows'[i], rows')
      OBVIOUS
    <3>1. i \in 1..Len(rows)
      BY <2>4
    <3>2. rows'[i].action = rows[i].action /\ rows'[i].status = rows[i].status
      BY <2>3, <2>4, <3>1, Zenon
    <3>3. Earned(rows[i], rows)
      BY <1>2, <3>1
    <3> QED BY <2>5, <3>2, <3>3, EarnedKept
  <2>9. Kept(rows', committed)
    <3> SUFFICES ASSUME NEW i \in 1..Len(rows'), rows'[i].force PROVE i <= committed
      BY DEF Kept
    <3>1. i \in 1..Len(rows)
      BY <2>4
    <3>2. rows[i].force
      BY <2>3, <2>4, <3>1, Zenon
    <3> QED BY <1>2, <3>1, <3>2 DEF Kept
  <2> QED BY <1>3, <2>6, <2>7, <2>8, <2>9
<1>9. CASE SaveTurn
  <2>1. UNCHANGED <<original, rows, committed>> /\ file' = book /\ book' = original
    BY <1>9 DEF SaveTurn
  <2> QED BY <1>2, <1>3, <2>1, UploadGuarded
<1>10. CASE TurnFails
  <2>1. /\ UNCHANGED <<original, file, committed>> /\ book' = original
        /\ rows' = SubSeq(rows, 1, committed)
    BY <1>10 DEF TurnFails
  <2>2. Len(rows') = committed /\ \A i \in 1..committed : rows'[i] = rows[i]
    BY <1>1, <2>1
  <2>3. \A c : Covers(rows, c) => Covers(rows', c)
    BY <1>1, <1>2, <2>2, CoversPrefix
  <2>4. Guarded(file, rows') /\ Guarded(original, rows')
    BY <1>2, <2>3, GuardedKept, UploadGuarded
  <2>5. \A i \in 1..Len(rows') : Earned(rows'[i], rows')
    <3> SUFFICES ASSUME NEW i \in 1..Len(rows') PROVE Earned(rows'[i], rows')
      OBVIOUS
    <3>1. Earned(rows[i], rows) /\ rows'[i] = rows[i]
      BY <1>1, <1>2, <2>2
    <3> QED BY <2>3, <3>1, EarnedKept
  <2>6. Kept(rows', committed)
    BY <2>2 DEF Kept
  <2> QED BY <1>3, <2>1, <2>4, <2>5, <2>6
<1>11. ASSUME NEW i \in 1..Len(rows), Approve(i) PROVE GateInv'
  <2> DEFINE a == rows[i].action
             r == ForcedRow(a, "APPLIED", Snapshot(file, a), Snapshot(Apply(file, a), a))
             s == [r EXCEPT !.noted = rows[i].noted]
  <2>1. /\ phase = "idle" /\ file' = Apply(file, a) /\ rows' = [rows EXCEPT ![i] = s]
        /\ UNCHANGED <<original, book, committed>>
    BY <1>11 DEF Approve, ForcedRow
  <2>2. rows[i] \in RowType /\ a \in Proper /\ rows[i].noted \in SUBSET Cells
    <3>1. rows[i] \in RowType
      BY <1>1
    <3> QED BY <3>1, RowParts
  <2>3. s.force
    BY ForcedForce
  <2> HIDE DEF a
  <2>4. s.action = a
    <3>1. a \in Proper /\ Snapshot(file, a) \in Snapshots /\ Snapshot(Apply(file, a), a) \in Snapshots
      BY <2>2, ApplyProper DEF TypeInv
    <3>2. "APPLIED" \in Statuses
      BY StatusNames
    <3>3. r \in RowType
      BY <3>1, <3>2, ForcedFields
    <3>4. r.action = a
      BY <3>1, <3>2, ForcedFields
    <3> HIDE DEF r
    <3> QED BY <2>2, <3>3, <3>4, Noted
  <2> HIDE DEF s
  <2>5. /\ Len(rows') = Len(rows) /\ rows'[i] = s
        /\ \A j \in 1..Len(rows) : j # i => rows'[j] = rows[j]
    BY <1>1, <2>1
  <2>6. rows'[i].action = rows[i].action /\ rows'[i].force
    BY <2>3, <2>4, <2>5 DEF a
  <2>7. \A j \in 1..Len(rows) : rows'[j].action = rows[j].action /\ (rows[j].force => rows'[j].force)
    BY <2>5, <2>6, Zenon
  <2>8. \A c : Covers(rows, c) => Covers(rows', c)
    BY <1>1, <2>5, <2>7, CoversKept
  <2>9. \A c \in a.cells : Covers(rows', c)
    <3>1. i \in 1..Len(rows')
      BY <2>5
    <3>2. \A c \in a.cells : rows'[i].force /\ c \in rows'[i].action.cells
      BY <2>6 DEF a
    <3> QED BY <3>1, <3>2, Zenon DEF Covers
  <2>10. Guarded(file, rows') /\ Guarded(book, rows')
    BY <1>2, <2>8, GuardedKept
  <2>11. Guarded(Apply(file, a), rows')
    BY <2>2, <2>9, <2>10, GuardedApply
  <2>12. \A j \in 1..Len(rows') : Earned(rows'[j], rows')
    <3> SUFFICES ASSUME NEW j \in 1..Len(rows') PROVE Earned(rows'[j], rows')
      OBVIOUS
    <3>1. CASE j = i
      BY <2>6, <2>9, <3>1 DEF Earned, a
    <3>2. CASE j # i
      <4>1. rows'[j] = rows[j] /\ Earned(rows[j], rows)
        BY <1>2, <2>5, <3>2
      <4> QED BY <2>8, <4>1, EarnedKept
    <3> QED BY <3>1, <3>2
  <2>13. Kept(rows', committed)
    <3>1. committed = Len(rows)
      BY <2>1 DEF TypeInv
    <3> QED BY <1>1, <2>5, <3>1 DEF Kept
  <2> QED BY <1>3, <2>1, <2>10, <2>11, <2>12, <2>13
<1>12. ASSUME NEW i \in 1..Len(rows), Reject(i) PROVE GateInv'
  <2> DEFINE s == [rows[i] EXCEPT !.status = "REJECTED"]
  <2>1. rows' = [rows EXCEPT ![i] = s] /\ UNCHANGED <<original, file, book, committed>>
    BY <1>12 DEF Reject
  <2>2. s.action = rows[i].action /\ s.status = "REJECTED" /\ (s.force <=> rows[i].force)
    <3>1. rows[i] \in RowType
      BY <1>1
    <3> QED BY <3>1, FlippedKeeps
  <2> HIDE DEF s
  <2>3. /\ Len(rows') = Len(rows) /\ rows'[i] = s
        /\ \A j \in 1..Len(rows) : j # i => rows'[j] = rows[j]
    BY <1>1, <2>1
  <2>4. \A j \in 1..Len(rows) : rows'[j].action = rows[j].action /\ (rows[j].force <=> rows'[j].force)
    BY <2>2, <2>3, Zenon
  <2>5. \A c : Covers(rows, c) => Covers(rows', c)
    BY <1>1, <2>3, <2>4, CoversKept
  <2>6. Guarded(file, rows') /\ Guarded(book, rows')
    BY <1>2, <2>5, GuardedKept
  <2>7. \A j \in 1..Len(rows') : Earned(rows'[j], rows')
    <3> SUFFICES ASSUME NEW j \in 1..Len(rows') PROVE Earned(rows'[j], rows')
      OBVIOUS
    <3>1. CASE j = i
      BY <2>2, <2>3, <3>1 DEF Earned
    <3>2. CASE j # i
      <4>1. rows'[j] = rows[j] /\ Earned(rows[j], rows)
        BY <1>2, <2>3, <3>2
      <4> QED BY <2>5, <4>1, EarnedKept
    <3> QED BY <3>1, <3>2
  <2>8. Kept(rows', committed)
    BY <1>2, <2>3, <2>4 DEF Kept
  <2> QED BY <1>3, <2>1, <2>6, <2>7, <2>8
<1>13. ASSUME NEW i \in 1..Len(rows), Undo(i) PROVE GateInv'
  <2> DEFINE a == Inverse(rows[i])
             s == [rows[i] EXCEPT !.status = "UNDONE"]
             t == [rows EXCEPT ![i] = s]
             r == FreeRow(a, "APPLIED", Snapshot(file, a), Snapshot(Apply(file, a), a))
  <2>1. /\ file' = Apply(file, a) /\ rows' = Append(t, r) /\ committed' = committed + 1
        /\ phase = "idle" /\ rows[i].status = "APPLIED" /\ rows[i].action.form # "range"
        /\ UNCHANGED <<original, book>>
    BY <1>13 DEF Undo, FreeRow
  <2>2. rows[i] \in RowType /\ Snapped(rows[i])
    BY DEF TypeInv
  <2>3. /\ a \in Proper /\ a.kind = rows[i].action.kind /\ a.cells = rows[i].action.cells
    BY <2>1, <2>2, InverseType
  <2>4. /\ s \in RowType /\ s.action = rows[i].action
    BY <2>2, Flipped, StatusNames, Zenon
  <2>5. s.force <=> rows[i].force
    BY <2>2, FlippedKeeps
  <2> HIDE DEF a
  <2>6. r \in RowType /\ r.action = a
    <3>1. a \in Proper /\ Snapshot(file, a) \in Snapshots /\ Snapshot(Apply(file, a), a) \in Snapshots
      BY <2>3, ApplyProper DEF TypeInv
    <3>2. "APPLIED" \in Statuses
      BY StatusNames
    <3>3. r \in RowType
      BY <3>1, <3>2, RowFields
    <3>4. r.action = a
      BY <3>1, <3>2, RowFields
    <3> QED BY <3>3, <3>4
  <2>7. ~r.force
    BY FreeForce
  <2>8. a.kind # "width" => \A c \in a.cells : c \in UserCells => Covers(rows, c)
    <3>1. Earned(rows[i], rows)
      BY <1>2
    <3> QED BY <2>1, <2>3, <3>1 DEF Earned
  <2>9. Earned(r, rows)
    BY <2>6, <2>8 DEF Earned
  <2> HIDE DEF r, s
  <2>10. /\ Len(t) = Len(rows) /\ DOMAIN t = 1..Len(rows) /\ t \in Seq(RowType)
         /\ t[i] = s /\ \A j \in 1..Len(rows) : j # i => t[j] = rows[j]
    BY <1>1, <2>4
  <2> HIDE DEF t
  <2>11. ASSUME NEW j \in 1..Len(rows)
         PROVE  /\ t[j].action = rows[j].action /\ (t[j].force <=> rows[j].force)
                /\ t[j].status \in {"APPLIED", "UNDONE"} => rows[j].status \in {"APPLIED", "UNDONE"}
    <3>1. CASE j = i
      <4>1. t[j].action = rows[j].action /\ rows[j].status \in {"APPLIED", "UNDONE"}
        BY <2>1, <2>4, <2>10, <3>1
      <4>2. t[j].force <=> rows[j].force
        BY <2>5, <2>10, <3>1, Zenon
      <4> QED BY <4>1, <4>2
    <3>2. CASE j # i
      BY <2>10, <3>2
    <3> QED BY <3>1, <3>2
  <2>12. /\ Kept(rows', committed) /\ Len(rows') = Len(rows) + 1
         /\ \A c : Covers(rows, c) => Covers(rows', c)
         /\ \A j \in 1..Len(rows') : Earned(rows'[j], rows')
    BY <2>1, <2>6, <2>7, <2>9, <2>10, <2>11, GrownGate
  <2>13. Guarded(file, rows') /\ Guarded(book, rows')
    BY <1>2, <2>12, GuardedKept
  <2>14. Guarded(Apply(file, a), rows')
    BY <2>3, <2>8, <2>12, <2>13, GuardedApply
  <2>15. Kept(rows', committed')
    BY <1>1, <2>1, <2>12 DEF Kept
  <2> QED BY <1>3, <2>1, <2>12, <2>13, <2>14, <2>15
<1>14. CASE UNCHANGED vars
  <2>1. UNCHANGED <<original, file, book, rows, committed>>
    BY <1>14 DEF vars
  <2> QED BY <1>2, <1>3, <2>1
<1> QED
  BY <1>4, <1>5, <1>6, <1>7, <1>8, <1>9, <1>10, <1>11, <1>12, <1>13, <1>14 DEF Next

\* The gate: no behaviour of agents, verifier, failing turns, approvals and undos
\* changes a value or a style of a user's cell that no approved row means, for
\* every upload, set of actions and bound, if the model spells targets plainly.
THEOREM GateHolds == ASSUME NoSpelling PROVE Spec => []UserCellsNeedApproval
<1>1. TypeInv /\ GateInv /\ [Next]_vars => (TypeInv /\ GateInv)'
  BY TypeInvStep, GateInvStep
<1>2. Init => TypeInv /\ GateInv
  BY InitTypeInv, InitGateInv
<1>3. TypeInv /\ GateInv => UserCellsNeedApproval
  BY DEF GateInv, Guarded, Covers, UserCellsNeedApproval
<1> QED BY <1>1, <1>2, <1>3, PTL DEF Spec

-----------------------------------------------------------------------------
(* What a sequence of rows makes of a workbook.                              *)

LEMMA LeastNat ==
  ASSUME NEW T \in SUBSET Nat, T # {}
  PROVE  \E x \in T : \A y \in T : x <= y
<1> DEFINE R == OpToRel(<, Nat)
<1>1. IsWellFoundedOn(R, Nat)
  BY NatLessThanWellFounded
<1>2. \A x, y \in Nat : x < y => <<x, y>> \in R
  BY DEF OpToRel
<1> HIDE DEF R
<1>3. PICK x \in T : \A y \in T : ~(<<y, x>> \in R)
  BY <1>1, WFMin
<1>4. \A y \in T : ~(y < x)
  BY <1>2, <1>3
<1>5. \A y \in T : y \in Nat /\ x \in Nat
  BY <1>3
<1> QED BY <1>3, <1>4, <1>5

\* Induction up to a bound, over a set instead of a predicate.
LEMMA Reaches ==
  ASSUME NEW N \in Nat, NEW S, 0 \in S, \A n \in 1..N : n - 1 \in S => n \in S
  PROVE  \A n \in 0..N : n \in S
<1> DEFINE T == {n \in 0..N : n \notin S}
<1> SUFFICES ASSUME T # {}  PROVE FALSE
  OBVIOUS
<1>1. T \in SUBSET Nat
  OBVIOUS
<1>2. PICK x \in T : \A y \in T : x <= y
  BY <1>1, LeastNat
<1>3. x \in 1..N /\ x - 1 \in 0..N /\ ~(x <= x - 1)
  BY <1>2
<1>4. x - 1 \notin T
  BY <1>2, <1>3
<1> QED BY <1>2, <1>3, <1>4

\* The workbook after one row more, and after all of them.
OneMore(rs, v, js, n) == IF n \in js THEN Apply(v, rs[n].action) ELSE v
AfterOf(rs, w, js) ==
  LET done[n \in 0..Len(rs)] ==
        IF n = 0 THEN w
        ELSE IF n \in js THEN Apply(done[n - 1], rs[n].action) ELSE done[n - 1]
  IN  done[Len(rs)]

LEMMA AfterBooks ==
  ASSUME NEW rs, Len(rs) \in Nat, NEW w, NEW js
  PROVE  \E done : /\ AfterOf(rs, w, js) = done[Len(rs)] /\ done[0] = w
                   /\ \A n \in 1..Len(rs) : done[n] = OneMore(rs, done[n - 1], js, n)
<1> DEFINE L == Len(rs)
           Made(f, m) == f = [n \in 0..m |-> IF n = 0 THEN w ELSE OneMore(rs, f[n - 1], js, n)]
           S == {m \in 0..L : \E f : Made(f, m)}
<1>1. 0 \in S
  <2>1. Made([n \in 0..0 |-> w], 0)
    OBVIOUS
  <2>2. \E f : Made(f, 0)
    BY <2>1
  <2> HIDE DEF Made
  <2> QED BY <2>2
<1>2. \A m \in 1..L : m - 1 \in S => m \in S
  <2> SUFFICES ASSUME NEW m \in 1..L, NEW f, Made(f, m - 1)
               PROVE  \E g : Made(g, m)
    OBVIOUS
  <2> DEFINE g == [n \in 0..m |-> IF n = m THEN OneMore(rs, f[m - 1], js, m) ELSE f[n]]
  <2>1. \A n \in 0..(m - 1) : g[n] = f[n]
    OBVIOUS
  <2>2. \A n \in 0..m : g[n] = IF n = 0 THEN w ELSE OneMore(rs, g[n - 1], js, n)
    <3>1. \A n \in 0..(m - 1) : f[n] = IF n = 0 THEN w ELSE OneMore(rs, f[n - 1], js, n)
      OBVIOUS
    <3>2. \A n \in 0..(m - 1) : n # 0 => n - 1 \in 0..(m - 1)
      OBVIOUS
    <3>3. g[m] = OneMore(rs, f[m - 1], js, m) /\ g[m - 1] = f[m - 1] /\ m # 0
      OBVIOUS
    <3>4. \A n \in 0..m : n = m \/ n \in 0..(m - 1)
      OBVIOUS
    <3> HIDE DEF g
    <3> QED BY <2>1, <3>1, <3>2, <3>3, <3>4
  <2>3. Made(g, m)
    BY <2>2
  <2> QED BY <2>3
<1>3. L \in S
  <2>1. \A n \in 0..L : n \in S
    BY <1>1, <1>2, Reaches
  <2> QED BY <2>1
<1>4. PICK f : Made(f, L)
  BY <1>3
<1> DEFINE chosen == CHOOSE done : done =
             [n \in 0..L |-> IF n = 0 THEN w
                             ELSE IF n \in js THEN Apply(done[n - 1], rs[n].action) ELSE done[n - 1]]
<1>5. \E done : done = [n \in 0..L |-> IF n = 0 THEN w
                 ELSE IF n \in js THEN Apply(done[n - 1], rs[n].action) ELSE done[n - 1]]
  BY <1>4 DEF OneMore
<1>6. chosen = [n \in 0..L |-> IF n = 0 THEN w
         ELSE IF n \in js THEN Apply(chosen[n - 1], rs[n].action) ELSE chosen[n - 1]]
  BY <1>5
<1>7. AfterOf(rs, w, js) = chosen[L]
  BY DEF AfterOf
<1> HIDE DEF chosen
<1>8. chosen[0] = w
  BY <1>6
<1>9. \A n \in 1..L : chosen[n] = OneMore(rs, chosen[n - 1], js, n)
  BY <1>6 DEF OneMore
<1> QED BY <1>7, <1>8, <1>9

\* Rows with the same actions, and the same of them chosen, do the same.
LEMMA AfterSame ==
  ASSUME NEW rs, NEW ss, Len(rs) \in Nat, Len(ss) = Len(rs), NEW w, NEW js, NEW ks,
         \A n \in 1..Len(rs) : /\ ss[n].action = rs[n].action
                               /\ n \in js <=> n \in ks
  PROVE  AfterOf(ss, w, ks) = AfterOf(rs, w, js)
<1>1. PICK f : /\ AfterOf(rs, w, js) = f[Len(rs)] /\ f[0] = w
               /\ \A n \in 1..Len(rs) : f[n] = OneMore(rs, f[n - 1], js, n)
  BY AfterBooks
<1>2. PICK g : /\ AfterOf(ss, w, ks) = g[Len(rs)] /\ g[0] = w
               /\ \A n \in 1..Len(rs) : g[n] = OneMore(ss, g[n - 1], ks, n)
  BY AfterBooks
<1> DEFINE S == {n \in 0..Len(rs) : g[n] = f[n]}
<1>3. \A n \in 1..Len(rs) : n - 1 \in S => n \in S
  <2> SUFFICES ASSUME NEW n \in 1..Len(rs), g[n - 1] = f[n - 1]  PROVE g[n] = f[n]
    OBVIOUS
  <2> QED BY <1>1, <1>2 DEF OneMore
<1>4. 0 \in S
  BY <1>1, <1>2
<1>5. \A n \in 0..Len(rs) : n \in S
  BY <1>3, <1>4, Reaches
<1> QED BY <1>1, <1>2, <1>5

\* A cell has another value only by a write to it.
LEMMA AfterWrites ==
  ASSUME NEW rs, Len(rs) \in Nat, NEW w, NEW js, NEW c \in Cells,
         AfterOf(rs, w, js)[c].value # w[c].value
  PROVE  \E n \in 1..Len(rs) :
           n \in js /\ rs[n].action.kind = "write" /\ c \in rs[n].action.cells
<1> SUFFICES ASSUME \A n \in 1..Len(rs) :
                      n \in js => rs[n].action.kind # "write" \/ c \notin rs[n].action.cells
             PROVE  AfterOf(rs, w, js)[c].value = w[c].value
  OBVIOUS
<1>1. PICK f : /\ AfterOf(rs, w, js) = f[Len(rs)] /\ f[0] = w
               /\ \A n \in 1..Len(rs) : f[n] = OneMore(rs, f[n - 1], js, n)
  BY AfterBooks
<1> DEFINE S == {n \in 0..Len(rs) : f[n][c].value = w[c].value}
<1>2. \A n \in 1..Len(rs) : n - 1 \in S => n \in S
  <2> SUFFICES ASSUME NEW n \in 1..Len(rs), f[n - 1][c].value = w[c].value
               PROVE  f[n][c].value = w[c].value
    OBVIOUS
  <2>1. f[n] = OneMore(rs, f[n - 1], js, n)
    BY <1>1
  <2>2. CASE n \notin js
    BY <2>1, <2>2 DEF OneMore
  <2>3. CASE n \in js
    <3> DEFINE a == rs[n].action
    <3>1. f[n][c] = IF c \in a.cells THEN Changed(f[n - 1][c], a) ELSE f[n - 1][c]
      BY <2>1, <2>3 DEF OneMore, Apply
    <3>2. c \in a.cells => a.kind # "write"
      BY <2>3
    <3>3. a.kind # "write" => Changed(f[n - 1][c], a).value = f[n - 1][c].value
      BY DEF Changed
    <3> HIDE DEF a
    <3> QED BY <3>1, <3>2, <3>3
  <2> QED BY <2>2, <2>3
<1>3. 0 \in S
  BY <1>1
<1>4. \A n \in 0..Len(rs) : n \in S
  BY <1>2, <1>3, Reaches
<1> QED BY <1>1, <1>4

\* Actions on different cells may change places.
LEMMA ApplyCommutes ==
  ASSUME NEW v, NEW a, NEW b, a.cells \cap b.cells = {}
  PROVE  Apply(Apply(v, a), b) = Apply(Apply(v, b), a)
<1>1. \A c \in Cells : Apply(Apply(v, a), b)[c] = Apply(Apply(v, b), a)[c]
  <2> TAKE c \in Cells
  <2>1. Apply(v, a)[c] = (IF c \in a.cells THEN Changed(v[c], a) ELSE v[c])
    BY DEF Apply
  <2>2. Apply(v, b)[c] = (IF c \in b.cells THEN Changed(v[c], b) ELSE v[c])
    BY DEF Apply
  <2>3. Apply(Apply(v, a), b)[c] = IF c \in b.cells THEN Changed(Apply(v, a)[c], b) ELSE Apply(v, a)[c]
    BY DEF Apply
  <2>4. Apply(Apply(v, b), a)[c] = IF c \in a.cells THEN Changed(Apply(v, b)[c], a) ELSE Apply(v, b)[c]
    BY DEF Apply
  <2>5. ~(c \in a.cells /\ c \in b.cells)
    OBVIOUS
  <2> QED BY <2>1, <2>2, <2>3, <2>4, <2>5
<1>2. /\ Apply(Apply(v, a), b) = [c \in Cells |-> Apply(Apply(v, a), b)[c]]
      /\ Apply(Apply(v, b), a) = [c \in Cells |-> Apply(Apply(v, b), a)[c]]
  BY DEF Apply
<1> QED BY <1>1, <1>2

\* So a row may be approved before those that do not overlap it.
SameActions(rs, ss) ==
  Len(ss) = Len(rs) /\ \A n \in 1..Len(rs) : ss[n].action = rs[n].action
Apart(rs, js, i) ==
  \A n \in 1..Len(rs) : n \in js /\ n < i => rs[n].action.cells \cap rs[i].action.cells = {}

LEMMA AfterCommutes ==
  ASSUME NEW rs, NEW ss, Len(rs) \in Nat, SameActions(rs, ss),
         NEW w, NEW js, NEW i \in 1..Len(rs), i \in js, Apart(rs, js, i),
         NEW ks, ks = js \ {i}
  PROVE  AfterOf(ss, Apply(w, rs[i].action), ks) = AfterOf(rs, w, js)
<1> DEFINE a == rs[i].action
           L == Len(rs)
<1>0. /\ Len(ss) = L /\ \A n \in 1..L : ss[n].action = rs[n].action
      /\ \A n \in 1..L : n \in js /\ n < i => rs[n].action.cells \cap a.cells = {}
  BY DEF SameActions, Apart
<1>1. PICK f : /\ AfterOf(rs, w, js) = f[L] /\ f[0] = w
               /\ \A n \in 1..L : f[n] = OneMore(rs, f[n - 1], js, n)
  <2>1. Len(rs) \in Nat
    OBVIOUS
  <2> QED BY ONLY <2>1, AfterBooks
<1>2. PICK g : /\ AfterOf(ss, Apply(w, a), ks) = g[L] /\ g[0] = Apply(w, a)
               /\ \A n \in 1..L : g[n] = OneMore(ss, g[n - 1], ks, n)
  <2> DEFINE wa == Apply(w, a)
  <2> HIDE DEF wa
  <2>1. Len(ss) \in Nat /\ Len(ss) = L
    BY <1>0
  <2>2. \E g : /\ AfterOf(ss, wa, ks) = g[Len(ss)] /\ g[0] = wa
               /\ \A n \in 1..Len(ss) : g[n] = OneMore(ss, g[n - 1], ks, n)
    BY ONLY <2>1, AfterBooks
  <2> QED BY <2>1, <2>2 DEF wa
<1> DEFINE S == {n \in 0..L : g[n] = IF n < i THEN Apply(f[n], a) ELSE f[n]}
<1>3. \A n \in 1..L : n - 1 \in S => n \in S
  <2> SUFFICES ASSUME NEW n \in 1..L, g[n - 1] = IF n - 1 < i THEN Apply(f[n - 1], a) ELSE f[n - 1]
               PROVE  g[n] = IF n < i THEN Apply(f[n], a) ELSE f[n]
    OBVIOUS
  <2>1. f[n] = OneMore(rs, f[n - 1], js, n) /\ g[n] = OneMore(ss, g[n - 1], ks, n)
    BY <1>1, <1>2
  <2>2. ss[n].action = rs[n].action
    BY <1>0
  <2>3. CASE n < i
    <3>1. g[n - 1] = Apply(f[n - 1], a)
      BY <2>3
    <3>2. CASE n \in js
      <4>1. f[n] = Apply(f[n - 1], rs[n].action) /\ g[n] = Apply(g[n - 1], rs[n].action)
        BY <2>1, <2>2, <2>3, <3>2 DEF OneMore
      <4>2. rs[n].action.cells \cap a.cells = {}
        BY <1>0, <2>3, <3>2
      <4>3. Apply(Apply(f[n - 1], a), rs[n].action) = Apply(Apply(f[n - 1], rs[n].action), a)
        BY <4>2, ApplyCommutes
      <4> QED BY <2>3, <3>1, <4>1, <4>3
    <3>3. CASE n \notin js
      BY <2>1, <2>3, <3>1, <3>3 DEF OneMore
    <3> QED BY <3>2, <3>3
  <2>4. CASE n = i
    <3>1. g[n - 1] = Apply(f[n - 1], a)
      BY <2>4
    <3>2. f[n] = Apply(f[n - 1], a) /\ g[n] = g[n - 1]
      BY <2>1, <2>4 DEF OneMore
    <3> QED BY <2>4, <3>1, <3>2
  <2>5. CASE n > i
    <3>1. g[n - 1] = f[n - 1]
      BY <2>5
    <3>2. f[n] = g[n]
      BY <2>1, <2>2, <2>5, <3>1 DEF OneMore
    <3> QED BY <2>5, <3>2
  <2> QED BY <2>3, <2>4, <2>5
<1>4. 0 \in S
  BY <1>1, <1>2
<1>5. \A n \in 0..L : n \in S
  BY <1>3, <1>4, Reaches
<1> QED BY <1>1, <1>2, <1>5

-----------------------------------------------------------------------------
(* What rows record, and what the verifier and the report say of them.      *)

\* What is withheld means a user's cell as the occupancy map looks it up.
Gated(r, user) == r.status = "PENDING_APPROVAL" => ActionCells(r.action) \cap user # {}

\* What was applied recorded the cells before and after.
Recorded(r) ==
  r.status \in {"APPLIED", "UNDONE"} =>
    /\ r.was = r.prev
    /\ \A c \in r.action.cells : r.left[c] = Changed(r.was[c], r.action)

RecordInv == \A i \in 1..Len(rows) : Gated(rows[i], UserCells) /\ Recorded(rows[i])

\* A forecast is about rows there are, and none is kept during a turn.
ForecastInv ==
  /\ phase # "idle" => ~forecast.holds
  /\ forecast.holds => forecast.rows \subseteq 1..Len(rows)

ReportInv ==
  TypeInv /\ RecordInv /\ ForecastInv /\ ReportForetells /\ FindingsReachTheirActions

\* A row after a step that does not apply it.
KeptAs(r, s) ==
  /\ s.action = r.action /\ s.prev = r.prev /\ s.was = r.was /\ s.left = r.left
  /\ \/ s.status = r.status \/ s.status = "REJECTED"
     \/ r.status = "APPLIED" /\ s.status = "UNDONE"

LEMMA NotedIs ==
  ASSUME NEW r \in RowType, NEW N
  PROVE  LET s == [r EXCEPT !.noted = N]
         IN  /\ s.action = r.action /\ s.prev = r.prev /\ s.was = r.was /\ s.left = r.left
             /\ s.status = r.status /\ s.noted = N
  BY DEF RowType

LEMMA FlippedIs ==
  ASSUME NEW r \in RowType, NEW status
  PROVE  LET s == [r EXCEPT !.status = status]
         IN  /\ s.action = r.action /\ s.prev = r.prev /\ s.was = r.was /\ s.left = r.left
             /\ s.status = status
  BY DEF RowType

StagedRow(a) == Row(a, "PENDING_APPROVAL", FALSE, NoSnapshot, NoSnapshot)

LEMMA StagedIs ==
  ASSUME NEW a
  PROVE  StagedRow(a).action = a /\ StagedRow(a).status = "PENDING_APPROVAL"
<1> DEFINE none == NoSnapshot
<1> HIDE DEF none
<1>1. LET r == Row(a, "PENDING_APPROVAL", FALSE, none, none)
      IN  r.action = a /\ r.status = "PENDING_APPROVAL"
  BY DEF Row
<1> QED BY <1>1 DEF StagedRow, none

\* The row of an action that the run performs, and of one that is approved.
PerformedRow(w, a) == Row(a, "APPLIED", FALSE, Snapshot(w, a), Snapshot(Apply(w, a), a))
ApprovedRow(w, a, noted) ==
  [Row(a, "APPLIED", TRUE, Snapshot(w, a), Snapshot(Apply(w, a), a)) EXCEPT !.noted = noted]

LEMMA AppliedRecorded ==
  ASSUME NEW w \in Workbook, NEW a \in Proper, NEW r,
         r = PerformedRow(w, a) \/ \E noted : r = ApprovedRow(w, a, noted)
  PROVE  Recorded(r) /\ r.status = "APPLIED" /\ r.action = a
<1> DEFINE p == Snapshot(w, a)
           l == Snapshot(Apply(w, a), a)
<1>1. a.cells \subseteq Cells
  BY DEF Proper, Action
<1>2. \A c \in a.cells : l[c] = Changed(p[c], a)
  BY <1>1 DEF Snapshot, Apply
<1>3. /\ PerformedRow(w, a) = Row(a, "APPLIED", FALSE, p, l)
      /\ \A noted : ApprovedRow(w, a, noted) = [Row(a, "APPLIED", TRUE, p, l) EXCEPT !.noted = noted]
  BY DEF PerformedRow, ApprovedRow
<1> HIDE DEF p, l
<1>4. r.action = a /\ r.prev = p /\ r.was = p /\ r.left = l /\ r.status = "APPLIED"
  <2>1. CASE r = PerformedRow(w, a)
    BY <1>3, <2>1 DEF Row
  <2>2. ASSUME NEW noted, r = ApprovedRow(w, a, noted)
        PROVE  r.action = a /\ r.prev = p /\ r.was = p /\ r.left = l /\ r.status = "APPLIED"
    BY <1>3, <2>2 DEF Row
  <2> QED BY <2>1, <2>2
<1> QED BY <1>2, <1>4 DEF Recorded

\* The verifier changes nothing of a row but what it noted.
LEMMA VerifyNotes ==
  ASSUME TypeInv, Verify
  PROVE  /\ Len(rows') = Len(rows) /\ rows' \in Seq(RowType)
         /\ \A j \in 1..Len(rows) :
              /\ KeptAs(rows[j], rows'[j]) /\ rows'[j].status = rows[j].status
              /\ \A c \in Faulty(Clone) : j \in Blamed(c) => c \in rows'[j].noted
<1>1. PICK semantic \in {{}} \cup {{c} : c \in Cells} :
        LET findings == IF Faulty(Clone) # {} THEN Faulty(Clone) ELSE semantic
        IN  rows' = [j \in 1..Len(rows) |->
              [rows[j] EXCEPT !.noted = @ \cup {c \in findings : j \in Blamed(c)}]]
  BY DEF Verify
<1> DEFINE findings == IF Faulty(Clone) # {} THEN Faulty(Clone) ELSE semantic
           N(j) == rows[j].noted \cup {c \in findings : j \in Blamed(c)}
<1>2. \A c \in Faulty(Clone) : c \in findings
  OBVIOUS
<1> HIDE DEF findings
<1>3. \A j : \A c \in Faulty(Clone) : j \in Blamed(c) => c \in N(j)
  BY <1>2
<1>4. rows' = [j \in 1..Len(rows) |-> [rows[j] EXCEPT !.noted = N(j)]]
  BY <1>1 DEF findings
<1> HIDE DEF N
<1>5. \A j \in 1..Len(rows) : rows[j] \in RowType
  BY DEF TypeInv
<1>6. ASSUME NEW j \in 1..Len(rows)
      PROVE  /\ KeptAs(rows[j], rows'[j]) /\ rows'[j].status = rows[j].status
             /\ rows'[j].noted = N(j)
  <2>1. rows'[j] = [rows[j] EXCEPT !.noted = N(j)]
    BY <1>4
  <2> DEFINE s == [rows[j] EXCEPT !.noted = N(j)]
  <2>2. /\ s.action = rows[j].action /\ s.prev = rows[j].prev /\ s.was = rows[j].was
        /\ s.left = rows[j].left /\ s.status = rows[j].status /\ s.noted = N(j)
    BY <1>5, NotedIs
  <2> HIDE DEF s
  <2>3. rows'[j] = s
    BY <2>1 DEF s
  <2> QED BY <2>2, <2>3 DEF KeptAs
<1>7. rows' \in Seq(RowType) /\ Len(rows') = Len(rows)
  <2>1. rows' \in Seq(RowType)
    <3>1. TypeInv'
      BY TypeInvStep DEF Next
    <3> QED BY <3>1 DEF TypeInv
  <2>2. DOMAIN rows' = 1..Len(rows) /\ Len(rows) \in Nat
    BY <1>4 DEF TypeInv
  <2> QED BY <2>1, <2>2
<1> QED BY <1>3, <1>6, <1>7

-----------------------------------------------------------------------------
\* What a step makes of a row: it keeps it, withholds a new one, or applies one.
Withheld(r) == r.status = "PENDING_APPROVAL" /\ r.action \in Actions /\ Blocked(r.action)
Applied(r)  ==
  /\ r.status = "APPLIED" /\ Recorded(r)
  /\ \/ r.action \in Actions
     \/ \E j \in 1..Len(rows) : r.action.form = rows[j].action.form

LEMMA KeptIs ==
  ASSUME NEW r \in RowType
  PROVE  /\ KeptAs(r, r) /\ KeptAs(r, [r EXCEPT !.status = "REJECTED"])
         /\ r.status = "APPLIED" => KeptAs(r, [r EXCEPT !.status = "UNDONE"])
<1>1. \A status : LET s == [r EXCEPT !.status = status]
                  IN  /\ s.action = r.action /\ s.prev = r.prev /\ s.was = r.was
                      /\ s.left = r.left /\ s.status = status
  BY FlippedIs
<1> QED BY <1>1 DEF KeptAs

LEMMA RowsAfter ==
  ASSUME TypeInv, [Next]_vars, NEW k \in 1..Len(rows')
  PROVE  \/ k \in 1..Len(rows) /\ KeptAs(rows[k], rows'[k])
         \/ Withheld(rows'[k]) \/ Applied(rows'[k])
<1>1. /\ rows \in Seq(RowType) /\ Len(rows) \in Nat /\ DOMAIN rows = 1..Len(rows)
      /\ \A j \in 1..Len(rows) : rows[j] \in RowType
      /\ file \in Workbook /\ book \in Workbook /\ committed \in 0..Len(rows)
  BY DEF TypeInv
<1>2. \A j \in 1..Len(rows) : KeptAs(rows[j], rows[j])
  BY <1>1, KeptIs
<1>3. CASE UNCHANGED rows
  BY <1>2, <1>3
<1>4. ASSUME NEW a \in Actions, Stage(a) PROVE Withheld(rows'[k]) \/ (k \in 1..Len(rows) /\ rows'[k] = rows[k])
  <2> DEFINE r == StagedRow(a)
  <2>1. rows' = Append(rows, r) /\ Blocked(a)
    BY <1>4 DEF Stage, StagedRow
  <2>2. Withheld(r)
    BY <2>1, StagedIs DEF Withheld
  <2> HIDE DEF r
  <2>3. (k \in 1..Len(rows) /\ rows'[k] = rows[k]) \/ rows'[k] = r
    BY <1>1, <2>1
  <2> QED BY <2>2, <2>3
<1>5. ASSUME NEW a \in Actions, Perform(a) PROVE Applied(rows'[k]) \/ (k \in 1..Len(rows) /\ rows'[k] = rows[k])
  <2> DEFINE r == PerformedRow(book, a)
  <2>1. rows' = Append(rows, r)
    BY <1>5 DEF Perform, PerformedRow
  <2>2. Recorded(r) /\ r.status = "APPLIED" /\ r.action = a
    BY <1>1, ProperActions, AppliedRecorded
  <2> HIDE DEF r
  <2>3. Applied(r)
    BY <2>2 DEF Applied
  <2>4. (k \in 1..Len(rows) /\ rows'[k] = rows[k]) \/ rows'[k] = r
    BY <1>1, <2>1
  <2> QED BY <2>3, <2>4
<1>6. CASE Verify
  BY <1>6, VerifyNotes
<1>7. CASE TurnFails
  <2>1. rows' = SubSeq(rows, 1, committed)
    BY <1>7 DEF TurnFails
  <2>2. k \in 1..Len(rows) /\ rows'[k] = rows[k]
    BY <1>1, <2>1
  <2> QED BY <1>2, <2>2
<1>8. ASSUME NEW i \in 1..Len(rows), Approve(i)
      PROVE  Applied(rows'[k]) \/ (k \in 1..Len(rows) /\ rows'[k] = rows[k])
  <2> DEFINE a == rows[i].action
             s == ApprovedRow(file, a, rows[i].noted)
  <2>1. rows' = [rows EXCEPT ![i] = s]
    BY <1>8 DEF Approve, ApprovedRow
  <2>2. a \in Proper
    BY <1>1, RowParts
  <2> HIDE DEF a
  <2>3. Recorded(s) /\ s.status = "APPLIED" /\ s.action = a
    BY <1>1, <2>2, AppliedRecorded
  <2> HIDE DEF s
  <2>4. Applied(s)
    BY <2>3 DEF Applied, a
  <2>5. k \in 1..Len(rows) /\ (rows'[k] = rows[k] \/ rows'[k] = s)
    BY <1>1, <2>1
  <2> QED BY <2>4, <2>5
<1>9. ASSUME NEW i \in 1..Len(rows), Reject(i)
      PROVE  k \in 1..Len(rows) /\ KeptAs(rows[k], rows'[k])
  <2> DEFINE s == [rows[i] EXCEPT !.status = "REJECTED"]
  <2>1. rows' = [rows EXCEPT ![i] = s]
    BY <1>9 DEF Reject
  <2>2. KeptAs(rows[i], s)
    BY <1>1, KeptIs
  <2> HIDE DEF s
  <2>3. k \in 1..Len(rows) /\ rows'[k] = IF k = i THEN s ELSE rows[k]
    BY <1>1, <2>1
  <2> QED BY <1>2, <2>2, <2>3
<1>10. ASSUME NEW i \in 1..Len(rows), Undo(i)
       PROVE  (k \in 1..Len(rows) /\ KeptAs(rows[k], rows'[k])) \/ Applied(rows'[k])
  <2> DEFINE a == Inverse(rows[i])
             s == [rows[i] EXCEPT !.status = "UNDONE"]
             t == [rows EXCEPT ![i] = s]
             r == PerformedRow(file, a)
  <2>1. /\ rows' = Append(t, r) /\ rows[i].status = "APPLIED" /\ rows[i].action.form # "range"
    BY <1>10 DEF Undo, PerformedRow
  <2>2. a \in Proper /\ a.form = rows[i].action.form
    BY <1>1, <2>1, InverseType DEF TypeInv
  <2>3. KeptAs(rows[i], s)
    BY <1>1, <2>1, KeptIs
  <2> HIDE DEF a
  <2>4. Recorded(r) /\ r.status = "APPLIED" /\ r.action = a
    BY <1>1, <2>2, AppliedRecorded
  <2> HIDE DEF r, s
  <2>5. Applied(r)
    BY <2>2, <2>4 DEF Applied
  <2>6. /\ t \in Seq({s} \cup RowType) /\ Len(t) = Len(rows)
        /\ \A j \in 1..Len(rows) : t[j] = IF j = i THEN s ELSE rows[j]
    BY <1>1
  <2> HIDE DEF t
  <2>7. rows'[k] = r \/ (k \in 1..Len(rows) /\ rows'[k] = t[k])
    BY <1>1, <2>1, <2>6
  <2> QED BY <1>2, <2>3, <2>5, <2>6, <2>7
<1>11. StartTurn \/ CommitStep \/ SaveTurn \/ UNCHANGED vars => UNCHANGED rows
  BY DEF StartTurn, CommitStep, SaveTurn, vars
<1> QED
  BY <1>2, <1>3, <1>4, <1>5, <1>6, <1>7, <1>8, <1>9, <1>10, <1>11 DEF Next

\* The upload does not change, so neither do the cells that are the user's.
LEMMA SameUserCells == [Next]_vars => UserCells' = UserCells
<1>1. [Next]_vars => original' = original
  BY DEF Next, StartTurn, Stage, Perform, CommitStep, Verify, SaveTurn, TurnFails,
         Approve, Reject, Undo, vars
<1> QED BY <1>1 DEF UserCells

LEMMA RecordStep == TypeInv /\ RecordInv /\ [Next]_vars => RecordInv'
<1> SUFFICES ASSUME TypeInv, RecordInv, [Next]_vars, NEW k \in 1..Len(rows')
             PROVE  Gated(rows'[k], UserCells) /\ Recorded(rows'[k])
  BY SameUserCells DEF RecordInv
<1> DEFINE s == rows'[k]
<1>1. CASE k \in 1..Len(rows) /\ KeptAs(rows[k], s)
  <2>1. Gated(rows[k], UserCells) /\ Recorded(rows[k])
    BY <1>1 DEF RecordInv
  <2> DEFINE r == rows[k]
  <2> HIDE DEF r, s
  <2>2. Gated(r, UserCells) /\ Recorded(r) /\ KeptAs(r, s)
    BY <1>1, <2>1 DEF r
  <2>3. Gated(s, UserCells)
    BY <2>2 DEF Gated, KeptAs
  <2>4. Recorded(s)
    BY <2>2 DEF Recorded, KeptAs
  <2> QED BY <2>3, <2>4 DEF s
<1>2. CASE Withheld(s)
  BY <1>2 DEF Withheld, Gated, Recorded, Blocked
<1>3. CASE Applied(s)
  BY <1>3 DEF Applied, Gated
<1> QED BY <1>1, <1>2, <1>3, RowsAfter

LEMMA ForecastStep == TypeInv /\ ForecastInv /\ [Next]_vars => ForecastInv'
<1> SUFFICES ASSUME TypeInv, ForecastInv, [Next]_vars PROVE ForecastInv'
  OBVIOUS
<1>1. Len(rows) \in Nat /\ base \in 0..Len(rows) /\ rows \in Seq(RowType)
  BY DEF TypeInv
<1>2. ~NoForecast.holds
  BY DEF NoForecast
<1>3. CASE StartTurn \/ \E i \in 1..Len(rows) : Reject(i) \/ Undo(i)
  BY <1>2, <1>3 DEF StartTurn, Reject, Undo, ForecastInv
<1>4. CASE CommitStep \/ Verify \/ TurnFails \/ \E a \in Actions : Stage(a) \/ Perform(a)
  <2>1. phase # "idle" /\ forecast' = forecast
    BY <1>4 DEF CommitStep, Verify, TurnFails, Stage, Perform
  <2> QED BY <2>1 DEF ForecastInv
<1>5. CASE SaveTurn
  <2>1. /\ forecast' = [rows |-> Pending(ThisTurn), faulty |-> Faulty(Clone), holds |-> TRUE]
        /\ rows' = rows /\ phase' = "idle"
    BY <1>5 DEF SaveTurn
  <2>2. Pending(ThisTurn) \subseteq 1..Len(rows)
    BY <1>1 DEF Pending, ThisTurn
  <2> QED BY <2>1, <2>2 DEF ForecastInv
<1>6. ASSUME NEW i \in 1..Len(rows), Approve(i) PROVE ForecastInv'
  <2>1. /\ forecast' = forecast \/ forecast' = NoForecast
        /\ phase = "idle" /\ phase' = "idle"
    BY <1>6 DEF Approve
  <2>2. Len(rows') = Len(rows)
    BY <1>1, <1>6 DEF Approve
  <2> QED BY <1>2, <2>1, <2>2 DEF ForecastInv
<1>7. CASE UNCHANGED vars
  BY <1>7 DEF ForecastInv, vars
<1> QED BY <1>3, <1>4, <1>5, <1>6, <1>7 DEF Next

LEMMA CloneIs ==
  /\ Clone = AfterOf(rows, book, Pending(ThisTurn))
  /\ Clone' = AfterOf(rows', book', Pending(ThisTurn)')
  BY DEF Clone, After, AfterOf

LEMMA ReportIs ==
  /\ After(file, Pending(forecast.rows)) = AfterOf(rows, file, Pending(forecast.rows))
  /\ After(file, Pending(forecast.rows))' = AfterOf(rows', file', Pending(forecast.rows)')
  BY DEF After, AfterOf

\* Only the verifier makes a turn verified.
LEMMA OnlyVerify ==
  ASSUME [Next]_vars, phase' = "verified", ~Verify
  PROVE  UNCHANGED vars
  BY DEF Next, StartTurn, Stage, Perform, CommitStep, SaveTurn, TurnFails,
         Approve, Reject, Undo, vars

LEMMA FindingsStep ==
  TypeInv /\ RecordInv /\ FindingsReachTheirActions /\ [Next]_vars => FindingsReachTheirActions'
<1> SUFFICES ASSUME TypeInv, RecordInv, FindingsReachTheirActions, [Next]_vars
             PROVE  FindingsReachTheirActions'
  OBVIOUS
<1>1. CASE UNCHANGED vars
  <2>1. /\ phase' = phase /\ book' = book /\ rows' = rows /\ base' = base
    BY <1>1 DEF vars
  <2> QED BY <2>1 DEF FindingsReachTheirActions, Clone, After, Pending, ThisTurn
<1>2. CASE Verify
  <2> DEFINE P == Pending(ThisTurn)
             L == Len(rows)
  <2>1. /\ L \in Nat /\ base \in Nat /\ P \subseteq 1..L
        /\ P = {j \in (base + 1)..L : rows[j].status = "PENDING_APPROVAL"}
    BY DEF TypeInv, Pending, ThisTurn
  <2>2. Len(rows') = L /\ base' = base /\ book' = book
    BY <1>2, VerifyNotes DEF Verify
  <2>3. \A j \in 1..L : /\ rows'[j].action = rows[j].action /\ rows'[j].status = rows[j].status
                        /\ \A c \in Faulty(Clone) : j \in Blamed(c) => c \in rows'[j].noted
    BY <1>2, VerifyNotes DEF KeptAs
  <2>4. Pending(ThisTurn)' = P
    <3>1. Pending(ThisTurn)' = {j \in (base' + 1)..Len(rows') : rows'[j].status = "PENDING_APPROVAL"}
      BY DEF Pending, ThisTurn
    <3>2. \A j \in (base + 1)..L : rows'[j].status = rows[j].status
      BY <2>1, <2>3
    <3> QED BY <2>1, <2>2, <3>1, <3>2
  <2>5. Clone = AfterOf(rows, book, P) /\ Clone' = AfterOf(rows', book, P)
    BY <2>2, <2>4, CloneIs
  <2> HIDE DEF P
  <2>6. Clone' = Clone
    <3>1. Len(rows) \in Nat /\ Len(rows') = Len(rows)
          /\ \A n \in 1..Len(rows) : rows'[n].action = rows[n].action
      BY <2>1, <2>2, <2>3
    <3>2. AfterOf(rows', book, P) = AfterOf(rows, book, P)
      BY <3>1, AfterSame
    <3> QED BY <2>5, <3>2
  <2>7. ASSUME NEW c \in Faulty(Clone), Clone[c].value # book[c].value
        PROVE  \E j \in P : c \in rows'[j].noted /\ c \in rows'[j].action.cells
    <3>1. c \in Cells
      BY DEF Faulty
    <3>2. PICK n \in 1..L : n \in P /\ c \in rows[n].action.cells /\ rows[n].action.kind = "write"
      BY <2>1, <2>5, <2>7, <3>1, AfterWrites
    <3>3. c \in ActionCells(rows[n].action)
      <4>1. Gated(rows[n], UserCells) /\ rows[n].status = "PENDING_APPROVAL"
        BY <2>1, <3>2 DEF RecordInv
      <4>2. ActionCells(rows[n].action) # {}
        BY <4>1 DEF Gated
      <4> QED BY <3>2, <4>2 DEF ActionCells
    <3> DEFINE touching == {j \in P : c \in ActionCells(rows[j].action)}
    <3>4. n \in touching /\ touching \in SUBSET Nat /\ touching \subseteq P
      BY <2>1, <3>2, <3>3
    <3>5. Blamed(c) = {j \in touching : \A k \in touching : j <= k}
      BY DEF Blamed, P
    <3>6. \A j \in touching : c \in rows[j].action.cells
      BY DEF ActionCells
    <3> HIDE DEF touching
    <3>7. PICK j \in touching : \A k \in touching : j <= k
      BY <3>4, LeastNat
    <3>8. j \in Blamed(c) /\ j \in P /\ j \in 1..L
      BY <2>1, <3>4, <3>5, <3>7
    <3>9. c \in rows'[j].noted /\ c \in rows'[j].action.cells
      BY <2>3, <3>6, <3>7, <3>8
    <3> QED BY <3>8, <3>9
  <2> QED BY <2>2, <2>4, <2>6, <2>7 DEF FindingsReachTheirActions
<1>3. CASE phase' # "verified"
  BY <1>3 DEF FindingsReachTheirActions
<1> QED BY <1>1, <1>2, <1>3, OnlyVerify

LEMMA ReportStep ==
  TypeInv /\ ForecastInv /\ ReportForetells /\ [Next]_vars => ReportForetells'
<1> SUFFICES ASSUME TypeInv, ForecastInv, ReportForetells, [Next]_vars,
                    phase' = "idle", forecast'.holds
             PROVE  Faulty(After(file, Pending(forecast.rows)))' = forecast'.faulty
  BY DEF ReportForetells
<1>1. /\ Len(rows) \in Nat /\ base \in Nat /\ rows \in Seq(RowType) /\ DOMAIN rows = 1..Len(rows)
      /\ \A j \in 1..Len(rows) : rows[j] \in RowType
  BY DEF TypeInv
<1>2. ~NoForecast.holds
  BY DEF NoForecast
<1>3. Faulty(After(file, Pending(forecast.rows)))'
        = Faulty(AfterOf(rows', file', Pending(forecast.rows)'))
  BY ReportIs DEF Faulty
<1>4. CASE SaveTurn
  <2>1. /\ forecast' = [rows |-> Pending(ThisTurn), faulty |-> Faulty(Clone), holds |-> TRUE]
        /\ rows' = rows /\ file' = book
    BY <1>4 DEF SaveTurn
  <2> DEFINE P == Pending(ThisTurn)
  <2>2. forecast'.rows = P /\ forecast'.faulty = Faulty(Clone)
    BY <2>1
  <2>3. Pending(forecast.rows)' = {j \in forecast'.rows : rows'[j].status = "PENDING_APPROVAL"}
    BY DEF Pending
  <2>4. {j \in P : rows[j].status = "PENDING_APPROVAL"} = P
    BY DEF Pending
  <2>5. Pending(forecast.rows)' = P
    BY <2>1, <2>2, <2>3, <2>4
  <2>6. Clone = AfterOf(rows, book, P)
    BY CloneIs
  <2> HIDE DEF P
  <2>7. AfterOf(rows', file', Pending(forecast.rows)') = Clone
    BY <2>1, <2>5, <2>6
  <2> QED BY <1>3, <2>2, <2>7
<1>5. ASSUME NEW i \in 1..Len(rows), Approve(i)
      PROVE  Faulty(After(file, Pending(forecast.rows)))' = forecast'.faulty
  <2> DEFINE a == rows[i].action
             P == Pending(forecast.rows)
             s == ApprovedRow(file, a, rows[i].noted)
  <2>1. /\ phase = "idle" /\ rows[i].status = "PENDING_APPROVAL" /\ file' = Apply(file, a)
        /\ rows' = [rows EXCEPT ![i] = s]
        /\ forecast' = IF InOrder(i) THEN forecast ELSE NoForecast
    BY <1>5 DEF Approve, ApprovedRow
  <2>2. InOrder(i) /\ forecast' = forecast
    BY <1>2, <2>1
  <2>3. s.action = a /\ s.status = "APPLIED"
    <3>1. a \in Proper /\ file \in Workbook
      BY <1>1, RowParts DEF TypeInv
    <3> HIDE DEF a
    <3> QED BY <3>1, AppliedRecorded
  <2> HIDE DEF s
  <2>4. /\ Len(rows') = Len(rows) /\ \A j \in 1..Len(rows) : rows'[j] = IF j = i THEN s ELSE rows[j]
    BY <1>1, <2>1
  <2>5. \A n \in 1..Len(rows) : rows'[n].action = rows[n].action
    BY <2>3, <2>4
  <2>6. /\ P = {j \in forecast.rows : rows[j].status = "PENDING_APPROVAL"}
        /\ Pending(forecast.rows)' = {j \in forecast'.rows : rows'[j].status = "PENDING_APPROVAL"}
    BY DEF Pending
  <2>7. forecast.rows \subseteq 1..Len(rows) /\ i \in forecast.rows
    BY <2>1, <2>2, <1>2 DEF ForecastInv, InOrder
  <2>8. Pending(forecast.rows)' = P \ {i} /\ i \in P /\ P \subseteq 1..Len(rows)
    BY <2>1, <2>2, <2>3, <2>4, <2>6, <2>7
  <2>9. Apart(rows, P, i)
    BY <2>2 DEF InOrder, Apart
  <2> HIDE DEF P
  <2>10. AfterOf(rows', Apply(file, rows[i].action), P \ {i}) = AfterOf(rows, file, P)
    <3> DEFINE new == rows'
    <3> HIDE DEF new
    <3>1. SameActions(rows, new) /\ Len(rows) \in Nat /\ i \in P
      BY <1>1, <2>4, <2>5, <2>8 DEF new, SameActions
    <3> DEFINE rest == P \ {i}
    <3> HIDE DEF rest
    <3>2. AfterOf(new, Apply(file, rows[i].action), rest) = AfterOf(rows, file, P)
      <4>1. rest = P \ {i}
        BY DEF rest
      <4> QED BY <2>9, <3>1, <4>1, AfterCommutes
    <3> QED BY <3>2 DEF new, rest
  <2>11. Faulty(AfterOf(rows, file, P)) = forecast.faulty
    <3>1. After(file, Pending(forecast.rows)) = AfterOf(rows, file, P)
      BY ReportIs DEF P
    <3> QED BY <2>1, <2>2, <3>1 DEF ReportForetells
  <2>12. AfterOf(rows', file', Pending(forecast.rows)') = AfterOf(rows, file, P)
    BY <2>1, <2>8, <2>10
  <2> QED BY <1>3, <2>2, <2>11, <2>12
<1>6. CASE UNCHANGED vars
  <2>1. UNCHANGED <<phase, forecast, rows, file>>
    BY <1>6 DEF vars
  <2> QED BY <2>1 DEF ReportForetells, After, Pending, Faulty
<1>7. ASSUME StartTurn \/ CommitStep \/ Verify \/ \E a \in Actions : Stage(a) \/ Perform(a)
      PROVE  FALSE
  BY <1>7 DEF StartTurn, CommitStep, Verify, Stage, Perform
<1>8. ASSUME TurnFails PROVE FALSE
  BY <1>8 DEF TurnFails, ForecastInv
<1>9. ASSUME \E i \in 1..Len(rows) : Reject(i) \/ Undo(i) PROVE FALSE
  BY <1>2, <1>9 DEF Reject, Undo
<1> QED BY <1>4, <1>5, <1>6, <1>7, <1>8, <1>9 DEF Next

LEMMA InitReport == Init => ReportInv
<1> SUFFICES ASSUME Init PROVE ReportInv
  OBVIOUS
<1>1. TypeInv
  BY InitTypeInv
<1>2. Len(rows) = 0 /\ phase = "idle" /\ forecast = NoForecast
  BY DEF Init
<1>3. ~NoForecast.holds
  BY DEF NoForecast
<1> QED BY <1>1, <1>2, <1>3
      DEF ReportInv, RecordInv, ForecastInv, ReportForetells, FindingsReachTheirActions

LEMMA ReportInvStep == ReportInv /\ [Next]_vars => ReportInv'
  BY TypeInvStep, RecordStep, ForecastStep, ReportStep, FindingsStep DEF ReportInv

LEMMA ReportInvHolds == Spec => []ReportInv
  BY InitReport, ReportInvStep, PTL DEF Spec

\* What the verifier's deterministic levels find on the clone, in a cell that a
\* withheld action would change, is noted on a withheld action that would write
\* this cell: for every set of actions, spelled as they may be, since what is
\* withheld was found by its cells.
THEOREM FindingsReach == Spec => []FindingsReachTheirActions
<1>1. ReportInv => FindingsReachTheirActions
  BY DEF ReportInv
<1> QED BY <1>1, ReportInvHolds, PTL

\* The faults a finished turn's report foresaw are those the saved workbook has
\* once the turn's withheld rows are approved, whichever of them were approved
\* before, in an order that keeps the turn's where they overlap.
THEOREM ForecastHolds == Spec => []ReportForetells
<1>1. ReportInv => ReportForetells
  BY DEF ReportInv
<1> QED BY <1>1, ReportInvHolds, PTL

-----------------------------------------------------------------------------
(* Undo.                                                                     *)

PlainInv == \A i \in 1..Len(rows) : rows[i].action.form # "spelled"

LEMMA PlainStep ==
  ASSUME NoSpelling, TypeInv, PlainInv, [Next]_vars
  PROVE  PlainInv'
<1> SUFFICES ASSUME NEW k \in 1..Len(rows') PROVE rows'[k].action.form # "spelled"
  BY DEF PlainInv
<1>1. CASE k \in 1..Len(rows) /\ KeptAs(rows[k], rows'[k])
  BY <1>1 DEF PlainInv, KeptAs
<1>2. CASE Withheld(rows'[k])
  BY <1>2 DEF NoSpelling, Withheld
<1>3. CASE Applied(rows'[k])
  BY <1>3 DEF NoSpelling, PlainInv, Applied
<1> QED BY <1>1, <1>2, <1>3, RowsAfter

\* A row is undone only by the request that undoes it.
LEMMA UndoneBy ==
  ASSUME TypeInv, Next, NEW i \in 1..Len(rows), UndoneNow(i)
  PROVE  Undo(i)
<1>1. /\ rows \in Seq(RowType) /\ Len(rows) \in Nat /\ DOMAIN rows = 1..Len(rows)
      /\ \A j \in 1..Len(rows) : rows[j] \in RowType
      /\ committed \in 0..Len(rows)
  BY DEF TypeInv
<1>2. i \in DOMAIN rows' /\ rows'[i].status # rows[i].status /\ rows'[i].status = "UNDONE"
  BY DEF UndoneNow
<1>3. ASSUME NEW r, rows' = Append(rows, r) PROVE FALSE
  <2>1. rows'[i] = rows[i]
    BY <1>1, <1>3
  <2> QED BY <1>2, <2>1
<1>4. ASSUME \E a \in Actions : Stage(a) \/ Perform(a) PROVE FALSE
  BY <1>3, <1>4 DEF Stage, Perform
<1>5. ASSUME Verify PROVE FALSE
  BY <1>2, <1>5, VerifyNotes
<1>6. ASSUME TurnFails PROVE FALSE
  <2>1. rows' = SubSeq(rows, 1, committed)
    BY <1>6 DEF TurnFails
  <2>2. DOMAIN rows' = 1..committed /\ \A j \in 1..committed : rows'[j] = rows[j]
    BY <1>1, <2>1
  <2> QED BY <1>2, <2>2
<1>7. ASSUME NEW k \in 1..Len(rows), Approve(k) PROVE FALSE
  <2> DEFINE a == rows[k].action
             s == ApprovedRow(file, a, rows[k].noted)
  <2>1. rows' = [rows EXCEPT ![k] = s]
    BY <1>7 DEF Approve, ApprovedRow
  <2>2. s.status = "APPLIED"
    <3>1. a \in Proper /\ file \in Workbook
      BY <1>1, RowParts DEF TypeInv
    <3> HIDE DEF a
    <3> QED BY <3>1, AppliedRecorded
  <2> HIDE DEF s
  <2>3. rows'[i] = IF i = k THEN s ELSE rows[i]
    BY <1>1, <2>1
  <2> QED BY <1>2, <2>2, <2>3
<1>8. ASSUME NEW k \in 1..Len(rows), Reject(k) PROVE FALSE
  <2> DEFINE s == [rows[k] EXCEPT !.status = "REJECTED"]
  <2>1. rows' = [rows EXCEPT ![k] = s]
    BY <1>8 DEF Reject
  <2>2. s.status = "REJECTED"
    BY <1>1, FlippedIs
  <2> HIDE DEF s
  <2>3. rows'[i] = IF i = k THEN s ELSE rows[i]
    BY <1>1, <2>1
  <2> QED BY <1>2, <2>2, <2>3
<1>9. ASSUME NEW k \in 1..Len(rows), Undo(k) PROVE k = i
  <2> SUFFICES ASSUME k # i PROVE FALSE
    OBVIOUS
  <2> DEFINE s == [rows[k] EXCEPT !.status = "UNDONE"]
             t == [rows EXCEPT ![k] = s]
  <2>1. PICK r : rows' = Append(t, r)
    BY <1>9 DEF Undo
  <2> HIDE DEF s
  <2>2. t \in Seq({s} \cup RowType) /\ Len(t) = Len(rows) /\ t[i] = rows[i]
    BY <1>1
  <2> HIDE DEF t
  <2>3. rows'[i] = rows[i]
    BY <1>1, <2>1, <2>2
  <2> QED BY <1>2, <2>3
<1>10. ASSUME StartTurn \/ CommitStep \/ SaveTurn PROVE FALSE
  BY <1>2, <1>10 DEF StartTurn, CommitStep, SaveTurn
<1> QED BY <1>4, <1>5, <1>6, <1>7, <1>8, <1>9, <1>10 DEF Next

\* What the inverse of a change makes of the changed cell.
LEMMA Unchanged ==
  ASSUME NEW x \in Content, NEW a \in Action, NEW b, b.kind = a.kind,
         a.kind = "write" => b.value = x.value,
         a.kind = "format" => /\ b.number = x.number
                              /\ b.bold = IF x.font = "bold" THEN "yes" ELSE "no",
         a.kind = "width" => b.width = x.width
  PROVE  Untinted(Changed(Changed(x, a), b)) = Untinted(x)
<1> DEFINE y == Changed(x, a)
           z == Changed(y, b)
<1>1. a.kind \in {"write", "format", "width"}
  BY DEF Action
<1>2. /\ x = [value |-> x.value, number |-> x.number, font |-> x.font, width |-> x.width,
              merged |-> x.merged]
      /\ x.number \in Numbers
  BY DEF Content
<1>3. /\ y.value = (IF a.kind = "write" THEN a.value ELSE x.value)
      /\ y.number = (IF a.kind = "format" /\ a.number # Keep THEN a.number ELSE x.number)
      /\ y.font = (IF a.kind = "format" THEN Font(x.font, a.bold) ELSE x.font)
      /\ y.width = (IF a.kind = "width" THEN a.width ELSE x.width)
      /\ y.merged = x.merged
  BY DEF Changed
<1>4. Keep \notin Numbers
  BY DEF Keep, Numbers
<1> HIDE DEF y
<1>5. z = [value  |-> IF b.kind = "write" THEN b.value ELSE y.value,
           number |-> IF b.kind = "format" /\ b.number # Keep THEN b.number ELSE y.number,
           font   |-> IF b.kind = "format" THEN Font(y.font, b.bold) ELSE y.font,
           width  |-> IF b.kind = "width" THEN b.width ELSE y.width,
           merged |-> y.merged]
  BY DEF Changed
<1> DEFINE plainer(f) == IF f = "bold" THEN "bold" ELSE "plain"
<1>6. (IF b.kind = "write" THEN b.value ELSE y.value) = x.value
  BY <1>1, <1>3
<1>7. (IF b.kind = "format" /\ b.number # Keep THEN b.number ELSE y.number) = x.number
  BY <1>1, <1>2, <1>3, <1>4
<1>8. plainer(IF b.kind = "format" THEN Font(y.font, b.bold) ELSE y.font) = plainer(x.font)
  BY <1>1, <1>3 DEF Font, Keep
<1>9. (IF b.kind = "width" THEN b.width ELSE y.width) = x.width
  BY <1>1, <1>3
<1> DEFINE f == IF b.kind = "format" THEN Font(y.font, b.bold) ELSE y.font
<1>10. z = [value |-> x.value, number |-> x.number, font |-> f, width |-> x.width,
            merged |-> x.merged]
  BY <1>3, <1>5, <1>6, <1>7, <1>9
<1>11. plainer(f) = plainer(x.font)
  BY <1>8
<1> HIDE DEF f, z
<1>12. Untinted(z) = [value |-> x.value, number |-> x.number, font |-> plainer(f),
                      width |-> x.width, merged |-> x.merged]
  BY <1>10 DEF Untinted
<1>13. Untinted(x) = [value |-> x.value, number |-> x.number, font |-> plainer(x.font),
                      width |-> x.width, merged |-> x.merged]
  BY <1>2 DEF Untinted
<1> QED BY <1>11, <1>12, <1>13 DEF y, z

LEMMA UndoneCell ==
  ASSUME TypeInv, RecordInv, PlainInv, NEW i \in 1..Len(rows), Undo(i),
         NEW c \in rows[i].action.cells, file[c] = rows[i].left[c]
  PROVE  Untinted(file'[c]) = Untinted(rows[i].was[c])
<1> DEFINE r == rows[i]
           a == r.action
           b == Inverse(r)
           x == r.prev[c]
<1>1. file' = Apply(file, b) /\ r.status = "APPLIED" /\ a.form # "range"
  BY DEF Undo
<1>2. r \in RowType /\ Snapped(r) /\ Recorded(r) /\ a.form # "spelled"
  BY DEF TypeInv, RecordInv, PlainInv
<1>3. a \in Action /\ \E d \in Cells : a.cells = {d}
  BY <1>1, <1>2 DEF RowType, Proper
<1>4. a.form = "plain" /\ c \in Cells /\ a.cells = {c}
  BY <1>1, <1>2, <1>3 DEF Action
<1>5. x \in Content
  BY <1>1, <1>2, <1>4 DEF Snapped
<1>6. r.was[c] = x /\ file[c] = Changed(x, a)
  BY <1>1, <1>2 DEF Recorded
<1>7. (CHOOSE d \in a.cells : TRUE) = c
  BY <1>4
<1>8. /\ b.kind = a.kind /\ b.cells = a.cells
      /\ a.kind = "write" => b.value = x.value
      /\ a.kind = "format" => /\ b.number = x.number
                              /\ b.bold = IF x.font = "bold" THEN "yes" ELSE "no"
      /\ a.kind = "width" => b.width = x.width
  BY <1>4, <1>7 DEF Inverse
<1> HIDE DEF b, x
<1>9. file'[c] = Changed(file[c], b)
  BY <1>1, <1>4, <1>8 DEF Apply
<1>10. Untinted(Changed(Changed(x, a), b)) = Untinted(x)
  BY <1>3, <1>5, <1>8, Unchanged
<1> QED BY <1>6, <1>9, <1>10

\* Undoing what wrote last to its cell gives the cell back, but for what no field
\* of format_cell can express, for every upload, set of actions and bound, if the
\* model spells targets plainly.
THEOREM UndoGivesBack == ASSUME NoSpelling PROVE Spec => UndoRestores
<1> DEFINE Inv == TypeInv /\ RecordInv /\ PlainInv
           Restored == \A i \in 1..Len(rows) :
             (UndoneNow(i) /\ \A c \in rows[i].action.cells : file[c] = rows[i].left[c])
               => \A c \in rows[i].action.cells :
                    Untinted(file'[c]) = Untinted(rows[i].was[c])
<1>1. Init => Inv
  <2>1. Init => TypeInv
    BY InitTypeInv
  <2>2. Init => Len(rows) = 0
    BY DEF Init
  <2> QED BY <2>1, <2>2 DEF RecordInv, PlainInv
<1>2. Inv /\ [Next]_vars => Inv'
  BY TypeInvStep, RecordStep, PlainStep
<1>3. Inv /\ [Next]_vars => [Restored]_vars
  BY UndoneBy, UndoneCell
<1>4. Spec => [][Restored]_vars
  BY <1>1, <1>2, <1>3, PTL DEF Spec
<1> QED BY <1>4 DEF UndoRestores
=============================================================================
