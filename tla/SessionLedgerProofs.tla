------------------------- MODULE SessionLedgerProofs -------------------------
(***************************************************************************)
(* One ledger and one file under approvals, rejections, undos, runs and    *)
(* crashes, for every number of each.  In three parts: what a handler      *)
(* trusts of the rows it read (Serves), where a staged value may be        *)
(* (Keeps), and what the rows say of the file at every moment, run or not  *)
(* (Tells).  Each part uses the ones before.  Last, the fork of such a     *)
(* ledger (Branch), copied in any order its query may give the rows in.    *)
(***************************************************************************)
EXTENDS Branch, TLAPS, SequenceTheorems, FiniteSetTheorems, FunctionTheorems

Row == [seq : Nat, cell : Cells, val : Nat, prev : Nat, status : Statuses, inverseOf : Nat]
Book == [Cells -> Nat]
RunState == [pc : {"off", "open", "saved"}, wb : Book, txn : Seq(Row)]
Request == [pc : {"idle", "opened", "checked", "acted", "numbered"}, op : Ops, id : Nat,
            src : {"original", "current"}, back : Nat, prev : Nat, seq : Nat]

Types ==
  /\ rows \in Seq(Row) /\ current \in Book /\ path \in {"original", "current"}
  /\ run \in RunState /\ Len(run.txn) <= 1 /\ (run.pc # "open" => run.txn = <<>>)
  /\ req \in [Handlers -> Request]
  /\ \A h \in Handlers : req[h].pc # "idle" => req[h].id \in 1..Len(rows)
  /\ writes \in 0..MaxRows
  /\ late \subseteq Cells /\ contested \subseteq Cells /\ lost \subseteq Cells

-----------------------------------------------------------------------------
(* What handlers trust.                                                      *)

\* Sequences are the numbers up to some row's, and an inverse follows its row.
Ranked ==
  /\ \A i \in 1..Len(rows) : rows[i].seq \in 1..Len(rows)
  /\ rows = <<>> \/ \E i \in 1..Len(rows) : \A j \in 1..Len(rows) : rows[j].seq <= rows[i].seq
  /\ \A k \in 1..Len(run.txn) : run.txn[k].seq \in 1..(Len(rows) + 1)
  /\ \A h \in Handlers : req[h].pc = "numbered" =>
       /\ req[h].seq \in 1..(Len(rows) + 1)
       /\ rows[req[h].id].seq < req[h].seq

\* An inverse was never staged, and a run writes no inverses.
Kinds ==
  /\ \A i \in 1..Len(rows) :
       rows[i].inverseOf # NoRow => rows[i].status \in {"APPLIED", "UNDONE"}
  /\ \A k \in 1..Len(run.txn) :
       /\ run.txn[k].inverseOf = NoRow
       /\ run.txn[k].status \in {"APPLIED", "PENDING_APPROVAL"}

Busy(h)   == req[h].pc \in {"checked", "acted", "numbered"}
CellOf(h) == rows[req[h].id].cell

\* What a handler checked is still so, unless another one works on the cell.
Trusted ==
  \A h \in Handlers : Busy(h) =>
    /\ Allowed(req[h].op, rows[req[h].id].status) \/ CellOf(h) \in contested
    /\ \A k \in Handlers \ {h} : Busy(k) /\ CellOf(k) = CellOf(h) => CellOf(h) \in contested
    /\ req[h].op # "undo" => rows[req[h].id].inverseOf = NoRow
    /\ req[h].pc = "acted" => req[h].op # "reject"
    /\ req[h].pc = "numbered" => req[h].op = "undo"

Serves == Types /\ Ranked /\ Kinds /\ Trusted /\ UndoneIsReversed

-----------------------------------------------------------------------------
(* Where a staged value may be.                                              *)

Old(v) == v <= writes \/ v = NoValue

\* No value is newer than the last write, and no two writes have the same.
Dated ==
  /\ \A c \in Cells : Old(current[c]) /\ Old(run.wb[c])
  /\ \A i \in 1..Len(rows) : Old(rows[i].val) /\ Old(rows[i].prev)
  /\ \A k \in 1..Len(run.txn) : Old(run.txn[k].prev)
  /\ \A h \in Handlers : /\ Old(req[h].back) /\ Old(req[h].prev)
                         /\ req[h].pc = "opened" => req[h].prev = NoValue
  /\ \A i \in 1..Len(rows) : rows[i].inverseOf = NoRow => rows[i].val \in 1..writes
  /\ \A k \in 1..Len(run.txn) : run.txn[k].val \in 1..writes
  /\ \A i, j \in 1..Len(rows) :
       i # j /\ rows[i].inverseOf = NoRow /\ rows[j].inverseOf = NoRow
         => rows[i].val # rows[j].val
  /\ \A k \in 1..Len(run.txn), i \in 1..Len(rows) :
       rows[i].inverseOf = NoRow => rows[i].val # run.txn[k].val

\* The value is in no workbook, and in no snapshot that an undo could put back.
Clear(c, v) ==
  /\ current[c] # v /\ run.wb[c] # v
  /\ \A i \in 1..Len(rows) : rows[i].cell = c => rows[i].prev # v
  /\ \A k \in 1..Len(run.txn) : run.txn[k].cell = c => run.txn[k].prev # v
  /\ \A h \in Handlers : Busy(h) /\ CellOf(h) = c => req[h].back # v /\ req[h].prev # v

Approving(h, i) == req[h].pc = "acted" /\ req[h].op = "approve" /\ req[h].id = i

Withheld ==
  /\ \A i \in 1..Len(rows) :
       rows[i].status = "PENDING_APPROVAL" /\ rows[i].cell \notin contested \cup lost
         => Clear(rows[i].cell, rows[i].val) \/ \E h \in Handlers : Approving(h, i)
  /\ \A k \in 1..Len(run.txn) :
       run.txn[k].status = "PENDING_APPROVAL" => Clear(run.txn[k].cell, run.txn[k].val)

Keeps == Dated /\ Withheld

-----------------------------------------------------------------------------
(* What the rows say of the file.                                            *)

\* Replay up to n gives v for the cell, because it has no row, or by its last.
Shows(rs, c, n, v) ==
  \/ v = 0 /\ RowsOn(rs, c, n) = {}
  \/ \E i \in RowsOn(rs, c, n) :
       rs[i].val = v /\ \A j \in RowsOn(rs, c, n) \ {i} : rs[j].seq < rs[i].seq

Acting(h, c) == req[h].pc \in {"acted", "numbered"} /\ CellOf(h) = c
Applied(k, c) == run.txn[k].status = "APPLIED" /\ run.txn[k].cell = c

\* There is room for what a run flushed, and requests name original.xlsx until
\* some row has made current.xlsx the file.
Bounded ==
  /\ Len(rows) + Len(run.txn) <= MaxRows
  /\ path = "original" => \A h \in Handlers : req[h].pc # "idle" => req[h].src = "original"

\* No handler writes the cell while a run has the workbook, and what the run
\* flushed comes after every row of its cell.
Apart(c) ==
  /\ run.pc # "off" => \A h \in Handlers : ~Acting(h, c)
  /\ \A k \in 1..Len(run.txn), i \in 1..Len(rows) :
       run.txn[k].cell = c /\ rows[i].cell = c => rows[i].seq < run.txn[k].seq

\* Rows of the cell have sequences of their own, and a new one comes after all.
RowsOrdered(c) ==
  \A i, j \in 1..Len(rows) :
    i # j /\ rows[i].cell = c /\ rows[j].cell = c => rows[i].seq # rows[j].seq
Numbers(c) ==
  \A h \in Handlers : req[h].pc = "numbered" /\ CellOf(h) = c =>
    \A i \in 1..Len(rows) : rows[i].cell = c => rows[i].seq < req[h].seq

\* A snapshot is what replay shows before its row, and what an undo puts back.
RowsPast(c) ==
  /\ \A i \in 1..Len(rows) : rows[i].cell = c /\ Replayable(rows[i]) =>
       Shows(rows, c, rows[i].seq - 1, rows[i].prev)
  /\ \A j \in 1..Len(rows) : rows[j].cell = c /\ rows[j].inverseOf # NoRow =>
       /\ rows[j].inverseOf \in 1..Len(rows) /\ rows[rows[j].inverseOf].cell = c
       /\ Replayable(rows[rows[j].inverseOf])
       /\ rows[j].val = rows[rows[j].inverseOf].prev
PutsBack(c) ==
  \A h \in Handlers : Busy(h) /\ req[h].op = "undo" /\ CellOf(h) = c =>
    req[h].back = rows[req[h].id].prev

\* The whole ledger shows the file, or what it was before a handler's write, or
\* what the run has in its workbook, but for the row it flushed.  Before
\* current.xlsx is named, only what is about to name it differs from 0.
Present(c) ==
  /\ run.pc = "off" /\ (\A h \in Handlers : ~Acting(h, c)) =>
       Shows(rows, c, MaxRows, FileAt(path)[c])
  /\ \A h \in Handlers : Acting(h, c) =>
       Shows(rows, c, MaxRows, req[h].prev) /\ current[c] = Written(h)
  /\ run.pc # "off" /\ (\A k \in 1..Len(run.txn) : ~Applied(k, c)) =>
       Shows(rows, c, MaxRows, run.wb[c])
  /\ \A k \in 1..Len(run.txn) : Applied(k, c) =>
       /\ Shows(rows, c, MaxRows, run.txn[k].prev)
       /\ run.wb[c] = run.txn[k].val /\ FileAt(path)[c] # run.txn[k].val
  /\ run.pc = "saved" => current[c] = run.wb[c]
  /\ path = "original" =>
       current[c] = 0 \/ run.pc = "saved" \/ \E h \in Handlers : Acting(h, c)

Told(c) == /\ RowsOrdered(c) /\ Numbers(c) /\ RowsPast(c) /\ PutsBack(c)
           /\ Present(c) /\ Apart(c)
Tells == Bounded /\ \A c \in InOrder : Told(c)

-----------------------------------------------------------------------------
(* The records.                                                              *)

LEMMA RowFields ==
  ASSUME Types
  PROVE  /\ Len(rows) \in Nat
         /\ \A i \in 1..Len(rows) :
              /\ rows[i] \in Row /\ rows[i].seq \in Nat /\ rows[i].cell \in Cells
              /\ rows[i].val \in Nat /\ rows[i].prev \in Nat
              /\ rows[i].status \in Statuses /\ rows[i].inverseOf \in Nat
<1>1. rows \in Seq(Row) /\ Len(rows) \in Nat
  BY LenProperties DEF Types
<1>2. \A i \in 1..Len(rows) : rows[i] \in Row
  BY <1>1, ElementOfSeq
<1> QED BY <1>1, <1>2 DEF Row

LEMMA RequestFields ==
  ASSUME Types, NEW h \in Handlers
  PROVE  /\ req[h] \in Request /\ req[h].op \in Ops /\ req[h].id \in Nat
         /\ req[h].pc \in {"idle", "opened", "checked", "acted", "numbered"}
         /\ req[h].src \in {"original", "current"}
         /\ req[h].back \in Nat /\ req[h].prev \in Nat /\ req[h].seq \in Nat
         /\ (req[h].pc # "idle" => req[h].id \in 1..Len(rows))
BY DEF Types, Request

LEMMA RunFields ==
  ASSUME Types
  PROVE  /\ run.pc \in {"off", "open", "saved"} /\ run.wb \in Book
         /\ run.txn \in Seq(Row) /\ Len(run.txn) \in {0, 1}
         /\ (run.txn = <<>> <=> Len(run.txn) = 0)
<1>1. run.pc \in {"off", "open", "saved"} /\ run.wb \in Book /\ run.txn \in Seq(Row)
  BY DEF Types, RunState
<1>2. Len(run.txn) \in Nat
  BY <1>1, LenProperties
<1>3. Len(run.txn) <= 1
  BY DEF Types
<1>4. run.txn # <<>> => Len(run.txn) \in Nat \ {0}
  BY <1>1, EmptySeq
<1>5. run.txn = <<>> => Len(run.txn) = 0
  BY EmptySeq
<1>6. Len(run.txn) \in {0, 1}
  <2>1. \A n \in Nat : n <= 1 => n \in {0, 1}
    OBVIOUS
  <2> QED BY <1>2, <1>3, <2>1
<1> QED BY <1>1, <1>4, <1>5, <1>6

\* A handler's record after each of its steps.
Opened(op, i)  == [NoRequest EXCEPT !.pc = "opened", !.op = op, !.id = i, !.src = path]
Checked(q, v)  == [q EXCEPT !.pc = "checked", !.back = v]
Acted(q, v)    == [q EXCEPT !.pc = "acted", !.prev = v]
Numbered(q, n) == [q EXCEPT !.pc = "numbered", !.seq = n]

LEMMA HandlerRecords ==
  ASSUME NEW q \in Request, NEW n \in Nat
  PROVE  /\ Checked(q, n) \in Request /\ Checked(q, n).pc = "checked"
         /\ Checked(q, n).back = n /\ Checked(q, n).op = q.op /\ Checked(q, n).id = q.id
         /\ Checked(q, n).src = q.src /\ Checked(q, n).prev = q.prev
         /\ Acted(q, n) \in Request /\ Acted(q, n).pc = "acted"
         /\ Acted(q, n).prev = n /\ Acted(q, n).op = q.op /\ Acted(q, n).id = q.id
         /\ Acted(q, n).src = q.src /\ Acted(q, n).back = q.back
         /\ Numbered(q, n) \in Request /\ Numbered(q, n).pc = "numbered"
         /\ Numbered(q, n).seq = n /\ Numbered(q, n).op = q.op /\ Numbered(q, n).id = q.id
         /\ Numbered(q, n).src = q.src /\ Numbered(q, n).back = q.back
         /\ Numbered(q, n).prev = q.prev
<1>1. /\ Checked(q, n) \in Request /\ Checked(q, n).pc = "checked"
      /\ Checked(q, n).back = n /\ Checked(q, n).op = q.op /\ Checked(q, n).id = q.id
      /\ Checked(q, n).src = q.src /\ Checked(q, n).prev = q.prev
  BY DEF Checked, Request
<1>2. /\ Acted(q, n) \in Request /\ Acted(q, n).pc = "acted"
      /\ Acted(q, n).prev = n /\ Acted(q, n).op = q.op /\ Acted(q, n).id = q.id
      /\ Acted(q, n).src = q.src /\ Acted(q, n).back = q.back
  BY DEF Acted, Request
<1>3. /\ Numbered(q, n) \in Request /\ Numbered(q, n).pc = "numbered"
      /\ Numbered(q, n).seq = n /\ Numbered(q, n).op = q.op /\ Numbered(q, n).id = q.id
      /\ Numbered(q, n).src = q.src /\ Numbered(q, n).back = q.back
      /\ Numbered(q, n).prev = q.prev
  BY DEF Numbered, Request
<1> QED BY <1>1, <1>2, <1>3

LEMMA OpenedFields ==
  ASSUME Types, NEW op \in Ops, NEW i \in Nat
  PROVE  /\ Opened(op, i) \in Request /\ Opened(op, i).pc = "opened"
         /\ Opened(op, i).op = op /\ Opened(op, i).id = i /\ Opened(op, i).src = path
         /\ Opened(op, i).back = NoValue /\ Opened(op, i).prev = NoValue
         /\ NoRequest \in Request /\ NoRequest.pc = "idle"
         /\ NoRequest.back = NoValue /\ NoRequest.prev = NoValue
<1>1. NoValue \in Nat /\ NoRow \in Nat
  BY SessionLedgerAssumption DEF NoValue, NoRow
<1>2. /\ NoRequest \in Request /\ NoRequest.pc = "idle"
      /\ NoRequest.back = NoValue /\ NoRequest.prev = NoValue
  BY <1>1 DEF NoRequest, Request, Ops
<1>3. path \in {"original", "current"}
  BY DEF Types
<1> HIDE DEF NoRequest
<1> QED BY <1>1, <1>2, <1>3 DEF Opened, Request

\* A step of a handler changes its own record.
LEMMA HandlerSteps ==
  ASSUME Types, NEW h \in Handlers
  PROVE  /\ \A op \in Ops, i \in 1..MaxRows : Open(h, op, i) =>
              req' = [req EXCEPT ![h] = Opened(op, i)]
         /\ Read(h) => req' = [req EXCEPT ![h] =
              IF Allowed(req[h].op, rows[req[h].id].status)
              THEN Checked(req[h], rows[req[h].id].prev) ELSE NoRequest]
         /\ Act(h) => req' = [req EXCEPT ![h] =
              Acted(req[h], FileAt(req[h].src)[rows[req[h].id].cell])]
         /\ Number(h) => req' = [req EXCEPT ![h] = Numbered(req[h], NextSequence(rows))]
<1>1. \A op \in Ops, i \in 1..MaxRows : Open(h, op, i) =>
              req' = [req EXCEPT ![h] = Opened(op, i)]
  BY DEF Open, Opened
<1>2. Read(h) => req' = [req EXCEPT ![h] =
              IF Allowed(req[h].op, rows[req[h].id].status)
              THEN Checked(req[h], rows[req[h].id].prev) ELSE NoRequest]
  BY DEF Types, Read, Checked, Answer
<1>3. Act(h) => req' = [req EXCEPT ![h] =
              Acted(req[h], FileAt(req[h].src)[rows[req[h].id].cell])]
  BY DEF Types, Act, Acted
<1>4. Number(h) => req' = [req EXCEPT ![h] = Numbered(req[h], NextSequence(rows))]
  BY DEF Types, Number, Numbered
<1> QED BY <1>1, <1>2, <1>3, <1>4

-----------------------------------------------------------------------------
(* Rows that were changed or added.                                          *)

\* The rows are as they were, or some were added, or row i has another status
\* and snapshot.
Rewritten(i, s, p) ==
  /\ rows' \in Seq(Row) /\ Len(rows') \in {Len(rows), Len(rows) + 1}
  /\ \A j \in 1..Len(rows) :
       /\ rows'[j].cell = rows[j].cell /\ rows'[j].seq = rows[j].seq
       /\ rows'[j].val = rows[j].val /\ rows'[j].inverseOf = rows[j].inverseOf
       /\ j # i => rows'[j].status = rows[j].status /\ rows'[j].prev = rows[j].prev
  /\ i \in 1..Len(rows) => rows'[i].status = s /\ rows'[i].prev = p

\* A row with another status and snapshot.
With(x, s, p) == [x EXCEPT !.status = s, !.prev = p]

LEMMA WithFields ==
  ASSUME NEW x \in Row, NEW s \in Statuses, NEW p \in Nat
  PROVE  /\ With(x, s, p) \in Row /\ With(x, s, p).status = s /\ With(x, s, p).prev = p
         /\ With(x, s, p).cell = x.cell /\ With(x, s, p).seq = x.seq
         /\ With(x, s, p).val = x.val /\ With(x, s, p).inverseOf = x.inverseOf
BY DEF With, Row

\* One row decided.
LEMMA RowDecided ==
  ASSUME Types, NEW i \in 1..Len(rows), NEW s \in Statuses, NEW p \in Nat
  PROVE  LET rs == [rows EXCEPT ![i] = With(rows[i], s, p)]
         IN  /\ rs \in Seq(Row) /\ Len(rs) = Len(rows)
             /\ \A j \in 1..Len(rows) :
                  rs[j] = IF j = i THEN With(rows[i], s, p) ELSE rows[j]
<1>1. rows \in Seq(Row) /\ rows[i] \in Row
  BY RowFields DEF Types
<1>2. With(rows[i], s, p) \in Row
  BY <1>1, WithFields
<1> QED BY <1>1, <1>2, ExceptSeq

LEMMA RowDecidedIs ==
  ASSUME Types, NEW i \in 1..Len(rows), NEW s \in Statuses, NEW p \in Nat,
         rows' = [rows EXCEPT ![i] = With(rows[i], s, p)]
  PROVE  Rewritten(i, s, p) /\ Len(rows') = Len(rows)
<1>1. rows[i] \in Row /\ Len(rows) \in Nat
  BY RowFields
<1>2. /\ rows' \in Seq(Row) /\ Len(rows') = Len(rows)
      /\ \A j \in 1..Len(rows) : rows'[j] = IF j = i THEN With(rows[i], s, p) ELSE rows[j]
  BY RowDecided
<1>3. /\ rows'[i].status = s /\ rows'[i].prev = p
      /\ rows'[i].cell = rows[i].cell /\ rows'[i].seq = rows[i].seq
      /\ rows'[i].val = rows[i].val /\ rows'[i].inverseOf = rows[i].inverseOf
  BY <1>1, <1>2, WithFields
<1>4. \A j \in 1..Len(rows) : j # i => rows'[j] = rows[j]
  BY <1>2
<1> QED BY <1>1, <1>2, <1>3, <1>4 DEF Rewritten

LEMMA ApproveRewrites ==
  ASSUME Types, NEW h \in Handlers, CommitApprove(h)
  PROVE  Rewritten(req[h].id, "APPLIED", req[h].prev) /\ Len(rows') = Len(rows)
<1>1. req[h].id \in 1..Len(rows) /\ req[h].prev \in Nat /\ "APPLIED" \in Statuses
  BY RequestFields DEF CommitApprove, Statuses
<1>2. rows' = [rows EXCEPT ![req[h].id] = With(rows[req[h].id], "APPLIED", req[h].prev)]
  BY <1>1 DEF CommitApprove, With, Types
<1> QED BY <1>1, <1>2, RowDecidedIs

\* The status alone.
LEMMA StatusOnly ==
  ASSUME Types, NEW i \in 1..Len(rows), NEW s \in Statuses
  PROVE  [rows EXCEPT ![i].status = s] = [rows EXCEPT ![i] = With(rows[i], s, rows[i].prev)]
<1>1. rows[i] \in Row
  BY RowFields
<1>2. [rows[i] EXCEPT !.status = s] = With(rows[i], s, rows[i].prev)
  BY <1>1 DEF With, Row
<1>3. [rows EXCEPT ![i].status = s] = [rows EXCEPT ![i] = [rows[i] EXCEPT !.status = s]]
  OBVIOUS
<1> QED BY <1>2, <1>3

LEMMA RejectRewrites ==
  ASSUME Types, NEW h \in Handlers, CommitReject(h)
  PROVE  /\ Rewritten(req[h].id, "REJECTED", rows[req[h].id].prev)
         /\ Len(rows') = Len(rows)
<1>1. req[h].id \in 1..Len(rows) /\ "REJECTED" \in Statuses
  BY RequestFields DEF CommitReject, Statuses
<1>2. rows[req[h].id].prev \in Nat
  BY <1>1, RowFields
<1>3. rows' = [rows EXCEPT ![req[h].id] =
                 With(rows[req[h].id], "REJECTED", rows[req[h].id].prev)]
  BY <1>1, StatusOnly DEF CommitReject
<1> QED BY <1>1, <1>2, <1>3, RowDecidedIs

\* The row an undo adds.
Reversal(h) == [seq |-> req[h].seq, cell |-> rows[req[h].id].cell, val |-> Written(h),
               prev |-> req[h].prev, status |-> "APPLIED", inverseOf |-> req[h].id]

LEMMA UndoRewrites ==
  ASSUME Types, NEW h \in Handlers, CommitUndo(h)
  PROVE  /\ Rewritten(req[h].id, "UNDONE", rows[req[h].id].prev)
         /\ Len(rows') = Len(rows) + 1 /\ rows'[Len(rows) + 1] = Reversal(h)
         /\ Reversal(h) \in Row
<1> DEFINE i == req[h].id
           rs == [rows EXCEPT ![i] = With(rows[i], "UNDONE", rows[i].prev)]
<1>1. i \in 1..Len(rows) /\ "UNDONE" \in Statuses /\ Len(rows) \in Nat
  BY RequestFields, RowFields DEF CommitUndo, Statuses
<1>2. rows[i].prev \in Nat /\ rows[i] \in Row
  BY <1>1, RowFields
<1>3. rows' = Append(rs, Reversal(h))
  BY <1>1, StatusOnly DEF CommitUndo, Reversal
<1>4. Reversal(h) \in Row
  <2>1. /\ req[h].seq \in Nat /\ rows[i].cell \in Cells /\ req[h].prev \in Nat
        /\ i \in Nat /\ "APPLIED" \in Statuses
    BY <1>1, RowFields, RequestFields DEF Statuses
  <2>2. Written(h) \in Nat
    BY <1>1, RowFields, RequestFields DEF Written
  <2> QED BY <2>1, <2>2 DEF Reversal, Row
<1> HIDE DEF rs
<1>5. /\ rs \in Seq(Row) /\ Len(rs) = Len(rows)
      /\ \A j \in 1..Len(rows) :
           rs[j] = IF j = i THEN With(rows[i], "UNDONE", rows[i].prev) ELSE rows[j]
  BY <1>1, <1>2, RowDecided DEF rs
<1>6. /\ rows' \in Seq(Row) /\ Len(rows') = Len(rows) + 1 /\ rows'[Len(rows) + 1] = Reversal(h)
      /\ \A j \in 1..Len(rows) : rows'[j] = rs[j]
  BY <1>3, <1>4, <1>5, AppendProperties
<1>7. /\ rows'[i].status = "UNDONE" /\ rows'[i].prev = rows[i].prev
      /\ rows'[i].cell = rows[i].cell /\ rows'[i].seq = rows[i].seq
      /\ rows'[i].val = rows[i].val /\ rows'[i].inverseOf = rows[i].inverseOf
  <2>1. rows'[i] = With(rows[i], "UNDONE", rows[i].prev)
    BY <1>1, <1>5, <1>6
  <2> HIDE DEF i
  <2> QED BY <1>1, <1>2, <2>1, WithFields
<1>8. \A j \in 1..Len(rows) : j # i => rows'[j] = rows[j]
  BY <1>5, <1>6
<1>9. Rewritten(i, "UNDONE", rows[i].prev)
  BY <1>1, <1>6, <1>7, <1>8 DEF Rewritten
<1> QED BY <1>4, <1>6, <1>9

\* The rows a run flushed are committed, or there are none.
LEMMA TxnRewrites ==
  ASSUME Types, rows' = rows \o run.txn, NEW s, NEW p
  PROVE  /\ Rewritten(NoRow, s, p) /\ Len(rows') = Len(rows) + Len(run.txn)
         /\ \A j \in 1..Len(rows) : rows'[j] = rows[j]
         /\ Len(run.txn) = 1 => rows'[Len(rows) + 1] = run.txn[1]
<1>1. /\ rows \in Seq(Row) /\ Len(rows) \in Nat
      /\ run.txn \in Seq(Row) /\ Len(run.txn) \in {0, 1}
  BY RowFields, RunFields DEF Types
<1>2. /\ rows' \in Seq(Row) /\ Len(rows') = Len(rows) + Len(run.txn)
      /\ \A j \in 1..Len(rows) + Len(run.txn) :
           rows'[j] = IF j <= Len(rows) THEN rows[j] ELSE run.txn[j - Len(rows)]
  BY <1>1, ConcatProperties
<1>3. \A j \in 1..Len(rows) : rows'[j] = rows[j]
  BY <1>1, <1>2
<1>4. Len(run.txn) = 1 => rows'[Len(rows) + 1] = run.txn[1]
  BY <1>1, <1>2
<1>5. NoRow \notin 1..Len(rows)
  BY <1>1 DEF NoRow
<1> QED BY <1>1, <1>2, <1>3, <1>4, <1>5 DEF Rewritten

-----------------------------------------------------------------------------
(* Serves is inductive.                                                      *)

LEMMA NextSequenceAbove ==
  ASSUME Types, Ranked, Room
  PROVE  /\ NextSequence(rows) \in 1..(Len(rows) + 1)
         /\ \A i \in 1..Len(rows) : rows[i].seq < NextSequence(rows)
<1> DEFINE Above(n) == /\ \A i \in 1..Len(rows) : rows[i].seq < n
                       /\ n = 1 \/ \E i \in 1..Len(rows) : rows[i].seq = n - 1
<1>1. /\ Len(rows) \in Nat /\ MaxRows \in Nat /\ Len(rows) <= MaxRows
      /\ \A i \in 1..Len(rows) : rows[i].seq \in 1..Len(rows)
  BY RowFields, RunFields, SessionLedgerAssumption DEF Ranked, Room
<1>2. \E n \in 1..(MaxRows + 1) : Above(n)
  <2>1. CASE rows = <<>>
    <3>1. Len(rows) = 0
      BY <2>1, EmptySeq
    <3> QED BY <1>1, <3>1
  <2>2. CASE rows # <<>>
    <3>1. PICK i \in 1..Len(rows) : \A j \in 1..Len(rows) : rows[j].seq <= rows[i].seq
      BY <2>2 DEF Ranked
    <3>2. rows[i].seq + 1 \in 1..(MaxRows + 1) /\ Above(rows[i].seq + 1)
      BY <1>1, <3>1
    <3> QED BY <3>2
  <2> QED BY <2>1, <2>2
<1>3. NextSequence(rows) = CHOOSE n \in 1..(MaxRows + 1) : Above(n)
  BY DEF NextSequence
<1>4. NextSequence(rows) \in 1..(MaxRows + 1) /\ Above(NextSequence(rows))
  <2> HIDE DEF Above
  <2> QED BY <1>2, <1>3
<1> QED BY <1>1, <1>4

\* A handler goes on and no row changes.
LEMMA RequestServes ==
  ASSUME Serves, NEW h \in Handlers, NEW q \in Request,
         UNCHANGED <<rows, run, writes>>, req' = [req EXCEPT ![h] = q],
         current' \in Book, path' \in {"original", "current"},
         late' \subseteq Cells, lost' \subseteq Cells,
         contested \subseteq contested', contested' \subseteq Cells,
         q.pc # "idle" => q.id \in 1..Len(rows),
         q.pc \in {"checked", "acted", "numbered"} =>
           /\ Allowed(q.op, rows[q.id].status) \/ rows[q.id].cell \in contested'
           /\ \A k \in Handlers \ {h} :
                Busy(k) /\ CellOf(k) = rows[q.id].cell => rows[q.id].cell \in contested'
           /\ q.op # "undo" => rows[q.id].inverseOf = NoRow,
         q.pc = "acted" => q.op # "reject",
         q.pc = "numbered" => /\ q.op = "undo" /\ q.seq \in 1..(Len(rows) + 1)
                              /\ rows[q.id].seq < q.seq
  PROVE  Serves'
<1>1. \A k \in Handlers : req'[k] = IF k = h THEN q ELSE req[k]
  BY DEF Serves, Types
<1>2. Types'
  <2>1. req' \in [Handlers -> Request]
    BY DEF Serves, Types
  <2>2. \A k \in Handlers : req'[k].pc # "idle" => req'[k].id \in 1..Len(rows)
    BY <1>1 DEF Serves, Types
  <2> QED BY <2>1, <2>2 DEF Serves, Types
<1>3. Ranked'
  BY <1>1 DEF Serves, Ranked
<1>4. Kinds' /\ UndoneIsReversed'
  BY DEF Serves, Kinds, UndoneIsReversed, Replayable
<1>5. Trusted'
  <2> SUFFICES ASSUME NEW g \in Handlers, Busy(g)'
               PROVE  /\ Allowed(req'[g].op, rows[req'[g].id].status)
                           \/ rows[req'[g].id].cell \in contested'
                      /\ \A k \in Handlers \ {g} :
                           Busy(k)' /\ rows[req'[k].id].cell = rows[req'[g].id].cell
                             => rows[req'[g].id].cell \in contested'
                      /\ req'[g].op # "undo" => rows[req'[g].id].inverseOf = NoRow
                      /\ req'[g].pc = "acted" => req'[g].op # "reject"
                      /\ req'[g].pc = "numbered" => req'[g].op = "undo"
    BY DEF Trusted, CellOf
  <2>1. CASE g = h
    BY <1>1, <2>1 DEF Busy, CellOf
  <2>2. CASE g # h
    <3>1. Busy(g)
      BY <1>1, <2>2 DEF Busy
    <3>2. \A k \in Handlers \ {g, h} :
            Busy(k)' /\ rows[req'[k].id].cell = rows[req'[g].id].cell
              => rows[req'[g].id].cell \in contested'
      BY <1>1, <2>2, <3>1 DEF Serves, Trusted, Busy, CellOf
    <3>3. Busy(h)' /\ rows[req'[h].id].cell = rows[req'[g].id].cell
            => rows[req'[g].id].cell \in contested'
      BY <1>1, <2>2, <3>1 DEF Busy, CellOf
    <3>4. /\ Allowed(req[g].op, rows[req[g].id].status) \/ rows[req[g].id].cell \in contested
          /\ req[g].op # "undo" => rows[req[g].id].inverseOf = NoRow
          /\ req[g].pc = "acted" => req[g].op # "reject"
          /\ req[g].pc = "numbered" => req[g].op = "undo"
      BY <3>1 DEF Serves, Trusted, CellOf
    <3> QED BY <1>1, <2>2, <3>2, <3>3, <3>4
  <2> QED BY <2>1, <2>2
<1> QED BY <1>2, <1>3, <1>4, <1>5 DEF Serves

\* The run goes on and no row is committed.
LEMMA RunServes ==
  ASSUME Serves, UNCHANGED <<rows, req, contested, late>>,
         run' \in RunState, Len(run'.txn) <= 1, run'.pc # "open" => run'.txn = <<>>,
         current' \in Book, path' \in {"original", "current"},
         lost' \subseteq Cells, writes' \in 0..MaxRows,
         \A k \in 1..Len(run'.txn) :
           /\ run'.txn[k].seq \in 1..(Len(rows) + 1)
           /\ run'.txn[k].inverseOf = NoRow
           /\ run'.txn[k].status \in {"APPLIED", "PENDING_APPROVAL"}
  PROVE  Serves'
<1>1. Types'
  BY DEF Serves, Types
<1>2. Ranked'
  BY DEF Serves, Ranked
<1>3. Kinds' /\ UndoneIsReversed'
  BY DEF Serves, Kinds, UndoneIsReversed, Replayable
<1>4. Trusted'
  BY DEF Serves, Trusted, Busy, CellOf
<1> QED BY <1>1, <1>2, <1>3, <1>4 DEF Serves

LEMMA OpenServes ==
  ASSUME Serves, NEW h \in Handlers, NEW op \in Ops, NEW i \in 1..MaxRows, Open(h, op, i)
  PROVE  Serves'
<1>1. i \in Nat /\ i \in 1..Len(rows)
  BY DEF Open
<1>2. req' = [req EXCEPT ![h] = Opened(op, i)]
  BY HandlerSteps DEF Serves
<1>3. Opened(op, i) \in Request /\ Opened(op, i).pc = "opened" /\ Opened(op, i).id = i
  BY <1>1, OpenedFields DEF Serves
<1>4. /\ UNCHANGED <<rows, run, writes, contested>> /\ current' \in Book
      /\ path' \in {"original", "current"} /\ late' \subseteq Cells /\ lost' \subseteq Cells
      /\ contested' \subseteq Cells
  BY DEF Open, excused, Serves, Types
<1> QED BY <1>1, <1>2, <1>3, <1>4, RequestServes

\* A row is read: what others do to its cell meanwhile is contested.
LEMMA ReadServes ==
  ASSUME Serves, NEW h \in Handlers, Read(h)
  PROVE  Serves'
<1> DEFINE q == Checked(req[h], rows[req[h].id].prev)
<1>1. req[h].id \in 1..Len(rows) /\ req[h] \in Request /\ req[h].pc = "opened"
  BY RequestFields DEF Serves, Read
<1>2. /\ rows[req[h].id].prev \in Nat /\ rows[req[h].id].cell \in Cells
      /\ rows[req[h].id].status \in Statuses
      /\ rows[req[h].id].inverseOf # NoRow => rows[req[h].id].status \in {"APPLIED", "UNDONE"}
  BY <1>1, RowFields DEF Serves, Kinds
<1>3. /\ UNCHANGED <<rows, run, writes>> /\ current' \in Book
      /\ path' \in {"original", "current"} /\ late' \subseteq Cells /\ lost' \subseteq Cells
      /\ contested \subseteq contested' /\ contested' \subseteq Cells
  BY <1>2 DEF Read, Serves, Types, counters
<1>4. CASE Allowed(req[h].op, rows[req[h].id].status)
  <2>1. q \in Request /\ q.pc = "checked" /\ q.op = req[h].op /\ q.id = req[h].id
    BY <1>1, <1>2, HandlerRecords
  <2>2. req' = [req EXCEPT ![h] = q]
    BY <1>4, HandlerSteps DEF Serves
  <2>3. \A k \in Handlers \ {h} :
          Busy(k) /\ CellOf(k) = rows[q.id].cell => rows[q.id].cell \in contested'
    BY <1>4, <2>1 DEF Read, Meets, Busy, CellOf
  <2>4. q.op # "undo" => rows[q.id].inverseOf = NoRow
    BY <1>2, <1>4, <2>1 DEF Allowed
  <2> HIDE DEF q
  <2> QED BY <1>1, <1>3, <1>4, <2>1, <2>2, <2>3, <2>4, RequestServes
<1>5. CASE ~Allowed(req[h].op, rows[req[h].id].status)
  <2>1. req' = [req EXCEPT ![h] = NoRequest]
    BY <1>5, HandlerSteps DEF Serves
  <2>2. NoRequest \in Request /\ NoRequest.pc = "idle"
    BY OpenedFields DEF Serves, Ops
  <2> QED BY <1>3, <2>1, <2>2, RequestServes
<1> QED BY <1>4, <1>5

\* What a busy handler trusts, it goes on to trust.
LEMMA BusyServes ==
  ASSUME Serves, NEW h \in Handlers, Busy(h), NEW q \in Request,
         UNCHANGED <<rows, run, writes, late, contested>>, req' = [req EXCEPT ![h] = q],
         current' \in Book, path' \in {"original", "current"}, lost' \subseteq Cells,
         q.id = req[h].id, q.op = req[h].op,
         q.pc = "acted" => q.op # "reject",
         q.pc = "numbered" => /\ q.op = "undo" /\ q.seq \in 1..(Len(rows) + 1)
                              /\ rows[q.id].seq < q.seq
  PROVE  Serves'
<1>1. q.id \in 1..Len(rows)
  BY RequestFields DEF Serves, Busy
<1>2. /\ Allowed(q.op, rows[q.id].status) \/ rows[q.id].cell \in contested
      /\ \A k \in Handlers \ {h} :
           Busy(k) /\ CellOf(k) = rows[q.id].cell => rows[q.id].cell \in contested
      /\ q.op # "undo" => rows[q.id].inverseOf = NoRow
  BY DEF Serves, Trusted, CellOf
<1>3. late' \subseteq Cells /\ contested \subseteq contested' /\ contested' \subseteq Cells
  BY DEF Serves, Types
<1> QED BY <1>1, <1>2, <1>3, RequestServes

LEMMA BookWrite ==
  ASSUME Types, NEW h \in Handlers, Busy(h)
  PROVE  /\ FileAt(req[h].src) \in Book /\ CellOf(h) \in Cells /\ Written(h) \in Nat
         /\ [FileAt(req[h].src) EXCEPT ![CellOf(h)] = Written(h)] \in Book
<1>1. FileAt(req[h].src) \in Book
  BY DEF Types, FileAt, Original, Book
<1>2. req[h].id \in 1..Len(rows) /\ req[h].back \in Nat
  BY RequestFields DEF Busy
<1>3. CellOf(h) \in Cells /\ Written(h) \in Nat
  BY <1>2, RowFields DEF CellOf, Written
<1> QED BY <1>1, <1>3 DEF Book

LEMMA ActServes ==
  ASSUME Serves, NEW h \in Handlers, Act(h)
  PROVE  Serves'
<1> DEFINE q == Acted(req[h], FileAt(req[h].src)[CellOf(h)])
<1>1. Busy(h) /\ req[h] \in Request /\ req[h].op # "reject"
  BY RequestFields DEF Act, Busy, Serves
<1>2. /\ FileAt(req[h].src)[CellOf(h)] \in Nat
      /\ [FileAt(req[h].src) EXCEPT ![CellOf(h)] = Written(h)] \in Book
  BY <1>1, BookWrite DEF Serves, Book
<1>3. q \in Request /\ q.pc = "acted" /\ q.op = req[h].op /\ q.id = req[h].id
  BY <1>1, <1>2, HandlerRecords
<1>4. req' = [req EXCEPT ![h] = q]
  BY HandlerSteps DEF Serves, CellOf
<1>5. /\ UNCHANGED <<rows, run, writes, late, contested>> /\ current' \in Book
      /\ path' \in {"original", "current"} /\ lost' \subseteq Cells
  BY <1>2 DEF Act, counters, CellOf, Serves, Types
<1> HIDE DEF q
<1> QED BY <1>1, <1>3, <1>4, <1>5, BusyServes

LEMMA NumberServes ==
  ASSUME Serves, NEW h \in Handlers, Number(h)
  PROVE  Serves'
<1> DEFINE q == Numbered(req[h], NextSequence(rows))
<1>1. Busy(h) /\ req[h] \in Request /\ req[h].op = "undo" /\ req[h].id \in 1..Len(rows)
  BY RequestFields DEF Number, Busy, Serves
<1>2. /\ NextSequence(rows) \in 1..(Len(rows) + 1)
      /\ \A i \in 1..Len(rows) : rows[i].seq < NextSequence(rows)
  BY NextSequenceAbove DEF Serves, Number
<1>3. NextSequence(rows) \in Nat
  BY <1>2
<1>4. /\ q \in Request /\ q.pc = "numbered" /\ q.op = req[h].op /\ q.id = req[h].id
      /\ q.seq = NextSequence(rows)
  BY <1>1, <1>3, HandlerRecords
<1>5. req' = [req EXCEPT ![h] = q]
  BY HandlerSteps DEF Serves
<1>6. /\ UNCHANGED <<rows, run, writes, late, contested>> /\ current' \in Book
      /\ path' \in {"original", "current"} /\ lost' \subseteq Cells
  BY DEF Number, counters, excused, Serves, Types
<1> HIDE DEF q
<1> QED BY <1>1, <1>2, <1>4, <1>5, <1>6, BusyServes

-----------------------------------------------------------------------------
LEMMA RunRecords ==
  ASSUME Types
  PROVE  /\ NoRun \in RunState /\ NoRun.pc = "off" /\ NoRun.txn = <<>>
         /\ FileAt(path) \in Book
         /\ [pc |-> "open", wb |-> FileAt(path), txn |-> <<>>] \in RunState
         /\ [run EXCEPT !.txn = <<>>] \in RunState
         /\ [run EXCEPT !.txn = <<>>].txn = <<>>
         /\ [run EXCEPT !.txn = <<>>].pc = run.pc /\ [run EXCEPT !.txn = <<>>].wb = run.wb
         /\ [run EXCEPT !.pc = "saved"] \in RunState
         /\ [run EXCEPT !.pc = "saved"].pc = "saved"
         /\ [run EXCEPT !.pc = "saved"].txn = run.txn /\ [run EXCEPT !.pc = "saved"].wb = run.wb
<1> DEFINE none == <<>>
<1>1. none \in Seq(Row)
  BY EmptySeq
<1>2. FileAt(path) \in Book /\ Original \in Book
  BY DEF Types, FileAt, Original, Book
<1>3. run \in RunState
  BY DEF Types
<1> HIDE DEF none
<1>4. /\ [pc |-> "off", wb |-> Original, txn |-> none] \in RunState
      /\ [pc |-> "open", wb |-> FileAt(path), txn |-> none] \in RunState
  BY <1>1, <1>2 DEF RunState
<1>5. /\ [run EXCEPT !.txn = none] \in RunState /\ [run EXCEPT !.txn = none].txn = none
      /\ [run EXCEPT !.txn = none].pc = run.pc /\ [run EXCEPT !.txn = none].wb = run.wb
  BY <1>1, <1>3 DEF RunState
<1>6. /\ [run EXCEPT !.pc = "saved"] \in RunState /\ [run EXCEPT !.pc = "saved"].pc = "saved"
      /\ [run EXCEPT !.pc = "saved"].txn = run.txn /\ [run EXCEPT !.pc = "saved"].wb = run.wb
  BY <1>3 DEF RunState
<1> QED BY <1>2, <1>4, <1>5, <1>6 DEF NoRun, none

\* What the run writes: the row it flushes, and its workbook.
Flushed(c) == [seq |-> NextSequence(rows), cell |-> c, val |-> writes + 1,
               prev |-> IF c \in UserCells THEN NoValue ELSE run.wb[c],
               status |-> IF c \in UserCells THEN "PENDING_APPROVAL" ELSE "APPLIED",
               inverseOf |-> NoRow]

LEMMA WriteFields ==
  ASSUME Serves, NEW c \in Cells, RunWrite(c)
  PROVE  /\ Flushed(c) \in Row /\ Flushed(c).seq \in 1..(Len(rows) + 1)
         /\ \A i \in 1..Len(rows) : rows[i].seq < Flushed(c).seq
         /\ Flushed(c).cell = c /\ Flushed(c).val = writes + 1
         /\ Flushed(c).prev = (IF c \in UserCells THEN NoValue ELSE run.wb[c])
         /\ Flushed(c).status
              = (IF c \in UserCells THEN "PENDING_APPROVAL" ELSE "APPLIED")
         /\ Flushed(c).inverseOf = NoRow
         /\ run' \in RunState /\ run'.pc = "open" /\ run'.txn = <<Flushed(c)>>
         /\ run'.txn[1] = Flushed(c) /\ Len(run'.txn) = 1 /\ run'.wb \in Book
         /\ \A d \in Cells : run'.wb[d] =
              IF d = c /\ c \notin UserCells THEN writes + 1 ELSE run.wb[d]
         /\ writes' = writes + 1 /\ writes' \in 0..MaxRows /\ writes \in Nat
<1> DEFINE x == Flushed(c)
           w == [run.wb EXCEPT ![c] = IF c \in UserCells THEN @ ELSE writes + 1]
<1>1. /\ NextSequence(rows) \in 1..(Len(rows) + 1)
      /\ \A i \in 1..Len(rows) : rows[i].seq < NextSequence(rows)
  BY NextSequenceAbove DEF Serves, RunWrite
<1>2. /\ writes' = writes + 1 /\ writes' \in 0..MaxRows /\ writes \in Nat
      /\ run \in RunState /\ run.pc = "open"
  BY SessionLedgerAssumption DEF RunWrite, Serves, Types
<1>3. /\ run.wb \in Book /\ run.wb[c] \in Nat /\ NoValue \in Nat /\ NoRow \in Nat
      /\ NextSequence(rows) \in Nat /\ writes + 1 \in Nat
  BY <1>1, <1>2, SessionLedgerAssumption DEF RunState, Book, NoValue, NoRow
<1>4. /\ x \in Row /\ x.seq = NextSequence(rows) /\ x.cell = c /\ x.val = writes + 1
      /\ x.prev = (IF c \in UserCells THEN NoValue ELSE run.wb[c])
      /\ x.status = (IF c \in UserCells THEN "PENDING_APPROVAL" ELSE "APPLIED")
      /\ x.inverseOf = NoRow
  <2>1. (IF c \in UserCells THEN NoValue ELSE run.wb[c]) \in Nat
    BY <1>3
  <2>2. (IF c \in UserCells THEN "PENDING_APPROVAL" ELSE "APPLIED") \in Statuses
    BY DEF Statuses
  <2> QED BY <1>3, <2>1, <2>2 DEF Flushed, Row
<1>5. /\ w \in Book
      /\ \A d \in Cells : w[d] = IF d = c /\ c \notin UserCells THEN writes + 1 ELSE run.wb[d]
  BY <1>3 DEF Book
<1>6. run' = [run EXCEPT !.wb[c] = IF c \in UserCells THEN @ ELSE writes + 1,
                         !.txn = <<Flushed(c)>>]
  BY DEF RunWrite, Flushed
<1>7. run' = [run EXCEPT !.wb = w, !.txn = <<x>>]
  BY <1>2, <1>6 DEF RunState
<1> HIDE DEF x, w
<1>8. <<x>> \in Seq(Row) /\ Len(<<x>>) = 1 /\ <<x>>[1] = x
  BY <1>4
<1> DEFINE txn == <<x>>
<1>9. /\ run' \in RunState /\ run'.pc = run.pc /\ run'.txn = txn /\ run'.wb = w
  <2>1. txn \in Seq(Row) /\ run' = [run EXCEPT !.wb = w, !.txn = txn]
    BY <1>7, <1>8
  <2> HIDE DEF txn
  <2> QED BY <1>2, <1>5, <2>1 DEF RunState
<1> QED BY <1>1, <1>2, <1>4, <1>5, <1>8, <1>9 DEF x

LEMMA RunWriteServes ==
  ASSUME Serves, NEW c \in Cells, RunWrite(c)
  PROVE  Serves'
<1>1. /\ UNCHANGED <<rows, req, contested, late>> /\ current' \in Book
      /\ path' \in {"original", "current"} /\ lost' \subseteq Cells
  BY DEF RunWrite, excused, Serves, Types
<1>2. \A k \in 1..Len(run'.txn) : run'.txn[k] = Flushed(c)
  BY WriteFields
<1>3. \A k \in 1..Len(run'.txn) :
        /\ run'.txn[k].seq \in 1..(Len(rows) + 1) /\ run'.txn[k].inverseOf = NoRow
        /\ run'.txn[k].status \in {"APPLIED", "PENDING_APPROVAL"}
  BY <1>2, WriteFields
<1>4. run' \in RunState /\ Len(run'.txn) = 1 /\ run'.pc = "open" /\ writes' \in 0..MaxRows
  BY WriteFields
<1>5. Len(run'.txn) <= 1
  BY <1>4
<1> QED BY <1>1, <1>3, <1>4, <1>5, RunServes

LEMMA RunGoesOn ==
  ASSUME Types, RunStart \/ RunSave \/ RunFinish
  PROVE  run' \in RunState /\ run'.txn = <<>> /\ Len(run'.txn) = 0
<1>1. run' \in RunState /\ run'.txn = <<>>
  <2>1. CASE RunStart
    <3>1. run' = [pc |-> "open", wb |-> FileAt(path), txn |-> <<>>]
      BY <2>1 DEF RunStart
    <3>2. run' \in RunState
      BY <3>1, RunRecords
    <3> QED BY <3>1, <3>2
  <2>2. CASE RunSave
    BY <2>2, RunRecords DEF RunSave
  <2>3. CASE RunFinish
    BY <2>3, RunRecords DEF RunFinish
  <2> QED BY <2>1, <2>2, <2>3
<1>2. Len(run'.txn) = 0
  BY <1>1, EmptySeq
<1> QED BY <1>1, <1>2

LEMMA RunOtherServes ==
  ASSUME Serves, RunStart \/ RunSave \/ RunFinish
  PROVE  Serves'
<1>1. /\ UNCHANGED <<rows, req, contested, late, writes>> /\ current' \in Book
      /\ path' \in {"original", "current"} /\ lost' \subseteq Cells
      /\ writes' \in 0..MaxRows
  BY DEF RunStart, RunSave, RunFinish, counters, excused, Serves, Types, RunState
<1>2. run' \in RunState /\ run'.txn = <<>> /\ Len(run'.txn) = 0
  BY RunGoesOn DEF Serves
<1> QED BY <1>1, <1>2, RunServes

\* Committing the rows of a run changes no other row.
LEMMA TxnServes ==
  ASSUME Serves, RunCommit \/ RunFail
  PROVE  Serves'
<1> DEFINE n == Len(rows)
<1>1. /\ rows' = rows \o run.txn
      /\ UNCHANGED <<current, path, req, writes, late, contested>>
      /\ lost' \subseteq Cells
  BY DEF RunCommit, RunFail, counters, excused, Unsaved, Serves, Types
<1>2. /\ rows' \in Seq(Row) /\ Len(rows') = n + Len(run.txn) /\ n \in Nat
      /\ \A j \in 1..n : rows'[j] = rows[j]
      /\ Len(run.txn) = 1 => rows'[n + 1] = run.txn[1]
      /\ Len(run.txn) \in {0, 1}
  BY <1>1, TxnRewrites, RowFields, RunFields DEF Serves, Rewritten
<1>3. run' \in RunState /\ run'.txn = <<>> /\ Len(run'.txn) = 0
  <2>1. run' = [run EXCEPT !.txn = <<>>] \/ run' = NoRun
    BY DEF RunCommit, RunFail
  <2>2. run' \in RunState /\ run'.txn = <<>>
    BY <2>1, RunRecords DEF Serves
  <2> QED BY <2>2, EmptySeq
<1>4. \A j \in 1..Len(rows') : j \in 1..n \/ (j = n + 1 /\ Len(run.txn) = 1)
  <2>1. PICK m \in {0, 1} : m = Len(run.txn)
    BY <1>2
  <2>2. Len(rows') = n + m
    BY <1>2, <2>1
  <2>3. \A j \in 1..(n + m) : j \in 1..n \/ (j = n + 1 /\ m = 1)
    BY <1>2
  <2> QED BY <2>1, <2>2, <2>3
<1>5. Len(run.txn) = 1 =>
        /\ run.txn[1].seq \in 1..(n + 1) /\ run.txn[1].inverseOf = NoRow
        /\ run.txn[1].status \in {"APPLIED", "PENDING_APPROVAL"}
  BY DEF Serves, Ranked, Kinds
<1>6. 1..n \subseteq 1..Len(rows')
  BY <1>2
<1>7. \A h \in Handlers : req[h].pc # "idle" =>
        req[h].id \in 1..n /\ rows'[req[h].id] = rows[req[h].id]
  BY <1>2 DEF Serves, Types
<1>8. Types'
  <2>1. \A h \in Handlers : req'[h].pc # "idle" => req'[h].id \in 1..Len(rows')
    BY <1>1, <1>6, <1>7
  <2> QED BY <1>1, <1>2, <1>3, <2>1 DEF Serves, Types
<1>9. Ranked'
  <2>1. \A i \in 1..Len(rows') : rows'[i].seq \in 1..Len(rows')
    <3>1. \A j \in 1..n : rows[j].seq \in 1..n
      BY DEF Serves, Ranked
    <3>2. Len(run.txn) = 1 => 1..(n + 1) \subseteq 1..Len(rows')
      BY <1>2
    <3> QED BY <1>2, <1>4, <1>5, <1>6, <3>1, <3>2
  <2>2. rows' = <<>> \/ \E i \in 1..Len(rows') :
          \A j \in 1..Len(rows') : rows'[j].seq <= rows'[i].seq
    <3>1. CASE Len(run.txn) = 0
      <4>1. rows' = rows
        BY <1>1, <1>2, <3>1, ConcatEmptySeq, RunFields DEF Serves, Types
      <4> QED BY <4>1 DEF Serves, Ranked
    <3>2. CASE Len(run.txn) = 1 /\ rows = <<>>
      <4>1. Len(rows') = 1
        BY <1>2, <3>2, EmptySeq
      <4>2. rows'[1].seq \in Nat
        BY <2>1, <4>1
      <4> QED BY <4>1, <4>2
    <3>3. CASE Len(run.txn) = 1 /\ rows # <<>>
      <4>1. PICK i \in 1..n : \A j \in 1..n : rows[j].seq <= rows[i].seq
        BY <3>3 DEF Serves, Ranked
      <4>2. rows[i].seq \in Nat /\ run.txn[1].seq \in Nat
        BY <1>5, <3>3 DEF Serves, Ranked
      <4>3. CASE run.txn[1].seq <= rows[i].seq
        <5>1. i \in 1..Len(rows') /\ \A j \in 1..Len(rows') : rows'[j].seq <= rows'[i].seq
          BY <1>2, <1>4, <3>3, <4>1, <4>3
        <5> QED BY <5>1
      <4>4. CASE rows[i].seq < run.txn[1].seq
        <5>1. \A j \in 1..n : rows[j].seq \in Nat
          BY DEF Serves, Ranked
        <5>2. n + 1 \in 1..Len(rows')
              /\ \A j \in 1..Len(rows') : rows'[j].seq <= rows'[n + 1].seq
          BY <1>2, <1>4, <3>3, <4>1, <4>2, <4>4, <5>1
        <5> QED BY <5>2
      <4> QED BY <4>2, <4>3, <4>4
    <3> QED BY <1>2, <3>1, <3>2, <3>3
  <2>3. \A h \in Handlers : req'[h].pc = "numbered" =>
          req'[h].seq \in 1..(Len(rows') + 1) /\ rows'[req'[h].id].seq < req'[h].seq
    BY <1>1, <1>2, <1>7 DEF Serves, Ranked
  <2> QED BY <1>3, <2>1, <2>2, <2>3 DEF Ranked
<1>10. Kinds'
  BY <1>2, <1>3, <1>4, <1>5 DEF Serves, Kinds
<1>11. UndoneIsReversed'
  <2> SUFFICES ASSUME NEW i \in 1..Len(rows'), rows'[i].status = "UNDONE"
               PROVE  \E j \in 1..Len(rows') : /\ rows'[j].inverseOf = i /\ rows'[i].seq < rows'[j].seq
                                               /\ Replayable(rows'[j])
    BY DEF UndoneIsReversed
  <2>1. i \in 1..n
    BY <1>2, <1>4, <1>5
  <2>2. PICK j \in 1..n : rows[j].inverseOf = i /\ rows[i].seq < rows[j].seq /\ Replayable(rows[j])
    BY <1>2, <2>1 DEF Serves, UndoneIsReversed
  <2> QED BY <1>2, <1>6, <2>1, <2>2
<1>12. Trusted'
  BY <1>1, <1>7 DEF Serves, Trusted, Busy, CellOf
<1> QED BY <1>8, <1>9, <1>10, <1>11, <1>12 DEF Serves

\* A row is decided and its handler answers: the others trust theirs, since
\* another row was decided or the cell is contested.
LEMMA TrustedAfter ==
  ASSUME Serves, NEW h \in Handlers, Busy(h), NEW s, NEW p, Rewritten(req[h].id, s, p),
         req' = [req EXCEPT ![h] = NoRequest], UNCHANGED contested
  PROVE  /\ Trusted'
         /\ \A g \in Handlers : req'[g].pc # "idle" =>
              g # h /\ req'[g] = req[g] /\ req[g].id \in 1..Len(rows)
<1>1. NoRequest.pc = "idle"
  BY DEF NoRequest
<1>2. \A g \in Handlers : req'[g] = IF g = h THEN NoRequest ELSE req[g]
  BY DEF Serves, Types
<1>3. \A g \in Handlers : req'[g].pc # "idle" =>
        g # h /\ req'[g] = req[g] /\ req[g].id \in 1..Len(rows)
  BY <1>1, <1>2 DEF Serves, Types
<1>4. \A g \in Handlers : Busy(g)' =>
        /\ g # h /\ req'[g] = req[g] /\ Busy(g)
        /\ rows'[req'[g].id].cell = CellOf(g)
        /\ rows'[req'[g].id].inverseOf = rows[req[g].id].inverseOf
        /\ CellOf(g) # CellOf(h) => rows'[req'[g].id].status = rows[req[g].id].status
  BY <1>3 DEF Busy, CellOf, Rewritten
<1>5. \A g \in Handlers : Busy(g) /\ g # h /\ CellOf(g) = CellOf(h) => CellOf(g) \in contested
  BY DEF Serves, Trusted
<1> SUFFICES ASSUME NEW g \in Handlers, Busy(g)'
             PROVE  /\ Allowed(req'[g].op, rows'[req'[g].id].status)
                         \/ CellOf(g)' \in contested'
                    /\ \A k \in Handlers \ {g} :
                         Busy(k)' /\ CellOf(k)' = CellOf(g)' => CellOf(g)' \in contested'
                    /\ req'[g].op # "undo" => rows'[req'[g].id].inverseOf = NoRow
                    /\ req'[g].pc = "acted" => req'[g].op # "reject"
                    /\ req'[g].pc = "numbered" => req'[g].op = "undo"
  BY <1>3 DEF Trusted
<1>6. /\ Allowed(req[g].op, rows[req[g].id].status) \/ CellOf(g) \in contested
      /\ \A k \in Handlers \ {g} : Busy(k) /\ CellOf(k) = CellOf(g) => CellOf(g) \in contested
      /\ req[g].op # "undo" => rows[req[g].id].inverseOf = NoRow
      /\ req[g].pc = "acted" => req[g].op # "reject"
      /\ req[g].pc = "numbered" => req[g].op = "undo"
  BY <1>4 DEF Serves, Trusted
<1>7. CellOf(g)' = CellOf(g) /\ contested' = contested
      /\ \A k \in Handlers : Busy(k)' => Busy(k) /\ CellOf(k)' = CellOf(k)
  BY <1>4 DEF CellOf
<1> QED BY <1>4, <1>5, <1>6, <1>7

\* The rest of the state when a handler answers.
LEMMA AnswerTypes ==
  ASSUME Serves, NEW h \in Handlers, NEW s, NEW p, Rewritten(req[h].id, s, p),
         req' = [req EXCEPT ![h] = NoRequest], UNCHANGED <<current, run, writes>>,
         path' \in {"original", "current"}, late' \subseteq Cells,
         UNCHANGED <<contested, lost>>, Busy(h)
  PROVE  Types'
<1>1. NoRequest \in Request
  BY OpenedFields DEF Serves, Ops
<1>2. req' \in [Handlers -> Request]
  BY <1>1 DEF Serves, Types
<1>3. rows' \in Seq(Row) /\ Len(rows') \in {Len(rows), Len(rows) + 1} /\ Len(rows) \in Nat
  BY RowFields DEF Rewritten, Serves
<1>4. \A g \in Handlers : req'[g].pc # "idle" => req'[g].id \in 1..Len(rows')
  <2>1. 1..Len(rows) \subseteq 1..Len(rows')
    BY <1>3
  <2> QED BY <2>1, TrustedAfter
<1> QED BY <1>2, <1>3, <1>4 DEF Serves, Types

LEMMA AnswerRank ==
  ASSUME Serves, NEW h \in Handlers, Busy(h), NEW s, NEW p, Rewritten(req[h].id, s, p),
         req' = [req EXCEPT ![h] = NoRequest], UNCHANGED <<run, contested>>,
         NEW n \in Nat, Len(rows') = Len(rows) + 1 => rows'[Len(rows) + 1].seq = n,
         Len(rows') = Len(rows) + 1 => n \in 1..(Len(rows) + 1)
  PROVE  Ranked'
<1> DEFINE l == Len(rows)
<1>1. /\ rows' \in Seq(Row) /\ Len(rows') \in {l, l + 1} /\ l \in Nat
      /\ \A j \in 1..l : rows'[j].seq = rows[j].seq
      /\ \A j \in 1..l : rows[j].seq \in 1..l
  BY RowFields DEF Rewritten, Serves, Ranked
<1>2. \A j \in 1..Len(rows') : j \in 1..l \/ (j = l + 1 /\ Len(rows') = l + 1)
  BY <1>1
<1>3. 1..l \subseteq 1..Len(rows') /\ 1..(l + 1) \subseteq 1..(Len(rows') + 1)
  BY <1>1
<1>4. \A i \in 1..Len(rows') : rows'[i].seq \in 1..Len(rows')
  BY <1>1, <1>2, <1>3
<1>5. \E i \in 1..Len(rows') : \A j \in 1..Len(rows') : rows'[j].seq <= rows'[i].seq
  <2>1. req[h].id \in 1..l
    BY RequestFields DEF Serves, Busy
  <2>2. rows # <<>>
    BY <2>1, EmptySeq
  <2>3. PICK i \in 1..l : \A j \in 1..l : rows[j].seq <= rows[i].seq
    BY <2>2 DEF Serves, Ranked
  <2>4. CASE Len(rows') = l
    BY <1>1, <2>3, <2>4
  <2>5. CASE Len(rows') = l + 1 /\ n <= rows[i].seq
    <3>1. i \in 1..Len(rows') /\ \A j \in 1..Len(rows') : rows'[j].seq <= rows'[i].seq
      BY <1>1, <1>2, <2>3, <2>5
    <3> QED BY <3>1
  <2>6. CASE Len(rows') = l + 1 /\ rows[i].seq < n
    <3>1. \A j \in 1..l : rows'[j].seq \in Nat /\ rows'[j].seq <= rows[i].seq
      BY <1>1, <2>3
    <3>2. rows'[l + 1].seq = n /\ rows[i].seq \in Nat
      BY <1>1, <2>6
    <3>3. \A j \in 1..l : rows'[j].seq <= n
      BY <2>6, <3>1, <3>2
    <3>4. l + 1 \in 1..Len(rows')
      BY <1>1, <2>6
    <3>5. n <= n
      OBVIOUS
    <3>6. \A j \in 1..Len(rows') : rows'[j].seq <= rows'[l + 1].seq
      BY <1>2, <3>2, <3>3, <3>5
    <3> QED BY <3>4, <3>6
  <2>7. rows[i].seq \in Nat
    BY <1>1
  <2>8. n <= rows[i].seq \/ rows[i].seq < n
    BY <2>7
  <2>9. Len(rows') = l \/ Len(rows') = l + 1
    BY <1>1
  <2> HIDE DEF l
  <2> QED BY <2>4, <2>5, <2>6, <2>8, <2>9
<1>6. \A k \in 1..Len(run'.txn) : run'.txn[k].seq \in 1..(Len(rows') + 1)
  BY <1>3 DEF Serves, Ranked
<1>7. \A g \in Handlers : req'[g].pc = "numbered" =>
        req'[g].seq \in 1..(Len(rows') + 1) /\ rows'[req'[g].id].seq < req'[g].seq
  BY <1>1, <1>3, TrustedAfter DEF Serves, Ranked
<1> QED BY <1>4, <1>5, <1>6, <1>7 DEF Ranked

LEMMA DecideServes ==
  ASSUME Serves, NEW h \in Handlers, CommitApprove(h) \/ CommitReject(h)
  PROVE  Serves'
<1>1. PICK s \in {"APPLIED", "REJECTED"}, p \in Nat :
        Rewritten(req[h].id, s, p) /\ Len(rows') = Len(rows)
  <2>1. req[h].prev \in Nat /\ (req[h].pc # "idle" => rows[req[h].id].prev \in Nat)
    BY RequestFields, RowFields DEF Serves
  <2> QED BY <2>1, ApproveRewrites, RejectRewrites DEF Serves, CommitReject
<1>2. /\ Busy(h) /\ req[h].op # "undo" /\ req' = [req EXCEPT ![h] = NoRequest]
      /\ UNCHANGED <<current, run, writes, contested, lost>>
      /\ path' \in {"original", "current"}
  BY DEF CommitApprove, CommitReject, Busy, Answer, counters, excused, Serves, Types
<1>3. req[h].id \in 1..Len(rows) /\ Len(rows) \in Nat
  BY <1>2, RequestFields, RowFields DEF Serves, Busy
<1>4. late' \subseteq Cells
  <2>1. rows[req[h].id].cell \in Cells
    BY <1>3, RowFields DEF Serves
  <2> QED BY <2>1 DEF CommitApprove, CommitReject, excused, Serves, Types
<1>5. Types' /\ Trusted'
  BY <1>1, <1>2, <1>4, AnswerTypes, TrustedAfter
<1>6. Ranked'
  <2>1. Len(rows') # Len(rows) + 1 /\ 0 \in Nat
    BY <1>1, <1>3
  <2> QED BY <1>1, <1>2, <2>1, AnswerRank
<1>7. rows[req[h].id].inverseOf = NoRow
  BY <1>2 DEF Serves, Trusted
<1>8. \A j \in 1..Len(rows) :
        /\ rows'[j].inverseOf = rows[j].inverseOf /\ rows'[j].seq = rows[j].seq
        /\ j # req[h].id => rows'[j].status = rows[j].status
        /\ rows'[req[h].id].status = s
  BY <1>1, <1>3 DEF Rewritten
<1>9. Kinds'
  BY <1>1, <1>2, <1>7, <1>8 DEF Serves, Kinds
<1>10. UndoneIsReversed'
  <2> SUFFICES ASSUME NEW i \in 1..Len(rows), rows'[i].status = "UNDONE"
               PROVE  \E j \in 1..Len(rows) : /\ rows'[j].inverseOf = i /\ rows'[i].seq < rows'[j].seq
                                              /\ Replayable(rows'[j])
    BY <1>1 DEF UndoneIsReversed
  <2>1. i # req[h].id /\ i # NoRow
    BY <1>8 DEF NoRow
  <2>2. PICK j \in 1..Len(rows) :
          rows[j].inverseOf = i /\ rows[i].seq < rows[j].seq /\ Replayable(rows[j])
    BY <1>8, <2>1 DEF Serves, UndoneIsReversed
  <2>3. j # req[h].id
    BY <1>7, <2>1, <2>2
  <2> QED BY <1>8, <2>2, <2>3 DEF Replayable
<1> QED BY <1>5, <1>6, <1>9, <1>10 DEF Serves

\* The inverse comes after the row it undoes.
LEMMA UndoServes ==
  ASSUME Serves, NEW h \in Handlers, CommitUndo(h)
  PROVE  Serves'
<1> DEFINE l == Len(rows)
           i == req[h].id
<1>1. /\ Rewritten(i, "UNDONE", rows[i].prev)
      /\ Len(rows') = l + 1 /\ rows'[l + 1] = Reversal(h)
  BY UndoRewrites DEF Serves
<1>2. /\ Busy(h) /\ req[h].op = "undo" /\ req' = [req EXCEPT ![h] = NoRequest]
      /\ UNCHANGED <<current, run, writes, late, contested, lost>>
      /\ path' \in {"original", "current"}
  BY DEF CommitUndo, Busy, Answer, counters, excused, Serves, Trusted
<1>3. i \in 1..l /\ l \in Nat
  BY <1>2, RequestFields, RowFields DEF Serves, Busy
<1>4. /\ req[h].seq \in 1..(l + 1) /\ rows[i].seq < req[h].seq /\ rows[i].seq \in Nat
      /\ req[h].seq \in Nat
  BY <1>3, RowFields DEF CommitUndo, Serves, Ranked
<1>5. /\ Reversal(h).seq = req[h].seq /\ Reversal(h).status = "APPLIED"
      /\ Reversal(h).inverseOf = i
  BY DEF Reversal
<1>6. late' \subseteq Cells
  BY <1>2 DEF Serves, Types
<1>7. Types' /\ Trusted'
  BY <1>1, <1>2, <1>6, AnswerTypes, TrustedAfter
<1>8. Ranked'
  <2>1. rows'[l + 1].seq = req[h].seq
    BY <1>1, <1>5
  <2> QED BY <1>1, <1>2, <1>4, <2>1, AnswerRank
<1>9. /\ \A j \in 1..l :
           /\ rows'[j].inverseOf = rows[j].inverseOf /\ rows'[j].seq = rows[j].seq
           /\ j # i => rows'[j].status = rows[j].status
      /\ rows'[i].status = "UNDONE"
  BY <1>1, <1>3 DEF Rewritten
<1>10. \A j \in 1..(l + 1) : j \in 1..l \/ j = l + 1
  BY <1>3
<1>11. Kinds'
  <2>1. \A j \in 1..Len(rows') :
          rows'[j].inverseOf # NoRow => rows'[j].status \in {"APPLIED", "UNDONE"}
    <3>1. \A j \in 1..l :
            rows'[j].inverseOf # NoRow => rows'[j].status \in {"APPLIED", "UNDONE"}
      BY <1>9 DEF Serves, Kinds
    <3> QED BY <1>1, <1>5, <1>10, <3>1
  <2> QED BY <1>2, <2>1 DEF Serves, Kinds
<1>12. UndoneIsReversed'
  <2> SUFFICES ASSUME NEW k \in 1..(l + 1), rows'[k].status = "UNDONE"
               PROVE  \E j \in 1..(l + 1) : /\ rows'[j].inverseOf = k /\ rows'[k].seq < rows'[j].seq
                                            /\ Replayable(rows'[j])
    BY <1>1 DEF UndoneIsReversed
  <2>1. k \in 1..l
    BY <1>1, <1>5, <1>10
  <2>2. CASE k = i
    <3>1. /\ l + 1 \in 1..(l + 1) /\ rows'[l + 1].inverseOf = i
          /\ rows'[l + 1].status = "APPLIED"
          /\ rows'[i].seq < rows'[l + 1].seq
      BY <1>1, <1>3, <1>4, <1>5, <1>9
    <3> QED BY <2>2, <3>1 DEF Replayable
  <2>3. CASE k # i
    <3>1. PICK j \in 1..l : rows[j].inverseOf = k /\ rows[k].seq < rows[j].seq /\ Replayable(rows[j])
      BY <1>9, <2>1, <2>3 DEF Serves, UndoneIsReversed
    <3>2. j \in 1..(l + 1) /\ rows'[j].inverseOf = k /\ Replayable(rows'[j])
      BY <1>3, <1>9, <3>1 DEF Replayable
    <3>3. rows'[k].seq < rows'[j].seq
      BY <1>9, <2>1, <3>1
    <3> QED BY <3>2, <3>3
  <2> QED BY <2>2, <2>3
<1> QED BY <1>7, <1>8, <1>11, <1>12 DEF Serves

\* Nothing is trusted after a crash.
LEMMA CrashServes ==
  ASSUME Serves, Crash
  PROVE  Serves'
<1>1. /\ UNCHANGED <<rows, current, path, writes, late, contested>>
      /\ run' = NoRun /\ req' = [h \in Handlers |-> NoRequest]
  BY DEF Crash
<1>2. /\ NoRun \in RunState /\ NoRun.txn = <<>> /\ NoRequest \in Request
      /\ NoRequest.pc = "idle" /\ Len(<<>>) = 0
  BY RunRecords, OpenedFields, EmptySeq DEF Serves, Ops
<1>3. lost' \subseteq Cells
  <2>1. Uncommitted \subseteq Cells
    BY RowFields, RequestFields DEF Serves, Uncommitted
  <2> QED BY <2>1 DEF Crash, Unsaved, Serves, Types
<1>4. req' \in [Handlers -> Request] /\ \A h \in Handlers : req'[h].pc = "idle"
  BY <1>1, <1>2
<1>5. run' \in RunState /\ run'.txn = <<>> /\ Len(run'.txn) = 0
  BY <1>1, <1>2
<1>6. Types'
  BY <1>1, <1>3, <1>4, <1>5 DEF Serves, Types
<1>7. Ranked' /\ Kinds' /\ UndoneIsReversed'
  BY <1>1, <1>4, <1>5 DEF Serves, Ranked, Kinds, UndoneIsReversed, Replayable
<1>8. Trusted'
  BY <1>4 DEF Trusted, Busy
<1> QED BY <1>6, <1>7, <1>8 DEF Serves

LEMMA InitServes ==
  ASSUME Init
  PROVE  Serves
<1>1. /\ rows = <<>> /\ Len(rows) = 0 /\ rows \in Seq(Row)
  BY EmptySeq DEF Init
<1>2. \A h \in Handlers : req[h].pc = "idle"
  BY DEF Init, NoRequest
<1>3. Types
  <2>1. current \in Book /\ Original \in Book /\ writes \in 0..MaxRows
    BY SessionLedgerAssumption DEF Init, Original, Book
  <2>2. path \in {"original", "current"}
    BY SessionLedgerAssumption DEF Init
  <2> DEFINE none == <<>>
  <2>3. none \in Seq(Row) /\ Len(none) = 0
    BY EmptySeq
  <2> HIDE DEF none
  <2>4. [pc |-> "off", wb |-> Original, txn |-> none] \in RunState
    BY <2>1, <2>3 DEF RunState
  <2>5. run \in RunState /\ run.txn = <<>> /\ Len(run.txn) = 0
    BY <2>3, <2>4 DEF Init, NoRun, none
  <2>6. NoRequest \in Request
    BY SessionLedgerAssumption DEF NoRequest, Request, Ops, NoRow, NoValue
  <2>7. req \in [Handlers -> Request]
    BY <2>6 DEF Init
  <2>8. late \subseteq Cells /\ contested \subseteq Cells /\ lost \subseteq Cells
    BY DEF Init
  <2> QED BY <1>1, <1>2, <2>1, <2>2, <2>5, <2>7, <2>8 DEF Types
<1>4. Len(run.txn) = 0
  BY EmptySeq DEF Init, NoRun
<1>5. Ranked /\ Kinds /\ Trusted /\ UndoneIsReversed
  BY <1>1, <1>2, <1>4 DEF Ranked, Kinds, Trusted, Busy, UndoneIsReversed
<1> QED BY <1>3, <1>5 DEF Serves

LEMMA NextServes ==
  ASSUME Serves, [Next]_vars
  PROVE  Serves'
<1>1. CASE Run
  <2>1. CASE RunStart \/ RunSave \/ RunFinish
    BY <2>1, RunOtherServes
  <2>2. CASE RunCommit \/ RunFail
    BY <2>2, TxnServes
  <2>3. CASE \E c \in Cells : RunWrite(c)
    BY <2>3, RunWriteServes
  <2> QED BY <1>1, <2>1, <2>2, <2>3 DEF Run
<1>2. CASE \E h \in Handlers : Serve(h)
  <2>1. PICK h \in Handlers : Serve(h)
    BY <1>2
  <2>2. CASE \E op \in Ops, i \in 1..MaxRows : Open(h, op, i)
    BY <2>2, OpenServes
  <2>3. CASE Read(h) \/ Act(h) \/ Number(h)
    BY <2>3, ReadServes, ActServes, NumberServes
  <2>4. CASE CommitApprove(h) \/ CommitReject(h) \/ CommitUndo(h)
    BY <2>4, DecideServes, UndoServes
  <2> QED BY <2>1, <2>2, <2>3, <2>4 DEF Serve
<1>3. CASE Crash
  BY <1>3, CrashServes
<1>4. CASE UNCHANGED vars
  <2>1. UNCHANGED <<rows, current, path, run, req, writes, late, contested, lost>>
    BY <1>4 DEF vars, counters, excused
  <2>2. Types' /\ Ranked' /\ Kinds'
    BY <2>1 DEF Serves, Types, Ranked, Kinds
  <2>3. Trusted' /\ UndoneIsReversed'
    BY <2>1 DEF Serves, Trusted, Busy, CellOf, UndoneIsReversed, Replayable
  <2> QED BY <2>2, <2>3 DEF Serves
<1> QED BY <1>1, <1>2, <1>3, <1>4 DEF Next

LEMMA ServesHolds == Spec => []Serves
BY InitServes, NextServes, PTL DEF Spec

\* An undo's inverse is in the ledger for good and replay comes to it later than
\* to the row it reverses, whatever else was decided, flushed or lost meanwhile
\* (undo.py; the orchestrator numbers its rows with the same _next_sequence).
THEOREM InversesComeLater == Spec => []UndoneIsReversed
BY ServesHolds, PTL DEF Serves

\* One step decides a row only along its life cycle, or another request works
\* on its cell.
LEMMA DecideStep ==
  ASSUME Serves, [Next]_vars, NEW i \in 1..Len(rows)
  PROVE  \/ rows'[i].status = rows[i].status
         \/ <<rows[i].status, rows'[i].status>> \in Lifecycle
         \/ rows[i].cell \in contested
<1>1. ASSUME NEW h \in Handlers, CommitApprove(h)
      PROVE  \/ rows'[i].status = rows[i].status
             \/ <<rows[i].status, rows'[i].status>> \in Lifecycle
             \/ rows[i].cell \in contested
  <2>1. Rewritten(req[h].id, "APPLIED", req[h].prev)
    BY <1>1, ApproveRewrites DEF Serves
  <2>2. Busy(h) /\ req[h].op = "approve"
    BY <1>1 DEF CommitApprove, Busy
  <2>3. rows[req[h].id].status = "PENDING_APPROVAL" \/ rows[req[h].id].cell \in contested
    BY <2>2 DEF Serves, Trusted, Allowed, CellOf
  <2> QED BY <2>1, <2>3 DEF Rewritten, Lifecycle
<1>2. ASSUME NEW h \in Handlers, CommitReject(h)
      PROVE  \/ rows'[i].status = rows[i].status
             \/ <<rows[i].status, rows'[i].status>> \in Lifecycle
             \/ rows[i].cell \in contested
  <2>1. Rewritten(req[h].id, "REJECTED", rows[req[h].id].prev)
    BY <1>2, RejectRewrites DEF Serves
  <2>2. Busy(h) /\ req[h].op = "reject"
    BY <1>2 DEF CommitReject, Busy
  <2>3. rows[req[h].id].status = "PENDING_APPROVAL" \/ rows[req[h].id].cell \in contested
    BY <2>2 DEF Serves, Trusted, Allowed, CellOf
  <2> QED BY <2>1, <2>3 DEF Rewritten, Lifecycle
<1>3. ASSUME NEW h \in Handlers, CommitUndo(h)
      PROVE  \/ rows'[i].status = rows[i].status
             \/ <<rows[i].status, rows'[i].status>> \in Lifecycle
             \/ rows[i].cell \in contested
  <2>1. Rewritten(req[h].id, "UNDONE", rows[req[h].id].prev)
    BY <1>3, UndoRewrites DEF Serves
  <2>2. Busy(h) /\ req[h].op = "undo"
    BY <1>3 DEF CommitUndo, Busy, Serves, Trusted
  <2>3. rows[req[h].id].status = "APPLIED" \/ rows[req[h].id].cell \in contested
    BY <2>2 DEF Serves, Trusted, Allowed, CellOf
  <2> QED BY <2>1, <2>3 DEF Rewritten, Lifecycle
<1>4. CASE RunCommit \/ RunFail
  <2>1. rows' = rows \o run.txn
    BY <1>4 DEF RunCommit, RunFail
  <2> QED BY <2>1, TxnRewrites DEF Serves
<1>5. CASE \/ RunStart \/ (\E c \in Cells : RunWrite(c)) \/ RunSave \/ RunFinish \/ Crash
           \/ \E h \in Handlers : \/ \E op \in Ops, k \in 1..MaxRows : Open(h, op, k)
                                  \/ Read(h) \/ Act(h) \/ Number(h)
           \/ UNCHANGED vars
  BY <1>5 DEF RunStart, RunWrite, RunSave, RunFinish, Crash, Open, Read, Act, Number, vars
<1> QED BY <1>1, <1>2, <1>3, <1>4, <1>5 DEF Next, Run, Serve

\* A decision is final, for requests and runs in any number and order, except
\* where two handlers had checked rows of one cell at once.
THEOREM DecisionsAreFinal == Spec => DecidedOnce
<1>1. Serves /\ [Next]_vars =>
        [\A i \in 1..Len(rows) : \/ rows'[i].status = rows[i].status
                                 \/ <<rows[i].status, rows'[i].status>> \in Lifecycle
                                 \/ rows[i].cell \in contested]_vars
  BY DecideStep
<1> QED BY <1>1, ServesHolds, PTL DEF Spec, DecidedOnce

-----------------------------------------------------------------------------
(* Keeps is inductive.                                                       *)

LEMMA FileCells ==
  ASSUME Types, NEW p \in {"original", "current"}
  PROVE  \A c \in Cells : FileAt(p)[c] \in {0, current[c]} /\ FileAt(p)[c] \in Nat
BY DEF Types, FileAt, Original, Book

\* What is staged has a value of its own, neither 0 nor "no value".
LEMMA StagedValues ==
  ASSUME Serves, Dated
  PROVE  /\ writes \in Nat /\ NoValue \notin 0..writes
         /\ \A i \in 1..Len(rows) : rows[i].status = "PENDING_APPROVAL" =>
              /\ rows[i].inverseOf = NoRow /\ rows[i].val \in 1..writes
              /\ rows[i].val # 0 /\ rows[i].val # NoValue
         /\ \A k \in 1..Len(run.txn) :
              run.txn[k].val \in 1..writes /\ run.txn[k].val # 0 /\ run.txn[k].val # NoValue
<1>1. writes \in Nat /\ NoValue \notin 0..writes /\ 0 \notin 1..writes /\ NoValue \notin 1..writes
  BY SessionLedgerAssumption DEF Serves, Types, NoValue
<1>2. \A i \in 1..Len(rows) : rows[i].status = "PENDING_APPROVAL" =>
        rows[i].inverseOf = NoRow /\ rows[i].val \in 1..writes
  BY DEF Serves, Kinds, Dated
<1>3. \A k \in 1..Len(run.txn) : run.txn[k].val \in 1..writes
  BY DEF Dated
<1> QED BY <1>1, <1>2, <1>3

\* Withheld of the next state, for values named in this one.
LEMMA WithheldNext ==
  ASSUME \A i \in 1..Len(rows') : \A c, v :
           /\ c = rows'[i].cell /\ v = rows'[i].val /\ rows'[i].status = "PENDING_APPROVAL"
           /\ c \notin contested' \cup lost'
           => Clear(c, v)' \/ \E g \in Handlers : Approving(g, i)',
         \A k \in 1..Len(run'.txn) : \A c, v :
           /\ c = run'.txn[k].cell /\ v = run'.txn[k].val
           /\ run'.txn[k].status = "PENDING_APPROVAL"
           => Clear(c, v)'
  PROVE  Withheld'
<1>1. \A i \in 1..Len(rows') :
        rows'[i].status = "PENDING_APPROVAL" /\ rows'[i].cell \notin contested' \cup lost'
          => Clear(rows[i].cell, rows[i].val)' \/ \E g \in Handlers : Approving(g, i)'
  BY DEF Clear
<1>2. \A k \in 1..Len(run'.txn) : run'.txn[k].status = "PENDING_APPROVAL" =>
        Clear(run.txn[k].cell, run.txn[k].val)'
  BY DEF Clear
<1> QED BY <1>1, <1>2 DEF Withheld

\* A handler goes on and no row changes.
LEMMA RequestKeeps ==
  ASSUME Serves, Keeps, NEW h \in Handlers, NEW q,
         UNCHANGED <<rows, run, writes>>, req' = [req EXCEPT ![h] = q],
         contested \subseteq contested', lost \subseteq lost',
         ~(req[h].pc = "acted" /\ req[h].op = "approve"),
         \A c \in Cells : Old(current'[c]),
         Old(q.back), Old(q.prev), q.pc = "opened" => q.prev = NoValue,
         \A i \in 1..Len(rows) :
           rows[i].status = "PENDING_APPROVAL" /\ Clear(rows[i].cell, rows[i].val) =>
             \/ /\ current'[rows[i].cell] # rows[i].val
                /\ q.pc \in {"checked", "acted", "numbered"} /\ rows[q.id].cell = rows[i].cell
                     => q.back # rows[i].val /\ q.prev # rows[i].val
             \/ q.pc = "acted" /\ q.op = "approve" /\ q.id = i,
         \A k \in 1..Len(run.txn) :
           run.txn[k].status = "PENDING_APPROVAL" /\ Clear(run.txn[k].cell, run.txn[k].val) =>
             /\ current'[run.txn[k].cell] # run.txn[k].val
             /\ q.pc \in {"checked", "acted", "numbered"} /\ rows[q.id].cell = run.txn[k].cell
                  => q.back # run.txn[k].val /\ q.prev # run.txn[k].val
  PROVE  Keeps'
<1>1. \A g \in Handlers : req'[g] = IF g = h THEN q ELSE req[g]
  BY DEF Serves, Types
<1>2. Dated'
  <2>1. \A g \in Handlers : /\ Old(req'[g].back) /\ Old(req'[g].prev)
                            /\ req'[g].pc = "opened" => req'[g].prev = NoValue
    BY <1>1 DEF Keeps, Dated
  <2> QED BY <2>1 DEF Keeps, Dated, Old
<1>3. ASSUME NEW c, NEW v, Clear(c, v), current'[c] # v,
             q.pc \in {"checked", "acted", "numbered"} /\ rows[q.id].cell = c
               => q.back # v /\ q.prev # v
      PROVE  Clear(c, v)'
  BY <1>1, <1>3 DEF Clear, Busy, CellOf
<1>4. \A i \in 1..Len(rows), g \in Handlers : Approving(g, i) => Approving(g, i)'
  BY <1>1 DEF Approving
<1>5. ASSUME NEW i \in 1..Len(rows'), NEW c, NEW v, c = rows'[i].cell, v = rows'[i].val,
             rows'[i].status = "PENDING_APPROVAL", c \notin contested' \cup lost'
      PROVE  Clear(c, v)' \/ \E g \in Handlers : Approving(g, i)'
  <2>1. i \in 1..Len(rows) /\ c = rows[i].cell /\ v = rows[i].val
        /\ rows[i].status = "PENDING_APPROVAL" /\ c \notin contested \cup lost
    BY <1>5
  <2>2. CASE \E g \in Handlers : Approving(g, i)
    BY <1>4, <2>1, <2>2
  <2>3. CASE Clear(c, v) /\ q.pc = "acted" /\ q.op = "approve" /\ q.id = i
    BY <1>1, <2>3 DEF Approving
  <2>4. CASE Clear(c, v) /\ ~(q.pc = "acted" /\ q.op = "approve" /\ q.id = i)
    BY <1>3, <2>1, <2>4
  <2> QED BY <2>1, <2>2, <2>3, <2>4 DEF Keeps, Withheld
<1>6. ASSUME NEW k \in 1..Len(run'.txn), NEW c, NEW v, c = run'.txn[k].cell,
             v = run'.txn[k].val, run'.txn[k].status = "PENDING_APPROVAL"
      PROVE  Clear(c, v)'
  BY <1>3, <1>6 DEF Keeps, Withheld
<1>7. Withheld'
  BY <1>5, <1>6, WithheldNext
<1> QED BY <1>2, <1>7 DEF Keeps

LEMMA OpenKeeps ==
  ASSUME Serves, Keeps, NEW h \in Handlers, NEW op \in Ops, NEW i \in 1..MaxRows, Open(h, op, i)
  PROVE  Keeps'
<1> DEFINE q == Opened(op, i)
<1>1. i \in Nat /\ req[h].pc = "idle"
  BY DEF Open
<1>2. req' = [req EXCEPT ![h] = q]
  BY HandlerSteps DEF Serves
<1>3. q.pc = "opened" /\ q.back = NoValue /\ q.prev = NoValue
  BY <1>1, OpenedFields DEF Serves
<1> HIDE DEF q
<1>4. /\ UNCHANGED <<rows, run, writes, current, contested, lost>>
      /\ \A c \in Cells : Old(current'[c])
      /\ Old(q.back) /\ Old(q.prev)
  BY <1>3 DEF Open, excused, Keeps, Dated, Old
<1>5. \A k \in 1..Len(rows) : Clear(rows[k].cell, rows[k].val) =>
        current'[rows[k].cell] # rows[k].val
  BY <1>4 DEF Clear
<1>6. \A k \in 1..Len(run.txn) : Clear(run.txn[k].cell, run.txn[k].val) =>
        current'[run.txn[k].cell] # run.txn[k].val
  BY <1>4 DEF Clear
<1> QED BY <1>1, <1>2, <1>3, <1>4, <1>5, <1>6, RequestKeeps

LEMMA ReadKeeps ==
  ASSUME Serves, Keeps, NEW h \in Handlers, Read(h)
  PROVE  Keeps'
<1> DEFINE q == IF Allowed(req[h].op, rows[req[h].id].status)
                THEN Checked(req[h], rows[req[h].id].prev) ELSE NoRequest
<1>1. req[h].id \in 1..Len(rows) /\ req[h] \in Request /\ req[h].pc = "opened"
  BY RequestFields DEF Serves, Read
<1>2. rows[req[h].id].prev \in Nat /\ req[h].prev = NoValue
  BY <1>1, RowFields DEF Serves, Keeps, Dated
<1>3. req' = [req EXCEPT ![h] = q]
  BY HandlerSteps DEF Serves, Read
<1>4. \/ /\ q.pc = "checked" /\ q.back = rows[req[h].id].prev /\ q.prev = NoValue
         /\ q.id = req[h].id
      \/ q.pc = "idle" /\ q.back = NoValue /\ q.prev = NoValue
  <2>1. /\ NoRequest.pc = "idle" /\ NoRequest.back = NoValue /\ NoRequest.prev = NoValue
    BY DEF NoRequest
  <2>2. /\ Checked(req[h], rows[req[h].id].prev).pc = "checked"
        /\ Checked(req[h], rows[req[h].id].prev).back = rows[req[h].id].prev
        /\ Checked(req[h], rows[req[h].id].prev).prev = req[h].prev
        /\ Checked(req[h], rows[req[h].id].prev).id = req[h].id
    BY <1>1, <1>2, HandlerRecords
  <2> QED BY <1>2, <2>1, <2>2
<1> HIDE DEF q
<1>5. /\ UNCHANGED <<rows, run, writes, current, lost>>
      /\ contested \subseteq contested' /\ \A c \in Cells : Old(current'[c])
  BY DEF Read, counters, Keeps, Dated
<1>6. Old(q.back) /\ Old(q.prev)
  <2>1. Old(NoValue) /\ Old(rows[req[h].id].prev)
    BY <1>1 DEF Keeps, Dated, Old
  <2> QED BY <1>4, <2>1
<1>7. ASSUME NEW c, NEW v, Clear(c, v), v # NoValue
      PROVE  /\ current'[c] # v
             /\ q.pc \in {"checked", "acted", "numbered"} /\ rows[q.id].cell = c
                  => q.back # v /\ q.prev # v
  BY <1>1, <1>4, <1>5, <1>7 DEF Clear
<1> QED BY <1>1, <1>3, <1>4, <1>5, <1>6, <1>7, StagedValues, RequestKeeps DEF Keeps

\* What an approval or an undo writes is not another staged value of the cell.
LEMMA ActKeeps ==
  ASSUME Serves, Keeps, NEW h \in Handlers, Act(h)
  PROVE  Keeps'
<1> DEFINE b == FileAt(req[h].src)[CellOf(h)]
           q == Acted(req[h], b)
<1>1. /\ Busy(h) /\ req[h] \in Request /\ req[h].op \in {"approve", "undo"}
      /\ req[h].src \in {"original", "current"} /\ req[h].id \in 1..Len(rows)
      /\ req[h].pc = "checked"
  BY RequestFields DEF Act, Busy, Serves, Ops
<1>2. /\ FileAt(req[h].src) \in Book /\ CellOf(h) \in Cells /\ b \in Nat
      /\ \A c \in Cells : FileAt(req[h].src)[c] \in {0, current[c]}
  BY <1>1, BookWrite, FileCells DEF Serves, Book
<1>3. /\ q.pc = "acted" /\ q.op = req[h].op /\ q.id = req[h].id /\ q.back = req[h].back
      /\ q.prev = b
  BY <1>1, <1>2, HandlerRecords
<1>4. req' = [req EXCEPT ![h] = q]
  BY HandlerSteps DEF Serves, CellOf
<1>5. \A c \in Cells : current'[c] = IF c = CellOf(h) THEN Written(h) ELSE FileAt(req[h].src)[c]
  BY <1>2 DEF Act, CellOf, Book
<1>6. /\ UNCHANGED <<rows, run, writes, contested>> /\ lost \subseteq lost'
  BY DEF Act, counters
<1>7. Written(h) = IF req[h].op = "undo" THEN req[h].back ELSE rows[req[h].id].val
  BY DEF Written
<1>8. \A v : Old(v) <=> v <= writes \/ v = NoValue
  BY DEF Old
<1>9. Old(0)
  BY StagedValues DEF Old, Keeps
<1>10. (\A c \in Cells : Old(current'[c])) /\ Old(q.back) /\ Old(q.prev)
  <2>1. /\ \A c \in Cells : Old(FileAt(req[h].src)[c])
        /\ Old(Written(h)) /\ Old(req[h].back)
    BY <1>1, <1>2, <1>7, <1>9 DEF Keeps, Dated
  <2> QED BY <1>2, <1>3, <1>5, <2>1
<1>11. ASSUME NEW c \in Cells, NEW v, Clear(c, v), v # 0,
              req[h].op = "approve" => rows[req[h].id].val # v
       PROVE  /\ current'[c] # v
              /\ rows[q.id].cell = c => q.back # v /\ q.prev # v
  <2>1. FileAt(req[h].src)[c] # v
    BY <1>2, <1>11 DEF Clear
  <2>2. rows[q.id].cell = CellOf(h)
    BY <1>3 DEF CellOf
  <2>3. CellOf(h) = c => req[h].back # v
    BY <1>1, <1>11 DEF Clear
  <2>4. CellOf(h) = c => Written(h) # v
    BY <1>1, <1>7, <1>11, <2>3
  <2> HIDE DEF q
  <2> QED BY <1>3, <1>5, <2>1, <2>2, <2>3, <2>4
<1>12. req[h].op = "approve" => rows[req[h].id].inverseOf = NoRow
  BY <1>1 DEF Serves, Trusted
<1> HIDE DEF q
<1>13. \A i \in 1..Len(rows) :
         rows[i].status = "PENDING_APPROVAL" /\ Clear(rows[i].cell, rows[i].val) =>
           \/ /\ current'[rows[i].cell] # rows[i].val
              /\ q.pc \in {"checked", "acted", "numbered"} /\ rows[q.id].cell = rows[i].cell
                   => q.back # rows[i].val /\ q.prev # rows[i].val
           \/ q.pc = "acted" /\ q.op = "approve" /\ q.id = i
  <2> SUFFICES ASSUME NEW i \in 1..Len(rows), rows[i].status = "PENDING_APPROVAL",
                      Clear(rows[i].cell, rows[i].val), ~(q.op = "approve" /\ q.id = i)
               PROVE  /\ current'[rows[i].cell] # rows[i].val
                      /\ rows[q.id].cell = rows[i].cell
                           => q.back # rows[i].val /\ q.prev # rows[i].val
    BY <1>3
  <2>1. rows[i].inverseOf = NoRow /\ rows[i].val # 0 /\ rows[i].cell \in Cells
    BY StagedValues, RowFields DEF Serves, Keeps
  <2>2. req[h].op = "approve" => rows[req[h].id].val # rows[i].val
    BY <1>1, <1>3, <1>12, <2>1 DEF Keeps, Dated
  <2> QED BY <1>11, <2>1, <2>2
<1>14. \A k \in 1..Len(run.txn) : Clear(run.txn[k].cell, run.txn[k].val) =>
         /\ current'[run.txn[k].cell] # run.txn[k].val
         /\ rows[q.id].cell = run.txn[k].cell
              => q.back # run.txn[k].val /\ q.prev # run.txn[k].val
  <2> SUFFICES ASSUME NEW k \in 1..Len(run.txn), Clear(run.txn[k].cell, run.txn[k].val)
               PROVE  /\ current'[run.txn[k].cell] # run.txn[k].val
                      /\ rows[q.id].cell = run.txn[k].cell
                           => q.back # run.txn[k].val /\ q.prev # run.txn[k].val
    OBVIOUS
  <2>1. run.txn[k].val # 0
    BY StagedValues DEF Keeps
  <2>2. run.txn[k].cell \in Cells
    <3>1. run.txn[k] \in Row
      BY RunFields, ElementOfSeq DEF Serves
    <3> QED BY <3>1 DEF Row
  <2>3. req[h].op = "approve" => rows[req[h].id].val # run.txn[k].val
    BY <1>1, <1>12 DEF Keeps, Dated
  <2> QED BY <1>11, <2>1, <2>2, <2>3
<1> QED BY <1>1, <1>3, <1>4, <1>6, <1>10, <1>13, <1>14, RequestKeeps

LEMMA NumberKeeps ==
  ASSUME Serves, Keeps, NEW h \in Handlers, Number(h)
  PROVE  Keeps'
<1> DEFINE q == Numbered(req[h], NextSequence(rows))
<1>1. Busy(h) /\ req[h] \in Request /\ req[h].op = "undo" /\ req[h].id \in 1..Len(rows)
  BY RequestFields DEF Number, Busy, Serves
<1>2. NextSequence(rows) \in 1..(Len(rows) + 1)
  BY NextSequenceAbove DEF Serves, Number
<1>3. NextSequence(rows) \in Nat
  BY <1>2
<1>4. /\ q.pc = "numbered" /\ q.id = req[h].id
      /\ q.back = req[h].back /\ q.prev = req[h].prev
  BY <1>1, <1>3, HandlerRecords
<1>5. req' = [req EXCEPT ![h] = q]
  BY HandlerSteps DEF Serves
<1> HIDE DEF q
<1>6. /\ UNCHANGED <<rows, run, writes, current, contested, lost>>
      /\ \A c \in Cells : Old(current'[c])
      /\ Old(q.back) /\ Old(q.prev)
  BY <1>4 DEF Number, counters, excused, Keeps, Dated
<1>7. ASSUME NEW c, NEW v, Clear(c, v)
      PROVE  current'[c] # v /\ (rows[q.id].cell = c => q.back # v /\ q.prev # v)
  BY <1>1, <1>4, <1>6, <1>7 DEF Clear, CellOf
<1> QED BY <1>1, <1>4, <1>5, <1>6, <1>7, RequestKeeps

\* The run goes on and no row is committed.
LEMMA RunKeeps ==
  ASSUME Serves, Keeps, RunStart \/ RunSave \/ RunFinish
  PROVE  Keeps'
<1>1. UNCHANGED <<rows, req, writes, contested, lost>>
  BY DEF RunStart, RunSave, RunFinish, counters, excused
<1>2. run'.txn = <<>> /\ Len(run'.txn) = 0
  BY RunGoesOn DEF Serves
<1>3. \A c \in Cells : /\ current'[c] \in {0, current[c], run.wb[c]}
                       /\ run'.wb[c] \in {0, current[c], run.wb[c]}
  <2>1. CASE RunStart
    <3>1. run'.wb = FileAt(path) /\ current' = current
      BY <2>1 DEF RunStart
    <3> QED BY <3>1, FileCells DEF Serves, Types
  <2>2. CASE RunSave
    BY <2>2, RunRecords DEF RunSave, Serves
  <2>3. CASE RunFinish
    BY <2>3 DEF RunFinish, NoRun, Original
  <2> QED BY <2>1, <2>2, <2>3
<1>4. Dated'
  <2>1. Old(0)
    BY StagedValues DEF Old, Keeps
  <2>2. \A c \in Cells : Old(current[c]) /\ Old(run.wb[c])
    BY DEF Keeps, Dated
  <2>3. \A c \in Cells : Old(current'[c]) /\ Old(run'.wb[c])
    BY <1>3, <2>1, <2>2
  <2>4. \A c \in Cells : Old(current[c])' /\ Old(run.wb[c])'
    BY <1>1, <2>3 DEF Old
  <2> QED BY <1>1, <1>2, <2>4 DEF Keeps, Dated, Old
<1>5. ASSUME NEW c \in Cells, NEW v, Clear(c, v), v # 0
      PROVE  Clear(c, v)'
  BY <1>1, <1>2, <1>3, <1>5 DEF Clear, Busy, CellOf
<1>6. ASSUME NEW i \in 1..Len(rows'), NEW c, NEW v, c = rows'[i].cell, v = rows'[i].val,
             rows'[i].status = "PENDING_APPROVAL", c \notin contested' \cup lost'
      PROVE  Clear(c, v)' \/ \E g \in Handlers : Approving(g, i)'
  <2>1. i \in 1..Len(rows) /\ c = rows[i].cell /\ v = rows[i].val /\ c \in Cells
        /\ rows[i].status = "PENDING_APPROVAL" /\ c \notin contested \cup lost /\ v # 0
    BY <1>1, <1>6, StagedValues, RowFields DEF Serves, Keeps
  <2>2. Clear(c, v) \/ \E g \in Handlers : Approving(g, i)
    BY <2>1 DEF Keeps, Withheld
  <2>3. \A g \in Handlers : Approving(g, i) => Approving(g, i)'
    BY <1>1 DEF Approving
  <2> QED BY <1>5, <2>1, <2>2, <2>3
<1>7. Withheld'
  BY <1>2, <1>6, WithheldNext
<1> QED BY <1>4, <1>7 DEF Keeps

\* A new write has a value that is nowhere yet.
LEMMA RunWriteKeeps ==
  ASSUME Serves, Keeps, NEW x \in Cells, RunWrite(x)
  PROVE  Keeps'
<1> DEFINE f == Flushed(x)
<1>1. UNCHANGED <<rows, current, req, contested, lost>> /\ run.txn = <<>>
  BY DEF RunWrite, excused
<1>2. /\ f.cell = x /\ f.val = writes + 1 /\ f.inverseOf = NoRow
      /\ f.prev = (IF x \in UserCells THEN NoValue ELSE run.wb[x])
      /\ f.status = (IF x \in UserCells THEN "PENDING_APPROVAL" ELSE "APPLIED")
      /\ run'.txn[1] = f /\ Len(run'.txn) = 1
      /\ \A d \in Cells : run'.wb[d] =
           IF d = x /\ x \notin UserCells THEN writes + 1 ELSE run.wb[d]
      /\ writes' = writes + 1 /\ writes \in Nat
  BY WriteFields
<1>3. writes + 1 # NoValue
  BY SessionLedgerAssumption DEF RunWrite, Serves, Types, NoValue
<1> HIDE DEF f
<1>4. \A k \in 1..Len(run'.txn) : run'.txn[k] = f
  BY <1>2
<1>5. ASSUME NEW v \in Nat, Old(v)
      PROVE  v <= writes' \/ v = NoValue
  BY <1>2, <1>5 DEF Old
<1>6. ASSUME NEW v, Old(v)
      PROVE  v # writes + 1
  BY <1>2, <1>3, <1>6 DEF Old
<1>7. Dated'
  <2>1. /\ \A c \in Cells : current[c] \in Nat /\ run.wb[c] \in Nat
        /\ \A i \in 1..Len(rows) : rows[i].val \in Nat /\ rows[i].prev \in Nat
        /\ \A h \in Handlers : req[h].back \in Nat /\ req[h].prev \in Nat
    BY RowFields, RunFields, RequestFields DEF Serves, Types, Book
  <2>2. \A c \in Cells : Old(current[c])'
    BY <1>1, <1>5, <2>1 DEF Keeps, Dated, Old
  <2>3. \A c \in Cells : Old(run.wb[c])'
    BY <1>2, <1>5, <2>1 DEF Keeps, Dated, Old
  <2>4. \A i \in 1..Len(rows) : Old(rows[i].val)' /\ Old(rows[i].prev)'
    BY <1>1, <1>5, <2>1 DEF Keeps, Dated, Old
  <2>5. \A k \in 1..Len(run'.txn) : Old(run.txn[k].prev)'
    BY <1>2, <1>4, <1>5, <2>1 DEF Keeps, Dated, Old
  <2>6. \A h \in Handlers : /\ Old(req[h].back)' /\ Old(req[h].prev)'
                            /\ req'[h].pc = "opened" => req'[h].prev = NoValue
    BY <1>1, <1>5, <2>1 DEF Keeps, Dated, Old
  <2>7. \A i \in 1..Len(rows) : rows[i].inverseOf = NoRow => rows[i].val \in 1..writes'
    BY <1>2 DEF Keeps, Dated
  <2>8. \A k \in 1..Len(run'.txn) : run'.txn[k].val \in 1..writes'
    BY <1>2, <1>4
  <2>9. \A k \in 1..Len(run'.txn), i \in 1..Len(rows) :
          rows[i].inverseOf = NoRow => rows[i].val # run'.txn[k].val
    BY <1>2, <1>4, <1>6 DEF Keeps, Dated
  <2> QED BY <1>1, <2>2, <2>3, <2>4, <2>5, <2>6, <2>7, <2>8, <2>9 DEF Keeps, Dated
<1>8. ASSUME NEW c \in Cells, NEW v, Clear(c, v), v # writes + 1, v # NoValue
      PROVE  Clear(c, v)'
  <2>1. run'.wb[c] # v /\ (c = x => f.prev # v)
    BY <1>2, <1>8 DEF Clear
  <2>2. \A k \in 1..Len(run'.txn) : run'.txn[k].cell = c => run'.txn[k].prev # v
    BY <1>2, <1>4, <2>1
  <2> QED BY <1>1, <1>8, <2>1, <2>2 DEF Clear, Busy, CellOf
<1>9. ASSUME x \in UserCells, NEW v, v = writes + 1
      PROVE  Clear(x, v)'
  <2>1. current'[x] # v /\ run'.wb[x] # v
    BY <1>1, <1>2, <1>6, <1>9 DEF Keeps, Dated
  <2>2. \A i \in 1..Len(rows) : rows[i].prev # v
    BY <1>6, <1>9 DEF Keeps, Dated
  <2>3. \A h \in Handlers : req[h].back # v /\ req[h].prev # v
    BY <1>6, <1>9 DEF Keeps, Dated
  <2>4. \A k \in 1..Len(run'.txn) : run'.txn[k].prev # v
    BY <1>2, <1>3, <1>4, <1>9
  <2> QED BY <1>1, <2>1, <2>2, <2>3, <2>4 DEF Clear
<1>10. ASSUME NEW i \in 1..Len(rows'), NEW c, NEW v, c = rows'[i].cell, v = rows'[i].val,
              rows'[i].status = "PENDING_APPROVAL", c \notin contested' \cup lost'
       PROVE  Clear(c, v)' \/ \E g \in Handlers : Approving(g, i)'
  <2>1. i \in 1..Len(rows) /\ c = rows[i].cell /\ v = rows[i].val /\ c \in Cells
        /\ rows[i].status = "PENDING_APPROVAL" /\ c \notin contested \cup lost
        /\ v # NoValue /\ v \in 1..writes
    BY <1>1, <1>10, StagedValues, RowFields DEF Serves, Keeps
  <2>2. v # writes + 1
    BY <1>2, <2>1
  <2>3. Clear(c, v) \/ \E g \in Handlers : Approving(g, i)
    BY <2>1 DEF Keeps, Withheld
  <2>4. \A g \in Handlers : Approving(g, i) => Approving(g, i)'
    BY <1>1 DEF Approving
  <2> QED BY <1>8, <2>1, <2>2, <2>3, <2>4
<1>11. ASSUME NEW k \in 1..Len(run'.txn), NEW c, NEW v, c = run'.txn[k].cell,
              v = run'.txn[k].val, run'.txn[k].status = "PENDING_APPROVAL"
       PROVE  Clear(c, v)'
  BY <1>2, <1>4, <1>9, <1>11
<1>12. Withheld'
  BY <1>10, <1>11, WithheldNext
<1> QED BY <1>7, <1>12 DEF Keeps

\* Flushed rows are committed; a failed run leaves its workbook behind.
LEMMA TxnKeeps ==
  ASSUME Serves, Keeps, RunCommit \/ RunFail
  PROVE  Keeps'
<1> DEFINE n == Len(rows)
<1>1. /\ rows' = rows \o run.txn
      /\ UNCHANGED <<current, req, writes, contested>> /\ lost \subseteq lost'
  BY DEF RunCommit, RunFail, counters, excused
<1>2. /\ Len(rows') = n + Len(run.txn) /\ n \in Nat
      /\ \A j \in 1..n : rows'[j] = rows[j]
      /\ Len(run.txn) = 1 => rows'[n + 1] = run.txn[1]
      /\ Len(run.txn) \in {0, 1}
  BY <1>1, TxnRewrites, RowFields, RunFields DEF Serves, Rewritten
<1>3. /\ run'.txn = <<>> /\ Len(run'.txn) = 0
      /\ \A c \in Cells : run'.wb[c] \in {0, run.wb[c]}
  <2>1. run' = [run EXCEPT !.txn = <<>>] \/ run' = NoRun
    BY DEF RunCommit, RunFail
  <2>2. CASE run' = NoRun
    BY <2>2, EmptySeq DEF NoRun, Original
  <2>3. CASE run' = [run EXCEPT !.txn = <<>>]
    <3>1. run'.txn = <<>> /\ run'.wb = run.wb
      BY <2>3, RunRecords DEF Serves
    <3> QED BY <3>1, EmptySeq
  <2> QED BY <2>1, <2>2, <2>3
<1>4. \A j \in 1..Len(rows') :
        \/ j \in 1..n /\ rows'[j] = rows[j]
        \/ j = n + 1 /\ 1 \in 1..Len(run.txn) /\ rows'[j] = run.txn[1]
  <2>1. PICK m \in {0, 1} : m = Len(run.txn)
    BY <1>2
  <2>2. Len(rows') = n + m
    BY <1>2, <2>1
  <2>3. \A j \in 1..(n + m) : j \in 1..n \/ (j = n + 1 /\ m = 1)
    BY <1>2
  <2> QED BY <1>2, <2>1, <2>2, <2>3
<1>5. \A h \in Handlers : Busy(h) => req[h].id \in 1..n /\ CellOf(h)' = CellOf(h)
  BY <1>1, <1>2 DEF Serves, Types, Busy, CellOf
<1> HIDE DEF n
<1>6. Dated'
  <2>1. Old(0)
    BY StagedValues DEF Old, Keeps
  <2>2. \A c \in Cells : Old(current[c])' /\ Old(run.wb[c])'
    <3>1. \A c \in Cells : Old(current'[c]) /\ Old(run'.wb[c])
      BY <1>1, <1>3, <2>1 DEF Keeps, Dated
    <3> QED BY <1>1, <3>1 DEF Old
  <2>3. \A k \in 1..Len(run.txn) : Old(run.txn[k].val)
    BY StagedValues DEF Keeps, Dated, Old
  <2>4. \A i \in 1..Len(rows') : Old(rows[i].val)' /\ Old(rows[i].prev)'
    <3>1. \A i \in 1..Len(rows') : Old(rows'[i].val) /\ Old(rows'[i].prev)
      BY <1>2, <1>4, <2>3 DEF Keeps, Dated, n
    <3> QED BY <1>1, <3>1 DEF Old
  <2>5. \A h \in Handlers : /\ Old(req[h].back)' /\ Old(req[h].prev)'
                            /\ req'[h].pc = "opened" => req'[h].prev = NoValue
    BY <1>1 DEF Keeps, Dated, Old
  <2>6. \A i \in 1..Len(rows') : rows'[i].inverseOf = NoRow => rows'[i].val \in 1..writes'
    BY <1>1, <1>2, <1>4 DEF Keeps, Dated, n
  <2>7. \A i, j \in 1..Len(rows') :
          i # j /\ rows'[i].inverseOf = NoRow /\ rows'[j].inverseOf = NoRow
            => rows'[i].val # rows'[j].val
    <3>1. \A i, j \in 1..n : i # j /\ rows[i].inverseOf = NoRow /\ rows[j].inverseOf = NoRow
            => rows[i].val # rows[j].val
      BY DEF Keeps, Dated, n
    <3>2. \A k \in 1..Len(run.txn), i \in 1..n :
            rows[i].inverseOf = NoRow => rows[i].val # run.txn[k].val
      BY DEF Keeps, Dated, n
    <3> QED BY <1>4, <3>1, <3>2
  <2> QED BY <1>3, <2>2, <2>4, <2>5, <2>6, <2>7 DEF Dated
<1>7. ASSUME NEW c \in Cells, NEW v, Clear(c, v), v # 0
      PROVE  Clear(c, v)'
  <2>1. \A i \in 1..Len(rows') : rows'[i].cell = c => rows'[i].prev # v
    BY <1>4, <1>7 DEF Clear, n
  <2>2. \A h \in Handlers : (Busy(h) /\ CellOf(h) = c)' => req'[h].back # v /\ req'[h].prev # v
    BY <1>1, <1>5, <1>7 DEF Clear, Busy
  <2> QED BY <1>1, <1>3, <1>7, <2>1, <2>2 DEF Clear
<1>8. ASSUME NEW i \in 1..Len(rows'), NEW c, NEW v, c = rows'[i].cell, v = rows'[i].val,
             rows'[i].status = "PENDING_APPROVAL", c \notin contested' \cup lost'
      PROVE  Clear(c, v)' \/ \E g \in Handlers : Approving(g, i)'
  <2>1. CASE i \in 1..n /\ rows'[i] = rows[i]
    <3>1. /\ c \in Cells /\ v # 0 /\ rows[i].status = "PENDING_APPROVAL"
          /\ c \notin contested \cup lost
      BY <1>1, <1>8, <2>1, StagedValues, RowFields DEF Serves, Keeps, n
    <3>2. Clear(c, v) \/ \E g \in Handlers : Approving(g, i)
      BY <1>8, <2>1, <3>1 DEF Keeps, Withheld, n
    <3>3. \A g \in Handlers : Approving(g, i) => Approving(g, i)'
      BY <1>1 DEF Approving
    <3> QED BY <1>7, <3>1, <3>2, <3>3
  <2>2. CASE 1 \in 1..Len(run.txn) /\ rows'[i] = run.txn[1]
    <3>1. run.txn[1] \in Row
      BY <2>2, RunFields, ElementOfSeq DEF Serves
    <3>2. c \in Cells /\ v # 0
      BY <1>8, <2>2, <3>1, StagedValues DEF Row, Keeps
    <3>3. Clear(c, v)
      BY <1>8, <2>2 DEF Keeps, Withheld
    <3> QED BY <1>7, <3>2, <3>3
  <2> QED BY <1>4, <2>1, <2>2
<1>9. Withheld'
  BY <1>3, <1>8, WithheldNext
<1> QED BY <1>6, <1>9 DEF Keeps

\* A handler answers: the row it decides is no longer staged, and neither that
\* row nor the one it adds puts a staged value of the cell into a snapshot.
LEMMA AnswerKeeps ==
  ASSUME Serves, Keeps, NEW h \in Handlers, Busy(h),
         NEW s, s # "PENDING_APPROVAL", NEW p, Old(p), Rewritten(req[h].id, s, p),
         req' = [req EXCEPT ![h] = NoRequest],
         UNCHANGED <<current, run, writes, contested, lost>>,
         \A v : Clear(CellOf(h), v) => p # v,
         Len(rows') = Len(rows) + 1 =>
           /\ Old(rows'[Len(rows) + 1].val) /\ Old(rows'[Len(rows) + 1].prev)
           /\ rows'[Len(rows) + 1].inverseOf # NoRow
           /\ rows'[Len(rows) + 1].status # "PENDING_APPROVAL"
           /\ rows'[Len(rows) + 1].cell = CellOf(h)
           /\ rows'[Len(rows) + 1].prev = req[h].prev
  PROVE  Keeps'
<1> DEFINE l == Len(rows)
           i == req[h].id
<1>1. /\ Len(rows') \in {l, l + 1} /\ l \in Nat /\ i \in 1..l
      /\ \A j \in 1..l :
           /\ rows'[j].cell = rows[j].cell /\ rows'[j].val = rows[j].val
           /\ rows'[j].inverseOf = rows[j].inverseOf
           /\ j # i => rows'[j].status = rows[j].status /\ rows'[j].prev = rows[j].prev
      /\ rows'[i].status = s /\ rows'[i].prev = p
  BY RowFields, RequestFields DEF Rewritten, Serves, Busy
<1>2. \A j \in 1..Len(rows') : j \in 1..l \/ (j = l + 1 /\ Len(rows') = l + 1)
  BY <1>1
<1>3. \A g \in Handlers : req'[g] = IF g = h THEN NoRequest ELSE req[g]
  BY DEF Serves, Types
<1>4. NoRequest.pc = "idle" /\ NoRequest.back = NoValue /\ NoRequest.prev = NoValue
  BY DEF NoRequest
<1>5. \A g \in Handlers : Busy(g)' =>
        /\ g # h /\ req'[g] = req[g] /\ Busy(g) /\ CellOf(g)' = CellOf(g)
  BY <1>1, <1>3, <1>4 DEF Busy, CellOf, Serves, Types
<1>6. rows[i].cell = CellOf(h)
  BY DEF CellOf
<1> HIDE DEF l, i
<1>7. Dated'
  <2>1. \A c \in Cells : Old(current[c])' /\ Old(run.wb[c])'
    BY DEF Keeps, Dated, Old
  <2>2. \A j \in 1..Len(rows') : Old(rows[j].val)' /\ Old(rows[j].prev)'
    <3>1. \A j \in 1..l : Old(rows[j].val) /\ Old(rows[j].prev)
      BY DEF Keeps, Dated, l
    <3>2. \A j \in 1..Len(rows') : Old(rows'[j].val) /\ Old(rows'[j].prev)
      BY <1>1, <1>2, <3>1 DEF l
    <3> QED BY <3>2 DEF Old
  <2>3. \A g \in Handlers : /\ Old(req[g].back)' /\ Old(req[g].prev)'
                            /\ req'[g].pc = "opened" => req'[g].prev = NoValue
    BY <1>3, <1>4 DEF Keeps, Dated, Old
  <2>4. \A j \in 1..Len(rows') : rows'[j].inverseOf = NoRow =>
          j \in 1..l /\ rows[j].inverseOf = NoRow /\ rows'[j].val = rows[j].val
    BY <1>1, <1>2 DEF l
  <2>5. \A j \in 1..Len(rows') : rows'[j].inverseOf = NoRow => rows'[j].val \in 1..writes'
    BY <2>4 DEF Keeps, Dated, l
  <2>6. \A j, k \in 1..Len(rows') :
          j # k /\ rows'[j].inverseOf = NoRow /\ rows'[k].inverseOf = NoRow
            => rows'[j].val # rows'[k].val
    BY <2>4 DEF Keeps, Dated, l
  <2>7. \A k \in 1..Len(run'.txn), j \in 1..Len(rows') :
          rows'[j].inverseOf = NoRow => rows'[j].val # run'.txn[k].val
    BY <2>4 DEF Keeps, Dated, l
  <2>8. \A k \in 1..Len(run'.txn) : Old(run.txn[k].prev)' /\ run'.txn[k].val \in 1..writes'
    BY DEF Keeps, Dated, Old
  <2> QED BY <2>1, <2>2, <2>3, <2>5, <2>6, <2>7, <2>8 DEF Dated
<1>8. ASSUME NEW c \in Cells, NEW v, Clear(c, v)
      PROVE  Clear(c, v)'
  <2>1. CellOf(h) = c => p # v /\ req[h].prev # v
    BY <1>8 DEF Clear
  <2>2. \A j \in 1..Len(rows') : rows'[j].cell = c => rows'[j].prev # v
    <3>1. \A j \in 1..l : rows[j].cell = c => rows[j].prev # v
      BY <1>8 DEF Clear, l
    <3>2. \A j \in 1..l : rows'[j].cell = c => rows'[j].prev # v
      BY <1>1, <1>6, <2>1, <3>1
    <3> QED BY <1>2, <2>1, <3>2 DEF l
  <2>3. \A g \in Handlers : (Busy(g) /\ CellOf(g) = c)' => req'[g].back # v /\ req'[g].prev # v
    BY <1>5, <1>8 DEF Clear
  <2> QED BY <1>8, <2>2, <2>3 DEF Clear
<1>9. ASSUME NEW j \in 1..Len(rows'), NEW c, NEW v, c = rows'[j].cell, v = rows'[j].val,
             rows'[j].status = "PENDING_APPROVAL", c \notin contested' \cup lost'
      PROVE  Clear(c, v)' \/ \E g \in Handlers : Approving(g, j)'
  <2>1. /\ j \in 1..l /\ j # i /\ c = rows[j].cell /\ v = rows[j].val
        /\ rows[j].status = "PENDING_APPROVAL" /\ c \notin contested \cup lost
    BY <1>1, <1>2, <1>9 DEF l
  <2>2. Clear(c, v) \/ \E g \in Handlers : Approving(g, j)
    BY <2>1 DEF Keeps, Withheld, l
  <2>3. \A g \in Handlers : Approving(g, j) => Approving(g, j)'
    BY <1>3, <2>1 DEF Approving, i
  <2>4. c \in Cells
    BY <2>1, RowFields DEF Serves, l
  <2> QED BY <1>8, <2>2, <2>3, <2>4
<1>10. ASSUME NEW k \in 1..Len(run'.txn), NEW c, NEW v, c = run'.txn[k].cell,
              v = run'.txn[k].val, run'.txn[k].status = "PENDING_APPROVAL"
       PROVE  Clear(c, v)'
  <2>1. run.txn[k] \in Row
    BY <1>10, RunFields, ElementOfSeq DEF Serves
  <2>2. c \in Cells
    BY <1>10, <2>1 DEF Row
  <2>3. Clear(c, v)
    BY <1>10 DEF Keeps, Withheld
  <2> QED BY <1>8, <2>2, <2>3
<1>11. Withheld'
  BY <1>9, <1>10, WithheldNext
<1> QED BY <1>7, <1>11 DEF Keeps

LEMMA DecideKeeps ==
  ASSUME Serves, Keeps, NEW h \in Handlers,
         CommitApprove(h) \/ CommitReject(h) \/ CommitUndo(h)
  PROVE  Keeps'
<1>1. /\ Busy(h) /\ req' = [req EXCEPT ![h] = NoRequest]
      /\ UNCHANGED <<current, run, writes, contested, lost>>
  BY DEF CommitApprove, CommitReject, CommitUndo, Busy, Answer, counters, excused
<1>2. req[h].id \in 1..Len(rows) /\ Len(rows) \in Nat /\ Len(rows) # Len(rows) + 1
  BY <1>1, RequestFields, RowFields DEF Serves, Busy
<1>3. Old(req[h].prev) /\ Old(req[h].back)
      /\ Old(rows[req[h].id].prev) /\ Old(rows[req[h].id].val)
  BY <1>2 DEF Keeps, Dated
<1>4. \A v : Clear(CellOf(h), v) => req[h].prev # v /\ rows[req[h].id].prev # v
  BY <1>1, <1>2 DEF Clear, CellOf
<1>5. CASE CommitApprove(h)
  <2>1. Rewritten(req[h].id, "APPLIED", req[h].prev) /\ Len(rows') = Len(rows)
    BY <1>5, ApproveRewrites DEF Serves
  <2> QED BY <1>1, <1>2, <1>3, <1>4, <2>1, AnswerKeeps
<1>6. CASE CommitReject(h)
  <2>1. Rewritten(req[h].id, "REJECTED", rows[req[h].id].prev) /\ Len(rows') = Len(rows)
    BY <1>6, RejectRewrites DEF Serves
  <2> QED BY <1>1, <1>2, <1>3, <1>4, <2>1, AnswerKeeps
<1>7. CASE CommitUndo(h)
  <2>1. /\ Rewritten(req[h].id, "UNDONE", rows[req[h].id].prev)
        /\ rows'[Len(rows) + 1] = Reversal(h)
    BY <1>7, UndoRewrites DEF Serves
  <2>2. /\ Reversal(h).val = Written(h) /\ Reversal(h).prev = req[h].prev
        /\ Reversal(h).inverseOf = req[h].id /\ Reversal(h).status = "APPLIED"
        /\ Reversal(h).cell = CellOf(h)
    BY DEF Reversal, CellOf
  <2>3. Old(Written(h)) /\ req[h].id # NoRow
    BY <1>2, <1>3 DEF Written, NoRow
  <2> QED BY <1>1, <1>2, <1>3, <1>4, <2>1, <2>2, <2>3, AnswerKeeps
<1> QED BY <1>5, <1>6, <1>7

\* An approval that was cut in two leaves its cell among the lost ones.
LEMMA CrashKeeps ==
  ASSUME Serves, Keeps, Crash
  PROVE  Keeps'
<1>1. /\ UNCHANGED <<rows, current, writes, contested>> /\ lost \subseteq lost'
      /\ run' = NoRun /\ req' = [h \in Handlers |-> NoRequest]
      /\ Uncommitted \subseteq lost'
  BY DEF Crash
<1>2. /\ NoRun.txn = <<>> /\ NoRequest.pc = "idle" /\ Len(<<>>) = 0
      /\ NoRequest.back = NoValue /\ NoRequest.prev = NoValue
      /\ \A c \in Cells : NoRun.wb[c] = 0
  BY EmptySeq DEF NoRun, NoRequest, Original
<1>3. Len(run'.txn) = 0
  BY <1>1, <1>2
<1>4. \A h \in Handlers : req'[h] = NoRequest /\ ~Busy(h)'
  BY <1>1, <1>2 DEF Busy
<1>5. Dated'
  <2>1. 0 <= writes
    BY StagedValues DEF Keeps
  <2>2. \A c \in Cells : Old(current[c])' /\ Old(run.wb[c])'
    BY <1>1, <1>2, <2>1 DEF Keeps, Dated, Old
  <2>3. \A h \in Handlers : /\ Old(req[h].back)' /\ Old(req[h].prev)'
                            /\ req'[h].pc = "opened" => req'[h].prev = NoValue
    BY <1>2, <1>4 DEF Old
  <2>4. \A j \in 1..Len(rows) : Old(rows[j].val)' /\ Old(rows[j].prev)'
    BY <1>1 DEF Keeps, Dated, Old
  <2> QED BY <1>1, <1>3, <2>2, <2>3, <2>4 DEF Keeps, Dated
<1>6. ASSUME NEW c \in Cells, NEW v, Clear(c, v), v # 0
      PROVE  Clear(c, v)'
  BY <1>1, <1>2, <1>3, <1>4, <1>6 DEF Clear
<1>7. ASSUME NEW i \in 1..Len(rows'), NEW c, NEW v, c = rows'[i].cell, v = rows'[i].val,
             rows'[i].status = "PENDING_APPROVAL", c \notin contested' \cup lost'
      PROVE  Clear(c, v)' \/ \E g \in Handlers : Approving(g, i)'
  <2>1. i \in 1..Len(rows) /\ c = rows[i].cell /\ v = rows[i].val /\ c \in Cells
        /\ rows[i].status = "PENDING_APPROVAL" /\ c \notin contested \cup lost /\ v # 0
    BY <1>1, <1>7, StagedValues, RowFields DEF Serves, Keeps
  <2>2. Clear(c, v) \/ \E g \in Handlers : Approving(g, i)
    BY <2>1 DEF Keeps, Withheld
  <2>3. \A g \in Handlers : Approving(g, i) => c \in Uncommitted
    BY <2>1 DEF Approving, Uncommitted
  <2> QED BY <1>1, <1>6, <1>7, <2>1, <2>2, <2>3
<1>8. Withheld'
  BY <1>3, <1>7, WithheldNext
<1> QED BY <1>5, <1>8 DEF Keeps

LEMMA InitKeeps ==
  ASSUME Init
  PROVE  Keeps
<1>1. Len(rows) = 0 /\ Len(run.txn) = 0
  BY EmptySeq DEF Init, NoRun
<1>2. /\ \A c \in Cells : current[c] = 0 /\ run.wb[c] = 0
      /\ \A h \in Handlers : req[h].back = NoValue /\ req[h].prev = NoValue
      /\ writes = 0
  BY DEF Init, NoRun, Original, NoRequest
<1> QED BY <1>1, <1>2 DEF Keeps, Dated, Withheld, Old

LEMMA NextKeeps ==
  ASSUME Serves, Keeps, [Next]_vars
  PROVE  Keeps'
<1>1. CASE Run
  BY <1>1, RunKeeps, TxnKeeps, RunWriteKeeps DEF Run
<1>2. CASE \E h \in Handlers : Serve(h)
  <2>1. PICK h \in Handlers : Serve(h)
    BY <1>2
  <2>2. CASE \E op \in Ops, i \in 1..MaxRows : Open(h, op, i)
    BY <2>2, OpenKeeps
  <2>3. CASE Read(h) \/ Act(h) \/ Number(h)
    BY <2>3, ReadKeeps, ActKeeps, NumberKeeps
  <2>4. CASE CommitApprove(h) \/ CommitReject(h) \/ CommitUndo(h)
    BY <2>4, DecideKeeps
  <2> QED BY <2>1, <2>2, <2>3, <2>4 DEF Serve
<1>3. CASE Crash
  BY <1>3, CrashKeeps
<1>4. CASE UNCHANGED vars
  <2>1. UNCHANGED <<rows, current, run, req, writes, contested, lost>>
    BY <1>4 DEF vars, counters, excused
  <2>2. Dated'
    BY <2>1 DEF Keeps, Dated, Old
  <2>3. Withheld'
    BY <2>1 DEF Keeps, Withheld, Clear, Approving, Busy, CellOf
  <2> QED BY <2>2, <2>3 DEF Keeps
<1> QED BY <1>1, <1>2, <1>3, <1>4 DEF Next

LEMMA KeepsHolds == Spec => [](Serves /\ Keeps)
<1>1. Init => Serves /\ Keeps
  BY InitServes, InitKeeps
<1>2. Serves /\ Keeps /\ [Next]_vars => (Serves /\ Keeps)'
  BY NextServes, NextKeeps
<1> QED BY <1>1, <1>2, PTL DEF Spec

\* Between requests what awaits approval is in neither file, however requests,
\* runs, failures and crashes elsewhere were interleaved (gate.py, undo.py):
\* also when requests are made while a run is on.
THEOREM WhatIsStagedStaysOut == Spec => []StagedStaysOut
<1>1. Serves /\ Keeps => StagedStaysOut
  <2> SUFFICES ASSUME Serves, Keeps, Quiet, NEW i \in 1..Len(rows),
                      rows[i].status = "PENDING_APPROVAL",
                      rows[i].cell \notin contested \cup lost
               PROVE  FileAt(path)[rows[i].cell] # rows[i].val
    BY DEF StagedStaysOut
  <2>1. \A h \in Handlers : ~Approving(h, i)
    BY DEF Quiet, Serving, Approving
  <2>2. current[rows[i].cell] # rows[i].val
    BY <2>1 DEF Keeps, Withheld, Clear
  <2>3. rows[i].cell \in Cells /\ rows[i].val # 0
    BY RowFields, StagedValues DEF Serves, Keeps
  <2> QED BY <2>2, <2>3, FileCells DEF Serves, Types
<1> QED BY <1>1, KeepsHolds, PTL

-----------------------------------------------------------------------------
(* What replay shows.                                                        *)

\* Shows is what replay_to computes: a cell's last row is one row.
LEMMA ShowsIs ==
  ASSUME NEW rs, NEW c \in Cells, NEW n, NEW v, Shows(rs, c, n, v),
         Len(rs) \in Nat, \A i \in 1..Len(rs) : rs[i].seq \in Nat
  PROVE  ReplayOf(rs, c, n) = {v}
<1> DEFINE on == RowsOn(rs, c, n)
<1>1. ReplayOf(rs, c, n) = IF on = {} THEN {0} ELSE {rs[i].val : i \in Latest(rs, on)}
  BY DEF ReplayOf, Original
<1>2. \A i \in on : rs[i].seq \in Nat
  BY DEF RowsOn
<1>3. CASE on = {}
  BY <1>1, <1>3 DEF Shows
<1>4. CASE on # {}
  <2>1. PICK i \in on : rs[i].val = v /\ \A j \in on \ {i} : rs[j].seq < rs[i].seq
    BY <1>4 DEF Shows
  <2> HIDE DEF on
  <2>2. Latest(rs, on) = {i}
    BY <1>2, <2>1 DEF Latest
  <2> QED BY <1>1, <1>4, <2>1, <2>2
<1> QED BY <1>3, <1>4

\* It depends on the replayable rows of the cell alone,
LEMMA ShowsFrame ==
  ASSUME NEW rs, NEW ss, NEW c, NEW n, NEW m, NEW v, Shows(rs, c, n, v),
         RowsOn(ss, c, m) = RowsOn(rs, c, n),
         \A i \in RowsOn(rs, c, n) : ss[i].seq = rs[i].seq /\ ss[i].val = rs[i].val
  PROVE  Shows(ss, c, m, v)
BY DEF Shows

\* and a row after all others is the one that counts.
LEMMA ShowsLast ==
  ASSUME NEW rs, NEW c, NEW n, NEW x \in RowsOn(rs, c, n),
         \A j \in RowsOn(rs, c, n) \ {x} : rs[j].seq < rs[x].seq
  PROVE  Shows(rs, c, n, rs[x].val)
BY DEF Shows

\* No row has a sequence that replay of the whole ledger leaves out.
LEMMA AllRows ==
  ASSUME Serves, Bounded, NEW c
  PROVE  /\ RowsOn(rows, c, MaxRows)
              = {i \in 1..Len(rows) : rows[i].cell = c /\ Replayable(rows[i])}
         /\ Len(rows) \in Nat /\ MaxRows \in Nat
         /\ \A i \in 1..Len(rows) : rows[i].seq \in Nat /\ rows[i].seq <= MaxRows
<1>1. Len(rows) \in Nat /\ MaxRows \in Nat /\ Len(rows) <= MaxRows
  BY RowFields, RunFields, SessionLedgerAssumption DEF Serves, Bounded
<1>2. \A i \in 1..Len(rows) : rows[i].seq \in Nat /\ rows[i].seq <= MaxRows
  BY <1>1 DEF Serves, Ranked
<1> QED BY <1>1, <1>2 DEF RowsOn

\* The rows of the cell are as they were to replay, and a new one is the last.
GrownOn(c) ==
  /\ Len(rows') \in {Len(rows), Len(rows) + 1}
  /\ \A i \in 1..Len(rows) :
       /\ rows'[i].cell = rows[i].cell /\ rows'[i].seq = rows[i].seq
       /\ rows'[i].val = rows[i].val /\ rows'[i].inverseOf = rows[i].inverseOf
       /\ rows[i].cell = c =>
            /\ Replayable(rows'[i]) <=> Replayable(rows[i])
            /\ Replayable(rows[i]) => rows'[i].prev = rows[i].prev
  /\ Len(rows') = Len(rows) + 1 /\ rows'[Len(rows) + 1].cell = c =>
       \A i \in 1..Len(rows) : rows[i].cell = c => rows[i].seq < rows'[Len(rows) + 1].seq

\* A new row that replay comes to.
Fresh(c) == /\ Len(rows') = Len(rows) + 1 /\ rows'[Len(rows) + 1].cell = c
            /\ Replayable(rows'[Len(rows) + 1])

LEMMA ShowsAfter ==
  ASSUME Serves, Bounded, Serves', Bounded', NEW c, GrownOn(c), NEW v,
         Shows(rows, c, MaxRows, v)
  PROVE  /\ ~Fresh(c) => Shows(rows', c, MaxRows, v)
         /\ Fresh(c) => /\ Shows(rows', c, rows'[Len(rows) + 1].seq - 1, v)
                        /\ Shows(rows', c, MaxRows, rows'[Len(rows) + 1].val)
<1> DEFINE l == Len(rows)
           s == rows'[l + 1].seq
           on == {i \in 1..l : rows[i].cell = c /\ Replayable(rows[i])}
<1>1. /\ RowsOn(rows, c, MaxRows) = on /\ l \in Nat /\ MaxRows \in Nat
      /\ \A i \in 1..l : rows[i].seq \in Nat /\ rows[i].seq <= MaxRows
  BY AllRows
<1>2. /\ RowsOn(rows', c, MaxRows)
           = {i \in 1..Len(rows') : rows'[i].cell = c /\ Replayable(rows'[i])}
      /\ \A i \in 1..Len(rows') : rows'[i].seq \in Nat /\ rows'[i].seq <= MaxRows
  <2>1. Len(rows') \in Nat /\ Len(rows') <= MaxRows
    <3>1. rows' \in Seq(Row) /\ run'.txn \in Seq(Row)
      BY DEF Serves, Types, RunState
    <3>2. Len(rows') \in Nat /\ Len(run'.txn) \in Nat
      BY <3>1, LenProperties
    <3>3. Len(rows') + Len(run'.txn) <= MaxRows
      BY DEF Bounded
    <3> QED BY <1>1, <3>2, <3>3
  <2>2. \A i \in 1..Len(rows') : rows'[i].seq \in 1..Len(rows')
    BY DEF Serves, Ranked
  <2>3. \A i \in 1..Len(rows') : rows'[i].seq \in Nat /\ rows'[i].seq <= MaxRows
    BY <1>1, <2>1, <2>2
  <2> QED BY <2>3 DEF RowsOn
<1>3. \A i \in 1..Len(rows') : i \in 1..l \/ (i = l + 1 /\ Len(rows') = l + 1)
  BY <1>1 DEF GrownOn
<1>4. 1..l \subseteq 1..Len(rows')
  BY <1>1 DEF GrownOn
<1>5. \A i \in on : rows'[i].seq = rows[i].seq /\ rows'[i].val = rows[i].val
  BY DEF GrownOn
<1>6. \A i \in 1..l : rows'[i].cell = c /\ Replayable(rows'[i]) <=> i \in on
  BY DEF GrownOn
<1>7. CASE ~Fresh(c)
  <2>1. RowsOn(rows', c, MaxRows) = on
    BY <1>2, <1>3, <1>4, <1>6, <1>7 DEF Fresh
  <2> QED BY <1>1, <1>5, <1>7, <2>1, ShowsFrame
<1>8. CASE Fresh(c)
  <2>1. l + 1 \in 1..Len(rows') /\ l + 1 \notin 1..l
    BY <1>1, <1>8 DEF Fresh
  <2>2. RowsOn(rows', c, MaxRows) = on \cup {l + 1}
    BY <1>2, <1>3, <1>4, <1>6, <1>8, <2>1 DEF Fresh
  <2>3. \A i \in on : rows'[i].seq < s
    BY <1>5, <1>8 DEF GrownOn, Fresh
  <2>4. Shows(rows', c, MaxRows, rows'[l + 1].val)
    <3>1. l + 1 \in RowsOn(rows', c, MaxRows)
          /\ \A j \in RowsOn(rows', c, MaxRows) \ {l + 1} : rows'[j].seq < rows'[l + 1].seq
      BY <2>2, <2>3
    <3> HIDE DEF l
    <3> QED BY <3>1, ShowsLast
  <2>5. RowsOn(rows', c, s - 1) = on
    <3>1. s \in Nat
      BY <1>2, <2>1
    <3>2. \A i \in 1..Len(rows') :
            i \in RowsOn(rows', c, s - 1) <=> i \in RowsOn(rows', c, MaxRows) /\ rows'[i].seq <= s - 1
      BY <1>2 DEF RowsOn
    <3>3. \A i \in on : rows'[i].seq <= s - 1
      BY <1>2, <1>4, <2>3, <3>1
    <3>4. ~(rows'[l + 1].seq <= s - 1)
      BY <3>1
    <3>5. RowsOn(rows', c, s - 1) \subseteq 1..Len(rows') /\ on \subseteq 1..Len(rows')
      BY <1>4 DEF RowsOn
    <3> HIDE DEF s, on
    <3> QED BY <2>2, <3>2, <3>3, <3>4, <3>5
  <2> HIDE DEF s, on
  <2>6. Shows(rows', c, s - 1, v)
    BY <1>1, <1>5, <2>5, ShowsFrame
  <2> QED BY <1>8, <2>4, <2>6 DEF s, l
<1> QED BY <1>7, <1>8

\* What is said of the rows stays true when the ledger grows.
LEMMA RowsPastAfter ==
  ASSUME Serves, Bounded, Serves', Bounded', NEW c, GrownOn(c), RowsOrdered(c), RowsPast(c),
         Fresh(c) => Shows(rows, c, MaxRows, rows'[Len(rows) + 1].prev),
         (/\ Len(rows') = Len(rows) + 1 /\ rows'[Len(rows) + 1].cell = c
          /\ rows'[Len(rows) + 1].inverseOf # NoRow)
           => /\ rows'[Len(rows) + 1].inverseOf \in 1..Len(rows)
              /\ rows[rows'[Len(rows) + 1].inverseOf].cell = c
              /\ Replayable(rows[rows'[Len(rows) + 1].inverseOf])
              /\ rows'[Len(rows) + 1].val = rows[rows'[Len(rows) + 1].inverseOf].prev
  PROVE  RowsOrdered(c)' /\ RowsPast(c)'
<1> DEFINE l == Len(rows)
<1>1. /\ l \in Nat /\ MaxRows \in Nat
      /\ \A i \in 1..l : rows[i].seq \in Nat /\ rows[i].seq <= MaxRows
  BY AllRows
<1>2. \A i \in 1..Len(rows') : i \in 1..l \/ (i = l + 1 /\ Len(rows') = l + 1)
  BY <1>1 DEF GrownOn
<1>3. 1..l \subseteq 1..Len(rows')
  BY <1>1 DEF GrownOn
<1>4. \A i \in 1..Len(rows') : rows'[i].seq \in Nat
  <2>1. \A i \in 1..Len(rows') : rows'[i].seq \in 1..Len(rows')
    BY DEF Serves, Ranked
  <2> QED BY <2>1
<1>5. RowsOrdered(c)'
  <2>1. \A i, j \in 1..l : i # j /\ rows'[i].cell = c /\ rows'[j].cell = c
          => rows'[i].seq # rows'[j].seq
    BY DEF GrownOn, RowsOrdered
  <2>2. Len(rows') = l + 1 /\ rows'[l + 1].cell = c =>
          \A i \in 1..l : rows'[i].cell = c => rows'[i].seq # rows'[l + 1].seq
    <3>1. Len(rows') = l + 1 => rows'[l + 1].seq \in Nat
      BY <1>1, <1>4
    <3> QED BY <1>1, <3>1 DEF GrownOn
  <2> QED BY <1>2, <2>1, <2>2 DEF RowsOrdered
<1>6. ASSUME NEW i \in 1..l, rows'[i].cell = c, Replayable(rows'[i])
      PROVE  Shows(rows', c, rows'[i].seq - 1, rows'[i].prev)
  <2> DEFINE n == rows[i].seq - 1
             p == rows[i].prev
  <2>1. Shows(rows, c, n, p) /\ rows'[i].seq - 1 = n /\ rows'[i].prev = p
    BY <1>6 DEF RowsPast, GrownOn
  <2>2. Len(rows') = l + 1 /\ rows'[l + 1].cell = c => ~(rows'[l + 1].seq <= n)
    <3>1. Len(rows') = l + 1 => rows'[l + 1].seq \in Nat
      BY <1>1, <1>4
    <3>2. Len(rows') = l + 1 /\ rows'[l + 1].cell = c => rows[i].seq < rows'[l + 1].seq
      BY <1>6 DEF GrownOn
    <3> QED BY <1>1, <3>1, <3>2
  <2> HIDE DEF n, p
  <2>3. RowsOn(rows', c, n) = RowsOn(rows, c, n)
    <3>1. \A j \in 1..l : j \in RowsOn(rows', c, n) <=> j \in RowsOn(rows, c, n)
      BY <1>3 DEF RowsOn, GrownOn
    <3>2. RowsOn(rows', c, n) \subseteq 1..l /\ RowsOn(rows, c, n) \subseteq 1..l
      BY <1>2, <2>2 DEF RowsOn
    <3> QED BY <3>1, <3>2
  <2>4. \A j \in RowsOn(rows, c, n) : rows'[j].seq = rows[j].seq /\ rows'[j].val = rows[j].val
    BY DEF RowsOn, GrownOn
  <2>5. Shows(rows', c, n, p)
    BY <2>1, <2>3, <2>4, ShowsFrame
  <2> QED BY <2>1, <2>5
<1>7. ASSUME Len(rows') = l + 1, rows'[l + 1].cell = c, Replayable(rows'[l + 1])
      PROVE  Shows(rows', c, rows'[l + 1].seq - 1, rows'[l + 1].prev)
  <2>1. Fresh(c)
    BY <1>7 DEF Fresh
  <2> QED BY <2>1, ShowsAfter
<1>8. ASSUME NEW j \in 1..Len(rows'), rows'[j].cell = c, rows'[j].inverseOf # NoRow
      PROVE  /\ rows'[j].inverseOf \in 1..Len(rows') /\ rows'[rows'[j].inverseOf].cell = c
             /\ Replayable(rows'[rows'[j].inverseOf])
             /\ rows'[j].val = rows'[rows'[j].inverseOf].prev
  <2>1. PICK i : i = rows'[j].inverseOf
    OBVIOUS
  <2>2. /\ i \in 1..l /\ rows[i].cell = c /\ Replayable(rows[i])
        /\ rows'[j].val = rows[i].prev
    <3>1. CASE j \in 1..l
      BY <1>8, <2>1, <3>1 DEF RowsPast, GrownOn
    <3>2. CASE j = l + 1 /\ Len(rows') = l + 1
      BY <1>8, <2>1, <3>2
    <3> QED BY <1>2, <3>1, <3>2
  <2>3. i \in 1..Len(rows') /\ rows'[i].cell = c /\ Replayable(rows'[i])
        /\ rows'[i].prev = rows[i].prev
    BY <1>3, <2>2 DEF GrownOn
  <2> QED BY <2>1, <2>2, <2>3
<1>9. RowsPast(c)'
  <2>1. \A i \in 1..Len(rows') : rows'[i].cell = c /\ Replayable(rows'[i]) =>
          Shows(rows', c, rows'[i].seq - 1, rows'[i].prev)
    BY <1>2, <1>6, <1>7
  <2> QED BY <1>8, <2>1 DEF RowsPast
<1> QED BY <1>5, <1>9

-----------------------------------------------------------------------------
(* Tells is inductive.                                                       *)

\* The files of a cell that no request or run is about to write.
LEMMA FileIsCurrent ==
  ASSUME Types, NEW c \in Cells, Present(c), run.pc # "saved",
         \A h \in Handlers : ~Acting(h, c)
  PROVE  FileAt(path)[c] = current[c]
BY DEF Present, FileAt, Original, Types

\* A handler goes on and no row nor file changes.
LEMMA RequestTells ==
  ASSUME Serves, Tells, NEW h \in Handlers, NEW q,
         UNCHANGED <<rows, current, path, run, late, crossed, lost>>,
         req' = [req EXCEPT ![h] = q], contested \subseteq contested',
         path = "original" /\ q.pc # "idle" => q.src = "original",
         q.pc \in {"checked", "acted", "numbered"} /\ q.op = "undo" =>
           q.back = rows[q.id].prev \/ rows[q.id].cell \notin InOrder,
         q.pc = "numbered" => \A i \in 1..Len(rows) : rows[i].seq < q.seq,
         \A c : Acting(h, c) <=> q.pc \in {"acted", "numbered"} /\ rows[q.id].cell = c,
         \A c : Acting(h, c) => /\ q.op = req[h].op /\ q.id = req[h].id
                                /\ q.back = req[h].back /\ q.prev = req[h].prev
  PROVE  Tells'
<1>1. \A g \in Handlers : req'[g] = IF g = h THEN q ELSE req[g]
  BY DEF Serves, Types
<1>2. InOrder' \subseteq InOrder
  BY DEF InOrder
<1>3. Bounded'
  BY <1>1 DEF Tells, Bounded
<1>4. ASSUME NEW c \in InOrder
      PROVE  Told(c)'
  <2>1. RowsOrdered(c)' /\ RowsPast(c)'
    BY <1>4 DEF Tells, Told, RowsOrdered, RowsPast
  <2>2. Numbers(c)'
    BY <1>1, <1>4 DEF Tells, Told, Numbers, CellOf
  <2>3. PutsBack(c)'
    BY <1>1, <1>4 DEF Tells, Told, PutsBack, CellOf, Busy
  <2>4. \A g \in Handlers : Acting(g, c)' <=> Acting(g, c)
    <3>1. \A g \in Handlers \ {h} : Acting(g, c)' <=> Acting(g, c)
      BY <1>1 DEF Acting, CellOf
    <3>2. Acting(h, c)' <=> q.pc \in {"acted", "numbered"} /\ rows[q.id].cell = c
      BY <1>1 DEF Acting, CellOf
    <3> QED BY <3>1, <3>2
  <2>5. \A g \in Handlers : Acting(g, c) =>
          req'[g].prev = req[g].prev /\ Written(g)' = Written(g)
    BY <1>1 DEF Written
  <2>6. /\ FileAt(path)' = FileAt(path)
        /\ \A k \in 1..Len(run.txn) : Applied(k, c)' <=> Applied(k, c)
    BY DEF FileAt, Applied
  <2>7. Present(c)
    BY <1>4 DEF Tells, Told
  <2>8. Present(c)'
    BY <2>4, <2>5, <2>6, <2>7 DEF Present
  <2>9. Apart(c)'
    BY <1>4, <2>4 DEF Tells, Told, Apart
  <2> QED BY <2>1, <2>2, <2>3, <2>8, <2>9 DEF Told
<1> QED BY <1>2, <1>3, <1>4 DEF Tells

LEMMA OpenTells ==
  ASSUME Serves, Tells, NEW h \in Handlers, NEW op \in Ops, NEW i \in 1..MaxRows,
         Open(h, op, i)
  PROVE  Tells'
<1> DEFINE q == Opened(op, i)
<1>1. i \in Nat /\ req[h].pc = "idle"
  BY DEF Open
<1>2. req' = [req EXCEPT ![h] = q]
  BY HandlerSteps DEF Serves
<1>3. q.pc = "opened" /\ q.src = path
  BY <1>1, OpenedFields DEF Serves
<1>4. UNCHANGED <<rows, current, path, run, late, crossed, lost, contested>>
  BY DEF Open, excused
<1>5. \A c : ~Acting(h, c)
  BY <1>1 DEF Acting
<1> HIDE DEF q
<1> QED BY <1>1, <1>2, <1>3, <1>4, <1>5, RequestTells

LEMMA ReadTells ==
  ASSUME Serves, Tells, NEW h \in Handlers, Read(h)
  PROVE  Tells'
<1> DEFINE q == IF Allowed(req[h].op, rows[req[h].id].status)
                THEN Checked(req[h], rows[req[h].id].prev) ELSE NoRequest
<1>1. /\ req[h].id \in 1..Len(rows) /\ req[h] \in Request /\ req[h].pc = "opened"
  BY RequestFields DEF Serves, Read
<1>2. rows[req[h].id].prev \in Nat
  BY <1>1, RowFields DEF Serves
<1>3. req' = [req EXCEPT ![h] = q]
  BY HandlerSteps DEF Serves, Read
<1>4. \/ /\ q.pc = "checked" /\ q.back = rows[req[h].id].prev
         /\ q.id = req[h].id /\ q.src = req[h].src
      \/ q.pc = "idle"
  <2>1. NoRequest.pc = "idle"
    BY DEF NoRequest
  <2>2. /\ Checked(req[h], rows[req[h].id].prev).pc = "checked"
        /\ Checked(req[h], rows[req[h].id].prev).back = rows[req[h].id].prev
        /\ Checked(req[h], rows[req[h].id].prev).src = req[h].src
        /\ Checked(req[h], rows[req[h].id].prev).id = req[h].id
    BY <1>1, <1>2, HandlerRecords
  <2> QED BY <2>1, <2>2
<1>5. /\ UNCHANGED <<rows, current, path, run, late, crossed, lost>> /\ contested \subseteq contested'
  BY DEF Read
<1>6. \A c : ~Acting(h, c)
  BY <1>1 DEF Acting
<1>7. path = "original" => req[h].src = "original"
  BY <1>1 DEF Tells, Bounded
<1> HIDE DEF q
<1> QED BY <1>1, <1>3, <1>4, <1>5, <1>6, <1>7, RequestTells

LEMMA NumberTells ==
  ASSUME Serves, Tells, NEW h \in Handlers, Number(h)
  PROVE  Tells'
<1> DEFINE q == Numbered(req[h], NextSequence(rows))
<1>1. /\ req[h] \in Request /\ req[h].pc = "acted" /\ req[h].op = "undo" /\ Busy(h)
  BY RequestFields DEF Serves, Number, Busy
<1>2. /\ NextSequence(rows) \in 1..(Len(rows) + 1)
      /\ \A i \in 1..Len(rows) : rows[i].seq < NextSequence(rows)
  BY NextSequenceAbove DEF Serves, Number
<1>3. NextSequence(rows) \in Nat
  BY <1>2
<1>4. /\ q.pc = "numbered" /\ q.op = req[h].op /\ q.id = req[h].id
      /\ q.back = req[h].back /\ q.prev = req[h].prev /\ q.seq = NextSequence(rows)
      /\ q.src = req[h].src
  BY <1>1, <1>3, HandlerRecords
<1>5. req' = [req EXCEPT ![h] = q]
  BY HandlerSteps DEF Serves
<1> HIDE DEF q
<1>6. UNCHANGED <<rows, current, path, run, late, crossed, lost, contested>>
  BY DEF Number, excused
<1>7. path = "original" => req[h].src = "original"
  BY <1>1 DEF Tells, Bounded
<1>8. CellOf(h) \in InOrder => req[h].back = rows[req[h].id].prev
  BY <1>1 DEF Tells, Told, PutsBack
<1>9. \A c : Acting(h, c) <=> rows[q.id].cell = c
  BY <1>1, <1>4 DEF Acting, CellOf
<1>10. q.back = rows[q.id].prev \/ rows[q.id].cell \notin InOrder
  BY <1>4, <1>8 DEF CellOf
<1> QED BY <1>1, <1>2, <1>4, <1>5, <1>6, <1>7, <1>9, <1>10, RequestTells

\* approve and undo write the file before their rows: what it held is kept in
\* the handler until then.
LEMMA ActTells ==
  ASSUME Serves, Tells, NEW h \in Handlers, Act(h)
  PROVE  Tells'
<1> DEFINE book == FileAt(req[h].src)
           d == CellOf(h)
           q == Acted(req[h], book[d])
<1>1. /\ req[h] \in Request /\ req[h].pc = "checked" /\ Busy(h)
      /\ req[h].src \in {"original", "current"}
  BY RequestFields DEF Serves, Act, Busy
<1>2. /\ book \in Book /\ d \in Cells /\ book[d] \in Nat
      /\ \A c \in Cells : book[c] \in {0, current[c]}
  BY <1>1, BookWrite, FileCells DEF Serves, Book
<1>3. /\ q.pc = "acted" /\ q.op = req[h].op /\ q.id = req[h].id
      /\ q.back = req[h].back /\ q.prev = book[d] /\ q.src = req[h].src
  BY <1>1, <1>2, HandlerRecords
<1>4. req' = [req EXCEPT ![h] = q]
  BY HandlerSteps DEF Serves, CellOf
<1>5. \A c \in Cells : current'[c] = IF c = d THEN Written(h) ELSE book[c]
  BY <1>2 DEF Act, CellOf, Book
<1>6. /\ UNCHANGED <<rows, path, run, late, contested>>
      /\ lost' = lost \cup IF req[h].src = "current" THEN {}
                           ELSE {c \in Cells : current[c] # book[c]}
      /\ crossed' = crossed \cup IF run.pc = "off" THEN {} ELSE {d}
  BY DEF Act, CellOf
<1>7. path = "original" => req[h].src = "original"
  BY <1>1 DEF Tells, Bounded
<1>8. InOrder' \subseteq InOrder
  BY <1>6 DEF InOrder
<1>9. \A c \in InOrder' : book[c] = current[c]
  <2>1. req[h].src = "current" => book = current
    BY DEF FileAt
  <2>2. ASSUME NEW c \in InOrder', req[h].src # "current"
        PROVE  book[c] = current[c]
    BY <1>6, <2>2 DEF InOrder
  <2> QED BY <2>1, <2>2
<1>10. \A g \in Handlers : req'[g] = IF g = h THEN q ELSE req[g]
  BY <1>4 DEF Serves, Types
<1> HIDE DEF book, q
<1>11. Bounded'
  BY <1>1, <1>3, <1>6, <1>7, <1>10 DEF Tells, Bounded
<1>13. \A c \in InOrder' : c = d => run.pc = "off" /\ Len(run.txn) = 0
  <2>1. run.pc # "open" => Len(run.txn) = 0
    BY EmptySeq DEF Serves, Types
  <2> QED BY <1>6, <2>1 DEF InOrder
<1>12. ASSUME NEW c \in InOrder'
       PROVE  Told(c)'
  <2>1. c \in InOrder /\ c \in Cells /\ Told(c)
    BY <1>8 DEF Tells, InOrder
  <2>2. RowsOrdered(c)' /\ RowsPast(c)'
    BY <1>6, <2>1 DEF Told, RowsOrdered, RowsPast
  <2>3. Numbers(c)'
    BY <1>3, <1>6, <1>10, <2>1 DEF Told, Numbers, CellOf
  <2>4. PutsBack(c)'
    BY <1>1, <1>3, <1>6, <1>10, <2>1 DEF Told, PutsBack, CellOf, Busy
  <2>5. Present(c)
    BY <2>1 DEF Told
  <2>6. \A g \in Handlers \ {h} : /\ Acting(g, c)' <=> Acting(g, c)
                                  /\ req'[g].prev = req[g].prev /\ Written(g)' = Written(g)
    BY <1>6, <1>10 DEF Acting, CellOf, Written
  <2>7. Acting(h, c)' <=> c = d
    BY <1>3, <1>6, <1>10 DEF Acting, CellOf
  <2>8. ~Acting(h, c)
    BY <1>1 DEF Acting
  <2>9. Written(h)' = Written(h) /\ req'[h].prev = book[d]
    BY <1>3, <1>6, <1>10 DEF Written
  <2>10. c # d => current'[c] = current[c] /\ FileAt(path)'[c] = FileAt(path)[c]
    BY <1>5, <1>6, <1>9, <2>1 DEF FileAt
  <2>11. rows' = rows /\ path' = path /\ run' = run
    BY <1>6
  <2>12. ASSUME c # d
         PROVE  Present(c)'
    <3>1. \A g \in Handlers : Acting(g, c)' <=> Acting(g, c)
      BY <2>6, <2>7, <2>8, <2>12
    <3>2. \A g \in Handlers : Acting(g, c) =>
            /\ req'[g].prev = req[g].prev /\ Written(g)' = Written(g)
            /\ Shows(rows, c, MaxRows, req[g].prev) /\ current[c] = Written(g)
      BY <2>5, <2>6, <2>8 DEF Present
    <3>3. \A k \in 1..Len(run.txn) : Applied(k, c)' <=> Applied(k, c)
      BY <2>11 DEF Applied
    <3> QED BY <2>5, <2>10, <2>11, <2>12, <3>1, <3>2, <3>3 DEF Present
  <2>13. ASSUME c = d
         PROVE  Present(c)'
    <3>1. \A g \in Handlers \ {h} : ~Acting(g, c)
      <4>1. \A g \in Handlers \ {h} : Busy(g) /\ CellOf(g) = d => d \in contested
        BY <1>1 DEF Serves, Trusted
      <4> QED BY <2>1, <2>13, <4>1 DEF Acting, Busy, InOrder
    <3>6. run.pc = "off" /\ Len(run.txn) = 0
      BY <1>13, <2>13
    <3>2. Shows(rows, c, MaxRows, FileAt(path)[c])
      BY <2>5, <2>8, <3>1, <3>6 DEF Present
    <3>3. FileAt(path)[c] = current[c]
      BY <2>1, <2>5, <2>8, <3>1, <3>6, FileIsCurrent DEF Serves
    <3>4. Shows(rows', c, MaxRows, req'[h].prev) /\ current'[c] = Written(h)'
      BY <1>5, <1>9, <2>1, <2>9, <2>11, <2>13, <3>2, <3>3
    <3>5. \A g \in Handlers : Acting(g, c)' => g = h
      BY <2>6, <3>1
    <3> QED BY <2>7, <2>11, <2>13, <3>4, <3>5, <3>6 DEF Present
  <2>14. Apart(c)'
    <3>1. run.pc # "off" => \A g \in Handlers : ~Acting(g, c)'
      BY <1>13, <2>1, <2>6, <2>7 DEF Told, Apart
    <3> QED BY <2>1, <2>11, <3>1 DEF Told, Apart
  <2> QED BY <2>2, <2>3, <2>4, <2>12, <2>13, <2>14 DEF Told
<1> QED BY <1>11, <1>12 DEF Tells

\* While a run has the workbook no handler writes a cell that is in order.
LEMMA NoneActing ==
  ASSUME Tells, run.pc # "off", NEW c \in InOrder
  PROVE  \A h \in Handlers : ~Acting(h, c)
BY DEF Tells, Told, Apart

\* The run goes on and no row is committed.
LEMMA RunTells ==
  ASSUME Tells, UNCHANGED <<rows, req, late, contested, lost>>, crossed \subseteq crossed',
         path' \in {path, "current"},
         Len(rows) + Len(run'.txn) <= MaxRows,
         \A c \in InOrder' : Present(c)' /\ Apart(c)'
  PROVE  Tells'
<1>1. InOrder' \subseteq InOrder
  BY DEF InOrder
<1>2. ASSUME NEW c \in InOrder'
      PROVE  Told(c)'
  <2>1. Told(c) /\ Present(c)' /\ Apart(c)'
    BY <1>1, <1>2 DEF Tells
  <2>2. RowsOrdered(c)' /\ RowsPast(c)'
    BY <2>1 DEF Told, RowsOrdered, RowsPast
  <2>3. Numbers(c)' /\ PutsBack(c)'
    BY <2>1 DEF Told, Numbers, PutsBack, CellOf, Busy
  <2> QED BY <2>1, <2>2, <2>3 DEF Told
<1>3. Bounded'
  BY DEF Tells, Bounded
<1> QED BY <1>2, <1>3 DEF Tells

LEMMA RunStartTells ==
  ASSUME Serves, Tells, RunStart
  PROVE  Tells'
<1>1. /\ UNCHANGED <<rows, current, path, req, late, contested, lost>>
      /\ crossed' = crossed \cup Uncommitted
      /\ run.pc = "off" /\ run'.pc = "open" /\ run'.wb = FileAt(path)
  BY DEF RunStart
<1>2. Len(run'.txn) = 0
  BY RunGoesOn DEF Serves
<1>3. Len(rows) + Len(run'.txn) <= MaxRows
  <2>1. Len(run.txn) = 0 /\ Len(rows) \in Nat /\ MaxRows \in Nat
    BY <1>1, EmptySeq, RowFields, SessionLedgerAssumption DEF Serves, Types
  <2> QED BY <1>2, <2>1 DEF Tells, Bounded
<1>4. ASSUME NEW c \in InOrder'
      PROVE  Present(c)' /\ Apart(c)'
  <2>1. \A g \in Handlers : ~Acting(g, c) /\ ~Acting(g, c)'
    BY <1>1 DEF InOrder, Uncommitted, Acting, CellOf
  <2>2. c \in InOrder
    BY <1>1 DEF InOrder
  <2>3. Shows(rows, c, MaxRows, FileAt(path)[c]) /\ (path = "original" => current[c] = 0)
    BY <1>1, <2>1, <2>2 DEF Tells, Told, Present
  <2>4. Present(c)'
    BY <1>1, <1>2, <2>1, <2>3 DEF Present
  <2> QED BY <1>2, <2>1, <2>4 DEF Apart
<1> QED BY <1>1, <1>3, <1>4, RunTells

LEMMA RunWriteTells ==
  ASSUME Serves, Keeps, Tells, NEW x \in Cells, RunWrite(x)
  PROVE  Tells'
<1> DEFINE f == Flushed(x)
<1>1. /\ UNCHANGED <<rows, current, path, req, late, contested, crossed, lost>>
      /\ run.pc = "open" /\ Len(run.txn) = 0 /\ Room
  BY EmptySeq DEF RunWrite, excused
<1>2. /\ f.cell = x /\ f.val = writes + 1
      /\ f.prev = (IF x \in UserCells THEN NoValue ELSE run.wb[x])
      /\ f.status = (IF x \in UserCells THEN "PENDING_APPROVAL" ELSE "APPLIED")
      /\ run'.txn[1] = f /\ Len(run'.txn) = 1 /\ run'.pc = "open"
      /\ \A c \in Cells : run'.wb[c] =
           IF c = x /\ x \notin UserCells THEN writes + 1 ELSE run.wb[c]
      /\ \A i \in 1..Len(rows) : rows[i].seq < f.seq
      /\ writes \in Nat
  BY WriteFields
<1>3. writes + 1 # NoValue
  BY SessionLedgerAssumption DEF RunWrite, Serves, Types, NoValue
<1> HIDE DEF f
<1>4. \A k \in 1..Len(run'.txn) : k = 1 /\ run'.txn[k] = f
  BY <1>2
<1>5. Len(rows) + Len(run'.txn) <= MaxRows
  <2>1. Len(rows) \in Nat /\ MaxRows \in Nat
    BY RowFields, SessionLedgerAssumption DEF Serves
  <2> QED BY <1>1, <1>2, <2>1 DEF Room
<1>6. InOrder' = InOrder
  BY <1>1 DEF InOrder
<1>7. ASSUME NEW c \in InOrder
      PROVE  Present(c)' /\ Apart(c)'
  <2>1. Present(c) /\ c \in Cells
    BY <1>7 DEF Tells, Told, InOrder
  <2>10. \A g \in Handlers : ~Acting(g, c) /\ ~Acting(g, c)'
    BY <1>1, NoneActing DEF Acting, CellOf
  <2>2. /\ Shows(rows, c, MaxRows, run.wb[c]) /\ (path = "original" => current[c] = 0)
    BY <1>1, <2>1, <2>10 DEF Present
  <2>3. \A k \in 1..Len(run'.txn) : Applied(k, c)' <=> x \notin UserCells /\ c = x
    BY <1>2, <1>4 DEF Applied
  <2>4. FileAt(path)[c] # writes + 1
    <3>1. FileAt(path)[c] \in {0, current[c]}
      BY <2>1, FileCells DEF Serves, Types
    <3>2. current[c] # writes + 1
      BY <1>2, <1>3, <2>1 DEF Keeps, Dated, Old
    <3> QED BY <1>2, <3>1, <3>2
  <2>5. FileAt(path)' = FileAt(path)
    BY <1>1 DEF FileAt
  <2>6. ASSUME NEW k \in 1..Len(run'.txn), x \notin UserCells, c = x
        PROVE  /\ Shows(rows, c, MaxRows, run'.txn[k].prev)
               /\ run'.wb[c] = run'.txn[k].val /\ FileAt(path)'[c] # run'.txn[k].val
    BY <1>2, <1>4, <2>1, <2>2, <2>4, <2>5, <2>6
  <2>7. ~(x \notin UserCells /\ c = x) => run'.wb[c] = run.wb[c]
    BY <1>2, <2>1
  <2>8. 1 \in 1..Len(run'.txn)
    BY <1>2
  <2>9. (\A k \in 1..Len(run'.txn) : ~Applied(k, c)') => Shows(rows, c, MaxRows, run'.wb[c])
    BY <2>2, <2>3, <2>7, <2>8
  <2>11. Present(c)'
    BY <1>1, <1>2, <2>10, <2>2, <2>3, <2>6, <2>9 DEF Present
  <2>12. Apart(c)'
    BY <1>1, <1>2, <1>4, <2>10 DEF Apart
  <2> QED BY <2>11, <2>12
<1> QED BY <1>1, <1>5, <1>6, <1>7, RunTells

LEMMA RunSaveTells ==
  ASSUME Serves, Tells, RunSave
  PROVE  Tells'
<1>1. /\ UNCHANGED <<rows, path, req, late, contested, crossed, lost>> /\ current' = run.wb
      /\ run.pc = "open" /\ run'.pc = "saved" /\ run'.wb = run.wb /\ Len(run.txn) = 0
  BY RunRecords, EmptySeq DEF RunSave, excused, Serves
<1>2. Len(run'.txn) = 0
  BY RunGoesOn DEF Serves
<1>3. InOrder' = InOrder
  BY <1>1 DEF InOrder
<1>4. ASSUME NEW c \in InOrder
      PROVE  Present(c)' /\ Apart(c)'
  <2>1. Shows(rows, c, MaxRows, run.wb[c])
    BY <1>1, <1>4 DEF Tells, Told, Present
  <2>2. \A g \in Handlers : ~Acting(g, c)'
    BY <1>1, NoneActing DEF Acting, CellOf
  <2> QED BY <1>1, <1>2, <2>1, <2>2 DEF Present, Apart
<1> QED BY <1>1, <1>2, <1>3, <1>4, RunTells DEF Tells, Bounded

LEMMA RunFinishTells ==
  ASSUME Serves, Tells, RunFinish
  PROVE  Tells'
<1>1. /\ UNCHANGED <<rows, current, req, late, contested, crossed, lost>> /\ path' = "current"
      /\ run.pc = "saved" /\ run'.pc = "off" /\ Len(run.txn) = 0
  BY EmptySeq DEF RunFinish, excused, NoRun, Serves, Types
<1>2. Len(run'.txn) = 0
  BY RunGoesOn DEF Serves
<1>3. InOrder' = InOrder
  BY <1>1 DEF InOrder
<1>5. FileAt(path)' = current
  BY <1>1 DEF FileAt
<1>6. ASSUME NEW c \in InOrder
      PROVE  Present(c)' /\ Apart(c)'
  <2>1. Shows(rows, c, MaxRows, run.wb[c]) /\ current[c] = run.wb[c]
    BY <1>1, <1>6 DEF Tells, Told, Present
  <2>2. \A g \in Handlers : ~Acting(g, c)'
    BY <1>1, NoneActing DEF Acting, CellOf
  <2> QED BY <1>1, <1>2, <1>5, <2>1, <2>2 DEF Present, Apart
<1> QED BY <1>1, <1>2, <1>3, <1>6, RunTells DEF Tells, Bounded

LEMMA TxnGrown ==
  ASSUME Serves, Bounded, RunCommit \/ RunFail
  PROVE  /\ Bounded' /\ run.pc = "open" /\ Len(run'.txn) = 0
         /\ \A c : Apart(c) => GrownOn(c)
         /\ \A c : Fresh(c) <=> \E k \in 1..Len(run.txn) : Applied(k, c)
         /\ \A j \in 1..Len(rows) : rows'[j] = rows[j]
         /\ Len(rows') = Len(rows) + 1 =>
              /\ rows'[Len(rows) + 1] = run.txn[1] /\ run.txn[1].inverseOf = NoRow
              /\ Len(run.txn) = 1
<1> DEFINE l == Len(rows)
<1>1. /\ rows' = rows \o run.txn /\ UNCHANGED <<current, path, req>>
      /\ run.pc = "open" /\ run'.pc \in {"open", "off"}
  <2>1. run' = [run EXCEPT !.txn = <<>>] \/ run' = NoRun
    BY DEF RunCommit, RunFail
  <2>2. run'.pc \in {run.pc, "off"}
    BY <2>1, RunRecords DEF Serves
  <2> QED BY <2>2 DEF RunCommit, RunFail
<1>2. PICK m \in {0, 1} : m = Len(run.txn)
  BY RunFields DEF Serves
<1>3. /\ Len(rows') = l + m /\ l \in Nat /\ MaxRows \in Nat
      /\ \A j \in 1..l : rows'[j] = rows[j]
      /\ m = 1 => rows'[l + 1] = run.txn[1]
  BY <1>1, <1>2, TxnRewrites, RowFields, SessionLedgerAssumption DEF Serves
<1>4. Len(run'.txn) = 0
  <2>1. run' = [run EXCEPT !.txn = <<>>] \/ run' = NoRun
    BY DEF RunCommit, RunFail
  <2>2. run'.txn = <<>>
    BY <2>1, RunRecords DEF Serves
  <2> QED BY <2>2, EmptySeq
<1>5. Len(rows') = l + 1 => m = 1
  BY <1>3
<1>6. m = 1 => /\ run.txn[1].inverseOf = NoRow
               /\ run.txn[1].status \in {"APPLIED", "PENDING_APPROVAL"}
  BY <1>2 DEF Serves, Kinds
<1>7. Bounded'
  <2>1. l + m <= MaxRows
    BY <1>2 DEF Bounded
  <2>2. Len(rows') + Len(run'.txn) <= MaxRows
    BY <1>3, <1>4, <2>1
  <2> QED BY <1>1, <1>4, <2>2 DEF Bounded
<1>8. ASSUME NEW c, Apart(c)
      PROVE  GrownOn(c)
  <2>1. Len(rows') \in {l, l + 1}
    BY <1>3
  <2>2. m = 1 /\ run.txn[1].cell = c => \A i \in 1..l : rows[i].cell = c => rows[i].seq < run.txn[1].seq
    BY <1>2, <1>8 DEF Apart
  <2> QED BY <1>3, <1>5, <2>1, <2>2 DEF GrownOn
<1>9. ASSUME NEW c
      PROVE  Fresh(c) <=> \E k \in 1..Len(run.txn) : Applied(k, c)
  <2>1. CASE m = 0
    BY <1>2, <1>5, <2>1 DEF Fresh
  <2>2. CASE m = 1
    <3>1. Fresh(c) <=> run.txn[1].cell = c /\ run.txn[1].status = "APPLIED"
      BY <1>3, <1>6, <2>2 DEF Fresh, Replayable
    <3>2. \A k \in 1..Len(run.txn) : k = 1
      BY <1>2, <2>2
    <3>3. 1 \in 1..Len(run.txn)
      BY <1>2, <2>2
    <3> QED BY <3>1, <3>2, <3>3 DEF Applied
  <2> QED BY <2>1, <2>2
<1> QED BY <1>1, <1>2, <1>3, <1>4, <1>5, <1>6, <1>7, <1>8, <1>9

\* What the rows say after a run's commit.
LEMMA TxnTold ==
  ASSUME Serves, Tells, RunCommit \/ RunFail, NEW c \in InOrder
  PROVE  /\ RowsOrdered(c)' /\ Numbers(c)' /\ RowsPast(c)' /\ PutsBack(c)'
         /\ \A v : Shows(rows, c, MaxRows, v) /\ ~Fresh(c) => Shows(rows', c, MaxRows, v)
         /\ \A h \in Handlers : ~Acting(h, c) /\ ~Acting(h, c)'
         /\ Fresh(c) => Shows(rows', c, MaxRows, run.wb[c])
         /\ Fresh(c) => run.wb[c] # FileAt(path)[c]
         /\ ~Fresh(c) => Shows(rows, c, MaxRows, run.wb[c])
<1>1. /\ Serves' /\ Bounded /\ Bounded' /\ run.pc = "open" /\ Told(c)
      /\ GrownOn(c) /\ (Fresh(c) <=> \E k \in 1..Len(run.txn) : Applied(k, c))
      /\ Len(rows') = Len(rows) + 1 =>
           /\ rows'[Len(rows) + 1] = run.txn[1] /\ run.txn[1].inverseOf = NoRow
           /\ Len(run.txn) = 1
      /\ \A j \in 1..Len(rows) : rows'[j] = rows[j]
  BY TxnServes, TxnGrown DEF Tells, Told
<1>2. Fresh(c) => /\ Shows(rows, c, MaxRows, run.txn[1].prev)
                  /\ run.wb[c] = run.txn[1].val /\ FileAt(path)[c] # run.txn[1].val
                  /\ rows'[Len(rows) + 1] = run.txn[1]
  <2>1. Fresh(c) => Len(run.txn) = 1 /\ rows'[Len(rows) + 1] = run.txn[1]
    BY <1>1 DEF Fresh
  <2>2. Len(run.txn) = 1 => \A k \in 1..Len(run.txn) : k = 1
    OBVIOUS
  <2>3. \A k \in 1..Len(run.txn) : Applied(k, c) =>
          /\ Shows(rows, c, MaxRows, run.txn[k].prev)
          /\ run.wb[c] = run.txn[k].val /\ FileAt(path)[c] # run.txn[k].val
    BY <1>1 DEF Told, Present
  <2> QED BY <1>1, <2>1, <2>2, <2>3
<1>3. RowsOrdered(c)' /\ RowsPast(c)'
  <2>1. RowsOrdered(c) /\ RowsPast(c)
    BY <1>1 DEF Told
  <2>2. Fresh(c) => Shows(rows, c, MaxRows, rows'[Len(rows) + 1].prev)
    BY <1>2
  <2>3. ~(Len(rows') = Len(rows) + 1 /\ rows'[Len(rows) + 1].inverseOf # NoRow)
    BY <1>1
  <2> QED BY <1>1, <2>1, <2>2, <2>3, RowsPastAfter
<1>4. Numbers(c)' /\ PutsBack(c)'
  <2>1. req' = req
    BY DEF RunCommit, RunFail
  <2>2. \A h \in Handlers : ~Acting(h, c)
    BY <1>1, NoneActing
  <2>3. \A h \in Handlers : Busy(h) => req[h].id \in 1..Len(rows)
    BY RequestFields DEF Serves, Busy
  <2>4. \A h \in Handlers : Busy(h) =>
          CellOf(h)' = CellOf(h) /\ rows'[req[h].id] = rows[req[h].id]
    BY <1>1, <2>1, <2>3 DEF CellOf
  <2>5. Numbers(c)'
    BY <2>1, <2>2, <2>4 DEF Numbers, Acting, Busy
  <2>6. PutsBack(c)'
    BY <1>1, <2>1, <2>4 DEF Told, PutsBack, Busy
  <2> QED BY <2>5, <2>6
<1>5. \A v : Shows(rows, c, MaxRows, v) /\ ~Fresh(c) => Shows(rows', c, MaxRows, v)
  BY <1>1, ShowsAfter
<1>6. Fresh(c) => Shows(rows', c, MaxRows, run.wb[c])
  BY <1>1, <1>2, ShowsAfter
<1>7. ~Fresh(c) => Shows(rows, c, MaxRows, run.wb[c])
  BY <1>1 DEF Told, Present
<1>8. \A h \in Handlers : ~Acting(h, c) /\ ~Acting(h, c)'
  <2>1. req' = req
    BY DEF RunCommit, RunFail
  <2>2. \A h \in Handlers : req[h].pc \in {"acted", "numbered"} => req[h].id \in 1..Len(rows)
    BY RequestFields DEF Serves
  <2>3. \A h \in Handlers : ~Acting(h, c)
    BY <1>1, NoneActing
  <2> QED BY <1>1, <2>1, <2>2, <2>3 DEF Acting, CellOf
<1> QED BY <1>2, <1>3, <1>4, <1>5, <1>6, <1>7, <1>8

LEMMA RunCommitTells ==
  ASSUME Serves, Tells, RunCommit
  PROVE  Tells'
<1>1. /\ UNCHANGED <<current, path, req, late, contested, crossed, lost>>
      /\ run'.pc = run.pc /\ run'.wb = run.wb
  BY RunRecords DEF RunCommit, excused, Serves
<1>2. Bounded' /\ run.pc = "open" /\ Len(run'.txn) = 0
  BY TxnGrown DEF Tells
<1>4. InOrder' = InOrder
  BY <1>1 DEF InOrder
<1>5. ASSUME NEW c \in InOrder
      PROVE  Told(c)'
  <2>1. Shows(rows', c, MaxRows, run.wb[c])
    BY <1>5, TxnTold
  <2>4. \A h \in Handlers : ~Acting(h, c) /\ ~Acting(h, c)'
    BY <1>5, TxnTold
  <2>2. path = "original" => current[c] = 0
    BY <1>2, <1>5, <2>4 DEF Tells, Told, Present
  <2>3. Present(c)' /\ Apart(c)'
    BY <1>1, <1>2, <2>1, <2>2, <2>4 DEF Present, Apart
  <2> QED BY <1>5, <2>3, TxnTold DEF Told
<1> QED BY <1>2, <1>4, <1>5 DEF Tells

\* A failed run leaves a cell as it was, or among the lost ones.
LEMMA RunFailTells ==
  ASSUME Serves, Tells, RunFail
  PROVE  Tells'
<1>1. /\ UNCHANGED <<current, path, req, late, contested, crossed>> /\ lost' = lost \cup Unsaved
      /\ run' = NoRun
  BY DEF RunFail
<1>2. Bounded' /\ run.pc = "open" /\ Len(run'.txn) = 0 /\ run'.pc = "off"
  BY <1>1, TxnGrown DEF Tells, NoRun
<1>4. InOrder' \subseteq InOrder /\ \A c \in InOrder' : run.wb[c] = FileAt(path)[c]
  BY <1>1, <1>2 DEF InOrder, Unsaved
<1>5. ASSUME NEW c \in InOrder'
      PROVE  Told(c)'
  <2>1. c \in InOrder /\ run.wb[c] = FileAt(path)[c]
    BY <1>4
  <2>2. ~Fresh(c) /\ Shows(rows', c, MaxRows, FileAt(path)[c])
    BY <2>1, TxnTold
  <2>6. \A h \in Handlers : ~Acting(h, c) /\ ~Acting(h, c)'
    BY <2>1, TxnTold
  <2>3. path = "original" => current[c] = 0
    BY <1>2, <2>1, <2>6 DEF Tells, Told, Present
  <2>4. FileAt(path)' = FileAt(path)
    BY <1>1 DEF FileAt
  <2>5. Present(c)' /\ Apart(c)'
    BY <1>1, <1>2, <2>2, <2>3, <2>4, <2>6 DEF Present, Apart
  <2> QED BY <2>1, <2>5, TxnTold DEF Told
<1> QED BY <1>2, <1>5 DEF Tells

LEMMA CrashTells ==
  ASSUME Serves, Tells, Crash
  PROVE  Tells'
<1>1. /\ UNCHANGED <<rows, current, path, late, contested, crossed>>
      /\ lost' = lost \cup Unsaved \cup Uncommitted
      /\ run' = NoRun /\ req' = [h \in Handlers |-> NoRequest]
  BY DEF Crash
<1>2. run'.pc = "off" /\ Len(run'.txn) = 0
  BY <1>1, EmptySeq DEF NoRun
<1>3. \A h \in Handlers : req'[h].pc = "idle" /\ ~Busy(h)' /\ \A c : ~Acting(h, c)'
  BY <1>1 DEF NoRequest, Busy, Acting
<1>4. Bounded'
  <2>1. Len(rows) \in Nat /\ Len(run.txn) \in {0, 1} /\ MaxRows \in Nat
    BY RowFields, RunFields, SessionLedgerAssumption DEF Serves
  <2>2. Len(rows') + Len(run'.txn) <= MaxRows
    BY <1>1, <1>2, <2>1 DEF Tells, Bounded
  <2> QED BY <1>2, <1>3, <2>2 DEF Bounded
<1>5. ASSUME NEW c \in InOrder'
      PROVE  Told(c)'
  <2>1. c \in InOrder /\ c \in Cells /\ Told(c) /\ Present(c)
    BY <1>1, <1>5 DEF InOrder, Tells, Told
  <2>2. \A h \in Handlers : ~Acting(h, c)
    BY <1>1, <1>5 DEF InOrder, Uncommitted, Acting, CellOf
  <2>3. run.pc # "off" => run.wb[c] = FileAt(path)[c]
    BY <1>1, <1>5, <2>1 DEF InOrder, Unsaved
  <2>4. Shows(rows, c, MaxRows, FileAt(path)[c])
    <3>1. CASE run.pc = "off"
      BY <2>1, <2>2, <3>1 DEF Present
    <3>2. CASE run.pc # "off"
      <4>1. \A k \in 1..Len(run.txn) : ~Applied(k, c)
        BY <2>1, <2>3, <3>2 DEF Present
      <4> QED BY <2>1, <2>3, <3>2, <4>1 DEF Present
    <3> QED BY <3>1, <3>2
  <2>5. path = "original" => current[c] = 0
    <3>1. run.pc = "saved" /\ path = "original" => current[c] = 0
      BY <2>1, <2>3 DEF Present, FileAt, Original
    <3> QED BY <2>1, <2>2, <3>1 DEF Present
  <2>6. FileAt(path)' = FileAt(path)
    BY <1>1 DEF FileAt
  <2>7. Present(c)' /\ Apart(c)'
    BY <1>1, <1>2, <1>3, <2>4, <2>5, <2>6 DEF Present, Apart
  <2>8. RowsOrdered(c)' /\ RowsPast(c)'
    BY <1>1, <2>1 DEF Told, RowsOrdered, RowsPast
  <2>9. Numbers(c)' /\ PutsBack(c)'
    BY <1>3 DEF Numbers, PutsBack
  <2> QED BY <2>7, <2>8, <2>9 DEF Told
<1> QED BY <1>4, <1>5 DEF Tells

\* A handler answers.
LEMMA AnswerBasics ==
  ASSUME Serves, Tells, NEW h \in Handlers,
         CommitApprove(h) \/ CommitReject(h) \/ CommitUndo(h)
  PROVE  /\ Busy(h) /\ Serves' /\ Bounded'
         /\ req' = [req EXCEPT ![h] = NoRequest]
         /\ UNCHANGED <<current, run, contested, crossed, lost>> /\ late \subseteq late'
         /\ path' \in {path, "current"}
         /\ \E s \in Statuses, p \in Nat : Rewritten(req[h].id, s, p)
         /\ Len(rows') = Len(rows) + 1 => rows'[Len(rows) + 1].cell = CellOf(h)
<1>1. /\ Busy(h) /\ req' = [req EXCEPT ![h] = NoRequest]
      /\ UNCHANGED <<current, run, contested, crossed, lost>> /\ late \subseteq late'
      /\ path' \in {path, "current"}
  BY DEF CommitApprove, CommitReject, CommitUndo, Busy, Answer, excused
<1>2. Len(run.txn) \in Nat
  BY RunFields DEF Serves
<1>3. Serves'
  BY DecideServes, UndoServes
<1>4. req[h].id \in 1..Len(rows) /\ Len(rows) \in Nat /\ req[h].prev \in Nat /\ MaxRows \in Nat
  BY <1>1, RequestFields, RowFields, SessionLedgerAssumption DEF Serves, Busy
<1>5. rows[req[h].id].prev \in Nat
  BY <1>4, RowFields DEF Serves
<1>6. \/ Len(rows') = Len(rows)
      \/ /\ Len(rows') = Len(rows) + 1 /\ Room
         /\ rows'[Len(rows) + 1].cell = CellOf(h)
  <2>1. CommitUndo(h) => /\ Len(rows') = Len(rows) + 1 /\ Room
                         /\ rows'[Len(rows) + 1].cell = CellOf(h)
    BY UndoRewrites DEF Serves, Reversal, CellOf, CommitUndo
  <2> QED BY <2>1, ApproveRewrites, RejectRewrites DEF Serves
<1>7. \E s \in Statuses, p \in Nat : Rewritten(req[h].id, s, p)
  <2>1. "APPLIED" \in Statuses /\ "REJECTED" \in Statuses /\ "UNDONE" \in Statuses
    BY DEF Statuses
  <2> QED BY <1>4, <1>5, <2>1, ApproveRewrites, RejectRewrites, UndoRewrites DEF Serves
<1>8. Len(rows') + Len(run'.txn) <= MaxRows
  BY <1>1, <1>2, <1>4, <1>6 DEF Tells, Bounded, Room
<1>9. \A g \in Handlers : req'[g].pc # "idle" => req'[g] = req[g]
  BY <1>1 DEF Serves, Types, NoRequest
<1>10. Bounded'
  <2>1. path' = "original" => \A g \in Handlers : req'[g].pc # "idle" => req'[g].src = "original"
    BY <1>1, <1>9 DEF Tells, Bounded
  <2> QED BY <1>1, <1>2, <1>8, <2>1 DEF Bounded
<1> QED BY <1>1, <1>3, <1>4, <1>6, <1>7, <1>10

\* For the other cells nothing changes,
LEMMA AnswerElsewhere ==
  ASSUME Serves, Tells, NEW h \in Handlers,
         CommitApprove(h) \/ CommitReject(h) \/ CommitUndo(h),
         NEW c \in InOrder', c # CellOf(h)
  PROVE  Told(c)'
<1> DEFINE l == Len(rows)
           i == req[h].id
<1>1. /\ Busy(h) /\ Serves' /\ Bounded'
      /\ req' = [req EXCEPT ![h] = NoRequest]
      /\ UNCHANGED <<current, run, contested, crossed, lost>> /\ late \subseteq late'
      /\ path' \in {path, "current"}
      /\ Len(rows') = l + 1 => rows'[l + 1].cell = CellOf(h)
  BY AnswerBasics
<1>2. PICK s \in Statuses, p \in Nat : Rewritten(i, s, p)
  BY AnswerBasics
<1>3. c \in InOrder /\ c \in Cells /\ Told(c) /\ Present(c)
  BY <1>1 DEF InOrder, Tells, Told
<1>4. rows[i].cell # c /\ i \in 1..l /\ l \in Nat
  BY <1>1, RequestFields, RowFields DEF CellOf, Serves, Busy
<1>5. GrownOn(c) /\ ~Fresh(c)
  <2>1. Len(rows') \in {l, l + 1} /\ ~Fresh(c)
    BY <1>1, <1>2 DEF Rewritten, Fresh
  <2> QED BY <1>1, <1>2, <1>4, <2>1 DEF Rewritten, GrownOn, Replayable
<1>6. RowsOrdered(c)' /\ RowsPast(c)'
  <2>1. RowsOrdered(c) /\ RowsPast(c) /\ Bounded
    BY <1>3 DEF Told, Tells
  <2>2. ~(Len(rows') = l + 1 /\ rows'[l + 1].cell = c)
    BY <1>1
  <2> QED BY <1>1, <1>5, <2>1, <2>2, RowsPastAfter
<1>7. \A v : Shows(rows, c, MaxRows, v) => Shows(rows', c, MaxRows, v)
  BY <1>1, <1>5, ShowsAfter DEF Tells
<1>8. \A g \in Handlers : req'[g] = IF g = h THEN NoRequest ELSE req[g]
  BY <1>1 DEF Serves, Types
<1>9. NoRequest.pc = "idle"
  BY DEF NoRequest
<1>10. \A g \in Handlers : Busy(g)' =>
         /\ g # h /\ req'[g] = req[g] /\ Busy(g) /\ req[g].id \in 1..l
         /\ CellOf(g)' = CellOf(g) /\ rows'[req[g].id].val = rows[req[g].id].val
         /\ CellOf(g) = c => rows'[req[g].id].prev = rows[req[g].id].prev
  <2>1. \A g \in Handlers : Busy(g)' =>
          g # h /\ req'[g] = req[g] /\ Busy(g) /\ req[g].id \in 1..l
    BY <1>8, <1>9 DEF Busy, Serves, Types
  <2> QED BY <1>2, <1>4, <2>1 DEF Rewritten, CellOf
<1>11. Numbers(c)'
  <2>1. \A j \in 1..Len(rows') : rows'[j].cell = c =>
          j \in 1..l /\ rows[j].cell = c /\ rows'[j].seq = rows[j].seq
    BY <1>1, <1>2, <1>4 DEF Rewritten
  <2>2. \A g \in Handlers : (req[g].pc = "numbered")' => Busy(g)'
    BY DEF Busy
  <2> QED BY <1>3, <1>10, <2>1, <2>2 DEF Told, Numbers
<1>12. PutsBack(c)'
  BY <1>3, <1>10 DEF Told, PutsBack
<1>14. \A g \in Handlers : Acting(g, c)' <=> Acting(g, c)
  <2>1. \A g \in Handlers : Acting(g, c)' => Busy(g)'
    BY DEF Acting, Busy
  <2>2. \A g \in Handlers : Acting(g, c)' => Acting(g, c)
    BY <1>10, <2>1 DEF Acting
  <2>3. \A g \in Handlers : Acting(g, c) => g # h /\ Busy(g) /\ req'[g] = req[g]
    BY <1>8 DEF Acting, Busy
  <2>4. \A g \in Handlers : Acting(g, c) => Busy(g)'
    BY <2>3 DEF Busy
  <2> QED BY <1>10, <2>2, <2>3, <2>4 DEF Acting
<1>15. Apart(c)'
  <2>1. \A j \in 1..Len(rows') : rows'[j].cell = c =>
          j \in 1..l /\ rows[j].cell = c /\ rows'[j].seq = rows[j].seq
    BY <1>1, <1>2, <1>4 DEF Rewritten
  <2>2. run' = run
    BY <1>1
  <2> QED BY <1>3, <1>14, <2>1, <2>2 DEF Told, Apart
<1>13. Present(c)'
  <2>1. \A g \in Handlers : Acting(g, c) =>
          /\ req'[g].prev = req[g].prev /\ Written(g)' = Written(g)
          /\ Shows(rows, c, MaxRows, req[g].prev) /\ current[c] = Written(g)
    <3>1. \A g \in Handlers : Acting(g, c) => Busy(g)'
      BY <1>14 DEF Acting, Busy
    <3>2. \A g \in Handlers : Acting(g, c) => Written(g)' = Written(g)
      BY <1>10, <3>1 DEF Written
    <3> QED BY <1>3, <1>10, <3>1, <3>2 DEF Present
  <2>2. run.pc # "saved" /\ (\A g \in Handlers : ~Acting(g, c)) =>
          FileAt(path)'[c] = FileAt(path)[c]
    <3>1. run.pc # "saved" /\ (\A g \in Handlers : ~Acting(g, c)) => FileAt(path)[c] = current[c]
      BY <1>3, FileIsCurrent DEF Serves
    <3> QED BY <1>1, <3>1 DEF FileAt
  <2>3. run' = run /\ current' = current /\ (path' = "original" => path = "original")
    BY <1>1
  <2>4. \A k \in 1..Len(run.txn) : Applied(k, c)' <=> Applied(k, c)
    BY <2>3 DEF Applied
  <2>5. \A k \in 1..Len(run.txn) : run.pc = "open"
    BY EmptySeq DEF Serves, Types
  <2>6. run.pc = "off" /\ (\A g \in Handlers : ~Acting(g, c)) =>
          Shows(rows', c, MaxRows, FileAt(path)'[c])
    BY <1>3, <1>7, <2>2 DEF Present
  <2>7. \A k \in 1..Len(run.txn) : Applied(k, c) =>
          /\ Shows(rows', c, MaxRows, run.txn[k].prev)
          /\ run.wb[c] = run.txn[k].val /\ FileAt(path)'[c] # run.txn[k].val
    <3> SUFFICES ASSUME NEW k \in 1..Len(run.txn), Applied(k, c)
                 PROVE  /\ Shows(rows', c, MaxRows, run.txn[k].prev)
                        /\ run.wb[c] = run.txn[k].val /\ FileAt(path)'[c] # run.txn[k].val
      OBVIOUS
    <3>1. \A g \in Handlers : ~Acting(g, c)
      BY <1>3, <2>5, NoneActing
    <3>2. FileAt(path)'[c] = FileAt(path)[c]
      BY <2>2, <2>5, <3>1
    <3> QED BY <1>3, <1>7, <3>2 DEF Present
  <2>8. run.pc # "off" /\ (\A k \in 1..Len(run.txn) : ~Applied(k, c)) =>
          Shows(rows', c, MaxRows, run.wb[c])
    BY <1>3, <1>7 DEF Present
  <2>9. \A g \in Handlers : Acting(g, c) =>
          Shows(rows', c, MaxRows, req'[g].prev) /\ current'[c] = Written(g)'
    BY <1>7, <2>1, <2>3
  <2>10. /\ run.pc = "saved" => current[c] = run.wb[c]
         /\ path = "original" =>
              current[c] = 0 \/ run.pc = "saved" \/ \E g \in Handlers : Acting(g, c)
    BY <1>3 DEF Present
  <2> QED BY <1>14, <2>3, <2>4, <2>6, <2>7, <2>8, <2>9, <2>10 DEF Present
<1> QED BY <1>6, <1>11, <1>12, <1>13, <1>15 DEF Told

\* and for its own cell no other handler had business.
LEMMA AnswerHere ==
  ASSUME Serves, Tells, NEW h \in Handlers,
         CommitApprove(h) \/ CommitReject(h) \/ CommitUndo(h),
         NEW c \in InOrder', c = CellOf(h)
  PROVE  /\ \A g \in Handlers : Busy(g) /\ CellOf(g) = c => g = h
         /\ \A g \in Handlers : ~Acting(g, c)'
         /\ Numbers(c)' /\ PutsBack(c)'
<1>1. /\ Busy(h) /\ req' = [req EXCEPT ![h] = NoRequest] /\ contested' = contested
  BY AnswerBasics
<1>2. PICK s \in Statuses, p \in Nat : Rewritten(req[h].id, s, p)
  BY AnswerBasics
<1>3. c \notin contested
  BY <1>1 DEF InOrder
<1>4. \A g \in Handlers : Busy(g) /\ CellOf(g) = c => g = h
  BY <1>1, <1>3 DEF Serves, Trusted
<1>5. \A g \in Handlers : ~(Busy(g) /\ CellOf(g) = c)'
  <2>1. \A g \in Handlers : Busy(g)' =>
          g # h /\ req'[g] = req[g] /\ Busy(g) /\ req[g].id \in 1..Len(rows)
    BY <1>1 DEF Busy, Serves, Types, NoRequest
  <2> QED BY <1>2, <1>4, <2>1 DEF Rewritten, CellOf
<1>6. \A g \in Handlers : ~Acting(g, c)'
  BY <1>5 DEF Acting, Busy
<1>7. Numbers(c)' /\ PutsBack(c)'
  BY <1>5 DEF Numbers, PutsBack, Busy
<1> QED BY <1>4, <1>6, <1>7

\* An approval or an undo: its write is what the rows now show.
LEMMA WriterTells ==
  ASSUME Serves, Tells, NEW h \in Handlers, CommitApprove(h) \/ CommitUndo(h),
         NEW c \in InOrder', c = CellOf(h), RowsOrdered(c)', RowsPast(c)',
         Shows(rows', c, MaxRows, current[c])
  PROVE  Told(c)'
<1>1. Acting(h, c) /\ path' = "current" /\ UNCHANGED <<current, run>>
  BY DEF CommitApprove, CommitUndo, Acting
<1>2. run.pc = "off" /\ Len(run.txn) = 0
  <2>1. c \in InOrder
    BY AnswerBasics DEF InOrder
  <2>2. run.pc = "off"
    BY <1>1, <2>1, NoneActing
  <2> QED BY <2>2, EmptySeq DEF Serves, Types
<1>3. FileAt(path)' = current
  BY <1>1 DEF FileAt
<1>4. (\A g \in Handlers : ~Acting(g, c)') /\ Numbers(c)' /\ PutsBack(c)'
  BY AnswerHere
<1>5. Present(c)' /\ Apart(c)'
  BY <1>1, <1>2, <1>3, <1>4 DEF Present, Apart
<1> QED BY <1>4, <1>5 DEF Told

LEMMA RejectTells ==
  ASSUME Serves, Tells, NEW h \in Handlers, CommitReject(h), NEW c \in InOrder', c = CellOf(h)
  PROVE  Told(c)'
<1> DEFINE i == req[h].id
<1>1. /\ Busy(h) /\ Serves' /\ Bounded'
      /\ UNCHANGED <<current, run, contested, crossed, lost>> /\ late \subseteq late'
  BY AnswerBasics
<1>2. path' = path /\ req[h].pc = "checked" /\ req[h].op = "reject"
  BY DEF CommitReject, excused
<1>3. c \in InOrder /\ c \in Cells /\ Told(c) /\ Present(c) /\ c \notin contested
  BY <1>1 DEF InOrder, Tells, Told
<1>4. rows[i].status = "PENDING_APPROVAL"
  BY <1>1, <1>2, <1>3 DEF Serves, Trusted, Allowed
<1>5. Rewritten(i, "REJECTED", rows[i].prev) /\ Len(rows') = Len(rows) /\ Len(rows) \in Nat
  BY RejectRewrites, RowFields DEF Serves
<1>6. i \in 1..Len(rows)
  BY <1>1, RequestFields DEF Serves, Busy
<1>7. GrownOn(c) /\ ~Fresh(c) /\ Len(rows') # Len(rows) + 1
  <2>1. Len(rows') # Len(rows) + 1
    BY <1>5
  <2> QED BY <1>4, <1>5, <1>6, <2>1 DEF GrownOn, Fresh, Rewritten, Replayable
<1>8. RowsOrdered(c)' /\ RowsPast(c)'
  <2>1. RowsOrdered(c) /\ RowsPast(c) /\ Bounded
    BY <1>3 DEF Told, Tells
  <2> QED BY <1>1, <1>7, <2>1, RowsPastAfter
<1>9. /\ \A g \in Handlers : ~Acting(g, c) /\ ~Acting(g, c)'
      /\ Numbers(c)' /\ PutsBack(c)'
  <2>1. \A g \in Handlers : Busy(g) /\ CellOf(g) = c => g = h
    BY AnswerHere
  <2>2. \A g \in Handlers : ~Acting(g, c)
    BY <1>2, <2>1 DEF Acting, Busy
  <2> QED BY <2>2, AnswerHere
<1>10. \A v : Shows(rows, c, MaxRows, v) => Shows(rows', c, MaxRows, v)
  BY <1>1, <1>7, ShowsAfter DEF Tells
<1>11. FileAt(path)' = FileAt(path) /\ run' = run /\ current' = current
  BY <1>1, <1>2 DEF FileAt
<1>12. Present(c)'
  <2>1. \A k \in 1..Len(run.txn) : Applied(k, c)' <=> Applied(k, c)
    BY <1>11 DEF Applied
  <2> QED BY <1>2, <1>3, <1>9, <1>10, <1>11, <2>1 DEF Present
<1>13. Apart(c)'
  <2>1. Apart(c) /\ \A j \in 1..Len(rows') : rows'[j].cell = c =>
          j \in 1..Len(rows) /\ rows[j].cell = c /\ rows'[j].seq = rows[j].seq
    BY <1>3, <1>5 DEF Told, Rewritten
  <2> QED BY <1>9, <1>11, <2>1 DEF Apart
<1> QED BY <1>8, <1>9, <1>12, <1>13 DEF Told

LEMMA UndoTells ==
  ASSUME Serves, Tells, NEW h \in Handlers, CommitUndo(h), NEW c \in InOrder', c = CellOf(h)
  PROVE  Told(c)'
<1> DEFINE i == req[h].id
           l == Len(rows)
<1>1. /\ Busy(h) /\ Serves' /\ Bounded'
      /\ UNCHANGED <<current, run, contested, crossed, lost>> /\ late \subseteq late'
  BY AnswerBasics
<1>2. /\ path' = "current" /\ req[h].pc = "numbered" /\ req[h].op = "undo"
  BY <1>1 DEF CommitUndo, Serves, Trusted
<1>3. c \in InOrder /\ c \in Cells /\ Told(c) /\ Present(c) /\ c \notin contested
  BY <1>1 DEF InOrder, Tells, Told
<1>4. rows[i].status = "APPLIED" /\ rows[i].cell = c
  BY <1>1, <1>2, <1>3 DEF Serves, Trusted, Allowed, CellOf
<1>5. /\ Rewritten(i, "UNDONE", rows[i].prev) /\ Len(rows') = l + 1 /\ l \in Nat
      /\ rows'[l + 1] = Reversal(h)
  BY UndoRewrites, RowFields DEF Serves
<1>6. /\ Reversal(h).seq = req[h].seq /\ Reversal(h).cell = c /\ Reversal(h).val = Written(h)
      /\ Reversal(h).prev = req[h].prev /\ Reversal(h).status = "APPLIED"
      /\ Reversal(h).inverseOf = i
  BY <1>4 DEF Reversal
<1>7. i \in 1..l
  BY <1>1, RequestFields DEF Serves, Busy
<1>8. /\ Shows(rows, c, MaxRows, req[h].prev) /\ current[c] = Written(h)
      /\ Written(h) = rows[i].prev
      /\ \A j \in 1..l : rows[j].cell = c => rows[j].seq < req[h].seq
  <2>1. Acting(h, c)
    BY <1>2 DEF Acting
  <2>2. req[h].back = rows[i].prev
    BY <1>1, <1>2, <1>3 DEF Told, PutsBack
  <2>3. Written(h) = req[h].back
    BY <1>2 DEF Written
  <2> QED BY <1>2, <1>3, <2>1, <2>2, <2>3 DEF Present, Told, Numbers
<1>9. GrownOn(c) /\ Fresh(c)
  BY <1>4, <1>5, <1>6, <1>7, <1>8 DEF GrownOn, Fresh, Rewritten, Replayable
<1>10. RowsOrdered(c)' /\ RowsPast(c)'
  <2>1. RowsOrdered(c) /\ RowsPast(c) /\ Bounded
    BY <1>3 DEF Told, Tells
  <2>2. Replayable(rows[i])
    BY <1>4 DEF Replayable
  <2>3. /\ rows'[l + 1].prev = req[h].prev /\ rows'[l + 1].inverseOf = i
        /\ rows'[l + 1].val = rows[i].prev
    BY <1>5, <1>6, <1>8
  <2> HIDE DEF i
  <2> QED BY <1>1, <1>4, <1>7, <1>8, <1>9, <2>1, <2>2, <2>3, RowsPastAfter
<1>11. Shows(rows', c, MaxRows, current[c])
  <2>1. rows'[l + 1].val = current[c]
    BY <1>5, <1>6, <1>8
  <2> QED BY <1>1, <1>8, <1>9, <2>1, ShowsAfter DEF Tells
<1> QED BY <1>10, <1>11, WriterTells

\* An approval that is not late is the last row of its cell.
LEMMA ApproveTells ==
  ASSUME Serves, Tells, NEW h \in Handlers, CommitApprove(h), NEW c \in InOrder', c = CellOf(h)
  PROVE  Told(c)'
<1> DEFINE i == req[h].id
           l == Len(rows)
           on == {j \in 1..l : rows[j].cell = c /\ Replayable(rows[j])}
<1>1. /\ Busy(h) /\ Serves' /\ Bounded'
      /\ UNCHANGED <<current, run, contested, crossed, lost>> /\ late \subseteq late'
  BY AnswerBasics
<1>2. /\ path' = "current" /\ req[h].pc = "acted" /\ req[h].op = "approve"
  BY DEF CommitApprove
<1>3. c \in InOrder /\ c \in Cells /\ Told(c) /\ Present(c) /\ c \notin contested /\ Bounded
  BY <1>1 DEF InOrder, Tells, Told
<1>4. rows[i].status = "PENDING_APPROVAL" /\ rows[i].cell = c
  BY <1>1, <1>2, <1>3 DEF Serves, Trusted, Allowed, CellOf
<1>5. Rewritten(i, "APPLIED", req[h].prev) /\ Len(rows') = l /\ l \in Nat
  BY ApproveRewrites, RowFields DEF Serves
<1>6. i \in 1..l
  BY <1>1, RequestFields DEF Serves, Busy
<1>7. Shows(rows, c, MaxRows, req[h].prev) /\ current[c] = rows[i].val
  <2>1. Acting(h, c) /\ Written(h) = rows[i].val
    BY <1>2 DEF Acting, Written
  <2> QED BY <1>3, <2>1 DEF Present
<1>8. /\ RowsOn(rows, c, MaxRows) = on /\ MaxRows \in Nat
      /\ \A j \in 1..l : rows[j].seq \in Nat /\ rows[j].seq <= MaxRows
  BY <1>3, AllRows
<1>9. i \notin on /\ \A j \in on : rows[j].seq < rows[i].seq
  <2>1. i \notin on
    BY <1>4 DEF Replayable
  <2>2. ~Late(i)
    BY <1>3, <1>4 DEF CommitApprove, InOrder
  <2>3. \A j \in on : ~(rows[j].seq > rows[i].seq)
    BY <1>4, <2>2 DEF Late
  <2>4. \A j \in on : rows[j].seq # rows[i].seq
    BY <1>3, <1>4, <1>6, <2>1 DEF Told, RowsOrdered
  <2> QED BY <1>6, <1>8, <2>1, <2>3, <2>4
<1>10. \A j \in 1..l :
         /\ rows'[j].cell = rows[j].cell /\ rows'[j].seq = rows[j].seq
         /\ rows'[j].val = rows[j].val /\ rows'[j].inverseOf = rows[j].inverseOf
         /\ j # i => rows'[j].prev = rows[j].prev /\ (Replayable(rows'[j]) <=> Replayable(rows[j]))
         /\ rows'[i].prev = req[h].prev /\ Replayable(rows'[i])
  BY <1>5, <1>6 DEF Rewritten, Replayable
<1>11. \A j \in 1..l : rows'[j].cell = c /\ Replayable(rows'[j]) <=> j \in on \cup {i}
  BY <1>4, <1>9, <1>10
<1>12. \A n : RowsOn(rows', c, n) = {j \in on \cup {i} : rows[j].seq <= n}
  BY <1>5, <1>6, <1>10, <1>11 DEF RowsOn
<1>13. \A n : RowsOn(rows, c, n) = {j \in on : rows[j].seq <= n}
  BY DEF RowsOn
<1>14. on \subseteq 1..l
  OBVIOUS
<1> HIDE DEF i, l, on
<1>15. Shows(rows', c, MaxRows, current[c])
  <2>1. RowsOn(rows', c, MaxRows) = on \cup {i}
    BY <1>6, <1>8, <1>12, <1>14
  <2>2. \A j \in RowsOn(rows', c, MaxRows) \ {i} : rows'[j].seq < rows'[i].seq
    BY <1>6, <1>9, <1>10, <1>14, <2>1
  <2>3. Shows(rows', c, MaxRows, rows'[i].val)
    BY <2>1, <2>2, ShowsLast
  <2> QED BY <1>6, <1>7, <1>10, <2>3 DEF i
<1>16. RowsOrdered(c)'
  BY <1>3, <1>5, <1>10 DEF Told, RowsOrdered, l
<1>17. ASSUME NEW k \in 1..l, rows'[k].cell = c, Replayable(rows'[k])
       PROVE  Shows(rows', c, rows'[k].seq - 1, rows'[k].prev)
  <2> DEFINE n == rows[k].seq - 1
  <2>1. CASE k = i
    <3>1. RowsOn(rows', c, n) = on
      <4>1. \A j \in on : rows[j].seq <= n
        BY <1>6, <1>8, <1>9, <1>14, <2>1
      <4>2. ~(rows[i].seq <= n)
        BY <1>6, <1>8, <2>1
      <4> HIDE DEF n
      <4> QED BY <1>12, <4>1, <4>2
    <3>2. \A j \in on : rows'[j].seq = rows[j].seq /\ rows'[j].val = rows[j].val
      BY <1>10, <1>14
    <3> HIDE DEF n
    <3>3. Shows(rows', c, n, req[h].prev)
      BY <1>7, <1>8, <3>1, <3>2, ShowsFrame
    <3> QED BY <1>6, <1>10, <2>1, <3>3 DEF n
  <2>2. CASE k # i
    <3>1. k \in on
      BY <1>11, <1>17, <2>2
    <3>2. ~(rows[i].seq <= n)
      BY <1>6, <1>8, <1>9, <1>14, <3>1
    <3>3. Shows(rows, c, n, rows[k].prev)
      BY <1>3, <3>1 DEF Told, RowsPast, on, l
    <3> HIDE DEF n
    <3>4. RowsOn(rows', c, n) = RowsOn(rows, c, n)
      BY <1>12, <1>13, <3>2
    <3>5. \A j \in RowsOn(rows, c, n) : rows'[j].seq = rows[j].seq /\ rows'[j].val = rows[j].val
      BY <1>10, <1>13, <1>14
    <3>6. Shows(rows', c, n, rows[k].prev)
      BY <3>3, <3>4, <3>5, ShowsFrame
    <3> QED BY <1>10, <2>2, <3>6 DEF n
  <2> QED BY <2>1, <2>2
<1>18. ASSUME NEW j \in 1..l, rows'[j].cell = c, rows'[j].inverseOf # NoRow
       PROVE  /\ rows'[j].inverseOf \in 1..l /\ rows'[rows'[j].inverseOf].cell = c
              /\ Replayable(rows'[rows'[j].inverseOf])
              /\ rows'[j].val = rows'[rows'[j].inverseOf].prev
  <2>1. PICK m : m = rows[j].inverseOf
    OBVIOUS
  <2>2. m \in 1..l /\ rows[m].cell = c /\ Replayable(rows[m]) /\ rows[j].val = rows[m].prev
    BY <1>3, <1>10, <1>18, <2>1 DEF Told, RowsPast, l
  <2>3. m # i
    BY <1>9, <2>2 DEF on, l
  <2> QED BY <1>10, <2>1, <2>2, <2>3
<1>19. RowsPast(c)'
  BY <1>5, <1>17, <1>18 DEF RowsPast
<1> QED BY <1>15, <1>16, <1>19, WriterTells

LEMMA DecideTells ==
  ASSUME Serves, Tells, NEW h \in Handlers,
         CommitApprove(h) \/ CommitReject(h) \/ CommitUndo(h)
  PROVE  Tells'
<1>1. Bounded'
  BY AnswerBasics
<1>2. \A c \in InOrder' : Told(c)'
  BY AnswerElsewhere, ApproveTells, RejectTells, UndoTells
<1> QED BY <1>1, <1>2 DEF Tells

LEMMA InitTells ==
  ASSUME Init
  PROVE  Tells
<1>1. Len(rows) = 0 /\ Len(run.txn) = 0
  BY EmptySeq DEF Init, NoRun
<1>2. /\ \A c \in Cells : current[c] = 0 /\ FileAt(path)[c] = 0
      /\ \A h \in Handlers : req[h].pc = "idle"
      /\ run.pc = "off" /\ MaxRows \in Nat
  BY SessionLedgerAssumption DEF Init, NoRun, Original, NoRequest, FileAt
<1>3. Bounded
  BY <1>1, <1>2 DEF Bounded
<1>4. ASSUME NEW c \in InOrder
      PROVE  Told(c)
  <2>1. c \in Cells /\ \A h \in Handlers : ~Acting(h, c) /\ ~Busy(h)
    BY <1>2 DEF InOrder, Acting, Busy
  <2>2. Shows(rows, c, MaxRows, 0)
    BY <1>1 DEF Shows, RowsOn
  <2>3. Present(c) /\ Apart(c)
    BY <1>1, <1>2, <2>1, <2>2 DEF Present, Apart
  <2>4. RowsOrdered(c) /\ Numbers(c) /\ RowsPast(c) /\ PutsBack(c)
    BY <1>1, <1>2, <2>1 DEF RowsOrdered, Numbers, RowsPast, PutsBack
  <2> QED BY <2>3, <2>4 DEF Told
<1> QED BY <1>3, <1>4 DEF Tells

LEMMA NextTells ==
  ASSUME Serves, Keeps, Tells, [Next]_vars
  PROVE  Tells'
<1>1. CASE Run
  BY <1>1, RunStartTells, RunWriteTells, RunCommitTells, RunSaveTells, RunFinishTells,
     RunFailTells DEF Run
<1>2. CASE \E h \in Handlers : Serve(h)
  <2>1. PICK h \in Handlers : Serve(h)
    BY <1>2
  <2>2. CASE \E op \in Ops, i \in 1..MaxRows : Open(h, op, i)
    BY <2>2, OpenTells
  <2>3. CASE Read(h) \/ Act(h) \/ Number(h)
    BY <2>3, ReadTells, ActTells, NumberTells
  <2>4. CASE CommitApprove(h) \/ CommitReject(h) \/ CommitUndo(h)
    BY <2>4, DecideTells
  <2> QED BY <2>1, <2>2, <2>3, <2>4 DEF Serve
<1>3. CASE Crash
  BY <1>3, CrashTells
<1>4. CASE UNCHANGED vars
  <2>1. UNCHANGED <<rows, current, path, run, req, late, contested, crossed, lost>>
    BY <1>4 DEF vars, counters, excused
  <2>2. Bounded' /\ InOrder' = InOrder
    BY <2>1 DEF Tells, Bounded, InOrder
  <2>3. ASSUME NEW c \in InOrder
        PROVE  Told(c)'
    <3>1. Told(c)
      BY <2>3 DEF Tells
    <3>2. RowsOrdered(c)' /\ RowsPast(c)'
      BY <2>1, <3>1 DEF Told, RowsOrdered, RowsPast
    <3>3. Numbers(c)' /\ PutsBack(c)'
      BY <2>1, <3>1 DEF Told, Numbers, PutsBack, CellOf, Busy
    <3>4. \A h \in Handlers : (Acting(h, c)' <=> Acting(h, c)) /\ Written(h)' = Written(h)
      BY <2>1 DEF Acting, CellOf, Written
    <3>5. \A k \in 1..Len(run.txn) : Applied(k, c)' <=> Applied(k, c)
      BY <2>1 DEF Applied
    <3>6. FileAt(path)' = FileAt(path)
      BY <2>1 DEF FileAt
    <3>7. Present(c)'
      BY <2>1, <3>1, <3>4, <3>5, <3>6 DEF Told, Present
    <3>8. Apart(c)'
      BY <2>1, <3>1, <3>4 DEF Told, Apart
    <3> QED BY <3>2, <3>3, <3>7, <3>8 DEF Told
  <2> QED BY <2>2, <2>3 DEF Tells
<1> QED BY <1>1, <1>2, <1>3, <1>4 DEF Next

LEMMA TellsHolds == Spec => [](Serves /\ Keeps /\ Tells)
<1>1. Init => Serves /\ Keeps /\ Tells
  BY InitServes, InitKeeps, InitTells
<1>2. Serves /\ Keeps /\ Tells /\ [Next]_vars => (Serves /\ Keeps /\ Tells)'
  BY NextServes, NextKeeps, NextTells
<1> QED BY <1>1, <1>2, PTL DEF Spec

\* Replaying the ledger gives the file whenever nobody is at work, in every cell
\* that no late approval, race or lost write excuses, whatever requests came
\* during the runs (replay.py): for every number of handlers, cells, rows and
\* crashes.
THEOREM LedgerTellsTheFile == Spec => []OnTimeReplayMatchesLive
<1>1. Serves /\ Tells => OnTimeReplayMatchesLive
  <2> SUFFICES ASSUME Serves, Tells, Quiet, NEW c \in InOrder
               PROVE  ReplayOf(rows, c, MaxRows) = {FileAt(path)[c]}
    BY DEF OnTimeReplayMatchesLive
  <2>1. run.pc = "off" /\ \A h \in Handlers : ~Acting(h, c)
    BY DEF Quiet, Serving, Acting
  <2>2. Shows(rows, c, MaxRows, FileAt(path)[c]) /\ c \in Cells
    BY <2>1 DEF Tells, Told, Present, InOrder
  <2>3. Len(rows) \in Nat /\ \A i \in 1..Len(rows) : rows[i].seq \in Nat
    BY RowFields DEF Serves
  <2> QED BY <2>2, <2>3, ShowsIs
<1> QED BY <1>1, TellsHolds, PTL

\* An undo of a write to such a cell puts back what replay shows the cell held
\* just before the undone row (undo.py, _build_inverse), also for a write that
\* is not the last and for an undo of an undo.
THEOREM UndoGoesBack == Spec => []UndoRestoresThePast
<1>1. Serves /\ Tells => UndoRestoresThePast
  <2> SUFFICES ASSUME Serves, Tells, NEW j \in 1..Len(rows), NEW i, i = rows[j].inverseOf,
                      NEW c, c = rows[j].cell, i # NoRow, c \in InOrder
               PROVE  ReplayOf(rows, c, rows[i].seq - 1) = {rows[j].val}
    BY DEF UndoRestoresThePast
  <2>1. /\ c \in Cells
        /\ Len(rows) \in Nat /\ \A k \in 1..Len(rows) : rows[k].seq \in Nat
    BY RowFields DEF Serves, InOrder
  <2>2. RowsPast(c)
    BY DEF Tells, Told
  <2>3. /\ i \in 1..Len(rows) /\ rows[i].cell = c /\ Replayable(rows[i])
        /\ rows[j].val = rows[i].prev
    BY <2>2 DEF RowsPast
  <2>4. Shows(rows, c, rows[i].seq - 1, rows[i].prev)
    BY <2>2, <2>3 DEF RowsPast
  <2> QED BY <2>1, <2>3, <2>4, ShowsIs
<1> QED BY <1>1, TellsHolds, PTL

-----------------------------------------------------------------------------
(* A fork of the ledger.                                                     *)

\* Inverses and what they undo: one cell, and where requests kept apart, one
\* inverse of a row that says so.
LinkOf(j, i) ==
  /\ i \in 1..Len(rows) /\ rows[i].cell = rows[j].cell
  /\ rows[j].cell \notin contested =>
       /\ rows[i].status = "UNDONE"
       /\ \A k \in (1..Len(rows)) \ {j} : rows[k].inverseOf # i
Links == \A j \in 1..Len(rows) :
           rows[j].inverseOf # NoRow => LinkOf(j, rows[j].inverseOf)

ForkTypes ==
  /\ fork \in [pc : {"off", "replayed", "done"}, at : 0..MaxRows, moved : SUBSET Cells]
  /\ child \in [rows : Seq(Row), file : Book]

\* Until the rows are copied, the child's workbook is one that replay may give at
\* the fork, in the cells whose rows are as they were.
ReadsHold ==
  fork.pc = "replayed" =>
    \A c \in Cells \ fork.moved : child.file[c] \in ReplayOf(rows, c, fork.at)

Forks == Serves /\ Links /\ ForkTypes /\ ReadsHold /\ ChildMatchesItsLedger /\ ChildLinksHold

\* A step of the parent keeps what replay orders its rows by, and adds a row at
\* most: an inverse of a row that is undone by the same step, or none.
LEMMA ParentRows ==
  ASSUME Serves, [Next]_vars
  PROVE  /\ contested \subseteq contested'
         /\ rows' \in Seq(Row) /\ Len(rows') \in {Len(rows), Len(rows) + 1}
         /\ \A j \in 1..Len(rows) :
              /\ rows'[j].cell = rows[j].cell /\ rows'[j].seq = rows[j].seq
              /\ rows'[j].val = rows[j].val /\ rows'[j].inverseOf = rows[j].inverseOf
         /\ Len(rows') = Len(rows) + 1 =>
              LET x == rows'[Len(rows) + 1]
              IN  \/ x.inverseOf = NoRow
                  \/ /\ x.inverseOf \in 1..Len(rows) /\ rows[x.inverseOf].cell = x.cell
                     /\ rows'[x.inverseOf].status = "UNDONE"
                     /\ rows[x.inverseOf].status = "APPLIED" \/ x.cell \in contested
<1> DEFINE Goal ==
         /\ contested \subseteq contested'
         /\ rows' \in Seq(Row) /\ Len(rows') \in {Len(rows), Len(rows) + 1}
         /\ \A j \in 1..Len(rows) :
              /\ rows'[j].cell = rows[j].cell /\ rows'[j].seq = rows[j].seq
              /\ rows'[j].val = rows[j].val /\ rows'[j].inverseOf = rows[j].inverseOf
         /\ Len(rows') = Len(rows) + 1 =>
              LET x == rows'[Len(rows) + 1]
              IN  \/ x.inverseOf = NoRow
                  \/ /\ x.inverseOf \in 1..Len(rows) /\ rows[x.inverseOf].cell = x.cell
                     /\ rows'[x.inverseOf].status = "UNDONE"
                     /\ rows[x.inverseOf].status = "APPLIED" \/ x.cell \in contested
<1>0. Types /\ Len(rows) \in Nat /\ rows \in Seq(Row)
  BY RowFields DEF Serves, Types
<1>1. ASSUME NEW h \in Handlers, CommitApprove(h)  PROVE Goal
  <2>1. Rewritten(req[h].id, "APPLIED", req[h].prev) /\ Len(rows') = Len(rows)
    BY <1>0, <1>1, ApproveRewrites
  <2>2. contested' = contested
    BY <1>1 DEF CommitApprove
  <2> QED BY <1>0, <2>1, <2>2 DEF Rewritten
<1>2. ASSUME NEW h \in Handlers, CommitReject(h)  PROVE Goal
  <2>1. /\ Rewritten(req[h].id, "REJECTED", rows[req[h].id].prev) /\ Len(rows') = Len(rows)
    BY <1>0, <1>2, RejectRewrites
  <2>2. contested' = contested
    BY <1>2 DEF CommitReject, excused
  <2> QED BY <1>0, <2>1, <2>2 DEF Rewritten
<1>3. ASSUME NEW h \in Handlers, CommitUndo(h)  PROVE Goal
  <2>1. /\ Rewritten(req[h].id, "UNDONE", rows[req[h].id].prev)
        /\ Len(rows') = Len(rows) + 1 /\ rows'[Len(rows) + 1] = Reversal(h)
    BY <1>0, <1>3, UndoRewrites
  <2>2. contested' = contested
    BY <1>3 DEF CommitUndo, excused
  <2>3. Busy(h) /\ req[h].op = "undo" /\ req[h].id \in 1..Len(rows)
    BY <1>0, <1>3, RequestFields DEF CommitUndo, Busy, Serves, Trusted
  <2>4. rows[req[h].id].status = "APPLIED" \/ rows[req[h].id].cell \in contested
    BY <2>3 DEF Serves, Trusted, Allowed, CellOf
  <2>5. Reversal(h).inverseOf = req[h].id /\ Reversal(h).cell = rows[req[h].id].cell
    BY DEF Reversal
  <2>6. rows'[req[h].id].status = "UNDONE"
    BY <2>1, <2>3 DEF Rewritten
  <2> QED BY <1>0, <2>1, <2>2, <2>3, <2>4, <2>5, <2>6 DEF Rewritten
<1>4. ASSUME RunCommit \/ RunFail  PROVE Goal
  <2>1. rows' = rows \o run.txn /\ contested' = contested
    BY <1>4 DEF RunCommit, RunFail, excused
  <2>2. /\ Rewritten(NoRow, "APPLIED", 0) /\ Len(rows') = Len(rows) + Len(run.txn)
        /\ Len(run.txn) = 1 => rows'[Len(rows) + 1] = run.txn[1]
    BY <1>0, <2>1, TxnRewrites
  <2>3. Len(run.txn) \in {0, 1}
    BY <1>0, RunFields
  <2>4. Len(rows') = Len(rows) + 1 => rows'[Len(rows) + 1].inverseOf = NoRow
    BY <1>0, <2>2, <2>3 DEF Serves, Kinds
  <2> QED BY <1>0, <2>1, <2>2, <2>4 DEF Rewritten
<1>5. ASSUME \/ RunStart \/ (\E c \in Cells : RunWrite(c)) \/ RunSave \/ RunFinish \/ Crash
             \/ \E h \in Handlers : \/ \E op \in Ops, k \in 1..MaxRows : Open(h, op, k)
                                    \/ Read(h) \/ Act(h) \/ Number(h)
             \/ UNCHANGED vars
      PROVE  Goal
  <2>1. rows' = rows
    BY <1>5 DEF RunStart, RunWrite, RunSave, RunFinish, Crash, Open, Read, Act, Number, vars
  <2>2. contested \subseteq contested'
    BY <1>5 DEF RunStart, RunWrite, RunSave, RunFinish, Crash, Open, Read, Act, Number, vars,
                excused
  <2> QED BY <1>0, <2>1, <2>2
<1> HIDE DEF Goal
<1>6. Goal
  BY <1>1, <1>2, <1>3, <1>4, <1>5 DEF Next, Run, Serve
<1> QED BY <1>6 DEF Goal

LEMMA LinksStep ==
  ASSUME Serves, Links, [Next]_vars
  PROVE  Links'
<1> DEFINE l == Len(rows)
<1>1. /\ contested \subseteq contested'
      /\ Len(rows') \in {l, l + 1} /\ l \in Nat
      /\ \A j \in 1..l : rows'[j].cell = rows[j].cell /\ rows'[j].inverseOf = rows[j].inverseOf
  BY ParentRows, RowFields DEF Serves
<1>2. \A i \in 1..l : \/ rows'[i].status = rows[i].status
                      \/ <<rows[i].status, rows'[i].status>> \in Lifecycle
                      \/ rows[i].cell \in contested
  BY DecideStep
<1>3. \A i \in 1..l : rows[i].status = "UNDONE" /\ rows[i].cell \notin contested =>
        rows'[i].status = "UNDONE"
  BY <1>2 DEF Lifecycle
<1>4. Len(rows') = l + 1 =>
        LET x == rows'[l + 1]
        IN  \/ x.inverseOf = NoRow
            \/ /\ x.inverseOf \in 1..l /\ rows[x.inverseOf].cell = x.cell
               /\ rows'[x.inverseOf].status = "UNDONE"
               /\ rows[x.inverseOf].status = "APPLIED" \/ x.cell \in contested
  BY ParentRows
<1>5. NoRow \notin 1..l
  BY <1>1 DEF NoRow
<1>6. \A j \in 1..Len(rows') : j \in 1..l \/ (j = l + 1 /\ Len(rows') = l + 1)
  BY <1>1
<1>7. 1..l \subseteq 1..Len(rows')
  BY <1>1
<1> SUFFICES ASSUME NEW j \in 1..Len(rows'), rows'[j].inverseOf # NoRow
             PROVE  LET i == rows'[j].inverseOf
                    IN  /\ i \in 1..Len(rows') /\ rows'[i].cell = rows'[j].cell
                        /\ rows'[j].cell \notin contested' =>
                             /\ rows'[i].status = "UNDONE"
                             /\ \A k \in (1..Len(rows')) \ {j} : rows'[k].inverseOf # i
  BY DEF Links, LinkOf
<1> DEFINE i == rows'[j].inverseOf
<1>8. CASE j \in 1..l
  <2>1. i = rows[j].inverseOf /\ LinkOf(j, i)
    BY <1>1, <1>8 DEF Links
  <2>2. i \in 1..Len(rows') /\ rows'[i].cell = rows'[j].cell
    BY <1>1, <1>7, <1>8, <2>1 DEF LinkOf
  <2>3. ASSUME rows'[j].cell \notin contested'
        PROVE  /\ rows'[i].status = "UNDONE"
               /\ \A k \in (1..Len(rows')) \ {j} : rows'[k].inverseOf # i
    <3>1. rows[j].cell \notin contested /\ i \in 1..l /\ rows[i].cell = rows[j].cell
      BY <1>1, <1>8, <2>1, <2>3 DEF LinkOf
    <3>2. rows[i].status = "UNDONE"
      BY <2>1, <3>1 DEF LinkOf
    <3>3. rows'[i].status = "UNDONE"
      BY <1>3, <3>1, <3>2
    <3>4. \A k \in (1..l) \ {j} : rows'[k].inverseOf # i
      BY <1>1, <2>1, <3>1 DEF LinkOf
    <3>5. Len(rows') = l + 1 => rows'[l + 1].inverseOf # i
      <4> SUFFICES ASSUME Len(rows') = l + 1, rows'[l + 1].inverseOf = i  PROVE FALSE
        OBVIOUS
      <4>1. rows[i].cell = rows'[l + 1].cell /\ (rows[i].status = "APPLIED" \/ rows'[l + 1].cell \in contested)
        BY <1>4, <1>5, <3>1
      <4> QED BY <3>1, <3>2, <4>1
    <3> QED BY <1>6, <3>3, <3>4, <3>5
  <2> QED BY <2>2, <2>3
<1>9. CASE j = l + 1 /\ Len(rows') = l + 1
  <2>1. /\ i \in 1..l /\ rows[i].cell = rows'[j].cell /\ rows'[i].status = "UNDONE"
        /\ rows[i].status = "APPLIED" \/ rows'[j].cell \in contested
    BY <1>4, <1>9
  <2>2. i \in 1..Len(rows') /\ rows'[i].cell = rows'[j].cell
    BY <1>1, <1>7, <2>1
  <2>3. ASSUME rows'[j].cell \notin contested'
        PROVE  \A k \in (1..Len(rows')) \ {j} : rows'[k].inverseOf # i
    <3>1. rows[i].status = "APPLIED" /\ rows[i].cell \notin contested
      BY <1>1, <2>1, <2>3
    <3>2. \A k \in 1..l : rows[k].inverseOf # i
      <4> SUFFICES ASSUME NEW k \in 1..l, rows[k].inverseOf = i  PROVE FALSE
        OBVIOUS
      <4>1. LinkOf(k, i)
        BY <1>5, <2>1 DEF Links
      <4> QED BY <3>1, <4>1 DEF LinkOf
    <3> QED BY <1>1, <1>6, <1>9, <3>2
  <2> QED BY <2>1, <2>2, <2>3
<1> QED BY <1>6, <1>8, <1>9

\* Replay of a cell is as before when none of its rows is new or changed.
LEMMA ReplayKept ==
  ASSUME Serves, [Next]_vars, NEW c \in Cells, NEW n, c \notin Decided
  PROVE  ReplayOf(rows', c, n) = ReplayOf(rows, c, n)
<1>1. /\ rows' \in Seq(Row) /\ Len(rows') \in {Len(rows), Len(rows) + 1} /\ Len(rows) \in Nat
      /\ \A j \in 1..Len(rows) : rows'[j].cell = rows[j].cell
  BY ParentRows, RowFields DEF Serves
<1>2. DOMAIN rows' = 1..Len(rows')
  BY <1>1, LenProperties
<1>3. \A j \in 1..Len(rows') : rows'[j].cell = c => j \in 1..Len(rows) /\ rows'[j] = rows[j]
  <2> TAKE j \in 1..Len(rows')
  <2> HAVE rows'[j].cell = c
  <2>1. ~(j > Len(rows) \/ rows'[j] # rows[j])
    BY <1>2 DEF Decided
  <2> QED BY <1>1, <2>1
<1>4. \A j \in 1..Len(rows) : rows[j].cell = c => j \in 1..Len(rows') /\ rows'[j] = rows[j]
  BY <1>1, <1>3
<1>5. RowsOn(rows', c, n) = RowsOn(rows, c, n)
  BY <1>3, <1>4 DEF RowsOn
<1>6. \A j \in RowsOn(rows, c, n) : rows'[j] = rows[j]
  BY <1>4 DEF RowsOn
<1> DEFINE on == RowsOn(rows, c, n)
<1>7. /\ ReplayOf(rows', c, n) = IF on = {} THEN {0} ELSE {rows'[i].val : i \in Latest(rows', on)}
      /\ ReplayOf(rows, c, n) = IF on = {} THEN {0} ELSE {rows[i].val : i \in Latest(rows, on)}
  BY <1>5 DEF ReplayOf, Original
<1> HIDE DEF on
<1>8. Latest(rows', on) = Latest(rows, on) /\ Latest(rows, on) \subseteq on
  BY <1>6 DEF Latest, on
<1>9. {rows'[i].val : i \in Latest(rows', on)} = {rows[i].val : i \in Latest(rows, on)}
  BY <1>6, <1>8 DEF on
<1> QED BY <1>7, <1>9

-----------------------------------------------------------------------------
\* An order numbers the copied rows from 1 up, by their sequence; a copy is its row
\* at a new place, and its link, if it has one, an earlier copy of what it undoes.
LEMMA CopyFields ==
  ASSUME Serves, NEW order \in Orders(Copied)
  PROVE  LET n == Cardinality(Copied)
         IN  /\ n \in Nat /\ Copied \subseteq 1..Len(rows) /\ DOMAIN order = 1..n
             /\ \A i \in Copied : \E k \in 1..n : order[k] = i
             /\ \A k, l \in 1..n : k < l =>
                  order[k] # order[l] /\ rows[order[k]].seq <= rows[order[l]].seq
             /\ \A k \in 1..n :
                  /\ order[k] \in Copied /\ Copy(order, k) \in Row
                  /\ Copy(order, k).seq = k /\ Copy(order, k).cell = rows[order[k]].cell
                  /\ Copy(order, k).val = rows[order[k]].val
                  /\ Copy(order, k).status = rows[order[k]].status
                  /\ Copy(order, k).inverseOf # NoRow =>
                       /\ Copy(order, k).inverseOf \in 1..(k - 1)
                       /\ order[Copy(order, k).inverseOf] = rows[order[k]].inverseOf
<1> DEFINE n == Cardinality(Copied)
<1>1. Len(rows) \in Nat /\ Copied \subseteq 1..Len(rows)
  BY RowFields DEF Serves, Copied
<1>2. n \in Nat
  <2>1. IsFiniteSet(1..Len(rows))
    BY <1>1, FS_Interval
  <2> QED BY <1>1, <2>1, FS_Subset, FS_CardinalityType
<1>3. /\ order \in [1..n -> Copied]
      /\ \A i \in Copied : \E k \in DOMAIN order : order[k] = i
      /\ \A k, l \in DOMAIN order :
           k < l => order[k] # order[l] /\ rows[order[k]].seq <= rows[order[l]].seq
  BY DEF Orders
<1>4. \A i \in Copied : rows[i] \in Row
  BY <1>1, RowFields DEF Serves
<1> HIDE DEF n
<1>5. DOMAIN order = 1..n /\ \A k \in 1..n : order[k] \in Copied
  BY <1>3
<1>6. ASSUME NEW k \in 1..n
      PROVE  /\ Copy(order, k) \in Row
             /\ Copy(order, k).seq = k /\ Copy(order, k).cell = rows[order[k]].cell
             /\ Copy(order, k).val = rows[order[k]].val
             /\ Copy(order, k).status = rows[order[k]].status
             /\ Copy(order, k).inverseOf # NoRow =>
                  /\ Copy(order, k).inverseOf \in 1..(k - 1)
                  /\ order[Copy(order, k).inverseOf] = rows[order[k]].inverseOf
  <2> DEFINE copies == {l \in 1..(k - 1) : order[l] = rows[order[k]].inverseOf}
             link == IF copies = {} THEN NoRow ELSE CHOOSE l \in copies : TRUE
             row  == rows[order[k]]
  <2>1. row \in Row /\ k \in Nat
    BY <1>2, <1>4, <1>5
  <2>2. Copy(order, k) = [row EXCEPT !.seq = k, !.inverseOf = link]
    BY DEF Copy
  <2>3. copies # {} => link \in copies
    OBVIOUS
  <2>4. link \in Nat /\ (link # NoRow => link \in copies)
    BY <2>1, <2>3 DEF NoRow
  <2> HIDE DEF link, row
  <2>5. /\ Copy(order, k) \in Row /\ Copy(order, k).seq = k
        /\ Copy(order, k).cell = row.cell /\ Copy(order, k).val = row.val
        /\ Copy(order, k).status = row.status /\ Copy(order, k).inverseOf = link
    BY <2>1, <2>2, <2>4 DEF Row
  <2> QED BY <2>4, <2>5 DEF row
<1> QED BY <1>1, <1>2, <1>3, <1>5, <1>6 DEF n

\* The child's rows are the copies, in one of the orders.
LEMMA ChildRowsAre ==
  ASSUME Serves, ForkTypes, ForkCopy
  PROVE  /\ child'.file = child.file /\ child' \in [rows : Seq(Row), file : Book]
         /\ \E order \in Orders(Copied) :
              /\ Len(child'.rows) = Cardinality(Copied)
              /\ \A k \in 1..Cardinality(Copied) : child'.rows[k] = Copy(order, k)
<1>1. PICK order \in Orders(Copied) :
        child' = [child EXCEPT !.rows = [k \in DOMAIN order |-> Copy(order, k)]]
  BY DEF ForkCopy
<1> DEFINE n == Cardinality(Copied)
           copies == [k \in 1..n |-> Copy(order, k)]
<1>2. n \in Nat /\ DOMAIN order = 1..n /\ \A k \in 1..n : Copy(order, k) \in Row
  BY CopyFields
<1>3. child' = [child EXCEPT !.rows = copies]
  BY <1>1, <1>2
<1> HIDE DEF n
<1>4. copies \in [1..n -> Row] /\ \A k \in 1..n : copies[k] = Copy(order, k)
  BY <1>2
<1> HIDE DEF copies
<1>5. copies \in Seq(Row) /\ Len(copies) = n
  BY <1>2, <1>4, IsASeq, LenProperties
<1>6. child'.rows = copies /\ child'.file = child.file /\ child' \in [rows : Seq(Row), file : Book]
  BY <1>3, <1>5 DEF ForkTypes
<1> QED BY <1>4, <1>5, <1>6 DEF n

\* The workbook saved after the first read is what the copied rows replay to.
LEMMA CopyMatches ==
  ASSUME Serves, ForkTypes, ReadsHold, ForkCopy
  PROVE  ChildMatchesItsLedger'
<1> DEFINE rs == child'.rows
           n == Len(rs)
<1>1. /\ fork.pc = "replayed" /\ fork'.moved = fork.moved /\ fork'.at = fork.at
      /\ rows' = rows /\ child'.file = child.file
  BY ChildRowsAre DEF ForkTypes, ForkCopy, vars
<1>2. PICK order \in Orders(Copied) :
        /\ n = Cardinality(Copied)
        /\ \A k \in 1..Cardinality(Copied) : rs[k] = Copy(order, k)
  BY ChildRowsAre
<1> HIDE DEF rs, n
<1>3. /\ n \in Nat /\ Copied \subseteq 1..Len(rows)
      /\ \A i \in Copied : \E k \in 1..n : order[k] = i
      /\ \A k, l \in 1..n : k < l =>
           order[k] # order[l] /\ rows[order[k]].seq <= rows[order[l]].seq
      /\ \A k \in 1..n : /\ order[k] \in Copied
                         /\ rs[k].seq = k /\ rs[k].cell = rows[order[k]].cell
                         /\ rs[k].val = rows[order[k]].val
                         /\ rs[k].status = rows[order[k]].status
  BY <1>2, CopyFields
<1> SUFFICES ASSUME NEW c \in Cells \ fork.moved,
                    \A i, j \in Latest(rows, RowsOn(rows, c, fork.at)) : i = j
             PROVE  ReplayOf(rs, c, n) = {child.file[c]}
  BY <1>1 DEF ChildMatchesItsLedger, Tied, rs, n
<1> DEFINE on == RowsOn(rows, c, fork.at)
           v  == child.file[c]
<1>4. v \in IF on = {} THEN {0} ELSE {rows[i].val : i \in Latest(rows, on)}
  BY <1>1 DEF ReadsHold, ReplayOf, Original
<1>5. \A k \in 1..n : k \in RowsOn(rs, c, n) <=> order[k] \in on
  <2> TAKE k \in 1..n
  <2>1. k \in RowsOn(rs, c, n) <=> rs[k].cell = c /\ Replayable(rs[k])
    BY <1>3 DEF RowsOn, n
  <2>2. order[k] \in on <=> rows[order[k]].cell = c /\ Replayable(rows[order[k]])
    BY <1>3 DEF RowsOn, Copied
  <2> QED BY <1>3, <2>1, <2>2 DEF Replayable
<1>6. on \subseteq Copied /\ RowsOn(rs, c, n) \subseteq 1..n
  BY DEF RowsOn, Copied, n
<1>7. \A i \in Copied : rows[i].seq \in Nat
  BY <1>3, RowFields DEF Serves
<1> HIDE DEF on, v
<1>8. CASE on = {}
  <2>1. v = 0 /\ RowsOn(rs, c, n) = {}
    BY <1>3, <1>4, <1>5, <1>6, <1>8
  <2>2. Shows(rs, c, n, v)
    BY <2>1 DEF Shows
  <2> QED BY <1>3, <2>2, ShowsIs DEF n, v
<1>9. CASE on # {}
  <2>1. PICK i \in Latest(rows, on) : v = rows[i].val
    BY <1>4, <1>9
  <2>2. i \in on /\ i \in Copied /\ \A j \in on : rows[j].seq <= rows[i].seq
    BY <1>6 DEF Latest
  <2>3. \A j \in on \ {i} : rows[j].seq < rows[i].seq
    <3> SUFFICES ASSUME NEW j \in on \ {i}, ~(rows[j].seq < rows[i].seq)  PROVE FALSE
      OBVIOUS
    <3>1. rows[j].seq = rows[i].seq
      BY <1>6, <1>7, <2>2
    <3>2. j \in Latest(rows, on)
      BY <2>2, <3>1 DEF Latest
    <3> QED BY <3>2 DEF on
  <2>4. PICK k \in 1..n : order[k] = i
    BY <1>3, <2>2
  <2>5. k \in RowsOn(rs, c, n) /\ rs[k].val = v
    BY <1>3, <1>5, <2>1, <2>2, <2>4
  <2>6. \A l \in RowsOn(rs, c, n) \ {k} : rs[l].seq < rs[k].seq
    <3> TAKE l \in RowsOn(rs, c, n) \ {k}
    <3>1. l \in 1..n /\ l # k /\ order[l] \in on /\ order[l] \in Copied
      BY <1>3, <1>5, <1>6
    <3>2. order[l] # i
      BY <1>3, <2>4, <3>1
    <3>3. rows[order[l]].seq < rows[i].seq
      BY <2>3, <3>1, <3>2
    <3>4. ~(rows[i].seq <= rows[order[l]].seq)
      BY <1>7, <2>2, <3>1, <3>3
    <3>5. ~(k < l)
      BY <1>3, <2>4, <3>1, <3>4
    <3> QED BY <1>3, <3>1, <3>5
  <2>7. Shows(rs, c, n, v)
    BY <2>5, <2>6, ShowsLast
  <2> QED BY <1>3, <2>7, ShowsIs DEF n, v
<1> QED BY <1>8, <1>9

\* A copied link points at the copy of its row, and says what the parent's said.
LEMMA CopyLinks ==
  ASSUME Serves, Links, ForkTypes, ForkCopy
  PROVE  ChildLinksHold'
<1> DEFINE rs == child'.rows
           n == Len(rs)
<1>1. contested' = contested /\ rs \in Seq(Row)
  BY ChildRowsAre DEF ForkCopy, vars, excused
<1>2. PICK order \in Orders(Copied) :
        /\ n = Cardinality(Copied)
        /\ \A k \in 1..Cardinality(Copied) : rs[k] = Copy(order, k)
  BY ChildRowsAre
<1>3. DOMAIN rs = 1..n
  BY <1>1, LenProperties
<1> HIDE DEF rs, n
<1>4. /\ n \in Nat /\ Copied \subseteq 1..Len(rows)
      /\ \A k, l \in 1..n : k < l => order[k] # order[l]
      /\ \A k \in 1..n : /\ order[k] \in Copied
                         /\ rs[k].cell = rows[order[k]].cell
                         /\ rs[k].status = rows[order[k]].status
  BY <1>2, CopyFields
<1>5. \A j \in 1..n : rs[j].inverseOf # NoRow =>
        /\ rs[j].inverseOf \in 1..(j - 1)
        /\ order[rs[j].inverseOf] = rows[order[j]].inverseOf
  BY <1>2, CopyFields
<1>6. \A i \in 1..n : order[i] # NoRow
  BY <1>4 DEF NoRow
<1>7. \A j \in 1..n : rs[j].inverseOf # NoRow =>
        rs[j].inverseOf \in 1..n /\ rs[j].inverseOf < j
  BY <1>4, <1>5
<1>8. \A j \in 1..n : rs[j].inverseOf # NoRow => LinkOf(order[j], order[rs[j].inverseOf])
  <2> SUFFICES ASSUME NEW j \in 1..n, rs[j].inverseOf # NoRow
               PROVE  LinkOf(order[j], order[rs[j].inverseOf])
    OBVIOUS
  <2>1. order[rs[j].inverseOf] = rows[order[j]].inverseOf /\ rs[j].inverseOf \in 1..n
    BY <1>5, <1>7
  <2>2. order[j] \in 1..Len(rows) /\ order[rs[j].inverseOf] # NoRow
    BY <1>4, <1>6, <2>1
  <2> QED BY <2>1, <2>2 DEF Links
<1> SUFFICES ASSUME NEW j \in 1..n, NEW i, i = rs[j].inverseOf, i # NoRow
             PROVE  /\ i \in 1..n /\ i < j /\ rs[i].cell = rs[j].cell
                    /\ rs[j].cell \notin contested =>
                         /\ rs[i].status = "UNDONE"
                         /\ \A k \in (1..n) \ {j} : rs[k].inverseOf # i
  BY <1>1, <1>3 DEF ChildLinksHold, ChildRows, rs
<1>9. i \in 1..n /\ i < j /\ LinkOf(order[j], order[i])
  BY <1>7, <1>8
<1>10. rs[i].cell = rs[j].cell
  BY <1>4, <1>9 DEF LinkOf
<1>11. ASSUME rs[j].cell \notin contested
       PROVE  rs[i].status = "UNDONE" /\ \A k \in (1..n) \ {j} : rs[k].inverseOf # i
  <2>1. /\ rows[order[i]].status = "UNDONE"
        /\ \A k \in (1..Len(rows)) \ {order[j]} : rows[k].inverseOf # order[i]
    BY <1>4, <1>9, <1>11 DEF LinkOf
  <2>2. ASSUME NEW k \in (1..n) \ {j}, rs[k].inverseOf = i
        PROVE  FALSE
    <3>1. rows[order[k]].inverseOf = order[i]
      BY <1>5, <2>2
    <3>2. k \in 1..n /\ (k < j \/ j < k)
      BY <1>4
    <3>3. order[k] # order[j]
      BY <1>4, <3>2
    <3>4. order[k] \in 1..Len(rows)
      BY <1>4, <3>2
    <3> QED BY <2>1, <3>1, <3>3, <3>4
  <2> QED BY <1>4, <1>9, <2>1, <2>2
<1> QED BY <1>9, <1>10, <1>11

LEMMA ForkParent ==
  ASSUME [BranchNext]_branchVars
  PROVE  [Next]_vars
BY DEF BranchNext, ForkReplay, ForkCopy, ParentWorks, ForkCrash, Next, branchVars

LEMMA ForkStep ==
  ASSUME Forks, [BranchNext]_branchVars
  PROVE  Forks'
<1>1. Serves' /\ Links'
  BY ForkParent, NextServes, LinksStep DEF Forks
<1>2. /\ fork.pc \in {"off", "replayed", "done"} /\ fork.at \in 0..MaxRows
      /\ fork.moved \subseteq Cells
  BY DEF Forks, ForkTypes
<1>3. ASSUME NEW n \in 0..MaxRows, ForkReplay(n)
      PROVE  ForkTypes' /\ ReadsHold' /\ ChildMatchesItsLedger' /\ ChildLinksHold'
  <2>1. PICK file \in [Cells -> UNION {ReplayOf(rows, c, n) : c \in Cells}] :
          /\ \A c \in Cells : file[c] \in ReplayOf(rows, c, n)
          /\ child' = [NoChild EXCEPT !.file = file]
    BY <1>3 DEF ForkReplay
  <2>2. fork' = [pc |-> "replayed", at |-> n, moved |-> {}] /\ rows' = rows
    BY <1>3 DEF ForkReplay, vars
  <2>3. file \in Book
    <3>1. \A k \in 1..Len(rows) : rows[k] \in Row
      BY ElementOfSeq DEF Forks, Serves, Types
    <3>2. \A c \in Cells : ReplayOf(rows, c, n) \subseteq Nat
      BY <3>1, SessionLedgerAssumption DEF ReplayOf, Latest, RowsOn, Row, Original
    <3> QED BY <2>1, <3>2 DEF Book
  <2> DEFINE none == <<>>
  <2>4. none \in Seq(Row)
    BY EmptySeq
  <2> HIDE DEF none
  <2>5. child' = [rows |-> none, file |-> file]
    BY <2>1 DEF NoChild, none
  <2>6. ForkTypes'
    BY <2>2, <2>3, <2>4, <2>5 DEF ForkTypes
  <2>7. ReadsHold'
    BY <2>1, <2>2, <2>5 DEF ReadsHold
  <2>8. ~Forked'
    BY <2>2 DEF Forked
  <2> QED BY <2>6, <2>7, <2>8 DEF ChildMatchesItsLedger, ChildLinksHold
<1>4. ASSUME ForkCopy
      PROVE  ForkTypes' /\ ReadsHold' /\ ChildMatchesItsLedger' /\ ChildLinksHold'
  <2>1. ChildMatchesItsLedger' /\ ChildLinksHold'
    BY <1>4, CopyMatches, CopyLinks DEF Forks
  <2>2. fork' = [fork EXCEPT !.pc = "done"] /\ child' \in [rows : Seq(Row), file : Book]
    BY <1>4, ChildRowsAre DEF ForkCopy, Forks
  <2> QED BY <2>1, <2>2 DEF ForkTypes, ReadsHold, Forks
<1>5. ASSUME ParentWorks
      PROVE  ForkTypes' /\ ReadsHold' /\ ChildMatchesItsLedger' /\ ChildLinksHold'
  <2>1. /\ fork.pc # "done" /\ child' = child /\ [Next]_vars
        /\ fork' = IF fork.pc = "replayed" THEN [fork EXCEPT !.moved = @ \cup Decided] ELSE fork
    BY <1>5, ForkParent DEF ParentWorks
  <2>2. Decided \subseteq Cells
    <3>1. rows' \in Seq(Row)
      BY <1>1 DEF Serves, Types
    <3>2. \A k \in DOMAIN rows' : rows'[k] \in Row
      BY <3>1, ElementOfSeq, LenProperties
    <3> QED BY <3>2 DEF Decided, Row
  <2>3. /\ fork' \in [pc : {"off", "replayed", "done"}, at : 0..MaxRows, moved : SUBSET Cells]
        /\ fork'.pc = fork.pc /\ fork'.at = fork.at
        /\ fork.pc = "replayed" => fork'.moved = fork.moved \cup Decided
    BY <2>1, <2>2 DEF Forks, ForkTypes
  <2>4. ForkTypes'
    BY <2>1, <2>3 DEF Forks, ForkTypes
  <2>5. ReadsHold'
    <3> SUFFICES ASSUME fork.pc = "replayed", NEW c \in Cells \ (fork.moved \cup Decided)
                 PROVE  child.file[c] \in ReplayOf(rows', c, fork.at)
      BY <2>1, <2>3 DEF ReadsHold
    <3>1. child.file[c] \in ReplayOf(rows, c, fork.at)
      BY DEF Forks, ReadsHold
    <3>2. ReplayOf(rows', c, fork.at) = ReplayOf(rows, c, fork.at)
      BY <2>1, ReplayKept DEF Forks
    <3> QED BY <3>1, <3>2
  <2>6. ~Forked'
    BY <2>1, <2>3 DEF Forked
  <2> QED BY <2>4, <2>5, <2>6 DEF ChildMatchesItsLedger, ChildLinksHold
<1>6. ASSUME UNCHANGED <<fork, child, rows, contested>>
      PROVE  ForkTypes' /\ ReadsHold' /\ ChildMatchesItsLedger' /\ ChildLinksHold'
  <2>1. ForkTypes'
    BY <1>6 DEF Forks, ForkTypes
  <2>2. ReadsHold'
    BY <1>6 DEF Forks, ReadsHold
  <2>3. ChildMatchesItsLedger'
    BY <1>6 DEF Forks, ChildMatchesItsLedger, Forked, Tied
  <2>4. ChildLinksHold'
    BY <1>6 DEF Forks, ChildLinksHold, Forked, ChildRows
  <2> QED BY <2>1, <2>2, <2>3, <2>4
<1>7. ASSUME ForkCrash
      PROVE  ForkTypes' /\ ReadsHold' /\ ChildMatchesItsLedger' /\ ChildLinksHold'
  <2>1. UNCHANGED <<rows, contested>>
    BY <1>7 DEF ForkCrash, Crash
  <2>2. CASE fork.pc = "done"
    BY <1>6, <1>7, <2>1, <2>2 DEF ForkCrash
  <2>3. CASE fork.pc # "done"
    <3> DEFINE none == <<>>
    <3>1. none \in Seq(Row)
      BY EmptySeq
    <3> HIDE DEF none
    <3>2. fork' = [pc |-> "off", at |-> 0, moved |-> {}]
      BY <1>7, <2>3 DEF ForkCrash, NoFork
    <3>3. child' = [rows |-> none, file |-> Original]
      BY <1>7, <2>3 DEF ForkCrash, NoChild, none
    <3>4. Original \in Book /\ 0 \in 0..MaxRows
      BY SessionLedgerAssumption DEF Original, Book
    <3>5. ForkTypes'
      BY <3>1, <3>2, <3>3, <3>4 DEF ForkTypes
    <3> QED BY <3>2, <3>5 DEF ReadsHold, ChildMatchesItsLedger, ChildLinksHold, Forked
  <2> QED BY <2>2, <2>3
<1>8. ForkTypes' /\ ReadsHold' /\ ChildMatchesItsLedger' /\ ChildLinksHold'
  <2>1. CASE UNCHANGED branchVars
    BY <1>6, <2>1 DEF branchVars, vars, excused
  <2> QED BY <1>3, <1>4, <1>5, <1>7, <2>1 DEF BranchNext
<1> QED BY <1>1, <1>8 DEF Forks

LEMMA ForkInit ==
  ASSUME BranchInit
  PROVE  Forks
<1>1. Serves
  BY InitServes DEF BranchInit
<1>2. Len(rows) = 0
  BY EmptySeq DEF BranchInit, Init
<1> DEFINE none == <<>>
<1>3. none \in Seq(Row)
  BY EmptySeq
<1> HIDE DEF none
<1>4. fork = [pc |-> "off", at |-> 0, moved |-> {}] /\ child = [rows |-> none, file |-> Original]
  BY DEF BranchInit, NoFork, NoChild, none
<1>5. Original \in Book /\ 0 \in 0..MaxRows
  BY SessionLedgerAssumption DEF Original, Book
<1>6. ForkTypes
  BY <1>3, <1>4, <1>5 DEF ForkTypes
<1> QED BY <1>1, <1>2, <1>4, <1>6
    DEF Forks, Links, ReadsHold, ChildMatchesItsLedger, ChildLinksHold, Forked

LEMMA ForksHold == BranchSpec => []Forks
BY ForkInit, ForkStep, PTL DEF BranchSpec

\* A fork's workbook and its renumbered ledger say the same of every cell whose
\* rows were left alone between fork_at's two reads and whose last row has its
\* sequence to itself, in whatever order the queries give rows of one sequence,
\* for any ledger: with rows decided twice, failed runs and crashes (branch.py).
THEOREM ForkMatchesItsLedger == BranchSpec => []ChildMatchesItsLedger
BY ForksHold, PTL DEF Forks

\* The copied inverses point at the copies of the rows they undo, which come
\* before them, are undone and have no second inverse (branch.py).
THEOREM ForkKeepsTheChain == BranchSpec => []ChildLinksHold
BY ForksHold, PTL DEF Forks
=============================================================================
