------------------------------- MODULE Evals -------------------------------
(***************************************************************************)
(* The evaluation gate of continuous integration (evals/): a run of        *)
(* evals.cli over one suite.  A golden case replays its cassette into a    *)
(* blank workbook (recording/), the scorer compares the result with the    *)
(* expected one (scoring.py, which asks the formula engine of the          *)
(* spreadsheet package), and the suite is held against baseline.json       *)
(* (regression.py).  The cases, the cassettes and the baseline are three   *)
(* files that people edit one by one: a behaviour starts with any of them. *)
(*                                                                         *)
(* A formula refers to one cell and has that cell's value, so that a text  *)
(* and the value it evaluates to are different things, as are cycles and   *)
(* references to nowhere.                                                  *)
(***************************************************************************)
EXTENDS Naturals, Sequences, FiniteSets, SequencesExt

CONSTANTS
  Ids,         \* case ids
  SheetNames,
  Refs,        \* coordinates in a sheet
  Duplicate,   \* the name openpyxl gives to a second sheet of a name
  Literals,    \* literal values
  Close,       \* pairs of literals that Python finds equal, or within the tolerance
  Functions,   \* functions a formula may use
  Unknown,     \* those that formualizer does not know
  GoldenFiles, \* what golden/cases.py may list
  Recordings,  \* what a cassette may hold
  Manifests,   \* what the SpreadsheetBench manifest may list, nothing without a data set
  Baselines,   \* what baseline.json may say
  MaxCases,    \* SPREADSHEETBENCH_MAX_CASES, or the manifest's length
  MaxDiffs     \* MAX_DIFFS_PER_CASE

-----------------------------------------------------------------------------
\* Workbooks: their sheets' cells.
Address == SheetNames \X Refs
NoAddress == <<"", 0>>

Content == [kind : {"literal"}, text : Literals, of : {NoAddress}]
           \cup [kind : {"formula"}, text : Functions, of : Address]
           \cup {[kind |-> "empty", text |-> "", of |-> NoAddress]}
Empty   == [kind |-> "empty", text |-> "", of |-> NoAddress]

IsWorkbook(w) == \E sheets \in SUBSET SheetNames : w \in [sheets -> [Refs -> Content]]
EmptySheet == [r \in Refs |-> Empty]
Blank == [s \in {"Sheet"} |-> EmptySheet]

Action == [type : {"write", "add_sheet", "format"}, sheet : SheetNames,
           refs : SUBSET Refs, content : Content]

Verdicts  == {"passed", "failed", "errored"}
Missing   == [found |-> "no", actions |-> <<>>]      \* no file of the case's name
Rejected  == [found |-> "stale", actions |-> <<>>]   \* the schema refuses it

\* EvalCases, each with an id of its own.
IsFile(f) == /\ f \in Seq(Range(f))
             /\ \A i \in DOMAIN f : f[i].case_id \in Ids /\ IsWorkbook(f[i].expected)
             /\ \A i, j \in DOMAIN f : f[i].case_id = f[j].case_id => i = j

ASSUME EvalsAssumption ==
  /\ IsFiniteSet(SheetNames) /\ IsFiniteSet(Refs) /\ "Sheet" \in SheetNames
  /\ Refs \subseteq Nat /\ Duplicate \in [SheetNames -> SheetNames]
  /\ Close \subseteq Literals \X Literals
  /\ \A l \in Literals : <<l, l>> \in Close
  /\ Empty.text \notin Literals
  /\ Unknown \subseteq Functions
  /\ \A f \in GoldenFiles \cup Manifests : IsFile(f)
  /\ \A t \in Recordings : \/ t \in {Missing, Rejected}
                           \/ t.found = "yes" /\ t.actions \in Seq(Action)
  /\ \A b \in Baselines : /\ DOMAIN b.golden \subseteq Ids /\ b.percent \in 0..100
                          /\ \A id \in DOMAIN b.golden : b.golden[id] \in Verdicts
  /\ MaxCases \in Nat /\ MaxDiffs \in Nat \ {0}

VARIABLES
  suite,      \* the suite asked for, and whether --gate was given
  gate,
  golden,     \* golden/cases.py
  cassettes,  \* the cassette directory
  manifest,   \* the SpreadsheetBench data set
  absent,     \* its cases without an expected file; 0 is the manifest's own
  baseline,   \* results/baseline.json
  pc,         \* "running" | "judging" | "exited" | "raised"
  results,    \* the case results so far
  told,       \* lines on stderr: a prefix and a case
  exit        \* the process's exit code

vars == <<suite, gate, golden, cassettes, manifest, absent, baseline, pc, results, told, exit>>
files == <<suite, gate, golden, cassettes, manifest, absent, baseline>>

-----------------------------------------------------------------------------
\* The replay producer.  Workbook.apply raises for a sheet that is not there;
\* a second sheet of a name gets a name of its own.
Applied(run, a) ==
  LET wb   == run.book
      name == IF a.sheet \in DOMAIN wb THEN Duplicate[a.sheet] ELSE a.sheet
  IN  CASE run.raised -> run
        [] a.type = "add_sheet" ->
             [run EXCEPT !.book = [s \in DOMAIN wb \cup {name} |->
                                     IF s = name THEN EmptySheet ELSE wb[s]]]
        [] a.type # "add_sheet" /\ a.sheet \notin DOMAIN wb -> [run EXCEPT !.raised = TRUE]
        [] a.type = "format" /\ a.sheet \in DOMAIN wb -> run
        [] a.type = "write" /\ a.sheet \in DOMAIN wb ->
             [run EXCEPT !.book[a.sheet] = [r \in Refs |-> IF r \in a.refs THEN a.content ELSE @[r]]]

NewRun == [book |-> Blank, raised |-> FALSE]

Produced(actions) ==
  LET run[n \in 0..Len(actions)] ==
        IF n = 0 THEN NewRun ELSE Applied(run[n - 1], actions[n])
  IN  run[Len(actions)]

-----------------------------------------------------------------------------
\* The engine: a value or an error for each cell of a workbook.
Value(v) == [error |-> "none", value |-> v]
Error(e) == [error |-> e, value |-> ""]

Evaluate(wb, address) ==
  LET step(a, below) ==
        LET c == IF a[1] \in DOMAIN wb THEN wb[a[1]][a[2]] ELSE Empty
        IN  CASE a[1] \notin DOMAIN wb -> Error("ref")
              [] a[1] \in DOMAIN wb /\ c.kind # "formula" -> Value(c.text)
              [] c.kind = "formula" /\ c.text \in Unknown -> Error("name")
              [] c.kind = "formula" /\ c.text \notin Unknown -> below[c.of]
      value[n \in 0..Cardinality(Address)] ==
        IF n = 0 THEN [a \in Address |-> Error("circ")]
        ELSE [a \in Address |-> step(a, value[n - 1])]
  IN  value[Cardinality(Address)][address]

ValuesEqual(a, b) == a = b \/ <<a, b>> \in Close

SameEvaluatedValue(expected, actual, address) ==
  LET x == Evaluate(expected, address)
      y == Evaluate(actual, address)
  IN  x.error = "none" /\ y.error = "none" /\ ValuesEqual(x.value, y.value)

-----------------------------------------------------------------------------
\* The scorer: a list of differences, first the sheets', cut at MaxDiffs.
Diff(axis, at, note) == [axis |-> axis, at |-> at, note |-> note]

Structure(expected, actual) ==
  {Diff("structure", <<s, 0>>, "missing") : s \in DOMAIN expected \ DOMAIN actual}
  \cup {Diff("structure", <<s, 0>>, "extra") : s \in DOMAIN actual \ DOMAIN expected}

\* _compare_cell of a cell the expected workbook fills.
Compare(expected, actual, at) ==
  LET x == expected[at[1]][at[2]]
      y == actual[at[1]][at[2]]
      both == x.kind = "formula" /\ y.kind = "formula"
  IN  CASE both /\ x = y -> {}
        [] both /\ x # y ->
             IF SameEvaluatedValue(expected, actual, at)
             THEN {Diff("formula", at, "drift")} ELSE {Diff("formula", at, "")}
        [] x.kind = "formula" /\ y.kind # "formula" -> {Diff("formula", at, "literal")}
        [] x.kind # "formula" /\ y.kind = "formula" -> {Diff("formula", at, "not a literal")}
        [] x.kind # "formula" /\ y.kind # "formula" ->
             IF ValuesEqual(x.text, y.text) THEN {} ELSE {Diff("cell_value", at, "")}

\* The cells both workbooks have a sheet for and the expected one fills.
Scored(expected, actual) ==
  {at \in (DOMAIN expected \cap DOMAIN actual) \X Refs : expected[at[1]][at[2]] # Empty}

Cells(expected, actual) ==
  UNION {Compare(expected, actual, at) : at \in Scored(expected, actual)}

\* Mutant: a list of just the limit is marked as cut.
Score_CapOffByOne(expected, actual) ==
  LET raw == SetToSeq(Structure(expected, actual)) \o SetToSeq(Cells(expected, actual))
  IN  [diffs |-> SubSeq(raw, 1, IF Len(raw) < MaxDiffs THEN Len(raw) ELSE MaxDiffs),
       truncated |-> Len(raw) >= MaxDiffs]

Score(expected, actual) ==
  LET raw == SetToSeq(Structure(expected, actual)) \o SetToSeq(Cells(expected, actual))
  IN  [diffs |-> SubSeq(raw, 1, IF Len(raw) < MaxDiffs THEN Len(raw) ELSE MaxDiffs),
       truncated |-> Len(raw) > MaxDiffs]

-----------------------------------------------------------------------------
\* run_case, for a producer that gave this run.
CaseResult(id, verdict, report) ==
  [case_id |-> id, verdict |-> verdict, diffs |-> report.diffs, truncated |-> report.truncated]
NoReport == [diffs |-> <<>>, truncated |-> FALSE]

\* Mutant: what the producer had done when it raised is scored.
RunCase_ScoresAnyway(case, run) ==
  LET report == Score(case.expected, run.book)
  IN  CaseResult(case.case_id, IF report.diffs = <<>> THEN "passed" ELSE "failed", report)

RunCase(case, run) ==
  LET report == Score(case.expected, run.book)
  IN  IF run.raised THEN CaseResult(case.case_id, "errored", NoReport)
      ELSE CaseResult(case.case_id, IF report.diffs = <<>> THEN "passed" ELSE "failed", report)

Count(verdict) == Cardinality({i \in DOMAIN results : results[i].verdict = verdict})

\* _run_golden, a case at a time: a case without a cassette gets an errored row,
\* a cassette the schema refuses raises out of the program.
GoldenCase ==
  /\ pc = "running" /\ suite = "golden" /\ Len(results) < Len(golden)
  /\ LET case == golden[Len(results) + 1]
         tape == cassettes[case.case_id]
     IN  IF tape.found = "stale"
         THEN pc' = "raised" /\ exit' = 1 /\ UNCHANGED results
         ELSE /\ results' = Append(results,
                   IF tape.found = "no" THEN CaseResult(case.case_id, "errored", NoReport)
                   ELSE RunCase(case, Produced(tape.actions)))
              /\ UNCHANGED <<pc, exit>>
  /\ UNCHANGED <<files, told>>

\* DatasetFilter counts the lines of the manifest.
Kept == IF MaxCases < Len(manifest) THEN MaxCases ELSE Len(manifest)

\* The manifest and each expected file that is kept are read before any case runs.
AllThere == absent \cap 0..Kept = {}

BenchRaises ==
  /\ pc = "running" /\ suite = "spreadsheetbench" /\ ~AllThere
  /\ pc' = "raised" /\ exit' = 1
  /\ UNCHANGED <<files, results, told>>

\* The SpreadsheetBench suite runs with a producer of blank workbooks.
BenchCase ==
  /\ pc = "running" /\ suite = "spreadsheetbench" /\ AllThere /\ Len(results) < Kept
  /\ results' = Append(results, RunCase(manifest[Len(results) + 1], NewRun))
  /\ UNCHANGED <<files, pc, told, exit>>

SuiteDone ==
  /\ pc = "running" /\ (suite = "spreadsheetbench" => AllThere)
  /\ Len(results) = IF suite = "golden" THEN Len(golden) ELSE Kept
  /\ pc' = "judging"
  /\ UNCHANGED <<files, results, told, exit>>

-----------------------------------------------------------------------------
\* The gate.
Required == {id \in DOMAIN baseline.golden : baseline.golden[id] = "passed"}

\* check_golden
Regressed == {id \in Required : \A i \in DOMAIN results :
                 results[i].case_id = id => results[i].verdict # "passed"}

\* Mutant: the cases that did not pass are counted against each other.
BenchHolds_RunsOnly ==
  LET drop  == baseline.percent * (Len(results) - Count("failed"))
      share == 100 * Count("passed")
  IN  {drop <= share}

\* check_spreadsheetbench, in hundredths: where the drop is exactly the two per
\* cent of the tolerance, the floats decide.
BenchHolds ==
  LET drop  == baseline.percent * Len(results)
      share == 100 * Count("passed") + 2 * Len(results)
  IN  CASE Len(results) = 0 -> {TRUE}
        [] Len(results) # 0 /\ drop = share -> BOOLEAN
        [] Len(results) # 0 /\ drop # share -> {drop < share}

\* Mutant: the prefix goes by the differences.
Prefix_ByDiffs(result) == IF result.truncated THEN "ERRORED" ELSE "FAILED"

Prefix(result) == IF result.verdict = "errored" THEN "ERRORED" ELSE "FAILED"

Judge ==
  /\ pc = "judging"
  /\ \E held \in IF suite = "golden" THEN {Regressed = {}} ELSE BenchHolds :
       IF gate /\ ~held
       THEN /\ exit' = 1
            /\ told' = {[prefix |-> Prefix(results[i]), case_id |-> results[i].case_id] :
                          i \in {j \in DOMAIN results : results[j].verdict # "passed"}}
       ELSE exit' = 0 /\ UNCHANGED told
  /\ pc' = "exited"
  /\ UNCHANGED <<files, results>>

-----------------------------------------------------------------------------
\* The files of the other suite are not read.
Init ==
  /\ \/ /\ suite = "golden"
        /\ golden \in GoldenFiles /\ cassettes \in [Ids -> Recordings]
        /\ manifest = <<>> /\ absent = {}
     \/ /\ suite = "spreadsheetbench"
        /\ manifest \in Manifests /\ absent \in SUBSET (0..Len(manifest))
        /\ cassettes = [id \in Ids |-> Missing] /\ golden = <<>>
  /\ gate \in BOOLEAN
  /\ baseline \in Baselines
  /\ pc = "running" /\ results = <<>> /\ told = {} /\ exit = 0

Next == GoldenCase \/ BenchRaises \/ BenchCase \/ SuiteDone \/ Judge

Spec == Init /\ [][Next]_vars

-----------------------------------------------------------------------------
\* What the gate is for, without the scorer's steps: a case is reproduced when
\* its cassette replays to a workbook with the expected sheets in which each cell
\* the expected workbook fills has the same formula, or as good as the same value.
Agree(x, y) == \/ x.kind = "formula" /\ x = y
               \/ x.kind = "literal" /\ y.kind = "literal" /\ ValuesEqual(x.text, y.text)

Differing(expected, actual) ==
  {<<s, 0>> : s \in (DOMAIN expected \ DOMAIN actual) \cup (DOMAIN actual \ DOMAIN expected)}
  \cup {at \in (DOMAIN expected \cap DOMAIN actual) \X Refs :
          LET x == expected[at[1]][at[2]]
          IN  x # Empty /\ ~Agree(x, actual[at[1]][at[2]])}

\* Of these a formula that differs in its text alone is a drift, not a mistake:
\* whether a drift is to fail its case the documents and the code disagree on, and
\* the properties of the gate leave open; DriftOnlyWarns states the documents' side.
Drifts(expected, actual) ==
  {at \in (DOMAIN expected \cap DOMAIN actual) \X Refs :
     LET x == expected[at[1]][at[2]]
         y == actual[at[1]][at[2]]
     IN  /\ x.kind = "formula" /\ y.kind = "formula" /\ x # y
         /\ SameEvaluatedValue(expected, actual, at)}

Wrong(expected, actual) == Differing(expected, actual) \ Drifts(expected, actual)

Runs(id)   == cassettes[id].found = "yes" /\ ~Produced(cassettes[id].actions).raised
Stale(id)  == cassettes[id].found = "stale"
Book(id)   == IF suite = "golden" THEN Produced(cassettes[id].actions).book ELSE Blank
Reproduced(case) == Runs(case.case_id) /\ Differing(case.expected, Book(case.case_id)) = {}
Mistaken(case)   == ~Runs(case.case_id) \/ Wrong(case.expected, Book(case.case_id)) # {}
Judged(s)  == pc = "exited" /\ gate /\ suite = s
Ended(s)   == pc \in {"exited", "raised"} /\ gate /\ suite = s

\* The golden gate is green only when every case the baseline calls passed is
\* still listed, replays from its cassette to its end and comes out without a
\* mistake: neither a case or a cassette that was dropped nor a replay cut short
\* passes.  It is red only for a required case that is not reproduced to the
\* letter, or because some listed case's cassette was refused by the schema.
GateIsRight ==
  Ended("golden") =>
    IF exit = 0
    THEN \A id \in Required :
           \E i \in DOMAIN golden : golden[i].case_id = id /\ ~Mistaken(golden[i])
    ELSE \/ \E i \in DOMAIN golden : Stale(golden[i].case_id)
         \/ \E id \in Required :
              \A i \in DOMAIN golden : golden[i].case_id = id => ~Reproduced(golden[i])

\* A case with a mistake fails, and a failed case's report names the cells and
\* sheets that differ: all of them, or MaxDiffs and a mark that there are more;
\* and it calls a drift what is one, and nothing else.
ReportNamesDifferences ==
  \A i \in DOMAIN results :
    LET r == results[i]
        expected == (IF suite = "golden" THEN golden ELSE manifest)[i].expected
        named == {r.diffs[j].at : j \in DOMAIN r.diffs}
        differing == Differing(expected, Book(r.case_id))
    IN  r.verdict # "errored" =>
          /\ Wrong(expected, Book(r.case_id)) # {} => r.verdict = "failed"
          /\ r.verdict = "failed" => differing # {}
          /\ named \subseteq differing /\ Cardinality(named) = Len(r.diffs)
          /\ IF r.truncated THEN named # differing /\ Len(r.diffs) = MaxDiffs
             ELSE named = differing
          /\ \A j \in DOMAIN r.diffs :
               r.diffs[j].note = "drift"
                 <=> r.diffs[j].at \in Drifts(expected, Book(r.case_id))

\* When the command ends by its verdict, a case that failed is told on stderr from
\* one that did not run to its end, and every listed case that did not run or came
\* out with a mistake is told.  (A command that raises tells no case at all:
\* RejectedIsErrored.)
TriageTellsTheCause ==
  (Judged("golden") /\ exit = 1) =>
    /\ \A line \in told : line.prefix = "FAILED" <=> Runs(line.case_id)
    /\ \A i \in DOMAIN golden :
         Mistaken(golden[i]) => \E line \in told : line.case_id = golden[i].case_id

\* The documents' claim that formulas which differ and evaluate to the same value
\* are a warning: a case fails for some difference that is not a drift.
DriftOnlyWarns ==
  \A i \in DOMAIN results :
    results[i].verdict = "failed" =>
      \E j \in DOMAIN results[i].diffs : results[i].diffs[j].note # "drift"

\* The decision record's claim that ERRORED is what stderr says of a case whose
\* recording the schema rejects at load, where the command ends red.
RejectedIsErrored ==
  (Ended("golden") /\ exit = 1) =>
    \A i \in DOMAIN golden :
      Stale(golden[i].case_id) =>
        [prefix |-> "ERRORED", case_id |-> golden[i].case_id] \in told

\* The command's own comment that a case the baseline requires and no result
\* stands for is told on stderr like the failed ones.
MissingIsTold ==
  (Judged("golden") /\ exit = 1) =>
    \A id \in Required :
      (\A i \in DOMAIN golden : golden[i].case_id # id) =>
        \E line \in told : line.case_id = id

\* The bench gate compares what share of the cases that were asked for passed
\* with the baseline: it is red only for a drop of at least two hundredths, never
\* for an empty run, and green only for one of at most two hundredths.
BenchGateIsRight ==
  Judged("spreadsheetbench") =>
    LET asked == {i \in DOMAIN manifest : i <= MaxCases}
        good  == {i \in asked : Differing(manifest[i].expected, Blank) = {}}
        drop  == baseline.percent * Cardinality(asked)
        floor == (100 * Cardinality(good)) + (2 * Cardinality(asked))
    IN  IF exit = 1 THEN asked # {} /\ drop >= floor ELSE drop <= floor
=============================================================================
