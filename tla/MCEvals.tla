------------------------------ MODULE MCEvals ------------------------------
(* Two golden cases over a default sheet with two cells and an added one: a  *)
(* value, a formula that refers to it, the same formula spelled otherwise, a *)
(* cycle, a reference to a sheet that is not there.                          *)
EXTENDS Evals

MCSheetNames == {"Sheet", "Model", "Model1"}
MCRefs == {1, 2}
MCDuplicate == [s \in MCSheetNames |-> "Model1"]
MCLiterals == {"1", "TRUE", "text"}
MCClose == {<<l, l>> : l \in MCLiterals} \cup {<<"1", "TRUE">>, <<"TRUE", "1">>}
MCFunctions == {"=", "=+", "=XNPV"}
MCUnknown == {"=XNPV"}

Literal(v) == [kind |-> "literal", text |-> v, of |-> <<"", 0>>]
Formula(f, sheet, ref) == [kind |-> "formula", text |-> f, of |-> <<sheet, ref>>]
Nothing == [kind |-> "empty", text |-> "", of |-> <<"", 0>>]
Sheet(a, b) == <<a, b>>
OneSheet(a, b) == [s \in {"Sheet"} |-> Sheet(a, b)]
Same  == OneSheet(Literal("1"), Formula("=", "Sheet", 1))
Model == [s \in {"Sheet", "Model"} |->
            IF s = "Sheet" THEN Sheet(Literal("1"), Nothing)
            ELSE Sheet(Formula("=", "Sheet", 1), Nothing)]
Full  == [s \in {"Sheet", "Model"} |-> Sheet(Literal("1"), Literal("text"))]
New   == OneSheet(Nothing, Nothing)

Write(sheet, refs, content) ==
  [type |-> "write", sheet |-> sheet, refs |-> refs, content |-> content]
Add(sheet)    == [type |-> "add_sheet", sheet |-> sheet, refs |-> {}, content |-> Nothing]
Format(sheet) == [type |-> "format", sheet |-> sheet, refs |-> {1}, content |-> Nothing]
Tape(actions) == [found |-> "yes", actions |-> actions]
One == Write("Sheet", {1}, Literal("1"))

MCRecordings ==
  {[found |-> "no", actions |-> <<>>], [found |-> "stale", actions |-> <<>>],
   Tape(<<One, Write("Sheet", {2}, Formula("=", "Sheet", 1))>>),
   Tape(<<Write("Sheet", {1, 2}, Literal("TRUE")), Write("Sheet", {2}, Formula("=+", "Sheet", 1))>>),
   Tape(<<One, Write("Sheet", {2}, Formula("=", "Sheet", 2)), Format("Model")>>),
   Tape(<<One, Write("Sheet", {2}, Formula("=", "Sheet", 1)), Format("Model")>>),
   Tape(<<One, Write("Sheet", {2}, Formula("=XNPV", "Sheet", 1)), Format("Sheet")>>),
   Tape(<<One, Add("Model"), Write("Model", {1}, Formula("=", "Sheet", 1))>>),
   Tape(<<One, Add("Model"), Add("Model"), Write("Model", {1}, Formula("=+", "Model1", 1))>>),
   Tape(<<Add("Model"), Write("Model", {1}, Formula("=", "Model1", 1))>>)}

Listed(id, w) == [case_id |-> id, expected |-> w]
Files(ids, books) ==
  {<<>>} \cup {<<Listed(i, w)>> : i \in ids, w \in books}
  \cup {<<Listed(i, w), Listed(j, v)>> : i \in ids, j \in ids, w \in books, v \in books}
Distinct(file) == \A i, j \in DOMAIN file : file[i].case_id = file[j].case_id => i = j
MCGoldenFiles == {f \in Files({"g1", "g2"}, {Same, Model, Full}) : Distinct(f)}
MCManifests == {f \in Files({"g1", "g2"}, {New, Model}) : Distinct(f)}
MCBaselines ==
  {[golden |-> g, percent |-> 0] :
     g \in UNION {[d -> {"passed", "failed"}] : d \in {{}, {"g1"}, {"g1", "g2"}}}}
  \cup {[golden |-> [i \in {} |-> "passed"], percent |-> p] : p \in {52, 53, 100}}
=============================================================================
