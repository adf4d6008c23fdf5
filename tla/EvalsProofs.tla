---------------------------- MODULE EvalsProofs ----------------------------
(***************************************************************************)
(* The gate of continuous integration decides what it is for: for every    *)
(* suite of cases, every cassette, baseline and limit.  The scorer's list  *)
(* is a reference definition's set, and the replay of a cassette gives a   *)
(* workbook, however long it is.                                           *)
(***************************************************************************)
EXTENDS Evals, TLAPS, FiniteSetTheorems, SequenceTheorems, WellFoundedInduction

-----------------------------------------------------------------------------
(* Induction up to a bound, over a set instead of a predicate.               *)

LEMMA LeastNat ==
  ASSUME NEW T \in SUBSET Nat, T # {}
  PROVE  \E x \in T : \A y \in T : x <= y
<1> DEFINE R == OpToRel(<, Nat)
<1>1. IsWellFoundedOn(R, Nat)
  BY NatLessThanWellFounded
<1>2. \A x, y \in Nat : x < y => <<x, y>> \in R
  BY DEF OpToRel
<1> HIDE DEF R
<1>3. PICK x \in T : \A y \in T : ~(<<y, x>> \in R)
  BY <1>1, WFMin
<1>4. \A y \in T : ~(y < x)
  BY <1>2, <1>3
<1>5. \A y \in T : y \in Nat /\ x \in Nat
  BY <1>3
<1> QED BY <1>3, <1>4, <1>5

LEMMA Reaches ==
  ASSUME NEW N \in Nat, NEW S, 0 \in S, \A n \in 1..N : n - 1 \in S => n \in S
  PROVE  \A n \in 0..N : n \in S
<1> DEFINE T == {n \in 0..N : n \notin S}
<1> SUFFICES ASSUME T # {}  PROVE FALSE
  OBVIOUS
<1>1. T \in SUBSET Nat
  OBVIOUS
<1>2. PICK x \in T : \A y \in T : x <= y
  BY <1>1, LeastNat
<1>3. x \in 1..N /\ x - 1 \in 0..N /\ ~(x <= x - 1)
  BY <1>2
<1>4. x - 1 \notin T
  BY <1>2, <1>3
<1> QED BY <1>2, <1>3, <1>4

-----------------------------------------------------------------------------
(* The replay.                                                               *)

Books == UNION {[sheets -> [Refs -> Content]] : sheets \in SUBSET SheetNames}
IsRun(run) == run \in [book : Books, raised : BOOLEAN]

LEMMA BooksAre == \A w : w \in Books <=> IsWorkbook(w)
  BY DEF Books, IsWorkbook

LEMMA BlankIsWorkbook == IsWorkbook(Blank) /\ Empty \in Content
<1>1. Empty \in Content
  BY DEF Empty, Content
<1>2. Blank \in [{"Sheet"} -> [Refs -> Content]]
  BY <1>1 DEF Blank, EmptySheet
<1>3. {"Sheet"} \in SUBSET SheetNames
  BY EvalsAssumption
<1> QED BY <1>1, <1>2, <1>3 DEF IsWorkbook

LEMMA AppliedIsRun ==
  ASSUME NEW run, IsRun(run), NEW a \in Action
  PROVE  IsRun(Applied(run, a))
<1> DEFINE wb   == run.book
           name == IF a.sheet \in DOMAIN wb THEN Duplicate[a.sheet] ELSE a.sheet
           more == [s \in DOMAIN wb \cup {name} |-> IF s = name THEN EmptySheet ELSE wb[s]]
           sheet == [r \in Refs |-> IF r \in a.refs THEN a.content ELSE wb[a.sheet][r]]
           written == [wb EXCEPT ![a.sheet] = sheet]
<1>1. /\ a.type \in {"write", "add_sheet", "format"} /\ a.sheet \in SheetNames
      /\ a.content \in Content
  BY DEF Action
<1>2. PICK sheets \in SUBSET SheetNames : wb \in [sheets -> [Refs -> Content]]
  <2>1. wb \in Books
    BY DEF IsRun
  <2> QED BY <2>1, BooksAre DEF IsWorkbook
<1>3. DOMAIN wb = sheets /\ \A s \in sheets : wb[s] \in [Refs -> Content]
  BY <1>2
<1>4. wb \in Books
  BY DEF IsRun
<1>5. IsWorkbook(more)
  <2>1. name \in SheetNames
    BY <1>1, EvalsAssumption
  <2>2. EmptySheet \in [Refs -> Content]
    BY BlankIsWorkbook DEF EmptySheet
  <2> HIDE DEF name
  <2>3. more \in [sheets \cup {name} -> [Refs -> Content]]
    BY <1>3, <2>2
  <2>4. sheets \cup {name} \in SUBSET SheetNames
    BY <2>1
  <2> HIDE DEF more
  <2> QED BY <2>3, <2>4 DEF IsWorkbook
<1>6. a.sheet \in DOMAIN wb => IsWorkbook(written)
  <2> SUFFICES ASSUME a.sheet \in sheets PROVE IsWorkbook(written)
    BY <1>3
  <2>1. sheet \in [Refs -> Content]
    BY <1>1, <1>3
  <2> HIDE DEF sheet
  <2>2. written \in [sheets -> [Refs -> Content]]
    BY <1>2, <2>1
  <2> HIDE DEF written
  <2> QED BY <2>2 DEF IsWorkbook
<1>7. \/ Applied(run, a) = run
      \/ Applied(run, a) = [run EXCEPT !.raised = TRUE]
      \/ Applied(run, a) = [run EXCEPT !.book = more]
      \/ a.sheet \in DOMAIN wb /\ Applied(run, a) = [run EXCEPT !.book = written]
  <2>1. CASE run.raised
    BY <2>1 DEF Applied
  <2>2. CASE ~run.raised /\ a.type = "add_sheet"
    BY <2>2 DEF Applied
  <2>3. CASE ~run.raised /\ a.type # "add_sheet" /\ a.sheet \notin DOMAIN wb
    BY <2>3 DEF Applied
  <2>4. CASE ~run.raised /\ a.type = "format" /\ a.sheet \in DOMAIN wb
    BY <2>4 DEF Applied
  <2>5. CASE ~run.raised /\ a.type = "write" /\ a.sheet \in DOMAIN wb
    BY <2>5 DEF Applied
  <2> QED BY <1>1, <2>1, <2>2, <2>3, <2>4, <2>5
<1> HIDE DEF more, written, wb
<1>8. more \in Books /\ (a.sheet \in DOMAIN wb => written \in Books)
  BY <1>5, <1>6, BooksAre
<1>9. /\ [run EXCEPT !.raised = TRUE] \in [book : Books, raised : BOOLEAN]
      /\ \A b \in Books : [run EXCEPT !.book = b] \in [book : Books, raised : BOOLEAN]
  BY DEF IsRun
<1> QED BY <1>7, <1>8, <1>9 DEF IsRun

\* What is replayed is a workbook, action by action.
LEMMA ProducedIsRun ==
  ASSUME NEW actions \in Seq(Action)
  PROVE  IsRun(Produced(actions))
<1> DEFINE L == Len(actions)
           Step(f, n) == IF n = 0 THEN NewRun ELSE Applied(f[n - 1], actions[n])
           Made(f, m) == f = [n \in 0..m |-> Step(f, n)]
           S == {m \in 0..L : \E f : Made(f, m)}
<1>0. L \in Nat /\ \A n \in 1..L : actions[n] \in Action
  OBVIOUS
<1>1. 0 \in S
  <2>1. Made([n \in 0..0 |-> NewRun], 0)
    OBVIOUS
  <2>2. \E f : Made(f, 0)
    BY <2>1
  <2> HIDE DEF Made
  <2> QED BY <1>0, <2>2
<1>2. \A m \in 1..L : m - 1 \in S => m \in S
  <2> SUFFICES ASSUME NEW m \in 1..L, NEW f, Made(f, m - 1)
               PROVE  \E g : Made(g, m)
    BY <1>0
  <2> DEFINE g == [n \in 0..m |-> IF n = m THEN Step(f, m) ELSE f[n]]
  <2>1. \A n \in 0..(m - 1) : g[n] = f[n]
    BY <1>0
  <2>2. \A n \in 0..m : g[n] = Step(g, n)
    <3>1. \A n \in 0..(m - 1) : f[n] = Step(f, n)
      OBVIOUS
    <3>2. \A n \in 0..(m - 1) : n # 0 => n - 1 \in 0..(m - 1)
      BY <1>0
    <3>3. g[m] = Step(f, m) /\ g[m - 1] = f[m - 1] /\ m # 0
      BY <1>0
    <3>4. \A n \in 0..m : n = m \/ n \in 0..(m - 1)
      BY <1>0
    <3> HIDE DEF g
    <3> QED BY <2>1, <3>1, <3>2, <3>3, <3>4
  <2>3. Made(g, m)
    BY <2>2
  <2> QED BY <2>3
<1>3. L \in S
  <2>1. \A n \in 0..L : n \in S
    BY <1>0, <1>1, <1>2, Reaches
  <2> QED BY <1>0, <2>1
<1>4. PICK f : Made(f, L)
  BY <1>3
<1> DEFINE run == CHOOSE g : g = [n \in 0..L |-> IF n = 0 THEN NewRun
                                                 ELSE Applied(g[n - 1], actions[n])]
<1>5. \E g : g = [n \in 0..L |-> IF n = 0 THEN NewRun ELSE Applied(g[n - 1], actions[n])]
  BY <1>4
<1>6. run = [n \in 0..L |-> IF n = 0 THEN NewRun ELSE Applied(run[n - 1], actions[n])]
  BY <1>5
<1>7. Produced(actions) = run[L]
  BY DEF Produced
<1> HIDE DEF run
<1> DEFINE R == {n \in 0..L : IsRun(run[n])}
<1>8. 0 \in R
  <2>1. IsRun(NewRun)
    BY BlankIsWorkbook, BooksAre DEF NewRun, IsRun
  <2> QED BY <1>0, <1>6, <2>1
<1>9. \A n \in 1..L : n - 1 \in R => n \in R
  <2> SUFFICES ASSUME NEW n \in 1..L, IsRun(run[n - 1]) PROVE IsRun(run[n])
    BY <1>0
  <2>1. run[n] = Applied(run[n - 1], actions[n])
    BY <1>0, <1>6
  <2> QED BY <1>0, <2>1, AppliedIsRun
<1>10. \A n \in 0..L : n \in R
  BY <1>0, <1>8, <1>9, Reaches
<1> QED BY <1>0, <1>7, <1>10

-----------------------------------------------------------------------------
(* The scorer.                                                               *)

\* Two cells agree when they are the same formula, or literals as good as equal.
LEMMA CellsAgree ==
  ASSUME NEW x \in Content, NEW y \in Content, x # Empty
  PROVE  Agree(x, y) <=>
           IF x.kind = "formula" THEN x = y
           ELSE y.kind # "formula" /\ ValuesEqual(x.text, y.text)
<1>1. CASE x.kind = "formula"
  BY <1>1 DEF Agree
<1>2. CASE x.kind # "formula"
  <2>1. x.kind = "literal" /\ x.text \in Literals
    BY <1>2 DEF Content, Empty
  <2>2. CASE y.kind \in {"literal", "formula"}
    BY <2>1, <2>2 DEF Agree
  <2>3. CASE y.kind \notin {"literal", "formula"}
    <3>1. y = Empty
      BY <2>3 DEF Content, Empty
    <3>2. y.kind = "empty" /\ y.text = Empty.text
      BY <3>1 DEF Empty
    <3>3. ~ValuesEqual(x.text, y.text)
      BY <2>1, <3>2, EvalsAssumption DEF ValuesEqual
    <3> QED BY <2>1, <3>2, <3>3 DEF Agree
  <2> QED BY <2>2, <2>3
<1> QED BY <1>1, <1>2

Notes == {"drift", "", "literal", "not a literal"}

\* Two texts of which a drift is one.
BothFormulas(expected, actual, at) ==
  /\ expected[at[1]][at[2]].kind = "formula" /\ actual[at[1]][at[2]].kind = "formula"
  /\ expected[at[1]][at[2]] # actual[at[1]][at[2]]

\* So _compare_cell has nothing to say of a cell, or one thing.
LEMMA CompareIs ==
  ASSUME NEW expected, NEW actual, NEW at,
         expected[at[1]][at[2]] \in Content, actual[at[1]][at[2]] \in Content,
         expected[at[1]][at[2]] # Empty
  PROVE  LET agree == Agree(expected[at[1]][at[2]], actual[at[1]][at[2]])
         IN  \/ agree /\ Compare(expected, actual, at) = {}
             \/ /\ ~agree
                /\ \E axis \in {"formula", "cell_value"}, note \in Notes :
                     /\ Compare(expected, actual, at) = {Diff(axis, at, note)}
                     /\ note = "drift" <=> BothFormulas(expected, actual, at)
                                           /\ SameEvaluatedValue(expected, actual, at)
<1> DEFINE x == expected[at[1]][at[2]]
           y == actual[at[1]][at[2]]
           agree == Agree(x, y)
           same == SameEvaluatedValue(expected, actual, at)
           drifts == BothFormulas(expected, actual, at) /\ same
           result == Compare(expected, actual, at)
<1>1. agree <=> IF x.kind = "formula" THEN x = y
                ELSE y.kind # "formula" /\ ValuesEqual(x.text, y.text)
  BY CellsAgree
<1>2. x = y => x.kind = y.kind
  OBVIOUS
<1>3. /\ x.kind = "formula" /\ y.kind = "formula" /\ x = y => result = {}
      /\ x.kind = "formula" /\ y.kind = "formula" /\ x # y /\ same => result = {Diff("formula", at, "drift")}
      /\ x.kind = "formula" /\ y.kind = "formula" /\ x # y /\ ~same => result = {Diff("formula", at, "")}
      /\ x.kind = "formula" /\ y.kind # "formula" => result = {Diff("formula", at, "literal")}
      /\ x.kind # "formula" /\ y.kind = "formula" => result = {Diff("formula", at, "not a literal")}
      /\ x.kind # "formula" /\ y.kind # "formula" /\ ValuesEqual(x.text, y.text) => result = {}
      /\ x.kind # "formula" /\ y.kind # "formula" /\ ~ValuesEqual(x.text, y.text)
           => result = {Diff("cell_value", at, "")}
  BY DEF Compare
<1>d. drifts <=> x.kind = "formula" /\ y.kind = "formula" /\ x # y /\ same
  BY DEF BothFormulas
<1> HIDE DEF x, y, same, drifts, result
<1>4. \/ agree /\ result = {}
      \/ /\ ~agree
         /\ \/ result = {Diff("formula", at, "drift")} /\ drifts
            \/ result = {Diff("formula", at, "")} /\ ~drifts
            \/ result = {Diff("formula", at, "literal")} /\ ~drifts
            \/ result = {Diff("formula", at, "not a literal")} /\ ~drifts
            \/ result = {Diff("cell_value", at, "")} /\ ~drifts
  BY <1>1, <1>2, <1>3, <1>d
<1> DEFINE Says(axis, note) == result = {Diff(axis, at, note)} /\ (note = "drift" <=> drifts)
<1>5. ~agree => \E axis \in {"formula", "cell_value"}, note \in Notes : Says(axis, note)
  <2>1. ~agree => \/ Says("formula", "drift")
                  \/ Says("formula", "")
                  \/ Says("formula", "literal")
                  \/ Says("formula", "not a literal")
                  \/ Says("cell_value", "")
    BY <1>4
  <2> HIDE DEF Says
  <2>2. \A note \in Notes : Says("formula", note) => \E axis \in {"formula", "cell_value"} : Says(axis, note)
    OBVIOUS
  <2>3. \A note \in Notes : Says("cell_value", note) => \E axis \in {"formula", "cell_value"} : Says(axis, note)
    OBVIOUS
  <2>4. /\ "drift" \in Notes /\ "" \in Notes
        /\ "literal" \in Notes /\ "not a literal" \in Notes
    BY DEF Notes
  <2> QED BY <2>1, <2>2, <2>3, <2>4
<1> QED BY <1>4, <1>5 DEF x, y, same, drifts, result

\* The scorer's differences, as a set: one for each address the reference
\* definition finds, and the drifts are called so.
LEMMA DiffsAre ==
  ASSUME NEW expected, NEW actual, IsWorkbook(expected), IsWorkbook(actual)
  PROVE  LET ss == Structure(expected, actual)
             cs == Cells(expected, actual)
         IN  /\ {d.at : d \in ss \cup cs} = Differing(expected, actual)
             /\ \A c, d \in ss \cup cs : c.at = d.at => c = d
             /\ ss \cap cs = {}
             /\ \A d \in ss \cup cs :
                  d.note = "drift" <=> d.at \in Drifts(expected, actual)
             /\ \A d \in ss \cup cs : d.at \in SheetNames \X (Refs \cup {0})
<1> DEFINE ss == Structure(expected, actual)
           cs == Cells(expected, actual)
           E == DOMAIN expected
           A == DOMAIN actual
           both == Scored(expected, actual)
           wrong == {at \in both : ~Agree(expected[at[1]][at[2]], actual[at[1]][at[2]])}
           lone == {<<s, 0>> : s \in (E \ A) \cup (A \ E)}
<1>1. /\ E \subseteq SheetNames /\ \A s \in E : \A r \in Refs : expected[s][r] \in Content
      /\ A \subseteq SheetNames /\ \A s \in A : \A r \in Refs : actual[s][r] \in Content
  BY DEF IsWorkbook
<1>2. /\ \A at \in both : /\ at \in (E \cap A) \X Refs
                          /\ expected[at[1]][at[2]] \in Content /\ actual[at[1]][at[2]] \in Content
                          /\ expected[at[1]][at[2]] # Empty
  BY <1>1 DEF Scored
<1>3. Differing(expected, actual) = lone \cup wrong
  BY DEF Differing, Scored
<1>4. \A axis, at, note : /\ Diff(axis, at, note).axis = axis /\ Diff(axis, at, note).at = at
                          /\ Diff(axis, at, note).note = note
  BY DEF Diff
<1>5. ASSUME NEW d \in cs
      PROVE  /\ d.at \in wrong /\ Compare(expected, actual, d.at) = {d} /\ d.axis # "structure"
             /\ d.note = "drift" <=> d.at \in Drifts(expected, actual)
  <2>1. PICK at \in both : d \in Compare(expected, actual, at)
    BY DEF Cells
  <2>2. PICK axis \in {"formula", "cell_value"}, note \in Notes :
          /\ ~Agree(expected[at[1]][at[2]], actual[at[1]][at[2]])
          /\ Compare(expected, actual, at) = {Diff(axis, at, note)}
          /\ note = "drift" <=> BothFormulas(expected, actual, at)
                                /\ SameEvaluatedValue(expected, actual, at)
    BY <1>2, <2>1, CompareIs
  <2>3. d = Diff(axis, at, note)
    BY <2>1, <2>2
  <2>4. d.at = at /\ d.note = note /\ d.axis = axis
    BY <1>4, <2>3
  <2>5. at \in Drifts(expected, actual)
          <=> BothFormulas(expected, actual, at) /\ SameEvaluatedValue(expected, actual, at)
    <3>1. at \in (E \cap A) \X Refs
      BY <1>2
    <3> QED BY <3>1 DEF Drifts, BothFormulas
  <2> QED BY <2>1, <2>2, <2>3, <2>4, <2>5
<1>6. ASSUME NEW at \in wrong PROVE \E d \in cs : d.at = at
  <2>1. PICK axis \in {"formula", "cell_value"}, note \in Notes :
          Compare(expected, actual, at) = {Diff(axis, at, note)}
    BY <1>2, CompareIs
  <2>2. Diff(axis, at, note) \in cs
    BY <2>1 DEF Cells
  <2> QED BY <1>4, <2>2
<1>7. ASSUME NEW d \in ss
      PROVE  \E s \in E \cup A :
               \/ d = Diff("structure", <<s, 0>>, "missing") /\ s \in E \ A
               \/ d = Diff("structure", <<s, 0>>, "extra") /\ s \in A \ E
  BY DEF Structure
<1>8. ASSUME NEW s \in (E \ A) \cup (A \ E) PROVE \E d \in ss : d.at = <<s, 0>>
  <2>1. Diff("structure", <<s, 0>>, "missing") \in ss \/ Diff("structure", <<s, 0>>, "extra") \in ss
    BY DEF Structure
  <2> QED BY <1>4, <2>1
<1> HIDE DEF ss, cs
<1>9. ASSUME NEW d \in ss
      PROVE  /\ d.at \in lone /\ d.axis = "structure" /\ d.note # "drift"
             /\ \A c \in ss : c.at = d.at => c = d
  <2>1. PICK s \in E \cup A :
               \/ d = Diff("structure", <<s, 0>>, "missing") /\ s \in E \ A
               \/ d = Diff("structure", <<s, 0>>, "extra") /\ s \in A \ E
    BY <1>7
  <2>2. d.at = <<s, 0>> /\ d.axis = "structure" /\ d.note # "drift"
    BY <1>4, <2>1
  <2>3. ASSUME NEW c \in ss, c.at = d.at PROVE c = d
    <3>1. PICK u \in E \cup A :
               \/ c = Diff("structure", <<u, 0>>, "missing") /\ u \in E \ A
               \/ c = Diff("structure", <<u, 0>>, "extra") /\ u \in A \ E
      BY <1>7
    <3>2. c.at = <<u, 0>>
      BY <1>4, <3>1
    <3>3. u = s
      BY <2>2, <2>3, <3>2
    <3> QED BY <2>1, <3>1, <3>3
  <2>4. d.at \in lone
    BY <2>1, <2>2
  <2> QED BY <2>2, <2>3, <2>4
<1>10. /\ lone \cap wrong = {}
       /\ lone \cup wrong \subseteq SheetNames \X (Refs \cup {0})
  BY <1>1, <1>2
<1>11. {d.at : d \in ss \cup cs} = lone \cup wrong
  <2>1. \A d \in ss \cup cs : d.at \in lone \cup wrong
    BY <1>5, <1>9
  <2>2. \A at \in lone \cup wrong : \E d \in ss \cup cs : d.at = at
    BY <1>6, <1>8
  <2> HIDE DEF lone, wrong
  <2> QED BY <2>1, <2>2
<1>12. \A c, d \in ss \cup cs : c.at = d.at => c = d
  <2> HIDE DEF lone, wrong
  <2>1. ASSUME NEW c \in cs, NEW d \in cs, c.at = d.at PROVE c = d
    <3>1. {c} = {d}
      BY <1>5, <2>1
    <3> QED BY <3>1
  <2>2. \A c \in ss, d \in cs : c.at # d.at
    BY <1>5, <1>9, <1>10
  <2> QED BY <1>9, <2>1, <2>2
<1>13. ss \cap cs = {}
  BY <1>5, <1>9
<1>14. \A d \in ss \cup cs : d.note = "drift" <=> d.at \in Drifts(expected, actual)
  <2>1. lone \cap Drifts(expected, actual) = {}
    BY EvalsAssumption DEF Drifts
  <2> HIDE DEF lone, wrong
  <2> QED BY <1>5, <1>9, <2>1
<1>15. \A d \in ss \cup cs : d.at \in SheetNames \X (Refs \cup {0})
  <2> HIDE DEF lone, wrong
  <2> QED BY <1>5, <1>9, <1>10
<1> QED BY <1>3, <1>11, <1>12, <1>13, <1>14, <1>15 DEF ss, cs

-----------------------------------------------------------------------------
(* The list the scorer makes of a set.                                       *)

LEMMA ListOf ==
  ASSUME NEW S, IsFiniteSet(S)
  PROVE  /\ SetToSeq(S) \in Seq(S)
         /\ Len(SetToSeq(S)) = Cardinality(S) /\ Cardinality(S) \in Nat
         /\ \A i, j \in 1..Cardinality(S) : SetToSeq(S)[i] = SetToSeq(S)[j] => i = j
         /\ \A e \in S : \E i \in 1..Cardinality(S) : SetToSeq(S)[i] = e
<1> DEFINE n == Cardinality(S)
           f == SetToSeq(S)
<1>1. n \in Nat /\ ExistsBijection(1..n, S)
  BY FS_CardinalityType
<1>2. \E g \in [1..n -> S] : IsInjective(g)
  BY <1>1 DEF ExistsBijection, Bijection, Injection
<1>3. f \in [1..n -> S] /\ IsInjective(f)
  BY <1>2 DEF SetToSeq
<1> HIDE DEF f
<1>4. f \in Injection(1..n, S)
  BY <1>3 DEF Injection
<1>5. Cardinality(1..n) = n
  BY <1>1, FS_Interval
<1>6. f \in Surjection(1..n, S)
  BY <1>4, <1>5, FS_Injection
<1>7. \A e \in S : \E i \in 1..n : f[i] = e
  BY <1>6 DEF Surjection
<1>8. f \in Seq(S) /\ Len(f) = n
  BY <1>1, <1>3
<1>9. \A i, j \in 1..n : f[i] = f[j] => i = j
  BY <1>3 DEF IsInjective
<1> QED BY <1>1, <1>7, <1>8, <1>9 DEF f

LEMMA ScoreIs ==
  ASSUME NEW expected, NEW actual, IsWorkbook(expected), IsWorkbook(actual)
  PROVE  LET report == Score(expected, actual)
             named  == {report.diffs[j].at : j \in DOMAIN report.diffs}
             wrong  == Differing(expected, actual)
         IN  /\ report.diffs = <<>> <=> wrong = {}
             /\ named \subseteq wrong /\ Cardinality(named) = Len(report.diffs)
             /\ IF report.truncated THEN named # wrong /\ Len(report.diffs) = MaxDiffs
                ELSE named = wrong
             /\ \A j \in DOMAIN report.diffs :
                  report.diffs[j].note = "drift"
                    <=> report.diffs[j].at \in Drifts(expected, actual)
<1> DEFINE ss    == Structure(expected, actual)
           cs    == Cells(expected, actual)
           all   == ss \cup cs
           wrong == Differing(expected, actual)
           raw   == SetToSeq(ss) \o SetToSeq(cs)
           n     == Len(raw)
           m     == IF n < MaxDiffs THEN n ELSE MaxDiffs
           diffs == SubSeq(raw, 1, m)
           named == {diffs[j].at : j \in DOMAIN diffs}
<1>1. /\ {d.at : d \in all} = wrong
      /\ \A c, d \in all : c.at = d.at => c = d
      /\ ss \cap cs = {}
      /\ \A d \in all : d.note = "drift" <=> d.at \in Drifts(expected, actual)
      /\ \A d \in all : d.at \in SheetNames \X (Refs \cup {0})
  BY DiffsAre
<1>2. Score(expected, actual).diffs = diffs /\ Score(expected, actual).truncated = (n > MaxDiffs)
  BY DEF Score
<1>3. MaxDiffs \in Nat \ {0}
  BY EvalsAssumption
<1> HIDE DEF ss, cs, wrong
<1>4. IsFiniteSet(all) /\ IsFiniteSet(ss) /\ IsFiniteSet(cs)
  <2> DEFINE at == [d \in all |-> d.at]
             T  == SheetNames \X (Refs \cup {0})
  <2>1. IsFiniteSet(T)
    <3>1. IsFiniteSet(SheetNames) /\ IsFiniteSet(Refs \cup {0})
      BY EvalsAssumption, FS_AddElement
    <3> QED BY <3>1, FS_Product
  <2> HIDE DEF T
  <2>2. at \in [all -> T] /\ IsInjective(at)
    BY <1>1 DEF IsInjective, T
  <2>3. IsFiniteSet(all)
    BY <2>1, <2>2, FS_Injection DEF Injection
  <2> QED BY <2>3, FS_Subset
<1>5. /\ raw \in Seq(all) /\ n \in Nat
      /\ \A i, j \in 1..n : raw[i] = raw[j] => i = j
      /\ \A d \in all : \E i \in 1..n : raw[i] = d
  <2> DEFINE s == SetToSeq(ss)
             t == SetToSeq(cs)
             k == Cardinality(ss)
             l == Cardinality(cs)
  <2>1. /\ s \in Seq(ss) /\ Len(s) = k /\ k \in Nat
        /\ \A i, j \in 1..k : s[i] = s[j] => i = j
        /\ \A d \in ss : \E i \in 1..k : s[i] = d
    BY <1>4, ListOf
  <2>2. /\ t \in Seq(cs) /\ Len(t) = l /\ l \in Nat
        /\ \A i, j \in 1..l : t[i] = t[j] => i = j
        /\ \A d \in cs : \E i \in 1..l : t[i] = d
    BY <1>4, ListOf
  <2>3. s \in Seq(all) /\ t \in Seq(all)
    BY <2>1, <2>2, SeqMonotonic
  <2> HIDE DEF s, t, k, l
  <2>4. /\ s \o t \in Seq(all) /\ Len(s \o t) = k + l
        /\ \A i \in 1..(k + l) : (s \o t)[i] = IF i <= k THEN s[i] ELSE t[i - k]
    <3>1. /\ s \o t \in Seq(all) /\ Len(s \o t) = Len(s) + Len(t)
          /\ \A i \in 1..(Len(s) + Len(t)) :
               (s \o t)[i] = IF i <= Len(s) THEN s[i] ELSE t[i - Len(s)]
      BY <2>3, ConcatProperties
    <3>2. Len(s) = k /\ Len(t) = l
      BY <2>1, <2>2
    <3> QED BY <3>1, <3>2
  <2>5. raw = s \o t
    BY DEF s, t
  <2> HIDE DEF raw
  <2>6. \A i \in 1..k : i \in 1..(k + l) /\ raw[i] = s[i] /\ s[i] \in ss
    BY <2>1, <2>2, <2>4, <2>5
  <2>7. \A i \in 1..l : k + i \in 1..(k + l) /\ raw[k + i] = t[i] /\ t[i] \in cs
    BY <2>1, <2>2, <2>4, <2>5
  <2>8. \A i \in 1..(k + l) : i \in 1..k \/ (i - k \in 1..l /\ i = k + (i - k))
    BY <2>1, <2>2
  <2>9. \A d \in all : \E i \in 1..(k + l) : raw[i] = d
    BY <2>1, <2>2, <2>6, <2>7
  <2>10. ASSUME NEW i \in 1..(k + l), NEW j \in 1..(k + l), raw[i] = raw[j] PROVE i = j
    <3>1. CASE i \in 1..k /\ j \in 1..k
      BY <2>1, <2>6, <2>10, <3>1
    <3>2. CASE i \in 1..k /\ j - k \in 1..l
      <4>1. raw[j] = t[j - k] /\ t[j - k] \in cs
        BY <2>7, <2>8, <2>1, <3>2
      <4> QED BY <1>1, <2>6, <2>10, <3>2, <4>1
    <3>3. CASE i - k \in 1..l /\ j \in 1..k
      <4>1. raw[i] = t[i - k] /\ t[i - k] \in cs
        BY <2>7, <2>8, <2>1, <3>3
      <4> QED BY <1>1, <2>6, <2>10, <3>3, <4>1
    <3>4. CASE i - k \in 1..l /\ j - k \in 1..l
      <4>1. raw[i] = t[i - k] /\ raw[j] = t[j - k]
        BY <2>7, <2>8, <2>1, <3>4
      <4>2. i - k = j - k
        BY <2>2, <2>10, <3>4, <4>1
      <4> QED BY <2>1, <4>2
    <3> QED BY <2>8, <3>1, <3>2, <3>3, <3>4
  <2>11. n = k + l
    BY <2>4, <2>5
  <2>12. raw \in Seq(all) /\ n \in Nat
    BY <2>1, <2>2, <2>4, <2>5, <2>11
  <2> HIDE DEF n
  <2> QED BY <2>9, <2>10, <2>11, <2>12
<1> HIDE DEF raw, all
<1>6. m \in 0..n /\ \A i \in 1..m : i \in 1..n
  BY <1>3, <1>5
<1>7. Len(diffs) = m /\ DOMAIN diffs = 1..m /\ \A i \in 1..m : diffs[i] = raw[i] /\ raw[i] \in all
  <2>1. \A i \in 1..n : raw[i] \in all
    BY <1>5
  <2>2. \A i \in 1..m : raw[i] \in all
    BY <1>6, <2>1
  <2> HIDE DEF m, n
  <2>3. m \in Nat /\ m \in Int
    BY <1>6, <1>5
  <2>4. /\ diffs \in Seq(all) /\ Len(diffs) = IF 1 <= m THEN m - 1 + 1 ELSE 0
        /\ \A i \in 1..(m - 1 + 1) : diffs[i] = raw[1 + i - 1]
    BY <2>2, <2>3, SubSeqProperties
  <2>5. Len(diffs) = m
    BY <2>3, <2>4
  <2>6. \A i \in 1..m : diffs[i] = raw[i]
    <3>1. m - 1 + 1 = m /\ \A i \in 1..m : 1 + i - 1 = i
      BY <2>3
    <3> QED BY <2>4, <3>1
  <2> HIDE DEF diffs
  <2> QED BY <2>2, <2>4, <2>5, <2>6
<1>8. \A i, j \in 1..n : raw[i].at = raw[j].at => i = j
  <2>1. \A i \in 1..n : raw[i] \in all
    BY <1>5
  <2>2. \A c, d \in all : c.at = d.at => c = d
    BY <1>1
  <2> HIDE DEF n
  <2> QED BY <1>5, <2>1, <2>2
<1> HIDE DEF diffs
<1>9. named = {raw[i].at : i \in 1..m}
  BY <1>7
<1>10. Cardinality(named) = m
  <2> DEFINE g == [i \in 1..m |-> raw[i].at]
  <2>1. g \in Bijection(1..m, named)
    <3>1. g \in [1..m -> named]
      BY <1>9
    <3>2. IsInjective(g)
      <4> HIDE DEF m, n
      <4> QED BY <1>6, <1>8 DEF IsInjective
    <3>3. \A a \in named : \E i \in 1..m : g[i] = a
      BY <1>9
    <3> HIDE DEF g, named
    <3> QED BY <3>1, <3>2, <3>3 DEF Bijection, Injection, Surjection
  <2>2. m \in Nat
    BY <1>5, <1>6
  <2> QED BY <2>1, <2>2, FS_CountingElements DEF ExistsBijection
<1>11. named \subseteq wrong
  BY <1>1, <1>7, <1>9
<1>12. n > MaxDiffs => named # wrong /\ m = MaxDiffs
  <2> SUFFICES ASSUME n > MaxDiffs PROVE named # wrong /\ m = MaxDiffs
    OBVIOUS
  <2>1. m = MaxDiffs /\ m + 1 \in 1..n /\ m + 1 \notin 1..m
    BY <1>3, <1>5
  <2> HIDE DEF m, n
  <2>2. raw[m + 1].at \in wrong
    <3>1. raw[m + 1] \in all
      BY <1>5, <2>1, ElementOfSeq DEF n
    <3> QED BY <1>1, <3>1
  <2>3. raw[m + 1].at \notin named
    BY <1>6, <1>8, <1>9, <2>1
  <2> QED BY <2>1, <2>2, <2>3
<1>13. ~(n > MaxDiffs) => named = wrong
  <2> SUFFICES ASSUME ~(n > MaxDiffs) PROVE wrong \subseteq named
    BY <1>11
  <2>1. m = n
    BY <1>3, <1>5
  <2> HIDE DEF m, n
  <2> QED BY <1>1, <1>5, <1>9, <2>1
<1>14. diffs = <<>> <=> wrong = {}
  <2>1. diffs = <<>> <=> m = 0
    <3>1. diffs = <<>> => m = 0
      BY <1>7
    <3>2. m = 0 => diffs = <<>>
      <4>1. m = 0 => m < 1 /\ m \in Int
        OBVIOUS
      <4> HIDE DEF m
      <4> QED BY <4>1, SubSeqEmpty DEF diffs
    <3> QED BY <3>1, <3>2
  <2>2. m = 0 <=> n = 0
    BY <1>3, <1>5
  <2>3. n = 0 <=> all = {}
    <3>1. n = 0 => all = {}
      BY <1>5
    <3>2. n # 0 => 1 \in 1..n
      BY <1>5
    <3>3. n # 0 => all # {}
      BY <1>5, <3>2
    <3> QED BY <3>1, <3>3
  <2>4. all = {} <=> wrong = {}
    BY <1>1
  <2> QED BY <2>1, <2>2, <2>3, <2>4
<1>15. ASSUME NEW j \in DOMAIN diffs
       PROVE  diffs[j].note = "drift" <=> diffs[j].at \in Drifts(expected, actual)
  BY <1>1, <1>7
<1>16. IF n > MaxDiffs THEN named # wrong /\ Len(diffs) = MaxDiffs ELSE named = wrong
  BY <1>7, <1>12, <1>13
<1> HIDE DEF n, m
<1> QED BY <1>2, <1>7, <1>10, <1>11, <1>14, <1>15, <1>16 DEF wrong

-----------------------------------------------------------------------------
(* A case.                                                                   *)

\* The part of ReportNamesDifferences that is about one report.
ReportIs(r, expected, actual) ==
  LET named == {r.diffs[j].at : j \in DOMAIN r.diffs}
      wrong == Differing(expected, actual)
  IN  /\ named \subseteq wrong /\ Cardinality(named) = Len(r.diffs)
      /\ IF r.truncated THEN named # wrong /\ Len(r.diffs) = MaxDiffs ELSE named = wrong
      /\ \A j \in DOMAIN r.diffs :
           r.diffs[j].note = "drift" <=> r.diffs[j].at \in Drifts(expected, actual)

LEMMA RunCaseIs ==
  ASSUME NEW case, NEW run, IsWorkbook(case.expected), IsRun(run)
  PROVE  LET r == RunCase(case, run)
             wrong == Differing(case.expected, run.book)
         IN  /\ r.case_id = case.case_id /\ r.verdict \in Verdicts
             /\ r.verdict = "errored" <=> run.raised
             /\ r.verdict = "passed" <=> ~run.raised /\ wrong = {}
             /\ ~run.raised => ReportIs(r, case.expected, run.book)
<1> DEFINE r == RunCase(case, run)
           report == Score(case.expected, run.book)
           wrong == Differing(case.expected, run.book)
<1>1. IsWorkbook(run.book) /\ run.raised \in BOOLEAN
  BY BooksAre DEF IsRun
<1>2. report.diffs = <<>> <=> wrong = {}
  BY <1>1, ScoreIs
<1>3. ReportIs(report, case.expected, run.book)
  BY <1>1, ScoreIs DEF ReportIs
<1> HIDE DEF report
<1>4. CASE run.raised
  BY <1>4 DEF RunCase, CaseResult, Verdicts
<1>5. CASE ~run.raised
  <2>1. r = CaseResult(case.case_id, IF report.diffs = <<>> THEN "passed" ELSE "failed", report)
    BY <1>5 DEF RunCase, report
  <2>2. /\ r.case_id = case.case_id /\ r.diffs = report.diffs /\ r.truncated = report.truncated
        /\ r.verdict = IF report.diffs = <<>> THEN "passed" ELSE "failed"
    BY <2>1 DEF CaseResult
  <2> HIDE DEF r
  <2>3. ReportIs(r, case.expected, run.book)
    BY <1>3, <2>2 DEF ReportIs
  <2>4. r.verdict \in {"passed", "failed"} /\ (r.verdict = "passed" <=> wrong = {})
    BY <1>2, <2>2
  <2>5. "passed" # "errored" /\ "failed" # "errored"
    OBVIOUS
  <2> HIDE DEF wrong
  <2> QED BY <1>5, <2>2, <2>3, <2>4, <2>5 DEF Verdicts, r, wrong
<1> QED BY <1>1, <1>4, <1>5

\* The cases of the suite, how many of them are run, and what each should give.
Listed == IF suite = "golden" THEN golden ELSE manifest
Wanted == IF suite = "golden" THEN Len(golden) ELSE Kept
Tape(i) == cassettes[golden[i].case_id]
RunOf(i) == IF suite = "golden" THEN Produced(Tape(i).actions) ELSE NewRun
ResultOf(i) ==
  IF suite = "golden" /\ Tape(i).found = "no"
  THEN CaseResult(golden[i].case_id, "errored", NoReport)
  ELSE RunCase(Listed[i], RunOf(i))

FilesOK ==
  /\ suite \in {"golden", "spreadsheetbench"} /\ gate \in BOOLEAN /\ baseline \in Baselines
  /\ suite = "golden" =>
       golden \in GoldenFiles /\ cassettes \in [Ids -> Recordings] /\ manifest = <<>>
  /\ suite = "spreadsheetbench" => manifest \in Manifests /\ golden = <<>>

LEMMA CasesAre ==
  ASSUME FilesOK
  PROVE  /\ Listed \in Seq(Range(Listed)) /\ Len(Listed) \in Nat
         /\ Wanted \in 0..Len(Listed) /\ Wanted \in Nat
         /\ \A i \in 1..Len(Listed) : /\ i \in DOMAIN Listed
                                      /\ Listed[i].case_id \in Ids /\ IsWorkbook(Listed[i].expected)
         /\ \A i, j \in 1..Len(Listed) : Listed[i].case_id = Listed[j].case_id => i = j
         /\ suite = "spreadsheetbench" => Wanted = Kept
<1>1. IsFile(Listed)
  BY EvalsAssumption DEF Listed, FilesOK
<1>2. MaxCases \in Nat
  BY EvalsAssumption
<1>3. Listed \in Seq(Range(Listed)) /\ Len(Listed) \in Nat /\ DOMAIN Listed = 1..Len(Listed)
  BY <1>1 DEF IsFile
<1>4. Wanted \in 0..Len(Listed) /\ (suite = "spreadsheetbench" => Wanted = Kept)
  BY <1>2, <1>3 DEF Wanted, Kept, Listed
<1> QED BY <1>1, <1>3, <1>4 DEF IsFile

\* A case that was run has the verdict the reference definitions give it.
LEMMA ResultIs ==
  ASSUME FilesOK, NEW i \in 1..Wanted, suite = "golden" => Tape(i).found # "stale"
  PROVE  LET r == ResultOf(i)
             c == Listed[i]
             wrong == Differing(c.expected, Book(c.case_id))
             ran == suite = "golden" => Runs(c.case_id)
         IN  /\ r.case_id = c.case_id /\ r.verdict \in Verdicts
             /\ r.verdict = "errored" <=> ~ran
             /\ r.verdict = "passed" <=> ran /\ wrong = {}
             /\ ran => ReportIs(r, c.expected, Book(c.case_id))
<1> DEFINE c == Listed[i]
           ran == suite = "golden" => Runs(c.case_id)
<1>1. i \in 1..Len(Listed) /\ c.case_id \in Ids /\ IsWorkbook(c.expected)
  BY CasesAre
<1>2. CASE suite = "spreadsheetbench"
  <2>1. suite # "golden" /\ Book(c.case_id) = Blank
    BY <1>2 DEF Book
  <2>2. IsRun(NewRun) /\ NewRun.book = Blank /\ ~NewRun.raised
    BY BlankIsWorkbook, BooksAre DEF NewRun, IsRun
  <2>3. ResultOf(i) = RunCase(c, NewRun)
    BY <2>1 DEF ResultOf, RunOf
  <2>4. /\ RunCase(c, NewRun).case_id = c.case_id /\ RunCase(c, NewRun).verdict \in Verdicts
        /\ RunCase(c, NewRun).verdict = "errored" <=> NewRun.raised
        /\ RunCase(c, NewRun).verdict = "passed"
             <=> ~NewRun.raised /\ Differing(c.expected, NewRun.book) = {}
        /\ ~NewRun.raised => ReportIs(RunCase(c, NewRun), c.expected, NewRun.book)
    BY <1>1, <2>2, RunCaseIs
  <2> HIDE DEF c
  <2> QED BY <2>1, <2>2, <2>3, <2>4 DEF c
<1>3. CASE suite = "golden"
  <2>1. c = golden[i] /\ Tape(i) = cassettes[c.case_id] /\ Tape(i) \in Recordings
    BY <1>1, <1>3 DEF Listed, Tape, FilesOK
  <2>2. CASE Tape(i).found = "no"
    <3>1. ResultOf(i) = CaseResult(c.case_id, "errored", NoReport)
      BY <1>3, <2>1, <2>2 DEF ResultOf
    <3>2. ~Runs(c.case_id)
      BY <2>1, <2>2 DEF Runs
    <3>3. ResultOf(i).case_id = c.case_id /\ ResultOf(i).verdict = "errored"
      BY <3>1 DEF CaseResult
    <3> QED BY <1>3, <3>2, <3>3 DEF Verdicts
  <2>3. CASE Tape(i).found # "no"
    <3>1. Tape(i).found = "yes" /\ Tape(i).actions \in Seq(Action)
      <4>1. \/ Tape(i) = Missing \/ Tape(i) = Rejected
            \/ Tape(i).found = "yes" /\ Tape(i).actions \in Seq(Action)
        BY <2>1, EvalsAssumption
      <4> QED BY <1>3, <2>3, <4>1 DEF Missing, Rejected
    <3> DEFINE run == Produced(Tape(i).actions)
    <3>2. IsRun(run)
      BY <3>1, ProducedIsRun
    <3>3. /\ ResultOf(i) = RunCase(c, run) /\ Book(c.case_id) = run.book
          /\ Runs(c.case_id) <=> ~run.raised
      BY <1>3, <2>1, <2>3, <3>1 DEF ResultOf, RunOf, Book, Runs
    <3>4. run.raised \in BOOLEAN
      BY <3>2 DEF IsRun
    <3> HIDE DEF run
    <3>5. /\ RunCase(c, run).case_id = c.case_id /\ RunCase(c, run).verdict \in Verdicts
          /\ RunCase(c, run).verdict = "errored" <=> run.raised
          /\ RunCase(c, run).verdict = "passed"
               <=> ~run.raised /\ Differing(c.expected, run.book) = {}
          /\ ~run.raised => ReportIs(RunCase(c, run), c.expected, run.book)
      BY <1>1, <3>2, RunCaseIs
    <3> HIDE DEF c
    <3> QED BY <1>3, <3>3, <3>4, <3>5 DEF c
  <2> QED BY <2>2, <2>3
<1> QED BY <1>2, <1>3 DEF FilesOK

-----------------------------------------------------------------------------
(* The run: a result for each case in turn, then one verdict on all of them. *)

Failures == {[prefix |-> Prefix(results[i]), case_id |-> results[i].case_id] :
               i \in {j \in DOMAIN results : results[j].verdict # "passed"}}

RanOK ==
  /\ results \in Seq({ResultOf(i) : i \in 1..Wanted}) /\ Len(results) <= Wanted
  /\ \A i \in 1..Len(results) :
       /\ results[i] = ResultOf(i)
       /\ suite = "golden" => Tape(i).found # "stale"

OutcomeOK ==
  pc = "exited" /\ gate =>
    /\ exit \in {0, 1}
    /\ suite = "golden" => /\ exit = 0 <=> Regressed = {}
                           /\ exit = 1 => told = Failures
    /\ suite = "spreadsheetbench" => /\ exit = 0 => TRUE \in BenchHolds
                                     /\ exit = 1 => FALSE \in BenchHolds

\* Only a cassette that the schema refuses ends the golden suite early.
RaiseOK ==
  pc = "raised" /\ suite = "golden" =>
    exit = 1 /\ \E i \in DOMAIN golden : Stale(golden[i].case_id)

GateInv ==
  /\ FilesOK /\ RanOK /\ OutcomeOK /\ RaiseOK
  /\ pc \in {"running", "judging", "exited", "raised"}
  /\ pc \in {"judging", "exited"} => Len(results) = Wanted

LEMMA GateInit == Init => GateInv
<1> SUFFICES ASSUME Init PROVE GateInv
  OBVIOUS
<1>1. FilesOK
  BY DEF Init, FilesOK
<1>2. Wanted \in Nat
  BY <1>1, CasesAre
<1>3. results = <<>> /\ pc = "running"
  BY DEF Init
<1>4. RanOK
  <2> DEFINE S == {ResultOf(i) : i \in 1..Wanted}
  <2>1. <<>> \in Seq(S) /\ Len(<<>>) = 0
    BY EmptySeq
  <2> HIDE DEF S
  <2>2. results \in Seq(S) /\ Len(results) = 0
    BY <1>3, <2>1
  <2> QED BY <1>2, <2>2 DEF RanOK, S
<1> QED BY <1>1, <1>3, <1>4 DEF GateInv, OutcomeOK, RaiseOK

\* Nothing that the files say of the cases changes while they are run.
LEMMA FilesKept ==
  ASSUME files' = files
  PROVE  /\ FilesOK => FilesOK'
         /\ Wanted' = Wanted /\ Listed' = Listed
         /\ \A i : ResultOf(i)' = ResultOf(i) /\ Tape(i)' = Tape(i)
<1>1. /\ suite' = suite /\ golden' = golden /\ manifest' = manifest /\ cassettes' = cassettes
      /\ gate' = gate /\ baseline' = baseline
  BY DEF files
<1> QED BY <1>1 DEF FilesOK, Wanted, Listed, ResultOf, Tape, Kept, RunOf

\* The next case's result is appended to the results so far.
LEMMA ResultAdded ==
  ASSUME FilesOK, RanOK, files' = files, Len(results) + 1 <= Wanted,
         results' = Append(results, ResultOf(Len(results) + 1)),
         suite = "golden" => Tape(Len(results) + 1).found # "stale"
  PROVE  RanOK'
<1> DEFINE S == {ResultOf(i) : i \in 1..Wanted}
           n == Len(results)
<1>1. /\ Wanted' = Wanted /\ \A i : ResultOf(i)' = ResultOf(i) /\ Tape(i)' = Tape(i)
      /\ suite' = suite
  BY FilesKept DEF files
<1>2. results \in Seq(S) /\ n \in Nat /\ Wanted \in Nat
  BY CasesAre DEF RanOK
<1>3. n + 1 \in 1..Wanted /\ ResultOf(n + 1) \in S
  BY <1>2
<1>4. /\ results' \in Seq(S) /\ Len(results') = n + 1
      /\ \A i \in 1..n : results'[i] = results[i]
      /\ results'[n + 1] = ResultOf(n + 1)
  <2> HIDE DEF S
  <2> QED BY <1>2, <1>3
<1>5. {ResultOf(i)' : i \in 1..Wanted'} = S
  BY <1>1
<1>6. \A i \in 1..(n + 1) : i \in 1..n \/ i = n + 1
  BY <1>2
<1>7. \A i \in 1..(n + 1) : /\ results'[i] = ResultOf(i)
                            /\ suite = "golden" => Tape(i).found # "stale"
  <2> HIDE DEF S
  <2> QED BY <1>4, <1>6 DEF RanOK
<1> HIDE DEF S
<1> QED BY <1>1, <1>3, <1>4, <1>5, <1>7 DEF RanOK

LEMMA GateStep ==
  ASSUME GateInv, [Next]_vars
  PROVE  GateInv'
<1>1. files' = files
  BY DEF Next, GoldenCase, BenchRaises, BenchCase, SuiteDone, Judge, files, vars
<1>2. /\ FilesOK /\ FilesOK' /\ Wanted' = Wanted /\ Listed' = Listed
      /\ \A i : ResultOf(i)' = ResultOf(i) /\ Tape(i)' = Tape(i)
      /\ suite' = suite /\ gate' = gate /\ baseline' = baseline
      /\ manifest' = manifest /\ golden' = golden
  BY <1>1, FilesKept DEF GateInv, files
<1>3. results' = results => RanOK'
  <2> SUFFICES ASSUME results' = results PROVE RanOK'
    OBVIOUS
  <2>1. {ResultOf(i)' : i \in 1..Wanted'} = {ResultOf(i) : i \in 1..Wanted}
    BY <1>2
  <2> QED BY <1>2, <2>1 DEF GateInv, RanOK
<1>4. CASE GoldenCase
  <2> DEFINE n == Len(results)
  <2>1. n \in Nat /\ n + 1 <= Wanted /\ suite = "golden" /\ pc = "running"
    BY <1>2, <1>4, CasesAre DEF GoldenCase, Wanted, GateInv, RanOK
  <2>2. CASE Tape(n + 1).found = "stale"
    <3>1. pc' = "raised" /\ results' = results /\ exit' = 1
      BY <1>4, <2>2 DEF GoldenCase, Tape
    <3>2. (\E i \in DOMAIN golden : Stale(golden[i].case_id))'
      <4>1. n + 1 \in DOMAIN golden
        BY <1>2, <2>1, CasesAre DEF Listed
      <4>2. cassettes' = cassettes
        BY <1>1 DEF files
      <4>3. \E i \in DOMAIN golden : Stale(golden[i].case_id)
        BY <2>2, <4>1 DEF Stale, Tape
      <4> QED BY <1>2, <4>2, <4>3 DEF Stale
    <3> QED BY <1>2, <1>3, <3>1, <3>2 DEF GateInv, OutcomeOK, RaiseOK
  <2>3. CASE Tape(n + 1).found # "stale"
    <3>1. pc' = pc /\ results' = Append(results, ResultOf(n + 1))
      BY <1>4, <2>1, <2>3 DEF GoldenCase, Tape, ResultOf, RunOf, Listed
    <3>2. RanOK'
      BY <1>1, <1>2, <2>1, <2>3, <3>1, ResultAdded DEF GateInv
    <3> QED BY <1>2, <2>1, <3>1, <3>2 DEF GateInv, OutcomeOK, RaiseOK
  <2> QED BY <2>2, <2>3
<1>5. CASE BenchCase
  <2> DEFINE n == Len(results)
  <2>1. n \in Nat /\ n + 1 <= Wanted /\ suite # "golden" /\ pc = "running"
    BY <1>2, <1>5, CasesAre DEF BenchCase, Wanted, GateInv, RanOK
  <2>2. pc' = pc /\ results' = Append(results, ResultOf(n + 1))
    BY <1>5, <2>1 DEF BenchCase, ResultOf, RunOf, Listed
  <2>3. RanOK'
    BY <1>1, <1>2, <2>1, <2>2, ResultAdded DEF GateInv
  <2> QED BY <1>2, <2>1, <2>2, <2>3 DEF GateInv, OutcomeOK, RaiseOK
<1>9. CASE BenchRaises
  <2>1. pc' = "raised" /\ results' = results /\ suite # "golden"
    BY <1>9 DEF BenchRaises
  <2> QED BY <1>2, <1>3, <2>1 DEF GateInv, OutcomeOK, RaiseOK
<1>6. CASE SuiteDone
  <2>1. pc' = "judging" /\ results' = results /\ Len(results) = Wanted
    BY <1>6 DEF SuiteDone, Wanted
  <2> QED BY <1>2, <1>3, <2>1 DEF GateInv, OutcomeOK, RaiseOK
<1>7. CASE Judge
  <2>1. pc = "judging" /\ pc' = "exited" /\ results' = results /\ Len(results) = Wanted
    BY <1>7 DEF Judge, GateInv
  <2>2. /\ Regressed' = Regressed /\ BenchHolds' = BenchHolds /\ Failures' = Failures
    BY <1>2, <2>1 DEF Regressed, Required, BenchHolds, Count, Failures
  <2>3. PICK held \in IF suite = "golden" THEN {Regressed = {}} ELSE BenchHolds :
          IF gate /\ ~held THEN exit' = 1 /\ told' = Failures ELSE exit' = 0
    BY <1>7 DEF Judge, Failures
  <2>4. suite = "golden" => (held <=> Regressed = {})
    BY <2>3
  <2>5. suite = "spreadsheetbench" => held \in BenchHolds /\ held \in BOOLEAN
    <3>1. ASSUME NEW h \in BenchHolds PROVE h \in BOOLEAN
      <4> DEFINE drop  == baseline.percent * Len(results)
                 share == 100 * Count("passed") + 2 * Len(results)
      <4>1. /\ Len(results) = 0 => BenchHolds = {TRUE}
            /\ Len(results) # 0 /\ drop = share => BenchHolds = BOOLEAN
            /\ Len(results) # 0 /\ drop # share => BenchHolds = {drop < share}
        BY DEF BenchHolds
      <4>2. \A x, y : (x < y) \in BOOLEAN
        OBVIOUS
      <4> HIDE DEF drop, share
      <4>3. (drop < share) \in BOOLEAN
        BY <4>2
      <4>4. CASE Len(results) = 0
        <5>1. h \in {TRUE}
          BY <3>1, <4>1, <4>4
        <5> QED BY <5>1
      <4>5. CASE Len(results) # 0 /\ drop = share
        BY <3>1, <4>1, <4>5
      <4>6. CASE Len(results) # 0 /\ drop # share
        <5>1. BenchHolds = {drop < share}
          BY <4>1, <4>6, Zenon
        <5>2. h = (drop < share)
          BY <3>1, <5>1, Zenon
        <5> QED BY <4>3, <5>2, Zenon
      <4> QED BY <4>4, <4>5, <4>6
    <3> QED BY <2>3, <3>1
  <2>6. OutcomeOK'
    <3> SUFFICES ASSUME gate
                 PROVE  /\ exit' \in {0, 1}
                        /\ suite = "golden" => /\ exit' = 0 <=> Regressed = {}
                                               /\ exit' = 1 => told' = Failures
                        /\ suite = "spreadsheetbench" => /\ exit' = 0 => TRUE \in BenchHolds
                                                         /\ exit' = 1 => FALSE \in BenchHolds
      BY <1>2, <2>2 DEF OutcomeOK
    <3>1. suite \in {"golden", "spreadsheetbench"} /\ "golden" # "spreadsheetbench"
      BY <1>2 DEF FilesOK
    <3>2. CASE suite = "golden"
      BY <2>3, <2>4, <3>1, <3>2
    <3>3. CASE suite = "spreadsheetbench" /\ held
      <4>1. exit' = 0
        BY <2>3, <3>3
      <4>2. held = TRUE
        BY <2>5, <3>3, Zenon
      <4>3. TRUE \in BenchHolds
        BY <2>5, <3>3, <4>2, Zenon
      <4>4. exit' # 1 /\ exit' \in {0, 1} /\ suite # "golden"
        BY <3>1, <3>3, <4>1
      <4> QED BY <4>3, <4>4, Zenon
    <3>4. CASE suite = "spreadsheetbench" /\ ~held
      <4>1. exit' = 1
        BY <2>3, <3>4
      <4>2. held = FALSE
        BY <2>5, <3>4, Zenon
      <4>3. FALSE \in BenchHolds
        BY <2>5, <3>4, <4>2, Zenon
      <4>4. exit' # 0 /\ exit' \in {0, 1} /\ suite # "golden"
        BY <3>1, <3>4, <4>1
      <4> QED BY <4>3, <4>4, Zenon
    <3> QED BY <3>1, <3>2, <3>3, <3>4
  <2> QED BY <1>2, <1>3, <2>1, <2>6 DEF GateInv, RaiseOK
<1>8. CASE UNCHANGED vars
  <2>1. pc' = pc /\ results' = results /\ exit' = exit /\ told' = told
    BY <1>8 DEF vars
  <2>2. /\ Regressed' = Regressed /\ BenchHolds' = BenchHolds /\ Failures' = Failures
    BY <1>2, <2>1 DEF Regressed, Required, BenchHolds, Count, Failures
  <2>3. cassettes' = cassettes
    BY <1>1 DEF files
  <2>4. RaiseOK'
    BY <1>2, <2>1, <2>3 DEF GateInv, RaiseOK, Stale
  <2> QED BY <1>2, <1>3, <2>1, <2>2, <2>4 DEF GateInv, OutcomeOK
<1> QED BY <1>4, <1>5, <1>6, <1>7, <1>8, <1>9 DEF Next

LEMMA GateAlways == Spec => []GateInv
<1>1. GateInv /\ [Next]_vars => GateInv'
  BY GateStep
<1> QED BY <1>1, GateInit, PTL DEF Spec

\* A row of the results is what the reference definitions say of its case.
LEMMA RowIs ==
  ASSUME GateInv, NEW i \in DOMAIN results
  PROVE  LET r == results[i]
             c == Listed[i]
             wrong == Differing(c.expected, Book(c.case_id))
             ran == suite = "golden" => Runs(c.case_id)
         IN  /\ i \in 1..Len(results) /\ i \in 1..Wanted
             /\ r.case_id = c.case_id /\ r.verdict \in Verdicts
             /\ r.verdict = "errored" <=> ~ran
             /\ r.verdict = "passed" <=> ran /\ wrong = {}
             /\ ran => ReportIs(r, c.expected, Book(c.case_id))
<1>1. FilesOK /\ Wanted \in Nat
  BY CasesAre DEF GateInv
<1>2. i \in 1..Len(results) /\ Len(results) \in Nat /\ Len(results) <= Wanted
  BY DEF GateInv, RanOK
<1>3. i \in 1..Wanted
  BY <1>1, <1>2
<1>4. results[i] = ResultOf(i) /\ (suite = "golden" => Tape(i).found # "stale")
  BY <1>2 DEF GateInv, RanOK
<1> QED BY <1>1, <1>2, <1>3, <1>4, ResultIs

\* The golden gate is green only when every case the baseline requires is listed,
\* replays to its end and comes out without a mistake, and red only for one that is
\* not reproduced to the letter or for a cassette that is refused (check_golden,
\* _run_golden): whatever the cases, the cassettes and the baseline say.
THEOREM GateDecidesRight == Spec => []GateIsRight
<1>1. ASSUME GateInv, Judged("golden")
      PROVE  exit = 0 <=> \A id \in Required :
                            \E i \in DOMAIN golden : golden[i].case_id = id /\ Reproduced(golden[i])
  <2>1. suite = "golden" /\ pc = "exited" /\ gate /\ (exit = 0 <=> Regressed = {})
    BY <1>1 DEF Judged, GateInv, OutcomeOK
  <2>2. Listed = golden /\ DOMAIN results = DOMAIN golden
    <3>1. Listed = golden /\ Wanted = Len(golden) /\ Len(results) = Wanted
      BY <1>1, <2>1 DEF Listed, Wanted, GateInv
    <3>2. DOMAIN golden = 1..Len(golden)
      BY <1>1, <3>1, CasesAre DEF GateInv
    <3>3. DOMAIN results = 1..Len(results)
      BY <1>1 DEF GateInv, RanOK
    <3> QED BY <3>1, <3>2, <3>3
  <2>3. ASSUME NEW i \in DOMAIN golden
        PROVE  /\ results[i].case_id = golden[i].case_id
               /\ results[i].verdict = "passed" <=> Reproduced(golden[i])
    <3>1. /\ results[i].case_id = golden[i].case_id
          /\ results[i].verdict = "passed"
               <=> Runs(golden[i].case_id)
                   /\ Differing(golden[i].expected, Book(golden[i].case_id)) = {}
      BY <1>1, <2>1, <2>2, RowIs
    <3> QED BY <3>1 DEF Reproduced
  <2>4. Regressed = {} <=> \A id \in Required : \E i \in DOMAIN results :
                             results[i].case_id = id /\ results[i].verdict = "passed"
    BY DEF Regressed
  <2> QED BY <2>1, <2>2, <2>3, <2>4
<1>2. \A case : Reproduced(case) => ~Mistaken(case)
  BY DEF Reproduced, Mistaken, Wrong
<1>3. ASSUME GateInv, Ended("golden"), pc = "raised"
      PROVE  exit = 1 /\ \E i \in DOMAIN golden : Stale(golden[i].case_id)
  BY <1>3 DEF Ended, GateInv, RaiseOK
<1>4. Ended("golden") => Judged("golden") \/ pc = "raised"
  BY DEF Ended, Judged
<1>5. GateInv => GateIsRight
  <2> SUFFICES ASSUME GateInv, Ended("golden") PROVE GateIsRight
    BY DEF GateIsRight
  <2>1. CASE Judged("golden")
    BY <1>1, <1>2, <2>1 DEF GateIsRight
  <2>2. CASE pc = "raised"
    BY <1>3, <2>2 DEF GateIsRight
  <2> QED BY <1>4, <2>1, <2>2
<1> QED BY <1>5, GateAlways, PTL

\* A case with a mistake fails, and what a report names is what differs, the
\* drifts and nothing else by that name: the scorer's walk over the sheets and
\* cells, its list cut at the limit and its mark agree with the definition by
\* sets, for workbooks and limits of any size (score_workbooks, _compare_cell).
THEOREM ReportsNameDifferences == Spec => []ReportNamesDifferences
<1>1. ASSUME GateInv, NEW i \in DOMAIN results, results[i].verdict # "errored"
      PROVE  LET r == results[i]
                 expected == Listed[i].expected
                 wrong == Differing(expected, Book(r.case_id))
             IN  /\ r.verdict = "failed" <=> wrong # {}
                 /\ Wrong(expected, Book(r.case_id)) \subseteq wrong
                 /\ ReportIs(r, expected, Book(r.case_id))
  <2> DEFINE r == results[i]
             c == Listed[i]
             wrong == Differing(c.expected, Book(c.case_id))
             ran == suite = "golden" => Runs(c.case_id)
  <2>1. /\ r.case_id = c.case_id /\ r.verdict \in Verdicts
        /\ r.verdict = "errored" <=> ~ran
        /\ r.verdict = "passed" <=> ran /\ wrong = {}
        /\ ran => ReportIs(r, c.expected, Book(c.case_id))
    BY <1>1, RowIs
  <2> HIDE DEF r, c, ran
  <2>2. r.verdict # "errored"
    BY <1>1 DEF r
  <2>3. r.verdict \in {"passed", "failed"}
    BY <2>1, <2>2 DEF Verdicts
  <2>4. r.verdict = "failed" <=> wrong # {}
    BY <2>1, <2>2, <2>3
  <2>5. Wrong(c.expected, Book(c.case_id)) \subseteq wrong
    BY DEF Wrong
  <2> QED BY <2>1, <2>2, <2>4, <2>5 DEF r, c
<1>2. GateInv => ReportNamesDifferences
  BY <1>1 DEF ReportNamesDifferences, ReportIs, Listed
<1> QED BY <1>2, GateAlways, PTL

\* When the command ends red by its verdict, the lines on stderr tell a failed case
\* from one that did not run, and leave out no listed case that did not run or came
\* out with a mistake, required or not (evals.cli's triage prefix).
THEOREM TriageIsTold == Spec => []TriageTellsTheCause
<1>1. ASSUME GateInv, Judged("golden"), exit = 1
      PROVE  /\ \A line \in told : line.prefix = "FAILED" <=> Runs(line.case_id)
             /\ \A i \in DOMAIN golden :
                  Mistaken(golden[i]) => \E line \in told : line.case_id = golden[i].case_id
  <2>1. suite = "golden" /\ pc = "exited" /\ told = Failures
    BY <1>1 DEF Judged, GateInv, OutcomeOK
  <2>2. Listed = golden /\ DOMAIN results = DOMAIN golden
    <3>1. Listed = golden /\ Wanted = Len(golden) /\ Len(results) = Wanted
      BY <1>1, <2>1 DEF Listed, Wanted, GateInv
    <3>2. DOMAIN golden = 1..Len(golden)
      BY <1>1, <3>1, CasesAre DEF GateInv
    <3>3. DOMAIN results = 1..Len(results)
      BY <1>1 DEF GateInv, RanOK
    <3> QED BY <3>1, <3>2, <3>3
  <2>3. ASSUME NEW i \in DOMAIN golden
        PROVE  /\ results[i].case_id = golden[i].case_id
               /\ results[i].verdict = "errored" <=> ~Runs(golden[i].case_id)
               /\ results[i].verdict = "passed" <=> Reproduced(golden[i])
    <3>1. /\ results[i].case_id = golden[i].case_id
          /\ results[i].verdict = "errored" <=> ~Runs(golden[i].case_id)
          /\ results[i].verdict = "passed"
               <=> Runs(golden[i].case_id)
                   /\ Differing(golden[i].expected, Book(golden[i].case_id)) = {}
      BY <1>1, <2>1, <2>2, RowIs
    <3> QED BY <3>1 DEF Reproduced
  <2>4. ASSUME NEW line \in told PROVE line.prefix = "FAILED" <=> Runs(line.case_id)
    <3>1. PICK i \in DOMAIN golden :
            line = [prefix |-> Prefix(results[i]), case_id |-> results[i].case_id]
      BY <2>1, <2>2 DEF Failures
    <3>2. line.prefix = Prefix(results[i]) /\ line.case_id = golden[i].case_id
      BY <2>3, <3>1
    <3> QED BY <2>3, <3>2 DEF Prefix
  <2>5. ASSUME NEW i \in DOMAIN golden, ~Reproduced(golden[i])
        PROVE  \E line \in told : line.case_id = golden[i].case_id
    <3> DEFINE line == [prefix |-> Prefix(results[i]), case_id |-> results[i].case_id]
    <3>1. results[i].verdict # "passed" /\ line.case_id = golden[i].case_id
      BY <2>3, <2>5
    <3>2. line \in told
      BY <2>1, <2>2, <3>1 DEF Failures
    <3> HIDE DEF line
    <3> QED BY <3>1, <3>2
  <2>6. \A case : Mistaken(case) => ~Reproduced(case)
    BY DEF Reproduced, Mistaken, Wrong
  <2> QED BY <2>4, <2>5, <2>6
<1>2. GateInv => TriageTellsTheCause
  BY <1>1 DEF TriageTellsTheCause
<1> QED BY <1>2, GateAlways, PTL

\* The bench gate counts the share of the cases asked for that pass against the
\* baseline's, within the tolerance, whatever the limit on cases, and never
\* fails an empty run (check_spreadsheetbench).
THEOREM BenchGateDecidesRight == Spec => []BenchGateIsRight
<1>1. ASSUME GateInv, Judged("spreadsheetbench")
      PROVE  LET asked == {i \in DOMAIN manifest : i <= MaxCases}
                 good  == {i \in asked : Differing(manifest[i].expected, Blank) = {}}
                 drop  == baseline.percent * Cardinality(asked)
                 floor == (100 * Cardinality(good)) + (2 * Cardinality(asked))
             IN  IF exit = 1 THEN asked # {} /\ drop >= floor ELSE drop <= floor
  <2> DEFINE asked == {i \in DOMAIN manifest : i <= MaxCases}
             good  == {i \in asked : Differing(manifest[i].expected, Blank) = {}}
             drop  == baseline.percent * Cardinality(asked)
             floor == (100 * Cardinality(good)) + (2 * Cardinality(asked))
             n     == Len(results)
  <2>1. /\ suite = "spreadsheetbench" /\ suite # "golden" /\ Listed = manifest
        /\ Len(results) = Wanted /\ exit \in {0, 1}
        /\ exit = 0 => TRUE \in BenchHolds
        /\ exit = 1 => FALSE \in BenchHolds
    BY <1>1 DEF Judged, GateInv, OutcomeOK, Listed
  <2>2. /\ n \in Nat /\ n = Kept /\ DOMAIN results = 1..n
        /\ Len(manifest) \in Nat /\ DOMAIN manifest = 1..Len(manifest)
    <3>1. n \in Nat /\ DOMAIN results = 1..n
      BY <1>1 DEF GateInv, RanOK
    <3>2. n = Kept
      BY <1>1, <2>1, CasesAre DEF GateInv
    <3>3. Len(manifest) \in Nat /\ DOMAIN manifest = 1..Len(manifest)
      BY <1>1, <2>1, CasesAre DEF GateInv
    <3> QED BY <3>1, <3>2, <3>3
  <2>3. asked = 1..n
    <3>1. MaxCases \in Nat
      BY EvalsAssumption
    <3>2. \A i : i \in asked <=> i \in 1..n
      BY <2>2, <3>1 DEF Kept
    <3> HIDE DEF asked
    <3> QED BY <3>2
  <2>4. good = {i \in DOMAIN results : results[i].verdict = "passed"}
    <3>1. ASSUME NEW i \in 1..n
          PROVE  results[i].verdict = "passed" <=> Differing(manifest[i].expected, Blank) = {}
      <4>1. results[i].verdict = "passed"
              <=> Differing(manifest[i].expected, Book(manifest[i].case_id)) = {}
        BY <1>1, <2>1, <2>2, RowIs
      <4>2. Book(manifest[i].case_id) = Blank
        BY <2>1 DEF Book
      <4> QED BY <4>1, <4>2
    <3> HIDE DEF asked
    <3> QED BY <2>2, <2>3, <3>1
  <2>5. /\ Cardinality(asked) = n /\ Cardinality(good) = Count("passed")
        /\ Cardinality(good) \in Nat
    <3>1. IsFiniteSet(1..n) /\ Cardinality(1..n) = n
      BY <2>2, FS_Interval
    <3>2. good \subseteq 1..n
      BY <2>3
    <3>3. IsFiniteSet(good) /\ Cardinality(good) \in Nat
      BY <3>1, <3>2, FS_Subset, FS_CardinalityType
    <3> QED BY <2>3, <2>4, <3>1, <3>3 DEF Count
  <2>p. baseline.percent \in Nat
    <3>1. baseline \in Baselines
      BY <1>1 DEF GateInv, FilesOK
    <3>2. baseline.percent \in 0..100
      BY <3>1, EvalsAssumption
    <3> QED BY <3>2
  <2>6. drop \in Nat /\ floor \in Nat
    <3>1. baseline.percent \in Nat
      BY <2>p
    <3> DEFINE p == baseline.percent
               k == Cardinality(good)
    <3> HIDE DEF p, k, asked
    <3>2. p * n \in Nat /\ (100 * k) + (2 * n) \in Nat
      BY <2>2, <2>5, <3>1 DEF p, k
    <3> QED BY <2>5, <3>2 DEF p, k
  <2>7. /\ n = 0 => BenchHolds = {TRUE}
        /\ n # 0 /\ drop = floor => BenchHolds = BOOLEAN
        /\ n # 0 /\ drop # floor => BenchHolds = {drop < floor}
    <3> DEFINE d == baseline.percent * Len(results)
               f == 100 * Count("passed") + 2 * Len(results)
    <3>1. /\ Len(results) = 0 => BenchHolds = {TRUE}
          /\ Len(results) # 0 /\ d = f => BenchHolds = BOOLEAN
          /\ Len(results) # 0 /\ d # f => BenchHolds = {d < f}
      BY DEF BenchHolds
    <3> HIDE DEF asked, good
    <3>2. d = drop /\ f = floor
      BY <2>5
    <3> HIDE DEF drop, floor, d, f
    <3> QED BY <3>1, <3>2
  <2>8. n = 0 => drop <= floor
    <3> HIDE DEF asked, good
    <3> QED BY <2>5, <2>p
  <2>9. asked # {} <=> n # 0
    BY <2>2, <2>3
  <2> HIDE DEF asked, drop, floor, n
  <2>10. ASSUME exit = 1 PROVE asked # {} /\ drop >= floor
    <3>1. FALSE \in BenchHolds
      BY <2>1, <2>10
    <3>2. n # 0
      <4>1. n = 0 => FALSE \in {TRUE}
        BY <2>7, <3>1, Zenon
      <4> QED BY <4>1
    <3>3. ~(drop < floor)
      <4>1. CASE drop = floor
        BY <2>6, <4>1
      <4>2. CASE drop # floor
        <5>1. FALSE \in {drop < floor}
          BY <2>7, <3>1, <3>2, <4>2, Zenon
        <5>2. FALSE = (drop < floor)
          BY <5>1, Zenon
        <5> QED BY <5>2, Zenon
      <4> QED BY <4>1, <4>2
    <3> QED BY <2>6, <2>9, <2>10, <3>2, <3>3
  <2>11. ASSUME exit = 0 PROVE drop <= floor
    <3>1. TRUE \in BenchHolds
      BY <2>1, <2>11
    <3>2. CASE n = 0
      BY <2>8, <2>11, <3>2
    <3>3. CASE n # 0 /\ drop = floor
      BY <2>6, <2>11, <3>3
    <3>4. CASE n # 0 /\ drop # floor
      <4>1. TRUE \in {drop < floor}
        BY <2>7, <3>1, <3>4, Zenon
      <4>2. TRUE = (drop < floor)
        BY <4>1, Zenon
      <4>3. drop < floor
        BY <4>2, Zenon
      <4> QED BY <2>6, <2>11, <4>3
    <3> QED BY <3>2, <3>3, <3>4
  <2>12. IF exit = 1 THEN asked # {} /\ drop >= floor ELSE drop <= floor
    BY <2>1, <2>10, <2>11
  <2> QED BY <2>12 DEF drop, floor, asked
<1>2. GateInv => BenchGateIsRight
  BY <1>1 DEF BenchGateIsRight
<1> QED BY <1>2, GateAlways, PTL
=============================================================================
