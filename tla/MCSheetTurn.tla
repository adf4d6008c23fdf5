---------------------------- MODULE MCSheetTurn ----------------------------
(* Three cells: a free one, which the formula refers to, and a user's number *)
(* in a tinted font that is merged with the cell after it.                   *)
EXTENDS SheetTurn

CONSTANT Spellings   \* whether targets may be spelled in another way

MCCells == 1..3
MCHub   == 1
Blank   == [value |-> "empty", number |-> "general", font |-> "plain",
            width |-> "normal", merged |-> "no"]
Upload  == <<Blank,
             [Blank EXCEPT !.value = "number", !.font = "tinted", !.merged = "anchor"],
             [Blank EXCEPT !.merged = "spanned"]>>
MCOriginals == {Upload, [c \in MCCells |-> Blank]}

WriteTo(form, cells, value) ==
  [kind |-> "write", form |-> form, cells |-> cells, value |-> value,
   number |-> "keep", bold |-> "keep", width |-> "normal"]
Formatted(form, cells, number, bold) ==
  [kind |-> "format", form |-> form, cells |-> cells, value |-> "empty",
   number |-> number, bold |-> bold, width |-> "normal"]
Widened(cell) ==
  [kind |-> "width", form |-> "plain", cells |-> {cell}, value |-> "empty",
   number |-> "keep", bold |-> "keep", width |-> "wide"]

MCActions ==
  {WriteTo("plain", {1}, "text"), WriteTo("plain", {2}, "=sum"), WriteTo("plain", {2}, "number"),
   WriteTo("range", {1, 2}, "=sum"), WriteTo("range", {2, 3}, "text"),
   Formatted("plain", {1}, "keep", "yes"), Formatted("plain", {2}, "money", "keep"),
   Widened(2)}
  \cup IF Spellings
       THEN {WriteTo("spelled", {2}, "text"), Formatted("spelled", {1}, "money", "yes")}
       ELSE {}
=============================================================================
