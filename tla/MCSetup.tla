-------------------------------- MODULE MCSetup --------------------------------
EXTENDS Setup

A == [id |-> "A", name |-> "one", sources |-> "a", tidy |-> TRUE]
B == [id |-> "B", name |-> "two", sources |-> "b", tidy |-> TRUE]
File(name, sessions) == [name |-> name, sessions |-> sessions, size |-> "fits"]

(* A session more or less, another order, other sources, sources that are  *)
(* not written tidily, a size at the limit, the session of a legacy        *)
(* workbook under its folder, and a second program in the same folder.     *)
MCSpecs ==
  {File("short", <<A>>), File("short", <<A, B>>), File("short", <<B, A>>),
   File("short", <<[A EXCEPT !.sources = "a2"], B>>),
   File("short", <<[A EXCEPT !.tidy = FALSE], B>>),
   [File("short", <<A, B>>) EXCEPT !.size = "swells"],
   File("short", <<[A EXCEPT !.id = "folder"]>>),
   File("short and long", <<A>>)}

MCLonger == {<<"short and long", "short">>}

(* A workbook from before eira-run, with the folder of its session or      *)
(* without.                                                                *)
MCLegacy ==
  {[New("short") EXCEPT !.placed = TRUE, !.programa = "short",
      !.control = [header |-> TRUE,
                   rows |-> <<[number |-> 1, id |-> folder, name |-> "one", status |-> "PROCESSED"]>>]]
     : folder \in {"folder", ""}}
=============================================================================
