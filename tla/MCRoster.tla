------------------------------- MODULE MCRoster --------------------------------
(* Two people with two names and two addresses each.  The sheet is empty   *)
(* or holds a facilitator without address, entered before the first run.   *)
EXTENDS Roster

Names == <<{"Ana", "Anita"}, {"Bea", "Beatriz"}>>
Emails == <<{"ana@1", "ana@2"}, {"bea@1", "bea@2"}>>
Ids == <<"A", "B">>

Facilitator ==
  [id |-> "F", nombre |-> "Ana", correo |-> None, aliases |-> {}, role |-> "facilitator"]
EmptyOrOne == {<< >>, <<Facilitator>>}
=============================================================================
