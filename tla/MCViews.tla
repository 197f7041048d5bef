------------------------------- MODULE MCViews --------------------------------
EXTENDS Views

MCPerson == {1, 2, 3}
MCLate == {2}

(* Enough for 1 to be heard once, twice or thrice in the recent sessions,   *)
(* and for levels to change with the last one.                             *)
MCSpeakers == <<{{3}}, {{1}}, {{1, 3}}, {{}}, {{}, {1}}, {{}, {1, 2, 3}}>>
MCUntracked == {3}
=============================================================================
