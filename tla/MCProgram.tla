------------------------------- MODULE MCProgram -------------------------------
(* Three sessions of a small group, with and without a roster.             *)
EXTENDS Program

(* Names: 1 and 2 are people, 3 is 1 without its accent, 4 has no letter,  *)
(* 5 is an outsider, 6 the tutor.  Addresses are above 100.                *)
SomeNames == 1 .. 6
WithLetters == {1, 2, 3, 5, 6}
NoAccents == [n \in SomeNames |-> IF n = 3 THEN 1 ELSE n]
Outsiders == {5}

Ana == [id |-> 11, name |-> 1, mail |-> 101, aliases |-> {}, role |-> "participant"]
Beto == [id |-> 21, name |-> 2, mail |-> 102, aliases |-> {4}, role |-> "participant"]
Tutor == [id |-> 61, name |-> 6, mail |-> 106, aliases |-> {}, role |-> "facilitator"]
SmallRoster == <<Ana, Beto, Tutor>>

Ids == {10 * n + k : n \in {1, 2, 3, 6}, k \in {0, 1}}
Always == [valid |-> TRUE, first |-> 1, last |-> 0]
SomeBounds ==
  [n \in SomeNames |->
     CASE n = 1 -> Always
       [] n = 2 -> [valid |-> TRUE, first |-> 2, last |-> 0]
       [] n \notin {1, 2} -> Always]

(* Evidence.                                                               *)
Says(name, channel) ==
  [name |-> name, system |-> FALSE, channel |-> channel, doubtful |-> FALSE, text |-> "substantive"]
Thanks(name, channel) == [Says(name, channel) EXCEPT !.text = "phrase"]
Mutters(name, channel) == [Says(name, channel) EXCEPT !.doubtful = TRUE]
Shares(name) == [Says(name, "voice") EXCEPT !.system = TRUE]
File(kind, events) == [kind |-> kind, readable |-> TRUE, events |-> events]
Torn(file) == [file EXCEPT !.readable = FALSE]
Both(voice, chat) ==
  [unclear |-> FALSE, files |-> <<File("transcript", voice), File("chat", chat)>>]

First == << Both(<<Says(1, "voice"), Says(2, "voice"), Says(6, "voice")>>, <<Thanks(1, "chat")>>),
            Both(<<Says(6, "voice"), Shares(1)>>, <<Says(1, "chat"), Mutters(1, "chat")>>) >>
Second == << [Both(<<Says(1, "voice")>>, <<Says(2, "chat")>>) EXCEPT !.files[2] = Torn(@)],
             [Both(<<Says(1, "voice")>>, <<Says(2, "chat")>>) EXCEPT !.files = Append(@, @[1])],
             Both(<<Thanks(2, "voice"), Says(5, "voice")>>, <<Says(1, "chat")>>) >>
Third == << Both(<<Says(3, "voice")>>, <<Says(4, "chat")>>),
            [Both(<<Says(1, "voice")>>, <<Says(2, "chat")>>) EXCEPT !.unclear = TRUE],
            Both(<<Thanks(1, "voice")>>, <<Thanks(2, "chat")>>) >>
Group == <<First, Second, Third>>

(* Attendance: no table, one fact each, a cell without a value, two        *)
(* addresses of one person in one session, two facts for one of them, an   *)
(* address that is nobody's.                                               *)
Fact(external, s, value) == [external |-> external, session |-> s, value |-> value]
Stands(external, canonical) ==
  [external |-> external, status |-> "RESOLVED", canonical |-> canonical]
Nobody(external, canonical) == [Stands(external, canonical) EXCEPT !.status = "IGNORED"]
Tables ==
  { [configured |-> FALSE, rules |-> {}, facts |-> {}],
    [configured |-> TRUE, rules |-> {Stands(111, 101), Stands(102, 102)},
     facts |-> {Fact(111, 1, "yes"), Fact(102, 1, "missing"), Fact(102, 2, "yes")}],
    [configured |-> TRUE, rules |-> {Stands(111, 1), Stands(112, 2)},
     facts |-> {Fact(111, 2, "yes"), Fact(112, 2, "yes"), Fact(112, 2, "no")}],
    [configured |-> TRUE, rules |-> {Stands(111, 1)},
     facts |-> {Fact(111, 1, "yes"), Fact(101, 1, "yes")}],
    [configured |-> TRUE, rules |-> {Stands(111, 1), Stands(112, 1), Nobody(113, 2)},
     facts |-> {Fact(111, 1, "yes"), Fact(112, 1, "yes"), Fact(112, 1, "no"), Fact(113, 2, "yes")}] }
=============================================================================
