-------------------------- MODULE SessionSheet_proofs --------------------------
(***************************************************************************)
(* The replacement of a session's results in the sheet, for all sheets,    *)
(* sessions, participants and results, and for calls that fail, that are   *)
(* made twice and that the process dies between: no result is there twice, *)
(* no other session is touched, success is not reported too early, and the *)
(* calls implement the table of SessionTable.                              *)
(***************************************************************************)
EXTENDS SessionSheet, Lists_lemmas

Row == [key : Session \X Participant, cells : Value]

(* What the repository planned for one session, against the rows as they   *)
(* are: the cells to overwrite, the rows to append, the rows to delete.    *)
Corrects(rows, j) ==
  \A i \in DOMAIN j.updates :
    /\ i \in DOMAIN rows /\ rows[i].key[1] = j.session
    /\ j.updates[i] \in Value /\ j.updates[i] = j.results[rows[i].key[2]]

Adds(j) ==
  /\ j.inserts \in Seq(Row)
  /\ \A i \in DOMAIN j.inserts :
       /\ j.inserts[i].key[1] = j.session
       /\ j.inserts[i].cells = j.results[j.inserts[i].key[2]]

New(rows, j) ==
  /\ \A i \in DOMAIN j.inserts, k \in DOMAIN rows : j.inserts[i].key # rows[k].key
  /\ \A i, k \in DOMAIN j.inserts : i # k => j.inserts[i].key # j.inserts[k].key

Drops(rows, j) ==
  j.deletes = {i \in DOMAIN rows : rows[i].key[1] = j.session /\ j.results[rows[i].key[2]] = None}

Replacing(rows, j) ==
  /\ j = [at |-> j.at, session |-> j.session, results |-> j.results,
          updates |-> j.updates, inserts |-> j.inserts, deletes |-> j.deletes]
  /\ j.at \in {"update", "append", "delete", "verify"}
  /\ j.session \in Session /\ j.results \in Results
  /\ j.at = "update" => Corrects(rows, j)
  /\ Adds(j)
  /\ j.deletes \subseteq Nat /\ IsFiniteSet(j.deletes)

(* An append that may be repeated spoils New, a deletion that may be       *)
(* repeated spoils Drops.                                                  *)
Fits(rows, j) ==
  /\ Replacing(rows, j)
  /\ "append" \notin LostAnswers /\ j.at \in {"update", "append"} => New(rows, j)
  /\ "delete" \notin LostAnswers /\ j.at \in {"update", "append", "delete"} => Drops(rows, j)

Inv ==
  /\ sheet \in Seq(Row) /\ wanted \in [Session -> Results]
  /\ "append" \notin LostAnswers => NoDuplicates
  /\ job # Idle => Fits(sheet, job)

(* Every row has the key of a session and a participant. *)
LEMMA Keyed ==
  ASSUME NEW rows \in Seq(Row)
  PROVE  /\ Len(rows) \in Nat /\ DOMAIN rows = 1 .. Len(rows)
         /\ \A i \in DOMAIN rows :
              /\ rows[i] \in Row /\ rows[i].key \in Session \X Participant
              /\ rows[i].key[1] \in Session /\ rows[i].key[2] \in Participant
              /\ rows[i].key = <<rows[i].key[1], rows[i].key[2]>>
              /\ rows[i].key # NoKey /\ rows[i].cells \in Value /\ rows[i].cells # None
<1>1. Len(rows) \in Nat /\ DOMAIN rows = 1 .. Len(rows)
  BY LenProperties
<1>2. ASSUME NEW i \in DOMAIN rows PROVE rows[i] \in Row
  BY ElementOfSeq
<1>3. ASSUME NEW r \in Row
      PROVE  /\ r.key \in Session \X Participant /\ r.key[1] \in Session /\ r.key[2] \in Participant
             /\ r.key = <<r.key[1], r.key[2]>> /\ r.key # NoKey
             /\ r.cells \in Value /\ r.cells # None
  BY KeyAssumption, NoneAssumption DEF Row
<1> HIDE DEF Row
<1> QED
  BY <1>1, <1>2, <1>3

Clash(rows) == \E i, k \in DOMAIN rows : i # k /\ rows[i].key = rows[k].key

(* A sheet has a duplicate when two rows of it have the same key. *)
LEMMA DuplicatedIs == ASSUME NEW rows \in Seq(Row) PROVE Duplicated(rows) <=> Clash(rows)
  BY Keyed DEF Duplicated, Clash

(* The results that the rows of a session show: SeenIn(sheet, s) is Seen(s). *)
SeenIn(rows, s) ==
  LET at(p) == {i \in DOMAIN rows : rows[i].key = <<s, p>>}
  IN  [p \in Participant |-> IF at(p) = {} THEN None ELSE rows[Max(at(p))].cells]

LastOf(rows, s, p, m) ==
  /\ m \in DOMAIN rows /\ rows[m].key = <<s, p>>
  /\ \A i \in DOMAIN rows : rows[i].key = <<s, p>> => i <= m

Absent(rows, s, p) == \A i \in DOMAIN rows : rows[i].key # <<s, p>>

(* What a reader sees of a participant: the last row with that key, or *)
(* nothing.                                                            *)
LEMMA SeenIs ==
  ASSUME NEW rows \in Seq(Row), NEW s, NEW p \in Participant
  PROVE  \/ Absent(rows, s, p) /\ SeenIn(rows, s)[p] = None
         \/ \E m \in DOMAIN rows : LastOf(rows, s, p, m) /\ SeenIn(rows, s)[p] = rows[m].cells
<1> DEFINE at == {i \in DOMAIN rows : rows[i].key = <<s, p>>}
<1>1. SeenIn(rows, s)[p] = IF at = {} THEN None ELSE rows[Max(at)].cells
  BY DEF SeenIn
<1>2. CASE at = {}
  BY <1>1, <1>2 DEF Absent
<1>3. CASE at # {}
  <2>1. IsFiniteSet(at) /\ at \subseteq Int
    <3>1. at \subseteq DOMAIN rows
      OBVIOUS
    <3> QED BY <3>1, PlacesInSeq
  <2>2. Max(at) \in at /\ \A x \in at : x <= Max(at)
    BY <1>3, <2>1, MaxIs
  <2>3. LastOf(rows, s, p, Max(at)) /\ Max(at) \in DOMAIN rows
    BY <2>2 DEF LastOf
  <2> QED BY <1>1, <1>3, <2>3
<1> QED BY <1>2, <1>3

(* The last row with a key is what is seen. *)
LEMMA SeenLast ==
  ASSUME NEW rows \in Seq(Row), NEW s, NEW p \in Participant,
         NEW m, LastOf(rows, s, p, m)
  PROVE  SeenIn(rows, s)[p] = rows[m].cells
<1>1. PICK k \in DOMAIN rows : LastOf(rows, s, p, k) /\ SeenIn(rows, s)[p] = rows[k].cells
  <2>1. ~Absent(rows, s, p)
    BY DEF LastOf, Absent
  <2> QED BY <2>1, SeenIs
<1>2. m <= k /\ k <= m /\ m \in Nat /\ k \in Nat
  BY <1>1, Keyed DEF LastOf
<1> QED BY <1>1, <1>2

(* Without a row nothing is seen. *)
LEMMA SeenAbsent ==
  ASSUME NEW rows \in Seq(Row), NEW s, NEW p \in Participant, Absent(rows, s, p)
  PROVE  SeenIn(rows, s)[p] = None
  BY SeenIs DEF Absent, LastOf

(* A call changes results of the job's session only, and only to what they *)
(* are to be.                                                              *)
Moves(rows, new, j) ==
  \A s \in Session, p \in Participant :
    \/ SeenIn(new, s)[p] = SeenIn(rows, s)[p]
    \/ s = j.session /\ SeenIn(new, s)[p] = j.results[p]

SameKeys(rows, new) ==
  DOMAIN new = DOMAIN rows /\ \A i \in DOMAIN rows : new[i].key = rows[i].key

(* What an update of rows changes. *)
LEMMA WrittenIs ==
  ASSUME NEW rows \in Seq(Row), NEW j, Corrects(rows, j)
  PROVE  /\ Written(rows, j.updates) \in Seq(Row) /\ SameKeys(rows, Written(rows, j.updates))
         /\ \A i \in DOMAIN rows :
              Written(rows, j.updates)[i].cells = IF i \in DOMAIN j.updates THEN j.updates[i] ELSE rows[i].cells
         /\ \A i \in DOMAIN rows : i \notin DOMAIN j.updates => Written(rows, j.updates)[i] = rows[i]
<1> DEFINE new == Written(rows, j.updates)
<1>1. DOMAIN new = DOMAIN rows
  BY DEF Written
<1>2. ASSUME NEW i \in DOMAIN rows
      PROVE  /\ new[i] \in Row /\ new[i].key = rows[i].key
             /\ new[i].cells = IF i \in DOMAIN j.updates THEN j.updates[i] ELSE rows[i].cells
             /\ i \notin DOMAIN j.updates => new[i] = rows[i]
  <2>1. rows[i] \in Row
    BY ElementOfSeq
  <2>2. i \in DOMAIN j.updates => j.updates[i] \in Value
    BY DEF Corrects
  <2>3. new[i] = IF i \in DOMAIN j.updates THEN [rows[i] EXCEPT !.cells = j.updates[i]] ELSE rows[i]
    BY DEF Written
  <2> HIDE DEF new
  <2> QED BY <2>1, <2>2, <2>3 DEF Row
<1>3. new \in Seq(Row)
  <2>1. new = [i \in DOMAIN rows |-> new[i]]
    BY DEF Written
  <2>2. Len(rows) \in Nat /\ DOMAIN rows = 1 .. Len(rows)
    BY LenProperties
  <2> HIDE DEF new
  <2>3. new \in [1 .. Len(rows) -> Row]
    BY <1>2, <2>1, <2>2
  <2> QED BY <2>2, <2>3
<1> HIDE DEF new
<1>4. SameKeys(rows, new)
  BY <1>1, <1>2 DEF SameKeys
<1> QED BY <1>2, <1>3, <1>4 DEF new

(* An update settles what it wrote and disturbs nothing else. *)
LEMMA WrittenMoves ==
  ASSUME NEW rows \in Seq(Row), NEW j, Corrects(rows, j)
  PROVE  Moves(rows, Written(rows, j.updates), j)
<1> DEFINE new == Written(rows, j.updates)
<1>1. /\ new \in Seq(Row) /\ SameKeys(rows, new)
      /\ \A i \in DOMAIN rows :
           new[i].cells = IF i \in DOMAIN j.updates THEN j.updates[i] ELSE rows[i].cells
  BY WrittenIs
<1> HIDE DEF new
<1>2. ASSUME NEW s \in Session, NEW p \in Participant
      PROVE  \/ SeenIn(new, s)[p] = SeenIn(rows, s)[p]
             \/ s = j.session /\ SeenIn(new, s)[p] = j.results[p]
  <2>1. CASE Absent(rows, s, p)
    <3>1. Absent(new, s, p)
      BY <1>1, <2>1 DEF Absent, SameKeys
    <3> QED BY <1>1, <2>1, <3>1, SeenAbsent
  <2>2. CASE ~Absent(rows, s, p)
    <3>1. PICK m \in DOMAIN rows : LastOf(rows, s, p, m) /\ SeenIn(rows, s)[p] = rows[m].cells
      BY <2>2, SeenIs
    <3>2. LastOf(new, s, p, m)
      BY <1>1, <3>1 DEF LastOf, SameKeys
    <3>3. SeenIn(new, s)[p] = new[m].cells
      BY <1>1, <3>2, SeenLast
    <3>4. rows[m].key[1] = s /\ rows[m].key[2] = p
      BY <3>1 DEF LastOf
    <3>5. CASE m \in DOMAIN j.updates
      BY <1>1, <3>3, <3>4, <3>5 DEF Corrects
    <3>6. CASE m \notin DOMAIN j.updates
      BY <1>1, <3>1, <3>3, <3>6
    <3> QED BY <3>5, <3>6
  <2> QED BY <2>1, <2>2
<1> QED BY <1>2 DEF Moves, new

(* An update leaves the rows of other sessions. *)
LEMMA WrittenOthers ==
  ASSUME NEW rows \in Seq(Row), NEW j, Corrects(rows, j)
  PROVE  Others(Written(rows, j.updates), j.session) = Others(rows, j.session)
<1> DEFINE new == Written(rows, j.updates)
           foreign == {i \in DOMAIN rows : rows[i].key[1] # j.session}
<1>1. /\ SameKeys(rows, new)
      /\ \A i \in DOMAIN rows : i \notin DOMAIN j.updates => new[i] = rows[i]
  BY WrittenIs
<1>2. {i \in DOMAIN new : new[i].key[1] # j.session} = foreign
  BY <1>1 DEF SameKeys
<1>3. \A i \in foreign : rows[i] = new[i]
  BY <1>1 DEF Corrects
<1>4. foreign \subseteq DOMAIN rows
  OBVIOUS
<1>5. IsFiniteSet(foreign) /\ foreign \subseteq Int
  BY <1>4, PlacesInSeq
<1> HIDE DEF new, foreign
<1>6. Picked(rows, foreign) = Picked(new, foreign)
  BY <1>3, <1>5, PickedSame
<1>7. Others(rows, j.session) = Picked(rows, foreign) /\ Others(new, j.session) = Picked(new, foreign)
  BY <1>2 DEF Others, foreign
<1> QED BY <1>6, <1>7 DEF new

(* The rows after an append. *)
LEMMA AppendedIs ==
  ASSUME NEW rows \in Seq(Row), NEW j, Adds(j)
  PROVE  /\ Joins(Appended(rows, j.inserts), rows, j.inserts, Row)
         /\ Appended(rows, j.inserts) \in Seq(Row)
         /\ DOMAIN Appended(rows, j.inserts) = 1 .. Len(Appended(rows, j.inserts))
         /\ DOMAIN rows = 1 .. Len(rows) /\ DOMAIN j.inserts = 1 .. Len(j.inserts)
<1> DEFINE added == j.inserts
           new == rows \o added
<1>1. added \in Seq(Row)
  BY DEF Adds
<1> HIDE DEF added
<1>2. Joins(new, rows, added, Row)
  BY <1>1, Joined
<1> HIDE DEF new
<1>3. new \in Seq(Row)
  BY <1>2 DEF Joins
<1>4. DOMAIN new = 1 .. Len(new) /\ DOMAIN rows = 1 .. Len(rows) /\ DOMAIN added = 1 .. Len(added)
  BY <1>1, <1>3, LenProperties
<1> QED BY <1>2, <1>3, <1>4 DEF Appended, new, added

(* An append settles what it wrote and disturbs nothing else. *)
LEMMA AppendedMoves ==
  ASSUME NEW rows \in Seq(Row), NEW j, Adds(j)
  PROVE  Moves(rows, Appended(rows, j.inserts), j)
<1> DEFINE new == Appended(rows, j.inserts)
<1>1. /\ Joins(new, rows, j.inserts, Row) /\ new \in Seq(Row) /\ DOMAIN new = 1 .. Len(new)
      /\ DOMAIN rows = 1 .. Len(rows) /\ DOMAIN j.inserts = 1 .. Len(j.inserts)
  BY AppendedIs
<1> HIDE DEF new
<1>2. /\ Len(rows) \in Nat /\ Len(j.inserts) \in Nat /\ Len(new) = Len(rows) + Len(j.inserts)
      /\ \A i \in 1 .. Len(rows) : new[i] = rows[i]
      /\ \A k \in 1 .. Len(j.inserts) : new[Len(rows) + k] = j.inserts[k]
      /\ \A i \in 1 .. Len(new) :
            i \in 1 .. Len(rows) \/ \E k \in 1 .. Len(j.inserts) : i = Len(rows) + k
  BY <1>1 DEF Joins
<1>3. \A i \in 1 .. Len(rows) : i \in 1 .. Len(new)
  BY <1>2
<1>4. ASSUME NEW s \in Session, NEW p \in Participant
      PROVE  \/ SeenIn(new, s)[p] = SeenIn(rows, s)[p]
             \/ s = j.session /\ SeenIn(new, s)[p] = j.results[p]
  <2>1. CASE Absent(new, s, p)
    <3>1. Absent(rows, s, p)
      BY <1>1, <1>2, <1>3, <2>1 DEF Absent
    <3> QED BY <1>1, <2>1, <3>1, SeenAbsent
  <2>2. CASE ~Absent(new, s, p)
    <3>1. PICK m \in DOMAIN new : LastOf(new, s, p, m) /\ SeenIn(new, s)[p] = new[m].cells
      BY <1>1, <2>2, SeenIs
    <3>2. CASE m \in 1 .. Len(rows)
      <4>1. LastOf(rows, s, p, m)
        BY <1>1, <1>2, <1>3, <3>1, <3>2 DEF LastOf
      <4>2. SeenIn(rows, s)[p] = rows[m].cells
        BY <4>1, SeenLast
      <4> QED BY <1>2, <3>1, <3>2, <4>2
    <3>3. CASE m \notin 1 .. Len(rows)
      <4>1. PICK k \in 1 .. Len(j.inserts) : m = Len(rows) + k
        BY <1>1, <1>2, <3>3
      <4>2. new[m] = j.inserts[k] /\ j.inserts[k].key = <<s, p>>
        BY <1>2, <3>1, <4>1 DEF LastOf
      <4> QED BY <1>1, <3>1, <4>1, <4>2 DEF Adds
    <3> QED BY <3>2, <3>3
  <2> QED BY <2>1, <2>2
<1> QED BY <1>4 DEF Moves, new

(* An append leaves the rows of other sessions. *)
LEMMA AppendedOthers ==
  ASSUME NEW rows \in Seq(Row), NEW j, Adds(j)
  PROVE  Others(Appended(rows, j.inserts), j.session) = Others(rows, j.session)
<1> DEFINE new == Appended(rows, j.inserts)
           foreign == {i \in DOMAIN rows : rows[i].key[1] # j.session}
<1>1. /\ Joins(new, rows, j.inserts, Row) /\ new \in Seq(Row) /\ DOMAIN new = 1 .. Len(new)
      /\ DOMAIN rows = 1 .. Len(rows) /\ DOMAIN j.inserts = 1 .. Len(j.inserts)
  BY AppendedIs
<1> HIDE DEF new
<1>2. /\ Len(rows) \in Nat /\ Len(j.inserts) \in Nat /\ Len(new) = Len(rows) + Len(j.inserts)
      /\ \A i \in 1 .. Len(rows) : new[i] = rows[i]
      /\ \A k \in 1 .. Len(j.inserts) : new[Len(rows) + k] = j.inserts[k]
      /\ \A i \in 1 .. Len(new) :
            i \in 1 .. Len(rows) \/ \E k \in 1 .. Len(j.inserts) : i = Len(rows) + k
  BY <1>1 DEF Joins
<1>3. {i \in DOMAIN new : new[i].key[1] # j.session} = foreign
  <2>1. ASSUME NEW i \in DOMAIN new, new[i].key[1] # j.session PROVE i \in foreign
    <3>1. i \in 1 .. Len(rows)
      <4> SUFFICES ASSUME NEW k \in 1 .. Len(j.inserts), i = Len(rows) + k PROVE FALSE
        BY <1>1, <1>2
      <4>1. new[i] = j.inserts[k] /\ k \in DOMAIN j.inserts
        BY <1>1, <1>2
      <4>2. j.inserts[k].key[1] = j.session
        BY <4>1 DEF Adds
      <4> QED BY <2>1, <4>1, <4>2
    <3> QED BY <1>1, <1>2, <2>1, <3>1
  <2>2. ASSUME NEW i \in foreign PROVE i \in DOMAIN new /\ new[i].key[1] # j.session
    BY <1>1, <1>2
  <2> HIDE DEF foreign
  <2> QED BY <2>1, <2>2
<1>4. \A i \in foreign : rows[i] = new[i]
  BY <1>1, <1>2
<1>5. IsFiniteSet(foreign) /\ foreign \subseteq Int
  <2>1. foreign \subseteq DOMAIN rows
    OBVIOUS
  <2> QED BY <2>1, PlacesInSeq
<1> HIDE DEF foreign
<1>6. Picked(rows, foreign) = Picked(new, foreign)
  BY <1>4, <1>5, PickedSame
<1>7. Others(rows, j.session) = Picked(rows, foreign) /\ Others(new, j.session) = Picked(new, foreign)
  BY <1>3 DEF Others, foreign
<1> QED BY <1>6, <1>7 DEF new

(* Rows that were left, and the numbers they had.                          *)
Leaves(new, rows, P, n, at) ==
  /\ P \subseteq DOMAIN rows /\ n \in Nat
  /\ new \in Seq(Row) /\ DOMAIN new = 1 .. n
  /\ at \in [1 .. n -> P]
  /\ \A k \in 1 .. n : new[k] = rows[at[k]]
  /\ \A i \in P : \E k \in 1 .. n : at[k] = i
  /\ \A i, k \in 1 .. n : i < k <=> at[i] < at[k]

(* Rows picked from a sheet keep their order. *)
LEMMA PickedLeaves ==
  ASSUME NEW rows \in Seq(Row), NEW P, P \subseteq DOMAIN rows
  PROVE  Leaves(Picked(rows, P), rows, P, Cardinality(P), Ascending(P))
  BY PickedIs DEF Leaves, IncreasingList

(* And there is no duplicate among them when there was none. *)
LEMMA LeftNoClash ==
  ASSUME NEW rows \in Seq(Row), NEW P, P \subseteq DOMAIN rows, ~Clash(rows)
  PROVE  Picked(rows, P) \in Seq(Row) /\ ~Clash(Picked(rows, P))
<1> DEFINE new == Picked(rows, P)
           n == Cardinality(P)
           at == Ascending(P)
<1>1. Leaves(new, rows, P, n, at)
  BY PickedLeaves
<1> HIDE DEF new, n, at
<1>2. ASSUME NEW i \in 1 .. n, NEW k \in 1 .. n, i # k PROVE new[i].key # new[k].key
  <2>1. n \in Nat /\ at[i] \in DOMAIN rows /\ at[k] \in DOMAIN rows
    BY <1>1 DEF Leaves
  <2>2. at[i] # at[k]
    <3>1. at[i] \in Int /\ at[k] \in Int
      BY <2>1, Keyed
    <3>2. i < k \/ k < i
      BY <1>2, <2>1
    <3>3. (i < k => at[i] < at[k]) /\ (k < i => at[k] < at[i])
      BY <1>1 DEF Leaves
    <3> QED BY <3>1, <3>2, <3>3
  <2>3. new[i] = rows[at[i]] /\ new[k] = rows[at[k]]
    BY <1>1 DEF Leaves
  <2> QED BY <2>1, <2>2, <2>3 DEF Clash
<1> QED BY <1>1, <1>2 DEF Clash, Leaves, new

(* A delete settles what it deletes and disturbs nothing else. *)
LEMMA DroppedMoves ==
  ASSUME NEW rows \in Seq(Row), NEW j, Drops(rows, j)
  PROVE  Moves(rows, Deleted(rows, Descending(j.deletes)), j)
<1> DEFINE P == DOMAIN rows \ j.deletes
           new == Deleted(rows, Descending(j.deletes))
           n == Cardinality(P)
           at == Ascending(P)
<1>1. j.deletes \subseteq DOMAIN rows
  BY DEF Drops
<1>2. Leaves(new, rows, P, n, at)
  <2>1. new = Picked(rows, P)
    BY <1>1, DeletedExactly
  <2>2. P \subseteq DOMAIN rows
    OBVIOUS
  <2> HIDE DEF P, new
  <2> QED BY <2>1, <2>2, PickedLeaves
<1> HIDE DEF new, n, at
<1>3. ASSUME NEW s \in Session, NEW p \in Participant
      PROVE  \/ SeenIn(new, s)[p] = SeenIn(rows, s)[p]
             \/ s = j.session /\ SeenIn(new, s)[p] = j.results[p]
  <2>0. new \in Seq(Row) /\ DOMAIN new = 1 .. n /\ \A k \in 1 .. n : new[k] = rows[at[k]] /\ at[k] \in P
    BY <1>2 DEF Leaves
  <2>1. CASE s = j.session /\ j.results[p] = None
    <3>1. \A i \in DOMAIN rows : rows[i].key = <<s, p>> => i \in j.deletes
      BY <2>1 DEF Drops
    <3>2. Absent(new, s, p)
      BY <2>0, <3>1 DEF Absent
    <3> QED BY <2>0, <2>1, <3>2, SeenAbsent
  <2>2. CASE ~(s = j.session /\ j.results[p] = None)
    <3>1. \A i \in DOMAIN rows : rows[i].key = <<s, p>> => i \in P
      BY <2>2 DEF Drops
    <3>2. CASE Absent(rows, s, p)
      <4>1. Absent(new, s, p)
        BY <2>0, <3>2 DEF Absent
      <4> QED BY <2>0, <3>2, <4>1, SeenAbsent
    <3>3. CASE ~Absent(rows, s, p)
      <4>1. PICK m \in DOMAIN rows : LastOf(rows, s, p, m) /\ SeenIn(rows, s)[p] = rows[m].cells
        BY <3>3, SeenIs
      <4>2. m \in P
        BY <3>1, <4>1 DEF LastOf
      <4>3. PICK k \in 1 .. n : at[k] = m
        BY <1>2, <4>2 DEF Leaves
      <4>4. ASSUME NEW i \in 1 .. n, new[i].key = <<s, p>> PROVE i <= k
        <5>1. at[i] \in DOMAIN rows /\ rows[at[i]].key = <<s, p>>
          BY <2>0, <4>4
        <5>2. at[i] <= at[k]
          BY <4>1, <4>3, <5>1 DEF LastOf
        <5>3. n \in Nat /\ (k < i => at[k] < at[i])
          BY <1>2 DEF Leaves
        <5>4. at[i] \in Nat /\ at[k] \in Nat
          BY <4>3, <5>1, Keyed
        <5> QED BY <5>2, <5>3, <5>4
      <4>5. new[k].key = <<s, p>> /\ new[k].cells = rows[m].cells
        BY <2>0, <4>1, <4>3 DEF LastOf
      <4>6. LastOf(new, s, p, k)
        BY <2>0, <4>4, <4>5 DEF LastOf
      <4>7. SeenIn(new, s)[p] = new[k].cells
        <5>1. new \in Seq(Row)
          BY <2>0
        <5> QED BY <4>6, <5>1, SeenLast
      <4> QED BY <4>1, <4>5, <4>7
    <3> QED BY <3>2, <3>3
  <2> QED BY <2>1, <2>2
<1> QED BY <1>3 DEF Moves, new

(* A delete of rows of one session leaves the rows of the others. *)
LEMMA DroppedOthers ==
  ASSUME NEW rows \in Seq(Row), NEW j, Drops(rows, j)
  PROVE  Others(Deleted(rows, Descending(j.deletes)), j.session) = Others(rows, j.session)
<1> DEFINE P == DOMAIN rows \ j.deletes
           new == Picked(rows, P)
           n == Cardinality(P)
           at == Ascending(P)
           some == {k \in DOMAIN new : new[k].key[1] # j.session}
           foreign == {i \in DOMAIN rows : rows[i].key[1] # j.session}
<1>1. Deleted(rows, Descending(j.deletes)) = new
  <2>1. j.deletes \subseteq DOMAIN rows
    BY DEF Drops
  <2> QED BY <2>1, DeletedExactly
<1>2. P \subseteq DOMAIN rows
  OBVIOUS
<1>3. foreign \subseteq P
  BY DEF Drops
<1> HIDE DEF P
<1>4. Leaves(new, rows, P, n, at)
  BY <1>2, PickedLeaves
<1>5. Picked(new, some) = Picked(rows, {at[k] : k \in some})
  <2>1. some \subseteq DOMAIN Picked(rows, P)
    OBVIOUS
  <2> HIDE DEF some
  <2> QED BY <1>2, <2>1, PickedTwice
<1> HIDE DEF new, n, at
<1>6. {at[k] : k \in some} = foreign
  <2>1. ASSUME NEW k \in some PROVE at[k] \in foreign
    BY <1>4 DEF Leaves
  <2>2. ASSUME NEW i \in foreign PROVE \E k \in some : at[k] = i
    <3>1. PICK k \in 1 .. n : at[k] = i
      BY <1>3, <1>4 DEF Leaves
    <3>2. k \in some
      BY <1>4, <3>1 DEF Leaves
    <3> QED BY <3>1, <3>2
  <2> HIDE DEF some, foreign
  <2> QED BY <2>1, <2>2
<1> QED BY <1>1, <1>5, <1>6 DEF Others

-----------------------------------------------------------------------------
(* The rows that are wanted.                                               *)
LEMMA RowsOfIs ==
  ASSUME NEW s \in Session, NEW results \in Results
  PROVE  /\ RowsOf(s, results) \in Seq(Row)
         /\ \A i \in DOMAIN RowsOf(s, results) :
              LET row == RowsOf(s, results)[i]
              IN  row.key[1] = s /\ row.cells = results[row.key[2]]
         /\ \A p \in Participant : results[p] # None =>
              \E i \in DOMAIN RowsOf(s, results) : RowsOf(s, results)[i].key = <<s, p>>
         /\ ~Clash(RowsOf(s, results))
<1> DEFINE S == {p \in Participant : results[p] # None}
           n == Cardinality(S)
           at == Ascending(S)
           list == RowsOf(s, results)
<1>1. IsFiniteSet(S) /\ S \subseteq Int
  <2>1. S \in SUBSET Participant
    OBVIOUS
  <2> HIDE DEF S
  <2>2. IsFiniteSet(S)
    BY <2>1, ParticipantAssumption, FS_Subset
  <2>3. S \subseteq Int
    BY <2>1, ParticipantAssumption
  <2> QED BY <2>2, <2>3
<1>2. /\ n \in Nat /\ at \in [1 .. n -> S]
      /\ \A p \in S : \E k \in 1 .. n : at[k] = p
      /\ \A i, k \in 1 .. n : i < k <=> at[i] < at[k]
  <2> HIDE DEF S
  <2> QED BY <1>1, SortedList DEF IncreasingList
<1>3. list = [i \in DOMAIN at |-> [key |-> <<s, at[i]>>, cells |-> results[at[i]]]]
  BY DEF RowsOf
<1> HIDE DEF at, n, list
<1>4. DOMAIN list = 1 .. n
  BY <1>2, <1>3
<1>5. ASSUME NEW i \in 1 .. n
      PROVE  /\ list[i].key = <<s, at[i]>> /\ list[i].cells = results[at[i]]
             /\ list[i] \in Row /\ at[i] \in Participant
  <2>1. list[i] = [key |-> <<s, at[i]>>, cells |-> results[at[i]]]
    BY <1>2, <1>3
  <2>2. at[i] \in Participant /\ results[at[i]] \in Value
    BY <1>2 DEF Results
  <2> QED BY <2>1, <2>2 DEF Row
<1>6. list \in Seq(Row)
  <2>1. list \in [1 .. n -> Row]
    BY <1>2, <1>3, <1>5
  <2> QED BY <1>2, <2>1
<1>7. \A p \in Participant : results[p] # None => \E i \in DOMAIN list : list[i].key = <<s, p>>
  BY <1>2, <1>4, <1>5
<1>8. ~Clash(list)
  <2> SUFFICES ASSUME NEW i \in 1 .. n, NEW k \in 1 .. n, i # k, list[i].key = list[k].key
               PROVE FALSE
    BY <1>4 DEF Clash
  <2>1. <<s, at[i]>> = <<s, at[k]>>
    BY <1>5
  <2>2. at[i] = at[k]
    BY <2>1
  <2>3. at[i] \in Nat
    BY <1>5, ParticipantAssumption
  <2>4. i < k \/ k < i
    BY <1>2
  <2> QED BY <1>2, <2>2, <2>3, <2>4
<1> QED BY <1>4, <1>5, <1>6, <1>7, <1>8 DEF list

(* The keys and cells of the rows wanted for a session. *)
LEMMA KeysOfRows ==
  ASSUME NEW s \in Session, NEW results \in Results, NEW p \in Participant
  PROVE  /\ <<s, p>> \in Keys(RowsOf(s, results)) <=> results[p] # None
         /\ results[p] # None => Wanted(RowsOf(s, results), <<s, p>>).cells = results[p]
<1> DEFINE list == RowsOf(s, results)
<1>1. /\ list \in Seq(Row)
      /\ \A i \in DOMAIN list : list[i].key[1] = s /\ list[i].cells = results[list[i].key[2]]
      /\ results[p] # None => \E i \in DOMAIN list : list[i].key = <<s, p>>
  BY RowsOfIs
<1> HIDE DEF list
<1>2. /\ \A i \in DOMAIN list : list[i].cells # None
      /\ <<s, p>> # NoKey
  BY <1>1, Keyed, KeyAssumption
<1>3. <<s, p>> \in Keys(list) <=> \E i \in DOMAIN list : list[i].key = <<s, p>>
  BY <1>2 DEF Keys
<1>4. \A i \in DOMAIN list : list[i].key = <<s, p>> => results[p] = list[i].cells
  BY <1>1
<1>5. results[p] # None => Wanted(list, <<s, p>>).cells = results[p]
  <2> SUFFICES ASSUME results[p] # None PROVE Wanted(list, <<s, p>>).cells = results[p]
    OBVIOUS
  <2>1. \E row \in Range(list) : row.key = <<s, p>>
    BY <1>1 DEF Range
  <2>2. Wanted(list, <<s, p>>) \in Range(list) /\ Wanted(list, <<s, p>>).key = <<s, p>>
    BY <2>1 DEF Wanted
  <2>3. PICK i \in DOMAIN list : Wanted(list, <<s, p>>) = list[i]
    BY <2>2 DEF Range
  <2> QED BY <1>4, <2>2, <2>3
<1> QED BY <1>1, <1>2, <1>3, <1>4, <1>5 DEF list

(* What replace_session plans for the rows it has read.                    *)
PlanFor(rows, s, results) ==
  [at |-> "update", session |-> s, results |-> results,
   updates |-> Updates(rows, KeysOf(s), RowsOf(s, results)),
   inserts |-> Inserts(rows, RowsOf(s, results)),
   deletes |-> Obsolete(rows, KeysOf(s), RowsOf(s, results))]

(* The rows that a replacement corrects: those of the session whose cells *)
(* are not the wanted ones.                                               *)
LEMMA PlanUpdates ==
  ASSUME NEW rows \in Seq(Row), NEW s \in Session, NEW results \in Results
  PROVE  LET updates == Updates(rows, KeysOf(s), RowsOf(s, results))
         IN  \A i \in DOMAIN rows :
               /\ i \in DOMAIN updates <=>
                    /\ rows[i].key[1] = s /\ results[rows[i].key[2]] # None
                    /\ rows[i].cells # results[rows[i].key[2]]
               /\ i \in DOMAIN updates => updates[i] = results[rows[i].key[2]]
<1> DEFINE list == RowsOf(s, results)
           updates == Updates(rows, KeysOf(s), list)
           changed == {i \in DOMAIN rows :
                         /\ rows[i].key \in KeysOf(s) \intersect Keys(list)
                         /\ rows[i].cells # Wanted(list, rows[i].key).cells}
<1>1. updates = [i \in changed |-> Wanted(list, rows[i].key).cells]
  BY DEF Updates
<1> HIDE DEF list, updates
<1>2. ASSUME NEW i \in DOMAIN rows
      PROVE  /\ rows[i].key \in KeysOf(s) \intersect Keys(list) <=>
                  rows[i].key[1] = s /\ results[rows[i].key[2]] # None
             /\ rows[i].key \in KeysOf(s) \intersect Keys(list) =>
                  Wanted(list, rows[i].key).cells = results[rows[i].key[2]]
  <2> DEFINE p == rows[i].key[2]
  <2>1. p \in Participant /\ rows[i].key = <<rows[i].key[1], p>>
    BY Keyed
  <2> HIDE DEF p
  <2>2. rows[i].key \in KeysOf(s) <=> rows[i].key[1] = s
    <3>1. \A k \in Session \X Participant : k \in {s} \X Participant <=> k[1] = s
      OBVIOUS
    <3>2. rows[i].key \in Session \X Participant
      BY Keyed
    <3> QED BY <3>1, <3>2 DEF KeysOf
  <2>3. /\ <<s, p>> \in Keys(list) <=> results[p] # None
        /\ results[p] # None => Wanted(list, <<s, p>>).cells = results[p]
    BY <2>1, KeysOfRows DEF list
  <2>4. rows[i].key[1] = s => rows[i].key = <<s, p>>
    BY <2>1
  <2> QED BY <2>2, <2>3, <2>4 DEF p
<1>3. ASSUME NEW i \in DOMAIN rows
      PROVE  /\ i \in changed <=> /\ rows[i].key[1] = s /\ results[rows[i].key[2]] # None
                                  /\ rows[i].cells # results[rows[i].key[2]]
             /\ i \in changed => Wanted(list, rows[i].key).cells = results[rows[i].key[2]]
  BY <1>2
<1>4. DOMAIN updates = changed /\ \A i \in changed : updates[i] = Wanted(list, rows[i].key).cells
  BY <1>1
<1> HIDE DEF changed
<1> QED BY <1>3, <1>4 DEF updates, list

Supplements(inserts, rows, s, results) ==
  /\ inserts \in Seq(Row) /\ ~Clash(inserts)
  /\ \A i \in DOMAIN inserts :
       /\ inserts[i].key[1] = s /\ inserts[i].cells = results[inserts[i].key[2]]
       /\ \A k \in DOMAIN rows : inserts[i].key # rows[k].key
  /\ \A p \in Participant : results[p] # None /\ Absent(rows, s, p) =>
       \E i \in DOMAIN inserts : inserts[i].key = <<s, p>>

(* The rows it adds: one for every wanted participant without a row. *)
LEMMA PlanInserts ==
  ASSUME NEW rows \in Seq(Row), NEW s \in Session, NEW results \in Results
  PROVE  Supplements(Inserts(rows, RowsOf(s, results)), rows, s, results)
<1> DEFINE list == RowsOf(s, results)
           P == {i \in DOMAIN list : list[i].key \notin Keys(rows)}
           inserts == Picked(list, P)
           n == Cardinality(P)
           at == Ascending(P)
<1>1. Inserts(rows, list) = inserts
  BY DEF Inserts
<1>2. /\ list \in Seq(Row) /\ ~Clash(list)
      /\ \A i \in DOMAIN list : list[i].key[1] = s /\ list[i].cells = results[list[i].key[2]]
      /\ \A p \in Participant : results[p] # None => \E i \in DOMAIN list : list[i].key = <<s, p>>
  BY RowsOfIs
<1> HIDE DEF list
<1>3. /\ \A i \in DOMAIN list : i \in P <=> \A k \in DOMAIN rows : list[i].key # rows[k].key
      /\ P \subseteq DOMAIN list
  BY <1>2, Keyed DEF Keys
<1> HIDE DEF P
<1>4. Leaves(inserts, list, P, n, at) /\ inserts \in Seq(Row) /\ ~Clash(inserts)
  BY <1>2, <1>3, PickedLeaves, LeftNoClash
<1> HIDE DEF inserts, n, at
<1>5. ASSUME NEW i \in DOMAIN inserts
      PROVE  /\ inserts[i].key[1] = s /\ inserts[i].cells = results[inserts[i].key[2]]
             /\ \A k \in DOMAIN rows : inserts[i].key # rows[k].key
  <2>1. inserts[i] = list[at[i]] /\ at[i] \in P /\ at[i] \in DOMAIN list
    BY <1>3, <1>4 DEF Leaves
  <2> QED BY <1>2, <1>3, <2>1
<1>6. ASSUME NEW p \in Participant, results[p] # None, Absent(rows, s, p)
      PROVE  \E i \in DOMAIN inserts : inserts[i].key = <<s, p>>
  <2>1. PICK i \in DOMAIN list : list[i].key = <<s, p>>
    BY <1>2, <1>6
  <2>2. i \in P
    BY <1>3, <1>6, <2>1 DEF Absent
  <2>3. PICK k \in 1 .. n : at[k] = i
    BY <1>4, <2>2 DEF Leaves
  <2> QED BY <1>4, <2>1, <2>3 DEF Leaves
<1> QED BY <1>1, <1>4, <1>5, <1>6 DEF list, Supplements

(* The rows it deletes: those of participants that have no result now. *)
LEMMA PlanDeletes ==
  ASSUME NEW rows \in Seq(Row), NEW s \in Session, NEW results \in Results
  PROVE  Obsolete(rows, KeysOf(s), RowsOf(s, results)) =
           {i \in DOMAIN rows : rows[i].key[1] = s /\ results[rows[i].key[2]] = None}
<1> DEFINE list == RowsOf(s, results)
<1>1. ASSUME NEW i \in DOMAIN rows
      PROVE  rows[i].key \in KeysOf(s) \ Keys(list) <=>
               rows[i].key[1] = s /\ results[rows[i].key[2]] = None
  <2> DEFINE p == rows[i].key[2]
  <2>1. p \in Participant /\ rows[i].key = <<rows[i].key[1], p>>
    BY Keyed
  <2> HIDE DEF p, list
  <2>2. rows[i].key \in KeysOf(s) <=> rows[i].key[1] = s
    <3>1. \A k \in Session \X Participant : k \in {s} \X Participant <=> k[1] = s
      OBVIOUS
    <3>2. rows[i].key \in Session \X Participant
      BY Keyed
    <3> QED BY <3>1, <3>2 DEF KeysOf
  <2>3. <<s, p>> \in Keys(list) <=> results[p] # None
    BY <2>1, KeysOfRows DEF list
  <2>4. rows[i].key[1] = s => rows[i].key = <<s, p>>
    BY <2>1
  <2> QED BY <2>2, <2>3, <2>4 DEF p
<1> HIDE DEF list
<1> QED BY <1>1 DEF Obsolete, list

(* A plan made from a sheet fits that sheet. *)
LEMMA PlanFits ==
  ASSUME NEW rows \in Seq(Row), NEW s \in Session, NEW results \in Results
  PROVE  /\ Replacing(rows, PlanFor(rows, s, results))
         /\ New(rows, PlanFor(rows, s, results))
         /\ Drops(rows, PlanFor(rows, s, results))
<1> DEFINE updates == Updates(rows, KeysOf(s), RowsOf(s, results))
           inserts == Inserts(rows, RowsOf(s, results))
           deletes == Obsolete(rows, KeysOf(s), RowsOf(s, results))
           j == PlanFor(rows, s, results)
<1>1. \A i \in DOMAIN rows :
        /\ i \in DOMAIN updates =>
             /\ rows[i].key[1] = s /\ results[rows[i].key[2]] # None
             /\ updates[i] = results[rows[i].key[2]]
  BY PlanUpdates
<1>2. DOMAIN updates \subseteq DOMAIN rows
  BY DEF Updates
<1>3. /\ inserts \in Seq(Row) /\ ~Clash(inserts)
      /\ \A i \in DOMAIN inserts :
           /\ inserts[i].key[1] = s /\ inserts[i].cells = results[inserts[i].key[2]]
           /\ \A k \in DOMAIN rows : inserts[i].key # rows[k].key
  <2>1. Supplements(inserts, rows, s, results)
    BY PlanInserts
  <2> HIDE DEF inserts
  <2> QED BY <2>1 DEF Supplements
<1>4. deletes = {i \in DOMAIN rows : rows[i].key[1] = s /\ results[rows[i].key[2]] = None}
  BY PlanDeletes
<1>5. deletes \subseteq DOMAIN rows
  BY <1>4
<1>6. IsFiniteSet(deletes) /\ deletes \subseteq Nat
  BY <1>5, Keyed, BoundedSet
<1> HIDE DEF updates, inserts, deletes
<1>7. /\ j.at = "update" /\ j.session = s /\ j.results = results
      /\ j.updates = updates /\ j.inserts = inserts /\ j.deletes = deletes
  BY DEF PlanFor, updates, inserts, deletes
<1> HIDE DEF j
<1>8. Corrects(rows, j)
  <2> SUFFICES ASSUME NEW i \in DOMAIN updates
               PROVE  /\ i \in DOMAIN rows /\ rows[i].key[1] = s
                      /\ updates[i] \in Value /\ updates[i] = results[rows[i].key[2]]
    BY <1>7 DEF Corrects
  <2>1. i \in DOMAIN rows
    BY <1>2
  <2>2. rows[i].key[2] \in Participant
    BY <2>1, Keyed
  <2>3. rows[i].key[1] = s /\ results[rows[i].key[2]] # None /\ updates[i] = results[rows[i].key[2]]
    BY <1>1, <2>1
  <2> QED BY <2>1, <2>2, <2>3 DEF Results
<1>9. Adds(j)
  BY <1>3, <1>7 DEF Adds
<1>10. New(rows, j)
  BY <1>3, <1>7 DEF New, Clash
<1>11. Drops(rows, j)
  BY <1>4, <1>7 DEF Drops
<1>12. j = [at |-> j.at, session |-> j.session, results |-> j.results,
            updates |-> j.updates, inserts |-> j.inserts, deletes |-> j.deletes]
  BY DEF j, PlanFor
<1>13. Replacing(rows, j)
  BY <1>6, <1>7, <1>8, <1>9, <1>12 DEF Replacing
<1> QED BY <1>10, <1>11, <1>13 DEF j

(* Nothing to write, append or delete: every result is there already.      *)
LEMMA NothingMissing ==
  ASSUME NEW rows \in Seq(Row), NEW s \in Session, NEW results \in Results,
         NothingToDo(PlanFor(rows, s, results))
  PROVE  SeenIn(rows, s) = results
<1> DEFINE updates == Updates(rows, KeysOf(s), RowsOf(s, results))
           inserts == Inserts(rows, RowsOf(s, results))
           deletes == Obsolete(rows, KeysOf(s), RowsOf(s, results))
<1>1. DOMAIN updates = {} /\ DOMAIN inserts = {} /\ deletes = {}
  BY DEF NothingToDo, PlanFor
<1>2. \A i \in DOMAIN rows :
        rows[i].key[1] = s /\ results[rows[i].key[2]] # None => rows[i].cells = results[rows[i].key[2]]
  BY <1>1, PlanUpdates
<1>3. \A p \in Participant : ~(results[p] # None /\ Absent(rows, s, p))
  <2>1. Supplements(inserts, rows, s, results)
    BY PlanInserts
  <2> HIDE DEF inserts
  <2> QED BY <1>1, <2>1 DEF Supplements
<1>4. \A i \in DOMAIN rows : ~(rows[i].key[1] = s /\ results[rows[i].key[2]] = None)
  <2>1. deletes = {i \in DOMAIN rows : rows[i].key[1] = s /\ results[rows[i].key[2]] = None}
    BY PlanDeletes
  <2> HIDE DEF deletes
  <2> QED BY <1>1, <2>1
<1>5. ASSUME NEW p \in Participant PROVE SeenIn(rows, s)[p] = results[p]
  <2>1. CASE Absent(rows, s, p)
    BY <1>3, <2>1, SeenAbsent
  <2>2. CASE ~Absent(rows, s, p)
    <3>1. PICK m \in DOMAIN rows : LastOf(rows, s, p, m) /\ SeenIn(rows, s)[p] = rows[m].cells
      BY <2>2, SeenIs
    <3>2. rows[m].key[1] = s /\ rows[m].key[2] = p
      BY <3>1 DEF LastOf
    <3> QED BY <1>2, <1>4, <3>1, <3>2
  <2> QED BY <2>1, <2>2
<1>6. SeenIn(rows, s) = [p \in Participant |-> SeenIn(rows, s)[p]]
  BY DEF SeenIn
<1>7. results = [p \in Participant |-> results[p]]
  BY DEF Results
<1> QED BY <1>5, <1>6, <1>7

-----------------------------------------------------------------------------
(* One call: Effect is EffectOn(sheet, job).                               *)
EffectOn(rows, j) ==
  CASE j.at = "update" -> Written(rows, j.updates)
    [] j.at = "append" -> Appended(rows, j.inserts)
    [] j.at = "delete" -> Deleted(rows, Descending(j.deletes))

Staged(j) == [j EXCEPT !.at = After[@]]

(* The job after its present call is done. *)
LEMMA StagedIs ==
  ASSUME NEW rows, NEW j, Replacing(rows, j), j.at \in {"update", "append", "delete"}
  PROVE  /\ Staged(j).session = j.session /\ Staged(j).results = j.results
         /\ Staged(j).updates = j.updates /\ Staged(j).inserts = j.inserts
         /\ Staged(j).deletes = j.deletes
         /\ Staged(j) = [at |-> Staged(j).at, session |-> j.session, results |-> j.results,
                         updates |-> j.updates, inserts |-> j.inserts, deletes |-> j.deletes]
         /\ j.at = "update" => Staged(j).at = "append"
         /\ j.at = "append" => Staged(j).at = "delete"
         /\ j.at = "delete" => Staged(j).at = "verify"
         /\ Staged(j) # Idle
<1>1. j = [at |-> j.at, session |-> j.session, results |-> j.results,
           updates |-> j.updates, inserts |-> j.inserts, deletes |-> j.deletes]
  BY DEF Replacing
<1>2. Staged(j) = [at |-> After[j.at], session |-> j.session, results |-> j.results,
                   updates |-> j.updates, inserts |-> j.inserts, deletes |-> j.deletes]
  BY <1>1 DEF Staged
<1>3. /\ j.at = "update" => After[j.at] = "append"
      /\ j.at = "append" => After[j.at] = "delete"
      /\ j.at = "delete" => After[j.at] = "verify"
  BY DEF After
<1> QED BY <1>2, <1>3 DEF Idle

(* The plan does not change from one call to the next. *)
LEMMA StagedKeeps ==
  ASSUME NEW rows, NEW j, Replacing(rows, j), j.at \in {"update", "append", "delete"}
  PROVE  /\ Replacing(rows, Staged(j))
         /\ New(rows, j) => New(rows, Staged(j))
         /\ Drops(rows, j) => Drops(rows, Staged(j))
<1> DEFINE k == Staged(j)
<1>1. /\ k.session = j.session /\ k.results = j.results
      /\ k.updates = j.updates /\ k.inserts = j.inserts /\ k.deletes = j.deletes
      /\ k = [at |-> k.at, session |-> j.session, results |-> j.results,
              updates |-> j.updates, inserts |-> j.inserts, deletes |-> j.deletes]
      /\ j.at = "update" => k.at = "append"
      /\ j.at = "append" => k.at = "delete"
      /\ j.at = "delete" => k.at = "verify"
  BY StagedIs
<1> HIDE DEF k
<1>2. Replacing(rows, k)
  BY <1>1 DEF Replacing, Adds
<1>3. New(rows, j) => New(rows, k)
  BY <1>1 DEF New
<1>4. Drops(rows, j) => Drops(rows, k)
  BY <1>1 DEF Drops
<1> QED BY <1>2, <1>3, <1>4 DEF k

(* A plan that fits for one call fits for the next. *)
LEMMA StagedFits ==
  ASSUME NEW rows, NEW j, Fits(rows, j), j.at \in {"update", "append", "delete"}
  PROVE  Fits(rows, Staged(j))
<1>1. Replacing(rows, j)
  BY DEF Fits
<1>2. /\ Replacing(rows, Staged(j))
      /\ New(rows, j) => New(rows, Staged(j))
      /\ Drops(rows, j) => Drops(rows, Staged(j))
  BY <1>1, StagedKeeps
<1>3. /\ j.at = "update" => Staged(j).at = "append"
      /\ j.at = "append" => Staged(j).at = "delete"
      /\ j.at = "delete" => Staged(j).at = "verify"
  BY <1>1, StagedIs
<1> QED BY <1>2, <1>3 DEF Fits

(* The rest of the plan fits the sheet after the update, *)
LEMMA UpdateFits ==
  ASSUME NEW rows \in Seq(Row), NEW j, Fits(rows, j), j.at = "update"
  PROVE  /\ Written(rows, j.updates) \in Seq(Row)
         /\ Fits(Written(rows, j.updates), j)
         /\ ~Clash(rows) => ~Clash(Written(rows, j.updates))
<1> DEFINE new == Written(rows, j.updates)
<1>1. Replacing(rows, j) /\ Corrects(rows, j)
  BY DEF Fits, Replacing
<1>2. new \in Seq(Row) /\ SameKeys(rows, new)
  BY <1>1, WrittenIs
<1> HIDE DEF new
<1>3. Corrects(new, j)
  BY <1>1, <1>2 DEF Corrects, SameKeys
<1>4. Replacing(new, j)
  BY <1>1, <1>3 DEF Replacing
<1>5. New(rows, j) => New(new, j)
  BY <1>2 DEF New, SameKeys
<1>6. Drops(rows, j) => Drops(new, j)
  BY <1>2 DEF Drops, SameKeys
<1>7. Fits(new, j)
  BY <1>4, <1>5, <1>6 DEF Fits
<1>8. ~Clash(rows) => ~Clash(new)
  BY <1>2 DEF Clash, SameKeys
<1> QED BY <1>2, <1>7, <1>8 DEF new

(* after the append, *)
LEMMA AppendFits ==
  ASSUME NEW rows \in Seq(Row), NEW j, Fits(rows, j), j.at = "append"
  PROVE  /\ Appended(rows, j.inserts) \in Seq(Row)
         /\ Replacing(Appended(rows, j.inserts), j)
         /\ Drops(rows, j) => Drops(Appended(rows, j.inserts), j)
         /\ New(rows, j) /\ ~Clash(rows) => ~Clash(Appended(rows, j.inserts))
<1> DEFINE new == Appended(rows, j.inserts)
<1>1. Replacing(rows, j) /\ Adds(j) /\ j.inserts \in Seq(Row)
  BY DEF Fits, Replacing, Adds
<1>2. /\ Joins(new, rows, j.inserts, Row) /\ new \in Seq(Row) /\ DOMAIN new = 1 .. Len(new)
      /\ DOMAIN rows = 1 .. Len(rows) /\ DOMAIN j.inserts = 1 .. Len(j.inserts)
  BY <1>1, AppendedIs
<1> HIDE DEF new
<1>3. /\ Len(rows) \in Nat /\ Len(j.inserts) \in Nat /\ Len(new) = Len(rows) + Len(j.inserts)
      /\ \A i \in 1 .. Len(rows) : new[i] = rows[i]
      /\ \A k \in 1 .. Len(j.inserts) : new[Len(rows) + k] = j.inserts[k]
      /\ \A i \in 1 .. Len(new) :
            i \in 1 .. Len(rows) \/ \E k \in 1 .. Len(j.inserts) : i = Len(rows) + k
  BY <1>2 DEF Joins
<1>4. \A i \in 1 .. Len(rows) : i \in 1 .. Len(new)
  BY <1>3
<1>5. Replacing(new, j)
  BY <1>1 DEF Replacing
<1>6. ASSUME Drops(rows, j) PROVE Drops(new, j)
  <2> DEFINE gone(i) == new[i].key[1] = j.session /\ j.results[new[i].key[2]] = None
  <2>1. ASSUME NEW i \in 1 .. Len(new), gone(i) PROVE i \in j.deletes
    <3>1. CASE i \in 1 .. Len(rows)
      BY <1>2, <1>3, <1>6, <2>1, <3>1 DEF Drops
    <3>2. CASE i \notin 1 .. Len(rows)
      <4>1. PICK k \in 1 .. Len(j.inserts) : i = Len(rows) + k
        BY <1>3, <3>2
      <4>2. new[i] = j.inserts[k] /\ k \in DOMAIN j.inserts
        BY <1>2, <1>3, <4>1
      <4>3. j.inserts[k].cells # None
        BY <1>1, <4>2, Keyed
      <4>4. j.inserts[k].cells = j.results[j.inserts[k].key[2]]
        BY <1>1, <4>2 DEF Adds
      <4> QED BY <2>1, <4>2, <4>3, <4>4
    <3> QED BY <3>1, <3>2
  <2>2. ASSUME NEW i \in j.deletes PROVE i \in 1 .. Len(new) /\ gone(i)
    BY <1>2, <1>3, <1>4, <1>6 DEF Drops
  <2> HIDE DEF gone
  <2>3. j.deletes = {i \in DOMAIN new : gone(i)}
    BY <1>2, <2>1, <2>2
  <2> QED BY <2>3 DEF Drops, gone
<1>7. ASSUME New(rows, j), ~Clash(rows) PROVE ~Clash(new)
  <2> SUFFICES ASSUME NEW i \in 1 .. Len(new), NEW k \in 1 .. Len(new), i < k,
                      new[i].key = new[k].key
               PROVE  FALSE
    BY <1>2, <1>3 DEF Clash
  <2>0. i # k
    BY <1>3
  <2>1. CASE k \in 1 .. Len(rows)
    <3>1. i \in 1 .. Len(rows)
      BY <1>3, <2>1
    <3>2. new[i] = rows[i] /\ new[k] = rows[k] /\ i \in DOMAIN rows /\ k \in DOMAIN rows
      BY <1>2, <1>3, <2>1, <3>1
    <3> QED BY <1>7, <2>0, <3>2 DEF Clash
  <2>2. CASE k \notin 1 .. Len(rows)
    <3>1. PICK b \in 1 .. Len(j.inserts) : k = Len(rows) + b
      BY <1>3, <2>2
    <3>0. new[k] = j.inserts[b] /\ b \in DOMAIN j.inserts
      BY <1>2, <1>3, <3>1
    <3>2. CASE i \in 1 .. Len(rows)
      <4>1. new[i] = rows[i] /\ i \in DOMAIN rows
        BY <1>2, <1>3, <3>2
      <4> QED BY <1>7, <3>0, <4>1 DEF New
    <3>3. CASE i \notin 1 .. Len(rows)
      <4>1. PICK a \in 1 .. Len(j.inserts) : i = Len(rows) + a
        BY <1>3, <3>3
      <4>2. a # b
        BY <2>0, <3>1, <4>1
      <4>3. new[i] = j.inserts[a] /\ a \in DOMAIN j.inserts
        BY <1>2, <1>3, <4>1
      <4> QED BY <1>7, <3>0, <4>2, <4>3 DEF New
    <3> QED BY <3>2, <3>3
  <2> QED BY <2>1, <2>2
<1> QED BY <1>2, <1>5, <1>6, <1>7 DEF new

(* and after the delete. *)
LEMMA DeleteFits ==
  ASSUME NEW rows \in Seq(Row), NEW j, Fits(rows, j), j.at = "delete"
  PROVE  /\ Deleted(rows, Descending(j.deletes)) \in Seq(Row)
         /\ Replacing(Deleted(rows, Descending(j.deletes)), j)
         /\ ~Clash(rows) => ~Clash(Deleted(rows, Descending(j.deletes)))
<1> DEFINE d == Descending(j.deletes)
           new == Deleted(rows, d)
<1>1. Replacing(rows, j) /\ j.deletes \subseteq Nat /\ IsFiniteSet(j.deletes)
  BY DEF Fits, Replacing
<1>2. d \in Seq(Nat)
  BY <1>1, DescendingIs
<1> HIDE DEF d
<1>3. PICK P \in SUBSET DOMAIN rows : new = Picked(rows, P)
  BY <1>2, DeletedLeaves
<1>4. P \subseteq DOMAIN rows
  OBVIOUS
<1>5. new \in Seq(Row)
  BY <1>3, <1>4, PickedIs
<1>6. ~Clash(rows) => ~Clash(new)
  BY <1>3, <1>4, LeftNoClash
<1>7. Replacing(new, j)
  BY <1>1 DEF Replacing
<1> QED BY <1>5, <1>6, <1>7 DEF d

(* So it does after every call, and after a call repeated because its *)
(* answer was lost.                                                   *)
LEMMA CallFits ==
  ASSUME NEW rows \in Seq(Row), NEW j, Fits(rows, j), j.at \in {"update", "append", "delete"}
  PROVE  /\ EffectOn(rows, j) \in Seq(Row)
         /\ Fits(EffectOn(rows, j), Staged(j))
         /\ j.at \in LostAnswers => Fits(EffectOn(rows, j), j)
         /\ "append" \notin LostAnswers /\ ~Clash(rows) => ~Clash(EffectOn(rows, j))
<1> DEFINE new == EffectOn(rows, j)
<1>1. CASE j.at = "update"
  <2>1. new = Written(rows, j.updates)
    BY <1>1 DEF EffectOn
  <2>2. new \in Seq(Row) /\ Fits(new, j) /\ (~Clash(rows) => ~Clash(new))
    BY <1>1, <2>1, UpdateFits
  <2> HIDE DEF new
  <2>3. Fits(new, Staged(j))
    BY <2>2, StagedFits
  <2> QED BY <2>2, <2>3 DEF new
<1>2. CASE j.at = "append"
  <2>1. new = Appended(rows, j.inserts)
    BY <1>2 DEF EffectOn
  <2>2. /\ new \in Seq(Row) /\ Replacing(new, j)
        /\ Drops(rows, j) => Drops(new, j)
        /\ New(rows, j) /\ ~Clash(rows) => ~Clash(new)
    BY <1>2, <2>1, AppendFits
  <2> HIDE DEF new
  <2>3. Replacing(new, Staged(j)) /\ (Drops(new, j) => Drops(new, Staged(j)))
    BY <2>2, StagedKeeps
  <2>4. Staged(j).at = "delete"
    BY <1>2, <2>2, StagedIs
  <2>5. Fits(new, Staged(j))
    BY <1>2, <2>2, <2>3, <2>4 DEF Fits
  <2>6. "append" \in LostAnswers => Fits(new, j)
    BY <1>2, <2>2 DEF Fits
  <2>7. "append" \notin LostAnswers /\ ~Clash(rows) => ~Clash(new)
    BY <1>2, <2>2 DEF Fits
  <2> QED BY <1>2, <2>2, <2>5, <2>6, <2>7 DEF new
<1>3. CASE j.at = "delete"
  <2>1. new = Deleted(rows, Descending(j.deletes))
    BY <1>3 DEF EffectOn
  <2>2. new \in Seq(Row) /\ Replacing(new, j) /\ (~Clash(rows) => ~Clash(new))
    BY <1>3, <2>1, DeleteFits
  <2> HIDE DEF new
  <2>3. Replacing(new, Staged(j)) /\ Staged(j).at = "verify"
    BY <1>3, <2>2, StagedKeeps, StagedIs
  <2>4. Fits(new, Staged(j))
    BY <2>3 DEF Fits
  <2>5. "delete" \in LostAnswers => Fits(new, j)
    BY <1>3, <2>2 DEF Fits
  <2> QED BY <1>3, <2>2, <2>4, <2>5 DEF new
<1> QED BY <1>1, <1>2, <1>3

(* What a call does to the results.                                        *)
LEMMA CallMoves ==
  ASSUME NEW rows \in Seq(Row), NEW j, Fits(rows, j), j.at \in {"update", "append", "delete"},
         "delete" \notin LostAnswers
  PROVE  /\ Moves(rows, EffectOn(rows, j), j)
         /\ Others(EffectOn(rows, j), j.session) = Others(rows, j.session)
<1>1. Replacing(rows, j) /\ Adds(j) /\ Drops(rows, j)
  BY DEF Fits, Replacing
<1>2. CASE j.at = "update"
  <2>1. Corrects(rows, j)
    BY <1>1, <1>2 DEF Replacing
  <2>2. EffectOn(rows, j) = Written(rows, j.updates)
    BY <1>2 DEF EffectOn
  <2> QED BY <2>1, <2>2, WrittenMoves, WrittenOthers
<1>3. CASE j.at = "append"
  <2>1. EffectOn(rows, j) = Appended(rows, j.inserts)
    BY <1>3 DEF EffectOn
  <2> QED BY <1>1, <2>1, AppendedMoves, AppendedOthers
<1>4. CASE j.at = "delete"
  <2>1. EffectOn(rows, j) = Deleted(rows, Descending(j.deletes))
    BY <1>4 DEF EffectOn
  <2> QED BY <1>1, <2>1, DroppedMoves, DroppedOthers
<1> QED BY <1>2, <1>3, <1>4

-----------------------------------------------------------------------------

(* The invariant holds at first. *)
LEMMA InvInit == Init => Inv
<1> SUFFICES ASSUME Init PROVE Inv
  OBVIOUS
<1>1. sheet = << >> /\ job = Idle /\ sheet \in Seq(Row)
  BY DEF Init
<1>2. wanted \in [Session -> Results]
  BY DEF Init, Results
<1>3. NoDuplicates
  BY <1>1 DEF NoDuplicates, Duplicated
<1> QED BY <1>1, <1>2, <1>3 DEF Inv

(* Reading the sheet and planning keeps it. *)
LEMMA ReadKeeps == ASSUME Inv, NEW s \in Session, Read(s) PROVE Inv'
<1>1. /\ sheet' = sheet /\ wanted' = wanted /\ sheet \in Seq(Row) /\ wanted \in [Session -> Results]
      /\ "append" \notin LostAnswers => NoDuplicates
  BY DEF Inv, Read
<1>2. wanted[s] \in Results
  BY <1>1
<1>3. Plan(s, wanted[s]) = PlanFor(sheet, s, wanted[s])
  BY DEF Plan, PlanFor
<1>4. /\ Replacing(sheet, PlanFor(sheet, s, wanted[s]))
      /\ New(sheet, PlanFor(sheet, s, wanted[s]))
      /\ Drops(sheet, PlanFor(sheet, s, wanted[s]))
  BY <1>1, <1>2, PlanFits
<1>5. Fits(sheet, PlanFor(sheet, s, wanted[s]))
  BY <1>4 DEF Fits
<1>6. job' = Idle \/ job' = PlanFor(sheet, s, wanted[s])
  BY <1>3 DEF Read
<1>7. job' # Idle => Fits(sheet', job')
  BY <1>1, <1>5, <1>6
<1> QED BY <1>1, <1>7 DEF Inv, NoDuplicates

(* What holds where a call is made. *)
LEMMA AtACall ==
  ASSUME Inv, Calling
  PROVE  /\ sheet \in Seq(Row) /\ job.at \in {"update", "append", "delete"} /\ job # Idle
         /\ Fits(sheet, job) /\ Effect = EffectOn(sheet, job)
         /\ "append" \notin LostAnswers => ~Clash(sheet)
  BY DuplicatedIs DEF Inv, Calling, Idle, Effect, EffectOn, NoDuplicates

(* Skipping a call with nothing to write keeps the invariant. *)
LEMMA SkipKeeps == ASSUME Inv, SkipCall PROVE Inv'
<1>1. Calling /\ sheet' = sheet /\ wanted' = wanted /\ job' = Staged(job)
  BY DEF SkipCall, Staged
<1>2. Fits(sheet, Staged(job))
  BY <1>1, AtACall, StagedFits
<1> QED BY <1>1, <1>2 DEF Inv, NoDuplicates

(* So does a call, done once or twice, or followed by a crash. *)
LEMMA CallKeeps ==
  ASSUME Inv, Calling, sheet' = Effect, wanted' = wanted,
         \/ job' \in {Staged(job), Idle}
         \/ job' = job /\ job.at \in LostAnswers
  PROVE  Inv'
<1>1. /\ sheet \in Seq(Row) /\ job.at \in {"update", "append", "delete"}
      /\ Fits(sheet, job) /\ sheet' = EffectOn(sheet, job)
      /\ "append" \notin LostAnswers => ~Clash(sheet)
  BY AtACall
<1>2. /\ EffectOn(sheet, job) \in Seq(Row)
      /\ Fits(EffectOn(sheet, job), Staged(job))
      /\ job.at \in LostAnswers => Fits(EffectOn(sheet, job), job)
      /\ "append" \notin LostAnswers /\ ~Clash(sheet) => ~Clash(EffectOn(sheet, job))
  BY <1>1, CallFits
<1>3. sheet' \in Seq(Row) /\ ("append" \notin LostAnswers => ~Duplicated(sheet'))
  BY <1>1, <1>2, DuplicatedIs
<1>4. job' # Idle => Fits(sheet', job')
  BY <1>1, <1>2
<1>5. wanted' \in [Session -> Results]
  BY DEF Inv
<1> QED BY <1>3, <1>4, <1>5 DEF Inv, NoDuplicates

(* Every step keeps the invariant. *)
LEMMA InvNext == Inv /\ [Next]_vars => Inv'
<1> SUFFICES ASSUME Inv, [Next]_vars PROVE Inv'
  OBVIOUS
<1>1. ASSUME NEW s \in Session, Read(s) PROVE Inv'
  BY <1>1, ReadKeeps
<1>2. ASSUME SkipCall PROVE Inv'
  BY <1>2, SkipKeeps
<1>3. ASSUME Call PROVE Inv'
  <2>1. Calling /\ sheet' = Effect /\ wanted' = wanted /\ job' = Staged(job)
    BY <1>3 DEF Call, Staged
  <2> QED BY <2>1, CallKeeps
<1>4. ASSUME CallRefused PROVE Inv'
  <2>1. sheet' = sheet /\ wanted' = wanted /\ job' \in {job, Idle}
    BY <1>4 DEF CallRefused, RetryOrRaise
  <2> QED BY <2>1 DEF Inv, NoDuplicates
<1>5. ASSUME AnswerLost PROVE Inv'
  <2>1. Calling /\ sheet' = Effect /\ wanted' = wanted /\ job.at \in LostAnswers /\ job' \in {job, Idle}
    BY <1>5 DEF AnswerLost, RetryOrRaise
  <2> QED BY <2>1, CallKeeps
<1>6. ASSUME Verify \/ Crash PROVE Inv'
  <2>1. sheet' = sheet /\ wanted' = wanted /\ job' = Idle
    BY <1>6 DEF Verify, Crash
  <2> QED BY <2>1 DEF Inv, NoDuplicates
<1>7. ASSUME NEW s \in Session, NEW results \in Results, Change(s, results) PROVE Inv'
  <2>1. sheet' = sheet /\ job' = job /\ wanted' = [wanted EXCEPT ![s] = results]
    BY <1>7 DEF Change
  <2>2. wanted' \in [Session -> Results]
    BY <2>1 DEF Inv
  <2> QED BY <2>1, <2>2 DEF Inv, NoDuplicates
<1>8. ASSUME UNCHANGED vars PROVE Inv'
  BY <1>8 DEF vars, Inv, NoDuplicates
<1> QED
  BY <1>1, <1>2, <1>3, <1>4, <1>5, <1>6, <1>7, <1>8 DEF Next, Progress

(* The replacement that is under way always fits the sheet it works on, *)
(* and without repeated appends no key is there twice.                  *)
THEOREM InvAlways == Spec => []Inv
  BY InvInit, InvNext, PTL DEF Spec

(* No session and participant have two rows in the results sheet   *)
(* (SessionResultsRepository.replace), as long as an append is not *)
(* repeated after a lost answer.                                   *)
THEOREM NeverTwice ==
  ASSUME "append" \notin LostAnswers PROVE Spec => []NoDuplicates
<1>1. Inv => NoDuplicates
  BY DEF Inv
<1> QED BY <1>1, InvAlways, PTL

(* A replacement leaves the rows of every other session as they were, as *)
(* long as a delete is not repeated: a repeated delete takes whatever    *)
(* rows have come up in the place of the deleted ones.                   *)
THEOREM OthersStay ==
  ASSUME "delete" \notin LostAnswers PROVE Spec => OtherSessionsUntouched
<1>1. ASSUME Inv, [Next]_vars, sheet' # sheet
      PROVE  Others(sheet', job.session) = Others(sheet, job.session)
  <2>1. Calling /\ sheet' = Effect
    BY <1>1 DEF Next, Progress, Read, SkipCall, Call, CallRefused, AnswerLost, Verify, Crash, Change, vars
  <2>2. /\ sheet \in Seq(Row) /\ job.at \in {"update", "append", "delete"} /\ Fits(sheet, job)
        /\ sheet' = EffectOn(sheet, job)
    BY <1>1, <2>1, AtACall
  <2> QED BY <2>2, CallMoves
<1> QED BY <1>1, InvAlways, PTL DEF Spec, OtherSessionsUntouched

(* The reader of the model is the one of the lemmas. *)
LEMMA SeenInIs == ASSUME NEW s PROVE Seen(s) = SeenIn(sheet, s)
  BY DEF Seen, SeenIn

(* When a replacement reports success, every participant is seen with the *)
(* result of that session and nobody else is.                             *)
THEOREM SuccessMeansDone ==
  ASSUME "append" \notin LostAnswers PROVE Spec => SuccessIsComplete
<1>1. ASSUME Inv, [Next]_vars, result' = "replaced", result # "replaced"
      PROVE  Seen(job.session) = job.results /\ ~Duplicated(sheet)
  <2>1. Verify
    <3>1. \A s \in Session : Read(s) => result' \in {"refused", "noop", "none"}
      BY DEF Read
    <3>2. SkipCall \/ Call \/ CallRefused \/ AnswerLost => result' \in {result, "raised"}
      BY DEF SkipCall, Call, CallRefused, AnswerLost, RetryOrRaise
    <3>3. Crash => result' = "none"
      BY DEF Crash
    <3>4. \A s \in Session, results \in Results : Change(s, results) => result' = result
      BY DEF Change
    <3>5. UNCHANGED vars => result' = result
      BY DEF vars
    <3> QED BY <1>1, <3>1, <3>2, <3>3, <3>4, <3>5 DEF Next, Progress
  <2>2. Seen(job.session) = job.results
    BY <1>1, <2>1 DEF Verify
  <2> QED BY <1>1, <2>2 DEF Inv, NoDuplicates
<1>2. ASSUME Inv, NEW s \in Session, Read(s), result' = "noop" PROVE Seen(s) = wanted[s]
  <2>1. NothingToDo(Plan(s, wanted[s]))
    BY <1>2 DEF Read
  <2>2. Plan(s, wanted[s]) = PlanFor(sheet, s, wanted[s])
    BY DEF Plan, PlanFor
  <2>3. sheet \in Seq(Row) /\ wanted[s] \in Results
    BY <1>2 DEF Inv
  <2> QED BY <2>1, <2>2, <2>3, NothingMissing, SeenInIs
<1>3. Inv /\ [Next]_vars =>
        /\ result' = "replaced" /\ result # "replaced" =>
             Seen(job.session) = job.results /\ ~Duplicated(sheet)
        /\ \A s \in Session : Read(s) /\ result' = "noop" => Seen(s) = wanted[s]
  BY <1>1, <1>2
<1> QED BY <1>3, InvAlways, PTL DEF Spec, SuccessIsComplete

-----------------------------------------------------------------------------
(* The refinement.                                                         *)
TableOf(rows) == [s \in Session |-> SeenIn(rows, s)]

JobOf(j) ==
  IF j = Idle THEN [busy |-> FALSE]
  ELSE [busy |-> TRUE, session |-> j.session, wanted |-> j.results]

Reached(rows, j) == {p \in Participant : SeenIn(rows, j.session)[p] = j.results[p]}

(* How a step that settles some participants looks in the table of *)
(* results.                                                        *)
LEMMA SettledIs ==
  ASSUME NEW rows, NEW new, NEW j, j.session \in Session, Moves(rows, new, j)
  PROVE  TableOf(new) =
           [TableOf(rows) EXCEPT ![j.session] =
              [p \in Participant |-> IF p \in Reached(new, j) THEN j.results[p] ELSE @[p]]]
<1> DEFINE t == j.session
           cell == [p \in Participant |->
                     IF p \in Reached(new, j) THEN j.results[p] ELSE TableOf(rows)[t][p]]
<1>1. \A s \in Session : /\ SeenIn(new, s) = [p \in Participant |-> SeenIn(new, s)[p]]
                         /\ SeenIn(rows, s) = [p \in Participant |-> SeenIn(rows, s)[p]]
  BY DEF SeenIn
<1>2. ASSUME NEW s \in Session, s # t PROVE SeenIn(new, s) = SeenIn(rows, s)
  <2>1. \A p \in Participant : SeenIn(new, s)[p] = SeenIn(rows, s)[p]
    BY <1>2 DEF Moves
  <2> QED BY <1>1, <2>1
<1>3. SeenIn(new, t) = cell
  <2>1. TableOf(rows)[t] = SeenIn(rows, t)
    BY DEF TableOf
  <2>2. \A p \in Participant : SeenIn(new, t)[p] = cell[p]
    BY <2>1 DEF Moves, Reached
  <2> QED BY <1>1, <2>2
<1> HIDE DEF cell
<1>4. TableOf(new) = [TableOf(rows) EXCEPT ![t] = cell]
  BY <1>2, <1>3 DEF TableOf
<1> QED BY <1>4 DEF cell

(* Such a step, with or without the end of the job, is one of the table. *)
LEMMA SettlesOrEnds ==
  ASSUME Inv, job # Idle, Moves(sheet, sheet', job), JobOf(job)' \in {JobOf(job), JobOf(Idle)}
  PROVE  [Table!Next]_Table!vars
<1> DEFINE some == Reached(sheet', job)
<1>1. job.session \in Session
  BY DEF Inv, Fits, Replacing
<1>2. TableOf(sheet') =
         [TableOf(sheet) EXCEPT ![job.session] =
            [p \in Participant |-> IF p \in some THEN job.results[p] ELSE @[p]]]
  BY <1>1, SettledIs
<1>3. some \in SUBSET Participant
  BY DEF Reached
<1> HIDE DEF some
<1> DEFINE table == [s \in Session |-> Seen(s)]
           doing == IF job = Idle THEN [busy |-> FALSE]
                    ELSE [busy |-> TRUE, session |-> job.session, wanted |-> job.results]
<1>4. table = TableOf(sheet) /\ table' = TableOf(sheet')
  BY DEF TableOf, Seen, SeenIn
<1>5. /\ doing.session = job.session /\ doing.wanted = job.results
      /\ doing # Table!Idle /\ doing' \in {doing, Table!Idle}
  BY DEF JobOf, Table!Idle
<1>6. Table!Settled(some) =
        [table EXCEPT ![doing.session] =
           [p \in Participant |-> IF p \in some THEN doing.wanted[p] ELSE table[doing.session][p]]]
  BY DEF Table!Settled
<1>7. (Table!Settle(some) <=> doing # Table!Idle /\ table' = Table!Settled(some) /\ doing' = doing)
      /\ (Table!End(some) <=> doing # Table!Idle /\ table' = Table!Settled(some) /\ doing' = Table!Idle)
  BY DEF Table!Settle, Table!End
<1> HIDE DEF table, doing
<1>8. table' = Table!Settled(some)
  BY <1>2, <1>4, <1>5, <1>6
<1>9. Table!Settle(some) \/ Table!End(some)
  BY <1>5, <1>7, <1>8
<1> QED BY <1>3, <1>9 DEF Table!Next

(* A step that changes neither the sheet nor what the job wants. *)
LEMMA Stutters ==
  ASSUME sheet' = sheet, JobOf(job)' = JobOf(job)
  PROVE  UNCHANGED Table!vars
  BY DEF Table!vars, JobOf, Seen

(* An unchanged sheet disturbs nothing. *)
LEMMA StaysOrMoves == ASSUME NEW rows, NEW j PROVE Moves(rows, rows, j)
  BY DEF Moves

(* Reading begins a replacement of the table. *)
LEMMA ReadBegins ==
  ASSUME Inv, NEW s \in Session, Read(s)
  PROVE  [Table!Next]_Table!vars
<1>1. sheet' = sheet /\ job = Idle /\ wanted[s] \in Results
  BY DEF Read, Inv
<1>2. CASE job' = Idle
  <2>1. JobOf(job)' = JobOf(job)
    BY <1>1, <1>2 DEF JobOf
  <2> QED BY <1>1, <2>1, Stutters
<1>3. CASE job' # Idle
  <2>1. job' = Plan(s, wanted[s])
    BY <1>3 DEF Read
  <2>2. job'.session = s /\ job'.results = wanted[s]
    BY <2>1 DEF Plan
  <2>3. Table!Begin(s, wanted[s])
    BY <1>1, <1>3, <2>2 DEF Table!Begin, Table!Idle, Seen
  <2>4. wanted[s] \in Table!Results
    BY <1>1 DEF Results, Table!Results
  <2> QED BY <2>3, <2>4 DEF Table!Next
<1> QED BY <1>2, <1>3

(* A call settles participants of the table. *)
LEMMA CallSettles ==
  ASSUME Inv, "delete" \notin LostAnswers, Calling, sheet' = Effect,
         job' \in {Staged(job), job, Idle}
  PROVE  [Table!Next]_Table!vars
<1>1. /\ sheet \in Seq(Row) /\ job.at \in {"update", "append", "delete"} /\ job # Idle
      /\ Fits(sheet, job) /\ sheet' = EffectOn(sheet, job)
  BY AtACall
<1>2. Moves(sheet, sheet', job)
  BY <1>1, CallMoves
<1>3. /\ Staged(job).session = job.session /\ Staged(job).results = job.results
      /\ Staged(job) # Idle
  BY <1>1, StagedIs DEF Fits
<1>4. JobOf(Staged(job)) = JobOf(job)
  BY <1>1, <1>3 DEF JobOf
<1>5. JobOf(job)' \in {JobOf(job), JobOf(Idle)}
  BY <1>4
<1> QED BY <1>1, <1>2, <1>5, SettlesOrEnds

(* The calls on the sheet implement the table of SessionTable, where a *)
(* replacement settles one set of participants after the other and     *)
(* touches no other session, as long as a delete is not repeated.      *)
THEOREM TableImplemented ==
  ASSUME "delete" \notin LostAnswers PROVE Spec => ImplementsTable
<1>1. Init => Table!Init
  <2> SUFFICES ASSUME Init PROVE Table!Init
    OBVIOUS
  <2>1. sheet = << >> /\ job = Idle
    BY DEF Init
  <2>2. \A s \in Session : Seen(s) = [p \in Participant |-> None]
    BY <2>1 DEF Seen
  <2> QED BY <2>1, <2>2 DEF Table!Init, Table!Results, Table!Idle
<1>2. Inv /\ [Next]_vars => [Table!Next]_Table!vars
  <2> SUFFICES ASSUME Inv, [Next]_vars PROVE [Table!Next]_Table!vars
    OBVIOUS
  <2>1. ASSUME NEW s \in Session, Read(s) PROVE [Table!Next]_Table!vars
    BY <2>1, ReadBegins
  <2>2. ASSUME SkipCall PROVE [Table!Next]_Table!vars
    <3>1. Calling /\ sheet' = sheet /\ job' = Staged(job)
      BY <2>2 DEF SkipCall, Staged
    <3>2. Replacing(sheet, job) /\ job # Idle /\ job.at \in {"update", "append", "delete"}
      BY <3>1, AtACall DEF Fits
    <3>3. /\ Staged(job).session = job.session /\ Staged(job).results = job.results
          /\ Staged(job) # Idle
      BY <3>2, StagedIs
    <3>4. JobOf(job)' = JobOf(job)
      BY <3>1, <3>2, <3>3 DEF JobOf
    <3> QED BY <3>1, <3>4, Stutters
  <2>3. ASSUME Call PROVE [Table!Next]_Table!vars
    <3>1. Calling /\ sheet' = Effect /\ job' = Staged(job)
      BY <2>3 DEF Call, Staged
    <3> QED BY <3>1, CallSettles
  <2>4. ASSUME CallRefused PROVE [Table!Next]_Table!vars
    <3>1. Calling /\ sheet' = sheet /\ job' \in {job, Idle}
      BY <2>4 DEF CallRefused, RetryOrRaise
    <3>2. job # Idle /\ Moves(sheet, sheet', job) /\ JobOf(job)' \in {JobOf(job), JobOf(Idle)}
      BY <3>1, AtACall, StaysOrMoves
    <3> QED BY <3>2, SettlesOrEnds
  <2>5. ASSUME AnswerLost PROVE [Table!Next]_Table!vars
    <3>1. Calling /\ sheet' = Effect /\ job' \in {job, Idle}
      BY <2>5 DEF AnswerLost, RetryOrRaise
    <3> QED BY <3>1, CallSettles
  <2>6. ASSUME Verify \/ Crash PROVE [Table!Next]_Table!vars
    <3>1. sheet' = sheet /\ job' = Idle /\ job # Idle
      BY <2>6 DEF Verify, Crash, Idle
    <3>2. Moves(sheet, sheet', job) /\ JobOf(job)' \in {JobOf(job), JobOf(Idle)}
      BY <3>1, StaysOrMoves
    <3> QED BY <3>1, <3>2, SettlesOrEnds
  <2>7. ASSUME NEW s \in Session, NEW results \in Results, Change(s, results)
        PROVE  [Table!Next]_Table!vars
    <3>1. sheet' = sheet /\ JobOf(job)' = JobOf(job)
      BY <2>7 DEF Change
    <3> QED BY <3>1, Stutters
  <2>8. ASSUME UNCHANGED vars PROVE [Table!Next]_Table!vars
    <3>1. sheet' = sheet /\ JobOf(job)' = JobOf(job)
      BY <2>8 DEF vars
    <3> QED BY <3>1, Stutters
  <2> QED
    BY <2>1, <2>2, <2>3, <2>4, <2>5, <2>6, <2>7, <2>8 DEF Next, Progress
<1> QED BY <1>1, <1>2, InvAlways, PTL DEF Spec, ImplementsTable, Table!Spec
=============================================================================
