-------------------------- MODULE RankingSheet_proofs --------------------------
(***************************************************************************)
(* The sheet Ranking, for all sheets, participants and totals: the moves   *)
(* that reorder_rows computes put the rows in the order of the ranking, a  *)
(* replacement whose calls were all answered ends with the sheet as it is  *)
(* wanted, and no replacement leaves two rows for a participant.           *)
(***************************************************************************)
EXTENDS RankingSheet, Lists_lemmas

Row == [key : Participant \union {NoKey}, cells : (Nat \X Nat) \union {0}]

(* Rows that a replacement can be asked for.                               *)
IsList(list) ==
  /\ list \in Seq(Row)
  /\ \A i \in DOMAIN list : list[i].key \in Participant
  /\ \A i, k \in DOMAIN list : i # k => list[i].key # list[k].key

(* How the rows of the sheet stand to them.                                *)
Distinct(rows) ==
  \A i, k \in DOMAIN rows : i # k /\ rows[i].key = rows[k].key => rows[i].key = NoKey

Right(rows, list) ==
  \A i \in DOMAIN rows, k \in DOMAIN list :
    rows[i].key = list[k].key => rows[i].cells = list[k].cells

HasKey(rows, key) == \E i \in DOMAIN rows : rows[i].key = key
Present(rows, list) == \A k \in DOMAIN list : HasKey(rows, list[k].key)
Only(rows, list) == \A i \in DOMAIN rows : rows[i].key = NoKey \/ HasKey(list, rows[i].key)

(* The length, the places, the keys of a sheet.                            *)
LEMMA Keyed ==
  ASSUME NEW rows \in Seq(Row)
  PROVE  /\ Len(rows) \in Nat /\ DOMAIN rows = 1 .. Len(rows)
         /\ \A i \in DOMAIN rows : rows[i] \in Row /\ rows[i].key \in Participant \union {NoKey}
<1>1. Len(rows) \in Nat /\ DOMAIN rows = 1 .. Len(rows)
  BY LenProperties
<1>2. ASSUME NEW i \in DOMAIN rows PROVE rows[i] \in Row
  BY ElementOfSeq
<1> QED
  BY <1>1, <1>2 DEF Row

(* Two rows are duplicates when they have a key, and the same.             *)
LEMMA DuplicatedIs == ASSUME NEW rows PROVE Duplicated(rows) <=> ~Distinct(rows)
  BY DEF Duplicated, Distinct

(* The keys of a list of rows are those that some row has.                 *)
LEMMA KeysAre == ASSUME NEW rows, NEW key PROVE key \in Keys(rows) <=> key # NoKey /\ HasKey(rows, key)
  BY DEF Keys, HasKey

(* The row wanted for a key is the one with that key.                      *)
LEMMA WantedIs ==
  ASSUME NEW list, IsList(list), NEW k \in DOMAIN list
  PROVE  Wanted(list, list[k].key) = list[k]
<1>1. list[k] \in Range(list)
  BY DEF Range
<1>2. Wanted(list, list[k].key) \in Range(list) /\ Wanted(list, list[k].key).key = list[k].key
  BY <1>1 DEF Wanted
<1>3. PICK i \in DOMAIN list : Wanted(list, list[k].key) = list[i]
  BY <1>2 DEF Range
<1> QED
  BY <1>2, <1>3 DEF IsList

-----------------------------------------------------------------------------
(* Inserting and moving rows.                                              *)

(* What a part of a sequence consists of. *)
LEMMA PartIs ==
  ASSUME NEW T, NEW s \in Seq(T), NEW m \in Nat, NEW n \in Nat, m >= 1, n <= Len(s), m <= n + 1
  PROVE  /\ SubSeq(s, m, n) \in Seq(T) /\ Len(SubSeq(s, m, n)) = n - m + 1
         /\ \A i \in 1 .. n - m + 1 : SubSeq(s, m, n)[i] = s[m + i - 1]
<1>1. Len(s) \in Nat /\ DOMAIN s = 1 .. Len(s)
  BY LenProperties
<1>2. \A i \in m .. n : s[i] \in T
  BY <1>1, ElementOfSeq
<1> QED
  BY <1>1, <1>2, SubSeqProperties

InsertedAt(new, s, i, e, T) ==
  /\ new \in Seq(T) /\ Len(s) \in Nat /\ Len(new) = Len(s) + 1
  /\ \A k \in 1 .. Len(s) + 1 :
       new[k] = IF k < i THEN s[k] ELSE IF k = i THEN e ELSE s[k - 1]

(* InsertAt moves the rows from there on down by one. *)
LEMMA InsertedIs ==
  ASSUME NEW T, NEW s \in Seq(T), NEW i \in 1 .. Len(s) + 1, NEW e \in T
  PROVE  InsertedAt(InsertAt(s, i, e), s, i, e, T)
<1> DEFINE n == Len(s)
           a == SubSeq(s, 1, i - 1)
           b == SubSeq(s, i, n)
<1>0. n \in Nat /\ i \in Nat /\ 1 <= i /\ i <= n + 1
  BY LenProperties
<1>1. a \in Seq(T) /\ Len(a) = i - 1 /\ \A k \in 1 .. i - 1 : a[k] = s[k]
  <2>1. 1 \in Nat /\ i - 1 \in Nat /\ 1 >= 1 /\ i - 1 <= Len(s) /\ 1 <= i - 1 + 1
    BY <1>0
  <2>2. /\ a \in Seq(T) /\ Len(a) = i - 1 - 1 + 1
        /\ \A k \in 1 .. i - 1 - 1 + 1 : a[k] = s[1 + k - 1]
    <3> HIDE DEF n
    <3> QED BY <2>1, PartIs
  <2>3. i - 1 - 1 + 1 = i - 1 /\ \A k \in 1 .. i - 1 : 1 + k - 1 = k
    BY <1>0
  <2> HIDE DEF a
  <2> QED BY <2>2, <2>3
<1>2. b \in Seq(T) /\ Len(b) = n - i + 1 /\ \A k \in 1 .. n - i + 1 : b[k] = s[i + k - 1]
  <2>1. i \in Nat /\ n \in Nat /\ i >= 1 /\ n <= Len(s) /\ i <= n + 1
    BY <1>0
  <2> QED BY <2>1, PartIs
<1>3. InsertAt(s, i, e) = (a \o <<e>>) \o b
  BY DEF InsertAt
<1> DEFINE c == a \o <<e>>
           new == c \o b
<1> HIDE DEF a, b
<1>4. <<e>> \in Seq(T) /\ Len(<<e>>) = 1 /\ <<e>>[1] = e
  OBVIOUS
<1>5. /\ c \in Seq(T) /\ Len(c) = i
      /\ \A k \in 1 .. i : c[k] = IF k < i THEN s[k] ELSE e
  <2> DEFINE one == <<e>>
  <2>1. one \in Seq(T) /\ Len(one) = 1 /\ one[1] = e
    BY <1>4
  <2> HIDE DEF one
  <2>2. /\ a \o one \in Seq(T) /\ Len(a \o one) = Len(a) + Len(one)
        /\ \A k \in 1 .. Len(a) + Len(one) :
             (a \o one)[k] = IF k <= Len(a) THEN a[k] ELSE one[k - Len(a)]
    BY <1>1, <2>1, ConcatProperties
  <2>3. Len(a) + Len(one) = i /\ Len(a) = i - 1
    BY <1>0, <1>1, <2>1
  <2> DEFINE d == a \o one
  <2>4. d = c
    BY DEF one
  <2>5. d \in Seq(T) /\ Len(d) = i /\ \A k \in 1 .. i : d[k] = IF k <= i - 1 THEN a[k] ELSE one[k - (i - 1)]
    BY <2>2, <2>3
  <2> HIDE DEF d, c
  <2>6. ASSUME NEW k \in 1 .. i PROVE d[k] = IF k < i THEN s[k] ELSE e
    <3>1. CASE k < i
      <4>1. k <= i - 1 /\ k \in 1 .. i - 1
        BY <1>0, <3>1
      <4> QED BY <1>1, <2>5, <3>1, <4>1
    <3>2. CASE ~(k < i)
      <4>1. ~(k <= i - 1) /\ k - (i - 1) = 1
        BY <1>0, <3>2
      <4> QED BY <2>1, <2>5, <3>2, <4>1
    <3> QED BY <3>1, <3>2
  <2> QED BY <2>4, <2>5, <2>6
<1> HIDE DEF c
<1>6. /\ new \in Seq(T) /\ Len(new) = n + 1
      /\ \A k \in 1 .. n + 1 : new[k] = IF k <= i THEN c[k] ELSE b[k - i]
  <2>1. /\ c \o b \in Seq(T) /\ Len(c \o b) = Len(c) + Len(b)
        /\ \A k \in 1 .. Len(c) + Len(b) : (c \o b)[k] = IF k <= Len(c) THEN c[k] ELSE b[k - Len(c)]
    BY <1>2, <1>5, ConcatProperties
  <2>2. Len(c) + Len(b) = n + 1 /\ Len(c) = i
    BY <1>0, <1>2, <1>5
  <2> QED BY <2>1, <2>2
<1> HIDE DEF new
<1>7. ASSUME NEW k \in 1 .. n + 1
      PROVE  new[k] = IF k < i THEN s[k] ELSE IF k = i THEN e ELSE s[k - 1]
  <2>1. CASE k <= i
    <3>1. k \in 1 .. i
      BY <1>0, <2>1
    <3>2. new[k] = c[k] /\ c[k] = IF k < i THEN s[k] ELSE e
      BY <1>5, <1>6, <2>1, <3>1
    <3>3. k < i \/ k = i
      BY <1>0, <2>1
    <3> QED BY <3>2, <3>3
  <2>2. CASE ~(k <= i)
    <3>1. k - i \in 1 .. n - i + 1 /\ i + (k - i) - 1 = k - 1 /\ ~(k < i) /\ k # i
      BY <1>0, <2>2
    <3>2. new[k] = b[k - i]
      BY <1>6, <2>2
    <3>3. b[k - i] = s[i + (k - i) - 1]
      BY <1>2, <3>1
    <3> QED BY <3>1, <3>2, <3>3
  <2> QED BY <2>1, <2>2
<1> HIDE DEF n
<1>8. InsertAt(s, i, e) = new
  BY <1>3 DEF new, c
<1> QED
  BY <1>0, <1>6, <1>7, <1>8 DEF InsertedAt, n

(* Moves up the sheet, of rows of a sheet with n rows.                     *)
Upward(n) == {move \in [from : Nat, to : Nat] : 1 <= move.to /\ move.to < move.from /\ move.from <= n}

MovedUp(new, s, f, t, T) ==
  /\ new \in Seq(T) /\ Len(s) \in Nat /\ Len(new) = Len(s)
  /\ \A k \in 1 .. Len(s) :
       new[k] = IF k < t \/ f < k THEN s[k] ELSE IF k = t THEN s[f] ELSE s[k - 1]

(* A row moved up pushes those in between down by one.                     *)
LEMMA MoveRowIs ==
  ASSUME NEW T, NEW s \in Seq(T), NEW move \in Upward(Len(s))
  PROVE  MovedUp(MoveRow(s, move), s, move.from, move.to, T)
<1> DEFINE n == Len(s)
           f == move.from
           t == move.to
           P == DOMAIN s \ {f}
           a == RemoveAt(s, f)
           new == InsertAt(a, t, s[f])
<1>0. n \in Nat /\ DOMAIN s = 1 .. n /\ f \in Nat /\ t \in Nat /\ 1 <= t /\ t < f /\ f <= n
  BY LenProperties DEF Upward
<1>1. MoveRow(s, move) = new
  <2>1. ~(f < t)
    BY <1>0
  <2> QED BY <2>1 DEF MoveRow
<1>2. f \in DOMAIN s /\ s[f] \in T
  <2>1. f \in DOMAIN s
    BY <1>0
  <2> QED BY <2>1, ElementOfSeq
<1> HIDE DEF f, t
<1>3. /\ a \in Seq(T) /\ Len(a) = n - 1
      /\ \A k \in 1 .. n - 1 : a[k] = IF k < f THEN s[k] ELSE s[k + 1]
  <2>1. a = Picked(s, P) /\ P \subseteq DOMAIN s
    BY <1>2, RemovedIs
  <2> DEFINE at == [k \in 1 .. n - 1 |-> IF k < f THEN k ELSE k + 1]
  <2>2. IncreasingList(at, n - 1, P)
    <3>1. at \in [1 .. n - 1 -> P]
      BY <1>0
    <3>2. ASSUME NEW x \in P PROVE \E k \in 1 .. n - 1 : at[k] = x
      <4>1. x \in 1 .. n /\ x # f
        BY <1>0
      <4>2. CASE x < f
        <5>1. x \in 1 .. n - 1
          BY <1>0, <4>1, <4>2
        <5>2. at[x] = x
          BY <4>2, <5>1
        <5> QED BY <5>1, <5>2
      <4>3. CASE ~(x < f)
        <5>1. x - 1 \in 1 .. n - 1 /\ ~(x - 1 < f) /\ x - 1 + 1 = x
          BY <1>0, <4>1, <4>3
        <5>2. at[x - 1] = x
          BY <5>1
        <5> QED BY <5>1, <5>2
      <4> QED BY <4>2, <4>3
    <3>3. \A i, j \in 1 .. n - 1 : i < j <=> at[i] < at[j]
      BY <1>0
    <3> HIDE DEF at, P
    <3> QED BY <3>1, <3>2, <3>3 DEF IncreasingList
  <2>3. n - 1 \in Nat
    BY <1>0
  <2>4. IsFiniteSet(P) /\ P \subseteq Int
    BY <2>1, PlacesInSeq
  <2> HIDE DEF at, P
  <2>5. Picked(s, P) = Through(s, at, n - 1)
    BY <2>2, <2>3, <2>4, PickedBy
  <2>6. a \in Seq(T) /\ DOMAIN a = 1 .. n - 1
    <3>1. a \in Seq(T)
      BY <2>1, PickedIs
    <3>2. DOMAIN a = 1 .. n - 1
      BY <2>1, <2>5 DEF Through
    <3> QED BY <3>1, <3>2
  <2>7. Len(a) = n - 1
    <3>1. DOMAIN a = 1 .. Len(a) /\ Len(a) \in Nat
      BY <2>6, LenProperties
    <3> QED BY <2>3, <2>6, <3>1
  <2>8. \A k \in 1 .. n - 1 : a[k] = s[at[k]]
    BY <2>1, <2>5 DEF Through
  <2> QED BY <2>6, <2>7, <2>8 DEF at
<1> HIDE DEF a
<1>4. InsertedAt(new, a, t, s[f], T)
  <2>1. t \in 1 .. Len(a) + 1
    BY <1>0, <1>3
  <2> QED BY <1>2, <1>3, <2>1, InsertedIs
<1> HIDE DEF new, n
<1>5. new \in Seq(T) /\ Len(new) = n /\ \A k \in 1 .. n : new[k] = IF k < t THEN a[k] ELSE IF k = t THEN s[f] ELSE a[k - 1]
  <2>1. Len(a) + 1 = n
    BY <1>0, <1>3
  <2> QED BY <1>4, <2>1 DEF InsertedAt
<1>6. ASSUME NEW k \in 1 .. n
      PROVE  new[k] = IF k < t \/ f < k THEN s[k] ELSE IF k = t THEN s[f] ELSE s[k - 1]
  <2>1. CASE k < t
    <3>1. k \in 1 .. n - 1 /\ k < f
      BY <1>0, <2>1
    <3> QED BY <1>3, <1>5, <2>1, <3>1
  <2>2. CASE k = t
    <3>1. ~(k < t) /\ ~(f < k)
      BY <1>0, <2>2
    <3> QED BY <1>5, <2>2, <3>1
  <2>3. CASE k > t /\ k <= f
    <3>1. k - 1 \in 1 .. n - 1 /\ k - 1 < f /\ ~(k < t) /\ k # t /\ ~(f < k)
      BY <1>0, <2>3
    <3> QED BY <1>3, <1>5, <3>1
  <2>4. CASE k > f
    <3>1. k - 1 \in 1 .. n - 1 /\ ~(k - 1 < f) /\ k - 1 + 1 = k /\ ~(k < t) /\ k # t /\ f < k
      BY <1>0, <2>4
    <3>2. new[k] = a[k - 1] /\ a[k - 1] = s[k - 1 + 1]
      BY <1>3, <1>5, <3>1
    <3> QED BY <3>1, <3>2
  <2> QED BY <1>0, <2>1, <2>2, <2>3, <2>4
<1> QED
  BY <1>0, <1>1, <1>5, <1>6 DEF MovedUp, n, f, t

(* The same rows in some order.                                            *)
Rearranges(p, new, rows) ==
  /\ DOMAIN new = DOMAIN rows
  /\ p \in [DOMAIN rows -> DOMAIN rows]
  /\ \A i, k \in DOMAIN rows : i # k => p[i] # p[k]
  /\ \A x \in DOMAIN rows : \E k \in DOMAIN rows : p[k] = x
  /\ \A k \in DOMAIN rows : new[k] = rows[p[k]]

Rearranged(new, rows) == \E p : Rearranges(p, new, rows)

(* A move rearranges the rows.                                             *)
LEMMA MoveRearranges ==
  ASSUME NEW T, NEW s \in Seq(T), NEW move \in Upward(Len(s))
  PROVE  /\ MoveRow(s, move) \in Seq(T) /\ Len(MoveRow(s, move)) = Len(s)
         /\ Rearranged(MoveRow(s, move), s)
<1> DEFINE n == Len(s)
           f == move.from
           t == move.to
           new == MoveRow(s, move)
           p == [k \in 1 .. n |-> IF k < t \/ f < k THEN k ELSE IF k = t THEN f ELSE k - 1]
<1>1. n \in Nat /\ DOMAIN s = 1 .. n /\ f \in Nat /\ t \in Nat /\ 1 <= t /\ t < f /\ f <= n
  BY LenProperties DEF Upward
<1>2. MovedUp(new, s, f, t, T)
  BY MoveRowIs
<1> HIDE DEF n, f, t, new
<1>3. new \in Seq(T) /\ Len(new) = n /\ DOMAIN new = 1 .. n
  <2>1. new \in Seq(T) /\ Len(new) = n
    BY <1>2 DEF MovedUp, n
  <2> QED BY <2>1, LenProperties
<1>4. p \in [1 .. n -> 1 .. n] /\ \A i, k \in 1 .. n : i # k => p[i] # p[k]
  BY <1>1
<1>5. ASSUME NEW x \in 1 .. n PROVE \E k \in 1 .. n : p[k] = x
  <2>1. CASE x < t \/ f < x
    BY <2>1
  <2>2. CASE x = f
    <3>1. t \in 1 .. n /\ p[t] = f
      BY <1>1
    <3> QED BY <2>2, <3>1
  <2>3. CASE t <= x /\ x < f
    <3>1. x + 1 \in 1 .. n /\ p[x + 1] = x
      BY <1>1, <2>3
    <3> QED BY <3>1
  <2> QED BY <1>1, <2>1, <2>2, <2>3
<1>6. \A k \in 1 .. n : new[k] = s[p[k]]
  BY <1>2 DEF MovedUp, n
<1> HIDE DEF p
<1>7. Rearranges(p, new, s)
  BY <1>1, <1>3, <1>4, <1>5, <1>6 DEF Rearranges
<1> QED
  BY <1>3, <1>7 DEF Rearranged, new, n

(* Any number of rearrangements make one.                                  *)
LEMMA RearrangedTwice ==
  ASSUME NEW a, NEW b, NEW c, Rearranged(b, a), Rearranged(c, b)
  PROVE  Rearranged(c, a)
<1>1. PICK p : Rearranges(p, b, a)
  BY DEF Rearranged
<1>2. PICK q : Rearranges(q, c, b)
  BY DEF Rearranged
<1> DEFINE D == DOMAIN a
           r == [k \in D |-> p[q[k]]]
<1>3. DOMAIN c = D /\ r \in [D -> D] /\ \A k \in D : c[k] = a[r[k]]
  BY <1>1, <1>2 DEF Rearranges
<1>4. \A i, k \in D : i # k => r[i] # r[k]
  BY <1>1, <1>2 DEF Rearranges
<1>5. ASSUME NEW x \in D PROVE \E k \in D : r[k] = x
  <2>1. PICK y \in D : p[y] = x
    BY <1>1 DEF Rearranges
  <2>2. PICK k \in D : q[k] = y
    BY <1>1, <1>2, <2>1 DEF Rearranges
  <2> QED BY <2>1, <2>2
<1> HIDE DEF r
<1>6. Rearranges(r, c, a)
  BY <1>3, <1>4, <1>5 DEF Rearranges
<1> QED
  BY <1>6 DEF Rearranged

(* A sheet is a rearrangement of itself.                                   *)
LEMMA RearrangedNot == ASSUME NEW rows PROVE Rearranged(rows, rows)
<1> DEFINE p == [k \in DOMAIN rows |-> k]
<1>1. Rearranges(p, rows, rows)
  BY DEF Rearranges
<1> HIDE DEF p
<1> QED
  BY <1>1 DEF Rearranged

(* What does not depend on the order survives a rearrangement.             *)
LEMMA RearrangedKeeps ==
  ASSUME NEW new, NEW rows, Rearranged(new, rows), NEW list
  PROVE  /\ Distinct(rows) => Distinct(new)
         /\ Right(rows, list) => Right(new, list)
         /\ Present(rows, list) => Present(new, list)
         /\ Only(rows, list) => Only(new, list)
<1>1. PICK p : Rearranges(p, new, rows)
  BY DEF Rearranged
<1>2. /\ DOMAIN new = DOMAIN rows
      /\ \A k \in DOMAIN rows : p[k] \in DOMAIN rows /\ new[k] = rows[p[k]]
      /\ \A i, k \in DOMAIN rows : i # k => p[i] # p[k]
      /\ \A x \in DOMAIN rows : \E k \in DOMAIN rows : p[k] = x
  BY <1>1 DEF Rearranges
<1>3. ASSUME Distinct(rows) PROVE Distinct(new)
  <2> SUFFICES ASSUME NEW i \in DOMAIN rows, NEW k \in DOMAIN rows, i # k, new[i].key = new[k].key
               PROVE  new[i].key = NoKey
    BY <1>2 DEF Distinct
  <2>1. p[i] # p[k] /\ p[i] \in DOMAIN rows /\ p[k] \in DOMAIN rows
    BY <1>2
  <2>2. new[i] = rows[p[i]] /\ new[k] = rows[p[k]]
    BY <1>2
  <2> QED BY <1>3, <2>1, <2>2 DEF Distinct
<1>4. ASSUME Right(rows, list) PROVE Right(new, list)
  <2> SUFFICES ASSUME NEW i \in DOMAIN rows, NEW k \in DOMAIN list, new[i].key = list[k].key
               PROVE  new[i].cells = list[k].cells
    BY <1>2 DEF Right
  <2>1. new[i] = rows[p[i]] /\ p[i] \in DOMAIN rows
    BY <1>2
  <2> QED BY <1>4, <2>1 DEF Right
<1>5. ASSUME Present(rows, list) PROVE Present(new, list)
  <2>1. ASSUME NEW key, HasKey(rows, key) PROVE HasKey(new, key)
    <3>1. PICK x \in DOMAIN rows : rows[x].key = key
      BY <2>1 DEF HasKey
    <3>2. PICK k \in DOMAIN rows : p[k] = x
      BY <1>2
    <3>3. new[k] = rows[x] /\ k \in DOMAIN new
      BY <1>2, <3>2
    <3> QED BY <3>1, <3>3 DEF HasKey
  <2> QED BY <1>5, <2>1 DEF Present
<1>6. ASSUME Only(rows, list) PROVE Only(new, list)
  <2> SUFFICES ASSUME NEW i \in DOMAIN rows PROVE new[i].key = NoKey \/ HasKey(list, new[i].key)
    BY <1>2 DEF Only
  <2>1. new[i] = rows[p[i]] /\ p[i] \in DOMAIN rows
    BY <1>2
  <2> QED BY <1>6, <2>1 DEF Only
<1> QED
  BY <1>3, <1>4, <1>5, <1>6

(* Moved is a computation that makes one move after the other.             *)
LEMMA MovedFolds ==
  ASSUME NEW T, NEW rows \in Seq(T), NEW moves \in Seq(Upward(Len(rows))), NEW n, n = Len(moves)
  PROVE  \E r \in [0 .. n -> [1 .. Len(rows) -> T]] :
           /\ r[0] = rows
           /\ \A k \in 1 .. n : r[k] = MoveRow(r[k - 1], moves[k])
           /\ Moved(rows, moves) = r[n]
<1> DEFINE V == [1 .. Len(rows) -> T]
           step == [pair \in (1 .. n) \X V |-> MoveRow(pair[2], moves[pair[1]])]
<1>1. n \in Nat /\ DOMAIN moves = 1 .. n
  BY LenProperties
<1>2. step \in [(1 .. n) \X V -> V]
  <2> SUFFICES ASSUME NEW k \in 1 .. n, NEW v \in V PROVE MoveRow(v, moves[k]) \in V
    OBVIOUS
  <2>1. Len(rows) \in Nat
    BY LenProperties
  <2>2. v \in Seq(T) /\ Len(v) = Len(rows)
    BY <2>1
  <2>3. moves[k] \in Upward(Len(v))
    BY <1>1, <2>2, ElementOfSeq
  <2>4. MoveRow(v, moves[k]) \in Seq(T) /\ Len(MoveRow(v, moves[k])) = Len(rows)
    BY <2>2, <2>3, MoveRearranges
  <2> QED
    BY <2>4, LenProperties
<1>3. rows \in V
  BY LenProperties
<1>4. PICK f \in [SUBSET (1 .. n) -> V] : FoldsSets(f, n, rows, step)
  <2> HIDE DEF step, V
  <2> QED
    BY <1>1, <1>2, <1>3, RecursionOnSets
<1> DEFINE r == [k \in 0 .. n |-> f[1 .. k]]
           body(g, s) == IF s = {} THEN rows ELSE MoveRow(g[s \ {Max(s)}], moves[Max(s)])
           Folds(g) == g = [s \in SUBSET (1 .. n) |-> body(g, s)]
<1>5. r \in [0 .. n -> V] /\ Computes(r, n, rows, step)
  <2> HIDE DEF step, V
  <2> QED
    BY <1>1, <1>4, FoldsPrefixes
<1>6. r[0] = rows /\ \A k \in 1 .. n : r[k] = MoveRow(r[k - 1], moves[k])
  <2> HIDE DEF r
  <2>1. r[0] = rows /\ \A k \in 1 .. n : r[k] = step[<<k, r[k - 1]>>]
    <3> HIDE DEF step, V
    <3> QED
      BY <1>5 DEF Computes
  <2>2. ASSUME NEW k \in 1 .. n PROVE step[<<k, r[k - 1]>>] = MoveRow(r[k - 1], moves[k])
    <3>1. k - 1 \in 0 .. n
      BY <1>1
    <3>2. r[k - 1] \in V
      BY <1>5, <3>1
    <3> HIDE DEF V
    <3> QED
      BY <3>2
  <2> HIDE DEF step, V
  <2> QED
    BY <2>1, <2>2
<1>7. Folds(f)
  <2>1. ASSUME NEW s \in SUBSET (1 .. n) PROVE f[s] = body(f, s)
    <3>1. CASE s = {}
      BY <1>4, <3>1 DEF FoldsSets
    <3>2. CASE s # {}
      <4>1. IsFiniteSet(s) /\ s \subseteq Int
        BY <1>1, BoundedSet
      <4>2. Max(s) \in 1 .. n /\ s \ {Max(s)} \in SUBSET (1 .. n)
        BY <3>2, <4>1, MaxIs
      <4>3. f[s] = step[<<Max(s), f[s \ {Max(s)}]>>]
        <5> HIDE DEF step, V
        <5> QED
          BY <1>4, <3>2 DEF FoldsSets
      <4>4. f[s \ {Max(s)}] \in V
        BY <4>2
      <4>5. step[<<Max(s), f[s \ {Max(s)}]>>] = MoveRow(f[s \ {Max(s)}], moves[Max(s)])
        <5> HIDE DEF V
        <5> QED
          BY <1>1, <4>2, <4>4
      <4> HIDE DEF step, V
      <4> QED
        BY <3>2, <4>3, <4>5
    <3> QED
      BY <3>1, <3>2
  <2> HIDE DEF body
  <2>2. f = [s \in SUBSET (1 .. n) |-> f[s]]
    OBVIOUS
  <2> QED
    BY <2>1, <2>2
<1> DEFINE iter == CHOOSE g : Folds(g)
<1>8. Folds(iter)
  <2> HIDE DEF Folds
  <2> QED
    BY <1>7
<1>9. Moved(rows, moves) = iter[1 .. n]
  BY <1>1 DEF Moved, FoldLeft, MapThenFoldSet
<1> HIDE DEF iter, r
<1>10. iter[1 .. n] = r[n]
  <2>1. iter[1 .. 0] = r[0]
    <3>1. 1 .. 0 = {} /\ {} \in SUBSET (1 .. n)
      OBVIOUS
    <3>2. iter[{}] = rows
      BY <1>8, <3>1
    <3> QED
      BY <1>6, <3>1, <3>2
  <2>2. ASSUME NEW k \in 1 .. n, iter[1 .. k - 1] = r[k - 1] PROVE iter[1 .. k] = r[k]
    <3>1. 1 .. k \in SUBSET (1 .. n) /\ 1 .. k # {} /\ Max(1 .. k) = k /\ (1 .. k) \ {k} = 1 .. k - 1
      BY <1>1, Initials
    <3>2. iter[1 .. k] = MoveRow(iter[1 .. k - 1], moves[k])
      BY <1>8, <3>1
    <3> QED
      BY <1>1, <1>6, <2>2, <3>2
  <2> QED
    BY <1>1, <2>1, <2>2, SameSteps
<1> QED
  BY <1>5, <1>6, <1>9, <1>10

Start(rows) ==
  [current |-> [id \in Keys(rows) |-> CHOOSE i \in DOMAIN rows : rows[i].key = id], moves |-> << >>]

States(ids) == [current : [ids -> Nat], moves : Seq([from : Nat, to : Nat])]

(* Placing a row in the bookkeeping of reorder_rows.                       *)
LEMMA PlaceRowIs ==
  ASSUME NEW K, NEW state \in States(K), NEW t \in Nat, NEW id
  PROVE  PlaceRow(state, t, id) \in States(K)
<1> DEFINE c == state.current
           m == state.moves
<1>1. c \in [K -> Nat] /\ m \in Seq([from : Nat, to : Nat])
  BY DEF States
<1> HIDE DEF c, m
<1>2. ASSUME id \in K
      PROVE  /\ Positions(c, id, t) \in [K -> Nat]
             /\ Append(m, [from |-> c[id], to |-> t]) \in Seq([from : Nat, to : Nat])
  <2>1. ASSUME NEW q \in K
        PROVE  (IF q = id THEN t
                ELSE IF t <= c[q] /\ c[q] < c[id] THEN c[q] + 1
                ELSE IF c[id] < c[q] /\ c[q] <= t THEN c[q] - 1
                ELSE c[q]) \in Nat
    <3>1. c[q] \in Nat /\ c[id] \in Nat
      BY <1>1, <1>2
    <3> QED
      BY <3>1
  <2>2. Positions(c, id, t) \in [K -> Nat]
    BY <1>1, <2>1 DEF Positions
  <2>3. [from |-> c[id], to |-> t] \in [from : Nat, to : Nat]
    BY <1>1, <1>2
  <2> QED
    BY <1>1, <2>2, <2>3, AppendProperties
<1>3. PlaceRow(state, t, id) =
        IF id \notin DOMAIN c \/ c[id] = t THEN state
        ELSE [current |-> Positions(c, id, t), moves |-> Append(m, [from |-> c[id], to |-> t])]
  BY DEF PlaceRow, c, m
<1> QED
  BY <1>1, <1>2, <1>3 DEF States

(* reorder_rows goes through the keys of an order, from any map.           *)
PlacedAll(base, order) ==
  FoldLeftDomain(LAMBDA state, i : PlaceRow(state, i, order[i]), base, order)

(* This is a computation that places one row after the other.              *)
LEMMA PlacedFolds ==
  ASSUME NEW K, NEW base \in States(K), NEW T, NEW order \in Seq(T), NEW n, n = Len(order)
  PROVE  \E r \in [0 .. n -> States(K)] :
           /\ r[0] = base
           /\ \A k \in 1 .. n : r[k] = PlaceRow(r[k - 1], k, order[k])
           /\ PlacedAll(base, order) = r[n]
<1> DEFINE V == States(K)
           step == [pair \in (1 .. n) \X V |-> PlaceRow(pair[2], pair[1], order[pair[1]])]
           places == [i \in DOMAIN order |-> i]
<1>1. n \in Nat /\ DOMAIN order = 1 .. n
  BY LenProperties
<1>2. step \in [(1 .. n) \X V -> V]
  <2> SUFFICES ASSUME NEW k \in 1 .. n, NEW v \in V PROVE PlaceRow(v, k, order[k]) \in V
    OBVIOUS
  <2>1. k \in Nat
    BY <1>1
  <2> QED
    BY <2>1, PlaceRowIs
<1>3. base \in V
  OBVIOUS
<1>4. PICK f \in [SUBSET (1 .. n) -> V] : FoldsSets(f, n, base, step)
  <2> HIDE DEF step, V
  <2> QED
    BY <1>1, <1>2, <1>3, RecursionOnSets
<1> DEFINE r == [k \in 0 .. n |-> f[1 .. k]]
           body(g, s) == IF s = {} THEN base ELSE PlaceRow(g[s \ {Max(s)}], places[Max(s)], order[places[Max(s)]])
           Folds(g) == g = [s \in SUBSET (1 .. n) |-> body(g, s)]
<1>5. r \in [0 .. n -> V] /\ Computes(r, n, base, step)
  <2> HIDE DEF step, V
  <2> QED
    BY <1>1, <1>4, FoldsPrefixes
<1>6. r[0] = base /\ \A k \in 1 .. n : r[k] = PlaceRow(r[k - 1], k, order[k])
  <2> HIDE DEF r
  <2>1. r[0] = base /\ \A k \in 1 .. n : r[k] = step[<<k, r[k - 1]>>]
    <3> HIDE DEF step, V
    <3> QED
      BY <1>5 DEF Computes
  <2>2. ASSUME NEW k \in 1 .. n PROVE step[<<k, r[k - 1]>>] = PlaceRow(r[k - 1], k, order[k])
    <3>1. k - 1 \in 0 .. n
      BY <1>1
    <3>2. r[k - 1] \in V
      BY <1>5, <3>1
    <3> HIDE DEF V
    <3> QED
      BY <3>2
  <2> HIDE DEF step, V
  <2> QED
    BY <2>1, <2>2
<1>7. Folds(f)
  <2>1. ASSUME NEW s \in SUBSET (1 .. n) PROVE f[s] = body(f, s)
    <3>1. CASE s = {}
      BY <1>4, <3>1 DEF FoldsSets
    <3>2. CASE s # {}
      <4>1. IsFiniteSet(s) /\ s \subseteq Int
        BY <1>1, BoundedSet
      <4>2. Max(s) \in 1 .. n /\ s \ {Max(s)} \in SUBSET (1 .. n)
        BY <3>2, <4>1, MaxIs
      <4>3. f[s] = step[<<Max(s), f[s \ {Max(s)}]>>]
        <5> HIDE DEF step, V
        <5> QED
          BY <1>4, <3>2 DEF FoldsSets
      <4>4. f[s \ {Max(s)}] \in V
        BY <4>2
      <4>5. step[<<Max(s), f[s \ {Max(s)}]>>] = PlaceRow(f[s \ {Max(s)}], places[Max(s)], order[places[Max(s)]])
        <5> HIDE DEF V
        <5> QED
          BY <1>1, <4>2, <4>4
      <4> HIDE DEF step, V
      <4> QED
        BY <3>2, <4>3, <4>5
    <3> QED
      BY <3>1, <3>2
  <2> HIDE DEF body
  <2>2. f = [s \in SUBSET (1 .. n) |-> f[s]]
    OBVIOUS
  <2> QED
    BY <2>1, <2>2
<1> DEFINE iter == CHOOSE g : Folds(g)
<1>8. Folds(iter)
  <2> HIDE DEF Folds
  <2> QED
    BY <1>7
<1>9. PlacedAll(base, order) = iter[1 .. n]
  BY <1>1 DEF PlacedAll, FoldLeftDomain, FoldLeft, MapThenFoldSet
<1> HIDE DEF iter, r
<1>10. iter[1 .. n] = r[n]
  <2>1. iter[1 .. 0] = r[0]
    <3>1. 1 .. 0 = {} /\ {} \in SUBSET (1 .. n)
      OBVIOUS
    <3>2. iter[{}] = base
      BY <1>8, <3>1
    <3> QED
      BY <1>6, <3>1, <3>2
  <2>2. ASSUME NEW k \in 1 .. n, iter[1 .. k - 1] = r[k - 1] PROVE iter[1 .. k] = r[k]
    <3>1. 1 .. k \in SUBSET (1 .. n) /\ 1 .. k # {} /\ Max(1 .. k) = k /\ (1 .. k) \ {k} = 1 .. k - 1
      BY <1>1, Initials
    <3>2. iter[1 .. k] = PlaceRow(iter[1 .. k - 1], places[k], order[places[k]])
      BY <1>8, <3>1
    <3> QED
      BY <1>1, <1>6, <2>2, <3>2
  <2> QED
    BY <1>1, <2>1, <2>2, SameSteps
<1> QED
  BY <1>5, <1>6, <1>9, <1>10

(* The moves start from the places the rows have.                          *)
LEMMA MovesAre ==
  ASSUME NEW rows \in Seq(Row), NEW order
  PROVE  Start(rows) \in States(Keys(rows)) /\ Moves(rows, order) = PlacedAll(Start(rows), order).moves
<1> DEFINE first == [id \in Keys(rows) |-> CHOOSE i \in DOMAIN rows : rows[i].key = id]
<1>1. \A id \in Keys(rows) : \E i \in DOMAIN rows : rows[i].key = id
  BY DEF Keys
<1>2. \A id \in Keys(rows) : (CHOOSE i \in DOMAIN rows : rows[i].key = id) \in DOMAIN rows
  BY <1>1
<1>3. DOMAIN rows \subseteq Nat
  BY Keyed
<1>4. first \in [Keys(rows) -> Nat]
  BY <1>2, <1>3
<1>5. << >> \in Seq([from : Nat, to : Nat])
  OBVIOUS
<1>6. Moves(rows, order) = PlacedAll(Start(rows), order).moves
  BY DEF Moves, PlacedAll, Start
<1> HIDE DEF first
<1>7. Start(rows) = [current |-> first, moves |-> << >>]
  BY DEF Start, first
<1> QED
  BY <1>4, <1>5, <1>6, <1>7 DEF States

(* Without moves nothing moves, and one move more is made last.            *)
LEMMA MovedNone ==
  ASSUME NEW T, NEW rows \in Seq(T), NEW moves \in Seq(Upward(Len(rows)))
  PROVE  moves = << >> => Moved(rows, moves) = rows
<1> DEFINE n == Len(moves)
<1>1. moves = << >> => n = 0
  OBVIOUS
<1>2. PICK r \in [0 .. n -> [1 .. Len(rows) -> T]] :
         /\ r[0] = rows /\ \A k \in 1 .. n : r[k] = MoveRow(r[k - 1], moves[k])
         /\ Moved(rows, moves) = r[n]
  BY MovedFolds
<1> QED
  BY <1>1, <1>2

(* One more move is made after the others.                                 *)
LEMMA MovedAppend ==
  ASSUME NEW T, NEW rows \in Seq(T), NEW moves \in Seq(Upward(Len(rows))),
         NEW move \in Upward(Len(rows))
  PROVE  Moved(rows, Append(moves, move)) = MoveRow(Moved(rows, moves), move)
<1> DEFINE n == Len(moves)
           more == Append(moves, move)
<1>1. /\ n \in Nat /\ more \in Seq(Upward(Len(rows))) /\ Len(more) = n + 1
      /\ \A k \in 1 .. n : more[k] = moves[k]
      /\ more[n + 1] = move
  BY LenProperties, AppendProperties
<1> HIDE DEF more
<1>2. PICK r \in [0 .. n -> [1 .. Len(rows) -> T]] :
         /\ r[0] = rows /\ \A k \in 1 .. n : r[k] = MoveRow(r[k - 1], moves[k])
         /\ Moved(rows, moves) = r[n]
  BY MovedFolds
<1> DEFINE m == Len(more)
<1>3. m = n + 1
  BY <1>1
<1>4. PICK q \in [0 .. m -> [1 .. Len(rows) -> T]] :
         /\ q[0] = rows /\ \A k \in 1 .. m : q[k] = MoveRow(q[k - 1], more[k])
         /\ Moved(rows, more) = q[m]
  <2>1. more \in Seq(Upward(Len(rows)))
    BY <1>1
  <2> HIDE DEF n
  <2> QED BY <2>1, MovedFolds
<1> HIDE DEF n, m
<1> DEFINE T0 == {k \in 0 .. n : q[k] = r[k]}
<1>5. 0 \in T0
  BY <1>1, <1>2, <1>4
<1>6. ASSUME NEW k \in 0 .. n - 1, k \in T0 PROVE k + 1 \in T0
  <2>1. k + 1 \in 1 .. n /\ k + 1 \in 1 .. m /\ k + 1 - 1 = k /\ k + 1 \in 0 .. n
    BY <1>1, <1>3
  <2>2. r[k + 1] = MoveRow(r[k], moves[k + 1])
    BY <1>2, <2>1
  <2>3. q[k + 1] = MoveRow(q[k], more[k + 1])
    BY <1>4, <2>1
  <2> QED BY <1>1, <1>6, <2>1, <2>2, <2>3
<1>7. 0 .. n \subseteq T0
  <2> HIDE DEF T0
  <2> QED BY <1>1, <1>5, <1>6, InductionUpTo
<1>8. q[n] = r[n]
  BY <1>1, <1>7
<1>9. q[m] = MoveRow(q[n], move)
  <2>1. m \in 1 .. m /\ m - 1 = n
    BY <1>1, <1>3
  <2> QED BY <1>1, <1>3, <1>4, <2>1
<1> QED
  BY <1>2, <1>4, <1>8, <1>9 DEF more

(* The moves together rearrange the rows.                                  *)
LEMMA MovedRearranges ==
  ASSUME NEW T, NEW rows \in Seq(T), NEW moves \in Seq(Upward(Len(rows)))
  PROVE  /\ Moved(rows, moves) \in Seq(T) /\ Len(Moved(rows, moves)) = Len(rows)
         /\ Rearranged(Moved(rows, moves), rows)
<1> DEFINE n == Len(moves)
<1>1. n \in Nat /\ DOMAIN moves = 1 .. n /\ Len(rows) \in Nat
  BY LenProperties
<1>2. PICK r \in [0 .. n -> [1 .. Len(rows) -> T]] :
         /\ r[0] = rows /\ \A k \in 1 .. n : r[k] = MoveRow(r[k - 1], moves[k])
         /\ Moved(rows, moves) = r[n]
  BY MovedFolds
<1> DEFINE T0 == {k \in 0 .. n : Rearranged(r[k], rows)}
<1>3. 0 \in T0
  BY <1>1, <1>2, RearrangedNot
<1>4. ASSUME NEW k \in 0 .. n - 1, k \in T0 PROVE k + 1 \in T0
  <2>1. k + 1 \in 1 .. n /\ k + 1 - 1 = k /\ k \in 0 .. n /\ k + 1 \in 0 .. n
    BY <1>1
  <2>2. r[k + 1] = MoveRow(r[k], moves[k + 1]) /\ r[k] \in [1 .. Len(rows) -> T]
    BY <1>2, <2>1
  <2>3. r[k] \in Seq(T) /\ Len(r[k]) = Len(rows)
    BY <1>1, <2>2
  <2>4. moves[k + 1] \in Upward(Len(r[k]))
    BY <1>1, <2>1, <2>3, ElementOfSeq
  <2>5. Rearranged(r[k + 1], r[k])
    BY <2>2, <2>3, <2>4, MoveRearranges
  <2>6. Rearranged(r[k], rows)
    BY <1>4
  <2> QED BY <2>1, <2>5, <2>6, RearrangedTwice
<1>5. 0 .. n \subseteq T0
  <2> HIDE DEF T0, n
  <2> QED BY <1>1, <1>3, <1>4, InductionUpTo
<1>6. Rearranged(r[n], rows) /\ r[n] \in [1 .. Len(rows) -> T]
  <2>1. n \in 0 .. n
    BY <1>1
  <2> QED BY <1>2, <1>5, <2>1
<1>7. r[n] \in Seq(T) /\ Len(r[n]) = Len(rows)
  BY <1>1, <1>6
<1> QED
  BY <1>2, <1>6, <1>7

-----------------------------------------------------------------------------
(* What reorder_rows works out.                                            *)

IsOrder(order, rows) ==
  /\ order \in Seq(Participant)
  /\ \A i \in DOMAIN order : order[i] \in Keys(rows)
  /\ \A i, k \in DOMAIN order : i # k => order[i] # order[k]

(* Its map is where the moves so far put every row, and the first k keys   *)
(* of the order are in their places.                                       *)
Tracks(state, k, rows, order) ==
  /\ state \in States(Keys(rows))
  /\ \A p \in Keys(rows) : state.current[p] \in 1 .. Len(rows)
  /\ \A p, q \in Keys(rows) : p # q => state.current[p] # state.current[q]
  /\ state.moves \in Seq(Upward(Len(rows)))
  /\ \A j \in 1 .. k : state.current[order[j]] = j
  /\ \A q \in Keys(rows) : Moved(rows, state.moves)[state.current[q]].key = q

ShiftedUp(d, c, K, n, id, t) ==
  /\ d \in [K -> 1 .. n] /\ d[id] = t
  /\ \A q \in K : q # id => d[q] = IF t <= c[q] /\ c[q] < c[id] THEN c[q] + 1 ELSE c[q]
  /\ \A p, q \in K : p # q => d[p] # d[q]

(* Where the rows stand after one has moved up.                            *)
LEMMA PositionsUp ==
  ASSUME NEW K, NEW n \in Nat, NEW c \in [K -> 1 .. n], \A p, q \in K : p # q => c[p] # c[q],
         NEW id \in K, NEW t \in 1 .. n, t < c[id]
  PROVE  ShiftedUp(Positions(c, id, t), c, K, n, id, t)
<1> DEFINE d == Positions(c, id, t)
<1>1. d = [q \in K |-> IF q = id THEN t
                       ELSE IF t <= c[q] /\ c[q] < c[id] THEN c[q] + 1
                       ELSE IF c[id] < c[q] /\ c[q] <= t THEN c[q] - 1
                       ELSE c[q]]
  BY DEF Positions
<1> HIDE DEF d
<1>2. ASSUME NEW q \in K, q # id
      PROVE  d[q] = (IF t <= c[q] /\ c[q] < c[id] THEN c[q] + 1 ELSE c[q]) /\ d[q] \in 1 .. n
  <2>1. c[q] \in 1 .. n /\ c[id] \in 1 .. n
    OBVIOUS
  <2>2. ~(c[id] < c[q] /\ c[q] <= t)
    BY <2>1
  <2>3. d[q] = IF t <= c[q] /\ c[q] < c[id] THEN c[q] + 1 ELSE c[q]
    BY <1>1, <1>2, <2>2
  <2> QED BY <2>1, <2>3
<1>3. d[id] = t
  BY <1>1
<1>4. d \in [K -> 1 .. n]
  BY <1>1, <1>2, <1>3
<1>5. ASSUME NEW p \in K, NEW q \in K, p # q PROVE d[p] # d[q]
  <2>1. c[p] \in 1 .. n /\ c[q] \in 1 .. n /\ c[id] \in 1 .. n /\ c[p] # c[q]
    BY <1>5
  <2>2. CASE p # id /\ q # id
    <3>1. /\ d[p] = IF t <= c[p] /\ c[p] < c[id] THEN c[p] + 1 ELSE c[p]
          /\ d[q] = IF t <= c[q] /\ c[q] < c[id] THEN c[q] + 1 ELSE c[q]
          /\ c[p] # c[id] /\ c[q] # c[id]
      BY <1>2, <2>2
    <3> QED BY <2>1, <3>1
  <2>3. CASE p = id /\ q # id
    <3>1. d[q] = (IF t <= c[q] /\ c[q] < c[id] THEN c[q] + 1 ELSE c[q]) /\ d[p] = t
      BY <1>2, <1>3, <2>3
    <3> QED BY <2>1, <3>1
  <2>4. CASE q = id /\ p # id
    <3>1. d[p] = (IF t <= c[p] /\ c[p] < c[id] THEN c[p] + 1 ELSE c[p]) /\ d[q] = t
      BY <1>2, <1>3, <2>4
    <3> QED BY <2>1, <3>1
  <2> QED BY <1>5, <2>2, <2>3, <2>4
<1> QED
  BY <1>2, <1>3, <1>4, <1>5 DEF d, ShiftedUp

(* Before the first move the map is that of the sheet.                     *)
LEMMA StartTracks ==
  ASSUME NEW rows \in Seq(Row), NEW order
  PROVE  Tracks(Start(rows), 0, rows, order)
<1> DEFINE c == Start(rows).current
           none == Start(rows).moves
<1>1. Start(rows) \in States(Keys(rows))
  BY MovesAre
<1>2. /\ none = << >>
      /\ \A q \in Keys(rows) : c[q] = CHOOSE i \in DOMAIN rows : rows[i].key = q
  BY DEF Start
<1> HIDE DEF c, none
<1>3. ASSUME NEW q \in Keys(rows) PROVE c[q] \in DOMAIN rows /\ rows[c[q]].key = q
  <2>1. \E i \in DOMAIN rows : rows[i].key = q
    BY DEF Keys
  <2> QED BY <1>2, <2>1
<1>4. none \in Seq(Upward(Len(rows)))
  BY <1>2
<1>5. Moved(rows, none) = rows
  BY <1>2, <1>4, MovedNone
<1>6. \A p, q \in Keys(rows) : p # q => c[p] # c[q]
  BY <1>3
<1>7. DOMAIN rows = 1 .. Len(rows)
  BY LenProperties
<1>8. \A q \in Keys(rows) : c[q] \in 1 .. Len(rows) /\ Moved(rows, none)[c[q]].key = q
  BY <1>3, <1>5, <1>7
<1>9. \A j \in 1 .. 0 : c[order[j]] = j
  OBVIOUS
<1> QED
  BY <1>1, <1>4, <1>6, <1>8, <1>9 DEF Tracks, c, none

(* Placing the next row of the order keeps the map right.  The rows before *)
(* it are in place, so that it moves up or stays.                          *)
LEMMA PlaceTracks ==
  ASSUME NEW rows \in Seq(Row), NEW order, IsOrder(order, rows),
         NEW k \in 0 .. Len(order) - 1, NEW state, Tracks(state, k, rows, order)
  PROVE  Tracks(PlaceRow(state, k + 1, order[k + 1]), k + 1, rows, order)
<1> DEFINE K == Keys(rows)
           n == Len(rows)
           c == state.current
           m == state.moves
           id == order[k + 1]
           t == k + 1
<1>1. /\ state \in States(K)
      /\ \A q \in K : c[q] \in 1 .. n
      /\ \A p, q \in K : p # q => c[p] # c[q]
      /\ m \in Seq(Upward(n))
      /\ \A j \in 1 .. k : c[order[j]] = j
      /\ \A q \in K : Moved(rows, m)[c[q]].key = q
  BY DEF Tracks
<1>2. /\ c \in [K -> Nat] /\ m \in Seq([from : Nat, to : Nat])
      /\ state = [current |-> c, moves |-> m]
  BY <1>1 DEF States
<1>3. n \in Nat /\ DOMAIN rows = 1 .. n /\ Len(order) \in Nat /\ DOMAIN order = 1 .. Len(order)
  BY LenProperties DEF IsOrder
<1>4. k \in Nat /\ t \in DOMAIN order /\ \A j \in 1 .. k : j \in DOMAIN order /\ j # t
  BY <1>3
<1>5. id \in K /\ \A j \in 1 .. k : order[j] \in K /\ order[j] # id
  BY <1>4 DEF IsOrder
<1>6. PlaceRow(state, t, id) =
        IF id \notin DOMAIN c \/ c[id] = t THEN state
        ELSE [current |-> Positions(c, id, t), moves |-> Append(m, [from |-> c[id], to |-> t])]
  BY DEF PlaceRow
<1> HIDE DEF c, m, id
<1>7. c[id] \in 1 .. n /\ t <= c[id]
  <2>1. c[id] \in 1 .. n
    BY <1>1, <1>5
  <2>2. ASSUME c[id] < t PROVE FALSE
    <3>1. c[id] \in 1 .. k
      BY <1>4, <2>1, <2>2
    <3>2. c[order[c[id]]] = c[id]
      BY <1>1, <3>1
    <3> QED BY <1>1, <1>5, <3>1, <3>2
  <2> QED BY <1>4, <2>1, <2>2
<1>8. CASE c[id] = t
  <2>1. PlaceRow(state, t, id) = state
    BY <1>6, <1>8
  <2>2. ASSUME NEW j \in 1 .. t PROVE c[order[j]] = j
    <3>1. j \in 1 .. k \/ j = t
      BY <1>4
    <3> QED BY <1>1, <1>8, <3>1 DEF id
  <2> QED BY <1>1, <2>1, <2>2 DEF Tracks, c, m, id
<1>9. CASE c[id] # t
  <2> DEFINE d == Positions(c, id, t)
             move == [from |-> c[id], to |-> t]
             more == Append(m, move)
             old == Moved(rows, m)
             new == Moved(rows, more)
             f == c[id]
  <2>0. t < f /\ t \in 1 .. n /\ f \in 1 .. n
    BY <1>4, <1>7, <1>9
  <2>1. PlaceRow(state, t, id) = [current |-> d, moves |-> more]
    BY <1>2, <1>5, <1>6, <1>9
  <2>2. /\ d \in [K -> 1 .. n] /\ d[id] = t
        /\ \A q \in K : q # id => d[q] = IF t <= c[q] /\ c[q] < f THEN c[q] + 1 ELSE c[q]
        /\ \A p, q \in K : p # q => d[p] # d[q]
    <3>1. c \in [K -> 1 .. n]
      BY <1>1, <1>2
    <3>2. n \in Nat /\ id \in K /\ t \in 1 .. n /\ t < c[id] /\ \A p, q \in K : p # q => c[p] # c[q]
      BY <1>1, <1>3, <1>5, <2>0
    <3>3. ShiftedUp(d, c, K, n, id, t)
      <4> HIDE DEF n, K, t
      <4> QED BY <3>1, <3>2, PositionsUp
    <3> HIDE DEF d
    <3> QED BY <3>3 DEF ShiftedUp
  <2>3. move \in Upward(n) /\ move.from = f /\ move.to = t
    BY <1>3, <1>4, <2>0 DEF Upward
  <2> HIDE DEF d, move, f
  <2>4. more \in Seq(Upward(n))
    BY <1>1, <2>3, AppendProperties
  <2>5. new = MoveRow(old, move)
    BY <1>1, <2>3, MovedAppend
  <2>6. old \in Seq(Row) /\ Len(old) = n
    BY <1>1, MovedRearranges
  <2> HIDE DEF old, new, more
  <2>7. \A i \in 1 .. n : new[i] = IF i < t \/ f < i THEN old[i] ELSE IF i = t THEN old[f] ELSE old[i - 1]
    <3>1. move \in Upward(Len(old))
      BY <2>3, <2>6
    <3>2. MovedUp(new, old, f, t, Row)
      BY <2>3, <2>5, <2>6, <3>1, MoveRowIs
    <3> QED BY <2>6, <3>2 DEF MovedUp
  <2>8. ASSUME NEW q \in K PROVE new[d[q]].key = q
    <3>0. d[q] \in 1 .. n /\ c[q] \in 1 .. n /\ old[c[q]].key = q
      BY <1>1, <2>2 DEF old
    <3>1. CASE q = id
      <4>1. d[q] = t /\ ~(t < t \/ f < t)
        BY <2>0, <2>2, <3>1
      <4>2. new[t] = old[f]
        BY <2>0, <2>7, <4>1
      <4> QED BY <3>0, <3>1, <4>1, <4>2 DEF f
    <3>2. CASE q # id
      <4>1. d[q] = (IF t <= c[q] /\ c[q] < f THEN c[q] + 1 ELSE c[q]) /\ c[q] # f
        BY <1>1, <1>5, <2>2, <3>2 DEF f
      <4>2. CASE t <= c[q] /\ c[q] < f
        <5>1. d[q] = c[q] + 1 /\ ~(d[q] < t \/ f < d[q]) /\ d[q] # t /\ d[q] - 1 = c[q]
          BY <2>0, <3>0, <4>1, <4>2
        <5>2. new[d[q]] = old[d[q] - 1]
          BY <2>7, <3>0, <5>1
        <5> QED BY <3>0, <5>1, <5>2
      <4>3. CASE ~(t <= c[q] /\ c[q] < f)
        <5>1. d[q] = c[q] /\ (d[q] < t \/ f < d[q])
          BY <2>0, <3>0, <4>1, <4>3
        <5>2. new[d[q]] = old[d[q]]
          BY <2>7, <3>0, <5>1
        <5> QED BY <3>0, <5>1, <5>2
      <4> QED BY <4>2, <4>3
    <3> QED BY <3>1, <3>2
  <2>9. ASSUME NEW j \in 1 .. t PROVE d[order[j]] = j
    <3>1. CASE j = t
      BY <2>2, <3>1 DEF id
    <3>2. CASE j # t
      <4>1. j \in 1 .. k /\ j < t
        BY <1>4, <3>2
      <4>2. order[j] \in K /\ order[j] # id /\ c[order[j]] = j
        BY <1>1, <1>5, <4>1
      <4>3. ~(t <= j)
        BY <1>4, <4>1
      <4> QED BY <2>2, <4>2, <4>3
    <3> QED BY <3>1, <3>2
  <2>10. PlaceRow(state, t, id) \in States(K)
    <3>1. t \in Nat
      BY <1>4
    <3> QED BY <1>1, <3>1, PlaceRowIs
  <2> DEFINE next == PlaceRow(state, t, id)
  <2>11. next.current = d /\ next.moves = more
    BY <2>1
  <2> HIDE DEF next
  <2>12. \A q \in K : d[q] \in 1 .. n
    BY <2>2
  <2>13. Tracks(next, t, rows, order)
    BY <2>2, <2>4, <2>8, <2>9, <2>10, <2>11, <2>12 DEF Tracks, new, next
  <2> QED BY <2>13 DEF next, id
<1> QED
  BY <1>8, <1>9

(* Made one after the other, the moves of reorder_rows put the rows of an  *)
(* order in its places, whatever else is in the sheet.                     *)
THEOREM MovesPlace ==
  ASSUME NEW rows \in Seq(Row), NEW order, IsOrder(order, rows)
  PROVE  /\ Moves(rows, order) \in Seq(Upward(Len(rows)))
         /\ \A j \in DOMAIN order :
              j \in DOMAIN rows /\ Moved(rows, Moves(rows, order))[j].key = order[j]
<1> DEFINE n == Len(order)
           base == Start(rows)
<1>1. /\ n \in Nat /\ DOMAIN order = 1 .. n /\ order \in Seq(Participant)
      /\ DOMAIN rows = 1 .. Len(rows)
  BY LenProperties DEF IsOrder
<1>2. base \in States(Keys(rows)) /\ Moves(rows, order) = PlacedAll(base, order).moves
  BY MovesAre
<1>3. Tracks(base, 0, rows, order)
  BY StartTracks
<1> HIDE DEF base
<1>4. PICK r \in [0 .. n -> States(Keys(rows))] :
         /\ r[0] = base /\ \A k \in 1 .. n : r[k] = PlaceRow(r[k - 1], k, order[k])
         /\ PlacedAll(base, order) = r[n]
  <2> DEFINE K == Keys(rows)
  <2>1. base \in States(K) /\ order \in Seq(Participant)
    BY <1>1, <1>2
  <2> HIDE DEF K
  <2>2. \E r \in [0 .. n -> States(K)] :
         /\ r[0] = base /\ \A k \in 1 .. n : r[k] = PlaceRow(r[k - 1], k, order[k])
         /\ PlacedAll(base, order) = r[n]
    BY <2>1, PlacedFolds
  <2> QED BY <2>2 DEF K
<1> DEFINE T0 == {k \in 0 .. n : Tracks(r[k], k, rows, order)}
<1>5. 0 \in T0
  BY <1>1, <1>3, <1>4
<1>6. ASSUME NEW k \in 0 .. n - 1, k \in T0 PROVE k + 1 \in T0
  <2>1. k + 1 \in 1 .. n /\ k + 1 - 1 = k /\ k + 1 \in 0 .. n
    BY <1>1
  <2>2. r[k + 1] = PlaceRow(r[k], k + 1, order[k + 1])
    BY <1>4, <2>1
  <2>3. Tracks(r[k], k, rows, order)
    BY <1>6
  <2>4. Tracks(PlaceRow(r[k], k + 1, order[k + 1]), k + 1, rows, order)
    BY <2>3, PlaceTracks
  <2> QED BY <2>1, <2>2, <2>4
<1>7. 0 .. n \subseteq T0
  <2> HIDE DEF T0, n
  <2> QED BY <1>1, <1>5, <1>6, InductionUpTo
<1>8. Tracks(r[n], n, rows, order)
  BY <1>1, <1>7
<1>9. Moves(rows, order) = r[n].moves
  BY <1>2, <1>4
<1>10. ASSUME NEW j \in DOMAIN order
       PROVE  j \in DOMAIN rows /\ Moved(rows, r[n].moves)[j].key = order[j]
  <2>1. order[j] \in Keys(rows) /\ j \in 1 .. n
    BY <1>1 DEF IsOrder
  <2> HIDE DEF n
  <2>2. r[n].current[order[j]] = j
    BY <1>8, <2>1 DEF Tracks
  <2> QED BY <1>1, <1>8, <2>1, <2>2 DEF Tracks
<1> QED
  BY <1>8, <1>9, <1>10 DEF Tracks

-----------------------------------------------------------------------------
(* The order of a sheet, and that of a list.                               *)

KeyedPlaces(rows) == {i \in DOMAIN rows : rows[i].key # NoKey}

FilledFrom(rows, n, at) ==
  /\ n \in Nat /\ n = Cardinality(KeyedPlaces(rows)) /\ at = Ascending(KeyedPlaces(rows))
  /\ at \in [1 .. n -> KeyedPlaces(rows)]
  /\ Filled(rows) \in Seq(Row) /\ DOMAIN Filled(rows) = 1 .. n
  /\ \A k \in 1 .. n : Filled(rows)[k] = rows[at[k]]

(* The rows with a key.                                                    *)
LEMMA FilledIs ==
  ASSUME NEW rows \in Seq(Row)
  PROVE  FilledFrom(rows, Cardinality(KeyedPlaces(rows)), Ascending(KeyedPlaces(rows)))
<1> DEFINE P == KeyedPlaces(rows)
<1>1. P \subseteq DOMAIN rows /\ Filled(rows) = Picked(rows, P)
  BY DEF KeyedPlaces, Filled
<1> HIDE DEF P
<1>2. /\ Cardinality(P) \in Nat
      /\ IncreasingList(Ascending(P), Cardinality(P), P)
      /\ Picked(rows, P) \in Seq(Row)
      /\ DOMAIN Picked(rows, P) = 1 .. Cardinality(P)
      /\ \A k \in 1 .. Cardinality(P) : Picked(rows, P)[k] = rows[Ascending(P)[k]]
  BY <1>1, PickedIs
<1> QED
  BY <1>1, <1>2 DEF FilledFrom, IncreasingList, P

(* A list is all filled, and its order is that of its keys.                *)
LEMMA OrderOfList ==
  ASSUME NEW list, IsList(list)
  PROVE  /\ Filled(list) = list
         /\ Order(list) = [i \in DOMAIN list |-> list[i].key]
         /\ Order(list) \in Seq(Participant) /\ DOMAIN Order(list) = DOMAIN list
<1>1. {i \in DOMAIN list : list[i].key # NoKey} = DOMAIN list
  BY ParticipantAssumption DEF IsList
<1>2. Filled(list) = list
  BY <1>1, PickedAll DEF Filled, IsList
<1>3. Order(list) = [i \in DOMAIN list |-> list[i].key]
  BY <1>2 DEF Order
<1>4. Len(list) \in Nat /\ DOMAIN list = 1 .. Len(list)
  BY LenProperties DEF IsList
<1>5. Order(list) \in [1 .. Len(list) -> Participant]
  BY <1>3, <1>4 DEF IsList
<1> QED
  BY <1>2, <1>3, <1>4, <1>5

(* Rows with the same keys have the same order.                            *)
SameKeys(new, rows) == DOMAIN new = DOMAIN rows /\ \A i \in DOMAIN rows : new[i].key = rows[i].key

(* Rows with the same keys are in the same order.                          *)
LEMMA OrderSame ==
  ASSUME NEW rows \in Seq(Row), NEW new \in Seq(Row), SameKeys(new, rows)
  PROVE  Order(new) = Order(rows)
<1> DEFINE n == Cardinality(KeyedPlaces(rows))
           at == Ascending(KeyedPlaces(rows))
<1>1. KeyedPlaces(new) = KeyedPlaces(rows)
  BY DEF KeyedPlaces, SameKeys
<1>2. FilledFrom(rows, n, at) /\ FilledFrom(new, n, at)
  BY <1>1, FilledIs
<1> HIDE DEF n, at
<1>3. DOMAIN Filled(new) = 1 .. n /\ DOMAIN Filled(rows) = 1 .. n
  BY <1>2 DEF FilledFrom
<1>4. \A k \in 1 .. n : Filled(new)[k].key = Filled(rows)[k].key
  <2> SUFFICES ASSUME NEW k \in 1 .. n PROVE Filled(new)[k].key = Filled(rows)[k].key
    OBVIOUS
  <2>1. at[k] \in DOMAIN rows /\ Filled(new)[k] = new[at[k]] /\ Filled(rows)[k] = rows[at[k]]
    BY <1>2 DEF FilledFrom, KeyedPlaces
  <2> QED BY <2>1 DEF SameKeys
<1> QED
  BY <1>3, <1>4 DEF Order

(* A sheet that begins with the rows of a list and has no other keys is in *)
(* the order of the list.                                                  *)
LEMMA InPlace ==
  ASSUME NEW rows \in Seq(Row), NEW list, IsList(list), Only(rows, list), Distinct(rows),
         \A j \in DOMAIN list : j \in DOMAIN rows /\ rows[j].key = list[j].key
  PROVE  Order(rows) = Order(list)
<1> DEFINE n == Len(list)
           at == [k \in 1 .. n |-> k]
           P == DOMAIN list
<1>1. n \in Nat /\ P = 1 .. n /\ P \subseteq DOMAIN rows /\ DOMAIN rows \subseteq Int
  BY Keyed, LenProperties DEF IsList
<1>2. {i \in DOMAIN rows : rows[i].key # NoKey} = P
  <2>1. ASSUME NEW i \in DOMAIN rows, rows[i].key # NoKey PROVE i \in P
    <3>1. PICK k \in DOMAIN list : list[k].key = rows[i].key
      BY <2>1 DEF Only, HasKey
    <3>2. k \in DOMAIN rows /\ rows[k].key = rows[i].key
      BY <3>1
    <3> QED BY <2>1, <3>1, <3>2 DEF Distinct
  <2>2. ASSUME NEW i \in P PROVE i \in DOMAIN rows /\ rows[i].key # NoKey
    BY ParticipantAssumption DEF IsList
  <2> HIDE DEF P
  <2> QED BY <2>1, <2>2
<1>3. IncreasingList(at, n, P)
  <2>1. at \in [1 .. n -> P] /\ \A k \in 1 .. n : at[k] = k
    BY <1>1
  <2> HIDE DEF at, n, P
  <2> QED BY <1>1, <2>1 DEF IncreasingList
<1>4. Filled(rows) = Picked(rows, P)
  BY <1>2 DEF Filled
<1>5. IsFiniteSet(P) /\ P \subseteq Int
  BY <1>1, PlacesInSeq
<1> HIDE DEF at, P, n
<1>6. Picked(rows, P) = Through(rows, at, n)
  BY <1>1, <1>3, <1>5, PickedBy
<1>7. DOMAIN Filled(rows) = P /\ \A k \in P : Filled(rows)[k] = rows[k]
  BY <1>1, <1>4, <1>6 DEF Through, at
<1>8. Order(rows) = [i \in P |-> rows[i].key]
  BY <1>7 DEF Order
<1> QED
  BY <1>8, OrderOfList DEF P

(* The order and the cells of a list make a sheet hold just its rows.      *)
LEMMA FilledRight ==
  ASSUME NEW rows \in Seq(Row), NEW list, IsList(list), Right(rows, list), Order(rows) = Order(list)
  PROVE  Filled(rows) = list
<1> DEFINE n == Cardinality(KeyedPlaces(rows))
           at == Ascending(KeyedPlaces(rows))
           new == Filled(rows)
<1>1. FilledFrom(rows, n, at)
  BY FilledIs
<1> HIDE DEF n, at, new
<1>2. Order(rows) = [i \in DOMAIN new |-> new[i].key]
  BY DEF Order, new
<1>3. Order(list) = [i \in DOMAIN list |-> list[i].key]
  BY OrderOfList
<1>4. DOMAIN new = DOMAIN list /\ \A i \in DOMAIN list : new[i].key = list[i].key
  BY <1>2, <1>3
<1>5. ASSUME NEW i \in DOMAIN list PROVE new[i] = list[i]
  <2>1. at[i] \in DOMAIN rows /\ new[i] = rows[at[i]]
    BY <1>1, <1>4 DEF FilledFrom, KeyedPlaces, new
  <2>2. new[i].cells = list[i].cells
    BY <1>4, <2>1 DEF Right
  <2>3. new[i] \in Row /\ list[i] \in Row
    <3>1. rows[at[i]] \in Row
      BY <2>1, ElementOfSeq
    <3>2. list[i] \in Row
      BY ElementOfSeq DEF IsList
    <3> QED BY <2>1, <3>1, <3>2
  <2> QED BY <1>4, <2>2, <2>3 DEF Row
<1>6. new \in Seq(Row) /\ list \in Seq(Row)
  BY <1>1 DEF FilledFrom, IsList, new
<1>7. Len(new) = Len(list)
  BY <1>4, <1>6, LenProperties
<1>8. new = list
  <2>1. new = [i \in DOMAIN new |-> new[i]] /\ list = [i \in DOMAIN list |-> list[i]]
    BY <1>6
  <2> QED BY <1>4, <1>5, <2>1
<1> QED
  BY <1>8 DEF new

(* Nothing is twice in a list.                                             *)
LEMMA ListDistinct == ASSUME NEW list, IsList(list) PROVE Distinct(list)
  BY DEF IsList, Distinct

(* The keys of a list that are all in a sheet are an order for its rows.   *)
LEMMA ListOrders ==
  ASSUME NEW rows, NEW list, IsList(list), Present(rows, list)
  PROVE  IsOrder(Order(list), rows)
<1>1. /\ Order(list) \in Seq(Participant) /\ DOMAIN Order(list) = DOMAIN list
      /\ \A i \in DOMAIN list : Order(list)[i] = list[i].key
  BY OrderOfList
<1>2. ASSUME NEW i \in DOMAIN list PROVE list[i].key \in Keys(rows)
  BY KeysAre, ParticipantAssumption DEF Present, IsList
<1> QED
  BY <1>1, <1>2 DEF IsOrder, IsList

-----------------------------------------------------------------------------
(* A replacement under way, as it stands to the rows of the sheet: what it *)
(* has planned is still what has to be done.                               *)
Corrects(rows, updates, list) ==
  /\ DOMAIN updates \subseteq DOMAIN rows
  /\ \A i \in DOMAIN updates : HasKey(list, rows[i].key)
  /\ \A i \in DOMAIN rows, k \in DOMAIN list : rows[i].key = list[k].key =>
       IF i \in DOMAIN updates THEN updates[i] = list[k].cells ELSE rows[i].cells = list[k].cells

Adds(rows, inserts, list) ==
  /\ inserts \in Seq(Row)
  /\ \A i \in DOMAIN inserts : \E k \in DOMAIN list : inserts[i] = list[k]
  /\ \A k \in DOMAIN list : HasKey(rows, list[k].key) \/ HasKey(inserts, list[k].key)

Fresh(rows, inserts) ==
  /\ Distinct(inserts)
  /\ \A i \in DOMAIN inserts : ~HasKey(rows, inserts[i].key)

Drops(rows, deletes, list) ==
  deletes = {i \in DOMAIN rows : rows[i].key # NoKey /\ ~HasKey(list, rows[i].key)}

Shaped(j) ==
  /\ j = [at |-> j.at, rows |-> j.rows, updates |-> j.updates, inserts |-> j.inserts,
          deletes |-> j.deletes, order |-> j.order, moves |-> j.moves, clean |-> j.clean]
  /\ j.at \in {"update", "append", "delete", "reorder", "move", "verify"}
  /\ j.clean \in BOOLEAN
  /\ IsList(j.rows)

ToCorrect(rows, j) ==
  IF j.at = "update" THEN Corrects(rows, j.updates, j.rows) ELSE Right(rows, j.rows)

ToAdd(rows, j) ==
  IF j.at \in {"update", "append"} THEN Adds(rows, j.inserts, j.rows) ELSE Present(rows, j.rows)

ToDrop(rows, j) ==
  IF j.at \in {"update", "append", "delete"} THEN Drops(rows, j.deletes, j.rows)
  ELSE Only(rows, j.rows)

(* Without a repeated append no participant has two rows.                  *)
Single(rows, j) ==
  "append" \notin LostAnswers \/ j.clean =>
    Distinct(rows) /\ (j.at \in {"update", "append"} => Fresh(rows, j.inserts))

(* And what is to be done about the order.                                 *)
Stays(j) == ~(j.order \/ j.inserts # << >> \/ j.deletes # {})

ToSort(rows, j) ==
  /\ j.at \notin {"move", "verify"} /\ Stays(j) => Order(rows) = Order(j.rows)
  /\ j.at = "move" => /\ j.moves \in Seq(Upward(Len(rows)))
                      /\ j.clean => Order(Moved(rows, j.moves)) = Order(j.rows)
  /\ j.at = "verify" /\ j.clean => Order(rows) = Order(j.rows)

Fits(rows, j) ==
  /\ Shaped(j)
  /\ ToCorrect(rows, j) /\ ToAdd(rows, j) /\ ToDrop(rows, j)
  /\ Single(rows, j) /\ ToSort(rows, j)

(* The invariant.  A deletion that is repeated takes rows away that the    *)
(* ranking wants, and then neither ToAdd nor ToDrop hold any more.         *)
Inv ==
  /\ sheet \in Seq(Row)
  /\ AreTotals(scores) /\ DOMAIN scores \subseteq Participant
  /\ IsList(due)
  /\ "append" \notin LostAnswers => NoDuplicates
  /\ job # Idle => Fits(sheet, job)

(* What is planned for a sheet as it has been read.                        *)
LEMMA PlanUpdates ==
  ASSUME NEW rows \in Seq(Row), NEW list, IsList(list)
  PROVE  Corrects(rows, Updates(rows, Participant, list), list)
<1> DEFINE updates == Updates(rows, Participant, list)
           changed == {i \in DOMAIN rows :
                         /\ rows[i].key \in Participant \intersect Keys(list)
                         /\ rows[i].cells # Wanted(list, rows[i].key).cells}
<1>1. updates = [i \in changed |-> Wanted(list, rows[i].key).cells]
  BY DEF Updates
<1> HIDE DEF updates
<1>2. ASSUME NEW i \in changed PROVE i \in DOMAIN rows /\ HasKey(list, rows[i].key)
  BY KeysAre
<1>3. ASSUME NEW i \in DOMAIN rows, NEW k \in DOMAIN list, rows[i].key = list[k].key
      PROVE  IF i \in DOMAIN updates THEN updates[i] = list[k].cells ELSE rows[i].cells = list[k].cells
  <2>1. Wanted(list, rows[i].key) = list[k]
    BY <1>3, WantedIs
  <2>2. rows[i].key \in Participant /\ rows[i].key # NoKey /\ HasKey(list, rows[i].key)
    BY <1>3, ParticipantAssumption DEF IsList, HasKey
  <2>3. rows[i].key \in Participant \intersect Keys(list)
    BY <2>2, KeysAre
  <2>4. i \in changed <=> rows[i].cells # list[k].cells
    BY <2>1, <2>3
  <2>5. DOMAIN updates = changed /\ (i \in changed => updates[i] = Wanted(list, rows[i].key).cells)
    BY <1>1
  <2> HIDE DEF changed
  <2> QED BY <2>1, <2>4, <2>5
<1>4. DOMAIN updates = changed
  BY <1>1
<1> HIDE DEF changed
<1> QED
  BY <1>2, <1>3, <1>4 DEF Corrects, updates

(* Every row that is wanted and not there is inserted, and no other.       *)
LEMMA PlanInserts ==
  ASSUME NEW rows \in Seq(Row), NEW list, IsList(list)
  PROVE  Adds(rows, Inserts(rows, list), list) /\ Fresh(rows, Inserts(rows, list))
<1> DEFINE P == {i \in DOMAIN list : list[i].key \notin Keys(rows)}
           inserts == Picked(list, P)
           n == Cardinality(P)
           at == Ascending(P)
<1>1. Inserts(rows, list) = inserts
  BY DEF Inserts
<1>2. P \subseteq DOMAIN list /\ \A i \in DOMAIN list : i \in P <=> ~HasKey(rows, list[i].key)
  BY KeysAre, ParticipantAssumption DEF IsList
<1> HIDE DEF P
<1>3. /\ n \in Nat /\ IncreasingList(at, n, P)
      /\ inserts \in Seq(Row) /\ DOMAIN inserts = 1 .. n
      /\ \A k \in 1 .. n : inserts[k] = list[at[k]]
  BY <1>2, PickedIs DEF IsList
<1> HIDE DEF inserts, n, at
<1>4. /\ \A k \in 1 .. n : at[k] \in P
      /\ \A x \in P : \E k \in 1 .. n : at[k] = x
      /\ \A i, k \in 1 .. n : i < k <=> at[i] < at[k]
  BY <1>3 DEF IncreasingList
<1>5. ASSUME NEW i \in 1 .. n, NEW k \in 1 .. n, i # k PROVE inserts[i].key # inserts[k].key
  <2>1. at[i] # at[k]
    <3>1. at[i] \in Nat /\ at[k] \in Nat
      BY <1>2, <1>4, LenProperties DEF IsList
    <3>2. i < k \/ k < i
      BY <1>3, <1>5
    <3> QED BY <1>4, <3>1, <3>2
  <2> QED BY <1>2, <1>3, <1>4, <2>1 DEF IsList
<1>6. ASSUME NEW k \in DOMAIN list PROVE HasKey(rows, list[k].key) \/ HasKey(inserts, list[k].key)
  <2> SUFFICES ASSUME k \in P PROVE HasKey(inserts, list[k].key)
    BY <1>2
  <2>1. PICK m \in 1 .. n : at[m] = k
    BY <1>4
  <2> QED BY <1>3, <2>1 DEF HasKey
<1>7. Adds(rows, inserts, list)
  BY <1>2, <1>3, <1>4, <1>6 DEF Adds
<1>8. Fresh(rows, inserts)
  BY <1>2, <1>3, <1>4, <1>5 DEF Fresh, Distinct
<1> QED
  BY <1>1, <1>7, <1>8

(* Every row that is there and not wanted is deleted, blank ones excepted. *)
LEMMA PlanDeletes ==
  ASSUME NEW rows \in Seq(Row), NEW list, IsList(list)
  PROVE  Drops(rows, Obsolete(rows, Participant, list), list)
<1>1. ASSUME NEW i \in DOMAIN rows
      PROVE  rows[i].key \in Participant \ Keys(list) <=>
               rows[i].key # NoKey /\ ~HasKey(list, rows[i].key)
  BY Keyed, KeysAre, ParticipantAssumption
<1> QED
  BY <1>1 DEF Drops, Obsolete

(* The overwriting of cells, done or done again.                           *)
LEMMA WrittenIs ==
  ASSUME NEW rows \in Seq(Row), NEW list, IsList(list), NEW updates, Corrects(rows, updates, list)
  PROVE  /\ Written(rows, updates) \in Seq(Row) /\ SameKeys(Written(rows, updates), rows)
         /\ Right(Written(rows, updates), list)
         /\ Corrects(Written(rows, updates), updates, list)
<1> DEFINE new == Written(rows, updates)
<1>1. DOMAIN new = DOMAIN rows
  BY DEF Written
<1>2. ASSUME NEW i \in DOMAIN rows
      PROVE  /\ new[i] \in Row /\ new[i].key = rows[i].key
             /\ new[i].cells = IF i \in DOMAIN updates THEN updates[i] ELSE rows[i].cells
  <2>1. rows[i] \in Row
    BY ElementOfSeq
  <2>2. i \in DOMAIN updates => updates[i] \in (Nat \X Nat) \union {0}
    <3> SUFFICES ASSUME i \in DOMAIN updates PROVE updates[i] \in (Nat \X Nat) \union {0}
      OBVIOUS
    <3>1. PICK k \in DOMAIN list : list[k].key = rows[i].key
      BY DEF Corrects, HasKey
    <3>2. updates[i] = list[k].cells
      BY <3>1 DEF Corrects
    <3>3. list[k] \in Row
      BY ElementOfSeq DEF IsList
    <3> QED BY <3>2, <3>3 DEF Row
  <2>3. new[i] = IF i \in DOMAIN updates THEN [rows[i] EXCEPT !.cells = updates[i]] ELSE rows[i]
    BY DEF Written
  <2> HIDE DEF new
  <2> QED BY <2>1, <2>2, <2>3 DEF Row
<1>3. new \in Seq(Row)
  <2>1. new = [i \in DOMAIN rows |-> new[i]]
    BY DEF Written
  <2>2. Len(rows) \in Nat /\ DOMAIN rows = 1 .. Len(rows)
    BY LenProperties
  <2> HIDE DEF new
  <2>3. new \in [1 .. Len(rows) -> Row]
    BY <1>2, <2>1, <2>2
  <2> QED BY <2>2, <2>3
<1> HIDE DEF new
<1>4. SameKeys(new, rows)
  BY <1>1, <1>2 DEF SameKeys
<1>5. Right(new, list)
  BY <1>1, <1>2 DEF Right, Corrects
<1>6. Corrects(new, updates, list)
  BY <1>1, <1>2 DEF Corrects
<1> QED
  BY <1>3, <1>4, <1>5, <1>6 DEF new

(* Rows with the same keys need the same rows added and dropped.           *)
LEMMA SameKeysKeep ==
  ASSUME NEW rows, NEW new, SameKeys(new, rows), NEW list, NEW inserts, NEW deletes
  PROVE  /\ \A key : HasKey(new, key) <=> HasKey(rows, key)
         /\ Distinct(rows) => Distinct(new)
         /\ Adds(rows, inserts, list) => Adds(new, inserts, list)
         /\ Fresh(rows, inserts) => Fresh(new, inserts)
         /\ Drops(rows, deletes, list) => Drops(new, deletes, list)
<1>1. \A key : HasKey(new, key) <=> HasKey(rows, key)
  BY DEF HasKey, SameKeys
<1>2. Distinct(rows) => Distinct(new)
  BY DEF Distinct, SameKeys
<1>3. Adds(rows, inserts, list) => Adds(new, inserts, list)
  BY <1>1 DEF Adds
<1>4. Fresh(rows, inserts) => Fresh(new, inserts)
  BY <1>1 DEF Fresh
<1>5. Drops(rows, deletes, list) => Drops(new, deletes, list)
  <2>1. {i \in DOMAIN rows : rows[i].key # NoKey /\ ~HasKey(list, rows[i].key)} =
        {i \in DOMAIN new : new[i].key # NoKey /\ ~HasKey(list, new[i].key)}
    BY DEF SameKeys
  <2> QED BY <2>1 DEF Drops
<1> QED
  BY <1>1, <1>2, <1>3, <1>4, <1>5

(* Appending the rows that are to be added, once or again.                 *)
LEMMA AppendedIs ==
  ASSUME NEW rows \in Seq(Row), NEW list, IsList(list), NEW inserts, NEW deletes,
         Right(rows, list), Adds(rows, inserts, list), Drops(rows, deletes, list)
  PROVE  /\ Appended(rows, inserts) \in Seq(Row)
         /\ Right(Appended(rows, inserts), list) /\ Present(Appended(rows, inserts), list)
         /\ Adds(Appended(rows, inserts), inserts, list)
         /\ Drops(Appended(rows, inserts), deletes, list)
         /\ Distinct(rows) /\ Fresh(rows, inserts) => Distinct(Appended(rows, inserts))
<1> DEFINE new == Appended(rows, inserts)
           n == Len(rows)
           m == Len(inserts)
<1>1. /\ inserts \in Seq(Row)
      /\ \A i \in DOMAIN inserts : \E k \in DOMAIN list : inserts[i] = list[k]
      /\ \A k \in DOMAIN list : HasKey(rows, list[k].key) \/ HasKey(inserts, list[k].key)
  BY DEF Adds
<1>2. n \in Nat /\ DOMAIN rows = 1 .. n /\ m \in Nat /\ DOMAIN inserts = 1 .. m
  BY <1>1, LenProperties
<1>3. Joins(new, rows, inserts, Row)
  BY <1>1, Joined DEF Appended
<1> HIDE DEF new
<1>4. /\ new \in Seq(Row) /\ DOMAIN new = 1 .. n + m
      /\ \A i \in 1 .. n : new[i] = rows[i]
      /\ \A i \in 1 .. m : new[n + i] = inserts[i]
  BY <1>3, LenProperties DEF Joins
<1> HIDE DEF n, m
<1>5. ASSUME NEW i \in DOMAIN new
      PROVE  \/ i \in DOMAIN rows /\ new[i] = rows[i]
             \/ /\ i \notin DOMAIN rows
                /\ \E h \in DOMAIN inserts : i = n + h /\ new[i] = inserts[h]
  <2>1. CASE i \in 1 .. n
    BY <1>2, <1>4, <2>1
  <2>2. CASE i \notin 1 .. n
    <3>1. i - n \in 1 .. m /\ i = n + (i - n)
      BY <1>2, <1>4, <2>2
    <3> QED BY <1>2, <1>4, <2>2, <3>1
  <2> QED BY <2>1, <2>2
<1>6. /\ \A i \in DOMAIN rows : i \in DOMAIN new /\ new[i] = rows[i]
      /\ \A h \in DOMAIN inserts : n + h \in DOMAIN new /\ new[n + h] = inserts[h]
  BY <1>2, <1>4
<1>7. \A key : HasKey(new, key) <=> HasKey(rows, key) \/ HasKey(inserts, key)
  BY <1>5, <1>6 DEF HasKey
<1>8. \A h \in DOMAIN inserts, k \in DOMAIN list :
         inserts[h].key = list[k].key => inserts[h].cells = list[k].cells
  BY <1>1 DEF IsList
<1>9. Right(new, list)
  BY <1>5, <1>8 DEF Right
<1>10. Present(new, list) /\ Adds(new, inserts, list)
  BY <1>1, <1>7 DEF Present, Adds
<1>11. Drops(new, deletes, list)
  <2>1. ASSUME NEW h \in DOMAIN inserts PROVE HasKey(list, inserts[h].key)
    BY <1>1 DEF HasKey
  <2>2. \A i \in DOMAIN new :
           new[i].key # NoKey /\ ~HasKey(list, new[i].key) =>
             i \in DOMAIN rows /\ rows[i].key # NoKey /\ ~HasKey(list, rows[i].key)
    BY <1>5, <2>1
  <2>3. {i \in DOMAIN rows : rows[i].key # NoKey /\ ~HasKey(list, rows[i].key)} =
        {i \in DOMAIN new : new[i].key # NoKey /\ ~HasKey(list, new[i].key)}
    BY <1>6, <2>2
  <2> QED BY <2>3 DEF Drops
<1>12. ASSUME Distinct(rows), Fresh(rows, inserts) PROVE Distinct(new)
  <2> SUFFICES ASSUME NEW i \in DOMAIN new, NEW k \in DOMAIN new, i # k, new[i].key = new[k].key
               PROVE  new[i].key = NoKey
    BY DEF Distinct
  <2>1. CASE i \in DOMAIN rows /\ k \in DOMAIN rows
    BY <1>6, <1>12, <2>1 DEF Distinct
  <2>2. CASE i \in DOMAIN rows /\ k \notin DOMAIN rows
    BY <1>5, <1>6, <1>12, <2>2 DEF Fresh, HasKey
  <2>3. CASE i \notin DOMAIN rows /\ k \in DOMAIN rows
    BY <1>5, <1>6, <1>12, <2>3 DEF Fresh, HasKey
  <2>4. CASE i \notin DOMAIN rows /\ k \notin DOMAIN rows
    BY <1>5, <1>12, <2>4 DEF Fresh, Distinct
  <2> QED BY <2>1, <2>2, <2>3, <2>4
<1> QED
  BY <1>4, <1>9, <1>10, <1>11, <1>12 DEF new

(* Deleting the rows that are to be dropped leaves just the others.        *)
LEMMA DroppedIs ==
  ASSUME NEW rows \in Seq(Row), NEW list, IsList(list), NEW deletes,
         Right(rows, list), Present(rows, list), Drops(rows, deletes, list)
  PROVE  /\ Deleted(rows, Descending(deletes)) \in Seq(Row)
         /\ Right(Deleted(rows, Descending(deletes)), list)
         /\ Present(Deleted(rows, Descending(deletes)), list)
         /\ Only(Deleted(rows, Descending(deletes)), list)
         /\ Distinct(rows) => Distinct(Deleted(rows, Descending(deletes)))
<1> DEFINE P == DOMAIN rows \ deletes
           new == Picked(rows, P)
           n == Cardinality(P)
           at == Ascending(P)
<1>1. deletes \subseteq DOMAIN rows
      /\ \A i \in DOMAIN rows : i \in deletes <=> rows[i].key # NoKey /\ ~HasKey(list, rows[i].key)
  BY DEF Drops
<1>2. Deleted(rows, Descending(deletes)) = new
  BY <1>1, DeletedExactly
<1>3. /\ n \in Nat /\ IncreasingList(at, n, P)
      /\ new \in Seq(Row) /\ DOMAIN new = 1 .. n
      /\ \A k \in 1 .. n : new[k] = rows[at[k]]
  BY PickedIs
<1>4. P \subseteq DOMAIN rows /\ \A i \in DOMAIN rows : i \in P <=> i \notin deletes
  OBVIOUS
<1> HIDE DEF new, n, at, P
<1>5. /\ \A k \in 1 .. n : at[k] \in P
      /\ \A x \in P : \E k \in 1 .. n : at[k] = x
      /\ \A i, k \in 1 .. n : i < k <=> at[i] < at[k]
  BY <1>3 DEF IncreasingList
<1>6. Right(new, list)
  BY <1>3, <1>4, <1>5 DEF Right
<1>7. Present(new, list)
  <2> SUFFICES ASSUME NEW k \in DOMAIN list PROVE HasKey(new, list[k].key)
    BY DEF Present
  <2>1. PICK i \in DOMAIN rows : rows[i].key = list[k].key
    BY DEF Present, HasKey
  <2>2. i \in P
    BY <1>1, <1>4, <2>1 DEF HasKey
  <2>3. PICK h \in 1 .. n : at[h] = i
    BY <1>5, <2>2
  <2> QED BY <1>3, <2>1, <2>3 DEF HasKey
<1>8. Only(new, list)
  BY <1>1, <1>3, <1>4, <1>5 DEF Only
<1>9. ASSUME Distinct(rows) PROVE Distinct(new)
  <2> SUFFICES ASSUME NEW i \in DOMAIN new, NEW k \in DOMAIN new, i # k, new[i].key = new[k].key
               PROVE  new[i].key = NoKey
    BY DEF Distinct
  <2>1. at[i] # at[k]
    <3>1. at[i] \in Nat /\ at[k] \in Nat
      BY <1>3, <1>4, <1>5, LenProperties
    <3>2. i < k \/ k < i
      BY <1>3
    <3> QED BY <1>3, <1>5, <3>1, <3>2
  <2> QED BY <1>3, <1>4, <1>5, <1>9, <2>1 DEF Distinct
<1> QED
  BY <1>2, <1>3, <1>6, <1>7, <1>8, <1>9

-----------------------------------------------------------------------------
(* A call that is done leads to the next one; one that failed is repeated. *)
Staged(j) == [j EXCEPT !.at = After[@]]
Dirty(j) == [j EXCEPT !.clean = FALSE]

SamePlan(new, j) ==
  /\ new.rows = j.rows /\ new.updates = j.updates /\ new.inserts = j.inserts
  /\ new.deletes = j.deletes /\ new.order = j.order /\ new.moves = j.moves

(* What both leave as it was.                                              *)
LEMMA StagedIs ==
  ASSUME NEW j, Shaped(j), j.at \in Call
  PROVE  /\ Shaped(Staged(j)) /\ SamePlan(Staged(j), j) /\ Staged(j).clean = j.clean
         /\ j.at = "update" => Staged(j).at = "append"
         /\ j.at = "append" => Staged(j).at = "delete"
         /\ j.at = "delete" => Staged(j).at = "reorder"
         /\ j.at = "move" => Staged(j).at = "verify"
<1> DEFINE a == After[j.at]
<1>1. /\ j.at = "update" => a = "append"
      /\ j.at = "append" => a = "delete"
      /\ j.at = "delete" => a = "reorder"
      /\ j.at = "move" => a = "verify"
  BY DEF After
<1>2. Staged(j) = [j EXCEPT !.at = a]
  BY DEF Staged
<1> HIDE DEF a
<1>3. Staged(j) = [at |-> a, rows |-> j.rows, updates |-> j.updates, inserts |-> j.inserts,
                   deletes |-> j.deletes, order |-> j.order, moves |-> j.moves, clean |-> j.clean]
  BY <1>2 DEF Shaped
<1> QED
  BY <1>1, <1>3 DEF Shaped, SamePlan, Call

(* The plan of a failed call is the same, but the run is not clean.        *)
LEMMA DirtyIs ==
  ASSUME NEW j, Shaped(j)
  PROVE  Shaped(Dirty(j)) /\ SamePlan(Dirty(j), j) /\ Dirty(j).at = j.at /\ Dirty(j).clean = FALSE
<1>1. Dirty(j) = [at |-> j.at, rows |-> j.rows, updates |-> j.updates, inserts |-> j.inserts,
                  deletes |-> j.deletes, order |-> j.order, moves |-> j.moves, clean |-> FALSE]
  <2>1. Dirty(j) = [j EXCEPT !.clean = FALSE]
    BY DEF Dirty
  <2> QED BY <2>1 DEF Shaped
<1> QED
  BY <1>1 DEF Shaped, SamePlan

(* A refused call changes no row.                                          *)
LEMMA RefusedFits ==
  ASSUME NEW rows, NEW j, Fits(rows, j)
  PROVE  Fits(rows, Dirty(j))
<1>1. Shaped(Dirty(j)) /\ SamePlan(Dirty(j), j) /\ Dirty(j).at = j.at /\ Dirty(j).clean = FALSE
  BY DirtyIs DEF Fits
<1>2. ToCorrect(rows, Dirty(j)) /\ ToAdd(rows, Dirty(j)) /\ ToDrop(rows, Dirty(j))
  BY <1>1 DEF Fits, ToCorrect, ToAdd, ToDrop, SamePlan
<1>3. Single(rows, Dirty(j))
  BY <1>1 DEF Fits, Single, SamePlan
<1>4. ToSort(rows, Dirty(j))
  BY <1>1 DEF Fits, ToSort, Stays, SamePlan
<1> QED
  BY <1>1, <1>2, <1>3, <1>4 DEF Fits

(* The overwriting.                                                        *)
LEMMA UpdateFits ==
  ASSUME NEW rows \in Seq(Row), NEW j, Fits(rows, j), j.at = "update"
  PROVE  /\ Written(rows, j.updates) \in Seq(Row)
         /\ Fits(Written(rows, j.updates), Staged(j)) /\ Fits(Written(rows, j.updates), Dirty(j))
<1> DEFINE new == Written(rows, j.updates)
<1>1. /\ Shaped(j) /\ IsList(j.rows) /\ Corrects(rows, j.updates, j.rows)
      /\ Adds(rows, j.inserts, j.rows) /\ Drops(rows, j.deletes, j.rows)
  BY DEF Fits, Shaped, ToCorrect, ToAdd, ToDrop
<1>2. /\ new \in Seq(Row) /\ SameKeys(new, rows) /\ Right(new, j.rows)
      /\ Corrects(new, j.updates, j.rows)
  BY <1>1, WrittenIs
<1> HIDE DEF new
<1>3. /\ Distinct(rows) => Distinct(new)
      /\ Adds(new, j.inserts, j.rows)
      /\ Fresh(rows, j.inserts) => Fresh(new, j.inserts)
      /\ Drops(new, j.deletes, j.rows)
  BY <1>1, <1>2, SameKeysKeep
<1>4. Order(new) = Order(rows)
  BY <1>2, OrderSame
<1>5. Stays(j) => Order(rows) = Order(j.rows)
  BY DEF Fits, ToSort
<1>6. "append" \notin LostAnswers \/ j.clean => Distinct(rows) /\ Fresh(rows, j.inserts)
  BY DEF Fits, Single
<1>7. Fits(new, Staged(j))
  <2>1. Shaped(Staged(j)) /\ SamePlan(Staged(j), j) /\ Staged(j).clean = j.clean /\ Staged(j).at = "append"
    BY <1>1, StagedIs DEF Call
  <2>2. ToCorrect(new, Staged(j)) /\ ToAdd(new, Staged(j)) /\ ToDrop(new, Staged(j))
    BY <1>2, <1>3, <2>1 DEF ToCorrect, ToAdd, ToDrop, SamePlan
  <2>3. Single(new, Staged(j))
    BY <1>3, <1>6, <2>1 DEF Single, SamePlan
  <2>4. ToSort(new, Staged(j))
    BY <1>4, <1>5, <2>1 DEF ToSort, Stays, SamePlan
  <2> QED BY <2>1, <2>2, <2>3, <2>4 DEF Fits
<1>8. Fits(new, Dirty(j))
  <2>1. Shaped(Dirty(j)) /\ SamePlan(Dirty(j), j) /\ Dirty(j).clean = FALSE /\ Dirty(j).at = "update"
    BY <1>1, DirtyIs
  <2>2. ToCorrect(new, Dirty(j)) /\ ToAdd(new, Dirty(j)) /\ ToDrop(new, Dirty(j))
    BY <1>2, <1>3, <2>1 DEF ToCorrect, ToAdd, ToDrop, SamePlan
  <2>3. Single(new, Dirty(j))
    BY <1>3, <1>6, <2>1 DEF Single, SamePlan
  <2>4. ToSort(new, Dirty(j))
    BY <1>4, <1>5, <2>1 DEF ToSort, Stays, SamePlan
  <2> QED BY <2>1, <2>2, <2>3, <2>4 DEF Fits
<1> QED
  BY <1>2, <1>7, <1>8 DEF new

(* The append, which may be repeated when its answer is lost.              *)
LEMMA AppendFits ==
  ASSUME NEW rows \in Seq(Row), NEW j, Fits(rows, j), j.at = "append", j.inserts # << >>
  PROVE  /\ Appended(rows, j.inserts) \in Seq(Row)
         /\ Fits(Appended(rows, j.inserts), Staged(j))
         /\ "append" \in LostAnswers => Fits(Appended(rows, j.inserts), Dirty(j))
<1> DEFINE new == Appended(rows, j.inserts)
<1>1. /\ Shaped(j) /\ IsList(j.rows) /\ Right(rows, j.rows)
      /\ Adds(rows, j.inserts, j.rows) /\ Drops(rows, j.deletes, j.rows) /\ ~Stays(j)
  BY DEF Fits, Shaped, ToCorrect, ToAdd, ToDrop, Stays
<1>2. /\ new \in Seq(Row) /\ Right(new, j.rows) /\ Present(new, j.rows)
      /\ Adds(new, j.inserts, j.rows) /\ Drops(new, j.deletes, j.rows)
      /\ Distinct(rows) /\ Fresh(rows, j.inserts) => Distinct(new)
  BY <1>1, AppendedIs
<1> HIDE DEF new
<1>3. "append" \notin LostAnswers \/ j.clean => Distinct(rows) /\ Fresh(rows, j.inserts)
  BY DEF Fits, Single
<1>4. Fits(new, Staged(j))
  <2>1. Shaped(Staged(j)) /\ SamePlan(Staged(j), j) /\ Staged(j).clean = j.clean /\ Staged(j).at = "delete"
    BY <1>1, StagedIs DEF Call
  <2>2. ToCorrect(new, Staged(j)) /\ ToAdd(new, Staged(j)) /\ ToDrop(new, Staged(j))
    BY <1>2, <2>1 DEF ToCorrect, ToAdd, ToDrop, SamePlan
  <2>3. Single(new, Staged(j))
    BY <1>2, <1>3, <2>1 DEF Single, SamePlan
  <2>4. ToSort(new, Staged(j))
    BY <1>1, <2>1 DEF ToSort, Stays, SamePlan
  <2> QED BY <2>1, <2>2, <2>3, <2>4 DEF Fits
<1>5. ASSUME "append" \in LostAnswers PROVE Fits(new, Dirty(j))
  <2>1. Shaped(Dirty(j)) /\ SamePlan(Dirty(j), j) /\ Dirty(j).clean = FALSE /\ Dirty(j).at = "append"
    BY <1>1, DirtyIs
  <2>2. ToCorrect(new, Dirty(j)) /\ ToAdd(new, Dirty(j)) /\ ToDrop(new, Dirty(j))
    BY <1>2, <2>1 DEF ToCorrect, ToAdd, ToDrop, SamePlan
  <2>3. Single(new, Dirty(j))
    BY <1>5, <2>1 DEF Single
  <2>4. ToSort(new, Dirty(j))
    BY <1>1, <2>1 DEF ToSort, Stays, SamePlan
  <2> QED BY <2>1, <2>2, <2>3, <2>4 DEF Fits
<1> QED
  BY <1>2, <1>4, <1>5 DEF new

(* The deletion.                                                           *)
LEMMA DeleteFits ==
  ASSUME NEW rows \in Seq(Row), NEW j, Fits(rows, j), j.at = "delete", j.deletes # {}
  PROVE  /\ Deleted(rows, Descending(j.deletes)) \in Seq(Row)
         /\ Fits(Deleted(rows, Descending(j.deletes)), Staged(j))
<1> DEFINE new == Deleted(rows, Descending(j.deletes))
<1>1. /\ Shaped(j) /\ IsList(j.rows) /\ Right(rows, j.rows)
      /\ Present(rows, j.rows) /\ Drops(rows, j.deletes, j.rows) /\ ~Stays(j)
  BY DEF Fits, Shaped, ToCorrect, ToAdd, ToDrop, Stays
<1>2. /\ new \in Seq(Row) /\ Right(new, j.rows) /\ Present(new, j.rows) /\ Only(new, j.rows)
      /\ Distinct(rows) => Distinct(new)
  BY <1>1, DroppedIs
<1> HIDE DEF new
<1>3. "append" \notin LostAnswers \/ j.clean => Distinct(rows)
  BY DEF Fits, Single
<1>4. Shaped(Staged(j)) /\ SamePlan(Staged(j), j) /\ Staged(j).clean = j.clean /\ Staged(j).at = "reorder"
  BY <1>1, StagedIs DEF Call
<1>5. ToCorrect(new, Staged(j)) /\ ToAdd(new, Staged(j)) /\ ToDrop(new, Staged(j))
  BY <1>2, <1>4 DEF ToCorrect, ToAdd, ToDrop, SamePlan
<1>6. Single(new, Staged(j))
  BY <1>2, <1>3, <1>4 DEF Single, SamePlan
<1>7. ToSort(new, Staged(j))
  BY <1>1, <1>4 DEF ToSort, Stays, SamePlan
<1> QED
  BY <1>2, <1>4, <1>5, <1>6, <1>7 DEF Fits, new

(* The moves, which take no row away and bring none, repeated or not.      *)
LEMMA MoveFits ==
  ASSUME NEW rows \in Seq(Row), NEW j, Fits(rows, j), j.at = "move"
  PROVE  /\ Moved(rows, j.moves) \in Seq(Row)
         /\ Fits(Moved(rows, j.moves), Staged(j)) /\ Fits(Moved(rows, j.moves), Dirty(j))
<1> DEFINE new == Moved(rows, j.moves)
<1>1. /\ Shaped(j) /\ IsList(j.rows) /\ Right(rows, j.rows)
      /\ Present(rows, j.rows) /\ Only(rows, j.rows)
      /\ j.moves \in Seq(Upward(Len(rows)))
      /\ j.clean => Order(new) = Order(j.rows)
  BY DEF Fits, Shaped, ToCorrect, ToAdd, ToDrop, ToSort
<1>2. new \in Seq(Row) /\ Len(new) = Len(rows) /\ Rearranged(new, rows)
  BY <1>1, MovedRearranges
<1> HIDE DEF new
<1>3. /\ Right(new, j.rows) /\ Present(new, j.rows) /\ Only(new, j.rows)
      /\ Distinct(rows) => Distinct(new)
  BY <1>1, <1>2, RearrangedKeeps
<1>4. "append" \notin LostAnswers \/ j.clean => Distinct(rows)
  BY DEF Fits, Single
<1>5. Fits(new, Staged(j))
  <2>1. Shaped(Staged(j)) /\ SamePlan(Staged(j), j) /\ Staged(j).clean = j.clean /\ Staged(j).at = "verify"
    BY <1>1, StagedIs DEF Call
  <2>2. ToCorrect(new, Staged(j)) /\ ToAdd(new, Staged(j)) /\ ToDrop(new, Staged(j))
    BY <1>3, <2>1 DEF ToCorrect, ToAdd, ToDrop, SamePlan
  <2>3. Single(new, Staged(j))
    BY <1>3, <1>4, <2>1 DEF Single, SamePlan
  <2>4. ToSort(new, Staged(j))
    BY <1>1, <2>1 DEF ToSort, SamePlan
  <2> QED BY <2>1, <2>2, <2>3, <2>4 DEF Fits
<1>6. Fits(new, Dirty(j))
  <2>1. Shaped(Dirty(j)) /\ SamePlan(Dirty(j), j) /\ Dirty(j).clean = FALSE /\ Dirty(j).at = "move"
    BY <1>1, DirtyIs
  <2>2. ToCorrect(new, Dirty(j)) /\ ToAdd(new, Dirty(j)) /\ ToDrop(new, Dirty(j))
    BY <1>3, <2>1 DEF ToCorrect, ToAdd, ToDrop, SamePlan
  <2>3. Single(new, Dirty(j))
    BY <1>3, <1>4, <2>1 DEF Single, SamePlan
  <2>4. ToSort(new, Dirty(j))
    BY <1>1, <1>2, <2>1 DEF ToSort, SamePlan
  <2> QED BY <2>1, <2>2, <2>3, <2>4 DEF Fits
<1> QED
  BY <1>2, <1>5, <1>6 DEF new

(* An empty call is skipped: there is nothing to be corrected, added,      *)
(* dropped or moved.                                                       *)
LEMMA SkipFits ==
  ASSUME sheet \in Seq(Row), Fits(sheet, job), job.at \in Call, Empty
  PROVE  Fits(sheet, Staged(job))
<1>1. /\ Shaped(job) /\ IsList(job.rows)
      /\ Shaped(Staged(job)) /\ SamePlan(Staged(job), job) /\ Staged(job).clean = job.clean
      /\ job.at = "update" => Staged(job).at = "append"
      /\ job.at = "append" => Staged(job).at = "delete"
      /\ job.at = "delete" => Staged(job).at = "reorder"
      /\ job.at = "move" => Staged(job).at = "verify"
  BY StagedIs DEF Fits, Shaped
<1>2. ToCorrect(sheet, job) /\ ToAdd(sheet, job) /\ ToDrop(sheet, job) /\ Single(sheet, job) /\ ToSort(sheet, job)
  BY DEF Fits
<1>3. CASE job.at = "update"
  <2>1. job.updates = << >> /\ Corrects(sheet, job.updates, job.rows)
    BY <1>2, <1>3 DEF Empty, ToCorrect
  <2>2. Right(sheet, job.rows)
    <3>1. DOMAIN job.updates = {}
      BY <2>1
    <3> QED BY <2>1, <3>1 DEF Corrects, Right
  <2>3. ToCorrect(sheet, Staged(job)) /\ ToAdd(sheet, Staged(job)) /\ ToDrop(sheet, Staged(job))
    BY <1>1, <1>2, <1>3, <2>2 DEF ToCorrect, ToAdd, ToDrop, SamePlan
  <2>4. Single(sheet, Staged(job)) /\ ToSort(sheet, Staged(job))
    BY <1>1, <1>2, <1>3 DEF Single, ToSort, Stays, SamePlan
  <2> QED BY <1>1, <2>3, <2>4 DEF Fits
<1>4. CASE job.at = "append"
  <2>1. job.inserts = << >> /\ Adds(sheet, job.inserts, job.rows)
    BY <1>2, <1>4 DEF Empty, ToAdd
  <2>2. Present(sheet, job.rows)
    <3>1. DOMAIN job.inserts = {}
      BY <2>1
    <3>2. \A key : ~HasKey(job.inserts, key)
      BY <3>1 DEF HasKey
    <3> QED BY <2>1, <3>2 DEF Adds, Present
  <2>3. ToCorrect(sheet, Staged(job)) /\ ToAdd(sheet, Staged(job)) /\ ToDrop(sheet, Staged(job))
    BY <1>1, <1>2, <1>4, <2>2 DEF ToCorrect, ToAdd, ToDrop, SamePlan
  <2>4. Single(sheet, Staged(job)) /\ ToSort(sheet, Staged(job))
    BY <1>1, <1>2, <1>4 DEF Single, ToSort, Stays, SamePlan
  <2> QED BY <1>1, <2>3, <2>4 DEF Fits
<1>5. CASE job.at = "delete"
  <2>1. job.deletes = {} /\ Drops(sheet, job.deletes, job.rows)
    BY <1>2, <1>5 DEF Empty, ToDrop
  <2>2. Only(sheet, job.rows)
    BY <2>1 DEF Drops, Only
  <2>3. ToCorrect(sheet, Staged(job)) /\ ToAdd(sheet, Staged(job)) /\ ToDrop(sheet, Staged(job))
    BY <1>1, <1>2, <1>5, <2>2 DEF ToCorrect, ToAdd, ToDrop, SamePlan
  <2>4. Single(sheet, Staged(job)) /\ ToSort(sheet, Staged(job))
    BY <1>1, <1>2, <1>5 DEF Single, ToSort, Stays, SamePlan
  <2> QED BY <1>1, <2>3, <2>4 DEF Fits
<1>6. CASE job.at = "move"
  <2>1. /\ job.moves = << >> /\ job.moves \in Seq(Upward(Len(sheet)))
        /\ job.clean => Order(Moved(sheet, job.moves)) = Order(job.rows)
    BY <1>2, <1>6 DEF Empty, ToSort
  <2>2. Moved(sheet, job.moves) = sheet
    BY <2>1, MovedNone
  <2>3. ToCorrect(sheet, Staged(job)) /\ ToAdd(sheet, Staged(job)) /\ ToDrop(sheet, Staged(job))
    BY <1>1, <1>2, <1>6 DEF ToCorrect, ToAdd, ToDrop, SamePlan
  <2>4. Single(sheet, Staged(job)) /\ ToSort(sheet, Staged(job))
    BY <1>1, <1>2, <1>6, <2>1, <2>2 DEF Single, ToSort, Stays, SamePlan
  <2> QED BY <1>1, <2>3, <2>4 DEF Fits
<1> QED
  BY <1>3, <1>4, <1>5, <1>6 DEF Call

(* The moves are computed for the sheet as it is when they are applied.    *)
Sorting(j, moves) == [j EXCEPT !.at = "move", !.moves = moves]
Sorted(j) == [j EXCEPT !.at = "verify"]

(* What is moved is a sheet whose rows are the wanted ones, unordered.     *)
LEMMA SortingFits ==
  ASSUME NEW rows \in Seq(Row), NEW j, Fits(rows, j), j.at = "reorder"
  PROVE  Fits(rows, Sorting(j, Moves(rows, Order(j.rows))))
<1> DEFINE moves == Moves(rows, Order(j.rows))
           moved == Moved(rows, moves)
<1>1. /\ Shaped(j) /\ IsList(j.rows) /\ Right(rows, j.rows)
      /\ Present(rows, j.rows) /\ Only(rows, j.rows)
  BY DEF Fits, Shaped, ToCorrect, ToAdd, ToDrop
<1>2. "append" \notin LostAnswers \/ j.clean => Distinct(rows)
  BY DEF Fits, Single
<1>3. IsOrder(Order(j.rows), rows)
  BY <1>1, ListOrders
<1>4. /\ moves \in Seq(Upward(Len(rows)))
      /\ \A k \in DOMAIN Order(j.rows) : k \in DOMAIN rows /\ moved[k].key = Order(j.rows)[k]
  BY <1>3, MovesPlace
<1> HIDE DEF moves
<1>5. moved \in Seq(Row) /\ Len(moved) = Len(rows) /\ Rearranged(moved, rows)
  BY <1>4, MovedRearranges
<1> HIDE DEF moved
<1>6. Only(moved, j.rows) /\ (Distinct(rows) => Distinct(moved))
  BY <1>1, <1>5, RearrangedKeeps
<1>7. \A k \in DOMAIN j.rows : k \in DOMAIN moved /\ moved[k].key = j.rows[k].key
  <2>1. Order(j.rows) = [i \in DOMAIN j.rows |-> j.rows[i].key] /\ DOMAIN Order(j.rows) = DOMAIN j.rows
    BY <1>1, OrderOfList
  <2>2. DOMAIN moved = DOMAIN rows
    BY <1>5, LenProperties
  <2> QED BY <1>4, <2>1, <2>2
<1>8. j.clean => Order(moved) = Order(j.rows)
  BY <1>1, <1>2, <1>5, <1>6, <1>7, InPlace
<1> DEFINE new == Sorting(j, moves)
<1>9. Shaped(new) /\ new.at = "move" /\ new.moves = moves /\ new.clean = j.clean /\ new.rows = j.rows
  <2>1. new = [j EXCEPT !.at = "move", !.moves = moves]
    BY DEF Sorting
  <2> HIDE DEF new
  <2>2. new = [at |-> "move", rows |-> j.rows, updates |-> j.updates, inserts |-> j.inserts,
               deletes |-> j.deletes, order |-> j.order, moves |-> moves, clean |-> j.clean]
    BY <1>1, <2>1 DEF Shaped
  <2> QED BY <1>1, <2>2 DEF Shaped
<1> HIDE DEF new
<1>10. ToCorrect(rows, new) /\ ToAdd(rows, new) /\ ToDrop(rows, new)
  BY <1>1, <1>9 DEF ToCorrect, ToAdd, ToDrop
<1>11. Single(rows, new)
  BY <1>2, <1>9 DEF Single
<1>12. ToSort(rows, new)
  BY <1>4, <1>8, <1>9 DEF ToSort, moved
<1> QED
  BY <1>9, <1>10, <1>11, <1>12 DEF Fits, new, moves

(* Nothing is moved where nothing was out of order, added or deleted.      *)
LEMMA SortedFits ==
  ASSUME NEW rows \in Seq(Row), NEW j, Fits(rows, j), j.at = "reorder", Stays(j)
  PROVE  Fits(rows, Sorted(j))
<1> DEFINE new == Sorted(j)
<1>1. /\ Shaped(j) /\ Right(rows, j.rows) /\ Present(rows, j.rows) /\ Only(rows, j.rows)
      /\ Order(rows) = Order(j.rows)
      /\ "append" \notin LostAnswers \/ j.clean => Distinct(rows)
  BY DEF Fits, Shaped, ToCorrect, ToAdd, ToDrop, ToSort, Single
<1>2. Shaped(new) /\ new.at = "verify" /\ new.clean = j.clean /\ new.rows = j.rows
  <2>1. new = [j EXCEPT !.at = "verify"]
    BY DEF Sorted
  <2> HIDE DEF new
  <2>2. new = [at |-> "verify", rows |-> j.rows, updates |-> j.updates, inserts |-> j.inserts,
               deletes |-> j.deletes, order |-> j.order, moves |-> j.moves, clean |-> j.clean]
    BY <1>1, <2>1 DEF Shaped
  <2> QED BY <1>1, <2>2 DEF Shaped
<1> HIDE DEF new
<1>3. ToCorrect(rows, new) /\ ToAdd(rows, new) /\ ToDrop(rows, new)
  BY <1>1, <1>2 DEF ToCorrect, ToAdd, ToDrop
<1>4. Single(rows, new) /\ ToSort(rows, new)
  BY <1>1, <1>2 DEF Single, ToSort
<1> QED
  BY <1>2, <1>3, <1>4 DEF Fits, new

(* A plan fits the sheet it has been made for.                             *)
LEMMA PlanFits ==
  ASSUME sheet \in Seq(Row), NEW list, IsList(list), ~Duplicated(sheet)
  PROVE  Fits(sheet, Plan(list))
<1> DEFINE j == Plan(list)
<1>1. /\ Corrects(sheet, Updates(sheet, Participant, list), list)
      /\ Adds(sheet, Inserts(sheet, list), list) /\ Fresh(sheet, Inserts(sheet, list))
      /\ Drops(sheet, Obsolete(sheet, Participant, list), list)
      /\ Distinct(sheet)
  BY PlanUpdates, PlanInserts, PlanDeletes, DuplicatedIs
<1>2. /\ Shaped(j) /\ j.at = "update" /\ j.rows = list /\ j.clean = TRUE
      /\ j.updates = Updates(sheet, Participant, list)
      /\ j.inserts = Inserts(sheet, list)
      /\ j.deletes = Obsolete(sheet, Participant, list)
      /\ j.order = (Order(sheet) # Order(list))
  BY DEF Plan, Shaped
<1> HIDE DEF j
<1>3. ToCorrect(sheet, j) /\ ToAdd(sheet, j) /\ ToDrop(sheet, j)
  BY <1>1, <1>2 DEF ToCorrect, ToAdd, ToDrop
<1>4. Single(sheet, j)
  BY <1>1, <1>2 DEF Single
<1>5. ToSort(sheet, j)
  BY <1>2 DEF ToSort, Stays
<1> QED
  BY <1>2, <1>3, <1>4, <1>5 DEF Fits, j

(* The rows of a ranking can be asked for.                                 *)
LEMMA RankingIsList ==
  ASSUME NEW score, AreTotals(score), DOMAIN score \subseteq Participant
  PROVE  IsList(Rows(Ranking(score)))
<1> DEFINE n == Cardinality(DOMAIN score)
           g == Ranking(score)
           rows == Rows(g)
<1>1. /\ n \in Nat /\ g \in [1 .. n -> RankEntry(score)]
      /\ \A i, j \in 1 .. n : i # j => g[i].id # g[j].id
  BY RankedAbove
<1>2. Rebuilt(g) = g
  BY RebuiltSame
<1> HIDE DEF g, n
<1>3. rows = [i \in 1 .. n |-> [key |-> g[i].id, cells |-> <<g[i].rank, g[i].score>>]]
  BY <1>1, <1>2 DEF Rows
<1>4. ASSUME NEW i \in 1 .. n
      PROVE  rows[i] \in Row /\ rows[i].key = g[i].id /\ rows[i].key \in Participant
  <2>1. g[i].id \in Participant /\ g[i].rank \in Nat /\ g[i].score \in Nat
    BY <1>1 DEF RankEntry
  <2>2. rows[i] = [key |-> g[i].id, cells |-> <<g[i].rank, g[i].score>>]
    BY <1>3
  <2> HIDE DEF rows
  <2> QED BY <2>1, <2>2 DEF Row
<1>5. rows \in Seq(Row) /\ DOMAIN rows = 1 .. n
  <2>1. rows = [i \in 1 .. n |-> rows[i]]
    BY <1>3
  <2> HIDE DEF rows
  <2>2. rows \in [1 .. n -> Row]
    BY <1>4, <2>1
  <2> QED BY <1>1, <2>2
<1> HIDE DEF rows
<1> QED
  BY <1>1, <1>4, <1>5 DEF IsList, rows, g

(* The total of a participant is set.                                      *)
LEMMA ScoreSet ==
  ASSUME NEW score, AreTotals(score), NEW p \in Nat, NEW points \in Nat
  PROVE  AreTotals([q \in DOMAIN score \union {p} |-> IF q = p THEN points ELSE score[q]])
<1>1. IsFiniteSet(DOMAIN score \union {p})
  BY FS_AddElement DEF AreTotals
<1> QED
  BY <1>1 DEF AreTotals

(* The total of a participant is taken away.                               *)
LEMMA ScoreGone ==
  ASSUME NEW score, AreTotals(score), NEW p
  PROVE  AreTotals([q \in DOMAIN score \ {p} |-> score[q]])
<1>1. IsFiniteSet(DOMAIN score \ {p})
  BY FS_Subset DEF AreTotals
<1> QED
  BY <1>1 DEF AreTotals

(* A blank row makes no duplicate.                                         *)
LEMMA BlankIsNoDuplicate ==
  ASSUME NEW rows \in Seq(Row), NEW i \in DOMAIN rows
  PROVE  /\ InsertAt(rows, i, Blank) \in Seq(Row)
         /\ Distinct(rows) => Distinct(InsertAt(rows, i, Blank))
<1> DEFINE new == InsertAt(rows, i, Blank)
           n == Len(rows)
           was(k) == IF k < i THEN k ELSE k - 1
<1>1. n \in Nat /\ DOMAIN rows = 1 .. n /\ i \in 1 .. n + 1
  BY LenProperties
<1>2. Blank \in Row /\ Blank.key = NoKey
  BY DEF Blank, Row
<1>3. InsertedAt(new, rows, i, Blank, Row)
  BY <1>1, <1>2, InsertedIs
<1> HIDE DEF new
<1>4. new \in Seq(Row) /\ DOMAIN new = 1 .. n + 1
  BY <1>3, LenProperties DEF InsertedAt
<1>5. ASSUME NEW k \in DOMAIN new, k # i
      PROVE  was(k) \in DOMAIN rows /\ new[k] = rows[was(k)]
  BY <1>1, <1>3, <1>4, <1>5 DEF InsertedAt
<1>6. new[i] = Blank
  BY <1>1, <1>3 DEF InsertedAt
<1>7. ASSUME Distinct(rows), NEW k \in DOMAIN new, NEW m \in DOMAIN new, k # m, new[k].key = new[m].key
      PROVE  new[k].key = NoKey
  <2>1. CASE k = i \/ m = i
    BY <1>2, <1>6, <1>7, <2>1
  <2>2. CASE k # i /\ m # i
    <3>1. was(k) # was(m)
      BY <1>1, <1>4, <1>7, <2>2
    <3>2. /\ was(k) \in DOMAIN rows /\ new[k] = rows[was(k)]
          /\ was(m) \in DOMAIN rows /\ new[m] = rows[was(m)]
      BY <1>5, <2>2
    <3> HIDE DEF was
    <3> QED BY <1>7, <3>1, <3>2 DEF Distinct
  <2> QED BY <2>1, <2>2
<1> QED
  BY <1>4, <1>7 DEF Distinct, new

-----------------------------------------------------------------------------
(* The invariant holds at first.                                           *)
LEMMA InvInit == Init => Inv
<1> SUFFICES ASSUME Init PROVE Inv
  OBVIOUS
<1>1. sheet = << >> /\ scores = << >> /\ due = << >> /\ job = Idle /\ sheet \in Seq(Row)
  BY DEF Init
<1>2. DOMAIN << >> = {}
  OBVIOUS
<1>3. AreTotals(scores) /\ DOMAIN scores \subseteq Participant
  BY <1>1, <1>2, FS_EmptySet DEF AreTotals
<1>4. IsList(due)
  BY <1>1, <1>2 DEF IsList
<1>5. NoDuplicates
  BY <1>1, <1>2 DEF NoDuplicates, Duplicated
<1> QED
  BY <1>1, <1>3, <1>4, <1>5 DEF Inv

(* What every reading and every call leaves alone.                         *)
Targets == <<scores, due>>

(* Reading and planning keeps the invariant.                               *)
LEMMA ReadKeeps == ASSUME Inv, Read PROVE Inv'
<1>1. /\ sheet' = sheet /\ scores' = scores /\ due' = due /\ sheet \in Seq(Row) /\ IsList(due)
  BY DEF Inv, Read
<1>2. job' = Idle \/ (~Duplicated(sheet) /\ job' = Plan(due))
  BY DEF Read
<1>3. job' # Idle => Fits(sheet', job')
  BY <1>1, <1>2, PlanFits
<1> QED BY <1>1, <1>3 DEF Inv, NoDuplicates

(* What holds while a replacement is under way.                            *)
LEMMA UnderWay ==
  ASSUME Inv, job.at # "idle"
  PROVE  sheet \in Seq(Row) /\ job # Idle /\ Fits(sheet, job)
  BY DEF Inv, Idle

(* So does skipping a call that has nothing to do,                         *)
LEMMA SkipKeeps == ASSUME Inv, SkipCall PROVE Inv'
<1>1. job.at \in Call /\ Empty /\ sheet' = sheet /\ UNCHANGED Targets /\ job' = Staged(job)
  BY DEF SkipCall, Staged, Targets
<1>2. Fits(sheet, Staged(job))
  BY <1>1, UnderWay, SkipFits DEF Call
<1> QED BY <1>1, <1>2 DEF Inv, NoDuplicates, Targets

(* and working out the moves,                                              *)
LEMMA ReorderKeeps == ASSUME Inv, Reorder PROVE Inv'
<1>1. /\ job.at = "reorder" /\ sheet' = sheet /\ UNCHANGED Targets
      /\ \/ job' = Sorting(job, Moves(sheet, Order(job.rows)))
         \/ Stays(job) /\ job' = Sorted(job)
  BY DEF Reorder, Sorting, Sorted, Stays, Targets
<1>2. sheet \in Seq(Row) /\ Fits(sheet, job)
  BY <1>1, UnderWay
<1>3. Fits(sheet, job')
  BY <1>1, <1>2, SortingFits, SortedFits
<1> QED BY <1>1, <1>3 DEF Inv, NoDuplicates, Targets

(* A call fits the plan it leads to, and when it is repeated the plan it   *)
(* leaves, unless it is a deletion.                                        *)
LEMMA CallFits ==
  ASSUME Inv, Calling
  PROVE  /\ Effect \in Seq(Row) /\ Fits(Effect, Staged(job))
         /\ job.at \in LostAnswers \ {"delete"} => Fits(Effect, Dirty(job))
<1>1. job.at \in Call /\ ~Empty /\ sheet \in Seq(Row) /\ Fits(sheet, job)
  BY UnderWay DEF Calling, Call
<1>2. CASE job.at = "update"
  <2>1. Effect = Written(sheet, job.updates)
    BY <1>2 DEF Effect
  <2> QED BY <1>1, <1>2, <2>1, UpdateFits
<1>3. CASE job.at = "append"
  <2>1. Effect = Appended(sheet, job.inserts) /\ job.inserts # << >>
    BY <1>1, <1>3 DEF Effect, Empty
  <2> QED BY <1>1, <1>3, <2>1, AppendFits
<1>4. CASE job.at = "delete"
  <2>1. Effect = Deleted(sheet, Descending(job.deletes)) /\ job.deletes # {}
    BY <1>1, <1>4 DEF Effect, Empty
  <2> QED BY <1>1, <1>4, <2>1, DeleteFits
<1>5. CASE job.at = "move"
  <2>1. Effect = Moved(sheet, job.moves)
    BY <1>5 DEF Effect
  <2> QED BY <1>1, <1>5, <2>1, MoveFits
<1> QED BY <1>1, <1>2, <1>3, <1>4, <1>5 DEF Call

(* So a call keeps the invariant, answered or not, repeated or given up.   *)
LEMMA CallKeeps ==
  ASSUME Inv, Calling, sheet' = Effect, UNCHANGED Targets,
         \/ job' = Staged(job)
         \/ job.at \in LostAnswers \ {"delete"} /\ job' \in {Dirty(job), Idle}
  PROVE  Inv'
<1>1. /\ Effect \in Seq(Row) /\ Fits(Effect, Staged(job))
      /\ job.at \in LostAnswers \ {"delete"} => Fits(Effect, Dirty(job))
  BY CallFits
<1>2. sheet' \in Seq(Row) /\ (job' # Idle => Fits(sheet', job'))
  BY <1>1
<1>3. "append" \notin LostAnswers => ~Duplicated(Effect)
  <2>1. Single(Effect, Staged(job))
    BY <1>1 DEF Fits
  <2> QED BY <2>1, DuplicatedIs DEF Single
<1> QED BY <1>2, <1>3 DEF Inv, NoDuplicates, Targets

(* and so every step, where no delete is repeated.                         *)
LEMMA InvNext ==
  ASSUME "delete" \notin LostAnswers PROVE Inv /\ [Next]_vars => Inv'
<1> SUFFICES ASSUME Inv, [Next]_vars PROVE Inv'
  OBVIOUS
<1>1. ASSUME Read PROVE Inv'
  BY <1>1, ReadKeeps
<1>2. ASSUME SkipCall PROVE Inv'
  BY <1>2, SkipKeeps
<1>3. ASSUME Reorder PROVE Inv'
  BY <1>3, ReorderKeeps
<1>4. ASSUME Answered PROVE Inv'
  <2>1. Calling /\ sheet' = Effect /\ UNCHANGED Targets /\ job' = Staged(job)
    BY <1>4 DEF Answered, Staged, Targets
  <2> QED BY <2>1, CallKeeps
<1>5. ASSUME Refused PROVE Inv'
  <2>1. Calling /\ sheet' = sheet /\ UNCHANGED Targets /\ job' \in {Dirty(job), Idle}
    BY <1>5 DEF Refused, RetryOrRaise, Dirty, Targets
  <2>2. Fits(sheet, Dirty(job))
    BY <2>1, UnderWay, RefusedFits DEF Calling, Call
  <2> QED BY <2>1, <2>2 DEF Inv, NoDuplicates, Targets
<1>6. ASSUME AnswerLost PROVE Inv'
  <2>1. /\ Calling /\ sheet' = Effect /\ UNCHANGED Targets
        /\ job.at \in LostAnswers /\ job' \in {Dirty(job), Idle}
    BY <1>6 DEF AnswerLost, RetryOrRaise, Dirty, Targets
  <2> QED BY <2>1, CallKeeps
<1>7. ASSUME Verify \/ Crash PROVE Inv'
  <2>1. sheet' = sheet /\ UNCHANGED Targets /\ job' = Idle
    BY <1>7 DEF Verify, Crash, Targets
  <2> QED BY <2>1 DEF Inv, NoDuplicates, Targets
<1>8. ASSUME NEW p \in Participant, Unscore(p) PROVE Inv'
  <2> DEFINE new == [q \in DOMAIN scores \ {p} |-> scores[q]]
  <2>1. sheet' = sheet /\ job' = job /\ scores' = new /\ due' = Rows(Ranking(new))
    BY <1>8 DEF Unscore, Scored
  <2>2. AreTotals(new) /\ DOMAIN new \subseteq Participant
    BY ScoreGone DEF Inv
  <2> HIDE DEF new
  <2>3. IsList(Rows(Ranking(new)))
    BY <2>2, RankingIsList
  <2> QED BY <2>1, <2>2, <2>3 DEF Inv, NoDuplicates
<1>9. ASSUME NEW p \in Participant, NEW points \in Score, Rescore(p, points) PROVE Inv'
  <2> DEFINE new == [q \in DOMAIN scores \union {p} |-> IF q = p THEN points ELSE scores[q]]
  <2>1. sheet' = sheet /\ job' = job /\ scores' = new /\ due' = Rows(Ranking(new))
    BY <1>9 DEF Rescore, Scored
  <2>2. AreTotals(new) /\ DOMAIN new \subseteq Participant
    <3>1. p \in Nat /\ points \in Nat /\ AreTotals(scores) /\ DOMAIN scores \subseteq Participant
      BY ParticipantAssumption DEF Inv
    <3>2. AreTotals(new)
      BY <3>1, ScoreSet
    <3> QED BY <3>1, <3>2
  <2> HIDE DEF new
  <2>3. IsList(Rows(Ranking(new)))
    BY <2>2, RankingIsList
  <2> QED BY <2>1, <2>2, <2>3 DEF Inv, NoDuplicates
<1>10. ASSUME NEW i \in DOMAIN sheet, InsertBlank(i) PROVE Inv'
  <2>1. job = Idle /\ job' = job /\ UNCHANGED Targets /\ sheet' = InsertAt(sheet, i, Blank)
    BY <1>10 DEF InsertBlank, Targets
  <2>2. /\ InsertAt(sheet, i, Blank) \in Seq(Row)
        /\ ~Duplicated(sheet) => ~Duplicated(InsertAt(sheet, i, Blank))
    BY BlankIsNoDuplicate, DuplicatedIs DEF Inv
  <2> QED BY <2>1, <2>2 DEF Inv, NoDuplicates, Targets
<1>11. ASSUME UNCHANGED vars PROVE Inv'
  BY <1>11 DEF vars, Inv, NoDuplicates
<1> QED
  BY <1>1, <1>2, <1>3, <1>4, <1>5, <1>6, <1>7, <1>8, <1>9, <1>10, <1>11 DEF Next, Progress

(* The replacement that is under way always fits the sheet it works on,    *)
(* and without repeated appends no participant is there twice.             *)
THEOREM InvAlways == ASSUME "delete" \notin LostAnswers PROVE Spec => []Inv
  BY InvInit, InvNext, PTL DEF Spec

(* No participant has two rows in the sheet Ranking                        *)
(* (RankingRepository.persist), which every later run would refuse, as     *)
(* long as no append and no delete is repeated after a lost answer.        *)
THEOREM NeverTwice ==
  ASSUME "append" \notin LostAnswers, "delete" \notin LostAnswers PROVE Spec => []NoDuplicates
<1>1. Inv => NoDuplicates
  BY DEF Inv
<1> QED BY <1>1, InvAlways, PTL

(* A run of persist whose calls were all answered finds the sheet as       *)
(* wanted when it verifies it (_verify_rows): the moves of reorder_rows    *)
(* have put every row in its place, however many rows, blank rows and rows *)
(* left by interrupted runs there are, as long as no delete is repeated.   *)
THEOREM CleanRunsEndRight ==
  ASSUME "delete" \notin LostAnswers PROVE Spec => []CleanRunsVerify
<1>1. Inv => CleanRunsVerify
  <2> SUFFICES ASSUME Inv, job.at = "verify", job.clean PROVE Filled(sheet) = job.rows
    BY DEF CleanRunsVerify
  <2>1. sheet \in Seq(Row) /\ Fits(sheet, job)
    BY UnderWay
  <2>2. IsList(job.rows) /\ Right(sheet, job.rows) /\ Order(sheet) = Order(job.rows)
    BY <2>1 DEF Fits, Shaped, ToCorrect, ToSort
  <2> QED BY <2>1, <2>2, FilledRight
<1> QED BY <1>1, InvAlways, PTL
=============================================================================
