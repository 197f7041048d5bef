------------------------------ MODULE Views_proofs ------------------------------
(***************************************************************************)
(* The levels of the follow-up add-on, for histories of any length, and    *)
(* the writers of "Seguimiento individual", for any number of people,      *)
(* sessions, writers, edits, deaths and lost answers.                      *)
(***************************************************************************)
EXTENDS Views, Lists_lemmas

(* One spoke at least as often as the other, session by session.           *)
AtLeast(more, less) ==
  DOMAIN less = DOMAIN more /\ \A k \in DOMAIN less : less[k] => more[k]

(* Who speaks in more sessions has the greater count. *)
LEMMA TimesOfMore ==
  ASSUME NEW less \in Seq(BOOLEAN), NEW more \in Seq(BOOLEAN), AtLeast(more, less)
  PROVE  Times(less) \in Nat /\ Times(more) \in Nat /\ Times(less) <= Times(more)
<1> DEFINE L == {k \in DOMAIN less : less[k]}
           M == {k \in DOMAIN more : more[k]}
<1>1. L \subseteq M /\ M \subseteq 1 .. Len(more)
  BY DEF AtLeast
<1>2. IsFiniteSet(1 .. Len(more))
  BY LenProperties, FS_Interval
<1>3. IsFiniteSet(M)
  BY <1>1, <1>2, FS_Subset
<1>4. IsFiniteSet(L) /\ Cardinality(L) <= Cardinality(M)
  BY <1>1, <1>3, FS_Subset
<1>5. Cardinality(L) \in Nat /\ Cardinality(M) \in Nat
  BY <1>3, <1>4, FS_CardinalityType
<1> QED
  BY <1>4, <1>5 DEF Times

(* The same of the sessions in the window. *)
LEMMA RecentOfMore ==
  ASSUME NEW less \in Seq(BOOLEAN), NEW more \in Seq(BOOLEAN), AtLeast(more, less)
  PROVE  /\ Recent(less) \in Seq(BOOLEAN) /\ Recent(more) \in Seq(BOOLEAN)
         /\ AtLeast(Recent(more), Recent(less))
<1>1. Len(less) = Len(more) /\ Len(less) \in Nat
  BY LenProperties DEF AtLeast
<1>2. CASE Len(less) <= Window
  BY <1>1, <1>2 DEF Recent
<1>3. CASE Len(less) > Window
  <2> DEFINE m == Len(less) - Window + 1
             n == Len(less)
  <2>1. m \in 1 .. n + 1 /\ n \in Nat /\ m \in Nat
    BY <1>1, <1>3 DEF Window
  <2>2. Recent(less) = SubSeq(less, m, n) /\ Recent(more) = SubSeq(more, m, n)
    BY <1>1, <1>3 DEF Recent, Window
  <2>3. /\ SubSeq(less, m, n) \in Seq(BOOLEAN) /\ Len(SubSeq(less, m, n)) = Window
        /\ \A i \in 1 .. Window : SubSeq(less, m, n)[i] = less[m + i - 1]
    BY <1>1, <1>3, <2>1 DEF Window
  <2>4. /\ SubSeq(more, m, n) \in Seq(BOOLEAN) /\ Len(SubSeq(more, m, n)) = Window
        /\ \A i \in 1 .. Window : SubSeq(more, m, n)[i] = more[m + i - 1]
    BY <1>1, <1>3, <2>1 DEF Window
  <2>5. \A i \in 1 .. Window : m + i - 1 \in DOMAIN less
    BY <1>1, <1>3 DEF Window
  <2> QED
    BY <2>2, <2>3, <2>4, <2>5 DEF AtLeast
<1> QED
  BY <1>1, <1>2, <1>3 DEF Window

Worse == [CRITICAL |-> 0, OBSERVE |-> 1, NORMAL |-> 2]

(* Higher counts never give a worse level. *)
LEMMA ClassifyOfMore ==
  ASSUME NEW sessions \in Nat, sessions >= Window,
         NEW t \in Nat, NEW u \in Nat, t <= u, NEW q \in Nat, NEW r \in Nat, q <= r
  PROVE  /\ Classify(sessions, t, q) \in DOMAIN Worse /\ Classify(sessions, u, r) \in DOMAIN Worse
         /\ Worse[Classify(sessions, t, q)] <= Worse[Classify(sessions, u, r)]
  BY DEF Classify, Worse, Window

(* _classify weighs a window of four sessions and the whole history; still *)
(* whoever has spoken in more of the same sessions, however many there     *)
(* are, never has a worse level, nor one place further up in the sheet.    *)
THEOREM SpeakingMoreIsNoWorse ==
  ASSUME NEW interval, NEW less \in Seq(BOOLEAN), NEW more \in Seq(BOOLEAN), AtLeast(more, less)
  PROVE  Urgency(interval, Level(less)) <= Urgency(interval, Level(more))
<1>1. Len(less) = Len(more) /\ Len(less) \in Nat
  BY LenProperties DEF AtLeast
<1>2. CASE Len(less) < Window
  BY <1>1, <1>2 DEF Level, Urgency
<1>3. CASE Len(less) >= Window
  <2>1. /\ Times(less) \in Nat /\ Times(more) \in Nat /\ Times(less) <= Times(more)
        /\ Times(Recent(less)) \in Nat /\ Times(Recent(more)) \in Nat
        /\ Times(Recent(less)) <= Times(Recent(more))
    BY TimesOfMore, RecentOfMore
  <2>2. /\ Level(less) = Classify(Len(less), Times(less), Times(Recent(less)))
        /\ Level(more) = Classify(Len(less), Times(more), Times(Recent(more)))
    BY <1>1, <1>3 DEF Level, Window
  <2>3. /\ Level(less) \in DOMAIN Worse /\ Level(more) \in DOMAIN Worse
        /\ Worse[Level(less)] <= Worse[Level(more)]
    BY <1>1, <1>3, <2>1, <2>2, ClassifyOfMore
  <2> QED
    BY <2>3 DEF Worse, Urgency
<1> QED
  BY <1>1, <1>2, <1>3 DEF Window
-----------------------------------------------------------------------------

(* There is a level from the session that fills the window on. *)
LEMMA LevelIs ==
  ASSUME NEW spoke \in Seq(BOOLEAN)
  PROVE  /\ Len(spoke) < Window => Level(spoke) = "none"
         /\ Len(spoke) >= Window => Level(spoke) # "none"
<1>1. Len(spoke) \in Nat
  BY LenProperties
<1>2. AtLeast(spoke, spoke)
  BY DEF AtLeast
<1>3. /\ Times(spoke) \in Nat
      /\ Recent(spoke) \in Seq(BOOLEAN) /\ AtLeast(Recent(spoke), Recent(spoke))
  BY <1>2, TimesOfMore, RecentOfMore
<1>4. Times(Recent(spoke)) \in Nat
  BY <1>3, TimesOfMore
<1>5. Len(spoke) >= Window => Classify(Len(spoke), Times(spoke), Times(Recent(spoke))) \in DOMAIN Worse
  BY <1>1, <1>3, <1>4, ClassifyOfMore
<1>6. "none" \notin DOMAIN Worse
  BY DEF Worse
<1> QED
  BY <1>1, <1>5, <1>6 DEF Level, Window

LevelAt(spoke, k) == Level(SubSeq(spoke, 1, k))

(* The same of the level after the first k sessions. *)
LEMMA LevelAtIs ==
  ASSUME NEW spoke \in Seq(BOOLEAN), NEW k \in 0 .. Len(spoke)
  PROVE  LevelAt(spoke, k) = "none" <=> k < Window
<1>1. Len(spoke) \in Nat
  BY LenProperties
<1> DEFINE upto == SubSeq(spoke, 1, k)
<1>2. upto \in Seq(BOOLEAN) /\ Len(upto) = k /\ k \in Nat
  BY <1>1
<1> HIDE DEF upto
<1>3. (k < Window => Level(upto) = "none") /\ (k >= Window => Level(upto) # "none")
  BY <1>2, LevelIs
<1>4. k < Window \/ k >= Window
  BY <1>2 DEF Window
<1> QED
  BY <1>2, <1>3, <1>4 DEF LevelAt, Window, upto

(* What _since says of a level that began in session at and still holds    *)
(* in session k.                                                           *)
BeganAt(spoke, at, k) ==
  /\ at \in Window .. k
  /\ \A i \in at .. k : LevelAt(spoke, i) = LevelAt(spoke, k)
  /\ LevelAt(spoke, at - 1) # LevelAt(spoke, at)

(* The pass of _since through a history is one recursion over it.          *)
Passing(spoke, k, before) ==
  IF k < Window THEN [level |-> "none", at |-> 0]
  ELSE IF LevelAt(spoke, k) = before.level THEN before
  ELSE [level |-> LevelAt(spoke, k), at |-> k]

(* The fold of since_of is a computation session by session. *)
LEMMA SincePasses ==
  ASSUME NEW spoke \in Seq(BOOLEAN)
  PROVE  \E passed : /\ \A k \in 0 .. Len(spoke) : passed[k] = Passing(spoke, k, passed[k - 1])
                     /\ Since(spoke) = passed[Len(spoke)].at
<1> DEFINE n == Len(spoke)
           body(f, k) == IF k < Window THEN [level |-> "none", at |-> 0]
                         ELSE IF Level(SubSeq(spoke, 1, k)) = f[k - 1].level THEN f[k - 1]
                         ELSE [level |-> Level(SubSeq(spoke, 1, k)), at |-> k]
           V == [level : {"none"} \union {LevelAt(spoke, k) : k \in 0 .. n}, at : 0 .. n]
           base == [level |-> "none", at |-> 0]
           step == [pair \in (1 .. n) \X V |-> Passing(spoke, pair[1], pair[2])]
<1>1. n \in Nat
  BY LenProperties
<1>2. base \in V
  BY <1>1
<1>3. step \in [(1 .. n) \X V -> V]
  <2> SUFFICES ASSUME NEW k \in 1 .. n, NEW v \in V PROVE Passing(spoke, k, v) \in V
    OBVIOUS
  <2>1. k \in 0 .. n /\ LevelAt(spoke, k) \in {"none"} \union {LevelAt(spoke, j) : j \in 0 .. n}
    BY <1>1
  <2> QED
    BY <1>2, <2>1 DEF Passing
<1>4. \E f \in [0 .. n -> V] : Computes(f, n, base, step)
  <2> HIDE DEF n, V, base, step
  <2> QED BY <1>1, <1>2, <1>3, Recursion
<1>5. PICK f \in [0 .. n -> V] : Computes(f, n, base, step)
  BY <1>4
<1>6. \A k \in 0 .. n : f[k] = body(f, k)
  <2> SUFFICES ASSUME NEW k \in 0 .. n PROVE f[k] = body(f, k)
    OBVIOUS
  <2>1. CASE k = 0
    <3>1. f[0] = base
      BY <1>5 DEF Computes
    <3>2. body(f, 0) = base
      BY DEF Window
    <3> QED BY <2>1, <3>1, <3>2
  <2>2. CASE k # 0
    <3>1. k \in 1 .. n /\ k - 1 \in 0 .. n
      BY <1>1, <2>2
    <3>2. f[k] = step[<<k, f[k - 1]>>] /\ f[k - 1] \in V
      <4> HIDE DEF n, V, base, step
      <4> QED BY <1>5, <3>1 DEF Computes
    <3>3. f[k] = Passing(spoke, k, f[k - 1])
      <4> HIDE DEF n, V
      <4> QED BY <3>1, <3>2
    <3> HIDE DEF n, V
    <3> QED
      BY <3>3 DEF Passing, LevelAt
  <2> QED BY <2>1, <2>2
<1> DEFINE IsPassed(g) == g = [k \in 0 .. n |-> body(g, k)]
           passed == CHOOSE g : IsPassed(g)
<1>7. IsPassed(f)
  <2> HIDE DEF V, n, base, step
  <2> QED BY <1>6
<1>8. IsPassed(passed)
  <2> HIDE DEF IsPassed
  <2> QED BY <1>7
<1>9. Since(spoke) = passed[n].at
  BY DEF Since
<1>10. \A k \in 0 .. n : passed[k] = body(passed, k)
  <2> HIDE DEF n, body, passed
  <2> QED BY <1>8
<1>11. \A k \in 0 .. n : passed[k] = Passing(spoke, k, passed[k - 1])
  <2> HIDE DEF n, passed
  <2> QED BY <1>10 DEF Passing, LevelAt
<1> HIDE DEF passed
<1> QED
  BY <1>9, <1>11
(* _since for histories of any length: the present level has held from the *)
(* session it names on, and the level just before that was another one.    *)
THEOREM SinceIsWhenTheLevelBegan ==
  ASSUME NEW spoke \in Seq(BOOLEAN), Len(spoke) >= Window
  PROVE  BeganAt(spoke, Since(spoke), Len(spoke))
<1> DEFINE n == Len(spoke)
<1>1. n \in Nat
  BY LenProperties
<1>2. PICK passed : /\ \A k \in 0 .. n : passed[k] = Passing(spoke, k, passed[k - 1])
                    /\ Since(spoke) = passed[n].at
  BY SincePasses
<1> DEFINE Right(k) == /\ passed[k].level = LevelAt(spoke, k)
                       /\ k >= Window => BeganAt(spoke, passed[k].at, k)
           T == {k \in 0 .. n : Right(k)}
<1>3. 0 \in T
  <2>0. 0 \in 0 .. n
    BY <1>1
  <2>1. passed[0].level = "none"
    <3>1. passed[0] = Passing(spoke, 0, passed[0 - 1])
      <4> HIDE DEF n
      <4> QED BY <1>2, <2>0
    <3> QED BY <3>1 DEF Passing, Window
  <2>2. LevelAt(spoke, 0) = "none"
    BY <1>1, LevelAtIs DEF Window
  <2> QED BY <1>1, <2>1, <2>2 DEF Window
<1>4. ASSUME NEW j \in 0 .. n - 1, j \in T PROVE j + 1 \in T
  <2> DEFINE k == j + 1
  <2>1. k \in 0 .. n /\ k - 1 = j /\ k \in Nat /\ j \in Nat
    BY <1>1
  <2>2. passed[k] = Passing(spoke, k, passed[j])
    BY <1>2, <2>1
  <2>3. Right(j)
    BY <1>4
  <2> HIDE DEF k, n
  <2>4. CASE k < Window
    BY <2>1, <2>2, <2>4, LevelAtIs DEF Passing, Window, n
  <2>5. CASE k >= Window /\ LevelAt(spoke, k) = LevelAt(spoke, j)
    <3>1. passed[k] = passed[j]
      BY <2>1, <2>2, <2>3, <2>5 DEF Passing, Window
    <3>2. j >= Window
      BY <2>1, <2>5, LevelAtIs DEF Window, n
    <3>3. BeganAt(spoke, passed[k].at, k)
      <4> DEFINE at == passed[j].at
      <4>1. BeganAt(spoke, at, j)
        BY <2>3, <3>2
      <4>2. ASSUME NEW i \in at .. k, at \in Window .. j PROVE i = k \/ i \in at .. j
        BY <2>1, <4>2 DEF Window
      <4> HIDE DEF at
      <4>3. at \in Window .. k
        BY <2>1, <4>1 DEF BeganAt, Window
      <4>4. \A i \in at .. k : LevelAt(spoke, i) = LevelAt(spoke, k)
        BY <2>5, <4>1, <4>2 DEF BeganAt
      <4>5. BeganAt(spoke, at, k)
        BY <4>1, <4>3, <4>4 DEF BeganAt
      <4> QED BY <3>1, <4>5 DEF at
    <3> QED BY <2>1, <2>3, <2>5, <3>1, <3>3
  <2>6. CASE k >= Window /\ LevelAt(spoke, k) # LevelAt(spoke, j)
    <3>1. passed[k] = [level |-> LevelAt(spoke, k), at |-> k]
      BY <2>1, <2>2, <2>3, <2>6 DEF Passing, Window
    <3>2. BeganAt(spoke, k, k)
      BY <2>1, <2>6 DEF BeganAt, Window
    <3> QED BY <2>1, <3>1, <3>2
  <2> QED
    BY <2>1, <2>4, <2>5, <2>6 DEF Window
<1>5. n \in T
  <2> HIDE DEF T, n
  <2>1. 0 .. n \subseteq T
    BY <1>1, <1>3, <1>4, InductionUpTo
  <2> QED BY <1>1, <2>1
<1> QED
  BY <1>2, <1>5

(* since_of returns the number of a session, or 0. *)
LEMMA SinceIsNat ==
  ASSUME NEW spoke \in Seq(BOOLEAN)
  PROVE  Since(spoke) \in Nat
<1>1. Len(spoke) \in Nat
  BY LenProperties
<1>2. CASE Len(spoke) >= Window
  BY <1>1, <1>2, SinceIsWhenTheLevelBegan DEF BeganAt, Window
<1>3. CASE Len(spoke) < Window
  <2>1. PICK passed : /\ \A k \in 0 .. Len(spoke) : passed[k] = Passing(spoke, k, passed[k - 1])
                      /\ Since(spoke) = passed[Len(spoke)].at
    BY SincePasses
  <2>2. Len(spoke) \in 0 .. Len(spoke)
    BY <1>1
  <2>3. passed[Len(spoke)] = [level |-> "none", at |-> 0]
    BY <1>3, <2>1, <2>2 DEF Passing
  <2> QED BY <2>1, <2>3
<1> QED
  BY <1>1, <1>2, <1>3 DEF Window

(* The levels there are. *)
LEMMA LevelsAre ==
  ASSUME NEW spoke \in Seq(BOOLEAN)
  PROVE  Level(spoke) \in {"none", "CRITICAL", "OBSERVE", "NORMAL"}
<1>1. AtLeast(spoke, spoke) /\ Len(spoke) \in Nat
  BY LenProperties DEF AtLeast
<1>2. /\ Times(spoke) \in Nat
      /\ Recent(spoke) \in Seq(BOOLEAN) /\ AtLeast(Recent(spoke), Recent(spoke))
  BY <1>1, TimesOfMore, RecentOfMore
<1>3. Times(Recent(spoke)) \in Nat
  BY <1>2, TimesOfMore
<1>4. Len(spoke) >= Window => Classify(Len(spoke), Times(spoke), Times(Recent(spoke))) \in DOMAIN Worse
  BY <1>1, <1>2, <1>3, ClassifyOfMore
<1> QED
  BY <1>1, <1>4 DEF Level, Window, Worse

-----------------------------------------------------------------------------
(* What _entry looks at is a list of yes and no.                           *)
LEMMA HistoryIsList ==
  ASSUME NEW interval, NEW person, NEW speakers, Len(speakers) \in Nat, NEW tracked
  PROVE  History(interval, person, speakers, tracked) \in Seq(BOOLEAN)
<1> DEFINE n == Len(speakers)
           counts(s) == s \in tracked /\ EligibleIn(interval, s)
           body(f, s) ==
             IF s = 0 THEN << >>
             ELSE IF s \in tracked /\ EligibleIn(interval, s)
             THEN Append(f[s - 1], person \in speakers[s]) ELSE f[s - 1]
           V == Seq(BOOLEAN)
           next(s, list) == IF counts(s) THEN Append(list, person \in speakers[s]) ELSE list
           step == [pair \in (1 .. n) \X V |-> next(pair[1], pair[2])]
<1>1. n \in Nat /\ << >> \in V
  OBVIOUS
<1>2. step \in [(1 .. n) \X V -> V]
  <2> SUFFICES ASSUME NEW s \in 1 .. n, NEW list \in V PROVE next(s, list) \in V
    OBVIOUS
  <2>1. (person \in speakers[s]) \in BOOLEAN
    OBVIOUS
  <2> DEFINE b == person \in speakers[s]
  <2>2. b \in BOOLEAN
    BY <2>1
  <2> HIDE DEF b, counts
  <2>3. Append(list, b) \in Seq(BOOLEAN)
    BY <2>2, AppendProperties
  <2>4. next(s, list) = IF counts(s) THEN Append(list, b) ELSE list
    BY DEF b
  <2> HIDE DEF next
  <2>5. CASE counts(s)
    BY <2>3, <2>4, <2>5
  <2>6. CASE ~counts(s)
    BY <2>4, <2>6
  <2> QED
    BY <2>5, <2>6
<1>3. \E f \in [0 .. n -> V] : Computes(f, n, << >>, step)
  <2> HIDE DEF n, V, step
  <2> QED BY <1>1, <1>2, Recursion
<1>4. PICK f \in [0 .. n -> V] : Computes(f, n, << >>, step)
  BY <1>3
<1>5. \A s \in 0 .. n : f[s] = body(f, s)
  <2> SUFFICES ASSUME NEW s \in 0 .. n PROVE f[s] = body(f, s)
    OBVIOUS
  <2>1. CASE s = 0
    BY <1>4, <2>1 DEF Computes
  <2>2. CASE s # 0
    <3>1. s \in 1 .. n /\ s - 1 \in 0 .. n
      BY <1>1, <2>2
    <3>2. f[s] = step[<<s, f[s - 1]>>] /\ f[s - 1] \in V
      <4> HIDE DEF n, V, step
      <4> QED BY <1>4, <3>1 DEF Computes
    <3>3. f[s] = next(s, f[s - 1])
      <4> HIDE DEF n, V, next
      <4> QED BY <3>1, <3>2
    <3> HIDE DEF n, V
    <3> QED
      BY <2>2, <3>3
  <2> QED BY <2>1, <2>2
<1> DEFINE IsCounted(g) == g = [s \in 0 .. n |-> body(g, s)]
           counted == CHOOSE g : IsCounted(g)
<1>6. IsCounted(f)
  <2> HIDE DEF V, n, step
  <2> QED BY <1>5
<1>7. IsCounted(counted)
  <2> HIDE DEF IsCounted
  <2> QED BY <1>6
<1>8. History(interval, person, speakers, tracked) = counted[n]
  BY DEF History
<1>9. \A s \in 0 .. n : counted[s] = body(counted, s)
  <2> HIDE DEF n, body, counted
  <2> QED BY <1>7
<1> HIDE DEF counted
<1> DEFINE T == {s \in 0 .. n : counted[s] \in V}
<1>10. 0 \in T
  <2>1. 0 \in 0 .. n
    BY <1>1
  <2>2. counted[0] = << >>
    <3> HIDE DEF n
    <3> QED BY <1>9, <2>1
  <2> QED BY <1>1, <2>1, <2>2
<1>11. ASSUME NEW j \in 0 .. n - 1, j \in T PROVE j + 1 \in T
  <2>1. j + 1 \in 1 .. n /\ j + 1 \in 0 .. n /\ j + 1 # 0 /\ (j + 1) - 1 = j
    BY <1>1
  <2>2. counted[j + 1] = next(j + 1, counted[j])
    <3> HIDE DEF n
    <3> QED BY <1>9, <2>1
  <2>3. <<j + 1, counted[j]>> \in (1 .. n) \X V
    BY <1>11, <2>1
  <2>4. step[<<j + 1, counted[j]>>] = counted[j + 1]
    <3> HIDE DEF n, V, next
    <3> QED BY <2>2, <2>3
  <2>5. counted[j + 1] \in V
    <3> HIDE DEF n, V, step
    <3> QED BY <1>2, <2>3, <2>4
  <2> QED BY <2>1, <2>5
<1>12. 0 .. n \subseteq T
  <2> HIDE DEF T, n
  <2> QED BY <1>1, <1>10, <1>11, InductionUpTo
<1>13. n \in T
  <2>1. n \in 0 .. n
    BY <1>1
  <2> HIDE DEF T
  <2> QED BY <1>12, <2>1
<1> QED
  BY <1>8, <1>13

-----------------------------------------------------------------------------
Kinds == {"title", "counts", "legend", "headers", "participant", "case headers", "case"}
LevelNames == {"none", "CRITICAL", "OBSERVE", "NORMAL"}
Left == Kinds \X Nat \X Nat
Right == [is : {"empty", "headers", "entry"}, level : LevelNames, since : Nat, note : Nat]
SummaryKinds == {"headers", "counts", "attendance", "signal"}
Row == [left : Left, right : Right]
Refreshing == {"clear", "cleared", "whole", "cells", "report"}
Persisting == {"summary", "trim", "individual", "below", "shown"}
View == [cases : SUBSET Person, signalled : BOOLEAN, as_of : Nat]
RefreshJob == [at : Refreshing, values : Seq(Row), became : SUBSET Person]
PersistJob == [at : Persisting, view : View]

Types ==
  /\ heard \in Seq(SUBSET Person)
  /\ Enrolled \subseteq Person
  /\ sheet \in Seq(Row) /\ summary \in Seq(SummaryKinds)
  /\ job \in {Idle} \union RefreshJob \union PersistJob

(* What follow_up_values makes for those levels, and what the sheet is     *)
(* when it has been written.                                               *)
Shows(rows, levels) ==
  /\ IsFollowUp(rows)
  /\ \A i \in 1 .. 4, p \in Person : rows[i].left # RowFor(p)
  /\ \A p \in DOMAIN levels : HasRow(rows, p)
  /\ \A p \in DOMAIN levels : \A i \in Places(rows, p) : rows[i].right.level = levels[p]
Levels == [p \in Enrolled |-> LevelOf(p)]

(* The refresh at work writes the levels there are.                        *)
Refreshed ==
  job.at \in Refreshing =>
    /\ Shows(job.values, Levels)
    /\ job.at = "clear" => Len(job.values) < Len(sheet)
    /\ job.at = "cells" => IsFollowUp(sheet) /\ Len(sheet) = Len(job.values)
    /\ job.at = "report" => Shows(sheet, Levels)

(* Every note is about the participant in its row.                         *)
NotesRight(rows) ==
  \A i \in DOMAIN rows, p \in Person : rows[i].left = RowFor(p) => rows[i].right.note \in {NoNote, p}
Noted ==
  ~reordered => NotesRight(sheet) /\ (job.at \in Refreshing => NotesRight(job.values))

(* Everybody who was told of is shown as critical, or nobody is shown at   *)
(* all; while a refresh writes, as critical or not yet.                    *)
ShownCritical(rows, persons) ==
  \A p \in persons : \A i \in Places(rows, p) : rows[i].right.level = "CRITICAL"
AllOrNone(rows, persons) ==
  \A p \in persons, q \in Person : HasRow(rows, q) => HasRow(rows, p)
Known ==
  /\ told \subseteq Enrolled
  /\ ~torn => /\ ~twice
              /\ job.at \in Refreshing => job.became \intersect told = {}
              /\ job.at # "report" => ShownCritical(sheet, told)
              /\ job.at \notin {"cleared", "report"} => AllOrNone(sheet, told)

(* How far the operational view at work has been written.                  *)
Begins(rows, values) ==
  Len(rows) >= Len(values) /\ \A i \in DOMAIN values : rows[i].left = values[i]
Persisted ==
  /\ job.at = "trim" =>
       /\ Len(summary) > Len(SummaryOf(job.view))
       /\ SubSeq(summary, 1, Len(SummaryOf(job.view))) = SummaryOf(job.view)
  /\ job.at \in {"individual", "below", "shown"} => summary = SummaryOf(job.view)
  /\ job.at \in {"below", "shown"} => Begins(sheet, CasesOf(job.view))
  /\ job.at = "shown" => Len(sheet) = Len(CasesOf(job.view))

-----------------------------------------------------------------------------
USE ViewsAssumption

(* The people enrolled, and the critical ones among them, are finite *)
(* sets.                                                             *)
LEMMA EnrolledAre ==
  ASSUME Types
  PROVE  /\ IsFiniteSet(Enrolled) /\ Enrolled \subseteq Nat /\ Cardinality(Enrolled) \in Nat
         /\ Critical \subseteq Enrolled /\ Cardinality(Critical) \in Nat
<1>1. IsFiniteSet(Person) /\ Enrolled \in SUBSET Person /\ Critical \in SUBSET Person
  BY DEF Types, ViewsAssumption, Critical
<1>2. IsFiniteSet(Enrolled) /\ IsFiniteSet(Critical)
  BY <1>1, FS_Subset
<1> QED
  BY <1>1, <1>2, FS_CardinalityType DEF ViewsAssumption, Critical

(* What somebody said in the sessions is a list of yes and no. *)
LEMMA SpokeIsList ==
  ASSUME Types, NEW p
  PROVE  Spoke(p) \in Seq(BOOLEAN)
<1>1. Len(heard) \in Nat
  BY LenProperties DEF Types
<1> QED
  BY <1>1, HistoryIsList DEF Spoke

(* The level of somebody and the session it began in. *)
LEMMA EntriesAre ==
  ASSUME Types, NEW p
  PROVE  /\ LevelOf(p) \in LevelNames
         /\ EntrySince(enrollment[p], Spoke(p)) \in Nat
<1>1. Spoke(p) \in Seq(BOOLEAN)
  BY SpokeIsList
<1>2. Level(Spoke(p)) \in {"none", "CRITICAL", "OBSERVE", "NORMAL"} /\ Since(Spoke(p)) \in Nat
  BY <1>1, LevelsAre, SinceIsNat
<1> QED
  BY <1>2 DEF LevelOf, EntryLevel, EntrySince, LevelNames

(* The display order puts each of the enrolled in one place.               *)
LEMMA DisplayedIs ==
  ASSUME Types
  PROVE  /\ Displayed \in [1 .. Cardinality(Enrolled) -> Enrolled]
         /\ \A p \in Enrolled : \E k \in 1 .. Cardinality(Enrolled) : Displayed[k] = p
<1> DEFINE of(p) == Urgency(enrollment[p], LevelOf(p))
<1>1. ASSUME NEW p \in Enrolled PROVE of(p) \in 0 .. 4 /\ p \in Nat
  BY EntriesAre, EnrolledAre DEF Urgency, LevelNames
<1>2. \A p, q \in Enrolled : <<p, q>> \in Before <=> of(p) < of(q) \/ (of(p) = of(q) /\ p < q)
  BY DEF Before
<1> HIDE DEF of
<1>3. StrictOrder(Enrolled, Before)
  <2>1. \A x \in Enrolled : <<x, x>> \notin Before
    BY <1>1, <1>2
  <2>2. \A x, y \in Enrolled : x # y => <<x, y>> \in Before \/ <<y, x>> \in Before
    BY <1>1, <1>2
  <2>3. \A x, y, z \in Enrolled : <<x, y>> \in Before /\ <<y, z>> \in Before => <<x, z>> \in Before
    <3>1. \A a, b, c \in Nat : \A i, j, k \in 0 .. 4 :
            (i < j \/ (i = j /\ a < b)) /\ (j < k \/ (j = k /\ b < c)) => i < k \/ (i = k /\ a < c)
      OBVIOUS
    <3> SUFFICES ASSUME NEW x \in Enrolled, NEW y \in Enrolled, NEW z \in Enrolled,
                        <<x, y>> \in Before, <<y, z>> \in Before
                 PROVE  <<x, z>> \in Before
      OBVIOUS
    <3>2. of(x) \in 0 .. 4 /\ of(y) \in 0 .. 4 /\ of(z) \in 0 .. 4 /\ x \in Nat /\ y \in Nat /\ z \in Nat
      BY <1>1
    <3>3. (of(x) < of(y) \/ (of(x) = of(y) /\ x < y)) /\ (of(y) < of(z) \/ (of(y) = of(z) /\ y < z))
      BY <1>2
    <3>4. of(x) < of(z) \/ (of(x) = of(z) /\ x < z)
      BY <3>1, <3>2, <3>3
    <3> QED
      BY <1>2, <3>4
  <2> QED
    BY <2>1, <2>2, <2>3 DEF StrictOrder
<1>4. ListsInOrder(Displayed, Cardinality(Enrolled), Enrolled, Before)
  BY <1>3, EnrolledAre, OrderedList DEF Displayed
<1> QED
  BY <1>4 DEF ListsInOrder

(* The row of somebody is the last of the rows with their number. *)
LEMMA HasRowIs ==
  ASSUME NEW rows \in Seq(Row), NEW p
  PROVE  /\ Places(rows, p) \subseteq DOMAIN rows
         /\ HasRow(rows, p) => /\ Max(Places(rows, p)) \in Places(rows, p)
                               /\ Entry(rows, p) = rows[Max(Places(rows, p))].right
                               /\ rows[Max(Places(rows, p))] \in Row
<1>1. Len(rows) \in Nat /\ DOMAIN rows = 1 .. Len(rows)
  BY LenProperties
<1>2. Places(rows, p) \subseteq DOMAIN rows
  BY <1>1 DEF Places
<1>3. IsFiniteSet(Places(rows, p)) /\ Places(rows, p) \subseteq Int
  BY <1>2, PlacesInSeq
<1>4. HasRow(rows, p) => Max(Places(rows, p)) \in Places(rows, p)
  BY <1>3, MaxIs DEF HasRow
<1> QED
  BY <1>2, <1>4, ElementOfSeq DEF Entry

(* The sheet that a refresh wants shows everybody enrolled at their *)
(* level, with the note they had.                                   *)
LEMMA DesiredIs ==
  ASSUME Types
  PROVE  /\ Desired(sheet) \in Seq(Row)
         /\ Shows(Desired(sheet), Levels)
         /\ NotesRight(sheet) => NotesRight(Desired(sheet))
<1> DEFINE n == Cardinality(Enrolled)
           entry(p) ==
             [left |-> RowFor(p),
              right |-> [is |-> "entry", level |-> LevelOf(p),
                         since |-> EntrySince(enrollment[p], Spoke(p)), note |-> NoteOf(sheet, p)]]
           top == <<Line("title", 0), Line("counts", Cardinality(Critical)), Line("legend", 0), Header>>
           below == [k \in DOMAIN Displayed |-> entry(Displayed[k])]
           values == Desired(sheet)
<1>1. /\ n \in Nat /\ Displayed \in [1 .. n -> Enrolled]
      /\ \A p \in Enrolled : \E k \in 1 .. n : Displayed[k] = p
      /\ Enrolled \subseteq Nat /\ Enrolled \subseteq Person
  BY EnrolledAre, DisplayedIs DEF Types
<1>2. ASSUME NEW p \in Enrolled PROVE entry(p) \in Row
  <2>1. NoteOf(sheet, p) \in Nat
    <3>1. \A row \in Row : row.right.note \in Nat
      BY DEF Row, Right
    <3> QED BY <3>1, HasRowIs DEF NoteOf, NoNote, Types
  <2>2. RowFor(p) \in Left
    BY <1>1 DEF RowFor, Left, Kinds
  <2> QED
    BY <2>1, <2>2, EntriesAre DEF Row, Right
<1>3. top \in Seq(Row) /\ Len(top) = 4
  <2>1. Empty \in Right /\ [Empty EXCEPT !.is = "headers"] \in Right
    BY DEF Empty, Right, NoNote, LevelNames
  <2>2. \A what \in Nat : /\ Line("title", what) \in Row /\ Line("counts", what) \in Row
                           /\ Line("legend", what) \in Row
    BY <2>1 DEF Line, Row, Left, Kinds
  <2>3. Header \in Row
    BY <2>1 DEF Header, Row, Left, Kinds
  <2>4. Cardinality(Critical) \in Nat
    BY EnrolledAre
  <2> QED
    BY <2>2, <2>3, <2>4
<1> HIDE DEF entry, n
<1>4. below \in Seq(Row) /\ Len(below) = n /\ \A k \in 1 .. n : below[k] = entry(Displayed[k])
  <2>1. below \in [1 .. n -> Row]
    BY <1>1, <1>2
  <2> QED BY <1>1, <2>1
<1>5. values = top \o below
  BY DEF Desired, entry
<1> HIDE DEF below
<1>6. /\ values \in Seq(Row) /\ Len(values) = 4 + n
      /\ \A i \in 1 .. 4 : values[i] = top[i]
      /\ \A k \in 1 .. n : values[4 + k] = entry(Displayed[k])
  <2> HIDE DEF values, top
  <2>1. Joins(values, top, below, Row)
    BY <1>3, <1>4, <1>5, Joined
  <2> QED BY <1>3, <1>4, <2>1 DEF Joins
<1> HIDE DEF values
<1>7. IsFollowUp(values) /\ \A i \in 1 .. 4, p \in Person : values[i].left # RowFor(p)
  BY <1>1, <1>6 DEF IsFollowUp, RowFor, Line, Header
<1>8. ASSUME NEW i \in 5 .. Len(values)
      PROVE  \E k \in 1 .. n : i = 4 + k /\ values[i] = entry(Displayed[k])
  <2>1. i - 4 \in 1 .. n /\ i = 4 + (i - 4)
    BY <1>1, <1>6
  <2>2. values[4 + (i - 4)] = entry(Displayed[i - 4])
    BY <1>6, <2>1
  <2> QED BY <2>1, <2>2
<1>9. \A p, q : RowFor(p) = RowFor(q) => p = q
  BY DEF RowFor
<1>10. \A p \in Enrolled : HasRow(values, p)
  <2> SUFFICES ASSUME NEW p \in Enrolled PROVE \E i \in 5 .. Len(values) : values[i].left = RowFor(p)
    BY <1>7 DEF HasRow, Places
  <2>1. PICK k \in 1 .. n : Displayed[k] = p
    BY <1>1
  <2>2. 4 + k \in 5 .. Len(values)
    BY <1>1, <1>6
  <2>3. values[4 + k] = entry(p)
    BY <1>6, <2>1
  <2>4. entry(p).left = RowFor(p)
    BY DEF entry
  <2> QED BY <2>2, <2>3, <2>4
<1>11. ASSUME NEW p \in Enrolled, NEW i \in Places(values, p) PROVE values[i].right.level = LevelOf(p)
  <2>1. i \in 5 .. Len(values) /\ values[i].left = RowFor(p)
    BY <1>7 DEF Places
  <2>2. PICK k \in 1 .. n : values[i] = entry(Displayed[k])
    BY <1>8, <2>1
  <2>3. Displayed[k] = p
    BY <1>9, <2>1, <2>2 DEF entry
  <2> QED BY <2>2, <2>3 DEF entry
<1>12. Shows(values, Levels)
  BY <1>7, <1>10, <1>11 DEF Shows, Levels
<1>13. ASSUME NotesRight(sheet) PROVE NotesRight(values)
  <2> SUFFICES ASSUME NEW i \in DOMAIN values, NEW p \in Person, values[i].left = RowFor(p)
               PROVE  values[i].right.note \in {NoNote, p}
    BY DEF NotesRight
  <2>1. i \in 5 .. Len(values)
    BY <1>1, <1>6, <1>7
  <2>2. PICK k \in 1 .. n : values[i] = entry(Displayed[k])
    BY <1>8, <2>1
  <2>3. Displayed[k] = p
    BY <1>9, <2>2 DEF entry
  <2>4. NoteOf(sheet, p) \in {NoNote, p}
    <3>1. CASE HasRow(sheet, p)
      <4>1. /\ Max(Places(sheet, p)) \in Places(sheet, p)
            /\ Entry(sheet, p) = sheet[Max(Places(sheet, p))].right
        BY <3>1, HasRowIs DEF Types
      <4>2. Max(Places(sheet, p)) \in DOMAIN sheet /\ sheet[Max(Places(sheet, p))].left = RowFor(p)
        BY <4>1, HasRowIs DEF Places, Types
      <4> QED BY <1>13, <3>1, <4>1, <4>2 DEF NotesRight, NoteOf
    <3> QED BY <3>1 DEF NoteOf
  <2> QED BY <2>2, <2>3, <2>4 DEF entry
<1> QED
  BY <1>6, <1>12, <1>13 DEF values

-----------------------------------------------------------------------------
(* What the writers do to the rows.                                        *)
SameLevels(r, rows) ==
  /\ Len(r) = Len(rows)
  /\ IsFollowUp(r) <=> IsFollowUp(rows)
  /\ \A i \in DOMAIN rows : r[i].left = rows[i].left /\ r[i].right.level = rows[i].right.level

(* Two sheets that differ in notes alone show the same levels. *)
LEMMA SameLevelsShown ==
  ASSUME NEW rows \in Seq(Row), NEW r \in Seq(Row), SameLevels(r, rows)
  PROVE  /\ \A p : Places(r, p) = Places(rows, p)
         /\ \A levels : Shows(rows, levels) => Shows(r, levels)
         /\ \A persons : ShownCritical(rows, persons) => ShownCritical(r, persons)
         /\ \A persons : AllOrNone(rows, persons) => AllOrNone(r, persons)
<1>1. DOMAIN r = DOMAIN rows /\ DOMAIN rows = 1 .. Len(rows) /\ Len(rows) \in Nat
  BY LenProperties DEF SameLevels
<1>2. ASSUME NEW p PROVE Places(r, p) = Places(rows, p)
  <2>1. \A i \in 5 .. Len(rows) : i \in DOMAIN rows
    BY <1>1
  <2> QED BY <1>1, <2>1 DEF Places, SameLevels
<1>3. \A p : Places(rows, p) \subseteq DOMAIN rows /\ (HasRow(r, p) <=> HasRow(rows, p))
  BY <1>2, HasRowIs DEF HasRow
<1>4. ASSUME NEW levels, Shows(rows, levels) PROVE Shows(r, levels)
  <2>1. IsFollowUp(rows) /\ \A i \in 1 .. 4 : i \in DOMAIN rows
    BY <1>1, <1>4 DEF Shows, IsFollowUp
  <2>2. IsFollowUp(r) /\ \A i \in 1 .. 4, p \in Person : r[i].left # RowFor(p)
    BY <1>4, <2>1 DEF Shows, SameLevels
  <2>3. \A p \in DOMAIN levels : \A i \in Places(r, p) : r[i].right.level = levels[p]
    BY <1>2, <1>3, <1>4 DEF Shows, SameLevels
  <2>4. \A p \in DOMAIN levels : HasRow(r, p)
    BY <1>3, <1>4 DEF Shows
  <2> QED
    BY <2>2, <2>3, <2>4 DEF Shows
<1>5. ASSUME NEW persons, ShownCritical(rows, persons) PROVE ShownCritical(r, persons)
  BY <1>2, <1>3, <1>5 DEF ShownCritical, SameLevels
<1>6. ASSUME NEW persons, AllOrNone(rows, persons) PROVE AllOrNone(r, persons)
  BY <1>3, <1>6 DEF AllOrNone
<1> QED
  BY <1>2, <1>4, <1>5, <1>6

WithNote(row, note) == [row EXCEPT !.right.note = note]

Noting(r, row, note) ==
  /\ r \in Row /\ r.left = row.left
  /\ r.right.level = row.right.level /\ r.right.note = note
  /\ note = row.right.note => r = row

(* A note typed into a row changes that note. *)
LEMMA NoteChanged ==
  ASSUME NEW row \in Row, NEW note \in Nat
  PROVE  Noting(WithNote(row, note), row, note)
<1> DEFINE right == [row.right EXCEPT !.note = note]
<1>1. row.right \in Right /\ row.left \in Left /\ row = [left |-> row.left, right |-> row.right]
  BY DEF Row
<1>2. /\ right \in Right /\ right.level = row.right.level /\ right.note = note
      /\ note = row.right.note => right = row.right
  BY <1>1 DEF Right
<1>3. WithNote(row, note) = [row EXCEPT !.right = right]
  BY DEF WithNote
<1> HIDE DEF right
<1>4. WithNote(row, note) = [left |-> row.left, right |-> right]
  BY <1>1, <1>3
<1> QED
  BY <1>1, <1>2, <1>4 DEF Row, Noting

NoteAt(rows, i, note) == [rows EXCEPT ![i].right.note = note]
NotedAt(r, rows, i, note) ==
  /\ r \in Seq(Row) /\ SameLevels(r, rows)
  /\ \A j \in DOMAIN rows : r[j].right.note = IF j = i THEN note ELSE rows[j].right.note

(* A note typed into the sheet changes one row. *)
LEMMA NoteWritten ==
  ASSUME NEW rows \in Seq(Row), NEW i \in DOMAIN rows, i # 4, NEW note \in Nat
  PROVE  NotedAt(NoteAt(rows, i, note), rows, i, note)
<1> DEFINE r == NoteAt(rows, i, note)
<1>1. DOMAIN rows = 1 .. Len(rows) /\ Len(rows) \in Nat /\ \A j \in DOMAIN rows : rows[j] \in Row
  BY LenProperties, ElementOfSeq
<1> DEFINE new == [rows[i] EXCEPT !.right.note = note]
<1>2. Noting(new, rows[i], note)
  <2>1. rows[i] \in Row /\ new = WithNote(rows[i], note)
    BY <1>1 DEF WithNote
  <2> HIDE DEF new
  <2> QED BY <2>1, NoteChanged
<1>3. r = [rows EXCEPT ![i] = new]
  BY DEF NoteAt
<1> HIDE DEF new, r
<1>4. r \in Seq(Row) /\ Len(r) = Len(rows)
  <2>1. r \in [1 .. Len(rows) -> Row]
    BY <1>1, <1>2, <1>3 DEF Noting
  <2> QED BY <1>1, <2>1
<1>5. \A j \in DOMAIN rows : r[j] = IF j = i THEN new ELSE rows[j]
  BY <1>1, <1>3
<1>6. IsFollowUp(r) <=> IsFollowUp(rows)
  <2>1. CASE Len(rows) >= 4
    <3>1. 4 \in DOMAIN rows
      BY <1>1, <2>1
    <3>2. r[4] = rows[4]
      BY <1>5, <3>1
    <3> QED
      BY <1>4, <3>2 DEF IsFollowUp
  <2>2. CASE ~(Len(rows) >= 4)
    BY <1>4, <2>2 DEF IsFollowUp
  <2> QED
    BY <2>1, <2>2
<1> QED
  BY <1>2, <1>4, <1>5, <1>6 DEF SameLevels, Noting, NotedAt, r

(* The batch of cells leaves the notes and writes the rest.                *)
CellsOf(values, rows) == [i \in DOMAIN values |-> [values[i] EXCEPT !.right.note = rows[i].right.note]]

(* The cells of a refresh written over the sheet, while the notes beside *)
(* them stay.                                                            *)
LEMMA CellsWritten ==
  ASSUME NEW rows \in Seq(Row), NEW values \in Seq(Row), Len(rows) = Len(values),
         IsFollowUp(rows), IsFollowUp(values),
         NEW r, r = CellsOf(values, rows)
  PROVE  /\ r \in Seq(Row) /\ SameLevels(r, values)
         /\ \A i \in DOMAIN r : r[i].right.note = rows[i].right.note
<1>1. /\ DOMAIN rows = 1 .. Len(values) /\ DOMAIN values = 1 .. Len(values) /\ Len(values) \in Nat
      /\ \A i \in DOMAIN rows : rows[i] \in Row /\ values[i] \in Row
  BY LenProperties, ElementOfSeq
<1>2. ASSUME NEW i \in DOMAIN values
      PROVE  Noting(r[i], values[i], rows[i].right.note)
  <2>1. values[i] \in Row /\ rows[i].right.note \in Nat
    BY <1>1 DEF Row, Right
  <2>2. r[i] = WithNote(values[i], rows[i].right.note)
    BY DEF WithNote, CellsOf
  <2> QED BY <2>1, <2>2, NoteChanged
<1>3. r \in [1 .. Len(values) -> Row]
  BY <1>1, <1>2 DEF CellsOf, Noting
<1>4. r \in Seq(Row) /\ Len(r) = Len(values) /\ DOMAIN r = DOMAIN values
  BY <1>1, <1>3
<1>5. r[4] = Header
  <2>1. 4 \in DOMAIN values /\ values[4] = Header /\ rows[4] = Header
    BY <1>1 DEF IsFollowUp
  <2> QED BY <1>2, <2>1 DEF Noting
<1>6. IsFollowUp(r)
  BY <1>4, <1>5 DEF IsFollowUp
<1> QED
  BY <1>2, <1>4, <1>6 DEF SameLevels, Noting

(* The first m rows of a sheet. *)
LEMMA Truncated ==
  ASSUME NEW T, NEW rows \in Seq(T), NEW m \in Nat, m <= Len(rows), NEW r, r = SubSeq(rows, 1, m)
  PROVE  /\ r \in Seq(T) /\ Len(r) = m /\ DOMAIN r = 1 .. m /\ DOMAIN r \subseteq DOMAIN rows
         /\ \A i \in 1 .. m : r[i] = rows[i]
<1>1. Len(rows) \in Nat /\ DOMAIN rows = 1 .. Len(rows)
  BY LenProperties
<1> QED
  BY <1>1

(* Fewer rows show nobody else, nor anybody differently.                   *)
LEMMA TruncatedShows ==
  ASSUME NEW rows \in Seq(Row), NEW r \in Seq(Row), Len(r) <= Len(rows),
         \A i \in DOMAIN r : r[i] = rows[i]
  PROVE  /\ \A persons : ShownCritical(rows, persons) => ShownCritical(r, persons)
         /\ NotesRight(rows) => NotesRight(r)
<1> DEFINE m == Len(r)
<1>1. /\ r \in Seq(Row) /\ Len(r) = m /\ DOMAIN r = 1 .. m /\ DOMAIN r \subseteq DOMAIN rows
      /\ \A i \in 1 .. m : r[i] = rows[i]
  BY LenProperties
<1>2. Len(rows) \in Nat /\ m \in Nat
  BY LenProperties
<1> HIDE DEF m
<1>3. ASSUME NEW p, NEW i \in Places(r, p) PROVE i \in Places(rows, p) /\ r[i] = rows[i]
  <2>1. i \in 5 .. m /\ m >= 4 /\ r[4] = Header /\ r[i].left = RowFor(p)
    BY <1>1 DEF Places, IsFollowUp
  <2>2. rows[4] = Header /\ rows[i].left = RowFor(p) /\ i \in 5 .. Len(rows) /\ r[i] = rows[i]
    BY <1>1, <1>2, <2>1
  <2>3. IsFollowUp(rows)
    BY <1>2, <2>1, <2>2 DEF IsFollowUp
  <2> QED BY <2>2, <2>3 DEF Places
<1> QED
  BY <1>1, <1>3 DEF ShownCritical, NotesRight

-----------------------------------------------------------------------------
(* What persist writes of a view.                                          *)
NotPeople(values) == \A i \in DOMAIN values : values[i] # Header.left /\ \A p : values[i] # RowFor(p)

(* The rows of a list of cases: none of them is the row of a person with *)
(* a level.                                                              *)
LEMMA CasesAre ==
  ASSUME NEW view \in View
  PROVE  /\ CasesOf(view) \in Seq(Left) /\ Len(CasesOf(view)) \in Nat
         /\ NotPeople(CasesOf(view))
<1> DEFINE shown == Ascending(view.cases)
           n == Cardinality(view.cases)
           head == <<"case headers", 0, 0>>
           top == <<head>>
           below == [k \in DOMAIN shown |-> <<"case", shown[k], view.as_of>>]
           values == CasesOf(view)
<1>1. view.cases \in SUBSET Person /\ view.as_of \in Nat
  BY DEF View
<1>2. IsFiniteSet(view.cases) /\ view.cases \subseteq Int
  <2>1. IsFiniteSet(Person) /\ Person \subseteq Int
    BY DEF ViewsAssumption
  <2> QED BY <1>1, <2>1, FS_Subset
<1>3. n \in Nat /\ shown \in [1 .. n -> view.cases]
  BY <1>2, SortedList DEF IncreasingList
<1> HIDE DEF n, shown
<1>4. below \in [1 .. n -> Left]
  BY <1>1, <1>3 DEF Left, Kinds, ViewsAssumption
<1>5. below \in Seq(Left) /\ Len(below) = n /\ DOMAIN below = 1 .. n
  BY <1>3, <1>4
<1>6. top \in Seq(Left) /\ Len(top) = 1 /\ top[1] = head
  <2>1. head \in Left
    BY DEF Left, Kinds
  <2> HIDE DEF head
  <2> QED BY <2>1
<1>7. values = top \o below
  BY DEF CasesOf, shown
<1>12. /\ head[1] = "case headers" /\ Header.left[1] = "headers"
       /\ \A p : RowFor(p)[1] = "participant"
       /\ \A p, w : <<"case", p, w>>[1] = "case"
  BY DEF Header, RowFor
<1> HIDE DEF head
<1> HIDE DEF top, values
<1>8. \A k \in 1 .. n : below[k] = <<"case", shown[k], view.as_of>>
  BY <1>3
<1> HIDE DEF below
<1>9. Joins(values, top, below, Left)
  BY <1>5, <1>6, <1>7, Joined
<1>10. values \in Seq(Left) /\ Len(values) \in Nat /\ DOMAIN values = 1 .. Len(values)
  BY <1>9, LenProperties DEF Joins
<1>11. ASSUME NEW i \in DOMAIN values, NEW p PROVE values[i] # Header.left /\ values[i] # RowFor(p)
  <2>1. CASE i = 1
    <3>1. values[i] = head
      BY <1>6, <1>9, <2>1 DEF Joins
    <3> QED BY <1>12, <3>1
  <2>2. CASE i # 1
    <3>1. i \notin 1 .. Len(top) /\ i \in 1 .. Len(values)
      BY <1>6, <1>10, <2>2
    <3>2. PICK k \in 1 .. n : i = 1 + k
      BY <1>5, <1>6, <1>9, <3>1 DEF Joins
    <3>3. values[i] = below[k]
      BY <1>5, <1>6, <1>9, <3>2 DEF Joins
    <3>4. values[i] = <<"case", shown[k], view.as_of>>
      BY <1>8, <3>2, <3>3
    <3>5. values[i][1] = "case"
      BY <3>4
    <3> QED BY <1>12, <3>5
  <2> QED BY <2>1, <2>2
<1> QED
  BY <1>10, <1>11 DEF values, NotPeople

(* The rows of a summary. *)
LEMMA SummaryIs ==
  ASSUME NEW view \in View
  PROVE  SummaryOf(view) \in Seq(SummaryKinds) /\ Len(SummaryOf(view)) \in Nat
<1>1. <<"headers", "counts", "attendance">> \in Seq(SummaryKinds)
  BY DEF SummaryKinds
<1>2. (IF view.signalled THEN <<"signal">> ELSE << >>) \in Seq(SummaryKinds)
  <2>1. <<"signal">> \in Seq(SummaryKinds) /\ << >> \in Seq(SummaryKinds)
    BY DEF SummaryKinds
  <2> QED BY <2>1
<1>3. SummaryOf(view) \in Seq(SummaryKinds)
  BY <1>1, <1>2, ConcatProperties DEF SummaryOf
<1> QED
  BY <1>3, LenProperties

(* Writing values over the beginning of a longer or shorter list.          *)
Over(r, top, values, rows, T) ==
  /\ r \in Seq(T) /\ Len(r) \in Nat
  /\ Len(rows) > Len(values) => Len(r) = Len(rows)
  /\ ~(Len(rows) > Len(values)) => Len(r) = Len(values)
  /\ \A i \in 1 .. Len(values) : r[i] = top[i]
  /\ \A i \in Len(values) + 1 .. Len(r) : r[i] = rows[i]

(* Values written at the top of a sheet, the rest of it left as it was. *)
LEMMA WrittenOver ==
  ASSUME NEW T, NEW rows \in Seq(T), NEW top \in Seq(T), NEW values, Len(values) = Len(top),
         NEW r, r = top \o SubSeq(rows, Len(values) + 1, Len(rows))
  PROVE  Over(r, top, values, rows, T)
<1> DEFINE m == Len(values)
           rest == SubSeq(rows, m + 1, Len(rows))
<1>1. Len(rows) \in Nat /\ m \in Nat
  BY LenProperties
<1>2. CASE Len(rows) > m
  <2>1. /\ rest \in Seq(T) /\ Len(rest) = Len(rows) - m
        /\ \A k \in 1 .. Len(rows) - m : rest[k] = rows[m + 1 + k - 1]
    BY <1>1, <1>2
  <2> HIDE DEF rest, m
  <2>2. Joins(r, top, rest, T)
    BY <2>1, Joined DEF m, rest
  <2>3. r \in Seq(T) /\ Len(r) = Len(rows) /\ \A i \in 1 .. m : r[i] = top[i]
    BY <1>1, <2>1, <2>2 DEF Joins, m
  <2>4. ASSUME NEW i \in m + 1 .. Len(r) PROVE r[i] = rows[i]
    <3>1. i - m \in 1 .. Len(rows) - m /\ m + (i - m) = i /\ m + 1 + (i - m) - 1 = i
      BY <1>1, <2>3
    <3>2. r[m + (i - m)] = rest[i - m] /\ rest[i - m] = rows[m + 1 + (i - m) - 1]
      BY <1>1, <2>1, <2>2, <3>1 DEF Joins, m
    <3> QED BY <3>1, <3>2
  <2> QED
    BY <1>1, <1>2, <2>3, <2>4 DEF Over, m
<1>3. CASE ~(Len(rows) > m)
  <2>1. rest = << >>
    BY <1>1, <1>3, SubSeqEmpty
  <2>2. r = top
    BY <2>1, ConcatEmptySeq
  <2> QED
    BY <1>1, <1>3, <2>2 DEF Over
<1> QED
  BY <1>2, <1>3

(* The cases in the columns that both writers have, and below them what    *)
(* there was.                                                              *)
CasesOver(r, values, rows) ==
  /\ r \in Seq(Row) /\ Len(r) \in Nat
  /\ Len(rows) > Len(values) => Len(r) = Len(rows)
  /\ ~(Len(rows) > Len(values)) => Len(r) = Len(values)
  /\ \A i \in 1 .. Len(values) : r[i].left = values[i]
  /\ \A i \in Len(values) + 1 .. Len(r) : r[i] = rows[i]

(* The same for the list of cases. *)
LEMMA CasesWritten ==
  ASSUME NEW rows \in Seq(Row), NEW values \in Seq(Left), NEW r,
         r = [i \in DOMAIN values |->
               [left |-> values[i], right |-> IF i \in DOMAIN rows THEN rows[i].right ELSE Empty]]
             \o SubSeq(rows, Len(values) + 1, Len(rows))
  PROVE  CasesOver(r, values, rows)
<1> DEFINE over(i) == [left |-> values[i], right |-> IF i \in DOMAIN rows THEN rows[i].right ELSE Empty]
           top == [i \in DOMAIN values |-> over(i)]
           m == Len(values)
<1>1. /\ m \in Nat /\ DOMAIN values = 1 .. m /\ Len(rows) \in Nat /\ DOMAIN rows = 1 .. Len(rows)
      /\ \A i \in DOMAIN values : values[i] \in Left
      /\ \A i \in DOMAIN rows : rows[i] \in Row
  BY LenProperties, ElementOfSeq
<1>2. \A i \in DOMAIN values : over(i) \in Row
  BY <1>1 DEF Row, Right, Empty, NoNote, LevelNames
<1>3. top \in [1 .. m -> Row]
  BY <1>1, <1>2
<1>4. top \in Seq(Row) /\ Len(top) = m /\ \A i \in 1 .. m : top[i].left = values[i]
  BY <1>1, <1>3
<1>5. r = top \o SubSeq(rows, m + 1, Len(rows))
  OBVIOUS
<1> HIDE DEF top
<1>6. Over(r, top, values, rows, Row)
  BY <1>4, <1>5, WrittenOver
<1> QED
  BY <1>4, <1>6, LenProperties DEF Over, CasesOver

(* Cases written over a sheet show nobody at a wrong level. *)
LEMMA CasesShow ==
  ASSUME NEW rows \in Seq(Row), NEW values \in Seq(Left), NotPeople(values), NEW r,
         CasesOver(r, values, rows)
  PROVE  /\ NotesRight(rows) => NotesRight(r)
         /\ \A persons : ShownCritical(rows, persons) => ShownCritical(r, persons)
         /\ \A persons : AllOrNone(rows, persons) => AllOrNone(r, persons)
<1> DEFINE m == Len(values)
<1>1. /\ m \in Nat /\ DOMAIN values = 1 .. m /\ Len(rows) \in Nat /\ DOMAIN rows = 1 .. Len(rows)
      /\ DOMAIN r = 1 .. Len(r) /\ Len(r) \in Nat
  BY LenProperties DEF CasesOver
<1>2. /\ \A i \in 1 .. m : r[i].left = values[i]
      /\ \A i \in m + 1 .. Len(r) : r[i] = rows[i]
  BY DEF CasesOver
<1>6. /\ m \in Nat /\ Len(rows) \in Nat /\ Len(r) \in Nat
      /\ Len(rows) > m => Len(r) = Len(rows)
      /\ ~(Len(rows) > m) => Len(r) = m
  BY LenProperties DEF CasesOver
<1> HIDE DEF m
<1>3. ASSUME NotesRight(rows) PROVE NotesRight(r)
  <2> SUFFICES ASSUME NEW i \in DOMAIN r, NEW p \in Person, r[i].left = RowFor(p)
               PROVE  r[i].right.note \in {NoNote, p}
    BY DEF NotesRight
  <2>1. i \notin 1 .. m
    BY <1>1, <1>2 DEF NotPeople
  <2>2. i \in m + 1 .. Len(r) /\ i \in DOMAIN rows
    <3>1. i \in 1 .. Len(r) /\ ~(i \in 1 .. m)
      BY <1>1, <2>1
    <3>2. i \in m + 1 .. Len(r) /\ i \in 1 .. Len(rows)
      BY <1>6, <3>1
    <3> QED BY <1>1, <3>2
  <2> QED
    BY <1>2, <1>3, <2>2 DEF NotesRight
<1>4. CASE m >= 4
  <2>1. 4 \in 1 .. m
    BY <1>1, <1>4
  <2>2. r[4].left # Header.left
    BY <1>1, <1>2, <2>1 DEF NotPeople
  <2>3. \A p : Places(r, p) = {}
    BY <2>2 DEF Places, IsFollowUp
  <2> QED BY <1>3, <2>3 DEF ShownCritical, AllOrNone, HasRow
<1>5. CASE m < 4
  <2>1. Len(r) >= 4 <=> Len(rows) >= 4
    BY <1>5, <1>6
  <2>2. ASSUME Len(r) >= 4 PROVE Len(r) = Len(rows) /\ \A i \in 4 .. Len(r) : r[i] = rows[i]
    <3>1. Len(r) = Len(rows)
      BY <1>5, <1>6, <2>2
    <3>2. ASSUME NEW i \in 4 .. Len(r) PROVE i \in m + 1 .. Len(r)
      BY <1>1, <1>5
    <3> QED BY <1>2, <3>1, <3>2
  <2>3. IsFollowUp(r) <=> IsFollowUp(rows)
    <3>1. Len(r) >= 4 => 4 \in 4 .. Len(r)
      BY <1>1
    <3> QED BY <2>1, <2>2, <3>1 DEF IsFollowUp
  <2>4. ASSUME NEW p, IsFollowUp(r)
        PROVE  Places(r, p) = Places(rows, p) /\ \A i \in Places(r, p) : r[i] = rows[i]
    <3>1. Len(r) = Len(rows) /\ \A i \in 4 .. Len(r) : r[i] = rows[i]
      BY <2>2, <2>4 DEF IsFollowUp
    <3>2. \A i \in 5 .. Len(r) : r[i] = rows[i]
      BY <1>1, <3>1
    <3> QED BY <2>3, <2>4, <3>1, <3>2 DEF Places
  <2>5. \A p : Places(r, p) = Places(rows, p) /\ \A i \in Places(r, p) : r[i] = rows[i]
    BY <2>3, <2>4 DEF Places
  <2> QED BY <1>3, <2>5 DEF ShownCritical, AllOrNone, HasRow
<1> QED
  BY <1>1, <1>4, <1>5

(* Once what stood below is cleared the sheet begins and ends with the *)
(* cases.                                                              *)
LEMMA CasesLeft ==
  ASSUME NEW rows \in Seq(Row), NEW values \in Seq(Left), NotPeople(values), Begins(rows, values),
         NEW r \in Seq(Row), Len(r) = Len(values), \A i \in DOMAIN r : r[i] = rows[i]
  PROVE  Begins(r, values) /\ \A p : Places(r, p) = {}
<1>1. Len(values) \in Nat /\ DOMAIN values = 1 .. Len(values)
  BY LenProperties
<1>2. Len(values) <= Len(rows) /\ \A i \in DOMAIN values : rows[i].left = values[i]
  BY <1>1, LenProperties DEF Begins
<1>3. \A i \in 1 .. Len(values) : r[i] = rows[i]
  BY <1>1, LenProperties
<1>4. Begins(r, values)
  BY <1>1, <1>2, <1>3 DEF Begins
<1>5. ~IsFollowUp(r)
  <2> SUFFICES ASSUME Len(values) >= 4, r[4] = Header PROVE FALSE
    BY <1>3 DEF IsFollowUp
  <2>1. 4 \in DOMAIN values
    BY <1>1
  <2>2. rows[4].left = values[4] /\ r[4] = rows[4] /\ values[4] # Header.left
    BY <1>1, <1>2, <1>3, <2>1 DEF NotPeople
  <2> QED BY <2>2
<1> QED
  BY <1>3, <1>4, <1>5 DEF Places

-----------------------------------------------------------------------------
Inv == Types /\ Refreshed /\ Noted /\ Known /\ Persisted

(* What the job of the process is at each of its places. *)
LEMMA JobIs ==
  ASSUME Types
  PROVE  /\ job.at \in Refreshing => job \in RefreshJob
         /\ job.at \in Persisting => job \in PersistJob
         /\ job = Idle => job.at = "idle"
         /\ job # Idle => job.at \in Refreshing \union Persisting
  BY DEF Types, RefreshJob, PersistJob, Idle, Refreshing, Persisting

(* Levels depend on what was heard and on who is enrolled, on nothing *)
(* else.                                                              *)
LEMMA LevelsStay ==
  ASSUME heard' = heard, enrollment' = enrollment
  PROVE  Levels' = Levels /\ Enrolled' = Enrolled /\ Critical' = Critical
  BY DEF Levels, Critical, Enrolled, LevelOf, Spoke

(* The invariant holds at first. *)
LEMMA InitInv ==
  ASSUME Init
  PROVE  Inv
<1>1. heard \in Seq(SUBSET Person)
  <2>1. Start \in Nat /\ heard \in [1 .. Start -> SUBSET Person]
    BY DEF Init, ViewsAssumption
  <2> QED BY <2>1
<1>2. Enrolled \subseteq Person
  BY DEF Init, Enrolled
<1>3. job.at = "idle" /\ sheet = << >> /\ summary = << >>
  BY DEF Init, Idle
<1>4. Types
  BY <1>1, <1>2, <1>3, EmptySeq DEF Init, Types
<1> QED
  BY <1>3, <1>4
  DEF Init, Inv, Refreshed, Noted, Known, Persisted, Refreshing, NotesRight, ShownCritical, AllOrNone

(* Whoever is at work stops, or nobody is, and the sheets stay.            *)
LEMMA Resting ==
  ASSUME Inv, job' = Idle, sheet' = sheet, summary' = summary, reordered' = reordered,
         heard' \in Seq(SUBSET Person), Enrolled' \subseteq Person, told' \subseteq Enrolled',
         ~torn' => ~twice' /\ ShownCritical(sheet, told') /\ AllOrNone(sheet, told')
  PROVE  Inv'
<1>1. job'.at = "idle"
  BY DEF Idle
<1>2. Types'
  BY DEF Inv, Types
<1>3. Refreshed' /\ Persisted'
  BY <1>1 DEF Refreshed, Persisted, Refreshing
<1>4. Noted'
  BY <1>1 DEF Inv, Noted, Refreshing
<1>5. Known'
  BY <1>1 DEF Known, Refreshing
<1> QED
  BY <1>2, <1>3, <1>4, <1>5 DEF Inv

(* Having told fewer people makes no earlier telling wrong. *)
LEMMA FewerTold ==
  ASSUME Inv, ~torn, job.at \notin {"cleared", "report"}, NEW persons, persons \subseteq told
  PROVE  ~twice /\ ShownCritical(sheet, persons) /\ AllOrNone(sheet, persons)
  BY DEF Inv, Known, ShownCritical, AllOrNone

(* Every action keeps the invariant: one lemma for each, down to NextInv. *)
LEMMA EditStep ==
  ASSUME Inv,
         \/ \E group \in SUBSET Person : Hear(group)
         \/ \E p \in Person : Join(p)
         \/ \E p \in Enrolled : Deactivate(p) \/ Delete(p)
  PROVE  Inv'
<1>0. Types /\ told \subseteq Enrolled
  BY DEF Inv, Known
<1>1. job = Idle /\ job' = Idle
  BY DEF Hear, Join, Deactivate, Delete
<1>2. /\ sheet' = sheet /\ summary' = summary /\ reordered' = reordered
      /\ torn' = torn /\ twice' = twice /\ told' \subseteq told
  BY DEF Hear, Join, Deactivate, Delete, sheets, history
<1>3. /\ heard' \in Seq(SUBSET Person) /\ Enrolled' \subseteq Person /\ told' \subseteq Enrolled'
  <2>1. ASSUME NEW group \in SUBSET Person, Hear(group)
        PROVE  heard' \in Seq(SUBSET Person) /\ Enrolled' = Enrolled
    BY <1>0, <2>1, AppendProperties DEF Hear, Types, Enrolled
  <2>2. ASSUME NEW p \in Person, Join(p)
        PROVE  heard' = heard /\ Enrolled' = Enrolled \union {p}
    BY <2>2 DEF Join, Enrolled
  <2>3. ASSUME NEW p \in Enrolled, Deactivate(p)
        PROVE  heard' = heard /\ Enrolled' = Enrolled
    BY <2>3 DEF Deactivate, Enrolled
  <2>4. ASSUME NEW p \in Enrolled, Delete(p)
        PROVE  heard' = heard /\ Enrolled' = Enrolled \ {p} /\ told' = told \ {p}
    BY <2>4 DEF Delete, Enrolled, Restrict
  <2> QED
    BY <1>0, <1>2, <2>1, <2>2, <2>3, <2>4 DEF Types
<1>4. ~torn' => ~twice' /\ ShownCritical(sheet, told') /\ AllOrNone(sheet, told')
  <2>1. job.at = "idle"
    BY <1>1 DEF Idle
  <2> QED BY <1>2, <2>1, FewerTold
<1> QED
  BY <1>1, <1>2, <1>3, <1>4, Resting

LEMMA WriteNoteStep ==
  ASSUME Inv, NEW p \in Person, WriteNote(p)
  PROVE  Inv'
<1>0. Types /\ Refreshed /\ Noted /\ Known /\ Persisted
  BY DEF Inv
<1>1. PICK i \in Places(sheet, p) : sheet' = NoteAt(sheet, i, p)
  BY DEF WriteNote, NoteAt
<1>2. /\ heard' = heard /\ enrollment' = enrollment /\ summary' = summary /\ job' = job
      /\ told' = told /\ twice' = twice /\ torn' = torn /\ reordered' = reordered
  BY DEF WriteNote, history
<1>3. i \in DOMAIN sheet /\ i # 4 /\ sheet[i].left = RowFor(p) /\ p \in Nat
  BY <1>0, <1>1, HasRowIs DEF Types, Places, ViewsAssumption
<1>4. sheet \in Seq(Row)
  BY <1>0 DEF Types
<1>5. /\ sheet' \in Seq(Row) /\ SameLevels(sheet', sheet)
      /\ \A j \in DOMAIN sheet : sheet'[j].right.note = IF j = i THEN p ELSE sheet[j].right.note
  <2>1. NotedAt(NoteAt(sheet, i, p), sheet, i, p)
    BY <1>3, <1>4, NoteWritten
  <2> QED BY <1>1, <2>1 DEF NotedAt
<1>6. /\ \A levels : Shows(sheet, levels) => Shows(sheet', levels)
      /\ \A persons : ShownCritical(sheet, persons) => ShownCritical(sheet', persons)
      /\ \A persons : AllOrNone(sheet, persons) => AllOrNone(sheet', persons)
  BY <1>4, <1>5, SameLevelsShown
<1>7. /\ Len(sheet') = Len(sheet) /\ DOMAIN sheet' = DOMAIN sheet
      /\ IsFollowUp(sheet') <=> IsFollowUp(sheet)
      /\ \A j \in DOMAIN sheet : sheet'[j].left = sheet[j].left
  BY <1>4, <1>5, LenProperties DEF SameLevels
<1>8. Types'
  BY <1>0, <1>2, <1>5 DEF Types, Enrolled
<1>9. Levels' = Levels /\ Enrolled' = Enrolled
  BY <1>2, LevelsStay
<1>10. Refreshed'
  BY <1>0, <1>2, <1>6, <1>7, <1>9 DEF Refreshed
<1>11. NotesRight(sheet) => NotesRight(sheet')
  <2> SUFFICES ASSUME NotesRight(sheet), NEW j \in DOMAIN sheet', NEW q \in Person, sheet'[j].left = RowFor(q)
               PROVE  sheet'[j].right.note \in {NoNote, q}
    BY DEF NotesRight
  <2>1. j \in DOMAIN sheet /\ sheet[j].left = RowFor(q)
    BY <1>7
  <2>2. j = i => q = p
    BY <1>3, <2>1 DEF RowFor
  <2> QED
    BY <1>5, <2>1, <2>2 DEF NotesRight
<1>12. Noted'
  BY <1>0, <1>2, <1>11 DEF Noted
<1>13. Known'
  BY <1>0, <1>2, <1>6, <1>9 DEF Known
<1>14. Persisted'
  <2>1. \A values \in Seq(Left) : Begins(sheet, values) => Begins(sheet', values)
    <3> SUFFICES ASSUME NEW values \in Seq(Left), Begins(sheet, values) PROVE Begins(sheet', values)
      OBVIOUS
    <3>1. Len(values) \in Nat /\ DOMAIN values = 1 .. Len(values)
      BY LenProperties
    <3>2. Len(sheet) \in Nat /\ DOMAIN sheet = 1 .. Len(sheet) /\ Len(values) <= Len(sheet)
      BY <1>4, <3>1, LenProperties DEF Begins
    <3>3. \A j \in DOMAIN values : j \in DOMAIN sheet
      BY <3>1, <3>2
    <3> QED BY <1>7, <3>3 DEF Begins
  <2>2. job.at \in {"below", "shown"} => CasesOf(job.view) \in Seq(Left)
    BY <1>0, JobIs, CasesAre DEF Persisting, PersistJob
  <2> QED
    BY <1>0, <1>2, <1>7, <2>1, <2>2 DEF Persisted
<1> QED
  BY <1>8, <1>10, <1>12, <1>13, <1>14 DEF Inv

LEMMA RefreshStep ==
  ASSUME Inv, Refresh
  PROVE  Inv'
<1>0. Types /\ Refreshed /\ Noted /\ Known /\ Persisted
  BY DEF Inv
<1> DEFINE values == Desired(sheet)
<1>1. values \in Seq(Row) /\ Shows(values, Levels) /\ (NotesRight(sheet) => NotesRight(values))
  BY <1>0, DesiredIs
<1>2. /\ job = Idle /\ job.at = "idle"
      /\ heard' = heard /\ enrollment' = enrollment /\ sheet' = sheet /\ summary' = summary
      /\ told' = told /\ twice' = twice /\ torn' = torn /\ reordered' = reordered
  BY DEF Refresh, sheets, history, Idle
<1>3. job' = [at |-> IF ~Structural(sheet, values) THEN "cells"
                     ELSE IF Len(sheet) > Len(values) THEN "clear" ELSE "whole",
              values |-> values, became |-> Became(sheet)]
  BY DEF Refresh
<1> HIDE DEF values
<1>4. Became(sheet) \in SUBSET Person
  BY <1>0 DEF Became, Critical, Types
<1>5. job' \in RefreshJob /\ job'.values = values /\ job'.became = Became(sheet)
  BY <1>1, <1>3, <1>4 DEF RefreshJob, Refreshing
<1>6. /\ job'.at \in {"clear", "whole", "cells"}
      /\ job'.at = "clear" => Len(values) < Len(sheet)
      /\ job'.at = "cells" => IsFollowUp(sheet) /\ Len(sheet) = Len(values)
  <2>1. Len(values) \in Nat /\ Len(sheet) \in Nat
    BY <1>0, <1>1, LenProperties DEF Types
  <2> QED BY <1>3, <2>1 DEF Structural
<1>7. Types'
  BY <1>0, <1>2, <1>5 DEF Types, Enrolled
<1>8. Levels' = Levels /\ Enrolled' = Enrolled
  BY <1>2, LevelsStay
<1>9. Refreshed'
  BY <1>1, <1>2, <1>5, <1>6, <1>8 DEF Refreshed
<1>10. Noted'
  BY <1>0, <1>1, <1>2, <1>5 DEF Noted
<1>11. ~torn => Became(sheet) \intersect told = {}
  <2> SUFFICES ASSUME ~torn, NEW p \in told, p \in Became(sheet) PROVE FALSE
    OBVIOUS
  <2>1. PICK q \in Person : HasRow(sheet, q)
    BY DEF Became
  <2>2. ShownCritical(sheet, told) /\ AllOrNone(sheet, told)
    BY <1>0, <1>2 DEF Known
  <2>3. HasRow(sheet, p)
    BY <2>1, <2>2 DEF AllOrNone
  <2>4. Max(Places(sheet, p)) \in Places(sheet, p) /\ Entry(sheet, p) = sheet[Max(Places(sheet, p))].right
    BY <1>0, <2>3, HasRowIs DEF Types
  <2>5. Entry(sheet, p).level = "CRITICAL"
    BY <2>2, <2>4 DEF ShownCritical
  <2> QED BY <2>3, <2>5 DEF Became
<1>12. Known'
  BY <1>0, <1>2, <1>5, <1>6, <1>8, <1>11 DEF Known
<1>13. Persisted'
  BY <1>6 DEF Persisted
<1> QED
  BY <1>7, <1>9, <1>10, <1>12, <1>13 DEF Inv

LEMMA ClearTailStep ==
  ASSUME Inv, ClearTail
  PROVE  Inv'
<1>0. Types /\ Refreshed /\ Noted /\ Known /\ Persisted
  BY DEF Inv
<1>1. /\ job.at = "clear" /\ sheet' = SubSeq(sheet, 1, Len(job.values))
      /\ job' = [job EXCEPT !.at = "cleared"]
      /\ heard' = heard /\ enrollment' = enrollment /\ summary' = summary
      /\ told' = told /\ twice' = twice /\ torn' = torn /\ reordered' = reordered
  BY DEF ClearTail, history
<1>2. job \in RefreshJob /\ job.at \in Refreshing
  BY <1>0, <1>1, JobIs DEF Refreshing
<1>3. /\ job' \in RefreshJob /\ job'.at = "cleared" /\ job'.values = job.values /\ job'.became = job.became
  BY <1>1, <1>2 DEF RefreshJob, Refreshing
<1>4. /\ sheet \in Seq(Row) /\ Len(job.values) \in Nat /\ Len(job.values) <= Len(sheet)
  <2>1. Len(job.values) < Len(sheet) /\ job.values \in Seq(Row) /\ sheet \in Seq(Row)
    BY <1>0, <1>1, <1>2 DEF Refreshed, Types, RefreshJob
  <2>2. Len(job.values) \in Nat /\ Len(sheet) \in Nat
    BY <2>1, LenProperties
  <2> QED BY <2>1, <2>2
<1>5. /\ sheet' \in Seq(Row) /\ (NotesRight(sheet) => NotesRight(sheet'))
      /\ \A persons : ShownCritical(sheet, persons) => ShownCritical(sheet', persons)
  <2>1. sheet' \in Seq(Row) /\ Len(sheet') <= Len(sheet) /\ \A i \in DOMAIN sheet' : sheet'[i] = sheet[i]
    BY <1>1, <1>4, Truncated
  <2>2. /\ NotesRight(sheet) => NotesRight(sheet')
        /\ \A persons : ShownCritical(sheet, persons) => ShownCritical(sheet', persons)
    BY <1>4, <2>1, TruncatedShows
  <2> QED BY <2>1, <2>2
<1>6. Types'
  BY <1>0, <1>1, <1>3, <1>5 DEF Types, Enrolled
<1>7. Levels' = Levels /\ Enrolled' = Enrolled
  BY <1>1, LevelsStay
<1>8. Refreshed'
  BY <1>0, <1>2, <1>3, <1>7 DEF Refreshed
<1>9. Noted'
  BY <1>0, <1>1, <1>2, <1>3, <1>5 DEF Noted
<1>10. Known'
  BY <1>0, <1>1, <1>2, <1>3, <1>5, <1>7 DEF Known
<1>11. Persisted'
  BY <1>3 DEF Persisted
<1> QED
  BY <1>6, <1>8, <1>9, <1>10, <1>11 DEF Inv

LEMMA WriteWholeStep ==
  ASSUME Inv, WriteWhole
  PROVE  Inv'
<1>0. Types /\ Refreshed /\ Noted /\ Known /\ Persisted
  BY DEF Inv
<1>1. /\ job.at \in {"whole", "cleared"} /\ sheet' = job.values /\ job' = [job EXCEPT !.at = "report"]
      /\ heard' = heard /\ enrollment' = enrollment /\ summary' = summary
      /\ told' = told /\ twice' = twice /\ torn' = torn /\ reordered' = reordered
  BY DEF WriteWhole, history
<1>2. job \in RefreshJob /\ job.at \in Refreshing
  BY <1>0, <1>1, JobIs DEF Refreshing
<1>3. /\ job' \in RefreshJob /\ job'.at = "report" /\ job'.values = job.values /\ job'.became = job.became
  BY <1>1, <1>2 DEF RefreshJob, Refreshing
<1>4. Types'
  BY <1>0, <1>1, <1>2, <1>3 DEF Types, Enrolled, RefreshJob
<1>5. Levels' = Levels /\ Enrolled' = Enrolled
  BY <1>1, LevelsStay
<1>6. Refreshed'
  BY <1>0, <1>1, <1>2, <1>3, <1>5 DEF Refreshed
<1>7. Noted'
  BY <1>0, <1>1, <1>2, <1>3 DEF Noted
<1>8. Known'
  BY <1>0, <1>1, <1>2, <1>3, <1>5 DEF Known
<1>9. Persisted'
  BY <1>3 DEF Persisted
<1> QED
  BY <1>4, <1>6, <1>7, <1>8, <1>9 DEF Inv

LEMMA WriteCellsStep ==
  ASSUME Inv, WriteCells
  PROVE  Inv'
<1>0. Types /\ Refreshed /\ Noted /\ Known /\ Persisted
  BY DEF Inv
<1>1. /\ job.at = "cells" /\ job' = [job EXCEPT !.at = "report"]
      /\ heard' = heard /\ enrollment' = enrollment /\ summary' = summary
      /\ told' = told /\ twice' = twice /\ torn' = torn
      /\ reordered' = (reordered \/ \E i \in 5 .. Len(sheet) : sheet[i].left # sheet'[i].left)
  BY DEF WriteCells
<1>2. job \in RefreshJob /\ job.at \in Refreshing
  BY <1>0, <1>1, JobIs DEF Refreshing
<1>3. /\ job' \in RefreshJob /\ job'.at = "report" /\ job'.values = job.values /\ job'.became = job.became
  BY <1>1, <1>2 DEF RefreshJob, Refreshing
<1>4. /\ job.values \in Seq(Row) /\ sheet \in Seq(Row) /\ Len(sheet) = Len(job.values)
      /\ IsFollowUp(sheet) /\ IsFollowUp(job.values) /\ Shows(job.values, Levels)
  BY <1>0, <1>1, <1>2 DEF Types, RefreshJob, Refreshed, Shows
<1>5. sheet' = CellsOf(job.values, sheet)
  BY DEF WriteCells, CellsOf
<1>6. /\ sheet' \in Seq(Row) /\ SameLevels(sheet', job.values)
      /\ \A i \in DOMAIN sheet' : sheet'[i].right.note = sheet[i].right.note
  BY <1>4, <1>5, CellsWritten
<1>7. Shows(sheet', Levels)
  BY <1>4, <1>6, SameLevelsShown
<1>8. Types'
  BY <1>0, <1>1, <1>3, <1>6 DEF Types, Enrolled
<1>9. Levels' = Levels /\ Enrolled' = Enrolled
  BY <1>1, LevelsStay
<1>10. Refreshed'
  BY <1>0, <1>2, <1>3, <1>7, <1>9 DEF Refreshed
<1>11. ASSUME ~reordered' PROVE NotesRight(sheet')
  <2>1. ~reordered /\ \A i \in 5 .. Len(sheet) : sheet[i].left = sheet'[i].left
    BY <1>1, <1>11
  <2>2. NotesRight(sheet)
    BY <1>0, <2>1 DEF Noted
  <2>3. /\ Len(sheet) \in Nat /\ DOMAIN sheet = 1 .. Len(sheet) /\ DOMAIN sheet' = DOMAIN sheet
        /\ \A i \in DOMAIN sheet : sheet'[i].left = job.values[i].left
    BY <1>4, <1>6, LenProperties DEF SameLevels
  <2> SUFFICES ASSUME NEW i \in DOMAIN sheet', NEW p \in Person, sheet'[i].left = RowFor(p)
               PROVE  sheet'[i].right.note \in {NoNote, p}
    BY DEF NotesRight
  <2>4. i \notin 1 .. 4
    BY <1>4, <2>3 DEF Shows
  <2>5. i \in 5 .. Len(sheet)
    BY <2>3, <2>4
  <2>6. sheet[i].left = RowFor(p) /\ i \in DOMAIN sheet
    BY <2>1, <2>3, <2>5
  <2> QED
    BY <1>6, <2>2, <2>6 DEF NotesRight
<1>12. Noted'
  BY <1>0, <1>1, <1>2, <1>3, <1>11 DEF Noted
<1>13. Known'
  BY <1>0, <1>1, <1>2, <1>3, <1>9 DEF Known
<1>14. Persisted'
  BY <1>3 DEF Persisted
<1> QED
  BY <1>8, <1>10, <1>12, <1>13, <1>14 DEF Inv

(* A sheet that shows the levels shows the critical people. *)
LEMMA CriticalShown ==
  ASSUME NEW rows, Shows(rows, Levels), NEW persons, persons \subseteq Critical
  PROVE  ShownCritical(rows, persons) /\ AllOrNone(rows, persons)
<1>1. \A p \in persons : p \in DOMAIN Levels /\ Levels[p] = "CRITICAL"
  BY DEF Critical, Levels
<1> QED
  BY <1>1 DEF Shows, ShownCritical, AllOrNone

LEMMA ReportStep ==
  ASSUME Inv, Report
  PROVE  Inv'
<1>0. Types /\ Refreshed /\ Known
  BY DEF Inv
<1>1. /\ job.at = "report" /\ job' = Idle
      /\ heard' = heard /\ enrollment' = enrollment /\ sheet' = sheet /\ summary' = summary
      /\ torn' = torn /\ reordered' = reordered
      /\ twice' = (twice \/ job.became \intersect told # {})
      /\ told' \subseteq Critical
  BY DEF Report, sheets
<1>2. job.at \in Refreshing
  BY <1>1 DEF Refreshing
<1>3. heard' \in Seq(SUBSET Person) /\ Enrolled' \subseteq Person /\ told' \subseteq Enrolled'
  BY <1>0, <1>1, LevelsStay DEF Types, Critical
<1>4. ShownCritical(sheet, told') /\ AllOrNone(sheet, told')
  BY <1>0, <1>1, <1>2, CriticalShown DEF Refreshed
<1>5. ~torn => ~twice'
  BY <1>0, <1>1, <1>2 DEF Known
<1> QED
  BY <1>1, <1>3, <1>4, <1>5, Resting

LEMMA DieStep ==
  ASSUME Inv, Die
  PROVE  Inv'
<1>0. Types /\ Refreshed /\ Known
  BY DEF Inv
<1>1. /\ job # Idle /\ job' = Idle
      /\ heard' = heard /\ enrollment' = enrollment /\ sheet' = sheet /\ summary' = summary
      /\ twice' = twice /\ reordered' = reordered
      /\ torn' = (torn \/ (job.at = "cleared" /\ Cut))
      /\ told' = IF job.at = "report" THEN told \intersect Critical ELSE told
  BY DEF Die, sheets
<1>2. heard' \in Seq(SUBSET Person) /\ Enrolled' \subseteq Person /\ told' \subseteq Enrolled'
  BY <1>0, <1>1, LevelsStay DEF Types, Known
<1>3. ASSUME ~torn' PROVE ~twice' /\ ShownCritical(sheet, told') /\ AllOrNone(sheet, told')
  <2>1. ~torn /\ ~twice'
    BY <1>0, <1>1, <1>3 DEF Known
  <2>2. CASE job.at = "report"
    <3>1. Shows(sheet, Levels) /\ told' \subseteq Critical
      BY <1>0, <1>1, <2>2 DEF Refreshed, Refreshing
    <3> QED BY <2>1, <3>1, CriticalShown
  <2>3. CASE job.at = "cleared"
    <3>1. ShownCritical(sheet, told) /\ AllOrNone(sheet, told)
      BY <1>0, <1>1, <1>3, <2>1, <2>3 DEF Known, Cut, AllOrNone
    <3> QED BY <1>1, <2>1, <2>3, <3>1 DEF AllOrNone
  <2>4. CASE job.at \notin {"report", "cleared"}
    BY <1>1, <2>1, <2>4, FewerTold
  <2> QED
    BY <2>2, <2>3, <2>4
<1> QED
  BY <1>1, <1>2, <1>3, Resting

LEMMA EndPersistStep ==
  ASSUME Inv, EndPersist
  PROVE  Inv'
<1>0. Types /\ Known
  BY DEF Inv
<1>1. /\ job.at = "shown" /\ job' = Idle
      /\ heard' = heard /\ enrollment' = enrollment /\ sheet' = sheet /\ summary' = summary
      /\ twice' = twice /\ reordered' = reordered /\ torn' = torn /\ told' = told
  BY DEF EndPersist, sheets, history
<1>2. heard' \in Seq(SUBSET Person) /\ Enrolled' \subseteq Person /\ told' \subseteq Enrolled'
  BY <1>0, <1>1, LevelsStay DEF Types, Known
<1>3. ~torn => ~twice /\ ShownCritical(sheet, told) /\ AllOrNone(sheet, told)
  BY <1>1, FewerTold
<1> QED
  BY <1>1, <1>2, <1>3, Resting

(* The operational view goes on with its sheets.                           *)
LEMMA PersistingStep ==
  ASSUME Inv, job.at \in Persisting \union {"idle"}, job' \in PersistJob,
         heard' = heard, enrollment' = enrollment, told' = told, twice' = twice, torn' = torn,
         reordered' = reordered, sheet' \in Seq(Row), summary' \in Seq(SummaryKinds),
         NotesRight(sheet) => NotesRight(sheet'),
         ShownCritical(sheet, told) => ShownCritical(sheet', told),
         AllOrNone(sheet, told) => AllOrNone(sheet', told),
         Persisted'
  PROVE  Inv'
<1>0. Types /\ Noted /\ Known
  BY DEF Inv
<1>1. job.at \notin Refreshing /\ job'.at \notin Refreshing
  BY DEF PersistJob, Persisting, Refreshing
<1>2. Types'
  BY <1>0 DEF Types, Enrolled
<1>3. Refreshed' /\ Noted'
  BY <1>0, <1>1 DEF Refreshed, Noted
<1>4. Enrolled' = Enrolled
  BY LevelsStay
<1>5. Known'
  BY <1>0, <1>1, <1>4 DEF Known, Refreshing
<1> QED
  BY <1>2, <1>3, <1>5 DEF Inv

LEMMA StartPersistStep ==
  ASSUME Inv, StartPersist
  PROVE  Inv'
<1>0. Types
  BY DEF Inv
<1>1. /\ job = Idle /\ job.at = "idle"
      /\ heard' = heard /\ enrollment' = enrollment /\ sheet' = sheet /\ summary' = summary
      /\ twice' = twice /\ reordered' = reordered /\ torn' = torn /\ told' = told
  BY DEF StartPersist, sheets, history, Idle
<1>2. PICK unknown \in SUBSET (Late \intersect Enrolled), signalled \in BOOLEAN :
        job' = [at |-> "summary",
                view |-> [cases |-> Enrolled \ unknown, signalled |-> signalled, as_of |-> Len(heard)]]
  BY DEF StartPersist
<1>3. Len(heard) \in Nat /\ Enrolled \subseteq Person
  BY <1>0, LenProperties DEF Types
<1>4. job' \in PersistJob /\ job'.at = "summary"
  BY <1>2, <1>3 DEF PersistJob, Persisting, View
<1>5. Persisted'
  BY <1>4 DEF Persisted
<1>6. sheet' \in Seq(Row) /\ summary' \in Seq(SummaryKinds)
  BY <1>0, <1>1 DEF Types
<1> QED
  BY <1>1, <1>4, <1>5, <1>6, PersistingStep

LEMMA PersistSummaryStep ==
  ASSUME Inv, PersistSummary
  PROVE  Inv'
<1>0. Types
  BY DEF Inv
<1> DEFINE values == SummaryOf(job.view)
<1>1. /\ job.at = "summary" /\ summary' = values \o SubSeq(summary, Len(values) + 1, Len(summary))
      /\ job' = [job EXCEPT !.at = IF Longer(summary, values) THEN "trim" ELSE "individual"]
      /\ heard' = heard /\ enrollment' = enrollment /\ sheet' = sheet
      /\ twice' = twice /\ reordered' = reordered /\ torn' = torn /\ told' = told
  BY DEF PersistSummary, history
<1>2. job \in PersistJob /\ job.at \in Persisting
  BY <1>0, <1>1, JobIs DEF Persisting
<1>3. /\ job' \in PersistJob /\ job'.view = job.view
      /\ job'.at = IF Longer(summary, values) THEN "trim" ELSE "individual"
  BY <1>1, <1>2 DEF PersistJob, Persisting
<1>4. values \in Seq(SummaryKinds) /\ Len(values) \in Nat /\ summary \in Seq(SummaryKinds)
  BY <1>0, <1>2, SummaryIs DEF PersistJob, Types
<1> HIDE DEF values
<1>5. Over(summary', values, values, summary, SummaryKinds)
  BY <1>1, <1>4, WrittenOver
<1>6. /\ summary' \in Seq(SummaryKinds) /\ Len(summary') \in Nat /\ Len(summary) \in Nat
      /\ Len(summary) > Len(values) => Len(summary') = Len(summary)
      /\ ~(Len(summary) > Len(values)) => Len(summary') = Len(values)
  BY <1>4, <1>5, LenProperties DEF Over
<1>7. Len(values) <= Len(summary')
  BY <1>4, <1>6
<1>8. SubSeq(summary', 1, Len(values)) = values
  <2> DEFINE part == SubSeq(summary', 1, Len(values))
  <2>1. /\ part \in Seq(SummaryKinds) /\ Len(part) = Len(values)
        /\ \A i \in 1 .. Len(values) : part[i] = summary'[i]
    BY <1>4, <1>6, <1>7, Truncated
  <2> HIDE DEF part
  <2>2. \A i \in 1 .. Len(values) : part[i] = values[i]
    BY <1>5, <2>1 DEF Over
  <2>3. part = values
    BY <1>4, <2>1, <2>2, SeqEqual
  <2> QED BY <2>3 DEF part
<1>9. ~Longer(summary, values) => summary' = values
  BY <1>4, <1>6, <1>8, SubSeqFull DEF Longer
<1>10. Persisted'
  BY <1>3, <1>6, <1>8, <1>9 DEF Persisted, Longer, values
<1>11. sheet' \in Seq(Row)
  BY <1>0, <1>1 DEF Types
<1> QED
  BY <1>1, <1>2, <1>3, <1>6, <1>10, <1>11, PersistingStep

LEMMA TrimSummaryStep ==
  ASSUME Inv, TrimSummary
  PROVE  Inv'
<1>0. Types /\ Persisted
  BY DEF Inv
<1>1. /\ job.at = "trim" /\ summary' = SubSeq(summary, 1, Len(SummaryOf(job.view)))
      /\ job' = [job EXCEPT !.at = "individual"]
      /\ heard' = heard /\ enrollment' = enrollment /\ sheet' = sheet
      /\ twice' = twice /\ reordered' = reordered /\ torn' = torn /\ told' = told
  BY DEF TrimSummary, history
<1>2. job \in PersistJob /\ job.at \in Persisting
  BY <1>0, <1>1, JobIs DEF Persisting
<1>3. job' \in PersistJob /\ job'.view = job.view /\ job'.at = "individual"
  BY <1>1, <1>2 DEF PersistJob, Persisting
<1>4. summary' = SummaryOf(job.view)
  BY <1>0, <1>1 DEF Persisted
<1>5. SummaryOf(job.view) \in Seq(SummaryKinds)
  BY <1>2, SummaryIs DEF PersistJob
<1>6. Persisted'
  BY <1>3, <1>4 DEF Persisted
<1>7. sheet' \in Seq(Row)
  BY <1>0, <1>1 DEF Types
<1> QED
  BY <1>1, <1>2, <1>3, <1>4, <1>5, <1>6, <1>7, PersistingStep

LEMMA PersistIndividualStep ==
  ASSUME Inv, PersistIndividual
  PROVE  Inv'
<1>0. Types /\ Persisted
  BY DEF Inv
<1> DEFINE values == CasesOf(job.view)
<1>1. /\ job.at = "individual" /\ summary' = summary
      /\ sheet' = [i \in DOMAIN values |->
                    [left |-> values[i], right |-> IF i \in DOMAIN sheet THEN sheet[i].right ELSE Empty]]
                  \o SubSeq(sheet, Len(values) + 1, Len(sheet))
      /\ job' = [job EXCEPT !.at = IF Longer(sheet, values) THEN "below" ELSE "shown"]
      /\ heard' = heard /\ enrollment' = enrollment
      /\ twice' = twice /\ reordered' = reordered /\ torn' = torn /\ told' = told
  BY DEF PersistIndividual, history
<1>2. job \in PersistJob /\ job.at \in Persisting
  BY <1>0, <1>1, JobIs DEF Persisting
<1>3. /\ job' \in PersistJob /\ job'.view = job.view
      /\ job'.at = IF Longer(sheet, values) THEN "below" ELSE "shown"
  BY <1>1, <1>2 DEF PersistJob, Persisting
<1>4. /\ values \in Seq(Left) /\ Len(values) \in Nat /\ NotPeople(values) /\ sheet \in Seq(Row)
  BY <1>0, <1>2, CasesAre DEF PersistJob, Types
<1> HIDE DEF values
<1>5. CasesOver(sheet', values, sheet)
  BY <1>1, <1>4, CasesWritten
<1>6. /\ NotesRight(sheet) => NotesRight(sheet')
      /\ \A persons : ShownCritical(sheet, persons) => ShownCritical(sheet', persons)
      /\ \A persons : AllOrNone(sheet, persons) => AllOrNone(sheet', persons)
  BY <1>4, <1>5, CasesShow
<1>7. /\ sheet' \in Seq(Row) /\ Len(sheet') \in Nat /\ Len(sheet) \in Nat
      /\ Len(sheet) > Len(values) => Len(sheet') = Len(sheet)
      /\ ~(Len(sheet) > Len(values)) => Len(sheet') = Len(values)
  BY <1>4, <1>5, LenProperties DEF CasesOver
<1>8. Begins(sheet', values)
  <2>1. Len(sheet') >= Len(values)
    BY <1>4, <1>7
  <2> QED BY <1>4, <1>5, <2>1, LenProperties DEF Begins, CasesOver
<1>9. Persisted'
  BY <1>0, <1>1, <1>3, <1>7, <1>8 DEF Persisted, Longer, values
<1>10. summary' \in Seq(SummaryKinds)
  BY <1>0, <1>1 DEF Types
<1> QED
  BY <1>1, <1>2, <1>3, <1>6, <1>7, <1>9, <1>10, PersistingStep

LEMMA ClearBelowStep ==
  ASSUME Inv, ClearBelow
  PROVE  Inv'
<1>0. Types /\ Persisted
  BY DEF Inv
<1> DEFINE values == CasesOf(job.view)
<1>1. /\ job.at = "below" /\ summary' = summary
      /\ sheet' = SubSeq(sheet, 1, Len(values)) /\ job' = [job EXCEPT !.at = "shown"]
      /\ heard' = heard /\ enrollment' = enrollment
      /\ twice' = twice /\ reordered' = reordered /\ torn' = torn /\ told' = told
  BY DEF ClearBelow, history
<1>2. job \in PersistJob /\ job.at \in Persisting
  BY <1>0, <1>1, JobIs DEF Persisting
<1>3. job' \in PersistJob /\ job'.view = job.view /\ job'.at = "shown"
  BY <1>1, <1>2 DEF PersistJob, Persisting
<1>4. /\ values \in Seq(Left) /\ NotPeople(values) /\ sheet \in Seq(Row) /\ Begins(sheet, values)
  BY <1>0, <1>1, <1>2, CasesAre DEF PersistJob, Types, Persisted
<1> HIDE DEF values
<1>5. /\ sheet' \in Seq(Row) /\ Len(sheet') = Len(values) /\ Begins(sheet', values)
      /\ \A p : Places(sheet', p) = {}
      /\ NotesRight(sheet) => NotesRight(sheet')
  <2>1. Len(values) \in Nat /\ Len(values) <= Len(sheet)
    BY <1>4, LenProperties DEF Begins
  <2>2. /\ sheet' \in Seq(Row) /\ Len(sheet') = Len(values) /\ Len(sheet') <= Len(sheet)
        /\ \A i \in DOMAIN sheet' : sheet'[i] = sheet[i]
    BY <1>1, <1>4, <2>1, Truncated
  <2>3. Begins(sheet', values) /\ \A p : Places(sheet', p) = {}
    BY <1>4, <2>2, CasesLeft
  <2> QED BY <1>4, <2>2, <2>3, TruncatedShows
<1>6. ShownCritical(sheet', told) /\ AllOrNone(sheet', told)
  BY <1>5 DEF ShownCritical, AllOrNone, HasRow
<1>7. Persisted'
  BY <1>0, <1>1, <1>3, <1>5 DEF Persisted, values
<1>8. summary' \in Seq(SummaryKinds)
  BY <1>0, <1>1 DEF Types
<1> QED
  BY <1>1, <1>2, <1>3, <1>5, <1>6, <1>7, <1>8, PersistingStep

LEMMA NextInv ==
  ASSUME Inv, [Next]_vars
  PROVE  Inv'
<1>1. CASE UNCHANGED vars
  BY <1>1 DEF Inv, Types, Refreshed, Noted, Known, Persisted, Levels, LevelOf, Spoke, Enrolled,
              vars, sheets, history
<1>2. CASE Next
  BY <1>2, EditStep, WriteNoteStep, RefreshStep, ClearTailStep, WriteWholeStep, WriteCellsStep, ReportStep,
     StartPersistStep, PersistSummaryStep, TrimSummaryStep, PersistIndividualStep, ClearBelowStep,
     EndPersistStep, DieStep DEF Next
<1> QED
  BY <1>1, <1>2

LEMMA InvAlways == Spec => []Inv
<1> QED
  BY InitInv, NextInv, PTL DEF Spec

-----------------------------------------------------------------------------
(* Notes are carried over by participant_id, so until a refresh changes    *)
(* the places of the rows without them, whoever joins or leaves, whichever *)
(* writer comes next and wherever one dies, a note is about the person in  *)
(* its row.                                                                *)
THEOREM NotesStay == Spec => []NotesStayWithPeople
<1>1. Inv => NotesStayWithPeople
  <2> SUFFICES ASSUME Inv, ~reordered, NEW p \in Person, HasRow(sheet, p)
               PROVE  Entry(sheet, p).note \in {NoNote, p}
    BY DEF NotesStayWithPeople
  <2>1. NotesRight(sheet) /\ sheet \in Seq(Row)
    BY DEF Inv, Noted, Types
  <2>2. /\ Max(Places(sheet, p)) \in Places(sheet, p) /\ Places(sheet, p) \subseteq DOMAIN sheet
        /\ Entry(sheet, p) = sheet[Max(Places(sheet, p))].right
    BY <2>1, HasRowIs
  <2>3. sheet[Max(Places(sheet, p))].left = RowFor(p)
    BY <2>2 DEF Places
  <2> QED
    BY <2>1, <2>2, <2>3 DEF NotesRight
<1> QED
  BY <1>1, InvAlways, PTL

(* became_critical compares with what the sheet showed before: everybody   *)
(* it has told of stays in the sheet as critical, or the sheet stops       *)
(* showing anybody, unless a death leaves the end of the sheet cleared.    *)
THEOREM ToldOnce == Spec => []NeverReportedTwice
<1>1. Inv => NeverReportedTwice
  BY DEF Inv, Known, NeverReportedTwice
<1> QED
  BY <1>1, InvAlways, PTL

(* A persisted view is what its two sheets show, whatever they held and    *)
(* whichever writer died half way before.                                  *)
THEOREM ReplacedSheets == Spec => []ReplacedSheetShowsView
<1>1. Inv => ReplacedSheetShowsView
  <2> SUFFICES ASSUME Inv, job.at = "shown"
               PROVE  summary = SummaryOf(job.view) /\ Lefts(sheet) = CasesOf(job.view)
    BY DEF ReplacedSheetShowsView
  <2> DEFINE values == CasesOf(job.view)
  <2>1. /\ summary = SummaryOf(job.view) /\ Begins(sheet, values) /\ Len(sheet) = Len(values)
        /\ sheet \in Seq(Row)
    BY DEF Inv, Persisted, Types
  <2>2. values \in Seq(Left)
    BY JobIs, CasesAre DEF Inv, Persisting, PersistJob
  <2> HIDE DEF values
  <2>3. DOMAIN sheet = DOMAIN values /\ \A i \in DOMAIN values : sheet[i].left = values[i]
    BY <2>1, <2>2, LenProperties DEF Begins
  <2>4. Lefts(sheet) = values
    <3>1. values = [i \in DOMAIN values |-> values[i]]
      BY <2>2, LenProperties
    <3> QED BY <2>3, <3>1 DEF Lefts
  <2> QED
    BY <2>1, <2>4 DEF values
<1> QED
  BY <1>1, InvAlways, PTL

(* The level of everybody enrolled would be no worse had they spoken in    *)
(* one more of the sessions that _entry counts for them.                   *)
THEOREM SpeakingHelps == Spec => []SpeakingNeverHurts
<1>1. Inv => SpeakingNeverHurts
  <2> SUFFICES ASSUME Inv, NEW p \in Enrolled, NEW k \in DOMAIN Spoke(p)
               PROVE  Urgency(Active(1), Level([Spoke(p) EXCEPT ![k] = TRUE]))
                        >= Urgency(Active(1), Level(Spoke(p)))
    BY DEF SpeakingNeverHurts
  <2> DEFINE less == Spoke(p)
             more == [less EXCEPT ![k] = TRUE]
  <2>1. less \in Seq(BOOLEAN)
    BY SpokeIsList DEF Inv
  <2> HIDE DEF less
  <2>2. more \in Seq(BOOLEAN) /\ AtLeast(more, less)
    BY <2>1 DEF AtLeast, less
  <2> HIDE DEF more
  <2>3. Urgency(Active(1), Level(less)) <= Urgency(Active(1), Level(more))
    BY <2>1, <2>2, SpeakingMoreIsNoWorse
  <2>4. \A spoke \in Seq(BOOLEAN) : Urgency(Active(1), Level(spoke)) \in Int
    <3> SUFFICES ASSUME NEW spoke \in Seq(BOOLEAN) PROVE Urgency(Active(1), Level(spoke)) \in Int
      OBVIOUS
    <3> QED BY LevelsAre DEF Urgency
  <2> QED
    BY <2>1, <2>2, <2>3, <2>4 DEF less, more
<1> QED
  BY <1>1, InvAlways, PTL

(* follow_up_since_session is where the level of everybody enrolled began. *)
THEOREM SinceIsRight == Spec => []SinceMarksTheChange
<1>1. Inv => SinceMarksTheChange
  <2> SUFFICES ASSUME Inv
               PROVE  \A p \in Enrolled : Len(Spoke(p)) >= Window =>
                        BeganAt(Spoke(p), Since(Spoke(p)), Len(Spoke(p)))
    BY DEF SinceMarksTheChange, BeganAt, LevelAt
  <2> QED
    BY SpokeIsList, SinceIsWhenTheLevelBegan DEF Inv
<1> QED
  BY <1>1, InvAlways, PTL
=============================================================================
