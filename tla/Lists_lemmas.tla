------------------------------ MODULE Lists_lemmas ------------------------------
(***************************************************************************)
(* What the model's lists are made of: sorted lists, elements picked from  *)
(* a list, folds and functions computed step by step, rows deleted and     *)
(* moved by their numbers.  Induction is done with sets in the place of    *)
(* predicates, from the well-foundedness of < on Nat.                      *)
(***************************************************************************)
EXTENDS Ranks, SheetRows, Integers, FiniteSetsExt, SequencesExt, FiniteSetTheorems, SequenceTheorems, TLAPS

(* Every non-empty set of natural numbers has a least element. *)
LEMMA LeastElement ==
  ASSUME NEW T, T \subseteq Nat, T # {}
  PROVE  \E n \in T : \A m \in T : n <= m
<1> DEFINE R == OpToRel(<, Nat)
<1>1. IsWellFoundedOn(R, Nat)
  BY NatLessThanWellFounded
<1> HIDE DEF R
<1>2. PICK n \in T : \A m \in T : <<m, n>> \notin R
  BY <1>1, WFMin
<1>3. \A m \in T : ~(m < n)
  <2> SUFFICES ASSUME NEW m \in T, m < n PROVE FALSE
    OBVIOUS
  <2>1. m \in Nat /\ n \in Nat
    OBVIOUS
  <2>2. <<m, n>> \in Nat \X Nat /\ <<m, n>>[1] < <<m, n>>[2]
    BY <2>1
  <2>3. <<m, n>> \in R
    BY <2>2 DEF R, OpToRel
  <2> QED
    BY <1>2, <2>3
<1> QED
  BY <1>3

(* A set that has 0, and with every number below N its successor, has all *)
(* numbers up to N: induction in a form the provers can apply, with the   *)
(* set in the place of the predicate.                                     *)
LEMMA InductionUpTo ==
  ASSUME NEW N \in Nat, NEW T, 0 \in T,
         \A n \in 0 .. N - 1 : n \in T => n + 1 \in T
  PROVE  0 .. N \subseteq T
<1> SUFFICES ASSUME NEW k \in 0 .. N, k \notin T PROVE FALSE
  OBVIOUS
<1> DEFINE F == {n \in 0 .. N : n \notin T}
<1>1. F \subseteq Nat /\ F # {}
  OBVIOUS
<1>2. PICK n \in F : \A m \in F : n <= m
  BY <1>1, LeastElement
<1>3. n # 0
  OBVIOUS
<1>4. n - 1 \in 0 .. N - 1 /\ n - 1 \notin F
  BY <1>2, <1>3
<1>5. n - 1 + 1 \in T
  BY <1>4
<1> QED
  BY <1>5

Computes(f, n, base, step) == f[0] = base /\ \A k \in 1 .. n : f[k] = step[<<k, f[k - 1]>>]

(* There is a function that computes step by step from a first value. *)
(* Recursive functions of the model are shown equal to one of these   *)
(* before anything is proved about them.                              *)
LEMMA Recursion ==
  ASSUME NEW N \in Nat, NEW V, NEW base \in V, NEW step \in [(1 .. N) \X V -> V]
  PROVE  \E f \in [0 .. N -> V] : Computes(f, N, base, step)
<1> DEFINE T == {n \in 0 .. N : \E f \in [0 .. N -> V] : Computes(f, n, base, step)}
<1>1. 0 \in T
  <2> DEFINE g == [k \in 0 .. N |-> base]
  <2>1. g \in [0 .. N -> V] /\ Computes(g, 0, base, step)
    BY DEF Computes
  <2> HIDE DEF g
  <2> QED
    BY <2>1
<1>2. ASSUME NEW n \in 0 .. N - 1, n \in T PROVE n + 1 \in T
  <2>1. PICK f \in [0 .. N -> V] : Computes(f, n, base, step)
    BY <1>2
  <2> DEFINE g == [f EXCEPT ![n + 1] = step[<<n + 1, f[n]>>]]
  <2>2. f[n] \in V /\ n + 1 \in 1 .. N
    OBVIOUS
  <2>3. g \in [0 .. N -> V] /\ g[n + 1] = step[<<n + 1, f[n]>>]
        /\ \A k \in 0 .. n : g[k] = f[k]
    BY <2>2
  <2> HIDE DEF g
  <2>4. Computes(g, n + 1, base, step)
    <3>1. g[0] = base
      BY <2>1, <2>3 DEF Computes
    <3>2. ASSUME NEW k \in 1 .. n + 1 PROVE g[k] = step[<<k, g[k - 1]>>]
      <4>1. CASE k = n + 1
        BY <2>3, <4>1
      <4>2. CASE k # n + 1
        <5>1. k \in 1 .. n /\ k \in 0 .. n /\ k - 1 \in 0 .. n
          BY <4>2
        <5> QED
          BY <2>1, <2>3, <5>1 DEF Computes
      <4> QED
        BY <4>1, <4>2
    <3> QED
      BY <3>1, <3>2 DEF Computes
  <2> QED
    BY <2>2, <2>3, <2>4
<1>3. N \in T
  <2> HIDE DEF T
  <2> QED
    BY <1>1, <1>2, InductionUpTo
<1> QED
  BY <1>3
-----------------------------------------------------------------------------
StrictOrder(S, before) ==
  /\ \A x \in S : <<x, x>> \notin before
  /\ \A x, y \in S : x # y => <<x, y>> \in before \/ <<y, x>> \in before
  /\ \A x, y, z \in S : <<x, y>> \in before /\ <<y, z>> \in before => <<x, z>> \in before

(* A list of all the elements of S, each once, in that order.              *)
ListsInOrder(f, n, S, before) ==
  /\ f \in [1 .. n -> S]
  /\ \A x \in S : \E k \in 1 .. n : f[k] = x
  /\ \A i, j \in 1 .. n : i < j <=> <<f[i], f[j]>> \in before

(* InOrderOf lists every element of the set once, in the order. *)
LEMMA OrderedList ==
  ASSUME NEW S, IsFiniteSet(S), NEW before, StrictOrder(S, before)
  PROVE  /\ Cardinality(S) \in Nat
         /\ ListsInOrder(InOrderOf(S, before), Cardinality(S), S, before)
<1> DEFINE n == Cardinality(S)
           ahead(x) == {y \in S : <<y, x>> \in before}
           place == [x \in S |-> Cardinality(ahead(x))]
           list == InOrderOf(S, before)
<1>0. n \in Nat
  BY FS_CardinalityType
<1>1. ASSUME NEW x \in S PROVE /\ IsFiniteSet(ahead(x)) /\ place[x] = Cardinality(ahead(x))
                               /\ place[x] \in 0 .. n - 1
  <2>1. ahead(x) \in SUBSET S /\ x \notin ahead(x)
    BY DEF StrictOrder
  <2>2. IsFiniteSet(ahead(x)) /\ Cardinality(ahead(x)) \in Nat
    BY <2>1, FS_Subset, FS_CardinalityType
  <2>3. Cardinality(ahead(x)) <= n /\ Cardinality(ahead(x)) # n
    <3> HIDE DEF ahead
    <3> QED BY <2>1, FS_Subset
  <2> HIDE DEF ahead, n
  <2> QED
    BY <1>0, <2>2, <2>3
<1>2. ASSUME NEW x \in S, NEW y \in S, <<x, y>> \in before
      PROVE  place[x] < place[y]
  <2>1. ahead(x) \in SUBSET ahead(y) /\ x \in ahead(y) /\ x \notin ahead(x)
    BY <1>2 DEF StrictOrder
  <2>2. IsFiniteSet(ahead(y)) /\ place[x] = Cardinality(ahead(x)) /\ place[y] = Cardinality(ahead(y))
    BY <1>1
  <2>3. place[x] <= place[y] /\ place[x] # place[y]
    <3> HIDE DEF ahead, place
    <3> QED BY <2>1, <2>2, FS_Subset
  <2>4. place[x] \in 0 .. n - 1 /\ place[y] \in 0 .. n - 1
    BY <1>1
  <2> HIDE DEF place, n
  <2> QED
    BY <1>0, <2>3, <2>4
<1>3. place \in Injection(S, 0 .. n - 1)
  <2>1. place \in [S -> 0 .. n - 1]
    <3> HIDE DEF n
    <3> QED BY <1>1
  <2>2. ASSUME NEW x \in S, NEW y \in S, place[x] = place[y] PROVE x = y
    <3> SUFFICES ASSUME x # y PROVE FALSE
      OBVIOUS
    <3>1. <<x, y>> \in before \/ <<y, x>> \in before
      BY DEF StrictOrder
    <3>2. place[x] \in 0 .. n - 1 /\ place[y] \in 0 .. n - 1
      BY <1>1
    <3> HIDE DEF n
    <3> HIDE DEF place
    <3> QED
      BY <1>0, <1>2, <2>2, <3>1, <3>2
  <2> HIDE DEF place, n
  <2> QED
    BY <2>1, <2>2 DEF Injection, IsInjective
<1>4. IsFiniteSet(0 .. n - 1) /\ Cardinality(0 .. n - 1) = n
  <2> HIDE DEF n
  <2> QED BY <1>0, FS_Interval
<1>5. place \in Surjection(S, 0 .. n - 1)
  <2> HIDE DEF place
  <2> QED BY <1>3, <1>4, FS_Injection
<1>6. ASSUME NEW k \in 1 .. n
      PROVE  list[k] \in S /\ place[list[k]] = k - 1
  <2>1. k - 1 \in 0 .. n - 1
    BY <1>0
  <2>2. \E x \in S : place[x] = k - 1
    <3> HIDE DEF place, n
    <3> QED BY <1>5, <2>1 DEF Surjection
  <2>3. \E x \in S : Cardinality(ahead(x)) = k - 1
    BY <2>2
  <2>4. list[k] = CHOOSE x \in S : Cardinality(ahead(x)) = k - 1
    BY DEF InOrderOf
  <2> HIDE DEF ahead
  <2>5. list[k] \in S /\ Cardinality(ahead(list[k])) = k - 1
    <3> HIDE DEF list
    <3> QED BY <2>3, <2>4
  <2> QED
    BY <2>5 DEF ahead
<1>7. list \in [1 .. n -> S]
  BY <1>6 DEF InOrderOf
<1>8. ASSUME NEW x \in S PROVE \E k \in 1 .. n : list[k] = x
  <2> DEFINE k == place[x] + 1
  <2>1. k \in 1 .. n /\ k - 1 = place[x]
    <3>1. place[x] \in 0 .. n - 1
      BY <1>1
    <3> HIDE DEF place, n
    <3> QED BY <1>0, <3>1
  <2>2. list[k] \in S /\ place[list[k]] = place[x]
    <3> HIDE DEF list, place, n
    <3> QED BY <1>6, <2>1
  <2>3. list[k] = x
    <3> HIDE DEF list, place
    <3> QED BY <1>3, <2>2 DEF Injection, IsInjective
  <2> QED
    BY <2>1, <2>3
<1>9. ASSUME NEW i \in 1 .. n, NEW j \in 1 .. n
      PROVE  i < j <=> <<list[i], list[j]>> \in before
  <2>1. /\ list[i] \in S /\ place[list[i]] = i - 1
        /\ list[j] \in S /\ place[list[j]] = j - 1
    BY <1>6
  <2>2. CASE i = j
    BY <2>1, <2>2 DEF StrictOrder
  <2>3. CASE i # j
    <3>1. list[i] # list[j]
      <4> HIDE DEF list, place
      <4> QED BY <2>1, <2>3
    <3>2. <<list[i], list[j]>> \in before \/ <<list[j], list[i]>> \in before
      <4> HIDE DEF list
      <4> QED BY <2>1, <3>1 DEF StrictOrder
    <3>3. /\ <<list[i], list[j]>> \in before => place[list[i]] < place[list[j]]
          /\ <<list[j], list[i]>> \in before => place[list[j]] < place[list[i]]
      <4> HIDE DEF list, place
      <4> QED BY <1>2, <2>1
    <3> HIDE DEF list, place
    <3> QED
      BY <2>1, <3>2, <3>3
  <2> QED
    BY <2>2, <2>3
<1> HIDE DEF list, n
<1> QED
  BY <1>0, <1>7, <1>8, <1>9 DEF list, n, ListsInOrder

(* Whatever lists the elements once and in the order is InOrderOf. *)
LEMMA OnlyOrderedList ==
  ASSUME NEW S, IsFiniteSet(S), NEW before, StrictOrder(S, before),
         NEW n \in Nat, NEW f, ListsInOrder(f, n, S, before)
  PROVE  n = Cardinality(S) /\ f = InOrderOf(S, before)
<1>0. /\ f \in [1 .. n -> S] /\ \A x \in S : \E k \in 1 .. n : f[k] = x
      /\ \A i, j \in 1 .. n : i < j <=> <<f[i], f[j]>> \in before
  BY DEF ListsInOrder
<1> USE <1>0
<1> DEFINE ahead(x) == {y \in S : <<y, x>> \in before}
<1>1. \A i, j \in 1 .. n : f[i] = f[j] => i = j
  <2> SUFFICES ASSUME NEW i \in 1 .. n, NEW j \in 1 .. n, i < j, f[i] = f[j] PROVE FALSE
    OBVIOUS
  <2> QED
    BY DEF StrictOrder
<1>2. f \in Bijection(1 .. n, S)
  BY <1>1 DEF Bijection, Injection, Surjection, IsInjective
<1>3. n = Cardinality(S)
  BY <1>2, FS_CountingElements DEF ExistsBijection
<1>4. ASSUME NEW k \in 1 .. n PROVE Cardinality(ahead(f[k])) = k - 1
  <2> DEFINE g == [i \in 1 .. k - 1 |-> f[i]]
  <2>1. \A i \in 1 .. n : f[i] \in ahead(f[k]) <=> i < k
    <3> SUFFICES ASSUME NEW i \in 1 .. n PROVE f[i] \in ahead(f[k]) <=> i < k
      OBVIOUS
    <3>1. i < k \/ i = k \/ k < i
      OBVIOUS
    <3>2. f[i] \in S /\ f[k] \in S
      OBVIOUS
    <3> QED
      BY <3>1, <3>2 DEF StrictOrder
  <2>2. g \in [1 .. k - 1 -> ahead(f[k])]
    <3> SUFFICES ASSUME NEW i \in 1 .. k - 1 PROVE f[i] \in ahead(f[k])
      OBVIOUS
    <3> QED BY <2>1
  <2>3. \A y \in ahead(f[k]) : \E i \in 1 .. k - 1 : g[i] = y
    <3> SUFFICES ASSUME NEW y \in ahead(f[k]) PROVE \E i \in 1 .. k - 1 : f[i] = y
      OBVIOUS
    <3>1. PICK i \in 1 .. n : f[i] = y
      OBVIOUS
    <3>2. i < k
      BY <2>1, <3>1
    <3> QED BY <3>1, <3>2
  <2>4. \A i, j \in 1 .. k - 1 : g[i] = g[j] => i = j
    BY <1>1
  <2>5. g \in Bijection(1 .. k - 1, ahead(f[k]))
    <3> HIDE DEF g, ahead
    <3> QED BY <2>2, <2>3, <2>4 DEF Bijection, Injection, Surjection, IsInjective
  <2>6. k - 1 \in Nat
    OBVIOUS
  <2> HIDE DEF ahead
  <2> QED
    BY <2>5, <2>6, FS_CountingElements DEF ExistsBijection
<1>5. ASSUME NEW k \in 1 .. n PROVE InOrderOf(S, before)[k] = f[k]
  <2>1. InOrderOf(S, before)[k] = CHOOSE x \in S : Cardinality(ahead(x)) = k - 1
    BY <1>3 DEF InOrderOf
  <2>2. ASSUME NEW x \in S, Cardinality(ahead(x)) = k - 1 PROVE x = f[k]
    <3>1. PICK i \in 1 .. n : f[i] = x
      OBVIOUS
    <3>2. Cardinality(ahead(x)) = i - 1
      BY <1>4, <3>1
    <3>3. i = k
      BY <2>2, <3>2
    <3> QED BY <3>1, <3>3
  <2>3. f[k] \in S /\ Cardinality(ahead(f[k])) = k - 1
    BY <1>4
  <2> HIDE DEF ahead
  <2> QED
    BY <2>1, <2>2, <2>3
<1>6. InOrderOf(S, before) \in [1 .. n -> S]
  BY <1>3, OrderedList DEF ListsInOrder
<1> QED
  BY <1>3, <1>5, <1>6

-----------------------------------------------------------------------------
LessPairs(S) == {pair \in S \X S : pair[1] < pair[2]}

(* The order of numbers is a strict order. *)
LEMMA LessIsStrict == ASSUME NEW S, S \subseteq Int PROVE StrictOrder(S, LessPairs(S))
<1>1. \A x, y \in S : <<x, y>> \in LessPairs(S) <=> x < y
  BY DEF LessPairs
<1>2. \A x \in S : x \in Int
  OBVIOUS
<1> QED
  BY <1>1, <1>2 DEF StrictOrder

IncreasingList(f, n, S) ==
  /\ f \in [1 .. n -> S]
  /\ \A x \in S : \E k \in 1 .. n : f[k] = x
  /\ \A i, j \in 1 .. n : i < j <=> f[i] < f[j]

(* An increasing list of numbers is a list in the order of numbers. *)
LEMMA IncreasingIsInOrder ==
  ASSUME NEW S, S \subseteq Int, NEW n, NEW f
  PROVE  IncreasingList(f, n, S) <=> ListsInOrder(f, n, S, LessPairs(S))
<1>1. ASSUME f \in [1 .. n -> S], NEW i \in 1 .. n, NEW j \in 1 .. n
      PROVE  f[i] < f[j] <=> <<f[i], f[j]>> \in LessPairs(S)
  BY <1>1 DEF LessPairs
<1> QED
  BY <1>1 DEF IncreasingList, ListsInOrder

(* Ascending lists the numbers of the set, smallest first. *)
LEMMA SortedList ==
  ASSUME NEW S, IsFiniteSet(S), S \subseteq Int
  PROVE  Cardinality(S) \in Nat /\ IncreasingList(Ascending(S), Cardinality(S), S)
<1>1. Ascending(S) = InOrderOf(S, LessPairs(S))
  BY DEF Ascending, LessPairs
<1> QED
  BY <1>1, LessIsStrict, OrderedList, IncreasingIsInOrder

(* Whatever lists the numbers of the set increasingly is Ascending. *)
LEMMA OnlySortedList ==
  ASSUME NEW S, IsFiniteSet(S), S \subseteq Int, NEW n \in Nat, NEW f, IncreasingList(f, n, S)
  PROVE  n = Cardinality(S) /\ f = Ascending(S)
<1>1. Ascending(S) = InOrderOf(S, LessPairs(S))
  BY DEF Ascending, LessPairs
<1> QED
  BY <1>1, LessIsStrict, OnlyOrderedList, IncreasingIsInOrder

-----------------------------------------------------------------------------

(* A set of numbers up to n is finite. *)
LEMMA BoundedSet ==
  ASSUME NEW n \in Nat, NEW P, P \subseteq 1 .. n
  PROVE  IsFiniteSet(P) /\ P \subseteq Int /\ P \subseteq Nat /\ Cardinality(P) \in Nat
<1>1. IsFiniteSet(1 .. n) /\ P \in SUBSET (1 .. n)
  BY FS_Interval
<1>2. IsFiniteSet(P)
  BY <1>1, FS_Subset
<1> QED
  BY <1>2, FS_CardinalityType

(* A set of places in a sequence is finite. *)
LEMMA PlacesInSeq ==
  ASSUME NEW T, NEW s \in Seq(T), NEW P, P \subseteq DOMAIN s
  PROVE  IsFiniteSet(P) /\ P \subseteq Int /\ Cardinality(P) \in Nat
<1>1. Len(s) \in Nat /\ DOMAIN s = 1 .. Len(s)
  BY LenProperties
<1> QED
  BY <1>1, BoundedSet

(* What Picked returns: the elements at the places, in their order. *)
LEMMA PickedIs ==
  ASSUME NEW T, NEW s \in Seq(T), NEW places, places \subseteq DOMAIN s
  PROVE  /\ Cardinality(places) \in Nat /\ IsFiniteSet(places)
         /\ IncreasingList(Ascending(places), Cardinality(places), places)
         /\ Picked(s, places) \in Seq(T) /\ Len(Picked(s, places)) = Cardinality(places)
         /\ DOMAIN Picked(s, places) = 1 .. Cardinality(places)
         /\ \A k \in 1 .. Cardinality(places) : Picked(s, places)[k] = s[Ascending(places)[k]]
<1> DEFINE n == Cardinality(places)
           at == Ascending(places)
           t == Picked(s, places)
<1>1. DOMAIN s = 1 .. Len(s) /\ Len(s) \in Nat /\ \A i \in DOMAIN s : s[i] \in T
  BY LenProperties, ElementOfSeq
<1>2. IsFiniteSet(places) /\ places \subseteq Int
  BY PlacesInSeq
<1>3. n \in Nat /\ IncreasingList(at, n, places)
  BY <1>2, SortedList
<1>4. t = [k \in DOMAIN at |-> s[at[k]]]
  BY DEF Picked
<1> HIDE DEF t, at, n
<1>5. at \in [1 .. n -> places]
  BY <1>3 DEF IncreasingList
<1>6. t \in [1 .. n -> T] /\ \A k \in 1 .. n : t[k] = s[at[k]]
  BY <1>1, <1>4, <1>5
<1>7. t \in Seq(T) /\ Len(t) = n /\ DOMAIN t = 1 .. n
  BY <1>3, <1>6
<1> QED
  BY <1>2, <1>3, <1>6, <1>7 DEF n, at, t

(* What is picked depends on the entries at the places only.               *)
LEMMA PickedSame ==
  ASSUME NEW places, IsFiniteSet(places), places \subseteq Int,
         NEW s, NEW t, \A i \in places : s[i] = t[i]
  PROVE  Picked(s, places) = Picked(t, places)
<1>1. IncreasingList(Ascending(places), Cardinality(places), places)
  BY SortedList
<1>2. \A k \in DOMAIN Ascending(places) : Ascending(places)[k] \in places
  BY <1>1 DEF IncreasingList
<1> QED
  BY <1>2 DEF Picked

Through(s, f, n) == [k \in 1 .. n |-> s[f[k]]]

(* Any increasing list of the places gives the same elements as Picked. *)
LEMMA PickedBy ==
  ASSUME NEW s, NEW places, IsFiniteSet(places), places \subseteq Int,
         NEW n \in Nat, NEW f, IncreasingList(f, n, places)
  PROVE  Picked(s, places) = Through(s, f, n)
<1>1. f = Ascending(places)
  BY OnlySortedList
<1>2. DOMAIN f = 1 .. n
  BY DEF IncreasingList
<1> QED
  BY <1>1, <1>2 DEF Picked, Through

(* Picking all places leaves the sequence as it is. *)
LEMMA PickedAll ==
  ASSUME NEW T, NEW s \in Seq(T)
  PROVE  Picked(s, DOMAIN s) = s
<1> DEFINE n == Len(s)
           f == [k \in 1 .. n |-> k]
<1>1. n \in Nat /\ DOMAIN s = 1 .. n
  BY LenProperties
<1>2. IsFiniteSet(1 .. n) /\ 1 .. n \subseteq Int
  BY <1>1, FS_Interval
<1>3. IncreasingList(f, n, 1 .. n)
  BY <1>1 DEF IncreasingList
<1> HIDE DEF f, n
<1>4. Picked(s, 1 .. n) = Through(s, f, n)
  BY <1>1, <1>2, <1>3, PickedBy
<1>5. s = [k \in 1 .. n |-> s[k]]
  BY <1>1, LenProperties DEF n
<1> QED
  BY <1>1, <1>4, <1>5 DEF f, Through

(* Picking from what was picked.                                           *)
LEMMA PickedTwice ==
  ASSUME NEW T, NEW s \in Seq(T), NEW places, places \subseteq DOMAIN s,
         NEW some, some \subseteq DOMAIN Picked(s, places)
  PROVE  Picked(Picked(s, places), some) = Picked(s, {Ascending(places)[k] : k \in some})
<1> DEFINE n == Cardinality(places)
           at == Ascending(places)
           t == Picked(s, places)
           m == Cardinality(some)
           to == Ascending(some)
           both == {at[k] : k \in some}
           f == [k \in 1 .. m |-> at[to[k]]]
<1>1. /\ n \in Nat /\ IncreasingList(at, n, places) /\ t \in Seq(T) /\ DOMAIN t = 1 .. n
      /\ \A k \in 1 .. n : t[k] = s[at[k]]
  BY PickedIs
<1>2. /\ m \in Nat /\ IncreasingList(to, m, some)
  <2> HIDE DEF t
  <2> QED BY <1>1, PickedIs DEF t
<1>3. /\ at \in [1 .. n -> places] /\ \A i, j \in 1 .. n : i < j <=> at[i] < at[j]
      /\ to \in [1 .. m -> some] /\ \A i, j \in 1 .. m : i < j <=> to[i] < to[j]
      /\ \A x \in some : \E k \in 1 .. m : to[k] = x
      /\ some \subseteq 1 .. n
  BY <1>1, <1>2 DEF IncreasingList
<1> HIDE DEF n, at, m, to, t
<1>4. IncreasingList(f, m, both)
  <2>1. f \in [1 .. m -> both]
    BY <1>3
  <2>2. ASSUME NEW x \in both PROVE \E k \in 1 .. m : f[k] = x
    BY <1>3
  <2>3. ASSUME NEW i \in 1 .. m, NEW j \in 1 .. m PROVE i < j <=> f[i] < f[j]
    <3>1. to[i] \in 1 .. n /\ to[j] \in 1 .. n
      BY <1>3
    <3> QED BY <1>3, <3>1
  <2> HIDE DEF f, both
  <2> QED
    BY <2>1, <2>2, <2>3 DEF IncreasingList
<1>5. both \subseteq DOMAIN s
  BY <1>3
<1>6. IsFiniteSet(both) /\ both \subseteq Int
  <2> HIDE DEF both
  <2> QED BY <1>5, PlacesInSeq
<1>7. Picked(s, both) = Through(s, f, m)
  <2> HIDE DEF f, both
  <2> QED BY <1>2, <1>4, <1>6, PickedBy
<1>8. IsFiniteSet(some) /\ some \subseteq Int
  BY <1>1, <1>3, BoundedSet
<1>9. Picked(t, some) = Through(t, to, m)
  BY <1>2, <1>8, PickedBy
<1>10. \A k \in 1 .. m : t[to[k]] = s[f[k]]
  BY <1>1, <1>3
<1>11. Picked(t, some) = Picked(s, both)
  BY <1>7, <1>9, <1>10 DEF Through
<1> QED
  BY <1>11 DEF t, at, both

-----------------------------------------------------------------------------

(* Max of a finite set of numbers is its greatest element. *)
LEMMA MaxIs ==
  ASSUME NEW S, S # {}, IsFiniteSet(S), S \subseteq Int
  PROVE  Max(S) \in S /\ \A x \in S : x <= Max(S)
<1> DEFINE n == Cardinality(S)
           at == Ascending(S)
<1>1. n \in Nat /\ IncreasingList(at, n, S)
  BY SortedList
<1>2. n # 0
  BY FS_EmptySet
<1> HIDE DEF at, n
<1>3. at[n] \in S /\ \A x \in S : x <= at[n]
  <2>1. n \in 1 .. n
    BY <1>1, <1>2
  <2>2. at[n] \in S
    BY <1>1, <2>1 DEF IncreasingList
  <2>3. ASSUME NEW x \in S PROVE x <= at[n]
    <3>1. PICK k \in 1 .. n : at[k] = x
      BY <1>1 DEF IncreasingList
    <3>2. ~(n < k)
      BY <1>1
    <3>3. ~(at[n] < at[k])
      BY <1>1, <2>1, <3>2 DEF IncreasingList
    <3>4. at[n] \in Int /\ x \in Int
      BY <2>2
    <3> QED BY <3>1, <3>3, <3>4
  <2> QED BY <2>2, <2>3
<1>4. \E m \in S : \A x \in S : x <= m
  BY <1>3
<1> QED
  BY <1>4 DEF Max

(* What MapThenFoldSet computes for the prefixes of a list of length n,    *)
(* whose places it takes from the last to the first.                       *)
FoldsSets(f, n, base, step) ==
  \A s \in SUBSET (1 .. n) :
    f[s] = IF s = {} THEN base ELSE step[<<Max(s), f[s \ {Max(s)}]>>]

(* There is a fold over the subsets of 1 .. n that takes the greatest  *)
(* element off at every step, as the folds of the community modules do *)
(* with MapThenFoldSet.                                                *)
LEMMA RecursionOnSets ==
  ASSUME NEW n \in Nat, NEW V, NEW base \in V, NEW step \in [(1 .. n) \X V -> V]
  PROVE  \E f \in [SUBSET (1 .. n) -> V] : FoldsSets(f, n, base, step)
<1> DEFINE Upto(f, m) ==
             \A s \in SUBSET (1 .. n) : Cardinality(s) <= m =>
               f[s] = IF s = {} THEN base ELSE step[<<Max(s), f[s \ {Max(s)}]>>]
           T == {m \in 0 .. n : \E f \in [SUBSET (1 .. n) -> V] : Upto(f, m)}
<1>1. ASSUME NEW s \in SUBSET (1 .. n)
      PROVE  /\ IsFiniteSet(s) /\ Cardinality(s) \in 0 .. n /\ (Cardinality(s) = 0 <=> s = {})
             /\ s # {} => /\ Max(s) \in 1 .. n /\ s \ {Max(s)} \in SUBSET (1 .. n)
                          /\ Cardinality(s \ {Max(s)}) = Cardinality(s) - 1
  <2>1. IsFiniteSet(s) /\ s \subseteq Int /\ Cardinality(s) \in Nat
    BY BoundedSet
  <2>2. Cardinality(s) <= n
    <3>1. IsFiniteSet(1 .. n) /\ Cardinality(1 .. n) = n
      BY FS_Interval
    <3>2. Cardinality(s) <= Cardinality(1 .. n)
      BY <3>1, FS_Subset
    <3> QED BY <3>1, <3>2
  <2>3. Cardinality(s) = 0 <=> s = {}
    BY <2>1, FS_EmptySet
  <2>4. s # {} => Max(s) \in s
    BY <2>1, MaxIs
  <2>5. s # {} => Cardinality(s \ {Max(s)}) = Cardinality(s) - 1
    BY <2>1, <2>4, FS_RemoveElement
  <2>6. s # {} => Max(s) \in 1 .. n /\ s \ {Max(s)} \in SUBSET (1 .. n)
    BY <2>4
  <2>7. Cardinality(s) \in 0 .. n
    BY <2>1, <2>2
  <2> QED
    BY <2>1, <2>3, <2>5, <2>6, <2>7
<1>2. 0 \in T
  <2> DEFINE g == [s \in SUBSET (1 .. n) |-> base]
  <2>1. g \in [SUBSET (1 .. n) -> V]
    OBVIOUS
  <2>2. Upto(g, 0)
    <3> SUFFICES ASSUME NEW s \in SUBSET (1 .. n), Cardinality(s) <= 0
                 PROVE  g[s] = IF s = {} THEN base ELSE step[<<Max(s), g[s \ {Max(s)}]>>]
      OBVIOUS
    <3>1. Cardinality(s) \in 0 .. n /\ (Cardinality(s) = 0 <=> s = {})
      BY <1>1
    <3>2. s = {}
      BY <3>1
    <3> QED BY <3>2
  <2> HIDE DEF g, Upto
  <2> QED
    BY <2>1, <2>2
<1>3. ASSUME NEW m \in 0 .. n - 1, m \in T PROVE m + 1 \in T
  <2>1. PICK f \in [SUBSET (1 .. n) -> V] : Upto(f, m)
    BY <1>3
  <2> DEFINE now(s) == IF s = {} THEN base ELSE step[<<Max(s), f[s \ {Max(s)}]>>]
             g == [s \in SUBSET (1 .. n) |-> now(s)]
  <2>2. g \in [SUBSET (1 .. n) -> V]
    <3>1. ASSUME NEW s \in SUBSET (1 .. n) PROVE now(s) \in V
      <4>1. CASE s = {}
        BY <4>1
      <4>2. CASE s # {}
        <5>1. Max(s) \in 1 .. n /\ f[s \ {Max(s)}] \in V
          BY <1>1, <4>2
        <5> QED BY <4>2, <5>1
      <4> QED BY <4>1, <4>2
    <3> HIDE DEF now
    <3> QED BY <3>1
  <2>3. \A s \in SUBSET (1 .. n) : Cardinality(s) <= m => g[s] = f[s]
    BY <2>1
  <2>4. Upto(g, m + 1)
    <3> SUFFICES ASSUME NEW s \in SUBSET (1 .. n), Cardinality(s) <= m + 1, s # {}
                 PROVE  g[s] = step[<<Max(s), g[s \ {Max(s)}]>>]
      OBVIOUS
    <3>1. s \ {Max(s)} \in SUBSET (1 .. n) /\ Cardinality(s \ {Max(s)}) <= m
      BY <1>1
    <3>2. g[s \ {Max(s)}] = f[s \ {Max(s)}]
      <4> HIDE DEF g
      <4> QED BY <2>3, <3>1
    <3>3. g[s] = step[<<Max(s), f[s \ {Max(s)}]>>]
      OBVIOUS
    <3> HIDE DEF g
    <3> QED BY <3>2, <3>3
  <2>5. m + 1 \in 0 .. n
    OBVIOUS
  <2> HIDE DEF g, Upto
  <2> QED
    BY <2>2, <2>4, <2>5
<1>4. n \in T
  <2> HIDE DEF T
  <2> QED
    BY <1>2, <1>3, InductionUpTo
<1>5. PICK f \in [SUBSET (1 .. n) -> V] : Upto(f, n)
  BY <1>4
<1>6. FoldsSets(f, n, base, step)
  <2>1. ASSUME NEW s \in SUBSET (1 .. n)
        PROVE  f[s] = IF s = {} THEN base ELSE step[<<Max(s), f[s \ {Max(s)}]>>]
    <3>1. Cardinality(s) \in 0 .. n
      BY <1>1, Zenon
    <3>2. Cardinality(s) <= n
      BY <3>1
    <3> QED
      BY <1>5, <3>2
  <2> QED
    BY <2>1 DEF FoldsSets
<1> QED
  BY <1>6

(* On the sets 1 .. k such a fold is a computation step by step. *)
LEMMA FoldsPrefixes ==
  ASSUME NEW n \in Nat, NEW V, NEW base, NEW step, NEW f \in [SUBSET (1 .. n) -> V],
         FoldsSets(f, n, base, step)
  PROVE  /\ [k \in 0 .. n |-> f[1 .. k]] \in [0 .. n -> V]
         /\ Computes([k \in 0 .. n |-> f[1 .. k]], n, base, step)
<1> DEFINE r == [k \in 0 .. n |-> f[1 .. k]]
<1>1. r \in [0 .. n -> V]
  <2> SUFFICES ASSUME NEW k \in 0 .. n PROVE f[1 .. k] \in V
    OBVIOUS
  <2>1. 1 .. k \in SUBSET (1 .. n)
    OBVIOUS
  <2> QED BY <2>1
<1>2. r[0] = base
  <2>1. 1 .. 0 = {} /\ {} \in SUBSET (1 .. n) /\ 0 \in 0 .. n
    OBVIOUS
  <2>2. f[{}] = base
    BY <2>1 DEF FoldsSets
  <2>3. r[0] = f[1 .. 0]
    BY <2>1
  <2> QED BY <2>1, <2>2, <2>3
<1>3. ASSUME NEW k \in 1 .. n PROVE r[k] = step[<<k, r[k - 1]>>]
  <2>1. 1 .. k \in SUBSET (1 .. n) /\ 1 .. k # {} /\ (1 .. k) \ {k} = 1 .. k - 1
    OBVIOUS
  <2>2. IsFiniteSet(1 .. k) /\ 1 .. k \subseteq Int
    BY FS_Interval
  <2>3. Max(1 .. k) \in 1 .. k /\ \A x \in 1 .. k : x <= Max(1 .. k)
    BY <2>1, <2>2, MaxIs
  <2>4. k \in 1 .. k
    OBVIOUS
  <2>5. Max(1 .. k) = k
    BY <2>3, <2>4
  <2>6. f[1 .. k] = step[<<k, f[1 .. k - 1]>>]
    BY <2>1, <2>5 DEF FoldsSets
  <2>7. k - 1 \in 0 .. n /\ k \in 0 .. n
    OBVIOUS
  <2> QED BY <2>6, <2>7
<1> HIDE DEF r
<1>4. Computes(r, n, base, step)
  BY <1>2, <1>3 DEF Computes
<1> QED
  BY <1>1, <1>4 DEF r

-----------------------------------------------------------------------------
Joins(r, s, t, T) ==
  /\ r \in Seq(T) /\ Len(r) = Len(s) + Len(t)
  /\ Len(s) \in Nat /\ Len(t) \in Nat
  /\ \A i \in 1 .. Len(s) : r[i] = s[i]
  /\ \A k \in 1 .. Len(t) : r[Len(s) + k] = t[k]
  /\ \A i \in 1 .. Len(r) : i \in 1 .. Len(s) \/ \E k \in 1 .. Len(t) : i = Len(s) + k

(* The length, the domain and the elements of a concatenation. *)
LEMMA Joined ==
  ASSUME NEW T, NEW s \in Seq(T), NEW t \in Seq(T)
  PROVE  Joins(s \o t, s, t, T)
<1>1. Len(s) \in Nat /\ Len(t) \in Nat
  BY LenProperties
<1>2. /\ s \o t \in Seq(T) /\ Len(s \o t) = Len(s) + Len(t)
      /\ \A i \in 1 .. Len(s) + Len(t) : (s \o t)[i] = IF i <= Len(s) THEN s[i] ELSE t[i - Len(s)]
  BY ConcatProperties
<1>3. \A i \in 1 .. Len(s) : (s \o t)[i] = s[i]
  BY <1>1, <1>2
<1>4. ASSUME NEW k \in 1 .. Len(t) PROVE (s \o t)[Len(s) + k] = t[k]
  <2>1. Len(s) + k \in 1 .. Len(s) + Len(t) /\ ~(Len(s) + k <= Len(s)) /\ Len(s) + k - Len(s) = k
    BY <1>1
  <2> QED BY <1>2, <2>1
<1>5. ASSUME NEW i \in 1 .. Len(s) + Len(t), i \notin 1 .. Len(s)
      PROVE  \E k \in 1 .. Len(t) : i = Len(s) + k
  <2>1. i - Len(s) \in 1 .. Len(t) /\ i = Len(s) + (i - Len(s))
    BY <1>1, <1>5
  <2> QED BY <2>1
<1> QED
  BY <1>1, <1>2, <1>3, <1>4, <1>5 DEF Joins

(* Taking one element out.                                                 *)
LEMMA RemovedIs ==
  ASSUME NEW T, NEW s \in Seq(T), NEW i \in DOMAIN s
  PROVE  RemoveAt(s, i) = Picked(s, DOMAIN s \ {i})
<1> DEFINE n == Len(s)
           f == [k \in 1 .. n - 1 |-> IF k < i THEN k ELSE k + 1]
           front == SubSeq(s, 1, i - 1)
           back == SubSeq(s, i + 1, n)
           P == 1 .. n \ {i}
<1>1. n \in Nat /\ DOMAIN s = 1 .. n /\ i \in 1 .. n
  BY LenProperties
<1>2. P \subseteq 1 .. n /\ IsFiniteSet(P) /\ P \subseteq Int
  BY <1>1, BoundedSet
<1>3. IncreasingList(f, n - 1, P)
  <2>1. f \in [1 .. n - 1 -> P]
    BY <1>1
  <2>2. ASSUME NEW x \in P PROVE \E k \in 1 .. n - 1 : f[k] = x
    <3>1. CASE x < i
      <4>1. x \in 1 .. n - 1 /\ f[x] = x
        BY <1>1, <3>1
      <4> QED BY <4>1
    <3>2. CASE ~(x < i)
      <4>1. x - 1 \in 1 .. n - 1 /\ f[x - 1] = x
        BY <1>1, <3>2
      <4> QED BY <4>1
    <3> QED BY <3>1, <3>2
  <2>3. \A j, k \in 1 .. n - 1 : j < k <=> f[j] < f[k]
    BY <1>1
  <2> QED BY <2>1, <2>2, <2>3 DEF IncreasingList
<1>4. Picked(s, P) = Through(s, f, n - 1)
  <2> HIDE DEF f, P
  <2>1. n - 1 \in Nat
    BY <1>1
  <2> QED BY <1>2, <1>3, <2>1, PickedBy
<1>5. /\ front \in Seq(T) /\ Len(front) = i - 1
      /\ \A k \in 1 .. i - 1 : front[k] = s[k]
  BY <1>1
<1>6. /\ back \in Seq(T) /\ Len(back) = n - i
      /\ \A k \in 1 .. n - i : back[k] = s[i + k]
  BY <1>1
<1> DEFINE r == front \o back
<1>7. Joins(r, front, back, T)
  <2> HIDE DEF front, back
  <2> QED BY <1>5, <1>6, Joined
<1> HIDE DEF front, back, r
<1>8. r \in Seq(T) /\ Len(r) = n - 1
  BY <1>1, <1>5, <1>6, <1>7 DEF Joins
<1>9. ASSUME NEW k \in 1 .. n - 1 PROVE r[k] = s[f[k]]
  <2>1. CASE k < i
    <3>1. k \in 1 .. i - 1 /\ f[k] = k
      BY <1>1, <2>1
    <3> QED BY <1>5, <1>7, <3>1 DEF Joins
  <2>2. CASE ~(k < i)
    <3>1. k - (i - 1) \in 1 .. n - i /\ (i - 1) + (k - (i - 1)) = k /\ f[k] = k + 1
          /\ i + (k - (i - 1)) = k + 1
      BY <1>1, <2>2
    <3> HIDE DEF f, P
    <3>2. r[Len(front) + (k - (i - 1))] = back[k - (i - 1)]
      BY <1>6, <1>7, <3>1 DEF Joins
    <3> QED BY <1>5, <1>6, <3>1, <3>2
  <2> QED BY <2>1, <2>2
<1>10. r = [k \in 1 .. n - 1 |-> s[f[k]]]
  <2> HIDE DEF f
  <2>1. DOMAIN r = 1 .. n - 1 /\ r = [k \in DOMAIN r |-> r[k]]
    BY <1>8, LenProperties
  <2> QED BY <1>9, <2>1
<1> HIDE DEF f
<1> QED
  BY <1>1, <1>4, <1>10 DEF RemoveAt, Through, r, front, back

(* A list that misses nothing up to a number counts up to it.              *)
LEMMA CountsUpTo ==
  ASSUME NEW P, P \subseteq Nat \ {0}, NEW n \in Nat, NEW f, IncreasingList(f, n, P),
         NEW m \in Nat, 1 .. m \subseteq P
  PROVE  \A i \in 1 .. m : i \in 1 .. n /\ f[i] = i
<1>0. /\ f \in [1 .. n -> P] /\ \A x \in P : \E k \in 1 .. n : f[k] = x
      /\ \A i, j \in 1 .. n : i < j <=> f[i] < f[j]
  BY DEF IncreasingList
<1> DEFINE T == {i \in 0 .. m : \A j \in 1 .. i : j \in 1 .. n /\ f[j] = j}
<1>1. 0 \in T
  OBVIOUS
<1>2. ASSUME NEW i \in 0 .. m - 1, i \in T PROVE i + 1 \in T
  <2>1. \A j \in 1 .. i : j \in 1 .. n /\ f[j] = j
    BY <1>2
  <2>2. i + 1 \in P /\ i + 1 \in 0 .. m
    OBVIOUS
  <2>3. PICK k \in 1 .. n : f[k] = i + 1
    BY <1>0, <2>2
  <2>4. k > i
    BY <2>1, <2>3
  <2>5. i + 1 \in 1 .. n
    BY <2>4
  <2>6. f[i + 1] \in Nat /\ f[i + 1] # 0
    BY <1>0, <2>5
  <2>7. f[i + 1] >= i + 1
    <3>1. CASE i = 0
      BY <2>6, <3>1
    <3>2. CASE i # 0
      <4>1. i \in 1 .. n /\ f[i] = i /\ i < i + 1
        BY <2>1, <3>2
      <4>2. f[i] < f[i + 1]
        BY <1>0, <2>5, <4>1
      <4> QED BY <2>6, <4>1, <4>2
    <3> QED BY <3>1, <3>2
  <2>8. ~(k < i + 1)
    BY <2>4
  <2>9. k = i + 1
    <3> SUFFICES ASSUME i + 1 < k PROVE FALSE
      BY <2>4
    <3>1. f[i + 1] < f[k]
      BY <1>0, <2>5
    <3> QED BY <2>3, <2>6, <2>7, <3>1
  <2>10. \A j \in 1 .. i + 1 : j \in 1 .. i \/ j = i + 1
    OBVIOUS
  <2> QED
    BY <2>1, <2>2, <2>3, <2>5, <2>9, <2>10
<1>3. 0 .. m \subseteq T
  <2> HIDE DEF T
  <2> QED BY <1>1, <1>2, InductionUpTo
<1>4. m \in T
  BY <1>3
<1> QED BY <1>4

-----------------------------------------------------------------------------
(* Rows deleted from a sheet by their numbers.                             *)

DeletesOneByOne(r, n, rows, order) ==
  r[0] = rows /\ \A k \in 1 .. n : r[k] = DeleteRow(r[k - 1], order[k])

(* Deleted is a computation that takes one row after the other off the *)
(* sheet.                                                              *)
LEMMA DeletedIs ==
  ASSUME NEW Row, NEW rows \in Seq(Row), NEW order \in Seq(Nat)
  PROVE  \E r \in [0 .. Len(order) -> Seq(Row)] :
            DeletesOneByOne(r, Len(order), rows, order) /\ Deleted(rows, order) = r[Len(order)]
<1> DEFINE n == Len(order)
           V == Seq(Row)
           step == [pair \in (1 .. n) \X V |-> DeleteRow(pair[2], order[pair[1]])]
<1>1. n \in Nat /\ DOMAIN order = 1 .. n
  BY LenProperties
<1>2. step \in [(1 .. n) \X V -> V]
  <2> SUFFICES ASSUME NEW k \in 1 .. n, NEW v \in V PROVE DeleteRow(v, order[k]) \in V
    OBVIOUS
  <2>1. ASSUME order[k] \in DOMAIN v PROVE RemoveAt(v, order[k]) \in V
    <3>1. RemoveAt(v, order[k]) = Picked(v, DOMAIN v \ {order[k]})
      BY <2>1, RemovedIs
    <3>2. DOMAIN v \ {order[k]} \subseteq DOMAIN v
      OBVIOUS
    <3> QED BY <3>1, <3>2, PickedIs
  <2> QED BY <2>1 DEF DeleteRow
<1>3. PICK f \in [SUBSET (1 .. n) -> V] : FoldsSets(f, n, rows, step)
  <2> HIDE DEF n, step, V
  <2>1. rows \in V
    BY DEF V
  <2> QED BY <1>1, <1>2, <2>1, RecursionOnSets
<1> DEFINE r == [k \in 0 .. n |-> f[1 .. k]]
           body(g, s) == IF s = {} THEN rows ELSE DeleteRow(g[s \ {Max(s)}], order[Max(s)])
           Folds(g) == g = [s \in SUBSET (1 .. n) |-> body(g, s)]
<1>4. r \in [0 .. n -> V] /\ Computes(r, n, rows, step)
  <2> HIDE DEF n, step, V
  <2> QED BY <1>1, <1>3, FoldsPrefixes
<1>5. DeletesOneByOne(r, n, rows, order)
  <2> HIDE DEF r
  <2>1. r[0] = rows /\ \A k \in 1 .. n : r[k] = step[<<k, r[k - 1]>>]
    <3> HIDE DEF n, step, V
    <3> QED BY <1>4 DEF Computes
  <2>2. ASSUME NEW k \in 1 .. n PROVE step[<<k, r[k - 1]>>] = DeleteRow(r[k - 1], order[k])
    <3>1. k - 1 \in 0 .. n
      BY <1>1
    <3>2. r[k - 1] \in V
      BY <1>4, <3>1
    <3> QED BY <3>2
  <2> HIDE DEF n, step, V
  <2> QED BY <2>1, <2>2 DEF DeletesOneByOne
<1>6. Folds(f)
  <2>1. ASSUME NEW s \in SUBSET (1 .. n) PROVE f[s] = body(f, s)
    <3>1. CASE s = {}
      BY <1>3, <3>1 DEF FoldsSets
    <3>2. CASE s # {}
      <4>1. IsFiniteSet(s) /\ s \subseteq Int
        BY <1>1, BoundedSet
      <4>2. Max(s) \in 1 .. n /\ s \ {Max(s)} \in SUBSET (1 .. n)
        BY <3>2, <4>1, MaxIs
      <4>3. f[s] = step[<<Max(s), f[s \ {Max(s)}]>>]
        <5> HIDE DEF step, V, n
        <5> QED BY <1>3, <3>2 DEF FoldsSets
      <4>4. f[s \ {Max(s)}] \in V
        BY <4>2
      <4>5. step[<<Max(s), f[s \ {Max(s)}]>>] = DeleteRow(f[s \ {Max(s)}], order[Max(s)])
        BY <4>2, <4>4
      <4> HIDE DEF step, V, n
      <4> QED BY <3>2, <4>3, <4>5
    <3> QED BY <3>1, <3>2
  <2> HIDE DEF body, n
  <2>2. f = [s \in SUBSET (1 .. n) |-> f[s]]
    OBVIOUS
  <2> QED BY <2>1, <2>2
<1> DEFINE iter == CHOOSE g : Folds(g)
<1>7. Folds(iter)
  <2> HIDE DEF Folds
  <2> QED BY <1>6
<1>8. Deleted(rows, order) = iter[1 .. n]
  BY <1>1 DEF Deleted, FoldLeft, MapThenFoldSet
<1>9. \A k \in 0 .. n : iter[1 .. k] = r[k]
  <2> DEFINE T == {k \in 0 .. n : iter[1 .. k] = r[k]}
  <2> HIDE DEF iter, r
  <2>1. 0 \in T
    <3>1. 1 .. 0 = {} /\ {} \in SUBSET (1 .. n) /\ 0 \in 0 .. n
      BY <1>1
    <3>2. iter[{}] = rows
      BY <1>7, <3>1
    <3>3. r[0] = rows
      BY <1>5 DEF DeletesOneByOne
    <3> QED BY <3>1, <3>2, <3>3
  <2>2. ASSUME NEW k \in 0 .. n - 1, k \in T PROVE k + 1 \in T
    <3>1. /\ k + 1 \in 1 .. n /\ 1 .. k + 1 \in SUBSET (1 .. n) /\ 1 .. k + 1 # {}
          /\ (1 .. k + 1) \ {k + 1} = 1 .. k /\ k + 1 - 1 = k
      <4> HIDE DEF n, T
      <4>1. k \in Nat /\ k + 1 \in 1 .. n /\ 1 .. k + 1 \in SUBSET (1 .. n)
        BY <1>1
      <4>2. k + 1 \in 1 .. k + 1
        BY <4>1
      <4>3. (1 .. k + 1) \ {k + 1} = 1 .. k
        BY <4>1
      <4>4. k + 1 - 1 = k
        BY <4>1
      <4> QED BY <4>1, <4>2, <4>3, <4>4
    <3>2. Max(1 .. k + 1) = k + 1
      <4>1. IsFiniteSet(1 .. k + 1) /\ 1 .. k + 1 \subseteq Int /\ k + 1 \in 1 .. k + 1
        BY <3>1, FS_Interval
      <4>2. Max(1 .. k + 1) \in 1 .. k + 1 /\ k + 1 <= Max(1 .. k + 1)
        BY <3>1, <4>1, MaxIs
      <4> QED BY <4>2
    <3>3. iter[1 .. k + 1] = DeleteRow(iter[1 .. k], order[k + 1])
      BY <1>7, <3>1, <3>2
    <3>4. r[k + 1] = DeleteRow(r[k], order[k + 1])
      BY <1>5, <3>1 DEF DeletesOneByOne
    <3> QED BY <2>2, <3>1, <3>3, <3>4
  <2>3. 0 .. n \subseteq T
    <3> HIDE DEF T, n
    <3> QED BY <1>1, <2>1, <2>2, InductionUpTo
  <2> QED BY <2>3
<1>10. n \in 0 .. n
  BY <1>1
<1> HIDE DEF r, iter
<1> QED
  BY <1>4, <1>5, <1>8, <1>9, <1>10

(* Whatever the row numbers are, deleting leaves some of the rows, in      *)
(* their order.                                                            *)
LEMMA DeletedLeaves ==
  ASSUME NEW Row, NEW rows \in Seq(Row), NEW order \in Seq(Nat)
  PROVE  \E P \in SUBSET DOMAIN rows : Deleted(rows, order) = Picked(rows, P)
<1> DEFINE n == Len(order)
<1>1. n \in Nat
  BY LenProperties
<1>2. PICK r \in [0 .. n -> Seq(Row)] :
         DeletesOneByOne(r, n, rows, order) /\ Deleted(rows, order) = r[n]
  BY DeletedIs
<1> DEFINE T == {k \in 0 .. n : \E P \in SUBSET DOMAIN rows : r[k] = Picked(rows, P)}
<1>3. 0 \in T
  <2>1. r[0] = Picked(rows, DOMAIN rows)
    BY <1>2, PickedAll DEF DeletesOneByOne
  <2> QED BY <1>1, <2>1
<1>4. ASSUME NEW k \in 0 .. n - 1, k \in T PROVE k + 1 \in T
  <2>1. PICK P \in SUBSET DOMAIN rows : r[k] = Picked(rows, P)
    BY <1>4
  <2>2. r[k + 1] = DeleteRow(r[k], order[k + 1]) /\ k + 1 \in 0 .. n
    <3>1. k + 1 \in 1 .. n /\ k + 1 - 1 = k
      BY <1>1
    <3> QED BY <1>2, <3>1 DEF DeletesOneByOne
  <2>3. CASE order[k + 1] \notin DOMAIN r[k]
    BY <2>1, <2>2, <2>3 DEF DeleteRow
  <2>4. CASE order[k + 1] \in DOMAIN r[k]
    <3> DEFINE some == DOMAIN Picked(rows, P) \ {order[k + 1]}
               Q == {Ascending(P)[j] : j \in some}
    <3>1. /\ Picked(rows, P) \in Seq(Row) /\ DOMAIN Picked(rows, P) = 1 .. Cardinality(P)
          /\ IncreasingList(Ascending(P), Cardinality(P), P)
      BY PickedIs
    <3>2. r[k + 1] = Picked(Picked(rows, P), some)
      BY <2>1, <2>2, <2>4, <3>1, RemovedIs DEF DeleteRow
    <3>3. P \subseteq DOMAIN rows /\ some \subseteq DOMAIN Picked(rows, P)
      OBVIOUS
    <3>4. r[k + 1] = Picked(rows, Q)
      <4> HIDE DEF some
      <4>1. Picked(Picked(rows, P), some) = Picked(rows, Q)
        BY <3>3, PickedTwice
      <4> QED BY <3>2, <4>1
    <3>5. Q \in SUBSET DOMAIN rows
      BY <3>1 DEF IncreasingList
    <3> HIDE DEF Q
    <3> QED BY <2>2, <3>4, <3>5
  <2> QED BY <2>3, <2>4
<1>5. n \in T
  <2>1. 0 .. n \subseteq T
    <3> HIDE DEF T, n
    <3> QED BY <1>1, <1>3, <1>4, InductionUpTo
  <2>2. n \in 0 .. n
    BY <1>1
  <2> QED BY <2>1, <2>2
<1> QED BY <1>2, <1>5

Later(S) == {pair \in S \X S : pair[1] > pair[2]}

(* Descending lists the rows to delete, last first. *)
LEMMA DescendingIs ==
  ASSUME NEW D, IsFiniteSet(D), D \subseteq Nat
  PROVE  /\ Descending(D) \in Seq(Nat) /\ Len(Descending(D)) = Cardinality(D)
         /\ Cardinality(D) \in Nat
         /\ \A k \in 1 .. Cardinality(D) : Descending(D)[k] \in D
         /\ \A x \in D : \E k \in 1 .. Cardinality(D) : Descending(D)[k] = x
         /\ \A i, j \in 1 .. Cardinality(D) : i < j <=> Descending(D)[i] > Descending(D)[j]
<1> DEFINE n == Cardinality(D)
           d == Descending(D)
<1>1. StrictOrder(D, Later(D))
  <2>1. \A x, y \in D : <<x, y>> \in Later(D) <=> x > y
    BY DEF Later
  <2>2. \A x \in D : x \in Int
    OBVIOUS
  <2> QED BY <2>1, <2>2 DEF StrictOrder
<1>2. d = InOrderOf(D, Later(D))
  BY DEF Descending, Later
<1>3. n \in Nat /\ ListsInOrder(d, n, D, Later(D))
  BY <1>1, <1>2, OrderedList
<1> HIDE DEF d, n
<1>4. d \in [1 .. n -> D]
  BY <1>3 DEF ListsInOrder
<1>5. d \in [1 .. n -> Nat]
  BY <1>4
<1>6. d \in Seq(Nat) /\ Len(d) = n
  BY <1>3, <1>5
<1>7. \A i, j \in 1 .. n : i < j <=> d[i] > d[j]
  BY <1>3, <1>4 DEF ListsInOrder, Later
<1>8. \A x \in D : \E k \in 1 .. n : d[k] = x
  BY <1>3 DEF ListsInOrder
<1> QED
  BY <1>3, <1>4, <1>6, <1>7, <1>8 DEF n, d

(* Bottom up, every row number still means the row it was read for.        *)
LEMMA DeletedExactly ==
  ASSUME NEW Row, NEW rows \in Seq(Row), NEW D, D \subseteq DOMAIN rows
  PROVE  Deleted(rows, Descending(D)) = Picked(rows, DOMAIN rows \ D)
<1> DEFINE n == Cardinality(D)
           d == Descending(D)
<1>1. Len(rows) \in Nat /\ DOMAIN rows = 1 .. Len(rows)
  BY LenProperties
<1>2. IsFiniteSet(D) /\ D \subseteq Nat
  BY <1>1, BoundedSet
<1>3. /\ d \in Seq(Nat) /\ Len(d) = n /\ n \in Nat
      /\ \A k \in 1 .. n : d[k] \in D
      /\ \A x \in D : \E k \in 1 .. n : d[k] = x
      /\ \A i, j \in 1 .. n : i < j <=> d[i] > d[j]
  BY <1>2, DescendingIs
<1> HIDE DEF d, n
<1>4. PICK r \in [0 .. n -> Seq(Row)] :
         DeletesOneByOne(r, n, rows, d) /\ Deleted(rows, d) = r[n]
  BY <1>3, DeletedIs
<1> DEFINE Gone(k) == {d[j] : j \in 1 .. k}
           Left(k) == DOMAIN rows \ Gone(k)
           T == {k \in 0 .. n : r[k] = Picked(rows, Left(k))}
<1>5. 0 \in T
  <2>1. Gone(0) = {}
    OBVIOUS
  <2>2. r[0] = rows
    BY <1>4 DEF DeletesOneByOne
  <2>3. Left(0) = DOMAIN rows
    BY <2>1
  <2> HIDE DEF Left
  <2> QED BY <1>3, <2>2, <2>3, PickedAll
<1>6. ASSUME NEW k \in 0 .. n - 1, k \in T PROVE k + 1 \in T
  <2> DEFINE P == Left(k)
             m == Cardinality(P)
             at == Ascending(P)
             e == d[k + 1]
  <2>0. k + 1 \in 1 .. n /\ k + 1 - 1 = k /\ k \in Nat /\ k \in 0 .. n /\ k + 1 \in 0 .. n /\ n \in Nat
    BY <1>3
  <2>1. r[k] = Picked(rows, P)
    BY <1>6
  <2>2. r[k + 1] = DeleteRow(r[k], e)
    BY <1>4, <2>0 DEF DeletesOneByOne
  <2>3. e \in D /\ e \in Nat /\ e \in 1 .. Len(rows)
    BY <1>1, <1>3, <2>0
  <2>4. 1 .. e \subseteq P
    <3> SUFFICES ASSUME NEW x \in 1 .. e, x \in Gone(k) PROVE FALSE
      BY <1>1, <2>3
    <3>1. PICK j \in 1 .. k : x = d[j]
      OBVIOUS
    <3>2. j \in 1 .. n /\ j < k + 1
      BY <2>0
    <3>3. d[j] > e
      BY <1>3, <2>0, <3>2
    <3> QED BY <2>3, <3>1, <3>3
  <2>5. P \subseteq DOMAIN rows
    OBVIOUS
  <2>6. Gone(k + 1) = Gone(k) \union {e}
    BY <2>0
  <2>7. Left(k + 1) = P \ {e}
    BY <2>6
  <2> HIDE DEF P
  <2>8. /\ m \in Nat /\ IncreasingList(at, m, P)
        /\ Picked(rows, P) \in Seq(Row) /\ DOMAIN Picked(rows, P) = 1 .. m
    BY <2>5, PickedIs
  <2> HIDE DEF m, at, e
  <2>9. e \in 1 .. m /\ at[e] = e
    <3>1. P \subseteq Nat \ {0}
      BY <1>1, <2>5
    <3>2. e \in 1 .. e
      BY <2>3, <2>0
    <3> QED BY <2>3, <2>4, <2>8, <3>1, <3>2, CountsUpTo
  <2> DEFINE some == 1 .. m \ {e}
             Q == {at[j] : j \in some}
  <2>10. r[k + 1] = Picked(Picked(rows, P), some)
    BY <2>1, <2>2, <2>8, <2>9, RemovedIs DEF DeleteRow
  <2>11. r[k + 1] = Picked(rows, Q)
    BY <2>5, <2>8, <2>10, PickedTwice DEF at
  <2>12. Q = P \ {e}
    <3>1. /\ \A j \in 1 .. m : at[j] \in P /\ at[j] \in Int
          /\ \A x \in P : \E j \in 1 .. m : at[j] = x
          /\ \A i, j \in 1 .. m : i < j <=> at[i] < at[j]
      BY <1>1, <2>5, <2>8 DEF IncreasingList
    <3>2. \A j \in 1 .. m : at[j] = e => j = e
      BY <2>8, <2>9, <3>1
    <3> QED BY <2>9, <3>1, <3>2
  <2> HIDE DEF Q, Left
  <2> QED BY <2>0, <2>7, <2>11, <2>12
<1>7. n \in T
  <2>1. 0 .. n \subseteq T
    <3> HIDE DEF T
    <3> QED BY <1>3, <1>5, <1>6, InductionUpTo
  <2>2. n \in 0 .. n
    BY <1>3
  <2> QED BY <2>1, <2>2
<1>8. Left(n) = DOMAIN rows \ D
  BY <1>3
<1> HIDE DEF Left
<1> QED
  BY <1>4, <1>7, <1>8 DEF d

-----------------------------------------------------------------------------
(* Totals of finitely many participants.                                   *)
AreTotals(score) ==
  /\ IsFiniteSet(DOMAIN score) /\ DOMAIN score \subseteq Nat
  /\ \A p \in DOMAIN score : score[p] \in Nat

RankEntry(score) == [id : DOMAIN score, score : Nat, rank : Nat]

(* The order of totals, largest first, is a strict order.                  *)
LEMMA PrecedesIsStrict ==
  ASSUME NEW score, AreTotals(score)
  PROVE  StrictOrder(DOMAIN score, Precedes(score))
<1>1. \A p, q \in DOMAIN score :
        <<p, q>> \in Precedes(score) <=> score[p] > score[q] \/ (score[p] = score[q] /\ p < q)
  BY DEF Precedes
<1>2. \A p \in DOMAIN score : p \in Nat /\ score[p] \in Nat
  BY DEF AreTotals
<1>3. \A i, j, k, a, b, c \in Nat :
        (i > j \/ (i = j /\ a < b)) /\ (j > k \/ (j = k /\ b < c)) => i > k \/ (i = k /\ a < c)
  OBVIOUS
<1>4. \A p \in DOMAIN score : <<p, p>> \notin Precedes(score)
  BY <1>1, <1>2
<1>5. \A p, q \in DOMAIN score : p # q => <<p, q>> \in Precedes(score) \/ <<q, p>> \in Precedes(score)
  BY <1>1, <1>2
<1>6. ASSUME NEW p \in DOMAIN score, NEW q \in DOMAIN score, NEW t \in DOMAIN score,
             <<p, q>> \in Precedes(score), <<q, t>> \in Precedes(score)
      PROVE  <<p, t>> \in Precedes(score)
  <2>1. /\ score[p] > score[q] \/ (score[p] = score[q] /\ p < q)
        /\ score[q] > score[t] \/ (score[q] = score[t] /\ q < t)
    BY <1>1, <1>6
  <2>2. score[p] > score[t] \/ (score[p] = score[t] /\ p < t)
    BY <1>2, <1>3, <2>1
  <2> QED
    BY <1>1, <2>2
<1> QED
  BY <1>4, <1>5, <1>6 DEF StrictOrder

(* Ordered lists the participants by their totals.                         *)
LEMMA OrderedIs ==
  ASSUME NEW score, AreTotals(score)
  PROVE  /\ Cardinality(DOMAIN score) \in Nat
         /\ ListsInOrder(Ordered(score), Cardinality(DOMAIN score), DOMAIN score, Precedes(score))
<1>1. IsFiniteSet(DOMAIN score) /\ StrictOrder(DOMAIN score, Precedes(score))
  BY PrecedesIsStrict DEF AreTotals
<1> QED
  BY <1>1, OrderedList DEF Ordered

(* An entry goes below the ones before it.                                 *)
LEMMA PlacedIs ==
  ASSUME NEW score, AreTotals(score), NEW ranked \in Seq(RankEntry(score)), NEW p \in DOMAIN score
  PROVE  /\ Placed(score, ranked, p) \in Seq(RankEntry(score))
         /\ Len(Placed(score, ranked, p)) = Len(ranked) + 1
         /\ \A j \in 1 .. Len(ranked) : Placed(score, ranked, p)[j] = ranked[j]
         /\ Placed(score, ranked, p)[Len(ranked) + 1].id = p
         /\ Placed(score, ranked, p)[Len(ranked) + 1].score = score[p]
         /\ Placed(score, ranked, p)[Len(ranked) + 1].rank = Rank(ranked, score[p])
<1> DEFINE e == [id |-> p, score |-> score[p], rank |-> Rank(ranked, score[p])]
<1>1. Len(ranked) \in Nat /\ DOMAIN ranked = 1 .. Len(ranked)
  BY LenProperties
<1>2. Rank(ranked, score[p]) \in Nat
  <2>1. ASSUME ranked # << >> PROVE Last(ranked).rank \in Nat
    <3>1. Len(ranked) \in DOMAIN ranked
      BY <1>1, <2>1, EmptySeq
    <3>2. ranked[Len(ranked)] \in RankEntry(score)
      BY <3>1, ElementOfSeq
    <3> QED
      BY <3>2 DEF Last, RankEntry
  <2> QED
    BY <1>1, <2>1 DEF Rank
<1>3. e \in RankEntry(score)
  BY <1>2 DEF RankEntry, AreTotals
<1>4. Placed(score, ranked, p) = Append(ranked, e)
  BY DEF Placed
<1>5. e.id = p /\ e.score = score[p] /\ e.rank = Rank(ranked, score[p])
  OBVIOUS
<1> HIDE DEF e
<1> QED
  BY <1>1, <1>3, <1>4, <1>5, AppendProperties

(* The sets that a fold over 1 .. n goes through.                          *)
LEMMA Initials ==
  ASSUME NEW n \in Nat, NEW k \in 1 .. n
  PROVE  /\ 1 .. k \in SUBSET (1 .. n) /\ 1 .. k # {} /\ Max(1 .. k) = k
         /\ (1 .. k) \ {k} = 1 .. k - 1 /\ k - 1 \in 0 .. n /\ k \in 0 .. n
<1>1. 1 .. k \in SUBSET (1 .. n) /\ 1 .. k # {} /\ (1 .. k) \ {k} = 1 .. k - 1
  OBVIOUS
<1>2. IsFiniteSet(1 .. k) /\ 1 .. k \subseteq Int /\ k \in 1 .. k
  BY FS_Interval
<1>3. Max(1 .. k) \in 1 .. k /\ k <= Max(1 .. k)
  BY <1>1, <1>2, MaxIs
<1>4. Max(1 .. k) = k
  BY <1>3
<1>5. k - 1 \in 0 .. n /\ k \in 0 .. n
  OBVIOUS
<1> QED
  BY <1>1, <1>4, <1>5

(* Two computations that go through the same steps.                        *)
LEMMA SameSteps ==
  ASSUME NEW n \in Nat, NEW iter, NEW r, iter[1 .. 0] = r[0],
         \A k \in 1 .. n : iter[1 .. k - 1] = r[k - 1] => iter[1 .. k] = r[k]
  PROVE  iter[1 .. n] = r[n]
<1> DEFINE T == {k \in 0 .. n : iter[1 .. k] = r[k]}
<1>1. 0 \in T
  OBVIOUS
<1>2. ASSUME NEW k \in 0 .. n - 1, k \in T PROVE k + 1 \in T
  <2>1. k + 1 \in 1 .. n /\ k + 1 - 1 = k /\ k + 1 \in 0 .. n
    OBVIOUS
  <2>2. iter[1 .. k + 1 - 1] = r[k + 1 - 1]
    BY <1>2, <2>1
  <2>3. iter[1 .. k + 1] = r[k + 1]
    BY <2>1, <2>2
  <2> QED
    BY <2>1, <2>3
<1>3. 0 .. n \subseteq T
  <2> HIDE DEF T
  <2> QED
    BY <1>1, <1>2, InductionUpTo
<1>4. n \in T
  BY <1>3
<1> QED
  BY <1>4

PlacesOneByOne(r, n, score) ==
  r[0] = << >> /\ \A k \in 1 .. n : r[k] = Placed(score, r[k - 1], Ordered(score)[k])

(* Ranking is a computation that places one participant after the other.   *)
LEMMA RankingFolds ==
  ASSUME NEW score, AreTotals(score), NEW n, n = Cardinality(DOMAIN score)
  PROVE  \E r \in [0 .. n -> Seq(RankEntry(score))] : PlacesOneByOne(r, n, score) /\ Ranking(score) = r[n]
<1> DEFINE o == Ordered(score)
           V == Seq(RankEntry(score))
           step == [pair \in (1 .. n) \X V |-> Placed(score, pair[2], o[pair[1]])]
<1>1. n \in Nat /\ o \in [1 .. n -> DOMAIN score]
  BY OrderedIs DEF ListsInOrder
<1> HIDE DEF o
<1>2. step \in [(1 .. n) \X V -> V]
  <2> SUFFICES ASSUME NEW k \in 1 .. n, NEW v \in V PROVE Placed(score, v, o[k]) \in V
    OBVIOUS
  <2>1. o[k] \in DOMAIN score
    BY <1>1
  <2> QED
    BY <2>1, PlacedIs
<1>3. << >> \in V
  OBVIOUS
<1>4. PICK f \in [SUBSET (1 .. n) -> V] : FoldsSets(f, n, << >>, step)
  <2> HIDE DEF step, V
  <2> QED
    BY <1>1, <1>2, <1>3, RecursionOnSets
<1> DEFINE r == [k \in 0 .. n |-> f[1 .. k]]
           body(g, s) == IF s = {} THEN << >> ELSE Placed(score, g[s \ {Max(s)}], o[Max(s)])
           Folds(g) == g = [s \in SUBSET (1 .. n) |-> body(g, s)]
<1>5. r \in [0 .. n -> V] /\ Computes(r, n, << >>, step)
  <2> HIDE DEF step, V
  <2> QED
    BY <1>1, <1>4, FoldsPrefixes
<1>6. r[0] = << >> /\ \A k \in 1 .. n : r[k] = Placed(score, r[k - 1], o[k])
  <2> HIDE DEF r
  <2>1. r[0] = << >> /\ \A k \in 1 .. n : r[k] = step[<<k, r[k - 1]>>]
    <3> HIDE DEF step, V
    <3> QED
      BY <1>5 DEF Computes
  <2>2. ASSUME NEW k \in 1 .. n PROVE step[<<k, r[k - 1]>>] = Placed(score, r[k - 1], o[k])
    <3>1. k - 1 \in 0 .. n
      BY <1>1
    <3>2. r[k - 1] \in V
      BY <1>5, <3>1
    <3> QED
      BY <3>2
  <2> HIDE DEF step, V
  <2> QED
    BY <2>1, <2>2
<1>7. Folds(f)
  <2>1. ASSUME NEW s \in SUBSET (1 .. n) PROVE f[s] = body(f, s)
    <3>1. CASE s = {}
      BY <1>4, <3>1 DEF FoldsSets
    <3>2. CASE s # {}
      <4>1. IsFiniteSet(s) /\ s \subseteq Int
        BY <1>1, BoundedSet
      <4>2. Max(s) \in 1 .. n /\ s \ {Max(s)} \in SUBSET (1 .. n)
        BY <3>2, <4>1, MaxIs
      <4>3. f[s] = step[<<Max(s), f[s \ {Max(s)}]>>]
        <5> HIDE DEF step, V
        <5> QED
          BY <1>4, <3>2 DEF FoldsSets
      <4>4. f[s \ {Max(s)}] \in V
        BY <4>2
      <4>5. step[<<Max(s), f[s \ {Max(s)}]>>] = Placed(score, f[s \ {Max(s)}], o[Max(s)])
        BY <4>2, <4>4
      <4> HIDE DEF step, V
      <4> QED
        BY <3>2, <4>3, <4>5
    <3> QED
      BY <3>1, <3>2
  <2> HIDE DEF body
  <2>2. f = [s \in SUBSET (1 .. n) |-> f[s]]
    OBVIOUS
  <2> QED
    BY <2>1, <2>2
<1> DEFINE iter == CHOOSE g : Folds(g)
<1>8. Folds(iter)
  <2> HIDE DEF Folds
  <2> QED
    BY <1>7
<1>9. Ranking(score) = iter[1 .. n]
  <2>1. DOMAIN o = 1 .. n
    BY <1>1
  <2> QED
    BY <2>1 DEF Ranking, FoldLeft, MapThenFoldSet, o
<1> HIDE DEF iter, r
<1>10. iter[1 .. n] = r[n]
  <2>1. iter[1 .. 0] = r[0]
    <3>1. 1 .. 0 = {} /\ {} \in SUBSET (1 .. n)
      OBVIOUS
    <3>2. iter[{}] = << >>
      BY <1>8, <3>1
    <3> QED
      BY <1>6, <3>1, <3>2
  <2>2. ASSUME NEW k \in 1 .. n, iter[1 .. k - 1] = r[k - 1] PROVE iter[1 .. k] = r[k]
    <3>1. 1 .. k \in SUBSET (1 .. n) /\ 1 .. k # {} /\ Max(1 .. k) = k /\ (1 .. k) \ {k} = 1 .. k - 1
      BY <1>1, Initials
    <3>2. iter[1 .. k] = Placed(score, iter[1 .. k - 1], o[k])
      BY <1>8, <3>1
    <3> QED
      BY <1>6, <2>2, <3>2
  <2> QED
    BY <1>1, <2>1, <2>2, SameSteps
<1> QED
  BY <1>5, <1>6, <1>9, <1>10 DEF PlacesOneByOne, o

(* The first k of the participants as they are ranked: a rank is one more  *)
(* than the number of those, of all, that have a greater total.            *)
Ahead(score, j) ==
  {i \in 1 .. Cardinality(DOMAIN score) : score[Ordered(score)[i]] > score[Ordered(score)[j]]}

RankedSofar(ranked, k, score) ==
  /\ ranked \in Seq(RankEntry(score)) /\ Len(ranked) = k
  /\ \A j \in 1 .. k :
       /\ ranked[j].id = Ordered(score)[j]
       /\ ranked[j].score = score[Ordered(score)[j]]
       /\ ranked[j].rank = 1 + Cardinality(Ahead(score, j))

(* Who has a greater total comes before, and those with one and the same   *)
(* total have the same ahead of them.                                      *)
LEMMA AheadIs ==
  ASSUME NEW score, AreTotals(score), NEW n, n = Cardinality(DOMAIN score)
  PROVE  /\ n \in Nat /\ Ordered(score) \in [1 .. n -> DOMAIN score]
         /\ \A j \in 1 .. n : Ahead(score, j) \subseteq 1 .. j - 1
         /\ \A k \in 1 .. n - 1 :
              IF score[Ordered(score)[k]] = score[Ordered(score)[k + 1]]
              THEN Ahead(score, k + 1) = Ahead(score, k)
              ELSE Ahead(score, k + 1) = 1 .. k
<1> DEFINE o == Ordered(score)
<1>1. n \in Nat /\ ListsInOrder(o, n, DOMAIN score, Precedes(score))
  BY OrderedIs
<1> HIDE DEF o
<1>2. o \in [1 .. n -> DOMAIN score] /\ \A i \in 1 .. n : o[i] \in Nat /\ score[o[i]] \in Nat
  BY <1>1 DEF ListsInOrder, AreTotals
<1>3. \A i, j \in 1 .. n :
        i < j <=> score[o[i]] > score[o[j]] \/ (score[o[i]] = score[o[j]] /\ o[i] < o[j])
  <2>1. \A i, j \in 1 .. n : i < j <=> <<o[i], o[j]>> \in Precedes(score)
    BY <1>1 DEF ListsInOrder
  <2>2. \A p, q \in DOMAIN score :
          <<p, q>> \in Precedes(score) <=> score[p] > score[q] \/ (score[p] = score[q] /\ p < q)
    BY DEF Precedes
  <2>3. \A i \in 1 .. n : o[i] \in DOMAIN score
    BY <1>2
  <2> QED
    BY <2>1, <2>2, <2>3
<1>4. \A j \in 1 .. n : Ahead(score, j) = {i \in 1 .. n : score[o[i]] > score[o[j]]}
  BY DEF Ahead, o
<1>5. ASSUME NEW j \in 1 .. n PROVE Ahead(score, j) \subseteq 1 .. j - 1
  <2> SUFFICES ASSUME NEW i \in 1 .. n, score[o[i]] > score[o[j]] PROVE i \in 1 .. j - 1
    BY <1>4
  <2>1. i < j
    BY <1>3
  <2> QED
    BY <1>1, <2>1
<1>6. ASSUME NEW k \in 1 .. n - 1
      PROVE  IF score[o[k]] = score[o[k + 1]]
             THEN Ahead(score, k + 1) = Ahead(score, k)
             ELSE Ahead(score, k + 1) = 1 .. k
  <2>1. k \in 1 .. n /\ k + 1 \in 1 .. n /\ k < k + 1
    BY <1>1
  <2>2. CASE score[o[k]] = score[o[k + 1]]
    BY <1>4, <2>1, <2>2
  <2>3. CASE score[o[k]] # score[o[k + 1]]
    <3>1. score[o[k]] > score[o[k + 1]]
      BY <1>3, <2>1, <2>3
    <3>2. ASSUME NEW i \in 1 .. k PROVE i \in Ahead(score, k + 1)
      <4>1. i \in 1 .. n /\ (i = k \/ i < k)
        BY <1>1
      <4>2. i < k => score[o[i]] > score[o[k]] \/ score[o[i]] = score[o[k]]
        BY <1>3, <2>1, <4>1
      <4>3. score[o[i]] > score[o[k + 1]]
        BY <1>2, <2>1, <3>1, <4>1, <4>2
      <4> QED
        BY <1>4, <2>1, <4>1, <4>3
    <3>3. Ahead(score, k + 1) \subseteq 1 .. k
      <4>1. k + 1 - 1 = k
        OBVIOUS
      <4> QED
        BY <1>5, <2>1, <4>1
    <3> QED
      BY <2>3, <3>2, <3>3
  <2> QED
    BY <2>2, <2>3
<1> QED
  BY <1>1, <1>2, <1>5, <1>6 DEF o

(* Ranking ranks all of them.                                              *)
LEMMA RankingIs ==
  ASSUME NEW score, AreTotals(score), NEW n, n = Cardinality(DOMAIN score)
  PROVE  n \in Nat /\ RankedSofar(Ranking(score), n, score)
<1> DEFINE o == Ordered(score)
<1>1. /\ n \in Nat /\ o \in [1 .. n -> DOMAIN score]
      /\ \A j \in 1 .. n : Ahead(score, j) \subseteq 1 .. j - 1
      /\ \A k \in 1 .. n - 1 :
           IF score[o[k]] = score[o[k + 1]]
           THEN Ahead(score, k + 1) = Ahead(score, k)
           ELSE Ahead(score, k + 1) = 1 .. k
  BY AheadIs
<1>2. PICK r \in [0 .. n -> Seq(RankEntry(score))] : PlacesOneByOne(r, n, score) /\ Ranking(score) = r[n]
  BY RankingFolds
<1>3. r[0] = << >> /\ \A k \in 1 .. n : r[k] = Placed(score, r[k - 1], o[k])
  BY <1>2 DEF PlacesOneByOne
<1> HIDE DEF o
<1> DEFINE T == {k \in 0 .. n : RankedSofar(r[k], k, score)}
<1>4. 0 \in T
  BY <1>1, <1>3 DEF RankedSofar
<1>5. ASSUME NEW k \in 0 .. n - 1, k \in T PROVE k + 1 \in T
  <2> DEFINE p == o[k + 1]
             new == r[k + 1]
  <2>1. /\ k \in Nat /\ k + 1 \in 1 .. n /\ k + 1 - 1 = k /\ k + 1 \in 0 .. n
        /\ k # 0 => k \in 1 .. n - 1 /\ k \in 1 .. k
    BY <1>1
  <2>2. RankedSofar(r[k], k, score)
    BY <1>5
  <2>3. /\ r[k] \in Seq(RankEntry(score)) /\ Len(r[k]) = k
        /\ \A j \in 1 .. k : /\ r[k][j].id = o[j]
                             /\ r[k][j].score = score[o[j]]
                             /\ r[k][j].rank = 1 + Cardinality(Ahead(score, j))
    BY <2>2 DEF RankedSofar, o
  <2>4. new = Placed(score, r[k], p) /\ p \in DOMAIN score
    BY <1>1, <1>3, <2>1
  <2> HIDE DEF p, new
  <2>5. /\ new \in Seq(RankEntry(score)) /\ Len(new) = k + 1
        /\ \A j \in 1 .. k : new[j] = r[k][j]
        /\ new[k + 1].id = p /\ new[k + 1].score = score[p]
        /\ new[k + 1].rank = Rank(r[k], score[p])
    <3>1. /\ Placed(score, r[k], p) \in Seq(RankEntry(score))
          /\ Len(Placed(score, r[k], p)) = Len(r[k]) + 1
          /\ \A j \in 1 .. Len(r[k]) : Placed(score, r[k], p)[j] = r[k][j]
          /\ Placed(score, r[k], p)[Len(r[k]) + 1].id = p
          /\ Placed(score, r[k], p)[Len(r[k]) + 1].score = score[p]
          /\ Placed(score, r[k], p)[Len(r[k]) + 1].rank = Rank(r[k], score[p])
      BY <2>3, <2>4, PlacedIs
    <3>2. Len(r[k]) = k
      BY <2>3
    <3> QED
      BY <2>4, <3>1, <3>2
  <2>6. Rank(r[k], score[p]) = 1 + Cardinality(Ahead(score, k + 1))
    <3>1. CASE k = 0
      <4>1. r[k] = << >>
        BY <1>3, <3>1
      <4>2. Ahead(score, k + 1) = {}
        BY <1>1, <2>1, <3>1
      <4>3. Cardinality(Ahead(score, k + 1)) = 0
        BY <4>2, FS_EmptySet
      <4> QED
        BY <2>3, <3>1, <4>1, <4>3 DEF Rank
    <3>2. CASE k # 0
      <4>1. r[k] # << >> /\ Last(r[k]) = r[k][k]
        BY <2>3, <3>2 DEF Last
      <4>2. Last(r[k]).score = score[o[k]] /\ Last(r[k]).rank = 1 + Cardinality(Ahead(score, k))
        BY <2>1, <2>3, <3>2, <4>1
      <4>3. CASE score[o[k]] = score[p]
        <5>1. Ahead(score, k + 1) = Ahead(score, k)
          BY <1>1, <2>1, <3>2, <4>3 DEF p
        <5> QED
          BY <4>1, <4>2, <4>3, <5>1 DEF Rank
      <4>4. CASE score[o[k]] # score[p]
        <5>1. Ahead(score, k + 1) = 1 .. k
          BY <1>1, <2>1, <3>2, <4>4 DEF p
        <5>2. Cardinality(1 .. k) = k
          BY <2>1, FS_Interval
        <5> QED
          BY <2>1, <2>3, <4>2, <4>4, <5>1, <5>2 DEF Rank
      <4> QED
        BY <4>3, <4>4
    <3> QED
      BY <3>1, <3>2
  <2>7. \A j \in 1 .. k + 1 : j \in 1 .. k \/ j = k + 1
    BY <2>1
  <2>8. ASSUME NEW j \in 1 .. k + 1
        PROVE  /\ new[j].id = o[j] /\ new[j].score = score[o[j]]
               /\ new[j].rank = 1 + Cardinality(Ahead(score, j))
    BY <2>3, <2>5, <2>6, <2>7 DEF p
  <2>9. RankedSofar(new, k + 1, score)
    BY <2>5, <2>8 DEF RankedSofar, o
  <2> QED
    BY <2>1, <2>9 DEF new
<1>6. 0 .. n \subseteq T
  <2> HIDE DEF T
  <2> QED
    BY <1>1, <1>4, <1>5, InductionUpTo
<1>7. n \in T
  BY <1>1, <1>6
<1> QED
  BY <1>1, <1>2, <1>7

(* Among the ranked, coming before is being above.                         *)
LEMMA RankedAbove ==
  ASSUME NEW score, AreTotals(score), NEW n, n = Cardinality(DOMAIN score), NEW g, g = Ranking(score)
  PROVE  /\ n \in Nat /\ g \in [1 .. n -> RankEntry(score)]
         /\ \A i, j \in 1 .. n : i < j <=> Above(g[i], g[j])
         /\ \A i, j \in 1 .. n : i # j => g[i].id # g[j].id
         /\ \A p \in DOMAIN score : \E i \in 1 .. n : g[i].id = p
         /\ \A i \in 1 .. n : g[i].score = score[g[i].id]
<1> DEFINE o == Ordered(score)
<1>1. n \in Nat /\ RankedSofar(g, n, score) /\ ListsInOrder(o, n, DOMAIN score, Precedes(score))
  BY RankingIs, OrderedIs
<1> HIDE DEF o
<1>2. /\ g \in Seq(RankEntry(score)) /\ Len(g) = n
      /\ \A j \in 1 .. n : /\ g[j].id = o[j] /\ g[j].score = score[o[j]]
                           /\ g[j].rank = 1 + Cardinality(Ahead(score, j))
  BY <1>1 DEF RankedSofar, o
<1>3. /\ o \in [1 .. n -> DOMAIN score]
      /\ \A p \in DOMAIN score : \E k \in 1 .. n : o[k] = p
      /\ \A i, j \in 1 .. n : i < j <=> <<o[i], o[j]>> \in Precedes(score)
  BY <1>1 DEF ListsInOrder
<1>4. \A i \in 1 .. n : o[i] \in DOMAIN score /\ o[i] \in Nat /\ score[o[i]] \in Nat
  BY <1>3 DEF AreTotals
<1>5. \A i, j \in 1 .. n :
        i < j <=> score[o[i]] > score[o[j]] \/ (score[o[i]] = score[o[j]] /\ o[i] < o[j])
  <2>1. \A p, q \in DOMAIN score :
          <<p, q>> \in Precedes(score) <=> score[p] > score[q] \/ (score[p] = score[q] /\ p < q)
    BY DEF Precedes
  <2> QED
    BY <1>3, <1>4, <2>1
<1>6. \A j \in 1 .. n : Ahead(score, j) = {i \in 1 .. n : score[o[i]] > score[o[j]]}
  BY DEF Ahead, o
<1>7. \A j \in 1 .. n : IsFiniteSet(Ahead(score, j)) /\ Cardinality(Ahead(score, j)) \in Nat
  <2> TAKE j \in 1 .. n
  <2>1. Ahead(score, j) \subseteq 1 .. n
    BY <1>6
  <2> QED
    BY <1>1, <2>1, BoundedSet
<1>8. ASSUME NEW i \in 1 .. n, NEW j \in 1 .. n, i < j PROVE Above(g[i], g[j])
  <2>1. CASE score[o[i]] = score[o[j]]
    <3>1. Ahead(score, i) = Ahead(score, j)
      BY <1>6, <2>1
    <3>2. o[i] < o[j]
      BY <1>4, <1>5, <1>8, <2>1
    <3> QED
      BY <1>2, <2>1, <3>1, <3>2 DEF Above
  <2>2. CASE score[o[i]] # score[o[j]]
    <3>1. score[o[i]] > score[o[j]]
      BY <1>5, <1>8, <2>2
    <3>2. i \in Ahead(score, j) /\ i \notin Ahead(score, i)
      BY <1>4, <1>6, <3>1
    <3>3. Ahead(score, i) \in SUBSET Ahead(score, j)
      BY <1>4, <1>6, <3>1
    <3>4. Cardinality(Ahead(score, i)) < Cardinality(Ahead(score, j))
      <4>1. Cardinality(Ahead(score, i)) <= Cardinality(Ahead(score, j))
        BY <1>7, <3>3, FS_Subset
      <4>2. Cardinality(Ahead(score, j)) # Cardinality(Ahead(score, i))
        BY <1>7, <3>2, <3>3, FS_Subset
      <4> QED
        BY <1>7, <4>1, <4>2
    <3>5. g[i].rank < g[j].rank
      BY <1>2, <1>7, <3>4
    <3> QED
      BY <3>5 DEF Above
  <2> QED
    BY <2>1, <2>2
<1>9. \A i \in 1 .. n : /\ g[i] \in RankEntry(score)
                       /\ g[i].rank \in Nat /\ g[i].score \in Nat /\ g[i].id \in Nat
  <2> TAKE i \in 1 .. n
  <2>1. g[i] \in RankEntry(score)
    BY <1>1, <1>2, ElementOfSeq
  <2> QED
    BY <1>2, <1>4, <2>1 DEF RankEntry
<1>10. ASSUME NEW i \in 1 .. n, NEW j \in 1 .. n, Above(g[i], g[j]) PROVE i < j
  <2>1. i # j
    BY <1>9, <1>10 DEF Above
  <2>2. ~Above(g[j], g[i])
    BY <1>9, <1>10 DEF Above
  <2>3. ~(j < i)
    BY <1>8, <2>2
  <2> QED
    BY <1>1, <2>1, <2>3
<1>11. ASSUME NEW i \in 1 .. n, NEW j \in 1 .. n, i # j PROVE g[i].id # g[j].id
  <2>1. i < j \/ j < i
    BY <1>1, <1>11
  <2>2. o[i] # o[j]
    BY <1>4, <1>5, <2>1
  <2> QED
    BY <1>2, <2>2
<1>12. g \in [1 .. n -> RankEntry(score)]
  BY <1>2, LenProperties
<1> QED
  BY <1>1, <1>2, <1>3, <1>8, <1>10, <1>11, <1>12

(* Sorting the entries once more, by rank, total, name and id, changes     *)
(* nothing.                                                                *)
LEMMA RebuiltSame ==
  ASSUME NEW score, AreTotals(score)
  PROVE  Rebuilt(Ranking(score)) = Ranking(score)
<1> DEFINE n == Cardinality(DOMAIN score)
           g == Ranking(score)
           E == Range(g)
           B == {pair \in E \X E : Above(pair[1], pair[2])}
<1>1. /\ n \in Nat /\ g \in [1 .. n -> RankEntry(score)]
      /\ \A i, j \in 1 .. n : i < j <=> Above(g[i], g[j])
      /\ \A i, j \in 1 .. n : i # j => g[i].id # g[j].id
  BY RankedAbove
<1>2. Rebuilt(g) = InOrderOf(E, B)
  BY DEF Rebuilt
<1> HIDE DEF g, n
<1>3. E = {g[i] : i \in 1 .. n}
  BY <1>1 DEF Range
<1>4. \A i, j \in 1 .. n : i < j <=> <<g[i], g[j]>> \in B
  BY <1>1, <1>3
<1> HIDE DEF B, E
<1>5. IsFiniteSet(E)
  <2>1. g \in Surjection(1 .. n, E)
    BY <1>1, <1>3 DEF Surjection
  <2>2. IsFiniteSet(1 .. n)
    BY <1>1, FS_Interval
  <2> QED
    BY <2>1, <2>2, FS_Surjection
<1>6. StrictOrder(E, B)
  <2>1. \A x \in E : <<x, x>> \notin B
    BY <1>1, <1>3, <1>4
  <2>2. \A x, y \in E : x # y => <<x, y>> \in B \/ <<y, x>> \in B
    <3> SUFFICES ASSUME NEW i \in 1 .. n, NEW j \in 1 .. n, g[i] # g[j]
                 PROVE  <<g[i], g[j]>> \in B \/ <<g[j], g[i]>> \in B
      BY <1>3
    <3>1. i < j \/ j < i
      BY <1>1
    <3> QED
      BY <1>4, <3>1
  <2>3. \A x, y, z \in E : <<x, y>> \in B /\ <<y, z>> \in B => <<x, z>> \in B
    <3> SUFFICES ASSUME NEW i \in 1 .. n, NEW j \in 1 .. n, NEW k \in 1 .. n,
                        <<g[i], g[j]>> \in B, <<g[j], g[k]>> \in B
                 PROVE  <<g[i], g[k]>> \in B
      BY <1>3
    <3>1. i < j /\ j < k
      BY <1>4
    <3>2. i < k
      BY <1>1, <3>1
    <3> QED
      BY <1>4, <3>2
  <2> QED
    BY <2>1, <2>2, <2>3 DEF StrictOrder
<1>7. ListsInOrder(g, n, E, B)
  BY <1>1, <1>3, <1>4 DEF ListsInOrder
<1>8. g = InOrderOf(E, B)
  BY <1>1, <1>5, <1>6, <1>7, OnlyOrderedList
<1> QED
  BY <1>2, <1>8 DEF g

(* A rank is one more than the number of participants with a greater total. *)
LEMMA RanksCount ==
  ASSUME NEW score, AreTotals(score), NEW g, g = Ranking(score), NEW i \in DOMAIN g
  PROVE  /\ IsFiniteSet({j \in DOMAIN g : g[j].score > g[i].score})
         /\ g[i].rank = 1 + Cardinality({j \in DOMAIN g : g[j].score > g[i].score})
         /\ g[i].rank \in Nat
<1> DEFINE n == Cardinality(DOMAIN score)
           o == Ordered(score)
<1>1. n \in Nat /\ RankedSofar(g, n, score)
  BY RankingIs
<1>2. /\ g \in Seq(RankEntry(score)) /\ Len(g) = n
      /\ \A j \in 1 .. n : /\ g[j].score = score[o[j]]
                           /\ g[j].rank = 1 + Cardinality(Ahead(score, j))
  BY <1>1 DEF RankedSofar
<1>3. DOMAIN g = 1 .. n
  BY <1>2, LenProperties
<1> DEFINE better == {j \in DOMAIN g : g[j].score > g[i].score}
<1>4. Ahead(score, i) = better
  BY <1>2, <1>3 DEF Ahead
<1>5. Ahead(score, i) \subseteq 1 .. n
  BY DEF Ahead
<1>6. IsFiniteSet(Ahead(score, i)) /\ Cardinality(Ahead(score, i)) \in Nat
  BY <1>1, <1>5, BoundedSet
<1>7. g[i].rank = 1 + Cardinality(Ahead(score, i))
  BY <1>2, <1>3
<1> HIDE DEF better
<1>8. IsFiniteSet(better) /\ g[i].rank = 1 + Cardinality(better) /\ g[i].rank \in Nat
  BY <1>4, <1>6, <1>7
<1> QED
  BY <1>8 DEF better

=============================================================================
