--------------------------------- MODULE Lists ---------------------------------
(***************************************************************************)
(* The lists the code makes with sorted() and with comprehensions.  The    *)
(* operators of the libraries for this, SetToSortSeq and SelectSeq, rest   *)
(* on TLC!SortSeq and on a RECURSIVE operator; here they have definitions  *)
(* that can be reasoned about.                                             *)
(***************************************************************************)
EXTENDS Naturals, FiniteSets, Sequences

(* The elements of S in the order that the pairs of `before' give: the     *)
(* k-th is the one with k - 1 elements before it.                          *)
InOrderOf(S, before) ==
  [k \in 1 .. Cardinality(S) |->
     CHOOSE x \in S : Cardinality({y \in S : <<y, x>> \in before}) = k - 1]

Ascending(S) == InOrderOf(S, {pair \in S \X S : pair[1] < pair[2]})

(* The elements of s that stand at some places, in their order in s.       *)
Picked(s, places) ==
  LET at == Ascending(places)
  IN  [k \in DOMAIN at |-> s[at[k]]]
=============================================================================
