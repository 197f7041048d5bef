--------------------------------- MODULE Ranks ---------------------------------
(***************************************************************************)
(* Ranks: the participants in the order of their totals, with the rank of  *)
(* each, as build_program_ranking and the repository of the sheet Ranking  *)
(* make them.  Participants are numbers, in the order of (name.casefold(), *)
(* id).                                                                    *)
(***************************************************************************)
EXTENDS Lists, SequencesExt

(* The order of a function that gives the totals of the listed ones.       *)
Precedes(score) ==
  {pair \in (DOMAIN score) \X (DOMAIN score) :
     \/ score[pair[1]] > score[pair[2]]
     \/ score[pair[1]] = score[pair[2]] /\ pair[1] < pair[2]}

Ordered(score) == InOrderOf(DOMAIN score, Precedes(score))

DenseRank(ranked, points) ==                                     \* mutant
  IF ranked = << >> THEN 1
  ELSE Last(ranked).rank + (IF Last(ranked).score = points THEN 0 ELSE 1)

(* The position in the order, unless the score is that of the one before.  *)
Rank(ranked, points) ==
  IF ranked # << >> /\ Last(ranked).score = points
  THEN Last(ranked).rank ELSE Len(ranked) + 1

Placed(score, ranked, p) ==
  Append(ranked, [id |-> p, score |-> score[p], rank |-> Rank(ranked, score[p])])

Ranking(score) ==
  FoldLeft(LAMBDA ranked, p : Placed(score, ranked, p), << >>, Ordered(score))

(* top_n.                                                                  *)
TopN(ranking, n) == Picked(ranking, {i \in DOMAIN ranking : ranking[i].rank <= n})

(* _build_rows of the Ranking sheet sorts the entries once more, by rank,  *)
(* total, name and id.                                                     *)
Above(d, e) ==
  \/ d.rank < e.rank
  \/ d.rank = e.rank /\ d.score > e.score
  \/ d.rank = e.rank /\ d.score = e.score /\ d.id < e.id

Rebuilt(ranking) ==
  LET entries == Range(ranking)
  IN  InOrderOf(entries, {pair \in entries \X entries : Above(pair[1], pair[2])})
=============================================================================
