---------------------------- MODULE ProgramRanking -----------------------------
(***************************************************************************)
(* build_program_ranking: the results of the PROCESSED sessions are added  *)
(* up per participant, in the order the rows of Sesiones are in, and the   *)
(* participants are ranked.                                                *)
(***************************************************************************)
EXTENDS Ranks

CONSTANTS
  Participant,  (* Numbers; their order is that of (name.casefold(), id).  *)
  Session

ASSUME RosterAssumption ==
  Participant \subseteq Nat /\ IsFiniteSet(Participant)

(* Scores are counted in half points.  Only activity scores: a positive    *)
(* score implies some voice or chat.                                       *)
Result ==
  {r \in [session : Session, id : Participant, score : Nat,
          active : BOOLEAN, complete : BOOLEAN] : r.score > 0 => r.active}

VARIABLES
  read,      (* The results taken so far (seen_keys, and history).         *)
  totals,    (* The accumulators.                                          *)
  excluded   (* excluded_scores: totals of the other roles.                *)

rankingVars == <<read, totals, excluded>>

Nothing == [listed |-> FALSE, score |-> 0, sessions |-> 0, complete |-> TRUE]

RankingInit ==
  /\ read = {}
  /\ totals = [p \in Participant |-> Nothing]
  /\ excluded = [p \in Participant |-> 0]

(* _Accumulator.add                                                        *)
Added(total, r) ==
  [listed |-> TRUE, score |-> total.score + r.score,
   sessions |-> total.sessions + (IF r.active THEN 1 ELSE 0),
   complete |-> total.complete /\ r.complete]

(* One turn of the loop; a second result for one session and participant   *)
(* raises, and no ranking is built.  Only those with role "participant"    *)
(* are eligible.                                                           *)
Take(r, eligible) ==
  /\ \A seen \in read : <<seen.session, seen.id>> # <<r.session, r.id>>
  /\ read' = read \union {r}
  /\ IF r.id \in eligible
     THEN totals' = [totals EXCEPT ![r.id] = Added(@, r)] /\ UNCHANGED excluded
     ELSE excluded' = [excluded EXCEPT ![r.id] = @ + r.score] /\ UNCHANGED totals

-----------------------------------------------------------------------------
Listed == {p \in Participant : totals[p].listed}
Final == Ranking([p \in Listed |-> totals[p].score])
Complete == \A p \in Listed : totals[p].complete

-----------------------------------------------------------------------------
RankingTypeOK ==
  /\ read \subseteq Result
  /\ totals \in [Participant -> [listed : BOOLEAN, score : Nat, sessions : Nat,
                                 complete : BOOLEAN]]
  /\ excluded \in [Participant -> Nat]

(* A rank is one more than the number of participants with more points:    *)
(* ties share a rank and leave a gap, so "top N" never cuts through a tie  *)
(* and never lists more than N ranks' worth above it.                      *)
RanksCountTheBetter ==
  LET final == Final
      better(i) == Cardinality({j \in DOMAIN final : final[j].score > final[i].score})
  IN  \A i \in DOMAIN final :
        /\ final[i].rank = 1 + better(i)
        /\ \A n \in DOMAIN final : final[i] \in Range(TopN(final, n)) <=> better(i) < n
=============================================================================
