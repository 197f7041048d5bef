------------------------------- MODULE FollowUp --------------------------------
(***************************************************************************)
(* The levels of the follow-up add-on: how present somebody is in the      *)
(* sessions they were eligible for, and since which session.               *)
(***************************************************************************)
EXTENDS Integers, FiniteSets, Sequences

Window == 4     (* The recent sessions, and the least history there is a level for. *)

Times(spoke) == Cardinality({k \in DOMAIN spoke : spoke[k]})
Recent(spoke) == IF Len(spoke) <= Window THEN spoke ELSE SubSeq(spoke, Len(spoke) - Window + 1, Len(spoke))

ClassifyFrequent(sessions, total, recent) ==                      \* mutant
  CASE recent = 0 -> "CRITICAL"
    [] recent = 1 -> IF 5 * total <= sessions THEN "OBSERVE" ELSE "CRITICAL"
    [] recent = 2 -> IF 2 * total < sessions THEN "OBSERVE" ELSE "NORMAL"
    [] recent > 2 -> IF 5 * total <= sessions THEN "OBSERVE" ELSE "NORMAL"

(* _classify, with the frequency total / sessions compared to 0.20, 0.50.  *)
Classify(sessions, total, recent) ==
  CASE recent = 0 -> "CRITICAL"
    [] recent = 1 -> IF 5 * total <= sessions THEN "CRITICAL" ELSE "OBSERVE"
    [] recent = 2 -> IF 2 * total < sessions THEN "OBSERVE" ELSE "NORMAL"
    [] recent > 2 -> IF 5 * total <= sessions THEN "OBSERVE" ELSE "NORMAL"

Level(spoke) ==
  IF Len(spoke) < Window THEN "none"
  ELSE Classify(Len(spoke), Times(spoke), Times(Recent(spoke)))

SinceLastWorse(spoke) ==                                          \* mutant
  LET passed[k \in 0 .. Len(spoke)] ==
        LET level == Level(SubSeq(spoke, 1, k))
        IN  IF k < Window THEN [level |-> "none", at |-> 0]
            ELSE IF level = "NORMAL" \/ level = passed[k - 1].level
            THEN [passed[k - 1] EXCEPT !.level = level] ELSE [level |-> level, at |-> k]
  IN  passed[Len(spoke)].at

(* _since: passes through the history and remembers where the level last   *)
(* became what it is; the number of an eligible session, or 0.             *)
Since(spoke) ==
  LET passed[k \in 0 .. Len(spoke)] ==
        LET level == Level(SubSeq(spoke, 1, k))
        IN  IF k < Window THEN [level |-> "none", at |-> 0]
            ELSE IF level = passed[k - 1].level THEN passed[k - 1]
            ELSE [level |-> level, at |-> k]
  IN  passed[Len(spoke)].at

-----------------------------------------------------------------------------
(* enrollment_issue and participant_is_eligible.                           *)
Unsettled(enrollment) ==
  \/ enrollment.first < 1
  \/ enrollment.status = "active" /\ enrollment.last # 0
  \/ enrollment.status = "inactive" /\ (enrollment.last = 0 \/ enrollment.last < enrollment.first)

EligibleIn(enrollment, s) ==
  /\ ~Unsettled(enrollment)
  /\ s >= enrollment.first
  /\ enrollment.last = 0 \/ s <= enrollment.last

(* What _entry looks at: for every eligible session among the processed    *)
(* and tracked ones, in order, whether the participant was heard.          *)
History(enrollment, person, heard, tracked) ==
  LET counted[s \in 0 .. Len(heard)] ==
        IF s = 0 THEN << >>
        ELSE IF s \in tracked /\ EligibleIn(enrollment, s)
        THEN Append(counted[s - 1], person \in heard[s]) ELSE counted[s - 1]
  IN  counted[Len(heard)]

EntryLevel(enrollment, spoke) ==
  IF Unsettled(enrollment) \/ enrollment.status = "inactive" THEN "none" ELSE Level(spoke)

EntrySince(enrollment, spoke) ==
  IF Unsettled(enrollment) \/ enrollment.status = "inactive" THEN 0 ELSE Since(spoke)

(* _display_order_key: the worst first, the inactive last.                 *)
Urgency(enrollment, level) ==
  IF enrollment.status = "inactive" THEN 4
  ELSE CASE level = "CRITICAL" -> 0
         [] level = "OBSERVE" -> 1
         [] level = "NORMAL" -> 2
         [] level = "none" -> 3
=============================================================================
