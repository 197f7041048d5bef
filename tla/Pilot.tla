--------------------------------- MODULE Pilot ---------------------------------
(***************************************************************************)
(* The read-only pilot: from the session statuses in Control, the rows of  *)
(* Sesiones, Participantes and the attendance table to one alert for every *)
(* participant, as of the last session that has an outcome.                *)
(*                                                                         *)
(* `book' is what the pilot reads: the statuses, the rows as records       *)
(* [session, id, score, complete], the people and their enrollment bounds. *)
(***************************************************************************)
EXTENDS Identity

CONSTANTS
  N,            (* Sessions, in the order of session_mapping.               *)
  Minimum,      (* longitudinal.minimum_observations.                       *)
  Exhaustive    (* Whether attendance coverage is EXHAUSTIVE.               *)

Term == 1 .. N          (* The sessions, by number.                         *)
MinimumStreak == 2       (* pilot.v1 accepts no other.                      *)

ASSUME PilotAssumption == N \in Nat \ {0} /\ Minimum \in Nat \ {0} /\ Exhaustive \in BOOLEAN

-----------------------------------------------------------------------------
(* RosterApplicabilityResolver: explicit bounds, never outcomes.  An       *)
(* invalid enrollment says nothing.                                        *)
Applies(bounds, s) ==
  IF ~bounds.valid THEN "UNKNOWN"
  ELSE IF s < bounds.first \/ (bounds.last # 0 /\ s > bounds.last) THEN "NOT_APPLICABLE"
  ELSE "APPLICABLE"

Observed(value) == [status |-> "OBSERVED", value |-> value]
Without(status) == [status |-> status, value |-> 0]
NoObservation == Without("none")

(* A PROCESSED session without a row for somebody is an observed silence;  *)
(* any other outcome is no silence, whatever rows the sheet still holds.   *)
SilentIfIncomplete(book, id, s) ==                                \* mutant
  LET own == {row \in book.rows : row.session = s /\ row.id = id}
      row == CHOOSE r \in own : TRUE
  IN  IF Cardinality(own) > 1 THEN NoObservation
      ELSE IF book.status[s] \notin {"PROCESSED", "INCOMPLETE"} THEN Without("NO_DATA")
      ELSE IF own = {} THEN Observed(0)
      ELSE IF row.complete THEN Observed(row.score) ELSE Without("INCOMPLETE")

WhatWasSeen(book, id, s) ==
  LET own == {row \in book.rows : row.session = s /\ row.id = id}
      row == CHOOSE r \in own : TRUE
  IN  IF Cardinality(own) > 1 THEN NoObservation          (* DUPLICATE_SCORE *)
      ELSE IF book.status[s] = "INCOMPLETE" THEN Without("INCOMPLETE")
      ELSE IF book.status[s] # "PROCESSED" THEN Without("NO_DATA")
      ELSE IF own = {} THEN Observed(0)
      ELSE IF row.complete THEN Observed(row.score) ELSE Without("INCOMPLETE")

(* ParticipationModule.build_observations, for one expected pair.          *)
Participation(book, person, s) ==
  LET applies == Applies(book.bounds[person.name], s)
  IN  IF applies = "UNKNOWN" THEN NoObservation
      ELSE IF applies = "NOT_APPLICABLE" THEN Without("NOT_APPLICABLE")
      ELSE WhatWasSeen(book, person.id, s)

-----------------------------------------------------------------------------
(* analyze_longitudinal of the observations up to session k.               *)
Available(book, person, k) == [s \in 1 .. k |-> Participation(book, person, s)]

Counts(o) == o.status \notin {"none", "NOT_APPLICABLE"}
ObservedIn(series) == {s \in DOMAIN series : series[s].status = "OBSERVED"}
Silent(o) == o.status = "OBSERVED" /\ o.value = 0

(* _streak over the applicable observations: missing or incomplete         *)
(* evidence ends a streak, a session that did not apply is passed over.    *)
Streak(series) ==
  LET run[s \in 0 .. Len(series)] ==
        IF s = 0 THEN 0
        ELSE IF ~Counts(series[s]) THEN run[s - 1]
        ELSE IF Silent(series[s]) THEN run[s - 1] + 1 ELSE 0
  IN  run[Len(series)]

Sufficient(series) == Cardinality(ObservedIn(series)) >= Minimum
Evaluable(series) == Len(series) \in ObservedIn(series)

(* SignalEngine and AlertEngine: silence is signalled only where the       *)
(* current session was observed and there is enough to go by.              *)
Signalled(series) ==
  Evaluable(series) /\ Sufficient(series) /\ Streak(series) >= MinimumStreak

AlertEscalating(series) ==                                        \* mutant
  IF Signalled(series) THEN "CRITICO"
  ELSE IF Sufficient(series) /\ Evaluable(series) THEN "NORMAL"
  ELSE "INSUFFICIENT_DATA"

Alert(series) ==
  IF Signalled(series) THEN "OBSERVAR"
  ELSE IF Sufficient(series) /\ Evaluable(series) THEN "NORMAL"
  ELSE "INSUFFICIENT_DATA"

-----------------------------------------------------------------------------
Followed(book) == {i \in DOMAIN book.people : book.people[i].role = "participant"}

(* Attendance.  A fact is [external, session, value]; value "missing" is a *)
(* cell without a value.  Two facts for one address and session cancel.    *)
OwnFacts(facts, external, s) ==
  {f \in facts : f.external = external /\ f.session = s}

Addresses(book, rules, i) ==
  {external \in {book.people[i].mail} \union {rule.external : rule \in rules} :
     /\ external # NoMail
     /\ ResolveAttendance(book.people, rules, external).status = "RESOLVED"
     /\ ResolveAttendance(book.people, rules, external).row = i}

(* _known_attendance_expected_pairs: all or nothing.                       *)
ExpectedPairs(book, rules) ==
  IF Exhaustive /\ \A i \in Followed(book) : Cardinality(Addresses(book, rules, i)) = 1
  THEN (UNION {Addresses(book, rules, i) : i \in Followed(book)}) \X Term
  ELSE {}

AttendanceStatus(book, facts, pair, i) ==
  LET own == OwnFacts(facts, pair[1], pair[2])
      applies == Applies(book.bounds[book.people[i].name], pair[2])
  IN  CASE applies = "UNKNOWN" \/ Cardinality(own) > 1 -> "none"
        [] applies = "NOT_APPLICABLE" /\ Cardinality(own) <= 1 -> "NOT_APPLICABLE"
        [] applies = "APPLICABLE" /\ Cardinality(own) <= 1 ->
             IF \E f \in own : f.value # "missing" THEN "OBSERVED" ELSE "NO_DATA"

(* AttendanceModule.build_observations: one observation for every address  *)
(* that belongs to somebody, not one for every participant.                *)
AttendanceSeen(book, rules, facts) ==
  LET pairs == {<<f.external, f.session>> : f \in facts} \union ExpectedPairs(book, rules)
      owner(pair) == ResolveAttendance(book.people, rules, pair[1])
      seen == {[external |-> pair[1], session |-> pair[2], row |-> owner(pair).row,
                status |-> AttendanceStatus(book, facts, pair, owner(pair).row)] :
               pair \in {q \in pairs : /\ q[2] \in Term
                                       /\ owner(q).status = "RESOLVED"
                                       /\ owner(q).row \in Followed(book)}}
  IN  {o \in seen : o.status # "none"}

(* _validate_auto_attendance_resolution.                                   *)
Unmapped(book, rules, facts) ==
  \/ Followed(book) = {} \/ rules = {}
  \/ \E f \in facts :
       \/ \A rule \in rules : rule.external # f.external
       \/ LET rows == [k \in 1 .. Cardinality(Followed(book)) |->
                         book.people[CHOOSE i \in Followed(book) :
                           Cardinality({j \in Followed(book) : j <= i}) = k]]
          IN  ResolveAttendance(rows, rules, f.external).status # "RESOLVED"

SameAddress(seen) ==                                              \* mutant
  \E first, second \in seen :
    /\ first # second /\ first.external = second.external
    /\ first.session = second.session

(* Two addresses of one participant in one session make two observations   *)
(* of one key, which analyze_longitudinal refuses.                         *)
Twins(seen) ==
  \E first, second \in seen :
    first # second /\ first.row = second.row /\ first.session = second.session

Refused(book, strictly, rules, facts) ==
  \/ Conflicting(rules)
  \/ strictly /\ Unmapped(book, rules, facts)
  \/ Twins(AttendanceSeen(book, rules, facts))

-----------------------------------------------------------------------------
HasOutcome == {"PROCESSED", "INCOMPLETE", "NEEDS_REVIEW", "FAILED"}
WithOutcome(book) == {s \in Term : book.status[s] \in HasOutcome}
AsOf(book) == CHOOSE s \in WithOutcome(book) : \A t \in WithOutcome(book) : t <= s

EmptyView == [as_of |-> 0, cases |-> {}, attended |-> 0]

(* build_operational_view of the last snapshot with an outcome.            *)
OperationalView(book, seen) ==
  IF WithOutcome(book) = {} THEN EmptyView
  ELSE LET k == AsOf(book)
           series(i) == Available(book, book.people[i], k)
           known == {i \in Followed(book) :
                       \/ \E s \in 1 .. k : series(i)[s] # NoObservation
                       \/ \E o \in seen : o.row = i /\ o.session <= k}
       IN  [as_of |-> k,
            cases |-> {[id |-> book.people[i].id, alert |-> Alert(series(i))] : i \in known},
            attended |-> Cardinality({o \in seen : o.status = "OBSERVED" /\ o.session <= k})]
=============================================================================
