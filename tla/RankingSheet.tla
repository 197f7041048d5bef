----------------------------- MODULE RankingSheet ------------------------------
(***************************************************************************)
(* RankingRepository.persist: the sheet Ranking is made to hold the rows   *)
(* of a ranking, in its order, by up to four API calls that address rows   *)
(* by number: overwrite, append, delete, and moves computed from a second  *)
(* reading of the sheet.  As in SessionSheet a call may be refused, may be *)
(* applied though its answer is an error, and the process may die.         *)
(***************************************************************************)
EXTENDS Ranks, SheetRows

CONSTANTS
  Participant,  (* Numbers, ordered as in ProgramRanking.                  *)
  Score,        (* Totals.                                                 *)
  MaxAttempts,  (* Attempts of execute_with_transient_retry.               *)
  LostAnswers,  (* The calls that may be applied and still answer 5xx.     *)
  MaxFaults,    (* Bound: refused calls, lost answers, deaths.             *)
  MaxChanges,   (* Bound: how often the totals change.                     *)
  MaxBlanks     (* Bound: blank rows a person leaves in the sheet.         *)

ASSUME CallAssumption ==
  /\ MaxAttempts \in Nat \ {0}
  /\ LostAnswers \subseteq {"update", "append", "delete", "move"}

(* Rows are keyed by participant_id, and a blank one has none.             *)
ASSUME ParticipantAssumption ==
  /\ Participant \subseteq Nat /\ IsFiniteSet(Participant) /\ NoKey \notin Participant
  /\ Score \subseteq Nat

VARIABLES
  sheet,      (* The data rows of Ranking.                                 *)
  scores,     (* Totals of the participants who now have results.          *)
  due,        (* The rows their ranking amounts to.                        *)
  job,        (* Local variables of persist.                               *)
  attempt, result, faults, changes, blanks

vars == <<sheet, scores, due, job, attempt, result, faults, changes, blanks>>

Idle == [at |-> "idle"]
Blank == [key |-> NoKey, cells |-> 0]

(* _build_rows.                                                            *)
Rows(ranking) ==
  LET sorted == Rebuilt(ranking)
  IN  [i \in DOMAIN sorted |-> [key |-> sorted[i].id, cells |-> <<sorted[i].rank, sorted[i].score>>]]

Filled(rows) == Picked(rows, {i \in DOMAIN rows : rows[i].key # NoKey})
Order(rows) == [i \in DOMAIN Filled(rows) |-> Filled(rows)[i].key]

-----------------------------------------------------------------------------
(* reorder_rows keeps its own map of where each move puts every row, and   *)
(* sends all the moves as one batch.                                       *)
PositionsUnshifted(current, id, target) ==                       \* mutant
  [current EXCEPT ![id] = target]

Positions(current, id, target) ==
  [q \in DOMAIN current |->
     IF q = id THEN target
     ELSE IF target <= current[q] /\ current[q] < current[id] THEN current[q] + 1
     ELSE IF current[id] < current[q] /\ current[q] <= target THEN current[q] - 1
     ELSE current[q]]

PlaceRow(state, target, id) ==
  IF id \notin DOMAIN state.current \/ state.current[id] = target THEN state
  ELSE [current |-> Positions(state.current, id, target),
        moves |-> Append(state.moves, [from |-> state.current[id], to |-> target])]

Moves(rows, order) ==
  LET start == [current |-> [id \in Keys(rows) |-> CHOOSE i \in DOMAIN rows : rows[i].key = id],
                moves |-> << >>]
  IN  FoldLeftDomain(LAMBDA state, i : PlaceRow(state, i, order[i]), start, order).moves

Plan(rows) ==
  [at |-> "update", rows |-> rows,
   updates |-> Updates(sheet, Participant, rows),
   inserts |-> Inserts(sheet, rows),
   deletes |-> Obsolete(sheet, Participant, rows),
   order |-> Order(sheet) # Order(rows), moves |-> << >>, clean |-> TRUE]

NothingButOrder(plan) ==                                         \* mutant
  plan.updates = << >> /\ plan.inserts = << >> /\ plan.deletes = {}

NothingToDo(plan) ==
  plan.updates = << >> /\ plan.inserts = << >> /\ plan.deletes = {} /\ ~plan.order

Init ==
  /\ sheet = << >>
  /\ scores = << >>
  /\ due = << >>
  /\ job = Idle
  /\ attempt = 0
  /\ result = "none"
  /\ faults = 0
  /\ changes = 0
  /\ blanks = 0

(* migrate and the plan.                                                   *)
Read ==
  /\ job = Idle
  /\ LET plan == Plan(due)
     IN  IF Duplicated(sheet)
         THEN job' = Idle /\ result' = "refused"
         ELSE IF NothingToDo(plan)
              THEN job' = Idle /\ result' = "noop"
              ELSE job' = plan /\ result' = "none"
  /\ UNCHANGED <<sheet, scores, due, attempt, faults, changes, blanks>>

(* apply_changes, skipping empty calls, and then reorder_rows, which reads *)
(* the sheet again.  The retried closure holds the requests: a retry sends *)
(* the same moves.                                                         *)
Call == {"update", "append", "delete", "move"}
After == [update |-> "append", append |-> "delete", delete |-> "reorder", move |-> "verify"]

Empty ==
  CASE job.at = "update" -> job.updates = << >>
    [] job.at = "append" -> job.inserts = << >>
    [] job.at = "delete" -> job.deletes = {}
    [] job.at = "move" -> job.moves = << >>

Reorder ==
  /\ job.at = "reorder"
  /\ job' = IF job.order \/ job.inserts # << >> \/ job.deletes # {}
            THEN [job EXCEPT !.at = "move", !.moves = Moves(sheet, Order(job.rows))]
            ELSE [job EXCEPT !.at = "verify"]
  /\ UNCHANGED <<sheet, scores, due, attempt, result, faults, changes, blanks>>

Effect ==
  CASE job.at = "update" -> Written(sheet, job.updates)
    [] job.at = "append" -> Appended(sheet, job.inserts)
    [] job.at = "delete" -> Deleted(sheet, Descending(job.deletes))
    [] job.at = "move" -> Moved(sheet, job.moves)

Calling == job.at \in Call /\ ~Empty

SkipCall ==
  /\ job.at \in Call /\ Empty
  /\ job' = [job EXCEPT !.at = After[@]]
  /\ UNCHANGED <<sheet, scores, due, attempt, result, faults, changes, blanks>>

Answered ==
  /\ Calling
  /\ sheet' = Effect
  /\ job' = [job EXCEPT !.at = After[@]]
  /\ attempt' = 0
  /\ UNCHANGED <<scores, due, result, faults, changes, blanks>>

RetryOrRaise ==
  IF attempt + 1 < MaxAttempts
  THEN attempt' = attempt + 1 /\ job' = [job EXCEPT !.clean = FALSE] /\ UNCHANGED result
  ELSE attempt' = 0 /\ job' = Idle /\ result' = "raised"

Fault == faults < MaxFaults /\ faults' = faults + 1

Refused ==
  /\ Calling
  /\ Fault
  /\ RetryOrRaise
  /\ UNCHANGED <<sheet, scores, due, changes, blanks>>

AnswerLost ==
  /\ Calling /\ job.at \in LostAnswers
  /\ Fault
  /\ sheet' = Effect
  /\ RetryOrRaise
  /\ UNCHANGED <<scores, due, changes, blanks>>

(* _verify_rows: the set of participants, their order, their cells.        *)
Verify ==
  /\ job.at = "verify"
  /\ result' = IF Filled(sheet) = job.rows THEN "replaced" ELSE "raised"
  /\ job' = Idle
  /\ UNCHANGED <<sheet, scores, due, attempt, faults, changes, blanks>>

Crash ==
  /\ job # Idle
  /\ Fault
  /\ job' = Idle
  /\ attempt' = 0
  /\ result' = "none"
  /\ UNCHANGED <<sheet, scores, due, changes, blanks>>

(* Between two runs the results change, or a person inserts a blank row.   *)
Scored(new) == scores' = new /\ due' = Rows(Ranking(new))

Rescore(p, score) ==
  /\ job = Idle
  /\ changes < MaxChanges
  /\ changes' = changes + 1
  /\ Scored([q \in DOMAIN scores \union {p} |-> IF q = p THEN score ELSE scores[q]])
  /\ UNCHANGED <<sheet, job, attempt, result, faults, blanks>>

Unscore(p) ==
  /\ job = Idle
  /\ p \in DOMAIN scores
  /\ changes < MaxChanges
  /\ changes' = changes + 1
  /\ Scored([q \in DOMAIN scores \ {p} |-> scores[q]])
  /\ UNCHANGED <<sheet, job, attempt, result, faults, blanks>>

InsertBlank(i) ==
  /\ job = Idle
  /\ i \in DOMAIN sheet
  /\ blanks < MaxBlanks
  /\ blanks' = blanks + 1
  /\ sheet' = InsertAt(sheet, i, Blank)
  /\ UNCHANGED <<scores, due, job, attempt, result, faults, changes>>

Progress == SkipCall \/ Reorder \/ Answered \/ Verify

Next ==
  \/ Read \/ Progress \/ Refused \/ AnswerLost \/ Crash
  \/ \E p \in Participant : Unscore(p) \/ \E score \in Score : Rescore(p, score)
  \/ \E i \in DOMAIN sheet : InsertBlank(i)

Spec == Init /\ [][Next]_vars

(* Every run persists the ranking, whatever the one before did.            *)
FairSpec == Spec /\ WF_vars(Progress) /\ SF_vars(Read)

-----------------------------------------------------------------------------
(* reorder_rows predicts where every move puts every row: a run whose      *)
(* calls were all answered finds the sheet as wanted, blank rows and the   *)
(* rows left by interrupted runs notwithstanding.                          *)
CleanRunsVerify == job.at = "verify" /\ job.clean => Filled(sheet) = job.rows

(* No two rows for a participant, which every later run would refuse.      *)
NoDuplicates == ~Duplicated(sheet)

(* Whatever an interrupted or half-answered run leaves behind, later runs  *)
(* bring the sheet to the ranking of the totals, in its order.             *)
Converges == <>[](Filled(sheet) = due)
=============================================================================
