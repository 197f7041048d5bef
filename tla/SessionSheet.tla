----------------------------- MODULE SessionSheet ------------------------------
(***************************************************************************)
(* SessionResultsRepository.replace_session on the sheet Sesiones.         *)
(*                                                                         *)
(* The repository reads the sheet, plans which cells to overwrite, which   *)
(* rows to append and which row NUMBERS to delete, and sends up to three   *)
(* API calls, each retried on 429 and 5xx, before it reads the sheet back. *)
(* A call may be refused, may be applied though the answer is an error (a  *)
(* 5xx after the commit), and the process may die between two calls.       *)
(***************************************************************************)
EXTENDS SheetRows

CONSTANTS
  Session,      (* Session numbers.                                        *)
  Participant,  (* Numbers; results are written in this order.             *)
  Value,        (* What the cells of a result may hold.                    *)
  None,         (* No result.                                              *)
  MaxAttempts,  (* Attempts of execute_with_transient_retry.               *)
  LostAnswers,  (* The calls that may be applied and still answer 5xx.     *)
  MaxFaults,    (* Bound: refused calls, lost answers, deaths.             *)
  MaxChanges    (* Bound: how often the wanted results change.             *)

ASSUME ParticipantAssumption == Participant \subseteq Nat /\ IsFiniteSet(Participant)
ASSUME NoneAssumption == None \notin Value
ASSUME KeyAssumption == NoKey \notin Session \X Participant
ASSUME CallAssumption ==
  MaxAttempts \in Nat \ {0} /\ LostAnswers \subseteq {"update", "append", "delete"}

VARIABLES
  sheet,     (* The data rows of Sesiones.                                 *)
  wanted,    (* wanted[s]: the results the evidence of s now amounts to.   *)
  job,       (* Local variables of replace_session.                        *)
  attempt,   (* Attempts of the current call so far.                       *)
  result,    (* History: what the last replacement reported.               *)
  faults, changes

vars == <<sheet, wanted, job, attempt, result, faults, changes>>

Results == [Participant -> Value \union {None}]
Idle == [at |-> "idle"]

-----------------------------------------------------------------------------
(* _build_session_rows: one row per participant with a result.             *)
RowsOf(s, results) ==
  LET scored == Ascending({p \in Participant : results[p] # None})
  IN  [i \in DOMAIN scored |-> [key |-> <<s, scored[i]>>, cells |-> results[scored[i]]]]

KeysOfAll(s) == Session \X Participant                           \* mutant

KeysOf(s) == {s} \X Participant

(* _verify_session_rows compares dictionaries keyed by participant_id: of  *)
(* two rows with one key it sees the last.                                 *)
Seen(s) ==
  LET at(p) == {i \in DOMAIN sheet : sheet[i].key = <<s, p>>}
  IN  [p \in Participant |-> IF at(p) = {} THEN None ELSE sheet[Max(at(p))].cells]

NothingToWrite(plan) == plan.updates = << >> /\ plan.inserts = << >>   \* mutant

NothingToDo(plan) == plan.updates = << >> /\ plan.inserts = << >> /\ plan.deletes = {}

Plan(s, results) ==
  LET rows == RowsOf(s, results)
  IN  [at |-> "update", session |-> s, results |-> results,
       updates |-> Updates(sheet, KeysOf(s), rows),
       inserts |-> Inserts(sheet, rows),
       deletes |-> Obsolete(sheet, KeysOf(s), rows)]

Init ==
  /\ sheet = << >>
  /\ wanted = [s \in Session |-> [p \in Participant |-> None]]
  /\ job = Idle
  /\ attempt = 0
  /\ result = "none"
  /\ faults = 0
  /\ changes = 0

(* migrate and the plan.  A sheet with a duplicated result is refused.     *)
Read(s) ==
  /\ job = Idle
  /\ IF Duplicated(sheet)
     THEN job' = Idle /\ result' = "refused"
     ELSE IF NothingToDo(Plan(s, wanted[s]))
          THEN job' = Idle /\ result' = "noop"
          ELSE job' = Plan(s, wanted[s]) /\ result' = "none"
  /\ UNCHANGED <<sheet, wanted, attempt, faults, changes>>

(* apply_changes: the three calls, in this order, skipping empty ones.     *)
Effect ==
  CASE job.at = "update" -> Written(sheet, job.updates)
    [] job.at = "append" -> Appended(sheet, job.inserts)
    [] job.at = "delete" -> Deleted(sheet, Descending(job.deletes))

After == [update |-> "append", append |-> "delete", delete |-> "verify"]

Calling == job.at \in {"update", "append", "delete"}
Empty ==
  CASE job.at = "update" -> job.updates = << >>
    [] job.at = "append" -> job.inserts = << >>
    [] job.at = "delete" -> job.deletes = {}

SkipCall ==
  /\ Calling /\ Empty
  /\ job' = [job EXCEPT !.at = After[@]]
  /\ UNCHANGED <<sheet, wanted, attempt, result, faults, changes>>

Call ==
  /\ Calling /\ ~Empty
  /\ sheet' = Effect
  /\ job' = [job EXCEPT !.at = After[@]]
  /\ attempt' = 0
  /\ UNCHANGED <<wanted, result, faults, changes>>

(* An error answer: tried again, or raised after the last attempt.         *)
RetryOrRaise ==
  IF attempt + 1 < MaxAttempts
  THEN attempt' = attempt + 1 /\ UNCHANGED <<job, result>>
  ELSE attempt' = 0 /\ job' = Idle /\ result' = "raised"

Fault == faults < MaxFaults /\ faults' = faults + 1

CallRefused ==
  /\ Calling /\ ~Empty
  /\ Fault
  /\ RetryOrRaise
  /\ UNCHANGED <<sheet, wanted, changes>>

AnswerLost ==
  /\ Calling /\ ~Empty /\ job.at \in LostAnswers
  /\ Fault
  /\ sheet' = Effect
  /\ RetryOrRaise
  /\ UNCHANGED <<wanted, changes>>

Verify ==
  /\ job.at = "verify"
  /\ result' = IF Seen(job.session) = job.results THEN "replaced" ELSE "raised"
  /\ job' = Idle
  /\ UNCHANGED <<sheet, wanted, attempt, faults, changes>>

Crash ==
  /\ job # Idle
  /\ Fault
  /\ job' = Idle
  /\ attempt' = 0
  /\ result' = "none"
  /\ UNCHANGED <<sheet, wanted, changes>>

(* New evidence, a corrected roster: the session is due again.             *)
Change(s, results) ==
  /\ changes < MaxChanges
  /\ changes' = changes + 1
  /\ wanted' = [wanted EXCEPT ![s] = results]
  /\ UNCHANGED <<sheet, job, attempt, result, faults>>

Progress == SkipCall \/ Call \/ Verify

Next ==
  \/ \E s \in Session : Read(s)
  \/ Progress \/ CallRefused \/ AnswerLost \/ Crash
  \/ \E s \in Session, results \in Results : Change(s, results)

Spec == Init /\ [][Next]_vars

(* A started replacement goes on, and every session whose replacement did  *)
(* not succeed is tried again by a later run (EiraRun: its record is not   *)
(* PROCESSED with the current fingerprints).                               *)
FairSpec == Spec /\ WF_vars(Progress) /\ \A s \in Session : SF_vars(Read(s))

-----------------------------------------------------------------------------
(* No interleaving of refused calls, deaths and replanned replacements     *)
(* leaves two rows for one participant in one session, which would make    *)
(* every later run refuse the sheet (tests/test_session_results_repository *)
(* .py:311, "interruption then retry has no duplicates").                  *)
NoDuplicates == ~Duplicated(sheet)

(* Row numbers are read first and used later, and deletions shift rows:    *)
(* still, replacing one session never touches the rows of another, their   *)
(* order included (test_..._removes_obsolete_rows_only_in_target_session). *)
Others(rows, s) == Picked(rows, {i \in DOMAIN rows : rows[i].key[1] # s})

OtherSessionsUntouched ==
  [][sheet' # sheet => Others(sheet', job.session) = Others(sheet, job.session)]_vars

(* "REPLACE" and "NOOP" are reported only when the session's rows are the  *)
(* wanted ones, whatever an interrupted attempt had left in the sheet.     *)
SuccessIsComplete ==
  [][/\ result' = "replaced" /\ result # "replaced" =>
          Seen(job.session) = job.results /\ ~Duplicated(sheet)
     /\ \A s \in Session : Read(s) /\ result' = "noop" => Seen(s) = wanted[s]]_vars

(* Whatever was interrupted, once faults and changes are over the sheet    *)
(* comes to hold exactly the wanted results.                               *)
Converges == <>[](\A s \in Session : Seen(s) = wanted[s] /\ ~Duplicated(sheet))

Table == INSTANCE SessionTable WITH
  table <- [s \in Session |-> Seen(s)],
  job <- IF job = Idle THEN [busy |-> FALSE]
         ELSE [busy |-> TRUE, session |-> job.session, wanted |-> job.results]

(* The three calls by row number implement the replacement of one session  *)
(* in a table of results.                                                  *)
ImplementsTable == Table!Spec
=============================================================================
