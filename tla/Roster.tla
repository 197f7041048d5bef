-------------------------------- MODULE Roster ---------------------------------
(***************************************************************************)
(* Refreshing the sheet Participantes from the live roster, the first      *)
(* thing an invocation of eira-run does once it holds the lease.           *)
(*                                                                         *)
(* The external roster is a table of people that somebody else edits: they *)
(* enrol, leave, and change name and e-mail.  RosterImporter recognises    *)
(* every record among the participants by its explicit id or else by       *)
(* e-mail, name or alias, and plans MATCH, UPDATE, CREATE or NEEDS_REVIEW; *)
(* a plan without reviews is applied as one append and then one API call   *)
(* per cell.  The process may die, or a call fail for good, between any    *)
(* two of them.                                                            *)
(***************************************************************************)
EXTENDS Lists, Integers, FiniteSetsExt, SequencesExt

CONSTANTS
  Person,       (* Numbers: the people, in the order of the roster's rows.  *)
  NamesOf,      (* NamesOf[p]: the names p may go by.                       *)
  EmailsOf,     (* EmailsOf[p]: the e-mail addresses p may have.            *)
  IdOf,         (* IdOf[p]: the explicit id, if the roster has the column.  *)
  None,         (* An empty cell.                                           *)
  Earlier,      (* What Participantes may hold before the first refresh.    *)
  AppendTimes,  (* How often a retried append may be applied: 1, maybe 2.   *)
  MaxChanges,   (* Bound: edits of the roster and of the sheet by people.   *)
  MaxFaults     (* Bound: failed calls, deaths of the process.              *)

ASSUME RosterAssumption ==
  /\ Person \subseteq Nat /\ IsFiniteSet(Person)
  /\ AppendTimes \subseteq {1, 2} /\ 1 \in AppendTimes
  /\ MaxChanges \in Nat /\ MaxFaults \in Nat

VARIABLES
  roster,    (* The external roster: a record for every enrolled person.    *)
  columns,   (* Which of its optional columns the roster declares.          *)
  people,    (* The data rows of Participantes.                             *)
  job,       (* Local variables of the refresh.                             *)
  result,    (* History: how the last refresh ended.                        *)
  changes, faults

vars == <<roster, columns, people, job, result, changes, faults>>

Blank == [id |-> None, nombre |-> None, correo |-> None, aliases |-> {}, role |-> None]
Absent == [nombre |-> None, correo |-> None]
Idle == [at |-> "idle"]

Enrolled == {p \in Person : roster[p] # Absent}

-----------------------------------------------------------------------------
Filled == {i \in DOMAIN people : people[i] # Blank}
Declared(column) == column \in columns

WithId(id) == {i \in Filled : people[i].id = id}
ByEmail(p) == {i \in Filled : people[i].correo = roster[p].correo}
ByName(p) == {i \in Filled : people[i].nombre = roster[p].nombre}
ByAlias(p) == {i \in Filled : roster[p].nombre \in people[i].aliases}

(* _matches: an explicit id never falls through to another person.         *)
Matches(p) ==
  IF Declared("participant_id") THEN WithId(IdOf[p])
  ELSE IF ByEmail(p) # {} THEN ByEmail(p)
  ELSE IF ByName(p) # {} THEN ByName(p)
  ELSE ByAlias(p)

(* _preserve_unspecified_roster_fields.  `aliases' stands for all optional *)
(* fields, enrollment status and bounds included: undeclared ones come     *)
(* from the participant with the same id or else the same e-mail.          *)
Preserved(p) ==
  LET own == IF Declared("participant_id") THEN WithId(IdOf[p]) ELSE {}
      current == IF own # {} THEN own ELSE ByEmail(p)
  IN  [nombre |-> roster[p].nombre,
       correo |-> roster[p].correo,
       aliases |-> IF Declared("aliases") THEN NamesOf[p] \ {roster[p].nombre}
                   ELSE IF current = {} THEN {}
                   ELSE people[Max(current)].aliases]

(* _stable_official_id hashes the e-mail, without which no record is read. *)
StableId(p) == IF Declared("participant_id") THEN IdOf[p] ELSE roster[p].correo

Repeated(p) == \E q \in Enrolled \ {p} : roster[q].correo = roster[p].correo

TrustsEmails(p) ==                                                \* mutant
  \/ Cardinality(Matches(p)) > 1
  \/ Matches(p) = {} /\ WithId(StableId(p)) # {}

TrustsIds(p) == Repeated(p) \/ Cardinality(Matches(p)) > 1         \* mutant

NeedsReview(p) ==
  \/ Repeated(p)
  \/ Cardinality(Matches(p)) > 1
  \/ Matches(p) = {} /\ WithId(StableId(p)) # {}

Target(p) == CHOOSE i \in Matches(p) : TRUE

Agrees(row, rec) == <<row.nombre, row.correo, row.aliases>> = <<rec.nombre, rec.correo, rec.aliases>>

(* dry_run, for one record.                                                *)
Action(p) ==
  CASE NeedsReview(p) -> "NEEDS_REVIEW"
    [] ~NeedsReview(p) /\ Matches(p) = {} -> "CREATE"
    [] ~NeedsReview(p) /\ Matches(p) # {} ->
         IF Agrees(people[Target(p)], Preserved(p)) THEN "MATCH" ELSE "UPDATE"

Reviews == \E p \in Enrolled : NeedsReview(p)

(* load_read_only raises on a duplicated id and on a row without name.     *)
Damaged ==
  \/ \E i, j \in Filled : i # j /\ people[i].id = people[j].id
  \/ \E i \in Filled : people[i].nombre = None

-----------------------------------------------------------------------------
(* apply.  New people never take a role from the roster.                   *)
NewRow(p) ==
  [id |-> StableId(p), nombre |-> Preserved(p).nombre, correo |-> Preserved(p).correo,
   aliases |-> Preserved(p).aliases, role |-> "participant"]

Decided(action) == {p \in Enrolled : Action(p) = action}

(* In the order of the roster's rows.                                      *)
Creates(created) ==
  LET order == Ascending(created)
  IN  [k \in DOMAIN order |-> NewRow(order[k])]

RowNumberFromHeader(i) == Cardinality({j \in Filled : j < i})     \* mutant

(* update_fields numbers the rows that are not blank, from the first data  *)
(* row on; data row i has number i when no blank row lies above it.        *)
RowNumber(i) == Cardinality({j \in Filled : j <= i})

(* `updates' is a dictionary by participant: of two records recognised as  *)
(* one participant the last decides, at the place of the first.            *)
UpdatesById(updated) ==
  LET same(p) == {q \in updated : Target(q) = Target(p)}
      firsts == Ascending({p \in updated : p = Min(same(p))})
  IN  [k \in DOMAIN firsts |->
         [row |-> RowNumber(Target(firsts[k])),
          id |-> people[Target(firsts[k])].id,
          to |-> Preserved(Max(same(firsts[k])))]]

Stage(creates, updates) ==
  IF creates # << >> THEN "append" ELSE IF updates # << >> THEN "nombre" ELSE "verify"

Init ==
  /\ roster = [p \in Person |-> Absent]
  /\ columns \in SUBSET {"participant_id", "aliases"}
  /\ people \in Earlier
  /\ job = Idle
  /\ result = "none"
  /\ changes = 0
  /\ faults = 0

(* _refresh_live_roster: reads the roster and the sheet and plans.  Only   *)
(* the owner of the lease writes the sheet, so its reads see one state.    *)
Plan ==
  /\ job = Idle
  /\ IF Damaged \/ Reviews
     THEN result' = "refused" /\ UNCHANGED job
     ELSE \E created \in {Decided("CREATE")}, updated \in {Decided("UPDATE")} :
            \E creates \in {Creates(created)}, updates \in {UpdatesById(updated)} :
              /\ job' = [at |-> Stage(creates, updates), creates |-> creates,
                         updates |-> updates, done |-> 0]
              /\ result' = "none"
  /\ UNCHANGED <<roster, columns, people, changes, faults>>

(* upsert: one append, repeated by its retry when an answer is lost.       *)
AppendPeople ==
  /\ job.at = "append"
  /\ \E n \in AppendTimes :
       people' = people \o (IF n = 1 THEN job.creates ELSE job.creates \o job.creates)
  /\ job' = [job EXCEPT !.at = Stage(<< >>, job.updates)]
  /\ UNCHANGED <<roster, columns, result, changes, faults>>

WriteForgettingAddress(field, next) ==                            \* mutant
  LET update == job.updates[job.done + 1]
  IN  /\ job.at = field
      /\ people' = IF field = "correo" THEN people
                   ELSE [people EXCEPT ![update.row] = [@ EXCEPT ![field] = update.to[field]]]
      /\ job' = IF field = "aliases"
                THEN [job EXCEPT !.done = @ + 1,
                        !.at = IF job.done + 1 < Len(job.updates) THEN next ELSE "verify"]
                ELSE [job EXCEPT !.at = next]

(* update_fields: one call per cell, by row number.                        *)
Write(field, next) ==
  LET update == job.updates[job.done + 1]
  IN  /\ job.at = field
      /\ people' = [people EXCEPT ![update.row] = [@ EXCEPT ![field] = update.to[field]]]
      /\ job' = IF field = "aliases"
                THEN [job EXCEPT !.done = @ + 1,
                        !.at = IF job.done + 1 < Len(job.updates) THEN next ELSE "verify"]
                ELSE [job EXCEPT !.at = next]

WriteCell ==
  /\ Write("nombre", "correo") \/ Write("correo", "aliases") \/ Write("aliases", "nombre")
  /\ UNCHANGED <<roster, columns, result, changes, faults>>

(* The sheet is read again: every update must be found under its id.       *)
Verify ==
  /\ job.at = "verify"
  /\ result' = IF \A update \in Range(job.updates) :
                    /\ WithId(update.id) # {}
                    /\ Agrees(people[Min(WithId(update.id))], update.to)
               THEN "ok" ELSE "failed"
  /\ job' = Idle
  /\ UNCHANGED <<roster, columns, people, changes, faults>>

(* A call raises after its attempts, or the process dies.  Nothing is      *)
(* rolled back; the next invocation plans anew.                            *)
Fail ==
  /\ job # Idle
  /\ faults < MaxFaults
  /\ faults' = faults + 1
  /\ job' = Idle
  /\ result' = "failed"
  /\ UNCHANGED <<roster, columns, people, changes>>

-----------------------------------------------------------------------------
(* Edits by people.  The roster is read once in a refresh, so an edit      *)
(* under a refresh is an edit after it.                                    *)
Edit ==
  /\ job = Idle
  /\ changes < MaxChanges
  /\ changes' = changes + 1
  /\ result' = "none"
  /\ UNCHANGED <<columns, job, faults>>

(* Somebody gave p the address of another row; it is put right before the  *)
(* roster changes otherwise.                                               *)
Mistyped(p) == p \in Enrolled /\ roster[p].correo \notin EmailsOf[p]
MayEdit(p) == \A q \in Person : Mistyped(q) => q = p

(* p enrols, changes name or address, or both.                             *)
Register(p, name, email) ==
  /\ Edit /\ MayEdit(p)
  /\ roster' = [roster EXCEPT ![p] = [nombre |-> name, correo |-> email]]
  /\ UNCHANGED people

Withdraw(p) ==
  /\ Edit /\ MayEdit(p)
  /\ roster' = [roster EXCEPT ![p] = Absent]
  /\ UNCHANGED people

Mistype(p, q) ==
  /\ Edit /\ \A r \in Person : ~Mistyped(r)
  /\ {p, q} \subseteq Enrolled
  /\ roster' = [roster EXCEPT ![p].correo = roster[q].correo]
  /\ UNCHANGED people

(* A facilitator adds an alias or changes a role in the sheet.             *)
AddAlias(p, i) ==
  /\ Edit
  /\ "aliases" \notin columns
  /\ people[i].nombre \in NamesOf[p]
  /\ people' = [people EXCEPT ![i].aliases = NamesOf[p] \ {people[i].nombre}]
  /\ UNCHANGED roster

Promote(i) ==
  /\ Edit
  /\ people[i].role = "participant"
  /\ people' = [people EXCEPT ![i].role = "facilitator"]
  /\ UNCHANGED roster

Progress == Plan \/ AppendPeople \/ WriteCell \/ Verify

Next ==
  \/ Progress \/ Fail
  \/ \E p \in Person :
       \/ \E name \in NamesOf[p], email \in EmailsOf[p] : Register(p, name, email)
       \/ Withdraw(p)
       \/ \E q \in Person : p # q /\ Mistype(p, q)
       \/ \E i \in Filled : AddAlias(p, i)
  \/ \E i \in Filled : Promote(i)

Spec == Init /\ [][Next]_vars

(* Every invocation refreshes first, and schedulers keep invoking.         *)
FairSpec == Spec /\ WF_vars(Progress)

-----------------------------------------------------------------------------
(* "Non-destructive official roster reconciliation" (roster.py:55), with   *)
(* identities that stay: no step takes a row away, changes its id, or      *)
(* makes the row of one person the row of another, though rows are found   *)
(* by name and alias and written by number, cell after cell; and a         *)
(* refresh leaves every role as the facilitators set it.                   *)
Belongs(row, p) ==
  /\ row.nombre \in NamesOf[p]
  /\ row.correo \in EmailsOf[p] \union {None}
  /\ row.aliases \subseteq NamesOf[p]

IdentitiesStay ==
  [][\A i \in DOMAIN people :
       /\ i \in DOMAIN people' /\ people'[i].id = people[i].id
       /\ \A p \in Person : Belongs(people[i], p) => Belongs(people'[i], p)
       /\ job # Idle => people'[i].role = people[i].role]_people

(* No refresh, interrupted and repeated at any call, gives two people or   *)
(* one person twice the same participant_id, which every later invocation  *)
(* would refuse to read.                                                   *)
NeverDamaged == ~Damaged

(* "Repeated runs with unchanged evidence must remain idempotent"          *)
(* (docs/cloud-first-operation.md:99): after a refresh that succeeded the  *)
(* next one finds a MATCH for every record, each a row of its own.         *)
Agreed == \A p \in Enrolled : Action(p) = "MATCH"

Settled ==
  result = "ok" =>
    /\ Agreed
    /\ \A p, q \in Enrolled : p # q => Target(p) # Target(q)

(* Once edits and faults are over, unless a person must review something,  *)
(* the sheet comes to agree with the roster.                               *)
Converges == <>[]~Reviews => <>[]Agreed

(* "If the source does not declare optional fields such as aliases or      *)
(* enrollment bounds, Eira preserves the corresponding existing            *)
(* participant fields rather than erasing them"                            *)
(* (docs/cloud-first-operation.md:136-139).                                *)
UndeclaredFieldsKept ==
  [][job # Idle /\ "aliases" \notin columns =>
       \A i \in DOMAIN people : people'[i].aliases = people[i].aliases]_people
=============================================================================
