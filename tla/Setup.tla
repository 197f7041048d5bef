--------------------------------- MODULE Setup ---------------------------------
(***************************************************************************)
(* eira-setup, and what eira-run needs of it: how the workbook of a        *)
(* program is found or created in its Drive folder, what a new             *)
(* configuration may change, and the order in which the tabs are written.  *)
(* Each write is a call of its own; after any of them the process may die, *)
(* and an append whose answer is lost is retried and appends twice.        *)
(*                                                                         *)
(* Setups and runs are taken not to overlap.  Nothing in the code sees to  *)
(* that: setup looks at the state before it asks for confirmation, and     *)
(* never takes the lease of eira-run.                                      *)
(***************************************************************************)
EXTENDS Integers, Lists, SequencesExt

CONSTANTS
  Specs,        (* Setup files: [name, sessions, size].                     *)
  Longer,       (* Pairs <<m, n>> of names where m begins with n.           *)
  Legacy,       (* What may be in the folder already: workbooks.            *)
  MaxSetups, MaxRuns, MaxFaults        (* Bounds.                           *)

(* A session is [id, name, sources, tidy]; it is tidy when the setup file  *)
(* writes its sources the way they are kept, without spaces or more keys.  *)
(* The size of a spec is "fits", "swells" when only what is kept of it     *)
(* exceeds a cell of 40 000 bytes, or "exceeds".                           *)
ASSUME SetupAssumption ==
  /\ \A spec \in Specs :
       /\ spec.sessions \in Seq(ToSet(spec.sessions)) /\ spec.sessions # << >>
       /\ spec.size \in {"fits", "swells", "exceeds"}
       /\ \A s \in DOMAIN spec.sessions : spec.sessions[s].tidy \in BOOLEAN
  /\ {MaxSetups, MaxRuns, MaxFaults} \subseteq Nat

(* PilotConfig.from_dict, validate_session_mapping: the sessions of a file *)
(* have ids, and of their own.                                             *)
ASSUME SpecAssumption ==
  \A spec \in Specs : \A s, t \in DOMAIN spec.sessions :
    /\ spec.sessions[s].id # ""
    /\ spec.sessions[s].id = spec.sessions[t].id => s = t

VARIABLES
  books,        (* The workbooks there are, in the order of their creation. *)
  job,          (* The setup or run at work, with its local variables.      *)
  setups, runs, faults

vars == <<books, job, setups, runs, faults>>

Idle == [at |-> "idle"]

(* A workbook: whether it is in the folder; the program in its title; if   *)
(* it has all tabs; Programa, or ""; the rows of Control, with their       *)
(* header; and the values in the rows of Configuración and of Estado.      *)
New(name) ==
  [placed |-> FALSE, title |-> name, tabs |-> FALSE, programa |-> "",
   control |-> [header |-> FALSE, rows |-> << >>], bundle |-> << >>, state |-> << >>]

(* A legacy workbook was never configured for eira-run.  A row of its      *)
(* Control may lack the folder_id.                                         *)
ASSUME LegacyAssumption ==
  \A book \in Legacy :
    /\ DOMAIN book = DOMAIN New(book.title) /\ book.placed = TRUE
    /\ book.bundle = << >> /\ book.state = << >>
    /\ DOMAIN book.control = {"header", "rows"}
    /\ book.control.rows \in Seq(ToSet(book.control.rows))
    /\ \A row \in ToSet(book.control.rows) :
         row = [number |-> row.number, id |-> row.id, name |-> row.name, status |-> row.status]

Kept(session) == [id |-> session.id, name |-> session.name, sources |-> session.sources]

ForgetSources(spec) ==                                             \* mutant
  [name |-> spec.name,
   sessions |-> [s \in DOMAIN spec.sessions |-> [Kept(spec.sessions[s]) EXCEPT !.sources = ""]]]

(* What build_plan makes of a setup file, and the bundle keeps.            *)
Record(spec) ==
  [name |-> spec.name, sessions |-> [s \in DOMAIN spec.sessions |-> Kept(spec.sessions[s])]]

Ids(program) == {program.sessions[s].id : s \in DOMAIN program.sessions}
NumberOf(program, id) == CHOOSE s \in DOMAIN program.sessions : program.sessions[s].id = id

Init ==
  /\ books \in {<< >>} \union {<<book>> : book \in Legacy}
  /\ job = Idle
  /\ setups = 0 /\ runs = 0 /\ faults = 0

-----------------------------------------------------------------------------
(* _find_sheet_in_folder.  A bundle is seen even if its row is doubled.    *)
InFolder == {b \in DOMAIN books : books[b].placed}
Configured == {b \in InFolder : books[b].bundle # << >>}
Bundle(b) == books[b].bundle[1]

RequiredTabsOnly(name) ==                                          \* mutant
  {b \in InFolder : books[b].tabs /\ books[b].bundle # << >> /\ books[b].title = name}

(* Workbooks a setup may adopt by their title.  All that are in the folder *)
(* have the four tabs of a legacy workbook: AddTabs comes before Place.    *)
Adoptable(name) ==
  {b \in InFolder : books[b].title = name \/ <<books[b].title, name>> \in Longer}

(* Without --sheet: the workbook, or 0 for none; no element if there is    *)
(* more than one, and the setup stops with "usa --sheet".                  *)
Found(name) ==
  LET named == {b \in Configured : Bundle(b).name = name}
      one(found) == IF Cardinality(found) > 1 THEN {} ELSE found
  IN  CASE named # {} -> one(named)
        [] named = {} /\ Configured # {} -> one(Configured)
        [] Configured = {} /\ Adoptable(name) # {} -> one(Adoptable(name))
        [] Configured = {} /\ Adoptable(name) = {} -> {0}

UnchangedByName(old, spec, processed) ==                           \* mutant
  \A id \in Ids(old) \intersect processed :
    \E s \in DOMAIN spec.sessions : spec.sessions[s].id = id /\ spec.sessions[s].name = old.sessions[NumberOf(old, id)].name

(* _validate_processed_migration compares what is kept with what the setup *)
(* file says, not with what would be kept of it.                           *)
Unchanged(old, spec, processed) ==
  \A id \in Ids(old) \intersect processed :
    LET s == NumberOf(old, id)
    IN  /\ s \in DOMAIN spec.sessions
        /\ spec.sessions[s].tidy
        /\ Kept(spec.sessions[s]) = old.sessions[s]

(* _validate_legacy_processed_sessions.                                    *)
ControlAllows(control, spec) ==
  \A row \in ToSet(control.rows) :
    row.status = "PROCESSED" =>
      /\ row.number \in DOMAIN spec.sessions
      /\ spec.sessions[row.number].name = row.name
      /\ row.id \in {"", spec.sessions[row.number].id}

(* The state of the program: the first row Estado has for it.              *)
Sessions(b) == IF books[b].state = << >> THEN << >> ELSE books[b].state[1]

Accepted(spec, b) ==
  /\ spec.size # "exceeds"
  /\ b # 0 => /\ books[b].bundle # << >> => Unchanged(Bundle(b), spec, DOMAIN Sessions(b))
              /\ ControlAllows(books[b].control, spec)

-----------------------------------------------------------------------------
(* setup_main up to the confirmation; a refused setup changes nothing.     *)
(* With --sheet it takes the workbook it is told, if that is in the        *)
(* folder, whatever its title and whichever others are configured.         *)
Check(spec) ==
  /\ job = Idle
  /\ setups < MaxSetups /\ setups' = setups + 1
  /\ \E b \in Found(spec.name) \union InFolder :
       /\ Accepted(spec, b)
       /\ job' = [at |-> IF b = 0 THEN "create" ELSE "tabs", spec |-> spec, book |-> b,
                  sheet |-> b \notin Found(spec.name)]
  /\ UNCHANGED <<books, runs, faults>>

To(at) == job' = [job EXCEPT !.at = at]

(* execute_init, _ensure_sheet.  A workbook is created outside the folder, *)
(* and nobody finds it if setup dies before it is placed there.            *)
Create ==
  /\ job.at = "create"
  /\ books' = Append(books, New(job.spec.name))
  /\ job' = [job EXCEPT !.at = "tabs", !.book = Len(books) + 1]
  /\ UNCHANGED <<setups, runs, faults>>

AddTabs ==
  /\ job.at = "tabs"
  /\ books' = [books EXCEPT ![job.book].tabs = TRUE]
  /\ To(IF books[job.book].placed THEN "programa" ELSE "place")
  /\ UNCHANGED <<setups, runs, faults>>

Place ==
  /\ job.at = "place"
  /\ books' = [books EXCEPT ![job.book].placed = TRUE]
  /\ To("programa")
  /\ UNCHANGED <<setups, runs, faults>>

(* Only tabs that are empty are filled.                                    *)
FillProgram ==
  /\ job.at = "programa"
  /\ books' = [books EXCEPT ![job.book].programa = IF @ = "" THEN job.spec.name ELSE @]
  /\ To("fill")
  /\ UNCHANGED <<setups, runs, faults>>

RowFor(program, s) ==
  [number |-> s, id |-> program.sessions[s].id, name |-> program.sessions[s].name, status |-> "pending"]

FillControl ==
  /\ job.at = "fill"
  /\ books' = [books EXCEPT ![job.book].control =
                 IF @.header THEN @
                 ELSE [header |-> TRUE,
                       rows |-> [s \in DOMAIN job.spec.sessions |-> RowFor(Record(job.spec), s)]]]
  /\ To("view")
  /\ UNCHANGED <<setups, runs, faults>>

(* _reconcile_program_view.                                                *)
ReconcileView ==
  /\ job.at = "view"
  /\ books' = [books EXCEPT ![job.book].programa = job.spec.name]
  /\ To("update")
  /\ UNCHANGED <<setups, runs, faults>>

-----------------------------------------------------------------------------
(* ensure_sessions, of setup and of a run.                                 *)
Doubled(rows) == \E i, j \in DOMAIN rows : i # j /\ rows[i].number = rows[j].number

Updated(rows, program) ==
  [i \in DOMAIN rows |->
     IF rows[i].number \in DOMAIN program.sessions
     THEN [RowFor(program, rows[i].number) EXCEPT !.status = rows[i].status] ELSE rows[i]]

NothingMissing(rows, program) == << >>                              \* mutant

Missing(rows, program) ==
  LET numbers == DOMAIN program.sessions \ {row.number : row \in ToSet(rows)}
  IN  [k \in 1 .. Cardinality(numbers) |-> RowFor(program, Ascending(numbers)[k])]

(* An append; when its answer is lost, execute_with_transient_retry        *)
(* appends again.                                                          *)
Added(rows, more) ==
  IF more = << >> \/ faults = MaxFaults THEN {[rows |-> rows \o more, faults |-> faults]}
  ELSE {[rows |-> rows \o more, faults |-> faults],
        [rows |-> rows \o more \o more, faults |-> faults + 1]}

UpdateControl ==
  /\ job.at = "update"
  /\ LET rows == books[job.book].control.rows
     IN  IF Doubled(rows) THEN job' = Idle /\ UNCHANGED books
         ELSE /\ books' = [books EXCEPT ![job.book].control.rows = Updated(rows, Record(job.spec))]
              /\ To("insert")
  /\ UNCHANGED <<setups, runs, faults>>

InsertControl ==
  /\ job.at = "insert"
  /\ \E added \in Added(books[job.book].control.rows,
                           Missing(books[job.book].control.rows, Record(job.spec))) :
       /\ books' = [books EXCEPT ![job.book].control.rows = added.rows]
       /\ faults' = added.faults
  /\ To("bundle")
  /\ UNCHANGED <<setups, runs>>

(* GoogleSheetsJsonStore.put, of a store with one key: it raises when the  *)
(* key is there twice, and when the value does not fit.                    *)
Put(rows, value) ==
  CASE Len(rows) = 0 -> Added(rows, <<value>>)
    [] Len(rows) = 1 -> {[rows |-> <<value>>, faults |-> faults]}
    [] Len(rows) > 1 -> {}

PutBundle ==
  /\ job.at = "bundle"
  /\ LET puts == IF job.spec.size = "swells" THEN {} ELSE Put(books[job.book].bundle, Record(job.spec))
     IN  IF puts = {} THEN job' = Idle /\ UNCHANGED <<books, faults>>
         ELSE /\ \E put \in puts : /\ books' = [books EXCEPT ![job.book].bundle = put.rows]
                                   /\ faults' = put.faults
              /\ To("state")
  /\ UNCHANGED <<setups, runs>>

(* An existing state is only read.                                         *)
StateToPut(rows) == IF rows = << >> THEN Put(rows, << >>) ELSE {[rows |-> rows, faults |-> faults]}

PutState ==
  /\ job.at = "state"
  /\ \E put \in StateToPut(books[job.book].state) :
       /\ books' = [books EXCEPT ![job.book].state = put.rows]
       /\ faults' = put.faults
  /\ job' = Idle
  /\ UNCHANGED <<setups, runs>>

-----------------------------------------------------------------------------
(* run_main: the workbook is the one that is configured, or one of them    *)
(* that --sheet names; rows that are doubled, in either store or in        *)
(* Control, end the run.  Acquiring the lease puts the state.              *)
StartRun ==
  /\ job = Idle
  /\ runs < MaxRuns /\ runs' = runs + 1
  /\ \E b \in Configured :
       /\ Len(books[b].bundle) = 1
       /\ \E put \in Put(books[b].state, Sessions(b)) :
            /\ books' = [books EXCEPT ![b].state = put.rows]
            /\ faults' = put.faults
            /\ job' = IF Len(put.rows) = 1 THEN [at |-> "ensure", book |-> b, program |-> Bundle(b)] ELSE Idle
  /\ UNCHANGED setups

EnsureSessions ==
  /\ job.at = "ensure"
  /\ LET rows == books[job.book].control.rows
     IN  IF Doubled(rows) THEN job' = Idle /\ UNCHANGED books
         ELSE /\ books' = [books EXCEPT ![job.book].control.rows = Updated(rows, job.program)]
              /\ To("append")
  /\ UNCHANGED <<setups, runs, faults>>

AppendSessions ==
  /\ job.at = "append"
  /\ \E added \in Added(books[job.book].control.rows,
                           Missing(books[job.book].control.rows, job.program)) :
       /\ books' = [books EXCEPT ![job.book].control.rows = added.rows]
       /\ faults' = added.faults
  /\ To("sync")
  /\ UNCHANGED <<setups, runs>>

(* The state keeps a session as PROCESSED under its session_id; what it    *)
(* was configured as is remembered here.                                   *)
Process ==
  /\ job.at = "sync"
  /\ \E s \in DOMAIN job.program.sessions :
       LET session == job.program.sessions[s]
           was == Sessions(job.book)
       IN  /\ session.id \notin DOMAIN was
           /\ books' = [books EXCEPT ![job.book].state =
                <<[id \in DOMAIN was \union {session.id} |->
                     IF id = session.id THEN [number |-> s, session |-> session] ELSE was[id]]>>]
  /\ UNCHANGED <<job, setups, runs, faults>>

(* reconcile marks what the state says; it raises when a row is doubled.   *)
Mark ==
  /\ job.at = "sync"
  /\ LET done == {s \in DOMAIN job.program.sessions : job.program.sessions[s].id \in DOMAIN Sessions(job.book)}
         rows == books[job.book].control.rows
     IN  books' = IF Doubled(rows) THEN books
                  ELSE [books EXCEPT ![job.book].control.rows =
                          [i \in DOMAIN rows |-> IF rows[i].number \in done
                                                 THEN [rows[i] EXCEPT !.status = "PROCESSED"] ELSE rows[i]]]
  /\ job' = Idle
  /\ UNCHANGED <<setups, runs, faults>>

Die ==
  /\ job # Idle
  /\ faults < MaxFaults /\ faults' = faults + 1
  /\ job' = Idle
  /\ UNCHANGED <<books, setups, runs>>

Next ==
  \/ \E spec \in Specs : Check(spec)
  \/ Create \/ AddTabs \/ Place \/ FillProgram \/ FillControl
  \/ ReconcileView \/ UpdateControl \/ InsertControl \/ PutBundle \/ PutState
  \/ StartRun \/ EnsureSessions \/ AppendSessions \/ Process \/ Mark
  \/ Die

Spec == Init /\ [][Next]_vars

-----------------------------------------------------------------------------
(* A session the state keeps as PROCESSED is still configured the way it   *)
(* was processed: same number, name and sources, whatever setups followed  *)
(* and wherever they died.                                                 *)
ProcessedSessionsKept ==
  \A b \in Configured : \A id \in DOMAIN Sessions(b) :
    LET was == Sessions(b)[id]
    IN  was.number \in DOMAIN Bundle(b).sessions /\ Bundle(b).sessions[was.number] = was.session

(* However often setup dies and is run again, no step leaves the folder    *)
(* with two workbooks under the title of one program; and where a workbook *)
(* is configured already no step configures another one, unless the setup  *)
(* was told so with --sheet.                                               *)
Distinct == \A b, c \in InFolder : books[b].title = books[c].title => b = c

OneWorkbook ==
  [][Distinct' /\ (Configured # {} /\ Configured' # Configured => job.sheet)]_vars

(* A run that processes sessions has a row of Control for each of them,    *)
(* with its name and session_id, though a setup may have died between      *)
(* Control and the configuration; and a row says PROCESSED of no session   *)
(* but one that is in the state, or was said so before the first setup, by *)
(* number and name, of the same folder or of none.                         *)
RunSeesItsSessions ==
  job.at = "sync" =>
    LET rows == ToSet(books[job.book].control.rows)
        before == UNION {ToSet(book.control.rows) : book \in Legacy}
    IN  \A s \in DOMAIN job.program.sessions :
          /\ \E row \in rows : row.number = s
          /\ \A row \in rows : row.number = s =>
               /\ row = [RowFor(job.program, s) EXCEPT !.status = row.status]
               /\ row.status = "PROCESSED" =>
                    \/ row.id \in DOMAIN Sessions(job.book)
                    \/ \E old \in before : /\ old.status = "PROCESSED" /\ old.number = s
                                         /\ old.name = row.name /\ old.id \in {"", row.id}

(* A tidy setup file that has been applied can be applied again to its     *)
(* workbook, whatever has been processed since or half applied in between: *)
(* no guard against changing processed sessions refuses it.                *)
SameSpecAccepted ==
  \A b \in Configured : \A spec \in Specs :
    /\ Record(spec) = Bundle(b) /\ spec.size = "fits"
    /\ \A s \in DOMAIN spec.sessions : spec.sessions[s].tidy
    => Accepted(spec, b)
=============================================================================
