--------------------------------- MODULE Views ---------------------------------
(***************************************************************************)
(* The two writers of the sheet "Seguimiento individual".  The legacy      *)
(* synchronisation writes the levels of the follow-up add-on, with a       *)
(* column in which people take notes, and says who became critical;        *)
(* eira-run overwrites the same sheet with the operational view, which is  *)
(* narrower.  Either may die between two of its calls, or lose the answer  *)
(* to one; eira-run's summary sheet "Seguimiento" is written first.        *)
(*                                                                         *)
(* A row is [left, right]: columns A to J, which both write, and the       *)
(* columns from K on, which only the add-on does.  Which cases the         *)
(* operational view has is Program's subject; here any of those who have   *)
(* joined since may be missing from it.                                    *)
(***************************************************************************)
EXTENDS FollowUp, Lists, SequencesExt

CONSTANTS
  Person,      (* Numbers, in the order of their names.                     *)
  Late,        (* Those who join later.                                     *)
  N,           (* Bound: sessions.                                          *)
  Start,       (* Sessions processed before either writer first ran.        *)
  Speakers,    (* Speakers[s]: the groups that may be heard in session s.   *)
  Untracked,   (* Sessions with tracking_eligible "No" in Control.          *)
  MaxNotes,    (* Bound: notes people write.                                *)
  MaxLeaves,   (* Bound: people who become inactive or are deleted.         *)
  MaxJobs,     (* Bound: refreshes and persisted views.                     *)
  MaxFaults    (* Bound: deaths and lost answers.                           *)

ASSUME ViewsAssumption ==
  /\ Person \subseteq Nat \ {0} /\ IsFiniteSet(Person) /\ Late \subseteq Person
  /\ N \in Nat /\ Start \in 0 .. N /\ Untracked \subseteq 1 .. N
  /\ Speakers \in [1 .. N -> SUBSET SUBSET Person]
  /\ {MaxNotes, MaxLeaves, MaxJobs, MaxFaults} \subseteq Nat

VARIABLES
  heard,        (* heard[s]: who has a valid intervention in session s.     *)
  enrollment,   (* Participantes, by participant.                           *)
  sheet,        (* The rows of "Seguimiento individual".                    *)
  summary,      (* The rows of "Seguimiento", without updated_at.           *)
  job,          (* Local variables of the writer at work.                   *)
  told,         (* History: reported as critical, and not known better since. *)
  twice,        (* History: somebody in told was reported again.            *)
  reordered,    (* History: rows changed place under the notes.             *)
  torn,         (* History: a clear cut the rows of some of told, then death. *)
  notes, leaves, jobs, faults

sheets == <<sheet, summary>>
history == <<told, twice, reordered, torn>>
bounds == <<notes, leaves, jobs, faults>>
vars == <<heard, enrollment, sheets, job, history, bounds>>

NoNote == 0
Empty == [is |-> "empty", level |-> "none", since |-> 0, note |-> NoNote]
Line(kind, what) == [left |-> <<kind, what, 0>>, right |-> Empty]
Header == [left |-> <<"headers", 0, 0>>, right |-> [Empty EXCEPT !.is = "headers"]]
RowFor(p) == <<"participant", p, 0>>
Idle == [at |-> "idle"]
Enrolled == DOMAIN enrollment
Active(first) == [status |-> "active", first |-> first, last |-> 0]

Init ==
  /\ heard \in {groups \in [1 .. Start -> SUBSET Person] : \A s \in 1 .. Start : groups[s] \in Speakers[s]}
  /\ enrollment = [p \in Person \ Late |-> Active(1)]
  /\ sheet = << >> /\ summary = << >>
  /\ job = Idle
  /\ told = {} /\ twice = FALSE /\ reordered = FALSE /\ torn = FALSE
  /\ notes = 0 /\ leaves = 0 /\ jobs = 0 /\ faults = 0

-----------------------------------------------------------------------------
Spoke(p) == History(enrollment[p], p, heard, (1 .. N) \ Untracked)
LevelOf(p) == EntryLevel(enrollment[p], Spoke(p))
Critical == {p \in Enrolled : LevelOf(p) = "CRITICAL"}

Before ==
  LET of(r) == Urgency(enrollment[r], LevelOf(r))
  IN  {pair \in Enrolled \X Enrolled :
         \/ of(pair[1]) < of(pair[2])
         \/ of(pair[1]) = of(pair[2]) /\ pair[1] < pair[2]}
Displayed == InOrderOf(Enrolled, Before)

(* What the sheet is read as.  Without the follow-up headers in row four   *)
(* there are neither notes nor levels in it.                               *)
IsFollowUp(rows) == Len(rows) >= 4 /\ rows[4] = Header
Places(rows, p) == IF IsFollowUp(rows) THEN {i \in 5 .. Len(rows) : rows[i].left = RowFor(p)} ELSE {}
HasRow(rows, p) == Places(rows, p) # {}
Entry(rows, p) == rows[Max(Places(rows, p))].right

NoteByPlace(rows, p) ==                                           \* mutant
  LET place == 4 + CHOOSE k \in DOMAIN Displayed : Displayed[k] = p
  IN  IF IsFollowUp(rows) /\ place <= Len(rows) THEN rows[place].right.note ELSE NoNote

(* _notes.                                                                 *)
NoteOf(rows, p) == IF HasRow(rows, p) THEN Entry(rows, p).note ELSE NoNote

(* follow_up_values.                                                       *)
Desired(existing) ==
  LET entry(p) ==
        [left |-> RowFor(p),
         right |-> [is |-> "entry", level |-> LevelOf(p),
                    since |-> EntrySince(enrollment[p], Spoke(p)), note |-> NoteOf(existing, p)]]
  IN  <<Line("title", 0), Line("counts", Cardinality(Critical)), Line("legend", 0), Header>>
        \o [k \in DOMAIN Displayed |-> entry(Displayed[k])]

(* _structure_differs: not when only the order of the people does.         *)
Structural(existing, values) == ~IsFollowUp(existing) \/ Len(existing) # Len(values)

BecameAfterwards(existing) == Critical                             \* mutant

(* Critical transitions, against what the sheet showed; without levels to  *)
(* compare with there are none.                                            *)
Became(existing) ==
  {p \in Critical :
     /\ \E q \in Person : HasRow(existing, q)
     /\ HasRow(existing, p) => Entry(existing, p).level # "CRITICAL"}

-----------------------------------------------------------------------------
(* A session is processed.                                                 *)
Hear(group) ==
  /\ job = Idle
  /\ Len(heard) < N /\ group \in Speakers[Len(heard) + 1]
  /\ heard' = Append(heard, group)
  /\ UNCHANGED <<enrollment, sheets, job, history, bounds>>

(* People edit Participantes between runs: somebody joins for the next     *)
(* session, becomes inactive with the last one, or is deleted.             *)
Join(p) ==
  /\ job = Idle /\ p \in Late \ Enrolled
  /\ enrollment' = [q \in Enrolled \union {p} |->
                      IF q = p THEN Active(Len(heard) + 1) ELSE enrollment[q]]
  /\ UNCHANGED <<heard, sheets, job, history, bounds>>

Deactivate(p) ==
  /\ job = Idle
  /\ leaves < MaxLeaves /\ enrollment[p].status = "active" /\ Len(heard) >= enrollment[p].first
  /\ leaves' = leaves + 1
  /\ enrollment' = [enrollment EXCEPT ![p].status = "inactive", ![p].last = Len(heard)]
  /\ UNCHANGED <<heard, sheets, job, history, notes, jobs, faults>>

Delete(p) ==
  /\ job = Idle
  /\ leaves < MaxLeaves
  /\ leaves' = leaves + 1
  /\ enrollment' = Restrict(enrollment, Enrolled \ {p})
  /\ told' = told \ {p}
  /\ UNCHANGED <<heard, sheets, job, twice, reordered, torn, notes, jobs, faults>>

(* Somebody writes a note about p beside the row of p they see.            *)
WriteNote(p) ==
  /\ notes < MaxNotes
  /\ \E i \in Places(sheet, p) : sheet' = [sheet EXCEPT ![i].right.note = p]
  /\ notes' = notes + 1
  /\ UNCHANGED <<heard, enrollment, summary, job, history, leaves, jobs, faults>>

-----------------------------------------------------------------------------
(* FollowUpRepository.refresh reads the sheet and decides what to write;   *)
(* persist has nothing to clear unless the sheet is longer.                *)
Refresh ==
  /\ job = Idle
  /\ jobs < MaxJobs /\ jobs' = jobs + 1
  /\ LET values == Desired(sheet)
     IN  job' = [at |-> IF ~Structural(sheet, values) THEN "cells"
                        ELSE IF Len(sheet) > Len(values) THEN "clear" ELSE "whole",
                 values |-> values, became |-> Became(sheet)]
  /\ UNCHANGED <<heard, enrollment, sheets, history, notes, leaves, faults>>

ClearTail ==
  /\ job.at = "clear"
  /\ sheet' = SubSeq(sheet, 1, Len(job.values))
  /\ job' = [job EXCEPT !.at = "cleared"]
  /\ UNCHANGED <<heard, enrollment, summary, history, bounds>>

WriteWhole ==
  /\ job.at \in {"whole", "cleared"}
  /\ sheet' = job.values
  /\ job' = [job EXCEPT !.at = "report"]
  /\ UNCHANGED <<heard, enrollment, summary, history, bounds>>

(* One batch with every cell that differs, but for the notes: they stay    *)
(* where they are even if the rows have changed places.                    *)
WriteCells ==
  /\ job.at = "cells"
  /\ sheet' = [i \in DOMAIN job.values |-> [job.values[i] EXCEPT !.right.note = sheet[i].right.note]]
  /\ reordered' = (reordered \/ \E i \in 5 .. Len(sheet) : sheet[i].left # sheet'[i].left)
  /\ job' = [job EXCEPT !.at = "report"]
  /\ UNCHANGED <<heard, enrollment, summary, told, twice, torn, bounds>>

(* IndividualFollowUpAddon.run sends follow_up.became_critical.            *)
Report ==
  /\ job.at = "report"
  /\ twice' = (twice \/ job.became \intersect told # {})
  /\ told' = (told \union job.became) \intersect Critical
  /\ job' = Idle
  /\ UNCHANGED <<heard, enrollment, sheets, reordered, torn, bounds>>

-----------------------------------------------------------------------------
(* What GoogleSheetsOperationalRepository.persist writes of a view: the    *)
(* summary, with a row per signal type there is, and a row per case.       *)
SummaryOf(view) ==
  <<"headers", "counts", "attendance">> \o (IF view.signalled THEN <<"signal">> ELSE << >>)

CasesOf(view) ==
  <<<<"case headers", 0, 0>>>> \o
    LET shown == Ascending(view.cases)
    IN  [k \in DOMAIN shown |-> <<"case", shown[k], view.as_of>>]

Lefts(rows) == [i \in DOMAIN rows |-> rows[i].left]

NeverLonger(existing, values) == FALSE                             \* mutant

(* _replace clears below what it has written when the sheet was longer.    *)
Longer(existing, values) == Len(existing) > Len(values)

StartPersist ==
  /\ job = Idle /\ Len(heard) > 0
  /\ jobs < MaxJobs /\ jobs' = jobs + 1
  /\ \E unknown \in SUBSET (Late \intersect Enrolled), signalled \in BOOLEAN :
       job' = [at |-> "summary",
               view |-> [cases |-> Enrolled \ unknown, signalled |-> signalled, as_of |-> Len(heard)]]
  /\ UNCHANGED <<heard, enrollment, sheets, history, notes, leaves, faults>>

PersistSummary ==
  /\ job.at = "summary"
  /\ LET values == SummaryOf(job.view)
     IN  /\ summary' = values \o SubSeq(summary, Len(values) + 1, Len(summary))
         /\ job' = [job EXCEPT !.at = IF Longer(summary, values) THEN "trim" ELSE "individual"]
  /\ UNCHANGED <<heard, enrollment, sheet, history, bounds>>

TrimSummary ==
  /\ job.at = "trim"
  /\ summary' = SubSeq(summary, 1, Len(SummaryOf(job.view)))
  /\ job' = [job EXCEPT !.at = "individual"]
  /\ UNCHANGED <<heard, enrollment, sheet, history, bounds>>

(* The update overwrites as many columns as the view has: what the add-on  *)
(* had written to the right of them stays.                                 *)
PersistIndividual ==
  /\ job.at = "individual"
  /\ LET values == CasesOf(job.view)
         over(i) == [left |-> values[i], right |-> IF i \in DOMAIN sheet THEN sheet[i].right ELSE Empty]
     IN  /\ sheet' = [i \in DOMAIN values |-> over(i)] \o SubSeq(sheet, Len(values) + 1, Len(sheet))
         /\ job' = [job EXCEPT !.at = IF Longer(sheet, values) THEN "below" ELSE "shown"]
  /\ UNCHANGED <<heard, enrollment, summary, history, bounds>>

ClearBelow ==
  /\ job.at = "below"
  /\ sheet' = SubSeq(sheet, 1, Len(CasesOf(job.view)))
  /\ job' = [job EXCEPT !.at = "shown"]
  /\ UNCHANGED <<heard, enrollment, summary, history, bounds>>

EndPersist ==
  /\ job.at = "shown"
  /\ job' = Idle
  /\ UNCHANGED <<heard, enrollment, sheets, history, bounds>>

(* Somebody who was told of has lost their row while others have theirs.   *)
Cut == \E p \in told, q \in Person : HasRow(sheet, q) /\ ~HasRow(sheet, p)

(* A death, or a call that fails for good before it is applied; the event  *)
(* of a refresh that wrote its sheet and then died is never sent.          *)
Die ==
  /\ job # Idle
  /\ faults < MaxFaults
  /\ faults' = faults + 1
  /\ torn' = (torn \/ (job.at = "cleared" /\ Cut))
  /\ told' = IF job.at = "report" THEN told \intersect Critical ELSE told
  /\ job' = Idle
  /\ UNCHANGED <<heard, enrollment, sheets, twice, reordered, notes, leaves, jobs>>

Next ==
  \/ \E group \in SUBSET Person : Hear(group)
  \/ \E p \in Person : Join(p) \/ WriteNote(p)
  \/ \E p \in Enrolled : Deactivate(p) \/ Delete(p)
  \/ Refresh \/ ClearTail \/ WriteWhole \/ WriteCells \/ Report
  \/ StartPersist \/ PersistSummary \/ TrimSummary \/ PersistIndividual
  \/ ClearBelow \/ EndPersist
  \/ Die

Spec == Init /\ [][Next]_vars

-----------------------------------------------------------------------------
(* Unless a refresh changed the places of the rows (which leaves the notes *)
(* where they were), a note stands beside the participant it is about,     *)
(* whoever joins or leaves and whatever dies half way: refresh carries the *)
(* notes over by participant_id.                                           *)
NotesStayWithPeople ==
  ~reordered => \A p \in Person : HasRow(sheet, p) => Entry(sheet, p).note \in {NoNote, p}

(* Unless a death between clearing and writing left the sheet without the  *)
(* rows of some of those told of, nobody is reported again as having       *)
(* become critical while the add-on knows no better: what became_critical  *)
(* compares with is what the sheet showed before.                          *)
NeverReportedTwice == twice => torn

(* Having spoken in one more session never makes somebody's level worse:   *)
(* _classify is monotone though it weighs a window and a whole history.    *)
SpeakingNeverHurts ==
  \A p \in Enrolled : \A k \in DOMAIN Spoke(p) :
    LET better == Level([Spoke(p) EXCEPT ![k] = TRUE])
    IN  Urgency(Active(1), better) >= Urgency(Active(1), Level(Spoke(p)))

(* follow_up_since_session is where the present level began: it has been   *)
(* the same from there on, and was another one before.                     *)
SinceMarksTheChange ==
  \A p \in Enrolled :
    LET level(k) == Level(SubSeq(Spoke(p), 1, k))
        since == Since(Spoke(p))
    IN  Len(Spoke(p)) >= Window =>
          /\ since \in Window .. Len(Spoke(p))
          /\ \A k \in since .. Len(Spoke(p)) : level(k) = level(Len(Spoke(p)))
          /\ level(since - 1) # level(since)

(* When the operational view has been persisted, its sheets show it and    *)
(* nothing of what was there before, whoever wrote that and wherever they  *)
(* died, in the columns the view has.                                      *)
ReplacedSheetShowsView ==
  job.at = "shown" => /\ summary = SummaryOf(job.view)
                      /\ Lefts(sheet) = CasesOf(job.view)
=============================================================================
