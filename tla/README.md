# A verification project for Eira

TLA+ models of the cloud-first Eira (`src/participacion`, mainly `eira-run`),
checked with TLC and, for the core, proved with TLAPS.  Paths below are relative
to the repository's package `src/participacion/` unless they start with `docs/` or
`tests/`.

- [1. The system](#1-the-system)
- [2. The modules](#2-the-modules)
- [3. The runs](#3-the-runs)
- [4. Fairness](#4-fairness)
- [5. What does not hold](#5-what-does-not-hold)
- [6. What is proved](#6-what-is-proved)
- [7. What is not modelled](#7-what-is-not-modelled)
- [8. Plan](#8-plan)

## 1. The system

Eira computes participation from the transcripts and chats that a course leaves in
a Google Drive folder.  There is no server: a scheduler starts `eira-run` (`cli/cloud.py`,
`run_main`) on a folder, and everything that must survive the process is in one
Google Sheets workbook, written by ordinary API calls.  Nothing is transactional:
there are no locks, no compare-and-set, no rollback, and most writes address rows
by number.

One invocation of `eira-run` is one sequential program:

```
acquire lease -> refresh roster -> ensure sessions in Control
  -> sync: for every session in order
       skip if finished and unchanged, else
       mark PROCESSING, process (replace rows in Sesiones), record outcome
     reconcile Control, rebuild Ranking
  -> verify lease -> pilot reads Control and Sesiones
  -> replace Seguimiento, replace Seguimiento individual -> release lease
```

What makes this hard is not concurrency inside the process (there is none) but
everything between two API calls: the process may die, a call may fail, or fail
after having been applied and be repeated; Drive changes under a run; the lease
expires; a second scheduler starts a run; people edit sheets and roster.

### Components

| Component | State it keeps | Operations | What makes it correct |
|---|---|---|---|
| Run lease (`adapters/google/sheets/cloud_store.py`) | owner and expiry inside the JSON document in Estado | acquire, verify, release | exclusion under stated conditions, never extended by stale writes, never locked for good |
| Program runner (`application/program_runner.py`, `cli/cloud.py`) | record of every session in Estado (status, fingerprints) | run, decide, mark, record | PROCESSED means whole rows from that evidence or newer; no evidence is forgotten |
| Evidence source (`adapters/google/source.py`) | none (Drive) | list, fingerprint, classify | changes are seen |
| Session processor (`application/session_processor.py`) | none | parse, resolve, count, score, persist | fails closed |
| Session results (`adapters/google/sheets/session_results.py`) | rows of Sesiones | replace_session | one session is replaced as a whole, no other is touched |
| Control (`adapters/google/sheets/control.py`) | a row per session | ensure_sessions, reconcile | agrees with Estado when published from |
| Ranking (`core/ranking.py`, `adapters/google/sheets/ranking.py`) | rows of Ranking | build, persist, reorder | the totals of PROCESSED sessions, in order |
| Roster (`application/roster.py`, `adapters/google/sheets/participants.py`) | rows of Participantes | plan, append, update fields | identities stay, undeclared fields and roles are kept, refreshes settle |
| Identity (`core/participants.py`, `application/modules/resolution.py`, `application/attendance_identity.py`, `application/known_external.py`) | people made up in auto mode | resolve events and addresses | nobody is made up twice, nobody takes another's events, doubt is a review |
| Countability, scoring (`core/countability.py`, `core/scoring.py`) | none | classify, add up | what is doubtful makes a score incomplete, never smaller |
| Pilot (`application/pilot/`, `application/modules/`, `core/longitudinal.py`, `application/signal_engine.py`, `application/alert_engine.py`) | none | observe, history, signals, alerts | absence is never inferred from missing evidence |
| Operational view (`application/pilot/operational.py`, `adapters/google/sheets/operational.py`) | Seguimiento, Seguimiento individual | build, replace | published only after a good sync, agrees with Estado, replaces all of the former one |
| Individual follow-up (`addons/follow_up/`, `adapters/google/sheets/follow_up.py`) | Seguimiento individual, with people's notes | classify, refresh, report | notes stay with people, a transition is reported once, levels follow participation |
| Setup (`cli/cloud.py`, `application/init_program.py`, `adapters/google/bootstrap.py`) | the workbook, Programa, Control, Configuración | find, create, reconcile, put | one workbook per program, processed sessions stay as processed, repeatable |
| JSON store (`adapters/google/sheets/cloud_store.py`) | key/value rows of Configuración and Estado | put, load_all | one row per key |
| Legacy path (`cli/main.py`, `adapters/filesystem`, tracking) | local files, sheets | kept for older installations | - |

They meet in two ways.  Calls: `run_main` calls each of them in turn.  Shared
state: the lease and the session records are one document, so every save of a
record writes a lease and every change of the lease writes the records; the pilot
takes the state of a session from Control although it was decided from Estado;
Ranking and the pilot read back what the session results repository wrote.

## 2. The modules

```
CloudLease <---- EiraRun          SessionTable <---- SessionSheet ---> SheetRows
                                   (abstract)                              ^
Identity <-- Pilot <-- Program --> ProgramRanking --> Ranks <-- RankingSheet
FollowUp <-- Views     Setup     Roster
```

An arrow points to the module that is extended or instantiated; SheetRows, Ranks, Views,
Setup and Roster also extend Lists.  The theorems about a module M are in M_proofs, those
about CloudLease in EiraRun_proofs, the lemmas about lists and folds that several of them
use in Lists_lemmas.  The parts meet
as follows.  EiraRun has the whole run, with what a session yields reduced to a
revision; Program has what a session yields, with the run reduced to one invocation
at a time and each of its writes to Participantes and Sesiones to one step.
SessionSheet, RankingSheet, Roster and Views open single writes up into API calls.
Setup has what comes before the first run and between two of them.

The MC modules only add the small instances TLC takes.  Operators marked
`\* mutant` are plausible bugs: each property is known to fail when one of them
replaces the definition it precedes.  No specification uses them.

**CloudLease** is the lease protocol and nothing else: `stored`, the lease in the
document; `snap[r]`, the lease in the copy of the document that invocation `r`
will write back; `pc[r]`, its next API call.  `acquire` is three calls
(`AcquireLoad`, `AcquireSave`, `AcquireConfirm`), the sync loads the document once
(`RunnerLoad`) and writes that copy any number of times (`StateSave`), `Verify` is
`lease.verify()`, release is two calls.  A save is repeated by
`execute_with_transient_retry` when it took effect and its answer is lost
(`LoseAnswer`): the document is written and the invocation is where it was, about to
write it again.  Time is relative (`left` =
`expires_at - time.time()`, floored at 0) so that no clock grows.  `due[r]` is a
history variable: the time left of what `r` itself acquired.  A run id is a fresh
uuid, so when an invocation ends, what remains of its lease is `Ended`'s.  Three
constants say what the environment may do: `Overlap` (two invocations acquire at
once), `LateRelease` (one acquires while the save of another's release is still
being sent) and `Overrun` (an invocation outlives its lease).

**EiraRun** is the flow above over the workbook, one action per API call that
matters to another component.  It EXTENDS CloudLease: every action that touches
Estado is an action of CloudLease conjoined with what happens to the records.
`work[r]` holds the local variables of `ProgramRunner._run_program` (the copy of
the document, the listing of the evidence, the cursor, the outcomes).  The
evidence of a session is a revision number that only grows (fingerprints include
modifiedTime); `Quality[s][v]` says whether revision `v` has one file of each kind
(complete), lacks one (partial) or is ambiguous.  Evidence is listed at the start
and read later, so what is judged may be either revision.  The rows of a session
in Sesiones are the revision they derive from and whether they are whole:
`replace_session` begins in `BeginRows` and ends in `FinishRows`, anything may
happen in between.  A failure of Control or Ranking is collected, as in the code,
and makes `SyncFailed`.  `SaveUnanswered` is a save of the document, lease and
records, whose answer is lost.  Every NEEDS_REVIEW carries an error, so it too ends the
run before publishing.

**SessionSheet** opens `BeginRows .. FinishRows` up: what `replace_session` does to
a sheet of rows with row numbers, by an overwrite, an append and a deletion, each
retried as `execute_with_transient_retry` does, then read back through a
dictionary.  **SessionTable** is what it promises: a table from session and
participant to a result in which one session is replaced at a time; what an
interrupted replacement leaves is any mixture in that session alone.
SessionSheet is shown to implement it.  **SheetRows** holds the operators both row
stores share (in the code, twice the same text): which rows to overwrite, insert
and delete, and what the Sheets API does with row numbers.

**ProgramRanking** is `build_program_ranking`: the loop as steps (a result per
step), the ranks as a fold.  It has no behaviour of its own: Program takes its steps
over the rows of Sesiones, sessions in every order.  **RankingSheet** is
`RankingRepository.persist` with `reorder_rows`, including the bookkeeping of
`moveDimension` positions.  **Ranks** is what both have in common: participants in the
order of their totals, and the rank of each.

**Lists** has the lists the code makes with `sorted()` and with comprehensions.  The
operators of the libraries for that rest on TLC's own sorting and on recursion, about
which nothing can be proved; these have the same values and a definition to reason
from.

**Roster** is `_refresh_live_roster`: people enrol, leave, change names and
addresses in an external table; `Action` is the decision of
`RosterImporter.dry_run` for a record, `UpdatesById` and `Creates` what `apply` makes
of a plan, `WriteCell` the cell by cell writes of `update_fields`.  `aliases`
stands for all optional fields, which the code declares, preserves and writes
alike.

**Identity** is `ParticipantResolver` in its three modes as a sequence of steps of
which the first that hits anybody decides, the resolution of events (declared
outsiders before anybody else) and of attendance addresses through their rules.

**Pilot** is the read-only pilot as operators over a `book` (statuses, rows,
people, bounds): observations of participation and attendance, the zero streak,
signal, alert, and the cases of the view.

**Program** joins the two with `SessionProcessor`: a file has a kind, may be
unreadable, and holds events with a name, a channel, a class of text; the loop over
them is a fold that carries the people it makes up.  `Process` marks PROCESSING and
resolves in memory, `AddPeople` is the upsert, `WriteScores` the replacement of the
session; either may fail for good, before or after it took effect, and the process
may die anywhere.  `LoadScores` and `AddResult` are the ranking, `Publish` the pilot
and the view.  The properties count what people said directly from the evidence,
without resolver, accumulator, streak or sheet, and compare.

**FollowUp** is the classification of the follow-up add-on; **Views** the two
writers of `Seguimiento individual`: the add-on (`Refresh`, `ClearTail`,
`WriteWhole`, `WriteCells`, `Report`) and eira-run (`StartPersist` ..
`EndPersist`), while people join, leave and write notes.

**Setup** is `eira-setup` from the search for the workbook in the Drive folder to
the last put, a step per write, and what `eira-run` needs of it: the workbook it
finds, `ensure_sessions` (an update of the rows there are and an append of the
missing ones, in a setup and in a run), the sessions it processes.  A refused setup
is no step.  With `--sheet` a setup takes any workbook of the folder (`InFolder`),
whatever its title and whichever others are configured, so that several may be
configured, for one program or for several; without it, `Found`, or the refusal with
"usa --sheet" if that is ambiguous.  A run takes any that is configured: the only one,
or the one `--sheet` names.

What is abstracted: cells to the values the properties tell apart; names and
addresses to numbers or short strings, compared by the keys the code computes;
texts of events to whether they are substantive; fingerprints to a revision; a
score to half points; sessions of a setup file to their identity, name, sources and
whether they are written the way they are kept.

## 3. The runs

| Run | Instance | Question |
|---|---|---|
| `lease` | 3 slots, timeout 2, overlapping acquisitions, late releases and overruns allowed, any number of lost answers | What the lease guarantees when nothing is assumed: no write extends a lease (`NoRenewal`), a late run is never verified (`LateRunsNeverVerify`), nobody is locked out (`NeverLockedOut`) |
| `lease_race` | the same, overlap only | `ActiveExclusion` fails (section 5) |
| `run_serial` | 1 slot, 3 sessions (one planned) of different histories, 2 revisions, 2 faults, timeout 1 with overruns | Crash recovery of the whole workbook, and what may be published |
| `run_two` | 2 slots (one `--sync-only`), 2 sessions, 2 revisions, 1 fault, timeout 2, fairness | The lease keeps the runs apart; the run implements CloudLease; everything is published in the end |
| `sheet` | 2 sessions, 2 participants, 2 values, 2 faults, 3 changes | Replacement by row number implements the table, converges, never touches another session |
| `sheet_delete` | 3 attempts, lost answers to deletions | `OtherSessionsUntouched` fails (section 5) |
| `roster` | 2 people, 2 names and 2 addresses each, all 4 combinations of optional columns, 3 edits, 2 faults | Identities stay and refreshes settle |
| `roster_undeclared` | the same, 1 fault | `UndeclaredFieldsKept` fails (section 5) |
| `ranking_sheet` | 3 participants, 2 scores, a blank row, lost answers to overwrites and moves, 2 faults, 4 changes | `reorder_rows` does what it predicts, and later runs repair |
| `program` | 3 modes, 3 sessions with 2 or 3 versions of evidence each, 6 names, 5 attendance tables, 2 faults, 1 change of role | People, points, ranking, alerts and attendance are what the evidence says |
| `views` | 3 people (one joins later), 6 sessions of which 5 are past, 1 untracked, 1 note, 1 leave, 4 writes, 1 fault | Notes, reports and views survive each other's writers |
| `setup` | 8 setup files for 2 programs, an empty folder or a legacy workbook, 4 setups, 2 runs, 3 faults | Setup can be interrupted, repeated, changed and told another workbook between runs |

Why the bounds are enough.  *Slots*: two invocations are enough for every
conflict of the protocol; the third in `lease` lets a successor be succeeded while
the first still writes its copy back.  *Timeout*: only the order of expiry and
steps matters; 2 ticks separate "just acquired", "older" and "expired", and with
overruns 1 is enough, since any number of steps fits between two ticks.
*Revisions*: 0 is "nothing yet"; the sessions of `run_serial` have histories of
their own, so that evidence arrives, vanishes, becomes ambiguous and is corrected,
before, under and after a run.  *Sessions*: one to be in the middle of, one to be
disturbed.  *Faults*: the second one hits the recovery from the first.  *Sheets*:
two rows of the target session and two of another, in both orders, give every
overwrite, shift and deletion across a session boundary; three ranked rows are the
fewest for which a move shifts rows on both sides.  *Roster*: three edits reach
every branch of the recognition: by e-mail, name, alias and id, ambiguous names, a
derived id that collides, repeated addresses.  *Program*: with three sessions a
streak of two may be interrupted by a session that is missing, incomplete,
doubtful or did not apply, or stand at either end; a session's versions take it
through unreadable, ambiguous, repeated and complete evidence; the names hold a
participant, one enrolled later, a spelling without accents, an alias without a
letter, an outsider and a tutor.  *Views*: levels start at four sessions and
compare a window with the whole, so that five past sessions and one more reach all
of them and a change of level; a clear and a write of each writer can be
interrupted and followed by two more jobs.  *Setup*: four setups are an interrupted
one, its repetition, a changed one and a return; two runs process a session each
under different configurations; the files differ in one thing each.

What is chosen, not bounded.  `run_two` takes acquisitions one at a time, none while
a release is being sent, and runs shorter than their lease; `run_serial`, with its one
slot, takes one invocation at a time, its release included.  Outside of that exclusion
is false (section 5) and nothing about the workbook can be promised.  `sheet` and `ranking_sheet` lose
answers only to requests whose repetition is harmless (overwrites) or repaired by a
later run (moves); appends and deletions are the subject of `sheet_delete`.
`roster` gives people disjoint names and addresses, applies an append once and
starts from sheets without blank rows; `program` applies an append once too, and
its change of role takes participants out, never in; `views` counts notes only as
long as no refresh reordered the rows (`reordered`) and reports only as long as no
death between clearing and writing left people who had been reported without a row
(`torn`); `setup` takes setups and runs one at a time and applies its own idea of a repeated setup
to tidy files.  Each of these is named under section 5.  `views` and `setup` run
without the deadlock check: all they do is bounded and may be over.

## 4. Fairness

- `WF(PassTime)`, `WF(Tick)`: time passes.
- `WF(\E r : Progress(r))` in EiraRun: some scheduler goes on starting `eira-run`
  (`docs/scheduling.md`), and what is started goes on while it does not fail.  It is
  asked of no particular slot: one may starve.
- `SF(\E r \in Run \ SyncOnly : StartRun(r))` in EiraRun: of the scheduled commands, the
  complete one is not for ever the one that finds the lease taken.  A scheduler that
  only ever got `--sync-only` runs through would never publish.
- `SF(Read)` and `WF(Progress)` in SessionSheet and RankingSheet: a run that did
  not record success is followed by one that tries again.  Strong fairness, since
  a session waits while others are replaced.
- `WF(Progress)` in Roster: every run refreshes first.

No fairness is assumed of failures, deaths, uploads and edits.  Faults and edits
are bounded, which is how "once they are over" is said; what the property says
holds however they were spent.

## 5. What does not hold

Three runs end in a counterexample, each of something the repository says.

1. **`lease_race`**: acquire reads, writes and reads back without compare-and-set.
   Two invocations that both read before either writes are both confirmed when the
   second writes after the first read back.  The code's refusal ("Ya existe una
   ejecución Eira activa para este programa", `cloud_store.py:159`) is therefore not
   a guarantee.  Nor is it one with acquisitions one at a time and runs within their
   lease: a release is a save of the whole document, and is sent again when its answer
   is lost.  If a second invocation acquires between the two, the repetition takes its
   lease out of the document (and its records back to what they were), and a third one
   is let in beside it.  The same configuration shows this with `Overlap = FALSE` and
   `LateRelease = TRUE`.  `LeaseExcludes` therefore assumes that neither happens and
   that no run outlives its lease; under these assumptions it is a guarantee, and each
   of the three is needed.
2. **`sheet_delete`**: `execute_with_transient_retry` repeats a row deletion whose
   answer was lost.  The row numbers are those of the first attempt, so rows of
   other sessions are deleted, and only the target session is verified.
3. **`roster_undeclared`**: a participant recognised by name or alias, because the
   address is new in the roster, loses the optional fields that the roster does
   not declare, contrary to `docs/cloud-first-operation.md:136-139`: what they are
   preserved from is looked up by id and e-mail only.

More is known from the same models and kept as hazards without a run of their own.
Each shows when the named bound or condition is lifted.

- *Repeated appends.*  An append repeated after a lost answer leaves its rows twice:
  of a session (which the verification, a dictionary, does not see, and every later
  run refuses), of Participantes, of Control, of Configuración and Estado (after which
  setups and runs refuse the workbook).  `"append"` in `LostAnswers` of SessionSheet, 2
  in `AppendTimes` of Roster and Program; Setup has it throughout.
- *Control's evidence columns.*  If `Control.reconcile` fails, or the process dies
  before it, after a session was recorded PROCESSED, later runs skip the session and
  leave its evidence columns alone: Control goes on showing "pending" or "missing"
  (`control.py:140`).
- *Roster.*  If two people share a name and one is new to the sheet, both records are
  written to the one participant in turn, run after run (`Settled`, a shared name in
  `NamesOf`).  With a blank row in Participantes the numbers of `update_fields` below it
  are one too small and a neighbour is overwritten (`IdentitiesStay`, a `Blank` in
  `Earlier`).
- *Changes of role.*  Sessions are not processed again when somebody becomes a
  participant: the pilot takes the rows they do not have for observed silences.
- *Notes.*  A refresh that only changes the order of the people leaves the notes at
  their row numbers (drop `~reordered` from `NotesStayWithPeople`).  A death between
  clearing and writing loses the notes and levels of those below the cut, so that
  somebody may be reported again (drop `torn` from `NeverReportedTwice`); a death
  after the write loses the report.  The two theorems about notes and reports say
  nothing of these cases.
- *Shared sheet.*  eira-run overwrites the ten columns it has; the last five of the
  follow-up add-on stay beside them.
- *Setup.*  The guard on processed sessions compares kept sessions with the file as
  written, so a file with other keys or spaces in `evidence_sources` is refused
  unchanged (drop `tidy` from `SameSpecAccepted`).  A run between a setup's check and
  its writes is not seen by the check, and not modelled: `ProcessedSessionsKept` is
  about setups and runs one at a time.  After a setup with `--sheet` two workbooks may
  be configured under one name, and then neither setup nor run finds its workbook
  without the option: that is why `SameSpecAccepted` speaks of the guards and not of
  the search.

## 6. What is proved

Each theorem holds for every value of the constants its module declares, under the
assumptions named there; what else a theorem assumes is in its statement and below.

| Theorem | Statement | Argument |
|---|---|---|
| `Typing` | `LeaseSpec => []LeaseTypeOK` | inductive as it stands |
| `LeaseNeverRenewed` | `LeaseSpec => []NoRenewal` | `NoRenewal` alone is not inductive: a copy could hold a lease of somebody who is about to acquire. `Ownership` (who may own which copy at which step) is what it needs |
| `LateRunsAreStopped` | `LeaseSpec => LateRunsNeverVerify` | from `NoRenewal`: the lease found at verification has the time left that the run has |
| `LeaseExcludes` | `Isolated => (LeaseSpec => []Exclusion)` | invariant `Held`: whoever is under way is alone; from its first save to its release the document holds its lease with the time it has left; before and after, whatever is repeated, that lease or none that is active |
| `RunsFollowLease` | `Spec => ImplementsLease` (EiraRun) | step simulation: each action of EiraRun is one of CloudLease or leaves the lease variables alone |
| `RunTyping` | `Spec => [](TypeOK /\ MidSession)` | needs `MidSession` (while a session is processed the loop is not over) |
| `ProcessedMeansWhole` | `Isolated => (Spec => []ProcessedRowsWhole)` | `Copies` (an invocation that will write the document has the current records in its copy, by `Held` through the refinement) and `Backed` (the session being written is PROCESSING in the document until its rows are whole, and they derive from evidence no older than the listing to be recorded) |
| `RankingAgrees` | `Isolated => (Spec => []RankingFollowsState)` | `Publishing`, see below |
| `FailedSyncPublishesNothing` | `Isolated => (Spec => FailedSyncKeepsView)` | `Publishing` at the two calls that write an operational sheet |
| `PublishedViewAgrees` | `Isolated => (Spec => PublishedViewIsState)` | the same |
| `NeverTwice` | `Spec => []NoDuplicates` (SessionSheet), unless appends are repeated | `Inv`, see below: the rows to append are of pairs the sheet does not have |
| `OthersStay` | `Spec => OtherSessionsUntouched`, unless deletions are repeated | by `Drops` the rows to delete are of the session being replaced, at every call before the deletion |
| `SuccessMeansDone` | `Spec => []SuccessIsComplete`, unless appends are repeated | `Corrects`, `Adds` and `Drops` after the last call say that the sheet is the one wanted |
| `TableImplemented` | `Spec => ImplementsTable` (SessionTable), unless deletions are repeated | the table is what reading the rows into a dictionary gives; each call on rows settles some of the participants of one session or is a stutter |
| `MovesPlace` | applying the moves of `reorder_rows` one after the other brings every row to its place | `Tracks`: the positions the code keeps for the ids still to be placed are those of the sheet as moved so far |
| `NeverTwice` | `Spec => []NoDuplicates` (RankingSheet), unless appends or deletions are repeated | as above; rows without a key are free to occur twice |
| `CleanRunsEndRight` | `Spec => []CleanRunsVerify`, unless deletions are repeated | `Fits`: what is corrected, appended, deleted and sorted so far, at each of the calls; `MovesPlace` at the sort |
| `SpeakingMoreIsNoWorse` | whoever spoke in more of the same sessions has no worse level | lemmas about cardinality and `SubSeq` reduce it to an inequality on `Classify` |
| `SinceIsWhenTheLevelBegan` | `follow_up_since_session` is the first session from which on the level was what it is | invariant of the loop over the prefixes of the history |
| `NotesStay` | `Spec => []NotesStayWithPeople` (Views) | `Noted`: the rows of the sheet and the values about to be written carry notes only of their own people, until a refresh that only reorders (`reordered`) |
| `ToldOnce` | `Spec => []NeverReportedTwice` | `Known`: who was told of is shown as critical in any row they have, all or nobody of them having one but right after a clear, and is not among those a refresh at work will report |
| `ReplacedSheets` | `Spec => []ReplacedSheetShowsView` | `Persisted`: how far the calls made so far have brought the two sheets, whatever was in them |
| `SpeakingHelps`, `SinceIsRight` | the two results about levels, of every state of Views | from the theorems above |
| `SetupKeepsProcessed` | `Spec => []ProcessedSessionsKept` (Setup) | what is processed under a configuration is checked once, by the guard, and replaced many writes later; `Guarded` says that a setup past the guard holds a file that keeps every session processed so far, `AsProcessed` the same of the configuration in the workbook, `AtWork` that a run goes by that configuration |
| `SetupFindsItsWorkbook` | `Spec => OneWorkbook` | `Alone`: titles in the folder are distinct; a setup without `--sheet` works on a workbook that is configured already or while none is, and one it has created bears a title that no other in the folder has |
| `RunsSeeTheirSessions` | `Spec => []RunSeesItsSessions` | `Ledger` (a row of Control says PROCESSED for a reason, and agrees with the configuration) and `Due` (the guard on Control holds until the configuration is written; a run has all its rows) |
| `AppliedCanBeApplied` | `Spec => []SameSpecAccepted` | the file of the configuration agrees with everything processed, by `AsProcessed` and `Ledger`, and is what the guards compare a file with, in each workbook that is configured |
| `NobodyTwice` | `Spec => []OneParticipantPerName` (Program), `Unmistaken` | `Inv`, see below: people are told apart by what they are called, those about to be added included |
| `ScoresOfEvidence` | `Spec => []PointsFollowEvidence`, `Unmistaken` | `Told`, of every PROCESSED session and of the one being written |
| `RankingOfEvidence` | `Spec => []RankingFollowsEvidence`, `Unmistaken` | `Ranked` for the rows read so far, `Told` for what they say |
| `RanksOfScores` | `Spec => []RanksCountTheBetter`, `Unmistaken` | the fold that assigns ranks, place by place in the order of the totals |
| `AlertsOfEvidence` | `Spec => []AlertsAreExact`, `Unmistaken` | `Passed` (behind the cursor every session has an outcome) and the streak, session by session |
| `AttendanceOfPairs` | `Spec => []AttendanceCountsPairs`, `Unmistaken` | observations and pairs are in bijection where there are no twins |
| `ProgramTyped` | `Spec => []TypeOK`, `Unmistaken` | from `Inv`; `TypeOK` as such does not bound a published view |
| `IdsStayUnique` | `Apart => (Spec => []NeverDamaged)` (Roster) | `Sound`, of the sheet as it is and as the append under way will make it |
| `SettledAlways` | `Apart => (Spec => []Settled)` | `Planned`, see below; at the verification it becomes `Done` |
| `IdentitiesAlways` | `Apart => (Spec => IdentitiesStay)` | by `Planned` every cell is written to the row of the person it is about, from a record of the same person |

### The lease and the run

The refinement is used twice: results about the lease alone are carried to the
whole run instead of being proved again, and `Held` supplies what makes the copies
current.

What may be published was decided many calls earlier, from local variables; so
`Publishing` says what an invocation knows of the workbook at every call it can have
come to (`Knows`): behind the cursor an outcome is what Estado has of the session, or
SKIPPED for one that was finished (`Tally`); after the reconciliation Control agrees with
Estado (`Reported`), after the ranking the totals are those of the PROCESSED sessions
(`Totalled`), unless a failure was collected; after the verification all of that holds
and no session is unfinished (`Concluded`); the draft of the pilot agrees with Estado
(`Drafted`).  `Untouched` is what makes Control harmless for sessions without a record:
it calls them pending.  `OnlyOne` reduces each step to the invocation that takes it,
since under `Held` the others are idle.

`Isolated` is `~Overlap /\ ~LateRelease /\ ~Overrun`: one invocation at a time, its
acquisition and its release included, and none longer than its lease.  Lost answers are
not excluded by it: `UnansweredKeeps` says that by a save that is going to be repeated
an invocation that is alone spoils nothing that is known of the workbook.  `run_serial` shows with `Overrun` that the
properties of the workbook do not need short runs as long as there is one slot.

### Rows by number

`replace_session` and `persist` plan everything from one reading and then address rows
by number, so their invariants say of the job under way how its plan fits the sheet as
it is (`Fits`): which rows are wrong and to be corrected, which wanted ones are missing
and to be appended, which are not wanted and to be deleted, which order is still to be
made.  The lemmas say what each call does to that: an overwrite and a move keep the
keys, an append adds keys, a deletion of numbered rows, a fold over the numbers from
the last to the first, leaves the others in their order (`Leaves`).

The hypotheses about `LostAnswers` are not there for convenience.  A repeated deletion
takes other rows (`sheet_delete` shows it), a repeated append makes duplicates; the
code does nothing about either.  The runs `sheet` and `ranking_sheet` take an instance
within the hypotheses.

### Lists and folds

`Lists_lemmas` has what the lists of the code are: `InOrderOf` is the one enumeration of
a finite set in a strict total order, `Picked` the elements at some places in their
order.  The induction theorems of the library have an operator as a parameter, which
the provers cannot instantiate.  `InductionUpTo` has a set in the place of the predicate,
and `Recursion` gives a function that computes step by step; a fold or a recursive
function is shown equal to one, and then what it leaves is proved place by place.

### The program

`PointsFollowEvidence` and its sisters compare what five components made of the evidence
with a direct count over it.  The proof of `InvAlways` follows the evidence through them.

*The loop over events.*  `ResolveIs` and `NextIs` say, in each mode, whom a name is: the
only one who answers to it, or somebody new.  `Tally` is the invariant of the loop: if
nothing is to be reviewed, everybody who spoke in the first k events is among the people,
and what is kept of each participant adds up to what they said (`Scored`).  Somebody made
up at event k has said nothing before it (`NewScored`), which is where it matters that the
loop goes on with the people it has made up.  `ResolvedIs` is the result for a whole
session, `ScoresAre` turns it into rows.

*The sheets.*  `Inv == Typed /\ Recorded /\ Passed /\ Ranked`.  `Recorded` says that the
rows of every PROCESSED session are told by its evidence (`Told`): each row is the one of
somebody who spoke, and every participant who spoke has theirs.  It is stated over all
the people and not only over participants, so that it survives a change of role, and with
the people about to be added (`Everybody`), so that it survives a failure or a death
between the two writes: people only grow, and a person added for one session has spoken
in none of the others, for there everybody who spoke is present (`ToldLonger`).

*The ranking.*  `Ranked` says that the totals are those of the rows read so far
(`TotalOf`), for any order of reading; `TotalOfEvidence` that after the last row this is
the sum over the PROCESSED sessions.

*The view.*  `SeriesIs` and `StreakIs` turn the observations and the loop over them into
`FellSilent`, `AlertIs` into the alert.  `AttendedIs` is a bijection between observations
and pairs, which exists because a view with two addresses of one participant in one
session (`Twins`) is refused.

The hypothesis `Unmistaken` has two parts.  No append is applied twice (`AppendTimes` is
at most {1}): a repeated one adds a row of the same name, and the code does nothing about
it (section 5).  And in the modes with a roster no two of its people share an id, a name
they answer to in that mode or an address.  Where they do, the resolver finds both and
sends the session to review, so that the evidence is not scored at all; the properties,
which count for each what was said in their name, are about rosters that tell people
apart.  `auto` needs no assumption: there the loop itself keeps names apart.

### The roster

`dry_run` decides record by record and finds people by id, address, name or alias;
`update_fields` writes cell by cell to rows by number, and may die after any of them.
None of the three properties is inductive by itself.  `Inv` has, besides the shape of
the roster and of the job:

- `Sound`: the rows have ids of their own and are coherent: a row by which somebody may
  be recognised (`Touches`) is theirs altogether (`Belongs`).  A row half rewritten by a
  refresh that died is still coherent, because both the old and the new value of a cell
  are the same person's.
- `Planned`: there is an assignment of rows to the people enrolled (`Home`), one each,
  such that every row agrees with the roster (`Holds`) or is among those going to be
  changed, and only such rows are (`Due`).  The assignment speaks of the sheet with the
  rows still to be appended (`Grown`).
- `Done`: after a success all those rows agree.

`PlanKeeps` makes the assignment from the matches and the new rows; `FoundAgain` says
that rows that agree are what the next refresh finds, whatever it recognises people by.
That a mistyped address does no harm follows from `RosterIs`: it repeats somebody's, so
that the plan is refused.

The hypothesis `Apart` says that people do not share names, addresses or ids, that the
sheet begins without blank rows, repeated ids and rows of two people, and that no append
is applied twice.  Section 5 says what happens where names are shared, a row is blank or
an append is repeated: the properties fail, and the code does not prevent it.  The
instance of the run `roster` satisfies `Apart`.

### Only model-checked

Liveness (`NeverLockedOut`, `EventuallyPublished`, every `Converges`), which these
provers do not reach.  Every invariant and action property of a passing run is a
theorem.

## 7. What is not modelled

- The contents of files: how transcripts and chats are parsed, which texts are
  substantive and which context is doubtful (`countability`).
- Baselines, averages, trend, decline and recovery of `core/longitudinal.py`: computed,
  but no rule of pilot.v1 raises a signal from them.  The retrospective comparison
  with outcomes (`application/pilot/retrospective.py`, `outcomes.py`), which nothing of
  eira-run calls.
- Setup and run, or two setups, at the same time; the size of Estado.
- In setup: the validation of the pilot section, roster and attendance tables, the
  initial import of participants, styling, the interactive init.
- Header migrations, authentication, the reading of the roster's source table,
  roster rows typed without an id.
- People editing a sheet in the middle of a run, but for notes.
- Legacy tracking and the filesystem state, which are off in the cloud flow.

## 8. Plan

Done: the lease, the run, session results, ranking, the roster; identities,
processing and the pilot; the two writers of the operational sheets; setup; the
safety properties of all of them proved.  What is left, in this order:

1. Setup next to a run: the guard, the confirmation and the writes of a setup
   interleaved with a run that processes a session; `put` by two writers.
2. The rows of Program's writes: Sesiones as SessionSheet has it, Participantes as
   rows with numbers.
3. Legacy tracking, if it stays in the repository.
