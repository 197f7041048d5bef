------------------------------- MODULE EiraRun --------------------------------
(***************************************************************************)
(* One Eira workbook and the invocations of eira-run that work on it.      *)
(*                                                                         *)
(* The workbook is a set of sheets written by separate API calls: Estado   *)
(* (the lease and one record per session, one JSON document), Sesiones     *)
(* (score rows), Control, Ranking, and the two operational sheets.  An     *)
(* action is one call that reads or writes a sheet; between two of them    *)
(* the process may die, a call may fail, evidence may change in Drive, the *)
(* clock may move, and another invocation may run.                         *)
(*                                                                         *)
(* The lease protocol is CloudLease; each action here that reads or writes *)
(* Estado is one of its actions together with what happens to the records, *)
(* so this module implements LeaseSpec.                                    *)
(***************************************************************************)
EXTENDS CloudLease

CONSTANTS
  N,          (* Sessions are numbered and processed in the order 1 .. N.   *)
  Planned,    (* Sessions configured as planned, without evidence source.   *)
  MaxRev,     (* Bound: how often the evidence of a session changes.        *)
  Quality,    (* Quality[s][v]: what revision v of the evidence of s is.    *)
  SyncOnly,   (* Slots started with --sync-only.                            *)
  MaxFaults   (* Bound: deaths of a process, failed calls, lost answers.    *)

Session == 1 .. N
Rev == 0 .. MaxRev    (* Revision 0: nothing uploaded yet.                  *)

ASSUME SessionAssumption == N \in Nat \ {0} /\ Planned \subseteq Session
ASSUME RevAssumption ==
  /\ MaxRev \in Nat
  /\ Quality \in [Session -> [Rev -> {"complete", "partial", "ambiguous"}]]
  /\ \A s \in Session : Quality[s][0] = "partial"
ASSUME SyncOnlyAssumption == SyncOnly \subseteq Run
ASSUME FaultsAssumption == MaxFaults \in Nat

VARIABLES
  sess,        (* Estado: the record of every session.                      *)
  rows,        (* Sesiones: what the rows of every session derive from.     *)
  control,     (* Control: status and evidence columns of every session.    *)
  ranking,     (* Ranking: the rows it adds up.                             *)
  summary,     (* Seguimiento: what it was computed from.                   *)
  individual,  (* Seguimiento individual: likewise.                         *)
  evidence,    (* Drive: current revision of the evidence of every session. *)
  at,          (* at[r]: the next call of r while it syncs or publishes.    *)
  work,        (* work[r]: local variables of invocation r.                 *)
  faults

bookVars == <<sess, rows, control, ranking, summary, individual>>
sheetVars == <<rows, control, ranking, summary, individual>>
vars == <<leaseVars, bookVars, evidence, at, work, faults>>

-----------------------------------------------------------------------------
(* Data.  `files' stands for the fingerprints of a session's files and the *)
(* two pipeline versions a record carries: _decision compares all three.   *)
Status == {"PROCESSED", "INCOMPLETE", "NEEDS_REVIEW", "FAILED"}
Record == [status : Status \union {"NEW", "PROCESSING"}, files : Rev]
Rows == [rev : Rev, whole : BOOLEAN]
ControlRow == [status : Status \union {"pending", "PROCESSING"},
               shown : {"pending", "present", "missing"}]
View == [Session -> [status : Status \union {"pending", "PROCESSING"}, rev : Rev]]

Call == {"out", "session", "process", "rows", "record", "ranking", "check",
         "pilot", "summary", "individual", "done"}

NoView == [s \in Session |-> [status |-> "pending", rev |-> 0]]

Blank ==
  [copy |-> [s \in Session |-> [status |-> "NEW", files |-> 0]],
   seen |-> [s \in Session |-> 0],
   cursor |-> 1,
   outcome |-> [s \in Session |-> "SKIPPED"],
   content |-> 0,
   failing |-> FALSE,
   draft |-> NoView]

Init ==
  /\ LeaseInit
  /\ sess = Blank.copy
  /\ rows = [s \in Session |-> [rev |-> 0, whole |-> TRUE]]
  /\ control = [s \in Session |-> [status |-> "pending", shown |-> "pending"]]
  /\ ranking = [of |-> [s \in Session |-> 0], whole |-> TRUE]
  /\ summary = NoView
  /\ individual = NoView
  /\ evidence \in {f \in [Session -> Rev] : \A s \in Planned : f[s] = 0}
  /\ at = [r \in Run |-> "out"]
  /\ work = [r \in Run |-> Blank]
  /\ faults = 0

Proceed(r, next) == at' = [at EXCEPT ![r] = next]
Forget(r) == Proceed(r, "out") /\ work' = [work EXCEPT ![r] = Blank]

-----------------------------------------------------------------------------
(* Lease calls outside the sync.  Each reads or writes the whole document, *)
(* so the session records travel with the lease.                           *)
StartRun(r) ==
  /\ AcquireLoad(r)
  /\ work' = [work EXCEPT ![r].copy = sess]
  /\ UNCHANGED <<bookVars, evidence, at, faults>>

SaveLease(r) ==
  /\ AcquireSave(r)
  /\ sess' = work[r].copy
  /\ UNCHANGED <<sheetVars, evidence, at, work, faults>>

ConfirmLease(r) ==
  /\ AcquireConfirm(r)
  /\ Forget(r)
  /\ UNCHANGED <<bookVars, evidence, faults>>

StartRelease(r) ==
  /\ ReleaseLoad(r)
  /\ IF stored.owner = r
     THEN work' = [work EXCEPT ![r].copy = sess] /\ UNCHANGED at
     ELSE Forget(r)
  /\ UNCHANGED <<bookVars, evidence, faults>>

SaveRelease(r) ==
  /\ ReleaseSave(r)
  /\ sess' = work[r].copy
  /\ Forget(r)
  /\ UNCHANGED <<sheetVars, evidence, faults>>

-----------------------------------------------------------------------------
(* The sync.  ProgramRunner.run loads the document once and lists the      *)
(* evidence of every session; all its saves write that copy, amended.      *)
Discover(r) ==
  /\ RunnerLoad(r)
  /\ work' = [work EXCEPT ![r] = [Blank EXCEPT !.copy = sess, !.seen = evidence]]
  /\ Proceed(r, "session")
  /\ UNCHANGED <<bookVars, evidence, faults>>

Current(r) == work[r].cursor

UnchangedOrFailed(rec, files) ==                                 \* mutant
  rec.status \in {"PROCESSED", "INCOMPLETE", "FAILED"} /\ rec.files = files

(* _decision: finished sessions with unchanged evidence are not processed. *)
Unchanged(rec, files) == rec.status \in {"PROCESSED", "INCOMPLETE"} /\ rec.files = files

InSession(r) == pc[r] = "syncing" /\ at[r] = "session" /\ Current(r) \in Session
ToSkip(r) ==
  LET s == Current(r)
  IN  s \in Planned \/ Unchanged(work[r].copy[s], work[r].seen[s])

SkipSession(r) ==
  /\ InSession(r) /\ ToSkip(r)
  /\ work' = [work EXCEPT ![r].cursor = @ + 1]
  /\ UNCHANGED <<leaseVars, bookVars, evidence, at, faults>>

(* Amend the copy with the current session's record.                       *)
Amended(r, status) ==
  [work[r].copy EXCEPT ![Current(r)] = [status |-> status, files |-> work[r].seen[Current(r)]]]

SaveWithoutLease(r, status) ==                                   \* mutant
  /\ pc[r] = "syncing"
  /\ stored' = NoLease
  /\ UNCHANGED <<snap, due, pc>>
  /\ sess' = Amended(r, status)
  /\ work' = [work EXCEPT ![r] =
       [@ EXCEPT !.copy = Amended(r, status),
                 !.cursor = IF status = "PROCESSING" THEN Current(r) ELSE Current(r) + 1]]

(* Save it, and go on.                                                     *)
SaveRecord(r, status) ==
  /\ StateSave(r)
  /\ sess' = Amended(r, status)
  /\ work' = [work EXCEPT ![r] =
       [@ EXCEPT !.copy = Amended(r, status),
                 !.cursor = IF status = "PROCESSING" THEN Current(r) ELSE Current(r) + 1]]

MarkInMemoryOnly(r) ==                                           \* mutant
  /\ InSession(r) /\ ~ToSkip(r)
  /\ work' = [work EXCEPT ![r].copy[Current(r)] =
                 [status |-> "PROCESSING", files |-> work[r].seen[Current(r)]]]
  /\ Proceed(r, "process")
  /\ UNCHANGED <<leaseVars, bookVars, evidence, faults>>

MarkProcessing(r) ==
  /\ InSession(r) /\ ~ToSkip(r)
  /\ SaveRecord(r, "PROCESSING")
  /\ Proceed(r, "process")
  /\ UNCHANGED <<sheetVars, evidence, faults>>

Conclude(r, outcome) ==
  /\ work' = [work EXCEPT ![r].outcome[Current(r)] = outcome]
  /\ Proceed(r, "record")

(* SessionProcessor.process.  Files are listed at discovery and read now,  *)
(* so what is judged may be either revision.  Without both kinds of file   *)
(* the session is INCOMPLETE, with ambiguous ones or unresolved identities *)
(* it NEEDS_REVIEW; neither touches Sesiones.                              *)
Judged(r) ==
  {Quality[Current(r)][v] : v \in {work[r].seen[Current(r)], evidence[Current(r)]}}

SetAside(r) ==
  /\ pc[r] = "syncing" /\ at[r] = "process"
  /\ \/ "partial" \in Judged(r) /\ Conclude(r, "INCOMPLETE")
     \/ "ambiguous" \in Judged(r) /\ Conclude(r, "NEEDS_REVIEW")
  /\ UNCHANGED <<leaseVars, bookVars, evidence, faults>>

(* replace_session is several calls (update, append, delete): in between   *)
(* the rows of the session derive from no single revision.                 *)
BeginRows(r) ==
  /\ pc[r] = "syncing" /\ at[r] = "process"
  /\ "complete" \in Judged(r)
  /\ rows' = [rows EXCEPT ![Current(r)].whole = FALSE]
  /\ work' = [work EXCEPT ![r].content = evidence[Current(r)]]
  /\ Proceed(r, "rows")
  /\ UNCHANGED <<leaseVars, sess, control, ranking, summary, individual, evidence, faults>>

FinishRows(r) ==
  /\ pc[r] = "syncing" /\ at[r] = "rows"
  /\ rows' = [rows EXCEPT ![Current(r)] = [rev |-> work[r].content, whole |-> TRUE]]
  /\ Conclude(r, "PROCESSED")
  /\ UNCHANGED <<leaseVars, sess, control, ranking, summary, individual, evidence, faults>>

FailAsSkipped(r) ==                                              \* mutant
  /\ pc[r] = "syncing" /\ at[r] \in {"process", "rows"}
  /\ faults < MaxFaults
  /\ faults' = faults + 1
  /\ Conclude(r, "SKIPPED")
  /\ UNCHANGED <<leaseVars, bookVars, evidence>>

(* An operational error (OSError, RuntimeError, ValueError) in any call.   *)
FailSession(r) ==
  /\ pc[r] = "syncing" /\ at[r] \in {"process", "rows"}
  /\ faults < MaxFaults
  /\ faults' = faults + 1
  /\ Conclude(r, "FAILED")
  /\ UNCHANGED <<leaseVars, bookVars, evidence>>

RecordOutcome(r) ==
  /\ pc[r] = "syncing" /\ at[r] = "record"
  /\ SaveRecord(r, work[r].outcome[Current(r)])
  /\ Proceed(r, "session")
  /\ UNCHANGED <<sheetVars, evidence, faults>>

ReconcileProcessedOnly(r) ==                                     \* mutant
  /\ pc[r] = "syncing" /\ at[r] = "session" /\ Current(r) > N
  /\ control' = [s \in Session |->
       IF work[r].outcome[s] = "SKIPPED" THEN control[s]
       ELSE [status |-> work[r].copy[s].status, shown |-> "present"]]
  /\ Proceed(r, "ranking")
  /\ UNCHANGED <<leaseVars, sess, rows, ranking, summary, individual, evidence, work, faults>>

(* Control.reconcile: one batch.  A skipped session gets its status only;  *)
(* its evidence columns are written by the run that processed it.  They    *)
(* say "present" when there is one file of each kind, which a session in   *)
(* review may have.                                                        *)
MayShow(r, s) ==
  CASE work[r].outcome[s] = "SKIPPED" -> {control[s].shown}
    [] work[r].outcome[s] = "PROCESSED" -> {"present"}
    [] work[r].outcome[s] = "NEEDS_REVIEW" -> {"present", "missing"}
    [] OTHER -> {"missing"}

Reconcile(r) ==
  /\ pc[r] = "syncing" /\ at[r] = "session" /\ Current(r) > N
  /\ \/ /\ \E shown \in [Session -> {"pending", "present", "missing"}] :
             /\ \A s \in Session : shown[s] \in MayShow(r, s)
             /\ control' = [s \in Session |->
                  [status |-> IF work[r].copy[s].status = "NEW" THEN control[s].status
                              ELSE work[r].copy[s].status,
                   shown |-> shown[s]]]
        /\ UNCHANGED <<work, faults>>
     \/ /\ faults < MaxFaults
        /\ faults' = faults + 1
        /\ work' = [work EXCEPT ![r].failing = TRUE]
        /\ UNCHANGED control
  /\ Proceed(r, "ranking")
  /\ UNCHANGED <<leaseVars, sess, rows, ranking, summary, individual, evidence>>

RankedAll(r) == [s \in Session |-> rows[s].rev]                   \* mutant

(* The ranking is rebuilt from the rows of the sessions now PROCESSED; a   *)
(* failure is collected and may leave the sheet half written.              *)
Ranked(r) ==
  [s \in Session |-> IF work[r].copy[s].status = "PROCESSED" THEN rows[s].rev ELSE 0]

Rank(r) ==
  /\ pc[r] = "syncing" /\ at[r] = "ranking"
  /\ \/ /\ ranking' = [of |-> Ranked(r), whole |-> TRUE]
        /\ UNCHANGED <<work, faults>>
     \/ /\ faults < MaxFaults
        /\ faults' = faults + 1
        /\ work' = [work EXCEPT ![r].failing = TRUE]
        /\ ranking' = [ranking EXCEPT !.whole = FALSE]
  /\ Proceed(r, "check")
  /\ UNCHANGED <<leaseVars, sess, rows, control, summary, individual, evidence>>

SyncFailedOnErrors(r) == work[r].failing                         \* mutant

(* run_main: any failed session or collected error (every NEEDS_REVIEW     *)
(* carries one) ends the run here, keeping the operational view.           *)
SyncFailed(r) ==
  \/ work[r].failing
  \/ \E s \in Session : work[r].outcome[s] \in {"FAILED", "NEEDS_REVIEW"}

PassVerify(r) ==
  /\ at[r] = "check"
  /\ ~SyncFailed(r)
  /\ Verify(r)
  /\ Proceed(r, "pilot")
  /\ UNCHANGED <<bookVars, evidence, work, faults>>

-----------------------------------------------------------------------------
(* The pilot reads Control (not Estado) and Sesiones, only counting rows   *)
(* of sessions Control calls PROCESSED, and replaces the two sheets.       *)
ReadPilot(r) ==
  /\ pc[r] = "verified" /\ at[r] = "pilot" /\ r \notin SyncOnly
  /\ work' = [work EXCEPT ![r].draft = [s \in Session |->
       [status |-> control[s].status,
        rev |-> IF control[s].status = "PROCESSED" THEN rows[s].rev ELSE 0]]]
  /\ Proceed(r, "summary")
  /\ UNCHANGED <<leaseVars, bookVars, evidence, faults>>

PublishSummary(r) ==
  /\ pc[r] = "verified" /\ at[r] = "summary"
  /\ summary' = work[r].draft
  /\ Proceed(r, "individual")
  /\ UNCHANGED <<leaseVars, sess, rows, control, ranking, individual, evidence, work, faults>>

PublishIndividual(r) ==
  /\ pc[r] = "verified" /\ at[r] = "individual"
  /\ individual' = work[r].draft
  /\ Proceed(r, "done")
  /\ UNCHANGED <<leaseVars, sess, rows, control, ranking, summary, evidence, work, faults>>

(* The try block of run_main ends: the end of the flow, a failed sync, or  *)
(* a verification that finds the lease gone or expired.                    *)
Finish(r) ==
  /\ Leave(r)
  /\ \/ at[r] = "check" /\ (SyncFailed(r) \/ stored.owner # r \/ ~Active(stored))
     \/ at[r] = "pilot" /\ r \in SyncOnly
     \/ at[r] = "done"
  /\ Forget(r)
  /\ UNCHANGED <<bookVars, evidence, faults>>

(* Any other exception: a refused roster, a Google error, a bug.           *)
Abort(r) ==
  /\ Leave(r)
  /\ faults < MaxFaults
  /\ faults' = faults + 1
  /\ Forget(r)
  /\ UNCHANGED <<bookVars, evidence>>

(* A save of the document takes effect and its answer is lost.             *)
SaveUnanswered(r) ==
  /\ LoseAnswer(r)
  /\ faults < MaxFaults
  /\ faults' = faults + 1
  /\ \/ /\ pc[r] \in {"loaded", "releasing"}
        /\ sess' = work[r].copy
        /\ UNCHANGED work
     \/ \E status \in Status \union {"PROCESSING"} :
          /\ \/ InSession(r) /\ ~ToSkip(r) /\ status = "PROCESSING"
             \/ pc[r] = "syncing" /\ at[r] = "record" /\ status = work[r].outcome[Current(r)]
          /\ sess' = Amended(r, status)
          /\ work' = [work EXCEPT ![r].copy = Amended(r, status)]
  /\ UNCHANGED <<sheetVars, evidence, at>>

Crash(r) ==
  /\ Die(r)
  /\ faults < MaxFaults
  /\ faults' = faults + 1
  /\ Forget(r)
  /\ UNCHANGED <<bookVars, evidence>>

-----------------------------------------------------------------------------
(* Files are added, edited or removed in Drive at any time.  A fingerprint *)
(* includes modifiedTime, so a revision never comes back.                  *)
Upload(s) ==
  /\ s \notin Planned
  /\ evidence[s] < MaxRev
  /\ evidence' = [evidence EXCEPT ![s] = @ + 1]
  /\ UNCHANGED <<leaseVars, bookVars, at, work, faults>>

PassTime == Tick /\ UNCHANGED <<bookVars, evidence, at, work, faults>>

Progress(r) ==
  \/ StartRun(r) \/ SaveLease(r) \/ ConfirmLease(r)
  \/ Discover(r) \/ SkipSession(r) \/ MarkProcessing(r)
  \/ SetAside(r) \/ BeginRows(r) \/ FinishRows(r) \/ RecordOutcome(r)
  \/ Reconcile(r) \/ Rank(r) \/ PassVerify(r)
  \/ ReadPilot(r) \/ PublishSummary(r) \/ PublishIndividual(r)
  \/ Finish(r) \/ StartRelease(r) \/ SaveRelease(r)

Next ==
  \/ \E r \in Run : Progress(r) \/ FailSession(r) \/ SaveUnanswered(r) \/ Abort(r) \/ Crash(r)
  \/ \E s \in Session : Upload(s)
  \/ PassTime

Spec == Init /\ [][Next]_vars

(* Schedulers keep starting eira-run, started runs go on, time passes, and *)
(* a complete run is at some time started when the lease is found free.    *)
FairSpec ==
  /\ Spec
  /\ WF_vars(\E r \in Run : Progress(r)) /\ WF_vars(PassTime)
  /\ SF_vars(\E r \in Run \ SyncOnly : StartRun(r))

-----------------------------------------------------------------------------
Local ==
  [copy : [Session -> Record], seen : [Session -> Rev], cursor : 1 .. N + 1,
   outcome : [Session -> Status \union {"SKIPPED"}], content : Rev,
   failing : BOOLEAN, draft : View]

TypeOK ==
  /\ LeaseTypeOK
  /\ sess \in [Session -> Record]
  /\ rows \in [Session -> Rows]
  /\ control \in [Session -> ControlRow]
  /\ ranking \in [of : [Session -> Rev], whole : BOOLEAN]
  /\ summary \in View /\ individual \in View
  /\ evidence \in [Session -> Rev]
  /\ at \in [Run -> Call]
  /\ work \in [Run -> Local]
  /\ faults \in 0 .. MaxFaults

(* The promise behind skipping: when Estado calls a session PROCESSED, its *)
(* rows in Sesiones are whole and derive from the recorded revision of the *)
(* evidence or a later one, through deaths between any two calls, failed   *)
(* writes and evidence changing under the run.  So a session is skipped    *)
(* (same fingerprints) only when its rows derive from its evidence.        *)
ProcessedRowsWhole ==
  \A s \in Session :
    sess[s].status = "PROCESSED" => rows[s].whole /\ rows[s].rev >= sess[s].files

(* When the sync of a run is accepted, Ranking adds up exactly the rows of *)
(* the sessions PROCESSED now: rows left behind by a session that became   *)
(* INCOMPLETE do not count, and no earlier run's failure lives on in it.   *)
RankingFollowsState ==
  \A r \in Run : pc[r] = "verified" =>
    /\ ranking.whole
    /\ \A s \in Session :
         ranking.of[s] = IF sess[s].status = "PROCESSED" THEN rows[s].rev ELSE 0

(* The operational view is computed from Control, yet what is published    *)
(* agrees with Estado: same status, and whole rows for PROCESSED sessions. *)
PublishedViewIsState ==
  [][summary' # summary =>
       \A s \in Session :
         /\ sess[s].status # "NEW" => summary'[s].status = sess[s].status
         /\ summary'[s].status = "PROCESSED" => rows[s].whole /\ rows[s].rev = summary'[s].rev
    ]_vars

(* "Participation sync fallo; se conserva la vista operacional anterior":  *)
(* no step changes an operational sheet while a session is left FAILED,    *)
(* in review, or in the middle of its processing.                          *)
FailedSyncKeepsView ==
  [][<<summary, individual>>' # <<summary, individual>> =>
       \A s \in Session : sess[s].status \notin {"FAILED", "NEEDS_REVIEW", "PROCESSING"}]_vars

(* Every run, data steps included, follows the lease protocol.             *)
ImplementsLease == LeaseSpec

(* Once faults and uploads are over and no session is left ambiguous, the  *)
(* operational sheets come to show every session as its evidence is.       *)
Settled == \A s \in Session : Quality[s][evidence[s]] # "ambiguous"
Shows(view) ==
  \A s \in Session \ Planned :
    view[s] = IF Quality[s][evidence[s]] = "complete"
              THEN [status |-> "PROCESSED", rev |-> evidence[s]]
              ELSE [status |-> "INCOMPLETE", rev |-> 0]

EventuallyPublished == <>[]Settled => <>[](Shows(summary) /\ Shows(individual))
=============================================================================
