--------------------------- MODULE EiraRun_proofs ----------------------------
(***************************************************************************)
(* What holds of the run lease for every set of slots and every timeout,   *)
(* and of the workbook it protects for every number of sessions, slots,    *)
(* faults and revisions of the evidence.                                   *)
(***************************************************************************)
EXTENDS EiraRun, TLAPS

(* Type correctness of the lease protocol: every copy of the lease, in the *)
(* document or in a run, keeps the shape CloudRunLease.acquire gave it.    *)
THEOREM Typing == LeaseSpec => []LeaseTypeOK
<1> USE TimeoutAssumption, OwnerAssumption DEF LeaseTypeOK, Lease, NoLease, Step
<1>1. LeaseInit => LeaseTypeOK
  BY DEF LeaseInit
<1>2. LeaseTypeOK /\ [LeaseNext]_leaseVars => LeaseTypeOK'
  <2> SUFFICES ASSUME LeaseTypeOK, [LeaseNext]_leaseVars PROVE LeaseTypeOK'
    OBVIOUS
  <2>1. ASSUME NEW l \in Lease PROVE Aged(l) \in Lease
    BY DEF Aged, Before
  <2>2. ASSUME NEW l \in Lease, NEW r \in Run PROVE Disowned(l, r) \in Lease
    BY DEF Disowned
  <2>3. ASSUME NEW doc \in Lease, NEW r \in Run, Over(r, doc) PROVE LeaseTypeOK'
    BY <2>2, <2>3 DEF Over, Goto
  <2>4. ASSUME NEW r \in Run, AcquireLoad(r) PROVE LeaseTypeOK'
    BY <2>4 DEF AcquireLoad, NewLease, Goto
  <2>5. ASSUME NEW r \in Run, AcquireSave(r) PROVE LeaseTypeOK'
    BY <2>5 DEF AcquireSave, Goto
  <2>6. ASSUME NEW r \in Run, AcquireConfirm(r) PROVE LeaseTypeOK'
    BY <2>3, <2>6 DEF AcquireConfirm, Goto
  <2>7. ASSUME NEW r \in Run, RunnerLoad(r) PROVE LeaseTypeOK'
    BY <2>7 DEF RunnerLoad, Goto
  <2>8. ASSUME NEW r \in Run, StateSave(r) PROVE LeaseTypeOK'
    BY <2>8 DEF StateSave
  <2>9. ASSUME NEW r \in Run, Verify(r) \/ Leave(r) PROVE LeaseTypeOK'
    BY <2>9 DEF Verify, Leave, Goto
  <2>10. ASSUME NEW r \in Run, ReleaseLoad(r) PROVE LeaseTypeOK'
    BY <2>3, <2>10 DEF ReleaseLoad, Goto
  <2>11. ASSUME NEW r \in Run, ReleaseSave(r) \/ Die(r) PROVE LeaseTypeOK'
    BY <2>3, <2>11 DEF ReleaseSave, Die
  <2>12. ASSUME NEW r \in Run, LoseAnswer(r) PROVE LeaseTypeOK'
    BY <2>12 DEF LoseAnswer
  <2>13. CASE Tick
    BY <2>1, <2>13 DEF Tick, Before
  <2>14. CASE UNCHANGED leaseVars
    BY <2>14 DEF leaseVars
  <2> QED
    BY <2>4, <2>5, <2>6, <2>7, <2>8, <2>9, <2>10, <2>11, <2>12, <2>13, <2>14 DEF LeaseNext
<1> QED
  BY <1>1, <1>2, PTL DEF LeaseSpec

-----------------------------------------------------------------------------
(* Where a copy of a live lease may be, besides what NoRenewal says: an    *)
(* idle slot owns no copy at all, because its last run_id died with it.    *)
Ownership ==
  \A r \in Run :
    pc[r] = "idle" => stored.owner # r /\ \A q \in Run : snap[q].owner # r

(* No interleaving of loads, saves, deaths and clock ticks ever gives a    *)
(* lease more time than acquire() gave it, however stale the document that *)
(* is written back.                                                        *)
THEOREM LeaseNeverRenewed == LeaseSpec => []NoRenewal
<1> DEFINE Inv == NoRenewal /\ Ownership
<1> USE OwnerAssumption DEF NoRenewal, Ownership
<1>1. LeaseInit => Inv
  BY DEF LeaseInit, NoLease
<1>2. LeaseTypeOK /\ Inv /\ [LeaseNext]_leaseVars => Inv'
  <2> SUFFICES ASSUME LeaseTypeOK, Inv, [LeaseNext]_leaseVars PROVE Inv'
    OBVIOUS
  <2> USE DEF LeaseTypeOK
  <2>1. ASSUME NEW r \in Run, Over(r, stored) PROVE Inv'
    BY <2>1 DEF Over, Goto, Disowned, NoLease, Lease
  <2>2. ASSUME NEW r \in Run, AcquireLoad(r) PROVE Inv'
    BY <2>2 DEF AcquireLoad, Goto, NewLease
  <2>3. ASSUME NEW r \in Run, AcquireSave(r) PROVE Inv'
    BY <2>3 DEF AcquireSave, Goto
  <2>4. ASSUME NEW r \in Run, AcquireConfirm(r) PROVE Inv'
    BY <2>1, <2>4 DEF AcquireConfirm, Goto
  <2>5. ASSUME NEW r \in Run, RunnerLoad(r) PROVE Inv'
    BY <2>5 DEF RunnerLoad, Goto
  <2>6. ASSUME NEW r \in Run, StateSave(r) \/ LoseAnswer(r) PROVE Inv'
    BY <2>6 DEF StateSave, LoseAnswer
  <2>7. ASSUME NEW r \in Run, Verify(r) \/ Leave(r) PROVE Inv'
    BY <2>7 DEF Verify, Leave, Goto
  <2>8. ASSUME NEW r \in Run, ReleaseLoad(r) PROVE Inv'
    BY <2>1, <2>8 DEF ReleaseLoad, Goto, NoLease
  <2>9. ASSUME NEW r \in Run, ReleaseSave(r) PROVE Inv'
    BY <2>9 DEF ReleaseSave, Over, Goto, Disowned, NoLease, Lease
  <2>10. ASSUME NEW r \in Run, Die(r) PROVE Inv'
    BY <2>1, <2>10 DEF Die
  <2>11. CASE Tick
    BY <2>11 DEF Tick, Aged, Lease
  <2>12. CASE UNCHANGED leaseVars
    BY <2>12 DEF leaseVars
  <2> QED
    BY <2>2, <2>3, <2>4, <2>5, <2>6, <2>7, <2>8, <2>9, <2>10, <2>11, <2>12 DEF LeaseNext
<1> QED
  BY <1>1, <1>2, Typing, PTL DEF LeaseSpec

(* A run older than its lease never passes lease.verify(): the lease it    *)
(* would need has, by NoRenewal, exactly its own time left.                *)
THEOREM LateRunsAreStopped == LeaseSpec => LateRunsNeverVerify
<1>1. LeaseTypeOK /\ NoRenewal /\ [LeaseNext]_leaseVars
        => [\A r \in Run : pc[r] # "verified" /\ pc'[r] = "verified" => due[r] > 0]_leaseVars
  <2> SUFFICES ASSUME LeaseTypeOK, NoRenewal, LeaseNext, NEW r \in Run,
                      pc[r] # "verified", pc'[r] = "verified"
               PROVE  due[r] > 0
    BY DEF leaseVars
  <2>1. Verify(r)
    BY DEF LeaseNext, LeaseTypeOK, Over, Goto, AcquireLoad, AcquireSave, AcquireConfirm, RunnerLoad,
           StateSave, Verify, Leave, ReleaseLoad, ReleaseSave, LoseAnswer, Die, Tick
  <2> QED
    BY <2>1 DEF Verify, Active, NoRenewal
<1> QED
  BY <1>1, Typing, LeaseNeverRenewed, PTL DEF LeaseSpec, LateRunsNeverVerify

-----------------------------------------------------------------------------
(* From acquire() to release() the document holds the lease of the only    *)
(* invocation alive, which no copy of the document can then overwrite: a   *)
(* save that is sent again writes what the same save wrote before.         *)
LEMMA LeaseHeld == Isolated => (LeaseSpec => []Held)
<1> SUFFICES ASSUME Isolated PROVE LeaseSpec => []Held
  OBVIOUS
<1> USE TimeoutAssumption, OwnerAssumption DEF Isolated
<1>1. LeaseInit => Held
  BY DEF LeaseInit, Held, Live
<1>2. LeaseTypeOK /\ Held /\ [LeaseNext]_leaseVars => Held'
  <2> SUFFICES ASSUME LeaseTypeOK, Held, [LeaseNext]_leaseVars PROVE Held'
    OBVIOUS
  <2> USE DEF LeaseTypeOK, Held, Live
  <2>1. ASSUME NEW r \in Run, Live(r), NEW doc, Over(r, doc) PROVE Held'
    BY <2>1 DEF Over, Goto
  <2>2. ASSUME NEW r \in Run, AcquireLoad(r) PROVE Held'
    <3>1. \A q \in Run : ~Live(q)
      BY <2>2 DEF AcquireLoad, MayAcquire, Active, Step
    <3> QED
      BY <2>2, <3>1 DEF AcquireLoad, Goto, NewLease, Active
  <2>3. ASSUME NEW r \in Run, AcquireSave(r) PROVE Held'
    BY <2>3 DEF AcquireSave, Goto
  <2>4. ASSUME NEW r \in Run, AcquireConfirm(r) PROVE Held'
    BY <2>4 DEF AcquireConfirm, Goto
  <2>5. ASSUME NEW r \in Run, RunnerLoad(r) PROVE Held'
    BY <2>5 DEF RunnerLoad, Goto
  <2>6. ASSUME NEW r \in Run, StateSave(r) \/ LoseAnswer(r) PROVE Held'
    BY <2>6 DEF StateSave, LoseAnswer
  <2>7. ASSUME NEW r \in Run, Verify(r) \/ Leave(r) PROVE Held'
    BY <2>7 DEF Verify, Leave, Goto
  <2>8. ASSUME NEW r \in Run, ReleaseLoad(r) PROVE Held'
    BY <2>8 DEF ReleaseLoad, Goto
  <2>9. ASSUME NEW r \in Run, ReleaseSave(r) \/ Die(r) PROVE Held'
    BY <2>1, <2>9 DEF ReleaseSave, Die
  <2>10. CASE Tick
    <3> USE <2>10 DEF Tick, Before
    <3>1. \A r \in Run : Live(r) => due[r] > 1 /\ due'[r] = due[r] - 1
      OBVIOUS
    <3> QED
      BY <3>1 DEF Aged, Active, Lease
  <2>11. CASE UNCHANGED leaseVars
    BY <2>11 DEF leaseVars, Active
  <2> QED
    BY <2>2, <2>3, <2>4, <2>5, <2>6, <2>7, <2>8, <2>9, <2>10, <2>11 DEF LeaseNext
<1> QED
  BY <1>1, <1>2, Typing, PTL DEF LeaseSpec

(* The lease is a lock: no two confirmed invocations at once, for any      *)
(* number of slots, whatever dies and whatever saves are sent again, on    *)
(* three conditions: acquisitions do not overlap, none begins while the    *)
(* save of a release is still sent, and runs end within timeout_seconds    *)
(* (the case cloud_store.py:155-179 is written for).                       *)
THEOREM LeaseExcludes == Isolated => (LeaseSpec => []Exclusion)
<1>1. Held => Exclusion
  BY DEF Held, Live, Exclusion, Confirmed
<1> QED
  BY <1>1, LeaseHeld, PTL

-----------------------------------------------------------------------------
(* Every step of a run, whatever it does to the sheets, is a step of the   *)
(* lease protocol or leaves the lease alone.                               *)
LEMMA StepsFollowLease == [Next]_vars => [LeaseNext]_leaseVars
<1> SUFFICES ASSUME [Next]_vars PROVE LeaseNext \/ UNCHANGED leaseVars
  OBVIOUS
<1> USE DEF leaseVars
<1>1. ASSUME NEW r \in Run, Progress(r) PROVE LeaseNext \/ UNCHANGED leaseVars
  <2>1. CASE StartRun(r) \/ SaveLease(r) \/ ConfirmLease(r) \/ Discover(r)
    BY <2>1 DEF LeaseNext, StartRun, SaveLease, ConfirmLease, Discover
  <2>2. CASE MarkProcessing(r) \/ RecordOutcome(r)
    BY <2>2 DEF LeaseNext, MarkProcessing, RecordOutcome, SaveRecord
  <2>3. CASE PassVerify(r) \/ Finish(r) \/ StartRelease(r) \/ SaveRelease(r)
    BY <2>3 DEF LeaseNext, PassVerify, Finish, StartRelease, SaveRelease
  <2>4. CASE SkipSession(r) \/ SetAside(r) \/ BeginRows(r) \/ FinishRows(r)
    BY <2>4 DEF SkipSession, SetAside, BeginRows, FinishRows
  <2>5. CASE Reconcile(r) \/ Rank(r)
    BY <2>5 DEF Reconcile, Rank
  <2>6. CASE ReadPilot(r) \/ PublishSummary(r) \/ PublishIndividual(r)
    BY <2>6 DEF ReadPilot, PublishSummary, PublishIndividual
  <2> QED
    BY <1>1, <2>1, <2>2, <2>3, <2>4, <2>5, <2>6 DEF Progress
<1>2. ASSUME NEW r \in Run, FailSession(r) \/ SaveUnanswered(r) \/ Abort(r) \/ Crash(r)
      PROVE  LeaseNext \/ UNCHANGED leaseVars
  BY <1>2 DEF LeaseNext, FailSession, SaveUnanswered, Abort, Crash
<1>3. ASSUME NEW s \in Session, Upload(s) PROVE UNCHANGED leaseVars
  BY <1>3 DEF Upload
<1>4. CASE PassTime
  BY <1>4 DEF LeaseNext, PassTime
<1>5. CASE UNCHANGED vars
  BY <1>5 DEF vars
<1> QED
  BY <1>1, <1>2, <1>3, <1>4, <1>5 DEF Next

(* The whole pipeline of run_main implements the lease protocol: what the  *)
(* theorems above show of the lease holds of the workbook's runs.          *)
THEOREM RunsFollowLease == Spec => ImplementsLease
<1>1. Init => LeaseInit
  BY DEF Init
<1> QED
  BY <1>1, StepsFollowLease, PTL DEF Spec, LeaseSpec, ImplementsLease
-----------------------------------------------------------------------------
(* The types of an invocation's local variables, and what they may be      *)
(* updated with.                                                           *)
LEMMA LocalFields ==
  ASSUME NEW w \in Local
  PROVE  /\ w.copy \in [Session -> Record] /\ w.seen \in [Session -> Rev]
         /\ w.cursor \in 1 .. N + 1 /\ w.content \in Rev /\ w.draft \in View
         /\ w.outcome \in [Session -> Status \union {"SKIPPED"}] /\ w.failing \in BOOLEAN
  BY DEF Local

(* The updates that keep those types.                                      *)
LEMMA LocalUpdates ==
  ASSUME NEW w \in Local
  PROVE  /\ \A c \in [Session -> Record] : [w EXCEPT !.copy = c] \in Local
         /\ \A c \in 1 .. N + 1 : [w EXCEPT !.cursor = c] \in Local
         /\ \A o \in [Session -> Status \union {"SKIPPED"}] : [w EXCEPT !.outcome = o] \in Local
         /\ \A v \in Rev : [w EXCEPT !.content = v] \in Local
         /\ \A d \in View : [w EXCEPT !.draft = d] \in Local
         /\ [w EXCEPT !.failing = TRUE] \in Local
  BY DEF Local

(* While a session is processed the loop of _run_program is not over.      *)
MidSession ==
  \A r \in Run :
    /\ at[r] \in {"process", "rows", "record"} => Current(r) \in Session
    /\ at[r] = "record" => work[r].outcome[Current(r)] \in Status

(* Type correctness of the workbook, the evidence and the local variables  *)
(* of every invocation of run_main.                                        *)
THEOREM RunTyping == Spec => [](TypeOK /\ MidSession)
<1> USE DEF TypeOK, MidSession, Current
<1>0. /\ Blank \in Local /\ NoView \in View /\ Blank.copy \in [Session -> Record]
      /\ \A v \in Rev : v \in Nat
      /\ 0 \in Rev
  BY SessionAssumption, RevAssumption
     DEF Blank, NoView, Local, View, Record, Session, Rev, Status
<1>1. Init => TypeOK /\ MidSession
  <2> SUFFICES ASSUME Init PROVE TypeOK /\ MidSession
    OBVIOUS
  <2>1. LeaseTypeOK
    BY TimeoutAssumption, OwnerAssumption DEF Init, LeaseInit, LeaseTypeOK, Lease, NoLease, Step
  <2> QED
    BY <1>0, <2>1, FaultsAssumption DEF Init, Rows, ControlRow, Call
<1> DEFINE Inv == TypeOK /\ MidSession
<1>2. Inv /\ LeaseTypeOK' /\ [Next]_vars => Inv'
  <2> SUFFICES ASSUME Inv, LeaseTypeOK', [Next]_vars PROVE Inv'
    OBVIOUS
  <2> USE <1>0, FaultsAssumption DEF bookVars, sheetVars, Proceed
  <2>1. ASSUME NEW r \in Run
        PROVE  /\ work[r] \in Local
               /\ work[r].copy \in [Session -> Record] /\ work[r].seen \in [Session -> Rev]
               /\ work[r].cursor \in 1 .. N + 1 /\ work[r].content \in Rev
               /\ work[r].draft \in View
               /\ work[r].outcome \in [Session -> Status \union {"SKIPPED"}]
    BY LocalFields
  <2>2. ASSUME NEW r \in Run, NEW w \in Local, work' = [work EXCEPT ![r] = w]
        PROVE  /\ work' \in [Run -> Local]
               /\ work'[r] = w
               /\ \A q \in Run : q # r => work'[q] = work[q]
    BY <2>2
  <2>3. ASSUME NEW r \in Run, Forget(r)
        PROVE  at' \in [Run -> Call] /\ work' \in [Run -> Local] /\ MidSession'
    BY <2>3 DEF Forget, Call
  <2>4. ASSUME NEW r \in Run, NEW c \in [Session -> Record],
               work' = [work EXCEPT ![r].copy = c], UNCHANGED at
        PROVE  work' \in [Run -> Local] /\ MidSession'
    <3>1. /\ [work[r] EXCEPT !.copy = c] \in Local
          /\ [work[r] EXCEPT !.copy = c].cursor = work[r].cursor
          /\ [work[r] EXCEPT !.copy = c].outcome = work[r].outcome
      BY <2>1, LocalUpdates DEF Local
    <3> QED
      BY <2>2, <2>4, <3>1
  <2>5. ASSUME NEW r \in Run, StartRun(r) PROVE Inv'
    BY <2>4, <2>5 DEF StartRun
  <2>6. ASSUME NEW r \in Run, SaveLease(r) PROVE Inv'
    BY <2>1, <2>6 DEF SaveLease
  <2>7. ASSUME NEW r \in Run, ConfirmLease(r) PROVE Inv'
    BY <2>3, <2>7 DEF ConfirmLease
  <2>8. ASSUME NEW r \in Run, StartRelease(r) PROVE Inv'
    BY <2>3, <2>4, <2>8 DEF StartRelease
  <2>9. ASSUME NEW r \in Run, SaveRelease(r) PROVE Inv'
    BY <2>1, <2>3, <2>9 DEF SaveRelease
  <2>10. ASSUME NEW r \in Run, Finish(r) \/ Abort(r) \/ Crash(r) PROVE Inv'
    BY <2>3, <2>10 DEF Finish, Abort, Crash
  <2>11. ASSUME NEW r \in Run, Discover(r) PROVE Inv'
    <3>1. [Blank EXCEPT !.copy = sess, !.seen = evidence] \in Local
      BY DEF Local
    <3> QED
      BY <2>2, <2>11, <3>1 DEF Discover, Call
  <2>12. ASSUME NEW r \in Run, SkipSession(r) PROVE Inv'
    <3>1. work[r].cursor + 1 \in 1 .. N + 1
      BY <2>12, SessionAssumption DEF SkipSession, InSession, Session
    <3>2. [work[r] EXCEPT !.cursor = @ + 1] \in Local
      BY <2>1, <3>1, LocalUpdates DEF Local
    <3> QED
      BY <2>2, <2>12, <3>2 DEF SkipSession, InSession
  <2>13. ASSUME NEW r \in Run, NEW status \in Status \union {"PROCESSING"}, Current(r) \in Session
         PROVE  Amended(r, status) \in [Session -> Record]
    BY <2>1, <2>13 DEF Amended, Record
  <2>14. ASSUME NEW r \in Run, NEW status \in Status \union {"PROCESSING"},
                Current(r) \in Session, SaveRecord(r, status)
         PROVE  /\ sess' \in [Session -> Record] /\ work' \in [Run -> Local]
                /\ work'[r].cursor = IF status = "PROCESSING" THEN work[r].cursor
                                     ELSE work[r].cursor + 1
                /\ \A q \in Run : q # r => work'[q] = work[q]
    <3> DEFINE c == Amended(r, status)
               k == IF status = "PROCESSING" THEN work[r].cursor ELSE work[r].cursor + 1
    <3>2. c \in [Session -> Record]
      BY <2>14, <2>13
    <3>3. k \in 1 .. N + 1
      BY <2>1, <2>14, SessionAssumption DEF Session
    <3>4. sess' = c /\ work' = [work EXCEPT ![r] = [work[r] EXCEPT !.copy = c, !.cursor = k]]
      BY <2>14 DEF SaveRecord
    <3> HIDE DEF c, k
    <3>5. /\ [work[r] EXCEPT !.copy = c, !.cursor = k] \in Local
          /\ [work[r] EXCEPT !.copy = c, !.cursor = k].cursor = k
      BY <2>1, <3>2, <3>3, LocalUpdates DEF Local
    <3> QED
      BY <2>2, <3>2, <3>4, <3>5 DEF k
  <2>15. ASSUME NEW r \in Run, MarkProcessing(r) PROVE Inv'
    <3>1. SaveRecord(r, "PROCESSING") /\ Current(r) \in Session
      BY <2>15 DEF MarkProcessing, InSession
    <3>2. work'[r].cursor \in Session /\ work' \in [Run -> Local] /\ sess' \in [Session -> Record]
          /\ \A q \in Run : q # r => work'[q] = work[q]
      BY <2>14, <3>1
    <3> QED
      BY <2>15, <3>2 DEF MarkProcessing, Call
  <2>16. ASSUME NEW r \in Run, RecordOutcome(r) PROVE Inv'
    <3>1. SaveRecord(r, work[r].outcome[Current(r)]) /\ Current(r) \in Session
      BY <2>16 DEF RecordOutcome
    <3>2. work[r].outcome[Current(r)] \in Status
      BY <2>16 DEF RecordOutcome
    <3>3. /\ work' \in [Run -> Local] /\ sess' \in [Session -> Record]
          /\ \A q \in Run : q # r => work'[q] = work[q]
      BY <2>14, <3>1, <3>2
    <3> QED
      BY <2>16, <3>3 DEF RecordOutcome, Call
  <2>17. ASSUME NEW r \in Run, NEW o \in Status, Current(r) \in Session, Conclude(r, o)
         PROVE  work' \in [Run -> Local] /\ at' \in [Run -> Call] /\ MidSession'
    <3> DEFINE f == [work[r].outcome EXCEPT ![Current(r)] = o]
               w == [work[r] EXCEPT !.outcome = f]
    <3>1. f \in [Session -> Status \union {"SKIPPED"}] /\ f[Current(r)] = o
      BY <2>1, <2>17
    <3>2. work' = [work EXCEPT ![r] = w] /\ at' = [at EXCEPT ![r] = "record"]
      BY <2>17 DEF Conclude
    <3> HIDE DEF f
    <3>3. w \in Local /\ w.cursor = work[r].cursor /\ w.outcome = f
      BY <2>1, <3>1, LocalUpdates DEF Local
    <3> HIDE DEF w
    <3> QED
      BY <2>2, <2>17, <3>1, <3>2, <3>3 DEF Call
  <2>18. ASSUME NEW r \in Run, SetAside(r) PROVE Inv'
    BY <2>17, <2>18 DEF SetAside, Status
  <2>19. ASSUME NEW r \in Run, BeginRows(r) PROVE Inv'
    <3>1. evidence[Current(r)] \in Rev /\ rows' \in [Session -> Rows]
      BY <2>19 DEF BeginRows, Rows
    <3>2. /\ [work[r] EXCEPT !.content = evidence[Current(r)]] \in Local
          /\ [work[r] EXCEPT !.content = evidence[Current(r)]].cursor = work[r].cursor
      BY <2>1, <3>1, LocalUpdates DEF Local
    <3> QED
      BY <2>2, <2>19, <3>1, <3>2 DEF BeginRows, Call
  <2>20. ASSUME NEW r \in Run, FinishRows(r) PROVE Inv'
    <3>1. rows' \in [Session -> Rows]
      BY <2>1, <2>20 DEF FinishRows, Rows
    <3> QED
      BY <2>17, <2>20, <3>1 DEF FinishRows, Status
  <2>21. ASSUME NEW r \in Run, FailSession(r) PROVE Inv'
    BY <2>17, <2>21 DEF FailSession, Status
  <2>22. ASSUME NEW r \in Run, SaveUnanswered(r) PROVE Inv'
    <3>1. CASE pc[r] \in {"loaded", "releasing"} /\ sess' = work[r].copy /\ UNCHANGED work
      BY <2>1, <2>22, <3>1 DEF SaveUnanswered
    <3>2. CASE \E status \in Status \union {"PROCESSING"} :
                 /\ \/ InSession(r) /\ ~ToSkip(r) /\ status = "PROCESSING"
                    \/ pc[r] = "syncing" /\ at[r] = "record" /\ status = work[r].outcome[Current(r)]
                 /\ sess' = Amended(r, status)
                 /\ work' = [work EXCEPT ![r].copy = Amended(r, status)]
      <4>1. PICK status \in Status \union {"PROCESSING"} :
                 /\ \/ InSession(r) /\ ~ToSkip(r) /\ status = "PROCESSING"
                    \/ pc[r] = "syncing" /\ at[r] = "record" /\ status = work[r].outcome[Current(r)]
                 /\ sess' = Amended(r, status)
                 /\ work' = [work EXCEPT ![r].copy = Amended(r, status)]
        BY <3>2
      <4>2. Amended(r, status) \in [Session -> Record]
        BY <2>13, <4>1 DEF InSession
      <4>3. UNCHANGED at
        BY <2>22 DEF SaveUnanswered
      <4>4. work' \in [Run -> Local] /\ MidSession'
        BY <2>4, <4>1, <4>2, <4>3
      <4> QED
        BY <2>22, <4>1, <4>2, <4>3, <4>4 DEF SaveUnanswered
    <3> QED
      BY <2>22, <3>1, <3>2 DEF SaveUnanswered
  <2>23. ASSUME NEW r \in Run, Reconcile(r) PROVE Inv'
    <3>1. [work[r] EXCEPT !.failing = TRUE] \in Local
      BY <2>1, LocalUpdates
    <3>2. ASSUME NEW s \in Session
          PROVE  /\ work[r].copy[s].status \in Status \union {"NEW", "PROCESSING"}
                 /\ control[s].status \in Status \union {"pending", "PROCESSING"}
                 /\ control[s].shown \in {"pending", "present", "missing"}
      BY <2>1 DEF Record, ControlRow
    <3>3. control' \in [Session -> ControlRow]
      <4>1. CASE UNCHANGED control
        BY <2>1, <4>1
      <4>2. CASE \E shown \in [Session -> {"pending", "present", "missing"}] :
                   control' = [s \in Session |->
                     [status |-> IF work[r].copy[s].status = "NEW" THEN control[s].status
                                 ELSE work[r].copy[s].status,
                      shown |-> shown[s]]]
        <5>1. PICK shown \in [Session -> {"pending", "present", "missing"}] :
                 control' = [s \in Session |->
                   [status |-> IF work[r].copy[s].status = "NEW" THEN control[s].status
                               ELSE work[r].copy[s].status,
                    shown |-> shown[s]]]
          BY <4>2
        <5>2. ASSUME NEW s \in Session
              PROVE  [status |-> IF work[r].copy[s].status = "NEW" THEN control[s].status
                                 ELSE work[r].copy[s].status,
                      shown |-> shown[s]] \in ControlRow
          BY <3>2 DEF ControlRow
        <5> QED
          BY <5>1, <5>2
      <4> QED
        BY <2>23, <4>1, <4>2 DEF Reconcile
    <3>4. work' \in [Run -> Local] /\ \A q \in Run : q # r => work'[q] = work[q]
      BY <2>2, <2>23, <3>1 DEF Reconcile
    <3>5. faults' \in 0 .. MaxFaults /\ at' = [at EXCEPT ![r] = "ranking"]
      BY <2>23 DEF Reconcile
    <3> QED
      BY <2>23, <3>3, <3>4, <3>5 DEF Reconcile, Call
  <2>24. ASSUME NEW r \in Run, Rank(r) PROVE Inv'
    <3>1. [work[r] EXCEPT !.failing = TRUE] \in Local
      BY <2>1, LocalUpdates
    <3>2. Ranked(r) \in [Session -> Rev]
      BY DEF Ranked, Rows
    <3>3. /\ [of |-> Ranked(r), whole |-> TRUE] \in [of : [Session -> Rev], whole : BOOLEAN]
          /\ [ranking EXCEPT !.whole = FALSE] \in [of : [Session -> Rev], whole : BOOLEAN]
      BY <3>2
    <3>4. work' \in [Run -> Local] /\ \A q \in Run : q # r => work'[q] = work[q]
      BY <2>2, <2>24, <3>1 DEF Rank
    <3>5. faults' \in 0 .. MaxFaults /\ at' = [at EXCEPT ![r] = "check"]
      BY <2>24 DEF Rank
    <3>6. ranking' \in {[of |-> Ranked(r), whole |-> TRUE], [ranking EXCEPT !.whole = FALSE]}
      BY <2>24 DEF Rank
    <3> HIDE DEF Proceed
    <3> QED
      BY <2>24, <3>3, <3>4, <3>5, <3>6 DEF Rank, Call
  <2>25. ASSUME NEW r \in Run, PassVerify(r) PROVE Inv'
    BY <2>25 DEF PassVerify, Call
  <2>26. ASSUME NEW r \in Run, ReadPilot(r) PROVE Inv'
    <3> DEFINE d == [s \in Session |->
                 [status |-> control[s].status,
                  rev |-> IF control[s].status = "PROCESSED" THEN rows[s].rev ELSE 0]]
    <3>1. d \in View
      BY DEF View, ControlRow, Rows
    <3>2. [work[r] EXCEPT !.draft = d] \in Local
      BY <2>1, <3>1, LocalUpdates
    <3>3. work' = [work EXCEPT ![r] = [work[r] EXCEPT !.draft = d]]
      BY <2>26 DEF ReadPilot
    <3> HIDE DEF d
    <3>4. work' \in [Run -> Local] /\ \A q \in Run : q # r => work'[q] = work[q]
      BY <2>2, <3>2, <3>3
    <3> QED
      BY <2>26, <3>4 DEF ReadPilot, Call
  <2>27. ASSUME NEW r \in Run, PublishSummary(r) \/ PublishIndividual(r) PROVE Inv'
    BY <2>1, <2>27 DEF PublishSummary, PublishIndividual, Call
  <2>28. ASSUME NEW s \in Session, Upload(s) PROVE Inv'
    BY <2>28, RevAssumption DEF Upload, Rev
  <2>29. CASE PassTime
    BY <2>29 DEF PassTime
  <2>30. CASE UNCHANGED vars
    BY <2>30 DEF vars
  <2> QED
    BY <2>5, <2>6, <2>7, <2>8, <2>9, <2>10, <2>11, <2>12, <2>15, <2>16, <2>18, <2>19, <2>20,
       <2>21, <2>22, <2>23, <2>24, <2>25, <2>26, <2>27, <2>28, <2>29, <2>30 DEF Next, Progress
<1> QED
  BY <1>1, <1>2, Typing, RunsFollowLease, PTL DEF Spec, ImplementsLease
-----------------------------------------------------------------------------
(* Why skipping is safe.  An invocation that will write the document holds *)
(* a copy with the current records (Copies); the session it works on is    *)
(* PROCESSING in the document until its rows are whole, and they derive    *)
(* from evidence at least as new as the listing it will record (Backed).   *)
(* A save whose answer is lost has already put the outcome there.          *)
Writing(r) == at[r] \in {"process", "rows", "record"}

Copies ==
  \A r \in Run :
    /\ pc[r] \in {"loaded", "syncing", "releasing"} => work[r].copy = sess
    /\ Writing(r) => pc[r] = "syncing"

Backed ==
  \A r \in Run :
    /\ pc[r] = "syncing" => \A s \in Session : work[r].seen[s] <= evidence[s]
    /\ at[r] \in {"process", "rows"} => sess[Current(r)].status = "PROCESSING"
    /\ at[r] = "record" => sess[Current(r)].status \in {"PROCESSING", work[r].outcome[Current(r)]}
    /\ at[r] = "rows" => work[r].seen[Current(r)] <= work[r].content
    /\ at[r] = "record" /\ work[r].outcome[Current(r)] = "PROCESSED" =>
         rows[Current(r)].whole /\ work[r].seen[Current(r)] <= rows[Current(r)].rev

RecordsBacked == Copies /\ Backed /\ ProcessedRowsWhole

(* The records are backed by the rows, whoever has a copy of them.         *)
LEMMA RecordsHold == Isolated => (Spec => []RecordsBacked)
<1> SUFFICES ASSUME Isolated PROVE Spec => []RecordsBacked
  OBVIOUS
<1> DEFINE Inv == RecordsBacked
<1> USE DEF RecordsBacked
<1> USE DEF Copies, Backed, ProcessedRowsWhole, Writing, Current
<1>1. Init => Inv
  BY DEF Init, LeaseInit, Blank
<1>2. TypeOK /\ MidSession /\ Held /\ Inv /\ [Next]_vars => Inv'
  <2> SUFFICES ASSUME TypeOK, MidSession, Held, Inv, [Next]_vars PROVE Inv'
    OBVIOUS
  <2>1. /\ pc \in [Run -> Step] /\ at \in [Run -> Call] /\ work \in [Run -> Local]
        /\ rows \in [Session -> Rows] /\ sess \in [Session -> Record]
        /\ evidence \in [Session -> Rev]
        /\ \A v \in Rev : v \in Nat
    BY RevAssumption DEF TypeOK, LeaseTypeOK, Rev
  <2>2. \A r, q \in Run : pc[r] # "idle" /\ pc[q] # "idle" => r = q
    BY DEF Held, Live
  <2> USE DEF Proceed, Goto
  <2>3. ASSUME NEW r \in Run, Over(r, stored) \/ Leave(r), Forget(r),
               UNCHANGED <<sess, rows, evidence>>
        PROVE  Inv'
    BY <2>1, <2>3 DEF Over, Leave, Forget
  <2>4. ASSUME NEW r \in Run, StartRun(r) PROVE Inv'
    BY <2>1, <2>4 DEF StartRun, AcquireLoad, bookVars
  <2>5. ASSUME NEW r \in Run, SaveLease(r) PROVE Inv'
    BY <2>1, <2>5 DEF SaveLease, AcquireSave, sheetVars
  <2>6. ASSUME NEW r \in Run, ConfirmLease(r) PROVE Inv'
    BY <2>1, <2>6 DEF ConfirmLease, AcquireConfirm, Over, Forget, bookVars
  <2>7. ASSUME NEW r \in Run, StartRelease(r) PROVE Inv'
    <3>1. CASE stored.owner = r
      <4>1. /\ work'[r].copy = sess' /\ pc'[r] = "releasing" /\ ~Writing(r)
            /\ \A q \in Run : q # r => work'[q] = work[q] /\ pc'[q] = pc[q]
            /\ UNCHANGED <<at, sess, rows, evidence>>
        BY <2>1, <2>7, <3>1 DEF StartRelease, ReleaseLoad, bookVars, Local
      <4> QED
        BY <2>1, <4>1
    <3>2. CASE stored.owner # r
      BY <2>3, <2>7, <3>2 DEF StartRelease, ReleaseLoad, bookVars
    <3> QED
      BY <3>1, <3>2
  <2>8. ASSUME NEW r \in Run, SaveRelease(r) PROVE Inv'
    BY <2>1, <2>8 DEF SaveRelease, ReleaseSave, Over, Forget, sheetVars
  <2>9. ASSUME NEW r \in Run, Finish(r) \/ Abort(r) \/ Crash(r) PROVE Inv'
    BY <2>3, <2>9 DEF Finish, Abort, Crash, Die, bookVars
  <2>10. ASSUME NEW r \in Run, Discover(r) PROVE Inv'
    BY <2>1, <2>10 DEF Discover, RunnerLoad, bookVars, Blank
  <2>11. ASSUME NEW r \in Run, SkipSession(r) PROVE Inv'
    BY <2>1, <2>11 DEF SkipSession, InSession, leaseVars, bookVars
  <2>12. ASSUME NEW r \in Run, MarkProcessing(r) PROVE Inv'
    BY <2>1, <2>2, <2>12 DEF MarkProcessing, InSession, SaveRecord, Amended, StateSave, sheetVars
  <2>13. ASSUME NEW r \in Run, NEW o \in Status \ {"PROCESSED"}, Conclude(r, o),
               at[r] \in {"process", "rows"}, UNCHANGED <<leaseVars, sess, rows, evidence>>
         PROVE  Inv'
    <3>1. /\ work'[r].copy = work[r].copy /\ work'[r].seen = work[r].seen
          /\ work'[r].cursor = work[r].cursor
          /\ Current(r) \in Session => work'[r].outcome[Current(r)] = o
          /\ \A q \in Run : q # r => work'[q] = work[q] /\ at'[q] = at[q]
          /\ at'[r] = "record"
      BY <2>1, <2>13 DEF Conclude, Local
    <3>2. Current(r) \in Session
      BY <2>13 DEF MidSession
    <3> QED
      BY <2>1, <2>13, <3>1, <3>2 DEF leaseVars
  <2>14. ASSUME NEW r \in Run, SetAside(r) PROVE Inv'
    BY <2>13, <2>14 DEF SetAside, Status, bookVars
  <2>15. ASSUME NEW r \in Run, FailSession(r) PROVE Inv'
    BY <2>13, <2>15 DEF FailSession, Status, bookVars
  <2>16. ASSUME NEW r \in Run, BeginRows(r) PROVE Inv'
    <3>1. /\ work'[r].copy = work[r].copy /\ work'[r].seen = work[r].seen
          /\ work'[r].cursor = work[r].cursor /\ work'[r].content = evidence[Current(r)]
          /\ \A q \in Run : q # r => work'[q] = work[q] /\ at'[q] = at[q]
          /\ at'[r] = "rows"
      BY <2>1, <2>16 DEF BeginRows, Local
    <3>2. pc[r] = "syncing" /\ Current(r) \in Session /\ Writing(r)
      BY <2>16 DEF MidSession, BeginRows
    <3>3. \A s \in Session : s # Current(r) => rows'[s] = rows[s]
      BY <2>1, <2>16 DEF BeginRows
    <3>4. \A q \in Run : q # r => ~Writing(q) /\ pc[q] = "idle"
      BY <2>2, <3>2
    <3> QED
      BY <2>1, <2>16, <3>1, <3>2, <3>3, <3>4 DEF BeginRows, leaseVars
  <2>17. ASSUME NEW r \in Run, FinishRows(r) PROVE Inv'
    <3>1. /\ work'[r].copy = work[r].copy /\ work'[r].seen = work[r].seen
          /\ work'[r].cursor = work[r].cursor
          /\ \A q \in Run : q # r => work'[q] = work[q] /\ at'[q] = at[q]
          /\ at'[r] = "record"
      BY <2>1, <2>17 DEF FinishRows, Conclude, Local
    <3>2. pc[r] = "syncing" /\ Current(r) \in Session /\ Writing(r)
      BY <2>17 DEF MidSession, FinishRows
    <3>3. /\ \A s \in Session : s # Current(r) => rows'[s] = rows[s]
          /\ rows'[Current(r)] = [rev |-> work[r].content, whole |-> TRUE]
      BY <2>1, <2>17, <3>2 DEF FinishRows
    <3>4. \A q \in Run : q # r => ~Writing(q) /\ pc[q] = "idle"
      BY <2>2, <3>2
    <3> QED
      BY <2>1, <2>17, <3>1, <3>2, <3>3, <3>4 DEF FinishRows, leaseVars
  <2>18. ASSUME NEW r \in Run, RecordOutcome(r) PROVE Inv'
    <3>1. /\ pc[r] = "syncing" /\ at[r] = "record" /\ at'[r] = "session"
          /\ Current(r) \in Session /\ work[r].copy = sess
          /\ UNCHANGED <<pc, rows, evidence>>
      BY <2>1, <2>18 DEF RecordOutcome, SaveRecord, StateSave, sheetVars, MidSession
    <3>2. /\ work'[r].copy = sess' /\ work'[r].seen = work[r].seen
          /\ \A q \in Run : q # r => work'[q] = work[q] /\ at'[q] = at[q]
      BY <2>1, <2>18 DEF RecordOutcome, SaveRecord, Local
    <3>3. /\ sess'[Current(r)] = [status |-> work[r].outcome[Current(r)],
                                  files |-> work[r].seen[Current(r)]]
          /\ \A s \in Session : s # Current(r) => sess'[s] = sess[s]
      BY <2>1, <2>18, <3>1 DEF RecordOutcome, SaveRecord, Amended
    <3>4. \A q \in Run : q # r => ~Writing(q) /\ pc[q] = "idle"
      BY <2>2, <3>1
    <3> QED
      BY <2>1, <3>1, <3>2, <3>3, <3>4
  <2>19. ASSUME NEW r \in Run, SaveUnanswered(r) PROVE Inv'
    <3>1. CASE pc[r] \in {"loaded", "releasing"} /\ sess' = work[r].copy /\ UNCHANGED work
      BY <2>1, <2>19, <3>1 DEF SaveUnanswered, LoseAnswer, sheetVars
    <3>2. CASE \E status \in Status \union {"PROCESSING"} :
                 /\ \/ InSession(r) /\ ~ToSkip(r) /\ status = "PROCESSING"
                    \/ pc[r] = "syncing" /\ at[r] = "record" /\ status = work[r].outcome[Current(r)]
                 /\ sess' = Amended(r, status)
                 /\ work' = [work EXCEPT ![r].copy = Amended(r, status)]
      <4>1. PICK status \in Status \union {"PROCESSING"} :
                 /\ \/ InSession(r) /\ ~ToSkip(r) /\ status = "PROCESSING"
                    \/ pc[r] = "syncing" /\ at[r] = "record" /\ status = work[r].outcome[Current(r)]
                 /\ sess' = Amended(r, status)
                 /\ work' = [work EXCEPT ![r].copy = Amended(r, status)]
        BY <3>2
      <4>2. pc[r] = "syncing" /\ Current(r) \in Session /\ work[r].copy = sess
        BY <4>1 DEF InSession, MidSession
      <4>3. /\ work'[r].copy = sess' /\ work'[r].seen = work[r].seen
            /\ work'[r].cursor = work[r].cursor /\ work'[r].outcome = work[r].outcome
            /\ work'[r].content = work[r].content
            /\ \A q \in Run : q # r => work'[q] = work[q]
        BY <2>1, <4>1 DEF Local
      <4>4. /\ sess'[Current(r)] = [status |-> status, files |-> work[r].seen[Current(r)]]
            /\ \A s \in Session : s # Current(r) => sess'[s] = sess[s]
        BY <2>1, <4>1, <4>2 DEF Amended
      <4>5. UNCHANGED <<pc, at, rows, evidence>>
        BY <2>19 DEF SaveUnanswered, LoseAnswer, sheetVars
      <4>6. \A q \in Run : q # r => ~Writing(q) /\ pc[q] = "idle"
        BY <2>2, <4>2
      <4>7. at[r] \in {"session", "record"}
        BY <4>1 DEF InSession
      <4>8. status = "PROCESSED" =>
              rows[Current(r)].whole /\ work[r].seen[Current(r)] <= rows[Current(r)].rev
        BY <4>1
      <4> QED
        BY <2>1, <4>1, <4>2, <4>3, <4>4, <4>5, <4>6, <4>7, <4>8
    <3> QED
      BY <2>19, <3>1, <3>2 DEF SaveUnanswered
  <2>20. ASSUME NEW r \in Run, Reconcile(r) \/ Rank(r) PROVE Inv'
    <3>1. /\ work'[r].copy = work[r].copy /\ work'[r].seen = work[r].seen
          /\ \A q \in Run : q # r => work'[q] = work[q] /\ at'[q] = at[q]
          /\ at'[r] \in {"ranking", "check"}
          /\ UNCHANGED <<leaseVars, sess, rows, evidence>>
      BY <2>1, <2>20 DEF Reconcile, Rank, Local
    <3> QED
      BY <2>1, <3>1 DEF leaseVars
  <2>21. ASSUME NEW r \in Run, PassVerify(r) \/ ReadPilot(r) PROVE Inv'
    BY <2>1, <2>21 DEF PassVerify, Verify, ReadPilot, leaseVars, bookVars
  <2>22. ASSUME NEW r \in Run, PublishSummary(r) \/ PublishIndividual(r) PROVE Inv'
    BY <2>1, <2>22 DEF PublishSummary, PublishIndividual, leaseVars
  <2>23. ASSUME NEW s \in Session, Upload(s) PROVE Inv'
    <3>1. /\ \A t \in Session : evidence[t] <= evidence'[t] /\ evidence'[t] \in Nat
          /\ UNCHANGED <<leaseVars, sess, rows, at, work>>
      BY <2>1, <2>23 DEF Upload, bookVars
    <3>2. \A r \in Run : \A t \in Session : work[r].seen[t] \in Nat
      BY <2>1, LocalFields
    <3> QED
      BY <2>1, <3>1, <3>2 DEF leaseVars
  <2>24. CASE PassTime \/ UNCHANGED vars
    BY <2>24 DEF PassTime, Tick, vars, leaseVars, bookVars
  <2> QED
    BY <2>4, <2>5, <2>6, <2>7, <2>8, <2>9, <2>10, <2>11, <2>12, <2>14, <2>15, <2>16, <2>17,
       <2>18, <2>19, <2>20, <2>21, <2>22, <2>23, <2>24 DEF Next, Progress
<1> QED
  BY <1>1, <1>2, RunTyping, LeaseHeld, RunsFollowLease, PTL DEF Spec, ImplementsLease

(* A session Estado calls PROCESSED has whole rows in Sesiones, derived    *)
(* from the recorded fingerprints' evidence or later: through crashes      *)
(* between any two calls, failed writes and uploads under the run, for any *)
(* number of sessions and slots, while the lease is a lock.                *)
THEOREM ProcessedMeansWhole == Isolated => (Spec => []ProcessedRowsWhole)
<1>1. RecordsBacked => ProcessedRowsWhole
  BY DEF RecordsBacked
<1> QED
  BY <1>1, RecordsHold, PTL

-----------------------------------------------------------------------------
(* What a run may publish: the rows of the ranking and the operational     *)
(* view agree with the state of the sessions, and a sync that left one of  *)
(* them unfinished publishes nothing.                                      *)

(* The outcomes of the sessions behind the cursor are what Estado has of   *)
(* them, or SKIPPED for one that was finished; those ahead have none yet.  *)
Tally(r) ==
  \A s \in Session :
    /\ s < Current(r) =>
         IF work[r].outcome[s] = "SKIPPED" THEN sess[s].status \in {"NEW", "PROCESSED", "INCOMPLETE"}
         ELSE sess[s].status = work[r].outcome[s]
    /\ s > Current(r) \/ (s = Current(r) /\ at[r] # "record") => work[r].outcome[s] = "SKIPPED"

(* A session without a record has none because nobody processed it.        *)
Untouched ==
  \A s \in Session :
    /\ s \in Planned => sess[s].status = "NEW"
    /\ sess[s].status = "NEW" => control[s].status = "pending"

Concluded == \A s \in Session : sess[s].status \notin {"FAILED", "NEEDS_REVIEW", "PROCESSING"}

Reported == \A s \in Session : sess[s].status # "NEW" => control[s].status = sess[s].status

Totalled ==
  /\ ranking.whole
  /\ \A s \in Session :
       ranking.of[s] = IF sess[s].status = "PROCESSED" THEN rows[s].rev ELSE 0

Drafted(r) ==
  \A s \in Session :
    /\ sess[s].status # "NEW" => work[r].draft[s].status = sess[s].status
    /\ work[r].draft[s].status = "PROCESSED" =>
         rows[s].whole /\ rows[s].rev = work[r].draft[s].rev

(* What an invocation knows of the workbook at the call it has come to.    *)
Knows(r) ==
  /\ pc[r] = "syncing" => Tally(r)
  /\ pc[r] = "syncing" /\ at[r] \in {"ranking", "check"} =>
       Current(r) > N /\ (work[r].failing \/ Reported)
  /\ pc[r] = "syncing" /\ at[r] = "check" => work[r].failing \/ Totalled
  /\ pc[r] = "verified" => Concluded /\ Reported /\ Totalled
  /\ pc[r] = "verified" /\ at[r] \in {"summary", "individual"} => Drafted(r)

Publishing == Untouched /\ \A r \in Run : Knows(r)

(* Everything else that is invariant, in one name.                         *)
Ground == TypeOK /\ MidSession /\ Held /\ RecordsBacked

(* What the proofs about publishing start from holds throughout.           *)
LEMMA GroundHolds == Isolated => (Spec => []Ground)
<1>1. TypeOK /\ MidSession /\ Held /\ RecordsBacked => Ground
  BY DEF Ground
<1> QED
  BY <1>1, RunTyping, LeaseHeld, RecordsHold, RunsFollowLease, PTL DEF ImplementsLease

(* The types of what a step of a run reads, one of them at work.           *)
LEMMA GroundTypes ==
  ASSUME Ground
  PROVE  /\ pc \in [Run -> Step] /\ at \in [Run -> Call] /\ work \in [Run -> Local]
         /\ rows \in [Session -> Rows] /\ sess \in [Session -> Record]
         /\ control \in [Session -> ControlRow]
         /\ \A r, q \in Run : pc[r] # "idle" /\ pc[q] # "idle" => r = q
  BY DEF Ground, TypeOK, LeaseTypeOK, Held, Live

(* Nothing is known, and nothing published, at the beginning.              *)
LEMMA PublishingInit == Init => Publishing
  BY DEF Init, LeaseInit, Blank, Publishing, Untouched, Knows

(* A step of one invocation leaves nothing to be known to the others: they *)
(* are idle.                                                               *)
LEMMA OnlyOne ==
  ASSUME Ground, NEW r \in Run, pc[r] # "idle", Untouched', Knows(r)',
         \A q \in Run : q # r => pc'[q] = pc[q]
  PROVE  Publishing'
<1>1. ASSUME NEW q \in Run, q # r PROVE pc'[q] = "idle"
  BY <1>1, GroundTypes
<1>2. ASSUME NEW q \in Run PROVE Knows(q)'
  <2>1. CASE q = r
    BY <2>1
  <2>2. CASE q # r
    BY <1>1, <2>2 DEF Knows
  <2> QED
    BY <2>1, <2>2
<1> QED
  BY <1>2 DEF Publishing

-----------------------------------------------------------------------------
(* Calls of the lease: nothing is known after them.                        *)
LEMMA LeaseCalls ==
  ASSUME Ground, Publishing, NEW r \in Run,
         \/ StartRun(r) \/ SaveLease(r) \/ ConfirmLease(r) \/ StartRelease(r) \/ SaveRelease(r)
         \/ Finish(r) \/ Abort(r) \/ Crash(r)
  PROVE  Publishing'
<1> USE GroundTypes DEF bookVars, sheetVars, Goto
<1>1. CASE StartRun(r)
  <2>1. /\ UNCHANGED <<sess, rows, control, ranking, at>> /\ pc'[r] = "loaded"
        /\ \A q \in Run : q # r => pc'[q] = pc[q] /\ work'[q] = work[q]
    BY <1>1 DEF StartRun, AcquireLoad
  <2>2. ASSUME NEW q \in Run PROVE Knows(q)'
    <3>1. CASE q = r
      BY <2>1, <3>1 DEF Knows
    <3>2. CASE q # r
      BY <2>1, <3>2 DEF Publishing, Knows, Tally, Concluded, Reported, Totalled, Drafted, Current
    <3> QED
      BY <3>1, <3>2
  <2> QED
    BY <2>1, <2>2 DEF Publishing, Untouched
<1>2. CASE \/ SaveLease(r) \/ ConfirmLease(r) \/ StartRelease(r) \/ SaveRelease(r)
           \/ Finish(r) \/ Abort(r) \/ Crash(r)
  <2>1. /\ pc[r] # "idle" /\ pc'[r] \notin {"syncing", "verified"}
        /\ \A q \in Run : q # r => pc'[q] = pc[q]
        /\ UNCHANGED control
    BY <1>2 DEF SaveLease, AcquireSave, ConfirmLease, AcquireConfirm, StartRelease, ReleaseLoad,
                SaveRelease, ReleaseSave, Finish, Abort, Leave, Crash, Die, Over
  <2>2. sess' = sess
    BY <1>2 DEF SaveLease, AcquireSave, ConfirmLease, StartRelease, SaveRelease, ReleaseSave,
                Finish, Abort, Crash, Over, Ground, RecordsBacked, Copies
  <2> QED
    BY <2>1, <2>2, OnlyOne DEF Knows, Publishing, Untouched
<1> QED
  BY <1>1, <1>2

-----------------------------------------------------------------------------
(* The loop over the sessions.                                             *)
LEMMA DiscoverKeeps ==
  ASSUME Ground, Publishing, NEW r \in Run, Discover(r)
  PROVE  Publishing'
<1>1. /\ pc[r] = "held" /\ pc'[r] = "syncing" /\ at'[r] = "session"
      /\ work'[r].cursor = 1 /\ work'[r].outcome = [s \in Session |-> "SKIPPED"]
      /\ UNCHANGED <<sess, control>>
      /\ \A q \in Run : q # r => pc'[q] = pc[q]
  BY GroundTypes DEF Discover, RunnerLoad, Goto, Proceed, Blank, bookVars
<1>2. Knows(r)'
  BY <1>1, SessionAssumption DEF Knows, Tally, Current, Session
<1> QED
  BY <1>1, <1>2, OnlyOne DEF Publishing, Untouched

(* A session that was finished is skipped.                                 *)
LEMMA SkipKeeps ==
  ASSUME Ground, Publishing, NEW r \in Run, SkipSession(r)
  PROVE  Publishing'
<1>1. /\ pc[r] = "syncing" /\ at[r] = "session" /\ Current(r) \in Session
      /\ UNCHANGED <<sess, control, pc, at>>
      /\ work'[r].cursor = work[r].cursor + 1 /\ work'[r].outcome = work[r].outcome
  BY GroundTypes DEF SkipSession, InSession, leaseVars, bookVars, Local
<1>2. sess[Current(r)].status \in {"NEW", "PROCESSED", "INCOMPLETE"}
  BY <1>1 DEF SkipSession, ToSkip, Unchanged, Publishing, Untouched, Ground, RecordsBacked, Copies
<1>3. Tally(r)
  BY <1>1 DEF Publishing, Knows
<1>4. Tally(r)'
  BY <1>1, <1>2, <1>3 DEF Tally, Current, Session
<1> QED
  BY <1>1, <1>4, OnlyOne DEF Publishing, Untouched, Knows

(* The record that is written replaces that of the session the loop is at. *)
LEMMA Saved ==
  ASSUME Ground, NEW r \in Run, NEW status, SaveRecord(r, status), Current(r) \in Session
  PROVE  /\ pc[r] = "syncing" /\ pc' = pc
         /\ sess'[Current(r)].status = status
         /\ \A s \in Session : s # Current(r) => sess'[s] = sess[s]
         /\ work'[r].cursor = IF status = "PROCESSING" THEN work[r].cursor ELSE work[r].cursor + 1
         /\ work'[r].outcome = work[r].outcome
<1>1. pc[r] = "syncing" /\ pc' = pc
  BY DEF SaveRecord, StateSave
<1>2. work[r].copy = sess
  BY <1>1 DEF Ground, RecordsBacked, Copies
<1> DEFINE c == [sess EXCEPT ![Current(r)] = [status |-> status, files |-> work[r].seen[Current(r)]]]
           k == IF status = "PROCESSING" THEN work[r].cursor ELSE work[r].cursor + 1
<1>3. sess' = c /\ work' = [work EXCEPT ![r] = [work[r] EXCEPT !.copy = c, !.cursor = k]]
  BY <1>2 DEF SaveRecord, Amended, Current
<1>4. /\ c[Current(r)].status = status
      /\ \A s \in Session : s # Current(r) => c[s] = sess[s]
  BY GroundTypes
<1> HIDE DEF c, k
<1>5. work'[r].cursor = k /\ work'[r].outcome = work[r].outcome
  BY <1>3, GroundTypes DEF Local
<1> QED
  BY <1>1, <1>3, <1>4, <1>5 DEF k

(* A session is recorded as PROCESSING.                                    *)
LEMMA MarkKeeps ==
  ASSUME Ground, Publishing, NEW r \in Run, MarkProcessing(r)
  PROVE  Publishing'
<1>1. /\ pc[r] = "syncing" /\ at[r] = "session" /\ Current(r) \in Session
      /\ Current(r) \notin Planned /\ UNCHANGED control /\ at'[r] = "process"
      /\ SaveRecord(r, "PROCESSING")
  BY GroundTypes DEF MarkProcessing, InSession, ToSkip, sheetVars, Proceed
<1>2. /\ pc' = pc /\ sess'[Current(r)].status = "PROCESSING"
      /\ \A s \in Session : s # Current(r) => sess'[s] = sess[s]
      /\ work'[r].cursor = work[r].cursor /\ work'[r].outcome = work[r].outcome
  BY <1>1, Saved
<1>3. Tally(r)
  BY <1>1 DEF Publishing, Knows
<1>4. Tally(r)'
  BY <1>1, <1>2, <1>3 DEF Tally, Current, Session
<1>5. Untouched'
  BY <1>1, <1>2 DEF Publishing, Untouched
<1> QED
  BY <1>1, <1>2, <1>4, <1>5, OnlyOne DEF Knows

(* The outcome of a session is recorded.                                   *)
LEMMA RecordKeeps ==
  ASSUME Ground, Publishing, NEW r \in Run, RecordOutcome(r)
  PROVE  Publishing'
<1> DEFINE o == work[r].outcome[Current(r)]
<1>1. /\ pc[r] = "syncing" /\ at[r] = "record" /\ UNCHANGED control
      /\ at'[r] = "session" /\ SaveRecord(r, o)
  BY GroundTypes DEF RecordOutcome, sheetVars, Proceed
<1>2. Current(r) \in Session /\ o \in Status
  BY <1>1 DEF Ground, MidSession
<1>3. /\ pc' = pc /\ sess'[Current(r)].status = o
      /\ \A s \in Session : s # Current(r) => sess'[s] = sess[s]
      /\ work'[r].cursor = work[r].cursor + 1 /\ work'[r].outcome = work[r].outcome
  BY <1>1, <1>2, Saved DEF Status
<1>4. Current(r) \notin Planned
  BY <1>1, <1>2 DEF Ground, RecordsBacked, Backed, Publishing, Untouched, Status
<1>5. Tally(r)
  BY <1>1 DEF Publishing, Knows
<1>6. Tally(r)'
  BY <1>1, <1>2, <1>3, <1>5 DEF Tally, Current, Session, Status
<1>7. Untouched'
  BY <1>2, <1>3, <1>4, <1>1 DEF Publishing, Untouched, Status
<1> QED
  BY <1>1, <1>3, <1>6, <1>7, OnlyOne DEF Knows

(* A save whose answer is lost: the record is there, and the loop has not  *)
(* moved on.                                                               *)
LEMMA UnansweredKeeps ==
  ASSUME Ground, Publishing, NEW r \in Run, SaveUnanswered(r)
  PROVE  Publishing'
<1>1. /\ pc[r] \in {"loaded", "syncing", "releasing"}
      /\ UNCHANGED <<pc, at, control>>
  BY DEF SaveUnanswered, LoseAnswer, sheetVars
<1>2. CASE pc[r] \in {"loaded", "releasing"} /\ sess' = work[r].copy /\ UNCHANGED work
  <2>1. sess' = sess
    BY <1>2 DEF Ground, RecordsBacked, Copies
  <2> QED
    BY <1>1, <1>2, <2>1, OnlyOne DEF Publishing, Untouched, Knows
<1>3. CASE \E status \in Status \union {"PROCESSING"} :
             /\ \/ InSession(r) /\ ~ToSkip(r) /\ status = "PROCESSING"
                \/ pc[r] = "syncing" /\ at[r] = "record" /\ status = work[r].outcome[Current(r)]
             /\ sess' = Amended(r, status)
             /\ work' = [work EXCEPT ![r].copy = Amended(r, status)]
  <2>1. PICK status \in Status \union {"PROCESSING"} :
             /\ \/ InSession(r) /\ ~ToSkip(r) /\ status = "PROCESSING"
                \/ pc[r] = "syncing" /\ at[r] = "record" /\ status = work[r].outcome[Current(r)]
             /\ sess' = Amended(r, status)
             /\ work' = [work EXCEPT ![r].copy = Amended(r, status)]
    BY <1>3
  <2>2. /\ pc[r] = "syncing" /\ Current(r) \in Session /\ work[r].copy = sess
        /\ at[r] \in {"session", "record"}
    BY <2>1 DEF InSession, Ground, MidSession, RecordsBacked, Copies
  <2>3. Current(r) \notin Planned
    BY <2>1, <2>2 DEF ToSkip, Ground, MidSession, RecordsBacked, Backed, Publishing, Untouched, Status
  <2>4. /\ sess'[Current(r)].status = status
        /\ \A s \in Session : s # Current(r) => sess'[s] = sess[s]
    BY <2>1, <2>2, GroundTypes DEF Amended
  <2>5. work'[r].cursor = work[r].cursor /\ work'[r].outcome = work[r].outcome
    BY <2>1, GroundTypes DEF Local
  <2>6. Tally(r)
    BY <2>2 DEF Publishing, Knows
  <2>7. Tally(r)'
    BY <1>1, <2>2, <2>4, <2>5, <2>6 DEF Tally, Current, Session
  <2>8. Untouched'
    BY <1>1, <2>1, <2>2, <2>3, <2>4 DEF Publishing, Untouched, Status
  <2> QED
    BY <1>1, <2>2, <2>7, <2>8, OnlyOne DEF Knows
<1> QED
  BY <1>2, <1>3 DEF SaveUnanswered

(* A session concluded leaves the outcomes of the others.                  *)
LEMMA Concluding ==
  ASSUME Ground, NEW r \in Run, NEW o, Conclude(r, o)
  PROVE  /\ at'[r] = "record" /\ work'[r].cursor = work[r].cursor
         /\ \A s \in Session : s # Current(r) => work'[r].outcome[s] = work[r].outcome[s]
<1>1. work[r] \in Local /\ work[r].outcome \in [Session -> Status \union {"SKIPPED"}]
  BY GroundTypes, LocalFields
<1> DEFINE f == [work[r].outcome EXCEPT ![Current(r)] = o]
<1>2. \A s \in Session : s # Current(r) => f[s] = work[r].outcome[s]
  BY <1>1
<1>3. work' = [work EXCEPT ![r] = [work[r] EXCEPT !.outcome = f]] /\ at' = [at EXCEPT ![r] = "record"]
  BY DEF Conclude, Proceed
<1> HIDE DEF f
<1>4. work'[r].cursor = work[r].cursor /\ work'[r].outcome = f
  BY <1>1, <1>3, GroundTypes DEF Local
<1> QED
  BY <1>2, <1>3, <1>4, GroundTypes

(* Between the two saves the records stay as they are.                     *)
LEMMA ProcessingKeeps ==
  ASSUME Ground, Publishing, NEW r \in Run,
         SetAside(r) \/ BeginRows(r) \/ FinishRows(r) \/ FailSession(r)
  PROVE  Publishing'
<1>1. /\ pc[r] = "syncing" /\ at[r] \in {"process", "rows"} /\ at'[r] \in {"rows", "record"}
      /\ UNCHANGED <<sess, control, pc>>
  BY GroundTypes DEF SetAside, BeginRows, FinishRows, FailSession, Conclude, Proceed, leaseVars, bookVars
<1>2. Current(r) \in Session
  BY <1>1 DEF Ground, MidSession
<1>3. CASE BeginRows(r)
  <2>1. at'[r] = "rows" /\ work'[r].cursor = work[r].cursor /\ work'[r].outcome = work[r].outcome
    BY <1>3, GroundTypes DEF BeginRows, Proceed, Local
  <2> QED
    BY <1>1, <2>1, OnlyOne DEF Publishing, Untouched, Knows, Tally, Current
<1>4. CASE SetAside(r) \/ FinishRows(r) \/ FailSession(r)
  <2>1. PICK o : Conclude(r, o)
    BY <1>4 DEF SetAside, FinishRows, FailSession
  <2>2. /\ at'[r] = "record" /\ work'[r].cursor = work[r].cursor
        /\ \A s \in Session : s # Current(r) => work'[r].outcome[s] = work[r].outcome[s]
    BY <2>1, Concluding
  <2>3. Tally(r)
    BY <1>1 DEF Publishing, Knows
  <2>4. Tally(r)'
    BY <1>1, <1>2, <2>2, <2>3 DEF Tally, Current, Session
  <2> QED
    BY <1>1, <2>2, <2>4, OnlyOne DEF Publishing, Untouched, Knows
<1> QED
  BY <1>3, <1>4

-----------------------------------------------------------------------------
(* After the loop: Control, the ranking, and the verification.             *)
LEMMA ReconcileKeeps ==
  ASSUME Ground, Publishing, NEW r \in Run, Reconcile(r)
  PROVE  Publishing'
<1>1. /\ pc[r] = "syncing" /\ at[r] = "session" /\ Current(r) > N
      /\ at'[r] = "ranking" /\ UNCHANGED <<sess, pc>>
      /\ work'[r].cursor = work[r].cursor /\ work'[r].outcome = work[r].outcome
  BY GroundTypes DEF Reconcile, Proceed, leaseVars, Local
<1>2. Tally(r)'
  BY <1>1 DEF Publishing, Knows, Tally, Current
<1>3. CASE \E shown \in [Session -> {"pending", "present", "missing"}] :
             control' = [s \in Session |->
               [status |-> IF work[r].copy[s].status = "NEW" THEN control[s].status
                           ELSE work[r].copy[s].status,
                shown |-> shown[s]]]
  <2>1. \A s \in Session :
          control'[s].status = IF sess[s].status = "NEW" THEN control[s].status ELSE sess[s].status
    BY <1>1, <1>3 DEF Ground, RecordsBacked, Copies
  <2>2. Untouched' /\ Reported'
    BY <1>1, <2>1 DEF Publishing, Untouched, Reported
  <2> QED
    BY <1>1, <1>2, <2>2, OnlyOne DEF Knows, Current
<1>4. CASE UNCHANGED control /\ work' = [work EXCEPT ![r].failing = TRUE]
  <2>1. work'[r].failing
    BY <1>4, GroundTypes DEF Local
  <2> QED
    BY <1>1, <1>2, <1>4, <2>1, OnlyOne DEF Publishing, Untouched, Knows, Current
<1> QED
  BY <1>3, <1>4 DEF Reconcile

(* The ranking is computed and written.                                    *)
LEMMA RankKeeps ==
  ASSUME Ground, Publishing, NEW r \in Run, Rank(r)
  PROVE  Publishing'
<1>1. /\ pc[r] = "syncing" /\ at[r] = "ranking" /\ at'[r] = "check"
      /\ UNCHANGED <<sess, rows, control, pc>>
      /\ work'[r].cursor = work[r].cursor /\ work'[r].outcome = work[r].outcome
  BY GroundTypes DEF Rank, Proceed, leaseVars, Local
<1>2. Tally(r)' /\ Untouched' /\ Current(r)' > N
  BY <1>1 DEF Publishing, Untouched, Knows, Tally, Current
<1>3. CASE ranking' = [of |-> Ranked(r), whole |-> TRUE] /\ UNCHANGED work
  <2>1. Totalled'
    BY <1>1, <1>3 DEF Totalled, Ranked, Ground, RecordsBacked, Copies
  <2>2. work'[r].failing \/ Reported'
    BY <1>1, <1>3 DEF Publishing, Knows, Reported
  <2> QED
    BY <1>1, <1>2, <2>1, <2>2, OnlyOne DEF Knows
<1>4. CASE work' = [work EXCEPT ![r].failing = TRUE]
  <2>1. work'[r].failing
    BY <1>4, GroundTypes DEF Local
  <2> QED
    BY <1>1, <1>2, <2>1, OnlyOne DEF Knows
<1> QED
  BY <1>3, <1>4 DEF Rank

(* A sync is accepted when no session was left failed or in review and     *)
(* nothing was collected: then all of them are finished.                   *)
LEMMA VerifyKeeps ==
  ASSUME Ground, Publishing, NEW r \in Run, PassVerify(r)
  PROVE  Publishing'
<1>1. /\ pc[r] = "syncing" /\ at[r] = "check" /\ ~SyncFailed(r)
      /\ pc'[r] = "verified" /\ at'[r] = "pilot"
      /\ \A q \in Run : q # r => pc'[q] = pc[q]
      /\ UNCHANGED <<sess, rows, control, ranking>>
  BY GroundTypes DEF PassVerify, Verify, Goto, Proceed, bookVars
<1>2. Reported /\ Totalled
  BY <1>1 DEF SyncFailed, Publishing, Knows
<1>3. Concluded
  <2> SUFFICES ASSUME NEW s \in Session
               PROVE  sess[s].status \notin {"FAILED", "NEEDS_REVIEW", "PROCESSING"}
    BY DEF Concluded
  <2>1. work[r].outcome[s] \in Status \union {"SKIPPED"} /\ work[r].cursor \in 1 .. N + 1
    BY LocalFields, GroundTypes
  <2>2. Tally(r) /\ s < Current(r)
    BY <1>1, <2>1, SessionAssumption DEF Publishing, Knows, Session, Current
  <2> QED
    BY <1>1, <2>1, <2>2 DEF Tally, SyncFailed, Status
<1>4. Knows(r)'
  BY <1>1, <1>2, <1>3 DEF Knows, Reported, Totalled, Concluded
<1> QED
  BY <1>1, <1>4, OnlyOne DEF Publishing, Untouched

-----------------------------------------------------------------------------
(* The pilot and the two sheets.                                           *)
LEMMA ReadKeeps ==
  ASSUME Ground, Publishing, NEW r \in Run, ReadPilot(r)
  PROVE  Publishing'
<1>1. /\ pc[r] = "verified" /\ UNCHANGED <<sess, rows, control, ranking, pc>>
      /\ work'[r].draft = [s \in Session |->
           [status |-> control[s].status,
            rev |-> IF control[s].status = "PROCESSED" THEN rows[s].rev ELSE 0]]
  BY GroundTypes DEF ReadPilot, leaseVars, bookVars, Local
<1>2. Concluded /\ Reported /\ Totalled
  BY <1>1 DEF Publishing, Knows
<1>3. Drafted(r)'
  <2> SUFFICES ASSUME NEW s \in Session
               PROVE  /\ sess'[s].status # "NEW" => work'[r].draft[s].status = sess'[s].status
                      /\ work'[r].draft[s].status = "PROCESSED" =>
                           rows'[s].whole /\ rows'[s].rev = work'[r].draft[s].rev
    BY DEF Drafted
  <2>1. sess[s].status # "NEW" => control[s].status = sess[s].status
    BY <1>2 DEF Reported
  <2>2. control[s].status = "PROCESSED" => sess[s].status = "PROCESSED"
    BY <2>1 DEF Publishing, Untouched
  <2>3. sess[s].status = "PROCESSED" => rows[s].whole
    BY DEF Ground, RecordsBacked, ProcessedRowsWhole
  <2> QED
    BY <1>1, <2>1, <2>2, <2>3
<1>4. Knows(r)'
  BY <1>1, <1>2, <1>3 DEF Knows, Concluded, Reported, Totalled
<1> QED
  BY <1>1, <1>4, OnlyOne DEF Publishing, Untouched

(* An operational sheet is written.                                        *)
LEMMA PublishKeeps ==
  ASSUME Ground, Publishing, NEW r \in Run, PublishSummary(r) \/ PublishIndividual(r)
  PROVE  Publishing'
<1>1. /\ pc[r] = "verified" /\ at[r] \in {"summary", "individual"}
      /\ UNCHANGED <<sess, rows, control, ranking, pc, work>>
  BY DEF PublishSummary, PublishIndividual, leaseVars
<1>2. Knows(r)'
  BY <1>1 DEF Publishing, Knows, Tally, Concluded, Reported, Totalled, Drafted, Current
<1> QED
  BY <1>1, <1>2, OnlyOne DEF Publishing, Untouched

(* Every step keeps what the invocations know.                             *)
LEMMA PublishingKept == Ground /\ Publishing /\ [Next]_vars => Publishing'
<1> SUFFICES ASSUME Ground, Publishing, [Next]_vars PROVE Publishing'
  OBVIOUS
<1>1. ASSUME NEW r \in Run,
             Progress(r) \/ FailSession(r) \/ SaveUnanswered(r) \/ Abort(r) \/ Crash(r)
      PROVE  Publishing'
  BY <1>1, LeaseCalls, DiscoverKeeps, SkipKeeps, MarkKeeps, RecordKeeps, UnansweredKeeps,
     ProcessingKeeps, ReconcileKeeps, RankKeeps, VerifyKeeps, ReadKeeps, PublishKeeps DEF Progress
<1>2. ASSUME UNCHANGED <<bookVars, pc, at, work>> PROVE Publishing'
  BY <1>2 DEF bookVars, Publishing, Untouched, Knows, Tally, Concluded, Reported, Totalled,
              Drafted, Current
<1>3. CASE PassTime \/ (\E s \in Session : Upload(s)) \/ UNCHANGED vars
  BY <1>2, <1>3 DEF PassTime, Tick, Upload, vars, leaseVars
<1> QED
  BY <1>1, <1>3 DEF Next

(* What an invocation knows of the workbook, it knows throughout.          *)
LEMMA PublishingHolds == Isolated => (Spec => [](Ground /\ Publishing))
  BY PublishingInit, PublishingKept, GroundHolds, PTL DEF Spec

-----------------------------------------------------------------------------
(* When _sync and lease.verify() have passed, the sheet Ranking holds the  *)
(* rows of the sessions that are PROCESSED and of no other.                *)
THEOREM RankingAgrees == Isolated => (Spec => []RankingFollowsState)
<1>1. Publishing => RankingFollowsState
  BY DEF Publishing, Knows, Totalled, RankingFollowsState
<1> QED
  BY <1>1, PublishingHolds, PTL

(* The sheets are written by the publishing calls of one run, which has    *)
(* been verified.                                                          *)
LEMMA Publishers ==
  ASSUME [Next]_vars, <<summary, individual>>' # <<summary, individual>>
  PROVE  \E r \in Run : pc[r] = "verified" /\ (PublishSummary(r) \/ PublishIndividual(r))
<1>1. ASSUME NEW r \in Run,
             Progress(r) \/ FailSession(r) \/ SaveUnanswered(r) \/ Abort(r) \/ Crash(r)
      PROVE  PublishSummary(r) \/ PublishIndividual(r)
  BY <1>1 DEF Progress, bookVars, sheetVars, StartRun, SaveLease, ConfirmLease, Discover,
       SkipSession, MarkProcessing, SetAside, BeginRows, FinishRows, RecordOutcome, Reconcile,
       Rank, PassVerify, ReadPilot, Finish, StartRelease, SaveRelease, FailSession,
       SaveUnanswered, Abort, Crash
<1>2. ~(PassTime \/ (\E s \in Session : Upload(s)) \/ UNCHANGED vars)
  BY DEF PassTime, Upload, vars, bookVars
<1>3. PICK r \in Run : PublishSummary(r) \/ PublishIndividual(r)
  BY <1>1, <1>2 DEF Next
<1> QED
  BY <1>3 DEF PublishSummary, PublishIndividual

(* run_main's "se conserva la vista operacional anterior": while a session *)
(* is FAILED, in review or in the middle of its processing, no step of any *)
(* invocation changes an operational sheet.                                *)
THEOREM FailedSyncPublishesNothing == Isolated => (Spec => FailedSyncKeepsView)
<1>1. Publishing /\ [Next]_vars =>
        [<<summary, individual>>' # <<summary, individual>> =>
           \A s \in Session : sess[s].status \notin {"FAILED", "NEEDS_REVIEW", "PROCESSING"}]_vars
  BY Publishers DEF Publishing, Knows, Concluded
<1> QED
  BY <1>1, PublishingHolds, PTL DEF Spec, FailedSyncKeepsView

(* What publish_operational writes is computed from Control and Sesiones,  *)
(* and agrees with Estado.                                                 *)
THEOREM PublishedViewAgrees == Isolated => (Spec => PublishedViewIsState)
<1> DEFINE Agrees == summary' # summary =>
             \A s \in Session :
               /\ sess[s].status # "NEW" => summary'[s].status = sess[s].status
               /\ summary'[s].status = "PROCESSED" => rows[s].whole /\ rows[s].rev = summary'[s].rev
<1>1. Publishing /\ [Next]_vars => [Agrees]_vars
  <2> SUFFICES ASSUME Publishing, [Next]_vars, summary' # summary PROVE Agrees
    OBVIOUS
  <2>1. PICK r \in Run : pc[r] = "verified" /\ (PublishSummary(r) \/ PublishIndividual(r))
    BY Publishers
  <2>2. at[r] = "summary" /\ summary' = work[r].draft
    BY <2>1 DEF PublishSummary, PublishIndividual
  <2>3. Drafted(r)
    BY <2>1, <2>2 DEF Publishing, Knows
  <2> QED
    BY <2>2, <2>3 DEF Drafted
<1> QED
  BY <1>1, PublishingHolds, PTL DEF Spec, PublishedViewIsState
=============================================================================
