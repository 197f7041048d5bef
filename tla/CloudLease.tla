------------------------------ MODULE CloudLease ------------------------------
(***************************************************************************)
(* The run lease of eira-run.                                              *)
(*                                                                         *)
(* Every invocation of eira-run guards itself with a lease kept INSIDE the *)
(* JSON document of the sheet "Estado".  The document is read and written  *)
(* whole: there is no compare-and-set, so a writer puts back whatever      *)
(* lease its own copy of the document holds.  Between two API calls any    *)
(* other invocation may move, and any invocation may die.  A save whose    *)
(* answer is lost (429, 5xx) is sent again a second or two later, with the *)
(* same document, whatever has become of the stored one in between.        *)
(*                                                                         *)
(* Only the lease half of the document is modelled here; EiraRun adds the  *)
(* session records and the sheets, and implements this module.             *)
(***************************************************************************)
EXTENDS Naturals

CONSTANTS
  Run,      (* Slots in which a scheduler starts eira-run, again and again. *)
  Timeout,  (* Ticks a lease lives (timeout_seconds = 900 in the code).     *)
  Nobody,   (* Owner of the absent lease.                                   *)
  Ended,    (* run_id of any invocation that is over; nobody answers to it. *)
  Overlap,  (* May two invocations be between load and confirm at once?     *)
  LateRelease, (* May one acquire while the save of a release is sent?      *)
  Overrun   (* May an invocation outlive its own lease?                     *)

ASSUME TimeoutAssumption == Timeout \in Nat \ {0}
ASSUME OwnerAssumption == Nobody \notin Run /\ Ended \notin Run /\ Nobody # Ended
ASSUME FlagAssumption == {Overlap, LateRelease, Overrun} \subseteq BOOLEAN

VARIABLES
  stored,   (* The lease in the Estado document.                            *)
  snap,     (* snap[r]: the lease in the copy of the document r will write. *)
  due,      (* History: time left of the lease r itself created.            *)
  pc        (* pc[r]: which call of run_main comes next.                    *)

leaseVars == <<stored, snap, due, pc>>

Step == {"idle", "loaded", "saved", "held", "syncing", "verified", "leaving", "releasing"}

(* Time is relative: `left' is expires_at - time.time(), floored at zero.  *)
Lease == [owner : Run \union {Nobody, Ended}, left : 0 .. Timeout]
NoLease == [owner |-> Nobody, left |-> 0]
NewLeaseTooLong(r) == [owner |-> r, left |-> Timeout + 1]        \* mutant
NewLease(r) == [owner |-> r, left |-> Timeout]
Active(l) == l.left > 0

Before(n) == IF n > 0 THEN n - 1 ELSE 0
Aged(l) == [l EXCEPT !.left = Before(@)]

(* A run_id is a fresh uuid4: once r's invocation is over, the copies of   *)
(* its lease that remain belong to no later invocation of the slot.        *)
Disowned(l, r) == [l EXCEPT !.owner = IF @ = r THEN Ended ELSE @]

Goto(r, step) == pc' = [pc EXCEPT ![r] = step]

(* The invocation is over; `doc' is the lease the document is left with.   *)
Over(r, doc) ==
  /\ stored' = Disowned(doc, r)
  /\ snap' = [q \in Run |-> IF q = r THEN NoLease ELSE Disowned(snap[q], r)]
  /\ due' = [due EXCEPT ![r] = 0]
  /\ Goto(r, "idle")

LeaseInit ==
  /\ stored = NoLease
  /\ snap = [r \in Run |-> NoLease]
  /\ due = [r \in Run |-> 0]
  /\ pc = [r \in Run |-> "idle"]

(* What the environment is assumed to keep apart, if the flags say so.     *)
MayAcquire ==
  \A q \in Run :
    /\ pc[q] \in {"loaded", "saved"} => Overlap
    /\ pc[q] = "releasing" => LateRelease

-----------------------------------------------------------------------------
AcquireUnchecked(r) ==                                           \* mutant
  /\ pc[r] = "idle"
  /\ MayAcquire
  /\ snap' = [snap EXCEPT ![r] = NewLease(r)]
  /\ due' = [due EXCEPT ![r] = Timeout]
  /\ Goto(r, "loaded")
  /\ UNCHANGED stored

(* acquire: load and check.  An active lease is refused (the invocation    *)
(* stops having changed nothing, a stuttering step); otherwise the new     *)
(* lease goes into the copy.                                               *)
AcquireLoad(r) ==
  /\ pc[r] = "idle"
  /\ MayAcquire
  /\ ~Active(stored)
  /\ snap' = [snap EXCEPT ![r] = NewLease(r)]
  /\ due' = [due EXCEPT ![r] = Timeout]
  /\ Goto(r, "loaded")
  /\ UNCHANGED stored

(* acquire: save the whole document.                                       *)
AcquireSave(r) ==
  /\ pc[r] = "loaded"
  /\ stored' = snap[r]
  /\ Goto(r, "saved")
  /\ UNCHANGED <<snap, due>>

(* acquire: read back.  A lease overwritten meanwhile raises, and since    *)
(* `acquired' is still false nothing is released.                          *)
AcquireConfirm(r) ==
  /\ pc[r] = "saved"
  /\ \/ /\ stored.owner = r
        /\ Goto(r, "held")
        /\ UNCHANGED <<stored, snap, due>>
     \/ /\ stored.owner # r
        /\ Over(r, stored)

RunnerLoadRenewing(r) ==                                         \* mutant
  /\ pc[r] = "held"
  /\ snap' = [snap EXCEPT ![r] = NewLease(r)]
  /\ Goto(r, "syncing")
  /\ UNCHANGED <<stored, due>>

(* ProgramRunner.run loads its only copy of the document.                  *)
RunnerLoad(r) ==
  /\ pc[r] = "held"
  /\ snap' = [snap EXCEPT ![r] = stored]
  /\ Goto(r, "syncing")
  /\ UNCHANGED <<stored, due>>

StateSaveRenewing(r) ==                                          \* mutant
  /\ pc[r] = "syncing"
  /\ stored' = NewLease(r)
  /\ UNCHANGED <<snap, due, pc>>

(* ProgramRunner saves that copy twice per processed session.              *)
StateSave(r) ==
  /\ pc[r] = "syncing"
  /\ stored' = snap[r]
  /\ UNCHANGED <<snap, due, pc>>

VerifyIgnoringTime(r) ==                                         \* mutant
  /\ pc[r] = "syncing"
  /\ stored.owner = r
  /\ Goto(r, "verified")
  /\ UNCHANGED <<stored, snap, due>>

(* lease.verify(), once, between the sync and the pilot.                   *)
Verify(r) ==
  /\ pc[r] = "syncing"
  /\ stored.owner = r /\ Active(stored)
  /\ Goto(r, "verified")
  /\ UNCHANGED <<stored, snap, due>>

(* The body of run_main ends, normally or by an exception (a failed        *)
(* verification included), and its finally clause releases.                *)
Leave(r) ==
  /\ pc[r] \in {"held", "syncing", "verified"}
  /\ Goto(r, "leaving")
  /\ UNCHANGED <<stored, snap, due>>

(* release: load; only the owner goes on to write.                         *)
ReleaseLoad(r) ==
  /\ pc[r] = "leaving"
  /\ \/ /\ stored.owner = r
        /\ snap' = [snap EXCEPT ![r] = NoLease]
        /\ Goto(r, "releasing")
        /\ UNCHANGED <<stored, due>>
     \/ /\ stored.owner # r
        /\ Over(r, stored)

(* release: save the copy without a lease.                                 *)
ReleaseSave(r) ==
  /\ pc[r] = "releasing"
  /\ Over(r, snap[r])

(* A save takes effect and its answer does not come: the whole document is *)
(* written, and the invocation is where it was, about to send it again.    *)
LoseAnswer(r) ==
  /\ pc[r] \in {"loaded", "syncing", "releasing"}
  /\ stored' = snap[r]
  /\ UNCHANGED <<snap, due, pc>>

(* The process dies, an API call of acquire raises, or the release itself  *)
(* fails: in each case the document keeps the lease it has.                *)
Die(r) ==
  /\ pc[r] # "idle"
  /\ Over(r, stored)

Tick ==
  /\ \/ Active(stored)
     \/ \E r \in Run : Active(snap[r]) \/ due[r] > 0
  /\ Overrun \/ \A r \in Run : pc[r] # "idle" => due[r] > 1
  /\ stored' = Aged(stored)
  /\ snap' = [r \in Run |-> Aged(snap[r])]
  /\ due' = [r \in Run |-> Before(due[r])]
  /\ UNCHANGED pc

LeaseNext ==
  \/ \E r \in Run :
       \/ AcquireLoad(r) \/ AcquireSave(r) \/ AcquireConfirm(r)
       \/ RunnerLoad(r) \/ StateSave(r) \/ Verify(r) \/ Leave(r)
       \/ ReleaseLoad(r) \/ ReleaseSave(r) \/ LoseAnswer(r) \/ Die(r)
  \/ Tick

LeaseSpec == LeaseInit /\ [][LeaseNext]_leaseVars

(* The only thing that must go on is the clock.                            *)
FairLeaseSpec == LeaseSpec /\ WF_leaseVars(Tick)

-----------------------------------------------------------------------------
LeaseTypeOK ==
  /\ stored \in Lease
  /\ snap \in [Run -> Lease]
  /\ due \in [Run -> 0 .. Timeout]
  /\ pc \in [Run -> Step]

Confirmed(r) == pc[r] \in {"held", "syncing", "verified", "leaving", "releasing"}

(* Two invocations never work on one workbook at the same time.  True when *)
(* acquisitions do not overlap, none begins while the save of a release is *)
(* still being sent, and runs end within their lease; the lease is then a  *)
(* lock whatever answers are lost and whoever dies (EiraRun_proofs).  Each *)
(* of the three is needed.  Without the second, the repeated save of a     *)
(* release erases the lease of whoever acquired in between.                *)
Exclusion == \A r, q \in Run : Confirmed(r) /\ Confirmed(q) => r = q

(* One invocation at a time, its acquisition and its release included, and *)
(* none longer than its lease.  Then the document holds the lease of the   *)
(* invocation that is under way, until its release has taken effect.       *)
Isolated == ~Overlap /\ ~LateRelease /\ ~Overrun

Live(r) == pc[r] # "idle"

Held ==
  \A r \in Run :
    /\ Live(r) => due[r] > 0
    /\ pc[r] = "loaded" => /\ snap[r] = [owner |-> r, left |-> due[r]]
                           /\ Active(stored) => stored = snap[r]
    /\ pc[r] = "syncing" => snap[r] = stored
    /\ pc[r] \in {"saved", "held", "syncing", "verified", "leaving"}
         => stored = [owner |-> r, left |-> due[r]]
    /\ \A q \in Run : Live(r) /\ Live(q) => r = q

(* What "Ya existe una ejecucion Eira activa para este programa" and       *)
(* tests/test_cloud_store.py:105 promise: while an invocation works and    *)
(* the lease it obtained has time left, no other invocation obtains one.   *)
Working(r) == pc[r] \in {"held", "syncing", "verified"}

ActiveExclusion ==
  \A r, q \in Run : Working(r) /\ Working(q) /\ due[r] > 0 /\ due[q] > 0 => r = q

(* However stale the copies that are written back, and however often, no   *)
(* write ever gives a lease more time than its owner obtained: wherever    *)
(* r's lease is found it has exactly the time left that r's acquisition    *)
(* has.                                                                    *)
NoRenewal ==
  \A r \in Run :
    /\ stored.owner = r => stored.left = due[r]
    /\ \A q \in Run : snap[q].owner = r => snap[q].left = due[r]

(* A run older than its lease never passes lease.verify(), so it never     *)
(* starts to publish, even if it put its own old lease back over a         *)
(* successor's by saving its copy of the document.                         *)
LateRunsNeverVerify ==
  [][\A r \in Run : pc[r] # "verified" /\ pc'[r] = "verified" => due[r] > 0]_leaseVars

(* Whatever dies and whatever stale copies are written back, the workbook  *)
(* is never locked for good: again and again a new run may acquire.        *)
NeverLockedOut == []<>(~Active(stored))
=============================================================================
