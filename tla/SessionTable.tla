----------------------------- MODULE SessionTable ------------------------------
(***************************************************************************)
(* What SessionResultsRepository.replace_session promises: the results of  *)
(* ONE session go over to the new ones, participant by participant and in  *)
(* any order, the results of every other session stay as they are, and the *)
(* call reports success only when all of them are there.  It may be given  *)
(* up at any point, leaving old and new results mixed.                     *)
(***************************************************************************)
CONSTANTS
  Session, Participant, Value,
  None    (* No result: the participant took no part in the session.       *)

Results == [Participant -> Value \union {None}]

VARIABLES
  table,    (* table[s][p]: the result of p in session s.                  *)
  job       (* The replacement under way.                                  *)

vars == <<table, job>>

Idle == [busy |-> FALSE]
Job == {Idle} \union [busy : {TRUE}, session : Session, wanted : Results]

Init == table \in [Session -> Results] /\ job = Idle

Begin(s, wanted) ==
  /\ job = Idle
  /\ job' = [busy |-> TRUE, session |-> s, wanted |-> wanted]
  /\ UNCHANGED table

Settled(some) ==
  [table EXCEPT ![job.session] =
     [p \in Participant |-> IF p \in some THEN job.wanted[p] ELSE @[p]]]

Settle(some) == job # Idle /\ table' = Settled(some) /\ UNCHANGED job

(* Giving up, possibly with a last change whose answer was lost, and       *)
(* succeeding look the same from here; SuccessIsComplete of SessionSheet   *)
(* tells them apart.                                                       *)
End(some) == job # Idle /\ table' = Settled(some) /\ job' = Idle

Next ==
  \/ \E s \in Session, wanted \in Results : Begin(s, wanted)
  \/ \E some \in SUBSET Participant : Settle(some) \/ End(some)

Spec == Init /\ [][Next]_vars
=============================================================================
