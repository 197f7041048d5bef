-------------------------------- MODULE Program --------------------------------
(***************************************************************************)
(* What one program makes of its evidence: the events of a session are     *)
(* resolved to people, classified and added up to scores; the scores of    *)
(* the PROCESSED sessions are ranked; and the pilot turns statuses, scores *)
(* and people into alerts.  People made up on the way are written before   *)
(* the scores and stay when the scores cannot be written.                  *)
(*                                                                         *)
(* One invocation at a time; what two of them, or evidence that changes    *)
(* under one, do to the sheets is the subject of EiraRun.                  *)
(***************************************************************************)
EXTENDS ProgramRanking, Pilot

CONSTANTS
  Modes,         (* Participant modes of the program: auto, import, official. *)
  Roster,        (* Participantes in the modes with a roster.               *)
  Bounds,        (* Bounds[n]: enrollment of the roster's person named n.   *)
  Versions,      (* Versions[s]: what the evidence of s is, one after another. *)
  Attendance,    (* Attendance tables: records [configured, rules, facts].  *)
  AppendTimes,   (* How often a retried append may be applied.              *)
  MaxFaults,     (* Bound: failed calls and deaths of the process.          *)
  MaxChanges     (* Bound: participants given another role.                 *)

ASSUME ProgramAssumption ==
  /\ Session = Term
  /\ Modes \subseteq {"auto", "import", "official"}
  /\ AppendTimes \subseteq {1, 2} /\ MaxFaults \in Nat
  /\ MaxChanges \in Nat

(* What the constants are made of.  Who is made up from a name gets an id  *)
(* of its own (see NewPerson).                                             *)
Event ==
  [name : Name, system : BOOLEAN, channel : {"voice", "chat"}, doubtful : BOOLEAN,
   text : {"substantive", "phrase"}]
Artefact == [kind : {"transcript", "chat"}, readable : BOOLEAN, events : Seq(Event)]
Someone ==
  [id : Participant, name : Name, mail : Nat, aliases : SUBSET Name,
   role : {"participant", "facilitator", "other"}]

ASSUME EvidenceAssumption ==
  /\ \A s \in Term : Versions[s] \in Seq([unclear : BOOLEAN, files : Seq(Artefact)])
  /\ Roster \in Seq(Someone)
  /\ Bounds \in [Name -> [valid : BOOLEAN, first : Nat, last : Nat]]
  /\ \A name \in Lettered \ External : 10 * name \in Participant
  /\ NoMail \in Nat
  /\ \A table \in Attendance : IsFiniteSet(table.facts)

VARIABLES
  mode,
  evidence,     (* evidence[s]: the current version; 0 before the first.    *)
  people,       (* The rows of Participantes.                               *)
  state,        (* Estado: the record of every session.                     *)
  results,      (* Sesiones: a set of results.                              *)
  run,          (* Local variables of the invocation.                       *)
  faults, changes

programVars == <<mode, evidence, people, state, results, run, faults, changes>>
vars == <<programVars, rankingVars>>

Outcome == {"PROCESSED", "INCOMPLETE", "NEEDS_REVIEW", "FAILED"}
Idle == [at |-> "idle"]

Init ==
  /\ mode \in Modes
  /\ evidence = [s \in Term |-> 0]
  /\ people = IF mode = "auto" THEN << >> ELSE Roster
  /\ state = [s \in Term |-> [status |-> "pending", files |-> 0]]
  /\ results = {}
  /\ run = Idle
  /\ faults = 0 /\ changes = 0
  /\ RankingInit

-----------------------------------------------------------------------------
(* Evidence.  A version is [unclear, files]; a file [kind, readable,       *)
(* events]; an event [name, system, channel, doubtful, text].              *)
Version(s, v) ==
  IF v = 0 THEN [unclear |-> FALSE, files |-> << >>] ELSE Versions[s][v]

(* _parse leaves out what no parser takes and what does not parse.         *)
Parsed(version) == Picked(version.files, {i \in DOMAIN version.files : version.files[i].readable})
OfKind(files, kind) == Cardinality({i \in DOMAIN files : files[i].kind = kind})

(* Several valid artefacts of a kind are a review where they were found by *)
(* discovery: all of them here.                                            *)
EarlyOutcome(version) ==
  LET files == Parsed(version)
      transcripts == OfKind(files, "transcript")
      chats == OfKind(files, "chat")
  IN  IF version.unclear THEN "NEEDS_REVIEW"
      ELSE IF transcripts = 0 \/ chats = 0 THEN "INCOMPLETE"
      ELSE IF transcripts > 1 \/ chats > 1 THEN "NEEDS_REVIEW"
      ELSE "none"

Events(version) == FlattenSeq([i \in DOMAIN Parsed(version) |-> Parsed(version)[i].events])

(* classify_event: a doubtful context is ambiguous whatever the text.      *)
Classify(event) ==
  IF event.doubtful THEN "AMBIGUOUS"
  ELSE IF event.text = "substantive" THEN "COUNT"
  ELSE "NO_COUNT"

HalfPoints(event) ==
  IF Classify(event) # "COUNT" THEN 0 ELSE IF event.channel = "voice" THEN 2 ELSE 1

ResolveAgainstSheet(sofar, event) ==                              \* mutant
  LET resolved == ResolveEvent(people, mode, event)
      person == resolved.people[resolved.row]
  IN  CASE resolved.status = "IGNORED" -> sofar
        [] resolved.status = "NEEDS_REVIEW" -> [sofar EXCEPT !.reviews = @ + 1]
        [] resolved.status = "RESOLVED" ->
             [sofar EXCEPT !.people = IF resolved.people = people THEN @ ELSE Append(@, person),
                !.kept = IF person.role = "participant"
                         THEN Append(@, [id |-> person.id, event |-> event]) ELSE @]

(* The loop over the events of a session.  Identities to review are kept   *)
(* apart, outsiders and other roles only counted.                          *)
ResolveNext(sofar, event) ==
  LET resolved == ResolveEvent(sofar.people, mode, event)
      person == resolved.people[resolved.row]
  IN  CASE resolved.status = "IGNORED" -> sofar
        [] resolved.status = "NEEDS_REVIEW" -> [sofar EXCEPT !.reviews = @ + 1]
        [] resolved.status = "RESOLVED" ->
             [sofar EXCEPT !.people = resolved.people,
                !.kept = IF person.role = "participant"
                         THEN Append(@, [id |-> person.id, event |-> event]) ELSE @]

ResolveAll(events) ==
  FoldLeft(ResolveNext, [people |-> people, kept |-> << >>, reviews |-> 0], events)

(* score_events: one accumulator for every participant with an event.      *)
Own(kept, id) == Picked(kept, {k \in DOMAIN kept : kept[k].id = id})

Total(own) == FoldLeft(LAMBDA sum, k : sum + HalfPoints(k.event), 0, own)
Certain(own) == \A k \in DOMAIN own : Classify(own[k].event) # "AMBIGUOUS"

ScoreAnyChannel(s, kept) ==                                       \* mutant
  {[session |-> s, id |-> id, active |-> TRUE, score |-> 2 * Len(Own(kept, id)),
    complete |-> Certain(Own(kept, id))] :
     id \in {kept[k].id : k \in DOMAIN kept}}

Scores(s, kept) ==
  {[session |-> s, id |-> id, active |-> TRUE, score |-> Total(Own(kept, id)),
    complete |-> Certain(Own(kept, id))] :
     id \in {kept[k].id : k \in DOMAIN kept}}

-----------------------------------------------------------------------------
(* Evidence is added or replaced in Drive between invocations.             *)
Upload(s) ==
  /\ run = Idle
  /\ evidence[s] < Len(Versions[s])
  /\ evidence' = [evidence EXCEPT ![s] = @ + 1]
  /\ UNCHANGED <<mode, people, state, results, run, faults, changes, rankingVars>>

(* Somebody makes a participant something else, in Participantes.  No      *)
(* session is processed again for that.                                    *)
Reassign(i) ==
  /\ run = Idle
  /\ changes < MaxChanges
  /\ changes' = changes + 1
  /\ people[i].role = "participant"
  /\ people' = [people EXCEPT ![i].role = "facilitator"]
  /\ UNCHANGED <<mode, evidence, state, results, run, faults, rankingVars>>

(* The ranking is computed in local variables.                             *)
ClearRanking ==
  /\ read' = {}
  /\ totals' = [p \in Participant |-> Nothing]
  /\ excluded' = [p \in Participant |-> 0]

Leave == run' = Idle /\ ClearRanking

StartRun ==
  /\ run = Idle
  /\ run' = [at |-> "session", session |-> 1, failing |-> FALSE]
  /\ UNCHANGED <<mode, evidence, people, state, results, faults, changes, rankingVars>>

ToNext(failing) ==
  run' = IF run.session < N
         THEN [at |-> "session", session |-> run.session + 1, failing |-> failing]
         ELSE [at |-> "load", failing |-> failing]

Record(s, status) == [state EXCEPT ![s] = [status |-> status, files |-> evidence[s]]]

(* _decision: a failed, reviewed or interrupted session is tried again.    *)
Settled(s) ==
  state[s].status \in {"PROCESSED", "INCOMPLETE"} /\ state[s].files = evidence[s]

SkipSession ==
  /\ run.at = "session"
  /\ Settled(run.session)
  /\ ToNext(run.failing)
  /\ UNCHANGED <<mode, evidence, people, state, results, faults, changes, rankingVars>>

(* A session that ends before anything of it is written: no rows, no new   *)
(* people.  Reviews are errors of the run, incomplete evidence is not.     *)
EndEarly ==
  LET s == run.session
      version == Version(s, evidence[s])
      early == EarlyOutcome(version)
      status == IF early # "none" THEN early ELSE "NEEDS_REVIEW"
  IN  /\ run.at = "session"
      /\ ~Settled(s)
      /\ early # "none" \/ ResolveAll(Events(version)).reviews > 0
      /\ state' = Record(s, status)
      /\ ToNext(run.failing \/ status = "NEEDS_REVIEW")
      /\ UNCHANGED <<mode, evidence, people, results, faults, changes, rankingVars>>

(* PROCESSING is durable; the events are resolved in memory.               *)
Process ==
  LET s == run.session
      version == Version(s, evidence[s])
      resolved == ResolveAll(Events(version))
  IN  /\ run.at = "session"
      /\ ~Settled(s)
      /\ EarlyOutcome(version) = "none" /\ resolved.reviews = 0
      /\ state' = Record(s, "PROCESSING")
      /\ run' = [at |-> "people", session |-> s, failing |-> run.failing,
                 created |-> SubSeq(resolved.people, Len(people) + 1, Len(resolved.people)),
                 scores |-> Scores(s, resolved.kept)]
      /\ UNCHANGED <<mode, evidence, people, results, faults, changes, rankingVars>>

(* participant_repository.upsert.                                          *)
AddPeople ==
  /\ run.at = "people"
  /\ \E n \in AppendTimes :
       people' = people \o run.created \o (IF n = 2 THEN run.created ELSE << >>)
  /\ run' = [run EXCEPT !.at = "scores"]
  /\ UNCHANGED <<mode, evidence, state, results, faults, changes, rankingVars>>

(* replace_session, whole; SessionSheet takes it apart.                    *)
Others(s) == {r \in results : r.session # s}

WriteScores ==
  /\ run.at = "scores"
  /\ results' = Others(run.session) \union run.scores
  /\ state' = Record(run.session, "PROCESSED")
  /\ ToNext(run.failing)
  /\ UNCHANGED <<mode, evidence, people, faults, changes, rankingVars>>

(* Either call fails for good, perhaps after it was applied: FAILED.  The  *)
(* people it added stay.                                                   *)
Fail ==
  /\ run.at \in {"people", "scores"}
  /\ faults < MaxFaults
  /\ faults' = faults + 1
  /\ people' \in {people} \union (IF run.at = "people" THEN {people \o run.created} ELSE {})
  /\ results' \in {results} \union
       (IF run.at = "scores" THEN {Others(run.session) \union run.scores} ELSE {})
  /\ state' = Record(run.session, "FAILED")
  /\ ToNext(TRUE)
  /\ UNCHANGED <<mode, evidence, changes, rankingVars>>

(* The process dies: PROCESSING stays, and is tried again.                 *)
Die ==
  /\ run # Idle
  /\ faults < MaxFaults
  /\ faults' = faults + 1
  /\ Leave
  /\ UNCHANGED <<mode, evidence, people, state, results, changes>>

-----------------------------------------------------------------------------
IsProcessed(s) == state[s].status = "PROCESSED"

LoadWhateverIsThere ==                                            \* mutant
  /\ run.at = "load"
  /\ run' = [at |-> "rank", failing |-> run.failing, left |-> results]
  /\ UNCHANGED <<mode, evidence, people, state, results, faults, changes, rankingVars>>

(* Only the rows of sessions now PROCESSED are ranked: what an earlier,    *)
(* since replaced, success left in Sesiones is not.                        *)
LoadScores ==
  /\ run.at = "load"
  /\ run' = [at |-> "rank", failing |-> run.failing,
             left |-> {r \in results : IsProcessed(r.session)}]
  /\ UNCHANGED <<mode, evidence, people, state, results, faults, changes, rankingVars>>

Book ==
  [status |-> [s \in Term |-> state[s].status],
   rows |-> results,
   people |-> people,
   bounds |-> [n \in Name |-> IF mode = "auto" THEN [valid |-> TRUE, first |-> 1, last |-> 0]
                              ELSE Bounds[n]]]

(* The rows of a session stand together, in the order of the ids; the      *)
(* sessions in the order they were last written in, any order here.        *)
Foremost(r) == \A other \in run.left : other.session = r.session => other.id >= r.id
Begun(s) == (\E r \in read : r.session = s) /\ \E r \in run.left : r.session = s

AddResult ==
  /\ run.at = "rank"
  /\ \E r \in run.left :
       /\ Foremost(r)
       /\ (\E s \in Term : Begun(s)) => Begun(r.session)
       /\ Take(r, {people[i].id : i \in Followed(Book)})
       /\ run' = [run EXCEPT !.left = @ \ {r}]
  /\ UNCHANGED <<mode, evidence, people, state, results, faults, changes>>

(* run_main: a failed session, or any error, keeps the earlier view.       *)
KeepView ==
  /\ run.at = "rank" /\ run.left = {}
  /\ run.failing
  /\ Leave
  /\ UNCHANGED <<mode, evidence, people, state, results, faults, changes>>

(* PilotRunner and the operational view, unless the pilot refuses.         *)
Publish ==
  /\ run.at = "rank" /\ run.left = {}
  /\ ~run.failing
  /\ \E table \in Attendance :
       IF Refused(Book, mode = "auto" /\ table.configured, table.rules, table.facts)
       THEN Leave
       ELSE /\ run' = [at |-> "published", table |-> table, view |->
                        OperationalView(Book, AttendanceSeen(Book, table.rules, table.facts))]
            /\ UNCHANGED rankingVars
  /\ UNCHANGED <<mode, evidence, people, state, results, faults, changes>>

End ==
  /\ run.at = "published"
  /\ Leave
  /\ UNCHANGED <<mode, evidence, people, state, results, faults, changes>>

Next ==
  \/ \E s \in Term : Upload(s)
  \/ \E i \in DOMAIN people : Reassign(i)
  \/ StartRun \/ SkipSession \/ EndEarly \/ Process \/ AddPeople \/ WriteScores
  \/ LoadScores \/ AddResult \/ KeepView \/ Publish \/ End
  \/ Fail \/ Die

Spec == Init /\ [][Next]_vars
-----------------------------------------------------------------------------
TypeOK ==
  /\ RankingTypeOK
  /\ mode \in Modes /\ faults \in 0 .. MaxFaults /\ changes \in 0 .. MaxChanges
  /\ evidence \in [Term -> Nat] /\ \A s \in Term : evidence[s] <= Len(Versions[s])
  /\ \A i \in DOMAIN people : people[i].id \in Participant /\ people[i].name \in Name
  /\ \A s \in Term : state[s].status \in Outcome \union {"pending", "PROCESSING"}
  /\ results \subseteq Result
  /\ run.at = "published" =>
       /\ run.view.as_of \in Term /\ run.view.attended \in Nat
       /\ run.view.cases \subseteq
            [id : Participant, alert : {"OBSERVAR", "NORMAL", "INSUFFICIENT_DATA"}]

(* However often sessions fail, are interrupted, reviewed and tried again, *)
(* nobody is made up twice: an observed name belongs to one participant.   *)
(* (With AppendTimes = {1}: a repeated append would add the same row.)     *)
OneParticipantPerName ==
  \A i, j \in DOMAIN people : people[i].name = people[j].name => i = j

-----------------------------------------------------------------------------
(* The evidence itself: what a participant said in a session, counted      *)
(* without resolver, accumulator or sheet.                                 *)
CalledBy(person, name) ==
  LET keys == {person.name} \union person.aliases
  IN  IF mode = "import" THEN LooseKey(name) \in {LooseKey(k) : k \in keys} ELSE name \in keys

Evidence(s) == Events(Version(s, state[s].files))

Heard(person, s) ==
  LET events == Evidence(s)
  IN  {i \in DOMAIN events :
         /\ ~events[i].system /\ events[i].name \notin External
         /\ CalledBy(person, events[i].name)}

Counted(person, s, channel) ==
  LET events == Evidence(s)
  IN  {i \in Heard(person, s) :
         events[i].channel = channel /\ ~events[i].doubtful /\ events[i].text = "substantive"}

Points(person, s) ==
  2 * Cardinality(Counted(person, s, "voice")) + Cardinality(Counted(person, s, "chat"))
Doubted(person, s) ==
  LET events == Evidence(s)
  IN  \E i \in Heard(person, s) : events[i].doubtful
Spoke(person, s) == Heard(person, s) # {}

Now == {people[i].id : i \in Followed(Book)}

(* The scores of a PROCESSED session are those of its evidence: every      *)
(* participant who said anything has one row, with two half points for a   *)
(* counted intervention by voice and one by chat, and complete unless some *)
(* event was doubtful; nobody else has one, but for people who were        *)
(* participants then.  Earlier failures, people added by them and rows of  *)
(* earlier versions leave no trace.                                        *)
PointsFollowEvidence ==
  \A s \in Term : IsProcessed(s) =>
    {r \in results : r.session = s /\ r.id \in Now} =
      {[session |-> s, id |-> people[i].id, active |-> TRUE, score |-> Points(people[i], s),
        complete |-> ~Doubted(people[i], s)] :
         i \in {j \in Followed(Book) : Spoke(people[j], s)}}

(* The ranking adds up what the evidence of the sessions now PROCESSED     *)
(* shows, whatever order their rows are in: a session that failed or whose *)
(* evidence became incomplete no longer counts though its rows may still   *)
(* stand in Sesiones, and who is no participant any more is not listed.    *)
Speaking(person) == {s \in Term : IsProcessed(s) /\ Spoke(person, s)}

Summed(g, n) ==
  LET upto[s \in 0 .. n] == IF s = 0 THEN 0 ELSE upto[s - 1] + g[s]
  IN  upto[n]

AllPoints(person) ==
  Summed([s \in Term |-> IF IsProcessed(s) THEN Points(person, s) ELSE 0], N)

RankingFollowsEvidence ==
  run.at = "rank" /\ run.left = {} =>
    /\ Listed = {people[i].id : i \in {j \in Followed(Book) : Speaking(people[j]) # {}}}
    /\ \A i \in Followed(Book) : Speaking(people[i]) # {} =>
         totals[people[i].id] =
           [listed |-> TRUE, score |-> AllPoints(people[i]),
            sessions |-> Cardinality(Speaking(people[i])),
            complete |-> \A s \in Speaking(people[i]) : ~Doubted(people[i], s)]

-----------------------------------------------------------------------------
InForce(person, s) == Applies(Book.bounds[person.name], s) = "APPLICABLE"
Enrolled(person, k) == {s \in 1 .. k : InForce(person, s)}
Evident(person, k) ==
  {s \in Enrolled(person, k) : IsProcessed(s) /\ ~Doubted(person, s)}

(* Silence, from the evidence: the last two sessions the person was        *)
(* enrolled in were both processed without doubts, and no intervention of  *)
(* theirs in them counts.                                                  *)
FellSilent(person, k) ==
  \E s \in Enrolled(person, k) :
    /\ s < k
    /\ {t \in Enrolled(person, k) : t >= s} = {s, k}
    /\ {s, k} \subseteq Evident(person, k)
    /\ \A t \in {s, k} : Points(person, t) = 0

DueAlert(person, k) ==
  IF k \notin Evident(person, k) \/ Cardinality(Evident(person, k)) < Minimum
  THEN "INSUFFICIENT_DATA"
  ELSE IF FellSilent(person, k) THEN "OBSERVAR" ELSE "NORMAL"

(* A view just published is as of the last session that has an outcome and *)
(* shows, for everybody with a valid enrollment, the alert their evidence  *)
(* calls for: OBSERVAR only for two observed silences in a row.  Missing,  *)
(* incomplete, doubtful or not yet processed evidence is never a silence.  *)
AlertsAreExact ==
  run.at = "published" =>
    LET k == run.view.as_of
        tried == {s \in Term : state[s].status # "pending"}
    IN  /\ k \in tried /\ \A s \in tried : s <= k
        /\ run.view.cases = {[id |-> people[i].id, alert |-> DueAlert(people[i], k)] :
                           i \in {j \in Followed(Book) : Book.bounds[people[j].name].valid}}

(* Attendance is counted once for every participant and session it is      *)
(* known of, however many addresses the participant has: the number is     *)
(* that of the pairs with an address for which there is exactly one fact,  *)
(* and a usable one.                                                       *)
Owns(person, rules, external) ==
  LET canonical == Canonical(rules, external)
  IN  /\ \A rule \in rules : rule.external = external => rule.status # "IGNORED"
      /\ canonical \in ({person.mail} \ {NoMail}) \union {person.name} \union person.aliases

Attended(person, s, table) ==
  \E fact \in table.facts :
    /\ fact.session = s /\ fact.value # "missing"
    /\ Owns(person, table.rules, fact.external)
    /\ \A other \in table.facts :
         other.session = s /\ other.external = fact.external => other = fact

AttendanceCountsPairs ==
  run.at = "published" =>
    run.view.attended =
      Cardinality({pair \in Followed(Book) \X (1 .. run.view.as_of) :
        /\ InForce(people[pair[1]], pair[2])
        /\ Attended(people[pair[1]], pair[2], run.table)})
=============================================================================
