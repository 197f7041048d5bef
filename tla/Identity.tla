------------------------------- MODULE Identity --------------------------------
(***************************************************************************)
(* Who an observed name or address belongs to.  Names stand for their      *)
(* strict keys (case and spaces folded), addresses for e-mail keys; a      *)
(* sheet of people is a sequence of rows and a resolver answers with the   *)
(* number of a row.                                                        *)
(***************************************************************************)
EXTENDS Naturals, FiniteSets, Sequences

CONSTANTS
  Name,       (* Numbers below 100.                                         *)
  Lettered,   (* The names with at least one letter in them.                *)
  Loose,      (* Loose[n]: the key of n with its accents dropped.           *)
  External,   (* known_external: names declared to be nobody's.             *)
  NoMail      (* An empty address.                                          *)

ASSUME NameAssumption ==
  /\ Name \subseteq Nat /\ Lettered \subseteq Name /\ External \subseteq Name
  /\ Loose \in [Name -> Nat]

LooseKey(name) == IF name \in Name THEN Loose[name] ELSE name

(* An automatic identity; the number that makes a fresh id unique counts   *)
(* the people of that name.                                                *)
NewPerson(people, name) ==
  [id |-> 10 * name + Cardinality({i \in DOMAIN people : people[i].name = name}),
   name |-> name, mail |-> NoMail, aliases |-> {}, role |-> "participant"]

StrictlyHit(people, who) ==
  << {i \in DOMAIN people : who.mail # NoMail /\ people[i].mail = who.mail},
     {i \in DOMAIN people : who.name \in people[i].aliases},
     {i \in DOMAIN people : people[i].name = who.name} >>

LooselyHit(people, who) ==
  << {i \in DOMAIN people : \E a \in people[i].aliases : LooseKey(a) = LooseKey(who.name)},
     {i \in DOMAIN people : LooseKey(people[i].name) = LooseKey(who.name)} >>

(* The steps of the resolver, in order: only an import ignores accents.    *)
Steps(people, mode, who) ==
  StrictlyHit(people, who) \o
    (IF mode = "import" THEN LooselyHit(people, who) ELSE << >>)

(* The first step that hits anybody decides.                               *)
Deciding(steps) ==
  LET hits == {k \in DOMAIN steps : steps[k] # {}}
  IN  IF hits = {} THEN {} ELSE steps[CHOOSE k \in hits : \A j \in hits : k <= j]

Found(people, i) == [status |-> "RESOLVED", row |-> i, people |-> people]
Unclear(people, status) == [status |-> status, row |-> 0, people |-> people]

(* ParticipantResolver.resolve.  An automatic resolver appends the person  *)
(* it makes up, so that the next event finds them.                         *)
Resolve(people, mode, who) ==
  LET hit == Deciding(Steps(people, mode, who))
  IN  IF Cardinality(hit) = 1 THEN Found(people, CHOOSE i \in hit : TRUE)
      ELSE IF hit = {} /\ mode = "auto" /\ who.name \in Lettered
      THEN Found(Append(people, NewPerson(people, who.name)), Len(people) + 1)
      ELSE Unclear(people, "NEEDS_REVIEW")

(* EventIdentityResolver: declared outsiders come before any participant.  *)
ResolveEvent(people, mode, event) ==
  IF event.system \/ event.name \in External
  THEN Unclear(people, "IGNORED")
  ELSE Resolve(people, mode, [name |-> event.name, mail |-> NoMail])

-----------------------------------------------------------------------------
(* Attendance identities: rules [external, status, canonical] say that an  *)
(* external address is nobody's, or stands for another address.            *)
Conflicting(rules) ==
  \E first, second \in rules : first # second /\ first.external = second.external

Canonical(rules, external) ==
  LET own == {rule \in rules : rule.external = external}
  IN  IF own = {} THEN external ELSE (CHOOSE rule \in own : TRUE).canonical

(* AttendanceIdentityPolicy.resolve over the official roster, by address   *)
(* and then, with the same text, by alias and by name.                     *)
ResolveAttendance(people, rules, external) ==
  IF \E rule \in rules : rule.external = external /\ rule.status = "IGNORED"
  THEN Unclear(people, "IGNORED")
  ELSE LET canonical == Canonical(rules, external)
       IN  Resolve(people, "official", [name |-> canonical, mail |-> canonical])
=============================================================================
