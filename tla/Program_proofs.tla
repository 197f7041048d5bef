----------------------------- MODULE Program_proofs -----------------------------
(***************************************************************************)
(* What a program makes of its evidence, for any evidence, roster, faults  *)
(* and order of invocations: nobody is made up twice, the scores of a      *)
(* PROCESSED session are those of its evidence, and so are the ranking,    *)
(* the alerts and the attendance.                                          *)
(*                                                                         *)
(* A roster may name two people alike, and a retried append may be applied *)
(* twice; then none of this holds.  The theorems assume neither.           *)
(* (The lemmas about lists bring the constant NoKey, which is not used.)   *)
(***************************************************************************)
EXTENDS Program, Lists_lemmas

(* What somebody is called in a mode, and what they can be found by.       *)
CallsFor(md, person, name) ==
  LET keys == {person.name} \union person.aliases
  IN  IF md = "import" THEN LooseKey(name) \in {LooseKey(k) : k \in keys} ELSE name \in keys
Addressed(person, key) ==
  key \in ({person.mail} \ {NoMail}) \union {person.name} \union person.aliases

(* No two people have a name, an address or an id in common.               *)
Distinguished(md, sp) ==
  \A i, j \in DOMAIN sp :
    \/ sp[i].id = sp[j].id
    \/ \E name \in Name : CallsFor(md, sp[i], name) /\ CallsFor(md, sp[j], name)
    \/ \E key : Addressed(sp[i], key) /\ Addressed(sp[j], key)
    => i = j

MadeUp(person) == person.id = 10 * person.name /\ person.mail = NoMail /\ person.aliases = {}

People(md, sp) ==
  /\ sp \in Seq(Someone)
  /\ Distinguished(md, sp)
  /\ md = "auto" => \A i \in DOMAIN sp : MadeUp(sp[i])

-----------------------------------------------------------------------------
(* The first step that hits anybody decides; when no two people can be     *)
(* hit, it hits whoever any of the steps does.                             *)
LEMMA DecidingIs ==
  ASSUME NEW n \in Nat, NEW steps, DOMAIN steps = 1 .. n, NEW called,
         \A k \in 1 .. n : steps[k] \subseteq called,
         \A x \in called : \E k \in 1 .. n : x \in steps[k],
         \A x, y \in called : x = y
  PROVE  Deciding(steps) = called
<1> DEFINE hits == {k \in DOMAIN steps : steps[k] # {}}
<1>1. CASE hits = {}
  <2>1. called = {}
    BY <1>1
  <2> QED BY <1>1, <2>1 DEF Deciding
<1>2. CASE hits # {}
  <2>1. hits \subseteq Nat
    OBVIOUS
  <2>2. \E k \in hits : \A j \in hits : k <= j
    <3> HIDE DEF hits
    <3> QED BY <1>2, <2>1, LeastElement
  <2> DEFINE first == CHOOSE k \in hits : \A j \in hits : k <= j
  <2>3. first \in hits
    <3> HIDE DEF hits
    <3> QED BY <2>2
  <2>4. Deciding(steps) = steps[first]
    BY <1>2 DEF Deciding
  <2> HIDE DEF first
  <2>5. steps[first] # {} /\ steps[first] \subseteq called
    BY <2>3
  <2> QED BY <2>4, <2>5
<1> QED BY <1>1, <1>2

(* The steps of the resolver, one by one.                                  *)
OneByOne(steps, sp, md, who) ==
  /\ DOMAIN steps = 1 .. (IF md = "import" THEN 5 ELSE 3)
  /\ steps[1] = {i \in DOMAIN sp : who.mail # NoMail /\ sp[i].mail = who.mail}
  /\ steps[2] = {i \in DOMAIN sp : who.name \in sp[i].aliases}
  /\ steps[3] = {i \in DOMAIN sp : sp[i].name = who.name}
  /\ md = "import" =>
       /\ steps[4] = {i \in DOMAIN sp : \E k \in sp[i].aliases : LooseKey(k) = LooseKey(who.name)}
       /\ steps[5] = {i \in DOMAIN sp : LooseKey(sp[i].name) = LooseKey(who.name)}

(* The steps of the resolver are three, and two more in an import.         *)
LEMMA StepsAre ==
  ASSUME NEW sp, NEW md, NEW who
  PROVE  OneByOne(Steps(sp, md, who), sp, md, who)
<1> DEFINE a == {i \in DOMAIN sp : who.mail # NoMail /\ sp[i].mail = who.mail}
           b == {i \in DOMAIN sp : who.name \in sp[i].aliases}
           c == {i \in DOMAIN sp : sp[i].name = who.name}
           d == {i \in DOMAIN sp : \E k \in sp[i].aliases : LooseKey(k) = LooseKey(who.name)}
           e == {i \in DOMAIN sp : LooseKey(sp[i].name) = LooseKey(who.name)}
           steps == Steps(sp, md, who)
<1>1. steps = <<a, b, c>> \o (IF md = "import" THEN <<d, e>> ELSE << >>)
  BY DEF Steps, StrictlyHit, LooselyHit
<1> SUFFICES /\ DOMAIN steps = 1 .. (IF md = "import" THEN 5 ELSE 3)
             /\ steps[1] = a /\ steps[2] = b /\ steps[3] = c
             /\ md = "import" => steps[4] = d /\ steps[5] = e
  BY DEF OneByOne
<1> HIDE DEF a, b, c, d, e, steps
<1> DEFINE T == {a, b, c, d, e}
           strict == <<a, b, c>>
           loose == <<d, e>>
<1>2. /\ strict \in Seq(T) /\ loose \in Seq(T) /\ << >> \in Seq(T)
      /\ Len(strict) = 3 /\ Len(loose) = 2 /\ Len(<< >>) = 0
      /\ strict[1] = a /\ strict[2] = b /\ strict[3] = c /\ loose[1] = d /\ loose[2] = e
  OBVIOUS
<1>3. CASE md = "import"
  <2>1. steps = strict \o loose
    BY <1>1, <1>3
  <2> HIDE DEF T, strict, loose
  <2>2. Joins(steps, strict, loose, T)
    BY <1>2, <2>1, Joined
  <2>3. Len(steps) = 5 /\ steps \in Seq(T)
    BY <1>2, <2>2 DEF Joins
  <2>4. 1 \in 1 .. Len(strict) /\ 2 \in 1 .. Len(strict) /\ 3 \in 1 .. Len(strict)
        /\ 1 \in 1 .. Len(loose) /\ 2 \in 1 .. Len(loose)
    BY <1>2
  <2>5. steps[1] = a /\ steps[2] = b /\ steps[3] = c
    BY <1>2, <2>2, <2>4 DEF Joins
  <2>6. steps[Len(strict) + 1] = d /\ steps[Len(strict) + 2] = e
    BY <1>2, <2>2, <2>4 DEF Joins
  <2>7. steps[4] = d /\ steps[5] = e
    BY <1>2, <2>6
  <2>8. DOMAIN steps = 1 .. 5
    BY <2>3, LenProperties
  <2> QED BY <1>3, <2>5, <2>7, <2>8
<1>4. CASE md # "import"
  <2>1. steps = strict \o << >>
    BY <1>1, <1>4
  <2> HIDE DEF T, strict, loose
  <2>2. steps = strict
    BY <1>2, <2>1, EmptySeq, ConcatEmptySeq
  <2>3. DOMAIN steps = 1 .. 3
    BY <1>2, <2>2, LenProperties
  <2> QED BY <1>2, <1>4, <2>2, <2>3
<1> QED BY <1>3, <1>4
-----------------------------------------------------------------------------
Called(md, sp, name) == {i \in DOMAIN sp : CallsFor(md, sp[i], name)}
Owners(sp, key) == {i \in DOMAIN sp : Addressed(sp[i], key)}

(* A name hits whoever is called so.                                       *)
LEMMA NameHits ==
  ASSUME NEW md, NEW sp, Distinguished(md, sp), NEW name \in Name
  PROVE  Deciding(Steps(sp, md, [name |-> name, mail |-> NoMail])) = Called(md, sp, name)
<1> DEFINE who == [name |-> name, mail |-> NoMail]
           steps == Steps(sp, md, who)
           n == IF md = "import" THEN 5 ELSE 3
           called == Called(md, sp, name)
<1>1. who.name = name /\ who.mail = NoMail
  OBVIOUS
<1> HIDE DEF who
<1>2. OneByOne(steps, sp, md, who)
  BY StepsAre
<1> HIDE DEF steps
<1>3. \A x, y \in called : x = y
  BY DEF Called, Distinguished
<1>4. n \in Nat /\ DOMAIN steps = 1 .. n
  BY <1>2 DEF OneByOne
<1>5. steps[1] = {}
  BY <1>1, <1>2 DEF OneByOne
<1>6. steps[2] \subseteq called /\ steps[3] \subseteq called
  BY <1>1, <1>2 DEF OneByOne, Called, CallsFor
<1>7. CASE md = "import"
  <2>1. steps[4] \subseteq called /\ steps[5] \subseteq called
    BY <1>1, <1>2, <1>7 DEF OneByOne, Called, CallsFor
  <2>2. \A x \in called : x \in steps[4] \/ x \in steps[5]
    BY <1>1, <1>2, <1>7 DEF OneByOne, Called, CallsFor
  <2>3. n = 5
    BY <1>7
  <2>4. \A k \in 1 .. n : k = 1 \/ k = 2 \/ k = 3 \/ k = 4 \/ k = 5
    BY <2>3
  <2>5. \A k \in 1 .. n : steps[k] \subseteq called
    BY <1>5, <1>6, <2>1, <2>4
  <2>6. \A x \in called : \E k \in 1 .. n : x \in steps[k]
    BY <2>2, <2>3
  <2> HIDE DEF n, called
  <2>7. Deciding(steps) = called
    BY <1>3, <1>4, <2>5, <2>6, DecidingIs
  <2> QED BY <2>7 DEF steps, who, called
<1>8. CASE md # "import"
  <2>2. \A x \in called : x \in steps[2] \/ x \in steps[3]
    BY <1>1, <1>2, <1>8 DEF OneByOne, Called, CallsFor
  <2>3. n = 3
    BY <1>8
  <2>4. \A k \in 1 .. n : k = 1 \/ k = 2 \/ k = 3
    BY <2>3
  <2>5. \A k \in 1 .. n : steps[k] \subseteq called
    BY <1>5, <1>6, <2>4
  <2>6. \A x \in called : \E k \in 1 .. n : x \in steps[k]
    BY <2>2, <2>3
  <2> HIDE DEF n, called
  <2>7. Deciding(steps) = called
    BY <1>3, <1>4, <2>5, <2>6, DecidingIs
  <2> QED BY <2>7 DEF steps, who, called
<1> QED BY <1>7, <1>8

(* An address hits whoever it belongs to.                                  *)
LEMMA AddressHits ==
  ASSUME NEW md, NEW sp, Distinguished(md, sp), NEW key
  PROVE  Deciding(Steps(sp, "official", [name |-> key, mail |-> key])) = Owners(sp, key)
<1> DEFINE who == [name |-> key, mail |-> key]
           steps == Steps(sp, "official", who)
           owners == Owners(sp, key)
<1>1. who.name = key /\ who.mail = key
  OBVIOUS
<1> HIDE DEF who
<1>2. OneByOne(steps, sp, "official", who)
  BY StepsAre
<1> HIDE DEF steps
<1>3. \A x, y \in owners : x = y
  BY DEF Owners, Distinguished
<1>4. 3 \in Nat /\ DOMAIN steps = 1 .. 3
  BY <1>2 DEF OneByOne
<1>5. \A k \in 1 .. 3 : k = 1 \/ k = 2 \/ k = 3
  OBVIOUS
<1>6. steps[1] \subseteq owners /\ steps[2] \subseteq owners /\ steps[3] \subseteq owners
  BY <1>1, <1>2 DEF OneByOne, Owners, Addressed
<1>7. \A x \in owners : x \in steps[1] \/ x \in steps[2] \/ x \in steps[3]
  BY <1>1, <1>2 DEF OneByOne, Owners, Addressed
<1>8. (\A k \in 1 .. 3 : steps[k] \subseteq owners) /\ \A x \in owners : \E k \in 1 .. 3 : x \in steps[k]
  BY <1>5, <1>6, <1>7
<1> HIDE DEF owners
<1>9. Deciding(steps) = owners
  BY <1>3, <1>4, <1>8, DecidingIs
<1> QED BY <1>9 DEF steps, who, owners

(* What the resolver answers when no two people can be hit.                *)
LEMMA ResolveIs ==
  ASSUME NEW md, NEW sp, NEW who, NEW hit, Deciding(Steps(sp, md, who)) = hit, \A x, y \in hit : x = y
  PROVE  /\ \A i \in hit : Resolve(sp, md, who) = Found(sp, i)
         /\ hit = {} =>
              Resolve(sp, md, who) =
                IF md = "auto" /\ who.name \in Lettered
                THEN Found(Append(sp, NewPerson(sp, who.name)), Len(sp) + 1)
                ELSE Unclear(sp, "NEEDS_REVIEW")
<1>1. CASE hit = {}
  <2>1. Cardinality(hit) # 1
    BY <1>1, FS_EmptySet
  <2> QED BY <1>1, <2>1 DEF Resolve
<1>2. ASSUME NEW i \in hit PROVE Resolve(sp, md, who) = Found(sp, i)
  <2>1. hit = {i}
    BY <1>2
  <2>2. Cardinality(hit) = 1
    BY <2>1, FS_Singleton
  <2>3. (CHOOSE j \in hit : TRUE) = i
    BY <2>1
  <2> QED BY <2>2, <2>3 DEF Resolve
<1> QED BY <1>1, <1>2

(* A name is resolved to the one person called so; in the automatic mode   *)
(* to one made up for it, if there is none.                                *)
LEMMA EventIs ==
  ASSUME NEW md, NEW sp, Distinguished(md, sp), NEW event \in Event
  PROVE  /\ event.system \/ event.name \in External => ResolveEvent(sp, md, event) = Unclear(sp, "IGNORED")
         /\ ~(event.system \/ event.name \in External) =>
              /\ \A i \in Called(md, sp, event.name) : ResolveEvent(sp, md, event) = Found(sp, i)
              /\ Called(md, sp, event.name) = {} =>
                   ResolveEvent(sp, md, event) =
                     IF md = "auto" /\ event.name \in Lettered
                     THEN Found(Append(sp, NewPerson(sp, event.name)), Len(sp) + 1)
                     ELSE Unclear(sp, "NEEDS_REVIEW")
<1> DEFINE who == [name |-> event.name, mail |-> NoMail]
           hit == Called(md, sp, event.name)
<1>1. event.name \in Name
  BY DEF Event
<1>2. Deciding(Steps(sp, md, who)) = hit
  BY <1>1, NameHits
<1>3. \A x, y \in hit : x = y
  BY <1>1 DEF Called, Distinguished
<1>4. who.name = event.name
  OBVIOUS
<1>5. ~(event.system \/ event.name \in External) => ResolveEvent(sp, md, event) = Resolve(sp, md, who)
  BY DEF ResolveEvent
<1>6. event.system \/ event.name \in External => ResolveEvent(sp, md, event) = Unclear(sp, "IGNORED")
  BY DEF ResolveEvent
<1> HIDE DEF who, hit
<1>7. /\ \A i \in hit : Resolve(sp, md, who) = Found(sp, i)
      /\ hit = {} =>
           Resolve(sp, md, who) =
             IF md = "auto" /\ who.name \in Lettered
             THEN Found(Append(sp, NewPerson(sp, who.name)), Len(sp) + 1)
             ELSE Unclear(sp, "NEEDS_REVIEW")
  BY <1>2, <1>3, ResolveIs
<1> QED BY <1>4, <1>5, <1>6, <1>7 DEF hit
-----------------------------------------------------------------------------
(* Who is made up for a name nobody is called by is distinct from          *)
(* everybody.                                                              *)
Unknown(md, sp, name) == Called(md, sp, name) = {}

Enlarges(new, sp, name) ==
  /\ People("auto", new) /\ Len(new) = Len(sp) + 1
  /\ \A i \in DOMAIN sp : new[i] = sp[i]
  /\ DOMAIN new = DOMAIN sp \union {Len(sp) + 1} /\ Len(sp) + 1 \notin DOMAIN sp
  /\ new[Len(sp) + 1].role = "participant" /\ CallsFor("auto", new[Len(sp) + 1], name)

(* Who is made up is somebody, whom nobody can be taken for.               *)
LEMMA MakesUp ==
  ASSUME NEW sp, People("auto", sp), NEW name \in Lettered \ External, Unknown("auto", sp, name)
  PROVE  Enlarges(Append(sp, NewPerson(sp, name)), sp, name)
<1> DEFINE new == Append(sp, NewPerson(sp, name))
           last == Len(sp) + 1
           person == [id |-> 10 * name, name |-> name, mail |-> NoMail, aliases |-> {}, role |-> "participant"]
<1>1. name \in Name /\ name \in Nat /\ NoMail \in Nat
  BY EvidenceAssumption, NameAssumption
<1>2. sp \in Seq(Someone) /\ (\A i \in DOMAIN sp : MadeUp(sp[i])) /\ Distinguished("auto", sp)
  BY DEF People
<1>3. \A i \in DOMAIN sp : sp[i].name # name
  BY DEF Unknown, Called, CallsFor
<1>4. NewPerson(sp, name) = person
  <2>1. {i \in DOMAIN sp : sp[i].name = name} = {}
    BY <1>3
  <2>2. Cardinality({i \in DOMAIN sp : sp[i].name = name}) = 0
    BY <2>1, FS_EmptySet
  <2>3. 10 * name + 0 = 10 * name
    BY <1>1
  <2> QED BY <2>2, <2>3 DEF NewPerson
<1>5. person \in Someone
  <2>1. 10 * name \in Participant
    BY EvidenceAssumption, NameAssumption
  <2> QED BY <1>1, <2>1 DEF Someone
<1>6. /\ person.id = 10 * name /\ person.name = name /\ person.mail = NoMail /\ person.aliases = {}
      /\ person.role = "participant"
  OBVIOUS
<1> HIDE DEF person
<1>7. /\ new \in Seq(Someone) /\ Len(new) = last /\ Len(sp) \in Nat /\ DOMAIN sp = 1 .. Len(sp)
      /\ DOMAIN new = 1 .. last
      /\ \A i \in 1 .. Len(sp) : new[i] = sp[i]
      /\ new[last] = person
  <2>1. new = Append(sp, person)
    BY <1>4
  <2> HIDE DEF new
  <2> QED BY <1>2, <1>5, <2>1, AppendProperties, LenProperties
<1> HIDE DEF new
<1>8. DOMAIN new = DOMAIN sp \union {last} /\ last \notin DOMAIN sp
  BY <1>7
<1>9. \A i \in DOMAIN new : MadeUp(new[i])
  BY <1>2, <1>6, <1>7, <1>8 DEF MadeUp
<1>10. \A i \in DOMAIN new : new[i].name \in Name /\ new[i].name \in Nat
  <2>1. \A i \in DOMAIN new : new[i] \in Someone
    BY <1>7, ElementOfSeq
  <2> QED BY <2>1, NameAssumption DEF Someone
<1>11. ASSUME NEW i \in DOMAIN new, NEW j \in DOMAIN new, new[i].name = new[j].name PROVE i = j
  <2>1. CASE i \in DOMAIN sp /\ j \in DOMAIN sp
    <3>1. sp[i].name = sp[j].name /\ sp[i].name \in Name
      BY <1>7, <1>10, <1>11, <2>1
    <3>2. CallsFor("auto", sp[i], sp[i].name) /\ CallsFor("auto", sp[j], sp[i].name)
      BY <3>1 DEF CallsFor
    <3> QED BY <1>2, <2>1, <3>1, <3>2 DEF Distinguished
  <2>2. CASE i = last /\ j \in DOMAIN sp
    BY <1>3, <1>6, <1>7, <1>11, <2>2
  <2>3. CASE j = last /\ i \in DOMAIN sp
    BY <1>3, <1>6, <1>7, <1>11, <2>3
  <2> QED BY <1>8, <2>1, <2>2, <2>3
<1>12. Distinguished("auto", new)
  <2> SUFFICES ASSUME NEW i \in DOMAIN new, NEW j \in DOMAIN new,
                      \/ new[i].id = new[j].id
                      \/ \E n \in Name : CallsFor("auto", new[i], n) /\ CallsFor("auto", new[j], n)
                      \/ \E key : Addressed(new[i], key) /\ Addressed(new[j], key)
               PROVE  new[i].name = new[j].name
    BY <1>11 DEF Distinguished
  <2>1. CASE new[i].id = new[j].id
    <3>1. 10 * new[i].name = 10 * new[j].name
      BY <1>9, <2>1 DEF MadeUp
    <3> QED BY <1>10, <3>1
  <2>2. CASE \E n \in Name : CallsFor("auto", new[i], n) /\ CallsFor("auto", new[j], n)
    BY <1>9, <2>2 DEF MadeUp, CallsFor
  <2>3. CASE \E key : Addressed(new[i], key) /\ Addressed(new[j], key)
    BY <1>9, <2>3 DEF MadeUp, Addressed
  <2> QED BY <2>1, <2>2, <2>3
<1>13. CallsFor("auto", new[last], name)
  BY <1>6, <1>7 DEF CallsFor
<1>14. Enlarges(new, sp, name)
  BY <1>6, <1>7, <1>8, <1>9, <1>12, <1>13 DEF People, Enlarges
<1> QED BY <1>14 DEF new

-----------------------------------------------------------------------------
(* The loop over the events.                                               *)
Speaks(event) == ~event.system /\ event.name \notin External
Keeping == [id : Participant, event : Event]
Sofar(md) == [people : {sp \in Seq(Someone) : People(md, sp)}, kept : Seq(Keeping), reviews : Nat]

Grows(md, sp, new, name) ==
  \/ new = sp
  \/ /\ md = "auto" /\ Called(md, sp, name) = {}
     /\ Len(new) = Len(sp) + 1 /\ \A i \in DOMAIN sp : new[i] = sp[i]
     /\ DOMAIN new = DOMAIN sp \union {Len(sp) + 1} /\ Len(sp) + 1 \notin DOMAIN sp
     /\ CallsFor(md, new[Len(sp) + 1], name)

Passes(new, old, event) == ~Speaks(event) /\ new = old
Reviews(new, old, event) ==
  Speaks(event) /\ new.reviews = old.reviews + 1 /\ new.people = old.people /\ new.kept = old.kept
Resolves(md, new, old, event, i) ==
  /\ Speaks(event) /\ new.reviews = old.reviews
  /\ Grows(md, old.people, new.people, event.name)
  /\ i \in DOMAIN new.people /\ CallsFor(md, new.people[i], event.name)
  /\ new.kept = IF new.people[i].role = "participant"
                THEN Append(old.kept, [id |-> new.people[i].id, event |-> event]) ELSE old.kept

(* One turn of the loop passes over an event, sets it aside or resolves it. *)
LEMMA NextIs ==
  ASSUME NEW old \in Sofar(mode), NEW event \in Event, NEW new, new = ResolveNext(old, event)
  PROVE  /\ new \in Sofar(mode)
         /\ Passes(new, old, event) \/ Reviews(new, old, event) \/ \E i : Resolves(mode, new, old, event, i)
<1> DEFINE sp == old.people
           kept == old.kept
           resolved == ResolveEvent(sp, mode, event)
<1>1. old = [people |-> sp, kept |-> kept, reviews |-> old.reviews]
      /\ sp \in Seq(Someone) /\ People(mode, sp) /\ kept \in Seq(Keeping) /\ old.reviews \in Nat
  BY DEF Sofar
<1>2. Distinguished(mode, sp)
  BY <1>1 DEF People
<1> HIDE DEF sp, kept, resolved
<1>3. CASE ~Speaks(event)
  <2>1. resolved = Unclear(sp, "IGNORED")
    BY <1>2, <1>3, EventIs DEF Speaks, resolved
  <2>2. new = old
    BY <2>1 DEF ResolveNext, Unclear, resolved, sp
  <2> QED BY <1>3, <2>2 DEF Passes
<1>4. ASSUME Speaks(event), resolved = Unclear(sp, "NEEDS_REVIEW")
      PROVE  new \in Sofar(mode) /\ Reviews(new, old, event)
  <2>1. new = [old EXCEPT !.reviews = @ + 1]
    BY <1>4 DEF ResolveNext, Unclear, resolved, sp
  <2>2. new = [people |-> sp, kept |-> kept, reviews |-> old.reviews + 1]
    BY <1>1, <2>1
  <2>3. new.people = sp /\ new.kept = kept /\ new.reviews = old.reviews + 1
    BY <2>2
  <2>4. new \in Sofar(mode)
    BY <1>1, <2>2 DEF Sofar
  <2> QED BY <1>1, <1>4, <2>3, <2>4 DEF Reviews, sp, kept
<1>5. ASSUME Speaks(event), NEW np, NEW i, resolved = Found(np, i), i \in DOMAIN np,
             People(mode, np), Grows(mode, sp, np, event.name), CallsFor(mode, np[i], event.name)
      PROVE  new \in Sofar(mode) /\ Resolves(mode, new, old, event, i)
  <2> DEFINE keep == [id |-> np[i].id, event |-> event]
             longer == IF np[i].role = "participant" THEN Append(kept, keep) ELSE kept
  <2>1. resolved.status = "RESOLVED" /\ resolved.people = np /\ resolved.row = i
    BY <1>5 DEF Found
  <2>2. new = [old EXCEPT !.people = np, !.kept = IF np[i].role = "participant" THEN Append(@, keep) ELSE @]
    BY <2>1 DEF ResolveNext, resolved, sp
  <2>3. np \in Seq(Someone)
    BY <1>5 DEF People
  <2>4. np[i] \in Someone
    BY <1>5, <2>3, ElementOfSeq
  <2>5. keep \in Keeping
    BY <2>4 DEF Someone, Keeping
  <2> HIDE DEF keep
  <2>6. longer \in Seq(Keeping)
    BY <1>1, <2>5, AppendProperties
  <2>11. new = [old EXCEPT !.people = np, !.kept = longer]
    BY <2>2 DEF kept
  <2> HIDE DEF longer
  <2>7. new = [people |-> np, kept |-> longer, reviews |-> old.reviews]
    BY <1>1, <2>11
  <2>8. new.people = np /\ new.kept = longer /\ new.reviews = old.reviews
    BY <2>7
  <2>9. new \in Sofar(mode)
    BY <1>1, <1>5, <2>3, <2>6, <2>7 DEF Sofar
  <2>10. new.kept = IF np[i].role = "participant" THEN Append(old.kept, keep) ELSE old.kept
    BY <2>8 DEF longer, kept
  <2> QED BY <1>5, <2>8, <2>9, <2>10 DEF Resolves, sp, keep
<1>6. CASE Speaks(event)
  <2>1. ASSUME NEW i \in Called(mode, sp, event.name)
        PROVE  new \in Sofar(mode) /\ \E k : Resolves(mode, new, old, event, k)
    <3>1. resolved = Found(sp, i)
      BY <1>2, <1>6, <2>1, EventIs DEF Speaks, resolved
    <3>2. i \in DOMAIN sp /\ CallsFor(mode, sp[i], event.name) /\ Grows(mode, sp, sp, event.name)
      BY <2>1 DEF Called, Grows
    <3> QED BY <1>1, <1>5, <1>6, <3>1, <3>2
  <2>2. CASE Called(mode, sp, event.name) = {} /\ mode = "auto" /\ event.name \in Lettered
    <3> DEFINE np == Append(sp, NewPerson(sp, event.name))
    <3>1. resolved = Found(np, Len(sp) + 1)
      BY <1>2, <1>6, <2>2, EventIs DEF Speaks, resolved
    <3>2. event.name \in Lettered \ External
      BY <1>6, <2>2 DEF Speaks
    <3> HIDE DEF np
    <3>3. Enlarges(np, sp, event.name)
      <4>1. People("auto", sp) /\ Unknown("auto", sp, event.name)
        BY <1>1, <2>2 DEF Unknown
      <4> QED BY <3>2, <4>1, MakesUp DEF np
    <3>4. Grows(mode, sp, np, event.name) /\ Len(sp) + 1 \in DOMAIN np
      BY <2>2, <3>3 DEF Grows, Enlarges
    <3>5. People(mode, np) /\ CallsFor(mode, np[Len(sp) + 1], event.name)
      BY <2>2, <3>3 DEF Enlarges
    <3> QED BY <1>5, <1>6, <3>1, <3>4, <3>5
  <2>3. CASE Called(mode, sp, event.name) = {} /\ ~(mode = "auto" /\ event.name \in Lettered)
    <3>1. resolved = Unclear(sp, "NEEDS_REVIEW")
      BY <1>2, <1>6, <2>3, EventIs DEF Speaks, resolved
    <3> QED BY <1>4, <1>6, <3>1
  <2> QED BY <2>1, <2>2, <2>3
<1> QED BY <1>3, <1>6, <1>1 DEF Passes

ResolvedFrom(base, events) == FoldLeft(ResolveNext, base, events)

(* The loop takes the events one after the other.                         *)
LEMMA ResolveFolds ==
  ASSUME NEW base \in Sofar(mode), NEW events \in Seq(Event), NEW n, n = Len(events)
  PROVE  \E r \in [0 .. n -> Sofar(mode)] :
           /\ r[0] = base
           /\ \A k \in 1 .. n : r[k] = ResolveNext(r[k - 1], events[k])
           /\ ResolvedFrom(base, events) = r[n]
<1> DEFINE V == Sofar(mode)
           step == [pair \in (1 .. n) \X V |-> ResolveNext(pair[2], events[pair[1]])]
<1>1. n \in Nat /\ DOMAIN events = 1 .. n
  BY LenProperties
<1>2. step \in [(1 .. n) \X V -> V]
  <2> SUFFICES ASSUME NEW k \in 1 .. n, NEW v \in V PROVE ResolveNext(v, events[k]) \in V
    OBVIOUS
  <2>1. events[k] \in Event
    BY <1>1, ElementOfSeq
  <2> QED
    BY <2>1, NextIs
<1>3. base \in V
  OBVIOUS
<1>4. PICK f \in [SUBSET (1 .. n) -> V] : FoldsSets(f, n, base, step)
  <2> HIDE DEF step, V
  <2> QED
    BY <1>1, <1>2, <1>3, RecursionOnSets
<1> DEFINE r == [k \in 0 .. n |-> f[1 .. k]]
           body(g, s) == IF s = {} THEN base ELSE ResolveNext(g[s \ {Max(s)}], events[Max(s)])
           Folds(g) == g = [s \in SUBSET (1 .. n) |-> body(g, s)]
<1>5. r \in [0 .. n -> V] /\ Computes(r, n, base, step)
  <2> HIDE DEF step, V
  <2> QED
    BY <1>1, <1>4, FoldsPrefixes
<1>6. r[0] = base /\ \A k \in 1 .. n : r[k] = ResolveNext(r[k - 1], events[k])
  <2> HIDE DEF r
  <2>1. r[0] = base /\ \A k \in 1 .. n : r[k] = step[<<k, r[k - 1]>>]
    <3> HIDE DEF step, V
    <3> QED
      BY <1>5 DEF Computes
  <2>2. ASSUME NEW k \in 1 .. n PROVE step[<<k, r[k - 1]>>] = ResolveNext(r[k - 1], events[k])
    <3>1. k - 1 \in 0 .. n
      BY <1>1
    <3>2. r[k - 1] \in V
      BY <1>5, <3>1
    <3> HIDE DEF V
    <3> QED
      BY <3>2
  <2> HIDE DEF step, V
  <2> QED
    BY <2>1, <2>2
<1>7. Folds(f)
  <2>1. ASSUME NEW s \in SUBSET (1 .. n) PROVE f[s] = body(f, s)
    <3>1. CASE s = {}
      BY <1>4, <3>1 DEF FoldsSets
    <3>2. CASE s # {}
      <4>1. IsFiniteSet(s) /\ s \subseteq Int
        BY <1>1, BoundedSet
      <4>2. Max(s) \in 1 .. n /\ s \ {Max(s)} \in SUBSET (1 .. n)
        BY <3>2, <4>1, MaxIs
      <4>3. f[s] = step[<<Max(s), f[s \ {Max(s)}]>>]
        <5> HIDE DEF step, V
        <5> QED
          BY <1>4, <3>2 DEF FoldsSets
      <4>4. f[s \ {Max(s)}] \in V
        BY <4>2
      <4>5. step[<<Max(s), f[s \ {Max(s)}]>>] = ResolveNext(f[s \ {Max(s)}], events[Max(s)])
        <5> HIDE DEF V
        <5> QED
          BY <1>1, <4>2, <4>4
      <4> HIDE DEF step, V
      <4> QED
        BY <3>2, <4>3, <4>5
    <3> QED
      BY <3>1, <3>2
  <2> HIDE DEF body
  <2>2. f = [s \in SUBSET (1 .. n) |-> f[s]]
    OBVIOUS
  <2> QED
    BY <2>1, <2>2
<1> DEFINE iter == CHOOSE g : Folds(g)
<1>8. Folds(iter)
  <2> HIDE DEF Folds
  <2> QED
    BY <1>7
<1>9. ResolvedFrom(base, events) = iter[1 .. n]
  BY <1>1 DEF ResolvedFrom, FoldLeft, MapThenFoldSet
<1> HIDE DEF iter, r
<1>10. iter[1 .. n] = r[n]
  <2>1. iter[1 .. 0] = r[0]
    <3>1. 1 .. 0 = {} /\ {} \in SUBSET (1 .. n)
      OBVIOUS
    <3>2. iter[{}] = base
      BY <1>8, <3>1
    <3> QED
      BY <1>6, <3>1, <3>2
  <2>2. ASSUME NEW k \in 1 .. n, iter[1 .. k - 1] = r[k - 1] PROVE iter[1 .. k] = r[k]
    <3>1. 1 .. k \in SUBSET (1 .. n) /\ 1 .. k # {} /\ Max(1 .. k) = k /\ (1 .. k) \ {k} = 1 .. k - 1
      BY <1>1, Initials
    <3>2. iter[1 .. k] = ResolveNext(iter[1 .. k - 1], events[k])
      BY <1>8, <3>1
    <3> QED
      BY <1>1, <1>6, <2>2, <3>2
  <2> QED
    BY <1>1, <2>1, <2>2, SameSteps
<1> QED
  BY <1>5, <1>6, <1>9, <1>10
-----------------------------------------------------------------------------
(* What is kept of somebody, event by event.                               *)

(* One more element at the end of a list: what was picked of it before,    *)
(* and what is picked of it with the new one.                              *)
LEMMA PickedLonger ==
  ASSUME NEW T, NEW s \in Seq(T), NEW x \in T, NEW places, places \subseteq DOMAIN s
  PROVE  /\ Picked(Append(s, x), places) = Picked(s, places)
         /\ Picked(Append(s, x), places \union {Len(s) + 1}) = Append(Picked(s, places), x)
<1> DEFINE more == Append(s, x)
           c == Cardinality(places)
           a == Ascending(places)
           picked == Picked(s, places)
           last == Len(s) + 1
           f == [k \in 1 .. c + 1 |-> IF k = c + 1 THEN last ELSE a[k]]
<1>1. /\ more \in Seq(T) /\ Len(more) = last /\ Len(s) \in Nat /\ DOMAIN s = 1 .. Len(s)
      /\ DOMAIN more = 1 .. last /\ more[last] = x /\ \A i \in 1 .. Len(s) : more[i] = s[i]
  BY AppendProperties, LenProperties
<1> HIDE DEF more
<1>2. /\ c \in Nat /\ IsFiniteSet(places) /\ IncreasingList(a, c, places)
      /\ picked \in Seq(T) /\ Len(picked) = c /\ DOMAIN picked = 1 .. c
      /\ \A k \in 1 .. c : picked[k] = s[a[k]]
  BY PickedIs
<1>3. places \subseteq Int
  BY <1>1
<1>4. Picked(more, places) = picked
  BY <1>1, <1>2, <1>3, PickedSame
<1> HIDE DEF a, c, picked
<1>5. \A k \in 1 .. c : a[k] \in places
  BY <1>2 DEF IncreasingList
<1>6. /\ f \in [1 .. c + 1 -> places \union {last}] /\ f[c + 1] = last
      /\ \A k \in 1 .. c : f[k] = a[k]
  BY <1>2, <1>5
<1> HIDE DEF f
<1>7. IncreasingList(f, c + 1, places \union {last})
  <2>1. \A k \in 1 .. c + 1 : k = c + 1 \/ k \in 1 .. c
    BY <1>2
  <2>2. \A y \in places : \E k \in 1 .. c + 1 : f[k] = y
    BY <1>2, <1>6 DEF IncreasingList
  <2>3. \E k \in 1 .. c + 1 : f[k] = last
    BY <1>2, <1>6
  <2>4. ASSUME NEW i \in 1 .. c + 1, NEW k \in 1 .. c + 1 PROVE i < k <=> f[i] < f[k]
    <3>1. \A m \in 1 .. c : a[m] \in Nat /\ a[m] < last
      BY <1>1, <1>5
    <3>2. CASE i \in 1 .. c /\ k \in 1 .. c
      BY <1>2, <1>6, <3>2 DEF IncreasingList
    <3>3. CASE i = c + 1 /\ k \in 1 .. c
      <4>1. f[i] = last /\ f[k] = a[k] /\ ~(i < k)
        BY <1>2, <1>6, <3>3
      <4>2. ~(last < a[k])
        BY <1>1, <3>1, <3>3
      <4> QED BY <4>1, <4>2
    <3>4. CASE i \in 1 .. c /\ k = c + 1
      <4>1. f[k] = last /\ f[i] = a[i] /\ i < k
        BY <1>2, <1>6, <3>4
      <4> QED BY <3>1, <3>4, <4>1
    <3>5. CASE i = c + 1 /\ k = c + 1
      BY <1>1, <1>6, <3>5
    <3> QED BY <2>1, <3>2, <3>3, <3>4, <3>5
  <2> QED BY <1>6, <2>2, <2>3, <2>4 DEF IncreasingList
<1>8. Picked(more, places \union {last}) = Through(more, f, c + 1)
  <2>1. IsFiniteSet(places \union {last}) /\ places \union {last} \subseteq Int
    BY <1>1, <1>2, <1>3, FS_AddElement
  <2> QED BY <1>2, <1>7, <2>1, PickedBy
<1>9. Through(more, f, c + 1) = Append(picked, x)
  <2>1. /\ Append(picked, x) \in Seq(T) /\ Len(Append(picked, x)) = c + 1
        /\ Append(picked, x)[c + 1] = x /\ \A k \in 1 .. c : Append(picked, x)[k] = picked[k]
    BY <1>2, AppendProperties
  <2>2. DOMAIN Append(picked, x) = 1 .. c + 1
    BY <2>1, LenProperties
  <2>3. ASSUME NEW k \in 1 .. c + 1 PROVE more[f[k]] = Append(picked, x)[k]
    <3>1. CASE k = c + 1
      BY <1>1, <1>6, <2>1, <3>1
    <3>2. CASE k \in 1 .. c
      BY <1>1, <1>2, <1>5, <1>6, <2>1, <3>2
    <3> QED BY <1>2, <3>1, <3>2
  <2>4. Append(picked, x) = [k \in 1 .. c + 1 |-> Append(picked, x)[k]]
    <3> DEFINE longer == Append(picked, x)
    <3>1. longer \in [1 .. c + 1 -> T]
      BY <2>1, <2>2, LenProperties
    <3> HIDE DEF longer
    <3>2. longer = [k \in 1 .. c + 1 |-> longer[k]]
      BY <3>1
    <3> QED BY <3>2 DEF longer
  <2> QED BY <2>3, <2>4 DEF Through
<1> QED BY <1>4, <1>8, <1>9 DEF more, picked

(* An event kept of somebody is the last of their own, and nobody else's.  *)
LEMMA OwnLonger ==
  ASSUME NEW kept \in Seq(Keeping), NEW x \in Keeping, NEW id
  PROVE  /\ Own(kept, id) \in Seq(Keeping)
         /\ Own(Append(kept, x), id) = IF x.id = id THEN Append(Own(kept, id), x) ELSE Own(kept, id)
<1> DEFINE places == {k \in DOMAIN kept : kept[k].id = id}
           more == Append(kept, x)
           last == Len(kept) + 1
<1>1. /\ DOMAIN more = DOMAIN kept \union {last} /\ last \notin DOMAIN kept /\ more[last] = x
      /\ \A k \in DOMAIN kept : more[k] = kept[k]
  <2>1. /\ Len(more) = last /\ Len(kept) \in Nat /\ DOMAIN kept = 1 .. Len(kept)
        /\ DOMAIN more = 1 .. last /\ more[last] = x /\ \A k \in 1 .. Len(kept) : more[k] = kept[k]
    BY AppendProperties, LenProperties
  <2> QED BY <2>1
<1>2. Own(kept, id) = Picked(kept, places)
  BY DEF Own
<1>3. Own(more, id) = Picked(more, {k \in DOMAIN more : more[k].id = id})
  BY DEF Own
<1>4. {k \in DOMAIN more : more[k].id = id} = IF x.id = id THEN places \union {last} ELSE places
  BY <1>1
<1> HIDE DEF more, last
<1>5. places \subseteq DOMAIN kept
  OBVIOUS
<1> HIDE DEF places
<1>6. Picked(kept, places) \in Seq(Keeping)
  BY <1>5, PickedIs
<1>7. Picked(more, places) = Picked(kept, places)
      /\ Picked(more, places \union {last}) = Append(Picked(kept, places), x)
  BY <1>5, PickedLonger DEF more, last
<1> QED BY <1>2, <1>3, <1>4, <1>6, <1>7 DEF more

(* Whose id no event is kept under has none.                               *)
LEMMA OwnNone ==
  ASSUME NEW kept \in Seq(Keeping), NEW id, \A k \in DOMAIN kept : kept[k].id # id
  PROVE  Own(kept, id) = << >>
<1>1. {k \in DOMAIN kept : kept[k].id = id} = {}
  OBVIOUS
<1>2. Own(kept, id) = Picked(kept, {})
  BY <1>1 DEF Own
<1>3. Picked(kept, {}) \in Seq(Keeping) /\ Len(Picked(kept, {})) = 0
  BY PickedIs, FS_EmptySet
<1> QED BY <1>2, <1>3, EmptySeq

(* What an event is worth.                                                 *)
LEMMA HalfPointsIs ==
  ASSUME NEW event \in Event
  PROVE  /\ HalfPoints(event) \in Nat
         /\ HalfPoints(event) =
              IF ~event.doubtful /\ event.text = "substantive"
              THEN IF event.channel = "voice" THEN 2 ELSE 1
              ELSE 0
         /\ (Classify(event) # "AMBIGUOUS" <=> ~event.doubtful)
         /\ event.channel = "voice" \/ event.channel = "chat"
  BY DEF HalfPoints, Classify, Event

(* The score of somebody is added up one event after the other.            *)
LEMMA TotalFolds ==
  ASSUME NEW own \in Seq(Keeping), NEW n, n = Len(own)
  PROVE  \E r \in [0 .. n -> Nat] :
           /\ r[0] = 0
           /\ \A k \in 1 .. n : r[k] = r[k - 1] + HalfPoints(own[k].event)
           /\ Total(own) = r[n]
<1> DEFINE V == Nat
           step == [pair \in (1 .. n) \X V |-> pair[2] + HalfPoints(own[pair[1]].event)]
<1>1. n \in Nat /\ DOMAIN own = 1 .. n
  BY LenProperties
<1>2. step \in [(1 .. n) \X V -> V]
  <2> SUFFICES ASSUME NEW k \in 1 .. n, NEW v \in V PROVE v + HalfPoints(own[k].event) \in V
    OBVIOUS
  <2>1. own[k] \in Keeping
    BY <1>1, ElementOfSeq
  <2>2. own[k].event \in Event
    BY <2>1 DEF Keeping
  <2>3. HalfPoints(own[k].event) \in Nat
    BY <2>2, HalfPointsIs
  <2> QED
    BY <2>3
<1>3. 0 \in V
  OBVIOUS
<1>4. PICK f \in [SUBSET (1 .. n) -> V] : FoldsSets(f, n, 0, step)
  <2> HIDE DEF step, V
  <2> QED
    BY <1>1, <1>2, <1>3, RecursionOnSets
<1> DEFINE r == [k \in 0 .. n |-> f[1 .. k]]
           body(g, s) == IF s = {} THEN 0 ELSE g[s \ {Max(s)}] + HalfPoints(own[Max(s)].event)
           Folds(g) == g = [s \in SUBSET (1 .. n) |-> body(g, s)]
<1>5. r \in [0 .. n -> V] /\ Computes(r, n, 0, step)
  <2> HIDE DEF step, V
  <2> QED
    BY <1>1, <1>4, FoldsPrefixes
<1>6. r[0] = 0 /\ \A k \in 1 .. n : r[k] = r[k - 1] + HalfPoints(own[k].event)
  <2> HIDE DEF r
  <2>1. r[0] = 0 /\ \A k \in 1 .. n : r[k] = step[<<k, r[k - 1]>>]
    <3> HIDE DEF step, V
    <3> QED
      BY <1>5 DEF Computes
  <2>2. ASSUME NEW k \in 1 .. n PROVE step[<<k, r[k - 1]>>] = r[k - 1] + HalfPoints(own[k].event)
    <3>1. k - 1 \in 0 .. n
      BY <1>1
    <3>2. r[k - 1] \in V
      BY <1>5, <3>1
    <3> HIDE DEF V
    <3> QED
      BY <3>2
  <2> HIDE DEF step, V
  <2> QED
    BY <2>1, <2>2
<1>7. Folds(f)
  <2>1. ASSUME NEW s \in SUBSET (1 .. n) PROVE f[s] = body(f, s)
    <3>1. CASE s = {}
      BY <1>4, <3>1 DEF FoldsSets
    <3>2. CASE s # {}
      <4>1. IsFiniteSet(s) /\ s \subseteq Int
        BY <1>1, BoundedSet
      <4>2. Max(s) \in 1 .. n /\ s \ {Max(s)} \in SUBSET (1 .. n)
        BY <3>2, <4>1, MaxIs
      <4>3. f[s] = step[<<Max(s), f[s \ {Max(s)}]>>]
        <5> HIDE DEF step, V
        <5> QED
          BY <1>4, <3>2 DEF FoldsSets
      <4>4. f[s \ {Max(s)}] \in V
        BY <4>2
      <4>5. step[<<Max(s), f[s \ {Max(s)}]>>] = f[s \ {Max(s)}] + HalfPoints(own[Max(s)].event)
        <5> HIDE DEF V
        <5> QED
          BY <1>1, <4>2, <4>4
      <4> HIDE DEF step, V
      <4> QED
        BY <3>2, <4>3, <4>5
    <3> QED
      BY <3>1, <3>2
  <2> HIDE DEF body
  <2>2. f = [s \in SUBSET (1 .. n) |-> f[s]]
    OBVIOUS
  <2> QED
    BY <2>1, <2>2
<1> DEFINE iter == CHOOSE g : Folds(g)
<1>8. Folds(iter)
  <2> HIDE DEF Folds
  <2> QED
    BY <1>7
<1>9. Total(own) = iter[1 .. n]
  BY <1>1 DEF Total, FoldLeft, MapThenFoldSet
<1> HIDE DEF iter, r
<1>10. iter[1 .. n] = r[n]
  <2>1. iter[1 .. 0] = r[0]
    <3>1. 1 .. 0 = {} /\ {} \in SUBSET (1 .. n)
      OBVIOUS
    <3>2. iter[{}] = 0
      BY <1>8, <3>1
    <3> QED
      BY <1>6, <3>1, <3>2
  <2>2. ASSUME NEW k \in 1 .. n, iter[1 .. k - 1] = r[k - 1] PROVE iter[1 .. k] = r[k]
    <3>1. 1 .. k \in SUBSET (1 .. n) /\ 1 .. k # {} /\ Max(1 .. k) = k /\ (1 .. k) \ {k} = 1 .. k - 1
      BY <1>1, Initials
    <3>2. iter[1 .. k] = iter[1 .. k - 1] + HalfPoints(own[k].event)
      BY <1>8, <3>1
    <3> QED
      BY <1>1, <1>6, <2>2, <3>2
  <2> QED
    BY <1>1, <2>1, <2>2, SameSteps
<1> QED
  BY <1>5, <1>6, <1>9, <1>10

(* One more event of somebody adds what it is worth.                       *)
LEMMA TotalLonger ==
  ASSUME NEW own \in Seq(Keeping), NEW x \in Keeping
  PROVE  /\ Total(own) \in Nat
         /\ Total(Append(own, x)) = Total(own) + HalfPoints(x.event)
<1> DEFINE more == Append(own, x)
           n == Len(own)
           m == Len(more)
<1>1. /\ more \in Seq(Keeping) /\ m = n + 1 /\ n \in Nat /\ more[n + 1] = x
      /\ \A k \in 1 .. n : more[k] = own[k]
  BY AppendProperties, LenProperties
<1> HIDE DEF more
<1>2. PICK r \in [0 .. n -> Nat] :
        r[0] = 0 /\ (\A k \in 1 .. n : r[k] = r[k - 1] + HalfPoints(own[k].event)) /\ Total(own) = r[n]
  BY TotalFolds
<1>3. PICK q \in [0 .. m -> Nat] :
        q[0] = 0 /\ (\A k \in 1 .. m : q[k] = q[k - 1] + HalfPoints(more[k].event)) /\ Total(more) = q[m]
  BY <1>1, TotalFolds
<1> DEFINE T == {k \in 0 .. n : q[k] = r[k]}
<1>4. 0 \in T
  BY <1>1, <1>2, <1>3
<1>5. ASSUME NEW k \in 0 .. n - 1, k \in T PROVE k + 1 \in T
  <2>1. k + 1 \in 1 .. n /\ k + 1 \in 1 .. m /\ k + 1 - 1 = k /\ k + 1 \in 0 .. n
    BY <1>1
  <2>2. r[k + 1] = r[k] + HalfPoints(own[k + 1].event) /\ q[k + 1] = q[k] + HalfPoints(more[k + 1].event)
    BY <1>2, <1>3, <2>1
  <2> QED BY <1>1, <1>5, <2>1, <2>2
<1>6. 0 .. n \subseteq T
  <2> HIDE DEF T
  <2> QED BY <1>1, <1>4, <1>5, InductionUpTo
<1>7. n \in 0 .. n /\ n + 1 \in 1 .. m /\ n + 1 - 1 = n
  BY <1>1
<1>8. q[n] = r[n] /\ r[n] \in Nat
  BY <1>2, <1>6, <1>7
<1>9. q[m] = q[n] + HalfPoints(more[n + 1].event)
  <2>1. m = n + 1 /\ n + 1 \in 1 .. m /\ n + 1 - 1 = n
    BY <1>1, <1>7
  <2>2. q[n + 1] = q[n + 1 - 1] + HalfPoints(more[n + 1].event)
    BY <1>3, <2>1
  <2> QED BY <2>1, <2>2
<1> QED BY <1>1, <1>2, <1>3, <1>8, <1>9 DEF more

(* No events are worth nothing, and hold no doubt.                         *)
LEMMA TotalOfNone == Total(<< >>) = 0 /\ Certain(<< >>)
<1> DEFINE n == Len(<< >>)
<1>1. << >> \in Seq(Keeping) /\ n = 0
  OBVIOUS
<1>2. PICK r \in [0 .. n -> Nat] :
        r[0] = 0 /\ (\A k \in 1 .. n : r[k] = r[k - 1] + HalfPoints(<< >>[k].event)) /\ Total(<< >>) = r[n]
  BY <1>1, TotalFolds
<1> QED BY <1>1, <1>2 DEF Certain

(* One more event leaves no doubt unless it is doubtful.                   *)
LEMMA CertainLonger ==
  ASSUME NEW own \in Seq(Keeping), NEW x \in Keeping
  PROVE  Certain(Append(own, x)) <=> Certain(own) /\ ~x.event.doubtful
<1> DEFINE more == Append(own, x)
<1>1. /\ DOMAIN more = DOMAIN own \union {Len(own) + 1} /\ more[Len(own) + 1] = x
      /\ \A k \in DOMAIN own : more[k] = own[k]
  <2>1. /\ Len(more) = Len(own) + 1 /\ Len(own) \in Nat /\ DOMAIN own = 1 .. Len(own) /\ more \in Seq(Keeping)
        /\ DOMAIN more = 1 .. Len(own) + 1 /\ more[Len(own) + 1] = x /\ \A k \in 1 .. Len(own) : more[k] = own[k]
    BY AppendProperties, LenProperties
  <2> QED BY <2>1
<1>2. Classify(x.event) # "AMBIGUOUS" <=> ~x.event.doubtful
  BY HalfPointsIs DEF Keeping
<1> HIDE DEF more
<1>3. Certain(more) <=> Certain(own) /\ Classify(x.event) # "AMBIGUOUS"
  BY <1>1 DEF Certain
<1> QED BY <1>2, <1>3 DEF more
-----------------------------------------------------------------------------
(* What somebody said in the first k events, and what it is worth.         *)
HeardUpTo(md, person, events, k) ==
  {j \in 1 .. k : Speaks(events[j]) /\ CallsFor(md, person, events[j].name)}
CountedUpTo(md, person, events, k, channel) ==
  {j \in HeardUpTo(md, person, events, k) :
     events[j].channel = channel /\ ~events[j].doubtful /\ events[j].text = "substantive"}
PointsUpTo(md, person, events, k) ==
  2 * Cardinality(CountedUpTo(md, person, events, k, "voice"))
    + Cardinality(CountedUpTo(md, person, events, k, "chat"))
DoubtUpTo(md, person, events, k) == \E j \in HeardUpTo(md, person, events, k) : events[j].doubtful

(* What is kept of a participant gives the score of what they said; of     *)
(* others nothing is kept.                                                 *)
HasId(kept, id) == \E m \in DOMAIN kept : kept[m].id = id
Scored(md, person, kept, events, k) ==
  IF person.role = "participant"
  THEN /\ Total(Own(kept, person.id)) = PointsUpTo(md, person, events, k)
       /\ HasId(kept, person.id) <=> HeardUpTo(md, person, events, k) # {}
       /\ Certain(Own(kept, person.id)) <=> ~DoubtUpTo(md, person, events, k)
  ELSE ~HasId(kept, person.id)

(* What is heard of somebody is finitely much.                             *)
LEMMA CountedAre ==
  ASSUME NEW md, NEW person, NEW events, NEW k \in Nat, NEW channel
  PROVE  /\ IsFiniteSet(CountedUpTo(md, person, events, k, channel))
         /\ Cardinality(CountedUpTo(md, person, events, k, channel)) \in Nat
         /\ IsFiniteSet(HeardUpTo(md, person, events, k))
<1>1. CountedUpTo(md, person, events, k, channel) \subseteq 1 .. k /\ HeardUpTo(md, person, events, k) \subseteq 1 .. k
  BY DEF CountedUpTo, HeardUpTo
<1> QED BY <1>1, BoundedSet

(* Points are a number.                                                    *)
LEMMA PointsAre ==
  ASSUME NEW md, NEW person, NEW events, NEW k \in Nat
  PROVE  PointsUpTo(md, person, events, k) \in Nat
<1>1. Cardinality(CountedUpTo(md, person, events, k, "voice")) \in Nat
      /\ Cardinality(CountedUpTo(md, person, events, k, "chat")) \in Nat
  BY CountedAre
<1> QED BY <1>1 DEF PointsUpTo

(* An event that is not theirs changes nothing for somebody.               *)
LEMMA NotHeard ==
  ASSUME NEW md, NEW person, NEW events, NEW k \in Nat,
         ~(Speaks(events[k + 1]) /\ CallsFor(md, person, events[k + 1].name))
  PROVE  HeardUpTo(md, person, events, k + 1) = HeardUpTo(md, person, events, k)
<1>1. \A j : j \in 1 .. k + 1 <=> j \in 1 .. k \/ j = k + 1
  OBVIOUS
<1> QED BY <1>1 DEF HeardUpTo

(* An event of somebody else changes no score.                             *)
LEMMA SameScored ==
  ASSUME NEW md, NEW person, NEW events, NEW k \in Nat, NEW kept \in Seq(Keeping), NEW more,
         ~(Speaks(events[k + 1]) /\ CallsFor(md, person, events[k + 1].name)),
         more = kept \/ \E x \in Keeping : x.id # person.id /\ more = Append(kept, x),
         Scored(md, person, kept, events, k)
  PROVE  Scored(md, person, more, events, k + 1)
<1>1. HeardUpTo(md, person, events, k + 1) = HeardUpTo(md, person, events, k)
  BY NotHeard
<1>2. /\ PointsUpTo(md, person, events, k + 1) = PointsUpTo(md, person, events, k)
      /\ DoubtUpTo(md, person, events, k + 1) <=> DoubtUpTo(md, person, events, k)
  BY <1>1 DEF PointsUpTo, DoubtUpTo, CountedUpTo
<1>3. Own(more, person.id) = Own(kept, person.id) /\ (HasId(more, person.id) <=> HasId(kept, person.id))
  <2>1. ASSUME NEW x \in Keeping, x.id # person.id
        PROVE  /\ Own(Append(kept, x), person.id) = Own(kept, person.id)
               /\ HasId(Append(kept, x), person.id) <=> HasId(kept, person.id)
    <3>1. Own(Append(kept, x), person.id) = Own(kept, person.id)
      BY <2>1, OwnLonger
    <3> DEFINE longer == Append(kept, x)
    <3>2. /\ DOMAIN longer = 1 .. Len(kept) + 1 /\ Len(kept) \in Nat /\ DOMAIN kept = 1 .. Len(kept)
          /\ longer[Len(kept) + 1] = x /\ \A i \in 1 .. Len(kept) : longer[i] = kept[i]
      BY AppendProperties, LenProperties
    <3> HIDE DEF longer
    <3>3. \A i : i \in DOMAIN longer <=> i \in DOMAIN kept \/ i = Len(kept) + 1
      BY <3>2
    <3>4. HasId(longer, person.id) <=> HasId(kept, person.id)
      BY <2>1, <3>2, <3>3 DEF HasId
    <3> QED BY <3>1, <3>4 DEF longer
  <2>2. CASE more = kept
    BY <2>2
  <2>3. CASE \E x \in Keeping : x.id # person.id /\ more = Append(kept, x)
    <3>1. PICK x \in Keeping : x.id # person.id /\ more = Append(kept, x)
      BY <2>3
    <3> HIDE <2>3
    <3> QED BY <2>1, <3>1
  <2> QED BY <2>2, <2>3
<1> QED BY <1>1, <1>2, <1>3 DEF Scored

(* An event of theirs is added to what somebody said and to what is kept.  *)
LEMMA NextScored ==
  ASSUME NEW md, NEW person, NEW events, NEW k \in Nat, NEW kept \in Seq(Keeping), NEW more,
         NEW event \in Event, events[k + 1] = event, Speaks(event), CallsFor(md, person, event.name),
         person.id \in Participant,
         more = IF person.role = "participant"
                THEN Append(kept, [id |-> person.id, event |-> event]) ELSE kept,
         Scored(md, person, kept, events, k)
  PROVE  Scored(md, person, more, events, k + 1)
<1>1. CASE person.role # "participant"
  BY <1>1 DEF Scored
<1>2. CASE person.role = "participant"
  <2> DEFINE x == [id |-> person.id, event |-> event]
             id == person.id
             heard == HeardUpTo(md, person, events, k)
             voice == CountedUpTo(md, person, events, k, "voice")
             chat == CountedUpTo(md, person, events, k, "chat")
             own == Own(kept, id)
             counts == ~event.doubtful /\ event.text = "substantive"
  <2>1. x \in Keeping /\ x.id = id /\ x.event = event
    BY DEF Keeping
  <2>2. more = Append(kept, x)
    BY <1>2
  <2> HIDE DEF x
  <2>3. Own(more, id) = Append(own, x) /\ own \in Seq(Keeping)
    BY <2>1, <2>2, OwnLonger
  <2>4. HasId(more, id)
    <3>1. more[Len(kept) + 1] = x /\ Len(kept) + 1 \in DOMAIN more
      BY <2>1, <2>2, AppendProperties, LenProperties
    <3> QED BY <2>1, <3>1 DEF HasId
  <2>5. HeardUpTo(md, person, events, k + 1) = heard \union {k + 1} /\ k + 1 \notin heard
    <3>1. \A j : j \in 1 .. k + 1 <=> j \in 1 .. k \/ j = k + 1
      OBVIOUS
    <3> QED BY <3>1 DEF HeardUpTo
  <2>6. \A channel : CountedUpTo(md, person, events, k + 1, channel) =
          IF counts /\ event.channel = channel THEN CountedUpTo(md, person, events, k, channel) \union {k + 1}
          ELSE CountedUpTo(md, person, events, k, channel)
    BY <2>5 DEF CountedUpTo
  <2>7. k + 1 \notin voice /\ k + 1 \notin chat
    BY <2>5 DEF CountedUpTo
  <2>8. /\ IsFiniteSet(voice) /\ IsFiniteSet(chat)
        /\ Cardinality(voice) \in Nat /\ Cardinality(chat) \in Nat
    BY CountedAre
  <2>9. Total(own) = 2 * Cardinality(voice) + Cardinality(chat)
        /\ (Certain(own) <=> ~DoubtUpTo(md, person, events, k))
    BY <1>2 DEF Scored, PointsUpTo
  <2>10. Total(Own(more, id)) = Total(own) + HalfPoints(event)
    BY <2>1, <2>3, TotalLonger
  <2>11. Certain(Own(more, id)) <=> Certain(own) /\ ~event.doubtful
    <3>1. Certain(Append(own, x)) <=> Certain(own) /\ ~x.event.doubtful
      BY <2>1, <2>3, CertainLonger
    <3> QED BY <2>1, <2>3, <3>1
  <2>12. HalfPoints(event) = (IF counts THEN IF event.channel = "voice" THEN 2 ELSE 1 ELSE 0)
         /\ (event.channel = "voice" \/ event.channel = "chat")
    BY HalfPointsIs
  <2>13. DoubtUpTo(md, person, events, k + 1) <=> DoubtUpTo(md, person, events, k) \/ event.doubtful
    BY <2>5 DEF DoubtUpTo
  <2> DEFINE voice1 == CountedUpTo(md, person, events, k + 1, "voice")
             chat1 == CountedUpTo(md, person, events, k + 1, "chat")
  <2>14. /\ voice1 = IF counts /\ event.channel = "voice" THEN voice \union {k + 1} ELSE voice
         /\ chat1 = IF counts /\ event.channel = "chat" THEN chat \union {k + 1} ELSE chat
    BY <2>6
  <2> HIDE DEF voice, chat, own, heard, counts, id, voice1, chat1
  <2>15. /\ Cardinality(voice1) = Cardinality(voice) + (IF counts /\ event.channel = "voice" THEN 1 ELSE 0)
         /\ Cardinality(chat1) = Cardinality(chat) + (IF counts /\ event.channel = "chat" THEN 1 ELSE 0)
    <3>1. Cardinality(voice \union {k + 1}) = Cardinality(voice) + 1
          /\ Cardinality(chat \union {k + 1}) = Cardinality(chat) + 1
      BY <2>7, <2>8, FS_AddElement
    <3> QED BY <2>8, <2>14, <3>1
  <2>16. Total(Own(more, id)) = 2 * Cardinality(voice1) + Cardinality(chat1)
    <3>1. CASE ~counts
      BY <2>8, <2>9, <2>10, <2>12, <2>15, <3>1
    <3>2. CASE counts /\ event.channel = "voice"
      <4>1. event.channel # "chat"
        BY <3>2
      <4>2. Cardinality(voice1) = Cardinality(voice) + 1 /\ Cardinality(chat1) = Cardinality(chat)
        BY <2>8, <2>15, <3>2, <4>1
      <4>3. HalfPoints(event) = 2
        BY <2>12, <3>2
      <4> QED BY <2>8, <2>9, <2>10, <4>2, <4>3
    <3>3. CASE counts /\ event.channel # "voice"
      <4>1. event.channel = "chat"
        BY <2>12, <3>3
      <4>2. Cardinality(voice1) = Cardinality(voice) /\ Cardinality(chat1) = Cardinality(chat) + 1
        BY <2>8, <2>15, <3>3, <4>1
      <4>3. HalfPoints(event) = 1
        BY <2>12, <3>3
      <4> QED BY <2>8, <2>9, <2>10, <4>2, <4>3
    <3> QED BY <3>1, <3>2, <3>3
  <2>17. PointsUpTo(md, person, events, k + 1) = 2 * Cardinality(voice1) + Cardinality(chat1)
    BY DEF PointsUpTo, voice1, chat1
  <2>18. HeardUpTo(md, person, events, k + 1) # {}
    BY <2>5
  <2> QED BY <1>2, <2>4, <2>9, <2>11, <2>13, <2>16, <2>17, <2>18 DEF Scored, id
<1> QED BY <1>1, <1>2

(* Who is new has said nothing yet.                                        *)
LEMMA NewScored ==
  ASSUME NEW md, NEW person, NEW events, NEW k \in Nat, NEW kept \in Seq(Keeping),
         ~HasId(kept, person.id), \A j \in 1 .. k : j \notin HeardUpTo(md, person, events, k)
  PROVE  Scored(md, person, kept, events, k)
<1>1. Own(kept, person.id) = << >>
  BY OwnNone DEF HasId
<1>2. HeardUpTo(md, person, events, k) = {}
  BY DEF HeardUpTo
<1>3. CountedUpTo(md, person, events, k, "voice") = {} /\ CountedUpTo(md, person, events, k, "chat") = {}
  BY <1>2 DEF CountedUpTo
<1>4. /\ Cardinality(CountedUpTo(md, person, events, k, "voice")) = 0
      /\ Cardinality(CountedUpTo(md, person, events, k, "chat")) = 0
  BY <1>3, FS_EmptySet
<1>5. PointsUpTo(md, person, events, k) = 0
  BY <1>3, <1>4 DEF PointsUpTo
<1>6. ~DoubtUpTo(md, person, events, k)
  BY <1>2 DEF DoubtUpTo
<1> QED BY <1>1, <1>2, <1>5, <1>6, TotalOfNone DEF Scored
-----------------------------------------------------------------------------
(* What the loop has come to after k events, unless somebody is to be      *)
(* reviewed: everybody who spoke is there, and scored.                     *)
Present(md, sp, events, k) ==
  \A j \in 1 .. k : Speaks(events[j]) => \E i \in DOMAIN sp : CallsFor(md, sp[i], events[j].name)
Known(sp, kept) == \A m \in DOMAIN kept : \E i \in DOMAIN sp : sp[i].id = kept[m].id
Tally(md, sofar, events, k) ==
  sofar.reviews = 0 =>
    /\ Present(md, sofar.people, events, k)
    /\ Known(sofar.people, sofar.kept)
    /\ \A i \in DOMAIN sofar.people : Scored(md, sofar.people[i], sofar.kept, events, k)

Begins(sp, new) == \A i \in DOMAIN sp : i \in DOMAIN new /\ new[i] = sp[i]

(* A longer list of people begins with the shorter.                        *)
LEMMA GrowsBegins ==
  ASSUME NEW md, NEW sp, NEW new, NEW name, Grows(md, sp, new, name)
  PROVE  Begins(sp, new)
  BY DEF Grows, Begins

(* The tally stays right when an event is resolved.                        *)
LEMMA TallyResolved ==
  ASSUME NEW md, NEW old \in Sofar(md), NEW new \in Sofar(md), NEW events \in Seq(Event), NEW k \in Nat,
         k + 1 \in DOMAIN events, Tally(md, old, events, k), NEW i,
         Resolves(md, new, old, events[k + 1], i), new.reviews = 0
  PROVE  Tally(md, new, events, k + 1)
<1> DEFINE event == events[k + 1]
           sp == old.people
           np == new.people
           kept == old.kept
           more == new.kept
           x == [id |-> np[i].id, event |-> event]
<1>1. event \in Event
  BY ElementOfSeq
<1>2. /\ sp \in Seq(Someone) /\ np \in Seq(Someone) /\ kept \in Seq(Keeping)
      /\ Distinguished(md, np)
  BY DEF Sofar, People
<1>3. /\ Speaks(event) /\ old.reviews = 0 /\ Grows(md, sp, np, event.name)
      /\ i \in DOMAIN np /\ CallsFor(md, np[i], event.name)
      /\ more = IF np[i].role = "participant" THEN Append(kept, x) ELSE kept
  BY DEF Resolves
<1>4. /\ Present(md, sp, events, k) /\ Known(sp, kept)
      /\ \A q \in DOMAIN sp : Scored(md, sp[q], kept, events, k)
  BY <1>3 DEF Tally
<1>5. Begins(sp, np)
  BY <1>3, GrowsBegins
<1>6. \A q \in DOMAIN np : np[q] \in Someone /\ np[q].id \in Participant
  <2>1. \A q \in DOMAIN np : np[q] \in Someone
    BY <1>2, ElementOfSeq
  <2> QED BY <2>1 DEF Someone
<1>7. \A q \in DOMAIN np : np[q].id = np[i].id \/ CallsFor(md, np[q], event.name) => q = i
  <2>1. event.name \in Name
    BY <1>1 DEF Event
  <2> QED BY <1>2, <1>3, <2>1 DEF Distinguished
<1> HIDE DEF event, sp, np, kept, more, x
<1>8. ASSUME NEW q \in DOMAIN np, q \notin DOMAIN sp
      PROVE  q = i /\ ~HasId(kept, np[q].id) /\ HeardUpTo(md, np[q], events, k) = {}
  <2>1. np # sp
    BY <1>8
  <2>2. CallsFor(md, np[q], event.name)
    BY <1>3, <1>8, <2>1 DEF Grows
  <2>3. q = i
    BY <1>7, <2>2
  <2>4. ASSUME HasId(kept, np[q].id) PROVE FALSE
    <3>1. PICK m \in DOMAIN kept : kept[m].id = np[q].id
      BY <2>4 DEF HasId
    <3>2. PICK p \in DOMAIN sp : sp[p].id = kept[m].id
      BY <1>4 DEF Known
    <3>3. p \in DOMAIN np /\ np[p].id = np[q].id
      BY <1>5, <3>1, <3>2 DEF Begins
    <3>4. p = q
      BY <1>2, <3>3 DEF Distinguished
    <3> QED BY <1>8, <3>4
  <2>5. ASSUME NEW j \in HeardUpTo(md, np[q], events, k) PROVE FALSE
    <3>1. j \in 1 .. k /\ Speaks(events[j]) /\ CallsFor(md, np[q], events[j].name)
      BY <2>5 DEF HeardUpTo
    <3>2. PICK p \in DOMAIN sp : CallsFor(md, sp[p], events[j].name)
      BY <1>4, <3>1 DEF Present
    <3>3. p \in DOMAIN np /\ CallsFor(md, np[p], events[j].name)
      BY <1>5, <3>2 DEF Begins
    <3>4. events[j].name \in Name
      <4>1. DOMAIN events = 1 .. Len(events) /\ Len(events) \in Nat
        BY LenProperties
      <4>2. j \in DOMAIN events
        BY <3>1, <4>1
      <4>3. events[j] \in Event
        BY <4>2, ElementOfSeq
      <4> QED BY <4>3 DEF Event
    <3>5. p = q
      BY <1>2, <3>1, <3>3, <3>4 DEF Distinguished
    <3> QED BY <1>8, <3>5
  <2> QED BY <2>3, <2>4, <2>5
<1>9. ASSUME NEW q \in DOMAIN np PROVE Scored(md, np[q], kept, events, k)
  <2>1. CASE q \in DOMAIN sp
    BY <1>4, <1>5, <2>1 DEF Begins
  <2>2. CASE q \notin DOMAIN sp
    BY <1>2, <1>8, <2>2, NewScored
  <2> QED BY <2>1, <2>2
<1>10. x \in Keeping /\ x.id = np[i].id
  BY <1>1, <1>3, <1>6 DEF x, Keeping
<1>11. ASSUME NEW q \in DOMAIN np PROVE Scored(md, np[q], more, events, k + 1)
  <2>1. CASE q = i
    <3>1. more = IF np[q].role = "participant" THEN Append(kept, [id |-> np[q].id, event |-> event]) ELSE kept
      BY <1>3, <2>1 DEF x
    <3>2. events[k + 1] = event /\ CallsFor(md, np[q], event.name) /\ np[q].id \in Participant
      BY <1>3, <1>6, <2>1 DEF event
    <3> QED BY <1>1, <1>2, <1>3, <1>9, <3>1, <3>2, NextScored
  <2>2. CASE q # i
    <3>1. ~CallsFor(md, np[q], events[k + 1].name) /\ np[q].id # np[i].id
      BY <1>7, <2>2 DEF event
    <3>2. more = kept \/ \E y \in Keeping : y.id # np[q].id /\ more = Append(kept, y)
      BY <1>3, <1>10, <3>1
    <3> QED BY <1>2, <1>9, <3>1, <3>2, SameScored
  <2> QED BY <2>1, <2>2
<1>12. Present(md, np, events, k + 1)
  <2>1. \A j : j \in 1 .. k + 1 <=> j \in 1 .. k \/ j = k + 1
    OBVIOUS
  <2> QED BY <1>3, <1>4, <1>5, <2>1 DEF Present, Begins, event
<1>13. Known(np, more)
  <2>1. Known(np, kept)
    BY <1>4, <1>5 DEF Known, Begins
  <2>2. CASE more = kept
    BY <2>1, <2>2
  <2>3. CASE more = Append(kept, x)
    <3>1. /\ DOMAIN more = 1 .. Len(kept) + 1 /\ Len(kept) \in Nat /\ DOMAIN kept = 1 .. Len(kept)
          /\ more[Len(kept) + 1] = x /\ \A m \in 1 .. Len(kept) : more[m] = kept[m]
      BY <1>2, <1>10, <2>3, AppendProperties, LenProperties
    <3>2. \A m : m \in DOMAIN more <=> m \in DOMAIN kept \/ m = Len(kept) + 1
      BY <3>1
    <3> QED BY <1>3, <1>10, <2>1, <3>1, <3>2 DEF Known
  <2> QED BY <1>3, <2>2, <2>3
<1> QED BY <1>11, <1>12, <1>13 DEF Tally, np, more

(* The tally stays right in every turn of the loop.                        *)
LEMMA TallyNext ==
  ASSUME NEW md, NEW old \in Sofar(md), NEW new \in Sofar(md), NEW events \in Seq(Event), NEW k \in Nat,
         k + 1 \in DOMAIN events, Tally(md, old, events, k),
         \/ Passes(new, old, events[k + 1]) \/ Reviews(new, old, events[k + 1])
         \/ \E i : Resolves(md, new, old, events[k + 1], i)
  PROVE  Tally(md, new, events, k + 1) /\ Begins(old.people, new.people)
<1>1. CASE Passes(new, old, events[k + 1])
  <2>1. new = old /\ ~Speaks(events[k + 1])
    BY <1>1 DEF Passes
  <2>2. Begins(old.people, new.people)
    BY <2>1 DEF Begins
  <2> SUFFICES ASSUME new.reviews = 0 PROVE Tally(md, new, events, k + 1)
    BY <2>2 DEF Tally
  <2>3. /\ Present(md, new.people, events, k) /\ Known(new.people, new.kept)
        /\ \A i \in DOMAIN new.people : Scored(md, new.people[i], new.kept, events, k)
    BY <2>1 DEF Tally
  <2>4. Present(md, new.people, events, k + 1)
    <3>1. \A j : j \in 1 .. k + 1 <=> j \in 1 .. k \/ j = k + 1
      OBVIOUS
    <3> QED BY <2>1, <2>3, <3>1 DEF Present
  <2>5. ASSUME NEW i \in DOMAIN new.people PROVE Scored(md, new.people[i], new.kept, events, k + 1)
    <3>1. new.kept \in Seq(Keeping)
      BY DEF Sofar
    <3>2. Scored(md, new.people[i], new.kept, events, k)
      BY <2>3
    <3> QED BY <2>1, <3>1, <3>2, SameScored
  <2> QED BY <2>3, <2>4, <2>5 DEF Tally
<1>2. CASE Reviews(new, old, events[k + 1])
  <2>1. old.reviews \in Nat /\ new.reviews = old.reviews + 1 /\ new.people = old.people
    BY <1>2 DEF Reviews, Sofar
  <2>2. new.reviews # 0
    BY <2>1
  <2> QED BY <2>1, <2>2 DEF Tally, Begins
<1>3. ASSUME NEW i, Resolves(md, new, old, events[k + 1], i)
      PROVE  Tally(md, new, events, k + 1) /\ Begins(old.people, new.people)
  <2>1. new.reviews = 0 => Tally(md, new, events, k + 1)
    BY <1>3, TallyResolved
  <2>2. new.reviews # 0 => Tally(md, new, events, k + 1)
    BY DEF Tally
  <2>3. Grows(md, old.people, new.people, events[k + 1].name)
    BY <1>3 DEF Resolves
  <2> QED BY <2>1, <2>2, <2>3, GrowsBegins
<1> QED BY <1>1, <1>2, <1>3

(* The whole loop: nobody who was there is touched, and unless somebody is *)
(* to be reviewed everybody who spoke is there, and scored.                *)
LEMMA ResolvedIs ==
  ASSUME NEW base, base.reviews = 0, base.kept = << >>, base \in Sofar(mode),
         NEW events \in Seq(Event), NEW resolved, resolved = ResolvedFrom(base, events)
  PROVE  /\ resolved \in Sofar(mode) /\ Begins(base.people, resolved.people)
         /\ Tally(mode, resolved, events, Len(events))
<1> DEFINE n == Len(events)
<1>1. n \in Nat /\ DOMAIN events = 1 .. n
  BY LenProperties
<1>2. PICK r \in [0 .. n -> Sofar(mode)] :
        /\ r[0] = base
        /\ \A k \in 1 .. n : r[k] = ResolveNext(r[k - 1], events[k])
        /\ ResolvedFrom(base, events) = r[n]
  BY ResolveFolds
<1> DEFINE T == {k \in 0 .. n : Tally(mode, r[k], events, k) /\ Begins(base.people, r[k].people)}
<1>3. Tally(mode, base, events, 0)
  <2>1. base.kept \in Seq(Keeping) /\ DOMAIN base.kept = {}
    BY DEF Sofar
  <2>2. \A i \in DOMAIN base.people : Scored(mode, base.people[i], base.kept, events, 0)
    <3> SUFFICES ASSUME NEW i \in DOMAIN base.people
                 PROVE  Scored(mode, base.people[i], base.kept, events, 0)
      OBVIOUS
    <3> DEFINE person == base.people[i]
               kept == base.kept
    <3>1. kept \in Seq(Keeping) /\ ~HasId(kept, person.id)
      BY <2>1 DEF HasId
    <3>2. 0 \in Nat /\ \A j \in 1 .. 0 : j \notin HeardUpTo(mode, person, events, 0)
      OBVIOUS
    <3> HIDE DEF person, kept
    <3>3. Scored(mode, person, kept, events, 0)
      BY <3>1, <3>2, NewScored
    <3> QED BY <3>3 DEF person, kept
  <2> QED BY <2>1, <2>2 DEF Tally, Present, Known
<1>4. 0 \in T
  BY <1>1, <1>2, <1>3 DEF Begins
<1>5. ASSUME NEW k \in 0 .. n - 1, k \in T PROVE k + 1 \in T
  <2>1. k \in Nat /\ k + 1 \in 1 .. n /\ k + 1 - 1 = k /\ k + 1 \in 0 .. n /\ k \in 0 .. n
    BY <1>1
  <2>2. r[k] \in Sofar(mode) /\ r[k + 1] \in Sofar(mode) /\ r[k + 1] = ResolveNext(r[k], events[k + 1])
    BY <1>2, <2>1
  <2>3. Tally(mode, r[k], events, k) /\ Begins(base.people, r[k].people)
    BY <1>5
  <2>4. events[k + 1] \in Event /\ k + 1 \in DOMAIN events
    BY <1>1, <2>1, ElementOfSeq
  <2>5. \/ Passes(r[k + 1], r[k], events[k + 1]) \/ Reviews(r[k + 1], r[k], events[k + 1])
        \/ \E i : Resolves(mode, r[k + 1], r[k], events[k + 1], i)
    BY <2>2, <2>4, NextIs
  <2>6. Tally(mode, r[k + 1], events, k + 1) /\ Begins(r[k].people, r[k + 1].people)
    BY <2>1, <2>2, <2>3, <2>4, <2>5, TallyNext
  <2>7. Begins(base.people, r[k + 1].people)
    BY <2>3, <2>6 DEF Begins
  <2> QED BY <2>1, <2>6, <2>7
<1>6. 0 .. n \subseteq T
  <2> HIDE DEF T
  <2> QED BY <1>1, <1>4, <1>5, InductionUpTo
<1>7. n \in T /\ n \in 0 .. n
  BY <1>1, <1>6
<1> QED BY <1>2, <1>7

-----------------------------------------------------------------------------
(* The scores of a session are a row for everybody who spoke.              *)
RowFor(md, person, s, events) ==
  [session |-> s, id |-> person.id, active |-> TRUE,
   score |-> PointsUpTo(md, person, events, Len(events)),
   complete |-> ~DoubtUpTo(md, person, events, Len(events))]
SpokeIn(md, person, events) == HeardUpTo(md, person, events, Len(events)) # {}
RowsFor(md, sp, s, events) ==
  {RowFor(md, sp[i], s, events) :
     i \in {j \in DOMAIN sp : sp[j].role = "participant" /\ SpokeIn(md, sp[j], events)}}

(* The scores made from the tally are the rows of the people.              *)
LEMMA ScoresAre ==
  ASSUME NEW md, NEW sofar \in Sofar(md), sofar.reviews = 0, NEW events \in Seq(Event),
         Tally(md, sofar, events, Len(events)), NEW s
  PROVE  Scores(s, sofar.kept) = RowsFor(md, sofar.people, s, events)
<1> DEFINE n == Len(events)
           sp == sofar.people
           kept == sofar.kept
           own(id) == [session |-> s, id |-> id, active |-> TRUE, score |-> Total(Own(kept, id)),
                       complete |-> Certain(Own(kept, id))]
<1>1. /\ Known(sp, kept)
      /\ \A i \in DOMAIN sp : Scored(md, sp[i], kept, events, n)
  BY DEF Tally
<1>2. ASSUME NEW i \in DOMAIN sp
      PROVE  HasId(kept, sp[i].id) <=> sp[i].role = "participant" /\ SpokeIn(md, sp[i], events)
  BY <1>1 DEF Scored, SpokeIn
<1>3. ASSUME NEW i \in DOMAIN sp, HasId(kept, sp[i].id)
      PROVE  own(sp[i].id) = RowFor(md, sp[i], s, events)
  <2>1. sp[i].role = "participant"
    BY <1>2, <1>3
  <2>2. Total(Own(kept, sp[i].id)) = PointsUpTo(md, sp[i], events, n)
        /\ (Certain(Own(kept, sp[i].id)) <=> ~DoubtUpTo(md, sp[i], events, n))
    BY <1>1, <2>1 DEF Scored
  <2>3. Certain(Own(kept, sp[i].id)) \in BOOLEAN /\ DoubtUpTo(md, sp[i], events, n) \in BOOLEAN
    BY DEF Certain, DoubtUpTo
  <2>4. Certain(Own(kept, sp[i].id)) = ~DoubtUpTo(md, sp[i], events, n)
    BY <2>2, <2>3
  <2> QED BY <2>2, <2>4 DEF RowFor
<1>4. Scores(s, kept) = {own(id) : id \in {kept[k].id : k \in DOMAIN kept}}
  BY DEF Scores
<1> HIDE DEF own, n, sp, kept
<1>5. ASSUME NEW k \in DOMAIN kept
      PROVE  \E i \in DOMAIN sp : /\ sp[i].role = "participant" /\ SpokeIn(md, sp[i], events)
                                  /\ own(kept[k].id) = RowFor(md, sp[i], s, events)
  <2>1. PICK i \in DOMAIN sp : sp[i].id = kept[k].id
    BY <1>1 DEF Known
  <2>2. HasId(kept, sp[i].id)
    BY <2>1 DEF HasId
  <2>3. own(sp[i].id) = RowFor(md, sp[i], s, events)
    BY <1>3, <2>2
  <2> QED BY <1>2, <2>1, <2>2, <2>3
<1>6. ASSUME NEW i \in DOMAIN sp, sp[i].role = "participant", SpokeIn(md, sp[i], events)
      PROVE  \E k \in DOMAIN kept : own(kept[k].id) = RowFor(md, sp[i], s, events)
  <2>1. HasId(kept, sp[i].id)
    BY <1>2, <1>6
  <2>2. PICK k \in DOMAIN kept : kept[k].id = sp[i].id
    BY <2>1 DEF HasId
  <2>3. own(sp[i].id) = RowFor(md, sp[i], s, events)
    BY <1>3, <2>1
  <2> QED BY <2>2, <2>3
<1>7. Scores(s, kept) = RowsFor(md, sp, s, events)
  BY <1>4, <1>5, <1>6 DEF RowsFor
<1> QED BY <1>7 DEF sp, kept

-----------------------------------------------------------------------------
(* A list of lists of something, flattened, is a list of it.               *)
LEMMA FlattenedIs ==
  ASSUME NEW T, NEW seqs \in Seq(Seq(T))
  PROVE  FlattenSeq(seqs) \in Seq(T)
<1> DEFINE n == Len(seqs)
           V == Seq(T)
           step == [pair \in (1 .. n) \X V |-> pair[2] \o seqs[pair[1]]]
<1>1. n \in Nat /\ DOMAIN seqs = 1 .. n
  BY LenProperties
<1>2. CASE n = 0
  <2>1. seqs = << >>
    BY <1>2, EmptySeq
  <2>2. FlattenSeq(seqs) = seqs
    BY <1>2 DEF FlattenSeq
  <2>3. << >> \in Seq(T)
    OBVIOUS
  <2> QED BY <2>1, <2>2, <2>3
<1>3. CASE n # 0
  <2>1. \A k \in 1 .. n : seqs[k] \in V
    BY <1>1, ElementOfSeq
  <2>2. step \in [(1 .. n) \X V -> V] /\ << >> \in V
    BY <2>1, ConcatProperties
  <2>3. PICK f \in [0 .. n -> V] : Computes(f, n, << >>, step)
    <3> HIDE DEF step, V, n
    <3> QED BY <1>1, <2>2, Recursion
  <2>4. f[0] = << >> /\ \A k \in 1 .. n : f[k - 1] \in V /\ f[k] = f[k - 1] \o seqs[k]
    <3>1. ASSUME NEW k \in 1 .. n PROVE f[k - 1] \in V /\ f[k] \in V
      <4>1. k - 1 \in 0 .. n /\ k \in 0 .. n
        BY <1>1
      <4> HIDE DEF V
      <4> QED BY <2>3, <4>1
    <3> QED BY <2>3, <3>1 DEF Computes
  <2>5. f[1] = seqs[1]
    <3>1. 1 \in 1 .. n /\ 1 - 1 = 0
      BY <1>1, <1>3
    <3>2. f[1] = << >> \o seqs[1] /\ seqs[1] \in Seq(T)
      BY <2>1, <2>4, <3>1
    <3> QED BY <3>2, ConcatEmptySeq
  <2> DEFINE body(g, i) == IF i = 1 THEN seqs[i] ELSE g[i - 1] \o seqs[i]
             Flattens(g) == g = [i \in 1 .. n |-> body(g, i)]
             h == [i \in 1 .. n |-> f[i]]
  <2>6. Flattens(h)
    <3>1. ASSUME NEW i \in 1 .. n PROVE f[i] = body(h, i)
      <4>1. CASE i = 1
        BY <2>5, <4>1
      <4>2. CASE i # 1
        <5>1. i - 1 \in 1 .. n
          BY <1>1, <4>2
        <5>2. h[i - 1] = f[i - 1]
          BY <5>1
        <5> QED BY <2>4, <4>2, <5>2
      <4> QED BY <4>1, <4>2
    <3> HIDE DEF body
    <3> QED BY <3>1
  <2> DEFINE flatten == CHOOSE g : Flattens(g)
  <2>7. Flattens(flatten)
    <3> HIDE DEF Flattens, h
    <3> QED BY <2>6
  <2>8. FlattenSeq(seqs) = flatten[n]
    BY <1>3 DEF FlattenSeq
  <2> HIDE DEF flatten
  <2> DEFINE R == {k \in 0 .. n : k = 0 \/ flatten[k] \in V}
  <2>9. ASSUME NEW k \in 0 .. n - 1, k \in R PROVE k + 1 \in R
    <3>1. k + 1 \in 1 .. n /\ k + 1 - 1 = k /\ k + 1 \in 0 .. n
      BY <1>1
    <3>2. flatten[k + 1] = IF k + 1 = 1 THEN seqs[k + 1] ELSE flatten[k] \o seqs[k + 1]
      <4>1. flatten[k + 1] = body(flatten, k + 1)
        <5> HIDE DEF body
        <5> QED BY <2>7, <3>1
      <4> QED BY <3>1, <4>1
    <3>3. seqs[k + 1] \in V
      BY <2>1, <3>1
    <3>4. CASE k = 0
      BY <3>1, <3>2, <3>3, <3>4
    <3>5. CASE k # 0
      <4>1. flatten[k] \in V /\ k + 1 # 1
        BY <2>9, <3>5
      <4>2. flatten[k] \o seqs[k + 1] \in V
        BY <3>3, <4>1, ConcatProperties
      <4> QED BY <3>1, <3>2, <4>1, <4>2
    <3> QED BY <3>4, <3>5
  <2>10. 0 .. n \subseteq R
    <3>1. 0 \in R
      BY <1>1
    <3> HIDE DEF R
    <3> QED BY <1>1, <2>9, <3>1, InductionUpTo
  <2>11. n \in R
    BY <1>1, <2>10
  <2> QED BY <1>3, <2>8, <2>11
<1> QED BY <1>2, <1>3

(* The events of a session's evidence.                                     *)
LEMMA EventsAre ==
  ASSUME NEW s \in Term, NEW v \in Nat, v <= Len(Versions[s])
  PROVE  Events(Version(s, v)) \in Seq(Event)
<1> DEFINE version == Version(s, v)
           parsed == Parsed(version)
           lists == [i \in DOMAIN parsed |-> parsed[i].events]
<1>1. version.files \in Seq(Artefact)
  <2>1. CASE v = 0
    BY <2>1 DEF Version
  <2>2. CASE v # 0
    <3> DEFINE list == Versions[s]
               Kind == [unclear : BOOLEAN, files : Seq(Artefact)]
    <3>1. list \in Seq(Kind)
      BY EvidenceAssumption
    <3> HIDE DEF list, Kind
    <3>2. v \in DOMAIN list
      BY <2>2, <3>1, LenProperties DEF list
    <3>3. list[v] \in Kind
      BY <3>1, <3>2, ElementOfSeq
    <3> QED BY <2>2, <3>3 DEF Version, Kind, list
  <2> QED BY <2>1, <2>2
<1> HIDE DEF version
<1>2. parsed \in Seq(Artefact)
  <2> DEFINE files == version.files
             places == {i \in DOMAIN files : files[i].readable}
  <2>1. places \subseteq DOMAIN files /\ parsed = Picked(files, places)
    BY DEF Parsed
  <2> HIDE DEF files, places
  <2> QED BY <1>1, <2>1, PickedIs DEF files
<1> HIDE DEF parsed
<1>3. lists \in Seq(Seq(Event))
  <2>1. \A i \in DOMAIN parsed : parsed[i] \in Artefact
    BY <1>2, ElementOfSeq
  <2>2. \A i \in DOMAIN parsed : parsed[i].events \in Seq(Event)
    BY <2>1 DEF Artefact
  <2>3. DOMAIN parsed = 1 .. Len(parsed) /\ Len(parsed) \in Nat
    BY <1>2, LenProperties
  <2>4. lists \in [1 .. Len(parsed) -> Seq(Event)]
    BY <2>2, <2>3
  <2> HIDE DEF lists
  <2> QED BY <2>3, <2>4
<1> HIDE DEF lists
<1>4. FlattenSeq(lists) \in Seq(Event)
  BY <1>3, FlattenedIs
<1>5. Events(version) = FlattenSeq(lists)
  BY DEF Events, lists, parsed
<1> QED BY <1>4, <1>5 DEF version

-----------------------------------------------------------------------------
(* The invariant.                                                          *)

(* What the rows of a session have to do with its events and with people:  *)
(* all that is in them was said by somebody, in the row made for them, and *)
(* every participant who spoke has it.                                     *)
Told(md, sp, rows, s, events) ==
  /\ Present(md, sp, events, Len(events))
  /\ \A r \in rows : r.session = s =>
       \E i \in DOMAIN sp : SpokeIn(md, sp[i], events) /\ r = RowFor(md, sp[i], s, events)
  /\ \A i \in DOMAIN sp :
       sp[i].role = "participant" /\ SpokeIn(md, sp[i], events) => RowFor(md, sp[i], s, events) \in rows

OneRowEach(rows) ==
  \A first, second \in rows : first.session = second.session /\ first.id = second.id => first = second

(* The local variables of an invocation, from step to step.                *)
AtSession == [at : {"session"}, session : Term, failing : BOOLEAN]
Writing ==
  [at : {"people", "scores"}, session : Term, failing : BOOLEAN, created : Seq(Someone), scores : SUBSET Result]
AtLoad == [at : {"load"}, failing : BOOLEAN]
AtRank == [at : {"rank"}, failing : BOOLEAN, left : SUBSET Result]
Published(table) ==
  [at |-> "published", table |-> table,
   view |-> OperationalView(Book, AttendanceSeen(Book, table.rules, table.facts))]
Shows(table) ==
  /\ run = Published(table)
  /\ ~Refused(Book, mode = "auto" /\ table.configured, table.rules, table.facts)
Showing == \E table \in Attendance : Shows(table)
RunTyped ==
  run = Idle \/ run \in AtSession \/ run \in Writing \/ run \in AtLoad \/ run \in AtRank \/ Showing

Typed ==
  /\ mode \in Modes /\ faults \in 0 .. MaxFaults /\ changes \in 0 .. MaxChanges
  /\ evidence \in [Term -> Nat] /\ \A s \in Term : evidence[s] <= Len(Versions[s])
  /\ state \in [Term -> [status : Outcome \union {"pending", "PROCESSING"}, files : Nat]]
  /\ \A s \in Term : state[s].files <= Len(Versions[s])
  /\ results \subseteq Result
  /\ RunTyped

(* Everybody there will be when the step under way has been taken.         *)
Everybody == IF run.at = "people" THEN people \o run.created ELSE people

Recorded ==
  /\ People(mode, people) /\ People(mode, Everybody)
  /\ OneRowEach(results)
  /\ \A s \in Term : IsProcessed(s) => Told(mode, people, results, s, Evidence(s))
  /\ run \in Writing =>
       LET s == run.session
       IN  /\ state[s] = [status |-> "PROCESSING", files |-> evidence[s]]
           /\ (\A r \in run.scores : r.session = s)
           /\ Told(mode, Everybody, run.scores, s, Evidence(s))

(* Where the run has been.                                                 *)
Tried(s) == state[s].status \in Outcome
Passed ==
  /\ run \in AtSession \union Writing => \A s \in Term : s < run.session => Tried(s)
  /\ run \in AtLoad \union AtRank \/ Showing => \A s \in Term : Tried(s)

(* The ranking so far is that of the rows read so far.                     *)
ScoreIn(rows, s, p) ==
  LET own == {r \in rows : r.session = s /\ r.id = p}
  IN  IF own = {} THEN 0 ELSE (CHOOSE r \in own : TRUE).score
RowsOf(rows, p) == {r \in rows : r.id = p}
PointsIn(rows, p) == Summed([s \in Term |-> ScoreIn(rows, s, p)], N)
AllComplete(rows, p) == \A r \in RowsOf(rows, p) : r.complete
TotalOf(rows, p) ==
  [listed |-> RowsOf(rows, p) # {}, score |-> PointsIn(rows, p),
   sessions |-> Cardinality(RowsOf(rows, p)), complete |-> AllComplete(rows, p)]
Ranked ==
  /\ RankingTypeOK /\ IsFiniteSet(read)
  /\ run \in AtRank \/ Showing \/ (read = {} /\ \A p \in Participant : totals[p] = Nothing)
  /\ run \in AtRank =>
       /\ read \intersect run.left = {}
       /\ read \union run.left = {r \in results : IsProcessed(r.session)}
       /\ \A p \in Participant : totals[p] = IF p \in Now THEN TotalOf(read, p) ELSE Nothing

Inv == Typed /\ Recorded /\ Passed /\ Ranked

-----------------------------------------------------------------------------
(* An event has a name.                                                    *)
LEMMA NamedEvent ==
  ASSUME NEW events \in Seq(Event), NEW j \in 1 .. Len(events)
  PROVE  events[j] \in Event /\ events[j].name \in Name
<1>1. DOMAIN events = 1 .. Len(events)
  BY LenProperties
<1>2. events[j] \in Event
  BY <1>1, ElementOfSeq
<1> QED BY <1>2 DEF Event

(* People who come later said nothing in a session that is told: everybody *)
(* who speaks there was there.                                             *)
LEMMA ToldLonger ==
  ASSUME NEW md, NEW sp, NEW new, NEW rows, NEW s, NEW events \in Seq(Event),
         Told(md, sp, rows, s, events), Begins(sp, new), Distinguished(md, new)
  PROVE  Told(md, new, rows, s, events)
<1>1. Present(md, new, events, Len(events))
  BY DEF Told, Present, Begins
<1>2. ASSUME NEW r \in rows, r.session = s
      PROVE  \E i \in DOMAIN new : SpokeIn(md, new[i], events) /\ r = RowFor(md, new[i], s, events)
  <2>1. PICK i \in DOMAIN sp : SpokeIn(md, sp[i], events) /\ r = RowFor(md, sp[i], s, events)
    BY <1>2 DEF Told
  <2>2. i \in DOMAIN new /\ new[i] = sp[i]
    BY DEF Begins
  <2> QED BY <2>1, <2>2
<1>3. ASSUME NEW i \in DOMAIN new, new[i].role = "participant", SpokeIn(md, new[i], events)
      PROVE  RowFor(md, new[i], s, events) \in rows
  <2>1. PICK j \in HeardUpTo(md, new[i], events, Len(events)) : TRUE
    BY <1>3 DEF SpokeIn
  <2>2. j \in 1 .. Len(events) /\ Speaks(events[j]) /\ CallsFor(md, new[i], events[j].name)
    BY DEF HeardUpTo
  <2>3. events[j].name \in Name
    BY <2>2, NamedEvent
  <2>4. PICK p \in DOMAIN sp : CallsFor(md, sp[p], events[j].name)
    BY <2>2 DEF Told, Present
  <2>5. p \in DOMAIN new /\ new[p] = sp[p]
    BY DEF Begins
  <2>6. p = i
    BY <2>2, <2>3, <2>4, <2>5 DEF Distinguished
  <2>7. i \in DOMAIN sp /\ sp[i] = new[i]
    BY <2>4, <2>5, <2>6
  <2> QED BY <1>3, <2>7 DEF Told
<1> QED BY <1>1, <1>2, <1>3 DEF Told

(* What somebody is decides whether they need a row, not what is in it.    *)
SameButRole(one, other) ==
  one.id = other.id /\ one.name = other.name /\ one.mail = other.mail /\ one.aliases = other.aliases

(* The role has no part in who is called what, nor in what they said.      *)
LEMMA SameButRoleIs ==
  ASSUME NEW one, NEW other, SameButRole(one, other), NEW md, NEW events, NEW s
  PROVE  /\ \A name : CallsFor(md, one, name) <=> CallsFor(md, other, name)
         /\ \A key : Addressed(one, key) <=> Addressed(other, key)
         /\ SpokeIn(md, one, events) <=> SpokeIn(md, other, events)
         /\ RowFor(md, one, s, events) = RowFor(md, other, s, events)
<1>1. \A name : CallsFor(md, one, name) <=> CallsFor(md, other, name)
  BY DEF CallsFor, SameButRole
<1>2. \A key : Addressed(one, key) <=> Addressed(other, key)
  BY DEF Addressed, SameButRole
<1>3. \A k : HeardUpTo(md, one, events, k) = HeardUpTo(md, other, events, k)
  BY <1>1 DEF HeardUpTo
<1>4. \A k, channel : CountedUpTo(md, one, events, k, channel) = CountedUpTo(md, other, events, k, channel)
  BY <1>3 DEF CountedUpTo
<1>5. \A k : PointsUpTo(md, one, events, k) = PointsUpTo(md, other, events, k)
  BY <1>4 DEF PointsUpTo
<1>6. \A k : DoubtUpTo(md, one, events, k) = DoubtUpTo(md, other, events, k)
  BY <1>3 DEF DoubtUpTo
<1>7. RowFor(md, one, s, events) = RowFor(md, other, s, events)
  BY <1>5, <1>6 DEF RowFor, SameButRole
<1> QED BY <1>1, <1>2, <1>3, <1>7 DEF SpokeIn

(* A session stays told when participants become something else.           *)
LEMMA ToldRoles ==
  ASSUME NEW md, NEW sp, NEW new, NEW rows, NEW s, NEW events, Told(md, sp, rows, s, events),
         DOMAIN new = DOMAIN sp, \A i \in DOMAIN sp : SameButRole(new[i], sp[i]),
         \A i \in DOMAIN sp : new[i].role = "participant" => sp[i].role = "participant"
  PROVE  Told(md, new, rows, s, events)
<1>1. Present(md, new, events, Len(events))
  BY SameButRoleIs DEF Told, Present
<1>2. ASSUME NEW i \in DOMAIN sp
      PROVE  /\ SpokeIn(md, new[i], events) <=> SpokeIn(md, sp[i], events)
             /\ RowFor(md, new[i], s, events) = RowFor(md, sp[i], s, events)
  <2>1. SameButRole(new[i], sp[i])
    OBVIOUS
  <2> QED BY <2>1, SameButRoleIs
<1> QED BY <1>1, <1>2 DEF Told

(* The rows of the other sessions do not matter.                           *)
LEMMA ToldElsewhere ==
  ASSUME NEW md, NEW sp, NEW rows, NEW more, NEW s, NEW events, Told(md, sp, rows, s, events),
         \A r : r.session = s => (r \in rows <=> r \in more)
  PROVE  Told(md, sp, more, s, events)
<1>1. \A i : RowFor(md, sp[i], s, events).session = s
  BY DEF RowFor
<1> QED BY <1>1 DEF Told

(* What the loop keeps tells its session.                                  *)
LEMMA ToldByTally ==
  ASSUME NEW md, NEW sofar \in Sofar(md), sofar.reviews = 0, NEW events \in Seq(Event),
         Tally(md, sofar, events, Len(events)), NEW s \in Term, Session = Term
  PROVE  /\ Told(md, sofar.people, Scores(s, sofar.kept), s, events)
         /\ \A r \in Scores(s, sofar.kept) : r.session = s
         /\ Scores(s, sofar.kept) \subseteq Result
<1> DEFINE rows == Scores(s, sofar.kept)
           sp == sofar.people
<1>1. rows = RowsFor(md, sp, s, events)
  BY ScoresAre
<1>2. Present(md, sp, events, Len(events)) /\ sp \in Seq(Someone)
  BY DEF Tally, Sofar
<1> HIDE DEF rows, sp
<1>3. \A r \in rows : \E i \in DOMAIN sp : SpokeIn(md, sp[i], events) /\ r = RowFor(md, sp[i], s, events)
  BY <1>1 DEF RowsFor
<1>4. \A i \in DOMAIN sp :
        sp[i].role = "participant" /\ SpokeIn(md, sp[i], events) => RowFor(md, sp[i], s, events) \in rows
  BY <1>1 DEF RowsFor
<1>5. ASSUME NEW i \in DOMAIN sp PROVE RowFor(md, sp[i], s, events) \in Result
  <2>1. sp[i] \in Someone
    BY <1>2, ElementOfSeq
  <2>2. sp[i].id \in Participant
    BY <2>1 DEF Someone
  <2>3. PointsUpTo(md, sp[i], events, Len(events)) \in Nat /\ DoubtUpTo(md, sp[i], events, Len(events)) \in BOOLEAN
    BY LenProperties, PointsAre DEF DoubtUpTo
  <2> QED BY <2>2, <2>3 DEF RowFor, Result
<1>6. \A i : RowFor(md, sp[i], s, events).session = s
  BY DEF RowFor
<1>7. Told(md, sp, rows, s, events)
  BY <1>2, <1>3, <1>4 DEF Told
<1>8. \A r \in rows : r.session = s /\ r \in Result
  BY <1>3, <1>5, <1>6
<1> QED BY <1>7, <1>8 DEF rows, sp

(* A told session has one row for each of its people.                      *)
LEMMA ToldOnce ==
  ASSUME NEW md, NEW sp, NEW rows, NEW s, NEW events, Told(md, sp, rows, s, events), Distinguished(md, sp)
  PROVE  \A first, second \in rows :
           first.session = s /\ second.session = s /\ first.id = second.id => first = second
<1> SUFFICES ASSUME NEW first \in rows, NEW second \in rows,
                    first.session = s, second.session = s, first.id = second.id
             PROVE  first = second
  OBVIOUS
<1>1. PICK i \in DOMAIN sp : first = RowFor(md, sp[i], s, events)
  BY DEF Told
<1>2. PICK j \in DOMAIN sp : second = RowFor(md, sp[j], s, events)
  BY DEF Told
<1>3. first.id = sp[i].id /\ second.id = sp[j].id
  BY <1>1, <1>2 DEF RowFor
<1>4. i = j
  BY <1>3 DEF Distinguished
<1> QED BY <1>1, <1>2, <1>4

-----------------------------------------------------------------------------
(* A roster without two people that can be taken for one another, and no   *)
(* append applied twice.                                                   *)
Unmistaken ==
  /\ AppendTimes \subseteq {1}
  /\ \A md \in Modes \ {"auto"} : Distinguished(md, Roster)

(* Where an invocation is tells which variables it has.                    *)
LEMMA RunIs ==
  ASSUME RunTyped
  PROVE  /\ run.at = "idle" <=> run = Idle
         /\ run.at = "session" <=> run \in AtSession
         /\ run.at = "people" \/ run.at = "scores" <=> run \in Writing
         /\ run.at = "load" <=> run \in AtLoad
         /\ run.at = "rank" <=> run \in AtRank
         /\ run.at = "published" <=> Showing
<1>1. /\ run = Idle => run.at = "idle"
      /\ run \in AtSession => run.at = "session"
      /\ run \in Writing => run.at = "people" \/ run.at = "scores"
      /\ run \in AtLoad => run.at = "load"
      /\ run \in AtRank => run.at = "rank"
  BY DEF Idle, AtSession, Writing, AtLoad, AtRank
<1>2. Showing => run.at = "published"
  BY DEF Showing, Shows, Published
<1> QED BY <1>1, <1>2 DEF RunTyped

(* To the next session, or to the ranking after the last one.              *)
LEMMA MovedOn ==
  ASSUME run.session \in Term, NEW failing \in BOOLEAN, ToNext(failing),
         \A s \in Term : s <= run.session => Tried(s)'
  PROVE  /\ RunTyped' /\ Passed'
         /\ run' \notin Writing /\ run'.at # "people" /\ run' \notin AtRank /\ ~Showing'
<1>1. N \in Nat \ {0} /\ run.session \in 1 .. N
  BY PilotAssumption DEF Term
<1>2. CASE run.session < N
  <2>1. run' = [at |-> "session", session |-> run.session + 1, failing |-> failing]
    BY <1>2 DEF ToNext
  <2>2. run.session + 1 \in Term
    BY <1>1, <1>2 DEF Term
  <2>3. run' \in AtSession /\ run'.at = "session" /\ run'.session = run.session + 1
    BY <2>1, <2>2 DEF AtSession
  <2>4. run' \notin Writing /\ run' \notin AtRank /\ run' \notin AtLoad
    BY <2>3 DEF Writing, AtRank, AtLoad
  <2>5. ~Showing'
    BY <2>3 DEF Showing, Shows, Published
  <2>6. \A s \in Term : s < run.session + 1 => s <= run.session
    BY <1>1 DEF Term
  <2> QED BY <2>3, <2>4, <2>5, <2>6 DEF RunTyped, Passed
<1>3. CASE ~(run.session < N)
  <2>1. run' = [at |-> "load", failing |-> failing]
    BY <1>3 DEF ToNext
  <2>2. run' \in AtLoad /\ run'.at = "load"
    BY <2>1 DEF AtLoad
  <2>3. run' \notin Writing /\ run' \notin AtRank /\ run' \notin AtSession
    BY <2>2 DEF Writing, AtRank, AtSession
  <2>4. ~Showing'
    BY <2>2 DEF Showing, Shows, Published
  <2>5. \A s \in Term : s <= run.session
    BY <1>1, <1>3 DEF Term
  <2> QED BY <2>2, <2>3, <2>4, <2>5 DEF RunTyped, Passed
<1> QED BY <1>2, <1>3

(* What is recorded stays right when nothing is recorded.                  *)
LEMMA RecordedSame ==
  ASSUME Recorded, UNCHANGED <<mode, evidence, people, state, results>>,
         run' \notin Writing, run'.at # "people"
  PROVE  Recorded'
<1>1. Everybody' = people
  BY DEF Everybody
<1>2. People(mode', people') /\ OneRowEach(results')
  BY DEF Recorded
<1>3. ASSUME NEW s \in Term, IsProcessed(s)' PROVE Told(mode', people', results', s, Evidence(s)')
  <2>1. Told(mode, people, results, s, Evidence(s))
    BY <1>3 DEF Recorded, IsProcessed
  <2> QED BY <2>1 DEF Evidence
<1> QED BY <1>1, <1>2, <1>3 DEF Recorded

(* Nothing is ranked, and nothing is left of an earlier ranking.           *)
Cleared == read = {} /\ \A p \in Participant : totals[p] = Nothing

(* An abandoned ranking is empty.                                          *)
LEMMA ClearedIs ==
  ASSUME RankingTypeOK, ClearRanking \/ (UNCHANGED rankingVars /\ Cleared)
  PROVE  RankingTypeOK' /\ Cleared'
<1>1. CASE ClearRanking
  BY <1>1 DEF ClearRanking, Cleared, RankingTypeOK, Nothing
<1>2. CASE UNCHANGED rankingVars /\ Cleared
  BY <1>2 DEF Cleared, RankingTypeOK, rankingVars
<1> QED BY <1>1, <1>2

(* Before the ranking nothing is ranked.                                   *)
LEMMA StillCleared ==
  ASSUME Inv, run \notin AtRank, ~Showing, UNCHANGED rankingVars, run' \notin AtRank
  PROVE  Ranked'
<1>1. RankingTypeOK /\ Cleared
  BY DEF Inv, Ranked, Cleared
<1> QED BY <1>1, ClearedIs, FS_EmptySet DEF Ranked, Cleared

(* The invariant holds to begin with: nothing is processed.                *)
LEMMA InvInit == ASSUME Unmistaken, Init PROVE Inv
<1>1. RankingTypeOK /\ Cleared
  BY DEF Init, RankingInit, RankingTypeOK, Nothing, Cleared
<1>2. People(mode, people)
  <2>1. CASE mode = "auto"
    <3>1. people = << >>
      BY <2>1 DEF Init
    <3>2. people \in Seq(Someone) /\ DOMAIN people = {}
      BY <3>1
    <3> QED BY <3>2 DEF People, Distinguished
  <2>2. CASE mode # "auto"
    <3>1. people = Roster /\ mode \in Modes \ {"auto"}
      BY <2>2 DEF Init
    <3>2. Roster \in Seq(Someone)
      BY EvidenceAssumption
    <3> QED BY <2>2, <3>1, <3>2 DEF People, Unmistaken
  <2> QED BY <2>1, <2>2
<1>3. run = Idle /\ run.at = "idle"
  BY DEF Init, Idle
<1>4. run \notin AtSession /\ run \notin Writing /\ run \notin AtLoad /\ run \notin AtRank /\ ~Showing
  BY <1>3 DEF AtSession, Writing, AtLoad, AtRank, Showing, Shows, Published
<1>5. Typed
  <2>1. \A s \in Term : Len(Versions[s]) \in Nat
    BY EvidenceAssumption, LenProperties
  <2>2. evidence \in [Term -> Nat] /\ \A s \in Term : evidence[s] = 0
    BY DEF Init
  <2>3. /\ state \in [Term -> [status : Outcome \union {"pending", "PROCESSING"}, files : Nat]]
        /\ \A s \in Term : state[s].files = 0
    BY DEF Init
  <2>4. \A s \in Term : evidence[s] <= Len(Versions[s]) /\ state[s].files <= Len(Versions[s])
    BY <2>1, <2>2, <2>3
  <2>5. mode \in Modes /\ faults \in 0 .. MaxFaults /\ changes \in 0 .. MaxChanges /\ results \subseteq Result
    BY ProgramAssumption DEF Init
  <2> QED BY <1>3, <2>2, <2>3, <2>4, <2>5 DEF Typed, RunTyped
<1>6. \A s \in Term : ~IsProcessed(s)
  BY DEF Init, IsProcessed
<1>7. OneRowEach(results)
  BY DEF Init, OneRowEach
<1>8. IsFiniteSet(read)
  BY <1>1, FS_EmptySet DEF Cleared
<1> QED BY <1>1, <1>2, <1>3, <1>4, <1>5, <1>6, <1>7, <1>8
        DEF Inv, Recorded, Passed, Ranked, Everybody, Cleared

(* Between invocations.                                                    *)
LEMMA IdleIs ==
  ASSUME Inv, run = Idle
  PROVE  /\ run.at = "idle" /\ run \notin AtSession /\ run \notin Writing /\ run \notin AtLoad
         /\ run \notin AtRank /\ ~Showing
<1>1. run.at = "idle"
  BY DEF Idle
<1> QED BY <1>1, RunIs DEF Inv, Typed

(* New evidence: the outcome on record is of the version it was made from. *)
LEMMA UploadKeeps == ASSUME Inv, NEW s \in Term, Upload(s) PROVE Inv'
<1>1. run = Idle /\ UNCHANGED <<mode, people, state, results, run, faults, changes, rankingVars>>
      /\ evidence' = [evidence EXCEPT ![s] = @ + 1] /\ evidence[s] < Len(Versions[s])
  BY DEF Upload
<1>2. run' = Idle /\ run'.at = "idle" /\ run' \notin Writing /\ run' \notin AtSession /\ run' \notin AtLoad
      /\ run' \notin AtRank /\ ~Showing'
  BY <1>1 DEF Idle, Writing, AtSession, AtLoad, AtRank, Showing, Shows, Published
<1>3. Typed'
  <2>1. evidence \in [Term -> Nat] /\ (\A t \in Term : evidence[t] <= Len(Versions[t])) /\ Len(Versions[s]) \in Nat
    BY EvidenceAssumption, LenProperties DEF Inv, Typed
  <2>2. evidence' \in [Term -> Nat] /\ \A t \in Term : evidence'[t] = IF t = s THEN evidence[s] + 1 ELSE evidence[t]
    BY <1>1, <2>1
  <2>3. \A t \in Term : evidence'[t] <= Len(Versions[t])
    BY <1>1, <2>1, <2>2
  <2> QED BY <1>1, <1>2, <2>2, <2>3 DEF Inv, Typed, RunTyped
<1>4. Recorded'
  <2>1. Everybody' = people
    BY <1>1, <1>2 DEF Everybody
  <2>2. ASSUME NEW t \in Term, IsProcessed(t)' PROVE Told(mode', people', results', t, Evidence(t)')
    <3>1. Told(mode, people, results, t, Evidence(t))
      BY <1>1, <2>2 DEF Inv, Recorded, IsProcessed
    <3> QED BY <1>1, <3>1 DEF Evidence
  <2>3. People(mode', people') /\ OneRowEach(results')
    BY <1>1 DEF Inv, Recorded
  <2> QED BY <1>1, <1>2, <2>1, <2>2, <2>3 DEF Recorded
<1>5. Ranked'
  BY <1>1, <1>2, IdleIs, StillCleared
<1> QED BY <1>2, <1>3, <1>4, <1>5 DEF Inv, Passed

(* A participant becomes something else; their rows stay, and count for    *)
(* nobody.                                                                 *)
LEMMA ReassignKeeps == ASSUME Inv, NEW i \in DOMAIN people, Reassign(i) PROVE Inv'
<1>1. /\ run = Idle /\ UNCHANGED <<mode, evidence, state, results, run, faults, rankingVars>>
      /\ changes < MaxChanges /\ changes' = changes + 1
      /\ people' = [people EXCEPT ![i].role = "facilitator"]
  BY DEF Reassign
<1>2. run' = Idle /\ run'.at = "idle" /\ run' \notin Writing /\ run' \notin AtSession /\ run' \notin AtLoad
      /\ run' \notin AtRank /\ ~Showing'
  BY <1>1 DEF Idle, Writing, AtSession, AtLoad, AtRank, Showing, Shows, Published
<1>3. Typed'
  <2>1. changes' \in 0 .. MaxChanges
    BY <1>1, ProgramAssumption DEF Inv, Typed
  <2> QED BY <1>1, <1>2, <2>1 DEF Inv, Typed, RunTyped
<1>4. people \in Seq(Someone) /\ Distinguished(mode, people) /\ (mode = "auto" => \A j \in DOMAIN people : MadeUp(people[j]))
  BY DEF Inv, Recorded, People
<1> DEFINE new == [people EXCEPT ![i].role = "facilitator"]
<1>5. \A j \in DOMAIN people : people[j] \in Someone
  BY <1>4, ElementOfSeq
<1>6. ASSUME NEW j \in DOMAIN people
      PROVE  /\ new[j] \in Someone /\ SameButRole(new[j], people[j])
             /\ new[j].role = "participant" => people[j].role = "participant"
  <2>1. people[j] \in Someone
    BY <1>5
  <2>2. CASE j = i
    <3>1. new[j] = [people[j] EXCEPT !.role = "facilitator"]
      BY <2>2
    <3> HIDE DEF new
    <3> QED BY <2>1, <3>1 DEF Someone, SameButRole
  <2>3. CASE j # i
    <3>1. new[j] = people[j]
      BY <2>3
    <3> HIDE DEF new
    <3> QED BY <2>1, <3>1 DEF SameButRole
  <2> QED BY <2>2, <2>3
<1>7. DOMAIN new = DOMAIN people
  OBVIOUS
<1> HIDE DEF new
<1>8. new \in Seq(Someone)
  <2>1. DOMAIN people = 1 .. Len(people) /\ Len(people) \in Nat
    BY <1>4, LenProperties
  <2>2. new = [j \in 1 .. Len(people) |-> new[j]]
    BY <2>1 DEF new
  <2>3. new \in [1 .. Len(people) -> Someone]
    BY <1>6, <2>1, <2>2
  <2> QED BY <2>1, <2>3
<1>9. Distinguished(mode, new)
  <2>1. ASSUME NEW j \in DOMAIN people
        PROVE  /\ new[j].id = people[j].id
               /\ \A name : CallsFor(mode, new[j], name) <=> CallsFor(mode, people[j], name)
               /\ \A key : Addressed(new[j], key) <=> Addressed(people[j], key)
    <3>1. SameButRole(new[j], people[j])
      BY <1>6
    <3> QED BY <3>1, SameButRoleIs DEF SameButRole
  <2> QED BY <1>4, <1>7, <2>1 DEF Distinguished
<1>10. mode = "auto" => \A j \in DOMAIN new : MadeUp(new[j])
  BY <1>4, <1>6, <1>7 DEF MadeUp, SameButRole
<1>11. People(mode, new)
  BY <1>8, <1>9, <1>10 DEF People
<1>12. ASSUME NEW s \in Term, IsProcessed(s) PROVE Told(mode, new, results, s, Evidence(s))
  <2>1. Told(mode, people, results, s, Evidence(s))
    BY <1>12 DEF Inv, Recorded
  <2> QED BY <1>6, <1>7, <2>1, ToldRoles
<1>13. Recorded'
  <2>1. people' = new /\ Everybody' = new
    BY <1>1, <1>2 DEF Everybody, new
  <2>2. People(mode', people') /\ OneRowEach(results')
    BY <1>1, <1>11, <2>1 DEF Inv, Recorded
  <2>3. ASSUME NEW s \in Term, IsProcessed(s)' PROVE Told(mode', people', results', s, Evidence(s)')
    <3>1. Told(mode, new, results, s, Evidence(s))
      BY <1>1, <1>12, <2>3 DEF IsProcessed
    <3> QED BY <1>1, <2>1, <3>1 DEF Evidence
  <2> QED BY <1>1, <1>2, <2>1, <2>2, <2>3 DEF Recorded
<1>14. Ranked'
  BY <1>1, <1>2, IdleIs, StillCleared
<1> QED BY <1>2, <1>3, <1>13, <1>14 DEF Inv, Passed

(* An invocation begins.                                                   *)
LEMMA StartRunKeeps == ASSUME Inv, StartRun PROVE Inv'
<1>1. /\ run = Idle /\ run' = [at |-> "session", session |-> 1, failing |-> FALSE]
      /\ UNCHANGED <<mode, evidence, people, state, results, faults, changes, rankingVars>>
  BY DEF StartRun
<1>2. 1 \in Term /\ \A s \in Term : ~(s < 1)
  BY PilotAssumption DEF Term
<1>3. run' \in AtSession /\ run'.at = "session" /\ run'.session = 1
  BY <1>1, <1>2 DEF AtSession
<1>4. run' \notin Writing /\ run' \notin AtLoad /\ run' \notin AtRank /\ ~Showing'
  BY <1>3 DEF Writing, AtLoad, AtRank, Showing, Shows, Published
<1>5. Typed'
  BY <1>1, <1>3 DEF Inv, Typed, RunTyped
<1>6. Recorded'
  BY <1>1, <1>3, <1>4, RecordedSame DEF Inv
<1>7. Ranked'
  BY <1>1, <1>4, IdleIs, StillCleared
<1>8. Passed'
  BY <1>2, <1>3, <1>4 DEF Passed
<1> QED BY <1>5, <1>6, <1>7, <1>8 DEF Inv

(* At a session: what has been read of it.                                 *)
LEMMA SessionIs ==
  ASSUME Inv, run.at = "session" \/ run.at = "people" \/ run.at = "scores"
  PROVE  /\ run.at = "session" => run \in AtSession
         /\ run.at # "session" => run \in Writing
         /\ run.session \in Term /\ run.failing \in BOOLEAN
         /\ run \notin AtRank /\ ~Showing
         /\ \A s \in Term : s < run.session => Tried(s)
<1>1. RunTyped
  BY DEF Inv, Typed
<1>2. /\ run.at = "session" => run \in AtSession
      /\ run.at # "session" => run \in Writing
      /\ run \notin AtRank /\ ~Showing
  BY <1>1, RunIs
<1>3. run.session \in Term /\ run.failing \in BOOLEAN
  BY <1>2 DEF AtSession, Writing
<1> QED BY <1>2, <1>3 DEF Inv, Passed

(* A settled session is passed over.                                       *)
LEMMA SkipSessionKeeps == ASSUME Inv, SkipSession PROVE Inv'
<1>1. /\ run.at = "session" /\ Settled(run.session) /\ ToNext(run.failing)
      /\ UNCHANGED <<mode, evidence, people, state, results, faults, changes, rankingVars>>
  BY DEF SkipSession
<1>2. /\ run.session \in Term /\ run.failing \in BOOLEAN /\ run \notin AtRank /\ ~Showing
      /\ \A s \in Term : s < run.session => Tried(s)
  BY <1>1, SessionIs
<1>3. Tried(run.session)
  BY <1>1 DEF Settled, Tried, Outcome
<1>4. \A s \in Term : s <= run.session => Tried(s)'
  <2>1. \A s \in Term : s <= run.session => s < run.session \/ s = run.session
    BY <1>2, PilotAssumption DEF Term
  <2> QED BY <1>1, <1>2, <1>3, <2>1 DEF Tried
<1>5. /\ RunTyped' /\ Passed'
      /\ run' \notin Writing /\ run'.at # "people" /\ run' \notin AtRank /\ ~Showing'
  BY <1>1, <1>2, <1>4, MovedOn
<1>6. Typed'
  BY <1>1, <1>5 DEF Inv, Typed
<1>7. Recorded'
  BY <1>1, <1>5, RecordedSame DEF Inv
<1>8. Ranked'
  BY <1>1, <1>2, <1>5, StillCleared
<1> QED BY <1>5, <1>6, <1>7, <1>8 DEF Inv

(* The record of one session.                                              *)
LEMMA RecordIs ==
  ASSUME Typed, NEW s \in Term, NEW status \in Outcome \union {"pending", "PROCESSING"},
         NEW new, new = Record(s, status)
  PROVE  /\ new \in [Term -> [status : Outcome \union {"pending", "PROCESSING"}, files : Nat]]
         /\ new[s] = [status |-> status, files |-> evidence[s]]
         /\ \A t \in Term : t # s => new[t] = state[t]
         /\ \A t \in Term : new[t].files <= Len(Versions[t])
<1>1. /\ state \in [Term -> [status : Outcome \union {"pending", "PROCESSING"}, files : Nat]]
      /\ evidence[s] \in Nat /\ (\A t \in Term : evidence[t] <= Len(Versions[t]))
      /\ \A t \in Term : state[t].files <= Len(Versions[t])
  BY DEF Typed
<1>2. new = [state EXCEPT ![s] = [status |-> status, files |-> evidence[s]]]
  BY DEF Record
<1>3. new[s] = [status |-> status, files |-> evidence[s]] /\ \A t \in Term : t # s => new[t] = state[t]
  BY <1>1, <1>2
<1>4. new \in [Term -> [status : Outcome \union {"pending", "PROCESSING"}, files : Nat]]
  BY <1>1, <1>2
<1>5. \A t \in Term : new[t].files <= Len(Versions[t])
  BY <1>1, <1>3
<1> QED BY <1>3, <1>4, <1>5

(* The evidence of a session, as recorded and as it is now.                *)
LEMMA EvidenceIs ==
  ASSUME Typed, NEW s \in Term
  PROVE  Evidence(s) \in Seq(Event) /\ Events(Version(s, evidence[s])) \in Seq(Event)
<1>1. state[s].files \in Nat /\ state[s].files <= Len(Versions[s]) /\ evidence[s] \in Nat /\ evidence[s] <= Len(Versions[s])
  BY DEF Typed
<1> QED BY <1>1, EventsAre DEF Evidence

(* One session is recorded and its rows may change; people may be added.   *)
LEMMA RecordedNext ==
  ASSUME Inv, NEW s \in Term, NEW status \in Outcome \union {"pending", "PROCESSING"},
         state' = Record(s, status), UNCHANGED <<mode, evidence>>,
         People(mode, people'), Begins(people, people'),
         \A r : r.session # s => (r \in results <=> r \in results'), OneRowEach(results'),
         status = "PROCESSED" => Told(mode, people', results', s, Events(Version(s, evidence[s]))),
         run' \notin Writing, run'.at # "people"
  PROVE  Recorded'
<1>1. Typed
  BY DEF Inv
<1>2. state'[s] = [status |-> status, files |-> evidence[s]] /\ \A t \in Term : t # s => state'[t] = state[t]
  BY <1>1, RecordIs
<1>3. ASSUME NEW t \in Term, IsProcessed(t)' PROVE Told(mode', people', results', t, Evidence(t)')
  <2>1. CASE t = s
    <3>1. status = "PROCESSED"
      BY <1>2, <1>3, <2>1 DEF IsProcessed
    <3>2. Evidence(t)' = Events(Version(s, evidence[s]))
      BY <1>2, <2>1 DEF Evidence
    <3> QED BY <2>1, <3>1, <3>2
  <2>2. CASE t # s
    <3>1. IsProcessed(t) /\ Evidence(t)' = Evidence(t)
      BY <1>2, <1>3, <2>2 DEF IsProcessed, Evidence
    <3>2. Told(mode, people, results, t, Evidence(t)) /\ Evidence(t) \in Seq(Event)
      BY <1>1, <3>1, EvidenceIs DEF Inv, Recorded
    <3>3. \A r : r.session = t => (r \in results <=> r \in results')
      BY <2>2
    <3>4. Told(mode, people, results', t, Evidence(t))
      BY <3>2, <3>3, ToldElsewhere
    <3>5. Told(mode, people', results', t, Evidence(t))
      BY <3>2, <3>4, ToldLonger DEF People
    <3> QED BY <3>1, <3>5
  <2> QED BY <2>1, <2>2
<1>4. Everybody' = people'
  BY DEF Everybody
<1> QED BY <1>3, <1>4 DEF Recorded

(* A session without scores leaves its earlier rows, and is PROCESSED no   *)
(* more.                                                                   *)
LEMMA EndEarlyKeeps == ASSUME Inv, EndEarly PROVE Inv'
<1> DEFINE s == run.session
           early == EarlyOutcome(Version(s, evidence[s]))
           status == IF early # "none" THEN early ELSE "NEEDS_REVIEW"
<1>1. /\ run.at = "session" /\ state' = Record(s, status)
      /\ ToNext(run.failing \/ status = "NEEDS_REVIEW")
      /\ UNCHANGED <<mode, evidence, people, results, faults, changes, rankingVars>>
  BY DEF EndEarly
<1>2. status \in Outcome
  BY DEF EarlyOutcome, Outcome
<1>3. /\ s \in Term /\ run.failing \in BOOLEAN /\ run \notin AtRank /\ ~Showing
      /\ \A t \in Term : t < s => Tried(t)
  BY <1>1, SessionIs
<1> DEFINE failing == run.failing \/ status = "NEEDS_REVIEW"
<1>4. failing \in BOOLEAN
  BY <1>3
<1> HIDE DEF status, early
<1>5. /\ state' \in [Term -> [status : Outcome \union {"pending", "PROCESSING"}, files : Nat]]
      /\ state'[s] = [status |-> status, files |-> evidence[s]]
      /\ \A t \in Term : t # s => state'[t] = state[t]
      /\ \A t \in Term : state'[t].files <= Len(Versions[t])
  BY <1>1, <1>2, <1>3, RecordIs DEF Inv
<1>6. \A t \in Term : t <= s => Tried(t)'
  <2>1. \A t \in Term : t <= s => t < s \/ t = s
    BY <1>3, PilotAssumption DEF Term
  <2> QED BY <1>2, <1>3, <1>5, <2>1 DEF Tried
<1>7. /\ RunTyped' /\ Passed'
      /\ run' \notin Writing /\ run'.at # "people" /\ run' \notin AtRank /\ ~Showing'
  <2> HIDE DEF failing
  <2>1. ToNext(failing)
    BY <1>1 DEF failing
  <2> QED BY <1>3, <1>4, <1>6, <2>1, MovedOn
<1>8. Typed'
  BY <1>1, <1>5, <1>7 DEF Inv, Typed
<1>9. Recorded'
  <2>1. People(mode, people') /\ Begins(people, people') /\ OneRowEach(results')
    BY <1>1 DEF Inv, Recorded, Begins
  <2>2. \A r : r.session # s => (r \in results <=> r \in results')
    BY <1>1
  <2>3. status # "PROCESSED" /\ status \in Outcome \union {"pending", "PROCESSING"}
    BY <1>2 DEF status, early, EarlyOutcome
  <2> HIDE DEF s
  <2> QED BY <1>1, <1>3, <1>7, <2>1, <2>2, <2>3, RecordedNext
<1>10. Ranked'
  BY <1>1, <1>3, <1>7, StillCleared
<1> QED BY <1>7, <1>8, <1>9, <1>10 DEF Inv

(* A part of a list.                                                       *)
LEMMA SubSeqIs ==
  ASSUME NEW s, NEW lo \in Int, NEW hi \in Int
  PROVE  SubSeq(s, lo, hi) = [i \in 1 .. hi - lo + 1 |-> s[i + lo - 1]]
  BY DEF SubSeq

(* What was added to a list, and the list with it.                         *)
LEMMA AddedIs ==
  ASSUME NEW T, NEW sp \in Seq(T), NEW new \in Seq(T), Begins(sp, new),
         NEW added, added = SubSeq(new, Len(sp) + 1, Len(new))
  PROVE  added \in Seq(T) /\ sp \o added = new
<1> DEFINE n == Len(sp)
           m == Len(new)
<1>1. n \in Nat /\ m \in Nat /\ DOMAIN sp = 1 .. n /\ DOMAIN new = 1 .. m
  BY LenProperties
<1>2. n <= m
  <2>1. CASE n = 0
    BY <1>1, <2>1
  <2>2. CASE n # 0
    <3>1. n \in DOMAIN sp
      BY <1>1, <2>2
    <3>2. n \in DOMAIN new
      BY <3>1 DEF Begins
    <3> QED BY <1>1, <3>2
  <2> QED BY <2>1, <2>2
<1>3. \A i \in 1 .. n : new[i] = sp[i]
  BY <1>1 DEF Begins
<1>4. \A i \in n + 1 .. m : new[i] \in T
  <2>1. \A i \in 1 .. m : new[i] \in T
    BY ElementOfSeq
  <2>2. \A i \in n + 1 .. m : i \in 1 .. m
    BY <1>1
  <2> QED BY <2>1, <2>2
<1> HIDE DEF n, m
<1>5. added = [i \in 1 .. m - n |-> new[n + i]]
  <2>1. added = [i \in 1 .. m - (n + 1) + 1 |-> new[i + (n + 1) - 1]]
    <3>1. n + 1 \in Int /\ m \in Int
      BY <1>1
    <3> QED BY <3>1, SubSeqIs DEF n, m
  <2>2. m - (n + 1) + 1 = m - n /\ \A i \in 1 .. m - n : i + (n + 1) - 1 = n + i
    BY <1>1
  <2> QED BY <2>1, <2>2
<1>6. added \in [1 .. m - n -> T]
  <2>1. \A i \in 1 .. m - n : n + i \in n + 1 .. m
    BY <1>1, <1>2
  <2> QED BY <1>4, <1>5, <2>1
<1>7. m - n \in Nat
  BY <1>1, <1>2
<1>8. added \in Seq(T) /\ Len(added) = m - n /\ \A i \in 1 .. m - n : added[i] = new[n + i]
  <2> DEFINE c == m - n
  <2>1. c \in Nat /\ added \in [1 .. c -> T]
    BY <1>6, <1>7
  <2> HIDE DEF c
  <2>2. added \in Seq(T)
    BY <2>1
  <2>3. Len(added) \in Nat /\ DOMAIN added = 1 .. Len(added) /\ DOMAIN added = 1 .. c
    BY <2>1, <2>2, LenProperties
  <2>4. Len(added) = c
    BY <2>1, <2>3
  <2> QED BY <1>5, <2>2, <2>4 DEF c
<1>9. /\ sp \o added \in Seq(T) /\ Len(sp \o added) = n + (m - n)
      /\ \A i \in 1 .. n + (m - n) : (sp \o added)[i] = IF i <= n THEN sp[i] ELSE added[i - n]
  BY <1>8, ConcatProperties DEF n
<1>10. n + (m - n) = m
  BY <1>1
<1>11. \A i \in 1 .. m : (sp \o added)[i] = new[i]
  <2> SUFFICES ASSUME NEW i \in 1 .. m PROVE (sp \o added)[i] = new[i]
    OBVIOUS
  <2>1. CASE i <= n
    <3>1. i \in 1 .. n
      BY <1>1, <2>1
    <3> QED BY <1>3, <1>9, <1>10, <2>1, <3>1
  <2>2. CASE ~(i <= n)
    <3>1. i - n \in 1 .. m - n /\ n + (i - n) = i
      BY <1>1, <2>2
    <3> QED BY <1>8, <1>9, <1>10, <2>2, <3>1
  <2> QED BY <2>1, <2>2
<1>12. Len(sp \o added) = Len(new)
  BY <1>9, <1>10 DEF m
<1> DEFINE whole == sp \o added
<1>13. whole \in Seq(T) /\ Len(whole) = Len(new) /\ \A i \in 1 .. Len(new) : whole[i] = new[i]
  BY <1>9, <1>11, <1>12 DEF m
<1> HIDE DEF whole
<1>14. whole = new
  BY <1>13, SeqEqual
<1> QED BY <1>8, <1>14 DEF whole

(* A session resolved without reviews: its people and its scores.          *)
LEMMA SessionResolved ==
  ASSUME Inv, NEW s \in Term, NEW events, events = Events(Version(s, evidence[s])),
         NEW resolved, resolved = ResolveAll(events), resolved.reviews = 0
  PROVE  /\ People(mode, resolved.people) /\ Begins(people, resolved.people)
         /\ Told(mode, resolved.people, Scores(s, resolved.kept), s, events)
         /\ \A r \in Scores(s, resolved.kept) : r.session = s
         /\ Scores(s, resolved.kept) \subseteq Result
<1> DEFINE base == [people |-> people, kept |-> << >>, reviews |-> 0]
<1>1. events \in Seq(Event)
  BY EvidenceIs DEF Inv
<1>2. People(mode, people) /\ people \in Seq(Someone)
  BY DEF Inv, Recorded, People
<1>3. base \in Sofar(mode) /\ base.reviews = 0 /\ base.kept = << >> /\ base.people = people
  BY <1>2 DEF Sofar
<1>4. resolved = ResolvedFrom(base, events)
  BY DEF ResolveAll, ResolvedFrom
<1> HIDE DEF base
<1>5. /\ resolved \in Sofar(mode) /\ Begins(base.people, resolved.people)
      /\ Tally(mode, resolved, events, Len(events))
  BY <1>1, <1>3, <1>4, ResolvedIs
<1>6. Session = Term
  BY ProgramAssumption
<1>7. People(mode, resolved.people)
  BY <1>5 DEF Sofar
<1>8. /\ Told(mode, resolved.people, Scores(s, resolved.kept), s, events)
      /\ \A r \in Scores(s, resolved.kept) : r.session = s
      /\ Scores(s, resolved.kept) \subseteq Result
  BY <1>1, <1>5, <1>6, ToldByTally
<1> QED BY <1>3, <1>5, <1>7, <1>8

(* The events of a session are resolved and scored, in memory.             *)
LEMMA ProcessKeeps == ASSUME Inv, Process PROVE Inv'
<1> DEFINE s == run.session
           events == Events(Version(s, evidence[s]))
           resolved == ResolveAll(events)
           sp == resolved.people
           added == SubSeq(sp, Len(people) + 1, Len(sp))
           rows == Scores(s, resolved.kept)
<1>1. /\ run.at = "session" /\ resolved.reviews = 0 /\ state' = Record(s, "PROCESSING")
      /\ run' = [at |-> "people", session |-> s, failing |-> run.failing, created |-> added, scores |-> rows]
      /\ UNCHANGED <<mode, evidence, people, results, faults, changes, rankingVars>>
  BY DEF Process
<1>2. /\ s \in Term /\ run.failing \in BOOLEAN /\ run \notin AtRank /\ ~Showing
      /\ \A t \in Term : t < s => Tried(t)
  BY <1>1, SessionIs
<1>3. /\ People(mode, sp) /\ Begins(people, sp)
      /\ Told(mode, sp, rows, s, events)
      /\ (\A r \in rows : r.session = s)
      /\ rows \subseteq Result
  <2> HIDE DEF resolved, s, events
  <2>1. events = Events(Version(s, evidence[s])) /\ resolved = ResolveAll(events)
    BY DEF events, resolved
  <2> QED BY <1>1, <1>2, <2>1, SessionResolved
<1> HIDE DEF rows, added, sp, resolved, events
<1>4. people \in Seq(Someone) /\ sp \in Seq(Someone) /\ People(mode, people)
  BY <1>3 DEF Inv, Recorded, People
<1>5. added \in Seq(Someone) /\ people \o added = sp
  <2>1. added = SubSeq(sp, Len(people) + 1, Len(sp))
    BY DEF added
  <2> QED BY <1>3, <1>4, <2>1, AddedIs
<1>6. run' \in Writing /\ run'.at = "people" /\ run'.session = s /\ run'.created = added /\ run'.scores = rows
  BY <1>1, <1>2, <1>3, <1>5 DEF Writing
<1>7. run' \notin AtSession /\ run' \notin AtLoad /\ run' \notin AtRank /\ ~Showing'
  BY <1>6 DEF AtSession, AtLoad, AtRank, Showing, Shows, Published
<1>8. /\ state' \in [Term -> [status : Outcome \union {"pending", "PROCESSING"}, files : Nat]]
      /\ state'[s] = [status |-> "PROCESSING", files |-> evidence[s]]
      /\ \A t \in Term : t # s => state'[t] = state[t]
      /\ \A t \in Term : state'[t].files <= Len(Versions[t])
  BY <1>1, <1>2, RecordIs DEF Inv
<1>9. Typed'
  BY <1>1, <1>6, <1>8 DEF Inv, Typed, RunTyped
<1>10. Recorded'
  <2>1. Everybody' = sp
    BY <1>1, <1>5, <1>6 DEF Everybody
  <2>2. ASSUME NEW t \in Term, IsProcessed(t)' PROVE Told(mode', people', results', t, Evidence(t)')
    <3>1. t # s
      BY <1>8, <2>2 DEF IsProcessed
    <3>2. IsProcessed(t) /\ Evidence(t)' = Evidence(t)
      BY <1>8, <2>2, <3>1 DEF IsProcessed, Evidence
    <3>3. Told(mode, people, results, t, Evidence(t))
      BY <3>2 DEF Inv, Recorded
    <3> QED BY <1>1, <3>2, <3>3
  <2>3. Told(mode', Everybody', run'.scores, s, Evidence(s)')
    <3>1. Evidence(s)' = events
      BY <1>1, <1>6, <1>8 DEF Evidence, events
    <3> QED BY <1>1, <1>3, <1>6, <2>1, <3>1
  <2>4. OneRowEach(results') /\ People(mode', people') /\ People(mode', Everybody')
    BY <1>1, <1>3, <1>4, <2>1 DEF Inv, Recorded
  <2>5. state'[s] = [status |-> "PROCESSING", files |-> evidence'[s]]
    BY <1>1, <1>8
  <2>6. \A r \in run'.scores : r.session = run'.session
    BY <1>3, <1>6
  <2> QED BY <1>6, <2>2, <2>3, <2>4, <2>5, <2>6 DEF Recorded
<1>11. Passed'
  <2>1. \A t \in Term : t < s => Tried(t)'
    <3>1. \A t \in Term : t < s => t # s
      BY <1>2, PilotAssumption DEF Term
    <3> QED BY <1>2, <1>8, <3>1 DEF Tried
  <2> HIDE DEF s
  <2> QED BY <1>6, <1>7, <2>1 DEF Passed
<1>12. Ranked'
  BY <1>1, <1>2, <1>7, StillCleared
<1> QED BY <1>9, <1>10, <1>11, <1>12 DEF Inv

(* While the results of a session are written.                             *)
LEMMA WritingIs ==
  ASSUME Inv, run.at = "people" \/ run.at = "scores"
  PROVE  /\ run \in Writing
         /\ run = [at |-> run.at, session |-> run.session, failing |-> run.failing,
                   created |-> run.created, scores |-> run.scores]
         /\ run.created \in Seq(Someone) /\ run.scores \subseteq Result
         /\ run.session \in Term /\ run.failing \in BOOLEAN
         /\ People(mode, people) /\ People(mode, Everybody) /\ Begins(people, Everybody)
         /\ state[run.session] = [status |-> "PROCESSING", files |-> evidence[run.session]]
         /\ (\A r \in run.scores : r.session = run.session)
         /\ Told(mode, Everybody, run.scores, run.session, Evidence(run.session))
         /\ Evidence(run.session) = Events(Version(run.session, evidence[run.session]))
<1>1. run \in Writing
  BY RunIs DEF Inv, Typed
<1>2. /\ run = [at |-> run.at, session |-> run.session, failing |-> run.failing,
                created |-> run.created, scores |-> run.scores]
      /\ run.created \in Seq(Someone) /\ run.scores \subseteq Result
      /\ run.session \in Term /\ run.failing \in BOOLEAN
  BY <1>1 DEF Writing
<1>3. /\ People(mode, people) /\ People(mode, Everybody)
      /\ state[run.session] = [status |-> "PROCESSING", files |-> evidence[run.session]]
      /\ (\A r \in run.scores : r.session = run.session)
      /\ Told(mode, Everybody, run.scores, run.session, Evidence(run.session))
  BY <1>1 DEF Inv, Recorded
<1>4. Begins(people, Everybody)
  <2>1. CASE run.at = "people"
    <3> DEFINE whole == people \o run.created
    <3>1. people \in Seq(Someone) /\ Everybody = whole
      BY <1>3, <2>1 DEF People, Everybody
    <3>2. /\ whole \in Seq(Someone) /\ Len(whole) = Len(people) + Len(run.created)
          /\ \A i \in 1 .. Len(people) + Len(run.created) :
               whole[i] = IF i <= Len(people) THEN people[i] ELSE run.created[i - Len(people)]
      BY <1>2, <3>1, ConcatProperties
    <3> HIDE DEF whole
    <3>3. /\ Len(people) \in Nat /\ Len(run.created) \in Nat /\ DOMAIN people = 1 .. Len(people)
          /\ DOMAIN whole = 1 .. Len(whole)
      BY <1>2, <3>1, <3>2, LenProperties
    <3>4. \A i \in DOMAIN people : i \in DOMAIN whole /\ whole[i] = people[i]
      BY <3>2, <3>3
    <3> QED BY <3>1, <3>4 DEF Begins
  <2>2. CASE run.at # "people"
    BY <2>2 DEF Begins, Everybody
  <2> QED BY <2>1, <2>2
<1>5. Evidence(run.session) = Events(Version(run.session, evidence[run.session]))
  BY <1>3 DEF Evidence
<1> QED BY <1>1, <1>2, <1>3, <1>4, <1>5

(* The people made up on the way are written.                              *)
LEMMA AddPeopleKeeps == ASSUME Unmistaken, Inv, AddPeople PROVE Inv'
<1>1. /\ run.at = "people" /\ run' = [run EXCEPT !.at = "scores"]
      /\ UNCHANGED <<mode, evidence, state, results, faults, changes, rankingVars>>
  BY DEF AddPeople
<1>2. people' = people \o run.created \o << >>
  <2>1. PICK n \in AppendTimes : people' = people \o run.created \o (IF n = 2 THEN run.created ELSE << >>)
    BY DEF AddPeople
  <2>2. n # 2
    BY DEF Unmistaken
  <2> QED BY <2>1, <2>2
<1>3. /\ run = [at |-> run.at, session |-> run.session, failing |-> run.failing,
                created |-> run.created, scores |-> run.scores]
      /\ run.created \in Seq(Someone) /\ run.scores \subseteq Result
      /\ run.session \in Term /\ run.failing \in BOOLEAN
      /\ People(mode, people) /\ People(mode, Everybody) /\ Begins(people, Everybody)
      /\ state[run.session] = [status |-> "PROCESSING", files |-> evidence[run.session]]
      /\ (\A r \in run.scores : r.session = run.session)
      /\ Told(mode, Everybody, run.scores, run.session, Evidence(run.session))
  BY <1>1, WritingIs
<1>4. people' = Everybody
  <2>1. Everybody = people \o run.created
    BY <1>1 DEF Everybody
  <2>2. Everybody \in Seq(Someone)
    BY <1>3 DEF People
  <2>3. Everybody \o << >> = Everybody
    BY <2>2, ConcatEmptySeq
  <2> QED BY <1>2, <2>1, <2>3
<1>5. run' = [at |-> "scores", session |-> run.session, failing |-> run.failing,
              created |-> run.created, scores |-> run.scores]
  BY <1>1, <1>3
<1>6. run' \in Writing /\ run'.at = "scores" /\ run'.session = run.session /\ run'.scores = run.scores
  BY <1>3, <1>5 DEF Writing
<1>7. run' \notin AtSession /\ run' \notin AtLoad /\ run' \notin AtRank /\ ~Showing'
  BY <1>6 DEF AtSession, AtLoad, AtRank, Showing, Shows, Published
<1>8. Typed'
  BY <1>1, <1>6 DEF Inv, Typed, RunTyped
<1>9. Recorded'
  <2>1. Everybody' = Everybody
    BY <1>4, <1>6 DEF Everybody
  <2>2. ASSUME NEW t \in Term, IsProcessed(t)' PROVE Told(mode', people', results', t, Evidence(t)')
    <3>1. IsProcessed(t) /\ Evidence(t)' = Evidence(t)
      BY <1>1, <2>2 DEF IsProcessed, Evidence
    <3>2. Told(mode, people, results, t, Evidence(t)) /\ Evidence(t) \in Seq(Event)
      BY <3>1, EvidenceIs DEF Inv, Recorded
    <3>3. Told(mode, Everybody, results, t, Evidence(t))
      <4>1. Distinguished(mode, Everybody)
        BY <1>3 DEF People
      <4> QED BY <1>3, <3>2, <4>1, ToldLonger
    <3> QED BY <1>1, <1>4, <3>1, <3>3
  <2>3. Evidence(run.session)' = Evidence(run.session)
    BY <1>1, <1>6 DEF Evidence
  <2>4. Told(mode', Everybody', run'.scores, run'.session, Evidence(run.session)')
    BY <1>1, <1>3, <1>6, <2>1, <2>3
  <2>5. OneRowEach(results') /\ People(mode', people') /\ People(mode', Everybody')
    BY <1>1, <1>3, <1>4, <2>1 DEF Inv, Recorded
  <2>6. state'[run.session] = [status |-> "PROCESSING", files |-> evidence'[run.session]]
    BY <1>1, <1>3
  <2> QED BY <1>3, <1>6, <2>2, <2>4, <2>5, <2>6 DEF Recorded
<1>10. run \notin AtRank /\ ~Showing /\ \A t \in Term : t < run.session => Tried(t)
  BY <1>1, SessionIs
<1>11. Passed'
  BY <1>1, <1>6, <1>7, <1>10 DEF Passed, Tried
<1>12. Ranked'
  BY <1>1, <1>7, <1>10, StillCleared
<1> QED BY <1>8, <1>9, <1>11, <1>12 DEF Inv

(* The rows of a session in the place of those it had.                     *)
LEMMA ReplacedIs ==
  ASSUME Inv, run.at = "scores", NEW rows, rows = Others(run.session) \union run.scores
  PROVE  /\ OneRowEach(rows) /\ rows \subseteq Result
         /\ (\A r : r.session # run.session => (r \in results <=> r \in rows))
         /\ Told(mode, people, rows, run.session, Evidence(run.session))
<1> DEFINE s == run.session
<1>1. /\ run.scores \subseteq Result /\ People(mode, people)
      /\ (\A r \in run.scores : r.session = s)
      /\ Told(mode, people, run.scores, s, Evidence(s))
  BY WritingIs DEF Everybody
<1>2. Others(s) = {r \in results : r.session # s}
  BY DEF Others
<1>3. OneRowEach(results) /\ results \subseteq Result
  BY DEF Inv, Typed, Recorded
<1> HIDE DEF s
<1>4. rows = {r \in results : r.session # s} \union run.scores
  BY <1>2 DEF s
<1>5. \A first, second \in run.scores : first.id = second.id => first = second
  <2>1. \A first, second \in run.scores :
          first.session = s /\ second.session = s /\ first.id = second.id => first = second
    BY <1>1, ToldOnce DEF People
  <2> QED BY <1>1, <2>1
<1>6. OneRowEach(rows)
  <2> SUFFICES ASSUME NEW first \in rows, NEW second \in rows, first.session = second.session, first.id = second.id
               PROVE  first = second
    BY DEF OneRowEach
  <2>1. CASE first.session = s
    BY <1>4, <1>5, <2>1
  <2>2. CASE first.session # s
    BY <1>1, <1>3, <1>4, <2>2 DEF OneRowEach
  <2> QED BY <2>1, <2>2
<1>7. rows \subseteq Result
  BY <1>1, <1>3, <1>4
<1>8. \A r : r.session # s => (r \in results <=> r \in rows)
  BY <1>1, <1>4
<1>9. Told(mode, people, rows, s, Evidence(s))
  <2>1. \A r : r.session = s => (r \in run.scores <=> r \in rows)
    BY <1>4
  <2> QED BY <1>1, <2>1, ToldElsewhere
<1> QED BY <1>6, <1>7, <1>8, <1>9 DEF s

(* A session gets an outcome, and the run goes on to the next.             *)
LEMMA OutcomeKeeps ==
  ASSUME Inv, run.at = "people" \/ run.at = "scores", NEW status \in Outcome,
         state' = Record(run.session, status), NEW failing \in BOOLEAN, ToNext(failing),
         UNCHANGED <<mode, evidence, changes, rankingVars>>, faults' \in 0 .. MaxFaults,
         People(mode, people'), Begins(people, people'), results' \subseteq Result, OneRowEach(results'),
         \A r : r.session # run.session => (r \in results <=> r \in results'),
         status = "PROCESSED" => Told(mode, people', results', run.session, Evidence(run.session))
  PROVE  Inv'
<1>1. PICK s \in Term : s = run.session
  BY WritingIs
<1>2. run \notin AtRank /\ ~Showing /\ \A t \in Term : t < s => Tried(t)
  BY <1>1, SessionIs
<1>3. status \in Outcome \union {"pending", "PROCESSING"} /\ state' = Record(s, status)
  BY <1>1
<1>4. /\ state' \in [Term -> [status : Outcome \union {"pending", "PROCESSING"}, files : Nat]]
      /\ state'[s] = [status |-> status, files |-> evidence[s]]
      /\ \A t \in Term : t # s => state'[t] = state[t]
      /\ \A t \in Term : state'[t].files <= Len(Versions[t])
  BY <1>3, RecordIs DEF Inv
<1>5. \A t \in Term : t <= run.session => Tried(t)'
  <2>1. \A t \in Term : t <= run.session => t < s \/ t = s
    BY <1>1, PilotAssumption DEF Term
  <2> QED BY <1>2, <1>4, <2>1 DEF Tried
<1>6. /\ RunTyped' /\ Passed'
      /\ run' \notin Writing /\ run'.at # "people" /\ run' \notin AtRank /\ ~Showing'
  BY <1>1, <1>5, MovedOn
<1>7. Typed'
  BY <1>4, <1>6 DEF Inv, Typed
<1>8. Recorded'
  <2>1. status = "PROCESSED" => Told(mode, people', results', s, Events(Version(s, evidence[s])))
    BY <1>1, WritingIs
  <2>2. \A r : r.session # s => (r \in results <=> r \in results')
    BY <1>1
  <2> QED BY <1>3, <1>6, <2>1, <2>2, RecordedNext
<1>9. Ranked'
  BY <1>2, <1>6, StillCleared
<1> QED BY <1>6, <1>7, <1>8, <1>9 DEF Inv

(* The rows of a session are replaced, and it is PROCESSED.                *)
LEMMA WriteScoresKeeps == ASSUME Inv, WriteScores PROVE Inv'
<1>1. /\ run.at = "scores" /\ results' = Others(run.session) \union run.scores
      /\ state' = Record(run.session, "PROCESSED") /\ ToNext(run.failing)
      /\ UNCHANGED <<mode, evidence, people, faults, changes, rankingVars>>
  BY DEF WriteScores
<1>2. /\ OneRowEach(results') /\ results' \subseteq Result
      /\ (\A r : r.session # run.session => (r \in results <=> r \in results'))
      /\ Told(mode, people, results', run.session, Evidence(run.session))
  BY <1>1, ReplacedIs
<1>3. run.failing \in BOOLEAN /\ People(mode, people')
  BY <1>1, WritingIs
<1>4. Begins(people, people') /\ faults' \in 0 .. MaxFaults
  BY <1>1 DEF Begins, Inv, Typed
<1>5. "PROCESSED" \in Outcome
  BY DEF Outcome
<1>6. Told(mode, people', results', run.session, Evidence(run.session))
  BY <1>1, <1>2
<1> QED BY <1>1, <1>2, <1>3, <1>4, <1>5, <1>6, OutcomeKeeps

(* A write fails, applied or not: FAILED, so its rows are ranked no more.  *)
LEMMA FailKeeps == ASSUME Inv, Fail PROVE Inv'
<1>1. /\ run.at = "people" \/ run.at = "scores"
      /\ faults < MaxFaults /\ faults' = faults + 1
      /\ people' \in {people} \union (IF run.at = "people" THEN {people \o run.created} ELSE {})
      /\ results' \in {results} \union
           (IF run.at = "scores" THEN {Others(run.session) \union run.scores} ELSE {})
      /\ state' = Record(run.session, "FAILED") /\ ToNext(TRUE)
      /\ UNCHANGED <<mode, evidence, changes, rankingVars>>
  BY DEF Fail
<1>2. People(mode, people) /\ People(mode, Everybody) /\ Begins(people, Everybody)
  BY <1>1, WritingIs
<1>3. people' = people \/ people' = Everybody
  BY <1>1 DEF Everybody
<1>4. People(mode, people') /\ Begins(people, people')
  BY <1>2, <1>3 DEF Begins
<1>5. /\ OneRowEach(results') /\ results' \subseteq Result
      /\ (\A r : r.session # run.session => (r \in results <=> r \in results'))
  <2>1. CASE results' = results
    BY <2>1 DEF Inv, Typed, Recorded
  <2>2. CASE run.at = "scores" /\ results' = Others(run.session) \union run.scores
    BY <2>2, ReplacedIs
  <2> QED BY <1>1, <2>1, <2>2
<1>6. faults' \in 0 .. MaxFaults
  BY <1>1, ProgramAssumption DEF Inv, Typed
<1>7. "FAILED" \in Outcome /\ TRUE \in BOOLEAN /\ "FAILED" # "PROCESSED"
  BY DEF Outcome
<1> QED BY <1>1, <1>4, <1>5, <1>6, <1>7, OutcomeKeeps

(* The invocation is over, or was killed.                                  *)
LEMMA LeaveKeeps ==
  ASSUME Inv, Leave, UNCHANGED <<mode, evidence, people, state, results, changes>>, faults' \in 0 .. MaxFaults
  PROVE  Inv'
<1>1. run' = Idle /\ run'.at = "idle" /\ ClearRanking
  BY DEF Leave, Idle
<1>2. run' \notin Writing /\ run' \notin AtSession /\ run' \notin AtLoad /\ run' \notin AtRank /\ ~Showing'
  BY <1>1 DEF Writing, AtSession, AtLoad, AtRank, Showing, Shows, Published
<1>3. Typed'
  BY <1>1 DEF Inv, Typed, RunTyped
<1>4. Recorded'
  BY <1>1, <1>2, RecordedSame DEF Inv
<1>5. RankingTypeOK' /\ Cleared'
  <2>1. RankingTypeOK
    BY DEF Inv, Ranked
  <2>2. ClearRanking
    BY <1>1
  <2> QED BY <2>1, <2>2, ClearedIs
<1> QED BY <1>2, <1>3, <1>4, <1>5, FS_EmptySet DEF Inv, Passed, Ranked, Cleared

(* The process dies.                                                       *)
LEMMA DieKeeps == ASSUME Inv, Die PROVE Inv'
<1>1. faults' \in 0 .. MaxFaults
  BY ProgramAssumption DEF Die, Inv, Typed
<1> QED BY <1>1, LeaveKeeps DEF Die

(* The invocation ends.                                                    *)
LEMMA EndKeeps == ASSUME Inv, End PROVE Inv'
  BY LeaveKeeps DEF End, Inv, Typed

(* A failing run keeps the earlier view.                                   *)
LEMMA KeepViewKeeps == ASSUME Inv, KeepView PROVE Inv'
  BY LeaveKeeps DEF KeepView, Inv, Typed

-----------------------------------------------------------------------------
(* Sums.                                                                   *)
SumsUp(f, n, g) == f[0] = 0 /\ \A k \in 1 .. n : f[k] = f[k - 1] + g[k]

(* A sum is computed step by step.                                         *)
LEMMA SummedIs ==
  ASSUME NEW n \in Nat, NEW g, \A k \in 1 .. n : g[k] \in Nat
  PROVE  \E f \in [0 .. n -> Nat] : SumsUp(f, n, g) /\ Summed(g, n) = f[n]
<1> DEFINE step == [pair \in (1 .. n) \X Nat |-> pair[2] + g[pair[1]]]
<1>1. step \in [(1 .. n) \X Nat -> Nat] /\ 0 \in Nat
  OBVIOUS
<1>2. PICK f \in [0 .. n -> Nat] : Computes(f, n, 0, step)
  <2> HIDE DEF step
  <2> QED BY <1>1, Recursion
<1>3. \A k \in 1 .. n : f[k - 1] \in Nat
  <2> SUFFICES ASSUME NEW k \in 1 .. n PROVE f[k - 1] \in Nat
    OBVIOUS
  <2>1. k - 1 \in 0 .. n
    OBVIOUS
  <2> QED BY <2>1
<1>4. SumsUp(f, n, g)
  BY <1>2, <1>3 DEF Computes, SumsUp
<1> HIDE DEF step
<1> DEFINE body(u, s) == IF s = 0 THEN 0 ELSE u[s - 1] + g[s]
           Adds(u) == u = [s \in 0 .. n |-> body(u, s)]
<1>5. Adds(f)
  <2>1. ASSUME NEW s \in 0 .. n PROVE f[s] = body(f, s)
    <3>1. CASE s = 0
      BY <1>4, <3>1 DEF SumsUp
    <3>2. CASE s # 0
      <4>1. s \in 1 .. n
        BY <3>2
      <4> QED BY <1>4, <3>2, <4>1 DEF SumsUp
    <3> QED BY <3>1, <3>2
  <2>2. f = [s \in 0 .. n |-> f[s]]
    OBVIOUS
  <2> HIDE DEF body
  <2> QED BY <2>1, <2>2
<1> DEFINE upto == CHOOSE u : Adds(u)
<1>6. Adds(upto)
  <2> HIDE DEF Adds
  <2> QED BY <1>5
<1>7. Summed(g, n) = upto[n]
  BY DEF Summed
<1> HIDE DEF upto
<1>8. upto[n] = f[n]
  <2> DEFINE T == {k \in 0 .. n : upto[k] = f[k]}
  <2>1. 0 \in T
    BY <1>4, <1>6 DEF SumsUp
  <2>2. ASSUME NEW k \in 0 .. n - 1, k \in T PROVE k + 1 \in T
    <3>1. k + 1 \in 1 .. n /\ k + 1 \in 0 .. n /\ k + 1 - 1 = k /\ k + 1 # 0
      OBVIOUS
    <3>2. upto[k + 1] = upto[k] + g[k + 1]
      <4>1. upto[k + 1] = body(upto, k + 1)
        <5> HIDE DEF body
        <5> QED BY <1>6, <3>1
      <4> QED BY <3>1, <4>1
    <3>3. f[k + 1] = f[k] + g[k + 1]
      BY <1>4, <3>1 DEF SumsUp
    <3> QED BY <2>2, <3>1, <3>2, <3>3
  <2>3. 0 .. n \subseteq T
    <3> HIDE DEF T
    <3> QED BY <2>1, <2>2, InductionUpTo
  <2> QED BY <2>3
<1> QED BY <1>2, <1>4, <1>7, <1>8

(* A sum of numbers is a number.                                           *)
LEMMA SummedType ==
  ASSUME NEW n \in Nat, NEW g, \A k \in 1 .. n : g[k] \in Nat
  PROVE  Summed(g, n) \in Nat
<1>1. PICK f \in [0 .. n -> Nat] : SumsUp(f, n, g) /\ Summed(g, n) = f[n]
  BY SummedIs
<1>2. n \in 0 .. n
  OBVIOUS
<1> QED BY <1>1, <1>2

(* One more number.                                                        *)
LEMMA OneMore ==
  ASSUME NEW k \in Nat
  PROVE  \A j : j \in 1 .. k + 1 <=> j \in 1 .. k \/ j = k + 1
  OBVIOUS

(* More at one place is as much more in the sum.                           *)
LEMMA SummedMore ==
  ASSUME NEW n \in Nat, NEW g, NEW h, NEW t, NEW x \in Nat,
         \A k \in 1 .. n : g[k] \in Nat /\ h[k] = IF k = t THEN g[k] + x ELSE g[k]
  PROVE  Summed(h, n) = Summed(g, n) + IF t \in 1 .. n THEN x ELSE 0
<1>1. PICK f \in [0 .. n -> Nat] : SumsUp(f, n, g) /\ Summed(g, n) = f[n]
  BY SummedIs
<1>2. \A k \in 1 .. n : h[k] \in Nat
  OBVIOUS
<1>3. PICK e \in [0 .. n -> Nat] : SumsUp(e, n, h) /\ Summed(h, n) = e[n]
  BY <1>2, SummedIs
<1> DEFINE T == {k \in 0 .. n : e[k] = f[k] + IF t \in 1 .. k THEN x ELSE 0}
<1>4. 0 \in T
  <2>1. t \notin 1 .. 0
    OBVIOUS
  <2> QED BY <1>1, <1>3, <2>1 DEF SumsUp
<1>5. ASSUME NEW k \in 0 .. n - 1, k \in T PROVE k + 1 \in T
  <2>1. k + 1 \in 1 .. n /\ k + 1 \in 0 .. n /\ k + 1 - 1 = k /\ k \in 0 .. n /\ k \in Nat
    OBVIOUS
  <2>2. f[k + 1] = f[k] + g[k + 1] /\ e[k + 1] = e[k] + h[k + 1]
    BY <1>1, <1>3, <2>1 DEF SumsUp
  <2>3. f[k] \in Nat /\ e[k] \in Nat /\ g[k + 1] \in Nat /\ e[k] = f[k] + IF t \in 1 .. k THEN x ELSE 0
    BY <1>5, <2>1
  <2>4. t \in 1 .. k + 1 <=> t \in 1 .. k \/ t = k + 1
    BY <2>1, OneMore
  <2>5. CASE t = k + 1
    <3>1. t \notin 1 .. k /\ t \in 1 .. k + 1 /\ h[k + 1] = g[k + 1] + x
      BY <2>1, <2>5
    <3>2. e[k] = f[k]
      BY <2>3, <3>1
    <3>3. e[k + 1] = f[k] + (g[k + 1] + x) /\ f[k + 1] = f[k] + g[k + 1]
      BY <2>2, <3>1, <3>2
    <3>4. e[k + 1] = f[k + 1] + x
      BY <2>3, <3>3
    <3> QED BY <2>1, <3>1, <3>4
  <2>6. CASE t # k + 1
    <3>1. h[k + 1] = g[k + 1]
      BY <2>1, <2>6
    <3> DEFINE w == IF t \in 1 .. k THEN x ELSE 0
    <3>2. w \in Nat /\ e[k] = f[k] + w
      BY <2>3
    <3> HIDE DEF w
    <3>3. e[k + 1] = (f[k] + w) + g[k + 1] /\ f[k + 1] = f[k] + g[k + 1]
      BY <2>2, <3>1, <3>2
    <3>4. f[k] \in Nat /\ g[k + 1] \in Nat /\ w \in Nat
      BY <2>3, <3>2
    <3>5. e[k + 1] = f[k + 1] + w
      BY <3>3, <3>4
    <3> QED BY <2>1, <2>4, <2>6, <3>5 DEF w
  <2> QED BY <2>5, <2>6
<1>6. 0 .. n \subseteq T
  <2> HIDE DEF T
  <2> QED BY <1>4, <1>5, InductionUpTo
<1>7. n \in T
  BY <1>6
<1> QED BY <1>1, <1>3, <1>7

(* The same numbers have the same sum.                                     *)
LEMMA SummedSame ==
  ASSUME NEW n \in Nat, NEW g, NEW h, \A k \in 1 .. n : g[k] \in Nat /\ h[k] = g[k]
  PROVE  Summed(h, n) = Summed(g, n)
<1>1. \A k \in 1 .. n : g[k] \in Nat /\ h[k] = IF k = 0 THEN g[k] + 0 ELSE g[k]
  OBVIOUS
<1>2. Summed(h, n) = Summed(g, n) + IF 0 \in 1 .. n THEN 0 ELSE 0
  BY <1>1, SummedMore
<1>3. Summed(g, n) \in Nat
  BY SummedType
<1> QED BY <1>2, <1>3

(* Nothing but zeros is zero.                                              *)
LEMMA SummedZero ==
  ASSUME NEW n \in Nat, NEW g, \A k \in 1 .. n : g[k] = 0
  PROVE  Summed(g, n) = 0
<1>0. \A k \in 1 .. n : g[k] \in Nat
  OBVIOUS
<1>1. PICK f \in [0 .. n -> Nat] : SumsUp(f, n, g) /\ Summed(g, n) = f[n]
  BY <1>0, SummedIs
<1> DEFINE T == {k \in 0 .. n : f[k] = 0}
<1>2. 0 \in T
  BY <1>1 DEF SumsUp
<1>3. ASSUME NEW k \in 0 .. n - 1, k \in T PROVE k + 1 \in T
  <2>1. k + 1 \in 1 .. n /\ k + 1 \in 0 .. n /\ k + 1 - 1 = k
    OBVIOUS
  <2> QED BY <1>1, <1>3, <2>1 DEF SumsUp
<1>4. 0 .. n \subseteq T
  <2> HIDE DEF T
  <2> QED BY <1>2, <1>3, InductionUpTo
<1> QED BY <1>1, <1>4

-----------------------------------------------------------------------------
(* The ranking so far.                                                     *)
LEMMA ScoreInIs ==
  ASSUME NEW rows, rows \subseteq Result, NEW s, NEW p
  PROVE  /\ ScoreIn(rows, s, p) \in Nat
         /\ (\A r \in rows : ~(r.session = s /\ r.id = p)) => ScoreIn(rows, s, p) = 0
         /\ \A r \in rows : /\ r.session = s /\ r.id = p
                            /\ \A other \in rows : other.session = s /\ other.id = p => other = r
                            => ScoreIn(rows, s, p) = r.score
<1> DEFINE own == {r \in rows : r.session = s /\ r.id = p}
           one == CHOOSE r \in own : TRUE
<1>1. ScoreIn(rows, s, p) = IF own = {} THEN 0 ELSE one.score
  BY DEF ScoreIn
<1>2. own # {} => one \in own
  OBVIOUS
<1>3. \A r \in own : r \in rows /\ r.score \in Nat /\ r.session = s /\ r.id = p
  BY DEF Result
<1>4. \A r \in rows : r.session = s /\ r.id = p => r \in own
  OBVIOUS
<1> HIDE DEF own, one
<1>5. ScoreIn(rows, s, p) \in Nat
  BY <1>1, <1>2, <1>3
<1>6. (\A r \in rows : ~(r.session = s /\ r.id = p)) => ScoreIn(rows, s, p) = 0
  BY <1>1, <1>3
<1>7. ASSUME NEW r \in rows, r.session = s, r.id = p,
             \A other \in rows : other.session = s /\ other.id = p => other = r
      PROVE  ScoreIn(rows, s, p) = r.score
  <2>1. own # {} /\ one = r
    BY <1>2, <1>3, <1>4, <1>7
  <2> QED BY <1>1, <2>1
<1> QED BY <1>5, <1>6, <1>7

(* The points in some rows are a number.                                   *)
LEMMA PointsInType ==
  ASSUME NEW rows, rows \subseteq Result, NEW p
  PROVE  PointsIn(rows, p) \in Nat
<1> DEFINE g == [s \in Term |-> ScoreIn(rows, s, p)]
<1>1. \A k \in 1 .. N : g[k] \in Nat
  BY ScoreInIs DEF Term
<1>2. N \in Nat
  BY PilotAssumption
<1> HIDE DEF g
<1>3. Summed(g, N) \in Nat
  BY <1>1, <1>2, SummedType
<1> QED BY <1>3 DEF PointsIn, g

(* Nothing read is a total of nothing.                                     *)
LEMMA TotalNone == ASSUME NEW p PROVE TotalOf({}, p) = Nothing
<1> DEFINE g == [s \in Term |-> ScoreIn({}, s, p)]
<1>1. N \in Nat
  BY PilotAssumption
<1>2. \A k \in 1 .. N : g[k] = 0
  BY DEF Term, ScoreIn
<1> HIDE DEF g
<1>3. Summed(g, N) = 0
  BY <1>1, <1>2, SummedZero
<1>4. PointsIn({}, p) = 0
  BY <1>3 DEF PointsIn, g
<1>5. RowsOf({}, p) = {}
  BY DEF RowsOf
<1>6. AllComplete({}, p) = TRUE
  BY <1>5 DEF AllComplete
<1>7. (RowsOf({}, p) # {}) = FALSE
  BY <1>5
<1>8. Cardinality(RowsOf({}, p)) = 0
  BY <1>5, FS_EmptySet
<1> QED BY <1>4, <1>6, <1>7, <1>8 DEF TotalOf, Nothing

TotalType == [listed : BOOLEAN, score : Nat, sessions : Nat, complete : BOOLEAN]

(* A total has its type.                                                   *)
LEMMA TotalIs ==
  ASSUME NEW rows, rows \subseteq Result, IsFiniteSet(rows), NEW p
  PROVE  TotalOf(rows, p) \in TotalType /\ IsFiniteSet(RowsOf(rows, p))
<1>1. IsFiniteSet(RowsOf(rows, p))
  <2>1. RowsOf(rows, p) \subseteq rows
    BY DEF RowsOf
  <2> QED BY <2>1, FS_Subset
<1>2. Cardinality(RowsOf(rows, p)) \in Nat
  BY <1>1, FS_CardinalityType
<1>3. PointsIn(rows, p) \in Nat
  BY PointsInType
<1>4. AllComplete(rows, p) \in BOOLEAN /\ (RowsOf(rows, p) # {}) \in BOOLEAN
  BY DEF AllComplete
<1> QED BY <1>1, <1>2, <1>3, <1>4 DEF TotalOf, TotalType

(* One more row is added to the total of its participant, and to no other. *)
NewRow(r, rows) ==
  /\ r \in Result /\ r.active = TRUE /\ r.session \in Term
  /\ \A seen \in rows : ~(seen.session = r.session /\ seen.id = r.id)

(* TotalOf is the accumulator of the ranking, one row after another.       *)
LEMMA TotalMore ==
  ASSUME NEW rows, rows \subseteq Result, IsFiniteSet(rows), NEW r, NewRow(r, rows),
         NEW more, more = rows \union {r}
  PROVE  /\ TotalOf(more, r.id) = Added(TotalOf(rows, r.id), r)
         /\ \A p : p # r.id => TotalOf(more, p) = TotalOf(rows, p)
         /\ IsFiniteSet(more) /\ more \subseteq Result
<1>0. /\ r \in Result /\ r.active = TRUE /\ r.session \in Term
      /\ \A seen \in rows : ~(seen.session = r.session /\ seen.id = r.id)
  BY DEF NewRow
<1> USE <1>0
<1>1. more \subseteq Result /\ r.score \in Nat /\ r.complete \in BOOLEAN
  BY DEF Result
<1>2. IsFiniteSet(more)
  BY FS_AddElement
<1>3. N \in Nat
  BY PilotAssumption
<1>4. ASSUME NEW p, NEW s, p # r.id \/ s # r.session PROVE ScoreIn(more, s, p) = ScoreIn(rows, s, p)
  <2> DEFINE a == {x \in more : x.session = s /\ x.id = p}
             b == {x \in rows : x.session = s /\ x.id = p}
  <2>1. a = b
    BY <1>4
  <2>2. ScoreIn(more, s, p) = IF a = {} THEN 0 ELSE (CHOOSE x \in a : TRUE).score
    BY DEF ScoreIn
  <2>3. ScoreIn(rows, s, p) = IF b = {} THEN 0 ELSE (CHOOSE x \in b : TRUE).score
    BY DEF ScoreIn
  <2> HIDE DEF a, b
  <2> QED BY <2>1, <2>2, <2>3
<1>5. ScoreIn(rows, r.session, r.id) = 0
  BY ScoreInIs
<1>6. ScoreIn(more, r.session, r.id) = r.score
  <2>1. r \in more /\ \A other \in more : other.session = r.session /\ other.id = r.id => other = r
    OBVIOUS
  <2> QED BY <1>1, <2>1, ScoreInIs
<1>7. ASSUME NEW p, p # r.id PROVE TotalOf(more, p) = TotalOf(rows, p)
  <2>1. RowsOf(more, p) = RowsOf(rows, p)
    BY <1>7 DEF RowsOf
  <2>2. [s \in Term |-> ScoreIn(more, s, p)] = [s \in Term |-> ScoreIn(rows, s, p)]
    BY <1>4, <1>7
  <2> QED BY <2>1, <2>2 DEF TotalOf, PointsIn, AllComplete
<1> DEFINE g == [s \in Term |-> ScoreIn(rows, s, r.id)]
           h == [s \in Term |-> ScoreIn(more, s, r.id)]
<1>8. \A k \in 1 .. N : g[k] \in Nat /\ h[k] = IF k = r.session THEN g[k] + r.score ELSE g[k]
  <2> SUFFICES ASSUME NEW k \in 1 .. N
               PROVE  g[k] \in Nat /\ h[k] = IF k = r.session THEN g[k] + r.score ELSE g[k]
    OBVIOUS
  <2>1. g[k] = ScoreIn(rows, k, r.id) /\ h[k] = ScoreIn(more, k, r.id)
    BY DEF Term
  <2>2. ScoreIn(rows, k, r.id) \in Nat
    BY ScoreInIs
  <2> HIDE DEF g, h
  <2>3. CASE k = r.session
    BY <1>1, <1>5, <1>6, <2>1, <2>3
  <2>4. CASE k # r.session
    BY <1>4, <2>1, <2>2, <2>4
  <2> QED BY <2>1, <2>2, <2>3, <2>4
<1>9. PointsIn(more, r.id) = PointsIn(rows, r.id) + r.score
  <2>1. r.session \in 1 .. N
    BY DEF Term
  <2> HIDE DEF g, h
  <2>2. Summed(h, N) = Summed(g, N) + IF r.session \in 1 .. N THEN r.score ELSE 0
    BY <1>1, <1>3, <1>8, SummedMore
  <2>3. Summed(h, N) = Summed(g, N) + r.score
    BY <2>1, <2>2
  <2> QED BY <2>3 DEF PointsIn, g, h
<1>10. RowsOf(more, r.id) = RowsOf(rows, r.id) \union {r} /\ r \notin RowsOf(rows, r.id)
  BY DEF RowsOf
<1>11. Cardinality(RowsOf(more, r.id)) = Cardinality(RowsOf(rows, r.id)) + 1
  BY <1>10, TotalIs, FS_AddElement
<1>12. AllComplete(more, r.id) = (AllComplete(rows, r.id) /\ r.complete)
  <2>1. AllComplete(more, r.id) <=> AllComplete(rows, r.id) /\ r.complete
    BY <1>10 DEF AllComplete
  <2> QED BY <2>1 DEF AllComplete
<1>13. (RowsOf(more, r.id) # {}) = TRUE
  BY <1>10
<1>14. TotalOf(more, r.id) = Added(TotalOf(rows, r.id), r)
  BY <1>9, <1>11, <1>12, <1>13 DEF TotalOf, Added
<1> QED BY <1>1, <1>2, <1>7, <1>14

(* The ranking begins with the rows of the PROCESSED sessions, none read.  *)
LEMMA LoadScoresKeeps == ASSUME Inv, LoadScores PROVE Inv'
<1> DEFINE left == {r \in results : IsProcessed(r.session)}
<1>1. /\ run.at = "load" /\ run' = [at |-> "rank", failing |-> run.failing, left |-> left]
      /\ UNCHANGED <<mode, evidence, people, state, results, faults, changes, rankingVars>>
  BY DEF LoadScores
<1>2. run \in AtLoad /\ run \notin AtRank /\ ~Showing
  BY <1>1, RunIs DEF Inv, Typed
<1>3. left \subseteq Result
  BY DEF Inv, Typed
<1> HIDE DEF left
<1>4. run' \in AtRank /\ run'.at = "rank" /\ run'.left = left
  BY <1>1, <1>2, <1>3 DEF AtLoad, AtRank
<1>5. run' \notin Writing /\ run' \notin AtSession /\ run' \notin AtLoad
  BY <1>4 DEF Writing, AtSession, AtLoad
<1>6. Typed'
  BY <1>1, <1>4 DEF Inv, Typed, RunTyped
<1>7. Recorded'
  BY <1>1, <1>4, <1>5, RecordedSame DEF Inv
<1>8. Passed'
  BY <1>1, <1>2, <1>5 DEF Inv, Passed, Tried
<1>9. Ranked'
  <2>1. RankingTypeOK /\ IsFiniteSet(read) /\ read = {} /\ \A p \in Participant : totals[p] = Nothing
    BY <1>2 DEF Inv, Ranked
  <2>2. RankingTypeOK' /\ IsFiniteSet(read') /\ read' = {} /\ totals' = totals
    BY <1>1, <2>1 DEF RankingTypeOK, rankingVars
  <2>3. left = {r \in results' : IsProcessed(r.session)'}
    BY <1>1 DEF IsProcessed, left
  <2>4. \A p \in Participant : totals'[p] = IF p \in Now' THEN TotalOf(read', p) ELSE Nothing
    BY <2>1, <2>2, TotalNone
  <2> QED BY <1>4, <2>2, <2>3, <2>4 DEF Ranked
<1> QED BY <1>6, <1>7, <1>8, <1>9 DEF Inv

(* A row to be ranked is one somebody spoke for.                           *)
LEMMA ReadActive ==
  ASSUME Inv, NEW r \in results, IsProcessed(r.session)
  PROVE  r \in Result /\ r.session \in Term /\ r.id \in Participant /\ r.active = TRUE /\ r.score \in Nat
<1>1. r \in Result /\ r.session \in Term /\ r.id \in Participant /\ r.score \in Nat
  BY ProgramAssumption DEF Inv, Typed, Result
<1>2. Told(mode, people, results, r.session, Evidence(r.session))
  BY <1>1 DEF Inv, Recorded
<1>3. PICK i \in DOMAIN people : r = RowFor(mode, people[i], r.session, Evidence(r.session))
  BY <1>2 DEF Told
<1>4. r.active = TRUE
  BY <1>3 DEF RowFor
<1> QED BY <1>1, <1>4

(* One row is taken into the ranking.                                      *)
LEMMA AddResultKeeps == ASSUME Inv, AddResult PROVE Inv'
<1>1. PICK r \in run.left :
        /\ Take(r, {people[i].id : i \in Followed(Book)})
        /\ run' = [run EXCEPT !.left = @ \ {r}]
  BY DEF AddResult
<1>2. run.at = "rank" /\ UNCHANGED <<mode, evidence, people, state, results, faults, changes>>
  BY DEF AddResult
<1>3. run \in AtRank
  BY <1>2, RunIs DEF Inv, Typed
<1>4. run = [at |-> "rank", failing |-> run.failing, left |-> run.left] /\ run.left \subseteq Result /\ run.failing \in BOOLEAN
  BY <1>3 DEF AtRank
<1>5. run' = [at |-> "rank", failing |-> run.failing, left |-> run.left \ {r}]
  <2> DEFINE left == run.left
             failing == run.failing
  <2>1. run' = [run EXCEPT !.left = left \ {r}] /\ run = [at |-> "rank", failing |-> failing, left |-> left]
    BY <1>1, <1>4
  <2> HIDE DEF left, failing
  <2>2. run' = [at |-> "rank", failing |-> failing, left |-> left \ {r}]
    BY <2>1
  <2> QED BY <2>2 DEF left, failing
<1>6. run' \in AtRank /\ run'.at = "rank" /\ run'.left = run.left \ {r}
  BY <1>4, <1>5 DEF AtRank
<1>7. run' \notin Writing /\ run' \notin AtSession /\ run' \notin AtLoad
  BY <1>6 DEF Writing, AtSession, AtLoad
<1>8. Typed'
  BY <1>2, <1>6 DEF Inv, Typed, RunTyped
<1>9. Recorded'
  BY <1>2, <1>6, <1>7, RecordedSame DEF Inv
<1>10. Passed'
  BY <1>2, <1>3, <1>7 DEF Inv, Passed, Tried
<1>11. /\ RankingTypeOK /\ IsFiniteSet(read)
       /\ read \intersect run.left = {}
       /\ read \union run.left = {x \in results : IsProcessed(x.session)}
       /\ \A p \in Participant : totals[p] = IF p \in Now THEN TotalOf(read, p) ELSE Nothing
  BY <1>3 DEF Inv, Ranked
<1>12. r \in Result /\ r.session \in Term /\ r.id \in Participant /\ r.active = TRUE /\ r.score \in Nat
  BY <1>11, ReadActive
<1>13. \A seen \in read : ~(seen.session = r.session /\ seen.id = r.id)
  BY <1>1 DEF Take
<1>14. read' = read \union {r} /\ read \subseteq Result
  BY <1>1, <1>11 DEF Take, RankingTypeOK
<1>15. /\ TotalOf(read', r.id) = Added(TotalOf(read, r.id), r)
       /\ \A p : p # r.id => TotalOf(read', p) = TotalOf(read, p)
       /\ IsFiniteSet(read') /\ read' \subseteq Result
  <2> DEFINE more == read \union {r}
  <2>1. more = read \union {r}
    OBVIOUS
  <2> HIDE DEF more
  <2>2. /\ TotalOf(more, r.id) = Added(TotalOf(read, r.id), r)
        /\ \A p : p # r.id => TotalOf(more, p) = TotalOf(read, p)
        /\ IsFiniteSet(more) /\ more \subseteq Result
    <3>1. read \subseteq Result /\ IsFiniteSet(read)
      BY <1>11, <1>14
    <3>2. NewRow(r, read)
      BY <1>12, <1>13 DEF NewRow
    <3> QED BY <2>1, <3>1, <3>2, TotalMore
  <2> QED BY <1>14, <2>1, <2>2
<1>16. Now' = Now
  BY <1>2 DEF Now, Followed, Book
<1>17. /\ totals' \in [Participant -> [listed : BOOLEAN, score : Nat, sessions : Nat, complete : BOOLEAN]]
       /\ \A p \in Participant : totals'[p] = IF p \in Now' THEN TotalOf(read', p) ELSE Nothing
       /\ excluded' \in [Participant -> Nat]
  <2>1. /\ totals \in [Participant -> [listed : BOOLEAN, score : Nat, sessions : Nat, complete : BOOLEAN]]
        /\ excluded \in [Participant -> Nat]
    BY <1>11 DEF RankingTypeOK
  <2>2. TotalOf(read', r.id) \in [listed : BOOLEAN, score : Nat, sessions : Nat, complete : BOOLEAN]
    BY <1>15, TotalIs DEF TotalType
  <2>3. CASE r.id \in Now
    <3>1. totals' = [totals EXCEPT ![r.id] = Added(@, r)] /\ excluded' = excluded
      BY <1>1, <2>3 DEF Take, Now
    <3>2. Added(totals[r.id], r) = TotalOf(read', r.id)
      BY <1>11, <1>12, <1>15, <2>3
    <3>3. totals' = [totals EXCEPT ![r.id] = TotalOf(read', r.id)]
      BY <3>1, <3>2
    <3> QED BY <1>11, <1>12, <1>15, <1>16, <2>1, <2>2, <2>3, <3>1, <3>3
  <2>4. CASE r.id \notin Now
    <3>1. totals' = totals /\ excluded' = [excluded EXCEPT ![r.id] = @ + r.score]
      BY <1>1, <2>4 DEF Take, Now
    <3>2. excluded' \in [Participant -> Nat]
      BY <1>12, <2>1, <3>1
    <3>3. \A p \in Participant : p \in Now => p # r.id
      BY <2>4
    <3> QED BY <1>11, <1>15, <1>16, <2>1, <3>1, <3>2, <3>3
  <2> QED BY <2>3, <2>4
<1>18. RankingTypeOK'
  BY <1>15, <1>17 DEF RankingTypeOK
<1>19. read' \intersect run'.left = {} /\ read' \union run'.left = {x \in results' : IsProcessed(x.session)'}
  <2>1. read' \intersect run'.left = {} /\ read' \union run'.left = read \union run.left
    BY <1>6, <1>11, <1>14
  <2>2. {x \in results' : IsProcessed(x.session)'} = {x \in results : IsProcessed(x.session)}
    BY <1>2 DEF IsProcessed
  <2> QED BY <1>11, <2>1, <2>2
<1>20. Ranked'
  BY <1>6, <1>15, <1>17, <1>18, <1>19 DEF Ranked
<1> QED BY <1>8, <1>9, <1>10, <1>20 DEF Inv

(* The view is published, or the pilot refuses.                            *)
LEMMA PublishKeeps == ASSUME Inv, Publish PROVE Inv'
<1>1. /\ run.at = "rank"
      /\ UNCHANGED <<mode, evidence, people, state, results, faults, changes>>
  BY DEF Publish
<1>2. PICK table \in Attendance :
        IF Refused(Book, mode = "auto" /\ table.configured, table.rules, table.facts)
        THEN Leave
        ELSE /\ run' = [at |-> "published", table |-> table, view |->
                         OperationalView(Book, AttendanceSeen(Book, table.rules, table.facts))]
             /\ UNCHANGED rankingVars
  BY DEF Publish
<1>3. CASE Refused(Book, mode = "auto" /\ table.configured, table.rules, table.facts)
  BY <1>1, <1>2, <1>3, LeaveKeeps DEF Inv, Typed
<1>4. CASE ~Refused(Book, mode = "auto" /\ table.configured, table.rules, table.facts)
  <2>1. run' = Published(table) /\ UNCHANGED rankingVars
    BY <1>2, <1>4 DEF Published
  <2>2. Book' = Book
    BY <1>1 DEF Book, IsProcessed
  <2>3. Published(table)' = Published(table)
    BY <2>2 DEF Published
  <2>4. Showing'
    BY <1>1, <1>4, <2>1, <2>2, <2>3 DEF Showing, Shows
  <2>5. run'.at = "published"
    BY <2>1 DEF Published
  <2>6. run' \notin Writing /\ run' \notin AtSession /\ run' \notin AtLoad /\ run' \notin AtRank
    BY <2>5 DEF Writing, AtSession, AtLoad, AtRank
  <2>7. run \in AtRank
    BY <1>1, RunIs DEF Inv, Typed
  <2>8. Typed'
    BY <1>1, <2>4 DEF Inv, Typed, RunTyped
  <2>9. Recorded'
    BY <1>1, <2>5, <2>6, RecordedSame DEF Inv
  <2>10. Passed'
    BY <1>1, <2>6, <2>7 DEF Inv, Passed, Tried
  <2>11. Ranked'
    BY <2>1, <2>4, <2>6 DEF Inv, Ranked, RankingTypeOK, rankingVars
  <2> QED BY <2>8, <2>9, <2>10, <2>11 DEF Inv
<1> QED BY <1>3, <1>4

(* Every step keeps the invariant.                                         *)
LEMMA InvNext == ASSUME Unmistaken, Inv, [Next]_vars PROVE Inv'
<1>1. CASE Next
  BY <1>1, UploadKeeps, ReassignKeeps, StartRunKeeps, SkipSessionKeeps, EndEarlyKeeps, ProcessKeeps,
     AddPeopleKeeps, WriteScoresKeeps, LoadScoresKeeps, AddResultKeeps, KeepViewKeeps, PublishKeeps,
     EndKeeps, FailKeeps, DieKeeps DEF Next
<1>2. CASE UNCHANGED vars
  <2>1. /\ UNCHANGED <<mode, evidence, people, state, results, run, faults, changes>>
        /\ UNCHANGED <<read, totals, excluded>>
    BY <1>2 DEF vars, programVars, rankingVars
  <2>2. Book' = Book
    BY <2>1 DEF Book
  <2>3. (RunTyped <=> RunTyped') /\ (Showing <=> Showing')
    BY <2>1, <2>2 DEF RunTyped, Showing, Shows, Published
  <2>4. Typed'
    BY <2>1, <2>3 DEF Inv, Typed
  <2>5. Recorded'
    BY <2>1 DEF Inv, Recorded, Everybody, IsProcessed, Evidence
  <2>6. Passed'
    BY <2>1, <2>3 DEF Inv, Passed, Tried
  <2>7. Ranked'
    BY <2>1, <2>2, <2>3 DEF Inv, Ranked, RankingTypeOK, IsProcessed, Now
  <2> QED BY <2>4, <2>5, <2>6, <2>7 DEF Inv
<1> QED BY <1>1, <1>2

(* The invariant holds, whatever fails and however often it is tried       *)
(* again.                                                                  *)
THEOREM InvAlways == ASSUME Unmistaken PROVE Spec => []Inv
<1>1. Init => Inv
  BY InvInit
<1>2. Inv /\ [Next]_vars => Inv'
  BY InvNext
<1> QED BY <1>1, <1>2, PTL DEF Spec

-----------------------------------------------------------------------------
(* Nobody is made up twice: the people of one name are one.                *)
LEMMA OwnName ==
  ASSUME NEW md, NEW person
  PROVE  CallsFor(md, person, person.name)
  BY DEF CallsFor

(* A name belongs to one participant, however often sessions are tried     *)
(* again.                                                                  *)
THEOREM NobodyTwice == ASSUME Unmistaken PROVE Spec => []OneParticipantPerName
<1>1. ASSUME Inv PROVE OneParticipantPerName
  <2> SUFFICES ASSUME NEW i \in DOMAIN people, NEW j \in DOMAIN people, people[i].name = people[j].name
               PROVE  i = j
    BY DEF OneParticipantPerName
  <2>1. people \in Seq(Someone) /\ Distinguished(mode, people)
    BY <1>1 DEF Inv, Recorded, People
  <2>2. people[i] \in Someone
    BY <2>1, ElementOfSeq
  <2>3. people[i].name \in Name
    BY <2>2 DEF Someone
  <2>4. CallsFor(mode, people[i], people[i].name) /\ CallsFor(mode, people[j], people[i].name)
    BY OwnName
  <2> QED BY <2>1, <2>3, <2>4 DEF Distinguished
<1> QED BY <1>1, InvAlways, PTL

(* The evidence, counted in the properties as it is in the lemmas.         *)
LEMMA HeardIs ==
  ASSUME Typed, NEW s \in Term, NEW person
  PROVE  /\ Heard(person, s) = HeardUpTo(mode, person, Evidence(s), Len(Evidence(s)))
         /\ Points(person, s) = PointsUpTo(mode, person, Evidence(s), Len(Evidence(s)))
         /\ Points(person, s) \in Nat
         /\ Doubted(person, s) <=> DoubtUpTo(mode, person, Evidence(s), Len(Evidence(s)))
         /\ Spoke(person, s) <=> SpokeIn(mode, person, Evidence(s))
<1> DEFINE events == Evidence(s)
           n == Len(events)
<1>1. events \in Seq(Event)
  BY EvidenceIs
<1>2. DOMAIN events = 1 .. n /\ n \in Nat
  BY <1>1, LenProperties
<1>3. \A name : CalledBy(person, name) <=> CallsFor(mode, person, name)
  BY DEF CalledBy, CallsFor
<1>4. Heard(person, s) = {i \in DOMAIN events :
        ~events[i].system /\ events[i].name \notin External /\ CalledBy(person, events[i].name)}
  BY DEF Heard
<1> HIDE DEF events, n
<1>5. Heard(person, s) = HeardUpTo(mode, person, events, n)
  BY <1>2, <1>3, <1>4 DEF HeardUpTo, Speaks
<1>6. \A channel : Counted(person, s, channel) =
        {i \in Heard(person, s) :
           events[i].channel = channel /\ ~events[i].doubtful /\ events[i].text = "substantive"}
  BY DEF Counted, events
<1>7. \A channel : Counted(person, s, channel) = CountedUpTo(mode, person, events, n, channel)
  BY <1>5, <1>6 DEF CountedUpTo
<1>8. Points(person, s) = PointsUpTo(mode, person, events, n)
  BY <1>7 DEF Points, PointsUpTo
<1>9. Points(person, s) \in Nat
  BY <1>2, <1>8, PointsAre
<1>10. Doubted(person, s) <=> \E i \in Heard(person, s) : events[i].doubtful
  BY DEF Doubted, events
<1>11. Doubted(person, s) <=> DoubtUpTo(mode, person, events, n)
  BY <1>5, <1>10 DEF DoubtUpTo
<1>12. Spoke(person, s) <=> SpokeIn(mode, person, events)
  BY <1>5 DEF Spoke, SpokeIn, n
<1> QED BY <1>5, <1>8, <1>9, <1>11, <1>12 DEF events, n

(* The row a session has for somebody who spoke in it.                     *)
RowOf(person, s) ==
  [session |-> s, id |-> person.id, active |-> TRUE, score |-> Points(person, s), complete |-> ~Doubted(person, s)]

(* The row of the properties is the one of the lemmas.                     *)
LEMMA RowOfIs ==
  ASSUME Typed, NEW s \in Term, NEW person
  PROVE  RowOf(person, s) = RowFor(mode, person, s, Evidence(s))
<1>1. Points(person, s) = PointsUpTo(mode, person, Evidence(s), Len(Evidence(s)))
      /\ (Doubted(person, s) <=> DoubtUpTo(mode, person, Evidence(s), Len(Evidence(s))))
  BY HeardIs
<1>2. Doubted(person, s) \in BOOLEAN /\ DoubtUpTo(mode, person, Evidence(s), Len(Evidence(s))) \in BOOLEAN
  BY DEF Doubted, DoubtUpTo
<1>3. (~Doubted(person, s)) = (~DoubtUpTo(mode, person, Evidence(s), Len(Evidence(s))))
  BY <1>1, <1>2
<1> QED BY <1>1, <1>3 DEF RowOf, RowFor

(* The rows of a PROCESSED session, and the people they belong to.         *)
LEMMA RowsAre ==
  ASSUME Inv, NEW s \in Term, IsProcessed(s)
  PROVE  /\ \A r \in results : r.session = s =>
              \E i \in DOMAIN people : Spoke(people[i], s) /\ r = RowOf(people[i], s)
         /\ \A i \in Followed(Book) : Spoke(people[i], s) => RowOf(people[i], s) \in results
         /\ Followed(Book) = {i \in DOMAIN people : people[i].role = "participant"}
         /\ \A i, j \in DOMAIN people : people[i].id = people[j].id => i = j
<1>1. Told(mode, people, results, s, Evidence(s)) /\ Typed
  BY DEF Inv, Recorded
<1>2. \A i \in DOMAIN people :
        RowOf(people[i], s) = RowFor(mode, people[i], s, Evidence(s))
        /\ (Spoke(people[i], s) <=> SpokeIn(mode, people[i], Evidence(s)))
  BY <1>1, RowOfIs, HeardIs
<1>3. Followed(Book) = {i \in DOMAIN people : people[i].role = "participant"}
  BY DEF Followed, Book
<1>4. \A i, j \in DOMAIN people : people[i].id = people[j].id => i = j
  BY DEF Inv, Recorded, People, Distinguished
<1> QED BY <1>1, <1>2, <1>3, <1>4 DEF Told

(* The rows of a PROCESSED session are those of its evidence.              *)
THEOREM ScoresOfEvidence == ASSUME Unmistaken PROVE Spec => []PointsFollowEvidence
<1>1. ASSUME Inv PROVE PointsFollowEvidence
  <2> SUFFICES ASSUME NEW s \in Term, IsProcessed(s)
               PROVE  {r \in results : r.session = s /\ r.id \in Now} =
                        {RowOf(people[i], s) : i \in {j \in Followed(Book) : Spoke(people[j], s)}}
    BY DEF PointsFollowEvidence, RowOf
  <2>1. /\ \A r \in results : r.session = s =>
             \E i \in DOMAIN people : Spoke(people[i], s) /\ r = RowOf(people[i], s)
        /\ \A i \in Followed(Book) : Spoke(people[i], s) => RowOf(people[i], s) \in results
        /\ Followed(Book) = {i \in DOMAIN people : people[i].role = "participant"}
        /\ \A i, j \in DOMAIN people : people[i].id = people[j].id => i = j
    BY <1>1, RowsAre
  <2>2. \A person : RowOf(person, s).session = s /\ RowOf(person, s).id = person.id
    BY DEF RowOf
  <2>3. Now = {people[i].id : i \in Followed(Book)}
    BY DEF Now
  <2>4. ASSUME NEW r \in results, r.session = s, r.id \in Now
        PROVE  \E i \in Followed(Book) : Spoke(people[i], s) /\ r = RowOf(people[i], s)
    <3>1. PICK i \in DOMAIN people : Spoke(people[i], s) /\ r = RowOf(people[i], s)
      BY <2>1, <2>4
    <3>2. PICK j \in Followed(Book) : r.id = people[j].id
      BY <2>3, <2>4
    <3>3. i = j
      BY <2>1, <2>2, <3>1, <3>2
    <3> QED BY <3>1, <3>2, <3>3
  <2>5. ASSUME NEW i \in Followed(Book), Spoke(people[i], s)
        PROVE  RowOf(people[i], s) \in results /\ RowOf(people[i], s).session = s /\ RowOf(people[i], s).id \in Now
    BY <2>1, <2>2, <2>3, <2>5
  <2> QED BY <2>4, <2>5
<1> QED BY <1>1, InvAlways, PTL
-----------------------------------------------------------------------------
(* A rank is one more than the number of those with more points, and the   *)
(* top n are those of the first n ranks.                                   *)
LEMMA RanksCounted ==
  ASSUME NEW score, AreTotals(score), NEW g, g = Ranking(score), NEW i \in DOMAIN g,
         NEW better, better = {j \in DOMAIN g : g[j].score > g[i].score}
  PROVE  /\ g[i].rank = 1 + Cardinality(better)
         /\ \A n \in DOMAIN g : g[i] \in Range(TopN(g, n)) <=> Cardinality(better) < n
<1>1. g[i].rank = 1 + Cardinality(better) /\ IsFiniteSet(better)
  BY RanksCount
<1>2. Cardinality(better) \in Nat
  BY <1>1, FS_CardinalityType
<1>3. g \in Seq(RankEntry(score))
  BY RankingIs DEF RankedSofar
<1>4. \A n \in DOMAIN g : n \in Nat
  BY <1>3, LenProperties
<1>5. ASSUME NEW n \in DOMAIN g PROVE g[i] \in Range(TopN(g, n)) <=> g[i].rank <= n
  <2> DEFINE places == {j \in DOMAIN g : g[j].rank <= n}
             at == Ascending(places)
             m == Cardinality(places)
             top == Picked(g, places)
  <2>1. /\ at \in [1 .. m -> places]
        /\ \A x \in places : \E k \in 1 .. m : at[k] = x
        /\ DOMAIN top = 1 .. m
        /\ \A k \in 1 .. m : top[k] = g[at[k]]
    <3>1. places \subseteq DOMAIN g
      OBVIOUS
    <3> HIDE DEF places
    <3> QED BY <1>3, <3>1, PickedIs DEF IncreasingList
  <2>2. TopN(g, n) = top
    BY DEF TopN
  <2>3. Range(top) = {top[k] : k \in DOMAIN top}
    BY DEF Range
  <2>4. \A j : j \in places <=> j \in DOMAIN g /\ g[j].rank <= n
    OBVIOUS
  <2> HIDE DEF places, at, m, top
  <2>5. ASSUME g[i] \in Range(top) PROVE g[i].rank <= n
    <3>1. PICK k \in 1 .. m : g[i] = top[k]
      BY <2>1, <2>3, <2>5
    <3>2. g[i] = g[at[k]] /\ at[k] \in places
      BY <2>1, <3>1
    <3> QED BY <2>4, <3>2
  <2>6. ASSUME g[i].rank <= n PROVE g[i] \in Range(top)
    <3>1. PICK k \in 1 .. m : at[k] = i
      BY <2>1, <2>4, <2>6
    <3> QED BY <2>1, <2>3, <3>1
  <2> QED BY <2>2, <2>5, <2>6
<1>6. \A n \in DOMAIN g : g[i].rank <= n <=> Cardinality(better) < n
  BY <1>1, <1>2, <1>4
<1> QED BY <1>1, <1>5, <1>6

(* What is ranked is a table of totals.                                    *)
LEMMA FinalIs ==
  ASSUME RankingTypeOK
  PROVE  AreTotals([p \in Listed |-> totals[p].score])
<1>1. Listed \subseteq Participant
  BY DEF Listed
<1>2. IsFiniteSet(Listed) /\ Listed \subseteq Nat
  BY <1>1, RosterAssumption, FS_Subset
<1>3. \A p \in Listed : totals[p].score \in Nat
  BY <1>1 DEF RankingTypeOK
<1> QED BY <1>2, <1>3 DEF AreTotals

(* The ranks of the program ranking count who has more points, and top N   *)
(* cuts through no tie.                                                    *)
THEOREM RanksOfScores == ASSUME Unmistaken PROVE Spec => []RanksCountTheBetter
<1>1. ASSUME Inv PROVE RanksCountTheBetter
  <2> DEFINE score == [p \in Listed |-> totals[p].score]
             final == Ranking(score)
             better(i) == {j \in DOMAIN final : final[j].score > final[i].score}
  <2>1. AreTotals(score)
    BY <1>1, FinalIs DEF Inv, Ranked
  <2> HIDE DEF score
  <2>2. ASSUME NEW i \in DOMAIN final
        PROVE  /\ final[i].rank = 1 + Cardinality(better(i))
               /\ \A n \in DOMAIN final : final[i] \in Range(TopN(final, n)) <=> Cardinality(better(i)) < n
    BY <2>1, RanksCounted
  <2>3. Final = final
    BY DEF Final, score
  <2> HIDE DEF final
  <2> QED BY <2>2, <2>3 DEF RanksCountTheBetter
<1> QED BY <1>1, InvAlways, PTL
-----------------------------------------------------------------------------
(* Who said nothing in a session has no points in it.                      *)
LEMMA NoPoints ==
  ASSUME NEW person, NEW s, ~Spoke(person, s)
  PROVE  Points(person, s) = 0
<1>1. \A channel : Counted(person, s, channel) = {}
  BY DEF Spoke, Counted
<1>2. Cardinality({}) = 0
  BY FS_EmptySet
<1> QED BY <1>1, <1>2 DEF Points

(* A row of Participantes.                                                 *)
LEMMA SomeoneIs ==
  ASSUME Inv, NEW i \in DOMAIN people
  PROVE  people[i].id \in Participant /\ people[i].name \in Name
<1>1. people \in Seq(Someone)
  BY DEF Inv, Recorded, People
<1>2. people[i] \in Someone
  BY <1>1, ElementOfSeq
<1> QED BY <1>2 DEF Someone

(* The rows the ranking reads.                                             *)
Readable == {r \in results : IsProcessed(r.session)}

(* A participant has a row in every session they spoke in, and no other.   *)
LEMMA ReadOf ==
  ASSUME Inv, NEW i \in Followed(Book)
  PROVE  /\ i \in DOMAIN people /\ people[i].id \in Participant
         /\ RowsOf(Readable, people[i].id) = {RowOf(people[i], s) : s \in Speaking(people[i])}
         /\ Readable \subseteq Result
<1>1. i \in DOMAIN people
  BY DEF Followed, Book
<1>2. people[i].id \in Participant
  BY <1>1, SomeoneIs
<1>3. \A r \in results : r \in Result /\ r.session \in Term
  BY ProgramAssumption DEF Inv, Typed, Result
<1>4. \A s : RowOf(people[i], s).session = s /\ RowOf(people[i], s).id = people[i].id
  BY DEF RowOf
<1>5. \A s : s \in Speaking(people[i]) <=> s \in Term /\ IsProcessed(s) /\ Spoke(people[i], s)
  BY DEF Speaking
<1>6. ASSUME NEW r \in results, IsProcessed(r.session), r.id = people[i].id
      PROVE  r.session \in Speaking(people[i]) /\ r = RowOf(people[i], r.session)
  <2>1. r.session \in Term
    BY <1>3
  <2>2. PICK j \in DOMAIN people : Spoke(people[j], r.session) /\ r = RowOf(people[j], r.session)
    BY <1>6, <2>1, RowsAre
  <2>3. r.id = people[j].id
    BY <2>2 DEF RowOf
  <2>4. i = j
    BY <1>1, <1>6, <2>1, <2>3, RowsAre
  <2> QED BY <1>5, <1>6, <2>1, <2>2, <2>4
<1>7. ASSUME NEW s \in Speaking(people[i]) PROVE RowOf(people[i], s) \in results /\ IsProcessed(s)
  BY <1>5, RowsAre
<1> QED BY <1>1, <1>2, <1>3, <1>4, <1>6, <1>7 DEF RowsOf, Readable

(* What a session gives a participant is what they said in it.             *)
LEMMA ScoreOf ==
  ASSUME Inv, NEW i \in Followed(Book), NEW s \in Term
  PROVE  ScoreIn(Readable, s, people[i].id) = IF IsProcessed(s) THEN Points(people[i], s) ELSE 0
<1> DEFINE id == people[i].id
           rows == Readable
<1>1. /\ rows \subseteq Result
      /\ RowsOf(rows, id) = {RowOf(people[i], t) : t \in Speaking(people[i])}
  BY ReadOf
<1>2. \A t : RowOf(people[i], t).session = t /\ RowOf(people[i], t).score = Points(people[i], t)
             /\ RowOf(people[i], t).id = id
  BY DEF RowOf
<1>3. \A r \in rows : r.id = id => \E t \in Speaking(people[i]) : r = RowOf(people[i], t)
  BY <1>1 DEF RowsOf
<1>4. \A t \in Speaking(people[i]) : RowOf(people[i], t) \in rows
  BY <1>1 DEF RowsOf
<1>5. \A t : t \in Speaking(people[i]) <=> t \in Term /\ IsProcessed(t) /\ Spoke(people[i], t)
  BY DEF Speaking
<1> HIDE DEF rows, id
<1>6. CASE s \in Speaking(people[i])
  <2>1. RowOf(people[i], s) \in rows
    BY <1>4, <1>6
  <2>2. \A other \in rows : other.session = s /\ other.id = id => other = RowOf(people[i], s)
    BY <1>2, <1>3
  <2>3. ScoreIn(rows, s, id) = RowOf(people[i], s).score
    BY <1>1, <1>2, <2>1, <2>2, ScoreInIs
  <2> QED BY <1>2, <1>5, <1>6, <2>3 DEF rows, id
<1>7. CASE s \notin Speaking(people[i])
  <2>1. \A r \in rows : ~(r.session = s /\ r.id = id)
    BY <1>2, <1>3, <1>7
  <2>2. ScoreIn(rows, s, id) = 0
    BY <1>1, <2>1, ScoreInIs
  <2>3. IsProcessed(s) => Points(people[i], s) = 0
    BY <1>5, <1>7, NoPoints
  <2> QED BY <2>2, <2>3 DEF rows, id
<1> QED BY <1>6, <1>7

(* The sessions somebody spoke in are as many as their rows.               *)
LEMMA AsManyRows ==
  ASSUME NEW person
  PROVE  Cardinality({RowOf(person, s) : s \in Speaking(person)}) = Cardinality(Speaking(person))
<1> DEFINE S == Speaking(person)
           rows == {RowOf(person, s) : s \in S}
           f == [s \in S |-> RowOf(person, s)]
<1>1. \A s : RowOf(person, s).session = s
  BY DEF RowOf
<1>2. IsFiniteSet(S)
  <2>1. S \subseteq 1 .. N
    BY DEF Speaking, Term
  <2> HIDE DEF S
  <2> QED BY <2>1, PilotAssumption, BoundedSet
<1>3. f \in Bijection(S, rows)
  <2>1. f \in [S -> rows]
    OBVIOUS
  <2>2. \A s, t \in S : f[s] = f[t] => s = t
    BY <1>1
  <2>3. \A r \in rows : \E s \in S : f[s] = r
    OBVIOUS
  <2> HIDE DEF S, rows, f
  <2> QED BY <2>1, <2>2, <2>3 DEF Bijection, Injection, Surjection, IsInjective
<1> HIDE DEF S, rows, f
<1>4. Cardinality(S) = Cardinality(rows)
  BY <1>2, <1>3, FS_Bijection DEF ExistsBijection
<1> QED BY <1>4 DEF S, rows

(* The total of a participant's rows is that of what they said.            *)
LEMMA TotalOfEvidence ==
  ASSUME Inv, NEW i \in Followed(Book)
  PROVE  TotalOf(Readable, people[i].id) =
           [listed |-> Speaking(people[i]) # {}, score |-> AllPoints(people[i]),
            sessions |-> Cardinality(Speaking(people[i])),
            complete |-> \A s \in Speaking(people[i]) : ~Doubted(people[i], s)]
<1> DEFINE id == people[i].id
           S == Speaking(people[i])
           rows == Readable
           g == [s \in Term |-> IF IsProcessed(s) THEN Points(people[i], s) ELSE 0]
           h == [s \in Term |-> ScoreIn(rows, s, id)]
<1>1. RowsOf(rows, id) = {RowOf(people[i], s) : s \in S}
  BY ReadOf
<1>2. Cardinality(RowsOf(rows, id)) = Cardinality(S)
  BY <1>1, AsManyRows
<1>3. (RowsOf(rows, id) # {}) = (S # {})
  BY <1>1
<1>4. AllComplete(rows, id) = \A s \in S : ~Doubted(people[i], s)
  <2>1. \A s : RowOf(people[i], s).complete = ~Doubted(people[i], s)
    BY DEF RowOf
  <2>2. AllComplete(rows, id) = \A r \in {RowOf(people[i], s) : s \in S} : r.complete
    BY <1>1 DEF AllComplete
  <2>3. (\A r \in {RowOf(people[i], s) : s \in S} : r.complete) = \A s \in S : RowOf(people[i], s).complete
    OBVIOUS
  <2> QED BY <2>1, <2>2, <2>3
<1>5. \A k \in 1 .. N : g[k] \in Nat /\ h[k] = g[k]
  <2> SUFFICES ASSUME NEW k \in 1 .. N PROVE g[k] \in Nat /\ h[k] = g[k]
    OBVIOUS
  <2>1. k \in Term /\ Typed
    BY DEF Term, Inv
  <2>2. Points(people[i], k) \in Nat
    BY <2>1, HeardIs
  <2>3. h[k] = IF IsProcessed(k) THEN Points(people[i], k) ELSE 0
    BY <2>1, ScoreOf
  <2> QED BY <2>1, <2>2, <2>3
<1>6. AllPoints(people[i]) = Summed(g, N) /\ PointsIn(rows, id) = Summed(h, N)
  BY DEF AllPoints, PointsIn
<1> HIDE DEF g, h
<1>7. PointsIn(rows, id) = AllPoints(people[i])
  BY <1>5, <1>6, SummedSame, PilotAssumption
<1> HIDE DEF S, rows, id
<1>8. TotalOf(rows, id) =
        [listed |-> S # {}, score |-> AllPoints(people[i]), sessions |-> Cardinality(S),
         complete |-> \A s \in S : ~Doubted(people[i], s)]
  BY <1>2, <1>3, <1>4, <1>7 DEF TotalOf
<1> QED BY <1>8 DEF S, rows, id

(* The finished ranking shows what the evidence of the PROCESSED sessions  *)
(* shows of the participants, and nobody else.                             *)
THEOREM RankingOfEvidence == ASSUME Unmistaken PROVE Spec => []RankingFollowsEvidence
<1>1. ASSUME Inv PROVE RankingFollowsEvidence
  <2> SUFFICES ASSUME run.at = "rank", run.left = {}
               PROVE  /\ Listed = {people[i].id : i \in {j \in Followed(Book) : Speaking(people[j]) # {}}}
                      /\ \A i \in Followed(Book) : Speaking(people[i]) # {} =>
                           totals[people[i].id] =
                             [listed |-> TRUE, score |-> AllPoints(people[i]),
                              sessions |-> Cardinality(Speaking(people[i])),
                              complete |-> \A s \in Speaking(people[i]) : ~Doubted(people[i], s)]
    BY DEF RankingFollowsEvidence
  <2>1. run \in AtRank
    BY <1>1, RunIs DEF Inv, Typed
  <2>2. read = Readable
    BY <1>1, <2>1 DEF Inv, Ranked, Readable
  <2>3. \A p \in Participant : totals[p] = IF p \in Now THEN TotalOf(Readable, p) ELSE Nothing
    BY <1>1, <2>1, <2>2 DEF Inv, Ranked
  <2>4. Now = {people[i].id : i \in Followed(Book)}
    BY DEF Now
  <2>5. ASSUME NEW i \in Followed(Book)
        PROVE  /\ people[i].id \in Participant
               /\ totals[people[i].id] =
                    [listed |-> Speaking(people[i]) # {}, score |-> AllPoints(people[i]),
                     sessions |-> Cardinality(Speaking(people[i])),
                     complete |-> \A s \in Speaking(people[i]) : ~Doubted(people[i], s)]
    <3>1. people[i].id \in Participant /\ people[i].id \in Now
      BY <1>1, <2>4, ReadOf
    <3>2. totals[people[i].id] = TotalOf(Readable, people[i].id)
      BY <2>3, <3>1
    <3> QED BY <1>1, <3>1, <3>2, TotalOfEvidence
  <2>6. \A p \in Participant : p \notin Now => totals[p].listed = FALSE
    BY <2>3 DEF Nothing
  <2>7. ASSUME NEW i \in Followed(Book)
        PROVE  totals[people[i].id].listed = (Speaking(people[i]) # {})
    <3> DEFINE listed == Speaking(people[i]) # {}
               score == AllPoints(people[i])
               sessions == Cardinality(Speaking(people[i]))
               complete == \A s \in Speaking(people[i]) : ~Doubted(people[i], s)
    <3>1. totals[people[i].id] =
            [listed |-> listed, score |-> score, sessions |-> sessions, complete |-> complete]
      BY <2>5
    <3> HIDE DEF listed, score, sessions, complete
    <3>2. totals[people[i].id].listed = listed
      BY <3>1
    <3> QED BY <3>2 DEF listed
  <2>8. Listed = {p \in Participant : totals[p].listed}
    BY DEF Listed
  <2>9. Listed \subseteq {people[i].id : i \in {j \in Followed(Book) : Speaking(people[j]) # {}}}
    <3> SUFFICES ASSUME NEW p \in Listed
                 PROVE  \E i \in Followed(Book) : Speaking(people[i]) # {} /\ p = people[i].id
      OBVIOUS
    <3>1. p \in Participant /\ totals[p].listed
      BY <2>8
    <3>2. PICK i \in Followed(Book) : p = people[i].id
      BY <2>4, <2>6, <3>1
    <3> QED BY <2>7, <3>1, <3>2
  <2>10. {people[i].id : i \in {j \in Followed(Book) : Speaking(people[j]) # {}}} \subseteq Listed
    <3> SUFFICES ASSUME NEW i \in Followed(Book), Speaking(people[i]) # {} PROVE people[i].id \in Listed
      OBVIOUS
    <3> QED BY <2>5, <2>7, <2>8
  <2>11. \A i \in Followed(Book) : Speaking(people[i]) # {} =>
           totals[people[i].id] =
             [listed |-> TRUE, score |-> AllPoints(people[i]),
              sessions |-> Cardinality(Speaking(people[i])),
              complete |-> \A s \in Speaking(people[i]) : ~Doubted(people[i], s)]
    BY <2>5
  <2> QED BY <2>9, <2>10, <2>11
<1> QED BY <1>1, InvAlways, PTL
-----------------------------------------------------------------------------
(* The view that is published.                                             *)
Observations(table) == AttendanceSeen(Book, table.rules, table.facts)
Series(i) == Available(Book, people[i], N)
KnownTo(table) ==
  {i \in Followed(Book) :
     \/ \E s \in 1 .. N : Series(i)[s] # NoObservation
     \/ \E o \in Observations(table) : o.row = i /\ o.session <= N}
AttendedIn(table) == {o \in Observations(table) : o.status = "OBSERVED" /\ o.session <= N}

(* Every session has an outcome when a view is published: it is as of the  *)
(* last one.                                                               *)
LEMMA ViewIs ==
  ASSUME Inv, NEW table, Shows(table), Showing
  PROVE  /\ run.at = "published" /\ run.table = table
         /\ run.view = [as_of |-> N,
                        cases |-> {[id |-> people[i].id, alert |-> Alert(Series(i))] : i \in KnownTo(table)},
                        attended |-> Cardinality(AttendedIn(table))]
         /\ \A s \in Term : Tried(s)
         /\ N \in Term
<1>1. \A s \in Term : Tried(s)
  BY DEF Inv, Passed
<1>2. WithOutcome(Book) = Term
  <2>1. \A s \in Term : Book.status[s] = state[s].status
    BY DEF Book
  <2>2. \A s \in Term : Book.status[s] \in HasOutcome
    BY <1>1, <2>1 DEF Tried, Outcome, HasOutcome
  <2> QED BY <2>2 DEF WithOutcome
<1>3. N \in Term /\ \A t \in Term : t <= N /\ t \in Int
  BY PilotAssumption DEF Term
<1>4. AsOf(Book) = N
  <2>1. AsOf(Book) = CHOOSE s \in Term : \A t \in Term : t <= s
    BY <1>2 DEF AsOf
  <2>2. \A s \in Term : (\A t \in Term : t <= s) => s = N
    BY <1>3
  <2> QED BY <1>3, <2>1, <2>2
<1>5. Term # {}
  BY <1>3
<1>6. Book.people = people
  BY DEF Book
<1> DEFINE book == Book
           seen == Observations(table)
<1>7. OperationalView(book, seen) =
        [as_of |-> N,
         cases |-> {[id |-> people[i].id, alert |-> Alert(Series(i))] : i \in KnownTo(table)},
         attended |-> Cardinality(AttendedIn(table))]
  <2>1. WithOutcome(book) # {} /\ AsOf(book) = N
    BY <1>2, <1>4, <1>5
  <2>2. \A i : Available(book, book.people[i], N) = Series(i)
    BY <1>6 DEF Series
  <2>3. book.people = people
    BY <1>6
  <2>4. KnownTo(table) =
          {i \in Followed(book) :
             \/ \E s \in 1 .. N : Series(i)[s] # NoObservation
             \/ \E o \in seen : o.row = i /\ o.session <= N}
    BY DEF KnownTo
  <2>5. AttendedIn(table) = {o \in seen : o.status = "OBSERVED" /\ o.session <= N}
    BY DEF AttendedIn
  <2> HIDE DEF book, seen
  <2>6. OperationalView(book, seen) =
          [as_of |-> AsOf(book),
           cases |-> {[id |-> book.people[i].id, alert |-> Alert(Available(book, book.people[i], AsOf(book)))] :
                      i \in {j \in Followed(book) :
                        \/ \E s \in 1 .. AsOf(book) : Available(book, book.people[j], AsOf(book))[s] # NoObservation
                        \/ \E o \in seen : o.row = j /\ o.session <= AsOf(book)}},
           attended |-> Cardinality({o \in seen : o.status = "OBSERVED" /\ o.session <= AsOf(book)})]
    BY <2>1 DEF OperationalView
  <2>7. {j \in Followed(book) :
           \/ \E s \in 1 .. AsOf(book) : Available(book, book.people[j], AsOf(book))[s] # NoObservation
           \/ \E o \in seen : o.row = j /\ o.session <= AsOf(book)} = KnownTo(table)
    BY <2>1, <2>2, <2>4
  <2>8. {[id |-> book.people[i].id, alert |-> Alert(Available(book, book.people[i], AsOf(book)))] :
           i \in KnownTo(table)} =
          {[id |-> people[i].id, alert |-> Alert(Series(i))] : i \in KnownTo(table)}
    BY <2>1, <2>2, <2>3
  <2>9. {o \in seen : o.status = "OBSERVED" /\ o.session <= AsOf(book)} = AttendedIn(table)
    BY <2>1, <2>5
  <2> QED BY <2>1, <2>6, <2>7, <2>8, <2>9
<1>8. run = Published(table)
  BY DEF Shows
<1>9. run.at = "published" /\ run.table = table /\ run.view = OperationalView(book, seen)
  BY <1>8 DEF Published, Observations
<1> QED BY <1>1, <1>3, <1>7, <1>9

(* Field by field.                                                         *)
LEMMA ViewShows ==
  ASSUME Inv, NEW table, Shows(table), Showing
  PROVE  /\ run.table = table
         /\ run.view.as_of = N
         /\ run.view.cases = {[id |-> people[i].id, alert |-> Alert(Series(i))] : i \in KnownTo(table)}
         /\ run.view.attended = Cardinality(AttendedIn(table))
         /\ \A s \in Term : Tried(s)
         /\ N \in Term
<1> DEFINE cases == {[id |-> people[i].id, alert |-> Alert(Series(i))] : i \in KnownTo(table)}
           attended == Cardinality(AttendedIn(table))
<1>1. /\ run.table = table
      /\ run.view = [as_of |-> N, cases |-> cases, attended |-> attended]
      /\ \A s \in Term : Tried(s)
      /\ N \in Term
  BY ViewIs
<1> HIDE DEF cases, attended
<1>2. run.view.as_of = N /\ run.view.cases = cases /\ run.view.attended = attended
  BY <1>1
<1> QED BY <1>1, <1>2 DEF cases, attended

-----------------------------------------------------------------------------
(* An address belongs to the one participant it is known of.               *)
LEMMA AddressIs ==
  ASSUME Inv, NEW rules, NEW external, NEW found, found = ResolveAttendance(people, rules, external)
  PROVE  /\ \A i \in DOMAIN people : Owns(people[i], rules, external) =>
              found.status = "RESOLVED" /\ found.row = i
         /\ found.status = "RESOLVED" =>
              found.row \in DOMAIN people /\ Owns(people[found.row], rules, external)
<1> DEFINE key == Canonical(rules, external)
           ignored == \E rule \in rules : rule.external = external /\ rule.status = "IGNORED"
           who == [name |-> key, mail |-> key]
<1>1. Distinguished(mode, people)
  BY DEF Inv, Recorded, People
<1>2. \A i : Owns(people[i], rules, external) <=> ~ignored /\ Addressed(people[i], key)
  BY DEF Owns, Addressed
<1>3. found = IF ignored THEN Unclear(people, "IGNORED") ELSE Resolve(people, "official", who)
  BY DEF ResolveAttendance
<1> HIDE DEF key, ignored
<1>4. Deciding(Steps(people, "official", who)) = Owners(people, key)
  BY <1>1, AddressHits
<1>5. \A i, j \in Owners(people, key) : i = j
  BY <1>1 DEF Owners, Distinguished
<1>6. \A i \in Owners(people, key) : Resolve(people, "official", who) = Found(people, i)
  BY <1>4, <1>5, ResolveIs
<1>7. Owners(people, key) = {} => Resolve(people, "official", who) = Unclear(people, "NEEDS_REVIEW")
  <2>1. "official" # "auto"
    OBVIOUS
  <2> HIDE DEF who
  <2> QED BY <1>4, <1>5, <2>1, ResolveIs
<1>8. \A i \in DOMAIN people : Owns(people[i], rules, external) =>
        found.status = "RESOLVED" /\ found.row = i
  <2> SUFFICES ASSUME NEW i \in DOMAIN people, Owns(people[i], rules, external)
               PROVE  found.status = "RESOLVED" /\ found.row = i
    OBVIOUS
  <2>1. ~ignored /\ i \in Owners(people, key)
    BY <1>2 DEF Owners
  <2>2. found = Found(people, i)
    BY <1>3, <1>6, <2>1
  <2> QED BY <2>2 DEF Found
<1>9. ASSUME found.status = "RESOLVED"
      PROVE  found.row \in DOMAIN people /\ Owns(people[found.row], rules, external)
  <2>1. ~ignored
    BY <1>3, <1>9 DEF Unclear
  <2>2. Owners(people, key) # {}
    BY <1>3, <1>7, <1>9, <2>1 DEF Unclear
  <2>3. PICK i \in Owners(people, key) : TRUE
    BY <2>2
  <2>4. found = Found(people, i)
    BY <1>3, <1>6, <2>1
  <2>5. found.row = i
    BY <2>4 DEF Found
  <2>6. i \in DOMAIN people /\ Addressed(people[i], key)
    BY DEF Owners
  <2> QED BY <1>2, <2>1, <2>5, <2>6
<1> QED BY <1>8, <1>9

(* A fact tells of a session of a participant when it is the only one its  *)
(* address has there, and says something.                                  *)
Single(facts, fact) ==
  /\ fact \in facts /\ fact.value # "missing"
  /\ \A other \in facts : other.session = fact.session /\ other.external = fact.external => other = fact

(* One fact for an address and session, and a usable one.                  *)
LEMMA SingleIs ==
  ASSUME NEW facts, IsFiniteSet(facts), NEW e, NEW s
  PROVE  (Cardinality(OwnFacts(facts, e, s)) <= 1 /\ \E f \in OwnFacts(facts, e, s) : f.value # "missing")
           <=> \E f : Single(facts, f) /\ f.external = e /\ f.session = s
<1> DEFINE own == OwnFacts(facts, e, s)
<1>1. IsFiniteSet(own) /\ Cardinality(own) \in Nat
  BY FS_Subset, FS_CardinalityType DEF OwnFacts
<1>2. \A f : f \in own <=> f \in facts /\ f.external = e /\ f.session = s
  BY DEF OwnFacts
<1> HIDE DEF own
<1>3. ASSUME Cardinality(own) <= 1, NEW f \in own, f.value # "missing"
      PROVE  Single(facts, f) /\ f.external = e /\ f.session = s
  <2>1. Cardinality(own) # 0
    BY <1>1, <1>3, FS_EmptySet
  <2>2. Cardinality(own) = 1
    BY <1>1, <1>3, <2>1
  <2>3. PICK x : own = {x}
    BY <1>1, <2>2, FS_Singleton
  <2>4. \A other \in own : other = f
    BY <1>3, <2>3
  <2> QED BY <1>2, <1>3, <2>4 DEF Single
<1>4. ASSUME NEW f, Single(facts, f), f.external = e, f.session = s
      PROVE  Cardinality(own) <= 1 /\ f \in own /\ f.value # "missing"
  <2>1. f \in own /\ \A other \in own : other = f
    BY <1>2, <1>4 DEF Single
  <2>2. own = {f}
    BY <2>1
  <2>3. Cardinality(own) = 1
    BY <2>2, FS_Singleton
  <2> QED BY <1>4, <2>1, <2>3 DEF Single
<1>5. (Cardinality(own) <= 1 /\ \E f \in own : f.value # "missing")
        <=> \E f : Single(facts, f) /\ f.external = e /\ f.session = s
  BY <1>3, <1>4
<1> QED BY <1>5 DEF own
(* An attendance that is observed is a single fact of a participant whose  *)
(* enrollment covers the session.                                          *)
SeenFor(i, f) == [external |-> f.external, session |-> f.session, row |-> i, status |-> "OBSERVED"]
Tells(table, i, f) ==
  /\ Single(table.facts, f) /\ f.session \in 1 .. N
  /\ i \in Followed(Book) /\ InForce(people[i], f.session) /\ Owns(people[i], table.rules, f.external)

(* When an attendance is observed.                                         *)
LEMMA StatusIs ==
  ASSUME NEW facts, IsFiniteSet(facts), NEW e, NEW s, NEW i
  PROVE  AttendanceStatus(Book, facts, <<e, s>>, i) = "OBSERVED" <=>
           InForce(people[i], s) /\ \E f : Single(facts, f) /\ f.external = e /\ f.session = s
<1> DEFINE own == OwnFacts(facts, e, s)
           applies == Applies(Book.bounds[people[i].name], s)
           status == AttendanceStatus(Book, facts, <<e, s>>, i)
<1>1. Book.people[i] = people[i]
  BY DEF Book
<1>2. InForce(people[i], s) <=> applies = "APPLICABLE"
  BY DEF InForce
<1>3. applies \in {"UNKNOWN", "NOT_APPLICABLE", "APPLICABLE"}
  BY DEF Applies
<1>4. Cardinality(own) \in Nat
  BY FS_Subset, FS_CardinalityType DEF OwnFacts
<1>5. <<e, s>>[1] = e /\ <<e, s>>[2] = s
  OBVIOUS
<1>6. status =
        CASE applies = "UNKNOWN" \/ Cardinality(own) > 1 -> "none"
          [] applies = "NOT_APPLICABLE" /\ Cardinality(own) <= 1 -> "NOT_APPLICABLE"
          [] applies = "APPLICABLE" /\ Cardinality(own) <= 1 ->
               IF \E f \in own : f.value # "missing" THEN "OBSERVED" ELSE "NO_DATA"
  BY <1>1, <1>5 DEF AttendanceStatus
<1> HIDE DEF own, applies, status
<1>7. status = "OBSERVED" <=>
        applies = "APPLICABLE" /\ Cardinality(own) <= 1 /\ \E f \in own : f.value # "missing"
  BY <1>3, <1>4, <1>6
<1>8. (Cardinality(own) <= 1 /\ \E f \in own : f.value # "missing")
        <=> \E f : Single(facts, f) /\ f.external = e /\ f.session = s
  BY SingleIs DEF own
<1>9. status = "OBSERVED" <=>
        InForce(people[i], s) /\ \E f : Single(facts, f) /\ f.external = e /\ f.session = s
  BY <1>2, <1>7, <1>8
<1> QED BY <1>9 DEF status

(* Somebody attended where there is a fact of it, so they are not more     *)
(* than the facts.                                                         *)
LEMMA AttendedFinite ==
  ASSUME NEW table \in Attendance
  PROVE  IsFiniteSet(AttendedIn(table)) /\ Cardinality(AttendedIn(table)) \in Nat
<1> DEFINE owner(e) == ResolveAttendance(Book.people, table.rules, e)
           facts == table.facts
           seen == [f \in facts |-> [external |-> f.external, session |-> f.session,
                                     row |-> owner(f.external).row, status |-> "OBSERVED"]]
           all == {seen[f] : f \in facts}
<1>1. IsFiniteSet(facts)
  BY EvidenceAssumption
<1>2. ASSUME NEW f \in facts
      PROVE  seen[f] = [external |-> f.external, session |-> f.session,
                        row |-> owner(f.external).row, status |-> "OBSERVED"]
  OBVIOUS
<1>3. IsFiniteSet(all)
  <2>1. seen \in [facts -> all] /\ \A x \in all : \E f \in facts : seen[f] = x
    OBVIOUS
  <2> HIDE DEF facts, seen, all
  <2>2. seen \in Surjection(facts, all)
    BY <2>1 DEF Surjection
  <2> QED BY <1>1, <2>2, FS_Surjection DEF ExistsSurjection
<1>4. ASSUME NEW o \in AttendedIn(table) PROVE o \in all
  <2>1. o \in Observations(table) /\ o.status = "OBSERVED"
    BY DEF AttendedIn
  <2>2. PICK pair :
          /\ pair = <<pair[1], pair[2]>>
          /\ o = [external |-> pair[1], session |-> pair[2], row |-> owner(pair[1]).row,
                  status |-> AttendanceStatus(Book, facts, pair, owner(pair[1]).row)]
    BY <2>1 DEF Observations, AttendanceSeen, ExpectedPairs
  <2> DEFINE e == pair[1]
             s == pair[2]
             i == owner(e).row
  <2>3. AttendanceStatus(Book, facts, <<e, s>>, i) = "OBSERVED"
    BY <2>1, <2>2
  <2>4. PICK f : Single(facts, f) /\ f.external = e /\ f.session = s
    BY <1>1, <2>3, StatusIs
  <2>5. f \in facts
    BY <2>4 DEF Single
  <2>6. o = [external |-> f.external, session |-> f.session, row |-> owner(f.external).row,
             status |-> "OBSERVED"]
    BY <2>1, <2>2, <2>4
  <2> HIDE DEF seen, facts, owner
  <2> QED BY <1>2, <2>5, <2>6
<1> HIDE DEF all
<1> QED BY <1>3, <1>4, FS_Subset, FS_CardinalityType

(* Every variable keeps its type, and a view that is published is of a     *)
(* session, with an alert for each of its participants.                    *)
THEOREM ProgramTyped == ASSUME Unmistaken PROVE Spec => []TypeOK
<1>1. ASSUME Inv PROVE TypeOK
  <2>1. \A i \in DOMAIN people : people[i].id \in Participant /\ people[i].name \in Name
    BY <1>1, SomeoneIs
  <2>2. \A s \in Term : state[s].status \in Outcome \union {"pending", "PROCESSING"}
    BY <1>1 DEF Inv, Typed
  <2>3. ASSUME run.at = "published"
        PROVE  /\ run.view.as_of \in Term /\ run.view.attended \in Nat
               /\ run.view.cases \subseteq
                    [id : Participant, alert : {"OBSERVAR", "NORMAL", "INSUFFICIENT_DATA"}]
    <3>1. Showing
      BY <1>1, <2>3, RunIs DEF Inv, Typed
    <3>2. PICK table \in Attendance : Shows(table)
      BY <3>1 DEF Showing
    <3>3. /\ run.view.as_of = N /\ run.view.attended = Cardinality(AttendedIn(table))
          /\ run.view.cases = {[id |-> people[i].id, alert |-> Alert(Series(i))] : i \in KnownTo(table)}
          /\ N \in Term
      BY <1>1, <3>1, <3>2, ViewShows
    <3>4. Cardinality(AttendedIn(table)) \in Nat
      BY AttendedFinite
    <3>5. \A i \in KnownTo(table) : people[i].id \in Participant
      BY <2>1 DEF KnownTo, Followed, Book
    <3>6. \A i : Alert(Series(i)) \in {"OBSERVAR", "NORMAL", "INSUFFICIENT_DATA"}
      BY DEF Alert
    <3> QED BY <3>3, <3>4, <3>5, <3>6
  <2> QED BY <1>1, <2>1, <2>2, <2>3 DEF TypeOK, Inv, Typed, Ranked
<1> QED BY <1>1, InvAlways, PTL

(* What is observed of attendance.                                        *)
LEMMA AttendedIs ==
  ASSUME Inv, NEW table \in Attendance
  PROVE  /\ \A o \in AttendedIn(table) : \E i, f : Tells(table, i, f) /\ o = SeenFor(i, f)
         /\ \A i, f : Tells(table, i, f) => SeenFor(i, f) \in AttendedIn(table)
<1> DEFINE rules == table.rules
           facts == table.facts
           owner(e) == ResolveAttendance(people, rules, e)
           pairs == {<<f.external, f.session>> : f \in facts} \union ExpectedPairs(Book, rules)
           seen == {[external |-> pair[1], session |-> pair[2], row |-> owner(pair[1]).row,
                     status |-> AttendanceStatus(Book, facts, pair, owner(pair[1]).row)] :
                    pair \in {q \in pairs : /\ q[2] \in Term
                                            /\ owner(q[1]).status = "RESOLVED"
                                            /\ owner(q[1]).row \in Followed(Book)}}
<1>1. IsFiniteSet(facts)
  BY EvidenceAssumption
<1>2. Observations(table) = {o \in seen : o.status # "none"}
  <2>1. Book.people = people
    BY DEF Book
  <2> QED BY <2>1 DEF Observations, AttendanceSeen
<1>3. \A o : o \in AttendedIn(table) <=> o \in seen /\ o.status = "OBSERVED" /\ o.session <= N
  BY <1>2 DEF AttendedIn
<1>4. Term = 1 .. N /\ N \in Nat
  BY PilotAssumption DEF Term
<1>5. \A e : /\ \A i \in DOMAIN people : Owns(people[i], rules, e) =>
                  owner(e).status = "RESOLVED" /\ owner(e).row = i
             /\ owner(e).status = "RESOLVED" =>
                  owner(e).row \in DOMAIN people /\ Owns(people[owner(e).row], rules, e)
  BY AddressIs
<1>6. \A pair \in pairs : pair = <<pair[1], pair[2]>>
  <2>1. \A q \in ExpectedPairs(Book, rules) : q = <<q[1], q[2]>>
    BY DEF ExpectedPairs
  <2> QED BY <2>1
<1>7. \A f \in facts : <<f.external, f.session>> \in pairs
  OBVIOUS
<1>8. \A i \in Followed(Book) : i \in DOMAIN people
  BY DEF Followed, Book
<1> HIDE DEF pairs, owner
<1>9. ASSUME NEW o \in AttendedIn(table)
      PROVE  \E i, f : Tells(table, i, f) /\ o = SeenFor(i, f)
  <2>1. o \in seen /\ o.status = "OBSERVED" /\ o.session <= N
    BY <1>3
  <2>2. PICK pair \in pairs :
          /\ pair[2] \in Term /\ owner(pair[1]).status = "RESOLVED" /\ owner(pair[1]).row \in Followed(Book)
          /\ o = [external |-> pair[1], session |-> pair[2], row |-> owner(pair[1]).row,
                  status |-> AttendanceStatus(Book, facts, pair, owner(pair[1]).row)]
    BY <2>1
  <2> DEFINE e == pair[1]
             s == pair[2]
             i == owner(e).row
  <2>3. AttendanceStatus(Book, facts, <<e, s>>, i) = "OBSERVED"
    BY <1>6, <2>1, <2>2
  <2>4. PICK f : InForce(people[i], s) /\ Single(facts, f) /\ f.external = e /\ f.session = s
    BY <1>1, <2>3, StatusIs
  <2>5. Owns(people[i], rules, e)
    BY <1>5, <2>2
  <2>6. o = SeenFor(i, f)
    BY <2>1, <2>2, <2>4 DEF SeenFor
  <2>7. Tells(table, i, f)
    BY <1>4, <2>2, <2>4, <2>5 DEF Tells
  <2> QED BY <2>6, <2>7
<1>10. ASSUME NEW i, NEW f, Tells(table, i, f)
       PROVE  SeenFor(i, f) \in AttendedIn(table)
  <2> DEFINE e == f.external
             s == f.session
             pair == <<e, s>>
  <2>1. /\ Single(facts, f) /\ s \in 1 .. N /\ i \in Followed(Book)
        /\ InForce(people[i], s) /\ Owns(people[i], rules, e)
    BY <1>10 DEF Tells
  <2>2. f \in facts /\ pair \in pairs
    BY <1>7, <2>1 DEF Single
  <2>3. owner(e).status = "RESOLVED" /\ owner(e).row = i
    BY <1>5, <1>8, <2>1
  <2>4. AttendanceStatus(Book, facts, pair, i) = "OBSERVED"
    BY <1>1, <2>1, StatusIs
  <2>5. pair[1] = e /\ pair[2] = s
    OBVIOUS
  <2>6. SeenFor(i, f) = [external |-> pair[1], session |-> pair[2], row |-> owner(pair[1]).row,
                         status |-> AttendanceStatus(Book, facts, pair, owner(pair[1]).row)]
    BY <2>3, <2>4, <2>5 DEF SeenFor
  <2>7. pair[2] \in Term /\ owner(pair[1]).status = "RESOLVED" /\ owner(pair[1]).row \in Followed(Book)
    BY <1>4, <2>1, <2>3, <2>5
  <2> HIDE DEF pair
  <2>8. SeenFor(i, f) \in seen
    BY <2>2, <2>6, <2>7
  <2>9. SeenFor(i, f).status = "OBSERVED" /\ SeenFor(i, f).session <= N
    BY <1>4, <2>1 DEF SeenFor
  <2> QED BY <1>3, <2>8, <2>9
<1> QED BY <1>9, <1>10
(* The pairs of a participant and a session with a known attendance.       *)
KnownPairs(table) ==
  {pair \in Followed(Book) \X (1 .. N) :
     InForce(people[pair[1]], pair[2]) /\ Attended(people[pair[1]], pair[2], table)}

(* A known attendance is a pair with a fact that tells of it.              *)
LEMMA PairsAre ==
  ASSUME NEW table, NEW i, NEW s
  PROVE  <<i, s>> \in KnownPairs(table) <=> \E f : Tells(table, i, f) /\ f.session = s
<1>1. <<i, s>> \in KnownPairs(table) <=>
        i \in Followed(Book) /\ s \in 1 .. N /\ InForce(people[i], s) /\ Attended(people[i], s, table)
  BY DEF KnownPairs
<1>2. Attended(people[i], s, table) <=>
        \E f : Single(table.facts, f) /\ f.session = s /\ Owns(people[i], table.rules, f.external)
  BY DEF Attended, Single
<1> QED BY <1>1, <1>2 DEF Tells

(* The attendance that is shown counts the pairs, each once.               *)
THEOREM AttendanceOfPairs == ASSUME Unmistaken PROVE Spec => []AttendanceCountsPairs
<1>1. ASSUME Inv PROVE AttendanceCountsPairs
  <2> SUFFICES ASSUME run.at = "published"
               PROVE  run.view.attended =
                        Cardinality({pair \in Followed(Book) \X (1 .. run.view.as_of) :
                          /\ InForce(people[pair[1]], pair[2])
                          /\ Attended(people[pair[1]], pair[2], run.table)})
    BY DEF AttendanceCountsPairs
  <2>1. Showing
    BY <1>1, RunIs DEF Inv, Typed
  <2>2. PICK table \in Attendance : Shows(table)
    BY <2>1 DEF Showing
  <2>3. run.table = table /\ run.view.as_of = N /\ run.view.attended = Cardinality(AttendedIn(table))
    BY <1>1, <2>1, <2>2, ViewShows
  <2> DEFINE seen == AttendedIn(table)
             pairs == KnownPairs(table)
             f == [o \in seen |-> <<o.row, o.session>>]
  <2>4. /\ \A o \in seen : \E i, x : Tells(table, i, x) /\ o = SeenFor(i, x)
        /\ \A i, x : Tells(table, i, x) => SeenFor(i, x) \in seen
    BY <1>1, AttendedIs
  <2>5. \A first, second \in seen :
          first.row = second.row /\ first.session = second.session => first = second
    <3>1. ~Twins(Observations(table))
      BY <2>2 DEF Shows, Refused, Observations
    <3>2. seen \subseteq Observations(table)
      BY DEF AttendedIn
    <3> QED BY <3>1, <3>2 DEF Twins
  <2>6. \A i, x : SeenFor(i, x).row = i /\ SeenFor(i, x).session = x.session
    BY DEF SeenFor
  <2> HIDE DEF seen
  <2>7. ASSUME NEW o \in seen PROVE f[o] \in pairs
    <3>1. PICK i, x : Tells(table, i, x) /\ o = SeenFor(i, x)
      BY <2>4
    <3>2. f[o] = <<i, x.session>>
      BY <2>6, <3>1
    <3> QED BY <3>1, <3>2, PairsAre
  <2>8. ASSUME NEW pair \in pairs PROVE \E o \in seen : f[o] = pair
    <3>1. pair = <<pair[1], pair[2]>>
      BY DEF KnownPairs
    <3>2. PICK x : Tells(table, pair[1], x) /\ x.session = pair[2]
      BY <3>1, PairsAre
    <3>3. SeenFor(pair[1], x) \in seen
      BY <2>4, <3>2
    <3>4. f[SeenFor(pair[1], x)] = pair
      BY <2>6, <3>1, <3>2, <3>3
    <3> QED BY <3>3, <3>4
  <2>9. \A first, second \in seen : f[first] = f[second] => first = second
    BY <2>5
  <2>10. f \in [seen -> pairs]
    BY <2>7
  <2> HIDE DEF pairs, f
  <2>11. f \in Bijection(seen, pairs)
    BY <2>8, <2>9, <2>10 DEF Bijection, Injection, Surjection, IsInjective
  <2>12. IsFiniteSet(seen)
    BY AttendedFinite DEF seen
  <2>13. Cardinality(seen) = Cardinality(pairs)
    BY <2>11, <2>12, FS_Bijection DEF ExistsBijection
  <2> QED BY <2>3, <2>13 DEF seen, pairs, KnownPairs
<1> QED BY <1>1, InvAlways, PTL
-----------------------------------------------------------------------------
(* Streaks.                                                                *)
NextStreak(series, k, before) ==
  IF ~Counts(series[k]) THEN before ELSE IF Silent(series[k]) THEN before + 1 ELSE 0
Streaks(f, n, series) == f[0] = 0 /\ \A k \in 1 .. n : f[k] = NextStreak(series, k, f[k - 1])

(* A streak is counted one observation after another.                      *)
LEMMA StreakFolds ==
  ASSUME NEW n \in Nat, NEW series, Len(series) = n
  PROVE  \E f \in [0 .. n -> Nat] : Streaks(f, n, series) /\ Streak(series) = f[n]
<1> DEFINE step == [pair \in (1 .. n) \X Nat |-> NextStreak(series, pair[1], pair[2])]
<1>1. step \in [(1 .. n) \X Nat -> Nat] /\ 0 \in Nat
  BY DEF NextStreak
<1>2. PICK f \in [0 .. n -> Nat] : Computes(f, n, 0, step)
  <2> HIDE DEF step
  <2> QED BY <1>1, Recursion
<1>3. \A k \in 1 .. n : f[k - 1] \in Nat
  <2> SUFFICES ASSUME NEW k \in 1 .. n PROVE f[k - 1] \in Nat
    OBVIOUS
  <2>1. k - 1 \in 0 .. n
    OBVIOUS
  <2> QED BY <2>1
<1>4. Streaks(f, n, series)
  BY <1>2, <1>3 DEF Computes, Streaks
<1> HIDE DEF step
<1> DEFINE body(u, s) == IF s = 0 THEN 0
                         ELSE IF ~Counts(series[s]) THEN u[s - 1]
                         ELSE IF Silent(series[s]) THEN u[s - 1] + 1 ELSE 0
           Runs(u) == u = [s \in 0 .. n |-> body(u, s)]
<1>5. Runs(f)
  <2>1. ASSUME NEW s \in 0 .. n PROVE f[s] = body(f, s)
    <3>1. CASE s = 0
      BY <1>4, <3>1 DEF Streaks
    <3>2. CASE s # 0
      <4>1. s \in 1 .. n
        BY <3>2
      <4> QED BY <1>4, <3>2, <4>1 DEF Streaks, NextStreak
    <3> QED BY <3>1, <3>2
  <2>2. f = [s \in 0 .. n |-> f[s]]
    OBVIOUS
  <2> HIDE DEF body
  <2> QED BY <2>1, <2>2
<1> DEFINE upto == CHOOSE u : Runs(u)
<1>6. Runs(upto)
  <2> HIDE DEF Runs
  <2> QED BY <1>5
<1>7. Streak(series) = upto[n]
  BY DEF Streak
<1> HIDE DEF upto
<1>8. upto[n] = f[n]
  <2> DEFINE T == {k \in 0 .. n : upto[k] = f[k]}
  <2>1. 0 \in T
    BY <1>4, <1>6 DEF Streaks
  <2>2. ASSUME NEW k \in 0 .. n - 1, k \in T PROVE k + 1 \in T
    <3>1. k + 1 \in 1 .. n /\ k + 1 \in 0 .. n /\ k + 1 - 1 = k /\ k + 1 # 0
      OBVIOUS
    <3>2. upto[k + 1] = NextStreak(series, k + 1, upto[k])
      <4>1. upto[k + 1] = body(upto, k + 1)
        <5> HIDE DEF body
        <5> QED BY <1>6, <3>1
      <4> QED BY <3>1, <4>1 DEF NextStreak
    <3>3. f[k + 1] = NextStreak(series, k + 1, f[k])
      BY <1>4, <3>1 DEF Streaks
    <3> QED BY <2>2, <3>1, <3>2, <3>3
  <2>3. 0 .. n \subseteq T
    <3> HIDE DEF T
    <3> QED BY <2>1, <2>2, InductionUpTo
  <2> QED BY <2>3
<1> QED BY <1>2, <1>4, <1>7, <1>8

(* A streak of one ends at a silence, one of two has a silence before that *)
(* and nothing that counts in between.                                     *)
EndsSilent(series, k) ==
  \E t \in 1 .. k :
    /\ Counts(series[t]) /\ Silent(series[t])
    /\ \A u \in 1 .. k : u > t => ~Counts(series[u])
TwoSilent(series, k) ==
  \E s, t \in 1 .. k :
    /\ s < t /\ Counts(series[s]) /\ Silent(series[s]) /\ Counts(series[t]) /\ Silent(series[t])
    /\ \A u \in 1 .. k : u > s /\ u # t => ~Counts(series[u])

(* What one more observation does to either.                               *)
LEMMA SilentNext ==
  ASSUME NEW series, NEW k \in Nat
  PROVE  IF ~Counts(series[k + 1])
         THEN /\ EndsSilent(series, k + 1) <=> EndsSilent(series, k)
              /\ TwoSilent(series, k + 1) <=> TwoSilent(series, k)
         ELSE IF Silent(series[k + 1])
         THEN EndsSilent(series, k + 1) /\ (TwoSilent(series, k + 1) <=> EndsSilent(series, k))
         ELSE ~EndsSilent(series, k + 1) /\ ~TwoSilent(series, k + 1)
<1> DEFINE c(u) == Counts(series[u])
           q(u) == Silent(series[u])
<1>1. /\ \A u : u \in 1 .. k + 1 <=> u \in 1 .. k \/ u = k + 1
      /\ \A u \in 1 .. k : u < k + 1 /\ u # k + 1
      /\ \A u \in 1 .. k + 1 : ~(u > k + 1)
  OBVIOUS
<1>2. EndsSilent(series, k) <=> \E t \in 1 .. k : c(t) /\ q(t) /\ \A u \in 1 .. k : u > t => ~c(u)
  BY DEF EndsSilent
<1>3. EndsSilent(series, k + 1) <=>
        \E t \in 1 .. k + 1 : c(t) /\ q(t) /\ \A u \in 1 .. k + 1 : u > t => ~c(u)
  BY DEF EndsSilent
<1>4. TwoSilent(series, k) <=>
        \E s, t \in 1 .. k : s < t /\ c(s) /\ q(s) /\ c(t) /\ q(t) /\ \A u \in 1 .. k : u > s /\ u # t => ~c(u)
  BY DEF TwoSilent
<1>5. TwoSilent(series, k + 1) <=>
        \E s, t \in 1 .. k + 1 :
          s < t /\ c(s) /\ q(s) /\ c(t) /\ q(t) /\ \A u \in 1 .. k + 1 : u > s /\ u # t => ~c(u)
  BY DEF TwoSilent
<1>6. ASSUME ~c(k + 1) PROVE EndsSilent(series, k + 1) <=> EndsSilent(series, k)
  <2> HIDE DEF c, q
  <2> QED BY <1>1, <1>2, <1>3, <1>6
<1>7. ASSUME ~c(k + 1) PROVE TwoSilent(series, k + 1) <=> TwoSilent(series, k)
  <2> HIDE DEF c, q
  <2> QED BY <1>1, <1>4, <1>5, <1>7
<1>8. ASSUME c(k + 1), q(k + 1) PROVE EndsSilent(series, k + 1)
  <2> HIDE DEF c, q
  <2>1. k + 1 \in 1 .. k + 1
    OBVIOUS
  <2> QED BY <1>1, <1>3, <1>8, <2>1
<1>9. ASSUME c(k + 1), q(k + 1), EndsSilent(series, k) PROVE TwoSilent(series, k + 1)
  <2> HIDE DEF c, q
  <2>1. PICK s \in 1 .. k : c(s) /\ q(s) /\ \A u \in 1 .. k : u > s => ~c(u)
    BY <1>2, <1>9
  <2>2. k + 1 \in 1 .. k + 1 /\ s \in 1 .. k + 1 /\ s < k + 1
    OBVIOUS
  <2>3. \A u \in 1 .. k + 1 : u > s /\ u # k + 1 => ~c(u)
    BY <1>1, <2>1
  <2> QED BY <1>5, <1>9, <2>1, <2>2, <2>3
<1>10. ASSUME c(k + 1), TwoSilent(series, k + 1) PROVE EndsSilent(series, k)
  <2> HIDE DEF c, q
  <2>1. PICK s, t \in 1 .. k + 1 :
          s < t /\ c(s) /\ q(s) /\ c(t) /\ q(t) /\ \A u \in 1 .. k + 1 : u > s /\ u # t => ~c(u)
    BY <1>5, <1>10
  <2>2. k + 1 \in 1 .. k + 1 /\ k + 1 > s /\ s \in 1 .. k
    BY <2>1
  <2>3. t = k + 1
    BY <1>10, <2>1, <2>2
  <2>4. \A u \in 1 .. k : u > s => ~c(u)
    BY <1>1, <2>1, <2>3
  <2> QED BY <1>2, <2>1, <2>2, <2>4
<1>11. ASSUME c(k + 1), ~q(k + 1) PROVE ~EndsSilent(series, k + 1) /\ ~TwoSilent(series, k + 1)
  <2> HIDE DEF c, q
  <2>1. k + 1 \in 1 .. k + 1
    OBVIOUS
  <2>2. ~EndsSilent(series, k + 1)
    <3> SUFFICES ASSUME NEW t \in 1 .. k + 1, c(t), q(t), \A u \in 1 .. k + 1 : u > t => ~c(u) PROVE FALSE
      BY <1>3
    <3>1. t # k + 1
      BY <1>11
    <3>2. k + 1 > t
      BY <3>1
    <3> QED BY <1>11, <2>1, <3>2
  <2>3. ~TwoSilent(series, k + 1)
    <3> SUFFICES ASSUME NEW s \in 1 .. k + 1, NEW t \in 1 .. k + 1, s < t, q(t),
                        \A u \in 1 .. k + 1 : u > s /\ u # t => ~c(u)
                 PROVE  FALSE
      BY <1>5
    <3>1. t # k + 1
      BY <1>11
    <3>2. k + 1 > s
      BY <3>1
    <3> QED BY <1>11, <2>1, <3>1, <3>2
  <2> QED BY <2>2, <2>3
<1> QED BY <1>6, <1>7, <1>8, <1>9, <1>10, <1>11

(* A streak of two or more is two silences with nothing between.           *)
LEMMA StreakIs ==
  ASSUME NEW n \in Nat, NEW series, Len(series) = n
  PROVE  /\ Streak(series) \in Nat
         /\ Streak(series) >= 2 <=> TwoSilent(series, n)
<1>1. PICK f \in [0 .. n -> Nat] : Streaks(f, n, series) /\ Streak(series) = f[n]
  BY StreakFolds
<1> DEFINE T == {k \in 0 .. n : (f[k] >= 1 <=> EndsSilent(series, k)) /\ (f[k] >= 2 <=> TwoSilent(series, k))}
<1>2. 0 \in T
  <2>1. f[0] = 0
    BY <1>1 DEF Streaks
  <2>2. ~EndsSilent(series, 0) /\ ~TwoSilent(series, 0)
    BY DEF EndsSilent, TwoSilent
  <2> QED BY <2>1, <2>2
<1>3. ASSUME NEW k \in 0 .. n - 1, k \in T PROVE k + 1 \in T
  <2>1. k + 1 \in 1 .. n /\ k + 1 \in 0 .. n /\ k + 1 - 1 = k /\ k \in 0 .. n /\ k \in Nat
    OBVIOUS
  <2>2. f[k + 1] = NextStreak(series, k + 1, f[k])
    BY <1>1, <2>1 DEF Streaks
  <2>3. f[k] \in Nat /\ f[k + 1] \in Nat
    BY <2>1
  <2>4. (f[k] >= 1 <=> EndsSilent(series, k)) /\ (f[k] >= 2 <=> TwoSilent(series, k))
    BY <1>3
  <2>5. IF ~Counts(series[k + 1])
        THEN /\ EndsSilent(series, k + 1) <=> EndsSilent(series, k)
             /\ TwoSilent(series, k + 1) <=> TwoSilent(series, k)
        ELSE IF Silent(series[k + 1])
        THEN EndsSilent(series, k + 1) /\ (TwoSilent(series, k + 1) <=> EndsSilent(series, k))
        ELSE ~EndsSilent(series, k + 1) /\ ~TwoSilent(series, k + 1)
    BY <2>1, SilentNext
  <2>6. f[k + 1] = IF ~Counts(series[k + 1]) THEN f[k]
                   ELSE IF Silent(series[k + 1]) THEN f[k] + 1 ELSE 0
    BY <2>2 DEF NextStreak
  <2>7. /\ f[k + 1] >= 1 <=> EndsSilent(series, k + 1)
        /\ f[k + 1] >= 2 <=> TwoSilent(series, k + 1)
    BY <2>3, <2>4, <2>5, <2>6
  <2> QED BY <2>1, <2>7
<1>4. 0 .. n \subseteq T
  <2> HIDE DEF T
  <2> QED BY <1>2, <1>3, InductionUpTo
<1>5. n \in 0 .. n
  OBVIOUS
<1> QED BY <1>1, <1>4, <1>5
-----------------------------------------------------------------------------
(* What the pilot sees of a participant in a session.                      *)
Validly(i) == Book.bounds[people[i].name].valid
EvidentIn(i, s) == IsProcessed(s) /\ ~Doubted(people[i], s)

(* Only an invalid enrollment says nothing.                                *)
LEMMA BoundsAre ==
  ASSUME Inv, NEW i \in DOMAIN people, NEW s \in Nat
  PROVE  /\ Validly(i) \in BOOLEAN
         /\ Applies(Book.bounds[people[i].name], s) = "UNKNOWN" <=> ~Validly(i)
         /\ InForce(people[i], s) => Validly(i)
<1>1. people[i].name \in Name
  BY SomeoneIs
<1>2. Book.bounds[people[i].name] =
        IF mode = "auto" THEN [valid |-> TRUE, first |-> 1, last |-> 0] ELSE Bounds[people[i].name]
  BY <1>1 DEF Book
<1>3. Bounds[people[i].name].valid \in BOOLEAN
  BY <1>1, EvidenceAssumption
<1>4. Validly(i) \in BOOLEAN
  <2>1. CASE mode = "auto"
    BY <1>2, <2>1 DEF Validly
  <2>2. CASE mode # "auto"
    BY <1>2, <1>3, <2>2 DEF Validly
  <2> QED BY <2>1, <2>2
<1>5. Applies(Book.bounds[people[i].name], s) = "UNKNOWN" <=> ~Validly(i)
  BY DEF Applies, Validly
<1>6. InForce(people[i], s) => Validly(i)
  BY <1>5 DEF InForce
<1> QED BY <1>4, <1>5, <1>6

(* The pilot sees the points of a PROCESSED session without doubts, and no *)
(* score in any other.                                                     *)
LEMMA SeenIs ==
  ASSUME Inv, NEW i \in Followed(Book), NEW s \in Term, NEW o, o = WhatWasSeen(Book, people[i].id, s)
  PROVE  IF EvidentIn(i, s) THEN o = Observed(Points(people[i], s))
         ELSE o = Without("INCOMPLETE") \/ o = Without("NO_DATA")
<1> DEFINE id == people[i].id
           own == {row \in results : row.session = s /\ row.id = id}
           row == CHOOSE r \in own : TRUE
<1>1. o = IF Cardinality(own) > 1 THEN NoObservation
          ELSE IF state[s].status = "INCOMPLETE" THEN Without("INCOMPLETE")
          ELSE IF state[s].status # "PROCESSED" THEN Without("NO_DATA")
          ELSE IF own = {} THEN Observed(0)
          ELSE IF row.complete THEN Observed(row.score) ELSE Without("INCOMPLETE")
  <2>1. Book.rows = results /\ Book.status[s] = state[s].status
    BY DEF Book
  <2> QED BY <2>1 DEF WhatWasSeen
<1>2. \A r : r \in own <=> r \in results /\ r.session = s /\ r.id = id
  OBVIOUS
<1>3. \A first, second \in own : first = second
  BY DEF Inv, Recorded, OneRowEach
<1> HIDE DEF own
<1>4. ~(Cardinality(own) > 1)
  <2>1. CASE own = {}
    BY <2>1, FS_EmptySet
  <2>2. CASE own # {}
    <3>1. PICK x \in own : TRUE
      BY <2>2
    <3>2. own = {x}
      BY <1>3, <3>1
    <3>3. Cardinality(own) = 1
      BY <3>2, FS_Singleton
    <3> QED BY <3>3
  <2> QED BY <2>1, <2>2
<1>5. IsProcessed(s) <=> state[s].status = "PROCESSED"
  BY DEF IsProcessed
<1>6. CASE ~IsProcessed(s)
  BY <1>1, <1>4, <1>5, <1>6 DEF EvidentIn
<1>7. CASE IsProcessed(s)
  <2>1. /\ \A r \in results : r.session = s =>
             \E j \in DOMAIN people : Spoke(people[j], s) /\ r = RowOf(people[j], s)
        /\ Spoke(people[i], s) => RowOf(people[i], s) \in results
        /\ \A j, l \in DOMAIN people : people[j].id = people[l].id => j = l
    BY <1>7, RowsAre
  <2>2. \A person : /\ RowOf(person, s).session = s /\ RowOf(person, s).id = person.id
                    /\ RowOf(person, s).score = Points(person, s)
                    /\ RowOf(person, s).complete = ~Doubted(person, s)
    BY DEF RowOf
  <2>3. state[s].status = "PROCESSED"
    BY <1>5, <1>7
  <2>4. o = IF own = {} THEN Observed(0)
            ELSE IF row.complete THEN Observed(row.score) ELSE Without("INCOMPLETE")
    BY <1>1, <1>4, <2>3
  <2>5. CASE Spoke(people[i], s)
    <3>1. RowOf(people[i], s) \in own
      BY <1>2, <2>1, <2>2, <2>5
    <3>2. row = RowOf(people[i], s)
      BY <1>3, <3>1
    <3>3. row.complete = ~Doubted(people[i], s) /\ row.score = Points(people[i], s)
      BY <2>2, <3>2
    <3>4. own # {}
      BY <3>1
    <3> HIDE DEF row
    <3>5. o = IF row.complete THEN Observed(row.score) ELSE Without("INCOMPLETE")
      BY <2>4, <3>4
    <3> QED BY <1>7, <3>3, <3>5 DEF EvidentIn
  <2>6. CASE ~Spoke(people[i], s)
    <3>1. own = {}
      <4> SUFFICES ASSUME NEW r \in own PROVE FALSE
        OBVIOUS
      <4>1. PICK j \in DOMAIN people : Spoke(people[j], s) /\ r = RowOf(people[j], s)
        BY <1>2, <2>1
      <4>2. people[j].id = people[i].id /\ i \in DOMAIN people
        BY <1>2, <2>2, <4>1, ReadOf
      <4> QED BY <2>1, <2>6, <4>1, <4>2
    <3>2. o = Observed(0)
      BY <2>4, <3>1
    <3>3. Points(people[i], s) = 0 /\ ~Doubted(people[i], s)
      BY <2>6, NoPoints DEF Spoke, Doubted
    <3> QED BY <1>7, <3>2, <3>3 DEF EvidentIn
  <2> QED BY <2>5, <2>6
<1> QED BY <1>6, <1>7

(* The observations of somebody with a valid enrollment.                   *)
LEMMA SeriesIs ==
  ASSUME Inv, NEW i \in Followed(Book), Validly(i), NEW s \in Term
  PROVE  /\ Len(Series(i)) = N /\ DOMAIN Series(i) = 1 .. N
         /\ Series(i)[s] # NoObservation
         /\ Counts(Series(i)[s]) <=> InForce(people[i], s)
         /\ Series(i)[s].status = "OBSERVED" <=> InForce(people[i], s) /\ EvidentIn(i, s)
         /\ Silent(Series(i)[s]) <=>
              InForce(people[i], s) /\ EvidentIn(i, s) /\ Points(people[i], s) = 0
<1> DEFINE series == Series(i)
           applies == Applies(Book.bounds[people[i].name], s)
           o == Participation(Book, people[i], s)
           seen == WhatWasSeen(Book, people[i].id, s)
<1>1. s \in 1 .. N /\ s \in Nat /\ N \in Nat /\ i \in DOMAIN people
  BY PilotAssumption, ReadOf DEF Term
<1>2. series = [t \in 1 .. N |-> Participation(Book, people[i], t)]
  BY DEF Series, Available
<1>3. DOMAIN series = 1 .. N /\ series[s] = o
  BY <1>1, <1>2
<1>4. Len(series) = N
  <2> DEFINE T == {Participation(Book, people[i], t) : t \in 1 .. N}
  <2>1. series \in [1 .. N -> T]
    BY <1>2
  <2> HIDE DEF T, series
  <2>2. series \in Seq(T)
    BY <1>1, <2>1, SeqDef
  <2> QED BY <1>1, <1>3, <2>2, LenProperties
<1>5. applies # "UNKNOWN" /\ applies \in {"UNKNOWN", "NOT_APPLICABLE", "APPLICABLE"}
  BY <1>1, BoundsAre DEF Applies
<1>6. InForce(people[i], s) <=> applies = "APPLICABLE"
  BY DEF InForce
<1>7. o = IF applies = "UNKNOWN" THEN NoObservation
          ELSE IF applies = "NOT_APPLICABLE" THEN Without("NOT_APPLICABLE") ELSE seen
  BY DEF Participation
<1>8. IF EvidentIn(i, s) THEN seen = Observed(Points(people[i], s))
      ELSE seen = Without("INCOMPLETE") \/ seen = Without("NO_DATA")
  BY SeenIs
<1> HIDE DEF series, applies, o, seen
<1>9. /\ ~InForce(people[i], s) => o = Without("NOT_APPLICABLE")
      /\ InForce(people[i], s) /\ EvidentIn(i, s) => o = Observed(Points(people[i], s))
      /\ InForce(people[i], s) /\ ~EvidentIn(i, s) => o = Without("INCOMPLETE") \/ o = Without("NO_DATA")
  BY <1>5, <1>6, <1>7, <1>8
<1>10. /\ o # NoObservation
       /\ Counts(o) <=> InForce(people[i], s)
       /\ o.status = "OBSERVED" <=> InForce(people[i], s) /\ EvidentIn(i, s)
       /\ Silent(o) <=> InForce(people[i], s) /\ EvidentIn(i, s) /\ Points(people[i], s) = 0
  <2>1. CASE ~InForce(people[i], s)
    BY <1>9, <2>1 DEF NoObservation, Without, Counts, Silent
  <2>2. CASE InForce(people[i], s) /\ EvidentIn(i, s)
    BY <1>9, <2>2 DEF NoObservation, Without, Observed, Counts, Silent
  <2>3. CASE InForce(people[i], s) /\ ~EvidentIn(i, s)
    BY <1>9, <2>3 DEF NoObservation, Without, Counts, Silent
  <2> QED BY <2>1, <2>2, <2>3
<1> QED BY <1>3, <1>4, <1>10 DEF series
(* The alert of a series is the one the evidence calls for.                *)
LEMMA AlertIs ==
  ASSUME Inv, NEW i \in Followed(Book), Validly(i)
  PROVE  Alert(Series(i)) = DueAlert(people[i], N)
<1> DEFINE person == people[i]
           series == Series(i)
           enrolled == Enrolled(person, N)
           evident == Evident(person, N)
<1>1. N \in Nat /\ N \in 1 .. N /\ Minimum \in Nat /\ Term = 1 .. N
  BY PilotAssumption DEF Term
<1>2. /\ Len(series) = N /\ DOMAIN series = 1 .. N
      /\ \A s \in 1 .. N :
           /\ Counts(series[s]) <=> InForce(person, s)
           /\ series[s].status = "OBSERVED" <=> InForce(person, s) /\ EvidentIn(i, s)
           /\ Silent(series[s]) <=> InForce(person, s) /\ EvidentIn(i, s) /\ Points(person, s) = 0
  BY <1>1, SeriesIs
<1>3. \A s : s \in enrolled <=> s \in 1 .. N /\ InForce(person, s)
  BY DEF Enrolled
<1>4. \A s : s \in evident <=> s \in enrolled /\ EvidentIn(i, s)
  BY DEF Evident, EvidentIn
<1> HIDE DEF person, series, enrolled, evident
<1>5. ObservedIn(series) = evident
  BY <1>2, <1>3, <1>4 DEF ObservedIn
<1>6. Cardinality(evident) \in Nat
  <2>1. evident \subseteq 1 .. N
    BY <1>3, <1>4
  <2> QED BY <1>1, <2>1, BoundedSet
<1>7. Sufficient(series) <=> ~(Cardinality(evident) < Minimum)
  BY <1>1, <1>5, <1>6 DEF Sufficient
<1>8. Evaluable(series) <=> N \in evident
  BY <1>2, <1>5 DEF Evaluable
<1>9. Streak(series) >= MinimumStreak <=> TwoSilent(series, N)
  BY <1>1, <1>2, StreakIs DEF MinimumStreak
<1>10. \A s \in 1 .. N : Silent(series[s]) <=> s \in evident /\ Points(person, s) = 0
  BY <1>2, <1>3, <1>4
<1>11. \A s \in 1 .. N : Counts(series[s]) <=> s \in enrolled
  BY <1>2, <1>3
<1>12. FellSilent(person, N) <=>
         \E s \in enrolled :
           /\ s < N /\ {t \in enrolled : t >= s} = {s, N} /\ {s, N} \subseteq evident
           /\ \A t \in {s, N} : Points(person, t) = 0
  BY DEF FellSilent, enrolled, evident
<1>13. ASSUME N \in evident, TwoSilent(series, N) PROVE FellSilent(person, N)
  <2>1. PICK s, t \in 1 .. N :
          /\ s < t /\ Counts(series[s]) /\ Silent(series[s]) /\ Counts(series[t]) /\ Silent(series[t])
          /\ \A u \in 1 .. N : u > s /\ u # t => ~Counts(series[u])
    BY <1>13 DEF TwoSilent
  <2>2. N \in enrolled /\ N > s
    BY <1>1, <1>4, <1>13, <2>1
  <2>3. t = N
    BY <1>1, <1>11, <2>1, <2>2
  <2>4. s \in evident /\ s \in enrolled /\ Points(person, s) = 0 /\ Points(person, N) = 0
    BY <1>1, <1>10, <1>11, <2>1, <2>3
  <2>5. \A u \in enrolled : u >= s => u = s \/ u = N
    <3> SUFFICES ASSUME NEW u \in enrolled, u >= s, u # s, u # N PROVE FALSE
      OBVIOUS
    <3>1. u \in 1 .. N
      BY <1>3
    <3>2. u > s
      BY <3>1
    <3> QED BY <1>11, <2>1, <2>3, <3>1, <3>2
  <2>6. {u \in enrolled : u >= s} = {s, N}
    <3>1. s >= s /\ N >= s
      BY <1>1, <2>2
    <3> QED BY <2>2, <2>4, <2>5, <3>1
  <2>7. s < N
    BY <2>1, <2>3
  <2> QED BY <1>12, <1>13, <2>4, <2>6, <2>7
<1>14. ASSUME FellSilent(person, N) PROVE TwoSilent(series, N)
  <2>1. PICK s \in enrolled :
          /\ s < N /\ {t \in enrolled : t >= s} = {s, N} /\ {s, N} \subseteq evident
          /\ \A t \in {s, N} : Points(person, t) = 0
    BY <1>12, <1>14
  <2>2. s \in 1 .. N /\ s \in evident /\ N \in evident /\ N \in enrolled
    BY <1>3, <1>4, <2>1
  <2>3. Silent(series[s]) /\ Silent(series[N]) /\ Counts(series[s]) /\ Counts(series[N])
    BY <1>1, <1>10, <1>11, <2>1, <2>2
  <2>4. ASSUME NEW u \in 1 .. N, u > s, u # N PROVE ~Counts(series[u])
    <3>1. u \notin {s, N} /\ u >= s
      BY <2>2, <2>4
    <3>2. u \notin enrolled
      BY <2>1, <3>1
    <3> QED BY <1>11, <3>2
  <2> QED BY <1>1, <2>1, <2>2, <2>3, <2>4 DEF TwoSilent
<1>15. N \in evident => (Signalled(series) <=> Sufficient(series) /\ FellSilent(person, N))
  BY <1>8, <1>9, <1>13, <1>14 DEF Signalled
<1>16. N \notin evident => ~Signalled(series) /\ ~Evaluable(series)
  BY <1>8 DEF Signalled
<1>17. DueAlert(person, N) =
         IF N \notin evident \/ Cardinality(evident) < Minimum THEN "INSUFFICIENT_DATA"
         ELSE IF FellSilent(person, N) THEN "OBSERVAR" ELSE "NORMAL"
  BY DEF DueAlert, evident
<1>18. Alert(series) = DueAlert(person, N)
  BY <1>7, <1>8, <1>15, <1>16, <1>17 DEF Alert
<1> QED BY <1>18 DEF series, person

(* Everybody with a valid enrollment is known to the view, and nobody      *)
(* else.                                                                   *)
LEMMA KnownAre ==
  ASSUME Inv, NEW table
  PROVE  KnownTo(table) = {i \in Followed(Book) : Validly(i)}
<1>1. N \in Term /\ Term = 1 .. N /\ Term \subseteq Nat
  BY PilotAssumption DEF Term
<1>2. ASSUME NEW i \in Followed(Book), Validly(i) PROVE i \in KnownTo(table)
  <2>1. Series(i)[N] # NoObservation
    BY <1>1, <1>2, SeriesIs
  <2> QED BY <1>1, <2>1 DEF KnownTo
<1>3. ASSUME NEW i \in KnownTo(table) PROVE Validly(i)
  <2> SUFFICES ASSUME ~Validly(i) PROVE FALSE
    OBVIOUS
  <2>1. i \in Followed(Book) /\ i \in DOMAIN people
    BY ReadOf DEF KnownTo
  <2>2. \A s \in Term : Applies(Book.bounds[people[i].name], s) = "UNKNOWN"
    BY <1>1, <2>1, BoundsAre
  <2>3. \A s \in 1 .. N : Series(i)[s] = NoObservation
    BY <1>1, <2>2 DEF Series, Available, Participation
  <2>4. PICK o \in Observations(table) : o.row = i /\ o.session <= N
    BY <1>3, <2>3 DEF KnownTo
  <2> DEFINE owner(e) == ResolveAttendance(Book.people, table.rules, e)
  <2>5. PICK pair :
          /\ pair[2] \in Term
          /\ o = [external |-> pair[1], session |-> pair[2], row |-> owner(pair[1]).row,
                  status |-> AttendanceStatus(Book, table.facts, pair, owner(pair[1]).row)]
          /\ o.status # "none"
    BY DEF Observations, AttendanceSeen
  <2>6. AttendanceStatus(Book, table.facts, pair, i) # "none"
    BY <2>4, <2>5
  <2>7. Applies(Book.bounds[Book.people[i].name], pair[2]) = "UNKNOWN"
    <3>1. Book.people[i] = people[i]
      BY DEF Book
    <3> QED BY <2>2, <2>5, <3>1
  <2>8. AttendanceStatus(Book, table.facts, pair, i) = "none"
    BY <2>7 DEF AttendanceStatus
  <2> QED BY <2>6, <2>8
<1> QED BY <1>2, <1>3 DEF KnownTo

(* The alerts that are shown are the ones the evidence calls for.          *)
THEOREM AlertsOfEvidence == ASSUME Unmistaken PROVE Spec => []AlertsAreExact
<1>1. ASSUME Inv PROVE AlertsAreExact
  <2> SUFFICES ASSUME run.at = "published"
               PROVE  LET k == run.view.as_of
                          tried == {s \in Term : state[s].status # "pending"}
                      IN  /\ k \in tried /\ \A s \in tried : s <= k
                          /\ run.view.cases = {[id |-> people[i].id, alert |-> DueAlert(people[i], k)] :
                                             i \in {j \in Followed(Book) : Book.bounds[people[j].name].valid}}
    BY DEF AlertsAreExact
  <2>1. Showing
    BY <1>1, RunIs DEF Inv, Typed
  <2>2. PICK table \in Attendance : Shows(table)
    BY <2>1 DEF Showing
  <2>3. /\ run.view.as_of = N
        /\ run.view.cases = {[id |-> people[i].id, alert |-> Alert(Series(i))] : i \in KnownTo(table)}
        /\ \A s \in Term : Tried(s)
        /\ N \in Term
    BY <1>1, <2>1, <2>2, ViewShows
  <2>4. {s \in Term : state[s].status # "pending"} = Term
    BY <2>3 DEF Tried, Outcome
  <2>5. \A s \in Term : s <= N
    BY PilotAssumption DEF Term
  <2>6. KnownTo(table) = {j \in Followed(Book) : Book.bounds[people[j].name].valid}
    BY <1>1, KnownAre DEF Validly
  <2>7. \A i \in KnownTo(table) : Alert(Series(i)) = DueAlert(people[i], N)
    BY <1>1, <2>6, AlertIs DEF Validly
  <2>8. run.view.cases = {[id |-> people[i].id, alert |-> DueAlert(people[i], N)] : i \in KnownTo(table)}
    BY <2>3, <2>7
  <2> QED BY <2>3, <2>4, <2>5, <2>6, <2>8
<1> QED BY <1>1, InvAlways, PTL
=============================================================================
