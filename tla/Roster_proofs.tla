----------------------------- MODULE Roster_proofs -----------------------------
(***************************************************************************)
(* What holds of Participantes for any number of people, edits, refreshes  *)
(* and failures: ids stay unique, no row becomes that of somebody else,    *)
(* and a refresh that succeeded leaves nothing for the next one to do.     *)
(*                                                                         *)
(* People who share names or addresses can be taken for one another, and   *)
(* a retried append may be applied twice; the theorems assume neither.     *)
(* (The lemmas about lists bring the constant NoKey, which is not used.)   *)
(***************************************************************************)
EXTENDS Roster, Lists_lemmas

IsRow(row) ==
  /\ row = [id |-> row.id, nombre |-> row.nombre, correo |-> row.correo, aliases |-> row.aliases, role |-> row.role]
  /\ row.nombre # None

(* What of a row speaks for a person.                                      *)
Touches(cols, row, p) ==
  \/ row.nombre \in NamesOf[p]
  \/ row.correo \in EmailsOf[p]
  \/ row.aliases \intersect NamesOf[p] # {}
  \/ "participant_id" \in cols /\ row.id = IdOf[p]

(* A row that speaks for a person speaks for nobody else.                  *)
Coherent(cols, row) == \A p \in Person : Touches(cols, row, p) => Belongs(row, p)

Sound(cols, sheet) ==
  /\ sheet \in Seq(Range(sheet))
  /\ \A i \in DOMAIN sheet : IsRow(sheet[i]) /\ Coherent(cols, sheet[i])
  /\ \A i, j \in DOMAIN sheet : sheet[i].id = sheet[j].id => i = j

(* People with names, addresses and ids of their own; to begin with, a     *)
(* sheet without blank rows, repeated ids and rows of two people; and no   *)
(* append applied twice.                                                   *)
Apart ==
  /\ \A p, q \in Person : p # q =>
       /\ NamesOf[p] \intersect NamesOf[q] = {} /\ EmailsOf[p] \intersect EmailsOf[q] = {}
       /\ IdOf[p] # IdOf[q]
  /\ \A p \in Person : None \notin NamesOf[p] /\ None \notin EmailsOf[p]
  /\ \A sheet \in Earlier, cols \in SUBSET {"participant_id", "aliases"} : Sound(cols, sheet)
  /\ AppendTimes = {1}

-----------------------------------------------------------------------------
(* The invariant.                                                          *)

RosterIs ==
  /\ roster = [p \in Person |-> [nombre |-> roster[p].nombre, correo |-> roster[p].correo]]
  /\ \A p \in Enrolled :
       /\ roster[p].nombre \in NamesOf[p]
       /\ \E q \in Person : roster[p].correo \in EmailsOf[q]
  /\ \A p \in Person : Mistyped(p) => Repeated(p) /\ \A q \in Person : Mistyped(q) => q = p

(* The row a person has, and what it says when it agrees with the roster.  *)
Home(sheet, p, i) ==
  /\ i \in DOMAIN sheet /\ Belongs(sheet[i], p)
  /\ Declared("participant_id") => sheet[i].id = IdOf[p]
  /\ ~Declared("participant_id") => \A j \in DOMAIN sheet : sheet[j].correo = roster[p].correo => j = i

Holds(rec, p) ==
  /\ rec.nombre = roster[p].nombre /\ rec.correo = roster[p].correo
  /\ Declared("aliases") => rec.aliases = NamesOf[p] \ {roster[p].nombre}

JobIs ==
  \/ job = Idle
  \/ /\ job = [at |-> job.at, creates |-> job.creates, updates |-> job.updates, done |-> job.done]
     /\ job.at \in {"append", "nombre", "correo", "aliases", "verify"}
     /\ job.done \in Nat /\ job.updates \in Seq(Range(job.updates))
     /\ job.at \in {"nombre", "correo", "aliases"} => job.done < Len(job.updates)
     /\ job.at = "append" => job.done = 0 /\ job.creates \in Seq(Range(job.creates))
     /\ result # "ok"

(* The sheet when the append has been made.                                *)
Grown == IF job.at = "append" THEN people \o job.creates ELSE people

(* Everybody has a row of their own in it, which agrees with the roster or *)
(* is going to; and only such rows are going to be changed.                *)
Housed(home) == \A p \in Enrolled : Home(Grown, p, home[p])
Due(home) ==
  /\ \A p \in Enrolled :
       Holds(Grown[home[p]], p) \/ \E u \in Range(job.updates) : u.row = home[p]
  /\ \A u \in Range(job.updates) :
       /\ u.row \in DOMAIN people /\ u.id = people[u.row].id
       /\ \E p \in Enrolled : u.row = home[p] /\ Holds(u.to, p) /\ u.to.aliases \subseteq NamesOf[p]
Planned ==
  job # Idle =>
    /\ \A p \in Enrolled : roster[p].correo \in EmailsOf[p]
    /\ \E home \in [Enrolled -> DOMAIN Grown] : Housed(home) /\ Due(home)

Done ==
  result = "ok" =>
    \E home \in [Enrolled -> DOMAIN Grown] : Housed(home) /\ \A p \in Enrolled : Holds(people[home[p]], p)

Inv == RosterIs /\ JobIs /\ Sound(columns, people) /\ Sound(columns, Grown) /\ Planned /\ Done

-----------------------------------------------------------------------------
(* Rows and sheets.                                                        *)

(* A row is that of one person at most.                                    *)
LEMMA OneOwner ==
  ASSUME Apart, NEW row, NEW p \in Person, NEW q \in Person, Belongs(row, p), Belongs(row, q)
  PROVE  p = q
  BY DEF Apart, Belongs

(* A row that belongs to somebody, and has no id of somebody else, speaks  *)
(* for nobody else.                                                        *)
LEMMA OwnedCoherent ==
  ASSUME Apart, NEW row, NEW p \in Person, Belongs(row, p),
         NEW cols, "participant_id" \in cols => \A q \in Person : row.id = IdOf[q] => q = p
  PROVE  Coherent(cols, row)
<1> SUFFICES ASSUME NEW q \in Person, Touches(cols, row, q) PROVE q = p
  BY DEF Coherent
<1>1. CASE row.nombre \in NamesOf[q]
  BY <1>1 DEF Apart, Belongs
<1>2. CASE row.correo \in EmailsOf[q]
  BY <1>2 DEF Apart, Belongs
<1>3. CASE row.aliases \intersect NamesOf[q] # {}
  BY <1>3 DEF Apart, Belongs
<1>4. CASE "participant_id" \in cols /\ row.id = IdOf[q]
  BY <1>4
<1> QED BY <1>1, <1>2, <1>3, <1>4 DEF Touches

(* A list is a function on its numbers.                                    *)
LEMMA ListIs ==
  ASSUME NEW s, s \in Seq(Range(s))
  PROVE  Len(s) \in Nat /\ DOMAIN s = 1 .. Len(s) /\ IsFiniteSet(DOMAIN s) /\ DOMAIN s \subseteq Nat
<1>1. Len(s) \in Nat /\ DOMAIN s = 1 .. Len(s)
  BY LenProperties
<1> QED BY <1>1, FS_Interval

(* A function on the first numbers is a list.                              *)
LEMMA IsList ==
  ASSUME NEW n \in Nat, NEW s, s = [i \in 1 .. n |-> s[i]]
  PROVE  s \in Seq(Range(s)) /\ Len(s) = n
<1>1. DOMAIN s = 1 .. n
  OBVIOUS
<1>2. \A i \in 1 .. n : s[i] \in Range(s)
  BY <1>1 DEF Range
<1>3. s \in [1 .. n -> Range(s)]
  BY <1>2
<1>4. s \in Seq(Range(s))
  BY <1>3, SeqDef
<1> QED BY <1>1, <1>4, LenProperties

(* In a sound sheet no row is blank, and load_read_only accepts it.        *)
LEMMA FilledIs ==
  ASSUME Sound(columns, people)
  PROVE  /\ Filled = DOMAIN people /\ Filled = 1 .. Len(people) /\ Len(people) \in Nat
         /\ IsFiniteSet(Filled) /\ ~Damaged
<1>1. \A i \in DOMAIN people : people[i].nombre # None
  BY DEF Sound, IsRow
<1>2. Blank.nombre = None
  BY DEF Blank
<1>3. Filled = DOMAIN people
  BY <1>1, <1>2 DEF Filled
<1>4. people \in Seq(Range(people))
  BY DEF Sound
<1>5. ~Damaged
  BY <1>1, <1>3 DEF Damaged, Sound
<1> QED BY <1>3, <1>4, <1>5, ListIs

(* A row may be exchanged for one with its id.                             *)
LEMMA ExchangedIs ==
  ASSUME NEW cols, NEW sheet, Sound(cols, sheet), NEW i \in DOMAIN sheet, NEW row, IsRow(row),
         row.id = sheet[i].id, Coherent(cols, row)
  PROVE  /\ Sound(cols, [sheet EXCEPT ![i] = row])
         /\ DOMAIN [sheet EXCEPT ![i] = row] = DOMAIN sheet
         /\ \A j \in DOMAIN sheet : [sheet EXCEPT ![i] = row][j] = IF j = i THEN row ELSE sheet[j]
<1> DEFINE new == [sheet EXCEPT ![i] = row]
<1>1. sheet \in Seq(Range(sheet))
  BY DEF Sound
<1>2. Len(sheet) \in Nat /\ DOMAIN sheet = 1 .. Len(sheet)
  BY <1>1, ListIs
<1>3. /\ DOMAIN new = DOMAIN sheet /\ new = [j \in 1 .. Len(sheet) |-> new[j]]
      /\ \A j \in DOMAIN sheet : new[j] = IF j = i THEN row ELSE sheet[j]
  BY <1>2
<1>4. new \in Seq(Range(new))
  BY <1>2, <1>3, IsList
<1>5. \A j \in DOMAIN new : IsRow(new[j]) /\ Coherent(cols, new[j])
  BY <1>3 DEF Sound
<1>6. \A j, k \in DOMAIN new : new[j].id = new[k].id => j = k
  BY <1>3 DEF Sound
<1> QED BY <1>3, <1>4, <1>5, <1>6 DEF Sound

-----------------------------------------------------------------------------
(* The records of the roster.                                              *)

(* Who is enrolled has a name and an address of their own.                 *)
LEMMA EnrolledIs ==
  ASSUME Apart, RosterIs, NEW p \in Enrolled
  PROVE  p \in Person /\ roster[p].nombre \in NamesOf[p] /\ roster[p].correo # None
  BY DEF Apart, RosterIs, Enrolled

(* The records nobody has to review are told apart by their addresses.     *)
LEMMA NotReviewed ==
  ASSUME Apart, RosterIs, ~Reviews
  PROVE  /\ \A p \in Enrolled : roster[p].correo \in EmailsOf[p] /\ ~Repeated(p)
         /\ \A p, q \in Enrolled : roster[p].correo = roster[q].correo => p = q
<1>1. ASSUME NEW p \in Enrolled PROVE ~NeedsReview(p) /\ ~Repeated(p)
  BY <1>1 DEF Reviews, NeedsReview
<1>2. ASSUME NEW p \in Enrolled PROVE roster[p].correo \in EmailsOf[p]
  BY <1>1, <1>2 DEF RosterIs, Mistyped, Enrolled
<1> QED BY <1>1, <1>2 DEF Repeated
-----------------------------------------------------------------------------
(* Recognising people.                                                     *)

(* A row by which somebody may be recognised is theirs.                    *)
LEMMA RecognisedIs ==
  ASSUME Apart, RosterIs, Sound(columns, people), NEW p \in Enrolled,
         roster[p].correo \in EmailsOf[p]
  PROVE  /\ \A i \in Matches(p) \union ByEmail(p) : i \in DOMAIN people /\ Belongs(people[i], p)
         /\ IsFiniteSet(Matches(p)) /\ IsFiniteSet(ByEmail(p))
         /\ ByEmail(p) \subseteq Nat /\ WithId(IdOf[p]) \subseteq Nat /\ IsFiniteSet(WithId(IdOf[p]))
<1>1. Filled = DOMAIN people /\ IsFiniteSet(Filled) /\ Filled \subseteq Nat
  BY FilledIs
<1>2. p \in Person /\ roster[p].nombre \in NamesOf[p]
  BY EnrolledIs
<1>3. \A i \in Filled : Coherent(columns, people[i])
  BY <1>1 DEF Sound
<1>4. \A i \in Matches(p) \union ByEmail(p) : i \in Filled /\ Touches(columns, people[i], p)
  BY <1>2 DEF Matches, Declared, WithId, ByEmail, ByName, ByAlias, Touches
<1>5. \A i \in Matches(p) \union ByEmail(p) : Belongs(people[i], p)
  BY <1>2, <1>3, <1>4 DEF Coherent
<1>6. Matches(p) \in SUBSET Filled /\ ByEmail(p) \in SUBSET Filled /\ WithId(IdOf[p]) \in SUBSET Filled
  BY <1>4 DEF WithId
<1>7. IsFiniteSet(Matches(p)) /\ IsFiniteSet(ByEmail(p)) /\ IsFiniteSet(WithId(IdOf[p]))
  BY <1>1, <1>6, FS_Subset
<1> QED BY <1>1, <1>4, <1>5, <1>6, <1>7

(* What the fields that the roster does not declare are preserved from is  *)
(* a row of the same person, if any.                                       *)
LEMMA PreservedIs ==
  ASSUME Apart, RosterIs, Sound(columns, people), NEW p \in Enrolled,
         roster[p].correo \in EmailsOf[p]
  PROVE  Holds(Preserved(p), p) /\ Preserved(p).aliases \subseteq NamesOf[p]
<1> DEFINE own == IF Declared("participant_id") THEN WithId(IdOf[p]) ELSE {}
           current == IF own # {} THEN own ELSE ByEmail(p)
<1>1. /\ Preserved(p).nombre = roster[p].nombre /\ Preserved(p).correo = roster[p].correo
      /\ Preserved(p).aliases = IF Declared("aliases") THEN NamesOf[p] \ {roster[p].nombre}
                                ELSE IF current = {} THEN {} ELSE people[Max(current)].aliases
  BY DEF Preserved
<1>2. /\ \A i \in Matches(p) \union ByEmail(p) : i \in DOMAIN people /\ Belongs(people[i], p)
      /\ IsFiniteSet(ByEmail(p)) /\ ByEmail(p) \subseteq Nat
      /\ WithId(IdOf[p]) \subseteq Nat /\ IsFiniteSet(WithId(IdOf[p]))
  BY RecognisedIs
<1>3. current # {} => Max(current) \in current
  BY <1>2, MaxIs
<1>4. current \subseteq Matches(p) \union ByEmail(p)
  BY DEF Matches
<1>5. current # {} => people[Max(current)].aliases \subseteq NamesOf[p]
  BY <1>2, <1>3, <1>4 DEF Belongs
<1> HIDE DEF current
<1> QED BY <1>1, <1>5 DEF Holds

(* A row that agrees with the roster is what the next refresh finds.       *)
LEMMA FoundAgain ==
  ASSUME Apart, RosterIs, Sound(columns, people),
         NEW home \in [Enrolled -> DOMAIN people],
         \A p \in Enrolled : Home(people, p, home[p]) /\ Holds(people[home[p]], p)
  PROVE  /\ \A p \in Enrolled : Action(p) = "MATCH" /\ Target(p) = home[p]
         /\ \A p, q \in Enrolled : home[p] = home[q] => p = q
<1>1. Filled = DOMAIN people /\ Filled \subseteq Nat
  BY FilledIs
<1>2. ASSUME NEW p \in Enrolled, NEW q \in Enrolled, home[p] = home[q] PROVE p = q
  BY <1>2, OneOwner, EnrolledIs DEF Home
<1>3. ASSUME NEW p \in Enrolled PROVE roster[p].correo \in EmailsOf[p]
  BY <1>3, EnrolledIs DEF Home, Holds, Belongs
<1>4. ASSUME NEW p \in Enrolled PROVE ~Repeated(p)
  BY <1>3, <1>4, EnrolledIs DEF Repeated, Apart
<1>5. ASSUME NEW p \in Enrolled PROVE Matches(p) = {home[p]}
  <2>1. CASE Declared("participant_id")
    <3>1. people[home[p]].id = IdOf[p] /\ home[p] \in DOMAIN people
      BY <1>5, <2>1 DEF Home
    <3>2. WithId(IdOf[p]) = {home[p]}
      BY <1>1, <3>1 DEF WithId, Sound
    <3> QED BY <2>1, <3>2 DEF Matches
  <2>2. CASE ~Declared("participant_id")
    <3>1. home[p] \in DOMAIN people /\ people[home[p]].correo = roster[p].correo
      BY <1>5 DEF Home, Holds
    <3>2. ByEmail(p) = {home[p]}
      BY <1>1, <1>5, <2>2, <3>1 DEF ByEmail, Home
    <3> QED BY <2>2, <3>2 DEF Matches
  <2> QED BY <2>1, <2>2
<1>6. ASSUME NEW p \in Enrolled PROVE Target(p) = home[p]
  BY <1>5, <1>6 DEF Target
<1>7. ASSUME NEW p \in Enrolled PROVE ~NeedsReview(p)
  <2>1. Cardinality(Matches(p)) = 1
    BY <1>5, <1>7, FS_Singleton
  <2> QED BY <1>4, <1>5, <1>7, <2>1 DEF NeedsReview
<1>8. ASSUME NEW p \in Enrolled PROVE Agrees(people[home[p]], Preserved(p))
  <2> DEFINE own == IF Declared("participant_id") THEN WithId(IdOf[p]) ELSE {}
             current == IF own # {} THEN own ELSE ByEmail(p)
             h == home[p]
  <2>1. current = {h}
    <3>1. CASE Declared("participant_id")
      BY <1>5, <1>8, <3>1 DEF Matches
    <3>2. CASE ~Declared("participant_id")
      <4>1. h \in ByEmail(p)
        BY <1>1, <1>8 DEF ByEmail, Holds
      <4>2. Matches(p) = ByEmail(p)
        BY <3>2, <4>1 DEF Matches
      <4> QED BY <1>5, <1>8, <3>2, <4>2
    <3> QED BY <3>1, <3>2
  <2>2. h \in Nat
    BY <1>1, <1>8
  <2>3. Max({h}) = h
    BY <2>2 DEF Max
  <2>4. /\ Preserved(p).nombre = roster[p].nombre /\ Preserved(p).correo = roster[p].correo
        /\ Preserved(p).aliases = IF Declared("aliases") THEN NamesOf[p] \ {roster[p].nombre}
                                  ELSE IF current = {} THEN {} ELSE people[Max(current)].aliases
    BY DEF Preserved
  <2> HIDE DEF current
  <2>5. Holds(people[h], p)
    BY <1>8
  <2>6. people[h].aliases = Preserved(p).aliases
    BY <2>1, <2>3, <2>4, <2>5 DEF Holds
  <2> QED BY <2>4, <2>5, <2>6 DEF Agrees, Holds
<1>9. ASSUME NEW p \in Enrolled PROVE Action(p) = "MATCH"
  BY <1>5, <1>6, <1>7, <1>8, <1>9 DEF Action
<1> QED BY <1>2, <1>6, <1>9
-----------------------------------------------------------------------------
(* The invariant holds at the beginning and is kept by every step.         *)

(* Between refreshes nothing is under way.                                 *)
LEMMA GrownIdle == ASSUME job = Idle PROVE Grown = people
  BY DEF Grown, Idle

(* A refresh at work is at one of its calls.                               *)
LEMMA WorkingIs == ASSUME JobIs, job.at # "idle" PROVE job # Idle
  BY DEF Idle

(* The invariant holds initially.                                          *)
LEMMA InvInit == ASSUME Apart, Init PROVE Inv
<1>1. \A p \in Person : roster[p] = Absent /\ roster[p].nombre = None /\ roster[p].correo = None
  BY DEF Init, Absent
<1>2. Enrolled = {}
  BY <1>1 DEF Enrolled
<1>3. roster = [p \in Person |-> [nombre |-> roster[p].nombre, correo |-> roster[p].correo]]
  BY <1>1 DEF Init, Absent
<1>4. RosterIs
  BY <1>2, <1>3 DEF RosterIs, Mistyped
<1>5. Sound(columns, people)
  BY DEF Init, Apart
<1>6. JobIs /\ Planned /\ Done
  BY DEF Init, JobIs, Planned, Done
<1> QED BY <1>4, <1>5, <1>6, GrownIdle DEF Inv, Init

(* An edit that leaves roster and sheet sound.                             *)
LEMMA EditKeeps == ASSUME Inv, Edit, RosterIs', Sound(columns, people)' PROVE Inv'
<1>1. job' = Idle /\ result' = "none"
  BY DEF Edit
<1>2. Grown' = people'
  BY <1>1 DEF Grown, Idle
<1>3. Sound(columns, Grown)'
  BY <1>2
<1>4. JobIs' /\ Planned' /\ Done'
  BY <1>1 DEF JobIs, Planned, Done
<1> QED BY <1>3, <1>4 DEF Inv

(* A new record of somebody, or none.                                      *)
LEMMA RecordedIs ==
  ASSUME Apart, RosterIs, NEW p \in Person, MayEdit(p),
         NEW rec, rec = [nombre |-> rec.nombre, correo |-> rec.correo],
         rec = Absent \/ (rec.nombre \in NamesOf[p] /\ rec.correo \in EmailsOf[p]),
         roster' = [roster EXCEPT ![p] = rec]
  PROVE  RosterIs'
<1>1. /\ \A q \in Person : roster'[q] = IF q = p THEN rec ELSE roster[q]
      /\ roster' = [q \in Person |-> roster'[q]]
  BY DEF RosterIs
<1>2. \A q \in Person : roster'[q] = [nombre |-> roster'[q].nombre, correo |-> roster'[q].correo]
  BY <1>1 DEF RosterIs
<1>3. roster' = [q \in Person |-> [nombre |-> roster'[q].nombre, correo |-> roster'[q].correo]]
  BY <1>1, <1>2
<1>4. \A q \in Person : q # p => (q \in Enrolled' <=> q \in Enrolled)
  BY <1>1 DEF Enrolled
<1>5. p \in Enrolled' => rec.nombre \in NamesOf[p] /\ rec.correo \in EmailsOf[p]
  BY <1>1 DEF Enrolled
<1>6. ASSUME NEW q \in Enrolled'
      PROVE  roster'[q].nombre \in NamesOf[q] /\ \E r \in Person : roster'[q].correo \in EmailsOf[r]
  BY <1>1, <1>4, <1>5, <1>6 DEF RosterIs, Enrolled
<1>7. ASSUME NEW q \in Person PROVE ~Mistyped(q)'
  <2>1. CASE q = p
    BY <1>1, <1>5, <2>1 DEF Mistyped
  <2>2. CASE q # p
    BY <1>1, <1>4, <2>2 DEF Mistyped, MayEdit
  <2> QED BY <2>1, <2>2
<1> QED BY <1>3, <1>6, <1>7 DEF RosterIs

(* Somebody enrols, changes name or address, or leaves.                    *)
LEMMA RegisterKeeps ==
  ASSUME Apart, Inv, NEW p \in Person,
         \/ \E name \in NamesOf[p], email \in EmailsOf[p] : Register(p, name, email)
         \/ Withdraw(p)
  PROVE  Inv'
<1>1. PICK rec : /\ rec = [nombre |-> rec.nombre, correo |-> rec.correo]
                 /\ rec = Absent \/ (rec.nombre \in NamesOf[p] /\ rec.correo \in EmailsOf[p])
                 /\ roster' = [roster EXCEPT ![p] = rec]
  <2>1. CASE Withdraw(p)
    <3> WITNESS Absent
    <3> QED BY <2>1 DEF Withdraw, Absent
  <2>2. ASSUME NEW name \in NamesOf[p], NEW email \in EmailsOf[p], Register(p, name, email)
        PROVE  \E rec : /\ rec = [nombre |-> rec.nombre, correo |-> rec.correo]
                        /\ rec = Absent \/ (rec.nombre \in NamesOf[p] /\ rec.correo \in EmailsOf[p])
                        /\ roster' = [roster EXCEPT ![p] = rec]
    <3> WITNESS [nombre |-> name, correo |-> email]
    <3> QED BY <2>2 DEF Register
  <2> QED BY <2>1, <2>2
<1>2. Edit /\ MayEdit(p) /\ UNCHANGED <<people, columns>>
  BY DEF Register, Withdraw, Edit
<1>3. RosterIs'
  BY <1>1, <1>2, RecordedIs DEF Inv
<1>4. Sound(columns, people)'
  BY <1>2 DEF Inv, Sound
<1> QED BY <1>2, <1>3, <1>4, EditKeeps

(* Somebody is given the address of another.                               *)
LEMMA MistypeKeeps ==
  ASSUME Apart, Inv, NEW p \in Person, NEW q \in Person, p # q, Mistype(p, q)
  PROVE  Inv'
<1>1. /\ Edit /\ UNCHANGED <<people, columns>> /\ p \in Enrolled /\ q \in Enrolled
      /\ \A r \in Person : ~Mistyped(r)
      /\ roster' = [roster EXCEPT ![p].correo = roster[q].correo]
  BY DEF Mistype, Edit
<1>2. /\ roster = [r \in Person |-> [nombre |-> roster[r].nombre, correo |-> roster[r].correo]]
      /\ \A r \in Enrolled : roster[r].nombre \in NamesOf[r] /\ \E o \in Person : roster[r].correo \in EmailsOf[o]
  BY DEF Inv, RosterIs
<1>3. \A r \in Person :
        IF r = p THEN roster'[r] = [nombre |-> roster[r].nombre, correo |-> roster[q].correo]
                 ELSE roster'[r] = roster[r] /\ roster[r] = [nombre |-> roster[r].nombre, correo |-> roster[r].correo]
  BY <1>1, <1>2
<1>13. \A r \in Person :
         /\ roster'[r].nombre = roster[r].nombre
         /\ roster'[r].correo = IF r = p THEN roster[q].correo ELSE roster[r].correo
  <2> SUFFICES ASSUME NEW r \in Person
               PROVE  /\ roster'[r].nombre = roster[r].nombre
                      /\ roster'[r].correo = IF r = p THEN roster[q].correo ELSE roster[r].correo
    OBVIOUS
  <2>1. CASE r = p
    <3>1. roster'[p] = [nombre |-> roster[p].nombre, correo |-> roster[q].correo]
      BY <1>3
    <3> QED BY <2>1, <3>1
  <2>2. CASE r # p
    BY <1>3, <2>2
  <2> QED BY <2>1, <2>2
<1>4. roster' = [r \in Person |-> [nombre |-> roster'[r].nombre, correo |-> roster'[r].correo]]
  BY <1>1, <1>2, <1>3
<1>5. roster'[p] # Absent
  <2>1. roster'[p].nombre # None
    <3>1. roster'[p].nombre = roster[p].nombre /\ roster[p].nombre \in NamesOf[p]
      BY <1>1, <1>2, <1>13
    <3> QED BY <3>1 DEF Apart
  <2> QED BY <2>1 DEF Absent
<1>6. \A r \in Person : r # p => roster'[r] = roster[r]
  BY <1>2, <1>3
<1>7. Enrolled' = Enrolled
  BY <1>1, <1>5, <1>6 DEF Enrolled
<1>8. ASSUME NEW r \in Enrolled'
      PROVE  roster'[r].nombre \in NamesOf[r] /\ \E o \in Person : roster'[r].correo \in EmailsOf[o]
  <2>1. r \in Enrolled /\ r \in Person /\ p \in Enrolled /\ q \in Enrolled
    BY <1>1, <1>7 DEF Enrolled
  <2>2. roster'[r].nombre = roster[r].nombre
    BY <1>13, <2>1
  <2>3. roster'[r].correo = roster[q].correo \/ roster'[r].correo = roster[r].correo
    BY <1>13, <2>1
  <2> QED BY <1>2, <2>1, <2>2, <2>3
<1>9. \A r \in Person : Mistyped(r)' => r = p
  BY <1>1, <1>6, <1>7 DEF Mistyped
<1>10. Repeated(p)'
  <2>1. roster'[q].correo = roster'[p].correo
    BY <1>1, <1>13
  <2> QED BY <1>1, <1>7, <2>1 DEF Repeated
<1>11. RosterIs'
  BY <1>4, <1>8, <1>9, <1>10 DEF RosterIs
<1>12. Sound(columns, people)'
  BY <1>1 DEF Inv, Sound
<1> QED BY <1>1, <1>11, <1>12, EditKeeps

(* Edits of the sheet leave the roster as it is.                           *)
LEMMA RosterSame == ASSUME RosterIs, UNCHANGED <<roster, columns>> PROVE RosterIs' /\ Enrolled' = Enrolled
  BY DEF RosterIs, Enrolled, Mistyped, Repeated

(* Somebody is given an alias, of their own.                               *)
LEMMA AddAliasKeeps == ASSUME Apart, Inv, NEW p \in Person, NEW i \in Filled, AddAlias(p, i) PROVE Inv'
<1> DEFINE row == [people[i] EXCEPT !.aliases = NamesOf[p] \ {people[i].nombre}]
<1>1. Sound(columns, people) /\ i \in DOMAIN people
  BY DEF Inv, Filled
<1>2. IsRow(people[i]) /\ Coherent(columns, people[i]) /\ people[i].nombre \in NamesOf[p]
  BY <1>1 DEF Sound, AddAlias
<1>3. Belongs(people[i], p)
  BY <1>2 DEF Coherent, Touches
<1>4. /\ IsRow(row) /\ row.id = people[i].id /\ row.nombre = people[i].nombre /\ row.correo = people[i].correo
      /\ row.aliases = NamesOf[p] \ {people[i].nombre}
  BY <1>2 DEF IsRow
<1>5. Belongs(row, p)
  BY <1>3, <1>4 DEF Belongs
<1>6. Coherent(columns, row)
  <2>1. ASSUME "participant_id" \in columns, NEW q \in Person, row.id = IdOf[q] PROVE q = p
    <3>1. Belongs(people[i], q)
      BY <1>2, <1>4, <2>1 DEF Coherent, Touches
    <3> QED BY <1>3, <3>1, OneOwner
  <2> HIDE DEF row
  <2> QED BY <1>5, <2>1, OwnedCoherent
<1>7. people' = [people EXCEPT ![i] = row] /\ UNCHANGED <<roster, columns>> /\ Edit
  BY DEF AddAlias, Edit
<1>8. Sound(columns, people')
  <2> HIDE DEF row
  <2> QED BY <1>1, <1>4, <1>6, <1>7, ExchangedIs
<1>9. RosterIs'
  BY <1>7, RosterSame DEF Inv
<1> QED BY <1>7, <1>8, <1>9, EditKeeps

(* Somebody is given another role.                                         *)
LEMMA PromoteKeeps == ASSUME Apart, Inv, NEW i \in Filled, Promote(i) PROVE Inv'
<1> DEFINE row == [people[i] EXCEPT !.role = "facilitator"]
<1>1. Sound(columns, people) /\ i \in DOMAIN people
  BY DEF Inv, Filled
<1>2. IsRow(people[i]) /\ Coherent(columns, people[i])
  BY <1>1 DEF Sound
<1>3. /\ IsRow(row) /\ row.id = people[i].id /\ row.nombre = people[i].nombre /\ row.correo = people[i].correo
      /\ row.aliases = people[i].aliases
  BY <1>2 DEF IsRow
<1>4. Coherent(columns, row)
  BY <1>2, <1>3 DEF Coherent, Touches, Belongs
<1>5. people' = [people EXCEPT ![i] = row] /\ UNCHANGED <<roster, columns>> /\ Edit
  BY DEF Promote, Edit
<1>6. Sound(columns, people')
  <2> HIDE DEF row
  <2> QED BY <1>1, <1>3, <1>4, <1>5, ExchangedIs
<1>7. RosterIs'
  BY <1>5, RosterSame DEF Inv
<1> QED BY <1>5, <1>6, <1>7, EditKeeps
-----------------------------------------------------------------------------
(* The steps of a refresh.                                                 *)

(* The elements of a list of rows appended to a list of rows.              *)
LEMMA GrownIs ==
  ASSUME NEW s, NEW t, s \in Seq(Range(s)), t \in Seq(Range(t))
  PROVE  /\ s \o t \in Seq(Range(s \o t)) /\ Len(s \o t) = Len(s) + Len(t)
         /\ Len(s) \in Nat /\ Len(t) \in Nat
         /\ DOMAIN s = 1 .. Len(s) /\ DOMAIN (s \o t) = 1 .. Len(s) + Len(t)
         /\ \A i \in 1 .. Len(s) : (s \o t)[i] = s[i]
         /\ \A k \in 1 .. Len(t) : (s \o t)[Len(s) + k] = t[k]
         /\ \A i \in 1 .. Len(s) + Len(t) : i \in 1 .. Len(s) \/ \E k \in 1 .. Len(t) : i = Len(s) + k
<1> DEFINE T == Range(s) \union Range(t)
           r == s \o t
<1>1. s \in Seq(T) /\ t \in Seq(T)
  OBVIOUS
<1> HIDE DEF T
<1>2. Joins(r, s, t, T)
  BY <1>1, Joined
<1>3. /\ r \in Seq(T) /\ Len(r) = Len(s) + Len(t) /\ Len(s) \in Nat /\ Len(t) \in Nat
      /\ \A i \in 1 .. Len(s) : r[i] = s[i]
      /\ \A k \in 1 .. Len(t) : r[Len(s) + k] = t[k]
      /\ \A i \in 1 .. Len(r) : i \in 1 .. Len(s) \/ \E k \in 1 .. Len(t) : i = Len(s) + k
  BY <1>2 DEF Joins
<1> HIDE DEF r
<1>4. DOMAIN s = 1 .. Len(s) /\ DOMAIN r = 1 .. Len(r) /\ r = [i \in 1 .. Len(r) |-> r[i]]
  BY <1>1, <1>3, LenProperties
<1>5. r \in Seq(Range(r))
  BY <1>3, <1>4, IsList
<1> QED BY <1>3, <1>4, <1>5 DEF r

(* The new people are appended.                                            *)
LEMMA AppendKeeps ==
  ASSUME Apart, Inv, AppendPeople
  PROVE  Inv' /\ \A i \in DOMAIN people : i \in DOMAIN people' /\ people'[i] = people[i]
<1>1. job.at = "append" /\ job # Idle
  BY DEF AppendPeople, Idle
<1>2. /\ job = [at |-> job.at, creates |-> job.creates, updates |-> job.updates, done |-> job.done]
      /\ job.done = 0 /\ job.updates \in Seq(Range(job.updates))
      /\ job.creates \in Seq(Range(job.creates)) /\ result # "ok"
  BY <1>1 DEF Inv, JobIs
<1>3. people' = people \o job.creates
  BY DEF Apart, AppendPeople
<1>4. Grown = people'
  BY <1>1, <1>3 DEF Grown
<1>5. job' = [at |-> Stage(<< >>, job.updates), creates |-> job.creates, updates |-> job.updates, done |-> 0]
  BY <1>2 DEF AppendPeople
<1>6. /\ job'.at = Stage(<< >>, job.updates) /\ job'.creates = job.creates
      /\ job'.updates = job.updates /\ job'.done = 0
  BY <1>5
<1>7. job'.at = IF job.updates # << >> THEN "nombre" ELSE "verify"
  BY <1>6 DEF Stage
<1>8. Grown' = people'
  BY <1>7 DEF Grown
<1>9. \A i \in DOMAIN people : i \in DOMAIN people' /\ people'[i] = people[i]
  <2>1. people \in Seq(Range(people))
    BY DEF Inv, Sound
  <2> QED BY <1>2, <1>3, <2>1, GrownIs
<1>10. JobIs'
  <2>1. job.updates # << >> => 0 < Len(job.updates)
    BY <1>2, EmptySeq, LenProperties
  <2>2. result' = result
    BY DEF AppendPeople
  <2>3. job'.at \in {"nombre", "verify"} /\ (job'.at = "nombre" => 0 < Len(job.updates))
    BY <1>7, <2>1
  <2> QED BY <1>2, <1>5, <1>6, <2>2, <2>3 DEF JobIs
<1>11. UNCHANGED <<roster, columns, result>>
  BY DEF AppendPeople
<1>12. RosterIs' /\ Enrolled' = Enrolled
  BY <1>11, RosterSame DEF Inv
<1>13. Sound(columns, people)' /\ Sound(columns, Grown)'
  BY <1>4, <1>8, <1>11 DEF Inv
<1>14. Planned'
  <2>1. /\ \A p \in Enrolled : roster[p].correo \in EmailsOf[p]
        /\ \E home \in [Enrolled -> DOMAIN Grown] : Housed(home) /\ Due(home)
    BY <1>1 DEF Inv, Planned
  <2>2. PICK home \in [Enrolled -> DOMAIN Grown] : Housed(home) /\ Due(home)
    BY <2>1
  <2>3. Housed(home)'
    BY <1>4, <1>8, <1>11, <1>12, <2>2 DEF Housed, Home, Declared
  <2>4. Due(home)'
    BY <1>4, <1>6, <1>8, <1>9, <1>11, <1>12, <2>2 DEF Due, Holds, Declared
  <2>5. Grown' = Grown
    BY <1>4, <1>8
  <2>6. home \in [Enrolled -> DOMAIN Grown]'
    BY <1>12, <2>5
  <2>7. \E h \in [Enrolled -> DOMAIN Grown]' : Housed(h)' /\ Due(h)'
    BY <2>3, <2>4, <2>6
  <2> QED BY <1>11, <1>12, <2>1, <2>7 DEF Planned
<1>15. Done'
  BY <1>2, <1>11 DEF Done
<1> QED BY <1>9, <1>10, <1>12, <1>13, <1>14, <1>15 DEF Inv

(* A cell written leaves a row, with its id.                               *)
LEMMA CellIs ==
  ASSUME NEW row, IsRow(row), NEW to, to.nombre # None,
         NEW field \in {"nombre", "correo", "aliases"}, NEW new, new = [row EXCEPT ![field] = to[field]]
  PROVE  /\ IsRow(new) /\ new.id = row.id /\ new.role = row.role
         /\ new.nombre \in {row.nombre, to.nombre} /\ new.correo \in {row.correo, to.correo}
         /\ new.aliases \in {row.aliases, to.aliases}
<1>1. CASE field = "nombre"
  BY <1>1 DEF IsRow
<1>2. CASE field = "correo"
  BY <1>2 DEF IsRow
<1>3. CASE field = "aliases"
  BY <1>3 DEF IsRow
<1> QED BY <1>1, <1>2, <1>3

(* A cell is written: of the row of somebody, with what the roster says of *)
(* them.                                                                   *)
LEMMA WriteIs ==
  ASSUME Apart, Inv, WriteCell
  PROVE  \E p \in Enrolled, i \in DOMAIN people : \E row :
           /\ job.at \in {"nombre", "correo", "aliases"} /\ job # Idle /\ Grown = people
           /\ Belongs(people[i], p) /\ Belongs(row, p) /\ IsRow(row)
           /\ row.id = people[i].id /\ row.role = people[i].role
           /\ row.correo \in {people[i].correo, roster[p].correo}
           /\ Holds(people[i], p) => Holds(row, p)
           /\ people' = [people EXCEPT ![i] = row]
           /\ \A home \in [Enrolled -> DOMAIN people] :
                Housed(home) /\ Due(home) => home[p] = i
<1> DEFINE u == job.updates[job.done + 1]
<1>1. PICK field \in {"nombre", "correo", "aliases"} :
        job.at = field /\ people' = [people EXCEPT ![u.row] = [@ EXCEPT ![field] = u.to[field]]]
  BY DEF WriteCell, Write
<1>2. job # Idle /\ Grown = people
  BY <1>1 DEF Idle, Grown
<1>3. job.updates \in Seq(Range(job.updates)) /\ job.done \in Nat /\ job.done < Len(job.updates)
  BY <1>1, <1>2 DEF Inv, JobIs
<1>4. u \in Range(job.updates)
  <2>1. job.done + 1 \in DOMAIN job.updates
    BY <1>3, ListIs
  <2> QED BY <2>1 DEF Range
<1> HIDE DEF u
<1>5. PICK home \in [Enrolled -> DOMAIN people] : Housed(home) /\ Due(home)
  BY <1>2 DEF Inv, Planned
<1>6. /\ u.row \in DOMAIN people
      /\ \E p \in Enrolled : u.row = home[p] /\ Holds(u.to, p) /\ u.to.aliases \subseteq NamesOf[p]
  BY <1>4, <1>5 DEF Due
<1>7. PICK p \in Enrolled : u.row = home[p] /\ Holds(u.to, p) /\ u.to.aliases \subseteq NamesOf[p]
  BY <1>6
<1> DEFINE i == u.row
           row == [people[i] EXCEPT ![field] = u.to[field]]
<1>8. p \in Person /\ roster[p].nombre \in NamesOf[p] /\ roster[p].correo \in EmailsOf[p]
  BY <1>2, EnrolledIs DEF Inv, Planned
<1>9. u.to.nombre = roster[p].nombre /\ u.to.correo = roster[p].correo /\ u.to.nombre # None
  BY <1>7, <1>8 DEF Holds, Apart
<1>10. IsRow(people[i]) /\ Belongs(people[i], p)
  BY <1>2, <1>5, <1>6, <1>7 DEF Inv, Sound, Housed, Home
<1>11. /\ IsRow(row) /\ row.id = people[i].id /\ row.role = people[i].role
       /\ row.nombre \in {people[i].nombre, u.to.nombre} /\ row.correo \in {people[i].correo, u.to.correo}
       /\ row.aliases \in {people[i].aliases, u.to.aliases}
  BY <1>9, <1>10, CellIs
<1>12. people' = [people EXCEPT ![i] = row]
  BY <1>1
<1> HIDE DEF row
<1>13. Belongs(row, p)
  BY <1>7, <1>8, <1>9, <1>10, <1>11 DEF Belongs
<1>14. Holds(people[i], p) => Holds(row, p)
  BY <1>7, <1>11 DEF Holds
<1>15. ASSUME NEW other \in [Enrolled -> DOMAIN people], Housed(other), Due(other)
       PROVE  other[p] = i
  <2>1. PICK q \in Enrolled : i = other[q]
    BY <1>4, <1>15 DEF Due
  <2>2. Belongs(people[i], q) /\ q \in Person
    BY <1>2, <1>15, <2>1 DEF Housed, Home, Enrolled
  <2>3. q = p
    BY <1>8, <1>10, <2>2, OneOwner
  <2> QED BY <2>1, <2>3
<1> HIDE DEF i
<1>16. i \in DOMAIN people
  BY <1>6 DEF i
<1>17. \A other \in [Enrolled -> DOMAIN people] : Housed(other) /\ Due(other) => other[p] = i
  BY <1>15 DEF i
<1>18. /\ job.at \in {"nombre", "correo", "aliases"} /\ job # Idle /\ Grown = people
       /\ Belongs(people[i], p) /\ Belongs(row, p) /\ IsRow(row)
       /\ row.id = people[i].id /\ row.role = people[i].role
       /\ row.correo \in {people[i].correo, roster[p].correo}
       /\ Holds(people[i], p) => Holds(row, p)
       /\ people' = [people EXCEPT ![i] = row]
  BY <1>1, <1>2, <1>9, <1>10, <1>11, <1>12, <1>13, <1>14 DEF i
<1> QED BY <1>16, <1>17, <1>18

(* Writing a cell keeps the invariant, and whose rows there are.           *)
LEMMA WriteKeeps ==
  ASSUME Apart, Inv, WriteCell
  PROVE  /\ Inv'
         /\ \A i \in DOMAIN people :
              /\ i \in DOMAIN people' /\ people'[i].id = people[i].id /\ people'[i].role = people[i].role
              /\ \A q \in Person : Belongs(people[i], q) => Belongs(people'[i], q)
<1>0. PICK p \in Enrolled, i \in DOMAIN people : \E row :
           /\ job.at \in {"nombre", "correo", "aliases"} /\ job # Idle /\ Grown = people
           /\ Belongs(people[i], p) /\ Belongs(row, p) /\ IsRow(row)
           /\ row.id = people[i].id /\ row.role = people[i].role
           /\ row.correo \in {people[i].correo, roster[p].correo}
           /\ Holds(people[i], p) => Holds(row, p)
           /\ people' = [people EXCEPT ![i] = row]
           /\ \A home \in [Enrolled -> DOMAIN people] :
                Housed(home) /\ Due(home) => home[p] = i
  BY WriteIs
<1>1. PICK row :
           /\ job.at \in {"nombre", "correo", "aliases"} /\ job # Idle /\ Grown = people
           /\ Belongs(people[i], p) /\ Belongs(row, p) /\ IsRow(row)
           /\ row.id = people[i].id /\ row.role = people[i].role
           /\ row.correo \in {people[i].correo, roster[p].correo}
           /\ Holds(people[i], p) => Holds(row, p)
           /\ people' = [people EXCEPT ![i] = row]
           /\ \A home \in [Enrolled -> DOMAIN people] :
                Housed(home) /\ Due(home) => home[p] = i
  BY <1>0
<1>2. UNCHANGED <<roster, columns, result>>
  BY DEF WriteCell
<1>3. RosterIs' /\ Enrolled' = Enrolled
  BY <1>2, RosterSame DEF Inv
<1>4. p \in Person /\ Sound(columns, people)
  BY DEF Inv, Enrolled
<1>5. Coherent(columns, row)
  <2>1. ASSUME "participant_id" \in columns, NEW q \in Person, row.id = IdOf[q] PROVE q = p
    <3>1. Belongs(people[i], q)
      BY <1>1, <1>4, <2>1 DEF Sound, Coherent, Touches
    <3> QED BY <1>1, <1>4, <3>1, OneOwner
  <2> QED BY <1>1, <1>4, <2>1, OwnedCoherent
<1>6. /\ Sound(columns, people') /\ DOMAIN people' = DOMAIN people
      /\ \A j \in DOMAIN people : people'[j] = IF j = i THEN row ELSE people[j]
  BY <1>1, <1>4, <1>5, ExchangedIs
<1>7. ASSUME NEW j \in DOMAIN people
      PROVE  /\ j \in DOMAIN people' /\ people'[j].id = people[j].id /\ people'[j].role = people[j].role
             /\ \A q \in Person : Belongs(people[j], q) => Belongs(people'[j], q)
  <2>1. CASE j = i
    <3>1. people'[j] = row
      BY <1>6, <2>1
    <3>2. \A q \in Person : Belongs(people[i], q) => q = p
      BY <1>1, <1>4, OneOwner
    <3> QED BY <1>1, <1>6, <2>1, <3>1, <3>2
  <2>2. CASE j # i
    BY <1>6, <2>2
  <2> QED BY <2>1, <2>2
<1>8. /\ job = [at |-> job.at, creates |-> job.creates, updates |-> job.updates, done |-> job.done]
      /\ job.done \in Nat /\ job.updates \in Seq(Range(job.updates)) /\ job.done < Len(job.updates)
      /\ result # "ok"
  BY <1>1 DEF Inv, JobIs
<1>9. /\ job' = [at |-> job'.at, creates |-> job.creates, updates |-> job.updates, done |-> job'.done]
      /\ job'.at \in {"nombre", "correo", "aliases", "verify"} /\ job'.done \in Nat
      /\ job'.at \in {"nombre", "correo", "aliases"} => job'.done < Len(job.updates)
  <2>1. CASE Write("nombre", "correo")
    <3>1. job' = [at |-> "correo", creates |-> job.creates, updates |-> job.updates, done |-> job.done]
      BY <1>8, <2>1 DEF Write
    <3> QED BY <1>8, <3>1
  <2>2. CASE Write("correo", "aliases")
    <3>1. job' = [at |-> "aliases", creates |-> job.creates, updates |-> job.updates, done |-> job.done]
      BY <1>8, <2>2 DEF Write
    <3> QED BY <1>8, <3>1
  <2>3. CASE Write("aliases", "nombre")
    <3> DEFINE at == IF job.done + 1 < Len(job.updates) THEN "nombre" ELSE "verify"
    <3>1. job' = [at |-> at, creates |-> job.creates, updates |-> job.updates, done |-> job.done + 1]
      BY <1>8, <2>3 DEF Write
    <3> QED BY <1>8, <3>1
  <2> QED BY <2>1, <2>2, <2>3 DEF WriteCell
<1>10. job'.creates = job.creates /\ job'.updates = job.updates /\ job'.at # "append"
  BY <1>9
<1>11. Grown' = people'
  BY <1>10 DEF Grown
<1>12. JobIs'
  BY <1>2, <1>8, <1>9, <1>10 DEF JobIs
<1>13. Planned'
  <2>1. \A q \in Enrolled : roster[q].correo \in EmailsOf[q]
    BY <1>1 DEF Inv, Planned
  <2>2. PICK home \in [Enrolled -> DOMAIN people] : Housed(home) /\ Due(home)
    BY <1>1 DEF Inv, Planned
  <2>3. home[p] = i
    BY <1>1, <2>2
  <2>4. ASSUME NEW q \in Enrolled PROVE Home(people, q, home[q])'
    <3>1. Home(people, q, home[q]) /\ q \in Person /\ home[q] \in DOMAIN people
      BY <1>1, <2>2, <2>4 DEF Housed, Enrolled
    <3>2. home[q] \in DOMAIN people' /\ Belongs(people'[home[q]], q)
      BY <1>7, <3>1 DEF Home
    <3>3. Declared("participant_id") => people'[home[q]].id = IdOf[q]
      BY <1>7, <3>1 DEF Home
    <3>4. ASSUME ~Declared("participant_id"), NEW j \in DOMAIN people', people'[j].correo = roster[q].correo
          PROVE  j = home[q]
      <4>1. CASE j # i \/ row.correo = people[i].correo
        BY <1>6, <3>1, <3>4, <4>1 DEF Home
      <4>2. CASE j = i /\ row.correo = roster[p].correo
        <5>1. roster[p].correo = roster[q].correo
          BY <1>6, <3>4, <4>2
        <5>2. p = q
          BY <1>4, <2>1, <3>1, <5>1 DEF Apart
        <5> QED BY <2>3, <4>2, <5>2
      <4> QED BY <1>1, <4>1, <4>2
    <3> QED BY <1>2, <3>2, <3>3, <3>4 DEF Home, Declared
  <2>5. Housed(home)'
    BY <1>3, <1>11, <2>4 DEF Housed
  <2>6. ASSUME NEW q \in Enrolled
        PROVE  Holds(people'[home[q]], q) \/ \E u \in Range(job.updates) : u.row = home[q]
    <3>1. Holds(people[home[q]], q) \/ \E u \in Range(job.updates) : u.row = home[q]
      BY <1>1, <2>2, <2>6 DEF Due
    <3>2. CASE Holds(people[home[q]], q) /\ home[q] # i
      BY <1>6, <3>2
    <3>3. CASE Holds(people[home[q]], q) /\ home[q] = i
      <4>1. Belongs(people[i], q) /\ q \in Person
        BY <1>1, <2>2, <3>3 DEF Housed, Home, Enrolled
      <4>2. q = p
        BY <1>1, <1>4, <4>1, OneOwner
      <4> QED BY <1>1, <1>6, <3>3, <4>2
    <3> QED BY <3>1, <3>2, <3>3
  <2>7. ASSUME NEW u \in Range(job.updates)
        PROVE  /\ u.row \in DOMAIN people' /\ u.id = people'[u.row].id
               /\ \E q \in Enrolled : u.row = home[q] /\ Holds(u.to, q) /\ u.to.aliases \subseteq NamesOf[q]
    <3>1. /\ u.row \in DOMAIN people /\ u.id = people[u.row].id
          /\ \E q \in Enrolled : u.row = home[q] /\ Holds(u.to, q) /\ u.to.aliases \subseteq NamesOf[q]
      BY <2>2, <2>7 DEF Due
    <3> QED BY <1>7, <3>1
  <2>8. Due(home)'
    BY <1>2, <1>3, <1>10, <1>11, <2>6, <2>7 DEF Due, Holds, Declared
  <2>9. \E h \in [Enrolled -> DOMAIN Grown]' : Housed(h)' /\ Due(h)'
    <3>1. home \in [Enrolled -> DOMAIN Grown]'
      BY <1>3, <1>6, <1>11
    <3> QED BY <2>5, <2>8, <3>1
  <2> QED BY <1>2, <1>3, <2>1, <2>9 DEF Planned
<1>14. Done'
  BY <1>2, <1>8 DEF Done
<1>15. Sound(columns, people)' /\ Sound(columns, Grown)'
  BY <1>2, <1>6, <1>11
<1> QED BY <1>3, <1>7, <1>12, <1>13, <1>14, <1>15 DEF Inv

(* The sheet is found to say what was planned.                             *)
LEMMA VerifyKeeps == ASSUME Apart, Inv, Verify PROVE Inv'
<1>1. /\ job.at = "verify" /\ job # Idle /\ job' = Idle /\ UNCHANGED <<roster, columns, people>>
      /\ Grown = people
  BY DEF Verify, Idle, Grown
<1>2. RosterIs' /\ Enrolled' = Enrolled
  BY <1>1, RosterSame DEF Inv
<1>3. Grown' = people'
  BY <1>1 DEF Grown, Idle
<1>4. Sound(columns, people)' /\ Sound(columns, Grown)'
  BY <1>1, <1>3 DEF Inv
<1>5. JobIs' /\ Planned'
  BY <1>1 DEF JobIs, Planned
<1>6. Done'
  <2> SUFFICES ASSUME result' = "ok"
               PROVE  \E home \in [Enrolled -> DOMAIN Grown]' :
                        Housed(home)' /\ \A p \in Enrolled' : Holds(people[home[p]], p)'
    BY DEF Done
  <2>1. \A u \in Range(job.updates) :
          WithId(u.id) # {} /\ Agrees(people[Min(WithId(u.id))], u.to)
    BY DEF Verify
  <2>2. PICK home \in [Enrolled -> DOMAIN people] : Housed(home) /\ Due(home)
    BY <1>1 DEF Inv, Planned
  <2>3. Filled = DOMAIN people /\ Filled \subseteq Nat
    BY FilledIs DEF Inv
  <2>4. ASSUME NEW p \in Enrolled PROVE Holds(people[home[p]], p)
    <3>1. CASE Holds(Grown[home[p]], p)
      BY <1>1, <3>1
    <3>2. CASE \E u \in Range(job.updates) : u.row = home[p]
      <4>1. PICK u \in Range(job.updates) : u.row = home[p]
        BY <3>2
      <4>2. u.row \in DOMAIN people /\ u.id = people[u.row].id
        BY <2>2 DEF Due
      <4>3. PICK q \in Enrolled : u.row = home[q] /\ Holds(u.to, q)
        BY <2>2 DEF Due
      <4>4. p \in Person /\ q \in Person /\ Belongs(people[u.row], p) /\ Belongs(people[u.row], q)
        BY <1>1, <2>2, <2>4, <4>1, <4>3 DEF Housed, Home, Enrolled
      <4>5. q = p
        BY <4>4, OneOwner
      <4>6. WithId(u.id) = {u.row}
        BY <2>3, <4>2 DEF WithId, Inv, Sound
      <4>7. Min({u.row}) = u.row
        BY <2>3, <4>2 DEF Min
      <4>8. Agrees(people[u.row], u.to)
        BY <2>1, <4>6, <4>7
      <4> QED BY <4>1, <4>3, <4>5, <4>8 DEF Agrees, Holds
    <3> QED BY <2>2, <2>4, <3>1, <3>2 DEF Due
  <2>5. Housed(home)'
    BY <1>1, <1>2, <1>3, <2>2 DEF Housed, Home, Declared
  <2>6. \A p \in Enrolled' : Holds(people[home[p]], p)'
    BY <1>1, <1>2, <2>4 DEF Holds, Declared
  <2>7. home \in [Enrolled -> DOMAIN Grown]'
    BY <1>1, <1>2, <1>3
  <2> QED BY <2>5, <2>6, <2>7
<1> QED BY <1>2, <1>4, <1>5, <1>6 DEF Inv

(* What a refresh leaves when it dies is as sound as what it found.        *)
LEMMA FailKeeps == ASSUME Inv, Fail PROVE Inv'
<1>1. job' = Idle /\ result' = "failed" /\ UNCHANGED <<roster, columns, people>>
  BY DEF Fail
<1>2. RosterIs'
  BY <1>1, RosterSame DEF Inv
<1>3. Grown' = people'
  BY <1>1 DEF Grown, Idle
<1>4. Sound(columns, people)' /\ Sound(columns, Grown)'
  BY <1>1, <1>3 DEF Inv
<1>5. JobIs' /\ Planned' /\ Done'
  BY <1>1 DEF JobIs, Planned, Done
<1> QED BY <1>2, <1>4, <1>5 DEF Inv

-----------------------------------------------------------------------------
(* Planning.                                                               *)

(* A set that has not more than one element.                               *)
LEMMA AtMostOne ==
  ASSUME NEW S, IsFiniteSet(S), ~(Cardinality(S) > 1), S # {}
  PROVE  S = {CHOOSE x \in S : TRUE}
<1>1. Cardinality(S) \in Nat /\ Cardinality(S) # 0
  BY FS_CardinalityType, FS_EmptySet
<1>2. Cardinality(S) = 1
  BY <1>1
<1>3. PICK x : S = {x}
  BY <1>2, FS_Singleton
<1> QED BY <1>3

(* What is decided of a record nobody has to review.                       *)
LEMMA ActionIs ==
  ASSUME Apart, RosterIs, Sound(columns, people), ~Reviews, NEW p \in Enrolled
  PROVE  \/ Action(p) = "CREATE" /\ Matches(p) = {} /\ WithId(StableId(p)) = {}
         \/ /\ Action(p) \in {"MATCH", "UPDATE"} /\ Matches(p) = {Target(p)}
            /\ Target(p) \in DOMAIN people /\ Belongs(people[Target(p)], p)
            /\ Action(p) = "MATCH" => Agrees(people[Target(p)], Preserved(p))
<1>1. ~NeedsReview(p)
  BY DEF Reviews
<1>2. roster[p].correo \in EmailsOf[p]
  BY NotReviewed
<1>3. IsFiniteSet(Matches(p)) /\ \A i \in Matches(p) : i \in DOMAIN people /\ Belongs(people[i], p)
  BY <1>2, RecognisedIs
<1>4. CASE Matches(p) = {}
  BY <1>1, <1>4 DEF Action, NeedsReview
<1>5. CASE Matches(p) # {}
  <2>1. Matches(p) = {Target(p)}
    BY <1>1, <1>3, <1>5, AtMostOne DEF NeedsReview, Target
  <2>2. Action(p) = IF Agrees(people[Target(p)], Preserved(p)) THEN "MATCH" ELSE "UPDATE"
    BY <1>1, <1>5 DEF Action
  <2> QED BY <1>3, <2>1, <2>2
<1> QED BY <1>4, <1>5

(* Whom the plan is going to add and whose row to change, and how.         *)
Created == Decided("CREATE")
Updated == Decided("UPDATE")
Additions == Creates(Created)
Corrections == UpdatesById(Updated)

(* Some of the people can be listed in the order of the roster.            *)
LEMMA ListedIs ==
  ASSUME NEW S, S \subseteq Enrolled
  PROVE  /\ Cardinality(S) \in Nat /\ Ascending(S) \in [1 .. Cardinality(S) -> S]
         /\ \A p \in S : \E k \in 1 .. Cardinality(S) : Ascending(S)[k] = p
         /\ \A j, k \in 1 .. Cardinality(S) : Ascending(S)[j] = Ascending(S)[k] => j = k
<1>1. S \subseteq Person /\ Person \subseteq Nat /\ IsFiniteSet(Person)
  BY RosterAssumption DEF Enrolled
<1>2. IsFiniteSet(S) /\ S \subseteq Int /\ S \subseteq Nat
  <2>1. S \in SUBSET Person
    BY <1>1
  <2>2. IsFiniteSet(S)
    BY <1>1, <2>1, FS_Subset
  <2> QED BY <1>1, <2>2
<1> DEFINE n == Cardinality(S)
           at == Ascending(S)
<1>3. n \in Nat /\ IncreasingList(at, n, S)
  BY <1>2, SortedList
<1> HIDE DEF n, at
<1>4. /\ at \in [1 .. n -> S] /\ \A p \in S : \E k \in 1 .. n : at[k] = p
      /\ \A j, k \in 1 .. n : j < k <=> at[j] < at[k]
  BY <1>3 DEF IncreasingList
<1>5. ASSUME NEW j \in 1 .. n, NEW k \in 1 .. n, at[j] = at[k] PROVE j = k
  <2>0. at[j] \in Nat /\ at[k] \in Nat
    BY <1>2, <1>4
  <2>1. ~(at[j] < at[k]) /\ ~(at[k] < at[j])
    BY <1>5, <2>0
  <2>2. ~(j < k) /\ ~(k < j)
    BY <1>4, <2>1
  <2> QED BY <2>2
<1> QED BY <1>3, <1>4, <1>5 DEF n, at

(* The row made for somebody new is theirs, and agrees with the roster.    *)
LEMMA NewRowIs ==
  ASSUME Apart, RosterIs, Sound(columns, people), ~Reviews, NEW p \in Created
  PROVE  /\ IsRow(NewRow(p)) /\ Belongs(NewRow(p), p) /\ Holds(NewRow(p), p)
         /\ NewRow(p).id = StableId(p) /\ Coherent(columns, NewRow(p))
         /\ Declared("participant_id") => NewRow(p).id = IdOf[p]
         /\ NewRow(p).correo = roster[p].correo
<1>1. p \in Enrolled /\ p \in Person
  BY DEF Created, Decided, Enrolled
<1>2. roster[p].correo \in EmailsOf[p] /\ roster[p].nombre \in NamesOf[p]
  BY <1>1, NotReviewed, EnrolledIs
<1>3. Holds(Preserved(p), p) /\ Preserved(p).aliases \subseteq NamesOf[p]
  BY <1>1, <1>2, PreservedIs
<1> DEFINE row == NewRow(p)
<1>4. row = [id |-> StableId(p), nombre |-> Preserved(p).nombre, correo |-> Preserved(p).correo,
             aliases |-> Preserved(p).aliases, role |-> "participant"]
  BY DEF NewRow
<1>5. /\ row.id = StableId(p) /\ row.nombre = Preserved(p).nombre /\ row.correo = Preserved(p).correo
      /\ row.aliases = Preserved(p).aliases /\ row.role = "participant"
  BY <1>4
<1>6. row = [id |-> row.id, nombre |-> row.nombre, correo |-> row.correo, aliases |-> row.aliases, role |-> row.role]
  BY <1>4, <1>5
<1> HIDE DEF row
<1>7. row.nombre = roster[p].nombre /\ row.correo = roster[p].correo /\ row.nombre # None
  BY <1>1, <1>2, <1>3, <1>5 DEF Holds, Apart
<1>8. Belongs(row, p)
  BY <1>2, <1>3, <1>5, <1>7 DEF Belongs
<1>9. Holds(row, p)
  BY <1>3, <1>5, <1>7 DEF Holds
<1>10. Declared("participant_id") => row.id = IdOf[p]
  BY <1>5 DEF StableId
<1>11. Coherent(columns, row)
  <2>1. ASSUME "participant_id" \in columns, NEW q \in Person, row.id = IdOf[q] PROVE q = p
    BY <1>1, <1>10, <2>1 DEF Declared, Apart
  <2> QED BY <1>1, <1>8, <2>1, OwnedCoherent
<1>12. IsRow(row)
  BY <1>6, <1>7 DEF IsRow
<1> QED BY <1>5, <1>7, <1>8, <1>9, <1>10, <1>11, <1>12 DEF row

(* The new rows are those of the people to be created, one of each.        *)
LEMMA CreatesAre ==
  ASSUME NEW n, n = Cardinality(Created), NEW who, who = Ascending(Created)
  PROVE  /\ n \in Nat /\ who \in [1 .. n -> Created]
         /\ \A p \in Created : \E k \in 1 .. n : who[k] = p
         /\ \A j, k \in 1 .. n : who[j] = who[k] => j = k
         /\ Additions \in Seq(Range(Additions)) /\ Len(Additions) = n
         /\ \A k \in 1 .. n : Additions[k] = NewRow(who[k])
<1>1. /\ n \in Nat /\ who \in [1 .. n -> Created]
      /\ \A p \in Created : \E k \in 1 .. n : who[k] = p
      /\ \A j, k \in 1 .. n : who[j] = who[k] => j = k
  BY ListedIs DEF Created, Decided
<1>2. Additions = [k \in DOMAIN who |-> NewRow(who[k])]
  BY DEF Additions, Creates
<1>3. Additions = [k \in 1 .. n |-> NewRow(who[k])]
  BY <1>1, <1>2
<1>4. \A k \in 1 .. n : Additions[k] = NewRow(who[k])
  BY <1>3
<1>5. Additions = [k \in 1 .. n |-> Additions[k]]
  BY <1>3, <1>4
<1>6. Additions \in Seq(Range(Additions)) /\ Len(Additions) = n
  BY <1>1, <1>5, IsList
<1> QED BY <1>1, <1>4, <1>6

(* The sheet with the new rows.                                            *)
LEMMA WithNewRows ==
  ASSUME Sound(columns, people), NEW n, n = Cardinality(Created), NEW who, who = Ascending(Created),
         NEW m, m = Len(people), NEW grown, grown = people \o Additions
  PROVE  /\ grown \in Seq(Range(grown)) /\ m \in Nat /\ DOMAIN people = 1 .. m /\ DOMAIN grown = 1 .. m + n
         /\ \A i \in 1 .. m : grown[i] = people[i]
         /\ \A k \in 1 .. n : grown[m + k] = NewRow(who[k])
         /\ \A i \in 1 .. m + n : i \in 1 .. m \/ \E k \in 1 .. n : i = m + k
<1>1. /\ Additions \in Seq(Range(Additions)) /\ Len(Additions) = n
      /\ \A k \in 1 .. n : Additions[k] = NewRow(who[k])
  BY CreatesAre
<1>2. people \in Seq(Range(people))
  BY DEF Sound
<1>3. /\ grown \in Seq(Range(grown)) /\ m \in Nat /\ DOMAIN people = 1 .. m /\ DOMAIN grown = 1 .. m + n
      /\ \A i \in 1 .. m : grown[i] = people[i]
      /\ \A k \in 1 .. n : grown[m + k] = Additions[k]
      /\ \A i \in 1 .. m + n : i \in 1 .. m \/ \E k \in 1 .. n : i = m + k
  <2> DEFINE s == people
             t == Additions
  <2>1. s \in Seq(Range(s)) /\ t \in Seq(Range(t))
    BY <1>1, <1>2
  <2>2. m = Len(s) /\ n = Len(t) /\ grown = s \o t
    BY <1>1
  <2>3. DOMAIN people = DOMAIN s /\ (\A i \in 1 .. m : people[i] = s[i]) /\ \A k \in 1 .. n : Additions[k] = t[k]
    OBVIOUS
  <2> HIDE DEF s, t
  <2>4. /\ s \o t \in Seq(Range(s \o t)) /\ Len(s \o t) = Len(s) + Len(t)
        /\ Len(s) \in Nat /\ Len(t) \in Nat
        /\ DOMAIN s = 1 .. Len(s) /\ DOMAIN (s \o t) = 1 .. Len(s) + Len(t)
        /\ \A i \in 1 .. Len(s) : (s \o t)[i] = s[i]
        /\ \A k \in 1 .. Len(t) : (s \o t)[Len(s) + k] = t[k]
        /\ \A i \in 1 .. Len(s) + Len(t) : i \in 1 .. Len(s) \/ \E k \in 1 .. Len(t) : i = Len(s) + k
    BY <2>1, GrownIs
  <2> QED BY <2>2, <2>3, <2>4
<1> QED BY <1>1, <1>3

(* With the new rows the sheet is as sound as before.                      *)
LEMMA GrownSound ==
  ASSUME Apart, RosterIs, Sound(columns, people), ~Reviews
  PROVE  Sound(columns, people \o Additions)
<1> DEFINE n == Cardinality(Created)
           who == Ascending(Created)
           m == Len(people)
           grown == people \o Additions
<1>1. /\ n \in Nat /\ who \in [1 .. n -> Created]
      /\ \A j, k \in 1 .. n : who[j] = who[k] => j = k
  BY CreatesAre
<1>2. /\ grown \in Seq(Range(grown)) /\ m \in Nat /\ DOMAIN people = 1 .. m /\ DOMAIN grown = 1 .. m + n
      /\ \A i \in 1 .. m : grown[i] = people[i]
      /\ \A k \in 1 .. n : grown[m + k] = NewRow(who[k])
      /\ \A i \in 1 .. m + n : i \in 1 .. m \/ \E k \in 1 .. n : i = m + k
  BY WithNewRows
<1> HIDE DEF n, who, m, grown
<1>3. ASSUME NEW i \in DOMAIN grown PROVE IsRow(grown[i]) /\ Coherent(columns, grown[i])
  <2>1. CASE i \in 1 .. m
    BY <1>2, <2>1 DEF Sound
  <2>2. ASSUME NEW k \in 1 .. n, i = m + k PROVE IsRow(grown[i]) /\ Coherent(columns, grown[i])
    <3>1. grown[i] = NewRow(who[k]) /\ who[k] \in Created
      BY <1>1, <1>2, <2>2
    <3> QED BY <3>1, NewRowIs
  <2> QED BY <1>2, <1>3, <2>1, <2>2
<1>4. ASSUME NEW p \in Created PROVE \A i \in 1 .. m : people[i].id # NewRow(p).id
  <2>1. p \in Enrolled /\ Action(p) = "CREATE"
    BY DEF Created, Decided
  <2>2. WithId(StableId(p)) = {}
    BY <2>1, ActionIs
  <2>3. Filled = 1 .. m
    BY <1>2, FilledIs
  <2>4. NewRow(p).id = StableId(p)
    BY NewRowIs
  <2> QED BY <2>2, <2>3, <2>4 DEF WithId
<1>5. ASSUME NEW p \in Created, NEW q \in Created, NewRow(p).id = NewRow(q).id PROVE p = q
  <2>1. p \in Enrolled /\ q \in Enrolled /\ p \in Person /\ q \in Person
    BY DEF Created, Decided, Enrolled
  <2>2. NewRow(p).id = StableId(p) /\ NewRow(q).id = StableId(q)
    BY NewRowIs
  <2>3. CASE Declared("participant_id")
    BY <1>5, <2>1, <2>2, <2>3 DEF StableId, Apart
  <2>4. CASE ~Declared("participant_id")
    <3>1. roster[p].correo = roster[q].correo
      BY <1>5, <2>2, <2>4 DEF StableId
    <3> QED BY <2>1, <3>1, NotReviewed
  <2> QED BY <2>3, <2>4
<1>6. ASSUME NEW i \in DOMAIN grown, NEW j \in DOMAIN grown, grown[i].id = grown[j].id PROVE i = j
  <2>1. CASE i \in 1 .. m /\ j \in 1 .. m
    BY <1>2, <1>6, <2>1 DEF Sound
  <2>2. \A k \in 1 .. n : who[k] \in Created
    BY <1>1
  <2>3. ASSUME NEW k \in 1 .. n, i = m + k, j \in 1 .. m PROVE FALSE
    <3>1. grown[i] = NewRow(who[k]) /\ grown[j] = people[j] /\ who[k] \in Created
      BY <1>2, <2>2, <2>3
    <3> QED BY <1>4, <1>6, <2>3, <3>1
  <2>4. ASSUME NEW k \in 1 .. n, j = m + k, i \in 1 .. m PROVE FALSE
    <3>1. grown[j] = NewRow(who[k]) /\ grown[i] = people[i] /\ who[k] \in Created
      BY <1>2, <2>2, <2>4
    <3> QED BY <1>4, <1>6, <2>4, <3>1
  <2>5. ASSUME NEW k \in 1 .. n, NEW l \in 1 .. n, i = m + k, j = m + l PROVE i = j
    <3>1. grown[i] = NewRow(who[k]) /\ grown[j] = NewRow(who[l])
      BY <1>2, <2>5
    <3>2. who[k] = who[l]
      BY <1>5, <1>6, <2>2, <3>1
    <3> QED BY <1>1, <2>5, <3>2
  <2> QED BY <1>2, <1>6, <2>1, <2>3, <2>4, <2>5
<1> QED BY <1>2, <1>3, <1>6 DEF Sound, grown

(* Whose record agrees with their row already, or is going to.             *)
LEMMA UpdatesAre ==
  ASSUME Apart, RosterIs, Sound(columns, people), ~Reviews
  PROVE  /\ Corrections \in Seq(Range(Corrections))
         /\ \A p \in Updated : \E u \in Range(Corrections) : u.row = Target(p)
         /\ \A u \in Range(Corrections) : \E p \in Updated :
              u = [row |-> Target(p), id |-> people[Target(p)].id, to |-> Preserved(p)]
<1> DEFINE same(p) == {q \in Updated : Target(q) = Target(p)}
           firsts == Ascending({p \in Updated : p = Min(same(p))})
           n == Cardinality(Updated)
           who == Ascending(Updated)
           update(p) == [row |-> Target(p), id |-> people[Target(p)].id, to |-> Preserved(p)]
<1>1. Corrections = [k \in DOMAIN firsts |->
                       [row |-> RowNumber(Target(firsts[k])),
                        id |-> people[Target(firsts[k])].id,
                        to |-> Preserved(Max(same(firsts[k])))]]
  BY DEF Corrections, UpdatesById
<1>2. ASSUME NEW p \in Updated
      PROVE  /\ p \in Enrolled /\ p \in Person /\ p \in Nat
             /\ Target(p) \in DOMAIN people /\ Belongs(people[Target(p)], p)
  <2>1. p \in Enrolled /\ p \in Person /\ p \in Nat /\ Action(p) = "UPDATE"
    BY <1>2, RosterAssumption DEF Updated, Decided, Enrolled
  <2> QED BY <2>1, ActionIs
<1>3. ASSUME NEW p \in Updated PROVE same(p) = {p}
  <2>1. ASSUME NEW q \in Updated, Target(q) = Target(p) PROVE q = p
    BY <1>2, <1>3, <2>1, OneOwner
  <2> QED BY <1>3, <2>1
<1>4. ASSUME NEW p \in Updated PROVE Min(same(p)) = p /\ Max(same(p)) = p
  <2>1. Min({p}) = p /\ Max({p}) = p
    BY <1>2, <1>4 DEF Min, Max
  <2> HIDE DEF same
  <2> QED BY <1>3, <1>4, <2>1
<1>5. ASSUME NEW p \in Updated PROVE RowNumber(Target(p)) = Target(p)
  <2>1. Filled = 1 .. Len(people) /\ Len(people) \in Nat /\ DOMAIN people = 1 .. Len(people)
    BY FilledIs
  <2>2. Target(p) \in 1 .. Len(people)
    BY <1>2, <1>5, <2>1
  <2> DEFINE i == Target(p)
  <2>3. i \in Nat /\ {j \in Filled : j <= i} = 1 .. i
    BY <2>1, <2>2
  <2>4. Cardinality(1 .. i) = i
    <3> HIDE DEF i
    <3> QED BY <2>3, FS_Interval
  <2> QED BY <2>3, <2>4 DEF RowNumber
<1>6. {p \in Updated : p = Min(same(p))} = Updated
  <2> HIDE DEF same
  <2> QED BY <1>4
<1>7. firsts = who
  BY <1>6
<1>8. /\ n \in Nat /\ who \in [1 .. n -> Updated]
      /\ \A p \in Updated : \E k \in 1 .. n : who[k] = p
  BY ListedIs DEF Updated, Decided
<1>9. ASSUME NEW k \in 1 .. n
      PROVE  [row |-> RowNumber(Target(who[k])), id |-> people[Target(who[k])].id,
              to |-> Preserved(Max(same(who[k])))] = update(who[k])
  <2>1. who[k] \in Updated
    BY <1>8, <1>9
  <2>2. RowNumber(Target(who[k])) = Target(who[k]) /\ Max(same(who[k])) = who[k]
    BY <1>4, <1>5, <2>1
  <2> HIDE DEF same, who
  <2> QED BY <2>2
<1>10. Corrections = [k \in 1 .. n |-> update(who[k])]
  <2>1. DOMAIN who = 1 .. n
    BY <1>8
  <2>2. Corrections = [k \in DOMAIN who |->
                       [row |-> RowNumber(Target(who[k])),
                        id |-> people[Target(who[k])].id,
                        to |-> Preserved(Max(same(who[k])))]]
    BY <1>1, <1>7
  <2> HIDE DEF same, who, update, n, firsts
  <2> QED BY <1>9, <2>1, <2>2
<1> HIDE DEF same, who, n, firsts
<1>11. \A k \in 1 .. n : Corrections[k] = update(who[k])
  BY <1>10
<1>12. DOMAIN Corrections = 1 .. n /\ Corrections = [k \in 1 .. n |-> Corrections[k]]
  BY <1>10, <1>11
<1>13. Corrections \in Seq(Range(Corrections))
  BY <1>8, <1>12, IsList
<1>14. ASSUME NEW p \in Updated PROVE \E u \in Range(Corrections) : u.row = Target(p)
  <2>1. PICK k \in 1 .. n : who[k] = p
    BY <1>8, <1>14
  <2>0. Corrections[k] = update(p)
    BY <1>11, <2>1
  <2>2. Corrections[k].row = Target(p)
    BY <2>0
  <2>3. Corrections[k] \in Range(Corrections)
    BY <1>12 DEF Range
  <2> QED BY <2>2, <2>3
<1>15. ASSUME NEW u \in Range(Corrections) PROVE \E p \in Updated : u = update(p)
  <2>1. PICK k \in 1 .. n : u = Corrections[k]
    BY <1>12, <1>15 DEF Range
  <2> QED BY <1>8, <1>11, <2>1
<1> QED BY <1>13, <1>14, <1>15

(* Once everybody new has a row, everybody has one.                        *)
LEMMA HousedIs ==
  ASSUME Apart, RosterIs, Sound(columns, people), ~Reviews
  PROVE  \E home \in [Enrolled -> DOMAIN (people \o Additions)] :
           /\ \A p \in Enrolled : Home(people \o Additions, p, home[p])
           /\ \A p \in Created : Holds((people \o Additions)[home[p]], p)
           /\ \A p \in Enrolled \ Created :
                /\ home[p] = Target(p) /\ Target(p) \in DOMAIN people
                /\ (people \o Additions)[home[p]] = people[Target(p)]
<1> DEFINE n == Cardinality(Created)
           who == Ascending(Created)
           m == Len(people)
           grown == people \o Additions
<1>1. /\ n \in Nat /\ who \in [1 .. n -> Created]
      /\ \A p \in Created : \E k \in 1 .. n : who[k] = p
      /\ \A j, k \in 1 .. n : who[j] = who[k] => j = k
  BY CreatesAre
<1>2. /\ grown \in Seq(Range(grown)) /\ m \in Nat /\ DOMAIN people = 1 .. m /\ DOMAIN grown = 1 .. m + n
      /\ \A i \in 1 .. m : grown[i] = people[i]
      /\ \A k \in 1 .. n : grown[m + k] = NewRow(who[k])
      /\ \A i \in 1 .. m + n : i \in 1 .. m \/ \E k \in 1 .. n : i = m + k
  BY WithNewRows
<1> HIDE DEF n, who, m, grown
<1> DEFINE place(p) == CHOOSE k \in 1 .. n : who[k] = p
           home == [p \in Enrolled |-> IF p \in Created THEN m + place(p) ELSE Target(p)]
<1>3. ASSUME NEW p \in Created
      PROVE  /\ p \in Enrolled /\ home[p] = m + place(p) /\ place(p) \in 1 .. n /\ who[place(p)] = p
             /\ home[p] \in DOMAIN grown /\ grown[home[p]] = NewRow(p)
  <2>1. p \in Enrolled
    BY DEF Created, Decided
  <2>2. place(p) \in 1 .. n /\ who[place(p)] = p
    BY <1>1, <1>3
  <2>3. home[p] = m + place(p)
    BY <1>3, <2>1
  <2> HIDE DEF place, home
  <2> QED BY <1>1, <1>2, <2>1, <2>2, <2>3
<1>4. ASSUME NEW p \in Enrolled, p \notin Created
      PROVE  /\ home[p] = Target(p) /\ Target(p) \in DOMAIN people /\ home[p] \in DOMAIN grown
             /\ grown[home[p]] = people[Target(p)] /\ Matches(p) = {Target(p)}
             /\ Belongs(people[Target(p)], p)
  <2>1. home[p] = Target(p)
    BY <1>4
  <2>2. Matches(p) = {Target(p)} /\ Target(p) \in DOMAIN people /\ Belongs(people[Target(p)], p)
    BY <1>4, ActionIs DEF Created, Decided
  <2> HIDE DEF home
  <2> QED BY <1>1, <1>2, <2>1, <2>2
<1> HIDE DEF place
<1>5. home \in [Enrolled -> DOMAIN grown]
  <2>1. \A p \in Enrolled : home[p] \in DOMAIN grown
    BY <1>3, <1>4
  <2>2. home = [p \in Enrolled |-> home[p]]
    OBVIOUS
  <2> HIDE DEF home
  <2> QED BY <2>1, <2>2
<1> HIDE DEF home
<1>6. Filled = DOMAIN people
  BY FilledIs
<1>7. ASSUME NEW p \in Created PROVE Home(grown, p, home[p]) /\ Holds(grown[home[p]], p)
  <2>1. Belongs(NewRow(p), p) /\ Holds(NewRow(p), p) /\ (Declared("participant_id") => NewRow(p).id = IdOf[p])
    BY NewRowIs
  <2>2. ASSUME ~Declared("participant_id"), NEW j \in DOMAIN grown, grown[j].correo = roster[p].correo
        PROVE  j = home[p]
    <3>1. Matches(p) = {} /\ p \in Enrolled
      BY <1>3, ActionIs DEF Created, Decided
    <3>2. ByEmail(p) = {}
      BY <2>2, <3>1 DEF Matches
    <3>3. j \notin 1 .. m
      BY <1>2, <1>6, <2>2, <3>2 DEF ByEmail
    <3>4. PICK k \in 1 .. n : j = m + k
      BY <1>2, <2>2, <3>3
    <3>5. who[k] \in Created /\ grown[j] = NewRow(who[k])
      BY <1>1, <1>2, <3>4
    <3>6. NewRow(who[k]).correo = roster[who[k]].correo /\ who[k] \in Enrolled
      BY <3>5, NewRowIs DEF Created, Decided
    <3>7. who[k] = p
      BY <2>2, <3>1, <3>5, <3>6, NotReviewed
    <3>8. k = place(p)
      BY <1>1, <1>3, <3>7
    <3> QED BY <1>3, <3>4, <3>8
  <2> QED BY <1>3, <2>1, <2>2 DEF Home
<1>8. ASSUME NEW p \in Enrolled, p \notin Created PROVE Home(grown, p, home[p])
  <2>1. ASSUME Declared("participant_id") PROVE people[Target(p)].id = IdOf[p]
    <3>1. Matches(p) = WithId(IdOf[p])
      BY <2>1 DEF Matches
    <3>2. Target(p) \in WithId(IdOf[p])
      BY <1>4, <1>8, <3>1
    <3> QED BY <3>2 DEF WithId
  <2>2. ASSUME ~Declared("participant_id"), NEW j \in DOMAIN grown, grown[j].correo = roster[p].correo
        PROVE  j = home[p]
    <3>1. CASE j \in 1 .. m
      <4>1. j \in ByEmail(p)
        BY <1>2, <1>6, <2>2, <3>1 DEF ByEmail
      <4>2. Matches(p) = ByEmail(p)
        BY <2>2, <4>1 DEF Matches
      <4> QED BY <1>4, <1>8, <4>1, <4>2
    <3>2. ASSUME NEW k \in 1 .. n, j = m + k PROVE FALSE
      <4>1. who[k] \in Created /\ grown[j] = NewRow(who[k])
        BY <1>1, <1>2, <3>2
      <4>2. NewRow(who[k]).correo = roster[who[k]].correo /\ who[k] \in Enrolled
        BY <4>1, NewRowIs DEF Created, Decided
      <4>3. who[k] = p
        BY <1>8, <2>2, <4>1, <4>2, NotReviewed
      <4> QED BY <1>8, <4>1, <4>3
    <3> QED BY <1>2, <2>2, <3>1, <3>2
  <2> QED BY <1>4, <1>8, <2>1, <2>2 DEF Home
<1> QED BY <1>4, <1>5, <1>7, <1>8 DEF grown
(* A plan is made, by which everybody has a row that agrees with the       *)
(* roster or is going to.                                                  *)
LEMMA PlanKeeps == ASSUME Apart, Inv, Plan PROVE Inv'
<1>1. job = Idle /\ UNCHANGED <<roster, columns, people>>
  BY DEF Plan
<1>2. RosterIs' /\ Enrolled' = Enrolled /\ RosterIs /\ Sound(columns, people)
  BY <1>1, RosterSame DEF Inv
<1>3. CASE Damaged \/ Reviews
  <2>1. job' = Idle /\ result' = "refused"
    BY <1>1, <1>3 DEF Plan
  <2>2. Grown' = people'
    BY <2>1 DEF Grown, Idle
  <2>3. Sound(columns, people)' /\ Sound(columns, Grown)'
    BY <1>1, <1>2, <2>2
  <2>4. JobIs' /\ Planned' /\ Done'
    BY <2>1 DEF JobIs, Planned, Done
  <2> QED BY <1>2, <2>3, <2>4 DEF Inv
<1>4. CASE ~Damaged /\ ~Reviews
  <2>1. /\ job' = [at |-> Stage(Additions, Corrections), creates |-> Additions, updates |-> Corrections, done |-> 0]
        /\ result' = "none"
    BY <1>4 DEF Plan, Created, Updated, Additions, Corrections
  <2>2. /\ job'.at = Stage(Additions, Corrections) /\ job'.creates = Additions
        /\ job'.updates = Corrections /\ job'.done = 0
    BY <2>1
  <2>3. job'.at = IF Additions # << >> THEN "append" ELSE IF Corrections # << >> THEN "nombre" ELSE "verify"
    BY <2>2 DEF Stage
  <2>4. Additions \in Seq(Range(Additions)) /\ Corrections \in Seq(Range(Corrections))
    BY <1>2, <1>4, CreatesAre, UpdatesAre
  <2>5. Grown' = people \o Additions
    <3>1. people \in Seq(Range(people))
      BY <1>2 DEF Sound
    <3>2. people \o << >> = people
      BY <3>1, ConcatEmptySeq
    <3> QED BY <1>1, <2>2, <2>3, <3>2 DEF Grown
  <2>6. JobIs'
    <3>1. Corrections # << >> => 0 < Len(Corrections)
      BY <2>4, EmptySeq, LenProperties
    <3> QED BY <2>1, <2>2, <2>3, <2>4, <3>1 DEF JobIs
  <2>7. Sound(columns, people)' /\ Sound(columns, Grown)'
    BY <1>1, <1>2, <1>4, <2>5, GrownSound
  <2>8. PICK home \in [Enrolled -> DOMAIN (people \o Additions)] :
           /\ \A p \in Enrolled : Home(people \o Additions, p, home[p])
           /\ \A p \in Created : Holds((people \o Additions)[home[p]], p)
           /\ \A p \in Enrolled \ Created :
                /\ home[p] = Target(p) /\ Target(p) \in DOMAIN people
                /\ (people \o Additions)[home[p]] = people[Target(p)]
    BY <1>2, <1>4, HousedIs
  <2>9. Housed(home)'
    BY <1>1, <1>2, <2>5, <2>8 DEF Housed, Home, Declared
  <2>10. ASSUME NEW p \in Enrolled
         PROVE  Holds((people \o Additions)[home[p]], p) \/ \E u \in Range(Corrections) : u.row = home[p]
    <3>1. CASE p \in Created
      BY <2>8, <3>1
    <3>2. CASE p \notin Created
      <4>1. /\ home[p] = Target(p) /\ (people \o Additions)[home[p]] = people[Target(p)]
            /\ Action(p) # "CREATE"
        BY <2>8, <2>10, <3>2 DEF Created, Decided
      <4>2. Action(p) \in {"MATCH", "UPDATE"} /\ (Action(p) = "MATCH" => Agrees(people[Target(p)], Preserved(p)))
        BY <1>2, <1>4, <4>1, ActionIs
      <4>3. Holds(Preserved(p), p)
        BY <1>2, <1>4, NotReviewed, PreservedIs
      <4>4. CASE Action(p) = "MATCH"
        BY <4>1, <4>2, <4>3, <4>4 DEF Agrees, Holds
      <4>5. CASE Action(p) = "UPDATE"
        BY <1>2, <1>4, <4>1, <4>5, UpdatesAre DEF Updated, Decided
      <4> QED BY <4>2, <4>4, <4>5
    <3> QED BY <3>1, <3>2
  <2>11. ASSUME NEW u \in Range(Corrections)
         PROVE  /\ u.row \in DOMAIN people /\ u.id = people[u.row].id
                /\ \E p \in Enrolled : u.row = home[p] /\ Holds(u.to, p) /\ u.to.aliases \subseteq NamesOf[p]
    <3>1. PICK p \in Updated : u = [row |-> Target(p), id |-> people[Target(p)].id, to |-> Preserved(p)]
      BY <1>2, <1>4, <2>11, UpdatesAre
    <3>2. u.row = Target(p) /\ u.id = people[Target(p)].id /\ u.to = Preserved(p)
      BY <3>1
    <3>3. p \in Enrolled /\ p \notin Created
      BY DEF Updated, Created, Decided
    <3>4. Holds(Preserved(p), p) /\ Preserved(p).aliases \subseteq NamesOf[p]
      BY <1>2, <1>4, <3>3, NotReviewed, PreservedIs
    <3> QED BY <2>8, <3>2, <3>3, <3>4
  <2>12. Due(home)'
    BY <1>1, <1>2, <2>2, <2>5, <2>10, <2>11 DEF Due, Holds, Declared
  <2>13. Planned'
    <3>1. \A p \in Enrolled : roster[p].correo \in EmailsOf[p]
      BY <1>2, <1>4, NotReviewed
    <3>2. home \in [Enrolled -> DOMAIN Grown]'
      BY <1>2, <2>5
    <3>3. \E h \in [Enrolled -> DOMAIN Grown]' : Housed(h)' /\ Due(h)'
      BY <2>9, <2>12, <3>2
    <3> QED BY <1>1, <1>2, <3>1, <3>3 DEF Planned
  <2>14. Done'
    BY <2>1 DEF Done
  <2> QED BY <1>2, <2>6, <2>7, <2>13, <2>14 DEF Inv
<1> QED BY <1>3, <1>4

(* Nothing that happens otherwise disturbs the invariant.                  *)
LEMMA StutterKeeps == ASSUME Inv, UNCHANGED vars PROVE Inv'
<1>1. UNCHANGED <<roster, columns, people, job, result>>
  BY DEF vars
<1>2. RosterIs' /\ Enrolled' = Enrolled
  BY <1>1, RosterSame DEF Inv
<1>3. Grown' = Grown
  BY <1>1 DEF Grown
<1>4. \A home : (Housed(home) => Housed(home)') /\ (Due(home) => Due(home)')
  BY <1>1, <1>2, <1>3 DEF Housed, Home, Due, Holds, Declared
<1>5. JobIs' /\ Sound(columns, people)' /\ Sound(columns, Grown)'
  BY <1>1, <1>3 DEF Inv, JobIs
<1>6. Planned'
  BY <1>1, <1>2, <1>3, <1>4 DEF Inv, Planned
<1>7. Done'
  <2> SUFFICES ASSUME result' = "ok"
               PROVE  \E home \in [Enrolled -> DOMAIN Grown]' :
                        Housed(home)' /\ \A p \in Enrolled' : Holds(people[home[p]], p)'
    BY DEF Done
  <2>1. PICK home \in [Enrolled -> DOMAIN Grown] :
          Housed(home) /\ \A p \in Enrolled : Holds(people[home[p]], p)
    BY <1>1 DEF Inv, Done
  <2>2. Housed(home)' /\ \A p \in Enrolled' : Holds(people[home[p]], p)'
    BY <1>1, <1>2, <1>4, <2>1 DEF Holds, Declared
  <2> QED BY <1>2, <1>3, <2>2
<1> QED BY <1>2, <1>5, <1>6, <1>7 DEF Inv

(* Every step keeps the invariant.                                         *)
LEMMA InvNext == ASSUME Apart, Inv, [Next]_vars PROVE Inv'
<1>1. CASE Plan
  BY <1>1, PlanKeeps
<1>2. CASE AppendPeople
  BY <1>2, AppendKeeps
<1>3. CASE WriteCell
  BY <1>3, WriteKeeps
<1>4. CASE Verify
  BY <1>4, VerifyKeeps
<1>5. CASE Fail
  BY <1>5, FailKeeps
<1>6. ASSUME NEW p \in Person,
             \/ \E name \in NamesOf[p], email \in EmailsOf[p] : Register(p, name, email)
             \/ Withdraw(p)
      PROVE  Inv'
  BY <1>6, RegisterKeeps
<1>7. ASSUME NEW p \in Person, NEW q \in Person, p # q, Mistype(p, q) PROVE Inv'
  BY <1>7, MistypeKeeps
<1>8. ASSUME NEW p \in Person, NEW i \in Filled, AddAlias(p, i) PROVE Inv'
  BY <1>8, AddAliasKeeps
<1>9. ASSUME NEW i \in Filled, Promote(i) PROVE Inv'
  BY <1>9, PromoteKeeps
<1>10. CASE UNCHANGED vars
  BY <1>10, StutterKeeps
<1> QED BY <1>1, <1>2, <1>3, <1>4, <1>5, <1>6, <1>7, <1>8, <1>9, <1>10 DEF Next, Progress

-----------------------------------------------------------------------------
(* What the invariant implies.                                             *)

(* The invariant holds throughout.                                         *)
THEOREM InvAlways == ASSUME Apart PROVE Spec => []Inv
<1>1. Init => Inv
  BY InvInit
<1>2. Inv /\ [Next]_vars => Inv'
  BY InvNext
<1> QED BY <1>1, <1>2, PTL DEF Spec

(* No refresh, interrupted and repeated at any call, makes a sheet that    *)
(* load_read_only refuses: every row has a name and an id of its own.      *)
THEOREM IdsStayUnique == ASSUME Apart PROVE Spec => []NeverDamaged
<1>1. Inv => NeverDamaged
  BY FilledIs DEF Inv, NeverDamaged
<1> QED BY <1>1, InvAlways, PTL

(* After a refresh that succeeded, and until somebody edits, the next one  *)
(* finds a MATCH for every record of the roster, each a row of its own.    *)
THEOREM SettledAlways == ASSUME Apart PROVE Spec => []Settled
<1>1. ASSUME Inv, result = "ok"
      PROVE  Agreed /\ \A p, q \in Enrolled : p # q => Target(p) # Target(q)
  <2>1. job = Idle
    BY <1>1 DEF Inv, JobIs
  <2>2. Grown = people
    BY <2>1, GrownIdle
  <2>3. PICK home \in [Enrolled -> DOMAIN people] :
          Housed(home) /\ \A p \in Enrolled : Holds(people[home[p]], p)
    BY <1>1, <2>2 DEF Inv, Done
  <2>4. \A p \in Enrolled : Home(people, p, home[p]) /\ Holds(people[home[p]], p)
    BY <2>2, <2>3 DEF Housed
  <2>5. /\ \A p \in Enrolled : Action(p) = "MATCH" /\ Target(p) = home[p]
        /\ \A p, q \in Enrolled : home[p] = home[q] => p = q
    BY <1>1, <2>4, FoundAgain DEF Inv
  <2> QED BY <2>5 DEF Agreed
<1>2. Inv => Settled
  BY <1>1 DEF Settled
<1> QED BY <1>2, InvAlways, PTL

(* What a step leaves of the rows.                                         *)
RowsStay ==
  \A i \in DOMAIN people :
     /\ i \in DOMAIN people' /\ people'[i].id = people[i].id
     /\ \A p \in Person : Belongs(people[i], p) => Belongs(people'[i], p)
     /\ job # Idle => people'[i].role = people[i].role

(* A cell that somebody edits leaves a row to whom it belongs.             *)
LEMMA EditedRow ==
  ASSUME NEW i \in DOMAIN people, NEW row, people' = [people EXCEPT ![i] = row],
         job = Idle, Sound(columns, people), row.id = people[i].id,
         \A p \in Person : Belongs(people[i], p) => Belongs(row, p)
  PROVE  RowsStay
<1>1. /\ people \in Seq(Range(people)) /\ DOMAIN people = 1 .. Len(people)
  BY ListIs DEF Sound
<1>2. \A j \in DOMAIN people : j \in DOMAIN people' /\ people'[j] = IF j = i THEN row ELSE people[j]
  BY <1>1
<1> QED BY <1>2 DEF RowsStay

(* A step that leaves the sheet leaves its rows.                           *)
LEMMA SameRows == ASSUME UNCHANGED people PROVE RowsStay
  BY DEF RowsStay

(* No step takes a row away, changes its id, or makes the row of one       *)
(* person the row of another, and no refresh changes a role.               *)
THEOREM IdentitiesAlways == ASSUME Apart PROVE Spec => IdentitiesStay
<1>1. ASSUME Inv, [Next]_vars PROVE RowsStay
  <2>1. CASE AppendPeople
    BY <1>1, <2>1, AppendKeeps DEF RowsStay
  <2>2. CASE WriteCell
    BY <1>1, <2>2, WriteKeeps DEF RowsStay
  <2>3. ASSUME NEW p \in Person, NEW i \in Filled, AddAlias(p, i) PROVE RowsStay
    <3> DEFINE row == [people[i] EXCEPT !.aliases = NamesOf[p] \ {people[i].nombre}]
    <3>1. /\ people' = [people EXCEPT ![i] = row] /\ job = Idle /\ i \in DOMAIN people
          /\ people[i].nombre \in NamesOf[p] /\ Sound(columns, people)
      BY <1>1, <2>3 DEF AddAlias, Edit, Filled, Inv
    <3>2. IsRow(people[i]) /\ Coherent(columns, people[i])
      BY <3>1 DEF Sound
    <3>3. Belongs(people[i], p)
      BY <3>1, <3>2 DEF Coherent, Touches
    <3>4. /\ row.id = people[i].id /\ row.nombre = people[i].nombre /\ row.correo = people[i].correo
          /\ row.aliases = NamesOf[p] \ {people[i].nombre}
      BY <3>2 DEF IsRow
    <3> HIDE DEF row
    <3>5. ASSUME NEW q \in Person, Belongs(people[i], q) PROVE Belongs(row, q)
      <4>1. q = p
        BY <3>3, <3>5, OneOwner
      <4> QED BY <3>3, <3>4, <4>1 DEF Belongs
    <3> QED BY <3>1, <3>4, <3>5, EditedRow
  <2>4. ASSUME NEW i \in Filled, Promote(i) PROVE RowsStay
    <3> DEFINE row == [people[i] EXCEPT !.role = "facilitator"]
    <3>1. /\ people' = [people EXCEPT ![i] = row] /\ job = Idle /\ i \in DOMAIN people
          /\ Sound(columns, people)
      BY <1>1, <2>4 DEF Promote, Edit, Filled, Inv
    <3>2. IsRow(people[i])
      BY <3>1 DEF Sound
    <3>3. /\ row.id = people[i].id /\ row.nombre = people[i].nombre /\ row.correo = people[i].correo
          /\ row.aliases = people[i].aliases
      BY <3>2 DEF IsRow
    <3> HIDE DEF row
    <3>4. \A q \in Person : Belongs(people[i], q) => Belongs(row, q)
      BY <3>3 DEF Belongs
    <3> QED BY <3>1, <3>3, <3>4, EditedRow
  <2>5. CASE Plan \/ Verify \/ Fail
    BY <2>5, SameRows DEF Plan, Verify, Fail
  <2>6. ASSUME NEW p \in Person,
               \/ \E name \in NamesOf[p], email \in EmailsOf[p] : Register(p, name, email)
               \/ Withdraw(p)
               \/ \E q \in Person : Mistype(p, q)
        PROVE  RowsStay
    BY <2>6, SameRows DEF Register, Withdraw, Mistype
  <2>7. CASE UNCHANGED vars
    BY <2>7, SameRows DEF vars
  <2> QED BY <1>1, <2>1, <2>2, <2>3, <2>4, <2>5, <2>6, <2>7 DEF Next, Progress
<1>2. Inv /\ [Next]_vars => [RowsStay]_people
  BY <1>1
<1> QED BY <1>2, InvAlways, PTL DEF Spec, IdentitiesStay, RowsStay
=============================================================================
