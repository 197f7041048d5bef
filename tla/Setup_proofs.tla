------------------------------ MODULE Setup_proofs ------------------------------
(***************************************************************************)
(* What setups and runs do to a workbook, for all setup files and however  *)
(* often they are run, refused or interrupted: processed sessions stay     *)
(* configured as they were processed, and a program has one workbook.  The *)
(* second part adds the Control sheet: a run finds its sessions there, and *)
(* a setup file that was applied once is accepted again.                   *)
(***************************************************************************)
EXTENDS Setup, Lists_lemmas

(* The elements of workbooks and rows are not typed; that they come in     *)
(* sequences is all that is needed.                                        *)
Elements(x) == {x[i] : i \in DOMAIN x}
IsSequence(x) == x \in Seq(Elements(x))

(* A sequence over any set is a sequence over its elements. *)
LEMMA InSeq == ASSUME NEW S, NEW x \in Seq(S) PROVE IsSequence(x)
<1>1. PICK n \in Nat : x \in [1 .. n -> S]
  BY SeqDef
<1>2. x \in [1 .. n -> Elements(x)]
  BY <1>1 DEF Elements
<1> QED
  BY <1>2, SeqDef DEF IsSequence

(* The domain of a sequence. *)
LEMMA Lengths ==
  ASSUME NEW x, IsSequence(x)
  PROVE  Len(x) \in Nat /\ DOMAIN x = 1 .. Len(x) /\ (x = << >> <=> Len(x) = 0)
<1> DEFINE S == Elements(x)
<1>1. x \in Seq(S)
  BY DEF IsSequence
<1> HIDE DEF S
<1> QED
  BY <1>1

(* Sequences of no element, of one and of two. *)
LEMMA Single ==
  ASSUME NEW v
  PROVE  /\ IsSequence(<< >>) /\ IsSequence(<<v>>) /\ IsSequence(<<v, v>>)
         /\ << >> \o <<v>> = <<v>> /\ << >> \o <<v>> \o <<v>> = <<v, v>>
<1>1. << >> \in Seq({v}) /\ <<v>> \in Seq({v}) /\ <<v, v>> \in Seq({v})
  OBVIOUS
<1>2. IsSequence(<< >>) /\ IsSequence(<<v>>) /\ IsSequence(<<v, v>>)
  BY <1>1, InSeq
<1>3. << >> \o <<v>> = <<v>>
  BY <1>1, ConcatEmptySeq
<1>4. <<v>> \o <<v>> = <<v, v>>
  <2>1. /\ <<v>> \o <<v>> \in Seq({v}) /\ Len(<<v>> \o <<v>>) = 2
    BY <1>1, ConcatProperties
  <2>2. ASSUME NEW i \in 1 .. 2 PROVE (<<v>> \o <<v>>)[i] = v
    BY <2>1, <2>2, ElementOfSeq
  <2>3. Len(<<v, v>>) = 2 /\ \A i \in 1 .. 2 : <<v, v>>[i] = v
    OBVIOUS
  <2> QED
    BY <1>1, <2>1, <2>2, <2>3, SeqEqual
<1> QED
  BY <1>2, <1>3, <1>4

(* An element of a sequence replaced by another. *)
LEMMA Replaced ==
  ASSUME NEW x, IsSequence(x), NEW i \in DOMAIN x, NEW e
  PROVE  /\ IsSequence([x EXCEPT ![i] = e])
         /\ DOMAIN [x EXCEPT ![i] = e] = DOMAIN x
         /\ [x EXCEPT ![i] = e][i] = e
         /\ \A j \in DOMAIN x : j # i => [x EXCEPT ![i] = e][j] = x[j]
<1> DEFINE S == Elements(x) \union {e}
<1>1. x \in Seq(S)
  BY SeqMonotonic DEF IsSequence
<1> HIDE DEF S
<1>2. e \in S
  BY DEF S
<1>3. i \in 1 .. Len(x)
  BY Lengths
<1>4. [x EXCEPT ![i] = e] \in Seq(S)
  BY <1>1, <1>2, <1>3, ExceptSeq
<1> QED
  BY <1>4, InSeq

(* An element appended to a sequence. *)
LEMMA Extended ==
  ASSUME NEW x, IsSequence(x), NEW e
  PROVE  /\ IsSequence(Append(x, e))
         /\ Len(x) + 1 \notin DOMAIN x
         /\ DOMAIN Append(x, e) = DOMAIN x \union {Len(x) + 1}
         /\ Append(x, e)[Len(x) + 1] = e
         /\ \A j \in DOMAIN x : Append(x, e)[j] = x[j]
<1> DEFINE S == Elements(x) \union {e}
<1>1. x \in Seq(S)
  BY SeqMonotonic DEF IsSequence
<1>2. e \in S
  OBVIOUS
<1> HIDE DEF S
<1>3. Len(x) \in Nat /\ DOMAIN x = 1 .. Len(x)
  BY Lengths
<1>4. /\ Append(x, e) \in Seq(S) /\ Len(Append(x, e)) = Len(x) + 1
      /\ Append(x, e)[Len(x) + 1] = e /\ \A j \in 1 .. Len(x) : Append(x, e)[j] = x[j]
  BY <1>1, <1>2, AppendProperties
<1>5. DOMAIN Append(x, e) = 1 .. Len(x) + 1
  BY <1>4, LenProperties
<1>6. 1 .. Len(x) + 1 = 1 .. Len(x) \union {Len(x) + 1}
  BY <1>3
<1>7. IsSequence(Append(x, e))
  BY <1>4, InSeq
<1>8. Len(x) + 1 \notin 1 .. Len(x)
  BY <1>3
<1> QED
  BY <1>3, <1>4, <1>5, <1>6, <1>7, <1>8

-----------------------------------------------------------------------------
(* What Put leaves, however often its append was applied.                  *)
LEMMA PutLeaves ==
  ASSUME NEW rows, IsSequence(rows), NEW value, NEW put \in Put(rows, value)
  PROVE  IsSequence(put.rows) /\ put.rows # << >> /\ put.rows[1] = value
<1> DEFINE Good(x) == IsSequence(x) /\ x # << >> /\ x[1] = value
<1>1. Good(<<value>>) /\ Good(<<value, value>>)
  BY Single
<1>2. CASE Len(rows) = 0
  <2>1. rows = << >>
    BY <1>2, Lengths
  <2>2. Put(rows, value) = Added(<< >>, <<value>>)
    BY <1>2, <2>1 DEF Put
  <2>3. put.rows = << >> \o <<value>> \/ put.rows = << >> \o <<value>> \o <<value>>
    BY <2>2 DEF Added
  <2> QED
    BY <1>1, <2>3, Single
<1>3. CASE Len(rows) = 1
  <2>1. Put(rows, value) = {[rows |-> <<value>>, faults |-> faults]}
    BY <1>3 DEF Put
  <2> QED
    BY <1>1, <2>1
<1>4. CASE Len(rows) > 1
  <2>1. Put(rows, value) = {}
    BY <1>4 DEF Put
  <2> QED
    BY <2>1
<1>5. Len(rows) = 0 \/ Len(rows) = 1 \/ Len(rows) > 1
  <2>1. Len(rows) \in Nat
    BY Lengths
  <2> QED
    BY <2>1
<1> QED
  BY <1>2, <1>3, <1>4, <1>5

(* A bundle knows a session by one number only.                            *)
Programs == {Record(spec) : spec \in Specs}

(* The sessions of a program have different identifiers: the number of *)
(* one of them is its own.                                             *)
LEMMA OneNumber ==
  ASSUME NEW program \in Programs, NEW s \in DOMAIN program.sessions
  PROVE  NumberOf(program, program.sessions[s].id) = s
<1>1. PICK spec \in Specs : program = Record(spec)
  BY DEF Programs
<1>2. /\ DOMAIN program.sessions = DOMAIN spec.sessions
      /\ \A t \in DOMAIN spec.sessions : program.sessions[t].id = spec.sessions[t].id
  BY <1>1 DEF Record, Kept
<1>3. ASSUME NEW t \in DOMAIN program.sessions, program.sessions[t].id = program.sessions[s].id
      PROVE  t = s
  <2>1. spec.sessions[t].id = spec.sessions[s].id
    BY <1>2, <1>3
  <2> QED
    BY <1>2, <2>1, SpecAssumption
<1> QED
  BY <1>3 DEF NumberOf

-----------------------------------------------------------------------------
BeforePut == {"tabs", "place", "programa", "fill", "view", "update", "insert", "bundle"}
Running == {"ensure", "append", "sync"}

Jobs ==
  {Idle} \union [at : {"create", "state"} \union BeforePut, spec : Specs, book : Nat, sheet : BOOLEAN]
         \union [at : Running, book : Nat, program : Programs]

(* What the steps tell apart of a workbook.                                *)
Shelf ==
  /\ IsSequence(books)
  /\ \A b \in DOMAIN books :
       /\ DOMAIN books[b] = {"placed", "title", "tabs", "programa", "control", "bundle", "state"}
       /\ books[b].placed \in BOOLEAN
       /\ IsSequence(books[b].bundle) /\ IsSequence(books[b].state)
       /\ books[b].bundle # << >> => Bundle(b) \in Programs

(* Who works on which workbook; a run goes by the bundle it has read.      *)
AtWork ==
  /\ job \in Jobs
  /\ job.at \in BeforePut \union {"state"} \union Running => job.book \in DOMAIN books
  /\ job.at = "state" => books[job.book].bundle # << >>
  /\ job.at \in Running => books[job.book].bundle # << >> /\ job.program = Bundle(job.book)

(* What is known as processed is configured as it was, where there is a    *)
(* bundle; and a setup that has passed the guard will not change that.     *)
As(program, id, was) ==
  /\ was.session.id = id
  /\ was.number \in DOMAIN program.sessions /\ program.sessions[was.number] = was.session

AsProcessed ==
  \A b \in DOMAIN books :
    /\ books[b].bundle = << >> => DOMAIN Sessions(b) = {}
    /\ \A id \in DOMAIN Sessions(b) : As(Bundle(b), id, Sessions(b)[id])

Guarded ==
  job.at \in BeforePut /\ books[job.book].bundle # << >> =>
    Unchanged(Bundle(job.book), job.spec, DOMAIN Sessions(job.book))

(* One workbook for a title, and a setup that creates another only as long *)
(* as there is none of its name and none that is configured; unless it was *)
(* told which one to take, it leaves those alone that are not its own.     *)
Untitled(name) == \A b \in InFolder : books[b].title # name

Alone ==
  /\ Distinct
  /\ job.at \in BeforePut => Configured = {} \/ job.book \in Configured \/ job.sheet
  /\ job.at = "create" => Configured = {} /\ Untitled(job.spec.name)
  /\ job.at \in {"tabs", "place"} /\ ~books[job.book].placed =>
       books[job.book].title = job.spec.name /\ Untitled(job.spec.name)

Inv == Shelf /\ AtWork /\ AsProcessed /\ Guarded /\ Alone

(* What a step may configure.                                              *)
AsTold == Configured # {} /\ Configured' # Configured => job.sheet

(* The first invariant holds at first. *)
LEMMA InvInit == Init => Inv
<1> SUFFICES ASSUME Init PROVE Inv
  OBVIOUS
<1> USE DEF Init, Idle
<1>1. CASE books = << >>
  <2>1. IsSequence(books) /\ DOMAIN books = {}
    <3>1. IsSequence(<< >>)
      BY Single
    <3>2. DOMAIN << >> = {}
      OBVIOUS
    <3> QED
      BY <1>1, <3>1, <3>2
  <2> QED
    BY <2>1 DEF Inv, Shelf, AtWork, Jobs, AsProcessed, Guarded, Alone, Configured, BeforePut, Running,
           Distinct, InFolder
<1>2. ASSUME NEW book \in Legacy, books = <<book>> PROVE Inv
  <2>1. IsSequence(books) /\ DOMAIN books = {1} /\ books[1] = book
    <3>1. IsSequence(<<book>>)
      BY Single
    <3>2. DOMAIN <<book>> = {1} /\ <<book>>[1] = book
      OBVIOUS
    <3> QED
      BY <1>2, <3>1, <3>2
  <2>2. /\ DOMAIN book = {"placed", "title", "tabs", "programa", "control", "bundle", "state"}
        /\ book.placed = TRUE /\ book.bundle = << >> /\ book.state = << >>
    BY LegacyAssumption DEF New
  <2>3. Configured = {}
    BY <2>1, <2>2 DEF Configured, InFolder
  <2>4. Sessions(1) = << >> /\ DOMAIN << >> = {}
    BY <2>1, <2>2 DEF Sessions
  <2>5. IsSequence(<< >>)
    BY Single
  <2> QED
    BY <2>1, <2>2, <2>3, <2>4, <2>5
       DEF Inv, Shelf, AtWork, Jobs, AsProcessed, Guarded, Alone, Distinct, InFolder, BeforePut, Running
<1> QED
  BY <1>1, <1>2

-----------------------------------------------------------------------------
(* Most steps leave alone what the invariant speaks of.                    *)
Still ==
  /\ IsSequence(books') /\ DOMAIN books' = DOMAIN books
  /\ \A b \in DOMAIN books :
       /\ DOMAIN books'[b] = DOMAIN books[b]
       /\ books'[b].placed = books[b].placed /\ books'[b].title = books[b].title
       /\ books'[b].bundle = books[b].bundle
       /\ IsSequence(books'[b].state) /\ Sessions(b)' = Sessions(b)

(* A workbook changed in nothing that the first invariant reads. *)
LEMMA Retouched ==
  ASSUME Shelf, NEW b \in DOMAIN books, NEW book,
         books' = [books EXCEPT ![b] = book], DOMAIN book = DOMAIN books[b],
         book.placed = books[b].placed, book.title = books[b].title,
         book.bundle = books[b].bundle, book.state = books[b].state
  PROVE  Still
<1>1. /\ IsSequence(books') /\ DOMAIN books' = DOMAIN books /\ books'[b] = book
      /\ \A c \in DOMAIN books : c # b => books'[c] = books[c]
  BY Replaced DEF Shelf
<1> QED
  BY <1>1 DEF Still, Sessions, Shelf

(* Such a change keeps the invariant's parts. *)
LEMMA StillKeeps ==
  ASSUME Shelf, Still
  PROVE  /\ Shelf' /\ Configured' = Configured
         /\ \A b \in DOMAIN books : Bundle(b)' = Bundle(b)
         /\ \A name : Untitled(name)' <=> Untitled(name)
         /\ AsProcessed => AsProcessed'
         /\ Distinct => Distinct'
<1>1. Configured' = Configured
  BY DEF Still, Configured, InFolder
<1>2. \A b \in DOMAIN books : Bundle(b)' = Bundle(b)
  BY DEF Still, Bundle
<1>3. Shelf'
  BY <1>2 DEF Still, Shelf
<1>4. \A name : Untitled(name)' <=> Untitled(name)
  BY DEF Still, Untitled, InFolder
<1>5. AsProcessed => AsProcessed'
  BY <1>2 DEF Still, AsProcessed
<1>6. Distinct => Distinct'
  BY DEF Still, Distinct, InFolder
<1> QED
  BY <1>1, <1>2, <1>3, <1>4, <1>5, <1>6

(* Such a step ends the work or goes on with it.                           *)
LEMMA StillEnds ==
  ASSUME Inv, Still, job' = Idle
  PROVE  Inv' /\ AsTold
<1>1. Shelf' /\ Configured' = Configured /\ AsProcessed' /\ Distinct'
  BY StillKeeps DEF Inv, Alone
<1>2. AtWork' /\ Guarded'
  BY DEF AtWork, Guarded, Jobs, Idle, BeforePut, Running
<1>3. Alone'
  BY <1>1 DEF Alone, Idle, BeforePut
<1> QED
  BY <1>1, <1>2, <1>3 DEF Inv, AsTold

(* And the setup that makes it goes on to its next step. *)
LEMMA StillGoesOn ==
  ASSUME Inv, Still, NEW next \in BeforePut, job.at \in BeforePut,
         next = "place" => job.at = "tabs", next # "tabs",
         job' = [job EXCEPT !.at = next]
  PROVE  Inv' /\ AsTold
<1>1. /\ Shelf' /\ Configured' = Configured /\ AsProcessed' /\ Distinct'
      /\ \A b \in DOMAIN books : Bundle(b)' = Bundle(b)
      /\ \A name : Untitled(name)' <=> Untitled(name)
  BY StillKeeps DEF Inv, Alone
<1>2. /\ job \in [at : {"create", "state"} \union BeforePut, spec : Specs, book : Nat, sheet : BOOLEAN]
      /\ job.book \in DOMAIN books
  BY DEF Inv, AtWork, Jobs, Idle, BeforePut, Running
<1>3. /\ job' \in [at : {"create", "state"} \union BeforePut, spec : Specs, book : Nat, sheet : BOOLEAN]
      /\ job'.at = next /\ job'.book = job.book /\ job'.spec = job.spec /\ job'.sheet = job.sheet
  BY <1>2
<1>4. AtWork'
  BY <1>2, <1>3 DEF AtWork, Jobs, BeforePut, Running, Still
<1>5. Guarded'
  BY <1>1, <1>2, <1>3 DEF Inv, Guarded, Still
<1>6. Alone'
  BY <1>1, <1>2, <1>3 DEF Inv, Alone, Still, BeforePut
<1> QED
  BY <1>1, <1>4, <1>5, <1>6 DEF Inv, AsTold

-----------------------------------------------------------------------------
(* What a setup that has found a workbook, or none, may rely on.           *)
LEMMA FoundIs ==
  ASSUME Inv, NEW name, NEW b \in Found(name)
  PROVE  \/ b = 0 /\ Configured = {} /\ Untitled(name)
         \/ b \in InFolder /\ b # 0 /\ (Configured = {} \/ b \in Configured)
<1>1. 0 \notin DOMAIN books
  BY Lengths DEF Inv, Shelf
<1>2. \A c \in Configured \union Adoptable(name) : c \in InFolder /\ c # 0
  BY <1>1 DEF Configured, Adoptable, InFolder
<1> DEFINE named == {c \in Configured : Bundle(c).name = name}
<1>3. CASE named # {}
  <2>1. b \in named
    BY <1>3 DEF Found
  <2> QED
    BY <1>2, <2>1
<1>4. CASE named = {} /\ Configured # {}
  <2>1. b \in Configured
    BY <1>4 DEF Found
  <2> QED
    BY <1>2, <2>1
<1>5. CASE Configured = {} /\ Adoptable(name) # {}
  <2>1. b \in Adoptable(name)
    BY <1>5 DEF Found
  <2> QED
    BY <1>2, <1>5, <2>1
<1>6. CASE Configured = {} /\ Adoptable(name) = {}
  <2>1. b = 0
    BY <1>6 DEF Found
  <2>2. Untitled(name)
    BY <1>6 DEF Untitled, Adoptable
  <2> QED
    BY <1>6, <2>1, <2>2
<1> QED
  BY <1>3, <1>4, <1>5, <1>6

(* Every action keeps the first invariant, and configures no workbook but  *)
(* its own: one lemma for each, down to InvNext.                           *)
LEMMA CheckKeeps == ASSUME Inv, NEW spec \in Specs, Check(spec) PROVE Inv' /\ AsTold
<1>1. PICK b \in Found(spec.name) \union InFolder :
        /\ Accepted(spec, b)
        /\ job' = [at |-> IF b = 0 THEN "create" ELSE "tabs", spec |-> spec, book |-> b,
                   sheet |-> b \notin Found(spec.name)]
  BY DEF Check
<1>2. books' = books
  BY DEF Check
<1>3. Still
  BY <1>2 DEF Inv, Shelf, Still, Sessions
<1>4. /\ Shelf' /\ Configured' = Configured /\ AsProcessed' /\ Distinct'
      /\ \A c \in DOMAIN books : Bundle(c)' = Bundle(c)
      /\ \A name : Untitled(name)' <=> Untitled(name)
  BY <1>3, StillKeeps DEF Inv, Alone
<1>5. 0 \notin InFolder
  BY Lengths DEF Inv, Shelf, InFolder
<1>6. CASE b = 0
  <2>1. Configured = {} /\ Untitled(spec.name)
    BY <1>1, <1>5, <1>6, FoundIs
  <2>2. AtWork' /\ Guarded'
    BY <1>1, <1>6 DEF AtWork, Guarded, Jobs, BeforePut, Running
  <2>3. Alone'
    BY <1>1, <1>4, <1>6, <2>1 DEF Alone, BeforePut
  <2> QED
    BY <1>4, <2>2, <2>3 DEF Inv, AsTold
<1>7. CASE b # 0
  <2>1. b \in InFolder /\ (Configured = {} \/ b \in Configured \/ b \notin Found(spec.name))
    BY <1>1, <1>7, FoundIs
  <2>2. b \in DOMAIN books /\ books[b].placed /\ b \in Nat
    BY <2>1, Lengths DEF Inv, Shelf, InFolder
  <2>3. books[b].bundle # << >> => Unchanged(Bundle(b), spec, DOMAIN Sessions(b))
    BY <1>1, <1>7 DEF Accepted
  <2>4. AtWork'
    BY <1>1, <1>2, <1>7, <2>2 DEF AtWork, Jobs, BeforePut, Running
  <2>5. Guarded'
    BY <1>1, <1>2, <1>3, <1>4, <1>7, <2>2, <2>3 DEF Guarded, Still
  <2>6. Alone'
    BY <1>1, <1>2, <1>4, <1>7, <2>1, <2>2 DEF Alone, BeforePut
  <2> QED
    BY <1>4, <2>4, <2>5, <2>6 DEF Inv, AsTold
<1> QED
  BY <1>6, <1>7

(* A workbook just created. *)
LEMMA NewBook ==
  ASSUME NEW name
  PROVE  /\ DOMAIN New(name) = {"placed", "title", "tabs", "programa", "control", "bundle", "state"}
         /\ New(name).placed = FALSE /\ New(name).title = name
         /\ New(name).bundle = << >> /\ New(name).state = << >>
  BY DEF New

LEMMA CreateKeeps == ASSUME Inv, Create PROVE Inv' /\ AsTold
<1>0. PICK b : b = Len(books) + 1
  OBVIOUS
<1>1. /\ job.at = "create" /\ books' = Append(books, New(job.spec.name))
      /\ job' = [job EXCEPT !.at = "tabs", !.book = b]
  BY <1>0 DEF Create
<1>2. /\ IsSequence(books') /\ b \notin DOMAIN books /\ DOMAIN books' = DOMAIN books \union {b}
      /\ books'[b] = New(job.spec.name) /\ b \in Nat
      /\ \A c \in DOMAIN books : books'[c] = books[c]
  BY <1>0, <1>1, Extended, Lengths DEF Inv, Shelf
<1>3. job \in [at : {"create", "state"} \union BeforePut, spec : Specs, book : Nat, sheet : BOOLEAN]
  BY <1>1 DEF Inv, AtWork, Jobs, Idle, Running
<1>4. job'.at = "tabs" /\ job'.book = b /\ job'.spec = job.spec /\ job' \in Jobs
  BY <1>1, <1>2, <1>3 DEF Jobs, BeforePut
<1>5. /\ DOMAIN books'[b] = {"placed", "title", "tabs", "programa", "control", "bundle", "state"}
      /\ books'[b].placed = FALSE /\ books'[b].title = job.spec.name
      /\ books'[b].bundle = << >> /\ books'[b].state = << >>
  BY <1>2, NewBook
<1>6. Configured = {} /\ Untitled(job.spec.name)
  BY <1>1 DEF Inv, Alone
<1>7. Configured' = {}
  BY <1>2, <1>5, <1>6 DEF Configured, InFolder
<1>8. Shelf'
  BY <1>2, <1>5, Single DEF Inv, Shelf, Bundle
<1>9. AsProcessed'
  <2>1. Sessions(b)' = << >>
    BY <1>5 DEF Sessions
  <2>2. DOMAIN << >> = {}
    OBVIOUS
  <2>3. \A c \in DOMAIN books : Sessions(c)' = Sessions(c) /\ Bundle(c)' = Bundle(c)
    BY <1>2 DEF Sessions, Bundle
  <2> QED
    BY <1>2, <2>1, <2>2, <2>3 DEF Inv, AsProcessed
<1>10. AtWork' /\ Guarded'
  BY <1>2, <1>4, <1>5 DEF AtWork, Guarded, BeforePut, Running
<1>11. Alone'
  BY <1>2, <1>4, <1>5, <1>6, <1>7 DEF Inv, Alone, Distinct, Untitled, BeforePut, InFolder
<1> QED
  BY <1>6, <1>8, <1>9, <1>10, <1>11 DEF Inv, AsTold

-----------------------------------------------------------------------------

(* What the job is while a setup writes. *)
LEMMA AtSetup ==
  ASSUME Inv, job.at \in BeforePut \union {"state"}
  PROVE  /\ job \in [at : {"create", "state"} \union BeforePut, spec : Specs, book : Nat, sheet : BOOLEAN]
         /\ job.book \in DOMAIN books /\ job.spec \in Specs
  BY DEF Inv, AtWork, Jobs, Idle, BeforePut, Running

(* What the job is while a run processes. *)
LEMMA AtRun ==
  ASSUME Inv, job.at \in Running
  PROVE  /\ job \in [at : Running, book : Nat, program : Programs]
         /\ job.book \in DOMAIN books /\ job.program = Bundle(job.book)
         /\ books[job.book].bundle # << >>
  BY DEF Inv, AtWork, Jobs, Idle, BeforePut, Running

(* Tabs, Programa and Control can be written in any way.                   *)
LEMMA Drawn ==
  ASSUME Inv, job.book \in DOMAIN books, NEW field \in {"tabs", "programa", "control"}, NEW value,
         books' = [books EXCEPT ![job.book] = [@ EXCEPT ![field] = value]]
  PROVE  Still
<1>1. PICK b \in DOMAIN books : b = job.book
  OBVIOUS
<1>2. PICK book : book = [books[b] EXCEPT ![field] = value]
  OBVIOUS
<1>3. DOMAIN books[b] = {"placed", "title", "tabs", "programa", "control", "bundle", "state"}
  BY DEF Inv, Shelf
<1>4. /\ DOMAIN book = DOMAIN books[b]
      /\ book.placed = books[b].placed /\ book.title = books[b].title
      /\ book.bundle = books[b].bundle /\ book.state = books[b].state
  BY <1>2, <1>3
<1>5. books' = [books EXCEPT ![b] = book]
  BY <1>1, <1>2
<1> QED
  BY <1>4, <1>5, Retouched DEF Inv

LEMMA AddTabsKeeps == ASSUME Inv, AddTabs PROVE Inv' /\ AsTold
<1>1. /\ job.at = "tabs" /\ books' = [books EXCEPT ![job.book] = [@ EXCEPT !["tabs"] = TRUE]]
      /\ job' = [job EXCEPT !.at = IF books[job.book].placed THEN "programa" ELSE "place"]
  BY DEF AddTabs, To
<1>2. Still
  BY <1>1, AtSetup, Drawn DEF BeforePut
<1> QED
  BY <1>1, <1>2, StillGoesOn DEF BeforePut

LEMMA FillProgramKeeps == ASSUME Inv, FillProgram PROVE Inv' /\ AsTold
<1>1. job.at = "programa" /\ job' = [job EXCEPT !.at = "fill"]
  BY DEF FillProgram, To
<1>2. PICK v : books' = [books EXCEPT ![job.book] = [@ EXCEPT !["programa"] = v]]
  BY DEF FillProgram
<1>3. Still
  BY <1>1, <1>2, AtSetup, Drawn DEF BeforePut
<1> QED
  BY <1>1, <1>3, StillGoesOn DEF BeforePut

LEMMA FillControlKeeps == ASSUME Inv, FillControl PROVE Inv' /\ AsTold
<1>1. job.at = "fill" /\ job' = [job EXCEPT !.at = "view"]
  BY DEF FillControl, To
<1>2. PICK v : books' = [books EXCEPT ![job.book] = [@ EXCEPT !["control"] = v]]
  BY DEF FillControl
<1>3. Still
  BY <1>1, <1>2, AtSetup, Drawn DEF BeforePut
<1> QED
  BY <1>1, <1>3, StillGoesOn DEF BeforePut

LEMMA ReconcileViewKeeps == ASSUME Inv, ReconcileView PROVE Inv' /\ AsTold
<1>1. /\ job.at = "view" /\ books' = [books EXCEPT ![job.book] = [@ EXCEPT !["programa"] = job.spec.name]]
      /\ job' = [job EXCEPT !.at = "update"]
  BY DEF ReconcileView, To
<1>2. Still
  BY <1>1, AtSetup, Drawn DEF BeforePut
<1> QED
  BY <1>1, <1>2, StillGoesOn DEF BeforePut

LEMMA Untouched == ASSUME Inv, books' = books PROVE Still
  BY DEF Inv, Shelf, Still, Sessions

LEMMA UpdateControlKeeps == ASSUME Inv, UpdateControl PROVE Inv' /\ AsTold
<1>1. job.at = "update"
  BY DEF UpdateControl
<1>2. CASE Doubled(books[job.book].control.rows)
  BY <1>2, Untouched, StillEnds DEF UpdateControl
<1>3. CASE ~Doubled(books[job.book].control.rows)
  <2>1. PICK v : books' = [books EXCEPT ![job.book] = [@ EXCEPT !["control"] = v]]
    BY <1>3 DEF UpdateControl
  <2>2. job' = [job EXCEPT !.at = "insert"]
    BY <1>3 DEF UpdateControl, To
  <2>3. Still
    BY <1>1, <2>1, AtSetup, Drawn DEF BeforePut
  <2> QED
    BY <1>1, <2>2, <2>3, StillGoesOn DEF BeforePut
<1> QED
  BY <1>2, <1>3

LEMMA InsertControlKeeps == ASSUME Inv, InsertControl PROVE Inv' /\ AsTold
<1>1. job.at = "insert" /\ job' = [job EXCEPT !.at = "bundle"]
  BY DEF InsertControl, To
<1>2. PICK v : books' = [books EXCEPT ![job.book] = [@ EXCEPT !["control"] = v]]
  BY DEF InsertControl
<1>3. Still
  BY <1>1, <1>2, AtSetup, Drawn DEF BeforePut
<1> QED
  BY <1>1, <1>3, StillGoesOn DEF BeforePut

-----------------------------------------------------------------------------
(* A workbook is replaced; the others stay.                                *)
LEMMA BookWritten ==
  ASSUME Shelf, NEW b \in DOMAIN books, NEW book
  PROVE  books' = [books EXCEPT ![b] = book] =>
           /\ IsSequence(books') /\ DOMAIN books' = DOMAIN books /\ books'[b] = book
           /\ \A c \in DOMAIN books : c # b => books'[c] = books[c]
<1>1. PICK new : new = [books EXCEPT ![b] = book]
  OBVIOUS
<1>2. IsSequence(books)
  BY DEF Shelf
<1>3. /\ IsSequence(new) /\ DOMAIN new = DOMAIN books /\ new[b] = book
      /\ \A c \in DOMAIN books : c # b => new[c] = books[c]
  BY <1>1, <1>2, Replaced
<1> QED
  BY <1>1, <1>3

LEMMA Fields ==
  ASSUME Inv, NEW b \in DOMAIN books
  PROVE  DOMAIN books[b] = {"placed", "title", "tabs", "programa", "control", "bundle", "state"}
  BY DEF Inv, Shelf

LEMMA PlaceKeeps == ASSUME Inv, Place PROVE Inv' /\ AsTold
<1>1. /\ job.at = "place" /\ books' = [books EXCEPT ![job.book] = [@ EXCEPT !["placed"] = TRUE]]
      /\ job' = [job EXCEPT !.at = "programa"]
  BY DEF Place, To
<1>2. PICK b \in DOMAIN books : b = job.book
  BY <1>1, AtSetup DEF BeforePut
<1>3. /\ job \in [at : {"create", "state"} \union BeforePut, spec : Specs, book : Nat, sheet : BOOLEAN]
      /\ job' \in [at : {"create", "state"} \union BeforePut, spec : Specs, book : Nat, sheet : BOOLEAN]
      /\ job'.at = "programa" /\ job'.book = b /\ job'.spec = job.spec /\ job'.sheet = job.sheet
  BY <1>1, <1>2, AtSetup DEF BeforePut
<1>4. /\ IsSequence(books') /\ DOMAIN books' = DOMAIN books
      /\ \A c \in DOMAIN books :
           /\ DOMAIN books'[c] = DOMAIN books[c]
           /\ books'[c].title = books[c].title
           /\ books'[c].placed = IF c = b THEN TRUE ELSE books[c].placed
           /\ books'[c].bundle = books[c].bundle
           /\ books'[c].state = books[c].state
  <2>1. PICK book : book = [books[b] EXCEPT !.placed = TRUE]
    OBVIOUS
  <2>2. /\ DOMAIN book = DOMAIN books[b] /\ book.placed = TRUE /\ book.title = books[b].title
        /\ book.bundle = books[b].bundle /\ book.state = books[b].state
    BY <2>1, Fields
  <2>3. /\ IsSequence(books') /\ DOMAIN books' = DOMAIN books /\ books'[b] = book
        /\ \A c \in DOMAIN books : c # b => books'[c] = books[c]
    BY <1>1, <1>2, <2>1, BookWritten DEF Inv
  <2> QED
    BY <2>2, <2>3
<1>5. \A c \in DOMAIN books : Bundle(c)' = Bundle(c) /\ Sessions(c)' = Sessions(c)
  BY <1>4 DEF Bundle, Sessions
<1>6. Shelf'
  <2>1. ASSUME NEW c \in DOMAIN books
        PROVE  /\ DOMAIN books'[c] = {"placed", "title", "tabs", "programa", "control", "bundle", "state"}
               /\ books'[c].placed \in BOOLEAN
               /\ IsSequence(books'[c].bundle) /\ IsSequence(books'[c].state)
               /\ books'[c].bundle # << >> => Bundle(c)' \in Programs
    BY <1>4, <1>5, <2>1 DEF Inv, Shelf
  <2> QED
    BY <1>4, <2>1 DEF Shelf
<1>7. AsProcessed' /\ AtWork' /\ Guarded'
  BY <1>1, <1>2, <1>3, <1>4, <1>5 DEF Inv, AsProcessed, AtWork, Guarded, Jobs, BeforePut, Running
<1>8. AsTold /\ (Configured' = {} \/ b \in Configured' \/ job.sheet)
  <2>1. Configured = {} \/ b \in Configured \/ job.sheet
    BY <1>1, <1>2 DEF Inv, Alone, BeforePut
  <2>2. /\ \A c : c # b => (c \in Configured' <=> c \in Configured)
        /\ b \in Configured => b \in Configured'
    BY <1>4 DEF Configured, InFolder
  <2>3. CASE Configured = {}
    <3>1. \A c : c # b => c \notin Configured'
      BY <2>2, <2>3
    <3> QED
      BY <2>3, <3>1 DEF AsTold
  <2>4. CASE b \in Configured
    <3>1. Configured' = Configured
      <4>1. \A c : c \in Configured' <=> c \in Configured
        BY <2>2, <2>4
      <4> QED
        BY <4>1
    <3> QED
      BY <2>4, <3>1 DEF AsTold
  <2> QED
    BY <2>1, <2>3, <2>4 DEF AsTold
<1>9. Distinct'
  BY <1>1, <1>2, <1>4 DEF Inv, Alone, Distinct, Untitled, BeforePut, InFolder
<1>10. Alone'
  BY <1>3, <1>8, <1>9 DEF Alone
<1> QED
  BY <1>6, <1>7, <1>8, <1>10 DEF Inv, AsTold

LEMMA DieKeeps == ASSUME Inv, Die PROVE Inv' /\ AsTold
  BY Untouched, StillEnds DEF Die

(* What is processed is configured in the same way by a bundle that has    *)
(* passed the guard.                                                       *)
LEMMA GuardHolds ==
  ASSUME NEW old \in Programs, NEW spec \in Specs, NEW processed, NEW id \in processed, NEW was,
         Unchanged(old, spec, processed), As(old, id, was)
  PROVE  As(Record(spec), id, was)
<1>1. NumberOf(old, id) = was.number
  BY OneNumber DEF As
<1>2. id \in Ids(old)
  BY DEF As, Ids
<1>3. /\ was.number \in DOMAIN spec.sessions
      /\ Kept(spec.sessions[was.number]) = old.sessions[was.number]
  BY <1>1, <1>2 DEF Unchanged
<1> QED
  BY <1>3 DEF As, Record

LEMMA PutBundleKeeps == ASSUME Inv, PutBundle PROVE Inv' /\ AsTold
<1>1. job.at = "bundle"
  BY DEF PutBundle
<1>2. PICK b \in DOMAIN books : b = job.book
  BY <1>1, AtSetup DEF BeforePut
<1>3. CASE UNCHANGED books /\ job' = Idle
  BY <1>3, Untouched, StillEnds
<1>4. ASSUME NEW put \in Put(books[job.book].bundle, Record(job.spec)),
             books' = [books EXCEPT ![job.book].bundle = put.rows],
             job' = [job EXCEPT !.at = "state"]
      PROVE  Inv' /\ AsTold
  <2>1. /\ job \in [at : {"create", "state"} \union BeforePut, spec : Specs, book : Nat, sheet : BOOLEAN]
        /\ job' \in [at : {"create", "state"} \union BeforePut, spec : Specs, book : Nat, sheet : BOOLEAN]
        /\ job'.at = "state" /\ job'.book = b /\ job'.spec = job.spec
    BY <1>1, <1>2, <1>4, AtSetup DEF BeforePut
  <2>2. IsSequence(put.rows) /\ put.rows # << >> /\ put.rows[1] = Record(job.spec)
    BY <1>2, <1>4, PutLeaves DEF Inv, Shelf
  <2>3. PICK book : book = [books[b] EXCEPT !.bundle = put.rows]
    OBVIOUS
  <2>4. /\ IsSequence(books') /\ DOMAIN books' = DOMAIN books
        /\ \A c \in DOMAIN books :
             /\ DOMAIN books'[c] = DOMAIN books[c]
             /\ books'[c].title = books[c].title
             /\ books'[c].placed = books[c].placed
             /\ books'[c].bundle = IF c = b THEN put.rows ELSE books[c].bundle
             /\ books'[c].state = books[c].state
    <3>1. /\ DOMAIN book = DOMAIN books[b] /\ book.bundle = put.rows /\ book.title = books[b].title
          /\ book.placed = books[b].placed /\ book.state = books[b].state
      BY <2>3, Fields
    <3>2. books' = [books EXCEPT ![b] = book]
      BY <1>2, <1>4, <2>3
    <3>3. /\ IsSequence(books') /\ DOMAIN books' = DOMAIN books /\ books'[b] = book
          /\ \A c \in DOMAIN books : c # b => books'[c] = books[c]
      BY <3>2, BookWritten DEF Inv
    <3> QED
      BY <3>1, <3>3
  <2>5. /\ Bundle(b)' = Record(job.spec)
        /\ \A c \in DOMAIN books : Sessions(c)' = Sessions(c) /\ (c # b => Bundle(c)' = Bundle(c))
    BY <2>2, <2>4 DEF Bundle, Sessions
  <2>6. Shelf'
    BY <2>1, <2>2, <2>4, <2>5 DEF Inv, Shelf, Programs
  <2>7. AtWork' /\ Guarded'
    BY <2>1, <2>2, <2>4 DEF AtWork, Guarded, Jobs, BeforePut, Running
  <2>8. ASSUME NEW id \in DOMAIN Sessions(b) PROVE As(Record(job.spec), id, Sessions(b)[id])
    <3>1. books[b].bundle # << >> /\ As(Bundle(b), id, Sessions(b)[id])
      BY <2>8 DEF Inv, AsProcessed
    <3>2. Bundle(b) \in Programs
      BY <3>1 DEF Inv, Shelf
    <3>3. Unchanged(Bundle(b), job.spec, DOMAIN Sessions(b))
      BY <1>1, <1>2, <3>1 DEF Inv, Guarded, BeforePut
    <3> QED
      BY <2>1, <2>8, <3>1, <3>2, <3>3, GuardHolds
  <2>9. AsProcessed'
    BY <2>2, <2>4, <2>5, <2>8 DEF Inv, AsProcessed
  <2>10. AsTold
    <3>1. Configured = {} \/ b \in Configured \/ job.sheet
      BY <1>1, <1>2 DEF Inv, Alone, BeforePut
    <3>2. b \in Configured => Configured' = Configured
      BY <2>2, <2>4 DEF Configured, InFolder
    <3> QED
      BY <3>1, <3>2 DEF AsTold
  <2>11. Distinct'
    BY <2>4 DEF Inv, Alone, Distinct, InFolder
  <2>12. Alone'
    BY <2>1, <2>11 DEF Alone, BeforePut
  <2> QED
    BY <2>6, <2>7, <2>9, <2>10, <2>12 DEF Inv
<1> QED
  BY <1>3, <1>4 DEF PutBundle, To

(* The state of a workbook is put again as it is.                          *)
LEMMA Restated ==
  ASSUME Inv, NEW b \in DOMAIN books, NEW rows, IsSequence(rows),
         (IF rows = << >> THEN << >> ELSE rows[1]) = Sessions(b),
         books' = [books EXCEPT ![b].state = rows]
  PROVE  Still
<1>1. PICK book : book = [books[b] EXCEPT !.state = rows]
  OBVIOUS
<1>2. /\ DOMAIN book = DOMAIN books[b] /\ book.state = rows /\ book.title = books[b].title
      /\ book.placed = books[b].placed /\ book.bundle = books[b].bundle
  BY <1>1, Fields
<1>3. books' = [books EXCEPT ![b] = book]
  BY <1>1
<1>4. /\ IsSequence(books') /\ DOMAIN books' = DOMAIN books /\ books'[b] = book
      /\ \A c \in DOMAIN books : c # b => books'[c] = books[c]
  BY <1>3, BookWritten DEF Inv
<1>5. \A c \in DOMAIN books : IsSequence(books'[c].state) /\ Sessions(c)' = Sessions(c)
  BY <1>2, <1>4 DEF Inv, Shelf, Sessions
<1> QED
  BY <1>2, <1>4, <1>5 DEF Still

LEMMA PutStateKeeps == ASSUME Inv, PutState PROVE Inv' /\ AsTold
<1>1. job.at = "state" /\ job' = Idle
  BY DEF PutState
<1>2. PICK b \in DOMAIN books : b = job.book
  BY <1>1, AtSetup
<1>3. PICK put \in StateToPut(books[b].state) : books' = [books EXCEPT ![b].state = put.rows]
  BY <1>2 DEF PutState
<1>4. IsSequence(books[b].state)
  BY DEF Inv, Shelf
<1>5. IsSequence(put.rows) /\ (IF put.rows = << >> THEN << >> ELSE put.rows[1]) = Sessions(b)
  <2>1. CASE books[b].state = << >>
    <3>1. put \in Put(<< >>, << >>)
      BY <1>3, <2>1 DEF StateToPut
    <3>2. IsSequence(put.rows) /\ put.rows # << >> /\ put.rows[1] = << >>
      BY <3>1, PutLeaves, Single
    <3> QED
      BY <2>1, <3>2 DEF Sessions
  <2>2. CASE books[b].state # << >>
    <3>1. put.rows = books[b].state
      BY <1>3, <2>2 DEF StateToPut
    <3> QED
      BY <1>4, <3>1 DEF Sessions
  <2> QED
    BY <2>1, <2>2
<1> QED
  BY <1>1, <1>3, <1>5, Restated, StillEnds

LEMMA StartRunKeeps == ASSUME Inv, StartRun PROVE Inv' /\ AsTold
<1>1. PICK b \in Configured :
        \E put \in Put(books[b].state, Sessions(b)) :
          /\ books' = [books EXCEPT ![b].state = put.rows]
          /\ job' = IF Len(put.rows) = 1 THEN [at |-> "ensure", book |-> b, program |-> Bundle(b)] ELSE Idle
  BY DEF StartRun
<1>2. PICK put \in Put(books[b].state, Sessions(b)) :
        /\ books' = [books EXCEPT ![b].state = put.rows]
        /\ job' = IF Len(put.rows) = 1 THEN [at |-> "ensure", book |-> b, program |-> Bundle(b)] ELSE Idle
  BY <1>1
<1>3. b \in DOMAIN books /\ books[b].bundle # << >>
  BY DEF Configured, InFolder
<1>4. IsSequence(books[b].state) /\ Bundle(b) \in Programs
  BY <1>3 DEF Inv, Shelf
<1>5. IsSequence(put.rows) /\ put.rows # << >> /\ put.rows[1] = Sessions(b)
  BY <1>4, PutLeaves
<1>6. Still
  BY <1>2, <1>3, <1>5, Restated
<1>7. CASE job' = Idle
  BY <1>6, <1>7, StillEnds
<1>8. CASE job' = [at |-> "ensure", book |-> b, program |-> Bundle(b)]
  <2>1. /\ Shelf' /\ Configured' = Configured /\ AsProcessed' /\ Distinct'
        /\ \A c \in DOMAIN books : Bundle(c)' = Bundle(c)
    BY <1>6, StillKeeps DEF Inv, Alone
  <2>2. b \in Nat
    BY <1>3, Lengths DEF Inv, Shelf
  <2>3. AtWork' /\ Guarded'
    BY <1>3, <1>4, <1>6, <1>8, <2>1, <2>2 DEF AtWork, Guarded, Jobs, BeforePut, Running, Still
  <2>4. Alone'
    BY <1>8, <2>1 DEF Alone, BeforePut
  <2> QED
    BY <2>1, <2>3, <2>4 DEF Inv, AsTold
<1> QED
  BY <1>2, <1>7, <1>8

(* Such a step of a run, which goes on to the next.                        *)
LEMMA RunGoesOn ==
  ASSUME Inv, Still, job.at \in Running, NEW next \in Running, job' = [job EXCEPT !.at = next]
  PROVE  Inv' /\ AsTold
<1>1. /\ Shelf' /\ Configured' = Configured /\ AsProcessed' /\ Distinct'
      /\ \A c \in DOMAIN books : Bundle(c)' = Bundle(c)
  BY StillKeeps DEF Inv, Alone
<1>2. /\ job \in [at : Running, book : Nat, program : Programs]
      /\ job.book \in DOMAIN books /\ job.program = Bundle(job.book)
      /\ books[job.book].bundle # << >>
  BY AtRun
<1>3. /\ job' \in [at : Running, book : Nat, program : Programs]
      /\ job'.at = next /\ job'.book = job.book /\ job'.program = job.program
  BY <1>2
<1>4. PICK b \in DOMAIN books : b = job.book
  BY <1>2
<1>5. AtWork' /\ Guarded'
  BY <1>1, <1>2, <1>3, <1>4 DEF AtWork, Guarded, Jobs, BeforePut, Running, Still
<1>6. Alone'
  BY <1>1, <1>3 DEF Alone, BeforePut, Running
<1> QED
  BY <1>1, <1>5, <1>6 DEF Inv, AsTold

LEMMA EnsureSessionsKeeps == ASSUME Inv, EnsureSessions PROVE Inv' /\ AsTold
<1>1. job.at = "ensure"
  BY DEF EnsureSessions
<1>2. CASE Doubled(books[job.book].control.rows)
  BY <1>2, Untouched, StillEnds DEF EnsureSessions
<1>3. CASE ~Doubled(books[job.book].control.rows)
  <2>1. PICK v : books' = [books EXCEPT ![job.book] = [@ EXCEPT !["control"] = v]]
    BY <1>3 DEF EnsureSessions
  <2>2. job' = [job EXCEPT !.at = "append"]
    BY <1>3 DEF EnsureSessions, To
  <2>3. Still
    BY <1>1, <2>1, AtRun, Drawn DEF Running
  <2> QED
    BY <1>1, <2>2, <2>3, RunGoesOn DEF Running
<1> QED
  BY <1>2, <1>3

LEMMA AppendSessionsKeeps == ASSUME Inv, AppendSessions PROVE Inv' /\ AsTold
<1>1. job.at = "append" /\ job' = [job EXCEPT !.at = "sync"]
  BY DEF AppendSessions, To
<1>2. PICK v : books' = [books EXCEPT ![job.book] = [@ EXCEPT !["control"] = v]]
  BY DEF AppendSessions
<1>3. Still
  BY <1>1, <1>2, AtRun, Drawn DEF Running
<1> QED
  BY <1>1, <1>3, RunGoesOn DEF Running

LEMMA MarkKeeps == ASSUME Inv, Mark PROVE Inv' /\ AsTold
<1>1. job.at = "sync" /\ job' = Idle
  BY DEF Mark
<1>2. CASE books' = books
  BY <1>1, <1>2, Untouched, StillEnds
<1>3. ASSUME NEW v, books' = [books EXCEPT ![job.book] = [@ EXCEPT !["control"] = v]]
      PROVE  Inv' /\ AsTold
  <2>1. Still
    BY <1>1, <1>3, AtRun, Drawn DEF Running
  <2> QED
    BY <1>1, <2>1, StillEnds
<1>4. \/ books' = books
      \/ \E v : books' = [books EXCEPT ![job.book] = [@ EXCEPT !["control"] = v]]
  BY DEF Mark
<1> QED
  BY <1>2, <1>3, <1>4

LEMMA ProcessKeeps == ASSUME Inv, Process PROVE Inv' /\ AsTold
<1>1. job.at = "sync" /\ job' = job
  BY DEF Process
<1>2. PICK b \in DOMAIN books : b = job.book
  BY <1>1, AtRun DEF Running
<1>3. job.program = Bundle(b) /\ books[b].bundle # << >> /\ Bundle(b) \in Programs
  BY <1>1, <1>2, AtRun DEF Running, Inv, Shelf
<1>4. PICK was : was = Sessions(b)
  OBVIOUS
<1>5. PICK s \in DOMAIN Bundle(b).sessions :
        books' = [books EXCEPT ![b].state =
          <<[id \in DOMAIN was \union {Bundle(b).sessions[s].id} |->
               IF id = Bundle(b).sessions[s].id
               THEN [number |-> s, session |-> Bundle(b).sessions[s]] ELSE was[id]]>>]
  BY <1>2, <1>3, <1>4 DEF Process
<1>6. PICK now : now = [id \in DOMAIN was \union {Bundle(b).sessions[s].id} |->
                          IF id = Bundle(b).sessions[s].id
                          THEN [number |-> s, session |-> Bundle(b).sessions[s]] ELSE was[id]]
  OBVIOUS
<1>7. PICK book : book = [books[b] EXCEPT !.state = <<now>>]
  OBVIOUS
<1>8. /\ DOMAIN book = DOMAIN books[b] /\ book.state = <<now>> /\ book.title = books[b].title
      /\ book.placed = books[b].placed /\ book.bundle = books[b].bundle
  BY <1>7, Fields
<1>9. books' = [books EXCEPT ![b] = book]
  BY <1>5, <1>6, <1>7
<1>10. /\ IsSequence(books') /\ DOMAIN books' = DOMAIN books /\ books'[b] = book
       /\ \A c \in DOMAIN books : c # b => books'[c] = books[c]
  BY <1>9, BookWritten DEF Inv
<1>11. /\ IsSequence(<<now>>) /\ Sessions(b)' = now /\ Bundle(b)' = Bundle(b)
       /\ \A c \in DOMAIN books : c # b => Sessions(c)' = Sessions(c) /\ Bundle(c)' = Bundle(c)
  <2>1. <<now>> # << >> /\ <<now>>[1] = now
    OBVIOUS
  <2> QED
    BY <1>8, <1>10, <2>1, Single DEF Sessions, Bundle
<1>12. Shelf'
  BY <1>8, <1>10, <1>11 DEF Inv, Shelf
<1>13. \A id \in DOMAIN now : As(Bundle(b), id, now[id])
  <2>1. \A id \in DOMAIN was : As(Bundle(b), id, was[id])
    BY <1>4 DEF Inv, AsProcessed
  <2>2. As(Bundle(b), Bundle(b).sessions[s].id, [number |-> s, session |-> Bundle(b).sessions[s]])
    BY DEF As
  <2> QED
    BY <1>6, <2>1, <2>2
<1>14. AsProcessed'
  BY <1>3, <1>8, <1>10, <1>11, <1>13 DEF Inv, AsProcessed
<1>15. Configured' = Configured
  BY <1>8, <1>10 DEF Configured, InFolder
<1>16. AtWork' /\ Guarded'
  BY <1>1, <1>2, <1>3, <1>8, <1>10, <1>11 DEF Inv, AtWork, Guarded, BeforePut, Running
<1>17. Alone'
  BY <1>1, <1>8, <1>10 DEF Inv, Alone, Distinct, InFolder, BeforePut
<1> QED
  BY <1>12, <1>14, <1>15, <1>16, <1>17 DEF Inv, AsTold

-----------------------------------------------------------------------------
LEMMA InvNext == Inv /\ [Next]_vars => Inv' /\ AsTold
<1> SUFFICES ASSUME Inv, [Next]_vars PROVE Inv' /\ AsTold
  OBVIOUS
<1>1. ASSUME NEW spec \in Specs, Check(spec) PROVE Inv' /\ AsTold
  BY <1>1, CheckKeeps
<1>2. CASE Create \/ AddTabs \/ Place \/ FillProgram \/ FillControl
  BY <1>2, CreateKeeps, AddTabsKeeps, PlaceKeeps, FillProgramKeeps, FillControlKeeps
<1>3. CASE ReconcileView \/ UpdateControl \/ InsertControl \/ PutBundle \/ PutState
  BY <1>3, ReconcileViewKeeps, UpdateControlKeeps, InsertControlKeeps, PutBundleKeeps, PutStateKeeps
<1>4. CASE StartRun \/ EnsureSessions \/ AppendSessions \/ Process \/ Mark \/ Die
  BY <1>4, StartRunKeeps, EnsureSessionsKeeps, AppendSessionsKeeps, ProcessKeeps, MarkKeeps, DieKeeps
<1>5. CASE UNCHANGED vars
  <2>1. /\ books' = books /\ job' = job
    BY <1>5 DEF vars
  <2>2. Shelf' /\ AsProcessed' /\ Alone'
    BY <2>1 DEF Inv, Shelf, AsProcessed, Alone, Distinct, Untitled, Configured, Bundle, Sessions, InFolder
  <2>3. AtWork' /\ Guarded'
    BY <2>1 DEF Inv, AtWork, Guarded, Bundle, Sessions
  <2>4. AsTold
    BY <2>1 DEF AsTold, Configured, InFolder
  <2> QED
    BY <2>2, <2>3, <2>4 DEF Inv
<1> QED
  BY <1>1, <1>2, <1>3, <1>4, <1>5 DEF Next

LEMMA InvHolds == Spec => []Inv
  BY InvInit, InvNext, PTL DEF Spec

(* Whatever files are set up in whatever order, and wherever a setup dies: *)
(* what eira-run has recorded as processed keeps its number, name and      *)
(* sources in the configuration.                                           *)
THEOREM SetupKeepsProcessed == Spec => []ProcessedSessionsKept
<1>1. Inv => ProcessedSessionsKept
  BY DEF Inv, AsProcessed, As, ProcessedSessionsKept, Configured, InFolder
<1> QED
  BY <1>1, InvHolds, PTL

(* However often setup creates, dies and starts again, a title belongs to  *)
(* one workbook of the folder; and where there is a configured workbook,   *)
(* only a setup that was given another with --sheet configures that too.   *)
THEOREM SetupFindsItsWorkbook == Spec => OneWorkbook
<1>1. Inv /\ [Next]_vars => [Distinct' /\ (Configured # {} /\ Configured' # Configured => job.sheet)]_vars
  BY InvNext DEF Inv, Alone, AsTold
<1> QED
  BY <1>1, InvHolds, PTL DEF Spec, OneWorkbook

-----------------------------------------------------------------------------
(* The rows of Control, of which it only matters which there are.          *)
Rows(b) == books[b].control.rows

IsRow(row) ==
  row = [number |-> row.number, id |-> row.id, name |-> row.name, status |-> row.status]

Tidied(rows) == IsSequence(rows) /\ \A row \in ToSet(rows) : IsRow(row)

(* What a row that says PROCESSED has behind it, and how a row agrees with *)
(* what is configured.                                                     *)
SaidBefore(row) ==
  \E old \in UNION {ToSet(book.control.rows) : book \in Legacy} :
    /\ old.status = "PROCESSED" /\ old.number = row.number
    /\ old.name = row.name /\ old.id \in {"", row.id}

Earned(row, ids) == row.id \in ids \/ SaidBefore(row)

Agrees(row, program) ==
  /\ row.number \in DOMAIN program.sessions
  /\ row = [RowFor(program, row.number) EXCEPT !.status = row.status]

Proven(rows, ids) == \A row \in ToSet(rows) : row.status = "PROCESSED" => Earned(row, ids)
Matches(rows, program) == \A row \in ToSet(rows) : row.status = "PROCESSED" => Agrees(row, program)

UpToDate(rows, program) ==
  \A row \in ToSet(rows) : row.number \in DOMAIN program.sessions => Agrees(row, program)

Complete(rows, program) ==
  \A s \in DOMAIN program.sessions :
    /\ \E row \in ToSet(rows) : row.number = s
    /\ \A row \in ToSet(rows) : row.number = s => Agrees(row, program)

(* What is written over a row, for the session of its number.              *)
Refreshed(row, program) ==
  IF row.number \in DOMAIN program.sessions
  THEN [RowFor(program, row.number) EXCEPT !.status = row.status] ELSE row

(* In every workbook a row says PROCESSED for a reason, and agrees with    *)
(* the configuration, if there is one.                                     *)
Ledger ==
  \A b \in DOMAIN books :
    /\ DOMAIN books[b].control = {"header", "rows"}
    /\ Tidied(Rows(b)) /\ Proven(Rows(b), DOMAIN Sessions(b))
    /\ books[b].bundle # << >> => Matches(Rows(b), Bundle(b))

(* What the setup or the run at work has seen to so far: the guard on      *)
(* Control holds until the configuration is written, which the rows that   *)
(* say PROCESSED agree with by then; the rows of a run are brought up to   *)
(* date, and then it has all of them.                                      *)
Due ==
  /\ job.at \in BeforePut => ControlAllows(books[job.book].control, job.spec)
  /\ job.at \in {"insert", "bundle"} => Matches(Rows(job.book), Record(job.spec))
  /\ job.at = "append" => UpToDate(Rows(job.book), job.program)
  /\ job.at = "sync" => Complete(Rows(job.book), job.program)

-----------------------------------------------------------------------------

(* The elements of a sequence, under two names. *)
LEMMA InToSet == ASSUME NEW x PROVE ToSet(x) = {x[i] : i \in DOMAIN x} /\ ToSet(x) = Elements(x)
  BY DEF ToSet, Elements

(* A function from 1 .. n is a sequence.                                   *)
LEMMA FromOne ==
  ASSUME NEW n \in Nat, NEW x, DOMAIN x = 1 .. n, x = [i \in 1 .. n |-> x[i]]
  PROVE  IsSequence(x)
<1>1. x \in [1 .. n -> Elements(x)]
  BY DEF Elements
<1> QED
  BY <1>1, SeqDef DEF IsSequence

(* A program has at least one session. *)
LEMMA Sized ==
  ASSUME NEW program \in Programs
  PROVE  \E n \in Nat \ {0} : DOMAIN program.sessions = 1 .. n
<1>1. PICK spec \in Specs : program = Record(spec)
  BY DEF Programs
<1>2. DOMAIN program.sessions = DOMAIN spec.sessions
  BY <1>1 DEF Record
<1>3. IsSequence(spec.sessions) /\ spec.sessions # << >>
  BY SetupAssumption, InToSet DEF IsSequence
<1>4. Len(spec.sessions) \in Nat \ {0} /\ DOMAIN spec.sessions = 1 .. Len(spec.sessions)
  BY <1>3, Lengths
<1> QED
  BY <1>2, <1>4

(* What a setup file says and what is kept of it.                          *)
LEMMA RecordIs ==
  ASSUME NEW spec \in Specs
  PROVE  /\ Record(spec) \in Programs /\ Record(spec).name = spec.name
         /\ DOMAIN Record(spec).sessions = DOMAIN spec.sessions
         /\ \A s \in DOMAIN spec.sessions :
              /\ Record(spec).sessions[s].id = spec.sessions[s].id
              /\ Record(spec).sessions[s].name = spec.sessions[s].name
              /\ spec.sessions[s].id # ""
  BY SpecAssumption DEF Record, Kept, Programs

(* Every session of a program has an identifier. *)
LEMMA HasId ==
  ASSUME NEW program \in Programs, NEW s \in DOMAIN program.sessions
  PROVE  program.sessions[s].id # ""
<1>1. PICK spec \in Specs : program = Record(spec)
  BY DEF Programs
<1>2. s \in DOMAIN spec.sessions /\ program.sessions[s].id = spec.sessions[s].id
  BY <1>1, RecordIs
<1> QED
  BY <1>2, SpecAssumption

(* The Control row of a session, as it is first written. *)
LEMMA RowIs ==
  ASSUME NEW program, NEW s, NEW status
  PROVE  /\ [RowFor(program, s) EXCEPT !.status = status]
              = [number |-> s, id |-> program.sessions[s].id,
                 name |-> program.sessions[s].name, status |-> status]
         /\ IsRow(RowFor(program, s)) /\ RowFor(program, s).status = "pending"
         /\ RowFor(program, s).number = s
         /\ RowFor(program, s) = [RowFor(program, s) EXCEPT !.status = "pending"]
  BY DEF RowFor, IsRow

(* What becomes of a Control row when its number, identifier and name are *)
(* brought up to date: the status stays.                                  *)
LEMMA RefreshedIs ==
  ASSUME NEW row, IsRow(row), NEW program
  PROVE  /\ IsRow(Refreshed(row, program))
         /\ Refreshed(row, program).number = row.number
         /\ Refreshed(row, program).status = row.status
         /\ row.number \in DOMAIN program.sessions =>
              /\ Agrees(Refreshed(row, program), program)
              /\ Refreshed(row, program).id = program.sessions[row.number].id
              /\ Refreshed(row, program).name = program.sessions[row.number].name
<1>1. CASE row.number \in DOMAIN program.sessions
  <2>1. Refreshed(row, program)
          = [number |-> row.number, id |-> program.sessions[row.number].id,
             name |-> program.sessions[row.number].name, status |-> row.status]
    BY <1>1, RowIs DEF Refreshed
  <2>2. Refreshed(row, program).number = row.number /\ Refreshed(row, program).status = row.status
    BY <2>1
  <2>3. Agrees(Refreshed(row, program), program)
    BY <1>1, <2>1, <2>2, RowIs DEF Agrees
  <2> QED
    BY <2>1, <2>3 DEF IsRow
<1>2. CASE row.number \notin DOMAIN program.sessions
  BY <1>2 DEF Refreshed
<1> QED
  BY <1>1, <1>2

(* A row that agrees with the program needs no update. *)
LEMMA AgreesIs ==
  ASSUME NEW row, NEW program, Agrees(row, program)
  PROVE  /\ row.number \in DOMAIN program.sessions
         /\ row.id = program.sessions[row.number].id
         /\ row.name = program.sessions[row.number].name
         /\ Refreshed(row, program) = row
<1>1. row = [number |-> row.number, id |-> program.sessions[row.number].id,
             name |-> program.sessions[row.number].name, status |-> row.status]
  <2>1. PICK s, status : s = row.number /\ status = row.status
    OBVIOUS
  <2>2. row = [RowFor(program, s) EXCEPT !.status = status]
    BY <2>1 DEF Agrees
  <2> QED
    BY <2>1, <2>2, RowIs
<1>2. row.id = program.sessions[row.number].id /\ row.name = program.sessions[row.number].name
  BY <1>1
<1> QED
  BY <1>2 DEF Agrees, Refreshed

(* The rows after an update, an append, and what is appended.              *)
LEMMA UpdatedIs ==
  ASSUME NEW rows, Tidied(rows), NEW program
  PROVE  /\ Tidied(Updated(rows, program))
         /\ ToSet(Updated(rows, program)) = {Refreshed(row, program) : row \in ToSet(rows)}
<1> DEFINE new == Updated(rows, program)
<1>1. DOMAIN new = DOMAIN rows /\ \A i \in DOMAIN rows : new[i] = Refreshed(rows[i], program)
  BY DEF Updated, Refreshed
<1>2. new = [i \in DOMAIN rows |-> new[i]]
  BY DEF Updated
<1> HIDE DEF new
<1>3. Len(rows) \in Nat /\ DOMAIN rows = 1 .. Len(rows)
  BY Lengths DEF Tidied
<1>4. IsSequence(new)
  BY <1>1, <1>2, <1>3, FromOne
<1>5. ToSet(new) = {Refreshed(row, program) : row \in ToSet(rows)}
  <2>1. ToSet(new) = {new[i] : i \in DOMAIN rows} /\ ToSet(rows) = {rows[i] : i \in DOMAIN rows}
    BY <1>1, InToSet
  <2>2. {new[i] : i \in DOMAIN rows} = {Refreshed(rows[i], program) : i \in DOMAIN rows}
    BY <1>1
  <2> QED
    BY <2>1, <2>2
<1>6. \A row \in ToSet(rows) : IsRow(Refreshed(row, program))
  BY RefreshedIs DEF Tidied
<1> QED
  BY <1>4, <1>5, <1>6 DEF new, Tidied

(* The elements of a concatenation. *)
LEMMA JoinedSet ==
  ASSUME NEW T, NEW s \in Seq(T), NEW t \in Seq(T), NEW r, Joins(r, s, t, T)
  PROVE  ToSet(r) = ToSet(s) \union ToSet(t)
<1>1. /\ DOMAIN s = 1 .. Len(s) /\ DOMAIN t = 1 .. Len(t) /\ DOMAIN r = 1 .. Len(r)
      /\ Len(s) \in Nat /\ Len(t) \in Nat /\ Len(r) = Len(s) + Len(t)
  BY LenProperties DEF Joins
<1>2. ASSUME NEW e \in ToSet(r) PROVE e \in ToSet(s) \union ToSet(t)
  <2>1. PICK i \in 1 .. Len(r) : e = r[i]
    BY <1>1, <1>2, InToSet
  <2>2. CASE i \in 1 .. Len(s)
    <3>1. e = s[i] /\ i \in DOMAIN s
      BY <1>1, <2>1, <2>2 DEF Joins
    <3> QED
      BY <3>1, InToSet
  <2>3. ASSUME NEW k \in 1 .. Len(t), i = Len(s) + k PROVE e \in ToSet(t)
    <3>1. e = t[k] /\ k \in DOMAIN t
      BY <1>1, <2>1, <2>3 DEF Joins
    <3> QED
      BY <3>1, InToSet
  <2> QED
    BY <2>1, <2>2, <2>3 DEF Joins
<1>3. ASSUME NEW e \in ToSet(s) PROVE e \in ToSet(r)
  <2>1. PICK i \in 1 .. Len(s) : e = s[i]
    BY <1>1, <1>3, InToSet
  <2>2. i \in DOMAIN r /\ r[i] = e
    BY <1>1, <2>1 DEF Joins
  <2> QED
    BY <2>2, InToSet
<1>4. ASSUME NEW e \in ToSet(t) PROVE e \in ToSet(r)
  <2>1. PICK k \in 1 .. Len(t) : e = t[k]
    BY <1>1, <1>4, InToSet
  <2>2. Len(s) + k \in DOMAIN r /\ r[Len(s) + k] = e
    BY <1>1, <2>1 DEF Joins
  <2> QED
    BY <2>2, InToSet
<1> QED
  BY <1>2, <1>3, <1>4

(* The rows after an append, once or twice. *)
LEMMA AddedIs ==
  ASSUME NEW rows, NEW more, IsSequence(rows), IsSequence(more), NEW added \in Added(rows, more)
  PROVE  IsSequence(added.rows) /\ ToSet(added.rows) = ToSet(rows) \union ToSet(more)
<1> DEFINE T == Elements(rows) \union Elements(more)
<1>1. rows \in Seq(T) /\ more \in Seq(T)
  BY SeqMonotonic DEF IsSequence
<1> HIDE DEF T
<1>2. PICK both : both = rows \o more
  OBVIOUS
<1>3. Joins(both, rows, more, T)
  BY <1>1, <1>2, Joined
<1>4. PICK thrice : thrice = both \o more
  OBVIOUS
<1>5. both \in Seq(T)
  BY <1>3 DEF Joins
<1>6. Joins(thrice, both, more, T)
  BY <1>1, <1>4, <1>5, Joined
<1>7. added.rows = both \/ added.rows = thrice
  BY <1>2, <1>4 DEF Added
<1>8. ToSet(both) = ToSet(rows) \union ToSet(more)
  BY <1>1, <1>3, JoinedSet
<1>9. ToSet(thrice) = ToSet(both) \union ToSet(more)
  BY <1>1, <1>5, <1>6, JoinedSet
<1>10. IsSequence(both) /\ IsSequence(thrice)
  BY <1>5, <1>6, InSeq DEF Joins
<1> QED
  BY <1>7, <1>8, <1>9, <1>10

(* The rows that Control lacks are those of the sessions with no row of *)
(* their number.                                                        *)
LEMMA MissingIs ==
  ASSUME NEW rows, NEW program \in Programs
  PROVE  /\ IsSequence(Missing(rows, program))
         /\ ToSet(Missing(rows, program))
              = {RowFor(program, s) : s \in DOMAIN program.sessions \ {row.number : row \in ToSet(rows)}}
<1> DEFINE numbers == DOMAIN program.sessions \ {row.number : row \in ToSet(rows)}
           new == Missing(rows, program)
<1>1. PICK n \in Nat \ {0} : DOMAIN program.sessions = 1 .. n
  BY Sized
<1>2. IsFiniteSet(numbers) /\ numbers \subseteq Int
  BY <1>1, BoundedSet
<1>3. /\ DOMAIN new = 1 .. Cardinality(numbers)
      /\ new = [k \in 1 .. Cardinality(numbers) |-> new[k]]
      /\ \A k \in 1 .. Cardinality(numbers) : new[k] = RowFor(program, Ascending(numbers)[k])
  BY DEF Missing
<1> HIDE DEF numbers, new
<1>4. Cardinality(numbers) \in Nat /\ IncreasingList(Ascending(numbers), Cardinality(numbers), numbers)
  BY <1>2, SortedList
<1>5. IsSequence(new)
  BY <1>3, <1>4, FromOne
<1>6. {Ascending(numbers)[k] : k \in 1 .. Cardinality(numbers)} = numbers
  BY <1>4 DEF IncreasingList
<1>7. ToSet(new) = {RowFor(program, s) : s \in numbers}
  <2>1. ToSet(new) = {new[k] : k \in 1 .. Cardinality(numbers)}
    BY <1>3, InToSet
  <2>2. ToSet(new) = {RowFor(program, Ascending(numbers)[k]) : k \in 1 .. Cardinality(numbers)}
    BY <1>3, <2>1
  <2> QED
    BY <1>6, <2>2
<1> QED
  BY <1>5, <1>7 DEF numbers, new

-----------------------------------------------------------------------------
(* Ids of processed sessions are not empty.                                *)
LEMMA KnownHaveIds == ASSUME Inv, NEW b \in DOMAIN books PROVE "" \notin DOMAIN Sessions(b)
<1> SUFFICES ASSUME "" \in DOMAIN Sessions(b) PROVE FALSE
  OBVIOUS
<1>1. PICK was : was = Sessions(b)[""]
  OBVIOUS
<1>2. books[b].bundle # << >> /\ As(Bundle(b), "", was)
  BY <1>1 DEF Inv, AsProcessed
<1>3. Bundle(b) \in Programs
  BY <1>2 DEF Inv, Shelf
<1>4. was.number \in DOMAIN Bundle(b).sessions /\ Bundle(b).sessions[was.number].id = ""
  BY <1>2 DEF As
<1> QED
  BY <1>3, <1>4, HasId

(* A row that passes the guard stays what it is when it is updated, but    *)
(* for the folder it may have lacked.                                      *)
LEMMA GuardedRow ==
  ASSUME NEW spec \in Specs, NEW control, ControlAllows(control, spec),
         NEW row \in ToSet(control.rows), IsRow(row), row.status = "PROCESSED",
         NEW ids, "" \notin ids, Earned(row, ids)
  PROVE  /\ Agrees(Refreshed(row, Record(spec)), Record(spec))
         /\ Earned(Refreshed(row, Record(spec)), ids)
         /\ \A program \in Programs : Agrees(row, program) => Refreshed(row, Record(spec)) = row
<1> DEFINE new == Refreshed(row, Record(spec))
<1>1. /\ row.number \in DOMAIN spec.sessions
      /\ spec.sessions[row.number].name = row.name
      /\ row.id \in {"", spec.sessions[row.number].id}
  BY DEF ControlAllows
<1>2. /\ row.number \in DOMAIN Record(spec).sessions
      /\ Record(spec).sessions[row.number].name = row.name
      /\ row.id \in {"", Record(spec).sessions[row.number].id}
  BY <1>1, RecordIs
<1>3. /\ IsRow(new) /\ Agrees(new, Record(spec)) /\ new.number = row.number
      /\ new.status = row.status /\ new.name = row.name
      /\ new.id = Record(spec).sessions[row.number].id
  BY <1>2, RefreshedIs
<1> HIDE DEF new
<1>4. Earned(new, ids)
  <2>1. CASE row.id \in ids
    BY <1>2, <1>3, <2>1 DEF Earned
  <2>2. CASE SaidBefore(row)
    <3>1. PICK old \in UNION {ToSet(book.control.rows) : book \in Legacy} :
            /\ old.status = "PROCESSED" /\ old.number = row.number
            /\ old.name = row.name /\ old.id \in {"", row.id}
      BY <2>2 DEF SaidBefore
    <3>2. old.number = new.number /\ old.name = new.name /\ old.id \in {"", new.id}
      BY <1>2, <1>3, <3>1
    <3> QED
      BY <3>1, <3>2 DEF Earned, SaidBefore
  <2> QED
    BY <2>1, <2>2 DEF Earned
<1>5. ASSUME NEW program \in Programs, Agrees(row, program) PROVE new = row
  <2>1. row.id # ""
    <3>1. row.number \in DOMAIN program.sessions /\ row.id = program.sessions[row.number].id
      BY <1>5, AgreesIs
    <3>2. program.sessions[row.number].id # ""
      BY <3>1, HasId
    <3> QED
      BY <3>1, <3>2
  <2>2. new.id = row.id
    BY <1>2, <1>3, <2>1
  <2>3. /\ new = [number |-> new.number, id |-> new.id, name |-> new.name, status |-> new.status]
        /\ row = [number |-> row.number, id |-> row.id, name |-> row.name, status |-> row.status]
    BY <1>3 DEF IsRow
  <2> QED
    BY <1>3, <2>2, <2>3
<1> QED
  BY <1>3, <1>4, <1>5 DEF new

(* Rows that agree with what a file keeps pass its guard.                  *)
LEMMA MatchesAllowed ==
  ASSUME NEW spec \in Specs, NEW control, Matches(control.rows, Record(spec))
  PROVE  ControlAllows(control, spec)
<1>1. ASSUME NEW row \in ToSet(control.rows), row.status = "PROCESSED"
      PROVE  /\ row.number \in DOMAIN spec.sessions
             /\ spec.sessions[row.number].name = row.name
             /\ row.id \in {"", spec.sessions[row.number].id}
  <2>1. Agrees(row, Record(spec))
    BY <1>1 DEF Matches
  <2>2. /\ row.number \in DOMAIN Record(spec).sessions
        /\ row.id = Record(spec).sessions[row.number].id
        /\ row.name = Record(spec).sessions[row.number].name
    BY <2>1, AgreesIs
  <2> QED
    BY <2>2, RecordIs
<1> QED
  BY <1>1 DEF ControlAllows

(* Rows that are pending disturb nothing.                                  *)
Pending(rows) == \A row \in ToSet(rows) : IsRow(row) /\ row.status = "pending"

(* Rows added as pending keep Control tidy and prove nothing new. *)
LEMMA PendingAdded ==
  ASSUME NEW rows, Tidied(rows), NEW more, Pending(more),
         NEW new, IsSequence(new), ToSet(new) = ToSet(rows) \union ToSet(more)
  PROVE  /\ Tidied(new)
         /\ \A ids : Proven(rows, ids) => Proven(new, ids)
         /\ \A program : Matches(rows, program) => Matches(new, program)
<1>1. \A row \in ToSet(new) : row.status = "PROCESSED" => row \in ToSet(rows)
  BY DEF Pending
<1>2. Tidied(new)
  BY DEF Tidied, Pending
<1>3. \A ids : Proven(rows, ids) => Proven(new, ids)
  BY <1>1 DEF Proven
<1>4. \A program : Matches(rows, program) => Matches(new, program)
  BY <1>1 DEF Matches
<1> QED
  BY <1>2, <1>3, <1>4

(* The rows added for missing sessions are pending. *)
LEMMA MissingPending ==
  ASSUME NEW rows, NEW program \in Programs
  PROVE  Pending(Missing(rows, program))
<1>1. \A s : IsRow(RowFor(program, s)) /\ RowFor(program, s).status = "pending"
  BY RowIs
<1>2. \A row \in ToSet(Missing(rows, program)) : \E s : row = RowFor(program, s)
  BY MissingIs
<1> QED
  BY <1>1, <1>2 DEF Pending

-----------------------------------------------------------------------------
(* A step that writes the Control of one workbook, and one that writes     *)
(* none.                                                                   *)
LEMMA ControlWritten ==
  ASSUME Inv, Ledger, NEW b \in DOMAIN books, NEW control,
         books' = [books EXCEPT ![b] = [books[b] EXCEPT !.control = control]],
         DOMAIN control = {"header", "rows"}, Tidied(control.rows),
         Proven(control.rows, DOMAIN Sessions(b)),
         books[b].bundle # << >> => Matches(control.rows, Bundle(b))
  PROVE  /\ Ledger' /\ books'[b].control = control /\ Rows(b)' = control.rows
         /\ Bundle(b)' = Bundle(b) /\ Sessions(b)' = Sessions(b)
         /\ books'[b].bundle = books[b].bundle
<1>1. PICK book : book = [books[b] EXCEPT !.control = control]
  OBVIOUS
<1>2. DOMAIN books[b] = {"placed", "title", "tabs", "programa", "control", "bundle", "state"}
  BY DEF Inv, Shelf
<1>3. book.control = control /\ book.bundle = books[b].bundle /\ book.state = books[b].state
  BY <1>1, <1>2
<1>4. books' = [books EXCEPT ![b] = book]
  BY <1>1
<1>5. /\ DOMAIN books' = DOMAIN books /\ books'[b] = book
      /\ \A c \in DOMAIN books : c # b => books'[c] = books[c]
  BY <1>4, BookWritten DEF Inv
<1>6. Rows(b)' = control.rows /\ Bundle(b)' = Bundle(b) /\ Sessions(b)' = Sessions(b)
  BY <1>3, <1>5 DEF Rows, Bundle, Sessions
<1>7. \A c \in DOMAIN books : c # b =>
        Rows(c)' = Rows(c) /\ Bundle(c)' = Bundle(c) /\ Sessions(c)' = Sessions(c)
  BY <1>5 DEF Rows, Bundle, Sessions
<1>8. ASSUME NEW c \in DOMAIN books
      PROVE  /\ DOMAIN books'[c].control = {"header", "rows"}
             /\ Tidied(Rows(c)') /\ Proven(Rows(c)', DOMAIN Sessions(c)')
             /\ books'[c].bundle # << >> => Matches(Rows(c)', Bundle(c)')
  <2>1. CASE c = b
    BY <1>3, <1>5, <1>6, <2>1
  <2>2. CASE c # b
    BY <1>5, <1>7, <2>2 DEF Ledger
  <2> QED
    BY <2>1, <2>2
<1>9. Ledger'
  BY <1>5, <1>8 DEF Ledger, Tidied, Proven, Matches, Agrees, RowFor
<1> QED
  BY <1>3, <1>5, <1>6, <1>9

(* A write to the Control rows of one workbook keeps the ledger when the *)
(* new rows are in order.                                                *)
LEMMA RowsWritten ==
  ASSUME Inv, Ledger, NEW b \in DOMAIN books, NEW rows,
         books' = [books EXCEPT ![b].control.rows = rows],
         Tidied(rows), Proven(rows, DOMAIN Sessions(b)),
         books[b].bundle # << >> => Matches(rows, Bundle(b))
  PROVE  /\ Ledger' /\ Rows(b)' = rows /\ books'[b].control.rows = rows
         /\ Bundle(b)' = Bundle(b) /\ Sessions(b)' = Sessions(b)
<1>1. PICK control : control = [books[b].control EXCEPT !.rows = rows]
  OBVIOUS
<1>2. DOMAIN control = {"header", "rows"} /\ control.rows = rows
  BY <1>1 DEF Ledger
<1>3. books' = [books EXCEPT ![b] = [books[b] EXCEPT !.control = control]]
  BY <1>1
<1> QED
  BY <1>2, <1>3, ControlWritten

(* A write to the state of one workbook leaves the others and every *)
(* Control alone.                                                   *)
LEMMA StateWritten ==
  ASSUME Inv, NEW b \in DOMAIN books, NEW rows, books' = [books EXCEPT ![b].state = rows]
  PROVE  /\ DOMAIN books' = DOMAIN books /\ books'[b].state = rows
         /\ \A c \in DOMAIN books : books'[c].control = books[c].control /\ books'[c].bundle = books[c].bundle
         /\ \A c \in DOMAIN books : c # b => books'[c].state = books[c].state
<1>1. PICK book : book = [books[b] EXCEPT !.state = rows]
  OBVIOUS
<1>2. DOMAIN books[b] = {"placed", "title", "tabs", "programa", "control", "bundle", "state"}
  BY DEF Inv, Shelf
<1>3. book.control = books[b].control /\ book.bundle = books[b].bundle /\ book.state = rows
  BY <1>1, <1>2
<1>4. books' = [books EXCEPT ![b] = book]
  BY <1>1
<1>5. /\ DOMAIN books' = DOMAIN books /\ books'[b] = book
      /\ \A c \in DOMAIN books : c # b => books'[c] = books[c]
  BY <1>4, BookWritten DEF Inv
<1> QED
  BY <1>3, <1>5

(* A step that leaves Control and the bundles, and forgets no session, *)
(* keeps the ledger.                                                   *)
LEMMA ControlLeft ==
  ASSUME Ledger, DOMAIN books' = DOMAIN books,
         \A b \in DOMAIN books :
           /\ books'[b].control = books[b].control /\ books'[b].bundle = books[b].bundle
           /\ DOMAIN Sessions(b) \subseteq DOMAIN Sessions(b)'
  PROVE  Ledger' /\ \A b \in DOMAIN books : Rows(b)' = Rows(b)
<1>1. \A b \in DOMAIN books : Rows(b)' = Rows(b) /\ Bundle(b)' = Bundle(b)
  BY DEF Rows, Bundle
<1>2. ASSUME NEW b \in DOMAIN books
      PROVE  /\ DOMAIN books'[b].control = {"header", "rows"}
             /\ Tidied(Rows(b)') /\ Proven(Rows(b)', DOMAIN Sessions(b)')
             /\ books'[b].bundle # << >> => Matches(Rows(b)', Bundle(b)')
  BY <1>1 DEF Ledger, Proven, Earned
<1>3. Ledger'
  BY <1>2 DEF Ledger, Tidied, Proven, Matches, Agrees, RowFor
<1> QED
  BY <1>1, <1>3

-----------------------------------------------------------------------------
Also == Ledger /\ Due

(* The second invariant holds at first. *)
LEMMA AlsoInit == Init => Also
<1> SUFFICES ASSUME Init PROVE Also
  OBVIOUS
<1>1. Due
  BY DEF Init, Idle, Due, BeforePut
<1>2. CASE books = << >>
  <2>1. DOMAIN books = {}
    BY <1>2
  <2> QED
    BY <1>1, <2>1 DEF Also, Ledger
<1>3. ASSUME NEW book \in Legacy, books = <<book>> PROVE Also
  <2>1. DOMAIN books = {1} /\ books[1] = book
    BY <1>3
  <2>2. /\ book.bundle = << >> /\ DOMAIN book.control = {"header", "rows"}
        /\ IsSequence(book.control.rows) /\ \A row \in ToSet(book.control.rows) : IsRow(row)
    BY LegacyAssumption, InToSet DEF IsSequence, IsRow
  <2>3. \A row \in ToSet(book.control.rows) : row.status = "PROCESSED" => SaidBefore(row)
    BY DEF SaidBefore
  <2>4. Tidied(Rows(1)) /\ Proven(Rows(1), DOMAIN Sessions(1))
    BY <2>1, <2>2, <2>3 DEF Tidied, Proven, Earned, Rows
  <2> QED
    BY <1>1, <2>1, <2>2, <2>4 DEF Also, Ledger
<1> QED
  BY <1>2, <1>3 DEF Init

(* Steps of a setup that leave Control, bundles and states alone.          *)
LEMMA NextBefore ==
  ASSUME Inv, Also, Still, \A b \in DOMAIN books : books'[b].control = books[b].control,
         job.at \in BeforePut, NEW next \in BeforePut \ {"insert", "bundle"},
         job' = [job EXCEPT !.at = next]
  PROVE  Also'
<1>1. Ledger'
  BY ControlLeft DEF Still, Also
<1>2. /\ job \in [at : {"create", "state"} \union BeforePut, spec : Specs, book : Nat, sheet : BOOLEAN]
      /\ job.book \in DOMAIN books
  BY AtSetup
<1>3. job'.at = next /\ job'.book = job.book /\ job'.spec = job.spec
  BY <1>2
<1>4. ControlAllows(books[job.book].control, job.spec)
  BY DEF Also, Due
<1>5. books'[job'.book].control = books[job.book].control
  BY <1>2, <1>3
<1>6. Due'
  BY <1>3, <1>4, <1>5 DEF Due, BeforePut
<1> QED
  BY <1>1, <1>6 DEF Also

(* Writing tabs and Programa leaves Control.                               *)
LEMMA DrawnLeaves ==
  ASSUME Inv, job.book \in DOMAIN books, NEW field \in {"tabs", "programa", "placed"}, NEW value,
         books' = [books EXCEPT ![job.book] = [@ EXCEPT ![field] = value]]
  PROVE  \A b \in DOMAIN books : books'[b].control = books[b].control
<1>1. PICK b \in DOMAIN books : b = job.book
  OBVIOUS
<1>2. PICK book : book = [books[b] EXCEPT ![field] = value]
  OBVIOUS
<1>3. DOMAIN books[b] = {"placed", "title", "tabs", "programa", "control", "bundle", "state"}
  BY DEF Inv, Shelf
<1>4. book.control = books[b].control
  BY <1>2, <1>3
<1>5. books' = [books EXCEPT ![b] = book]
  BY <1>1, <1>2
<1>6. books'[b] = book /\ \A c \in DOMAIN books : c # b => books'[c] = books[c]
  BY <1>5, BookWritten DEF Inv
<1> QED
  BY <1>4, <1>6

(* Every action keeps the second invariant: one lemma for each, down to *)
(* AlsoNext.                                                            *)
LEMMA CheckAlso == ASSUME Inv, Also, NEW spec \in Specs, Check(spec) PROVE Also'
<1>1. PICK b \in Found(spec.name) \union InFolder :
        /\ Accepted(spec, b)
        /\ job' = [at |-> IF b = 0 THEN "create" ELSE "tabs", spec |-> spec, book |-> b,
                   sheet |-> b \notin Found(spec.name)]
  BY DEF Check
<1>2. books' = books
  BY DEF Check
<1>3. Ledger'
  BY <1>2, Untouched, ControlLeft DEF Also, Still
<1>4. CASE b = 0
  BY <1>1, <1>3, <1>4 DEF Also, Due, BeforePut
<1>5. CASE b # 0
  <2>1. ControlAllows(books[b].control, spec)
    BY <1>1, <1>5 DEF Accepted
  <2>2. Due'
    BY <1>1, <1>2, <1>5, <2>1 DEF Due, BeforePut
  <2> QED
    BY <1>3, <2>2 DEF Also
<1> QED
  BY <1>4, <1>5

LEMMA NewControl == ASSUME NEW name PROVE New(name).control = [header |-> FALSE, rows |-> << >>]
  BY DEF New

LEMMA CreateAlso == ASSUME Inv, Also, Create PROVE Also'
<1>0. PICK b : b = Len(books) + 1
  OBVIOUS
<1>1. /\ job.at = "create" /\ books' = Append(books, New(job.spec.name))
      /\ job' = [job EXCEPT !.at = "tabs", !.book = b]
  BY <1>0 DEF Create
<1>2. /\ b \notin DOMAIN books /\ DOMAIN books' = DOMAIN books \union {b}
      /\ books'[b] = New(job.spec.name) /\ b \in Nat
      /\ \A c \in DOMAIN books : books'[c] = books[c]
  BY <1>0, <1>1, Extended, Lengths DEF Inv, Shelf
<1>3. job \in [at : {"create", "state"} \union BeforePut, spec : Specs, book : Nat, sheet : BOOLEAN]
  BY <1>1 DEF Inv, AtWork, Jobs, Idle, Running
<1>4. job'.at = "tabs" /\ job'.book = b
  BY <1>1, <1>2, <1>3
<1>5. /\ books'[b].control = [header |-> FALSE, rows |-> << >>]
      /\ books'[b].bundle = << >> /\ books'[b].state = << >>
  BY <1>2, NewControl, NewBook
<1>6. Rows(b)' = << >> /\ ToSet(<< >>) = {} /\ IsSequence(<< >>)
  <2>1. DOMAIN << >> = {}
    OBVIOUS
  <2>2. ToSet(<< >>) = {}
    BY <2>1, InToSet
  <2>3. Rows(b)' = << >>
    BY <1>5 DEF Rows
  <2>4. IsSequence(<< >>)
    BY Single
  <2> QED
    BY <2>2, <2>3, <2>4
<1>7. \A c \in DOMAIN books : Rows(c)' = Rows(c) /\ Bundle(c)' = Bundle(c) /\ Sessions(c)' = Sessions(c)
  BY <1>2 DEF Rows, Bundle, Sessions
<1>8. ASSUME NEW c \in DOMAIN books'
      PROVE  /\ DOMAIN books'[c].control = {"header", "rows"}
             /\ Tidied(Rows(c)') /\ Proven(Rows(c)', DOMAIN Sessions(c)')
             /\ books'[c].bundle # << >> => Matches(Rows(c)', Bundle(c)')
  <2>1. CASE c = b
    BY <1>5, <1>6, <2>1 DEF Tidied, Proven
  <2>2. CASE c \in DOMAIN books
    BY <1>2, <1>7, <2>2 DEF Also, Ledger
  <2> QED
    BY <1>2, <2>1, <2>2
<1>9. Ledger'
  BY <1>8 DEF Ledger, Tidied, Proven, Matches, Agrees, RowFor
<1>10. ToSet(books'[b].control.rows) = {}
  BY <1>5, <1>6
<1>11. ControlAllows(books'[job'.book].control, job'.spec)
  BY <1>4, <1>10 DEF ControlAllows
<1>12. Due'
  BY <1>4, <1>11 DEF Due, BeforePut
<1> QED
  BY <1>9, <1>12 DEF Also

LEMMA AddTabsAlso == ASSUME Inv, Also, AddTabs PROVE Also'
<1>1. /\ job.at = "tabs" /\ books' = [books EXCEPT ![job.book] = [@ EXCEPT !["tabs"] = TRUE]]
      /\ job' = [job EXCEPT !.at = IF books[job.book].placed THEN "programa" ELSE "place"]
  BY DEF AddTabs, To
<1>2. Still
  BY <1>1, AtSetup, Drawn DEF BeforePut
<1>3. \A b \in DOMAIN books : books'[b].control = books[b].control
  BY <1>1, AtSetup, DrawnLeaves DEF BeforePut
<1> QED
  BY <1>1, <1>2, <1>3, NextBefore DEF BeforePut

LEMMA PlaceAlso == ASSUME Inv, Also, Place PROVE Also'
<1>1. /\ job.at = "place" /\ books' = [books EXCEPT ![job.book] = [@ EXCEPT !["placed"] = TRUE]]
      /\ job' = [job EXCEPT !.at = "programa"]
  BY DEF Place, To
<1>2. job.book \in DOMAIN books
  BY <1>1, AtSetup DEF BeforePut
<1>3. \A b \in DOMAIN books : books'[b].control = books[b].control
  BY <1>1, <1>2, DrawnLeaves
<1>4. DOMAIN books' = DOMAIN books
  BY <1>1
<1>5. \A b \in DOMAIN books :
        books'[b].bundle = books[b].bundle /\ Sessions(b)' = Sessions(b)
  BY <1>1, <1>2 DEF Sessions, Inv, Shelf
<1>6. Ledger'
  BY <1>3, <1>4, <1>5, ControlLeft DEF Also
<1>7. job \in [at : {"create", "state"} \union BeforePut, spec : Specs, book : Nat, sheet : BOOLEAN]
  BY <1>1, AtSetup DEF BeforePut
<1>8. job'.at = "programa" /\ job'.book = job.book /\ job'.spec = job.spec
  BY <1>1, <1>7
<1>9. ControlAllows(books[job.book].control, job.spec)
  BY <1>1 DEF Also, Due, BeforePut
<1>10. books'[job'.book].control = books[job.book].control
  BY <1>2, <1>3, <1>8
<1>11. Due'
  BY <1>8, <1>9, <1>10 DEF Due, BeforePut
<1> QED
  BY <1>6, <1>11 DEF Also

LEMMA FillProgramAlso == ASSUME Inv, Also, FillProgram PROVE Also'
<1>1. job.at = "programa" /\ job' = [job EXCEPT !.at = "fill"]
  BY DEF FillProgram, To
<1>2. PICK v : books' = [books EXCEPT ![job.book] = [@ EXCEPT !["programa"] = v]]
  BY DEF FillProgram
<1>3. Still
  BY <1>1, <1>2, AtSetup, Drawn DEF BeforePut
<1>4. \A b \in DOMAIN books : books'[b].control = books[b].control
  BY <1>1, <1>2, AtSetup, DrawnLeaves DEF BeforePut
<1> QED
  BY <1>1, <1>3, <1>4, NextBefore DEF BeforePut

LEMMA ReconcileViewAlso == ASSUME Inv, Also, ReconcileView PROVE Also'
<1>1. /\ job.at = "view" /\ books' = [books EXCEPT ![job.book] = [@ EXCEPT !["programa"] = job.spec.name]]
      /\ job' = [job EXCEPT !.at = "update"]
  BY DEF ReconcileView, To
<1>2. Still
  BY <1>1, AtSetup, Drawn DEF BeforePut
<1>3. \A b \in DOMAIN books : books'[b].control = books[b].control
  BY <1>1, AtSetup, DrawnLeaves DEF BeforePut
<1> QED
  BY <1>1, <1>2, <1>3, NextBefore DEF BeforePut

LEMMA FillControlAlso == ASSUME Inv, Also, FillControl PROVE Also'
<1>1. job.at = "fill" /\ job' = [job EXCEPT !.at = "view"]
  BY DEF FillControl, To
<1>2. PICK b \in DOMAIN books : b = job.book
  BY <1>1, AtSetup DEF BeforePut
<1>3. /\ job \in [at : {"create", "state"} \union BeforePut, spec : Specs, book : Nat, sheet : BOOLEAN]
      /\ job.spec \in Specs
  BY <1>1, AtSetup DEF BeforePut
<1>4. job'.at = "view" /\ job'.book = b /\ job'.spec = job.spec
  BY <1>1, <1>2, <1>3
<1>5. PICK rows : rows = [s \in DOMAIN job.spec.sessions |-> RowFor(Record(job.spec), s)]
  OBVIOUS
<1>6. PICK control : /\ control = IF books[b].control.header THEN books[b].control
                                  ELSE [header |-> TRUE, rows |-> rows]
                     /\ books' = [books EXCEPT ![b] = [books[b] EXCEPT !.control = control]]
  BY <1>2, <1>5 DEF FillControl
<1>7. IsSequence(rows)
  <2>1. PICK n \in Nat \ {0} : DOMAIN Record(job.spec).sessions = 1 .. n
    BY <1>3, RecordIs, Sized
  <2>2. DOMAIN job.spec.sessions = 1 .. n
    BY <1>3, <2>1, RecordIs
  <2> QED
    BY <1>5, <2>2, FromOne
<1>8. ASSUME NEW row \in ToSet(rows) PROVE IsRow(row) /\ row.status = "pending"
  <2>1. PICK s \in DOMAIN rows : row = rows[s]
    BY InToSet
  <2>2. row = RowFor(Record(job.spec), s)
    BY <1>5, <2>1
  <2> QED
    BY <2>2, RowIs
<1>9. Tidied(rows) /\ \A ids : Proven(rows, ids)
  BY <1>7, <1>8 DEF Tidied, Proven
<1>10. \A program : Matches(rows, program)
  BY <1>8 DEF Matches
<1>11. ControlAllows(books[b].control, job.spec)
  BY <1>1, <1>2 DEF Also, Due, BeforePut
<1>12. /\ DOMAIN control = {"header", "rows"} /\ Tidied(control.rows)
       /\ Proven(control.rows, DOMAIN Sessions(b))
       /\ books[b].bundle # << >> => Matches(control.rows, Bundle(b))
       /\ ControlAllows(control, job.spec)
  <2>1. CASE books[b].control.header
    BY <1>6, <1>11, <2>1 DEF Also, Ledger, Rows
  <2>2. CASE ~books[b].control.header
    <3>1. control = [header |-> TRUE, rows |-> rows]
      BY <1>6, <2>2
    <3>2. DOMAIN control = {"header", "rows"} /\ control.rows = rows
      BY <3>1
    <3>3. Matches(control.rows, Record(job.spec))
      BY <1>10, <3>2
    <3> QED
      BY <1>3, <1>9, <1>10, <3>2, <3>3, MatchesAllowed
  <2> QED
    BY <2>1, <2>2
<1>13. Ledger' /\ books'[b].control = control
  BY <1>6, <1>12, ControlWritten DEF Also
<1>14. Due'
  BY <1>4, <1>12, <1>13 DEF Due, BeforePut
<1> QED
  BY <1>13, <1>14 DEF Also

(* A step that ends the work and writes no Control.                        *)
LEMMA EndsAlso ==
  ASSUME Also, Still, \A b \in DOMAIN books : books'[b].control = books[b].control, job' = Idle
  PROVE  Also'
<1>1. Ledger'
  BY ControlLeft DEF Still, Also
<1>2. Due'
  BY DEF Due, Idle, BeforePut
<1> QED
  BY <1>1, <1>2 DEF Also

LEMMA UpdateControlAlso == ASSUME Inv, Also, UpdateControl PROVE Also'
<1>1. job.at = "update"
  BY DEF UpdateControl
<1>2. CASE Doubled(books[job.book].control.rows)
  <2>1. books' = books /\ job' = Idle
    BY <1>2 DEF UpdateControl
  <2> QED
    BY <2>1, Untouched, EndsAlso
<1>3. CASE ~Doubled(books[job.book].control.rows)
  <2>1. PICK b \in DOMAIN books : b = job.book
    BY <1>1, AtSetup DEF BeforePut
  <2>2. /\ job \in [at : {"create", "state"} \union BeforePut, spec : Specs, book : Nat, sheet : BOOLEAN]
        /\ job.spec \in Specs
    BY <1>1, AtSetup DEF BeforePut
  <2>3. PICK rows : rows = Updated(Rows(b), Record(job.spec))
    OBVIOUS
  <2>4. /\ books' = [books EXCEPT ![b].control.rows = rows]
        /\ job' = [job EXCEPT !.at = "insert"]
    BY <1>3, <2>1, <2>3 DEF UpdateControl, To, Rows
  <2>5. job'.at = "insert" /\ job'.book = b /\ job'.spec = job.spec
    BY <2>1, <2>2, <2>4
  <2>6. ControlAllows(books[b].control, job.spec) /\ Rows(b) = books[b].control.rows
    BY <1>1, <2>1 DEF Also, Due, BeforePut, Rows
  <2>7. Tidied(Rows(b)) /\ Proven(Rows(b), DOMAIN Sessions(b)) /\ "" \notin DOMAIN Sessions(b)
    BY KnownHaveIds DEF Also, Ledger
  <2>8. /\ Tidied(rows)
        /\ ToSet(rows) = {Refreshed(row, Record(job.spec)) : row \in ToSet(Rows(b))}
    BY <2>3, <2>7, UpdatedIs
  <2>9. ASSUME NEW new \in ToSet(rows), new.status = "PROCESSED"
        PROVE  /\ Agrees(new, Record(job.spec)) /\ Earned(new, DOMAIN Sessions(b))
               /\ books[b].bundle # << >> => Agrees(new, Bundle(b))
    <3>1. PICK row \in ToSet(Rows(b)) : new = Refreshed(row, Record(job.spec))
      BY <2>8
    <3>2. IsRow(row)
      BY <2>7 DEF Tidied
    <3>3. row.status = "PROCESSED"
      BY <2>9, <3>1, <3>2, RefreshedIs
    <3>4. Earned(row, DOMAIN Sessions(b))
      BY <2>7, <3>3 DEF Proven
    <3>5. /\ Agrees(new, Record(job.spec)) /\ Earned(new, DOMAIN Sessions(b))
          /\ \A program \in Programs : Agrees(row, program) => new = row
      BY <2>2, <2>6, <2>7, <3>1, <3>2, <3>3, <3>4, GuardedRow
    <3>6. ASSUME books[b].bundle # << >> PROVE Agrees(new, Bundle(b))
      <4>1. Bundle(b) \in Programs /\ Matches(Rows(b), Bundle(b))
        BY <3>6 DEF Inv, Shelf, Also, Ledger
      <4>2. Agrees(row, Bundle(b))
        BY <3>3, <4>1 DEF Matches
      <4> QED
        BY <3>5, <4>1, <4>2
    <3> QED
      BY <3>5, <3>6
  <2>10. /\ Proven(rows, DOMAIN Sessions(b)) /\ Matches(rows, Record(job.spec))
         /\ books[b].bundle # << >> => Matches(rows, Bundle(b))
    BY <2>9 DEF Proven, Matches
  <2>11. Ledger' /\ Rows(b)' = rows /\ books'[b].control.rows = rows
    BY <2>4, <2>8, <2>10, RowsWritten DEF Also
  <2>12. ControlAllows(books'[b].control, job.spec)
    BY <2>2, <2>10, <2>11, MatchesAllowed
  <2>13. Due'
    <3>1. Rows(job.book)' = rows
      BY <2>5, <2>11 DEF Rows
    <3>2. Matches(Rows(job.book)', Record(job.spec)')
      BY <2>5, <2>10, <3>1
    <3>3. (Matches(Rows(job.book), Record(job.spec)))'
      BY <3>2 DEF Matches, Agrees, RowFor
    <3>4. ControlAllows(books'[job'.book].control, job'.spec)
      BY <2>5, <2>12
    <3>5. (ControlAllows(books[job.book].control, job.spec))'
      BY <3>4 DEF ControlAllows
    <3> QED
      BY <2>5, <3>3, <3>5 DEF Due
  <2> QED
    BY <2>11, <2>13 DEF Also
<1> QED
  BY <1>2, <1>3

LEMMA InsertControlAlso == ASSUME Inv, Also, InsertControl PROVE Also'
<1>1. job.at = "insert" /\ job' = [job EXCEPT !.at = "bundle"]
  BY DEF InsertControl, To
<1>2. PICK b \in DOMAIN books : b = job.book
  BY <1>1, AtSetup DEF BeforePut
<1>3. /\ job \in [at : {"create", "state"} \union BeforePut, spec : Specs, book : Nat, sheet : BOOLEAN]
      /\ job.spec \in Specs /\ Record(job.spec) \in Programs
  BY <1>1, AtSetup, RecordIs DEF BeforePut
<1>4. job'.at = "bundle" /\ job'.book = b /\ job'.spec = job.spec
  BY <1>1, <1>2, <1>3
<1>5. PICK more : more = Missing(Rows(b), Record(job.spec))
  OBVIOUS
<1>6. PICK added \in Added(Rows(b), more) : books' = [books EXCEPT ![b].control.rows = added.rows]
  BY <1>2, <1>5 DEF InsertControl, Rows
<1>7. Tidied(Rows(b)) /\ Proven(Rows(b), DOMAIN Sessions(b)) /\ IsSequence(Rows(b))
  BY DEF Also, Ledger, Tidied
<1>8. Pending(more) /\ IsSequence(more)
  BY <1>3, <1>5, MissingIs, MissingPending
<1>9. IsSequence(added.rows) /\ ToSet(added.rows) = ToSet(Rows(b)) \union ToSet(more)
  BY <1>6, <1>7, <1>8, AddedIs
<1>10. /\ Tidied(added.rows) /\ Proven(added.rows, DOMAIN Sessions(b))
       /\ \A program : Matches(Rows(b), program) => Matches(added.rows, program)
  BY <1>7, <1>8, <1>9, PendingAdded
<1>11. books[b].bundle # << >> => Matches(added.rows, Bundle(b))
  BY <1>10 DEF Also, Ledger
<1>12. Matches(added.rows, Record(job.spec))
  BY <1>1, <1>2, <1>10 DEF Also, Due
<1>13. Ledger' /\ Rows(b)' = added.rows /\ books'[b].control.rows = added.rows
  BY <1>6, <1>10, <1>11, RowsWritten DEF Also
<1>14. ControlAllows(books'[b].control, job.spec)
  BY <1>3, <1>12, <1>13, MatchesAllowed
<1>15. Due'
  <2>1. Matches(Rows(job.book)', Record(job.spec)')
    BY <1>4, <1>12, <1>13 DEF Rows
  <2>2. (Matches(Rows(job.book), Record(job.spec)))'
    BY <2>1 DEF Matches, Agrees, RowFor
  <2>3. ControlAllows(books'[job'.book].control, job'.spec)
    BY <1>4, <1>14
  <2>4. (ControlAllows(books[job.book].control, job.spec))'
    BY <2>3 DEF ControlAllows
  <2> QED
    BY <1>4, <2>2, <2>4 DEF Due
<1> QED
  BY <1>13, <1>15 DEF Also

(* The rows agree with the configuration by the time it is written.        *)
LEMMA PutBundleAlso == ASSUME Inv, Also, PutBundle PROVE Also'
<1>1. job.at = "bundle"
  BY DEF PutBundle
<1>2. PICK b \in DOMAIN books : b = job.book
  BY <1>1, AtSetup DEF BeforePut
<1>3. CASE books' = books /\ job' = Idle
  BY <1>3, Untouched, EndsAlso
<1>4. ASSUME NEW put \in Put(books[job.book].bundle, Record(job.spec)),
             books' = [books EXCEPT ![job.book].bundle = put.rows],
             job' = [job EXCEPT !.at = "state"]
      PROVE  Also'
  <2>1. job \in [at : {"create", "state"} \union BeforePut, spec : Specs, book : Nat, sheet : BOOLEAN]
    BY <1>1, AtSetup DEF BeforePut
  <2>2. job'.at = "state"
    BY <1>4, <2>1
  <2>3. put.rows # << >> /\ put.rows[1] = Record(job.spec)
    BY <1>2, <1>4, PutLeaves DEF Inv, Shelf
  <2>4. PICK book : book = [books[b] EXCEPT !.bundle = put.rows]
    OBVIOUS
  <2>5. DOMAIN books[b] = {"placed", "title", "tabs", "programa", "control", "bundle", "state"}
    BY DEF Inv, Shelf
  <2>6. book.control = books[b].control /\ book.bundle = put.rows /\ book.state = books[b].state
    BY <2>4, <2>5
  <2>7. books' = [books EXCEPT ![b] = book]
    BY <1>2, <1>4, <2>4
  <2>8. /\ DOMAIN books' = DOMAIN books /\ books'[b] = book
        /\ \A c \in DOMAIN books : c # b => books'[c] = books[c]
    BY <2>7, BookWritten DEF Inv
  <2>9. Rows(b)' = Rows(b) /\ Sessions(b)' = Sessions(b) /\ Bundle(b)' = Record(job.spec)
    BY <2>3, <2>6, <2>8 DEF Rows, Sessions, Bundle
  <2>10. \A c \in DOMAIN books : c # b =>
           Rows(c)' = Rows(c) /\ Bundle(c)' = Bundle(c) /\ Sessions(c)' = Sessions(c)
    BY <2>8 DEF Rows, Bundle, Sessions
  <2>11. Matches(Rows(b), Record(job.spec))
    BY <1>1, <1>2 DEF Also, Due
  <2>12. ASSUME NEW c \in DOMAIN books
         PROVE  /\ DOMAIN books'[c].control = {"header", "rows"}
                /\ Tidied(Rows(c)') /\ Proven(Rows(c)', DOMAIN Sessions(c)')
                /\ books'[c].bundle # << >> => Matches(Rows(c)', Bundle(c)')
    <3>1. CASE c = b
      BY <2>6, <2>8, <2>9, <2>11, <3>1 DEF Also, Ledger
    <3>2. CASE c # b
      BY <2>8, <2>10, <3>2 DEF Also, Ledger
    <3> QED
      BY <3>1, <3>2
  <2>13. Ledger'
    BY <2>8, <2>12 DEF Ledger, Tidied, Proven, Matches, Agrees, RowFor
  <2>14. Due'
    BY <2>2 DEF Due, BeforePut
  <2> QED
    BY <2>13, <2>14 DEF Also
<1> QED
  BY <1>3, <1>4 DEF PutBundle, To

LEMMA PutStateAlso == ASSUME Inv, Also, PutState PROVE Also'
<1>1. job.at = "state" /\ job' = Idle
  BY DEF PutState
<1>2. PICK b \in DOMAIN books : b = job.book
  BY <1>1, AtSetup
<1>3. PICK put \in StateToPut(books[b].state) : books' = [books EXCEPT ![b].state = put.rows]
  BY <1>2 DEF PutState
<1>4. PICK rows : rows = put.rows /\ books' = [books EXCEPT ![b].state = rows]
  BY <1>3
<1>5. DOMAIN books' = DOMAIN books /\ \A c \in DOMAIN books : books'[c].control = books[c].control /\ books'[c].bundle = books[c].bundle
  BY <1>4, StateWritten
<1>6. PICK sessions : sessions = Sessions(b)
  OBVIOUS
<1>7. DOMAIN Sessions(b) \subseteq DOMAIN Sessions(b)'
  <2>1. CASE books[b].state = << >>
    <3>1. DOMAIN << >> = {}
      OBVIOUS
    <3> QED
      BY <2>1, <3>1 DEF Sessions
  <2>2. CASE books[b].state # << >>
    <3>1. rows = books[b].state
      BY <1>3, <1>4, <2>2 DEF StateToPut
    <3>2. books'[b].state = books[b].state
      BY <1>4, <3>1, StateWritten
    <3> QED
      BY <3>2 DEF Sessions
  <2> QED
    BY <2>1, <2>2
<1>8. \A c \in DOMAIN books : DOMAIN Sessions(c) \subseteq DOMAIN Sessions(c)'
  BY <1>4, <1>7, StateWritten DEF Sessions
<1>9. Ledger'
  BY <1>5, <1>8, ControlLeft DEF Also
<1>10. Due'
  BY <1>1 DEF Due, Idle, BeforePut
<1> QED
  BY <1>9, <1>10 DEF Also

LEMMA StartRunAlso == ASSUME Inv, Also, StartRun PROVE Also'
<1>1. PICK b \in Configured :
        \E put \in Put(books[b].state, Sessions(b)) :
          /\ books' = [books EXCEPT ![b].state = put.rows]
          /\ job' = IF Len(put.rows) = 1 THEN [at |-> "ensure", book |-> b, program |-> Bundle(b)] ELSE Idle
  BY DEF StartRun
<1>2. PICK put \in Put(books[b].state, Sessions(b)) :
        /\ books' = [books EXCEPT ![b].state = put.rows]
        /\ job' = IF Len(put.rows) = 1 THEN [at |-> "ensure", book |-> b, program |-> Bundle(b)] ELSE Idle
  BY <1>1
<1>3. b \in DOMAIN books /\ IsSequence(books[b].state)
  BY DEF Configured, Inv, Shelf, InFolder
<1>4. put.rows # << >> /\ put.rows[1] = Sessions(b)
  BY <1>3, PutLeaves
<1>5. PICK rows : rows = put.rows /\ books' = [books EXCEPT ![b].state = rows]
  BY <1>2
<1>6. /\ DOMAIN books' = DOMAIN books /\ books'[b].state = rows
      /\ \A c \in DOMAIN books : books'[c].control = books[c].control /\ books'[c].bundle = books[c].bundle
      /\ \A c \in DOMAIN books : c # b => books'[c].state = books[c].state
  BY <1>3, <1>5, StateWritten
<1>7. \A c \in DOMAIN books : Sessions(c)' = Sessions(c)
  BY <1>4, <1>5, <1>6 DEF Sessions
<1>8. Ledger'
  BY <1>6, <1>7, ControlLeft DEF Also
<1>9. Due'
  BY <1>2 DEF Due, Idle, BeforePut
<1> QED
  BY <1>8, <1>9 DEF Also

LEMMA EnsureSessionsAlso == ASSUME Inv, Also, EnsureSessions PROVE Also'
<1>1. job.at = "ensure"
  BY DEF EnsureSessions
<1>2. CASE Doubled(books[job.book].control.rows)
  <2>1. books' = books /\ job' = Idle
    BY <1>2 DEF EnsureSessions
  <2> QED
    BY <2>1, Untouched, EndsAlso
<1>3. CASE ~Doubled(books[job.book].control.rows)
  <2>1. PICK b \in DOMAIN books : b = job.book
    BY <1>1, AtRun DEF Running
  <2>2. /\ job \in [at : Running, book : Nat, program : Programs]
        /\ books[b].bundle # << >> /\ job.program = Bundle(b)
    BY <1>1, <2>1, AtRun DEF Running
  <2>3. PICK program \in Programs : program = job.program
    BY <2>2
  <2>4. PICK rows : rows = Updated(Rows(b), program)
    OBVIOUS
  <2>5. /\ books' = [books EXCEPT ![b].control.rows = rows]
        /\ job' = [job EXCEPT !.at = "append"]
    BY <1>3, <2>1, <2>3, <2>4 DEF EnsureSessions, To, Rows
  <2>6. job'.at = "append" /\ job'.book = b /\ job'.program = program
    BY <2>1, <2>2, <2>3, <2>5
  <2>7. /\ Tidied(Rows(b)) /\ Proven(Rows(b), DOMAIN Sessions(b)) /\ Matches(Rows(b), program)
        /\ \A row \in ToSet(Rows(b)) : IsRow(row)
    BY <2>2, <2>3 DEF Also, Ledger, Tidied
  <2>8. /\ Tidied(rows)
        /\ ToSet(rows) = {Refreshed(row, program) : row \in ToSet(Rows(b))}
    BY <2>4, <2>7, UpdatedIs
  <2>9. ASSUME NEW new \in ToSet(rows), new.status = "PROCESSED"
        PROVE  new \in ToSet(Rows(b))
    <3>1. PICK row \in ToSet(Rows(b)) : new = Refreshed(row, program)
      BY <2>8
    <3>2. row.status = "PROCESSED"
      BY <2>7, <2>9, <3>1, RefreshedIs
    <3>3. Agrees(row, program)
      BY <2>7, <3>2 DEF Matches
    <3> QED
      BY <3>1, <3>3, AgreesIs
  <2>10. Proven(rows, DOMAIN Sessions(b)) /\ Matches(rows, program)
    BY <2>7, <2>9 DEF Proven, Matches
  <2>11. Ledger' /\ Rows(b)' = rows
    BY <2>2, <2>3, <2>5, <2>8, <2>10, RowsWritten DEF Also
  <2>12. UpToDate(rows, program)
    <3>1. ASSUME NEW new \in ToSet(rows), new.number \in DOMAIN program.sessions
          PROVE  Agrees(new, program)
      <4>1. PICK row \in ToSet(Rows(b)) : new = Refreshed(row, program)
        BY <2>8
      <4>2. IsRow(row) /\ row.number \in DOMAIN program.sessions
        BY <2>7, <3>1, <4>1, RefreshedIs
      <4> QED
        BY <4>1, <4>2, RefreshedIs
    <3> QED
      BY <3>1 DEF UpToDate
  <2>13. Due'
    <3>1. UpToDate(Rows(job.book)', job'.program)
      BY <2>6, <2>11, <2>12 DEF Rows
    <3>2. (UpToDate(Rows(job.book), job.program))'
      BY <3>1 DEF UpToDate, Agrees, RowFor
    <3> QED
      BY <2>6, <3>2 DEF Due, BeforePut
  <2> QED
    BY <2>11, <2>13 DEF Also
<1> QED
  BY <1>2, <1>3

LEMMA AppendSessionsAlso == ASSUME Inv, Also, AppendSessions PROVE Also'
<1>1. job.at = "append" /\ job' = [job EXCEPT !.at = "sync"]
  BY DEF AppendSessions, To
<1>2. PICK b \in DOMAIN books : b = job.book
  BY <1>1, AtRun DEF Running
<1>3. /\ job \in [at : Running, book : Nat, program : Programs]
      /\ books[b].bundle # << >> /\ job.program = Bundle(b)
  BY <1>1, <1>2, AtRun DEF Running
<1>4. PICK program \in Programs : program = job.program
  BY <1>3
<1>5. PICK more : more = Missing(Rows(b), program)
  OBVIOUS
<1>6. PICK added \in Added(Rows(b), more) : books' = [books EXCEPT ![b].control.rows = added.rows]
  BY <1>2, <1>4, <1>5 DEF AppendSessions, Rows
<1>7. job'.at = "sync" /\ job'.book = b /\ job'.program = program
  BY <1>1, <1>2, <1>3, <1>4
<1>8. /\ Tidied(Rows(b)) /\ Proven(Rows(b), DOMAIN Sessions(b)) /\ Matches(Rows(b), program)
      /\ IsSequence(Rows(b))
  BY <1>3, <1>4 DEF Also, Ledger, Tidied
<1>9. UpToDate(Rows(b), program)
  BY <1>1, <1>2, <1>4 DEF Also, Due
<1>10. Pending(more) /\ IsSequence(more)
  BY <1>4, <1>5, MissingIs, MissingPending
<1>11. IsSequence(added.rows) /\ ToSet(added.rows) = ToSet(Rows(b)) \union ToSet(more)
  BY <1>6, <1>8, <1>10, AddedIs
<1>12. /\ Tidied(added.rows) /\ Proven(added.rows, DOMAIN Sessions(b))
       /\ Matches(added.rows, program)
  BY <1>8, <1>10, <1>11, PendingAdded
<1>13. Ledger' /\ Rows(b)' = added.rows
  BY <1>3, <1>4, <1>6, <1>12, RowsWritten DEF Also
<1>14. ASSUME NEW s \in DOMAIN program.sessions
       PROVE  /\ \E row \in ToSet(added.rows) : row.number = s
              /\ \A row \in ToSet(added.rows) : row.number = s => Agrees(row, program)
  <2>1. \E row \in ToSet(added.rows) : row.number = s
    <3>1. CASE s \in {row.number : row \in ToSet(Rows(b))}
      BY <1>11, <3>1
    <3>2. CASE s \notin {row.number : row \in ToSet(Rows(b))}
      <4>1. RowFor(program, s) \in ToSet(more)
        BY <1>4, <1>5, <3>2, MissingIs
      <4>2. RowFor(program, s).number = s
        BY RowIs
      <4> QED
        BY <1>11, <4>1, <4>2
    <3> QED
      BY <3>1, <3>2
  <2>2. ASSUME NEW row \in ToSet(added.rows), row.number = s PROVE Agrees(row, program)
    <3>1. CASE row \in ToSet(Rows(b))
      BY <1>9, <2>2, <3>1 DEF UpToDate
    <3>2. CASE row \in ToSet(more)
      <4>1. PICK t \in DOMAIN program.sessions : row = RowFor(program, t)
        BY <1>4, <1>5, <3>2, MissingIs
      <4>2. /\ row = [RowFor(program, t) EXCEPT !.status = "pending"]
            /\ row.status = "pending" /\ row.number = t
        BY <4>1, RowIs
      <4> QED
        BY <4>2 DEF Agrees
    <3> QED
      BY <1>11, <2>2, <3>1, <3>2
  <2> QED
    BY <2>1, <2>2
<1>15. Complete(added.rows, program)
  BY <1>14 DEF Complete
<1>16. Due'
  <2>1. Complete(Rows(job.book)', job'.program)
    BY <1>7, <1>13, <1>15 DEF Rows
  <2>2. (Complete(Rows(job.book), job.program))'
    BY <2>1 DEF Complete, Agrees, RowFor
  <2> QED
    BY <1>7, <2>2 DEF Due, BeforePut
<1> QED
  BY <1>13, <1>16 DEF Also

LEMMA ProcessAlso == ASSUME Inv, Also, Process PROVE Also'
<1>1. job.at = "sync" /\ job' = job
  BY DEF Process
<1>2. PICK b \in DOMAIN books : b = job.book
  BY <1>1, AtRun DEF Running
<1>3. PICK was : was = Sessions(b)
  OBVIOUS
<1>4. PICK now, id : /\ DOMAIN now = DOMAIN was \union {id}
                     /\ books' = [books EXCEPT ![b].state = <<now>>]
  <2>1. PICK s \in DOMAIN job.program.sessions :
          books' = [books EXCEPT ![b].state =
            <<[i \in DOMAIN was \union {job.program.sessions[s].id} |->
                 IF i = job.program.sessions[s].id
                 THEN [number |-> s, session |-> job.program.sessions[s]] ELSE was[i]]>>]
    <3>1. PICK s \in DOMAIN job.program.sessions :
            books' = [books EXCEPT ![job.book].state =
              <<[id \in DOMAIN Sessions(job.book) \union {job.program.sessions[s].id} |->
                   IF id = job.program.sessions[s].id
                   THEN [number |-> s, session |-> job.program.sessions[s]] ELSE Sessions(job.book)[id]]>>]
      BY DEF Process
    <3> QED
      BY <1>2, <1>3, <3>1
  <2>2. PICK now : now = [i \in DOMAIN was \union {job.program.sessions[s].id} |->
                            IF i = job.program.sessions[s].id
                            THEN [number |-> s, session |-> job.program.sessions[s]] ELSE was[i]]
    OBVIOUS
  <2> QED
    BY <2>1, <2>2
<1>5. PICK rows : rows = <<now>>
  OBVIOUS
<1>6. books' = [books EXCEPT ![b].state = rows]
  BY <1>4, <1>5
<1>7. /\ DOMAIN books' = DOMAIN books /\ books'[b].state = rows
      /\ \A c \in DOMAIN books : books'[c].control = books[c].control /\ books'[c].bundle = books[c].bundle
      /\ \A c \in DOMAIN books : c # b => books'[c].state = books[c].state
  BY <1>6, StateWritten
<1>8. rows # << >> /\ rows[1] = now
  BY <1>5
<1>9. Sessions(b)' = now /\ \A c \in DOMAIN books : c # b => Sessions(c)' = Sessions(c)
  BY <1>7, <1>8 DEF Sessions
<1>10. \A c \in DOMAIN books : DOMAIN Sessions(c) \subseteq DOMAIN Sessions(c)'
  BY <1>3, <1>4, <1>9
<1>11. Ledger' /\ Rows(b)' = Rows(b)
  BY <1>7, <1>10, ControlLeft DEF Also
<1>12. Due'
  <2>1. Complete(Rows(b)', job'.program)
    BY <1>1, <1>2, <1>11 DEF Also, Due
  <2>2. (Complete(Rows(job.book), job.program))'
    BY <1>1, <1>2, <2>1 DEF Complete, Agrees, RowFor, Rows
  <2> QED
    BY <1>1, <2>2 DEF Due, BeforePut
<1> QED
  BY <1>11, <1>12 DEF Also

(* What reconcile marks is in the state, and its row has the id it has     *)
(* there.                                                                  *)
LEMMA MarkAlso == ASSUME Inv, Also, Mark PROVE Also'
<1>1. job.at = "sync" /\ job' = Idle
  BY DEF Mark
<1>2. CASE Doubled(books[job.book].control.rows)
  <2>1. books' = books
    BY <1>2 DEF Mark
  <2> QED
    BY <1>1, <2>1, Untouched, EndsAlso
<1>3. CASE ~Doubled(books[job.book].control.rows)
  <2>1. PICK b \in DOMAIN books : b = job.book
    BY <1>1, AtRun DEF Running
  <2>2. /\ books[b].bundle # << >> /\ job.program = Bundle(b)
    BY <1>1, <2>1, AtRun DEF Running
  <2>3. PICK program : program = job.program
    OBVIOUS
  <2>4. PICK done : done = {s \in DOMAIN program.sessions : program.sessions[s].id \in DOMAIN Sessions(b)}
    OBVIOUS
  <2>5. PICK old : old = Rows(b)
    OBVIOUS
  <2>6. PICK rows : rows = [i \in DOMAIN old |-> IF old[i].number \in done
                                                 THEN [old[i] EXCEPT !.status = "PROCESSED"] ELSE old[i]]
    OBVIOUS
  <2>7. books' = [books EXCEPT ![b].control.rows = rows]
    BY <1>3, <2>1, <2>3, <2>4, <2>5, <2>6 DEF Mark, Rows
  <2>8. /\ Tidied(old) /\ Proven(old, DOMAIN Sessions(b)) /\ Matches(old, program)
        /\ Complete(old, program)
    BY <1>1, <2>1, <2>2, <2>3, <2>5 DEF Also, Ledger, Due
  <2>9. Len(old) \in Nat /\ DOMAIN old = 1 .. Len(old)
    BY <2>8, Lengths DEF Tidied
  <2>10. IsSequence(rows)
    BY <2>6, <2>9, FromOne
  <2>11. ASSUME NEW new \in ToSet(rows)
         PROVE  /\ IsRow(new)
                /\ new.status = "PROCESSED" => Earned(new, DOMAIN Sessions(b)) /\ Agrees(new, program)
    <3>1. PICK i \in DOMAIN rows : new = rows[i]
      BY InToSet
    <3>2. PICK row : row = old[i]
      OBVIOUS
    <3>3. row \in ToSet(old) /\ IsRow(row)
      BY <2>6, <2>8, <3>1, <3>2, InToSet DEF Tidied
    <3>4. CASE row.number \notin done
      <4>1. new = row
        BY <2>6, <3>1, <3>2, <3>4
      <4> QED
        BY <2>8, <3>3, <4>1 DEF Proven, Matches
    <3>5. CASE row.number \in done
      <4>1. new = [row EXCEPT !.status = "PROCESSED"]
        BY <2>6, <3>1, <3>2, <3>5
      <4>2. row = [number |-> row.number, id |-> row.id, name |-> row.name, status |-> row.status]
        BY <3>3 DEF IsRow
      <4>3. new = [number |-> row.number, id |-> row.id, name |-> row.name, status |-> "PROCESSED"]
        BY <4>1, <4>2
      <4>4. row.number \in DOMAIN program.sessions /\ program.sessions[row.number].id \in DOMAIN Sessions(b)
        BY <2>4, <3>5
      <4>5. Agrees(row, program)
        BY <2>8, <3>3, <4>4 DEF Complete
      <4>6. row.id = program.sessions[row.number].id /\ row.name = program.sessions[row.number].name
        BY <4>5, AgreesIs
      <4>7. new.number = row.number /\ new.id = row.id /\ new.status = "PROCESSED" /\ IsRow(new)
        BY <4>3 DEF IsRow
      <4>8. Earned(new, DOMAIN Sessions(b))
        BY <4>4, <4>6, <4>7 DEF Earned
      <4>9. Agrees(new, program)
        <5>1. new = [RowFor(program, row.number) EXCEPT !.status = "PROCESSED"]
          BY <4>3, <4>6, RowIs
        <5> QED
          BY <4>4, <4>7, <5>1 DEF Agrees
      <4> QED
        BY <4>7, <4>8, <4>9
    <3> QED
      BY <3>4, <3>5
  <2>12. Tidied(rows) /\ Proven(rows, DOMAIN Sessions(b)) /\ Matches(rows, program)
    BY <2>10, <2>11 DEF Tidied, Proven, Matches
  <2>13. Ledger'
    BY <2>2, <2>3, <2>7, <2>12, RowsWritten DEF Also
  <2>14. Due'
    BY <1>1 DEF Due, Idle, BeforePut
  <2> QED
    BY <2>13, <2>14 DEF Also
<1> QED
  BY <1>2, <1>3

LEMMA AlsoNext == Inv /\ Also /\ [Next]_vars => Also'
<1> SUFFICES ASSUME Inv, Also, [Next]_vars PROVE Also'
  OBVIOUS
<1>1. ASSUME NEW spec \in Specs, Check(spec) PROVE Also'
  BY <1>1, CheckAlso
<1>2. CASE Create \/ AddTabs \/ Place \/ FillProgram \/ FillControl
  BY <1>2, CreateAlso, AddTabsAlso, PlaceAlso, FillProgramAlso, FillControlAlso
<1>3. CASE ReconcileView \/ UpdateControl \/ InsertControl \/ PutBundle \/ PutState
  BY <1>3, ReconcileViewAlso, UpdateControlAlso, InsertControlAlso, PutBundleAlso, PutStateAlso
<1>4. CASE StartRun \/ EnsureSessions \/ AppendSessions \/ Process \/ Mark
  BY <1>4, StartRunAlso, EnsureSessionsAlso, AppendSessionsAlso, ProcessAlso, MarkAlso
<1>5. CASE Die
  <2>1. books' = books /\ job' = Idle
    BY <1>5 DEF Die
  <2> QED
    BY <2>1, Untouched, EndsAlso
<1>6. CASE UNCHANGED vars
  <2>1. books' = books /\ job' = job
    BY <1>6 DEF vars
  <2>2. Ledger'
    BY <2>1, Untouched, ControlLeft DEF Also, Still
  <2>3. Due'
    <3>1. /\ (ControlAllows(books[job.book].control, job.spec))'
                <=> ControlAllows(books[job.book].control, job.spec)
          /\ (Matches(Rows(job.book), Record(job.spec)))' <=> Matches(Rows(job.book), Record(job.spec))
          /\ (UpToDate(Rows(job.book), job.program))' <=> UpToDate(Rows(job.book), job.program)
          /\ (Complete(Rows(job.book), job.program))' <=> Complete(Rows(job.book), job.program)
      BY <2>1 DEF ControlAllows, Matches, UpToDate, Complete, Agrees, RowFor, Rows
    <3> QED
      BY <2>1, <3>1 DEF Also, Due
  <2> QED
    BY <2>2, <2>3 DEF Also
<1> QED
  BY <1>1, <1>2, <1>3, <1>4, <1>5, <1>6 DEF Next

LEMMA AlsoHolds == Spec => []Also
  BY AlsoInit, AlsoNext, InvHolds, PTL DEF Spec

(* However setups were refused or died before it: a run has a row of       *)
(* Control for each session, with its name and session_id, and no row says *)
(* PROCESSED that was not processed or said so before the first setup.     *)
THEOREM RunsSeeTheirSessions == Spec => []RunSeesItsSessions
<1>1. ASSUME Inv, Also PROVE RunSeesItsSessions
  <2> SUFFICES ASSUME job.at = "sync", NEW s \in DOMAIN job.program.sessions
               PROVE  /\ \E row \in ToSet(Rows(job.book)) : row.number = s
                      /\ \A row \in ToSet(Rows(job.book)) : row.number = s =>
                           /\ row = [RowFor(job.program, s) EXCEPT !.status = row.status]
                           /\ row.status = "PROCESSED" =>
                                row.id \in DOMAIN Sessions(job.book) \/ SaidBefore(row)
    BY DEF RunSeesItsSessions, Rows, SaidBefore
  <2>1. job.book \in DOMAIN books
    BY <1>1, AtRun DEF Running
  <2>2. Complete(Rows(job.book), job.program)
    BY <1>1 DEF Also, Due
  <2>3. Proven(Rows(job.book), DOMAIN Sessions(job.book))
    BY <1>1, <2>1 DEF Also, Ledger
  <2> QED
    BY <2>2, <2>3 DEF Complete, Proven, Agrees, Earned
<1> QED
  BY <1>1, InvHolds, AlsoHolds, PTL

(* A tidy file that was applied can be applied to its workbook again: none *)
(* of the guards refuses it, whatever was processed or half applied since. *)
THEOREM AppliedCanBeApplied == Spec => []SameSpecAccepted
<1>1. ASSUME Inv, Also PROVE SameSpecAccepted
  <2> SUFFICES ASSUME NEW b \in Configured, NEW spec \in Specs,
                      Record(spec) = Bundle(b), spec.size = "fits",
                      \A s \in DOMAIN spec.sessions : spec.sessions[s].tidy
               PROVE  Accepted(spec, b)
    BY DEF SameSpecAccepted
  <2>1. Unchanged(Bundle(b), spec, DOMAIN Sessions(b))
    <3>1. ASSUME NEW id \in Ids(Bundle(b)) \intersect DOMAIN Sessions(b)
          PROVE  /\ NumberOf(Bundle(b), id) \in DOMAIN spec.sessions
                 /\ spec.sessions[NumberOf(Bundle(b), id)].tidy
                 /\ Kept(spec.sessions[NumberOf(Bundle(b), id)]) = Bundle(b).sessions[NumberOf(Bundle(b), id)]
      <4>1. PICK s \in DOMAIN Bundle(b).sessions : id = Bundle(b).sessions[s].id
        BY DEF Ids
      <4>2. Bundle(b) \in Programs
        BY RecordIs
      <4>3. NumberOf(Bundle(b), id) = s
        BY <4>1, <4>2, OneNumber
      <4>4. s \in DOMAIN spec.sessions /\ Bundle(b).sessions[s] = Kept(spec.sessions[s])
        BY <4>1 DEF Record
      <4> QED
        BY <4>3, <4>4
    <3> QED
      BY <3>1 DEF Unchanged
  <2>2. Matches(books[b].control.rows, Record(spec))
    BY <1>1 DEF Also, Ledger, Rows, Configured, InFolder
  <2>3. ControlAllows(books[b].control, spec)
    BY <2>2, MatchesAllowed
  <2> QED
    BY <2>1, <2>3 DEF Accepted
<1> QED
  BY <1>1, InvHolds, AlsoHolds, PTL

=============================================================================
