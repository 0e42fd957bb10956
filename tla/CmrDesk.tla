------------------------------ MODULE CmrDesk ------------------------------
(* The desk on which consignment notes are made (CmrWorkspace.tsx): users   *)
(* with a running number each, a form, a batch that was imported, and the   *)
(* history of what was saved.  The page keeps its state whole in IndexedDB  *)
(* and every PDF under the number of its note, so a number that is given    *)
(* twice takes a saved document's place.                                    *)
EXTENDS Naturals, Sequences, FiniteSets

CONSTANTS
  Initials,    \* the users, told apart by their initials
  Nobody,
  MaxNumber,   \* bound on running numbers
  MaxDocs,     \* bound on documents made
  MaxMoves     \* bound on what else the user does

\* A user's number or, when a sheet was read with nobody chosen, a time.
Ids == (Initials \X (1 .. MaxNumber)) \cup ({Nobody} \X (1 .. MaxDocs))

VARIABLES
  staff,     \* [Initials -> Nat]: users, by nextCmr; 0 is not listed
  current,   \* currentUser: [who, next], the record as it was when it was set
  start,     \* formData.startCmr
  history,   \* entries [id, doc]
  batch,     \* batchJobs
  ready,     \* pdfReadyToSave
  ops,       \* saves, batches and PDFs in the making that wait for IndexedDB
  generating, \* isGenerating
  pdf,       \* [Ids -> Nat]: the document stored under a number, 0 for none
  kept,      \* the state stored under vectra_cmr_state_v2
  loaded,
  dirty,     \* the effect that persists has yet to run
  docs,      \* documents made so far
  moves,
  excused    \* numbers that were given out of turn, or by a clock that stood still

cmrVars == <<staff, current, start, history, batch, ready, ops, generating, pdf, kept, loaded, dirty, docs, moves, excused>>

Moves == moves < MaxMoves /\ moves' = moves + 1
Nothing == [who |-> Nobody, next |-> 0]
Empty == [staff |-> [i \in Initials |-> 0], last |-> Nobody, history |-> {}]
Chosen == current # Nothing
Waiting == {o \in ops : o.kind # "make"}

-----------------------------------------------------------------------------
(* Users                                                                   *)

\* The button Add: the form keeps the number it shows.
AddUser(i) ==
  /\ Moves
  /\ staff[i] = 0
  /\ staff' = [staff EXCEPT ![i] = 1]
  /\ current' = [who |-> i, next |-> 1]
  /\ excused' = excused \cup {id \in Ids : id[1] = i /\ (pdf[id] # 0 \/ \E o \in Waiting : o.who = i)}
  /\ dirty' = TRUE
  /\ UNCHANGED <<start, history, batch, ready, ops, generating, pdf, kept, loaded, docs>>

SelectUser(i) ==
  /\ Moves
  /\ staff[i] # 0
  /\ current' = [who |-> i, next |-> staff[i]]
  /\ start' = staff[i]
  /\ dirty' = TRUE
  /\ UNCHANGED <<staff, history, batch, ready, ops, generating, pdf, kept, loaded, docs, excused>>

RemoveUser(i) ==
  /\ Moves
  /\ staff[i] # 0
  /\ staff' = [staff EXCEPT ![i] = 0]
  /\ current' = IF current.who = i THEN Nothing ELSE current
  /\ dirty' = TRUE
  /\ UNCHANGED <<start, history, batch, ready, ops, generating, pdf, kept, loaded, docs, excused>>

-----------------------------------------------------------------------------
(* Documents                                                               *)

\* The number is typed into the form.
TypeNumber(n) ==
  /\ Moves
  /\ start' = n
  /\ UNCHANGED <<staff, current, history, batch, ready, ops, generating, pdf, kept, loaded, dirty, docs, excused>>

\* handleGenerate begins: the number is that of the form now.  The page has read
\* what is stored before a document is made; a user may be added sooner.
Generate ==
  /\ loaded /\ Chosen /\ ~generating /\ docs < MaxDocs
  /\ docs' = docs + 1
  /\ generating' = TRUE
  /\ ops' = ops \cup {[kind |-> "make", doc |-> [id |-> <<current.who, start>>, doc |-> docs']]}
  /\ UNCHANGED <<staff, current, start, history, batch, ready, pdf, kept, loaded, dirty, excused, moves>>

\* Its PDF is there, or has failed.
Made(o) ==
  /\ ops' = ops \ {o}
  /\ generating' = FALSE
  /\ \E failed \in BOOLEAN : ready' = IF failed THEN ready ELSE <<o.doc>>
  /\ UNCHANGED <<staff, current, start, history, batch, pdf, kept, loaded, dirty, docs, excused, moves>>

\* Back to the form.
Discard ==
  /\ Moves
  /\ ready # <<>> /\ ready' = <<>>
  /\ UNCHANGED <<staff, current, start, history, batch, ops, generating, pdf, kept, loaded, dirty, docs, excused>>

\* handleExcelImport: two plates make two jobs, numbered from the user's next or, when
\* nobody is chosen, by the clock, which has mostly not moved on between the two.
Import ==
  /\ loaded /\ docs + 2 <= MaxDocs
  /\ docs' = docs + 2
  /\ \/ /\ Chosen /\ current.next < MaxNumber
        /\ batch' = [k \in 1 .. 2 |-> [id |-> <<current.who, current.next + k - 1>>, doc |-> docs + k]]
        /\ UNCHANGED excused
     \/ /\ ~Chosen
        /\ \E second \in {docs + 1, docs + 2} :
             /\ batch' = << [id |-> <<Nobody, docs + 1>>, doc |-> docs + 1],
                           [id |-> <<Nobody, second>>, doc |-> docs + 2] >>
             /\ excused' = IF second = docs + 1 THEN excused \cup {<<Nobody, docs + 1>>} ELSE excused
  /\ UNCHANGED <<staff, current, start, history, ready, ops, generating, pdf, kept, loaded, dirty, moves>>

Cancel ==
  /\ Moves
  /\ batch # <<>> /\ batch' = <<>>
  /\ UNCHANGED <<staff, current, start, history, ready, ops, generating, pdf, kept, loaded, dirty, docs, excused>>

\* handleSaveToHistory and handleBatchGenerate begin: user and documents are those
\* of this rendering.  Neither button is held back while the other, or itself, waits.
Begin(kind, what) ==
  /\ Chosen /\ what # <<>> /\ current.next + Len(what) <= MaxNumber
  /\ Cardinality(Waiting) < 2
  /\ ops' = ops \cup {[kind |-> kind, who |-> current.who, next |-> current.next, rest |-> what, done |-> <<>>,
                      twin |-> Cardinality(Waiting)]}
  /\ generating' = (generating \/ kind = "batch")
  /\ UNCHANGED <<staff, current, start, history, batch, ready, pdf, kept, loaded, dirty, docs, excused, moves>>

\* nextCmr after n documents.
AdvanceByOne(next, n) == next + 1
Advance(next, n) == next + n

\* The numbers are times or the user's own, from the one that was next, and still is;
\* no batch of the same user is under way.
InTurn(o, all) ==
  /\ \A k \in DOMAIN all : all[k].id[1] = Nobody \/ all[k].id = <<o.who, o.next + k - 1>>
  /\ staff[o.who] = o.next
  /\ \A p \in Waiting \ {o} : p.who # o.who \/ p.done = <<>>

\* IndexedDB has a document: its entry is made, and after the last one the user moves on.
Stored(o) ==
  LET d == Head(o.rest)
      all == Append(o.done, d)
      n == Advance(o.next, Len(all))
  IN /\ pdf' = [pdf EXCEPT ![d.id] = d.doc]
     /\ history' = history \cup {d}
     /\ dirty' = TRUE
     /\ excused' = IF InTurn(o, all) THEN excused
                   ELSE excused \cup {all[k].id : k \in DOMAIN all} \cup {id \in Ids : id[1] = o.who}
     /\ IF Len(o.rest) > 1
        THEN /\ ops' = (ops \ {o}) \cup {[o EXCEPT !.rest = Tail(@), !.done = all]}
             /\ UNCHANGED <<staff, current, start, batch, ready, generating>>
        ELSE /\ ops' = ops \ {o}
             /\ staff' = [staff EXCEPT ![o.who] = IF @ = 0 THEN 0 ELSE n]
             /\ current' = [who |-> o.who, next |-> n]
             /\ start' = n
             /\ generating' = (generating /\ o.kind = "save")
             /\ batch' = IF o.kind = "batch" THEN <<>> ELSE batch
             /\ ready' = IF o.kind = "save" THEN <<>> ELSE ready
     /\ UNCHANGED <<kept, loaded, docs, moves>>

\* It refuses one: what was stored before stays, and the user is not moved on.
Refused(o) ==
  /\ ops' = ops \ {o}
  /\ generating' = (generating /\ o.kind = "save")
  /\ excused' = excused \cup {o.done[k].id : k \in DOMAIN o.done}
  /\ UNCHANGED <<staff, current, start, history, batch, ready, pdf, kept, loaded, dirty, docs, moves>>

\* confirmDelete: every entry under the number goes, the PDF stays.
Delete(e) ==
  /\ Moves
  /\ history' = {x \in history : x.id # e.id}
  /\ dirty' = TRUE
  /\ UNCHANGED <<staff, current, start, batch, ready, ops, generating, pdf, kept, loaded, docs, excused>>

-----------------------------------------------------------------------------
(* The page                                                                *)

\* The effect: nothing is stored while nobody is chosen.
Persist ==
  /\ dirty /\ dirty' = FALSE
  /\ kept' = IF Chosen THEN [staff |-> staff, last |-> current.who, history |-> history] ELSE kept
  /\ UNCHANGED <<staff, current, start, history, batch, ready, ops, generating, pdf, loaded, docs, excused, moves>>

\* The page is opened again; what it was doing is gone.  Entries that were stored
\* while their batch went on are numbered past the user's next.
Reload ==
  /\ Moves
  /\ loaded
  /\ staff' = Empty.staff /\ current' = Nothing /\ start' = 1 /\ history' = {}
  /\ batch' = <<>> /\ ready' = <<>> /\ ops' = {} /\ generating' = FALSE
  /\ loaded' = FALSE /\ dirty' = FALSE
  /\ excused' = excused \cup {id \in {e.id : e \in kept.history} : id[1] # Nobody /\ id[2] >= kept.staff[id[1]]}
  /\ UNCHANGED <<pdf, kept, docs>>

\* load(): what was stored replaces what is there, a user who was added meanwhile too.
Load ==
  /\ ~loaded /\ loaded' = TRUE
  /\ IF kept = Empty THEN UNCHANGED <<staff, current, start, history, dirty>>
     ELSE /\ staff' = kept.staff /\ history' = kept.history
          /\ LET found == kept.last # Nobody /\ kept.staff[kept.last] # 0
             IN IF found THEN /\ current' = [who |-> kept.last, next |-> kept.staff[kept.last]]
                              /\ start' = kept.staff[kept.last]
                ELSE UNCHANGED <<current, start>>
          /\ dirty' = TRUE
  /\ UNCHANGED <<batch, ready, ops, generating, pdf, kept, docs, excused, moves>>

Init ==
  /\ staff = Empty.staff /\ current = Nothing /\ start = 1 /\ history = {}
  /\ batch = <<>> /\ ready = <<>> /\ ops = {} /\ generating = FALSE
  /\ pdf = [id \in Ids |-> 0] /\ kept = Empty
  /\ loaded = FALSE /\ dirty = FALSE /\ docs = 0 /\ moves = 0 /\ excused = {}

Next ==
  \/ \E i \in Initials : AddUser(i) \/ SelectUser(i) \/ RemoveUser(i)
  \/ \E n \in 1 .. MaxNumber : TypeNumber(n)
  \/ Generate \/ Discard \/ Import \/ Cancel
  \/ Begin("save", ready) \/ Begin("batch", batch)
  \/ \E o \in ops \ Waiting : Made(o)
  \/ \E o \in Waiting : Stored(o) \/ Refused(o)
  \/ \E e \in history : Delete(e)
  \/ Persist \/ Reload \/ Load

-----------------------------------------------------------------------------
(* Properties                                                              *)

TypeOK ==
  /\ staff \in [Initials -> 0 .. MaxNumber] /\ start \in 1 .. MaxNumber
  /\ \A e \in history : e.id \in Ids /\ e.doc \in 1 .. docs
  /\ excused \subseteq Ids /\ moves \in 0 .. MaxMoves /\ loaded \in BOOLEAN /\ dirty \in BOOLEAN

\* A number is the key of a note and of its PDF: no two entries have the same,
\* after whatever saves, batches, users and reloads, unless one was out of turn or
\* the notes of a sheet, read with nobody chosen, were numbered at one moment.
NumberOnce == \A e, f \in history : e # f /\ e.id = f.id => e.id \in excused

\* What is downloaded for an entry is its document.
PdfIsItsOwn == \A e \in history : pdf[e.id] # 0 /\ (pdf[e.id] = e.doc \/ e.id \in excused)

=============================================================================
