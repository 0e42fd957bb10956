------------------------------ MODULE PageEditor ------------------------------
(***************************************************************************)
(* The block canvas and its autosave: project pages and, with a more       *)
(* careful dirty flag, records and client pages.  The whole page goes to   *)
(* the server with every save.  One block may be a legacy kanban board,    *)
(* whose first edit migrates it to a collection before it is applied.      *)
(* A block's content is the number of the edit that wrote it.              *)
(***************************************************************************)
EXTENDS Naturals, FiniteSets

CONSTANTS
  Blocks,    \* blocks of the page
  Board,     \* the legacy kanban board, one of them
  MaxEdits,  \* bound: edits of one block
  MaxSaves,  \* bound: saves issued
  MaxVisits  \* bound: visits to the page

VARIABLES
  careful,   \* the record's and the client page's editor, not the project page's
  stored,    \* the page the database holds
  last,      \* history: number of the save that wrote it
  cached,    \* the page in the query cache
  visits,    \* visits so far
  open,      \* the page is on screen
  config,    \* what it shows
  dirty,     \* dirtyRef
  armed,     \* the 1.5 s timer is set
  saves,     \* saves in flight: their number, page, and whether the server has run them
  issued,    \* saves issued
  gate,      \* the migration: its state and the page its callback closed over
  typed,     \* history: the newest edit of each block
  behind,    \* history: blocks whose newest edit the screen has lost
  parting,   \* history: number of the last save issued while leaving
  meddled    \* history: an older save, or a colleague's, replaced a newer one

page == <<stored, last, meddled>>
screen == <<open, config, dirty, armed>>
history == <<typed, behind, parting>>
vars == <<careful, page, cached, visits, screen, saves, issued, gate, history>>

Page == [Blocks -> 0 .. MaxEdits]
Blank == [b \in Blocks |-> 0]
Save == [n : 1 .. MaxSaves, page : Page, done : BOOLEAN]

\* The page, its copies and every save are in range.
TypeOK ==
  /\ {stored, cached, config, typed} \subseteq Page
  /\ {careful, open, dirty, armed, meddled} \subseteq BOOLEAN
  /\ saves \subseteq Save
  /\ {last, issued, parting} \subseteq 0 .. MaxSaves
  /\ gate \in [state : {"legacy", "migrating", "migrated"}, page : Page]
  /\ behind \subseteq Blocks

Init ==
  /\ careful \in BOOLEAN
  /\ stored = Blank /\ last = 0 /\ meddled = FALSE /\ cached = Blank
  /\ visits = 0 /\ open = FALSE /\ config = Blank
  /\ dirty = FALSE /\ armed = FALSE
  /\ saves = {} /\ issued = 0
  /\ gate = [state |-> "legacy", page |-> Blank]
  /\ typed = Blank /\ behind = {} /\ parting = 0

\* Seed once, from whatever the query cache holds: it is fresh for five minutes.
\* A page from before the migration has the legacy board again.
Enter ==
  /\ ~open /\ visits < MaxVisits
  /\ open' = TRUE /\ visits' = visits + 1
  /\ config' = cached
  /\ behind' = behind \cup {b \in Blocks : cached[b] # typed[b]}
  /\ gate' = IF gate.state = "migrated" /\ cached[Board] >= gate.page[Board]
                THEN gate ELSE [state |-> "legacy", page |-> Blank]
  /\ UNCHANGED <<careful, page, cached, dirty, armed, saves, issued, typed, parting>>

\* Every change of the canvas sets the flag and starts the timer anew.
Show(new) == config' = new /\ dirty' = TRUE /\ armed' = TRUE

\* An edit computes the next page from the one rendered.
Edit(b) ==
  /\ open /\ typed[b] < MaxEdits
  /\ b # Board \/ gate.state = "migrated"
  /\ typed' = [typed EXCEPT ![b] = @ + 1]
  /\ behind' = behind \ {b}
  /\ Show([config EXCEPT ![b] = typed[b] + 1])
  /\ UNCHANGED <<careful, page, cached, visits, open, saves, issued, gate, parting>>

\* The first edit of the legacy board: kept aside while the collection, the view
\* and the records are created; further edits of the board are ignored meanwhile.
GateEdit ==
  /\ open /\ gate.state = "legacy" /\ typed[Board] < MaxEdits
  /\ typed' = [typed EXCEPT ![Board] = @ + 1]
  /\ behind' = behind \cup {Board}
  /\ gate' = [state |-> "migrating", page |-> [config EXCEPT ![Board] = typed[Board] + 1]]
  /\ UNCHANGED <<careful, page, cached, visits, screen, saves, issued, parting>>

\* The migration ends, as a collection or, when a request failed, as the legacy
\* block again: either way the callback sets the page it closed over.
GateDone(state) ==
  /\ open /\ gate.state = "migrating"
  /\ gate' = [state |-> state, page |-> gate.page]
  /\ behind' = (behind \ {Board}) \cup {b \in Blocks : gate.page[b] # typed[b]}
  /\ Show(gate.page)
  /\ UNCHANGED <<careful, page, cached, visits, open, saves, issued, typed, parting>>

-----------------------------------------------------------------------------
Issue ==
  /\ issued < MaxSaves
  /\ issued' = issued + 1
  /\ saves' = saves \cup {[n |-> issued + 1, page |-> config, done |-> FALSE]}

\* The timer: the project page's editor clears the flag before it saves.
Autosave ==
  /\ open /\ armed
  /\ armed' = FALSE
  /\ dirty' = careful
  /\ Issue
  /\ UNCHANGED <<careful, page, cached, visits, open, config, gate, history>>

\* Leaving clears the timer and flushes what is dirty.
Leave ==
  /\ open
  /\ open' = FALSE /\ armed' = FALSE /\ dirty' = FALSE
  /\ IF dirty THEN Issue /\ parting' = issued + 1
              ELSE UNCHANGED <<saves, issued, parting>>
  /\ UNCHANGED <<careful, page, cached, visits, config, gate, typed, behind>>

\* PATCH: the server replaces the page, in the order the saves arrive.
Store(s) ==
  /\ s \in saves /\ ~s.done
  /\ stored' = s.page /\ last' = s.n
  /\ meddled' = (meddled \/ s.n < last)
  /\ saves' = (saves \ {s}) \cup {[s EXCEPT !.done = TRUE]}
  /\ UNCHANGED <<careful, cached, visits, screen, issued, gate, history>>

\* Mutant: the flag is cleared although the page has changed since.
AnsweredAny(s) ==
  /\ s \in saves /\ s.done
  /\ saves' = saves \ {s}
  /\ cached' = s.page
  /\ dirty' = FALSE
  /\ UNCHANGED <<careful, page, visits, open, config, armed, issued, gate, history>>

\* onSuccess: the cache takes the answer; the careful editor clears the flag
\* when nothing changed since, but only while it is mounted.
Answered(s) ==
  /\ s \in saves /\ s.done
  /\ saves' = saves \ {s}
  /\ cached' = s.page
  /\ dirty' = (dirty /\ ~(careful /\ config = s.page))
  /\ UNCHANGED <<careful, page, visits, open, config, armed, issued, gate, history>>

\* The request or its answer is lost.
Failed(s) ==
  /\ s \in saves
  /\ saves' = saves \ {s}
  /\ UNCHANGED <<careful, page, cached, visits, screen, issued, gate, history>>

\* A colleague saves the page as he has it.
Rival ==
  /\ last # 0 /\ stored # Blank
  /\ stored' = Blank /\ last' = 0 /\ meddled' = TRUE
  /\ UNCHANGED <<careful, cached, visits, screen, saves, issued, gate, history>>

Next ==
  \/ Enter \/ Leave \/ Autosave \/ GateEdit \/ Rival
  \/ \E b \in Blocks : Edit(b)
  \/ \E state \in {"legacy", "migrated"} : GateDone(state)
  \/ \E s \in saves : Store(s) \/ Answered(s) \/ Failed(s)

Spec == Init /\ [][Next]_vars

-----------------------------------------------------------------------------
(* Properties                                                              *)

Quiet == ~open /\ saves = {}

\* "Flush a pending save when leaving the page": once the page is left and the
\* last save is the one stored, the database has the newest edit of each block,
\* unless the screen itself had fallen behind: by a return before the last save
\* was answered, or by a migration that ended on an older page.
EditsKept ==
  Quiet /\ last = issued => \A b \in Blocks \ behind : stored[b] = typed[b]

\* "Only clear dirty if no newer edit has occurred since this save started": the
\* careful editor leaves the database behind the screen only when the save on
\* leaving was lost, arrived out of order or was overwritten by a colleague's.
RetriedOnLeaving ==
  Quiet /\ careful /\ ~meddled => last = issued \/ parting = issued

=============================================================================
