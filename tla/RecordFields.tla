----------------------------- MODULE RecordFields -----------------------------
(***************************************************************************)
(* The fields of one record on screen: the text fields of its property     *)
(* panel and the title of its board card.  Each waits for a pause in the   *)
(* typing, or for the blur, and saves the record's whole property map, as  *)
(* the screen had it, with its own value in it.  A value is the number of  *)
(* the keystroke that completed it.                                        *)
(***************************************************************************)
EXTENDS Naturals

CONSTANTS
  Panel,    \* properties edited in the panel
  Cards,    \* properties edited on the card
  MaxTypes, \* bound: values typed into one field
  MaxSaves  \* bound: saves issued

Fields == Panel \cup Cards

VARIABLES
  stored,   \* collection_records.props
  cached,   \* the record in the query cache, which the screen renders
  field,    \* field[p]: the draft, lastCommittedRef, the timer and the map it closed over
  editing,  \* card fields whose input is open
  saves,    \* saves in flight: field, property map, whether the server has run it
  issued,   \* saves issued
  typed,    \* history: the newest value of each field
  swallowed,\* history: fields whose draft an answer reset before it was saved
  trampled, \* history: properties of which an older value replaced a newer one
  failed    \* history: properties whose newest value was in a save that failed

screen == <<cached, field, editing>>
history == <<typed, swallowed, trampled, failed>>
vars == <<stored, screen, saves, issued, history>>

Typings == 0 .. MaxTypes
Props == [Fields -> Typings]
Empty == [p \in Fields |-> 0]
Off == 0

\* Drafts, copies of the record and saves are in range.
TypeOK ==
  /\ {stored, cached, typed} \subseteq Props
  /\ field \in [Fields -> [draft : Typings, last : Typings, timer : Typings, base : Props]]
  /\ editing \subseteq Cards
  /\ saves \subseteq [n : 1 .. MaxSaves, field : Fields, props : Props, done : BOOLEAN]
  /\ issued \in 0 .. MaxSaves
  /\ swallowed \cup trampled \cup failed \subseteq Fields

Init ==
  /\ stored = Empty /\ cached = Empty /\ typed = Empty
  /\ field = [p \in Fields |-> [draft |-> 0, last |-> 0, timer |-> Off, base |-> Empty]]
  /\ editing = Cards
  /\ saves = {} /\ issued = 0
  /\ swallowed = {} /\ trampled = {} /\ failed = {}

\* handleChange: the timer starts anew, with this rendering's property map.
Type(p) ==
  /\ p \in Panel \cup editing
  /\ typed[p] < MaxTypes
  /\ typed' = [typed EXCEPT ![p] = @ + 1]
  /\ field' = [field EXCEPT ![p] = [@ EXCEPT !.draft = typed[p] + 1, !.timer = typed[p] + 1, !.base = cached]]
  /\ swallowed' = swallowed \ {p}
  /\ failed' = failed \ {p}
  /\ UNCHANGED <<stored, cached, editing, saves, issued, trampled>>

\* flush: clears the timer, and saves what differs from the last commit.
Flush(p, value, base) ==
  /\ field' = [field EXCEPT ![p] = [@ EXCEPT !.timer = Off, !.last = value]]
  /\ IF value = field[p].last
       THEN UNCHANGED <<saves, issued, swallowed>>
       ELSE /\ issued < MaxSaves
            /\ issued' = issued + 1
            /\ saves' = saves \cup
                 {[n |-> issued + 1, field |-> p, props |-> [base EXCEPT ![p] = value], done |-> FALSE]}
            /\ swallowed' = IF value = typed[p] THEN swallowed \ {p} ELSE swallowed

\* The pause: the value and the map are those of the last keystroke.
Pause(p) ==
  /\ field[p].timer # Off
  /\ Flush(p, field[p].timer, field[p].base)
  /\ UNCHANGED <<stored, cached, editing, typed, trampled, failed>>

\* The blur saves the draft on screen; a card's input closes.
Blur(p) ==
  /\ p \in Panel \cup editing
  /\ field[p].timer # Off
  /\ Flush(p, field[p].draft, cached)
  /\ editing' = editing \ {p}
  /\ UNCHANGED <<stored, cached, typed, trampled, failed>>

\* Escape closes the card's input and resets the draft, not the timer.
Escape(p) ==
  /\ p \in editing
  /\ editing' = editing \ {p}
  /\ field' = [field EXCEPT ![p].draft = field[p].last]
  /\ UNCHANGED <<stored, cached, saves, issued, history>>

-----------------------------------------------------------------------------
\* updateRecord replaces the property map.
Store(s) ==
  /\ s \in saves /\ ~s.done
  /\ stored' = s.props
  /\ saves' = (saves \ {s}) \cup {[s EXCEPT !.done = TRUE]}
  /\ trampled' = {p \in Fields : \/ s.props[p] < stored[p]
                                 \/ p \in trampled /\ s.props[p] # typed[p]}
  /\ UNCHANGED <<screen, issued, typed, swallowed, failed>>

\* Panel fields follow a value that changes: draft and last commit are reset.
Follow(p, props) ==
  IF p \in Panel /\ props[p] # cached[p]
    THEN [field[p] EXCEPT !.draft = props[p], !.last = props[p]] ELSE field[p]

\* onSuccess puts the answered record on screen.
Answered(s) ==
  /\ s \in saves /\ s.done
  /\ saves' = saves \ {s}
  /\ cached' = s.props
  /\ field' = [p \in Fields |-> Follow(p, s.props)]
  /\ swallowed' = swallowed \cup
       {p \in Panel : field[p].timer # Off /\ Follow(p, s.props).draft # field[p].draft}
  /\ UNCHANGED <<stored, editing, issued, typed, trampled, failed>>

\* A save that fails is not repeated: its value counts as committed.
Failed(s) ==
  /\ s \in saves
  /\ saves' = saves \ {s}
  /\ failed' = failed \cup {p \in {s.field} : ~s.done /\ s.props[p] = typed[p]}
  /\ UNCHANGED <<stored, screen, issued, typed, swallowed, trampled>>

Next ==
  \/ \E p \in Fields : Type(p) \/ Pause(p) \/ Blur(p) \/ Escape(p)
  \/ \E s \in saves : Store(s) \/ Answered(s) \/ Failed(s)

Spec == Init /\ [][Next]_vars

-----------------------------------------------------------------------------
(* Properties                                                              *)

Quiet == saves = {} /\ \A p \in Fields : field[p].timer = Off

\* What was typed last is what the database holds once every timer has fired,
\* though fields debounce, blur, and save over one another, unless an answer
\* reset the draft under the typist, another field's save took the value back,
\* or the save failed.
TypedIsSaved ==
  Quiet => \A p \in Fields \ (swallowed \cup trampled \cup failed) : stored[p] = typed[p]

=============================================================================
