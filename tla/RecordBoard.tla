----------------------------- MODULE RecordBoard -----------------------------
(***************************************************************************)
(* A collection shown as a board (components/projectPage/board) over       *)
(* domains/records.  The columns are the options of a select property in   *)
(* the collection's schema, which every change of a column or a property   *)
(* writes whole, from the copy on screen; a card is in the column its      *)
(* property map names, and a card whose option is gone is in none.         *)
(***************************************************************************)
EXTENDS FiniteSets

CONSTANTS
  Users,    \* people with the board on screen
  Cards,    \* records of the collection
  Columns,  \* options the groupBy property may have
  Extra,    \* other properties of the schema
  First,    \* the column the collection is created with
  FollowRaces \* bound: whether requests are made after one that raced, about
              \* which the properties say nothing

VARIABLES
  schema,   \* data_collections.schema: options and further properties
  card,     \* card[c]: its option and the further properties it holds; {} before it exists
  view,     \* view[u]: the schema and the cards as u has them
  hidden,   \* hidden[u]: cards the view's filters keep from u
  call,     \* call[u]: the request of u under way
  raced     \* history: a request was made on an outdated screen, during another one, or
            \* a change of the schema under a filter

vars == <<schema, card, view, hidden, call, raced>>

Schema == [columns : SUBSET Columns, extra : SUBSET Extra]
Card == {{}} \cup {{[column |-> k, extra |-> e]} : k \in Columns, e \in SUBSET Extra}
Copy == [schema : Schema, card : [Cards -> Card]]
Call == [kind : {"idle", "schema", "record"}, pc : {"sent", "checked", "done"}, schema : Schema,
         id : Cards, card : Card, then : SUBSET Extra]

NewSchema == [columns |-> {First}, extra |-> {}]
NoCard == [c \in Cards |-> {}]
Idle == [kind |-> "idle", pc |-> "sent", schema |-> NewSchema, id |-> CHOOSE c \in Cards : TRUE,
         card |-> {}, then |-> {}]

\* The tables, the copies and the requests are in range.
TypeOK ==
  /\ schema \in Schema /\ card \in [Cards -> Card]
  /\ view \in [Users -> Copy] /\ hidden \in [Users -> SUBSET Cards]
  /\ call \in [Users -> Call] /\ raced \in BOOLEAN

\* createCollectionWithDefaultView, one transaction, and everyone opens the board.
Init ==
  /\ schema = NewSchema /\ card = NoCard
  /\ view = [u \in Users |-> [schema |-> NewSchema, card |-> NoCard]]
  /\ hidden = [u \in Users |-> {}]
  /\ call = [u \in Users |-> Idle]
  /\ raced = FALSE

\* A reload, with filters that may hide a card.
Open(u, h) ==
  /\ call[u].kind = "idle"
  /\ view' = [view EXCEPT ![u] = [schema |-> schema, card |-> card]]
  /\ hidden' = [hidden EXCEPT ![u] = h]
  /\ UNCHANGED <<schema, card, call, raced>>

Send(u, kind, fields) ==
  /\ call[u].kind = "idle" /\ (raced => FollowRaces)
  /\ call' = [call EXCEPT ![u] = [s \in DOMAIN Idle |->
       IF s = "kind" THEN kind ELSE IF s \in DOMAIN fields THEN fields[s] ELSE Idle[s]]]
  /\ raced' = \/ raced
              \/ kind = "schema" /\ hidden[u] # {}
              \/ view[u] # [schema |-> schema, card |-> card]
              \/ \E v \in Users \ {u} : call[v].kind # "idle"
  /\ UNCHANGED <<schema, card, view, hidden>>

\* Mutant: the schema sent holds nothing but the options.
AddColumnAlone(u, k) ==
  /\ k \notin view[u].schema.columns
  /\ Send(u, "schema", [schema |-> [columns |-> view[u].schema.columns \cup {k}, extra |-> {}]])

\* AddColumnControl: the options on screen and one more, within the schema on screen.
AddColumn(u, k) ==
  /\ k \notin view[u].schema.columns
  /\ Send(u, "schema", [schema |-> [view[u].schema EXCEPT !.columns = @ \cup {k}]])

Shown(u, k) == {c \in Cards \ hidden[u] : \E r \in view[u].card[c] : r.column = k}

\* commitDelete: only a column that shows no card offers it.
DeleteColumn(u, k) ==
  /\ k \in view[u].schema.columns
  /\ Shown(u, k) = {}
  /\ Send(u, "schema", [schema |-> [view[u].schema EXCEPT !.columns = @ \ {k}]])

\* AddPropertyModal: the schema first and then the record gets a first value.
AddProperty(u, c, p) ==
  /\ view[u].card[c] # {} /\ p \notin view[u].schema.extra
  /\ Send(u, "schema", [schema |-> [view[u].schema EXCEPT !.extra = @ \cup {p}],
                        id |-> c, then |-> {p}])

\* handleAddCard: a new record in a column on screen.
AddCard(u, c, k) ==
  /\ card[c] = {} /\ k \in view[u].schema.columns
  /\ \A v \in Users : call[v].id = c => call[v].kind = "idle"
  /\ Send(u, "record", [id |-> c, card |-> {[column |-> k, extra |-> {}]}])

\* handleDragEnd: the whole property map, with another option in it.
Drag(u, c, k) ==
  /\ c \notin hidden[u] /\ k \in view[u].schema.columns
  /\ \E r \in view[u].card[c] :
       /\ r.column \in view[u].schema.columns \ {k}
       /\ Send(u, "record", [id |-> c, card |-> {[r EXCEPT !.column = k]}])

-----------------------------------------------------------------------------
\* updateCollection replaces the schema.
WriteSchema(u) ==
  /\ call[u].kind = "schema" /\ call[u].pc = "sent"
  /\ schema' = call[u].schema
  /\ call' = [call EXCEPT ![u].pc = "done"]
  /\ UNCHANGED <<card, view, hidden, raced>>

\* onSuccess shows it; a new property goes on to the record.
SchemaAnswered(u) ==
  /\ call[u].kind = "schema" /\ call[u].pc = "done"
  /\ view' = [view EXCEPT ![u].schema = call[u].schema]
  /\ call' = [call EXCEPT ![u] =
       IF call[u].then = {} THEN Idle
       ELSE [Idle EXCEPT !.kind = "record", !.id = call[u].id,
                         !.card = {[r EXCEPT !.extra = @ \cup call[u].then] : r \in view[u].card[call[u].id]}]]
  /\ UNCHANGED <<schema, card, hidden, raced>>

\* validateProps: every key is in the schema.  Options are not compared.
Known(r) == r.extra \subseteq schema.extra

\* createRecord and updateRecord read the collection and validate ...
Validate(u) ==
  /\ call[u].kind = "record" /\ call[u].pc = "sent"
  /\ call' = [call EXCEPT ![u] = IF \A r \in @.card : Known(r) THEN [@ EXCEPT !.pc = "checked"] ELSE Idle]
  /\ UNCHANGED <<schema, card, view, hidden, raced>>

\* ... and write the property map.
WriteRecord(u) ==
  /\ call[u].kind = "record" /\ call[u].pc = "checked"
  /\ card' = [card EXCEPT ![call[u].id] = call[u].card]
  /\ call' = [call EXCEPT ![u].pc = "done"]
  /\ UNCHANGED <<schema, view, hidden, raced>>

RecordAnswered(u) ==
  /\ call[u].kind = "record" /\ call[u].pc = "done"
  /\ view' = [view EXCEPT ![u].card[call[u].id] = call[u].card]
  /\ call' = [call EXCEPT ![u] = Idle]
  /\ UNCHANGED <<schema, card, hidden, raced>>

\* The request or its answer is lost.
Fail(u) ==
  /\ call[u].kind # "idle"
  /\ call' = [call EXCEPT ![u] = Idle]
  /\ UNCHANGED <<schema, card, view, hidden, raced>>

Next == \E u \in Users :
  \/ \E h \in SUBSET Cards : Open(u, h)
  \/ \E k \in Columns : AddColumn(u, k) \/ DeleteColumn(u, k)
  \/ \E c \in Cards, p \in Extra : AddProperty(u, c, p)
  \/ \E c \in Cards, k \in Columns : AddCard(u, c, k) \/ Drag(u, c, k)
  \/ WriteSchema(u) \/ SchemaAnswered(u) \/ Validate(u) \/ WriteRecord(u) \/ RecordAnswered(u) \/ Fail(u)

Spec == Init /\ [][Next]_vars

-----------------------------------------------------------------------------
(* Properties                                                              *)

\* canDelete is there so that no card loses its column: none has, as long as
\* the board is used by one person at a time, on a fresh screen, and without
\* filters when its columns change.
CardsHaveColumns ==
  ~raced => \A c \in Cards : \A r \in card[c] : r.column \in schema.columns

\* Every property a record holds is in the schema, so that the record can be
\* saved again: validateProps refuses the whole map otherwise.
RecordsFitSchema == ~raced => \A c \in Cards : \A r \in card[c] : r.extra \subseteq schema.extra

=============================================================================
