------------------------------ MODULE ViewConfig ------------------------------
(***************************************************************************)
(* The views of a collection on one screen (components/projectPage/board): *)
(* FilterSortToolbar and ViewSettingsMenu buffer what is chosen and store  *)
(* the whole configuration at every change; ViewSwitcher turns to another  *)
(* view and creates the one there is not.  The value of a choice is the    *)
(* number of the edit that made it.                                        *)
(***************************************************************************)
EXTENDS Naturals, FiniteSets

CONSTANTS
  Views,     \* rows of collection_views, some yet to come
  Table,     \* the one that the collection comes with
  Board,     \* the one that the board block adds
  Types,     \* board, table, list, ...
  Toolbar,   \* keys of a configuration that FilterSortToolbar sets
  Settings,  \* those that ViewSettingsMenu sets
  None,      \* no view, no type
  MaxEdits   \* bound: changes made

VARIABLES
  type,      \* type[v]: the type of a view, None before it exists
  row,       \* row[v]: its stored configuration
  page,      \* the view the block points to
  cache,     \* cache[v]: the row cached for v: its id and configuration, or nothing
  local,     \* what the two menus show
  call,      \* call[n]: the PATCH of edit n
  edits,     \* edits made
  list,      \* the views the switcher knows, or nothing
  creating,  \* the type being created, its step and its row
  overlap,   \* history: views edited or turned to during a PATCH of theirs, or whose PATCH failed
  astray,    \* history: a view was left with its last PATCH under way, for one in the cache
  blind      \* history: types created without knowing all the views

screen == <<page, cache, local>>
vars == <<type, row, screen, call, edits, list, creating, overlap, astray, blind>>

Keys == Toolbar \cup Settings
MenuOf(k) == IF k \in Toolbar THEN Toolbar ELSE Settings
Configurations == [Keys -> 0 .. MaxEdits]
Blank == [k \in Keys |-> 0]
Edits == 1 .. MaxEdits
NoCall == [pc |-> "none", of |-> None, key |-> None, menu |-> {}, config |-> Blank]
NoCreation == [pc |-> "none", type |-> None, id |-> None]
Existing == {v \in Views : type[v] # None}
Pending == {n \in Edits : call[n].pc # "none"}

\* Every row, copy and request is in its range.
TypeOK ==
  /\ type \in [Views -> Types \cup {None}] /\ row \in [Views -> Configurations]
  /\ page \in Existing /\ local \in Configurations
  /\ \A v \in Views : Cardinality(cache[v]) <= 1 /\ cache[v] \subseteq [id : Existing, config : Configurations]
  /\ \A n \in Pending : call[n].of \in Existing /\ call[n].key \in Existing /\ call[n].config \in Configurations
  /\ edits \in 0 .. MaxEdits /\ list \subseteq {{v \in Existing : v \in l} : l \in SUBSET Views}
  /\ creating.pc \in {"none", "sent", "inserted"}
  /\ overlap \subseteq Views /\ astray \in BOOLEAN /\ blind \subseteq Types

\* A collection comes with a table, and a board block adds its own view; the
\* screen has the view, and may yet be asking for the list.
Init ==
  /\ type = [v \in Views |-> CASE v = Table -> "table" [] v = Board -> "board" [] OTHER -> None]
  /\ page = Board
  /\ cache = [v \in Views |-> IF v = Board THEN {[id |-> v, config |-> Blank]} ELSE {}]
  /\ row = [v \in Views |-> Blank] /\ local = Blank
  /\ call = [n \in Edits |-> NoCall] /\ edits = 0
  /\ list = {} /\ creating = NoCreation
  /\ overlap = {} /\ astray = FALSE /\ blind = {}

\* The view that is on screen, once it is loaded.
Drawn == cache[page]

-----------------------------------------------------------------------------
\* Mutant: the configuration is sent as the menus show it when it is answered,
\* with nothing of the choice just made.
WithForgotten(config, k, n) == config

\* { ...view.config, filters: next }
With(config, k, n) == [config EXCEPT ![k] = n]

\* saveFilters, saveSorts, toggleCardProperty, ...: the menu shows the choice,
\* and the configuration that is drawn is sent with it.
Edit(k) ==
  /\ edits < MaxEdits
  /\ edits' = edits + 1
  /\ local' = [local EXCEPT ![k] = edits']
  /\ \E view \in Drawn :
       /\ call' = [call EXCEPT ![edits'] =
            [pc |-> "sent", of |-> view.id, key |-> page, menu |-> MenuOf(k),
             config |-> With(view.config, k, edits')]]
       /\ overlap' = IF \E n \in Pending : call[n].of = view.id THEN overlap \cup {view.id} ELSE overlap
  /\ UNCHANGED <<type, row, page, cache, list, creating, astray, blind>>

\* updateView writes the whole column.
Write(n) ==
  /\ call[n].pc = "sent"
  /\ row' = [row EXCEPT ![call[n].of] = call[n].config]
  /\ call' = [call EXCEPT ![n].pc = "done"]
  /\ UNCHANGED <<type, screen, edits, list, creating, overlap, astray, blind>>

\* The menus start over when the id of the view drawn changes.
Redraw(entry) ==
  local' = IF \E old \in Drawn : old.id = entry.id THEN local ELSE entry.config

\* onSuccess caches the answer under the key of the hook.
Answer(n) ==
  LET entry == [id |-> call[n].of, config |-> call[n].config] IN
  /\ call[n].pc = "done"
  /\ call' = [call EXCEPT ![n] = NoCall]
  /\ cache' = [cache EXCEPT ![call[n].key] = {entry}]
  /\ IF call[n].key = page THEN Redraw(entry) ELSE UNCHANGED local
  /\ UNCHANGED <<type, row, page, edits, list, creating, overlap, astray, blind>>

\* The PATCH, or its answer, is lost; the menu shows the choice nevertheless.
Fail(n) ==
  /\ call[n].pc # "none"
  /\ call' = [call EXCEPT ![n] = NoCall]
  /\ overlap' = overlap \cup {call[n].of}
  /\ UNCHANGED <<type, row, screen, edits, list, creating, astray, blind>>

\* What useMutation calls its current mutation: the last edit of the menu.
Current(menu) ==
  {n \in Pending : call[n].menu = menu /\ \A m \in Pending : call[m].menu = menu => m <= n}

\* The block points to view v.  A view in the cache is drawn at once by the menus
\* there are, whose hooks pass their new key to their current mutation; another
\* one is loaded first, and the menus mount anew.
Turn(v) ==
  /\ page' = v
  /\ IF cache[v] # {}
       THEN LET caught == Current(Toolbar) \cup Current(Settings) IN
            /\ \E entry \in cache[v] : Redraw(entry)
            /\ call' = [n \in Edits |-> IF n \in caught THEN [call[n] EXCEPT !.key = v] ELSE call[n]]
            /\ astray' = (astray \/ \E n \in caught : call[n].of # v)
       ELSE UNCHANGED <<local, call, astray>>
  /\ overlap' = IF \E n \in Pending : call[n].of = v THEN overlap \cup {v} ELSE overlap

\* switchTo an existing view that the switcher knows of.
Switch(v) ==
  /\ creating = NoCreation /\ Drawn # {} /\ v # page
  /\ \E known \in list : v \in known
  /\ \A view \in Drawn : type[v] # type[view.id]
  /\ Turn(v)
  /\ UNCHANGED <<type, row, cache, edits, list, creating, blind>>

\* The view the block points to is loaded.
Load ==
  /\ Drawn = {}
  /\ cache' = [cache EXCEPT ![page] = {[id |-> page, config |-> row[page]]}]
  /\ local' = row[page]
  /\ UNCHANGED <<type, row, page, call, edits, list, creating, overlap, astray, blind>>

\* The list of the views is loaded.
Listing ==
  /\ list # {Existing} /\ creating.pc # "inserted"
  /\ list' = {Existing}
  /\ UNCHANGED <<type, row, screen, call, edits, creating, overlap, astray, blind>>

\* switchTo a type of which the switcher knows no view: it creates one.
Create(t) ==
  /\ creating = NoCreation
  /\ \A view \in Drawn : type[view.id] # t
  /\ Drawn # {}
  /\ \A known \in list : \A v \in known : type[v] # t
  /\ creating' = [pc |-> "sent", type |-> t, id |-> None]
  /\ blind' = IF list = {Existing} THEN blind ELSE blind \cup {t}
  /\ UNCHANGED <<type, row, screen, call, edits, list, overlap, astray>>

Insert(v) ==
  /\ creating.pc = "sent" /\ type[v] = None
  /\ type' = [type EXCEPT ![v] = creating.type]
  /\ creating' = [creating EXCEPT !.pc = "inserted", !.id = v]
  /\ UNCHANGED <<row, screen, call, edits, list, overlap, astray, blind>>

\* onSuccess waits for the list to be asked anew, which may fail; then the block
\* turns to the new view.
Created ==
  /\ creating.pc = "inserted"
  /\ list' \in {list, {Existing}}
  /\ creating' = NoCreation
  /\ Turn(creating.id)
  /\ UNCHANGED <<type, row, cache, edits, blind>>

CreateFails ==
  /\ creating.pc # "none"
  /\ creating' = NoCreation
  /\ UNCHANGED <<type, row, screen, call, edits, list, overlap, astray, blind>>

Next ==
  \/ \E k \in Keys : Edit(k)
  \/ \E n \in Edits : Write(n) \/ Answer(n) \/ Fail(n)
  \/ \E v \in Views : Switch(v) \/ Insert(v)
  \/ \E t \in Types : Create(t)
  \/ Load \/ Listing \/ Created \/ CreateFails

Spec == Init /\ [][Next]_vars

-----------------------------------------------------------------------------
(* Properties                                                              *)

\* What was chosen is stored and drawn: once nothing is under way, the menus, the
\* cache and the row agree, where no PATCH failed, no answer went astray, and a
\* view was neither edited nor turned to during a PATCH of its own.  Two quick
\* choices are: the buffers that the comments give the menus for them keep what
\* the menus show, but each PATCH sends the configuration drawn before the other.
ChoicesKept ==
  Pending = {} /\ ~astray =>
    \A v \in Existing \ overlap : \A entry \in cache[v] :
      entry.config = row[v] /\ (v = page => local = row[v])

\* The cache has each view under its own id, unless a view was left while its
\* last PATCH was under way: its answer is then cached as the view turned to.
CachedAsItself == ~astray => \A v \in Views : \A entry \in cache[v] : entry.id = v

\* One view of a type, which is found again when the type is chosen again, unless
\* it was created before the list was there or after a request for it failed.
OneOfAType ==
  \A v, w \in Existing : v # w /\ type[v] = type[w] => type[v] \in blind

=============================================================================
