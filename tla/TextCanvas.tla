----------------------------- MODULE TextCanvas -----------------------------
(***************************************************************************)
(* The canvas of a page (LivePageCanvas) and the text editors on it        *)
(* (EditableRichText), up to the configuration that PageEditor saves.  An  *)
(* editor owns its DOM and commits it on blur and half a second after the  *)
(* last key.  Every change of the canvas is computed from the blocks that  *)
(* were rendered last and replaces the whole page: what a timer commits is *)
(* rendered in a task of its own, what the user does at once.              *)
(* A text is the number of the edit that made it.                          *)
(***************************************************************************)
EXTENDS Naturals, Sequences, FiniteSets

CONSTANTS
  Texts,      \* ids of text blocks
  Widgets,    \* ids of blocks without an editor
  Nothing,    \* no block has the focus; no items
  MaxTyped,   \* bound: edits
  MaxChanges  \* bound: changes of the canvas and openings of the mention menu

Ids == Texts \cup Widgets

VARIABLES
  shown,     \* config as the canvas was rendered with it
  queued,    \* config as it will be rendered next
  dom,       \* [Texts -> text]: what stands in the editor
  focus,     \* the editor that has the focus
  armed,     \* editors whose commitTimer is set
  onPage,    \* the page is on screen
  menu,      \* the mention menu of the focused editor is open
  query,     \* the text after its "@"
  items,     \* [Texts -> the query whose results are in mentionItems]
  seq,       \* [Texts -> mentionFetchSeq]
  fetches,   \* fetches under way
  changes,
  typed,     \* history: [Texts -> the newest text typed]
  cut        \* history: editors that were taken away with the focus in them

canvas == <<shown, queued, onPage>>
mentions == <<menu, query, items, seq, fetches>>
canvasVars == <<canvas, dom, focus, armed, mentions, changes, typed, cut>>

Config == [blocks : Seq(Ids), text : [Texts -> Nat]]
On(c) == {c.blocks[i] : i \in 1 .. Len(c.blocks)}
Unused == Ids \ (On(shown) \cup On(queued))

-----------------------------------------------------------------------------
(* onChange({ ...config, blocks })                                         *)

\* The config with b's text as its editor has it, or as it is where they agree.
Committed(b) == [shown EXCEPT !.text[b] = dom[b]]

\* An event of the user's: the handler's change is rendered with it.
Change(c) == shown' = c /\ queued' = c

\* The editor that has the focus loses it: onBlur commits and closes the menus.
Blurred == IF focus # Nothing /\ dom[focus] # shown.text[focus] THEN Committed(focus) ELSE queued
LeaveEditor ==
  /\ armed' = armed \ {focus}
  /\ menu' = FALSE
  /\ items' = IF focus = Nothing THEN items ELSE [items EXCEPT ![focus] = Nothing]
  /\ UNCHANGED <<query, seq, fetches>>

Count == changes < MaxChanges /\ changes' = changes + 1

-----------------------------------------------------------------------------
(* The text editor                                                         *)

\* The focus goes from one editor to another, or away.
Focus(b) ==
  /\ onPage /\ b # focus /\ b \in On(shown) \cup {Nothing}
  /\ Change(Blurred) /\ LeaveEditor
  /\ focus' = b
  /\ UNCHANGED <<onPage, dom, changes, typed, cut>>

\* handleInput.
Type ==
  /\ onPage /\ focus # Nothing /\ ~menu /\ typed[focus] < MaxTyped
  /\ dom' = [dom EXCEPT ![focus] = typed[focus] + 1]
  /\ typed' = [typed EXCEPT ![focus] = typed[focus] + 1]
  /\ armed' = armed \cup {focus}
  /\ UNCHANGED <<canvas, focus, mentions, changes, cut>>

\* Half a second later: commitRef.current(), over the rendered config.
CommitTimer(b) ==
  /\ onPage /\ b \in armed
  /\ armed' = armed \ {b}
  /\ queued' = IF dom[b] # shown.text[b] THEN Committed(b) ELSE queued
  /\ UNCHANGED <<shown, onPage, dom, focus, mentions, changes, typed, cut>>

\* React renders what was queued; editors without the focus follow their html.
Render ==
  /\ onPage /\ queued # shown
  /\ shown' = queued
  /\ dom' = [b \in Texts |-> IF b # focus /\ queued.text[b] # shown.text[b] THEN queued.text[b] ELSE dom[b]]
  /\ UNCHANGED <<queued, onPage, focus, armed, mentions, changes, typed, cut>>

\* "@" opens the menu; every key after it changes the query, and each query is fetched.
Ask(q) ==
  /\ query' = q
  /\ seq' = [seq EXCEPT ![focus] = @ + 1]
  /\ fetches' = fetches \cup {[block |-> focus, seq |-> seq'[focus], query |-> q]}
OpenMention ==
  /\ onPage /\ focus # Nothing /\ ~menu /\ Count
  /\ menu' = TRUE /\ Ask(0)
  /\ UNCHANGED <<canvas, dom, focus, armed, items, typed, cut>>
TypeQuery ==
  /\ onPage /\ menu /\ Count
  /\ Ask(query + 1)
  /\ UNCHANGED <<canvas, dom, focus, armed, menu, items, typed, cut>>

\* Mutant: every answer is taken.
AnswerAny(f) ==
  /\ fetches' = fetches \ {f}
  /\ items' = [items EXCEPT ![f.block] = f.query]
  /\ UNCHANGED <<canvas, dom, focus, armed, menu, query, seq, changes, typed, cut>>

\* "a newer keystroke superseded this fetch".
Answer(f) ==
  /\ fetches' = fetches \ {f}
  /\ items' = IF seq[f.block] = f.seq THEN [items EXCEPT ![f.block] = f.query] ELSE items
  /\ UNCHANGED <<canvas, dom, focus, armed, menu, query, seq, changes, typed, cut>>

\* selectMentionItem: a span goes into the text and a commit is scheduled.
Pick ==
  /\ onPage /\ menu /\ items[focus] # Nothing /\ typed[focus] < MaxTyped
  /\ dom' = [dom EXCEPT ![focus] = typed[focus] + 1]
  /\ typed' = [typed EXCEPT ![focus] = typed[focus] + 1]
  /\ armed' = armed \cup {focus}
  /\ menu' = FALSE /\ items' = [items EXCEPT ![focus] = Nothing]
  /\ UNCHANGED <<canvas, focus, query, seq, fetches, changes, cut>>

\* Escape.
CloseMention ==
  /\ onPage /\ menu
  /\ menu' = FALSE /\ items' = [items EXCEPT ![focus] = Nothing]
  /\ UNCHANGED <<canvas, dom, focus, armed, query, seq, fetches, changes, typed, cut>>

-----------------------------------------------------------------------------
(* The canvas                                                              *)

InsertAt(s, i, b) == SubSeq(s, 1, i) \o <<b>> \o SubSeq(s, i + 1, Len(s))
Without(s, b) == SelectSeq(s, LAMBDA x : x # b)
New(c, i, b) == [blocks |-> InsertAt(c.blocks, i, b),
                 text |-> IF b \in Texts THEN [c.text EXCEPT ![b] = 0] ELSE c.text]
Mounted(b) ==
  /\ dom' = [x \in Texts |-> IF x = b THEN 0 ELSE dom[x]]
  /\ typed' = [x \in Texts |-> IF x = b THEN 0 ELSE typed[x]]

\* insertAt, by a button: the editor has lost the focus before.
Insert ==
  /\ onPage /\ focus = Nothing /\ Count
  /\ \E b \in Unused, i \in 0 .. Len(shown.blocks) :
       /\ Change(New(shown, i, b)) /\ Mounted(b)
       /\ focus' = IF b \in Texts THEN b ELSE Nothing
  /\ UNCHANGED <<onPage, armed, mentions, cut>>

Remove ==
  /\ onPage /\ focus = Nothing /\ Count
  /\ \E b \in On(shown) : Change([shown EXCEPT !.blocks = Without(@, b)])
  /\ UNCHANGED <<onPage, dom, focus, armed, mentions, typed, cut>>

\* onDragEnd: arrayMove.
Drag ==
  /\ onPage /\ focus = Nothing /\ Count
  /\ \E i, j \in 1 .. Len(shown.blocks) :
       /\ i # j
       /\ LET rest == Without(shown.blocks, shown.blocks[i])
          IN Change([shown EXCEPT !.blocks = InsertAt(rest, j - 1, shown.blocks[i])])
  /\ UNCHANGED <<onPage, dom, focus, armed, mentions, typed, cut>>

\* handleSlashSelect, by a key: the text stays in its block, cleaned, and the new
\* block follows it and gets the focus; a text that is empty becomes a new text.
\* Which texts are empty is left open.
SlashSelect ==
  /\ onPage /\ focus # Nothing /\ ~menu /\ Count
  /\ \E i \in 1 .. Len(shown.blocks), b \in Unused :
       /\ shown.blocks[i] = focus
       /\ \/ Change(New(Committed(focus), i, b))
          \/ /\ b \in Texts
             /\ Change([New(shown, i, b) EXCEPT !.blocks = Without(@, focus)])
       /\ Mounted(b)
       /\ focus' = IF b \in Texts THEN b ELSE Nothing
  /\ LeaveEditor
  /\ UNCHANGED <<onPage, cut>>

\* The page is left: by a link, which takes the focus first, or by the browser's
\* buttons.  The flush on unmounting finds the reference to the DOM gone and commits
\* the text the block already had; what was queued was the page's already.
Leave ==
  /\ onPage /\ onPage' = FALSE
  /\ \/ Change(Blurred) /\ UNCHANGED cut
     \/ /\ Change(queued)
        /\ cut' = IF focus = Nothing \/ dom[focus] = queued.text[focus] THEN cut ELSE cut \cup {focus}
  /\ LeaveEditor /\ focus' = Nothing
  /\ UNCHANGED <<dom, changes, typed>>

\* A page with two texts and a widget between them, or with one text, or empty.
Init ==
  /\ \E s \in {<<>>} \cup {<<t>> : t \in Texts} \cup {<<t, w, u>> : t, u \in Texts, w \in Widgets} :
       /\ Cardinality({s[i] : i \in 1 .. Len(s)}) = Len(s)
       /\ shown = [blocks |-> s, text |-> [t \in Texts |-> 0]]
  /\ queued = shown
  /\ dom = [t \in Texts |-> 0] /\ typed = dom
  /\ focus = Nothing /\ armed = {} /\ onPage = TRUE
  /\ menu = FALSE /\ query = 0 /\ items = [t \in Texts |-> Nothing]
  /\ seq = [t \in Texts |-> 0] /\ fetches = {}
  /\ changes = 0 /\ cut = {}

Next ==
  \/ \E b \in Texts \cup {Nothing} : Focus(b)
  \/ Type \/ Render \/ OpenMention \/ TypeQuery \/ Pick \/ CloseMention
  \/ \E b \in Texts : CommitTimer(b)
  \/ \E f \in fetches : Answer(f)
  \/ Insert \/ Remove \/ Drag \/ SlashSelect \/ Leave

-----------------------------------------------------------------------------
(* Properties                                                              *)

\* Blocks stand once, and the focus is in one of them.
TypeOK ==
  /\ \A c \in {shown, queued} : Cardinality(On(c)) = Len(c.blocks) /\ On(c) \subseteq Ids
  /\ dom \in [Texts -> 0 .. MaxTyped] /\ typed \in [Texts -> 0 .. MaxTyped]
  /\ focus \in (On(shown) \cap Texts) \cup {Nothing}
  /\ armed \subseteq Texts /\ cut \subseteq Texts
  /\ items \in [Texts -> Nat \cup {Nothing}]

\* "blur-only commits lose the last block's text": what was typed is in the page, and
\* stands in its editor, as soon as the focus is elsewhere and nothing waits to be
\* rendered, unless the page was left by the browser's buttons within half a second.
TypedReachesPage ==
  queued = shown =>
    \A b \in (On(shown) \cap Texts) \ {focus} :
      dom[b] = typed[b] /\ (b \notin cut => shown.text[b] = typed[b])

\* While the user goes on typing, the page is never more than a timer behind.
TimerPending == \A b \in On(queued) \cap Texts : onPage /\ queued.text[b] # dom[b] => b \in armed

\* "Guards against a stale, slower fetch clobbering a newer one's results": once its own
\* fetch was answered, the open menu offers the results of what stands after the "@".
MentionsCurrent ==
  menu /\ (\A f \in fetches : f.block = focus => f.seq # seq[focus]) => items[focus] = query

=============================================================================
