--------------------------- MODULE NotificationBell ---------------------------
(***************************************************************************)
(* The bell of one user (packages/data/src/notifications): a list and a    *)
(* counter in the query cache, each with its own query, its own handler of *)
(* 'notification:new' and its own idea of what marking as read does.       *)
(***************************************************************************)
EXTENDS Naturals, Sequences, FiniteSets, SequencesExt

CONSTANTS
  Notes,     \* notifications of the user
  MaxAsks,   \* bound: queries of the list
  MaxBreaks  \* bound: disconnections of the socket

VARIABLES
  row,       \* row[n]: the notifications row, "none", "unread" or "read"
  emitting,  \* rows inserted whose emit has not run yet
  wire,      \* 'notification:new' events on the way, in order
  breaks,    \* odd while the socket is down
  list,      \* the cached list, newest first, of notes as shown
  count,     \* the cached counter
  listing,   \* the list query: its state and the rows it has read
  counting,  \* the counter's query: its state, the number read, whether that is
             \* outdated, and whether the cache has a counter yet
  asks,      \* list queries asked
  marked,    \* answers to mark-read under way
  markedAll, \* the answer to mark-all: "none", "clean", or "late" after an insert
  slipped,   \* history: notes that a race took from the list, or that were never pushed
  twice,     \* history: notes an answer held before their event came
  skewed     \* history: the counter was last set from outdated numbers

server == <<row, emitting>>
link == <<wire, breaks>>
lists == <<list, listing, asks>>
counts == <<count, counting>>
marks == <<marked, markedAll>>
history == <<slipped, twice, skewed>>
vars == <<server, link, lists, counts, marks, history>>

Entry == [id : Notes, unread : BOOLEAN]

\* The cache and everything under way is in its range.
TypeOK ==
  /\ row \in [Notes -> {"none", "unread", "read"}]
  /\ emitting \cup ToSet(wire) \cup marked \cup slipped \cup twice \subseteq Notes
  /\ ToSet(list) \subseteq Entry
  /\ count \in 0 .. 2 * Cardinality(Notes)
  /\ listing.state \in {"first", "idle", "read"}
  /\ listing.rows \in Seq(Entry)
  /\ counting \in [state : {"idle", "asked", "read"}, n : 0 .. Cardinality(Notes),
                   outdated : BOOLEAN, known : BOOLEAN]
  /\ markedAll \in {"none", "clean", "late"}
  /\ skewed \in BOOLEAN

Idle == [state |-> "idle", n |-> 0, outdated |-> FALSE, known |-> TRUE]

Init ==
  /\ row = [n \in Notes |-> "none"]
  /\ emitting = {} /\ wire = << >> /\ breaks = 0
  /\ list = << >> /\ count = 0 /\ asks = 0
  /\ listing = [state |-> "first", rows |-> << >>]
  /\ counting = [Idle EXCEPT !.state = "asked", !.known = FALSE]
  /\ marked = {} /\ markedAll = "none"
  /\ slipped = {} /\ twice = {} /\ skewed = FALSE

Online == breaks % 2 = 0
Stored == {n \in Notes : row[n] # "none"}
Unread == {n \in Notes : row[n] = "unread"}
Shows(n, unread) == [id |-> n, unread |-> unread] \in ToSet(list)
Listed(n) == \E unread \in BOOLEAN : Shows(n, unread)
Outdated == counting' = [counting EXCEPT !.outdated = counting.state = "read"]

-----------------------------------------------------------------------------
(* The server                                                              *)

\* create: the row, and then its emit.
Insert(n) ==
  /\ row[n] = "none"
  /\ row' = [row EXCEPT ![n] = "unread"]
  /\ emitting' = emitting \cup {n}
  /\ Outdated
  /\ markedAll' = IF markedAll = "none" THEN "none" ELSE "late"
  /\ UNCHANGED <<link, lists, count, marked, history>>

Emit(n) ==
  /\ n \in emitting
  /\ emitting' = emitting \ {n}
  /\ IF Online
       THEN wire' = Append(wire, n) /\ UNCHANGED <<slipped, skewed>>
       ELSE slipped' = slipped \cup {n} /\ skewed' = TRUE /\ UNCHANGED wire
  /\ UNCHANGED <<row, breaks, lists, counts, marks, twice>>

\* The user marks a note read that the list shows as unread.
MarkRead(n) ==
  /\ Shows(n, TRUE) /\ n \notin marked
  /\ row' = [row EXCEPT ![n] = "read"]
  /\ marked' = marked \cup {n}
  /\ Outdated
  /\ UNCHANGED <<emitting, link, lists, count, markedAll, history>>

\* The button shows with a badge and is disabled while a call is pending.
MarkAllRead ==
  /\ count > 0 /\ markedAll = "none"
  /\ row' = [n \in Notes |-> IF row[n] = "unread" THEN "read" ELSE row[n]]
  /\ markedAll' = "clean"
  /\ Outdated
  /\ UNCHANGED <<emitting, link, lists, count, marked, history>>

-----------------------------------------------------------------------------
(* The client                                                              *)

Break ==
  /\ breaks < 2 * MaxBreaks
  /\ breaks' = breaks + 1
  /\ wire' = << >>
  /\ slipped' = slipped \cup ToSet(wire)
  /\ skewed' = (skewed \/ wire # << >>)
  /\ UNCHANGED <<server, lists, counts, marks, twice>>

\* invalidateQueries: the query is asked again, and the answer to the one in
\* flight is dropped, unless the cache has no counter yet.
Invalidated == IF counting.known THEN [Idle EXCEPT !.state = "asked"] ELSE counting

\* Mutant: the event only refreshes the counter.
HearUnlisted ==
  /\ wire # << >>
  /\ wire' = Tail(wire)
  /\ count' = count + 1
  /\ counting' = [Invalidated EXCEPT !.known = TRUE]
  /\ UNCHANGED <<server, breaks, lists, marks, history>>

\* Both handlers of 'notification:new': prepend, without a look at what the
\* list has; refresh the counter's query; count one more until it answers.
Hear ==
  /\ wire # << >>
  /\ wire' = Tail(wire)
  /\ list' = <<[id |-> Head(wire), unread |-> TRUE]>> \o list
  /\ count' = count + 1
  /\ counting' = [Invalidated EXCEPT !.known = TRUE]
  /\ UNCHANGED <<server, breaks, listing, asks, marks, history>>

\* The list is asked for on mounting, and again when it is mounted stale.
AskList ==
  /\ listing.state \in {"first", "idle"} /\ asks < MaxAsks
  /\ asks' = asks + 1
  /\ listing' = [state |-> "read", rows |-> SetToSeq({[id |-> n, unread |-> n \in Unread] : n \in Stored})]
  /\ twice' = twice \cup (Stored \cap (emitting \cup ToSet(wire)))
  /\ UNCHANGED <<server, link, list, counts, marks, slipped, skewed>>

\* Its answer replaces the list.
LoadList ==
  /\ listing.state = "read"
  /\ list' = listing.rows
  /\ listing' = [state |-> "idle", rows |-> << >>]
  /\ slipped' = slipped \cup {n \in Notes : Listed(n) /\ \A e \in ToSet(listing.rows) : e.id # n}
  /\ UNCHANGED <<server, link, asks, counts, marks, twice, skewed>>

ReadCount ==
  /\ counting.state = "asked"
  /\ counting' = [counting EXCEPT !.state = "read", !.n = Cardinality(Unread), !.outdated = FALSE]
  /\ UNCHANGED <<server, link, lists, count, marks, history>>

LoadCount ==
  /\ counting.state = "read"
  /\ count' = counting.n
  /\ counting' = Idle
  /\ skewed' = counting.outdated
  /\ UNCHANGED <<server, link, lists, marks, slipped, twice>>

ReadShown(n) == [i \in DOMAIN list |-> IF list[i].id = n THEN [list[i] EXCEPT !.unread = FALSE] ELSE list[i]]

\* onSuccess of mark-read: the entry, and the counter's query again.
MarkedRead(n) ==
  /\ n \in marked
  /\ marked' = marked \ {n}
  /\ list' = ReadShown(n)
  /\ counting' = Invalidated
  /\ UNCHANGED <<server, link, listing, asks, count, markedAll, history>>

\* onSuccess of mark-all: every cached entry and the counter, and no query.
MarkedAll ==
  /\ markedAll # "none"
  /\ markedAll' = "none"
  /\ list' = [i \in DOMAIN list |-> [list[i] EXCEPT !.unread = FALSE]]
  /\ count' = 0
  /\ slipped' = slipped \cup (IF markedAll = "late" THEN {n \in Notes : Listed(n)} ELSE {})
  /\ skewed' = (markedAll = "late")
  /\ UNCHANGED <<server, link, listing, asks, counting, marked, twice>>

Next ==
  \/ \E n \in Notes : Insert(n) \/ Emit(n) \/ MarkRead(n) \/ MarkedRead(n)
  \/ MarkAllRead \/ MarkedAll
  \/ Break \/ Hear \/ AskList \/ LoadList \/ ReadCount \/ LoadCount

Spec == Init /\ [][Next]_vars

-----------------------------------------------------------------------------
(* Properties                                                              *)

Quiet == /\ emitting = {} /\ wire = << >> /\ marked = {} /\ markedAll = "none"
         /\ listing.state = "idle" /\ counting.state = "idle"

\* An unread note is in the list, as unread and once, when nothing is on the
\* way, unless it was never pushed, an older answer replaced the list, a
\* mark-all that had not seen it took it along, or an answer held it before its
\* event came, which lists it again.
UnreadShown ==
  Quiet => \A n \in Unread \ slipped :
    LET shown == Cardinality({i \in DOMAIN list : list[i] = [id |-> n, unread |-> TRUE]})
    IN  shown = 1 \/ (shown > 1 /\ n \in twice)

\* The badge is the number of unread notes, though the event and the two
\* mutations set the counter in three different ways, unless it was last set
\* from numbers that were outdated by then.
BadgeMatches == Quiet /\ ~skewed => count = Cardinality(Unread)

=============================================================================
