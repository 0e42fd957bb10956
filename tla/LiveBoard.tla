------------------------------ MODULE LiveBoard ------------------------------
(***************************************************************************)
(* The live boards of the dispatcher's cockpit (apps/workspaces/src/lib/   *)
(* hooks).  A board is one query-cache entry with three writers that know  *)
(* nothing of each other: the query's own answers, the socket events of    *)
(* the company room, and the answers to the dispatcher's own mutations.    *)
(* A row lives through versions 1, 2, ...; version 0 is no row.            *)
(***************************************************************************)
EXTENDS Naturals, Sequences, SequencesExt

CONSTANTS
  Rows,      \* rows of the table behind the board
  Kinds,     \* the boards to check, a subset of DOMAIN Boards
  MaxBreaks, \* bound: disconnections of the socket
  MaxFails   \* bound: queries that fail

\* What the hooks of each board do: the versions a row goes through, those
\* that leave the board, those the server does not announce, whether events
\* wait for the first answer, whether an answer to a mutation only replaces a
\* row already shown, and whether the query polls.
Exceptions == [last |-> 2, dropped |-> {2}, silent |-> {}, waits |-> FALSE, replaces |-> FALSE, polls |-> TRUE]
Pods == [last |-> 2, dropped |-> {}, silent |-> {}, waits |-> FALSE, replaces |-> FALSE, polls |-> TRUE]
Invoices == [last |-> 3, dropped |-> {}, silent |-> {}, waits |-> FALSE, replaces |-> FALSE, polls |-> FALSE]
Drafts == [last |-> 3, dropped |-> {3}, silent |-> {2}, waits |-> FALSE, replaces |-> FALSE, polls |-> FALSE]
Suggestions == [last |-> 2, dropped |-> {2}, silent |-> {}, waits |-> FALSE, replaces |-> FALSE, polls |-> FALSE]
Assets == [last |-> 2, dropped |-> {}, silent |-> {}, waits |-> TRUE, replaces |-> TRUE, polls |-> FALSE]
Wagons == [last |-> 2, dropped |-> {}, silent |-> {}, waits |-> FALSE, replaces |-> TRUE, polls |-> FALSE]
Messages == [last |-> 1, dropped |-> {}, silent |-> {}, waits |-> TRUE, replaces |-> FALSE, polls |-> FALSE]

Boards == [exceptions |-> Exceptions, pods |-> Pods, invoices |-> Invoices, drafts |-> Drafts,
           suggestions |-> Suggestions, assets |-> Assets, wagons |-> Wagons, messages |-> Messages]

VARIABLES
  kind,      \* the board at hand
  row,       \* row[r]: the version the database holds
  emitting,  \* committed changes whose emit has not run yet
  wire,      \* events between the server and this client, in order
  breaks,    \* odd while the socket is down
  fetch,     \* the query in flight: its state and the versions it has read
  fails,     \* queries that have failed
  replies,   \* answers to this dispatcher's own mutations, in flight
  cached,    \* the cache entry exists
  board,     \* board[r]: the version shown, 0 if none
  loaded,    \* history: a query has been answered
  heard,     \* history: the newest version of a row that reached the board
  lost,      \* history: the newest version of a row whose event never will
  overtaken  \* history: rows whose newest content was overwritten by older

history == <<loaded, heard, lost, overtaken>>
server == <<row, emitting>>
link == <<wire, breaks>>
query == <<fetch, fails>>
vars == <<kind, server, link, query, replies, cached, board, history>>

B == Boards[kind]
Versions == 0 .. 3
Change == Rows \X Versions
Nothing == [r \in Rows |-> 0]

\* Every board and every message in flight is in its range.
TypeOK ==
  /\ kind \in Kinds
  /\ {row, board, heard, lost} \subseteq [Rows -> 0 .. B.last]
  /\ emitting \cup replies \cup ToSet(wire) \subseteq Change
  /\ fetch \in [state : {"idle", "asked", "read"}, versions : [Rows -> 0 .. B.last]]
  /\ breaks \in 0 .. 2 * MaxBreaks /\ fails \in 0 .. MaxFails
  /\ {cached, loaded} \subseteq BOOLEAN
  /\ overtaken \subseteq Rows

Init ==
  /\ kind \in Kinds
  /\ row = Nothing /\ board = Nothing /\ heard = Nothing /\ lost = Nothing
  /\ emitting = {} /\ replies = {} /\ wire = << >>
  /\ breaks = 0 /\ fails = 0
  /\ fetch = [state |-> "idle", versions |-> Nothing]
  /\ cached = FALSE /\ loaded = FALSE /\ overtaken = {}

Larger(m, n) == IF m > n THEN m ELSE n
Online == breaks % 2 = 0

\* What a version looks like on the board.
Shown(v) == IF v \in B.dropped THEN 0 ELSE v

-----------------------------------------------------------------------------
(* The server                                                              *)

\* A request commits the next version of a row, a colleague's or our own.
Commit(r, own) ==
  LET v == row[r] + 1 IN
  /\ row[r] < B.last
  /\ row' = [row EXCEPT ![r] = v]
  /\ emitting' = IF v \in B.silent THEN emitting ELSE emitting \cup {<<r, v>>}
  /\ lost' = IF v \in B.silent THEN [lost EXCEPT ![r] = v] ELSE lost
  /\ replies' = IF own THEN replies \cup {<<r, v>>} ELSE replies
  /\ UNCHANGED <<kind, link, query, cached, board, loaded, heard, overtaken>>

\* Its emit to the company room, after the statements that follow the commit;
\* a client that is not connected never gets it.
Emit(c) ==
  /\ c \in emitting
  /\ emitting' = emitting \ {c}
  /\ IF Online
       THEN wire' = Append(wire, c) /\ UNCHANGED lost
       ELSE lost' = [lost EXCEPT ![c[1]] = Larger(@, c[2])] /\ UNCHANGED wire
  /\ UNCHANGED <<kind, row, breaks, query, replies, cached, board, loaded, heard, overtaken>>

-----------------------------------------------------------------------------
(* The client                                                              *)

\* The socket drops with what was on the way, and comes back by itself; not so
\* where AuthProvider has replaced it, which leaves the board's handlers on the
\* closed one (AuthSession): that is a socket that never comes back.
Disconnect ==
  /\ Online /\ breaks < 2 * MaxBreaks
  /\ breaks' = breaks + 1
  /\ wire' = << >>
  /\ lost' = [r \in Rows |->
       FoldLeft(LAMBDA v, c : IF c[1] = r THEN Larger(v, c[2]) ELSE v, lost[r], wire)]
  /\ UNCHANGED <<kind, server, query, replies, cached, board, loaded, heard, overtaken>>

Reconnect ==
  /\ ~Online
  /\ breaks' = breaks + 1
  /\ UNCHANGED <<kind, server, wire, query, replies, cached, board, history>>

\* setQueryData: the row as it is in the message takes the place of the cached one.
Apply(c) ==
  LET r == c[1]  v == c[2] IN
  /\ board' = [board EXCEPT ![r] = Shown(v)]
  /\ cached' = TRUE
  /\ heard' = [heard EXCEPT ![r] = Larger(@, v)]
  /\ overtaken' = IF v < heard[r] THEN overtaken \cup {r} ELSE overtaken \ {r}

\* Mutant: events of versions that leave the board are not handled.
HearUpserts ==
  /\ wire # << >>
  /\ wire' = Tail(wire)
  /\ IF Head(wire)[2] \in B.dropped
       THEN UNCHANGED <<cached, board, heard, overtaken, lost>>
       ELSE Apply(Head(wire)) /\ UNCHANGED lost
  /\ UNCHANGED <<kind, server, breaks, query, replies, loaded>>

\* useSocketEvent: the handler of the board takes the next event.
Hear ==
  LET c == Head(wire) IN
  /\ wire # << >>
  /\ wire' = Tail(wire)
  /\ IF B.waits /\ ~cached
       THEN /\ lost' = [lost EXCEPT ![c[1]] = Larger(@, c[2])]
            /\ UNCHANGED <<cached, board, heard, overtaken>>
       ELSE Apply(c) /\ UNCHANGED lost
  /\ UNCHANGED <<kind, server, breaks, query, replies, loaded>>

\* onSuccess of the dispatcher's own mutation.
Reply(c) ==
  /\ c \in replies
  /\ replies' = replies \ {c}
  /\ IF B.replaces /\ board[c[1]] = 0
       THEN UNCHANGED <<cached, board, heard, overtaken>>
       ELSE Apply(c)
  /\ UNCHANGED <<kind, server, link, query, loaded, lost>>

\* The answer to a mutation is lost: its change is known only by its event.
ReplyLost(c) ==
  /\ c \in replies
  /\ replies' = replies \ {c}
  /\ UNCHANGED <<kind, server, link, query, cached, board, history>>

\* Mutant: a board that has been loaded is not asked for again.
AskOnce ==
  /\ fetch.state = "idle" /\ ~loaded
  /\ fetch' = [fetch EXCEPT !.state = "asked"]
  /\ UNCHANGED <<kind, server, link, fails, replies, cached, board, history>>

\* The query is asked: on mounting, by its interval, or as the answer of a scan.
Ask ==
  /\ fetch.state = "idle"
  /\ fetch' = [fetch EXCEPT !.state = "asked"]
  /\ UNCHANGED <<kind, server, link, fails, replies, cached, board, history>>

\* The server reads the table.
Read ==
  /\ fetch.state = "asked"
  /\ fetch' = [state |-> "read", versions |-> row]
  /\ UNCHANGED <<kind, server, link, fails, replies, cached, board, history>>

\* The answer replaces the whole cache entry, whatever came in since the read.
Load ==
  /\ fetch.state = "read"
  /\ fetch' = [state |-> "idle", versions |-> Nothing]
  /\ board' = [r \in Rows |-> Shown(fetch.versions[r])]
  /\ cached' = TRUE /\ loaded' = TRUE
  /\ heard' = [r \in Rows |-> Larger(heard[r], fetch.versions[r])]
  /\ overtaken' = {r \in Rows : fetch.versions[r] < heard[r]}
  /\ UNCHANGED <<kind, server, link, fails, replies, lost>>

\* The query fails, its retry too.
Fail ==
  /\ fetch.state # "idle" /\ fails < MaxFails
  /\ fetch' = [state |-> "idle", versions |-> Nothing]
  /\ fails' = fails + 1
  /\ UNCHANGED <<kind, server, link, replies, cached, board, history>>

Next ==
  \/ \E r \in Rows, own \in BOOLEAN : Commit(r, own)
  \/ \E c \in emitting : Emit(c)
  \/ \E c \in replies : Reply(c) \/ ReplyLost(c)
  \/ Disconnect \/ Reconnect \/ Hear
  \/ Ask \/ Read \/ Load \/ Fail

Spec == Init /\ [][Next]_vars

\* Requests run to their end and an interval fires; nothing is assumed of the
\* socket but that it delivers while it is there.
Progress ==
  \/ \E c \in emitting : Emit(c)
  \/ \E c \in replies : Reply(c)
  \/ Hear

Fairness == WF_vars(Progress) /\ WF_vars(B.polls /\ Ask) /\ WF_vars(Read) /\ WF_vars(Load)

-----------------------------------------------------------------------------
(* Properties                                                              *)

Quiet == emitting = {} /\ replies = {} /\ wire = << >> /\ fetch.state = "idle"

\* Three writers, one cache entry: once nothing is on the way, a board that was
\* loaded shows each row as the database has it, unless its last change was
\* never announced or met a closed socket, or an older answer came after it.
BoardCurrent ==
  Quiet /\ loaded =>
    \A r \in Rows : lost[r] <= heard[r] /\ r \notin overtaken => board[r] = Shown(row[r])

\* The comment "safety net; the socket is the primary signal": a board that
\* polls ends up as the database is, whatever was lost or overtaken, and if the
\* socket is gone for good.
BoardCatchesUp ==
  <>(B.polls => [](\A r \in Rows : board[r] = Shown(row[r])))

=============================================================================
