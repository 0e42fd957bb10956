----------------------------- MODULE OutlookSync -----------------------------
(***************************************************************************)
(* One company's Outlook connection: domains/outlook and workers/email.    *)
(* The user connects and disconnects a mailbox; a sweep every fifteen      *)
(* minutes copies its sent mail, from a watermark on; campaigns and the    *)
(* calendar sync take access tokens.  All of them refresh an expired token *)
(* and write it back.  Every recipient is a known client here.             *)
(***************************************************************************)
EXTENDS Naturals, FiniteSets

CONSTANTS
  Mails,    \* messages sent from the mailboxes
  Boxes,    \* mailboxes the user may connect
  Users,    \* requests that take an access token
  MaxTime,  \* bound of the clock
  MaxFails, \* bound of the calls refused and processes restarted
  None

ASSUME OutlookAssumption ==
  /\ MaxTime \in Nat \ {0}
  /\ MaxFails \in Nat
  /\ None \notin Boxes \cup Mails

VARIABLES
  clock,   \* the time
  mail,    \* mail[m]: when and from which mailbox it was sent; at = 0 before that
  conn,    \* the integration_credentials row of the company
  wanted,  \* history: the mailbox the user last connected, None after disconnecting
  late,    \* history: whether a refresh was in flight when the user last did either
  sweep,   \* progress of the sweep's syncEmails
  user,    \* user[u]: credentials read by a request that found them expired
  stored,  \* the mails in email_messages
  fails    \* how many calls were refused so far

vars == <<clock, mail, conn, wanted, late, sweep, user, stored, fails>>

Times == 0 .. MaxTime
Never == 0  \* stands for NULL, and for the future

MailRow == [at   : Times,
            box  : Boxes \cup {None},
            safe : BOOLEAN]  \* history: sent outside a sweep's listing and stamp, and no
                           \* sweep of another mailbox has moved the watermark since

Connection == [status   : {"none", "connected", "disconnected"},
               box      : Boxes \cup {None},  \* whose tokens credentials_json holds
               expired  : BOOLEAN,            \* whether the access token has expired
               lastSync : Times]

SweepState == [pc : {"idle", "refresh", "fetch", "store"},
               box : Boxes \cup {None}, since : Times, todo : SUBSET Mails]

IdleSweep == [pc |-> "idle", box |-> None, since |-> Never, todo |-> {}]

\* Every row and every call in flight is in its range.
TypeOK ==
  /\ clock \in 1 .. MaxTime
  /\ mail \in [Mails -> MailRow]
  /\ conn \in Connection
  /\ wanted \in Boxes \cup {None}
  /\ late \in BOOLEAN
  /\ sweep \in SweepState
  /\ user \in [Users -> Boxes \cup {None}]
  /\ stored \subseteq Mails
  /\ fails \in 0 .. MaxFails

Init ==
  /\ clock = 1
  /\ mail = [m \in Mails |-> [at |-> Never, box |-> None, safe |-> TRUE]]
  /\ conn = [status |-> "none", box |-> None, expired |-> FALSE, lastSync |-> Never]
  /\ wanted = None
  /\ late = FALSE
  /\ sweep = IdleSweep
  /\ user = [u \in Users |-> None]
  /\ stored = {}
  /\ fails = 0

Sent(m) == mail[m].at # Never

-----------------------------------------------------------------------------
(* The world: time passes, mail is sent, tokens expire.                    *)

Tick ==
  /\ clock < MaxTime
  /\ clock' = clock + 1
  /\ UNCHANGED <<mail, conn, wanted, late, sweep, user, stored, fails>>

SendMail(m, b) ==
  /\ ~Sent(m)
  /\ mail' = [mail EXCEPT ![m] = [at |-> clock, box |-> b, safe |-> sweep.pc # "store"]]
  /\ UNCHANGED <<clock, conn, wanted, late, sweep, user, stored, fails>>

TokenExpires ==
  /\ conn.status = "connected"
  /\ ~conn.expired
  /\ conn' = [conn EXCEPT !.expired = TRUE]
  /\ UNCHANGED <<clock, mail, wanted, late, sweep, user, stored, fails>>

-----------------------------------------------------------------------------
(* The user.                                                               *)

\* upsert: fresh tokens make the row connected; the watermark is left alone.
Upsert(b) == conn' = [conn EXCEPT !.status = "connected", !.box = b, !.expired = FALSE]

\* A refresh is in flight, for the sweep or for another request.
Refreshing == sweep.pc = "refresh" \/ \E u \in Users : user[u] # None

\* handleCallback.
Connect(b) ==
  /\ Upsert(b)
  /\ wanted' = b
  /\ late' = Refreshing
  /\ UNCHANGED <<clock, mail, sweep, user, stored, fails>>

\* Mutant: the tokens are kept.
DisconnectKeeping ==
  /\ conn.status # "none"
  /\ conn' = [conn EXCEPT !.status = "disconnected"]
  /\ wanted' = None
  /\ late' = Refreshing
  /\ UNCHANGED <<clock, mail, sweep, user, stored, fails>>

\* disconnect: the row keeps its watermark and loses its tokens.
Disconnect ==
  /\ conn.status # "none"
  /\ conn' = [conn EXCEPT !.status = "disconnected", !.box = None, !.expired = FALSE]
  /\ wanted' = None
  /\ late' = Refreshing
  /\ UNCHANGED <<clock, mail, sweep, user, stored, fails>>

-----------------------------------------------------------------------------
(* Token users: getFreshAccessToken and syncCalendar.  One that finds a     *)
(* token that is still good changes nothing.                               *)

UserReads(u) ==
  /\ user[u] = None
  /\ conn.status = "connected" /\ conn.expired
  /\ user' = [user EXCEPT ![u] = conn.box]
  /\ UNCHANGED <<clock, mail, conn, wanted, late, sweep, stored, fails>>

\* ensureFreshToken: Microsoft's answer is written over whatever the row holds.
UserRefreshes(u) ==
  /\ user[u] # None
  /\ Upsert(user[u])
  /\ user' = [user EXCEPT ![u] = None]
  /\ UNCHANGED <<clock, mail, wanted, late, sweep, stored, fails>>

\* Within the bound, Microsoft or the database refuses a call.
Refused == fails < MaxFails /\ fails' = fails + 1

UserFails(u) ==
  /\ Refused
  /\ user[u] # None
  /\ user' = [user EXCEPT ![u] = None]
  /\ UNCHANGED <<clock, mail, conn, wanted, late, sweep, stored>>

-----------------------------------------------------------------------------
(* The sweep: syncEmails, one run at a time.                               *)

SweepStart ==
  /\ sweep.pc = "idle"
  /\ conn.status = "connected"
  /\ sweep' = [IdleSweep EXCEPT !.pc = IF conn.expired THEN "refresh" ELSE "fetch",
                                !.box = conn.box, !.since = conn.lastSync]
  /\ UNCHANGED <<clock, mail, conn, wanted, late, user, stored, fails>>

SweepRefresh ==
  /\ sweep.pc = "refresh"
  /\ Upsert(sweep.box)
  /\ sweep' = [sweep EXCEPT !.pc = "fetch"]
  /\ UNCHANGED <<clock, mail, wanted, late, user, stored, fails>>

\* Mutant: mail sent at the watermark itself is left out.
ListedAfter(box, since) == {m \in Mails : Sent(m) /\ mail[m].box = box /\ mail[m].at > since}

\* Graph's answer: the mail sent from the watermark on.
Listed(box, since) == {m \in Mails : Sent(m) /\ mail[m].box = box /\ mail[m].at >= since}

SweepFetch ==
  /\ sweep.pc = "fetch"
  /\ sweep' = [sweep EXCEPT !.pc = "store", !.todo = Listed(sweep.box, sweep.since)]
  /\ UNCHANGED <<clock, mail, conn, wanted, late, user, stored, fails>>

\* One row of upsertMessages.
SweepStore(m) ==
  /\ sweep.pc = "store"
  /\ m \in sweep.todo
  /\ stored' = stored \cup {m}
  /\ sweep' = [sweep EXCEPT !.todo = @ \ {m}]
  /\ UNCHANGED <<clock, mail, conn, wanted, late, user, fails>>

\* The row has one watermark, whichever mailbox was swept.
Stamped == [m \in Mails |-> [mail[m] EXCEPT !.safe = @ /\ mail[m].box = sweep.box]]

\* Mutant: the watermark does not wait for the rows.
StampEarly ==
  /\ sweep.pc = "store"
  /\ conn' = [conn EXCEPT !.lastSync = clock]
  /\ mail' = Stamped
  /\ sweep' = IdleSweep
  /\ UNCHANGED <<clock, wanted, late, user, stored, fails>>

\* updateLastSyncAt: the watermark becomes the time of the run's end.
SweepStamp ==
  /\ sweep.pc = "store"
  /\ sweep.todo = {}
  /\ conn' = [conn EXCEPT !.lastSync = clock]
  /\ mail' = Stamped
  /\ sweep' = IdleSweep
  /\ UNCHANGED <<clock, wanted, late, user, stored, fails>>

\* A call to Microsoft or to the database is refused, or the process restarts.
SweepFail ==
  /\ Refused
  /\ sweep.pc # "idle"
  /\ sweep' = IdleSweep
  /\ UNCHANGED <<clock, mail, conn, wanted, late, user, stored>>

-----------------------------------------------------------------------------
SweepStep ==
  SweepStart \/ SweepRefresh \/ SweepFetch \/ (\E m \in Mails : SweepStore(m)) \/ SweepStamp

Next ==
  \/ Tick \/ TokenExpires \/ Disconnect
  \/ \E m \in Mails, b \in Boxes : SendMail(m, b)
  \/ \E b \in Boxes : Connect(b)
  \/ \E u \in Users : UserReads(u) \/ UserRefreshes(u) \/ UserFails(u)
  \/ SweepStep \/ SweepFail

Spec == Init /\ [][Next]_vars

\* The repeatable job is due every fifteen minutes, and its runs go on to the end.
FairSpec == Spec /\ WF_vars(SweepStep)

-----------------------------------------------------------------------------
(* Properties                                                              *)

Skipped(m) == Sent(m) /\ mail[m].at < conn.lastSync /\ m \notin stored

\* The comment of syncEmails: later syncs fetch the mail sent since the previous
\* run.  The watermark never passes a mail that is not stored, unless the mail was
\* sent between a sweep's listing and its stamp or another mailbox was swept since:
\* retries, restarts and reconnections lose none.
NoSafeMailSkipped == \A m \in Mails : mail[m].safe => ~Skipped(m)

\* The comment on getFreshAccessToken: null once disconnected.  The stored
\* tokens are those of the mailbox the user last asked for, and none after a
\* disconnection, unless a refresh was in flight at that moment: it writes its
\* answer over whatever it finds.
TokensFollowUser == ~late => conn.box = wanted

\* A mail sent outside a sweep is stored in the end, although calls are refused
\* and sweeps restarted now and then, unless its mailbox is found disconnected or
\* another one was swept.
SafeMailArrives ==
  \A m \in Mails :
    (Sent(m) /\ mail[m].safe) ~> (m \in stored \/ conn.box # mail[m].box \/ ~mail[m].safe)

\* The connection, the clock and every mail are in range, and the watermark
\* passes no safe mail that is not stored.
WatermarkSound == TypeOK /\ NoSafeMailSkipped

=============================================================================
