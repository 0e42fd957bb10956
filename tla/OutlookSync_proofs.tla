-------------------------- MODULE OutlookSync_proofs --------------------------
(***************************************************************************)
(* Proofs about the Outlook connection: for any number of mails, mailboxes *)
(* and requests, any clock and any number of refused calls.                *)
(*                                                                         *)
(* That the watermark passes no safe mail rests on the sweep: while it     *)
(* runs the watermark is the one it read, and what it has listed and not   *)
(* stored is on its list.  That the tokens are the user's rests on every   *)
(* refresh in flight: none holds another mailbox's, unless it is late.     *)
(***************************************************************************)
EXTENDS OutlookSync, TLAPS

\* Whose tokens they are: a connected row and a run of the sweep have a mailbox,
\* and it is the user's wherever no refresh was overtaken.
TokenInv ==
  /\ conn.status = "connected" => conn.box # None
  /\ sweep.pc # "idle" => sweep.box # None
  /\ ~late =>
       /\ conn.box = wanted
       /\ sweep.pc = "refresh" => sweep.box = wanted
       /\ \A u \in Users : user[u] # None => user[u] = wanted

\* A safe mail that is not stored is not behind the watermark, and it is on the
\* list of a sweep of its mailbox.
Waiting(m) ==
  Sent(m) /\ mail[m].safe /\ m \notin stored =>
    /\ mail[m].at >= conn.lastSync
    /\ sweep.pc = "store" /\ sweep.box = mail[m].box => m \in sweep.todo

\* The watermark is not ahead of the clock, and a sweep has the one on record.
MailInv ==
  /\ conn.lastSync <= clock
  /\ sweep.pc # "idle" => sweep.since = conn.lastSync
  /\ \A m \in Mails : Waiting(m)

IInv == TypeOK /\ TokenInv /\ MailInv

-----------------------------------------------------------------------------
\* What a disconnection leaves of a connection is one.
LEMMA RowEdit ==
  ASSUME NEW c \in Connection
  PROVE  [c EXCEPT !.status = "disconnected", !.box = None, !.expired = FALSE] \in Connection
<1>1. \A d \in Connection : [d EXCEPT !.status = "disconnected"] \in Connection
  BY DEF Connection
<1>2. \A d \in Connection : [d EXCEPT !.box = None] \in Connection
  BY DEF Connection
<1>3. \A d \in Connection : [d EXCEPT !.expired = FALSE] \in Connection
  BY DEF Connection
<1>4. QED
  BY ONLY ZenonT(40), <1>1, <1>2, <1>3, c \in Connection

\* Every operation, Microsoft and the clock keep each row and call in its range.
LEMMA TypeStep == TypeOK /\ TokenInv /\ [Next]_vars => TypeOK'
<1> SUFFICES ASSUME TypeOK, TokenInv, [Next]_vars PROVE TypeOK'
  OBVIOUS
<1> USE OutlookAssumption DEF TypeOK, Times, Never
<1>1. CASE Tick
  BY <1>1 DEF Tick
<1>2. CASE TokenExpires
  BY <1>2 DEF TokenExpires, Connection
<1>3. CASE Disconnect
  <2>1. \A c \in Connection :
          [c EXCEPT !.status = "disconnected", !.box = None, !.expired = FALSE] \in Connection
    BY Zenon, RowEdit
  <2>2. QED
    BY <1>3, <2>1 DEF Disconnect, Refreshing
<1>4. ASSUME NEW m \in Mails, NEW b \in Boxes, SendMail(m, b) PROVE TypeOK'
  <2>1. \A x \in BOOLEAN : [at |-> clock, box |-> b, safe |-> x] \in MailRow
    BY DEF MailRow
  <2>2. mail' \in [Mails -> MailRow] /\ UNCHANGED <<clock, conn, wanted, late, sweep, user, stored, fails>>
    BY <1>4, <2>1 DEF SendMail
  <2>3. QED
    BY <2>2
<1>5. ASSUME NEW b \in Boxes, Connect(b) PROVE TypeOK'
  BY <1>5 DEF Connect, Upsert, Connection, Refreshing
<1>6. ASSUME NEW u \in Users, UserReads(u) PROVE TypeOK'
  BY <1>6 DEF UserReads, Connection
<1>7. ASSUME NEW u \in Users, UserRefreshes(u) PROVE TypeOK'
  BY <1>7 DEF UserRefreshes, Upsert, Connection
<1>8. ASSUME NEW u \in Users, UserFails(u) PROVE TypeOK'
  BY <1>8 DEF UserFails, Refused
<1>9. CASE SweepStart
  BY <1>9 DEF SweepStart, SweepState, IdleSweep, Connection
<1>10. CASE SweepRefresh
  BY <1>10 DEF SweepRefresh, Upsert, SweepState, Connection
<1>11. CASE SweepFetch
  BY <1>11 DEF SweepFetch, SweepState, Listed
<1>12. ASSUME NEW m \in Mails, SweepStore(m) PROVE TypeOK'
  BY <1>12 DEF SweepStore, SweepState
<1>13. CASE SweepStamp
  <2>1. \A r \in MailRow, x \in BOOLEAN : [r EXCEPT !.safe = x] \in MailRow
    BY DEF MailRow
  <2>2. mail' \in [Mails -> MailRow]
    BY <1>13, <2>1 DEF SweepStamp, Stamped, MailRow
  <2>3. QED
    BY <1>13, <2>2 DEF SweepStamp, SweepState, IdleSweep, Connection
<1>14. CASE SweepFail
  BY <1>14 DEF SweepFail, Refused, SweepState, IdleSweep
<1>15. CASE UNCHANGED vars
  BY <1>15 DEF vars
<1>16. QED
  BY <1>1, <1>2, <1>3, <1>4, <1>5, <1>6, <1>7, <1>8, <1>9, <1>10, <1>11, <1>12, <1>13, <1>14, <1>15
  DEF Next, SweepStep

\* Only a refresh in flight writes tokens that are not asked for, and the user's
\* own steps note that it is in flight.
LEMMA TokenStep == TypeOK /\ TokenInv /\ [Next]_vars => TokenInv'
<1> SUFFICES ASSUME TypeOK, TokenInv, [Next]_vars PROVE TokenInv'
  OBVIOUS
<1> USE OutlookAssumption DEF TokenInv, TypeOK
<1>1. CASE UNCHANGED <<conn, wanted, late, sweep, user>>
  BY <1>1
<1>2. CASE TokenExpires
  BY <1>2 DEF TokenExpires, Connection
<1>3. CASE Disconnect
  BY <1>3 DEF Disconnect, Connection, Refreshing
<1>4. ASSUME NEW b \in Boxes, Connect(b) PROVE TokenInv'
  BY <1>4 DEF Connect, Upsert, Connection, Refreshing
<1>5. ASSUME NEW u \in Users, UserReads(u) PROVE TokenInv'
  BY <1>5 DEF UserReads
<1>6. ASSUME NEW u \in Users, UserRefreshes(u) PROVE TokenInv'
  BY <1>6 DEF UserRefreshes, Upsert, Connection
<1>7. ASSUME NEW u \in Users, UserFails(u) PROVE TokenInv'
  BY <1>7 DEF UserFails
<1>8. CASE SweepStart
  BY <1>8 DEF SweepStart, IdleSweep, SweepState
<1>9. CASE SweepRefresh
  BY <1>9 DEF SweepRefresh, Upsert, Connection, SweepState
<1>10. CASE SweepFetch
  BY <1>10 DEF SweepFetch, SweepState
<1>11. ASSUME NEW m \in Mails, SweepStore(m) PROVE TokenInv'
  BY <1>11 DEF SweepStore, SweepState
<1>12. CASE SweepStamp
  BY <1>12 DEF SweepStamp, IdleSweep, Connection
<1>13. CASE SweepFail
  BY <1>13 DEF SweepFail, IdleSweep
<1>14. QED
  BY <1>1, <1>2, <1>3, <1>4, <1>5, <1>6, <1>7, <1>8, <1>9, <1>10, <1>11, <1>12, <1>13
  DEF Next, SweepStep, Tick, SendMail, vars

\* Only the stamp moves the watermark, and what waits for it was on the list.
LEMMA MailStep == TypeOK /\ MailInv /\ [Next]_vars => MailInv'
<1> SUFFICES ASSUME TypeOK, MailInv, [Next]_vars PROVE MailInv'
  OBVIOUS
<1> USE OutlookAssumption DEF MailInv, Waiting, Sent, TypeOK, Times, Never, MailRow
<1>1. CASE UNCHANGED <<clock, mail, conn, sweep, stored>>
  BY <1>1
<1>2. CASE Tick
  BY <1>2 DEF Tick, Connection
<1>3. CASE UNCHANGED <<clock, mail, sweep, stored, conn.lastSync>>
  BY <1>3
<1>4. ASSUME NEW m \in Mails, NEW b \in Boxes, SendMail(m, b) PROVE MailInv'
  BY <1>4 DEF SendMail, Connection
<1>5. CASE SweepStart
  BY <1>5 DEF SweepStart, IdleSweep, SweepState
<1>6. CASE SweepRefresh
  BY <1>6 DEF SweepRefresh, Upsert, Connection, SweepState
<1>7. CASE SweepFetch
  BY <1>7 DEF SweepFetch, Listed, SweepState
<1>8. ASSUME NEW m \in Mails, SweepStore(m) PROVE MailInv'
  BY <1>8 DEF SweepStore, SweepState
<1>9. CASE SweepStamp
  <2>1. conn'.lastSync = clock /\ sweep'.pc = "idle" /\ clock' = clock /\ stored' = stored
    BY <1>9 DEF SweepStamp, IdleSweep, Connection
  <2>2. ASSUME NEW m \in Mails PROVE Waiting(m)'
    <3>1. /\ mail'[m].at = mail[m].at /\ mail'[m].box = mail[m].box
          /\ mail'[m].safe => mail[m].safe /\ mail[m].box = sweep.box
      BY <1>9 DEF SweepStamp, Stamped
    <3>2. m \notin sweep.todo /\ sweep.pc = "store"
      BY <1>9 DEF SweepStamp
    <3>3. QED
      BY <2>1, <3>1, <3>2
  <2>3. QED
    BY <2>1, <2>2
<1>10. CASE SweepFail
  BY <1>10 DEF SweepFail, IdleSweep
<1>11. CASE Disconnect \/ TokenExpires
  <2>1. conn'.lastSync = conn.lastSync
    BY <1>11 DEF Disconnect, TokenExpires, Connection
  <2>2. QED
    BY <1>3, <1>11, <2>1 DEF Disconnect, TokenExpires
<1>12. ASSUME NEW u \in Users, UserReads(u) \/ UserRefreshes(u) \/ UserFails(u) PROVE MailInv'
  <2>1. conn'.lastSync = conn.lastSync
    BY <1>12 DEF UserReads, UserRefreshes, UserFails, Upsert, Connection
  <2>2. QED
    BY <1>3, <1>12, <2>1 DEF UserReads, UserRefreshes, UserFails
<1>13. ASSUME NEW b \in Boxes, Connect(b) PROVE MailInv'
  <2>1. conn'.lastSync = conn.lastSync
    BY <1>13 DEF Connect, Upsert, Connection
  <2>2. QED
    BY <1>3, <1>13, <2>1 DEF Connect
<1>14. QED
  BY <1>1, <1>2, <1>4, <1>5, <1>6, <1>7, <1>8, <1>9, <1>10, <1>11, <1>12, <1>13
  DEF Next, SweepStep, vars

\* The inductive invariant, from which the properties follow.
THEOREM Invariance == Spec => []IInv
<1>1. Init => IInv
  <2> SUFFICES ASSUME Init PROVE IInv
    OBVIOUS
  <2> USE OutlookAssumption DEF Init
  <2>1. TypeOK
    <3> USE DEF Times, Never
    <3>1. conn \in Connection
      BY DEF Connection
    <3>2. sweep \in SweepState
      BY DEF SweepState, IdleSweep
    <3>3. mail \in [Mails -> MailRow]
      BY DEF MailRow
    <3>4. user \in [Users -> Boxes \cup {None}] /\ stored \subseteq Mails
      OBVIOUS
    <3>5. clock \in 1 .. MaxTime /\ fails \in 0 .. MaxFails
      OBVIOUS
    <3>6. late \in BOOLEAN /\ wanted \in Boxes \cup {None}
      OBVIOUS
    <3>7. QED
      BY ONLY <3>1, <3>2, <3>3, <3>4, <3>5, <3>6 DEF TypeOK
  <2>2. TokenInv
    BY DEF TokenInv, IdleSweep
  <2>3. MailInv
    BY DEF MailInv, Waiting, Sent, Never, IdleSweep
  <2>4. QED
    BY <2>1, <2>2, <2>3 DEF IInv
<1>2. IInv /\ [Next]_vars => IInv'
  BY TypeStep, TokenStep, MailStep DEF IInv
<1>3. QED
  BY <1>1, <1>2, PTL DEF Spec

\* syncEmails: whatever is refused, restarted or connected in between, the watermark
\* passes no mail that is not stored, but for mail sent between a sweep's listing
\* and its stamp and mail of a mailbox that was not the one swept.
THEOREM WatermarkHolds == Spec => []WatermarkSound
<1>1. IInv => WatermarkSound
  BY DEF IInv, WatermarkSound, NoSafeMailSkipped, Skipped, TypeOK, MailInv, Waiting, MailRow,
         Times, Connection
<1>2. QED
  BY <1>1, Invariance, PTL

\* getFreshAccessToken and disconnect: the stored tokens are those of the mailbox the
\* user last connected, and none once disconnected, unless a refresh was in flight then.
THEOREM TokensAreUsers == Spec => []TokensFollowUser
<1>1. IInv => TokensFollowUser
  BY DEF IInv, TokenInv, TokensFollowUser
<1>2. QED
  BY <1>1, Invariance, PTL

=============================================================================
