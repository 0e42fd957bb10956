----------------------------- MODULE Campaigns -----------------------------
(***************************************************************************)
(* Sending an e-mail campaign (createAndSend) through the mailbox's        *)
(* sendMail, recipient after recipient, with the outcome of each noted in  *)
(* its row, and the tracking pixel that notes an opening (recordOpen).     *)
(* The database and the network may fail at any call.                      *)
(***************************************************************************)
EXTENDS Naturals

CONSTANTS
  Calls,      \* presses of Send; a press after a failure is a campaign of its own
  MaxList     \* bound: recipients of a campaign

VARIABLES
  call,       \* call[c]: its step, the length of the list, the recipient it is at
  row,        \* row[c][i]: {} or the recipient's row
  mails,      \* history: mails[c][i]: mails that recipient got
  blind       \* history: blind[c]: an answer or a note was lost after a mail had gone

vars == <<call, row, mails, blind>>

Places == 1 .. MaxList
Recipient == [sent : BOOLEAN, error : BOOLEAN, opened : BOOLEAN]
Steps == {"idle", "rows", "token", "offline", "send", "sent", "refused", "caught", "answered", "failed"}

\* Calls are at a step of createAndSend, and every recipient has at most one row.
TypeOK ==
  /\ \A c \in Calls : /\ call[c].step \in Steps /\ call[c].size \in 0 .. MaxList /\ call[c].at \in 1 .. MaxList + 1
                      /\ \A i \in Places : /\ row[c][i] \in {{}} \cup {{r} : r \in Recipient}
                                           /\ mails[c][i] \in Nat
  /\ blind \in [Calls -> BOOLEAN]

Init ==
  /\ call = [c \in Calls |-> [step |-> "idle", size |-> 0, at |-> 1]]
  /\ row = [c \in Calls |-> [i \in Places |-> {}]]
  /\ mails = [c \in Calls |-> [i \in Places |-> 0]]
  /\ blind = [c \in Calls |-> FALSE]

At(c, step) == call[c].step = step
Go(c, step) == call' = [call EXCEPT ![c].step = step]

\* The next recipient, or "last" after the last one.
Onward(c, step, last) ==
  call' = [call EXCEPT ![c] = IF @.at < @.size THEN [@ EXCEPT !.at = @ + 1, !.step = step]
                                               ELSE [@ EXCEPT !.at = 1, !.step = last]]

Note(c, sent, error) ==
  row' = [row EXCEPT ![c][call[c].at] = {[r EXCEPT !.sent = @ \/ sent, !.error = error] : r \in @}]

-----------------------------------------------------------------------------
\* The campaign's row is inserted.  The form sends one call at a time.
Create(c) ==
  /\ At(c, "idle") /\ \A d \in Calls : call[d].step \in {"idle", "answered", "failed"}
  /\ \E n \in Places : call' = [call EXCEPT ![c] = [step |-> "rows", size |-> n, at |-> 1]]
  /\ UNCHANGED <<row, mails, blind>>

\* addRecipients: one insert for each.
AddRecipient(c) ==
  /\ At(c, "rows")
  /\ row' = [row EXCEPT ![c][call[c].at] = {[sent |-> FALSE, error |-> FALSE, opened |-> FALSE]}]
  /\ Onward(c, "rows", "token") /\ UNCHANGED <<mails, blind>>

\* getFreshAccessToken: a connected mailbox or none.
Token(c) == At(c, "token") /\ (Go(c, "send") \/ Go(c, "offline")) /\ UNCHANGED <<row, mails, blind>>

\* Without a mailbox every recipient is noted as not sent.
Offline(c) ==
  /\ At(c, "offline") /\ Note(c, FALSE, TRUE)
  /\ Onward(c, "offline", "answered") /\ UNCHANGED <<mails, blind>>

\* sendMail is accepted, is refused, or throws, which it may do after the mail has gone.
Send(c) ==
  /\ At(c, "send")
  /\ \/ mails' = [mails EXCEPT ![c][call[c].at] = @ + 1] /\ Go(c, "sent") /\ UNCHANGED blind
     \/ Go(c, "refused") /\ UNCHANGED <<mails, blind>>
     \/ Go(c, "caught") /\ UNCHANGED <<mails, blind>>
     \/ mails' = [mails EXCEPT ![c][call[c].at] = @ + 1] /\ Go(c, "caught") /\ blind' = [blind EXCEPT ![c] = TRUE]
  /\ UNCHANGED row

\* markSent stands inside the try: when it fails, the recipient is noted as failed.
MarkSent(c) ==
  /\ At(c, "sent")
  /\ \/ Note(c, TRUE, FALSE) /\ Onward(c, "send", "answered") /\ UNCHANGED blind
     \/ Go(c, "caught") /\ blind' = [blind EXCEPT ![c] = TRUE] /\ UNCHANGED row
  /\ UNCHANGED mails

\* Mutant: a failed recipient is tried again.
MarkErrorRetry(c) ==
  /\ call[c].step \in {"refused", "caught"}
  /\ \/ Note(c, FALSE, TRUE) /\ Go(c, "send")
     \/ Go(c, "failed") /\ UNCHANGED row
  /\ UNCHANGED <<mails, blind>>

\* markSendError.  Where it fails inside the try it is called again by the catch, and
\* where it fails there the whole call answers 500, the recipients after it unsent.
MarkError(c) ==
  /\ call[c].step \in {"refused", "caught"}
  /\ \/ Note(c, FALSE, TRUE) /\ Onward(c, "send", "answered")
     \/ Go(c, IF At(c, "refused") THEN "caught" ELSE "failed") /\ UNCHANGED row
  /\ UNCHANGED <<mails, blind>>

\* Any other statement fails: 500.
Fail(c) == call[c].step \in {"rows", "token", "offline"} /\ Go(c, "failed") /\ UNCHANGED <<row, mails, blind>>

\* A recipient's mail program loads the pixel.
RecordOpen(c, i) ==
  /\ mails[c][i] > 0
  /\ row' = [row EXCEPT ![c][i] = {[r EXCEPT !.opened = TRUE] : r \in @}]
  /\ UNCHANGED <<call, mails, blind>>

Next ==
  \E c \in Calls :
    \/ Create(c) \/ AddRecipient(c) \/ Token(c) \/ Offline(c) \/ Send(c) \/ MarkSent(c) \/ MarkError(c) \/ Fail(c)
    \/ \E i \in Places : RecordOpen(c, i)

Spec == Init /\ [][Next]_vars

-----------------------------------------------------------------------------
(* Properties                                                              *)

\* When a campaign is answered, every recipient is noted as sent or as failed, never
\* both, and the note tells whether the mail went, unless an answer or a note was lost
\* after it had; a recipient noted as sent got the mail in any case.
NotesMatchMail ==
  \A c \in Calls : \A i \in Places : \A r \in row[c][i] :
    /\ r.sent => mails[c][i] > 0 /\ ~r.error
    /\ At(c, "answered") => r.sent \/ r.error
    /\ ~blind[c] /\ r.error => mails[c][i] = 0

\* One campaign mails nobody twice, whatever fails on the way.
MailedOnce == \A c \in Calls, i \in Places : mails[c][i] <= 1

=============================================================================
