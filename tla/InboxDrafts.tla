----------------------------- MODULE InboxDrafts -----------------------------
(***************************************************************************)
(* The Smart Inbox: domains/inbox.  A mail is parsed, validated by fixed   *)
(* rules and stored as a shipment draft; people then edit, confirm or      *)
(* reject the draft.  Editing and confirming first read the row, then      *)
(* update it in a later statement, so two requests about one draft         *)
(* interleave between the two.                                             *)
(*                                                                         *)
(* A draft's content is a place, two dates and a weight, each of which may *)
(* be missing; what parser or model extracts from the text is free.        *)
(***************************************************************************)
EXTENDS Integers, Functions

CONSTANTS
  Drafts,      \* ids of shipment_drafts rows, one per mail
  Calls,       \* edit, confirm and reject requests that may be in flight together
  Places,      \* names a mail or a form may state
  Known,       \* those found in the locations table
  Days,        \* dates, in calendar order
  Weights,     \* weights in kg that a mail or a form may state
  MaxWeight,   \* MAX_TRUCK_WEIGHT_KG
  Malformed,   \* a date string that is no date
  None         \* SQL NULL

ASSUME InboxAssumption ==
  /\ Known \subseteq Places
  /\ Days \subseteq Nat
  /\ Weights \subseteq Int
  /\ MaxWeight \in Nat
  /\ Malformed \notin Int
  /\ None \notin Int \cup Places \cup Drafts \cup {Malformed}

VARIABLES
  draft,      \* draft[d]: the shipment_drafts row
  call,       \* call[k]: progress of one request
  overtaken,  \* history: the requests whose row another one wrote since they read it
  raced       \* history: the drafts whose last edit was an overtaken one

vars == <<draft, call, overtaken, raced>>

\* What an extraction may hold, and what a form may put in one field.
Extractions == [place    : Places \cup {None},
                pickup   : Days \cup {None, Malformed},
                delivery : Days \cup {None, Malformed},
                weight   : Weights \cup {None}]

Fields == {"place", "pickup", "delivery", "weight"}

\* An edit names fields, each with its new value; one field at a time is the
\* edit that meets another one of a different field.
Patches == {Restrict(e, {f}) : e \in Extractions, f \in Fields}

Statuses == {"none", "needs_review", "validated", "confirmed", "rejected"}

\* pickup_date and delivery_date are DATE columns: they take no other string.
Storable(content) ==
  \A f \in {"pickup", "delivery"} \cap DOMAIN content : content[f] # Malformed

DraftRow == [status  : Statuses,
             ok      : BOOLEAN,       \* validation.ok
             content : {e \in Extractions : Storable(e)}]

CallState == [pc      : {"idle", "edit", "mark"},
              draft   : Drafts \cup {None},
              status  : Statuses \cup {None},    \* edit: as read; mark: to write
              ok      : BOOLEAN,                  \* edit: the new verdict
              patch   : Patches \cup {<<>>}]

Blank == [place |-> None, pickup |-> None, delivery |-> None, weight |-> None]
IdleCall == [pc |-> "idle", draft |-> None, status |-> None, ok |-> FALSE, patch |-> <<>>]

\* Every field of every row and request is in its range: no row stores a
\* malformed date.
TypeOK ==
  /\ draft \in [Drafts -> DraftRow]
  /\ call \in [Calls -> CallState]
  /\ overtaken \subseteq Calls
  /\ raced \subseteq Drafts

Init ==
  /\ draft = [d \in Drafts |-> [status |-> "none", ok |-> FALSE, content |-> Blank]]
  /\ call = [k \in Calls |-> IdleCall]
  /\ overtaken = {}
  /\ raced = {}

-----------------------------------------------------------------------------
(* inbox.validator.ts: missing fields are warnings, contradictions errors   *)

\* resolveLocation: the name or code is in the reference table.
Resolves(place) == place \in Known

DatesOk(content) ==
  /\ content.pickup # Malformed /\ content.delivery # Malformed
  /\ (content.pickup # None /\ content.delivery # None) => content.pickup <= content.delivery

WeightOk(content) == content.weight # None => content.weight \in 1 .. MaxWeight

Valid(content) ==
  /\ content.place # None => Resolves(content.place)
  /\ DatesOk(content)
  /\ WeightOk(content)

Verdict(ok) == IF ok THEN "validated" ELSE "needs_review"

-----------------------------------------------------------------------------
\* parseAndCreate: the extraction is validated and inserted with its verdict.
\* A malformed date passes the parser and is refused by the INSERT: no row.
Ingest(d, content) ==
  /\ draft[d].status = "none"
  /\ Storable(content)
  /\ draft' = [draft EXCEPT ![d] =
       [status |-> Verdict(Valid(content)), ok |-> Valid(content), content |-> content]]
  /\ UNCHANGED <<call, overtaken, raced>>

\* The fields an edit names, as it has them, and the others as they are.
Edited(content, patch) == [f \in Fields |-> IF f \in DOMAIN patch THEN patch[f] ELSE content[f]]

\* Mutant: the verdict is on the stored row, without the edit.
MergedStale(patch, content) == content

\* The row as it was read, with the edit merged in.
Merged(patch, content) == Edited(content, patch)

\* updateDraft: findDraft, and the verdict on the merged content.
EditRead(k, d, patch) ==
  /\ call[k].pc = "idle"
  /\ draft[d].status # "none"
  /\ call' = [call EXCEPT ![k] =
       [pc |-> "edit", draft |-> d, status |-> draft[d].status,
        ok |-> Valid(Merged(patch, draft[d].content)), patch |-> patch]]
  /\ UNCHANGED <<draft, overtaken, raced>>

\* Mutant: a confirmed draft follows its verdict.
TrackAlways(status, ok) == Verdict(ok)

\* Request k ends: if it wrote, the others that read the same row are overtaken.
Finish(k, wrote) ==
  /\ call' = [call EXCEPT ![k] = IdleCall]
  /\ overtaken' = (overtaken \ {k}) \cup
       {j \in Calls \ {k} : wrote /\ call[j].draft = call[k].draft}

\* A confirmed draft stays confirmed; otherwise the status tracks validity.
EditedStatus(status, ok) == IF status = "confirmed" THEN "confirmed" ELSE Verdict(ok)

\* updateDraft: one UPDATE of the edited columns, the status and the verdict.
EditWrite(k) ==
  LET c == call[k] IN
  /\ c.pc = "edit"
  /\ Storable(c.patch)
  /\ draft' = [draft EXCEPT ![c.draft] =
       [status |-> EditedStatus(c.status, c.ok), ok |-> c.ok, content |-> Edited(@.content, c.patch)]]
  /\ raced' = IF k \in overtaken THEN raced \cup {c.draft} ELSE raced \ {c.draft}
  /\ Finish(k, TRUE)

\* Mutant: the verdict is not tested.
ConfirmableAlways(d) == TRUE

Confirmable(d) == draft[d].ok

\* setStatus: findDraft, and for a confirmation the stored verdict.
MarkRead(k, d, to) ==
  /\ call[k].pc = "idle"
  /\ draft[d].status # "none"
  /\ to = "confirmed" => Confirmable(d)
  /\ call' = [call EXCEPT ![k] = [IdleCall EXCEPT !.pc = "mark", !.draft = d, !.status = to]]
  /\ UNCHANGED <<draft, overtaken, raced>>

\* setStatus: UPDATE of the status alone, whatever it is by now.
MarkWrite(k) ==
  /\ call[k].pc = "mark"
  /\ draft' = [draft EXCEPT ![call[k].draft].status = call[k].status]
  /\ Finish(k, TRUE)
  /\ UNCHANGED raced

\* The request dies, or its UPDATE is refused for a malformed date.
CallFail(k) ==
  /\ call[k].pc # "idle"
  /\ Finish(k, FALSE)
  /\ UNCHANGED <<draft, raced>>

Next ==
  \/ \E d \in Drafts, content \in Extractions : Ingest(d, content)
  \/ \E k \in Calls, d \in Drafts, patch \in Patches : EditRead(k, d, patch)
  \/ \E k \in Calls, d \in Drafts, to \in {"confirmed", "rejected"} : MarkRead(k, d, to)
  \/ \E k \in Calls : EditWrite(k) \/ MarkWrite(k) \/ CallFail(k)

Spec == Init /\ [][Next]_vars

-----------------------------------------------------------------------------
(* Properties                                                              *)

\* Whatever edits, confirmations and rejections race, the status never
\* contradicts the verdict stored beside it: "validated" stands on a verdict
\* without errors, "needs_review" on one with errors.
VerdictBacksStatus ==
  \A d \in Drafts :
    /\ draft[d].status = "validated" => draft[d].ok
    /\ draft[d].status = "needs_review" => ~draft[d].ok

\* The comment on updateDraft: human edits re-run validation.  The stored
\* verdict is the verdict on the stored content, unless the last edit was
\* computed from a row that another request wrote meanwhile; the next edit that
\* is not overtaken repairs it.
VerdictCurrent ==
  \A d \in Drafts \ raced : draft[d].status # "none" => draft[d].ok = Valid(draft[d].content)

\* Draft d is written by a request that was overtaken.
WrittenLate(d) == \E k \in overtaken : call[k].draft = d /\ call'[k] # call[k]

\* The comment in updateDraft: a confirmed draft is not silently downgraded,
\* except by an edit that read it before it was confirmed.
ConfirmedNotDowngraded ==
  [][\A d \in Drafts : draft[d].status = "confirmed" /\ ~WrittenLate(d)
       => draft'[d].status \in {"confirmed", "rejected"}]_draft

\* A draft is confirmed only while its content is valid, although setStatus
\* looks at the stored verdict alone, and one statement early: what can go
\* wrong goes wrong only when it, or the last edit, was overtaken.
ConfirmedWhenValid ==
  [][\A d \in Drafts \ raced :
       draft[d].status # "confirmed" /\ draft'[d].status = "confirmed" /\ ~WrittenLate(d)
         => Valid(draft'[d].content)]_draft

\* What is stored about a draft agrees with itself: rows and requests are in
\* their ranges, the status with the verdict, and the verdict with the content.
VerdictSound == TypeOK /\ VerdictBacksStatus /\ VerdictCurrent

=============================================================================
