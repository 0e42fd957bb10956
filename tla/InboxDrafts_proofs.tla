-------------------------- MODULE InboxDrafts_proofs --------------------------
(***************************************************************************)
(* Proofs about the Smart Inbox: for any number of drafts and of requests, *)
(* and for any places, dates and weights.                                  *)
(*                                                                         *)
(* A request writes what it computed from a row it read earlier.  The      *)
(* invariant says what that is still worth: as long as no other request    *)
(* wrote the row, the status, the verdict and the content are as read.     *)
(***************************************************************************)
EXTENDS InboxDrafts, TLAPS

\* An edit between its read and its write: unless it was overtaken, it carries
\* the status of the row and the verdict on the row with its patch.
EditInv(k) ==
  call[k].pc = "edit" =>
    /\ call[k].patch \in Patches
    /\ call[k].status \in Statuses
    /\ k \notin overtaken =>
         /\ call[k].status = draft[call[k].draft].status
         /\ call[k].ok = Valid(Merged(call[k].patch, draft[call[k].draft].content))

\* A confirmation between its read and its write: unless it was overtaken, the
\* row's verdict allows it.
MarkInv(k) ==
  call[k].pc = "mark" =>
    /\ call[k].status \in {"confirmed", "rejected"}
    /\ k \notin overtaken /\ call[k].status = "confirmed" => draft[call[k].draft].ok

\* A request in flight is about a row that exists.
CallInv(k) ==
  /\ call[k].pc # "idle" =>
       call[k].draft \in Drafts /\ draft[call[k].draft].status # "none"
  /\ EditInv(k)
  /\ MarkInv(k)

IInv == VerdictSound /\ \A k \in Calls : CallInv(k)

-----------------------------------------------------------------------------
(* The operators                                                           *)

LEMMA FieldsOf ==
  ASSUME NEW e \in Extractions
  PROVE  DOMAIN e = Fields
  BY DEF Extractions, Fields

\* An edit changes the field it names and keeps the row an extraction; it can be
\* stored if both can.
LEMMA EditedIsExtraction ==
  ASSUME NEW content \in Extractions, NEW patch \in Patches
  PROVE  /\ Edited(content, patch) \in Extractions
         /\ Storable(content) /\ Storable(patch) => Storable(Edited(content, patch))
<1>1. PICK e \in Extractions, f \in Fields : patch = Restrict(e, {f})
  BY DEF Patches
<1>2. DOMAIN patch = {f} /\ patch[f] = e[f]
  BY <1>1 DEF Restrict
<1>3. Edited(content, patch) = [content EXCEPT ![f] = e[f]]
  BY <1>2, FieldsOf DEF Edited
<1>4. [content EXCEPT ![f] = e[f]] \in Extractions
  BY DEF Extractions, Fields
<1>5. Storable(content) /\ Storable(patch) => Storable(Edited(content, patch))
  BY <1>2, FieldsOf DEF Edited, Storable, Fields
<1>6. QED
  BY <1>3, <1>4, <1>5

\* A verdict is true or false, whatever dates and weights it is about.
LEMMA ValidIsBoolean ==
  ASSUME NEW content
  PROVE  Valid(content) \in BOOLEAN
  BY DEF Valid

-----------------------------------------------------------------------------
(* One lemma for each statement that writes a row or reads one.            *)

LEMMA IngestStep ==
  ASSUME IInv, NEW d \in Drafts, NEW content \in Extractions, Ingest(d, content)
  PROVE  IInv'
<1> DEFINE row == [status |-> Verdict(Valid(content)), ok |-> Valid(content), content |-> content]
<1>1. row \in DraftRow /\ row.status \in {"validated", "needs_review"}
  BY ValidIsBoolean DEF Ingest, DraftRow, Verdict, Statuses
<1>2. draft' = [draft EXCEPT ![d] = row] /\ UNCHANGED <<call, overtaken, raced>>
  BY DEF Ingest
<1>3. draft[d].status = "none"
  BY DEF Ingest
<1>4. TypeOK'
  BY <1>1, <1>2 DEF IInv, VerdictSound, TypeOK
<1>5. row.ok = Valid(row.content) /\ row.status = Verdict(row.ok)
  OBVIOUS
<1> HIDE DEF row
<1>6. VerdictBacksStatus' /\ VerdictCurrent'
  BY <1>1, <1>2, <1>5 DEF IInv, VerdictSound, TypeOK, VerdictBacksStatus, VerdictCurrent, Verdict
<1>7. ASSUME NEW k \in Calls PROVE CallInv(k)'
  <2>1. CallInv(k)
    BY DEF IInv
  <2>2. call[k].pc # "idle" => call[k].draft # d
    BY <1>3, <2>1 DEF CallInv
  <2>3. call[k].pc # "idle" => draft'[call[k].draft] = draft[call[k].draft]
    BY <1>2, <2>1, <2>2 DEF CallInv, IInv, VerdictSound, TypeOK
  <2>4. QED
    BY <1>2, <2>1, <2>3 DEF CallInv, EditInv, MarkInv
<1>8. QED
  BY <1>4, <1>6, <1>7 DEF IInv, VerdictSound

\* A request that reads a row is up to date with it.
LEMMA ReadStep ==
  ASSUME IInv, NEW k \in Calls, NEW d \in Drafts,
         \/ \E patch \in Patches : EditRead(k, d, patch)
         \/ \E to \in {"confirmed", "rejected"} : MarkRead(k, d, to)
  PROVE  IInv'
<1>1. UNCHANGED <<draft, overtaken, raced>> /\ draft[d].status # "none"
  BY DEF EditRead, MarkRead
<1>2. PICK c \in CallState : /\ call' = [call EXCEPT ![k] = c]
                             /\ c.draft = d
                             /\ \/ /\ c.pc = "edit" /\ c.patch \in Patches
                                   /\ c.status = draft[d].status
                                   /\ c.ok = Valid(Merged(c.patch, draft[d].content))
                                \/ /\ c.pc = "mark" /\ c.status \in {"confirmed", "rejected"}
                                   /\ c.status = "confirmed" => draft[d].ok
  <2>1. ASSUME NEW patch \in Patches, EditRead(k, d, patch)
        PROVE  \E c \in CallState : /\ call' = [call EXCEPT ![k] = c]
                                    /\ c.draft = d
                                    /\ c.pc = "edit" /\ c.patch \in Patches
                                    /\ c.status = draft[d].status
                                    /\ c.ok = Valid(Merged(c.patch, draft[d].content))
    <3> DEFINE ok == Valid(Merged(patch, draft[d].content))
               c == [pc |-> "edit", draft |-> d, status |-> draft[d].status, ok |-> ok, patch |-> patch]
    <3>1. ok \in BOOLEAN
      BY ValidIsBoolean
    <3>2. draft[d].status \in Statuses
      BY DEF IInv, VerdictSound, TypeOK, DraftRow
    <3>3. call' = [call EXCEPT ![k] = c]
      BY <2>1 DEF EditRead
    <3>4. c.ok = Valid(Merged(c.patch, draft[d].content))
      OBVIOUS
    <3> HIDE DEF ok
    <3>5. c \in CallState
      BY <3>1, <3>2 DEF CallState
    <3>6. QED
      BY <3>3, <3>4, <3>5
  <2>2. ASSUME NEW to \in {"confirmed", "rejected"}, MarkRead(k, d, to)
        PROVE  \E c \in CallState : /\ call' = [call EXCEPT ![k] = c]
                                    /\ c.draft = d
                                    /\ c.pc = "mark" /\ c.status \in {"confirmed", "rejected"}
                                    /\ c.status = "confirmed" => draft[d].ok
    <3> DEFINE c == [IdleCall EXCEPT !.pc = "mark", !.draft = d, !.status = to]
    <3>1. call' = [call EXCEPT ![k] = c]
      BY <2>2 DEF MarkRead
    <3>2. c \in CallState /\ c.pc = "mark" /\ c.draft = d /\ c.status = to
      BY DEF IdleCall, CallState, Statuses
    <3>3. to = "confirmed" => draft[d].ok
      BY <2>2 DEF MarkRead, Confirmable
    <3>4. QED
      BY <3>1, <3>2, <3>3
  <2>3. QED
    BY <2>1, <2>2
<1>3. TypeOK'
  BY <1>1, <1>2 DEF IInv, VerdictSound, TypeOK
<1>4. VerdictBacksStatus' /\ VerdictCurrent'
  BY <1>1 DEF IInv, VerdictSound, VerdictBacksStatus, VerdictCurrent
<1>5. CallInv(k)'
  <2>1. call'[k] = c
    BY <1>2 DEF IInv, VerdictSound, TypeOK
  <2>2. c.status \in Statuses
    BY <1>2 DEF IInv, VerdictSound, TypeOK, DraftRow, Statuses
  <2>3. QED
    BY <1>1, <1>2, <2>1, <2>2 DEF CallInv, EditInv, MarkInv
<1>6. ASSUME NEW j \in Calls \ {k} PROVE CallInv(j)'
  <2>1. call'[j] = call[j] /\ CallInv(j)
    BY <1>2 DEF IInv, VerdictSound, TypeOK
  <2>2. QED
    BY <1>1, <2>1 DEF CallInv, EditInv, MarkInv
<1>7. QED
  BY <1>3, <1>4, <1>5, <1>6 DEF IInv, VerdictSound

\* A request that ends leaves the others as they were, and late if it wrote their row.
LEMMA FinishStep ==
  ASSUME TypeOK, NEW k \in Calls, NEW wrote \in BOOLEAN, Finish(k, wrote)
  PROVE  /\ call' \in [Calls -> CallState]
         /\ overtaken' \subseteq Calls
         /\ call'[k].pc = "idle"
         /\ \A j \in Calls \ {k} :
              /\ call'[j] = call[j]
              /\ j \in overtaken => j \in overtaken'
              /\ wrote /\ call[j].draft = call[k].draft => j \in overtaken'
<1>1. IdleCall \in CallState /\ IdleCall.pc = "idle"
  BY DEF IdleCall, CallState
<1>2. QED
  BY <1>1 DEF Finish, TypeOK

\* A request that writes one row and ends: the rows it did not write and the requests
\* about them stay as they are.
LEMMA WriteStep ==
  ASSUME IInv, NEW k \in Calls, call[k].pc # "idle", Finish(k, TRUE),
         NEW row \in DraftRow, row.status # "none",
         draft' = [draft EXCEPT ![call[k].draft] = row],
         row.status = "validated" => row.ok,
         row.status = "needs_review" => ~row.ok,
         call[k].draft \notin raced' => row.ok = Valid(row.content),
         raced' \subseteq Drafts, raced \ {call[k].draft} \subseteq raced'
  PROVE  IInv'
<1> DEFINE d == call[k].draft
<1>1. d \in Drafts /\ TypeOK
  BY DEF IInv, CallInv, VerdictSound
<1>2. draft'[d] = row /\ \A e \in Drafts \ {d} : draft'[e] = draft[e]
  BY <1>1 DEF TypeOK
<1>3. TypeOK'
  BY <1>1, FinishStep DEF TypeOK
<1>4. VerdictBacksStatus' /\ VerdictCurrent'
  BY <1>2 DEF IInv, VerdictSound, VerdictBacksStatus, VerdictCurrent
<1>5. ASSUME NEW j \in Calls PROVE CallInv(j)'
  <2>1. CASE j = k
    BY <1>1, <2>1, FinishStep DEF CallInv, EditInv, MarkInv
  <2>2. CASE j # k
    <3>1. call'[j] = call[j] /\ (j \in overtaken => j \in overtaken')
      BY <1>1, <2>2, FinishStep
    <3>2. call[j].draft = d => j \in overtaken'
      BY <1>1, <2>2, FinishStep
    <3>3. CallInv(j)
      BY DEF IInv
    <3>4. QED
      BY <1>2, <3>1, <3>2, <3>3 DEF CallInv, EditInv, MarkInv
  <2>3. QED
    BY <2>1, <2>2
<1>6. QED
  BY <1>3, <1>4, <1>5 DEF IInv, VerdictSound

\* The UPDATE of an edit stores the verdict it computed: an edit that was not
\* overtaken computed it from the content it is merged into.
LEMMA EditWriteStep ==
  ASSUME IInv, NEW k \in Calls, EditWrite(k)
  PROVE  IInv'
<1> DEFINE c == call[k]
           d == c.draft
           status == EditedStatus(c.status, c.ok)
           content == Edited(draft[d].content, c.patch)
           row == [status |-> status, ok |-> c.ok, content |-> content]
<1>1. /\ c.pc = "edit" /\ Storable(c.patch) /\ Finish(k, TRUE)
      /\ draft' = [draft EXCEPT ![d] = row]
      /\ raced' = IF k \in overtaken THEN raced \cup {d} ELSE raced \ {d}
  BY DEF EditWrite
<1>2. c \in CallState /\ d \in Drafts /\ draft[d] \in DraftRow /\ EditInv(k)
  BY <1>1 DEF IInv, VerdictSound, TypeOK, CallInv
<1>3. content \in Extractions /\ Storable(content)
  BY <1>1, <1>2, EditedIsExtraction DEF EditInv, DraftRow
<1>4. status \in Statuses \ {"none", "rejected"} /\ c.ok \in BOOLEAN
  BY <1>2 DEF EditedStatus, Verdict, Statuses, CallState
<1>5. (status = "validated" => c.ok) /\ (status = "needs_review" => ~c.ok)
  BY DEF EditedStatus, Verdict
<1>6. d \notin raced' => c.ok = Valid(content)
  BY <1>1, <1>2 DEF EditInv, Merged
<1>7. raced' \subseteq Drafts /\ raced \ {d} \subseteq raced'
  BY <1>1, <1>2 DEF IInv, VerdictSound, TypeOK
<1> HIDE DEF status, content
<1>8. row \in DraftRow
  BY <1>3, <1>4 DEF DraftRow
<1>9. row.status = status /\ row.ok = c.ok /\ row.content = content
  OBVIOUS
<1> HIDE DEF row
<1>10. QED
  BY <1>1, <1>4, <1>5, <1>6, <1>7, <1>8, <1>9, WriteStep

\* The UPDATE of a confirmation or a rejection leaves the verdict and the content alone.
LEMMA MarkWriteStep ==
  ASSUME IInv, NEW k \in Calls, MarkWrite(k)
  PROVE  IInv'
<1> DEFINE d == call[k].draft
           row == [draft[d] EXCEPT !.status = call[k].status]
<1>1. call[k].pc = "mark" /\ Finish(k, TRUE) /\ raced' = raced
  BY DEF MarkWrite
<1>2. draft' = [draft EXCEPT ![d] = row]
  BY DEF MarkWrite
<1>3. d \in Drafts /\ call[k].status \in {"confirmed", "rejected"} /\ draft[d] \in DraftRow
  BY <1>1 DEF IInv, VerdictSound, TypeOK, CallInv, MarkInv
<1>4. row \in DraftRow /\ row.status = call[k].status /\ row.ok = draft[d].ok
      /\ row.content = draft[d].content
  BY <1>3 DEF DraftRow, Statuses
<1>5. draft[d].status # "none"
  BY <1>1 DEF IInv, CallInv
<1>6. d \notin raced' => row.ok = Valid(row.content)
  BY <1>1, <1>3, <1>4, <1>5 DEF IInv, VerdictSound, VerdictCurrent
<1>7. raced' \subseteq Drafts /\ raced \ {d} \subseteq raced'
  BY <1>1 DEF IInv, VerdictSound, TypeOK
<1> HIDE DEF row
<1>8. QED
  BY <1>1, <1>2, <1>3, <1>4, <1>6, <1>7, WriteStep

\* A request that dies writes nothing.
LEMMA FailStep ==
  ASSUME IInv, NEW k \in Calls, CallFail(k)
  PROVE  IInv'
<1>1. TypeOK /\ Finish(k, FALSE) /\ UNCHANGED <<draft, raced>>
  BY DEF IInv, VerdictSound, CallFail
<1>2. TypeOK'
  BY <1>1, FinishStep DEF TypeOK
<1>3. VerdictBacksStatus' /\ VerdictCurrent'
  BY <1>1 DEF IInv, VerdictSound, VerdictBacksStatus, VerdictCurrent
<1>4. ASSUME NEW j \in Calls PROVE CallInv(j)'
  <2>1. CASE j = k
    BY <1>1, <2>1, FinishStep DEF CallInv, EditInv, MarkInv
  <2>2. CASE j # k
    <3>1. call'[j] = call[j] /\ (j \in overtaken => j \in overtaken') /\ CallInv(j)
      BY <1>1, <2>2, FinishStep DEF IInv
    <3>2. QED
      BY <1>1, <3>1 DEF CallInv, EditInv, MarkInv
  <2>3. QED
    BY <2>1, <2>2
<1>5. QED
  BY <1>2, <1>3, <1>4 DEF IInv, VerdictSound

\* The inductive invariant.
THEOREM Invariance == Spec => []IInv
<1>1. Init => IInv
  <2> SUFFICES ASSUME Init PROVE IInv
    OBVIOUS
  <2>1. [status |-> "none", ok |-> FALSE, content |-> Blank] \in DraftRow
    <3>1. Blank \in Extractions
      BY DEF Blank, Extractions
    <3>2. Storable(Blank)
      BY InboxAssumption DEF Blank, Storable
    <3>3. QED
      BY <3>1, <3>2 DEF DraftRow, Statuses
  <2>2. IdleCall \in CallState /\ IdleCall.pc = "idle"
    BY DEF IdleCall, CallState
  <2>3. TypeOK
    BY <2>1, <2>2 DEF Init, TypeOK
  <2>4. \A d \in Drafts : draft[d].status = "none"
    BY DEF Init
  <2>5. \A k \in Calls : call[k].pc = "idle"
    BY <2>2 DEF Init
  <2>6. QED
    BY <2>3, <2>4, <2>5
    DEF IInv, VerdictSound, VerdictBacksStatus, VerdictCurrent, CallInv, EditInv, MarkInv
<1>2. IInv /\ [Next]_vars => IInv'
  <2> SUFFICES ASSUME IInv, [Next]_vars PROVE IInv'
    OBVIOUS
  <2>1. CASE UNCHANGED vars
    BY <2>1 DEF vars, IInv, VerdictSound, TypeOK, VerdictBacksStatus, VerdictCurrent, CallInv,
                EditInv, MarkInv
  <2>2. QED
    BY <2>1, IngestStep, ReadStep, EditWriteStep, MarkWriteStep, FailStep DEF Next
<1>3. QED
  BY <1>1, <1>2, PTL DEF Spec

\* validateExtraction and setStatus: the status agrees with the verdict stored beside
\* it, and the verdict with the content, unless the last edit was overtaken.
THEOREM DraftsAgree == Spec => []VerdictSound
<1>1. IInv => VerdictSound
  BY DEF IInv
<1>2. QED
  BY <1>1, Invariance, PTL

-----------------------------------------------------------------------------
\* Which statement wrote a row: every change of a draft that is there is the UPDATE of
\* an edit or of a confirmation, of the draft the request is about.
LEMMA Writers ==
  ASSUME IInv, [Next]_vars, NEW d \in Drafts, draft[d].status # "none", draft'[d] # draft[d]
  PROVE  \E k \in Calls : call[k].draft = d /\ call'[k] # call[k] /\ (EditWrite(k) \/ MarkWrite(k))
<1> USE DEF IInv, VerdictSound, TypeOK
<1>1. ASSUME NEW e \in Drafts, NEW content \in Extractions, Ingest(e, content) PROVE FALSE
  BY <1>1 DEF Ingest
<1>2. ASSUME UNCHANGED draft PROVE FALSE
  BY <1>2
<1>3. ASSUME NEW k \in Calls, EditWrite(k) \/ MarkWrite(k)
      PROVE  call[k].draft = d /\ call'[k] # call[k]
  <2>1. call[k].pc # "idle" /\ Finish(k, TRUE)
    BY <1>3 DEF EditWrite, MarkWrite
  <2>2. call'[k] # call[k]
    BY <2>1, FinishStep
  <2>3. \A e \in Drafts \ {call[k].draft} : draft'[e] = draft[e]
    BY <1>3 DEF EditWrite, MarkWrite
  <2>4. QED
    BY <2>2, <2>3
<1>4. QED
  BY <1>1, <1>2, <1>3 DEF Next, EditRead, MarkRead, CallFail, vars

\* The comment in updateDraft: a confirmed draft is not silently downgraded.
THEOREM NotDowngraded == Spec => ConfirmedNotDowngraded
<1> DEFINE Kept == \A d \in Drafts : draft[d].status = "confirmed" /\ ~WrittenLate(d)
                     => draft'[d].status \in {"confirmed", "rejected"}
<1>1. IInv /\ [Next]_vars => [Kept]_draft
  <2> SUFFICES ASSUME IInv, [Next]_vars, NEW d \in Drafts, draft[d].status = "confirmed",
                      ~WrittenLate(d), draft'[d] # draft[d]
               PROVE  draft'[d].status \in {"confirmed", "rejected"}
    OBVIOUS
  <2>1. PICK k \in Calls : call[k].draft = d /\ call'[k] # call[k] /\ (EditWrite(k) \/ MarkWrite(k))
    BY Writers
  <2>2. k \notin overtaken /\ CallInv(k) /\ draft \in [Drafts -> DraftRow]
    BY <2>1 DEF WrittenLate, IInv, VerdictSound, TypeOK
  <2>3. CASE EditWrite(k)
    BY <2>1, <2>2, <2>3 DEF EditWrite, EditedStatus, CallInv, EditInv
  <2>4. CASE MarkWrite(k)
    BY <2>1, <2>2, <2>4 DEF MarkWrite, CallInv, MarkInv, DraftRow
  <2>5. QED
    BY <2>1, <2>3, <2>4
<1>2. QED
  BY <1>1, Invariance, PTL DEF Spec, ConfirmedNotDowngraded

\* setStatus looks at the stored verdict, one statement before it confirms: that is
\* enough for a draft whose last edit, and whose confirmation, were not overtaken.
THEOREM ConfirmedValid == Spec => ConfirmedWhenValid
<1> DEFINE Kept == \A d \in Drafts \ raced :
                     draft[d].status # "confirmed" /\ draft'[d].status = "confirmed" /\ ~WrittenLate(d)
                       => Valid(draft'[d].content)
<1>1. IInv /\ [Next]_vars => [Kept]_draft
  <2> SUFFICES ASSUME IInv, [Next]_vars, NEW d \in Drafts \ raced, draft[d].status # "confirmed",
                      draft'[d].status = "confirmed", ~WrittenLate(d)
               PROVE  Valid(draft'[d].content)
    OBVIOUS
  <2>1. draft[d].status # "none"
    <3>1. ASSUME NEW e \in Drafts, NEW content \in Extractions, Ingest(e, content) PROVE FALSE
      <4>1. draft'[d].status \in {"validated", "needs_review"} \/ draft'[d] = draft[d]
        BY <3>1 DEF Ingest, Verdict, IInv, VerdictSound, TypeOK
      <4>2. QED
        BY <4>1
    <3>2. ASSUME NEW k \in Calls, EditWrite(k) \/ MarkWrite(k) PROVE draft[d].status # "none"
      <4>1. call[k].draft \in Drafts /\ draft[call[k].draft].status # "none"
        BY <3>2 DEF EditWrite, MarkWrite, IInv, CallInv
      <4>2. d # call[k].draft => draft'[d] = draft[d]
        BY <3>2, <4>1 DEF EditWrite, MarkWrite, IInv, VerdictSound, TypeOK
      <4>3. QED
        BY <4>1, <4>2
    <3>3. QED
      BY <3>1, <3>2 DEF Next, EditRead, MarkRead, CallFail, vars
  <2>2. PICK k \in Calls : call[k].draft = d /\ call'[k] # call[k] /\ (EditWrite(k) \/ MarkWrite(k))
    BY <2>1, Writers
  <2>3. k \notin overtaken /\ CallInv(k) /\ draft \in [Drafts -> DraftRow]
    BY <2>2 DEF WrittenLate, IInv, VerdictSound, TypeOK
  <2>4. ASSUME EditWrite(k) PROVE FALSE
    <3>1. draft'[d].status = EditedStatus(call[k].status, call[k].ok)
      BY <2>2, <2>3, <2>4 DEF EditWrite
    <3>2. call[k].status = draft[d].status
      BY <2>2, <2>3, <2>4 DEF EditWrite, CallInv, EditInv
    <3>3. QED
      BY <3>1, <3>2 DEF EditedStatus, Verdict
  <2>5. /\ draft[d].ok /\ draft'[d].content = draft[d].content
    BY <2>2, <2>3, <2>4 DEF MarkWrite, CallInv, MarkInv, DraftRow
  <2>6. QED
    BY <2>1, <2>5 DEF IInv, VerdictSound, VerdictCurrent
<1>2. QED
  BY <1>1, Invariance, PTL DEF Spec, ConfirmedWhenValid

=============================================================================
