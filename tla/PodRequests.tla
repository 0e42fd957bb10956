----------------------------- MODULE PodRequests -----------------------------
(***************************************************************************)
(* Proof-of-delivery requests of one company: domains/pod.                 *)
(*                                                                         *)
(* A dispatcher mints a single-use link (podService.create), the driver    *)
(* posts a photo to it (podService.attachPod).  Every handler is a chain   *)
(* of separately committed statements, so a request in flight is a process *)
(* with a program counter and every database statement is one action.      *)
(* What the credit check and the invoice draft do is left to the modules   *)
(* Invoicing and QuoteToCash: here the check's verdict is free and the     *)
(* draft is the hand-off of a finished upload.                             *)
(***************************************************************************)
EXTENDS FiniteSets

CONSTANTS
  Pods,         \* ids of pod_requests rows
  Uploads,      \* POST /pod/:token calls; also names the file and document row each makes
  Dispatchers,  \* POST /pod/requests calls that may be in flight together
  Clients,      \* ids of clients rows
  Shipments,    \* ids of shipments rows
  Rates,        \* amounts an agreed or default rate may take
  CanFail,      \* whether a request may die between two statements
  None          \* SQL NULL

ASSUME PodAssumption ==
  /\ CanFail \in BOOLEAN
  /\ None \notin Pods \cup Uploads \cup Clients \cup Shipments \cup Rates

VARIABLES
  pod,       \* pod[p]: the pod_requests row
  docs,      \* the uploads whose documents row exists
  arrived,   \* the shipments whose status was set to 'delivered'
  upload,    \* upload[u]: progress of one attachPod call
  order      \* order[k]: progress of one create call

vars == <<pod, docs, arrived, upload, order>>

Opt(S) == S \cup {None}

PodRow == [status   : {"none", "pending", "delivered"},
           expired  : BOOLEAN,          \* NOW() is past expires_at
           client   : Opt(Clients),
           shipment : Opt(Shipments),
           rate     : Opt(Rates),       \* agreed_rate_eur
           doc      : Opt(Uploads),     \* pod_document_id
           url      : Opt(Uploads)]     \* pod_url

UploadCall == [pc  : {"new", "checked", "documented", "flag", "bill",
                      "done", "refused", "failed"},
               pod : Opt(Pods)]

OrderCall == [pc       : {"idle", "recheck", "mint"},
              client   : Opt(Clients),
              shipment : Opt(Shipments),
              rate     : Opt(Rates),
              fallback : Opt(Rates)]    \* the client's default rate, as first read

IdleOrder == [pc |-> "idle", client |-> None, shipment |-> None,
              rate |-> None, fallback |-> None]

\* Every field of every row and call is in its range.
TypeOK ==
  /\ pod \in [Pods -> PodRow]
  /\ docs \subseteq Uploads
  /\ arrived \subseteq Shipments
  /\ upload \in [Uploads -> UploadCall]
  /\ order \in [Dispatchers -> OrderCall]

Init ==
  /\ pod = [p \in Pods |-> [status |-> "none", expired |-> FALSE, client |-> None,
                            shipment |-> None, rate |-> None, doc |-> None, url |-> None]]
  /\ docs = {}
  /\ arrived = {}
  /\ upload = [u \in Uploads |-> [pc |-> "new", pod |-> None]]
  /\ order = [k \in Dispatchers |-> IdleOrder]

-----------------------------------------------------------------------------
(* podService.create: check the credit, mint the link                      *)

\* The body is parsed and, when it names a client, the first credit check
\* passed; d is the client's default rate as that check read it.
OpenOrder(k, c, s, r, d) ==
  /\ order[k].pc = "idle"
  /\ c = None => d = None
  /\ order' = [order EXCEPT ![k] =
       [pc |-> IF c # None /\ r = None /\ d # None THEN "recheck" ELSE "mint",
        client |-> c, shipment |-> s, rate |-> r, fallback |-> d]]
  /\ UNCHANGED <<pod, docs, arrived, upload>>

\* No agreed rate: the second check, against the default rate, passed.
RecheckOrder(k) ==
  /\ order[k].pc = "recheck"
  /\ order' = [order EXCEPT ![k].pc = "mint"]
  /\ UNCHANGED <<pod, docs, arrived, upload>>

\* The second check answered 403, or the request died: nothing was written.
DropOrder(k) ==
  /\ order[k].pc # "idle"
  /\ order' = [order EXCEPT ![k] = IdleOrder]
  /\ UNCHANGED <<pod, docs, arrived, upload>>

\* INSERT INTO pod_requests with a fresh token.
Mint(k, p) ==
  /\ order[k].pc = "mint"
  /\ pod[p].status = "none"
  /\ pod' = [pod EXCEPT ![p] =
       [status |-> "pending", expired |-> FALSE, client |-> order[k].client,
        shipment |-> order[k].shipment, rate |-> order[k].rate, doc |-> None, url |-> None]]
  /\ order' = [order EXCEPT ![k] = IdleOrder]
  /\ UNCHANGED <<docs, arrived, upload>>

\* 48 hours pass: the clock reaches expires_at.
Expire(p) ==
  /\ pod[p].status = "pending"
  /\ ~pod[p].expired
  /\ pod' = [pod EXCEPT ![p].expired = TRUE]
  /\ UNCHANGED <<docs, arrived, upload, order>>

-----------------------------------------------------------------------------
(* podService.attachPod: one driver upload, statement by statement         *)

Advance(u, from, to) ==
  /\ upload[u].pc = from
  /\ upload' = [upload EXCEPT ![u].pc = to]

\* findByToken and the three refusals (404, 409, 410), which write nothing.
CheckToken(u, p) ==
  /\ upload[u].pc = "new"
  /\ pod[p].status = "pending"
  /\ ~pod[p].expired
  /\ upload' = [upload EXCEPT ![u] = [pc |-> "checked", pod |-> p]]
  /\ UNCHANGED <<pod, docs, arrived, order>>

\* Mutant: the shipment is flagged before the link is consumed.
InsertDocumentFlagging(u) ==
  /\ Advance(u, "checked", "documented")
  /\ docs' = docs \cup {u}
  /\ arrived' = arrived \cup ({pod[upload[u].pod].shipment} \ {None})
  /\ UNCHANGED <<pod, order>>

\* documentsRepository.insert: the photo becomes a documents row.
InsertDocument(u) ==
  /\ Advance(u, "checked", "documented")
  /\ docs' = docs \cup {u}
  /\ UNCHANGED <<pod, arrived, order>>

\* Mutants: the status or the foreign key is not tested by the UPDATE.
ConsumableAlways(p) == TRUE
KeepsReferenceAlways(u) == TRUE

\* The UPDATE's WHERE clause, and the foreign key to documents.
Consumable(p) == pod[p].status = "pending"
KeepsReference(u) == u \in docs

\* Mutants: the shipment is flagged though there is none; a linked shipment
\* is not flagged; nobody is billed.
FlagAlways(p) == "flag"
BillUnflagged(p) == IF pod[p].client # None THEN "bill" ELSE "done"
NobodyBilled(p) == "done"

\* What is left to do once the link is consumed.
AfterDelivered(p) ==
  IF pod[p].shipment # None THEN "flag"
  ELSE IF pod[p].client # None THEN "bill" ELSE "done"

\* The guarded UPDATE consumes the link: pending -> delivered.  The document
\* must still be there.
MarkDelivered(u) ==
  LET p == upload[u].pod IN
  /\ upload[u].pc = "documented"
  /\ Consumable(p)
  /\ KeepsReference(u)
  /\ Advance(u, "documented", AfterDelivered(p))
  /\ pod' = [pod EXCEPT ![p] = [@ EXCEPT !.status = "delivered", !.doc = u, !.url = u]]
  /\ UNCHANGED <<docs, arrived, order>>

\* The UPDATE matched no row (409), or broke the foreign key (500).
LoseToken(u) ==
  /\ upload[u].pc = "documented"
  /\ ~(Consumable(upload[u].pod) /\ KeepsReference(u))
  /\ Advance(u, "documented", "refused")
  /\ UNCHANGED <<pod, docs, arrived, order>>

\* UPDATE shipments SET status = 'delivered', whatever the status was; an
\* error of this statement alone is swallowed.
FlagShipment(u) ==
  LET p == upload[u].pod IN
  /\ Advance(u, "flag", IF pod[p].client # None THEN "bill" ELSE "done")
  /\ \/ arrived' = arrived \cup {pod[p].shipment}
     \/ CanFail /\ UNCHANGED arrived
  /\ UNCHANGED <<pod, docs, order>>

\* The upload calls autoDraftInvoice, whose outcome it ignores.
HandOff(u) ==
  /\ Advance(u, "bill", "done")
  /\ UNCHANGED <<pod, docs, arrived, order>>

\* The process dies or a statement throws: what was committed stays.
FailUpload(u) ==
  /\ CanFail
  /\ upload[u].pc \in {"checked", "documented", "flag", "bill"}
  /\ upload' = [upload EXCEPT ![u].pc = "failed"]
  /\ UNCHANGED <<pod, docs, arrived, order>>

\* DELETE /documents/:id; pod_document_id is ON DELETE SET NULL.
DeleteDocument(u) ==
  /\ u \in docs
  /\ docs' = docs \ {u}
  /\ pod' = [p \in Pods |-> IF pod[p].doc = u THEN [pod[p] EXCEPT !.doc = None] ELSE pod[p]]
  /\ UNCHANGED <<arrived, upload, order>>

-----------------------------------------------------------------------------
OrderStep(k) ==
  \/ \E c \in Opt(Clients), s \in Opt(Shipments), r \in Opt(Rates), d \in Opt(Rates) :
       OpenOrder(k, c, s, r, d)
  \/ RecheckOrder(k)
  \/ DropOrder(k)
  \/ \E p \in Pods : Mint(k, p)

UploadStep(u) ==
  \/ \E p \in Pods : CheckToken(u, p)
  \/ InsertDocument(u)
  \/ MarkDelivered(u)
  \/ LoseToken(u)
  \/ FlagShipment(u)
  \/ HandOff(u)
  \/ FailUpload(u)
  \/ DeleteDocument(u)

Next ==
  \/ \E k \in Dispatchers : OrderStep(k)
  \/ \E u \in Uploads : UploadStep(u)
  \/ \E p \in Pods : Expire(p)

Spec == Init /\ [][Next]_vars

\* Node runs every continuation of a request that has started: each upload
\* takes its next step, a dispatcher or a driver need not act.
UploadProgress(u) ==
  InsertDocument(u) \/ MarkDelivered(u) \/ LoseToken(u) \/ FlagShipment(u) \/ HandOff(u)

-----------------------------------------------------------------------------
(* Properties                                                              *)

\* Uploads that consumed their link and were not cut short.
Won == {u \in Uploads : upload[u].pc \in {"flag", "bill", "done"}}

\* A link is consumed by one upload at most, whose photo is the one on record:
\* two drivers, or one driver's double tap, never both pass attachPod.
SingleUse ==
  /\ \A u \in Won : pod[upload[u].pod].status = "delivered" /\ pod[upload[u].pod].url = u
  /\ \A p \in Pods : pod[p].url # None => upload[pod[p].url].pod = p

\* The document a request refers to exists and is the photo that consumed it,
\* although a document may be deleted between its insert and the UPDATE.
ProofOnRecord ==
  \A p \in Pods : pod[p].doc # None =>
    /\ pod[p].doc \in docs
    /\ pod[p].doc = pod[p].url

\* No shipment is marked delivered without a delivered request for it.
ArrivedHasProof ==
  \A s \in arrived : \E p \in Pods : pod[p].shipment = s /\ pod[p].status = "delivered"

\* A consumed link is never reopened, re-proved or re-billed to another
\* client; only its document reference may be cleared.
DeliveredIsFinal ==
  [][\A p \in Pods : pod[p].status = "delivered" =>
       /\ [pod'[p] EXCEPT !.doc = None] = [pod[p] EXCEPT !.doc = None]
       /\ pod'[p].doc \in {pod[p].doc, None}]_pod

\* While no statement fails, the shipment of a delivered request is marked
\* delivered sooner or later.
DeliveryReachesShipment ==
  \A p \in Pods :
    (pod[p].status = "delivered" /\ pod[p].shipment # None)
      ~> (pod[p].shipment \in arrived)

=============================================================================
