----------------------------- MODULE QuoteToCash -----------------------------
(***************************************************************************)
(* The quote-to-cash loop: proof-of-delivery requests (PodRequests) whose  *)
(* minting is gated by the credit guardrail and whose delivery drafts an   *)
(* invoice (Invoicing).  The two share the database; a handler of one      *)
(* calls the other's service in the middle of its own statements.          *)
(***************************************************************************)
EXTENDS Integers, FiniteSets

CONSTANTS Pods, Uploads, Dispatchers, Desks, Clients, Shipments,
          Rates, Limits, VatRates, FallbackRate, CanFail, None

ASSUME QuoteToCashAssumption ==
  /\ Rates \subseteq Nat
  /\ Limits \subseteq Nat
  /\ VatRates \subseteq Nat
  /\ FallbackRate \in Nat
  /\ CanFail \in BOOLEAN
  /\ None \notin Nat \cup Pods \cup Uploads \cup Clients \cup Shipments

VARIABLES pod, docs, arrived, upload, order,         \* as in PodRequests
          client, invoice, draft, desk, posting      \* as in Invoicing

P == INSTANCE PodRequests

\* An upload calls autoDraftInvoice at most once, for its own request.
I == INSTANCE Invoicing WITH Drafts <- Uploads, Keys <- Pods

delivery == <<pod, docs, arrived, upload, order>>
billing == <<client, invoice, draft, desk, posting>>
vars == <<pod, docs, arrived, upload, order, client, invoice, draft, desk, posting>>

Init == P!Init /\ I!Init

-----------------------------------------------------------------------------
\* create(): assertCreditOk on the agreed rate, or on 0 when there is none.
OpenOrder(k, s, r) ==
  /\ \/ P!OpenOrder(k, None, s, r, None)
     \/ \E c \in Clients :
          /\ I!CreditOk(c, IF r = None THEN 0 ELSE r)
          /\ P!OpenOrder(k, c, s, r, client[c].rate)
  /\ UNCHANGED billing

\* create(): the second assertCreditOk, on the default rate read by the first.
RecheckOrder(k) ==
  /\ P!RecheckOrder(k)
  /\ I!CreditOk(order[k].client, order[k].fallback)
  /\ UNCHANGED billing

DropOrder(k) ==
  /\ P!DropOrder(k)
  /\ \/ CanFail
     \/ order[k].pc = "recheck" /\ ~I!CreditOk(order[k].client, order[k].fallback)
  /\ UNCHANGED billing

Mint(k, p) == P!Mint(k, p) /\ UNCHANGED billing

\* The steps of an upload, and of a document's deletion, that billing ignores.
Deliver(u) ==
  /\ \/ \E p \in Pods : P!CheckToken(u, p)
     \/ P!InsertDocument(u)
     \/ P!MarkDelivered(u)
     \/ P!LoseToken(u)
     \/ P!FlagShipment(u)
     \/ P!FailUpload(u)
     \/ P!DeleteDocument(u)
  /\ UNCHANGED billing

\* Mutant: the agreed rate is not passed on.
BillUnagreed(u) ==
  LET p == upload[u].pod IN
  /\ P!HandOff(u)
  /\ I!DraftPrice(u, p, pod[p].client, None)

\* attachPod calls autoDraftInvoice with the request's client and agreed rate.
Bill(u) ==
  LET p == upload[u].pod IN
  /\ P!HandOff(u)
  /\ I!DraftPrice(u, p, pod[p].client, pod[p].rate)

Expire(p) == P!Expire(p) /\ UNCHANGED billing

Billing ==
  /\ \/ \E c \in Clients : I!ClientStep(c)
     \/ \E u \in Uploads : I!DraftStep(u)
     \/ \E k \in Desks : I!DeskStep(k)
  /\ UNCHANGED delivery

Next ==
  \/ \E k \in Dispatchers, s \in P!Opt(Shipments), r \in P!Opt(Rates) : OpenOrder(k, s, r)
  \/ \E k \in Dispatchers : RecheckOrder(k) \/ DropOrder(k)
  \/ \E k \in Dispatchers, p \in Pods : Mint(k, p)
  \/ \E u \in Uploads : Deliver(u) \/ Bill(u)
  \/ \E p \in Pods : Expire(p)
  \/ Billing

Spec == Init /\ [][Next]_vars

\* A started request takes its next statement sooner or later: the event loop
\* runs every continuation.  Nobody is obliged to start one.
Progress(u) ==
  \/ P!UploadProgress(u) /\ UNCHANGED billing
  \/ Bill(u)
  \/ (I!DraftNumber(u) \/ I!DraftInsert(u) \/ I!DraftClash(u)) /\ UNCHANGED delivery

FairSpec == Spec /\ \A u \in Uploads : WF_vars(Progress(u))

-----------------------------------------------------------------------------
(* Properties                                                              *)

\* No delivery is billed twice, whatever uploads and drafts race or die.
OneInvoicePerPod ==
  \A d, e \in I!Issued : invoice[d].key = invoice[e].key => d = e

\* Behind every invoice stands a delivered request of the billed client: the
\* upload that consumed the link is the one that billed it, at the agreed
\* rate if there was one.
InvoiceHasProof ==
  \A d \in I!Issued :
    LET p == invoice[d].key IN
    /\ pod[p].status = "delivered"
    /\ pod[p].url = d
    /\ invoice[d].client = pod[p].client
    /\ pod[p].rate # None => invoice[d].net = pod[p].rate

\* The invoices of a company are an InvoiceBook: each step of the system
\* enters one delivery under the next number, or leaves the book alone.
Book == INSTANCE InvoiceBook WITH
          Keys <- Pods,
          book <- {<<invoice[d].number, invoice[d].key>> : d \in I!Issued},
          last <- Cardinality(I!Issued)
ImplementsBook == Book!Spec

Billable(p) == pod[p].status = "delivered" /\ pod[p].client # None
Billed(p) == \E d \in I!Issued : invoice[d].key = p

\* While no statement fails, a delivery for a client ends in an invoice or in
\* a draft that lost its number to another one: no third way to lose it.
DeliveredIsBilledOrClashed ==
  \A p \in Pods :
    Billable(p) ~> (Billed(p) \/ \E u \in Uploads : draft[u].key = p /\ draft[u].pc = "clashed")

\* While no statement fails, the shipment of a delivered request is marked
\* delivered sooner or later, whatever becomes of the invoice.
DeliveryReachesShipment == P!DeliveryReachesShipment

\* The header of invoicing.service.ts: invoices are auto-drafted the moment a
\* proof of delivery lands.
DeliveredIsBilled == \A p \in Pods : Billable(p) ~> Billed(p)

\* The comment in podService.create: a load for an over-limit client is
\* blocked before any token is minted (over the agreed rate, as it is checked).
MintWithinLimit ==
  [][\A p \in Pods :
       (pod[p].status = "none" /\ pod'[p].status = "pending" /\ pod'[p].client # None)
         => I!CreditOk(pod'[p].client, IF pod'[p].rate # None THEN pod'[p].rate ELSE 0)]_pod

=============================================================================
