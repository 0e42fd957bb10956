-------------------------- MODULE QuoteToCash_proofs --------------------------
(***************************************************************************)
(* Proofs about the quote-to-cash loop.  The loop is shown to implement    *)
(* both of its parts, so what is proved of each holds in it; from that and *)
(* one more invariant, which ties a draft to the upload that called for    *)
(* it, follow that no delivery is billed twice or without proof, and that  *)
(* the invoices implement the abstract InvoiceBook.                        *)
(***************************************************************************)
EXTENDS QuoteToCash, FiniteSetTheorems, TLAPS

\* What is proved of the parts, about the same constants and variables.
PP == INSTANCE PodRequests_proofs
IP == INSTANCE Invoicing_proofs WITH Drafts <- Uploads, Keys <- Pods

\* The constants satisfy the assumptions of both parts.
LEMMA PartsAssumed == PP!PodAssumption /\ IP!InvoicingAssumption
BY QuoteToCashAssumption DEF PP!PodAssumption, IP!InvoicingAssumption

\* Each instance has a FiniteSets of its own, which says the same.
LEMMA SameCardinality ==
  ASSUME NEW S
  PROVE  /\ I!Cardinality(S) = Cardinality(S)
         /\ IP!Cardinality(S) = Cardinality(S)
         /\ IP!IsFiniteSet(S) = IsFiniteSet(S)
<1>1. I!Cardinality(S) = Cardinality(S)
  BY DEF I!Cardinality, Cardinality
<1>2. IP!Cardinality(S) = Cardinality(S)
  BY DEF IP!Cardinality, Cardinality
<1>3. IP!IsFiniteSet(S) = IsFiniteSet(S)
  BY DEF IP!IsFiniteSet, IsFiniteSet
<1>4. QED
  BY <1>1, <1>2, <1>3

\* The rows inserted so far are the same set in both instances.
LEMMA SameIssued == I!Issued = IP!Issued
BY DEF I!Issued, IP!Issued

-----------------------------------------------------------------------------
\* Every step of the loop is a step of the delivery part, or none of its.
LEMMA DeliveryStep ==
  ASSUME IP!TypeOK, [Next]_vars
  PROVE  PP!Next \/ UNCHANGED delivery
<1>1. ASSUME NEW k \in Dispatchers, NEW s \in P!Opt(Shipments), NEW r \in P!Opt(Rates),
             OpenOrder(k, s, r)
      PROVE  PP!Next
  <2>1. PICK c \in PP!Opt(Clients), d \in PP!Opt(Rates) : P!OpenOrder(k, c, s, r, d)
    BY <1>1 DEF OpenOrder, PP!Opt, IP!TypeOK, IP!ClientRow, IP!Opt
  <2>2. PP!OpenOrder(k, c, s, r, d)
    BY <2>1 DEF P!OpenOrder, PP!OpenOrder
  <2>3. QED
    BY <2>1, <2>2 DEF PP!Next, PP!OrderStep, P!Opt, PP!Opt
<1>2. ASSUME NEW k \in Dispatchers, RecheckOrder(k) \/ DropOrder(k) PROVE PP!Next
  <2>1. PP!RecheckOrder(k) \/ PP!DropOrder(k)
    BY <1>2 DEF RecheckOrder, DropOrder, P!RecheckOrder, PP!RecheckOrder, P!DropOrder,
       PP!DropOrder, P!IdleOrder, PP!IdleOrder
  <2>2. QED
    BY <2>1 DEF PP!Next, PP!OrderStep
<1>3. ASSUME NEW k \in Dispatchers, NEW p \in Pods, Mint(k, p) PROVE PP!Next
  <2>1. PP!Mint(k, p)
    BY <1>3 DEF Mint, P!Mint, PP!Mint, P!IdleOrder, PP!IdleOrder
  <2>2. QED
    BY <2>1 DEF PP!Next, PP!OrderStep
<1>4. ASSUME NEW u \in Uploads, Deliver(u) PROVE PP!Next
  <2>1. \/ \E p \in Pods : PP!CheckToken(u, p)
        \/ PP!InsertDocument(u)
        \/ PP!MarkDelivered(u)
        \/ PP!LoseToken(u)
        \/ PP!FlagShipment(u)
        \/ PP!FailUpload(u)
        \/ PP!DeleteDocument(u)
    BY <1>4 DEF Deliver, P!CheckToken, P!InsertDocument, P!MarkDelivered, P!LoseToken,
       P!FlagShipment, P!FailUpload, P!DeleteDocument, P!Advance, P!AfterDelivered,
       P!Consumable, P!KeepsReference, PP!CheckToken, PP!InsertDocument, PP!MarkDelivered,
       PP!LoseToken, PP!FlagShipment, PP!FailUpload, PP!DeleteDocument, PP!Advance,
       PP!AfterDelivered, PP!Consumable, PP!KeepsReference
  <2>2. QED
    BY <2>1 DEF PP!Next, PP!UploadStep
<1>5. ASSUME NEW u \in Uploads, Bill(u) PROVE PP!Next
  <2>1. PP!HandOff(u)
    BY <1>5 DEF Bill, P!HandOff, PP!HandOff, P!Advance, PP!Advance
  <2>2. QED
    BY <2>1 DEF PP!Next, PP!UploadStep
<1>6. ASSUME NEW p \in Pods, Expire(p) PROVE PP!Next
  BY <1>6 DEF Expire, P!Expire, PP!Expire, PP!Next
<1>7. CASE Billing
  BY <1>7 DEF Billing
<1>8. CASE UNCHANGED vars
  BY <1>8 DEF vars, delivery
<1>9. QED
  BY ONLY <1>1, <1>2, <1>3, <1>4, <1>5, <1>6, <1>7, <1>8, [Next]_vars DEF Next

\* Every step of the loop is a step of billing, or none of its: a hand-off
\* happens only for a request that names a client.
LEMMA BillingStep ==
  ASSUME PP!IInv, [Next]_vars
  PROVE  IP!Next \/ UNCHANGED billing
<1>1. ASSUME NEW u \in Uploads, Bill(u) PROVE IP!Next
  <2> DEFINE p == upload[u].pod
  <2>1. upload[u].pc = "bill"
    BY <1>1 DEF Bill, P!HandOff, P!Advance
  <2>2. p \in Pods /\ pod[p].client \in Clients /\ pod[p].rate \in IP!Opt(Rates)
    BY <2>1 DEF PP!IInv, PP!UploadInv, PP!TypeOK, PP!PodRow, PP!Opt, IP!Opt
  <2>3. IP!DraftPrice(u, p, pod[p].client, pod[p].rate)
    BY <1>1 DEF Bill, I!DraftPrice, IP!DraftPrice, I!NetOf, IP!NetOf
  <2>4. QED
    BY <2>2, <2>3 DEF IP!Next
<1>2. ASSUME NEW c \in Clients, I!ClientStep(c) PROVE IP!Next
  <2>1. PICK l \in Limits, r \in IP!Opt(Rates), v \in VatRates :
          I!CreateClient(c, l, r, v) \/ I!UpdateClient(c, l, r, v)
    BY <1>2 DEF I!ClientStep, I!Opt, IP!Opt
  <2>2. IP!CreateClient(c, l, r, v) \/ IP!UpdateClient(c, l, r, v)
    BY <2>1 DEF I!CreateClient, IP!CreateClient, I!UpdateClient, IP!UpdateClient
  <2>3. QED
    BY <2>1, <2>2 DEF IP!Next, IP!ClientStep
<1>3. ASSUME NEW u \in Uploads, I!DraftStep(u) PROVE IP!Next
  <2>1. IP!DraftStep(u)
    <3>1. I!DraftNumber(u) => IP!DraftNumber(u)
      BY SameIssued, SameCardinality DEF I!DraftNumber, IP!DraftNumber
    <3>2. I!DraftInsert(u) => IP!DraftInsert(u)
      BY DEF I!DraftInsert, IP!DraftInsert, I!NumberTaken, IP!NumberTaken, I!Issued,
         IP!Issued, I!VatAmount, IP!VatAmount
    <3>3. I!DraftClash(u) => IP!DraftClash(u)
      BY DEF I!DraftClash, IP!DraftClash, I!NumberTaken, IP!NumberTaken, I!Issued, IP!Issued
    <3>4. I!DraftFail(u) => IP!DraftFail(u)
      BY DEF I!DraftFail, IP!DraftFail
    <3>5. QED
      BY <1>3, <3>1, <3>2, <3>3, <3>4 DEF I!DraftStep, IP!DraftStep
  <2>2. QED
    BY <2>1 DEF IP!Next
<1>4. ASSUME NEW k \in Desks, I!DeskStep(k) PROVE IP!Next
  <2>1. IP!DeskStep(k)
    BY <1>4 DEF I!DeskStep, IP!DeskStep, I!Approve, IP!Approve, I!Pay, IP!Pay,
       I!Transition, IP!Transition, I!HasStatus, IP!HasStatus, I!Post, IP!Post,
       I!DeskFail, IP!DeskFail, I!Settle, IP!Settle, I!Delta, IP!Delta,
       I!IdleDesk, IP!IdleDesk
  <2>2. QED
    BY <2>1 DEF IP!Next
<1>5. QED
  BY ONLY <1>1, <1>2, <1>3, <1>4, [Next]_vars
  DEF Next, OpenOrder, RecheckOrder, DropOrder, Mint, Deliver, Expire, Billing, vars, billing

-----------------------------------------------------------------------------
\* A draft was called for by an upload that has consumed its link, for that
\* link's client and agreed rate; the invoice repeats what the draft says.
DraftOf(u) ==
  LET p == upload[u].pod IN
  /\ draft[u].pc # "new" =>
       /\ upload[u].pc = "done"
       /\ draft[u].key = p
       /\ draft[u].client = pod[p].client
       /\ pod[p].rate # None => draft[u].net = pod[p].rate
  /\ u \in I!Issued =>
       /\ invoice[u].key = draft[u].key
       /\ invoice[u].client = draft[u].client
       /\ invoice[u].net = draft[u].net

LoopInv == PP!IInv /\ IP!IInv /\ \A u \in Uploads : DraftOf(u)

\* Every step keeps the invariants of both parts.
LEMMA PartsStep ==
  ASSUME LoopInv, [Next]_vars
  PROVE  PP!IInv' /\ IP!IInv'
<1>1. [PP!Next]_PP!vars
  BY DeliveryStep DEF LoopInv, IP!IInv, delivery, PP!vars
<1>2. [IP!Next]_IP!vars
  BY BillingStep DEF LoopInv, billing, IP!vars
<1>3. PP!IInv'
  BY <1>1, PartsAssumed, PP!InvStep DEF LoopInv
<1>4. IP!IInv'
  BY <1>2, PartsAssumed, IP!InvStep DEF LoopInv
<1>5. QED
  BY <1>3, <1>4

\* Every step keeps the tie between drafts and uploads: a finished upload does
\* not move, and its consumed link keeps its client and rate.
LEMMA DraftStep ==
  ASSUME LoopInv, [Next]_vars, NEW u \in Uploads
  PROVE  DraftOf(u)'
<1> USE DEF LoopInv
<1>1. upload \in [Uploads -> PP!UploadCall] /\ draft \in [Uploads -> IP!DraftCall]
      /\ pod \in [Pods -> PP!PodRow] /\ invoice \in [Uploads -> IP!InvoiceRow]
  BY DEF PP!IInv, PP!TypeOK, IP!IInv, IP!TypeOK
<1>2. u \in I!Issued => draft[u].pc = "done"
  BY DEF IP!IInv, IP!BookInv, IP!DraftInv, I!Issued, IP!Issued
<1>3. ASSUME UNCHANGED <<upload, pod, draft>>, UNCHANGED invoice PROVE DraftOf(u)'
  BY <1>3 DEF DraftOf, I!Issued
<1>4. ASSUME upload[u].pc = "done" => /\ upload'[u] = upload[u]
                                      /\ pod'[upload[u].pod].client = pod[upload[u].pod].client
                                      /\ pod'[upload[u].pod].rate = pod[upload[u].pod].rate,
             UNCHANGED billing
      PROVE  DraftOf(u)'
  BY <1>2, <1>4 DEF DraftOf, I!Issued, billing
<1>5. upload[u].pc = "done" => upload[u].pod \in Pods /\ pod[upload[u].pod].status = "delivered"
  BY PartsAssumed DEF PP!IInv, PP!UploadInv, PP!PodInv, PP!PodAssumption
<1>6. ASSUME NEW k \in Dispatchers, NEW p \in Pods, Mint(k, p) PROVE DraftOf(u)'
  BY <1>1, <1>4, <1>5, <1>6 DEF Mint, P!Mint
<1>7. ASSUME NEW v \in Uploads, Deliver(v) PROVE DraftOf(u)'
  <2>1. upload[u].pc = "done" => upload'[u] = upload[u]
    BY <1>1, <1>7 DEF Deliver, P!CheckToken, P!InsertDocument, P!MarkDelivered, P!LoseToken,
       P!FlagShipment, P!FailUpload, P!DeleteDocument, P!Advance
  <2>2. \A p \in Pods : pod'[p].client = pod[p].client /\ pod'[p].rate = pod[p].rate
    <3>1. CASE P!MarkDelivered(v)
      BY <1>1, <3>1 DEF P!MarkDelivered, PP!PodRow
    <3>2. CASE P!DeleteDocument(v)
      BY <1>1, <3>2 DEF P!DeleteDocument, PP!PodRow
    <3>3. CASE UNCHANGED pod
      BY <3>3
    <3>4. QED
      BY <1>7, <3>1, <3>2, <3>3 DEF Deliver, P!CheckToken, P!InsertDocument, P!LoseToken,
         P!FlagShipment, P!FailUpload
  <2>3. QED
    BY <1>4, <1>5, <1>7, <2>1, <2>2 DEF Deliver
<1>8. ASSUME NEW p \in Pods, Expire(p) PROVE DraftOf(u)'
  <2>1. \A q \in Pods : pod'[q].client = pod[q].client /\ pod'[q].rate = pod[q].rate
    BY <1>1, <1>8 DEF Expire, P!Expire, PP!PodRow
  <2>2. QED
    BY <1>4, <1>5, <1>8, <2>1 DEF Expire, P!Expire
<1>9. ASSUME NEW v \in Uploads, Bill(v) PROVE DraftOf(u)'
  <2> DEFINE p == upload[v].pod
  <2>1. /\ upload[v].pc = "bill" /\ upload'[v].pc = "done" /\ upload'[v].pod = p
        /\ \A w \in Uploads \ {v} : upload'[w] = upload[w] /\ draft'[w] = draft[w]
        /\ UNCHANGED <<pod, invoice>>
    BY <1>1, <1>9 DEF Bill, P!HandOff, P!Advance, I!DraftPrice, PP!UploadCall
  <2>2. /\ draft[v].pc = "new" /\ draft'[v].key = p /\ draft'[v].client = pod[p].client
        /\ pod[p].rate # None => draft'[v].net = pod[p].rate
    BY <1>1, <1>9 DEF Bill, I!DraftPrice, I!NetOf
  <2>3. QED
    BY <1>2, <2>1, <2>2 DEF DraftOf, I!Issued
<1>10. ASSUME NEW v \in Uploads, I!DraftStep(v), UNCHANGED delivery PROVE DraftOf(u)'
  <2>1. /\ draft[v].pc # "new" /\ draft'[v].key = draft[v].key
        /\ draft'[v].client = draft[v].client /\ draft'[v].net = draft[v].net
        /\ \A w \in Uploads \ {v} : draft'[w] = draft[w] /\ invoice'[w] = invoice[w]
        /\ UNCHANGED <<upload, pod>>
    <3>1. CASE I!DraftNumber(v)
      BY <1>1, <1>10, <3>1 DEF I!DraftNumber, delivery, IP!DraftCall
    <3>2. CASE I!DraftInsert(v)
      BY <1>1, <1>10, <3>2 DEF I!DraftInsert, delivery, IP!DraftCall
    <3>3. CASE I!DraftClash(v) \/ I!DraftFail(v)
      BY <1>1, <1>10, <3>3 DEF I!DraftClash, I!DraftFail, delivery, IP!DraftCall
    <3>4. QED
      BY <1>10, <3>1, <3>2, <3>3 DEF I!DraftStep
  <2>2. \/ invoice'[v] = invoice[v]
        \/ /\ invoice'[v].key = draft[v].key /\ invoice'[v].client = draft[v].client
           /\ invoice'[v].net = draft[v].net
    BY <1>1, <1>10 DEF I!DraftStep, I!DraftNumber, I!DraftInsert, I!DraftClash, I!DraftFail
  <2>3. QED
    BY <2>1, <2>2 DEF DraftOf, I!Issued
<1>11. ASSUME NEW k \in Desks, I!DeskStep(k), UNCHANGED delivery PROVE DraftOf(u)'
  <2>1. /\ invoice'[u].key = invoice[u].key /\ invoice'[u].client = invoice[u].client
        /\ invoice'[u].net = invoice[u].net
        /\ invoice'[u].status # "none" => invoice[u].status # "none"
        /\ UNCHANGED <<upload, pod, draft>>
    <3>1. CASE \E d \in Uploads : I!Approve(k, d) \/ I!Pay(k, d)
      BY <1>1, <1>11, <3>1 DEF I!Approve, I!Pay, I!Transition, I!HasStatus, delivery,
         IP!InvoiceRow
    <3>2. CASE I!Post(k) \/ I!DeskFail(k)
      BY <1>11, <3>2 DEF I!Post, I!DeskFail, I!Settle, delivery
    <3>3. QED
      BY <1>11, <3>1, <3>2 DEF I!DeskStep
  <2>2. QED
    BY <2>1 DEF DraftOf, I!Issued
<1>12. QED
  BY ONLY <1>3, <1>6, <1>7, <1>8, <1>9, <1>10, <1>11, [Next]_vars
  DEF Next, OpenOrder, RecheckOrder, DropOrder, Billing, P!OpenOrder, P!RecheckOrder,
      P!DropOrder, I!ClientStep, I!CreateClient, I!UpdateClient, vars, billing, delivery

-----------------------------------------------------------------------------
\* In every reachable state LoopInv holds.
THEOREM Invariance == Spec => []LoopInv
<1>1. Init => LoopInv
  <2> SUFFICES ASSUME Init PROVE LoopInv
    OBVIOUS
  <2>1. PP!Init
    BY DEF Init, P!Init, PP!Init, P!IdleOrder, PP!IdleOrder
  <2>2. IP!Init
    BY DEF Init, I!Init, IP!Init, I!IdleDesk, IP!IdleDesk
  <2>3. \A u \in Uploads : DraftOf(u)
    BY DEF Init, I!Init, DraftOf, I!Issued
  <2>4. QED
    BY <2>1, <2>2, <2>3, PartsAssumed, PP!InvInit, IP!InvInit DEF LoopInv
<1>2. LoopInv /\ [Next]_vars => LoopInv'
  BY PartsStep, DraftStep DEF LoopInv
<1>3. QED
  BY <1>1, <1>2, PTL DEF Spec

\* The loop runs the pod handlers as PodRequests says: the credit check and the
\* draft it adds leave no link in a state that PodRequests excludes.
THEOREM ImplementsDelivery == Spec => PP!Spec
<1>1. Init => PP!Init
  BY DEF Init, P!Init, PP!Init, P!IdleOrder, PP!IdleOrder
<1>2. LoopInv /\ [Next]_vars => [PP!Next]_PP!vars
  BY DeliveryStep DEF LoopInv, IP!IInv, delivery, PP!vars
<1>3. QED
  BY <1>1, <1>2, Invariance, PTL DEF Spec, PP!Spec

\* The loop runs the invoicing handlers as Invoicing says: every draft an upload
\* calls for is about a client that exists.
THEOREM ImplementsBilling == Spec => IP!Spec
<1>1. Init => IP!Init
  BY DEF Init, I!Init, IP!Init, I!IdleDesk, IP!IdleDesk
<1>2. LoopInv /\ [Next]_vars => [IP!Next]_IP!vars
  BY BillingStep DEF LoopInv, billing, IP!vars
<1>3. QED
  BY <1>1, <1>2, Invariance, PTL DEF Spec, IP!Spec

\* Behind every invoice stands a delivered link of the billed client, consumed
\* by the upload that billed it, at the agreed rate if there is one.
LEMMA ProofFound == LoopInv => InvoiceHasProof
<1> SUFFICES ASSUME LoopInv, NEW d \in I!Issued
             PROVE  LET p == invoice[d].key IN
                    /\ pod[p].status = "delivered"
                    /\ pod[p].url = d
                    /\ invoice[d].client = pod[p].client
                    /\ pod[p].rate # None => invoice[d].net = pod[p].rate
  BY DEF InvoiceHasProof
<1>1. d \in Uploads /\ draft[d].pc = "done"
  BY DEF LoopInv, IP!IInv, IP!BookInv, IP!DraftInv, I!Issued, IP!Issued
<1>2. upload[d].pc = "done" /\ invoice[d].key = upload[d].pod
  BY <1>1 DEF LoopInv, DraftOf
<1>3. upload[d].pod \in Pods /\ pod[upload[d].pod].url = d
  BY <1>1, <1>2 DEF LoopInv, PP!IInv, PP!UploadInv
<1>4. pod[upload[d].pod].status = "delivered"
  BY <1>1, <1>3, PartsAssumed DEF LoopInv, PP!IInv, PP!PodInv, PP!PodAssumption
<1>5. QED
  BY <1>1, <1>2, <1>3, <1>4 DEF LoopInv, DraftOf

\* The link of an invoice records one upload: two invoices of it are the same.
LEMMA ProofUsedOnce == LoopInv => OneInvoicePerPod
BY ProofFound DEF OneInvoicePerPod, InvoiceHasProof

\* No invoice is drafted without a consumed link behind it (pod.service.ts,
\* attachPod), whatever uploads race, die or lose their document.
THEOREM BilledWithProof == Spec => []InvoiceHasProof
BY Invariance, ProofFound, PTL

\* No delivery is billed twice, by whatever uploads.
THEOREM BilledOnce == Spec => []OneInvoicePerPod
BY Invariance, ProofUsedOnce, PTL

-----------------------------------------------------------------------------
\* The invoices of a company are an InvoiceBook: the INSERT of a draft enters
\* its delivery under the next number, every other statement leaves the book.
entries == {<<invoice[d].number, invoice[d].key>> : d \in I!Issued}

\* A step that leaves the issued invoices' numbers and keys alone is a stutter.
LEMMA BookStutters ==
  ASSUME LoopInv, I!Issued' = I!Issued,
         \A d \in I!Issued : /\ invoice'[d].number = invoice[d].number
                             /\ invoice'[d].key = invoice[d].key
  PROVE  UNCHANGED <<entries, Cardinality(I!Issued)>>
<1>1. {<<invoice'[d].number, invoice'[d].key>> : d \in I!Issued} = entries
  BY DEF entries
<1>2. QED
  BY <1>1 DEF entries

\* A step that issues one invoice, under the number after the last, is a step
\* of the book.
LEMMA BookEntered ==
  ASSUME LoopInv, LoopInv', NEW u \in Uploads, I!DraftInsert(u)
  PROVE  Book!Enter(draft[u].key)
<1> USE DEF LoopInv
<1>1. /\ u \notin I!Issued /\ I!Issued \subseteq Uploads
      /\ IsFiniteSet(I!Issued)
      /\ invoice \in [Uploads -> IP!InvoiceRow]
  <2>1. u \notin IP!Issued /\ IsFiniteSet(IP!Issued) /\ invoice \in [Uploads -> IP!InvoiceRow]
    BY SameCardinality DEF IP!IInv, IP!BookInv, IP!DraftInv, IP!TypeOK, I!DraftInsert
  <2>2. QED
    BY <2>1, SameIssued DEF I!Issued
<1>2. /\ invoice'[u].status = "draft" /\ invoice'[u].key = draft[u].key
      /\ \A e \in Uploads \ {u} : invoice'[e] = invoice[e]
  BY <1>1 DEF I!DraftInsert
<1>3. I!Issued' = I!Issued \cup {u}
  BY <1>1, <1>2 DEF I!Issued
<1>4. Cardinality(I!Issued') = Cardinality(I!Issued) + 1 /\ Cardinality(I!Issued) \in Nat
  BY <1>1, <1>3, FS_AddElement, FS_CardinalityType
<1>5. invoice'[u].number = Cardinality(I!Issued) + 1
  <2>1. /\ draft[u].number \in 1 .. Cardinality(I!Issued) + 1
        /\ draft[u].number \notin 1 .. Cardinality(I!Issued)
        /\ invoice'[u].number = draft[u].number
    <3>1. {invoice[d].number : d \in I!Issued} = 1 .. Cardinality(I!Issued)
      BY SameIssued, SameCardinality DEF IP!IInv, IP!BookInv, IP!NumbersGapless
    <3>2. draft[u].number \notin {invoice[d].number : d \in I!Issued}
      BY DEF I!DraftInsert, I!NumberTaken
    <3>3. draft[u].number \in 1 .. Cardinality(I!Issued) + 1
      BY SameIssued, SameCardinality DEF IP!IInv, IP!BookInv, IP!DraftInv, I!DraftInsert
    <3>4. QED
      BY <1>1, <3>1, <3>2, <3>3 DEF I!DraftInsert
  <2>2. QED
    BY <1>4, <2>1
<1>6. entries' = entries \cup {<<Cardinality(I!Issued) + 1, draft[u].key>>}
  <2>1. entries' = {<<invoice'[d].number, invoice'[d].key>> : d \in I!Issued \cup {u}}
    BY <1>3 DEF entries
  <2>2. \A d \in I!Issued : invoice'[d] = invoice[d]
    BY <1>1, <1>2
  <2>3. QED
    BY <1>2, <1>5, <2>1, <2>2 DEF entries
<1>7. \A d \in I!Issued : invoice[d].key # draft[u].key
  <2> SUFFICES ASSUME NEW d \in I!Issued, invoice[d].key = draft[u].key PROVE FALSE
    OBVIOUS
  <2>1. invoice'[d].key = invoice'[u].key /\ d \in I!Issued' /\ u \in I!Issued' /\ d # u
    BY <1>1, <1>2, <1>3
  <2>2. OneInvoicePerPod'
    BY ProofUsedOnce, PTL
  <2>3. QED
    BY <2>1, <2>2 DEF OneInvoicePerPod
<1>8. \A e \in entries : e[2] # draft[u].key
  BY <1>7 DEF entries
<1>9. QED
  BY <1>4, <1>6, <1>8 DEF Book!Enter, entries

\* The invoices implement the abstract book: deliveries are entered one at a
\* time, each once, under consecutive numbers, whatever the statements of racing
\* uploads do in between.
THEOREM InvoicesAreBook == Spec => ImplementsBook
<1>1. Init => Book!Init
  <2> SUFFICES ASSUME Init PROVE Book!Init
    OBVIOUS
  <2>1. I!Issued = {}
    BY DEF Init, I!Init, I!Issued
  <2>2. QED
    BY <2>1, FS_EmptySet DEF Book!Init
<1>2. ASSUME LoopInv, LoopInv', [Next]_vars
      PROVE  [Book!Next]_<<entries, Cardinality(I!Issued)>>
  <2> SUFFICES ASSUME ~UNCHANGED <<entries, Cardinality(I!Issued)>> PROVE Book!Next
    OBVIOUS
  <2>1. invoice \in [Uploads -> IP!InvoiceRow]
    BY <1>2 DEF LoopInv, IP!IInv, IP!TypeOK
  <2>2. ASSUME UNCHANGED invoice PROVE FALSE
    BY <1>2, <2>2, BookStutters DEF I!Issued
  <2>3. ASSUME NEW k \in Desks, I!DeskStep(k) PROVE FALSE
    <3>1. \A d \in Uploads : /\ invoice'[d].number = invoice[d].number
                             /\ invoice'[d].key = invoice[d].key
                             /\ invoice'[d].status # "none" <=> invoice[d].status # "none"
      <4>1. CASE \E d \in Uploads : I!Approve(k, d) \/ I!Pay(k, d)
        BY <2>1, <4>1 DEF I!Approve, I!Pay, I!Transition, I!HasStatus, IP!InvoiceRow
      <4>2. CASE I!Post(k) \/ I!DeskFail(k)
        BY <4>2 DEF I!Post, I!DeskFail, I!Settle
      <4>3. QED
        BY <2>3, <4>1, <4>2 DEF I!DeskStep
    <3>2. I!Issued' = I!Issued
      BY <3>1 DEF I!Issued
    <3>3. QED
      BY <1>2, <3>1, <3>2, BookStutters DEF I!Issued
  <2>4. \E u \in Uploads : I!DraftInsert(u)
    BY ONLY <1>2, <2>2, <2>3
    DEF Next, OpenOrder, RecheckOrder, DropOrder, Mint, Deliver, Bill, Expire, Billing,
        I!ClientStep, I!CreateClient, I!UpdateClient, I!DraftStep, I!DraftPrice,
        I!DraftNumber, I!DraftClash, I!DraftFail, vars, billing
  <2> PICK u \in Uploads : I!DraftInsert(u)
    BY <2>4
  <2>5. draft[u].key \in Pods
    <3>1. draft[u].key = upload[u].pod /\ upload[u].pc = "done"
      BY <1>2 DEF LoopInv, DraftOf, I!DraftInsert
    <3>2. QED
      BY <1>2, <3>1 DEF LoopInv, PP!IInv, PP!UploadInv
  <2>6. Book!Enter(draft[u].key)
    BY <1>2, BookEntered
  <2>7. QED
    BY <2>5, <2>6 DEF Book!Next, Book!Enter
<1>3. QED
  BY <1>1, <1>2, Invariance, PTL DEF Spec, ImplementsBook, Book!Spec, entries

=============================================================================
