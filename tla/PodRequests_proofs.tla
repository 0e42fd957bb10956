-------------------------- MODULE PodRequests_proofs --------------------------
(***************************************************************************)
(* Proofs about proof-of-delivery requests: for any number of links,       *)
(* uploads, dispatchers and documents deleted, a link is used once.        *)
(*                                                                         *)
(* The safety properties are not inductive: that a second upload cannot    *)
(* consume a link rests on where every other upload of that link stands.   *)
(* IInv adds it: the status and the recorded photo of a link change        *)
(* together, and the recorded photo names the one upload past the UPDATE.  *)
(***************************************************************************)
EXTENDS PodRequests, TLAPS

\* A request is delivered exactly when a photo is on record; that photo's
\* upload is its own and past the UPDATE; a document reference is that photo.
PodInv(p) ==
  /\ pod[p].status = "delivered" <=> pod[p].url # None
  /\ pod[p].url # None =>
       /\ upload[pod[p].url].pod = p
       /\ upload[pod[p].url].pc \in {"flag", "bill", "done", "failed"}
  /\ pod[p].doc # None => pod[p].doc \in docs /\ pod[p].doc = pod[p].url

\* An upload past the token check has a link; past the UPDATE it is the one on
\* the link's record; and it flags or bills only what the request names.
UploadInv(u) ==
  /\ upload[u].pc # "new" => upload[u].pod \in Pods
  /\ upload[u].pc \in {"flag", "bill", "done"} => pod[upload[u].pod].url = u
  /\ upload[u].pc = "flag" => pod[upload[u].pod].shipment # None
  /\ upload[u].pc = "bill" => pod[upload[u].pod].client # None

IInv ==
  /\ TypeOK
  /\ \A p \in Pods : PodInv(p)
  /\ \A u \in Uploads : UploadInv(u)
  /\ ArrivedHasProof

-----------------------------------------------------------------------------
\* The edits a statement makes of a request leave it a request.
LEMMA RowEdit ==
  ASSUME NEW row \in PodRow
  PROVE  /\ [row EXCEPT !.expired = TRUE] \in PodRow
         /\ [row EXCEPT !.doc = None] \in PodRow
         /\ \A u \in Uploads :
              [row EXCEPT !.status = "delivered", !.doc = u, !.url = u] \in PodRow
<1> USE DEF PodRow, Opt
<1>1. [row EXCEPT !.expired = TRUE] \in PodRow
  OBVIOUS
<1>2. \A r \in PodRow : [r EXCEPT !.doc = None] \in PodRow
  OBVIOUS
<1>3. \A r \in PodRow, u \in Uploads : [r EXCEPT !.doc = u] \in PodRow
  OBVIOUS
<1>4. \A r \in PodRow, u \in Uploads : [r EXCEPT !.url = u] \in PodRow
  OBVIOUS
<1>5. [row EXCEPT !.status = "delivered"] \in PodRow
  OBVIOUS
<1>6. QED
  BY ONLY ZenonT(40), <1>1, <1>2, <1>3, <1>4, <1>5, row \in PodRow

\* Every handler and the clock keep each row and call in its range.
LEMMA TypeStep == IInv /\ [Next]_vars => TypeOK'
<1> SUFFICES ASSUME IInv, [Next]_vars PROVE TypeOK'
  OBVIOUS
<1>0. TypeOK
  BY DEF IInv
<1> USE <1>0, PodAssumption DEF TypeOK, Opt
<1>1. ASSUME NEW k \in Dispatchers, NEW c \in Opt(Clients), NEW s \in Opt(Shipments),
             NEW r \in Opt(Rates), NEW d \in Opt(Rates), OpenOrder(k, c, s, r, d)
      PROVE  TypeOK'
  BY <1>1 DEF OpenOrder, OrderCall
<1>2. ASSUME NEW k \in Dispatchers, RecheckOrder(k) PROVE TypeOK'
  BY <1>2 DEF RecheckOrder, OrderCall
<1>3. ASSUME NEW k \in Dispatchers, DropOrder(k) PROVE TypeOK'
  BY <1>3 DEF DropOrder, OrderCall, IdleOrder
<1>4. ASSUME NEW k \in Dispatchers, NEW p \in Pods, Mint(k, p) PROVE TypeOK'
  BY <1>4 DEF Mint, OrderCall, IdleOrder, PodRow
<1>5. ASSUME NEW u \in Uploads, NEW p \in Pods, CheckToken(u, p) PROVE TypeOK'
  BY <1>5 DEF CheckToken, UploadCall
<1>6. ASSUME NEW u \in Uploads, InsertDocument(u) PROVE TypeOK'
  BY <1>6 DEF InsertDocument, Advance, UploadCall
<1>7. ASSUME NEW u \in Uploads, MarkDelivered(u) PROVE TypeOK'
  <2> DEFINE p == upload[u].pod
             row == [pod[p] EXCEPT !.status = "delivered", !.doc = u, !.url = u]
  <2>1. p \in Pods
    BY <1>7 DEF IInv, UploadInv, MarkDelivered
  <2>2. row \in PodRow
    BY <2>1, RowEdit
  <2>3. pod' = [pod EXCEPT ![p] = row] /\ UNCHANGED <<docs, arrived, order>>
    BY <1>7 DEF MarkDelivered
  <2>4. upload' \in [Uploads -> UploadCall]
    BY <1>7 DEF MarkDelivered, Advance, AfterDelivered, UploadCall
  <2>5. QED
    BY <2>2, <2>3, <2>4
<1>8. ASSUME NEW u \in Uploads, LoseToken(u) PROVE TypeOK'
  BY <1>8 DEF LoseToken, Advance, UploadCall
<1>9. ASSUME NEW u \in Uploads, FlagShipment(u) PROVE TypeOK'
  <2>1. upload[u].pod \in Pods /\ pod[upload[u].pod].shipment \in Shipments
    BY <1>9 DEF IInv, UploadInv, FlagShipment, Advance, PodRow
  <2>2. QED
    BY <1>9, <2>1 DEF FlagShipment, Advance, UploadCall
<1>10. ASSUME NEW u \in Uploads, HandOff(u) PROVE TypeOK'
  BY <1>10 DEF HandOff, Advance, UploadCall
<1>11. ASSUME NEW u \in Uploads, FailUpload(u) PROVE TypeOK'
  BY <1>11 DEF FailUpload, UploadCall
<1>12. ASSUME NEW u \in Uploads, DeleteDocument(u) PROVE TypeOK'
  <2>1. \A p \in Pods : pod[p] \in PodRow /\ [pod[p] EXCEPT !.doc = None] \in PodRow
    BY RowEdit
  <2>2. QED
    BY <1>12, <2>1 DEF DeleteDocument
<1>13. ASSUME NEW p \in Pods, Expire(p) PROVE TypeOK'
  <2> DEFINE row == [pod[p] EXCEPT !.expired = TRUE]
  <2>1. row \in PodRow
    BY RowEdit
  <2>2. pod' = [pod EXCEPT ![p] = row] /\ UNCHANGED <<docs, arrived, upload, order>>
    BY <1>13 DEF Expire
  <2> HIDE DEF row
  <2>3. QED
    BY <2>1, <2>2
<1>14. CASE UNCHANGED vars
  BY <1>14 DEF vars
<1>15. QED
  BY <1>1, <1>2, <1>3, <1>4, <1>5, <1>6, <1>7, <1>8, <1>9, <1>10, <1>11, <1>12, <1>13, <1>14
  DEF Next, OrderStep, UploadStep

\* Every step keeps IInv: only MarkDelivered sets a photo, on a pending link,
\* and the upload it names has just left "documented".
LEMMA InvStep == IInv /\ [Next]_vars => IInv'
<1> SUFFICES ASSUME IInv, [Next]_vars PROVE IInv'
  OBVIOUS
<1>1. TypeOK /\ TypeOK'
  BY TypeStep DEF IInv
<1> DEFINE Rest == (\A p \in Pods : PodInv(p)) /\ (\A u \in Uploads : UploadInv(u))
                     /\ ArrivedHasProof
<1>2. Rest
  BY DEF IInv
<1>3. SUFFICES Rest'
  BY <1>1 DEF IInv
<1> USE <1>1, <1>2, PodAssumption DEF PodInv, UploadInv, ArrivedHasProof
<1>4. ASSUME UNCHANGED <<pod, docs, arrived, upload>> PROVE Rest'
  BY <1>4
<1>5. ASSUME NEW k \in Dispatchers, NEW p \in Pods, Mint(k, p) PROVE Rest'
  <2>1. /\ pod[p].status = "none" /\ pod'[p].status = "pending" /\ pod'[p].url = None
        /\ pod'[p].doc = None /\ UNCHANGED <<docs, arrived, upload>>
        /\ \A q \in Pods \ {p} : pod'[q] = pod[q]
    BY <1>5 DEF Mint, TypeOK
  <2>2. pod[p].url = None
    BY <2>1
  <2>3. QED
    BY <2>1, <2>2 DEF TypeOK
<1>6. ASSUME NEW u \in Uploads, NEW p \in Pods, CheckToken(u, p) PROVE Rest'
  <2>1. /\ upload[u].pc = "new" /\ upload'[u].pc = "checked" /\ upload'[u].pod = p
        /\ \A v \in Uploads \ {u} : upload'[v] = upload[v]
        /\ UNCHANGED <<pod, docs, arrived>>
    BY <1>6 DEF CheckToken, TypeOK
  <2>2. QED
    BY <2>1 DEF TypeOK, PodRow, Opt
<1>7. ASSUME NEW u \in Uploads, InsertDocument(u) PROVE Rest'
  <2>1. /\ upload[u].pc = "checked" /\ upload'[u].pc = "documented"
        /\ upload'[u].pod = upload[u].pod
        /\ \A v \in Uploads \ {u} : upload'[v] = upload[v]
        /\ docs \subseteq docs' /\ UNCHANGED <<pod, arrived>>
    BY <1>7 DEF InsertDocument, Advance, TypeOK, UploadCall
  <2>2. QED
    BY <2>1 DEF TypeOK, PodRow, Opt
<1>8. ASSUME NEW u \in Uploads, MarkDelivered(u) PROVE Rest'
  <2> DEFINE p == upload[u].pod
  <2>1. p \in Pods /\ pod[p].status = "pending" /\ u \in docs /\ upload[u].pc = "documented"
    BY <1>8 DEF MarkDelivered, Consumable, KeepsReference
  <2>2. /\ pod'[p].status = "delivered" /\ pod'[p].url = u /\ pod'[p].doc = u
        /\ pod'[p].shipment = pod[p].shipment /\ pod'[p].client = pod[p].client
        /\ \A q \in Pods \ {p} : pod'[q] = pod[q]
    BY <1>8, <2>1 DEF MarkDelivered, TypeOK, PodRow
  <2>3. /\ upload'[u].pod = p
        /\ upload'[u].pc \in {"flag", "bill", "done"}
        /\ upload'[u].pc = "flag" => pod[p].shipment # None
        /\ upload'[u].pc = "bill" => pod[p].client # None
        /\ \A v \in Uploads \ {u} : upload'[v] = upload[v]
    <3>1. upload' = [upload EXCEPT ![u].pc = AfterDelivered(p)]
      BY <1>8 DEF MarkDelivered, Advance
    <3>2. /\ upload'[u].pod = p /\ upload'[u].pc = AfterDelivered(p)
          /\ \A v \in Uploads \ {u} : upload'[v] = upload[v]
      BY <3>1 DEF TypeOK, UploadCall
    <3>3. QED
      BY <3>2 DEF AfterDelivered
  <2>4. UNCHANGED <<docs, arrived>>
    BY <1>8 DEF MarkDelivered
  <2>5. \A q \in Pods : pod[q].url # u
    BY <2>1
  <2>6. pod[p].url = None
    BY <2>1
  <2>7. (\A q \in Pods : PodInv(q))'
    BY <2>1, <2>2, <2>3, <2>4, <2>5 DEF TypeOK, PodRow, Opt
  <2>8. (\A v \in Uploads : UploadInv(v))'
    BY <2>1, <2>2, <2>3, <2>6
  <2>9. ArrivedHasProof'
    BY <2>1, <2>2, <2>4
  <2>10. QED
    BY <2>7, <2>8, <2>9
<1>9. ASSUME NEW u \in Uploads, FlagShipment(u) PROVE Rest'
  <2> DEFINE p == upload[u].pod
  <2>1. p \in Pods /\ pod[p].url = u /\ upload[u].pc = "flag"
    BY <1>9 DEF FlagShipment, Advance
  <2>2. /\ upload'[u].pod = p /\ upload'[u].pc \in {"bill", "done"}
        /\ upload'[u].pc = "bill" => pod[p].client # None
        /\ \A v \in Uploads \ {u} : upload'[v] = upload[v]
        /\ UNCHANGED <<pod, docs>>
    BY <1>9 DEF FlagShipment, Advance, TypeOK, UploadCall
  <2>3. arrived' \subseteq arrived \cup {pod[p].shipment} /\ pod[p].status = "delivered"
    BY <1>9, <2>1 DEF FlagShipment
  <2>4. QED
    BY <2>1, <2>2, <2>3 DEF TypeOK, PodRow, Opt
<1>10. ASSUME NEW u \in Uploads, LoseToken(u) \/ HandOff(u) \/ FailUpload(u) PROVE Rest'
  <2>1. /\ upload'[u].pod = upload[u].pod
        /\ \/ upload[u].pc = "documented" /\ upload'[u].pc = "refused"
           \/ upload[u].pc = "bill" /\ upload'[u].pc = "done"
           \/ upload[u].pc # "new" /\ upload'[u].pc = "failed"
        /\ \A v \in Uploads \ {u} : upload'[v] = upload[v]
        /\ UNCHANGED <<pod, docs, arrived>>
    BY <1>10 DEF LoseToken, HandOff, FailUpload, Advance, TypeOK, UploadCall
  <2>2. QED
    BY <2>1 DEF TypeOK, PodRow, Opt
<1>11. ASSUME NEW u \in Uploads, DeleteDocument(u) PROVE Rest'
  <2>1. /\ docs' = docs \ {u} /\ UNCHANGED <<arrived, upload>>
        /\ \A p \in Pods : /\ pod'[p].url = pod[p].url
                           /\ pod'[p].status = pod[p].status
                           /\ pod'[p].shipment = pod[p].shipment
                           /\ pod'[p].client = pod[p].client
                           /\ pod'[p].doc = IF pod[p].doc = u THEN None ELSE pod[p].doc
    BY <1>11 DEF DeleteDocument, TypeOK, PodRow
  <2>2. QED
    BY <2>1 DEF TypeOK, PodRow, Opt
<1>12. ASSUME NEW p \in Pods, Expire(p) PROVE Rest'
  <2>1. /\ UNCHANGED <<docs, arrived, upload>>
        /\ \A q \in Pods : /\ pod'[q].url = pod[q].url
                           /\ pod'[q].status = pod[q].status
                           /\ pod'[q].shipment = pod[q].shipment
                           /\ pod'[q].client = pod[q].client
                           /\ pod'[q].doc = pod[q].doc
    BY <1>12 DEF Expire, TypeOK, PodRow
  <2>2. QED
    BY <2>1 DEF TypeOK, PodRow, Opt
<1>13. QED
  BY ONLY <1>4, <1>5, <1>6, <1>7, <1>8, <1>9, <1>10, <1>11, <1>12, [Next]_vars
  DEF Next, OrderStep, UploadStep, OpenOrder, RecheckOrder, DropOrder, vars

-----------------------------------------------------------------------------
\* IInv holds initially.
LEMMA InvInit == Init => IInv
BY PodAssumption DEF Init, IInv, TypeOK, PodInv, UploadInv, ArrivedHasProof,
   PodRow, UploadCall, OrderCall, IdleOrder, Opt

\* In every reachable state IInv holds.
THEOREM Invariance == Spec => []IInv
BY InvInit, InvStep, PTL DEF Spec

\* Every row and every call in flight stays in its range (pod.service.ts).
THEOREM TypeCorrect == Spec => []TypeOK
<1>1. IInv => TypeOK
  BY DEF IInv
<1>2. QED
  BY <1>1, Invariance, PTL

\* However many uploads race on a link, and wherever they die, one at most gets
\* past the guarded UPDATE of markDelivered, and its photo is the one recorded.
THEOREM LinkUsedOnce == Spec => []SingleUse
<1>1. IInv => SingleUse
  BY PodAssumption DEF IInv, PodInv, UploadInv, SingleUse, Won
<1>2. QED
  BY <1>1, Invariance, PTL

\* A request never refers to a document that is gone or to another one's photo.
THEOREM ReferenceIntact == Spec => []ProofOnRecord
<1>1. IInv => ProofOnRecord
  BY DEF IInv, PodInv, ProofOnRecord
<1>2. QED
  BY <1>1, Invariance, PTL

\* attachPod flags a shipment as delivered only with a delivered request for it.
THEOREM ArrivalProven == Spec => []ArrivedHasProof
<1>1. IInv => ArrivedHasProof
  BY DEF IInv
<1>2. QED
  BY <1>1, Invariance, PTL

\* No statement of any handler alters a consumed link, but for the reference
\* that ON DELETE SET NULL clears.
THEOREM DeliveryFinal == Spec => DeliveredIsFinal
<1> DEFINE Kept == \A p \in Pods : pod[p].status = "delivered" =>
                     /\ [pod'[p] EXCEPT !.doc = None] = [pod[p] EXCEPT !.doc = None]
                     /\ pod'[p].doc \in {pod[p].doc, None}
<1>1. ASSUME TypeOK, TypeOK', [Next]_vars PROVE [Kept]_pod
  <2> SUFFICES ASSUME NEW p \in Pods, pod[p].status = "delivered", pod'[p] # pod[p]
               PROVE  /\ [pod'[p] EXCEPT !.doc = None] = [pod[p] EXCEPT !.doc = None]
                      /\ pod'[p].doc \in {pod[p].doc, None}
    OBVIOUS
  <2>1. \E u \in Uploads : DeleteDocument(u)
    BY <1>1 DEF Next, OrderStep, UploadStep, OpenOrder, RecheckOrder, DropOrder, Mint,
       CheckToken, InsertDocument, MarkDelivered, Consumable, LoseToken, FlagShipment,
       HandOff, FailUpload, Expire, Advance, vars, TypeOK
  <2>2. pod'[p] = [pod[p] EXCEPT !.doc = None]
    BY <2>1 DEF DeleteDocument
  <2>3. QED
    BY <1>1, <2>2 DEF TypeOK, PodRow
<1>2. QED
  BY <1>1, TypeCorrect, PTL DEF Spec, DeliveredIsFinal

=============================================================================
