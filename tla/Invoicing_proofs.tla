--------------------------- MODULE Invoicing_proofs ---------------------------
(***************************************************************************)
(* Proofs about invoices: for any number of clients, racing drafts and     *)
(* dashboard requests, invoice numbers are 1, 2, ..., n and no amount is   *)
(* posted twice.                                                           *)
(*                                                                         *)
(* NumbersGapless needs a bound on the numbers still in flight: a count    *)
(* read earlier is never above the present one, so the only free number a  *)
(* draft can hold is the next one.  PostedOnce is inductive with the       *)
(* types: an adjustment that is "due" names the request that owes it.      *)
(***************************************************************************)
EXTENDS Invoicing, FiniteSetTheorems, TLAPS

\* A call has inserted its row exactly when it is done; a number it holds was
\* next when it was read, so it is not above the next one now.
DraftInv(d) ==
  /\ draft[d].pc = "done" <=> d \in Issued
  /\ draft[d].pc # "new" => draft[d].client \in Clients
  /\ draft[d].pc = "numbered" => draft[d].number \in 1 .. Cardinality(Issued) + 1
  /\ d \in Issued => invoice[d].client \in Clients

\* A request between its two statements is about an invoice.
DeskInv(k) ==
  /\ desk[k].pc = "idle" => desk[k].invoice = None
  /\ desk[k].pc # "idle" => desk[k].invoice \in Issued

\* What the drafts keep, and what the dashboard requests keep.
BookInv ==
  /\ IsFiniteSet(Issued)
  /\ \A d \in Drafts : DraftInv(d)
  /\ NumbersGapless

PostingInv ==
  /\ \A k \in Desks : DeskInv(k)
  /\ PostedOnce

IInv == TypeOK /\ BookInv /\ PostingInv

-----------------------------------------------------------------------------
\* Gross amounts are natural numbers of cents.
LEMMA VatType == ASSUME NEW net \in Nat, NEW rate \in Nat
                 PROVE  VatAmount(net, rate) \in Nat
<1>1. net * rate \in Nat
  OBVIOUS
<1> DEFINE m == net * rate + 500
<1>2. m \in Nat /\ VatAmount(net, rate) = m \div 1000
  BY <1>1 DEF VatAmount
<1> HIDE DEF m
<1>3. m \div 1000 \in Nat
  BY <1>2
<1>4. QED
  BY <1>2, <1>3

\* The edits a statement makes of a row or a call leave it in its range.
LEMMA CallEdit ==
  ASSUME NEW call \in DraftCall, NEW pc \in {"done", "clashed", "failed"}
  PROVE  [call EXCEPT !.pc = pc] \in DraftCall
BY DEF DraftCall

\* A draft takes the number it counted.
LEMMA NumberEdit ==
  ASSUME NEW call \in DraftCall, NEW n \in Nat
  PROVE  [call EXCEPT !.pc = "numbered", !.number = n] \in DraftCall
BY DEF DraftCall

\* transition() changes the status of an invoice to another status.
LEMMA StatusEdit ==
  ASSUME NEW row \in InvoiceRow, NEW status \in {"approved", "paid"}
  PROVE  [row EXCEPT !.status = status] \in InvoiceRow
BY DEF InvoiceRow

\* adjustBalance() changes the balance of a client by an integer.
LEMMA BalanceEdit ==
  ASSUME NEW row \in ClientRow, NEW delta \in Int
  PROVE  [row EXCEPT !.balance = row.balance + delta] \in ClientRow
BY DEF ClientRow

\* A posting's entry changes to another outcome.
LEMMA FateEdit ==
  ASSUME NEW post \in [credit : Fate, debit : Fate], NEW fate \in Fate
  PROVE  /\ [post EXCEPT !.credit = fate] \in [credit : Fate, debit : Fate]
         /\ [post EXCEPT !.debit = fate] \in [credit : Fate, debit : Fate]
OBVIOUS

\* Every statement keeps each row and call in its range.
LEMMA TypeStep == IInv /\ [Next]_vars => TypeOK'
<1> SUFFICES ASSUME IInv, [Next]_vars PROVE TypeOK'
  OBVIOUS
<1>0. TypeOK
  BY DEF IInv
<1> USE <1>0, InvoicingAssumption DEF TypeOK, Opt
<1>1. ASSUME NEW c \in Clients, NEW l \in Limits, NEW r \in Opt(Rates), NEW v \in VatRates,
             CreateClient(c, l, r, v)
      PROVE  TypeOK'
  BY <1>1 DEF CreateClient, ClientRow
<1>2. ASSUME NEW c \in Clients, NEW l \in Limits, NEW r \in Opt(Rates), NEW v \in VatRates,
             UpdateClient(c, l, r, v)
      PROVE  TypeOK'
  BY <1>2 DEF UpdateClient, ClientRow
<1>3. ASSUME NEW d \in Drafts, NEW key \in Keys, NEW c \in Clients, NEW a \in Opt(Rates),
             DraftPrice(d, key, c, a)
      PROVE  TypeOK'
  <2>1. NetOf(a, c) \in Nat /\ client[c].vat \in Nat
    BY DEF NetOf, ClientRow
  <2>2. QED
    BY <1>3, <2>1 DEF DraftPrice, DraftCall
<1>4. ASSUME NEW d \in Drafts, DraftNumber(d) PROVE TypeOK'
  <2>1. Cardinality(Issued) + 1 \in Nat
    BY FS_CardinalityType DEF IInv, BookInv
  <2>2. [draft[d] EXCEPT !.pc = "numbered", !.number = Cardinality(Issued) + 1] \in DraftCall
    BY <2>1, NumberEdit
  <2>3. QED
    BY <1>4, <2>2 DEF DraftNumber
<1>5. ASSUME NEW d \in Drafts, DraftInsert(d) PROVE TypeOK'
  <2>1. draft[d].net + VatAmount(draft[d].net, draft[d].vat) \in Nat
    <3>1. draft[d].net \in Nat /\ draft[d].vat \in Nat
      BY DEF DraftCall
    <3>2. VatAmount(draft[d].net, draft[d].vat) \in Nat
      BY <3>1, VatType
    <3>3. QED
      BY <3>1, <3>2
  <2>2. [draft[d] EXCEPT !.pc = "done"] \in DraftCall
    BY CallEdit
  <2>3. [status |-> "draft", key |-> draft[d].key, client |-> draft[d].client,
         number |-> draft[d].number, net |-> draft[d].net,
         total |-> draft[d].net + VatAmount(draft[d].net, draft[d].vat)] \in InvoiceRow
    BY <2>1 DEF DraftCall, InvoiceRow
  <2>4. QED
    BY <1>5, <2>2, <2>3 DEF DraftInsert
<1>6. ASSUME NEW d \in Drafts, DraftClash(d) \/ DraftFail(d) PROVE TypeOK'
  <2>1. PICK pc \in {"clashed", "failed"} :
          draft' = [draft EXCEPT ![d] = [draft[d] EXCEPT !.pc = pc]]
    BY <1>6 DEF DraftClash, DraftFail
  <2>2. draft' \in [Drafts -> DraftCall]
    BY <2>1, CallEdit
  <2>3. QED
    BY <1>6, <2>2 DEF DraftClash, DraftFail
<1>7. ASSUME NEW k \in Desks, NEW d \in Drafts, Approve(k, d) \/ Pay(k, d) PROVE TypeOK'
  <2> PICK to \in {"approved", "paid"}, side \in {"credit", "debit"} :
        /\ invoice' = [invoice EXCEPT ![d].status = to]
        /\ desk' = [desk EXCEPT ![k] = [pc |-> side, invoice |-> d]]
        /\ UNCHANGED <<client, draft>>
    BY <1>7 DEF Approve, Pay, Transition
  <2>1. invoice' \in [Drafts -> InvoiceRow]
    BY StatusEdit
  <2>2. desk' \in [Desks -> DeskCall]
    BY DEF DeskCall
  <2>3. posting' \in [Drafts -> [credit : Fate, debit : Fate]]
    <3>1. "due" \in Fate
      BY DEF Fate
    <3>2. posting[d] \in [credit : Fate, debit : Fate]
      OBVIOUS
    <3>3. PICK post \in [credit : Fate, debit : Fate] : posting' = [posting EXCEPT ![d] = post]
      BY <1>7, <3>1, <3>2, FateEdit DEF Approve, Pay
    <3>4. QED
      BY <3>3
  <2>4. QED
    BY <2>1, <2>2, <2>3
<1>8. ASSUME NEW k \in Desks, Post(k) \/ DeskFail(k) PROVE TypeOK'
  <2>1. desk' \in [Desks -> DeskCall] /\ posting' \in [Drafts -> [credit : Fate, debit : Fate]]
        /\ UNCHANGED <<invoice, draft>>
    <3> PICK fate \in {"posted", "lost"} : Settle(k, fate)
      BY <1>8 DEF Post, DeskFail
    <3>1. fate \in Fate
      BY DEF Fate
    <3>2. desk' \in [Desks -> DeskCall]
      BY DEF Settle, IdleDesk, DeskCall
    <3>3. posting' \in [Drafts -> [credit : Fate, debit : Fate]]
      BY <3>1, FateEdit DEF Settle
    <3>4. QED
      BY <3>2, <3>3 DEF Settle
  <2>2. CASE Post(k)
    <3>1. desk[k].invoice \in Drafts /\ Delta(k) \in Int
      BY <2>2 DEF Post, IInv, PostingInv, DeskInv, Issued, Delta, InvoiceRow
    <3>2. client' \in [Clients -> ClientRow]
      BY <2>2, <3>1, BalanceEdit DEF Post
    <3>3. QED
      BY <2>1, <3>2
  <2>3. CASE DeskFail(k)
    BY <2>1, <2>3 DEF DeskFail
  <2>4. QED
    BY <1>8, <2>2, <2>3
<1>9. CASE UNCHANGED vars
  BY <1>9 DEF vars
<1>10. QED
  BY ONLY <1>1, <1>2, <1>3, <1>4, <1>5, <1>6, <1>7, <1>8, <1>9, [Next]_vars
  DEF Next, ClientStep, DraftStep, DeskStep, Opt

-----------------------------------------------------------------------------
\* A step that leaves the drafts, the numbers and the clients billed alone
\* keeps the book.
LEMMA BookKept ==
  ASSUME BookInv, UNCHANGED <<draft, Issued>>,
         \A d \in Drafts : /\ invoice'[d].number = invoice[d].number
                           /\ invoice'[d].client = invoice[d].client
  PROVE  BookInv'
<1>1. IsFiniteSet(Issued)' /\ (\A d \in Drafts : DraftInv(d))'
  BY DEF BookInv, DraftInv
<1>2. NumbersGapless'
  <2>1. \A d \in Issued : invoice'[d].number = invoice[d].number
    BY DEF Issued
  <2>2. {invoice'[d].number : d \in Issued} = {invoice[d].number : d \in Issued}
    BY <2>1
  <2>3. QED
    BY <2>2 DEF BookInv, NumbersGapless
<1>3. QED
  BY <1>1, <1>2 DEF BookInv

\* The INSERT adds the one number that is next: the number is at most the next
\* one, and the unique index excludes those given out.
LEMMA InsertStep ==
  ASSUME IInv, NEW d \in Drafts, DraftInsert(d)
  PROVE  BookInv'
<1> DEFINE n == Cardinality(Issued)
<1> USE DEF IInv, BookInv
<1>1. /\ draft[d].pc = "numbered" /\ d \notin Issued /\ d \in Drafts
      /\ draft[d].number \in 1 .. n + 1 /\ draft[d].client \in Clients
      /\ Issued \subseteq Drafts /\ n \in Nat
  BY FS_CardinalityType DEF DraftInsert, DraftInv, Issued
<1>2. draft[d].number = n + 1
  <2>1. draft[d].number \notin {invoice[e].number : e \in Issued}
    BY DEF DraftInsert, NumberTaken
  <2>2. draft[d].number \notin 1 .. n
    BY <2>1 DEF NumbersGapless
  <2>3. QED
    BY <1>1, <2>2
<1>3. /\ invoice'[d].status = "draft" /\ invoice'[d].number = n + 1
      /\ invoice'[d].client = draft[d].client
      /\ \A e \in Drafts \ {d} : invoice'[e] = invoice[e]
  BY <1>2 DEF DraftInsert, TypeOK
<1>4. /\ draft'[d].pc = "done" /\ draft'[d].client = draft[d].client
      /\ \A e \in Drafts \ {d} : draft'[e] = draft[e]
  BY DEF DraftInsert, TypeOK, DraftCall
<1>5. Issued' = Issued \cup {d}
  BY <1>1, <1>3 DEF Issued
<1>6. IsFiniteSet(Issued') /\ Cardinality(Issued') = n + 1
  BY <1>1, <1>5, FS_AddElement
<1>7. (\A e \in Drafts : DraftInv(e))'
  <2> SUFFICES ASSUME NEW e \in Drafts PROVE DraftInv(e)'
    OBVIOUS
  <2>1. CASE e = d
    BY <1>1, <1>3, <1>4, <1>5, <2>1 DEF DraftInv
  <2>2. CASE e # d
    <3>1. draft'[e] = draft[e] /\ invoice'[e] = invoice[e]
      BY <1>3, <1>4, <2>2
    <3>2. (e \in Issued') <=> (e \in Issued)
      BY <1>5, <2>2
    <3>3. draft[e].number \in 1 .. n + 1 => draft[e].number \in 1 .. Cardinality(Issued') + 1
      BY <1>1, <1>6
    <3>4. QED
      BY <3>1, <3>2, <3>3 DEF DraftInv
  <2>3. QED
    BY <2>1, <2>2
<1>8. NumbersGapless'
  <2>1. {invoice'[e].number : e \in Issued \cup {d}} = {invoice[e].number : e \in Issued} \cup {n + 1}
    BY <1>1, <1>3
  <2>2. {invoice[e].number : e \in Issued} = 1 .. n
    BY DEF NumbersGapless
  <2>3. (1 .. n) \cup {n + 1} = 1 .. n + 1
    BY <1>1
  <2>4. QED
    BY <1>5, <1>6, <2>1, <2>2, <2>3 DEF NumbersGapless
<1>9. QED
  BY <1>6, <1>7, <1>8

\* Every step keeps the book.
LEMMA BookStep == IInv /\ [Next]_vars => BookInv'
<1> SUFFICES ASSUME IInv, [Next]_vars PROVE BookInv'
  OBVIOUS
<1>0. TypeOK /\ BookInv /\ PostingInv /\ Issued \subseteq Drafts
  BY DEF IInv, Issued
<1>1. ASSUME UNCHANGED <<invoice, draft>> PROVE BookInv'
  BY <1>0, <1>1, BookKept DEF Issued
<1>2. ASSUME NEW d \in Drafts, NEW key \in Keys, NEW c \in Clients, NEW a \in Opt(Rates),
             DraftPrice(d, key, c, a)
      PROVE  BookInv'
  <2>1. /\ draft[d].pc = "new" /\ draft'[d].pc = "priced" /\ draft'[d].client \in Clients
        /\ \A e \in Drafts \ {d} : draft'[e] = draft[e]
        /\ UNCHANGED <<invoice, Issued>>
    BY <1>0, <1>2 DEF DraftPrice, TypeOK, Issued
  <2>2. QED
    BY <1>0, <2>1 DEF BookInv, DraftInv, NumbersGapless
<1>3. ASSUME NEW d \in Drafts, DraftNumber(d) PROVE BookInv'
  <2>1. /\ draft[d].pc = "priced" /\ draft'[d].pc = "numbered"
        /\ draft'[d].client = draft[d].client
        /\ draft'[d].number = Cardinality(Issued) + 1
        /\ \A e \in Drafts \ {d} : draft'[e] = draft[e]
        /\ UNCHANGED <<invoice, Issued>>
    BY <1>0, <1>3 DEF DraftNumber, TypeOK, DraftCall, Issued
  <2>2. Cardinality(Issued) + 1 \in 1 .. Cardinality(Issued) + 1
    BY <1>0, FS_CardinalityType DEF BookInv
  <2>3. QED
    BY <1>0, <2>1, <2>2 DEF BookInv, DraftInv, NumbersGapless
<1>4. ASSUME NEW d \in Drafts, DraftClash(d) \/ DraftFail(d) PROVE BookInv'
  <2>1. /\ draft[d].pc \in {"priced", "numbered"} /\ draft'[d].pc \in {"clashed", "failed"}
        /\ draft'[d].client = draft[d].client /\ draft'[d].number = draft[d].number
        /\ \A e \in Drafts \ {d} : draft'[e] = draft[e]
        /\ UNCHANGED <<invoice, Issued>>
    BY <1>0, <1>4 DEF DraftClash, DraftFail, TypeOK, DraftCall, Issued
  <2>2. d \notin Issued
    BY <1>0, <2>1 DEF BookInv, DraftInv
  <2>3. QED
    BY <1>0, <2>1, <2>2 DEF BookInv, DraftInv, NumbersGapless
<1>5. ASSUME NEW k \in Desks, NEW d \in Drafts, Approve(k, d) \/ Pay(k, d) PROVE BookInv'
  <2>1. /\ \A e \in Drafts : /\ invoice'[e].number = invoice[e].number
                             /\ invoice'[e].client = invoice[e].client
                             /\ invoice'[e].status # "none" <=> invoice[e].status # "none"
        /\ UNCHANGED draft
    BY SMTT(20), <1>0, <1>5 DEF Approve, Pay, Transition, HasStatus, TypeOK, InvoiceRow
  <2>2. Issued' = Issued
    BY <2>1 DEF Issued
  <2>3. QED
    BY <1>0, <2>1, <2>2, BookKept
<1>6. QED
  BY ONLY <1>1, <1>2, <1>3, <1>4, <1>5, InsertStep, IInv, [Next]_vars
  DEF Next, ClientStep, CreateClient, UpdateClient, DraftStep, DeskStep, Post, DeskFail,
      Settle, vars

\* Every step keeps the hand-over of an adjustment from the status to the one
\* request that will post it.
LEMMA PostingStep == IInv /\ [Next]_vars => PostingInv'
<1> SUFFICES ASSUME IInv, [Next]_vars PROVE PostingInv'
  OBVIOUS
<1>0. TypeOK /\ BookInv /\ PostingInv
  BY DEF IInv
<1>1. ASSUME UNCHANGED <<desk, posting>>, \A d \in Drafts : invoice'[d].status = invoice[d].status
      PROVE  PostingInv'
  BY <1>0, <1>1 DEF PostingInv, DeskInv, PostedOnce, Issued
<1>2. ASSUME NEW d \in Drafts, DraftInsert(d) PROVE PostingInv'
  <2>1. /\ d \notin Issued /\ invoice'[d].status = "draft"
        /\ \A e \in Drafts \ {d} : invoice'[e] = invoice[e]
        /\ UNCHANGED <<desk, posting>>
    BY <1>0, <1>2 DEF DraftInsert, BookInv, DraftInv, TypeOK
  <2>2. QED
    BY <1>0, <2>1 DEF PostingInv, DeskInv, PostedOnce, Issued
<1>3. ASSUME NEW k \in Desks, NEW d \in Drafts, Approve(k, d) PROVE PostingInv'
  <2>1. /\ desk[k].pc = "idle" /\ invoice[d].status = "draft"
        /\ desk' = [desk EXCEPT ![k] = [pc |-> "credit", invoice |-> d]]
        /\ invoice'[d].status = "approved"
        /\ posting'[d].credit = "due" /\ posting'[d].debit = posting[d].debit
        /\ \A e \in Drafts \ {d} : invoice'[e] = invoice[e] /\ posting'[e] = posting[e]
    BY <1>0, <1>3 DEF Approve, Transition, HasStatus, TypeOK, InvoiceRow
  <2>2. posting[d].credit = "no" /\ posting[d].debit = "no"
    BY <1>0, <2>1 DEF PostingInv, PostedOnce
  <2>3. \A j \in Desks : desk[j].invoice = d => desk[j].pc \notin {"credit", "debit"}
    BY <1>0, <2>2 DEF PostingInv, PostedOnce
  <2>4. (\A j \in Desks : DeskInv(j))'
    BY SMTT(20), <1>0, <2>1, InvoicingAssumption DEF PostingInv, DeskInv, Issued, TypeOK
  <2>5. \A j \in Desks : desk[j].invoice # d
    BY <1>0, <2>3, InvoicingAssumption DEF PostingInv, DeskInv, TypeOK, DeskCall
  <2>6. \A j \in Desks : desk'[j].invoice = d => j = k
    BY <1>0, <2>1, <2>5 DEF TypeOK
  <2>7. PostedOnce'
    BY <1>0, <2>1, <2>2, <2>6 DEF PostingInv, PostedOnce, TypeOK
  <2>8. QED
    BY <2>4, <2>7 DEF PostingInv
<1>4. ASSUME NEW k \in Desks, NEW d \in Drafts, Pay(k, d) PROVE PostingInv'
  <2>1. /\ desk[k].pc = "idle" /\ invoice[d].status = "approved"
        /\ desk' = [desk EXCEPT ![k] = [pc |-> "debit", invoice |-> d]]
        /\ invoice'[d].status = "paid"
        /\ posting'[d].debit = "due" /\ posting'[d].credit = posting[d].credit
        /\ \A e \in Drafts \ {d} : invoice'[e] = invoice[e] /\ posting'[e] = posting[e]
    BY <1>0, <1>4 DEF Pay, Transition, HasStatus, TypeOK, InvoiceRow
  <2>2. posting[d].credit # "no" /\ posting[d].debit = "no"
    BY <1>0, <2>1 DEF PostingInv, PostedOnce
  <2>3. \A j \in Desks : desk[j].invoice = d => desk[j].pc # "debit"
    BY <1>0, <2>2 DEF PostingInv, PostedOnce
  <2>4. (\A j \in Desks : DeskInv(j))'
    BY SMTT(20), <1>0, <2>1, InvoicingAssumption DEF PostingInv, DeskInv, Issued, TypeOK
  <2>5. \A j \in Desks : desk'[j].invoice = d /\ desk'[j].pc # "credit" => j = k
    BY <1>0, <2>1, <2>3, InvoicingAssumption DEF PostingInv, DeskInv, TypeOK, DeskCall
  <2>6. ASSUME NEW e \in Drafts
        PROVE  /\ posting'[e].credit # "no" <=> invoice'[e].status \in {"approved", "paid"}
               /\ posting'[e].debit # "no" <=> invoice'[e].status = "paid"
    BY <1>0, <2>1, <2>2 DEF PostingInv, PostedOnce
  <2>7. ASSUME NEW j \in Desks, NEW e \in Drafts, desk'[j].invoice = e
        PROVE  /\ desk'[j].pc = "credit" => posting'[e].credit = "due"
               /\ desk'[j].pc = "debit" => posting'[e].debit = "due"
    BY <1>0, <2>1, <2>3, <2>7 DEF PostingInv, PostedOnce, TypeOK
  <2>8. ASSUME NEW i \in Desks, NEW j \in Desks, desk'[i] = desk'[j], desk'[j].invoice \in Drafts
        PROVE  i = j
    <3>1. CASE i = k \/ j = k
      BY <1>0, <2>1, <2>5, <2>8, <3>1 DEF TypeOK
    <3>2. CASE i # k /\ j # k
      BY <1>0, <2>1, <2>8, <3>2 DEF PostingInv, PostedOnce, TypeOK
    <3>3. QED
      BY <3>1, <3>2
  <2>9. QED
    BY <2>4, <2>6, <2>7, <2>8 DEF PostingInv, PostedOnce
<1>5. ASSUME NEW k \in Desks, Post(k) \/ DeskFail(k) PROVE PostingInv'
  <2> DEFINE d == desk[k].invoice
  <2> PICK fate \in {"posted", "lost"} : Settle(k, fate)
    BY <1>5 DEF Post, DeskFail
  <2>1. /\ desk[k].pc \in {"credit", "debit"} /\ d \in Issued /\ d \in Drafts
        /\ desk' = [desk EXCEPT ![k] = IdleDesk]
        /\ UNCHANGED invoice
    BY <1>0, <1>5 DEF Post, DeskFail, Settle, PostingInv, DeskInv, TypeOK, DeskCall, Issued
  <2>2. /\ \A e \in Drafts \ {d} : posting'[e] = posting[e]
        /\ posting'[d].credit = IF desk[k].pc = "credit" THEN fate ELSE posting[d].credit
        /\ posting'[d].debit = IF desk[k].pc = "credit" THEN posting[d].debit ELSE fate
    BY <1>0, <2>1 DEF Settle, TypeOK
  <2>3. IF desk[k].pc = "credit" THEN posting[d].credit = "due" ELSE posting[d].debit = "due"
    BY <1>0, <2>1 DEF PostingInv, PostedOnce
  <2>4. \A j \in Desks \ {k} : desk[j].invoice = d => desk[j].pc # desk[k].pc
    <3> SUFFICES ASSUME NEW j \in Desks \ {k}, desk[j].invoice = d, desk[j].pc = desk[k].pc
                 PROVE  FALSE
      OBVIOUS
    <3>1. desk[j] = desk[k]
      BY <1>0 DEF TypeOK, DeskCall
    <3>2. QED
      BY <1>0, <2>1, <3>1 DEF PostingInv, PostedOnce
  <2>5. (\A j \in Desks : DeskInv(j))'
    BY <1>0, <2>1 DEF PostingInv, DeskInv, Issued, TypeOK, IdleDesk
  <2>6. ASSUME NEW e \in Drafts
        PROVE  /\ posting'[e].credit # "no" <=> invoice'[e].status \in {"approved", "paid"}
               /\ posting'[e].debit # "no" <=> invoice'[e].status = "paid"
    BY <1>0, <2>1, <2>2, <2>3 DEF PostingInv, PostedOnce
  <2>7. ASSUME NEW j \in Desks, NEW e \in Drafts, desk'[j].invoice = e
        PROVE  /\ desk'[j].pc = "credit" => posting'[e].credit = "due"
               /\ desk'[j].pc = "debit" => posting'[e].debit = "due"
    <3>1. j # k /\ desk'[j] = desk[j]
      BY <1>0, <2>1, <2>7, InvoicingAssumption DEF TypeOK, IdleDesk
    <3>2. QED
      BY <1>0, <2>1, <2>2, <2>4, <2>7, <3>1 DEF PostingInv, PostedOnce
  <2>8. ASSUME NEW i \in Desks, NEW j \in Desks, desk'[i] = desk'[j], desk'[j].invoice \in Drafts
        PROVE  i = j
    <3>1. i # k /\ j # k
      BY <1>0, <2>1, <2>8, InvoicingAssumption DEF TypeOK, IdleDesk
    <3>2. QED
      BY <1>0, <2>1, <2>8, <3>1 DEF PostingInv, PostedOnce, TypeOK
  <2>9. QED
    BY <2>5, <2>6, <2>7, <2>8 DEF PostingInv, PostedOnce
<1>6. QED
  BY ONLY <1>1, <1>2, <1>3, <1>4, <1>5, [Next]_vars
  DEF Next, ClientStep, CreateClient, UpdateClient, DraftStep, DeskStep, DraftPrice,
      DraftNumber, DraftClash, DraftFail, vars

-----------------------------------------------------------------------------
\* Every step keeps IInv.
LEMMA InvStep == IInv /\ [Next]_vars => IInv'
BY TypeStep, BookStep, PostingStep DEF IInv

\* IInv holds initially.
LEMMA InvInit == Init => IInv
<1> SUFFICES ASSUME Init PROVE IInv
  OBVIOUS
<1>1. Issued = {}
  BY DEF Init, Issued
<1>2. IsFiniteSet(Issued) /\ Cardinality(Issued) = 0
  BY <1>1, FS_EmptySet
<1>3. TypeOK
  BY DEF Init, TypeOK, ClientRow, InvoiceRow, DraftCall, DeskCall, IdleDesk, Fate, Opt
<1>4. NumbersGapless
  BY <1>1, <1>2 DEF NumbersGapless
<1>5. BookInv
  BY <1>1, <1>2, <1>4 DEF Init, BookInv, DraftInv
<1>6. PostingInv
  BY InvoicingAssumption DEF Init, PostingInv, DeskInv, PostedOnce, IdleDesk
<1>7. QED
  BY <1>3, <1>5, <1>6 DEF IInv

\* In every reachable state IInv holds.
THEOREM Invariance == Spec => []IInv
BY InvInit, InvStep, PTL DEF Spec

\* Every row and every call in flight stays in its range (invoicing.service.ts).
THEOREM TypeCorrect == Spec => []TypeOK
<1>1. IInv => TypeOK
  BY DEF IInv
<1>2. QED
  BY <1>1, Invariance, PTL

\* However many drafts race between nextNumber and createInvoice, the invoices
\* of a company carry the numbers 1, 2, ..., n, each once.
THEOREM Gapless == Spec => []NumbersGapless
<1>1. IInv => NumbersGapless
  BY DEF IInv, BookInv
<1>2. QED
  BY <1>1, Invariance, PTL

\* However many clicks on Approve and Pay race, the status hands each balance
\* adjustment to one request, once.
THEOREM AdjustedOnce == Spec => []PostedOnce
<1>1. IInv => PostedOnce
  BY DEF IInv, PostingInv
<1>2. QED
  BY <1>1, Invariance, PTL

=============================================================================
