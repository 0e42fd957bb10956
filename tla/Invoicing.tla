------------------------------ MODULE Invoicing ------------------------------
(***************************************************************************)
(* Clients, invoices and the credit guardrail of one company:              *)
(* domains/billing/invoicing.service.ts over billing.repository.ts.        *)
(*                                                                         *)
(* autoDraftInvoice reads the client, counts the invoices for the next     *)
(* number and inserts the draft, in three statements; approving and paying *)
(* an invoice change its status in one statement and the client's balance  *)
(* in a second.  Money is in cents and VAT rates are per mille, within one *)
(* calendar year (invoice numbers restart with the year).                  *)
(***************************************************************************)
EXTENDS Integers, FiniteSets, FiniteSetsExt

CONSTANTS
  Clients,       \* ids of clients rows
  Drafts,        \* autoDraftInvoice calls; an invoices row is named by its call
  Desks,         \* approve and pay requests that may be in flight together
  Keys,          \* pod_request_id of an invoice
  Rates,         \* amounts a rate may take
  Limits,        \* amounts a credit limit may take
  VatRates,      \* VAT rates the Smart-VAT matrix may yield for a client
  FallbackRate,  \* DEFAULT_RATE_EUR
  CanFail,       \* whether a request may die between two statements
  None           \* SQL NULL

ASSUME InvoicingAssumption ==
  /\ Rates \subseteq Nat
  /\ Limits \subseteq Nat
  /\ VatRates \subseteq Nat
  /\ FallbackRate \in Nat
  /\ CanFail \in BOOLEAN
  /\ None \notin Nat \cup Clients \cup Drafts \cup Keys

VARIABLES
  client,    \* client[c]: the clients row
  invoice,   \* invoice[d]: the invoices row inserted by call d
  draft,     \* draft[d]: progress of one autoDraftInvoice call
  desk,      \* desk[k]: progress of one approveInvoice or markPaid call
  posting    \* history: what became of the two balance updates of an invoice

vars == <<client, invoice, draft, desk, posting>>

Opt(S) == S \cup {None}

ClientRow == [live    : BOOLEAN,        \* the row exists
              limit   : Nat,            \* credit_limit
              rate    : Opt(Rates),     \* default_rate_eur
              vat     : Nat,            \* what evaluateVat says of country and VAT id
              balance : Int]            \* outstanding_balance

InvoiceRow == [status : {"none", "draft", "approved", "paid"},
               key    : Opt(Keys),
               client : Opt(Clients),
               number : Nat,
               net    : Nat,
               total  : Nat]

DraftCall == [pc     : {"new", "priced", "numbered", "done", "clashed", "failed"},
              key    : Opt(Keys),
              client : Opt(Clients),
              net    : Nat,
              vat    : Nat,
              number : Nat]

DeskCall == [pc      : {"idle", "credit", "debit"},
             invoice : Opt(Drafts)]

\* A balance update is not due yet, in flight, committed, or lost for good.
Fate == {"no", "due", "posted", "lost"}

IdleDesk == [pc |-> "idle", invoice |-> None]

\* Every field of every row and call is in its range.
TypeOK ==
  /\ client \in [Clients -> ClientRow]
  /\ invoice \in [Drafts -> InvoiceRow]
  /\ draft \in [Drafts -> DraftCall]
  /\ desk \in [Desks -> DeskCall]
  /\ posting \in [Drafts -> [credit : Fate, debit : Fate]]

Init ==
  /\ client = [c \in Clients |-> [live |-> FALSE, limit |-> 0, rate |-> None,
                                  vat |-> 0, balance |-> 0]]
  /\ invoice = [d \in Drafts |-> [status |-> "none", key |-> None, client |-> None,
                                  number |-> 0, net |-> 0, total |-> 0]]
  /\ draft = [d \in Drafts |-> [pc |-> "new", key |-> None, client |-> None,
                                net |-> 0, vat |-> 0, number |-> 0]]
  /\ desk = [k \in Desks |-> IdleDesk]
  /\ posting = [d \in Drafts |-> [credit |-> "no", debit |-> "no"]]

Issued == {d \in Drafts : invoice[d].status # "none"}

-----------------------------------------------------------------------------
(* Clients                                                                 *)

\* createClient: the balance starts at the column's default, zero.
CreateClient(c, l, r, v) ==
  /\ ~client[c].live
  /\ client' = [client EXCEPT ![c] =
       [live |-> TRUE, limit |-> l, rate |-> r, vat |-> v, balance |-> 0]]
  /\ UNCHANGED <<invoice, draft, desk, posting>>

\* updateClient: one UPDATE of any of the columns; never of the balance.
UpdateClient(c, l, r, v) ==
  /\ client[c].live
  /\ client' = [client EXCEPT ![c] = [@ EXCEPT !.limit = l, !.rate = r, !.vat = v]]
  /\ UNCHANGED <<invoice, draft, desk, posting>>

\* assertCreditOk: the guardrail's verdict on a load worth amount.
CreditOk(c, amount) ==
  /\ client[c].live
  /\ client[c].balance + amount <= client[c].limit

-----------------------------------------------------------------------------
(* autoDraftInvoice                                                        *)

\* Math.round(net * rate) / 100, half up to the cent.
VatAmount(net, perMille) == (net * perMille + 500) \div 1000

\* Mutant: the last fallback is forgotten.
NetOfNoFallback(agreed, c) == IF agreed # None THEN agreed ELSE client[c].rate

\* The agreed rate, else the client's default, else the fallback.
NetOf(agreed, c) ==
  IF agreed # None THEN agreed
  ELSE IF client[c].rate # None THEN client[c].rate ELSE FallbackRate

\* The call's first statement reads the client: the price and VAT are fixed.
DraftPrice(d, key, c, agreed) ==
  /\ draft[d].pc = "new"
  /\ client[c].live
  /\ draft' = [draft EXCEPT ![d] =
       [pc |-> "priced", key |-> key, client |-> c, net |-> NetOf(agreed, c),
        vat |-> client[c].vat, number |-> 0]]
  /\ UNCHANGED <<client, invoice, desk, posting>>

\* nextNumber: SELECT COUNT(*), plus one.
DraftNumber(d) ==
  /\ draft[d].pc = "priced"
  /\ draft' = [draft EXCEPT ![d] = [@ EXCEPT !.pc = "numbered",
                                            !.number = Cardinality(Issued) + 1]]
  /\ UNCHANGED <<client, invoice, desk, posting>>

\* Mutant: no unique index.
NumberFree(n) == FALSE

\* The unique index on (company_id, number) has the number already.
NumberTaken(n) == \E e \in Issued : invoice[e].number = n

\* createInvoice: the INSERT, when the unique index lets it through.
DraftInsert(d) ==
  /\ draft[d].pc = "numbered"
  /\ ~NumberTaken(draft[d].number)
  /\ invoice' = [invoice EXCEPT ![d] =
       [status |-> "draft", key |-> draft[d].key, client |-> draft[d].client,
        number |-> draft[d].number, net |-> draft[d].net,
        total |-> draft[d].net + VatAmount(draft[d].net, draft[d].vat)]]
  /\ draft' = [draft EXCEPT ![d].pc = "done"]
  /\ UNCHANGED <<client, desk, posting>>

\* The INSERT breaks the unique index: the error is logged and dropped.
DraftClash(d) ==
  /\ draft[d].pc = "numbered"
  /\ NumberTaken(draft[d].number)
  /\ draft' = [draft EXCEPT ![d].pc = "clashed"]
  /\ UNCHANGED <<client, invoice, desk, posting>>

\* Any other error of the call is swallowed too; a crash has the same effect.
DraftFail(d) ==
  /\ CanFail
  /\ draft[d].pc \in {"priced", "numbered"}
  /\ draft' = [draft EXCEPT ![d].pc = "failed"]
  /\ UNCHANGED <<client, invoice, desk, posting>>

-----------------------------------------------------------------------------
(* approveInvoice and markPaid                                             *)

\* Mutant: the UPDATE does not test the status.
AnyStatus(d, from) == d \in Issued

HasStatus(d, from) == invoice[d].status = from

\* transition(): one guarded UPDATE; when the status is another, 409.
Transition(k, d, from, to, side) ==
  /\ desk[k].pc = "idle"
  /\ HasStatus(d, from)
  /\ invoice' = [invoice EXCEPT ![d].status = to]
  /\ desk' = [desk EXCEPT ![k] = [pc |-> side, invoice |-> d]]
  /\ UNCHANGED <<client, draft>>

Approve(k, d) ==
  /\ Transition(k, d, "draft", "approved", "credit")
  /\ posting' = [posting EXCEPT ![d].credit = "due"]

Pay(k, d) ==
  /\ Transition(k, d, "approved", "paid", "debit")
  /\ posting' = [posting EXCEPT ![d].debit = "due"]

\* The fate of the balance update that request k has in flight.
Settle(k, fate) ==
  LET d == desk[k].invoice IN
  /\ posting' = [posting EXCEPT ![d] =
       IF desk[k].pc = "credit" THEN [@ EXCEPT !.credit = fate]
                                ELSE [@ EXCEPT !.debit = fate]]
  /\ desk' = [desk EXCEPT ![k] = IdleDesk]
  /\ UNCHANGED <<invoice, draft>>

\* Mutant: a payment releases the net amount.
DeltaNet(k) ==
  LET d == desk[k].invoice IN
  IF desk[k].pc = "credit" THEN invoice[d].total ELSE -invoice[d].net

\* The amount request k adds to its client's balance.
Delta(k) ==
  LET d == desk[k].invoice IN
  IF desk[k].pc = "credit" THEN invoice[d].total ELSE -invoice[d].total

\* adjustBalance: balance = balance + delta in one UPDATE.
Post(k) ==
  /\ desk[k].pc # "idle"
  /\ client' = [client EXCEPT ![invoice[desk[k].invoice].client].balance = @ + Delta(k)]
  /\ Settle(k, "posted")

\* The request dies before its second statement; a retry is answered 409.
DeskFail(k) ==
  /\ CanFail
  /\ desk[k].pc # "idle"
  /\ Settle(k, "lost")
  /\ UNCHANGED client

-----------------------------------------------------------------------------
ClientStep(c) ==
  \E l \in Limits, r \in Opt(Rates), v \in VatRates :
    CreateClient(c, l, r, v) \/ UpdateClient(c, l, r, v)

DraftStep(d) == DraftNumber(d) \/ DraftInsert(d) \/ DraftClash(d) \/ DraftFail(d)

DeskStep(k) ==
  \/ \E d \in Drafts : Approve(k, d) \/ Pay(k, d)
  \/ Post(k)
  \/ DeskFail(k)

Next ==
  \/ \E c \in Clients : ClientStep(c)
  \/ \E d \in Drafts, key \in Keys, c \in Clients, agreed \in Opt(Rates) :
       DraftPrice(d, key, c, agreed)
  \/ \E d \in Drafts : DraftStep(d)
  \/ \E k \in Desks : DeskStep(k)

Spec == Init /\ [][Next]_vars

-----------------------------------------------------------------------------
(* Properties                                                              *)

\* The invoices of a company are numbered 1, 2, ..., n whatever drafts race:
\* no number is used twice and none is skipped, although it is only a count
\* read in an earlier statement.
NumbersGapless ==
  {invoice[d].number : d \in Issued} = 1 .. Cardinality(Issued)

\* Every approval and every payment adjusts the balance at most once, and is
\* in the hands of exactly one request until it does: two clicks on Approve,
\* or Approve and Pay racing, never post an amount twice.
PostedOnce ==
  \A d \in Drafts :
    /\ posting[d].credit # "no" <=> invoice[d].status \in {"approved", "paid"}
    /\ posting[d].debit # "no" <=> invoice[d].status = "paid"
    /\ \A k \in Desks : desk[k].invoice = d =>
         /\ desk[k].pc = "credit" => posting[d].credit = "due"
         /\ desk[k].pc = "debit" => posting[d].debit = "due"
    /\ \A j, k \in Desks : desk[j] = desk[k] /\ desk[j].invoice = d => j = k

Sum(S, f(_)) == MapThenSumSet(f, S)
Of(c) == {d \in Issued : invoice[d].client = c}

\* A client's balance is the sum of the adjustments that were committed for
\* its own invoices, credits less debits, in whatever order they came.
BalanceIsPosted ==
  \A c \in Clients :
    client[c].balance =
      Sum({d \in Of(c) : posting[d].credit = "posted"}, LAMBDA d : invoice[d].total)
      - Sum({d \in Of(c) : posting[d].debit = "posted"}, LAMBDA d : invoice[d].total)

=============================================================================
