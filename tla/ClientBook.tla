---------------------------- MODULE ClientBook ----------------------------
(***************************************************************************)
(* The client book: single creates and edits (createClient, updateClient)  *)
(* and the bulk import with its row-by-row commits (importClients, driven  *)
(* by ImportClientsModal).  Of a client only the VAT id is kept.           *)
(***************************************************************************)
EXTENDS Sequences, FiniteSets, Naturals

CONSTANTS
  Clients,     \* ids client rows get
  Vats,        \* VAT ids
  NoVat,       \* a client or a row without one
  Bad,         \* a row whose employee is unknown or whose columns are refused
  Imports,     \* import windows open at once
  MaxRows      \* bound: rows of a sheet

VARIABLES
  vat,         \* vat[c]: {} before the row is there, else its VAT id
  imp,         \* imp[i]: the import of window i
  crossed,     \* history: two imports, or an import and a typed VAT id, overlapped
  typed,       \* history: a VAT id was typed that a client had
  edited       \* history: a VAT id was taken off a client

vars == <<vat, imp, crossed, typed, edited>>

Sheets == UNION {[1 .. n -> Vats \cup {NoVat, Bad}] : n \in 1 .. MaxRows}
Idle == [step |-> "idle", sheet |-> <<>>, report |-> <<>>]

\* Rows and reports have their columns, and no report is longer than its sheet.
TypeOK ==
  /\ vat \in [Clients -> SUBSET (Vats \cup {NoVat})]
  /\ \A i \in Imports : /\ imp[i].step \in {"idle", "check", "insert", "report"}
                        /\ imp[i].sheet \in Sheets \cup {<<>>}
                        /\ Len(imp[i].report) <= Len(imp[i].sheet)
  /\ crossed \in BOOLEAN /\ typed \in BOOLEAN /\ edited \in BOOLEAN

Init ==
  /\ vat = [c \in Clients |-> {}]
  /\ imp = [i \in Imports |-> Idle]
  /\ crossed = FALSE /\ typed = FALSE /\ edited = FALSE

Busy == {i \in Imports : imp[i].step \in {"check", "insert"}}
Row(i) == imp[i].sheet[Len(imp[i].report) + 1]

\* Mutant: the look-up is left out.
FoundNever(v) == FALSE

\* findClientByVatId; a blank VAT id is not looked up.
Found(v) == v # NoVat /\ \E c \in Clients : v \in vat[c]

\* The id a new row gets.
Next1 == LET free == {c \in Clients : vat[c] = {}} IN IF free = {} THEN {} ELSE {CHOOSE c \in free : TRUE}

-----------------------------------------------------------------------------
(* Imports                                                                 *)

\* Confirming the preview sends the sheet; a window takes one at a time, and the
\* same sheet may be sent again.
Upload(i, sheet) ==
  /\ imp[i].step = "idle"
  /\ imp' = [imp EXCEPT ![i] = [Idle EXCEPT !.step = "check", !.sheet = sheet]]
  /\ crossed' = (crossed \/ Busy # {})
  /\ UNCHANGED <<vat, typed, edited>>

Report(i, result) ==
  LET report == Append(imp[i].report, result) IN
  imp' = [imp EXCEPT ![i].report = report,
                     ![i].step = IF Len(report) = Len(imp[i].sheet) THEN "report" ELSE "check"]

\* A row of an unknown employee, of a VAT id that is there, or with a refused
\* column is reported and skipped.
CheckRow(i) ==
  /\ imp[i].step = "check"
  /\ IF Row(i) = Bad \/ Found(Row(i)) THEN Report(i, "failed") ELSE imp' = [imp EXCEPT ![i].step = "insert"]
  /\ UNCHANGED <<vat, crossed, typed, edited>>

\* Each row is committed by itself; an insert that fails answers 500, with the
\* rows before it kept and no report.
InsertRow(i) ==
  /\ imp[i].step = "insert"
  /\ \/ \E c \in Next1 : vat' = [vat EXCEPT ![c] = {Row(i)}] /\ Report(i, "created")
     \/ imp' = [imp EXCEPT ![i] = Idle] /\ UNCHANGED vat
  /\ UNCHANGED <<crossed, typed, edited>>

\* The window is closed once it shows the report.
CloseReport(i) ==
  imp[i].step = "report" /\ imp' = [imp EXCEPT ![i] = Idle] /\ UNCHANGED <<vat, crossed, typed, edited>>

Type(v) == /\ typed' = (typed \/ Found(v))
           /\ crossed' = (crossed \/ (v # NoVat /\ Busy # {}))

\* A client is added by hand, or its VAT id edited; neither looks the VAT id up.
CreateClient(v) ==
  /\ \E c \in Next1 : vat' = [vat EXCEPT ![c] = {v}]
  /\ Type(v) /\ UNCHANGED <<imp, edited>>

UpdateClient(c, v) ==
  /\ vat[c] # {} /\ vat' = [vat EXCEPT ![c] = {v}]
  /\ edited' = (edited \/ v \notin vat[c])
  /\ Type(v) /\ UNCHANGED imp

Next ==
  \/ \E i \in Imports :
       CheckRow(i) \/ InsertRow(i) \/ CloseReport(i) \/ \E sheet \in Sheets : Upload(i, sheet)
  \/ \E v \in Vats \cup {NoVat} : CreateClient(v) \/ \E c \in Clients : UpdateClient(c, v)

Spec == Init /\ [][Next]_vars

-----------------------------------------------------------------------------
(* Properties                                                              *)

\* No VAT id is in the book twice, whatever sheets are sent again after a failure,
\* unless somebody typed one that was there or an import was not alone.
VatOnce ==
  ~crossed /\ ~typed => \A c, d \in Clients : c # d => (vat[c] \cap vat[d]) \ {NoVat} = {}

\* Who reads the report finds every VAT id of the sheet in the book, except those
\* of refused rows: what was neither created nor there before is not passed over.
ReportedIsThere ==
  ~edited => \A i \in Imports : imp[i].step = "report" =>
    \A n \in DOMAIN imp[i].sheet : imp[i].sheet[n] \in Vats => \E c \in Clients : imp[i].sheet[n] \in vat[c]

=============================================================================
