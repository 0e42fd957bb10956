------------------------------ MODULE SmartVat ------------------------------
(***************************************************************************)
(* evaluateVat: which VAT an invoice bears, decided from what stands in    *)
(* the country fields of supplier and client and from the client's VAT id. *)
(* Wording and percentages are left out; a rate is named by its country.   *)
(***************************************************************************)
EXTENDS FiniteSets

CONSTANTS
  Codes,         \* two letters each: the ISO codes, and others such as EL
  EU,            \* the codes of the member states
  Named,         \* codes whose country is in NAME_TO_ISO under its name
  Home, Outside, \* SI and XX, what stands in for an unknown supplier and client
  Greece, EL     \* its ISO code and the prefix of its VAT ids

\* What the tables say of each other; the theorems assume it, a run checks it of its values.
TablesFit ==
  /\ EU \subseteq Codes /\ Named \subseteq Codes
  /\ "zero" \notin Codes
  /\ Home \in EU /\ Greece \in EU /\ EL \in Codes \ EU /\ Outside \notin Codes

\* A country field: a code, the name of a country, or blank; a VAT id: its first two
\* letters and whether it has the right form, which no id has not.
Fields == [form : {"code", "name", "blank"}, of : Codes]
VatIds == [formed : BOOLEAN, prefix : Codes]

toIso2(field, fallback) ==
  IF field.form = "code" \/ (field.form = "name" /\ field.of \in Named) THEN field.of ELSE fallback

isVatIdValid(id, country) == id.formed /\ id.prefix = IF country = Greece THEN EL ELSE country

Standard(supplier) == [treatment |-> "standard", rate |-> supplier]
ZeroRated(treatment) == [treatment |-> treatment, rate |-> "zero"]
Undecided == ZeroRated("none")

\* Mutant: reverse charge is looked at before domestic supply.
ReverseFirst(supplier, client, id) ==
  IF client \in EU /\ isVatIdValid(id, client) THEN ZeroRated("reverse_charge")
  ELSE IF client = supplier \/ client \in EU THEN Standard(supplier)
  ELSE ZeroRated("export_zero")

Treatment(supplier, client, id) ==
  IF client = supplier THEN Standard(supplier)
  ELSE IF client \in EU THEN IF isVatIdValid(id, client) THEN ZeroRated("reverse_charge") ELSE Standard(supplier)
  ELSE ZeroRated("export_zero")

evaluateVat(supplierField, clientField, id) ==
  Treatment(toIso2(supplierField, Home), toIso2(clientField, Outside), id)

-----------------------------------------------------------------------------
VARIABLES supplier, client, vatId, result

vatVars == <<supplier, client, vatId, result>>

Init ==
  /\ supplier \in Fields /\ client \in Fields /\ vatId \in VatIds
  /\ result = Undecided

Evaluate ==
  /\ result = Undecided
  /\ result' = evaluateVat(supplier, client, vatId)
  /\ UNCHANGED <<supplier, client, vatId>>

Next == Evaluate

Spec == Init /\ [][Next]_vatVars

-----------------------------------------------------------------------------
(* Properties                                                              *)

\* A field from which the country is read that is meant.  One who enters EL means Greece.
Understood(field) ==
  \/ field.form = "code" /\ field.of # EL
  \/ field.form = "name" /\ field.of \in Named

\* The matrix at the head of the file, wherever the two fields are understood: VAT of
\* the supplier's country at home, and where a client in another member state has no
\* valid id of that state; reverse charge where it has; none outside the Union.
MatrixKept ==
  result # Undecided /\ Understood(supplier) /\ Understood(client) =>
    LET abroad == client.of # supplier.of
        member == client.of \in EU
        withId == vatId.formed /\ vatId.prefix = IF client.of = Greece THEN EL ELSE client.of
    IN /\ result.rate = supplier.of <=> ~abroad \/ (member /\ ~withId)
       /\ result.treatment = "reverse_charge" <=> abroad /\ member /\ withId
       /\ result.treatment = "export_zero" <=> abroad /\ ~member

\* "safer to 0%-flag an unrecognised country for human review than to assume a domestic
\* supply": a client whose country is not understood is never charged nor reversed.
UnknownIsFlagged ==
  result # Undecided /\ (client.form = "blank" \/ (client.form = "name" /\ client.of \notin Named)) =>
    result = ZeroRated("export_zero")

=============================================================================
