--------------------------- MODULE SmartVat_proofs ---------------------------
(***************************************************************************)
(* The VAT matrix holds for every set of countries, of member states and   *)
(* of listed names.  The invariant says that a result is the one that      *)
(* evaluateVat computes from the three inputs, which never change.         *)
(***************************************************************************)
EXTENDS SmartVat, TLAPS

\* Until it is decided there is no result; afterwards it is evaluateVat's.
Decided ==
  /\ supplier \in Fields /\ client \in Fields /\ vatId \in VatIds
  /\ result # Undecided => result = evaluateVat(supplier, client, vatId)

\* A field that is understood gives the country that is meant, whatever the fallback.
LEMMA UnderstoodIsRead ==
  ASSUME NEW field \in Fields, NEW fallback, Understood(field)
  PROVE  toIso2(field, fallback) = field.of
  BY DEF Understood, toIso2, Fields

LEMMA DecidedInvariant == Spec => []Decided
<1>1. Init => Decided
  BY DEF Init, Decided
<1>2. Decided /\ [Next]_vatVars => Decided'
  BY DEF Decided, Next, Evaluate, vatVars
<1>3. QED
  BY <1>1, <1>2, PTL DEF Spec

\* The matrix at the head of vat.service.ts, for every two countries and every VAT id.
THEOREM VatMatrix ==
  ASSUME TablesFit
  PROVE  Spec => []MatrixKept
<1>1. Decided => MatrixKept
  <2> SUFFICES ASSUME Decided, result # Undecided, Understood(supplier), Understood(client)
               PROVE  MatrixKept
    BY DEF MatrixKept
  <2>1. result = Treatment(supplier.of, client.of, vatId)
    BY UnderstoodIsRead DEF Decided, evaluateVat
  <2>2. supplier.of \in Codes /\ "zero" \notin Codes
    BY DEF TablesFit, Decided, Fields
  <2>3. CASE client.of = supplier.of
    BY <2>1, <2>2, <2>3 DEF MatrixKept, Treatment, Standard
  <2>4. CASE client.of # supplier.of /\ client.of \notin EU
    BY <2>1, <2>2, <2>4 DEF MatrixKept, Treatment, ZeroRated
  <2>5. CASE client.of # supplier.of /\ client.of \in EU
    BY <2>1, <2>2, <2>5 DEF MatrixKept, Treatment, Standard, ZeroRated, isVatIdValid
  <2>6. QED
    BY <2>3, <2>4, <2>5
<1>2. QED
  BY <1>1, DecidedInvariant, PTL

\* A client whose country is not understood is flagged, in whatever country the supplier is.
THEOREM UnknownFlagged ==
  ASSUME TablesFit
  PROVE  Spec => []UnknownIsFlagged
<1>1. Decided => UnknownIsFlagged
  <2> SUFFICES ASSUME Decided, result # Undecided,
                      client.form = "blank" \/ (client.form = "name" /\ client.of \notin Named)
               PROVE  result = ZeroRated("export_zero")
    BY DEF UnknownIsFlagged
  <2>1. toIso2(client, Outside) = Outside
    BY DEF toIso2
  <2>2. Outside \notin EU
    BY DEF TablesFit
  <2>3. toIso2(supplier, Home) \in Codes
    BY DEF TablesFit, toIso2, Decided, Fields
  <2>4. Outside # toIso2(supplier, Home)
    BY <2>3 DEF TablesFit
  <2>5. QED
    BY <2>1, <2>2, <2>4 DEF Decided, evaluateVat, Treatment
<1>2. QED
  BY <1>1, DecidedInvariant, PTL

=============================================================================
