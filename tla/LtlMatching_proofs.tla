-------------------------- MODULE LtlMatching_proofs --------------------------
(***************************************************************************)
(* Proofs about groupage matching: for any number of partial loads,        *)
(* suggestions, scans and dispatchers.                                     *)
(*                                                                         *)
(* What makes two scans safe is the unique index alone; what makes an      *)
(* acceptance safe is that it writes the suggestion before the partial.    *)
(* The invariant says of an acceptance between the two statements that its *)
(* suggestion is accepted, or that its partial is on record as crossed.    *)
(***************************************************************************)
EXTENDS LtlMatching, FiniteSetTheorems, TLAPS

\* A suggestion that was inserted is about a partial.
RowInv(s) == suggestion[s].status # "none" => suggestion[s].partial \in Partials

\* A scan between its two statements is about a partial.
ScanInv(k) == scan[k].pc = "insert" => scan[k].now \in Partials

\* A call has a suggestion that was inserted; past the first statement of accept
\* it is accepted, or it was deleted before or dismissed since.
DeskInv(j) ==
  LET s == desk[j].suggestion IN
  /\ desk[j].pc # "idle" => s \in Suggestions /\ suggestion[s].status # "none"
  /\ desk[j].pc = "match" => suggestion[s].status = "accepted" \/ suggestion[s].partial \in crossed

CallsInv ==
  /\ \A s \in Suggestions : RowInv(s)
  /\ \A k \in Scans : ScanInv(k)
  /\ \A j \in Desks : DeskInv(j)

\* No two suggestions of a partial are live.
OneLive == \A p \in Partials : \A s, t \in Live(p) : s = t

IInv == TypeOK /\ CallsInv /\ OneLive /\ AcceptedIsMatched /\ MatchedHasRoute

-----------------------------------------------------------------------------
\* The states of a scan that the actions build are states of a scan.
LEMMA ScanEdit ==
  /\ IdleScan \in ScanState /\ IdleScan.pc = "idle"
  /\ [IdleScan EXCEPT !.pc = "seed", !.left = DemoSize] \in ScanState
  /\ [IdleScan EXCEPT !.pc = "list"] \in ScanState
  /\ \A found \in SUBSET Partials : [IdleScan EXCEPT !.pc = "save", !.todo = found] \in ScanState
  /\ \A c \in ScanState :
       /\ c.left > 0 => [c EXCEPT !.left = @ - 1] \in ScanState
       /\ \A p \in Partials :
            [c EXCEPT !.pc = "insert", !.todo = @ \ {p}, !.now = p] \in ScanState
       /\ [c EXCEPT !.pc = "save", !.now = None] \in ScanState
<1> USE LtlAssumption DEF ScanState
<1>1. IdleScan \in ScanState /\ IdleScan.pc = "idle"
  BY DEF IdleScan
<1>a. \A c \in ScanState, pc \in {"seed", "list", "save"} : [c EXCEPT !.pc = pc] \in ScanState
  OBVIOUS
<1>b. \A c \in ScanState : [c EXCEPT !.left = DemoSize] \in ScanState
  OBVIOUS
<1>c. \A c \in ScanState, found \in SUBSET Partials : [c EXCEPT !.todo = found] \in ScanState
  OBVIOUS
<1>2. [IdleScan EXCEPT !.pc = "seed", !.left = DemoSize] \in ScanState
  BY ONLY Zenon, <1>1, <1>a, <1>b
<1>3. [IdleScan EXCEPT !.pc = "list"] \in ScanState
  BY ONLY Zenon, <1>1, <1>a
<1>4. \A found \in SUBSET Partials : [IdleScan EXCEPT !.pc = "save", !.todo = found] \in ScanState
  BY ONLY Zenon, <1>1, <1>a, <1>c
<1>5. \A c \in ScanState : c.left > 0 => [c EXCEPT !.left = @ - 1] \in ScanState
  OBVIOUS
<1>6. \A c \in ScanState, p \in Partials :
         [c EXCEPT !.pc = "insert", !.todo = @ \ {p}, !.now = p] \in ScanState
  OBVIOUS
<1>7. \A c \in ScanState : [c EXCEPT !.pc = "save", !.now = None] \in ScanState
  OBVIOUS
<1>8. QED
  BY ONLY <1>1, <1>2, <1>3, <1>4, <1>5, <1>6, <1>7

\* Every statement keeps each row and call in its range.
LEMMA TypeStep == TypeOK /\ CallsInv /\ [Next]_vars => TypeOK'
<1> SUFFICES ASSUME TypeOK, CallsInv, [Next]_vars PROVE TypeOK'
  OBVIOUS
<1> USE LtlAssumption DEF TypeOK, CallsInv, history
<1>1. ASSUME NEW p \in Partials, CreatePartial(p) PROVE TypeOK'
  BY <1>1 DEF CreatePartial, Insert
<1>2. ASSUME NEW k \in Scans, ScanStart(k) PROVE TypeOK'
  BY <1>2, ScanEdit DEF ScanStart
<1>3. ASSUME NEW k \in Scans, NEW p \in Partials, ScanSeed(k, p) PROVE TypeOK'
  <2> DEFINE c == [scan[k] EXCEPT !.left = @ - 1]
  <2>1. c \in ScanState
    BY <1>3, ScanEdit DEF ScanSeed
  <2>2. /\ scan' = [scan EXCEPT ![k] = c] /\ UNCHANGED <<suggestion, desk, dead, crossed>>
        /\ partial' = [partial EXCEPT ![p] = "open"]
    BY <1>3 DEF ScanSeed, Insert
  <2> HIDE DEF c
  <2>3. QED
    BY <2>1, <2>2
<1>4. ASSUME NEW k \in Scans, ScanSeeded(k) PROVE TypeOK'
  BY <1>4 DEF ScanSeeded, ScanState
<1>5. ASSUME NEW k \in Scans, NEW found \in SUBSET Partials, ScanList(k, found) PROVE TypeOK'
  BY <1>5, ScanEdit DEF ScanList
<1>6. ASSUME NEW k \in Scans, NEW p \in Partials, ScanDelete(k, p) PROVE TypeOK'
  <2>1. \A r \in SuggestionRow : [r EXCEPT !.status = "deleted"] \in SuggestionRow
    BY DEF SuggestionRow
  <2>2. suggestion' \in [Suggestions -> SuggestionRow]
    BY <1>6, <2>1 DEF ScanDelete
  <2> DEFINE c == [scan[k] EXCEPT !.pc = "insert", !.todo = @ \ {p}, !.now = p]
  <2>3. c \in ScanState
    BY ScanEdit
  <2>4. UNCHANGED <<partial, desk, dead, crossed>>
    BY <1>6 DEF ScanDelete
  <2>6. scan' = [scan EXCEPT ![k] = c]
    BY <1>6 DEF ScanDelete
  <2> HIDE DEF c
  <2>5. QED
    BY <2>2, <2>3, <2>4, <2>6
<1>7. ASSUME NEW k \in Scans, NEW s \in Suggestions, ScanInsert(k, s) PROVE TypeOK'
  <2>1. [status |-> "suggested", partial |-> scan[k].now] \in SuggestionRow
    BY <1>7 DEF ScanInsert, ScanInv, SuggestionRow
  <2>2. [scan[k] EXCEPT !.pc = "save", !.now = None] \in ScanState
    BY ScanEdit
  <2>3. QED
    BY <1>7, <2>1, <2>2, ScanEdit DEF ScanInsert
<1>8. ASSUME NEW k \in Scans, ScanClash(k) PROVE TypeOK'
  BY <1>8 DEF ScanClash, ScanState, IdleScan
<1>9. ASSUME NEW k \in Scans, ScanFail(k) PROVE TypeOK'
  BY <1>9 DEF ScanFail, ScanState, IdleScan
<1>10. ASSUME NEW j \in Desks, NEW s \in Suggestions, NEW pc \in {"accept", "dismiss"},
              DeskFind(j, s, pc)
       PROVE  TypeOK'
  BY <1>10 DEF DeskFind, DeskState
<1>11. ASSUME NEW j \in Desks, Accept(j) PROVE TypeOK'
  BY <1>11 DEF Accept, SetStatus, CrossedIf, DeskInv, DeskState, SuggestionRow
<1>12. ASSUME NEW j \in Desks, Match(j) PROVE TypeOK'
  BY <1>12 DEF Match, DeskInv, DeskState, IdleDesk
<1>13. ASSUME NEW j \in Desks, Dismiss(j) PROVE TypeOK'
  BY <1>13 DEF Dismiss, SetStatus, CrossedIf, DeskInv, DeskState, IdleDesk, SuggestionRow
<1>14. ASSUME NEW j \in Desks, DeskFail(j) PROVE TypeOK'
  BY <1>14 DEF DeskFail, DeskInv, RowInv, DeskState, IdleDesk
<1>15. CASE UNCHANGED vars
  BY <1>15 DEF vars
<1>16. QED
  BY <1>1, <1>2, <1>3, <1>4, <1>5, <1>6, <1>7, <1>8, <1>9, <1>10, <1>11, <1>12, <1>13, <1>14, <1>15
  DEF Next, ScanStep, DeskStep

\* Calls come to point at suggestions that are there, which stay there.
LEMMA CallsStep == TypeOK /\ CallsInv /\ [Next]_vars => CallsInv'
<1> SUFFICES ASSUME TypeOK, CallsInv, [Next]_vars PROVE CallsInv'
  OBVIOUS
<1> USE LtlAssumption DEF TypeOK, CallsInv, RowInv, ScanInv, DeskInv
<1>1. CASE UNCHANGED <<suggestion, scan, desk, crossed>>
  BY <1>1
<1>2. ASSUME NEW k \in Scans,
             ScanStart(k) \/ ScanSeeded(k) \/ (\E p \in Partials : ScanSeed(k, p))
               \/ (\E found \in SUBSET Partials : ScanList(k, found)) \/ ScanClash(k) \/ ScanFail(k)
      PROVE  CallsInv'
  <2>1. UNCHANGED <<suggestion, desk, crossed>>
    BY <1>2 DEF ScanStart, ScanSeeded, ScanSeed, ScanList, ScanClash, ScanFail, history
  <2>2. \A i \in Scans : scan'[i].pc = "insert" => scan'[i] = scan[i]
    <3>1. CASE ScanStart(k)
      BY <3>1 DEF ScanStart, IdleScan
    <3>2. CASE ScanSeeded(k)
      BY <3>2 DEF ScanSeeded, ScanState
    <3>3. ASSUME NEW p \in Partials, ScanSeed(k, p) PROVE scan'[k].pc = "seed"
      BY <3>3 DEF ScanSeed, ScanState
    <3>4. ASSUME NEW found \in SUBSET Partials, ScanList(k, found) PROVE scan'[k].pc # "insert"
      BY <3>4 DEF ScanList, IdleScan
    <3>5. CASE ScanClash(k) \/ ScanFail(k)
      BY <3>5 DEF ScanClash, ScanFail, IdleScan
    <3>6. \A i \in Scans \ {k} : scan'[i] = scan[i]
      BY <1>2 DEF ScanStart, ScanSeeded, ScanSeed, ScanList, ScanClash, ScanFail
    <3>7. QED
      BY <1>2, <3>1, <3>2, <3>3, <3>4, <3>5, <3>6
  <2>3. QED
    BY <2>1, <2>2
<1>3. ASSUME NEW k \in Scans, NEW p \in Partials, ScanDelete(k, p) PROVE CallsInv'
  <2>1. \A s \in Suggestions :
           /\ suggestion'[s].partial = suggestion[s].partial
           /\ \/ suggestion'[s].status = suggestion[s].status
              \/ suggestion[s].status = "suggested" /\ suggestion'[s].status = "deleted"
    BY <1>3 DEF ScanDelete, Live, SuggestionRow
  <2>2. \A i \in Scans : scan'[i].pc = "insert" => (i = k /\ scan'[i].now = p) \/ scan'[i] = scan[i]
    BY <1>3 DEF ScanDelete, ScanState
  <2>3. UNCHANGED <<desk, crossed>>
    BY <1>3 DEF ScanDelete, history
  <2>4. QED
    BY <2>1, <2>2, <2>3
<1>4. ASSUME NEW k \in Scans, NEW s \in Suggestions, ScanInsert(k, s) PROVE CallsInv'
  <2>1. suggestion[s].status = "none" /\ scan[k].now \in Partials
    BY <1>4 DEF ScanInsert, Fresh
  <2>2. suggestion'[s].status = "suggested" /\ suggestion'[s].partial = scan[k].now
        /\ \A t \in Suggestions \ {s} : suggestion'[t] = suggestion[t]
    BY <1>4 DEF ScanInsert, SuggestionRow
  <2>3. \A i \in Scans : scan'[i].pc = "insert" => scan'[i] = scan[i]
    BY <1>4 DEF ScanInsert, ScanState, IdleScan
  <2>4. UNCHANGED <<desk, crossed>>
    BY <1>4 DEF ScanInsert, history
  <2>5. QED
    BY <2>1, <2>2, <2>3, <2>4
<1>5. ASSUME NEW j \in Desks, NEW s \in Suggestions, NEW pc \in {"accept", "dismiss"},
             DeskFind(j, s, pc)
      PROVE  CallsInv'
  BY <1>5 DEF DeskFind, history
<1>6. ASSUME NEW j \in Desks, Accept(j) PROVE CallsInv'
  <2> DEFINE s == desk[j].suggestion
  <2>1. s \in Suggestions /\ suggestion[s].status # "none" /\ suggestion[s].partial \in Partials
    BY <1>6 DEF Accept
  <2>2. /\ \A t \in Suggestions \ {s} : suggestion'[t] = suggestion[t]
        /\ suggestion'[s].partial = suggestion[s].partial
        /\ suggestion'[s].status = IF suggestion[s].status = "deleted" THEN "deleted" ELSE "accepted"
    BY <1>6, <2>1 DEF Accept, SetStatus, SuggestionRow
  <2>3. crossed \subseteq crossed'
        /\ (suggestion[s].status = "deleted" => suggestion[s].partial \in crossed')
    BY <1>6, <2>1 DEF Accept, CrossedIf, SuggestionRow
  <2>4. scan' = scan /\ desk' = [desk EXCEPT ![j].pc = "match"]
    BY <1>6 DEF Accept
  <2>5. QED
    BY <2>1, <2>2, <2>3, <2>4 DEF DeskState
<1>7. ASSUME NEW j \in Desks, Dismiss(j) PROVE CallsInv'
  <2> DEFINE s == desk[j].suggestion
  <2>1. s \in Suggestions /\ suggestion[s].status # "none" /\ suggestion[s].partial \in Partials
    BY <1>7 DEF Dismiss
  <2>2. /\ \A t \in Suggestions \ {s} : suggestion'[t] = suggestion[t]
        /\ suggestion'[s].partial = suggestion[s].partial
        /\ suggestion'[s].status = IF suggestion[s].status = "deleted" THEN "deleted" ELSE "dismissed"
    BY <1>7, <2>1 DEF Dismiss, SetStatus, SuggestionRow
  <2>3. crossed \subseteq crossed'
        /\ (suggestion[s].status = "accepted" => suggestion[s].partial \in crossed')
    BY <1>7, <2>1 DEF Dismiss, CrossedIf, SuggestionRow
  <2>4. scan' = scan /\ desk' = [desk EXCEPT ![j] = IdleDesk]
    BY <1>7 DEF Dismiss
  <2>5. QED
    BY <2>1, <2>2, <2>3, <2>4 DEF IdleDesk
<1>8. ASSUME NEW j \in Desks, Match(j) \/ DeskFail(j) PROVE CallsInv'
  BY <1>8 DEF Match, DeskFail, IdleDesk, history
<1>9. QED
  BY <1>1, <1>2, <1>3, <1>4, <1>5, <1>6, <1>7, <1>8
  DEF Next, ScanStep, DeskStep, CreatePartial, vars, history

\* The unique index: an INSERT finds no live suggestion, and nothing else makes one live.
LEMMA IndexStep == TypeOK /\ CallsInv /\ OneLive /\ [Next]_vars => OneLive'
<1> SUFFICES ASSUME TypeOK, CallsInv, OneLive, [Next]_vars PROVE OneLive'
  OBVIOUS
<1> USE LtlAssumption DEF TypeOK, OneLive, Live
<1>1. ASSUME \A s \in Suggestions : suggestion'[s].status = "suggested" => suggestion'[s] = suggestion[s]
      PROVE  OneLive'
  BY <1>1
<1>2. ASSUME NEW k \in Scans, NEW s \in Suggestions, ScanInsert(k, s) PROVE OneLive'
  <2>1. /\ suggestion'[s].partial = scan[k].now /\ suggestion'[s].status = "suggested"
        /\ \A t \in Suggestions \ {s} : suggestion'[t] = suggestion[t]
    BY <1>2 DEF ScanInsert
  <2>2. Live(scan[k].now) = {}
    BY <1>2 DEF ScanInsert, IndexFree
  <2>3. QED
    BY <2>1, <2>2
<1>3. ASSUME NEW k \in Scans, NEW p \in Partials, ScanDelete(k, p) PROVE OneLive'
  BY <1>1, <1>3 DEF ScanDelete, SuggestionRow
<1>4. ASSUME NEW j \in Desks, Accept(j) \/ Dismiss(j) PROVE OneLive'
  <2>1. desk[j].suggestion \in Suggestions /\ suggestion[desk[j].suggestion].status # "none"
    BY <1>4 DEF Accept, Dismiss, CallsInv, DeskInv
  <2>2. QED
    BY <1>1, <1>4, <2>1 DEF Accept, Dismiss, SetStatus, SuggestionRow
<1>5. CASE UNCHANGED suggestion
  BY <1>5
<1>6. QED
  BY <1>2, <1>3, <1>4, <1>5
  DEF Next, ScanStep, DeskStep, CreatePartial, ScanStart, ScanSeed, ScanSeeded, ScanList, ScanClash,
      ScanFail, DeskFind, Match, DeskFail, vars, history

\* What a statement does to a suggestion that is accepted, or comes to be.
LEMMA Statuses ==
  ASSUME TypeOK, CallsInv, [Next]_vars, NEW s \in Suggestions
  PROVE  /\ suggestion[s].status # "none" => suggestion'[s].partial = suggestion[s].partial
         /\ suggestion'[s].status = "accepted" =>
              \/ suggestion[s].status = "accepted"
              \/ \E j \in Desks : Accept(j) /\ desk[j].suggestion = s
         /\ suggestion[s].status = "accepted" =>
              \/ suggestion'[s] = suggestion[s]
              \/ suggestion[s].partial \in crossed'
<1> USE LtlAssumption DEF TypeOK
<1>1. CASE UNCHANGED suggestion
  BY <1>1
<1>2. ASSUME NEW k \in Scans, NEW t \in Suggestions, ScanInsert(k, t)
      PROVE  (suggestion[s].status # "none" => suggestion'[s] = suggestion[s])
             /\ (s = t => suggestion'[s].status = "suggested" /\ suggestion[s].status = "none")
             /\ (s # t => suggestion'[s] = suggestion[s])
  BY <1>2 DEF ScanInsert, Fresh
<1>3. ASSUME NEW k \in Scans, NEW p \in Partials, ScanDelete(k, p)
      PROVE  \/ suggestion'[s] = suggestion[s]
             \/ /\ suggestion[s].status = "suggested" /\ suggestion'[s].status = "deleted"
                /\ suggestion'[s].partial = suggestion[s].partial
  BY <1>3 DEF ScanDelete, Live, SuggestionRow
<1>4. ASSUME NEW j \in Desks, Accept(j)
      PROVE  \/ suggestion'[s] = suggestion[s]
             \/ /\ desk[j].suggestion = s
                /\ suggestion'[s].partial = suggestion[s].partial
                /\ suggestion[s].status = "accepted" => suggestion'[s] = suggestion[s]
  <2>1. desk[j].suggestion \in Suggestions
    BY <1>4 DEF Accept, CallsInv, DeskInv
  <2>2. QED
    BY <1>4, <2>1 DEF Accept, SetStatus, SuggestionRow
<1>5. ASSUME NEW j \in Desks, Dismiss(j)
      PROVE  /\ suggestion'[s].partial = suggestion[s].partial
             /\ \/ suggestion'[s] = suggestion[s]
                \/ /\ suggestion'[s].status # "accepted"
                   /\ suggestion[s].status = "accepted" => suggestion[s].partial \in crossed'
  <2>1. desk[j].suggestion \in Suggestions /\ (suggestion[s].status = "accepted" => suggestion[s].partial \in Partials)
    BY <1>5 DEF Dismiss, CallsInv, DeskInv, RowInv
  <2>2. QED
    BY <1>5, <2>1 DEF Dismiss, SetStatus, CrossedIf, SuggestionRow
<1>6. QED
  BY <1>1, <1>2, <1>3, <1>4, <1>5
  DEF Next, ScanStep, DeskStep, CreatePartial, ScanStart, ScanSeed, ScanSeeded, ScanList, ScanClash,
      ScanFail, DeskFind, Match, DeskFail, vars, history

\* Who takes a partial off the market: the second statement of accept; nothing puts it back.
LEMMA Matchings ==
  ASSUME TypeOK, CallsInv, [Next]_vars, NEW p \in Partials
  PROVE  /\ partial[p] = "matched" => partial'[p] = "matched"
         /\ partial'[p] = "matched" =>
              \/ partial[p] = "matched"
              \/ \E j \in Desks : Match(j) /\ suggestion[desk[j].suggestion].partial = p
<1> USE DEF TypeOK
<1>1. CASE UNCHANGED partial
  BY <1>1
<1>2. ASSUME NEW q \in Partials, Insert(q)
      PROVE  (partial[p] = "matched" => partial'[p] = "matched")
             /\ (partial'[p] = "matched" => partial[p] = "matched")
  BY <1>2 DEF Insert
<1>3. ASSUME NEW j \in Desks, Match(j)
      PROVE  \/ partial'[p] = partial[p]
             \/ suggestion[desk[j].suggestion].partial = p /\ partial'[p] = "matched"
  BY <1>3 DEF Match
<1>4. QED
  BY <1>1, <1>2, <1>3
  DEF Next, ScanStep, DeskStep, CreatePartial, ScanStart, ScanSeed, ScanSeeded, ScanList, ScanDelete,
      ScanInsert, ScanClash, ScanFail, DeskFind, Accept, Dismiss, DeskFail, vars

\* An acceptance between its statements goes on to the second, or dies on record.
LEMMA AcceptGoesOn ==
  ASSUME TypeOK, CallsInv, [Next]_vars, NEW j \in Desks, NEW s \in Suggestions,
         desk[j] = [pc |-> "match", suggestion |-> s]
  PROVE  \/ desk'[j] = desk[j]
         \/ Match(j) /\ partial'[suggestion[s].partial] = "matched"
         \/ suggestion[s].partial \in dead'
<1> USE DEF TypeOK
<1>0. desk[j].pc = "match" /\ desk[j].suggestion = s /\ suggestion[s].partial \in Partials
  BY DEF CallsInv, DeskInv, RowInv
<1>1. CASE UNCHANGED desk
  BY <1>1
<1>2. ASSUME NEW i \in Desks, NEW t \in Suggestions, NEW pc \in {"accept", "dismiss"}, DeskFind(i, t, pc)
      PROVE  desk'[j] = desk[j]
  BY <1>0, <1>2 DEF DeskFind
<1>3. ASSUME NEW i \in Desks, Accept(i) \/ Dismiss(i) PROVE desk'[j] = desk[j]
  BY <1>0, <1>3 DEF Accept, Dismiss
<1>4. ASSUME NEW i \in Desks, Match(i)
      PROVE  desk'[j] = desk[j] \/ (Match(j) /\ partial'[suggestion[s].partial] = "matched")
  BY <1>0, <1>4 DEF Match
<1>5. ASSUME NEW i \in Desks, DeskFail(i)
      PROVE  desk'[j] = desk[j] \/ suggestion[s].partial \in dead'
  BY <1>0, <1>5 DEF DeskFail
<1>6. QED
  BY <1>1, <1>2, <1>3, <1>4, <1>5
  DEF Next, ScanStep, DeskStep, CreatePartial, ScanStart, ScanSeed, ScanSeeded, ScanList, ScanDelete,
      ScanInsert, ScanClash, ScanFail, vars

\* What was noted of a partial stays noted.
LEMMA HistoryGrows ==
  ASSUME [Next]_vars
  PROVE  dead \subseteq dead' /\ crossed \subseteq crossed'
  BY DEF Next, ScanStep, DeskStep, CreatePartial, ScanStart, ScanSeed, ScanSeeded, ScanList, ScanDelete,
         ScanInsert, ScanClash, ScanFail, DeskFind, Accept, CrossedIf, Match, Dismiss, DeskFail, vars, history

\* An accepted suggestion has a request that is about to match its partial, until the
\* partial is matched or the request is dead.
LEMMA AcceptedStep == TypeOK /\ CallsInv /\ AcceptedIsMatched /\ [Next]_vars => AcceptedIsMatched'
<1> SUFFICES ASSUME TypeOK, CallsInv, AcceptedIsMatched, [Next]_vars,
                    NEW s \in Suggestions, suggestion'[s].status = "accepted"
             PROVE  \/ partial'[suggestion'[s].partial] = "matched"
                    \/ suggestion'[s].partial \in dead'
                    \/ \E j \in Desks : desk'[j] = [pc |-> "match", suggestion |-> s]
  BY DEF AcceptedIsMatched
<1>1. ASSUME NEW j \in Desks, Accept(j), desk[j].suggestion = s
      PROVE  desk'[j] = [pc |-> "match", suggestion |-> s]
  <2>1. desk[j] \in DeskState /\ desk'[j] = [desk[j] EXCEPT !.pc = "match"]
    BY <1>1 DEF Accept, TypeOK
  <2>2. QED
    BY <1>1, <2>1 DEF DeskState
<1>2. CASE suggestion[s].status = "accepted"
  <2>1. suggestion'[s].partial = suggestion[s].partial /\ suggestion[s].partial \in Partials
    BY <1>2, Statuses DEF CallsInv, RowInv
  <2>2. CASE partial[suggestion[s].partial] = "matched"
    BY <2>1, <2>2, Matchings
  <2>3. CASE suggestion[s].partial \in dead
    BY <2>1, <2>3, HistoryGrows
  <2>4. ASSUME NEW j \in Desks, desk[j] = [pc |-> "match", suggestion |-> s]
        PROVE  \/ partial'[suggestion'[s].partial] = "matched"
               \/ suggestion'[s].partial \in dead'
               \/ desk'[j] = [pc |-> "match", suggestion |-> s]
    BY <2>1, <2>4, AcceptGoesOn
  <2>5. QED
    BY <1>2, <2>2, <2>3, <2>4 DEF AcceptedIsMatched
<1>3. QED
  BY <1>1, <1>2, Statuses

\* The acceptance that matches a partial finds its suggestion accepted, or has crossed.
LEMMA RouteStep == TypeOK /\ CallsInv /\ MatchedHasRoute /\ [Next]_vars => MatchedHasRoute'
<1> SUFFICES ASSUME TypeOK, CallsInv, MatchedHasRoute, [Next]_vars,
                    NEW p \in Partials, p \notin crossed', partial'[p] = "matched"
             PROVE  \E s \in Suggestions : suggestion'[s] = [status |-> "accepted", partial |-> p]
  BY DEF MatchedHasRoute
<1>1. p \notin crossed
  BY HistoryGrows
<1>2. PICK s \in Suggestions : suggestion[s] = [status |-> "accepted", partial |-> p]
  <2>1. CASE partial[p] = "matched"
    BY <1>1, <2>1 DEF MatchedHasRoute
  <2>2. ASSUME NEW j \in Desks, Match(j), suggestion[desk[j].suggestion].partial = p
        PROVE  \E s \in Suggestions : suggestion[s] = [status |-> "accepted", partial |-> p]
    <3> DEFINE s == desk[j].suggestion
    <3>1. s \in Suggestions /\ suggestion[s].status = "accepted" /\ suggestion[s].partial = p
      BY <1>1, <2>2 DEF Match, CallsInv, DeskInv
    <3>2. suggestion[s] = [status |-> "accepted", partial |-> p]
      BY <3>1 DEF TypeOK, SuggestionRow
    <3>3. QED
      BY <3>1, <3>2
  <2>3. QED
    BY <2>1, <2>2, Matchings
<1>3. suggestion'[s] = suggestion[s]
  BY <1>2, Statuses
<1>4. QED
  BY <1>2, <1>3

-----------------------------------------------------------------------------
\* The inductive invariant.
THEOREM Invariance == Spec => []IInv
<1>1. Init => IInv
  <2> SUFFICES ASSUME Init PROVE IInv
    OBVIOUS
  <2>1. \A s \in Suggestions : suggestion[s].status = "none"
    BY DEF Init
  <2>2. (\A k \in Scans : scan[k].pc = "idle") /\ (\A j \in Desks : desk[j].pc = "idle")
    BY DEF Init, IdleScan, IdleDesk
  <2>3. TypeOK
    BY ScanEdit DEF Init, TypeOK, SuggestionRow, DeskState, IdleDesk
  <2>4. CallsInv /\ OneLive /\ AcceptedIsMatched
    BY <2>1, <2>2 DEF CallsInv, RowInv, ScanInv, DeskInv, OneLive, Live, AcceptedIsMatched
  <2>5. MatchedHasRoute
    BY DEF Init, MatchedHasRoute
  <2>6. QED
    BY <2>3, <2>4, <2>5 DEF IInv
<1>2. IInv /\ [Next]_vars => IInv'
  BY TypeStep, CallsStep, IndexStep, AcceptedStep, RouteStep DEF IInv
<1>3. QED
  BY <1>1, <1>2, PTL DEF Spec

\* upsertSuggestion and accept: however many scans and dispatchers race, a partial has
\* one live suggestion, and an accepted one takes its partial off the market.
THEOREM SuggestionsHold == Spec => []SuggestionsSound
<1>1. OneLive => OneLiveSuggestion
  <2> SUFFICES ASSUME OneLive, NEW p \in Partials PROVE Cardinality(Live(p)) <= 1
    BY DEF OneLiveSuggestion
  <2>1. CASE Live(p) = {}
    BY <2>1, FS_EmptySet
  <2>2. ASSUME NEW s \in Live(p) PROVE Cardinality(Live(p)) <= 1
    <3>1. Live(p) = {s}
      BY <2>2 DEF OneLive
    <3>2. QED
      BY <3>1, FS_Singleton
  <2>3. QED
    BY <2>1, <2>2
<1>2. IInv => SuggestionsSound
  BY <1>1 DEF IInv, SuggestionsSound
<1>3. QED
  BY <1>2, Invariance, PTL

\* The comment on the dashboard's block: a matched partial is on a route, unless its
\* acceptance met a rescan or a dismissal.
THEOREM MatchedOnRoute == Spec => []MatchedHasRoute
<1>1. IInv => MatchedHasRoute
  BY DEF IInv
<1>2. QED
  BY <1>1, Invariance, PTL

=============================================================================
