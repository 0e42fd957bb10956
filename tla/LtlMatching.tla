----------------------------- MODULE LtlMatching -----------------------------
(***************************************************************************)
(* Groupage matching of one company: domains/ltl.  A scan lists the open   *)
(* partial loads, asks the matching engine for profitable insertions and   *)
(* replaces each partial's live suggestion, by a DELETE and an INSERT.     *)
(* Dispatchers accept or dismiss suggestions meanwhile.  What the engine   *)
(* finds profitable is free.                                               *)
(***************************************************************************)
EXTENDS Naturals, FiniteSets

CONSTANTS
  Partials,     \* ids of partial_loads rows
  Suggestions,  \* ids of ltl_suggestions rows
  Scans,        \* POST /ltl/scan calls that may be in flight together
  Desks,        \* accept and dismiss calls that may be in flight together
  DemoSize,     \* length of DEMO_PARTIALS
  None

ASSUME LtlAssumption ==
  /\ DemoSize \in Nat
  /\ None \notin Partials \cup Suggestions

VARIABLES
  partial,     \* partial[p]: "none" until the row exists, then its status
  suggestion,  \* suggestion[s]: the ltl_suggestions row
  scan,        \* scan[k]: progress of one scan
  desk,        \* desk[j]: progress of one accept or dismiss call
  dead,        \* history: the partials a request died about, between two statements
  crossed      \* history: the partials whose acceptance met a rescan or a dismissal

vars == <<partial, suggestion, scan, desk, dead, crossed>>
history == <<dead, crossed>>

SuggestionRow == [status  : {"none", "suggested", "accepted", "dismissed", "deleted"},
                  partial : Partials \cup {None}]

ScanState == [pc   : {"idle", "seed", "list", "save", "insert"},
              left : 0 .. DemoSize,            \* demo partials still to insert
              todo : SUBSET Partials,          \* partials the engine has found a route for
              now  : Partials \cup {None}]     \* the one whose suggestion was deleted

DeskState == [pc : {"idle", "accept", "dismiss", "match"},
              suggestion : Suggestions \cup {None}]

IdleScan == [pc |-> "idle", left |-> 0, todo |-> {}, now |-> None]
IdleDesk == [pc |-> "idle", suggestion |-> None]

\* Every row and every call in flight is in its range.
TypeOK ==
  /\ partial \in [Partials -> {"none", "open", "matched"}]
  /\ suggestion \in [Suggestions -> SuggestionRow]
  /\ scan \in [Scans -> ScanState]
  /\ desk \in [Desks -> DeskState]
  /\ dead \cup crossed \subseteq Partials

Init ==
  /\ partial = [p \in Partials |-> "none"]
  /\ suggestion = [s \in Suggestions |-> [status |-> "none", partial |-> None]]
  /\ scan = [k \in Scans |-> IdleScan]
  /\ desk = [j \in Desks |-> IdleDesk]
  /\ dead = {} /\ crossed = {}

\* Mutant: answered suggestions count as live ones.
LiveAnswered(p) ==
  {s \in Suggestions : suggestion[s].partial = p /\ suggestion[s].status \in {"suggested", "accepted"}}

\* Suggestions not inserted yet; the live ones of a partial.
Fresh == {s \in Suggestions : suggestion[s].status = "none"}
Live(p) == {s \in Suggestions : suggestion[s].status = "suggested" /\ suggestion[s].partial = p}

-----------------------------------------------------------------------------
\* createPartial, by a dispatcher or for the demonstration data.
Insert(p) ==
  /\ partial[p] = "none"
  /\ partial' = [partial EXCEPT ![p] = "open"]

CreatePartial(p) == Insert(p) /\ UNCHANGED <<suggestion, scan, desk, history>>

\* ensureDemoPartials counts the rows; with none it inserts the demo, row by row.
ScanStart(k) ==
  /\ scan[k].pc = "idle"
  /\ scan' = [scan EXCEPT ![k] =
       IF \A p \in Partials : partial[p] = "none"
         THEN [IdleScan EXCEPT !.pc = "seed", !.left = DemoSize]
         ELSE [IdleScan EXCEPT !.pc = "list"]]
  /\ UNCHANGED <<partial, suggestion, desk, history>>

ScanSeed(k, p) ==
  /\ scan[k].pc = "seed"
  /\ scan[k].left > 0
  /\ Insert(p)
  /\ scan' = [scan EXCEPT ![k].left = @ - 1]
  /\ UNCHANGED <<suggestion, desk, history>>

ScanSeeded(k) ==
  /\ scan[k].pc = "seed"
  /\ scan[k].left = 0
  /\ scan' = [scan EXCEPT ![k].pc = "list"]
  /\ UNCHANGED <<partial, suggestion, desk, history>>

\* listOpenPartials.
Offered == {p \in Partials : partial[p] = "open"}

\* The open partials go to the engine, which answers with some of them.
ScanList(k, found) ==
  /\ scan[k].pc = "list"
  /\ found \subseteq Offered
  /\ scan' = [scan EXCEPT ![k] =
       IF found = {} THEN IdleScan ELSE [IdleScan EXCEPT !.pc = "save", !.todo = found]]
  /\ UNCHANGED <<partial, suggestion, desk, history>>

\* upsertSuggestion, first statement: delete the partial's live suggestion.
ScanDelete(k, p) ==
  /\ scan[k].pc = "save"
  /\ p \in scan[k].todo
  /\ Cardinality(Fresh) > Cardinality({i \in Scans : scan[i].pc = "insert"})  \* bound: ids left
  /\ suggestion' = [s \in Suggestions |->
       IF s \in Live(p) THEN [suggestion[s] EXCEPT !.status = "deleted"] ELSE suggestion[s]]
  /\ scan' = [scan EXCEPT ![k].pc = "insert", ![k].todo = @ \ {p}, ![k].now = p]
  /\ UNCHANGED <<partial, desk, history>>

\* Mutant: no unique index.
IndexFreeAlways(p) == TRUE

\* The partial unique index: no other suggestion of the partial is live.
IndexFree(p) == Live(p) = {}

\* Mutant: the scan goes on without the INSERT.
InsertSkipped(k, s) ==
  /\ scan[k].pc = "insert"
  /\ s \in Fresh
  /\ IndexFree(scan[k].now)
  /\ scan' = [scan EXCEPT ![k] =
       IF scan[k].todo = {} THEN IdleScan ELSE [@ EXCEPT !.pc = "save", !.now = None]]
  /\ UNCHANGED <<partial, suggestion, desk, history>>

\* upsertSuggestion, second statement: insert the new one.
ScanInsert(k, s) ==
  /\ scan[k].pc = "insert"
  /\ s \in Fresh
  /\ IndexFree(scan[k].now)
  /\ suggestion' = [suggestion EXCEPT ![s] = [status |-> "suggested", partial |-> scan[k].now]]
  /\ scan' = [scan EXCEPT ![k] =
       IF scan[k].todo = {} THEN IdleScan ELSE [@ EXCEPT !.pc = "save", !.now = None]]
  /\ UNCHANGED <<partial, desk, history>>

\* The INSERT breaks the index: the scan answers 500, its other finds are lost.
ScanClash(k) ==
  /\ scan[k].pc = "insert"
  /\ ~IndexFree(scan[k].now)
  /\ scan' = [scan EXCEPT ![k] = IdleScan]
  /\ UNCHANGED <<partial, suggestion, desk, history>>

\* The engine does not answer (502), or the scan dies.
ScanFail(k) ==
  /\ scan[k].pc # "idle"
  /\ scan' = [scan EXCEPT ![k] = IdleScan]
  /\ dead' = dead \cup ({scan[k].now} \ {None})
  /\ UNCHANGED <<partial, suggestion, desk, crossed>>

-----------------------------------------------------------------------------
\* accept and dismiss both find the suggestion first, whatever its status.
DeskFind(j, s, pc) ==
  /\ desk[j].pc = "idle"
  /\ suggestion[s].status \in {"suggested", "accepted", "dismissed"}
  /\ desk' = [desk EXCEPT ![j] = [pc |-> pc, suggestion |-> s]]
  /\ UNCHANGED <<partial, suggestion, scan, history>>

\* setSuggestionStatus: no row is updated when a scan has deleted it.
SetStatus(s, status) ==
  suggestion' = [suggestion EXCEPT ![s].status = IF @ = "deleted" THEN @ ELSE status]

\* The partial goes on record when its suggestion has the given status.
CrossedIf(s, status) ==
  crossed' = crossed \cup {p \in Partials : suggestion[s] = [status |-> status, partial |-> p]}

Accept(j) ==
  /\ desk[j].pc = "accept"
  /\ SetStatus(desk[j].suggestion, "accepted")
  /\ CrossedIf(desk[j].suggestion, "deleted")
  /\ desk' = [desk EXCEPT ![j].pc = "match"]
  /\ UNCHANGED <<partial, scan, dead>>

\* accept, last statement: the partial is matched, even when no suggestion was.
Match(j) ==
  /\ desk[j].pc = "match"
  /\ partial' = [partial EXCEPT ![suggestion[desk[j].suggestion].partial] = "matched"]
  /\ desk' = [desk EXCEPT ![j] = IdleDesk]
  /\ UNCHANGED <<suggestion, scan, history>>

Dismiss(j) ==
  /\ desk[j].pc = "dismiss"
  /\ SetStatus(desk[j].suggestion, "dismissed")
  /\ CrossedIf(desk[j].suggestion, "accepted")
  /\ desk' = [desk EXCEPT ![j] = IdleDesk]
  /\ UNCHANGED <<partial, scan, dead>>

\* The request dies; between the two statements of accept it leaves a trace.
DeskFail(j) ==
  /\ desk[j].pc # "idle"
  /\ dead' = dead \cup (IF desk[j].pc = "match"
                          THEN {suggestion[desk[j].suggestion].partial} ELSE {})
  /\ desk' = [desk EXCEPT ![j] = IdleDesk]
  /\ UNCHANGED <<partial, suggestion, scan, crossed>>

-----------------------------------------------------------------------------
ScanStep(k) ==
  \/ \E p \in Partials : ScanSeed(k, p)
  \/ ScanSeeded(k)
  \/ \E found \in SUBSET Partials : ScanList(k, found)
  \/ \E p \in Partials : ScanDelete(k, p)
  \/ \E s \in Suggestions : ScanInsert(k, s)
  \/ ScanClash(k)

DeskStep(j) == Accept(j) \/ Match(j) \/ Dismiss(j)

Next ==
  \/ \E p \in Partials : CreatePartial(p)
  \/ \E k \in Scans : ScanStart(k) \/ ScanStep(k) \/ ScanFail(k)
  \/ \E j \in Desks, s \in Suggestions, pc \in {"accept", "dismiss"} : DeskFind(j, s, pc)
  \/ \E j \in Desks : DeskStep(j) \/ DeskFail(j)

Spec == Init /\ [][Next]_vars

\* A scan that has started runs on; nobody is obliged to start one.
FairSpec == Spec /\ \A k \in Scans : WF_vars(ScanStep(k))

-----------------------------------------------------------------------------
(* Properties                                                              *)

\* Two scans that replace the suggestion of one partial never leave two live
\* ones, though each deletes and inserts in separate statements.
OneLiveSuggestion == \A p \in Partials : Cardinality(Live(p)) <= 1

\* An accepted suggestion has taken its partial off the market, or the request
\* that accepted it is about to, or died about it: no scan puts it back.
AcceptedIsMatched ==
  \A s \in Suggestions : suggestion[s].status = "accepted" =>
    \/ partial[suggestion[s].partial] = "matched"
    \/ suggestion[s].partial \in dead
    \/ \E j \in Desks : desk[j] = [pc |-> "match", suggestion |-> s]

\* The comment on the dashboard's block: accepting adds the partial to the
\* route.  A matched partial has an accepted suggestion, and so is on a route,
\* unless its acceptance met a rescan that had deleted the suggestion, or the
\* suggestion was dismissed after it was accepted.
MatchedHasRoute ==
  \A p \in Partials \ crossed : partial[p] = "matched" =>
    \E s \in Suggestions : suggestion[s] = [status |-> "accepted", partial |-> p]

\* A suggestion that a scan deletes is replaced, by the scan or by the rival
\* that beat it to the index, unless the scan dies.
DeletedIsReplaced ==
  \A k \in Scans, p \in Partials :
    (scan[k].now = p) ~> (Live(p) # {} \/ partial[p] = "matched" \/ p \in dead)

\* Scans and desks keep to the index and to each other: everything is in its
\* range, a partial has one live suggestion, an accepted one took its partial.
SuggestionsSound == TypeOK /\ OneLiveSuggestion /\ AcceptedIsMatched

=============================================================================
