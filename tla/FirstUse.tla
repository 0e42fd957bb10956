----------------------------- MODULE FirstUse -----------------------------
(***************************************************************************)
(* What the first session to ask for it creates: the page of a client, the *)
(* chat thread of a shipment or of a project, and the demonstration rows   *)
(* of an empty yard or wagon board.  All look first and insert later; they *)
(* differ in what the database makes of a second insert.                   *)
(***************************************************************************)
EXTENDS Integers, FiniteSets

CONSTANTS
  Kinds,      \* among "page", "shipment", "project", "yard", "wagons"
  Sessions,   \* sessions that ask
  Seeds       \* number of demonstration rows

VARIABLES
  kind,       \* what is asked for in this behaviour
  count,      \* count[n]: rows made from the n-th definition
  own,        \* rows of the board that users added
  ask,        \* ask[s]: the step of session s, the row it is at, and what it was answered
  crossed     \* history: two sessions were creating at once

vars == <<kind, count, own, ask, crossed>>

Demo == {"yard", "wagons"}
Size == IF kind \in Demo THEN Seeds ELSE 1
Idle == [step |-> "idle", at |-> 1, has |-> {}]
Empty == own = 0 /\ \A n \in 1 .. Seeds : count[n] = 0

\* Sessions are at a step of their request, and only a seeding leaves the first row.
TypeOK ==
  /\ kind \in Kinds /\ count \in [1 .. Seeds -> Nat] /\ own \in 0 .. 1 /\ crossed \in BOOLEAN
  /\ \A s \in Sessions : /\ ask[s].step \in {"idle", "insert", "join", "list", "shown", "failed"}
                         /\ ask[s].at \in 1 .. Size /\ ask[s].has \subseteq 1 .. Seeds

Init ==
  /\ kind \in Kinds
  /\ count = [n \in 1 .. Seeds |-> 0] /\ own = 0 /\ crossed = FALSE
  /\ ask = [s \in Sessions |-> Idle]

There == {n \in 1 .. Seeds : count[n] > 0}
To(s, step) == ask' = [ask EXCEPT ![s].step = step, ![s].has = There]

\* Nothing is there yet; a row of the users' own counts too.
Missing == Empty

\* The handler looks for the row, or for any row of the board.
Ask(s) ==
  /\ ask[s].step = "idle"
  /\ IF Missing
     THEN /\ ask' = [ask EXCEPT ![s] = [Idle EXCEPT !.step = "insert"]]
          /\ crossed' = (crossed \/ \E o \in Sessions : ask[o].step = "insert")
     ELSE To(s, IF kind \in {"shipment", "project"} THEN "join" ELSE "shown") /\ UNCHANGED crossed
  /\ UNCHANGED <<kind, count, own>>

\* createClientPage, createThreadForShipment: on a conflict the row that is there is returned.
InsertOrTouch(s) ==
  /\ ask[s].step = "insert" /\ kind \in {"page", "shipment"}
  /\ count' = [count EXCEPT ![1] = 1]
  /\ ask' = [ask EXCEPT ![s].step = IF kind = "page" THEN "shown" ELSE "join", ![s].has = {1}]
  /\ UNCHANGED <<kind, own, crossed>>

\* createThreadForProject: a second insert meets the unique index and answers 500.
InsertThread(s) ==
  /\ ask[s].step = "insert" /\ kind = "project"
  /\ IF count[1] = 0 THEN count' = [count EXCEPT ![1] = 1] /\ ask' = [ask EXCEPT ![s].step = "join", ![s].has = {1}]
                     ELSE To(s, "failed") /\ UNCHANGED count
  /\ UNCHANGED <<kind, own, crossed>>

\* addParticipant; the answer names the thread.
Join(s) == ask[s].step = "join" /\ ask' = [ask EXCEPT ![s].step = "shown"] /\ UNCHANGED <<kind, count, own, crossed>>

\* seedDemoYard, seedDemoWagons: one insert after the other, under no constraint.
Seed(s) ==
  /\ ask[s].step = "insert" /\ kind \in Demo
  /\ count' = [count EXCEPT ![ask[s].at] = @ + 1]
  /\ ask' = [ask EXCEPT ![s] = IF @.at = Size THEN [@ EXCEPT !.step = "list"] ELSE [@ EXCEPT !.at = @ + 1]]
  /\ UNCHANGED <<kind, own, crossed>>

\* The board is listed once more and answered.
List(s) == ask[s].step = "list" /\ To(s, "shown") /\ UNCHANGED <<kind, count, own, crossed>>

\* A statement fails: 500, with what was inserted kept.
Fail(s) == ask[s].step \in {"insert", "join", "list"} /\ To(s, "failed") /\ UNCHANGED <<kind, count, own, crossed>>

\* The session asks anew.
Leave(s) ==
  ask[s].step \in {"shown", "failed"} /\ ask' = [ask EXCEPT ![s] = Idle] /\ UNCHANGED <<kind, count, own, crossed>>

\* A user adds a zone or a wagon of their own, or deletes a zone.
AddOwn == kind \in Demo /\ own = 0 /\ own' = 1 /\ UNCHANGED <<kind, count, ask, crossed>>
Remove(n) ==
  /\ kind = "yard"
  /\ \/ count[n] > 0 /\ count' = [count EXCEPT ![n] = @ - 1] /\ UNCHANGED own
     \/ own > 0 /\ own' = own - 1 /\ UNCHANGED count
  /\ UNCHANGED <<kind, ask, crossed>>

Next ==
  \/ \E s \in Sessions :
       Ask(s) \/ InsertOrTouch(s) \/ InsertThread(s) \/ Join(s) \/ Seed(s) \/ List(s) \/ Fail(s) \/ Leave(s)
  \/ AddOwn \/ \E n \in 1 .. Seeds : Remove(n)

Spec == Init /\ [][Next]_vars

-----------------------------------------------------------------------------
(* Properties                                                              *)

\* Whoever is answered has the one page or thread that is there, also the second of
\* two sessions that both found none.
ShownIsThere ==
  kind \notin Demo => \A s \in Sessions : ask[s].step = "shown" => ask[s].has = {1} /\ count[1] = 1

\* No demonstration row stands twice, even after a seeding that failed half-way or
\* rows that users deleted, unless two sessions were creating at once.
SeededOnce == ~crossed => \A n \in 1 .. Seeds : count[n] <= 1

=============================================================================
