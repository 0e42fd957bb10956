---------------------------- MODULE ClientLinks ----------------------------
(***************************************************************************)
(* The projects a client is linked to, with their overrides of the         *)
(* client's rate, employee and notes: LinkedProjectsSection and            *)
(* LinkedProjectOverrideEditor on the record page, and the upsert behind   *)
(* them, which replaces all overrides by those of the request.             *)
(***************************************************************************)
EXTENDS FiniteSets, Naturals

CONSTANTS
  Screens,    \* record pages open on the client
  Fields,     \* overridable fields
  Values,     \* values an override may have
  None,       \* no override: the client's own value shows
  MaxSaves    \* bound: changes asked for

VARIABLES
  link,       \* {} or the overrides of the stored link
  shown,      \* shown[s]: the link a screen shows
  sent,       \* requests under way, numbered
  saves,      \* number of requests so far
  wanted,     \* history: wanted[f]: the override last asked for and answered
  outdated,   \* history: a change was made on a screen that showed another link than the stored one
  reattached  \* history: a linked project was attached again

vars == <<link, shown, sent, saves, wanted, outdated, reattached>>

Overrides == [Fields -> Values \cup {None}]
Plain == [f \in Fields |-> None]
Links == {{}} \cup {{o} : o \in Overrides}

\* The stored link, the screens and the requests have overrides of every field.
TypeOK ==
  /\ link \in Links /\ shown \in [Screens -> Links]
  /\ \A m \in sent : m.n \in 1 .. MaxSaves /\ m.body \in Links /\ m.of \in Fields \cup {None}
  /\ saves \in 0 .. MaxSaves /\ wanted \in Overrides /\ outdated \in BOOLEAN /\ reattached \in BOOLEAN

Init ==
  /\ link = {} /\ shown = [s \in Screens |-> {}]
  /\ sent = {} /\ saves = 0 /\ wanted = Plain /\ outdated = FALSE /\ reattached = FALSE

\* A request is composed from what the screen shows.
Send(s, body, of) ==
  /\ saves < MaxSaves /\ saves' = saves + 1
  /\ sent' = sent \cup {[n |-> saves + 1, body |-> body, of |-> of]}
  /\ outdated' = (outdated \/ shown[s] # link \/ sent # {})
  /\ UNCHANGED <<link, shown, wanted>>

\* A project is attached with no override.  The picker ticks the linked ones but
\* takes a click on them too.
Attach(s) == Send(s, {Plain}, None) /\ reattached' = (reattached \/ shown[s] # {})

\* saveRate, saveEmployee, saveNotes: all overrides, as shown, with the new one.
Save(s, f, v) == \E o \in shown[s] : Send(s, {[o EXCEPT ![f] = v]}, f) /\ UNCHANGED reattached

Unlink(s) == shown[s] # {} /\ Send(s, {}, None) /\ UNCHANGED reattached

\* upsertProjectLink or deleteProjectLink; requests may overtake each other.
Arrive(m) ==
  /\ m \in sent /\ sent' = sent \ {m}
  /\ link' = m.body
  /\ wanted' = IF m.of = None THEN Plain ELSE [wanted EXCEPT ![m.of] = (CHOOSE o \in m.body : TRUE)[m.of]]
  /\ UNCHANGED <<shown, saves, outdated, reattached>>

Fail(m) == m \in sent /\ sent' = sent \ {m} /\ UNCHANGED <<link, shown, saves, wanted, outdated, reattached>>

\* The list is fetched: on opening the page, and after each change answered.
Read(s) == shown[s] # link /\ shown' = [shown EXCEPT ![s] = link] /\ UNCHANGED <<link, sent, saves, wanted, outdated, reattached>>

Next ==
  \/ \E s \in Screens : Attach(s) \/ Unlink(s) \/ Read(s) \/ \E f \in Fields, v \in Values \cup {None} : Save(s, f, v)
  \/ \E m \in sent : Arrive(m) \/ Fail(m)

Spec == Init /\ [][Next]_vars

-----------------------------------------------------------------------------
(* Properties                                                              *)

\* Editing one override leaves the others as they were last set, unless the edit was
\* made on a screen behind the stored link (another change under way, or by someone
\* else), whose old values it then writes back, or the project was attached again,
\* which resets them.
OverridesKept == ~outdated /\ ~reattached => \A o \in link : o = wanted

=============================================================================
