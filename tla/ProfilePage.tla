----------------------------- MODULE ProfilePage ------------------------------
(***************************************************************************)
(* A form of the profile page (app/profile/page.tsx) and its handlers      *)
(* (profileController.ts): filled from the session or from loads that      *)
(* start with its tab, and saved whole.  Init picks which form it is; the  *)
(* three share a row with nobody but the colleagues.  A field's value is   *)
(* 0, what an empty form holds, 1, what the registration stored, or the    *)
(* number of the edit that made it.                                        *)
(***************************************************************************)
EXTENDS Naturals

CONSTANTS
  MaxProfileEdits, \* bound: 1 and the edits made, the colleagues' included
  MaxGets, MaxPuts \* bounds: requests under way at once

VARIABLES
  kind,      \* "overview", "company" or "notifications"
  row,       \* the stored fields, or nothing: only a registration creates preferences
  session,   \* the main field in the session's copy of the user
  check,     \* the /auth/me of this page load
  tab,       \* the form's tab is "shown", "hidden" behind another, or the page is "left"
  form,      \* the fields on the page
  loads,     \* loads[n]: a GET of the form
  saves,     \* saves[n]: a PUT of the form
  saving,    \* the save whose answer the page waits for, 0 when for none
  edits,     \* the number of the last edit
  typed,     \* history: fields typed since the page was opened
  known,     \* history: fields that have held what is stored
  settled,   \* history: fields loaded or saved, and not typed since
  crossed,   \* history: requests and edits have met, or one has failed
  unseen,    \* history: fields sent that were neither typed nor known
  lost       \* history: fields whose stored value a save replaced untyped

visit == <<tab, form, typed, known, settled>>
past == <<crossed, unseen, lost>>
vars == <<kind, row, session, check, visit, loads, saves, saving, edits, past>>

\* The names and the telephone number; the company's name and its address; the
\* switch and the frequency of notifications.
Fields == {"main", "other"}
FieldValues == 0 .. MaxProfileEdits
Rows == [Fields -> FieldValues]
Blank == [k \in Fields |-> 0]
Gets == 1 .. MaxGets
Puts == 1 .. MaxPuts
NoLoad == [pc |-> "none", got |-> {}]
NoSave == [pc |-> "none", sent |-> Blank, own |-> {}]
Saving == \E n \in Puts : saves[n].pc # "none"
Loading == \E n \in Gets : loads[n].pc # "none"
Free(reqs) == {n \in DOMAIN reqs : reqs[n].pc = "none" /\ \A m \in 1 .. n - 1 : reqs[m].pc # "none"}

\* Every row, form and request is in its range.
TypeOK ==
  /\ kind \in {"overview", "company", "notifications"}
  /\ row \in SUBSET Rows /\ form \in Rows /\ session \in FieldValues
  /\ check.pc \in {"none", "asked", "read"} /\ check.got \in FieldValues
  /\ tab \in {"shown", "hidden", "left"} /\ saving \in 0 .. MaxPuts /\ edits \in 1 .. MaxProfileEdits
  /\ \A n \in Gets : loads[n].pc \in {"none", "asked", "read"}
  /\ \A n \in Puts : saves[n].pc \in {"none", "sent", "written"}
  /\ typed \cup known \cup settled \cup unseen \cup lost \subseteq Fields /\ crossed \in BOOLEAN

Init ==
  /\ kind \in {"overview", "company", "notifications"}
  /\ row \in {{[k \in Fields |-> 1]}} \cup (IF kind = "notifications" THEN {{}} ELSE {})
  /\ session = 1
  /\ check = [pc |-> IF kind = "overview" THEN "asked" ELSE "none", got |-> 0]
  /\ tab = "left" /\ form = Blank /\ typed = {} /\ known = {} /\ settled = {}
  /\ loads = [n \in Gets |-> NoLoad] /\ saves = [n \in Puts |-> NoSave] /\ saving = 0
  /\ edits = 1 /\ crossed = FALSE /\ unseen = {} /\ lost = {}

-----------------------------------------------------------------------------
\* The page mounts on its first tab; its forms are empty but for the names of the
\* session.
Open ==
  /\ tab = "left"
  /\ typed' = {} /\ settled' = {} /\ unseen' = {} /\ lost' = {} /\ crossed' = Saving
  /\ IF kind = "overview"
       THEN /\ tab' = "shown"
            /\ form' = [Blank EXCEPT !["main"] = session]
            /\ known' = {k \in {"main"} : \E r \in row : r[k] = session}
       ELSE tab' = "hidden" /\ form' = Blank /\ known' = {}
  /\ UNCHANGED <<kind, row, session, check, loads, saves, saving, edits>>

\* Another page: the loads have nowhere to go, the saves run on.
Leave ==
  /\ tab # "left"
  /\ tab' = "left" /\ form' = Blank /\ typed' = {} /\ known' = {} /\ settled' = {}
  /\ loads' = [n \in Gets |-> NoLoad] /\ saving' = 0
  /\ UNCHANGED <<kind, row, session, check, saves, edits, past>>

\* setActiveTab: this form's tab starts a load, which no other tab calls off.
Turn ==
  /\ tab # "left"
  /\ tab' = IF tab = "shown" THEN "hidden" ELSE "shown"
  /\ IF tab = "shown" \/ kind = "overview" THEN UNCHANGED <<loads, crossed>>
     ELSE /\ \E n \in Free(loads) : loads' = [loads EXCEPT ![n].pc = "asked"]
          /\ crossed' = (crossed \/ Saving \/ Loading)
  /\ UNCHANGED <<kind, row, session, check, form, typed, known, settled, saves, saving, edits, unseen, lost>>

\* getCompany and getPreferences.
Read(n) ==
  /\ loads[n].pc = "asked"
  /\ loads' = [loads EXCEPT ![n] = [pc |-> "read", got |-> row]]
  /\ UNCHANGED <<kind, row, session, check, visit, saves, saving, edits, past>>

\* Fields become what was read, whatever the form held.
Fill(ks, got) ==
  /\ form' = [k \in Fields |-> IF k \in ks THEN got[k] ELSE form[k]]
  /\ known' = known \cup ks /\ settled' = settled \cup ks

\* fetchCompany, fetchPreferences.
Loaded(n) ==
  /\ loads[n].pc = "read"
  /\ \E got \in loads[n].got : Fill(Fields, got)
  /\ loads' = [loads EXCEPT ![n] = NoLoad]
  /\ UNCHANGED <<kind, row, session, check, tab, saves, saving, edits, typed, past>>

\* A load that fails, or brings no row, leaves the form as it is and says nothing.
NotLoaded(n) ==
  /\ loads[n].pc # "none"
  /\ loads' = [loads EXCEPT ![n] = NoLoad]
  /\ UNCHANGED <<kind, row, session, check, visit, saves, saving, edits, past>>

\* getMe.
CheckRead ==
  /\ check.pc = "asked"
  /\ \E r \in row : check' = [pc |-> "read", got |-> r["main"]]
  /\ UNCHANGED <<kind, row, session, visit, loads, saves, saving, edits, past>>

\* AuthProvider takes the user /auth/me answers, and the effect on user sets the
\* names on the page, typed or not.
Checked ==
  /\ check.pc = "read"
  /\ check' = [pc |-> "none", got |-> 0]
  /\ session' = check.got
  /\ IF tab = "left" THEN UNCHANGED <<form, known, settled, crossed>>
     ELSE /\ Fill({"main"}, [Blank EXCEPT !["main"] = check.got])
          /\ crossed' = (crossed \/ Saving \/ \E r \in row : check.got # r["main"])
  /\ UNCHANGED <<kind, row, tab, loads, saves, saving, edits, typed, unseen, lost>>

Unchecked ==
  /\ check.pc # "none"
  /\ check' = [pc |-> "none", got |-> 0]
  /\ UNCHANGED <<kind, row, session, visit, loads, saves, saving, edits, past>>

-----------------------------------------------------------------------------
\* The inputs and toggles of the form.
Type(k) ==
  /\ tab = "shown" /\ edits < MaxProfileEdits
  /\ edits' = edits + 1
  /\ form' = [form EXCEPT ![k] = edits']
  /\ typed' = typed \cup {k} /\ settled' = settled \ {k}
  /\ crossed' = (crossed \/ Saving \/ Loading)
  /\ UNCHANGED <<kind, row, session, check, tab, loads, saves, saving, known, unseen, lost>>

\* saveProfile, saveCompany, saveNotifications: the form as it is, one at a time.
Save(n) ==
  /\ tab = "shown" /\ saving = 0 /\ n \in Free(saves)
  /\ saving' = n
  /\ saves' = [saves EXCEPT ![n] = [pc |-> "sent", sent |-> form, own |-> typed]]
  /\ unseen' = unseen \cup (Fields \ (typed \cup known))
  /\ crossed' = (crossed \/ Saving \/ Loading)
  /\ UNCHANGED <<kind, row, session, check, visit, loads, edits, lost>>

\* Mutant: what was not typed is sent empty.
WrittenBlank(s) == {[k \in Fields |-> IF k \in s.own THEN s.sent[k] ELSE 0] : r \in row}

\* COALESCE takes what is sent, an empty text too; an UPDATE of a row there is not
\* changes nothing.
Written(s) == {s.sent : r \in row}

\* updateProfile, updateCompany, updatePreferences.
Write(n) ==
  LET s == saves[n] IN
  /\ s.pc = "sent"
  /\ row' = Written(s)
  /\ lost' = lost \cup {k \in Fields \ s.own : \E r \in row, w \in row' : w[k] # r[k]}
  /\ saves' = [saves EXCEPT ![n].pc = "written"]
  /\ UNCHANGED <<kind, session, check, visit, loads, saving, edits, crossed, unseen>>

\* "Saved!", which is said of preferences whatever the status of the answer.
Report(n) ==
  IF saving = n THEN saving' = 0 /\ settled' = Fields /\ known' = Fields
  ELSE UNCHANGED <<saving, settled, known>>

Saved(n) ==
  /\ saves[n].pc = "written"
  /\ saves' = [saves EXCEPT ![n] = NoSave]
  /\ Report(n)
  /\ UNCHANGED <<kind, row, session, check, tab, form, loads, edits, typed, past>>

\* The PUT, or its answer, is lost.
SaveFails(n) ==
  /\ saves[n].pc # "none"
  /\ saves' = [saves EXCEPT ![n] = NoSave]
  /\ crossed' = TRUE
  /\ \/ kind = "notifications" /\ Report(n)
     \/ saving' = (IF saving = n THEN 0 ELSE saving) /\ UNCHANGED <<settled, known>>
  /\ UNCHANGED <<kind, row, session, check, tab, form, loads, edits, typed, unseen, lost>>

\* A colleague saves a field of the company.
Elsewhere(k) ==
  /\ kind = "company" /\ edits < MaxProfileEdits
  /\ edits' = edits + 1
  /\ row' = {[r EXCEPT ![k] = edits'] : r \in row}
  /\ crossed' = TRUE
  /\ UNCHANGED <<kind, session, check, visit, loads, saves, saving, unseen, lost>>

Next ==
  \/ Open \/ Leave \/ Turn \/ CheckRead \/ Checked \/ Unchecked
  \/ \E k \in Fields : Type(k) \/ Elsewhere(k)
  \/ \E n \in Gets : Read(n) \/ Loaded(n) \/ NotLoaded(n)
  \/ \E n \in Puts : Save(n) \/ Write(n) \/ Saved(n) \/ SaveFails(n)

Spec == Init /\ [][Next]_vars

-----------------------------------------------------------------------------
(* Properties                                                              *)

\* "Profile updated successfully!" (page.tsx): a field that was loaded or saved,
\* and not typed since, shows what is stored, once its requests are answered.
\* That fails only where requests and edits met, where a save failed, where a
\* colleague saved, and for a member who has no row of preferences.
SettledIsStored ==
  ~(Saving \/ Loading \/ crossed) /\ check.pc = "none" =>
    \A k \in settled : \A r \in row : form[k] = r[k]

\* A save changes nothing the user did not type, but for fields sent before they
\* were loaded, which the telephone number always is, and where requests met.
OnlyTypedIsChanged == crossed \/ lost \subseteq unseen

=============================================================================
