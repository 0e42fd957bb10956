------------------------------- MODULE KpiRules -------------------------------
(***************************************************************************)
(* The KPI rules of a company and their evaluation (domains/kpi): a rule   *)
(* is checked and then written, a run lists the active rules, evaluates    *)
(* them one by one and inserts a row for each output, while members and    *)
(* projects come and go.  Values, thresholds and periods are left out.     *)
(***************************************************************************)
EXTENDS FiniteSets, Naturals

CONSTANTS
  RuleIds,     \* ids of kpi_rules
  Members,     \* users and clients of the company
  Accounts,    \*   of whom these are clients, which no request deletes
  Projects,    \* its projects
  Strangers,   \* users of another company
  MaxWrites      \* bound: rules inserted and updated

VARIABLES
  rules,       \* rules[r]: {} or the row
  gone,        \* rows deleted: rules, members and projects
  assigned,    \* project_assignments: <<project, user>>
  req,         \* {} or the rule that a request has checked and goes on to write
  writes,      \* rules inserted and updated so far, or tried to be
  run,         \* the last run of the evaluation
  results,     \* kpi_results: <<rule, user or client>>
  changed      \* history: rules updated while a run or a result was about them

vars == <<rules, gone, assigned, req, writes, run, results, changed>>

Sources == {"activity_volume", "outlook_calendar", "credit_risk"}
Staff == Members \ Accounts
AtMostOne(S) == {{}} \cup {{x} : x \in S}

\* CreateKpiRuleSchema, and the row; a source without an evaluator has the targets
\* of activity_volume, and a rule that is not active is as good as none to a run.
Body == [source : Sources, project : AtMostOne(Projects), user : AtMostOne(Staff \cup Strangers),
         client : AtMostOne(Accounts)]
NoRun == [pc |-> "none", todo |-> {}, at |-> {}, outputs |-> {}, due |-> {}, report |-> {}]

\* Every row, request and run is in its range.
TypeOK ==
  /\ \A r \in RuleIds : rules[r] \subseteq Body /\ Cardinality(rules[r]) <= 1
  /\ gone \subseteq RuleIds \cup Staff \cup Projects /\ assigned \subseteq Projects \X Staff
  /\ req \subseteq [does : {"insert", "update"}, id : RuleIds, data : Body] /\ writes \in 0 .. MaxWrites
  /\ run.pc \in {"none", "loop", "answered", "failed"} /\ run.at \in AtMostOne(RuleIds)
  /\ run.todo \subseteq [id : RuleIds, row : Body] /\ run.outputs \subseteq Members
  /\ results \subseteq RuleIds \X Members /\ changed \subseteq RuleIds

Init ==
  /\ rules = [r \in RuleIds |-> {}] /\ gone = {} /\ assigned = {} /\ req = {} /\ writes = 0
  /\ run = NoRun /\ results = {} /\ changed = {}

There(r) == rules[r] # {}

-----------------------------------------------------------------------------
(* Rules                                                                   *)

\* Mutant: who is named is not asked for.
OwnedProject(b) == b.project \cap gone = {}

\* assertOwnedProject, assertOwnedUser, assertOwnedClient.
Owned(b) == (b.project \cup b.user) \cap (gone \cup Strangers) = {}

\* createRule, up to its INSERT, which takes a new id.
Create(r, b) ==
  /\ req = {} /\ writes < MaxWrites /\ ~There(r) /\ r \notin gone
  /\ Owned(b)
  /\ req' = {[does |-> "insert", id |-> r, data |-> b]}
  /\ writes' = writes + 1
  /\ UNCHANGED <<rules, gone, assigned, run, results, changed>>

\* updateRule, up to its UPDATE.
Change(r, b) ==
  /\ req = {} /\ writes < MaxWrites /\ There(r)
  /\ Owned(b)
  /\ req' = {[does |-> "update", id |-> r, data |-> b]}
  /\ writes' = writes + 1
  /\ UNCHANGED <<rules, gone, assigned, run, results, changed>>

\* The foreign keys of a rule.
References(row) == (row.project \cup row.user) \cap gone = {}

\* The INSERT has no column for the client that was checked.
Insert ==
  \E q \in req :
    /\ q.does = "insert" /\ References(q.data)
    /\ rules' = [rules EXCEPT ![q.id] = {[q.data EXCEPT !.client = {}]}]
    /\ req' = {} /\ UNCHANGED <<gone, assigned, writes, run, results, changed>>

\* COALESCE keeps what is not given; the client has no column here either.
Merged(row, data) ==
  [row EXCEPT !.source = data.source,
              !.project = IF data.project = {} THEN @ ELSE data.project,
              !.user = IF data.user = {} THEN @ ELSE data.user]

Update ==
  \E q \in req :
    /\ q.does = "update"
    /\ \E row \in rules[q.id] :
         /\ References(Merged(row, q.data))
         /\ rules' = [rules EXCEPT ![q.id] = {Merged(row, q.data)}]
    /\ changed' = IF run.pc = "loop" \/ \E x \in results : x[1] = q.id
                  THEN changed \cup {q.id} ELSE changed
    /\ req' = {} /\ UNCHANGED <<gone, assigned, writes, run, results>>

\* A rule or a target is gone since it was checked, or the statement fails.
WriteFails ==
  /\ req # {} /\ req' = {}
  /\ UNCHANGED <<rules, gone, assigned, writes, run, results, changed>>

-----------------------------------------------------------------------------
(* What rules and results depend on                                        *)

\* ON DELETE CASCADE, of whatever refers to the row.
Drop(x) ==
  LET dropped == {r \in RuleIds : x = r \/ \E row \in rules[r] : x \in row.project \cup row.user} IN
  /\ gone' = gone \cup {x} \cup dropped
  /\ rules' = [r \in RuleIds |-> IF r \in dropped THEN {} ELSE rules[r]]
  /\ assigned' = {a \in assigned : x \notin {a[1], a[2]}}
  /\ results' = {y \in results : y[1] \notin dropped /\ y[2] # x}
  /\ UNCHANGED <<req, writes, run, changed>>

\* deleteRule.
Delete(r) == There(r) /\ Drop(r)

\* removeMember and the deletion of a project.
Remove(x) == x \notin gone /\ Drop(x)

\* assignProject.
Assign(p, u) ==
  /\ {p, u} \cap gone = {} /\ <<p, u>> \notin assigned
  /\ assigned' = assigned \cup {<<p, u>>}
  /\ UNCHANGED <<rules, gone, req, writes, run, results, changed>>

Unassign(a) ==
  /\ assigned' = assigned \ {a}
  /\ UNCHANGED <<rules, gone, req, writes, run, results, changed>>

-----------------------------------------------------------------------------
(* A run                                                                   *)

\* listActiveRules.
Listed == UNION {[id : {r}, row : rules[r]] : r \in RuleIds}

\* runEvaluation; a run inserts nothing that another one reads.
Run ==
  /\ run.pc = "none"
  /\ run' = [NoRun EXCEPT !.pc = "loop", !.todo = Listed]
  /\ UNCHANGED <<rules, gone, assigned, req, writes, results, changed>>

Assignees(row) == {u \in Staff : \E p \in row.project : <<p, u>> \in assigned}

\* Mutant: the project goes before the member.
ProjectFirst(row) == IF row.project # {} THEN Assignees(row) ELSE row.user

\* resolveTargetUsers.
TargetUsers(row) == IF row.user # {} THEN row.user ELSE Assignees(row)

\* The calendar is compared with the shares that are planned of a project.
PlannedUsers(row) == {u \in Assignees(row) : row.user \in {{}, {u}}}

\* resolveTargetClients: the one of the rule, or all there are.
TargetClients(row) == IF row.client # {} THEN row.client ELSE Accounts

\* getEvaluator.
Targets(row) ==
  CASE row.source = "activity_volume" -> TargetUsers(row)
    [] row.source = "outlook_calendar" -> PlannedUsers(row)
    [] row.source = "credit_risk" -> TargetClients(row)

\* The next rule is evaluated as it was listed, on what is there now.
Evaluate(s) ==
  /\ run.pc = "loop" /\ run.outputs = {} /\ s \in run.todo
  /\ run' = [run EXCEPT !.todo = @ \ {s}, !.at = {s.id}, !.outputs = Targets(s.row),
                        !.due = @ \cup ({s.id} \X Targets(s.row))]
  /\ UNCHANGED <<rules, gone, assigned, req, writes, results, changed>>

\* upsertResult inserts a row for an output.
Store(u) ==
  \E r \in run.at :
    /\ run.pc = "loop" /\ u \in run.outputs /\ There(r) /\ u \notin gone
    /\ results' = results \cup {<<r, u>>}
    /\ run' = [run EXCEPT !.outputs = @ \ {u}, !.report = @ \cup {<<r, u>>}]
    /\ UNCHANGED <<rules, gone, assigned, req, writes, changed>>

\* Mutant: an output that cannot be stored is passed over.
PassOver ==
  /\ run.pc = "loop"
  /\ \E u \in run.outputs : run' = [run EXCEPT !.outputs = @ \ {u}]
  /\ UNCHANGED <<rules, gone, assigned, req, writes, results, changed>>

\* A foreign key refuses the row, or a statement fails: 500, without a report, and
\* what was stored stays.
RunFails ==
  /\ run.pc = "loop"
  /\ run' = [NoRun EXCEPT !.pc = "failed"]
  /\ UNCHANGED <<rules, gone, assigned, req, writes, results, changed>>

Answer ==
  /\ run.pc = "loop" /\ run.todo = {} /\ run.outputs = {}
  /\ run' = [run EXCEPT !.pc = "answered"]
  /\ UNCHANGED <<rules, gone, assigned, req, writes, results, changed>>

Next ==
  \/ \E r \in RuleIds, b \in Body : Create(r, b) \/ Change(r, b)
  \/ Insert \/ Update \/ WriteFails
  \/ \E r \in RuleIds : Delete(r)
  \/ \E x \in Staff \cup Projects : Remove(x)
  \/ \E p \in Projects, u \in Staff : Assign(p, u)
  \/ \E a \in assigned : Unassign(a)
  \/ Run \/ \E s \in run.todo : Evaluate(s)
  \/ \E u \in run.outputs : Store(u)
  \/ RunFails \/ Answer

Spec == Init /\ [][Next]_vars

-----------------------------------------------------------------------------
(* Properties                                                              *)

\* A company's rules and their results are about its own people and projects, and
\* about what is still there, through checks, updates and deletions.
OwnSubjects ==
  /\ \A r \in RuleIds : \A row \in rules[r] : (row.project \cup row.user) \cap (gone \cup Strangers) = {}
  /\ \A x \in results : There(x[1]) /\ x[2] \in Members \ gone

\* A run that is answered has stored and reports a result for every output of every
\* rule, unless its rule or its subject was deleted since.
AnsweredIsStored ==
  run.pc = "answered" =>
    /\ run.report = run.due
    /\ \A x \in run.report : x \in results \/ {x[1], x[2]} \cap gone # {}

\* A rule for one member brings no results about others, nor one for the workload of
\* a project if it names none, unless it was changed with results or during a run.
\* A rule for one client does: the service checks that client and nothing stores it.
AboutTheTarget ==
  \A x \in results : \A row \in rules[x[1]] :
    x[1] \notin changed =>
      /\ x[2] \in Accounts <=> row.source = "credit_risk"
      /\ row.source # "credit_risk" /\ row.user # {} => x[2] \in row.user
      /\ row.source = "outlook_calendar" => row.project # {}

=============================================================================
