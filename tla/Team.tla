------------------------------- MODULE Team -------------------------------
(***************************************************************************)
(* Accounts and team management: signup and login (authController.ts) and  *)
(* the team service, as the team page drives it.  A request checks what it *)
(* needs and writes later; who may manage is read from the token, which is *)
(* as old as the login.  Passwords and profile columns are left out.       *)
(***************************************************************************)
EXTENDS FiniteSets, Naturals

CONSTANTS
  Companies,   \* ids of company rows (with the workspace that goes with each, and one project)
  Users,       \* ids of user rows
  Emails,      \* sign-in addresses, unique in the users table
  Requests     \* requests under way at once

VARIABLES
  companies,   \* company rows
  users,       \* users[u]: {} or the row
  token,       \* token[u]: {} or the claims of the token u holds
  assigned,    \* project_assignments: <<project's company, user>>
  req,         \* req[q]: {} or what a request goes on to write
  stale        \* history: a role or a member was changed by who was no admin any more

vars == <<companies, users, token, assigned, req, stale>>

Roles == {"admin", "carrier"}
Row == [email : Emails, company : Companies, role : Roles]
Claims == [company : Companies, role : Roles]
Request ==
  [does : {"signup"}, email : Emails]
  \cup [does : {"add"}, email : Emails, company : Companies, role : Roles]
  \cup [does : {"role"}, actor : Users, user : Users, company : Companies, role : Roles]
  \cup [does : {"remove", "assign"}, actor : Users, user : Users, company : Companies]

\* Every row, token and request has its columns, and no address has two rows.
TypeOK ==
  /\ companies \subseteq Companies /\ assigned \subseteq (Companies \X Users) /\ stale \in BOOLEAN
  /\ \A u \in Users : users[u] \subseteq Row /\ token[u] \subseteq Claims
  /\ \A q \in Requests : req[q] \subseteq Request /\ Cardinality(req[q]) <= 1
  /\ \A u, v \in Users : \A r \in users[u], s \in users[v] : u # v => r.email # s.email

Init ==
  /\ companies = {} /\ assigned = {} /\ stale = FALSE
  /\ users = [u \in Users |-> {}] /\ token = [u \in Users |-> {}]
  /\ req = [q \in Requests |-> {}]

Rows == UNION {users[u] : u \in Users}
EmailExists(e) == \E r \in Rows : r.email = e
Member(u, c) == \E r \in users[u] : r.company = c
IsAdmin(u, c) == \E r \in users[u] : r.company = c /\ r.role = "admin"

\* Ids that no row, token or request has; a new row takes one of them.
Free == {u \in Users : /\ users[u] = {} /\ token[u] = {}
                       /\ \A q \in Requests : \A r \in req[q] :
                            r.does \in {"role", "remove", "assign"} => u \notin {r.actor, r.user}}
Fresh(u) == Free # {} /\ u = CHOOSE v \in Free : TRUE

NextCompany == IF companies = Companies THEN {} ELSE {CHOOSE c \in Companies : c \notin companies}

Begin(q, r) == req[q] = {} /\ req' = [req EXCEPT ![q] = {r}] /\ UNCHANGED <<companies, users, token, assigned, stale>>
Answer(q) == req' = [req EXCEPT ![q] = {}]

-----------------------------------------------------------------------------
(* Signing up and in                                                       *)

\* The address is looked up before BEGIN.
Signup(q, e) == ~EmailExists(e) /\ Begin(q, [does |-> "signup", email |-> e])

\* One transaction inserts the company, its workspace and its first user, an
\* admin; an address taken meanwhile rolls all of it back.
Register(q, r) ==
  /\ r.does = "signup"
  /\ \/ EmailExists(r.email) /\ UNCHANGED <<companies, users>>
     \/ /\ ~EmailExists(r.email)
        /\ \E u \in Users, c \in NextCompany :
             /\ Fresh(u)
             /\ companies' = companies \cup {c}
             /\ users' = [users EXCEPT ![u] = {[email |-> r.email, company |-> c, role |-> "admin"]}]
  /\ Answer(q) /\ UNCHANGED <<token, assigned, stale>>

\* The token carries company and role as they are at login, for 24 hours.
Login(u) ==
  /\ users[u] # {}
  /\ token' = [token EXCEPT ![u] = {[company |-> r.company, role |-> r.role] : r \in users[u]}]
  /\ UNCHANGED <<companies, users, assigned, req, stale>>

Expire(u) == token[u] # {} /\ token' = [token EXCEPT ![u] = {}] /\ UNCHANGED <<companies, users, assigned, req, stale>>

-----------------------------------------------------------------------------
(* Managing the team                                                       *)

\* Mutant: an admin may change their own membership.
ManagesAny(a, u, c) == [company |-> c, role |-> "admin"] \in token[a] /\ Member(u, c)

\* An admin by the token acts on another member: the service refuses removing
\* oneself, and the page offers neither that nor a role for oneself.
Manages(a, u, c) == [company |-> c, role |-> "admin"] \in token[a] /\ Member(u, c) /\ a # u

AddMember(q, a, e, role) ==
  \E t \in token[a] : /\ t.role = "admin" /\ ~EmailExists(e)
                      /\ Begin(q, [does |-> "add", email |-> e, company |-> t.company, role |-> role])

UpdateRole(q, a, u, c, role) ==
  Manages(a, u, c) /\ Begin(q, [does |-> "role", actor |-> a, user |-> u, company |-> c, role |-> role])

RemoveMember(q, a, u, c) ==
  Manages(a, u, c) /\ Begin(q, [does |-> "remove", actor |-> a, user |-> u, company |-> c])

\* assertOwnedProject.
OwnedProject(p, c) == p \in companies /\ p = c

\* upsertAssignment; a project or a user deleted meanwhile fails its foreign key.
AssignProject(q, a, u, c, p) ==
  /\ [company |-> c, role |-> "admin"] \in token[a] /\ Member(u, c) /\ OwnedProject(p, c)
  /\ Begin(q, [does |-> "assign", actor |-> a, user |-> u, company |-> p])

\* createMember; the hash is computed between the look-up and the insert, and an
\* address taken meanwhile answers 500.
CreateMember(q, r) ==
  /\ r.does = "add"
  /\ \/ EmailExists(r.email) /\ UNCHANGED users
     \/ /\ ~EmailExists(r.email)
        /\ \E u \in Users : /\ Fresh(u)
                            /\ users' = [users EXCEPT ![u] = {[email |-> r.email, company |-> r.company, role |-> r.role]}]
  /\ Answer(q) /\ UNCHANGED <<companies, token, assigned, stale>>

WriteRole(q, r) ==
  /\ r.does = "role"
  /\ users' = [users EXCEPT ![r.user] = {[row EXCEPT !.role = r.role] : row \in @}]
  /\ stale' = (stale \/ ~IsAdmin(r.actor, r.company))
  /\ Answer(q) /\ UNCHANGED <<companies, token, assigned>>

\* deleteMember: assignments go with the user; rows that keep their author
\* (messages, documents) make the delete fail.
DeleteMember(q, r) ==
  /\ r.does = "remove"
  /\ \/ /\ users' = [users EXCEPT ![r.user] = {}]
        /\ assigned' = {s \in assigned : s[2] # r.user}
        /\ stale' = (stale \/ ~IsAdmin(r.actor, r.company))
     \/ UNCHANGED <<users, assigned, stale>>
  /\ Answer(q) /\ UNCHANGED <<companies, token>>

WriteAssignment(q, r) ==
  /\ r.does = "assign"
  /\ assigned' = IF users[r.user] # {} THEN assigned \cup {<<r.company, r.user>>} ELSE assigned
  /\ Answer(q) /\ UNCHANGED <<companies, users, token, stale>>

RemoveAssignment(a, u, c) ==
  /\ [company |-> c, role |-> "admin"] \in token[a] /\ <<c, u>> \in assigned
  /\ assigned' = assigned \ {<<c, u>>}
  /\ UNCHANGED <<companies, users, token, req, stale>>

Next ==
  \/ \E q \in Requests, e \in Emails :
       Signup(q, e) \/ \E a \in Users, role \in Roles : AddMember(q, a, e, role)
  \/ \E q \in Requests : \E r \in req[q] :
       Register(q, r) \/ CreateMember(q, r) \/ WriteRole(q, r) \/ DeleteMember(q, r) \/ WriteAssignment(q, r)
  \/ \E u \in Users : Login(u) \/ Expire(u)
  \/ \E a, u \in Users, c \in companies :
       \/ \E q \in Requests : \/ RemoveMember(q, a, u, c)
                              \/ \E role \in Roles : UpdateRole(q, a, u, c, role)
                              \/ \E p \in companies : AssignProject(q, a, u, c, p)
       \/ RemoveAssignment(a, u, c)

Spec == Init /\ [][Next]_vars

-----------------------------------------------------------------------------
(* Properties                                                              *)

\* A company always has an admin, so that someone can manage it, unless a member
\* or a role was changed on the word of a token that had outlived its role: two
\* admins who remove each other leave none.
AdminKept == ~stale => \A c \in companies : \E u \in Users : IsAdmin(u, c)

\* Who is assigned to a project is a member of the company that owns it, however
\* assignments, removals and deletions cross.
AssignedInside == \A s \in assigned : Member(s[2], s[1])

=============================================================================
