----------------------------- MODULE ProjectPages -----------------------------
(***************************************************************************)
(* The pages of one project (domains/projects): ordered, nested, and one   *)
(* of them the default that the Dashboard tab shows.  Creating a page and  *)
(* making one the default are several statements without a transaction;    *)
(* each of them is a step here.                                            *)
(***************************************************************************)
EXTENDS FiniteSets, Naturals

CONSTANTS
  Ids,       \* page ids, none of which is used twice
  Requests,  \* requests the server may serve at a time
  Top        \* the parent_page_id NULL

VARIABLES
  page,     \* page[p]: {} or the row
  used,     \* ids given out so far
  req,      \* req[q]: {} or the request under way
  crossed,  \* history: one request ran while another was under way
  cut,      \* history: a request stopped between two of its statements
  given     \* history: a default was set, and since then neither unset nor deleted

vars == <<page, used, req, crossed, cut, given>>

MaxOrder == Cardinality(Ids)
Row == [isDefault : BOOLEAN, order : 0..MaxOrder, parent : Ids \cup {Top}]
Req == [kind : {"create", "update"}, pc : {"order", "clear", "write"}, id : Ids, row : Row]

\* The rows and the requests are in range; a page without a row is not default.
TypeOK ==
  /\ \A p \in Ids : page[p] \subseteq Row /\ Cardinality(page[p]) <= 1
  /\ used \in SUBSET Ids /\ \A p \in Ids \ used : page[p] = {}
  /\ \A q \in Requests : req[q] \subseteq Req /\ Cardinality(req[q]) <= 1
  /\ crossed \in BOOLEAN /\ cut \in BOOLEAN /\ given \in BOOLEAN

Init ==
  /\ page = [p \in Ids |-> {}] /\ used = {}
  /\ req = [q \in Requests |-> {}]
  /\ crossed = FALSE /\ cut = FALSE /\ given = FALSE

Live == {p \in Ids : page[p] # {}}
Defaults == {p \in Ids : \E r \in page[p] : r.isDefault}

\* Mutant: the number of pages.
OrderByCount == Cardinality(Live)

\* COALESCE(MAX(sort_order) + 1, 0).
NextOrder == LET orders == {r.order : r \in UNION {page[p] : p \in Ids}}
             IN IF orders = {} THEN 0 ELSE 1 + CHOOSE n \in orders : \A m \in orders : m <= n

\* A page and the subpages the foreign key deletes with it.
Below(p) ==
  LET level[n \in 0..MaxOrder] ==
        IF n = 0 THEN {p}
        ELSE LET above == level[n - 1] IN above \cup {c \in Ids : \E r \in page[c] : r.parent \in above}
  IN level[MaxOrder]

Begin(q, r) ==
  /\ req[q] = {}
  /\ req' = [req EXCEPT ![q] = {r}]
  /\ crossed' = (crossed \/ \E o \in Requests : req[o] # {})

-----------------------------------------------------------------------------
\* createPage: a starter, perhaps as the default, or a subpage.
CreatePage(q, p, d, parent) ==
  /\ p \notin used /\ parent \in Live \cup {Top} /\ (d => parent = Top)
  /\ used' = used \cup {p}
  /\ Begin(q, [kind |-> "create", pc |-> "order", id |-> p,
               row |-> [isDefault |-> d, order |-> 0, parent |-> parent]])
  /\ UNCHANGED <<page, cut, given>>

\* updatePage with is_default: the flag is set, or taken off one page.
SetDefault(q, p, d) ==
  /\ p \in Live
  /\ Begin(q, [kind |-> "update", pc |-> IF d THEN "clear" ELSE "write", id |-> p,
               row |-> [(CHOOSE r \in page[p] : TRUE) EXCEPT !.isDefault = d]])
  /\ UNCHANGED <<page, used, cut, given>>

ReadOrder(q) ==
  /\ \E r \in req[q] :
       /\ r.pc = "order"
       /\ req' = [req EXCEPT ![q] = {[r EXCEPT !.row.order = NextOrder,
                                              !.pc = IF r.row.isDefault THEN "clear" ELSE "write"]}]
  /\ UNCHANGED <<page, used, crossed, cut, given>>

\* The other pages lose the flag.
ClearOthers(q) ==
  /\ \E r \in req[q] :
       /\ r.pc = "clear"
       /\ page' = [p \in Ids |-> {[x EXCEPT !.isDefault = @ /\ p = r.id] : x \in page[p]}]
       /\ req' = [req EXCEPT ![q] = {[r EXCEPT !.pc = "write"]}]
  /\ UNCHANGED <<used, crossed, cut, given>>

\* The INSERT, refused without the parent, or the UPDATE, which may find no row.
Write(q) ==
  /\ \E r \in req[q] :
       /\ r.pc = "write"
       /\ page' = [page EXCEPT ![r.id] =
            IF r.kind = "create" THEN IF r.row.parent \in Live \cup {Top} THEN {r.row} ELSE {}
            ELSE {[x EXCEPT !.isDefault = r.row.isDefault] : x \in @}]
       /\ given' = IF r.row.isDefault THEN given \/ r.id \in Defaults' ELSE given /\ r.id \notin Defaults
  /\ req' = [req EXCEPT ![q] = {}]
  /\ UNCHANGED <<used, crossed, cut>>

\* deletePage, with the subpages.
DeletePage(p) ==
  /\ p \in Live
  /\ LET gone == Below(p) IN
       /\ page' = [c \in Ids |-> IF c \in gone THEN {} ELSE page[c]]
       /\ given' = (given /\ Defaults \cap gone = {})
  /\ crossed' = (crossed \/ \E o \in Requests : req[o] # {})
  /\ UNCHANGED <<used, req, cut>>

\* The database or the process fails between two statements.
Stop(q) ==
  /\ req[q] # {}
  /\ req' = [req EXCEPT ![q] = {}]
  /\ cut' = TRUE
  /\ UNCHANGED <<page, used, crossed, given>>

Next == \E q \in Requests :
  \/ \E p \in Ids, d \in BOOLEAN :
       \/ \E parent \in Ids \cup {Top} : CreatePage(q, p, d, parent)
       \/ SetDefault(q, p, d)
  \/ ReadOrder(q) \/ ClearOthers(q) \/ Write(q) \/ Stop(q)
  \/ \E p \in Ids : DeletePage(p)

Spec == Init /\ [][Next]_vars

-----------------------------------------------------------------------------
(* Properties                                                              *)

\* The Dashboard tab has one page to show: no two are default once the requests
\* are through, unless two of them overlapped.
OneDefault == ~crossed => Cardinality(Defaults) <= 1

\* A project with a default page has one until that page is unset or deleted:
\* handing the flag over loses it only if requests overlap or one stops halfway.
DefaultKept == given /\ ~crossed /\ ~cut /\ (\A q \in Requests : req[q] = {}) => Defaults # {}

\* Pages keep the order they were added in, whatever was deleted in between.
OrdersDiffer ==
  ~crossed => \A a, b \in Live : a # b =>
    \A r \in page[a], s \in page[b] : r.order # s.order

=============================================================================
