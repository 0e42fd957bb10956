------------------------------- MODULE Folders -------------------------------
(***************************************************************************)
(* The folder tree of a company and what is filed in it (domains/folders,  *)
(* the projects and programs of domains/projects).  A folder may hang      *)
(* under another; moving one walks up from the new parent, one query per   *)
(* step, to refuse a descendant, and only then writes.  The foreign keys   *)
(* are part of the database: a deleted folder takes its subfolders along   *)
(* and leaves what was filed in them unfiled.                              *)
(***************************************************************************)
EXTENDS FiniteSets, Naturals

CONSTANTS
  Companies, \* tenants
  Ids,       \* folder ids, none of which is used twice
  Items,     \* projects and programs
  Requests,  \* requests to move a folder, as many as may overlap
  Root       \* the parent_id NULL

VARIABLES
  folder,  \* folder[f]: {} or the row
  used,    \* ids given out so far
  item,    \* item[i]: {} or the row of a project or a program
  move,    \* move[q]: {} or the request: next is the parent of the row last read
  crossed  \* history: one move was asked for while another was under way

vars == <<folder, used, item, move, crossed>>

Place == Ids \cup {Root}
Move == [company : Companies, id : Ids, to : Place, next : Place]

\* The tables and the requests are in range, and only given ids are in use.
TypeOK ==
  /\ \A f \in Ids : folder[f] \subseteq [company : Companies, parent : Place] /\ Cardinality(folder[f]) <= 1
  /\ used \in SUBSET Ids /\ \A f \in Ids \ used : folder[f] = {}
  /\ \A i \in Items : item[i] \subseteq [company : Companies, folder : Place] /\ Cardinality(item[i]) <= 1
  /\ \A q \in Requests : move[q] \subseteq Move /\ Cardinality(move[q]) <= 1
  /\ crossed \in BOOLEAN

Init ==
  /\ folder = [f \in Ids |-> {}] /\ used = {}
  /\ item = [i \in Items |-> {}]
  /\ move = [q \in Requests |-> {}]
  /\ crossed = FALSE

Live == {f \in Ids : folder[f] # {}}
Parent(f) == (CHOOSE r \in folder[f] : TRUE).parent

\* assertOwnedFolder: 404 without the row, 403 for another company's.
Owned(f, c) == \E r \in folder[f] : r.company = c

\* The folders buildTree and flattenFolders find under p, and p.
Under(p) ==
  LET level[n \in 0..Cardinality(Ids)] ==
        IF n = 0 THEN {p}
        ELSE LET above == level[n - 1] IN above \cup {f \in Live : Parent(f) \in above}
  IN level[Cardinality(Ids)]

-----------------------------------------------------------------------------
\* The foreign key makes the INSERT repeat what assertOwnedFolder has checked.
CreateFolder(c, f, p) ==
  /\ f \notin used /\ (p # Root => Owned(p, c))
  /\ folder' = [folder EXCEPT ![f] = {[company |-> c, parent |-> p]}]
  /\ used' = used \cup {f}
  /\ UNCHANGED <<item, move, crossed>>

\* Mutant: the walk begins above the new parent.
MoveFromAbove(q, c, f, p) ==
  /\ move[q] = {} /\ Owned(f, c) /\ (p # Root => Owned(p, c))
  /\ move' = [move EXCEPT ![q] = {[company |-> c, id |-> f, to |-> p,
                                   next |-> IF p = Root THEN Root ELSE Parent(p)]}]
  /\ crossed' = (crossed \/ \E o \in Requests : move[o] # {})
  /\ UNCHANGED <<folder, used, item>>

\* moveFolder up to the first turn of assertNotDescendant's loop.
MoveAsked(q, c, f, p) ==
  /\ move[q] = {} /\ Owned(f, c) /\ p # f /\ (p # Root => Owned(p, c))
  /\ move' = [move EXCEPT ![q] = {[company |-> c, id |-> f, to |-> p,
                                   next |-> IF p = Root THEN Root ELSE Parent(p)]}]
  /\ crossed' = (crossed \/ \E o \in Requests : move[o] # {})
  /\ UNCHANGED <<folder, used, item>>

\* One turn of the loop: the next row is read, and refused if it is the folder itself.
Walk(q) ==
  /\ \E m \in move[q] :
       /\ m.next # Root
       /\ move' = [move EXCEPT ![q] =
            IF m.next # m.id /\ Owned(m.next, m.company) THEN {[m EXCEPT !.next = Parent(m.next)]} ELSE {}]
  /\ UNCHANGED <<folder, used, item, crossed>>

\* The root is reached: the UPDATE, which finds no row or no parent if one is gone.
WriteMove(q) ==
  /\ \E m \in move[q] :
       /\ m.next = Root
       /\ folder' = IF m.id \in Live /\ m.to \in Live \cup {Root}
                    THEN [folder EXCEPT ![m.id] = {[company |-> m.company, parent |-> m.to]}]
                    ELSE folder
  /\ move' = [move EXCEPT ![q] = {}]
  /\ UNCHANGED <<used, item, crossed>>

\* deleteFolder: the subfolders cascade, the items become unfiled.
DeleteFolder(c, f) ==
  /\ Owned(f, c)
  /\ LET gone == Under(f) IN
       /\ folder' = [g \in Ids |-> IF g \in gone THEN {} ELSE folder[g]]
       /\ item' = [i \in Items |-> {IF r.folder \in gone THEN [r EXCEPT !.folder = Root] ELSE r : r \in item[i]}]
  /\ UNCHANGED <<used, move, crossed>>

\* createProject and createProgram.
CreateItem(c, i, p) ==
  /\ item[i] = {} /\ (p # Root => Owned(p, c))
  /\ item' = [item EXCEPT ![i] = {[company |-> c, folder |-> p]}]
  /\ UNCHANGED <<folder, used, move, crossed>>

\* updateProject and updateProgram: COALESCE cannot take an item out of its folder.
File(i, p) ==
  /\ \E r \in item[i] :
       /\ p # Root => Owned(p, r.company)
       /\ item' = [item EXCEPT ![i] = {[r EXCEPT !.folder = IF p = Root THEN @ ELSE p]}]
  /\ UNCHANGED <<folder, used, move, crossed>>

DeleteItem(i) ==
  /\ item[i] # {}
  /\ item' = [item EXCEPT ![i] = {}]
  /\ UNCHANGED <<folder, used, move, crossed>>

Next ==
  \/ \E c \in Companies, f \in Ids :
       \/ \E p \in Place : CreateFolder(c, f, p) \/ \E q \in Requests : MoveAsked(q, c, f, p)
       \/ DeleteFolder(c, f)
  \/ \E q \in Requests : Walk(q) \/ WriteMove(q)
  \/ \E i \in Items :
       \/ \E p \in Place : File(i, p) \/ \E c \in Companies : CreateItem(c, i, p)
       \/ DeleteItem(i)

Spec == Init /\ [][Next]_vars

\* The server goes on with a request it has taken.
Fairness == \A q \in Requests : WF_vars(Walk(q) \/ WriteMove(q))

FairSpec == Spec /\ Fairness

-----------------------------------------------------------------------------
(* Properties                                                              *)

\* Every folder is in the tree that is shown: none hangs in a circle below
\* itself, where buildTree never finds it, unless two moves overlapped.
AllListed == ~crossed => Live \subseteq Under(Root)

\* What one company files stays with it: a folder's parent and an item's folder
\* are its company's own, whatever was moved or deleted under a request.
OneCompany ==
  /\ \A f \in Ids : \A r \in folder[f] : r.parent = Root \/ \E o \in folder[r.parent] : o.company = r.company
  /\ \A i \in Items : \A r \in item[i] : r.folder = Root \/ \E o \in folder[r.folder] : o.company = r.company

\* assertNotDescendant has no bound of its own: a move comes to an end, unless
\* moves overlapped and left a circle for it to walk.
MoveEnds == \A q \in Requests : move[q] # {} ~> (move[q] = {} \/ crossed)

\* Folders and what is filed in them are in range, in one tree, and their company's.
FoldersSound == TypeOK /\ AllListed /\ OneCompany

=============================================================================
