----------------------------- MODULE MCCockpit -----------------------------
(* The boards of the cockpit and its folder tree on small instances, with   *)
(* the fairness both need.  The two share no state, so a behaviour is a     *)
(* behaviour of one of them: Init picks the part and the other rests.  The  *)
(* state space is the sum of theirs.                                        *)
CONSTANTS
  None,
  Rows, Kinds, BoardBreaks, BoardFails,        \* LiveBoard
  Companies, Ids, Items, Requests, Root        \* Folders

VARIABLES
  part,
  kind, row, emitting, wire, breaks, fetch, fails, replies, cached, board, loaded, heard, lost, overtaken,
  folder, used, item, move, crossed

liveVars == <<kind, row, emitting, wire, breaks, fetch, fails, replies, cached, board, loaded, heard, lost, overtaken>>
foldersVars == <<folder, used, item, move, crossed>>
vars == <<part, liveVars, foldersVars>>

Live == INSTANCE LiveBoard WITH MaxBreaks <- BoardBreaks, MaxFails <- BoardFails
Fo == INSTANCE Folders

Init ==
  /\ part \in {"live", "folders"}
  /\ Live!Init /\ Fo!Init
  /\ part # "live" => kind = CHOOSE k \in Kinds : TRUE

\* The part that was not picked stays as it is.
Rest ==
  /\ part' = part
  /\ part # "live" => UNCHANGED liveVars
  /\ part # "folders" => UNCHANGED foldersVars

Next ==
  \/ part = "live" /\ Live!Next /\ Rest
  \/ part = "folders" /\ Fo!Next /\ Rest

\* The fairness of LiveBoard and of Folders, for their parts.
Fairness ==
  /\ WF_liveVars(part = "live" /\ Live!Progress)
  /\ WF_liveVars(part = "live" /\ Live!B.polls /\ Live!Ask)
  /\ WF_liveVars(part = "live" /\ Live!Read)
  /\ WF_liveVars(part = "live" /\ Live!Load)
  /\ \A q \in Requests : WF_foldersVars(part = "folders" /\ (Fo!Walk(q) \/ Fo!WriteMove(q)))

Spec == Init /\ [][Next]_vars /\ Fairness

-----------------------------------------------------------------------------
(* Properties, as their modules state them                                 *)

\* A quiet board shows what the database has (useFleet.ts, usePod.ts, ...).
BoardCurrent == part = "live" => Live!TypeOK /\ Live!BoardCurrent
\* A board that polls shows a quiet database in the end.
BoardCatchesUp == Live!BoardCatchesUp
\* Every folder is in the tree that is shown, and with its company, as are the
\* projects in it (folders.service.ts).
FoldersSound == part = "folders" => Fo!FoldersSound
\* The check of a move ends (assertNotDescendant).
MoveEnds == Fo!MoveEnds

=============================================================================
