---------------------------- MODULE MCInboxDrafts ----------------------------
(* Symmetry of requests for the model checker. *)
EXTENDS InboxDrafts, TLC

CallSymmetry == Permutations(Calls)

=============================================================================
