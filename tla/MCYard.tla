------------------------------- MODULE MCYard -------------------------------
(* The demonstration yard, the symmetry and the view for the model checker. *)
EXTENDS Yard, TLC

OneKind == <<"truck_parking">>

\* Once requests have overlapped or died no property asks which maps were outdated.
View == <<zone, slot, asset, call, IF disturbed THEN {} ELSE outdated, disturbed>>

Symmetry == Permutations(Assets) \cup Permutations(Plates) \cup Permutations(Calls)

=============================================================================
