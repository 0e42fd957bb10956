--------------------------- MODULE MCQuoteToCash ---------------------------
(* QuoteToCash on small instances; see the .cfg files.                      *)
EXTENDS QuoteToCash, TLC

\* Links and uploads are interchangeable.
Symmetry == Permutations(Pods) \cup Permutations(Uploads)

=============================================================================
