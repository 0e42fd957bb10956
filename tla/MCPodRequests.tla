--------------------------- MODULE MCPodRequests ---------------------------
(* PodRequests on two links and two uploads; see the .cfg files.           *)
EXTENDS PodRequests, TLC

\* Uploads, and links, are interchangeable: no property tells them apart.
Symmetry == Permutations(Uploads) \cup Permutations(Pods)

=============================================================================
