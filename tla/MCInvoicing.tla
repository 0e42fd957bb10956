---------------------------- MODULE MCInvoicing ----------------------------
(* Invoicing with racing drafts and racing dashboard requests.              *)
EXTENDS Invoicing, TLC

\* Draft calls, dashboard requests and pods are interchangeable.
Symmetry == Permutations(Drafts) \cup Permutations(Desks)

=============================================================================
