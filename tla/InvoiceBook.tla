----------------------------- MODULE InvoiceBook -----------------------------
(***************************************************************************)
(* What billing promises the bookkeeper, without requests, races or        *)
(* failures: an append-only book in which deliveries are entered one at a  *)
(* time, each at most once, under consecutive numbers.                     *)
(***************************************************************************)
EXTENDS Naturals

CONSTANT Keys     \* what is billed: proof-of-delivery requests

VARIABLES
  book,           \* the entries <<number, key>>
  last            \* the last number given out

Init == book = {} /\ last = 0

Enter(key) ==
  /\ \A e \in book : e[2] # key
  /\ last' = last + 1
  /\ book' = book \cup {<<last + 1, key>>}

Next == \E key \in Keys : Enter(key)

Spec == Init /\ [][Next]_<<book, last>>

=============================================================================
