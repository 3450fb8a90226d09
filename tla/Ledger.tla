------------------------------- MODULE Ledger -------------------------------
(***************************************************************************)
(* What the collection BorrowCard promises: a card is issued once, for one *)
(* book (or for none, when the librarian confirmed before naming a book),  *)
(* keeps naming it, and once returned is never on loan again.              *)
(***************************************************************************)
CONSTANTS Card, Book, None

VARIABLES
    loan,  \* the status of each card
    of     \* the book it names

Init ==
    /\ loan = [k \in Card |-> "none"]
    /\ of = [k \in Card |-> None]

Lend(k, b) ==
    /\ loan[k] = "none"
    /\ loan' = [loan EXCEPT ![k] = "open"]
    /\ of' = [of EXCEPT ![k] = b]

Return(k) ==
    /\ loan[k] = "open"
    /\ loan' = [loan EXCEPT ![k] = "closed"]
    /\ UNCHANGED of

Next == \E k \in Card : Return(k) \/ \E b \in Book \cup {None} : Lend(k, b)

Spec == Init /\ [][Next]_<<loan, of>>
=============================================================================
