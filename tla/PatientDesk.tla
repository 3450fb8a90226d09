---------------------------- MODULE PatientDesk ----------------------------
(***************************************************************************)
(* The same screens under a discipline the code does not enforce and its   *)
(* design relies on: one librarian works at a time, on a device that has   *)
(* caught up with the server; answers are awaited before a tap; only open  *)
(* cards are closed; a new book gets a new id; a book whose id has a dash  *)
(* is not lent; a quantity is not typed below the loans; no app is killed. *)
(* The counters then need no history to be right.                          *)
(***************************************************************************)
EXTENDS Circulation, FiniteSetsExt

AtRest(d) == /\ screen[d] = "list" /\ adding[d] = None
             /\ reads[d] = {} /\ queue[d] = <<>>

\* The turn of device d: nobody has anything under way, and d is up to date.
Turn(d) == /\ \A e \in Device : AtRest(e)
           /\ seenBooks[d] = books /\ seenCards[d] = cards

Quiet(d) == reads[d] = {}

PatientBorrows(d) ==
    \/ Turn(d) /\ OpenBorrow(d)
    \/ \E b \in Book : Quiet(d) /\ IDBeforeDash[b] = b /\ BookIDAction(d, b)
    \/ \E r \in reads[d] : BookAnswer(d, r)
    \/ \E k \in Card : Quiet(d) /\ id[d] # None /\ ConfirmAction(d, k)
    \/ OkBorrow(d)
    \/ CancelBorrow(d)

PatientReturns(d) ==
    \/ \E k \in Card : Turn(d) /\ cards[k].status = "open" /\ OpenCard(d, k)
    \/ \E r \in reads[d] : CheckAnswer(d, r)
    \/ StatusAction(d)
    \/ Quiet(d) /\ ConfirmReturn(d)
    \/ LeaveCard(d)

PatientCatalogues(d) ==
    \/ \E b \in Book, q \in Quantity, twin \in BOOLEAN :
          Turn(d) /\ ~Exists(books[b]) /\ AddBook(d, b, q, twin)
    \/ \E known \in BOOLEAN : Turn(d) /\ AddStudent(d, known)
    \/ \E r \in reads[d] : TwinAnswer(d, r)
    \/ AddDecides(d)
    \/ AddRefused(d)
    \/ \E b \in Book, q \in Quantity :
          Turn(d) /\ Complete(books[b]) /\ q >= books[b].check /\ EditBook(d, b, q)

PatientNext ==
    \/ \E d \in Doing("lend") : PatientBorrows(d)
    \/ \E d \in Doing("return") : PatientReturns(d)
    \/ \E d \in Doing("catalogue") : PatientCatalogues(d)
    \/ \E d \in Device : Replicates(d)

PatientSpec == Init /\ [][PatientNext]_vars
----------------------------------------------------------------------------
\* Between turns, the counter of every book in the library is the number of
\* its cards on loan.
DeskExact ==
    (\A d \in Device : AtRest(d)) =>
        \A b \in Book : books[b].check # None => books[b].check = Cardinality(OnLoan(b))

\* The statistics screen of device d: sums over the books the device sees.
Statistics(d) ==
    LET there == {b \in Book : Exists(BookView(d, b))}
        total == MapThenSumSet(LAMBDA b : BookView(d, b).quantity, there)
        lent  == MapThenSumSet(LAMBDA b : BookView(d, b).check, there)
    IN  [total |-> total, borrowing |-> lent, remaining |-> total - lent]

\* To the librarian whose turn it is the statistics screen shows the number of
\* open cards as borrowed, and never a negative remainder.
TotalsAgree ==
    \A d \in Device : Turn(d) =>
        /\ Statistics(d).borrowing = Cardinality({k \in Card : cards[k].status = "open"})
        /\ Statistics(d).remaining >= 0

\* At every tap that writes a counter, the key "check" holds what the server
\* holds for the book the write is for, whichever screen set the key last.
KeyIsTheBooks ==
    \A d \in Device :
        /\ alert[d] # None => check[d] = books[id[d]].check
        /\ screen[d] = "return" /\ Quiet(d) => check[d] = books[current[d].book].check
============================================================================
