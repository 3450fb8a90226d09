-------------------------- MODULE PatientDeskProofs --------------------------
(***************************************************************************)
(* Theorems about PatientDesk, for every value of the constants: under its *)
(* discipline no counter drifts, so between turns every counter is the     *)
(* number of open cards of its book, no more copies are lent than there    *)
(* are, and the shared key "check" holds the counter of the book it is     *)
(* written for.                                                            *)
(*                                                                         *)
(* A step of PatientDesk is one of Circulation, so the invariants proved   *)
(* of Circulation come for nothing.  The invariant added here follows one  *)
(* turn: the device at work sees what the server has, and from the answer  *)
(* that sets the key to the write that is computed from it nothing moves.  *)
(***************************************************************************)
EXTENDS PatientDesk, CirculationProofs, Ranks

\* One device at most has work under way, and it is up to date.
OneTurn  == \A d, e \in Device : AtRest(d) \/ AtRest(e) \/ d = e
UpToDate == \A d \in Device : AtRest(d) \/ (seenBooks[d] = books /\ seenCards[d] = cards)

\* No counter has drifted, and none is above the number of copies.
NoneDrifted == \A b \in Book : clean[b]
Stocked(b) == Complete(books[b]) /\ books[b].check <= books[b].quantity
AllStocked == \A b \in Book : Exists(books[b]) => Stocked(b)

\* There is a copy of book b to lend, and the key "check" of d has its counter.
CanLend(d, b) ==
    /\ Stocked(b)
    /\ check[d] = books[b].check /\ check[d] < books[b].quantity

\* A queued write of a counter does what the server's counter needs; it is the
\* last of its queue, and only the card list is in front of it.
BookWriteOK(w) ==
    /\ w.why # "new" => Stocked(w.book) /\ w.basis = books[w.book].check
    /\ w.why = "new" => ~Exists(books[w.book])
    /\ w.why = "lend" => w.basis < books[w.book].quantity
    /\ w.why = "return" => w.card \in posted[w.book]
    /\ w.why \in {"edit", "new"} => w.quantity # None /\ w.check <= w.quantity
WritesOK(d) ==
    \A i \in 1 .. Len(queue[d]) : queue[d][i].op = "book" =>
        /\ i = Len(queue[d]) /\ BookWriteOK(queue[d][i])
        /\ screen[d] = "list" /\ adding[d] = None

AddingOK(d) ==
    adding[d] # None => screen[d] = "list" /\ ~Exists(books[adding[d].book])

\* The borrow screen: the one answer it waits for is for the book it names, and
\* once it is there an enabled button means a copy to lend.
BorrowOK(d) ==
    screen[d] = "borrow" =>
        /\ \A r \in reads[d] : r = [by |-> "borrow", book |-> id[d], live |-> TRUE]
        /\ id[d] = None => reads[d] = {}
        /\ id[d] # None => Stocked(id[d])
        /\ id[d] # None /\ confirm[d] /\ reads[d] = {} => CanLend(d, id[d])
        /\ alert[d] # None => id[d] # None /\ confirm[d] /\ reads[d] = {}

\* The return screen: its card is counted, and once its answer is there the key
\* has the counter.
BackOK(d) ==
    screen[d] = "return" =>
        /\ current[d].card \in posted[current[d].book]
        /\ \A r \in reads[d] :
              r = [by |-> "return", book |-> current[d].book, live |-> FALSE]
        /\ reads[d] = {} => check[d] = books[current[d].book].check

DeviceOK(d) == WritesOK(d) /\ AddingOK(d) /\ BorrowOK(d) /\ BackOK(d)

DeskInv == /\ OneTurn /\ UpToDate /\ NoneDrifted /\ AllStocked
           /\ \A d \in Device : DeviceOK(d)

\* The inductive invariant: Circulation's and the turn's.
PatientInv == CounterInv /\ LoanInv /\ DeskInv

----------------------------------------------------------------------------
(* Turns.                                                                   *)

\* The work of the devices other than d is as it was.
OthersSame(d) ==
    \A e \in Device \ {d} :
        /\ screen'[e] = screen[e] /\ adding'[e] = adding[e]
        /\ reads'[e] = reads[e] /\ queue'[e] = queue[e]

\* Nobody but d is at work.
OnlyAt(d) == \A e \in Device \ {d} : AtRest(e)
Current(d) == seenBooks[d] = books /\ seenCards[d] = cards

LEMMA BusyIsOnly ==
    ASSUME DeskInv, NEW d \in Device, ~AtRest(d)
    PROVE  OnlyAt(d) /\ Current(d)
BY DEF DeskInv, OneTurn, UpToDate, OnlyAt, Current

LEMMA TurnIsOnly ==
    ASSUME NEW d \in Device, Turn(d)
    PROVE  OnlyAt(d) /\ Current(d) /\ AtRest(d)
BY DEF Turn, OnlyAt, Current

\* A device at rest has nothing to be right about.
LEMMA RestIsOK ==
    ASSUME NEW d \in Device, AtRest(d)
    PROVE  DeviceOK(d)
<1>1. Len(queue[d]) = 0
    BY DEF AtRest
<1>2. 1 .. Len(queue[d]) = {}
    BY <1>1
<1> QED BY <1>2 DEF AtRest, DeviceOK, WritesOK, AddingOK, BorrowOK, BackOK

LEMMA RestIsOKAfter ==
    ASSUME NEW d \in Device, AtRest(d)'
    PROVE  DeviceOK(d)'
<1>1. Len(queue'[d]) = 0
    BY DEF AtRest
<1>2. 1 .. Len(queue'[d]) = {}
    BY <1>1
<1> QED BY <1>2 DEF AtRest, DeviceOK, WritesOK, AddingOK, BorrowOK, BackOK

\* A step of the one device at work leaves the others at rest.
LEMMA TurnStep ==
    ASSUME NEW d \in Device, OnlyAt(d), OthersSame(d), Current(d)',
           NoneDrifted', AllStocked', DeviceOK(d)'
    PROVE  DeskInv'
<1>1. \A e \in Device \ {d} : AtRest(e)'
    BY DEF OnlyAt, OthersSame, AtRest
<1>2. OneTurn'
    BY <1>1 DEF OneTurn
<1>3. UpToDate'
    BY <1>1 DEF UpToDate, Current
<1>4. \A e \in Device : DeviceOK(e)'
    BY <1>1, RestIsOKAfter
<1> QED BY <1>2, <1>3, <1>4 DEF DeskInv

\* One that leaves the server and what has been seen of it alone.
Indoors == UNCHANGED <<books, cards, seenBooks, seenCards, posted, clean>>

LEMMA IndoorStep ==
    ASSUME DeskInv, NEW d \in Device, OnlyAt(d), Current(d), OthersSame(d), Indoors,
           DeviceOK(d)'
    PROVE  DeskInv'
<1>1. Current(d)'
    BY DEF Current, Indoors
<1>2. NoneDrifted' /\ AllStocked'
    BY DEF DeskInv, NoneDrifted, AllStocked, Stocked, Indoors
<1> QED BY <1>1, <1>2, TurnStep

\* With no counter's write in its queue, a device that is up to date reads what
\* the server has.
LEMMA ViewIsBooks ==
    ASSUME TypeOK, NEW d \in Device, Current(d), NEW b \in Book,
           \A i \in 1 .. Len(queue[d]) : queue[d][i].op # "book"
    PROVE  BookView(d, b) = books[b]
<1>1. \A f : PendingField(d, b, f) = {}
    BY DEF PendingField
<1>2. \A f : FieldView(d, b, f) = books[b][f]
    BY <1>1 DEF FieldView, Current
<1>3. books[b] \in BookDoc
    BY DEF TypeOK
<1>4. BookView(d, b) = [quantity |-> books[b].quantity, check |-> books[b].check]
    BY <1>2 DEF BookView
<1> QED BY <1>3, <1>4 DEF BookDoc

----------------------------------------------------------------------------
(* The borrow screen.                                                       *)

\* What leaving a screen does.
LEMMA LeavesDesk ==
    ASSUME Typed, NEW d \in Device, Leaves(d), UNCHANGED adding,
           \A e \in Device \ {d} : queue'[e] = queue[e]
    PROVE  OthersSame(d) /\ screen'[d] = "list" /\ adding'[d] = adding[d]
BY DEF Leaves, Closes, OthersSame, Typed, TypeOK

LEMMA IssueDesk ==
    ASSUME Typed, NEW d \in Device, NEW w, Issue(d, <<w>>)
    PROVE  /\ \A e \in Device \ {d} : queue'[e] = queue[e]
           /\ Len(queue'[d]) = Len(queue[d]) + 1
           /\ \A i \in 1 .. Len(queue[d]) : queue'[d][i] = queue[d][i]
           /\ queue'[d][Len(queue[d]) + 1] = w
<1>1. queue'[d] = queue[d] \o <<w>> /\ \A e \in Device \ {d} : queue'[e] = queue[e]
    BY DEF Issue, Typed, TypeOK
<1>2. queue[d] \in Seq(Write) /\ Len(queue[d]) \in Nat
    BY LenProperties DEF Typed, TypeOK
<1>3. queue[d] \o <<w>> = Append(queue[d], w)
    BY <1>2
<1> HIDE DEF Issue
<1> QED BY <1>1, <1>2, <1>3

\* A card list in front, and a counter's write behind the others, which touch
\* cards only.
LEMMA LastIsOK ==
    ASSUME NEW d \in Device, NEW w, BookWriteOK(w), UNCHANGED <<books, posted>>,
           screen'[d] = "list", adding'[d] = None,
           \A i \in 1 .. Len(queue'[d]) : queue'[d][i].op = "book" =>
                i = Len(queue'[d]) /\ queue'[d][i] = w
    PROVE  DeviceOK(d)'
<1>1. BookWriteOK(w)'
    BY DEF BookWriteOK, Stocked
<1>2. WritesOK(d)'
    BY <1>1 DEF WritesOK
<1> QED BY <1>2 DEF DeviceOK, AddingOK, BorrowOK, BackOK

LEMMA IssueIsOK ==
    ASSUME Typed, NEW d \in Device, NEW w, Issue(d, <<w>>),
           UNCHANGED <<books, posted>>,
           \A i \in 1 .. Len(queue[d]) : queue[d][i].op # "book",
           BookWriteOK(w), screen'[d] = "list", adding'[d] = None
    PROVE  DeviceOK(d)'
<1>1. Len(queue[d]) \in Nat
    BY LenProperties DEF Typed, TypeOK
<1>2. \A i \in 1 .. Len(queue'[d]) : queue'[d][i].op = "book" =>
          i = Len(queue'[d]) /\ queue'[d][i] = w
    BY <1>1, IssueDesk
<1> QED BY <1>2, LastIsOK

\* On the borrow screen no counter's write is queued.
LEMMA NoWriteQueued ==
    ASSUME NEW d \in Device, DeviceOK(d), screen[d] # "list" \/ adding[d] # None
    PROVE  \A i \in 1 .. Len(queue[d]) : queue[d][i].op # "book"
BY DEF DeviceOK, WritesOK

LEMMA PatientBorrowsDesk ==
    ASSUME PatientInv, NEW d \in Device, PatientBorrows(d)
    PROVE  DeskInv'
<1> USE DEF server, replica, borrowScreen, returnScreen, history
<1>0. /\ Typed /\ TypeOK /\ DeskInv /\ DeviceOK(d) /\ AlertOK
      /\ None \notin Book /\ None \notin Int
    BY ConstantsAssumption DEF PatientInv, CounterInv, Typed, DeskInv, LoanInv, KnownInv
<1>1. CASE Turn(d) /\ OpenBorrow(d)
    <2>1. OnlyAt(d) /\ Current(d) /\ AtRest(d)
        BY <1>1, TurnIsOnly
    <2>2. Indoors /\ OthersSame(d)
        BY <1>0, <1>1 DEF OpenBorrow, Indoors, OthersSame, Typed, TypeOK
    <2>3. /\ screen'[d] = "borrow" /\ id'[d] = None /\ reads'[d] = {} /\ adding'[d] = None
          /\ alert'[d] = None /\ queue'[d] = <<>>
        BY <1>0, <1>1, <2>1 DEF OpenBorrow, AtRest, TypeOK, AlertOK
    <2>4. DeviceOK(d)'
        BY <2>3 DEF DeviceOK, WritesOK, AddingOK, BorrowOK, BackOK
    <2> QED BY <1>0, <2>1, <2>2, <2>4, IndoorStep
<1>2. ASSUME NEW b \in Book, Quiet(d), IDBeforeDash[b] = b, BookIDAction(d, b)
      PROVE  DeskInv'
    <2>1. OnlyAt(d) /\ Current(d)
        BY <1>0, <1>2, BusyIsOnly DEF BookIDAction, AtRest
    <2>2. Indoors /\ OthersSame(d)
        BY <1>0, <1>2 DEF BookIDAction, Indoors, OthersSame, TypeOK
    <2>3. BookView(d, b) = books[b]
        BY <1>0, <1>2, <2>1, NoWriteQueued, ViewIsBooks DEF BookIDAction
    <2>4. Stocked(b)
        BY <1>0, <1>2, <2>3 DEF BookIDAction, Listed, DeskInv, AllStocked, Complete, Exists
    <2>5. /\ id'[d] = b /\ alert'[d] = None
          /\ reads'[d] = {[by |-> "borrow", book |-> b, live |-> TRUE]}
        BY <1>0, <1>2 DEF BookIDAction, Quiet, TypeOK
    <2>6. UNCHANGED <<queue, screen, adding, confirm, books, check, posted>>
        BY <1>2 DEF BookIDAction
    <2>7. screen[d] = "borrow"
        BY <1>2 DEF BookIDAction
    <2>8. BorrowOK(d)'
        BY <1>0, <2>4, <2>5, <2>6, <2>7 DEF BorrowOK, Stocked
    <2>9. WritesOK(d)' /\ AddingOK(d)' /\ BackOK(d)'
        BY <1>0, <2>6, <2>7 DEF DeviceOK, WritesOK, AddingOK, BackOK, BookWriteOK, Stocked
    <2> QED BY <1>0, <2>1, <2>2, <2>8, <2>9, IndoorStep DEF DeviceOK
<1>3. ASSUME NEW r \in reads[d], BookAnswer(d, r)
      PROVE  DeskInv'
    <2>1. OnlyAt(d) /\ Current(d)
        BY <1>0, <1>3, BusyIsOnly DEF AtRest
    <2>2. Indoors /\ OthersSame(d)
        BY <1>0, <1>3 DEF BookAnswer, Indoors, OthersSame, TypeOK
    <2>3. UNCHANGED <<queue, screen, id, alert, current, adding, books, posted>>
        BY <1>3 DEF BookAnswer
    <2>4. WritesOK(d)' /\ AddingOK(d)'
        BY <1>0, <2>3 DEF DeviceOK, WritesOK, AddingOK, BookWriteOK, Stocked
    <2>5. BackOK(d)'
        BY <1>0, <1>3, <2>3 DEF DeviceOK, BackOK, BookAnswer
    <2>6. ASSUME screen[d] = "borrow"
          PROVE  BorrowOK(d)'
        <3>1. /\ r = [by |-> "borrow", book |-> id[d], live |-> TRUE]
              /\ id[d] # None /\ Stocked(id[d]) /\ alert[d] = None
              /\ \A s \in reads[d] : s = r
            BY <1>0, <2>6 DEF DeviceOK, BorrowOK
        <3>2. id[d] \in Book /\ r.book = id[d] /\ r.live
            BY <1>0, <3>1 DEF TypeOK
        <3>3. BookView(d, r.book) = books[id[d]]
            BY <1>0, <2>1, <2>6, <3>2, NoWriteQueued, ViewIsBooks
        <3>4. /\ confirm'[d] = Available(books[id[d]])
              /\ check'[d] = Answered(d, books[id[d]])
              /\ reads'[d] = {}
            BY <1>0, <1>3, <3>1, <3>2, <3>3 DEF BookAnswer, TypeOK
        <3>5. confirm'[d] => CanLend(d, id[d])'
            BY <2>3, <3>1, <3>4 DEF Available, Answered, CanLend, Stocked
        <3> QED BY <2>3, <3>1, <3>4, <3>5 DEF BorrowOK, Stocked
    <2>7. BorrowOK(d)'
        BY <2>3, <2>6 DEF BorrowOK
    <2> QED BY <1>0, <2>1, <2>2, <2>4, <2>5, <2>7, IndoorStep DEF DeviceOK
<1>4. ASSUME NEW k \in Card, Quiet(d), id[d] # None, ConfirmAction(d, k)
      PROVE  DeskInv'
    <2>1. OnlyAt(d) /\ Current(d)
        BY <1>0, <1>4, BusyIsOnly DEF ConfirmAction, AtRest
    <2>2. Issue(d, <<AddWrite(k, id[d])>>)
        BY <1>4 DEF ConfirmAction
    <2>3. Indoors /\ OthersSame(d)
        BY <1>0, <1>4, <2>2, IssueDesk DEF ConfirmAction, Indoors, OthersSame, TypeOK
    <2>4. /\ UNCHANGED <<screen, id, confirm, reads, adding, books, check, posted>>
          /\ screen[d] = "borrow"
        BY <1>4 DEF ConfirmAction
    <2>5. BorrowOK(d)' /\ AddingOK(d)' /\ BackOK(d)'
        BY <1>0, <1>4, <2>4 DEF DeviceOK, BorrowOK, AddingOK, BackOK, Stocked, CanLend,
                                Quiet, ConfirmAction
    <2>6. WritesOK(d)'
        <3>1. AddWrite(k, id[d]).op # "book"
            BY DEF AddWrite
        <3>2. Len(queue[d]) \in Nat
            BY <1>0, LenProperties DEF TypeOK
        <3>3. \A i \in 1 .. Len(queue'[d]) : queue'[d][i].op # "book"
            BY <1>0, <2>2, <2>4, <3>1, <3>2, IssueDesk, NoWriteQueued
        <3> QED BY <3>3 DEF WritesOK
    <2> QED BY <1>0, <2>1, <2>3, <2>5, <2>6, IndoorStep DEF DeviceOK
<1>5. CASE OkBorrow(d)
    <2>1. OnlyAt(d) /\ Current(d)
        BY <1>0, <1>5, BusyIsOnly DEF OkBorrow, AtRest
    <2>2. Issue(d, <<LendWrite(d)>>) /\ Leaves(d) /\ UNCHANGED <<adding, books, posted>>
        BY <1>5 DEF OkBorrow
    <2>3. Indoors /\ OthersSame(d) /\ screen'[d] = "list" /\ adding'[d] = adding[d]
        BY <1>0, <1>5, <2>2, IssueDesk, LeavesDesk DEF OkBorrow, Indoors
    <2>4. /\ screen[d] = "borrow" /\ adding[d] = None /\ CanLend(d, id[d])
        BY <1>0, <1>5 DEF OkBorrow, DeviceOK, BorrowOK, AddingOK
    <2>5. BookWriteOK(LendWrite(d))
        BY <2>4 DEF BookWriteOK, LendWrite, CheckWrite, CanLend
    <2>6. DeviceOK(d)'
        BY <1>0, <2>2, <2>3, <2>4, <2>5, NoWriteQueued, IssueIsOK
    <2> QED BY <1>0, <2>1, <2>3, <2>6, IndoorStep
<1>6. CASE CancelBorrow(d)
    <2>1. OnlyAt(d) /\ Current(d)
        BY <1>0, <1>6, BusyIsOnly DEF CancelBorrow, AtRest
    <2>2. Leaves(d) /\ UNCHANGED <<adding, books, posted, queue>> /\ screen[d] # "list"
        BY <1>6 DEF CancelBorrow
    <2>3. Indoors /\ OthersSame(d) /\ screen'[d] = "list" /\ adding'[d] = adding[d]
        BY <1>0, <1>6, <2>2, LeavesDesk DEF CancelBorrow, Indoors
    <2>4. DeviceOK(d)'
        BY <1>0, <2>2, <2>3 DEF DeviceOK, WritesOK, AddingOK, BorrowOK, BackOK
    <2> QED BY <1>0, <2>1, <2>3, <2>4, IndoorStep
<1> QED BY <1>1, <1>2, <1>3, <1>4, <1>5, <1>6 DEF PatientBorrows

----------------------------------------------------------------------------
(* The return screen.                                                       *)

\* At rest every open card is counted: its +1 is not under way.
LEMMA OpenIsCounted ==
    ASSUME Typed, LoanInv, NoneDrifted, \A e \in Device : AtRest(e),
           NEW k \in Card, NEW b \in Book, cards[k].status = "open", cards[k].book = b
    PROVE  k \in posted[b]
<1>1. BookOf(k, b) /\ cards[k].status # "closed" /\ clean[b]
    BY DEF BookOf, CardIs, NoneDrifted
<1>2. \A e \in Device : alert[e] = None /\ Len(queue[e]) = 0
    BY DEF AtRest, LoanInv, KnownInv, AlertOK
<1>3. ~Lending(k)
    BY <1>2, ConstantsAssumption DEF Lending, LendAt, At
<1> QED BY <1>1, <1>3 DEF LoanInv, WayInv, OpenLends

\* A book with a counted loan is in stock.
LEMMA CountedIsStocked ==
    ASSUME CounterInv, NoneDrifted, AllStocked, NEW b \in Book, posted[b] # {}
    PROVE  Stocked(b)
<1>1. books[b].check # None
    BY DEF CounterInv, Counted, LedgerExact, NoneDrifted
<1> QED BY <1>1 DEF AllStocked, Exists

\* A device with nothing queued reads a card as the server has it.
LEMMA CardViewsAtRest ==
    ASSUME TypeOK, NEW d \in Device, Current(d), queue[d] = <<>>, NEW k \in Card,
           cards[k].status = "open"
    PROVE  CardBookView(d, k) = cards[k].book
BY DEF CardBookView, Current

LEMMA PatientReturnsDesk ==
    ASSUME PatientInv, NEW d \in Device, PatientReturns(d)
    PROVE  DeskInv'
<1> USE DEF server, replica, borrowScreen, returnScreen, history
<1>0. /\ Typed /\ TypeOK /\ DeskInv /\ DeviceOK(d) /\ AlertOK
      /\ CounterInv /\ LoanInv /\ NoneDrifted /\ AllStocked
      /\ None \notin Book /\ None \notin Int
    BY ConstantsAssumption DEF PatientInv, CounterInv, Typed, DeskInv, LoanInv, KnownInv
<1>1. ASSUME NEW k \in Card, Turn(d), cards[k].status = "open", OpenCard(d, k)
      PROVE  DeskInv'
    <2>1. OnlyAt(d) /\ Current(d) /\ AtRest(d)
        BY <1>1, TurnIsOnly
    <2>2. Indoors /\ OthersSame(d)
        BY <1>0, <1>1 DEF OpenCard, Indoors, OthersSame, TypeOK
    <2> DEFINE b == cards[k].book
    <2>3. CardBookView(d, k) = b
        BY <1>0, <1>1, <2>1, CardViewsAtRest DEF AtRest
    <2>4. b \in Book
        BY <1>0, <1>1, <2>3 DEF OpenCard, TypeOK, CardDoc
    <2>5. k \in posted[b]
        BY <1>0, <1>1, <2>4, OpenIsCounted DEF Turn
    <2>6. /\ screen'[d] = "return" /\ current'[d] = [card |-> k, book |-> b]
          /\ reads'[d] = {[by |-> "return", book |-> b, live |-> FALSE]}
          /\ queue'[d] = <<>> /\ adding'[d] = None
          /\ UNCHANGED <<books, posted>>
        BY <1>0, <1>1, <2>1, <2>3 DEF OpenCard, AtRest, TypeOK
    <2> HIDE DEF b
    <2>7. BackOK(d)'
        <3>1. current'[d].card = k /\ current'[d].book = b
            BY <2>6
        <3>2. \A r \in reads'[d] : r = [by |-> "return", book |-> b, live |-> FALSE]
            BY <2>6
        <3>3. reads'[d] # {} /\ k \in posted'[b]
            BY <2>5, <2>6
        <3> QED BY <3>1, <3>2, <3>3 DEF BackOK
    <2>8. WritesOK(d)' /\ AddingOK(d)' /\ BorrowOK(d)'
        BY <2>6 DEF WritesOK, AddingOK, BorrowOK
    <2> QED BY <1>0, <2>1, <2>2, <2>7, <2>8, IndoorStep DEF DeviceOK
<1>2. ASSUME NEW r \in reads[d], CheckAnswer(d, r)
      PROVE  DeskInv'
    <2>1. OnlyAt(d) /\ Current(d)
        BY <1>0, <1>2, BusyIsOnly DEF AtRest
    <2>2. Indoors /\ OthersSame(d)
        BY <1>0, <1>2 DEF CheckAnswer, Indoors, OthersSame, TypeOK
    <2>3. UNCHANGED <<queue, screen, id, alert, confirm, current, adding, books, posted>>
        BY <1>2 DEF CheckAnswer
    <2>4. WritesOK(d)' /\ AddingOK(d)'
        BY <1>0, <2>3 DEF DeviceOK, WritesOK, AddingOK, BookWriteOK, Stocked
    <2>5. screen[d] # "borrow"
        BY <1>0, <1>2 DEF DeviceOK, BorrowOK, CheckAnswer
    <2>6. ASSUME screen[d] = "return"
          PROVE  BackOK(d)'
        <3>1. /\ r = [by |-> "return", book |-> current[d].book, live |-> FALSE]
              /\ \A s \in reads[d] : s = r
            BY <1>0, <2>6 DEF DeviceOK, BackOK
        <3>2. r.book = current[d].book /\ current[d].book \in Book
            BY <1>0, <2>6, <3>1 DEF Typed, ScreenOK
        <3>3. BookView(d, r.book) = books[current[d].book]
            BY <1>0, <2>1, <2>6, <3>2, NoWriteQueued, ViewIsBooks
        <3>4. check'[d] = books[current[d].book].check
            BY <1>0, <1>2, <3>3 DEF CheckAnswer, TypeOK
        <3>5. \A s \in reads'[d] : s \in reads[d]
            BY <1>0, <1>2 DEF CheckAnswer, TypeOK
        <3> QED BY <1>0, <2>3, <2>6, <3>4, <3>5 DEF DeviceOK, BackOK
    <2>7. BackOK(d)' /\ BorrowOK(d)'
        BY <2>3, <2>5, <2>6 DEF BackOK, BorrowOK
    <2> QED BY <1>0, <2>1, <2>2, <2>4, <2>7, IndoorStep DEF DeviceOK
<1>3. CASE StatusAction(d)
    <2>1. OnlyAt(d) /\ Current(d)
        BY <1>0, <1>3, BusyIsOnly DEF StatusAction, AtRest
    <2>2. Indoors /\ OthersSame(d)
        BY <1>3 DEF StatusAction, Indoors, OthersSame
    <2>3. /\ UNCHANGED <<queue, screen, current, adding, reads, check, books, posted>>
          /\ screen[d] = "return"
        BY <1>3 DEF StatusAction
    <2>4. WritesOK(d)' /\ AddingOK(d)'
        BY <1>0, <2>3 DEF DeviceOK, WritesOK, AddingOK
    <2>5. BorrowOK(d)' /\ BackOK(d)'
        BY <1>0, <2>3 DEF DeviceOK, BorrowOK, BackOK
    <2> QED BY <1>0, <2>1, <2>2, <2>4, <2>5, IndoorStep DEF DeviceOK
<1>4. CASE Quiet(d) /\ ConfirmReturn(d)
    <2> DEFINE c == current[d]
               w == CheckWrite(c.book, None, check[d] - 1, "return", c.card, check[d])
    <2>1. OnlyAt(d) /\ Current(d)
        BY <1>0, <1>4, BusyIsOnly DEF ConfirmReturn, AtRest
    <2>2. /\ Issue(d, <<CloseWrite(c.card), w>>) /\ Leaves(d)
          /\ UNCHANGED <<adding, books, posted>> /\ screen[d] = "return"
        BY <1>4 DEF ConfirmReturn, ReturnWrites
    <2>3. queue'[d] = queue[d] \o <<CloseWrite(c.card), w>>
          /\ \A e \in Device \ {d} : queue'[e] = queue[e]
        BY <1>0, <2>2 DEF Issue, TypeOK
    <2>4. Indoors /\ OthersSame(d) /\ screen'[d] = "list" /\ adding'[d] = adding[d]
        BY <1>0, <1>4, <2>2, <2>3, LeavesDesk DEF ConfirmReturn, Indoors
    <2>5. /\ adding[d] = None /\ c.card \in posted[c.book] /\ c.book \in Book
          /\ check[d] = books[c.book].check
        BY <1>0, <1>4, <2>2 DEF DeviceOK, AddingOK, BackOK, Quiet, Typed, ScreenOK
    <2>6. Stocked(c.book)
        BY <1>0, <2>5, CountedIsStocked
    <2>7. BookWriteOK(w)
        BY <2>5, <2>6 DEF BookWriteOK, CheckWrite
    <2> HIDE DEF w
    <2>8. \A i \in 1 .. Len(queue'[d]) : queue'[d][i].op = "book" =>
              i = Len(queue'[d]) /\ queue'[d][i] = w
        <3> DEFINE u == CloseWrite(c.card)
                   q == queue[d]
        <3>1. u.op # "book"
            BY DEF CloseWrite
        <3>2. \A i \in 1 .. Len(q) : q[i].op # "book"
            BY <1>0, <2>2, NoWriteQueued
        <3>3. q \in Seq(Write) /\ Len(q) \in Nat
            BY <1>0, LenProperties DEF TypeOK
        <3> HIDE DEF u, q
        <3>4. /\ Len(q \o <<u, w>>) = Len(q) + 2
              /\ \A i \in 1 .. Len(q) : (q \o <<u, w>>)[i] = q[i]
              /\ (q \o <<u, w>>)[Len(q) + 1] = u /\ (q \o <<u, w>>)[Len(q) + 2] = w
            BY <3>3
        <3> DEFINE p == q \o <<u, w>>
        <3>5. \A i \in 1 .. Len(p) : p[i].op = "book" => i = Len(p) /\ p[i] = w
            BY <3>1, <3>2, <3>3, <3>4
        <3> QED BY <2>3, <3>5 DEF u, q
    <2>9. DeviceOK(d)'
        BY <2>2, <2>4, <2>5, <2>7, <2>8, LastIsOK
    <2> QED BY <1>0, <2>1, <2>4, <2>9, IndoorStep
<1>5. CASE LeaveCard(d)
    <2>1. OnlyAt(d) /\ Current(d)
        BY <1>0, <1>5, BusyIsOnly DEF LeaveCard, AtRest
    <2>2. Leaves(d) /\ UNCHANGED <<adding, books, posted, queue>> /\ screen[d] # "list"
        BY <1>5 DEF LeaveCard
    <2>3. Indoors /\ OthersSame(d) /\ screen'[d] = "list" /\ adding'[d] = adding[d]
        BY <1>0, <1>5, <2>2, LeavesDesk DEF LeaveCard, Indoors
    <2>4. DeviceOK(d)'
        BY <1>0, <2>2, <2>3 DEF DeviceOK, WritesOK, AddingOK, BorrowOK, BackOK
    <2> QED BY <1>0, <2>1, <2>3, <2>4, IndoorStep
<1> QED BY <1>1, <1>2, <1>3, <1>4, <1>5 DEF PatientReturns

----------------------------------------------------------------------------
(* The screens that add and edit.                                           *)

LEMMA PatientCataloguesDesk ==
    ASSUME PatientInv, NEW d \in Device, PatientCatalogues(d)
    PROVE  DeskInv'
<1> USE DEF server, replica, borrowScreen, returnScreen, history
<1>0. /\ Typed /\ TypeOK /\ DeskInv /\ DeviceOK(d) /\ AlertOK
      /\ None \notin Book /\ None \notin Int /\ Quantity \subseteq Nat
    BY ConstantsAssumption DEF PatientInv, CounterInv, Typed, DeskInv, LoanInv, KnownInv
<1>1. ASSUME NEW b \in Book, NEW q \in Quantity, NEW twin \in BOOLEAN,
             Turn(d), ~Exists(books[b]), AddBook(d, b, q, twin)
      PROVE  DeskInv'
    <2>1. OnlyAt(d) /\ Current(d) /\ AtRest(d)
        BY <1>1, TurnIsOnly
    <2>2. Indoors /\ OthersSame(d)
        BY <1>0, <1>1 DEF AddBook, Indoors, OthersSame, TypeOK
    <2>3. /\ adding'[d].book = b /\ screen'[d] = "list" /\ queue'[d] = <<>>
          /\ UNCHANGED books
        BY <1>0, <1>1, <2>1 DEF AddBook, AtRest, TypeOK
    <2>4. DeviceOK(d)'
        BY <1>1, <2>3 DEF DeviceOK, WritesOK, AddingOK, BorrowOK, BackOK
    <2> QED BY <1>0, <2>1, <2>2, <2>4, IndoorStep
<1>2. ASSUME NEW known \in BOOLEAN, Turn(d), AddStudent(d, known)
      PROVE  DeskInv'
    <2>1. OnlyAt(d) /\ Current(d) /\ AtRest(d)
        BY <1>2, TurnIsOnly
    <2>2. Indoors /\ OthersSame(d)
        BY <1>0, <1>2 DEF AddStudent, Indoors, OthersSame, TypeOK
    <2>3. adding'[d] = None /\ screen'[d] = "list" /\ queue'[d] = <<>>
        BY <1>2, <2>1 DEF AddStudent, AtRest
    <2>4. DeviceOK(d)'
        BY <2>3 DEF DeviceOK, WritesOK, AddingOK, BorrowOK, BackOK
    <2> QED BY <1>0, <2>1, <2>2, <2>4, IndoorStep
<1>3. ASSUME NEW r \in reads[d], TwinAnswer(d, r)
      PROVE  DeskInv'
    <2>1. OnlyAt(d) /\ Current(d)
        BY <1>0, <1>3, BusyIsOnly DEF AtRest
    <2>2. Indoors /\ OthersSame(d)
        BY <1>0, <1>3 DEF TwinAnswer, Indoors, OthersSame, TypeOK
    <2>3. UNCHANGED <<queue, screen, adding, books, posted>>
        BY <1>3 DEF TwinAnswer
    <2>4. screen[d] # "borrow" /\ screen[d] # "return"
        BY <1>0, <1>3 DEF DeviceOK, BorrowOK, BackOK, TwinAnswer
    <2>5. WritesOK(d)' /\ AddingOK(d)'
        BY <1>0, <2>3 DEF DeviceOK, WritesOK, AddingOK, BookWriteOK, Stocked
    <2>6. BorrowOK(d)' /\ BackOK(d)'
        BY <2>3, <2>4 DEF BorrowOK, BackOK
    <2> QED BY <1>0, <2>1, <2>2, <2>5, <2>6, IndoorStep DEF DeviceOK
<1>4. CASE AddDecides(d)
    <2> DEFINE a == adding[d]
               w == CheckWrite(a.book, a.quantity, 0, "new", None, 0)
    <2>1. OnlyAt(d) /\ Current(d)
        BY <1>0, <1>4, BusyIsOnly DEF AddDecides, AtRest
    <2>2. /\ Issue(d, <<w>>) /\ adding[d] # None
          /\ UNCHANGED <<books, posted, screen, reads>>
        BY <1>4 DEF AddDecides
    <2>3. Indoors /\ OthersSame(d) /\ adding'[d] = None
        BY <1>0, <1>4, <2>2, IssueDesk DEF AddDecides, Indoors, OthersSame, TypeOK
    <2>4. ~Exists(books[a.book]) /\ screen[d] = "list" /\ a.quantity \in Nat
        BY <1>0, <2>2 DEF DeviceOK, AddingOK, TypeOK
    <2>5. BookWriteOK(w)
        BY <1>0, <2>4 DEF BookWriteOK, CheckWrite
    <2>6. DeviceOK(d)'
        BY <1>0, <2>2, <2>3, <2>4, <2>5, NoWriteQueued, IssueIsOK
    <2> QED BY <1>0, <2>1, <2>3, <2>6, IndoorStep
<1>5. CASE AddRefused(d)
    <2>1. OnlyAt(d) /\ Current(d)
        BY <1>0, <1>5, BusyIsOnly DEF AddRefused, AtRest
    <2>2. Indoors /\ OthersSame(d)
        BY <1>0, <1>5 DEF AddRefused, Indoors, OthersSame, TypeOK
    <2>3. /\ UNCHANGED <<books, posted, queue, screen, reads>> /\ adding'[d] = None
          /\ screen[d] = "list"
        BY <1>0, <1>5 DEF AddRefused, DeviceOK, AddingOK, TypeOK
    <2>4. DeviceOK(d)'
        BY <1>0, <2>3 DEF DeviceOK, WritesOK, AddingOK, BorrowOK, BackOK, BookWriteOK, Stocked
    <2> QED BY <1>0, <2>1, <2>2, <2>4, IndoorStep
<1>6. ASSUME NEW b \in Book, NEW q \in Quantity, Turn(d), Complete(books[b]),
             q >= books[b].check, EditBook(d, b, q)
      PROVE  DeskInv'
    <2> DEFINE w == CheckWrite(b, q, books[b].check, "edit", None, books[b].check)
    <2>1. OnlyAt(d) /\ Current(d) /\ AtRest(d)
        BY <1>6, TurnIsOnly
    <2>2. \A i \in 1 .. Len(queue[d]) : queue[d][i].op # "book"
        BY <2>1 DEF AtRest
    <2>3. BookView(d, b) = books[b]
        BY <1>0, <2>1, <2>2, ViewIsBooks
    <2>4. books[b].check \in Int /\ q \in Nat
        BY <1>0, <1>6 DEF Complete, TypeOK, BookDoc, Count
    <2>5. Issue(d, <<w>>)
        BY <1>6, <2>3, <2>4 DEF EditBook
    <2>6. Indoors /\ OthersSame(d)
        BY <1>0, <1>6, <2>5, IssueDesk DEF EditBook, Indoors, OthersSame, TypeOK
    <2>7. Stocked(b)
        BY <1>0, <1>6 DEF DeskInv, AllStocked, Complete, Exists
    <2>8. BookWriteOK(w)
        BY <1>0, <1>6, <2>4, <2>7 DEF BookWriteOK, CheckWrite
    <2>9. /\ screen'[d] = "list" /\ adding'[d] = None /\ UNCHANGED <<books, posted>>
        BY <1>6, <2>1 DEF EditBook, AtRest
    <2>10. DeviceOK(d)'
        BY <1>0, <2>2, <2>5, <2>8, <2>9, IssueIsOK
    <2> QED BY <1>0, <2>1, <2>6, <2>10, IndoorStep
<1> QED BY <1>1, <1>2, <1>3, <1>4, <1>5, <1>6 DEF PatientCatalogues

----------------------------------------------------------------------------
(* Answers that find nothing, and the server.                               *)

LEMMA NoAnswerDesk ==
    ASSUME PatientInv, NEW d \in Device, NEW r \in reads[d], NoAnswer(d, r)
    PROVE  DeskInv'
<1> USE DEF server, replica, borrowScreen, returnScreen, history
<1>0. /\ Typed /\ TypeOK /\ DeskInv /\ DeviceOK(d) /\ CounterInv
      /\ NoneDrifted /\ AllStocked
    BY DEF PatientInv, CounterInv, Typed, DeskInv
<1>1. OnlyAt(d) /\ Current(d)
    BY <1>0, BusyIsOnly DEF AtRest
<1>2. Indoors /\ OthersSame(d)
    BY <1>0 DEF NoAnswer, Indoors, OthersSame, TypeOK
<1>3. UNCHANGED <<queue, screen, adding, books, posted>>
    BY DEF NoAnswer
<1>4. ASSUME screen[d] \in {"borrow", "return"}
      PROVE  FALSE
    <2>1. \A b \in Book : BookView(d, b) = books[b]
        BY <1>0, <1>1, <1>4, NoWriteQueued, ViewIsBooks
    <2>2. r.book \in Book /\ Stocked(r.book)
        <3>1. CASE screen[d] = "borrow"
            BY <1>0, <3>1 DEF DeviceOK, BorrowOK, TypeOK
        <3>2. CASE screen[d] = "return"
            BY <1>0, <3>2, CountedIsStocked DEF DeviceOK, BackOK, Typed, ScreenOK
        <3> QED BY <1>4, <3>1, <3>2
    <2> QED BY <2>1, <2>2 DEF NoAnswer, Stocked, Complete, Exists
<1>5. WritesOK(d)' /\ AddingOK(d)'
    BY <1>0, <1>3 DEF DeviceOK, WritesOK, AddingOK, BookWriteOK, Stocked
<1>6. BorrowOK(d)' /\ BackOK(d)'
    BY <1>3, <1>4 DEF BorrowOK, BackOK
<1> QED BY <1>0, <1>1, <1>2, <1>5, <1>6, IndoorStep DEF DeviceOK

LEMMA TailPlaces ==
    ASSUME Typed, NEW d \in Device, Commit(d)
    PROVE  /\ Len(queue[d]) \in Nat \ {0} /\ Len(queue'[d]) = Len(queue[d]) - 1
           /\ \A i \in 1 .. Len(queue'[d]) :
                 i + 1 \in 1 .. Len(queue[d]) /\ queue'[d][i] = queue[d][i + 1]
           /\ Head(queue[d]) = queue[d][1] /\ Head(queue[d]) \in Write
<1> DEFINE q == queue[d]
<1>1. q \in Seq(Write) /\ q # <<>> /\ queue'[d] = Tail(q)
    BY DEF Commit, Typed, TypeOK
<1> HIDE DEF q
<1>2. Len(q) \in Nat \ {0} /\ Len(Tail(q)) = Len(q) - 1 /\ Head(q) = q[1] /\ Head(q) \in Write
    BY <1>1, LenProperties, HeadTailProperties
<1>3. \A i \in 1 .. Len(Tail(q)) : i + 1 \in 1 .. Len(q) /\ Tail(q)[i] = q[i + 1]
    BY <1>1, <1>2, HeadTailProperties
<1> QED BY <1>1, <1>2, <1>3 DEF q

LEMMA CommitCardDesk ==
    ASSUME PatientInv, NEW d \in Device, Commit(d), CommitCard(d, Head(queue[d]))
    PROVE  DeskInv'
<1> USE DEF server, replica, borrowScreen, returnScreen, history
<1> DEFINE w == Head(queue[d])
           new(doc) == IF w.op = "add" THEN [status |-> "open", book |-> w.book]
                       ELSE [doc EXCEPT !.status = "closed"]
<1>0. Typed /\ TypeOK /\ DeskInv /\ DeviceOK(d)
    BY DEF PatientInv, CounterInv, Typed, DeskInv
<1>1. OnlyAt(d) /\ Current(d)
    BY <1>0, BusyIsOnly DEF Commit, AtRest
<1>2. OthersSame(d)
    BY <1>0 DEF Commit, OthersSame, TypeOK
<1>3. /\ UNCHANGED <<books, seenBooks, posted, clean, check, screen, id, confirm, alert,
                      current, adding, reads>>
      /\ cards' = [cards EXCEPT ![w.card] = new(cards[w.card])]
      /\ seenCards' = [seenCards EXCEPT ![d][w.card] = new(seenCards[d][w.card])]
    BY DEF Commit, CommitCard
<1>4. Current(d)'
    <2> HIDE DEF new
    <2>1. seenCards'[d] = [seenCards[d] EXCEPT ![w.card] = new(seenCards[d][w.card])]
        BY <1>0, <1>3 DEF TypeOK
    <2> QED BY <1>1, <1>3, <2>1 DEF Current
<1>5. NoneDrifted' /\ AllStocked'
    BY <1>0, <1>3 DEF DeskInv, NoneDrifted, AllStocked, Stocked
<1>6. WritesOK(d)'
    <2> SUFFICES ASSUME NEW i \in 1 .. Len(queue'[d]), queue'[d][i].op = "book"
                 PROVE  /\ i = Len(queue'[d]) /\ BookWriteOK(queue[d][i])'
                        /\ screen'[d] = "list" /\ adding'[d] = None
        BY DEF WritesOK
    <2>1. /\ i + 1 \in 1 .. Len(queue[d]) /\ queue'[d][i] = queue[d][i + 1]
          /\ Len(queue'[d]) = Len(queue[d]) - 1 /\ Len(queue[d]) \in Nat /\ i \in Nat
        BY <1>0, TailPlaces
    <2>2. /\ i + 1 = Len(queue[d]) /\ BookWriteOK(queue[d][i + 1])
          /\ screen[d] = "list" /\ adding[d] = None
        BY <1>0, <2>1 DEF DeviceOK, WritesOK
    <2>3. BookWriteOK(queue[d][i])'
        BY <1>3, <2>1, <2>2 DEF BookWriteOK, Stocked
    <2> QED BY <1>3, <2>1, <2>2, <2>3
<1>7. AddingOK(d)' /\ BorrowOK(d)' /\ BackOK(d)'
    BY <1>0, <1>3 DEF DeviceOK, AddingOK, BorrowOK, BackOK, CanLend, Stocked
<1> QED BY <1>1, <1>2, <1>4, <1>5, <1>6, <1>7, TurnStep DEF DeviceOK

LEMMA CommitBookDesk ==
    ASSUME PatientInv, NEW d \in Device, Commit(d), CommitBook(d, Head(queue[d]))
    PROVE  DeskInv'
<1> USE DEF server, replica, borrowScreen, returnScreen, history
<1> DEFINE w == Head(queue[d])
<1>0. /\ Typed /\ TypeOK /\ DeskInv /\ DeviceOK(d) /\ AmountsOK /\ LoanInv
      /\ NoneDrifted /\ AllStocked
      /\ None \notin Int
    BY ConstantsAssumption DEF PatientInv, CounterInv, Typed, DeskInv
<1>1. OnlyAt(d) /\ Current(d)
    BY <1>0, BusyIsOnly DEF Commit, AtRest
<1>2. OthersSame(d)
    BY <1>0 DEF Commit, OthersSame, TypeOK
<1>3. w.op = "book" /\ w = queue[d][1] /\ 1 \in 1 .. Len(queue[d])
    BY <1>0, TailPlaces DEF CommitBook
<1>4. /\ Len(queue[d]) = 1 /\ BookWriteOK(w)
      /\ screen[d] = "list" /\ adding[d] = None
    BY <1>0, <1>3 DEF DeviceOK, WritesOK
<1>5. w \in BookWrite /\ Amount(w)
    BY <1>0, <1>3, TailPlaces, BookWriteIs DEF AmountsOK
<1>6. w.book \in Book /\ w.check \in Int /\ w.basis \in Int /\ w.quantity \in Nat \cup {None}
      /\ w.why \in {"lend", "return", "edit", "new"}
      /\ (w.why \in {"lend", "return"} => w.quantity = None)
    BY <1>5 DEF BookWrite, StockWrite, LoanWrite
<1>7. /\ UNCHANGED <<cards, seenCards, screen, adding, reads>>
      /\ books' = [books EXCEPT ![w.book] = Merge(books[w.book], w)]
      /\ seenBooks' = [seenBooks EXCEPT ![d][w.book] = Merge(seenBooks[d][w.book], w)]
      /\ clean' = [clean EXCEPT ![w.book] = clean[w.book] /\ Sound(w)]
    BY DEF Commit, CommitBook
<1>8. Current(d)'
    <2>1. seenBooks'[d] = [seenBooks[d] EXCEPT ![w.book] = Merge(seenBooks[d][w.book], w)]
        BY <1>0, <1>7 DEF TypeOK
    <2> QED BY <1>1, <1>7, <2>1 DEF Current
<1>9. Sound(w)
    <2>1. w.why = "lend" => w.card \notin posted[w.book]
        <3> SUFFICES ASSUME w.why = "lend" PROVE w.card \notin posted[w.book]
            OBVIOUS
        <3>1. w.card \in Card
            BY <1>5 DEF BookWrite, StockWrite, LoanWrite
        <3>2. LendAt(d, 1, w.card)
            BY <1>3, <1>6 DEF LendAt, At, Kind
        <3>3. Lending(w.card)
            BY <3>2 DEF Lending
        <3> QED BY <1>0, <1>6, <3>1, <3>3 DEF LoanInv, TokenInv, PostedOnce
    <2>2. w.why = "return" => w.card \in posted[w.book]
        BY <1>4 DEF BookWriteOK
    <2>3. books[w.book].check = w.basis \/ (w.why = "new" /\ books[w.book].check = None)
        BY <1>4 DEF BookWriteOK, Exists
    <2> QED BY <2>1, <2>2, <2>3 DEF Sound
<1>10. NoneDrifted'
    BY <1>0, <1>6, <1>7, <1>9 DEF NoneDrifted, TypeOK
<1>11. AllStocked'
    <2> SUFFICES ASSUME NEW b \in Book, Exists(books'[b])
                 PROVE  Complete(books'[b]) /\ books'[b].check <= books'[b].quantity
        BY DEF AllStocked, Stocked
    <2>1. CASE b # w.book
        BY <1>0, <1>7, <2>1 DEF AllStocked, Stocked, TypeOK
    <2>2. CASE b = w.book
        <3>1. /\ books'[b].check = w.check
              /\ books'[b].quantity = IF w.quantity = None THEN books[b].quantity
                                      ELSE w.quantity
            BY <1>0, <1>7, <2>2 DEF Merge, TypeOK
        <3>2. books[b].quantity \in Nat \cup {None} /\ books[b].check \in Int \cup {None}
            BY <1>0 DEF TypeOK, BookDoc, Count
        <3>3. CASE w.why \in {"lend", "return"}
            <4>1. /\ Stocked(b) /\ w.basis = books[b].check /\ w.quantity = None
                  /\ w.why = "lend" => w.basis < books[b].quantity
                BY <1>4, <1>6, <2>2, <3>3 DEF BookWriteOK
            <4>2. /\ w.why = "lend" => w.check = w.basis + 1
                  /\ w.why = "return" => w.check = w.basis - 1
                BY <1>3, <1>5 DEF Amount
            <4>3. w.check <= books[b].quantity /\ books[b].quantity # None
                BY <1>6, <3>2, <3>3, <4>1, <4>2 DEF Stocked, Complete
            <4> QED BY <1>0, <1>6, <3>1, <4>1, <4>3 DEF Complete
        <3>4. CASE w.why \in {"edit", "new"}
            BY <1>0, <1>4, <1>6, <3>1, <3>4 DEF BookWriteOK, Complete
        <3> QED BY <1>6, <3>3, <3>4
    <2> QED BY <2>1, <2>2
<1>12. DeviceOK(d)'
    <2>1. 1 .. Len(queue'[d]) = {}
        BY <1>0, <1>4, TailPlaces
    <2> QED BY <1>4, <1>7, <2>1 DEF DeviceOK, WritesOK, AddingOK, BorrowOK, BackOK
<1> QED BY <1>1, <1>2, <1>8, <1>10, <1>11, <1>12, TurnStep

\* A device hears of the server only while it is at rest.
LEMMA SyncDesk ==
    ASSUME PatientInv, NEW d \in Device,
           (\E b \in Book : SyncBook(d, b)) \/ (\E k \in Card : SyncCard(d, k))
    PROVE  DeskInv'
<1> USE DEF server, replica, borrowScreen, returnScreen, history
<1>0. Typed /\ TypeOK /\ DeskInv
    BY DEF PatientInv, CounterInv, Typed
<1>1. AtRest(d)
    BY <1>0 DEF DeskInv, UpToDate, SyncBook, SyncCard
<1>2. /\ UNCHANGED <<books, cards, posted, clean, queue, check, screen, id, confirm, alert,
                      current, adding, reads>>
      /\ \A e \in Device \ {d} : seenBooks'[e] = seenBooks[e] /\ seenCards'[e] = seenCards[e]
    BY <1>0 DEF SyncBook, SyncCard, TypeOK
<1>3. \A e \in Device : AtRest(e)' = AtRest(e)
    BY <1>2 DEF AtRest
<1>4. OneTurn'
    BY <1>0, <1>3 DEF DeskInv, OneTurn
<1>5. UpToDate'
    BY <1>0, <1>1, <1>2, <1>3 DEF DeskInv, UpToDate
<1>6. NoneDrifted' /\ AllStocked'
    BY <1>0, <1>2 DEF DeskInv, NoneDrifted, AllStocked, Stocked
<1>7. \A e \in Device : DeviceOK(e)'
    BY <1>0, <1>2 DEF DeskInv, DeviceOK, WritesOK, BookWriteOK, AddingOK, BorrowOK, BackOK,
                      CanLend, Stocked
<1> QED BY <1>4, <1>5, <1>6, <1>7 DEF DeskInv

----------------------------------------------------------------------------
(* The theorems.                                                            *)

\* A step under the discipline is a step of the screens.
LEMMA PatientIsNext == [PatientNext]_vars => [Next]_vars
BY Zenon DEF PatientNext, Next, PatientBorrows, Borrows, PatientReturns, Returns,
             PatientCatalogues, Catalogues

LEMMA PatientInit == Init => PatientInv
<1> SUFFICES ASSUME Init PROVE PatientInv
    OBVIOUS
<1>1. CounterInv /\ LoanInv
    BY CounterInit, LoanInit
<1>2. \A d \in Device : AtRest(d)
    BY DEF Init, AtRest
<1>3. OneTurn /\ UpToDate /\ NoneDrifted
    BY <1>2 DEF OneTurn, UpToDate, NoneDrifted, Init
<1>4. AllStocked
    <2>1. \A b \in Book : FirstQuantity[b] \in Nat \cup {None}
        BY ConstantsAssumption
    <2>2. \A b \in Book : /\ books[b].quantity = FirstQuantity[b]
                          /\ books[b].check = IF FirstQuantity[b] = None THEN None ELSE 0
        BY DEF Init
    <2> QED BY <2>1, <2>2, ConstantsAssumption DEF AllStocked, Stocked, Exists, Complete
<1> QED BY <1>1, <1>2, <1>3, <1>4, RestIsOK DEF PatientInv, DeskInv

LEMMA PatientInvNext == PatientInv /\ [PatientNext]_vars => PatientInv'
<1> SUFFICES ASSUME PatientInv, [PatientNext]_vars PROVE PatientInv'
    OBVIOUS
<1>1. CounterInv' /\ LoanInv'
    BY PatientIsNext, CounterInvNext, LoanNext DEF PatientInv, CounterInv
<1>2. ASSUME NEW d \in Device, Replicates(d)
      PROVE  DeskInv'
    BY <1>2, NoAnswerDesk, CommitCardDesk, CommitBookDesk, SyncDesk DEF Replicates, Commit
<1>3. ASSUME UNCHANGED vars
      PROVE  DeskInv'
    <2>1. DeskInv
        BY DEF PatientInv
    <2>2. (OneTurn /\ UpToDate /\ NoneDrifted /\ AllStocked)'
        BY <1>3, <2>1 DEF vars, DeskInv, OneTurn, UpToDate, AtRest, NoneDrifted, AllStocked,
                          Stocked
    <2>3. \A d \in Device : DeviceOK(d)'
        BY <1>3, <2>1 DEF vars, DeskInv, DeviceOK, WritesOK, BookWriteOK, AddingOK, BorrowOK,
                          BackOK, CanLend, Stocked
    <2> QED BY <2>2, <2>3 DEF DeskInv
<1>4. DeskInv'
    BY <1>2, <1>3, PatientBorrowsDesk, PatientReturnsDesk, PatientCataloguesDesk
       DEF PatientNext, Doing
<1> QED BY <1>1, <1>4 DEF PatientInv

LEMMA PatientInvariant == PatientSpec => []PatientInv
BY PatientInit, PatientInvNext, PTL DEF PatientSpec

\* A device at rest has no alert open either.
LEMMA SettledAtRest ==
    ASSUME PatientInv, \A d \in Device : AtRest(d)
    PROVE  Settled
BY DEF PatientInv, LoanInv, KnownInv, AlertOK, AtRest, Settled

\* Between turns the counter of every book is the number of its open cards,
\* with no exception left: under the discipline no counter drifts.
THEOREM DeskExactHolds == PatientSpec => []DeskExact
<1>1. ASSUME PatientInv, SettledExact
      PROVE  DeskExact
    <2> SUFFICES ASSUME \A d \in Device : AtRest(d), NEW b \in Book, books[b].check # None
                 PROVE  books[b].check = Cardinality(OnLoan(b))
        BY DEF DeskExact
    <2>1. Settled
        BY <1>1, SettledAtRest
    <2>2. clean[b]
        BY <1>1 DEF PatientInv, DeskInv, NoneDrifted
    <2> QED BY <1>1, <2>1, <2>2 DEF SettledExact
<1>2. PatientSpec => Spec
    BY PatientIsNext, PTL DEF PatientSpec, Spec
<1> QED BY <1>1, <1>2, PatientInvariant, SettledExactHolds, PTL

\* When a tap writes a counter, the key "check" that all screens of the device
\* share holds the counter of the book the write is for.
THEOREM KeyIsTheBooksHolds == PatientSpec => []KeyIsTheBooks
<1>1. ASSUME PatientInv
      PROVE  KeyIsTheBooks
    <2> SUFFICES ASSUME NEW d \in Device
                 PROVE  /\ alert[d] # None => check[d] = books[id[d]].check
                        /\ screen[d] = "return" /\ Quiet(d)
                              => check[d] = books[current[d].book].check
        BY DEF KeyIsTheBooks
    <2>1. DeviceOK(d) /\ AlertOK
        BY <1>1 DEF PatientInv, DeskInv, LoanInv, KnownInv
    <2> QED BY <2>1 DEF DeviceOK, BorrowOK, BackOK, CanLend, AlertOK, Quiet
<1> QED BY <1>1, PatientInvariant, PTL

\* A loan on its way to the counter is the work of the one busy device: its
\* alert, or the last write of its queue; and there is a copy for it.
LentBy(d, k) ==
    \/ alert[d] = k /\ screen[d] = "borrow"
    \/ queue[d] # <<>> /\ queue[d][Len(queue[d])].card = k /\ screen[d] = "list"

LEMMA LendingIsWork ==
    ASSUME PatientInv, NEW k \in Card, NEW b \in Book, BookOf(k, b), Lending(k)
    PROVE  /\ books[b].check < books[b].quantity
           /\ \E d \in Device : ~AtRest(d) /\ LentBy(d, k)
<1>0. /\ Typed /\ TypeOK /\ LoanInv /\ KnownInv /\ AlertOK /\ None \notin Card
      /\ \A d \in Device : DeviceOK(d)
    BY ConstantsAssumption DEF PatientInv, CounterInv, Typed, LoanInv, KnownInv, DeskInv
<1>1. ASSUME NEW d \in Device, alert[d] = k
      PROVE  /\ books[b].check < books[b].quantity
             /\ ~AtRest(d) /\ LentBy(d, k)
    <2>1. screen[d] = "borrow" /\ KnowsNow(d, k, id[d]) /\ CanLend(d, id[d])
        BY <1>0, <1>1 DEF AlertOK, DeviceOK, BorrowOK
    <2>2. id[d] \in AnyBook /\ b \in AnyBook
        BY <1>0 DEF TypeOK, AnyBook
    <2>3. BookOf(k, id[d])
        BY <1>0, <2>1, <2>2, KnowsBookOf
    <2>4. id[d] = b
        BY <1>0, <2>2, <2>3, BookOfIsOne
    <2> QED BY <1>1, <2>1, <2>4 DEF CanLend, AtRest, LentBy
<1>2. ASSUME NEW d \in Device, NEW i \in Nat, NEW c \in Book, At(queue[d], i, "lend", k, c)
      PROVE  /\ books[b].check < books[b].quantity
             /\ ~AtRest(d) /\ LentBy(d, k)
    <2> DEFINE w == queue[d][i]
    <2>1. i \in 1 .. Len(queue[d]) /\ Kind(w) = "lend" /\ w.card = k /\ w.book = c
        BY <1>2 DEF At
    <2>2. w.op = "book" /\ w.why = "lend"
        BY <1>0, <2>1, WriteAt, CardWriteIs DEF Kind, CardWrite
    <2>3. i = Len(queue[d]) /\ BookWriteOK(w) /\ screen[d] = "list"
        BY <1>0, <2>1, <2>2 DEF DeviceOK, WritesOK
    <2>4. books[c].check < books[c].quantity
        BY <2>1, <2>2, <2>3 DEF BookWriteOK
    <2>5. Knows(d, k, c, i) /\ c \in AnyBook /\ b \in AnyBook
        BY <1>0, <1>2 DEF KnownInv, LoanOK, AnyBook
    <2>6. c = b
        BY <1>0, <2>5, KnowsIsKnowsNow, KnowsBookOf, BookOfIsOne
    <2>7. queue[d] # <<>>
        BY <2>1
    <2> QED BY <2>1, <2>3, <2>4, <2>6, <2>7 DEF AtRest, LentBy
<1> QED BY <1>1, <1>2 DEF Lending, LendAt

\* "* This book is available to borrow": at no moment are more cards of a book
\* open than the library has copies.
THEOREM LentWhenAvailableHolds == PatientSpec => []LentWhenAvailable
<1>1. ASSUME PatientInv
      PROVE  LentWhenAvailable
    <2> SUFFICES ASSUME NEW b \in Book, Complete(books[b])
                 PROVE  Cardinality(OnLoan(b)) <= books[b].quantity
        BY DEF LentWhenAvailable
    <2> DEFINE P == posted[b]
               O == OnLoan(b)
               n == books[b].quantity
    <2>0. /\ TypeOK /\ LoanInv /\ OneTurn /\ NoneDrifted /\ AllStocked /\ Counted
        BY <1>1 DEF PatientInv, CounterInv, Typed, DeskInv
    <2>1. IsFiniteSet(P) /\ Cardinality(P) \in Nat /\ books[b].check = Cardinality(P)
        BY <2>0, FS_CardinalityType DEF Counted, LedgerExact, NoneDrifted, Complete
    <2>2. Cardinality(P) <= n /\ n \in Nat
        BY <2>0, <2>1 DEF AllStocked, Stocked, Complete, Exists, TypeOK, BookDoc
    <2>3. ASSUME NEW k \in O \ P
          PROVE  k \in Card /\ BookOf(k, b) /\ Lending(k)
        BY <2>0, <2>3 DEF OnLoan, BookOf, CardIs, LoanInv, WayInv, OpenLends, NoneDrifted
    <2>4. ASSUME NEW k \in O \ P, NEW l \in O \ P
          PROVE  k = l
        <3>1. PICK d \in Device : ~AtRest(d) /\ LentBy(d, k)
            BY <1>1, <2>3, LendingIsWork
        <3>2. PICK e \in Device : ~AtRest(e) /\ LentBy(e, l)
            BY <1>1, <2>3, LendingIsWork
        <3>3. d = e
            BY <2>0, <3>1, <3>2 DEF OneTurn
        <3> QED BY <3>1, <3>2, <3>3 DEF LentBy
    <2> HIDE DEF P, O
    <2>5. CASE O \ P = {}
        <3>1. Cardinality(O) <= Cardinality(P)
            BY <2>1, <2>5, FS_Subset
        <3>2. IsFiniteSet(O) /\ Cardinality(O) \in Nat
            BY <2>1, <2>5, FS_Subset, FS_CardinalityType
        <3> QED BY <2>1, <2>2, <3>1, <3>2 DEF O
    <2>6. CASE O \ P # {}
        <3>1. PICK k \in O \ P : TRUE
            BY <2>6
        <3>2. O \subseteq P \cup {k}
            BY <2>4, <3>1
        <3>3. IsFiniteSet(P \cup {k}) /\ Cardinality(P \cup {k}) = Cardinality(P) + 1
            BY <2>1, <3>1, FS_AddElement
        <3>4. Cardinality(O) \in Nat /\ Cardinality(O) <= Cardinality(P) + 1
            BY <3>2, <3>3, FS_Subset, FS_CardinalityType
        <3>5. Cardinality(P) < n
            BY <1>1, <2>1, <2>3, <3>1, LendingIsWork
        <3> QED BY <2>1, <2>2, <3>4, <3>5 DEF O
    <2> QED BY <2>5, <2>6
<1> QED BY <1>1, PatientInvariant, PTL

----------------------------------------------------------------------------
(* The statistics screen.                                                   *)

\* Every card names a book: the borrow screen confirms only with a book chosen.
Named(w) == w.op = "add" => w.book # None
CardsNamed == \A k \in Card : cards[k].status # "none" => cards[k].book # None
AddsNamed == \A d \in Device : \A i \in 1 .. Len(queue[d]) : Named(queue[d][i])
NamedInv == CardsNamed /\ AddsNamed

LEMMA IssueNamed ==
    ASSUME Typed, NamedInv, NEW d \in Device, NEW w, Issue(d, <<w>>), Named(w),
           UNCHANGED cards
    PROVE  NamedInv'
<1>1. Len(queue[d]) \in Nat
    BY LenProperties DEF Typed, TypeOK
<1>2. \A e \in Device : \A i \in 1 .. Len(queue'[e]) : Named(queue'[e][i])
    BY <1>1, IssueDesk DEF NamedInv, AddsNamed
<1> QED BY <1>2 DEF NamedInv, CardsNamed, AddsNamed, Named

LEMMA CommitNamed ==
    ASSUME Typed, LoanInv, NamedInv, NEW d \in Device, Commit(d)
    PROVE  NamedInv'
<1> USE DEF history
<1> DEFINE w == Head(queue[d])
<1>1. AddsNamed'
    <2>1. \A e \in Device \ {d} : queue'[e] = queue[e]
        BY DEF Commit, Typed, TypeOK
    <2>2. \A i \in 1 .. Len(queue'[d]) : Named(queue'[d][i])
        BY TailPlaces DEF NamedInv, AddsNamed
    <2> QED BY <2>1, <2>2 DEF NamedInv, AddsNamed, Named
<1>2. Named(w) /\ w \in Write
    <2>1. 1 \in 1 .. Len(queue[d]) /\ w = queue[d][1] /\ w \in Write
        BY TailPlaces
    <2> QED BY <2>1 DEF NamedInv, AddsNamed
<1>3. CardsNamed'
    <2>1. CASE CommitBook(d, w)
        BY <2>1 DEF CommitBook, NamedInv, CardsNamed
    <2>2. CASE CommitCard(d, w)
        <3>1. w \in CardWrite
            BY <1>2, <2>2, CardWriteIs DEF CommitCard
        <3>2. w.card \in Card /\ w.op \in {"add", "close"} /\ (w.op = "close" => w.book = None)
            BY <3>1 DEF CardWrite
        <3>3. CASE w.op = "add"
            <4>1. cards' = [cards EXCEPT ![w.card] = [status |-> "open", book |-> w.book]]
                BY <2>2, <3>3 DEF CommitCard
            <4> QED BY <1>2, <3>2, <3>3, <4>1 DEF NamedInv, CardsNamed, Named, Typed, TypeOK
        <3>4. CASE w.op = "close"
            <4>1. cards' = [cards EXCEPT ![w.card] = [cards[w.card] EXCEPT !.status = "closed"]]
                BY <2>2, <3>4 DEF CommitCard
            <4>2. CloseAt(d, 1, w.card)
                BY <3>2, <3>4, TailPlaces DEF CloseAt, At, Kind
            <4>3. PICK b \in Book : Knows(d, w.card, b, 1)
                BY <3>2, <4>2 DEF LoanInv, KnownInv, CloseOK
            <4>4. CardIs(w.card, b)
                <5>1. \A j \in Nat : ~(j < 1 /\ AddAt(d, j, w.card, b))
                    BY DEF AddAt, At
                <5>2. Sees(d, w.card, b) /\ b \in AnyBook
                    BY <4>3, <5>1 DEF Knows, AnyBook
                <5> QED BY <3>2, <5>2 DEF LoanInv, KnownInv, SeenOK
            <4>5. cards[w.card].book # None /\ cards[w.card] \in CardDoc
                BY <3>2, <4>4, ConstantsAssumption DEF CardIs, Typed, TypeOK
            <4> QED BY <3>2, <4>1, <4>5 DEF NamedInv, CardsNamed, Typed, TypeOK, CardDoc
        <3> QED BY <3>2, <3>3, <3>4
    <2> QED BY <2>1, <2>2 DEF Commit
<1> QED BY <1>1, <1>3 DEF NamedInv

LEMMA ReturnNamed ==
    ASSUME Typed, NamedInv, NEW d \in Device, ConfirmReturn(d)
    PROVE  NamedInv'
<1> DEFINE c == current[d]
           u == CloseWrite(c.card)
           w == CheckWrite(c.book, None, check[d] - 1, "return", c.card, check[d])
           q == queue[d]
<1> USE DEF server
<1>1. /\ queue'[d] = q \o <<u, w>> /\ \A e \in Device \ {d} : queue'[e] = queue[e]
      /\ UNCHANGED cards
    BY DEF ConfirmReturn, Issue, ReturnWrites, Typed, TypeOK
<1>2. Named(u) /\ Named(w)
    BY DEF Named, CloseWrite, CheckWrite
<1>3. q \in Seq(Write) /\ Len(q) \in Nat /\ \A i \in 1 .. Len(q) : Named(q[i])
    BY LenProperties DEF Typed, TypeOK, NamedInv, AddsNamed
<1> HIDE DEF u, w, q
<1>4. \A i \in 1 .. Len(q \o <<u, w>>) : Named((q \o <<u, w>>)[i])
    <2>1. /\ Len(q \o <<u, w>>) = Len(q) + 2
          /\ \A i \in 1 .. Len(q) : (q \o <<u, w>>)[i] = q[i]
          /\ (q \o <<u, w>>)[Len(q) + 1] = u /\ (q \o <<u, w>>)[Len(q) + 2] = w
        BY <1>3
    <2> DEFINE p == q \o <<u, w>>
    <2>2. \A i \in 1 .. Len(p) : i \in 1 .. Len(q) \/ i = Len(q) + 1 \/ i = Len(q) + 2
        BY <1>3, <2>1
    <2> QED BY <1>2, <1>3, <2>1, <2>2
<1>5. \A e \in Device : \A i \in 1 .. Len(queue'[e]) : Named(queue'[e][i])
    BY <1>1, <1>4 DEF NamedInv, AddsNamed
<1> QED BY <1>1, <1>5 DEF NamedInv, CardsNamed, AddsNamed, Named

LEMMA NamedNext == PatientInv /\ NamedInv /\ [PatientNext]_vars => NamedInv'
<1> SUFFICES ASSUME PatientInv, NamedInv, [PatientNext]_vars PROVE NamedInv'
    OBVIOUS
<1> USE DEF server
<1>0. Typed /\ LoanInv
    BY DEF PatientInv, CounterInv
<1>1. ASSUME UNCHANGED <<cards, queue>>
      PROVE  NamedInv'
    BY <1>1 DEF NamedInv, CardsNamed, AddsNamed, Named
<1>2. ASSUME NEW d \in Device, PatientBorrows(d)
      PROVE  NamedInv'
    <2>1. ASSUME NEW k \in Card, id[d] # None, ConfirmAction(d, k)
          PROVE  NamedInv'
        <3>1. Named(AddWrite(k, id[d])) /\ Issue(d, <<AddWrite(k, id[d])>>) /\ UNCHANGED cards
            BY <2>1 DEF Named, AddWrite, ConfirmAction
        <3> QED BY <1>0, <3>1, IssueNamed
    <2>2. CASE OkBorrow(d)
        <3>1. Named(LendWrite(d)) /\ Issue(d, <<LendWrite(d)>>) /\ UNCHANGED cards
            BY <2>2 DEF Named, LendWrite, CheckWrite, OkBorrow
        <3> QED BY <1>0, <3>1, IssueNamed
    <2> QED BY <1>1, <1>2, <2>1, <2>2
            DEF PatientBorrows, OpenBorrow, BookIDAction, BookAnswer, CancelBorrow
<1>3. ASSUME NEW d \in Device, PatientReturns(d)
      PROVE  NamedInv'
    BY <1>0, <1>1, <1>3, ReturnNamed
       DEF PatientReturns, OpenCard, CheckAnswer, StatusAction, LeaveCard
<1>4. ASSUME NEW d \in Device, PatientCatalogues(d)
      PROVE  NamedInv'
    <2>1. ASSUME NEW b, NEW q, NEW n, NEW why, NEW k, NEW basis,
                 Issue(d, <<CheckWrite(b, q, n, why, k, basis)>>), UNCHANGED cards
          PROVE  NamedInv'
        <3>1. Named(CheckWrite(b, q, n, why, k, basis))
            BY DEF Named, CheckWrite
        <3> QED BY <1>0, <2>1, <3>1, IssueNamed
    <2>2. CASE AddDecides(d)
        BY <2>1, <2>2 DEF AddDecides
    <2>3. ASSUME NEW b \in Book, NEW q \in Quantity, EditBook(d, b, q)
          PROVE  NamedInv'
        BY <2>1, <2>3 DEF EditBook
    <2> QED BY <1>1, <1>4, <2>2, <2>3
            DEF PatientCatalogues, AddBook, AddStudent, TwinAnswer, AddRefused
<1>5. ASSUME NEW d \in Device, Replicates(d)
      PROVE  NamedInv'
    BY <1>0, <1>1, <1>5, CommitNamed DEF Replicates, NoAnswer, SyncBook, SyncCard
<1>6. CASE UNCHANGED vars
    BY <1>1, <1>6 DEF vars
<1> QED BY <1>2, <1>3, <1>4, <1>5, <1>6 DEF PatientNext, Doing

\* At rest the open cards are those the counters of the books there count.
LEMMA OpenCardsCounted ==
    ASSUME PatientInv, CardsNamed, LoansAccounted, \A d \in Device : AtRest(d)
    PROVE  /\ {k \in Card : cards[k].status = "open"}
                  = UNION {posted[b] : b \in {b \in Book : Exists(books[b])}}
           /\ \A b, c \in Book : b # c => posted[b] \cap posted[c] = {}
<1>0. /\ Typed /\ TypeOK /\ CounterInv /\ LoanInv /\ NoneDrifted /\ AllStocked
    BY DEF PatientInv, CounterInv, Typed, DeskInv
<1>1. \A b \in Book : posted[b] = OnLoan(b)
    BY <1>0, SettledAtRest, SettledLoans DEF NoneDrifted
<1>2. ASSUME NEW k \in Card, cards[k].status = "open"
      PROVE  \E b \in Book : Exists(books[b]) /\ k \in posted[b]
    <2>1. cards[k].book \in Book
        BY <1>0, <1>2 DEF CardsNamed, TypeOK, CardDoc
    <2>2. k \in posted[cards[k].book]
        BY <1>0, <1>2, <2>1, OpenIsCounted
    <2>3. Stocked(cards[k].book)
        BY <1>0, <2>1, <2>2, CountedIsStocked
    <2> QED BY <2>1, <2>2, <2>3 DEF Stocked, Complete, Exists
<1>3. \A b \in Book : \A k \in posted[b] : k \in Card /\ cards[k].status = "open"
                                              /\ cards[k].book = b
    BY <1>1 DEF OnLoan
<1> QED BY <1>2, <1>3

\* The statistics screen adds up what the device reads, book by book.
LEMMA StatisticsSums ==
    ASSUME NEW d \in Device, IsFiniteSet(Book), \A b \in Book : BookView(d, b) = books[b]
    PROVE  LET S == {b \in Book : Exists(books[b])}
               q == [b \in Book |-> books[b].quantity]
               c == [b \in Book |-> books[b].check]
           IN  \E F, G : /\ SumsUp(F, c, S) /\ SumsUp(G, q, S)
                         /\ Statistics(d).borrowing = F[S]
                         /\ Statistics(d).remaining = G[S] - F[S]
<1> DEFINE S == {b \in Book : Exists(books[b])}
           q == [b \in Book |-> books[b].quantity]
           c == [b \in Book |-> books[b].check]
           T == {b \in Book : Exists(BookView(d, b))}
           total == MapThenSumSet(LAMBDA b : BookView(d, b).quantity, T)
           lent  == MapThenSumSet(LAMBDA b : BookView(d, b).check, T)
<1>1. S = T
    OBVIOUS
<1>2. IsFiniteSet(S) /\ S \subseteq Book
    BY FS_Subset
<1>3. ASSUME NEW s \in SUBSET S, s # {}
      PROVE  /\ q[Pick(s)] = BookView(d, CHOOSE x \in s : TRUE).quantity
             /\ c[Pick(s)] = BookView(d, CHOOSE x \in s : TRUE).check
    <2>1. Pick(s) \in Book
        BY <1>2, <1>3, PickIsIn
    <2> QED BY <2>1 DEF Pick
<1>4. \E G : SumsUp(G, q, S) /\ total = G[S]
    <2>1. PICK F : SumsUp(F, q, S)
        BY <1>2, SumExists
    <2> DEFINE Adds(f) == f = [s \in SUBSET T |->
                                 IF s = {} THEN 0
                                 ELSE BookView(d, CHOOSE x \in s : TRUE).quantity
                                        + f[s \ {CHOOSE x \in s : TRUE}]]
    <2>2. ASSUME NEW f
          PROVE  SumsUp(f, q, S) <=> Adds(f)
        <3> DEFINE A(s) == IF s = {} THEN 0 ELSE q[Pick(s)] + f[s \ {Pick(s)}]
                   B(s) == IF s = {} THEN 0
                           ELSE BookView(d, CHOOSE x \in s : TRUE).quantity
                                  + f[s \ {CHOOSE x \in s : TRUE}]
        <3>1. \A s \in SUBSET S : A(s) = B(s)
            <4> SUFFICES ASSUME NEW s \in SUBSET S, s # {} PROVE A(s) = B(s)
                OBVIOUS
            <4>1. q[Pick(s)] = BookView(d, CHOOSE x \in s : TRUE).quantity
                BY <1>3
            <4> HIDE DEF q
            <4> QED BY <4>1 DEF Pick
        <3>2. (f = [s \in SUBSET S |-> A(s)]) <=> (f = [s \in SUBSET T |-> B(s)])
            <4> HIDE DEF S, T, A, B
            <4> QED BY <1>1, <3>1
        <3> QED BY <3>2, Zenon DEF SumsUp
    <2>3. Adds(F)
        BY <2>1, <2>2
    <2> HIDE DEF T
    <2>4. \E f : Adds(f) /\ total = f[T]
        BY <2>3 DEF MapThenSumSet, MapThenFoldSet
    <2> HIDE DEF S, q, Adds, total
    <2> QED BY <1>1, <2>2, <2>4
<1>5. \E F : SumsUp(F, c, S) /\ lent = F[S]
    <2>1. PICK F : SumsUp(F, c, S)
        BY <1>2, SumExists
    <2> DEFINE Adds(f) == f = [s \in SUBSET T |->
                                 IF s = {} THEN 0
                                 ELSE BookView(d, CHOOSE x \in s : TRUE).check
                                        + f[s \ {CHOOSE x \in s : TRUE}]]
    <2>2. ASSUME NEW f
          PROVE  SumsUp(f, c, S) <=> Adds(f)
        <3> DEFINE A(s) == IF s = {} THEN 0 ELSE c[Pick(s)] + f[s \ {Pick(s)}]
                   B(s) == IF s = {} THEN 0
                           ELSE BookView(d, CHOOSE x \in s : TRUE).check
                                  + f[s \ {CHOOSE x \in s : TRUE}]
        <3>1. \A s \in SUBSET S : A(s) = B(s)
            <4> SUFFICES ASSUME NEW s \in SUBSET S, s # {} PROVE A(s) = B(s)
                OBVIOUS
            <4>1. c[Pick(s)] = BookView(d, CHOOSE x \in s : TRUE).check
                BY <1>3
            <4> HIDE DEF c
            <4> QED BY <4>1 DEF Pick
        <3>2. (f = [s \in SUBSET S |-> A(s)]) <=> (f = [s \in SUBSET T |-> B(s)])
            <4> HIDE DEF S, T, A, B
            <4> QED BY <1>1, <3>1
        <3> QED BY <3>2, Zenon DEF SumsUp
    <2>3. Adds(F)
        BY <2>1, <2>2
    <2> HIDE DEF T
    <2>4. \E f : Adds(f) /\ lent = f[T]
        BY <2>3 DEF MapThenSumSet, MapThenFoldSet
    <2> HIDE DEF S, c, Adds, lent
    <2> QED BY <1>1, <2>2, <2>4
<1>6. Statistics(d).borrowing = lent /\ Statistics(d).remaining = total - lent
    <2> HIDE DEF S, q, c
    <2> QED BY Zenon DEF Statistics
<1> HIDE DEF q, c, S, total, lent
<1>7. \E F, G : /\ SumsUp(F, c, S) /\ SumsUp(G, q, S)
                /\ Statistics(d).borrowing = F[S]
                /\ Statistics(d).remaining = G[S] - F[S]
    BY <1>4, <1>5, <1>6
<1> QED BY <1>7 DEF S, q, c

\* To the librarian whose turn it is the statistics screen shows as borrowed
\* the number of open cards in the whole library, and a remainder that is not
\* negative, for any finite set of books.
THEOREM TotalsAgreeHolds ==
    ASSUME IsFiniteSet(Book)
    PROVE  PatientSpec => []TotalsAgree
<1>1. ASSUME PatientInv, CardsNamed, LoansAccounted
      PROVE  TotalsAgree
    <2> SUFFICES ASSUME NEW d \in Device, Turn(d)
                 PROVE  /\ Statistics(d).borrowing
                              = Cardinality({k \in Card : cards[k].status = "open"})
                        /\ Statistics(d).remaining >= 0
        BY DEF TotalsAgree
    <2> DEFINE S == {b \in Book : Exists(books[b])}
               q == [b \in Book |-> books[b].quantity]
               c == [b \in Book |-> books[b].check]
    <2>0. Typed /\ TypeOK /\ Counted /\ NoneDrifted /\ AllStocked
        BY <1>1 DEF PatientInv, CounterInv, Typed, DeskInv
    <2>1. Current(d) /\ AtRest(d) /\ \A e \in Device : AtRest(e)
        BY TurnIsOnly DEF Turn
    <2>2. \A b \in Book : BookView(d, b) = books[b]
        <3>1. \A i \in 1 .. Len(queue[d]) : queue[d][i].op # "book"
            BY <2>1 DEF AtRest
        <3> QED BY <2>0, <2>1, <3>1, ViewIsBooks
    <2>3. PICK F, G : /\ SumsUp(F, c, S) /\ SumsUp(G, q, S)
                      /\ Statistics(d).borrowing = F[S]
                      /\ Statistics(d).remaining = G[S] - F[S]
        BY <2>2, StatisticsSums
    <2>4. IsFiniteSet(S)
        BY FS_Subset
    <2>5. \A b \in S : /\ IsFiniteSet(posted[b]) /\ c[b] = Cardinality(posted[b])
                       /\ c[b] \in Int /\ q[b] \in Int /\ c[b] <= q[b]
        <3> SUFFICES ASSUME NEW b \in S
                     PROVE  /\ IsFiniteSet(posted[b]) /\ c[b] = Cardinality(posted[b])
                            /\ c[b] \in Int /\ q[b] \in Int /\ c[b] <= q[b]
            OBVIOUS
        <3>1. /\ b \in Book /\ Stocked(b)
              /\ c[b] = books[b].check /\ q[b] = books[b].quantity
            BY <2>0 DEF AllStocked
        <3>2. books[b] \in BookDoc
            BY <2>0, <3>1 DEF TypeOK
        <3> QED BY <2>0, <3>1, <3>2
                DEF Stocked, Complete, BookDoc, Count, Counted, LedgerExact, NoneDrifted
    <2>6. /\ {k \in Card : cards[k].status = "open"} = UNION {posted[b] : b \in S}
          /\ \A b, e \in S : b # e => posted[b] \cap posted[e] = {}
        BY <1>1, <2>1, OpenCardsCounted
    <2> DEFINE open == {k \in Card : cards[k].status = "open"}
               loans == UNION {posted[b] : b \in S}
    <2> HIDE DEF S, q, c
    <2>7. F[S] = Cardinality(loans)
        BY <2>3, <2>4, <2>5, <2>6, SumsCount
    <2>8. F[S] \in Int /\ G[S] \in Int /\ F[S] <= G[S]
        BY <2>3, <2>4, <2>5, SumsCompare
    <2>9. open = loans
        BY <2>6
    <2> HIDE DEF open, loans
    <2>10. Statistics(d).borrowing = Cardinality(open) /\ Statistics(d).remaining >= 0
        BY <2>3, <2>7, <2>8, <2>9
    <2> QED BY <2>10 DEF open
<1>2. Init => NamedInv
    BY DEF Init, NamedInv, CardsNamed, AddsNamed
<1>3. NamedInv => CardsNamed
    BY DEF NamedInv
<1>4. PatientSpec => Spec
    BY PatientIsNext, PTL DEF PatientSpec, Spec
<1> QED BY <1>1, <1>2, <1>3, <1>4, PatientInit, PatientInvNext, NamedNext,
           LoansAccountedHolds, PTL DEF PatientSpec

=============================================================================
