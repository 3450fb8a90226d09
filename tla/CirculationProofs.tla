------------------------- MODULE CirculationProofs -------------------------
(***************************************************************************)
(* Theorems about Circulation, for every value of its constants.           *)
(*                                                                         *)
(* The counters: every variable keeps its type, and the counter of a book  *)
(* is the number of loans it stands for until one of the named events      *)
(* makes it drift; no book is left with a counter and nothing else.        *)
(*                                                                         *)
(* The loans: a loan is counted only under the book of its card and only   *)
(* once the card is on the server, and while the counter of a book has not *)
(* drifted, every loan not counted and every return still counted has its  *)
(* write under way.  The argument follows the writes in the queues.  A     *)
(* device closes and counts only cards it knows, by its own add before in  *)
(* the queue or from the server; so a card has one book for everybody.     *)
(* Every card is lent by one alert, which becomes one write, which is      *)
(* counted once.                                                           *)
(***************************************************************************)
EXTENDS Circulation, FiniteSetTheorems, SequenceTheorems, TLAPS

\* A return screen knows its card and the card's book.
ScreenOK == \A d \in Device : 
    screen[d] = "return" => current[d] \in [card : Card, book : Book]

Typed == TypeOK /\ ScreenOK

----------------------------------------------------------------------------
(* The device's view of a document.                                        *)

\* A set of positions of a sequence that is not empty has a last one.
LEMMA LastOfIsIn ==
    ASSUME NEW n \in Nat, NEW I \in SUBSET (1 .. n), I # {}
    PROVE  LastOf(I) \in I
<1> DEFINE U == {u \in 1 .. n : \E j \in I : u <= j}
           f == [u \in U |-> u + 1]
<1>1. SUFFICES ASSUME \A i \in I : \E j \in I : i < j
               PROVE  FALSE
    <2>1. (\E i \in I : \A j \in I : j <= i) => LastOf(I) \in I
        BY DEF LastOf
    <2> QED BY <2>1
<1>2. IsFiniteSet(U) /\ Cardinality(U) \in Nat
    <2>1. IsFiniteSet(1 .. n)
        BY FS_Interval
    <2>2. U \in SUBSET (1 .. n)
        OBVIOUS
    <2> HIDE DEF U
    <2> QED BY <2>1, <2>2, FS_Subset, FS_CardinalityType
<1>3. 1 \in U
    <2>1. PICK j \in I : TRUE
        OBVIOUS
    <2>2. 1 <= j /\ 1 \in 1 .. n
        OBVIOUS
    <2> QED BY <2>2
<1>4. \A u \in U : u + 1 \in U \ {1}
    BY <1>1
<1>5. f \in Injection(U, U \ {1})
    BY <1>4 DEF Injection, IsInjective
<1>6. IsFiniteSet(U \ {1}) /\ Cardinality(U \ {1}) = Cardinality(U) - 1
    <2> HIDE DEF U
    <2> QED BY <1>2, <1>3, FS_RemoveElement
<1>7. Cardinality(U) <= Cardinality(U \ {1})
    <2> HIDE DEF U, f
    <2> QED BY <1>5, <1>6, FS_Injection
<1> QED
    <2> HIDE DEF U
    <2> QED BY <1>2, <1>6, <1>7

LEMMA FieldViewIsOne ==
    ASSUME NEW d \in Device, NEW b \in Book, NEW f,
           TypeOK
    PROVE  \/ FieldView(d, b, f) = seenBooks[d][b][f]
           \/ \E i \in 1 .. Len(queue[d]) :
                /\ queue[d][i].op = "book" /\ queue[d][i][f] # None
                /\ FieldView(d, b, f) = queue[d][i][f]
<1> DEFINE I == PendingField(d, b, f)
<1>1. CASE I = {}
    BY <1>1 DEF FieldView
<1>2. CASE I # {}
    <2>1. Len(queue[d]) \in Nat
        BY LenProperties DEF TypeOK
    <2>2. I \in SUBSET (1 .. Len(queue[d]))
        BY DEF PendingField
    <2>3. LastOf(I) \in I
        BY <1>2, <2>1, <2>2, LastOfIsIn
    <2> QED BY <1>2, <2>3 DEF FieldView, PendingField
<1> QED BY <1>1, <1>2

LEMMA WriteAt ==
    ASSUME TypeOK, NEW d \in Device, NEW i \in 1 .. Len(queue[d])
    PROVE  queue[d][i] \in Write
BY ElementOfSeq DEF TypeOK

LEMMA BookWriteIs ==
    ASSUME NEW w \in Write, w.op = "book"
    PROVE  w \in BookWrite
BY DEF Write, CardWrite, BookWrite, StockWrite, LoanWrite

LEMMA CardWriteIs ==
    ASSUME NEW w \in Write, w.op # "book"
    PROVE  w \in CardWrite
BY DEF Write, CardWrite, BookWrite, StockWrite, LoanWrite

\* What a device reads of a book is a document.
LEMMA BookViewType ==
    ASSUME TypeOK, NEW d \in Device, NEW b \in Book
    PROVE  BookView(d, b) \in BookDoc
<1>1. seenBooks[d][b] \in BookDoc
    BY DEF TypeOK
<1>2. FieldView(d, b, "quantity") \in Nat \cup {None}
    BY <1>1, FieldViewIsOne, WriteAt, BookWriteIs DEF BookDoc, BookWrite, StockWrite, LoanWrite
<1>3. FieldView(d, b, "check") \in Count
    BY <1>1, FieldViewIsOne, WriteAt, BookWriteIs DEF BookDoc, BookWrite, StockWrite, LoanWrite, Count
<1> QED BY <1>2, <1>3 DEF BookView, BookDoc

\* The book a device reads on a card is a book or nothing.
LEMMA CardBookViewType ==
    ASSUME TypeOK, NEW d \in Device, NEW k \in Card
    PROVE  CardBookView(d, k) \in Book \cup {None}
<1>1. seenCards[d][k].book \in Book \cup {None}
    BY DEF TypeOK, CardDoc
<1>2. ASSUME Pending(d, "add", k)
      PROVE  queue[d][CHOOSE i \in 1 .. Len(queue[d]) :
                         queue[d][i].op = "add" /\ queue[d][i].card = k].book
                \in Book \cup {None}
    <2> DEFINE j == CHOOSE i \in 1 .. Len(queue[d]) :
                        queue[d][i].op = "add" /\ queue[d][i].card = k
    <2>1. j \in 1 .. Len(queue[d]) /\ queue[d][j].op = "add"
        BY <1>2 DEF Pending
    <2>2. queue[d][j] \in CardWrite
        BY <2>1, WriteAt, CardWriteIs
    <2> QED BY <2>2 DEF CardWrite
<1> QED BY <1>1, <1>2 DEF CardBookView
----------------------------------------------------------------------------
(* Writes and queues.                                                      *)

LEMMA IssueType ==
    ASSUME TypeOK, NEW d \in Device, NEW w \in Seq(Write), Issue(d, w)
    PROVE  queue' \in [Device -> Seq(Write)]
<1>1. queue[d] \o w \in Seq(Write)
    BY ConcatProperties DEF TypeOK
<1> QED BY <1>1 DEF TypeOK, Issue

LEMMA OneWrite ==
    ASSUME NEW w \in Write
    PROVE  <<w>> \in Seq(Write)
OBVIOUS

LEMMA StockWriteType ==
    ASSUME NEW b \in Book, NEW q \in Nat, NEW n \in Int, NEW why \in {"edit", "new"},
           NEW basis \in Int
    PROVE  CheckWrite(b, q, n, why, None, basis) \in Write
<1>1. CheckWrite(b, q, n, why, None, basis) \in StockWrite
    BY DEF CheckWrite, StockWrite
<1> QED BY <1>1 DEF Write, BookWrite

LEMMA LoanWriteType ==
    ASSUME NEW b \in Book, NEW n \in Int, NEW why \in {"lend", "return"},
           NEW k \in Card, NEW basis \in Int
    PROVE  CheckWrite(b, None, n, why, k, basis) \in Write
<1>1. CheckWrite(b, None, n, why, k, basis) \in LoanWrite
    BY DEF CheckWrite, LoanWrite
<1> QED BY <1>1 DEF Write, BookWrite

LEMMA AddWriteType ==
    ASSUME NEW k \in Card, NEW b \in Book \cup {None}
    PROVE  AddWrite(k, b) \in Write
BY DEF AddWrite, CardWrite, Write

LEMMA CloseWriteType ==
    ASSUME NEW k \in Card
    PROVE  CloseWrite(k) \in Write
BY DEF CloseWrite, CardWrite, Write

LEMMA MergeType ==
    ASSUME NEW doc \in BookDoc, NEW w \in BookWrite
    PROVE  Merge(doc, w) \in BookDoc
BY DEF Merge, BookDoc, BookWrite, StockWrite, LoanWrite, Count

\* Closing the screen on top, or the app, keeps every type.
LEMMA ClosesType ==
    ASSUME Typed, NEW d \in Device, Closes(d)
    PROVE  /\ screen' \in [Device -> {"list", "borrow", "return"}]
           /\ id' \in [Device -> Book \cup {None}]
           /\ confirm' \in [Device -> BOOLEAN]
           /\ alert' \in [Device -> Card \cup {None}]
           /\ current' \in [Device -> [card : Card, book : Book] \cup {None}]
           /\ switch' \in [Device -> BOOLEAN]
           /\ ScreenOK'
<1>1. /\ screen' \in [Device -> {"list", "borrow", "return"}]
      /\ id' \in [Device -> Book \cup {None}]
    BY DEF Typed, TypeOK, Closes
<1>2. /\ confirm' \in [Device -> BOOLEAN]
      /\ switch' \in [Device -> BOOLEAN]
    BY DEF Typed, TypeOK, Closes
<1>3. /\ alert' \in [Device -> Card \cup {None}]
      /\ current' \in [Device -> [card : Card, book : Book] \cup {None}]
    BY DEF Typed, TypeOK, Closes
<1>4. ScreenOK'
    BY DEF Typed, TypeOK, ScreenOK, Closes
<1> QED BY <1>1, <1>2, <1>3, <1>4

LEMMA LeavesType ==
    ASSUME Typed, NEW d \in Device, Leaves(d)
    PROVE  reads' \in [Device -> SUBSET Read]
<1>1. \A r \in Read : [r EXCEPT !.live = FALSE] \in Read
    BY DEF Read
<1>2. {[r EXCEPT !.live = FALSE] : r \in reads[d]} \in SUBSET Read
    BY <1>1 DEF Typed, TypeOK
<1> QED BY <1>2 DEF Typed, TypeOK, Leaves

LEMMA StopsType ==
    ASSUME Typed, NEW d \in Device, Stops(d)
    PROVE  /\ reads' \in [Device -> SUBSET Read]
           /\ adding' \in [Device -> [book : Book, quantity : Quantity, twin : BOOLEAN] \cup {None}]
BY DEF Typed, TypeOK, Stops

LEMMA TearsType ==
    ASSUME Typed, NEW d \in Device, Tears(d)
    PROVE  clean' \in [Book -> BOOLEAN]
BY DEF Typed, TypeOK, Tears

----------------------------------------------------------------------------
(* Every action keeps every type.                                          *)

LEMMA TypedInit == Init => Typed
<1> SUFFICES ASSUME Init PROVE Typed
    OBVIOUS
<1> USE ConstantsAssumption
<1>1. books \in [Book -> BookDoc]
    <2>1. \A b \in Book : FirstQuantity[b] \in Nat \cup {None}
        OBVIOUS
    <2> QED BY <2>1 DEF Init, BookDoc, Count
<1>2. cards \in [Card -> CardDoc]
    BY DEF Init, CardDoc, Status
<1>3. /\ seenBooks \in [Device -> [Book -> BookDoc]]
      /\ seenCards \in [Device -> [Card -> CardDoc]]
    BY <1>1, <1>2 DEF Init
<1>4. /\ queue \in [Device -> Seq(Write)] /\ check \in [Device -> Count]
      /\ reads \in [Device -> SUBSET Read]
    BY DEF Init, Count
<1>5. ScreenOK
    BY DEF Init, ScreenOK
<1> QED BY <1>1, <1>2, <1>3, <1>4, <1>5 DEF Init, Typed, TypeOK

LEMMA BorrowsTyped ==
    ASSUME Typed, NEW d \in Device, Borrows(d)
    PROVE  Typed'
<1> USE ConstantsAssumption DEF server, replica, borrowScreen, returnScreen, history
<1>1. CASE OpenBorrow(d)
    BY <1>1 DEF OpenBorrow, Typed, TypeOK, ScreenOK
<1>2. ASSUME NEW b \in Book, BookIDAction(d, b)
      PROVE  Typed'
    <2>1. [by |-> "borrow", book |-> IDBeforeDash[b], live |-> TRUE] \in Read
        BY DEF Read
    <2> QED BY <1>2, <2>1 DEF BookIDAction, Typed, TypeOK, ScreenOK
<1>3. ASSUME NEW r \in reads[d], BookAnswer(d, r)
      PROVE  Typed'
    <2>1. BookView(d, r.book) \in BookDoc
        BY <1>3, BookViewType DEF Typed, TypeOK, Read, BookAnswer
    <2>2. Answered(d, BookView(d, r.book)) \in Count
        BY <2>1 DEF Answered, BookDoc, Typed, TypeOK
    <2>3. Available(BookView(d, r.book)) \in BOOLEAN
        BY DEF Available
    <2> QED BY <1>3, <2>2, <2>3 DEF BookAnswer, Typed, TypeOK, ScreenOK
<1>4. ASSUME NEW r \in reads[d], PartialAnswer(d, r)
      PROVE  Typed'
    <2>1. Stops(d) /\ Tears(d)
        BY <1>4 DEF PartialAnswer
    <2> QED BY <1>4, <2>1, ClosesType, StopsType, TearsType
            DEF PartialAnswer, Stops, Typed, TypeOK
<1>5. ASSUME NEW k \in Card, ConfirmAction(d, k)
      PROVE  Typed'
    <2>1. AddWrite(k, id[d]) \in Write
        BY AddWriteType DEF Typed, TypeOK
    <2>2. queue' \in [Device -> Seq(Write)]
        BY <1>5, <2>1, OneWrite, IssueType DEF ConfirmAction, Typed
    <2> QED BY <1>5, <2>2 DEF ConfirmAction, Typed, TypeOK, ScreenOK
<1>6. CASE OkBorrow(d)
    <2>1. LendWrite(d) \in Write
        <3>1. check[d] \in Int /\ id[d] \in Book /\ alert[d] \in Card
            BY <1>6 DEF OkBorrow, Typed, TypeOK, Count
        <3>2. check[d] + 1 \in Int
            BY <3>1
        <3> QED BY <3>1, <3>2, LoanWriteType DEF LendWrite
    <2>2. queue' \in [Device -> Seq(Write)]
        BY <1>6, <2>1, OneWrite, IssueType DEF OkBorrow, Typed
    <2> QED BY <1>6, <2>2, ClosesType, LeavesType DEF OkBorrow, Leaves, Typed, TypeOK
<1>7. CASE OkBorrowFails(d)
    BY <1>7, ClosesType, StopsType, TearsType DEF OkBorrowFails, Stops, Typed, TypeOK
<1>8. CASE CancelBorrow(d)
    BY <1>8, ClosesType, LeavesType DEF CancelBorrow, Leaves, Typed, TypeOK
<1> QED BY <1>1, <1>2, <1>3, <1>4, <1>5, <1>6, <1>7, <1>8 DEF Borrows

LEMMA ReturnsTyped ==
    ASSUME Typed, NEW d \in Device, Returns(d)
    PROVE  Typed'
<1> USE ConstantsAssumption DEF server, replica, borrowScreen, returnScreen, history
<1>1. ASSUME NEW k \in Card, OpenCard(d, k)
      PROVE  Typed'
    <2>1. CardBookView(d, k) \in Book
        BY <1>1, CardBookViewType DEF OpenCard, Typed
    <2>2. [by |-> "return", book |-> CardBookView(d, k), live |-> FALSE] \in Read
        BY <2>1 DEF Read
    <2>3. [card |-> k, book |-> CardBookView(d, k)] \in [card : Card, book : Book]
        BY <2>1
    <2>4. reads' \in [Device -> SUBSET Read]
        BY <1>1, <2>2 DEF OpenCard, Typed, TypeOK
    <2>5. current' \in [Device -> [card : Card, book : Book] \cup {None}]
        BY <1>1, <2>3 DEF OpenCard, Typed, TypeOK
    <2>6. ScreenOK'
        BY <1>1, <2>3 DEF OpenCard, Typed, TypeOK, ScreenOK
    <2>7. /\ switch' \in [Device -> BOOLEAN]
          /\ screen' \in [Device -> {"list", "borrow", "return"}]
        BY <1>1 DEF OpenCard, Typed, TypeOK
    <2> QED BY <1>1, <2>4, <2>5, <2>6, <2>7 DEF OpenCard, Typed, TypeOK
<1>2. ASSUME NEW k \in Card, OpenCardFails(d, k)
      PROVE  Typed'
    BY <1>2, ClosesType, StopsType DEF OpenCardFails, Stops, Typed, TypeOK
<1>3. ASSUME NEW r \in reads[d], CheckAnswer(d, r)
      PROVE  Typed'
    <2>0. r \in Read /\ r.by = "return"
        BY <1>3 DEF Typed, TypeOK, CheckAnswer
    <2>1. BookView(d, r.book) \in BookDoc
        BY <2>0, BookViewType DEF Typed, Read
    <2>2. BookView(d, r.book).check \in Count
        BY <2>1 DEF BookDoc
    <2> QED BY <1>3, <2>2 DEF CheckAnswer, Typed, TypeOK, ScreenOK
<1>4. CASE StatusAction(d)
    BY <1>4 DEF StatusAction, Typed, TypeOK, ScreenOK
<1>5. ASSUME screen[d] = "return"
      PROVE  current[d] \in [card : Card, book : Book]
    BY <1>5 DEF Typed, TypeOK, ScreenOK
<1>6. CASE ConfirmReturn(d)
    <2>1. current[d].card \in Card /\ current[d].book \in Book
        BY <1>5, <1>6 DEF ConfirmReturn
    <2>2. check[d] \in Int
        BY <1>6 DEF ConfirmReturn, Typed, TypeOK, Count
    <2>3. CheckWrite(current[d].book, None, check[d] - 1, "return",
                     current[d].card, check[d]) \in Write
        BY <2>1, <2>2, LoanWriteType
    <2>4. ReturnWrites(d, current[d]) \in Seq(Write)
        BY <2>1, <2>3, CloseWriteType DEF ReturnWrites
    <2>5. queue' \in [Device -> Seq(Write)]
        BY <1>6, <2>4, IssueType DEF ConfirmReturn, Typed
    <2> QED BY <1>6, <2>5, ClosesType, LeavesType DEF ConfirmReturn, Leaves, Typed, TypeOK
<1>7. CASE ConfirmReturnFails(d)
    <2>1. current[d].card \in Card
        BY <1>5, <1>7 DEF ConfirmReturnFails
    <2>2. queue' \in [Device -> Seq(Write)]
        BY <1>7, <2>1, CloseWriteType, OneWrite, IssueType DEF ConfirmReturnFails, Typed
    <2>3. clean' \in [Book -> BOOLEAN]
        BY <1>7 DEF ConfirmReturnFails, Typed, TypeOK
    <2> QED BY <1>7, <2>2, <2>3, ClosesType, StopsType
            DEF ConfirmReturnFails, Stops, Typed, TypeOK
<1>8. CASE LeaveCard(d)
    BY <1>8, ClosesType, LeavesType DEF LeaveCard, Leaves, Typed, TypeOK
<1> QED BY <1>1, <1>2, <1>3, <1>4, <1>6, <1>7, <1>8 DEF Returns

LEMMA CataloguesTyped ==
    ASSUME Typed, NEW d \in Device, Catalogues(d)
    PROVE  Typed'
<1> USE ConstantsAssumption DEF server, replica, borrowScreen, returnScreen, history
<1>1. ASSUME NEW b \in Book, NEW q \in Quantity, NEW twin \in BOOLEAN, AddBook(d, b, q, twin)
      PROVE  Typed'
    <2>1. [by |-> "add", book |-> None, live |-> FALSE] \in Read
        BY DEF Read
    <2>2. reads' \in [Device -> SUBSET Read]
        BY <1>1, <2>1 DEF AddBook, Typed, TypeOK
    <2>3. adding' \in [Device -> [book : Book, quantity : Quantity, twin : BOOLEAN] \cup {None}]
        BY <1>1 DEF AddBook, Typed, TypeOK
    <2>4. check' \in [Device -> Count]
        BY <1>1 DEF AddBook, Typed, TypeOK, Count
    <2> QED BY <1>1, <2>2, <2>3, <2>4 DEF AddBook, Typed, TypeOK, ScreenOK
<1>2. ASSUME NEW r \in reads[d], TwinAnswer(d, r)
      PROVE  Typed'
    BY <1>2 DEF TwinAnswer, Typed, TypeOK, ScreenOK, Count
<1>3. CASE AddDecides(d)
    <2>1. adding[d] \in [book : Book, quantity : Quantity, twin : BOOLEAN]
        BY <1>3 DEF AddDecides, Typed, TypeOK
    <2>2. adding[d].book \in Book /\ adding[d].quantity \in Nat
        BY <2>1
    <2>3. CheckWrite(adding[d].book, adding[d].quantity, 0, "new", None, 0) \in Write
        BY <2>2, StockWriteType
    <2>4. queue' \in [Device -> Seq(Write)]
        BY <1>3, <2>3, OneWrite, IssueType DEF AddDecides, Typed
    <2> QED BY <1>3, <2>4 DEF AddDecides, Typed, TypeOK, ScreenOK
<1>4. CASE AddRefused(d)
    BY <1>4 DEF AddRefused, Typed, TypeOK, ScreenOK
<1>5. CASE AddDecisionFails(d)
    BY <1>5, ClosesType, StopsType, TearsType DEF AddDecisionFails, Stops, Typed, TypeOK
<1>6. ASSUME NEW b \in Book, NEW q \in Quantity, EditBook(d, b, q)
      PROVE  Typed'
    <2> DEFINE doc == BookView(d, b)
               new == IF q < doc.check THEN 0 ELSE q
    <2>1. doc.check \in Int
        BY <1>6, BookViewType DEF EditBook, Complete, Typed, BookDoc, Count
    <2>2. new \in Nat
        OBVIOUS
    <2>3. CheckWrite(b, new, doc.check, "edit", None, doc.check) \in Write
        <3> HIDE DEF doc, new
        <3> QED BY <2>1, <2>2, StockWriteType
    <2>4. queue' \in [Device -> Seq(Write)]
        BY <1>6, <2>3, OneWrite, IssueType DEF EditBook, Typed
    <2> QED BY <1>6, <2>4 DEF EditBook, Typed, TypeOK, ScreenOK
<1>7. ASSUME NEW known \in BOOLEAN, AddStudent(d, known)
      PROVE  Typed'
    <2>1. [by |-> "add", book |-> None, live |-> FALSE] \in Read
        BY DEF Read
    <2>2. reads' \in [Device -> SUBSET Read]
        BY <1>7, <2>1 DEF AddStudent, Typed, TypeOK
    <2>3. check' \in [Device -> Count]
        BY <1>7 DEF AddStudent, Typed, TypeOK, Count
    <2> QED BY <1>7, <2>2, <2>3 DEF AddStudent, Typed, TypeOK, ScreenOK
<1> QED BY <1>1, <1>2, <1>3, <1>4, <1>5, <1>6, <1>7 DEF Catalogues

LEMMA CommitTyped ==
    ASSUME Typed, NEW d \in Device, Commit(d)
    PROVE  Typed'
<1> USE ConstantsAssumption DEF server, replica, borrowScreen, returnScreen, history
<1> DEFINE w == Head(queue[d])
<1>1. w \in Write /\ Tail(queue[d]) \in Seq(Write)
    BY HeadTailProperties DEF Commit, Typed, TypeOK
<1>2. queue' \in [Device -> Seq(Write)]
    BY <1>1 DEF Commit, Typed, TypeOK
<1>3. CASE CommitCard(d, w)
    <2>1. w \in CardWrite
        BY <1>1, <1>3, CardWriteIs DEF CommitCard
    <2>2. w.card \in Card /\ w.book \in Book \cup {None}
        BY <2>1 DEF CardWrite
    <2> DEFINE new(doc) == IF w.op = "add" THEN [status |-> "open", book |-> w.book]
                           ELSE [doc EXCEPT !.status = "closed"]
    <2>3. \A doc \in CardDoc : new(doc) \in CardDoc
        BY <2>2 DEF CardDoc, Status
    <2>4. /\ cards' = [cards EXCEPT ![w.card] = new(cards[w.card])]
          /\ seenCards' = [seenCards EXCEPT ![d][w.card] = new(seenCards[d][w.card])]
        BY <1>3 DEF CommitCard
    <2>5. cards' \in [Card -> CardDoc]
        <3> HIDE DEF new, w
        <3> QED BY <2>2, <2>3, <2>4 DEF Typed, TypeOK
    <2>6. seenCards' \in [Device -> [Card -> CardDoc]]
        <3> HIDE DEF new, w
        <3> QED BY <2>2, <2>3, <2>4 DEF Typed, TypeOK
    <2> QED BY <1>2, <1>3, <2>5, <2>6 DEF Commit, CommitCard, Typed, TypeOK, ScreenOK
<1>4. CASE CommitBook(d, w)
    <2>1. w \in BookWrite
        BY <1>1, <1>4, BookWriteIs DEF CommitBook
    <2>2. w.book \in Book /\ (w.why \in {"lend", "return"} => w.card \in Card)
        BY <2>1 DEF BookWrite, StockWrite, LoanWrite
    <2>3. books' \in [Book -> BookDoc]
        BY <1>4, <2>1, <2>2, MergeType DEF CommitBook, Typed, TypeOK
    <2>4. seenBooks' \in [Device -> [Book -> BookDoc]]
        BY <1>4, <2>1, <2>2, MergeType DEF CommitBook, Typed, TypeOK
    <2>5. clean' \in [Book -> BOOLEAN]
        BY <1>4 DEF CommitBook, Sound, Typed, TypeOK
    <2>6. posted' \in [Book -> SUBSET Card]
        <3> HIDE DEF w
        <3> QED BY <1>4, <2>2 DEF CommitBook, Typed, TypeOK
    <2> QED BY <1>2, <1>4, <2>3, <2>4, <2>5, <2>6 DEF Commit, CommitBook, Typed, TypeOK, ScreenOK
<1> QED BY <1>3, <1>4 DEF Commit

LEMMA SyncTyped ==
    ASSUME Typed, NEW d \in Device,
           (\E b \in Book : SyncBook(d, b)) \/ (\E k \in Card : SyncCard(d, k))
    PROVE  Typed'
<1> USE DEF server, replica, borrowScreen, returnScreen, history
<1>1. ASSUME NEW b \in Book, SyncBook(d, b)
      PROVE  Typed'
    BY <1>1 DEF SyncBook, Typed, TypeOK, ScreenOK
<1>2. ASSUME NEW k \in Card, SyncCard(d, k)
      PROVE  Typed'
    BY <1>2 DEF SyncCard, Typed, TypeOK, ScreenOK
<1> QED BY <1>1, <1>2

LEMMA TypedNext == Typed /\ [Next]_vars => Typed'
<1> SUFFICES ASSUME Typed, [Next]_vars PROVE Typed'
    OBVIOUS
<1> USE DEF server, replica, borrowScreen, returnScreen, history
<1>1. ASSUME NEW d \in Device, Crash(d)
      PROVE  Typed'
    BY <1>1, ClosesType, StopsType, TearsType DEF Crash, Stops, Typed, TypeOK
<1>2. ASSUME NEW d \in Device, NEW r \in reads[d], NoAnswer(d, r)
      PROVE  Typed'
    BY <1>2 DEF NoAnswer, Typed, TypeOK, ScreenOK
<1>3. CASE UNCHANGED vars
    BY <1>3 DEF vars, Typed, TypeOK, ScreenOK
<1> QED BY <1>1, <1>2, <1>3, BorrowsTyped, ReturnsTyped, CataloguesTyped,
           CommitTyped, SyncTyped DEF Next, Doing, Replicates

\* Every variable keeps its type: what the screens force out of UserDefaults
\* and of documents is there whenever the model's guards let an action happen.
THEOREM TypeCorrect == Spec => []TypeOK
<1>1. Typed => TypeOK
    BY DEF Typed
<1> QED BY <1>1, TypedInit, TypedNext, PTL DEF Spec
----------------------------------------------------------------------------
(* The counters.                                                           *)

\* How far a write moves the counter from the value it was computed from.
Amount(w) ==
    w.op = "book" =>
        /\ w.why = "lend"   => w.check = w.basis + 1
        /\ w.why = "return" => w.check = w.basis - 1
        /\ w.why = "edit"   => w.check = w.basis
        /\ w.why = "new"    => w.check = 0 /\ w.basis = 0

AmountsOK == \A d \in Device : \A i \in 1 .. Len(queue[d]) : Amount(queue[d][i])

Counted == LedgerExact /\ \A b \in Book : IsFiniteSet(posted[b])

CounterInv == Typed /\ AmountsOK /\ Counted

LEMMA IssueAmounts ==
    ASSUME Typed, AmountsOK, NEW d \in Device, NEW w \in Seq(Write), Issue(d, w),
           \A i \in 1 .. Len(w) : Amount(w[i])
    PROVE  AmountsOK'
<1> DEFINE q == queue[d] \o w
<1>1. queue' = [queue EXCEPT ![d] = q]
    BY DEF Issue
<1>2. /\ queue \in [Device -> Seq(Write)]
      /\ queue[d] \in Seq(Write)
    BY DEF Typed, TypeOK
<1>3. /\ Len(q) = Len(queue[d]) + Len(w)
      /\ \A i \in 1 .. Len(queue[d]) + Len(w) :
            q[i] = IF i <= Len(queue[d]) THEN queue[d][i] ELSE w[i - Len(queue[d])]
    BY <1>2, ConcatProperties
<1>4. Len(queue[d]) \in Nat /\ Len(w) \in Nat
    BY <1>2, LenProperties
<1>5. \A i \in 1 .. Len(q) : Amount(q[i])
    <2> TAKE i \in 1 .. Len(q)
    <2>1. CASE i <= Len(queue[d])
        BY <1>3, <1>4, <2>1 DEF AmountsOK
    <2>2. CASE ~(i <= Len(queue[d]))
        <3>1. i - Len(queue[d]) \in 1 .. Len(w)
            BY <1>3, <1>4, <2>2
        <3> QED BY <1>3, <1>4, <2>2, <3>1
    <2> QED BY <2>1, <2>2
<1> HIDE DEF q
<1> QED BY <1>1, <1>2, <1>5 DEF AmountsOK

LEMMA IssueOneAmount ==
    ASSUME Typed, AmountsOK, NEW d \in Device, NEW w \in Write, Amount(w), Issue(d, <<w>>)
    PROVE  AmountsOK'
<1>1. <<w>> \in Seq(Write) /\ Len(<<w>>) = 1 /\ <<w>>[1] = w
    OBVIOUS
<1>2. \A i \in 1 .. Len(<<w>>) : Amount(<<w>>[i])
    BY <1>1
<1> QED BY <1>1, <1>2, IssueAmounts

LEMMA AmountsInit == Init => AmountsOK
BY DEF Init, AmountsOK

\* A step of the screens leaves server and counted loans alone, and may only
\* declare that a counter drifts.
Apart == /\ UNCHANGED <<books, posted>>
         /\ \A b \in Book : clean'[b] => clean[b]

LEMMA TearsApart ==
    ASSUME NEW d \in Device, Tears(d)
    PROVE  \A b \in Book : clean'[b] => clean[b]
BY DEF Tears

LEMMA BorrowsAmounts ==
    ASSUME Typed, AmountsOK, NEW d \in Device, Borrows(d)
    PROVE  AmountsOK' /\ Apart
<1> USE DEF server, history
<1>1. ASSUME NEW k \in Card, ConfirmAction(d, k)
      PROVE  AmountsOK' /\ Apart
    <2>1. AddWrite(k, id[d]) \in Write
        BY AddWriteType DEF Typed, TypeOK
    <2>2. Amount(AddWrite(k, id[d]))
        BY DEF Amount, AddWrite
    <2>3. AmountsOK'
        BY <1>1, <2>1, <2>2, IssueOneAmount DEF ConfirmAction
    <2> QED BY <1>1, <2>3 DEF ConfirmAction, Apart
<1>2. CASE OkBorrow(d)
    <2>1. check[d] \in Int /\ id[d] \in Book /\ alert[d] \in Card
        BY <1>2 DEF OkBorrow, Typed, TypeOK, Count
    <2>2. LendWrite(d) \in Write
        <3>1. check[d] + 1 \in Int
            BY <2>1
        <3> QED BY <2>1, <3>1, LoanWriteType DEF LendWrite
    <2>3. Amount(LendWrite(d))
        BY DEF Amount, LendWrite, CheckWrite
    <2>4. AmountsOK'
        BY <1>2, <2>2, <2>3, IssueOneAmount DEF OkBorrow
    <2> QED BY <1>2, <2>4 DEF OkBorrow, Apart
<1>3. ASSUME queue' = queue
      PROVE  AmountsOK'
    BY <1>3 DEF AmountsOK
<1>4. CASE OpenBorrow(d) \/ CancelBorrow(d)
    BY <1>3, <1>4 DEF OpenBorrow, CancelBorrow, Apart
<1>5. CASE \E b \in Book : BookIDAction(d, b)
    BY <1>3, <1>5 DEF BookIDAction, Apart
<1>6. CASE \E r \in reads[d] : BookAnswer(d, r)
    BY <1>3, <1>6 DEF BookAnswer, Apart
<1>7. CASE (\E r \in reads[d] : PartialAnswer(d, r)) \/ OkBorrowFails(d)
    BY <1>3, <1>7, TearsApart DEF PartialAnswer, OkBorrowFails, Apart
<1> QED BY <1>1, <1>2, <1>4, <1>5, <1>6, <1>7 DEF Borrows

LEMMA ReturnsAmounts ==
    ASSUME Typed, AmountsOK, NEW d \in Device, Returns(d)
    PROVE  AmountsOK' /\ Apart
<1> USE DEF server, history
<1>1. ASSUME screen[d] = "return"
      PROVE  current[d].card \in Card /\ current[d].book \in Book
    BY <1>1 DEF Typed, ScreenOK
<1>2. CASE ConfirmReturn(d)
    <2> DEFINE c == CloseWrite(current[d].card)
               w == CheckWrite(current[d].book, None, check[d] - 1, "return",
                               current[d].card, check[d])
    <2>1. check[d] \in Int /\ check[d] - 1 \in Int
        BY <1>2 DEF ConfirmReturn, Typed, TypeOK, Count
    <2>2. c \in Write /\ w \in Write
        BY <1>1, <1>2, <2>1, LoanWriteType, CloseWriteType DEF ConfirmReturn
    <2>3. Amount(c) /\ Amount(w)
        BY DEF Amount, CloseWrite, CheckWrite
    <2>4. Issue(d, <<c, w>>)
        BY <1>2 DEF ConfirmReturn, ReturnWrites
    <2>5. AmountsOK'
        <3> HIDE DEF c, w
        <3>1. <<c, w>> \in Seq(Write)
            BY <2>2
        <3>2. \A i \in 1 .. Len(<<c, w>>) : Amount(<<c, w>>[i])
            BY <2>3
        <3> QED BY <2>4, <3>1, <3>2, IssueAmounts
    <2> QED BY <1>2, <2>5 DEF ConfirmReturn, Apart
<1>3. CASE ConfirmReturnFails(d)
    <2>1. Amount(CloseWrite(current[d].card))
        BY DEF Amount, CloseWrite
    <2>2. AmountsOK'
        BY <1>1, <1>3, <2>1, CloseWriteType, IssueOneAmount DEF ConfirmReturnFails
    <2>3. \A b \in Book : clean'[b] => clean[b]
        BY <1>3 DEF ConfirmReturnFails, Typed, TypeOK
    <2> QED BY <1>3, <2>2, <2>3 DEF ConfirmReturnFails, Apart
<1>4. ASSUME queue' = queue
      PROVE  AmountsOK'
    BY <1>4 DEF AmountsOK
<1>5. CASE \E k \in Card : OpenCard(d, k)
    BY <1>4, <1>5 DEF OpenCard, Apart
<1>6. CASE \E k \in Card : OpenCardFails(d, k)
    BY <1>4, <1>6 DEF OpenCardFails, Apart
<1>7. CASE (\E r \in reads[d] : CheckAnswer(d, r)) \/ StatusAction(d) \/ LeaveCard(d)
    BY <1>4, <1>7 DEF CheckAnswer, StatusAction, LeaveCard, Apart
<1> QED BY <1>2, <1>3, <1>5, <1>6, <1>7 DEF Returns

LEMMA CataloguesAmounts ==
    ASSUME Typed, AmountsOK, NEW d \in Device, Catalogues(d)
    PROVE  AmountsOK' /\ Apart
<1> USE ConstantsAssumption DEF server, history
<1>1. CASE AddDecides(d)
    <2> DEFINE w == CheckWrite(adding[d].book, adding[d].quantity, 0, "new", None, 0)
    <2>1. adding[d] \in [book : Book, quantity : Quantity, twin : BOOLEAN]
        BY <1>1 DEF AddDecides, Typed, TypeOK
    <2>2. w \in Write
        <3>1. adding[d].book \in Book /\ adding[d].quantity \in Nat
            BY <2>1
        <3> QED BY <3>1, StockWriteType
    <2>3. Amount(w)
        BY DEF Amount, CheckWrite
    <2>4. Issue(d, <<w>>)
        BY <1>1 DEF AddDecides
    <2>5. AmountsOK'
        <3> HIDE DEF w
        <3> QED BY <2>2, <2>3, <2>4, IssueOneAmount
    <2> QED BY <1>1, <2>5 DEF AddDecides, Apart
<1>2. ASSUME NEW b \in Book, NEW q \in Quantity, EditBook(d, b, q)
      PROVE  AmountsOK' /\ Apart
    <2> DEFINE doc == BookView(d, b)
               new == IF q < doc.check THEN 0 ELSE q
               w == CheckWrite(b, new, doc.check, "edit", None, doc.check)
    <2>1. doc.check \in Int
        BY <1>2, BookViewType DEF EditBook, Complete, Typed, BookDoc, Count
    <2>2. w \in Write
        <3>1. new \in Nat
            OBVIOUS
        <3> HIDE DEF doc, new
        <3> QED BY <2>1, <3>1, StockWriteType
    <2>3. Amount(w)
        BY DEF Amount, CheckWrite
    <2>4. Issue(d, <<w>>)
        BY <1>2 DEF EditBook
    <2>5. AmountsOK'
        <3> HIDE DEF w
        <3> QED BY <2>2, <2>3, <2>4, IssueOneAmount
    <2> QED BY <1>2, <2>5 DEF EditBook, Apart
<1>3. ASSUME queue' = queue
      PROVE  AmountsOK'
    BY <1>3 DEF AmountsOK
<1>4. CASE \E b \in Book, q \in Quantity, twin \in BOOLEAN : AddBook(d, b, q, twin)
    BY <1>3, <1>4 DEF AddBook, Apart
<1>5. CASE (\E r \in reads[d] : TwinAnswer(d, r)) \/ AddRefused(d)
    BY <1>3, <1>5 DEF TwinAnswer, AddRefused, Apart
<1>6. CASE AddDecisionFails(d)
    BY <1>3, <1>6, TearsApart DEF AddDecisionFails, Apart
<1>7. CASE \E known \in BOOLEAN : AddStudent(d, known)
    BY <1>3, <1>7 DEF AddStudent, Apart
<1> QED BY <1>1, <1>2, <1>4, <1>5, <1>6, <1>7 DEF Catalogues

LEMMA CommitAmounts ==
    ASSUME Typed, AmountsOK, NEW d \in Device, Commit(d)
    PROVE  AmountsOK' /\ Amount(Head(queue[d]))
<1> DEFINE t == Tail(queue[d])
<1>1. queue[d] \in Seq(Write) /\ queue[d] # <<>>
    BY DEF Commit, Typed, TypeOK
<1>2. /\ Len(t) = Len(queue[d]) - 1 /\ Len(queue[d]) \in Nat
      /\ \A i \in 1 .. Len(t) : t[i] = queue[d][i + 1]
    BY <1>1, HeadTailProperties, LenProperties
<1>3. \A i \in 1 .. Len(t) : Amount(t[i])
    <2> TAKE i \in 1 .. Len(t)
    <2>1. i + 1 \in 1 .. Len(queue[d])
        BY <1>2
    <2> QED BY <1>2, <2>1 DEF AmountsOK
<1>4. queue' = [queue EXCEPT ![d] = t]
    BY DEF Commit
<1>5. AmountsOK'
    <2> HIDE DEF t
    <2> QED BY <1>3, <1>4 DEF AmountsOK, Typed, TypeOK
<1>6. Amount(Head(queue[d]))
    <2>1. 1 \in 1 .. Len(queue[d]) /\ Head(queue[d]) = queue[d][1]
        BY <1>1
    <2> QED BY <2>1 DEF AmountsOK
<1> QED BY <1>5, <1>6

LEMMA ApartCounted ==
    ASSUME Counted, Apart
    PROVE  Counted'
BY DEF Counted, LedgerExact, Apart

\* The server applies a counter write: a sound one moves the counter exactly
\* as it moves the set of loans it stands for.
LEMMA CommitBookCounted ==
    ASSUME Typed, Counted, NEW d \in Device, NEW w \in BookWrite, Amount(w),
           CommitBook(d, w)
    PROVE  Counted'
<1>1. w.book \in Book /\ w.check \in Int /\ w.basis \in Int
    BY DEF BookWrite, StockWrite, LoanWrite
<1>2. /\ books' = [books EXCEPT ![w.book] = Merge(books[w.book], w)]
      /\ clean' = [clean EXCEPT ![w.book] = clean[w.book] /\ Sound(w)]
    BY DEF CommitBook
<1> DEFINE loans == IF w.why = "lend" THEN posted[w.book] \cup {w.card}
                    ELSE IF w.why = "return" THEN posted[w.book] \ {w.card}
                    ELSE posted[w.book]
<1>3. posted' = [posted EXCEPT ![w.book] = loans]
    BY DEF CommitBook
<1>4. IsFiniteSet(posted[w.book])
    BY <1>1 DEF Counted
<1>5. IsFiniteSet(loans)
    BY <1>4, FS_AddElement, FS_RemoveElement
<1>6. ASSUME clean[w.book], Sound(w)
      PROVE  w.check = Cardinality(loans)
    <2> DEFINE old == books[w.book].check
               n == Cardinality(posted[w.book])
    <2>1. /\ old = None => posted[w.book] = {}
          /\ old # None => old = n
        BY <1>1, <1>6 DEF Counted, LedgerExact
    <2>2. n \in Nat
        BY <1>4, FS_CardinalityType
    <2>3. w.why # "new" => w.basis = n
        <3>1. w.basis # None
            BY <1>1, ConstantsAssumption
        <3> QED BY <1>6, <2>1, <3>1 DEF Sound
    <2>4. w.why \in {"lend", "return", "edit", "new"} /\ w.op = "book"
        BY DEF BookWrite, StockWrite, LoanWrite
    <2>5. CASE w.why = "lend"
        <3>1. Cardinality(loans) = n + 1
            BY <1>4, <1>6, <2>5, FS_AddElement DEF Sound
        <3> QED BY <2>3, <2>4, <2>5, <3>1 DEF Amount
    <2>6. CASE w.why = "return"
        <3>1. Cardinality(loans) = n - 1
            BY <1>4, <1>6, <2>6, FS_RemoveElement DEF Sound
        <3> QED BY <2>3, <2>4, <2>6, <3>1 DEF Amount
    <2>7. CASE w.why = "edit"
        BY <2>3, <2>4, <2>7 DEF Amount
    <2>8. CASE w.why = "new"
        <3>1. w.check = 0 /\ w.basis = 0
            BY <2>4, <2>8 DEF Amount
        <3>2. old = 0 \/ old = None
            BY <1>6, <2>8, <3>1 DEF Sound
        <3>3. n = 0
            BY <2>1, <3>2, FS_EmptySet, ConstantsAssumption
        <3> QED BY <2>8, <3>1, <3>3
    <2> QED BY <2>4, <2>5, <2>6, <2>7, <2>8
<1>7. ASSUME NEW b \in Book
      PROVE  /\ IsFiniteSet(posted'[b])
             /\ clean'[b] =>
                  /\ books'[b].check = None => posted'[b] = {}
                  /\ books'[b].check # None => books'[b].check = Cardinality(posted'[b])
    <2> HIDE DEF loans
    <2>1. CASE b # w.book
        BY <1>2, <1>3, <2>1 DEF Counted, LedgerExact, Typed, TypeOK
    <2>2. CASE b = w.book
        <3>1. /\ books'[b].check = w.check /\ posted'[b] = loans
              /\ clean'[b] => clean[w.book] /\ Sound(w)
            BY <1>1, <1>2, <1>3, <2>2 DEF Merge, Typed, TypeOK
        <3>2. w.check # None
            BY <1>1, ConstantsAssumption
        <3> QED BY <1>5, <1>6, <3>1, <3>2
    <2> QED BY <2>1, <2>2
<1> QED BY <1>7 DEF Counted, LedgerExact

LEMMA CounterInvNext == CounterInv /\ [Next]_vars => CounterInv'
<1> SUFFICES ASSUME CounterInv, [Next]_vars PROVE AmountsOK' /\ Counted'
    BY TypedNext DEF CounterInv
<1> USE DEF CounterInv
<1>1. ASSUME NEW d \in Device, Borrows(d) \/ Returns(d) \/ Catalogues(d)
      PROVE  AmountsOK' /\ Counted'
    BY <1>1, BorrowsAmounts, ReturnsAmounts, CataloguesAmounts, ApartCounted
<1>2. ASSUME queue' = queue, Apart
      PROVE  AmountsOK' /\ Counted'
    BY <1>2, ApartCounted DEF AmountsOK
<1>3. ASSUME NEW d \in Device, Commit(d)
      PROVE  AmountsOK' /\ Counted'
    <2> DEFINE w == Head(queue[d])
    <2>1. AmountsOK' /\ Amount(w)
        BY <1>3, CommitAmounts
    <2>2. CASE CommitCard(d, w)
        BY <2>1, <2>2, ApartCounted DEF CommitCard, history, Apart
    <2>3. CASE CommitBook(d, w)
        <3>1. w \in BookWrite
            BY <1>3, <2>3, HeadTailProperties, BookWriteIs DEF Commit, CommitBook, Typed, TypeOK
        <3> QED BY <2>1, <2>3, <3>1, CommitBookCounted
    <2> QED BY <1>3, <2>2, <2>3 DEF Commit
<1>4. ASSUME NEW d \in Device, Crash(d)
      PROVE  AmountsOK' /\ Counted'
    BY <1>2, <1>4, TearsApart DEF Crash, server, Apart
<1>5. ASSUME NEW d \in Device, NEW r \in reads[d], NoAnswer(d, r)
      PROVE  AmountsOK' /\ Counted'
    BY <1>2, <1>5 DEF NoAnswer, server, history, Apart
<1>6. ASSUME NEW d \in Device, NEW b \in Book, SyncBook(d, b)
      PROVE  AmountsOK' /\ Counted'
    BY <1>2, <1>6 DEF SyncBook, server, history, Apart
<1>7. ASSUME NEW d \in Device, NEW k \in Card, SyncCard(d, k)
      PROVE  AmountsOK' /\ Counted'
    BY <1>2, <1>7 DEF SyncCard, server, history, Apart
<1>8. CASE UNCHANGED vars
    BY <1>2, <1>8 DEF vars, Apart
<1> QED BY <1>1, <1>3, <1>4, <1>5, <1>6, <1>7, <1>8 DEF Next, Doing, Replicates

LEMMA CounterInit == Init => CounterInv
<1> SUFFICES ASSUME Init PROVE Counted
    BY TypedInit, AmountsInit DEF CounterInv
<1> QED BY FS_EmptySet DEF Init, Counted, LedgerExact

\* For any number of devices, books and cards: the counter of a book is the
\* number of loans it stands for until one of the events named by Sound, Tears
\* and ConfirmReturnFails makes it drift.
THEOREM LedgerExactHolds == Spec => []LedgerExact
<1>1. CounterInv => LedgerExact
    BY DEF CounterInv, Counted
<1> QED BY <1>1, CounterInit, CounterInvNext, PTL DEF Spec
----------------------------------------------------------------------------
(* Books with a counter only.                                              *)

\* No other book's id is cut to that of b.
Whole(b) == \A a \in Book \ {b} : IDBeforeDash[a] # b

\* The write gives book b a quantity, and so makes a whole document.
Fills(w, b) == w.op = "book" /\ w.book = b /\ w.quantity # None

\* Device d knows book b to be whole before place n of its queue, or with all
\* of its queue.
There(d, b, n) ==
    Complete(books[b]) \/ \E j \in 1 .. Len(queue[d]) : j < n /\ Fills(queue[d][j], b)
ThereNow(d, b) ==
    Complete(books[b]) \/ \E j \in 1 .. Len(queue[d]) : Fills(queue[d][j], b)

\* The screens of device d are about book b.
Names(d, b) == id[d] = b \/ (screen[d] = "return" /\ current[d].book = b)

\* The inductive invariant: what a device has seen of a quantity the server
\* has, and every write, card and screen that names a book has the whole
\* document before it.
SeenWhole ==
    \A d \in Device, b \in Book :
        seenBooks[d][b].quantity # None => books[b].quantity # None
WritesWhole ==
    \A d \in Device, b \in Book : \A i \in 1 .. Len(queue[d]) :
        Whole(b) /\ queue[d][i].book = b => Fills(queue[d][i], b) \/ There(d, b, i)
CardsWhole ==
    \A k \in Card, b \in Book : Whole(b) =>
        /\ cards[k].book = b => Complete(books[b])
        /\ \A d \in Device : seenCards[d][k].book = b => Complete(books[b])
ScreensWhole ==
    \A d \in Device, b \in Book : Whole(b) /\ Names(d, b) => ThereNow(d, b)

WholeInv == SeenWhole /\ WritesWhole /\ CardsWhole /\ ScreensWhole /\ WholeBooks

\* A step that leaves the queues and the books alone.
LEMMA StaysWhole ==
    ASSUME WholeInv, UNCHANGED <<books, queue>>, SeenWhole', CardsWhole',
           \A e \in Device, b \in Book :
              Whole(b) /\ Names(e, b)' => Names(e, b) \/ ThereNow(e, b)
    PROVE  WholeInv'
<1>1. WholeBooks' /\ WritesWhole'
    BY DEF WholeInv, WholeBooks, WritesWhole, There, Whole
<1>2. ScreensWhole'
    BY DEF WholeInv, ScreensWhole, ThereNow, Whole
<1> QED BY <1>1, <1>2 DEF WholeInv

\* A step of the screens alone.
LEMMA ScreensOnlyWhole ==
    ASSUME WholeInv, UNCHANGED <<books, queue, seenBooks, cards, seenCards>>,
           \A e \in Device, b \in Book :
              Whole(b) /\ Names(e, b)' => Names(e, b) \/ ThereNow(e, b)
    PROVE  WholeInv'
<1>1. SeenWhole' /\ CardsWhole'
    BY DEF WholeInv, SeenWhole, CardsWhole, Whole
<1> QED BY <1>1, StaysWhole

\* Closing a screen only forgets what it names.
LEMMA ClosesNames ==
    ASSUME Typed, NEW d \in Device, Closes(d)
    PROVE  \A e \in Device, b \in Book : Names(e, b)' => Names(e, b)
<1>1. \A e \in Device : /\ id'[e] = IF e = d THEN None ELSE id[e]
                        /\ screen'[e] = IF e = d THEN "list" ELSE screen[e]
                        /\ e # d => current'[e] = current[e]
    BY DEF Closes, Typed, TypeOK
<1> QED BY <1>1, ConstantsAssumption DEF Names

\* Writes are issued that fill their book, or name one known to be whole.
LEMMA IssueWhole ==
    ASSUME Typed, WholeInv, NEW d \in Device, NEW w \in Seq(Write), Issue(d, w),
           UNCHANGED <<books, seenBooks, cards, seenCards>>,
           \A i \in 1 .. Len(w), b \in Book :
              Whole(b) /\ w[i].book = b => Fills(w[i], b) \/ ThereNow(d, b),
           \A e \in Device, b \in Book : Names(e, b)' => Names(e, b)
    PROVE  WholeInv'
<1> DEFINE q == queue[d] \o w
           n == Len(queue[d])
<1>1. queue' = [queue EXCEPT ![d] = q]
    BY DEF Issue
<1>2. /\ queue \in [Device -> Seq(Write)]
      /\ queue[d] \in Seq(Write)
    BY DEF Typed, TypeOK
<1>3. /\ Len(q) = n + Len(w) /\ n \in Nat /\ Len(w) \in Nat
      /\ \A i \in 1 .. n + Len(w) :
            q[i] = IF i <= n THEN queue[d][i] ELSE w[i - n]
    BY <1>2, ConcatProperties, LenProperties
<1> HIDE DEF q
<1>4. /\ queue'[d] = q
      /\ \A e \in Device : e # d => queue'[e] = queue[e]
    BY <1>1, <1>2
<1>5. \A i \in 1 .. n : i \in 1 .. Len(q) /\ q[i] = queue[d][i]
    BY <1>3
<1>6. ASSUME NEW e \in Device, NEW b \in Book
      PROVE  ThereNow(e, b) => ThereNow(e, b)'
    BY <1>4, <1>5 DEF ThereNow
<1>7. ASSUME NEW e \in Device, NEW b \in Book, NEW i
      PROVE  There(e, b, i) => There(e, b, i)'
    BY <1>4, <1>5 DEF There
<1>8. ASSUME NEW b \in Book, NEW i \in 1 .. Len(q), i > n, ThereNow(d, b)
      PROVE  There(d, b, i)'
    <2>1. \A j \in 1 .. n : j < i
        BY <1>3, <1>8
    <2> QED BY <1>4, <1>5, <1>8, <2>1 DEF There, ThereNow
<1>9. WritesWhole'
    <2> SUFFICES ASSUME NEW e \in Device, NEW b \in Book, NEW i \in 1 .. Len(queue'[e]),
                        Whole(b), queue'[e][i].book = b
                 PROVE  Fills(queue'[e][i], b) \/ There(e, b, i)'
        BY DEF WritesWhole, Whole, Fills
    <2>1. CASE e # d
        BY <1>4, <1>7, <2>1 DEF WholeInv, WritesWhole
    <2>2. CASE e = d /\ i <= n
        <3>1. i \in 1 .. n /\ queue'[e][i] = queue[d][i]
            BY <1>3, <1>4, <2>2
        <3> QED BY <1>7, <2>2, <3>1 DEF WholeInv, WritesWhole
    <2>3. CASE e = d /\ i > n
        <3>1. i \in 1 .. Len(q) /\ i - n \in 1 .. Len(w) /\ queue'[e][i] = w[i - n]
            BY <1>3, <1>4, <2>3
        <3> QED BY <1>8, <2>3, <3>1
    <2> QED BY <1>3, <1>4, <2>1, <2>2, <2>3
<1>10. SeenWhole' /\ CardsWhole' /\ WholeBooks'
    BY DEF WholeInv, SeenWhole, CardsWhole, WholeBooks, Whole
<1>11. ScreensWhole'
    BY <1>6 DEF WholeInv, ScreensWhole, Whole
<1> QED BY <1>9, <1>10, <1>11 DEF WholeInv

LEMMA IssueOneWhole ==
    ASSUME Typed, WholeInv, NEW d \in Device, NEW w \in Write, Issue(d, <<w>>),
           UNCHANGED <<books, seenBooks, cards, seenCards>>,
           \A b \in Book : Whole(b) /\ w.book = b => Fills(w, b) \/ ThereNow(d, b),
           \A e \in Device, b \in Book : Names(e, b)' => Names(e, b)
    PROVE  WholeInv'
<1>1. <<w>> \in Seq(Write) /\ Len(<<w>>) = 1 /\ <<w>>[1] = w
    OBVIOUS
<1>2. \A i \in 1 .. Len(<<w>>), b \in Book :
         Whole(b) /\ <<w>>[i].book = b => Fills(<<w>>[i], b) \/ ThereNow(d, b)
    BY <1>1
<1> QED BY <1>1, <1>2, IssueWhole

\* A book that a device reads whole it knows to be whole.
LEMMA ViewWhole ==
    ASSUME Typed, WholeInv, NEW d \in Device, NEW b \in Book, Whole(b),
           Complete(BookView(d, b))
    PROVE  ThereNow(d, b)
<1>1. FieldView(d, b, "quantity") # None
    BY DEF BookView, Complete
<1>2. CASE PendingField(d, b, "quantity") = {}
    <2>1. books[b].quantity # None
        BY <1>1, <1>2 DEF FieldView, WholeInv, SeenWhole
    <2> QED BY <2>1 DEF WholeInv, WholeBooks, Whole, Exists, ThereNow
<1>3. CASE PendingField(d, b, "quantity") # {}
    BY <1>3 DEF PendingField, ThereNow, Fills
<1> QED BY <1>2, <1>3

\* The book a device reads on a card it knows to be whole.
LEMMA CardBookWhole ==
    ASSUME Typed, WholeInv, NEW d \in Device, NEW k \in Card, NEW b \in Book, Whole(b),
           CardBookView(d, k) = b
    PROVE  ThereNow(d, b)
<1>1. CASE seenCards[d][k].status # "none"
    BY <1>1 DEF CardBookView, WholeInv, CardsWhole, ThereNow
<1>2. CASE seenCards[d][k].status = "none"
    <2>1. Pending(d, "add", k)
        BY <1>2, ConstantsAssumption DEF CardBookView
    <2> DEFINE is(i) == queue[d][i].op = "add" /\ queue[d][i].card = k
               j == CHOOSE i \in 1 .. Len(queue[d]) : is(i)
    <2>2. j \in 1 .. Len(queue[d]) /\ is(j)
        BY <2>1 DEF Pending
    <2>3. queue[d][j].book = b
        BY <1>2, <2>1 DEF CardBookView
    <2> HIDE DEF j
    <2>4. ~Fills(queue[d][j], b)
        BY <2>2 DEF Fills
    <2>5. There(d, b, j)
        BY <2>2, <2>3, <2>4 DEF WholeInv, WritesWhole
    <2> QED BY <2>5 DEF There, ThereNow
<1> QED BY <1>1, <1>2

LEMMA BorrowsWhole ==
    ASSUME Typed, WholeInv, NEW d \in Device, Borrows(d)
    PROVE  WholeInv'
<1> USE ConstantsAssumption DEF server, replica, borrowScreen, returnScreen, history
<1>1. CASE OpenBorrow(d)
    <2>1. \A e \in Device, b \in Book : Names(e, b)' => Names(e, b)
        BY <1>1 DEF OpenBorrow, Names, Typed, TypeOK
    <2> QED BY <1>1, <2>1, ScreensOnlyWhole DEF OpenBorrow
<1>2. ASSUME NEW a \in Book, BookIDAction(d, a)
      PROVE  WholeInv'
    <2>1. \A b \in Book : Whole(b) /\ b = IDBeforeDash[a] => a = b
        BY DEF Whole
    <2>2. \A e \in Device, b \in Book :
             Whole(b) /\ Names(e, b)' => Names(e, b) \/ ThereNow(e, b)
        <3> SUFFICES ASSUME NEW e \in Device, NEW b \in Book, Whole(b), Names(e, b)'
                     PROVE  Names(e, b) \/ ThereNow(e, b)
            OBVIOUS
        <3>1. Names(e, b) \/ (e = d /\ b = IDBeforeDash[a])
            BY <1>2 DEF BookIDAction, Names, Typed, TypeOK
        <3>2. e = d /\ b = IDBeforeDash[a] => ThereNow(e, b)
            BY <1>2, <2>1, ViewWhole DEF BookIDAction, Listed
        <3> QED BY <3>1, <3>2
    <2> QED BY <1>2, <2>2, ScreensOnlyWhole DEF BookIDAction
<1>3. ASSUME NEW r \in reads[d], BookAnswer(d, r) \/ PartialAnswer(d, r)
      PROVE  WholeInv'
    <2>1. \A e \in Device, b \in Book : Names(e, b)' => Names(e, b)
        <3>1. CASE BookAnswer(d, r)
            BY <3>1 DEF BookAnswer, Names
        <3>2. CASE PartialAnswer(d, r)
            BY <3>2, ClosesNames DEF PartialAnswer, Stops
        <3> QED BY <1>3, <3>1, <3>2
    <2> QED BY <1>3, <2>1, ScreensOnlyWhole DEF BookAnswer, PartialAnswer
<1>4. ASSUME NEW k \in Card, ConfirmAction(d, k)
      PROVE  WholeInv'
    <2> DEFINE w == AddWrite(k, id[d])
    <2>1. w \in Write
        BY AddWriteType DEF Typed, TypeOK
    <2>2. \A b \in Book : Whole(b) /\ w.book = b => ThereNow(d, b)
        BY DEF AddWrite, WholeInv, ScreensWhole, Names
    <2>3. \A e \in Device, b \in Book : Names(e, b)' => Names(e, b)
        BY <1>4 DEF ConfirmAction, Names
    <2>4. Issue(d, <<w>>) /\ UNCHANGED <<books, seenBooks, cards, seenCards>>
        BY <1>4 DEF ConfirmAction
    <2> HIDE DEF w
    <2> QED BY <2>1, <2>2, <2>3, <2>4, IssueOneWhole
<1>5. CASE OkBorrow(d)
    <2> DEFINE w == LendWrite(d)
    <2>1. w \in Write
        <3>1. /\ id[d] \in Book /\ alert[d] \in Card /\ check[d] \in Int
              /\ check[d] + 1 \in Int
            BY <1>5 DEF OkBorrow, Typed, TypeOK, Count
        <3> QED BY <3>1, LoanWriteType DEF LendWrite
    <2>2. \A b \in Book : Whole(b) /\ w.book = b => ThereNow(d, b)
        BY DEF LendWrite, CheckWrite, WholeInv, ScreensWhole, Names
    <2>3. \A e \in Device, b \in Book : Names(e, b)' => Names(e, b)
        BY <1>5, ClosesNames DEF OkBorrow, Leaves
    <2>4. Issue(d, <<w>>) /\ UNCHANGED <<books, seenBooks, cards, seenCards>>
        BY <1>5 DEF OkBorrow
    <2> HIDE DEF w
    <2> QED BY <2>1, <2>2, <2>3, <2>4, IssueOneWhole
<1>6. CASE OkBorrowFails(d) \/ CancelBorrow(d)
    <2>1. \A e \in Device, b \in Book : Names(e, b)' => Names(e, b)
        BY <1>6, ClosesNames DEF OkBorrowFails, CancelBorrow, Stops, Leaves
    <2> QED BY <1>6, <2>1, ScreensOnlyWhole DEF OkBorrowFails, CancelBorrow
<1> QED BY <1>1, <1>2, <1>3, <1>4, <1>5, <1>6 DEF Borrows

LEMMA ReturnsWhole ==
    ASSUME Typed, WholeInv, NEW d \in Device, Returns(d)
    PROVE  WholeInv'
<1> USE ConstantsAssumption DEF server, replica, borrowScreen, returnScreen, history
<1>1. ASSUME NEW k \in Card, OpenCard(d, k)
      PROVE  WholeInv'
    <2>1. \A e \in Device, b \in Book :
             Whole(b) /\ Names(e, b)' => Names(e, b) \/ ThereNow(e, b)
        <3> SUFFICES ASSUME NEW e \in Device, NEW b \in Book, Whole(b), Names(e, b)'
                     PROVE  Names(e, b) \/ ThereNow(e, b)
            OBVIOUS
        <3>1. Names(e, b) \/ (e = d /\ b = CardBookView(d, k))
            <4>1. /\ id' = id
                  /\ current' = [current EXCEPT ![d] = [card |-> k, book |-> CardBookView(d, k)]]
                  /\ screen' = [screen EXCEPT ![d] = "return"]
                BY <1>1 DEF OpenCard
            <4>2. /\ current'[d].book = CardBookView(d, k)
                  /\ e # d => current'[e] = current[e] /\ screen'[e] = screen[e]
                BY <4>1 DEF Typed, TypeOK
            <4> QED BY <4>1, <4>2 DEF Names
        <3> QED BY <3>1, CardBookWhole
    <2> QED BY <1>1, <2>1, ScreensOnlyWhole DEF OpenCard
<1>2. ASSUME NEW k \in Card, OpenCardFails(d, k)
      PROVE  WholeInv'
    <2>1. \A e \in Device, b \in Book : Names(e, b)' => Names(e, b)
        BY <1>2, ClosesNames DEF OpenCardFails, Stops
    <2> QED BY <1>2, <2>1, ScreensOnlyWhole DEF OpenCardFails
<1>3. ASSUME NEW r \in reads[d], CheckAnswer(d, r)
      PROVE  WholeInv'
    <2>1. \A e \in Device, b \in Book : Names(e, b)' => Names(e, b)
        BY <1>3 DEF CheckAnswer, Names
    <2> QED BY <1>3, <2>1, ScreensOnlyWhole DEF CheckAnswer
<1>4. CASE StatusAction(d)
    <2>1. \A e \in Device, b \in Book : Names(e, b)' => Names(e, b)
        BY <1>4 DEF StatusAction, Names
    <2> QED BY <1>4, <2>1, ScreensOnlyWhole DEF StatusAction
<1>5. CASE ConfirmReturn(d)
    <2> DEFINE c == current[d]
               u == CloseWrite(c.card)
               v == CheckWrite(c.book, None, check[d] - 1, "return", c.card, check[d])
    <2>1. c \in [card : Card, book : Book] /\ check[d] \in Int /\ check[d] - 1 \in Int
        <3>1. c \in [card : Card, book : Book]
            BY <1>5 DEF ConfirmReturn, Typed, ScreenOK
        <3>2. check[d] \in Int
            BY <1>5 DEF ConfirmReturn, Typed, TypeOK, Count
        <3>3. check[d] - 1 \in Int
            BY <3>2
        <3> QED BY <3>1, <3>2, <3>3
    <2>2. u \in Write /\ v \in Write
        <3>1. c.card \in Card /\ c.book \in Book
            BY <2>1
        <3> HIDE DEF c
        <3> QED BY <2>1, <3>1, CloseWriteType, LoanWriteType
    <2>3. \A b \in Book : Whole(b) /\ v.book = b => ThereNow(d, b)
        BY <1>5 DEF ConfirmReturn, CheckWrite, WholeInv, ScreensWhole, Names
    <2>4. u.book = None
        BY DEF CloseWrite
    <2>5. /\ Issue(d, <<u, v>>) /\ UNCHANGED <<books, seenBooks, cards, seenCards>>
        BY <1>5 DEF ConfirmReturn, ReturnWrites
    <2>6. \A e \in Device, b \in Book : Names(e, b)' => Names(e, b)
        BY <1>5, ClosesNames DEF ConfirmReturn, Leaves
    <2> HIDE DEF u, v
    <2>7. /\ <<u, v>> \in Seq(Write) /\ Len(<<u, v>>) = 2
          /\ <<u, v>>[1] = u /\ <<u, v>>[2] = v
        BY <2>2
    <2>8. \A i \in 1 .. Len(<<u, v>>), b \in Book :
             Whole(b) /\ <<u, v>>[i].book = b => ThereNow(d, b)
        <3> SUFFICES ASSUME NEW i \in 1 .. 2, NEW b \in Book, Whole(b), <<u, v>>[i].book = b
                     PROVE  ThereNow(d, b)
            BY <2>7
        <3>1. i = 1 \/ i = 2
            OBVIOUS
        <3> QED BY <2>3, <2>4, <2>7, <3>1
    <2> QED BY <2>5, <2>6, <2>7, <2>8, IssueWhole
<1>6. CASE ConfirmReturnFails(d)
    <2> DEFINE w == CloseWrite(current[d].card)
    <2>1. w \in Write
        BY <1>6, CloseWriteType DEF ConfirmReturnFails, Typed, ScreenOK
    <2>2. w.book = None
        BY DEF CloseWrite
    <2>3. \A e \in Device, b \in Book : Names(e, b)' => Names(e, b)
        BY <1>6, ClosesNames DEF ConfirmReturnFails, Stops
    <2>4. Issue(d, <<w>>) /\ UNCHANGED <<books, seenBooks, cards, seenCards>>
        BY <1>6 DEF ConfirmReturnFails
    <2> HIDE DEF w
    <2> QED BY <2>1, <2>2, <2>3, <2>4, IssueOneWhole
<1>7. CASE LeaveCard(d)
    <2>1. \A e \in Device, b \in Book : Names(e, b)' => Names(e, b)
        BY <1>7, ClosesNames DEF LeaveCard, Leaves
    <2> QED BY <1>7, <2>1, ScreensOnlyWhole DEF LeaveCard
<1> QED BY <1>1, <1>2, <1>3, <1>4, <1>5, <1>6, <1>7 DEF Returns

LEMMA CataloguesWhole ==
    ASSUME Typed, WholeInv, NEW d \in Device, Catalogues(d)
    PROVE  WholeInv'
<1> USE ConstantsAssumption DEF server, replica, borrowScreen, returnScreen, history
<1>1. ASSUME UNCHANGED <<id, screen, current, books, queue, seenBooks, cards, seenCards>>
      PROVE  WholeInv'
    <2>1. \A e \in Device, b \in Book : Names(e, b)' => Names(e, b)
        BY <1>1 DEF Names
    <2> QED BY <1>1, <2>1, ScreensOnlyWhole
<1>2. ASSUME NEW b \in Book, NEW q \in Quantity, NEW twin \in BOOLEAN, AddBook(d, b, q, twin)
      PROVE  WholeInv'
    BY <1>1, <1>2 DEF AddBook
<1>3. ASSUME NEW known \in BOOLEAN, AddStudent(d, known)
      PROVE  WholeInv'
    BY <1>1, <1>3 DEF AddStudent
<1>4. ASSUME NEW r \in reads[d], TwinAnswer(d, r)
      PROVE  WholeInv'
    BY <1>1, <1>4 DEF TwinAnswer
<1>5. CASE AddDecides(d)
    <2> DEFINE a == adding[d]
               w == CheckWrite(a.book, a.quantity, 0, "new", None, 0)
    <2>1. a.book \in Book /\ a.quantity \in Nat
        BY <1>5 DEF AddDecides, Typed, TypeOK
    <2>2. w \in Write
        BY <2>1, StockWriteType
    <2>3. \A b \in Book : w.book = b => Fills(w, b)
        BY <2>1 DEF CheckWrite, Fills
    <2>4. \A e \in Device, b \in Book : Names(e, b)' => Names(e, b)
        BY <1>5 DEF AddDecides, Names
    <2>5. Issue(d, <<w>>) /\ UNCHANGED <<books, seenBooks, cards, seenCards>>
        BY <1>5 DEF AddDecides
    <2> HIDE DEF w
    <2> QED BY <2>2, <2>3, <2>4, <2>5, IssueOneWhole
<1>6. CASE AddRefused(d)
    BY <1>1, <1>6 DEF AddRefused
<1>7. CASE AddDecisionFails(d)
    <2>1. \A e \in Device, b \in Book : Names(e, b)' => Names(e, b)
        BY <1>7, ClosesNames DEF AddDecisionFails, Stops
    <2> QED BY <1>7, <2>1, ScreensOnlyWhole DEF AddDecisionFails
<1>8. ASSUME NEW c \in Book, NEW q \in Quantity, EditBook(d, c, q)
      PROVE  WholeInv'
    <2> DEFINE doc == BookView(d, c)
               new == IF q < doc.check THEN 0 ELSE q
               w == CheckWrite(c, new, doc.check, "edit", None, doc.check)
    <2>1. doc.check \in Int /\ new \in Nat
        BY <1>8, BookViewType DEF EditBook, Complete, BookDoc, Count, Typed
    <2>2. Issue(d, <<w>>)
        BY <1>8 DEF EditBook
    <2> HIDE DEF doc, new
    <2>3. w \in Write
        BY <2>1, StockWriteType
    <2>4. \A b \in Book : w.book = b => Fills(w, b)
        BY <2>1 DEF CheckWrite, Fills
    <2>5. \A e \in Device, b \in Book : Names(e, b)' => Names(e, b)
        BY <1>8 DEF EditBook, Names
    <2>6. UNCHANGED <<books, seenBooks, cards, seenCards>>
        BY <1>8 DEF EditBook
    <2> HIDE DEF w
    <2> QED BY <2>2, <2>3, <2>4, <2>5, <2>6, IssueOneWhole
<1> QED BY <1>2, <1>3, <1>4, <1>5, <1>6, <1>7, <1>8 DEF Catalogues

\* The oldest write is taken: the others move up, and what was known stays known,
\* by the write taken or by those left.
LEMMA CommitKnows ==
    ASSUME Typed, WholeInv, NEW d \in Device, Commit(d)
    PROVE  /\ \A b \in Book : Complete(books[b]) => Complete(books[b])'
           /\ \A b \in Book : Whole(b) /\ Head(queue[d]).book = b =>
                 Complete(books[b]) \/ Fills(Head(queue[d]), b)
           /\ \A b \in Book : Fills(Head(queue[d]), b) => Complete(books[b])'
           /\ \A b \in Book : books[b].quantity # None => books'[b].quantity # None
           /\ WholeBooks'
<1> USE ConstantsAssumption
<1> DEFINE w == Head(queue[d])
<1>1. /\ queue[d] \in Seq(Write) /\ queue[d] # <<>>
      /\ Len(queue[d]) \in Nat /\ Len(queue[d]) >= 1 /\ w = queue[d][1] /\ w \in Write
    BY LenProperties, EmptySeq, ElementOfSeq DEF Commit, Typed, TypeOK
<1>2. \A b \in Book : Whole(b) /\ w.book = b => Complete(books[b]) \/ Fills(w, b)
    <2>1. 1 \in 1 .. Len(queue[d]) /\ \A j \in 1 .. Len(queue[d]) : ~(j < 1)
        BY <1>1
    <2> HIDE DEF w
    <2> QED BY <1>1, <2>1 DEF WholeInv, WritesWhole, There
<1>3. CASE CommitCard(d, w)
    <2>1. w.op # "book" /\ books' = books
        BY <1>3 DEF CommitCard
    <2>2. WholeBooks'
        BY <2>1 DEF WholeInv, WholeBooks
    <2> HIDE DEF w
    <2> QED BY <1>2, <2>1, <2>2 DEF Fills, w
<1>4. CASE CommitBook(d, w)
    <2>1. w \in BookWrite /\ w.op = "book"
        BY <1>1, <1>4, BookWriteIs DEF CommitBook
    <2>2. w.book \in Book /\ w.check # None
        BY <2>1 DEF BookWrite, StockWrite, LoanWrite
    <2>3. books' = [books EXCEPT ![w.book] = Merge(books[w.book], w)]
        BY <1>4 DEF CommitBook
    <2> HIDE DEF w
    <2>4. \A b \in Book : books'[b] = IF b = w.book THEN Merge(books[b], w) ELSE books[b]
        BY <2>2, <2>3 DEF Typed, TypeOK
    <2>5. /\ Merge(books[w.book], w).check # None
          /\ books[w.book].quantity # None \/ w.quantity # None =>
                Merge(books[w.book], w).quantity # None
        BY <2>2 DEF Merge
    <2>6. \A b \in Book : Complete(books[b]) => Complete(books'[b])
        BY <2>4, <2>5 DEF Complete
    <2>7. \A b \in Book : Fills(w, b) => Complete(books'[b])
        BY <2>4, <2>5 DEF Fills, Complete
    <2>8. \A b \in Book : books[b].quantity # None => books'[b].quantity # None
        BY <2>4, <2>5
    <2>9. WholeBooks'
        <3> SUFFICES ASSUME NEW b \in Book, Whole(b), Exists(books'[b])
                     PROVE  Complete(books'[b])
            BY DEF WholeBooks, Whole
        <3>1. CASE b = w.book
            BY <1>2, <2>6, <2>7, <3>1
        <3>2. CASE b # w.book
            BY <2>4, <3>2 DEF WholeInv, WholeBooks, Whole
        <3> QED BY <3>1, <3>2
    <2> QED BY <1>2, <2>6, <2>7, <2>8, <2>9 DEF w
<1> QED BY <1>3, <1>4 DEF Commit

LEMMA CommitQueue ==
    ASSUME Typed, NEW d \in Device, Commit(d)
    PROVE  /\ \A e \in Device : e # d => queue'[e] = queue[e]
           /\ Len(queue[d]) \in Nat /\ Len(queue[d]) >= 1
           /\ Len(queue'[d]) = Len(queue[d]) - 1
           /\ \A i \in 1 .. Len(queue'[d]) : queue'[d][i] = queue[d][i + 1]
           /\ queue[d][1] = Head(queue[d]) /\ Head(queue[d]) \in Write
<1>1. /\ queue[d] \in Seq(Write) /\ queue[d] # <<>>
      /\ queue' = [queue EXCEPT ![d] = Tail(queue[d])]
    BY DEF Commit, Typed, TypeOK
<1>2. /\ queue'[d] = Tail(queue[d])
      /\ \A e \in Device : e # d => queue'[e] = queue[e]
    BY <1>1 DEF Typed, TypeOK
<1>3. /\ Len(queue[d]) \in Nat /\ Len(queue[d]) >= 1
      /\ Len(Tail(queue[d])) = Len(queue[d]) - 1
      /\ \A i \in 1 .. Len(Tail(queue[d])) : Tail(queue[d])[i] = queue[d][i + 1]
      /\ Head(queue[d]) \in Write
    BY <1>1, HeadTailProperties, LenProperties, EmptySeq
<1>4. queue[d][1] = Head(queue[d])
    BY <1>1
<1> QED BY <1>2, <1>3, <1>4

LEMMA CommitWhole ==
    ASSUME Typed, WholeInv, NEW d \in Device, Commit(d)
    PROVE  WholeInv'
<1> USE ConstantsAssumption
<1> DEFINE w == Head(queue[d])
<1>1. \A b \in Book, j \in 1 .. Len(queue[d]) : Fills(queue[d][j], b) =>
         \/ Complete(books[b])'
         \/ j - 1 \in 1 .. Len(queue'[d]) /\ Fills(queue'[d][j - 1], b)
    <2> SUFFICES ASSUME NEW b \in Book, NEW j \in 1 .. Len(queue[d]), Fills(queue[d][j], b)
                 PROVE  \/ Complete(books[b])'
                        \/ j - 1 \in 1 .. Len(queue'[d]) /\ Fills(queue'[d][j - 1], b)
        OBVIOUS
    <2>1. CASE j = 1
        BY <2>1, CommitQueue, CommitKnows
    <2>2. CASE j # 1
        <3>1. j - 1 \in 1 .. Len(queue'[d])
            BY <2>2, CommitQueue
        <3>2. queue'[d][j - 1] = queue[d][(j - 1) + 1]
            BY <3>1, CommitQueue
        <3>3. (j - 1) + 1 = j
            BY CommitQueue
        <3> QED BY <3>1, <3>2, <3>3
    <2> QED BY <2>1, <2>2
<1>2. ASSUME NEW b \in Book, NEW e \in Device
      PROVE  ThereNow(e, b) => ThereNow(e, b)'
    <2>1. CASE e = d
        BY <1>1, <2>1, CommitKnows DEF ThereNow
    <2>2. CASE e # d
        BY <2>2, CommitKnows, CommitQueue DEF ThereNow
    <2> QED BY <2>1, <2>2
<1>3. ASSUME NEW b \in Book, NEW e \in Device, e # d, NEW i
      PROVE  There(e, b, i) => There(e, b, i)'
    BY <1>3, CommitKnows, CommitQueue DEF There
<1>4. ASSUME NEW b \in Book, NEW i \in 1 .. Len(queue'[d]), There(d, b, i + 1)
      PROVE  There(d, b, i)'
    <2>1. CASE Complete(books[b])
        BY <2>1, CommitKnows DEF There
    <2>2. CASE ~Complete(books[b])
        <3>1. PICK j \in 1 .. Len(queue[d]) : j < i + 1 /\ Fills(queue[d][j], b)
            BY <1>4, <2>2 DEF There
        <3>2. j - 1 < i
            BY <3>1, CommitQueue
        <3> QED BY <1>1, <3>1, <3>2 DEF There
    <2> QED BY <2>1, <2>2
<1>5. WritesWhole'
    <2> SUFFICES ASSUME NEW e \in Device, NEW b \in Book, NEW i \in 1 .. Len(queue'[e]),
                        Whole(b), queue'[e][i].book = b
                 PROVE  Fills(queue'[e][i], b) \/ There(e, b, i)'
        BY DEF WritesWhole, Whole, Fills
    <2>1. CASE e # d
        BY <1>3, <2>1, CommitQueue DEF WholeInv, WritesWhole
    <2>2. CASE e = d
        <3>1. i + 1 \in 1 .. Len(queue[d]) /\ queue'[d][i] = queue[d][i + 1]
            BY <2>2, CommitQueue
        <3>2. Fills(queue[d][i + 1], b) \/ There(d, b, i + 1)
            BY <2>2, <3>1 DEF WholeInv, WritesWhole
        <3> QED BY <1>4, <2>2, <3>1, <3>2
    <2> QED BY <2>1, <2>2
<1>6. ScreensWhole'
    <2>1. id' = id /\ screen' = screen /\ current' = current
        BY DEF Commit, borrowScreen, returnScreen
    <2> QED BY <1>2, <2>1 DEF WholeInv, ScreensWhole, Names, Whole
<1>7. SeenWhole' /\ CardsWhole'
    <2>1. CASE CommitCard(d, w)
        <3> DEFINE new(doc) == IF w.op = "add" THEN [status |-> "open", book |-> w.book]
                               ELSE [doc EXCEPT !.status = "closed"]
        <3>1. /\ cards' = [cards EXCEPT ![w.card] = new(cards[w.card])]
              /\ seenCards' = [seenCards EXCEPT ![d][w.card] = new(seenCards[d][w.card])]
              /\ UNCHANGED <<books, seenBooks>> /\ w.op # "book"
            BY <2>1 DEF CommitCard
        <3>2. w.card \in Card
            BY <3>1, CommitQueue, CardWriteIs DEF CardWrite
        <3>3. \A doc \in CardDoc : new(doc).book = doc.book \/ new(doc).book = w.book
            BY DEF CardDoc
        <3> HIDE DEF new
        <3>4. \A k \in Card : cards'[k].book = cards[k].book \/ cards'[k].book = w.book
            BY <3>1, <3>2, <3>3 DEF Typed, TypeOK
        <3>5. \A e \in Device, k \in Card :
                 seenCards'[e][k].book = seenCards[e][k].book \/ seenCards'[e][k].book = w.book
            <4> HIDE DEF w
            <4>1. seenCards \in [Device -> [Card -> CardDoc]]
                BY DEF Typed, TypeOK
            <4> SUFFICES ASSUME NEW e \in Device, NEW k \in Card
                         PROVE  \/ seenCards'[e][k].book = seenCards[e][k].book
                                \/ seenCards'[e][k].book = w.book
                OBVIOUS
            <4>2. seenCards'[e][k] = IF e = d /\ k = w.card THEN new(seenCards[e][k])
                                     ELSE seenCards[e][k]
                BY <3>1, <3>2, <4>1
            <4> QED BY <3>3, <4>1, <4>2
        <3>6. \A b \in Book : Whole(b) /\ w.book = b => Complete(books[b])
            BY <3>1, CommitKnows DEF Fills
        <3> HIDE DEF w
        <3>7. CardsWhole'
            <4> SUFFICES ASSUME NEW k \in Card, NEW b \in Book, Whole(b)
                         PROVE  /\ cards'[k].book = b => Complete(books[b])
                                /\ \A e \in Device : seenCards'[e][k].book = b => Complete(books[b])
                BY <3>1 DEF CardsWhole, Whole
            <4>1. cards'[k].book = b => Complete(books[b])
                BY <3>4, <3>6 DEF WholeInv, CardsWhole
            <4>2. ASSUME NEW e \in Device, seenCards'[e][k].book = b
                  PROVE  Complete(books[b])
                BY <3>5, <3>6, <4>2 DEF WholeInv, CardsWhole
            <4> QED BY <4>1, <4>2
        <3> QED BY <3>1, <3>7 DEF WholeInv, SeenWhole
    <2>2. CASE CommitBook(d, w)
        <3>1. /\ seenBooks' = [seenBooks EXCEPT ![d][w.book] = Merge(seenBooks[d][w.book], w)]
              /\ books' = [books EXCEPT ![w.book] = Merge(books[w.book], w)]
              /\ UNCHANGED <<cards, seenCards>> /\ w.op = "book"
            BY <2>2 DEF CommitBook
        <3>2. w.book \in Book
            BY <3>1, CommitQueue, BookWriteIs DEF BookWrite, StockWrite, LoanWrite
        <3>3. \A doc : Merge(doc, w).quantity = IF w.quantity = None THEN doc.quantity ELSE w.quantity
            BY DEF Merge
        <3> HIDE DEF w
        <3>4. books'[w.book] = Merge(books[w.book], w)
            BY <3>1, <3>2 DEF Typed, TypeOK
        <3>5. \A e \in Device, b \in Book :
                 seenBooks'[e][b] = IF e = d /\ b = w.book THEN Merge(seenBooks[e][b], w)
                                    ELSE seenBooks[e][b]
            BY <3>1, <3>2 DEF Typed, TypeOK
        <3>6. SeenWhole'
            <4> SUFFICES ASSUME NEW e \in Device, NEW b \in Book, seenBooks'[e][b].quantity # None
                         PROVE  books'[b].quantity # None
                BY DEF SeenWhole
            <4>1. CASE e = d /\ b = w.book
                BY <3>3, <3>4, <3>5, <4>1 DEF WholeInv, SeenWhole
            <4>2. CASE ~(e = d /\ b = w.book)
                BY <3>5, <4>2, CommitKnows DEF WholeInv, SeenWhole
            <4> QED BY <4>1, <4>2
        <3>7. CardsWhole'
            BY <3>1, CommitKnows DEF WholeInv, CardsWhole, Whole
        <3> QED BY <3>6, <3>7
    <2> QED BY <2>1, <2>2 DEF Commit
<1> QED BY <1>5, <1>6, <1>7, CommitKnows DEF WholeInv

LEMMA WholeNext == Typed /\ WholeInv /\ [Next]_vars => WholeInv'
<1> SUFFICES ASSUME Typed, WholeInv, [Next]_vars PROVE WholeInv'
    OBVIOUS
<1> USE DEF server, replica, borrowScreen, returnScreen, history
<1>1. ASSUME NEW d \in Device, Crash(d)
      PROVE  WholeInv'
    <2>1. \A e \in Device, b \in Book : Names(e, b)' => Names(e, b)
        BY <1>1, ClosesNames DEF Crash, Stops
    <2> QED BY <1>1, <2>1, ScreensOnlyWhole DEF Crash
<1>2. ASSUME NEW d \in Device, NEW r \in reads[d], NoAnswer(d, r)
      PROVE  WholeInv'
    <2>1. \A e \in Device, b \in Book : Names(e, b)' => Names(e, b)
        BY <1>2 DEF NoAnswer, Names
    <2> QED BY <1>2, <2>1, ScreensOnlyWhole DEF NoAnswer
<1>3. ASSUME NEW d \in Device, NEW c \in Book, SyncBook(d, c)
      PROVE  WholeInv'
    <2>1. \A e \in Device, b \in Book : Names(e, b)' => Names(e, b)
        BY <1>3 DEF SyncBook, Names
    <2>2. \A e \in Device, b \in Book :
             seenBooks'[e][b] = seenBooks[e][b] \/ seenBooks'[e][b] = books[b]
        BY <1>3 DEF SyncBook, Typed, TypeOK
    <2>3. SeenWhole' /\ CardsWhole'
        BY <1>3, <2>2 DEF SyncBook, WholeInv, SeenWhole, CardsWhole, Whole
    <2> QED BY <1>3, <2>1, <2>3, StaysWhole DEF SyncBook
<1>4. ASSUME NEW d \in Device, NEW l \in Card, SyncCard(d, l)
      PROVE  WholeInv'
    <2>1. \A e \in Device, b \in Book : Names(e, b)' => Names(e, b)
        BY <1>4 DEF SyncCard, Names
    <2>2. \A e \in Device, k \in Card :
             seenCards'[e][k] = seenCards[e][k] \/ seenCards'[e][k] = cards[k]
        BY <1>4 DEF SyncCard, Typed, TypeOK
    <2>3. SeenWhole' /\ CardsWhole'
        BY <1>4, <2>2 DEF SyncCard, WholeInv, SeenWhole, CardsWhole, Whole
    <2> QED BY <1>4, <2>1, <2>3, StaysWhole DEF SyncCard
<1>5. CASE UNCHANGED vars
    <2>1. \A e \in Device, b \in Book : Names(e, b)' => Names(e, b)
        BY <1>5 DEF vars, Names
    <2> QED BY <1>5, <2>1, ScreensOnlyWhole DEF vars
<1> QED BY <1>1, <1>2, <1>3, <1>4, <1>5, BorrowsWhole, ReturnsWhole, CataloguesWhole, CommitWhole
        DEF Next, Doing, Replicates

LEMMA WholeInit == Init => WholeInv
<1> SUFFICES ASSUME Init PROVE WholeInv
    OBVIOUS
<1> USE ConstantsAssumption
<1>1. SeenWhole /\ CardsWhole /\ ScreensWhole
    BY DEF Init, SeenWhole, CardsWhole, ScreensWhole, Names
<1>2. WritesWhole
    BY DEF Init, WritesWhole
<1>3. WholeBooks
    BY DEF Init, WholeBooks, Exists, Complete
<1> QED BY <1>1, <1>2, <1>3 DEF WholeInv

\* For any number of devices, books and cards: a book whose id is no other's cut
\* at a dash is never a document with a counter and nothing else, which every
\* book list would stop on.  A counter is only written for a book that was read
\* whole, and the write that made it whole is taken first.
THEOREM WholeBooksHolds == Spec => []WholeBooks
<1>1. Init => Typed /\ WholeInv
    BY TypedInit, WholeInit
<1>2. (Typed /\ WholeInv) /\ [Next]_vars => (Typed /\ WholeInv)'
    BY TypedNext, WholeNext
<1>3. WholeInv => WholeBooks
    BY DEF WholeInv
<1> QED BY <1>1, <1>2, <1>3, PTL DEF Spec
----------------------------------------------------------------------------
(* The loans.                                                              *)

\* What a write does to a card: add it, close it, lend or return it on the
\* counter of its book; "edit" and "new" touch no card.
Kind(w) == IF w.op = "book" THEN w.why ELSE w.op

\* Place i of the writes q does t to card k of book b; a close names no book.
At(q, i, t, k, b) ==
    i \in 1 .. Len(q) /\ Kind(q[i]) = t /\ q[i].card = k /\ q[i].book = b

AddAt(d, i, k, b) == At(queue[d], i, "add", k, b)
CloseAt(d, i, k)  == At(queue[d], i, "close", k, None)

\* A card on the server, and as device d has last seen it.
CardIs(k, b)  == cards[k].status # "none" /\ cards[k].book = b
Sees(d, k, b) == seenCards[d][k].status # "none" /\ seenCards[d][k].book = b

\* Device d knows card k to be one of book b before place n of its queue, or
\* with all of its queue.
Knows(d, k, b, n) == Sees(d, k, b) \/ \E j \in Nat : j < n /\ AddAt(d, j, k, b)
KnowsNow(d, k, b) == Sees(d, k, b) \/ \E j \in Nat : AddAt(d, j, k, b)

\* Card k is one of book b, on the server or to be added.
BookOf(k, b) == CardIs(k, b) \/ \E d \in Device, j \in Nat : AddAt(d, j, k, b)

\* The +1 of card k, or the -1, is still to come.
LendAt(d, i, k) == \E b \in Book : At(queue[d], i, "lend", k, b)
Lending(k) ==
    \/ \E d \in Device : alert[d] = k
    \/ \E d \in Device, i \in Nat : LendAt(d, i, k)
Returning(k) == \E d \in Device, i \in Nat, b \in Book : At(queue[d], i, "return", k, b)

AnyBook == Book \cup {None}

----------------------------------------------------------------------------
(* The inductive invariant.                                                *)

\* What a device has seen of a card is true of the card.
SeenOK ==
    \A d \in Device, k \in Card, b \in AnyBook : Sees(d, k, b) => CardIs(k, b)

\* A card to be added is new and is added once.
AddsOK ==
    \A d \in Device, i \in Nat, k \in Card, b \in AnyBook : AddAt(d, i, k, b) =>
        /\ cards[k].status = "none"
        /\ \A e \in Device, j \in Nat, c \in AnyBook :
              AddAt(e, j, k, c) => d = e /\ i = j /\ b = c

\* A device closes, lends and returns cards it knows before.
CloseOK ==
    \A d \in Device, i \in Nat, k \in Card : CloseAt(d, i, k) =>
        \E b \in Book : Knows(d, k, b, i)
LoanOK ==
    \A d \in Device, i \in Nat, t \in {"lend", "return"}, k \in Card, b \in Book :
        At(queue[d], i, t, k, b) => Knows(d, k, b, i)

\* A return comes after the close of its card.
ReturnOK ==
    \A d \in Device, i \in Nat, k \in Card, b \in Book :
        At(queue[d], i, "return", k, b) =>
            cards[k].status = "closed" \/ \E j \in Nat : j < i /\ CloseAt(d, j, k)

\* The screens know their cards.
AlertOK ==
    \A d \in Device : alert[d] # None =>
        screen[d] = "borrow" /\ KnowsNow(d, alert[d], id[d])
CurrentOK ==
    \A d \in Device : screen[d] = "return" =>
        KnowsNow(d, current[d].card, current[d].book)

\* A counted loan is one of a card of that book.
PostedOK == \A b \in Book, k \in Card : k \in posted[b] => CardIs(k, b)

\* The +1 of a card comes once.
OneAlert == \A d, e \in Device : alert[d] # None /\ alert[d] = alert[e] => d = e
AlertOrWrite ==
    \A d, e \in Device, i \in Nat, k \in Card : ~(alert[d] = k /\ LendAt(e, i, k))
LentOnce ==
    \A d, e \in Device, i, j \in Nat, k \in Card :
        LendAt(d, i, k) /\ LendAt(e, j, k) => d = e /\ i = j
PostedOnce == \A b \in Book, k \in Card : k \in posted[b] => ~Lending(k)

\* A card not closed is counted or lent on the way; a card closed is returned
\* on the way, unless nothing counts it; a close has its return behind it.
OpenLends ==
    \A k \in Card, b \in Book :
        clean[b] /\ BookOf(k, b) /\ cards[k].status # "closed" /\ k \notin posted[b]
            => Lending(k)
ClosedReturns ==
    \A k \in Card, b \in Book :
        clean[b] /\ BookOf(k, b) /\ cards[k].status = "closed"
            /\ (k \in posted[b] \/ Lending(k)) => Returning(k)
CloseReturns ==
    \A d \in Device, i \in Nat, k \in Card, b \in Book :
        clean[b] /\ BookOf(k, b) /\ CloseAt(d, i, k) =>
            \E j \in Nat, c \in Book : i < j /\ At(queue[d], j, "return", k, c)

KnownInv == SeenOK /\ AddsOK /\ CloseOK /\ LoanOK /\ ReturnOK /\ AlertOK /\ CurrentOK
TokenInv == OneAlert /\ AlertOrWrite /\ LentOnce /\ PostedOK /\ PostedOnce
WayInv   == OpenLends /\ ClosedReturns /\ CloseReturns
LoanInv  == KnownInv /\ TokenInv /\ WayInv

----------------------------------------------------------------------------
(* Places in a queue.                                                      *)

LEMMA AtPlace ==
    ASSUME TypeOK, NEW d \in Device, NEW i, NEW t, NEW k, NEW b, At(queue[d], i, t, k, b)
    PROVE  i \in Nat /\ 1 <= i /\ i <= Len(queue[d])
<1>1. Len(queue[d]) \in Nat
    BY LenProperties DEF TypeOK
<1> QED BY <1>1 DEF At

LEMMA AtAppend ==
    ASSUME NEW q \in Seq(Write), NEW w \in Write, NEW i, NEW t, NEW k, NEW b
    PROVE  At(q \o <<w>>, i, t, k, b) <=>
              \/ At(q, i, t, k, b)
              \/ i = Len(q) + 1 /\ Kind(w) = t /\ w.card = k /\ w.book = b
<1>1. /\ Len(q \o <<w>>) = Len(q) + 1 /\ Len(q) \in Nat
      /\ \A j \in 1 .. Len(q) : (q \o <<w>>)[j] = q[j]
      /\ (q \o <<w>>)[Len(q) + 1] = w
    BY ConcatProperties, LenProperties
<1> DEFINE r == q \o <<w>>
<1> HIDE DEF r
<1>2. /\ Len(r) = Len(q) + 1 /\ Len(q) \in Nat
      /\ \A j \in 1 .. Len(q) : r[j] = q[j]
      /\ r[Len(q) + 1] = w
    BY <1>1 DEF r
<1>3. At(r, i, t, k, b) <=>
              \/ At(q, i, t, k, b)
              \/ i = Len(q) + 1 /\ Kind(w) = t /\ w.card = k /\ w.book = b
    <2>1. i \in 1 .. Len(r) <=> i \in 1 .. Len(q) \/ i = Len(q) + 1
        BY <1>2
    <2>2. Len(q) + 1 \notin 1 .. Len(q)
        BY <1>2
    <2> QED BY <1>2, <2>1, <2>2 DEF At
<1> QED BY <1>3 DEF r

LEMMA AtTail ==
    ASSUME NEW q \in Seq(Write), q # <<>>, NEW i \in Nat, NEW t, NEW k, NEW b
    PROVE  At(Tail(q), i, t, k, b) <=> 1 <= i /\ At(q, i + 1, t, k, b)
<1>1. /\ Len(q) \in Nat /\ Len(q) >= 1 /\ Len(Tail(q)) = Len(q) - 1
      /\ \A j \in 1 .. Len(Tail(q)) : Tail(q)[j] = q[j + 1]
    BY HeadTailProperties, LenProperties, EmptySeq
<1>2. i \in 1 .. Len(Tail(q)) <=> 1 <= i /\ i + 1 \in 1 .. Len(q)
    BY <1>1
<1> QED BY <1>1, <1>2 DEF At

LEMMA AtHead ==
    ASSUME NEW q \in Seq(Write), q # <<>>, NEW t, NEW k, NEW b
    PROVE  At(q, 1, t, k, b) <=> Kind(Head(q)) = t /\ Head(q).card = k /\ Head(q).book = b
<1>1. Len(q) \in Nat /\ Len(q) >= 1 /\ Head(q) = q[1]
    BY LenProperties, EmptySeq
<1>2. 1 \in 1 .. Len(q)
    BY <1>1
<1> QED BY <1>1, <1>2 DEF At

----------------------------------------------------------------------------
(* Cards have one book.                                                    *)

LEMMA BookOfIsOne ==
    ASSUME KnownInv, NEW k \in Card, NEW b \in AnyBook, NEW c \in AnyBook,
           BookOf(k, b), BookOf(k, c)
    PROVE  b = c
BY DEF KnownInv, AddsOK, BookOf, CardIs

LEMMA KnowsBookOf ==
    ASSUME KnownInv, NEW d \in Device, NEW k \in Card, NEW b \in AnyBook, KnowsNow(d, k, b)
    PROVE  BookOf(k, b)
BY DEF KnownInv, SeenOK, KnowsNow, BookOf

LEMMA KnowsIsKnowsNow ==
    ASSUME NEW d \in Device, NEW k \in Card, NEW b \in AnyBook, NEW n, Knows(d, k, b, n)
    PROVE  KnowsNow(d, k, b)
BY DEF Knows, KnowsNow

\* What a device knows it knows before every place after its queue's last.
LEMMA KnowsBefore ==
    ASSUME TypeOK, NEW d \in Device, NEW k \in Card, NEW b \in AnyBook, NEW n \in Nat,
           n > Len(queue[d]), KnowsNow(d, k, b)
    PROVE  Knows(d, k, b, n)
<1>1. ASSUME NEW j \in Nat, AddAt(d, j, k, b)
      PROVE  j < n
    <2>1. j <= Len(queue[d]) /\ Len(queue[d]) \in Nat
        BY <1>1, AtPlace, LenProperties DEF AddAt, TypeOK
    <2> QED BY <2>1
<1> QED BY <1>1 DEF Knows, KnowsNow

----------------------------------------------------------------------------
(* Steps that write no card and count none.                                *)

\* The writes to cards in every queue, the cards, what is seen of them and
\* what is counted stay; an alert that goes away leaves its book unclean.
Keeps ==
    /\ \A e \in Device, i \in Nat, t \in {"add", "close", "lend", "return"}, k \in Card,
          b \in AnyBook : At(queue'[e], i, t, k, b) <=> At(queue[e], i, t, k, b)
    /\ UNCHANGED <<cards, seenCards, posted>>
    /\ \A e \in Device : alert'[e] # None =>
          alert'[e] = alert[e] /\ id'[e] = id[e] /\ screen'[e] = "borrow"
    /\ \A e \in Device : alert[e] # None /\ alert'[e] = None /\ id[e] \in Book =>
          ~clean'[id[e]]
    /\ \A e \in Device : screen'[e] = "return" =>
          /\ current'[e] \in [card : Card, book : Book]
          /\ KnowsNow(e, current'[e].card, current'[e].book)
    /\ \A b \in Book : clean'[b] => clean[b]

LEMMA KeepsLoan ==
    ASSUME Typed, LoanInv, Keeps
    PROVE  LoanInv'
<1> USE DEF LoanInv
<1> \A e \in Device : alert[e] \in Card \cup {None} /\ id[e] \in AnyBook
    BY DEF Typed, TypeOK, AnyBook
<1>1. \A e \in Device, i \in Nat, k \in Card, b \in AnyBook :
         /\ AddAt(e, i, k, b)' <=> AddAt(e, i, k, b)
         /\ CloseAt(e, i, k)' <=> CloseAt(e, i, k)
         /\ LendAt(e, i, k)' <=> LendAt(e, i, k)
    BY DEF Keeps, AddAt, CloseAt, LendAt, AnyBook
<1>2. /\ \A e \in Device, k \in Card, b \in AnyBook : Sees(e, k, b)' <=> Sees(e, k, b)
      /\ \A k \in Card, b \in AnyBook : CardIs(k, b)' <=> CardIs(k, b)
    BY DEF Keeps, Sees, CardIs
<1>3. \A e \in Device, k \in Card, b \in AnyBook, n \in Nat :
         /\ Knows(e, k, b, n)' <=> Knows(e, k, b, n)
         /\ KnowsNow(e, k, b)' <=> KnowsNow(e, k, b)
    BY <1>1, <1>2 DEF Knows, KnowsNow
<1>11. \A k \in Card, b \in AnyBook : BookOf(k, b)' <=> BookOf(k, b)
    BY <1>1, <1>2 DEF BookOf
<1>4. cards' = cards /\ posted' = posted
    BY DEF Keeps
<1>5. KnownInv'
    <2>1. SeenOK' /\ AddsOK'
        BY <1>1, <1>2, <1>4 DEF KnownInv, SeenOK, AddsOK
    <2>2. CloseOK'
        BY <1>1, <1>3 DEF KnownInv, CloseOK, AnyBook
    <2>3. LoanOK'
        BY <1>3 DEF KnownInv, LoanOK, AnyBook, Keeps
    <2>4. ReturnOK'
        BY <1>1, <1>4 DEF KnownInv, ReturnOK, AnyBook, Keeps
    <2>5. AlertOK'
        BY <1>3 DEF KnownInv, AlertOK, Keeps
    <2>6. CurrentOK'
        BY <1>3 DEF CurrentOK, Keeps, AnyBook
    <2> QED BY <2>1, <2>2, <2>3, <2>4, <2>5, <2>6 DEF KnownInv
<1>6. \A k \in Card : Lending(k)' => Lending(k)
    BY <1>1, ConstantsAssumption DEF Lending, Keeps, AnyBook
<1>7. TokenInv'
    <2>1. OneAlert'
        BY DEF TokenInv, OneAlert, Keeps
    <2>2. AlertOrWrite'
        BY <1>1, ConstantsAssumption DEF TokenInv, AlertOrWrite, Keeps, AnyBook
    <2>3. LentOnce'
        BY <1>1 DEF TokenInv, LentOnce, AnyBook
    <2>4. PostedOK' /\ PostedOnce'
        BY <1>2, <1>4, <1>6 DEF TokenInv, PostedOK, PostedOnce, AnyBook
    <2> QED BY <2>1, <2>2, <2>3, <2>4 DEF TokenInv
<1>8. ASSUME NEW k \in Card, NEW b \in Book, clean'[b], BookOf(k, b), Lending(k)
      PROVE  Lending(k)'
    <2>1. ASSUME NEW d \in Device, alert[d] = k
          PROVE  alert'[d] = k
        <3>1. BookOf(k, id[d])
            BY <2>1, KnowsBookOf, ConstantsAssumption DEF KnownInv, AlertOK
        <3>2. id[d] = b
            BY <1>8, <3>1, BookOfIsOne DEF AnyBook
        <3> QED BY <1>8, <2>1, <3>2, ConstantsAssumption DEF Keeps
    <2> QED BY <1>1, <1>8, <2>1 DEF Lending, AnyBook
<1>9. \A k \in Card : Returning(k)' <=> Returning(k)
    BY DEF Returning, Keeps, AnyBook
<1>10. WayInv'
    <2> \A k \in Card, b \in Book : BookOf(k, b)' => BookOf(k, b)
        BY <1>11 DEF AnyBook
    <2> \A b \in Book : clean'[b] => clean[b]
        BY DEF Keeps
    <2>1. OpenLends'
        BY <1>4, <1>8 DEF WayInv, OpenLends
    <2>2. ClosedReturns'
        BY <1>4, <1>6, <1>9 DEF WayInv, ClosedReturns
    <2>3. CloseReturns'
        BY <1>1 DEF WayInv, CloseReturns, Keeps, AnyBook
    <2> QED BY <2>1, <2>2, <2>3 DEF WayInv
<1> QED BY <1>5, <1>7, <1>10

----------------------------------------------------------------------------
(* The confirm button of the borrow screen, and the OK of its alert.       *)

LEMMA IssueAt ==
    ASSUME TypeOK, NEW d \in Device, NEW w \in Write, Issue(d, <<w>>)
    PROVE  \A e \in Device, i \in Nat, t \in {"add", "close", "lend", "return"},
              k \in Card, b \in AnyBook :
              At(queue'[e], i, t, k, b) <=>
                 \/ At(queue[e], i, t, k, b)
                 \/ /\ e = d /\ i = Len(queue[d]) + 1
                    /\ Kind(w) = t /\ w.card = k /\ w.book = b
<1>1. queue[d] \in Seq(Write) /\ queue'[d] = queue[d] \o <<w>>
    BY DEF Issue, TypeOK
<1>2. \A e \in Device : e # d => queue'[e] = queue[e]
    BY DEF Issue, TypeOK
<1>3. \A i \in Nat, t \in {"add", "close", "lend", "return"}, k \in Card, b \in AnyBook :
         At(queue'[d], i, t, k, b) <=>
            \/ At(queue[d], i, t, k, b)
            \/ i = Len(queue[d]) + 1 /\ Kind(w) = t /\ w.card = k /\ w.book = b
    <2> SUFFICES ASSUME NEW i \in Nat, NEW t \in {"add", "close", "lend", "return"},
                        NEW k \in Card, NEW b \in AnyBook
                 PROVE  At(queue[d] \o <<w>>, i, t, k, b) <=>
                           \/ At(queue[d], i, t, k, b)
                           \/ /\ i = Len(queue[d]) + 1
                              /\ Kind(w) = t /\ w.card = k /\ w.book = b
        BY <1>1
    <2> QED BY <1>1, AtAppend
<1> QED BY <1>2, <1>3

\* A card id no card has and no device adds is of no book.
LEMMA NewCard ==
    ASSUME TypeOK, NEW k \in Card, cards[k].status = "none",
           \A e \in Device : ~Pending(e, "add", k)
    PROVE  \A b \in AnyBook : ~BookOf(k, b)
<1>1. ASSUME NEW e \in Device, NEW j \in Nat, NEW b \in AnyBook, AddAt(e, j, k, b)
      PROVE  Pending(e, "add", k)
    <2>1. j \in 1 .. Len(queue[e]) /\ Kind(queue[e][j]) = "add" /\ queue[e][j].card = k
        BY <1>1 DEF AddAt, At
    <2>2. queue[e][j].op = "add"
        BY <2>1, WriteAt, BookWriteIs DEF Kind, BookWrite, StockWrite, LoanWrite
    <2> QED BY <2>1, <2>2 DEF Pending
<1> QED BY <1>1 DEF BookOf, CardIs

LEMMA ConfirmActionLoan ==
    ASSUME Typed, LoanInv, NEW d \in Device, NEW k \in Card, ConfirmAction(d, k)
    PROVE  LoanInv'
<1> USE ConstantsAssumption DEF LoanInv
<1> DEFINE n == Len(queue[d]) + 1
           new(e, i, l, b) == e = d /\ i = n /\ l = k /\ b = id[d]
<1>t. /\ \A e \in Device : alert[e] \in Card \cup {None} /\ id[e] \in AnyBook
      /\ n \in Nat
    BY LenProperties DEF Typed, TypeOK, AnyBook
<1>f. \A b \in AnyBook : ~BookOf(k, b)
    BY NewCard DEF ConfirmAction, Typed
<1>a. /\ cards' = cards /\ seenCards' = seenCards /\ posted' = posted /\ clean' = clean
      /\ screen' = screen /\ id' = id /\ current' = current
      /\ screen[d] = "borrow"
      /\ \A e \in Device : alert'[e] = IF e = d THEN k ELSE alert[e]
      /\ alert[d] = None
    BY DEF ConfirmAction, server, replica, returnScreen, history, Typed, TypeOK
<1>q. /\ \A e \in Device, i \in Nat, l \in Card, b \in AnyBook :
            /\ AddAt(e, i, l, b)' <=> AddAt(e, i, l, b) \/ new(e, i, l, b)
            /\ At(queue'[e], i, "lend", l, b) <=> At(queue[e], i, "lend", l, b)
            /\ At(queue'[e], i, "return", l, b) <=> At(queue[e], i, "return", l, b)
      /\ \A e \in Device, i \in Nat, l \in Card : CloseAt(e, i, l)' <=> CloseAt(e, i, l)
      /\ \A e \in Device, i \in Nat, l \in Card : LendAt(e, i, l)' <=> LendAt(e, i, l)
    <2> DEFINE w == AddWrite(k, id[d])
    <2>1. w \in Write /\ Issue(d, <<w>>)
        BY <1>t, AddWriteType DEF ConfirmAction, AnyBook
    <2>2. Kind(w) = "add" /\ w.card = k /\ w.book = id[d]
        BY DEF AddWrite, Kind
    <2> HIDE DEF w
    <2>3. \A e \in Device, i \in Nat, t \in {"add", "close", "lend", "return"},
             l \in Card, b \in AnyBook :
             At(queue'[e], i, t, l, b) <=>
                At(queue[e], i, t, l, b) \/ (t = "add" /\ new(e, i, l, b))
        BY <2>1, <2>2, IssueAt DEF Typed
    <2> QED BY <2>3 DEF AddAt, CloseAt, LendAt, AnyBook
<1> HIDE DEF n
<1>s. /\ \A e \in Device, l \in Card, b \in AnyBook : Sees(e, l, b)' <=> Sees(e, l, b)
      /\ \A l \in Card, b \in AnyBook : CardIs(l, b)' <=> CardIs(l, b)
    BY <1>a DEF Sees, CardIs
<1>k. /\ \A e \in Device, l \in Card, b \in AnyBook, i \in Nat :
            Knows(e, l, b, i) => Knows(e, l, b, i)'
      /\ \A e \in Device, l \in Card, b \in AnyBook : KnowsNow(e, l, b) => KnowsNow(e, l, b)'
      /\ \A l \in Card, b \in AnyBook : BookOf(l, b)' => BookOf(l, b) \/ l = k
    BY <1>q, <1>s DEF Knows, KnowsNow, BookOf
<1>u. /\ \A e \in Device, i \in Nat, b \in AnyBook : ~AddAt(e, i, k, b)
      /\ \A b \in Book : k \notin posted[b]
      /\ \A e \in Device, i \in Nat : ~LendAt(e, i, k) /\ ~CloseAt(e, i, k)
      /\ \A e \in Device : alert[e] # k
    <2>1. \A e \in Device, b \in AnyBook : ~KnowsNow(e, k, b)
        BY <1>f, KnowsBookOf
    <2>2. \A e \in Device, b \in AnyBook, i \in Nat : ~Knows(e, k, b, i)
        BY <2>1, KnowsIsKnowsNow
    <2>3. \A e \in Device, i \in Nat, b \in AnyBook : ~AddAt(e, i, k, b)
        BY <1>f DEF BookOf
    <2>4. \A b \in Book : k \notin posted[b]
        BY <1>f DEF TokenInv, PostedOK, BookOf, AnyBook
    <2>5. \A e \in Device, i \in Nat : ~LendAt(e, i, k) /\ ~CloseAt(e, i, k)
        BY <2>2 DEF KnownInv, LoanOK, CloseOK, LendAt, AnyBook
    <2>6. \A e \in Device : alert[e] # k
        BY <2>1, <1>t DEF KnownInv, AlertOK
    <2> QED BY <2>3, <2>4, <2>5, <2>6
<1>5. KnownInv'
    <2>1. SeenOK'
        BY <1>s DEF KnownInv, SeenOK
    <2>2. AddsOK'
        BY <1>a, <1>q, <1>u DEF KnownInv, AddsOK, ConfirmAction
    <2>3. CloseOK'
        BY <1>q, <1>k DEF KnownInv, CloseOK, AnyBook
    <2>4. LoanOK'
        BY <1>q, <1>k DEF KnownInv, LoanOK, AnyBook
    <2>5. ReturnOK'
        BY <1>a, <1>q DEF KnownInv, ReturnOK, AnyBook
    <2>6. AlertOK'
        <3>1. KnowsNow(d, k, id[d])'
            BY <1>a, <1>q, <1>t DEF KnowsNow
        <3> QED BY <1>a, <1>k, <1>t, <3>1 DEF KnownInv, AlertOK
    <2>7. CurrentOK'
        BY <1>a, <1>k DEF KnownInv, CurrentOK, AnyBook, Typed, ScreenOK
    <2> QED BY <2>1, <2>2, <2>3, <2>4, <2>5, <2>6, <2>7 DEF KnownInv
<1>6. /\ \A l \in Card : Lending(l)' => Lending(l) \/ l = k
      /\ \A l \in Card : Lending(l) => Lending(l)'
      /\ Lending(k)'
      /\ \A l \in Card : Returning(l)' <=> Returning(l)
    <2>1. \A l \in Card : Lending(l)' <=> Lending(l) \/ l = k
        BY <1>a, <1>q DEF Lending
    <2>2. \A l \in Card : Returning(l)' <=> Returning(l)
        BY <1>q DEF Returning, AnyBook
    <2> QED BY <2>1, <2>2
<1>7. TokenInv'
    <2>1. OneAlert'
        BY <1>a, <1>u DEF TokenInv, OneAlert
    <2>2. AlertOrWrite'
        BY <1>a, <1>q, <1>u DEF TokenInv, AlertOrWrite
    <2>3. LentOnce'
        BY <1>q DEF TokenInv, LentOnce
    <2>4. PostedOK' /\ PostedOnce'
        BY <1>a, <1>s, <1>u, <1>6 DEF TokenInv, PostedOK, PostedOnce, AnyBook
    <2> QED BY <2>1, <2>2, <2>3, <2>4 DEF TokenInv
<1>8. WayInv'
    <2>1. OpenLends'
        BY <1>a, <1>k, <1>6 DEF WayInv, OpenLends, AnyBook
    <2>2. ClosedReturns'
        BY <1>a, <1>k, <1>6 DEF WayInv, ClosedReturns, AnyBook, ConfirmAction
    <2>3. CloseReturns'
        BY <1>a, <1>k, <1>q, <1>u DEF WayInv, CloseReturns, AnyBook
    <2> QED BY <2>1, <2>2, <2>3 DEF WayInv
<1> QED BY <1>5, <1>7, <1>8

LEMMA OkBorrowLoan ==
    ASSUME Typed, LoanInv, NEW d \in Device, OkBorrow(d)
    PROVE  LoanInv'
<1> USE ConstantsAssumption DEF LoanInv
<1> DEFINE n == Len(queue[d]) + 1
           k == alert[d]
           new(e, i, l, b) == e = d /\ i = n /\ l = k /\ b = id[d]
<1>t. /\ \A e \in Device : alert[e] \in Card \cup {None} /\ id[e] \in AnyBook
      /\ n \in Nat /\ n > Len(queue[d])
      /\ k \in Card /\ id[d] \in Book
    BY LenProperties DEF Typed, TypeOK, AnyBook, OkBorrow
<1>a. /\ cards' = cards /\ seenCards' = seenCards /\ posted' = posted /\ clean' = clean
      /\ \A e \in Device \ {d} : /\ screen'[e] = screen[e] /\ id'[e] = id[e]
                                 /\ current'[e] = current[e] /\ alert'[e] = alert[e]
      /\ alert'[d] = None /\ screen'[d] = "list"
    BY DEF OkBorrow, Leaves, Closes, server, replica, history, Typed, TypeOK
<1>q. /\ \A e \in Device, i \in Nat, l \in Card, b \in AnyBook :
            /\ AddAt(e, i, l, b)' <=> AddAt(e, i, l, b)
            /\ At(queue'[e], i, "lend", l, b) <=>
                  At(queue[e], i, "lend", l, b) \/ new(e, i, l, b)
            /\ At(queue'[e], i, "return", l, b) <=> At(queue[e], i, "return", l, b)
      /\ \A e \in Device, i \in Nat, l \in Card : CloseAt(e, i, l)' <=> CloseAt(e, i, l)
      /\ \A e \in Device, i \in Nat, l \in Card :
            LendAt(e, i, l)' <=> LendAt(e, i, l) \/ (e = d /\ i = n /\ l = k)
    <2> DEFINE w == LendWrite(d)
    <2>1. w \in Write /\ Issue(d, <<w>>)
        <3>1. check[d] \in Int /\ check[d] + 1 \in Int
            BY DEF OkBorrow, Typed, TypeOK, Count
        <3>2. w \in Write
            BY <1>t, <3>1, LoanWriteType DEF LendWrite
        <3> QED BY <3>2 DEF OkBorrow
    <2>2. Kind(w) = "lend" /\ w.card = k /\ w.book = id[d]
        BY DEF LendWrite, CheckWrite, Kind
    <2> HIDE DEF w
    <2>3. \A e \in Device, i \in Nat, t \in {"add", "close", "lend", "return"},
             l \in Card, b \in AnyBook :
             At(queue'[e], i, t, l, b) <=>
                At(queue[e], i, t, l, b) \/ (t = "lend" /\ new(e, i, l, b))
        BY <2>1, <2>2, IssueAt DEF Typed
    <2>4. \A e \in Device, i \in Nat, l \in Card, b \in AnyBook :
             /\ AddAt(e, i, l, b)' <=> AddAt(e, i, l, b)
             /\ At(queue'[e], i, "lend", l, b) <=>
                   At(queue[e], i, "lend", l, b) \/ new(e, i, l, b)
             /\ At(queue'[e], i, "return", l, b) <=> At(queue[e], i, "return", l, b)
        BY <2>3 DEF AddAt
    <2>5. \A e \in Device, i \in Nat, l \in Card : CloseAt(e, i, l)' <=> CloseAt(e, i, l)
        BY <2>3 DEF CloseAt, AnyBook
    <2> HIDE DEF n, k
    <2>6. \A e \in Device, i \in Nat, l \in Card :
             LendAt(e, i, l)' <=> LendAt(e, i, l) \/ (e = d /\ i = n /\ l = k)
        BY <1>t, <2>4 DEF LendAt, AnyBook
    <2> QED BY <2>4, <2>5, <2>6
<1> HIDE DEF n, k
<1>s. /\ \A e \in Device, l \in Card, b \in AnyBook : Sees(e, l, b)' <=> Sees(e, l, b)
      /\ \A l \in Card, b \in AnyBook : CardIs(l, b)' <=> CardIs(l, b)
    BY <1>a DEF Sees, CardIs
<1>k. /\ \A e \in Device, l \in Card, b \in AnyBook, i \in Nat :
            Knows(e, l, b, i)' <=> Knows(e, l, b, i)
      /\ \A e \in Device, l \in Card, b \in AnyBook : KnowsNow(e, l, b)' <=> KnowsNow(e, l, b)
      /\ \A l \in Card, b \in AnyBook : BookOf(l, b)' <=> BookOf(l, b)
    BY <1>q, <1>s DEF Knows, KnowsNow, BookOf
<1>5. KnownInv'
    <2>1. SeenOK'
        BY <1>s DEF KnownInv, SeenOK
    <2>2. AddsOK'
        <3>1. \A e \in Device, i \in Nat, l \in Card, b \in AnyBook :
                 AddAt(e, i, l, b)' <=> AddAt(e, i, l, b)
            BY <1>q
        <3> QED BY <1>a, <3>1 DEF KnownInv, AddsOK
    <2>3. CloseOK'
        BY <1>q, <1>k DEF KnownInv, CloseOK, AnyBook
    <2>4. LoanOK'
        <3>1. Knows(d, k, id[d], n)
            BY <1>t, KnowsBefore DEF KnownInv, AlertOK, AnyBook, Typed, k
        <3> QED BY <1>q, <1>k, <3>1 DEF KnownInv, LoanOK, AnyBook
    <2>5. ReturnOK'
        BY <1>a, <1>q DEF KnownInv, ReturnOK, AnyBook
    <2>6. AlertOK'
        BY <1>a, <1>k, <1>t DEF KnownInv, AlertOK
    <2>7. CurrentOK'
        BY <1>a, <1>k DEF KnownInv, CurrentOK, AnyBook, Typed, ScreenOK
    <2> QED BY <2>1, <2>2, <2>3, <2>4, <2>5, <2>6, <2>7 DEF KnownInv
<1>6. /\ \A l \in Card : Lending(l)' <=> Lending(l)
      /\ \A l \in Card : Returning(l)' <=> Returning(l)
    <2>1. \A l \in Card : Lending(l)' => Lending(l)
        BY <1>a, <1>q DEF Lending, k
    <2>2. ASSUME NEW l \in Card, Lending(l)
          PROVE  Lending(l)'
        <3>1. CASE l = k
            BY <1>q, <1>t, <3>1 DEF Lending
        <3>2. CASE l # k
            BY <1>a, <1>q, <2>2, <3>2 DEF Lending, k
        <3> QED BY <3>1, <3>2
    <2>3. \A l \in Card : Returning(l)' <=> Returning(l)
        BY <1>q DEF Returning, AnyBook
    <2> QED BY <2>1, <2>2, <2>3
<1>7. TokenInv'
    <2>1. OneAlert'
        BY <1>a DEF TokenInv, OneAlert
    <2>2. AlertOrWrite'
        BY <1>a, <1>q, <1>t DEF TokenInv, AlertOrWrite, OneAlert, k
    <2>3. LentOnce'
        BY <1>q DEF TokenInv, LentOnce, AlertOrWrite, k
    <2>4. PostedOK' /\ PostedOnce'
        BY <1>a, <1>s, <1>6 DEF TokenInv, PostedOK, PostedOnce, AnyBook
    <2> QED BY <2>1, <2>2, <2>3, <2>4 DEF TokenInv
<1>8. WayInv'
    <2>1. OpenLends'
        BY <1>a, <1>k, <1>6 DEF WayInv, OpenLends, AnyBook
    <2>2. ClosedReturns'
        BY <1>a, <1>k, <1>6 DEF WayInv, ClosedReturns, AnyBook
    <2>3. CloseReturns'
        BY <1>a, <1>k, <1>q DEF WayInv, CloseReturns, AnyBook
    <2> QED BY <2>1, <2>2, <2>3 DEF WayInv
<1> QED BY <1>5, <1>7, <1>8

----------------------------------------------------------------------------
(* The confirm button of the return screen.                                *)

LEMMA IssueTwoAt ==
    ASSUME TypeOK, NEW d \in Device, NEW v \in Write, NEW w \in Write, Issue(d, <<v, w>>)
    PROVE  \A e \in Device, i \in Nat, t \in {"add", "close", "lend", "return"},
              k \in Card, b \in AnyBook :
              At(queue'[e], i, t, k, b) <=>
                 \/ At(queue[e], i, t, k, b)
                 \/ /\ e = d /\ i = Len(queue[d]) + 1
                    /\ Kind(v) = t /\ v.card = k /\ v.book = b
                 \/ /\ e = d /\ i = Len(queue[d]) + 2
                    /\ Kind(w) = t /\ w.card = k /\ w.book = b
<1> DEFINE q == queue[d]
           r == queue'[d]
<1>1. q \in Seq(Write) /\ r = q \o <<v, w>>
    BY DEF Issue, TypeOK
<1>2. \A e \in Device : e # d => queue'[e] = queue[e]
    BY DEF Issue, TypeOK
<1> HIDE DEF q, r
<1>3. /\ Len(r) = Len(q) + 2 /\ Len(q) \in Nat
      /\ \A j \in 1 .. Len(q) : r[j] = q[j]
      /\ r[Len(q) + 1] = v /\ r[Len(q) + 2] = w
    BY <1>1, ConcatProperties, LenProperties
<1>4. \A i : /\ i \in 1 .. Len(r) <=>
                    i \in 1 .. Len(q) \/ i = Len(q) + 1 \/ i = Len(q) + 2
             /\ i \in 1 .. Len(q) => i # Len(q) + 1 /\ i # Len(q) + 2
    BY <1>3
<1>5. \A i \in Nat, t \in {"add", "close", "lend", "return"}, k \in Card, b \in AnyBook :
         At(r, i, t, k, b) <=>
            \/ At(q, i, t, k, b)
            \/ i = Len(q) + 1 /\ Kind(v) = t /\ v.card = k /\ v.book = b
            \/ i = Len(q) + 2 /\ Kind(w) = t /\ w.card = k /\ w.book = b
    BY <1>3, <1>4 DEF At
<1> QED BY <1>2, <1>5 DEF q, r

\* What both outcomes of the button do: the card is closed at the end of the
\* queue, the screen is left, and no alert is there.
Closing(d, c) ==
    /\ c \in [card : Card, book : Book] /\ KnowsNow(d, c.card, c.book)
    /\ alert[d] = None
    /\ UNCHANGED <<cards, seenCards, posted>>
    /\ \A e \in Device \ {d} : /\ screen'[e] = screen[e] /\ id'[e] = id[e]
                               /\ current'[e] = current[e] /\ alert'[e] = alert[e]
    /\ alert'[d] = None /\ screen'[d] = "list"
    /\ \A b \in Book : clean'[b] => clean[b]
    /\ \A e \in Device, i \in Nat, l \in Card, b \in AnyBook :
          /\ AddAt(e, i, l, b)' <=> AddAt(e, i, l, b)
          /\ At(queue'[e], i, "lend", l, b) <=> At(queue[e], i, "lend", l, b)
          /\ At(queue[e], i, "return", l, b) => At(queue'[e], i, "return", l, b)
    /\ \A e \in Device, i \in Nat, l \in Card, b \in AnyBook :
          At(queue'[e], i, "return", l, b) =>
             \/ At(queue[e], i, "return", l, b)
             \/ e = d /\ i = Len(queue[d]) + 2 /\ l = c.card /\ b = c.book
    /\ \A e \in Device, i \in Nat, l \in Card :
          CloseAt(e, i, l)' <=>
             \/ CloseAt(e, i, l)
             \/ e = d /\ i = Len(queue[d]) + 1 /\ l = c.card
    /\ \/ ~clean'[c.book]
       \/ At(queue'[d], Len(queue[d]) + 2, "return", c.card, c.book)

LEMMA ClosingLoan ==
    ASSUME Typed, LoanInv, NEW d \in Device, NEW c, Closing(d, c)
    PROVE  LoanInv'
<1> USE ConstantsAssumption DEF LoanInv
<1> DEFINE n == Len(queue[d]) + 1
           m == Len(queue[d]) + 2
<1>t. /\ \A e \in Device : alert[e] \in Card \cup {None} /\ id[e] \in AnyBook
      /\ n \in Nat /\ n > Len(queue[d]) /\ m \in Nat /\ m > Len(queue[d]) /\ n < m
      /\ c.card \in Card /\ c.book \in Book
    BY LenProperties DEF Typed, TypeOK, AnyBook, Closing
<1>a. /\ cards' = cards /\ seenCards' = seenCards /\ posted' = posted
      /\ \A b \in Book : clean'[b] => clean[b]
      /\ \A e \in Device \ {d} : /\ screen'[e] = screen[e] /\ id'[e] = id[e]
                                 /\ current'[e] = current[e] /\ alert'[e] = alert[e]
      /\ alert'[d] = None /\ screen'[d] = "list" /\ alert[d] = None
    BY DEF Closing
<1>l. \A e \in Device : alert'[e] = alert[e]
    BY <1>a
<1>q. /\ \A e \in Device, i \in Nat, l \in Card, b \in AnyBook :
            AddAt(e, i, l, b)' <=> AddAt(e, i, l, b)
      /\ \A e \in Device, i \in Nat, l \in Card, b \in AnyBook :
            At(queue'[e], i, "lend", l, b) <=> At(queue[e], i, "lend", l, b)
    BY DEF Closing
<1>r. /\ \A e \in Device, i \in Nat, l \in Card, b \in AnyBook :
            At(queue[e], i, "return", l, b) => At(queue'[e], i, "return", l, b)
      /\ \A e \in Device, i \in Nat, l \in Card, b \in AnyBook :
            At(queue'[e], i, "return", l, b) =>
               \/ At(queue[e], i, "return", l, b)
               \/ e = d /\ i = m /\ l = c.card /\ b = c.book
    BY DEF Closing
<1>c. \A e \in Device, i \in Nat, l \in Card :
         CloseAt(e, i, l)' <=> CloseAt(e, i, l) \/ (e = d /\ i = n /\ l = c.card)
    BY DEF Closing
<1>b. ~clean'[c.book] \/ At(queue'[d], m, "return", c.card, c.book)
    BY DEF Closing
<1> HIDE DEF n, m
<1>e. \A e \in Device, i \in Nat, l \in Card : LendAt(e, i, l)' <=> LendAt(e, i, l)
    BY <1>q DEF LendAt, AnyBook
<1>s. /\ \A e \in Device, l \in Card, b \in AnyBook : Sees(e, l, b)' <=> Sees(e, l, b)
      /\ \A l \in Card, b \in AnyBook : CardIs(l, b)' <=> CardIs(l, b)
    BY <1>a DEF Sees, CardIs
<1>k. /\ \A e \in Device, l \in Card, b \in AnyBook, i \in Nat :
            Knows(e, l, b, i)' <=> Knows(e, l, b, i)
      /\ \A e \in Device, l \in Card, b \in AnyBook : KnowsNow(e, l, b)' <=> KnowsNow(e, l, b)
      /\ \A l \in Card, b \in AnyBook : BookOf(l, b)' <=> BookOf(l, b)
    BY <1>q, <1>s DEF Knows, KnowsNow, BookOf
<1>n. /\ Knows(d, c.card, c.book, n) /\ Knows(d, c.card, c.book, m)
      /\ BookOf(c.card, c.book)
    BY <1>t, KnowsBefore, KnowsBookOf DEF Closing, AnyBook, Typed, n, m
<1>5. KnownInv'
    <2>1. SeenOK'
        BY <1>s DEF KnownInv, SeenOK
    <2>2. AddsOK'
        BY <1>a, <1>q DEF KnownInv, AddsOK
    <2>3. CloseOK'
        BY <1>c, <1>k, <1>n, <1>t DEF KnownInv, CloseOK, AnyBook
    <2>4. LoanOK'
        BY <1>q, <1>r, <1>k, <1>n DEF KnownInv, LoanOK, AnyBook
    <2>5. ReturnOK'
        BY <1>a, <1>c, <1>r, <1>t, ZenonT(60) DEF KnownInv, ReturnOK, AnyBook
    <2>6. AlertOK'
        BY <1>a, <1>k, <1>t DEF KnownInv, AlertOK
    <2>7. CurrentOK'
        BY <1>a, <1>k DEF KnownInv, CurrentOK, AnyBook, Typed, ScreenOK
    <2> QED BY <2>1, <2>2, <2>3, <2>4, <2>5, <2>6, <2>7 DEF KnownInv
<1>6. /\ \A l \in Card : Lending(l)' <=> Lending(l)
      /\ \A l \in Card : Returning(l) => Returning(l)'
    <2>1. \A l \in Card : Lending(l)' <=> Lending(l)
        BY <1>l, <1>e DEF Lending
    <2>2. \A l \in Card : Returning(l) => Returning(l)'
        BY <1>r DEF Returning, AnyBook
    <2> QED BY <2>1, <2>2
<1>7. TokenInv'
    <2>1. OneAlert' /\ AlertOrWrite' /\ LentOnce'
        BY <1>l, <1>e DEF TokenInv, OneAlert, AlertOrWrite, LentOnce
    <2>2. PostedOK' /\ PostedOnce'
        BY <1>a, <1>s, <1>6 DEF TokenInv, PostedOK, PostedOnce, AnyBook
    <2> QED BY <2>1, <2>2 DEF TokenInv
<1>8. WayInv'
    <2>1. OpenLends'
        BY <1>a, <1>k, <1>6 DEF WayInv, OpenLends, AnyBook
    <2>2. ClosedReturns'
        BY <1>a, <1>k, <1>6 DEF WayInv, ClosedReturns, AnyBook
    <2>3. CloseReturns'
        <3> SUFFICES ASSUME NEW e \in Device, NEW i \in Nat, NEW l \in Card, NEW b \in Book,
                            clean'[b], BookOf(l, b), CloseAt(e, i, l)'
                     PROVE  \E j \in Nat, a \in Book :
                               i < j /\ At(queue'[e], j, "return", l, a)
            BY <1>k DEF CloseReturns, AnyBook
        <3>1. CASE CloseAt(e, i, l)
            BY <1>a, <1>r, <3>1 DEF WayInv, CloseReturns, AnyBook
        <3>2. CASE e = d /\ i = n /\ l = c.card
            <4>1. b = c.book
                BY <1>n, <1>t, <3>2, BookOfIsOne DEF AnyBook
            <4> QED BY <1>b, <1>t, <3>2, <4>1
        <3> QED BY <1>c, <3>1, <3>2
    <2> QED BY <2>1, <2>2, <2>3 DEF WayInv
<1> QED BY <1>5, <1>7, <1>8

LEMMA ConfirmReturnLoan ==
    ASSUME Typed, LoanInv, NEW d \in Device, ConfirmReturn(d) \/ ConfirmReturnFails(d)
    PROVE  LoanInv'
<1> USE ConstantsAssumption
<1> DEFINE c == current[d]
           n == Len(queue[d]) + 1
<1>1. /\ c \in [card : Card, book : Book] /\ KnowsNow(d, c.card, c.book)
      /\ alert[d] = None /\ n \in Nat /\ screen[d] = "return"
    <2>1. screen[d] = "return"
        BY DEF ConfirmReturn, ConfirmReturnFails
    <2> QED BY <2>1, LenProperties DEF Typed, TypeOK, ScreenOK, LoanInv, KnownInv, CurrentOK, AlertOK
<1>2. /\ UNCHANGED <<cards, seenCards, posted>>
      /\ \A e \in Device \ {d} : /\ screen'[e] = screen[e] /\ id'[e] = id[e]
                                 /\ current'[e] = current[e] /\ alert'[e] = alert[e]
      /\ alert'[d] = None /\ screen'[d] = "list"
      /\ \A b \in Book : clean'[b] => clean[b]
    <2>1. /\ Closes(d) /\ UNCHANGED <<cards, seenCards, posted>>
          /\ clean' = clean \/ clean' = [clean EXCEPT ![c.book] = FALSE]
        BY DEF ConfirmReturn, ConfirmReturnFails, Leaves, Stops, server, replica, history
    <2>2. /\ screen = [e \in Device |-> screen[e]] /\ id = [e \in Device |-> id[e]]
          /\ current = [e \in Device |-> current[e]]
          /\ alert = [e \in Device |-> alert[e]]
          /\ clean \in [Book -> BOOLEAN]
        BY DEF Typed, TypeOK
    <2>3. /\ \A e \in Device \ {d} : /\ screen'[e] = screen[e] /\ id'[e] = id[e]
                                     /\ current'[e] = current[e] /\ alert'[e] = alert[e]
          /\ alert'[d] = None /\ screen'[d] = "list"
        BY <2>1, <2>2 DEF Closes
    <2>4. \A b \in Book : clean'[b] => clean[b]
        BY <2>1, <2>2
    <2> QED BY <2>1, <2>3, <2>4
<1> DEFINE v == CloseWrite(c.card)
<1>3. v \in Write /\ Kind(v) = "close" /\ v.card = c.card /\ v.book = None
    BY <1>1, CloseWriteType DEF CloseWrite, Kind
<1>4. CASE ConfirmReturn(d)
    <2> DEFINE w == CheckWrite(c.book, None, check[d] - 1, "return", c.card, check[d])
    <2>1. check[d] \in Int /\ check[d] - 1 \in Int
        BY <1>4 DEF ConfirmReturn, Typed, TypeOK, Count
    <2>2. w \in Write
        BY <1>1, <2>1, LoanWriteType
    <2>3. Kind(w) = "return" /\ w.card = c.card /\ w.book = c.book
        BY DEF CheckWrite, Kind
    <2>4. Issue(d, <<v, w>>)
        BY <1>4 DEF ConfirmReturn, ReturnWrites
    <2> HIDE DEF c, v, w
    <2>5. \A e \in Device, i \in Nat, t \in {"add", "close", "lend", "return"},
             k \in Card, b \in AnyBook :
             At(queue'[e], i, t, k, b) <=>
                \/ At(queue[e], i, t, k, b)
                \/ e = d /\ i = n /\ t = "close" /\ k = c.card /\ b = None
                \/ e = d /\ i = Len(queue[d]) + 2 /\ t = "return" /\ k = c.card /\ b = c.book
        <3>1. \A e \in Device, i \in Nat, t \in {"add", "close", "lend", "return"},
                 k \in Card, b \in AnyBook :
                 At(queue'[e], i, t, k, b) <=>
                    \/ At(queue[e], i, t, k, b)
                    \/ /\ e = d /\ i = n
                       /\ Kind(v) = t /\ v.card = k /\ v.book = b
                    \/ /\ e = d /\ i = Len(queue[d]) + 2
                       /\ Kind(w) = t /\ w.card = k /\ w.book = b
            BY <1>3, <2>2, <2>4, IssueTwoAt DEF Typed
        <3> QED BY <1>3, <2>3, <3>1
    <2>6. At(queue'[d], Len(queue[d]) + 2, "return", c.card, c.book)
        BY <1>1, <2>5 DEF AnyBook
    <2>7. Closing(d, c)
        BY <1>1, <1>2, <2>5, <2>6 DEF Closing, AddAt, CloseAt, AnyBook
    <2> QED BY <2>7, ClosingLoan
<1>5. CASE ConfirmReturnFails(d)
    <2>1. Issue(d, <<v>>)
        BY <1>5 DEF ConfirmReturnFails
    <2>2. ~clean'[c.book]
        BY <1>1, <1>5 DEF ConfirmReturnFails, Typed, TypeOK
    <2> HIDE DEF c, v
    <2>3. \A e \in Device, i \in Nat, t \in {"add", "close", "lend", "return"},
             k \in Card, b \in AnyBook :
             At(queue'[e], i, t, k, b) <=>
                \/ At(queue[e], i, t, k, b)
                \/ e = d /\ i = n /\ t = "close" /\ k = c.card /\ b = None
        BY <1>3, <2>1, IssueAt DEF Typed
    <2>4. Closing(d, c)
        BY <1>1, <1>2, <2>2, <2>3, ZenonT(60) DEF Closing, AddAt, CloseAt, AnyBook
    <2> QED BY <2>4, ClosingLoan
<1> QED BY <1>4, <1>5

----------------------------------------------------------------------------
(* The server applies the first write of a device's queue.                 *)

\* The place that place i of device e's queue had before device d's first
\* write was taken.
Was(d, e, i) == IF e = d THEN i + 1 ELSE i

Pops(d) ==
    \* The queues, and the screens.
    /\ \A e \in Device, i \in Nat, t \in {"add", "close", "lend", "return"}, k \in Card,
          b \in AnyBook :
          At(queue'[e], i, t, k, b) <=> 1 <= i /\ At(queue[e], Was(d, e, i), t, k, b)
    /\ UNCHANGED <<alert, screen, id, current>>
    \* The cards: one is added, or one is closed.
    /\ \A e \in Device, k \in Card, b \in AnyBook : Sees(e, k, b) => Sees(e, k, b)'
    /\ \A k \in Card, b \in AnyBook : AddAt(d, 1, k, b) => Sees(d, k, b)'
    /\ \A e \in Device, k \in Card, b \in AnyBook : Sees(e, k, b)' => CardIs(k, b)'
    /\ \A k \in Card, b \in AnyBook : CardIs(k, b) => CardIs(k, b)'
    /\ \A k \in Card, b \in AnyBook : CardIs(k, b)' => CardIs(k, b) \/ AddAt(d, 1, k, b)
    /\ \A k \in Card : cards[k].status = "closed" => cards'[k].status = "closed"
    /\ \A k \in Card : CloseAt(d, 1, k) => cards'[k].status = "closed"
    /\ \A k \in Card : cards'[k].status = "closed" =>
          cards[k].status = "closed" \/ CloseAt(d, 1, k)
    /\ \A k \in Card : cards[k].status = "none" /\ cards'[k].status # "none" =>
          \E b \in AnyBook : AddAt(d, 1, k, b)
    \* The counters: a loan is counted, or one is no longer.
    /\ \A b \in Book : clean'[b] => clean[b]
    /\ \A k \in Card, b \in Book : At(queue[d], 1, "lend", k, b) => k \in posted'[b]
    /\ \A k \in Card, b \in Book : k \in posted'[b] =>
          k \in posted[b] \/ At(queue[d], 1, "lend", k, b)
    /\ \A k \in Card, b \in Book : k \in posted[b] =>
          k \in posted'[b] \/ At(queue[d], 1, "return", k, b)
    /\ \A k \in Card, b \in Book : At(queue[d], 1, "return", k, b) =>
          k \notin posted'[b] /\ (clean'[b] => k \in posted[b])

LEMMA PopsLoan ==
    ASSUME Typed, LoanInv, NEW d \in Device, Pops(d)
    PROVE  LoanInv'
<1> USE ConstantsAssumption DEF LoanInv
<1>t. \A e \in Device, i \in Nat : \A t, k, b : At(queue[e], i, t, k, b) => 1 <= i
    BY AtPlace DEF Typed
<1>1. \A e \in Device, i \in Nat, t \in {"add", "close", "lend", "return"}, k \in Card,
         b \in AnyBook :
         At(queue'[e], i, t, k, b) =>
            1 <= i /\ Was(d, e, i) \in Nat /\ At(queue[e], Was(d, e, i), t, k, b)
    BY DEF Pops, Was
<1>2. \A e \in Device, i \in Nat, t \in {"add", "close", "lend", "return"}, k \in Card,
         b \in AnyBook :
         At(queue[e], i, t, k, b) =>
            \/ e = d /\ i = 1
            \/ \E j \in Nat : i = Was(d, e, j) /\ At(queue'[e], j, t, k, b)
    <2> SUFFICES ASSUME NEW e \in Device, NEW i \in Nat,
                        NEW t \in {"add", "close", "lend", "return"}, NEW k \in Card,
                        NEW b \in AnyBook, At(queue[e], i, t, k, b), ~(e = d /\ i = 1)
                 PROVE  \E j \in Nat : i = Was(d, e, j) /\ At(queue'[e], j, t, k, b)
        OBVIOUS
    <2>1. 1 <= i
        BY <1>t
    <2> DEFINE j == IF e = d THEN i - 1 ELSE i
    <2>2. j \in Nat /\ 1 <= j /\ i = Was(d, e, j)
        BY <2>1 DEF Was
    <2>3. At(queue'[e], j, t, k, b)
        BY <2>2 DEF Pops
    <2> QED BY <2>2, <2>3
<1>3. /\ \A e \in Device, i, j \in Nat : Was(d, e, i) < Was(d, e, j) <=> i < j
      /\ \A e \in Device, i, j \in Nat : Was(d, e, i) = Was(d, e, j) => i = j
      /\ \A i \in Nat : 1 <= i => Was(d, d, i) > 1
    BY DEF Was
<1> HIDE DEF Was
<1>a. /\ alert' = alert /\ screen' = screen /\ id' = id /\ current' = current
      /\ \A e \in Device : alert[e] \in Card \cup {None} /\ id[e] \in AnyBook
    BY DEF Pops, Typed, TypeOK, AnyBook
\* What a device knows it still knows, and cards keep their book.
<1>k. /\ \A e \in Device, k \in Card, b \in AnyBook, i \in Nat :
            Knows(e, k, b, Was(d, e, i)) => Knows(e, k, b, i)'
      /\ \A e \in Device, k \in Card, b \in AnyBook : KnowsNow(e, k, b) => KnowsNow(e, k, b)'
      /\ \A k \in Card, b \in AnyBook : BookOf(k, b)' => BookOf(k, b)
    <2>1. \A e \in Device, j \in Nat, k \in Card, b \in AnyBook : AddAt(e, j, k, b) =>
             \/ Sees(e, k, b)'
             \/ \E i \in Nat : j = Was(d, e, i) /\ AddAt(e, i, k, b)'
        BY <1>2 DEF AddAt, Pops
    <2>2. \A e \in Device, k \in Card, b \in AnyBook : Sees(e, k, b) => Sees(e, k, b)'
        BY DEF Pops
    <2>3. ASSUME NEW e \in Device, NEW k \in Card, NEW b \in AnyBook, NEW i \in Nat,
                 Knows(e, k, b, Was(d, e, i))
          PROVE  Knows(e, k, b, i)'
        BY <1>3, <2>1, <2>2, <2>3 DEF Knows
    <2>4. ASSUME NEW e \in Device, NEW k \in Card, NEW b \in AnyBook, KnowsNow(e, k, b)
          PROVE  KnowsNow(e, k, b)'
        BY <2>1, <2>2, <2>4 DEF KnowsNow
    <2>5. ASSUME NEW k \in Card, NEW b \in AnyBook, BookOf(k, b)'
          PROVE  BookOf(k, b)
        <3>1. CASE CardIs(k, b)'
            BY <3>1 DEF Pops, BookOf
        <3>2. ASSUME NEW e \in Device, NEW j \in Nat, AddAt(e, j, k, b)'
              PROVE  BookOf(k, b)
            BY <1>1, <3>2 DEF AddAt, BookOf
        <3> QED BY <2>5, <3>1, <3>2 DEF BookOf
    <2> QED BY <2>3, <2>4, <2>5
\* The first write is of a card the server has, unless it adds it.
<1>h. /\ \A k \in Card, b \in Book, t \in {"lend", "return"} :
            At(queue[d], 1, t, k, b) => CardIs(k, b)
      /\ \A k \in Card, b \in Book : At(queue[d], 1, "return", k, b) =>
            cards[k].status = "closed"
    <2>1. \A j \in Nat, k \in Card, b \in AnyBook :
             j < 1 => ~AddAt(d, j, k, b) /\ ~CloseAt(d, j, k)
        BY <1>t DEF AddAt, CloseAt
    <2>2. \A k \in Card, b \in Book, t \in {"lend", "return"} :
             At(queue[d], 1, t, k, b) => Sees(d, k, b)
        BY <2>1 DEF KnownInv, LoanOK, Knows, AnyBook
    <2>3. \A k \in Card, b \in Book : At(queue[d], 1, "return", k, b) =>
             cards[k].status = "closed"
        BY <2>1 DEF KnownInv, ReturnOK, AnyBook
    <2> QED BY <2>2, <2>3 DEF KnownInv, SeenOK, AnyBook
<1>5. KnownInv'
    <2>1. SeenOK'
        BY DEF SeenOK, Pops
    <2>2. AddsOK'
        <3> SUFFICES ASSUME NEW e \in Device, NEW i \in Nat, NEW k \in Card, NEW b \in AnyBook,
                            AddAt(e, i, k, b)'
                     PROVE  /\ cards'[k].status = "none"
                            /\ \A f \in Device, j \in Nat, c \in AnyBook :
                                  AddAt(f, j, k, c)' => e = f /\ i = j /\ b = c
            BY DEF AddsOK
        <3>1. 1 <= i /\ Was(d, e, i) \in Nat /\ AddAt(e, Was(d, e, i), k, b)
            BY <1>1 DEF AddAt
        <3>2. \A c \in AnyBook : ~AddAt(d, 1, k, c)
            BY <1>3, <3>1 DEF KnownInv, AddsOK
        <3>3. cards[k].status = "none"
            BY <3>1 DEF KnownInv, AddsOK
        <3>4. cards'[k].status = "none"
            BY <3>2, <3>3 DEF Pops
        <3>5. ASSUME NEW f \in Device, NEW j \in Nat, NEW c \in AnyBook, AddAt(f, j, k, c)'
              PROVE  e = f /\ i = j /\ b = c
            <4>1. Was(d, f, j) \in Nat /\ AddAt(f, Was(d, f, j), k, c)
                BY <1>1, <3>5 DEF AddAt
            <4>2. e = f /\ Was(d, e, i) = Was(d, f, j) /\ b = c
                BY <3>1, <4>1 DEF KnownInv, AddsOK
            <4> QED BY <1>3, <4>2
        <3> QED BY <3>4, <3>5
    <2>3. CloseOK'
        <3> SUFFICES ASSUME NEW e \in Device, NEW i \in Nat, NEW k \in Card, CloseAt(e, i, k)'
                     PROVE  \E b \in Book : Knows(e, k, b, i)'
            BY DEF CloseOK
        <3>1. Was(d, e, i) \in Nat /\ CloseAt(e, Was(d, e, i), k)
            BY <1>1 DEF CloseAt, AnyBook
        <3>2. PICK b \in Book : Knows(e, k, b, Was(d, e, i))
            BY <3>1 DEF KnownInv, CloseOK
        <3> QED BY <1>k, <3>2 DEF AnyBook
    <2>4. LoanOK'
        <3> SUFFICES ASSUME NEW e \in Device, NEW i \in Nat, NEW t \in {"lend", "return"},
                            NEW k \in Card, NEW b \in Book, At(queue'[e], i, t, k, b)
                     PROVE  Knows(e, k, b, i)'
            BY DEF LoanOK
        <3>1. Was(d, e, i) \in Nat /\ At(queue[e], Was(d, e, i), t, k, b)
            BY <1>1 DEF AnyBook
        <3>2. Knows(e, k, b, Was(d, e, i))
            BY <3>1 DEF KnownInv, LoanOK
        <3> QED BY <1>k, <3>2 DEF AnyBook
    <2>5. ReturnOK'
        <3> SUFFICES ASSUME NEW e \in Device, NEW i \in Nat, NEW k \in Card, NEW b \in Book,
                            At(queue'[e], i, "return", k, b), cards'[k].status # "closed"
                     PROVE  \E j \in Nat : j < i /\ CloseAt(e, j, k)'
            BY DEF ReturnOK
        <3>1. Was(d, e, i) \in Nat /\ At(queue[e], Was(d, e, i), "return", k, b)
            BY <1>1 DEF AnyBook
        <3>2. PICK j \in Nat : j < Was(d, e, i) /\ CloseAt(e, j, k)
            BY <3>1 DEF KnownInv, ReturnOK, Pops
        <3>3. ~(e = d /\ j = 1)
            BY <3>2 DEF Pops
        <3>4. PICK m \in Nat : j = Was(d, e, m) /\ CloseAt(e, m, k)'
            BY <1>2, <3>2, <3>3 DEF CloseAt, AnyBook
        <3> QED BY <1>3, <3>2, <3>4
    <2>6. AlertOK' /\ CurrentOK'
        BY <1>a, <1>k DEF KnownInv, AlertOK, CurrentOK, AnyBook, Typed, ScreenOK
    <2> QED BY <2>1, <2>2, <2>3, <2>4, <2>5, <2>6 DEF KnownInv
<1>6. \A e \in Device, i \in Nat, k \in Card : LendAt(e, i, k)' =>
         1 <= i /\ Was(d, e, i) \in Nat /\ LendAt(e, Was(d, e, i), k)
    BY <1>1 DEF LendAt, AnyBook
<1>7. \A k \in Card : Lending(k)' => Lending(k) /\ ~LendAt(d, 1, k)
    <2> SUFFICES ASSUME NEW k \in Card, Lending(k)'
                 PROVE  Lending(k) /\ ~LendAt(d, 1, k)
        OBVIOUS
    <2>1. ASSUME NEW e \in Device, alert[e] = k
          PROVE  Lending(k) /\ ~LendAt(d, 1, k)
        BY <2>1 DEF Lending, TokenInv, AlertOrWrite
    <2>2. ASSUME NEW e \in Device, NEW i \in Nat, LendAt(e, i, k)'
          PROVE  Lending(k) /\ ~LendAt(d, 1, k)
        <3>1. 1 <= i /\ Was(d, e, i) \in Nat /\ LendAt(e, Was(d, e, i), k)
            BY <1>6, <2>2
        <3>2. ASSUME LendAt(d, 1, k)
              PROVE  FALSE
            <4>1. e = d /\ Was(d, e, i) = 1
                BY <3>1, <3>2 DEF TokenInv, LentOnce
            <4> QED BY <1>3, <3>1, <4>1
        <3> QED BY <3>1, <3>2 DEF Lending
    <2> QED BY <1>a, <2>1, <2>2 DEF Lending
<1>8. \A k \in Card : Lending(k) => Lending(k)' \/ LendAt(d, 1, k)
    <2>1. \A e \in Device, i \in Nat, k \in Card : LendAt(e, i, k) =>
             LendAt(d, 1, k) \/ \E j \in Nat : LendAt(e, j, k)'
        BY <1>2 DEF LendAt, AnyBook
    <2> QED BY <1>a, <2>1 DEF Lending
<1>9. TokenInv'
    <2>1. OneAlert' /\ AlertOrWrite'
        BY <1>a, <1>6 DEF TokenInv, OneAlert, AlertOrWrite
    <2>2. LentOnce'
        <3> SUFFICES ASSUME NEW e \in Device, NEW f \in Device, NEW i \in Nat, NEW j \in Nat,
                            NEW k \in Card, LendAt(e, i, k)', LendAt(f, j, k)'
                     PROVE  e = f /\ i = j
            BY DEF LentOnce
        <3>1. e = f /\ Was(d, e, i) = Was(d, f, j)
            BY <1>6 DEF TokenInv, LentOnce
        <3> QED BY <1>3, <3>1
    <2>3. PostedOK'
        BY <1>h DEF TokenInv, PostedOK, Pops, AnyBook
    <2>4. PostedOnce'
        BY <1>7 DEF TokenInv, PostedOnce, Pops, LendAt
    <2> QED BY <2>1, <2>2, <2>3, <2>4 DEF TokenInv
<1>r. \A e \in Device, i \in Nat, k \in Card, b \in Book :
         At(queue[e], i, "return", k, b) /\ ~(e = d /\ i = 1) =>
            \E j \in Nat : i = Was(d, e, j) /\ At(queue'[e], j, "return", k, b)
    BY <1>2 DEF AnyBook
<1>b. \A k \in Card, b \in Book, c \in Book : BookOf(k, b) /\ CardIs(k, c) => b = c
    BY BookOfIsOne DEF BookOf, AnyBook
<1>c. /\ \A b \in Book : clean'[b] => clean[b]
      /\ \A k \in Card, b \in Book : BookOf(k, b)' => BookOf(k, b)
    BY <1>k DEF Pops, AnyBook
<1>10. WayInv'
    <2>1. OpenLends'
        <3> SUFFICES ASSUME NEW k \in Card, NEW b \in Book, clean'[b], BookOf(k, b),
                            cards'[k].status # "closed", k \notin posted'[b]
                     PROVE  Lending(k)'
            BY <1>c DEF OpenLends
        <3>1. cards[k].status # "closed"
            BY DEF Pops
        <3>2. k \notin posted[b]
            BY <1>h, <3>1 DEF Pops
        <3>3. Lending(k)
            BY <1>c, <3>1, <3>2 DEF WayInv, OpenLends
        <3>4. ~LendAt(d, 1, k)
            BY <1>b, <1>h DEF LendAt, Pops
        <3> QED BY <1>8, <3>3, <3>4
    <2>2. ClosedReturns'
        <3> SUFFICES ASSUME NEW k \in Card, NEW b \in Book, clean'[b], BookOf(k, b),
                            cards'[k].status = "closed", k \in posted'[b] \/ Lending(k)'
                     PROVE  Returning(k)'
            BY <1>c DEF ClosedReturns
        <3>1. CASE cards[k].status = "closed"
            <4>1. k \in posted[b] \/ Lending(k)
                BY <1>7 DEF Pops, Lending, LendAt
            <4>2. PICK e \in Device, i \in Nat, c \in Book : At(queue[e], i, "return", k, c)
                BY <1>c, <3>1, <4>1 DEF WayInv, ClosedReturns, Returning
            <4>3. ~(e = d /\ i = 1)
                <5> SUFFICES ASSUME At(queue[d], 1, "return", k, c)
                             PROVE  FALSE
                    BY <4>2
                <5>1. c = b
                    BY <1>b, <1>h
                <5>2. k \in posted[b] /\ k \notin posted'[b]
                    BY <5>1 DEF Pops
                <5> QED BY <1>7, <5>2 DEF TokenInv, PostedOnce
            <4> QED BY <1>r, <4>2, <4>3 DEF Returning
        <3>2. CASE cards[k].status # "closed"
            <4>1. CloseAt(d, 1, k)
                BY <3>2 DEF Pops
            <4>2. PICK j \in Nat, c \in Book : 1 < j /\ At(queue[d], j, "return", k, c)
                BY <1>c, <4>1 DEF WayInv, CloseReturns
            <4> QED BY <1>r, <4>2 DEF Returning
        <3> QED BY <3>1, <3>2
    <2>3. CloseReturns'
        <3> SUFFICES ASSUME NEW e \in Device, NEW i \in Nat, NEW k \in Card, NEW b \in Book,
                            clean'[b], BookOf(k, b), CloseAt(e, i, k)'
                     PROVE  \E j \in Nat, c \in Book :
                               i < j /\ At(queue'[e], j, "return", k, c)
            BY <1>c DEF CloseReturns
        <3>1. 1 <= i /\ Was(d, e, i) \in Nat /\ CloseAt(e, Was(d, e, i), k)
            BY <1>1 DEF CloseAt, AnyBook
        <3>2. PICK j \in Nat, c \in Book :
                 Was(d, e, i) < j /\ At(queue[e], j, "return", k, c)
            BY <1>c, <3>1 DEF WayInv, CloseReturns
        <3>3. ~(e = d /\ j = 1)
            BY <1>3, <3>1, <3>2
        <3>4. PICK m \in Nat : j = Was(d, e, m) /\ At(queue'[e], m, "return", k, c)
            BY <1>r, <3>2, <3>3
        <3> QED BY <1>3, <3>2, <3>4
    <2> QED BY <2>1, <2>2, <2>3 DEF WayInv
<1> QED BY <1>5, <1>9, <1>10

\* What every first write taken does to the queues, and what it is.
LEMMA CommitAt ==
    ASSUME Typed, NEW d \in Device, Commit(d)
    PROVE  /\ \A e \in Device, i \in Nat, t \in {"add", "close", "lend", "return"},
                 k \in Card, b \in AnyBook :
                 At(queue'[e], i, t, k, b) <=> 1 <= i /\ At(queue[e], Was(d, e, i), t, k, b)
           /\ \A t, k, b : At(queue[d], 1, t, k, b) <=>
                 Kind(Head(queue[d])) = t /\ Head(queue[d]).card = k
                                          /\ Head(queue[d]).book = b
           /\ UNCHANGED <<alert, screen, id, current>>
           /\ Head(queue[d]) \in Write
<1>1. queue[d] \in Seq(Write) /\ queue[d] # <<>> /\ queue'[d] = Tail(queue[d])
    BY DEF Commit, Typed, TypeOK
<1>2. \A e \in Device : e # d => queue'[e] = queue[e]
    BY DEF Commit, Typed, TypeOK
<1>3. \A i \in Nat, t \in {"add", "close", "lend", "return"}, k \in Card, b \in AnyBook :
         At(queue'[d], i, t, k, b) <=> 1 <= i /\ At(queue[d], i + 1, t, k, b)
    <2> SUFFICES ASSUME NEW i \in Nat, NEW t \in {"add", "close", "lend", "return"},
                        NEW k \in Card, NEW b \in AnyBook
                 PROVE  At(Tail(queue[d]), i, t, k, b) <=>
                           1 <= i /\ At(queue[d], i + 1, t, k, b)
        BY <1>1
    <2> QED BY <1>1, AtTail
<1>4. \A e \in Device, i \in Nat, t \in {"add", "close", "lend", "return"}, k \in Card,
         b \in AnyBook :
         At(queue'[e], i, t, k, b) <=> 1 <= i /\ At(queue[e], Was(d, e, i), t, k, b)
    <2> SUFFICES ASSUME NEW e \in Device, NEW i \in Nat,
                        NEW t \in {"add", "close", "lend", "return"},
                        NEW k \in Card, NEW b \in AnyBook
                 PROVE  At(queue'[e], i, t, k, b) <=>
                           1 <= i /\ At(queue[e], Was(d, e, i), t, k, b)
        OBVIOUS
    <2>1. CASE e = d
        BY <1>3, <2>1 DEF Was
    <2>2. CASE e # d
        BY <1>2, <2>2, AtPlace DEF Was, Typed
    <2> QED BY <2>1, <2>2
<1>5. \A t, k, b : At(queue[d], 1, t, k, b) <=>
         Kind(Head(queue[d])) = t /\ Head(queue[d]).card = k /\ Head(queue[d]).book = b
    BY <1>1, AtHead
<1>6. Head(queue[d]) \in Write
    BY <1>1, HeadTailProperties
<1> QED BY <1>4, <1>5, <1>6 DEF Commit, borrowScreen, returnScreen

LEMMA CommitCardPops ==
    ASSUME Typed, LoanInv, NEW d \in Device, Commit(d), CommitCard(d, Head(queue[d]))
    PROVE  Pops(d)
<1> USE ConstantsAssumption
<1> DEFINE w == Head(queue[d])
           k == w.card
<1>1. w \in CardWrite
    BY CommitAt, CardWriteIs DEF CommitCard
<1>2. /\ k \in Card /\ w.book \in AnyBook
      /\ Kind(w) = w.op /\ w.op \in {"add", "close"}
      /\ w.op = "close" => w.book = None
    BY <1>1 DEF CardWrite, Kind, AnyBook
<1>3. /\ posted' = posted /\ clean' = clean
      /\ \A l \in Card : l # k => cards'[l] = cards[l]
      /\ \A e \in Device, l \in Card : e # d \/ l # k => seenCards'[e][l] = seenCards[e][l]
      /\ w.op = "add" => /\ cards'[k] = [status |-> "open", book |-> w.book]
                         /\ seenCards'[d][k] = [status |-> "open", book |-> w.book]
      /\ w.op = "close" => /\ cards'[k] = [cards[k] EXCEPT !.status = "closed"]
                           /\ seenCards'[d][k] = [seenCards[d][k] EXCEPT !.status = "closed"]
    <2> HIDE DEF w
    <2> QED BY <1>2 DEF CommitCard, history, Typed, TypeOK, w
<1>4. /\ cards[k] \in CardDoc /\ seenCards[d][k] \in CardDoc
    BY <1>2 DEF Typed, TypeOK
<1>5. \A t, l, b : At(queue[d], 1, t, l, b) <=> w.op = t /\ k = l /\ w.book = b
    <2>1. \A t, l, b : At(queue[d], 1, t, l, b) <=>
             Kind(w) = t /\ w.card = l /\ w.book = b
        BY CommitAt
    <2> HIDE DEF w
    <2> QED BY <1>2, <2>1
<1>6. w.op = "add" => cards[k].status = "none" /\ \A e \in Device, b \in AnyBook : ~Sees(e, k, b)
    <2> SUFFICES ASSUME w.op = "add"
                 PROVE  cards[k].status = "none" /\ \A e \in Device, b \in AnyBook : ~Sees(e, k, b)
        OBVIOUS
    <2>1. AddAt(d, 1, k, w.book)
        BY <1>5 DEF AddAt
    <2> HIDE DEF k, w
    <2>2. cards[k].status = "none"
        BY <1>2, <2>1 DEF LoanInv, KnownInv, AddsOK
    <2> QED BY <1>2, <2>2 DEF LoanInv, KnownInv, SeenOK, CardIs
<1>7. w.op = "close" => \E b \in Book : Sees(d, k, b) /\ CardIs(k, b)
    <2> SUFFICES ASSUME w.op = "close"
                 PROVE  \E b \in Book : Sees(d, k, b) /\ CardIs(k, b)
        OBVIOUS
    <2>1. CloseAt(d, 1, k)
        BY <1>2, <1>5 DEF CloseAt
    <2> HIDE DEF k, w
    <2>2. PICK b \in Book : Knows(d, k, b, 1)
        BY <1>2, <2>1 DEF LoanInv, KnownInv, CloseOK
    <2>3. \A j \in Nat : j < 1 => ~AddAt(d, j, k, b)
        <3>1. \A j \in Nat : AddAt(d, j, k, b) => 1 <= j
            BY AtPlace DEF AddAt, Typed
        <3> QED BY <3>1
    <2>4. Sees(d, k, b)
        BY <2>2, <2>3 DEF Knows
    <2> QED BY <1>2, <2>4 DEF LoanInv, KnownInv, SeenOK, AnyBook
<1> HIDE DEF k, w
<1>8. /\ \A e \in Device, l \in Card, b \in AnyBook : Sees(e, l, b) => Sees(e, l, b)'
      /\ \A l \in Card, b \in AnyBook : AddAt(d, 1, l, b) => Sees(d, l, b)'
    BY <1>2, <1>3, <1>4, <1>5, <1>6 DEF Sees, AddAt, CardDoc
<1>9. \A l \in Card, b \in AnyBook :
         /\ CardIs(l, b) => CardIs(l, b)'
         /\ CardIs(l, b)' => CardIs(l, b) \/ AddAt(d, 1, l, b)
    BY <1>2, <1>3, <1>4, <1>5, <1>6, <1>7 DEF CardIs, AddAt, CardDoc
<1>10. \A e \in Device, l \in Card, b \in AnyBook : Sees(e, l, b)' => CardIs(l, b)'
    <2> SUFFICES ASSUME NEW e \in Device, NEW l \in Card, NEW b \in AnyBook, Sees(e, l, b)'
                 PROVE  CardIs(l, b)'
        OBVIOUS
    <2>1. CASE Sees(e, l, b)
        BY <1>9, <2>1 DEF LoanInv, KnownInv, SeenOK
    <2>2. CASE ~Sees(e, l, b)
        BY <1>2, <1>3, <1>4, <1>7, <2>2 DEF Sees, CardIs, CardDoc
    <2> QED BY <2>1, <2>2
<1>11. \A l \in Card : CloseAt(d, 1, l) <=> w.op = "close" /\ l = k
    BY <1>2, <1>5 DEF CloseAt
<1>12. /\ \A l \in Card : cards[l].status = "closed" => cards'[l].status = "closed"
       /\ \A l \in Card : CloseAt(d, 1, l) => cards'[l].status = "closed"
       /\ \A l \in Card : cards'[l].status = "closed" =>
             cards[l].status = "closed" \/ CloseAt(d, 1, l)
       /\ \A l \in Card : cards[l].status = "none" /\ cards'[l].status # "none" =>
             \E b \in AnyBook : AddAt(d, 1, l, b)
    BY <1>2, <1>3, <1>4, <1>5, <1>6, <1>7, <1>11 DEF AddAt, CardDoc, CardIs
<1>13. \A l \in Card, b \in Book : ~At(queue[d], 1, "lend", l, b)
                                  /\ ~At(queue[d], 1, "return", l, b)
    BY <1>2, <1>5
<1> QED BY <1>3, <1>8, <1>9, <1>10, <1>12, <1>13, CommitAt DEF Pops

LEMMA CommitBookPops ==
    ASSUME Typed, LoanInv, NEW d \in Device, Commit(d), CommitBook(d, Head(queue[d]))
    PROVE  Pops(d)
<1> USE ConstantsAssumption
<1> DEFINE w == Head(queue[d])
<1>1. w \in BookWrite
    BY CommitAt, BookWriteIs DEF CommitBook
<1>2. /\ w.book \in Book /\ Kind(w) = w.why
      /\ w.why \in {"lend", "return", "edit", "new"}
    BY <1>1 DEF CommitBook, BookWrite, StockWrite, LoanWrite, Kind
<1>3. \A t, l, b : At(queue[d], 1, t, l, b) <=> w.why = t /\ w.card = l /\ w.book = b
    <2>1. \A t, l, b : At(queue[d], 1, t, l, b) <=>
             Kind(w) = t /\ w.card = l /\ w.book = b
        BY CommitAt
    <2> HIDE DEF w
    <2> QED BY <1>2, <2>1
<1>4. /\ cards' = cards /\ seenCards' = seenCards
      /\ \A b \in Book : b # w.book => clean'[b] = clean[b] /\ posted'[b] = posted[b]
      /\ clean'[w.book] => clean[w.book] /\ Sound(w)
      /\ posted'[w.book] = IF w.why = "lend" THEN posted[w.book] \cup {w.card}
                           ELSE IF w.why = "return" THEN posted[w.book] \ {w.card}
                           ELSE posted[w.book]
    BY <1>2 DEF CommitBook, Typed, TypeOK
<1> HIDE DEF w
<1>5. \A e \in Device, l \in Card, b \in AnyBook :
         Sees(e, l, b)' <=> Sees(e, l, b)
    BY <1>4 DEF Sees
<1>6. \A l \in Card, b \in AnyBook : CardIs(l, b)' <=> CardIs(l, b)
    BY <1>4 DEF CardIs
<1>7. \A l \in Card, b \in AnyBook : ~AddAt(d, 1, l, b) /\ ~CloseAt(d, 1, l)
    BY <1>2, <1>3 DEF AddAt, CloseAt
<1>8. \A e \in Device, l \in Card, b \in AnyBook : Sees(e, l, b)' => CardIs(l, b)'
    BY <1>5, <1>6 DEF LoanInv, KnownInv, SeenOK
<1>9. \A b \in Book : clean'[b] => clean[b]
    BY <1>4
<1>10. /\ \A k \in Card, b \in Book : At(queue[d], 1, "lend", k, b) => k \in posted'[b]
       /\ \A k \in Card, b \in Book : k \in posted'[b] =>
             k \in posted[b] \/ At(queue[d], 1, "lend", k, b)
       /\ \A k \in Card, b \in Book : k \in posted[b] =>
             k \in posted'[b] \/ At(queue[d], 1, "return", k, b)
    BY <1>2, <1>3, <1>4
<1>11. \A k \in Card, b \in Book : At(queue[d], 1, "return", k, b) =>
          k \notin posted'[b] /\ (clean'[b] => k \in posted[b])
    BY <1>2, <1>3, <1>4 DEF Sound
<1> QED BY <1>4, <1>5, <1>6, <1>7, <1>8, <1>9, <1>10, <1>11, CommitAt DEF Pops, AnyBook

LEMMA SyncCardLoan ==
    ASSUME Typed, LoanInv, NEW d \in Device, NEW k \in Card, SyncCard(d, k)
    PROVE  LoanInv'
<1> USE ConstantsAssumption DEF LoanInv
<1>1. /\ UNCHANGED <<queue, cards, alert, screen, id, current, posted, clean>>
      /\ \A e \in Device, l \in Card : seenCards'[e][l] =
            IF e = d /\ l = k THEN cards[k] ELSE seenCards[e][l]
    BY DEF SyncCard, server, history, borrowScreen, returnScreen, Typed, TypeOK
<1>2. \A e \in Device, l \in Card, b \in AnyBook :
         /\ Sees(e, l, b) => Sees(e, l, b)'
         /\ Sees(e, l, b)' => CardIs(l, b)
    BY <1>1 DEF Sees, CardIs, KnownInv, SeenOK
<1>3. /\ \A e \in Device, i \in Nat, l \in Card, b \in AnyBook :
            AddAt(e, i, l, b)' <=> AddAt(e, i, l, b)
      /\ \A e \in Device, i \in Nat, l \in Card :
            /\ CloseAt(e, i, l)' <=> CloseAt(e, i, l)
            /\ LendAt(e, i, l)' <=> LendAt(e, i, l)
      /\ \A l \in Card, b \in AnyBook : CardIs(l, b)' <=> CardIs(l, b)
    BY <1>1 DEF AddAt, CloseAt, LendAt, CardIs
<1>4. /\ \A e \in Device, l \in Card, b \in AnyBook, i \in Nat :
            Knows(e, l, b, i) => Knows(e, l, b, i)'
      /\ \A e \in Device, l \in Card, b \in AnyBook : KnowsNow(e, l, b) => KnowsNow(e, l, b)'
      /\ \A l \in Card, b \in AnyBook : BookOf(l, b)' <=> BookOf(l, b)
    BY <1>2, <1>3 DEF Knows, KnowsNow, BookOf
<1>5. KnownInv'
    <2>1. SeenOK' /\ AddsOK'
        BY <1>1, <1>2, <1>3 DEF KnownInv, SeenOK, AddsOK
    <2>2. CloseOK'
        BY <1>3, <1>4 DEF KnownInv, CloseOK, AnyBook
    <2>3. LoanOK'
        BY <1>1, <1>4 DEF KnownInv, LoanOK, AnyBook
    <2>4. ReturnOK'
        BY <1>1, <1>3 DEF KnownInv, ReturnOK
    <2>5. AlertOK' /\ CurrentOK'
        BY <1>1, <1>4 DEF KnownInv, AlertOK, CurrentOK, AnyBook, Typed, TypeOK, ScreenOK
    <2> QED BY <2>1, <2>2, <2>3, <2>4, <2>5 DEF KnownInv
<1>6. \A l \in Card : (Lending(l)' <=> Lending(l)) /\ (Returning(l)' <=> Returning(l))
    BY <1>1, <1>3 DEF Lending, Returning
<1>7. TokenInv'
    BY <1>1, <1>3, <1>6 DEF TokenInv, OneAlert, AlertOrWrite, LentOnce, PostedOK, PostedOnce,
                            AnyBook
<1>8. WayInv'
    BY <1>1, <1>3, <1>4, <1>6 DEF WayInv, OpenLends, ClosedReturns, CloseReturns, AnyBook
<1> QED BY <1>5, <1>7, <1>8

----------------------------------------------------------------------------
(* The other steps keep the writes to cards.                               *)

\* A write of a book's details touches no card.
LEMMA StockIssueAt ==
    ASSUME TypeOK, NEW d \in Device, NEW w \in Write, Issue(d, <<w>>),
           Kind(w) \in {"edit", "new"}
    PROVE  \A e \in Device, i \in Nat, t \in {"add", "close", "lend", "return"},
              k \in Card, b \in AnyBook :
              At(queue'[e], i, t, k, b) <=> At(queue[e], i, t, k, b)
BY IssueAt

\* A step that leaves the screen, or the app, with its alert accounted for.
LEMMA ClosesKeeps ==
    ASSUME Typed, LoanInv, NEW d \in Device, Closes(d),
           UNCHANGED <<queue, cards, seenCards, posted>>,
           alert[d] # None => Tears(d), alert[d] = None => clean' = clean \/ Tears(d)
    PROVE  Keeps
<1> USE ConstantsAssumption
<1>1. /\ alert'[d] = None /\ screen'[d] = "list"
      /\ \A e \in Device : e # d => /\ alert'[e] = alert[e] /\ id'[e] = id[e]
                                   /\ screen'[e] = screen[e] /\ current'[e] = current[e]
    BY DEF Closes, Typed, TypeOK
<1>2. \A b \in Book : clean'[b] => clean[b]
    BY DEF Tears
<1>3. alert[d] # None /\ id[d] \in Book => ~clean'[id[d]]
    BY DEF Tears
<1>4. \A e \in Device : alert[e] # None => screen[e] = "borrow"
    BY DEF LoanInv, KnownInv, AlertOK
<1>5. \A e \in Device : screen[e] = "return" =>
         /\ current[e] \in [card : Card, book : Book]
         /\ KnowsNow(e, current[e].card, current[e].book)
    BY DEF LoanInv, KnownInv, CurrentOK, Typed, ScreenOK
<1> QED BY <1>1, <1>2, <1>3, <1>4, <1>5 DEF Keeps

\* A step that leaves the borrow screens' alerts and the return screens'
\* cards.
LEMMA StaysKeeps ==
    ASSUME Typed, LoanInv, UNCHANGED <<cards, seenCards, alert, posted, clean>>,
           \A e \in Device, i \in Nat, t \in {"add", "close", "lend", "return"}, k \in Card,
              b \in AnyBook : At(queue'[e], i, t, k, b) <=> At(queue[e], i, t, k, b),
           \A e \in Device : alert[e] # None => id'[e] = id[e] /\ screen'[e] = screen[e],
           \A e \in Device : screen'[e] = "return" =>
              screen[e] = "return" /\ current'[e] = current[e]
    PROVE  Keeps
<1>1. \A e \in Device : alert[e] # None => screen[e] = "borrow"
    BY DEF LoanInv, KnownInv, AlertOK
<1>2. \A e \in Device : screen[e] = "return" =>
         /\ current[e] \in [card : Card, book : Book]
         /\ KnowsNow(e, current[e].card, current[e].book)
    BY DEF LoanInv, KnownInv, CurrentOK, Typed, ScreenOK
<1> QED BY <1>1, <1>2 DEF Keeps

LEMMA BorrowsLoan ==
    ASSUME Typed, LoanInv, NEW d \in Device, Borrows(d)
    PROVE  LoanInv'
<1> USE ConstantsAssumption DEF server, replica, borrowScreen, returnScreen, history
<1>a. \A e \in Device : alert[e] # None => screen[e] = "borrow"
    BY DEF LoanInv, KnownInv, AlertOK
<1>1. CASE OpenBorrow(d)
    <2>1. Keeps
        BY <1>1, <1>a, StaysKeeps DEF OpenBorrow, Typed, TypeOK
    <2> QED BY <2>1, KeepsLoan
<1>2. ASSUME NEW b \in Book, BookIDAction(d, b)
      PROVE  LoanInv'
    <2>1. Keeps
        BY <1>2, StaysKeeps DEF BookIDAction, Typed, TypeOK
    <2> QED BY <2>1, KeepsLoan
<1>3. ASSUME NEW r \in reads[d], BookAnswer(d, r)
      PROVE  LoanInv'
    <2>1. Keeps
        BY <1>3, StaysKeeps DEF BookAnswer
    <2> QED BY <2>1, KeepsLoan
<1>4. ASSUME NEW r \in reads[d], PartialAnswer(d, r)
      PROVE  LoanInv'
    <2>1. Keeps
        BY <1>4, ClosesKeeps DEF PartialAnswer, Stops
    <2> QED BY <2>1, KeepsLoan
<1>5. CASE OkBorrowFails(d)
    <2>1. Keeps
        BY <1>5, ClosesKeeps DEF OkBorrowFails, Stops
    <2> QED BY <2>1, KeepsLoan
<1>6. CASE CancelBorrow(d)
    <2>1. Keeps
        BY <1>6, ClosesKeeps DEF CancelBorrow, Leaves
    <2> QED BY <2>1, KeepsLoan
<1> QED BY <1>1, <1>2, <1>3, <1>4, <1>5, <1>6, ConfirmActionLoan, OkBorrowLoan DEF Borrows

\* The book a device reads on a card is the one it knows the card by.
LEMMA CardBookViewKnown ==
    ASSUME TypeOK, NEW d \in Device, NEW k \in Card, CardBookView(d, k) # None
    PROVE  KnowsNow(d, k, CardBookView(d, k))
<1>1. CASE seenCards[d][k].status # "none"
    BY <1>1 DEF CardBookView, KnowsNow, Sees
<1>2. CASE seenCards[d][k].status = "none"
    <2> DEFINE I == {i \in 1 .. Len(queue[d]) :
                        queue[d][i].op = "add" /\ queue[d][i].card = k}
               j == CHOOSE i \in 1 .. Len(queue[d]) :
                        queue[d][i].op = "add" /\ queue[d][i].card = k
    <2>1. Pending(d, "add", k) /\ CardBookView(d, k) = queue[d][j].book
        BY <1>2 DEF CardBookView
    <2>2. j \in 1 .. Len(queue[d]) /\ queue[d][j].op = "add" /\ queue[d][j].card = k
        BY <2>1 DEF Pending
    <2>3. j \in Nat /\ Kind(queue[d][j]) = "add"
        BY <2>2, LenProperties DEF Kind, TypeOK
    <2>4. AddAt(d, j, k, queue[d][j].book)
        BY <2>2, <2>3 DEF AddAt, At
    <2> HIDE DEF j
    <2> QED BY <2>1, <2>3, <2>4 DEF KnowsNow
<1> QED BY <1>1, <1>2

LEMMA ReturnsLoan ==
    ASSUME Typed, LoanInv, NEW d \in Device, Returns(d)
    PROVE  LoanInv'
<1> USE ConstantsAssumption DEF server, replica, borrowScreen, returnScreen, history
<1>1. ASSUME NEW k \in Card, OpenCard(d, k)
      PROVE  LoanInv'
    <2> DEFINE b == CardBookView(d, k)
    <2>1. b \in Book /\ KnowsNow(d, k, b)
        BY <1>1, CardBookViewType, CardBookViewKnown DEF OpenCard, Typed
    <2>2. /\ UNCHANGED <<queue, cards, seenCards, posted, clean, alert, id>>
          /\ screen[d] = "list"
          /\ \A e \in Device : e # d => screen'[e] = screen[e] /\ current'[e] = current[e]
          /\ screen'[d] = "return" /\ current'[d] = [card |-> k, book |-> b]
        BY <1>1 DEF OpenCard, Typed, TypeOK
    <2>3. \A e \in Device : alert[e] # None => screen[e] = "borrow"
        BY DEF LoanInv, KnownInv, AlertOK
    <2>4. \A e \in Device : screen[e] = "return" =>
             /\ current[e] \in [card : Card, book : Book]
             /\ KnowsNow(e, current[e].card, current[e].book)
        BY DEF LoanInv, KnownInv, CurrentOK, Typed, ScreenOK
    <2> HIDE DEF b
    <2>5. Keeps
        BY <2>1, <2>2, <2>3, <2>4 DEF Keeps
    <2> QED BY <2>5, KeepsLoan
<1>2. ASSUME NEW k \in Card, OpenCardFails(d, k)
      PROVE  LoanInv'
    <2>1. alert[d] = None
        BY <1>2 DEF OpenCardFails, LoanInv, KnownInv, AlertOK
    <2>2. Keeps
        BY <1>2, <2>1, ClosesKeeps DEF OpenCardFails, Stops
    <2> QED BY <2>2, KeepsLoan
<1>3. ASSUME NEW r \in reads[d], CheckAnswer(d, r)
      PROVE  LoanInv'
    <2>1. Keeps
        BY <1>3, StaysKeeps DEF CheckAnswer
    <2> QED BY <2>1, KeepsLoan
<1>4. CASE StatusAction(d)
    <2>1. Keeps
        BY <1>4, StaysKeeps DEF StatusAction
    <2> QED BY <2>1, KeepsLoan
<1>5. CASE LeaveCard(d)
    <2>1. alert[d] = None
        BY <1>5 DEF LeaveCard, LoanInv, KnownInv, AlertOK
    <2>2. Keeps
        BY <1>5, <2>1, ClosesKeeps DEF LeaveCard, Leaves
    <2> QED BY <2>2, KeepsLoan
<1> QED BY <1>1, <1>2, <1>3, <1>4, <1>5, ConfirmReturnLoan DEF Returns

LEMMA CataloguesLoan ==
    ASSUME Typed, LoanInv, NEW d \in Device, Catalogues(d)
    PROVE  LoanInv'
<1> USE ConstantsAssumption DEF server, replica, borrowScreen, returnScreen, history
<1>1. ASSUME NEW b \in Book, NEW q \in Quantity, NEW twin \in BOOLEAN, AddBook(d, b, q, twin)
      PROVE  LoanInv'
    <2>1. Keeps
        BY <1>1, StaysKeeps DEF AddBook
    <2> QED BY <2>1, KeepsLoan
<1>2. ASSUME NEW known \in BOOLEAN, AddStudent(d, known)
      PROVE  LoanInv'
    <2>1. Keeps
        BY <1>2, StaysKeeps DEF AddStudent
    <2> QED BY <2>1, KeepsLoan
<1>3. ASSUME NEW r \in reads[d], TwinAnswer(d, r)
      PROVE  LoanInv'
    <2>1. Keeps
        BY <1>3, StaysKeeps DEF TwinAnswer
    <2> QED BY <2>1, KeepsLoan
<1>4. CASE AddDecides(d)
    <2> DEFINE w == CheckWrite(adding[d].book, adding[d].quantity, 0, "new", None, 0)
    <2>1. w \in Write /\ Kind(w) = "new" /\ Issue(d, <<w>>)
        <3>1. adding[d].book \in Book /\ adding[d].quantity \in Nat
            BY <1>4 DEF AddDecides, Typed, TypeOK
        <3> QED BY <1>4, <3>1, StockWriteType DEF AddDecides, CheckWrite, Kind
    <2> HIDE DEF w
    <2>2. \A e \in Device, i \in Nat, t \in {"add", "close", "lend", "return"},
             k \in Card, b \in AnyBook :
             At(queue'[e], i, t, k, b) <=> At(queue[e], i, t, k, b)
        BY <2>1, StockIssueAt DEF Typed
    <2>3. Keeps
        BY <1>4, <2>2, StaysKeeps DEF AddDecides
    <2> QED BY <2>3, KeepsLoan
<1>5. CASE AddRefused(d)
    <2>1. Keeps
        BY <1>5, StaysKeeps DEF AddRefused
    <2> QED BY <2>1, KeepsLoan
<1>6. CASE AddDecisionFails(d)
    <2>1. Keeps
        BY <1>6, ClosesKeeps DEF AddDecisionFails, Stops
    <2> QED BY <2>1, KeepsLoan
<1>7. ASSUME NEW b \in Book, NEW q \in Quantity, EditBook(d, b, q)
      PROVE  LoanInv'
    <2> DEFINE doc == BookView(d, b)
               new == IF q < doc.check THEN 0 ELSE q
               w == CheckWrite(b, new, doc.check, "edit", None, doc.check)
    <2>1. w \in Write /\ Kind(w) = "edit" /\ Issue(d, <<w>>)
        <3>1. doc.check \in Int /\ new \in Nat
            BY <1>7, BookViewType DEF EditBook, Complete, BookDoc, Count, Typed
        <3> HIDE DEF doc, new
        <3>2. w \in Write
            BY <3>1, StockWriteType
        <3>3. Kind(w) = "edit"
            BY DEF CheckWrite, Kind
        <3> QED BY <1>7, <3>2, <3>3 DEF EditBook, doc, new
    <2> HIDE DEF w
    <2>2. \A e \in Device, i \in Nat, t \in {"add", "close", "lend", "return"},
             k \in Card, c \in AnyBook :
             At(queue'[e], i, t, k, c) <=> At(queue[e], i, t, k, c)
        BY <2>1, StockIssueAt DEF Typed
    <2>3. Keeps
        BY <1>7, <2>2, StaysKeeps DEF EditBook
    <2> QED BY <2>3, KeepsLoan
<1> QED BY <1>1, <1>2, <1>3, <1>4, <1>5, <1>6, <1>7 DEF Catalogues

LEMMA LoanInit == Init => LoanInv
<1> SUFFICES ASSUME Init PROVE LoanInv
    OBVIOUS
<1> USE ConstantsAssumption DEF Init
<1>1. \A d \in Device : \A i, t, k, b : ~At(queue[d], i, t, k, b)
    BY DEF At
<1>2. \A d \in Device, k \in Card : \A b : ~Sees(d, k, b) /\ ~CardIs(k, b)
    BY DEF Sees, CardIs
<1>3. KnownInv
    BY <1>1, <1>2 DEF KnownInv, SeenOK, AddsOK, CloseOK, LoanOK, ReturnOK, AlertOK, CurrentOK,
                      AddAt, CloseAt
<1>4. TokenInv
    BY <1>1 DEF TokenInv, OneAlert, AlertOrWrite, LentOnce, PostedOK, PostedOnce, LendAt
<1>5. \A k \in Card : \A b : ~BookOf(k, b)
    BY <1>1 DEF BookOf, AddAt, CardIs
<1>6. WayInv
    BY <1>5 DEF WayInv, OpenLends, ClosedReturns, CloseReturns
<1> QED BY <1>3, <1>4, <1>6 DEF LoanInv

LEMMA LoanNext == Typed /\ LoanInv /\ [Next]_vars => LoanInv'
<1> SUFFICES ASSUME Typed, LoanInv, [Next]_vars PROVE LoanInv'
    OBVIOUS
<1> USE DEF server, replica, borrowScreen, returnScreen, history
<1>1. ASSUME NEW d \in Device, Crash(d)
      PROVE  LoanInv'
    <2>1. Keeps
        BY <1>1, ClosesKeeps DEF Crash, Stops
    <2> QED BY <2>1, KeepsLoan
<1>2. ASSUME NEW d \in Device, NEW r \in reads[d], NoAnswer(d, r)
      PROVE  LoanInv'
    <2>1. Keeps
        BY <1>2, StaysKeeps DEF NoAnswer
    <2> QED BY <2>1, KeepsLoan
<1>3. ASSUME NEW d \in Device, NEW b \in Book, SyncBook(d, b)
      PROVE  LoanInv'
    <2>1. Keeps
        BY <1>3, StaysKeeps DEF SyncBook
    <2> QED BY <2>1, KeepsLoan
<1>4. ASSUME NEW d \in Device, Commit(d)
      PROVE  LoanInv'
    <2>1. Pops(d)
        BY <1>4, CommitCardPops, CommitBookPops DEF Commit
    <2> QED BY <2>1, PopsLoan
<1>5. CASE UNCHANGED vars
    <2>1. Keeps
        BY <1>5, StaysKeeps DEF vars
    <2> QED BY <2>1, KeepsLoan
<1> QED BY <1>1, <1>2, <1>3, <1>4, <1>5, BorrowsLoan, ReturnsLoan, CataloguesLoan, SyncCardLoan
        DEF Next, Doing, Replicates

LEMMA LoanInvariant == Spec => [](Typed /\ LoanInv)
<1>1. Init => Typed /\ LoanInv
    BY TypedInit, LoanInit
<1>2. (Typed /\ LoanInv) /\ [Next]_vars => (Typed /\ LoanInv)'
    BY TypedNext, LoanNext
<1> QED BY <1>1, <1>2, PTL DEF Spec

----------------------------------------------------------------------------
(* The theorems.                                                           *)

\* For any number of devices, books and cards: a loan is counted only under
\* the book its card names, and only once the card is on the server.  addCard
\* comes before the counter's write, and Firestore keeps the order.
THEOREM CounterFollowsCardHolds == Spec => []CounterFollowsCard
<1>1. Typed /\ LoanInv => CounterFollowsCard
    BY DEF Typed, TypeOK, LoanInv, TokenInv, PostedOK, CardIs, CounterFollowsCard
<1> QED BY <1>1, LoanInvariant, PTL

\* The writes under way of the invariant are those of the property.
LEMMA WaysUnderWay ==
    ASSUME TypeOK, NEW k \in Card
    PROVE  (Lending(k) => LendUnderWay(k)) /\ (Returning(k) => ReturnUnderWay(k))
<1>1. ASSUME NEW d \in Device, NEW i \in Nat, NEW t \in {"lend", "return"}, NEW b \in Book,
             At(queue[d], i, t, k, b)
      PROVE  /\ i \in 1 .. Len(queue[d])
             /\ queue[d][i].op = "book" /\ queue[d][i].why = t /\ queue[d][i].card = k
    <2>1. i \in 1 .. Len(queue[d]) /\ Kind(queue[d][i]) = t /\ queue[d][i].card = k
        BY <1>1 DEF At
    <2>2. queue[d][i].op = "book"
        BY <2>1, WriteAt, CardWriteIs DEF Kind, CardWrite
    <2> QED BY <2>1, <2>2 DEF Kind
<1>2. Lending(k) => LendUnderWay(k)
    BY <1>1 DEF Lending, LendAt, LendUnderWay
<1>3. Returning(k) => ReturnUnderWay(k)
    BY <1>1 DEF Returning, ReturnUnderWay
<1> QED BY <1>2, <1>3

LEMMA LoanInvAccounts == Typed /\ LoanInv => LoansAccounted
<1> SUFFICES ASSUME Typed, LoanInv, NEW b \in Book, clean[b], NEW k \in Card
             PROVE  /\ k \in OnLoan(b) \ posted[b] => LendUnderWay(k)
                    /\ k \in posted[b] \ OnLoan(b) => ReturnUnderWay(k)
    BY DEF LoansAccounted, OnLoan, Typed, TypeOK
<1>1. ASSUME k \in OnLoan(b) \ posted[b]
      PROVE  LendUnderWay(k)
    <2>1. BookOf(k, b) /\ cards[k].status # "closed" /\ k \notin posted[b]
        BY <1>1 DEF OnLoan, BookOf, CardIs
    <2>2. Lending(k)
        BY <2>1 DEF LoanInv, WayInv, OpenLends
    <2> QED BY <2>2, WaysUnderWay DEF Typed
<1>2. ASSUME k \in posted[b] \ OnLoan(b)
      PROVE  ReturnUnderWay(k)
    <2>1. CardIs(k, b)
        BY <1>2 DEF LoanInv, TokenInv, PostedOK
    <2>2. BookOf(k, b) /\ cards[k].status = "closed"
        BY <1>2, <2>1 DEF OnLoan, BookOf, CardIs, Typed, TypeOK, CardDoc, Status
    <2>3. Returning(k)
        BY <1>2, <2>2 DEF LoanInv, WayInv, ClosedReturns
    <2> QED BY <2>3, WaysUnderWay DEF Typed
<1> QED BY <1>1, <1>2

\* While the counter of a book has not drifted, an open card that is not
\* counted has its +1 under way (an alert waiting for OK, or a write), and a
\* card that is counted and no longer open has its -1 under way.
THEOREM LoansAccountedHolds == Spec => []LoansAccounted
BY LoanInvariant, LoanInvAccounts, PTL

\* When all is settled, the loans a counter that has not drifted stands for are
\* the open cards of its book.
LEMMA SettledLoans ==
    ASSUME Typed, LoansAccounted, Settled, NEW b \in Book, clean[b]
    PROVE  posted[b] = OnLoan(b)
<1>1. \A k \in Card : ~LendUnderWay(k) /\ ~ReturnUnderWay(k)
    <2>1. \A d \in Device : alert[d] = None /\ Len(queue[d]) = 0
        BY DEF Settled
    <2> QED BY <2>1, ConstantsAssumption DEF LendUnderWay, ReturnUnderWay
<1>2. posted[b] \subseteq Card /\ OnLoan(b) \subseteq Card
    BY DEF Typed, TypeOK, OnLoan
<1> QED BY <1>1, <1>2 DEF LoansAccounted

\* When no alert waits and no write is queued, the counter of a book that has
\* not drifted is the number of its open cards: the sum of LedgerExact and
\* LoansAccounted.
THEOREM SettledExactHolds == Spec => []SettledExact
<1>1. ASSUME Typed, LoansAccounted, LedgerExact
      PROVE  SettledExact
    <2> SUFFICES ASSUME Settled, NEW b \in Book, clean[b], books[b].check # None
                 PROVE  books[b].check = Cardinality(OnLoan(b))
        BY DEF SettledExact
    <2>1. posted[b] = OnLoan(b)
        BY <1>1, SettledLoans
    <2> QED BY <1>1, <2>1 DEF LedgerExact
<1> QED BY <1>1, LoanInvariant, LoansAccountedHolds, LedgerExactHolds, PTL
----------------------------------------------------------------------------
(* The cards implement the ledger.                                         *)

\* The refinement mapping of LedgerOfCards.
Loan == [k \in Card |-> cards[k].status]
Of   == [k \in Card |-> cards[k].book]

\* A write to a card that reaches the server issues a new card, returns an open
\* one, or closes one closed before.
LEMMA CommitCardLedger ==
    ASSUME Typed, LoanInv, NEW d \in Device, Commit(d), CommitCard(d, Head(queue[d]))
    PROVE  LedgerOfCards!Next \/ UNCHANGED <<Loan, Of>>
<1> USE ConstantsAssumption
<1> DEFINE w == Head(queue[d])
<1>1. w \in CardWrite
    BY CommitAt, CardWriteIs DEF CommitCard
<1>2. PICK k \in Card, c \in AnyBook :
         /\ w.card = k /\ w.book = c /\ Kind(w) = w.op /\ w.op \in {"add", "close"}
         /\ w.op = "close" => c = None
    BY <1>1 DEF CardWrite, Kind, AnyBook
<1>3. At(queue[d], 1, w.op, k, c)
    <2>1. \A t, l, b : At(queue[d], 1, t, l, b) <=> Kind(w) = t /\ w.card = l /\ w.book = b
        BY CommitAt
    <2> HIDE DEF w
    <2> QED BY <1>2, <2>1
<1>4. /\ \A l \in Card : l # k => cards'[l] = cards[l]
      /\ cards' = [l \in Card |-> cards'[l]]
      /\ w.op = "add" => cards'[k] = [status |-> "open", book |-> c]
      /\ w.op = "close" => cards'[k] = [cards[k] EXCEPT !.status = "closed"]
    <2> HIDE DEF w
    <2> QED BY <1>2 DEF CommitCard, Typed, TypeOK, w
<1> HIDE DEF w
<1>5. cards \in [Card -> CardDoc] /\ cards[k] \in CardDoc
    BY DEF Typed, TypeOK
<1>6. CASE w.op = "add"
    <2>1. cards[k].status = "none"
        <3>1. AddAt(d, 1, k, c)
            BY <1>3, <1>6 DEF AddAt
        <3> QED BY <3>1 DEF LoanInv, KnownInv, AddsOK
    <2>2. /\ cards'[k].status = "open" /\ cards'[k].book = c
        BY <1>4, <1>6
    <2>3. LedgerOfCards!Lend(k, c)
        BY <1>4, <1>5, <2>1, <2>2 DEF LedgerOfCards!Lend
    <2> QED BY <2>3 DEF LedgerOfCards!Next, AnyBook
<1>7. CASE w.op = "close"
    <2>1. cards[k].status # "none"
        <3>1. CloseAt(d, 1, k)
            BY <1>2, <1>3, <1>7 DEF CloseAt
        <3>2. PICK b \in Book : Knows(d, k, b, 1)
            BY <3>1 DEF LoanInv, KnownInv, CloseOK
        <3>3. \A j \in Nat : j < 1 => ~AddAt(d, j, k, b)
            <4>1. \A j \in Nat : AddAt(d, j, k, b) => 1 <= j
                BY AtPlace DEF AddAt, Typed
            <4> QED BY <4>1
        <3>4. Sees(d, k, b)
            BY <3>2, <3>3 DEF Knows
        <3> QED BY <3>4 DEF LoanInv, KnownInv, SeenOK, AnyBook, CardIs
    <2>2. cards'[k].status = "closed" /\ cards'[k].book = cards[k].book
        BY <1>4, <1>5, <1>7 DEF CardDoc
    <2>3. Of' = Of
        BY <1>4, <2>2 DEF Of
    <2>4. CASE cards[k].status = "open"
        <3>1. LedgerOfCards!Return(k)
            BY <1>4, <1>5, <2>2, <2>3, <2>4 DEF LedgerOfCards!Return, Of
        <3> QED BY <3>1 DEF LedgerOfCards!Next
    <2>5. CASE cards[k].status = "closed"
        BY <1>4, <2>2, <2>3, <2>5 DEF Loan
    <2> QED BY <1>5, <2>1, <2>4, <2>5 DEF CardDoc, Status
<1> QED BY <1>2, <1>6, <1>7

\* No other step touches a card on the server.
LEMMA OthersLedger ==
    ASSUME [Next]_vars, ~ \E d \in Device : Commit(d) /\ CommitCard(d, Head(queue[d]))
    PROVE  cards' = cards
<1> USE DEF server, replica
<1>1. ASSUME NEW d \in Device, Replicates(d)
      PROVE  cards' = cards
    BY <1>1, Zenon DEF Replicates, Commit, CommitBook, SyncBook, SyncCard, NoAnswer
<1>2. ASSUME NEW d \in Device, Borrows(d)
      PROVE  cards' = cards
    BY <1>2 DEF Borrows, OpenBorrow, BookIDAction, BookAnswer, PartialAnswer,
                ConfirmAction, OkBorrow, OkBorrowFails, CancelBorrow, Stops
<1>3. ASSUME NEW d \in Device, Returns(d)
      PROVE  cards' = cards
    BY <1>3 DEF Returns, OpenCard, OpenCardFails, CheckAnswer, StatusAction,
                ConfirmReturn, ConfirmReturnFails, LeaveCard, Stops
<1>4. ASSUME NEW d \in Device, Catalogues(d)
      PROVE  cards' = cards
    BY <1>4 DEF Catalogues, AddBook, AddStudent, TwinAnswer, AddDecides, AddRefused,
                AddDecisionFails, EditBook, Stops
<1>5. ASSUME NEW d \in Device, Crash(d)
      PROVE  cards' = cards
    BY <1>5 DEF Crash, Stops
<1>6. CASE UNCHANGED vars
    BY <1>6 DEF vars
<1> QED BY <1>1, <1>2, <1>3, <1>4, <1>5, <1>6 DEF Next, Doing

\* Cards of any number, lent and returned by any number of devices that are
\* killed at any time, are issued once, keep their book, and once returned are
\* never on loan again.
THEOREM ImplementsLedgerHolds == Spec => ImplementsLedger
<1>1. Init => LedgerOfCards!Init
    BY DEF Init, LedgerOfCards!Init
<1>2. Typed /\ LoanInv /\ [Next]_vars =>
          [LedgerOfCards!Next]_<<Loan, Of>>
    BY CommitCardLedger, OthersLedger DEF Loan, Of
<1> QED BY <1>1, <1>2, LoanInvariant, PTL
        DEF Spec, ImplementsLedger, LedgerOfCards!Spec, Loan, Of
----------------------------------------------------------------------------
(* Counters are not made up.                                               *)

\* No counter, seen counter, key or counter write is more than m.
BooksAtMost(m) ==
    /\ \A b \in Book : books[b].check # None => books[b].check <= m
    /\ \A d \in Device, b \in Book :
          seenBooks[d][b].check # None => seenBooks[d][b].check <= m
KeysAtMost(m) == \A d \in Device : check[d] # None => check[d] <= m
SmallWrite(w, m) == w.op = "book" => w.check <= m
WritesAtMost(m) ==
    \A d \in Device : \A i \in 1 .. Len(queue[d]) : SmallWrite(queue[d][i], m)
AtMost(m) == BooksAtMost(m) /\ KeysAtMost(m) /\ WritesAtMost(m)

\* The cards ever added whose alert is gone: each has had its one OK at most.
Done == {k \in Issued : \A d \in Device : alert[d] # k}

\* The inductive invariant: every value a counter is computed from, or will
\* become, is at most one (the "true" of a duplicate check) plus one for each
\* alert gone.
BoundInv == \E m \in Nat : m = Cardinality(Done) + 1 /\ AtMost(m)

\* A step of the screens: the queues are only appended to, and an alert that
\* comes up is for a new card.
Extends ==
    \A e \in Device : \A i \in 1 .. Len(queue[e]) :
        i \in 1 .. Len(queue'[e]) /\ queue'[e][i] = queue[e][i]
AlertsNew ==
    \A k \in Card : (\E e \in Device : alert'[e] = k) =>
        (\E e \in Device : alert[e] = k) \/ k \notin Issued

LEMMA AtMostMore ==
    ASSUME NEW m \in Nat, NEW n \in Nat, m <= n, TypeOK', AtMost(m)'
    PROVE  AtMost(n)'
<1> USE ConstantsAssumption
<1>1. BooksAtMost(n)'
    <2>1. \A b \in Book : books'[b].check \in Int \cup {None}
        BY DEF TypeOK, BookDoc, Count
    <2>2. \A d \in Device, b \in Book : seenBooks'[d][b].check \in Int \cup {None}
        BY DEF TypeOK, BookDoc, Count
    <2> QED BY <2>1, <2>2 DEF AtMost, BooksAtMost
<1>2. KeysAtMost(n)'
    <2>1. \A d \in Device : check'[d] \in Int \cup {None}
        BY DEF TypeOK, Count
    <2> QED BY <2>1 DEF AtMost, KeysAtMost
<1>3. WritesAtMost(n)'
    <2> SUFFICES ASSUME NEW d \in Device, NEW i \in 1 .. Len(queue'[d]),
                        queue'[d][i].op = "book"
                 PROVE  queue'[d][i].check <= n
        BY DEF WritesAtMost, SmallWrite
    <2>1. queue'[d][i] \in Write
        BY ElementOfSeq DEF TypeOK
    <2>2. queue'[d][i].check \in Int
        BY <2>1, BookWriteIs DEF BookWrite, StockWrite, LoanWrite
    <2>3. queue'[d][i].check <= m
        BY DEF AtMost, WritesAtMost, SmallWrite
    <2> QED BY <2>2, <2>3
<1> QED BY <1>1, <1>2, <1>3 DEF AtMost

LEMMA ViewAtMost ==
    ASSUME Typed, NEW m, AtMost(m), NEW d \in Device, NEW b \in Book,
           BookView(d, b).check # None
    PROVE  BookView(d, b).check <= m
<1>1. BookView(d, b).check = FieldView(d, b, "check")
    BY DEF BookView
<1>2. CASE FieldView(d, b, "check") = seenBooks[d][b]["check"]
    BY <1>1, <1>2 DEF AtMost, BooksAtMost
<1>3. ASSUME NEW i \in 1 .. Len(queue[d]), queue[d][i].op = "book",
             FieldView(d, b, "check") = queue[d][i]["check"]
      PROVE  BookView(d, b).check <= m
    BY <1>1, <1>3 DEF AtMost, WritesAtMost, SmallWrite
<1> QED BY <1>2, <1>3, FieldViewIsOne DEF Typed

LEMMA IssueAtMost ==
    ASSUME Typed, NEW m, WritesAtMost(m), NEW d \in Device, NEW w \in Seq(Write),
           Issue(d, w), \A i \in 1 .. Len(w) : SmallWrite(w[i], m)
    PROVE  WritesAtMost(m)' /\ Extends
<1> DEFINE q == queue[d] \o w
           n == Len(queue[d])
<1>1. /\ queue'[d] = q
      /\ \A e \in Device : e # d => queue'[e] = queue[e]
    BY DEF Issue, Typed, TypeOK
<1>2. /\ Len(q) = n + Len(w) /\ n \in Nat /\ Len(w) \in Nat
      /\ \A i \in 1 .. n + Len(w) :
            q[i] = IF i <= n THEN queue[d][i] ELSE w[i - n]
    BY ConcatProperties, LenProperties DEF Typed, TypeOK
<1> HIDE DEF q
<1>3. \A i \in 1 .. n : i \in 1 .. Len(q) /\ q[i] = queue[d][i]
    BY <1>2
<1>4. \A i \in 1 .. Len(q) : SmallWrite(q[i], m)
    <2> TAKE i \in 1 .. Len(q)
    <2>1. CASE i <= n
        <3>1. i \in 1 .. n
            BY <1>2, <2>1
        <3> QED BY <1>3, <3>1 DEF WritesAtMost
    <2>2. CASE ~(i <= n)
        <3>1. i - n \in 1 .. Len(w) /\ q[i] = w[i - n]
            BY <1>2, <2>2
        <3> QED BY <3>1
    <2> QED BY <2>1, <2>2
<1>5. WritesAtMost(m)'
    BY <1>1, <1>4 DEF WritesAtMost
<1>6. Extends
    BY <1>1, <1>3 DEF Extends
<1> QED BY <1>5, <1>6

LEMMA IssueOneAtMost ==
    ASSUME Typed, NEW m, WritesAtMost(m), NEW d \in Device, NEW w \in Write,
           Issue(d, <<w>>), SmallWrite(w, m)
    PROVE  WritesAtMost(m)' /\ Extends
<1>1. <<w>> \in Seq(Write) /\ Len(<<w>>) = 1 /\ <<w>>[1] = w
    OBVIOUS
<1>2. \A i \in 1 .. Len(<<w>>) : SmallWrite(<<w>>[i], m)
    BY <1>1
<1> QED BY <1>1, <1>2, IssueAtMost

\* A step that issues nothing.
LEMMA SilentAtMost ==
    ASSUME NEW m, AtMost(m), UNCHANGED <<books, seenBooks, queue>>, KeysAtMost(m)'
    PROVE  AtMost(m)' /\ Extends
BY DEF AtMost, BooksAtMost, WritesAtMost, Extends

\* A step that issues writes and sets no key.
LEMMA IssuesAtMost ==
    ASSUME NEW m, AtMost(m), UNCHANGED <<books, seenBooks, check>>, WritesAtMost(m)'
    PROVE  AtMost(m)'
BY DEF AtMost, BooksAtMost, KeysAtMost

LEMMA ClosesAlerts ==
    ASSUME Typed, NEW d \in Device, Closes(d)
    PROVE  AlertsNew
BY ConstantsAssumption DEF Closes, Typed, TypeOK, AlertsNew

LEMMA KeepsKeys ==
    ASSUME NEW m, AtMost(m), check' = check
    PROVE  KeysAtMost(m)'
BY DEF AtMost, KeysAtMost

\* One key is set.
LEMMA SetsKey ==
    ASSUME Typed, NEW m, AtMost(m), NEW d \in Device, NEW n,
           check' = [check EXCEPT ![d] = n], n # None => n <= m
    PROVE  KeysAtMost(m)'
<1>1. \A e \in Device : check'[e] = IF e = d THEN n ELSE check[e]
    BY DEF Typed, TypeOK
<1> QED BY <1>1 DEF AtMost, KeysAtMost

\* The borrow screen makes no value larger, but for the OK that adds one.
LEMMA BorrowsAtMost ==
    ASSUME Typed, NEW m \in Nat, AtMost(m), NEW d \in Device, Borrows(d)
    PROVE  /\ AtMost(m)' \/ (OkBorrow(d) /\ AtMost(m + 1)')
           /\ Extends /\ AlertsNew /\ cards' = cards
<1> USE ConstantsAssumption DEF server, replica, returnScreen, borrowScreen, history
<1>1. ASSUME alert' = alert
      PROVE  AlertsNew
    BY <1>1 DEF AlertsNew
<1>2. CASE OpenBorrow(d)
    BY <1>1, <1>2, SilentAtMost, KeepsKeys DEF OpenBorrow
<1>3. ASSUME NEW b \in Book, BookIDAction(d, b)
      PROVE  AtMost(m)' /\ Extends /\ AlertsNew /\ cards' = cards
    BY <1>1, <1>3, SilentAtMost, KeepsKeys DEF BookIDAction
<1>4. ASSUME NEW r \in reads[d], BookAnswer(d, r)
      PROVE  AtMost(m)' /\ Extends /\ AlertsNew /\ cards' = cards
    <2> DEFINE doc == BookView(d, r.book)
    <2>1. r.book \in Book
        BY <1>4 DEF BookAnswer, Typed, TypeOK, Read
    <2>2. doc.check # None => doc.check <= m
        BY <2>1, ViewAtMost
    <2>3. check[d] # None => check[d] <= m
        BY DEF AtMost, KeysAtMost
    <2>4. Answered(d, doc) # None => Answered(d, doc) <= m
        BY <2>2, <2>3 DEF Answered
    <2>5. KeysAtMost(m)'
        <3>1. check' = [check EXCEPT ![d] = Answered(d, doc)]
            BY <1>4 DEF BookAnswer
        <3> HIDE DEF doc
        <3> QED BY <2>4, <3>1, SetsKey
    <2> QED BY <1>1, <1>4, <2>5, SilentAtMost DEF BookAnswer
<1>5. ASSUME NEW r \in reads[d], PartialAnswer(d, r)
      PROVE  AtMost(m)' /\ Extends /\ AlertsNew /\ cards' = cards
    BY <1>5, SilentAtMost, KeepsKeys, ClosesAlerts DEF PartialAnswer, Stops
<1>6. ASSUME NEW k \in Card, ConfirmAction(d, k)
      PROVE  AtMost(m)' /\ Extends /\ AlertsNew /\ cards' = cards
    <2>1. AddWrite(k, id[d]) \in Write /\ SmallWrite(AddWrite(k, id[d]), m)
        BY AddWriteType DEF Typed, TypeOK, AddWrite, SmallWrite
    <2>2. WritesAtMost(m)' /\ Extends
        BY <1>6, <2>1, IssueOneAtMost DEF ConfirmAction, AtMost
    <2>3. k \notin Issued
        BY <1>6 DEF ConfirmAction, Issued
    <2>4. AlertsNew
        BY <1>6, <2>3 DEF ConfirmAction, AlertsNew, Typed, TypeOK
    <2> QED BY <1>6, <2>2, <2>4, IssuesAtMost DEF ConfirmAction
<1>7. CASE OkBorrow(d)
    <2>1. check[d] \in Int /\ id[d] \in Book /\ alert[d] \in Card /\ check[d] <= m
        BY <1>7 DEF OkBorrow, Typed, TypeOK, Count, AtMost, KeysAtMost
    <2>2. check[d] + 1 \in Int /\ check[d] + 1 <= m + 1
        BY <2>1
    <2>3. LendWrite(d) \in Write /\ SmallWrite(LendWrite(d), m + 1)
        BY <2>1, <2>2, LoanWriteType DEF LendWrite, SmallWrite, CheckWrite
    <2>4. AtMost(m + 1)
        <3>1. BooksAtMost(m + 1)
            <4>1. \A b \in Book : books[b].check \in Int \cup {None}
                BY DEF Typed, TypeOK, BookDoc, Count
            <4>2. \A e \in Device, b \in Book : seenBooks[e][b].check \in Int \cup {None}
                BY DEF Typed, TypeOK, BookDoc, Count
            <4> QED BY <4>1, <4>2 DEF AtMost, BooksAtMost
        <3>2. KeysAtMost(m + 1)
            <4>1. \A e \in Device : check[e] \in Int \cup {None}
                BY DEF Typed, TypeOK, Count
            <4> QED BY <4>1 DEF AtMost, KeysAtMost
        <3>3. WritesAtMost(m + 1)
            <4> SUFFICES ASSUME NEW e \in Device, NEW i \in 1 .. Len(queue[e]),
                                queue[e][i].op = "book"
                         PROVE  queue[e][i].check <= m + 1
                BY DEF WritesAtMost, SmallWrite
            <4>1. queue[e][i].check \in Int
                BY WriteAt, BookWriteIs DEF Typed, BookWrite, StockWrite, LoanWrite
            <4>2. queue[e][i].check <= m
                BY DEF AtMost, WritesAtMost, SmallWrite
            <4> QED BY <4>1, <4>2
        <3> QED BY <3>1, <3>2, <3>3 DEF AtMost
    <2>5. WritesAtMost(m + 1)' /\ Extends
        BY <1>7, <2>3, <2>4, IssueOneAtMost DEF OkBorrow, AtMost
    <2>6. AtMost(m + 1)'
        BY <1>7, <2>4, <2>5, IssuesAtMost DEF OkBorrow
    <2> QED BY <1>7, <2>5, <2>6, ClosesAlerts DEF OkBorrow, Leaves
<1>8. CASE OkBorrowFails(d)
    BY <1>8, SilentAtMost, KeepsKeys, ClosesAlerts DEF OkBorrowFails, Stops
<1>9. CASE CancelBorrow(d)
    BY <1>9, SilentAtMost, KeepsKeys, ClosesAlerts DEF CancelBorrow, Leaves
<1> QED BY <1>2, <1>3, <1>4, <1>5, <1>6, <1>7, <1>8, <1>9 DEF Borrows

\* The return screen makes no value larger.
LEMMA ReturnsAtMost ==
    ASSUME Typed, NEW m \in Nat, AtMost(m), NEW d \in Device, Returns(d)
    PROVE  AtMost(m)' /\ Extends /\ AlertsNew /\ cards' = cards
<1> USE ConstantsAssumption DEF server, replica, returnScreen, borrowScreen, history
<1>1. ASSUME alert' = alert
      PROVE  AlertsNew
    BY <1>1 DEF AlertsNew
<1>2. ASSUME NEW k \in Card, OpenCard(d, k)
      PROVE  AtMost(m)' /\ Extends /\ AlertsNew /\ cards' = cards
    BY <1>1, <1>2, SilentAtMost, KeepsKeys DEF OpenCard
<1>3. ASSUME NEW k \in Card, OpenCardFails(d, k)
      PROVE  AtMost(m)' /\ Extends /\ AlertsNew /\ cards' = cards
    BY <1>3, SilentAtMost, KeepsKeys, ClosesAlerts DEF OpenCardFails, Stops
<1>4. ASSUME NEW r \in reads[d], CheckAnswer(d, r)
      PROVE  AtMost(m)' /\ Extends /\ AlertsNew /\ cards' = cards
    <2> DEFINE n == BookView(d, r.book).check
    <2>1. r.book \in Book
        BY <1>4 DEF CheckAnswer, Typed, TypeOK, Read
    <2>2. n # None => n <= m
        BY <2>1, ViewAtMost
    <2>3. check' = [check EXCEPT ![d] = n]
        BY <1>4 DEF CheckAnswer
    <2>4. KeysAtMost(m)'
        <3> HIDE DEF n
        <3> QED BY <2>2, <2>3, SetsKey
    <2> QED BY <1>1, <1>4, <2>4, SilentAtMost DEF CheckAnswer
<1>5. CASE StatusAction(d)
    BY <1>1, <1>5, SilentAtMost, KeepsKeys DEF StatusAction
<1>6. ASSUME screen[d] = "return"
      PROVE  current[d].card \in Card /\ current[d].book \in Book
    BY <1>6 DEF Typed, ScreenOK
<1>7. CASE ConfirmReturn(d)
    <2> DEFINE c == CloseWrite(current[d].card)
               w == CheckWrite(current[d].book, None, check[d] - 1, "return",
                               current[d].card, check[d])
    <2>1. check[d] \in Int /\ check[d] - 1 \in Int /\ check[d] - 1 <= m
        BY <1>7 DEF ConfirmReturn, Typed, TypeOK, Count, AtMost, KeysAtMost
    <2>2. c \in Write /\ w \in Write
        BY <1>6, <1>7, <2>1, LoanWriteType, CloseWriteType DEF ConfirmReturn
    <2>3. SmallWrite(c, m) /\ SmallWrite(w, m)
        BY <2>1 DEF SmallWrite, CloseWrite, CheckWrite
    <2>4. Issue(d, <<c, w>>)
        BY <1>7 DEF ConfirmReturn, ReturnWrites
    <2>5. WritesAtMost(m)' /\ Extends
        <3> HIDE DEF c, w
        <3>1. <<c, w>> \in Seq(Write)
            BY <2>2
        <3>2. \A i \in 1 .. Len(<<c, w>>) : SmallWrite(<<c, w>>[i], m)
            BY <2>3
        <3> QED BY <2>4, <3>1, <3>2, IssueAtMost DEF AtMost
    <2> QED BY <1>7, <2>5, IssuesAtMost, ClosesAlerts DEF ConfirmReturn, Leaves
<1>8. CASE ConfirmReturnFails(d)
    <2> DEFINE c == CloseWrite(current[d].card)
    <2>1. c \in Write /\ SmallWrite(c, m)
        BY <1>6, <1>8, CloseWriteType DEF ConfirmReturnFails, SmallWrite, CloseWrite
    <2>2. WritesAtMost(m)' /\ Extends
        BY <1>8, <2>1, IssueOneAtMost DEF ConfirmReturnFails, AtMost
    <2> QED BY <1>8, <2>2, IssuesAtMost, ClosesAlerts DEF ConfirmReturnFails, Stops
<1>9. CASE LeaveCard(d)
    BY <1>9, SilentAtMost, KeepsKeys, ClosesAlerts DEF LeaveCard, Leaves
<1> QED BY <1>2, <1>3, <1>4, <1>5, <1>7, <1>8, <1>9 DEF Returns

LEMMA NewBookWrite ==
    ASSUME Typed, NEW d \in Device, adding[d] # None
    PROVE  CheckWrite(adding[d].book, adding[d].quantity, 0, "new", None, 0) \in Write
<1>1. adding[d] \in [book : Book, quantity : Quantity, twin : BOOLEAN]
    BY DEF Typed, TypeOK
<1>2. adding[d].book \in Book /\ adding[d].quantity \in Nat
    BY <1>1, ConstantsAssumption
<1> QED BY <1>2, StockWriteType

\* The screens that add and edit make no value larger, but for the "true" of a
\* duplicate check.
LEMMA CataloguesAtMost ==
    ASSUME Typed, NEW m \in Nat, 1 <= m, AtMost(m), NEW d \in Device, Catalogues(d)
    PROVE  AtMost(m)' /\ Extends /\ AlertsNew /\ cards' = cards
<1> USE ConstantsAssumption DEF server, replica, returnScreen, borrowScreen, history
<1>1. ASSUME alert' = alert
      PROVE  AlertsNew
    BY <1>1 DEF AlertsNew
<1>2. ASSUME \A e \in Device : check'[e] \in {check[e], 0, 1}
      PROVE  KeysAtMost(m)'
    <2>1. 0 <= m
        OBVIOUS
    <2> QED BY <1>2, <2>1 DEF AtMost, KeysAtMost
<1>3. ASSUME NEW b \in Book, NEW q \in Quantity, NEW twin \in BOOLEAN, AddBook(d, b, q, twin)
      PROVE  AtMost(m)' /\ Extends /\ AlertsNew /\ cards' = cards
    <2>1. \A e \in Device : check'[e] \in {check[e], 0}
        BY <1>3 DEF AddBook, Typed, TypeOK
    <2>2. KeysAtMost(m)'
        BY <1>2, <2>1
    <2> QED BY <1>1, <1>3, <2>2, SilentAtMost DEF AddBook
<1>4. ASSUME NEW known \in BOOLEAN, AddStudent(d, known)
      PROVE  AtMost(m)' /\ Extends /\ AlertsNew /\ cards' = cards
    <2>1. \A e \in Device : check'[e] \in {check[e], 0}
        BY <1>4 DEF AddStudent, Typed, TypeOK
    <2>2. KeysAtMost(m)'
        BY <1>2, <2>1
    <2> QED BY <1>1, <1>4, <2>2, SilentAtMost DEF AddStudent
<1>5. ASSUME NEW r \in reads[d], TwinAnswer(d, r)
      PROVE  AtMost(m)' /\ Extends /\ AlertsNew /\ cards' = cards
    <2>1. \A e \in Device : check'[e] \in {check[e], 1}
        BY <1>5 DEF TwinAnswer, Typed, TypeOK
    <2>2. KeysAtMost(m)'
        BY <1>2, <2>1
    <2> QED BY <1>1, <1>5, <2>2, SilentAtMost DEF TwinAnswer
<1>6. CASE AddDecides(d)
    <2> DEFINE w == CheckWrite(adding[d].book, adding[d].quantity, 0, "new", None, 0)
    <2>1. w \in Write
        BY <1>6, NewBookWrite DEF AddDecides
    <2>2. 0 <= m
        OBVIOUS
    <2>3. SmallWrite(w, m)
        BY <2>2 DEF SmallWrite, CheckWrite
    <2>4. Issue(d, <<w>>)
        BY <1>6 DEF AddDecides
    <2>5. WritesAtMost(m)' /\ Extends
        <3> HIDE DEF w
        <3> QED BY <2>1, <2>3, <2>4, IssueOneAtMost DEF AtMost
    <2> QED BY <1>1, <1>6, <2>5, IssuesAtMost DEF AddDecides
<1>7. CASE AddRefused(d)
    BY <1>1, <1>7, SilentAtMost, KeepsKeys DEF AddRefused
<1>8. CASE AddDecisionFails(d)
    BY <1>8, SilentAtMost, KeepsKeys, ClosesAlerts DEF AddDecisionFails, Stops
<1>9. ASSUME NEW b \in Book, NEW q \in Quantity, EditBook(d, b, q)
      PROVE  AtMost(m)' /\ Extends /\ AlertsNew /\ cards' = cards
    <2> DEFINE doc == BookView(d, b)
               new == IF q < doc.check THEN 0 ELSE q
               w == CheckWrite(b, new, doc.check, "edit", None, doc.check)
    <2>1. doc.check \in Int
        BY <1>9, BookViewType DEF EditBook, Complete, Typed, BookDoc, Count
    <2>2. doc.check <= m
        BY <2>1, ViewAtMost
    <2>3. w \in Write
        <3>1. new \in Nat
            OBVIOUS
        <3> HIDE DEF doc, new
        <3> QED BY <2>1, <3>1, StockWriteType
    <2>4. SmallWrite(w, m)
        <3> HIDE DEF doc, new
        <3> QED BY <2>2 DEF SmallWrite, CheckWrite
    <2>5. Issue(d, <<w>>)
        BY <1>9 DEF EditBook
    <2>6. WritesAtMost(m)' /\ Extends
        <3> HIDE DEF w
        <3> QED BY <2>3, <2>4, <2>5, IssueOneAtMost DEF AtMost
    <2> QED BY <1>1, <1>9, <2>6, IssuesAtMost DEF EditBook
<1> QED BY <1>3, <1>4, <1>5, <1>6, <1>7, <1>8, <1>9 DEF Catalogues

\* The server's step moves one write into a counter.
LEMMA CommitAtMost ==
    ASSUME Typed, NEW m \in Nat, AtMost(m), NEW d \in Device, Commit(d)
    PROVE  AtMost(m)'
<1> DEFINE w == Head(queue[d])
<1>1. 1 \in 1 .. Len(queue[d]) /\ w = queue[d][1] /\ w \in Write
    BY CommitQueue
<1>2. SmallWrite(w, m)
    BY <1>1 DEF AtMost, WritesAtMost
<1>3. WritesAtMost(m)'
    <2> SUFFICES ASSUME NEW e \in Device, NEW i \in 1 .. Len(queue'[e])
                 PROVE  SmallWrite(queue'[e][i], m)
        BY DEF WritesAtMost, SmallWrite
    <2>1. CASE e # d
        BY <2>1, CommitQueue DEF AtMost, WritesAtMost
    <2>2. CASE e = d
        <3>1. /\ Len(queue[d]) \in Nat /\ Len(queue'[d]) = Len(queue[d]) - 1
              /\ queue'[d][i] = queue[d][i + 1]
            BY <2>2, CommitQueue
        <3>2. i + 1 \in 1 .. Len(queue[d])
            BY <2>2, <3>1
        <3> QED BY <2>2, <3>1, <3>2 DEF AtMost, WritesAtMost
    <2> QED BY <2>1, <2>2
<1>4. KeysAtMost(m)'
    BY KeepsKeys DEF Commit
<1>5. BooksAtMost(m)'
    <2>1. CASE CommitCard(d, w)
        BY <2>1 DEF CommitCard, AtMost, BooksAtMost
    <2>2. CASE CommitBook(d, w)
        <3>1. w.book \in Book /\ w.check <= m
            BY <1>1, <1>2, <2>2, BookWriteIs
               DEF CommitBook, SmallWrite, BookWrite, StockWrite, LoanWrite
        <3> HIDE DEF w
        <3>2. /\ \A b \in Book : books'[b].check =
                    IF b = w.book THEN w.check ELSE books[b].check
              /\ \A e \in Device, b \in Book : seenBooks'[e][b].check =
                    IF e = d /\ b = w.book THEN w.check ELSE seenBooks[e][b].check
            BY <2>2, <3>1 DEF CommitBook, Merge, Typed, TypeOK
        <3> QED BY <3>1, <3>2 DEF AtMost, BooksAtMost
    <2> QED BY <2>1, <2>2 DEF Commit
<1> QED BY <1>3, <1>4, <1>5 DEF AtMost

\* A card once added stays so: its add waits in a queue or has made the card.
LEMMA CommitIssued ==
    ASSUME Typed, NEW d \in Device, Commit(d)
    PROVE  Issued \subseteq Issued'
<1> USE ConstantsAssumption
<1> DEFINE w == Head(queue[d])
<1>1. ASSUME NEW k \in Card, cards[k].status # "none"
      PROVE  cards'[k].status # "none"
    <2>1. CASE CommitBook(d, w)
        BY <1>1, <2>1 DEF CommitBook
    <2>2. CASE CommitCard(d, w)
        <3> HIDE DEF w
        <3>1. \/ cards'[k] = cards[k]
              \/ cards'[k] = [cards[k] EXCEPT !.status = "closed"]
              \/ cards'[k] = [status |-> "open", book |-> w.book]
            BY <2>2 DEF CommitCard, Typed, TypeOK
        <3>2. cards[k] \in CardDoc
            BY DEF Typed, TypeOK
        <3> QED BY <1>1, <3>1, <3>2 DEF CardDoc
    <2> QED BY <2>1, <2>2 DEF Commit
<1>2. ASSUME NEW k \in Card, NEW e \in Device, NEW i \in 1 .. Len(queue[e]),
             queue[e][i].op = "add", queue[e][i].card = k
      PROVE  k \in Issued'
    <2>1. CASE e # d
        BY <1>2, <2>1, CommitQueue DEF Issued, Pending
    <2>2. CASE e = d /\ i # 1
        <3>1. /\ Len(queue[d]) \in Nat /\ Len(queue'[d]) = Len(queue[d]) - 1
              /\ \A j \in 1 .. Len(queue'[d]) : queue'[d][j] = queue[d][j + 1]
            BY CommitQueue
        <3>2. i - 1 \in 1 .. Len(queue'[d]) /\ (i - 1) + 1 = i
            BY <2>2, <3>1
        <3>3. queue'[d][i - 1] = queue[d][i]
            BY <3>1, <3>2
        <3> QED BY <1>2, <2>2, <3>2, <3>3 DEF Issued, Pending
    <2>3. CASE e = d /\ i = 1
        <3>1. w.op = "add" /\ w.card = k
            BY <1>2, <2>3, CommitQueue
        <3>2. CommitCard(d, w)
            BY <3>1 DEF Commit, CommitBook
        <3> HIDE DEF w
        <3>3. cards'[k].status = "open"
            BY <3>1, <3>2 DEF CommitCard, Typed, TypeOK
        <3> QED BY <3>3 DEF Issued
    <2> QED BY <2>1, <2>2, <2>3
<1> QED BY <1>1, <1>2 DEF Issued, Pending

LEMMA ExtendsIssued ==
    ASSUME Extends, cards' = cards
    PROVE  Issued \subseteq Issued'
<1>1. ASSUME NEW k \in Card, NEW e \in Device, Pending(e, "add", k)
      PROVE  Pending(e, "add", k)'
    BY <1>1 DEF Pending, Extends
<1> QED BY <1>1 DEF Issued

\* A card whose alert is gone never gets another.
LEMMA DoneStays ==
    ASSUME Issued \subseteq Issued', AlertsNew
    PROVE  Done \subseteq Done'
BY DEF Done, AlertsNew, Issued

\* What every step does to the values, and that it forgets no alert gone.
LEMMA StepAtMost ==
    ASSUME Typed, NEW m \in Nat, 1 <= m, AtMost(m), [Next]_vars
    PROVE  /\ AtMost(m)' \/ \E d \in Device : OkBorrow(d) /\ AtMost(m + 1)'
           /\ Done \subseteq Done'
<1> USE DEF server, replica, borrowScreen, returnScreen, history
<1>1. ASSUME AtMost(m)' /\ Extends /\ AlertsNew /\ cards' = cards
      PROVE  AtMost(m)' /\ Done \subseteq Done'
    BY <1>1, ExtendsIssued, DoneStays
<1>2. ASSUME NEW d \in Device, Borrows(d)
      PROVE  /\ AtMost(m)' \/ (OkBorrow(d) /\ AtMost(m + 1)')
             /\ Done \subseteq Done'
    BY <1>2, BorrowsAtMost, ExtendsIssued, DoneStays
<1>3. ASSUME NEW d \in Device, Returns(d) \/ Catalogues(d)
      PROVE  AtMost(m)' /\ Done \subseteq Done'
    BY <1>1, <1>3, ReturnsAtMost, CataloguesAtMost
<1>4. ASSUME NEW d \in Device, Crash(d)
      PROVE  AtMost(m)' /\ Done \subseteq Done'
    BY <1>1, <1>4, SilentAtMost, KeepsKeys, ClosesAlerts DEF Crash, Stops
<1>5. ASSUME alert' = alert
      PROVE  AlertsNew
    BY <1>5 DEF AlertsNew
<1>6. ASSUME NEW d \in Device, NEW r \in reads[d], NoAnswer(d, r)
      PROVE  AtMost(m)' /\ Done \subseteq Done'
    BY <1>1, <1>5, <1>6, SilentAtMost, KeepsKeys DEF NoAnswer
<1>7. ASSUME NEW d \in Device, Commit(d)
      PROVE  AtMost(m)' /\ Done \subseteq Done'
    <2>1. AlertsNew
        BY <1>5, <1>7 DEF Commit
    <2> QED BY <1>7, <2>1, CommitAtMost, CommitIssued, DoneStays
<1>8. ASSUME UNCHANGED <<books, cards, queue, check, alert>>, BooksAtMost(m)'
      PROVE  AtMost(m)' /\ Done \subseteq Done'
    <2>1. WritesAtMost(m)' /\ Extends
        BY <1>8 DEF AtMost, WritesAtMost, Extends
    <2> QED BY <1>1, <1>5, <1>8, <2>1, KeepsKeys DEF AtMost
<1>9. ASSUME NEW d \in Device, NEW b \in Book, SyncBook(d, b)
      PROVE  AtMost(m)' /\ Done \subseteq Done'
    <2>1. \A e \in Device, c \in Book : seenBooks'[e][c] =
             IF e = d /\ c = b THEN books[b] ELSE seenBooks[e][c]
        BY <1>9 DEF SyncBook, Typed, TypeOK
    <2>2. books' = books
        BY <1>9 DEF SyncBook
    <2>3. BooksAtMost(m)'
        BY <2>1, <2>2 DEF AtMost, BooksAtMost
    <2> QED BY <1>8, <1>9, <2>3 DEF SyncBook
<1>10. ASSUME NEW d \in Device, NEW k \in Card, SyncCard(d, k)
       PROVE  AtMost(m)' /\ Done \subseteq Done'
    BY <1>8, <1>10 DEF SyncCard, AtMost, BooksAtMost
<1>11. CASE UNCHANGED vars
    BY <1>8, <1>11 DEF vars, AtMost, BooksAtMost
<1> QED BY <1>2, <1>3, <1>4, <1>6, <1>7, <1>9, <1>10, <1>11 DEF Next, Doing, Replicates

LEMMA DoneFinite == IsFiniteSet(Done) /\ Cardinality(Done) \in Nat
<1>1. Done \in SUBSET Card
    BY DEF Done, Issued
<1> QED BY <1>1, FiniteCards, FS_Subset, FS_CardinalityType

LEMMA DoneFiniteNext == IsFiniteSet(Done') /\ Cardinality(Done') \in Nat
<1>1. Done' \in SUBSET Card
    BY DEF Done, Issued
<1> QED BY <1>1, FiniteCards, FS_Subset, FS_CardinalityType

\* The OK of an alert leaves one more alert gone.
LEMMA OkBorrowDone ==
    ASSUME Typed, LoanInv, NEW d \in Device, OkBorrow(d)
    PROVE  alert[d] \in Done' /\ alert[d] \notin Done
<1> USE ConstantsAssumption
<1> DEFINE k == alert[d]
<1>1. k \in Card /\ k # None /\ id[d] \in Book
    BY DEF OkBorrow, Typed, TypeOK
<1>2. /\ cards' = cards
      /\ \A e \in Device : alert'[e] = IF e = d THEN None ELSE alert[e]
    BY DEF OkBorrow, Leaves, Closes, server, Typed, TypeOK
<1>3. Extends
    <2>1. LendWrite(d) \in Write
        <3>1. check[d] \in Int /\ check[d] + 1 \in Int
            BY DEF OkBorrow, Typed, TypeOK, Count
        <3> QED BY <1>1, <3>1, LoanWriteType DEF LendWrite
    <2>2. queue'[d] = queue[d] \o <<LendWrite(d)>> /\ \A e \in Device : e # d => queue'[e] = queue[e]
        BY DEF OkBorrow, Issue, Typed, TypeOK
    <2>3. /\ Len(queue'[d]) = Len(queue[d]) + 1 /\ Len(queue[d]) \in Nat
          /\ \A i \in 1 .. Len(queue[d]) : queue'[d][i] = queue[d][i]
        BY <2>1, <2>2, ConcatProperties, LenProperties DEF Typed, TypeOK
    <2> QED BY <2>2, <2>3 DEF Extends
<1>4. k \in Issued
    <2>1. BookOf(k, id[d])
        BY <1>1, KnowsBookOf DEF LoanInv, KnownInv, AlertOK, AnyBook
    <2>2. cards[k].status # "none" \/ \E e \in Device : Pending(e, "add", k)
        BY <1>1, <2>1, NewCard DEF Typed, AnyBook
    <2> QED BY <1>1, <2>2 DEF Issued
<1>5. k \in Issued'
    BY <1>2, <1>3, <1>4, ExtendsIssued
<1>6. \A e \in Device : alert'[e] # k
    BY <1>1, <1>2 DEF LoanInv, TokenInv, OneAlert
<1> QED BY <1>1, <1>5, <1>6 DEF Done

LEMMA BoundInit == Init => BoundInv
<1> SUFFICES ASSUME Init PROVE BoundInv
    OBVIOUS
<1> DEFINE m == Cardinality(Done) + 1
<1>1. m \in Nat /\ 0 <= m
    BY DoneFinite
<1> HIDE DEF m
<1>2. AtMost(m)
    BY <1>1 DEF Init, AtMost, BooksAtMost, KeysAtMost, WritesAtMost
<1> QED BY <1>1, <1>2 DEF BoundInv, m

LEMMA BoundNext == Typed /\ LoanInv /\ BoundInv /\ [Next]_vars => BoundInv'
<1> SUFFICES ASSUME Typed, LoanInv, BoundInv, [Next]_vars PROVE BoundInv'
    OBVIOUS
<1>1. PICK m \in Nat : m = Cardinality(Done) + 1 /\ AtMost(m)
    BY DEF BoundInv
<1>2. 1 <= m
    BY <1>1, DoneFinite
<1>3. /\ AtMost(m)' \/ \E d \in Device : OkBorrow(d) /\ AtMost(m + 1)'
      /\ Done \subseteq Done'
    BY <1>1, <1>2, StepAtMost
<1>4. TypeOK'
    BY TypedNext DEF Typed
<1>5. PICK n \in Nat : n = Cardinality(Done') + 1
    BY DoneFiniteNext
<1>6. AtMost(n)'
    <2>1. CASE AtMost(m)'
        <3>1. Cardinality(Done) <= Cardinality(Done')
            BY <1>3, DoneFiniteNext, FS_Subset
        <3>2. m <= n
            BY <1>1, <1>5, <3>1, DoneFinite, DoneFiniteNext
        <3> QED BY <1>4, <2>1, <3>2, AtMostMore
    <2>2. ASSUME NEW d \in Device, OkBorrow(d), AtMost(m + 1)'
          PROVE  AtMost(n)'
        <3>1. /\ Cardinality(Done \cup {alert[d]}) = Cardinality(Done) + 1
              /\ Done \cup {alert[d]} \subseteq Done'
            BY <1>3, <2>2, OkBorrowDone, DoneFinite, FS_AddElement
        <3>2. Cardinality(Done \cup {alert[d]}) <= Cardinality(Done')
            BY <3>1, DoneFiniteNext, FS_Subset
        <3>3. m + 1 <= n /\ m + 1 \in Nat
            BY <1>1, <1>5, <3>1, <3>2, DoneFinite, DoneFiniteNext
        <3> QED BY <1>4, <2>2, <3>3, AtMostMore
    <2> QED BY <1>3, <2>1, <2>2
<1> QED BY <1>5, <1>6 DEF BoundInv

\* For any number of devices, books and cards, with any editing, adding,
\* killing and any order of late answers and queued writes: the counter of a
\* book is never more than the loans ever confirmed, and one.  Each value a
\* counter is computed from was itself so bounded, and only the OK of an alert
\* adds one, once for its card.
THEOREM CountersBoundedHolds == Spec => []CountersBounded
<1>1. Typed /\ BoundInv => CountersBounded
    <2> SUFFICES ASSUME Typed, BoundInv, NEW b \in Book, books[b].check # None
                 PROVE  books[b].check <= Cardinality(Issued) + 1
        BY DEF CountersBounded
    <2>1. PICK m \in Nat : m = Cardinality(Done) + 1 /\ AtMost(m)
        BY DEF BoundInv
    <2>2. books[b].check <= m /\ books[b].check \in Int
        BY <2>1 DEF AtMost, BooksAtMost, Typed, TypeOK, BookDoc, Count
    <2>3. Issued \in SUBSET Card /\ Done \in SUBSET Issued
        BY DEF Issued, Done
    <2>4. IsFiniteSet(Issued) /\ Cardinality(Issued) \in Nat
        BY <2>3, FiniteCards, FS_Subset, FS_CardinalityType
    <2>5. Cardinality(Done) <= Cardinality(Issued)
        BY <2>3, <2>4, FS_Subset
    <2> QED BY <2>1, <2>2, <2>4, <2>5, DoneFinite
<1>2. Init => Typed /\ LoanInv /\ BoundInv
    BY TypedInit, LoanInit, BoundInit
<1>3. (Typed /\ LoanInv /\ BoundInv) /\ [Next]_vars => (Typed /\ LoanInv /\ BoundInv)'
    BY TypedNext, LoanNext, BoundNext
<1> QED BY <1>1, <1>2, <1>3, PTL DEF Spec
=============================================================================
