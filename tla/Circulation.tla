---------------------------- MODULE Circulation ----------------------------
(***************************************************************************)
(* Lending and returning a book, as the librarians' devices and the shared *)
(* Firestore database do it.                                               *)
(*                                                                         *)
(* A loan is one document of the collection BorrowCard, and the number of  *)
(* copies on loan is the field "check" of the book's document in Books.    *)
(* The screens never read and write that field in one transaction: an      *)
(* asynchronous read puts it in the UserDefaults key "check", which every  *)
(* screen of the device shares, and a later tap writes back the value of   *)
(* that key plus or minus one.                                             *)
(*                                                                         *)
(* Firestore is external.  A device holds the last server state it saw     *)
(* (seenBooks, seenCards) and a queue of its own writes, both kept over a  *)
(* restart; what it reads is the first overlaid with the second; the       *)
(* server applies the queue in order.                                      *)
(***************************************************************************)
EXTENDS Integers, Sequences, FiniteSets

CONSTANTS
    Device,      \* the librarians' devices
    Duty,        \* what each device is used for
    Book,        \* document ids of the collection Books
    Card,        \* ids Firestore can generate for the collection BorrowCard
    None,        \* no value: an absent field, an empty text field, no card
    IDBeforeDash, \* the id that is left of an id cut at its first "-"
    FirstQuantity, \* quantity of a book at the start, None if it is not there
    Quantity,    \* quantities a librarian types
    MaxQueue,    \* bound: writes a device holds back
    MaxReads,    \* bound: unanswered reads of a device
    MinCheck, MaxCheck  \* bounds: values of the field "check"

ASSUME ConstantsAssumption ==
    /\ Duty \in [Device -> SUBSET {"lend", "return", "catalogue", "restart"}]
    /\ IDBeforeDash \in [Book -> Book]
    /\ None \notin Int /\ None \notin Book /\ None \notin Card
    /\ Quantity \subseteq Nat
    /\ FirstQuantity \in [Book -> Quantity \cup {None}]
    /\ MinCheck \in Int /\ MaxCheck \in Int

ASSUME FiniteCards == IsFiniteSet(Card)

VARIABLES
    \* The server.
    books,       \* Books: the fields "quantity" and "check" of each document
    cards,       \* BorrowCard: the field "status" and the book of each card
    \* Firestore on each device, kept over a restart.
    seenBooks, seenCards, queue,
    \* The UserDefaults key "check" of each device, kept over a restart.
    check,
    \* The screen of each device.
    screen,      \* what the student tab shows: the card list or a screen on it
    id,          \* borrow screen: self.id, the book asked for
    confirm,     \* borrow screen: confirmButton.isEnabled
    alert,       \* borrow screen: the card whose alert waits for OK
    current,     \* return screen: ID_current_bc and bookIDTextField
    switch,      \* return screen: statusSwitch.isOn
    adding,      \* add-book screen: the book whose duplicate check is running
    reads,       \* getDocument calls not answered yet
    \* History.
    posted,      \* for each book, the loans its counter stands for
    clean        \* for each book, nothing has made its counter drift yet

server  == <<books, cards>>
replica == <<seenBooks, seenCards>>
borrowScreen == <<id, confirm, alert>>
returnScreen == <<current, switch>>
history == <<posted, clean>>
vars == <<books, cards, seenBooks, seenCards, queue, check, screen, id,
          confirm, alert, current, switch, adding, reads, posted, clean>>

----------------------------------------------------------------------------
(* Documents and writes.                                                   *)

Status  == {"none", "open", "closed"}
Count   == Int \cup {None}
BookDoc == [quantity : Nat \cup {None}, check : Count]
CardDoc == [status : Status, book : Book \cup {None}]

\* A write of the counter is for an edit of the book's details or a new book,
\* or for a loan or a return.
CardWrite == [op : {"add"}, card : Card, book : Book \cup {None}]
                \cup [op : {"close"}, card : Card, book : {None}]
StockWrite == [op : {"book"}, book : Book, quantity : Nat \cup {None},
               check : Int, why : {"edit", "new"}, card : {None}, basis : Int]
LoanWrite == [op : {"book"}, book : Book, quantity : {None},
              check : Int, why : {"lend", "return"}, card : Card, basis : Int]
BookWrite == StockWrite \cup LoanWrite
Write == CardWrite \cup BookWrite

Exists(doc)   == doc.quantity # None \/ doc.check # None
Complete(doc) == doc.quantity # None /\ doc.check # None

\* setData(..., merge: true) keeps the fields it does not name.
Merge(doc, w) ==
    [quantity |-> IF w.quantity = None THEN doc.quantity ELSE w.quantity,
     check    |-> w.check]

LastOf(I) == CHOOSE i \in I : \A j \in I : j <= i

\* The pending writes of device d to one field of book b.
PendingField(d, b, f) ==
    {i \in 1 .. Len(queue[d]) :
        /\ queue[d][i].op = "book"
        /\ queue[d][i].book = b
        /\ queue[d][i][f] # None}

FieldView(d, b, f) ==
    LET I == PendingField(d, b, f)
    IN  IF I = {} THEN seenBooks[d][b][f] ELSE queue[d][LastOf(I)][f]

\* Books/b as device d reads it.
BookView(d, b) == [quantity |-> FieldView(d, b, "quantity"),
                   check    |-> FieldView(d, b, "check")]

Pending(d, op, k) ==
    \E i \in 1 .. Len(queue[d]) : queue[d][i].op = op /\ queue[d][i].card = k

\* The status of card k as device d reads it.
CardView(d, k) ==
    IF Pending(d, "close", k) \/ seenCards[d][k].status = "closed" THEN "closed"
    ELSE IF Pending(d, "add", k) THEN "open" ELSE seenCards[d][k].status

\* The book of card k as device d reads it.
CardBookView(d, k) ==
    IF seenCards[d][k].status # "none" THEN seenCards[d][k].book
    ELSE IF Pending(d, "add", k)
         THEN queue[d][CHOOSE i \in 1 .. Len(queue[d]) :
                          queue[d][i].op = "add" /\ queue[d][i].card = k].book
    ELSE None

\* A getDocument call not answered yet; "add" is one of a duplicate check that
\* will find its book or student.  live: the answer of a borrow screen still
\* in front.  (Bound: a device never waits for two equal answers.)
Read == [by : {"borrow", "return"}, book : Book, live : BOOLEAN]
            \cup [by : {"add"}, book : {None}, live : BOOLEAN]

----------------------------------------------------------------------------
Init ==
    /\ books = [b \in Book |->
                  [quantity |-> FirstQuantity[b],
                   check |-> IF FirstQuantity[b] = None THEN None ELSE 0]]
    /\ cards = [k \in Card |-> [status |-> "none", book |-> None]]
    /\ seenBooks = [d \in Device |-> books]
    /\ seenCards = [d \in Device |-> cards]
    /\ queue   = [d \in Device |-> <<>>]
    /\ check   = [d \in Device |-> None]
    /\ screen  = [d \in Device |-> "list"]
    /\ id      = [d \in Device |-> None]
    /\ confirm = [d \in Device |-> FALSE]
    /\ alert   = [d \in Device |-> None]
    /\ current = [d \in Device |-> None]
    /\ switch  = [d \in Device |-> FALSE]
    /\ adding  = [d \in Device |-> None]
    /\ reads   = [d \in Device |-> {}]
    /\ posted  = [b \in Book |-> {}]
    /\ clean   = [b \in Book |-> TRUE]

\* The screen on top of the card list goes away.
Closes(d) ==
    /\ screen'  = [screen EXCEPT ![d] = "list"]
    /\ id'      = [id EXCEPT ![d] = None]
    /\ confirm' = [confirm EXCEPT ![d] = FALSE]
    /\ alert'   = [alert EXCEPT ![d] = None]
    /\ current' = [current EXCEPT ![d] = None]
    /\ switch'  = [switch EXCEPT ![d] = FALSE]

\* The app of device d stops: its screens, closures and unanswered reads are
\* gone.
Stops(d) ==
    /\ Closes(d)
    /\ adding' = [adding EXCEPT ![d] = None]
    /\ reads'  = [reads EXCEPT ![d] = {}]

\* A card whose counter write has not been issued when its app stops.
Tears(d) ==
    clean' = [b \in Book |-> clean[b] /\ ~(alert[d] # None /\ id[d] = b)]

\* Back to the card list.  The closures of the screen that is left stay, and
\* their answers still set the key "check"; its button is gone.
Leaves(d) ==
    /\ Closes(d)
    /\ reads' = [reads EXCEPT ![d] = {[r EXCEPT !.live = FALSE] : r \in @}]

Room(d, n) == Len(queue[d]) + n <= MaxQueue
Issue(d, w) == queue' = [queue EXCEPT ![d] = @ \o w]

\* addCard; status "0" and the day of the return; setData on Books.
AddWrite_Swapped(k, b) == [op |-> "add", card |-> b, book |-> k]
AddWrite_NoBook(k, b) == [op |-> "add", card |-> k, book |-> None]
AddWrite(k, b) == [op |-> "add", card |-> k, book |-> b]

CloseWrite_Open(k) == [op |-> "add", card |-> k, book |-> None]
CloseWrite(k) == [op |-> "close", card |-> k, book |-> None]

CheckWrite(b, q, n, why, k, basis) ==
    [op |-> "book", book |-> b, quantity |-> q, check |-> n, why |-> why,
     card |-> k, basis |-> basis]
----------------------------------------------------------------------------
(* The borrow screen: addNewBorrowingCardViewController.                   *)

\* The screen comes up with an empty book field; the storyboard leaves the
\* confirm button enabled.
OpenBorrow(d) ==
    /\ screen[d] = "list"
    /\ screen'  = [screen EXCEPT ![d] = "borrow"]
    /\ id'      = [id EXCEPT ![d] = None]
    /\ confirm' = [confirm EXCEPT ![d] = TRUE]
    /\ UNCHANGED <<server, replica, queue, check, alert, returnScreen, adding,
                   reads, history>>

\* listBook, which the picker shows.
Listed_AnyText(d, b) == TRUE
Listed(d, b) == Complete(BookView(d, b))

\* bookIDAction: a book picked from the list is the one the field names up to
\* its first dash; its document is asked for.
BookIDAction(d, b) ==
    LET r == [by |-> "borrow", book |-> IDBeforeDash[b], live |-> TRUE]
    IN  /\ screen[d] = "borrow" /\ alert[d] = None
        /\ Listed(d, b)
        /\ Cardinality(reads[d]) < MaxReads /\ r \notin reads[d]
        /\ id'    = [id EXCEPT ![d] = IDBeforeDash[b]]
        /\ reads' = [reads EXCEPT ![d] = @ \cup {r}]
        /\ UNCHANGED <<server, replica, queue, check, screen, confirm, alert,
                       returnScreen, adding, history>>

Available_OneMore(doc) == doc.quantity >= doc.check
Available(doc) == doc.quantity > doc.check

\* The key "check" after the callback of bookIDAction.
Answered_KeyKept(d, doc) == check[d]
Answered(d, doc) == IF Available(doc) THEN doc.check ELSE check[d]

\* The callback of bookIDAction, on a document that exists in full: the
\* button follows the comparison, the key "check" only its success.
BookAnswer(d, r) ==
    LET doc == BookView(d, r.book)
    IN  /\ r \in reads[d] /\ r.by = "borrow"
        /\ Complete(doc)
        /\ check'   = [check EXCEPT ![d] = Answered(d, doc)]
        /\ confirm' = [confirm EXCEPT ![d] = IF r.live THEN Available(doc) ELSE @]
        /\ reads'   = [reads EXCEPT ![d] = @ \ {r}]
        /\ UNCHANGED <<server, replica, queue, screen, id, alert, returnScreen,
                       adding, history>>

\* confirmAction: the card is added at once, for whatever book the field last
\* named, and an alert waits for OK.  Firestore generates a new id.
ConfirmAction(d, k) ==
    /\ screen[d] = "borrow" /\ alert[d] = None /\ confirm[d]
    /\ Room(d, 1)
    /\ cards[k].status = "none"
    /\ \A e \in Device : ~Pending(e, "add", k)
    /\ Issue(d, <<AddWrite(k, id[d])>>)
    /\ alert' = [alert EXCEPT ![d] = k]
    /\ UNCHANGED <<server, replica, check, screen, id, confirm, returnScreen,
                   adding, reads, history>>

\* The counter of the book lent becomes the key "check" plus one.
LendWrite_NoPlus(d) ==
    CheckWrite(id[d], None, check[d], "lend", alert[d], check[d])
LendWrite(d) ==
    CheckWrite(id[d], None, check[d] + 1, "lend", alert[d], check[d])

\* The OK of that alert: the counter is written and the screen is left.
OkBorrow(d) ==
    /\ screen[d] = "borrow" /\ alert[d] # None
    /\ id[d] # None /\ check[d] # None
    /\ Room(d, 1) /\ check[d] < MaxCheck
    /\ Issue(d, <<LendWrite(d)>>)
    /\ Leaves(d)
    /\ UNCHANGED <<server, replica, check, adding, history>>

\* The same OK when no book was named (an empty document path) or the key
\* "check" was never set (a forced cast of nil): the app stops.
OkBorrowFails(d) ==
    /\ screen[d] = "borrow" /\ alert[d] # None
    /\ id[d] = None \/ check[d] = None
    /\ Stops(d) /\ Tears(d)
    /\ UNCHANGED <<server, replica, queue, check, posted>>

CancelBorrow(d) ==
    /\ screen[d] = "borrow" /\ alert[d] = None
    /\ Leaves(d)
    /\ UNCHANGED <<server, replica, queue, check, adding, history>>
----------------------------------------------------------------------------
(* The return screen: editBorrowCardViewController.                        *)

\* viewDidLoad: the switch shows the status in the device's copy of the card,
\* and the book's document is asked for.
OpenCard(d, k) ==
    LET b == CardBookView(d, k)
        r == [by |-> "return", book |-> b, live |-> FALSE]
    IN  /\ screen[d] = "list"
        /\ CardView(d, k) # "none" /\ b # None
        /\ Cardinality(reads[d]) < MaxReads /\ r \notin reads[d]
        /\ screen'  = [screen EXCEPT ![d] = "return"]
        /\ current' = [current EXCEPT ![d] = [card |-> k, book |-> b]]
        /\ switch'  = [switch EXCEPT ![d] = CardView(d, k) = "open"]
        /\ reads'   = [reads EXCEPT ![d] = @ \cup {r}]
        /\ UNCHANGED <<server, replica, queue, check, borrowScreen, adding, history>>

\* A card that names no book: the empty document path stops the app.
OpenCardFails(d, k) ==
    /\ screen[d] = "list"
    /\ CardView(d, k) # "none" /\ CardBookView(d, k) = None
    /\ Stops(d)
    /\ UNCHANGED <<server, replica, queue, check, history>>

\* The callback of viewDidLoad.
CheckAnswer(d, r) ==
    LET doc == BookView(d, r.book)
    IN  /\ r \in reads[d] /\ r.by = "return"
        /\ Exists(doc)
        /\ check' = [check EXCEPT ![d] = doc.check]
        /\ reads' = [reads EXCEPT ![d] = @ \ {r}]
        /\ UNCHANGED <<server, replica, queue, screen, borrowScreen,
                       returnScreen, adding, history>>

StatusAction(d) ==
    /\ screen[d] = "return"
    /\ switch' = [switch EXCEPT ![d] = ~@]
    /\ UNCHANGED <<server, replica, queue, check, screen, borrowScreen, current,
                   adding, reads, history>>

\* The card is closed, then the counter of its book becomes the key "check"
\* minus one.
ReturnWrites_NoMinus(d, c) == <<CloseWrite(c.card)>>
ReturnWrites_Plus(d, c) ==
    <<CloseWrite(c.card),
      CheckWrite(c.book, None, check[d] + 1, "return", c.card, check[d])>>
ReturnWrites(d, c) ==
    <<CloseWrite(c.card),
      CheckWrite(c.book, None, check[d] - 1, "return", c.card, check[d])>>

\* confirmButton with the switch off, whatever the card's status was.
ConfirmReturn(d) ==
    /\ screen[d] = "return" /\ ~switch[d]
    /\ check[d] # None
    /\ Room(d, 2) /\ check[d] > MinCheck
    /\ Issue(d, ReturnWrites(d, current[d]))
    /\ Leaves(d)
    /\ UNCHANGED <<server, replica, check, adding, history>>

\* The same when the key "check" was never set: the card is closed and the
\* forced cast stops the app before the counter is written.
ConfirmReturnFails(d) ==
    /\ screen[d] = "return" /\ ~switch[d]
    /\ check[d] = None
    /\ Room(d, 1)
    /\ Issue(d, <<CloseWrite(current[d].card)>>)
    /\ Stops(d)
    /\ clean' = [clean EXCEPT ![current[d].book] = FALSE]
    /\ UNCHANGED <<server, replica, check, posted>>

\* confirmButton with the switch on (which writes to the collection "cities",
\* read by nobody) and cancelButton both only leave the screen.
LeaveCard(d) ==
    /\ screen[d] = "return"
    /\ Leaves(d)
    /\ UNCHANGED <<server, replica, queue, check, adding, history>>
----------------------------------------------------------------------------
(* The screens that add and edit: addBooksViewController and                *)
(* editInfoBookViewController on the book tab, addStudentsViewController.   *)
(* The tab bar stays in reach of the borrow and return screens, so both     *)
(* tabs have work in progress; only the alert of confirmAction covers both. *)

\* confirmButton of the add screen: the key "check" is set to false and the
\* duplicate check starts.  twin: a book of ID_books has the new book's name.
AddBook(d, b, q, twin) ==
    LET r == [by |-> "add", book |-> None, live |-> FALSE]
    IN  /\ alert[d] = None /\ adding[d] = None
        /\ r \notin reads[d]
        /\ twin => Cardinality(reads[d]) < MaxReads
        /\ check'  = [check EXCEPT ![d] = 0]
        /\ adding' = [adding EXCEPT ![d] = [book |-> b, quantity |-> q, twin |-> twin]]
        /\ reads'  = [reads EXCEPT ![d] = IF twin THEN @ \cup {r} ELSE @]
        /\ UNCHANGED <<server, replica, queue, screen, borrowScreen, returnScreen,
                       history>>

\* confirmButton of the add-student screen, which is under the card list in
\* the student tab, when the list of students has not exactly one: the same key
\* is set to false and read again before any answer, so the student is always
\* inserted; known: an answer will find the number in use.
AddStudent(d, known) ==
    LET r == [by |-> "add", book |-> None, live |-> FALSE]
    IN  /\ screen[d] = "list"
        /\ r \notin reads[d]
        /\ known => Cardinality(reads[d]) < MaxReads
        /\ check' = [check EXCEPT ![d] = 0]
        /\ reads' = [reads EXCEPT ![d] = IF known THEN @ \cup {r} ELSE @]
        /\ UNCHANGED <<server, replica, queue, screen, borrowScreen, returnScreen,
                       adding, history>>

\* The callback of checkNewBook on the book with the same name, or of
\* checkStudent on the student with the same number.
TwinAnswer(d, r) ==
    /\ r \in reads[d] /\ r.by = "add"
    /\ check' = [check EXCEPT ![d] = 1]
    /\ reads' = [reads EXCEPT ![d] = @ \ {r}]
    /\ UNCHANGED <<server, replica, queue, screen, borrowScreen, returnScreen,
                   adding, history>>

Saves(d) == check[d] = 0

\* Back on the main queue the key decides, whether or not the callbacks have
\* run: false saves the book with its counter at 0.
AddDecides(d) ==
    /\ adding[d] # None /\ Saves(d)
    /\ Room(d, 1)
    /\ Issue(d, <<CheckWrite(adding[d].book, adding[d].quantity, 0, "new", None, 0)>>)
    /\ adding' = [adding EXCEPT ![d] = None]
    /\ UNCHANGED <<server, replica, check, screen, borrowScreen, returnScreen,
                   reads, history>>

\* true refuses the book.
AddRefused(d) ==
    /\ adding[d] # None /\ check[d] = 1
    /\ adding' = [adding EXCEPT ![d] = None]
    /\ UNCHANGED <<server, replica, queue, check, screen, borrowScreen,
                   returnScreen, reads, history>>

\* A number other than 0 and 1, left in the key by a late answer of another
\* screen, is no Bool: the forced cast stops the app.
AddDecisionFails(d) ==
    /\ adding[d] # None /\ check[d] \notin {0, 1}
    /\ Stops(d) /\ Tears(d)
    /\ UNCHANGED <<server, replica, queue, check, posted>>

\* confirmButton of the edit screen: the quantity typed, or 0 when it is
\* below the counter, and the counter itself are written back from the
\* device's copy of the document.
EditBook(d, b, q) ==
    LET doc == BookView(d, b)
        new == IF q < doc.check THEN 0 ELSE q
    IN  /\ alert[d] = None
        /\ Complete(doc)
        /\ Room(d, 1)
        /\ Issue(d, <<CheckWrite(b, new, doc.check, "edit", None, doc.check)>>)
        /\ UNCHANGED <<server, replica, check, screen, borrowScreen,
                       returnScreen, adding, reads, history>>
----------------------------------------------------------------------------
(* Answers that find no usable document, restarts, and Firestore.          *)

\* The document does not exist, or the device is offline and never saw it:
\* the callback only prints.
NoAnswer(d, r) ==
    /\ r \in reads[d] /\ r.by # "add"
    /\ ~Exists(BookView(d, r.book))
    /\ reads' = [reads EXCEPT ![d] = @ \ {r}]
    /\ UNCHANGED <<server, replica, queue, check, screen, borrowScreen,
                   returnScreen, adding, history>>

\* A document without its "quantity" stops the app in bookIDAction's forced
\* cast.
PartialAnswer(d, r) ==
    /\ r \in reads[d] /\ r.by = "borrow"
    /\ Exists(BookView(d, r.book)) /\ ~Complete(BookView(d, r.book))
    /\ Stops(d) /\ Tears(d)
    /\ UNCHANGED <<server, replica, queue, check, posted>>

\* The app is killed and started again.
Crash(d) ==
    /\ screen[d] # "list" \/ adding[d] # None \/ reads[d] # {}
    /\ Stops(d) /\ Tears(d)
    /\ UNCHANGED <<server, replica, queue, check, posted>>

\* A counter write is sound when the value it was computed from is still the
\* server's, and, for a return, when the counter stands for that loan.
Sound(w) ==
    /\ books[w.book].check = w.basis \/ (w.why = "new" /\ books[w.book].check = None)
    /\ w.why = "lend"   => w.card \notin posted[w.book]
    /\ w.why = "return" => w.card \in posted[w.book]

CommitCard(d, w) ==
    /\ w.op \in {"add", "close"}
    /\ LET new(doc) == IF w.op = "add" THEN [status |-> "open", book |-> w.book]
                       ELSE [doc EXCEPT !.status = "closed"]
       IN  /\ cards' = [cards EXCEPT ![w.card] = new(@)]
           /\ seenCards' = [seenCards EXCEPT ![d][w.card] = new(@)]
    /\ UNCHANGED <<books, seenBooks, history>>

CommitBook(d, w) ==
    /\ w.op = "book"
    /\ books' = [books EXCEPT ![w.book] = Merge(@, w)]
    /\ seenBooks' = [seenBooks EXCEPT ![d][w.book] = Merge(@, w)]
    /\ clean' = [clean EXCEPT ![w.book] = @ /\ Sound(w)]
    /\ posted' = [posted EXCEPT ![w.book] =
                    IF w.why = "lend" THEN @ \cup {w.card}
                    ELSE IF w.why = "return" THEN @ \ {w.card} ELSE @]
    /\ UNCHANGED <<cards, seenCards>>

\* The server applies the oldest write of device d.
Commit(d) ==
    /\ queue[d] # <<>>
    /\ CommitCard(d, Head(queue[d])) \/ CommitBook(d, Head(queue[d]))
    /\ queue' = [queue EXCEPT ![d] = Tail(@)]
    /\ UNCHANGED <<check, screen, borrowScreen, returnScreen, adding, reads>>

\* Device d hears of the server's state of one document.
SyncBook(d, b) ==
    /\ seenBooks[d][b] # books[b]
    /\ seenBooks' = [seenBooks EXCEPT ![d][b] = books[b]]
    /\ UNCHANGED <<server, seenCards, queue, check, screen, borrowScreen,
                   returnScreen, adding, reads, history>>

SyncCard(d, k) ==
    /\ seenCards[d][k] # cards[k]
    /\ seenCards' = [seenCards EXCEPT ![d][k] = cards[k]]
    /\ UNCHANGED <<server, seenBooks, queue, check, screen, borrowScreen,
                   returnScreen, adding, reads, history>>
----------------------------------------------------------------------------
Doing(duty) == {d \in Device : duty \in Duty[d]}

Borrows(d) ==
    \/ OpenBorrow(d)
    \/ \E b \in Book : BookIDAction(d, b)
    \/ \E r \in reads[d] : BookAnswer(d, r)
    \/ \E r \in reads[d] : PartialAnswer(d, r)
    \/ \E k \in Card : ConfirmAction(d, k)
    \/ OkBorrow(d)
    \/ OkBorrowFails(d)
    \/ CancelBorrow(d)

Returns(d) ==
    \/ \E k \in Card : OpenCard(d, k)
    \/ \E k \in Card : OpenCardFails(d, k)
    \/ \E r \in reads[d] : CheckAnswer(d, r)
    \/ StatusAction(d)
    \/ ConfirmReturn(d)
    \/ ConfirmReturnFails(d)
    \/ LeaveCard(d)

Catalogues(d) ==
    \/ \E b \in Book, q \in Quantity, twin \in BOOLEAN : AddBook(d, b, q, twin)
    \/ \E known \in BOOLEAN : AddStudent(d, known)
    \/ \E r \in reads[d] : TwinAnswer(d, r)
    \/ AddDecides(d)
    \/ AddRefused(d)
    \/ AddDecisionFails(d)
    \/ \E b \in Book, q \in Quantity : EditBook(d, b, q)

Replicates(d) ==
    \/ \E r \in reads[d] : NoAnswer(d, r)
    \/ Commit(d)
    \/ \E b \in Book : SyncBook(d, b)
    \/ \E k \in Card : SyncCard(d, k)

Next ==
    \/ \E d \in Doing("lend") : Borrows(d)
    \/ \E d \in Doing("return") : Returns(d)
    \/ \E d \in Doing("catalogue") : Catalogues(d)
    \/ \E d \in Doing("restart") : Crash(d)
    \/ \E d \in Device : Replicates(d)

Spec == Init /\ [][Next]_vars

\* Firestore sends a queued write again until the server has taken it, over
\* restarts too.  Nothing else is fair: a librarian may stop at any time.
FairSpec == Spec /\ \A d \in Device : WF_vars(Commit(d))
----------------------------------------------------------------------------
(* Properties.                                                             *)

\* Every variable keeps its type.
TypeOK ==
    /\ books \in [Book -> BookDoc]
    /\ cards \in [Card -> CardDoc]
    /\ seenBooks \in [Device -> [Book -> BookDoc]]
    /\ seenCards \in [Device -> [Card -> CardDoc]]
    /\ queue \in [Device -> Seq(Write)]
    /\ check \in [Device -> Count]
    /\ screen \in [Device -> {"list", "borrow", "return"}]
    /\ id \in [Device -> Book \cup {None}]
    /\ confirm \in [Device -> BOOLEAN]
    /\ alert \in [Device -> Card \cup {None}]
    /\ current \in [Device -> [card : Card, book : Book] \cup {None}]
    /\ switch \in [Device -> BOOLEAN]
    /\ adding \in [Device -> [book : Book, quantity : Quantity, twin : BOOLEAN] \cup {None}]
    /\ reads \in [Device -> SUBSET Read]
    /\ posted \in [Book -> SUBSET Card]
    /\ clean \in [Book -> BOOLEAN]

\* The counter of a book is the number of loans it stands for, until one of
\* the events this model names (a write computed from a stale value, a return
\* of a loan not counted, an overwriting add, an app stopped between the two
\* writes of a loan or a return) makes it drift: nothing else does.
LedgerExact ==
    \A b \in Book : clean[b] =>
        /\ books[b].check = None => posted[b] = {}
        /\ books[b].check # None => books[b].check = Cardinality(posted[b])

\* addCard comes before the counter's write and Firestore keeps the order: a
\* loan is counted only under the book its card names, and only once the
\* card is on the server.
CounterFollowsCard ==
    \A b \in Book : \A k \in posted[b] :
        cards[k].status # "none" /\ cards[k].book = b

LendUnderWay(k) ==
    \/ \E d \in Device : alert[d] = k
    \/ \E d \in Device : \E i \in 1 .. Len(queue[d]) :
          LET w == queue[d][i] IN w.op = "book" /\ w.why = "lend" /\ w.card = k

ReturnUnderWay(k) ==
    \E d \in Device : \E i \in 1 .. Len(queue[d]) :
        LET w == queue[d][i] IN w.op = "book" /\ w.why = "return" /\ w.card = k

OnLoan(b) == {k \in Card : cards[k].status = "open" /\ cards[k].book = b}

\* While a book's counter has not drifted, an open card that is not counted
\* has its +1 under way, and a closed card still counted has its -1 under way.
LoansAccounted ==
    \A b \in Book : clean[b] =>
        /\ \A k \in OnLoan(b) \ posted[b] : LendUnderWay(k)
        /\ \A k \in posted[b] \ OnLoan(b) : ReturnUnderWay(k)

\* No device has work in progress and nothing waits to be sent.
Settled == \A d \in Device : queue[d] = <<>> /\ alert[d] = None

\* When all is settled, a counter that has not drifted is the number of open
\* cards of its book.
SettledExact ==
    Settled => \A b \in Book :
        clean[b] /\ books[b].check # None => books[b].check = Cardinality(OnLoan(b))

\* The cards ever added, on the server or on their way there.
Issued == {k \in Card : cards[k].status # "none" \/ \E d \in Device : Pending(d, "add", k)}

\* Whatever screen, device or late answer set the key "check" a counter is
\* computed from, and however long the write waited, no counter is ever more
\* than the loans ever confirmed, and the one of a duplicate check's "true":
\* counters are lost, but not made up.
CountersBounded ==
    \A b \in Book : books[b].check # None => books[b].check <= Cardinality(Issued) + 1

\* A book whose id is no other's cut at a dash is never a document with a
\* counter and nothing else (which every book list would stop on): the lending
\* screens only write the counters of books they have listed.
WholeBooks ==
    \A b \in Book :
        (\A a \in Book \ {b} : IDBeforeDash[a] # b) /\ Exists(books[b])
            => Complete(books[b])

\* A loan whose card is closed does not stay counted for ever, unless the
\* counter drifts: confirmButton's second write follows the first.
ReturnsCounted ==
    \A b \in Book, k \in Card :
        (k \in posted[b] /\ cards[k].status = "closed")
            ~> (k \notin posted[b] \/ ~clean[b])

\* The abstract ledger of cards (module Ledger) that the server's copy of the
\* collection BorrowCard implements.
LedgerOfCards == INSTANCE Ledger WITH
    loan <- [k \in Card |-> cards[k].status],
    of   <- [k \in Card |-> cards[k].book]
ImplementsLedger == LedgerOfCards!Spec
----------------------------------------------------------------------------
(* What the screens tell the librarian, as properties.                     *)

\* "* No available book in library" and "* This book is available to borrow":
\* no more cards of a book are open than the library has copies.
LentWhenAvailable ==
    \A b \in Book : Complete(books[b]) => Cardinality(OnLoan(b)) <= books[b].quantity

\* "This book is existed": no book is saved whose name another one has.
AddedOnlyWhenNew == [][\A d \in Device : AddDecides(d) => ~adding[d].twin]_vars
============================================================================
