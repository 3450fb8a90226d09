------------------------------ MODULE CardList ------------------------------
(***************************************************************************)
(* The card list of a student: editInfoStudent-, listBorrowingCardStudent-, *)
(* and the ends of addNewBorrowingCard- and editBorrowCardViewController   *)
(* that lead back to it, on one device.                                    *)
(*                                                                         *)
(* Every edit screen opened attaches a listener to the whole collection    *)
(* BorrowCard that keeps the cards of its own student and is never         *)
(* removed; all of them write the same UserDefaults keys "count", "data"   *)
(* and "listID".  The card list draws its rows from these keys when it     *)
(* appears, and applies the row tapped to the keys of that moment.         *)
(*                                                                         *)
(* Firestore is external: a change of the device's view of the cards puts  *)
(* one callback for each listener, in the order they were attached, on the *)
(* main queue.  All rows fit on the screen.                                *)
(*                                                                         *)
(* When it appears, the card list also forces the key "ID_cards", which no *)
(* code of this version sets, and so stops the app on an installation      *)
(* without it.  idCards says which installation the behaviour is on: one   *)
(* that has the key, from an earlier version or because a book of that id  *)
(* was once in the table of books (manageBooksViewController 42), can go   *)
(* on to the cards.                                                        *)
(***************************************************************************)
EXTENDS Integers, Sequences, FiniteSets

CONSTANTS
    Student,    \* the students, by the field "ID"
    Deactivated,  \* those whose status is 0
    Card,       \* ids of the documents of BorrowCard, in their order
    None,       \* nobody, no document, a key that is not set
    FirstCards, \* the device's view of the cards at the start
    MaxListeners,  \* bound: edit screens opened between two restarts
    MaxDue,     \* bound: callbacks waiting on the main queue
    MaxCalls    \* bound: restarts and cards changed by other devices

CardDoc == [student : Student, open : BOOLEAN]
Row     == [id : Card, student : Student, open : BOOLEAN]
Tap     == [tapped : Row, id : Card, form : CardDoc]

ASSUME CardListAssumption ==
    /\ Deactivated \subseteq Student /\ Card \subseteq Nat /\ IsFiniteSet(Card)
    /\ None \notin Student \cup CardDoc \cup Card /\ None \notin Seq(Row)
    /\ None \notin Tap
    /\ FirstCards \in [Card -> CardDoc \cup {None}]

\* What may happen: a librarian who goes on before the callbacks have run; a
\* restart, which keeps UserDefaults; other devices changing cards.
Habit == {"hurries", "restarts", "others"}

VARIABLES
    habits,     \* what happens in this behaviour
    idCards,    \* the key ID_cards is set: never changes
    cards,      \* the device's view of BorrowCard
    listeners,  \* the students of the listeners, in the order attached
    due,        \* the callbacks on the main queue
    list,       \* the keys count, data and listID
    current,    \* the key ID_current_student
    saved,      \* the copies under the cards' ids
    screen,     \* the screen in front; "students" is the table of students
    rows,       \* the rows drawn
    addShown,   \* addButton is not hidden
    opened,     \* the row tapped, ID_current_bc, and the fields of the card screen
    calls       \* counts for the bound

vars == <<habits, idCards, cards, listeners, due, list, current, saved, screen,
          rows, addShown, opened, calls>>
----------------------------------------------------------------------------
\* The ids of set S in their order.
Ordered(S) ==
    [i \in 1 .. Cardinality(S) |->
        CHOOSE k \in S : Cardinality({j \in S : j <= k}) = i]

\* What the listener of student s makes of an answer: its cards, with the keys
\* started anew.
ListFor_All(s, docs) ==
    LET S == {k \in Card : docs[k] # None}
    IN  [i \in 1 .. Cardinality(S) |->
            [id |-> Ordered(S)[i], student |-> docs[Ordered(S)[i]].student,
             open |-> docs[Ordered(S)[i]].open]]
ListFor(s, docs) ==
    LET S == {k \in Card : docs[k] # None /\ docs[k].student = s}
        ids == Ordered(S)
    IN  [i \in 1 .. Cardinality(S) |->
            [id |-> ids[i], student |-> s, open |-> docs[ids[i]].open]]

\* The callbacks of an answer.
Callbacks_NewestFirst(docs) ==
    [i \in 1 .. Len(listeners) |->
        [student |-> listeners[Len(listeners) + 1 - i], docs |-> docs]]
Callbacks(docs) ==
    [i \in 1 .. Len(listeners) |-> [student |-> listeners[i], docs |-> docs]]

Init ==
    /\ habits \in SUBSET Habit
    /\ idCards \in BOOLEAN
    /\ cards = FirstCards
    /\ listeners = <<>> /\ due = <<>>
    /\ list = None
    /\ current = None
    /\ saved = [k \in Card |-> None]
    /\ screen = "students"
    /\ rows = <<>> /\ addShown = TRUE
    /\ opened = None
    /\ calls = 0

\* A librarian who does not hurry waits until nothing is on its way.
Waits == "hurries" \notin habits => due = <<>>

\* BorrowCard of the borrow screen.
NewCard_NoStudent(s) == [student |-> None, open |-> TRUE]
NewCard(s) == [student |-> s, open |-> TRUE]

\* The view of the cards becomes docs: unless nothing changed, every listener
\* is called.
Change(docs) ==
    /\ cards' = docs
    /\ IF docs = cards THEN UNCHANGED due
       ELSE /\ Len(due) + Len(listeners) <= MaxDue
            /\ due' = due \o Callbacks(docs)

\* The copies after the rows of the list have been drawn.
Stored ==
    [k \in Card |->
        IF \E i \in 1 .. Len(list) : list[i].id = k
        THEN LET i == CHOOSE j \in 1 .. Len(list) : list[j].id = k
             IN  [student |-> list[i].student, open |-> list[i].open]
        ELSE saved[k]]

\* The list appears: the key ID_cards is forced and the rows are drawn, each of
\* which hides or shows the add button and stores its card; without rows the
\* button stays as shown says.
Drawn_FirstRow(shown) ==
    /\ idCards
    /\ rows' = list
    /\ addShown' = IF list = <<>> THEN shown ELSE ~list[1].open
    /\ saved' = Stored
Drawn(shown) ==
    /\ idCards
    /\ rows' = list
    /\ addShown' = IF list = <<>> THEN shown ELSE ~list[Len(list)].open
    /\ saved' = Stored
----------------------------------------------------------------------------
(* The edit screen of a student and its listener.                          *)

\* A row of the students is tapped: the edit screen attaches its listener,
\* which is called with the view there is.
OpenStudent(s) ==
    /\ screen = "students"
    /\ Len(listeners) < MaxListeners /\ Len(due) < MaxDue
    /\ current' = s
    /\ listeners' = Append(listeners, s)
    /\ due' = Append(due, [student |-> s, docs |-> cards])
    /\ screen' = "edit"
    /\ UNCHANGED <<habits, idCards, cards, list, saved, rows, addShown,
                   opened, calls>>

\* A callback runs.
Hear ==
    /\ due # <<>>
    /\ list' = ListFor(Head(due).student, Head(due).docs)
    /\ due' = Tail(due)
    /\ UNCHANGED <<habits, idCards, cards, listeners, current, saved, screen,
                   rows, addShown, opened, calls>>

LeaveEdit ==
    /\ screen = "edit"
    /\ screen' = "students"
    /\ UNCHANGED <<habits, idCards, cards, listeners, due, list, current,
                   saved, rows, addShown, opened, calls>>
----------------------------------------------------------------------------
(* The card list.                                                          *)

OpenCards ==
    /\ screen = "edit" /\ Waits
    /\ list # None
    /\ Drawn(current \notin Deactivated)
    /\ screen' = "cards"
    /\ UNCHANGED <<habits, idCards, cards, listeners, due, list, current,
                   opened, calls>>

\* The list appears again, after another tab or another screen.
CardsAppear ==
    /\ screen = "cards" /\ Waits
    /\ Drawn(addShown)
    /\ UNCHANGED <<habits, idCards, cards, listeners, due, list, current,
                   screen, opened, calls>>

LeaveCards ==
    /\ screen = "cards"
    /\ screen' = "edit"
    /\ rows' = <<>>
    /\ UNCHANGED <<habits, idCards, cards, listeners, due, list, current,
                   saved, addShown, opened, calls>>

\* Where the list can come up: from the edit screen, again after another tab, or
\* under a screen that is left.
Appears == screen \in {"edit", "cards", "card", "borrow", "alert"}

\* The row tapped, applied to the key listID as it is now, and the copy stored
\* under that id; none of it is there when the list is shorter now, or names
\* a card no row has stored.
TapRow(i) ==
    /\ screen = "cards" /\ Waits
    /\ i <= Len(rows)
    /\ i <= Len(list) /\ saved[list[i].id] # None
    /\ opened' = [tapped |-> rows[i], id |-> list[i].id, form |-> saved[list[i].id]]
    /\ screen' = "card"
    /\ UNCHANGED <<habits, idCards, cards, listeners, due, list, current,
                   saved, rows, addShown, calls>>

\* Where the app stops: the list appearing without the key ID_cards, before any
\* row is laid out; the list opened before any callback has set its keys; and
\* the tap above without its card.
Stops ==
    /\ \/ Appears /\ Waits /\ ~idCards
       \/ screen = "edit" /\ Waits /\ list = None
       \/ /\ screen = "cards" /\ Waits
          /\ \E i \in 1 .. Len(rows) :
                i <= Len(list) => saved[list[i].id] = None
    /\ screen' = "stopped" /\ listeners' = <<>> /\ due' = <<>>
    /\ UNCHANGED <<habits, idCards, cards, list, current, saved, rows,
                   addShown, opened, calls>>
----------------------------------------------------------------------------
(* The card screen and the borrow screen.                                  *)

\* confirmButton with the switch off or on.
ConfirmCard(off) ==
    /\ screen = "card"
    /\ Change(IF off THEN [cards EXCEPT ![opened.id].open = FALSE] ELSE cards)
    /\ screen' = "alert"
    /\ UNCHANGED <<habits, idCards, listeners, list, current, saved, rows,
                   addShown, opened, calls>>

OpenBorrow ==
    /\ screen = "cards" /\ addShown /\ Waits
    /\ screen' = "borrow"
    /\ UNCHANGED <<habits, idCards, cards, listeners, due, list, current,
                   saved, rows, addShown, opened, calls>>

\* confirmAction: a card for the current student under a generated id, which
\* may be anywhere in the order.
AddCard(k) ==
    /\ screen = "borrow"
    /\ cards[k] = None
    /\ Change([cards EXCEPT ![k] = NewCard(current)])
    /\ screen' = "alert"
    /\ UNCHANGED <<habits, idCards, listeners, list, current, saved, rows,
                   addShown, opened, calls>>

BackToCards_NotDrawn ==
    /\ screen \in {"card", "borrow", "alert"} /\ Waits
    /\ screen' = "cards"
    /\ opened' = None
    /\ UNCHANGED <<habits, idCards, cards, listeners, due, list, current,
                   saved, rows, addShown, calls>>

\* OK or cancel: back to the list, which is drawn because it appears (the unwind
\* method of the borrow screen is empty).
BackToCards ==
    /\ screen \in {"card", "borrow", "alert"} /\ Waits
    /\ Drawn(addShown)
    /\ screen' = "cards"
    /\ opened' = None
    /\ UNCHANGED <<habits, idCards, cards, listeners, due, list, current,
                   calls>>
----------------------------------------------------------------------------
\* Another device adds a card or closes one.
OthersChange(k) ==
    /\ "others" \in habits
    /\ calls < MaxCalls /\ calls' = calls + 1
    /\ \/ /\ cards[k] = None
          /\ \E s \in Student :
                Change([cards EXCEPT ![k] = NewCard(s)])
       \/ /\ cards[k] # None
          /\ Change([cards EXCEPT ![k].open = FALSE])
    /\ UNCHANGED <<habits, idCards, listeners, list, current, saved, screen,
                   rows, addShown, opened>>

\* The app is killed, or started after a stop: memory is gone, UserDefaults
\* and the view of the cards are not.
Restart ==
    /\ "restarts" \in habits
    /\ calls < MaxCalls /\ calls' = calls + 1
    /\ listeners' = <<>> /\ due' = <<>>
    /\ screen' = "students"
    /\ rows' = <<>> /\ addShown' = TRUE /\ opened' = None
    /\ UNCHANGED <<habits, idCards, cards, list, current, saved>>

Next ==
    \/ \E s \in Student : OpenStudent(s)
    \/ Hear
    \/ LeaveEdit
    \/ OpenCards
    \/ CardsAppear
    \/ LeaveCards
    \/ \E i \in 1 .. Len(rows) : TapRow(i)
    \/ Stops
    \/ \E off \in BOOLEAN : ConfirmCard(off)
    \/ OpenBorrow
    \/ \E k \in Card : AddCard(k)
    \/ BackToCards
    \/ \E k \in Card : OthersChange(k)
    \/ Restart

Spec == Init /\ [][Next]_vars
----------------------------------------------------------------------------
(* Properties.                                                             *)

\* Every variable keeps its type.
TypeOK ==
    /\ habits \subseteq Habit
    /\ idCards \in BOOLEAN
    /\ cards \in [Card -> CardDoc \cup {None}]
    /\ listeners \in Seq(Student)
    /\ due \in Seq([student : Student, docs : [Card -> CardDoc \cup {None}]])
    /\ list \in Seq(Row) \cup {None}
    /\ current \in Student \cup {None}
    /\ saved \in [Card -> CardDoc \cup {None}]
    /\ screen \in {"students", "edit", "cards", "card", "borrow", "alert", "stopped"}
    /\ rows \in Seq(Row)
    /\ addShown \in BOOLEAN
    /\ opened \in Tap \cup {None}
    /\ calls \in Nat

\* However many listeners of other students are left behind, once the callbacks
\* have run the keys hold the cards of the current student: its listener is the
\* last attached and so the last called.
ListOfNewest ==
    listeners # <<>> /\ due = <<>> => list = ListFor(current, cards)

\* A librarian who does not hurry opens a card of the student shown, whatever
\* the other devices do; when they do nothing, it is the card of the row
\* tapped, with the fields it has.
RowOpened ==
    opened # None /\ "hurries" \notin habits =>
        /\ opened.form.student = current
        /\ "others" \notin habits =>
              /\ opened.id = opened.tapped.id
              /\ screen = "card" => opened.form = cards[opened.id]

\* viewWillAppear's forced key is the only thing that stops such a librarian's
\* app, unless another device adds a card under an id before those shown, which
\* the row tapped then stands for; and without the key nobody, in a hurry or
\* not, ever gets to a card or to the borrow screen.
StopsForKeyOnly ==
    /\ habits \subseteq {"restarts"} /\ screen = "stopped" => ~idCards
    /\ screen \in {"cards", "card", "borrow", "alert"} => idCards

\* Nor does he lend to a student whose last card, in the order of the ids, is
\* still open: that is all the add button makes sure of.
LastCardClosed ==
    [][\A k \in Card : AddCard(k) /\ habits \subseteq {"restarts"} =>
          LET mine == ListFor(current, cards)
          IN  mine # <<>> => ~mine[Len(mine)].open]_vars
=============================================================================
