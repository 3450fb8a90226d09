------------------------------ MODULE Students ------------------------------
(***************************************************************************)
(* The students of the library: studentMenu-, manageStudents-, addStudents- *)
(* and editInfoStudentViewController.                                      *)
(*                                                                         *)
(* The menu reads the ids of all documents of the collection Students into *)
(* the UserDefaults key "ID_students" each time it appears.  The table     *)
(* shows one row per id, each bound to its document by a listener, and an  *)
(* edit starts from the copy that listener left in UserDefaults.  A new    *)
(* student is inserted under a generated id, except when the list has one  *)
(* id: then a listener on that document decides, and is never removed.     *)
(*                                                                         *)
(* Firestore is external.  Every write here sets all fields of a document, *)
(* so a device's view of one is its own last write not yet applied, or the *)
(* last server state it heard of.                                          *)
(***************************************************************************)
EXTENDS Integers, Sequences, FiniteSets

CONSTANTS
    Device,     \* the librarians' devices
    Duty,       \* what each device is used for: "add", "edit", "restart"
    Doc,        \* document ids of the collection Students, in their order
    Number,     \* the field "ID" of a student
    Name,       \* the field "name"
    NoName,     \* the empty name, which marks a document as free
    Entered,    \* the names a librarian enters
    None,       \* no document, nothing chosen, nothing heard yet
    FirstStudents, \* the documents at the start
    MaxQueue,   \* bound: writes a device holds back
    MaxLoads,   \* bound: unanswered reads of the list of a device
    MaxAsks,    \* bound: confirms of a device that wait on a listener
    MaxWrites   \* bound: writes of one such listener

Student == [number : Number, name : Name, active : BOOLEAN]

ASSUME StudentsAssumption ==
    /\ Duty \in [Device -> SUBSET {"add", "edit", "restart"}]
    /\ Doc \subseteq Nat /\ IsFiniteSet(Doc) /\ None \notin Doc /\ None \notin Student
    /\ NoName \in Name /\ Entered \subseteq Name
    /\ MaxLoads \in Nat \ {0} /\ MaxWrites \in Nat
    /\ FirstStudents \in [Doc -> Student \cup {None}]

VARIABLES
    students,  \* the server's documents
    view,      \* each device's view of them, kept over a restart
    queue,     \* its writes not yet applied, kept over a restart
    ids,       \* ID_students
    loads,     \* getDocuments calls of loadStudentData not answered yet
    screen,    \* the screen in front
    table,     \* the rows drawn, and whether no list was awaited then
    cells,     \* documents with a listener of a table cell
    copy,      \* UserDefaults: the document a cell's listener last stored
    current,   \* ID_current_student, kept over a restart
    form,      \* the fields of the edit screen
    asked      \* the listeners of confirmButton

vars == <<students, view, queue, ids, loads, screen, table, cells, copy,
          current, form, asked>>
----------------------------------------------------------------------------
NoTable == [rows |-> {}, quiet |-> FALSE]

\* A listener on document doc for a new student; last: what it heard last.
Ask == [doc : Doc, number : Number, name : Name, last : Student \cup {None},
        writes : 0 .. MaxWrites]

Init ==
    /\ students = FirstStudents
    /\ view    = [d \in Device |-> students]
    /\ queue   = [d \in Device |-> <<>>]
    /\ ids     = [d \in Device |-> {}]
    /\ loads   = [d \in Device |-> 1]
    /\ screen  = [d \in Device |-> "menu"]
    /\ table   = [d \in Device |-> NoTable]
    /\ cells   = [d \in Device |-> {}]
    /\ copy    = [d \in Device |-> [x \in Doc |-> None]]
    /\ current = [d \in Device |-> None]
    /\ form    = [d \in Device |-> None]
    /\ asked   = [d \in Device |-> {}]

Room(d) == Len(queue[d]) < MaxQueue

\* setData and addDocument: the device sees its own write at once.
Write(d, x, s) ==
    /\ queue' = [queue EXCEPT ![d] = Append(@, [doc |-> x, student |-> s])]
    /\ view'  = [view EXCEPT ![d][x] = s]

\* A generated id is in use nowhere.
Fresh(x) == students[x] = None /\ \A d \in Device : view[d][x] = None

\* Bound: there is an unused id for one more student, beyond one for each
\* listener.
Spare == Cardinality({x \in Doc : Fresh(x)})
            > Cardinality(UNION {{d} \X asked[d] : d \in Device})

\* The row of a table: the i-th id in the order of the ids.
Row(S, i) == CHOOSE x \in S : Cardinality({y \in S : y <= x}) = i

\* The menu comes up: the list is emptied and asked for.
ToMenu(d) ==
    /\ loads[d] < MaxLoads
    /\ screen' = [screen EXCEPT ![d] = "menu"]
    /\ ids'    = [ids EXCEPT ![d] = {}]
    /\ loads'  = [loads EXCEPT ![d] = @ + 1]
    /\ table'  = [table EXCEPT ![d] = NoTable]
----------------------------------------------------------------------------
(* The menu, the table and the edit screen.                                *)

\* Back to the menu, or the menu again after another tab.
MenuAppears(d) ==
    /\ screen[d] \in {"menu", "add", "list"}
    /\ ToMenu(d)
    /\ UNCHANGED <<students, view, queue, cells, copy, current, form, asked>>

LoadAnswer(d) ==
    /\ loads[d] > 0
    /\ ids'   = [ids EXCEPT ![d] = {x \in Doc : view[d][x] # None}]
    /\ loads' = [loads EXCEPT ![d] = @ - 1]
    /\ UNCHANGED <<students, view, queue, screen, table, cells, copy, current,
                   form, asked>>

\* The table is drawn from the list as it is; each row gets a listener.
OpenList(d) ==
    /\ screen[d] = "menu"
    /\ screen' = [screen EXCEPT ![d] = "list"]
    /\ table'  = [table EXCEPT ![d] = [rows |-> ids[d], quiet |-> loads[d] = 0]]
    /\ cells'  = [cells EXCEPT ![d] = @ \cup ids[d]]
    /\ UNCHANGED <<students, view, queue, ids, loads, copy, current, form, asked>>

\* A cell's listener stores a document that has a name.
CellHears(d, x) ==
    /\ x \in cells[d]
    /\ view[d][x].name # NoName /\ copy[d][x] # view[d][x]
    /\ copy' = [copy EXCEPT ![d][x] = view[d][x]]
    /\ UNCHANGED <<students, view, queue, ids, loads, screen, table, cells,
                   current, form, asked>>

\* The row tapped picks an id from the list as it is now.
Tapped_Reversed(d, i) == Row(ids[d], Cardinality(ids[d]) + 1 - i)
Tapped(d, i) == Row(ids[d], i)

\* didSelectRowAt, and the edit screen filled from the copy.
TapRow(d, i) ==
    /\ screen[d] = "list"
    /\ i <= Cardinality(table[d].rows) /\ i <= Cardinality(ids[d])
    /\ LET x == Tapped(d, i)
       IN  /\ copy[d][x] # None
           /\ current' = [current EXCEPT ![d] = x]
           /\ form'    = [form EXCEPT ![d] = copy[d][x]]
    /\ screen' = [screen EXCEPT ![d] = "edit"]
    /\ UNCHANGED <<students, view, queue, ids, loads, table, cells, copy, asked>>

\* confirmAction: the name and the status may have been changed, the number
\* field is disabled.
EditConfirm(d, m, a) ==
    /\ screen[d] = "edit" /\ Room(d)
    /\ Write(d, current[d], [form[d] EXCEPT !.name = m, !.active = a])
    /\ screen' = [screen EXCEPT ![d] = "list"]
    /\ form'   = [form EXCEPT ![d] = None]
    /\ UNCHANGED <<students, ids, loads, table, cells, copy, current, asked>>

EditCancel(d) ==
    /\ screen[d] = "edit"
    /\ screen' = [screen EXCEPT ![d] = "list"]
    /\ form'   = [form EXCEPT ![d] = None]
    /\ UNCHANGED <<students, view, queue, ids, loads, table, cells, copy,
                   current, asked>>
----------------------------------------------------------------------------
(* Adding a student.                                                       *)

NewStudent_Swapped(n, m) == [number |-> m, name |-> n, active |-> TRUE]
NewStudent(n, m) == [number |-> n, name |-> m, active |-> TRUE]

\* From the menu, or from an empty table.
OpenAdd(d) ==
    /\ screen[d] = "menu" \/ (screen[d] = "list" /\ table[d].rows = {})
    /\ screen' = [screen EXCEPT ![d] = "add"]
    /\ table'  = [table EXCEPT ![d] = NoTable]
    /\ UNCHANGED <<students, view, queue, ids, loads, cells, copy, current,
                   form, asked>>

\* confirmButton when the list does not have exactly one id: the key "check"
\* is read before any answer can have set it, so the student is inserted.
\* Nobody has checked that the fields are filled.
AddConfirm(d, n, m, x) ==
    /\ screen[d] = "add" /\ Cardinality(ids[d]) # 1
    /\ Fresh(x) /\ Spare /\ Room(d)
    /\ Write(d, x, NewStudent(n, m))
    /\ ToMenu(d)
    /\ UNCHANGED <<students, cells, copy, current, form, asked>>

\* confirmButton when it has one: a listener on that document.
AskConfirm(d, n, m) ==
    /\ screen[d] = "add" /\ Cardinality(ids[d]) = 1
    /\ Cardinality(asked[d]) < MaxAsks /\ Spare
    /\ asked' = [asked EXCEPT ![d] = @ \cup
                   {[doc |-> CHOOSE x \in ids[d] : TRUE, number |-> n, name |-> m,
                     last |-> None, writes |-> 0]}]
    /\ UNCHANGED <<students, view, queue, ids, loads, screen, table, cells, copy,
                   current, form>>

\* A listener stays for good, whatever it has done.
Heard_Once(q, s, k) == {}
Heard(q, s, k) == {[q EXCEPT !.last = s, !.writes = @ + k]}

\* The listener hears of its document, the first time or because it changed,
\* and writes k documents.  The OK of the alert it may show is MenuAppears.
Hears(d, q, k) ==
    /\ view[d][q.doc] # q.last
    /\ asked' = [asked EXCEPT ![d] = (@ \ {q}) \cup Heard(q, view[d][q.doc], k)]
    /\ UNCHANGED <<students, ids, loads, screen, table, cells, copy, current, form>>

\* A document without a name is taken.
AskTakes(d, q) ==
    /\ view[d][q.doc].name = NoName
    /\ q.writes < MaxWrites
    /\ Room(d) /\ Write(d, q.doc, NewStudent(q.number, q.name))
    /\ Hears(d, q, 1)

Existed(s, q) == s.number = q.number

\* The same number is refused.
AskRefused(d, q) ==
    /\ view[d][q.doc].name # NoName /\ Existed(view[d][q.doc], q)
    /\ Hears(d, q, 0)
    /\ UNCHANGED <<view, queue>>

\* Any other is inserted.
AskInserts(d, q, x) ==
    /\ view[d][q.doc].name # NoName /\ ~Existed(view[d][q.doc], q)
    /\ q.writes < MaxWrites
    /\ Fresh(x) /\ Room(d) /\ Write(d, x, NewStudent(q.number, q.name))
    /\ Hears(d, q, 1)
----------------------------------------------------------------------------
(* Restarts, and Firestore.                                                *)

\* The app stops, by itself (a row without a copy, or beyond the list: a
\* forced cast or an index out of range) or killed, and is started again.
Restart(d) ==
    /\ screen' = [screen EXCEPT ![d] = "menu"]
    /\ ids'    = [ids EXCEPT ![d] = {}]
    /\ loads'  = [loads EXCEPT ![d] = 1]
    /\ table'  = [table EXCEPT ![d] = NoTable]
    /\ cells'  = [cells EXCEPT ![d] = {}]
    /\ form'   = [form EXCEPT ![d] = None]
    /\ asked'  = [asked EXCEPT ![d] = {}]
    /\ UNCHANGED <<students, view, queue, copy, current>>

TapRowFails(d, i) ==
    /\ screen[d] = "list" /\ i <= Cardinality(table[d].rows)
    /\ i > Cardinality(ids[d]) \/ copy[d][Tapped(d, i)] = None
    /\ Restart(d)

\* OK to the deletion of a row: it deletes no document, and deleteRows stops the
\* app unless the list has become one shorter than the table.  Students only
\* become more, so the list under a table never does.
DeleteRowFails(d) ==
    /\ screen[d] = "list" /\ table[d].rows # {}
    /\ Cardinality(ids[d]) # Cardinality(table[d].rows) - 1
    /\ Restart(d)

\* The server applies the oldest write of device d.
Commit(d) ==
    /\ queue[d] # <<>>
    /\ LET w == Head(queue[d])
       IN  students' = [students EXCEPT ![w.doc] = w.student]
    /\ queue' = [queue EXCEPT ![d] = Tail(@)]
    /\ UNCHANGED <<view, ids, loads, screen, table, cells, copy, current, form,
                   asked>>

\* Device d hears of the server's state of a document it has no write for.
Sync(d, x) ==
    /\ view[d][x] # students[x]
    /\ \A i \in 1 .. Len(queue[d]) : queue[d][i].doc # x
    /\ view' = [view EXCEPT ![d][x] = students[x]]
    /\ UNCHANGED <<students, queue, ids, loads, screen, table, cells, copy,
                   current, form, asked>>

Adds(d) ==
    \/ OpenAdd(d)
    \/ \E n \in Number, m \in Entered, x \in Doc : AddConfirm(d, n, m, x)
    \/ \E n \in Number, m \in Entered : AskConfirm(d, n, m)

Edits(d) ==
    \/ OpenList(d)
    \/ \E i \in 1 .. Cardinality(Doc) : TapRow(d, i)
    \/ \E i \in 1 .. Cardinality(Doc) : TapRowFails(d, i)
    \/ DeleteRowFails(d)
    \/ \E m \in Entered, a \in BOOLEAN : EditConfirm(d, m, a)
    \/ EditCancel(d)

Answers(d, q) ==
    AskTakes(d, q) \/ AskRefused(d, q) \/ \E x \in Doc : AskInserts(d, q, x)

Next ==
    \E d \in Device :
        \/ "add" \in Duty[d] /\ Adds(d)
        \/ "edit" \in Duty[d] /\ Edits(d)
        \/ "restart" \in Duty[d] /\ Restart(d)
        \/ MenuAppears(d)
        \/ LoadAnswer(d)
        \/ \E x \in Doc : CellHears(d, x)
        \/ \E q \in asked[d] : Answers(d, q)
        \/ Commit(d)
        \/ \E x \in Doc : Sync(d, x)

Spec == Init /\ [][Next]_vars

\* Firestore sends each write until the server has taken it, fetches a document
\* that has a listener, and tells the listener.
FairSpec ==
    /\ Spec
    /\ \A d \in Device :
        /\ WF_vars(Commit(d))
        /\ \A x \in Doc : WF_vars((\E q \in asked[d] : q.doc = x) /\ Sync(d, x))
        /\ \A n \in Number, m \in Entered :
              WF_vars(\E q \in asked[d] : q.number = n /\ q.name = m /\ Answers(d, q))
----------------------------------------------------------------------------
(* Properties.                                                             *)

\* Every variable keeps its type.
TypeOK ==
    /\ students \in [Doc -> Student \cup {None}]
    /\ view \in [Device -> [Doc -> Student \cup {None}]]
    /\ queue \in [Device -> Seq([doc : Doc, student : Student])]
    /\ ids \in [Device -> SUBSET Doc]
    /\ loads \in [Device -> 0 .. MaxLoads]
    /\ screen \in [Device -> {"menu", "list", "edit", "add"}]
    /\ table \in [Device -> [rows : SUBSET Doc, quiet : BOOLEAN]]
    /\ cells \in [Device -> SUBSET Doc]
    /\ copy \in [Device -> [Doc -> Student \cup {None}]]
    /\ current \in [Device -> Doc \cup {None}]
    /\ form \in [Device -> Student \cup {None}]
    /\ asked \in [Device -> SUBSET Ask]

\* The row tapped opens the student it shows, when no list of ids was still
\* awaited as the table was drawn: viewWillAppear's late answers are the only
\* thing that moves rows under the librarian.
RowOpened ==
    [][\A d \in Device, i \in 1 .. Cardinality(Doc) :
          TapRow(d, i) /\ table[d].quiet => current'[d] = Row(table[d].rows, i)]_vars

\* Where no app is restarted, a student confirmed against the only document of
\* the list is in the library in the end and for good, even when another device
\* takes the same free document at the same time: the listener hears of it and
\* inserts.
AddStays ==
    \A n \in Number :
        (\E d \in Device : \E q \in asked[d] : q.number = n)
            ~> [](\E x \in Doc : students[x] # None /\ students[x].number = n)
=============================================================================
