-------------------------- MODULE StudentsProofs ---------------------------
(* Proofs about the students: the types of the state and the table.        *)
EXTENDS Students, Ranks

\* The variables the argument is about are functions of the devices.
PerDevice ==
    /\ ids \in [Device -> SUBSET Doc] /\ loads \in [Device -> Int]
    /\ table \in [Device -> [rows : SUBSET Doc, quiet : BOOLEAN]]
    /\ current = [d \in Device |-> current[d]]

\* The rows of a table drawn while no list was awaited are still the list: the
\* list changes by an answer, and a read is only made by the menu, which takes
\* the table away.
RowsStay ==
    \A d \in Device : table[d].quiet => loads[d] = 0 /\ ids[d] = table[d].rows

RowsInv == PerDevice /\ RowsStay

\* It holds at the start.
LEMMA RowsInit == Init => RowsInv
  BY DEF Init, RowsInv, PerDevice, RowsStay, NoTable

\* Every step keeps the invariant.
LEMMA RowsStep == RowsInv /\ [Next]_vars => RowsInv'
  <1> SUFFICES ASSUME RowsInv, [Next]_vars PROVE RowsInv'
    OBVIOUS
  <1> USE DEF RowsInv, PerDevice, RowsStay
  <1>1. ASSUME NEW d \in Device, ToMenu(d), current' = current PROVE RowsInv'
    BY <1>1 DEF ToMenu, NoTable
  <1>2. ASSUME NEW d \in Device, LoadAnswer(d) PROVE RowsInv'
    BY <1>2 DEF LoadAnswer
  <1>3. ASSUME NEW d \in Device, OpenList(d) PROVE RowsInv'
    BY <1>3 DEF OpenList
  <1>4. ASSUME NEW d \in Device, OpenAdd(d) PROVE RowsInv'
    BY <1>4 DEF OpenAdd, NoTable
  <1>5. ASSUME NEW d \in Device, Restart(d) PROVE RowsInv'
    BY <1>5 DEF Restart, NoTable
  <1>6. ASSUME NEW d \in Device, NEW x, current' = [current EXCEPT ![d] = x],
               UNCHANGED <<ids, loads, table>>
        PROVE  RowsInv'
    BY <1>6
  <1>7. ASSUME UNCHANGED <<ids, loads, table, current>> PROVE RowsInv'
    BY <1>7
  <1>8. ASSUME NEW d \in Device, Adds(d) PROVE RowsInv'
    BY <1>1, <1>4, <1>7, <1>8 DEF Adds, AddConfirm, AskConfirm
  <1>9. ASSUME NEW d \in Device, Edits(d) PROVE RowsInv'
    BY <1>3, <1>5, <1>6, <1>7, <1>9
       DEF Edits, TapRow, TapRowFails, DeleteRowFails, EditConfirm, EditCancel
  <1>10. ASSUME NEW d \in Device, NEW q \in asked[d], Answers(d, q) PROVE RowsInv'
    BY <1>7, <1>10 DEF Answers, AskTakes, AskRefused, AskInserts, Hears
  <1>11. ASSUME NEW d \in Device, MenuAppears(d) PROVE RowsInv'
    BY <1>1, <1>11 DEF MenuAppears
  <1>12. ASSUME NEW d \in Device, NEW x \in Doc, CellHears(d, x) \/ Sync(d, x)
         PROVE  RowsInv'
    BY <1>7, <1>12 DEF CellHears, Sync
  <1>13. ASSUME NEW d \in Device, Commit(d) PROVE RowsInv'
    BY <1>7, <1>13 DEF Commit
  <1>14. CASE UNCHANGED vars
    BY <1>7, <1>14 DEF vars
  <1> QED
    BY <1>2, <1>5, <1>8, <1>9, <1>10, <1>11, <1>12, <1>13, <1>14 DEF Next

\* The row tapped opens the student it shows, when no list was awaited as the
\* table was drawn.
THEOREM RowOpenedHolds == Spec => RowOpened
  <1>1. Spec => []RowsInv
    BY RowsInit, RowsStep, PTL DEF Spec
  <1>2. ASSUME RowsInv, NEW d \in Device, NEW i \in 1 .. Cardinality(Doc), TapRow(d, i),
               table[d].quiet
        PROVE  current'[d] = Row(table[d].rows, i)
    BY <1>2 DEF RowsInv, PerDevice, RowsStay, TapRow, Tapped
  <1>3. RowsInv /\ [Next]_vars =>
          [\A d \in Device, i \in 1 .. Cardinality(Doc) :
             TapRow(d, i) /\ table[d].quiet => current'[d] = Row(table[d].rows, i)]_vars
    BY <1>2
  <1> QED
    BY <1>1, <1>3, PTL DEF Spec, RowOpened
----------------------------------------------------------------------------
(* Types.                                                                  *)

Put == [doc : Doc, student : Student]

\* The edit screen is only ever open on a student.
EditOpen == \A d \in Device : screen[d] = "edit" => form[d] # None /\ current[d] # None

TypeInv == TypeOK /\ EditOpen

\* A row within the list picks an id of the list.
LEMMA RowIsId ==
    ASSUME NEW S \in SUBSET Doc, NEW i \in 1 .. Cardinality(S)
    PROVE  Row(S, i) \in S
  <1>1. IsFiniteSet(S) /\ S \in SUBSET Nat
    BY StudentsAssumption, FS_Subset
  <1>2. \E x \in S : Cardinality({y \in S : y <= x}) = i
    BY <1>1, RankTaken
  <1> QED
    BY <1>2 DEF Row

\* A write of a student to a document keeps the types of what it changes.
LEMMA WriteTypes ==
    ASSUME TypeOK, NEW d \in Device, NEW x \in Doc, NEW s \in Student, Write(d, x, s)
    PROVE  /\ queue' \in [Device -> Seq(Put)]
           /\ view' \in [Device -> [Doc -> Student \cup {None}]]
  <1>1. [doc |-> x, student |-> s] \in Put
    BY DEF Put
  <1>2. queue[d] \in Seq(Put)
    BY DEF TypeOK, Put
  <1>3. Append(queue[d], [doc |-> x, student |-> s]) \in Seq(Put)
    BY <1>1, <1>2
  <1>4. queue' \in [Device -> Seq(Put)]
    BY <1>3 DEF Write, TypeOK, Put
  <1> QED
    BY <1>4 DEF Write, TypeOK

LEMMA NewIsStudent ==
    ASSUME NEW n \in Number, NEW m \in Name PROVE NewStudent(n, m) \in Student
  BY DEF NewStudent, Student

LEMMA TypeInit == Init => TypeInv
  <1>1. StudentsAssumption
    BY StudentsAssumption
  <1>2. \A d \in Device : <<>> \in Seq(Put)
    OBVIOUS
  <1> QED
    BY <1>1, <1>2 DEF Init, TypeInv, TypeOK, EditOpen, NoTable, StudentsAssumption, Put

\* Confirming, tapping and answers, the steps the types are about.
LEMMA AddTypes ==
    ASSUME TypeInv, NEW d \in Device, Adds(d) PROVE TypeInv'
  <1>1. CASE OpenAdd(d)
    BY <1>1 DEF OpenAdd, TypeInv, TypeOK, EditOpen, NoTable
  <1>2. ASSUME NEW n \in Number, NEW m \in Entered, NEW x \in Doc, AddConfirm(d, n, m, x)
        PROVE  TypeInv'
    <2>1. /\ queue' \in [Device -> Seq(Put)]
          /\ view' \in [Device -> [Doc -> Student \cup {None}]]
      BY <1>2, WriteTypes, NewIsStudent, StudentsAssumption DEF AddConfirm, TypeInv
    <2>2. loads[d] + 1 \in 0 .. MaxLoads
      BY <1>2, StudentsAssumption DEF AddConfirm, ToMenu, TypeInv, TypeOK
    <2> QED
      BY <1>2, <2>1, <2>2 DEF AddConfirm, ToMenu, TypeInv, TypeOK, EditOpen, NoTable, Put
  <1>3. ASSUME NEW n \in Number, NEW m \in Entered, AskConfirm(d, n, m) PROVE TypeInv'
    <2>1. ids[d] # {} /\ ids[d] \in SUBSET Doc
      <3>1. Cardinality(ids[d]) = 1 /\ ids[d] \in SUBSET Doc
        BY <1>3 DEF AskConfirm, TypeInv, TypeOK
      <3>2. Cardinality({}) = 0
        BY FS_EmptySet
      <3> QED
        BY <3>1, <3>2
    <2>2. (CHOOSE x \in ids[d] : TRUE) \in Doc
      BY <2>1
    <2>3. [doc |-> CHOOSE x \in ids[d] : TRUE, number |-> n, name |-> m, last |-> None,
           writes |-> 0] \in Ask
      BY <2>2, StudentsAssumption DEF Ask
    <2>4. asked' \in [Device -> SUBSET Ask]
      BY <1>3, <2>3 DEF AskConfirm, TypeInv, TypeOK
    <2> QED
      BY <1>3, <2>4 DEF AskConfirm, TypeInv, TypeOK, EditOpen
  <1> QED
    BY <1>1, <1>2, <1>3 DEF Adds

LEMMA RestartTypes ==
    ASSUME TypeInv, NEW d \in Device, Restart(d) PROVE TypeInv'
  <1>1. 1 \in 0 .. MaxLoads
    BY StudentsAssumption
  <1>2. TypeOK'
    BY <1>1 DEF Restart, TypeInv, TypeOK, NoTable
  <1>3. EditOpen'
    BY DEF Restart, TypeInv, TypeOK, EditOpen
  <1> QED
    BY <1>2, <1>3 DEF TypeInv

LEMMA EditTypes ==
    ASSUME TypeInv, NEW d \in Device, Edits(d) PROVE TypeInv'
  <1>1. CASE OpenList(d)
    BY <1>1 DEF OpenList, TypeInv, TypeOK, EditOpen
  <1>2. ASSUME NEW i \in 1 .. Cardinality(Doc), TapRow(d, i) PROVE TypeInv'
    <2>1. ids[d] \in SUBSET Doc /\ i \in 1 .. Cardinality(ids[d])
      <3>1. ids[d] \in SUBSET Doc
        BY DEF TypeInv, TypeOK
      <3>2. Cardinality(ids[d]) \in Nat /\ Cardinality(Doc) \in Nat
        BY <3>1, StudentsAssumption, FS_Subset, FS_CardinalityType
      <3> QED
        BY <1>2, <3>1, <3>2 DEF TapRow
    <2>2. Tapped(d, i) \in Doc /\ Tapped(d, i) # None
      BY <2>1, RowIsId, StudentsAssumption DEF Tapped
    <2>3. copy[d][Tapped(d, i)] \in Student /\ copy[d][Tapped(d, i)] # None
      BY <1>2, <2>2 DEF TapRow, TypeInv, TypeOK
    <2> QED
      BY <1>2, <2>2, <2>3 DEF TapRow, TypeInv, TypeOK, EditOpen
  <1>3. ASSUME NEW i \in 1 .. Cardinality(Doc), TapRowFails(d, i) PROVE TypeInv'
    BY <1>3, RestartTypes DEF TapRowFails
  <1>4. CASE DeleteRowFails(d)
    BY <1>4, RestartTypes DEF DeleteRowFails
  <1>5. ASSUME NEW m \in Entered, NEW a \in BOOLEAN, EditConfirm(d, m, a) PROVE TypeInv'
    <2>1. form[d] \in Student /\ current[d] \in Doc
      BY <1>5 DEF EditConfirm, TypeInv, TypeOK, EditOpen
    <2>2. [form[d] EXCEPT !.name = m, !.active = a] \in Student
      BY <2>1, StudentsAssumption DEF Student
    <2>3. /\ queue' \in [Device -> Seq(Put)]
          /\ view' \in [Device -> [Doc -> Student \cup {None}]]
      BY <1>5, <2>1, <2>2, WriteTypes DEF EditConfirm, TypeInv
    <2> QED
      BY <1>5, <2>3 DEF EditConfirm, TypeInv, TypeOK, EditOpen, Put
  <1>6. CASE EditCancel(d)
    BY <1>6 DEF EditCancel, TypeInv, TypeOK, EditOpen
  <1> QED
    BY <1>1, <1>2, <1>3, <1>4, <1>5, <1>6 DEF Edits

LEMMA AnswerTypes ==
    ASSUME TypeInv, NEW d \in Device, NEW q \in asked[d], Answers(d, q) PROVE TypeInv'
  <1>1. q \in Ask
    BY DEF TypeInv, TypeOK
  <1>2. q.doc \in Doc /\ q.writes \in Nat /\ view[d][q.doc] \in Student \cup {None}
        /\ q.writes <= MaxWrites
    <2>1. q.doc \in Doc /\ q.writes \in 0 .. MaxWrites
      BY <1>1 DEF Ask
    <2>2. view[d][q.doc] \in Student \cup {None}
      BY <2>1 DEF TypeInv, TypeOK
    <2> QED
      BY <2>1, <2>2, StudentsAssumption
  <1>3. NewStudent(q.number, q.name) \in Student
    BY <1>1, NewIsStudent DEF Ask
  <1>4. ASSUME NEW k \in {0, 1}, q.writes + k <= MaxWrites, Hears(d, q, k),
               queue' \in [Device -> Seq(Put)],
               view' \in [Device -> [Doc -> Student \cup {None}]]
        PROVE  TypeInv'
    <2>1. [q EXCEPT !.last = view[d][q.doc], !.writes = @ + k] \in Ask
      <3>1. q.writes + k \in 0 .. MaxWrites
        BY <1>2, <1>4, StudentsAssumption
      <3> QED
        BY <1>1, <1>2, <3>1 DEF Ask
    <2>2. asked' \in [Device -> SUBSET Ask]
      BY <1>4, <2>1 DEF Hears, Heard, TypeInv, TypeOK
    <2>3. UNCHANGED <<students, ids, loads, screen, table, cells, copy, current, form>>
      BY <1>4 DEF Hears, AskTakes, AskRefused, AskInserts
    <2> QED
      BY <1>4, <2>2, <2>3 DEF TypeInv, TypeOK, EditOpen, Put
  <1>5. CASE AskTakes(d, q)
    <2>1. /\ queue' \in [Device -> Seq(Put)]
          /\ view' \in [Device -> [Doc -> Student \cup {None}]]
      BY <1>2, <1>3, <1>5, WriteTypes DEF AskTakes, TypeInv
    <2>2. q.writes + 1 <= MaxWrites /\ Hears(d, q, 1)
      <3>1. q.writes < MaxWrites /\ Hears(d, q, 1)
        BY <1>5 DEF AskTakes
      <3> QED
        BY <1>2, <3>1, StudentsAssumption
    <2> QED
      BY <1>4, <2>1, <2>2
  <1>6. CASE AskRefused(d, q)
    <2>1. /\ queue' \in [Device -> Seq(Put)]
          /\ view' \in [Device -> [Doc -> Student \cup {None}]]
      BY <1>6 DEF AskRefused, TypeInv, TypeOK, Put
    <2> QED
      BY <1>2, <1>4, <1>6, <2>1 DEF AskRefused
  <1>7. ASSUME NEW x \in Doc, AskInserts(d, q, x) PROVE TypeInv'
    <2>1. /\ queue' \in [Device -> Seq(Put)]
          /\ view' \in [Device -> [Doc -> Student \cup {None}]]
      BY <1>3, <1>7, WriteTypes DEF AskInserts, TypeInv
    <2>2. q.writes + 1 <= MaxWrites /\ Hears(d, q, 1)
      <3>1. q.writes < MaxWrites /\ Hears(d, q, 1)
        BY <1>7 DEF AskInserts
      <3> QED
        BY <1>2, <3>1, StudentsAssumption
    <2> QED
      BY <1>4, <2>1, <2>2
  <1> QED
    BY <1>5, <1>6, <1>7 DEF Answers

LEMMA TypeStep == TypeInv /\ [Next]_vars => TypeInv'
  <1> SUFFICES ASSUME TypeInv, [Next]_vars PROVE TypeInv'
    OBVIOUS
  <1>1. ASSUME NEW d \in Device, MenuAppears(d) PROVE TypeInv'
    <2>1. loads[d] + 1 \in 0 .. MaxLoads
      BY <1>1, StudentsAssumption DEF MenuAppears, ToMenu, TypeInv, TypeOK
    <2> QED
      BY <1>1, <2>1 DEF MenuAppears, ToMenu, TypeInv, TypeOK, EditOpen, NoTable
  <1>2. ASSUME NEW d \in Device, LoadAnswer(d) PROVE TypeInv'
    <2>1. loads[d] - 1 \in 0 .. MaxLoads
      BY <1>2, StudentsAssumption DEF LoadAnswer, TypeInv, TypeOK
    <2> QED
      BY <1>2, <2>1 DEF LoadAnswer, TypeInv, TypeOK, EditOpen
  <1>3. ASSUME NEW d \in Device, NEW x \in Doc, CellHears(d, x) PROVE TypeInv'
    <2>1. view[d][x] \in Student \cup {None}
      BY DEF TypeInv, TypeOK
    <2>2. copy' \in [Device -> [Doc -> Student \cup {None}]]
      BY <1>3, <2>1 DEF CellHears, TypeInv, TypeOK
    <2>3. UNCHANGED <<students, view, queue, ids, loads, screen, table, cells, current,
                      form, asked>>
      BY <1>3 DEF CellHears
    <2> QED
      BY <2>2, <2>3 DEF TypeInv, TypeOK, EditOpen
  <1>4. ASSUME NEW d \in Device, Commit(d) PROVE TypeInv'
    <2>1. queue[d] \in Seq(Put) /\ queue[d] # <<>>
      BY <1>4 DEF Commit, TypeInv, TypeOK, Put
    <2>2. Head(queue[d]) \in Put /\ Tail(queue[d]) \in Seq(Put)
      BY <2>1
    <2>3. queue' \in [Device -> Seq(Put)] /\ students' \in [Doc -> Student \cup {None}]
      BY <1>4, <2>2 DEF Commit, TypeInv, TypeOK, Put
    <2> QED
      BY <1>4, <2>3 DEF Commit, TypeInv, TypeOK, EditOpen, Put
  <1>5. ASSUME NEW d \in Device, NEW x \in Doc, Sync(d, x) PROVE TypeInv'
    <2>1. students[x] \in Student \cup {None}
      BY DEF TypeInv, TypeOK
    <2>2. view' \in [Device -> [Doc -> Student \cup {None}]]
      BY <1>5, <2>1 DEF Sync, TypeInv, TypeOK
    <2>3. UNCHANGED <<students, queue, ids, loads, screen, table, cells, copy, current,
                      form, asked>>
      BY <1>5 DEF Sync
    <2> QED
      BY <2>2, <2>3 DEF TypeInv, TypeOK, EditOpen
  <1>6. CASE UNCHANGED vars
    BY <1>6 DEF vars, TypeInv, TypeOK, EditOpen
  <1> QED
    BY <1>1, <1>2, <1>3, <1>4, <1>5, <1>6, AddTypes, EditTypes, AnswerTypes, RestartTypes
       DEF Next

\* Every variable keeps its type: the row tapped is always a student's, and no
\* document is written whose form was not filled.
THEOREM TypeCorrect == Spec => []TypeOK
  <1>1. TypeInv => TypeOK
    BY DEF TypeInv
  <1> QED
    BY <1>1, TypeInit, TypeStep, PTL DEF Spec
============================================================================
