--------------------------- MODULE CardListProofs ---------------------------
(***************************************************************************)
(* Theorems about CardList, for every value of its constants.              *)
(*                                                                         *)
(* The listener of the current student is the last attached, and every     *)
(* change of the cards calls the listeners in the order attached; so the   *)
(* last callback due is always one of that student, with the cards there   *)
(* are now, and once the callbacks have run the keys hold its cards,       *)
(* however many listeners of other students are left behind (QueueInv).    *)
(* From then on, as long as nothing becomes due, the rows on the screen,   *)
(* the copies they stored and the keys are of the same answer (DeskInv).   *)
(***************************************************************************)
EXTENDS CardList, Ranks, SequenceTheorems

IsSeq(s) == \E S : s \in Seq(S)

Newest == listeners[Len(listeners)]

\* The inductive invariant.
QueueInv ==
    /\ IsSeq(listeners) /\ IsSeq(due)
    /\ listeners # <<>> => Newest = current
    /\ due # <<>> => /\ listeners # <<>>
                     /\ due[Len(due)] = [student |-> current, docs |-> cards]
    /\ listeners # <<>> /\ due = <<>> => list = ListFor(current, cards)

----------------------------------------------------------------------------
(* The last element of a sequence.                                         *)

LEMMA AppendLast ==
    ASSUME NEW s, IsSeq(s), NEW e
    PROVE  /\ IsSeq(Append(s, e)) /\ Append(s, e) # <<>>
           /\ Append(s, e)[Len(Append(s, e))] = e
<1>1. PICK S : s \in Seq(S)
    BY DEF IsSeq
<1> DEFINE T == S \cup {e}
<1>2. s \in Seq(T) /\ e \in T
    BY <1>1
<1> HIDE DEF T
<1>3. Append(s, e) \in Seq(T) /\ Append(s, e) # <<>>
      /\ Append(s, e)[Len(Append(s, e))] = e
    BY <1>2, AppendProperties, LenProperties
<1> QED BY <1>3 DEF IsSeq

LEMMA ConcatLast ==
    ASSUME NEW s, IsSeq(s), NEW t, IsSeq(t), t # <<>>
    PROVE  /\ IsSeq(s \o t) /\ s \o t # <<>>
           /\ (s \o t)[Len(s \o t)] = t[Len(t)]
<1>1. PICK S, T : s \in Seq(S) /\ t \in Seq(T)
    BY DEF IsSeq
<1> DEFINE U == S \cup T
<1>2. s \in Seq(U) /\ t \in Seq(U)
    BY <1>1
<1> HIDE DEF U
<1>3. /\ Len(s) \in Nat /\ Len(t) \in Nat /\ Len(t) >= 1
      /\ Len(s \o t) = Len(s) + Len(t) /\ s \o t \in Seq(U)
    BY <1>2, ConcatProperties, LenProperties, EmptySeq
<1>4. s \o t # <<>>
    BY <1>3, EmptySeq
<1>5. (s \o t)[Len(s) + Len(t)] = t[Len(t)]
    BY <1>2, <1>3, ConcatProperties
<1> QED BY <1>3, <1>4, <1>5 DEF IsSeq

LEMMA TailLast ==
    ASSUME NEW s, IsSeq(s), s # <<>>
    PROVE  /\ IsSeq(Tail(s))
           /\ Tail(s) # <<>> => Tail(s)[Len(Tail(s))] = s[Len(s)]
           /\ Tail(s) = <<>> => Head(s) = s[Len(s)]
<1>1. PICK S : s \in Seq(S)
    BY DEF IsSeq
<1>2. /\ Tail(s) \in Seq(S) /\ Len(s) \in Nat /\ Len(s) >= 1
      /\ Len(Tail(s)) = Len(s) - 1 /\ Head(s) = s[1]
      /\ \A i \in 1 .. Len(Tail(s)) : Tail(s)[i] = s[i + 1]
    BY <1>1, HeadTailProperties, LenProperties, EmptySeq
<1>3. Tail(s) # <<>> => Tail(s)[Len(Tail(s))] = s[Len(s)]
    <2> SUFFICES ASSUME Tail(s) # <<>> PROVE Tail(s)[Len(Tail(s))] = s[Len(s)]
        OBVIOUS
    <2>1. Len(Tail(s)) >= 1
        BY <1>2, EmptySeq, LenProperties
    <2> QED BY <1>2, <2>1
<1>4. Tail(s) = <<>> => Head(s) = s[Len(s)]
    <2>1. Tail(s) = <<>> => Len(Tail(s)) = 0
        BY EmptySeq
    <2>2. Len(Tail(s)) = 0 => Len(s) = 1
        <3> DEFINE m == Len(Tail(s))
                   n == Len(s)
        <3>1. n \in Nat /\ m = n - 1
            BY <1>2
        <3> HIDE DEF m, n
        <3>2. m = 0 => n = 1
            BY <3>1
        <3> QED BY <3>2 DEF m, n
    <2> QED BY <1>2, <2>1, <2>2
<1> QED BY <1>2, <1>3, <1>4 DEF IsSeq

----------------------------------------------------------------------------
\* A change of the view of the cards calls every listener, the newest last.
LEMMA ChangeKeeps ==
    ASSUME QueueInv, NEW docs, Change(docs), UNCHANGED <<listeners, current, list>>
    PROVE  QueueInv'
<1>1. CASE docs = cards
    BY <1>1 DEF Change, QueueInv, Newest
<1>2. CASE docs # cards /\ listeners = <<>>
    <2>1. due = <<>>
        BY <1>2 DEF QueueInv
    <2>2. Callbacks(docs) = <<>>
        BY <1>2 DEF Callbacks
    <2>3. due' = <<>>
        BY <1>2, <2>1, <2>2 DEF Change
    <2> QED BY <1>2, <2>1, <2>3 DEF QueueInv, Newest
<1>3. CASE docs # cards /\ listeners # <<>>
    <2> DEFINE c == Callbacks(docs)
               R == {[student |-> listeners[i], docs |-> docs] : i \in 1 .. Len(listeners)}
    <2>1. PICK S : listeners \in Seq(S)
        BY DEF QueueInv, IsSeq
    <2>2. Len(listeners) \in Nat /\ Len(listeners) >= 1
        BY <1>3, <2>1, LenProperties, EmptySeq
    <2>3. c \in Seq(R) /\ Len(c) = Len(listeners)
        BY <2>2 DEF Callbacks
    <2>4. c # <<>> /\ IsSeq(c)
        BY <2>2, <2>3, EmptySeq DEF IsSeq
    <2>5. c[Len(c)] = [student |-> current, docs |-> docs]
        BY <1>3, <2>2, <2>3 DEF Callbacks, QueueInv, Newest
    <2>6. due' = due \o c /\ cards' = docs
        BY <1>3 DEF Change
    <2> HIDE DEF c
    <2>7. IsSeq(due') /\ due' # <<>> /\ due'[Len(due')] = [student |-> current, docs |-> docs]
        BY <2>4, <2>5, <2>6, ConcatLast DEF QueueInv
    <2> QED BY <1>3, <2>6, <2>7 DEF QueueInv, Newest
<1> QED BY <1>1, <1>2, <1>3

LEMMA OpenStudentKeeps ==
    ASSUME QueueInv, NEW s, OpenStudent(s)
    PROVE  QueueInv'
<1>1. /\ IsSeq(listeners') /\ listeners' # <<>> /\ Newest' = s
      /\ IsSeq(due') /\ due' # <<>> /\ due'[Len(due')] = [student |-> s, docs |-> cards]
    BY AppendLast DEF QueueInv, OpenStudent, Newest
<1> QED BY <1>1 DEF QueueInv, OpenStudent

LEMMA HearKeeps ==
    ASSUME QueueInv, Hear
    PROVE  QueueInv'
<1>1. /\ IsSeq(due')
      /\ due' # <<>> => due'[Len(due')] = due[Len(due)]
      /\ due' = <<>> => Head(due) = due[Len(due)]
    BY TailLast DEF QueueInv, Hear
<1>2. due[Len(due)] = [student |-> current, docs |-> cards] /\ listeners # <<>>
    BY DEF QueueInv, Hear
<1>3. due' = <<>> => list' = ListFor(current, cards)
    BY <1>1, <1>2 DEF Hear
<1> QED BY <1>1, <1>2, <1>3 DEF QueueInv, Hear, Newest

LEMMA QueueNext == QueueInv /\ [Next]_vars => QueueInv'
<1> SUFFICES ASSUME QueueInv, [Next]_vars PROVE QueueInv'
    OBVIOUS
<1>1. ASSUME UNCHANGED <<listeners, due, list, current, cards>>
      PROVE  QueueInv'
    BY <1>1 DEF QueueInv, Newest
<1>2. ASSUME listeners' = <<>>, due' = <<>>
      PROVE  QueueInv'
    <2>1. IsSeq(listeners') /\ IsSeq(due')
        BY <1>2 DEF IsSeq
    <2> QED BY <1>2, <2>1 DEF QueueInv
<1>3. CASE LeaveEdit
    BY <1>1, <1>3 DEF LeaveEdit
<1>4. CASE OpenCards
    BY <1>1, <1>4 DEF OpenCards
<1>5. CASE CardsAppear
    BY <1>1, <1>5 DEF CardsAppear
<1>6. CASE LeaveCards
    BY <1>1, <1>6 DEF LeaveCards
<1>7. ASSUME NEW i \in 1 .. Len(rows), TapRow(i)
      PROVE  QueueInv'
    BY <1>1, <1>7 DEF TapRow
<1>8. CASE Stops
    BY <1>2, <1>8 DEF Stops
<1>9. ASSUME NEW off \in BOOLEAN, ConfirmCard(off)
      PROVE  QueueInv'
    BY <1>9, ChangeKeeps DEF ConfirmCard
<1>10. CASE OpenBorrow
    BY <1>1, <1>10 DEF OpenBorrow
<1>11. ASSUME NEW k \in Card, AddCard(k)
       PROVE  QueueInv'
    BY <1>11, ChangeKeeps DEF AddCard
<1>12. CASE BackToCards
    BY <1>1, <1>12 DEF BackToCards
<1>13. ASSUME NEW k \in Card, OthersChange(k)
       PROVE  QueueInv'
    <2>1. \E docs : Change(docs)
        BY <1>13 DEF OthersChange
    <2> QED BY <1>13, <2>1, ChangeKeeps DEF OthersChange
<1>14. CASE Restart
    BY <1>2, <1>14 DEF Restart
<1>15. CASE UNCHANGED vars
    BY <1>1, <1>15 DEF vars
<1> QED BY <1>3, <1>4, <1>5, <1>6, <1>7, <1>8, <1>9, <1>10, <1>11, <1>12, <1>13, <1>14, <1>15,
           OpenStudentKeeps, HearKeeps DEF Next

\* For any students, cards and number of listeners left behind: once no
\* callback is due, the keys "data" and "listID" hold the cards of the student
\* whose edit screen was opened last.
THEOREM ListOfNewestHolds == Spec => []ListOfNewest
<1>1. Init => QueueInv
    <2>1. IsSeq(<<>>)
        BY DEF IsSeq
    <2> QED BY <2>1 DEF Init, QueueInv
<1>2. QueueInv => ListOfNewest
    BY DEF QueueInv, ListOfNewest
<1> QED BY <1>1, <1>2, QueueNext, PTL DEF Spec
----------------------------------------------------------------------------
(* What a listener makes of an answer.                                     *)

Views == [Card -> CardDoc \cup {None}]

Mine(s, docs) == {k \in Card : docs[k] # None /\ docs[k].student = s}

\* Each rank has its id.
LEMMA OrderedId ==
    ASSUME NEW S \in SUBSET Card, NEW i \in 1 .. Cardinality(S)
    PROVE  Ordered(S)[i] \in S /\ Cardinality({j \in S : j <= Ordered(S)[i]}) = i
<1>1. S \in SUBSET Nat /\ IsFiniteSet(S)
    BY CardListAssumption, FS_Subset
<1>2. \E k \in S : Cardinality({j \in S : j <= k}) = i
    BY <1>1, RankTaken
<1>3. Ordered(S)[i] = CHOOSE k \in S : Cardinality({j \in S : j <= k}) = i
    BY DEF Ordered
<1> QED BY <1>2, <1>3

\* A list of rows without two of one card.
ListOK(l) ==
    /\ l \in Seq(Row) /\ Len(l) \in Nat
    /\ \A i, j \in 1 .. Len(l) : l[i].id = l[j].id => i = j

\* The rows are the cards of the student, each as the answer has it.
LEMMA ListForRows ==
    ASSUME NEW s \in Student, NEW docs \in Views
    PROVE  /\ ListOK(ListFor(s, docs))
           /\ \A i \in 1 .. Len(ListFor(s, docs)) :
                 LET row == ListFor(s, docs)[i]
                 IN  /\ row.id \in Card /\ row.student = s
                     /\ docs[row.id] = [student |-> s, open |-> row.open]
<1> DEFINE S == Mine(s, docs)
           n == Cardinality(S)
           id(i) == Ordered(S)[i]
           row(i) == [id |-> id(i), student |-> s, open |-> docs[id(i)].open]
           l == [i \in 1 .. n |-> row(i)]
<1>1. S \in SUBSET Card /\ n \in Nat
    <2>1. S \in SUBSET Card
        BY DEF Mine
    <2> QED BY <2>1, CardListAssumption, FS_Subset, FS_CardinalityType
<1>2. ListFor(s, docs) = l
    BY DEF ListFor, Mine
<1>3. ASSUME NEW i \in 1 .. n
      PROVE  /\ id(i) \in S /\ id(i) \in Card
             /\ Cardinality({j \in S : j <= id(i)}) = i
    <2> HIDE DEF S
    <2> QED BY <1>1, OrderedId
<1>4. ASSUME NEW i \in 1 .. n
      PROVE  docs[id(i)] \in CardDoc /\ docs[id(i)].student = s
    <2>1. id(i) \in Card /\ docs[id(i)] # None /\ docs[id(i)].student = s
        BY <1>3 DEF Mine
    <2> HIDE DEF id
    <2> QED BY <2>1 DEF Views
<1> HIDE DEF S, n, id
<1>5. ASSUME NEW i \in 1 .. n
      PROVE  row(i) \in Row /\ docs[id(i)] = [student |-> s, open |-> row(i).open]
    BY <1>3, <1>4 DEF Row, CardDoc
<1>6. l \in Seq(Row) /\ Len(l) = n /\ \A i \in 1 .. n : l[i] = row(i)
    <2>1. \A i \in 1 .. n : row(i) \in Row
        BY <1>5
    <2> HIDE DEF row
    <2> QED BY <1>1, <2>1
<1>7. \A i, j \in 1 .. n : row(i).id = row(j).id => i = j
    <2>1. \A i \in 1 .. n : row(i).id = id(i)
        OBVIOUS
    <2>2. ASSUME NEW i \in 1 .. n, NEW j \in 1 .. n, id(i) = id(j) PROVE i = j
        BY <1>3, <2>2
    <2> QED BY <2>1, <2>2
<1>8. \A i \in 1 .. n : row(i).id = id(i) /\ row(i).student = s /\ id(i) \in Card
    BY <1>3
<1> HIDE DEF l, row
<1>9. ListOK(l)
    BY <1>1, <1>6, <1>7 DEF ListOK
<1>10. \A i \in 1 .. Len(l) : /\ l[i].id \in Card /\ l[i].student = s
                              /\ docs[l[i].id] = [student |-> s, open |-> l[i].open]
    BY <1>5, <1>6, <1>8
<1> QED BY <1>2, <1>9, <1>10
----------------------------------------------------------------------------
(* The rest of the invariant.                                              *)

Call == [student : Student, docs : Views]

\* Every card of old is in new, on the same student: cards are added and
\* closed, never taken away or given to another.
Covers(new, old) ==
    \A k \in Card : old[k] # None => new[k] # None /\ new[k].student = old[k].student

\* What was heard of the cards is covered by the view there is now.
KnownOK ==
    /\ \A n \in 1 .. Len(due) : Covers(cards, due[n].docs)
    /\ list # None => /\ ListOK(list)
                      /\ \A i \in 1 .. Len(list) :
                            /\ cards[list[i].id] # None
                            /\ cards[list[i].id].student = list[i].student
    /\ Covers(cards, saved)

\* A screen beyond the students' is of a student, one beyond the edit screen
\* has a list, and the card screen a card.
ScreenOK ==
    /\ screen \notin {"students", "stopped"} => listeners # <<>> /\ current # None
    /\ screen \in {"cards", "card", "borrow", "alert"} => list # None
    /\ opened # None => screen \in {"card", "alert"} /\ cards[opened.id] # None
    /\ screen = "card" => opened # None

\* The fields that row i of the list leaves in its copy.
CopyOf(i) == [student |-> list[i].student, open |-> list[i].open]

\* The add button says whether the last row is closed.
LastClosed == list # <<>> => ~list[Len(list)].open

\* To a librarian who waits, the rows drawn are the keys of now, their copies
\* are stored, and what is opened is what was tapped.
PatientOK ==
    "hurries" \notin habits =>
        /\ opened # None => opened.form.student = current
        /\ "others" \notin habits =>
              /\ screen \in {"cards", "card", "borrow"} => due = <<>>
              /\ screen = "cards" =>
                    /\ rows = list
                    /\ \A i \in 1 .. Len(list) : saved[list[i].id] = CopyOf(i)
                    /\ list # <<>> => addShown = ~list[Len(list)].open
              /\ screen = "borrow" => LastClosed
              /\ opened # None => opened.id = opened.tapped.id
              /\ screen = "card" => opened.form = cards[opened.id]

DeskInv == TypeOK /\ QueueInv /\ KnownOK /\ ScreenOK /\ PatientOK /\ StopsForKeyOnly

\* Where nothing is due, the list is the one of the current student.
LEMMA ListNow ==
    ASSUME TypeOK, QueueInv, listeners # <<>>, due = <<>>, current # None
    PROVE  /\ ListOK(list) /\ list # None
           /\ \A i \in 1 .. Len(list) :
                 /\ list[i].id \in Card /\ list[i].student = current
                 /\ cards[list[i].id] = CopyOf(i)
<1>1. list = ListFor(current, cards) /\ current \in Student /\ cards \in Views
    BY DEF TypeOK, QueueInv, Views
<1>2. ListOK(list) /\ \A i \in 1 .. Len(list) :
            /\ list[i].id \in Card /\ list[i].student = current
            /\ cards[list[i].id] = [student |-> current, open |-> list[i].open]
    BY <1>1, ListForRows
<1>3. list # None
    BY <1>2, CardListAssumption DEF ListOK
<1> QED BY <1>2, <1>3 DEF CopyOf

\* Drawing the list stores a copy for each row.
LEMMA DrawnStores ==
    ASSUME TypeOK, KnownOK, list # None, NEW shown \in BOOLEAN, Drawn(shown)
    PROVE  /\ saved' \in Views /\ rows' = list /\ list \in Seq(Row) /\ addShown' \in BOOLEAN
           /\ \A i \in 1 .. Len(list) : saved'[list[i].id] = CopyOf(i)
           /\ list # <<>> => addShown' = ~list[Len(list)].open
           /\ Covers(cards, saved')
<1>1. /\ ListOK(list) /\ list \in Seq(Row) /\ Len(list) \in Nat
      /\ \A i \in 1 .. Len(list) : list[i] \in Row
    BY ElementOfSeq DEF KnownOK, ListOK
<1>2. \A i \in 1 .. Len(list) :
         /\ list[i].id \in Card /\ CopyOf(i) \in CardDoc /\ list[i].open \in BOOLEAN
         /\ CopyOf(i).student = list[i].student
    BY <1>1 DEF Row, CardDoc, CopyOf
<1>3. saved' = [k \in Card |->
                   IF \E i \in 1 .. Len(list) : list[i].id = k
                   THEN CopyOf(CHOOSE j \in 1 .. Len(list) : list[j].id = k)
                   ELSE saved[k]]
    BY DEF Drawn, Stored, CopyOf
<1>4. ASSUME NEW k \in Card
      PROVE  \/ \E i \in 1 .. Len(list) : list[i].id = k /\ saved'[k] = CopyOf(i)
             \/ saved'[k] = saved[k]
    <2>1. CASE \E i \in 1 .. Len(list) : list[i].id = k
        <3> DEFINE j == CHOOSE j \in 1 .. Len(list) : list[j].id = k
        <3>1. j \in 1 .. Len(list) /\ list[j].id = k
            BY <2>1
        <3>2. saved'[k] = CopyOf(j)
            BY <1>3, <2>1
        <3> HIDE DEF j
        <3> QED BY <3>1, <3>2
    <2>2. CASE ~ \E i \in 1 .. Len(list) : list[i].id = k
        BY <1>3, <2>2
    <2> QED BY <2>1, <2>2
<1>5. ASSUME NEW i \in 1 .. Len(list) PROVE saved'[list[i].id] = CopyOf(i)
    <2> DEFINE k == list[i].id
               j == CHOOSE j \in 1 .. Len(list) : list[j].id = k
    <2>1. j \in 1 .. Len(list) /\ list[j].id = k
        OBVIOUS
    <2>2. saved'[k] = CopyOf(j)
        BY <1>2, <1>3
    <2> HIDE DEF j
    <2>3. j = i
        BY <1>1, <2>1 DEF ListOK
    <2> QED BY <2>2, <2>3
<1>6. saved' \in Views
    <2>1. \A k \in Card : saved'[k] \in CardDoc \cup {None}
        BY <1>2, <1>4 DEF TypeOK
    <2>2. saved' = [k \in Card |-> saved'[k]]
        BY <1>3
    <2> QED BY <2>1, <2>2 DEF Views
<1>7. Covers(cards, saved')
    <2> SUFFICES ASSUME NEW k \in Card, saved'[k] # None
                 PROVE  cards[k] # None /\ cards[k].student = saved'[k].student
        BY DEF Covers
    <2>1. CASE saved'[k] = saved[k]
        BY <2>1 DEF KnownOK, Covers
    <2>2. ASSUME NEW i \in 1 .. Len(list), list[i].id = k, saved'[k] = CopyOf(i)
          PROVE  cards[k] # None /\ cards[k].student = saved'[k].student
        BY <1>2, <2>2 DEF KnownOK
    <2> QED BY <1>4, <2>1, <2>2
<1>8. addShown' \in BOOLEAN /\ (list # <<>> => addShown' = ~list[Len(list)].open)
    <2>1. list # <<>> => Len(list) \in 1 .. Len(list)
        BY <1>1, EmptySeq
    <2>2. addShown' = IF list = <<>> THEN shown ELSE ~list[Len(list)].open
        BY DEF Drawn
    <2> QED BY <1>2, <2>1, <2>2
<1>9. rows' = list
    BY DEF Drawn
<1> QED BY <1>1, <1>5, <1>6, <1>7, <1>8, <1>9

\* A change by which the cards only grow keeps what is known of them.
LEMMA ChangeKnown ==
    ASSUME TypeOK, KnownOK, NEW docs \in Views, Covers(docs, cards), Change(docs),
           UNCHANGED <<listeners, list, saved>>
    PROVE  KnownOK' /\ due' \in Seq(Call) /\ cards' = docs
<1>1. /\ cards' = docs /\ due \in Seq(Call) /\ listeners \in Seq(Student)
      /\ cards \in Views /\ saved \in Views /\ Len(due) \in Nat /\ Len(listeners) \in Nat
    BY LenProperties DEF Change, TypeOK, Call, Views
<1>2. \A old : Covers(cards, old) => Covers(docs, old)
    BY DEF Covers
<1>3. due' \in Seq(Call) /\ \A n \in 1 .. Len(due') : Covers(docs, due'[n].docs)
    <2>1. CASE docs = cards
        BY <1>1, <2>1 DEF Change, KnownOK
    <2>2. CASE docs # cards
        <3> DEFINE c == Callbacks(docs)
                   q == due \o c
        <3>1. c \in Seq(Call) /\ Len(c) = Len(listeners)
              /\ \A n \in 1 .. Len(c) : c[n].docs = docs
            <4>1. \A n \in 1 .. Len(listeners) : [student |-> listeners[n], docs |-> docs] \in Call
                BY <1>1, ElementOfSeq DEF Call
            <4> QED BY <1>1, <4>1 DEF Callbacks
        <3> HIDE DEF c
        <3>2. q \in Seq(Call) /\ Len(q) = Len(due) + Len(c)
            BY <1>1, <3>1, ConcatProperties
        <3>3. \A n \in 1 .. Len(due) + Len(c) : q[n] = IF n <= Len(due) THEN due[n] ELSE c[n - Len(due)]
            BY <1>1, <3>1, ConcatProperties
        <3>4. due' = q
            BY <2>2 DEF Change, c
        <3> HIDE DEF q
        <3>5. ASSUME NEW n \in 1 .. Len(q) PROVE Covers(docs, q[n].docs)
            <4>1. CASE n <= Len(due)
                <5>1. n \in 1 .. Len(due) /\ q[n] = due[n]
                    BY <1>1, <3>1, <3>2, <3>3, <4>1
                <5> QED BY <1>2, <5>1 DEF KnownOK
            <4>2. CASE ~ (n <= Len(due))
                <5>1. n - Len(due) \in 1 .. Len(c)
                    BY <1>1, <3>1, <3>2, <4>2
                <5>2. q[n] = c[n - Len(due)]
                    BY <1>1, <3>1, <3>2, <3>3, <4>2
                <5>3. q[n].docs = docs
                    BY <3>1, <5>1, <5>2, Zenon
                <5> QED BY <5>3 DEF Covers
            <4> QED BY <4>1, <4>2
        <3> QED BY <3>2, <3>4, <3>5
    <2> QED BY <2>1, <2>2
<1>4. list # None => /\ ListOK(list)
                     /\ \A i \in 1 .. Len(list) : /\ docs[list[i].id] # None
                                                  /\ docs[list[i].id].student = list[i].student
    <2> SUFFICES ASSUME list # None, NEW i \in 1 .. Len(list)
                 PROVE  docs[list[i].id] # None /\ docs[list[i].id].student = list[i].student
        BY DEF KnownOK
    <2>1. list[i].id \in Card
        <3>1. list[i] \in Row
            BY ElementOfSeq DEF KnownOK, ListOK
        <3> QED BY <3>1 DEF Row
    <2> QED BY <2>1 DEF KnownOK, Covers
<1>5. Covers(docs, saved)
    BY <1>2 DEF KnownOK
<1> QED BY <1>1, <1>3, <1>4, <1>5 DEF KnownOK
----------------------------------------------------------------------------
(* Every step keeps the invariant (QueueNext has its first part).          *)

LEMMA OpenStudentStep ==
    ASSUME DeskInv, NEW s \in Student, OpenStudent(s)
    PROVE  TypeOK' /\ KnownOK' /\ ScreenOK' /\ PatientOK' /\ StopsForKeyOnly'
<1>1. /\ due \in Seq(Call) /\ listeners \in Seq(Student) /\ cards \in Views /\ Len(due) \in Nat
      /\ [student |-> s, docs |-> cards] \in Call
    BY LenProperties DEF DeskInv, TypeOK, Call, Views
<1>2. /\ due' = Append(due, [student |-> s, docs |-> cards]) /\ due' \in Seq(Call)
      /\ listeners' = Append(listeners, s) /\ listeners' \in Seq(Student) /\ listeners' # <<>>
    BY <1>1, AppendProperties DEF OpenStudent
<1>3. TypeOK'
    BY <1>2 DEF OpenStudent, DeskInv, TypeOK, Call, Views
<1>4. ASSUME NEW n \in 1 .. Len(due') PROVE Covers(cards, due'[n].docs)
    <2>1. Len(due') = Len(due) + 1
          /\ \A i \in 1 .. Len(due) + 1 :
                due'[i] = IF i = Len(due) + 1 THEN [student |-> s, docs |-> cards] ELSE due[i]
        BY <1>1, <1>2, AppendProperties
    <2>2. CASE n \in 1 .. Len(due)
        <3>1. due'[n] = due[n]
            BY <1>1, <2>1, <2>2
        <3> QED BY <2>2, <3>1 DEF DeskInv, KnownOK
    <2>3. CASE n = Len(due) + 1
        <3>1. due'[n].docs = cards
            BY <1>1, <2>1, <2>3
        <3> QED BY <3>1 DEF Covers
    <2> QED BY <1>1, <2>1, <2>2, <2>3
<1>5. KnownOK'
    BY <1>4 DEF OpenStudent, DeskInv, KnownOK, Covers
<1>6. ScreenOK' /\ PatientOK' /\ StopsForKeyOnly'
    BY <1>2, CardListAssumption
       DEF OpenStudent, DeskInv, ScreenOK, PatientOK, StopsForKeyOnly
<1> QED BY <1>3, <1>5, <1>6

LEMMA HearStep ==
    ASSUME DeskInv, Hear
    PROVE  TypeOK' /\ KnownOK' /\ ScreenOK' /\ PatientOK' /\ StopsForKeyOnly'
<1> DEFINE s == Head(due).student
           docs == Head(due).docs
<1>1. /\ due \in Seq(Call) /\ due # <<>> /\ list' = ListFor(s, docs)
      /\ due' = Tail(due)
    BY DEF DeskInv, TypeOK, Call, Views, Hear
<1>2. /\ Len(due) \in Nat /\ Len(due) >= 1 /\ Head(due) = due[1]
      /\ Tail(due) \in Seq(Call) /\ Len(Tail(due)) = Len(due) - 1
      /\ \A n \in 1 .. Len(Tail(due)) : Tail(due)[n] = due[n + 1]
    BY <1>1, HeadTailProperties, EmptySeq, LenProperties
<1>3. s \in Student /\ docs \in Views /\ docs = due[1].docs
    <2>1. Head(due) \in Call
        BY <1>1, HeadTailProperties
    <2> QED BY <1>2, <2>1 DEF Call
<1>4. Covers(cards, docs)
    BY <1>2, <1>3 DEF DeskInv, KnownOK
<1> HIDE DEF s, docs
<1>5. ListOK(list') /\ list' # None
      /\ \A i \in 1 .. Len(list') :
            /\ list'[i].id \in Card /\ list'[i].student = s
            /\ docs[list'[i].id] = [student |-> s, open |-> list'[i].open]
    <2>1. ListOK(list')
          /\ \A i \in 1 .. Len(list') :
                /\ list'[i].id \in Card /\ list'[i].student = s
                /\ docs[list'[i].id] = [student |-> s, open |-> list'[i].open]
        BY <1>1, <1>3, ListForRows
    <2> QED BY <2>1, CardListAssumption DEF ListOK
<1>6. UNCHANGED <<habits, idCards, cards, listeners, current, saved, screen, rows, addShown, opened, calls>>
    BY DEF Hear
<1>7. TypeOK'
    BY <1>1, <1>2, <1>5, <1>6 DEF DeskInv, TypeOK, ListOK, Call, Views
<1>8. KnownOK'
    <2>1. ASSUME NEW n \in 1 .. Len(due') PROVE Covers(cards, due'[n].docs)
        <3>1. n + 1 \in 1 .. Len(due) /\ due'[n] = due[n + 1]
            BY <1>1, <1>2
        <3> QED BY <3>1 DEF DeskInv, KnownOK
    <2>2. ASSUME NEW i \in 1 .. Len(list')
          PROVE  cards[list'[i].id] # None /\ cards[list'[i].id].student = list'[i].student
        <3>1. docs[list'[i].id] # None /\ docs[list'[i].id].student = s
            <4>1. list'[i] \in Row
                BY <1>5, ElementOfSeq DEF ListOK
            <4>2. docs[list'[i].id] = [student |-> s, open |-> list'[i].open]
                  /\ list'[i].open \in BOOLEAN
                BY <1>5, <4>1 DEF Row
            <4>3. docs[list'[i].id] \in CardDoc /\ docs[list'[i].id].student = s
                BY <1>3, <4>2 DEF CardDoc
            <4> QED BY <4>3, CardListAssumption
        <3> QED BY <1>4, <1>5, <3>1 DEF Covers
    <2> QED BY <1>5, <1>6, <2>1, <2>2 DEF DeskInv, KnownOK, Covers, ListOK
<1>9. ScreenOK' /\ StopsForKeyOnly'
    BY <1>5, <1>6 DEF DeskInv, ScreenOK, StopsForKeyOnly
<1>10. PatientOK'
    BY <1>1, <1>6 DEF DeskInv, PatientOK, ScreenOK
<1> QED BY <1>7, <1>8, <1>9, <1>10

\* The list is drawn: on opening it, again, or on the way back to it.
LEMMA DrawStep ==
    ASSUME DeskInv, OpenCards \/ CardsAppear \/ BackToCards
    PROVE  TypeOK' /\ KnownOK' /\ ScreenOK' /\ PatientOK' /\ StopsForKeyOnly'
<1>1. /\ UNCHANGED <<habits, idCards, cards, listeners, due, list, current, calls>>
      /\ screen' = "cards" /\ opened' \in {opened, None} /\ Waits
      /\ screen \in {"edit", "cards", "card", "borrow", "alert"}
      /\ screen \in {"card", "alert"} => opened' = None
    BY DEF OpenCards, CardsAppear, BackToCards
<1>2. list # None /\ listeners # <<>> /\ current # None
    BY <1>1 DEF OpenCards, CardsAppear, BackToCards, DeskInv, ScreenOK
<1>3. opened' = None
    BY <1>1 DEF DeskInv, ScreenOK
<1>4. \E shown \in BOOLEAN : Drawn(shown)
    BY DEF OpenCards, CardsAppear, BackToCards, DeskInv, TypeOK
<1>5. /\ saved' \in Views /\ rows' = list /\ list \in Seq(Row) /\ addShown' \in BOOLEAN
      /\ \A i \in 1 .. Len(list) : saved'[list[i].id] = CopyOf(i)
      /\ list # <<>> => addShown' = ~list[Len(list)].open
      /\ Covers(cards, saved')
    BY <1>2, <1>4, DrawnStores DEF DeskInv
<1>6. TypeOK'
    BY <1>1, <1>3, <1>5 DEF DeskInv, TypeOK, Views
<1>7. KnownOK'
    BY <1>1, <1>5 DEF DeskInv, KnownOK, Covers
<1>8. ScreenOK' /\ StopsForKeyOnly'
    <2>1. idCards
        BY <1>4 DEF Drawn
    <2> QED BY <1>1, <1>2, <1>3, <2>1 DEF DeskInv, ScreenOK, StopsForKeyOnly
<1>9. PatientOK'
    <2>1. "hurries" \notin habits => due = <<>>
        BY <1>1 DEF Waits
    <2>2. \A i : CopyOf(i)' = CopyOf(i)
        BY <1>1 DEF CopyOf
    <2> QED BY <1>1, <1>3, <1>5, <2>1, <2>2 DEF PatientOK
<1> QED BY <1>6, <1>7, <1>8, <1>9

LEMMA LeaveStep ==
    ASSUME DeskInv, LeaveEdit \/ LeaveCards \/ OpenBorrow \/ UNCHANGED vars
    PROVE  TypeOK' /\ KnownOK' /\ ScreenOK' /\ PatientOK' /\ StopsForKeyOnly'
<1>1. UNCHANGED <<habits, idCards, cards, listeners, due, list, current, saved, addShown, opened, calls>>
    BY DEF LeaveEdit, LeaveCards, OpenBorrow, vars
<1>2. KnownOK'
    BY <1>1 DEF DeskInv, KnownOK, Covers
<1>3. <<>> \in Seq(Row)
    BY EmptySeq
<1>4. \A i : CopyOf(i)' = CopyOf(i)
    BY <1>1 DEF CopyOf
<1>5. CASE LeaveEdit
    BY <1>1, <1>2, <1>5 DEF LeaveEdit, DeskInv, TypeOK, ScreenOK, PatientOK, StopsForKeyOnly
<1>6. CASE LeaveCards
    BY <1>1, <1>2, <1>3, <1>6 DEF LeaveCards, DeskInv, TypeOK, ScreenOK, PatientOK, StopsForKeyOnly
<1>7. CASE OpenBorrow
    <2>1. TypeOK' /\ ScreenOK' /\ StopsForKeyOnly'
        BY <1>1, <1>7 DEF OpenBorrow, DeskInv, TypeOK, ScreenOK, StopsForKeyOnly
    <2>2. PatientOK'
        BY <1>1, <1>7 DEF OpenBorrow, DeskInv, PatientOK, ScreenOK, LastClosed
    <2> QED BY <1>2, <2>1, <2>2
<1>8. CASE UNCHANGED vars
    <2>1. UNCHANGED <<screen, rows>>
        BY <1>8 DEF vars
    <2>2. TypeOK' /\ ScreenOK' /\ StopsForKeyOnly'
        BY <1>1, <2>1 DEF DeskInv, TypeOK, ScreenOK, StopsForKeyOnly
    <2>3. PatientOK'
        BY <1>1, <1>4, <2>1 DEF DeskInv, PatientOK, LastClosed
    <2> QED BY <1>2, <2>2, <2>3
<1> QED BY <1>5, <1>6, <1>7, <1>8

LEMMA TapStep ==
    ASSUME DeskInv, NEW i \in 1 .. Len(rows), TapRow(i)
    PROVE  TypeOK' /\ KnownOK' /\ ScreenOK' /\ PatientOK' /\ StopsForKeyOnly'
<1>1. UNCHANGED <<habits, idCards, cards, listeners, due, list, current, saved, rows, addShown, calls>>
      /\ screen = "cards" /\ screen' = "card" /\ i <= Len(list)
      /\ opened' = [tapped |-> rows[i], id |-> list[i].id, form |-> saved[list[i].id]]
      /\ saved[list[i].id] # None
    BY DEF TapRow
<1>2. list # None /\ listeners # <<>> /\ current # None
    BY <1>1 DEF DeskInv, ScreenOK
<1>3. /\ rows[i] \in Row /\ i \in 1 .. Len(list) /\ list[i] \in Row
    <2>1. rows \in Seq(Row) /\ Len(rows) \in Nat /\ list \in Seq(Row) /\ Len(list) \in Nat
        BY <1>2, LenProperties DEF DeskInv, TypeOK, KnownOK, ListOK
    <2> QED BY <1>1, <2>1, ElementOfSeq
<1>4. list[i].id \in Card /\ saved[list[i].id] \in CardDoc
      /\ cards[list[i].id] # None
      /\ cards[list[i].id].student = list[i].student
      /\ saved[list[i].id].student = list[i].student
    <2>1. list[i].id \in Card
        BY <1>3 DEF Row
    <2>2. saved[list[i].id] \in CardDoc
        BY <1>1, <2>1 DEF DeskInv, TypeOK
    <2>3. cards[list[i].id] # None /\ cards[list[i].id].student = list[i].student
        BY <1>2, <1>3 DEF DeskInv, KnownOK
    <2>4. cards[list[i].id].student = saved[list[i].id].student
        BY <1>1, <2>1 DEF DeskInv, KnownOK, Covers
    <2> QED BY <2>1, <2>2, <2>3, <2>4
<1>5. opened' \in Tap
    BY <1>1, <1>3, <1>4 DEF Tap
<1>6. opened' # None
    BY <1>5, CardListAssumption
<1>7. TypeOK'
    BY <1>1, <1>5 DEF DeskInv, TypeOK
<1>8. KnownOK'
    BY <1>1 DEF DeskInv, KnownOK, Covers
<1>9. ScreenOK' /\ StopsForKeyOnly'
    BY <1>1, <1>2, <1>4, <1>6 DEF DeskInv, ScreenOK, StopsForKeyOnly
<1>10. ASSUME "hurries" \notin habits
       PROVE  /\ list[i].student = current /\ due = <<>>
              /\ cards[list[i].id] = CopyOf(i)
    <2>1. due = <<>>
        BY <1>10 DEF TapRow, Waits
    <2> QED BY <1>2, <1>3, <2>1, ListNow DEF DeskInv
<1>11. PatientOK'
    <2>1. ASSUME "hurries" \notin habits
          PROVE  opened'.form.student = current'
        BY <1>1, <1>4, <1>10, <2>1
    <2>2. ASSUME "hurries" \notin habits, "others" \notin habits
          PROVE  due' = <<>> /\ opened'.id = opened'.tapped.id /\ opened'.form = cards'[opened'.id]
        <3>1. rows = list /\ saved[list[i].id] = CopyOf(i)
            BY <1>1, <1>3, <2>2 DEF DeskInv, PatientOK
        <3> QED BY <1>1, <1>10, <2>2, <3>1
    <2> QED BY <1>1, <2>1, <2>2 DEF PatientOK
<1> QED BY <1>7, <1>8, <1>9, <1>11

\* A card added, or closed, on the student it is of.
LEMMA WriteCovers ==
    ASSUME NEW docs \in Views, NEW k \in Card, NEW e \in CardDoc,
           docs[k] # None => e.student = docs[k].student
    PROVE  [docs EXCEPT ![k] = e] \in Views /\ Covers([docs EXCEPT ![k] = e], docs)
    BY CardListAssumption DEF Views, Covers

LEMMA CloseCovers ==
    ASSUME NEW docs \in Views, NEW k \in Card, docs[k] # None
    PROVE  /\ [docs EXCEPT ![k].open = FALSE] \in Views
           /\ Covers([docs EXCEPT ![k].open = FALSE], docs)
<1> DEFINE e == [docs[k] EXCEPT !.open = FALSE]
<1>1. docs[k] \in CardDoc
    BY DEF Views
<1>2. e \in CardDoc /\ e.student = docs[k].student
    BY <1>1 DEF CardDoc
<1>3. [docs EXCEPT ![k].open = FALSE] = [docs EXCEPT ![k] = e]
    OBVIOUS
<1> HIDE DEF e
<1> QED BY <1>2, <1>3, WriteCovers

LEMMA NewIsCard ==
    ASSUME NEW s \in Student PROVE NewCard(s) \in CardDoc
    BY DEF NewCard, CardDoc

LEMMA ConfirmStep ==
    ASSUME DeskInv, NEW off \in BOOLEAN, ConfirmCard(off)
    PROVE  TypeOK' /\ KnownOK' /\ ScreenOK' /\ PatientOK' /\ StopsForKeyOnly'
<1> DEFINE docs == IF off THEN [cards EXCEPT ![opened.id].open = FALSE] ELSE cards
<1>1. /\ Change(docs) /\ screen = "card" /\ screen' = "alert"
      /\ UNCHANGED <<habits, idCards, listeners, list, current, saved, rows, addShown, opened, calls>>
    BY DEF ConfirmCard
<1>2. opened # None /\ opened.id \in Card /\ cards[opened.id] # None /\ cards \in Views
    BY <1>1 DEF DeskInv, TypeOK, ScreenOK, Tap, Views
<1>3. docs \in Views /\ Covers(docs, cards)
    <2>1. Covers(cards, cards)
        BY DEF Covers
    <2> QED BY <1>2, <2>1, CloseCovers
<1> HIDE DEF docs
<1>4. KnownOK' /\ due' \in Seq(Call) /\ cards' = docs
    BY <1>1, <1>3, ChangeKnown DEF DeskInv
<1>5. TypeOK'
    BY <1>1, <1>3, <1>4 DEF DeskInv, TypeOK, Call, Views
<1>6. ScreenOK' /\ StopsForKeyOnly'
    BY <1>1, <1>2, <1>3, <1>4 DEF DeskInv, ScreenOK, StopsForKeyOnly, Covers
<1>7. PatientOK'
    BY <1>1 DEF DeskInv, PatientOK
<1> QED BY <1>4, <1>5, <1>6, <1>7

LEMMA AddStep ==
    ASSUME DeskInv, NEW k \in Card, AddCard(k)
    PROVE  TypeOK' /\ KnownOK' /\ ScreenOK' /\ PatientOK' /\ StopsForKeyOnly'
<1> DEFINE docs == [cards EXCEPT ![k] = NewCard(current)]
<1>1. /\ Change(docs) /\ screen = "borrow" /\ screen' = "alert" /\ cards[k] = None
      /\ UNCHANGED <<habits, idCards, listeners, list, current, saved, rows, addShown, opened, calls>>
    BY DEF AddCard
<1>2. current \in Student /\ cards \in Views /\ opened = None
    BY <1>1 DEF DeskInv, TypeOK, ScreenOK, Views
<1>3. docs \in Views /\ Covers(docs, cards)
    BY <1>1, <1>2, NewIsCard, WriteCovers
<1> HIDE DEF docs
<1>4. KnownOK' /\ due' \in Seq(Call) /\ cards' = docs
    BY <1>1, <1>3, ChangeKnown DEF DeskInv
<1>5. TypeOK'
    BY <1>1, <1>3, <1>4 DEF DeskInv, TypeOK, Call, Views
<1>6. ScreenOK' /\ StopsForKeyOnly'
    BY <1>1, <1>2 DEF DeskInv, ScreenOK, StopsForKeyOnly
<1>7. PatientOK'
    BY <1>1, <1>2 DEF DeskInv, PatientOK
<1> QED BY <1>4, <1>5, <1>6, <1>7

LEMMA OthersStep ==
    ASSUME DeskInv, NEW k \in Card, OthersChange(k)
    PROVE  TypeOK' /\ KnownOK' /\ ScreenOK' /\ PatientOK' /\ StopsForKeyOnly'
<1>1. /\ UNCHANGED <<habits, idCards, listeners, list, current, saved, screen, rows, addShown, opened>>
      /\ "others" \in habits /\ calls' = calls + 1 /\ cards \in Views
    BY DEF OthersChange, DeskInv, TypeOK, Views
<1>2. PICK docs \in Views : Change(docs) /\ Covers(docs, cards)
    <2>1. ASSUME NEW s \in Student, cards[k] = None, Change([cards EXCEPT ![k] = NewCard(s)])
          PROVE  \E docs \in Views : Change(docs) /\ Covers(docs, cards)
        BY <1>1, <2>1, NewIsCard, WriteCovers
    <2>2. ASSUME cards[k] # None, Change([cards EXCEPT ![k].open = FALSE])
          PROVE  \E docs \in Views : Change(docs) /\ Covers(docs, cards)
        BY <1>1, <2>2, CloseCovers
    <2> QED BY <2>1, <2>2 DEF OthersChange
<1>3. KnownOK' /\ due' \in Seq(Call) /\ cards' = docs
    BY <1>1, <1>2, ChangeKnown DEF DeskInv
<1>4. TypeOK'
    BY <1>1, <1>2, <1>3 DEF DeskInv, TypeOK, Call, Views
<1>5. ScreenOK' /\ StopsForKeyOnly'
    <2>1. opened # None => opened.id \in Card
        BY DEF DeskInv, TypeOK, Tap
    <2> QED BY <1>1, <1>2, <1>3, <2>1 DEF DeskInv, ScreenOK, StopsForKeyOnly, Covers
<1>6. PatientOK'
    BY <1>1 DEF DeskInv, PatientOK
<1> QED BY <1>3, <1>4, <1>5, <1>6

\* The app stops for the key ID_cards; else only for a librarian who hurries, or
\* when others have added a card.
LEMMA StopsStep ==
    ASSUME DeskInv, Stops
    PROVE  TypeOK' /\ KnownOK' /\ ScreenOK' /\ PatientOK' /\ StopsForKeyOnly'
<1>1. /\ UNCHANGED <<habits, idCards, cards, list, current, saved, rows, addShown, opened, calls>>
      /\ listeners' = <<>> /\ due' = <<>> /\ screen' = "stopped" /\ Waits
      /\ screen \in {"edit", "cards"}
    BY DEF Stops, Appears, DeskInv, StopsForKeyOnly
<1>2. opened = None /\ listeners # <<>> /\ current # None
    BY <1>1 DEF DeskInv, ScreenOK
<1>3. /\ <<>> \in Seq(Student) /\ <<>> \in Seq(Call) /\ 1 .. Len(<<>>) = {}
    BY EmptySeq
<1>4. TypeOK'
    BY <1>1, <1>3 DEF DeskInv, TypeOK, Call, Views
<1>5. KnownOK'
    BY <1>1, <1>3 DEF DeskInv, KnownOK, Covers
<1>6. ScreenOK' /\ PatientOK'
    BY <1>1, <1>2 DEF DeskInv, ScreenOK, PatientOK
<1>7. StopsForKeyOnly'
    <2> SUFFICES ASSUME habits \subseteq {"restarts"}, idCards PROVE FALSE
        BY <1>1 DEF StopsForKeyOnly
    <2>1. "hurries" \notin habits /\ "others" \notin habits /\ due = <<>>
        BY <1>1 DEF Waits
    <2>2. list # None /\ ListOK(list)
        BY <1>2, <2>1, ListNow DEF DeskInv
    <2>3. screen = "cards" /\ \E i \in 1 .. Len(rows) : i <= Len(list) => saved[list[i].id] = None
        BY <2>2 DEF Stops
    <2>4. PICK i \in 1 .. Len(rows) : i <= Len(list) => saved[list[i].id] = None
        BY <2>3
    <2>5. rows = list /\ i \in 1 .. Len(list) /\ saved[list[i].id] = CopyOf(i)
        BY <2>1, <2>3 DEF DeskInv, PatientOK
    <2>6. CopyOf(i) \in CardDoc
        <3>1. list[i] \in Row
            BY <2>2, <2>5, ElementOfSeq DEF ListOK
        <3> QED BY <3>1 DEF CopyOf, Row, CardDoc
    <2>7. i <= Len(list)
        BY <2>5
    <2> QED BY <2>4, <2>5, <2>6, <2>7, CardListAssumption
<1> QED BY <1>4, <1>5, <1>6, <1>7

LEMMA RestartStep ==
    ASSUME DeskInv, Restart
    PROVE  TypeOK' /\ KnownOK' /\ ScreenOK' /\ PatientOK' /\ StopsForKeyOnly'
<1>1. /\ <<>> \in Seq(Student) /\ <<>> \in Seq(Call) /\ <<>> \in Seq(Row)
      /\ 1 .. Len(<<>>) = {}
    BY EmptySeq
<1>2. TypeOK'
    BY <1>1 DEF Restart, DeskInv, TypeOK, Call, Views
<1>3. KnownOK'
    BY <1>1 DEF Restart, DeskInv, KnownOK, Covers
<1>4. ScreenOK' /\ PatientOK' /\ StopsForKeyOnly'
    BY DEF Restart, DeskInv, ScreenOK, PatientOK, StopsForKeyOnly
<1> QED BY <1>2, <1>3, <1>4

LEMMA DeskNext == DeskInv /\ [Next]_vars => DeskInv'
<1> SUFFICES ASSUME DeskInv, [Next]_vars
             PROVE  TypeOK' /\ KnownOK' /\ ScreenOK' /\ PatientOK' /\ StopsForKeyOnly'
    BY QueueNext DEF DeskInv
<1> QED BY OpenStudentStep, HearStep, DrawStep, LeaveStep, TapStep, ConfirmStep, AddStep,
           OthersStep, StopsStep, RestartStep DEF Next

LEMMA DeskStart == Init => DeskInv
<1> SUFFICES ASSUME Init PROVE DeskInv
    OBVIOUS
<1>1. /\ <<>> \in Seq(Student) /\ <<>> \in Seq(Call) /\ <<>> \in Seq(Row)
      /\ 1 .. Len(<<>>) = {} /\ IsSeq(<<>>)
    BY EmptySeq DEF IsSeq
<1>2. TypeOK
    BY <1>1, CardListAssumption DEF Init, TypeOK, Call, Views
<1>3. QueueInv
    BY <1>1 DEF Init, QueueInv
<1>4. KnownOK
    BY <1>1 DEF Init, KnownOK, Covers
<1>5. ScreenOK /\ PatientOK /\ StopsForKeyOnly
    BY DEF Init, ScreenOK, PatientOK, StopsForKeyOnly
<1> QED BY <1>2, <1>3, <1>4, <1>5 DEF DeskInv

LEMMA DeskInvariant == Spec => []DeskInv
    BY DeskStart, DeskNext, PTL DEF Spec

\* Every variable keeps its type: the row tapped is a card, and the copy that
\* fills its screen one a row has stored.
THEOREM TypeCorrect == Spec => []TypeOK
<1>1. DeskInv => TypeOK
    BY DEF DeskInv
<1> QED BY <1>1, DeskInvariant, PTL

\* A librarian who waits opens a card of the student shown, and, when no other
\* device changes cards, the card of the row tapped with the fields it has.
THEOREM RowOpenedHolds == Spec => []RowOpened
<1>1. DeskInv => RowOpened
    BY DEF DeskInv, PatientOK, RowOpened
<1> QED BY <1>1, DeskInvariant, PTL

\* When no other device adds cards, the only thing that stops such a librarian's
\* app is the key ID_cards, forced as the list appears; and where the key is
\* missing nobody gets beyond the edit screen.
THEOREM StopsForKeyOnlyHolds == Spec => []StopsForKeyOnly
<1>1. DeskInv => StopsForKeyOnly
    BY DEF DeskInv
<1> QED BY <1>1, DeskInvariant, PTL

\* Nor does he lend to a student whose last card is still open.
THEOREM LastCardClosedHolds == Spec => LastCardClosed
<1>1. ASSUME DeskInv, NEW k \in Card, AddCard(k), habits \subseteq {"restarts"},
             ListFor(current, cards) # <<>>
      PROVE  ~ListFor(current, cards)[Len(ListFor(current, cards))].open
    <2>1. screen = "borrow" /\ "hurries" \notin habits /\ "others" \notin habits
        BY <1>1 DEF AddCard
    <2>2. due = <<>> /\ listeners # <<>> /\ LastClosed
        BY <1>1, <2>1 DEF DeskInv, PatientOK, ScreenOK
    <2>3. list = ListFor(current, cards)
        BY <1>1, <2>2 DEF DeskInv, QueueInv
    <2> QED BY <1>1, <2>2, <2>3 DEF LastClosed
<1>2. DeskInv /\ [Next]_vars =>
        [\A k \in Card : AddCard(k) /\ habits \subseteq {"restarts"} =>
            LET mine == ListFor(current, cards)
            IN  mine # <<>> => ~mine[Len(mine)].open]_vars
    BY <1>1
<1> QED BY <1>2, DeskInvariant, PTL DEF Spec, LastCardClosed
=============================================================================
