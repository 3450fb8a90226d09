----------------------------- MODULE RulesProofs -----------------------------
(***************************************************************************)
(* Theorems about Rules, for every value of its constants and any number   *)
(* of listeners left behind: no row ever hears an answer without a         *)
(* document at its index, the rows end up showing the rules, and an edit   *)
(* makes no new rule.                                                      *)
(*                                                                         *)
(* The argument is about the queue: every change of the view is due to     *)
(* every listener, so of the callbacks due to a row the last one carries   *)
(* the rules of now, and a row without any has already heard them.         *)
(***************************************************************************)
EXTENDS Rules, Ranks, SequenceTheorems

Views == [Title -> Content \cup {None}]
Call  == [to : Nat, docs : Views]

Size(docs) == Cardinality(Titles(docs))

\* What is due and shown were taken from older answers, and rules only become
\* more.
OlderOK ==
    /\ Len(ids) <= Size(rules)
    /\ shown # None => Len(shown) <= Size(rules)
    /\ \A n \in 1 .. Len(listeners) : listeners[n] <= Size(rules)
    /\ \A n \in 1 .. Len(due) : Titles(due[n].docs) \subseteq Titles(rules)

\* Every row of a running app has its listener, and there is none before the
\* table is drawn.
RowsBound ==
    /\ screen # "stopped" => listeners # <<>>
    /\ shown # None /\ listeners # <<>> =>
          \A i \in 1 .. Len(shown) : \E n \in 1 .. Len(listeners) : listeners[n] = i
    /\ shown = None => /\ \A n \in 1 .. Len(listeners) : listeners[n] = 0
                       /\ \A n \in 1 .. Len(due) : due[n].to = 0

\* A row shows the rule at its index, or will: the last callback due to it
\* carries the rules of now.
RowsFresh ==
    shown # None /\ listeners # <<>> =>
        \A i \in 1 .. Len(shown) :
            /\ \/ shown[i] = Labels(i, rules)
               \/ \E m \in 1 .. Len(due) : due[m].to = i /\ due[m].docs = rules
            /\ \A n \in 1 .. Len(due) :
                  due[n].to = i /\ due[n].docs # rules =>
                      \E m \in n + 1 .. Len(due) : due[m].to = i /\ due[m].docs = rules

\* The titles an edit may write: those of rules, and to a librarian in a hurry
\* the storyboard's.
Hurried == IF "hurries" \in habits THEN {CellTitle} ELSE {}

\* A label, a key or a form holds the title of a rule, or the storyboard's.
EditsRule ==
    /\ screen = "edit" => form # None
    /\ shown # None =>
          \A i \in 1 .. Len(shown) : shown[i].title \in Titles(rules) \cup {CellTitle}
    /\ current # None => current.title \in Titles(rules) \cup Hurried
    /\ form # None => form.title \in Titles(rules) \cup Hurried

QueueInv == OlderOK /\ RowsStand /\ RowsBound /\ RowsFresh

RulesInv == TypeOK /\ QueueInv /\ EditsRule
----------------------------------------------------------------------------
(* Answers.                                                                *)

\* The titles of an answer are finitely many.
LEMMA TitlesFinite ==
    ASSUME NEW docs
    PROVE  /\ Titles(docs) \in SUBSET Title /\ Titles(docs) \in SUBSET Nat
           /\ IsFiniteSet(Titles(docs)) /\ Size(docs) \in Nat
<1>1. Titles(docs) \in SUBSET Title
    BY DEF Titles
<1>2. IsFiniteSet(Titles(docs))
    BY <1>1, RulesAssumption, FS_Subset
<1> QED BY <1>1, <1>2, RulesAssumption, FS_CardinalityType DEF Size

\* An answer with more titles has at least as many.
LEMMA SizeGrows ==
    ASSUME NEW old, NEW new, Titles(old) \subseteq Titles(new)
    PROVE  Size(old) <= Size(new)
    BY TitlesFinite, FS_Subset DEF Size

\* There is a document at each index up to the number of them.
LEMMA AtIsTitle ==
    ASSUME NEW docs \in Views, NEW i \in 1 .. Size(docs)
    PROVE  At(docs, i) \in Titles(docs)
<1>1. \E t \in Titles(docs) : Cardinality({u \in Titles(docs) : u <= t}) = i
    BY TitlesFinite, RankTaken DEF Size
<1> QED BY <1>1 DEF At

LEMMA LabelsRule ==
    ASSUME NEW docs \in Views, NEW i \in 1 .. Size(docs)
    PROVE  /\ Labels(i, docs) \in Rule
           /\ Labels(i, docs).title \in Titles(docs)
<1>1. At(docs, i) \in Titles(docs)
    BY AtIsTitle
<1>2. At(docs, i) \in Title /\ docs[At(docs, i)] \in Content
    BY <1>1 DEF Titles, Views
<1> QED BY <1>1, <1>2 DEF Labels, Rule

LEMMA LoadedTitles ==
    ASSUME NEW docs \in Views
    PROVE  Loaded(docs) \in Seq(Title) /\ Len(Loaded(docs)) = Size(docs)
<1>1. \A i \in 1 .. Size(docs) : At(docs, i) \in Title
    BY AtIsTitle, TitlesFinite
<1>2. Size(docs) \in Nat
    BY TitlesFinite
<1>3. Loaded(docs) = [i \in 1 .. Size(docs) |-> At(docs, i)]
    BY DEF Loaded, Size
<1> HIDE DEF Size
<1> QED BY <1>1, <1>2, <1>3

\* A write of a text only adds titles.
LEMMA WriteGrows ==
    ASSUME NEW docs \in Views, NEW t, NEW c \in Content
    PROVE  /\ [docs EXCEPT ![t] = c] \in Views
           /\ Titles(docs) \subseteq Titles([docs EXCEPT ![t] = c])
           /\ Titles([docs EXCEPT ![t] = c]) \subseteq Titles(docs) \cup {t}
    BY RulesAssumption DEF Views, Titles
----------------------------------------------------------------------------
(* Callbacks put on the queue.                                             *)

\* The queue q begins with what is due, and what follows is the answer docs to
\* listeners there are and to ones of loadRuleData.
Follows(q, docs) ==
    /\ q \in Seq(Call) /\ Len(q) >= Len(due)
    /\ \A n \in 1 .. Len(due) : q[n] = due[n]
    /\ \A n \in Len(due) + 1 .. Len(q) :
          /\ q[n].docs = docs
          /\ q[n].to = 0 \/ \E k \in 1 .. Len(listeners) : q[n].to = listeners[k]
    /\ docs # rules =>
          \A k \in 1 .. Len(listeners) : \E n \in Len(due) + 1 .. Len(q) : q[n].to = listeners[k]

\* A step that changes the view to docs at most, attaches listeners of
\* loadRuleData at most, and calls whom it must.
Posts ==
    /\ rules' \in Views /\ Titles(rules) \subseteq Titles(rules')
    /\ Follows(due', rules')
    /\ listeners' \in Seq(Nat) /\ Len(listeners') >= Len(listeners)
    /\ \A n \in 1 .. Len(listeners) : listeners'[n] = listeners[n]
    /\ \A n \in Len(listeners) + 1 .. Len(listeners') : listeners'[n] = 0
    /\ listeners' = listeners \/ listeners # <<>>

\* The sequence st is s and then t.
Parts(st, s, t) ==
    /\ Len(st) = Len(s) + Len(t) /\ Len(s) \in Nat /\ Len(t) \in Nat
    /\ \A n \in 1 .. Len(s) : n \in 1 .. Len(st) /\ st[n] = s[n]
    /\ \A k \in 1 .. Len(t) : Len(s) + k \in Len(s) + 1 .. Len(st) /\ st[Len(s) + k] = t[k]
    /\ \A n \in Len(s) + 1 .. Len(st) : n - Len(s) \in 1 .. Len(t) /\ st[n] = t[n - Len(s)]

LEMMA TwoParts ==
    ASSUME NEW S, NEW s \in Seq(S), NEW t \in Seq(S)
    PROVE  s \o t \in Seq(S) /\ Parts(s \o t, s, t)
<1> DEFINE st == s \o t
           m == Len(s)
           k == Len(t)
<1>1. m \in Nat /\ k \in Nat /\ st \in Seq(S) /\ Len(st) = m + k
      /\ \A i \in 1 .. m + k : st[i] = IF i <= m THEN s[i] ELSE t[i - m]
    BY LenProperties, ConcatProperties
<1> HIDE DEF st, m, k
<1>2. \A n \in 1 .. m : n \in 1 .. Len(st) /\ st[n] = s[n]
    BY <1>1
<1>3. ASSUME NEW i \in 1 .. k PROVE m + i \in m + 1 .. Len(st) /\ st[m + i] = t[i]
    <2>1. m + i \in 1 .. m + k /\ ~ (m + i <= m) /\ (m + i) - m = i
        BY <1>1
    <2> QED BY <1>1, <2>1
<1>4. ASSUME NEW n \in m + 1 .. Len(st) PROVE n - m \in 1 .. k /\ st[n] = t[n - m]
    <2>1. n \in 1 .. m + k /\ ~ (n <= m) /\ n - m \in 1 .. k
        BY <1>1
    <2> QED BY <1>1, <2>1
<1> QED BY <1>1, <1>2, <1>3, <1>4 DEF st, m, k, Parts

LEMMA DueFollows ==
    ASSUME TypeOK, NEW docs \in Views
    PROVE  Follows(DueAfter(docs), docs)
<1>1. due \in Seq(Call) /\ listeners \in Seq(Nat) /\ Len(due) \in Nat /\ Len(listeners) \in Nat
    BY LenProperties DEF TypeOK, Call, Views
<1>2. CASE docs = rules
    BY <1>1, <1>2 DEF DueAfter, Follows
<1>3. CASE docs # rules
    <2> DEFINE c == Callbacks(docs)
               q == due \o c
    <2>1. c \in Seq(Call) /\ Len(c) = Len(listeners)
          /\ \A n \in 1 .. Len(c) : c[n].to = listeners[n] /\ c[n].docs = docs
        <3>1. \A n \in 1 .. Len(listeners) : [to |-> listeners[n], docs |-> docs] \in Call
            BY <1>1, ElementOfSeq DEF Call
        <3> QED BY <1>1, <3>1 DEF Callbacks
    <2> HIDE DEF c
    <2>2. q \in Seq(Call) /\ Parts(q, due, c)
        BY <1>1, <2>1, TwoParts
    <2>3. DueAfter(docs) = q
        BY <1>3 DEF DueAfter, c
    <2> HIDE DEF q
    <2>4. \A n \in Len(due) + 1 .. Len(q) :
             q[n].docs = docs /\ \E k \in 1 .. Len(listeners) : q[n].to = listeners[k]
        <3>1. \A n \in Len(due) + 1 .. Len(q) : n - Len(due) \in 1 .. Len(c) /\ q[n] = c[n - Len(due)]
            BY <2>2 DEF Parts
        <3> QED BY <2>1, <3>1, Zenon
    <2>5. \A k \in 1 .. Len(listeners) :
             \E n \in Len(due) + 1 .. Len(q) : q[n].to = listeners[k]
        <3>1. \A k \in 1 .. Len(c) :
                 Len(due) + k \in Len(due) + 1 .. Len(q) /\ q[Len(due) + k] = c[k]
            BY <2>2 DEF Parts
        <3> QED BY <2>1, <3>1, Zenon
    <2>6. Len(q) >= Len(due)
        BY <1>1, <2>2 DEF Parts
    <2> QED BY <2>2, <2>3, <2>4, <2>5, <2>6 DEF Follows, Parts
<1> QED BY <1>2, <1>3

\* A listener attached hears the view after what is due.
LEMMA CallFollows ==
    ASSUME TypeOK, NEW docs \in Views, NEW q, Follows(q, docs),
           NEW ls \in Seq(Nat), \A i \in 1 .. Len(ls) : ls[i] = 0
    PROVE  Follows(q \o [i \in 1 .. Len(ls) |-> [to |-> ls[i], docs |-> docs]], docs)
<1> DEFINE c == [i \in 1 .. Len(ls) |-> [to |-> ls[i], docs |-> docs]]
           r == q \o c
<1>1. due \in Seq(Call) /\ Len(due) \in Nat /\ q \in Seq(Call) /\ Len(q) \in Nat
      /\ Len(ls) \in Nat
    BY LenProperties DEF TypeOK, Call, Views, Follows
<1>2. c \in Seq(Call) /\ Len(c) = Len(ls)
      /\ \A i \in 1 .. Len(c) : c[i].to = 0 /\ c[i].docs = docs
    <2>1. \A i \in 1 .. Len(ls) : [to |-> ls[i], docs |-> docs] \in Call
        BY DEF Call
    <2> QED BY <1>1, <2>1
<1> HIDE DEF c
<1>3. r \in Seq(Call) /\ Parts(r, q, c)
    BY <1>1, <1>2, TwoParts
<1> HIDE DEF r
<1>4. Len(q) >= Len(due) /\ Len(r) >= Len(due) /\ Len(r) \in Nat
    BY <1>1, <1>3 DEF Follows, Parts
<1>5. \A n \in 1 .. Len(due) : r[n] = due[n]
    BY <1>1, <1>3, <1>4 DEF Follows, Parts
<1>6. ASSUME NEW n \in Len(due) + 1 .. Len(r)
      PROVE  /\ r[n].docs = docs
             /\ r[n].to = 0 \/ \E k \in 1 .. Len(listeners) : r[n].to = listeners[k]
    <2>1. CASE n <= Len(q)
        <3>1. n \in Len(due) + 1 .. Len(q) /\ r[n] = q[n]
            BY <1>1, <1>3, <1>4, <2>1 DEF Parts
        <3> QED BY <3>1 DEF Follows
    <2>2. CASE ~ (n <= Len(q))
        <3>1. n \in Len(q) + 1 .. Len(r)
            BY <1>1, <1>3, <1>4, <2>2 DEF Parts
        <3>2. n - Len(q) \in 1 .. Len(c) /\ r[n] = c[n - Len(q)]
            BY <1>3, <3>1 DEF Parts
        <3> QED BY <1>2, <3>2, Zenon
    <2> QED BY <2>1, <2>2
<1>7. ASSUME docs # rules, NEW k \in 1 .. Len(listeners)
      PROVE  \E n \in Len(due) + 1 .. Len(r) : r[n].to = listeners[k]
    <2>1. PICK n \in Len(due) + 1 .. Len(q) : q[n].to = listeners[k]
        BY <1>7 DEF Follows
    <2>2. n \in Len(due) + 1 .. Len(r) /\ r[n] = q[n]
        BY <1>1, <1>3, <2>1 DEF Parts
    <2> QED BY <2>1, <2>2
<1> QED BY <1>3, <1>4, <1>5, <1>6, <1>7 DEF Follows, r, c
----------------------------------------------------------------------------
(* Steps that keep the queue in order.                                     *)

LEMMA PostsKeep ==
    ASSUME TypeOK, QueueInv, Posts, UNCHANGED shown, Len(ids') <= Len(ids), Len(ids') \in Nat,
           screen = "stopped" => screen' = "stopped"
    PROVE  QueueInv'
<1>1. /\ Len(due) \in Nat /\ Len(due') \in Nat /\ Len(listeners) \in Nat
      /\ Len(listeners') \in Nat /\ Len(ids) \in Nat /\ Len(due') >= Len(due)
      /\ \A n \in 1 .. Len(listeners) : listeners[n] \in Nat
    BY LenProperties, ElementOfSeq DEF TypeOK, Posts, Follows
<1>2. Size(rules) \in Nat /\ Size(rules') \in Nat /\ Size(rules) <= Size(rules')
    BY TitlesFinite, SizeGrows DEF Posts
<1> HIDE DEF Size
<1>3. shown # None => Len(shown) \in Nat
    BY LenProperties DEF TypeOK
<1>4. ASSUME NEW n \in 1 .. Len(due')
      PROVE  \/ n \in 1 .. Len(due) /\ due'[n] = due[n]
             \/ n \in Len(due) + 1 .. Len(due')
    BY <1>1 DEF Posts, Follows
<1>5. OlderOK'
    <2>1. Len(ids') <= Size(rules') /\ (shown # None => Len(shown) <= Size(rules'))
        BY <1>1, <1>2, <1>3 DEF QueueInv, OlderOK
    <2>2. ASSUME NEW n \in 1 .. Len(listeners') PROVE listeners'[n] <= Size(rules')
        <3>1. CASE n \in 1 .. Len(listeners)
            BY SMTT(30), <1>1, <1>2, <3>1 DEF QueueInv, OlderOK, Posts
        <3>2. CASE n \in Len(listeners) + 1 .. Len(listeners')
            BY <1>2, <3>2 DEF Posts
        <3> QED BY <1>1, <3>1, <3>2
    <2>3. ASSUME NEW n \in 1 .. Len(due') PROVE Titles(due'[n].docs) \subseteq Titles(rules')
        BY <1>4 DEF QueueInv, OlderOK, Posts, Follows
    <2>4. shown' = shown
        OBVIOUS
    <2> QED BY <2>1, <2>2, <2>3, <2>4 DEF OlderOK, Size
<1>6. RowsStand'
    <2>1. ASSUME NEW n \in 1 .. Len(due') PROVE due'[n].to <= Size(due'[n].docs)
        <3>1. CASE n \in 1 .. Len(due) /\ due'[n] = due[n]
            BY <3>1 DEF QueueInv, RowsStand, Size
        <3>2. CASE n \in Len(due) + 1 .. Len(due')
            <4>1. due'[n].docs = rules'
                BY <3>2 DEF Posts, Follows
            <4>2. CASE due'[n].to = 0
                BY <1>2, <4>1, <4>2
            <4>3. CASE \E k \in 1 .. Len(listeners) : due'[n].to = listeners[k]
                BY <1>1, <1>2, <4>1, <4>3 DEF QueueInv, OlderOK
            <4> QED BY <3>2, <4>2, <4>3 DEF Posts, Follows
        <3> QED BY <1>4, <3>1, <3>2
    <2> QED BY <2>1 DEF RowsStand, Size
<1>7. RowsBound'
    <2>1. listeners' = <<>> => listeners = <<>>
        BY DEF Posts
    <2>2. ASSUME shown = None
          PROVE  /\ \A n \in 1 .. Len(listeners') : listeners'[n] = 0
                 /\ \A n \in 1 .. Len(due') : due'[n].to = 0
        <3>1. \A n \in 1 .. Len(listeners') : listeners'[n] = 0
            BY <1>1, <2>2 DEF QueueInv, RowsBound, Posts
        <3>2. \A n \in 1 .. Len(due') : due'[n].to = 0
            BY <1>4, <2>2 DEF QueueInv, RowsBound, Posts, Follows
        <3> QED BY <3>1, <3>2
    <2>3. ASSUME shown # None, listeners' # <<>>, NEW i \in 1 .. Len(shown)
          PROVE  \E n \in 1 .. Len(listeners') : listeners'[n] = i
        <3>1. listeners # <<>>
            BY <2>3 DEF Posts
        <3>2. PICK n \in 1 .. Len(listeners) : listeners[n] = i
            BY <2>3, <3>1 DEF QueueInv, RowsBound
        <3>3. n \in 1 .. Len(listeners') /\ listeners'[n] = listeners[n]
            BY <1>1 DEF Posts
        <3> QED BY <3>2, <3>3
    <2>4. shown' = shown /\ (screen' # "stopped" => listeners' # <<>>)
        BY <2>1 DEF QueueInv, RowsBound
    <2> QED BY <2>2, <2>3, <2>4 DEF RowsBound
<1>8. RowsFresh'
    <2> SUFFICES ASSUME shown # None, listeners' # <<>>, NEW i \in 1 .. Len(shown)
                 PROVE  /\ \/ shown[i] = Labels(i, rules')
                           \/ \E m \in 1 .. Len(due') : due'[m].to = i /\ due'[m].docs = rules'
                        /\ \A n \in 1 .. Len(due') :
                              due'[n].to = i /\ due'[n].docs # rules' =>
                                  \E m \in n + 1 .. Len(due') :
                                      due'[m].to = i /\ due'[m].docs = rules'
        <3>1. shown' = shown /\ Labels(1, rules)' = Labels(1, rules)'
            OBVIOUS
        <3> QED BY <3>1 DEF RowsFresh, Labels
    <2>1. listeners # <<>>
        BY DEF Posts
    <2>2. CASE rules' = rules
        <3>1. ASSUME NEW m \in 1 .. Len(due), due[m].to = i, due[m].docs = rules
              PROVE  m \in 1 .. Len(due') /\ due'[m].to = i /\ due'[m].docs = rules'
            BY <1>1, <2>2, <3>1 DEF Posts, Follows
        <3>2. shown[i] = Labels(i, rules')
                \/ \E m \in 1 .. Len(due') : due'[m].to = i /\ due'[m].docs = rules'
            BY <2>1, <2>2, <3>1 DEF QueueInv, RowsFresh
        <3>3. ASSUME NEW n \in 1 .. Len(due'), due'[n].to = i, due'[n].docs # rules'
              PROVE  \E m \in n + 1 .. Len(due') : due'[m].to = i /\ due'[m].docs = rules'
            <4>1. n \in 1 .. Len(due) /\ due[n].to = i /\ due[n].docs # rules
                BY <1>4, <2>2, <3>3 DEF Posts, Follows
            <4>2. PICK m \in n + 1 .. Len(due) : due[m].to = i /\ due[m].docs = rules
                BY <2>1, <4>1 DEF QueueInv, RowsFresh
            <4>3. m \in 1 .. Len(due) /\ m \in n + 1 .. Len(due')
                BY <1>1, <4>1
            <4> QED BY <3>1, <4>2, <4>3
        <3> QED BY <3>2, <3>3
    <2>3. CASE rules' # rules
        <3>1. PICK k \in 1 .. Len(listeners) : listeners[k] = i
            BY <2>1 DEF QueueInv, RowsBound
        <3>2. PICK m \in Len(due) + 1 .. Len(due') : due'[m].to = listeners[k]
            BY <2>3 DEF Posts, Follows
        <3>3. due'[m].to = i /\ due'[m].docs = rules' /\ m \in 1 .. Len(due')
            BY <1>1, <3>1, <3>2 DEF Posts, Follows
        <3>4. ASSUME NEW n \in 1 .. Len(due'), due'[n].docs # rules'
              PROVE  m \in n + 1 .. Len(due')
            <4>1. n \in 1 .. Len(due)
                BY <1>4, <3>4 DEF Posts, Follows
            <4> QED BY <1>1, <4>1
        <3> QED BY <3>3, <3>4
    <2> QED BY <2>2, <2>3
<1> QED BY <1>5, <1>6, <1>7, <1>8 DEF QueueInv

\* A callback runs: what is left due is as before.
LEMMA HearKeeps ==
    ASSUME TypeOK, QueueInv, Hear
    PROVE  /\ QueueInv' /\ shown' \in Seq(Rule) \cup {None} /\ ids' \in Seq(Title)
           /\ due' \in Seq(Call) /\ UNCHANGED <<listeners, screen>>
           /\ (shown' = None <=> shown = None) /\ Len(shown') = Len(shown)
           /\ shown # None => \A i \in 1 .. Len(shown) :
                 shown'[i] = shown[i] \/ shown'[i].title \in Titles(rules)
<1> DEFINE to == Head(due).to
           docs == Head(due).docs
<1>1. /\ due \in Seq(Call) /\ due # <<>>
      /\ \A n \in 1 .. Len(due) : due[n].to \in Nat /\ due[n].docs \in Views
    <2>1. due \in Seq(Call)
        BY DEF TypeOK, Call, Views
    <2>2. \A n \in 1 .. Len(due) : due[n] \in Call
        BY <2>1, ElementOfSeq
    <2>3. \A n \in 1 .. Len(due) : due[n].to \in Nat /\ due[n].docs \in Views
        BY <2>2 DEF Call
    <2>4. due # <<>>
        BY DEF Hear
    <2> QED BY <2>1, <2>3, <2>4
<1>2. /\ Len(due) \in Nat /\ Len(due) >= 1 /\ Head(due) = due[1]
      /\ Tail(due) \in Seq(Call) /\ Len(Tail(due)) = Len(due) - 1
      /\ \A n \in 1 .. Len(Tail(due)) : Tail(due)[n] = due[n + 1]
    BY <1>1, HeadTailProperties, EmptySeq, LenProperties
<1>3. to \in Nat /\ docs \in Views /\ to <= Size(docs) /\ Titles(docs) \subseteq Titles(rules)
      /\ to = due[1].to /\ docs = due[1].docs
    BY <1>1, <1>2 DEF QueueInv, OlderOK, RowsStand, Size
<1> HIDE DEF to, docs
<1>4. /\ due' = Tail(due) /\ UNCHANGED <<listeners, screen, rules>>
      /\ to = 0 => ids' = Loaded(docs) /\ shown' = shown
      /\ to # 0 => shown' = [shown EXCEPT ![to] = Labels(to, docs)] /\ ids' = ids
    BY <1>3 DEF Hear, Size, to, docs
<1>5. \A n \in 1 .. Len(due') : n + 1 \in 1 .. Len(due) /\ due'[n] = due[n + 1]
    BY <1>2, <1>4
<1>6. Len(due') = Len(due) - 1
    BY <1>2, <1>4
<1>7. to # 0 => shown \in Seq(Rule)
    <2>1. shown = None => to = 0
        BY <1>2, <1>3 DEF QueueInv, RowsBound
    <2> QED BY <2>1 DEF TypeOK
<1>8. to # 0 => Labels(to, docs) \in Rule
    BY <1>3, LabelsRule, TitlesFinite
<1>9. ASSUME to # 0
      PROVE  /\ shown' \in Seq(Rule) /\ Len(shown') = Len(shown) /\ shown' # None
             /\ \A i \in 1 .. Len(shown) :
                   shown'[i] = IF i = to THEN Labels(to, docs) ELSE shown[i]
    <2>1. CASE to \in 1 .. Len(shown)
        BY <1>4, <1>7, <1>8, <1>9, <2>1, ExceptSeq, RulesAssumption
    <2>2. CASE to \notin 1 .. Len(shown)
        <3>1. DOMAIN shown = 1 .. Len(shown) /\ shown \in [1 .. Len(shown) -> Rule]
            BY <1>7, <1>9, LenProperties
        <3>2. shown' = shown
            BY <1>4, <1>9, <2>2, <3>1
        <3> QED BY <1>7, <1>9, <2>2, <3>2, RulesAssumption
    <2> QED BY <2>1, <2>2
<1>10. shown' \in Seq(Rule) \cup {None} /\ (shown' = None <=> shown = None)
       /\ Len(shown') = Len(shown)
    <2>1. CASE to = 0
        BY <1>4, <2>1 DEF TypeOK
    <2>2. CASE to # 0
        BY <1>7, <1>9, <2>2, RulesAssumption
    <2> QED BY <2>1, <2>2
<1>11. ids' \in Seq(Title) /\ Len(ids') <= Size(rules)
    <2>1. CASE to = 0
        BY <1>3, <1>4, <2>1, LoadedTitles, SizeGrows
    <2>2. CASE to # 0
        <3>1. ids' = ids
            BY <1>4, <2>2
        <3> QED BY <3>1 DEF TypeOK, QueueInv, OlderOK
    <2> QED BY <2>1, <2>2
<1>12. OlderOK'
    <2>1. shown' # None => Len(shown') <= Size(rules)
        BY <1>10 DEF QueueInv, OlderOK
    <2>2. \A n \in 1 .. Len(due') : Titles(due'[n].docs) \subseteq Titles(rules)
        BY <1>5 DEF QueueInv, OlderOK
    <2>3. \A n \in 1 .. Len(listeners) : listeners[n] <= Size(rules)
        BY DEF QueueInv, OlderOK
    <2> HIDE DEF Size
    <2>4. rules' = rules /\ listeners' = listeners /\ Size(rules') = Size(rules)
        BY <1>4
    <2> QED BY <1>11, <2>1, <2>2, <2>3, <2>4 DEF OlderOK, Size
<1>13. RowsStand'
    BY <1>5 DEF QueueInv, RowsStand
<1>14. RowsBound'
    <2>1. shown = None => \A n \in 1 .. Len(due') : due'[n].to = 0
        BY <1>5 DEF QueueInv, RowsBound
    <2>2. UNCHANGED <<listeners, screen>> /\ Len(shown') = Len(shown)
          /\ (shown' = None <=> shown = None)
        BY <1>4, <1>10
    <2> QED BY <2>1, <2>2 DEF QueueInv, RowsBound
<1>15. RowsFresh'
    <2> SUFFICES ASSUME shown # None, listeners # <<>>, NEW i \in 1 .. Len(shown)
                 PROVE  /\ \/ shown'[i] = Labels(i, rules)
                           \/ \E m \in 1 .. Len(due') : due'[m].to = i /\ due'[m].docs = rules
                        /\ \A n \in 1 .. Len(due') :
                              due'[n].to = i /\ due'[n].docs # rules =>
                                  \E m \in n + 1 .. Len(due') :
                                      due'[m].to = i /\ due'[m].docs = rules
        <3>1. UNCHANGED <<listeners, rules>> /\ Len(shown') = Len(shown)
              /\ (shown' = None <=> shown = None)
            BY <1>4, <1>10
        <3> QED BY <3>1 DEF RowsFresh, Labels
    <2>1. ASSUME NEW m \in 2 .. Len(due)
          PROVE  m - 1 \in 1 .. Len(due') /\ due'[m - 1] = due[m]
        BY <1>2, <1>4
    <2>2. ASSUME NEW n \in 1 .. Len(due'), due'[n].to = i, due'[n].docs # rules
          PROVE  \E m \in n + 1 .. Len(due') : due'[m].to = i /\ due'[m].docs = rules
        <3>1. n + 1 \in 1 .. Len(due) /\ due[n + 1].to = i /\ due[n + 1].docs # rules
            BY <1>5, <2>2
        <3>2. PICK m \in (n + 1) + 1 .. Len(due) : due[m].to = i /\ due[m].docs = rules
            BY <3>1 DEF QueueInv, RowsFresh
        <3>3. m \in 2 .. Len(due) /\ m - 1 \in n + 1 .. Len(due')
            BY <1>2, <1>6
        <3> QED BY <2>1, <3>2, <3>3
    <2>3. ASSUME NEW m \in 2 .. Len(due), due[m].to = i, due[m].docs = rules
          PROVE  \E k \in 1 .. Len(due') : due'[k].to = i /\ due'[k].docs = rules
        BY <2>1, <2>3
    <2>4. CASE to = i
        <3>1. shown'[i] = Labels(i, docs)
            <4>1. to # 0
                BY <1>3, <2>4, LenProperties DEF TypeOK
            <4> QED BY <1>9, <2>4, <4>1
        <3>2. CASE docs = rules
            BY <2>2, <3>1, <3>2
        <3>3. CASE docs # rules
            <4>1. 1 \in 1 .. Len(due) /\ due[1].to = i /\ due[1].docs # rules
                BY <1>2, <1>3, <2>4, <3>3
            <4>2. PICK m \in 1 + 1 .. Len(due) : due[m].to = i /\ due[m].docs = rules
                BY <4>1 DEF QueueInv, RowsFresh
            <4>3. m \in 2 .. Len(due)
                OBVIOUS
            <4> QED BY <2>2, <2>3, <4>2, <4>3
        <3> QED BY <3>2, <3>3
    <2>5. CASE to # i
        <3>1. shown'[i] = shown[i]
            BY <1>4, <1>9, <2>5
        <3>2. ASSUME NEW m \in 1 .. Len(due), due[m].to = i
              PROVE  m \in 2 .. Len(due)
            BY <1>2, <1>3, <2>5, <3>2
        <3>3. shown[i] = Labels(i, rules)
                \/ \E m \in 1 .. Len(due) : due[m].to = i /\ due[m].docs = rules
            BY DEF QueueInv, RowsFresh
        <3> QED BY <2>2, <2>3, <3>1, <3>2, <3>3
    <2> QED BY <2>4, <2>5
<1>16. shown # None => \A i \in 1 .. Len(shown) :
          shown'[i] = shown[i] \/ shown'[i].title \in Titles(rules)
    <2>1. CASE to = 0
        BY <1>4, <2>1
    <2>2. CASE to # 0
        <3>1. Labels(to, docs).title \in Titles(rules)
            <4>1. to \in 1 .. Size(docs)
                BY <1>3, <2>2, TitlesFinite
            <4> QED BY <1>3, <4>1, LabelsRule
        <3> QED BY <1>9, <2>2, <3>1
    <2> QED BY <2>1, <2>2
<1>17. due' \in Seq(Call) /\ UNCHANGED <<listeners, screen>>
    BY <1>2, <1>4
<1> QED BY <1>10, <1>11, <1>12, <1>13, <1>14, <1>15, <1>16, <1>17 DEF QueueInv

\* The table is drawn: each row gets its listener, called with the rules of now.
LEMMA DrawKeeps ==
    ASSUME TypeOK, QueueInv, OpenRules, shown = None
    PROVE  QueueInv' /\ shown' \in Seq(Rule) /\ listeners' \in Seq(Nat) /\ due' \in Seq(Call)
<1> DEFINE k == Len(ids)
           rows == [i \in 1 .. k |-> i]
           calls_ == [i \in 1 .. Len(rows) |-> [to |-> rows[i], docs |-> rules]]
<1>1. /\ k \in Nat /\ k <= Size(rules) /\ listeners \in Seq(Nat) /\ due \in Seq(Call)
      /\ rules \in Views /\ listeners # <<>> /\ Len(due) \in Nat /\ Len(listeners) \in Nat
    BY LenProperties DEF TypeOK, Call, Views, QueueInv, OlderOK, RowsBound, OpenRules
<1>2. Size(rules) \in Nat
    BY TitlesFinite
<1> HIDE DEF Size
<1>3. shown' = [i \in 1 .. k |-> [title |-> CellTitle, content |-> CellContent]]
    BY DEF OpenRules
<1>4. listeners' = listeners \o rows /\ due' = due \o calls_
    BY DEF OpenRules, Attached
<1>5. UNCHANGED <<rules, ids>> /\ screen' # "stopped"
    BY DEF OpenRules
<1> HIDE DEF k
<1>6. rows \in Seq(Nat) /\ Len(rows) = k /\ \A i \in 1 .. k : rows[i] = i
    BY <1>1
<1>7. calls_ \in Seq(Call) /\ Len(calls_) = k
      /\ \A i \in 1 .. k : calls_[i].to = i /\ calls_[i].docs = rules
    <2>1. \A i \in 1 .. k : [to |-> rows[i], docs |-> rules] \in Call
        BY <1>1, <1>6 DEF Call
    <2> QED BY <1>1, <1>6, <2>1
<1>8. shown' \in Seq(Rule) /\ Len(shown') = k /\ shown' # None
    <2>1. [title |-> CellTitle, content |-> CellContent] \in Rule
        BY RulesAssumption DEF Rule
    <2>2. shown' \in Seq(Rule) /\ Len(shown') = k
        BY <1>1, <1>3, <2>1
    <2> QED BY <2>2, RulesAssumption
<1> HIDE DEF rows, calls_
<1>9. listeners' \in Seq(Nat) /\ Parts(listeners', listeners, rows)
    BY <1>1, <1>4, <1>6, TwoParts
<1>10. due' \in Seq(Call) /\ Parts(due', due, calls_)
    BY <1>1, <1>4, <1>7, TwoParts
<1>11. \A n \in 1 .. Len(listeners') : listeners'[n] <= Size(rules)
    <2> SUFFICES ASSUME NEW n \in 1 .. Len(listeners') PROVE listeners'[n] <= Size(rules)
        OBVIOUS
    <2>1. CASE n \in 1 .. Len(listeners)
        <3>1. listeners'[n] = listeners[n]
            BY <1>9, <2>1 DEF Parts
        <3> QED BY <2>1, <3>1 DEF QueueInv, OlderOK
    <2>2. CASE n \in Len(listeners) + 1 .. Len(listeners')
        <3>1. n - Len(listeners) \in 1 .. k /\ listeners'[n] = rows[n - Len(listeners)]
            BY <1>6, <1>9, <2>2 DEF Parts
        <3> QED BY <1>1, <1>2, <1>6, <3>1
    <2> QED BY <1>1, <2>1, <2>2
<1>12. ASSUME NEW n \in 1 .. Len(due')
       PROVE  \/ n \in 1 .. Len(due) /\ due'[n] = due[n] /\ due'[n].to = 0
              \/ due'[n].to \in 1 .. k /\ due'[n].docs = rules
    <2>1. CASE n \in 1 .. Len(due)
        <3>1. due'[n] = due[n]
            BY <1>10, <2>1 DEF Parts
        <3> QED BY <2>1, <3>1 DEF QueueInv, RowsBound
    <2>2. CASE n \in Len(due) + 1 .. Len(due')
        <3>1. n - Len(due) \in 1 .. k /\ due'[n] = calls_[n - Len(due)]
            BY <1>7, <1>10, <2>2 DEF Parts
        <3> QED BY <1>7, <3>1
    <2> QED BY <1>1, <2>1, <2>2
<1>13. OlderOK'
    <2>1. \A n \in 1 .. Len(due') : Titles(due'[n].docs) \subseteq Titles(rules)
        BY <1>12 DEF QueueInv, OlderOK
    <2>2. Len(ids') <= Size(rules') /\ Len(shown') <= Size(rules') /\ Size(rules') = Size(rules)
        BY <1>1, <1>5, <1>8 DEF k
    <2> QED BY <1>5, <1>11, <2>1, <2>2 DEF OlderOK, Size
<1>14. RowsStand'
    <2>1. ASSUME NEW n \in 1 .. Len(due') PROVE due'[n].to <= Size(due'[n].docs)
        <3>1. CASE n \in 1 .. Len(due) /\ due'[n] = due[n]
            BY <3>1 DEF QueueInv, RowsStand, Size
        <3>2. CASE due'[n].to \in 1 .. k /\ due'[n].docs = rules
            BY <1>1, <1>2, <3>2
        <3> QED BY <1>12, <3>1, <3>2
    <2> QED BY <2>1 DEF RowsStand, Size
<1>15. RowsBound'
    <2>1. ASSUME NEW i \in 1 .. Len(shown')
          PROVE  \E n \in 1 .. Len(listeners') : listeners'[n] = i
        <3>1. Len(listeners) + i \in Len(listeners) + 1 .. Len(listeners')
              /\ listeners'[Len(listeners) + i] = rows[i]
            BY <1>6, <1>8, <1>9, <2>1 DEF Parts
        <3>2. Len(listeners) + i \in 1 .. Len(listeners') /\ rows[i] = i
            BY <1>1, <1>6, <1>8, <3>1
        <3> QED BY <3>1, <3>2
    <2>2. listeners' # <<>>
        BY <1>1, <1>4, <1>6, ConcatSimplifications
    <2> QED BY <1>8, <2>1, <2>2 DEF RowsBound
<1>16. RowsFresh'
    <2>1. ASSUME NEW i \in 1 .. k
          PROVE  \E m \in 1 .. Len(due') : due'[m].to = i /\ due'[m].docs = rules
        <3>1. Len(due) + i \in Len(due) + 1 .. Len(due') /\ due'[Len(due) + i] = calls_[i]
            BY <1>7, <1>10 DEF Parts
        <3>2. Len(due) + i \in 1 .. Len(due')
            BY <1>1, <3>1
        <3> QED BY <1>7, <3>1, <3>2
    <2>2. ASSUME NEW i \in 1 .. k, NEW n \in 1 .. Len(due'), due'[n].to = i
          PROVE  due'[n].docs = rules
        BY <1>1, <1>12, <2>2
    <2> QED BY <1>5, <1>8, <2>1, <2>2 DEF RowsFresh
<1> QED BY <1>8, <1>9, <1>10, <1>13, <1>14, <1>15, <1>16 DEF QueueInv
----------------------------------------------------------------------------
(* Every step keeps the invariant.                                         *)

\* A write without new listeners.
LEMMA WritePosts ==
    ASSUME TypeOK, rules' \in Views, Titles(rules) \subseteq Titles(rules'),
           due' = DueAfter(rules'), listeners' = listeners
    PROVE  Posts /\ due' \in Seq(Call) /\ listeners' \in Seq(Nat)
<1>1. Follows(due', rules')
    BY DueFollows
<1>2. listeners \in Seq(Nat) /\ Len(listeners) \in Nat
    BY LenProperties DEF TypeOK
<1> QED BY <1>1, <1>2 DEF Posts, Follows

\* Listeners of loadRuleData, after a write or without one.
LEMMA AttachPosts ==
    ASSUME TypeOK, QueueInv, screen # "stopped", rules' \in Views,
           Titles(rules) \subseteq Titles(rules'),
           NEW ls \in Seq(Nat), \A i \in 1 .. Len(ls) : ls[i] = 0,
           Attached(ls, rules', DueAfter(rules'))
    PROVE  Posts /\ due' \in Seq(Call) /\ listeners' \in Seq(Nat)
<1>1. Follows(due', rules')
    BY DueFollows, CallFollows DEF Attached
<1>2. listeners \in Seq(Nat) /\ listeners # <<>> /\ Len(listeners) \in Nat
    BY LenProperties DEF TypeOK, QueueInv, RowsBound
<1>3. listeners' \in Seq(Nat) /\ Parts(listeners', listeners, ls)
    BY <1>2, TwoParts DEF Attached
<1>4. /\ Len(listeners') >= Len(listeners)
      /\ \A n \in 1 .. Len(listeners) : listeners'[n] = listeners[n]
    BY <1>2, <1>3 DEF Parts
<1>5. \A n \in Len(listeners) + 1 .. Len(listeners') : listeners'[n] = 0
    BY <1>3 DEF Parts
<1> QED BY <1>1, <1>2, <1>3, <1>4, <1>5 DEF Posts, Follows

\* A step that leaves the queue and the rows alone.
LEMMA SameKeeps ==
    ASSUME TypeOK, QueueInv, UNCHANGED <<rules, listeners, due, ids, shown>>,
           screen = "stopped" => screen' = "stopped"
    PROVE  QueueInv'
<1>1. rules \in Views /\ DueAfter(rules) = due /\ Len(ids) \in Nat
    BY LenProperties DEF TypeOK, Views, DueAfter
<1>2. rules' \in Views /\ Titles(rules) \subseteq Titles(rules') /\ due' = DueAfter(rules')
      /\ listeners' = listeners
    BY <1>1 DEF DueAfter
<1>3. Posts
    BY <1>2, WritePosts
<1>4. shown' = shown /\ Len(ids') <= Len(ids) /\ Len(ids') \in Nat
    BY <1>1
<1> QED BY <1>3, <1>4, PostsKeep

LEMMA StopsKeep ==
    ASSUME TypeOK, QueueInv, Stops, UNCHANGED <<rules, ids, shown>>
    PROVE  QueueInv'
<1>1. listeners' = <<>> /\ due' = <<>> /\ screen' = "stopped" /\ Len(<<>>) = 0
    BY EmptySeq DEF Stops
<1>2. 1 .. 0 = {}
    OBVIOUS
<1>3. OlderOK'
    BY <1>1, <1>2 DEF QueueInv, OlderOK, Size, Titles
<1>4. RowsStand' /\ RowsBound' /\ RowsFresh'
    BY <1>1, <1>2 DEF RowsStand, RowsBound, RowsFresh
<1> QED BY <1>3, <1>4 DEF QueueInv

LEMMA DeleteKeeps ==
    ASSUME TypeOK, QueueInv, shown # None, DeleteRow
    PROVE  QueueInv'
<1>1. CASE Stops /\ UNCHANGED shown
    BY <1>1, StopsKeep DEF DeleteRow
<1>2. CASE shown' = <<>> /\ UNCHANGED <<listeners, due, screen>>
    <2>1. <<>> # None /\ Len(<<>>) = 0 /\ 1 .. 0 = {}
        <3>1. <<>> \in Seq(Rule) /\ Len(<<>>) = 0
            BY EmptySeq
        <3>2. 1 .. 0 = {}
            OBVIOUS
        <3> QED BY <3>1, <3>2, RulesAssumption
    <2>2. UNCHANGED <<rules, ids>>
        BY DEF DeleteRow
    <2>3. Size(rules) \in Nat
        BY TitlesFinite
    <2>4. OlderOK'
        BY <1>2, <2>1, <2>2, <2>3 DEF QueueInv, OlderOK, Size, Titles
    <2>5. RowsStand' /\ RowsBound' /\ RowsFresh'
        BY <1>2, <2>1 DEF QueueInv, RowsStand, RowsBound, RowsFresh
    <2> QED BY <2>4, <2>5 DEF QueueInv
<1> QED BY <1>1, <1>2 DEF DeleteRow

LEMMA RestartKeeps ==
    ASSUME TypeOK, Restart
    PROVE  QueueInv' /\ TypeOK'
<1>0. /\ rules' \in Views /\ ids' = <<>> /\ shown' = None
      /\ listeners' = <<0>> /\ due' = <<[to |-> 0, docs |-> rules']>>
    BY DEF Restart, TypeOK, Views
<1>1. listeners' \in Seq(Nat) /\ due' \in Seq(Call) /\ ids' \in Seq(Title)
      /\ Len(listeners') = 1 /\ Len(due') = 1 /\ Len(ids') = 0 /\ listeners' # <<>>
      /\ listeners'[1] = 0 /\ due'[1] = [to |-> 0, docs |-> rules']
    BY <1>0 DEF Call
<1>2. Size(rules') \in Nat
    BY TitlesFinite
<1> HIDE DEF Size
<1>3. OlderOK'
    <2>1. Size(rules)' = Size(rules')
        BY DEF Size
    <2> QED BY <1>0, <1>1, <1>2, <2>1 DEF OlderOK
<1>4. RowsStand'
    BY <1>0, <1>1, <1>2 DEF RowsStand, Size
<1>5. RowsBound'
    BY <1>0, <1>1 DEF RowsBound
<1>6. RowsFresh'
    BY <1>0 DEF RowsFresh
<1>7. TypeOK'
    <2>1. calls' \in Nat
        BY DEF Restart, TypeOK
    <2> QED BY <1>0, <1>1, <2>1 DEF Restart, TypeOK, Call, Views
<1> QED BY <1>3, <1>4, <1>5, <1>6, <1>7 DEF QueueInv

\* An edit changes no title, when what is edited is a rule.
LEMMA EditSame ==
    ASSUME RulesInv, NEW c \in Content, EditConfirm(c)
    PROVE  /\ rules' \in Views /\ Titles(rules) \subseteq Titles(rules')
           /\ Titles(rules') \subseteq Titles(rules) \cup Hurried
<1>1. rules \in Views /\ rules' = [rules EXCEPT ![form.title] = c]
    BY DEF RulesInv, TypeOK, Views, EditConfirm, Edited
<1>2. form.title \in Titles(rules) \cup Hurried
    BY DEF RulesInv, EditsRule, EditConfirm
<1>3. Titles(rules') \subseteq Titles(rules) \cup {form.title}
    BY <1>1, WriteGrows
<1>4. rules' \in Views /\ Titles(rules) \subseteq Titles(rules')
    BY <1>1, WriteGrows
<1> QED BY <1>2, <1>3, <1>4

LEMMA HearStep ==
    ASSUME RulesInv, Hear PROVE RulesInv'
<1>1. QueueInv' /\ shown' \in Seq(Rule) \cup {None} /\ ids' \in Seq(Title)
      /\ due' \in Seq(Call) /\ UNCHANGED <<listeners, screen>>
    BY HearKeeps DEF RulesInv
<1>2. UNCHANGED <<habits, rules, current, form, calls>>
    BY DEF Hear
<1>3. TypeOK'
    BY <1>1, <1>2 DEF RulesInv, TypeOK, Call, Views
<1>4. EditsRule'
    <2>1. shown' # None =>
             \A i \in 1 .. Len(shown') : shown'[i].title \in Titles(rules) \cup {CellTitle}
        BY HearKeeps DEF RulesInv, EditsRule
    <2> QED BY <1>1, <1>2, <2>1 DEF RulesInv, EditsRule, Hurried, Titles
<1> QED BY <1>1, <1>3, <1>4 DEF RulesInv

\* The labels of a row are a rule of now, when nothing is due.
LEMMA ReadStep ==
    ASSUME RulesInv, shown # None, NEW i \in 1 .. Len(shown), ReadMore(i) PROVE RulesInv'
<1>1. shown \in Seq(Rule) /\ shown[i] \in Rule /\ shown[i] # None
    BY ElementOfSeq, RulesAssumption DEF RulesInv, TypeOK
<1>2. TypeOK'
    BY <1>1 DEF RulesInv, TypeOK, ReadMore
<1>3. QueueInv'
    BY SameKeeps DEF RulesInv, ReadMore
<1>4. ASSUME "hurries" \notin habits PROVE shown[i].title \in Titles(rules)
    <2>1. due = <<>> /\ listeners # <<>>
        BY <1>4 DEF ReadMore, Waits, RulesInv, QueueInv, RowsBound
    <2>2. shown[i] = Labels(i, rules)
        <3>1. 1 .. Len(due) = {}
            BY <2>1, EmptySeq
        <3> QED BY <2>1, <3>1 DEF RulesInv, QueueInv, RowsFresh
    <2>3. rules \in Views /\ i \in 1 .. Size(rules)
        <3>1. Len(shown) <= Size(rules) /\ Len(shown) \in Nat /\ Size(rules) \in Nat
            BY <1>1, LenProperties, TitlesFinite DEF RulesInv, QueueInv, OlderOK
        <3> QED BY <3>1 DEF RulesInv, TypeOK, Views
    <2> QED BY <2>2, <2>3, LabelsRule
<1>5. EditsRule'
    <2>1. shown[i].title \in Titles(rules) \cup Hurried
        BY <1>4 DEF RulesInv, EditsRule, Hurried
    <2>2. UNCHANGED <<habits, rules, shown>> /\ current' = shown[i] /\ form' = shown[i]
        BY DEF ReadMore
    <2> QED BY <1>1, <2>1, <2>2 DEF RulesInv, EditsRule, Hurried, Titles
<1> QED BY <1>2, <1>3, <1>5 DEF RulesInv

LEMMA DrawStep ==
    ASSUME RulesInv, OpenRules PROVE RulesInv'
<1>1. CASE shown = None
    <2>1. QueueInv' /\ shown' \in Seq(Rule) /\ listeners' \in Seq(Nat) /\ due' \in Seq(Call)
        BY <1>1, DrawKeeps DEF RulesInv
    <2>2. TypeOK'
        BY <2>1 DEF RulesInv, TypeOK, OpenRules, Call, Views
    <2>3. EditsRule'
        <3>1. shown' = [i \in 1 .. Len(ids) |-> [title |-> CellTitle, content |-> CellContent]]
            BY <1>1 DEF OpenRules
        <3>2. \A i \in 1 .. Len(shown') : shown'[i].title = CellTitle
            <4>1. Len(ids) \in Nat
                BY LenProperties DEF RulesInv, TypeOK
            <4> QED BY <3>1, <4>1
        <3> QED BY <3>2 DEF RulesInv, EditsRule, Hurried, OpenRules, Titles
    <2> QED BY <2>1, <2>2, <2>3 DEF RulesInv
<1>2. CASE shown # None
    <2>1. QueueInv'
        BY <1>2, SameKeeps DEF RulesInv, OpenRules
    <2>2. TypeOK'
        BY <1>2 DEF RulesInv, TypeOK, OpenRules
    <2>3. EditsRule'
        BY <1>2 DEF RulesInv, EditsRule, Hurried, OpenRules, Titles
    <2> QED BY <2>1, <2>2, <2>3 DEF RulesInv
<1> QED BY <1>1, <1>2

\* A step that posts and keeps the rest: the keys and the screen.
LEMMA PostsStep ==
    ASSUME RulesInv, Posts, due' \in Seq(Call), listeners' \in Seq(Nat),
           UNCHANGED <<habits, shown, current>>, ids' \in {ids, <<>>},
           form' \in {form, None}, calls' \in Nat,
           screen' \in {"menu", "rules", "add", screen}, screen = "stopped" => screen' = "stopped",
           screen' = "edit" => form' = form
    PROVE  RulesInv'
<1>1. ids' \in Seq(Title) /\ Len(ids') <= Len(ids) /\ Len(ids') \in Nat
    <2>1. ids \in Seq(Title) /\ <<>> \in Seq(Title) /\ Len(<<>>) = 0 /\ Len(ids) \in Nat
        BY LenProperties, EmptySeq DEF RulesInv, TypeOK
    <2>2. CASE ids' = ids
        BY <2>1, <2>2
    <2>3. CASE ids' = <<>>
        <3>1. Len(ids') = 0 /\ ids' \in Seq(Title)
            BY <2>1, <2>3, Zenon
        <3> QED BY <2>1, <3>1
    <2> QED BY <2>2, <2>3
<1>2. QueueInv'
    BY <1>1, PostsKeep DEF RulesInv
<1>3. rules' \in Views /\ Titles(rules) \subseteq Titles(rules')
    BY DEF Posts
<1>4. TypeOK'
    BY <1>1, <1>3 DEF RulesInv, TypeOK, Call, Views
<1>5. EditsRule'
    <2>1. screen' = "edit" => screen = "edit"
        OBVIOUS
    <2> QED BY <1>3, <2>1 DEF RulesInv, EditsRule, Hurried
<1> QED BY <1>2, <1>4, <1>5 DEF RulesInv

\* A step of which the rules and the queue hear nothing.
LEMMA QuietPosts ==
    ASSUME TypeOK, UNCHANGED <<rules, due, listeners>>
    PROVE  Posts /\ due' \in Seq(Call) /\ listeners' \in Seq(Nat)
<1>1. rules \in Views /\ due' = DueAfter(rules)
    BY DEF TypeOK, Views, DueAfter
<1>2. rules' \in Views /\ Titles(rules) \subseteq Titles(rules') /\ due' = DueAfter(rules')
    BY <1>1 DEF DueAfter
<1> QED BY <1>2, WritePosts

LEMMA AttachStep ==
    ASSUME RulesInv,
           \/ MenuAppears \/ AddCancel
           \/ \E menu \in BOOLEAN : VisitTab(menu)
           \/ \E t \in Title, c \in Content : AddConfirm(t, c)
    PROVE  RulesInv'
<1>1. <<0>> \in Seq(Nat) /\ <<0, 0>> \in Seq(Nat)
      /\ (\A i \in 1 .. Len(<<0>>) : <<0>>[i] = 0)
      /\ \A i \in 1 .. Len(<<0, 0>>) : <<0, 0>>[i] = 0
    OBVIOUS
<1>2. rules \in Views /\ DueAfter(rules) = due
    BY DEF RulesInv, TypeOK, Views, DueAfter
<1>3. CASE MenuAppears \/ AddCancel
    <2>1. rules' \in Views /\ Titles(rules) \subseteq Titles(rules') /\ screen # "stopped"
          /\ Attached(<<0>>, rules', DueAfter(rules'))
        BY <1>2, <1>3 DEF MenuAppears, AddCancel, DueAfter
    <2>2. Posts /\ due' \in Seq(Call) /\ listeners' \in Seq(Nat)
        BY <1>1, <2>1, AttachPosts DEF RulesInv
    <2>3. /\ UNCHANGED <<habits, shown, current, form>> /\ ids' \in {ids, <<>>}
          /\ calls' \in Nat /\ screen' \in {"menu", "rules"}
        BY <1>3 DEF MenuAppears, AddCancel, RulesInv, TypeOK
    <2> QED BY <2>1, <2>2, <2>3, PostsStep
<1>4. ASSUME NEW t \in Title, NEW c \in Content, AddConfirm(t, c) PROVE RulesInv'
    <2>1. rules' \in Views /\ Titles(rules) \subseteq Titles(rules') /\ screen # "stopped"
          /\ Attached(<<0, 0>>, rules', DueAfter(rules'))
        <3>1. rules' = [rules EXCEPT ![t] = c] /\ screen # "stopped"
            BY <1>4 DEF AddConfirm
        <3>2. Attached(<<0, 0>>, rules', DueAfter(rules'))
            BY <1>4 DEF AddConfirm, DueAfter, Callbacks
        <3> QED BY <1>2, <3>1, <3>2, WriteGrows
    <2>2. Posts /\ due' \in Seq(Call) /\ listeners' \in Seq(Nat)
        BY <1>1, <2>1, AttachPosts DEF RulesInv
    <2>3. /\ UNCHANGED <<habits, shown, current, form, ids>>
          /\ calls' \in Nat /\ screen' = "rules"
        BY <1>4 DEF AddConfirm, RulesInv, TypeOK
    <2> QED BY <2>1, <2>2, <2>3, PostsStep
<1>5. ASSUME NEW menu \in BOOLEAN, VisitTab(menu) PROVE RulesInv'
    <2> DEFINE ls == IF screen = "add" /\ menu THEN <<0, 0>> ELSE <<0>>
    <2>1. ls \in Seq(Nat) /\ \A i \in 1 .. Len(ls) : ls[i] = 0
        BY <1>1
    <2>2. rules' \in Views /\ Titles(rules) \subseteq Titles(rules') /\ screen # "stopped"
          /\ Attached(ls, rules', DueAfter(rules'))
        BY <1>2, <1>5 DEF VisitTab, DueAfter
    <2> HIDE DEF ls
    <2>3. Posts /\ due' \in Seq(Call) /\ listeners' \in Seq(Nat)
        BY <2>1, <2>2, AttachPosts DEF RulesInv
    <2>4. /\ UNCHANGED <<habits, shown, current, form, screen>> /\ ids' \in {ids, <<>>}
          /\ calls' \in Nat
        BY <1>5 DEF VisitTab, RulesInv, TypeOK
    <2> QED BY <2>2, <2>3, <2>4, PostsStep
<1> QED BY <1>3, <1>4, <1>5

LEMMA WriteStep ==
    ASSUME RulesInv,
           \/ \E c \in Content : EditConfirm(c)
           \/ \E t \in Title, c \in Content : OthersWrite(t, c)
    PROVE  RulesInv'
<1>1. ASSUME NEW c \in Content, EditConfirm(c) PROVE RulesInv'
    <2>1. rules' \in Views /\ Titles(rules) \subseteq Titles(rules')
        BY <1>1, EditSame
    <2>2. due' = DueAfter(rules') /\ listeners' = listeners
        BY <1>1 DEF EditConfirm, DueAfter, Callbacks
    <2>3. Posts /\ due' \in Seq(Call) /\ listeners' \in Seq(Nat)
        BY <2>1, <2>2, WritePosts DEF RulesInv
    <2>4. /\ UNCHANGED <<habits, shown, current, ids>> /\ form' = None
          /\ calls' \in Nat /\ screen = "edit" /\ screen' = "rules"
        BY <1>1 DEF EditConfirm, RulesInv, TypeOK
    <2> QED BY <2>3, <2>4, PostsStep
<1>2. ASSUME NEW t \in Title, NEW c \in Content, OthersWrite(t, c) PROVE RulesInv'
    <2>1. rules' = [rules EXCEPT ![t] = c] /\ rules \in Views
        BY <1>2 DEF OthersWrite, RulesInv, TypeOK, Views
    <2>2. rules' \in Views /\ Titles(rules) \subseteq Titles(rules')
        BY <2>1, WriteGrows
    <2>3. due' = DueAfter(rules') /\ listeners' = listeners
        BY <1>2 DEF OthersWrite, DueAfter, Callbacks
    <2>4. Posts /\ due' \in Seq(Call) /\ listeners' \in Seq(Nat)
        BY <2>2, <2>3, WritePosts DEF RulesInv
    <2>5. /\ UNCHANGED <<habits, shown, current, ids, form, screen>> /\ calls' \in Nat
        BY <1>2 DEF OthersWrite, RulesInv, TypeOK
    <2> QED BY <2>4, <2>5, PostsStep
<1> QED BY <1>1, <1>2

LEMMA EditCancelStep ==
    ASSUME RulesInv, EditCancel \/ OpenAdd PROVE RulesInv'
<1>1. Posts /\ due' \in Seq(Call) /\ listeners' \in Seq(Nat)
    BY QuietPosts DEF RulesInv, EditCancel, OpenAdd
<1>2. /\ UNCHANGED <<habits, shown, current, ids>> /\ form' \in {form, None} /\ calls' \in Nat
      /\ screen # "stopped" /\ screen' \in {"rules", "add"}
    BY DEF EditCancel, OpenAdd, RulesInv, TypeOK
<1> QED BY <1>1, <1>2, PostsStep

LEMMA TapStep ==
    ASSUME RulesInv, shown # None, TapRow PROVE RulesInv'
<1>1. UNCHANGED <<habits, rules, ids, shown, current, calls>> /\ form' = current
    BY DEF TapRow
<1>2. CASE current = None
    <2>1. Stops
        BY <1>2 DEF TapRow
    <2>2. QueueInv'
        BY <1>1, <2>1, StopsKeep DEF RulesInv
    <2>3. listeners' = <<>> /\ due' = <<>> /\ screen' = "stopped"
        BY <2>1 DEF Stops
    <2>4. TypeOK'
        BY <1>1, <2>3, EmptySeq DEF RulesInv, TypeOK
    <2>5. EditsRule'
        BY <1>1, <1>2, <2>3 DEF RulesInv, EditsRule, Hurried, Titles
    <2> QED BY <2>2, <2>4, <2>5 DEF RulesInv
<1>3. CASE current # None
    <2>1. screen' = "edit" /\ UNCHANGED <<listeners, due>> /\ screen # "stopped"
        BY <1>3 DEF TapRow
    <2>2. QueueInv'
        BY <1>1, <2>1, SameKeeps DEF RulesInv
    <2>3. TypeOK'
        BY <1>1, <2>1 DEF RulesInv, TypeOK
    <2>4. EditsRule'
        BY <1>1, <1>3, <2>1 DEF RulesInv, EditsRule, Hurried, Titles
    <2> QED BY <2>2, <2>3, <2>4 DEF RulesInv
<1> QED BY <1>2, <1>3

LEMMA DeleteStep ==
    ASSUME RulesInv, shown # None, DeleteRow PROVE RulesInv'
<1>1. QueueInv'
    BY DeleteKeeps DEF RulesInv
<1>2. UNCHANGED <<habits, rules, ids, current, form, calls>> /\ screen = "rules"
    BY DEF DeleteRow
<1>3. \/ shown' = <<>> /\ UNCHANGED <<listeners, due, screen>>
      \/ listeners' = <<>> /\ due' = <<>> /\ screen' = "stopped" /\ UNCHANGED shown
    BY DEF DeleteRow, Stops
<1>4. TypeOK'
    BY <1>2, <1>3, EmptySeq DEF RulesInv, TypeOK
<1>5. EditsRule'
    <2>1. <<>> \in Seq(Rule) /\ Len(<<>>) = 0 /\ 1 .. 0 = {}
        BY EmptySeq
    <2> QED BY <1>2, <1>3, <2>1 DEF RulesInv, EditsRule, Hurried, Titles
<1> QED BY <1>1, <1>4, <1>5 DEF RulesInv

LEMMA RestartStep ==
    ASSUME RulesInv, Restart PROVE RulesInv'
<1>1. QueueInv' /\ TypeOK'
    BY RestartKeeps DEF RulesInv
<1>2. EditsRule'
    BY DEF RulesInv, EditsRule, Hurried, Restart, Titles
<1> QED BY <1>1, <1>2 DEF RulesInv

LEMMA RulesNext == RulesInv /\ [Next]_vars => RulesInv'
<1> SUFFICES ASSUME RulesInv, [Next]_vars PROVE RulesInv'
    OBVIOUS
<1>1. CASE UNCHANGED vars
    <2>1. Posts /\ due' \in Seq(Call) /\ listeners' \in Seq(Nat)
        BY <1>1, QuietPosts DEF RulesInv, vars
    <2>2. UNCHANGED <<habits, shown, current, ids, form, screen>> /\ calls' \in Nat
        BY <1>1 DEF vars, RulesInv, TypeOK
    <2> QED BY <2>1, <2>2, PostsStep
<1> QED BY <1>1, HearStep, DrawStep, ReadStep, TapStep, DeleteStep, WriteStep, EditCancelStep,
           AttachStep, RestartStep DEF Next

LEMMA RulesStart == Init => RulesInv
<1> SUFFICES ASSUME Init PROVE RulesInv
    OBVIOUS
<1>1. /\ rules \in Views /\ listeners = <<0>> /\ due = <<[to |-> 0, docs |-> rules]>>
      /\ ids = <<>> /\ shown = None
    BY RulesAssumption DEF Init, Views
<1>2. TypeOK
    BY <1>1, EmptySeq DEF Init, TypeOK, Views, Habit
<1>3. Size(rules) \in Nat
    BY TitlesFinite
<1> HIDE DEF Size
<1>4. Len(listeners) = 1 /\ Len(due) = 1 /\ Len(ids) = 0 /\ listeners # <<>>
      /\ listeners[1] = 0 /\ due[1] = [to |-> 0, docs |-> rules]
    BY <1>1
<1>5. OlderOK
    BY <1>1, <1>3, <1>4 DEF OlderOK
<1>6. RowsStand
    BY <1>3, <1>4 DEF RowsStand, Size
<1>7. RowsBound /\ RowsFresh /\ EditsRule
    BY <1>1, <1>4 DEF RowsBound, RowsFresh, EditsRule, Init
<1> QED BY <1>2, <1>5, <1>6, <1>7 DEF RulesInv, QueueInv

LEMMA RulesInvariant == Spec => []RulesInv
    BY RulesStart, RulesNext, PTL DEF Spec

\* Every variable keeps its type, whatever number of titles and listeners.
THEOREM TypeCorrect == Spec => []TypeOK
<1>1. RulesInv => TypeOK
    BY DEF RulesInv
<1> QED BY <1>1, RulesInvariant, PTL

\* No row ever hears an answer without a document at its index: the index out
\* of range of "documents[indexPath.row]" is out of reach.
THEOREM RowsStandHolds == Spec => []RowsStand
<1>1. RulesInv => RowsStand
    BY DEF RulesInv, QueueInv
<1> QED BY <1>1, RulesInvariant, PTL

\* Once no callback is due, each row shows the rule at its index, wherever and
\* however often rules were inserted and edited.
THEOREM ShownIsRuleHolds == Spec => []ShownIsRule
<1>1. RulesInv => ShownIsRule
    <2> SUFFICES ASSUME RulesInv, listeners # <<>>, due = <<>>, shown # None,
                        NEW i \in 1 .. Len(shown)
                 PROVE  shown[i] = Labels(i, rules)
        BY DEF ShownIsRule, Labels
    <2>1. 1 .. Len(due) = {}
        BY EmptySeq
    <2> QED BY <2>1 DEF RulesInv, QueueInv, RowsFresh
<1> QED BY <1>1, RulesInvariant, PTL

\* No edit makes a new rule but the storyboard's, and that only when the
\* librarian was quicker than a row's first answer.
THEOREM EditKeepsTitlesHolds == Spec => EditKeepsTitles
<1>1. RulesInv /\ [Next]_vars =>
        [\A c \in Content :
            EditConfirm(c) => Titles(rules') \subseteq Titles(rules) \cup
                (IF "hurries" \in habits THEN {CellTitle} ELSE {})]_vars
    BY EditSame DEF Hurried
<1> QED BY <1>1, RulesInvariant, PTL DEF Spec, EditKeepsTitles
=============================================================================
