------------------------------- MODULE Rules -------------------------------
(***************************************************************************)
(* The rules of the library on one device: ruleView-, addRules- and        *)
(* editInfoRuleViewController, and loadRuleData of the student menu.       *)
(*                                                                         *)
(* A rule is a document of the collection Rules whose id is its title.     *)
(* The menu and the add screen attach listeners that keep the titles in    *)
(* the UserDefaults key "ID_rules".  The table is drawn once, with as many *)
(* rows as there are titles then; each row has a listener on the whole     *)
(* collection and shows the document that is at its index in every answer. *)
(* No listener is removed.                                                 *)
(*                                                                         *)
(* Firestore is external: a change of the device's view of the rules puts  *)
(* one callback for each listener, in the order they were attached, on the *)
(* main queue.  No code deletes a rule and no write is refused, so the     *)
(* view only gains rules.  All rows fit on the screen.                     *)
(***************************************************************************)
EXTENDS Integers, Sequences, FiniteSets

CONSTANTS
    Title,      \* titles of rules, in their order as document ids
    Content,    \* their texts
    None,       \* no rule, a key that is not set
    CellTitle, CellContent,  \* what the storyboard puts in a row
    FirstRules, \* the device's view of the rules at the start
    MaxListeners,  \* bound: listeners attached between two restarts
    MaxDue,     \* bound: callbacks waiting on the main queue
    MaxCalls    \* bound: restarts and rules written by other devices

Rule == [title : Title, content : Content]

ASSUME RulesAssumption ==
    /\ Title \subseteq Nat /\ IsFiniteSet(Title)
    /\ None \notin Content /\ None \notin Rule /\ None \notin Seq(Rule)
    /\ CellTitle \in Title /\ CellContent \in Content
    /\ FirstRules \in [Title -> Content \cup {None}]

\* What may happen: a librarian who goes on before the callbacks have run; one
\* who taps a row beside its button; restarts; other devices' rules.
Habit == {"hurries", "taps", "restarts", "others"}

VARIABLES
    habits,     \* what happens in this behaviour
    rules,      \* the device's view: the content of each title
    listeners,  \* 0 for one of loadRuleData, the row for one of a cell
    due,        \* the callbacks on the main queue
    ids,        \* the key ID_rules
    shown,      \* the labels of the rows; None until the table is drawn
    current,    \* the key current_rule
    screen,     \* the screen in front
    form,       \* the fields of the edit screen
    calls       \* counts for the bound

vars == <<habits, rules, listeners, due, ids, shown, current, screen, form, calls>>
----------------------------------------------------------------------------
Titles(docs) == {t \in Title : docs[t] # None}

\* The title at index i of an answer.
At(docs, i) ==
    CHOOSE t \in Titles(docs) : Cardinality({u \in Titles(docs) : u <= t}) = i

\* ID_rules after an answer: an array started anew.
Loaded_Appended(docs) ==
    ids \o [i \in 1 .. Cardinality(Titles(docs)) |-> At(docs, i)]
Loaded(docs) == [i \in 1 .. Cardinality(Titles(docs)) |-> At(docs, i)]

\* The labels of a row after an answer.
Labels_ContentOnly(i, docs) == [shown[i] EXCEPT !.content = docs[At(docs, i)]]
Labels_Swapped(i, docs) == [title |-> docs[At(docs, i)], content |-> At(docs, i)]
Labels(i, docs) == [title |-> At(docs, i), content |-> docs[At(docs, i)]]

Callbacks(docs) == [i \in 1 .. Len(listeners) |-> [to |-> listeners[i], docs |-> docs]]

\* New listeners are called with the view there is, after what is due already.
Attached(ls, docs, waiting) ==
    /\ Len(listeners) + Len(ls) <= MaxListeners
    /\ Len(waiting) + Len(ls) <= MaxDue
    /\ listeners' = listeners \o ls
    /\ due' = waiting \o [i \in 1 .. Len(ls) |-> [to |-> ls[i], docs |-> docs]]

\* The callbacks due once the view has become docs.
DueAfter(docs) == IF docs = rules THEN due ELSE due \o Callbacks(docs)

Waits == "hurries" \notin habits => due = <<>>

Init ==
    /\ habits \in SUBSET Habit
    /\ rules = FirstRules
    /\ listeners = <<0>>
    /\ due = <<[to |-> 0, docs |-> rules]>>
    /\ ids = <<>>
    /\ shown = None
    /\ current = None
    /\ screen = "menu"
    /\ form = None
    /\ calls = 0
\* The app stops: nothing of it is called any more.
Stops == screen' = "stopped" /\ listeners' = <<>> /\ due' = <<>>
----------------------------------------------------------------------------
\* A callback runs; a row without a document at its index stops the app.
Hear ==
    /\ due # <<>>
    /\ LET to == Head(due).to
           docs == Head(due).docs
       IN  IF to = 0 THEN /\ ids' = Loaded(docs)
                          /\ due' = Tail(due)
                          /\ UNCHANGED <<listeners, shown, screen>>
           ELSE IF to <= Cardinality(Titles(docs))
           THEN /\ shown' = [shown EXCEPT ![to] = Labels(to, docs)]
                /\ due' = Tail(due)
                /\ UNCHANGED <<listeners, ids, screen>>
           ELSE Stops /\ UNCHANGED <<ids, shown>>
    /\ UNCHANGED <<habits, rules, current, form, calls>>

\* The student menu comes up: the key is emptied and a listener attached.
MenuAppears ==
    /\ screen \in {"menu", "rules"}
    /\ ids' = <<>>
    /\ Attached(<<0>>, rules, due)
    /\ screen' = "menu"
    /\ UNCHANGED <<habits, rules, shown, current, form, calls>>

\* The rule tab; the first time its table is drawn, with a listener for each row.
OpenRules ==
    /\ screen = "menu" /\ Waits
    /\ IF shown = None
       THEN /\ shown' = [i \in 1 .. Len(ids) |->
                            [title |-> CellTitle, content |-> CellContent]]
            /\ Attached([i \in 1 .. Len(ids) |-> i], rules, due)
       ELSE UNCHANGED <<shown, listeners, due>>
    /\ screen' = "rules"
    /\ UNCHANGED <<habits, rules, ids, current, form, calls>>

\* readMoreButton stores the labels, and the edit screen is filled from them.
ReadMore(i) ==
    /\ screen = "rules" /\ Waits
    /\ current' = shown[i]
    /\ form' = shown[i]
    /\ screen' = "edit"
    /\ UNCHANGED <<habits, rules, listeners, due, ids, shown, calls>>

\* The row itself leads to the edit screen as well, without storing anything.
TapRow ==
    /\ "taps" \in habits
    /\ screen = "rules" /\ shown # <<>>
    /\ form' = current
    /\ IF current = None THEN Stops
       ELSE screen' = "edit" /\ UNCHANGED <<listeners, due>>
    /\ UNCHANGED <<habits, rules, ids, shown, current, calls>>

\* A row is swiped away: deleteRows stops the app unless one title fewer is in
\* the key by then.  The key is only ever shorter than the table while the menu
\* has emptied it, and then has none.
DeleteRow ==
    /\ screen = "rules" /\ shown # <<>>
    /\ IF Len(shown) = 1 /\ ids = <<>>
       THEN shown' = <<>> /\ UNCHANGED <<listeners, due, screen>>
       ELSE Stops /\ UNCHANGED shown
    /\ UNCHANGED <<habits, rules, ids, current, form, calls>>

\* confirmButton of the edit screen: the title field is disabled.
Edited(c) == [rules EXCEPT ![form.title] = c]
EditConfirm(c) ==
    /\ screen = "edit"
    /\ Len(DueAfter(Edited(c))) <= MaxDue
    /\ rules' = Edited(c)
    /\ due' = DueAfter(Edited(c))
    /\ screen' = "rules" /\ form' = None
    /\ UNCHANGED <<habits, listeners, ids, shown, current, calls>>

EditCancel ==
    /\ screen = "edit"
    /\ screen' = "rules" /\ form' = None
    /\ UNCHANGED <<habits, rules, listeners, due, ids, shown, current, calls>>

OpenAdd ==
    /\ screen = "rules"
    /\ screen' = "add"
    /\ UNCHANGED <<habits, rules, listeners, due, ids, shown, current, form, calls>>

\* confirmButton of the add screen: a title that is there already gets the new
\* content.  A listener is attached here and another when the screen goes away;
\* the table is not drawn again.
AddConfirm(t, c) ==
    LET docs == [rules EXCEPT ![t] = c]
    IN  /\ screen = "add"
        /\ rules' = docs
        /\ Attached(<<0, 0>>, docs, DueAfter(docs))
        /\ screen' = "rules"
        /\ UNCHANGED <<habits, ids, shown, current, form, calls>>

AddCancel ==
    /\ screen = "add"
    /\ Attached(<<0>>, rules, due)
    /\ screen' = "rules"
    /\ UNCHANGED <<habits, rules, ids, shown, current, form, calls>>

\* Another tab and back: the tab bar stays in reach of the screens pushed on the
\* table.  The add screen attaches a listener when it goes away; menu: the tab
\* is the one with the menu on top, which empties the key and attaches another.
VisitTab(menu) ==
    /\ screen = "add" \/ (screen = "edit" /\ menu)
    /\ Attached(IF screen = "add" /\ menu THEN <<0, 0>> ELSE <<0>>, rules, due)
    /\ ids' = IF menu THEN <<>> ELSE ids
    /\ UNCHANGED <<habits, rules, shown, current, screen, form, calls>>

OthersWrite(t, c) ==
    LET docs == [rules EXCEPT ![t] = c]
    IN  /\ "others" \in habits
        /\ calls < MaxCalls /\ calls' = calls + 1
        /\ Len(DueAfter(docs)) <= MaxDue
        /\ rules' = docs
        /\ due' = DueAfter(docs)
        /\ UNCHANGED <<habits, listeners, ids, shown, current, screen, form>>

\* The app is started again and shows the menu; UserDefaults are kept.
Restart ==
    /\ "restarts" \in habits
    /\ calls < MaxCalls /\ calls' = calls + 1
    /\ listeners' = <<0>>
    /\ due' = <<[to |-> 0, docs |-> rules]>>
    /\ ids' = <<>>
    /\ shown' = None /\ form' = None
    /\ screen' = "menu"
    /\ UNCHANGED <<habits, rules, current>>

Next ==
    \/ Hear
    \/ MenuAppears
    \/ OpenRules
    \/ shown # None /\ \E i \in 1 .. Len(shown) : ReadMore(i)
    \/ shown # None /\ TapRow
    \/ shown # None /\ DeleteRow
    \/ \E c \in Content : EditConfirm(c)
    \/ EditCancel
    \/ OpenAdd
    \/ \E t \in Title, c \in Content : AddConfirm(t, c)
    \/ AddCancel
    \/ \E menu \in BOOLEAN : VisitTab(menu)
    \/ \E t \in Title, c \in Content : OthersWrite(t, c)
    \/ Restart

Spec == Init /\ [][Next]_vars
----------------------------------------------------------------------------
(* Properties.                                                             *)

\* Every variable keeps its type.
TypeOK ==
    /\ habits \subseteq Habit
    /\ rules \in [Title -> Content \cup {None}]
    /\ listeners \in Seq(Nat)
    /\ due \in Seq([to : Nat, docs : [Title -> Content \cup {None}]])
    /\ ids \in Seq(Title)
    /\ shown \in Seq(Rule) \cup {None}
    /\ current \in Rule \cup {None}
    /\ screen \in {"menu", "rules", "edit", "add", "stopped"}
    /\ form \in Rule \cup {None}
    /\ calls \in Nat

\* "documents[indexPath.row]" is there in every answer a row hears: the rows
\* were counted in an older answer, and the rules only become more.
RowsStand ==
    \A n \in 1 .. Len(due) : due[n].to <= Cardinality(Titles(due[n].docs))

\* Once the callbacks have run, the row at an index shows the title and the
\* content of the rule at that index, wherever rules were inserted.
ShownIsRule ==
    listeners # <<>> /\ due = <<>> /\ shown # None =>
        \A i \in 1 .. Len(shown) :
            shown[i] = [title |-> At(rules, i), content |-> rules[At(rules, i)]]

\* Editing makes no new rule but one: that of the storyboard's title, when the
\* librarian was quicker than a row's first answer.  However rows, labels and
\* the key current_rule have aged, every other edit is of a rule that is there.
EditKeepsTitles ==
    [][\A c \in Content :
          EditConfirm(c) => Titles(rules') \subseteq Titles(rules) \cup
              (IF "hurries" \in habits THEN {CellTitle} ELSE {})]_vars
=============================================================================
