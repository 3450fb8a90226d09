----------------------------- MODULE MCCardList -----------------------------
(* Small instances of CardList for TLC. *)
EXTENDS CardList
CONSTANTS s1, s2

\* s1 has a closed card and s2 an open one; the other ids are unused.
OneEach == [k \in Card |-> CASE k = 2 -> [student |-> s1, open |-> FALSE]
                             [] k = 3 -> [student |-> s2, open |-> TRUE]
                             [] OTHER -> None]
=============================================================================
