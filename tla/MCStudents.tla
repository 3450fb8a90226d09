----------------------------- MODULE MCStudents -----------------------------
(* Small instances of Students for TLC. *)
EXTENDS Students
CONSTANTS d1, n1, n2, m1

\* The library starts with one document, free or with a student.
OneFree == [x \in Doc |-> IF x = 1 THEN [number |-> n1, name |-> NoName, active |-> TRUE] ELSE None]
OneStudent == [x \in Doc |-> IF x = 1 THEN [number |-> n1, name |-> m1, active |-> TRUE] ELSE None]

Adding == [d \in Device |-> {"add"}]
AllDuties == [d \in Device |-> {"add", "edit", "restart"}]
=============================================================================
