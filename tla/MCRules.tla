------------------------------ MODULE MCRules ------------------------------
(* Small instances of Rules for TLC. *)
EXTENDS Rules
CONSTANTS c1

\* The rule in the middle is there; the third title is the storyboard's.
OneRule == [t \in Title |-> IF t = 2 THEN c1 ELSE None]
=============================================================================
