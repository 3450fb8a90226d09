--------------------------- MODULE MCPatientDesk ---------------------------
(* Small instances of PatientDesk for TLC. *)
EXTENDS PatientDesk, TLC
CONSTANTS b1

NoCut == [b \in Book |-> b]
\* One copy of b1; the other books are not there yet.
OnlyFirst == [b \in Book |-> IF b = b1 THEN 1 ELSE None]
AnyWork == [d \in Device |-> {"lend", "return", "catalogue"}]
Alike == Permutations(Card) \cup Permutations(Device)
============================================================================
