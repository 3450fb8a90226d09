--------------------------- MODULE MCCirculation ---------------------------
(* Small instances of Circulation for TLC. *)
EXTENDS Circulation
CONSTANTS d1, d2, b1, b2

NoCut == [b \in Book |-> b]
\* The id of b1 is that of b2 followed by a dash and more; no other id holds
\* a dash.
CutFirst == [b \in Book |-> IF b = b1 THEN b2 ELSE b]
OneCopyEach == [b \in Book |-> 1]
OnlyFirst == [b \in Book |-> IF b = b1 THEN 1 ELSE None]

\* Two desks that lend, return and are restarted.
TwoDesks == [d \in Device |-> {"lend", "return", "restart"}]
\* One device with everything.
AllDuties == [d \in Device |-> {"lend", "return", "catalogue", "restart"}]
Catalogue == [d \in Device |-> {"catalogue"}]
Lending == [d \in Device |-> {"lend"}]
============================================================================
