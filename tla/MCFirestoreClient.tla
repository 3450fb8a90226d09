------------------------- MODULE MCFirestoreClient -------------------------
(* Small instances of FirestoreClient for TLC. *)
EXTENDS FirestoreClient
CONSTANTS k1, k2, f1, f2, v1, v2

W(kind, k, f, v) == [kind |-> kind, key |-> k, patch |-> [NoData EXCEPT ![f] = v]]

\* k1 is there at the start, k2 is not.
OneDocument == [k \in Key |-> IF k = k1 THEN [NoData EXCEPT ![f1] = v1] ELSE NoData]

\* The app replaces k1, and creates or changes k2.
AppWrites == {W("set", k1, f1, v2), W("update", k2, f1, v1), W("merge", k2, f2, v2)}
ElsewhereWrites == {W("merge", k1, f2, v1), W("merge", k2, f2, v2)}
=============================================================================
