------------------------------ MODULE Replica ------------------------------
(***************************************************************************)
(* What Firestore promises an app that only issues writes: every user has  *)
(* a queue of writes; the server takes them in the order they were issued; *)
(* a write leaves the queue only once it has been taken, or when it is the *)
(* oldest and is refused.  It is not promised that a write is taken once:  *)
(* whatever of the queue the server has taken may be forgotten, and is     *)
(* then taken again from the oldest write still in the queue.              *)
(***************************************************************************)
EXTENDS Naturals, Sequences

CONSTANTS User, Mutation, Holds(_, _), Effect(_, _), FirstDocs

VARIABLES
    docs,     \* the server's documents
    pending,  \* for each user, the writes not confirmed yet, oldest first
    taken     \* how many of them, from the oldest, the server has taken

Init ==
    /\ docs = FirstDocs
    /\ pending = [u \in User |-> <<>>]
    /\ taken = [u \in User |-> 0]

Issue(u, m) ==
    /\ pending' = [pending EXCEPT ![u] = Append(@, m)]
    /\ UNCHANGED <<docs, taken>>

Take(u) ==
    /\ taken[u] < Len(pending[u])
    /\ LET m == pending[u][taken[u] + 1]
       IN  Holds(m, docs) /\ docs' = Effect(m, docs)
    /\ taken' = [taken EXCEPT ![u] = @ + 1]
    /\ UNCHANGED pending

Confirm(u) ==
    /\ taken[u] > 0
    /\ taken' = [taken EXCEPT ![u] = @ - 1]
    /\ pending' = [pending EXCEPT ![u] = Tail(@)]
    /\ UNCHANGED docs

Refuse(u) ==
    /\ taken[u] = 0 /\ pending[u] # <<>>
    /\ pending' = [pending EXCEPT ![u] = Tail(@)]
    /\ UNCHANGED <<docs, taken>>

Forget(u) ==
    /\ taken' = [taken EXCEPT ![u] = 0]
    /\ UNCHANGED <<docs, pending>>

\* Somebody else writes.
Elsewhere(m) ==
    /\ Holds(m, docs) /\ docs' = Effect(m, docs)
    /\ UNCHANGED <<pending, taken>>

Next ==
    \/ \E u \in User : Take(u) \/ Confirm(u) \/ Refuse(u) \/ Forget(u)
    \/ \E u \in User, m \in Mutation : Issue(u, m)
    \/ \E m \in Mutation : Elsewhere(m)

Spec == Init /\ [][Next]_<<docs, pending, taken>>
=============================================================================
