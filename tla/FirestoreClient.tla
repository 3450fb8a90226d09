-------------------------- MODULE FirestoreClient --------------------------
(***************************************************************************)
(* The Firestore client inside the app on one device: its queue of writes, *)
(* its cache of documents, its write stream and its listener.              *)
(*                                                                         *)
(* Every write of the app is a batch of one mutation, put in the LevelDB   *)
(* queue of the signed-in user.  The remote store keeps the oldest batches *)
(* of that queue in a pipeline, sends them over the write stream, and      *)
(* links the answers to them by order alone.  All of it runs on one worker *)
(* queue, so an action is one task of that queue.                          *)
(*                                                                         *)
(* The server and the network are external: the server takes the requests  *)
(* of a stream in order, changes the version of a document only when its   *)
(* data change, and ends the stream at the first request it refuses; a     *)
(* request it has not taken when its stream closes is lost, and so is an   *)
(* answer the client has not seen.                                         *)
(***************************************************************************)
EXTENDS Naturals, Sequences

CONSTANTS
    Key,        \* documents
    Field, Value,
    None,       \* no value: an absent field
    User,       \* who may be signed in on the device, nobody included
    FirstUser,  \* signed in at the start
    Denied,     \* users whose writes the security rules refuse
    OwnWrites,  \* mutations this app issues
    OtherWrites,  \* mutations other devices' apps issue
    FirstData,  \* the server's data of each document at the start
    kMaxPendingWrites,  \* the size of the pipeline (10 in the code)
    MaxWrites,  \* bound: writes of this app
    MaxOthers,  \* bound: writes of other devices
    MaxFaults,  \* bound: broken streams, restarts and changes of user
    MaxEvents   \* bound: snapshots on their way to the client

Data == [Field -> Value \cup {None}]
Mutation == [kind : {"set", "merge", "update"}, key : Key, patch : Data]

ASSUME ClientAssumption ==
    /\ FirstUser \in User /\ Denied \subseteq User
    /\ OwnWrites \subseteq Mutation /\ OtherWrites \subseteq Mutation
    /\ FirstData \in [Key -> Data]
    /\ kMaxPendingWrites \in Nat \ {0}

VARIABLES
    \* The server.
    docs,       \* its documents
    clock,      \* the last version it gave
    \* LevelDB, kept over a restart.
    batches,    \* the mutation queue of each user
    cache,      \* the remote document cache
    \* Memory.
    user,       \* the user whose queue is in use
    nextId,     \* next_batch_id_
    pipeline,   \* write_pipeline_
    stream,     \* the state of the write stream; "ready" is open with the
                \* handshake complete
    idle,       \* the idleness timer of the write stream is running
    \* The streams.
    requests,   \* writes the server has not taken yet
    responses,  \* its answers the client has not seen yet
    events,     \* snapshots the client has not seen yet
    \* Counters of the bounds.
    issued, others, faults

server   == <<docs, clock>>
store    == <<batches, cache>>
channels == <<requests, responses, events>>
counters == <<issued, others, faults>>
vars == <<docs, clock, batches, cache, user, nextId, pipeline, stream, idle,
          requests, responses, events, issued, others, faults>>

----------------------------------------------------------------------------
(* Mutations.                                                              *)

Batch == [id : Nat \ {0}, m : Mutation]
Doc   == [version : Nat, data : Data]

\* A server answer: the version the write gave its document, or the end of the
\* stream with a permanent error.
Response == [ok : BOOLEAN, id : Nat \ {0}, version : Nat]

NoData == [f \in Field |-> None]
Exists(data) == data # NoData

\* SetMutation replaces the document, PatchMutation the fields of its mask.
Result(m, data) ==
    IF m.kind = "set" THEN m.patch
    ELSE [f \in Field |-> IF m.patch[f] = None THEN data[f] ELSE m.patch[f]]

\* Only updateData has a precondition: the document exists.
Precondition(m, data) == m.kind = "update" => Exists(data)

\* ApplyToLocalView.
Applied(m, data) == IF Precondition(m, data) THEN Result(m, data) ELSE data

\* The mutations of queue q over the data of document k.
Overlay(q, k, data) ==
    LET view[i \in 0 .. Len(q)] ==
            IF i = 0 THEN data
            ELSE IF q[i].m.key = k THEN Applied(q[i].m, view[i - 1])
            ELSE view[i - 1]
    IN  view[Len(q)]

\* GetDocument: what the app reads of document k.
LocalView(k) == Overlay(batches[user], k, cache[k].data)

\* ApplyBatchResult: an acknowledged mutation goes into the cache, unless the
\* listener was quicker.  A document whose precondition the cache does not meet
\* is an UnknownDocument.
Acknowledged_Synced(doc, m, version) ==
    IF doc.version < version
    THEN [version |-> version, state |-> "synced", data |-> Result(m, doc.data)]
    ELSE doc
Acknowledged_NotKept(doc, m, version) == doc
Acknowledged(doc, m, version) ==
    IF doc.version < version
    THEN [version |-> version, state |-> "committed",
          data |-> IF Precondition(m, doc.data) THEN Result(m, doc.data) ELSE NoData]
    ELSE doc

\* ApplyRemoteEvent: a newer document replaces the cached one, an equally new
\* one replaces one that was only acknowledged.
Watched_Any(doc, new) == [version |-> new.version, state |-> "synced", data |-> new.data]
Watched_NewerOnly(doc, new) ==
    IF new.version > doc.version
    THEN [version |-> new.version, state |-> "synced", data |-> new.data]
    ELSE doc
Watched(doc, new) ==
    IF \/ new.version > doc.version
       \/ new.version = doc.version /\ doc.state = "committed"
    THEN [version |-> new.version, state |-> "synced", data |-> new.data]
    ELSE doc
----------------------------------------------------------------------------
(* The mutation queue and the pipeline.                                    *)

\* LoadNextBatchIdFromDb: one more than the greatest id in any queue.
IsNextId_Greatest(n, queues) ==
    /\ \A u \in User : \A i \in 1 .. Len(queues[u]) : queues[u][i].id <= n
    /\ n = 0 \/ \E u \in User : \E i \in 1 .. Len(queues[u]) : queues[u][i].id = n
IsNextId(n, queues) ==
    /\ n > 0
    /\ \A u \in User : \A i \in 1 .. Len(queues[u]) : queues[u][i].id < n
    /\ n = 1 \/ \E u \in User : \E i \in 1 .. Len(queues[u]) : queues[u][i].id = n - 1

\* RemoveMutationBatch.
Without_Last(q, id) == SubSeq(q, 1, Len(q) - 1)
Without(q, id) ==
    LET i == CHOOSE j \in 1 .. Len(q) : q[j].id = id
    IN  SubSeq(q, 1, i - 1) \o SubSeq(q, i + 1, Len(q))

LastId(pipe) == IF pipe = <<>> THEN 0 ELSE pipe[Len(pipe)].id

\* NextMutationBatchAfterBatchId: how many batches of q have ids up to id.
UpTo(q, id) ==
    CHOOSE n \in 0 .. Len(q) :
        /\ \A i \in 1 .. n : q[i].id <= id
        /\ n < Len(q) => q[n + 1].id > id

\* The batches that FillWritePipeline adds to pipeline pipe from queue q.
Added_FromStart(q, pipe) ==
    SubSeq(q, 1, IF kMaxPendingWrites - Len(pipe) < Len(q)
                 THEN kMaxPendingWrites - Len(pipe) ELSE Len(q))
Added(q, pipe) ==
    LET n == UpTo(q, LastId(pipe))
        room == kMaxPendingWrites - Len(pipe)
    IN  SubSeq(q, n + 1, IF n + room < Len(q) THEN n + room ELSE Len(q))

\* Start, from Initial or from Error.
Started_ErrorKept(s) == IF s = "initial" THEN "starting" ELSE s
Started(s) ==
    CASE s = "initial" -> "starting"
      [] s = "error"   -> "backoff"
      [] OTHER         -> s

\* FillWritePipeline, with queue q, pipeline pipe, the write stream in state s
\* and the requests sent on it so far: the batches added are sent when the
\* stream is ready; with nothing to do an open stream is marked idle; with
\* something to do a stream that is not started is started.
FillWritePipeline_BeforeHandshake(q, pipe, s, sent) ==
    LET new  == Added(q, pipe)
        open == s \in {"open", "ready"}
    IN  /\ pipeline' = pipe \o new
        /\ requests' = IF open THEN sent \o new ELSE sent
        /\ idle' = (open /\ (pipe \o new = <<>> \/ (idle /\ ~(open /\ new # <<>>))))
        /\ stream' = IF pipe \o new = <<>> THEN s ELSE Started(s)
FillWritePipeline(q, pipe, s, sent) ==
    LET new  == Added(q, pipe)
        open == s \in {"open", "ready"}
    IN  /\ pipeline' = pipe \o new
        /\ requests' = IF s = "ready" THEN sent \o new ELSE sent
        /\ idle' = (open /\ (pipe \o new = <<>> \/ (idle /\ ~(s = "ready" /\ new # <<>>))))
        /\ stream' = IF pipe \o new = <<>> THEN s ELSE Started(s)
----------------------------------------------------------------------------
Init ==
    /\ docs = [k \in Key |-> [version |-> IF Exists(FirstData[k]) THEN 1 ELSE 0,
                              data |-> FirstData[k]]]
    /\ clock = 1
    /\ batches = [u \in User |-> <<>>]
    /\ cache = [k \in Key |-> [version |-> 0, state |-> "synced", data |-> NoData]]
    /\ user = FirstUser
    /\ nextId = 1
    /\ pipeline = <<>>
    /\ stream = "initial"
    /\ idle = FALSE
    /\ requests = <<>> /\ responses = <<>> /\ events = <<>>
    /\ issued = 0 /\ others = 0 /\ faults = 0

\* The app writes: the batch is in the queue, and in the view, before it is
\* sent.
WriteMutations(m) ==
    LET q == Append(batches[user], [id |-> nextId, m |-> m])
    IN  /\ issued < MaxWrites
        /\ issued' = issued + 1
        /\ batches' = [batches EXCEPT ![user] = q]
        /\ nextId' = nextId + 1
        /\ FillWritePipeline(q, pipeline, stream, requests)
        /\ UNCHANGED <<server, cache, user, responses, events, others, faults>>
----------------------------------------------------------------------------
(* The write stream.                                                       *)

\* The token is there and the call is up: the handshake is sent.
OnWriteStreamOpen ==
    /\ stream = "starting"
    /\ stream' = "open"
    /\ UNCHANGED <<server, store, user, nextId, pipeline, idle, channels, counters>>

\* The handshake carries no stream token, so all of the pipeline is sent,
\* whatever of it the server took on an earlier stream.
OnWriteStreamHandshakeComplete ==
    /\ stream = "open"
    /\ stream' = "ready"
    /\ requests' = pipeline
    /\ UNCHANGED <<server, store, user, nextId, pipeline, idle, responses, events,
                   counters>>

\* The first answer is for the first write of the pipeline.
OnWriteStreamMutationResult ==
    /\ stream = "ready"
    /\ responses # <<>> /\ Head(responses).ok
    /\ LET b == Head(pipeline)
           q == Without(batches[user], b.id)
       IN  /\ cache' = [cache EXCEPT ![b.m.key] =
                            Acknowledged(@, b.m, Head(responses).version)]
           /\ batches' = [batches EXCEPT ![user] = q]
           /\ FillWritePipeline(q, Tail(pipeline), stream, requests)
    /\ responses' = Tail(responses)
    /\ UNCHANGED <<server, user, nextId, events, counters>>

\* A permanent error: the first write of the pipeline is given up, and the
\* stream starts again at once.
HandleWriteError ==
    /\ stream = "ready"
    /\ responses # <<>> /\ ~Head(responses).ok
    /\ LET b == Head(pipeline)
           q == Without(batches[user], b.id)
       IN  /\ batches' = [batches EXCEPT ![user] = q]
           /\ FillWritePipeline(q, Tail(pipeline), "initial", <<>>)
    /\ responses' = <<>>
    /\ UNCHANGED <<server, cache, user, nextId, events, counters>>

\* A transient error: the pipeline is kept, and the stream backs off when
\* there is something to send.
OnWriteStreamClose ==
    /\ stream \in {"starting", "open", "ready"}
    /\ faults < MaxFaults
    /\ faults' = faults + 1
    /\ stream' = IF pipeline = <<>> THEN "error" ELSE "backoff"
    /\ idle' = FALSE
    /\ requests' = <<>> /\ responses' = <<>>
    /\ UNCHANGED <<server, store, user, nextId, pipeline, events, issued, others>>

BackoffElapsed ==
    /\ stream = "backoff"
    /\ stream' = "starting"
    /\ UNCHANGED <<server, store, user, nextId, pipeline, idle, channels, counters>>

\* The idleness timer stops the stream.
IdleTimeout ==
    /\ idle
    /\ stream' = "initial"
    /\ idle' = FALSE
    /\ requests' = <<>> /\ responses' = <<>>
    /\ UNCHANGED <<server, store, user, nextId, pipeline, events, counters>>
----------------------------------------------------------------------------
(* Changes of user and restarts.                                           *)

\* Nothing of the streams is left; the pipeline is filled again from the queue
\* of user u.  A stream in state Error stays there when it is stopped.
StreamsReset(u, s) ==
    /\ FillWritePipeline(batches[u], <<>>, s, <<>>)
    /\ responses' = <<>> /\ events' = <<>>

\* Firebase Auth reports a user, the same one or another.
HandleCredentialChange(u) ==
    /\ faults < MaxFaults
    /\ faults' = faults + 1
    /\ user' = u
    /\ IF u = user THEN UNCHANGED nextId
       ELSE \E n \in 0 .. nextId : IsNextId(n, batches) /\ nextId' = n
    /\ StreamsReset(u, IF stream = "error" THEN "error" ELSE "initial")
    /\ UNCHANGED <<server, store, issued, others>>

\* The app is killed and started again.  Auth keeps its user.
Initialize ==
    /\ faults < MaxFaults
    /\ faults' = faults + 1
    /\ \E n \in 0 .. nextId : IsNextId(n, batches) /\ nextId' = n
    /\ StreamsReset(user, "initial")
    /\ UNCHANGED <<server, store, user, issued, others>>
----------------------------------------------------------------------------
(* The server and the listener.                                            *)

Served == \A i \in 1 .. Len(responses) : responses[i].ok

Accepted(m) == user \notin Denied /\ Precondition(m, docs[m.key].data)

Takes(m) ==
    LET data == Result(m, docs[m.key].data)
    IN  IF data = docs[m.key].data THEN UNCHANGED server
        ELSE /\ clock' = clock + 1
             /\ docs' = [docs EXCEPT ![m.key] = [version |-> clock + 1, data |-> data]]

ServerTakes ==
    /\ requests # <<>> /\ Served
    /\ LET b == Head(requests)
       IN  /\ Accepted(b.m)
           /\ Takes(b.m)
           /\ responses' = Append(responses,
                  [ok |-> TRUE, id |-> b.id, version |-> docs'[b.m.key].version])
    /\ requests' = Tail(requests)
    /\ UNCHANGED <<store, user, nextId, pipeline, stream, idle, events, counters>>

ServerRefuses ==
    /\ requests # <<>> /\ Served
    /\ ~Accepted(Head(requests).m)
    /\ responses' = Append(responses,
           [ok |-> FALSE, id |-> Head(requests).id, version |-> 0])
    /\ requests' = <<>>
    /\ UNCHANGED <<server, store, user, nextId, pipeline, stream, idle, events,
                   counters>>

OtherDeviceWrites(m) ==
    /\ others < MaxOthers
    /\ others' = others + 1
    /\ Precondition(m, docs[m.key].data)
    /\ Takes(m)
    /\ UNCHANGED <<store, user, nextId, pipeline, stream, idle, channels, issued,
                   faults>>

\* The watch stream sends the state of the documents that are not the client's.
ServerSends ==
    /\ Len(events) < MaxEvents
    /\ IF events = <<>>
       THEN \E k \in Key : cache[k] # [version |-> docs[k].version,
                                       state |-> "synced", data |-> docs[k].data]
       ELSE events[Len(events)] # docs
    /\ events' = Append(events, docs)
    /\ UNCHANGED <<server, store, user, nextId, pipeline, stream, idle, requests,
                   responses, counters>>

ApplyRemoteEvent ==
    /\ events # <<>>
    /\ cache' = [k \in Key |-> Watched(cache[k], Head(events)[k])]
    /\ events' = Tail(events)
    /\ UNCHANGED <<server, batches, user, nextId, pipeline, stream, idle, requests,
                   responses, counters>>

\* The watch stream breaks and is started again.
OnWatchStreamClose ==
    /\ events # <<>>
    /\ faults < MaxFaults
    /\ faults' = faults + 1
    /\ events' = <<>>
    /\ UNCHANGED <<server, store, user, nextId, pipeline, stream, idle, requests,
                   responses, issued, others>>
----------------------------------------------------------------------------
WriteStreamSteps ==
    \/ OnWriteStreamOpen
    \/ OnWriteStreamHandshakeComplete
    \/ OnWriteStreamMutationResult
    \/ HandleWriteError
    \/ BackoffElapsed
    \/ ServerTakes
    \/ ServerRefuses

WatchSteps == ServerSends \/ ApplyRemoteEvent

Next ==
    \/ \E m \in OwnWrites : WriteMutations(m)
    \/ WriteStreamSteps
    \/ OnWriteStreamClose
    \/ IdleTimeout
    \/ \E u \in User : HandleCredentialChange(u)
    \/ Initialize
    \/ \E m \in OtherWrites : OtherDeviceWrites(m)
    \/ WatchSteps
    \/ OnWatchStreamClose

Spec == Init /\ [][Next]_vars

\* A stream that fails is started again after a delay, and every task of the
\* worker queue and every message runs at last; the server answers.  Faults are
\* not fair, and end (MaxFaults).
FairSpec == Spec /\ WF_vars(WriteStreamSteps) /\ WF_vars(WatchSteps)
----------------------------------------------------------------------------
(* Properties.                                                             *)

\* Every variable keeps its type.
TypeOK ==
    /\ docs \in [Key -> Doc]
    /\ clock \in Nat
    /\ batches \in [User -> Seq(Batch)]
    /\ cache \in [Key -> [version : Nat, state : {"synced", "committed"}, data : Data]]
    /\ user \in User
    /\ nextId \in Nat \ {0}
    /\ pipeline \in Seq(Batch)
    /\ stream \in {"initial", "starting", "open", "ready", "error", "backoff"}
    /\ idle \in BOOLEAN
    /\ requests \in Seq(Batch)
    /\ responses \in Seq(Response)
    /\ events \in Seq([Key -> Doc])
    /\ issued \in Nat /\ others \in Nat /\ faults \in Nat

\* The ids of a queue increase and are below the next one, over restarts and
\* changes of user: RemoveMutationBatch and the seek of FillWritePipeline are
\* by id.
IdsIncrease ==
    \A u \in User : \A i \in 1 .. Len(batches[u]) :
        /\ batches[u][i].id < nextId
        /\ \A j \in 1 .. i - 1 : batches[u][j].id < batches[u][i].id

\* The pipeline is the oldest batches of the signed-in user's queue, and never
\* too long; when it is not full it is all of them.  ("Can only remove the
\* first entry", "Attempt to reject nonexistent batch!")
PipelineIsQueue ==
    /\ Len(pipeline) <= kMaxPendingWrites
    /\ Len(pipeline) <= Len(batches[user])
    /\ pipeline = SubSeq(batches[user], 1, Len(pipeline))
    /\ Len(pipeline) < kMaxPendingWrites => Len(pipeline) = Len(batches[user])

\* The server's answers are for the first writes of the pipeline, in order,
\* and unless it has ended the stream, its requests are for the others: "write
\* responses are linked to their originating request purely based on order".
\* ("Got result for empty write pipeline".)
AnswersFollowPipeline ==
    /\ Len(responses) <= Len(pipeline)
    /\ \A i \in 1 .. Len(responses) :
          /\ responses[i].id = pipeline[i].id
          /\ ~responses[i].ok => i = Len(responses)
    /\ stream = "ready" /\ Served =>
          requests = SubSeq(pipeline, Len(responses) + 1, Len(pipeline))
    /\ stream # "ready" => requests = <<>> /\ responses = <<>>

\* The idleness timer runs when and only when the stream is ready and there is
\* nothing to send ("Write stream was stopped gracefully while still needed");
\* a stream that is not ready is started, or waits to be, when and only when
\* there is something to send.
StreamNeeded ==
    /\ idle <=> stream = "ready" /\ pipeline = <<>>
    /\ stream # "ready" => (stream \in {"initial", "error"} <=> pipeline = <<>>)

\* The cache is never ahead of the server, and a document the listener
\* confirmed at the server's version is the server's document.
CacheHonest ==
    \A k \in Key :
        /\ cache[k].version <= docs[k].version
        /\ cache[k].state = "synced" /\ cache[k].version = docs[k].version
              => cache[k].data = docs[k].data

\* A cached document never goes back to an older version, whichever of the
\* answer and the listener comes first.
CacheForward ==
    [][\A k \in Key : cache'[k].version >= cache[k].version]_vars

\* An answer does not change what the app reads, whether it comes before the
\* listener's snapshot or just after it: the write leaves the queue and is in the
\* cache in one step.  Two cases are excepted: the listener knows better, and
\* another answer has given the cache a document of this version that was
\* computed from an older one.
NoFlicker ==
    [][(/\ OnWriteStreamMutationResult
        /\ LET doc == cache[Head(pipeline).m.key]
           IN  \/ doc.version < Head(responses).version
               \/ doc.version = Head(responses).version /\ doc.state = "synced")
            => \A k \in Key : LocalView(k)' = LocalView(k)]_vars

\* The abstract replica: the server has taken the writes of the signed-in user
\* whose answers are on their way.
TakenOf(u) ==
    IF u # user \/ responses = <<>> THEN 0
    ELSE IF responses[Len(responses)].ok THEN Len(responses) ELSE Len(responses) - 1

AnyWrite == OwnWrites \cup OtherWrites
HoldsIn(m, data) == Precondition(m, data[m.key])
EffectOn(m, data) == [data EXCEPT ![m.key] = Result(m, @)]

Promise == INSTANCE Replica WITH
    Mutation <- AnyWrite, Holds <- HoldsIn, Effect <- EffectOn,
    FirstDocs <- FirstData,
    docs <- [k \in Key |-> docs[k].data],
    pending <- [u \in User |-> [i \in 1 .. Len(batches[u]) |-> batches[u][i].m]],
    taken <- [u \in User |-> TakenOf(u)]
ImplementsReplica == Promise!Spec

\* Once the faults end, the signed-in user's writes are all answered, and the
\* app reads what the server has.
Settles ==
    <>[](/\ batches[user] = <<>>
         /\ \A k \in Key : LocalView(k) = docs[k].data)
============================================================================
