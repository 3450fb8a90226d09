----------------------- MODULE FirestoreClientProofs -----------------------
(***************************************************************************)
(* Theorems about FirestoreClient, for every value of its constants: the   *)
(* pipeline is the front of the signed-in user's queue, the server's       *)
(* answers and the requests on their way are for it in order, and so none  *)
(* of the client's assertions about them can fail; the cache is honest and *)
(* only goes forward; an answer does not disturb what the app reads; and   *)
(* the client with its server is a Replica.                                *)
(***************************************************************************)
EXTENDS FirestoreClient, SequenceTheorems, Ranks, TLAPS

Ascending(q) ==
    \A i \in 1 .. Len(q) : \A j \in 1 .. i - 1 : q[j].id < q[i].id

Least(m, n) == IF m < n THEN m ELSE n

\* The part of queue q that the pipeline holds.
Front(q) == SubSeq(q, 1, Least(kMaxPendingWrites, Len(q)))

----------------------------------------------------------------------------
(* Slices of sequences.                                                    *)

LEMMA SliceOfFront ==
    ASSUME NEW S, NEW q \in Seq(S), NEW n \in 0 .. Len(q), NEW a \in 1 .. n + 1
    PROVE  SubSeq(SubSeq(q, 1, n), a, n) = SubSeq(q, a, n)
<1> DEFINE f == SubSeq(q, 1, n)
           s == SubSeq(f, a, n)
           t == SubSeq(q, a, n)
<1>1. Len(q) \in Nat /\ \A i \in 1 .. Len(q) : q[i] \in S
    BY LenProperties, ElementOfSeq
<1>2. f \in Seq(S) /\ Len(f) = n /\ \A i \in 1 .. n : f[i] = q[i]
    BY <1>1, SubSeqProperties
<1>3. \A i \in a .. n : f[i] \in S /\ q[i] \in S
    BY <1>1, <1>2
<1>4. s \in Seq(S) /\ Len(s) = (IF a <= n THEN n - a + 1 ELSE 0)
      /\ \A i \in 1 .. n - a + 1 : s[i] = f[a + i - 1]
    <2> HIDE DEF f
    <2> QED BY <1>1, <1>3, SubSeqProperties
<1>5. t \in Seq(S) /\ Len(t) = (IF a <= n THEN n - a + 1 ELSE 0)
      /\ \A i \in 1 .. n - a + 1 : t[i] = q[a + i - 1]
    BY <1>1, <1>3, SubSeqProperties
<1>6. \A i \in 1 .. Len(s) : s[i] = t[i]
    <2> HIDE DEF f, s, t
    <2> TAKE i \in 1 .. Len(s)
    <2>1. i \in 1 .. n - a + 1 /\ a + i - 1 \in 1 .. n
        BY <1>1, <1>4
    <2> QED BY <1>2, <1>4, <1>5, <2>1
<1> QED
    <2> HIDE DEF f, s, t
    <2> QED BY <1>4, <1>5, <1>6, SeqEqual

LEMMA SliceOfTail ==
    ASSUME NEW S, NEW q \in Seq(S), q # <<>>,
           NEW n \in 1 .. Len(q), NEW a \in 1 .. n
    PROVE  SubSeq(Tail(q), a, n - 1) = SubSeq(q, a + 1, n)
<1> DEFINE f == Tail(q)
           s == SubSeq(f, a, n - 1)
           t == SubSeq(q, a + 1, n)
<1>1. Len(q) \in Nat /\ \A i \in 1 .. Len(q) : q[i] \in S
    BY LenProperties, ElementOfSeq
<1>2. f \in Seq(S) /\ Len(f) = Len(q) - 1 /\ \A i \in 1 .. Len(q) - 1 : f[i] = q[i + 1]
    BY HeadTailProperties
<1>3. /\ \A i \in a .. n - 1 : f[i] \in S
      /\ \A i \in a + 1 .. n : q[i] \in S
    BY <1>1, <1>2
<1>4. s \in Seq(S) /\ Len(s) = (IF a <= n - 1 THEN n - 1 - a + 1 ELSE 0)
      /\ \A i \in 1 .. n - 1 - a + 1 : s[i] = f[a + i - 1]
    <2> HIDE DEF f
    <2> QED BY <1>1, <1>3, SubSeqProperties
<1>5. t \in Seq(S) /\ Len(t) = (IF a + 1 <= n THEN n - (a + 1) + 1 ELSE 0)
      /\ \A i \in 1 .. n - (a + 1) + 1 : t[i] = q[(a + 1) + i - 1]
    BY <1>1, <1>3, SubSeqProperties
<1>6. Len(s) = Len(t)
    <2> HIDE DEF f, s, t
    <2> QED BY <1>1, <1>4, <1>5
<1>7. \A i \in 1 .. Len(s) : s[i] = t[i]
    <2> HIDE DEF f, s, t
    <2> TAKE i \in 1 .. Len(s)
    <2>1. i \in 1 .. n - 1 - a + 1 /\ a + i - 1 \in 1 .. Len(q) - 1
          /\ i \in 1 .. n - (a + 1) + 1
        BY <1>1, <1>4
    <2>2. s[i] = q[a + i - 1 + 1] /\ t[i] = q[(a + 1) + i - 1]
        BY <1>2, <1>4, <1>5, <2>1
    <2>3. a + i - 1 + 1 = (a + 1) + i - 1
        BY <2>1
    <2> QED BY <2>2, <2>3
<1> QED
    <2> HIDE DEF f, s, t
    <2> QED BY <1>4, <1>5, <1>6, <1>7, SeqEqual

LEMMA SliceOfAppend ==
    ASSUME NEW S, NEW q \in Seq(S), NEW e \in S,
           NEW n \in 0 .. Len(q), NEW a \in 1 .. n + 1
    PROVE  SubSeq(Append(q, e), a, n) = SubSeq(q, a, n)
<1> DEFINE f == Append(q, e)
           s == SubSeq(f, a, n)
           t == SubSeq(q, a, n)
<1>1. Len(q) \in Nat /\ \A i \in 1 .. Len(q) : q[i] \in S
    BY LenProperties, ElementOfSeq
<1>2. \A i \in 1 .. Len(q) : f[i] = q[i]
    BY AppendProperties
<1>3. \A i \in a .. n : f[i] \in S /\ q[i] \in S
    <2> HIDE DEF f
    <2> QED BY <1>1, <1>2
<1>4. s \in Seq(S) /\ Len(s) = (IF a <= n THEN n - a + 1 ELSE 0)
      /\ \A i \in 1 .. n - a + 1 : s[i] = f[a + i - 1]
    <2> HIDE DEF f
    <2> QED BY <1>1, <1>3, SubSeqProperties
<1>5. t \in Seq(S) /\ Len(t) = (IF a <= n THEN n - a + 1 ELSE 0)
      /\ \A i \in 1 .. n - a + 1 : t[i] = q[a + i - 1]
    BY <1>1, <1>3, SubSeqProperties
<1>6. \A i \in 1 .. Len(s) : s[i] = t[i]
    <2> HIDE DEF f, s, t
    <2> QED BY <1>1, <1>2, <1>4, <1>5
<1> QED
    <2> HIDE DEF f, s, t
    <2> QED BY <1>4, <1>5, <1>6, SeqEqual

LEMMA FrontProperties ==
    ASSUME NEW q \in Seq(Batch)
    PROVE  /\ Front(q) \in Seq(Batch)
           /\ Len(q) \in Nat
           /\ Len(Front(q)) = Least(kMaxPendingWrites, Len(q))
           /\ Len(Front(q)) \in 0 .. Len(q)
           /\ Len(Front(q)) <= kMaxPendingWrites
           /\ \A i \in 1 .. Len(Front(q)) : Front(q)[i] = q[i]
           /\ Front(q) = SubSeq(q, 1, Len(Front(q)))
<1>1. kMaxPendingWrites \in Nat \ {0}
    BY ClientAssumption
<1>2. Len(q) \in Nat /\ \A i \in 1 .. Len(q) : q[i] \in Batch
    BY LenProperties, ElementOfSeq
<1> DEFINE n == Least(kMaxPendingWrites, Len(q))
<1>3. n \in 0 .. Len(q) /\ n <= kMaxPendingWrites
    BY <1>1, <1>2 DEF Least
<1>4. SubSeq(q, 1, n) \in Seq(Batch) /\ Len(SubSeq(q, 1, n)) = n
      /\ \A i \in 1 .. n : SubSeq(q, 1, n)[i] = q[i]
    <2> HIDE DEF n
    <2> QED BY <1>2, <1>3, SubSeqProperties
<1>5. Front(q) = SubSeq(q, 1, n)
    BY DEF Front
<1> HIDE DEF n
<1>6. Len(Front(q)) = n
    BY <1>4, <1>5
<1> QED BY <1>2, <1>3, <1>4, <1>5, <1>6 DEF n
----------------------------------------------------------------------------
(* The pipeline.                                                           *)

\* The seek after the last batch of a pipeline that is a front of the queue
\* lands on the first batch that is not in it.
LEMMA UpToIsLength ==
    ASSUME NEW q \in Seq(Batch), Ascending(q),
           NEW n \in 0 .. Len(q), NEW pipe, pipe = SubSeq(q, 1, n)
    PROVE  UpTo(q, LastId(pipe)) = n
<1>1. Len(q) \in Nat /\ \A i \in 1 .. Len(q) : q[i].id \in Nat \ {0}
    <2>1. \A i \in 1 .. Len(q) : q[i] \in Batch
        BY ElementOfSeq
    <2> QED BY <2>1, LenProperties DEF Batch
<1>2. Len(pipe) = n /\ \A i \in 1 .. n : pipe[i] = q[i]
    <2>1. \A i \in 1 .. n : q[i] \in Batch
        BY <1>1, ElementOfSeq
    <2> QED BY <1>1, <2>1, SubSeqProperties
<1>3. pipe \in Seq(Batch)
    <2>1. \A i \in 1 .. n : q[i] \in Batch
        BY <1>1, ElementOfSeq
    <2> QED BY <1>1, <2>1, SubSeqProperties
<1> DEFINE x == LastId(pipe)
           Cut(m) == /\ \A i \in 1 .. m : q[i].id <= x
                     /\ m < Len(q) => q[m + 1].id > x
<1>4. x = IF n = 0 THEN 0 ELSE q[n].id
    BY <1>1, <1>2, <1>3, EmptySeq DEF LastId
<1> HIDE DEF x
<1>5. x \in Nat
    BY <1>1, <1>4
<1>6. Cut(n)
    <2>1. \A i \in 1 .. n : q[i].id <= x
        BY <1>1, <1>4 DEF Ascending
    <2>2. n < Len(q) => q[n + 1].id > x
        BY <1>1, <1>4 DEF Ascending
    <2> QED BY <2>1, <2>2
<1>7. \A m \in 0 .. Len(q) : Cut(m) => m = n
    <2> SUFFICES ASSUME NEW m \in 0 .. Len(q), Cut(m), m # n PROVE FALSE
        OBVIOUS
    <2>1. CASE m < n
        <3>1. q[m + 1].id > x
            BY <2>1, <1>1
        <3>2. q[m + 1].id <= x
            BY <2>1, <1>1, <1>6
        <3>3. q[m + 1].id \in Nat
            BY <2>1, <1>1
        <3> QED BY <3>1, <3>2, <3>3, <1>5
    <2>2. CASE n < m
        <3>1. q[n + 1].id <= x
            BY <2>2, <1>1
        <3>2. q[n + 1].id > x
            BY <2>2, <1>1, <1>6
        <3>3. q[n + 1].id \in Nat
            BY <2>2, <1>1
        <3> QED BY <3>1, <3>2, <3>3, <1>5
    <2> QED BY <2>1, <2>2, <1>1
<1>8. UpTo(q, x) = CHOOSE m \in 0 .. Len(q) : Cut(m)
    BY Zenon DEF UpTo
<1> QED
    <2> HIDE DEF Cut
    <2> QED BY <1>6, <1>7, <1>8 DEF x

\* FillWritePipeline makes the pipeline the front of the queue.
LEMMA PipelineFilled ==
    ASSUME NEW q \in Seq(Batch), Ascending(q), 
           NEW n \in 0 .. Len(q), n <= kMaxPendingWrites, 
           NEW pipe, pipe = SubSeq(q, 1, n)
    PROVE  /\ n <= Len(Front(q))
           /\ Added(q, pipe) = SubSeq(q, n + 1, Len(Front(q)))
           /\ pipe \o Added(q, pipe) = Front(q)
<1>1. kMaxPendingWrites \in Nat \ {0} /\ Len(q) \in Nat
    BY ClientAssumption, LenProperties
<1>2. Len(pipe) = n
    <2>1. \A i \in 1 .. n : q[i] \in Batch
        BY <1>1, ElementOfSeq
    <2> QED BY <1>1, <2>1, SubSeqProperties
<1>3. UpTo(q, LastId(pipe)) = n
    BY UpToIsLength
<1> DEFINE M == Len(Front(q))
<1>4. M = Least(kMaxPendingWrites, Len(q))
    BY FrontProperties
<1>5. n <= M /\ M <= Len(q) /\ M \in Nat
    BY <1>1, <1>4 DEF Least
<1>6. Added(q, pipe) = SubSeq(q, n + 1, M)
    <2>1. M = IF n + (kMaxPendingWrites - n) < Len(q) 
              THEN n + (kMaxPendingWrites - n) ELSE Len(q)
        BY <1>1, <1>4 DEF Least
    <2> QED BY <2>1, <1>2, <1>3 DEF Added
<1>7. SubSeq(q, 1, n) \o SubSeq(q, n + 1, M) = SubSeq(q, 1, M)
    <2> HIDE DEF M
    <2>1. 1 \in 1 .. Len(q) + 1 /\ n \in 1 - 1 .. Len(q) /\ M \in n .. Len(q)
        BY <1>1, <1>5
    <2> QED BY <2>1, Zenon, ConcatAdjacentSubSeq
<1>8. Front(q) = SubSeq(q, 1, M)
    BY FrontProperties
<1> QED BY <1>5, <1>6, <1>7, <1>8, Zenon

\* The first batch of a queue is removed by its id.
LEMMA WithoutFirst ==
    ASSUME NEW q \in Seq(Batch), Ascending(q), q # <<>>
    PROVE  Without(q, q[1].id) = Tail(q)
<1>1. Len(q) \in Nat \ {0} /\ \A i \in 1 .. Len(q) : q[i].id \in Nat
    <2>1. \A i \in 1 .. Len(q) : q[i] \in Batch
        BY ElementOfSeq
    <2> QED BY <2>1, EmptySeq DEF Batch
<1>2. \A j \in 1 .. Len(q) : q[j].id = q[1].id => j = 1
    <2> SUFFICES ASSUME NEW j \in 1 .. Len(q), q[j].id = q[1].id, j # 1
                 PROVE  FALSE
        OBVIOUS
    <2>1. q[1].id < q[j].id
        BY <1>1 DEF Ascending
    <2> QED BY <2>1, <1>1
<1>3. (CHOOSE j \in 1 .. Len(q) : q[j].id = q[1].id) = 1
    BY <1>1, <1>2
<1>4. Without(q, q[1].id) = SubSeq(q, 1, 0) \o SubSeq(q, 2, Len(q))
    <2>1. Without(q, q[1].id) = SubSeq(q, 1, 1 - 1) \o SubSeq(q, 1 + 1, Len(q))
        BY <1>3, Zenon DEF Without
    <2>2. 1 - 1 = 0 /\ 1 + 1 = 2
        OBVIOUS
    <2> QED BY <2>1, <2>2, Zenon
<1>5. SubSeq(q, 1, 0) = <<>> /\ Tail(q) = SubSeq(q, 2, Len(q)) /\ Tail(q) \in Seq(Batch)
    BY SubSeqEmpty, TailIsSubSeq, HeadTailProperties
<1> QED BY <1>4, <1>5, ConcatEmptySeq
----------------------------------------------------------------------------
(* The invariant.                                                          *)

IInv == /\ TypeOK
        /\ IdsIncrease
        /\ PipelineIsQueue
        /\ AnswersFollowPipeline
        /\ StreamNeeded

StreamState == {"initial", "starting", "open", "ready", "error", "backoff"}

\* What FillWritePipeline does, in terms of the queue.
LEMMA Fills ==
    ASSUME NEW q \in Seq(Batch), Ascending(q),
           NEW n \in 0 .. Len(q), n <= kMaxPendingWrites,
           NEW pipe, pipe = SubSeq(q, 1, n),
           NEW s \in StreamState, NEW sent \in Seq(Batch),
           FillWritePipeline(q, pipe, s, sent)
    PROVE  /\ pipeline' = Front(q) /\ pipeline' \in Seq(Batch)
           /\ n <= Len(Front(q))
           /\ requests' = (IF s = "ready"
                           THEN sent \o SubSeq(q, n + 1, Len(Front(q))) ELSE sent)
           /\ requests' \in Seq(Batch)
           /\ stream' = (IF Front(q) = <<>> THEN s ELSE Started(s))
           /\ stream' \in StreamState
           /\ stream' = "ready" <=> s = "ready"
           /\ idle' \in BOOLEAN
           /\ s \notin {"open", "ready"} => ~idle'
           /\ s \in {"open", "ready"} /\ Front(q) = <<>> => idle'
           /\ Front(q) # <<>> /\ idle' => idle
           /\ Front(q) # <<>> /\ n = 0 /\ s = "ready" => ~idle'
<1>1. /\ n <= Len(Front(q))
      /\ Added(q, pipe) = SubSeq(q, n + 1, Len(Front(q)))
      /\ pipe \o Added(q, pipe) = Front(q)
    BY PipelineFilled
<1>2. Front(q) \in Seq(Batch) /\ Len(Front(q)) \in 0 .. Len(q) /\ Len(q) \in Nat
    BY FrontProperties
<1>3. SubSeq(q, n + 1, Len(Front(q))) \in Seq(Batch)
    <2>1. \A i \in n + 1 .. Len(Front(q)) : q[i] \in Batch
        BY <1>2, ElementOfSeq
    <2> QED BY <1>2, <2>1, SubSeqProperties
<1>4. sent \o SubSeq(q, n + 1, Len(Front(q))) \in Seq(Batch)
    BY <1>3, ConcatProperties
<1>5. Started(s) \in StreamState /\ (Started(s) = "ready" <=> s = "ready")
    BY DEF Started, StreamState
<1>6. /\ pipeline' = Front(q)
      /\ requests' = (IF s = "ready"
                      THEN sent \o SubSeq(q, n + 1, Len(Front(q))) ELSE sent)
      /\ stream' = (IF Front(q) = <<>> THEN s ELSE Started(s))
      /\ idle' = (s \in {"open", "ready"}
                    /\ (Front(q) = <<>>
                        \/ (idle /\ ~(s = "ready"
                                     /\ SubSeq(q, n + 1, Len(Front(q))) # <<>>))))
    BY <1>1, Zenon DEF FillWritePipeline
<1>7. n = 0 => SubSeq(q, n + 1, Len(Front(q))) = Front(q)
    BY FrontProperties
<1>8. requests' \in Seq(Batch) /\ stream' \in StreamState
      /\ (stream' = "ready" <=> s = "ready")
    BY <1>4, <1>5, <1>6
<1>9. /\ idle' \in BOOLEAN
      /\ s \notin {"open", "ready"} => ~idle'
      /\ s \in {"open", "ready"} /\ Front(q) = <<>> => idle'
      /\ Front(q) # <<>> /\ idle' => idle
      /\ Front(q) # <<>> /\ n = 0 /\ s = "ready" => ~idle'
    BY <1>6, <1>7, Zenon
<1> QED BY <1>1, <1>2, <1>6, <1>8, <1>9

\* In a state of the invariant the pipeline is the front of the queue.
LEMMA QueueFacts ==
    ASSUME TypeOK, IdsIncrease, PipelineIsQueue
    PROVE  /\ user \in User
           /\ batches[user] \in Seq(Batch)
           /\ Ascending(batches[user])
           /\ pipeline = Front(batches[user])
           /\ Len(pipeline) \in 0 .. Len(batches[user])
           /\ Len(pipeline) <= kMaxPendingWrites
           /\ pipeline = SubSeq(batches[user], 1, Len(pipeline))
           /\ \A i \in 1 .. Len(pipeline) : pipeline[i] = batches[user][i]
<1>1. user \in User /\ batches[user] \in Seq(Batch) /\ pipeline \in Seq(Batch)
    BY DEF TypeOK
<1>2. Len(batches[user]) \in Nat /\ Len(pipeline) \in Nat
    BY <1>1, LenProperties
<1>3. kMaxPendingWrites \in Nat \ {0}
    BY ClientAssumption
<1>4. Len(pipeline) = Least(kMaxPendingWrites, Len(batches[user]))
    <2>1. /\ Len(pipeline) <= kMaxPendingWrites
          /\ Len(pipeline) <= Len(batches[user])
          /\ Len(pipeline) < kMaxPendingWrites => Len(pipeline) = Len(batches[user])
        BY Zenon DEF PipelineIsQueue
    <2> QED BY <1>2, <1>3, <2>1 DEF Least
<1>5. pipeline = SubSeq(batches[user], 1, Len(pipeline))
    BY Zenon DEF PipelineIsQueue
<1>6. pipeline = Front(batches[user])
    <2>1. pipeline = SubSeq(batches[user], 1, Least(kMaxPendingWrites, Len(batches[user])))
        BY <1>4, <1>5, Zenon
    <2> QED BY <2>1, Zenon DEF Front
<1>7. Ascending(batches[user])
    BY <1>1 DEF IdsIncrease, Ascending
<1> QED BY <1>1, <1>2, <1>5, <1>6, <1>7, FrontProperties DEF PipelineIsQueue

\* A pipeline that is the front of the queue is one PipelineIsQueue describes.
LEMMA FrontIsQueue ==
    ASSUME NEW q \in Seq(Batch), NEW pipe, pipe = Front(q)
    PROVE  /\ Len(pipe) <= kMaxPendingWrites
           /\ Len(pipe) <= Len(q)
           /\ pipe = SubSeq(q, 1, Len(pipe))
           /\ Len(pipe) < kMaxPendingWrites => Len(pipe) = Len(q)
<1>1. kMaxPendingWrites \in Nat \ {0}
    BY ClientAssumption
<1> QED BY <1>1, FrontProperties DEF Least

LEMMA RequestsInQueue ==
    ASSUME NEW q \in Seq(Batch), NEW a \in 1 .. Len(Front(q)) + 1
    PROVE  SubSeq(Front(q), a, Len(Front(q))) = SubSeq(q, a, Len(Front(q)))
<1>1. Len(Front(q)) \in 0 .. Len(q) /\ Front(q) = SubSeq(q, 1, Len(Front(q)))
    BY FrontProperties
<1> DEFINE n == Len(Front(q))
<1>2. n \in 0 .. Len(q) /\ a \in 1 .. n + 1 /\ Front(q) = SubSeq(q, 1, n)
    BY <1>1
<1> HIDE DEF n
<1>3. SubSeq(SubSeq(q, 1, n), a, n) = SubSeq(q, a, n)
    BY <1>2, SliceOfFront
<1> QED BY <1>2, <1>3 DEF n
----------------------------------------------------------------------------
LEMMA InitIInv == Init => IInv
<1> SUFFICES ASSUME Init PROVE IInv
    OBVIOUS
<1>1. NoData \in Data
    BY DEF NoData, Data
<1>2. docs \in [Key -> Doc]
    BY ClientAssumption DEF Init, Doc
<1>3. TypeOK
    <2>1. \A S : <<>> \in Seq(S)
        BY EmptySeq
    <2>2. cache \in [Key -> [version : Nat, state : {"synced", "committed"}, data : Data]]
        BY <1>1 DEF Init
    <2>3. batches \in [User -> Seq(Batch)]
        BY <2>1 DEF Init
    <2>4. /\ pipeline \in Seq(Batch) /\ requests \in Seq(Batch)
          /\ responses \in Seq(Response) /\ events \in Seq([Key -> Doc])
        BY <2>1, Zenon DEF Init
    <2>5. /\ clock = 1 /\ user = FirstUser /\ nextId = 1 /\ stream = "initial"
          /\ idle \in BOOLEAN /\ issued = 0 /\ others = 0 /\ faults = 0
        BY Zenon DEF Init
    <2> QED BY <1>2, <2>2, <2>3, <2>4, <2>5, ClientAssumption DEF TypeOK
<1>4. IdsIncrease
    BY DEF Init, IdsIncrease
<1>5. PipelineIsQueue
    <2>1. batches[user] = <<>> /\ pipeline = <<>>
        BY ClientAssumption DEF Init
    <2>2. Len(<<>>) = 0 /\ SubSeq(<<>>, 1, 0) = <<>>
        BY SubSeqEmpty, EmptySeq
    <2>3. kMaxPendingWrites \in Nat /\ 0 <= kMaxPendingWrites /\ 0 <= 0
        BY ClientAssumption
    <2>4. /\ Len(pipeline) = 0 /\ Len(batches[user]) = 0
          /\ SubSeq(batches[user], 1, Len(pipeline)) = <<>>
        BY <2>1, <2>2, Zenon
    <2>5. /\ Len(pipeline) <= kMaxPendingWrites
          /\ Len(pipeline) <= Len(batches[user])
          /\ Len(pipeline) = Len(batches[user])
        BY <2>3, <2>4
    <2> QED BY <2>1, <2>4, <2>5, Zenon DEF PipelineIsQueue
<1>6. AnswersFollowPipeline /\ StreamNeeded
    BY DEF Init, AnswersFollowPipeline, StreamNeeded, Served
<1> QED BY <1>3, <1>4, <1>5, <1>6 DEF IInv
----------------------------------------------------------------------------
(* Every step keeps the invariant.                                         *)

LEMMA WriteMutationsKeeps ==
    ASSUME IInv, NEW m \in OwnWrites, WriteMutations(m)
    PROVE  IInv'
<1> DEFINE q == batches[user]
           b == [id |-> nextId, m |-> m]
           q2 == Append(q, b)
           n == Len(pipeline)
<1>1. /\ TypeOK /\ IdsIncrease /\ PipelineIsQueue /\ AnswersFollowPipeline
      /\ StreamNeeded
    BY DEF IInv
<1>2. /\ user \in User /\ q \in Seq(Batch) /\ Ascending(q) /\ pipeline = Front(q)
      /\ n \in 0 .. Len(q) /\ n <= kMaxPendingWrites /\ pipeline = SubSeq(q, 1, n)
      /\ \A i \in 1 .. n : pipeline[i] = q[i]
    BY <1>1, QueueFacts, Zenon
<1>3. b \in Batch
    BY <1>1, ClientAssumption DEF Batch, TypeOK
<1>4. /\ q2 \in Seq(Batch) /\ Len(q2) = Len(q) + 1 /\ Len(q) \in Nat
      /\ \A i \in 1 .. Len(q) : q2[i] = q[i]
      /\ q2[Len(q) + 1] = b
    BY <1>2, <1>3, AppendProperties, LenProperties
<1>5. /\ nextId \in Nat \ {0}
      /\ \A i \in 1 .. Len(q) : q[i].id < nextId /\ q[i].id \in Nat
    <2>1. \A i \in 1 .. Len(q) : q[i] \in Batch
        BY <1>2, ElementOfSeq
    <2> QED BY <1>1, <1>2, <2>1 DEF IdsIncrease, TypeOK, Batch
<1>6. /\ Ascending(q2)
      /\ \A i \in 1 .. Len(q2) : q2[i].id < nextId + 1
    <2>1. b.id = nextId
        OBVIOUS
    <2> HIDE DEF q, b, q2
    <2>2. \A i \in 1 .. Len(q2) : q2[i].id < nextId + 1
        BY <1>4, <1>5, <2>1
    <2>3. \A i \in 1 .. Len(q2) : \A j \in 1 .. i - 1 : q2[j].id < q2[i].id
        <3> TAKE i \in 1 .. Len(q2)
        <3> TAKE j \in 1 .. i - 1
        <3>1. CASE i = Len(q) + 1
            BY <3>1, <1>4, <1>5, <2>1
        <3>2. CASE i # Len(q) + 1
            <4>1. i \in 1 .. Len(q) /\ j \in 1 .. Len(q)
                BY <3>2, <1>4
            <4>2. q[j].id < q[i].id
                BY <1>2, <4>1 DEF Ascending
            <4> QED BY <4>1, <4>2, <1>4
        <3> QED BY <3>1, <3>2
    <2> QED BY <2>2, <2>3, Zenon DEF Ascending
<1>7. pipeline = SubSeq(q2, 1, n) /\ n \in 0 .. Len(q2)
    <2>1. 1 \in 1 .. n + 1
        BY <1>2, <1>4
    <2> HIDE DEF q, b, n
    <2>2. SubSeq(Append(q, b), 1, n) = SubSeq(q, 1, n)
        BY <1>2, <1>3, <2>1, SliceOfAppend
    <2> QED BY <1>2, <1>4, <2>2
<1>8. /\ issued' = issued + 1
      /\ batches' = [batches EXCEPT ![user] = q2]
      /\ nextId' = nextId + 1
      /\ FillWritePipeline(q2, pipeline, stream, requests)
      /\ UNCHANGED <<server, cache, user, responses, events, others, faults>>
    BY Zenon DEF WriteMutations
<1>9. stream \in StreamState /\ requests \in Seq(Batch) /\ idle \in BOOLEAN
    BY <1>1 DEF TypeOK, StreamState
<1>10. /\ pipeline' = Front(q2) /\ pipeline' \in Seq(Batch)
       /\ n <= Len(Front(q2))
       /\ requests' = (IF stream = "ready"
                       THEN requests \o SubSeq(q2, n + 1, Len(Front(q2))) ELSE requests)
       /\ requests' \in Seq(Batch)
       /\ stream' = (IF Front(q2) = <<>> THEN stream ELSE Started(stream))
       /\ stream' \in StreamState
       /\ stream' = "ready" <=> stream = "ready"
       /\ idle' \in BOOLEAN
       /\ stream \notin {"open", "ready"} => ~idle'
       /\ stream \in {"open", "ready"} /\ Front(q2) = <<>> => idle'
       /\ Front(q2) # <<>> /\ idle' => idle
       /\ Front(q2) # <<>> /\ n = 0 /\ stream = "ready" => ~idle'
    <2> HIDE DEF q2, n
    <2> QED BY <1>2, <1>4, <1>6, <1>7, <1>8, <1>9, Fills
<1>11. batches' \in [User -> Seq(Batch)] /\ batches'[user] = q2 /\ user' = user
    BY <1>1, <1>2, <1>4, <1>8 DEF TypeOK
<1> HIDE DEF q2
<1>12. TypeOK'
    BY <1>1, <1>5, <1>8, <1>10, <1>11 DEF TypeOK, server, StreamState
<1>13. IdsIncrease'
    <2> SUFFICES ASSUME NEW u \in User, NEW i \in 1 .. Len(batches'[u])
                 PROVE  /\ batches'[u][i].id < nextId'
                        /\ \A j \in 1 .. i - 1 : batches'[u][j].id < batches'[u][i].id
        BY DEF IdsIncrease
    <2>1. CASE u = user
        BY <2>1, <1>6, <1>8, <1>11 DEF Ascending
    <2>2. CASE u # user
        <3>1. batches'[u] = batches[u]
            BY <1>1, <1>8, <2>2 DEF TypeOK
        <3>2. batches[u] \in Seq(Batch)
            BY <1>1 DEF TypeOK
        <3>3. batches[u][i].id \in Nat
            <4>1. batches[u][i] \in Batch
                BY <3>1, <3>2, ElementOfSeq
            <4> QED BY <4>1 DEF Batch
        <3> QED BY <3>1, <3>3, <1>1, <1>5, <1>8 DEF IdsIncrease
    <2> QED BY <2>1, <2>2
<1>14. PipelineIsQueue'
    <2>1. /\ Len(pipeline') <= kMaxPendingWrites
          /\ Len(pipeline') <= Len(q2)
          /\ pipeline' = SubSeq(q2, 1, Len(pipeline'))
          /\ Len(pipeline') < kMaxPendingWrites => Len(pipeline') = Len(q2)
        BY <1>4, <1>10, FrontIsQueue
    <2> QED BY <1>11, <2>1, Zenon DEF PipelineIsQueue
<1>15. AnswersFollowPipeline'
    <2> DEFINE r == Len(responses)
               M == Len(Front(q2))
    <2>1. /\ r \in Nat /\ r <= n /\ responses' = responses
          /\ responses \in Seq(Response)
        BY <1>1, <1>8, LenProperties DEF AnswersFollowPipeline, TypeOK
    <2>2. M \in 0 .. Len(q2) /\ n <= M /\ \A i \in 1 .. M : Front(q2)[i] = q2[i]
        BY <1>4, <1>10, FrontProperties
    <2>3. \A i \in 1 .. r : pipeline'[i] = pipeline[i]
        BY <1>2, <1>4, <1>10, <2>1, <2>2
    <2>4. \A i \in 1 .. r : /\ responses[i].id = pipeline'[i].id
                            /\ ~responses[i].ok => i = r
        BY <1>1, <2>1, <2>3 DEF AnswersFollowPipeline
    <2>5. stream' = "ready" /\ Served =>
            requests' = SubSeq(pipeline', r + 1, M)
        <3> SUFFICES ASSUME stream' = "ready", Served
                     PROVE  requests' = SubSeq(pipeline', r + 1, M)
            OBVIOUS
        <3>1. requests = SubSeq(pipeline, r + 1, n)
            BY <1>1, <1>10 DEF AnswersFollowPipeline
        <3>2. SubSeq(pipeline, r + 1, n) = SubSeq(q2, r + 1, n)
            <4>1. r + 1 \in 1 .. n + 1
                BY <1>2, <2>1
            <4> HIDE DEF n, r
            <4>2. SubSeq(SubSeq(q2, 1, n), r + 1, n) = SubSeq(q2, r + 1, n)
                BY <1>4, <1>7, <4>1, SliceOfFront
            <4> QED BY <1>7, <4>2, Zenon
        <3>3. SubSeq(q2, r + 1, n) \o SubSeq(q2, n + 1, M) = SubSeq(q2, r + 1, M)
            <4>1. r + 1 \in 1 .. Len(q2) + 1 /\ n \in (r + 1) - 1 .. Len(q2)
                  /\ M \in n .. Len(q2)
                BY <1>2, <1>4, <1>7, <2>1, <2>2
            <4> HIDE DEF n, r, M
            <4> QED BY <1>4, <4>1, ConcatAdjacentSubSeq
        <3>4. SubSeq(Front(q2), r + 1, M) = SubSeq(q2, r + 1, M)
            <4>1. r + 1 \in 1 .. Len(Front(q2)) + 1
                BY <1>2, <2>1, <2>2
            <4> QED BY <1>4, <4>1, RequestsInQueue
        <3> QED BY <1>10, <3>1, <3>2, <3>3, <3>4, Zenon
    <2>6. stream' # "ready" => requests' = <<>> /\ responses' = <<>>
        BY <1>1, <1>10, <2>1 DEF AnswersFollowPipeline
    <2>7. r <= Len(pipeline') /\ Len(pipeline') = M
        BY <1>2, <1>10, <2>1, <2>2
    <2>8. Served' <=> Served
        BY <2>1 DEF Served
    <2> HIDE DEF M
    <2> QED BY <2>1, <2>4, <2>5, <2>6, <2>7, <2>8, Zenon DEF AnswersFollowPipeline
<1>16. StreamNeeded'
    <2>1. Front(q2) # <<>>
        <3>1. Len(Front(q2)) = Least(kMaxPendingWrites, Len(q2)) /\ Len(<<>>) = 0
            BY <1>4, FrontProperties, EmptySeq
        <3> QED BY <3>1, <1>4, ClientAssumption DEF Least
    <2>2. pipeline = <<>> => n = 0
        BY EmptySeq
    <2>3. ~idle'
        BY <1>1, <1>10, <2>1, <2>2, Zenon DEF StreamNeeded
    <2>4. stream' \notin {"initial", "error"}
        BY <1>10, <2>1, <1>9 DEF Started, StreamState
    <2> QED BY <1>10, <2>1, <2>3, <2>4 DEF StreamNeeded
<1> QED BY <1>12, <1>13, <1>14, <1>15, <1>16 DEF IInv

\* With the stream stopped, filling the pipeline from a front of the queue in
\* use leaves a state of the invariant.
LEMMA StoppedFills ==
    ASSUME NEW q \in Seq(Batch), Ascending(q),
           NEW n \in 0 .. Len(q), n <= kMaxPendingWrites,
           NEW pipe, pipe = SubSeq(q, 1, n),
           NEW s \in {"initial", "error"}, idle \in BOOLEAN,
           FillWritePipeline(q, pipe, s, <<>>),
           responses' = <<>>, batches'[user'] = q
    PROVE  /\ pipeline' \in Seq(Batch) /\ requests' = <<>>
           /\ stream' \in StreamState /\ idle' \in BOOLEAN
           /\ PipelineIsQueue'
           /\ AnswersFollowPipeline'
           /\ StreamNeeded'
<1>1. s \in StreamState /\ <<>> \in Seq(Batch)
    BY EmptySeq DEF StreamState
<1>2. /\ pipeline' = Front(q) /\ pipeline' \in Seq(Batch)
      /\ requests' = (IF s = "ready"
                      THEN <<>> \o SubSeq(q, n + 1, Len(Front(q))) ELSE <<>>)
      /\ stream' = (IF Front(q) = <<>> THEN s ELSE Started(s))
      /\ stream' \in StreamState
      /\ stream' = "ready" <=> s = "ready"
      /\ idle' \in BOOLEAN
      /\ s \notin {"open", "ready"} => ~idle'
    BY <1>1, Fills
<1>3. requests' = <<>> /\ ~idle' /\ stream' # "ready"
    BY <1>2
<1>4. PipelineIsQueue'
    <2>1. /\ Len(pipeline') <= kMaxPendingWrites
          /\ Len(pipeline') <= Len(q)
          /\ pipeline' = SubSeq(q, 1, Len(pipeline'))
          /\ Len(pipeline') < kMaxPendingWrites => Len(pipeline') = Len(q)
        BY <1>2, FrontIsQueue
    <2> QED BY <2>1, Zenon DEF PipelineIsQueue
<1>5. AnswersFollowPipeline'
    <2>1. Len(responses') = 0 /\ Len(pipeline') \in Nat /\ 0 <= Len(pipeline')
          /\ 1 .. Len(responses') = {}
        BY <1>2, EmptySeq, LenProperties
    <2> QED BY <1>3, <2>1 DEF AnswersFollowPipeline
<1>6. StreamNeeded'
    <2>1. Started(s) \notin {"initial", "error"}
        BY DEF Started
    <2> QED BY <1>2, <1>3, <2>1 DEF StreamNeeded
<1> QED BY <1>2, <1>3, <1>4, <1>5, <1>6

\* A queue without its first batch still ascends.
LEMMA TailAscends ==
    ASSUME NEW q \in Seq(Batch), Ascending(q), q # <<>>
    PROVE  /\ Tail(q) \in Seq(Batch) /\ Ascending(Tail(q))
           /\ Len(Tail(q)) = Len(q) - 1
           /\ \A i \in 1 .. Len(Tail(q)) : i + 1 \in 1 .. Len(q) /\ Tail(q)[i] = q[i + 1]
<1>1. /\ Tail(q) \in Seq(Batch) /\ Len(Tail(q)) = Len(q) - 1
      /\ \A i \in 1 .. Len(Tail(q)) : Tail(q)[i] = q[i + 1]
    BY HeadTailProperties
<1>2. Len(q) \in Nat \ {0}
    BY EmptySeq
<1>3. \A i \in 1 .. Len(Tail(q)) : i + 1 \in 1 .. Len(q)
    BY <1>1, <1>2
<1>4. \A i \in 1 .. Len(Tail(q)) : \A j \in 1 .. i - 1 : Tail(q)[j].id < Tail(q)[i].id
    <2> TAKE i \in 1 .. Len(Tail(q))
    <2> TAKE j \in 1 .. i - 1
    <2>1. i + 1 \in 1 .. Len(q) /\ j + 1 \in 1 .. (i + 1) - 1
          /\ j \in 1 .. Len(Tail(q))
        BY <1>1, <1>2
    <2>2. q[j + 1].id < q[i + 1].id
        BY <2>1 DEF Ascending
    <2> QED BY <1>1, <2>1, <2>2
<1> QED BY <1>1, <1>3, <1>4 DEF Ascending

\* The batch at the head of the pipeline, with an answer there for it, is the
\* first of the queue, and is removed from it.
LEMMA HeadRemoved ==
    ASSUME IInv, responses # <<>>
    PROVE  LET q == batches[user]
           IN  /\ q # <<>> /\ pipeline # <<>> /\ Head(pipeline) = q[1]
               /\ Head(pipeline) \in Batch
               /\ Without(q, Head(pipeline).id) = Tail(q)
               /\ Len(pipeline) - 1 \in 0 .. Len(Tail(q))
               /\ Tail(pipeline) = SubSeq(Tail(q), 1, Len(pipeline) - 1)
               /\ Len(responses) \in 1 .. Len(pipeline)
               /\ Head(responses).id = q[1].id
<1> DEFINE q == batches[user]
           n == Len(pipeline)
<1>1. /\ TypeOK /\ IdsIncrease /\ PipelineIsQueue /\ AnswersFollowPipeline
    BY DEF IInv
<1>2. /\ user \in User /\ q \in Seq(Batch) /\ Ascending(q)
      /\ n \in 0 .. Len(q) /\ pipeline = SubSeq(q, 1, n)
      /\ \A i \in 1 .. n : pipeline[i] = q[i]
    BY <1>1, QueueFacts, Zenon
<1>3. responses \in Seq(Response) /\ pipeline \in Seq(Batch)
    BY <1>1 DEF TypeOK
<1>4. Len(responses) \in 1 .. n /\ n \in Nat /\ Len(q) \in Nat
    <2>1. Len(responses) \in Nat \ {0} /\ n \in Nat /\ Len(q) \in Nat
        BY <1>2, <1>3, EmptySeq, LenProperties
    <2>2. Len(responses) <= n
        BY <1>1 DEF AnswersFollowPipeline
    <2> QED BY <2>1, <2>2
<1>5. q # <<>> /\ pipeline # <<>>
    BY <1>2, <1>4, EmptySeq
<1>6. Head(pipeline) = q[1] /\ q[1] \in Batch
    <2>1. 1 \in 1 .. n /\ 1 \in 1 .. Len(q) /\ n \in 1 .. Len(q)
        BY <1>2, <1>4
    <2>2. q[1] \in Batch
        BY <1>2, <2>1, ElementOfSeq
    <2> HIDE DEF q, n
    <2>3. Head(SubSeq(q, 1, n)) = q[1]
        BY <1>2, <2>1, HeadTailOfSubSeq
    <2> QED BY <1>2, <2>2, <2>3, Zenon
<1>7. Without(q, q[1].id) = Tail(q)
    BY <1>2, <1>5, WithoutFirst
<1>8. n - 1 \in 0 .. Len(Tail(q))
    BY <1>2, <1>4, <1>5, HeadTailProperties
<1>9. Tail(pipeline) = SubSeq(Tail(q), 1, n - 1)
    <2>1. 1 \in 1 .. Len(q) /\ n \in 1 .. Len(q) /\ 1 \in 1 .. n /\ 1 + 1 = 2
        BY <1>2, <1>4
    <2> HIDE DEF q, n
    <2>2. Tail(SubSeq(q, 1, n)) = SubSeq(q, 2, n)
        BY <1>2, <2>1, HeadTailOfSubSeq
    <2>3. SubSeq(Tail(q), 1, n - 1) = SubSeq(q, 2, n)
        BY <1>2, <1>5, <2>1, SliceOfTail
    <2> QED BY <1>2, <2>2, <2>3, Zenon
<1>10. Head(responses).id = q[1].id
    <2>1. 1 \in 1 .. Len(responses) /\ 1 \in 1 .. n
        BY <1>4
    <2>2. responses[1].id = pipeline[1].id
        BY <1>1, <2>1 DEF AnswersFollowPipeline
    <2>3. Head(responses) = responses[1]
        BY <1>3
    <2> QED BY <1>2, <2>1, <2>2, <2>3
<1> QED BY <1>4, <1>5, <1>6, <1>7, <1>8, <1>9, <1>10

\* Removing the first batch of the user's queue keeps the types and the ids.
LEMMA RemovalKeepsIds ==
    ASSUME IInv, responses # <<>>,
           batches' = [batches EXCEPT ![user] = Tail(batches[user])],
           nextId' = nextId
    PROVE  /\ batches' \in [User -> Seq(Batch)]
           /\ batches'[user] = Tail(batches[user])
           /\ IdsIncrease'
<1> DEFINE q == batches[user]
<1>1. TypeOK /\ IdsIncrease /\ PipelineIsQueue
    BY DEF IInv
<1>2. user \in User /\ q \in Seq(Batch) /\ Ascending(q) /\ q # <<>>
    BY <1>1, QueueFacts, HeadRemoved, Zenon
<1>3. /\ Tail(q) \in Seq(Batch) /\ Ascending(Tail(q))
      /\ \A i \in 1 .. Len(Tail(q)) : i + 1 \in 1 .. Len(q) /\ Tail(q)[i] = q[i + 1]
    BY <1>2, TailAscends
<1>4. batches' \in [User -> Seq(Batch)] /\ batches'[user] = Tail(q)
    BY <1>1, <1>2, <1>3 DEF TypeOK
<1>5. \A i \in 1 .. Len(Tail(q)) : Tail(q)[i].id < nextId
    BY <1>1, <1>2, <1>3 DEF IdsIncrease
<1>6. IdsIncrease'
    <2> SUFFICES ASSUME NEW u \in User, NEW i \in 1 .. Len(batches'[u])
                 PROVE  /\ batches'[u][i].id < nextId'
                        /\ \A j \in 1 .. i - 1 : batches'[u][j].id < batches'[u][i].id
        BY DEF IdsIncrease
    <2>1. CASE u = user
        BY <2>1, <1>3, <1>4, <1>5 DEF Ascending
    <2>2. CASE u # user
        <3>1. batches'[u] = batches[u]
            BY <1>1, <2>2 DEF TypeOK
        <3> QED BY <3>1, <1>1 DEF IdsIncrease
    <2> QED BY <2>1, <2>2
<1> QED BY <1>4, <1>6

LEMMA WriteErrorKeeps ==
    ASSUME IInv, HandleWriteError
    PROVE  IInv'
<1> DEFINE q == Tail(batches[user])
           n == Len(pipeline) - 1
<1>1. TypeOK /\ IdsIncrease /\ PipelineIsQueue /\ responses # <<>>
    BY DEF IInv, HandleWriteError
<1>2. /\ Without(batches[user], Head(pipeline).id) = q
      /\ n \in 0 .. Len(q) /\ Tail(pipeline) = SubSeq(q, 1, n)
      /\ batches[user] # <<>>
    BY <1>1, HeadRemoved, Zenon
<1>3. /\ batches' = [batches EXCEPT ![user] = q]
      /\ FillWritePipeline(q, Tail(pipeline), "initial", <<>>)
      /\ responses' = <<>>
      /\ UNCHANGED <<server, cache, user, nextId, events, counters>>
    BY <1>2, Zenon DEF HandleWriteError
<1>4. user \in User /\ batches[user] \in Seq(Batch) /\ Ascending(batches[user])
      /\ Len(pipeline) \in 0 .. Len(batches[user]) /\ Len(pipeline) <= kMaxPendingWrites
    BY <1>1, QueueFacts, Zenon
<1>5. q \in Seq(Batch) /\ Ascending(q)
    BY <1>2, <1>4, TailAscends
<1>6. user' = user /\ nextId' = nextId
    BY <1>3
<1>7. batches' \in [User -> Seq(Batch)] /\ batches'[user'] = q /\ IdsIncrease'
    BY <1>1, <1>3, <1>6, RemovalKeepsIds, Zenon
<1>8. n <= kMaxPendingWrites /\ idle \in BOOLEAN
    <2>1. kMaxPendingWrites \in Nat /\ Len(pipeline) \in Nat
        BY <1>4, ClientAssumption, LenProperties
    <2> QED BY <2>1, <1>1, <1>4 DEF TypeOK
<1>9. /\ pipeline' \in Seq(Batch) /\ requests' = <<>>
      /\ stream' \in StreamState /\ idle' \in BOOLEAN
      /\ PipelineIsQueue' /\ AnswersFollowPipeline' /\ StreamNeeded'
    <2> HIDE DEF q, n
    <2> QED BY <1>2, <1>3, <1>5, <1>7, <1>8, StoppedFills
<1>10. TypeOK'
    <2>1. requests' \in Seq(Batch) /\ responses' \in Seq(Response)
        BY <1>3, <1>9, EmptySeq
    <2> QED BY <2>1, <1>1, <1>3, <1>7, <1>9 DEF TypeOK, server, counters, StreamState
<1> QED BY <1>7, <1>9, <1>10 DEF IInv

LEMMA CredentialChangeKeeps ==
    ASSUME IInv, NEW u \in User, HandleCredentialChange(u)
    PROVE  IInv'
<1>1. TypeOK /\ IdsIncrease /\ PipelineIsQueue
    BY DEF IInv
<1> DEFINE q == batches[u]
           s == IF stream = "error" THEN "error" ELSE "initial"
<1>2. /\ FillWritePipeline(q, <<>>, s, <<>>)
      /\ responses' = <<>> /\ events' = <<>> /\ user' = u
      /\ faults' = faults + 1
      /\ UNCHANGED <<server, store, issued, others>>
    BY Zenon DEF HandleCredentialChange, StreamsReset
<1>3. q \in Seq(Batch) /\ Ascending(q)
    BY <1>1 DEF TypeOK, IdsIncrease, Ascending
<1>4. batches' = batches /\ batches'[user'] = q
    BY <1>2 DEF store
<1>5. nextId' \in Nat \ {0} /\ IdsIncrease'
    <2>1. CASE u = user
        <3>1. nextId' = nextId
            BY <2>1, Zenon DEF HandleCredentialChange
        <3> QED BY <3>1, <1>1, <1>4 DEF TypeOK, IdsIncrease
    <2>2. CASE u # user
        <3>1. IsNextId(nextId', batches) /\ nextId' \in 0 .. nextId
            BY <2>2, Zenon DEF HandleCredentialChange
        <3> QED BY <3>1, <1>1, <1>4 DEF TypeOK, IdsIncrease, IsNextId
    <2> QED BY <2>1, <2>2
<1>6. /\ s \in {"initial", "error"} /\ idle \in BOOLEAN
      /\ 0 \in 0 .. Len(q) /\ 0 <= kMaxPendingWrites /\ <<>> = SubSeq(q, 1, 0)
    <2>1. Len(q) \in Nat
        BY <1>3, LenProperties
    <2>2. SubSeq(q, 1, 0) = <<>>
        BY SubSeqEmpty
    <2> QED BY <2>1, <2>2, <1>1, ClientAssumption DEF TypeOK
<1>7. /\ pipeline' \in Seq(Batch) /\ requests' = <<>>
      /\ stream' \in StreamState /\ idle' \in BOOLEAN
      /\ PipelineIsQueue' /\ AnswersFollowPipeline' /\ StreamNeeded'
    <2> HIDE DEF q, s
    <2> QED BY <1>2, <1>3, <1>4, <1>6, StoppedFills
<1>8. TypeOK'
    <2>1. /\ requests' \in Seq(Batch) /\ responses' \in Seq(Response)
          /\ events' \in Seq([Key -> Doc])
        BY <1>2, <1>7, EmptySeq
    <2> QED BY <2>1, <1>1, <1>2, <1>5, <1>7 DEF TypeOK, server, store, StreamState
<1> QED BY <1>5, <1>7, <1>8 DEF IInv

LEMMA InitializeKeeps ==
    ASSUME IInv, Initialize
    PROVE  IInv'
<1>1. TypeOK /\ IdsIncrease /\ PipelineIsQueue
    BY DEF IInv
<1> DEFINE q == batches[user]
<1>2. /\ FillWritePipeline(q, <<>>, "initial", <<>>)
      /\ responses' = <<>> /\ events' = <<>>
      /\ faults' = faults + 1
      /\ UNCHANGED <<server, store, user, issued, others>>
    BY Zenon DEF Initialize, StreamsReset
<1>3. q \in Seq(Batch) /\ Ascending(q)
    BY <1>1 DEF TypeOK, IdsIncrease, Ascending
<1>4. batches' = batches /\ batches'[user'] = q
    BY <1>2 DEF store
<1>5. nextId' \in Nat \ {0} /\ IdsIncrease'
    <2>1. IsNextId(nextId', batches) /\ nextId' \in 0 .. nextId
        BY Zenon DEF Initialize
    <2> QED BY <2>1, <1>1, <1>4 DEF TypeOK, IdsIncrease, IsNextId
<1>6. /\ idle \in BOOLEAN
      /\ 0 \in 0 .. Len(q) /\ 0 <= kMaxPendingWrites /\ <<>> = SubSeq(q, 1, 0)
    <2>1. Len(q) \in Nat
        BY <1>3, LenProperties
    <2>2. SubSeq(q, 1, 0) = <<>>
        BY SubSeqEmpty
    <2> QED BY <2>1, <2>2, <1>1, ClientAssumption DEF TypeOK
<1>7. /\ pipeline' \in Seq(Batch) /\ requests' = <<>>
      /\ stream' \in StreamState /\ idle' \in BOOLEAN
      /\ PipelineIsQueue' /\ AnswersFollowPipeline' /\ StreamNeeded'
    <2> HIDE DEF q
    <2> QED BY <1>2, <1>3, <1>4, <1>6, StoppedFills
<1>8. TypeOK'
    <2>1. /\ requests' \in Seq(Batch) /\ responses' \in Seq(Response)
          /\ events' \in Seq([Key -> Doc])
        BY <1>2, <1>7, EmptySeq
    <2> QED BY <2>1, <1>1, <1>2, <1>5, <1>7 DEF TypeOK, server, store, StreamState
<1> QED BY <1>5, <1>7, <1>8 DEF IInv

\* A document of the cache after an answer or a snapshot is one of its kind.
LEMMA CachedType ==
    ASSUME NEW doc \in [version : Nat, state : {"synced", "committed"}, data : Data],
           NEW m \in Mutation, NEW version \in Nat, NEW new \in Doc
    PROVE  /\ Acknowledged(doc, m, version)
                  \in [version : Nat, state : {"synced", "committed"}, data : Data]
           /\ Watched(doc, new)
                  \in [version : Nat, state : {"synced", "committed"}, data : Data]
<1>1. NoData \in Data /\ Result(m, doc.data) \in Data
    BY DEF NoData, Data, Result, Mutation
<1>2. new.version \in Nat /\ new.data \in Data
    BY DEF Doc
<1> QED BY <1>1, <1>2 DEF Acknowledged, Watched

LEMMA MutationResultKeeps ==
    ASSUME IInv, OnWriteStreamMutationResult
    PROVE  IInv'
<1> DEFINE q == Tail(batches[user])
           n == Len(pipeline) - 1
           b == Head(pipeline)
           r == Len(responses) - 1
           M == Len(Front(q))
<1>1. /\ TypeOK /\ IdsIncrease /\ PipelineIsQueue /\ AnswersFollowPipeline
      /\ StreamNeeded
      /\ responses # <<>> /\ stream = "ready" /\ Head(responses).ok
    BY DEF IInv, OnWriteStreamMutationResult
<1>2. /\ Without(batches[user], b.id) = q
      /\ n \in 0 .. Len(q) /\ Tail(pipeline) = SubSeq(q, 1, n)
      /\ batches[user] # <<>> /\ b \in Batch /\ pipeline # <<>>
      /\ Len(responses) \in 1 .. Len(pipeline)
    BY <1>1, HeadRemoved, Zenon
<1>3. /\ cache' = [cache EXCEPT ![b.m.key] =
                       Acknowledged(@, b.m, Head(responses).version)]
      /\ batches' = [batches EXCEPT ![user] = q]
      /\ FillWritePipeline(q, Tail(pipeline), "ready", requests)
      /\ responses' = Tail(responses)
      /\ UNCHANGED <<server, user, nextId, events, counters>>
    BY <1>1, <1>2, Zenon DEF OnWriteStreamMutationResult
<1>4. user \in User /\ batches[user] \in Seq(Batch) /\ Ascending(batches[user])
      /\ Len(pipeline) \in 0 .. Len(batches[user]) /\ Len(pipeline) <= kMaxPendingWrites
      /\ pipeline = SubSeq(batches[user], 1, Len(pipeline))
      /\ \A i \in 1 .. Len(pipeline) : pipeline[i] = batches[user][i]
    BY <1>1, QueueFacts, Zenon
<1>5. /\ q \in Seq(Batch) /\ Ascending(q) /\ Len(q) = Len(batches[user]) - 1
      /\ \A i \in 1 .. Len(q) : q[i] = batches[user][i + 1]
    BY <1>2, <1>4, TailAscends
<1>6. user' = user /\ nextId' = nextId
    BY <1>3
<1>7. batches' \in [User -> Seq(Batch)] /\ batches'[user'] = q /\ IdsIncrease'
    BY <1>1, <1>3, <1>6, RemovalKeepsIds, Zenon
<1>8. /\ n <= kMaxPendingWrites /\ Len(pipeline) \in Nat /\ Len(batches[user]) \in Nat
      /\ Len(q) \in Nat
    <2>1. kMaxPendingWrites \in Nat /\ Len(pipeline) \in Nat
        BY <1>4, ClientAssumption, LenProperties
    <2> QED BY <2>1, <1>4, <1>5, LenProperties
<1>9. "ready" \in StreamState /\ requests \in Seq(Batch) /\ idle \in BOOLEAN
    BY <1>1 DEF TypeOK, StreamState
<1>10. /\ pipeline' = Front(q) /\ pipeline' \in Seq(Batch) /\ n <= M
       /\ requests' = requests \o SubSeq(q, n + 1, M)
       /\ requests' \in Seq(Batch)
       /\ stream' = "ready"
       /\ idle' \in BOOLEAN
       /\ Front(q) = <<>> => idle'
       /\ Front(q) # <<>> /\ idle' => idle
    <2> HIDE DEF q, n
    <2>1. /\ pipeline' = Front(q) /\ pipeline' \in Seq(Batch) /\ n <= M
          /\ requests' = (IF "ready" = "ready" THEN requests \o SubSeq(q, n + 1, M)
                          ELSE requests)
          /\ requests' \in Seq(Batch)
          /\ stream' \in StreamState
          /\ (stream' = "ready" <=> "ready" = "ready")
          /\ idle' \in BOOLEAN
          /\ "ready" \in {"open", "ready"} /\ Front(q) = <<>> => idle'
          /\ Front(q) # <<>> /\ idle' => idle
        BY <1>2, <1>3, <1>5, <1>8, <1>9, Fills
    <2> QED BY <2>1
<1>11. /\ responses \in Seq(Response) /\ responses' \in Seq(Response)
       /\ r \in 0 .. n /\ Len(responses') = r
       /\ \A i \in 1 .. r : responses'[i] = responses[i + 1]
    <2>1. responses \in Seq(Response) /\ responses # <<>> /\ responses' = Tail(responses)
        BY <1>1, <1>3 DEF TypeOK
    <2>2. /\ Tail(responses) \in Seq(Response)
          /\ Len(Tail(responses)) = Len(responses) - 1
          /\ \A i \in 1 .. Len(responses) - 1 : Tail(responses)[i] = responses[i + 1]
        <3>1. Len(Tail(responses)) = Len(responses) - 1
            BY <2>1, HeadTailProperties
        <3> QED BY <2>1, <3>1, HeadTailProperties
    <2>3. r \in 0 .. n
        BY <1>2, <1>8
    <2> QED BY <2>1, <2>2, <2>3
<1>12. TypeOK'
    <2>1. Head(responses).version \in Nat /\ b.m \in Mutation /\ b.m.key \in Key
        <3>1. Head(responses) \in Response
            BY <1>1, <1>11, HeadTailProperties
        <3>2. Head(responses).version \in Nat
            BY <3>1 DEF Response
        <3>3. b.m \in Mutation
            BY <1>2 DEF Batch
        <3>4. b.m.key \in Key
            BY <3>3 DEF Mutation
        <3> QED BY <3>2, <3>3, <3>4
    <2>2. cache' \in [Key -> [version : Nat, state : {"synced", "committed"}, data : Data]]
        <3>1. cache[b.m.key] \in [version : Nat, state : {"synced", "committed"}, data : Data]
              /\ docs[b.m.key] \in Doc
            BY <1>1, <2>1 DEF TypeOK
        <3>2. Acknowledged(cache[b.m.key], b.m, Head(responses).version)
                  \in [version : Nat, state : {"synced", "committed"}, data : Data]
            BY <2>1, <3>1, CachedType
        <3> QED BY <1>1, <1>3, <3>2 DEF TypeOK
    <2> QED BY <1>1, <1>3, <1>7, <1>10, <1>11, <2>2 DEF TypeOK, server, counters
<1>13. PipelineIsQueue'
    <2>1. /\ Len(pipeline') <= kMaxPendingWrites
          /\ Len(pipeline') <= Len(q)
          /\ pipeline' = SubSeq(q, 1, Len(pipeline'))
          /\ Len(pipeline') < kMaxPendingWrites => Len(pipeline') = Len(q)
        <3> HIDE DEF q
        <3> QED BY <1>5, <1>10, FrontIsQueue
    <2> QED BY <1>7, <2>1, Zenon DEF PipelineIsQueue
<1>14. AnswersFollowPipeline'
    <2>1. M \in 0 .. Len(q) /\ \A i \in 1 .. M : Front(q)[i] = q[i]
        BY <1>5, FrontProperties
    <2>2. \A i \in 1 .. r : pipeline'[i] = pipeline[i + 1]
        <3> TAKE i \in 1 .. r
        <3>1. i \in 1 .. M /\ i \in 1 .. Len(q) /\ i + 1 \in 1 .. Len(pipeline)
            BY <1>8, <1>10, <1>11, <2>1
        <3> QED BY <3>1, <1>4, <1>5, <1>10, <2>1
    <2>3. \A i \in 1 .. r : /\ responses'[i].id = pipeline'[i].id
                            /\ ~responses'[i].ok => i = r
        <3> TAKE i \in 1 .. r
        <3>1. i + 1 \in 1 .. Len(responses) /\ Len(responses) \in Nat
            BY <1>11
        <3> QED BY <3>1, <1>1, <1>11, <2>2 DEF AnswersFollowPipeline
    <2>4. Served' => Served
        <3> SUFFICES ASSUME Served', NEW i \in 1 .. Len(responses)
                     PROVE  responses[i].ok
            BY DEF Served
        <3>1. Len(responses) \in Nat /\ Head(responses) = responses[1]
            BY <1>11
        <3>2. CASE i = 1
            BY <3>1, <3>2, <1>1
        <3>3. CASE i # 1
            <4>1. i - 1 \in 1 .. r
                BY <3>1, <3>3
            <4>2. responses'[i - 1] = responses[i] /\ responses'[i - 1].ok
                BY <1>11, <3>1, <4>1 DEF Served
            <4> QED BY <4>2
        <3> QED BY <3>2, <3>3
    <2>5. Served' => requests' = SubSeq(pipeline', r + 1, M)
        <3> SUFFICES ASSUME Served'
                     PROVE  requests' = SubSeq(pipeline', r + 1, M)
            OBVIOUS
        <3>1. requests = SubSeq(pipeline, Len(responses) + 1, Len(pipeline))
            BY <1>1, <2>4 DEF AnswersFollowPipeline
        <3>2. SubSeq(pipeline, Len(responses) + 1, Len(pipeline))
                  = SubSeq(batches[user], Len(responses) + 1, Len(pipeline))
            <4> DEFINE l == Len(pipeline)
                       a == Len(responses) + 1
            <4>1. l \in 0 .. Len(batches[user]) /\ a \in 1 .. l + 1
                  /\ pipeline = SubSeq(batches[user], 1, l)
                BY <1>2, <1>4, <1>8
            <4> HIDE DEF l, a
            <4>2. SubSeq(SubSeq(batches[user], 1, l), a, l) = SubSeq(batches[user], a, l)
                BY <1>4, <4>1, SliceOfFront
            <4> QED BY <4>1, <4>2, Zenon DEF l, a
        <3>3. SubSeq(batches[user], Len(responses) + 1, Len(pipeline))
                  = SubSeq(q, r + 1, n)
            <4> DEFINE l == Len(pipeline)
                       a == Len(responses)
            <4>1. l \in 1 .. Len(batches[user]) /\ a \in 1 .. l
                  /\ n = l - 1 /\ r + 1 = a
                BY SMTT(30), <1>2, <1>4, <1>8, <1>11
            <4> HIDE DEF l, a, n, r
            <4>2. SubSeq(Tail(batches[user]), a, l - 1) = SubSeq(batches[user], a + 1, l)
                BY <1>2, <1>4, <4>1, SliceOfTail
            <4> QED BY <4>1, <4>2, Zenon DEF l, a
        <3>4. SubSeq(q, r + 1, n) \o SubSeq(q, n + 1, M) = SubSeq(q, r + 1, M)
            <4>1. r + 1 \in 1 .. Len(q) + 1 /\ n \in (r + 1) - 1 .. Len(q)
                  /\ M \in n .. Len(q)
                BY <1>2, <1>8, <1>10, <1>11, <2>1
            <4> HIDE DEF n, r, M, q
            <4> QED BY <1>5, <4>1, ConcatAdjacentSubSeq
        <3>5. SubSeq(Front(q), r + 1, M) = SubSeq(q, r + 1, M)
            <4>1. r + 1 \in 1 .. Len(Front(q)) + 1
                BY <1>8, <1>10, <1>11, <2>1
            <4> HIDE DEF q, r
            <4> QED BY <1>5, <4>1, RequestsInQueue
        <3> QED BY <1>10, <3>1, <3>2, <3>3, <3>4, <3>5, Zenon
    <2>6. r <= M /\ Len(pipeline') = M
        BY <1>8, <1>10, <1>11, <2>1
    <2> HIDE DEF M, r, q, n
    <2> QED BY <1>10, <1>11, <2>3, <2>5, <2>6, Zenon DEF AnswersFollowPipeline
<1>15. StreamNeeded'
    <2>1. ~idle
        BY <1>1, <1>2, Zenon DEF StreamNeeded
    <2> HIDE DEF q
    <2> QED BY <1>10, <2>1, Zenon DEF StreamNeeded
<1> QED BY <1>7, <1>12, <1>13, <1>14, <1>15 DEF IInv

\* The handshake is done: the whole of the pipeline is sent.
LEMMA HandshakeKeeps ==
    ASSUME IInv, OnWriteStreamHandshakeComplete
    PROVE  IInv'
<1>1. /\ TypeOK /\ IdsIncrease /\ PipelineIsQueue /\ AnswersFollowPipeline
      /\ StreamNeeded
      /\ stream = "open" /\ stream' = "ready" /\ requests' = pipeline
      /\ UNCHANGED <<server, store, user, nextId, pipeline, idle, responses, events,
                     counters>>
    BY DEF IInv, OnWriteStreamHandshakeComplete
<1>2. TypeOK'
    BY <1>1 DEF TypeOK, server, store, counters
<1>3. IdsIncrease' /\ PipelineIsQueue'
    BY <1>1 DEF IdsIncrease, PipelineIsQueue, store
<1>4. responses = <<>> /\ responses' = <<>> /\ Len(responses') = 0
    BY <1>1 DEF AnswersFollowPipeline
<1>5. pipeline \in Seq(Batch) /\ Len(pipeline) \in Nat
    BY <1>1, LenProperties DEF TypeOK
<1>6. SubSeq(pipeline, 0 + 1, Len(pipeline)) = pipeline
    BY <1>5, SubSeqFull
<1>7. AnswersFollowPipeline'
    BY <1>1, <1>4, <1>5, <1>6 DEF AnswersFollowPipeline
<1>8. StreamNeeded'
    BY <1>1 DEF StreamNeeded
<1> QED BY <1>2, <1>3, <1>7, <1>8 DEF IInv

\* The first request is the first write of the pipeline without an answer.
LEMMA FirstRequest ==
    ASSUME IInv, requests # <<>>, Served
    PROVE  /\ Len(responses) \in Nat /\ Len(responses) + 1 \in 1 .. Len(pipeline)
           /\ Head(requests) = pipeline[Len(responses) + 1]
           /\ Tail(requests) = SubSeq(pipeline, Len(responses) + 2, Len(pipeline))
           /\ stream = "ready"
<1> DEFINE r == Len(responses)
           l == Len(pipeline)
<1>1. /\ TypeOK /\ AnswersFollowPipeline
      /\ pipeline \in Seq(Batch) /\ requests \in Seq(Batch)
      /\ responses \in Seq(Response)
    BY DEF IInv, TypeOK
<1>2. stream = "ready" /\ requests = SubSeq(pipeline, r + 1, l) /\ r <= l
    BY <1>1, Zenon DEF AnswersFollowPipeline
<1>3. r \in Nat /\ l \in Nat
    BY <1>1, LenProperties
<1>4. r + 1 <= l
    <2>1. r = l => SubSeq(pipeline, r + 1, l) = <<>>
        BY <1>1, <1>3, SubSeqEmpty
    <2> QED BY <1>2, <1>3, <2>1
<1>5. /\ Head(requests) = pipeline[r + 1]
      /\ Tail(requests) = SubSeq(pipeline, r + 2, l)
    <2>1. Head(requests) = requests[1] /\ 1 \in 1 .. l - (r + 1) + 1
        BY <1>3, <1>4
    <2>2. \A i \in r + 1 .. l : pipeline[i] \in Batch
        BY <1>1, <1>3, ElementOfSeq
    <2>3. requests[1] = pipeline[r + 1]
        BY <1>2, <1>3, <1>4, <2>1, <2>2, SubSeqProperties
    <2>4. Tail(SubSeq(pipeline, r + 1, l)) = SubSeq(pipeline, r + 2, l)
        <3> DEFINE s == SubSeq(pipeline, r + 1, l)
        <3>1. /\ s \in Seq(Batch) /\ Len(s) = l - r
              /\ \A i \in 1 .. l - r : s[i] = pipeline[r + i]
            BY <1>3, <1>4, <2>2, SubSeqProperties
        <3>2. \A i \in r + 2 .. l : pipeline[i] \in Batch
            BY <1>3, <2>2
        <3>3. /\ SubSeq(pipeline, r + 2, l) \in Seq(Batch)
              /\ Len(SubSeq(pipeline, r + 2, l)) = l - r - 1
              /\ \A i \in 1 .. l - r - 1 :
                    SubSeq(pipeline, r + 2, l)[i] = pipeline[r + 1 + i]
            BY <1>3, <1>4, <3>2, SubSeqProperties
        <3> HIDE DEF s
        <3>4. s # <<>>
            BY <3>1, <1>3, <1>4
        <3>5. /\ Tail(s) \in Seq(Batch) /\ Len(Tail(s)) = l - r - 1
              /\ \A i \in 1 .. l - r - 1 : Tail(s)[i] = s[i + 1]
            <4>1. Len(Tail(s)) = Len(s) - 1
                BY <3>1, <3>4, HeadTailProperties
            <4> QED BY <1>3, <3>1, <3>4, <4>1, HeadTailProperties
        <3>6. \A i \in 1 .. l - r - 1 : Tail(s)[i] = SubSeq(pipeline, r + 2, l)[i]
            <4> TAKE i \in 1 .. l - r - 1
            <4>1. i + 1 \in 1 .. l - r /\ r + (i + 1) = r + 1 + i
                BY <1>3, <1>4
            <4> QED BY <3>1, <3>3, <3>5, <4>1
        <3>7. Tail(s) = SubSeq(pipeline, r + 2, l)
            BY <3>3, <3>5, <3>6, SeqEqual
        <3> QED BY <3>7, Zenon DEF s
    <2> QED BY <1>2, <2>1, <2>3, <2>4, Zenon
<1> QED BY <1>2, <1>3, <1>4, <1>5

\* The server takes or refuses the first request: the answers and the requests
\* still make up the pipeline.
LEMMA AnswerAppended ==
    ASSUME IInv, requests # <<>>, Served, NEW a \in Response,
           a.id = Head(requests).id,
           pipeline' = pipeline, stream' = stream,
           responses' = Append(responses, a),
           \/ a.ok /\ requests' = Tail(requests)
           \/ ~a.ok /\ requests' = <<>>
    PROVE  /\ AnswersFollowPipeline'
           /\ requests' \in Seq(Batch) /\ responses' \in Seq(Response)
<1> DEFINE r == Len(responses)
           l == Len(pipeline)
<1>1. /\ TypeOK /\ AnswersFollowPipeline
      /\ pipeline \in Seq(Batch) /\ requests \in Seq(Batch)
      /\ responses \in Seq(Response)
    BY DEF IInv, TypeOK
<1>2. /\ r \in Nat /\ r + 1 \in 1 .. l /\ stream = "ready"
      /\ Head(requests) = pipeline[r + 1]
      /\ Tail(requests) = SubSeq(pipeline, r + 2, l)
    BY FirstRequest
<1>3. r \in Nat /\ l \in Nat
    BY <1>1, LenProperties
<1>4. r + 1 <= l
    BY <1>2, <1>3
<1>5. /\ Head(requests) = pipeline[r + 1]
      /\ Tail(requests) = SubSeq(pipeline, r + 2, l)
    BY <1>2
<1>6. /\ responses' \in Seq(Response) /\ Len(responses') = r + 1
      /\ \A i \in 1 .. r : responses'[i] = responses[i]
      /\ responses'[r + 1] = a
    BY <1>1, <1>3, AppendProperties
<1>7. \A i \in 1 .. r + 1 : /\ responses'[i].id = pipeline[i].id
                            /\ ~responses'[i].ok => i = r + 1
    <2> TAKE i \in 1 .. r + 1
    <2>1. CASE i = r + 1
        BY <2>1, <1>5, <1>6
    <2>2. CASE i # r + 1
        <3>1. i \in 1 .. r
            BY <1>3, <2>2
        <3> QED BY <3>1, <1>1, <1>6 DEF AnswersFollowPipeline, Served
    <2> QED BY <2>1, <2>2
<1>8. Served' => requests' = SubSeq(pipeline, r + 2, l)
    <2>1. Served' => a.ok
        BY <1>3, <1>6 DEF Served
    <2> QED BY <1>5, <2>1
<1>9. requests' \in Seq(Batch)
    <2>1. <<>> \in Seq(Batch)
        BY EmptySeq
    <2> QED BY <1>1, <2>1, HeadTailProperties
<1>10. r + 1 + 1 = r + 2
    BY <1>3
<1> HIDE DEF r, l
<1>11. AnswersFollowPipeline'
    <2>1. Len(pipeline') = l
        BY DEF l
    <2> QED BY <1>2, <1>4, <1>6, <1>7, <1>8, <1>10, <2>1 DEF AnswersFollowPipeline
<1> QED BY <1>6, <1>9, <1>11

\* A write at the server, this device's or another's.
LEMMA TakesType ==
    ASSUME TypeOK, NEW m \in Mutation, Takes(m)
    PROVE  /\ docs' \in [Key -> Doc] /\ clock' \in Nat
           /\ m.key \in Key
<1>1. m.key \in Key /\ docs \in [Key -> Doc] /\ clock \in Nat
    BY DEF Mutation, TypeOK
<1>2. docs[m.key].data \in Data /\ NoData \in Data
    BY <1>1 DEF Doc, NoData, Data
<1>3. Result(m, docs[m.key].data) \in Data
    BY <1>2 DEF Result, Mutation, Data
<1>4. [version |-> clock + 1, data |-> Result(m, docs[m.key].data)] \in Doc
    BY <1>1, <1>3 DEF Doc
<1> QED BY <1>1, <1>4 DEF Takes, server

LEMMA ServerTakesKeeps ==
    ASSUME IInv, ServerTakes
    PROVE  IInv'
<1> DEFINE b == Head(requests)
           a == [ok |-> TRUE, id |-> b.id, version |-> docs'[b.m.key].version]
<1>1. /\ TypeOK /\ IdsIncrease /\ PipelineIsQueue /\ StreamNeeded
      /\ requests # <<>> /\ Served /\ Takes(b.m)
      /\ responses' = Append(responses, a) /\ requests' = Tail(requests)
      /\ UNCHANGED <<store, user, nextId, pipeline, stream, idle, events, counters>>
    BY DEF IInv, ServerTakes
<1>2. b \in Batch
    BY <1>1, HeadTailProperties DEF TypeOK
<1>3. b.m \in Mutation /\ b.id \in Nat \ {0}
    BY <1>2 DEF Batch
<1>4. docs' \in [Key -> Doc] /\ clock' \in Nat /\ b.m.key \in Key
    BY <1>1, <1>3, TakesType
<1>5. a \in Response
    BY <1>3, <1>4 DEF Response, Doc
<1>6. a.ok /\ a.id = b.id
    OBVIOUS
<1>7. /\ AnswersFollowPipeline'
      /\ requests' \in Seq(Batch) /\ responses' \in Seq(Response)
    <2> HIDE DEF a
    <2> QED BY <1>1, <1>5, <1>6, AnswerAppended
<1>8. TypeOK'
    BY <1>1, <1>4, <1>7 DEF TypeOK, store, counters
<1>9. IdsIncrease' /\ PipelineIsQueue' /\ StreamNeeded'
    BY <1>1 DEF IdsIncrease, PipelineIsQueue, StreamNeeded, store
<1> QED BY <1>7, <1>8, <1>9 DEF IInv

LEMMA ServerRefusesKeeps ==
    ASSUME IInv, ServerRefuses
    PROVE  IInv'
<1> DEFINE a == [ok |-> FALSE, id |-> Head(requests).id, version |-> 0]
<1>1. /\ TypeOK /\ IdsIncrease /\ PipelineIsQueue /\ StreamNeeded
      /\ requests # <<>> /\ Served
      /\ responses' = Append(responses, a) /\ requests' = <<>>
      /\ UNCHANGED <<server, store, user, nextId, pipeline, stream, idle, events,
                     counters>>
    BY DEF IInv, ServerRefuses
<1>2. Head(requests) \in Batch
    BY <1>1, HeadTailProperties DEF TypeOK
<1>3. a \in Response /\ ~a.ok /\ a.id = Head(requests).id
    BY <1>2 DEF Response, Batch
<1>4. /\ AnswersFollowPipeline'
      /\ requests' \in Seq(Batch) /\ responses' \in Seq(Response)
    <2> HIDE DEF a
    <2> QED BY <1>1, <1>3, AnswerAppended
<1>5. TypeOK'
    BY <1>1, <1>4 DEF TypeOK, server, store, counters
<1>6. IdsIncrease' /\ PipelineIsQueue' /\ StreamNeeded'
    BY <1>1 DEF IdsIncrease, PipelineIsQueue, StreamNeeded, store
<1> QED BY <1>4, <1>5, <1>6 DEF IInv

\* Nothing is in flight on a stream that is not ready.
LEMMA StreamMoves ==
    ASSUME IInv, requests' = <<>>, responses' = <<>>, stream' # "ready",
           stream' \in StreamState, ~idle',
           stream' \in {"initial", "error"} <=> pipeline = <<>>,
           UNCHANGED <<server, store, user, nextId, pipeline>>,
           events' \in Seq([Key -> Doc]),
           issued' \in Nat, others' \in Nat, faults' \in Nat
    PROVE  IInv'
<1>1. /\ TypeOK /\ IdsIncrease /\ PipelineIsQueue
      /\ docs' = docs /\ clock' = clock /\ batches' = batches /\ cache' = cache
      /\ user' = user /\ nextId' = nextId /\ pipeline' = pipeline
    BY DEF IInv, server, store
<1>2. requests' \in Seq(Batch) /\ responses' \in Seq(Response) /\ idle' \in BOOLEAN
    <2>1. requests' \in Seq(Batch) /\ responses' \in Seq(Response)
        BY EmptySeq
    <2>2. idle' \in BOOLEAN
        <3>1. idle' = FALSE
            OBVIOUS
        <3> QED BY <3>1
    <2> QED BY <2>1, <2>2
<1>3. TypeOK'
    BY <1>1, <1>2 DEF TypeOK, StreamState
<1>4. IdsIncrease' /\ PipelineIsQueue'
    BY <1>1 DEF IdsIncrease, PipelineIsQueue
<1>5. AnswersFollowPipeline'
    <2>1. Len(responses') = 0 /\ Len(pipeline') \in Nat
        BY <1>1, LenProperties DEF TypeOK
    <2> QED BY <2>1 DEF AnswersFollowPipeline
<1>6. StreamNeeded'
    BY <1>1 DEF StreamNeeded
<1> QED BY <1>3, <1>4, <1>5, <1>6 DEF IInv

LEMMA StreamStepsKeep ==
    ASSUME IInv,
           \/ OnWriteStreamOpen \/ OnWriteStreamClose
           \/ BackoffElapsed \/ IdleTimeout
    PROVE  IInv'
<1>1. TypeOK /\ AnswersFollowPipeline /\ StreamNeeded
    BY DEF IInv
<1>2. CASE OnWriteStreamOpen
    <2>1. requests' = <<>> /\ responses' = <<>> /\ ~idle' /\ pipeline # <<>>
          /\ events' \in Seq([Key -> Doc])
          /\ issued' \in Nat /\ others' \in Nat /\ faults' \in Nat
        BY <1>1, <1>2 DEF OnWriteStreamOpen, AnswersFollowPipeline, StreamNeeded,
                          channels, counters, TypeOK
    <2> QED BY <1>2, <2>1, StreamMoves DEF OnWriteStreamOpen, StreamState
<1>3. CASE OnWriteStreamClose
    <2>1. events' \in Seq([Key -> Doc])
          /\ issued' \in Nat /\ others' \in Nat /\ faults' \in Nat
        BY <1>1, <1>3 DEF OnWriteStreamClose, TypeOK
    <2>2. stream' \in StreamState \ {"ready"}
          /\ (stream' \in {"initial", "error"} <=> pipeline = <<>>)
        BY <1>3 DEF OnWriteStreamClose, StreamState
    <2>3. ~idle' /\ requests' = <<>> /\ responses' = <<>>
          /\ UNCHANGED <<server, store, user, nextId, pipeline>>
        BY <1>3 DEF OnWriteStreamClose
    <2> QED BY <2>1, <2>2, <2>3, StreamMoves
<1>4. CASE BackoffElapsed
    <2>1. requests' = <<>> /\ responses' = <<>> /\ ~idle' /\ pipeline # <<>>
          /\ events' \in Seq([Key -> Doc])
          /\ issued' \in Nat /\ others' \in Nat /\ faults' \in Nat
        BY <1>1, <1>4 DEF BackoffElapsed, AnswersFollowPipeline, StreamNeeded,
                          channels, counters, TypeOK
    <2> QED BY <1>4, <2>1, StreamMoves DEF BackoffElapsed, StreamState
<1>5. CASE IdleTimeout
    <2>1. events' \in Seq([Key -> Doc])
          /\ issued' \in Nat /\ others' \in Nat /\ faults' \in Nat
        BY <1>1, <1>5 DEF IdleTimeout, TypeOK, counters
    <2>2. pipeline = <<>>
        BY <1>1, <1>5 DEF IdleTimeout, StreamNeeded
    <2>3. ~idle' /\ requests' = <<>> /\ responses' = <<>> /\ stream' = "initial"
          /\ UNCHANGED <<server, store, user, nextId, pipeline>>
        BY <1>5 DEF IdleTimeout
    <2> QED BY <2>1, <2>2, <2>3, StreamMoves DEF StreamState
<1> QED BY <1>2, <1>3, <1>4, <1>5

\* Steps of the server, of the other devices and of the listener.
LEMMA WatchStepsKeep ==
    ASSUME IInv,
           UNCHANGED <<batches, user, nextId, pipeline, stream, idle, requests,
                       responses>>,
           docs' \in [Key -> Doc], clock' \in Nat,
           cache' \in [Key -> [version : Nat, state : {"synced", "committed"},
                               data : Data]],
           events' \in Seq([Key -> Doc]),
           issued' \in Nat, others' \in Nat, faults' \in Nat
    PROVE  IInv'
<1>1. TypeOK /\ IdsIncrease /\ PipelineIsQueue /\ AnswersFollowPipeline /\ StreamNeeded
    BY DEF IInv
<1>2. TypeOK'
    BY <1>1 DEF TypeOK
<1>3. IdsIncrease' /\ PipelineIsQueue' /\ StreamNeeded'
    BY <1>1 DEF IdsIncrease, PipelineIsQueue, StreamNeeded
<1>4. AnswersFollowPipeline'
    BY <1>1 DEF AnswersFollowPipeline, Served
<1> QED BY <1>2, <1>3, <1>4 DEF IInv

LEMMA NextKeeps ==
    ASSUME IInv, [Next]_vars
    PROVE  IInv'
<1>1. /\ TypeOK
      /\ docs \in [Key -> Doc] /\ clock \in Nat
      /\ cache \in [Key -> [version : Nat, state : {"synced", "committed"},
                            data : Data]]
      /\ events \in Seq([Key -> Doc])
      /\ issued \in Nat /\ others \in Nat /\ faults \in Nat
    BY DEF IInv, TypeOK
<1>2. CASE \E m \in OwnWrites : WriteMutations(m)
    BY <1>2, WriteMutationsKeeps
<1>3. CASE WriteStreamSteps
    BY <1>3, StreamStepsKeep, HandshakeKeeps, MutationResultKeeps, WriteErrorKeeps,
       ServerTakesKeeps, ServerRefusesKeeps DEF WriteStreamSteps
<1>4. CASE OnWriteStreamClose \/ IdleTimeout
    BY <1>4, StreamStepsKeep
<1>5. CASE \E u \in User : HandleCredentialChange(u)
    BY <1>5, CredentialChangeKeeps
<1>6. CASE Initialize
    BY <1>6, InitializeKeeps
<1>7. CASE \E m \in OtherWrites : OtherDeviceWrites(m)
    <2>1. PICK m \in OtherWrites : OtherDeviceWrites(m)
        BY <1>7
    <2>2. m \in Mutation /\ Takes(m)
        BY <2>1, ClientAssumption DEF OtherDeviceWrites
    <2>3. docs' \in [Key -> Doc] /\ clock' \in Nat
        BY <1>1, <2>2, TakesType
    <2> QED BY <1>1, <2>1, <2>3, WatchStepsKeep
            DEF OtherDeviceWrites, store, channels
<1>8. CASE ServerSends
    <2>1. events' \in Seq([Key -> Doc])
        BY <1>1, <1>8, AppendProperties DEF ServerSends
    <2> QED BY <1>1, <1>8, <2>1, WatchStepsKeep
            DEF ServerSends, server, store, counters
<1>9. CASE ApplyRemoteEvent
    <2>1. Head(events) \in [Key -> Doc] /\ events' \in Seq([Key -> Doc])
        BY <1>1, <1>9, HeadTailProperties DEF ApplyRemoteEvent
    <2>2. \A k \in Key : Watched(cache[k], Head(events)[k])
              \in [version : Nat, state : {"synced", "committed"}, data : Data]
        BY <1>1, <2>1 DEF Watched, Doc
    <2>3. cache' \in [Key -> [version : Nat, state : {"synced", "committed"},
                              data : Data]]
        BY <1>9, <2>2 DEF ApplyRemoteEvent
    <2> QED BY <1>1, <1>9, <2>1, <2>3, WatchStepsKeep
            DEF ApplyRemoteEvent, server, counters
<1>10. CASE OnWatchStreamClose
    <2>1. events' \in Seq([Key -> Doc])
        BY <1>10, EmptySeq DEF OnWatchStreamClose
    <2> QED BY <1>1, <1>10, <2>1, WatchStepsKeep
            DEF OnWatchStreamClose, server, store
<1>11. CASE UNCHANGED vars
    BY <1>1, <1>11, WatchStepsKeep DEF vars
<1> QED
    BY <1>2, <1>3, <1>4, <1>5, <1>6, <1>7, <1>8, <1>9, <1>10, <1>11, Zenon
    DEF Next, WatchSteps

\* In every state of the client the variables have their types; the ids of each
\* queue increase; the pipeline is the oldest part of the signed-in user's
\* queue; the answers under way are for the pipeline's first writes, in order;
\* and the write stream is started, or idle, as the pipeline needs it.
THEOREM ClientInvariant ==
    Spec => [](TypeOK /\ IdsIncrease /\ PipelineIsQueue /\ AnswersFollowPipeline
                  /\ StreamNeeded)
<1>1. IInv => TypeOK /\ IdsIncrease /\ PipelineIsQueue /\ AnswersFollowPipeline
                  /\ StreamNeeded
    BY DEF IInv
<1> QED BY <1>1, InitIInv, NextKeeps, PTL DEF Spec

\* Every variable of the client and of the server keeps its type.
THEOREM TypeCorrect == Spec => []TypeOK
<1>1. IInv => TypeOK
    BY DEF IInv
<1> QED BY <1>1, InitIInv, NextKeeps, PTL DEF Spec

\* The ids of every queue increase and are below the next one to be given, over
\* restarts and changes of user: removing a batch, and looking for the ones to
\* send, by id finds the right ones.
THEOREM IdsIncreaseHolds == Spec => []IdsIncrease
<1>1. IInv => IdsIncrease
    BY DEF IInv
<1> QED BY <1>1, InitIInv, NextKeeps, PTL DEF Spec

\* The pipeline is always the oldest part of the signed-in user's queue, however
\* streams close, users change and answers come in.
THEOREM PipelineIsQueueHolds == Spec => []PipelineIsQueue
<1>1. IInv => PipelineIsQueue
    BY DEF IInv
<1> QED BY <1>1, InitIInv, NextKeeps, PTL DEF Spec

\* A write stream that is down although writes wait is never forgotten: one of
\* the events that start it again is still to come.
THEOREM StreamNeededHolds == Spec => []StreamNeeded
<1>1. IInv => StreamNeeded
    BY DEF IInv
<1> QED BY <1>1, InitIInv, NextKeeps, PTL DEF Spec

\* The cache never goes back: an acknowledgement and a snapshot are applied only
\* when they are not older than what is cached.
LEMMA StepForward ==
    ASSUME TypeOK, [Next]_vars
    PROVE  \A k \in Key : cache'[k].version >= cache[k].version
<1>1. \A k \in Key : cache[k].version \in Nat
    BY DEF TypeOK
<1>2. CASE OnWriteStreamMutationResult
    <2>1. cache' = [cache EXCEPT ![Head(pipeline).m.key] =
                        Acknowledged(@, Head(pipeline).m, Head(responses).version)]
        BY <1>2 DEF OnWriteStreamMutationResult
    <2>2. Head(responses).version \in Nat
        <3>1. Head(responses) \in Response
            BY <1>2, HeadTailProperties DEF OnWriteStreamMutationResult, TypeOK
        <3> QED BY <3>1 DEF Response
    <2>3. \A k \in Key :
              Acknowledged(cache[k], Head(pipeline).m, Head(responses).version).version
                  >= cache[k].version
        BY <1>1, <2>2 DEF Acknowledged
    <2>4. cache \in [Key -> [version : Nat, state : {"synced", "committed"}, data : Data]]
        BY DEF TypeOK
    <2>5. \A k \in Key :
              cache'[k] = cache[k]
              \/ cache'[k] = Acknowledged(cache[k], Head(pipeline).m,
                                          Head(responses).version)
        BY <2>1, <2>4
    <2> QED BY <1>1, <2>3, <2>5
<1>3. CASE ApplyRemoteEvent
    <2>1. Head(events) \in [Key -> Doc]
        BY <1>3, HeadTailProperties DEF ApplyRemoteEvent, TypeOK
    <2>2. \A k \in Key : Watched(cache[k], Head(events)[k]).version >= cache[k].version
        BY <1>1, <2>1 DEF Watched, Doc
    <2> QED BY <1>3, <2>2 DEF ApplyRemoteEvent
<1>4. CASE cache' = cache
    BY <1>1, <1>4
<1>5. \/ OnWriteStreamMutationResult \/ ApplyRemoteEvent \/ cache' = cache
    BY DEF Next, WriteStreamSteps, WatchSteps, vars, store, server,
           WriteMutations, OnWriteStreamOpen, OnWriteStreamHandshakeComplete,
           HandleWriteError, OnWriteStreamClose, BackoffElapsed, IdleTimeout,
           HandleCredentialChange, Initialize, ServerTakes, ServerRefuses,
           OtherDeviceWrites, ServerSends, OnWatchStreamClose
<1> QED BY <1>2, <1>3, <1>4, <1>5

\* A cached document never returns to an older version.
THEOREM CacheGoesForward == Spec => CacheForward
<1>1. IInv => TypeOK
    BY DEF IInv
<1>2. TypeOK /\ [Next]_vars
          => [\A k \in Key : cache'[k].version >= cache[k].version]_vars
    BY StepForward
<1> QED BY <1>1, <1>2, InitIInv, NextKeeps, PTL DEF Spec, CacheForward

\* No snapshot and no answer on its way is ahead of the server, and a snapshot
\* as new as the server has the server's data.
NotAhead(old, new) ==
    old.version <= new.version /\ (old.version = new.version => old.data = new.data)

CInv ==
    /\ \A k \in Key : docs[k].version <= clock
    /\ \A i \in 1 .. Len(events) : \A k \in Key : NotAhead(events[i][k], docs[k])
    /\ \A i \in 1 .. Len(responses) :
          responses[i].ok => responses[i].version <= docs[pipeline[i].m.key].version
    /\ CacheHonest

\* A write at the server leaves what was sent before behind.
LEMMA TakesNotAhead ==
    ASSUME TypeOK, CInv, NEW m \in Mutation, Takes(m)
    PROVE  \A k \in Key : /\ NotAhead(docs[k], docs'[k])
                          /\ docs'[k].version <= clock'
<1>1. /\ m.key \in Key /\ docs \in [Key -> Doc] /\ clock \in Nat
      /\ \A k \in Key : docs[k].version \in Nat /\ docs[k].version <= clock
    BY DEF Mutation, TypeOK, CInv, Doc
<1>2. CASE UNCHANGED server
    BY <1>1, <1>2 DEF server, NotAhead
<1>3. CASE /\ clock' = clock + 1
           /\ docs' = [docs EXCEPT ![m.key] =
                  [version |-> clock + 1, data |-> Result(m, docs[m.key].data)]]
    BY <1>1, <1>3 DEF NotAhead
<1> QED BY <1>2, <1>3 DEF Takes

\* The order is transitive.
LEMMA NotAheadTransitive ==
    ASSUME NEW a, NEW b, NEW c,
           a.version \in Nat, b.version \in Nat, c.version \in Nat,
           NotAhead(a, b), NotAhead(b, c)
    PROVE  NotAhead(a, c)
BY DEF NotAhead

\* Steps in which the server's documents advance, or stay, and the snapshots,
\* the cache and all but the last answer stay.
LEMMA ServerKeepsCInv ==
    ASSUME IInv, CInv,
           docs' \in [Key -> Doc],
           \A k \in Key : NotAhead(docs[k], docs'[k]) /\ docs'[k].version <= clock',
           cache' = cache, pipeline' = pipeline, events' = events,
           \A i \in 1 .. Len(responses') :
               \/ i \in 1 .. Len(responses) /\ responses'[i] = responses[i]
               \/ responses'[i].ok =>
                      responses'[i].version <= docs'[pipeline[i].m.key].version
    PROVE  CInv'
<1>1. /\ TypeOK /\ AnswersFollowPipeline
      /\ docs \in [Key -> Doc] /\ events \in Seq([Key -> Doc])
      /\ responses \in Seq(Response) /\ pipeline \in Seq(Batch)
      /\ cache \in [Key -> [version : Nat, state : {"synced", "committed"},
                            data : Data]]
    BY DEF IInv, TypeOK
<1>2. \A k \in Key : docs[k].version \in Nat /\ docs'[k].version \in Nat
                     /\ cache[k].version \in Nat
    BY <1>1 DEF Doc
<1>3. \A i \in 1 .. Len(events) : \A k \in Key : NotAhead(events[i][k], docs'[k])
    <2> TAKE i \in 1 .. Len(events)
    <2> TAKE k \in Key
    <2>1. events[i] \in [Key -> Doc]
        BY <1>1, ElementOfSeq
    <2>2. events[i][k].version \in Nat /\ NotAhead(events[i][k], docs[k])
        BY <2>1 DEF Doc, CInv
    <2> QED BY <1>2, <2>2, NotAheadTransitive
<1>4. \A i \in 1 .. Len(responses') :
          responses'[i].ok => responses'[i].version <= docs'[pipeline[i].m.key].version
    <2> SUFFICES ASSUME NEW i \in 1 .. Len(responses'), responses'[i].ok,
                        i \in 1 .. Len(responses), responses'[i] = responses[i]
                 PROVE  responses'[i].version <= docs'[pipeline[i].m.key].version
        OBVIOUS
    <2>1. responses[i] \in Response /\ i \in 1 .. Len(pipeline)
        <3>1. Len(responses) \in Nat /\ Len(pipeline) \in Nat
              /\ Len(responses) <= Len(pipeline)
            BY <1>1, LenProperties DEF AnswersFollowPipeline
        <3> QED BY <1>1, <3>1, ElementOfSeq
    <2>2. pipeline[i] \in Batch
        BY <1>1, <2>1, ElementOfSeq
    <2>3. pipeline[i].m.key \in Key /\ responses[i].version \in Nat
        BY <2>1, <2>2 DEF Batch, Mutation, Response
    <2>4. responses[i].version <= docs[pipeline[i].m.key].version
        BY DEF CInv
    <2> QED BY SMTT(30), <1>2, <2>3, <2>4 DEF NotAhead
<1>5. CacheHonest'
    <2>1. \A k \in Key :
              /\ cache[k].version <= docs[k].version
              /\ cache[k].state = "synced" /\ cache[k].version = docs[k].version
                    => cache[k].data = docs[k].data
        BY DEF CInv, CacheHonest
    <2> QED BY <1>2, <2>1 DEF CacheHonest, NotAhead
<1> QED BY <1>3, <1>4, <1>5 DEF CInv

\* What a prefix of a queue has, the queue has.
LEMMA PrefixElements ==
    ASSUME NEW S, NEW q \in Seq(S), NEW p, Len(p) \in 0 .. Len(q),
           p = SubSeq(q, 1, Len(p))
    PROVE  \A i \in 1 .. Len(p) : p[i] = q[i]
<1> DEFINE n == Len(p)
<1>1. n \in Int /\ n \in 0 .. Len(q) /\ Len(q) \in Nat
    BY LenProperties
<1>2. \A i \in 1 .. n : q[i] \in S
    BY <1>1, ElementOfSeq
<1>3. p = SubSeq(q, 1, n)
    OBVIOUS
<1> HIDE DEF n
<1>4. \A i \in 1 .. n - 1 + 1 : SubSeq(q, 1, n)[i] = q[1 + i - 1]
    BY <1>1, <1>2, SubSeqProperties
<1>5. \A i \in 1 .. n : p[i] = q[i]
    BY <1>1, <1>3, <1>4
<1> QED BY <1>5 DEF n

\* A new write leaves the writes the answers are for where they are.
LEMMA AnsweredStay ==
    ASSUME IInv, IInv', NEW m \in OwnWrites, WriteMutations(m)
    PROVE  \A i \in 1 .. Len(responses) :
               i \in 1 .. Len(pipeline) /\ pipeline'[i] = pipeline[i]
<1> DEFINE b == [id |-> nextId, m |-> m]
           q == batches[user]
<1>1. /\ TypeOK /\ IdsIncrease /\ PipelineIsQueue /\ AnswersFollowPipeline
      /\ TypeOK' /\ PipelineIsQueue'
    BY DEF IInv
<1>2. /\ batches' = [batches EXCEPT ![user] = Append(q, b)]
      /\ UNCHANGED <<server, cache, user, responses, events>>
    BY DEF WriteMutations
<1>3. /\ user \in User /\ q \in Seq(Batch) /\ Len(pipeline) \in 0 .. Len(q)
      /\ Len(pipeline) <= kMaxPendingWrites
      /\ \A i \in 1 .. Len(pipeline) : pipeline[i] = q[i]
    BY <1>1, QueueFacts, Zenon
<1>4. b \in Batch
    BY <1>1, ClientAssumption DEF TypeOK, Batch
<1>5. batches'[user'] = Append(q, b)
    BY <1>1, <1>2, <1>3 DEF TypeOK
<1>6. /\ Append(q, b) \in Seq(Batch) /\ Len(Append(q, b)) = Len(q) + 1
      /\ \A i \in 1 .. Len(q) : Append(q, b)[i] = q[i]
    BY <1>3, <1>4, AppendProperties
<1>7. Len(q) \in Nat /\ kMaxPendingWrites \in Nat /\ Len(pipeline') \in Nat
    BY SMTT(30), <1>1, <1>3, ClientAssumption, LenProperties DEF TypeOK
<1> HIDE DEF q, b
<1>8. /\ Len(pipeline') \in Len(pipeline) .. Len(q) + 1
      /\ pipeline' = SubSeq(Append(q, b), 1, Len(pipeline'))
    <2>1. /\ Len(pipeline') <= kMaxPendingWrites
          /\ Len(pipeline') <= Len(Append(q, b))
          /\ pipeline' = SubSeq(Append(q, b), 1, Len(pipeline'))
          /\ Len(pipeline') < kMaxPendingWrites => Len(pipeline') = Len(Append(q, b))
        BY <1>1, <1>5, Zenon DEF PipelineIsQueue
    <2>2. Len(pipeline') \in Len(pipeline) .. Len(q) + 1
        <3> DEFINE n == Len(pipeline')
                   l == Len(pipeline)
                   c == Len(q)
        <3>1. /\ n \in Nat /\ l \in 0 .. c /\ c \in Nat /\ kMaxPendingWrites \in Nat
              /\ l <= kMaxPendingWrites
            BY <1>3, <1>7
        <3>2. n <= kMaxPendingWrites /\ n <= c + 1
              /\ (n < kMaxPendingWrites => n = c + 1)
            BY <1>6, <2>1, Zenon
        <3> HIDE DEF n, l, c
        <3>3. n \in l .. c + 1
            BY <3>1, <3>2
        <3> QED BY <3>3 DEF n, l, c
    <2> QED BY <2>1, <2>2
<1>9. \A i \in 1 .. Len(pipeline') : pipeline'[i] = Append(q, b)[i]
    <2>1. Len(pipeline') \in 0 .. Len(Append(q, b))
        BY <1>3, <1>6, <1>7, <1>8
    <2> QED BY <1>6, <1>8, <2>1, PrefixElements
<1>10. \A i \in 1 .. Len(pipeline) : pipeline'[i] = pipeline[i]
    <2> TAKE i \in 1 .. Len(pipeline)
    <2>1. i \in 1 .. Len(pipeline') /\ i \in 1 .. Len(q)
        BY <1>3, <1>7, <1>8
    <2> QED BY <1>3, <1>6, <1>9, <2>1
<1>11. \A i \in 1 .. Len(responses) : i \in 1 .. Len(pipeline)
    <2>1. Len(responses) \in Nat /\ Len(responses) <= Len(pipeline)
        BY <1>1, LenProperties DEF TypeOK, AnswersFollowPipeline
    <2> QED BY <1>3, <1>7, <2>1
<1> QED BY <1>10, <1>11

LEMMA WriteKeepsCInv ==
    ASSUME IInv, CInv, IInv', NEW m \in OwnWrites, WriteMutations(m)
    PROVE  CInv'
<1>1. responses' = responses /\ docs' = docs /\ clock' = clock
      /\ cache' = cache /\ events' = events
    BY DEF WriteMutations, server
<1> QED BY <1>1, AnsweredStay DEF CInv, CacheHonest

\* An answer goes with its write: the others stay with theirs.
LEMMA AnsweredMoveUp ==
    ASSUME IInv, IInv', OnWriteStreamMutationResult
    PROVE  \A i \in 1 .. Len(responses') :
               /\ i + 1 \in 1 .. Len(responses)
               /\ responses'[i] = responses[i + 1] /\ pipeline'[i] = pipeline[i + 1]
<1> DEFINE b == Head(pipeline)
           q == batches[user]
<1>1. /\ TypeOK /\ IdsIncrease /\ PipelineIsQueue /\ AnswersFollowPipeline
      /\ TypeOK' /\ PipelineIsQueue' /\ AnswersFollowPipeline'
      /\ responses # <<>> /\ Head(responses).ok
    BY DEF IInv, OnWriteStreamMutationResult
<1>2. /\ Without(q, b.id) = Tail(q) /\ q # <<>> /\ b \in Batch /\ pipeline # <<>>
      /\ Len(responses) \in 1 .. Len(pipeline)
    BY <1>1, HeadRemoved, Zenon
<1>3. /\ batches' = [batches EXCEPT ![user] = Tail(q)]
      /\ responses' = Tail(responses) /\ user' = user
    BY <1>2, Zenon DEF OnWriteStreamMutationResult, server
<1>4. /\ user \in User /\ q \in Seq(Batch) /\ Len(pipeline) \in 0 .. Len(q)
      /\ \A i \in 1 .. Len(pipeline) : pipeline[i] = q[i]
    BY <1>1, QueueFacts, Zenon
<1>5. /\ Tail(q) \in Seq(Batch) /\ Len(Tail(q)) = Len(q) - 1
      /\ \A i \in 1 .. Len(q) - 1 : Tail(q)[i] = q[i + 1]
    <2>1. Len(Tail(q)) = Len(q) - 1
        BY <1>2, <1>4, HeadTailProperties
    <2> QED BY <1>2, <1>4, <2>1, HeadTailProperties
<1>6. batches'[user'] = Tail(q)
    BY <1>1, <1>3, <1>4 DEF TypeOK
<1>7. /\ responses \in Seq(Response) /\ Len(responses') = Len(responses) - 1
      /\ \A i \in 1 .. Len(responses) - 1 : responses'[i] = responses[i + 1]
    <2>1. responses \in Seq(Response)
        BY <1>1 DEF TypeOK
    <2>2. Len(Tail(responses)) = Len(responses) - 1
        BY <1>1, <2>1, HeadTailProperties
    <2> QED BY <1>1, <1>3, <2>1, <2>2, HeadTailProperties
<1>8. /\ Len(q) \in Nat /\ Len(pipeline) \in Nat /\ Len(pipeline') \in Nat
      /\ Len(responses) \in Nat
    <2>1. pipeline \in Seq(Batch) /\ pipeline' \in Seq(Batch)
        BY <1>1 DEF TypeOK
    <2> QED BY <1>4, <1>7, <2>1, LenProperties
<1>9. /\ Len(pipeline') \in 0 .. Len(Tail(q))
      /\ pipeline' = SubSeq(Tail(q), 1, Len(pipeline'))
      /\ Len(responses') <= Len(pipeline')
    <2>1. /\ Len(pipeline') <= Len(Tail(q))
          /\ pipeline' = SubSeq(Tail(q), 1, Len(pipeline'))
          /\ Len(responses') <= Len(pipeline')
        BY <1>1, <1>6, Zenon DEF PipelineIsQueue, AnswersFollowPipeline
    <2> QED BY <1>5, <1>8, <2>1
<1> HIDE DEF q
<1>10. \A i \in 1 .. Len(pipeline') : pipeline'[i] = Tail(q)[i]
    BY <1>5, <1>9, PrefixElements
<1>11. \A i \in 1 .. Len(responses') :
           i + 1 \in 1 .. Len(responses) /\ pipeline'[i] = pipeline[i + 1]
    <2> TAKE i \in 1 .. Len(responses')
    <2>1. /\ i + 1 \in 1 .. Len(responses) /\ i \in 1 .. Len(pipeline')
          /\ i \in 1 .. Len(q) - 1 /\ i + 1 \in 1 .. Len(pipeline)
        BY <1>2, <1>5, <1>7, <1>8, <1>9
    <2> QED BY <1>4, <1>5, <1>10, <2>1
<1>12. \A i \in 1 .. Len(responses') : responses'[i] = responses[i + 1]
    BY <1>7, <1>8
<1> QED BY <1>11, <1>12

\* It puts at most the server's version into the cache.
LEMMA ResultKeepsCInv ==
    ASSUME IInv, CInv, IInv', OnWriteStreamMutationResult
    PROVE  CInv'
<1> DEFINE b == Head(pipeline)
<1>1. /\ TypeOK /\ responses # <<>> /\ Head(responses).ok
      /\ cache' = [cache EXCEPT ![b.m.key] =
                       Acknowledged(@, b.m, Head(responses).version)]
      /\ docs' = docs /\ clock' = clock /\ events' = events
    BY Zenon DEF IInv, OnWriteStreamMutationResult, server
<1>2. b \in Batch /\ pipeline # <<>> /\ Len(responses) \in 1 .. Len(pipeline)
    BY <1>1, HeadRemoved, Zenon
<1>3. b = pipeline[1] /\ Head(responses) = responses[1] /\ 1 \in 1 .. Len(responses)
    BY <1>1, <1>2 DEF TypeOK
<1>4. \A i \in 1 .. Len(responses') :
          responses'[i].ok => responses'[i].version <= docs'[pipeline'[i].m.key].version
    BY <1>1, AnsweredMoveUp DEF CInv
<1>5. Head(responses).version <= docs[b.m.key].version
    BY <1>1, <1>3 DEF CInv
<1>6. CacheHonest'
    <2>1. b.m.key \in Key
        <3>1. b.m \in Mutation
            BY <1>2 DEF Batch
        <3> QED BY <3>1 DEF Mutation
    <2>2. /\ cache \in [Key -> [version : Nat, state : {"synced", "committed"},
                                data : Data]]
          /\ CacheHonest
        BY <1>1 DEF TypeOK, CInv
    <2>3. \A k \in Key \ {b.m.key} : cache'[k] = cache[k]
        BY <1>1, <2>2
    <2>4. \/ cache'[b.m.key] = cache[b.m.key]
          \/ /\ cache'[b.m.key].version = Head(responses).version
             /\ cache'[b.m.key].state = "committed"
        BY <1>1, <2>1, <2>2 DEF Acknowledged
    <2>5. \A k \in Key :
              \/ cache'[k] = cache[k]
              \/ cache'[k].version <= docs[k].version /\ cache'[k].state = "committed"
        BY <1>5, <2>3, <2>4
    <2> QED BY <1>1, <2>2, <2>5 DEF CacheHonest
<1> QED BY <1>1, <1>4, <1>6 DEF CInv

\* Steps that leave the documents and the cache alone, and of the messages lose
\* some or none.
LEMMA MessagesLost ==
    ASSUME CInv, UNCHANGED <<docs, clock, cache>>,
           events' = events \/ events' = <<>>,
           responses' = <<>> \/ UNCHANGED <<responses, pipeline>>
    PROVE  CInv'
<1>1. \A i \in 1 .. Len(events') : \A k \in Key : NotAhead(events'[i][k], docs'[k])
    <2>1. CASE events' = events
        BY <2>1 DEF CInv
    <2>2. CASE events' = <<>>
        <3>1. Len(events') = 0
            BY <2>2
        <3> QED BY <3>1
    <2> QED BY <2>1, <2>2
<1>2. \A i \in 1 .. Len(responses') :
          responses'[i].ok => responses'[i].version <= docs'[pipeline'[i].m.key].version
    <2>1. CASE responses' = <<>>
        <3>1. Len(responses') = 0
            BY <2>1
        <3> QED BY <3>1
    <2>2. CASE UNCHANGED <<responses, pipeline>>
        BY <2>2 DEF CInv
    <2> QED BY <2>1, <2>2
<1>3. CacheHonest'
    BY DEF CInv, CacheHonest
<1> QED BY <1>1, <1>2, <1>3 DEF CInv

\* The server's answer carries the version its documents have.
LEMMA ServerTakesKeepsCInv ==
    ASSUME IInv, CInv, ServerTakes \/ ServerRefuses
    PROVE  CInv'
<1> DEFINE b == Head(requests)
           r == Len(responses)
<1>1. /\ TypeOK /\ requests # <<>> /\ Served
      /\ responses \in Seq(Response) /\ requests \in Seq(Batch)
      /\ docs \in [Key -> Doc]
    BY DEF IInv, TypeOK, ServerTakes, ServerRefuses
<1>2. r \in Nat /\ b = pipeline[r + 1] /\ b \in Batch
    BY <1>1, FirstRequest, HeadTailProperties
<1>3. CASE ServerTakes
    <2> DEFINE a == [ok |-> TRUE, id |-> b.id, version |-> docs'[b.m.key].version]
    <2>1. /\ Takes(b.m) /\ responses' = Append(responses, a)
          /\ cache' = cache /\ pipeline' = pipeline /\ events' = events
        BY <1>3 DEF ServerTakes, store
    <2>2. b.m \in Mutation /\ b.id \in Nat \ {0}
        BY <1>2 DEF Batch
    <2>3. docs' \in [Key -> Doc] /\ b.m.key \in Key
        BY <1>1, <2>1, <2>2, TakesType
    <2>4. a \in Response
        BY <2>2, <2>3 DEF Response, Doc
    <2>5. a.version = docs'[pipeline[r + 1].m.key].version
        BY <1>2
    <2> HIDE DEF a
    <2>6. /\ Len(responses') = r + 1 /\ responses'[r + 1] = a
          /\ \A i \in 1 .. r : responses'[i] = responses[i]
        BY <1>1, <2>1, <2>4, AppendProperties
    <2>7. docs'[pipeline[r + 1].m.key].version \in Nat
        BY <1>2, <2>3 DEF Doc
    <2>8. \A i \in 1 .. Len(responses') :
              \/ i \in 1 .. r /\ responses'[i] = responses[i]
              \/ responses'[i].ok =>
                     responses'[i].version <= docs'[pipeline[i].m.key].version
        <3> TAKE i \in 1 .. Len(responses')
        <3>1. i \in 1 .. r \/ i = r + 1
            BY <1>2, <2>6
        <3> QED BY <2>5, <2>6, <2>7, <3>1
    <2>9. \A k \in Key : NotAhead(docs[k], docs'[k]) /\ docs'[k].version <= clock'
        BY <1>1, <2>1, <2>2, TakesNotAhead
    <2> QED BY <2>1, <2>3, <2>8, <2>9, ServerKeepsCInv
<1>4. CASE ServerRefuses
    <2> DEFINE a == [ok |-> FALSE, id |-> b.id, version |-> 0]
    <2>1. /\ responses' = Append(responses, a) /\ docs' = docs /\ clock' = clock
          /\ cache' = cache /\ pipeline' = pipeline /\ events' = events
        BY <1>4 DEF ServerRefuses, store, server
    <2>2. a \in Response /\ ~a.ok
        BY <1>2 DEF Response, Batch
    <2> HIDE DEF a
    <2>3. /\ Len(responses') = r + 1 /\ responses'[r + 1] = a
          /\ \A i \in 1 .. r : responses'[i] = responses[i]
        BY <1>1, <2>1, <2>2, AppendProperties
    <2>4. \A i \in 1 .. Len(responses') :
              \/ i \in 1 .. r /\ responses'[i] = responses[i]
              \/ responses'[i].ok =>
                     responses'[i].version <= docs'[pipeline[i].m.key].version
        <3> TAKE i \in 1 .. Len(responses')
        <3>1. i \in 1 .. r \/ i = r + 1
            BY <1>2, <2>3
        <3> QED BY <2>2, <2>3, <3>1
    <2>5. \A k \in Key : NotAhead(docs[k], docs'[k]) /\ docs'[k].version <= clock'
        BY <1>1, <2>1 DEF NotAhead, CInv, Doc
    <2> QED BY <1>1, <2>1, <2>4, <2>5, ServerKeepsCInv
<1> QED BY <1>3, <1>4

LEMMA NextKeepsCInv ==
    ASSUME IInv, CInv, IInv', [Next]_vars
    PROVE  CInv'
<1>1. /\ TypeOK
      /\ docs \in [Key -> Doc] /\ clock \in Nat /\ responses \in Seq(Response)
      /\ events \in Seq([Key -> Doc])
      /\ cache \in [Key -> [version : Nat, state : {"synced", "committed"},
                            data : Data]]
    BY DEF IInv, TypeOK
<1>2. CASE \E m \in OwnWrites : WriteMutations(m)
    BY <1>2, WriteKeepsCInv
<1>3. CASE OnWriteStreamMutationResult
    BY <1>3, ResultKeepsCInv
<1>4. CASE ServerTakes \/ ServerRefuses
    BY <1>4, ServerTakesKeepsCInv
<1>5. CASE \E m \in OtherWrites : OtherDeviceWrites(m)
    <2>1. PICK m \in OtherWrites : OtherDeviceWrites(m)
        BY <1>5
    <2>2. /\ m \in Mutation /\ Takes(m)
          /\ cache' = cache /\ pipeline' = pipeline /\ events' = events
          /\ responses' = responses
        BY <2>1, ClientAssumption DEF OtherDeviceWrites, store, channels
    <2>3. docs' \in [Key -> Doc]
        BY <1>1, <2>2, TakesType
    <2>4. \A k \in Key : NotAhead(docs[k], docs'[k]) /\ docs'[k].version <= clock'
        BY <1>1, <2>2, TakesNotAhead
    <2> QED BY <2>2, <2>3, <2>4, ServerKeepsCInv
<1>6. CASE ServerSends
    <2>1. /\ docs' = docs /\ clock' = clock /\ cache' = cache
          /\ responses' = responses /\ pipeline' = pipeline
          /\ events' = Append(events, docs)
        BY <1>6 DEF ServerSends, server, store
    <2>2. /\ Len(events') = Len(events) + 1 /\ Len(events) \in Nat
          /\ events'[Len(events) + 1] = docs
          /\ \A i \in 1 .. Len(events) : events'[i] = events[i]
        BY <1>1, <2>1, AppendProperties, LenProperties
    <2>3. \A k \in Key : NotAhead(docs[k], docs[k])
        BY <1>1 DEF NotAhead, Doc
    <2>4. \A i \in 1 .. Len(events') : \A k \in Key : NotAhead(events'[i][k], docs'[k])
        <3> TAKE i \in 1 .. Len(events')
        <3>1. i \in 1 .. Len(events) \/ i = Len(events) + 1
            BY <2>2
        <3> QED BY <2>1, <2>2, <2>3, <3>1 DEF CInv
    <2> QED BY <2>1, <2>4 DEF CInv, CacheHonest
<1>7. CASE ApplyRemoteEvent
    <2> DEFINE new == Head(events)
    <2>1. /\ docs' = docs /\ clock' = clock /\ events' = Tail(events)
          /\ cache' = [k \in Key |-> Watched(cache[k], new[k])]
          /\ responses' = responses /\ pipeline' = pipeline /\ events # <<>>
        BY <1>7 DEF ApplyRemoteEvent, server
    <2>2. Len(Tail(events)) = Len(events) - 1
        BY <1>1, <2>1, HeadTailProperties
    <2>3. /\ new \in [Key -> Doc] /\ new = events[1] /\ Len(events) \in Nat
          /\ \A i \in 1 .. Len(events) - 1 : Tail(events)[i] = events[i + 1]
        BY <1>1, <2>1, <2>2, HeadTailProperties, LenProperties
    <2>4. 1 \in 1 .. Len(events)
        BY <1>1, <2>1, <2>3, EmptySeq
    <2>5. \A i \in 1 .. Len(events') : \A k \in Key : NotAhead(events'[i][k], docs'[k])
        <3> TAKE i \in 1 .. Len(events')
        <3>1. i + 1 \in 1 .. Len(events) /\ events'[i] = events[i + 1]
            BY <2>1, <2>2, <2>3
        <3> QED BY <2>1, <3>1 DEF CInv
    <2>6. \A k \in Key : NotAhead(new[k], docs[k])
        BY <2>3, <2>4 DEF CInv
    <2> HIDE DEF new
    <2>7. \A k \in Key : cache'[k] = cache[k]
                         \/ /\ cache'[k].version = new[k].version
                            /\ cache'[k].data = new[k].data
        BY <2>1 DEF Watched
    <2>8. CacheHonest'
        BY <1>1, <2>1, <2>6, <2>7 DEF CacheHonest, NotAhead, CInv
    <2> QED BY <2>1, <2>5, <2>8 DEF CInv
<1>8. \/ OnWriteStreamOpen \/ OnWriteStreamHandshakeComplete \/ HandleWriteError
      \/ OnWriteStreamClose \/ BackoffElapsed \/ IdleTimeout \/ Initialize
      \/ OnWatchStreamClose \/ UNCHANGED vars
      \/ \E u \in User : HandleCredentialChange(u)
      => /\ UNCHANGED <<docs, clock, cache>>
         /\ events' = events \/ events' = <<>>
         /\ responses' = <<>> \/ UNCHANGED <<responses, pipeline>>
    BY DEF OnWriteStreamOpen, OnWriteStreamHandshakeComplete, HandleWriteError,
           OnWriteStreamClose, BackoffElapsed, IdleTimeout, Initialize,
           OnWatchStreamClose, HandleCredentialChange, StreamsReset,
           server, store, channels, vars
<1>9. CASE \/ OnWriteStreamOpen \/ OnWriteStreamHandshakeComplete \/ HandleWriteError
           \/ OnWriteStreamClose \/ BackoffElapsed \/ IdleTimeout \/ Initialize
           \/ OnWatchStreamClose \/ UNCHANGED vars
           \/ \E u \in User : HandleCredentialChange(u)
    BY <1>8, <1>9, MessagesLost
<1> QED BY <1>2, <1>3, <1>4, <1>5, <1>6, <1>7, <1>9, Zenon
        DEF Next, WriteStreamSteps, WatchSteps

LEMMA InitCInv == Init => CInv
<1> SUFFICES ASSUME Init PROVE CInv
    OBVIOUS
<1>1. Len(events) = 0 /\ Len(responses) = 0 /\ clock = 1
    BY DEF Init
<1>2. \A k \in Key : /\ docs[k].version = 0 \/ docs[k].version = 1
                     /\ docs[k].version = 0 => docs[k].data = NoData
    <2> TAKE k \in Key
    <2>1. docs[k] = [version |-> IF Exists(FirstData[k]) THEN 1 ELSE 0,
                     data |-> FirstData[k]]
        BY DEF Init
    <2>2. CASE Exists(FirstData[k])
        BY <2>1, <2>2
    <2>3. CASE ~Exists(FirstData[k])
        <3>1. FirstData[k] = NoData
            BY <2>3, Zenon DEF Exists
        <3> HIDE DEF NoData
        <3> QED BY <2>1, <2>3, <3>1
    <2> QED BY <2>2, <2>3
<1>3. \A k \in Key : cache[k].version = 0 /\ cache[k].data = NoData
    <2> TAKE k \in Key
    <2>1. cache[k] = [version |-> 0, state |-> "synced", data |-> NoData]
        BY Zenon DEF Init
    <2> QED BY <2>1
<1>4. CacheHonest
    <2> SUFFICES ASSUME NEW k \in Key
                 PROVE  /\ cache[k].version <= docs[k].version
                        /\ cache[k].version = docs[k].version
                              => cache[k].data = docs[k].data
        BY Zenon DEF CacheHonest
    <2>1. /\ docs[k].version = 0 \/ docs[k].version = 1
          /\ docs[k].version = 0 => docs[k].data = NoData
          /\ cache[k].version = 0 /\ cache[k].data = NoData
        BY <1>2, <1>3, Zenon
    <2> QED BY <2>1
<1>5. \A k \in Key : docs[k].version <= clock
    <2> TAKE k \in Key
    <2>1. docs[k].version = 0 \/ docs[k].version = 1
        BY <1>2, Zenon
    <2> QED BY <1>1, <2>1
<1>6. 1 .. Len(events) = {} /\ 1 .. Len(responses) = {}
    BY <1>1
<1> QED BY <1>4, <1>5, <1>6, Zenon DEF CInv

\* The cache is never ahead of the server, and what the listener confirmed at
\* the server's version is the server's document.
THEOREM CacheIsHonest == Spec => []CacheHonest
<1>1. CInv => CacheHonest
    BY DEF CInv
<1>2. IInv /\ CInv /\ [Next]_vars => IInv' /\ CInv'
    BY NextKeeps, NextKeepsCInv
<1> QED BY <1>1, <1>2, InitIInv, InitCInv, PTL DEF Spec
----------------------------------------------------------------------------
(* What the app reads.                                                     *)

\* F[i] is the data of document k with the first i mutations of queue q over it.
Views(q, k, data, F) ==
    F = [i \in 0 .. Len(q) |->
            IF i = 0 THEN data
            ELSE IF q[i].m.key = k THEN Applied(q[i].m, F[i - 1])
            ELSE F[i - 1]]

\* One mutation over the data of document k.
Over(m, k, data) == IF m.key = k THEN Applied(m, data) ELSE data

\* There is such a function, by induction on how much of the queue it covers.
LEMMA ViewsExist ==
    ASSUME NEW q, Len(q) \in Nat, NEW k, NEW data
    PROVE  \E F : Views(q, k, data, F)
<1> DEFINE Upto(n, F) ==
               F = [i \in 0 .. n |->
                       IF i = 0 THEN data
                       ELSE IF q[i].m.key = k THEN Applied(q[i].m, F[i - 1])
                       ELSE F[i - 1]]
           I == {n \in Nat : \E F : Upto(n, F)}
<1>1. 0 \in I
    <2> DEFINE F == [i \in 0 .. 0 |-> data]
    <2>1. \A i \in 0 .. 0 : i = 0
        OBVIOUS
    <2>2. F = [i \in 0 .. 0 |-> IF i = 0 THEN data
                       ELSE IF q[i].m.key = k THEN Applied(q[i].m, F[i - 1])
                       ELSE F[i - 1]]
        BY <2>1
    <2> QED BY <2>2
<1>2. ASSUME NEW n \in Nat, n \in I PROVE n + 1 \in I
    <2>1. PICK F : Upto(n, F)
        BY <1>2
    <2> DEFINE v == IF q[n + 1].m.key = k THEN Applied(q[n + 1].m, F[n]) ELSE F[n]
               G == [i \in 0 .. n + 1 |-> IF i = n + 1 THEN v ELSE F[i]]
               H == [i \in 0 .. n + 1 |-> IF i = 0 THEN data
                       ELSE IF q[i].m.key = k THEN Applied(q[i].m, G[i - 1])
                       ELSE G[i - 1]]
    <2>2. \A i \in 0 .. n + 1 : G[i] = H[i]
        <3> TAKE i \in 0 .. n + 1
        <3>1. CASE i = 0
            <4>1. F[0] = data
                BY <2>1
            <4>2. G[i] = F[0] /\ H[i] = data
                BY <3>1
            <4> QED BY <4>1, <4>2
        <3>2. CASE i = n + 1
            <4>1. n \in 0 .. n + 1 /\ i # 0 /\ i - 1 = n /\ n # n + 1
                BY <3>2
            <4>2. G[n] = F[n] /\ G[i] = v
                BY <3>2, <4>1
            <4>3. H[i] = IF q[i].m.key = k THEN Applied(q[i].m, G[i - 1]) ELSE G[i - 1]
                BY <4>1
            <4> QED BY <3>2, <4>1, <4>2, <4>3
        <3>3. CASE i \in 1 .. n
            <4>1. i \in 0 .. n /\ i - 1 \in 0 .. n + 1 /\ i # 0 /\ i # n + 1
                  /\ i - 1 # n + 1
                BY <3>3
            <4>2. G[i] = F[i] /\ G[i - 1] = F[i - 1]
                BY <4>1
            <4>3. H[i] = IF q[i].m.key = k THEN Applied(q[i].m, G[i - 1]) ELSE G[i - 1]
                BY <4>1
            <4>4. F[i] = IF q[i].m.key = k THEN Applied(q[i].m, F[i - 1]) ELSE F[i - 1]
                BY <2>1, <4>1
            <4> QED BY <4>2, <4>3, <4>4
        <3> QED BY <3>1, <3>2, <3>3
    <2>3. G = H
        <3>1. G = [i \in 0 .. n + 1 |-> G[i]] /\ H = [i \in 0 .. n + 1 |-> H[i]]
            OBVIOUS
        <3> HIDE DEF G, H
        <3> QED BY <2>2, <3>1
    <2>4. Upto(n + 1, G)
        BY <2>3
    <2>5. \E E : Upto(n + 1, E)
        <3> HIDE DEF G, Upto
        <3> QED BY <2>4
    <2>6. n + 1 \in Nat
        OBVIOUS
    <2> HIDE DEF Upto
    <2> QED BY <2>5, <2>6
<1>3. \A n \in 0 .. Len(q) : n \in I
    <2> HIDE DEF I
    <2> QED BY <1>1, <1>2, SetInduction
<1>4. Len(q) \in I
    <2> HIDE DEF I
    <2> QED BY <1>3
<1> QED BY <1>4 DEF Views

\* The view is the last of them.
LEMMA OverlayIsView ==
    ASSUME NEW q, Len(q) \in Nat, NEW k, NEW data
    PROVE  \E F : Views(q, k, data, F) /\ Overlay(q, k, data) = F[Len(q)]
<1> DEFINE F == CHOOSE f : Views(q, k, data, f)
<1>1. Views(q, k, data, F)
    BY ViewsExist
<1>2. Overlay(q, k, data) = F[Len(q)]
    BY Zenon DEF Overlay, Views
<1> QED BY <1>1, <1>2

\* The first mutation of a queue may be applied to the document instead.
LEMMA OverlayOfTail ==
    ASSUME NEW q \in Seq(Batch), q # <<>>, NEW k, NEW data
    PROVE  Overlay(q, k, data) = Overlay(Tail(q), k, Over(q[1].m, k, data))
<1> DEFINE n == Len(Tail(q))
           d == Over(q[1].m, k, data)
<1>1. /\ Tail(q) \in Seq(Batch) /\ n \in Nat /\ Len(q) = n + 1
      /\ \A i \in 1 .. n : Tail(q)[i] = q[i + 1]
    <2>1. Tail(q) \in Seq(Batch) /\ Len(Tail(q)) = Len(q) - 1 /\ Len(q) \in Nat \ {0}
        BY HeadTailProperties, EmptySeq, LenProperties
    <2>2. \A i \in 1 .. Len(Tail(q)) : Tail(q)[i] = q[i + 1]
        BY <2>1, HeadTailProperties
    <2> QED BY <2>1, <2>2
<1>2. PICK F : Views(q, k, data, F) /\ Overlay(q, k, data) = F[n + 1]
    BY <1>1, OverlayIsView
<1>3. PICK G : Views(Tail(q), k, d, G) /\ Overlay(Tail(q), k, d) = G[n]
    BY <1>1, OverlayIsView
<1>4. /\ F[0] = data
      /\ \A i \in 0 .. n : F[i + 1] = Over(q[i + 1].m, k, F[i])
    <2>1. F = [i \in 0 .. n + 1 |-> IF i = 0 THEN data
                  ELSE IF q[i].m.key = k THEN Applied(q[i].m, F[i - 1]) ELSE F[i - 1]]
        BY <1>1, <1>2 DEF Views
    <2>2. 0 \in 0 .. n + 1
        BY <1>1
    <2>3. \A i \in 0 .. n : i + 1 \in 0 .. n + 1 /\ i + 1 # 0 /\ (i + 1) - 1 = i
        BY <1>1
    <2> HIDE DEF n
    <2> QED BY <2>1, <2>2, <2>3 DEF Over
<1>5. /\ G[0] = d
      /\ \A i \in 0 .. n : i < n => G[i + 1] = Over(q[i + 2].m, k, G[i])
    <2>1. G = [i \in 0 .. n |-> IF i = 0 THEN d
                  ELSE IF Tail(q)[i].m.key = k THEN Applied(Tail(q)[i].m, G[i - 1])
                  ELSE G[i - 1]]
        BY <1>3 DEF Views
    <2>2. 0 \in 0 .. n
        BY <1>1
    <2>3. \A i \in 0 .. n : i < n => /\ i + 1 \in 0 .. n /\ i + 1 # 0 /\ (i + 1) - 1 = i
                                     /\ Tail(q)[i + 1] = q[i + 2]
        BY <1>1
    <2> HIDE DEF n, d
    <2>4. G[0] = d
        BY <2>1, <2>2
    <2>5. ASSUME NEW i \in 0 .. n, i < n
          PROVE  G[i + 1] = Over(q[i + 2].m, k, G[i])
        <3>1. /\ i + 1 \in 0 .. n /\ i + 1 # 0 /\ (i + 1) - 1 = i
              /\ Tail(q)[i + 1] = q[i + 2]
            BY <2>3, <2>5
        <3>2. G[i + 1] = IF Tail(q)[i + 1].m.key = k
                         THEN Applied(Tail(q)[i + 1].m, G[(i + 1) - 1])
                         ELSE G[(i + 1) - 1]
            BY <2>1, <3>1
        <3> QED BY <3>1, <3>2, Zenon DEF Over
    <2> QED BY <2>4, <2>5
<1> HIDE DEF n, d
<1> DEFINE I == {i \in Nat : i <= n => F[i + 1] = G[i]}
<1>6. 0 \in I
    <2>1. F[0 + 1] = Over(q[0 + 1].m, k, F[0])
        BY <1>1, <1>4
    <2> QED BY <1>4, <1>5, <2>1 DEF d
<1>7. ASSUME NEW i \in Nat, i < n, i \in I PROVE i + 1 \in I
    <2>1. i \in 0 .. n /\ i + 1 \in 0 .. n /\ i + 1 + 1 = i + 2
        BY <1>1, <1>7
    <2>2. F[i + 1 + 1] = Over(q[i + 2].m, k, F[i + 1])
        BY <1>4, <2>1
    <2>3. G[i + 1] = Over(q[i + 2].m, k, G[i])
        BY <1>5, <1>7, <2>1
    <2>4. F[i + 1] = G[i]
        BY <1>7, <2>1
    <2> QED BY <2>2, <2>3, <2>4
<1>8. \A i \in 0 .. n : i \in I
    <2> HIDE DEF I
    <2> QED BY <1>1, <1>6, <1>7, SetInduction
<1>9. F[n + 1] = G[n]
    BY <1>1, <1>8
<1> QED BY <1>2, <1>3, <1>9 DEF d

\* A mutation that a document of version v has in it already.
Shows(m, v, d) == d.version = v => Result(m, d.data) = d.data

\* Wherever there is a document of version v, at the server (ds), on its way from
\* there (es) or in the cache as it came from there (ca), it has write m in it.
Shown(m, v, ds, es, ca) ==
    /\ v <= ds[m.key].version
    /\ Shows(m, v, ds[m.key])
    /\ \A i \in 1 .. Len(es) : Shows(m, v, es[i][m.key])
    /\ ca[m.key].state = "synced" => Shows(m, v, ca[m.key])

\* The version that an answer carries is one that has the write in it.
AInv ==
    \A i \in 1 .. Len(responses) :
        responses[i].ok
            => Shown(pipeline[i].m, responses[i].version, docs, events, cache)

\* A document of the server stays or gets a new version.
LEMMA TakesRenews ==
    ASSUME TypeOK, CInv, NEW m \in Mutation, Takes(m)
    PROVE  \A k \in Key : docs'[k] = docs[k] \/ docs'[k].version > docs[k].version
<1>1. /\ m.key \in Key /\ docs \in [Key -> Doc] /\ clock \in Nat
      /\ \A k \in Key : docs[k].version \in Nat /\ docs[k].version <= clock
    BY DEF Mutation, TypeOK, CInv, Doc
<1>2. CASE UNCHANGED server
    BY <1>2 DEF server
<1>3. CASE /\ clock' = clock + 1
           /\ docs' = [docs EXCEPT ![m.key] =
                  [version |-> clock + 1, data |-> Result(m, docs[m.key].data)]]
    BY <1>1, <1>3
<1> QED BY <1>2, <1>3 DEF Takes

\* What documents there are after a step: the server's are the old ones or have
\* new versions, and the others are old ones.
Passed ==
    /\ \A k \in Key : docs'[k] = docs[k] \/ docs'[k].version > docs[k].version
    /\ \A i \in 1 .. Len(events') :
          events'[i] = docs \/ \E j \in 1 .. Len(events) : events'[i] = events[j]
    /\ \A k \in Key :
          \/ cache'[k] = cache[k]
          \/ cache'[k].state = "committed"
          \/ \E j \in 1 .. Len(events) : /\ cache'[k].version = events[j][k].version
                                        /\ cache'[k].data = events[j][k].data

LEMMA StepPasses ==
    ASSUME TypeOK, CInv, [Next]_vars
    PROVE  Passed
<1>1. /\ docs \in [Key -> Doc] /\ events \in Seq([Key -> Doc])
      /\ responses \in Seq(Response) /\ requests \in Seq(Batch)
      /\ pipeline \in Seq(Batch)
      /\ cache \in [Key -> [version : Nat, state : {"synced", "committed"},
                            data : Data]]
    BY DEF TypeOK
<1>2. ASSUME UNCHANGED <<events, cache>>,
             docs' = docs \/ \E m \in Mutation : Takes(m)
      PROVE  Passed
    BY <1>2, TakesRenews DEF Passed
<1>3. CASE \/ \E m \in OwnWrites : WriteMutations(m)
           \/ OnWriteStreamOpen \/ OnWriteStreamHandshakeComplete \/ HandleWriteError
           \/ OnWriteStreamClose \/ BackoffElapsed \/ IdleTimeout \/ ServerRefuses
           \/ UNCHANGED vars
    <2>1. UNCHANGED <<events, cache, docs>>
        BY <1>3 DEF WriteMutations, OnWriteStreamOpen, OnWriteStreamHandshakeComplete,
               HandleWriteError, OnWriteStreamClose, BackoffElapsed, IdleTimeout,
               ServerRefuses, server, store, channels, vars
    <2> QED BY <1>2, <2>1
<1>4. CASE ServerTakes
    <2>1. Takes(Head(requests).m) /\ UNCHANGED <<events, cache>>
        BY <1>4 DEF ServerTakes, store
    <2>2. Head(requests) \in Batch
        BY <1>1, <1>4, HeadTailProperties DEF ServerTakes
    <2>3. Head(requests).m \in Mutation
        BY <2>2 DEF Batch
    <2> QED BY <1>2, <2>1, <2>3
<1>5. CASE \E m \in OtherWrites : OtherDeviceWrites(m)
    <2>1. PICK m \in OtherWrites : OtherDeviceWrites(m)
        BY <1>5
    <2>2. m \in Mutation /\ Takes(m) /\ UNCHANGED <<events, cache>>
        BY <2>1, ClientAssumption DEF OtherDeviceWrites, store, channels
    <2> QED BY <1>2, <2>2
<1>6. CASE Initialize \/ OnWatchStreamClose \/ \E u \in User : HandleCredentialChange(u)
    <2>1. UNCHANGED <<docs, cache>> /\ events' = <<>>
        BY <1>6 DEF Initialize, OnWatchStreamClose, HandleCredentialChange,
               StreamsReset, server, store
    <2>2. 1 .. Len(events') = {}
        BY <2>1
    <2> QED BY <2>1, <2>2 DEF Passed
<1>7. CASE OnWriteStreamMutationResult
    <2> DEFINE b == Head(pipeline)
    <2>1. /\ cache' = [cache EXCEPT ![b.m.key] =
                          Acknowledged(@, b.m, Head(responses).version)]
          /\ docs' = docs /\ events' = events
        BY <1>7, Zenon DEF OnWriteStreamMutationResult, server
    <2>2. \A k \in Key : \/ cache'[k] = cache[k]
                         \/ cache'[k] = Acknowledged(cache[k], b.m, Head(responses).version)
        BY <1>1, <2>1
    <2>3. \A k \in Key : cache'[k] = cache[k] \/ cache'[k].state = "committed"
        <3> TAKE k \in Key
        <3>1. ASSUME NEW m, NEW v
              PROVE  \/ Acknowledged(cache[k], m, v) = cache[k]
                     \/ Acknowledged(cache[k], m, v).state = "committed"
            BY DEF Acknowledged
        <3> HIDE DEF b
        <3> QED BY <2>2, <3>1
    <2>4. \A i \in 1 .. Len(events') : \E j \in 1 .. Len(events) : events'[i] = events[j]
        <3> TAKE i \in 1 .. Len(events')
        <3>1. i \in 1 .. Len(events) /\ events'[i] = events[i]
            BY <2>1
        <3> HIDE DEF b
        <3> QED BY <3>1
    <2>5. \A k \in Key : docs'[k] = docs[k]
        BY <2>1, Zenon
    <2> HIDE DEF b
    <2> QED BY <2>3, <2>4, <2>5, Zenon DEF Passed
<1>8. CASE ServerSends
    <2>1. UNCHANGED <<docs, cache>> /\ events' = Append(events, docs)
        BY <1>8 DEF ServerSends, server, store
    <2>2. /\ Len(events') = Len(events) + 1 /\ Len(events) \in Nat
          /\ events'[Len(events) + 1] = docs
          /\ \A i \in 1 .. Len(events) : events'[i] = events[i]
        BY <1>1, <2>1, AppendProperties, LenProperties
    <2>3. \A i \in 1 .. Len(events') : i \in 1 .. Len(events) \/ i = Len(events) + 1
        BY <2>2
    <2> QED BY <2>1, <2>2, <2>3 DEF Passed
<1>9. CASE ApplyRemoteEvent
    <2> DEFINE new == Head(events)
    <2>1. /\ docs' = docs /\ events' = Tail(events) /\ events # <<>>
          /\ cache' = [k \in Key |-> Watched(cache[k], new[k])]
        BY <1>9 DEF ApplyRemoteEvent, server
    <2>2. Len(Tail(events)) = Len(events) - 1 /\ Len(events) \in Nat \ {0}
        BY <1>1, <2>1, HeadTailProperties, EmptySeq, LenProperties
    <2>3. \A i \in 1 .. Len(events') : i + 1 \in 1 .. Len(events) /\ events'[i] = events[i + 1]
        BY <1>1, <2>1, <2>2, HeadTailProperties
    <2>4. new = events[1] /\ 1 \in 1 .. Len(events)
        BY <1>1, <2>1, <2>2
    <2> HIDE DEF new
    <2>5. \A k \in Key : \/ cache'[k] = cache[k]
                         \/ /\ cache'[k].version = new[k].version
                            /\ cache'[k].data = new[k].data
        BY <2>1 DEF Watched
    <2> QED BY <2>1, <2>3, <2>4, <2>5, Zenon DEF Passed
<1> QED BY <1>3, <1>4, <1>5, <1>6, <1>7, <1>8, <1>9, Zenon
        DEF Next, WriteStreamSteps, WatchSteps

\* A write that shows goes on showing.
LEMMA ShownStays ==
    ASSUME TypeOK, Passed, TypeOK', NEW m \in Mutation, NEW v \in Nat,
           Shown(m, v, docs, events, cache)
    PROVE  Shown(m, v, docs', events', cache')
<1>1. /\ m.key \in Key /\ docs[m.key].version \in Nat /\ docs'[m.key].version \in Nat
    BY DEF Mutation, TypeOK, Doc
<1>2. v <= docs'[m.key].version /\ Shows(m, v, docs'[m.key])
    BY <1>1 DEF Passed, Shown, Shows
<1>3. \A i \in 1 .. Len(events') : Shows(m, v, events'[i][m.key])
    <2> TAKE i \in 1 .. Len(events')
    <2>1. events'[i] = docs \/ \E j \in 1 .. Len(events) : events'[i] = events[j]
        BY DEF Passed
    <2>2. /\ Shows(m, v, docs[m.key])
          /\ \A j \in 1 .. Len(events) : Shows(m, v, events[j][m.key])
        BY Zenon DEF Shown
    <2> HIDE DEF Shows
    <2> QED BY <2>1, <2>2
<1>4. cache'[m.key].state = "synced" => Shows(m, v, cache'[m.key])
    <2>1. CASE cache'[m.key] = cache[m.key]
        BY <2>1 DEF Shown
    <2>2. CASE \E j \in 1 .. Len(events) : /\ cache'[m.key].version = events[j][m.key].version
                                           /\ cache'[m.key].data = events[j][m.key].data
        BY <2>2 DEF Shown, Shows
    <2> QED BY <1>1, <2>1, <2>2 DEF Passed
<1> QED BY <1>2, <1>3, <1>4 DEF Shown

\* Applying a mutation again changes nothing.
LEMMA ResultTwice ==
    ASSUME NEW m \in Mutation, NEW data \in Data
    PROVE  Result(m, Result(m, data)) = Result(m, data)
<1>1. CASE m.kind = "set"
    BY <1>1 DEF Result
<1>2. CASE m.kind # "set"
    <2> DEFINE r == [f \in Field |-> IF m.patch[f] = None THEN data[f] ELSE m.patch[f]]
    <2>1. Result(m, data) = r
        BY <1>2 DEF Result
    <2>2. Result(m, r) = [f \in Field |-> IF m.patch[f] = None THEN r[f] ELSE m.patch[f]]
        BY <1>2 DEF Result
    <2> QED BY <2>1, <2>2
<1> QED BY <1>1, <1>2

\* The answer to a write that the server has just taken.
LEMMA TakenIsShown ==
    ASSUME TypeOK, TypeOK', CInv', NEW m \in Mutation, Takes(m)
    PROVE  Shown(m, docs'[m.key].version, docs', events', cache')
<1> DEFINE d == docs'[m.key]
<1>1. /\ m.key \in Key /\ docs \in [Key -> Doc] /\ docs[m.key].data \in Data
      /\ d \in Doc /\ d.version \in Nat
    BY DEF Mutation, TypeOK, Doc
<1>2. Result(m, d.data) = d.data
    <2>1. d.data = Result(m, docs[m.key].data)
        BY <1>1 DEF Takes, server
    <2> QED BY <1>1, <2>1, ResultTwice
<1>3. \A i \in 1 .. Len(events') : Shows(m, d.version, events'[i][m.key])
    BY <1>1, <1>2 DEF CInv, NotAhead, Shows
<1>4. cache'[m.key].state = "synced" => Shows(m, d.version, cache'[m.key])
    BY <1>1, <1>2 DEF CInv, CacheHonest, Shows
<1>5. d.version <= d.version /\ Shows(m, d.version, d)
    BY <1>1, <1>2 DEF Shows
<1> QED BY <1>3, <1>4, <1>5, Zenon DEF Shown

\* Every answer keeps its write, and a new one is of a write just taken.
LEMMA NextKeepsAInv ==
    ASSUME IInv, CInv, AInv, IInv', CInv', [Next]_vars
    PROVE  AInv'
<1> DEFINE Here(i) == responses'[i].ok
                         => Shown(pipeline'[i].m, responses'[i].version,
                                  docs', events', cache')
<1>1. /\ TypeOK /\ TypeOK' /\ AnswersFollowPipeline
      /\ responses \in Seq(Response) /\ pipeline \in Seq(Batch)
      /\ requests \in Seq(Batch)
    BY DEF IInv, TypeOK
<1>2. Passed
    BY <1>1, StepPasses
<1>3. ASSUME NEW j \in 1 .. Len(responses), NEW i,
             responses'[i] = responses[j], pipeline'[i] = pipeline[j]
      PROVE  Here(i)
    <2>1. j \in 1 .. Len(pipeline)
        <3>1. /\ Len(responses) \in Nat /\ Len(pipeline) \in Nat
              /\ Len(responses) <= Len(pipeline)
            BY <1>1, LenProperties DEF AnswersFollowPipeline
        <3> QED BY <3>1
    <2>2. responses[j] \in Response /\ pipeline[j] \in Batch
        BY <1>1, <2>1, ElementOfSeq
    <2>3. pipeline[j].m \in Mutation /\ responses[j].version \in Nat
        BY <2>2 DEF Response, Batch
    <2>4. responses[j].ok
              => Shown(pipeline[j].m, responses[j].version, docs, events, cache)
        BY DEF AInv
    <2>5. responses[j].ok
              => Shown(pipeline[j].m, responses[j].version, docs', events', cache')
        BY <1>1, <1>2, <2>3, <2>4, ShownStays
    <2> QED BY <1>3, <2>5
<1>4. CASE responses' = <<>>
    <2>1. 1 .. Len(responses') = {}
        BY <1>4
    <2> QED BY <2>1 DEF AInv
<1>5. CASE UNCHANGED <<responses, pipeline>>
    <2>1. \A i \in 1 .. Len(responses') : Here(i)
        <3> HIDE DEF Here
        <3> QED BY <1>3, <1>5
    <2> QED BY <2>1 DEF AInv
<1>6. CASE \E m \in OwnWrites : WriteMutations(m)
    <2>1. /\ responses' = responses
          /\ \A i \in 1 .. Len(responses) : pipeline'[i] = pipeline[i]
        BY <1>6, AnsweredStay DEF WriteMutations
    <2>2. \A i \in 1 .. Len(responses') : Here(i)
        <3> HIDE DEF Here
        <3> QED BY <1>3, <2>1
    <2> QED BY <2>2 DEF AInv
<1>7. CASE OnWriteStreamMutationResult
    <2>1. \A i \in 1 .. Len(responses') :
              /\ i + 1 \in 1 .. Len(responses)
              /\ responses'[i] = responses[i + 1] /\ pipeline'[i] = pipeline[i + 1]
        BY <1>7, AnsweredMoveUp
    <2>2. \A i \in 1 .. Len(responses') : Here(i)
        <3> HIDE DEF Here
        <3> QED BY <1>3, <2>1
    <2> QED BY <2>2 DEF AInv
<1>8. ASSUME NEW a \in Response, responses' = Append(responses, a),
             pipeline' = pipeline, Here(Len(responses) + 1)
      PROVE  AInv'
    <2>1. /\ Len(responses') = Len(responses) + 1 /\ Len(responses) \in Nat
          /\ \A i \in 1 .. Len(responses) : responses'[i] = responses[i]
        BY <1>1, <1>8, AppendProperties, LenProperties
    <2>2. \A i \in 1 .. Len(responses') :
              i \in 1 .. Len(responses) \/ i = Len(responses) + 1
        BY <2>1
    <2>3. \A i \in 1 .. Len(responses') : Here(i)
        <3> HIDE DEF Here
        <3> QED BY <1>3, <1>8, <2>1, <2>2
    <2> QED BY <2>3 DEF AInv
<1>9. CASE ServerTakes \/ ServerRefuses
    <2> DEFINE b == Head(requests)
               n == Len(responses) + 1
    <2>1. /\ requests # <<>> /\ Served /\ b \in Batch /\ b = pipeline[n]
          /\ pipeline' = pipeline /\ Len(responses) \in Nat
        BY <1>1, <1>9, FirstRequest, HeadTailProperties DEF ServerTakes, ServerRefuses
    <2>2. b.m \in Mutation /\ b.m.key \in Key /\ b.id \in Nat \ {0}
        BY <2>1 DEF Batch, Mutation
    <2>3. CASE ServerTakes
        <3> DEFINE a == [ok |-> TRUE, id |-> b.id, version |-> docs'[b.m.key].version]
        <3>1. Takes(b.m) /\ responses' = Append(responses, a)
            BY <2>3 DEF ServerTakes
        <3>2. a \in Response
            BY <1>1, <2>2 DEF TypeOK, Doc, Response
        <3>3. Shown(b.m, docs'[b.m.key].version, docs', events', cache')
            BY <1>1, <2>2, <3>1, TakenIsShown
        <3>4. responses'[n] = a
            <4> HIDE DEF a
            <4> QED BY <1>1, <3>1, <3>2, AppendProperties
        <3>5. Here(n)
            <4>1. pipeline'[n].m = b.m /\ responses'[n].version = docs'[b.m.key].version
                BY <2>1, <3>4
            <4> QED BY <3>3, <4>1
        <3> HIDE DEF a, Here
        <3> QED BY <1>8, <2>1, <3>1, <3>2, <3>5
    <2>4. CASE ServerRefuses
        <3> DEFINE a == [ok |-> FALSE, id |-> b.id, version |-> 0]
        <3>1. responses' = Append(responses, a)
            BY <2>4 DEF ServerRefuses
        <3>2. a \in Response /\ ~a.ok
            BY <2>2 DEF Response
        <3> HIDE DEF a
        <3>3. responses'[n] = a
            BY <1>1, <3>1, <3>2, AppendProperties
        <3>4. Here(n)
            BY <3>2, <3>3
        <3> HIDE DEF Here
        <3> QED BY <1>8, <2>1, <3>1, <3>2, <3>4
    <2> QED BY <1>9, <2>3, <2>4
<1>10. \/ OnWriteStreamOpen \/ OnWriteStreamHandshakeComplete \/ HandleWriteError
       \/ OnWriteStreamClose \/ BackoffElapsed \/ IdleTimeout \/ Initialize
       \/ OnWatchStreamClose \/ UNCHANGED vars \/ WatchSteps
       \/ \E m \in OtherWrites : OtherDeviceWrites(m)
       \/ \E u \in User : HandleCredentialChange(u)
       => responses' = <<>> \/ UNCHANGED <<responses, pipeline>>
    BY DEF OnWriteStreamOpen, OnWriteStreamHandshakeComplete, HandleWriteError,
           OnWriteStreamClose, BackoffElapsed, IdleTimeout, Initialize,
           OnWatchStreamClose, OtherDeviceWrites, WatchSteps, ServerSends,
           ApplyRemoteEvent, HandleCredentialChange, StreamsReset, channels, vars
<1> HIDE DEF Here
<1> QED BY <1>4, <1>5, <1>6, <1>7, <1>9, <1>10, Zenon
        DEF Next, WriteStreamSteps

LEMMA InitAInv == Init => AInv
<1> SUFFICES ASSUME Init PROVE AInv
    OBVIOUS
<1>1. 1 .. Len(responses) = {}
    BY DEF Init
<1> QED BY <1>1 DEF AInv

\* What an answer does to the document of its write is what the write did to it
\* in the view.
LEMMA AnswerIsWrite ==
    ASSUME NEW m \in Mutation, NEW v \in Nat,
           NEW doc \in [version : Nat, state : {"synced", "committed"}, data : Data],
           \/ doc.version < v
           \/ doc.version = v /\ Shows(m, v, doc)
    PROVE  Acknowledged(doc, m, v).data = Applied(m, doc.data)
<1>1. CASE doc.version < v
    <2>1. ~Precondition(m, doc.data) => doc.data = NoData
        BY DEF Precondition, Exists
    <2>2. Acknowledged(doc, m, v).data
              = IF Precondition(m, doc.data) THEN Result(m, doc.data) ELSE NoData
        BY <1>1 DEF Acknowledged
    <2> HIDE DEF NoData
    <2> QED BY <2>1, <2>2 DEF Applied
<1>2. CASE doc.version = v /\ Shows(m, v, doc)
    <2>1. Acknowledged(doc, m, v) = doc
        BY <1>2 DEF Acknowledged
    <2> QED BY <1>2, <2>1 DEF Applied, Shows
<1> QED BY <1>1, <1>2

LEMMA AnswerKeepsView ==
    ASSUME IInv, AInv, OnWriteStreamMutationResult,
           LET doc == cache[Head(pipeline).m.key]
           IN  \/ doc.version < Head(responses).version
               \/ doc.version = Head(responses).version /\ doc.state = "synced",
           NEW k \in Key
    PROVE  LocalView(k)' = LocalView(k)
<1> DEFINE b == Head(pipeline)
           q == batches[user]
           v == Head(responses).version
<1>1. /\ TypeOK /\ responses # <<>> /\ Head(responses).ok
      /\ IdsIncrease /\ PipelineIsQueue
    BY DEF IInv, OnWriteStreamMutationResult
<1>2. /\ user \in User /\ q \in Seq(Batch) /\ q # <<>> /\ b = q[1] /\ b \in Batch
      /\ Without(q, b.id) = Tail(q) /\ pipeline # <<>>
      /\ Len(responses) \in 1 .. Len(pipeline)
    BY <1>1, HeadRemoved, QueueFacts, Zenon
<1>3. /\ cache' = [cache EXCEPT ![b.m.key] = Acknowledged(@, b.m, v)]
      /\ batches' = [batches EXCEPT ![user] = Tail(q)]
      /\ user' = user
    BY <1>2, Zenon DEF OnWriteStreamMutationResult
<1>4. /\ b.m \in Mutation /\ b.m.key \in Key
      /\ cache \in [Key -> [version : Nat, state : {"synced", "committed"},
                            data : Data]]
      /\ responses \in Seq(Response) /\ pipeline \in Seq(Batch)
    BY <1>1, <1>2 DEF TypeOK, Batch, Mutation
<1>5. /\ b = pipeline[1] /\ Head(responses) = responses[1]
      /\ 1 \in 1 .. Len(responses) /\ v \in Nat
    <2>1. 1 \in 1 .. Len(responses) /\ Head(responses) = responses[1] /\ b = pipeline[1]
        BY <1>1, <1>2, <1>4
    <2>2. responses[1] \in Response
        BY <1>4, <2>1, ElementOfSeq
    <2> QED BY <2>1, <2>2 DEF Response
<1>6. Shown(b.m, v, docs, events, cache)
    BY <1>1, <1>5 DEF AInv
<1>7. Acknowledged(cache[b.m.key], b.m, v).data = Applied(b.m, cache[b.m.key].data)
    <2> DEFINE doc == cache[b.m.key]
    <2>1. doc.version < v \/ (doc.version = v /\ doc.state = "synced")
        OBVIOUS
    <2>2. doc \in [version : Nat, state : {"synced", "committed"}, data : Data]
        BY <1>4
    <2>3. doc.state = "synced" => Shows(b.m, v, doc)
        BY <1>6, Zenon DEF Shown
    <2> HIDE DEF doc, v, b
    <2> QED BY <1>4, <1>5, <2>1, <2>2, <2>3, AnswerIsWrite DEF doc
<1>8. cache'[k].data = Over(b.m, k, cache[k].data)
    <2>1. CASE k = b.m.key
        <3>1. cache'[k] = Acknowledged(cache[k], b.m, v)
            BY <1>3, <1>4, <2>1
        <3> QED BY <1>7, <2>1, <3>1 DEF Over
    <2>2. CASE k # b.m.key
        <3>1. cache'[k] = cache[k]
            BY <1>3, <1>4, <2>2
        <3> QED BY <2>2, <3>1 DEF Over
    <2> QED BY <2>1, <2>2
<1>9. LocalView(k) = Overlay(Tail(q), k, Over(b.m, k, cache[k].data))
    <2>1. Overlay(q, k, cache[k].data)
              = Overlay(Tail(q), k, Over(q[1].m, k, cache[k].data))
        BY <1>2, OverlayOfTail
    <2> QED BY <1>2, <2>1, Zenon DEF LocalView
<1>10. LocalView(k)' = Overlay(Tail(q), k, cache'[k].data)
    <2>1. batches'[user'] = Tail(q)
        BY <1>1, <1>2, <1>3 DEF TypeOK
    <2> QED BY <2>1, Zenon DEF LocalView
<1> QED BY <1>8, <1>9, <1>10, Zenon

\* An answer does not change what the app reads, unless the listener knows better
\* or another answer has put this version into the cache.
THEOREM NoFlickerHolds == Spec => NoFlicker
<1>1. IInv /\ CInv /\ AInv /\ [Next]_vars => IInv' /\ CInv' /\ AInv'
    BY NextKeeps, NextKeepsCInv, NextKeepsAInv
<1>2. IInv /\ AInv
          => ((/\ OnWriteStreamMutationResult
               /\ LET doc == cache[Head(pipeline).m.key]
                  IN  \/ doc.version < Head(responses).version
                      \/ doc.version = Head(responses).version /\ doc.state = "synced")
                  => \A k \in Key : LocalView(k)' = LocalView(k))
    BY AnswerKeepsView
<1> QED BY <1>1, <1>2, InitIInv, InitCInv, InitAInv, PTL DEF Spec, NoFlicker
----------------------------------------------------------------------------
(* What Firestore promises.                                                *)

\* The state of the replica.
Writes(q) == [i \in 1 .. Len(q) |-> q[i].m]
Contents == [k \in Key |-> docs[k].data]
Pending == [u \in User |-> Writes(batches[u])]
Taken == [u \in User |-> TakenOf(u)]

LEMMA WritesType ==
    ASSUME NEW q \in Seq(Batch)
    PROVE  /\ Writes(q) \in Seq(Mutation) /\ Len(Writes(q)) = Len(q)
           /\ \A i \in 1 .. Len(q) : Writes(q)[i] = q[i].m
<1>1. Len(q) \in Nat /\ \A i \in 1 .. Len(q) : q[i].m \in Mutation
    <2>1. \A i \in 1 .. Len(q) : q[i] \in Batch
        BY ElementOfSeq
    <2> QED BY <2>1, LenProperties DEF Batch
<1> QED BY <1>1 DEF Writes

LEMMA WritesAppend ==
    ASSUME NEW q \in Seq(Batch), NEW b \in Batch
    PROVE  Writes(Append(q, b)) = Append(Writes(q), b.m)
<1> DEFINE f == Append(q, b)
           s == Writes(q)
           t == Append(s, b.m)
<1>1. /\ f \in Seq(Batch) /\ Len(q) \in Nat /\ Len(f) = Len(q) + 1
      /\ f[Len(q) + 1] = b
      /\ \A i \in 1 .. Len(q) : f[i] = q[i]
    BY AppendProperties, LenProperties
<1>2. /\ s \in Seq(Mutation) /\ Len(s) = Len(q)
      /\ \A i \in 1 .. Len(q) : s[i] = q[i].m
    BY WritesType
<1>3. /\ Writes(f) \in Seq(Mutation) /\ Len(Writes(f)) = Len(f)
      /\ \A i \in 1 .. Len(f) : Writes(f)[i] = f[i].m
    BY <1>1, WritesType
<1>4. b.m \in Mutation
    BY DEF Batch
<1> HIDE DEF f, s
<1>5. /\ t \in Seq(Mutation) /\ Len(t) = Len(q) + 1 /\ t[Len(q) + 1] = b.m
      /\ \A i \in 1 .. Len(q) : t[i] = s[i]
    BY <1>2, <1>4, AppendProperties
<1> HIDE DEF t
<1>6. \A i \in 1 .. Len(t) : t[i] = Writes(f)[i]
    <2> TAKE i \in 1 .. Len(t)
    <2>1. i \in 1 .. Len(q) \/ i = Len(q) + 1
        BY <1>1, <1>5
    <2> QED BY <1>1, <1>2, <1>3, <1>5, <2>1
<1>7. t = Writes(f)
    BY <1>1, <1>3, <1>5, <1>6, SeqEqual
<1> QED BY <1>7 DEF f, s, t

LEMMA WritesTail ==
    ASSUME NEW q \in Seq(Batch), q # <<>>
    PROVE  Writes(q) # <<>> /\ Writes(Tail(q)) = Tail(Writes(q))
<1> DEFINE f == Tail(q)
           s == Writes(q)
           t == Tail(s)
<1>1. Len(f) = Len(q) - 1
    BY HeadTailProperties
<1>2. /\ f \in Seq(Batch) /\ Len(q) \in Nat \ {0}
      /\ \A i \in 1 .. Len(f) : f[i] = q[i + 1]
    BY HeadTailProperties, EmptySeq
<1>3. /\ s \in Seq(Mutation) /\ Len(s) = Len(q)
      /\ \A i \in 1 .. Len(q) : s[i] = q[i].m
    BY WritesType
<1>4. /\ Writes(f) \in Seq(Mutation) /\ Len(Writes(f)) = Len(f)
      /\ \A i \in 1 .. Len(f) : Writes(f)[i] = f[i].m
    BY <1>2, WritesType
<1> HIDE DEF f, s
<1>5. s # <<>>
    BY <1>2, <1>3, EmptySeq
<1>6. /\ t \in Seq(Mutation) /\ Len(t) = Len(q) - 1
      /\ \A i \in 1 .. Len(t) : t[i] = s[i + 1]
    BY <1>3, <1>5, HeadTailProperties
<1> HIDE DEF t
<1>7. \A i \in 1 .. Len(t) : t[i] = Writes(f)[i]
    <2> TAKE i \in 1 .. Len(t)
    <2>1. i \in 1 .. Len(f) /\ i + 1 \in 1 .. Len(q)
        BY <1>1, <1>2, <1>6
    <2> QED BY <1>2, <1>3, <1>4, <1>6, <2>1
<1>8. t = Writes(f)
    BY <1>1, <1>4, <1>6, <1>7, SeqEqual
<1> QED BY <1>5, <1>8 DEF f, s, t

\* A change of one user's queue.
LEMMA PendingChanged ==
    ASSUME TypeOK, NEW q, batches' = [batches EXCEPT ![user] = q]
    PROVE  Pending' = [Pending EXCEPT ![user] = Writes(q)]
<1>1. /\ user \in User /\ batches \in [User -> Seq(Batch)]
    BY DEF TypeOK
<1>2. \A u \in User : Writes(batches[u])' = IF u = user THEN Writes(q) ELSE Writes(batches[u])
    <2> TAKE u \in User
    <2>1. CASE u = user
        <3>1. batches'[u] = q
            BY <1>1, <2>1
        <3> QED BY <2>1, <3>1 DEF Writes
    <2>2. CASE u # user
        <3>1. batches'[u] = batches[u]
            BY <1>1, <2>2
        <3> QED BY <2>2, <3>1 DEF Writes
    <2> QED BY <2>1, <2>2
<1> QED BY <1>2 DEF Pending

\* How much of the queue is taken, of the signed-in user and of the others.
LEMMA TakenFacts ==
    ASSUME TypeOK
    PROVE  /\ Taken[user] = IF responses = <<>> THEN 0
                            ELSE IF responses[Len(responses)].ok THEN Len(responses)
                            ELSE Len(responses) - 1
           /\ \A u \in User \ {user} : Taken[u] = 0
    BY DEF TypeOK, Taken, TakenOf

LEMMA TakenFactsAfter ==
    ASSUME TypeOK'
    PROVE  /\ Taken'[user'] = IF responses' = <<>> THEN 0
                              ELSE IF responses'[Len(responses')].ok
                              THEN Len(responses') ELSE Len(responses') - 1
           /\ \A u \in User \ {user'} : Taken'[u] = 0
    BY DEF TypeOK, Taken, TakenOf

LEMMA AnswerLost ==
    ASSUME TypeOK, TypeOK', responses' = <<>>
    PROVE  Taken' = [Taken EXCEPT ![user] = 0]
<1>1. user \in User /\ user' \in User
    BY DEF TypeOK
<1>2. \A u \in User : TakenOf(u)' = 0
    BY DEF TakenOf
<1>3. \A u \in User \ {user} : TakenOf(u) = 0
    BY DEF TakenOf
<1> QED BY <1>1, <1>2, <1>3 DEF Taken

LEMMA AnswersSame ==
    ASSUME UNCHANGED <<user, responses>>
    PROVE  Taken' = Taken
    BY DEF Taken, TakenOf

LEMMA ContentsSame ==
    ASSUME UNCHANGED docs
    PROVE  Contents' = Contents
    BY DEF Contents

LEMMA PendingSame ==
    ASSUME UNCHANGED batches
    PROVE  Pending' = Pending
    BY DEF Pending, Writes

LEMMA ContentsTaken ==
    ASSUME TypeOK, NEW m \in Mutation, Takes(m)
    PROVE  Contents' = EffectOn(m, Contents)
<1>1. m.key \in Key /\ docs \in [Key -> Doc]
    BY DEF Mutation, TypeOK
<1> DEFINE data == Result(m, docs[m.key].data)
<1>2. Contents[m.key] = docs[m.key].data
    BY <1>1 DEF Contents
<1>3. EffectOn(m, Contents) = [Contents EXCEPT ![m.key] = data]
    BY <1>1, <1>2, Zenon DEF EffectOn
<1>4. CASE data = docs[m.key].data
    <2>1. docs' = docs
        BY <1>4 DEF Takes, server
    <2> QED BY <1>1, <1>2, <1>3, <1>4, <2>1 DEF Contents
<1>5. CASE data # docs[m.key].data
    <2>1. docs' = [docs EXCEPT ![m.key] = [version |-> clock + 1, data |-> data]]
        BY <1>5 DEF Takes
    <2> HIDE DEF data
    <2>2. \A k \in Key : docs'[k].data = IF k = m.key THEN data ELSE docs[k].data
        BY <1>1, <2>1
    <2> QED BY <1>1, <1>3, <2>2 DEF Contents
<1> QED BY <1>4, <1>5

LEMMA HoldsHere ==
    ASSUME TypeOK, NEW m \in Mutation, Precondition(m, docs[m.key].data)
    PROVE  HoldsIn(m, Contents)
<1>1. Contents[m.key] = docs[m.key].data
    BY DEF Mutation, Contents
<1> QED BY <1>1 DEF HoldsIn

LEMMA WriteIssues ==
    ASSUME TypeOK, NEW m \in OwnWrites, WriteMutations(m),
           NEW w \in User, w = user
    PROVE  Promise!Issue(w, m)
<1> DEFINE b == [id |-> nextId, m |-> m]
           q == batches[user]
<1>1. /\ batches' = [batches EXCEPT ![user] = Append(q, b)]
      /\ docs' = docs /\ user' = user /\ responses' = responses
    BY DEF WriteMutations, server
<1>2. user \in User /\ q \in Seq(Batch) /\ b \in Batch /\ b.m = m
    BY ClientAssumption DEF TypeOK, Batch
<1>3. Pending' = [Pending EXCEPT ![user] = Append(@, m)]
    <2> HIDE DEF b
    <2>1. Pending' = [Pending EXCEPT ![user] = Writes(Append(q, b))]
        BY <1>1, PendingChanged
    <2>2. Writes(Append(q, b)) = Append(Writes(q), m)
        BY <1>2, WritesAppend
    <2>3. Pending[user] = Writes(q)
        BY <1>2 DEF Pending
    <2> QED BY <2>1, <2>2, <2>3
<1>4. Contents' = Contents /\ Taken' = Taken
    BY <1>1, ContentsSame, AnswersSame
<1> QED BY <1>3, <1>4 DEF Promise!Issue, Contents, Pending, Taken, Writes

LEMMA ResultConfirms ==
    ASSUME IInv, IInv', OnWriteStreamMutationResult,
           NEW w \in User, w = user
    PROVE  Promise!Confirm(w)
<1> DEFINE q == batches[user]
           r == Len(responses)
<1>1. /\ TypeOK /\ TypeOK' /\ AnswersFollowPipeline
      /\ responses # <<>> /\ Head(responses).ok
    BY DEF IInv, OnWriteStreamMutationResult
<1>2. Without(q, Head(pipeline).id) = Tail(q) /\ q # <<>>
    BY <1>1, HeadRemoved, Zenon
<1>3. /\ batches' = [batches EXCEPT ![user] = Tail(q)]
      /\ responses' = Tail(responses) /\ docs' = docs /\ user' = user
    BY <1>2, Zenon DEF OnWriteStreamMutationResult, server
<1>4. user \in User /\ q \in Seq(Batch) /\ responses \in Seq(Response)
    BY <1>1 DEF TypeOK
<1>5. Len(Tail(responses)) = r - 1
    BY <1>1, <1>4, HeadTailProperties
<1>6. /\ r \in Nat \ {0} /\ Head(responses) = responses[1]
      /\ \A i \in 1 .. r - 1 : Tail(responses)[i] = responses[i + 1]
    BY <1>1, <1>4, <1>5, HeadTailProperties, EmptySeq
<1>7. Tail(responses) = <<>> <=> r = 1
    <2>1. Tail(responses) \in Seq(Response)
        BY <1>1, <1>4, HeadTailProperties
    <2>2. Tail(responses) # <<>> => Len(Tail(responses)) \in Nat \ {0}
        BY <2>1, EmptySeq
    <2>3. Tail(responses) = <<>> => Len(Tail(responses)) = 0
        BY Zenon, EmptySeq
    <2> QED BY <1>5, <1>6, <2>2, <2>3
<1> HIDE DEF r
<1>8. /\ Taken[user] = IF responses[r].ok THEN r ELSE r - 1
      /\ \A u \in User \ {user} : Taken[u] = 0
    BY <1>1, TakenFacts DEF r
<1>9. /\ Taken'[user] = IF r = 1 THEN 0
                        ELSE IF responses[r].ok THEN r - 1 ELSE r - 2
      /\ \A u \in User \ {user} : Taken'[u] = 0
    <2>1. /\ Taken'[user] = IF responses' = <<>> THEN 0
                            ELSE IF responses'[Len(responses')].ok
                            THEN Len(responses') ELSE Len(responses') - 1
          /\ \A u \in User \ {user} : Taken'[u] = 0
        BY <1>1, <1>3, TakenFactsAfter
    <2>2. r # 1 => responses'[r - 1] = responses[r]
        <3>1. r # 1 => r - 1 \in 1 .. r - 1 /\ r - 1 + 1 = r
            BY <1>6
        <3> QED BY <1>3, <1>6, <3>1
    <2>3. Len(responses') = r - 1 /\ (responses' = <<>> <=> r = 1)
        BY <1>3, <1>5, <1>7
    <2> QED BY <1>6, <2>1, <2>2, <2>3
<1>10. /\ Taken[user] > 0
       /\ Taken' = [Taken EXCEPT ![user] = @ - 1]
    <2>1. r = 1 => responses[r].ok
        BY <1>1, <1>6
    <2>2. Taken[user] > 0 /\ Taken'[user] = Taken[user] - 1
        BY <1>6, <1>8, <1>9, <2>1
    <2>3. Taken = [u \in User |-> Taken[u]] /\ Taken' = [u \in User |-> Taken'[u]]
        BY DEF Taken
    <2>4. \A u \in User : Taken'[u] = [Taken EXCEPT ![user] = @ - 1][u]
        BY <1>4, <1>8, <1>9, <2>2, <2>3
    <2> QED BY <2>2, <2>3, <2>4
<1>11. Pending' = [Pending EXCEPT ![user] = Tail(@)]
    <2>1. Pending' = [Pending EXCEPT ![user] = Writes(Tail(q))]
        BY <1>1, <1>3, PendingChanged
    <2>2. Writes(Tail(q)) = Tail(Writes(q)) /\ Pending[user] = Writes(q)
        BY <1>2, <1>4, WritesTail DEF Pending
    <2> QED BY <2>1, <2>2
<1>12. Contents' = Contents
    BY <1>3, ContentsSame
<1> QED BY <1>10, <1>11, <1>12 DEF Promise!Confirm, Contents, Pending, Taken, Writes

LEMMA ErrorRefuses ==
    ASSUME IInv, IInv', HandleWriteError,
           NEW w \in User, w = user
    PROVE  Promise!Refuse(w)
<1> DEFINE q == batches[user]
           r == Len(responses)
<1>1. /\ TypeOK /\ TypeOK' /\ AnswersFollowPipeline
      /\ responses # <<>> /\ ~Head(responses).ok
    BY DEF IInv, HandleWriteError
<1>2. Without(q, Head(pipeline).id) = Tail(q) /\ q # <<>>
    BY <1>1, HeadRemoved, Zenon
<1>3. /\ batches' = [batches EXCEPT ![user] = Tail(q)]
      /\ responses' = <<>> /\ docs' = docs /\ user' = user
    BY <1>2, Zenon DEF HandleWriteError, server
<1>4. user \in User /\ q \in Seq(Batch) /\ responses \in Seq(Response)
    BY <1>1 DEF TypeOK
<1>5. r \in Nat \ {0} /\ Head(responses) = responses[1]
    BY <1>1, <1>4, EmptySeq
<1>6. r = 1
    <2>1. 1 \in 1 .. r /\ ~responses[1].ok
        BY <1>1, <1>5
    <2> QED BY <1>1, <2>1, Zenon DEF AnswersFollowPipeline
<1>7. Taken[user] = 0
    BY <1>1, <1>5, <1>6, TakenFacts
<1>8. Taken' = Taken
    <2>1. Taken' = [Taken EXCEPT ![user] = 0]
        BY <1>1, <1>3, AnswerLost
    <2>2. Taken = [u \in User |-> Taken[u]]
        BY DEF Taken
    <2> HIDE DEF r
    <2> QED BY <1>4, <1>7, <2>1, <2>2
<1>9. /\ Pending' = [Pending EXCEPT ![user] = Tail(@)]
      /\ Pending[user] # <<>>
    <2>1. Pending' = [Pending EXCEPT ![user] = Writes(Tail(q))]
        BY <1>1, <1>3, PendingChanged
    <2>2. Writes(Tail(q)) = Tail(Writes(q)) /\ Pending[user] = Writes(q)
          /\ Writes(q) # <<>>
        BY <1>2, <1>4, WritesTail DEF Pending
    <2> QED BY <2>1, <2>2
<1>10. Contents' = Contents
    BY <1>3, ContentsSame
<1> QED BY <1>7, <1>8, <1>9, <1>10
        DEF Promise!Refuse, Contents, Pending, Taken, Writes

\* Whatever ends the stream forgets what the server has taken.
LEMMA LossForgets ==
    ASSUME TypeOK, TypeOK', UNCHANGED <<docs, batches>>, responses' = <<>>,
           NEW w \in User, w = user
    PROVE  Promise!Forget(w)
BY AnswerLost, ContentsSame, PendingSame
   DEF Promise!Forget, Contents, Pending, Taken, Writes

LEMMA ServerTakesOne ==
    ASSUME IInv, IInv', ServerTakes,
           NEW w \in User, w = user
    PROVE  Promise!Take(w)
<1> DEFINE b == Head(requests)
           r == Len(responses)
           q == batches[user]
<1>1. /\ TypeOK /\ TypeOK' /\ IdsIncrease /\ PipelineIsQueue
      /\ requests # <<>> /\ Served
      /\ responses \in Seq(Response) /\ requests \in Seq(Batch)
      /\ user \in User /\ q \in Seq(Batch)
    BY DEF IInv, TypeOK, ServerTakes
<1>2. /\ Accepted(b.m) /\ Takes(b.m) /\ batches' = batches /\ user' = user
      /\ responses' = Append(responses,
             [ok |-> TRUE, id |-> b.id, version |-> docs'[b.m.key].version])
    BY DEF ServerTakes, store
<1>3. /\ r \in Nat /\ r + 1 \in 1 .. Len(pipeline) /\ b = pipeline[r + 1]
      /\ b \in Batch
    BY <1>1, FirstRequest, HeadTailProperties
<1>4. /\ Len(pipeline) \in 0 .. Len(q) /\ Len(q) \in Nat
      /\ \A i \in 1 .. Len(pipeline) : pipeline[i] = q[i]
    BY <1>1, QueueFacts, LenProperties, Zenon
<1> HIDE DEF b, q
<1>5. r + 1 \in 1 .. Len(q) /\ b = q[r + 1]
    BY <1>3, <1>4
<1>6. /\ Pending[user] = Writes(q) /\ Len(Writes(q)) = Len(q)
      /\ Writes(q)[r + 1] = b.m
    <2>1. Pending[user] = Writes(q)
        BY <1>1 DEF Pending, q
    <2> QED BY <1>1, <1>5, <2>1, WritesType
<1>7. b.m \in Mutation /\ b.id \in Nat \ {0}
    BY <1>3 DEF Batch
<1>8. HoldsIn(b.m, Contents) /\ Contents' = EffectOn(b.m, Contents)
    BY <1>1, <1>2, <1>7, HoldsHere, ContentsTaken DEF Accepted
<1>9. Taken[user] = r
    BY <1>1, <1>3, TakenFacts, EmptySeq DEF Served
<1>10. Taken' = [Taken EXCEPT ![user] = @ + 1]
    <2> DEFINE a == [ok |-> TRUE, id |-> b.id, version |-> docs'[b.m.key].version]
    <2>1. a \in Response /\ a.ok
        <3>1. docs' \in [Key -> Doc] /\ b.m.key \in Key
            BY <1>1, <1>2, <1>7, TakesType
        <3> QED BY <1>7, <3>1 DEF Response, Doc
    <2> HIDE DEF a
    <2>2. responses' = Append(responses, a)
        BY <1>2 DEF a
    <2>3. /\ responses' \in Seq(Response) /\ Len(responses') = r + 1
          /\ responses'[r + 1] = a
        BY <1>1, <2>1, <2>2, AppendProperties
    <2>4. responses' # <<>>
        BY <1>3, <2>3
    <2> HIDE DEF r
    <2>5. Taken'[user] = r + 1 /\ \A u \in User \ {user} : Taken'[u] = 0
        <3>1. /\ Taken'[user] = IF responses' = <<>> THEN 0
                                ELSE IF responses'[Len(responses')].ok
                                THEN Len(responses') ELSE Len(responses') - 1
              /\ \A u \in User \ {user} : Taken'[u] = 0
            BY <1>1, <1>2, TakenFactsAfter
        <3> QED BY <2>1, <2>3, <2>4, <3>1
    <2>6. /\ Taken = [u \in User |-> Taken[u]] /\ Taken' = [u \in User |-> Taken'[u]]
          /\ \A u \in User \ {user} : Taken[u] = 0
        BY <1>1, TakenFacts DEF Taken
    <2>7. \A u \in User : Taken'[u] = [Taken EXCEPT ![user] = @ + 1][u]
        BY <1>1, <1>9, <2>5, <2>6
    <2> QED BY <2>6, <2>7
<1>11. Pending' = Pending
    BY <1>2, PendingSame
<1>12. /\ Taken[user] < Len(Pending[user])
       /\ Pending[user][Taken[user] + 1] = b.m
    <2> HIDE DEF r
    <2> QED BY <1>3, <1>4, <1>5, <1>6, <1>9
<1> HIDE DEF r
<1> QED BY <1>8, <1>10, <1>11, <1>12
        DEF Promise!Take, Contents, Pending, Taken, Writes

\* A refusal takes nothing.
LEMMA RefusalStutters ==
    ASSUME IInv, IInv', ServerRefuses
    PROVE  UNCHANGED <<Contents, Pending, Taken>>
<1> DEFINE a == [ok |-> FALSE, id |-> Head(requests).id, version |-> 0]
           r == Len(responses)
<1>1. /\ TypeOK /\ TypeOK' /\ requests # <<>> /\ Served
      /\ responses \in Seq(Response) /\ requests \in Seq(Batch)
    BY DEF IInv, TypeOK, ServerRefuses
<1>2. /\ responses' = Append(responses, a)
      /\ docs' = docs /\ batches' = batches /\ user' = user
    BY DEF ServerRefuses, server, store
<1>3. a \in Response /\ ~a.ok
    <2>1. Head(requests) \in Batch
        BY <1>1, HeadTailProperties
    <2> QED BY <2>1 DEF Response, Batch
<1> HIDE DEF a
<1>4. /\ responses' \in Seq(Response) /\ r \in Nat /\ Len(responses') = r + 1
      /\ responses'[r + 1] = a
    BY <1>1, <1>2, <1>3, AppendProperties, LenProperties
<1>5. responses' # <<>>
    BY <1>4
<1>6. Taken[user] = r /\ \A u \in User \ {user} : Taken[u] = 0
    <2>1. responses # <<>> => responses[r].ok
        BY <1>1, EmptySeq DEF Served
    <2>2. responses = <<>> => r = 0
        BY EmptySeq
    <2> QED BY <1>1, <2>1, <2>2, TakenFacts
<1> HIDE DEF r
<1>7. Taken'[user] = r /\ \A u \in User \ {user} : Taken'[u] = 0
    <2>1. /\ Taken'[user] = IF responses' = <<>> THEN 0
                            ELSE IF responses'[Len(responses')].ok
                            THEN Len(responses') ELSE Len(responses') - 1
          /\ \A u \in User \ {user} : Taken'[u] = 0
        BY <1>1, <1>2, TakenFactsAfter
    <2> QED BY <1>3, <1>4, <1>5, <2>1
<1>8. Taken' = Taken
    <2>1. \A u \in User : Taken'[u] = Taken[u]
        BY <1>6, <1>7
    <2>2. Taken = [u \in User |-> Taken[u]] /\ Taken' = [u \in User |-> Taken'[u]]
        BY DEF Taken
    <2> QED BY <2>1, <2>2
<1> QED BY <1>2, <1>8, ContentsSame, PendingSame

LEMMA OtherWritesElsewhere ==
    ASSUME TypeOK, NEW m \in OtherWrites, OtherDeviceWrites(m)
    PROVE  Promise!Elsewhere(m)
<1>1. m \in Mutation
    BY ClientAssumption
<1>2. /\ Precondition(m, docs[m.key].data) /\ Takes(m)
      /\ batches' = batches /\ user' = user /\ responses' = responses
    BY DEF OtherDeviceWrites, store, channels
<1>3. HoldsIn(m, Contents) /\ Contents' = EffectOn(m, Contents)
    BY <1>1, <1>2, HoldsHere, ContentsTaken
<1>4. Pending' = Pending /\ Taken' = Taken
    BY <1>2, PendingSame, AnswersSame
<1> QED BY <1>3, <1>4 DEF Promise!Elsewhere, Contents, Pending, Taken, Writes

LEMMA StepKeepsPromise ==
    ASSUME IInv, IInv', [Next]_vars
    PROVE  Promise!Next \/ UNCHANGED <<Contents, Pending, Taken>>
<1>1. TypeOK /\ TypeOK'
    BY DEF IInv
<1> PICK w \in User : w = user
    BY <1>1 DEF TypeOK
<1>2. CASE \E m \in OwnWrites : WriteMutations(m)
    <2>1. PICK m \in OwnWrites : WriteMutations(m)
        BY <1>2
    <2>2. Promise!Issue(w, m) /\ m \in AnyWrite
        BY <1>1, <2>1, WriteIssues DEF AnyWrite
    <2> QED BY <2>2, Zenon DEF Promise!Next
<1>3. CASE OnWriteStreamMutationResult
    <2>1. Promise!Confirm(w)
        BY <1>3, ResultConfirms
    <2> QED BY <2>1, Zenon DEF Promise!Next
<1>4. CASE HandleWriteError
    <2>1. Promise!Refuse(w)
        BY <1>4, ErrorRefuses
    <2> QED BY <2>1, Zenon DEF Promise!Next
<1>5. CASE \/ OnWriteStreamClose \/ IdleTimeout \/ Initialize
           \/ \E u \in User : HandleCredentialChange(u)
    <2>1. UNCHANGED <<docs, batches>> /\ responses' = <<>>
        BY <1>5 DEF OnWriteStreamClose, IdleTimeout, Initialize,
                    HandleCredentialChange, StreamsReset, server, store
    <2>2. Promise!Forget(w)
        BY <1>1, <2>1, LossForgets
    <2> QED BY <2>2, Zenon DEF Promise!Next
<1>6. CASE ServerTakes
    <2>1. Promise!Take(w)
        BY <1>6, ServerTakesOne
    <2> QED BY <2>1, Zenon DEF Promise!Next
<1>7. CASE ServerRefuses
    BY <1>7, RefusalStutters
<1>8. CASE \E m \in OtherWrites : OtherDeviceWrites(m)
    <2>1. PICK m \in OtherWrites : OtherDeviceWrites(m)
        BY <1>8
    <2>2. Promise!Elsewhere(m) /\ m \in AnyWrite
        BY <1>1, <2>1, OtherWritesElsewhere DEF AnyWrite
    <2> QED BY <2>2, Zenon DEF Promise!Next
<1>9. CASE \/ OnWriteStreamOpen \/ OnWriteStreamHandshakeComplete \/ BackoffElapsed
           \/ ServerSends \/ ApplyRemoteEvent \/ OnWatchStreamClose \/ UNCHANGED vars
    <2>1. UNCHANGED <<docs, batches, user, responses>>
        BY <1>9 DEF OnWriteStreamOpen, OnWriteStreamHandshakeComplete, BackoffElapsed,
                    ServerSends, ApplyRemoteEvent, OnWatchStreamClose, vars,
                    server, store, channels
    <2> QED BY <2>1, ContentsSame, PendingSame, AnswersSame
<1> QED BY <1>2, <1>3, <1>4, <1>5, <1>6, <1>7, <1>8, <1>9, Zenon
        DEF Next, WriteStreamSteps, WatchSteps

\* The client's queue, stream, restarts and changes of user, and the server, do
\* what Firestore promises an app that writes: each user's writes are taken in
\* the order they were issued, and none is dropped before it has been taken or
\* refused.
THEOREM ImplementsReplicaHolds == Spec => ImplementsReplica
<1>1. Init => Promise!Init
    <2> SUFFICES ASSUME Init PROVE Promise!Init
        OBVIOUS
    <2>1. \A k \in Key : docs[k].data = FirstData[k]
        BY Zenon DEF Init
    <2>2. Contents = FirstData
        BY <2>1, ClientAssumption, Zenon DEF Contents
    <2>3. \A u \in User : batches[u] = <<>> /\ TakenOf(u) = 0
        BY DEF Init, TakenOf
    <2>4. \A u \in User : Writes(batches[u]) = <<>>
        BY <2>3 DEF Writes
    <2> QED BY <2>2, <2>3, <2>4 DEF Promise!Init, Contents, Pending, Taken, Writes
<1>2. IInv /\ IInv' /\ [Next]_vars
          => [Promise!Next]_<<Contents, Pending, Taken>>
    BY StepKeepsPromise
<1>3. IInv /\ [Next]_vars => IInv'
    BY NextKeeps
<1> QED BY <1>1, <1>2, <1>3, InitIInv, PTL
        DEF Spec, ImplementsReplica, Promise!Spec, Contents, Pending, Taken, Writes
=============================================================================
